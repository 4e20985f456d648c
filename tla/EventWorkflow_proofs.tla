------------------------ MODULE EventWorkflow_proofs ------------------------
(***************************************************************************)
(* Proofs about EventWorkflow: its types, and that the oracle set keeps    *)
(* the promise of OracleDecision for any match, any number of signers and  *)
(* any strict majority as the threshold.                                   *)
(*                                                                         *)
(* Two facts carry the refinement.  What an old record said does not       *)
(* change when a later one arrives, so a verdict that was right when the   *)
(* signer read the snapshot stays in Said until it signs.  And a signer's  *)
(* journal agrees with every signature it has made, so that two quorums,   *)
(* which share a signer, carry one decision.                               *)
(***************************************************************************)
EXTENDS EventWorkflow, MarketReducer_proofs, FiniteSums, SequenceTheorems

-----------------------------------------------------------------------------
(* The inductive invariant. *)

VoidReasons == {"cancelled", "abandoned", "coverage_loss", "undecidable"}

\* The snapshot is the played part of the script.
FeedIsThePlayed ==
    /\ script \in Scripts /\ feed \in Seq(FeedRecords) /\ Len(feed) <= Len(script)
    /\ \A i \in DOMAIN feed : feed[i].seq = script[i].seq
    /\ cursor \in 0..Len(feed) /\ now \in Nat /\ faults \in 0..MaxFaults

\* Every request is about a verdict: there is none for an undecided market.
AsksVerdict(att) ==
    \/ att.kind = "settlement" /\ att.outcome \in Won
    \/ att.kind = "void" /\ att.outcome \in VoidReasons

RowFields ==
    {"att", "debounce", "state", "held", "attempts", "asked", "got", "signed", "job", "linked"}

IsRow(row) == row = [f \in RowFields |-> row[f]]

RowOK(row) ==
    /\ IsRow(row)
    /\ RowTypeOK(row)
    /\ row.signed # {} => Cardinality(row.signed) = Threshold
    /\ row.job # "none" => Cardinality(row.signed) = Threshold
    /\ row.held => row.attempts >= 1
    /\ AsksVerdict(row.att)

RowsOK ==
    /\ Len(rows) \in Nat /\ rows = [i \in 1..Len(rows) |-> rows[i]]
    /\ \A i \in DOMAIN rows : RowOK(rows[i])

\* A signer that is about to sign has read the verdict in the snapshot.
InflightIsSaid ==
    /\ inflight \subseteq Signers \X (DOMAIN rows) \X (1..MaxAttempts)
    /\ \A request \in inflight : rows[request[2]].att.outcome \in Said

\* The journal agrees with every signature, and every signature with the facts.
JournalKeepsSignatures ==
    /\ journal = [s \in Signers |-> journal[s]]
    /\ \A x \in signatures :
         /\ x = <<x[1], x[2]>> /\ x[1] \in Signers
         /\ journal[x[1]] = Decision(x[2])
         /\ x[2].outcome \in Said /\ AsksVerdict(x[2])

IInv ==
    /\ FeedIsThePlayed
    /\ StateOK(mem)
    /\ RowsOK
    /\ InflightIsSaid
    /\ JournalKeepsSignatures
    /\ chain.state \in {"open", "settling", "voided"}

-----------------------------------------------------------------------------
(* The goals that stand at a sequence number, over any snapshot F. *)

\* R is the recursive function of standingGoals up to record n.
IsTally(F, q, n, R) ==
    R = [m \in 0..n |-> IF m = 0 THEN {}
                        ELSE IF F[m].seq > q THEN R[m - 1]
                        ELSE trackGoals(R[m - 1], F[m])]

GoalsOf(F, q) == (CHOOSE R : IsTally(F, q, Len(F), R))[Len(F)]

\* The recursive function exists.
LEMMA TallyExists ==
    ASSUME NEW F, NEW q, NEW n \in Nat
    PROVE  \E R : IsTally(F, q, n, R)
<1> DEFINE Bad == {m \in Nat : ~ \E R : IsTally(F, q, m, R)}
<1>1. Bad = {}
  <2> SUFFICES ASSUME Bad # {} PROVE FALSE
    OBVIOUS
  <2>1. PICK m \in Bad : \A k \in Bad : m <= k
    BY LeastNatural
  <2>2. m \in Nat /\ ~ \E R : IsTally(F, q, m, R)
    OBVIOUS
  <2>3. CASE m = 0
    <3> DEFINE R == [k \in 0..0 |-> {}]
    <3>1. IsTally(F, q, m, R)
      BY <2>3 DEF IsTally
    <3> QED
      BY <2>2, <3>1
  <2>4. CASE m # 0
    <3>1. m - 1 \in Nat /\ ~(m <= m - 1)
      BY <2>2, <2>4
    <3>2. \E R : IsTally(F, q, m - 1, R)
      BY <2>1, <3>1
    <3>3. PICK R : IsTally(F, q, m - 1, R)
      BY <3>2
    <3> DEFINE Step(S, k) == IF k = 0 THEN {}
                             ELSE IF F[k].seq > q THEN S[k - 1] ELSE trackGoals(S[k - 1], F[k])
               Q == [k \in 0..m |-> IF k = m THEN Step(R, m) ELSE R[k]]
    <3>4. \A k \in 0..(m - 1) : R[k] = Step(R, k)
      BY <3>3 DEF IsTally
    <3>5. \A k \in 0..m : k # m => k \in 0..(m - 1)
      BY <2>2
    <3>6. \A k \in 0..m : k # 0 => k - 1 \in 0..(m - 1) /\ k - 1 # m /\ k - 1 \in 0..m
      BY <2>2
    <3>7. \A k \in 0..m : k # 0 => Q[k - 1] = R[k - 1]
      BY <3>6
    <3>8. \A k \in 0..m : Step(Q, k) = Step(R, k)
      <4> HIDE DEF Q
      <4> QED
        BY <3>7
    <3>9. \A k \in 0..m : Q[k] = Step(R, k)
      <4> HIDE DEF Step
      <4> QED
        BY <3>4, <3>5
    <3>10. Q = [k \in 0..m |-> Step(Q, k)]
      <4>1. \A k \in 0..m : Q[k] = Step(Q, k)
        BY <3>8, <3>9
      <4>2. Q = [k \in 0..m |-> Q[k]]
        OBVIOUS
      <4> HIDE DEF Q, Step
      <4> QED
        BY <4>1, <4>2
    <3>11. IsTally(F, q, m, Q)
      <4> HIDE DEF Q
      <4> QED
        BY <3>10 DEF IsTally
    <3> HIDE DEF Q
    <3> QED
      BY <2>2, <3>11
  <2> QED
    BY <2>3, <2>4
<1>2. n \notin Bad
  BY <1>1
<1> QED
  BY <1>2

\* Two snapshots that agree up to record k have the same standing goals there.
LEMMA TallyUnique ==
    ASSUME NEW F, NEW G, NEW q, NEW n \in Nat, NEW p \in Nat, NEW R, NEW Q,
           IsTally(F, q, n, R), IsTally(G, q, p, Q),
           NEW k \in Nat, k <= n, k <= p, \A m \in 1..k : F[m] = G[m]
    PROVE  R[k] = Q[k]
<1> DEFINE Bad == {m \in Nat : m <= k /\ R[m] # Q[m]}
<1>1. Bad = {}
  <2> SUFFICES ASSUME Bad # {} PROVE FALSE
    OBVIOUS
  <2>1. PICK m \in Bad : \A j \in Bad : m <= j
    BY LeastNatural
  <2>2. m \in Nat /\ m <= k /\ R[m] # Q[m]
    OBVIOUS
  <2>3. m \in 0..n /\ m \in 0..p
    BY <2>2
  <2>4. /\ R[m] = IF m = 0 THEN {} ELSE IF F[m].seq > q THEN R[m - 1] ELSE trackGoals(R[m - 1], F[m])
        /\ Q[m] = IF m = 0 THEN {} ELSE IF G[m].seq > q THEN Q[m - 1] ELSE trackGoals(Q[m - 1], G[m])
    BY <2>3 DEF IsTally
  <2>5. m # 0
    BY <2>2, <2>4
  <2>6. m - 1 \in Nat /\ m - 1 <= k /\ ~(m <= m - 1) /\ m \in 1..k
    BY <2>2, <2>5
  <2>7. R[m - 1] = Q[m - 1]
    BY <2>1, <2>6
  <2>8. F[m] = G[m]
    BY <2>6
  <2> HIDE DEF Bad
  <2> QED
    BY <2>2, <2>4, <2>7, <2>8
<1> QED
  BY <1>1

\* A later record does not change the goals that stood before it.
LEMMA GoalsStand ==
    ASSUME NEW F, Len(F) \in Nat, NEW G, Len(G) = Len(F) + 1,
           \A m \in 1..Len(F) : F[m] = G[m], NEW q, G[Len(F) + 1].seq > q
    PROVE  GoalsOf(G, q) = GoalsOf(F, q)
<1> DEFINE R == CHOOSE X : IsTally(F, q, Len(F), X)
           Q == CHOOSE X : IsTally(G, q, Len(G), X)
<1>1. Len(G) \in Nat
  OBVIOUS
<1>2. IsTally(F, q, Len(F), R)
  BY TallyExists, Zenon
<1>3. IsTally(G, q, Len(G), Q)
  BY <1>1, TallyExists, Zenon
<1>4. GoalsOf(F, q) = R[Len(F)] /\ GoalsOf(G, q) = Q[Len(G)]
  BY DEF GoalsOf
<1> HIDE DEF R, Q
<1>5. R[Len(F)] = Q[Len(F)]
  <2> DEFINE n == Len(F)
             p == Len(G)
  <2>1. n \in Nat /\ p \in Nat /\ n <= n /\ n <= p /\ IsTally(F, q, n, R) /\ IsTally(G, q, p, Q)
    BY <1>1, <1>2, <1>3
  <2>2. \A m \in 1..n : F[m] = G[m]
    OBVIOUS
  <2> HIDE DEF n, p
  <2>3. R[n] = Q[n]
    BY ONLY <2>1, <2>2, TallyUnique
  <2> QED
    BY <2>3 DEF n
<1>6. Q[Len(G)] = Q[Len(F)]
  <2>1. Len(G) \in 0..Len(G) /\ Len(G) # 0 /\ Len(G) - 1 = Len(F)
    OBVIOUS
  <2>2. Q[Len(G)] = IF G[Len(G)].seq > q THEN Q[Len(G) - 1]
                    ELSE trackGoals(Q[Len(G) - 1], G[Len(G)])
    BY <1>3, <2>1 DEF IsTally
  <2> QED
    BY <2>1, <2>2
<1> QED
  BY <1>4, <1>5, <1>6

-----------------------------------------------------------------------------
(* What a snapshot says. *)

ScratchOf(F, seq) == [initialScratch(Claim) EXCEPT !.goals = GoalsOf(F, seq)]

OutcomeOf(F, event) ==
    evaluateSpec(Claim, event.score, event.phase, playerGoalCount(ScratchOf(F, event.seq), Claim))

VoidOf(F, event) ==
    IF voidReason(event) # "undecidable" \/ event.phase = "POST" THEN voidReason(event)
    ELSE IF event.phase \in TERMINAL_PHASES /\ OutcomeOf(F, event) = NoOutcome
    THEN voidReason(event) ELSE NoVoid

VerdictsOf(F, event) ==
    ({OutcomeOf(F, event) : x \in {event.phase} \cap TERMINAL_PHASES}
       \cup {VoidOf(F, event)}) \ {NoOutcome, NoVoid}

SaidOf(F) == UNION {VerdictsOf(F, event) : event \in Range(F)}

\* The model's operators are these, at the snapshot.
LEMMA SaidIsOfFeed ==
    /\ \A q : standingGoals(q) = GoalsOf(feed, q)
    /\ \A event : claimedOutcome(event) = OutcomeOf(feed, event)
    /\ \A event : signerVoidReason(event) = VoidOf(feed, event)
    /\ Said = SaidOf(feed)
<1>1. \A q : standingGoals(q) = GoalsOf(feed, q)
  BY Zenon DEF standingGoals, GoalsOf, IsTally
<1>2. \A event : claimedOutcome(event) = OutcomeOf(feed, event)
  BY <1>1, Zenon DEF claimedOutcome, OutcomeOf, ScratchAt, ScratchOf
<1>3. \A event : signerVoidReason(event) = VoidOf(feed, event)
  BY <1>2, Zenon DEF signerVoidReason, VoidOf
<1>4. \A event : Verdicts(event) = VerdictsOf(feed, event)
  BY <1>2, <1>3, Zenon DEF Verdicts, VerdictsOf
<1>5. Said = SaidOf(feed)
  BY <1>4, Zenon DEF Said, SaidOf
<1> QED
  BY <1>1, <1>2, <1>3, <1>5

\* The same in the next state.
LEMMA SaidIsOfFeedNext == Said' = SaidOf(feed')
<1>1. \A q : standingGoals(q)' = GoalsOf(feed', q)
  BY Zenon DEF standingGoals, GoalsOf, IsTally
<1>2. \A event : claimedOutcome(event)' = OutcomeOf(feed', event)
  BY <1>1, Zenon DEF claimedOutcome, OutcomeOf, ScratchAt, ScratchOf
<1>3. \A event : signerVoidReason(event)' = VoidOf(feed', event)
  BY <1>2, Zenon DEF signerVoidReason, VoidOf
<1>4. \A event : Verdicts(event)' = VerdictsOf(feed', event)
  BY <1>2, <1>3, Zenon DEF Verdicts, VerdictsOf
<1> QED
  BY <1>4, Zenon DEF Said, SaidOf

\* A verdict that the snapshot has given is not withdrawn by a later record.
LEMMA SaidGrows ==
    ASSUME NEW F, F \in Seq(FeedRecords), NEW e \in FeedRecords,
           \A i \in DOMAIN F : F[i].seq < e.seq
    PROVE  SaidOf(F) \subseteq SaidOf(Append(F, e))
<1> DEFINE G == Append(F, e)
<1>1. /\ Len(F) \in Nat /\ DOMAIN F = 1..Len(F) /\ Len(G) = Len(F) + 1 /\ DOMAIN G = 1..(Len(F) + 1)
      /\ \A m \in 1..Len(F) : F[m] = G[m]
      /\ G[Len(F) + 1] = e
  OBVIOUS
<1>2. \A i \in DOMAIN F : F[i] \in FeedRecords
  OBVIOUS
<1>3. \A i \in DOMAIN F : F[i].seq \in Nat /\ e.seq \in Nat
  BY <1>2 DEF FeedRecords
<1> HIDE DEF G
<1>4. ASSUME NEW i \in DOMAIN F PROVE VerdictsOf(G, F[i]) = VerdictsOf(F, F[i]) /\ F[i] \in Range(G)
  <2>1. G[Len(F) + 1].seq > F[i].seq
    BY <1>1, <1>3
  <2>2. GoalsOf(G, F[i].seq) = GoalsOf(F, F[i].seq)
    BY <1>1, <2>1, GoalsStand
  <2>3. OutcomeOf(G, F[i]) = OutcomeOf(F, F[i])
    BY <2>2, Zenon DEF OutcomeOf, ScratchOf
  <2>4. VerdictsOf(G, F[i]) = VerdictsOf(F, F[i])
    BY <2>3, Zenon DEF VerdictsOf, VoidOf
  <2>5. F[i] = G[i] /\ i \in DOMAIN G
    BY <1>1
  <2> QED
    BY <2>4, <2>5 DEF Range
<1>5. \A event \in Range(F) : VerdictsOf(F, event) = VerdictsOf(G, event) /\ event \in Range(G)
  BY <1>4 DEF Range
<1>6. SaidOf(F) \subseteq SaidOf(G)
  BY <1>5 DEF SaidOf
<1> QED
  BY <1>6 DEF G

-----------------------------------------------------------------------------
(* The requests. *)

LEMMA EndpointsLength == Len(Endpoints) \in Nat /\ DOMAIN Endpoints = 1..Len(Endpoints)
  BY WorkflowAssumption

LEMMA RequestOK ==
    ASSUME NEW att, AsksVerdict(att), NEW debounce
    PROVE  RowOK(Request(att, debounce))
<1> DEFINE row == Request(att, debounce)
<1>1. /\ row.att = att /\ row.debounce = debounce /\ row.state = "pending" /\ row.held = FALSE
      /\ row.attempts = 0 /\ row.asked = 0 /\ row.got = {} /\ row.signed = {} /\ row.job = "none"
      /\ row.linked = FALSE
  BY DEF Request
<1>2. IsRow(row)
  BY DEF Request, IsRow, RowFields
<1> HIDE DEF row
<1>3. RowTypeOK(row)
  <2>1. 0 \in 0..MaxAttempts /\ 0 \in 0..Len(Endpoints)
    BY EndpointsLength, WorkflowAssumption
  <2> QED
    BY <1>1, <2>1 DEF RowTypeOK
<1> QED
  BY <1>1, <1>2, <1>3 DEF RowOK, row

LEMMA VoidReasonOK ==
    ASSUME NEW event
    PROVE  voidReason(event) \in VoidReasons
  BY DEF voidReason, VoidReasons

\* The scheduler stores at most one request, about a verdict.
LEMMA NewRequestsOK ==
    ASSUME NEW previous, NEW result, ResultOK(result), NEW event
    PROVE  \/ NewRequests(previous, result, event) = <<>>
           \/ \E row : RowOK(row) /\ NewRequests(previous, result, event) = <<row>>
<1> DEFINE terminal == result.effects.terminal
           pending == result.state.pending
           ended == TerminalRequest(terminal, event)
           armed == Attestation("settlement", pending.outcome, pending.decidingSeq,
                                pending.evidence, event)
<1>1. terminal # NoTerminal => AsksVerdict(ended)
  <2>1. terminal # NoTerminal => terminal.outcome \in Won \cup {"void"}
    BY DEF ResultOK, TerminalOK
  <2>2. terminal.outcome = "void" => AsksVerdict(ended)
    BY VoidReasonOK DEF TerminalRequest, Attestation, AsksVerdict
  <2>3. terminal.outcome \in Won => AsksVerdict(ended)
    BY DEF TerminalRequest, Attestation, AsksVerdict, Won
  <2> QED
    BY <2>1, <2>2, <2>3
<1>2. pending # NoCandidate => AsksVerdict(armed)
  <2>1. pending # NoCandidate => pending.outcome \in Won
    BY DEF ResultOK, StateOK
  <2> QED
    BY <2>1 DEF Attestation, AsksVerdict
<1>3. NewRequests(previous, result, event) =
        IF terminal # NoTerminal THEN <<Request(ended, event.rcv)>>
        ELSE IF pendingSettlementChanged(previous.pending, pending)
        THEN <<Request(armed, pending.until)>> ELSE <<>>
  BY DEF NewRequests
<1>4. pendingSettlementChanged(previous.pending, pending) => pending # NoCandidate
  BY DEF pendingSettlementChanged
<1> HIDE DEF terminal, pending, ended, armed
<1> QED
  BY <1>1, <1>2, <1>3, <1>4, RequestOK

\* Rows stay, with what they ask for.
RowsExtend ==
    /\ DOMAIN rows \subseteq DOMAIN rows'
    /\ \A i \in DOMAIN rows : rows'[i].att = rows[i].att

LEMMA ReduceKeeps ==
    ASSUME IInv, NEW i, Reduce(i)
    PROVE  StateOK(mem)' /\ RowsOK' /\ RowsExtend
<1> DEFINE event == [feed[i] EXCEPT !.rcv = now]
           result == reduceMarket(Claim, hydrate, event)
           new == NewRequests(hydrate, result, event)
<1>1. StateOK(hydrate)
  <2>1. CASE mem = NoState
    <3>1. RowStatus \in {"open", "pending_lineup"}
      BY RowAssumption
    <3>2. hydrate = [status |-> RowStatus, pending |-> NoCandidate, positions |-> <<>>,
                     scratch |-> initialScratch(Claim)]
      BY <2>1 DEF hydrate, NoState
    <3> QED
      BY <3>1, <3>2 DEF StateOK
  <2>2. CASE mem # NoState
    BY <2>2 DEF IInv, hydrate
  <2> QED
    BY <2>1, <2>2
<1>2. StateOK(result.state) /\ ResultOK(result)
  BY <1>1, ReducerOK DEF ResultOK
<1>3. new = <<>> \/ \E row : RowOK(row) /\ new = <<row>>
  BY <1>2, NewRequestsOK
<1>4. \/ UNCHANGED <<mem, rows>>
      \/ mem' \in {mem, result.state} /\ UNCHANGED rows
      \/ mem' = result.state /\ rows' = rows \o new
  BY Zenon DEF Reduce
<1> HIDE DEF event, result, new
<1>5. StateOK(mem)'
  BY <1>2, <1>4 DEF IInv, StateOK
<1>6. CASE UNCHANGED rows
  <2>1. rows' = rows
    BY <1>6
  <2>2. RowsExtend
    BY <2>1, Zenon DEF RowsExtend
  <2>3. RowsOK'
    BY <2>1 DEF IInv, RowsOK, RowOK, RowTypeOK
  <2> QED
    BY <1>5, <2>2, <2>3
<1>7. CASE rows' = rows \o new
  <2> DEFINE A == {rows[j] : j \in DOMAIN rows} \cup {new[j] : j \in DOMAIN new}
  <2>1. Len(rows) \in Nat /\ rows = [j \in 1..Len(rows) |-> rows[j]] /\ DOMAIN rows = 1..Len(rows)
    BY DEF IInv, RowsOK
  <2>2. rows \in Seq(A)
    BY <2>1
  <2>3. CASE new = <<>>
    <3>1. rows' = rows
      BY <1>7, <2>2, <2>3
    <3> QED
      BY <1>6, <3>1
  <2>4. CASE new # <<>>
    <3>1. PICK row : RowOK(row) /\ new = <<row>>
      BY <1>3, <2>4
    <3>2. row \in A
      BY <3>1
    <3> HIDE DEF A
    <3>3. /\ rows' = Append(rows, row) /\ rows' \in Seq(A) /\ Len(rows') = Len(rows) + 1
          /\ DOMAIN rows' = 1..(Len(rows) + 1)
          /\ rows'[Len(rows) + 1] = row /\ \A j \in 1..Len(rows) : rows'[j] = rows[j]
      BY <1>7, <2>2, <3>1, <3>2
    <3>4. rows' = [j \in 1..Len(rows') |-> rows'[j]]
      <4>1. rows' \in [1..Len(rows') -> A]
        BY <3>3, LenProperties
      <4> QED
        BY <4>1
    <3>5. \A j \in DOMAIN rows' : RowOK(rows'[j])
      BY <2>1, <3>1, <3>3 DEF IInv, RowsOK
    <3>6. RowsExtend
      BY <2>1, <3>3 DEF RowsExtend
    <3>7. RowsOK'
      BY <2>1, <3>3, <3>4, <3>5 DEF RowsOK, RowOK, RowTypeOK
    <3> QED
      BY <1>5, <3>6, <3>7
  <2> QED
    BY <2>3, <2>4
<1> QED
  BY <1>4, <1>5, <1>6, <1>7

-----------------------------------------------------------------------------
(* What every step but PublishNext has in common. *)

LEMMA SaidKeeps ==
    ASSUME feed' = feed
    PROVE  Said' = Said
  BY SaidIsOfFeed, SaidIsOfFeedNext, Zenon

LEMMA FeedKeeps ==
    ASSUME IInv, UNCHANGED <<script, feed>>, cursor' \in 0..Len(feed), now' \in Nat,
           faults' \in 0..MaxFaults
    PROVE  FeedIsThePlayed'
  BY DEF IInv, FeedIsThePlayed

LEMMA SignersKeep ==
    ASSUME IInv, UNCHANGED <<feed, journal, signatures>>, RowsExtend, inflight' \subseteq inflight
    PROVE  InflightIsSaid' /\ JournalKeepsSignatures'
<1>1. Said' = Said
  BY SaidKeeps
<1>2. InflightIsSaid'
  <2>1. \A request \in inflight : /\ request \in Signers \X (DOMAIN rows) \X (1..MaxAttempts)
                                  /\ rows[request[2]].att.outcome \in Said
    BY DEF IInv, InflightIsSaid
  <2>2. \A request \in inflight' : /\ request \in Signers \X (DOMAIN rows') \X (1..MaxAttempts)
                                   /\ request[2] \in DOMAIN rows
    BY <2>1 DEF RowsExtend
  <2>3. \A request \in inflight' : rows'[request[2]].att.outcome \in Said'
    BY <1>1, <2>1, <2>2 DEF RowsExtend
  <2> QED
    BY <2>2, <2>3 DEF InflightIsSaid
<1>3. JournalKeepsSignatures'
  BY <1>1 DEF IInv, JournalKeepsSignatures, Decision
<1> QED
  BY <1>2, <1>3

LEMMA RowsStay ==
    ASSUME IInv, rows' = rows
    PROVE  RowsOK' /\ RowsExtend
<1>1. RowsExtend
  BY Zenon DEF RowsExtend
<1>2. RowsOK'
  BY DEF IInv, RowsOK, RowOK, RowTypeOK
<1> QED
  BY <1>1, <1>2

LEMMA RowChanges ==
    ASSUME IInv, NEW i \in DOMAIN rows, NEW row, RowOK(row), row.att = rows[i].att,
           rows' = [rows EXCEPT ![i] = row]
    PROVE  RowsOK' /\ RowsExtend
<1>1. /\ Len(rows) \in Nat /\ rows = [j \in 1..Len(rows) |-> rows[j]] /\ DOMAIN rows = 1..Len(rows)
      /\ \A j \in DOMAIN rows : RowOK(rows[j])
  BY DEF IInv, RowsOK
<1>2. /\ DOMAIN rows' = 1..Len(rows)
      /\ \A j \in DOMAIN rows' : rows'[j] = IF j = i THEN row ELSE rows[j]
  BY <1>1
<1>3. \A j \in DOMAIN rows' : RowOK(rows'[j]) /\ rows'[j].att = rows[j].att
  BY <1>1, <1>2
<1>4. Len(rows') = Len(rows)
  <2> DEFINE A == {rows'[j] : j \in DOMAIN rows'}
  <2>1. rows' \in [1..Len(rows) -> A]
    BY <1>1, <1>2
  <2> HIDE DEF A
  <2> QED
    BY <1>1, <2>1
<1>5. rows' = [j \in 1..Len(rows') |-> rows'[j]]
  BY <1>1, <1>2, <1>4
<1>6. RowsOK'
  BY <1>1, <1>3, <1>4, <1>5 DEF RowsOK, RowOK, RowTypeOK
<1>7. RowsExtend
  BY <1>1, <1>2, <1>3 DEF RowsExtend
<1> QED
  BY <1>6, <1>7

-----------------------------------------------------------------------------
(* The steps on one row. *)

LEMMA LeaseRows ==
    ASSUME IInv, NEW i \in DOMAIN rows, Lease(i)
    PROVE  RowsOK' /\ RowsExtend
<1> DEFINE row == rows[i]
           failed == [row EXCEPT !.state = "failed"]
           leased == [row EXCEPT !.state = "leased", !.held = TRUE, !.attempts = @ + 1,
                                 !.asked = 0, !.got = {}]
<1>1. RowOK(row)
  BY DEF IInv, RowsOK
<1>2. rows' = [rows EXCEPT ![i] = IF row.attempts >= MaxAttempts THEN failed ELSE leased]
  BY DEF Lease
<1> HIDE DEF row
<1>3. IsRow(row) /\ RowTypeOK(row)
  BY <1>1 DEF RowOK
<1>4. RowOK(failed) /\ failed.att = row.att
  BY <1>1, <1>3 DEF RowOK, RowTypeOK, IsRow, RowFields
<1>5. ~(row.attempts >= MaxAttempts) => RowOK(leased) /\ leased.att = row.att
  <2> SUFFICES ASSUME ~(row.attempts >= MaxAttempts) PROVE RowOK(leased) /\ leased.att = row.att
    OBVIOUS
  <2>1. /\ IsRow(leased) /\ leased.state = "leased" /\ leased.held = TRUE /\ leased.asked = 0
        /\ leased.attempts = row.attempts + 1 /\ leased.got = {} /\ leased.att = row.att
        /\ leased.signed = row.signed /\ leased.job = row.job /\ leased.linked = row.linked
    BY <1>3 DEF IsRow, RowFields
  <2>2. row.attempts + 1 \in 0..MaxAttempts /\ row.attempts + 1 >= 1 /\ 0 \in 0..Len(Endpoints)
    BY <1>3, WorkflowAssumption, EndpointsLength DEF RowTypeOK
  <2> HIDE DEF leased
  <2>3. RowTypeOK(leased)
    BY <1>3, <2>1, <2>2 DEF RowTypeOK
  <2> QED
    BY <1>1, <2>1, <2>2, <2>3 DEF RowOK
<1> HIDE DEF failed, leased
<1> DEFINE new == IF row.attempts >= MaxAttempts THEN failed ELSE leased
<1>6. RowOK(new) /\ new.att = row.att
  BY <1>4, <1>5
<1> HIDE DEF new
<1> QED
  BY <1>2, <1>6, RowChanges DEF new, row

LEMMA AnsweredRows ==
    ASSUME IInv, NEW i \in DOMAIN rows, Asking(rows[i]),
           NEW answer, answer \subseteq Signers, Answered(i, answer)
    PROVE  RowsOK' /\ RowsExtend
<1> DEFINE row == rows[i]
           new == [row EXCEPT !.asked = @ + 1, !.got = @ \cup answer]
<1>1. RowOK(row) /\ IsRow(row) /\ RowTypeOK(row)
  BY DEF IInv, RowsOK, RowOK
<1>2. rows' = [rows EXCEPT ![i] = new]
  BY DEF Answered
<1>3. row.asked + 1 \in 0..Len(Endpoints) /\ row.got \cup answer \subseteq Signers
  <2>1. row.asked < Len(Endpoints)
    BY DEF Asking
  <2>2. row.asked \in 0..Len(Endpoints) /\ row.got \subseteq Signers
    BY <1>1 DEF RowTypeOK
  <2> HIDE DEF row
  <2> QED
    BY <2>1, <2>2, EndpointsLength
<1>4. RowOK(new) /\ new.att = row.att
  <2> HIDE DEF row
  <2>1. /\ IsRow(new) /\ new.state = row.state /\ new.held = row.held /\ new.asked = row.asked + 1
        /\ new.attempts = row.attempts /\ new.got = row.got \cup answer /\ new.att = row.att
        /\ new.signed = row.signed /\ new.job = row.job /\ new.linked = row.linked
    BY <1>1 DEF IsRow, RowFields
  <2> HIDE DEF new
  <2>2. RowTypeOK(new)
    BY <1>1, <1>3, <2>1 DEF RowTypeOK
  <2> QED
    BY <1>1, <2>1, <2>2 DEF RowOK
<1> HIDE DEF new
<1> QED
  BY <1>2, <1>4, RowChanges

LEMMA RecordSignedRows ==
    ASSUME IInv, NEW i \in DOMAIN rows, RecordSigned(i)
    PROVE  RowsOK' /\ RowsExtend
<1> DEFINE row == rows[i]
           new == [row EXCEPT !.signed = row.got, !.state = "signed"]
<1>1. RowOK(row) /\ IsRow(row) /\ RowTypeOK(row)
  BY DEF IInv, RowsOK, RowOK
<1>2. rows' = [rows EXCEPT ![i] = new] /\ Cardinality(row.got) = Threshold
  BY DEF RecordSigned
<1>4. RowOK(new) /\ new.att = row.att
  <2> HIDE DEF row
  <2>1. /\ IsRow(new) /\ new.state = "signed" /\ new.held = row.held /\ new.asked = row.asked
        /\ new.attempts = row.attempts /\ new.got = row.got /\ new.att = row.att
        /\ new.signed = row.got /\ new.job = row.job /\ new.linked = row.linked
    BY <1>1 DEF IsRow, RowFields
  <2> HIDE DEF new
  <2>2. RowTypeOK(new)
    BY <1>1, <2>1 DEF RowTypeOK
  <2> QED
    BY <1>1, <1>2, <2>1, <2>2 DEF RowOK
<1> HIDE DEF new
<1> QED
  BY <1>2, <1>4, RowChanges

\* Steps that change the state, the lease, the job or the link of a row.
RowMoves(row, new) ==
    /\ new.att = row.att /\ new.attempts = row.attempts /\ new.asked = row.asked
    /\ new.got = row.got /\ new.signed = row.signed
    /\ new.state \in {"pending", "leased", "signed", "enqueued", "completed", "failed"}
    /\ new.job \in {"none", "queued", "complete", "dead"}
    /\ new.linked \in BOOLEAN
    /\ new.held \in {FALSE, row.held}
    /\ new.job # "none" => row.job # "none" \/ row.signed # {}

LEMMA MoveRows ==
    ASSUME IInv, NEW i \in DOMAIN rows, NEW row, IsRow(row), RowMoves(rows[i], row),
           rows' = [rows EXCEPT ![i] = row]
    PROVE  RowsOK' /\ RowsExtend
<1>1. RowOK(rows[i]) /\ RowTypeOK(rows[i])
  BY DEF IInv, RowsOK, RowOK
<1>2. RowTypeOK(row)
  <2>1. row.held \in BOOLEAN
    BY <1>1 DEF RowTypeOK, RowMoves
  <2> QED
    BY <1>1, <2>1 DEF RowTypeOK, RowMoves
<1>3. row.held => row.attempts >= 1
  <2>1. row.held => rows[i].held
    BY Zenon DEF RowMoves
  <2> QED
    BY <1>1, <2>1 DEF RowOK, RowMoves
<1>4. RowOK(row)
  BY <1>1, <1>2, <1>3 DEF RowOK, RowMoves
<1> QED
  BY <1>4, RowChanges DEF RowMoves

LEMMA WorkerRows ==
    ASSUME IInv, NEW i \in DOMAIN rows,
           \/ EnqueueJob(i) \/ MarkEnqueued(i) \/ Retry(i) \/ WorkerFails(i) \/ Complete(i)
           \/ Land(i) \/ JobDies(i)
    PROVE  RowsOK' /\ RowsExtend
<1> DEFINE row == rows[i]
<1>1. RowOK(row) /\ IsRow(row) /\ RowTypeOK(row)
  BY DEF IInv, RowsOK, RowOK
<1>2. /\ row.state \in {"pending", "leased", "signed", "enqueued", "completed", "failed"}
      /\ row.job \in {"none", "queued", "complete", "dead"} /\ row.linked \in BOOLEAN
  BY <1>1 DEF RowTypeOK
<1>3. CASE EnqueueJob(i)
  <2> DEFINE new == [row EXCEPT !.job = "queued"]
  <2>1. rows' = [rows EXCEPT ![i] = new] /\ row.signed # {}
    BY <1>3 DEF EnqueueJob
  <2> HIDE DEF row
  <2>2. IsRow(new) /\ RowMoves(row, new)
    BY <1>1, <1>2, <2>1 DEF IsRow, RowFields, RowMoves
  <2> HIDE DEF new
  <2> QED
    BY <2>1, <2>2, MoveRows DEF row
<1>4. CASE MarkEnqueued(i)
  <2> DEFINE dropped == [row EXCEPT !.held = FALSE]
             marked == [row EXCEPT !.state = "enqueued", !.linked = TRUE, !.held = FALSE]
             new == IF row.job = "dead" THEN dropped ELSE marked
  <2>1. rows' = [rows EXCEPT ![i] = new]
    BY <1>4 DEF MarkEnqueued
  <2> HIDE DEF row
  <2>2. IsRow(dropped) /\ RowMoves(row, dropped)
    BY <1>1, <1>2 DEF IsRow, RowFields, RowMoves
  <2>3. IsRow(marked) /\ RowMoves(row, marked)
    BY <1>1, <1>2 DEF IsRow, RowFields, RowMoves
  <2> HIDE DEF dropped, marked
  <2>4. IsRow(new) /\ RowMoves(row, new)
    BY <2>2, <2>3
  <2> HIDE DEF new
  <2> QED
    BY <2>1, <2>4, MoveRows DEF row
<1>5. CASE Retry(i) \/ WorkerFails(i)
  <2> DEFINE next == CASE row.attempts >= MaxAttempts -> "failed"
                       [] row.linked -> "enqueued"
                       [] row.signed # {} -> "signed"
                       [] OTHER -> "pending"
             new == [row EXCEPT !.held = FALSE, !.state = next]
  <2>1. rows' = [rows EXCEPT ![i] = new]
    BY <1>5, Zenon DEF Retry, WorkerFails, Retried
  <2>2. next \in {"failed", "enqueued", "signed", "pending"}
    OBVIOUS
  <2> HIDE DEF row, next
  <2>3. IsRow(new) /\ RowMoves(row, new)
    BY <1>1, <1>2, <2>2 DEF IsRow, RowFields, RowMoves
  <2> HIDE DEF new
  <2> QED
    BY <2>1, <2>3, MoveRows DEF row
<1>6. CASE Complete(i)
  <2> DEFINE new == [row EXCEPT !.state = "completed", !.held = FALSE]
  <2>1. rows' = [rows EXCEPT ![i] = new]
    BY <1>6 DEF Complete
  <2> HIDE DEF row
  <2>2. IsRow(new) /\ RowMoves(row, new)
    BY <1>1, <1>2 DEF IsRow, RowFields, RowMoves
  <2> HIDE DEF new
  <2> QED
    BY <2>1, <2>2, MoveRows DEF row
<1>7. CASE Land(i) \/ JobDies(i)
  <2> DEFINE new(job) == [row EXCEPT !.job = job]
  <2>1. \E job \in {"complete", "dead"} : rows' = [rows EXCEPT ![i] = new(job)]
    BY <1>7 DEF Land, JobDies
  <2>2. row.job = "queued"
    BY <1>7 DEF Land, JobDies
  <2> HIDE DEF row
  <2>3. \A job \in {"complete", "dead"} : IsRow(new(job)) /\ RowMoves(row, new(job))
    BY <1>1, <1>2, <2>2 DEF IsRow, RowFields, RowMoves
  <2> HIDE DEF new
  <2> QED
    BY <2>1, <2>3, MoveRows DEF row
<1> QED
  BY <1>3, <1>4, <1>5, <1>6, <1>7

\* A crash ends every lease.
LEMMA CrashRows ==
    ASSUME IInv, Crash
    PROVE  RowsOK' /\ RowsExtend
<1> DEFINE new(j) == [rows[j] EXCEPT !.held = FALSE]
<1>1. /\ Len(rows) \in Nat /\ DOMAIN rows = 1..Len(rows)
      /\ \A j \in DOMAIN rows : RowOK(rows[j])
  BY DEF IInv, RowsOK
<1>2. rows' = [j \in 1..Len(rows) |-> new(j)]
  BY <1>1 DEF Crash
<1>3. ASSUME NEW j \in DOMAIN rows PROVE RowOK(new(j)) /\ new(j).att = rows[j].att
  <2> DEFINE row == rows[j]
             n == [row EXCEPT !.held = FALSE]
  <2>1. RowOK(row) /\ IsRow(row) /\ RowTypeOK(row)
    BY <1>1 DEF RowOK
  <2> HIDE DEF row
  <2>2. IsRow(n) /\ RowTypeOK(n) /\ n.held = FALSE /\ n.att = row.att /\ n.signed = row.signed /\ n.job = row.job
    BY <2>1 DEF IsRow, RowFields, RowTypeOK
  <2> HIDE DEF n
  <2>3. RowOK(n) /\ n.att = row.att
    BY <2>1, <2>2 DEF RowOK
  <2> QED
    BY <2>3 DEF n, row
<1> HIDE DEF new
<1>4. Len(rows') = Len(rows)
  <2> DEFINE A == {rows'[j] : j \in DOMAIN rows'}
  <2>1. rows' \in [1..Len(rows) -> A]
    BY <1>2
  <2> HIDE DEF A
  <2> QED
    BY <1>1, <2>1
<1>5. DOMAIN rows' = DOMAIN rows /\ \A j \in DOMAIN rows : rows'[j] = new(j)
  BY <1>1, <1>2
<1>6. rows' = [j \in 1..Len(rows') |-> rows'[j]]
  BY <1>2, <1>4
<1>7. \A j \in DOMAIN rows' : RowOK(rows'[j]) /\ rows'[j].att = rows[j].att
  BY <1>3, <1>5
<1>8. RowsOK'
  BY <1>1, <1>4, <1>6, <1>7 DEF RowsOK, RowOK, RowTypeOK
<1> QED
  BY <1>5, <1>7, <1>8 DEF RowsExtend

-----------------------------------------------------------------------------
(* The signers. *)

\* What a signer verifies, the newest record says.
LEMMA VerifiedIsSaid ==
    ASSUME IInv, NEW att, AsksVerdict(att), verify(att)
    PROVE  att.outcome \in Said
<1>1. feed \in Seq(FeedRecords)
  BY DEF IInv, FeedIsThePlayed
<1>2. \E seq : At(seq) # {}
  BY DEF verify, verifySettlement, verifyVoid
<1>3. DOMAIN feed # {}
  BY <1>2 DEF At, Range
<1>4. Len(feed) \in DOMAIN feed
  BY <1>1, <1>3
<1>5. Latest \in Range(feed)
  BY <1>4 DEF Latest, Range
<1>6. att.outcome \notin {NoOutcome, NoVoid}
  BY DEF AsksVerdict, Won, VoidReasons, NoOutcome, NoVoid
<1>7. att.outcome \in Verdicts(Latest)
  <2>1. CASE att.kind = "settlement"
    <3>1. Latest.phase \in TERMINAL_PHASES /\ claimedOutcome(Latest) = att.outcome
      BY <2>1, Zenon DEF verify, verifySettlement
    <3> QED
      BY <1>6, <3>1 DEF Verdicts
  <2>2. CASE att.kind # "settlement"
    <3>1. signerVoidReason(Latest) = att.outcome
      BY <2>2, Zenon DEF verify, verifyVoid
    <3> QED
      BY <1>6, <3>1 DEF Verdicts
  <2> QED
    BY <2>1, <2>2
<1> QED
  BY <1>5, <1>7, Zenon DEF Said

LEMMA AskKeeps ==
    ASSUME IInv, NEW i \in DOMAIN rows, Ask(i)
    PROVE  RowsOK' /\ InflightIsSaid' /\ JournalKeepsSignatures'
<1>0. feed' = feed /\ journal' = journal /\ signatures' = signatures /\ Asking(rows[i])
  BY DEF Ask, worldVars
<1>1. CASE verify(rows[i].att)
  <2>1. rows' = rows /\ inflight' = inflight \cup {Waiting(i)}
    BY <1>1, Zenon DEF Ask
  <2>2. RowsOK' /\ RowsExtend
    BY <2>1, RowsStay
  <2>3. Said' = Said
    BY <1>0, SaidKeeps
  <2>4. RowOK(rows[i]) /\ RowTypeOK(rows[i]) /\ AsksVerdict(rows[i].att)
    BY DEF IInv, RowsOK, RowOK
  <2>5. rows[i].att.outcome \in Said
    BY <1>1, <2>4, VerifiedIsSaid
  <2>6. rows[i].held /\ rows[i].asked < Len(Endpoints)
    BY <1>0 DEF Asking
  <2>7. rows[i].attempts \in 1..MaxAttempts
    BY <2>4, <2>6, WorkflowAssumption DEF RowOK, RowTypeOK
  <2>8. rows[i].asked + 1 \in DOMAIN Endpoints
    BY <2>4, <2>6, EndpointsLength DEF RowTypeOK
  <2>9. Endpoints[rows[i].asked + 1] \in Signers
    BY <2>8 DEF Signers, Range
  <2>10. Waiting(i) \in Signers \X (DOMAIN rows) \X (1..MaxAttempts) /\ Waiting(i)[2] = i
    BY <2>7, <2>9 DEF Waiting
  <2>11. inflight' \subseteq Signers \X (DOMAIN rows') \X (1..MaxAttempts)
    BY <2>1, <2>10 DEF IInv, InflightIsSaid
  <2>12. \A request \in inflight' : rows'[request[2]].att.outcome \in Said'
    BY <2>1, <2>3, <2>5, <2>10 DEF IInv, InflightIsSaid
  <2>13. JournalKeepsSignatures'
    BY <1>0, <2>3 DEF IInv, JournalKeepsSignatures, Decision
  <2> QED
    BY <2>2, <2>11, <2>12, <2>13 DEF InflightIsSaid
<1>2. CASE ~verify(rows[i].att)
  <2>1. Answered(i, {}) /\ inflight' = inflight
    BY <1>2, Zenon DEF Ask
  <2>2. RowsOK' /\ RowsExtend
    BY <1>0, <2>1, AnsweredRows
  <2> QED
    BY <1>0, <2>1, <2>2, SignersKeep
<1> QED
  BY <1>1, <1>2

LEMMA AnswerKeeps ==
    ASSUME IInv, NEW request \in inflight, Answer(request)
    PROVE  RowsOK' /\ RowsExtend /\ InflightIsSaid' /\ JournalKeepsSignatures' /\ signatures \subseteq signatures'
<1> DEFINE i == request[2]
           s == request[1]
           att == rows[i].att
           awaited == Asking(rows[i]) /\ Waiting(i) = request
<1>0. feed' = feed /\ inflight' \subseteq inflight
  BY DEF Answer, worldVars
<1>1. s \in Signers /\ i \in DOMAIN rows /\ att.outcome \in Said
  BY DEF IInv, InflightIsSaid
<1>2. Said' = Said
  BY <1>0, SaidKeeps
<1>3. CASE Refuse(request) /\ IF awaited THEN Answered(i, {}) ELSE UNCHANGED rows
  <2>1. RowsOK' /\ RowsExtend
    <3>1. CASE awaited
      BY <1>1, <1>3, <3>1, AnsweredRows
    <3>2. CASE ~awaited
      BY <1>3, <3>2, RowsStay
    <3> QED
      BY <3>1, <3>2
  <2>2. UNCHANGED <<journal, signatures>>
    BY <1>3 DEF Refuse
  <2> QED
    BY <1>0, <2>1, <2>2, SignersKeep
<1>4. CASE Sign(request) /\ IF awaited THEN Answered(i, {s}) ELSE UNCHANGED rows
  <2>1. RowsOK' /\ RowsExtend
    <3>1. CASE awaited
      <4>1. Answered(i, {s}) /\ {s} \subseteq Signers
        BY <1>1, <1>4, <3>1
      <4> QED
        BY <1>1, <3>1, <4>1, AnsweredRows
    <3>2. CASE ~awaited
      BY <1>4, <3>2, RowsStay
    <3> QED
      BY <3>1, <3>2
  <2>2. /\ journal[s] \in {NoDecision, Decision(att)}
        /\ journal' = [journal EXCEPT ![s] = Decision(att)]
        /\ signatures' = signatures \cup {<<s, att>>}
    BY <1>4 DEF Sign, journalAccepts
  <2>3. InflightIsSaid'
    <3>1. \A r \in inflight : /\ r \in Signers \X (DOMAIN rows) \X (1..MaxAttempts)
                              /\ rows[r[2]].att.outcome \in Said
      BY DEF IInv, InflightIsSaid
    <3>2. \A r \in inflight' : /\ r \in Signers \X (DOMAIN rows') \X (1..MaxAttempts)
                               /\ r[2] \in DOMAIN rows /\ rows'[r[2]].att = rows[r[2]].att
      BY <1>0, <2>1, <3>1 DEF RowsExtend
    <3> QED
      BY <1>0, <1>2, <3>1, <3>2 DEF InflightIsSaid
  <2>4. \A x \in signatures : /\ x = <<x[1], x[2]>> /\ x[1] \in Signers
                              /\ journal[x[1]] = Decision(x[2]) /\ x[2].outcome \in Said
                              /\ AsksVerdict(x[2])
    BY DEF IInv, JournalKeepsSignatures
  <2>5. journal = [t \in Signers |-> journal[t]]
    BY DEF IInv, JournalKeepsSignatures
  <2>6. AsksVerdict(att)
    BY <1>1 DEF IInv, RowsOK, RowOK
  <2> HIDE DEF s, att
  <2>7. \A x \in signatures : x[1] = s => Decision(x[2]) = Decision(att)
    <3>1. \A a : AsksVerdict(a) => Decision(a) # NoDecision
      BY DEF AsksVerdict, Decision, NoDecision
    <3> QED
      BY <2>2, <2>4, <3>1
  <2>8. journal' = [t \in Signers |-> journal'[t]] /\ \A t \in Signers : journal'[t] = IF t = s THEN Decision(att) ELSE journal[t]
    BY <1>1, <2>2, <2>5
  <2>9. \A x \in signatures' : /\ x = <<x[1], x[2]>> /\ x[1] \in Signers
                               /\ journal'[x[1]] = Decision(x[2]) /\ x[2].outcome \in Said'
                               /\ AsksVerdict(x[2])
    <3>1. ASSUME NEW x \in signatures
          PROVE  /\ x = <<x[1], x[2]>> /\ x[1] \in Signers
                 /\ journal'[x[1]] = Decision(x[2]) /\ x[2].outcome \in Said' /\ AsksVerdict(x[2])
      BY <1>2, <2>4, <2>7, <2>8
    <3>2. ASSUME NEW x, x = <<s, att>>
          PROVE  /\ x = <<x[1], x[2]>> /\ x[1] \in Signers
                 /\ journal'[x[1]] = Decision(x[2]) /\ x[2].outcome \in Said' /\ AsksVerdict(x[2])
      <4>1. x[1] = s /\ x[2] = att
        BY <3>2
      <4> QED
        BY <1>1, <1>2, <2>6, <2>8, <3>2, <4>1 DEF att
    <3> QED
      BY <2>2, <3>1, <3>2
  <2>10. JournalKeepsSignatures'
    BY <2>8, <2>9 DEF JournalKeepsSignatures, Decision
  <2> QED
    BY <2>1, <2>2, <2>3, <2>10
<1> QED
  BY <1>3, <1>4 DEF Answer

-----------------------------------------------------------------------------
(* The invariant. *)

LEMMA PublishKeeps ==
    ASSUME IInv, PublishNext
    PROVE  IInv' /\ Said \subseteq Said'
<1> DEFINE n == Len(feed)
           e == [script[n + 1] EXCEPT !.ts = now, !.rcv = now]
<1>1. /\ script \in Scripts /\ feed \in Seq(FeedRecords) /\ n <= Len(script) /\ now \in Nat
      /\ \A i \in DOMAIN feed : feed[i].seq = script[i].seq
      /\ cursor \in 0..n /\ faults \in 0..MaxFaults
  BY DEF IInv, FeedIsThePlayed
<1>2. n < Len(script) /\ feed' = Append(feed, e) /\ UNCHANGED <<script, now, faults, cursor, mem, rows, inflight, journal, signatures, chain>>
  BY DEF PublishNext, schedulerVars, signerVars
<1>3. script \in Seq(FeedRecords) /\ \A i, j \in DOMAIN script : i < j => script[i].seq < script[j].seq
  BY <1>1, FeedAssumption
<1>4. n \in Nat /\ Len(script) \in Nat /\ DOMAIN feed = 1..n /\ DOMAIN script = 1..Len(script)
  BY <1>1, <1>3
<1>5. n + 1 \in DOMAIN script
  BY <1>2, <1>4
<1>6. script[n + 1] \in FeedRecords
  BY <1>3, <1>5
<1>7. e \in FeedRecords /\ e.seq = script[n + 1].seq
  BY <1>1, <1>6 DEF FeedRecords
<1>8. \A i \in DOMAIN feed : feed[i].seq < e.seq
  <2>1. \A i \in DOMAIN feed : i \in DOMAIN script /\ i < n + 1
    BY <1>1, <1>4
  <2> HIDE DEF e
  <2> QED
    BY <1>1, <1>3, <1>5, <1>7, <2>1
<1> HIDE DEF e
<1>9. SaidOf(feed) \subseteq SaidOf(Append(feed, e))
  BY <1>1, <1>7, <1>8, SaidGrows
<1>10. Said \subseteq Said'
  BY <1>2, <1>9, SaidIsOfFeed, SaidIsOfFeedNext
<1>11. FeedIsThePlayed'
  <2>1. /\ feed' \in Seq(FeedRecords) /\ Len(feed') = n + 1 /\ DOMAIN feed' = 1..(n + 1)
        /\ feed'[n + 1] = e /\ \A i \in 1..n : feed'[i] = feed[i]
    BY <1>1, <1>2, <1>4, <1>7
  <2>2. \A i \in DOMAIN feed' : feed'[i].seq = script'[i].seq
    BY <1>1, <1>2, <1>4, <1>7, <2>1
  <2>3. cursor' \in 0..Len(feed') /\ Len(feed') <= Len(script')
    BY <1>1, <1>2, <1>4, <2>1
  <2> QED
    BY <1>1, <1>2, <2>1, <2>2, <2>3 DEF FeedIsThePlayed
<1>12. RowsOK'
  BY <1>2, RowsStay
<1>13. InflightIsSaid'
  BY <1>2, <1>10 DEF IInv, InflightIsSaid
<1>14. JournalKeepsSignatures'
  BY <1>2, <1>10 DEF IInv, JournalKeepsSignatures, Decision
<1>15. StateOK(mem)' /\ chain'.state \in {"open", "settling", "voided"}
  BY <1>2 DEF IInv, StateOK
<1> QED
  BY <1>10, <1>11, <1>12, <1>13, <1>14, <1>15 DEF IInv

LEMMA InitInv == WorkflowInit => IInv
<1> SUFFICES ASSUME WorkflowInit PROVE IInv
  OBVIOUS
<1>1. FeedIsThePlayed
  <2>1. script \in Seq(FeedRecords) /\ feed = <<>>
    BY FeedAssumption DEF WorkflowInit
  <2>2. Len(feed) = 0 /\ feed \in Seq(FeedRecords) /\ DOMAIN feed = {} /\ Len(script) \in Nat
    BY <2>1
  <2> QED
    BY <2>2, WorkflowAssumption DEF WorkflowInit, FeedIsThePlayed
<1>2. StateOK(mem)
  BY DEF WorkflowInit, StateOK, NoState
<1>3. RowsOK
  <2>1. rows = <<>>
    BY DEF WorkflowInit
  <2>2. Len(rows) = 0 /\ DOMAIN rows = {} /\ 1..0 = {}
    BY <2>1
  <2>3. rows = [i \in 1..Len(rows) |-> rows[i]]
    BY <2>1, <2>2
  <2> QED
    BY <2>2, <2>3 DEF RowsOK
<1>4. InflightIsSaid
  BY DEF WorkflowInit, InflightIsSaid
<1>5. JournalKeepsSignatures
  BY DEF WorkflowInit, JournalKeepsSignatures
<1>6. chain.state \in {"open", "settling", "voided"}
  BY DEF WorkflowInit
<1> QED
  BY <1>1, <1>2, <1>3, <1>4, <1>5, <1>6 DEF IInv

\* Every step keeps the invariant, takes back no signature and no verdict, and
\* only a record changes what has been said.
LEMMA NextInv ==
    ASSUME IInv, [WorkflowNext]_vars
    PROVE  /\ IInv' /\ signatures \subseteq signatures'
           /\ \/ Said' = Said
              \/ Said \subseteq Said' /\ signatures' = signatures
<1>0. /\ cursor \in 0..Len(feed) /\ now \in Nat /\ faults \in 0..MaxFaults /\ Len(feed) \in Nat
      /\ StateOK(mem) /\ chain.state \in {"open", "settling", "voided"}
  BY DEF IInv, FeedIsThePlayed
<1>a. ASSUME feed' = feed, script' = script, cursor' \in 0..Len(feed), now' \in Nat,
             faults' \in 0..MaxFaults, StateOK(mem)', RowsOK', InflightIsSaid',
             JournalKeepsSignatures', signatures \subseteq signatures',
             chain'.state \in {"open", "settling", "voided"}
      PROVE  /\ IInv' /\ signatures \subseteq signatures' /\ Said' = Said
  BY <1>a, FeedKeeps, SaidKeeps DEF IInv
<1>b. mem' = mem => StateOK(mem)'
  BY <1>0 DEF StateOK
<1>1. CASE PublishNext
  <2>1. signatures' = signatures
    BY <1>1 DEF PublishNext, signerVars
  <2> QED
    BY <1>1, <2>1, PublishKeeps
<1>2. CASE PassTime
  <2>1. /\ UNCHANGED <<script, feed, faults, cursor, mem, rows, inflight, journal, signatures, chain>>
        /\ now' = now + 1
    BY <1>2 DEF PassTime, schedulerVars, signerVars
  <2>2. RowsOK' /\ RowsExtend
    BY <2>1, RowsStay
  <2>3. InflightIsSaid' /\ JournalKeepsSignatures'
    BY <2>1, <2>2, SignersKeep
  <2> QED
    BY <1>0, <1>a, <1>b, <2>1, <2>2, <2>3
<1>3. CASE OnEvent \/ OnEventAgain
  <2>1. /\ UNCHANGED <<script, feed, now, faults, inflight, journal, signatures, chain>>
        /\ cursor' \in 0..Len(feed) /\ \E i : Reduce(i)
    BY <1>0, <1>3 DEF OnEvent, OnEventAgain, worldVars, signerVars
  <2>2. StateOK(mem)' /\ RowsOK' /\ RowsExtend
    BY <2>1, ReduceKeeps
  <2>3. InflightIsSaid' /\ JournalKeepsSignatures'
    BY <2>1, <2>2, SignersKeep
  <2> QED
    BY <1>0, <1>a, <2>1, <2>2, <2>3
<1>4. CASE OnEventFails
  <2>1. /\ UNCHANGED <<script, feed, now, mem, rows, inflight, journal, signatures, chain>>
        /\ cursor' \in 0..Len(feed) /\ faults' \in 0..MaxFaults
    BY <1>0, <1>4, WorkflowAssumption DEF OnEventFails, Fault, signerVars
  <2>2. RowsOK' /\ RowsExtend
    BY <2>1, RowsStay
  <2>3. InflightIsSaid' /\ JournalKeepsSignatures'
    BY <2>1, <2>2, SignersKeep
  <2> QED
    BY <1>0, <1>a, <1>b, <2>1, <2>2, <2>3
<1>5. CASE Crash
  <2>1. /\ UNCHANGED <<script, feed, cursor, inflight, journal, signatures, chain>>
        /\ faults' \in 0..MaxFaults /\ now' \in Nat /\ mem' = NoState
    BY <1>0, <1>5, WorkflowAssumption DEF Crash, Fault, signerVars
  <2>2. RowsOK' /\ RowsExtend
    BY <1>5, CrashRows
  <2>3. InflightIsSaid' /\ JournalKeepsSignatures'
    BY <2>1, <2>2, SignersKeep
  <2>4. StateOK(mem)'
    BY <2>1 DEF StateOK, NoState
  <2> QED
    BY <1>0, <1>a, <2>1, <2>2, <2>3, <2>4
<1>6. ASSUME NEW i \in DOMAIN rows,
             \/ Lease(i) \/ RecordSigned(i) \/ EnqueueJob(i) \/ MarkEnqueued(i) \/ Retry(i)
             \/ Complete(i) \/ WorkerFails(i) \/ AskLost(i) \/ Land(i) \/ JobDies(i)
      PROVE  IInv' /\ signatures \subseteq signatures' /\ Said' = Said
  <2>1. /\ UNCHANGED <<script, feed, now, cursor, mem, inflight, journal, signatures>>
        /\ faults' \in 0..MaxFaults
    BY <1>0, <1>6, WorkflowAssumption, SMTT(30)
    DEF Lease, RecordSigned, EnqueueJob, MarkEnqueued, Retry, Complete, WorkerFails, AskLost,
        Land, JobDies, Fault, worldVars, schedulerVars, signerVars
  <2>2. RowsOK' /\ RowsExtend
    <3>1. CASE Lease(i)
      BY <3>1, LeaseRows
    <3>2. CASE RecordSigned(i)
      BY <3>2, RecordSignedRows
    <3>3. CASE AskLost(i)
      BY <3>3, AnsweredRows DEF AskLost
    <3> QED
      BY <1>6, <3>1, <3>2, <3>3, WorkerRows
  <2>3. InflightIsSaid' /\ JournalKeepsSignatures'
    BY <2>1, <2>2, SignersKeep
  <2>4. chain'.state \in {"open", "settling", "voided"}
    BY <1>0, <1>6
    DEF Lease, RecordSigned, EnqueueJob, MarkEnqueued, Retry, Complete, WorkerFails, AskLost,
        Land, JobDies
  <2> QED
    BY <1>0, <1>a, <1>b, <2>1, <2>2, <2>3, <2>4
<1>7. ASSUME NEW i \in DOMAIN rows, Ask(i)
      PROVE  IInv' /\ signatures \subseteq signatures' /\ Said' = Said
  <2>1. UNCHANGED <<script, feed, now, faults, cursor, mem, journal, signatures, chain>>
    BY <1>7 DEF Ask, worldVars, schedulerVars
  <2>2. RowsOK' /\ InflightIsSaid' /\ JournalKeepsSignatures'
    BY <1>7, AskKeeps
  <2> QED
    BY <1>0, <1>a, <1>b, <2>1, <2>2
<1>8. ASSUME NEW request \in inflight, Answer(request)
      PROVE  IInv' /\ signatures \subseteq signatures' /\ Said' = Said
  <2>1. UNCHANGED <<script, feed, now, faults, cursor, mem, chain>>
    BY <1>8 DEF Answer, worldVars, schedulerVars
  <2>2. RowsOK' /\ InflightIsSaid' /\ JournalKeepsSignatures' /\ signatures \subseteq signatures'
    BY <1>8, AnswerKeeps
  <2> QED
    BY <1>0, <1>a, <1>b, <2>1, <2>2
<1>9. CASE TimeoutVoid
  <2>1. /\ UNCHANGED <<script, feed, now, faults, cursor, mem, rows, inflight, journal, signatures>>
        /\ chain'.state = "voided"
    BY <1>9 DEF TimeoutVoid, worldVars, schedulerVars, signerVars
  <2>2. RowsOK' /\ RowsExtend
    BY <2>1, RowsStay
  <2>3. InflightIsSaid' /\ JournalKeepsSignatures'
    BY <2>1, <2>2, SignersKeep
  <2> QED
    BY <1>0, <1>a, <1>b, <2>1, <2>2, <2>3
<1>10. CASE UNCHANGED vars
  <2>1. UNCHANGED <<script, feed, now, faults, cursor, mem, rows, inflight, journal, signatures, chain>>
    BY <1>10 DEF vars
  <2>2. RowsOK' /\ RowsExtend
    BY <2>1, RowsStay
  <2>3. InflightIsSaid' /\ JournalKeepsSignatures'
    BY <2>1, <2>2, SignersKeep
  <2> QED
    BY <1>0, <1>a, <1>b, <2>1, <2>2, <2>3
<1> QED
  BY <1>1, <1>2, <1>3, <1>4, <1>5, <1>6, <1>7, <1>8, <1>9, <1>10
  DEF WorkflowNext, WorkerStep, RelayerStep

\* The invariant of the workflow.
THEOREM WorkflowInvariant == WorkflowSpec => []IInv
<1>1. IInv /\ [WorkflowNext]_vars => IInv'
  BY NextInv
<1> QED
  BY InitInv, <1>1, PTL DEF WorkflowSpec

\* Types: for any match, threshold and bounds a request is leased at most
\* MaxAttempts times and only one with a quorum has a relayer job.
THEOREM WorkflowTypes == WorkflowSpec => []WorkflowTypeOK
<1>1. IInv => WorkflowTypeOK
  BY DEF IInv, FeedIsThePlayed, StateOK, RowsOK, RowOK, InflightIsSaid, WorkflowTypeOK
<1> QED
  BY WorkflowInvariant, <1>1, PTL

-----------------------------------------------------------------------------
(* The refinement. *)

SignedBy(sigs, att) == {s \in Signers : <<s, att>> \in sigs}

\* The refinement mapping's decided, over any set of signatures.
DecidedBy(sigs) ==
    {att.outcome : att \in {sig[2] : sig \in {x \in sigs :
                              Cardinality(SignedBy(sigs, x[2])) >= Threshold}}}

LEMMA SignersFinite ==
    /\ IsFiniteSet(Signers) /\ Cardinality(Signers) <= Len(Endpoints)
    /\ \A S \in SUBSET Signers : IsFiniteSet(S) /\ Cardinality(S) \in Nat
<1> DEFINE n == Len(Endpoints)
<1>1. n \in Nat /\ Endpoints \in [1..n -> STRING]
  BY WorkflowAssumption, LenProperties
<1>2. Endpoints \in Surjection(1..n, Signers)
  BY <1>1 DEF Surjection, Signers, Range
<1>3. IsFiniteSet(1..n) /\ Cardinality(1..n) = n
  BY <1>1, FS_Interval
<1> HIDE DEF n
<1>4. IsFiniteSet(Signers) /\ Cardinality(Signers) <= Cardinality(1..n)
  BY <1>2, <1>3, FS_Surjection
<1>5. \A S \in SUBSET Signers : IsFiniteSet(S) /\ Cardinality(S) \in Nat
  BY <1>4, FS_Subset, FS_CardinalityType
<1> QED
  BY <1>3, <1>4, <1>5 DEF n

\* Two quorums share a signer.
LEMMA QuorumsMeet ==
    ASSUME NEW S \in SUBSET Signers, NEW T \in SUBSET Signers,
           Cardinality(S) >= Threshold, Cardinality(T) >= Threshold
    PROVE  S \cap T # {}
<1>1. Cardinality(S) \in Nat /\ Cardinality(T) \in Nat /\ Cardinality(Signers) \in Nat
  BY SignersFinite
<1>2. Threshold \in Nat /\ 2 * Threshold > Len(Endpoints)
  BY WorkflowAssumption, EndpointsLength
<1>3. Cardinality(S) + Cardinality(T) > Cardinality(Signers)
  BY <1>1, <1>2, SignersFinite, EndpointsLength
<1> QED
  BY <1>3, SignersFinite, FS_MajoritiesIntersect

\* A verdict with a quorum has one forever.
LEMMA DecidedGrows ==
    ASSUME NEW sigs, NEW more, sigs \subseteq more
    PROVE  DecidedBy(sigs) \subseteq DecidedBy(more)
<1> SUFFICES ASSUME NEW x \in sigs, Cardinality(SignedBy(sigs, x[2])) >= Threshold
             PROVE  Cardinality(SignedBy(more, x[2])) >= Threshold
  BY DEF DecidedBy
<1> DEFINE S == SignedBy(sigs, x[2])
           T == SignedBy(more, x[2])
<1>1. S \subseteq T /\ S \in SUBSET Signers /\ T \in SUBSET Signers
  BY DEF SignedBy
<1> HIDE DEF S, T
<1>2. Cardinality(S) <= Cardinality(T) /\ Cardinality(S) \in Nat /\ Cardinality(T) \in Nat
  BY <1>1, SignersFinite, FS_Subset
<1>3. Threshold \in Nat
  BY WorkflowAssumption, EndpointsLength
<1> QED
  BY <1>2, <1>3 DEF S, T

\* One signer's journal holds one decision, so two quorums carry one verdict,
\* and it has been said.
LEMMA OneVerdict ==
    ASSUME NEW sigs, NEW jrnl, NEW said,
           \A x \in sigs : x[1] \in Signers /\ jrnl[x[1]] = Decision(x[2]) /\ x[2].outcome \in said
    PROVE  /\ \A a, b \in DecidedBy(sigs) : a = b
           /\ DecidedBy(sigs) \subseteq said
<1>1. \A x \in sigs : x[1] \in Signers /\ jrnl[x[1]] = Decision(x[2]) /\ x[2].outcome \in said
  OBVIOUS
<1>2. DecidedBy(sigs) \subseteq said
  BY <1>1 DEF DecidedBy
<1>3. ASSUME NEW x \in sigs, NEW y \in sigs,
             Cardinality(SignedBy(sigs, x[2])) >= Threshold,
             Cardinality(SignedBy(sigs, y[2])) >= Threshold
      PROVE  x[2].outcome = y[2].outcome
  <2>1. SignedBy(sigs, x[2]) \in SUBSET Signers /\ SignedBy(sigs, y[2]) \in SUBSET Signers
    BY DEF SignedBy
  <2>2. SignedBy(sigs, x[2]) \cap SignedBy(sigs, y[2]) # {}
    BY <1>3, <2>1, QuorumsMeet
  <2>3. PICK s : <<s, x[2]>> \in sigs /\ <<s, y[2]>> \in sigs
    BY <2>2 DEF SignedBy
  <2>4. jrnl[s] = Decision(x[2]) /\ jrnl[s] = Decision(y[2])
    BY <1>1, <2>3
  <2>5. Decision(x[2]).outcome = x[2].outcome /\ Decision(y[2]).outcome = y[2].outcome
    BY DEF Decision
  <2> QED
    BY <2>4, <2>5
<1> QED
  BY <1>2, <1>3 DEF DecidedBy

\* The mapping, in this state and the next.
LEMMA MappingIs ==
    /\ OD!DecisionInit = (Said = {} /\ DecidedBy(signatures) = {})
    /\ OD!Observe = (Said \subseteq Said' /\ DecidedBy(signatures') = DecidedBy(signatures))
    /\ OD!Decide = (/\ DecidedBy(signatures) = {}
                    /\ \E verdict \in Said : DecidedBy(signatures') = {verdict}
                    /\ Said' = Said)
    /\ (UNCHANGED OD!decisionVars) = (Said' = Said /\ DecidedBy(signatures') = DecidedBy(signatures))
  BY DEF OD!DecisionInit, OD!Observe, OD!Decide, OD!decisionVars, DecidedBy, SignedBy

\* Refinement: for every match, oracle set and majority threshold, whatever
\* crashes, is lost, asked twice or overtaken by the match, the signers never
\* give two verdicts a quorum, and the one they give the newest record has said.
THEOREM OracleKeepsPromise == WorkflowSpec => DecidedOnceOnTheFacts
<1>1. WorkflowInit => OD!DecisionInit
  <2> SUFFICES ASSUME WorkflowInit PROVE OD!DecisionInit
    OBVIOUS
  <2>1. DecidedBy(signatures) = {}
    BY DEF WorkflowInit, DecidedBy
  <2>2. Range(feed) = {}
    BY DEF WorkflowInit, Range
  <2>3. Said = {}
    BY <2>2 DEF Said
  <2> QED
    BY <2>1, <2>3, MappingIs
<1>2. IInv /\ [WorkflowNext]_vars =>
        /\ IInv' /\ signatures \subseteq signatures'
        /\ \/ Said' = Said
           \/ Said \subseteq Said' /\ signatures' = signatures
  BY NextInv
<1>3. IInv /\ [WorkflowNext]_vars => [OD!Observe \/ OD!Decide]_(OD!decisionVars)
  <2> SUFFICES ASSUME IInv, [WorkflowNext]_vars
               PROVE  OD!Observe \/ OD!Decide \/ UNCHANGED OD!decisionVars
    OBVIOUS
  <2> DEFINE before == DecidedBy(signatures)
             after == DecidedBy(signatures')
  <2>1. /\ IInv' /\ signatures \subseteq signatures'
        /\ \/ Said' = Said
           \/ Said \subseteq Said' /\ signatures' = signatures
    BY <1>2
  <2>2. before \subseteq after
    BY <2>1, DecidedGrows
  <2>3. /\ \A a, b \in after : a = b
        /\ after \subseteq Said'
    <3>1. \A x \in signatures' : /\ x[1] \in Signers /\ journal'[x[1]] = Decision(x[2])
                                 /\ x[2].outcome \in Said'
      BY <2>1 DEF IInv, JournalKeepsSignatures, Decision
    <3> QED
      BY <3>1, OneVerdict
  <2>4. CASE Said \subseteq Said' /\ signatures' = signatures
    BY <2>4, MappingIs
  <2>5. CASE Said' = Said
    <3> HIDE DEF before, after
    <3>1. after = before \/ (before = {} /\ \E verdict \in Said : after = {verdict})
      BY <2>2, <2>3, <2>5
    <3> QED
      BY <2>5, <3>1, MappingIs DEF before, after
  <2> QED
    BY <2>1, <2>4, <2>5
<1> QED
  BY <1>1, <1>3, WorkflowInvariant, PTL DEF WorkflowSpec, DecidedOnceOnTheFacts, OD!DecisionSpec

=============================================================================
