---------------------------- MODULE EventWorkflow ----------------------------
(***************************************************************************)
(* How the result of a live escrow market gets from the feed to the chain: *)
(* the event workflow scheduler reduces each event and stores a terminal   *)
(* attestation request, the request worker leases it and asks the oracle   *)
(* signers one after the other, each signer judges it against the          *)
(* provider's newest snapshot and its own journal, and a relayer job       *)
(* submits what a threshold has signed.                                    *)
(*                                                                         *)
(* The reducer is MarketReducer's; the match is one of a few scripts.      *)
(* Requests that freeze, unfreeze or invalidate are left out, but for what *)
(* their transactions do to the storing of a terminal request.  Replays    *)
(* are left out too.                                                       *)
(* due_at only delays a row: a row nobody holds may be leased at any time  *)
(* after its debounce.  A lease runs out when its worker has crashed.  A   *)
(* relayer job is RelayerJob's, here it lands or dies.                     *)
(***************************************************************************)
EXTENDS MarketReducer, Sequences, Functions

CONSTANTS
    Claim,       \* the market's MarketSpec
    RowStatus,   \* the status its row was created with
    Scripts,     \* the matches: sequences of feed events without time stamps
    Endpoints,   \* the oracle signers, in the order the worker asks them
    Threshold,   \* signatures the oracle set requires
    TTL,         \* how long an attestation is valid
    Skew,        \* what a signer allows for its clock
    Deadline,    \* the market's resolution deadline
    MaxAttempts, \* leases of one request (12 in wiring.ts)
    MaxTime,     \* bound on the clock
    MaxFaults    \* bound on crashes, losses and failures

ASSUME WorkflowAssumption ==
    /\ Endpoints \in Seq(STRING)
    /\ Threshold \in 1..Len(Endpoints)
    /\ 2 * Threshold > Len(Endpoints)
    /\ {TTL, MaxAttempts} \subseteq Nat \ {0}
    /\ {Skew, Deadline, MaxTime, MaxFaults} \subseteq Nat

\* A claim on a player without a side, made before the kick-off, waits for the lineup.
ASSUME RowAssumption ==
    RowStatus = "open" \/ (RowStatus = "pending_lineup" /\ Claim.claimType = "player_scores_n")

\* The signers refuse a snapshot whose sequence numbers do not increase.
ASSUME FeedAssumption ==
    /\ Scripts \subseteq Seq(FeedRecords)
    /\ \A s \in Scripts : \A i, j \in DOMAIN s : i < j => s[i].seq < s[j].seq

VARIABLES
    script,     \* the match being played, chosen once
    feed,       \* the records published so far: the provider's snapshot
    now,        \* the wall clock
    cursor,     \* records the scheduler has been handed
    mem,        \* the scheduler's cached MarketState, NoState without an entry
    rows,       \* escrow_attestation_requests, in the order of creation
    inflight,   \* requests a signer has verified and not yet answered
    journal,    \* each signer's terminal decision for the market
    signatures, \* history: every signature made, delivered or not
    chain,      \* the market account: state ("open" is open or frozen) and outcome
    faults      \* what went wrong so far

vars == <<script, feed, now, cursor, mem, rows, inflight, journal, signatures, chain, faults>>
worldVars == <<script, feed, now, faults>>
schedulerVars == <<cursor, mem>>
signerVars == <<inflight, journal, signatures>>

Signers == Range(Endpoints)
Latest == feed[Len(feed)]

NoState == [status |-> "none", pending |-> NoCandidate, positions |-> <<>>,
            scratch |-> initialScratch(Claim)]
NoDecision == [kind |-> "none", outcome |-> NoOutcome, deciding |-> 0, evidence |-> {}, root |-> 0]

WorkflowInit ==
    /\ script \in Scripts
    /\ feed = <<>> /\ now = 0 /\ cursor = 0 /\ faults = 0
    /\ mem = NoState /\ rows = <<>>
    /\ journal = [s \in Signers |-> NoDecision]
    /\ inflight = {} /\ signatures = {}
    /\ chain = [state |-> "open", outcome |-> NoOutcome]

Fault == faults < MaxFaults /\ faults' = faults + 1

-----------------------------------------------------------------------------
(* The match and the clock. *)

PublishNext ==
    /\ Len(feed) < Len(script)
    /\ feed' = Append(feed, [script[Len(feed) + 1] EXCEPT !.ts = now, !.rcv = now])
    /\ UNCHANGED <<script, now, faults, schedulerVars, rows, signerVars, chain>>

Ended(row) == row.state \in {"completed", "failed"}

\* The worker, the signers or the relayer could act on the row now.
Urgent(row) == ~Ended(row) /\ row.debounce <= now

\* Cron and relayer run every few seconds, an attestation lives for minutes:
\* the clock waits for them unless something is wrong.  Bound: beyond MaxTime
\* it runs only until a request is due.
PassTime ==
    /\ cursor = Len(feed)
    /\ \A i \in DOMAIN rows : ~Urgent(rows[i])
    /\ now < MaxTime \/ \E i \in DOMAIN rows : now < rows[i].debounce
    /\ now' = now + 1
    /\ UNCHANGED <<script, feed, faults, schedulerVars, rows, signerVars, chain>>

-----------------------------------------------------------------------------
(* The scheduler. *)

\* Both kinds of terminal attestation; a hash stands for what it hashes.
Attestation(kind, outcome, deciding, evidence, event) ==
    [kind |-> kind, outcome |-> outcome, deciding |-> deciding, evidence |-> evidence,
     root |-> event.seq, issued |-> event.rcv, expires |-> event.rcv + TTL]

\* The market row keeps its status until the finalized projection closes it.
hydrate == IF mem = NoState THEN [mem EXCEPT !.status = RowStatus] ELSE mem

voidReason(event) ==
    CASE event.phase = "CAN" -> "cancelled"
      [] event.phase = "ABD" -> "abandoned"
      [] event.phase = "COV_LOST" \/ event.kind = "coverage_warning" -> "coverage_loss"
      [] OTHER -> "undecidable"

\* applyEffect: the request a terminal effect asks for.
TerminalRequest(terminal, event) ==
    IF terminal.outcome = "void"
    THEN Attestation("void", voidReason(event), event.seq, {}, event)
    ELSE Attestation("settlement", terminal.outcome, terminal.decidingSeq, terminal.evidence, event)

\* persistNewPending: the request of a candidate, due when its debounce is over.
pendingSettlementChanged(previous, current) ==
    /\ current # NoCandidate
    /\ \/ previous = NoCandidate
       \/ previous.decidingSeq # current.decidingSeq
       \/ previous.until # current.until

Request(att, debounce) ==
    [att |-> att, debounce |-> debounce, state |-> "pending", held |-> FALSE, attempts |-> 0,
     asked |-> 0, got |-> {}, signed |-> {}, job |-> "none", linked |-> FALSE]

\* Mutation: only an event after the debounce asks for the settlement.
TerminalRequestsOnly(previous, result, event) ==
    LET terminal == result.effects.terminal
    IN  IF terminal # NoTerminal THEN <<Request(TerminalRequest(terminal, event), event.rcv)>>
        ELSE <<>>

\* At most one of the two: a reduction that settles leaves no candidate.
NewRequests(previous, result, event) ==
    LET terminal == result.effects.terminal
        pending == result.state.pending
    IN  IF terminal # NoTerminal THEN <<Request(TerminalRequest(terminal, event), event.rcv)>>
        ELSE IF pendingSettlementChanged(previous.pending, pending)
        THEN <<Request(Attestation("settlement", pending.outcome, pending.decidingSeq,
                                   pending.evidence, event), pending.until)>>
        ELSE <<>>

\* escrow_attestation_enqueue: a request with this payload is there already.
Duplicate(new) ==
    \E i \in DOMAIN rows, j \in DOMAIN new : rows[i].att = new[j].att

\* The record may make the scheduler freeze the market, and a later one open it.
AsksControl(event) ==
    isPriceMoving(event) \/ isHoldSignal(event) \/ cutoffTriggered(Claim, event)

\* reduce.  Record i is the next one or, after a reconnect, the last one again;
\* the watermark and the reducer's own cursor drop what has been reduced.
\* loadMarket finds nothing once the projection is terminal, which may lag
\* behind the chain.  A duplicate is accepted as such when due_at is the same
\* and otherwise a conflict, which leaves the cached state as it was.  So does a
\* binding mismatch: a control transaction that an earlier record asked for
\* raised the market's event epoch between loadMarket and the enqueue.
Reduce(i) ==
    LET event == [feed[i] EXCEPT !.rcv = now]
        result == reduceMarket(Claim, hydrate, event)
        new == NewRequests(hydrate, result, event)
    IN  \/ /\ isStale(hydrate, event) \/ chain.state # "open"
           /\ UNCHANGED <<mem, rows>>
        \/ /\ ~isStale(hydrate, event) /\ Duplicate(new)
           /\ mem' \in {mem, result.state} /\ UNCHANGED rows
        \/ /\ ~isStale(hydrate, event) /\ ~Duplicate(new)
           /\ mem' = result.state /\ rows' = rows \o new
        \/ /\ ~isStale(hydrate, event) /\ new # <<>>
           /\ \E j \in 1..cursor : AsksControl(feed[j])
           /\ UNCHANGED <<mem, rows>>

OnEvent ==
    /\ cursor < Len(feed)
    /\ Reduce(cursor + 1)
    /\ cursor' = cursor + 1
    /\ UNCHANGED <<worldVars, signerVars, chain>>

OnEventAgain ==
    /\ cursor > 0
    /\ Reduce(cursor)
    /\ UNCHANGED <<worldVars, cursor, signerVars, chain>>

\* run logs a failed market of a live event and goes on to the next event.
OnEventFails ==
    /\ cursor < Len(feed) /\ Fault
    /\ cursor' = cursor + 1
    /\ UNCHANGED <<script, feed, now, mem, rows, signerVars, chain>>

-----------------------------------------------------------------------------
(* The oracle signers. *)

\* terminalSemanticDecisionHash: everything but the lifetime.
Decision(att) ==
    [kind |-> att.kind, outcome |-> att.outcome, deciding |-> att.deciding,
     evidence |-> att.evidence, root |-> att.root]

standingGoals(seq) ==
    LET upTo[n \in 0..Len(feed)] ==
          IF n = 0 THEN {}
          ELSE IF feed[n].seq > seq THEN upTo[n - 1]
          ELSE trackGoals(upTo[n - 1], feed[n])
    IN  upTo[Len(feed)]

ScratchAt(seq) == [initialScratch(Claim) EXCEPT !.goals = standingGoals(seq)]

claimedOutcome(event) ==
    evaluateSpec(Claim, event.score, event.phase, playerGoalCount(ScratchAt(event.seq), Claim))

evidenceSequences(seq) == buildEvidence(ScratchAt(seq), Claim, seq)

\* The reason for which a signer would void on this record.
NoVoid == "none"
signerVoidReason(event) ==
    LET reason == voidReason(event)
    IN  IF reason # "undecidable" \/ event.phase = "POST" THEN reason
        ELSE IF event.phase \in TERMINAL_PHASES /\ claimedOutcome(event) = NoOutcome
        THEN reason ELSE NoVoid

At(seq) == {event \in Range(feed) : event.seq = seq}

verifySettlement(att) ==
    /\ Latest.phase \in TERMINAL_PHASES
    /\ att.root = Latest.seq
    /\ \E deciding \in At(att.deciding) :
         /\ claimedOutcome(deciding) = att.outcome
         /\ evidenceSequences(att.deciding) = att.evidence
    /\ claimedOutcome(Latest) = att.outcome

verifyVoid(att) ==
    /\ att.root = att.deciding
    /\ \E event \in At(att.deciding) : signerVoidReason(event) = att.outcome
    /\ signerVoidReason(Latest) = att.outcome

\* The signer's clock; the program compares with the chain's, without a skew.
Timely(att) == att.issued <= now + Skew /\ now <= att.expires + Skew
Valid(att) == att.issued <= now /\ now <= att.expires

verify(att) ==
    /\ Timely(att)
    /\ chain.state # "voided"
    /\ IF att.kind = "settlement" THEN verifySettlement(att) ELSE verifyVoid(att)

\* Mutation: a new decision replaces the old one.
RecordsAnyway(s, att) == TRUE

\* OracleSignatureJournal.record: one decision per market and oracle epoch,
\* durable before the signature leaves.
journalAccepts(s, att) == journal[s] \in {NoDecision, Decision(att)}

\* A signer answers request <<s, row, attempt>>: between its reading of the
\* snapshot and its signature the match and the other requests go on.
Sign(request) ==
    LET s == request[1]
        att == rows[request[2]].att
    IN  /\ journalAccepts(s, att)
        /\ journal' = [journal EXCEPT ![s] = Decision(att)]
        /\ signatures' = signatures \cup {<<s, att>>}

Refuse(request) ==
    /\ ~journalAccepts(request[1], rows[request[2]].att)
    /\ UNCHANGED <<journal, signatures>>

-----------------------------------------------------------------------------
(* The request worker.  A row is held while its worker has a live lease.   *)

\* Mutation: a request is leased however often it has failed.
LeaseForever(i) ==
    /\ ~rows[i].held /\ Urgent(rows[i])
    /\ rows' = [rows EXCEPT ![i] = [@ EXCEPT !.state = "leased", !.held = TRUE,
                                             !.attempts = @ + 1, !.asked = 0, !.got = {}]]
    /\ UNCHANGED <<worldVars, schedulerVars, signerVars, chain>>

Lease(i) ==
    LET row == rows[i]
    IN  /\ ~row.held /\ Urgent(row)
        /\ rows' = [rows EXCEPT ![i] =
             IF row.attempts >= MaxAttempts THEN [row EXCEPT !.state = "failed"]
             ELSE [row EXCEPT !.state = "leased", !.held = TRUE, !.attempts = @ + 1,
                              !.asked = 0, !.got = {}]]
        /\ UNCHANGED <<worldVars, schedulerVars, signerVars, chain>>

\* The worker still needs signatures for the row.
Asking(row) ==
    /\ row.held /\ row.signed = {}
    /\ Cardinality(row.got) < Threshold /\ row.asked < Len(Endpoints)

Waiting(i) == <<Endpoints[rows[i].asked + 1], i, rows[i].attempts>>

Answered(i, answer) ==
    rows' = [rows EXCEPT ![i] = [rows[i] EXCEPT !.asked = @ + 1, !.got = @ \cup answer]]

\* The signer judges the request, and refuses it or goes on to its journal.
Ask(i) ==
    /\ Asking(rows[i]) /\ Waiting(i) \notin inflight
    /\ IF verify(rows[i].att)
       THEN inflight' = inflight \cup {Waiting(i)} /\ UNCHANGED rows
       ELSE Answered(i, {}) /\ UNCHANGED inflight
    /\ UNCHANGED <<worldVars, schedulerVars, journal, signatures, chain>>

\* The signer's answer reaches the worker unless it has stopped waiting.
Answer(request) ==
    LET i == request[2]
        awaited == Asking(rows[i]) /\ Waiting(i) = request
    IN  /\ request \in inflight
        /\ inflight' = inflight \ {request}
        /\ \/ Sign(request) /\ IF awaited THEN Answered(i, {request[1]}) ELSE UNCHANGED rows
           \/ Refuse(request) /\ IF awaited THEN Answered(i, {}) ELSE UNCHANGED rows
        /\ UNCHANGED <<worldVars, schedulerVars, chain>>

\* The call fails or times out; the signer may sign all the same.
AskLost(i) ==
    /\ Asking(rows[i]) /\ Fault
    /\ Answered(i, {})
    /\ UNCHANGED <<script, feed, now, schedulerVars, signerVars, chain>>

RecordSigned(i) ==
    LET row == rows[i]
    IN  /\ row.held /\ row.signed = {} /\ Cardinality(row.got) = Threshold
        /\ rows' = [rows EXCEPT ![i] = [row EXCEPT !.signed = row.got, !.state = "signed"]]
        /\ UNCHANGED <<worldVars, schedulerVars, signerVars, chain>>

\* recovery.enqueue: the job, created once per decision and expiry.
EnqueueJob(i) ==
    LET row == rows[i]
    IN  /\ row.held /\ row.signed # {} /\ row.job = "none"
        /\ rows' = [rows EXCEPT ![i].job = "queued"]
        /\ UNCHANGED <<worldVars, schedulerVars, signerVars, chain>>

\* escrow_attestation_mark_enqueued rejects a dead job, and the worker gives
\* the row up to its lease.
MarkEnqueued(i) ==
    LET row == rows[i]
    IN  /\ row.held /\ row.job # "none" /\ ~row.linked
        /\ rows' = [rows EXCEPT ![i] =
             IF row.job = "dead" THEN [row EXCEPT !.held = FALSE]
             ELSE [row EXCEPT !.state = "enqueued", !.linked = TRUE, !.held = FALSE]]
        /\ UNCHANGED <<worldVars, schedulerVars, signerVars, chain>>

\* escrow_attestation_retry: where the row goes back to, or its end.
Retried(row) ==
    [row EXCEPT !.held = FALSE, !.state =
       CASE row.attempts >= MaxAttempts -> "failed"
         [] row.linked -> "enqueued"
         [] row.signed # {} -> "signed"
         [] OTHER -> "pending"]

\* No quorum among the endpoints, or the linked job is not complete.
Retry(i) ==
    LET row == rows[i]
    IN  /\ row.held
        /\ \/ row.signed = {} /\ row.asked = Len(Endpoints) /\ Cardinality(row.got) < Threshold
           \/ row.linked /\ row.job # "complete"
        /\ rows' = [rows EXCEPT ![i] = Retried(row)]
        /\ UNCHANGED <<worldVars, schedulerVars, signerVars, chain>>

\* Storage fails, or readiness blocks the job.
WorkerFails(i) ==
    /\ rows[i].held /\ Fault
    /\ rows' = [rows EXCEPT ![i] = Retried(rows[i])]
    /\ UNCHANGED <<script, feed, now, schedulerVars, signerVars, chain>>

Complete(i) ==
    /\ rows[i].held /\ rows[i].linked /\ rows[i].job = "complete"
    /\ rows' = [rows EXCEPT ![i].state = "completed", ![i].held = FALSE]
    /\ UNCHANGED <<worldVars, schedulerVars, signerVars, chain>>

\* The engine's process stops, for a moment or longer than an attestation
\* lives: the scheduler forgets, the worker's leases run out.
Crash ==
    /\ Fault
    /\ now' \in {now, now + TTL + 1}
    /\ mem' = NoState
    /\ rows' = [i \in DOMAIN rows |-> [rows[i] EXCEPT !.held = FALSE]]
    /\ UNCHANGED <<script, feed, cursor, signerVars, chain>>

-----------------------------------------------------------------------------
(* The relayer and the escrow program. *)

\* settle_market or void_market; the quorum and the phase are the signers'.
Land(i) ==
    LET row == rows[i]
    IN  /\ row.job = "queued" /\ chain.state = "open" /\ Valid(row.att)
        /\ Cardinality(row.signed) >= Threshold
        /\ chain' = [state |-> IF row.att.kind = "void" THEN "voided" ELSE "settling",
                     outcome |-> row.att.outcome]
        /\ rows' = [rows EXCEPT ![i].job = "complete"]
        /\ UNCHANGED <<worldVars, schedulerVars, signerVars>>

JobDies(i) ==
    LET row == rows[i]
    IN  /\ row.job = "queued" /\ (chain.state # "open" \/ ~Valid(row.att))
        /\ rows' = [rows EXCEPT ![i].job = "dead"]
        /\ UNCHANGED <<worldVars, schedulerVars, signerVars, chain>>

TimeoutVoid ==
    /\ now >= Deadline /\ chain.state = "open"
    /\ chain' = [state |-> "voided", outcome |-> "timeout"]
    /\ UNCHANGED <<worldVars, schedulerVars, rows, signerVars>>

-----------------------------------------------------------------------------
WorkerStep(i) ==
    \/ Lease(i) \/ Ask(i) \/ RecordSigned(i) \/ EnqueueJob(i) \/ MarkEnqueued(i)
    \/ Retry(i) \/ Complete(i)

RelayerStep(i) == Land(i) \/ JobDies(i)

WorkflowNext ==
    \/ PublishNext \/ PassTime
    \/ OnEvent \/ OnEventAgain \/ OnEventFails \/ Crash
    \/ \E i \in DOMAIN rows : WorkerStep(i) \/ AskLost(i) \/ WorkerFails(i) \/ RelayerStep(i)
    \/ \E request \in inflight : Answer(request)
    \/ TimeoutVoid

WorkflowSpec == WorkflowInit /\ [][WorkflowNext]_vars

\* The match goes on, the clock runs, the scheduler is handed what is
\* published, cron runs the worker and the relayer, signers answer.
HandOver == cursor < Len(feed) /\ cursor' = cursor + 1

FairWorkflowSpec ==
    /\ WorkflowSpec
    /\ WF_vars(PublishNext) /\ WF_vars(PassTime) /\ WF_cursor(HandOver)
    /\ WF_vars(\E request \in inflight : Answer(request))
    /\ WF_vars(\E i \in DOMAIN rows : WorkerStep(i))
    /\ WF_vars(\E i \in DOMAIN rows : RelayerStep(i))

-----------------------------------------------------------------------------
(* Properties. *)

RowTypeOK(row) ==
    /\ row.state \in {"pending", "leased", "signed", "enqueued", "completed", "failed"}
    /\ row.held \in BOOLEAN /\ row.linked \in BOOLEAN
    /\ row.attempts \in 0..MaxAttempts /\ row.asked \in 0..Len(Endpoints)
    /\ row.job \in {"none", "queued", "complete", "dead"}
    /\ row.got \subseteq Signers /\ row.signed \subseteq Signers

\* Types; and a request is leased at most maxAttempts times and only a request
\* with a quorum has a job.
WorkflowTypeOK ==
    /\ script \in Scripts /\ cursor \in 0..Len(feed) /\ now \in Nat /\ faults \in 0..MaxFaults
    /\ mem.status \in {"none", "pending_lineup", "open", "frozen", "settling", "settled", "voided"}
    /\ \A i \in DOMAIN rows : RowTypeOK(rows[i])
    /\ \A i \in DOMAIN rows : rows[i].job # "none" => Cardinality(rows[i].signed) = Threshold
    /\ inflight \subseteq Signers \X (DOMAIN rows) \X (1..MaxAttempts)
    /\ chain.state \in {"open", "settling", "voided"}

\* What the record, as the newest one, makes of the market.
Verdicts(event) ==
    ({claimedOutcome(event) : x \in {event.phase} \cap TERMINAL_PHASES}
       \cup {signerVoidReason(event)}) \ {NoOutcome, NoVoid}

Said == UNION {Verdicts(event) : event \in Range(feed)}

OD == INSTANCE OracleDecision WITH
    said <- Said,
    decided <- {att.outcome : att \in
                  {sig[2] : sig \in {x \in signatures :
                     Cardinality({s \in Signers : <<s, x[2]>> \in signatures}) >= Threshold}}}

\* Refinement: whatever crashes, is lost, asked twice or overtaken by the
\* match, the signers of one oracle set never give two verdicts a quorum, and
\* the one they do give is what the newest record once said.
DecidedOnceOnTheFacts == OD!DecisionSpec

\* The match is over, nothing went wrong, and its last record is the first
\* that decides anything or touches the market.
DecidedByTheWhistle ==
    /\ Len(feed) = Len(script) /\ faults = 0 /\ RowStatus = "open"
    /\ Verdicts(Latest) # {}
    /\ \A event \in Range(feed) \ {Latest} :
         claimedOutcome(event) = NoOutcome /\ Verdicts(event) = {} /\ ~AsksControl(event)

\* Liveness: such a market gets its verdict on the chain.
WhistleSettles ==
    DecidedByTheWhistle ~> (chain.outcome \in Said \/ faults > 0)

\* Not a run: it does not hold.  Every finished match that decides the market
\* puts a verdict on the chain, also when the claim was decided before its end.
FinishedSettles ==
    (Len(feed) = Len(script) /\ faults = 0 /\ Verdicts(Latest) # {})
      ~> (chain.outcome \in Said \/ faults > 0)

=============================================================================
