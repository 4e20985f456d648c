------------------------- MODULE MarketFeed_proofs -------------------------
(***************************************************************************)
(* A market driven by its match, for any claims, players, taps, delays and *)
(* bounds: what the runs of MCMarket check of small matches.               *)
(*                                                                         *)
(* The argument has two halves.  FeedOK says what the score stream may     *)
(* carry: the match as the market knows it, every undelivered record and   *)
(* the match as it stands form a chain in which each event follows from    *)
(* the record before it.  MarketOK says how the reducer's state answers to *)
(* the last delivered record, field by field, from the lemmas on one       *)
(* reduction in MarketReducer_proofs.  Ledger, doubts, candidates and taps *)
(* each add an invariant of their own: LedgerOK, UnderCheck,               *)
(* CandidateOK and TapsOK.                                                 *)
(***************************************************************************)
EXTENDS MarketFeed, MarketReducer_proofs, FiniteSetTheorems, SequenceTheorems

Phases == {"NS", "H1", "H2", "F", "ET1", "FET", "PE", "FPE", "ABD"}
GoalPhases == {"H1", "H2", "ET1"}

GoalRecords ==
    [first : Nat, last : Nat, reversals : Nat, participant : 1..2, player : Players,
     own : BOOLEAN, phase : GoalPhases]

MatchRecords ==
    [phase : Phases, late : BOOLEAN, split : BOOLEAN, goals : SUBSET GoalRecords,
     untold : SUBSET Nat, var : BOOLEAN, seq : Nat]

\* A goal is known by the number of its first event; the number of its last one
\* is never another goal's; nothing is scored or checked before kickoff, or in
\* extra time that has not begun.
MatchOK(m) ==
    /\ m \in MatchRecords
    /\ m.seq <= MaxEvents
    /\ IsFiniteSet(m.goals)
    /\ \A g \in m.goals : g.first \in 1..m.seq /\ g.last \in 1..m.seq
    /\ \A g, h \in m.goals : g.first = h.first \/ g.last = h.first => g = h
    /\ m.phase = "NS" => m.goals = {} /\ ~m.var
    /\ m.phase \in REGULATION => \A g \in m.goals : g.phase # "ET1"

PhaseMoves(p, q) == p = q \/ q \in NextPhase[p] \/ (NextPhase[p] # {} /\ q = "ABD")

EventKinds ==
    {"phase_change", "goal", "goal_discarded", "goal_amended", "var_check", "var_end",
     "possible_event", "red_card", "stat_update", "lineup", "coverage_warning"}

IsEvent(e) ==
    e = [kind |-> e.kind, seq |-> e.seq, ts |-> e.ts, rcv |-> e.rcv, confirmed |-> e.confirmed,
         phase |-> e.phase, late |-> e.late, score |-> e.score, participant |-> e.participant,
         player |-> e.player, own |-> e.own, reverses |-> e.reverses]

\* What the event e does to the goals of a, leaving b.
Scores(a, e, b) ==
    /\ e.kind = "goal" /\ e.confirmed /\ e.phase \in GoalPhases /\ b.phase = a.phase
    /\ \E g \in b.goals :
         /\ g.first = e.seq /\ g.last = e.seq /\ g.participant = e.participant
         /\ g.own = e.own /\ g.phase = e.phase
         /\ b.goals = a.goals \cup {g}
         /\ \/ g.player = e.player /\ b.untold = a.untold
            \/ e.player = NoScorer.player /\ b.untold = a.untold \cup {g.first}

\* The correction e of the goal g names the goal by its own number, or does not.
Placed(g, e, a, b) ==
    e.reverses = g.first /\ g.last = g.first /\ b.untold = a.untold \ {g.first}
Misplaced(g, e, a, b) ==
    e.reverses \in {0, g.last} /\ b.untold = a.untold \cup {g.first}

\* The goal g is corrected to h.
Replaces(g, h, e, a, b) ==
    /\ h.first = g.first /\ h.last = e.seq /\ h.phase = g.phase
    /\ b.goals = (a.goals \ {g}) \cup {h}

Tells(e, h) == e.participant = h.participant /\ e.player = h.player /\ e.own = h.own

Discards(a, e, b) ==
    /\ e.kind = "goal_discarded" /\ ~b.var
    /\ \E g \in a.goals :
         b.goals = a.goals \ {g} /\ (Placed(g, e, a, b) \/ Misplaced(g, e, a, b))

Amends(a, e, b) ==
    /\ e.kind = "goal_amended" /\ ~b.var
    /\ e.participant \in 0..2 /\ e.player \in Players \cup {NoScorer.player} /\ e.own \in BOOLEAN
    /\ \E g \in a.goals, h \in b.goals :
         /\ Replaces(g, h, e, a, b)
         /\ (Placed(g, e, a, b) /\ Tells(e, h)) \/ Misplaced(g, e, a, b)

\* A correction taken for an ordinary update.
Misreads(a, e, b) ==
    /\ e.kind = "stat_update" /\ e.confirmed /\ ~b.var /\ b.goals # a.goals
    /\ \E g \in a.goals :
         /\ b.goals = a.goals \ {g} \/ \E h \in b.goals : Replaces(g, h, e, a, b)
         /\ b.untold = a.untold \cup {g.first}

KeepsGoals(a, e, b) ==
    /\ ~isReversal(e) /\ ~(e.kind = "goal" /\ e.confirmed)
    /\ b.goals = a.goals /\ b.untold = a.untold

\* The record b of the match follows from a, and e is the event that says so.
Follows(a, e, b) ==
    /\ IsEvent(e) /\ e.kind \in Kinds \cap EventKinds /\ e.confirmed \in BOOLEAN /\ e.ts \in Nat
    /\ e.seq = a.seq + 1 /\ b.seq = e.seq
    /\ e.phase = b.phase /\ PhaseMoves(a.phase, b.phase)
    /\ e.score = buildScoreState(b)
    /\ e.kind = "lineup" => b.phase = "NS"
    /\ e.kind = "goal" /\ ~e.confirmed => "unconfirmed_goal" \in Kinds
    /\ b.var => a.var \/ e.kind = "var_check"
    /\ e.kind = "var_end" => ~b.var
    /\ \/ Scores(a, e, b) \/ Discards(a, e, b) \/ Amends(a, e, b) \/ Misreads(a, e, b)
       \/ KeepsGoals(a, e, b)

\* The records of the match from the one the market knows to the newest.
Told(i) == IF i = 0 THEN known ELSE queue[i].truth

FeedOK ==
    /\ now \in Nat /\ spec \in ClaimSpecs /\ MatchOK(known)
    /\ \E S : queue \in Seq(S)
    /\ \A i \in 1..Len(queue) :
         MatchOK(queue[i].truth) /\ Follows(Told(i - 1), queue[i].event, queue[i].truth)
    /\ match = Told(Len(queue))
    /\ IsEvent(last) /\ last.kind # "odds_suspension"
    /\ last.seq = known.seq /\ last.phase = known.phase

Taps == [Positions -> [state : {"none", "pending", "active", "void"}, placedAt : Nat]]

Statuses == {"pending_lineup", "open", "frozen", "settling", "settled", "voided"}

\* A market state, live or not.
Shape(m) ==
    /\ IsMarket(m) /\ m.status \in Statuses
    /\ m.status = "settling" <=> m.pending # NoCandidate
    /\ m.pending # NoCandidate => m.pending.outcome \in Won
    /\ m.positions \in Taps
    /\ m.scratch.goals \subseteq StandingGoal
    /\ m.scratch.freezeReason \in Reasons
    /\ m.scratch.cutoffReached \in BOOLEAN
    /\ m.scratch.cutoffReached => m.status # "open"

MarketOK ==
    /\ Shape(st)
    /\ st.status = "pending_lineup" =>
         ~st.scratch.cutoffReached /\ st.scratch.goals = {} /\ known.phase = "NS"
    /\ ~Closed(st) => st.scratch.lastSeq = last.seq

IInv == FeedOK /\ MarketOK

\* While a check is open on the delivered feed, and no other doubt was delivered
\* since it began, the market is frozen for it.
UnderCheck ==
    known.var /\ ~masked /\ st.status \in {"open", "frozen", "settling"} =>
      st.status = "frozen" /\ st.scratch.freezeReason = "var"

\* The facts of a record of the match decide the claim, with this outcome.
FactsDecide(truth, outcome) ==
    CannotChange(truth) /\ outcome = IF ClaimHolds(truth) THEN "claim_won" ELSE "claim_lost"

\* A player claim is judged on the ledger, and so on goals told in full.
Judged(truth) == spec.claimType = "player_scores_n" => truth.untold = {}

Cited(truth) == {g.first : g \in truth.goals} \cup truth.untold

CandidateOK ==
    st.pending # NoCandidate =>
      /\ Judged(known) => FactsDecide(known, st.pending.outcome)
      /\ st.pending.evidence \subseteq Cited(known) \cup {st.pending.decidingSeq}

-----------------------------------------------------------------------------
(* The match and what it publishes. *)

LEMMA MaxEventsNat == MaxEvents \in Nat /\ SideOf \in [Players -> 1..2]
  BY MatchAssumption

\* A record of the match and the event about it are published together.
Published(e, b) ==
    /\ match' = b /\ queue' = Append(queue, [event |-> e, truth |-> b]) /\ UNCHANGED now

LEMMA ScoreWithoutSeq ==
    \A m, b : b.phase = m.phase /\ b.split = m.split /\ b.goals = m.goals
                => buildScoreState(b) = buildScoreState(m)
  BY Zenon DEF buildScoreState

\* e and b are what Publish makes of its arguments.
Announces(kind, confirmed, m, who, reverses, e, b) ==
    /\ Published(e, b) /\ kind \in Kinds
    /\ IsEvent(e) /\ e.kind = kind /\ e.confirmed = confirmed /\ e.ts = now
    /\ e.seq = match.seq + 1 /\ e.phase = m.phase /\ e.score = buildScoreState(b)
    /\ e.participant = who.participant /\ e.player = who.player /\ e.own = who.own
    /\ e.reverses = reverses
    /\ b \in MatchRecords /\ b.seq = match.seq + 1 /\ b.seq <= MaxEvents
    /\ b.phase = m.phase /\ b.goals = m.goals /\ b.untold = m.untold /\ b.var = m.var

LEMMA PublishIs ==
    ASSUME match \in MatchRecords, NEW m \in MatchRecords, m.seq = match.seq,
           NEW kind, NEW confirmed, NEW who, NEW reverses,
           Publish(kind, confirmed, m, who, reverses)
    PROVE  \E e, b : Announces(kind, confirmed, m, who, reverses, e, b)
<1> DEFINE s == match.seq + 1
           b == [m EXCEPT !.seq = s]
           score == buildScoreState(m)
           e == [kind |-> kind, seq |-> s, ts |-> now, rcv |-> now, confirmed |-> confirmed,
                 phase |-> m.phase, late |-> m.late, score |-> score,
                 participant |-> who.participant, player |-> who.player, own |-> who.own,
                 reverses |-> reverses]
<1>1. /\ kind \in Kinds /\ s <= MaxEvents /\ Published(e, b)
  BY DEF Publish, Published
<1>2. s \in Nat
  BY DEF MatchRecords
<1> HIDE DEF s
<1>3. /\ b \in MatchRecords /\ b.seq = s /\ b.phase = m.phase /\ b.goals = m.goals
      /\ b.untold = m.untold /\ b.var = m.var /\ b.split = m.split
  BY <1>2 DEF MatchRecords
<1>4. buildScoreState(b) = score
  BY <1>3, ScoreWithoutSeq
<1> HIDE DEF b, score
<1>5. /\ IsEvent(e) /\ e.kind = kind /\ e.confirmed = confirmed /\ e.ts = now
      /\ e.seq = s /\ e.phase = m.phase /\ e.score = score
      /\ e.participant = who.participant /\ e.player = who.player /\ e.own = who.own
      /\ e.reverses = reverses
  BY DEF IsEvent
<1> HIDE DEF e
<1>6. s = match.seq + 1
  BY DEF s
<1> QED
  BY <1>1, <1>3, <1>4, <1>5, <1>6 DEF Announces

\* An event that leaves the goals alone.
LEMMA PublishQuietly ==
    ASSUME MatchOK(match), now \in Nat, NEW m \in MatchRecords, m.seq = match.seq,
           m.goals = match.goals, m.untold = match.untold, PhaseMoves(match.phase, m.phase),
           m.phase = "NS" => ~m.var,
           NEW kind, NEW confirmed \in BOOLEAN, NEW who,
           Publish(kind, confirmed, m, who, 0),
           kind \in EventKinds, kind # "goal_discarded", kind # "goal_amended",
           kind = "goal" => ~confirmed /\ "unconfirmed_goal" \in Kinds,
           kind = "lineup" => m.phase = "NS",
           m.var => match.var \/ kind = "var_check",
           kind = "var_end" => ~m.var
    PROVE  \E e, b : Published(e, b) /\ Follows(match, e, b) /\ MatchOK(b)
<1>1. match \in MatchRecords
  BY DEF MatchOK
<1>2. PICK e, b : Announces(kind, confirmed, m, who, 0, e, b)
  BY <1>1, PublishIs
<1> USE DEF Announces
<1>3. KeepsGoals(match, e, b)
  BY <1>2 DEF KeepsGoals, isReversal
<1>4. Follows(match, e, b)
  BY <1>2, <1>3 DEF Follows
<1>5. /\ \A g \in b.goals : g.first \in 1..b.seq /\ g.last \in 1..b.seq
      /\ \A g, h \in b.goals : g.first = h.first \/ g.last = h.first => g = h
  BY <1>1, <1>2 DEF MatchOK, MatchRecords
<1>6. b.phase = "NS" => match.phase = "NS"
  BY <1>1, <1>2 DEF PhaseMoves, NextPhase, MatchRecords, Phases
<1>7. b.phase \in REGULATION => match.phase \in REGULATION
  BY <1>1, <1>2 DEF PhaseMoves, NextPhase, MatchRecords, Phases, REGULATION
<1>8. MatchOK(b)
  BY <1>2, <1>5, <1>6, <1>7 DEF MatchOK
<1> QED
  BY <1>2, <1>4, <1>8

LEMMA QuietSteps ==
    ASSUME MatchOK(match), now \in Nat,
           \/ ChangePhase \/ UnconfirmedGoal \/ VarCheck \/ VarEnd \/ PossibleEvent \/ RedCard
           \/ Update \/ RunLate \/ Lineup \/ Abandon \/ CoverageLost
    PROVE  \E e, b : Published(e, b) /\ Follows(match, e, b) /\ MatchOK(b)
<1>1. match \in MatchRecords /\ (match.phase = "NS" => ~match.var)
  BY DEF MatchOK
<1>2. /\ match.phase \in Phases /\ match.late \in BOOLEAN /\ match.split \in BOOLEAN
      /\ match.goals \in SUBSET GoalRecords /\ match.untold \in SUBSET Nat /\ match.var \in BOOLEAN /\ match.seq \in Nat
      /\ PhaseMoves(match.phase, match.phase)
  BY <1>1 DEF MatchRecords, PhaseMoves
<1> USE DEF EventKinds
<1>3. CASE ChangePhase
  <2>1. PICK p \in NextPhase[match.phase], splits \in BOOLEAN :
               Publish("phase_change", TRUE, [match EXCEPT !.phase = p, !.split = splits], NoScorer, 0)
    BY <1>3, Zenon DEF ChangePhase
  <2> DEFINE m == [match EXCEPT !.phase = p, !.split = splits]
  <2>2. p \in Phases /\ p # "NS" /\ PhaseMoves(match.phase, p)
    BY <1>2 DEF NextPhase, Phases, PhaseMoves
  <2>3. /\ m \in MatchRecords /\ m.phase = p /\ m.goals = match.goals /\ m.untold = match.untold /\ m.var = match.var
        /\ m.seq = match.seq
    BY <1>1, <2>2 DEF MatchRecords
  <2>4. Publish("phase_change", TRUE, m, NoScorer, 0)
    BY <2>1
  <2> HIDE DEF m
  <2>5. m.var => match.var
    BY <2>3
  <2>6. m.phase # "NS" /\ PhaseMoves(match.phase, m.phase)
    BY <2>2, <2>3
  <2> QED
    BY <2>3, <2>4, <2>5, <2>6, PublishQuietly
<1>4. CASE UnconfirmedGoal
  BY <1>1, <1>2, <1>4, PublishQuietly DEF UnconfirmedGoal
<1>5. CASE VarCheck
  <2> DEFINE m == [match EXCEPT !.var = TRUE]
  <2>1. Publish("var_check", TRUE, m, NoScorer, 0) /\ match.phase # "NS"
    BY <1>5 DEF VarCheck
  <2>2. /\ m \in MatchRecords /\ m.phase = match.phase /\ m.goals = match.goals /\ m.untold = match.untold /\ m.var = TRUE
        /\ m.seq = match.seq
    BY <1>1 DEF MatchRecords
  <2> HIDE DEF m
  <2> QED
    BY <1>2, <2>1, <2>2, PublishQuietly
<1>6. CASE VarEnd
  <2> DEFINE m == [match EXCEPT !.var = FALSE]
  <2>1. Publish("var_end", TRUE, m, NoScorer, 0)
    BY <1>6 DEF VarEnd
  <2>2. /\ m \in MatchRecords /\ m.phase = match.phase /\ m.goals = match.goals /\ m.untold = match.untold /\ m.var = FALSE
        /\ m.seq = match.seq
    BY <1>1 DEF MatchRecords
  <2> HIDE DEF m
  <2> QED
    BY <1>2, <2>1, <2>2, PublishQuietly
<1>7. CASE PossibleEvent
  BY <1>1, <1>2, <1>7, PublishQuietly DEF PossibleEvent
<1>8. CASE RedCard
  BY <1>1, <1>2, <1>8, PublishQuietly DEF RedCard
<1>9. CASE Update
  BY <1>1, <1>2, <1>9, PublishQuietly DEF Update
<1>10. CASE RunLate
  <2> DEFINE m == [match EXCEPT !.late = TRUE]
  <2>1. Publish("stat_update", TRUE, m, NoScorer, 0)
    BY <1>10 DEF RunLate
  <2>2. /\ m \in MatchRecords /\ m.phase = match.phase /\ m.goals = match.goals /\ m.untold = match.untold
        /\ m.var = match.var /\ m.seq = match.seq
    BY <1>1 DEF MatchRecords
  <2> HIDE DEF m
  <2> QED
    BY <1>1, <1>2, <2>1, <2>2, PublishQuietly
<1>11. CASE Lineup
  <2>1. PICK starter \in Players :
               Publish("lineup", TRUE, match, [NoScorer EXCEPT !.player = starter], 0)
    BY <1>11 DEF Lineup
  <2> DEFINE who == [NoScorer EXCEPT !.player = starter]
  <2> HIDE DEF who
  <2>2. Publish("lineup", TRUE, match, who, 0) /\ match.phase = "NS"
    BY <1>11, <2>1 DEF who, Lineup
  <2> QED
    BY <1>1, <1>2, <2>2, PublishQuietly
<1>12. CASE Abandon
  <2> DEFINE m == [match EXCEPT !.phase = "ABD"]
  <2>1. Publish("phase_change", TRUE, m, NoScorer, 0) /\ NextPhase[match.phase] # {}
    BY <1>12 DEF Abandon, Over
  <2>2. /\ m \in MatchRecords /\ m.phase = "ABD" /\ m.goals = match.goals /\ m.untold = match.untold
        /\ m.var = match.var /\ m.seq = match.seq
    BY <1>1 DEF MatchRecords, Phases
  <2>3. PhaseMoves(match.phase, "ABD")
    BY <2>1 DEF PhaseMoves
  <2> HIDE DEF m
  <2> QED
    BY <2>1, <2>2, <2>3, PublishQuietly
<1>13. CASE CoverageLost
  BY <1>1, <1>2, <1>13, PublishQuietly DEF CoverageLost
<1> QED
  BY <1>3, <1>4, <1>5, <1>6, <1>7, <1>8, <1>9, <1>10, <1>11, <1>12, <1>13

LEMMA CreditedSideIs == \A scorer \in Players, own \in BOOLEAN : CreditedSide(scorer, own) \in 1..2
  BY MaxEventsNat DEF CreditedSide, Opponent

\* The feed announces a goal, with its scorer or without.
LEMMA GoalFollows ==
    ASSUME MatchOK(match), now \in Nat, Goal \/ UnnamedGoal
    PROVE  \E e, b : Published(e, b) /\ Follows(match, e, b) /\ MatchOK(b)
<1>0. match \in MatchRecords /\ match.seq \in Nat /\ match.phase \in Phases /\ match.untold \subseteq Nat
  BY DEF MatchOK, MatchRecords
<1> DEFINE s == match.seq + 1
           G(side, scorer, own) == [first |-> s, last |-> s, reversals |-> 0, participant |-> side,
                                    player |-> scorer, own |-> own, phase |-> match.phase]
           M(g, untold) == [match EXCEPT !.goals = @ \cup {g}, !.untold = untold]
           Announced(side, scorer, own, untold, who) ==
              /\ Publish("goal", TRUE, M(G(side, scorer, own), untold), who, 0)
              /\ who.participant = side /\ who.own = own
              /\ \/ who.player = scorer /\ untold = match.untold
                 \/ who.player = NoScorer.player /\ untold = match.untold \cup {s}
<1>1. \E side \in 1..2, scorer \in Players, own \in BOOLEAN, untold \in SUBSET Nat :
        \E who : Announced(side, scorer, own, untold, who)
  <2>1. CASE Goal
    <3>1. PICK scorer \in Players, own \in BOOLEAN :
            Publish("goal", TRUE,
                    [match EXCEPT !.goals = @ \cup {G(CreditedSide(scorer, own), scorer, own)}],
                    G(CreditedSide(scorer, own), scorer, own), 0)
      BY <2>1 DEF Goal
    <3> DEFINE side == CreditedSide(scorer, own)
               g == G(side, scorer, own)
    <3>2. side \in 1..2
      BY CreditedSideIs
    <3>3. Publish("goal", TRUE, [match EXCEPT !.goals = @ \cup {g}], g, 0)
      BY <3>1
    <3>4. g.participant = side /\ g.player = scorer /\ g.own = own
      OBVIOUS
    <3> HIDE DEF g
    <3>5. M(g, match.untold) = [match EXCEPT !.goals = @ \cup {g}]
      BY <1>0 DEF MatchRecords
    <3>6. Publish("goal", TRUE, M(g, match.untold), g, 0)
      BY <3>3, <3>5
    <3>7. match.untold \in SUBSET Nat
      BY <1>0
    <3>8. Announced(side, scorer, own, match.untold, g)
      BY <3>4, <3>6 DEF g
    <3> HIDE DEF Announced, side
    <3> QED
      BY <3>2, <3>7, <3>8
  <2>2. CASE UnnamedGoal
    <3>1. PICK scorer \in Players :
            LET g == G(SideOf[scorer], scorer, FALSE)
            IN  Publish("goal", TRUE,
                   [match EXCEPT !.goals = @ \cup {g}, !.untold = @ \cup {g.first}],
                   [g EXCEPT !.player = NoScorer.player], 0)
      BY <2>2, Zenon DEF UnnamedGoal
    <3> DEFINE side == SideOf[scorer]
               g == G(side, scorer, FALSE)
               untold == match.untold \cup {s}
               who == [g EXCEPT !.player = NoScorer.player]
    <3>2. side \in 1..2
      BY MaxEventsNat
    <3>3. M(g, untold) = [match EXCEPT !.goals = @ \cup {g}, !.untold = @ \cup {g.first}]
      BY <1>0 DEF MatchRecords
    <3>4. Publish("goal", TRUE, M(g, untold), who, 0)
      BY <3>1, <3>3
    <3>5. who.participant = side /\ who.player = NoScorer.player /\ who.own = FALSE
      OBVIOUS
    <3>6. untold \in SUBSET Nat
      BY <1>0
    <3> HIDE DEF who
    <3>7. Announced(side, scorer, FALSE, untold, who)
      BY <3>4, <3>5
    <3> HIDE DEF Announced, side, untold
    <3> QED
      BY <3>2, <3>6, <3>7
  <2> HIDE DEF Announced
  <2> QED
    BY <2>1, <2>2
<1>p. PICK side \in 1..2, scorer \in Players, own \in BOOLEAN, untold \in SUBSET Nat :
        \E who : Announced(side, scorer, own, untold, who)
  BY <1>1, Zenon
<1>q. PICK who : Announced(side, scorer, own, untold, who)
  BY <1>p, Zenon
<1> DEFINE g == G(side, scorer, own)
           goals == match.goals \cup {g}
           m == M(g, untold)
<1>t. /\ Publish("goal", TRUE, m, who, 0)
      /\ who.participant = side /\ who.own = own
      /\ \/ who.player = scorer /\ untold = match.untold
         \/ who.player = NoScorer.player /\ untold = match.untold \cup {s}
  BY <1>q
<1>2. Publish("goal", TRUE, m, who, 0)
  BY <1>t
<1>3. match.phase \in GoalPhases
  <2>1. Scoring
    BY Zenon DEF Goal, UnnamedGoal
  <2> QED
    BY <2>1 DEF Scoring, GoalPhases
<1>4. s \in Nat /\ s = match.seq + 1
  BY <1>0
<1> HIDE DEF s
<1>5. /\ g \in GoalRecords /\ g.first = s /\ g.last = s /\ g.participant = side /\ g.player = scorer
      /\ g.own = own /\ g.phase = match.phase
  BY <1>3, <1>4 DEF GoalRecords
<1>6. m = [match EXCEPT !.goals = goals, !.untold = untold]
  BY <1>0 DEF MatchRecords
<1> HIDE DEF g, G, M, m
<1>7. goals \in SUBSET GoalRecords
  BY <1>0, <1>5 DEF MatchRecords
<1>8. IsFiniteSet(goals)
  BY FS_AddElement DEF MatchOK
<1>9. goals = match.goals \cup {g}
  OBVIOUS
<1> HIDE DEF goals
<1>10. /\ m \in MatchRecords /\ m.phase = match.phase /\ m.goals = goals /\ m.untold = untold
       /\ m.var = match.var /\ m.seq = match.seq
  BY <1>0, <1>6, <1>7 DEF MatchRecords
<1>11. PICK e, b : Announces("goal", TRUE, m, who, 0, e, b)
  BY <1>0, <1>2, <1>10, PublishIs
<1> USE DEF Announces
<1>12. Scores(match, e, b)
  <2>1. g \in b.goals /\ b.goals = match.goals \cup {g}
    BY <1>9, <1>10, <1>11
  <2>2. g.first = e.seq /\ g.last = e.seq /\ g.participant = e.participant /\ g.own = e.own
        /\ g.phase = e.phase
    BY <1>t, <1>4, <1>5, <1>10, <1>11
  <2>3. \/ g.player = e.player /\ b.untold = match.untold
        \/ e.player = NoScorer.player /\ b.untold = match.untold \cup {g.first}
    BY <1>t, <1>5, <1>10, <1>11
  <2> QED
    BY <2>1, <2>2, <2>3, <1>3, <1>10, <1>11 DEF Scores
<1>13. PhaseMoves(match.phase, b.phase)
  BY <1>10, <1>11 DEF PhaseMoves
<1>14. Follows(match, e, b)
  <2>1. e.kind \in Kinds \cap EventKinds /\ e.confirmed \in BOOLEAN
    BY <1>11 DEF EventKinds
  <2>2. b.var => match.var
    BY <1>10, <1>11
  <2> QED
    BY <2>1, <2>2, <1>11, <1>12, <1>13 DEF Follows
<1>15. /\ \A h \in b.goals : h.first \in 1..b.seq /\ h.last \in 1..b.seq
       /\ \A h, k \in b.goals : h.first = k.first \/ h.last = k.first => h = k
  <2>1. \A h \in match.goals : h.first \in 1..match.seq /\ h.last \in 1..match.seq
    BY DEF MatchOK
  <2>2. \A h, k \in match.goals : h.first = k.first \/ h.last = k.first => h = k
    BY DEF MatchOK
  <2>3. \A h \in b.goals : h \in match.goals \/ h = g
    BY <1>9, <1>10, <1>11
  <2>4. \A h \in match.goals : h.first # s /\ h.last # s
    BY <2>1, <1>0, <1>4
  <2>5. \A h \in match.goals : h.first \in 1..b.seq /\ h.last \in 1..b.seq
    BY <2>1, <1>0, <1>4, <1>11
  <2>6. g.first \in 1..b.seq /\ g.last \in 1..b.seq
    BY <1>0, <1>4, <1>5, <1>11
  <2> QED
    BY <2>2, <2>3, <2>4, <2>5, <2>6, <1>5
<1>16. b.phase # "NS"
  BY <1>3, <1>10, <1>11 DEF GoalPhases
<1>17. b.phase \in REGULATION => \A h \in b.goals : h.phase # "ET1"
  BY <1>5, <1>9, <1>10, <1>11 DEF MatchOK, REGULATION
<1>18. MatchOK(b)
  BY <1>8, <1>10, <1>11, <1>15, <1>16, <1>17 DEF MatchOK
<1> QED
  BY <1>11, <1>14, <1>18

\* What a correction of g publishes: the goals as they now are; the correction
\* under the goal's own number and in full, or under another and untold, or as an
\* ordinary update.
Correction(kind, g, goals, who, e, b) ==
    /\ Published(e, b) /\ IsEvent(e) /\ e.kind \in Kinds /\ e.confirmed = TRUE /\ e.ts = now
    /\ e.seq = match.seq + 1 /\ e.phase = match.phase /\ e.score = buildScoreState(b)
    /\ b \in MatchRecords /\ b.seq = match.seq + 1 /\ b.seq <= MaxEvents
    /\ b.phase = match.phase /\ b.goals = goals /\ b.var = FALSE
    /\ Tells(e, who) \/ Tells(e, NoScorer)
    /\ \/ e.kind = kind /\ Placed(g, e, match, b) /\ (kind = "goal_amended" => Tells(e, who))
       \/ e.kind = kind /\ Misplaced(g, e, match, b)
       \/ e.kind = "stat_update" /\ b.untold = match.untold \cup {g.first}

LEMMA CorrectsFollows ==
    ASSUME MatchOK(match), NEW g \in match.goals, NEW goals \in SUBSET GoalRecords, NEW who, NEW kind,
           Corrects(kind, g, goals, who)
    PROVE  \E e, b : Correction(kind, g, goals, who, e, b)
<1>0. /\ match \in MatchRecords /\ match.untold \subseteq Nat
      /\ g.first \in Nat /\ g.first # 0
  BY DEF MatchOK, MatchRecords
<1> DEFINE Reverses(missing) == IF missing \cap {"seq", "kind"} = {} THEN g.last ELSE 0
           Exact(missing) == Reverses(missing) = g.first /\ (kind = "goal_amended" => "detail" \notin missing)
           Untold(missing) == IF Exact(missing) THEN match.untold \ {g.first}
                              ELSE match.untold \cup {g.first}
           Says(missing) == IF "kind" \in missing THEN "stat_update" ELSE kind
           Who(missing) == IF "detail" \in missing THEN NoScorer ELSE who
<1>1. PICK missing \in SUBSET Gaps :
        Publish(Says(missing), TRUE,
                [match EXCEPT !.goals = goals, !.var = FALSE,
                              !.untold = IF Exact(missing) THEN @ \ {g.first} ELSE @ \cup {g.first}],
                Who(missing), Reverses(missing))
  BY Zenon DEF Corrects
<1> DEFINE untold == Untold(missing)
           m == [match EXCEPT !.goals = goals, !.var = FALSE, !.untold = untold]
           says == Says(missing)
           speaker == Who(missing)
           reverses == Reverses(missing)
<1>2. m = [match EXCEPT !.goals = goals, !.var = FALSE,
                        !.untold = IF Exact(missing) THEN @ \ {g.first} ELSE @ \cup {g.first}]
  BY <1>0 DEF MatchRecords
<1>3. Publish(says, TRUE, m, speaker, reverses)
  BY <1>1, <1>2
<1>4. untold \subseteq Nat
  BY <1>0
<1>5. speaker = who \/ speaker = NoScorer
  OBVIOUS
<1>6. \/ says = kind /\ reverses = g.first /\ g.last = g.first /\ untold = match.untold \ {g.first}
         /\ (kind = "goal_amended" => speaker = who)
      \/ says = kind /\ reverses \in {0, g.last} /\ untold = match.untold \cup {g.first}
      \/ says = "stat_update" /\ untold = match.untold \cup {g.first}
  BY <1>0
<1> HIDE DEF untold, says, speaker, reverses
<1>7. /\ m \in MatchRecords /\ m.phase = match.phase /\ m.goals = goals /\ m.untold = untold
      /\ m.var = FALSE /\ m.seq = match.seq
  BY <1>0, <1>4 DEF MatchRecords
<1> HIDE DEF m
<1>8. PICK e, b : Announces(says, TRUE, m, speaker, reverses, e, b)
  BY <1>0, <1>3, <1>7, PublishIs
<1>9. Tells(e, speaker)
  BY <1>8 DEF Announces, Tells
<1>10. /\ Published(e, b) /\ IsEvent(e) /\ e.kind \in Kinds /\ e.confirmed = TRUE /\ e.ts = now
       /\ e.seq = match.seq + 1 /\ e.phase = match.phase /\ e.score = buildScoreState(b)
       /\ b \in MatchRecords /\ b.seq = match.seq + 1 /\ b.seq <= MaxEvents
       /\ b.phase = match.phase /\ b.goals = goals /\ b.var = FALSE
       /\ e.kind = says /\ e.reverses = reverses /\ b.untold = untold
  BY <1>7, <1>8 DEF Announces
<1>11. \/ e.kind = kind /\ Placed(g, e, match, b) /\ (kind = "goal_amended" => Tells(e, who))
       \/ e.kind = kind /\ Misplaced(g, e, match, b)
       \/ e.kind = "stat_update" /\ b.untold = match.untold \cup {g.first}
  BY <1>6, <1>9, <1>10 DEF Placed, Misplaced
<1>12. Tells(e, who) \/ Tells(e, NoScorer)
  BY <1>5, <1>9
<1> QED
  BY <1>10, <1>11, <1>12 DEF Correction

LEMMA DiscardFollows ==
    ASSUME MatchOK(match), now \in Nat, Discard
    PROVE  \E e, b : Published(e, b) /\ Follows(match, e, b) /\ MatchOK(b)
<1>0. match \in MatchRecords /\ match.seq \in Nat /\ match.goals \subseteq GoalRecords
  BY DEF MatchOK, MatchRecords
<1>1. PICK g \in match.goals : Corrects("goal_discarded", g, match.goals \ {g}, g)
  BY DEF Discard
<1> DEFINE goals == match.goals \ {g}
<1>2. goals \in SUBSET GoalRecords
  BY <1>0
<1>3. IsFiniteSet(goals)
  BY FS_RemoveElement DEF MatchOK
<1>4. PICK e, b : Correction("goal_discarded", g, goals, g, e, b)
  BY <1>1, <1>2, CorrectsFollows
<1>5. goals = match.goals \ {g} /\ g \notin goals
  OBVIOUS
<1> HIDE DEF goals
<1> USE DEF Correction
<1>6. Discards(match, e, b) \/ Misreads(match, e, b)
  BY <1>4, <1>5 DEF Discards, Misreads
<1>7. PhaseMoves(match.phase, b.phase) /\ b.phase # "NS"
  BY <1>4 DEF PhaseMoves, MatchOK
<1>8. e.kind \in Kinds \cap EventKinds /\ e.confirmed \in BOOLEAN /\ ~b.var
      /\ e.kind \notin {"lineup", "goal", "var_end"}
  BY <1>4 DEF EventKinds
<1>9. Follows(match, e, b)
  BY <1>4, <1>6, <1>7, <1>8 DEF Follows
<1>10. \A h \in b.goals : h \in match.goals
  BY <1>4, <1>5
<1>11. /\ \A h \in b.goals : h.first \in 1..b.seq /\ h.last \in 1..b.seq
       /\ \A h, k \in b.goals : h.first = k.first \/ h.last = k.first => h = k
  BY <1>0, <1>4, <1>10 DEF MatchOK
<1>12. b.phase \in REGULATION => \A h \in b.goals : h.phase # "ET1"
  BY <1>4, <1>10 DEF MatchOK
<1>13. MatchOK(b)
  BY <1>3, <1>4, <1>7, <1>11, <1>12 DEF MatchOK
<1> QED
  BY <1>4, <1>9, <1>13

LEMMA AmendFollows ==
    ASSUME MatchOK(match), now \in Nat, Amend
    PROVE  \E e, b : Published(e, b) /\ Follows(match, e, b) /\ MatchOK(b)
<1>0. match \in MatchRecords /\ match.seq \in Nat /\ match.goals \subseteq GoalRecords
  BY DEF MatchOK, MatchRecords
<1> DEFINE Fixed(g, scorer, own) ==
              [g EXCEPT !.player = scorer, !.own = own, !.last = match.seq + 1,
                        !.participant = CreditedSide(scorer, own), !.reversals = @ + 1]
<1>1. PICK g \in match.goals, scorer \in Players, own \in BOOLEAN :
        Corrects("goal_amended", g, (match.goals \ {g}) \cup {Fixed(g, scorer, own)}, Fixed(g, scorer, own))
  BY Zenon DEF Amend
<1> DEFINE s == match.seq + 1
           side == CreditedSide(scorer, own)
           again == g.reversals + 1
           h == Fixed(g, scorer, own)
           goals == (match.goals \ {g}) \cup {h}
<1>2. g \in GoalRecords /\ g.reversals \in Nat /\ g.first \in 1..match.seq
  BY <1>0 DEF GoalRecords, MatchOK
<1>3. h = [g EXCEPT !.player = scorer, !.own = own, !.last = s, !.participant = side,
                    !.reversals = again]
  BY <1>2 DEF GoalRecords
<1>4. Corrects("goal_amended", g, goals, h)
  BY <1>1
<1> HIDE DEF Fixed, h
<1>5. side \in 1..2 /\ s \in Nat /\ again \in Nat /\ again # g.reversals /\ s = match.seq + 1
      /\ g.first # s
  BY <1>0, <1>2, CreditedSideIs
<1> HIDE DEF s, side, again
<1>6. /\ h \in GoalRecords /\ h.first = g.first /\ h.phase = g.phase /\ h.participant = side
      /\ h.player = scorer /\ h.own = own /\ h.last = s /\ h.reversals = again
  BY <1>2, <1>3, <1>5 DEF GoalRecords
<1>7. goals \in SUBSET GoalRecords
  BY <1>0, <1>6
<1>8. IsFiniteSet(goals)
  BY FS_RemoveElement, FS_AddElement DEF MatchOK
<1>9. goals = (match.goals \ {g}) \cup {h} /\ h # g
  BY <1>5, <1>6
<1> HIDE DEF goals
<1>10. PICK e, b : Correction("goal_amended", g, goals, h, e, b)
  BY <1>4, <1>7, CorrectsFollows
<1> USE DEF Correction
<1>11. h \in b.goals /\ b.goals = (match.goals \ {g}) \cup {h} /\ b.goals # match.goals
  BY <1>9, <1>10
<1>12. Replaces(g, h, e, match, b)
  BY <1>5, <1>6, <1>10, <1>11 DEF Replaces
<1>13. e.participant \in 0..2 /\ e.player \in Players \cup {NoScorer.player} /\ e.own \in BOOLEAN
  <2>1. Tells(e, h) \/ Tells(e, NoScorer)
    BY <1>10
  <2>2. Tells(e, h) => e.participant \in 1..2 /\ e.player \in Players /\ e.own \in BOOLEAN
    BY <1>5, <1>6 DEF Tells
  <2>3. Tells(e, NoScorer) => e.participant = 0 /\ e.player = NoScorer.player /\ e.own = FALSE
    BY DEF Tells, NoScorer
  <2>4. CASE Tells(e, h)
    BY <2>2, <2>4
  <2>5. CASE Tells(e, NoScorer)
    <3>1. e.participant = 0 /\ e.player = NoScorer.player /\ e.own = FALSE
      BY <2>3, <2>5
    <3>2. 0 \in 0..2 /\ FALSE \in BOOLEAN
      OBVIOUS
    <3>3. NoScorer.player \in Players \cup {NoScorer.player}
      BY Zenon
    <3> QED
      BY <3>1, <3>2, <3>3, Zenon
  <2> QED
    BY <2>1, <2>4, <2>5
<1>14. Amends(match, e, b) \/ Misreads(match, e, b)
  BY <1>10, <1>11, <1>12, <1>13 DEF Amends, Misreads
<1>15. PhaseMoves(match.phase, b.phase) /\ b.phase # "NS"
  BY <1>10 DEF PhaseMoves, MatchOK
<1>16. e.kind \in Kinds \cap EventKinds /\ e.confirmed \in BOOLEAN /\ ~b.var
       /\ e.kind \notin {"lineup", "goal", "var_end"}
  BY <1>10 DEF EventKinds
<1>17. Follows(match, e, b)
  BY <1>10, <1>14, <1>15, <1>16 DEF Follows
<1>18. \A k \in match.goals : k.first \in 1..match.seq /\ k.last \in 1..match.seq
  BY DEF MatchOK
<1>19. \A k \in match.goals : /\ k.first \in 1..b.seq /\ k.last \in 1..b.seq
                              /\ k.first # s
  BY <1>0, <1>5, <1>10, <1>18
<1>20. \A j, k \in match.goals : j.first = k.first \/ j.last = k.first => j = k
  BY DEF MatchOK
<1>21. \A k \in b.goals : (k \in match.goals /\ k # g) \/ k = h
  BY <1>11
<1>22. s \in 1..b.seq
  BY <1>0, <1>5, <1>10
<1>23. \A k \in b.goals : k.first \in 1..b.seq /\ k.last \in 1..b.seq
  BY <1>6, <1>19, <1>21, <1>22
<1>24. \A j, k \in b.goals : j.first = k.first \/ j.last = k.first => j = k
  BY <1>5, <1>6, <1>19, <1>20, <1>21
<1>25. b.phase \in REGULATION => \A k \in b.goals : k.phase # "ET1"
  <2>1. match.phase \in REGULATION => \A k \in match.goals : k.phase # "ET1"
    BY DEF MatchOK
  <2> QED
    BY <2>1, <1>6, <1>10, <1>21
<1>26. MatchOK(b)
  BY <1>8, <1>10, <1>15, <1>23, <1>24, <1>25 DEF MatchOK
<1> QED
  BY <1>10, <1>17, <1>26

\* Whatever happens on the pitch, the record published follows from the last.
LEMMA MatchStepFollows ==
    ASSUME MatchOK(match), now \in Nat, MatchStep
    PROVE  \E e, b : Published(e, b) /\ Follows(match, e, b) /\ MatchOK(b)
<1>1. CASE Goal \/ UnnamedGoal
  BY <1>1, GoalFollows
<1>2. CASE Discard
  BY <1>2, DiscardFollows
<1>3. CASE Amend
  BY <1>3, AmendFollows
<1>4. CASE \/ ChangePhase \/ UnconfirmedGoal \/ VarCheck \/ VarEnd \/ PossibleEvent \/ RedCard
           \/ Update \/ RunLate \/ Lineup \/ Abandon \/ CoverageLost
  BY <1>4, QuietSteps
<1> QED
  BY <1>1, <1>2, <1>3, <1>4 DEF MatchStep

-----------------------------------------------------------------------------
(* The chain of records. *)

LEMMA FeedInit == ASSUME Init PROVE FeedOK
<1>1. match = [phase |-> "NS", late |-> FALSE, split |-> TRUE, goals |-> {}, untold |-> {},
               var |-> FALSE, seq |-> 0]
      /\ known = match /\ queue = <<>> /\ now = 0 /\ last = NoEvent /\ spec \in ClaimSpecs
  BY DEF Init, InitFeed, InitMarket
<1>2. match \in MatchRecords
  BY <1>1 DEF MatchRecords, Phases
<1>3. MatchOK(match)
  BY <1>1, <1>2, MaxEventsNat, FS_EmptySet DEF MatchOK
<1>4. queue \in Seq({}) /\ Len(queue) = 0
  BY <1>1
<1>5. match = Told(Len(queue))
  BY <1>1, <1>4 DEF Told
<1>6. IsEvent(last) /\ last.kind # "odds_suspension" /\ last.seq = known.seq /\ last.phase = known.phase
  BY <1>1 DEF IsEvent, NoEvent
<1> QED
  BY <1>1, <1>3, <1>4, <1>5, <1>6 DEF FeedOK

\* An event that is read again keeps what it says of the match.
LEMMA FollowsOnReceipt ==
    ASSUME NEW a, NEW e, NEW b, Follows(a, e, b), NEW at
    PROVE  LET f == [e EXCEPT !.rcv = at] IN Follows(a, f, b) /\ f.rcv = at /\ f.ts = e.ts
<1> DEFINE f == [e EXCEPT !.rcv = at]
<1>1. IsEvent(e)
  BY DEF Follows
<1>2. /\ IsEvent(f) /\ f.kind = e.kind /\ f.seq = e.seq /\ f.ts = e.ts /\ f.rcv = at
      /\ f.confirmed = e.confirmed /\ f.phase = e.phase /\ f.score = e.score
      /\ f.participant = e.participant /\ f.player = e.player /\ f.own = e.own
      /\ f.reverses = e.reverses
  BY <1>1 DEF IsEvent
<1> HIDE DEF f
<1>3. Follows(a, f, b)
  BY <1>2 DEF Follows, Scores, Discards, Amends, Misreads, KeepsGoals, Placed, Misplaced, Replaces, Tells, isReversal
<1> QED
  BY <1>2, <1>3 DEF f

LEMMA FeedPlay == ASSUME FeedOK, Play PROVE FeedOK'
<1>1. MatchStep /\ UNCHANGED marketVars
  BY DEF Play
<1>2. known' = known /\ spec' = spec /\ last' = last
  BY <1>1 DEF marketVars
<1>3. PICK S : queue \in Seq(S)
  BY DEF FeedOK
<1>4. MatchOK(match)
  BY <1>3 DEF FeedOK, Told
<1>5. PICK e, b : Published(e, b) /\ Follows(match, e, b) /\ MatchOK(b)
  BY <1>1, <1>4, MatchStepFollows DEF FeedOK
<1> DEFINE item == [event |-> e, truth |-> b]
           L == Len(queue)
<1>6. item.event = e /\ item.truth = b
  OBVIOUS
<1>7. queue' = Append(queue, item) /\ match' = b /\ now' = now
  BY <1>5 DEF Published
<1> HIDE DEF item
<1>8. /\ queue' \in Seq(S \cup {item}) /\ Len(queue') = L + 1 /\ L \in Nat
      /\ queue'[L + 1] = item
      /\ \A i \in 1..L : queue'[i] = queue[i]
  BY <1>3, <1>7
<1> DEFINE T(i) == IF i = 0 THEN known' ELSE queue'[i].truth
<1>9. \A i \in 0..L : T(i) = Told(i)
  BY <1>2, <1>8 DEF Told
<1>10. T(L + 1) = b
  BY <1>6, <1>8
<1>11. \A i \in 1..(L + 1) :
         MatchOK(queue'[i].truth) /\ Follows(T(i - 1), queue'[i].event, queue'[i].truth)
  <2> TAKE i \in 1..(L + 1)
  <2>1. CASE i \in 1..L
    <3>1. MatchOK(queue[i].truth) /\ Follows(Told(i - 1), queue[i].event, queue[i].truth)
      BY <2>1 DEF FeedOK
    <3>2. T(i - 1) = Told(i - 1) /\ queue'[i] = queue[i]
      BY <2>1, <1>8, <1>9
    <3> QED
      BY <3>1, <3>2
  <2>2. CASE i = L + 1
    <3>1. T(i - 1) = match
      BY <2>2, <1>8, <1>9 DEF FeedOK
    <3>2. queue'[i].event = e /\ queue'[i].truth = b
      BY <2>2, <1>6, <1>8
    <3> QED
      BY <3>1, <3>2, <1>5
  <2> QED
    BY <2>1, <2>2, <1>8
<1>12. \A i : Told(i)' = T(i)
  BY DEF Told
<1> HIDE DEF T
<1>13. /\ \A i \in 1..Len(queue') :
            MatchOK(queue'[i].truth) /\ Follows(Told(i - 1)', queue'[i].event, queue'[i].truth)
       /\ match' = Told(Len(queue))'
  <2>1. Told(Len(queue))' = T(Len(queue'))
    BY DEF Told, T
  <2> QED
    BY <2>1, <1>7, <1>8, <1>10, <1>11, <1>12
<1>14. \E R : queue' \in Seq(R)
  BY <1>8
<1> QED
  BY <1>2, <1>7, <1>13, <1>14 DEF FeedOK

\* The event that Deliver hands to the reducer.
Arrival == [Head(queue).event EXCEPT !.rcv = now]

\* What arrives follows from what was known.
LEMMA ArrivalFollows ==
    ASSUME FeedOK, Deliver
    PROVE  /\ Follows(known, Arrival, known') /\ MatchOK(known) /\ MatchOK(known')
           /\ last' = Arrival /\ IsEvent(Arrival) /\ Arrival.rcv = now
<1>1. PICK S : queue \in Seq(S)
  BY DEF FeedOK
<1>2. queue # <<>> /\ known' = Head(queue).truth /\ last' = Arrival
  BY DEF Deliver, Arrival
<1>3. Head(queue) = queue[1] /\ 1 \in 1..Len(queue)
  BY <1>1, <1>2
<1>4. MatchOK(queue[1].truth) /\ Follows(Told(1 - 1), queue[1].event, queue[1].truth)
  BY <1>3 DEF FeedOK
<1>5. Told(1 - 1) = known
  BY DEF Told
<1>6. Follows(known, Head(queue).event, known') /\ MatchOK(known')
  BY <1>2, <1>3, <1>4, <1>5
<1>7. Follows(known, Arrival, known') /\ Arrival.rcv = now
  BY <1>6, FollowsOnReceipt DEF Arrival
<1> QED
  BY <1>2, <1>6, <1>7 DEF FeedOK, Follows

LEMMA FeedDeliver == ASSUME FeedOK, Deliver PROVE FeedOK'
<1>1. PICK S : queue \in Seq(S)
  BY DEF FeedOK
<1>2. /\ queue # <<>> /\ known' = Head(queue).truth /\ queue' = Tail(queue)
      /\ match' = match /\ now' = now /\ spec' = spec
  BY DEF Deliver
<1> DEFINE L == Len(queue)
<1>3. /\ L \in Nat /\ L >= 1 /\ Head(queue) = queue[1]
      /\ queue' \in Seq(S) /\ Len(queue') = L - 1
      /\ \A i \in 1..(L - 1) : queue'[i] = queue[i + 1]
  BY <1>1, <1>2
<1> DEFINE T(i) == IF i = 0 THEN known' ELSE queue'[i].truth
<1>4. \A i \in 0..(L - 1) : T(i) = Told(i + 1)
  BY <1>2, <1>3 DEF Told
<1>5. \A i : Told(i)' = T(i)
  BY DEF Told
<1>6. Told(Len(queue))' = T(Len(queue'))
  BY DEF Told
<1> HIDE DEF T
<1>7. \A i \in 1..(L - 1) :
        MatchOK(queue'[i].truth) /\ Follows(T(i - 1), queue'[i].event, queue'[i].truth)
  <2> TAKE i \in 1..(L - 1)
  <2>1. i + 1 \in 1..L /\ i - 1 \in 0..(L - 1) /\ (i - 1) + 1 = i /\ (i + 1) - 1 = i
    BY <1>3
  <2>2. MatchOK(queue[i + 1].truth) /\ Follows(Told((i + 1) - 1), queue[i + 1].event, queue[i + 1].truth)
    BY <2>1 DEF FeedOK
  <2>3. T(i - 1) = Told(i)
    BY <2>1, <1>4
  <2> QED
    BY <2>1, <2>2, <2>3, <1>3
<1>8. match' = T(L - 1)
  <2>1. match = Told(L)
    BY DEF FeedOK
  <2>2. T(L - 1) = Told((L - 1) + 1)
    BY <1>3, <1>4
  <2> QED
    BY <2>1, <2>2, <1>2, <1>3
<1>9. /\ \A i \in 1..Len(queue') :
            MatchOK(queue'[i].truth) /\ Follows(Told(i - 1)', queue'[i].event, queue'[i].truth)
      /\ match' = Told(Len(queue))'
  BY <1>3, <1>5, <1>6, <1>7, <1>8
<1>10. /\ Follows(known, Arrival, known') /\ MatchOK(known) /\ MatchOK(known')
       /\ last' = Arrival /\ IsEvent(Arrival)
  BY ArrivalFollows
<1>11. IsEvent(last') /\ last'.kind # "odds_suspension" /\ last'.seq = known'.seq /\ last'.phase = known'.phase
  BY <1>10 DEF Follows, EventKinds
<1>12. \E R : queue' \in Seq(R)
  BY <1>3
<1> QED
  BY <1>2, <1>9, <1>10, <1>11, <1>12 DEF FeedOK

\* Every other step leaves the chain as it is.
LEMMA FeedStays ==
    ASSUME FeedOK, now' \in Nat, UNCHANGED <<spec, match, queue, known, last>>
    PROVE  FeedOK'
<1>1. /\ spec' = spec /\ match' = match /\ queue' = queue /\ known' = known /\ last' = last
  OBVIOUS
<1>2. \A i : Told(i)' = Told(i)
  BY <1>1 DEF Told
<1>3. Told(Len(queue))' = Told(Len(queue))
  BY <1>1 DEF Told
<1> QED
  BY <1>1, <1>2, <1>3 DEF FeedOK

-----------------------------------------------------------------------------
(* The market's state, step by step. *)

LEMMA ShapeInit == ASSUME Init PROVE MarketOK
<1>1. /\ spec \in ClaimSpecs /\ known = match /\ match.phase = "NS" /\ last = NoEvent
      /\ st = [status |-> IF spec.claimType = "player_scores_n" THEN "pending_lineup" ELSE "open",
               pending |-> NoCandidate,
               positions |-> [p \in Positions |-> NotPlaced],
               scratch |-> initialScratch(spec)]
  BY DEF Init, InitFeed, InitMarket
<1>2. spec.anchorSeq = 0
  BY <1>1, ClaimsAssumption
<1>3. initialScratch(spec) = [lastSeq |-> 0, goals |-> {}, freezeReason |-> NoReason, cutoffReached |-> FALSE]
  BY <1>2 DEF initialScratch
<1> DEFINE status == IF spec.claimType = "player_scores_n" THEN "pending_lineup" ELSE "open"
           taps == [p \in Positions |-> NotPlaced]
<1>4. status = "pending_lineup" \/ status = "open"
  OBVIOUS
<1>5. taps \in Taps
  BY DEF Taps, NotPlaced
<1> HIDE DEF status, taps
<1>6. st = [status |-> status, pending |-> NoCandidate, positions |-> taps,
            scratch |-> [lastSeq |-> 0, goals |-> {}, freezeReason |-> NoReason, cutoffReached |-> FALSE]]
  BY <1>1, <1>3 DEF status, taps
<1>7. /\ st.status = status /\ st.pending = NoCandidate /\ st.positions = taps
      /\ st.scratch.lastSeq = 0 /\ st.scratch.goals = {} /\ st.scratch.freezeReason = NoReason
      /\ st.scratch.cutoffReached = FALSE
  BY <1>6
<1>8. IsMarket(st)
  BY <1>6 DEF IsMarket
<1>9. Shape(st)
  BY <1>4, <1>5, <1>7, <1>8 DEF Shape, Statuses, Reasons
<1> QED
  BY <1>1, <1>7, <1>9 DEF MarketOK, NoEvent

LEMMA MarkTyped ==
    \A taps \in Taps : \A S, x : x \in {"void", "active"} => Mark(taps, S, x) \in Taps
<1> SUFFICES ASSUME NEW taps \in Taps, NEW S, NEW x \in {"void", "active"}
             PROVE  Mark(taps, S, x) \in Taps
  OBVIOUS
<1> DEFINE n == Mark(taps, S, x)
<1>1. n = [p \in Positions |-> IF p \in S THEN [taps[p] EXCEPT !.state = x] ELSE taps[p]]
  BY DEF Mark, Taps
<1>2. \A p \in Positions : [taps[p] EXCEPT !.state = x] \in [state : {"none", "pending", "active", "void"}, placedAt : Nat]
  BY DEF Taps
<1>3. \A p \in Positions : taps[p] \in [state : {"none", "pending", "active", "void"}, placedAt : Nat]
  BY DEF Taps
<1> HIDE DEF n
<1>4. n \in Taps
  BY <1>1, <1>2, <1>3 DEF Taps
<1> QED
  BY <1>4 DEF n

LEMMA TapsTyped ==
    \A taps \in Taps :
      /\ AllActive(taps) \in Taps
      /\ \A ev : Guarded(taps, ev) \in Taps
      /\ \A at : Ripened(taps, at) \in Taps
<1> TAKE taps \in Taps
<1>1. AllActive(taps) \in Taps
  BY MarkTyped DEF AllActive
<1>2. \A ev : Guarded(taps, ev) \in Taps
  <2> TAKE ev
  <2> DEFINE one == Mark(taps, Sniped(taps, ev), "void")
  <2>1. one \in Taps
    BY MarkTyped
  <2> HIDE DEF one
  <2>2. Mark(one, Matured(taps, ev.rcv) \ Sniped(taps, ev), "active") \in Taps
    BY <2>1, MarkTyped
  <2> QED
    BY <2>2 DEF Guarded, one
<1>3. \A at : Ripened(taps, at) \in Taps
  BY MarkTyped DEF Ripened
<1> QED
  BY <1>1, <1>2, <1>3

LEMMA RunningIsLive ==
    ASSUME NEW m, Shape(m), m.status \in {"open", "frozen", "settling"}
    PROVE  Live(m)
  BY DEF Shape, Live

\* A candidate has an outcome, so it is not the absence of one.
LEMMA ArmedIsCandidate == \A c : c.outcome \in Won => c # NoCandidate
  BY DEF Won, NoCandidate, NoOutcome

LEMMA LeavesShape ==
    ASSUME NEW claim, NEW m, NEW ev, NEW n, NEW t, Leaves(claim, m, ev, n, t)
    PROVE  /\ n.status \in {"open", "frozen", "settling", "settled", "voided"}
           /\ n.status = "settling" <=> n.pending # NoCandidate
           /\ n.pending # NoCandidate => n.pending.outcome \in Won
<1>1. CASE Holds(ev, n, t)
  BY <1>1 DEF Holds
<1>2. CASE Waits(m, ev, n, t)
  BY <1>2 DEF Waits
<1>3. CASE Arms(claim, m, ev, n, t)
  <2>1. n.status = "settling" /\ n.pending.outcome \in Won
    BY <1>3 DEF Arms
  <2> QED
    BY <2>1, ArmedIsCandidate
<1>4. CASE Voids(n, t)
  BY <1>4 DEF Voids
<1>5. CASE Settles(m, ev, n, t)
  BY <1>5 DEF Settles
<1> QED
  BY <1>1, <1>2, <1>3, <1>4, <1>5 DEF Leaves

\* A running market after one event it has not seen.
LEMMA ReduceShape ==
    ASSUME NEW m, Shape(m), m.status \in {"open", "frozen", "settling"}, NEW claim, NEW ev,
           ~isStale(m, ev), trackGoals(m.scratch.goals, ev) \subseteq StandingGoal
    PROVE  LET n == reduceMarket(claim, m, ev).state
           IN  /\ Shape(n) /\ n.status # "pending_lineup"
               /\ n.scratch.lastSeq = SeenAfter(m, ev)
               /\ m.scratch.cutoffReached => n.scratch.cutoffReached
<1> DEFINE r == reduceMarket(claim, m, ev)
           n == r.state
<1>0. Live(m)
  BY RunningIsLive
<1>1. /\ IsMarket(n) /\ n.scratch.lastSeq = SeenAfter(m, ev)
      /\ n.scratch.freezeReason \in Reasons
  BY <1>0, ReduceFields
<1>2. n.scratch.goals = trackGoals(m.scratch.goals, ev) \/ n.scratch.goals = m.scratch.goals
  BY <1>0, ReduceFields
<1>3. Leaves(claim, m, ev, n, r.effects.terminal)
  BY <1>0, ReduceFields
<1>4. /\ n.scratch.cutoffReached \in BOOLEAN
      /\ m.scratch.cutoffReached => n.scratch.cutoffReached
      /\ n.scratch.cutoffReached => n.status # "open"
  BY <1>0, ReduceFields
<1>5. \/ n.positions = Guarded(m.positions, ev)
      \/ n.positions = m.positions
      \/ n.positions = AllActive(Guarded(m.positions, ev))
  BY <1>0, ReduceFields
<1> HIDE DEF r, n
<1>6. m.positions \in Taps /\ m.scratch.goals \subseteq StandingGoal
  BY DEF Shape
<1>7. n.positions \in Taps
  BY <1>5, <1>6, TapsTyped
<1>8. n.scratch.goals \subseteq StandingGoal
  BY <1>2, <1>6
<1>9. /\ n.status \in {"open", "frozen", "settling", "settled", "voided"}
      /\ n.status = "settling" <=> n.pending # NoCandidate
      /\ n.pending # NoCandidate => n.pending.outcome \in Won
  BY <1>3, LeavesShape
<1>10. n.status \in Statuses /\ n.status # "pending_lineup"
  BY <1>9 DEF Statuses
<1>11. Shape(n)
  BY <1>1, <1>4, <1>7, <1>8, <1>9, <1>10 DEF Shape
<1> QED
  BY <1>1, <1>4, <1>10, <1>11 DEF r, n

\* A market that waits for its lineup, after one event it has not seen.
LEMMA LineupShape ==
    ASSUME NEW m, Shape(m), m.status = "pending_lineup", NEW claim, NEW ev, ~isStale(m, ev),
           ~m.scratch.cutoffReached
    PROVE  LET n == reduceMarket(claim, m, ev).state
           IN  /\ Shape(n) /\ n.scratch.lastSeq = SeenAfter(m, ev)
               /\ n.scratch.goals = m.scratch.goals /\ ~n.scratch.cutoffReached
               /\ n.status = "pending_lineup" => ~FixtureFatal(ev) /\ ev.phase \notin INPLAY_PHASES
<1> DEFINE r == reduceMarket(claim, m, ev)
           n == r.state
           t == r.effects.terminal
<1>0. IsMarket(m)
  BY DEF Shape
<1>1. /\ IsMarket(n) /\ n.scratch.lastSeq = SeenAfter(m, ev) /\ n.scratch.goals = m.scratch.goals
      /\ KeepsReason(m, n)
  BY <1>0, LineupFields
<1>2. KeepsCutoff(m, n)
  BY <1>0, LineupFields
<1>3. \/ Voids(n, t) /\ KeepsTaps(m, n)
      \/ /\ KeepsStatus(m, n) /\ KeepsCandidate(m, n) /\ KeepsTaps(m, n)
         /\ ~FixtureFatal(ev) /\ ev.phase \notin INPLAY_PHASES
      \/ /\ n.status = "open" /\ KeepsCandidate(m, n)
         /\ n.positions = AllActive(m.positions)
  BY <1>0, LineupFields
<1> HIDE DEF r, n, t
<1>4. /\ m.positions \in Taps /\ m.scratch.goals \subseteq StandingGoal /\ m.pending = NoCandidate
      /\ m.scratch.freezeReason \in Reasons
  BY DEF Shape
<1>5. n.scratch.cutoffReached = m.scratch.cutoffReached
  BY <1>2 DEF KeepsCutoff
<1>6. n.scratch.cutoffReached \in BOOLEAN /\ ~n.scratch.cutoffReached
  BY <1>5 DEF Shape
<1>7. n.positions \in Taps
  BY <1>3, <1>4, TapsTyped DEF KeepsTaps
<1>8. /\ n.status = "voided" \/ n.status = "pending_lineup" \/ n.status = "open"
      /\ n.pending = NoCandidate
  BY <1>3, <1>4 DEF Voids, KeepsStatus, KeepsCandidate
<1>9. n.status = "pending_lineup" => ~FixtureFatal(ev) /\ ev.phase \notin INPLAY_PHASES
  BY <1>3 DEF Voids
<1>10. n.status \in Statuses /\ n.scratch.freezeReason \in Reasons
  BY <1>1, <1>4, <1>8 DEF Statuses, KeepsReason
<1>11. Shape(n)
  BY <1>1, <1>4, <1>6, <1>7, <1>8, <1>10 DEF Shape
<1> QED
  BY <1>1, <1>6, <1>9, <1>11 DEF r, n

\* The ledger of a market stays one of goals of this match.
LEMMA LedgerTyped ==
    ASSUME NEW goals, goals \subseteq StandingGoal, NEW a, NEW e, NEW b, Follows(a, e, b), MatchOK(b)
    PROVE  trackGoals(goals, e) \subseteq StandingGoal
<1> DEFINE hit == {g \in goals : g.seq = e.reverses}
           fresh == [seq |-> e.seq, participant |-> e.participant, player |-> e.player,
                     own |-> e.own, phase |-> e.phase]
<1>1. CASE Scores(a, e, b)
  <2>1. PICK g \in b.goals :
               /\ g.first = e.seq /\ g.participant = e.participant
               /\ g.player = e.player \/ e.player = NoScorer.player
               /\ g.own = e.own /\ g.phase = e.phase
    BY <1>1 DEF Scores
  <2>2. g \in GoalRecords /\ g.first \in 1..b.seq /\ b.seq \in Nat /\ b.seq <= MaxEvents
    BY DEF MatchOK, MatchRecords
  <2>3. e.seq \in 1..MaxEvents
    BY <2>1, <2>2, MaxEventsNat
  <2>6. e.player \in Players \cup {NoScorer.player} /\ e.participant \in 1..2 /\ e.own \in BOOLEAN
        /\ e.phase \in GoalPhases
    <3>1. g.player \in Players /\ g.participant \in 1..2 /\ g.own \in BOOLEAN /\ g.phase \in GoalPhases
      BY <2>2 DEF GoalRecords
    <3> QED
      BY <2>1, <3>1, Zenon
  <2>4. fresh \in StandingGoal
    BY <2>3, <2>6 DEF StandingGoal, GoalPhases
  <2>5. trackGoals(goals, e) = goals \cup {fresh}
    BY <1>1 DEF Scores, trackGoals
  <2> QED
    BY <2>4, <2>5
<1>2. CASE Discards(a, e, b)
  <2>1. trackGoals(goals, e) = goals \ hit
    BY <1>2 DEF Discards, trackGoals
  <2> QED
    BY <2>1
<1>3. CASE Amends(a, e, b)
  <2>1. trackGoals(goals, e) = (goals \ hit) \cup {Reattributed(g, e) : g \in hit}
    BY <1>3 DEF Amends, trackGoals
  <2>2. e.participant \in 0..2 /\ e.player \in Players \cup {NoScorer.player} /\ e.own \in BOOLEAN
    BY <1>3 DEF Amends
  <2>3. \A g \in hit : Reattributed(g, e) \in StandingGoal
    <3> TAKE g \in hit
    <3> DEFINE side == IF e.participant = 0 THEN g.participant ELSE e.participant
    <3>1. g \in StandingGoal
      OBVIOUS
    <3>2. side \in 1..2
      BY <2>2, <3>1 DEF StandingGoal
    <3>3. Reattributed(g, e) = [g EXCEPT !.participant = side, !.player = e.player, !.own = e.own]
      BY <3>1 DEF Reattributed, StandingGoal
    <3> HIDE DEF side
    <3> QED
      BY <2>2, <3>1, <3>2, <3>3 DEF StandingGoal
  <2> HIDE DEF hit
  <2>4. \A g \in goals \ hit : g \in StandingGoal
    OBVIOUS
  <2> QED
    BY <2>1, <2>3, <2>4
<1>4. CASE KeepsGoals(a, e, b)
  <2>1. trackGoals(goals, e) = goals
    BY <1>4 DEF KeepsGoals, isReversal, trackGoals
  <2> QED
    BY <2>1
<1>5. CASE Misreads(a, e, b)
  <2>1. trackGoals(goals, e) = goals
    BY <1>5 DEF Misreads, trackGoals
  <2> QED
    BY <2>1
<1> QED
  BY <1>1, <1>2, <1>3, <1>4, <1>5 DEF Follows

\* A step that hands the reducer an event.
LEMMA ReduceKeeps ==
    ASSUME MarketOK, NEW ev, st' = reduceMarket(spec, st, ev).state,
           ~Closed(st) => ~isStale(st, ev) /\ SeenAfter(st, ev) = last'.seq,
           trackGoals(st.scratch.goals, ev) \subseteq StandingGoal, ev.phase = known'.phase, known'.phase \in Phases
    PROVE  /\ MarketOK'
           /\ st.scratch.cutoffReached => st'.scratch.cutoffReached
<1>1. CASE Closed(st)
  <2>1. st' = st
    BY <1>1, ReduceIgnores
  <2>2. st.status # "pending_lineup"
    BY <1>1 DEF Closed
  <2>3. Shape(st')
    BY <2>1 DEF MarketOK
  <2>4. Closed(st') /\ st'.status # "pending_lineup"
    BY <1>1, <2>1, <2>2
  <2>5. MarketOK'
    BY <2>3, <2>4 DEF MarketOK
  <2> QED
    BY <2>1, <2>5
<1>2. CASE st.status = "pending_lineup"
  <2>1. Shape(st) /\ ~st.scratch.cutoffReached /\ st.scratch.goals = {}
    BY <1>2 DEF MarketOK
  <2>5. ~isStale(st, ev) /\ SeenAfter(st, ev) = last'.seq
    BY <1>2 DEF Closed
  <2>2. /\ Shape(st') /\ st'.scratch.lastSeq = SeenAfter(st, ev)
        /\ st'.scratch.goals = {} /\ ~st'.scratch.cutoffReached
        /\ st'.status = "pending_lineup" => ~FixtureFatal(ev) /\ ev.phase \notin INPLAY_PHASES
    BY <1>2, <2>1, <2>5, LineupShape
  <2>3. st'.status = "pending_lineup" => known'.phase = "NS"
    BY <2>2 DEF FixtureFatal, VOID_PHASES, INPLAY_PHASES, Phases
  <2>4. MarketOK'
    BY <2>2, <2>3, <2>5 DEF MarketOK
  <2> QED
    BY <2>1, <2>4
<1>3. CASE st.status \in {"open", "frozen", "settling"}
  <2>1. Shape(st)
    BY DEF MarketOK
  <2>4. ~isStale(st, ev) /\ SeenAfter(st, ev) = last'.seq
    BY <1>3 DEF Closed
  <2>2. /\ Shape(st') /\ st'.status # "pending_lineup" /\ st'.scratch.lastSeq = SeenAfter(st, ev)
        /\ st.scratch.cutoffReached => st'.scratch.cutoffReached
    BY <1>3, <2>1, <2>4, ReduceShape
  <2>3. MarketOK'
    BY <2>2, <2>4 DEF MarketOK
  <2> QED
    BY <2>2, <2>3
<1> QED
  BY <1>1, <1>2, <1>3 DEF MarketOK, Shape, Statuses, Closed

\* The event of a suspension, as SuspendOdds makes it of the last delivered one.
Suspension ==
    [last EXCEPT !.kind = "odds_suspension", !.confirmed = TRUE, !.late = FALSE,
                 !.seq = MaxEvents + 1, !.ts = now, !.rcv = now, !.reverses = 0]

LEMMA SuspensionIs ==
    ASSUME IsEvent(last)
    PROVE  /\ Suspension.kind = "odds_suspension" /\ Suspension.confirmed = TRUE
           /\ Suspension.phase = last.phase
  BY DEF Suspension, IsEvent

LEMMA SuspensionHolds ==
    ASSUME IsEvent(last)
    PROVE  /\ ~isStale(st, Suspension) /\ isHoldSignal(Suspension)
           /\ SeenAfter(st, Suspension) = st.scratch.lastSeq
           /\ trackGoals(st.scratch.goals, Suspension) = st.scratch.goals
<1>1. Suspension.kind = "odds_suspension" /\ Suspension.confirmed
  BY SuspensionIs
<1> QED
  BY <1>1 DEF isStale, isHoldSignal, SeenAfter, trackGoals

\* A replayed frame is stale.
LEMMA RedeliverIgnored ==
    ASSUME FeedOK, MarketOK, Redeliver
    PROVE  st' = st /\ verdict' = verdict
<1> DEFINE ev == [last EXCEPT !.rcv = now]
<1>1. IsEvent(last) /\ last.kind # "odds_suspension" /\ last.seq = known.seq /\ known.seq \in Nat
  BY DEF FeedOK, MatchOK, MatchRecords
<1>2. ev.kind = last.kind /\ ev.seq = last.seq
  BY <1>1 DEF IsEvent
<1>3. Apply(reduceMarket(spec, st, ev))
  BY DEF Redeliver
<1> HIDE DEF ev
<1>4. Closed(st) \/ isStale(st, ev)
  BY <1>1, <1>2 DEF isStale, MarketOK
<1> QED
  BY <1>3, <1>4, ReduceIgnores DEF Apply

LEMMA ArrivalFresh ==
    ASSUME FeedOK, MarketOK, Deliver
    PROVE  /\ ~Closed(st) => ~isStale(st, Arrival) /\ SeenAfter(st, Arrival) = last'.seq
           /\ trackGoals(st.scratch.goals, Arrival) \subseteq StandingGoal
           /\ Arrival.phase = known'.phase /\ known'.phase \in Phases
           /\ Arrival.kind # "odds_suspension"
<1>1. /\ Follows(known, Arrival, known') /\ MatchOK(known) /\ MatchOK(known') /\ last' = Arrival
  BY ArrivalFollows
<1>2. /\ Arrival.seq = known.seq + 1 /\ Arrival.phase = known'.phase
      /\ Arrival.kind # "odds_suspension"
  BY <1>1 DEF Follows, EventKinds
<1>3. known.seq \in Nat /\ last.seq = known.seq /\ known'.phase \in Phases
  BY <1>1 DEF FeedOK, MatchOK, MatchRecords
<1>4. ~Closed(st) => ~isStale(st, Arrival) /\ SeenAfter(st, Arrival) = last'.seq
  BY <1>1, <1>2, <1>3 DEF isStale, SeenAfter, MarketOK
<1>5. trackGoals(st.scratch.goals, Arrival) \subseteq StandingGoal
  BY <1>1, LedgerTyped DEF MarketOK, Shape
<1> QED
  BY <1>2, <1>3, <1>4, <1>5

LEMMA TickKeeps ==
    ASSUME MarketOK, Tick
    PROVE  /\ MarketOK'
           /\ st.scratch.cutoffReached => st'.scratch.cutoffReached
<1>1. st' = checkDebounce(st, now).state /\ st.pending # NoCandidate /\ known' = known /\ last' = last
  BY DEF Tick, Apply
<1>2. Shape(st) /\ st.status = "settling"
  BY <1>1 DEF MarketOK, Shape
<1>3. Live(st)
  BY <1>2, RunningIsLive
<1>4. IsMarket(st') /\ KeepsScratch(st, st')
  BY <1>1, <1>3, DebounceFields
<1>5. \/ /\ KeepsStatus(st, st') /\ KeepsCandidate(st, st')
         /\ st'.positions = Ripened(st.positions, now)
      \/ /\ st'.status = "settled" /\ st'.pending = NoCandidate
         /\ st'.positions = AllActive(Ripened(st.positions, now))
  BY <1>1, <1>3, DebounceFields
<1>6. st'.scratch = st.scratch
  BY <1>2, <1>4, SameScratch DEF Shape
<1>7. st.positions \in Taps
  BY <1>2 DEF Shape
<1>8. st'.positions \in Taps
  BY <1>5, <1>7, TapsTyped
<1>9. /\ st'.status = "settling" \/ st'.status = "settled"
      /\ st'.status = "settling" <=> st'.pending # NoCandidate
      /\ st'.pending # NoCandidate => st'.pending.outcome \in Won
      /\ st'.status = "settling" => st'.pending = st.pending
  BY <1>1, <1>2, <1>5 DEF KeepsStatus, KeepsCandidate, Shape
<1>10. Shape(st')
  BY <1>2, <1>4, <1>6, <1>8, <1>9 DEF Shape, Statuses
<1>11. ~Closed(st)
  BY <1>2 DEF Closed
<1>12. MarketOK'
  BY <1>1, <1>6, <1>9, <1>10, <1>11 DEF MarketOK
<1> QED
  BY <1>6, <1>12

LEMMA PlaceKeeps ==
    ASSUME MarketOK, now \in Nat, Place
    PROVE  /\ MarketOK' /\ KeepsStatus(st, st') /\ KeepsCandidate(st, st') /\ KeepsScratch(st, st')
<1>1. PICK p \in Positions :
        /\ st.status \in {"pending_lineup", "open"}
        /\ st' = [st EXCEPT !.positions[p] =
                    [state |-> IF last.phase = "NS" THEN "active" ELSE "pending", placedAt |-> now]]
        /\ UNCHANGED <<known, last>>
  BY DEF Place
<1> DEFINE tap == [state |-> IF last.phase = "NS" THEN "active" ELSE "pending", placedAt |-> now]
           taps == [st.positions EXCEPT ![p] = tap]
           n == [st EXCEPT !.positions = taps]
<1>2. IsMarket(st) /\ st.positions \in Taps /\ Shape(st)
  BY DEF MarketOK, Shape
<1>3. st' = n
  BY <1>1, <1>2 DEF IsMarket
<1>4. tap \in [state : {"none", "pending", "active", "void"}, placedAt : Nat]
  OBVIOUS
<1> HIDE DEF tap
<1>5. taps \in Taps
  BY <1>2, <1>4 DEF Taps
<1> HIDE DEF taps
<1>6. /\ IsMarket(n) /\ n.positions = taps
      /\ KeepsStatus(st, n) /\ KeepsCandidate(st, n) /\ KeepsScratch(st, n)
  BY <1>2, SetTaps
<1> HIDE DEF n
<1>7. n.scratch = st.scratch
  BY <1>2, <1>6, SameScratch
<1>8. Shape(n)
  BY <1>2, <1>5, <1>6, <1>7 DEF Shape, KeepsStatus, KeepsCandidate
<1>9. MarketOK'
  BY <1>1, <1>3, <1>6, <1>7, <1>8 DEF MarketOK, KeepsStatus, Closed
<1> QED
  BY <1>3, <1>6, <1>9

LEMMA StepKeeps ==
    ASSUME IInv, [Next]_vars
    PROVE  IInv' /\ (st.scratch.cutoffReached => st'.scratch.cutoffReached)
<1>0. FeedOK /\ MarketOK /\ now \in Nat /\ IsEvent(last) /\ known.phase \in Phases
      /\ last.phase = known.phase
  BY DEF IInv, FeedOK, MatchOK, MatchRecords
<1>1. CASE Play
  <2>1. UNCHANGED <<st, known, last>>
    BY <1>1 DEF Play, marketVars
  <2>2. MarketOK'
    BY <1>0, <2>1 DEF MarketOK
  <2> QED
    BY <1>0, <1>1, <2>1, <2>2, FeedPlay DEF IInv
<1>2. CASE Deliver
  <2>1. st' = reduceMarket(spec, st, Arrival).state
    BY <1>2 DEF Deliver, Apply, Arrival
  <2>2. /\ ~Closed(st) => ~isStale(st, Arrival) /\ SeenAfter(st, Arrival) = last'.seq
        /\ trackGoals(st.scratch.goals, Arrival) \subseteq StandingGoal
        /\ Arrival.phase = known'.phase /\ known'.phase \in Phases
    BY <1>0, <1>2, ArrivalFresh
  <2>3. MarketOK' /\ (st.scratch.cutoffReached => st'.scratch.cutoffReached)
    BY <1>0, <2>1, <2>2, ReduceKeeps
  <2> QED
    BY <1>0, <1>2, <2>3, FeedDeliver DEF IInv
<1>3. CASE Redeliver
  <2>1. st' = st /\ UNCHANGED <<spec, match, queue, now, known, last>>
    BY <1>0, <1>3, RedeliverIgnored DEF Redeliver
  <2>2. MarketOK'
    BY <1>0, <2>1 DEF MarketOK
  <2>3. FeedOK'
    BY <1>0, <2>1, FeedStays
  <2> QED
    BY <2>1, <2>2, <2>3 DEF IInv
<1>4. CASE SuspendOdds
  <2>1. st' = reduceMarket(spec, st, Suspension).state /\ UNCHANGED <<spec, match, queue, now, known, last>>
    BY <1>4 DEF SuspendOdds, Apply, Suspension
  <2>2. /\ ~isStale(st, Suspension) /\ SeenAfter(st, Suspension) = st.scratch.lastSeq
        /\ trackGoals(st.scratch.goals, Suspension) = st.scratch.goals
        /\ Suspension.phase = last.phase
    BY <1>0, SuspensionHolds, SuspensionIs
  <2>3. /\ ~Closed(st) => ~isStale(st, Suspension) /\ SeenAfter(st, Suspension) = last'.seq
        /\ trackGoals(st.scratch.goals, Suspension) \subseteq StandingGoal
        /\ Suspension.phase = known'.phase /\ known'.phase \in Phases
    BY <1>0, <2>1, <2>2 DEF MarketOK, Shape
  <2>4. MarketOK' /\ (st.scratch.cutoffReached => st'.scratch.cutoffReached)
    BY <1>0, <2>1, <2>3, ReduceKeeps
  <2>5. FeedOK'
    BY <1>0, <2>1, FeedStays
  <2> QED
    BY <2>4, <2>5 DEF IInv
<1>5. CASE Tick
  <2>1. FeedOK'
    BY <1>0, <1>5, FeedStays DEF Tick
  <2> QED
    BY <1>0, <1>5, <2>1, TickKeeps DEF IInv
<1>6. CASE Place
  <2>1. FeedOK'
    BY <1>0, <1>6, FeedStays DEF Place
  <2>2. MarketOK' /\ KeepsScratch(st, st')
    BY <1>0, <1>6, PlaceKeeps
  <2>3. KeepsCutoff(st, st')
    BY <2>2 DEF KeepsScratch
  <2>4. st'.scratch.cutoffReached = st.scratch.cutoffReached
    BY <2>3 DEF KeepsCutoff
  <2> QED
    BY <2>1, <2>2, <2>4 DEF IInv
<1>7. CASE ResumeOdds \/ PassTime \/ UNCHANGED vars
  <2>1. UNCHANGED <<spec, match, queue, known, last, st>> /\ now' \in Nat
    BY <1>0, <1>7 DEF ResumeOdds, PassTime, vars
  <2>2. FeedOK'
    BY <1>0, <2>1, FeedStays
  <2>3. MarketOK'
    BY <1>0, <2>1 DEF MarketOK
  <2> QED
    BY <2>1, <2>2, <2>3 DEF IInv
<1> QED
  BY <1>1, <1>2, <1>3, <1>4, <1>5, <1>6, <1>7 DEF Next

\* In every behaviour the stream is a chain of records from what the market knows
\* to the match (normalize-scores.ts) and the market's state answers to the last
\* delivered record (reduce.ts, reduceMarket and checkDebounce).
THEOREM MarketFeedInvariant == Spec => []IInv
<1>1. Init => IInv
  BY FeedInit, ShapeInit DEF IInv
<1>2. IInv /\ [Next]_vars => IInv'
  BY StepKeeps
<1> QED
  BY <1>1, <1>2, PTL DEF Spec

\* The reducer's state is well typed whatever the match, the claim and the taps:
\* a candidate waits exactly in the settling status and always has an outcome,
\* and the ledger only ever holds goals of this match (reduce.ts, reduceMarket).
THEOREM MarketTypeCorrect == Spec => []TypeOK
<1>1. IInv => TypeOK
  <2> SUFFICES ASSUME IInv PROVE TypeOK
    OBVIOUS
  <2>1. Shape(st)
    BY DEF IInv, MarketOK
  <2>2. st.pending.outcome \in {NoOutcome, "claim_won", "claim_lost"}
    BY <2>1 DEF Shape, Won, NoCandidate
  <2>3. \A p \in Positions : st.positions[p].state \in {"none", "pending", "active", "void"}
    BY <2>1 DEF Shape, Taps
  <2> QED
    BY <2>1, <2>2, <2>3 DEF Shape, TypeOK, Statuses, Reasons
<1> QED
  BY <1>1, MarketFeedInvariant, PTL

\* Staking closes once: after the cutoff no VAR check, reversal, dropped
\* candidate, replay or odds suspension reopens it (reduce.ts, steps 4 to 6).
THEOREM StakingStaysClosed == Spec => CutoffIsPermanent
<1>1. IInv /\ [Next]_vars => [st.scratch.cutoffReached => st'.status # "open"]_vars
  <2> SUFFICES ASSUME IInv, [Next]_vars, st.scratch.cutoffReached
               PROVE  st'.status # "open"
    OBVIOUS
  <2>1. IInv' /\ st'.scratch.cutoffReached
    BY StepKeeps
  <2> QED
    BY <2>1 DEF IInv, MarketOK, Shape
<1> QED
  BY <1>1, MarketFeedInvariant, PTL DEF Spec, CutoffIsPermanent

-----------------------------------------------------------------------------
(* The ledger of goals. *)

\* How the ledger writes a goal of the match.
Entry(g) ==
    [seq |-> g.first, participant |-> g.participant, player |-> g.player, own |-> g.own,
     phase |-> g.phase]

LEMMA EntryFields ==
    \A g : /\ Entry(g).seq = g.first /\ Entry(g).participant = g.participant
           /\ Entry(g).player = g.player /\ Entry(g).own = g.own /\ Entry(g).phase = g.phase
  BY DEF Entry

\* A ledger L of the match m holds nothing but numbers already used; it is right
\* about the goals told in full; and it has one entry, in the right phase, for
\* every goal that is still known by its first number, told in full or not: the
\* entry a complete correction will find.
Known(L, m) == \A x \in L : x.seq \in 1..m.seq
Right(L, m) == \A x \in L : x.seq \notin m.untold =>
                 \E g \in m.goals : g.first \notin m.untold /\ x = Entry(g)
Whole(L, m) == \A g \in m.goals : g.first \notin m.untold => Entry(g) \in L
Traced(L, m) == \A g \in m.goals : g.last = g.first =>
                  \E x \in L : /\ x.seq = g.first /\ x.phase = g.phase
                               /\ \A y \in L : y.seq = g.first => y = x

LedgerOf(L, m) ==
    L \subseteq StandingGoal /\ Known(L, m) /\ Right(L, m) /\ Whole(L, m) /\ Traced(L, m)

LEMMA ReattributedIs ==
    ASSUME NEW x \in StandingGoal, NEW e
    PROVE  Reattributed(x, e).seq = x.seq /\ Reattributed(x, e).phase = x.phase
  BY DEF Reattributed, StandingGoal

\* A complete amend writes the goal as it now stands.
LEMMA EntryAmended ==
    ASSUME NEW x \in StandingGoal, NEW e, NEW h, h.participant \in 1..2, Tells(e, h),
           x.seq = h.first, x.phase = h.phase
    PROVE  Reattributed(x, e) = Entry(h)
<1>1. e.participant = h.participant /\ e.participant # 0 /\ e.player = h.player /\ e.own = h.own
  BY DEF Tells
<1> DEFINE side == h.participant
           who == h.player
           own == h.own
<1>2. Reattributed(x, e) = [x EXCEPT !.participant = side, !.player = who, !.own = own]
  BY <1>1 DEF Reattributed
<1> HIDE DEF side, who, own
<1>3. Reattributed(x, e) = [seq |-> x.seq, participant |-> side, player |-> who, own |-> own, phase |-> x.phase]
  BY <1>2 DEF StandingGoal
<1> QED
  BY <1>3 DEF Entry, side, who, own

\* What a correction leaves of the ledger: the entries with another number, and
\* those with its number re-attributed.
LEMMA ReversalTracks ==
    ASSUME NEW L, NEW e, isReversal(e)
    PROVE  /\ \A x \in L : x.seq # e.reverses => x \in trackGoals(L, e)
           /\ \A x \in trackGoals(L, e) :
                \/ x \in L /\ x.seq # e.reverses
                \/ e.kind = "goal_amended" /\ \E y \in L : y.seq = e.reverses /\ x = Reattributed(y, e)
           /\ e.kind = "goal_amended" =>
                \A y \in L : y.seq = e.reverses => Reattributed(y, e) \in trackGoals(L, e)
<1> DEFINE hit == {g \in L : g.seq = e.reverses}
<1>1. CASE e.kind = "goal_discarded"
  <2>1. trackGoals(L, e) = L \ hit
    BY <1>1 DEF trackGoals
  <2> QED
    BY <1>1, <2>1
<1>2. CASE e.kind = "goal_amended"
  <2>1. trackGoals(L, e) = (L \ hit) \cup {Reattributed(g, e) : g \in hit}
    BY <1>2 DEF trackGoals
  <2> QED
    BY <1>2, <2>1
<1> QED
  BY <1>1, <1>2 DEF isReversal

\* A goal leaves the match or is replaced by its correction.
Corrected(g, e, a, b) == b.goals = a.goals \ {g} \/ \E h \in b.goals : Replaces(g, h, e, a, b)

\* The other goals of the match after the goal g was corrected.
LEMMA OthersStay ==
    ASSUME NEW a, MatchOK(a), NEW e, NEW b, NEW g \in a.goals, Corrected(g, e, a, b), e.seq = a.seq + 1
    PROVE  /\ \A k \in b.goals : \/ k \in a.goals /\ k # g /\ k.first # g.first /\ k.first # g.last
                                 \/ k.first = g.first /\ k.last # k.first
           /\ \A k \in a.goals : k # g => k \in b.goals /\ k.first # g.first /\ k.first # g.last
<1>1. \A k \in a.goals : k # g => k.first # g.first /\ k.first # g.last
  BY DEF MatchOK
<1>2. g.first \in 1..a.seq /\ a.seq \in Nat
  BY DEF MatchOK, MatchRecords
<1>3. CASE b.goals = a.goals \ {g}
  BY <1>1, <1>3
<1>4. CASE \E h \in b.goals : Replaces(g, h, e, a, b)
  <2>1. PICK h \in b.goals : Replaces(g, h, e, a, b)
    BY <1>4
  <2>2. h.first = g.first /\ h.last = e.seq /\ b.goals = (a.goals \ {g}) \cup {h}
    BY <2>1 DEF Replaces
  <2>3. h.last # h.first
    BY <1>2, <2>2
  <2> QED
    BY <1>1, <2>2, <2>3
<1> QED
  BY <1>3, <1>4 DEF Corrected

\* A correction that is not placed leaves the goal untold and the rest as told.
LEMMA MisplacedLedger ==
    ASSUME NEW L, NEW a, LedgerOf(L, a), MatchOK(a), NEW e, NEW b, b.seq = e.seq, e.seq = a.seq + 1,
           NEW g \in a.goals, Corrected(g, e, a, b), b.untold = a.untold \cup {g.first},
           NEW M \in SUBSET StandingGoal,
           \A x \in L : x.seq # g.last => x \in M,
           \A x \in M : x \in L \/ \E y \in L : x.seq = y.seq /\ x.seq = g.last
    PROVE  LedgerOf(M, b)
<1>0. a.seq \in Nat
  BY DEF MatchOK, MatchRecords
<1>1. /\ \A k \in b.goals : \/ k \in a.goals /\ k # g /\ k.first # g.first /\ k.first # g.last
                            \/ k.first = g.first /\ k.last # k.first
      /\ \A k \in a.goals : k # g => k \in b.goals /\ k.first # g.first /\ k.first # g.last
  BY OthersStay
<1>2. \A x \in L : x.seq \in 1..a.seq
  BY DEF LedgerOf, Known
<1>3. Known(M, b)
  BY <1>0, <1>2 DEF Known
<1>4. Right(M, b)
  <2> SUFFICES ASSUME NEW x \in M, x.seq \notin b.untold
               PROVE  \E k \in b.goals : k.first \notin b.untold /\ x = Entry(k)
    BY DEF Right
  <2>1. x.seq \notin a.untold /\ x.seq # g.first
    OBVIOUS
  <2>2. \A y \in L : y.seq = x.seq =>
           \E k \in a.goals : k.first \notin a.untold /\ y = Entry(k) /\ k # g
    BY <2>1, EntryFields DEF LedgerOf, Right
  <2>3. x \in L
    <3> SUFFICES ASSUME NEW y \in L, x.seq = y.seq, x.seq = g.last PROVE FALSE
      OBVIOUS
    <3>1. PICK k \in a.goals : y = Entry(k) /\ k # g
      BY <2>2
    <3>2. k.first = g.last
      BY <3>1, EntryFields
    <3> QED
      BY <1>1, <3>1, <3>2
  <2>4. PICK k \in a.goals : k.first \notin a.untold /\ x = Entry(k) /\ k # g
    BY <2>2, <2>3
  <2>5. k \in b.goals /\ k.first # g.first
    BY <1>1, <2>4
  <2> QED
    BY <2>4, <2>5
<1>5. Whole(M, b)
  <2> SUFFICES ASSUME NEW k \in b.goals, k.first \notin b.untold PROVE Entry(k) \in M
    BY DEF Whole
  <2>1. k \in a.goals /\ k.first \notin a.untold /\ k.first # g.last
    BY <1>1
  <2>2. Entry(k) \in L /\ Entry(k).seq # g.last
    BY <2>1, EntryFields DEF LedgerOf, Whole
  <2> QED
    BY <2>2
<1>6. Traced(M, b)
  <2> SUFFICES ASSUME NEW k \in b.goals, k.last = k.first
               PROVE  \E x \in M : /\ x.seq = k.first /\ x.phase = k.phase
                                   /\ \A y \in M : y.seq = k.first => y = x
    BY DEF Traced
  <2>1. k \in a.goals /\ k.first # g.last
    BY <1>1
  <2>2. PICK x \in L : /\ x.seq = k.first /\ x.phase = k.phase
                       /\ \A y \in L : y.seq = k.first => y = x
    BY <2>1 DEF LedgerOf, Traced
  <2>3. x \in M /\ \A y \in M : y.seq = k.first => y \in L
    BY <2>1, <2>2
  <2> QED
    BY <2>2, <2>3
<1> QED
  BY <1>3, <1>4, <1>5, <1>6 DEF LedgerOf

\* A discard or an amend under the goal's own number.
LEMMA PlacedLedger ==
    ASSUME NEW L, NEW a, LedgerOf(L, a), MatchOK(a), NEW e, isReversal(e), NEW b, MatchOK(b),
           b.seq = e.seq, e.seq = a.seq + 1, NEW g \in a.goals, Placed(g, e, a, b),
           \/ e.kind = "goal_discarded" /\ b.goals = a.goals \ {g}
           \/ /\ e.kind = "goal_amended"
              /\ \E h \in b.goals : Replaces(g, h, e, a, b) /\ Tells(e, h),
           NEW M, M = trackGoals(L, e), M \subseteq StandingGoal
    PROVE  LedgerOf(M, b)
<1>0. a.seq \in Nat /\ L \subseteq StandingGoal /\ \A h \in b.goals : h.participant \in 1..2
  BY DEF MatchOK, MatchRecords, GoalRecords, LedgerOf
<1>1. /\ \A k \in b.goals : \/ k \in a.goals /\ k # g /\ k.first # g.first /\ k.first # g.last
                            \/ k.first = g.first /\ k.last # k.first
      /\ \A k \in a.goals : k # g => k \in b.goals /\ k.first # g.first /\ k.first # g.last
  BY OthersStay DEF Corrected
<1>2. e.reverses = g.first /\ g.last = g.first /\ b.untold = a.untold \ {g.first}
  BY DEF Placed
<1>3. /\ \A x \in L : x.seq # g.first => x \in M
      /\ \A x \in M :
           \/ x \in L /\ x.seq # g.first
           \/ e.kind = "goal_amended" /\ \E y \in L : y.seq = g.first /\ x = Reattributed(y, e)
      /\ e.kind = "goal_amended" => \A y \in L : y.seq = g.first => Reattributed(y, e) \in M
  BY <1>2, ReversalTracks
<1>4. PICK z \in L : /\ z.seq = g.first /\ z.phase = g.phase
                     /\ \A y \in L : y.seq = g.first => y = z
  BY <1>2 DEF LedgerOf, Traced
\* The entry the correction finds becomes the goal as corrected.
<1>5. \A h \in b.goals : h \notin a.goals =>
         /\ h.first = g.first /\ Entry(h) \in M
         /\ \A x \in M : x.seq = g.first => x = Entry(h)
  <2> SUFFICES ASSUME NEW h \in b.goals, h \notin a.goals
               PROVE  /\ h.first = g.first /\ Entry(h) \in M
                      /\ \A x \in M : x.seq = g.first => x = Entry(h)
    OBVIOUS
  <2>1. e.kind = "goal_amended"
    OBVIOUS
  <2>2. Replaces(g, h, e, a, b) /\ Tells(e, h)
    BY <2>1 DEF Replaces
  <2>3. h.first = g.first /\ h.phase = g.phase /\ h.participant \in 1..2
    BY <2>2, <1>0 DEF Replaces
  <2>4. Reattributed(z, e) = Entry(h)
    BY <1>0, <1>4, <2>2, <2>3, EntryAmended
  <2>5. Reattributed(z, e) \in M
    BY <1>3, <1>4, <2>1
  <2>6. \A x \in M : x.seq = g.first => x = Reattributed(z, e)
    BY <1>3, <1>4
  <2> QED
    BY <2>3, <2>4, <2>5, <2>6
<1>6. \A x \in M : x.seq = g.first => \E h \in b.goals : h \notin a.goals
  <2> SUFFICES ASSUME NEW x \in M, x.seq = g.first PROVE \E h \in b.goals : h \notin a.goals
    OBVIOUS
  <2>1. e.kind = "goal_amended"
    BY <1>3
  <2>2. PICK h \in b.goals : Replaces(g, h, e, a, b)
    BY <2>1
  <2>3. h.last = e.seq /\ e.seq = a.seq + 1 /\ \A k \in a.goals : k.last \in 1..a.seq
    BY <2>2 DEF Replaces, MatchOK
  <2> QED
    BY <1>0, <2>2, <2>3
<1>7. Known(M, b)
  <2> SUFFICES ASSUME NEW x \in M PROVE x.seq \in 1..b.seq
    BY DEF Known
  <2>1. \A y \in L : y.seq \in 1..a.seq
    BY DEF LedgerOf, Known
  <2>2. \E y \in L : x.seq = y.seq
    BY <1>0, <1>3, ReattributedIs
  <2> QED
    BY <1>0, <2>1, <2>2
<1>8. Right(M, b)
  <2> SUFFICES ASSUME NEW x \in M, x.seq \notin b.untold
               PROVE  \E k \in b.goals : k.first \notin b.untold /\ x = Entry(k)
    BY DEF Right
  <2>1. CASE x.seq = g.first
    BY <1>2, <1>5, <1>6, <2>1
  <2>2. CASE x.seq # g.first
    <3>1. x \in L /\ x.seq \notin a.untold
      BY <1>0, <1>2, <1>3, <2>2, ReattributedIs
    <3>2. PICK k \in a.goals : k.first \notin a.untold /\ x = Entry(k)
      BY <3>1 DEF LedgerOf, Right
    <3>3. k # g
      BY <2>2, <3>2, EntryFields
    <3> QED
      BY <1>1, <1>2, <3>2, <3>3
  <2> QED
    BY <2>1, <2>2
<1>9. Whole(M, b)
  <2> SUFFICES ASSUME NEW k \in b.goals, k.first \notin b.untold PROVE Entry(k) \in M
    BY DEF Whole
  <2>1. CASE k \in a.goals /\ k.first # g.first
    <3>1. Entry(k) \in L /\ Entry(k).seq # g.first
      BY <1>2, <2>1, EntryFields DEF LedgerOf, Whole
    <3> QED
      BY <1>3, <3>1
  <2>2. CASE k \notin a.goals
    BY <1>5, <2>2
  <2>3. CASE k.first = g.first /\ k.last # k.first
    <3>1. k \notin a.goals
      BY <1>1, <1>2, <2>3
    <3> QED
      BY <1>5, <3>1
  <2> QED
    BY <1>1, <2>1, <2>2, <2>3
<1>10. Traced(M, b)
  <2> SUFFICES ASSUME NEW k \in b.goals, k.last = k.first
               PROVE  \E x \in M : /\ x.seq = k.first /\ x.phase = k.phase
                                   /\ \A y \in M : y.seq = k.first => y = x
    BY DEF Traced
  <2>1. k \in a.goals /\ k.first # g.first
    BY <1>1
  <2>2. PICK x \in L : /\ x.seq = k.first /\ x.phase = k.phase
                       /\ \A y \in L : y.seq = k.first => y = x
    BY <2>1 DEF LedgerOf, Traced
  <2>3. x \in M
    BY <1>3, <2>1, <2>2
  <2>4. \A y \in M : y.seq = k.first => y \in L
    BY <1>0, <1>3, <2>1, ReattributedIs
  <2> QED
    BY <2>2, <2>3, <2>4
<1> QED
  BY <1>7, <1>8, <1>9, <1>10 DEF LedgerOf

LEMMA ScoredLedger ==
    ASSUME NEW L, NEW a, LedgerOf(L, a), MatchOK(a), NEW e, NEW b, Scores(a, e, b), b.seq = e.seq,
           e.seq = a.seq + 1, trackGoals(L, e) \subseteq StandingGoal
    PROVE  LedgerOf(trackGoals(L, e), b)
<1> DEFINE x == [seq |-> e.seq, participant |-> e.participant, player |-> e.player,
                 own |-> e.own, phase |-> e.phase]
           M == L \cup {x}
<1>0. a.seq \in Nat /\ \A k \in a.goals : k.first \in 1..a.seq
  BY DEF MatchOK, MatchRecords
<1>1. PICK g \in b.goals :
         /\ g.first = e.seq /\ g.last = e.seq /\ g.participant = e.participant
         /\ g.own = e.own /\ g.phase = e.phase
         /\ b.goals = a.goals \cup {g}
         /\ \/ g.player = e.player /\ b.untold = a.untold
            \/ e.player = NoScorer.player /\ b.untold = a.untold \cup {g.first}
  BY DEF Scores
<1>2. trackGoals(L, e) = M
  BY DEF Scores, trackGoals
<1>3. \A y \in L : y.seq \in 1..a.seq /\ y.seq # e.seq
  BY <1>0 DEF LedgerOf, Known
<1>4. x.seq = e.seq /\ x.phase = g.phase
  BY <1>1
<1>5. g.first \notin b.untold => x = Entry(g) /\ b.untold = a.untold
  BY <1>1 DEF Entry
<1> HIDE DEF x
<1>6. Known(M, b)
  BY <1>0, <1>3, <1>4 DEF Known
<1>7. a.untold \subseteq b.untold /\ \A k : k \in b.untold /\ k # e.seq => k \in a.untold
  BY <1>1
<1>8. Right(M, b)
  <2> SUFFICES ASSUME NEW y \in M, y.seq \notin b.untold
               PROVE  \E k \in b.goals : k.first \notin b.untold /\ y = Entry(k)
    BY DEF Right
  <2>1. CASE y \in L
    <3>1. PICK k \in a.goals : k.first \notin a.untold /\ y = Entry(k)
      BY <1>7, <2>1 DEF LedgerOf, Right
    <3>2. k.first = y.seq
      BY <3>1, EntryFields
    <3> QED
      BY <1>1, <3>1, <3>2
  <2>2. CASE y = x
    BY <1>1, <1>4, <1>5, <2>2
  <2> QED
    BY <2>1, <2>2
<1>9. Whole(M, b)
  <2> SUFFICES ASSUME NEW k \in b.goals, k.first \notin b.untold PROVE Entry(k) \in M
    BY DEF Whole
  <2>1. CASE k \in a.goals
    BY <1>7, <2>1 DEF LedgerOf, Whole
  <2>2. CASE k = g
    BY <1>5, <2>2
  <2> QED
    BY <1>1, <2>1, <2>2
<1>10. Traced(M, b)
  <2> SUFFICES ASSUME NEW k \in b.goals, k.last = k.first
               PROVE  \E z \in M : /\ z.seq = k.first /\ z.phase = k.phase
                                   /\ \A y \in M : y.seq = k.first => y = z
    BY DEF Traced
  <2>1. CASE k \in a.goals
    <3>1. PICK z \in L : /\ z.seq = k.first /\ z.phase = k.phase
                         /\ \A y \in L : y.seq = k.first => y = z
      BY <2>1 DEF LedgerOf, Traced
    <3>2. k.first # e.seq
      BY <1>0, <2>1
    <3> QED
      BY <1>4, <3>1, <3>2
  <2>2. CASE k = g
    BY <1>1, <1>3, <1>4, <2>2
  <2> QED
    BY <1>1, <2>1, <2>2
<1>11. M \subseteq StandingGoal
  BY <1>2
<1> HIDE DEF M
<1>12. LedgerOf(M, b)
  BY <1>6, <1>8, <1>9, <1>10, <1>11 DEF LedgerOf
<1> QED
  BY <1>2, <1>12

\* The ledger of one record of the match becomes the ledger of the next.
LEMMA LedgerFollows ==
    ASSUME NEW L, NEW a, LedgerOf(L, a), MatchOK(a), NEW e, NEW b, Follows(a, e, b), MatchOK(b)
    PROVE  LedgerOf(trackGoals(L, e), b)
<1>0. e.seq = a.seq + 1 /\ b.seq = e.seq /\ L \subseteq StandingGoal /\ a.seq \in Nat
  BY DEF Follows, LedgerOf, MatchOK, MatchRecords
<1> DEFINE M == trackGoals(L, e)
<1>1. M \subseteq StandingGoal
  BY <1>0, LedgerTyped
<1>2. CASE Scores(a, e, b)
  BY <1>0, <1>1, <1>2, ScoredLedger
<1> HIDE DEF M
<1>3. ASSUME isReversal(e), NEW g \in a.goals, Misplaced(g, e, a, b), Corrected(g, e, a, b)
      PROVE  LedgerOf(M, b)
  <2>1. e.reverses \in {0, g.last} /\ b.untold = a.untold \cup {g.first}
    BY <1>3 DEF Misplaced
  <2>2. \A x \in L : x.seq # 0
    BY <1>0 DEF StandingGoal
  <2>3. \A x \in L : x.seq # g.last => x \in M
    BY <1>3, <2>1, <2>2, ReversalTracks DEF M
  <2>4. \A x \in M : x \in L \/ \E y \in L : x.seq = y.seq /\ x.seq = g.last
    <3> TAKE x \in M
    <3>1. x \in L \/ \E y \in L : y.seq = e.reverses /\ x = Reattributed(y, e)
      BY <1>3, ReversalTracks DEF M
    <3>2. ASSUME NEW y \in L, y.seq = e.reverses, x = Reattributed(y, e)
          PROVE  x.seq = y.seq /\ x.seq = g.last
      BY <1>0, <2>1, <2>2, <3>2, ReattributedIs
    <3> QED
      BY <3>1, <3>2
  <2> QED
    BY <1>0, <1>1, <1>3, <2>1, <2>3, <2>4, MisplacedLedger
<1>4. CASE Discards(a, e, b)
  <2>1. PICK g \in a.goals :
          b.goals = a.goals \ {g} /\ (Placed(g, e, a, b) \/ Misplaced(g, e, a, b))
    BY <1>4 DEF Discards
  <2>2. isReversal(e) /\ e.kind = "goal_discarded"
    BY <1>4 DEF Discards, isReversal
  <2>3. CASE Placed(g, e, a, b)
    BY <1>0, <1>1, <2>1, <2>2, <2>3, PlacedLedger DEF M
  <2>4. CASE Misplaced(g, e, a, b)
    BY <1>3, <2>1, <2>2, <2>4 DEF Corrected, M
  <2> QED
    BY <2>1, <2>3, <2>4
<1>5. CASE Amends(a, e, b)
  <2>1. PICK g \in a.goals, h \in b.goals :
          /\ Replaces(g, h, e, a, b)
          /\ (Placed(g, e, a, b) /\ Tells(e, h)) \/ Misplaced(g, e, a, b)
    BY <1>5 DEF Amends
  <2>2. isReversal(e) /\ e.kind = "goal_amended"
    BY <1>5 DEF Amends, isReversal
  <2>3. CASE Placed(g, e, a, b) /\ Tells(e, h)
    BY <1>0, <1>1, <2>1, <2>2, <2>3, PlacedLedger DEF M
  <2>4. CASE Misplaced(g, e, a, b)
    BY <1>3, <2>1, <2>2, <2>4 DEF Corrected, M
  <2> QED
    BY <2>1, <2>3, <2>4
<1>6. CASE Misreads(a, e, b)
  <2>1. PICK g \in a.goals : Corrected(g, e, a, b) /\ b.untold = a.untold \cup {g.first}
    BY <1>6 DEF Misreads, Corrected
  <2>2. M = L
    BY <1>6 DEF Misreads, trackGoals, M
  <2>3. LedgerOf(L, b)
    BY <1>0, <2>1, MisplacedLedger
  <2> QED
    BY <2>2, <2>3 DEF M
<1>7. CASE KeepsGoals(a, e, b)
  <2>1. M = L
    BY <1>7 DEF KeepsGoals, isReversal, trackGoals, M
  <2>2. b.goals = a.goals /\ b.untold = a.untold
    BY <1>7 DEF KeepsGoals
  <2>3. Known(L, b)
    BY <1>0 DEF LedgerOf, Known
  <2>4. LedgerOf(L, b)
    BY <2>2, <2>3 DEF LedgerOf, Right, Whole, Traced
  <2> QED
    BY <2>1, <2>4 DEF M
<1> QED
  BY <1>2, <1>4, <1>5, <1>6, <1>7 DEF Follows, M

\* The ledger of a running market is one of the match as it was delivered.
LedgerOK == st.status \in {"open", "frozen", "settling"} => LedgerOf(st.scratch.goals, known)

Ledger(goals) == {Entry(g) : g \in goals}

LEMMA LedgerIs == LedgerOK => LedgerIsTheMatch
<1> SUFFICES ASSUME st.status \in {"open", "frozen", "settling"}, LedgerOf(st.scratch.goals, known)
             PROVE  {x \in st.scratch.goals : x.seq \notin known.untold} =
                      Ledger({h \in known.goals : h.first \notin known.untold})
  BY Zenon DEF LedgerOK, LedgerIsTheMatch, Ledger, Entry
<1> QED
  BY EntryFields DEF LedgerOf, Right, Whole, Ledger

\* With every goal told in full, the ledger is the match.
LEMMA FullLedger ==
    ASSUME NEW L, NEW m, LedgerOf(L, m), m.untold = {}
    PROVE  L = Ledger(m.goals)
  BY DEF LedgerOf, Right, Whole, Ledger

\* What the reducer leaves of the goals of a market it hands on running.
LEMMA ReduceGoals ==
    ASSUME NEW m, Shape(m), ~Closed(m), NEW claim, NEW ev, ~isStale(m, ev),
           LET n == reduceMarket(claim, m, ev).state
           IN  n.status \in {"open", "frozen", "settling"}
    PROVE  LET n == reduceMarket(claim, m, ev).state
           IN  \/ /\ m.status = "pending_lineup" /\ ev.kind = "lineup"
                  /\ n.scratch.goals = m.scratch.goals
               \/ /\ m.status \in {"open", "frozen", "settling"}
                  /\ n.scratch.goals = trackGoals(m.scratch.goals, ev)
<1> DEFINE r == reduceMarket(claim, m, ev)
           n == r.state
<1>1. CASE m.status = "pending_lineup"
  <2>1. IsMarket(m)
    BY DEF Shape
  <2>2. n.scratch.goals = m.scratch.goals
    BY <1>1, <2>1, LineupFields
  <2>3. \/ n.status = "voided"
        \/ n.status = m.status
        \/ ev.kind = "lineup"
    BY <1>1, <2>1, LineupFields DEF Voids, KeepsStatus
  <2> QED
    BY <1>1, <2>2, <2>3
<1>2. CASE m.status \in {"open", "frozen", "settling"}
  <2>1. Live(m)
    BY <1>2, RunningIsLive
  <2>2. \/ n.scratch.goals = trackGoals(m.scratch.goals, ev)
        \/ n.scratch.goals = m.scratch.goals /\ n.status = "voided"
    BY <2>1, ReduceFields
  <2> QED
    BY <1>2, <2>2
<1> QED
  BY <1>1, <1>2 DEF Shape, Statuses, Closed

LEMMA LedgerStep ==
    ASSUME IInv, LedgerOK, [Next]_vars
    PROVE  LedgerOK'
<1> SUFFICES ASSUME st'.status \in {"open", "frozen", "settling"}
             PROVE  LedgerOf(st'.scratch.goals, known')
  BY DEF LedgerOK
<1>0. FeedOK /\ MarketOK /\ Shape(st) /\ now \in Nat /\ IsEvent(last)
  BY DEF IInv, FeedOK, MarketOK
<1>1. st.status \in {"open", "frozen", "settling"} => LedgerOf(st.scratch.goals, known)
  BY DEF LedgerOK
<1>2. CASE Deliver
  <2>1. st' = reduceMarket(spec, st, Arrival).state
    BY <1>2 DEF Deliver, Apply, Arrival
  <2>2. ~Closed(st)
    <3>1. Closed(st) => st' = st
      BY <2>1, ReduceIgnores
    <3> QED
      BY <3>1 DEF Closed
  <2>3. ~isStale(st, Arrival)
    BY <1>0, <1>2, <2>2, ArrivalFresh
  <2>4. Follows(known, Arrival, known') /\ MatchOK(known) /\ MatchOK(known')
    BY <1>0, <1>2, ArrivalFollows
  <2>5. \/ /\ st.status = "pending_lineup" /\ Arrival.kind = "lineup"
           /\ st'.scratch.goals = st.scratch.goals
        \/ /\ st.status \in {"open", "frozen", "settling"}
           /\ st'.scratch.goals = trackGoals(st.scratch.goals, Arrival)
    BY <1>0, <2>1, <2>2, <2>3, ReduceGoals
  <2>6. CASE /\ st.status = "pending_lineup" /\ Arrival.kind = "lineup"
             /\ st'.scratch.goals = st.scratch.goals
    <3>1. known'.goals = {} /\ st.scratch.goals = {}
      BY <1>0, <2>4, <2>6 DEF Follows, MatchOK, MarketOK
    <3>2. LedgerOf({}, known')
      BY <3>1 DEF LedgerOf, Known, Right, Whole, Traced
    <3> QED
      BY <2>6, <3>1, <3>2
  <2>7. CASE /\ st.status \in {"open", "frozen", "settling"}
             /\ st'.scratch.goals = trackGoals(st.scratch.goals, Arrival)
    BY <1>1, <2>4, <2>7, LedgerFollows
  <2> QED
    BY <2>5, <2>6, <2>7
<1>3. CASE SuspendOdds
  <2>1. st' = reduceMarket(spec, st, Suspension).state /\ known' = known
    BY <1>3 DEF SuspendOdds, Apply, Suspension
  <2>2. ~Closed(st)
    <3>1. Closed(st) => st' = st
      BY <2>1, ReduceIgnores
    <3> QED
      BY <3>1 DEF Closed
  <2>3. /\ ~isStale(st, Suspension) /\ Suspension.kind = "odds_suspension"
        /\ trackGoals(st.scratch.goals, Suspension) = st.scratch.goals
    BY <1>0, SuspensionHolds, SuspensionIs
  <2>4. \/ /\ st.status = "pending_lineup" /\ Suspension.kind = "lineup"
           /\ st'.scratch.goals = st.scratch.goals
        \/ /\ st.status \in {"open", "frozen", "settling"}
           /\ st'.scratch.goals = trackGoals(st.scratch.goals, Suspension)
    BY <1>0, <2>1, <2>2, <2>3, ReduceGoals
  <2> QED
    BY <1>1, <2>1, <2>3, <2>4
<1>4. CASE Tick
  <2>1. st' = checkDebounce(st, now).state /\ st.pending # NoCandidate /\ known' = known
    BY <1>4 DEF Tick, Apply
  <2>2. st.status = "settling"
    BY <1>0, <2>1 DEF Shape
  <2>3. Live(st)
    BY <1>0, <2>2, RunningIsLive
  <2>4. KeepsScratch(st, st')
    BY <2>1, <2>3, DebounceFields
  <2>5. KeepsSeen(st, st')
    BY <2>4 DEF KeepsScratch
  <2> QED
    BY <1>1, <2>1, <2>2, <2>5 DEF KeepsSeen
<1>5. CASE Place
  <2>1. KeepsStatus(st, st') /\ KeepsScratch(st, st') /\ known' = known
    BY <1>0, <1>5, PlaceKeeps DEF Place
  <2>2. KeepsSeen(st, st')
    BY <2>1 DEF KeepsScratch
  <2> QED
    BY <1>1, <2>1, <2>2 DEF KeepsSeen, KeepsStatus
<1>6. CASE Redeliver
  <2>1. st' = st /\ known' = known
    BY <1>0, <1>6, RedeliverIgnored DEF Redeliver
  <2> QED
    BY <1>1, <2>1
<1>7. CASE Play \/ ResumeOdds \/ PassTime \/ UNCHANGED vars
  <2>1. st' = st /\ known' = known
    BY <1>7 DEF Play, marketVars, ResumeOdds, PassTime, vars
  <2> QED
    BY <1>1, <2>1
<1> QED
  BY <1>2, <1>3, <1>4, <1>5, <1>6, <1>7 DEF Next

LEMMA LedgerInvariant == Spec => []LedgerOK
<1>1. Init => LedgerOK
  <2> SUFFICES ASSUME Init PROVE LedgerOK
    OBVIOUS
  <2>1. st.scratch.goals = {} /\ known.goals = {}
    BY DEF Init, InitFeed, InitMarket, initialScratch
  <2> QED
    BY <2>1 DEF LedgerOK, LedgerOf, Known, Right, Whole, Traced
<1>2. IInv /\ LedgerOK /\ [Next]_vars => LedgerOK'
  BY LedgerStep
<1> QED
  BY <1>1, <1>2, MarketFeedInvariant, PTL DEF Spec

\* The reducer's ledger of standing goals is the delivered match's, whatever is
\* discarded, amended, replayed or suspended in between and however often a goal
\* is corrected; it can be wrong only about a goal whose last correction named
\* no number, another number than the goal's own or no scorer, until a complete
\* correction tells it again (reduce.ts, trackGoals; normalize-scores.ts,
\* reversesSeq and the player resolution).
THEOREM LedgerFollowsTheMatch == Spec => []LedgerIsTheMatch
  BY LedgerInvariant, LedgerIs, PTL

-----------------------------------------------------------------------------
(* Settling. *)

\* A market is decided by the candidate it waits with, on a tick or on an event
\* that is neither a doubt nor a reversal.
LEMMA DecidesFrom ==
    ASSUME IInv, [Next]_vars, Decides
    PROVE  /\ st.pending # NoCandidate /\ verdict' = TerminalOf(st.pending)
           /\ \/ known' = known /\ masked' = masked
              \/ Deliver /\ ~isHoldSignal(Arrival) /\ ~isReversal(Arrival)
<1>0. FeedOK /\ MarketOK /\ Shape(st) /\ IsEvent(last)
  BY DEF IInv, FeedOK, MarketOK
<1>1. ASSUME NEW ev, Apply(reduceMarket(spec, st, ev)), ~Closed(st) => ~isStale(st, ev)
      PROVE  /\ st.pending # NoCandidate /\ verdict' = TerminalOf(st.pending)
             /\ ~isHoldSignal(ev) /\ ~isReversal(ev)
  <2> DEFINE r == reduceMarket(spec, st, ev)
             t == r.effects.terminal
  <2>1. t # NoTerminal /\ verdict' = t /\ t.outcome # "void"
    BY <1>1 DEF Apply, Decides
  <2>2. ~Closed(st)
    BY <2>1, ReduceIgnores
  <2>3. ~isStale(st, ev)
    BY <1>1, <2>2
  <2>4. st.status # "pending_lineup"
    <3>1. IsMarket(st)
      BY <1>0 DEF Shape
    <3>2. st.status = "pending_lineup" => Voids(r.state, t) \/ t = NoTerminal
      BY <2>3, <3>1, LineupFields
    <3> QED
      BY <3>2, <2>1 DEF Voids
  <2>5. Live(st)
    BY <1>0, <2>2, <2>4, RunningIsLive DEF Shape, Statuses, Closed
  <2>6. Leaves(spec, st, ev, r.state, t)
    BY <2>3, <2>5, ReduceFields
  <2>7. Settles(st, ev, r.state, t)
    BY <2>1, <2>6 DEF Leaves, Holds, Waits, Arms, Voids
  <2> QED
    BY <2>1, <2>7 DEF Settles
<1>2. CASE Deliver
  <2>1. Apply(reduceMarket(spec, st, Arrival))
    BY <1>2 DEF Deliver, Arrival
  <2>2. ~Closed(st) => ~isStale(st, Arrival)
    BY <1>0, <1>2, ArrivalFresh
  <2> QED
    BY <1>1, <1>2, <2>1, <2>2
<1>3. CASE SuspendOdds
  <2>1. Apply(reduceMarket(spec, st, Suspension))
    BY <1>3 DEF SuspendOdds, Suspension
  <2>2. ~isStale(st, Suspension) /\ isHoldSignal(Suspension)
    BY <1>0, SuspensionHolds
  <2> QED
    BY <1>1, <2>1, <2>2
<1>4. CASE Tick
  <2>1. st.pending # NoCandidate /\ Apply(checkDebounce(st, now)) /\ known' = known /\ masked' = masked
    BY <1>4 DEF Tick
  <2>2. Live(st)
    BY <1>0, <2>1, RunningIsLive DEF Shape
  <2> DEFINE t == checkDebounce(st, now).effects.terminal
  <2>3. t = NoTerminal \/ t = TerminalOf(st.pending)
    BY <2>1, <2>2, DebounceFields
  <2>4. verdict' = t
    BY <2>1 DEF Apply, Decides
  <2>5. t # NoTerminal
    BY <2>1 DEF Apply, Decides
  <2> QED
    BY <2>1, <2>3, <2>4, <2>5
<1>5. CASE Redeliver
  BY <1>0, <1>5, RedeliverIgnored DEF Decides
<1>6. CASE Play \/ ResumeOdds \/ PassTime \/ Place \/ UNCHANGED vars
  BY <1>6 DEF Decides, Play, marketVars, ResumeOdds, PassTime, Place, vars
<1> QED
  BY <1>2, <1>3, <1>4, <1>5, <1>6 DEF Next

LEMMA UnderCheckStep ==
    ASSUME IInv, UnderCheck, [Next]_vars
    PROVE  UnderCheck'
<1> SUFFICES ASSUME known'.var, ~masked', st'.status \in {"open", "frozen", "settling"}
             PROVE  st'.status = "frozen" /\ st'.scratch.freezeReason = "var"
  BY DEF UnderCheck
<1>0. FeedOK /\ MarketOK /\ Shape(st) /\ now \in Nat
  BY DEF IInv, FeedOK, MarketOK
<1>1. CASE Deliver
  <2> DEFINE r == reduceMarket(spec, st, Arrival)
             t == r.effects.terminal
  <2>1. st' = r.state
    BY <1>1 DEF Deliver, Apply, Arrival
  <2>2. ~Closed(st)
    <3>1. Closed(st) => st' = st
      BY <2>1, ReduceIgnores
    <3> QED
      BY <3>1 DEF Closed
  <2>3. ~isStale(st, Arrival)
    BY <1>0, <1>1, <2>2, ArrivalFresh
  <2>4. Follows(known, Arrival, known') /\ MatchOK(known) /\ MatchOK(known')
    BY <1>0, <1>1, ArrivalFollows
  <2>5. st.status # "pending_lineup"
    <3>1. st.status = "pending_lineup" => Arrival.kind = "lineup"
      BY <1>0, <2>1, <2>2, <2>3, ReduceGoals
    <3>2. Arrival.kind = "lineup" => ~known'.var
      BY <2>4 DEF Follows, MatchOK
    <3> QED
      BY <3>1, <3>2
  <2>6. st.status \in {"open", "frozen", "settling"}
    BY <1>0, <2>2, <2>5 DEF Shape, Statuses, Closed
  <2>7. Live(st)
    BY <1>0, <2>6, RunningIsLive
  <2>8. Leaves(spec, st, Arrival, st', t)
    BY <2>1, <2>3, <2>7, ReduceFields
  <2>0. masked' = (known'.var /\ (masked \/ (isHoldSignal(Arrival) /\ holdReasonFor(Arrival) # "var")))
    BY <1>1, Zenon DEF Deliver, Arrival
  <2>9. ~masked /\ (isHoldSignal(Arrival) => holdReasonFor(Arrival) = "var")
    BY <2>0
  <2>10. ~isHoldSignal(Arrival) => UnderVar(st, Arrival)
    <3> SUFFICES ASSUME ~isHoldSignal(Arrival) PROVE UnderVar(st, Arrival)
      OBVIOUS
    <3>1. Arrival.kind # "var_check"
      BY DEF isHoldSignal
    <3>2. known.var
      BY <2>4, <3>1 DEF Follows
    <3>3. st.status = "frozen" /\ st.scratch.freezeReason = "var"
      BY <2>6, <2>9, <3>2 DEF UnderCheck
    <3>4. Arrival.kind # "var_end" /\ ~isReversal(Arrival)
      BY <2>4 DEF Follows, Scores, Discards, Amends, Misreads, KeepsGoals, isReversal
    <3> QED
      BY <3>3, <3>4 DEF UnderVar
  <2>11. CASE Holds(Arrival, st', t)
    BY <2>9, <2>11 DEF Holds
  <2>12. CASE Waits(st, Arrival, st', t)
    BY <2>10, <2>12 DEF Waits
  <2>13. CASE Arms(spec, st, Arrival, st', t)
    BY <2>10, <2>13 DEF Arms
  <2>14. CASE Voids(st', t) \/ Settles(st, Arrival, st', t)
    BY <2>14 DEF Voids, Settles
  <2> QED
    BY <2>8, <2>11, <2>12, <2>13, <2>14 DEF Leaves
<1>2. CASE Tick
  <2>1. st.pending # NoCandidate /\ known' = known /\ masked' = masked
    BY <1>2 DEF Tick
  <2>2. st.status = "settling"
    BY <1>0, <2>1 DEF Shape
  <2> QED
    BY <2>1, <2>2 DEF UnderCheck
<1>3. CASE Place
  <2>1. KeepsStatus(st, st') /\ KeepsScratch(st, st') /\ known' = known /\ masked' = masked
    BY <1>0, <1>3, PlaceKeeps DEF Place
  <2>2. KeepsReason(st, st')
    BY <2>1 DEF KeepsScratch
  <2> QED
    BY <2>1, <2>2 DEF UnderCheck, KeepsStatus, KeepsReason
<1>4. CASE SuspendOdds
  BY <1>4 DEF SuspendOdds
<1>5. CASE Redeliver
  <2>1. st' = st /\ known' = known /\ masked' = masked
    BY <1>0, <1>5, RedeliverIgnored DEF Redeliver
  <2> QED
    BY <2>1 DEF UnderCheck
<1>6. CASE Play \/ ResumeOdds \/ PassTime \/ UNCHANGED vars
  <2>1. st' = st /\ known' = known /\ masked' = masked
    BY <1>6 DEF Play, marketVars, ResumeOdds, PassTime, vars
  <2> QED
    BY <2>1 DEF UnderCheck
<1> QED
  BY <1>1, <1>2, <1>3, <1>4, <1>5, <1>6 DEF Next

\* No market settles while the delivered feed shows an open VAR check, for any
\* claim and match with every kind of event, unless another doubt (a possible
\* event, an unconfirmed goal, suspended odds) was delivered during that same
\* check: it replaces the reason the market is frozen for and can be resolved
\* before the check ends (reduce.ts, steps 5 to 7).
THEOREM VarHoldsSettlement == Spec => NeverSettlesUnderVar
<1>1. Init => UnderCheck
  BY DEF Init, InitFeed, InitMarket, UnderCheck
<1>2. IInv /\ UnderCheck /\ [Next]_vars => UnderCheck'
  BY UnderCheckStep
<1>3. IInv /\ UnderCheck /\ [Next]_vars => [Decides => ~known'.var \/ masked']_vars
  <2> SUFFICES ASSUME IInv, UnderCheck, [Next]_vars, Decides, ~masked' PROVE ~known'.var
    OBVIOUS
  <2>1. /\ st.pending # NoCandidate
        /\ (known' = known /\ masked' = masked) \/ (Deliver /\ ~isHoldSignal(Arrival))
    BY DecidesFrom
  <2>2. st.status = "settling"
    BY <2>1 DEF IInv, MarketOK, Shape
  <2>3. known.var => masked
    BY <2>2 DEF UnderCheck
  <2>4. CASE Deliver /\ ~isHoldSignal(Arrival)
    <3>1. Follows(known, Arrival, known')
      BY <2>4, ArrivalFollows DEF IInv
    <3>2. masked /\ known'.var => masked'
      BY <2>4 DEF Deliver
    <3> QED
      BY <2>3, <2>4, <3>1, <3>2 DEF Follows, isHoldSignal
  <2> QED
    BY <2>1, <2>3, <2>4
<1> QED
  BY <1>1, <1>2, <1>3, MarketFeedInvariant, PTL DEF Spec, NeverSettlesUnderVar

-----------------------------------------------------------------------------
(* The facts: counts of standing goals, and what the reducer makes of them. *)

LEMMA ClaimIs ==
    ASSUME FeedOK
    PROVE  /\ \/ spec.claimType = "match_winner" \/ spec.claimType = "comeback"
              \/ spec.claimType = "totals_ou" \/ spec.claimType = "team_scores_n"
              \/ spec.claimType = "btts" \/ spec.claimType = "player_scores_n"
           /\ spec.claimType \in {"match_winner", "comeback", "team_scores_n"} =>
                spec.participant \in 1..2
           /\ spec.comparator = "gte" \/ spec.comparator = "lte" \/ spec.comparator = "eq"
           /\ spec.thresholdHalves \in Nat
           /\ spec.period = "FT" \/ spec.period = "FT_90"
  BY ClaimsAssumption DEF FeedOK

\* The goals a side, and a player, is credited with in the claim's period.
SideSet(truth, side) == {g \in truth.goals : InPeriod(g) /\ g.participant = side}
PlayerSet(truth) == {g \in truth.goals : InPeriod(g) /\ g.player = spec.player /\ ~g.own}
PlayerCount(truth) == Cardinality(PlayerSet(truth))

LEMMA CountsAre ==
    \A truth, s : CountedGoals(truth, s) = Cardinality(SideSet(truth, s))
  BY DEF CountedGoals, SideSet

LEMMA CountsNat ==
    ASSUME NEW b, MatchOK(b)
    PROVE  /\ \A s : CountedGoals(b, s) \in Nat
           /\ PlayerCount(b) \in Nat
<1>1. IsFiniteSet(b.goals)
  BY DEF MatchOK
<1>2. \A s : SideSet(b, s) \subseteq b.goals
  BY DEF SideSet
<1>3. PlayerSet(b) \subseteq b.goals
  BY DEF PlayerSet
<1>4. \A s : IsFiniteSet(SideSet(b, s))
  BY <1>1, <1>2, FS_Subset
<1>5. IsFiniteSet(PlayerSet(b))
  BY <1>1, <1>3, FS_Subset
<1> QED
  BY <1>4, <1>5, FS_CardinalityType, CountsAre DEF PlayerCount

\* Goals only add to the counts.
LEMMA CountsGrow ==
    ASSUME NEW a, NEW b, MatchOK(b), a.goals \subseteq b.goals
    PROVE  /\ \A s : CountedGoals(a, s) <= CountedGoals(b, s)
           /\ PlayerCount(a) <= PlayerCount(b)
<1>1. IsFiniteSet(b.goals)
  BY DEF MatchOK
<1>2. \A s : SideSet(b, s) \subseteq b.goals
  BY DEF SideSet
<1>3. PlayerSet(b) \subseteq b.goals
  BY DEF PlayerSet
<1>4. \A s : IsFiniteSet(SideSet(b, s))
  BY <1>1, <1>2, FS_Subset
<1>5. IsFiniteSet(PlayerSet(b))
  BY <1>1, <1>3, FS_Subset
<1>6. \A s : SideSet(a, s) \subseteq SideSet(b, s)
  BY DEF SideSet
<1>7. PlayerSet(a) \subseteq PlayerSet(b)
  BY DEF PlayerSet
<1>8. \A s : Cardinality(SideSet(a, s)) <= Cardinality(SideSet(b, s))
  BY <1>4, <1>6, FS_Subset
<1>9. Cardinality(PlayerSet(a)) <= Cardinality(PlayerSet(b))
  BY <1>5, <1>7, FS_Subset
<1> QED
  BY <1>8, <1>9, CountsAre DEF PlayerCount

\* Goals outside the claim's period do not count.
LEMMA CountsStay ==
    ASSUME NEW a, NEW b, NEW g, b.goals = a.goals \cup {g}, ~InPeriod(g)
    PROVE  /\ \A s : CountedGoals(b, s) = CountedGoals(a, s)
           /\ PlayerCount(b) = PlayerCount(a)
<1>1. \A s : SideSet(b, s) = SideSet(a, s)
  BY DEF SideSet
<1>2. PlayerSet(b) = PlayerSet(a)
  BY DEF PlayerSet
<1> QED
  BY <1>1, <1>2, CountsAre DEF PlayerCount

\* The score of an event tells a side's goals in the period, or nothing.
LEMMA ScoreTells ==
    ASSUME FeedOK, NEW b, MatchOK(b), b.phase # "ABD", NEW side \in 1..2
    PROVE  LET told == goalsForPeriod(buildScoreState(b), side, spec.period, b.phase)
           IN  told = NoSplit \/ told = CountedGoals(b, side)
<1> DEFINE score == buildScoreState(b)
           told == goalsForPeriod(score, side, spec.period, b.phase)
           regulation == {g \in b.goals : g.phase \in REGULATION}
           all == SideGoals(b.goals, side)
           ninety == SideGoals(regulation, side)
<1>1. score.goals[side] = all
  BY DEF buildScoreState
<1>2. score.goals90[side] = IF b.phase \in REGULATION THEN all
                            ELSE IF b.split THEN ninety ELSE NoSplit
  BY DEF buildScoreState
<1>3. spec.period # "FT_90" => SideSet(b, side) = {g \in b.goals : g.participant = side}
  BY DEF SideSet, InPeriod
<1>4. spec.period = "FT_90" => SideSet(b, side) = {g \in regulation : g.participant = side}
  BY DEF SideSet, InPeriod
<1>5. spec.period # "FT_90" => all = CountedGoals(b, side)
  BY <1>3, CountsAre DEF SideGoals
<1>6. spec.period = "FT_90" => ninety = CountedGoals(b, side)
  BY <1>4, CountsAre DEF SideGoals
<1>7. b.phase \in REGULATION => regulation = b.goals
  <2>1. \A g \in b.goals : g.phase \in GoalPhases
    BY DEF MatchOK, MatchRecords, GoalRecords
  <2>2. b.phase \in REGULATION => \A g \in b.goals : g.phase # "ET1"
    BY DEF MatchOK
  <2> QED
    BY <2>1, <2>2 DEF GoalPhases, REGULATION
<1>8. b.phase \in REGULATION => ninety = all
  BY <1>7
<1> HIDE DEF score, all, ninety, regulation
<1>9. told = score.goals[side] \/ told = score.goals90[side]
  BY DEF goalsForPeriod
<1>10. CASE spec.period # "FT_90"
  <2>1. told = score.goals[side]
    BY <1>10 DEF goalsForPeriod
  <2> QED
    BY <2>1, <1>1, <1>5, <1>10 DEF score
<1>11. CASE spec.period = "FT_90" /\ b.phase \in REGULATION
  BY <1>1, <1>2, <1>6, <1>8, <1>9, <1>11 DEF score
<1>12. CASE spec.period = "FT_90" /\ b.phase \notin REGULATION
  <2>1. b.phase \in BEYOND_REGULATION_PHASES
    BY <1>12 DEF MatchOK, MatchRecords, Phases, REGULATION, BEYOND_REGULATION_PHASES,
                 REGULATION_COMPLETE_PHASES
  <2>2. told = score.goals90[side]
    BY <2>1, <1>12 DEF goalsForPeriod
  <2> QED
    BY <2>2, <1>2, <1>6, <1>12 DEF score
<1> QED
  BY <1>10, <1>11, <1>12

\* The ledger tells a player's goals.
LEMMA LedgerTells ==
    ASSUME NEW b, MatchOK(b), NEW scratch, scratch.goals = Ledger(b.goals)
    PROVE  playerGoalCount(scratch, spec) = PlayerCount(b)
<1> DEFINE counted == {x \in scratch.goals :
                         /\ x.player = spec.player
                         /\ ~x.own
                         /\ x.phase # "PE"
                         /\ spec.period = "FT_90" => x.phase \in {"H1", "HT", "H2"}}
<1>1. playerGoalCount(scratch, spec) = Cardinality(counted)
  BY DEF playerGoalCount
<1>2. \A g \in b.goals : g.phase = "H1" \/ g.phase = "H2" \/ g.phase = "ET1"
  BY DEF MatchOK, MatchRecords, GoalRecords, GoalPhases
<1>3. \A g \in b.goals : Entry(g) \in counted <=> g \in PlayerSet(b)
  <2> TAKE g \in b.goals
  <2>1. Entry(g) \in scratch.goals
    BY DEF Ledger
  <2>2. /\ Entry(g).player = g.player /\ Entry(g).own = g.own /\ Entry(g).phase = g.phase
    BY EntryFields
  <2>3. InPeriod(g) <=> (spec.period = "FT_90" => g.phase \in {"H1", "HT", "H2"})
    BY <1>2 DEF InPeriod, REGULATION
  <2>4. g.phase # "PE"
    BY <1>2
  <2> QED
    BY <2>1, <2>2, <2>3, <2>4 DEF PlayerSet
<1>4. \A x \in counted : \E g \in PlayerSet(b) : x = Entry(g)
  <2> TAKE x \in counted
  <2>1. PICK g \in b.goals : x = Entry(g)
    BY DEF Ledger
  <2> QED
    BY <2>1, <1>3
<1> HIDE DEF counted
<1>5. PlayerSet(b) \subseteq b.goals
  BY DEF PlayerSet
<1>6. \A g, h \in PlayerSet(b) : Entry(g) = Entry(h) => g = h
  <2> TAKE g, h \in PlayerSet(b)
  <2>1. Entry(g) = Entry(h) => g.first = h.first
    BY EntryFields
  <2> QED
    BY <2>1, <1>5 DEF MatchOK
<1> DEFINE f == [g \in PlayerSet(b) |-> Entry(g)]
<1>7. f \in Bijection(PlayerSet(b), counted)
  <2>1. f \in [PlayerSet(b) -> counted]
    BY <1>3, <1>5
  <2>2. f \in Injection(PlayerSet(b), counted)
    BY <2>1, <1>6 DEF Injection, IsInjective
  <2>3. f \in Surjection(PlayerSet(b), counted)
    BY <2>1, <1>4 DEF Surjection
  <2> QED
    BY <2>2, <2>3 DEF Bijection
<1>8. ExistsBijection(PlayerSet(b), counted)
  BY <1>7 DEF ExistsBijection
<1>9. IsFiniteSet(PlayerSet(b))
  BY <1>5, FS_Subset DEF MatchOK
<1>10. Cardinality(counted) = Cardinality(PlayerSet(b))
  BY <1>8, <1>9, FS_Bijection
<1> QED
  BY <1>1, <1>10 DEF PlayerCount

\* The tally of the facts, for the claims that compare one.
LEMMA FactTallyIs ==
    ASSUME NEW b
    PROVE  /\ spec.claimType = "totals_ou" => FactTally(b) = CountedGoals(b, 1) + CountedGoals(b, 2)
           /\ spec.claimType = "team_scores_n" => FactTally(b) = CountedGoals(b, spec.participant)
           /\ spec.claimType = "player_scores_n" => FactTally(b) = PlayerCount(b)
  BY DEF FactTally, PlayerCount, PlayerSet

TallyClaims == {"totals_ou", "team_scores_n", "player_scores_n"}

LEMMA TallyHolds ==
    ASSUME NEW b, spec.claimType \in TallyClaims
    PROVE  /\ spec.comparator = "gte" => (ClaimHolds(b) <=> 2 * FactTally(b) >= spec.thresholdHalves)
           /\ spec.comparator = "lte" => (ClaimHolds(b) <=> 2 * FactTally(b) <= spec.thresholdHalves)
           /\ spec.comparator = "eq" => (ClaimHolds(b) <=> 2 * FactTally(b) = spec.thresholdHalves)
<1> DEFINE v == 2 * FactTally(b)
<1> HIDE DEF v
<1>1. ClaimHolds(b) <=> CASE spec.comparator = "gte" -> v >= spec.thresholdHalves
                          [] spec.comparator = "lte" -> v <= spec.thresholdHalves
                          [] spec.comparator = "eq" -> v = spec.thresholdHalves
  BY DEF ClaimHolds, TallyClaims, v
<1> QED
  BY <1>1 DEF v

\* The period of the claim is over when the feed's phase says so.
LEMMA CompleteIsOver ==
    ASSUME NEW b, MatchOK(b), isPeriodComplete(spec.period, b.phase)
    PROVE  PeriodOver(b)
<1>1. b.phase \in Phases
  BY DEF MatchOK, MatchRecords
<1>2. CASE spec.period = "FT_90"
  BY <1>1, <1>2 DEF isPeriodComplete, REGULATION_COMPLETE_PHASES, PeriodOver, Phases
<1>3. CASE spec.period # "FT_90"
  <2>1. b.phase = "F" \/ b.phase = "FET" \/ b.phase = "FPE"
    BY <1>3 DEF isPeriodComplete, TERMINAL_PHASES
  <2>2. NextPhase[b.phase] = {}
    BY <2>1 DEF NextPhase
  <2> QED
    BY <1>3, <2>2 DEF PeriodOver, Over
<1> QED
  BY <1>2, <1>3

\* A tally that compareTally decides is decided by the facts.
LEMMA TallyDecides ==
    ASSUME FeedOK, NEW b, MatchOK(b), spec.claimType \in TallyClaims, NEW tally \in Nat,
           FactTally(b) = tally, tallyOutcome(spec, tally, b.phase) \in Won
    PROVE  FactsDecide(b, tallyOutcome(spec, tally, b.phase))
<1> DEFINE complete == isPeriodComplete(spec.period, b.phase)
           t == spec.thresholdHalves
           v == 2 * tally
           o == tallyOutcome(spec, tally, b.phase)
<1>1. tally # NoSplit
  BY DEF NoSplit
<1>2. o = compareTally(tally, spec, complete)
  BY <1>1 DEF tallyOutcome
<1>3. v \in Nat /\ t \in Nat /\ v = 2 * FactTally(b)
  BY ClaimIs
<1>4. spec.comparator = "gte" \/ spec.comparator = "lte" \/ spec.comparator = "eq"
  BY ClaimIs
<1> HIDE DEF v, t, o, complete
<1>5. /\ spec.comparator = "gte" => (ClaimHolds(b) <=> v >= t)
      /\ spec.comparator = "lte" => (ClaimHolds(b) <=> v <= t)
      /\ spec.comparator = "eq" => (ClaimHolds(b) <=> v = t)
  BY <1>3, TallyHolds DEF t
<1> DEFINE holds == CASE spec.comparator = "gte" -> v >= t
                      [] spec.comparator = "lte" -> v <= t
                      [] spec.comparator = "eq"  -> v = t
           final == IF spec.comparator = "gte" THEN v >= t ELSE v > t
<1>6. o = IF ~complete /\ ~final THEN NoOutcome ELSE IF holds THEN "claim_won" ELSE "claim_lost"
  BY <1>2 DEF compareTally, v, t
<1>7. holds <=> ClaimHolds(b)
  BY <1>4, <1>5
<1>8. o \in Won
  BY DEF o
<1> HIDE DEF holds
<1>9. complete \/ final
  BY <1>6, <1>8 DEF Won, NoOutcome
<1>10. o = IF ClaimHolds(b) THEN "claim_won" ELSE "claim_lost"
  BY <1>6, <1>7, <1>9
<1>11. CannotChange(b)
  <2>1. CASE complete
    <3>1. PeriodOver(b)
      BY <2>1, CompleteIsOver DEF complete
    <3> QED
      BY <3>1 DEF CannotChange
  <2>2. CASE final
    <3>1. IF spec.comparator = "gte" THEN ClaimHolds(b) ELSE 2 * FactTally(b) > spec.thresholdHalves
      BY <2>2, <1>3, <1>5 DEF t
    <3> QED
      BY <3>1 DEF CannotChange, TallyClaims
  <2> QED
    BY <2>1, <2>2, <1>9
<1> QED
  BY <1>10, <1>11 DEF FactsDecide, o

LEMMA WinnerDecides ==
    ASSUME FeedOK, NEW b, MatchOK(b), b.phase # "ABD",
           spec.claimType = "match_winner" \/ spec.claimType = "comeback",
           winnerOutcome(spec, buildScoreState(b), b.phase) \in Won
    PROVE  FactsDecide(b, winnerOutcome(spec, buildScoreState(b), b.phase))
<1> DEFINE me == spec.participant
           them == Opponent(me)
           score == buildScoreState(b)
           mine == goalsForPeriod(score, me, spec.period, b.phase)
           theirs == goalsForPeriod(score, them, spec.period, b.phase)
           o == winnerOutcome(spec, score, b.phase)
           complete == isPeriodComplete(spec.period, b.phase)
           level == spec.period = "FT_90" \/ b.phase = "F"
<1>1. me \in 1..2 /\ them \in 1..2 /\ them = 3 - me
  BY ClaimIs DEF Opponent
<1>2. /\ mine = NoSplit \/ mine = CountedGoals(b, me)
      /\ theirs = NoSplit \/ theirs = CountedGoals(b, them)
  BY <1>1, ScoreTells
<1>3. CountedGoals(b, me) \in Nat /\ CountedGoals(b, them) \in Nat
  BY CountsNat
<1>4. o = IF ~complete \/ NoSplit \in {mine, theirs} THEN NoOutcome
          ELSE CASE mine > theirs -> "claim_won"
                 [] mine < theirs -> "claim_lost"
                 [] mine = theirs -> IF level THEN "claim_lost" ELSE NoOutcome
  BY DEF winnerOutcome
<1>5. o \in Won
  OBVIOUS
<1> HIDE DEF o, complete, mine, theirs, level, score
<1>6. complete /\ mine # NoSplit /\ theirs # NoSplit
  BY <1>4, <1>5 DEF Won, NoOutcome
<1>7. mine = CountedGoals(b, me) /\ theirs = CountedGoals(b, them)
  BY <1>2, <1>6
<1>8. \/ mine > theirs /\ o = "claim_won"
      \/ ~(mine > theirs) /\ o = "claim_lost"
  BY <1>3, <1>4, <1>5, <1>6, <1>7 DEF Won, NoOutcome
<1>9. ClaimHolds(b) <=> mine > theirs
  BY <1>1, <1>7 DEF ClaimHolds
<1>10. o = IF ClaimHolds(b) THEN "claim_won" ELSE "claim_lost"
  BY <1>8, <1>9
<1>11. CannotChange(b)
  BY <1>6, CompleteIsOver DEF CannotChange, complete
<1> QED
  BY <1>10, <1>11 DEF FactsDecide, o, score

LEMMA BttsDecides ==
    ASSUME FeedOK, NEW b, MatchOK(b), b.phase # "ABD", spec.claimType = "btts",
           bttsOutcome(spec, buildScoreState(b), b.phase) \in Won
    PROVE  FactsDecide(b, bttsOutcome(spec, buildScoreState(b), b.phase))
<1> DEFINE score == buildScoreState(b)
           one == goalsForPeriod(score, 1, spec.period, b.phase)
           two == goalsForPeriod(score, 2, spec.period, b.phase)
           o == bttsOutcome(spec, score, b.phase)
           complete == isPeriodComplete(spec.period, b.phase)
<1>1. /\ one = NoSplit \/ one = CountedGoals(b, 1)
      /\ two = NoSplit \/ two = CountedGoals(b, 2)
  BY ScoreTells
<1>2. CountedGoals(b, 1) \in Nat /\ CountedGoals(b, 2) \in Nat
  BY CountsNat
<1>3. o = IF one >= 1 /\ two >= 1 THEN "claim_won"
          ELSE IF complete /\ NoSplit \notin {one, two} THEN "claim_lost" ELSE NoOutcome
  BY DEF bttsOutcome
<1>4. o \in Won
  OBVIOUS
<1> HIDE DEF o, complete, one, two, score
<1>5. ClaimHolds(b) <=> CountedGoals(b, 1) > 0 /\ CountedGoals(b, 2) > 0
  BY DEF ClaimHolds
<1>6. CASE one >= 1 /\ two >= 1
  <2>1. ClaimHolds(b) /\ o = "claim_won"
    BY <1>1, <1>2, <1>3, <1>5, <1>6 DEF NoSplit
  <2> QED
    BY <2>1 DEF FactsDecide, CannotChange, o, score
<1>7. CASE ~(one >= 1 /\ two >= 1)
  <2>1. complete /\ one # NoSplit /\ two # NoSplit /\ o = "claim_lost"
    BY <1>3, <1>4, <1>7 DEF Won, NoOutcome
  <2>2. ~ClaimHolds(b)
    BY <2>1, <1>1, <1>2, <1>5, <1>7
  <2>3. CannotChange(b)
    BY <2>1, CompleteIsOver DEF CannotChange, complete
  <2> QED
    BY <2>1, <2>2, <2>3 DEF FactsDecide, o, score
<1> QED
  BY <1>6, <1>7

\* An outcome of the settlement predicate is the outcome of the facts.
LEMMA OutcomeDecides ==
    ASSUME FeedOK, NEW b, MatchOK(b), NEW scratch,
           spec.claimType = "player_scores_n" => scratch.goals = Ledger(b.goals), NEW ev,
           ev.phase = b.phase, ev.score = buildScoreState(b), OutcomeOn(spec, scratch, ev) \in Won
    PROVE  FactsDecide(b, OutcomeOn(spec, scratch, ev))
<1> DEFINE score == buildScoreState(b)
           count == playerGoalCount(scratch, spec)
           o == OutcomeOn(spec, scratch, ev)
           one == goalsForPeriod(score, 1, spec.period, b.phase)
           two == goalsForPeriod(score, 2, spec.period, b.phase)
           g == [side \in 1..2 |-> goalsForPeriod(score, side, spec.period, b.phase)]
           total == IF NoSplit \in {one, two} THEN NoSplit ELSE one + two
<1>1. o = evaluateSpec(spec, score, b.phase, count)
  BY DEF OutcomeOn
<1>2. g[1] = one /\ g[2] = two
  OBVIOUS
<1>3. o = IF b.phase \in VOID_PHASES THEN "void"
      ELSE CASE spec.claimType \in {"match_winner", "comeback"} -> winnerOutcome(spec, score, b.phase)
             [] spec.claimType = "totals_ou" -> tallyOutcome(spec, total, b.phase)
             [] spec.claimType = "team_scores_n" -> tallyOutcome(spec, g[spec.participant], b.phase)
             [] spec.claimType = "btts" -> bttsOutcome(spec, score, b.phase)
             [] spec.claimType = "player_scores_n" -> tallyOutcome(spec, count, b.phase)
  BY <1>1, <1>2 DEF evaluateSpec
<1>4. o \in Won
  OBVIOUS
<1>5. spec.claimType = "player_scores_n" => count = PlayerCount(b) /\ count \in Nat
  BY LedgerTells, CountsNat
<1>6. \A side \in 1..2 : g[side] = NoSplit \/ g[side] = CountedGoals(b, side)
  <2>1. \A side \in 1..2 : g[side] = goalsForPeriod(score, side, spec.period, b.phase)
    OBVIOUS
  <2>2. b.phase # "ABD"
    BY <1>3, <1>4 DEF VOID_PHASES, Won
  <2> QED
    BY <2>1, <2>2, ScoreTells
<1>7. total = IF NoSplit \in {g[1], g[2]} THEN NoSplit ELSE g[1] + g[2]
  BY <1>2
<1> HIDE DEF o, g, total, one, two, count
<1>8. b.phase \notin VOID_PHASES /\ b.phase # "ABD"
  BY <1>3, <1>4 DEF VOID_PHASES, Won
<1>9. CASE spec.claimType = "match_winner" \/ spec.claimType = "comeback"
  <2>1. o = winnerOutcome(spec, score, b.phase)
    BY <1>3, <1>8, <1>9
  <2> QED
    BY <2>1, <1>4, <1>8, <1>9, WinnerDecides DEF o
<1>10. CASE spec.claimType = "btts"
  <2>1. o = bttsOutcome(spec, score, b.phase)
    BY <1>3, <1>8, <1>10
  <2> QED
    BY <2>1, <1>4, <1>8, <1>10, BttsDecides DEF o
<1>11. ASSUME NEW tally, o = tallyOutcome(spec, tally, b.phase) PROVE tally # NoSplit
  BY <1>4, <1>11 DEF tallyOutcome, Won, NoOutcome
<1>12. CASE spec.claimType = "totals_ou"
  <2>1. o = tallyOutcome(spec, total, b.phase)
    BY <1>3, <1>8, <1>12
  <2>2. total # NoSplit
    BY <2>1, <1>11
  <2>3. total = CountedGoals(b, 1) + CountedGoals(b, 2)
    BY <2>2, <1>6, <1>7
  <2>4. total = FactTally(b) /\ total \in Nat
    BY <2>3, <1>12, FactTallyIs, CountsNat
  <2> QED
    BY <2>1, <2>4, <1>4, <1>12, TallyDecides DEF TallyClaims, o
<1>13. CASE spec.claimType = "team_scores_n"
  <2> DEFINE tally == g[spec.participant]
  <2>1. o = tallyOutcome(spec, tally, b.phase) /\ spec.participant \in 1..2
    BY <1>3, <1>8, <1>13, ClaimIs
  <2>2. tally # NoSplit
    BY <2>1, <1>11
  <2>3. tally = CountedGoals(b, spec.participant)
    BY <2>1, <2>2, <1>6
  <2>4. tally = FactTally(b) /\ tally \in Nat
    BY <2>3, <1>13, FactTallyIs, CountsNat
  <2> HIDE DEF tally
  <2> QED
    BY <2>1, <2>4, <1>4, <1>13, TallyDecides DEF TallyClaims, o
<1>14. CASE spec.claimType = "player_scores_n"
  <2>1. o = tallyOutcome(spec, count, b.phase)
    BY <1>3, <1>8, <1>14
  <2>2. count = FactTally(b) /\ count \in Nat
    BY <1>5, <1>14, FactTallyIs
  <2> QED
    BY <2>1, <2>2, <1>4, <1>14, TallyDecides DEF TallyClaims, o
<1> QED
  BY <1>9, <1>10, <1>12, <1>13, <1>14, ClaimIs

\* A period that is over stays over, and nothing more is scored in it.
LEMMA PeriodStaysOver ==
    ASSUME NEW a, MatchOK(a), NEW e, NEW b, Follows(a, e, b), PeriodOver(a)
    PROVE  /\ PeriodOver(b)
           /\ \A g : g.phase = e.phase /\ Scores(a, e, b) => ~InPeriod(g)
<1>1. a.phase \in Phases /\ PhaseMoves(a.phase, b.phase) /\ e.phase = b.phase
  BY DEF MatchOK, MatchRecords, Follows
<1>2. CASE spec.period = "FT_90"
  <2>1. a.phase \notin {"NS", "H1", "H2"}
    BY <1>2 DEF PeriodOver
  <2>2. b.phase \notin {"NS", "H1", "H2"}
    BY <2>1, <1>1 DEF PhaseMoves, NextPhase, Phases
  <2>3. \A g : g.phase = e.phase /\ Scores(a, e, b) => ~InPeriod(g)
    BY <2>2, <1>1, <1>2 DEF Scores, GoalPhases, InPeriod, REGULATION
  <2> QED
    BY <1>2, <2>2, <2>3 DEF PeriodOver
<1>3. CASE spec.period # "FT_90"
  <2>1. NextPhase[a.phase] = {}
    BY <1>3 DEF PeriodOver, Over
  <2>2. b.phase = a.phase
    BY <2>1, <1>1 DEF PhaseMoves
  <2>3. a.phase \notin GoalPhases
    BY <2>1 DEF NextPhase, GoalPhases
  <2>4. ~Scores(a, e, b)
    BY <1>1, <2>2, <2>3 DEF Scores
  <2> QED
    BY <1>3, <2>1, <2>2, <2>4 DEF PeriodOver, Over
<1> QED
  BY <1>2, <1>3

\* The counts of two records agree.
SameCounts(a, b) ==
    (\A s : CountedGoals(b, s) = CountedGoals(a, s)) /\ PlayerCount(b) = PlayerCount(a)

LEMMA SameFacts ==
    ASSUME FeedOK, NEW a, NEW b, SameCounts(a, b)
    PROVE  /\ ClaimHolds(b) <=> ClaimHolds(a)
           /\ spec.claimType \in TallyClaims => FactTally(b) = FactTally(a)
<1>1. spec.claimType \in TallyClaims => FactTally(b) = FactTally(a)
  BY FactTallyIs DEF SameCounts, TallyClaims
<1>2. CASE spec.claimType = "match_winner" \/ spec.claimType = "comeback"
  BY <1>2, <1>1 DEF ClaimHolds, SameCounts, TallyClaims
<1>3. CASE spec.claimType = "btts"
  BY <1>3, <1>1 DEF ClaimHolds, SameCounts, TallyClaims
<1>4. CASE spec.claimType \in TallyClaims
  BY <1>1, <1>4, TallyHolds, ClaimIs
<1> QED
  BY <1>1, <1>2, <1>3, <1>4, ClaimIs DEF TallyClaims

\* Facts that decide a claim go on deciding it: only a correction can undo them.
LEMMA FactsStay ==
    ASSUME FeedOK, NEW a, MatchOK(a), NEW e, NEW b, MatchOK(b), Follows(a, e, b), ~isReversal(e),
           ~Misreads(a, e, b), NEW o, FactsDecide(a, o)
    PROVE  FactsDecide(b, o)
<1>1. Scores(a, e, b) \/ KeepsGoals(a, e, b)
  BY DEF Follows, Discards, Amends, isReversal
<1>2. CannotChange(a) /\ o = IF ClaimHolds(a) THEN "claim_won" ELSE "claim_lost"
  BY DEF FactsDecide
<1>3. ASSUME SameCounts(a, b) PROVE FactsDecide(b, o)
  <2>1. ClaimHolds(b) <=> ClaimHolds(a)
    BY <1>3, SameFacts
  <2>2. spec.claimType \in TallyClaims => FactTally(b) = FactTally(a)
    BY <1>3, SameFacts
  <2>3. PeriodOver(a) => PeriodOver(b)
    BY PeriodStaysOver
  <2>4. CannotChange(b)
    BY <1>2, <2>1, <2>2, <2>3 DEF CannotChange, TallyClaims
  <2>5. o = IF ClaimHolds(b) THEN "claim_won" ELSE "claim_lost"
    BY <1>2, <2>1
  <2> QED
    BY <2>4, <2>5 DEF FactsDecide
<1>4. CASE KeepsGoals(a, e, b)
  <2>1. SameCounts(a, b)
    BY <1>4 DEF KeepsGoals, SameCounts, CountedGoals, PlayerCount, PlayerSet
  <2> QED
    BY <2>1, <1>3
<1>5. CASE Scores(a, e, b) /\ PeriodOver(a)
  <2>1. PICK g \in b.goals : g.phase = e.phase /\ b.goals = a.goals \cup {g}
    BY <1>5 DEF Scores
  <2>2. ~InPeriod(g)
    BY <2>1, <1>5, PeriodStaysOver
  <2>3. SameCounts(a, b)
    BY <2>1, <2>2, CountsStay DEF SameCounts
  <2> QED
    BY <2>3, <1>3
<1>6. CASE Scores(a, e, b) /\ ~PeriodOver(a)
  <2>1. a.goals \subseteq b.goals
    BY <1>6 DEF Scores
  <2>2. /\ \A s : CountedGoals(a, s) <= CountedGoals(b, s)
        /\ PlayerCount(a) <= PlayerCount(b)
    BY <2>1, CountsGrow
  <2>3. /\ \A s : CountedGoals(a, s) \in Nat /\ CountedGoals(b, s) \in Nat
        /\ PlayerCount(a) \in Nat /\ PlayerCount(b) \in Nat
    BY CountsNat
  <2>4. CASE spec.claimType = "btts"
    <3>1. ClaimHolds(a)
      BY <1>2, <1>6, <2>4 DEF CannotChange
    <3>2. \A s \in 1..2 : CountedGoals(a, s) > 0
      BY <2>4, <3>1 DEF ClaimHolds
    <3>3. \A s \in 1..2 : CountedGoals(b, s) > 0
      BY <2>2, <2>3, <3>2
    <3>4. ClaimHolds(b)
      BY <2>4, <3>3 DEF ClaimHolds
    <3> QED
      BY <1>2, <2>4, <3>1, <3>4 DEF FactsDecide, CannotChange
  <2>5. CASE spec.claimType \in TallyClaims
    <3> DEFINE v == FactTally(a)
               w == FactTally(b)
               t == spec.thresholdHalves
    <3>1. v \in Nat /\ w \in Nat /\ v <= w
      BY <2>2, <2>3, <2>5, FactTallyIs, ClaimIs DEF TallyClaims
    <3>2. t \in Nat
      BY ClaimIs
    <3>3. IF spec.comparator = "gte" THEN ClaimHolds(a) ELSE 2 * v > t
      BY <1>2, <1>6, <2>5 DEF CannotChange, TallyClaims
    <3>4. /\ spec.comparator = "gte" => (ClaimHolds(a) <=> 2 * v >= t)
          /\ spec.comparator = "lte" => (ClaimHolds(a) <=> 2 * v <= t)
          /\ spec.comparator = "eq" => (ClaimHolds(a) <=> 2 * v = t)
      BY <2>5, TallyHolds
    <3>5. /\ spec.comparator = "gte" => (ClaimHolds(b) <=> 2 * w >= t)
          /\ spec.comparator = "lte" => (ClaimHolds(b) <=> 2 * w <= t)
          /\ spec.comparator = "eq" => (ClaimHolds(b) <=> 2 * w = t)
      BY <2>5, TallyHolds
    <3>6. spec.comparator = "gte" \/ spec.comparator = "lte" \/ spec.comparator = "eq"
      BY ClaimIs
    <3> HIDE DEF v, w, t
    <3>7. (ClaimHolds(b) <=> ClaimHolds(a)) /\ IF spec.comparator = "gte" THEN ClaimHolds(b) ELSE 2 * w > t
      BY <3>1, <3>2, <3>3, <3>4, <3>5, <3>6
    <3>8. CannotChange(b)
      BY <2>5, <3>7 DEF CannotChange, TallyClaims, w, t
    <3> QED
      BY <1>2, <3>7, <3>8 DEF FactsDecide
  <2>6. spec.claimType = "btts" \/ spec.claimType \in TallyClaims
    BY <1>2, <1>6 DEF CannotChange, TallyClaims
  <2> QED
    BY <2>4, <2>5, <2>6
<1> QED
  BY <1>1, <1>4, <1>5, <1>6

\* The evidence of a candidate cites the deciding event, standing goals and goals
\* not told in full only.
LEMMA EvidenceStands ==
    ASSUME NEW m, NEW scratch, LedgerOf(scratch.goals, m), NEW claim, NEW seq
    PROVE  buildEvidence(scratch, claim, seq) \subseteq Cited(m) \cup {seq}
<1> SUFFICES ASSUME NEW x \in scratch.goals PROVE x.seq \in Cited(m)
  BY DEF buildEvidence
<1>1. CASE x.seq \in m.untold
  BY <1>1 DEF Cited
<1>2. CASE x.seq \notin m.untold
  <2>1. PICK g \in m.goals : x = Entry(g)
    BY <1>2 DEF LedgerOf, Right
  <2> QED
    BY <2>1, EntryFields DEF Cited
<1> QED
  BY <1>1, <1>2

\* The claim does not change, so neither does what a record says of it.
LEMMA SameClaim ==
    ASSUME FeedOK, spec' = spec, NEW o, FactsDecide(known', o)
    PROVE  FactsDecide(known, o)'
<1>1. \A g : InPeriod(g)' <=> InPeriod(g)
  BY DEF InPeriod
<1>2. \A s : CountedGoals(known, s)' = CountedGoals(known', s)
  BY <1>1 DEF CountedGoals, InPeriod
<1>3. spec.claimType \in TallyClaims => FactTally(known)' = FactTally(known')
  <2>1. Cardinality({g \in known'.goals : InPeriod(g)' /\ g.player = spec'.player /\ ~g.own})
          = Cardinality({g \in known'.goals : InPeriod(g) /\ g.player = spec.player /\ ~g.own})
    BY <1>1
  <2>2. CASE spec.claimType = "totals_ou"
    BY <2>2, <1>1 DEF FactTally, CountedGoals, InPeriod
  <2>3. CASE spec.claimType = "team_scores_n"
    BY <2>3, <1>1 DEF FactTally, CountedGoals, InPeriod
  <2>4. CASE spec.claimType = "player_scores_n"
    BY <2>1, <2>4 DEF FactTally
  <2> QED
    BY <2>2, <2>3, <2>4 DEF TallyClaims
<1>4. ClaimHolds(known)' <=> ClaimHolds(known')
  <2>1. CASE spec.claimType = "match_winner" \/ spec.claimType = "comeback"
    BY <2>1, <1>1 DEF ClaimHolds, CountedGoals, InPeriod
  <2>2. CASE spec.claimType = "btts"
    BY <2>2, <1>1 DEF ClaimHolds, CountedGoals, InPeriod
  <2>3. CASE spec.claimType \in TallyClaims
    BY <2>3, <1>3 DEF ClaimHolds, TallyClaims
  <2> QED
    BY <2>1, <2>2, <2>3, ClaimIs DEF TallyClaims
<1>5. PeriodOver(known)' <=> PeriodOver(known')
  BY DEF PeriodOver
<1>6. CannotChange(known)' <=> CannotChange(known')
  BY <1>3, <1>4, <1>5 DEF CannotChange, TallyClaims
<1> QED
  BY <1>4, <1>6 DEF FactsDecide

\* A candidate stands on the facts of the delivered match: armed on them, and
\* dropped by whatever could take them back.
LEMMA CandidateArms ==
    ASSUME IInv, LedgerOK, Deliver, st'.pending # NoCandidate
    PROVE  /\ Judged(known') => FactsDecide(known', st'.pending.outcome)
           /\ st'.pending.evidence \subseteq Cited(known') \cup {st'.pending.decidingSeq}
<1> DEFINE r == reduceMarket(spec, st, Arrival)
           t == r.effects.terminal
<1>0. FeedOK /\ MarketOK /\ Shape(st) /\ now \in Nat
  BY DEF IInv, FeedOK, MarketOK
<1>1. st' = r.state
  BY DEF Deliver, Apply, Arrival
<1>2. ~Closed(st)
  <2>1. Closed(st) => st' = st
    BY <1>1, ReduceIgnores
  <2> QED
    BY <1>0, <2>1 DEF Closed, Shape
<1>3. ~isStale(st, Arrival)
  BY <1>0, <1>2, ArrivalFresh
<1>4. Follows(known, Arrival, known') /\ MatchOK(known')
  BY <1>0, ArrivalFollows
<1>5. st.status # "pending_lineup"
  <2> SUFFICES ASSUME st.status = "pending_lineup" PROVE FALSE
    OBVIOUS
  <2>1. IsMarket(st) /\ st.pending = NoCandidate
    BY <1>0 DEF Shape
  <2>2. st'.pending = NoCandidate
    BY <1>1, <1>3, <2>1, LineupFields DEF Voids, KeepsCandidate
  <2> QED
    BY <2>2
<1>6. Live(st)
  BY <1>0, <1>2, <1>5, RunningIsLive DEF Shape, Statuses, Closed
<1>7. Leaves(spec, st, Arrival, st', t)
  BY <1>1, <1>3, <1>6, ReduceFields
<1>8. Arms(spec, st, Arrival, st', t)
  BY <1>7 DEF Leaves, Holds, Waits, Voids, Settles
<1> DEFINE o == OutcomeOn(spec, st'.scratch, Arrival)
<1>9. /\ o \in Won /\ st'.status = "settling" /\ st'.pending.outcome = o
      /\ st'.pending.decidingSeq = Arrival.seq
      /\ st'.pending.evidence = buildEvidence(st'.scratch, spec, Arrival.seq)
  BY <1>8 DEF Arms
<1>10. LedgerOf(st'.scratch.goals, known')
  <2>1. LedgerOK'
    BY LedgerStep DEF Next
  <2> QED
    BY <1>9, <2>1 DEF LedgerOK
<1>11. Arrival.phase = known'.phase /\ Arrival.score = buildScoreState(known')
  BY <1>4 DEF Follows
<1> HIDE DEF o
<1>12. Judged(known') => FactsDecide(known', o)
  <2> SUFFICES ASSUME Judged(known') PROVE FactsDecide(known', o)
    OBVIOUS
  <2>1. spec.claimType = "player_scores_n" => st'.scratch.goals = Ledger(known'.goals)
    BY <1>10, FullLedger DEF Judged
  <2> QED
    BY <1>0, <1>4, <1>9, <1>11, <2>1, OutcomeDecides DEF o
<1>13. st'.pending.evidence \subseteq Cited(known') \cup {Arrival.seq}
  BY <1>9, <1>10, EvidenceStands
<1> QED
  BY <1>9, <1>12, <1>13

LEMMA CandidateStep ==
    ASSUME IInv, LedgerOK, CandidateOK, [Next]_vars
    PROVE  CandidateOK'
<1>0. FeedOK /\ MarketOK /\ Shape(st) /\ now \in Nat /\ IsEvent(last)
  BY DEF IInv, FeedOK, MarketOK
<1>1. spec' = spec
  BY DEF Next, Play, marketVars, Deliver, Redeliver, SuspendOdds, ResumeOdds, Tick, Place, PassTime,
         vars
<1> SUFFICES ASSUME st'.pending # NoCandidate
             PROVE  /\ Judged(known') => FactsDecide(known', st'.pending.outcome)
                    /\ st'.pending.evidence \subseteq Cited(known') \cup {st'.pending.decidingSeq}
  <2>1. \A o : FactsDecide(known', o) => FactsDecide(known, o)'
    BY <1>0, <1>1, SameClaim
  <2>2. Judged(known)' <=> Judged(known')
    BY <1>1 DEF Judged
  <2>3. Cited(known)' = Cited(known')
    BY DEF Cited
  <2> QED
    BY <2>1, <2>2, <2>3 DEF CandidateOK
<1>2. ASSUME st'.pending = st.pending, known' = known
      PROVE  /\ Judged(known') => FactsDecide(known', st'.pending.outcome)
             /\ st'.pending.evidence \subseteq Cited(known') \cup {st'.pending.decidingSeq}
  BY <1>2 DEF CandidateOK
<1>3. CASE Deliver
  BY <1>3, CandidateArms
<1>4. CASE SuspendOdds
  <2> DEFINE r == reduceMarket(spec, st, Suspension)
             t == r.effects.terminal
  <2>1. st' = r.state /\ known' = known
    BY <1>4 DEF SuspendOdds, Apply, Suspension
  <2>2. ~isStale(st, Suspension) /\ isHoldSignal(Suspension) /\ Suspension.kind = "odds_suspension"
    BY <1>0, SuspensionHolds, SuspensionIs
  <2>3. CASE Closed(st)
    BY <1>2, <2>1, <2>3, ReduceIgnores
  <2>4. CASE st.status = "pending_lineup"
    <3>1. IsMarket(st) /\ st.pending = NoCandidate
      BY <1>0, <2>4 DEF Shape
    <3>2. st'.pending = NoCandidate
      BY <2>1, <2>2, <2>4, <3>1, LineupFields DEF Voids, KeepsCandidate
    <3> QED
      BY <3>2
  <2>5. CASE ~Closed(st) /\ st.status # "pending_lineup"
    <3>1. Live(st)
      BY <1>0, <2>5, RunningIsLive DEF Shape, Statuses, Closed
    <3>2. Leaves(spec, st, Suspension, st', t)
      BY <2>1, <2>2, <3>1, ReduceFields
    <3> QED
      BY <2>2, <3>2 DEF Leaves, Holds, Waits, Arms, Voids, Settles
  <2> QED
    BY <2>3, <2>4, <2>5
<1>5. CASE Tick
  <2>1. st' = checkDebounce(st, now).state /\ st.pending # NoCandidate /\ known' = known
    BY <1>5 DEF Tick, Apply
  <2>2. Live(st)
    BY <1>0, <2>1, RunningIsLive DEF Shape
  <2>3. st'.pending = NoCandidate \/ st'.pending = st.pending
    BY <2>1, <2>2, DebounceFields DEF KeepsCandidate
  <2> QED
    BY <1>2, <2>1, <2>3
<1>6. CASE Place
  <2>1. KeepsCandidate(st, st') /\ known' = known
    BY <1>0, <1>6, PlaceKeeps DEF Place
  <2> QED
    BY <1>2, <2>1 DEF KeepsCandidate
<1>7. CASE Redeliver
  <2>1. st' = st /\ known' = known
    BY <1>0, <1>7, RedeliverIgnored DEF Redeliver
  <2> QED
    BY <1>2, <2>1
<1>8. CASE Play \/ ResumeOdds \/ PassTime \/ UNCHANGED vars
  <2>1. st' = st /\ known' = known
    BY <1>8 DEF Play, marketVars, ResumeOdds, PassTime, vars
  <2> QED
    BY <1>2, <2>1
<1> QED
  BY <1>3, <1>4, <1>5, <1>6, <1>7, <1>8 DEF Next

\* A market settles only on facts, for any claim, match and interleaving: when it
\* settles, the goals that stand in the delivered feed decide the claim for good,
\* the outcome is theirs and the evidence cites only goals that stand
\* (evaluate.ts and reduce.ts, settleNow and checkDebounce).  However often goals
\* are corrected; a claim on a player's goals is judged on the ledger, and so only
\* where every goal was told in full.
THEOREM SettlesOnFacts == Spec => SettledOnTheFacts
<1>1. Init => CandidateOK
  BY DEF Init, InitMarket, CandidateOK
<1>2. IInv /\ LedgerOK /\ CandidateOK /\ [Next]_vars => CandidateOK'
  BY CandidateStep
<1>3. IInv /\ CandidateOK /\ [Next]_vars =>
        [Decides /\ ~Misread /\ (spec.claimType = "player_scores_n" => known'.untold = {}) =>
           /\ CannotChange(known')
           /\ verdict'.outcome = IF ClaimHolds(known') THEN "claim_won" ELSE "claim_lost"
           /\ verdict'.evidence \subseteq
                {g.first : g \in known'.goals} \cup known'.untold \cup {verdict'.decidingSeq}]_vars
  <2> SUFFICES ASSUME IInv, CandidateOK, [Next]_vars, Decides, ~Misread, Judged(known')
               PROVE  /\ FactsDecide(known', verdict'.outcome)
                      /\ verdict'.evidence \subseteq Cited(known') \cup {verdict'.decidingSeq}
    BY DEF FactsDecide, Judged, Cited
  <2>1. /\ st.pending # NoCandidate /\ verdict' = TerminalOf(st.pending)
        /\ known' = known \/ (Deliver /\ ~isReversal(Arrival))
    BY DecidesFrom
  <2>2. /\ verdict'.outcome = st.pending.outcome /\ verdict'.evidence = st.pending.evidence
        /\ verdict'.decidingSeq = st.pending.decidingSeq
    BY <2>1 DEF TerminalOf
  <2>3. /\ Judged(known) => FactsDecide(known, verdict'.outcome)
        /\ verdict'.evidence \subseteq Cited(known) \cup {verdict'.decidingSeq}
    BY <2>1, <2>2 DEF CandidateOK
  <2>4. CASE Deliver /\ ~isReversal(Arrival)
    <3>1. FeedOK
      BY DEF IInv
    <3>2. Follows(known, Arrival, known') /\ MatchOK(known) /\ MatchOK(known')
      BY <2>4, <3>1, ArrivalFollows
    <3>3. ~Misreads(known, Arrival, known')
      BY <2>4, <3>1, ArrivalFollows DEF Misread, Misreads
    <3>4. known.goals \subseteq known'.goals /\ known.untold \subseteq known'.untold
      BY <2>4, <3>2, <3>3 DEF Follows, Scores, Discards, Amends, KeepsGoals, isReversal
    <3>5. Judged(known)
      BY <3>4 DEF Judged
    <3>6. FactsDecide(known', verdict'.outcome)
      BY <2>3, <2>4, <3>1, <3>2, <3>3, <3>5, FactsStay
    <3>7. Cited(known) \subseteq Cited(known')
      BY <3>4 DEF Cited
    <3> QED
      BY <2>3, <3>6, <3>7
  <2> QED
    BY <2>1, <2>3, <2>4
<1> QED
  BY <1>1, <1>2, <1>3, MarketFeedInvariant, LedgerInvariant, PTL DEF Spec, SettledOnTheFacts

-----------------------------------------------------------------------------
(* A tap made in hindsight never counts. *)

\* What the clock, the taps and a candidate have to do with the undelivered
\* events: none is older than the assumed delay, they are numbered on from the
\* last delivered one, and a candidate was decided by a delivered one.
TapsOK ==
    /\ \A i \in 1..Len(queue) :
         queue[i].event.seq = known.seq + i /\ now <= queue[i].event.ts + ASSUMED_FEED_DELAY
    /\ ~Closed(st) => verdict = NoTerminal
    /\ st.pending # NoCandidate => st.pending.decidingSeq \in 0..known.seq
    /\ \A p \in Positions : st.positions[p].state = "pending" => st.status # "pending_lineup"

LEMMA MarkIs ==
    \A taps \in Taps, p \in Positions : \A S, x :
      /\ p \notin S => Mark(taps, S, x)[p] = taps[p]
      /\ p \in S => Mark(taps, S, x)[p].state = x
<1> SUFFICES ASSUME NEW taps \in Taps, NEW p \in Positions, NEW S, NEW x
             PROVE  /\ p \notin S => Mark(taps, S, x)[p] = taps[p]
                    /\ p \in S => Mark(taps, S, x)[p].state = x
  OBVIOUS
<1>1. DOMAIN taps = Positions
  BY DEF Taps
<1>2. taps[p] \in [state : {"none", "pending", "active", "void"}, placedAt : Nat]
  BY DEF Taps
<1>3. Mark(taps, S, x)[p] = IF p \in S THEN [taps[p] EXCEPT !.state = x] ELSE taps[p]
  BY <1>1 DEF Mark
<1>4. [taps[p] EXCEPT !.state = x].state = x
  BY <1>2
<1> QED
  BY <1>3, <1>4

\* A tap that still waits after a reduction or a tick is the same tap.
LEMMA StillWaiting ==
    ASSUME NEW taps \in Taps, NEW p \in Positions
    PROVE  /\ AllActive(taps)[p].state # "pending"
           /\ \A ev : Guarded(taps, ev)[p].state = "pending" => Guarded(taps, ev)[p] = taps[p]
           /\ \A at : Ripened(taps, at)[p].state = "pending" => Ripened(taps, at)[p] = taps[p]
<1>1. AllActive(taps)[p].state # "pending"
  <2>1. p \in Pending(taps) <=> taps[p].state = "pending"
    BY DEF Pending, Taps
  <2> QED
    BY <2>1, MarkIs DEF AllActive
<1>2. ASSUME NEW ev, Guarded(taps, ev)[p].state = "pending" PROVE Guarded(taps, ev)[p] = taps[p]
  <2> DEFINE one == Mark(taps, Sniped(taps, ev), "void")
             S == Matured(taps, ev.rcv) \ Sniped(taps, ev)
  <2>1. one \in Taps
    BY MarkTyped
  <2>2. Guarded(taps, ev) = Mark(one, S, "active")
    BY DEF Guarded
  <2> HIDE DEF S
  <2>3. p \notin S /\ Guarded(taps, ev)[p] = one[p]
    <3> HIDE DEF one
    <3> QED
      BY <1>2, <2>1, <2>2, MarkIs
  <2>4. one[p].state = "pending"
    BY <1>2, <2>3
  <2>5. p \notin Sniped(taps, ev) /\ one[p] = taps[p]
    BY <2>4, MarkIs
  <2> QED
    BY <2>3, <2>5
<1>3. ASSUME NEW at, Ripened(taps, at)[p].state = "pending" PROVE Ripened(taps, at)[p] = taps[p]
  BY <1>3, MarkIs DEF Ripened
<1> QED
  BY <1>1, <1>2, <1>3

\* A tap within its window: the guards void it or leave it alone.
LEMMA WithinWindow ==
    ASSUME NEW taps \in Taps, NEW p \in Positions, taps[p].state = "pending", NEW at \in Nat,
           at < taps[p].placedAt + PENDING_TAP_WINDOW
    PROVE  /\ Ripened(taps, at)[p] = taps[p]
           /\ \A ev : ev.rcv = at =>
                IF isPriceMoving(ev) /\ taps[p].placedAt > ev.ts
                THEN Guarded(taps, ev)[p].state = "void"
                ELSE Guarded(taps, ev)[p] = taps[p]
<1>0. taps[p].placedAt \in Nat /\ PENDING_TAP_WINDOW \in Nat /\ p \in Pending(taps)
  BY DelaysAssumption DEF Taps, PENDING_TAP_WINDOW, Pending
<1>1. p \notin Matured(taps, at)
  <2>1. ~(at >= taps[p].placedAt + PENDING_TAP_WINDOW)
    BY <1>0
  <2> QED
    BY <2>1 DEF Matured
<1>2. Ripened(taps, at)[p] = taps[p]
  BY <1>1, MarkIs DEF Ripened
<1>3. ASSUME NEW ev, ev.rcv = at
      PROVE  IF isPriceMoving(ev) /\ taps[p].placedAt > ev.ts
             THEN Guarded(taps, ev)[p].state = "void"
             ELSE Guarded(taps, ev)[p] = taps[p]
  <2> DEFINE one == Mark(taps, Sniped(taps, ev), "void")
             S == Matured(taps, ev.rcv) \ Sniped(taps, ev)
  <2>1. one \in Taps
    BY MarkTyped
  <2>2. Guarded(taps, ev) = Mark(one, S, "active") /\ p \notin S
    BY <1>1, <1>3 DEF Guarded
  <2>3. p \in Sniped(taps, ev) <=> isPriceMoving(ev) /\ taps[p].placedAt > ev.ts
    BY <1>0 DEF Sniped
  <2>4. /\ p \in Sniped(taps, ev) => one[p].state = "void"
        /\ p \notin Sniped(taps, ev) => one[p] = taps[p]
    BY MarkIs
  <2> HIDE DEF one, S
  <2>5. Guarded(taps, ev)[p] = one[p]
    BY <2>1, <2>2, MarkIs
  <2> QED
    BY <2>3, <2>4, <2>5
<1> QED
  BY <1>2, <1>3

\* A step of the match appends one event, the next in number, that happens now.
Queued(x) ==
    /\ queue' = Append(queue, x) /\ UNCHANGED now
    /\ x.event.ts = now /\ x.event.seq = match.seq + 1

LEMMA PublishQueues ==
    \A kind, confirmed, m, who, reverses :
      Publish(kind, confirmed, m, who, reverses) => \E x : Queued(x)
<1> SUFFICES ASSUME NEW kind, NEW confirmed, NEW m, NEW who, NEW reverses,
                    Publish(kind, confirmed, m, who, reverses)
             PROVE  \E x : Queued(x)
  OBVIOUS
<1> DEFINE s == match.seq + 1
           b == [m EXCEPT !.seq = s]
           e == [kind |-> kind, seq |-> s, ts |-> now, rcv |-> now, confirmed |-> confirmed,
                 phase |-> m.phase, late |-> m.late, score |-> buildScoreState(m),
                 participant |-> who.participant, player |-> who.player, own |-> who.own,
                 reverses |-> reverses]
           x == [event |-> e, truth |-> b]
<1>1. queue' = Append(queue, x) /\ now' = now
  BY DEF Publish
<1>2. x.event.ts = now /\ x.event.seq = match.seq + 1
  OBVIOUS
<1> HIDE DEF x
<1> QED
  BY <1>1, <1>2 DEF Queued

LEMMA PlayQueues == ASSUME Play PROVE \E x : Queued(x)
<1>1. MatchStep
  BY DEF Play
<1>2. \E kind, confirmed, m, who, reverses : Publish(kind, confirmed, m, who, reverses)
  <2>1. CASE Discard \/ Amend
    <3>1. \E kind, g, goals, who : Corrects(kind, g, goals, who)
      BY <2>1, Zenon DEF Discard, Amend
    <3>2. ASSUME NEW kind, NEW g, NEW goals, NEW who, Corrects(kind, g, goals, who)
          PROVE  \E k, confirmed, m, w, reverses : Publish(k, confirmed, m, w, reverses)
      BY <3>2, Zenon DEF Corrects
    <3> QED
      BY <3>1, <3>2, Zenon
  <2>2. CASE ~(Discard \/ Amend)
    BY <1>1, <2>2, Zenon DEF MatchStep, ChangePhase, Goal, UnnamedGoal, UnconfirmedGoal, VarCheck,
       VarEnd, PossibleEvent, RedCard, Update, RunLate, Lineup, Abandon, CoverageLost
  <2> QED
    BY <2>1, <2>2
<1> QED
  BY <1>2, PublishQueues

LEMMA CandidateEnds == \A c : c.outcome \in Won =>
                         TerminalOf(c) # NoTerminal /\ TerminalOf(c).outcome # "void"
  BY DEF TerminalOf, Won, NoTerminal, NoOutcome

\* What a reduction leaves of the taps, of the candidate and of the verdict.
LEMMA ReduceTaps ==
    ASSUME IInv, TapsOK, NEW ev, Apply(reduceMarket(spec, st, ev)), ~Closed(st) => ~isStale(st, ev)
    PROVE  /\ st'.pending # NoCandidate => st'.pending.decidingSeq = ev.seq
           /\ isHoldSignal(ev) => st'.pending = NoCandidate
           /\ ~Closed(st') => verdict' = NoTerminal
           /\ \A p \in Positions : st'.positions[p].state = "pending" => st'.status # "pending_lineup"
<1> DEFINE t == reduceMarket(spec, st, ev).effects.terminal
<1>0. Shape(st) /\ st.positions \in Taps /\ IsMarket(st)
  BY DEF IInv, MarketOK, Shape
<1>1. /\ st' = reduceMarket(spec, st, ev).state
      /\ verdict' = IF t = NoTerminal THEN verdict ELSE t
  BY DEF Apply
<1>2. CASE Closed(st)
  <2>1. st' = st
    BY <1>1, <1>2, ReduceIgnores
  <2>2. st.status # "pending_lineup" /\ st.pending = NoCandidate
    BY <1>0, <1>2 DEF Closed, Shape
  <2> QED
    BY <1>2, <2>1, <2>2
<1>3. CASE st.status = "pending_lineup"
  <2>1. ~isStale(st, ev) /\ st.pending = NoCandidate /\ ~Closed(st)
    BY <1>0, <1>3 DEF Closed, Shape
  <2>2. \/ Voids(st', t) /\ st'.positions = st.positions
        \/ t = NoTerminal /\ st'.pending = st.pending /\ st'.positions = st.positions
        \/ t = NoTerminal /\ st'.pending = st.pending /\ st'.positions = AllActive(st.positions)
    BY <1>0, <1>1, <1>3, <2>1, LineupFields DEF KeepsCandidate, KeepsTaps
  <2>3. \A p \in Positions : st.positions[p].state # "pending"
    BY <1>3 DEF TapsOK
  <2>4. \A p \in Positions : AllActive(st.positions)[p].state # "pending"
    BY <1>0, StillWaiting
  <2>5. verdict = NoTerminal
    BY <2>1 DEF TapsOK
  <2> QED
    BY <1>1, <2>1, <2>2, <2>3, <2>4, <2>5 DEF Voids, Closed
<1>4. CASE ~Closed(st) /\ st.status # "pending_lineup"
  <2>1. Live(st) /\ verdict = NoTerminal
    BY <1>0, <1>4, RunningIsLive DEF Shape, Statuses, Closed, TapsOK
  <2>2. Leaves(spec, st, ev, st', t)
    BY <1>1, <1>4, <2>1, ReduceFields
  <2>3. st'.status # "pending_lineup"
    BY <2>2, LeavesShape
  <2>4. /\ st'.pending # NoCandidate => st'.pending.decidingSeq = ev.seq
        /\ isHoldSignal(ev) => st'.pending = NoCandidate
    BY <2>2 DEF Leaves, Holds, Waits, Arms, Voids, Settles
  <2>5. ~Closed(st') => t = NoTerminal
    BY <2>2 DEF Leaves, Holds, Waits, Arms, Voids, Settles, Closed
  <2> QED
    BY <1>1, <2>1, <2>3, <2>4, <2>5
<1> QED
  BY <1>2, <1>3, <1>4

\* A tap within its window is voided by a delivery it was made in hindsight of,
\* and otherwise waits on until a market that had its candidate already settles.
LEMMA ReduceSpares ==
    ASSUME IInv, TapsOK, NEW ev, ev.rcv = now, Apply(reduceMarket(spec, st, ev)),
           ~Closed(st) => ~isStale(st, ev), NEW p \in Positions, st.positions[p].state = "pending",
           now < st.positions[p].placedAt + PENDING_TAP_WINDOW
    PROVE  \/ st'.positions[p].state = "void"
           \/ st'.positions[p] = st.positions[p] /\ Closed(st')
           \/ /\ st'.positions[p] = st.positions[p]
              /\ ~(isPriceMoving(ev) /\ st.positions[p].placedAt > ev.ts)
           \/ /\ Closed(st') /\ Decides /\ ~isHoldSignal(ev) /\ st.pending # NoCandidate
              /\ verdict'.decidingSeq = st.pending.decidingSeq
<1> DEFINE r == reduceMarket(spec, st, ev)
           t == r.effects.terminal
<1>0. Shape(st) /\ st.positions \in Taps /\ now \in Nat /\ st.status # "pending_lineup"
  BY DEF IInv, MarketOK, Shape, FeedOK, TapsOK
<1>1. st' = r.state /\ verdict' = IF t = NoTerminal THEN verdict ELSE t
  BY DEF Apply
<1>2. CASE Closed(st)
  <2>1. st' = st
    BY <1>1, <1>2, ReduceIgnores
  <2> QED
    BY <1>2, <2>1
<1>3. CASE ~Closed(st)
  <2> DEFINE g == Guarded(st.positions, ev)
             sniped == isPriceMoving(ev) /\ st.positions[p].placedAt > ev.ts
  <2>1. Live(st) /\ verdict = NoTerminal
    BY <1>0, <1>3, RunningIsLive DEF Shape, Statuses, Closed, TapsOK
  <2>2. Leaves(spec, st, ev, st', t)
    BY <1>1, <1>3, <2>1, ReduceFields
  <2>3. \/ st'.positions = g
        \/ st'.status = "voided" /\ st'.positions = st.positions
        \/ st'.status = "settled" /\ st'.positions = AllActive(g)
    BY <1>1, <1>3, <2>1, ReduceFields
  <2>4. IF sniped THEN g[p].state = "void" ELSE g[p] = st.positions[p]
    BY <1>0, WithinWindow
  <2> HIDE DEF g, t
  <2>5. ASSUME st'.status = "settled"
        PROVE  /\ Closed(st') /\ Decides /\ ~isHoldSignal(ev) /\ st.pending # NoCandidate
               /\ verdict'.decidingSeq = st.pending.decidingSeq
    <3>1. Settles(st, ev, st', t)
      BY <2>2, <2>5 DEF Leaves, Holds, Waits, Arms, Voids
    <3>2. t = TerminalOf(st.pending) /\ st.pending # NoCandidate /\ ~isHoldSignal(ev)
      BY <3>1 DEF Settles
    <3>3. st.pending.outcome \in Won
      BY <1>0, <3>2 DEF Shape
    <3>4. t # NoTerminal /\ t.outcome # "void"
      BY <3>2, <3>3, CandidateEnds
    <3>5. verdict' = t /\ t.decidingSeq = st.pending.decidingSeq
      BY <1>1, <3>2, <3>4 DEF TerminalOf
    <3>6. Closed(st')
      BY <2>5 DEF Closed
    <3> QED
      BY <2>1, <3>2, <3>4, <3>5, <3>6 DEF Decides
  <2>6. st'.status = "voided" => Closed(st')
    BY DEF Closed
  <2> QED
    BY <2>3, <2>4, <2>5, <2>6
<1> QED
  BY <1>2, <1>3

LEMMA TapsInit == ASSUME Init PROVE TapsOK
<1>1. /\ queue = <<>> /\ st.pending = NoCandidate /\ st.positions = [p \in Positions |-> NotPlaced]
      /\ verdict = NoTerminal
  BY DEF Init, InitFeed, InitMarket
<1>2. Len(queue) = 0
  BY <1>1
<1>3. \A p \in Positions : st.positions[p].state = "none"
  BY <1>1 DEF NotPlaced
<1> QED
  BY <1>1, <1>2, <1>3 DEF TapsOK

\* The undelivered events: what a step of the match, a delivery and the passing
\* of time leave of them.
LEMMA QueueKeeps ==
    ASSUME IInv, TapsOK, [Next]_vars
    PROVE  \A i \in 1..Len(queue') :
             queue'[i].event.seq = known'.seq + i /\ now' <= queue'[i].event.ts + ASSUMED_FEED_DELAY
<1>0. /\ now \in Nat /\ ASSUMED_FEED_DELAY \in Nat /\ known.seq \in Nat
      /\ \A i \in 1..Len(queue) :
           /\ queue[i].event.ts \in Nat /\ queue[i].truth.seq = queue[i].event.seq
           /\ queue[i].event.seq = known.seq + i
           /\ now <= queue[i].event.ts + ASSUMED_FEED_DELAY
  BY DelaysAssumption DEF IInv, FeedOK, TapsOK, Follows, MatchOK, MatchRecords
<1>1. PICK S : queue \in Seq(S)
  BY DEF IInv, FeedOK
<1>2. CASE Play
  <2>1. PICK x : Queued(x)
    BY <1>2, PlayQueues
  <2>2. queue' = Append(queue, x) /\ x.event.ts = now /\ x.event.seq = match.seq + 1 /\ now' = now
    BY <2>1 DEF Queued
  <2>3. /\ Len(queue') = Len(queue) + 1 /\ Len(queue) \in Nat
        /\ \A i \in 1..Len(queue) : queue'[i] = queue[i]
        /\ queue'[Len(queue) + 1] = x
    <3>1. queue \in Seq(S \cup {x}) /\ x \in S \cup {x}
      BY <1>1
    <3> QED
      BY <2>2, <3>1, AppendProperties
  <2>4. known' = known
    BY <1>2 DEF Play, marketVars
  <2>5. match.seq = known.seq + Len(queue)
    <3>1. match = Told(Len(queue))
      BY DEF IInv, FeedOK
    <3>2. CASE Len(queue) = 0
      BY <1>0, <3>1, <3>2 DEF Told
    <3>3. CASE Len(queue) # 0
      <4>1. Len(queue) \in 1..Len(queue) /\ match = queue[Len(queue)].truth
        BY <2>3, <3>1, <3>3 DEF Told
      <4> QED
        BY <1>0, <4>1
    <3> QED
      BY <3>2, <3>3
  <2>6. ASSUME NEW i \in 1..Len(queue')
        PROVE  queue'[i].event.seq = known'.seq + i /\ now' <= queue'[i].event.ts + ASSUMED_FEED_DELAY
    <3>1. i \in 1..Len(queue) \/ i = Len(queue) + 1
      BY <2>3
    <3>2. CASE i \in 1..Len(queue)
      BY <1>0, <2>2, <2>3, <2>4, <3>2
    <3>3. CASE i = Len(queue) + 1
      <4>1. /\ queue'[i] = x /\ x.event.ts = now /\ x.event.seq = match.seq + 1
            /\ now' = now /\ known' = known
        BY <2>2, <2>3, <2>4, <3>3
      <4>2. match.seq + 1 = known.seq + i
        BY <1>0, <2>3, <2>5, <3>3
      <4>3. now <= now + ASSUMED_FEED_DELAY
        BY <1>0
      <4> QED
        BY <4>1, <4>2, <4>3, Zenon
    <3> QED
      BY <3>1, <3>2, <3>3
  <2> QED
    BY <2>6
<1>3. CASE Deliver
  <2>1. queue # <<>> /\ queue' = Tail(queue) /\ now' = now /\ known' = Head(queue).truth
    BY <1>3 DEF Deliver
  <2>2. /\ Len(queue') = Len(queue) - 1 /\ Len(queue) \in Nat /\ Head(queue) = queue[1]
        /\ 1 \in 1..Len(queue)
        /\ \A i \in 1..Len(queue') : queue'[i] = queue[i + 1] /\ i + 1 \in 1..Len(queue)
    BY <1>1, <2>1
  <2>3. known'.seq = known.seq + 1
    BY <1>0, <2>1, <2>2
  <2>4. ASSUME NEW i \in 1..Len(queue')
        PROVE  queue'[i].event.seq = known'.seq + i /\ now' <= queue'[i].event.ts + ASSUMED_FEED_DELAY
    <3>1. queue'[i] = queue[i + 1] /\ i + 1 \in 1..Len(queue) /\ i \in Nat
      BY <2>2
    <3>2. /\ queue[i + 1].event.seq = known.seq + (i + 1)
          /\ now <= queue[i + 1].event.ts + ASSUMED_FEED_DELAY
      BY <1>0, <3>1
    <3>3. known.seq + (i + 1) = known'.seq + i
      <4>1. known.seq \in Nat /\ i \in Nat
        BY <1>0, <3>1
      <4>2. known.seq + (i + 1) = (known.seq + 1) + i
        BY <4>1
      <4> QED
        BY <2>3, <4>2, Zenon
    <3>4. now' = now
      BY <2>1
    <3> QED
      BY <3>1, <3>2, <3>3, <3>4, Zenon
  <2> QED
    BY <2>4
<1>4. CASE PassTime
  <2>1. queue' = queue /\ now' = now + 1 /\ known' = known
    BY <1>4 DEF PassTime
  <2>2. \A i \in 1..Len(queue) : now < queue[i].event.ts + ASSUMED_FEED_DELAY
    BY <1>1, <1>4 DEF PassTime
  <2>3. \A i \in 1..Len(queue) : now + 1 <= queue[i].event.ts + ASSUMED_FEED_DELAY
    BY <1>0, <2>2
  <2> QED
    BY <1>0, <2>1, <2>3
<1>5. CASE Redeliver \/ SuspendOdds \/ ResumeOdds \/ Tick \/ Place \/ UNCHANGED vars
  <2>1. queue' = queue /\ now' = now /\ known' = known
    BY <1>5 DEF Redeliver, SuspendOdds, ResumeOdds, Tick, Place, vars
  <2> QED
    BY <1>0, <2>1
<1> QED
  BY <1>2, <1>3, <1>4, <1>5 DEF Next

LEMMA TapsStep ==
    ASSUME IInv, TapsOK, [Next]_vars
    PROVE  TapsOK'
<1>0. /\ FeedOK /\ MarketOK /\ Shape(st) /\ st.positions \in Taps /\ IsEvent(last) /\ known.seq \in Nat
  BY DEF IInv, FeedOK, MarketOK, Shape, MatchOK, MatchRecords
<1> SUFFICES /\ ~Closed(st') => verdict' = NoTerminal
             /\ st'.pending # NoCandidate => st'.pending.decidingSeq \in 0..known'.seq
             /\ \A p \in Positions : st'.positions[p].state = "pending" => st'.status # "pending_lineup"
  BY QueueKeeps DEF TapsOK
<1>1. CASE Deliver
  <2>1. Apply(reduceMarket(spec, st, Arrival))
    BY <1>1 DEF Deliver, Arrival
  <2>2. ~Closed(st) => ~isStale(st, Arrival)
    BY <1>0, <1>1, ArrivalFresh
  <2>3. Arrival.seq = known'.seq /\ known'.seq \in Nat
    BY <1>0, <1>1, ArrivalFollows DEF Follows, MatchOK, MatchRecords
  <2>4. st'.pending # NoCandidate => st'.pending.decidingSeq = Arrival.seq
    BY <2>1, <2>2, ReduceTaps
  <2>5. /\ ~Closed(st') => verdict' = NoTerminal
        /\ \A p \in Positions : st'.positions[p].state = "pending" => st'.status # "pending_lineup"
    BY <2>1, <2>2, ReduceTaps
  <2> QED
    BY <2>3, <2>4, <2>5
<1>2. CASE SuspendOdds
  <2>1. Apply(reduceMarket(spec, st, Suspension))
    BY <1>2 DEF SuspendOdds, Suspension
  <2>2. ~isStale(st, Suspension) /\ isHoldSignal(Suspension)
    BY <1>0, SuspensionHolds
  <2> QED
    BY <2>1, <2>2, ReduceTaps
<1>3. CASE Tick
  <2> DEFINE t == checkDebounce(st, now).effects.terminal
  <2>1. /\ st' = checkDebounce(st, now).state /\ st.pending # NoCandidate /\ known' = known
        /\ verdict' = IF t = NoTerminal THEN verdict ELSE t
    BY <1>3 DEF Tick, Apply
  <2>2. Live(st) /\ st.status = "settling"
    BY <1>0, <2>1, RunningIsLive DEF Shape
  <2>3. \/ st'.status = st.status /\ st'.pending = st.pending /\ t = NoTerminal
        \/ st'.status = "settled" /\ st'.pending = NoCandidate
    BY <2>1, <2>2, DebounceFields DEF KeepsStatus, KeepsCandidate
  <2>4. verdict = NoTerminal /\ st.pending.decidingSeq \in 0..known.seq
    BY <2>1, <2>2 DEF TapsOK, Closed
  <2> QED
    BY <2>1, <2>2, <2>3, <2>4 DEF Closed
<1>4. CASE Place
  <2>1. PICK q \in Positions :
          /\ st' = [st EXCEPT !.positions[q] =
                      [state |-> IF last.phase = "NS" THEN "active" ELSE "pending", placedAt |-> now]]
          /\ known' = known /\ verdict' = verdict
    BY <1>4 DEF Place
  <2>2. IsMarket(st)
    BY <1>0 DEF Shape
  <2>3. /\ st'.status = st.status /\ st'.pending = st.pending
        /\ st'.positions = [st.positions EXCEPT ![q] =
                      [state |-> IF last.phase = "NS" THEN "active" ELSE "pending", placedAt |-> now]]
    BY <2>1, <2>2 DEF IsMarket
  <2>4. st.status = "pending_lineup" => last.phase = "NS"
    BY <1>0 DEF MarketOK, FeedOK
  <2>5. \A p \in Positions : p # q => st'.positions[p] = st.positions[p]
    BY <1>0, <2>3 DEF Taps
  <2>6. st'.positions[q].state = "pending" => last.phase # "NS"
    BY <1>0, <2>3 DEF Taps
  <2>7. ASSUME NEW p \in Positions, st'.positions[p].state = "pending"
        PROVE  st'.status # "pending_lineup"
    BY <2>3, <2>4, <2>5, <2>6, <2>7 DEF TapsOK
  <2> QED
    BY <2>1, <2>3, <2>7 DEF TapsOK, Closed
<1>5. CASE Redeliver
  <2>1. st' = st /\ known' = known /\ verdict' = verdict
    BY <1>0, <1>5, RedeliverIgnored DEF Redeliver
  <2> QED
    BY <2>1 DEF TapsOK
<1>6. CASE Play \/ ResumeOdds \/ PassTime \/ UNCHANGED vars
  <2>1. st' = st /\ known' = known /\ verdict' = verdict
    BY <1>6 DEF Play, marketVars, ResumeOdds, PassTime, vars
  <2> QED
    BY <2>1 DEF TapsOK
<1> QED
  BY <1>1, <1>2, <1>3, <1>4, <1>5, <1>6 DEF Next

\* The event a waiting tap is behind is still in the queue after the step.
LEMMA StillBehind ==
    ASSUME IInv, NEW p \in Positions, st.positions[p].state = "pending",
           st'.positions[p] = st.positions[p], NEW i \in 1..Len(queue), NEW j \in 1..Len(queue'),
           queue'[j] = queue[i], isPriceMoving(queue[i].event),
           st.positions[p].placedAt > queue[i].event.ts, \E S : queue' \in Seq(S)
    PROVE  MadeInHindsight(p)'
<1>1. DOMAIN queue' = 1..Len(queue')
  OBVIOUS
<1>2. st'.positions[p].state = "pending" /\ st'.positions[p].placedAt > queue'[j].event.ts
  OBVIOUS
<1>3. isPriceMoving(queue'[j].event)
  OBVIOUS
<1> QED
  BY <1>1, <1>2, <1>3 DEF MadeInHindsight, SeenAhead, isPriceMoving

\* A settlement that was decided by a delivered event.
LEMMA DecidedBefore ==
    ASSUME IInv, TapsOK, st.pending # NoCandidate, verdict'.decidingSeq = st.pending.decidingSeq,
           NEW p
    PROVE  \A i \in SeenAhead(p) : verdict'.decidingSeq < queue[i].event.seq
<1>1. st.pending.decidingSeq \in 0..known.seq /\ known.seq \in Nat
  BY DEF TapsOK, IInv, FeedOK, MatchOK, MatchRecords
<1>2. PICK S : queue \in Seq(S)
  BY DEF IInv, FeedOK
<1>3. \A i \in SeenAhead(p) : i \in 1..Len(queue)
  BY <1>2 DEF SeenAhead
<1>4. \A i \in 1..Len(queue) : queue[i].event.seq = known.seq + i
  BY DEF TapsOK
<1>5. Len(queue) \in Nat
  BY <1>2
<1> QED
  BY <1>1, <1>3, <1>4, <1>5

LEMMA HindsightStep ==
    ASSUME IInv, TapsOK, [Next]_vars, NEW p \in Positions, MadeInHindsight(p)
    PROVE  /\ MadeInHindsight(p)' \/ Closed(st') \/ st'.positions[p].state = "void"
           /\ st'.positions[p].state = "active" =>
                Decides /\ \A i \in SeenAhead(p) : verdict'.decidingSeq < queue[i].event.seq
<1>0. /\ FeedOK /\ MarketOK /\ Shape(st) /\ st.positions \in Taps /\ IsEvent(last)
      /\ now \in Nat /\ SETTLEMENT_DEBOUNCE \in Nat /\ ASSUMED_FEED_DELAY \in Nat
      /\ st.positions[p].placedAt \in Nat
  BY DelaysAssumption DEF IInv, FeedOK, MarketOK, Shape, Taps
<1>1. PICK S : queue \in Seq(S)
  BY <1>0 DEF FeedOK
<1>2. \E R : queue' \in Seq(R)
  BY StepKeeps DEF IInv, FeedOK
<1>3. st.positions[p].state = "pending"
  BY DEF MadeInHindsight
<1>4. PICK i \in 1..Len(queue) :
        isPriceMoving(queue[i].event) /\ st.positions[p].placedAt > queue[i].event.ts
  BY <1>1 DEF MadeInHindsight, SeenAhead
<1>5. queue[i].event.ts \in Nat /\ now <= queue[i].event.ts + ASSUMED_FEED_DELAY
  BY <1>0 DEF FeedOK, Follows, TapsOK
<1>6. now < st.positions[p].placedAt + PENDING_TAP_WINDOW
  <2> DEFINE tap == st.positions[p].placedAt
             at == queue[i].event.ts
  <2>1. tap \in Nat /\ at \in Nat /\ tap > at /\ now <= at + ASSUMED_FEED_DELAY
    BY <1>0, <1>4, <1>5
  <2> HIDE DEF tap, at
  <2>2. now < tap + PENDING_TAP_WINDOW
    BY <1>0, <2>1 DEF PENDING_TAP_WINDOW
  <2> QED
    BY <2>2 DEF tap
<1>7. ASSUME st.pending # NoCandidate, verdict'.decidingSeq = st.pending.decidingSeq
      PROVE  \A j \in SeenAhead(p) : verdict'.decidingSeq < queue[j].event.seq
  BY <1>7, DecidedBefore
<1>8. ASSUME st'.positions[p] = st.positions[p], queue' = queue PROVE MadeInHindsight(p)'
  BY <1>2, <1>3, <1>4, <1>8, StillBehind
<1>9. CASE Deliver
  <2>1. /\ Apply(reduceMarket(spec, st, Arrival))
        /\ queue # <<>> /\ queue' = Tail(queue)
    BY <1>9 DEF Deliver, Arrival
  <2>2. (~Closed(st) => ~isStale(st, Arrival)) /\ Arrival.rcv = now
    BY <1>0, <1>9, ArrivalFresh, ArrivalFollows
  <2>3. \/ st'.positions[p].state = "void"
        \/ st'.positions[p] = st.positions[p] /\ Closed(st')
        \/ /\ st'.positions[p] = st.positions[p]
           /\ ~(isPriceMoving(Arrival) /\ st.positions[p].placedAt > Arrival.ts)
        \/ /\ Closed(st') /\ Decides /\ st.pending # NoCandidate
           /\ verdict'.decidingSeq = st.pending.decidingSeq
    BY <1>3, <1>6, <2>1, <2>2, ReduceSpares
  <2>4. CASE i = 1
    <3>1. Head(queue) = queue[1]
      BY <1>1, <2>1
    <3>2. IsEvent(queue[1].event)
      BY <1>0, <2>4 DEF FeedOK, Follows
    <3>3. /\ Arrival.ts = queue[1].event.ts /\ Arrival.kind = queue[1].event.kind
          /\ Arrival.confirmed = queue[1].event.confirmed
      BY <3>1, <3>2 DEF Arrival, IsEvent
    <3>4. isPriceMoving(Arrival) /\ st.positions[p].placedAt > Arrival.ts
      BY <1>4, <2>4, <3>3 DEF isPriceMoving
    <3> QED
      BY <1>3, <1>7, <2>3, <3>4
  <2>5. CASE i # 1
    <3>1. i - 1 \in 1..Len(queue') /\ queue'[i - 1] = queue[i]
      BY <1>1, <2>1, <2>5
    <3>2. st'.positions[p] = st.positions[p] => MadeInHindsight(p)'
      BY <1>2, <1>3, <1>4, <3>1, StillBehind
    <3> QED
      BY <1>3, <1>7, <2>3, <3>2
  <2> QED
    BY <2>4, <2>5
<1>10. CASE SuspendOdds
  <2>1. Apply(reduceMarket(spec, st, Suspension)) /\ queue' = queue
    BY <1>10 DEF SuspendOdds, Suspension
  <2>2. ~isStale(st, Suspension) /\ isHoldSignal(Suspension)
    BY <1>0, SuspensionHolds
  <2>3. Suspension.rcv = now
    BY <1>0 DEF Suspension, IsEvent
  <2>4. st'.positions[p].state = "void" \/ st'.positions[p] = st.positions[p]
    BY <1>3, <1>6, <2>1, <2>2, <2>3, ReduceSpares
  <2> QED
    BY <1>3, <1>8, <2>1, <2>4
<1>11. CASE Tick
  <2> DEFINE t == checkDebounce(st, now).effects.terminal
  <2>1. /\ st' = checkDebounce(st, now).state /\ st.pending # NoCandidate /\ queue' = queue
        /\ verdict' = IF t = NoTerminal THEN verdict ELSE t
    BY <1>11 DEF Tick, Apply
  <2>2. Live(st) /\ ~Closed(st)
    BY <1>0, <2>1, RunningIsLive DEF Shape, Closed
  <2>3. \/ st'.positions = Ripened(st.positions, now)
        \/ st'.status = "settled" /\ t = TerminalOf(st.pending)
    BY <2>1, <2>2, DebounceFields
  <2>4. CASE st'.positions = Ripened(st.positions, now)
    <3>1. st'.positions[p] = st.positions[p]
      BY <1>0, <1>3, <1>6, <2>4, WithinWindow
    <3> QED
      BY <1>3, <1>8, <2>1, <3>1
  <2>5. CASE st'.status = "settled" /\ t = TerminalOf(st.pending)
    <3>1. t # NoTerminal /\ t.outcome # "void" /\ t.decidingSeq = st.pending.decidingSeq
      BY <1>0, <2>1, <2>5, CandidateEnds DEF Shape, TerminalOf
    <3>2. verdict = NoTerminal
      BY <2>2 DEF TapsOK
    <3>3. Decides /\ verdict'.decidingSeq = st.pending.decidingSeq /\ Closed(st')
      BY <2>1, <2>5, <3>1, <3>2 DEF Decides, Closed
    <3> QED
      BY <1>7, <2>1, <3>3
  <2> QED
    BY <2>3, <2>4, <2>5
<1>12. CASE Place
  <2>1. PICK q \in Positions :
          /\ st.positions[q] = NotPlaced /\ queue' = queue
          /\ st' = [st EXCEPT !.positions[q] =
                      [state |-> IF last.phase = "NS" THEN "active" ELSE "pending", placedAt |-> now]]
    BY <1>12 DEF Place
  <2>2. p # q
    BY <1>3, <2>1 DEF NotPlaced
  <2>3. IsMarket(st)
    BY <1>0 DEF Shape
  <2>4. st'.positions[p] = st.positions[p]
    BY <2>1, <2>2, <2>3 DEF IsMarket
  <2> QED
    BY <1>3, <1>8, <2>1, <2>4
<1>13. CASE Redeliver
  <2>1. st' = st /\ queue' = queue
    BY <1>0, <1>13, RedeliverIgnored DEF Redeliver
  <2> QED
    BY <1>3, <1>8, <2>1
<1>14. CASE Play
  <2>1. st' = st
    BY <1>14 DEF Play, marketVars
  <2>2. PICK x : queue' = Append(queue, x)
    BY <1>14, PlayQueues DEF Queued
  <2>3. i \in 1..Len(queue') /\ queue'[i] = queue[i]
    <3>1. queue \in Seq(S \cup {x}) /\ x \in S \cup {x}
      BY <1>1
    <3> QED
      BY <2>2, <3>1, AppendProperties
  <2>4. MadeInHindsight(p)'
    BY <1>2, <1>3, <1>4, <2>1, <2>3, StillBehind
  <2> QED
    BY <1>3, <2>1, <2>4
<1>15. CASE ResumeOdds \/ PassTime \/ UNCHANGED vars
  <2>1. st' = st /\ queue' = queue
    BY <1>15 DEF ResumeOdds, PassTime, vars
  <2> QED
    BY <1>3, <1>8, <2>1
<1> QED
  BY <1>9, <1>10, <1>11, <1>12, <1>13, <1>14, <1>15 DEF Next

\* The delay-snipe guard holds for any claims, taps, delays and matches, however
\* many events are under way: a tap made after a goal or red card that the feed
\* has not delivered waits until the delivery voids it or the market closes, and
\* counts only in a settlement decided before that goal or red card was heard of
\* (reduce.ts, applyPositionGuards, settleNow and checkDebounce).
THEOREM HindsightNeverCounts == Spec => SnipedNeverCounts
<1>1. Init => TapsOK
  BY TapsInit
<1>2. IInv /\ TapsOK /\ [Next]_vars => TapsOK'
  BY TapsStep
<1>3. IInv /\ TapsOK /\ [Next]_vars =>
        [\A p \in Positions :
           MadeInHindsight(p) =>
             /\ MadeInHindsight(p)' \/ Closed(st') \/ st'.positions[p].state = "void"
             /\ st'.positions[p].state = "active" =>
                  Decides /\ \A i \in SeenAhead(p) : verdict'.decidingSeq < queue[i].event.seq]_vars
  BY HindsightStep
<1> QED
  BY <1>1, <1>2, <1>3, MarketFeedInvariant, PTL DEF Spec, SnipedNeverCounts

=============================================================================
