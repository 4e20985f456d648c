----------------------------- MODULE MarketFeed -----------------------------
(***************************************************************************)
(* One market driven by its match through the pure reducer: every event of *)
(* the score stream reaches reduceMarket in order, odds suspensions arrive *)
(* from a second stream in between, a clock tick runs checkDebounce, and   *)
(* people tap while the market takes calls.                                *)
(***************************************************************************)
EXTENDS MatchFeed

CONSTANTS
  Positions,   \* taps that may be made
  ClaimSpecs,  \* the MarketSpecs a claim may compile to
  MaxTime      \* bound on the clock

\* What compile.ts makes of a claim.  The market is minted before the stream's
\* first event, so a comeback claim is anchored at sequence number 0.
ASSUME ClaimsAssumption ==
  \A c \in ClaimSpecs :
    /\ c.claimType \in {"match_winner", "comeback", "totals_ou", "team_scores_n", "btts",
                        "player_scores_n"}
    /\ c.claimType \in {"match_winner", "comeback", "team_scores_n"} => c.participant \in 1..2
    /\ c.comparator \in {"gte", "lte", "eq"} /\ c.thresholdHalves \in Nat
    /\ c.period \in {"FT", "FT_90"}
    /\ c.anchorSeq = 0

ASSUME MaxTimeAssumption == MaxTime \in Nat

VARIABLES
  spec,        \* the claim's MarketSpec
  st,          \* the rest of the MarketState, scratch included
  verdict,     \* the terminal effect the reducer has emitted
  known,       \* the match as of the last delivered event
  last,        \* the last delivered event
  suspended,   \* whether the bookmaker's odds are suspended
  masked       \* history: another doubt was delivered during the open VAR check

vars == <<match, queue, now, spec, st, verdict, known, last, suspended, masked>>

marketVars == <<spec, st, verdict, known, last, suspended, masked>>

NotPlaced == [state |-> "none", placedAt |-> 0]

NoEvent == [kind |-> "none", seq |-> 0, ts |-> 0, rcv |-> 0, confirmed |-> TRUE, phase |-> "NS",
            late |-> FALSE, score |-> [goals |-> <<0, 0>>, goals90 |-> <<NoSplit, NoSplit>>],
            participant |-> 0, player |-> "nobody", own |-> FALSE, reverses |-> 0]

\* A player claim waits for the lineup; every other market is minted open.
InitMarket ==
  /\ spec \in ClaimSpecs
  /\ st = [status |-> IF spec.claimType = "player_scores_n" THEN "pending_lineup" ELSE "open",
           pending |-> NoCandidate,
           positions |-> [p \in Positions |-> NotPlaced],
           scratch |-> initialScratch(spec)]
  /\ verdict = NoTerminal
  /\ known = match
  /\ last = NoEvent
  /\ suspended = FALSE /\ masked = FALSE

Init == InitFeed /\ InitMarket

Apply(result) ==
  /\ st' = result.state
  /\ verdict' = IF result.effects.terminal = NoTerminal THEN verdict ELSE result.effects.terminal

\* The next event of the score stream arrives.
Deliver ==
  /\ queue # <<>>
  /\ LET event == [Head(queue).event EXCEPT !.rcv = now]
     IN  /\ Apply(reduceMarket(spec, st, event))
         /\ last' = event
         /\ known' = Head(queue).truth
         /\ masked' = /\ known'.var
                      /\ masked \/ (isHoldSignal(event) /\ holdReasonFor(event) # "var")
  /\ queue' = Tail(queue)
  /\ UNCHANGED <<match, now, spec, suspended>>

\* A reconnect replays the frame the stream already delivered.
Redeliver ==
  /\ last.kind # "none"
  /\ Apply(reduceMarket(spec, st, [last EXCEPT !.rcv = now]))
  /\ UNCHANGED <<spec, match, queue, now, known, last, suspended, masked>>

\* handleOddsRecord: only the transition into suspension becomes an event.
SuspendOdds ==
  /\ "odds_suspension" \in Kinds
  /\ ~suspended
  /\ suspended' = TRUE /\ masked' = (masked \/ known.var)
  /\ Apply(reduceMarket(spec, st,
       [last EXCEPT !.kind = "odds_suspension", !.confirmed = TRUE, !.late = FALSE,
                    !.seq = MaxEvents + 1, !.ts = now, !.rcv = now, !.reverses = 0]))
  /\ UNCHANGED <<spec, match, queue, now, known, last>>

ResumeOdds ==
  /\ suspended
  /\ suspended' = FALSE
  /\ UNCHANGED <<spec, match, queue, now, st, verdict, known, last, masked>>

\* Settler.tick calls checkDebounce only while a candidate waits.
Tick ==
  /\ st.pending # NoCandidate
  /\ Apply(checkDebounce(st, now))
  /\ UNCHANGED <<spec, match, queue, now, known, last, suspended, masked>>

\* A tap is accepted while the market takes calls; in play it starts pending.
Place ==
  \E p \in Positions :
    /\ st.positions[p] = NotPlaced
    /\ st.status \in {"pending_lineup", "open"}
    /\ ~last.late
    /\ st' = [st EXCEPT !.positions[p] =
                [state |-> IF last.phase = "NS" THEN "active" ELSE "pending", placedAt |-> now]]
    /\ UNCHANGED <<spec, match, queue, now, verdict, known, last, suspended, masked>>

\* The feed trails the pitch by at most the assumed delay.
PassTime ==
  /\ now < MaxTime
  /\ \A i \in DOMAIN queue : now < queue[i].event.ts + ASSUMED_FEED_DELAY
  /\ now' = now + 1
  /\ UNCHANGED <<spec, match, queue, st, verdict, known, last, suspended, masked>>

\* The match is followed until the market closes (a closed market ignores it)
\* and while the clock leaves time to deliver and debounce what happens.
Play ==
  /\ ~Closed(st)
  /\ now + PENDING_TAP_WINDOW <= MaxTime
  /\ MatchStep
  /\ UNCHANGED marketVars

Next == Play \/ Deliver \/ Redeliver \/ SuspendOdds \/ ResumeOdds \/ Tick \/ Place \/ PassTime

Spec == Init /\ [][Next]_vars

-----------------------------------------------------------------------------
(* Properties.                                                             *)

StandingGoal ==
  [seq : 1..MaxEvents, participant : 1..2, player : Players \cup {NoScorer.player}, own : BOOLEAN,
   phase : {"H1", "H2", "ET1"}]

\* Type correctness of the reducer's state, scratch and candidate included.
TypeOK ==
  /\ st.status \in {"pending_lineup", "open", "frozen", "settling", "settled", "voided"}
  /\ st.pending.outcome \in {NoOutcome, "claim_won", "claim_lost"}
  /\ st.scratch.goals \subseteq StandingGoal
  /\ st.scratch.freezeReason \in {NoReason, "var", "possible_event", "odds_suspension", "cutoff"}
  /\ \A p \in Positions : st.positions[p].state \in {"none", "pending", "active", "void"}
  /\ (st.status = "settling") <=> (st.pending # NoCandidate)

\* The claim judged directly on the goals that stand, each in its phase,
\* without the feed's score, its split or the reducer's ledger.
InPeriod(g) == spec.period = "FT_90" => g.phase \in REGULATION

CountedGoals(truth, side) ==
  Cardinality({g \in truth.goals : InPeriod(g) /\ g.participant = side})

FactTally(truth) ==
  CASE spec.claimType = "totals_ou" -> CountedGoals(truth, 1) + CountedGoals(truth, 2)
    [] spec.claimType = "team_scores_n" -> CountedGoals(truth, spec.participant)
    [] spec.claimType = "player_scores_n" ->
         Cardinality({g \in truth.goals : InPeriod(g) /\ g.player = spec.player /\ ~g.own})

PeriodOver(truth) == IF spec.period = "FT_90" THEN truth.phase \notin {"NS", "H1", "H2"} ELSE Over(truth)

\* What the facts say of the claim now, and whether later goals could change it.
ClaimHolds(truth) ==
  CASE spec.claimType \in {"match_winner", "comeback"} ->
         CountedGoals(truth, spec.participant) > CountedGoals(truth, 3 - spec.participant)
    [] spec.claimType = "btts" -> \A side \in 1..2 : CountedGoals(truth, side) > 0
    [] OTHER -> CASE spec.comparator = "gte" -> 2 * FactTally(truth) >= spec.thresholdHalves
                  [] spec.comparator = "lte" -> 2 * FactTally(truth) <= spec.thresholdHalves
                  [] spec.comparator = "eq" -> 2 * FactTally(truth) = spec.thresholdHalves

CannotChange(truth) ==
  \/ PeriodOver(truth)
  \/ spec.claimType = "btts" /\ ClaimHolds(truth)
  \/ /\ spec.claimType \in {"totals_ou", "team_scores_n", "player_scores_n"}
     /\ IF spec.comparator = "gte" THEN ClaimHolds(truth)
        ELSE 2 * FactTally(truth) > spec.thresholdHalves

Decides == verdict' # verdict /\ verdict'.outcome # "void"

\* A correction that the normaliser took for an ordinary update arrives: the
\* goals change and the record does not say so.
Misread ==
  /\ known' # known /\ known'.goals # known.goals
  /\ last'.kind # "goal" /\ ~isReversal(last')

\* A market settles only on facts: at the moment of settlement the goals that
\* stand in the delivered feed decide the claim for good, the outcome is theirs,
\* and every goal the evidence cites still stands.  Redelivered frames, amends,
\* discards, however often a goal is corrected, and extra time must not bend it.
\* The score carries a correction that cannot be placed in the ledger; only a
\* player claim, which is judged on the ledger, needs every goal told in full.
SettledOnTheFacts ==
  [][Decides /\ ~Misread /\ (spec.claimType = "player_scores_n" => known'.untold = {}) =>
       /\ CannotChange(known')
       /\ verdict'.outcome = IF ClaimHolds(known') THEN "claim_won" ELSE "claim_lost"
       /\ verdict'.evidence \subseteq
            {g.first : g \in known'.goals} \cup known'.untold \cup {verdict'.decidingSeq}]_vars

\* A market never settles while the delivered feed shows an open VAR check:
\* the check cancels a waiting candidate and none is armed until it ends, or
\* until another doubt takes its place in freezeReason.
NeverSettlesUnderVar == [][Decides => ~known'.var \/ masked']_vars

\* The same without the way out, as the reducer's comment has it: "while a
\* var/possible_event doubt is live, settlement waits".
DoubtHoldsSettlement == [][Decides => ~known'.var]_vars

\* The reducer's ledger of standing goals is the match's: discards remove,
\* amends re-attribute, several corrections of a goal and incomplete ones
\* included.  It is wrong at most about the goals that were not told in full,
\* and right again about them after a complete amend.
LedgerIsTheMatch ==
  st.status \in {"open", "frozen", "settling"} =>
    {x \in st.scratch.goals : x.seq \notin known.untold} =
      {[seq |-> g.first, participant |-> g.participant, player |-> g.player, own |-> g.own,
        phase |-> g.phase] : g \in {h \in known.goals : h.first \notin known.untold}}

\* Staking closes once and for all at the cutoff: no sequence of VAR checks,
\* reversals and dropped candidates reopens the market.
CutoffIsPermanent == [][st.scratch.cutoffReached => st'.status # "open"]_vars

\* The confirmed goals and red cards on the pitch that the feed has not delivered
\* yet and that a tap was made after, and the waiting taps that have any.
SeenAhead(p) ==
  {i \in DOMAIN queue : isPriceMoving(queue[i].event) /\ st.positions[p].placedAt > queue[i].event.ts}

MadeInHindsight(p) == st.positions[p].state = "pending" /\ SeenAhead(p) # {}

\* The delay-snipe guard: a tap made in hindsight does not profit from it.
\* Whatever matures or reopens in between, it waits until the delivery voids it
\* or the whole market closes; it is activated only by a settlement that was
\* decided before the goal or red card it had seen reached the market.
SnipedNeverCounts ==
  [][\A p \in Positions :
       MadeInHindsight(p) =>
         /\ MadeInHindsight(p)' \/ Closed(st') \/ st'.positions[p].state = "void"
         /\ st'.positions[p].state = "active" =>
              Decides /\ \A i \in SeenAhead(p) : verdict'.decidingSeq < queue[i].event.seq]_vars

\* Calls are frozen for suspended odds only while the odds are suspended.
SuspensionLifts == st.scratch.freezeReason = "odds_suspension" => suspended

\* Fairness: the stream delivers what was published, the debounce cron ticks,
\* time passes, VAR checks end and the match is played to its end.
Fairness ==
  /\ WF_vars(Deliver) /\ WF_vars(Tick) /\ WF_vars(PassTime)
  /\ WF_vars(Play /\ ChangePhase) /\ WF_vars(Play /\ VarEnd)

FairSpec == Spec /\ Fairness

\* Once full time (or abandonment) has been delivered the market settles or voids.
FullTimeResolves == Over(known) ~> Closed(st)
=============================================================================
