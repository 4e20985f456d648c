--------------------------- MODULE MarketReducer ---------------------------
(***************************************************************************)
(* reduceMarket and checkDebounce of packages/market-engine, as functions  *)
(* from a market state and a feed event to the next state and the effects  *)
(* the caller must apply.                                                  *)
(*                                                                         *)
(* A market state is                                                       *)
(*   [status, pending, positions, scratch]                                 *)
(* with pending the settlement candidate in its debounce window            *)
(* (NoCandidate when there is none), positions a function to [state,       *)
(* placedAt], and scratch the reducer's own bookkeeping [lastSeq, goals,   *)
(* freezeReason, cutoffReached].  Effects are a record of what is to be    *)
(* done, NoEffects when nothing is: the switch over effect kinds in the    *)
(* callers reads its fields.  reprice_hint is left out: it requests a new  *)
(* quote and changes no settlement state.                                  *)
(***************************************************************************)
EXTENDS MarketEvaluate, FiniteSets, Sequences

CONSTANTS
  SETTLEMENT_DEBOUNCE,   \* how long a candidate waits
  ASSUMED_FEED_DELAY     \* how far a feed event may trail the pitch

ASSUME DelaysAssumption ==
  SETTLEMENT_DEBOUNCE \in Nat \ {0} /\ ASSUMED_FEED_DELAY \in Nat

\* The normalised feed events.
FeedRecords ==
  [kind : STRING, seq : Nat, ts : Nat, rcv : Nat, confirmed : BOOLEAN, phase : STRING,
   late : BOOLEAN, score : [goals : Seq(Int), goals90 : Seq(Int)], participant : Nat,
   player : STRING, own : BOOLEAN, reverses : Nat]

PENDING_TAP_WINDOW == ASSUMED_FEED_DELAY + SETTLEMENT_DEBOUNCE

NoReason == "none"
NoCandidate == [outcome |-> NoOutcome, decidingSeq |-> 0, evidence |-> {}, until |-> 0]
NoTerminal == [outcome |-> NoOutcome, decidingSeq |-> 0, evidence |-> {}]
NoEffects == [freeze |-> NoReason, unfreeze |-> FALSE, activateMarket |-> FALSE,
              terminal |-> NoTerminal, voids |-> {}, activates |-> {}]

INPLAY_PHASES == {"H1", "HT", "H2", "F", "ET1", "HTET", "ET2", "PE", "FET", "FPE", "INT"}
LATE_CUTOFF_PHASES == {"ET1", "HTET", "ET2", "PE", "F", "FET", "FPE"}

initialScratch(spec) ==
  [lastSeq |-> spec.anchorSeq, goals |-> {}, freezeReason |-> NoReason, cutoffReached |-> FALSE]

Result(state, effects) == [state |-> state, effects |-> effects]

Closed(st) == st.status \in {"settled", "voided"}

\* Standing goals that count for a player claim: no own goals, no shootout.
playerGoalCount(scratch, spec) ==
  Cardinality({g \in scratch.goals :
                 /\ g.player = spec.player
                 /\ ~g.own
                 /\ g.phase # "PE"
                 /\ spec.period = "FT_90" => g.phase \in {"H1", "HT", "H2"}})

buildEvidence(scratch, spec, decidingSeq) ==
  LET relevant == {g \in scratch.goals :
                     /\ spec.claimType = "team_scores_n" => g.participant = spec.participant
                     /\ spec.claimType = "player_scores_n" => g.player = spec.player /\ ~g.own}
  IN  {g.seq : g \in relevant} \cup {decidingSeq}

isReversal(ev) == ev.kind \in {"goal_discarded", "goal_amended"}

isHoldSignal(ev) ==
  \/ ev.kind \in {"var_check", "possible_event"}
  \/ ev.kind = "goal" /\ ~ev.confirmed
  \/ ev.kind = "odds_suspension" /\ ev.confirmed

holdReasonFor(ev) ==
  CASE ev.kind = "var_check" -> "var"
    [] ev.kind = "odds_suspension" -> "odds_suspension"
    [] OTHER -> "possible_event"

isPriceMoving(ev) == ev.confirmed /\ ev.kind \in {"goal", "red_card"}

\* ev.late: the event carries a minute of 85 or more.
cutoffTriggered(spec, ev) ==
  \/ ev.late
  \/ ev.phase \in LATE_CUTOFF_PHASES
  \/ spec.claimType = "player_scores_n" /\ ev.phase \in INPLAY_PHASES

FixtureFatal(ev) == ev.phase \in VOID_PHASES \/ ev.kind = "coverage_warning"

-----------------------------------------------------------------------------
(* Positions.                                                              *)

Pending(positions) == {p \in DOMAIN positions : positions[p].state = "pending"}

Matured(positions, nowMs) ==
  {p \in Pending(positions) : nowMs >= positions[p].placedAt + PENDING_TAP_WINDOW}

\* Mutant: taps are compared with the moment the event is received.
SnipedByReceipt(positions, ev) ==
  {p \in Pending(positions) : isPriceMoving(ev) /\ positions[p].placedAt > ev.rcv}

Sniped(positions, ev) ==
  {p \in Pending(positions) : isPriceMoving(ev) /\ positions[p].placedAt > ev.ts}

Mark(positions, chosen, state) ==
  [p \in DOMAIN positions |->
     IF p \in chosen THEN [positions[p] EXCEPT !.state = state] ELSE positions[p]]

\* Snipe voids first, window activations second.
applyPositionGuards(st, ev) ==
  LET sniped == Sniped(st.positions, ev)
      matured == Matured(st.positions, ev.rcv) \ sniped
  IN  Result([st EXCEPT !.positions = Mark(Mark(@, sniped, "void"), matured, "active")],
             [NoEffects EXCEPT !.voids = sniped, !.activates = matured])

activateRemainingPending(st, fx) ==
  LET rest == Pending(st.positions)
  IN  Result([st EXCEPT !.positions = Mark(@, rest, "active")],
             [fx EXCEPT !.activates = @ \cup rest])

-----------------------------------------------------------------------------
(* Settlement.                                                             *)

settleNow(st, fx) ==
  LET activated == activateRemainingPending(st, fx)
  IN  Result([activated.state EXCEPT !.status = "settled", !.pending = NoCandidate],
             [activated.effects EXCEPT !.terminal =
                [outcome |-> st.pending.outcome, decidingSeq |-> st.pending.decidingSeq,
                 evidence |-> st.pending.evidence]])

voidMarket(st, fx, ev) ==
  Result([st EXCEPT !.status = "voided", !.pending = NoCandidate],
         [fx EXCEPT !.terminal = [outcome |-> "void", decidingSeq |-> ev.seq, evidence |-> {}]])

\* Mutant: an amend no longer finds its goal.
TrackGoalsUnamended(goals, ev) ==
  CASE ev.kind = "goal" /\ ev.confirmed ->
         goals \cup {[seq |-> ev.seq, participant |-> ev.participant, player |-> ev.player,
                      own |-> ev.own, phase |-> ev.phase]}
    [] ev.kind = "goal_discarded" -> {g \in goals : g.seq # ev.reverses}
    [] OTHER -> goals

\* An amend without a side keeps the goal's; one without a scorer erases it.
Reattributed(g, ev) ==
  [g EXCEPT !.participant = IF ev.participant = 0 THEN @ ELSE ev.participant,
            !.player = ev.player, !.own = ev.own]

\* A confirmed goal stands until a discard removes it; an amend re-attributes it.
trackGoals(goals, ev) ==
  LET hit == {g \in goals : g.seq = ev.reverses}
  IN  CASE ev.kind = "goal" /\ ev.confirmed ->
             goals \cup {[seq |-> ev.seq, participant |-> ev.participant, player |-> ev.player,
                          own |-> ev.own, phase |-> ev.phase]}
        [] ev.kind = "goal_discarded" -> goals \ hit
        [] ev.kind = "goal_amended" ->
             (goals \ hit) \cup {Reattributed(g, ev) : g \in hit}
        [] OTHER -> goals

reducePendingLineup(spec, st, ev) ==
  LET named == ev.kind = "lineup" /\ ev.player = spec.player
  IN  IF FixtureFatal(ev) \/ (~named /\ ev.phase \in INPLAY_PHASES)
      THEN voidMarket(st, NoEffects, ev)
      ELSE IF ~named THEN Result(st, NoEffects)
      ELSE activateRemainingPending([st EXCEPT !.status = "open"],
                                    [NoEffects EXCEPT !.activateMarket = TRUE])

-----------------------------------------------------------------------------
(* The steps of reduceMarket, in the order the code takes them.            *)

\* Step 4: the 85th minute, extra time or (player claims) kickoff close staking.
applyCutoff(spec, st, fx, ev) ==
  IF ~cutoffTriggered(spec, ev) \/ st.scratch.cutoffReached THEN Result(st, fx)
  ELSE LET reached == [st EXCEPT !.scratch.cutoffReached = TRUE]
       IN  IF st.status # "open" THEN Result(reached, fx)
           ELSE Result([reached EXCEPT !.status = "frozen", !.scratch.freezeReason = "cutoff"],
                       [fx EXCEPT !.freeze = "cutoff"])

\* Mutant: calls are locked but the candidate keeps waiting.
CancelCandidateKept(st, fx, ev) ==
  Result([st EXCEPT !.scratch.freezeReason = holdReasonFor(ev)],
         [fx EXCEPT !.freeze = holdReasonFor(ev)])

\* Step 5, fresh doubt: the candidate is cancelled and calls are locked.
cancelCandidate(st, fx, ev) ==
  Result([st EXCEPT !.pending = NoCandidate, !.status = "frozen",
                    !.scratch.freezeReason = holdReasonFor(ev)],
         [fx EXCEPT !.freeze = holdReasonFor(ev)])

\* Mutant: the status is not reset with the candidate.
DropCandidateStaysSettling(st) == [st EXCEPT !.pending = NoCandidate]

\* Step 5, reversal: the candidate is dropped and the score judged again below.
dropCandidate(st) ==
  IF st.pending = NoCandidate THEN st
  ELSE [st EXCEPT !.pending = NoCandidate,
                  !.status = IF st.scratch.cutoffReached THEN "frozen" ELSE "open",
                  !.scratch.freezeReason = IF st.scratch.cutoffReached THEN "cutoff" ELSE NoReason]

\* Step 6, freeze: the newest hold signal replaces the reason of any earlier one.
holdMarket(st, fx, ev) ==
  LET held == [st EXCEPT !.scratch.freezeReason = holdReasonFor(ev)]
  IN  IF st.status # "open" THEN Result(held, fx)
      ELSE Result([held EXCEPT !.status = "frozen"], [fx EXCEPT !.freeze = holdReasonFor(ev)])

Doubt == {"var", "possible_event"}

DoubtResolved(st, ev) ==
  LET reason == st.scratch.freezeReason
  IN  \/ ev.kind = "var_end" /\ reason \in Doubt
      \/ reason = "possible_event" /\ ev.confirmed
      \/ reason \in Doubt /\ isReversal(ev)
      \/ ev.kind = "odds_suspension" /\ ~ev.confirmed /\ reason = "odds_suspension"

\* Mutant: the end of a doubt reopens the market whatever closed it.
ResolveDoubtPastCutoff(st, fx, ev) ==
  IF ~DoubtResolved(st, ev) THEN Result(st, fx)
  ELSE Result([st EXCEPT !.scratch.freezeReason = NoReason,
                         !.status = IF @ = "frozen" THEN "open" ELSE @], fx)

\* Step 6, unfreeze: never once the staking cutoff has been reached.
resolveDoubt(st, fx, ev) ==
  IF ~DoubtResolved(st, ev) THEN Result(st, fx)
  ELSE IF st.scratch.cutoffReached
       THEN Result([st EXCEPT !.scratch.freezeReason = "cutoff"], fx)
       ELSE LET lifted == [st EXCEPT !.scratch.freezeReason = NoReason]
            IN  IF st.status # "frozen" THEN Result(lifted, fx)
                ELSE Result([lifted EXCEPT !.status = "open"], [fx EXCEPT !.unfreeze = TRUE])

\* Mutant: a claim that full time leaves undecidable just waits.
EvaluateWithoutVoid(spec, st, fx, ev) ==
  LET outcome == evaluateSpec(spec, ev.score, ev.phase, playerGoalCount(st.scratch, spec))
      armed == [outcome |-> outcome, decidingSeq |-> ev.seq,
                evidence |-> buildEvidence(st.scratch, spec, ev.seq),
                until |-> ev.rcv + SETTLEMENT_DEBOUNCE]
  IN  IF ev.confirmed /\ st.scratch.freezeReason \notin Doubt /\ outcome \in {"claim_won", "claim_lost"}
      THEN Result([st EXCEPT !.status = "settling", !.pending = armed], fx)
      ELSE Result(st, fx)

\* Step 7: arm a candidate, or void what a terminal phase leaves undecidable.
evaluateMarket(spec, st, fx, ev) ==
  LET outcome == evaluateSpec(spec, ev.score, ev.phase, playerGoalCount(st.scratch, spec))
      armed == [outcome |-> outcome, decidingSeq |-> ev.seq,
                evidence |-> buildEvidence(st.scratch, spec, ev.seq),
                until |-> ev.rcv + SETTLEMENT_DEBOUNCE]
  IN  IF ~ev.confirmed \/ st.scratch.freezeReason \in Doubt THEN Result(st, fx)
      ELSE IF outcome \in {"claim_won", "claim_lost"}
           THEN Result([st EXCEPT !.status = "settling", !.pending = armed], fx)
           ELSE IF outcome = "void" \/ ev.phase \in TERMINAL_PHASES
                THEN voidMarket(st, fx, ev) ELSE Result(st, fx)

\* Steps 5 to 8, after the goal ledger, the position guards and the cutoff.
reduceLive(spec, st, fx, ev) ==
  LET armed == st.pending # NoCandidate
      resolved == resolveDoubt(dropCandidate(st), fx, ev)
  IN  CASE isHoldSignal(ev) /\ armed  -> cancelCandidate(st, fx, ev)
        [] isHoldSignal(ev) /\ ~armed -> holdMarket(st, fx, ev)
        [] ~isHoldSignal(ev) /\ armed /\ ~isReversal(ev) -> settleNow(st, fx)
        [] OTHER -> evaluateMarket(spec, resolved.state, resolved.effects, ev)

\* Odds events carry a sequence of their own and bypass the duplicate guard.
isStale(st, ev) == ev.kind # "odds_suspension" /\ ev.seq <= st.scratch.lastSeq

advanceCursor(st, ev) ==
  IF ev.kind = "odds_suspension" THEN st ELSE [st EXCEPT !.scratch.lastSeq = ev.seq]

reduceMarket(spec, st, ev) ==
  LET seen == advanceCursor(st, ev)
      tracked == [seen EXCEPT !.scratch.goals = trackGoals(@, ev)]
      guarded == applyPositionGuards(tracked, ev)
      cut == applyCutoff(spec, guarded.state, guarded.effects, ev)
  IN  IF Closed(st) \/ isStale(st, ev) THEN Result(st, NoEffects)
      ELSE IF st.status = "pending_lineup" THEN reducePendingLineup(spec, seen, ev)
      ELSE IF FixtureFatal(ev) THEN voidMarket(seen, NoEffects, ev)
      ELSE reduceLive(spec, cut.state, cut.effects, ev)

\* The clock tick: matures taps and settles a candidate whose window has passed.
checkDebounce(st, nowMs) ==
  LET matured == Matured(st.positions, nowMs)
      ripe == [st EXCEPT !.positions = Mark(@, matured, "active")]
      fx == [NoEffects EXCEPT !.activates = matured]
  IN  IF Closed(st) THEN Result(st, NoEffects)
      ELSE IF st.pending # NoCandidate /\ nowMs >= st.pending.until THEN settleNow(ripe, fx)
      ELSE Result(ripe, fx)
=============================================================================
