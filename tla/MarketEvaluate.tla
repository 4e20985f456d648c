-------------------------- MODULE MarketEvaluate --------------------------
(***************************************************************************)
(* The settlement predicate of packages/market-engine: is a claim already  *)
(* won or lost at this score and phase, or not yet decidable?              *)
(*                                                                         *)
(* A score is [goals |-> <<g1, g2>>, goals90 |-> <<r1, r2>>]: the running  *)
(* tallies of the two sides and their regulation-only tallies, the latter  *)
(* NoSplit when the feed does not break them out.  A specification of a    *)
(* claim is a record [claimType, participant, player, comparator,          *)
(* thresholdHalves, period, anchorSeq]; thresholds are counted in halves   *)
(* because totals lines are 0.5, 1.5, 2.5 ...                              *)
(***************************************************************************)
EXTENDS Integers

NoSplit == -1
NoOutcome == "undecided"

TERMINAL_PHASES == {"F", "FET", "FPE"}
VOID_PHASES == {"ABD", "CAN", "POST", "COV_LOST"}

\* Phases in which regulation time is over, and those past a 90-minute result.
REGULATION_COMPLETE_PHASES == {"F", "ET1", "HTET", "ET2", "PE", "FET", "FPE"}
BEYOND_REGULATION_PHASES == REGULATION_COMPLETE_PHASES \ {"F"}

\* Mutant: every claim is over after 90 minutes.
CompleteAfterNinety(period, phase) == phase \in REGULATION_COMPLETE_PHASES

isPeriodComplete(period, phase) ==
  phase \in IF period = "FT_90" THEN REGULATION_COMPLETE_PHASES ELSE TERMINAL_PHASES

\* Goals credited to a side under the claim's period; NoSplit when unknown.
goalsForPeriod(score, side, period, phase) ==
  LET split == \/ phase \in BEYOND_REGULATION_PHASES
               \/ phase = "F" /\ score.goals90[side] # NoSplit
  IN  IF period = "FT_90" /\ split THEN score.goals90[side] ELSE score.goals[side]

\* Settlement of a tally that only grows: some verdicts come before full time.
compareTally(value, spec, complete) ==
  LET v == 2 * value
      t == spec.thresholdHalves
      holds == CASE spec.comparator = "gte" -> v >= t
                 [] spec.comparator = "lte" -> v <= t
                 [] spec.comparator = "eq"  -> v = t
      \* More goals can no longer change the answer.
      final == IF spec.comparator = "gte" THEN v >= t ELSE v > t
  IN  IF ~complete /\ ~final THEN NoOutcome
      ELSE IF holds THEN "claim_won" ELSE "claim_lost"

Opponent(side) == 3 - side

\* Level after extra time or penalties, a FT claim is not derivable from goals.
winnerOutcome(spec, score, phase) ==
  LET mine == goalsForPeriod(score, spec.participant, spec.period, phase)
      theirs == goalsForPeriod(score, Opponent(spec.participant), spec.period, phase)
  IN  IF ~isPeriodComplete(spec.period, phase) \/ NoSplit \in {mine, theirs} THEN NoOutcome
      ELSE CASE mine > theirs -> "claim_won"
             [] mine < theirs -> "claim_lost"
             [] mine = theirs -> IF spec.period = "FT_90" \/ phase = "F"
                                 THEN "claim_lost" ELSE NoOutcome

bttsOutcome(spec, score, phase) ==
  LET g == [side \in 1..2 |-> goalsForPeriod(score, side, spec.period, phase)]
  IN  IF g[1] >= 1 /\ g[2] >= 1 THEN "claim_won"
      ELSE IF isPeriodComplete(spec.period, phase) /\ NoSplit \notin {g[1], g[2]}
           THEN "claim_lost" ELSE NoOutcome

tallyOutcome(spec, tally, phase) ==
  IF tally = NoSplit THEN NoOutcome
  ELSE compareTally(tally, spec, isPeriodComplete(spec.period, phase))

\* playerGoals is the tally the reducer keeps for a player claim.
evaluateSpec(spec, score, phase, playerGoals) ==
  LET g == [side \in 1..2 |-> goalsForPeriod(score, side, spec.period, phase)]
      total == IF NoSplit \in {g[1], g[2]} THEN NoSplit ELSE g[1] + g[2]
  IN  IF phase \in VOID_PHASES THEN "void"
      ELSE CASE spec.claimType \in {"match_winner", "comeback"} -> winnerOutcome(spec, score, phase)
             [] spec.claimType = "totals_ou" -> tallyOutcome(spec, total, phase)
             [] spec.claimType = "team_scores_n" -> tallyOutcome(spec, g[spec.participant], phase)
             [] spec.claimType = "btts" -> bttsOutcome(spec, score, phase)
             [] spec.claimType = "player_scores_n" -> tallyOutcome(spec, playerGoals, phase)
=============================================================================
