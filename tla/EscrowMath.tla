----------------------------- MODULE EscrowMath -----------------------------
(***************************************************************************)
(* The integer arithmetic of the escrow program (programs/calledit-escrow/ *)
(* src/math.rs): the odds ratio, the two matched pots, and the two floored *)
(* divisions by which losers forfeit and winners are paid.  Every product  *)
(* is taken in u128 and floored, so a plain \div is exact; a quotient that *)
(* does not fit u64 is an error, which PotsFit states.                     *)
(***************************************************************************)
EXTENDS Integers

CONSTANT U64Max   \* the largest u64 (made small by the configurations)

ASSUME U64MaxAssumption == U64Max \in Nat

MultiplierScale == 1000
ProbabilityPpmScale == 1000000

Sides == {"Back", "Doubt"}

Lesser(a, b) == IF a <= b THEN a ELSE b

\* u128 multiply, floored division.
MulDivFloor(left, right, denominator) == (left * right) \div denominator

\* Doubt units staked against 1000 Back units: rounded to nearest, at least 1.
RatioMilli(ppm) ==
    LET rounded == ((ProbabilityPpmScale - ppm) * MultiplierScale + ppm \div 2) \div ppm
    IN  IF rounded < 1 THEN 1 ELSE rounded

\* compute_pots: the part of each side that the other side can cover.
MatchedBack(back, doubt, ratio) ==
    Lesser(back, MulDivFloor(doubt, MultiplierScale, ratio))

MatchedDoubt(back, doubt, ratio) ==
    Lesser(doubt, MulDivFloor(MatchedBack(back, doubt, ratio), ratio, MultiplierScale))

\* Neither quotient of compute_pots overflows u64.
PotsFit(back, doubt, ratio) ==
    /\ MulDivFloor(doubt, MultiplierScale, ratio) <= U64Max
    /\ MulDivFloor(MatchedBack(back, doubt, ratio), ratio, MultiplierScale) <= U64Max

\* What one losing stake gives up: its share of the matched losing pot.
LoserForfeit(stake, matchedLosing, totalLosing) ==
    IF totalLosing = 0 THEN 0 ELSE MulDivFloor(stake, matchedLosing, totalLosing)

\* Mutation: winnings are rounded up.
WinnerWinningsRoundedUp(stake, forfeitedPot, totalWinning) ==
    IF totalWinning = 0 THEN 0
    ELSE (stake * forfeitedPot + totalWinning - 1) \div totalWinning

\* What one winning stake gains: its share of the forfeited pot.
WinnerWinnings(stake, forfeitedPot, totalWinning) ==
    IF totalWinning = 0 THEN 0 ELSE MulDivFloor(stake, forfeitedPot, totalWinning)

=============================================================================
