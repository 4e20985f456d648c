------------------------------ MODULE WagerPot ------------------------------
(***************************************************************************)
(* The peer-matched pot of a custodial market (apps/engine/src/wager/pot): *)
(* which credits settle a set of positions under an outcome.  A position   *)
(* is [state, placedAt]; its side and stake are constants of the instance, *)
(* and each belongs to a user of its own.                                  *)
(***************************************************************************)
EXTENDS Integers, FiniteSetsExt

CONSTANTS
    Positions,   \* taps that may be made
    Backers,     \* the positions on the claim's side; the others doubt it
    Stake,       \* the stake of each position
    MULT_SCALE,  \* unit of the ratio (1000 in the code)
    RatioMilli   \* doubt needed per MULT_SCALE of back, at least 1

ASSUME PotAssumption ==
    /\ IsFiniteSet(Positions) /\ Backers \subseteq Positions
    /\ Stake \in [Positions -> Nat \ {0}]
    /\ MULT_SCALE \in Nat \ {0} /\ RatioMilli \in Nat \ {0}

Doubters == Positions \ Backers

StakesOf(ps) == SumFunctionOnSet(Stake, ps)

\* How much of each side the other side covers, over the given positions.
computePots(ps) ==
    LET forPot == StakesOf(ps \cap Backers)
        againstPot == StakesOf(ps \cap Doubters)
        matchedFor == Min({forPot, (againstPot * MULT_SCALE) \div RatioMilli})
    IN  [matchedFor |-> matchedFor,
         matchedAgainst |-> Min({againstPot, (matchedFor * RatioMilli) \div MULT_SCALE})]

Placed(positions) == {p \in DOMAIN positions : positions[p].state # "none"}

\* A waiting tap has no refund but settlement's, nor has a voided one.
FullyRefunded(positions, outcome) ==
    {p \in Placed(positions) : outcome = "void" \/ positions[p].state # "active"}

\* The credits of a settlement: refunds keyed by position, payouts by user.
settlementCredits(positions, outcome) ==
    LET refunded == FullyRefunded(positions, outcome)
        active == Placed(positions) \ refunded
        pots == computePots(active)
        winners == active \cap (IF outcome = "claim_won" THEN Backers ELSE Doubters)
        losers == active \ winners
        matched == IF outcome = "claim_won" THEN pots.matchedAgainst ELSE pots.matchedFor
        forfeit(p) == (Stake[p] * matched) \div StakesOf(losers)
        forfeited == SumFunctionOnSet([p \in losers |-> forfeit(p)], losers)
        winnings(p) == (Stake[p] * forfeited) \div StakesOf(winners)
    IN  [refunds |-> {[pos |-> p, amount |-> Stake[p]] : p \in refunded}
                     \cup {c \in {[pos |-> p, amount |-> Stake[p] - forfeit(p)] : p \in losers} :
                             c.amount > 0},
         payouts |-> {[pos |-> p, amount |-> Stake[p] + winnings(p)] : p \in winners},
         voidedPending |-> {p \in Placed(positions) : positions[p].state = "pending"}]
=============================================================================
