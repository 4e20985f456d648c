--------------------------- MODULE EscrowAccounting ---------------------------
(***************************************************************************)
(* Properties of EscrowMarket that add up over all owners or all lots, and *)
(* the reference settlement (settle_positions of math.rs, the function the *)
(* SDK and the tests compare the staged on-chain settlement with).         *)
(***************************************************************************)
EXTENDS EscrowMarket, Functions

\* The sum of f over S.
Total(f, S) == SumFunctionOnSet(f, S)

Holders == {o \in Owners : side[o] # "None"}

SideActive(s) == Total(active, {o \in Holders : side[o] = s})

\* settle_positions: the credit of each position, computed in one go.
ReferenceForfeit(o) ==
    LET back == SideActive("Back")
        doubt == SideActive("Doubt")
        matched == IF side[o] = "Back" THEN MatchedBack(back, doubt, terms.ratio)
                   ELSE MatchedDoubt(back, doubt, terms.ratio)
    IN  LoserForfeit(active[o], matched, SideActive(side[o]))

ReferenceCredit(o) ==
    LET idle == pending[o] + refundable[o]
        losers == {x \in Holders : side[x] # WinningSide}
        forfeitedPot == Total([x \in losers |-> ReferenceForfeit(x)], losers)
    IN  IF outcome = "Void" THEN active[o] + idle
        ELSE IF side[o] = WinningSide
             THEN active[o] + WinnerWinnings(active[o], forfeitedPot, SideActive(side[o])) + idle
             ELSE active[o] - ReferenceForfeit(o) + idle

\* The staged settlement agrees with the reference: in a terminal market that
\* has not started to close accounts, each position is owed, or was paid, what
\* settle_positions credits it, in whatever order entitlements were calculated.
MatchesReference ==
    Terminal /\ processed_count = position_count => \A o \in Holders :
        (IF claimed[o] THEN received[o] ELSE ClaimAmount(o)) = ReferenceCredit(o)

\* The vault against all it owes at once: until settlement ends it holds every
\* stake exactly; afterwards it covers the claims still open, and the surplus is
\* rounding, at least one unit less than there are winning positions.
VaultCoversAllClaims ==
    LET open == {o \in Holders : ~claimed[o]}
        surplus == vault - Total([o \in open |-> ClaimAmount(o)], open)
    IN  /\ state \in {"Absent", "Open", "Frozen", "Settling"} => vault = Total(total_paid, Holders)
        /\ state = "Voided" => surplus = 0
        /\ state = "Settled" => surplus = 0 \/ (surplus > 0 /\ surplus + 2 <= position_count)

\* The market totals and each position's buckets are the sums of their lots,
\* until the lots are closed.
LotSum(o, s) ==
    Total([n \in Nonces |-> lot[o][n].amount], {n \in Nonces : lot[o][n].state = s})

TotalsMatchLots ==
    /\ \A o \in Owners : ~claimed[o] =>
          /\ active[o] = LotSum(o, "Active")
          /\ pending[o] = LotSum(o, "Pending")
          /\ refundable[o] = LotSum(o, "Voided")
    /\ state \in {"Open", "Frozen", "Settling"} => \A s \in Sides :
          /\ active_total[s] = SideActive(s)
          /\ pending_total[s] = Total(pending, {o \in Holders : side[o] = s})

===============================================================================
