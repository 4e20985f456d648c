------------------------ MODULE EscrowMarket_proofs ------------------------
(***************************************************************************)
(* Theorems about EscrowMarket for any number of owners, any stakes, any   *)
(* odds and every bound.                                                   *)
(*                                                                         *)
(* The accounts keep their types, no claim against a terminal market can   *)
(* fail, and the first phase of settlement cannot wedge: the inductive     *)
(* invariant, Ledger, ties the market's counters, pots and vault to sums   *)
(* over the position accounts.                                             *)
(*                                                                         *)
(* Of a whole run: no wallet pays more than it signed for, no stake is     *)
(* active through an event it was placed before, a paid position got its   *)
(* due, what a position is owed never changes, and closing the market      *)
(* leaves rounding dust only.  Each rests on a strengthening of its own,   *)
(* inductive together with Ledger.                                         *)
(*                                                                         *)
(* Of the books as a whole: every total is the sum of its lots, the vault  *)
(* covers all open claims at once, and the two-phase settlement credits    *)
(* what settle_positions computes in one pass.                             *)
(***************************************************************************)
EXTENDS EscrowAccounting, FiniteSums

\* The constants' assumptions, under one name.
LEMMA Constants ==
    /\ NumOwners \in Nat \ {0}
    /\ Amounts \subseteq Nat
    /\ Configs \subseteq LimitSettings
    /\ TermSheets \subseteq MarketTerms
    /\ ActivationDelay \in Nat /\ IntentLifetimes \subseteq Nat
    /\ MaxLots \in Nat \ {0} /\ MaxEventEpoch \in Nat /\ MaxOracleEpoch \in Nat /\ MaxTime \in Nat
  BY OwnersAssumption, AmountsAssumption, ConfigsAssumption, TermsAssumption, DelayAssumption,
     BoundsAssumption

-----------------------------------------------------------------------------
(* Type correctness *)

LEMMA InitTypeOK == Init => TypeOK
<1> SUFFICES ASSUME Init PROVE TypeOK
  OBVIOUS
<1>1. ConfigTypeOK
  BY Constants DEF Init, ConfigTypeOK, NoTime, MaybeTime
<1>a. NoTerms \in MarketTerms
  <2>1. ProbabilityPpmScale \in Int /\ ProbabilityPpmScale > 1
    BY SMT DEF ProbabilityPpmScale
  <2>2. 1 \in 1..(ProbabilityPpmScale - 1)
    BY <2>1
  <2> QED
    BY <2>2 DEF NoTerms, MarketTerms
<1>b. MarketTypeOK
  BY <1>a DEF Init, MarketTypeOK, Zero, States, Outcomes
<1>2. PositionTypeOK /\ MoneyTypeOK /\ EpochTypeOK
  BY Constants DEF Init, PositionTypeOK, MoneyTypeOK, EpochTypeOK, MaybeSides
<1>3. LotTypeOK
  BY DEF Init, LotTypeOK, NoLot, LotRecords, NoTime, MaybeTime, MaybeSides, LotStates
<1>4. IntentTypeOK
  BY Constants DEF Init, IntentTypeOK, NoIntent, IntentRecords, MaybeSides, Nonces
<1> QED
  BY <1>1, <1>b, <1>2, <1>3, <1>4 DEF TypeOK

LEMMA MatchedTypes ==
    ASSUME NEW back \in Nat, NEW doubt \in Nat, NEW ratio \in Nat \ {0}
    PROVE  /\ MatchedBack(back, doubt, ratio) \in Nat
           /\ MatchedBack(back, doubt, ratio) <= back
           /\ MatchedDoubt(back, doubt, ratio) \in Nat
           /\ MatchedDoubt(back, doubt, ratio) <= doubt
  BY FloorDiv DEF MatchedBack, MatchedDoubt, Lesser, MulDivFloor, MultiplierScale

LEMMA ForfeitType ==
    ASSUME TypeOK, NEW o \in Owners, side[o] # "None"
    PROVE  Forfeit(o) \in Nat
  BY FloorDiv DEF TypeOK, MarketTypeOK, PositionTypeOK, Forfeit, LoserForfeit, MulDivFloor, MaybeSides

LEMMA ClaimAmountType ==
    ASSUME TypeOK, NEW o \in Owners, side[o] # "None"
    PROVE  ClaimAmount(o) \in Nat
  BY FloorDiv DEF TypeOK, MarketTypeOK, PositionTypeOK, ClaimAmount, SettledClaimAmount,
     WinnerWinnings, MulDivFloor, MaybeSides

LEMMA PlaceTypeOK ==
    ASSUME TypeOK, NEW o \in Owners, PlacePosition(o)
    PROVE  TypeOK'
<1> USE DEF TypeOK
<1> DEFINE i == intent[o]
<1>0. i \in IntentRecords /\ i.side \in MaybeSides /\ i.amount \in Nat /\ i.nonce \in Nonces
  BY DEF IntentTypeOK, IntentRecords
<1>1. ConfigTypeOK'
  BY DEF PlacePosition, ConfigTypeOK, configVars
<1>2. MarketTypeOK'
  BY <1>0 DEF PlacePosition, ApplyPositionDeposit, MarketTypeOK, termVars, finalVars
<1>3. PositionTypeOK'
  BY <1>0, Constants DEF PlacePosition, ApplyPositionDeposit, PositionAccepts, PositionTypeOK, entitledVars,
     Nonces
<1>4. LotTypeOK'
  <2> DEFINE new == [state |-> IF InPlay THEN "Pending" ELSE "Active",
            side |-> i.side, amount |-> i.amount, observed |-> event_epoch, placed |-> now,
            activation |-> IF InPlay THEN now + ActivationDelay ELSE NoTime]
  <2>1. new \in LotRecords
    BY <1>0, Constants DEF LotRecords, LotStates, MaybeTime, ConfigTypeOK, EpochTypeOK
  <2>2. lot' = [lot EXCEPT ![o][i.nonce] = new]
    BY DEF PlacePosition
  <2> HIDE DEF new, i
  <2> QED
    BY <2>1, <2>2, <1>0 DEF LotTypeOK
<1>5. MoneyTypeOK'
  BY <1>0 DEF PlacePosition, TransferPrincipal, MoneyTypeOK
<1>6. IntentTypeOK' /\ EpochTypeOK'
  BY DEF PlacePosition, IntentTypeOK, EpochTypeOK, intentVars
<1> QED
  BY <1>1, <1>2, <1>3, <1>4, <1>5, <1>6

LEMMA BucketTypeOK ==
    ASSUME TypeOK, NEW o \in Owners, NEW n \in Nonces, UNCHANGED OutsideBuckets,
           NEW st \in LotStates, lot' = [lot EXCEPT ![o][n].state = st],
           \/ MovePendingToActive(o, lot[o][n].side, lot[o][n].amount)
           \/ MakeLotRefundable(o, lot[o][n].side, lot[o][n].amount, lot[o][n].state)
    PROVE  TypeOK'
<1> USE DEF TypeOK
<1>0. lot[o][n] \in LotRecords
  BY DEF LotTypeOK
<1>a. lot[o][n].amount \in Nat
  BY <1>0 DEF LotRecords
<1>1. ConfigTypeOK' /\ MoneyTypeOK' /\ IntentTypeOK' /\ EpochTypeOK'
  BY DEF OutsideBuckets, ConfigTypeOK, MoneyTypeOK, IntentTypeOK, EpochTypeOK, configVars,
     moneyVars, intentVars
<1>2. MarketTypeOK'
  BY <1>a DEF OutsideBuckets, MovePendingToActive, MakeLotRefundable, MarketTypeOK, termVars,
     finalVars
<1>3. PositionTypeOK'
  BY <1>a DEF OutsideBuckets, MovePendingToActive, MakeLotRefundable, PositionTypeOK, entitledVars
<1>4. LotTypeOK'
  <2>1. [lot[o][n] EXCEPT !.state = st] \in LotRecords
    BY <1>0 DEF LotRecords
  <2> QED
    BY <2>1 DEF LotTypeOK
<1> QED
  BY <1>1, <1>2, <1>3, <1>4

\* Every step preserves the types.
LEMMA NextTypeOK == TypeOK /\ [Next]_vars => TypeOK'
<1> SUFFICES ASSUME TypeOK, [Next]_vars PROVE TypeOK'
  OBVIOUS
<1> USE DEF TypeOK
<1> DEFINE AllTypes == /\ ConfigTypeOK' /\ MarketTypeOK' /\ PositionTypeOK' /\ LotTypeOK'
                       /\ MoneyTypeOK' /\ IntentTypeOK' /\ EpochTypeOK'
<1> USE DEF configVars, termVars, totalVars, finalVars, bucketVars, entitledVars, moneyVars,
            marketVars, positionVars, intentVars
<1>1. CASE UNCHANGED vars
  BY <1>1 DEF vars, ConfigTypeOK, MarketTypeOK, PositionTypeOK, LotTypeOK, MoneyTypeOK,
     IntentTypeOK, EpochTypeOK
<1>2. CASE Tick \/ SetPause \/ \E c \in Configs : RotateConfig(c)
  <2>1. ConfigTypeOK'
    <3>1. CASE Tick
      BY <3>1 DEF Tick, ConfigTypeOK
    <3>2. CASE SetPause
      BY <3>2 DEF SetPause, ConfigTypeOK
    <3>3. CASE \E c \in Configs : RotateConfig(c)
      BY <3>3, Constants DEF RotateConfig, ConfigTypeOK
    <3> QED
      BY <1>2, <3>1, <3>2, <3>3
  <2> QED
    BY <1>2, <2>1 DEF Tick, SetPause, RotateConfig, MarketTypeOK, PositionTypeOK, LotTypeOK,
       MoneyTypeOK, IntentTypeOK, EpochTypeOK
<1>3. ASSUME NEW a \in Times, NEW r \in Times \cup {NoTime}, RotateOracleSet(a, r)
      PROVE  TypeOK'
  <2>1. ConfigTypeOK'
    BY <1>3, Constants DEF RotateOracleSet, ConfigTypeOK, Times, MaybeTime
  <2> QED
    BY <1>3, <2>1 DEF RotateOracleSet, MarketTypeOK, PositionTypeOK, LotTypeOK,
       MoneyTypeOK, IntentTypeOK, EpochTypeOK
<1>4. ASSUME NEW t \in TermSheets, InitializeMarket(t)
      PROVE  TypeOK'
  <2>1. MarketTypeOK' /\ EpochTypeOK'
    BY <1>4, Constants DEF InitializeMarket, MarketTypeOK, EpochTypeOK, ConfigTypeOK, States
  <2> QED
    BY <1>4, <2>1 DEF InitializeMarket, ConfigTypeOK, PositionTypeOK, LotTypeOK,
       MoneyTypeOK, IntentTypeOK
<1>5. CASE FreezeMarket \/ UnfreezeMarket
  <2>1. MarketTypeOK'
    BY <1>5 DEF FreezeMarket, UnfreezeMarket, BeginEpoch, MarketTypeOK, States
  <2>2. EpochTypeOK'
    <3>1. event_epoch + 1 \in 0..MaxEventEpoch /\ now \in Nat
      BY <1>5, Constants DEF FreezeMarket, UnfreezeMarket, BeginEpoch, EpochTypeOK, ConfigTypeOK
    <3> QED
      BY <1>5, <3>1 DEF FreezeMarket, UnfreezeMarket, BeginEpoch, EpochTypeOK
  <2> QED
    BY <1>5, <2>1, <2>2 DEF FreezeMarket, UnfreezeMarket, BeginEpoch, ConfigTypeOK, PositionTypeOK,
       LotTypeOK, MoneyTypeOK, IntentTypeOK
<1>6. ASSUME NEW o \in Owners, NEW s \in Sides, NEW a \in Amounts, NEW d \in IntentLifetimes,
             SignIntent(o, s, a, d)
      PROVE  TypeOK'
  <2>1. IntentTypeOK'
    <3>1. [side |-> s, amount |-> a, nonce |-> next_nonce[o],
           epoch |-> event_epoch, expiry |-> now + d] \in IntentRecords
      BY <1>6, Constants DEF SignIntent, IntentRecords, PositionTypeOK, EpochTypeOK, ConfigTypeOK,
         Nonces, MaybeSides
    <3> QED
      BY <1>6, <3>1, Constants DEF SignIntent, IntentTypeOK
  <2> QED
    BY <1>6, <2>1 DEF SignIntent, ConfigTypeOK, MarketTypeOK, PositionTypeOK, LotTypeOK,
       MoneyTypeOK, EpochTypeOK
<1>7. ASSUME NEW o \in Owners, DropIntent(o)
      PROVE  TypeOK'
  <2>1. IntentTypeOK'
    BY <1>7, Constants DEF DropIntent, IntentTypeOK, IntentRecords, NoIntent, MaybeSides, Nonces
  <2> QED
    BY <1>7, <2>1 DEF DropIntent, ConfigTypeOK, MarketTypeOK, PositionTypeOK, LotTypeOK,
       MoneyTypeOK, EpochTypeOK
<1>8. ASSUME NEW o \in Owners, PlacePosition(o)
      PROVE  TypeOK'
  BY <1>8, PlaceTypeOK
<1>9. ASSUME NEW o \in Owners, NEW n \in Nonces, ActivatePositionLot(o, n)
      PROVE  TypeOK'
  BY <1>9, BucketTypeOK, "Active" \in LotStates DEF ActivatePositionLot, LotStates
<1>10. ASSUME NEW o \in Owners, NEW n \in Nonces, NEW e \in 1..MaxEventEpoch,
              InvalidatePositionLot(o, n, e)
      PROVE  TypeOK'
  BY <1>10, BucketTypeOK, "Voided" \in LotStates DEF InvalidatePositionLot, LotStates
<1>11. ASSUME NEW won \in BOOLEAN, SettleMarket(won)
      PROVE  TypeOK'
  <2>1. final_matched' \in [Sides -> Nat]
    BY <1>11, MatchedTypes DEF SettleMarket, MarketTypeOK, MarketTerms, Sides
  <2>2. MarketTypeOK'
    BY <1>11, <2>1 DEF SettleMarket, StateAfterSettle, MarketTypeOK, States, Outcomes
  <2> QED
    BY <1>11, <2>2 DEF SettleMarket, ConfigTypeOK, PositionTypeOK, LotTypeOK, MoneyTypeOK,
       IntentTypeOK, EpochTypeOK
<1>12. ASSUME NEW o \in Owners, CalculatePositionEntitlement(o)
      PROVE  TypeOK'
  <2>1. Forfeit(o) \in Nat
    BY <1>12, ForfeitType DEF CalculatePositionEntitlement
  <2>2. active[o] - Forfeit(o) + pending[o] + refundable[o] \in Nat
    BY <1>12, <2>1 DEF CalculatePositionEntitlement, PositionTypeOK
  <2>3. PositionTypeOK'
    BY <1>12, <2>2 DEF CalculatePositionEntitlement, PositionTypeOK
  <2>4. MarketTypeOK'
    BY <1>12, <2>1 DEF CalculatePositionEntitlement, MarketTypeOK, States
  <2> QED
    BY <1>12, <2>3, <2>4 DEF CalculatePositionEntitlement, ConfigTypeOK, LotTypeOK, MoneyTypeOK,
       IntentTypeOK, EpochTypeOK
<1>13. CASE VoidMarket \/ TimeoutVoid
  <2>1. MarketTypeOK'
    BY <1>13 DEF VoidMarket, TimeoutVoid, TransitionToVoid, Void, MarketTypeOK, States, Outcomes,
       Zero
  <2> QED
    BY <1>13, <2>1 DEF VoidMarket, TimeoutVoid, TransitionToVoid, Void, ConfigTypeOK,
       PositionTypeOK, LotTypeOK, MoneyTypeOK, IntentTypeOK, EpochTypeOK
<1>14. ASSUME NEW o \in Owners, ProcessClaim(o)
      PROVE  TypeOK'
  <2>1. ClaimAmount(o) \in Nat
    BY <1>14, ClaimAmountType DEF ProcessClaim
  <2>2. MarketTypeOK' /\ PositionTypeOK'
    BY <1>14 DEF ProcessClaim, MarketTypeOK, PositionTypeOK
  <2>3. MoneyTypeOK'
    BY <1>14, <2>1 DEF ProcessClaim, TransferClaim, MoneyTypeOK
  <2> QED
    BY <1>14, <2>2, <2>3 DEF ProcessClaim, ConfigTypeOK, LotTypeOK, IntentTypeOK, EpochTypeOK
<1>15. ASSUME NEW o \in Owners, NEW k \in 1..MaxLots, ClosePositionLots(o, k)
      PROVE  TypeOK'
  <2>1. NoLot \in LotRecords
    BY DEF NoLot, LotRecords, LotStates, MaybeSides, MaybeTime, NoTime
  <2>2. LotTypeOK'
    BY <1>15, <2>1 DEF ClosePositionLots, LotTypeOK
  <2>3. PositionTypeOK'
    BY <1>15, Constants DEF ClosePositionLots, PositionTypeOK
  <2> QED
    BY <1>15, <2>2, <2>3 DEF ClosePositionLots, ConfigTypeOK, MarketTypeOK, MoneyTypeOK,
       IntentTypeOK, EpochTypeOK
<1>16. ASSUME NEW o \in Owners, ClosePosition(o)
      PROVE  TypeOK'
  <2>1. MarketTypeOK' /\ PositionTypeOK'
    BY <1>16 DEF ClosePosition, MarketTypeOK, PositionTypeOK, MaybeSides
  <2> QED
    BY <1>16, <2>1 DEF ClosePosition, ConfigTypeOK, LotTypeOK, MoneyTypeOK, IntentTypeOK,
       EpochTypeOK
<1>17. CASE CloseMarket
  <2>1. MarketTypeOK' /\ MoneyTypeOK'
    BY <1>17 DEF CloseMarket, CloseVault, MarketTypeOK, MoneyTypeOK, States
  <2> QED
    BY <1>17, <2>1 DEF CloseMarket, ConfigTypeOK, PositionTypeOK, LotTypeOK, IntentTypeOK,
       EpochTypeOK
<1> QED
  BY <1>1, <1>2, <1>3, <1>4, <1>5, <1>6, <1>7, <1>8, <1>9, <1>10, <1>11, <1>12, <1>13, <1>14,
     <1>15, <1>16, <1>17 DEF Next, ClaimPosition, ClaimPositionFor

\* Every reachable state of the program has well-typed accounts: in particular
\* no unsigned amount, total or counter of a handler ever goes below zero.
THEOREM TypeCorrect == Spec => []TypeOK
<1>1. Init => TypeOK
  BY InitTypeOK
<1>2. TypeOK /\ [Next]_vars => TypeOK'
  BY NextTypeOK
<1> QED
  BY <1>1, <1>2, PTL DEF Spec

-----------------------------------------------------------------------------
(* The inductive invariant *)

\* Before the market is terminal.
Running == {"Absent", "Open", "Frozen", "Settling"}

\* What is summed over the position accounts.
Unclaimed == [o \in Owners |-> IF side[o] # "None" /\ ~claimed[o] THEN 1 ELSE 0]
Unprocessed == [o \in Owners |-> IF side[o] # "None" /\ ~processed[o] THEN 1 ELSE 0]
ActiveOn(s) == [o \in Owners |-> IF side[o] = s THEN active[o] ELSE 0]
UnpaidWinning == [o \in Owners |-> IF side[o] = WinningSide /\ ~claimed[o] THEN active[o] ELSE 0]
Owed == [o \in Owners |-> IF side[o] = "None" \/ claimed[o] THEN 0
                          ELSE IF processed[o] THEN base[o] ELSE total_paid[o]]

\* Where there is no account there is nothing; elsewhere the buckets add up.
PositionShape == \A o \in Owners :
    /\ side[o] = "None" =>
          /\ active[o] = 0 /\ pending[o] = 0 /\ refundable[o] = 0 /\ total_paid[o] = 0
          /\ ~processed[o] /\ ~claimed[o]
    /\ PrincipalBalances(o)

LotShape == \A o \in Owners, n \in Nonces :
    /\ lot[o][n].state # "None" => side[o] # "None" /\ lot[o][n].side = side[o]
    /\ n >= next_nonce[o] => lot[o][n].state = "None"

IntentShape == \A o \in Owners : intent[o].amount > 0 => intent[o].side \in Sides

\* What the state of the market says about the positions.
PhaseShape ==
    /\ state \in {"Absent", "Open", "Frozen"} => processed_count = 0
    /\ state \in {"Absent", "Open", "Frozen", "Voided"} =>
          final_forfeited = 0 /\ \A o \in Owners : ~processed[o]
    /\ state \in Running => \A o \in Owners : ~claimed[o]
    /\ state = "Settled" => \A o \in Owners : side[o] # "None" => processed[o]

CountsAddUp ==
    /\ HasSum(NumOwners, Unclaimed, position_count - claimed_count)
    /\ state \in Running => HasSum(NumOwners, Unprocessed, position_count - processed_count)
    /\ state = "Settling" => processed_count < position_count

PotsAddUp ==
    /\ state \in Running => \A s \in Sides : HasSum(NumOwners, ActiveOn(s), active_total[s])
    /\ state = "Settling" => \A s \in Sides : final_matched[s] <= active_total[s]

\* Once settled, the vault holds the base entitlements and a rest that covers
\* the unpaid winners' share of the forfeited pot.
RestCovers(rest, unpaid) ==
    /\ HasSum(NumOwners, Owed, vault - rest)
    /\ HasSum(NumOwners, UnpaidWinning, unpaid)
    /\ final_forfeited * unpaid <= rest * active_total[WinningSide]

VaultAddsUp ==
    /\ state \in Running \cup {"Voided"} => HasSum(NumOwners, Owed, vault - final_forfeited)
    /\ state = "Settled" => \E rest \in Nat, unpaid \in Nat : RestCovers(rest, unpaid)

Ledger ==
    /\ TypeOK
    /\ PositionShape
    /\ LotShape
    /\ IntentShape
    /\ PhaseShape
    /\ CountsAddUp
    /\ PotsAddUp
    /\ VaultAddsUp

-----------------------------------------------------------------------------
(* Lemmas *)

LEMMA Indices == NumOwners \in Nat /\ Owners = 1..NumOwners
  BY Constants DEF Owners

LEMMA SummandTypes ==
    /\ TypeOK => /\ Unclaimed \in [1..NumOwners -> Nat]
                 /\ Unprocessed \in [1..NumOwners -> Nat]
                 /\ UnpaidWinning \in [1..NumOwners -> Nat]
                 /\ Owed \in [1..NumOwners -> Nat]
                 /\ \A s \in Sides : ActiveOn(s) \in [1..NumOwners -> Nat]
    /\ TypeOK' => /\ Unclaimed' \in [1..NumOwners -> Nat]
                  /\ Unprocessed' \in [1..NumOwners -> Nat]
                  /\ UnpaidWinning' \in [1..NumOwners -> Nat]
                  /\ Owed' \in [1..NumOwners -> Nat]
                  /\ \A s \in Sides : ActiveOn(s)' \in [1..NumOwners -> Nat]
<1> USE DEF TypeOK, PositionTypeOK, Unclaimed, Unprocessed, UnpaidWinning, Owed, ActiveOn, Owners
<1>1. TypeOK => /\ Unclaimed \in [1..NumOwners -> Nat]
                /\ Unprocessed \in [1..NumOwners -> Nat]
                /\ UnpaidWinning \in [1..NumOwners -> Nat]
                /\ Owed \in [1..NumOwners -> Nat]
                /\ \A s \in Sides : ActiveOn(s) \in [1..NumOwners -> Nat]
  OBVIOUS
<1>2. TypeOK' => /\ Unclaimed' \in [1..NumOwners -> Nat]
                 /\ Unprocessed' \in [1..NumOwners -> Nat]
                 /\ UnpaidWinning' \in [1..NumOwners -> Nat]
                 /\ Owed' \in [1..NumOwners -> Nat]
                 /\ \A s \in Sides : ActiveOn(s)' \in [1..NumOwners -> Nat]
  OBVIOUS
<1> QED
  BY <1>1, <1>2

\* A share of a pot that is not larger than the whole is not larger than the stake.
LEMMA ShareBound ==
    ASSUME NEW a \in Nat, NEW m \in Nat, NEW t \in Nat \ {0}, m <= t
    PROVE  MulDivFloor(a, m, t) \in Nat /\ MulDivFloor(a, m, t) <= a
<1> DEFINE q == (a * m) \div t
<1>1. a * m \in Nat /\ a * m <= t * a
  OBVIOUS
<1>2. q \in Nat /\ t * q <= a * m
  BY <1>1, FloorDiv
<1>3. t * q <= t * a
  BY <1>1, <1>2
<1> HIDE DEF q
<1>4. q <= a
  BY <1>2, <1>3
<1> QED
  BY <1>2, <1>4 DEF MulDivFloor, q

\* Paying one winner's share out of a sufficient rest leaves a sufficient rest.
LEMMA PayShare ==
    ASSUME NEW F \in Nat, NEW W \in Nat \ {0}, NEW U \in Nat, NEW R \in Nat, NEW a \in Nat,
           a <= U, F * U <= R * W
    PROVE  /\ MulDivFloor(a, F, W) \in Nat
           /\ MulDivFloor(a, F, W) <= R
           /\ F * (U - a) <= (R - MulDivFloor(a, F, W)) * W
<1> DEFINE w == (a * F) \div W
<1>1. a * F \in Nat /\ a * F <= F * U
  OBVIOUS
<1>2. w \in Nat /\ W * w <= a * F
  BY <1>1, FloorDiv
<1> HIDE DEF w
<1>3. W * w <= R * W
  BY <1>1, <1>2
<1>4. w <= R
  BY <1>2, <1>3
<1>5. F * (U - a) = F * U - a * F /\ (R - w) * W = R * W - W * w
  BY <1>2
<1>6. F * (U - a) <= (R - w) * W
  BY <1>1, <1>2, <1>5
<1> QED
  BY <1>2, <1>4, <1>6 DEF MulDivFloor, w

-----------------------------------------------------------------------------
(* The invariant holds initially and every action preserves it *)

LEMMA InitLedger == Init => Ledger
<1> SUFFICES ASSUME Init PROVE Ledger
  OBVIOUS
<1>1. TypeOK
  BY InitTypeOK
<1>2. PositionShape /\ IntentShape /\ PhaseShape
  BY DEF Init, PositionShape, IntentShape, PhaseShape, PrincipalBalances, NoIntent, Running
<1>3. LotShape
  BY DEF Init, LotShape, NoLot
<1>4. HasSum(NumOwners, Unclaimed, 0) /\ HasSum(NumOwners, Unprocessed, 0) /\ HasSum(NumOwners, Owed, 0)
  <2>1. \A i \in 1..NumOwners : Unclaimed[i] = 0 /\ Unprocessed[i] = 0 /\ Owed[i] = 0
    BY Indices DEF Init, Unclaimed, Unprocessed, Owed
  <2> QED
    BY <2>1, SumZero, Indices
<1>5. \A s \in Sides : HasSum(NumOwners, ActiveOn(s), 0)
  <2> TAKE s \in Sides
  <2>1. \A i \in 1..NumOwners : ActiveOn(s)[i] = 0
    BY Indices DEF Init, ActiveOn
  <2> QED
    BY <2>1, SumZero, Indices
<1>6. CountsAddUp /\ PotsAddUp /\ VaultAddsUp
  <2>1. position_count - claimed_count = 0 /\ position_count - processed_count = 0
        /\ vault - final_forfeited = 0 /\ state = "Absent" /\ active_total = Zero
    BY DEF Init
  <2> QED
    BY <1>4, <1>5, <2>1 DEF CountsAddUp, PotsAddUp, VaultAddsUp, Zero
<1> QED
  BY <1>1, <1>2, <1>3, <1>6 DEF Ledger

\* Steps that move no money and touch no position: administration, signing,
\* opening, freezing and unfreezing, and stuttering.
LEMMA QuietLedger ==
    ASSUME Ledger, TypeOK', IntentShape',
           UNCHANGED <<positionVars, totalVars, finalVars, claimed_count, vault>>,
           state' = state \/ (state \in {"Absent", "Open", "Frozen"} /\ state' \in {"Open", "Frozen"})
    PROVE  Ledger'
<1> USE DEF positionVars, bucketVars, entitledVars, totalVars, finalVars
<1>1. PositionShape' /\ PhaseShape'
  BY DEF Ledger, PositionShape, PhaseShape, PrincipalBalances, Running
<1>2. LotShape'
  BY DEF Ledger, LotShape
<1>3. /\ Unclaimed' = Unclaimed /\ Unprocessed' = Unprocessed /\ Owed' = Owed
      /\ UnpaidWinning' = UnpaidWinning /\ \A s \in Sides : ActiveOn(s)' = ActiveOn(s)
  BY DEF Unclaimed, Unprocessed, Owed, UnpaidWinning, ActiveOn, WinningSide
<1>4. CountsAddUp' /\ PotsAddUp' /\ VaultAddsUp'
  BY <1>3 DEF Ledger, CountsAddUp, PotsAddUp, VaultAddsUp, RestCovers, Running, WinningSide
<1> QED
  BY <1>1, <1>2, <1>4 DEF Ledger

LEMMA PlaceLedger ==
    ASSUME Ledger, TypeOK', NEW o \in Owners, PlacePosition(o)
    PROVE  Ledger'
<1> DEFINE a == intent[o].amount
<1> DEFINE s == intent[o].side
<1>1. a \in Nat /\ a > 0 /\ s \in Sides /\ (side[o] # "None" => side[o] = s) /\ s # "None"
  BY DEF Ledger, TypeOK, IntentTypeOK, IntentRecords, PlacePosition, AmountAllowed,
     PositionAccepts, IntentShape, Sides
<1>2. state = "Open" /\ state' = state /\ next_nonce[o] = intent[o].nonce
      /\ intent[o].nonce \in Nonces
  BY DEF PlacePosition, WindowOpen, PositionAccepts, Ledger, TypeOK, IntentTypeOK, IntentRecords
<1>3. /\ side' = [side EXCEPT ![o] = s]
      /\ total_paid' = [total_paid EXCEPT ![o] = @ + a]
      /\ next_nonce' = [next_nonce EXCEPT ![o] = @ + 1]
      /\ position_count' = IF side[o] = "None" THEN position_count + 1 ELSE position_count
      /\ vault' = vault + a
      /\ UNCHANGED <<refundable, base, processed, claimed, intent, claimed_count,
                     final_matched, final_forfeited, processed_count, outcome>>
  BY DEF PlacePosition, ApplyPositionDeposit, TransferPrincipal, entitledVars, intentVars, finalVars
<1>4. \/ /\ pending' = [pending EXCEPT ![o] = @ + a]
         /\ UNCHANGED <<active, active_total>>
      \/ /\ active' = [active EXCEPT ![o] = @ + a]
         /\ active_total' = [active_total EXCEPT ![s] = @ + a]
         /\ UNCHANGED pending
  BY DEF PlacePosition, ApplyPositionDeposit
<1> DEFINE new == [state |-> IF InPlay THEN "Pending" ELSE "Active",
                   side |-> s, amount |-> a, observed |-> event_epoch, placed |-> now,
                   activation |-> IF InPlay THEN now + ActivationDelay ELSE NoTime]
<1>5. lot' = [lot EXCEPT ![o][intent[o].nonce] = new] /\ new.side = s
  BY DEF PlacePosition
<1>6. \A x \in Owners : ~claimed[x] /\ ~processed[x]
  BY <1>2 DEF Ledger, PhaseShape, Running
<1> HIDE DEF a, s, new
<1>p. /\ side \in [Owners -> MaybeSides] /\ active \in [Owners -> Nat] /\ pending \in [Owners -> Nat]
      /\ refundable \in [Owners -> Nat] /\ total_paid \in [Owners -> Nat]
      /\ next_nonce \in [Owners -> 0..MaxLots]
      /\ active_total \in [Sides -> Nat] /\ vault \in Nat /\ final_forfeited \in Nat
      /\ position_count \in Nat /\ claimed_count \in Nat /\ processed_count \in Nat
      /\ lot \in [Owners -> [Nonces -> LotRecords]]
  BY DEF Ledger, TypeOK, PositionTypeOK, MarketTypeOK, MoneyTypeOK, LotTypeOK
<1>7. PositionShape'
  <2> SUFFICES ASSUME NEW x \in Owners
               PROVE  /\ side'[x] = "None" =>
                            /\ active'[x] = 0 /\ pending'[x] = 0 /\ refundable'[x] = 0
                            /\ total_paid'[x] = 0 /\ ~processed'[x] /\ ~claimed'[x]
                      /\ active'[x] + pending'[x] + refundable'[x] = total_paid'[x]
    BY DEF PositionShape, PrincipalBalances
  <2>1. CASE x = o
    <3>1. active[o] + pending[o] + refundable[o] = total_paid[o] /\ side'[o] = s
      BY <1>3, <1>p DEF Ledger, PositionShape, PrincipalBalances
    <3>2. active'[o] + pending'[o] = active[o] + pending[o] + a
      BY <1>1, <1>4, <1>p
    <3>3. active'[o] + pending'[o] + refundable'[o] = total_paid'[o]
      BY <3>1, <3>2, <1>1, <1>3, <1>p
    <3> QED
      BY <2>1, <3>1, <3>3, <1>1
  <2>2. CASE x # o
    BY <2>2, <1>3, <1>4, <1>p DEF Ledger, PositionShape, PrincipalBalances
  <2> QED
    BY <2>1, <2>2
<1>8. LotShape'
  <2> SUFFICES ASSUME NEW x \in Owners, NEW n \in Nonces
               PROVE  /\ lot'[x][n].state # "None" => side'[x] # "None" /\ lot'[x][n].side = side'[x]
                      /\ n >= next_nonce'[x] => lot'[x][n].state = "None"
    BY DEF LotShape
  <2>1. CASE x # o
    BY <2>1, <1>3, <1>5, <1>p DEF Ledger, LotShape
  <2>2. CASE x = o /\ n # intent[o].nonce
    <3>1. lot'[x][n] = lot[x][n] /\ side'[x] = s
      BY <2>2, <1>3, <1>5, <1>p
    <3>2. n >= next_nonce'[x] => n >= next_nonce[x]
      BY <2>2, <1>3, <1>p DEF Nonces
    <3> QED
      BY <3>1, <3>2, <2>2, <1>1 DEF Ledger, LotShape
  <2>3. CASE x = o /\ n = intent[o].nonce
    <3>1. lot'[x][n] = new /\ side'[x] = s
      BY <2>3, <1>3, <1>5, <1>p
    <3>2. ~(n >= next_nonce'[x])
      BY <2>3, <1>2, <1>3, <1>p DEF Nonces
    <3> QED
      BY <3>1, <3>2, <1>5, <1>1
  <2> QED
    BY <2>1, <2>2, <2>3
<1>9. IntentShape' /\ PhaseShape'
  BY <1>2, <1>3 DEF Ledger, IntentShape, PhaseShape, Running
<1>10. CountsAddUp'
  <2>1. /\ \A i \in 1..NumOwners : i # o => Unclaimed'[i] = Unclaimed[i] /\ Unprocessed'[i] = Unprocessed[i]
        /\ Unclaimed'[o] = 1 /\ Unprocessed'[o] = 1
        /\ Unclaimed[o] = (IF side[o] = "None" THEN 0 ELSE 1)
        /\ Unprocessed[o] = (IF side[o] = "None" THEN 0 ELSE 1)
    BY <1>1, <1>3, <1>6, <1>p, Indices DEF Unclaimed, Unprocessed
  <2>2. /\ HasSum(NumOwners, Unclaimed', (position_count - claimed_count) - Unclaimed[o] + Unclaimed'[o])
        /\ HasSum(NumOwners, Unprocessed', (position_count - processed_count) - Unprocessed[o] + Unprocessed'[o])
    BY <2>1, <1>2, SumChange, SummandTypes, Indices DEF Ledger, CountsAddUp, Running
  <2>3. /\ (position_count - claimed_count) - Unclaimed[o] + Unclaimed'[o] = position_count' - claimed_count'
        /\ (position_count - processed_count) - Unprocessed[o] + Unprocessed'[o] = position_count' - processed_count'
    BY <2>1, <1>3, <1>p
  <2> QED
    BY <2>2, <2>3, <1>2 DEF CountsAddUp
<1>11. PotsAddUp'
  <2> SUFFICES ASSUME NEW z \in Sides
               PROVE  HasSum(NumOwners, ActiveOn(z)', active_total'[z])
    BY <1>2 DEF PotsAddUp
  <2>0. HasSum(NumOwners, ActiveOn(z), active_total[z]) /\ active_total[z] \in Nat
    BY <1>2, <1>p DEF Ledger, PotsAddUp, Running
  <2>1. \A i \in 1..NumOwners : i # o => ActiveOn(z)'[i] = ActiveOn(z)[i]
    BY <1>3, <1>4, <1>p, Indices DEF ActiveOn
  <2>2. ActiveOn(z)[o] = (IF z = s THEN active[o] ELSE 0)
        /\ ActiveOn(z)'[o] = (IF z = s THEN active'[o] ELSE 0)
    BY <1>1, <1>3, <1>p DEF ActiveOn, Ledger, PositionShape
  <2>3. active_total[z] - ActiveOn(z)[o] + ActiveOn(z)'[o] = active_total'[z]
    <3>1. CASE z = s
      BY <3>1, <2>0, <2>2, <1>1, <1>4, <1>p
    <3>2. CASE z # s
      BY <3>2, <2>0, <2>2, <1>1, <1>4, <1>p
    <3> QED
      BY <3>1, <3>2
  <2> QED
    BY <2>0, <2>1, <2>3, SumChange, SummandTypes, Indices DEF Ledger
<1>12. VaultAddsUp'
  <2>0. HasSum(NumOwners, Owed, vault - final_forfeited)
    BY <1>2 DEF Ledger, VaultAddsUp, Running
  <2>1. /\ \A i \in 1..NumOwners : i # o => Owed'[i] = Owed[i]
        /\ Owed[o] = total_paid[o] /\ Owed'[o] = total_paid[o] + a
    BY <1>1, <1>3, <1>6, <1>p, Indices DEF Owed, Ledger, PositionShape
  <2>2. (vault - final_forfeited) - Owed[o] + Owed'[o] = vault' - final_forfeited'
    BY <2>1, <1>1, <1>3, <1>p
  <2>3. HasSum(NumOwners, Owed', vault' - final_forfeited')
    BY <2>0, <2>1, <2>2, SumChange, SummandTypes, Indices DEF Ledger
  <2> QED
    BY <2>3, <1>2 DEF VaultAddsUp
<1> QED
  BY <1>7, <1>8, <1>9, <1>10, <1>11, <1>12 DEF Ledger

\* Activation and invalidation move a lot between the buckets of its position
\* and of its side.
LEMMA BucketLedger ==
    ASSUME Ledger, TypeOK', NEW o \in Owners, NEW n \in Nonces, UNCHANGED OutsideBuckets,
           state \in {"Open", "Frozen"},
           NEW st, lot' = [lot EXCEPT ![o][n].state = st], lot[o][n].state # "None",
           \/ MovePendingToActive(o, lot[o][n].side, lot[o][n].amount)
           \/ MakeLotRefundable(o, lot[o][n].side, lot[o][n].amount, lot[o][n].state)
    PROVE  Ledger'
<1> USE DEF OutsideBuckets, finalVars, entitledVars, moneyVars, intentVars
<1> DEFINE a == lot[o][n].amount
<1> DEFINE s == lot[o][n].side
<1>p. /\ side \in [Owners -> MaybeSides] /\ active \in [Owners -> Nat] /\ pending \in [Owners -> Nat]
      /\ refundable \in [Owners -> Nat] /\ total_paid \in [Owners -> Nat]
      /\ next_nonce \in [Owners -> 0..MaxLots]
      /\ active_total \in [Sides -> Nat]
      /\ lot \in [Owners -> [Nonces -> LotRecords]]
  BY DEF Ledger, TypeOK, PositionTypeOK, MarketTypeOK, LotTypeOK
<1>q. active' \in [Owners -> Nat] /\ pending' \in [Owners -> Nat] /\ refundable' \in [Owners -> Nat]
      /\ active_total' \in [Sides -> Nat]
  BY DEF TypeOK, PositionTypeOK, MarketTypeOK
<1>1. a \in Nat /\ s = side[o] /\ side[o] # "None" /\ s \in Sides
  BY <1>p DEF LotRecords, Ledger, LotShape, MaybeSides
<1>2. /\ \A x \in Owners : x # o => active'[x] = active[x] /\ pending'[x] = pending[x]
                                    /\ refundable'[x] = refundable[x]
      /\ \A z \in Sides : z # s => active_total'[z] = active_total[z]
      /\ active'[o] + pending'[o] + refundable'[o] = active[o] + pending[o] + refundable[o]
      /\ active'[o] - active[o] = active_total'[s] - active_total[s]
  <2>1. CASE MovePendingToActive(o, s, a)
    BY <2>1, <1>1, <1>p, <1>q DEF MovePendingToActive
  <2>2. CASE MakeLotRefundable(o, s, a, lot[o][n].state)
    BY <2>2, <1>1, <1>p, <1>q DEF MakeLotRefundable
  <2> QED
    BY <2>1, <2>2
<1> HIDE DEF a, s
<1>3. PositionShape'
  <2> SUFFICES ASSUME NEW x \in Owners
               PROVE  /\ side'[x] = "None" =>
                            /\ active'[x] = 0 /\ pending'[x] = 0 /\ refundable'[x] = 0
                            /\ total_paid'[x] = 0 /\ ~processed'[x] /\ ~claimed'[x]
                      /\ active'[x] + pending'[x] + refundable'[x] = total_paid'[x]
    BY DEF PositionShape, PrincipalBalances
  <2>1. CASE x = o
    BY <2>1, <1>1, <1>2 DEF Ledger, PositionShape, PrincipalBalances
  <2>2. CASE x # o
    BY <2>2, <1>2 DEF Ledger, PositionShape, PrincipalBalances
  <2> QED
    BY <2>1, <2>2
<1>4. LotShape'
  <2> SUFFICES ASSUME NEW x \in Owners, NEW m \in Nonces
               PROVE  /\ lot'[x][m].state # "None" => side'[x] # "None" /\ lot'[x][m].side = side'[x]
                      /\ m >= next_nonce'[x] => lot'[x][m].state = "None"
    BY DEF LotShape
  <2>0. ~(n >= next_nonce[o])
    BY DEF Ledger, LotShape
  <2>1. CASE x = o /\ m = n
    <3>1. lot'[x][m] = [lot[o][n] EXCEPT !.state = st] /\ lot[o][n] \in LotRecords
      BY <2>1, <1>p
    <3>2. lot'[x][m].side = lot[o][n].side
      BY <3>1 DEF LotRecords
    <3> QED
      BY <3>2, <2>0, <2>1, <1>1 DEF s
  <2>2. CASE ~(x = o /\ m = n)
    <3>1. lot'[x][m] = lot[x][m]
      BY <2>2, <1>p
    <3> QED
      BY <3>1 DEF Ledger, LotShape
  <2> QED
    BY <2>1, <2>2
<1>5. IntentShape' /\ PhaseShape'
  BY DEF Ledger, IntentShape, PhaseShape
<1>6. Unclaimed' = Unclaimed /\ Unprocessed' = Unprocessed /\ Owed' = Owed
  BY DEF Unclaimed, Unprocessed, Owed
<1>7. CountsAddUp'
  BY <1>6 DEF Ledger, CountsAddUp
<1>8. PotsAddUp'
  <2> SUFFICES ASSUME NEW z \in Sides PROVE HasSum(NumOwners, ActiveOn(z)', active_total'[z])
    BY DEF PotsAddUp
  <2>0. HasSum(NumOwners, ActiveOn(z), active_total[z]) /\ active_total[z] \in Nat
    BY <1>p DEF Ledger, PotsAddUp, Running
  <2>1. \A i \in 1..NumOwners : i # o => ActiveOn(z)'[i] = ActiveOn(z)[i]
    BY <1>2, Indices DEF ActiveOn
  <2>2. ActiveOn(z)[o] = (IF z = s THEN active[o] ELSE 0)
        /\ ActiveOn(z)'[o] = (IF z = s THEN active'[o] ELSE 0)
    BY <1>1 DEF ActiveOn
  <2>3. active_total[z] - ActiveOn(z)[o] + ActiveOn(z)'[o] = active_total'[z]
    <3>1. CASE z = s
      <4>1. active[o] \in Nat /\ active'[o] \in Nat /\ active_total[s] \in Nat /\ active_total'[s] \in Nat
        BY <1>1, <1>p, <1>q
      <4>2. active_total[s] - active[o] + active'[o] = active_total'[s]
        BY <4>1, <1>2
      <4> QED
        BY <3>1, <2>2, <4>2
    <3>2. CASE z # s
      BY <3>2, <2>0, <2>2, <1>2, <1>p, <1>q
    <3> QED
      BY <3>1, <3>2
  <2> QED
    BY <2>0, <2>1, <2>3, SumChange, SummandTypes, Indices DEF Ledger
<1>9. VaultAddsUp'
  BY <1>6 DEF Ledger, VaultAddsUp, Running
<1> QED
  BY <1>3, <1>4, <1>5, <1>7, <1>8, <1>9 DEF Ledger

LEMMA SettleLedger ==
    ASSUME Ledger, TypeOK', NEW won \in BOOLEAN, SettleMarket(won)
    PROVE  Ledger' /\ RestCovers(final_forfeited, active_total[WinningSide])'
<1> USE DEF positionVars, bucketVars, entitledVars, totalVars, moneyVars, intentVars, termVars
<1>p. /\ active_total \in [Sides -> Nat] /\ vault \in Nat /\ final_forfeited \in Nat
      /\ position_count \in Nat /\ claimed_count \in Nat /\ processed_count \in Nat
      /\ terms.ratio \in Nat \ {0}
  BY DEF Ledger, TypeOK, MarketTypeOK, MoneyTypeOK, MarketTerms
<1>0. /\ state \in {"Open", "Frozen"} /\ state \in Running
      /\ state' = IF position_count = 0 THEN "Settled" ELSE "Settling"
      /\ processed_count = 0 /\ processed_count' = 0
      /\ final_forfeited = 0 /\ final_forfeited' = 0
      /\ \A o \in Owners : ~claimed[o] /\ ~processed[o]
      /\ UNCHANGED <<side, active, pending, refundable, total_paid, base, processed, next_nonce,
                     claimed, lot, intent, active_total, position_count, claimed_count, vault>>
  BY DEF SettleMarket, StateAfterSettle, Ledger, PhaseShape, Running
<1>1. PositionShape' /\ IntentShape'
  BY <1>0 DEF Ledger, PositionShape, IntentShape, PrincipalBalances
<1>2. LotShape'
  BY <1>0 DEF Ledger, LotShape
<1>3. /\ Unclaimed' = Unclaimed /\ Unprocessed' = Unprocessed /\ Owed' = Owed
      /\ \A s \in Sides : ActiveOn(s)' = ActiveOn(s)
  BY <1>0 DEF Unclaimed, Unprocessed, Owed, ActiveOn
<1>4. \A s \in Sides : final_matched'[s] <= active_total[s]
  BY <1>p, MatchedTypes DEF SettleMarket, Sides
<1>5. CountsAddUp'
  BY <1>0, <1>3, <1>p DEF Ledger, CountsAddUp, Running
<1>6. PotsAddUp'
  BY <1>0, <1>3, <1>4 DEF Ledger, PotsAddUp, Running
<1>7. PhaseShape'
  <2>1. ASSUME position_count = 0, NEW o \in Owners PROVE side[o] = "None"
    <3>1. HasSum(NumOwners, Unprocessed, 0)
      BY <2>1, <1>0 DEF Ledger, CountsAddUp
    <3>2. Unprocessed[o] <= 0
      BY <3>1, SumBound, SummandTypes, Indices DEF Ledger
    <3> QED
      BY <3>2, <1>0 DEF Unprocessed
  <2> QED
    BY <1>0, <2>1 DEF PhaseShape, Running
<1>8. VaultAddsUp' /\ RestCovers(final_forfeited, active_total[WinningSide])'
  <2>1. HasSum(NumOwners, Owed', vault' - final_forfeited')
    BY <1>0, <1>3 DEF Ledger, VaultAddsUp
  <2>2. HasSum(NumOwners, UnpaidWinning', active_total'[WinningSide'])
    <3>1. WinningSide' \in Sides
      BY DEF WinningSide, Sides
    <3>2. UnpaidWinning' = [o \in Owners |-> IF side[o] = WinningSide' THEN active[o] ELSE 0]
      BY <1>0 DEF UnpaidWinning
    <3>3. \A s \in Sides : HasSum(NumOwners, [o \in Owners |-> IF side[o] = s THEN active[o] ELSE 0], active_total[s])
      BY <1>0 DEF Ledger, PotsAddUp, ActiveOn
    <3> HIDE DEF WinningSide
    <3> QED
      BY <3>1, <3>2, <3>3, <1>0
  <2>3. active_total'[WinningSide'] \in Nat
    BY <1>p, <1>0 DEF WinningSide, Sides
  <2>4. RestCovers(final_forfeited, active_total[WinningSide])'
    BY <2>1, <2>2, <2>3, <1>0 DEF RestCovers
  <2>5. final_forfeited' \in Nat
    BY <1>0
  <2> QED
    BY <2>1, <2>3, <2>4, <2>5 DEF VaultAddsUp
<1> QED
  BY <1>1, <1>2, <1>5, <1>6, <1>7, <1>8 DEF Ledger

LEMMA CalculateLedger ==
    ASSUME Ledger, TypeOK', NEW o \in Owners, CalculatePositionEntitlement(o)
    PROVE  Ledger' /\ RestCovers(final_forfeited, active_total[WinningSide])'
<1> USE DEF bucketVars, totalVars, moneyVars, intentVars, termVars
<1>p. /\ active \in [Owners -> Nat] /\ pending \in [Owners -> Nat] /\ refundable \in [Owners -> Nat]
      /\ total_paid \in [Owners -> Nat] /\ base \in [Owners -> Nat]
      /\ processed \in [Owners -> BOOLEAN]
      /\ active_total \in [Sides -> Nat] /\ vault \in Nat /\ final_forfeited \in Nat
      /\ position_count \in Nat /\ claimed_count \in Nat /\ processed_count \in Nat
  BY DEF Ledger, TypeOK, MarketTypeOK, MoneyTypeOK, PositionTypeOK
<1>0. /\ state = "Settling" /\ side[o] # "None" /\ ~processed[o]
      /\ state' = IF processed_count + 1 = position_count THEN "Settled" ELSE "Settling"
      /\ processed_count + 1 <= position_count
      /\ processed_count' = processed_count + 1
      /\ processed' = [processed EXCEPT ![o] = TRUE]
      /\ \A x \in Owners : ~claimed[x]
      /\ UNCHANGED <<side, active, pending, refundable, total_paid, next_nonce, final_matched,
                     claimed, lot, intent, active_total, position_count, claimed_count, vault, outcome>>
  BY DEF CalculatePositionEntitlement, Ledger, PhaseShape, Running
<1>f. Forfeit(o) \in Nat /\ Forfeit(o) <= active[o]
  BY <1>0, ForfeitType DEF CalculatePositionEntitlement, Ledger
<1> DEFINE f == Forfeit(o)
<1> HIDE DEF f
<1>g. /\ final_forfeited' = final_forfeited + f
      /\ base' = [base EXCEPT ![o] = active[o] - f + pending[o] + refundable[o]]
  BY DEF CalculatePositionEntitlement, f
<1>1. PositionShape' /\ IntentShape'
  BY <1>0, <1>p DEF Ledger, PositionShape, IntentShape, PrincipalBalances
<1>2. LotShape'
  BY <1>0 DEF Ledger, LotShape
<1>3. Unclaimed' = Unclaimed /\ \A s \in Sides : ActiveOn(s)' = ActiveOn(s)
  BY <1>0 DEF Unclaimed, ActiveOn
<1>4. HasSum(NumOwners, Unprocessed', position_count' - processed_count')
  <2>1. /\ \A i \in 1..NumOwners : i # o => Unprocessed'[i] = Unprocessed[i]
        /\ Unprocessed'[o] = 0 /\ Unprocessed[o] = 1
    BY <1>0, <1>p, Indices DEF Unprocessed
  <2>2. HasSum(NumOwners, Unprocessed', (position_count - processed_count) - Unprocessed[o] + Unprocessed'[o])
    BY <2>1, <1>0, SumChange, SummandTypes, Indices DEF Ledger, CountsAddUp, Running
  <2>3. (position_count - processed_count) - Unprocessed[o] + Unprocessed'[o] = position_count' - processed_count'
    BY <2>1, <1>0, <1>p
  <2> QED
    BY <2>2, <2>3
<1>5. CountsAddUp'
  <2>1. HasSum(NumOwners, Unclaimed', position_count' - claimed_count')
    BY <1>0, <1>3 DEF Ledger, CountsAddUp
  <2>2. state' = "Settling" => processed_count' < position_count'
    BY <1>0, <1>p
  <2> QED
    BY <1>4, <2>1, <2>2 DEF CountsAddUp
<1>6. PotsAddUp'
  BY <1>0, <1>3 DEF Ledger, PotsAddUp, Running
<1>7. PhaseShape'
  <2>1. ASSUME state' = "Settled", NEW x \in Owners, side[x] # "None" PROVE processed'[x]
    <3>1. position_count' - processed_count' = 0
      BY <2>1, <1>0, <1>p
    <3>2. Unprocessed'[x] <= 0
      BY <3>1, <1>4, SumBound, SummandTypes, Indices
    <3> QED
      BY <3>2, <2>1, <1>0 DEF Unprocessed
  <2> QED
    BY <1>0, <2>1 DEF PhaseShape, Running
<1>8. HasSum(NumOwners, Owed', vault' - final_forfeited')
  <2>0. HasSum(NumOwners, Owed, vault - final_forfeited)
    BY <1>0 DEF Ledger, VaultAddsUp, Running
  <2>1. /\ \A i \in 1..NumOwners : i # o => Owed'[i] = Owed[i]
        /\ Owed[o] = total_paid[o]
        /\ Owed'[o] = active[o] - f + pending[o] + refundable[o]
    BY <1>0, <1>g, <1>p, Indices DEF Owed
  <2>2. active[o] + pending[o] + refundable[o] = total_paid[o]
    BY DEF Ledger, PositionShape, PrincipalBalances
  <2>3. (vault - final_forfeited) - Owed[o] + Owed'[o] = vault' - final_forfeited'
    <3>1. f \in Nat /\ active[o] \in Nat /\ pending[o] \in Nat /\ refundable[o] \in Nat
      BY <1>f, <1>p DEF f
    <3> QED
      BY <3>1, <2>1, <2>2, <1>0, <1>g, <1>p
  <2> QED
    BY <2>0, <2>1, <2>3, SumChange, SummandTypes, Indices DEF Ledger
<1>9. VaultAddsUp' /\ RestCovers(final_forfeited, active_total[WinningSide])'
  <2>1. HasSum(NumOwners, UnpaidWinning', active_total'[WinningSide'])
    <3>1. WinningSide' \in Sides
      BY DEF WinningSide, Sides
    <3>2. UnpaidWinning' = [x \in Owners |-> IF side[x] = WinningSide' THEN active[x] ELSE 0]
      BY <1>0 DEF UnpaidWinning
    <3>3. \A s \in Sides : HasSum(NumOwners, [x \in Owners |-> IF side[x] = s THEN active[x] ELSE 0], active_total[s])
      BY <1>0 DEF Ledger, PotsAddUp, ActiveOn, Running
    <3> HIDE DEF WinningSide
    <3> QED
      BY <3>1, <3>2, <3>3, <1>0
  <2>2. active_total'[WinningSide'] \in Nat /\ final_forfeited' \in Nat
    BY <1>p, <1>0 DEF WinningSide, Sides, TypeOK, MarketTypeOK
  <2>3. RestCovers(final_forfeited, active_total[WinningSide])'
    BY <1>8, <2>1, <2>2 DEF RestCovers
  <2> QED
    BY <1>8, <2>2, <2>3 DEF VaultAddsUp
<1> QED
  BY <1>1, <1>2, <1>5, <1>6, <1>7, <1>9 DEF Ledger

LEMMA VoidLedger ==
    ASSUME Ledger, TypeOK', TransitionToVoid
    PROVE  Ledger'
<1> USE DEF positionVars, bucketVars, entitledVars, totalVars, moneyVars, intentVars, termVars
<1>0. /\ state \in {"Open", "Frozen"} /\ state' = "Voided" /\ final_forfeited = 0 /\ final_forfeited' = 0
      /\ \A o \in Owners : ~processed[o]
      /\ UNCHANGED <<side, active, pending, refundable, total_paid, base, processed, next_nonce,
                     claimed, lot, intent, active_total, position_count, claimed_count, vault>>
  BY DEF TransitionToVoid, Void, Ledger, PhaseShape
<1>1. PositionShape' /\ IntentShape' /\ PhaseShape'
  BY <1>0 DEF Ledger, PositionShape, IntentShape, PrincipalBalances, PhaseShape, Running
<1>2. LotShape'
  BY <1>0 DEF Ledger, LotShape
<1>3. Unclaimed' = Unclaimed /\ Owed' = Owed
  BY <1>0 DEF Unclaimed, Owed
<1>4. CountsAddUp' /\ PotsAddUp' /\ VaultAddsUp'
  BY <1>0, <1>3 DEF Ledger, CountsAddUp, PotsAddUp, VaultAddsUp, Running
<1> QED
  BY <1>1, <1>2, <1>4 DEF Ledger

\* What a claim takes out of a settled vault, and that it is there: the base
\* entitlement, and for a winner a share that the rest covers.
LEMMA SettledClaim ==
    ASSUME Ledger, state = "Settled", NEW o \in Owners, side[o] # "None", ~claimed[o],
           NEW rest \in Nat, NEW unpaid \in Nat, RestCovers(rest, unpaid)
    PROVE  \E share \in Nat :
              /\ ClaimAmount(o) = base[o] + share
              /\ share <= rest
              /\ base[o] \in Nat /\ base[o] <= vault - rest
              /\ UnpaidWinning[o] <= unpaid
              /\ final_forfeited * (unpaid - UnpaidWinning[o]) <= (rest - share) * active_total[WinningSide]
<1> DEFINE W == active_total[WinningSide]
<1>p. /\ active \in [Owners -> Nat] /\ base \in [Owners -> Nat] /\ W \in Nat /\ final_forfeited \in Nat
      /\ vault \in Nat /\ WinningSide \in Sides
  BY DEF Ledger, TypeOK, MarketTypeOK, MoneyTypeOK, PositionTypeOK, WinningSide, Sides
<1>1. base[o] \in Nat /\ base[o] <= vault - rest
  <2>1. processed[o] /\ Owed[o] = base[o]
    BY DEF Ledger, PhaseShape, Owed
  <2>2. Owed[o] <= vault - rest
    BY SumBound, SummandTypes, Indices DEF Ledger, RestCovers
  <2> QED
    BY <2>1, <2>2, <1>p
<1>2. UnpaidWinning[o] <= unpaid
  BY SumBound, SummandTypes, Indices DEF Ledger, RestCovers
<1>3. UnpaidWinning[o] = IF side[o] = WinningSide THEN active[o] ELSE 0
  BY DEF UnpaidWinning
<1>4. final_forfeited * unpaid <= rest * W
  BY DEF RestCovers
<1> HIDE DEF W
<1>5. CASE side[o] # WinningSide
  <2>1. ClaimAmount(o) = base[o] + 0
    BY <1>5, <1>1 DEF ClaimAmount, SettledClaimAmount
  <2>2. final_forfeited * (unpaid - UnpaidWinning[o]) <= (rest - 0) * W
    <3>1. UnpaidWinning[o] = 0 /\ unpaid - 0 = unpaid /\ rest - 0 = rest
      BY <1>3, <1>5
    <3> QED
      BY <3>1, <1>4
  <2> QED
    BY <1>1, <1>2, <2>1, <2>2 DEF W
<1>6. CASE side[o] = WinningSide /\ W = 0
  <2>1. ClaimAmount(o) = base[o] + 0
    BY <1>6, <1>1 DEF ClaimAmount, SettledClaimAmount, WinnerWinnings, W
  <2>2. final_forfeited * (unpaid - active[o]) <= final_forfeited * unpaid
    <3>1. active[o] \in Nat /\ active[o] <= unpaid
      BY <1>2, <1>3, <1>6, <1>p
    <3>2. \A F, u, a \in Nat : a <= u => F * (u - a) <= F * u
      OBVIOUS
    <3> QED
      BY <3>1, <3>2, <1>p
  <2>3. final_forfeited * (unpaid - UnpaidWinning[o]) <= (rest - 0) * W
    <3>1. rest * W = 0 /\ (rest - 0) * W = 0
      BY <1>6
    <3>2. unpaid - active[o] \in Nat /\ final_forfeited * (unpaid - active[o]) \in Nat
          /\ final_forfeited * unpaid \in Nat
      BY <1>2, <1>3, <1>6, <1>p
    <3> QED
      BY <3>1, <3>2, <2>2, <1>3, <1>4, <1>6
  <2> QED
    BY <1>1, <1>2, <2>1, <2>3 DEF W
<1>7. CASE side[o] = WinningSide /\ W > 0
  <2> DEFINE w == MulDivFloor(active[o], final_forfeited, W)
  <2>1. active[o] \in Nat /\ active[o] <= unpaid
    BY <1>2, <1>3, <1>7, <1>p
  <2>w. W \in Nat \ {0}
    BY <1>7, <1>p
  <2>2. w \in Nat /\ w <= rest /\ final_forfeited * (unpaid - active[o]) <= (rest - w) * W
    BY <2>1, <2>w, <1>4, <1>p, PayShare
  <2>3. ClaimAmount(o) = base[o] + w
    BY <1>7, <1>p DEF ClaimAmount, SettledClaimAmount, WinnerWinnings, W
  <2> HIDE DEF w
  <2> QED
    BY <1>1, <1>2, <1>3, <1>7, <2>2, <2>3 DEF W
<1> QED
  BY <1>5, <1>6, <1>7, <1>p

\* A claim takes its share out of the rest and its stake out of the unpaid ones.
LEMMA ClaimRest ==
    ASSUME Ledger, TypeOK', NEW o \in Owners, ProcessClaim(o), state = "Settled",
           NEW rest \in Nat, NEW unpaid \in Nat, RestCovers(rest, unpaid)
    PROVE  \E share \in Nat, left \in Nat :
              /\ ClaimAmount(o) = base[o] + share /\ share <= rest
              /\ UnpaidWinning[o] <= unpaid /\ left = unpaid - UnpaidWinning[o]
              /\ RestCovers(rest - share, left)'
<1> USE DEF bucketVars, entitledVars, totalVars, finalVars
<1>p. vault \in Nat /\ claimed \in [Owners -> BOOLEAN]
  BY DEF Ledger, TypeOK, MoneyTypeOK, PositionTypeOK
<1>0. /\ side[o] # "None" /\ ~claimed[o] /\ claimed' = [claimed EXCEPT ![o] = TRUE]
      /\ vault' = vault - ClaimAmount(o)
      /\ UNCHANGED <<side, active, total_paid, base, processed, active_total, final_forfeited, outcome>>
  BY DEF ProcessClaim, ClaimPrepared, TransferClaim
<1>1. PICK share \in Nat :
            /\ ClaimAmount(o) = base[o] + share
            /\ share <= rest
            /\ base[o] \in Nat /\ base[o] <= vault - rest
            /\ UnpaidWinning[o] <= unpaid
            /\ final_forfeited * (unpaid - UnpaidWinning[o]) <= (rest - share) * active_total[WinningSide]
  BY <1>0, SettledClaim
<1>2. Owed[o] = base[o] /\ UnpaidWinning[o] \in Nat
  BY <1>0, SummandTypes, Indices DEF Owed, Ledger, PhaseShape
<1>3. /\ \A i \in 1..NumOwners : i # o => Owed'[i] = Owed[i] /\ UnpaidWinning'[i] = UnpaidWinning[i]
      /\ Owed'[o] = 0 /\ UnpaidWinning'[o] = 0
  BY <1>0, <1>p, Indices DEF Owed, UnpaidWinning, WinningSide
<1>4. PICK left \in Nat : left = unpaid - UnpaidWinning[o]
  BY <1>1, <1>2
<1>5. /\ (vault - rest) - Owed[o] + Owed'[o] = vault' - (rest - share)
      /\ unpaid - UnpaidWinning[o] + UnpaidWinning'[o] = left
  BY <1>0, <1>1, <1>2, <1>3, <1>4, <1>p
<1>6. /\ HasSum(NumOwners, Owed', vault' - (rest - share))
      /\ HasSum(NumOwners, UnpaidWinning', left)
  BY <1>3, <1>5, SumChange, SummandTypes, Indices DEF Ledger, RestCovers
<1>7. final_forfeited' = final_forfeited /\ active_total'[WinningSide'] = active_total[WinningSide]
  BY <1>0 DEF WinningSide
<1>8. RestCovers(rest - share, left)'
  BY <1>1, <1>4, <1>6, <1>7 DEF RestCovers
<1> QED
  BY <1>1, <1>4, <1>8

LEMMA ClaimLedger ==
    ASSUME Ledger, TypeOK', NEW o \in Owners, ProcessClaim(o)
    PROVE  Ledger'
<1> USE DEF bucketVars, entitledVars, totalVars, finalVars, intentVars, termVars
<1>p. /\ total_paid \in [Owners -> Nat] /\ claimed \in [Owners -> BOOLEAN]
      /\ vault \in Nat /\ final_forfeited \in Nat /\ position_count \in Nat /\ claimed_count \in Nat
  BY DEF Ledger, TypeOK, MarketTypeOK, MoneyTypeOK, PositionTypeOK
<1>0. /\ state \in {"Settled", "Voided"} /\ state' = state /\ side[o] # "None" /\ ~claimed[o]
      /\ claimed' = [claimed EXCEPT ![o] = TRUE]
      /\ claimed_count' = claimed_count + 1
      /\ vault' = vault - ClaimAmount(o)
      /\ UNCHANGED <<side, active, pending, refundable, total_paid, base, processed, next_nonce,
                     lot, intent, active_total, position_count, processed_count,
                     final_matched, final_forfeited, outcome>>
  BY DEF ProcessClaim, ClaimPrepared, TransferClaim
<1>1. PositionShape' /\ IntentShape' /\ PhaseShape'
  BY <1>0, <1>p DEF Ledger, PositionShape, IntentShape, PrincipalBalances, PhaseShape, Running
<1>2. LotShape'
  BY <1>0 DEF Ledger, LotShape
<1>3. CountsAddUp'
  <2>1. /\ \A i \in 1..NumOwners : i # o => Unclaimed'[i] = Unclaimed[i]
        /\ Unclaimed'[o] = 0 /\ Unclaimed[o] = 1
    BY <1>0, <1>p, Indices DEF Unclaimed
  <2>2. HasSum(NumOwners, Unclaimed', (position_count - claimed_count) - Unclaimed[o] + Unclaimed'[o])
    BY <2>1, SumChange, SummandTypes, Indices DEF Ledger, CountsAddUp
  <2>3. (position_count - claimed_count) - Unclaimed[o] + Unclaimed'[o] = position_count' - claimed_count'
    BY <2>1, <1>0, <1>p
  <2> QED
    BY <2>2, <2>3, <1>0 DEF CountsAddUp, Running
<1>4. PotsAddUp'
  BY <1>0 DEF PotsAddUp, Running
<1>5. /\ \A i \in 1..NumOwners : i # o => Owed'[i] = Owed[i] /\ UnpaidWinning'[i] = UnpaidWinning[i]
      /\ Owed'[o] = 0 /\ UnpaidWinning'[o] = 0
  BY <1>0, <1>p, Indices DEF Owed, UnpaidWinning, WinningSide
<1>6. CASE state = "Voided"
  <2>1. Owed[o] = total_paid[o] /\ ClaimAmount(o) = total_paid[o]
    BY <1>0, <1>6 DEF Owed, ClaimAmount, Ledger, PhaseShape
  <2>2. (vault - final_forfeited) - Owed[o] + Owed'[o] = vault' - final_forfeited'
    BY <2>1, <1>0, <1>5, <1>p
  <2>3. HasSum(NumOwners, Owed', vault' - final_forfeited')
    BY <2>2, <1>5, <1>6, SumChange, SummandTypes, Indices DEF Ledger, VaultAddsUp
  <2>4. VaultAddsUp'
    BY <2>3, <1>0, <1>6 DEF VaultAddsUp
  <2> QED
    BY <1>1, <1>2, <1>3, <1>4, <2>4 DEF Ledger
<1>7. CASE state = "Settled"
  <2>1. PICK rest \in Nat, unpaid \in Nat : RestCovers(rest, unpaid)
    BY <1>7 DEF Ledger, VaultAddsUp
  <2>2. PICK share \in Nat, left \in Nat : share <= rest /\ RestCovers(rest - share, left)'
    BY <2>1, <1>7, ClaimRest
  <2>3. rest - share \in Nat
    BY <2>2
  <2>4. VaultAddsUp'
    BY <2>2, <2>3, <1>0, <1>7 DEF VaultAddsUp, Running
  <2> QED
    BY <1>1, <1>2, <1>3, <1>4, <2>4 DEF Ledger
<1> QED
  BY <1>0, <1>6, <1>7

LEMMA CloseLotsLedger ==
    ASSUME Ledger, TypeOK', NEW o \in Owners, NEW k \in 1..MaxLots, ClosePositionLots(o, k)
    PROVE  Ledger'
<1> USE DEF marketVars, bucketVars, entitledVars, totalVars, finalVars, moneyVars, intentVars, termVars
<1>p. next_nonce \in [Owners -> 0..MaxLots] /\ lot \in [Owners -> [Nonces -> LotRecords]]
  BY DEF Ledger, TypeOK, PositionTypeOK, LotTypeOK
<1>0. UNCHANGED <<state, side, active, pending, refundable, total_paid, base, processed, claimed,
                  intent, active_total, position_count, claimed_count, processed_count,
                  final_matched, final_forfeited, outcome, vault>>
  BY DEF ClosePositionLots
<1>1. PositionShape' /\ IntentShape' /\ PhaseShape'
  BY <1>0 DEF Ledger, PositionShape, IntentShape, PrincipalBalances, PhaseShape
<1>2. LotShape'
  <2> SUFFICES ASSUME NEW x \in Owners, NEW n \in Nonces
               PROVE  /\ lot'[x][n].state # "None" => side[x] # "None" /\ lot'[x][n].side = side[x]
                      /\ n >= next_nonce'[x] => lot'[x][n].state = "None"
    BY <1>0 DEF LotShape
  <2>1. CASE x # o
    BY <2>1, <1>p DEF ClosePositionLots, Ledger, LotShape
  <2>2. CASE x = o
    <3>1. next_nonce'[o] = next_nonce[o] - k
          /\ lot'[o][n] = IF n >= next_nonce[o] - k THEN NoLot ELSE lot[o][n]
      BY <1>p DEF ClosePositionLots
    <3> QED
      BY <2>2, <3>1 DEF Ledger, LotShape, NoLot
  <2> QED
    BY <2>1, <2>2
<1>3. /\ Unclaimed' = Unclaimed /\ Unprocessed' = Unprocessed /\ Owed' = Owed
      /\ UnpaidWinning' = UnpaidWinning /\ \A s \in Sides : ActiveOn(s)' = ActiveOn(s)
  BY <1>0 DEF Unclaimed, Unprocessed, Owed, UnpaidWinning, ActiveOn, WinningSide
<1>4. CountsAddUp' /\ PotsAddUp' /\ VaultAddsUp'
  BY <1>0, <1>3 DEF Ledger, CountsAddUp, PotsAddUp, VaultAddsUp, RestCovers, WinningSide
<1> QED
  BY <1>1, <1>2, <1>4 DEF Ledger

LEMMA ClosePositionLedger ==
    ASSUME Ledger, TypeOK', NEW o \in Owners, ClosePosition(o)
    PROVE  Ledger'
<1> USE DEF totalVars, moneyVars, intentVars, termVars
<1>p. /\ side \in [Owners -> MaybeSides] /\ active \in [Owners -> Nat] /\ pending \in [Owners -> Nat]
      /\ refundable \in [Owners -> Nat] /\ total_paid \in [Owners -> Nat] /\ base \in [Owners -> Nat]
      /\ processed \in [Owners -> BOOLEAN] /\ claimed \in [Owners -> BOOLEAN]
  BY DEF Ledger, TypeOK, PositionTypeOK
<1>0. /\ state \in {"Settled", "Voided"} /\ state' = state /\ side[o] # "None" /\ claimed[o]
      /\ next_nonce[o] = 0
      /\ side' = [side EXCEPT ![o] = "None"]
      /\ active' = [active EXCEPT ![o] = 0]
      /\ pending' = [pending EXCEPT ![o] = 0]
      /\ refundable' = [refundable EXCEPT ![o] = 0]
      /\ total_paid' = [total_paid EXCEPT ![o] = 0]
      /\ base' = [base EXCEPT ![o] = 0]
      /\ processed' = [processed EXCEPT ![o] = FALSE]
      /\ claimed' = [claimed EXCEPT ![o] = FALSE]
      /\ UNCHANGED <<next_nonce, lot, intent, active_total, position_count, claimed_count,
                     final_matched, final_forfeited, outcome, vault>>
  BY DEF ClosePosition, Terminal
<1>1. PositionShape'
  BY <1>0, <1>p DEF Ledger, PositionShape, PrincipalBalances
<1>2. IntentShape' /\ PhaseShape'
  BY <1>0, <1>p DEF Ledger, IntentShape, PhaseShape, Running
<1>3. LotShape'
  <2> SUFFICES ASSUME NEW x \in Owners, NEW n \in Nonces
               PROVE  /\ lot[x][n].state # "None" => side'[x] # "None" /\ lot[x][n].side = side'[x]
                      /\ n >= next_nonce[x] => lot[x][n].state = "None"
    BY <1>0 DEF LotShape
  <2>1. CASE x = o
    BY <2>1, <1>0 DEF Ledger, LotShape, Nonces
  <2>2. CASE x # o
    BY <2>2, <1>0, <1>p DEF Ledger, LotShape
  <2> QED
    BY <2>1, <2>2
<1>4. WinningSide' = WinningSide /\ WinningSide # "None"
  BY <1>0 DEF WinningSide
<1>5. Unclaimed' = Unclaimed /\ Owed' = Owed /\ UnpaidWinning' = UnpaidWinning
  BY <1>0, <1>4, <1>p DEF Unclaimed, Owed, UnpaidWinning
<1>6. CountsAddUp' /\ PotsAddUp' /\ VaultAddsUp'
  BY <1>0, <1>4, <1>5 DEF Ledger, CountsAddUp, PotsAddUp, VaultAddsUp, RestCovers, Running
<1> QED
  BY <1>1, <1>2, <1>3, <1>6 DEF Ledger

LEMMA CloseMarketLedger ==
    ASSUME Ledger, TypeOK', CloseMarket
    PROVE  Ledger'
<1> USE DEF positionVars, bucketVars, entitledVars, totalVars, finalVars, intentVars, termVars
<1>0. /\ state' = "Closed"
      /\ UNCHANGED <<side, active, pending, refundable, total_paid, base, processed, claimed,
                     next_nonce, lot, intent, position_count, claimed_count>>
  BY DEF CloseMarket
<1>1. PositionShape' /\ IntentShape' /\ PhaseShape' /\ PotsAddUp' /\ VaultAddsUp'
  BY <1>0 DEF Ledger, PositionShape, IntentShape, PrincipalBalances, PhaseShape, PotsAddUp, VaultAddsUp, Running
<1>2. LotShape'
  BY <1>0 DEF Ledger, LotShape
<1>3. Unclaimed' = Unclaimed
  BY <1>0 DEF Unclaimed
<1>4. CountsAddUp'
  BY <1>0, <1>3 DEF Ledger, CountsAddUp, Running
<1> QED
  BY <1>1, <1>2, <1>4 DEF Ledger

-----------------------------------------------------------------------------
(* The theorems *)

LEMMA NextLedger == Ledger /\ [Next]_vars => Ledger'
<1> SUFFICES ASSUME Ledger, [Next]_vars PROVE Ledger'
  OBVIOUS
<1>t. TypeOK'
  BY NextTypeOK DEF Ledger
<1>1. CASE UNCHANGED vars
  <2>1. IntentShape'
    BY <1>1 DEF vars, intentVars, Ledger, IntentShape
  <2> QED
    BY <1>1, <1>t, <2>1, QuietLedger DEF vars, marketVars, moneyVars
<1>2. CASE Tick \/ SetPause \/ \E c \in Configs : RotateConfig(c)
  <2>1. IntentShape'
    BY <1>2 DEF Tick, SetPause, RotateConfig, intentVars, Ledger, IntentShape
  <2> QED
    BY <1>2, <1>t, <2>1, QuietLedger DEF Tick, SetPause, RotateConfig, marketVars, moneyVars
<1>3. CASE \E a \in Times, r \in Times \cup {NoTime} : RotateOracleSet(a, r)
  <2>1. IntentShape'
    BY <1>3 DEF RotateOracleSet, intentVars, Ledger, IntentShape
  <2> QED
    BY <1>3, <1>t, <2>1, QuietLedger DEF RotateOracleSet, marketVars, moneyVars
<1>4. CASE (\E t \in TermSheets : InitializeMarket(t)) \/ FreezeMarket \/ UnfreezeMarket
  <2>1. IntentShape'
    BY <1>4 DEF InitializeMarket, FreezeMarket, UnfreezeMarket, BeginEpoch, intentVars, Ledger, IntentShape
  <2> QED
    BY <1>4, <1>t, <2>1, QuietLedger DEF InitializeMarket, FreezeMarket, UnfreezeMarket, BeginEpoch, moneyVars
<1>5. ASSUME NEW o \in Owners, NEW s \in Sides, NEW a \in Amounts, NEW d \in IntentLifetimes,
             SignIntent(o, s, a, d)
      PROVE  Ledger'
  <2>1. IntentShape'
    BY <1>5 DEF SignIntent, Ledger, TypeOK, IntentTypeOK, IntentShape
  <2> QED
    BY <1>5, <1>t, <2>1, QuietLedger DEF SignIntent, marketVars, moneyVars
<1>6. ASSUME NEW o \in Owners, DropIntent(o) PROVE Ledger'
  <2>1. IntentShape'
    BY <1>6 DEF DropIntent, Ledger, TypeOK, IntentTypeOK, IntentShape, NoIntent
  <2> QED
    BY <1>6, <1>t, <2>1, QuietLedger DEF DropIntent, marketVars, moneyVars
<1>7. ASSUME NEW o \in Owners, PlacePosition(o) PROVE Ledger'
  BY <1>7, <1>t, PlaceLedger
<1>8. ASSUME NEW o \in Owners, NEW n \in Nonces, ActivatePositionLot(o, n) PROVE Ledger'
  BY <1>8, <1>t, BucketLedger DEF ActivatePositionLot, Activatable
<1>9. ASSUME NEW o \in Owners, NEW n \in Nonces, NEW e \in 1..MaxEventEpoch, InvalidatePositionLot(o, n, e)
      PROVE  Ledger'
  BY <1>9, <1>t, BucketLedger DEF InvalidatePositionLot, Invalidatable
<1>10. ASSUME NEW won \in BOOLEAN, SettleMarket(won) PROVE Ledger'
  BY <1>10, <1>t, SettleLedger
<1>11. ASSUME NEW o \in Owners, CalculatePositionEntitlement(o) PROVE Ledger'
  BY <1>11, <1>t, CalculateLedger
<1>12. CASE VoidMarket \/ TimeoutVoid
  BY <1>12, <1>t, VoidLedger DEF VoidMarket, TimeoutVoid
<1>13. ASSUME NEW o \in Owners, ProcessClaim(o) PROVE Ledger'
  BY <1>13, <1>t, ClaimLedger
<1>14. ASSUME NEW o \in Owners, NEW k \in 1..MaxLots, ClosePositionLots(o, k) PROVE Ledger'
  BY <1>14, <1>t, CloseLotsLedger
<1>15. ASSUME NEW o \in Owners, ClosePosition(o) PROVE Ledger'
  BY <1>15, <1>t, ClosePositionLedger
<1>16. CASE CloseMarket
  BY <1>16, <1>t, CloseMarketLedger
<1> QED
  BY <1>1, <1>2, <1>3, <1>4, <1>5, <1>6, <1>7, <1>8, <1>9, <1>10, <1>11, <1>12, <1>13, <1>14,
     <1>15, <1>16 DEF Next, ClaimPosition, ClaimPositionFor

\* The counters, pots and vault always agree with the position accounts.
THEOREM LedgerInvariant == Spec => []Ledger
<1> QED
  BY InitLedger, NextLedger, PTL DEF Spec

\* Solvency for every number of owners, every stake and every odds: in a
\* terminal market each open position passes the checks of prepare_claim and the
\* vault covers its claim, in whatever order the claims come.
THEOREM Solvency == Spec => []ClaimsCovered
<1>1. Ledger => ClaimsCovered
  <2> SUFFICES ASSUME Ledger, Terminal, NEW o \in Owners, side[o] # "None", ~claimed[o]
               PROVE  ClaimPrepared(o) /\ ClaimAmount(o) <= vault
    BY DEF ClaimsCovered
  <2>p. vault \in Nat /\ position_count \in Nat /\ claimed_count \in Nat /\ final_forfeited \in Nat
    BY DEF Ledger, TypeOK, MarketTypeOK, MoneyTypeOK
  <2>1. claimed_count < position_count
    <3>1. Unclaimed[o] = 1 /\ Unclaimed[o] <= position_count - claimed_count
      BY SumBound, SummandTypes, Indices DEF Ledger, CountsAddUp, Unclaimed
    <3> QED
      BY <3>1, <2>p
  <2>2. PrincipalBalances(o) /\ (state = "Settled" => processed[o])
    BY DEF Ledger, PositionShape, PhaseShape
  <2>3. CASE state = "Voided"
    <3>1. Owed[o] = ClaimAmount(o) /\ final_forfeited = 0
      BY <2>3 DEF Owed, ClaimAmount, Ledger, PhaseShape
    <3>2. Owed[o] <= vault - 0
      BY <2>3, <3>1, SumBound, SummandTypes, Indices DEF Ledger, VaultAddsUp
    <3> QED
      BY <2>1, <2>2, <2>p, <3>1, <3>2 DEF ClaimPrepared
  <2>4. CASE state = "Settled"
    <3>1. PICK rest \in Nat, unpaid \in Nat : RestCovers(rest, unpaid)
      BY <2>4 DEF Ledger, VaultAddsUp
    <3>2. PICK share \in Nat : /\ ClaimAmount(o) = base[o] + share /\ share <= rest
                               /\ base[o] \in Nat /\ base[o] <= vault - rest
      BY <2>4, <3>1, SettledClaim
    <3>3. ClaimAmount(o) <= vault
      BY <3>2, <2>p
    <3> QED
      BY <2>1, <2>2, <3>3 DEF ClaimPrepared
  <2> QED
    BY <2>3, <2>4 DEF Terminal
<1> QED
  BY <1>1, LedgerInvariant, PTL

\* The first phase of settlement cannot wedge, whatever the number of positions:
\* a position is left to calculate, and its calculation cannot fail.
THEOREM SettlementProgress == Spec => []SettlementCanProceed
<1>1. Ledger => SettlementCanProceed
  <2> SUFFICES ASSUME Ledger, state = "Settling" PROVE SettlementCanProceed
    BY DEF SettlementCanProceed
  <2>p. /\ position_count \in Nat /\ processed_count \in Nat /\ active \in [Owners -> Nat]
        /\ active_total \in [Sides -> Nat] /\ final_matched \in [Sides -> Nat]
        /\ side \in [Owners -> MaybeSides]
    BY DEF Ledger, TypeOK, MarketTypeOK, PositionTypeOK
  <2>1. HasSum(NumOwners, Unprocessed, position_count - processed_count)
        /\ processed_count < position_count
    BY DEF Ledger, CountsAddUp, Running
  <2>2. \E o \in Owners : Unprocessed[o] > 0
    BY <2>1, <2>p, SumPositive, Indices
  <2>3. \E o \in Owners : side[o] # "None" /\ ~processed[o]
    BY <2>2 DEF Unprocessed
  <2>4. ASSUME NEW o \in Owners, side[o] # "None" PROVE Forfeit(o) <= active[o]
    <3>1. side[o] \in Sides /\ active[o] \in Nat
      BY <2>4, <2>p DEF MaybeSides
    <3>2. final_matched[side[o]] <= active_total[side[o]]
      BY <3>1 DEF Ledger, PotsAddUp
    <3>3. CASE side[o] = WinningSide \/ active_total[side[o]] = 0
      BY <3>1, <3>3 DEF Forfeit, LoserForfeit
    <3>4. CASE side[o] # WinningSide /\ active_total[side[o]] # 0
      <4>1. active_total[side[o]] \in Nat \ {0} /\ final_matched[side[o]] \in Nat
        BY <3>1, <3>4, <2>p
      <4>2. MulDivFloor(active[o], final_matched[side[o]], active_total[side[o]]) <= active[o]
        BY <3>1, <3>2, <4>1, ShareBound
      <4> QED
        BY <3>4, <4>2 DEF Forfeit, LoserForfeit
    <3> QED
      BY <3>3, <3>4
  <2>5. \A o \in Owners : ~claimed[o] /\ PrincipalBalances(o)
    BY DEF Ledger, PhaseShape, PositionShape, Running
  <2> QED
    BY <2>1, <2>3, <2>4, <2>5 DEF SettlementCanProceed
<1> QED
  BY <1>1, LedgerInvariant, PTL

-----------------------------------------------------------------------------
(* The strengthenings *)

\* Before settlement: the placement a wallet has signed is either used up (its
\* nonce is taken) or still fits into what the wallet signed for.
WithinSigned == \A o \in Owners :
    /\ deposited[o] <= signed[o]
    /\ state \in {"Absent", "Open", "Frozen"} =>
          /\ intent[o].nonce <= next_nonce[o]
          /\ intent[o].nonce = next_nonce[o] => deposited[o] + intent[o].amount <= signed[o]

\* A stake taken in play and active has waited out its delay.
DelayServed == \A o \in Owners, n \in Nonces :
    lot[o][n].state = "Active" /\ lot[o][n].activation # NoTime =>
        /\ lot[o][n].activation <= now
        /\ \A e \in 1..event_epoch :
              e > lot[o][n].observed => epoch_since[e] >= lot[o][n].activation

\* Nobody is paid before claiming, and an entitlement contains what was never
\* at risk, for a winner the whole principal.
Entitlements == \A o \in Owners :
    /\ (state \in Running \/ (side[o] # "None" /\ ~claimed[o])) => received[o] = 0
    /\ processed[o] => /\ base[o] >= pending[o] + refundable[o]
                       /\ side[o] = WinningSide => base[o] = total_paid[o]

-----------------------------------------------------------------------------
(* No wallet pays more than it signed for *)

LEMMA NextWithinSigned == TypeOK /\ WithinSigned /\ [Next]_vars => WithinSigned'
<1> SUFFICES ASSUME TypeOK, WithinSigned, [Next]_vars PROVE WithinSigned'
  OBVIOUS
<1>p. /\ deposited \in [Owners -> Nat] /\ signed \in [Owners -> Nat]
      /\ intent \in [Owners -> IntentRecords] /\ next_nonce \in [Owners -> 0..MaxLots]
      /\ \A o \in Owners : intent[o].nonce \in Nat /\ intent[o].amount \in Nat
  BY DEF TypeOK, MoneyTypeOK, IntentTypeOK, PositionTypeOK, IntentRecords, Nonces
<1> USE DEF marketVars, positionVars, moneyVars, intentVars
<1>1. ASSUME UNCHANGED <<deposited, signed, intent, next_nonce>>,
             state' \in {"Absent", "Open", "Frozen"} => state \in {"Absent", "Open", "Frozen"}
      PROVE  WithinSigned'
  BY <1>1 DEF WithinSigned
<1>2. CASE UNCHANGED vars
  BY <1>1, <1>2 DEF vars
<1>3. CASE \/ Tick \/ SetPause \/ \E c \in Configs : RotateConfig(c)
           \/ \E a \in Times, r \in Times \cup {NoTime} : RotateOracleSet(a, r)
  BY <1>1, <1>3 DEF Tick, SetPause, RotateConfig, RotateOracleSet
<1>4. CASE (\E t \in TermSheets : InitializeMarket(t)) \/ FreezeMarket \/ UnfreezeMarket
  BY <1>1, <1>4 DEF InitializeMarket, FreezeMarket, UnfreezeMarket, BeginEpoch
<1>5. ASSUME NEW o \in Owners, NEW s \in Sides, NEW a \in Amounts, NEW d \in IntentLifetimes,
             SignIntent(o, s, a, d)
      PROVE  WithinSigned'
  <2>1. a \in Nat
    BY Constants
  <2>2. /\ intent'[o].nonce = next_nonce[o] /\ intent'[o].amount = a
        /\ signed'[o] = signed[o] + a /\ UNCHANGED <<deposited, next_nonce, state>>
        /\ \A x \in Owners : x # o => intent'[x] = intent[x] /\ signed'[x] = signed[x]
    BY <1>5, <1>p DEF SignIntent
  <2> SUFFICES ASSUME NEW x \in Owners
               PROVE  /\ deposited[x] <= signed'[x]
                      /\ state \in {"Absent", "Open", "Frozen"} =>
                            /\ intent'[x].nonce <= next_nonce[x]
                            /\ intent'[x].nonce = next_nonce[x] =>
                                  deposited[x] + intent'[x].amount <= signed'[x]
    BY <2>2 DEF WithinSigned
  <2>3. CASE x = o
    BY <2>1, <2>2, <2>3, <1>p DEF WithinSigned
  <2>4. CASE x # o
    BY <2>2, <2>4 DEF WithinSigned
  <2> QED
    BY <2>3, <2>4
<1>6. ASSUME NEW o \in Owners, DropIntent(o) PROVE WithinSigned'
  <2>1. /\ intent' = [intent EXCEPT ![o] = NoIntent] /\ NoIntent.nonce = 0 /\ NoIntent.amount = 0
        /\ UNCHANGED <<deposited, signed, next_nonce, state>>
    BY <1>6 DEF DropIntent, NoIntent
  <2> QED
    BY <2>1, <1>p DEF WithinSigned
<1>7. ASSUME NEW o \in Owners, PlacePosition(o) PROVE WithinSigned'
  <2>1. /\ state = "Open" /\ state' = state /\ next_nonce[o] = intent[o].nonce
        /\ deposited' = [deposited EXCEPT ![o] = @ + intent[o].amount]
        /\ next_nonce' = [next_nonce EXCEPT ![o] = @ + 1]
        /\ UNCHANGED <<intent, signed>>
    BY <1>7 DEF PlacePosition, WindowOpen, PositionAccepts, TransferPrincipal, ApplyPositionDeposit
  <2> QED
    BY <2>1, <1>p DEF WithinSigned
<1>8. ASSUME NEW o \in Owners, NEW n \in Nonces,
             \/ ActivatePositionLot(o, n)
             \/ \E e \in 1..MaxEventEpoch : InvalidatePositionLot(o, n, e)
      PROVE  WithinSigned'
  BY <1>1, <1>8 DEF ActivatePositionLot, InvalidatePositionLot, OutsideBuckets
<1>9. CASE \/ \E won \in BOOLEAN : SettleMarket(won)
           \/ \E o \in Owners : CalculatePositionEntitlement(o)
           \/ VoidMarket \/ TimeoutVoid \/ CloseMarket
  BY <1>1, <1>9 DEF SettleMarket, StateAfterSettle, CalculatePositionEntitlement, VoidMarket, TimeoutVoid,
     TransitionToVoid, Void, CloseMarket, CloseVault
<1>10. ASSUME NEW o \in Owners, ProcessClaim(o) \/ ClosePosition(o)
       PROVE  WithinSigned'
  BY <1>1, <1>10 DEF ProcessClaim, TransferClaim, ClosePosition
<1>11. ASSUME NEW o \in Owners, NEW k \in 1..MaxLots, ClosePositionLots(o, k)
       PROVE  WithinSigned'
  <2>1. state \in {"Settled", "Voided"} /\ UNCHANGED <<deposited, signed, state>>
    BY <1>11 DEF ClosePositionLots, Terminal
  <2> QED
    BY <2>1 DEF WithinSigned
<1> QED
  BY <1>2, <1>3, <1>4, <1>5, <1>6, <1>7, <1>8, <1>9, <1>10, <1>11 DEF Next, ClaimPosition,
     ClaimPositionFor

\* A wallet never pays more than it signed for, although a signed placement may
\* be submitted again after it landed: the nonce of place_position is what rules
\* that out, for every number of lots and every order of submissions.
THEOREM NothingPaidTwice == Spec => []NoDuplicatePlacement
<1>1. Init => WithinSigned
  BY DEF Init, WithinSigned, NoIntent
<1>2. TypeOK /\ WithinSigned /\ [Next]_vars => WithinSigned'
  BY NextWithinSigned
<1>3. WithinSigned => NoDuplicatePlacement
  BY DEF WithinSigned, NoDuplicatePlacement
<1> QED
  BY <1>1, <1>2, <1>3, TypeCorrect, PTL DEF Spec

-----------------------------------------------------------------------------
(* No stake is active through an event *)

LEMMA NextDelayServed == TypeOK /\ DelayServed /\ [Next]_vars => DelayServed'
<1> SUFFICES ASSUME TypeOK, DelayServed, [Next]_vars PROVE DelayServed'
  OBVIOUS
<1>p. /\ now \in Nat /\ event_epoch \in 0..MaxEventEpoch /\ epoch_since \in [0..MaxEventEpoch -> Nat]
      /\ lot \in [Owners -> [Nonces -> LotRecords]]
      /\ \A o \in Owners, n \in Nonces : /\ lot[o][n].observed \in Nat
                                        /\ lot[o][n].activation \in Int
  BY DEF TypeOK, ConfigTypeOK, EpochTypeOK, LotTypeOK, LotRecords, MaybeTime, NoTime
<1>q. MaxEventEpoch \in Nat /\ ActivationDelay \in Nat
  BY Constants
<1> USE DEF marketVars, positionVars, moneyVars, intentVars
\* Lots stay as they are or are closed, epochs as they are, and time does not
\* go back.
<1>1. ASSUME now' \in Nat, now' >= now, UNCHANGED <<event_epoch, epoch_since>>,
             \A o \in Owners, n \in Nonces : lot'[o][n] = lot[o][n] \/ lot'[o][n] = NoLot
      PROVE  DelayServed'
  <2> SUFFICES ASSUME NEW o \in Owners, NEW n \in Nonces, lot'[o][n].state = "Active",
                      lot'[o][n].activation # NoTime
               PROVE  /\ lot'[o][n].activation <= now'
                      /\ \A e \in 1..event_epoch :
                            e > lot'[o][n].observed => epoch_since[e] >= lot'[o][n].activation
    BY <1>1 DEF DelayServed
  <2>1. lot'[o][n] = lot[o][n]
    BY <1>1 DEF NoLot
  <2> QED
    BY <2>1, <1>1, <1>p DEF DelayServed
<1>2. CASE UNCHANGED vars
  BY <1>1, <1>2, <1>p DEF vars
<1>3. CASE \/ Tick \/ SetPause \/ \E c \in Configs : RotateConfig(c)
           \/ \E a \in Times, r \in Times \cup {NoTime} : RotateOracleSet(a, r)
  BY <1>1, <1>3, <1>p DEF Tick, SetPause, RotateConfig, RotateOracleSet
<1>4. ASSUME NEW t \in TermSheets, InitializeMarket(t) PROVE DelayServed'
  <2>1. /\ UNCHANGED <<now, event_epoch, lot>>
        /\ \A e \in 1..event_epoch : epoch_since'[e] = epoch_since[e]
    BY <1>4, <1>p, <1>q DEF InitializeMarket
  <2> QED
    BY <2>1 DEF DelayServed
<1>5. ASSUME NEW s, BeginEpoch(s) PROVE DelayServed'
  <2>1. /\ UNCHANGED <<now, lot>> /\ event_epoch' = event_epoch + 1 /\ event_epoch + 1 \in 0..MaxEventEpoch
        /\ epoch_since'[event_epoch + 1] = now
        /\ \A e \in 1..event_epoch : epoch_since'[e] = epoch_since[e]
    BY <1>5, <1>p, <1>q DEF BeginEpoch
  <2>2. \A e \in 1..(event_epoch + 1) : e \in 1..event_epoch \/ e = event_epoch + 1
    BY <1>p
  <2> QED
    BY <2>1, <2>2, <1>p DEF DelayServed
<1>6. CASE FreezeMarket \/ UnfreezeMarket
  BY <1>5, <1>6 DEF FreezeMarket, UnfreezeMarket
<1>7. CASE \/ \E o \in Owners, s \in Sides, a \in Amounts, d \in IntentLifetimes : SignIntent(o, s, a, d)
           \/ \E o \in Owners : DropIntent(o)
  BY <1>1, <1>7, <1>p DEF SignIntent, DropIntent
\* One lot gets a new record.
<1>8. ASSUME NEW o \in Owners, NEW n \in Nonces, NEW l, lot' = [lot EXCEPT ![o][n] = l],
             l.state = "Active" /\ l.activation # NoTime =>
                 l.activation \in Int /\ l.activation <= now /\ l.observed = event_epoch,
             UNCHANGED <<now, event_epoch, epoch_since>>
      PROVE  DelayServed'
  <2> SUFFICES ASSUME NEW x \in Owners, NEW m \in Nonces, lot'[x][m].state = "Active",
                      lot'[x][m].activation # NoTime
               PROVE  /\ lot'[x][m].activation <= now
                      /\ \A e \in 1..event_epoch :
                            e > lot'[x][m].observed => epoch_since[e] >= lot'[x][m].activation
    BY <1>8 DEF DelayServed
  <2>1. CASE x = o /\ m = n
    <3>1. lot'[x][m] = l
      BY <2>1, <1>8, <1>p
    <3> QED
      BY <3>1, <1>8, <1>p
  <2>2. CASE ~(x = o /\ m = n)
    <3>1. lot'[x][m] = lot[x][m]
      BY <2>2, <1>8, <1>p
    <3> QED
      BY <3>1, <1>p DEF DelayServed
  <2> QED
    BY <2>1, <2>2
<1>9. ASSUME NEW o \in Owners, PlacePosition(o) PROVE DelayServed'
  <2> DEFINE l == [state |-> IF InPlay THEN "Pending" ELSE "Active",
                   side |-> intent[o].side, amount |-> intent[o].amount, observed |-> event_epoch,
                   placed |-> now, activation |-> IF InPlay THEN now + ActivationDelay ELSE NoTime]
  <2>1. /\ lot' = [lot EXCEPT ![o][intent[o].nonce] = l] /\ intent[o].nonce \in Nonces
        /\ UNCHANGED <<now, event_epoch, epoch_since>>
    BY <1>9 DEF PlacePosition, TypeOK, IntentTypeOK, IntentRecords
  <2>2. ~(l.state = "Active" /\ l.activation # NoTime)
    OBVIOUS
  <2> HIDE DEF l
  <2> QED
    BY <2>1, <2>2, <1>8
<1>10. ASSUME NEW o \in Owners, NEW n \in Nonces, ActivatePositionLot(o, n) PROVE DelayServed'
  <2> DEFINE l == [lot[o][n] EXCEPT !.state = "Active"]
  <2>1. /\ lot' = [lot EXCEPT ![o][n] = l] /\ UNCHANGED <<now, event_epoch, epoch_since>>
        /\ lot[o][n].activation <= now /\ lot[o][n].observed = event_epoch
    BY <1>10, <1>p DEF ActivatePositionLot, Activatable, OutsideBuckets
  <2>2. l.activation = lot[o][n].activation /\ l.observed = lot[o][n].observed
    BY <1>p DEF LotRecords
  <2> HIDE DEF l
  <2> QED
    BY <2>1, <2>2, <1>8, <1>p
<1>11. ASSUME NEW o \in Owners, NEW n \in Nonces, NEW e \in 1..MaxEventEpoch, InvalidatePositionLot(o, n, e)
       PROVE  DelayServed'
  <2> DEFINE l == [lot[o][n] EXCEPT !.state = "Voided"]
  <2>1. lot' = [lot EXCEPT ![o][n] = l] /\ UNCHANGED <<now, event_epoch, epoch_since>>
    BY <1>11, <1>p DEF InvalidatePositionLot, OutsideBuckets
  <2>2. l.state = "Voided"
    BY <1>p DEF LotRecords
  <2> HIDE DEF l
  <2> QED
    BY <2>1, <2>2, <1>8, <1>p
<1>12. CASE \/ \E won \in BOOLEAN : SettleMarket(won)
            \/ \E o \in Owners : CalculatePositionEntitlement(o)
            \/ VoidMarket \/ TimeoutVoid \/ CloseMarket
  BY <1>1, <1>12, <1>p DEF SettleMarket, CalculatePositionEntitlement, VoidMarket, TimeoutVoid,
     TransitionToVoid, Void, CloseMarket
<1>13. ASSUME NEW o \in Owners, ProcessClaim(o) \/ ClosePosition(o) PROVE DelayServed'
  BY <1>1, <1>13, <1>p DEF ProcessClaim, ClosePosition
<1>14. ASSUME NEW o \in Owners, NEW k \in 1..MaxLots, ClosePositionLots(o, k) PROVE DelayServed'
  <2>1. \A x \in Owners, n \in Nonces : lot'[x][n] = lot[x][n] \/ lot'[x][n] = NoLot
    BY <1>14, <1>p DEF ClosePositionLots
  <2> QED
    BY <2>1, <1>1, <1>14, <1>p DEF ClosePositionLots
<1> QED
  BY <1>2, <1>3, <1>4, <1>6, <1>7, <1>9, <1>10, <1>11, <1>12, <1>13, <1>14 DEF Next, ClaimPosition,
     ClaimPositionFor

\* Anti-snipe for every delay, every number of lots and every sequence of
\* freezes: a stake taken in play that counts as active waited out its delay
\* before the feed froze the market for any later event.
THEOREM AntiSnipe == Spec => []NoStakeActiveThroughEvent
<1>1. Init => DelayServed
  BY DEF Init, DelayServed, NoLot
<1>2. TypeOK /\ DelayServed /\ [Next]_vars => DelayServed'
  BY NextDelayServed
<1>3. DelayServed => NoStakeActiveThroughEvent
  BY DEF DelayServed, NoStakeActiveThroughEvent
<1> QED
  BY <1>1, <1>2, <1>3, TypeCorrect, PTL DEF Spec

-----------------------------------------------------------------------------
(* A paid position got its due *)

LEMMA NextEntitlements == Ledger /\ Entitlements /\ PaidInFull /\ [Next]_vars => Entitlements' /\ PaidInFull'
<1> SUFFICES ASSUME Ledger, Entitlements, PaidInFull, [Next]_vars PROVE Entitlements' /\ PaidInFull'
  OBVIOUS
<1>p. /\ side \in [Owners -> MaybeSides] /\ active \in [Owners -> Nat] /\ pending \in [Owners -> Nat]
      /\ refundable \in [Owners -> Nat] /\ total_paid \in [Owners -> Nat] /\ base \in [Owners -> Nat]
      /\ processed \in [Owners -> BOOLEAN] /\ claimed \in [Owners -> BOOLEAN]
      /\ received \in [Owners -> Nat]
  BY DEF Ledger, TypeOK, PositionTypeOK, MoneyTypeOK
<1>b. \A o \in Owners : /\ active[o] + pending[o] + refundable[o] = total_paid[o]
                        /\ side[o] = "None" => ~processed[o] /\ ~claimed[o]
  BY DEF Ledger, PositionShape, PrincipalBalances
<1>r. /\ state \in Running => \A o \in Owners : ~claimed[o] /\ received[o] = 0
      /\ state \in {"Absent", "Open", "Frozen"} => \A o \in Owners : ~processed[o]
  BY DEF Ledger, PhaseShape, Entitlements
<1> USE DEF marketVars, totalVars, finalVars, positionVars, bucketVars, entitledVars, moneyVars
\* Positions and payments stay as they are.
<1>1. ASSUME UNCHANGED <<side, pending, refundable, total_paid, base, processed, claimed, received>>,
             state' \in Running => state \in Running,
             \/ UNCHANGED <<state, outcome>>
             \/ state \in Running /\ \A o \in Owners : ~processed[o]
             \/ state' = "Closed" /\ UNCHANGED outcome
      PROVE  Entitlements' /\ PaidInFull'
  <2>1. Entitlements'
    BY <1>1 DEF Entitlements, WinningSide
  <2>2. PaidInFull'
    BY <1>1, <1>r DEF PaidInFull, WinningSide, Running
  <2> QED
    BY <2>1, <2>2
<1>2. CASE UNCHANGED vars
  BY <1>1, <1>2 DEF vars
<1>3. CASE \/ Tick \/ SetPause \/ \E c \in Configs : RotateConfig(c)
           \/ \E a \in Times, r \in Times \cup {NoTime} : RotateOracleSet(a, r)
  BY <1>1, <1>3 DEF Tick, SetPause, RotateConfig, RotateOracleSet
<1>4. CASE (\E t \in TermSheets : InitializeMarket(t)) \/ FreezeMarket \/ UnfreezeMarket
  BY <1>1, <1>4, <1>r DEF InitializeMarket, FreezeMarket, UnfreezeMarket, BeginEpoch, Running
<1>5. CASE \/ \E o \in Owners, s \in Sides, a \in Amounts, d \in IntentLifetimes : SignIntent(o, s, a, d)
           \/ \E o \in Owners : DropIntent(o)
  BY <1>1, <1>5 DEF SignIntent, DropIntent
\* While the market takes stakes nothing is calculated and nobody is paid.
<1>6. ASSUME state \in {"Open", "Frozen"}, UNCHANGED <<state, processed, claimed, received>>
      PROVE  Entitlements' /\ PaidInFull'
  BY <1>6, <1>r DEF Entitlements, PaidInFull, Running
<1>7. ASSUME NEW o \in Owners, PlacePosition(o) PROVE Entitlements' /\ PaidInFull'
  BY <1>6, <1>7 DEF PlacePosition, WindowOpen, TransferPrincipal
<1>8. ASSUME NEW o \in Owners, NEW n \in Nonces,
             \/ ActivatePositionLot(o, n)
             \/ \E e \in 1..MaxEventEpoch : InvalidatePositionLot(o, n, e)
      PROVE  Entitlements' /\ PaidInFull'
  BY <1>6, <1>8 DEF ActivatePositionLot, InvalidatePositionLot, OutsideBuckets
<1>9. CASE (\E won \in BOOLEAN : SettleMarket(won)) \/ VoidMarket \/ TimeoutVoid
  BY <1>1, <1>9, <1>r DEF SettleMarket, VoidMarket, TimeoutVoid, TransitionToVoid, Void, Running
<1>10. CASE CloseMarket
  BY <1>1, <1>10 DEF CloseMarket, CloseVault, Running
<1>11. ASSUME NEW o \in Owners, CalculatePositionEntitlement(o) PROVE Entitlements' /\ PaidInFull'
  <2>1. /\ state = "Settling" /\ state \in Running /\ side[o] # "None"
        /\ UNCHANGED <<side, pending, refundable, total_paid, claimed, received, outcome>>
        /\ base' = [base EXCEPT ![o] = active[o] - Forfeit(o) + pending[o] + refundable[o]]
        /\ processed' = [processed EXCEPT ![o] = TRUE]
        /\ Forfeit(o) <= active[o]
    BY <1>11 DEF CalculatePositionEntitlement, Running
  <2>2. Forfeit(o) \in Nat /\ (side[o] = WinningSide => Forfeit(o) = 0)
    BY <2>1, ForfeitType DEF Ledger, Forfeit
  <2>3. base'[o] >= pending[o] + refundable[o] /\ (side[o] = WinningSide => base'[o] = total_paid[o])
    BY <2>1, <2>2, <1>b, <1>p
  <2>4. WinningSide' = WinningSide
    BY <2>1 DEF WinningSide
  <2>5. Entitlements'
    <3> SUFFICES ASSUME NEW x \in Owners
                 PROVE  /\ received[x] = 0
                        /\ processed'[x] => /\ base'[x] >= pending[x] + refundable[x]
                                            /\ side[x] = WinningSide => base'[x] = total_paid[x]
      BY <2>1, <2>4 DEF Entitlements
    <3>1. CASE x = o
      BY <3>1, <2>1, <2>3, <1>r
    <3>2. CASE x # o
      BY <3>2, <2>1, <1>r, <1>p DEF Entitlements
    <3> QED
      BY <3>1, <3>2
  <2>6. PaidInFull'
    BY <2>1, <1>r DEF PaidInFull
  <2> QED
    BY <2>5, <2>6
<1>12. ASSUME NEW o \in Owners, ProcessClaim(o) PROVE Entitlements' /\ PaidInFull'
  <2>1. /\ side[o] # "None" /\ ~claimed[o] /\ state \in {"Settled", "Voided"} /\ state \notin Running
        /\ state = "Settled" => processed[o]
        /\ claimed' = [claimed EXCEPT ![o] = TRUE]
        /\ received' = [received EXCEPT ![o] = @ + ClaimAmount(o)]
        /\ UNCHANGED <<state, outcome, side, pending, refundable, total_paid, base, processed>>
    BY <1>12 DEF ProcessClaim, ClaimPrepared, TransferClaim, Running
  <2>2. ClaimAmount(o) \in Nat /\ received[o] = 0
    BY <2>1, ClaimAmountType DEF Ledger, Entitlements
  <2>3. received'[o] = ClaimAmount(o)
    BY <2>1, <2>2, <1>p
  <2>4. WinningSide' = WinningSide
    BY <2>1 DEF WinningSide
  <2>5. state = "Settled" => ClaimAmount(o) >= base[o]
    <3> SUFFICES ASSUME state = "Settled" PROVE ClaimAmount(o) >= base[o]
      OBVIOUS
    <3> DEFINE w == WinnerWinnings(active[o], final_forfeited, active_total[side[o]])
    <3>1. active[o] \in Nat /\ final_forfeited \in Nat /\ active_total[side[o]] \in Nat /\ base[o] \in Nat
      BY <2>1, <1>p DEF Ledger, TypeOK, MarketTypeOK, MaybeSides
    <3>2. w \in Nat
      BY <3>1, FloorDiv DEF WinnerWinnings, MulDivFloor
    <3>3. ClaimAmount(o) = IF side[o] # WinningSide THEN base[o] ELSE base[o] + w
      BY DEF ClaimAmount, SettledClaimAmount
    <3> HIDE DEF w
    <3> QED
      BY <3>1, <3>2, <3>3
  <2>6. state = "Voided" => ClaimAmount(o) = total_paid[o]
    BY DEF ClaimAmount
  <2>7. Entitlements'
    BY <2>1, <2>4, <1>p DEF Entitlements
  <2>8. PaidInFull'
    <3> SUFFICES ASSUME NEW x \in Owners, side[x] # "None", claimed'[x]
                 PROVE  /\ state = "Voided" => received'[x] = total_paid[x]
                        /\ state = "Settled" /\ side[x] = WinningSide => received'[x] >= total_paid[x]
                        /\ received'[x] >= pending[x] + refundable[x]
      BY <2>1, <2>4 DEF PaidInFull
    <3>1. CASE x # o
      BY <3>1, <2>1, <1>p DEF PaidInFull
    <3>2. CASE x = o
      <4>1. state = "Settled" =>
                base[o] >= pending[o] + refundable[o] /\ (side[o] = WinningSide => base[o] = total_paid[o])
        BY <2>1 DEF Entitlements
      <4>2. /\ ClaimAmount(o) \in Nat /\ base[o] \in Nat /\ pending[o] \in Nat /\ refundable[o] \in Nat
            /\ active[o] \in Nat /\ total_paid[o] \in Nat
        BY <2>2, <1>p
      <4>3. CASE state = "Settled"
        BY <4>1, <4>2, <4>3, <3>2, <2>3, <2>5
      <4>4. CASE state = "Voided"
        BY <4>2, <4>4, <3>2, <2>3, <2>6, <1>b
      <4> QED
        BY <4>3, <4>4, <2>1
    <3> QED
      BY <3>1, <3>2
  <2> QED
    BY <2>7, <2>8
<1>13. ASSUME NEW o \in Owners, NEW k \in 1..MaxLots, ClosePositionLots(o, k)
       PROVE  Entitlements' /\ PaidInFull'
  BY <1>1, <1>13 DEF ClosePositionLots
<1>14. ASSUME NEW o \in Owners, ClosePosition(o) PROVE Entitlements' /\ PaidInFull'
  <2>1. /\ state \notin Running /\ side' = [side EXCEPT ![o] = "None"]
        /\ processed' = [processed EXCEPT ![o] = FALSE]
        /\ UNCHANGED <<state, outcome, received>>
        /\ \A x \in Owners : x # o => /\ pending'[x] = pending[x] /\ refundable'[x] = refundable[x]
                                      /\ total_paid'[x] = total_paid[x] /\ base'[x] = base[x]
                                      /\ claimed'[x] = claimed[x]
    BY <1>14, <1>p DEF ClosePosition, Terminal, Running
  <2>2. WinningSide' = WinningSide
    BY <2>1 DEF WinningSide
  <2>3. \A x \in Owners : x # o => side'[x] = side[x] /\ processed'[x] = processed[x]
    BY <2>1, <1>p
  <2>4. side'[o] = "None" /\ ~processed'[o]
    BY <2>1, <1>p
  <2>5. Entitlements'
    BY <2>1, <2>2, <2>3, <2>4 DEF Entitlements
  <2>6. PaidInFull'
    BY <2>1, <2>2, <2>3, <2>4 DEF PaidInFull
  <2> QED
    BY <2>5, <2>6
<1> QED
  BY <1>2, <1>3, <1>4, <1>5, <1>7, <1>8, <1>9, <1>10, <1>11, <1>12, <1>13, <1>14 DEF Next,
     ClaimPosition, ClaimPositionFor

\* Every position that was paid got its due, whatever the order of entitlements
\* and claims: a full refund of a voided market, at least the principal for a
\* winner, and for everyone at least the stakes that never became active.
THEOREM EveryoneGetsTheirDue == Spec => []PaidInFull
<1>1. Init => Entitlements /\ PaidInFull
  BY DEF Init, Entitlements, PaidInFull
<1>2. Ledger /\ Entitlements /\ PaidInFull /\ [Next]_vars => Entitlements' /\ PaidInFull'
  BY NextEntitlements
<1> QED
  BY <1>1, <1>2, LedgerInvariant, PTL DEF Spec

-----------------------------------------------------------------------------
(* What a position is owed never changes *)

\* Nobody's claim, closing, pause or rotation changes what another position is
\* owed: the market cannot close while a position is unclaimed, and everything
\* else leaves the inputs of settled_claim_amount alone.
THEOREM OwedNeverChanges == Spec => ClaimAmountStable
<1> DEFINE Stable == \A o \in Owners :
              Terminal /\ side[o] # "None" /\ ~claimed[o] => ClaimAmount(o)' = ClaimAmount(o)
<1>1. Ledger /\ [Next]_vars => [Stable]_vars
  <2> SUFFICES ASSUME Ledger, Next, NEW o \in Owners, Terminal, side[o] # "None", ~claimed[o]
               PROVE  ClaimAmount(o)' = ClaimAmount(o)
    OBVIOUS
  <2>p. /\ side \in [Owners -> MaybeSides] /\ active \in [Owners -> Nat] /\ base \in [Owners -> Nat]
        /\ total_paid \in [Owners -> Nat]
    BY DEF Ledger, TypeOK, PositionTypeOK
  <2>t. state \in {"Settled", "Voided"}
    BY DEF Terminal
  <2> USE DEF marketVars, totalVars, finalVars, positionVars, bucketVars, entitledVars, moneyVars
  <2>1. ASSUME UNCHANGED <<state, outcome, active_total, final_forfeited>>,
               side'[o] = side[o], active'[o] = active[o], base'[o] = base[o],
               total_paid'[o] = total_paid[o]
        PROVE  ClaimAmount(o)' = ClaimAmount(o)
    BY <2>1 DEF ClaimAmount, SettledClaimAmount, WinningSide
  <2>2. CASE \/ Tick \/ SetPause \/ \E c \in Configs : RotateConfig(c)
             \/ \E a \in Times, r \in Times \cup {NoTime} : RotateOracleSet(a, r)
    BY <2>1, <2>2 DEF Tick, SetPause, RotateConfig, RotateOracleSet
  <2>3. ASSUME NEW x \in Owners, DropIntent(x) PROVE ClaimAmount(o)' = ClaimAmount(o)
    BY <2>1, <2>3 DEF DropIntent
  <2>4. ASSUME NEW x \in Owners, ProcessClaim(x) PROVE ClaimAmount(o)' = ClaimAmount(o)
    BY <2>1, <2>4 DEF ProcessClaim
  <2>5. ASSUME NEW x \in Owners, NEW k \in 1..MaxLots, ClosePositionLots(x, k)
        PROVE  ClaimAmount(o)' = ClaimAmount(o)
    BY <2>1, <2>5 DEF ClosePositionLots
  <2>6. ASSUME NEW x \in Owners, ClosePosition(x) PROVE ClaimAmount(o)' = ClaimAmount(o)
    <3>1. x # o
      BY <2>6 DEF ClosePosition
    <3> QED
      BY <3>1, <2>1, <2>6, <2>p DEF ClosePosition
  <2>7. ~ CloseMarket
    <3>1. Unclaimed[o] = 1 /\ Unclaimed[o] <= position_count - claimed_count
      BY SumBound, SummandTypes, Indices DEF Ledger, CountsAddUp, Unclaimed
    <3>2. position_count \in Nat /\ claimed_count \in Nat
      BY DEF Ledger, TypeOK, MarketTypeOK
    <3> QED
      BY <3>1, <3>2 DEF CloseMarket, MarketClosable
  <2>8. ~ \/ \E t \in TermSheets : InitializeMarket(t)
          \/ FreezeMarket \/ UnfreezeMarket \/ VoidMarket \/ TimeoutVoid
          \/ \E won \in BOOLEAN : SettleMarket(won)
          \/ \E x \in Owners, s \in Sides, a \in Amounts, d \in IntentLifetimes : SignIntent(x, s, a, d)
          \/ \E x \in Owners : PlacePosition(x) \/ CalculatePositionEntitlement(x)
          \/ \E x \in Owners, n \in Nonces : ActivatePositionLot(x, n)
          \/ \E x \in Owners, n \in Nonces, e \in 1..MaxEventEpoch : InvalidatePositionLot(x, n, e)
    BY <2>t DEF InitializeMarket, FreezeMarket, UnfreezeMarket, VoidMarket, TimeoutVoid, TransitionToVoid,
       SettleMarket, SignIntent, PlacePosition, WindowOpen, CalculatePositionEntitlement,
       ActivatePositionLot, InvalidatePositionLot
  <2> QED
    BY <2>2, <2>3, <2>4, <2>5, <2>6, <2>7, <2>8 DEF Next, ClaimPosition, ClaimPositionFor
<1> QED
  BY <1>1, LedgerInvariant, PTL DEF Spec, ClaimAmountStable

-----------------------------------------------------------------------------
(* Closing the market leaves rounding dust only *)

OpenAccounts == [o \in Owners |-> IF side[o] # "None" THEN 1 ELSE 0]

\* A lot account exists or not, and a terminal market counts its open positions.
AccountsCounted ==
    /\ \A o \in Owners, n \in Nonces : lot[o][n].state = "None" => lot[o][n] = NoLot
    /\ state \in Running => claimed_count = 0
    /\ Terminal => HasSum(NumOwners, OpenAccounts, processed_count)

OpenLoser(o) == side[o] # "None" /\ side[o] # WinningSide /\ ~claimed[o]

\* A pot is matched only against stakes of the other side, so there is somebody
\* to give a forfeited stake to, and somebody who gave it.
PotsMeet ==
    state = "Settling" =>
        /\ \A s, z \in Sides : final_matched[s] > 0 => active_total[z] > 0
        /\ final_forfeited > 0 =>
              active_total[WinningSide] > 0 /\ \E o \in Owners : OpenLoser(o)

\* What the rest of a settled vault can exceed the unpaid winners' exact share
\* by: each of the paid winners left less than one unit to rounding.
WithinDust(rest, unpaid, paid) ==
    /\ rest <= final_forfeited
    /\ final_forfeited > 0 =>
          /\ active_total[WinningSide] > 0
          /\ rest * active_total[WinningSide]
                <= final_forfeited * unpaid + paid * (active_total[WinningSide] - 1)
          /\ paid < claimed_count \/ (paid <= claimed_count /\ \E o \in Owners : OpenLoser(o))

RestIsDust ==
    state = "Settled" => \E rest \in Nat, unpaid \in Nat, paid \in Nat :
        RestCovers(rest, unpaid) /\ WithinDust(rest, unpaid, paid)

\* Rounding down one winner's share leaves less than one unit behind.
LEMMA PayShareDust ==
    ASSUME NEW F \in Nat, NEW W \in Nat \ {0}, NEW U \in Nat, NEW R \in Nat, NEW a \in Nat, NEW c \in Nat,
           a <= U, R * W <= F * U + c * (W - 1)
    PROVE  (R - MulDivFloor(a, F, W)) * W <= F * (U - a) + (c + 1) * (W - 1)
<1> DEFINE w == (a * F) \div W
<1>1. a * F \in Nat
  OBVIOUS
<1>2. w \in Nat /\ a * F < W * w + W
  BY <1>1, FloorDiv
<1> HIDE DEF w
<1>3. /\ F * (U - a) = F * U - a * F /\ (R - w) * W = R * W - W * w
      /\ (c + 1) * (W - 1) = c * (W - 1) + (W - 1)
  BY <1>2
<1> DEFINE RW == R * W
           FU == F * U
           aF == a * F
           Ww == W * w
           cW == c * (W - 1)
<1>4. RW \in Int /\ FU \in Int /\ aF \in Int /\ Ww \in Int /\ cW \in Int
      /\ RW <= FU + cW /\ aF < Ww + W
  BY <1>2
<1> HIDE DEF RW, FU, aF, Ww, cW
<1>5. RW - Ww <= FU - aF + (cW + (W - 1))
  BY <1>4
<1>6. (R - w) * W <= F * (U - a) + (c + 1) * (W - 1)
  BY <1>3, <1>5 DEF RW, FU, aF, Ww, cW
<1> QED
  BY <1>6 DEF MulDivFloor, w

\* A pot can be matched only if both sides staked.
LEMMA MatchedNeedsBoth ==
    ASSUME NEW back \in Nat, NEW doubt \in Nat, NEW ratio \in Nat \ {0}
    PROVE  /\ MatchedBack(back, doubt, ratio) > 0 => back > 0 /\ doubt > 0
           /\ MatchedDoubt(back, doubt, ratio) > 0 => back > 0 /\ doubt > 0
<1>0. \A x \in Nat : x * 1000 \in Nat /\ (x = 0 => x * 1000 = 0) /\ x * ratio \in Nat
                     /\ (x = 0 => x * ratio = 0)
  OBVIOUS
<1>1. \A y \in Nat \ {0} : 0 \div y = 0
  BY FloorDiv
<1>2. doubt = 0 => MulDivFloor(doubt, MultiplierScale, ratio) = 0
  BY <1>0, <1>1 DEF MulDivFloor, MultiplierScale
<1> DEFINE m == MatchedBack(back, doubt, ratio)
<1>3. m \in Nat /\ (m > 0 => back > 0 /\ doubt > 0)
  <2> DEFINE q == MulDivFloor(doubt, MultiplierScale, ratio)
  <2>1. m \in Nat
    BY MatchedTypes
  <2>2. m = IF back <= q THEN back ELSE q
    BY DEF MatchedBack, Lesser
  <2>3. q \in Nat
    BY <1>0, FloorDiv DEF MulDivFloor, MultiplierScale
  <2>4. doubt = 0 => q = 0
    BY <1>2
  <2> HIDE DEF m, q
  <2> QED
    BY <2>1, <2>2, <2>3, <2>4
<1>4. m = 0 => MulDivFloor(m, ratio, MultiplierScale) = 0
  BY <1>0, <1>1, <1>3 DEF MulDivFloor, MultiplierScale
<1>5. MatchedDoubt(back, doubt, ratio) > 0 => m > 0
  <2>1. MatchedDoubt(back, doubt, ratio) = Lesser(doubt, MulDivFloor(m, ratio, MultiplierScale))
    BY DEF MatchedDoubt
  <2> HIDE DEF m
  <2> QED
    BY <2>1, <1>3, <1>4 DEF Lesser
<1> QED
  BY <1>3, <1>5

\* A stake is forfeited only to a matched pot.
LEMMA ForfeitNeedsMatch ==
    ASSUME TypeOK, NEW o \in Owners, side[o] # "None", Forfeit(o) > 0
    PROVE  side[o] # WinningSide /\ side[o] \in Sides /\ final_matched[side[o]] > 0
<1>p. side[o] \in Sides /\ final_matched[side[o]] \in Nat /\ active_total[side[o]] \in Nat /\ active[o] \in Nat
  BY DEF TypeOK, MarketTypeOK, PositionTypeOK, MaybeSides
<1>1. side[o] # WinningSide /\ active_total[side[o]] # 0
  BY DEF Forfeit, LoserForfeit
<1>2. final_matched[side[o]] = 0 => Forfeit(o) = 0
  <2>1. \A a \in Nat, y \in Nat \ {0} : (a * 0) \div y = 0
    BY FloorDiv
  <2>2. active_total[side[o]] \in Nat \ {0}
    BY <1>1, <1>p
  <2>3. (active[o] * 0) \div active_total[side[o]] = 0
    BY <2>1, <2>2, <1>p
  <2>4. Forfeit(o) = (active[o] * final_matched[side[o]]) \div active_total[side[o]]
    BY <1>1 DEF Forfeit, LoserForfeit, MulDivFloor
  <2> QED
    BY <2>3, <2>4
<1> QED
  BY <1>1, <1>2, <1>p

LEMMA OpenAccountsType ==
    OpenAccounts \in [1..NumOwners -> Nat] /\ OpenAccounts' \in [1..NumOwners -> Nat]
  BY Indices DEF OpenAccounts

LEMMA NextAccountsCounted == Ledger /\ AccountsCounted /\ [Next]_vars => AccountsCounted'
<1> SUFFICES ASSUME Ledger, AccountsCounted, [Next]_vars PROVE AccountsCounted'
  OBVIOUS
<1>p. /\ side \in [Owners -> MaybeSides] /\ lot \in [Owners -> [Nonces -> LotRecords]]
      /\ processed_count \in Nat /\ position_count \in Nat /\ claimed_count \in Nat
      /\ claimed \in [Owners -> BOOLEAN]
  BY DEF Ledger, TypeOK, PositionTypeOK, LotTypeOK, MarketTypeOK
<1> USE DEF marketVars, totalVars, finalVars, positionVars, bucketVars, entitledVars, moneyVars
<1> DEFINE Whole == \A o \in Owners, n \in Nonces : lot[o][n].state = "None" => lot[o][n] = NoLot
<1>w. Whole
  BY DEF AccountsCounted
\* Until the market is terminal every open account is unclaimed.
<1>o. state \in Running => HasSum(NumOwners, OpenAccounts, position_count) /\ claimed_count = 0
  <2> SUFFICES ASSUME state \in Running
               PROVE  HasSum(NumOwners, OpenAccounts, position_count) /\ claimed_count = 0
    OBVIOUS
  <2>1. claimed_count = 0 /\ position_count - claimed_count = position_count
    BY <1>p DEF AccountsCounted
  <2>2. OpenAccounts = Unclaimed
    BY DEF OpenAccounts, Unclaimed, Ledger, PhaseShape
  <2> QED
    BY <2>1, <2>2 DEF Ledger, CountsAddUp
<1>1. ASSUME Whole', UNCHANGED <<state, side, claimed_count, processed_count>>
      PROVE  AccountsCounted'
  BY <1>1 DEF AccountsCounted, Terminal, OpenAccounts
<1>2. ASSUME Whole', state \in Running, state' \in Running, UNCHANGED claimed_count
      PROVE  AccountsCounted'
  BY <1>2, <1>o DEF AccountsCounted, Terminal, Running
<1>3. CASE UNCHANGED vars
  BY <1>1, <1>3, <1>w DEF vars
<1>4. CASE \/ Tick \/ SetPause \/ \E c \in Configs : RotateConfig(c)
           \/ \E a \in Times, r \in Times \cup {NoTime} : RotateOracleSet(a, r)
  BY <1>1, <1>4, <1>w DEF Tick, SetPause, RotateConfig, RotateOracleSet
<1>5. CASE (\E t \in TermSheets : InitializeMarket(t)) \/ FreezeMarket \/ UnfreezeMarket
  BY <1>2, <1>5, <1>w DEF InitializeMarket, FreezeMarket, UnfreezeMarket, BeginEpoch, Running
<1>6. CASE \/ \E o \in Owners, s \in Sides, a \in Amounts, d \in IntentLifetimes : SignIntent(o, s, a, d)
           \/ \E o \in Owners : DropIntent(o)
  BY <1>1, <1>6, <1>w DEF SignIntent, DropIntent
<1>7. ASSUME NEW o \in Owners, NEW n \in Nonces, NEW l, lot' = [lot EXCEPT ![o][n] = l], l.state # "None"
      PROVE  Whole'
  <2> SUFFICES ASSUME NEW x \in Owners, NEW m \in Nonces, lot'[x][m].state = "None"
               PROVE  lot'[x][m] = NoLot
    OBVIOUS
  <2>1. CASE x = o /\ m = n
    BY <2>1, <1>7, <1>p
  <2>2. CASE ~(x = o /\ m = n)
    BY <2>2, <1>7, <1>p, <1>w
  <2> QED
    BY <2>1, <2>2
<1>8. ASSUME NEW o \in Owners, PlacePosition(o) PROVE AccountsCounted'
  <2> DEFINE l == [state |-> IF InPlay THEN "Pending" ELSE "Active",
                   side |-> intent[o].side, amount |-> intent[o].amount, observed |-> event_epoch,
                   placed |-> now, activation |-> IF InPlay THEN now + ActivationDelay ELSE NoTime]
  <2>1. /\ lot' = [lot EXCEPT ![o][intent[o].nonce] = l] /\ intent[o].nonce \in Nonces
        /\ state = "Open" /\ UNCHANGED <<state, claimed_count>>
    BY <1>8 DEF PlacePosition, WindowOpen, Ledger, TypeOK, IntentTypeOK, IntentRecords
  <2>2. l.state # "None"
    OBVIOUS
  <2> HIDE DEF l
  <2>3. Whole'
    BY <2>1, <2>2, <1>7
  <2> QED
    BY <2>1, <2>3, <1>2 DEF Running
<1>9. ASSUME NEW o \in Owners, NEW n \in Nonces, NEW st, lot' = [lot EXCEPT ![o][n].state = st], st # "None",
             state \in {"Open", "Frozen"}, UNCHANGED <<state, claimed_count>>
      PROVE  AccountsCounted'
  <2> DEFINE l == [lot[o][n] EXCEPT !.state = st]
  <2>1. lot' = [lot EXCEPT ![o][n] = l]
    BY <1>9, <1>p
  <2>2. l.state # "None"
    BY <1>9, <1>p DEF LotRecords
  <2> HIDE DEF l
  <2>3. Whole'
    BY <2>1, <2>2, <1>7
  <2> QED
    BY <2>3, <1>2, <1>9 DEF Running
<1>10. ASSUME NEW o \in Owners, NEW n \in Nonces, ActivatePositionLot(o, n) PROVE AccountsCounted'
  BY <1>9, <1>10, "Active" # "None" DEF ActivatePositionLot, OutsideBuckets
<1>11. ASSUME NEW o \in Owners, NEW n \in Nonces, NEW e \in 1..MaxEventEpoch, InvalidatePositionLot(o, n, e)
       PROVE  AccountsCounted'
  BY <1>9, <1>11, "Voided" # "None" DEF InvalidatePositionLot, OutsideBuckets
\* The market becomes terminal with the count of its positions.
<1>12. ASSUME state \in Running, state' \in {"Settled", "Voided"}, processed_count' = position_count,
              UNCHANGED <<side, lot>>
       PROVE  AccountsCounted'
  BY <1>12, <1>o, <1>w DEF AccountsCounted, OpenAccounts, Running
<1>13. CASE VoidMarket \/ TimeoutVoid
  BY <1>12, <1>13 DEF VoidMarket, TimeoutVoid, TransitionToVoid, Void, Running
<1>14. ASSUME NEW won \in BOOLEAN, SettleMarket(won) PROVE AccountsCounted'
  <2>1. /\ state \in Running /\ UNCHANGED <<side, lot, claimed_count>> /\ processed_count' = 0
        /\ state' = IF position_count = 0 THEN "Settled" ELSE "Settling"
    BY <1>14 DEF SettleMarket, StateAfterSettle, Running
  <2> QED
    BY <2>1, <1>2, <1>12, <1>w DEF Running
<1>15. ASSUME NEW o \in Owners, CalculatePositionEntitlement(o) PROVE AccountsCounted'
  <2>1. /\ state \in Running /\ UNCHANGED <<side, lot, claimed_count>> /\ processed_count' = processed_count + 1
        /\ state' = IF processed_count + 1 = position_count THEN "Settled" ELSE "Settling"
    BY <1>15 DEF CalculatePositionEntitlement, Running
  <2> QED
    BY <2>1, <1>2, <1>12, <1>w DEF Running
<1>16. ASSUME NEW o \in Owners, ProcessClaim(o) PROVE AccountsCounted'
  <2>1. UNCHANGED <<state, side, lot, processed_count>> /\ state \notin Running
    BY <1>16 DEF ProcessClaim, Running
  <2> QED
    BY <2>1, <1>w DEF AccountsCounted, Terminal, OpenAccounts
<1>17. ASSUME NEW o \in Owners, NEW k \in 1..MaxLots, ClosePositionLots(o, k) PROVE AccountsCounted'
  <2>1. \A x \in Owners, n \in Nonces : lot'[x][n] = lot[x][n] \/ lot'[x][n] = NoLot
    BY <1>17, <1>p DEF ClosePositionLots
  <2>2. Whole'
    BY <2>1, <1>w
  <2> QED
    BY <2>2, <1>1, <1>17 DEF ClosePositionLots
<1>18. ASSUME NEW o \in Owners, ClosePosition(o) PROVE AccountsCounted'
  <2>1. /\ UNCHANGED <<state, lot>> /\ state \notin Running /\ Terminal /\ side[o] # "None"
        /\ side' = [side EXCEPT ![o] = "None"] /\ processed_count' = processed_count - 1
    BY <1>18 DEF ClosePosition, Terminal, Running
  <2>2. /\ \A i \in 1..NumOwners : i # o => OpenAccounts'[i] = OpenAccounts[i]
        /\ OpenAccounts'[o] = 0 /\ OpenAccounts[o] = 1
    BY <2>1, <1>p, Indices DEF OpenAccounts
  <2>3. HasSum(NumOwners, OpenAccounts', processed_count - OpenAccounts[o] + OpenAccounts'[o])
    BY <2>1, <2>2, SumChange, OpenAccountsType, Indices DEF AccountsCounted
  <2>4. processed_count - OpenAccounts[o] + OpenAccounts'[o] = processed_count'
    BY <2>1, <2>2, <1>p
  <2> QED
    BY <2>1, <2>3, <2>4, <1>w DEF AccountsCounted
<1>19. CASE CloseMarket
  BY <1>19, <1>w DEF CloseMarket, AccountsCounted, Terminal, Running
<1> QED
  BY <1>3, <1>4, <1>5, <1>6, <1>8, <1>10, <1>11, <1>13, <1>14, <1>15, <1>16, <1>17, <1>18, <1>19
     DEF Next, ClaimPosition, ClaimPositionFor

\* A position that forfeits is an open loser, and has a winning side to forfeit to.
LEMMA CalculateMeets ==
    ASSUME Ledger, PotsMeet, NEW o \in Owners, CalculatePositionEntitlement(o)
    PROVE  /\ \A s, z \in Sides : final_matched'[s] > 0 => active_total'[z] > 0
           /\ final_forfeited' > 0 =>
                 active_total'[WinningSide'] > 0 /\ \E x \in Owners : OpenLoser(x)'
<1>1. /\ state = "Settling" /\ side[o] # "None" /\ ~claimed[o]
      /\ final_forfeited' = final_forfeited + Forfeit(o)
      /\ UNCHANGED <<final_matched, active_total, outcome, side, claimed>>
  BY DEF CalculatePositionEntitlement, totalVars, bucketVars
<1>2. WinningSide' = WinningSide /\ WinningSide \in Sides /\ \A x \in Owners : OpenLoser(x)' <=> OpenLoser(x)
  BY <1>1 DEF WinningSide, OpenLoser, Sides
<1>3. Forfeit(o) \in Nat /\ final_forfeited \in Nat
  BY <1>1, ForfeitType DEF Ledger, TypeOK, MarketTypeOK
<1>4. Forfeit(o) > 0 => active_total[WinningSide] > 0 /\ OpenLoser(o)
  BY <1>1, <1>2, ForfeitNeedsMatch DEF Ledger, PotsMeet, OpenLoser
<1>5. final_forfeited' > 0 => final_forfeited > 0 \/ Forfeit(o) > 0
  BY <1>1, <1>3
<1> QED
  BY <1>1, <1>2, <1>4, <1>5 DEF PotsMeet

LEMMA NextPotsMeet == Ledger /\ PotsMeet /\ [Next]_vars => PotsMeet'
<1> SUFFICES ASSUME Ledger, PotsMeet, [Next]_vars, state' = "Settling"
             PROVE  /\ \A s, z \in Sides : final_matched'[s] > 0 => active_total'[z] > 0
                    /\ final_forfeited' > 0 =>
                          active_total'[WinningSide'] > 0 /\ \E x \in Owners : OpenLoser(x)'
  BY DEF PotsMeet
<1>p. active_total \in [Sides -> Nat] /\ final_matched \in [Sides -> Nat] /\ final_forfeited \in Nat
  BY DEF Ledger, TypeOK, MarketTypeOK
<1> USE DEF marketVars, totalVars, finalVars, positionVars, bucketVars, moneyVars
<1>1. CASE UNCHANGED <<state, final_matched, active_total, final_forfeited, outcome, side, claimed>>
  <2>1. WinningSide' = WinningSide /\ \A x \in Owners : OpenLoser(x)' <=> OpenLoser(x)
    BY <1>1 DEF WinningSide, OpenLoser
  <2> QED
    BY <2>1, <1>1 DEF PotsMeet
<1>2. ASSUME NEW won \in BOOLEAN, SettleMarket(won)
      PROVE  /\ \A s, z \in Sides : final_matched'[s] > 0 => active_total'[z] > 0
             /\ final_forfeited' = 0
  <2>1. active_total["Back"] \in Nat /\ active_total["Doubt"] \in Nat /\ terms.ratio \in Nat \ {0}
    BY <1>p DEF Sides, Ledger, TypeOK, MarketTypeOK, MarketTerms
  <2>2. /\ final_matched'["Back"] = MatchedBack(active_total["Back"], active_total["Doubt"], terms.ratio)
        /\ final_matched'["Doubt"] = MatchedDoubt(active_total["Back"], active_total["Doubt"], terms.ratio)
        /\ active_total' = active_total /\ final_forfeited' = 0
    BY <1>2 DEF SettleMarket, Sides
  <2>3. \A s \in Sides : final_matched'[s] > 0 => active_total["Back"] > 0 /\ active_total["Doubt"] > 0
    BY <2>1, <2>2, MatchedNeedsBoth DEF Sides
  <2> QED
    BY <2>2, <2>3 DEF Sides
<1>3. ASSUME NEW o \in Owners, CalculatePositionEntitlement(o)
      PROVE  /\ \A s, z \in Sides : final_matched'[s] > 0 => active_total'[z] > 0
             /\ final_forfeited' > 0 =>
                   active_total'[WinningSide'] > 0 /\ \E x \in Owners : OpenLoser(x)'
  BY <1>3, CalculateMeets
<1>4. \/ UNCHANGED <<state, final_matched, active_total, final_forfeited, outcome, side, claimed>>
      \/ \E won \in BOOLEAN : SettleMarket(won)
      \/ \E o \in Owners : CalculatePositionEntitlement(o)
  <2>1. ~ \/ \E t \in TermSheets : InitializeMarket(t)
          \/ FreezeMarket \/ UnfreezeMarket \/ VoidMarket \/ TimeoutVoid \/ CloseMarket
          \/ \E o \in Owners : PlacePosition(o) \/ ProcessClaim(o) \/ ClosePosition(o)
          \/ \E o \in Owners, n \in Nonces : ActivatePositionLot(o, n)
          \/ \E o \in Owners, n \in Nonces, e \in 1..MaxEventEpoch : InvalidatePositionLot(o, n, e)
          \/ \E o \in Owners, k \in 1..MaxLots : ClosePositionLots(o, k)
    BY DEF InitializeMarket, FreezeMarket, UnfreezeMarket, BeginEpoch, VoidMarket, TimeoutVoid,
       TransitionToVoid, Void, CloseMarket, PlacePosition, WindowOpen, ProcessClaim, ClosePosition,
       Terminal, ActivatePositionLot, InvalidatePositionLot, OutsideBuckets, ClosePositionLots
  <2>2. CASE UNCHANGED vars
    BY <2>2 DEF vars
  <2>3. CASE \/ Tick \/ SetPause \/ \E c \in Configs : RotateConfig(c)
             \/ \E a \in Times, r \in Times \cup {NoTime} : RotateOracleSet(a, r)
             \/ \E o \in Owners, s \in Sides, a \in Amounts, d \in IntentLifetimes : SignIntent(o, s, a, d)
             \/ \E o \in Owners : DropIntent(o)
    BY <2>3 DEF Tick, SetPause, RotateConfig, RotateOracleSet, SignIntent, DropIntent
  <2> QED
    BY <2>1, <2>2, <2>3 DEF Next, ClaimPosition, ClaimPositionFor
<1> QED
  BY <1>1, <1>2, <1>3, <1>4

LEMMA NextRestIsDust ==
    Ledger /\ AccountsCounted /\ PotsMeet /\ RestIsDust /\ [Next]_vars => RestIsDust'
<1> SUFFICES ASSUME Ledger, AccountsCounted, PotsMeet, RestIsDust, [Next]_vars, state' = "Settled"
             PROVE  \E rest \in Nat, unpaid \in Nat, paid \in Nat :
                       RestCovers(rest, unpaid)' /\ WithinDust(rest, unpaid, paid)'
  BY DEF RestIsDust
<1>t. TypeOK'
  BY NextTypeOK DEF Ledger
<1>p. /\ active_total \in [Sides -> Nat] /\ final_forfeited \in Nat /\ claimed_count \in Nat
      /\ WinningSide \in Sides /\ active \in [Owners -> Nat] /\ base \in [Owners -> Nat]
      /\ claimed \in [Owners -> BOOLEAN] /\ side \in [Owners -> MaybeSides]
  BY DEF Ledger, TypeOK, MarketTypeOK, PositionTypeOK, WinningSide, Sides
<1>p2. active_total'[WinningSide'] \in Nat /\ final_forfeited' \in Nat
  BY <1>t DEF TypeOK, MarketTypeOK, WinningSide, Sides
<1> USE DEF marketVars, totalVars, finalVars, positionVars, bucketVars, entitledVars, moneyVars
\* Steps that leave the settled market's accounts alone, but for closing one
\* that was paid.
<1>1. CASE /\ UNCHANGED <<state, active_total, final_forfeited, claimed_count, outcome, vault>>
           /\ UNCHANGED <<Owed, UnpaidWinning>>
           /\ \A x \in Owners : OpenLoser(x) => OpenLoser(x)'
  <2>1. PICK rest \in Nat, unpaid \in Nat, paid \in Nat :
               RestCovers(rest, unpaid) /\ WithinDust(rest, unpaid, paid)
    BY <1>1 DEF RestIsDust
  <2>2. WinningSide' = WinningSide
    BY <1>1 DEF WinningSide
  <2>3. RestCovers(rest, unpaid)'
    BY <2>1, <2>2, <1>1 DEF RestCovers
  <2>4. WithinDust(rest, unpaid, paid)'
    BY <2>1, <2>2, <1>1 DEF WithinDust
  <2> QED
    BY <2>3, <2>4
<1>2. CASE UNCHANGED <<state, active_total, final_forfeited, claimed_count, outcome, vault, side, active, claimed,
                       base, processed, total_paid>>
  BY <1>1, <1>2 DEF Owed, UnpaidWinning, OpenLoser, WinningSide
\* Settlement ends: the rest is the forfeited pot, and nobody is paid.
<1>3. ASSUME state \in Running, RestCovers(final_forfeited, active_total[WinningSide])',
             claimed_count' = claimed_count,
             final_forfeited' > 0 => active_total'[WinningSide'] > 0 /\ \E o \in Owners : OpenLoser(o)'
      PROVE  \E rest \in Nat, unpaid \in Nat, paid \in Nat :
                RestCovers(rest, unpaid)' /\ WithinDust(rest, unpaid, paid)'
  <2>1. PICK rest \in Nat, unpaid \in Nat : rest = final_forfeited' /\ unpaid = active_total'[WinningSide']
    BY <1>p2
  <2>2. RestCovers(rest, unpaid)'
    BY <2>1, <1>3
  <2>3. claimed_count' = 0
    BY <1>3 DEF AccountsCounted
  <2>4. WithinDust(rest, unpaid, 0)'
    <3>1. final_forfeited' * unpaid + 0 * (active_total'[WinningSide'] - 1) = rest * active_total'[WinningSide']
      BY <2>1, <1>p2
    <3>2. rest * active_total'[WinningSide'] \in Int
      BY <1>p2
    <3> QED
      BY <3>1, <3>2, <2>1, <2>3, <1>3, <1>p2 DEF WithinDust
  <2> QED
    BY <2>2, <2>4
<1>4. ASSUME NEW won \in BOOLEAN, SettleMarket(won)
      PROVE  \E rest \in Nat, unpaid \in Nat, paid \in Nat :
                RestCovers(rest, unpaid)' /\ WithinDust(rest, unpaid, paid)'
  <2>1. RestCovers(final_forfeited, active_total[WinningSide])'
    BY <1>4, <1>t, SettleLedger
  <2>2. state \in Running /\ final_forfeited' = 0 /\ claimed_count' = claimed_count
    BY <1>4 DEF SettleMarket, Running
  <2> QED
    BY <2>1, <2>2, <1>3
<1>5. ASSUME NEW o \in Owners, CalculatePositionEntitlement(o)
      PROVE  \E rest \in Nat, unpaid \in Nat, paid \in Nat :
                RestCovers(rest, unpaid)' /\ WithinDust(rest, unpaid, paid)'
  <2>1. RestCovers(final_forfeited, active_total[WinningSide])'
    BY <1>5, <1>t, CalculateLedger
  <2>2. state \in Running /\ claimed_count' = claimed_count
    BY <1>5 DEF CalculatePositionEntitlement, Running
  <2>3. final_forfeited' > 0 => active_total'[WinningSide'] > 0 /\ \E x \in Owners : OpenLoser(x)'
    BY <1>5, CalculateMeets
  <2> QED
    BY <2>1, <2>2, <2>3, <1>3
<1>6. ASSUME NEW o \in Owners, ProcessClaim(o)
      PROVE  \E rest \in Nat, unpaid \in Nat, paid \in Nat :
                RestCovers(rest, unpaid)' /\ WithinDust(rest, unpaid, paid)'
  <2>0. /\ state = "Settled" /\ side[o] # "None" /\ ~claimed[o]
        /\ claimed' = [claimed EXCEPT ![o] = TRUE] /\ claimed_count' = claimed_count + 1
        /\ UNCHANGED <<active_total, final_forfeited, outcome, side>>
    BY <1>6 DEF ProcessClaim, ClaimPrepared
  <2>1. PICK rest \in Nat, unpaid \in Nat, paid \in Nat :
               RestCovers(rest, unpaid) /\ WithinDust(rest, unpaid, paid)
    BY <2>0 DEF RestIsDust
  <2>2. PICK share \in Nat, left \in Nat :
              /\ ClaimAmount(o) = base[o] + share /\ share <= rest
              /\ UnpaidWinning[o] <= unpaid /\ left = unpaid - UnpaidWinning[o]
              /\ RestCovers(rest - share, left)'
    BY <2>0, <2>1, <1>6, <1>t, ClaimRest
  <2>3. WinningSide' = WinningSide /\ rest - share \in Nat
    BY <2>0, <2>2 DEF WinningSide
  <2>4. \A x \in Owners : OpenLoser(x) /\ x # o => OpenLoser(x)'
    BY <2>0, <2>3, <1>p DEF OpenLoser
  <2> DEFINE F == final_forfeited
             W == active_total[WinningSide]
  <2>5. F \in Nat /\ W \in Nat
    BY <1>p
  <2>6. /\ rest <= F
        /\ F > 0 => /\ W > 0 /\ rest * W <= F * unpaid + paid * (W - 1)
                    /\ paid < claimed_count \/ (paid <= claimed_count /\ \E x \in Owners : OpenLoser(x))
    BY <2>1 DEF WithinDust
  <2>7. \A r, u, c \in Nat :
           /\ r <= F
           /\ F > 0 => /\ W > 0 /\ r * W <= F * u + c * (W - 1)
                       /\ c < claimed_count' \/ (c <= claimed_count' /\ \E x \in Owners : OpenLoser(x)')
           => WithinDust(r, u, c)'
    BY <2>0, <2>3 DEF WithinDust
  <2> HIDE DEF F, W
  <2>8. rest - share <= F
    BY <2>2, <2>5, <2>6
  <2>9. CASE F = 0
    <3>1. WithinDust(rest - share, left, 0)'
      BY <2>3, <2>7, <2>8, <2>9
    <3> QED
      BY <3>1, <2>2, <2>3
  <2>10. CASE F > 0 /\ side[o] # WinningSide
    <3>1. ClaimAmount(o) = base[o] /\ UnpaidWinning[o] = 0
      BY <2>0, <2>10 DEF ClaimAmount, SettledClaimAmount, UnpaidWinning
    <3>2. share = 0 /\ left = unpaid /\ rest - share = rest
      BY <3>1, <2>2, <1>p
    <3>3. paid < claimed_count'
      BY <2>0, <2>6, <2>10, <1>p
    <3>4. WithinDust(rest - share, left, paid)'
      BY <3>2, <3>3, <2>3, <2>6, <2>7, <2>10
    <3> QED
      BY <3>4, <2>2, <2>3
  <2>11. CASE F > 0 /\ side[o] = WinningSide
    <3>1. W \in Nat \ {0} /\ active[o] \in Nat
      BY <2>5, <2>6, <2>11, <1>p
    <3>2. ClaimAmount(o) = base[o] + MulDivFloor(active[o], F, W) /\ UnpaidWinning[o] = active[o]
      <4>1. ClaimAmount(o) = base[o] + WinnerWinnings(active[o], final_forfeited, active_total[WinningSide])
        BY <2>0, <2>11 DEF ClaimAmount, SettledClaimAmount
      <4>2. UnpaidWinning[o] = active[o]
        BY <2>0, <2>11 DEF UnpaidWinning
      <4> QED
        BY <4>1, <4>2, <3>1 DEF WinnerWinnings, F, W
    <3>3. MulDivFloor(active[o], F, W) \in Nat
      BY <3>1, <2>5, FloorDiv DEF MulDivFloor
    <3>4. share = MulDivFloor(active[o], F, W) /\ active[o] <= unpaid /\ left = unpaid - active[o]
      BY <3>2, <3>3, <2>2, <1>p
    <3>5. (rest - share) * W <= F * left + (paid + 1) * (W - 1)
      <4>1. rest * W <= F * unpaid + paid * (W - 1)
        BY <2>6, <2>11
      <4>2. (rest - MulDivFloor(active[o], F, W)) * W <= F * (unpaid - active[o]) + (paid + 1) * (W - 1)
        BY <4>1, <3>1, <3>4, <2>5, PayShareDust
      <4> QED
        BY <4>2, <3>4
    <3>6. \/ paid + 1 < claimed_count'
          \/ (paid + 1 <= claimed_count' /\ \E x \in Owners : OpenLoser(x)')
      <4>1. CASE paid < claimed_count
        BY <4>1, <2>0, <1>p
      <4>2. CASE paid <= claimed_count /\ \E x \in Owners : OpenLoser(x)
        <5>1. PICK x \in Owners : OpenLoser(x)
          BY <4>2
        <5>2. x # o
          BY <5>1, <2>11 DEF OpenLoser
        <5>3. OpenLoser(x)'
          BY <5>1, <5>2, <2>4
        <5>4. paid + 1 <= claimed_count'
          BY <4>2, <2>0, <1>p
        <5> QED
          BY <5>3, <5>4
      <4> QED
        BY <4>1, <4>2, <2>6, <2>11
    <3>7. paid + 1 \in Nat /\ W > 0
      BY <3>1
    <3>8. WithinDust(rest - share, left, paid + 1)'
      BY <3>5, <3>6, <3>7, <2>3, <2>7, <2>8
    <3> QED
      BY <3>7, <3>8, <2>2, <2>3
  <2> QED
    BY <2>5, <2>9, <2>10, <2>11
<1>7. ASSUME NEW o \in Owners, ClosePosition(o)
      PROVE  \E rest \in Nat, unpaid \in Nat, paid \in Nat :
                RestCovers(rest, unpaid)' /\ WithinDust(rest, unpaid, paid)'
  <2>1. /\ claimed[o] /\ side' = [side EXCEPT ![o] = "None"]
        /\ claimed' = [claimed EXCEPT ![o] = FALSE]
        /\ UNCHANGED <<state, active_total, final_forfeited, claimed_count, outcome, vault>>
        /\ \A x \in Owners : x # o => /\ active'[x] = active[x] /\ base'[x] = base[x]
                                      /\ processed'[x] = processed[x] /\ total_paid'[x] = total_paid[x]
    BY <1>7 DEF ClosePosition, Ledger, TypeOK, PositionTypeOK
  <2>2. WinningSide' = WinningSide /\ WinningSide # "None"
    BY <2>1 DEF WinningSide
  <2>3. Owed' = Owed /\ UnpaidWinning' = UnpaidWinning
    BY <2>1, <2>2, <1>p DEF Owed, UnpaidWinning
  <2>4. \A x \in Owners : OpenLoser(x) => OpenLoser(x)'
    BY <2>1, <2>2, <1>p DEF OpenLoser
  <2> QED
    BY <2>1, <2>3, <2>4, <1>1
<1>8. \/ UNCHANGED <<state, active_total, final_forfeited, claimed_count, outcome, vault, side, active, claimed,
                     base, processed, total_paid>>
      \/ \E won \in BOOLEAN : SettleMarket(won)
      \/ \E o \in Owners : CalculatePositionEntitlement(o) \/ ProcessClaim(o) \/ ClosePosition(o)
  <2>1. ~ \/ \E t \in TermSheets : InitializeMarket(t)
          \/ FreezeMarket \/ UnfreezeMarket \/ VoidMarket \/ TimeoutVoid \/ CloseMarket
          \/ \E o \in Owners : PlacePosition(o)
          \/ \E o \in Owners, n \in Nonces : ActivatePositionLot(o, n)
          \/ \E o \in Owners, n \in Nonces, e \in 1..MaxEventEpoch : InvalidatePositionLot(o, n, e)
    BY DEF InitializeMarket, FreezeMarket, UnfreezeMarket, BeginEpoch, VoidMarket, TimeoutVoid,
       TransitionToVoid, Void, CloseMarket, PlacePosition, WindowOpen, ActivatePositionLot,
       InvalidatePositionLot, OutsideBuckets
  <2>2. CASE UNCHANGED vars
    BY <2>2 DEF vars
  <2>3. CASE \/ Tick \/ SetPause \/ \E c \in Configs : RotateConfig(c)
             \/ \E a \in Times, r \in Times \cup {NoTime} : RotateOracleSet(a, r)
             \/ \E o \in Owners, s \in Sides, a \in Amounts, d \in IntentLifetimes : SignIntent(o, s, a, d)
             \/ \E o \in Owners : DropIntent(o)
    BY <2>3 DEF Tick, SetPause, RotateConfig, RotateOracleSet, SignIntent, DropIntent
  <2>4. CASE \E o \in Owners, k \in 1..MaxLots : ClosePositionLots(o, k)
    BY <2>4 DEF ClosePositionLots
  <2> QED
    BY <2>1, <2>2, <2>3, <2>4 DEF Next, ClaimPosition, ClaimPositionFor
<1> QED
  BY <1>2, <1>4, <1>5, <1>6, <1>7, <1>8

\* A sum of zeros is zero.
LEMMA SumOfZeros ==
    ASSUME NEW n \in Nat, NEW f, NEW t, HasSum(n, f, t), \A i \in 1..n : f[i] = 0
    PROVE  t = 0
<1>1. t \in Nat
  BY SumNat
<1>2. ~(t > 0)
  BY SumPositive
<1> QED
  BY <1>1, <1>2

\* The vault of a closable market.
LEMMA CloseIsDust ==
    ASSUME Ledger, AccountsCounted, RestIsDust, MarketClosable
    PROVE  /\ \A o \in Owners : side[o] = "None" /\ \A n \in Nonces : lot[o][n] = NoLot
           /\ vault > 0 => vault + 2 <= position_count
<1>p. /\ vault \in Nat /\ final_forfeited \in Nat /\ position_count \in Nat /\ claimed_count \in Nat
      /\ active_total[WinningSide] \in Nat /\ lot \in [Owners -> [Nonces -> LotRecords]]
  BY DEF Ledger, TypeOK, MarketTypeOK, MoneyTypeOK, LotTypeOK, WinningSide, Sides
<1>0. state \in {"Settled", "Voided"} /\ claimed_count = position_count /\ processed_count = 0
  BY DEF MarketClosable, Terminal
<1>1. \A o \in Owners : side[o] = "None"
  <2> SUFFICES ASSUME NEW o \in Owners PROVE side[o] = "None"
    OBVIOUS
  <2>1. OpenAccounts[o] <= 0
    BY <1>0, SumBound, OpenAccountsType, Indices DEF AccountsCounted, Terminal
  <2> QED
    BY <2>1 DEF OpenAccounts
<1>2. \A o \in Owners, n \in Nonces : lot[o][n] = NoLot
  BY <1>1 DEF Ledger, LotShape, AccountsCounted
<1>3. \A i \in 1..NumOwners : Owed[i] = 0 /\ UnpaidWinning[i] = 0
  BY <1>1, Indices DEF Owed, UnpaidWinning, WinningSide
<1>4. \A o \in Owners : ~OpenLoser(o)
  BY <1>1 DEF OpenLoser
<1>5. CASE state = "Voided"
  <2>1. HasSum(NumOwners, Owed, vault - final_forfeited) /\ final_forfeited = 0
    BY <1>5 DEF Ledger, VaultAddsUp, PhaseShape
  <2>2. vault - final_forfeited = 0
    BY <2>1, <1>3, SumOfZeros, Indices
  <2> QED
    BY <2>1, <2>2, <1>1, <1>2, <1>p
<1>6. CASE state = "Settled"
  <2>1. PICK rest \in Nat, unpaid \in Nat, paid \in Nat :
               RestCovers(rest, unpaid) /\ WithinDust(rest, unpaid, paid)
    BY <1>6 DEF RestIsDust
  <2>2. HasSum(NumOwners, Owed, vault - rest) /\ HasSum(NumOwners, UnpaidWinning, unpaid)
    BY <2>1 DEF RestCovers
  <2>3. vault - rest = 0 /\ unpaid = 0
    BY <2>2, <1>3, SumOfZeros, Indices
  <2>4. vault = rest
    BY <2>3, <1>p
  <2> DEFINE W == active_total[WinningSide]
  <2>5. vault > 0 => /\ W > 0 /\ vault * W <= final_forfeited * 0 + paid * (W - 1)
                     /\ paid < position_count
    BY <2>1, <2>3, <2>4, <1>0, <1>4, <1>p DEF WithinDust
  <2>6. W \in Nat
    BY <1>p
  <2> HIDE DEF W
  <2>7. vault > 0 => vault < paid
    <3> SUFFICES ASSUME vault > 0 PROVE vault < paid
      OBVIOUS
    <3>1. W > 0 /\ vault * W <= paid * (W - 1)
      BY <2>5, <2>6, <1>p
    <3>2. ASSUME vault >= paid PROVE FALSE
      <4>1. paid * (W - 1) = paid * W - paid /\ paid * W <= vault * W
        BY <3>2, <2>6, <1>p
      <4>2. paid * W \in Nat /\ vault * W \in Nat
        BY <2>6, <1>p
      <4>3. paid = 0
        BY <3>1, <4>1, <4>2
      <4>4. vault * W <= 0
        BY <3>1, <4>1, <4>3, <2>6
      <4>5. vault * W > 0
        BY <3>1, <2>6, <1>p
      <4> QED
        BY <4>2, <4>4, <4>5
    <3> QED
      BY <3>2, <1>p
  <2>8. vault > 0 => vault + 2 <= position_count
    BY <2>5, <2>7, <1>p
  <2> QED
    BY <2>8, <1>1, <1>2
<1> QED
  BY <1>0, <1>5, <1>6

LEMMA NextCloseLeavesDustOnly ==
    Ledger /\ AccountsCounted /\ RestIsDust /\ CloseLeavesDustOnly /\ [Next]_vars => CloseLeavesDustOnly'
<1> SUFFICES ASSUME Ledger, AccountsCounted, RestIsDust, CloseLeavesDustOnly, [Next]_vars, state' = "Closed"
             PROVE  CloseLeavesDustOnly'
  BY DEF CloseLeavesDustOnly
<1> USE DEF marketVars, totalVars, positionVars, bucketVars, moneyVars
<1>1. CASE CloseMarket
  <2>1. /\ MarketClosable /\ dust' = vault /\ vault' = 0 /\ UNCHANGED <<side, lot, position_count>>
    BY <1>1 DEF CloseMarket, CloseVault
  <2>2. /\ \A o \in Owners : side[o] = "None" /\ \A n \in Nonces : lot[o][n] = NoLot
        /\ vault > 0 => vault + 2 <= position_count
    BY <2>1, CloseIsDust
  <2> QED
    BY <2>1, <2>2 DEF CloseLeavesDustOnly
<1>2. CASE UNCHANGED <<state, vault, dust, side, lot, position_count>>
  BY <1>2 DEF CloseLeavesDustOnly
<1>3. ~ \/ \E t \in TermSheets : InitializeMarket(t)
        \/ FreezeMarket \/ UnfreezeMarket \/ VoidMarket \/ TimeoutVoid
        \/ \E won \in BOOLEAN : SettleMarket(won)
        \/ \E o \in Owners, s \in Sides, a \in Amounts, d \in IntentLifetimes : SignIntent(o, s, a, d)
        \/ \E o \in Owners : PlacePosition(o) \/ CalculatePositionEntitlement(o)
                             \/ ProcessClaim(o) \/ ClosePosition(o)
        \/ \E o \in Owners, n \in Nonces : ActivatePositionLot(o, n)
        \/ \E o \in Owners, n \in Nonces, e \in 1..MaxEventEpoch : InvalidatePositionLot(o, n, e)
        \/ \E o \in Owners, k \in 1..MaxLots : ClosePositionLots(o, k)
  BY DEF InitializeMarket, FreezeMarket, UnfreezeMarket, BeginEpoch, VoidMarket, TimeoutVoid,
     TransitionToVoid, Void, SettleMarket, StateAfterSettle, SignIntent, PlacePosition, WindowOpen,
     CalculatePositionEntitlement, ProcessClaim, ClosePosition, Terminal, ActivatePositionLot,
     InvalidatePositionLot, OutsideBuckets, ClosePositionLots
<1>4. CASE UNCHANGED vars
  BY <1>2, <1>4 DEF vars
<1>5. CASE \/ Tick \/ SetPause \/ \E c \in Configs : RotateConfig(c)
           \/ \E a \in Times, r \in Times \cup {NoTime} : RotateOracleSet(a, r)
           \/ \E o \in Owners : DropIntent(o)
  BY <1>2, <1>5 DEF Tick, SetPause, RotateConfig, RotateOracleSet, DropIntent
<1> QED
  BY <1>1, <1>3, <1>4, <1>5 DEF Next, ClaimPosition, ClaimPositionFor

\* Closing the market leaves nothing behind for any number of positions and any
\* odds: no account, no unpaid wallet, and a residual smaller than one unit per
\* winning position.  It holds because each winner's share is rounded down by
\* less than one unit and at least one position of a market with winnings lost.
THEOREM ClosingLeavesDustOnly == Spec => []CloseLeavesDustOnly
<1>1. Init => AccountsCounted /\ PotsMeet /\ RestIsDust /\ CloseLeavesDustOnly
  BY DEF Init, AccountsCounted, PotsMeet, RestIsDust, CloseLeavesDustOnly, Terminal
<1>2. Ledger /\ AccountsCounted /\ [Next]_vars => AccountsCounted'
  BY NextAccountsCounted
<1>3. Ledger /\ PotsMeet /\ [Next]_vars => PotsMeet'
  BY NextPotsMeet
<1>4. Ledger /\ AccountsCounted /\ PotsMeet /\ RestIsDust /\ [Next]_vars => RestIsDust'
  BY NextRestIsDust
<1>5. Ledger /\ AccountsCounted /\ RestIsDust /\ CloseLeavesDustOnly /\ [Next]_vars => CloseLeavesDustOnly'
  BY NextCloseLeavesDustOnly
<1> QED
  BY <1>1, <1>2, <1>3, <1>4, <1>5, LedgerInvariant, PTL DEF Spec

-----------------------------------------------------------------------------
(* Each position's buckets are the sums of its lots *)

LotAmounts(lots, s) == [n \in Nonces |-> IF lots[n].state = s THEN lots[n].amount ELSE 0]

SumOfLots(lots, s) == SumFunctionOnSet(LotAmounts(lots, s), Nonces)

BucketsAddUp(lots, a, p, r) ==
    /\ a = SumOfLots(lots, "Active")
    /\ p = SumOfLots(lots, "Pending")
    /\ r = SumOfLots(lots, "Voided")

LotsAddUp ==
    \A o \in Owners : ~claimed[o] => BucketsAddUp(lot[o], active[o], pending[o], refundable[o])

LEMMA NoncesFinite == IsFiniteSet(Nonces)
<1>1. 0 \in Int /\ MaxLots - 1 \in Int
  BY Constants
<1> QED
  BY <1>1, FS_Interval, Zenon DEF Nonces

LEMMA LotAmountsType ==
    ASSUME NEW lots \in [Nonces -> LotRecords], NEW s
    PROVE  LotAmounts(lots, s) \in [Nonces -> Nat]
<1>1. \A n \in Nonces : lots[n].amount \in Nat
  BY DEF LotRecords
<1> QED
  BY <1>1 DEF LotAmounts

LEMMA LotSumIs ==
    ASSUME NEW lots \in [Nonces -> LotRecords], NEW s
    PROVE  SumFunctionOnSet([n \in Nonces |-> lots[n].amount], {n \in Nonces : lots[n].state = s})
             = SumOfLots(lots, s)
<1> DEFINE f == LotAmounts(lots, s)
           g == [n \in Nonces |-> lots[n].amount]
           S == {n \in Nonces : lots[n].state = s}
<1>1. f \in [Nonces -> Nat]
  BY LotAmountsType
<1>2. S \subseteq Nonces /\ \A n \in Nonces : n \notin S => f[n] = 0
  BY DEF LotAmounts
<1>3. \A n \in S : f[n] \in Nat /\ f[n] = g[n]
  BY <1>1 DEF LotAmounts
<1>4. IsFiniteSet(Nonces) /\ IsFiniteSet(S)
  BY <1>2, NoncesFinite, FS_Subset
<1> HIDE DEF f, g, S
<1>5. SumFunctionOnSet(f, Nonces) = SumFunctionOnSet(f, S)
  BY <1>1, <1>2, <1>4, SumOnZeros
<1>6. SumFunctionOnSet(f, S) = SumFunctionOnSet(g, S)
  BY <1>3, <1>4, SumOnSame
<1> QED
  BY <1>5, <1>6 DEF f, g, S, SumOfLots

\* Without lots the sums are zero.
LEMMA NoLotsSum ==
    ASSUME NEW lots, NEW s, \A n \in Nonces : lots[n].state # s
    PROVE  SumOfLots(lots, s) = 0
<1> DEFINE f == LotAmounts(lots, s)
<1>1. \A n \in Nonces : f[n] = 0
  BY DEF LotAmounts
<1> HIDE DEF f
<1>2. SumFunctionOnSet(f, Nonces) = 0
  BY <1>1, NoncesFinite, SumOnNothing
<1> QED
  BY <1>2 DEF SumOfLots, f

\* One lot changes.
LEMMA LotChange ==
    ASSUME NEW lots \in [Nonces -> LotRecords], NEW after \in [Nonces -> LotRecords], NEW n \in Nonces,
           \A k \in Nonces : k # n => after[k] = lots[k], NEW s
    PROVE  SumOfLots(after, s) = SumOfLots(lots, s) - LotAmounts(lots, s)[n] + LotAmounts(after, s)[n]
<1> DEFINE f == LotAmounts(lots, s)
           g == LotAmounts(after, s)
<1>1. f \in [Nonces -> Nat] /\ g \in [Nonces -> Nat]
  BY LotAmountsType
<1>2. \A y \in Nonces : y # n => f[y] = g[y]
  BY DEF LotAmounts
<1>3. \A y \in Nonces : f[y] \in Nat /\ g[y] \in Nat
  BY <1>1
<1> HIDE DEF f, g
<1>4. SumFunctionOnSet(g, Nonces) = SumFunctionOnSet(f, Nonces) - f[n] + g[n]
  BY <1>2, <1>3, NoncesFinite, SumOnChange
<1> QED
  BY <1>4 DEF f, g, SumOfLots

\* Every step keeps the buckets of a position the sums of its lots.
LEMMA NextLotsAddUp ==
    ASSUME Ledger, Ledger', LotsAddUp, [Next]_vars
    PROVE  LotsAddUp'
<1>p. /\ active \in [Owners -> Nat] /\ pending \in [Owners -> Nat] /\ refundable \in [Owners -> Nat]
      /\ claimed \in [Owners -> BOOLEAN]
      /\ lot \in [Owners -> [Nonces -> LotRecords]] /\ lot' \in [Owners -> [Nonces -> LotRecords]]
  BY DEF Ledger, TypeOK, PositionTypeOK, LotTypeOK
<1>q. \A o \in Owners, n \in Nonces : lot[o][n].amount \in Nat
  BY <1>p DEF LotRecords
<1>r. /\ state \in Running => \A o \in Owners : ~claimed[o]
      /\ \A o \in Owners : side[o] = "None" => ~claimed[o]
  BY DEF Ledger, PhaseShape, PositionShape
<1> USE DEF marketVars, positionVars, bucketVars
\* Buckets and lots stay as they are.
<1>1. ASSUME UNCHANGED <<active, pending, refundable, lot>>,
             \A o \in Owners : claimed[o] => claimed'[o]
      PROVE  LotsAddUp'
  BY <1>1 DEF LotsAddUp
<1>2. CASE UNCHANGED vars
  BY <1>1, <1>2 DEF vars
<1>3. CASE \/ Tick \/ SetPause \/ \E c \in Configs : RotateConfig(c)
           \/ \E a \in Times, r \in Times \cup {NoTime} : RotateOracleSet(a, r)
  BY <1>1, <1>3 DEF Tick, SetPause, RotateConfig, RotateOracleSet
<1>4. CASE (\E t \in TermSheets : InitializeMarket(t)) \/ FreezeMarket \/ UnfreezeMarket
  BY <1>1, <1>4 DEF InitializeMarket, FreezeMarket, UnfreezeMarket, BeginEpoch
<1>5. CASE \/ \E o \in Owners, s \in Sides, a \in Amounts, d \in IntentLifetimes : SignIntent(o, s, a, d)
           \/ \E o \in Owners : DropIntent(o)
  BY <1>1, <1>5 DEF SignIntent, DropIntent
<1>6. CASE (\E won \in BOOLEAN : SettleMarket(won)) \/ VoidMarket \/ TimeoutVoid
  BY <1>1, <1>6 DEF SettleMarket, VoidMarket, TimeoutVoid, TransitionToVoid, Void
<1>7. CASE CloseMarket
  BY <1>1, <1>7 DEF CloseMarket
<1>8. ASSUME NEW o \in Owners, CalculatePositionEntitlement(o) \/ ProcessClaim(o) PROVE LotsAddUp'
  <2>1. UNCHANGED <<active, pending, refundable, lot>>
    BY <1>8 DEF CalculatePositionEntitlement, ProcessClaim
  <2>2. claimed' = claimed \/ claimed' = [claimed EXCEPT ![o] = TRUE]
    BY <1>8 DEF CalculatePositionEntitlement, ProcessClaim
  <2>3. \A x \in Owners : claimed[x] => claimed'[x]
    BY <2>2, <1>p
  <2> QED
    BY <1>1, <2>1, <2>3
\* One lot of one position changes, and its bucket with it.
<1>9. ASSUME NEW o \in Owners, NEW n \in Nonces, ~claimed[o], UNCHANGED claimed,
             \A k \in Nonces : k # n => lot'[o][k] = lot[o][k],
             \A x \in Owners : x # o => /\ active'[x] = active[x] /\ pending'[x] = pending[x]
                                        /\ refundable'[x] = refundable[x] /\ lot'[x] = lot[x],
             active'[o] = active[o] - LotAmounts(lot[o], "Active")[n] + LotAmounts(lot'[o], "Active")[n],
             pending'[o] = pending[o] - LotAmounts(lot[o], "Pending")[n]
                             + LotAmounts(lot'[o], "Pending")[n],
             refundable'[o] = refundable[o] - LotAmounts(lot[o], "Voided")[n]
                                + LotAmounts(lot'[o], "Voided")[n]
      PROVE  LotsAddUp'
  <2>1. lot[o] \in [Nonces -> LotRecords] /\ lot'[o] \in [Nonces -> LotRecords]
    BY <1>p
  <2>2. \A s : SumOfLots(lot'[o], s)
                 = SumOfLots(lot[o], s) - LotAmounts(lot[o], s)[n] + LotAmounts(lot'[o], s)[n]
    BY <2>1, <1>9, LotChange
  <2>3. BucketsAddUp(lot[o], active[o], pending[o], refundable[o])
    BY <1>9 DEF LotsAddUp
  <2>4. BucketsAddUp(lot'[o], active'[o], pending'[o], refundable'[o])
    BY <2>2, <2>3, <1>9 DEF BucketsAddUp
  <2> QED
    BY <2>4, <1>9 DEF LotsAddUp
<1>10. ASSUME NEW o \in Owners, PlacePosition(o) PROVE LotsAddUp'
  <2> DEFINE i == intent[o]
             new == [state |-> IF InPlay THEN "Pending" ELSE "Active",
                     side |-> i.side, amount |-> i.amount, observed |-> event_epoch, placed |-> now,
                     activation |-> IF InPlay THEN now + ActivationDelay ELSE NoTime]
  <2>1. i.nonce \in Nonces /\ i.amount \in Nat
    BY DEF Ledger, TypeOK, IntentTypeOK, IntentRecords
  <2>2. /\ lot' = [lot EXCEPT ![o][i.nonce] = new] /\ lot[o][i.nonce] = NoLot
        /\ UNCHANGED <<claimed, refundable>>
    BY <1>10 DEF PlacePosition, PositionAccepts
  <2>3. ~claimed[o]
    BY <1>10, <1>r DEF PlacePosition, PositionAccepts
  <2>4. /\ new.state = IF InPlay THEN "Pending" ELSE "Active"
        /\ new.amount = i.amount
    OBVIOUS
  <2>5. IF InPlay
        THEN pending' = [pending EXCEPT ![o] = @ + i.amount] /\ active' = active
        ELSE active' = [active EXCEPT ![o] = @ + i.amount] /\ pending' = pending
    BY <1>10 DEF PlacePosition, ApplyPositionDeposit
  <2> HIDE DEF i, new
  <2>6. /\ lot'[o][i.nonce] = new
        /\ \A k \in Nonces : k # i.nonce => lot'[o][k] = lot[o][k]
        /\ \A x \in Owners : x # o => lot'[x] = lot[x]
    BY <2>1, <2>2, <1>p
  <2>7. \A x \in Owners : x # o => active'[x] = active[x] /\ pending'[x] = pending[x]
    BY <2>5, <1>p
  <2>8. \A s \in {"Active", "Pending", "Voided"} :
          /\ LotAmounts(lot[o], s)[i.nonce] = 0
          /\ LotAmounts(lot'[o], s)[i.nonce] = IF new.state = s THEN i.amount ELSE 0
    BY <2>1, <2>2, <2>4, <2>6 DEF LotAmounts, NoLot
  <2>9. /\ active'[o] = active[o] + LotAmounts(lot'[o], "Active")[i.nonce]
        /\ pending'[o] = pending[o] + LotAmounts(lot'[o], "Pending")[i.nonce]
        /\ refundable'[o] = refundable[o] + LotAmounts(lot'[o], "Voided")[i.nonce]
    BY <2>1, <2>2, <2>4, <2>5, <2>8, <1>p
  <2>10. \A s \in {"Active", "Pending", "Voided"} : LotAmounts(lot[o], s)[i.nonce] = 0
    BY <2>8
  <2>11. /\ active'[o] = active[o] - LotAmounts(lot[o], "Active")[i.nonce]
                           + LotAmounts(lot'[o], "Active")[i.nonce]
         /\ pending'[o] = pending[o] - LotAmounts(lot[o], "Pending")[i.nonce]
                            + LotAmounts(lot'[o], "Pending")[i.nonce]
         /\ refundable'[o] = refundable[o] - LotAmounts(lot[o], "Voided")[i.nonce]
                               + LotAmounts(lot'[o], "Voided")[i.nonce]
    BY <2>9, <2>10, <1>p
  <2>12. \A x \in Owners : x # o => /\ active'[x] = active[x] /\ pending'[x] = pending[x]
                                     /\ refundable'[x] = refundable[x] /\ lot'[x] = lot[x]
    BY <2>2, <2>6, <2>7
  <2> QED
    BY <1>9, <2>1, <2>2, <2>3, <2>6, <2>11, <2>12
<1>11. ASSUME NEW o \in Owners, NEW n \in Nonces,
              \/ ActivatePositionLot(o, n)
              \/ \E e \in 1..MaxEventEpoch : InvalidatePositionLot(o, n, e)
       PROVE  LotsAddUp'
  <2> DEFINE l == lot[o][n]
             a == l.amount
  <2>1. /\ state \in Running /\ UNCHANGED claimed /\ l.state \in {"Pending", "Active"}
        /\ lot' = [lot EXCEPT ![o][n].state = "Active"] \/ lot' = [lot EXCEPT ![o][n].state = "Voided"]
    BY <1>11 DEF ActivatePositionLot, InvalidatePositionLot, OutsideBuckets, Activatable, Invalidatable,
       Running
  <2>2. /\ lot'[o][n] = [l EXCEPT !.state = "Active"] \/ lot'[o][n] = [l EXCEPT !.state = "Voided"]
        /\ \A k \in Nonces : k # n => lot'[o][k] = lot[o][k]
        /\ \A x \in Owners : x # o => lot'[x] = lot[x]
    <3>1. PICK z \in {"Active", "Voided"} : lot' = [lot EXCEPT ![o][n].state = z]
      BY <2>1
    <3>2. lot' = [lot EXCEPT ![o] = [lot[o] EXCEPT ![n] = [lot[o][n] EXCEPT !.state = z]]]
      BY <3>1
    <3>3. lot'[o] = [lot[o] EXCEPT ![n] = [lot[o][n] EXCEPT !.state = z]]
      BY <3>2, <1>p
    <3>4. \A x \in Owners : x # o => lot'[x] = lot[x]
      BY <3>2, <1>p
    <3>5. lot'[o][n] = [l EXCEPT !.state = z] /\ \A k \in Nonces : k # n => lot'[o][k] = lot[o][k]
      BY <3>3, <1>p
    <3> QED
      BY <3>4, <3>5
  <2>3. l \in LotRecords /\ a \in Nat
    BY <1>p DEF LotRecords
  <2>4. lot'[o][n].amount = a /\ lot'[o][n].state \in {"Active", "Voided"}
    BY <2>2, <2>3 DEF LotRecords
  <2>5. \/ /\ l.state = "Pending" /\ lot'[o][n].state = "Active"
           /\ active' = [active EXCEPT ![o] = @ + a] /\ pending' = [pending EXCEPT ![o] = @ - a]
           /\ refundable' = refundable
        \/ /\ l.state = "Pending" /\ lot'[o][n].state = "Voided"
           /\ pending' = [pending EXCEPT ![o] = @ - a] /\ refundable' = [refundable EXCEPT ![o] = @ + a]
           /\ active' = active
        \/ /\ l.state = "Active" /\ lot'[o][n].state = "Voided"
           /\ active' = [active EXCEPT ![o] = @ - a] /\ refundable' = [refundable EXCEPT ![o] = @ + a]
           /\ pending' = pending
    <3>1. CASE ActivatePositionLot(o, n)
      <4>1. lot'[o][n].state = "Active"
        BY <3>1, <1>p, <2>3 DEF ActivatePositionLot, LotRecords
      <4> QED
        BY <3>1, <4>1 DEF ActivatePositionLot, Activatable, MovePendingToActive
    <3>2. CASE \E e \in 1..MaxEventEpoch : InvalidatePositionLot(o, n, e)
      <4>1. lot'[o][n].state = "Voided"
        BY <3>2, <1>p, <2>3 DEF InvalidatePositionLot, LotRecords
      <4> QED
        BY <3>2, <4>1, <2>1 DEF InvalidatePositionLot, MakeLotRefundable
    <3> QED
      BY <1>11, <3>1, <3>2
  <2>6. \A s : /\ LotAmounts(lot[o], s)[n] = IF l.state = s THEN a ELSE 0
               /\ LotAmounts(lot'[o], s)[n] = IF lot'[o][n].state = s THEN a ELSE 0
    BY <2>4 DEF LotAmounts
  <2>7. \A x \in Owners : x # o => /\ active'[x] = active[x] /\ pending'[x] = pending[x]
                                   /\ refundable'[x] = refundable[x]
    BY <2>5, <1>p
  <2>8. /\ active'[o] = active[o] - LotAmounts(lot[o], "Active")[n] + LotAmounts(lot'[o], "Active")[n]
        /\ pending'[o] = pending[o] - LotAmounts(lot[o], "Pending")[n] + LotAmounts(lot'[o], "Pending")[n]
        /\ refundable'[o] = refundable[o] - LotAmounts(lot[o], "Voided")[n]
                              + LotAmounts(lot'[o], "Voided")[n]
    <3> DEFINE b == lot'[o][n].state
               was(s) == LotAmounts(lot[o], s)[n]
               is(s) == LotAmounts(lot'[o], s)[n]
    <3>1. \A s : was(s) = (IF l.state = s THEN a ELSE 0) /\ is(s) = IF b = s THEN a ELSE 0
      BY <2>6
    <3>2. active[o] \in Nat /\ pending[o] \in Nat /\ refundable[o] \in Nat
      BY <1>p
    <3>3. \/ /\ l.state = "Pending" /\ b = "Active"
             /\ active'[o] = active[o] + a /\ pending'[o] = pending[o] - a
             /\ refundable'[o] = refundable[o]
          \/ /\ l.state = "Pending" /\ b = "Voided"
             /\ pending'[o] = pending[o] - a /\ refundable'[o] = refundable[o] + a
             /\ active'[o] = active[o]
          \/ /\ l.state = "Active" /\ b = "Voided"
             /\ active'[o] = active[o] - a /\ refundable'[o] = refundable[o] + a
             /\ pending'[o] = pending[o]
      BY <2>5, <1>p
    <3> HIDE DEF l, a, b, was, is
    <3>4. /\ active'[o] = active[o] - was("Active") + is("Active")
          /\ pending'[o] = pending[o] - was("Pending") + is("Pending")
          /\ refundable'[o] = refundable[o] - was("Voided") + is("Voided")
      BY <2>3, <3>1, <3>2, <3>3
    <3> QED
      BY <3>4 DEF was, is
  <2> QED
    BY <1>9, <1>r, <2>1, <2>2, <2>7, <2>8
<1>12. ASSUME NEW o \in Owners, NEW k \in 1..MaxLots, ClosePositionLots(o, k) PROVE LotsAddUp'
  <2>1. /\ claimed[o] /\ UNCHANGED <<claimed, active, pending, refundable>>
        /\ \A x \in Owners : x # o => lot'[x] = lot[x]
    BY <1>12, <1>p DEF ClosePositionLots
  <2> QED
    BY <2>1 DEF LotsAddUp
<1>13. ASSUME NEW o \in Owners, ClosePosition(o) PROVE LotsAddUp'
  <2>1. /\ next_nonce[o] = 0 /\ UNCHANGED lot
        /\ active' = [active EXCEPT ![o] = 0] /\ pending' = [pending EXCEPT ![o] = 0]
        /\ refundable' = [refundable EXCEPT ![o] = 0] /\ claimed' = [claimed EXCEPT ![o] = FALSE]
    BY <1>13 DEF ClosePosition
  <2>2. \A n \in Nonces : lot[o][n].state = "None"
    <3>1. \A n \in Nonces : n >= 0
      BY DEF Nonces
    <3> QED
      BY <2>1, <3>1 DEF Ledger, LotShape
  <2>3. BucketsAddUp(lot[o], 0, 0, 0)
    BY <2>2, NoLotsSum DEF BucketsAddUp
  <2>4. /\ active'[o] = 0 /\ pending'[o] = 0 /\ refundable'[o] = 0
        /\ \A x \in Owners : x # o => /\ active'[x] = active[x] /\ pending'[x] = pending[x]
                                      /\ refundable'[x] = refundable[x] /\ claimed'[x] = claimed[x]
    BY <2>1, <1>p
  <2> QED
    BY <2>1, <2>3, <2>4 DEF LotsAddUp
<1> QED
  BY <1>2, <1>3, <1>4, <1>5, <1>6, <1>7, <1>8, <1>10, <1>11, <1>12, <1>13 DEF Next, ClaimPosition,
     ClaimPositionFor

-----------------------------------------------------------------------------
(* Until the market is terminal the vault holds every stake *)

PendingOn(s) == [o \in Owners |-> IF side[o] = s THEN pending[o] ELSE 0]

StakesAddUp ==
    state \in Running =>
        /\ HasSum(NumOwners, total_paid, vault)
        /\ \A s \in Sides : HasSum(NumOwners, PendingOn(s), pending_total[s])

LEMMA PendingOnType ==
    /\ TypeOK => \A s \in Sides : PendingOn(s) \in [1..NumOwners -> Nat]
    /\ TypeOK' => \A s \in Sides : PendingOn(s)' \in [1..NumOwners -> Nat]
<1> USE DEF TypeOK, PositionTypeOK, PendingOn, Owners
<1>1. TypeOK => \A s \in Sides : PendingOn(s) \in [1..NumOwners -> Nat]
  OBVIOUS
<1>2. TypeOK' => \A s \in Sides : PendingOn(s)' \in [1..NumOwners -> Nat]
  OBVIOUS
<1> QED
  BY <1>1, <1>2

\* Pending stakes of one position of side z change by d.
LEMMA PendingChange ==
    ASSUME TypeOK, TypeOK', NEW o \in Owners, NEW z \in Sides, NEW d \in Int,
           side'[o] = z, side[o] = z \/ (side[o] # z /\ side[o] \notin Sides /\ pending[o] = 0),
           pending'[o] = pending[o] + d,
           \A x \in Owners : x # o => side'[x] = side[x] /\ pending'[x] = pending[x],
           pending_total' = [pending_total EXCEPT ![z] = @ + d],
           \A s \in Sides : HasSum(NumOwners, PendingOn(s), pending_total[s])
    PROVE  \A s \in Sides : HasSum(NumOwners, PendingOn(s)', pending_total'[s])
<1> TAKE s \in Sides
<1> DEFINE f == PendingOn(s)
           g == PendingOn(s)'
<1>1. f \in [1..NumOwners -> Nat] /\ g \in [1..NumOwners -> Nat]
  BY PendingOnType
<1>2. \A x \in 1..NumOwners : x # o => g[x] = f[x]
  BY DEF PendingOn, Owners
<1>3. f[o] = (IF side[o] = s THEN pending[o] ELSE 0) /\ g[o] = IF side'[o] = s THEN pending'[o] ELSE 0
  BY DEF PendingOn
<1>4. pending[o] \in Nat /\ pending_total[s] \in Nat /\ pending_total[z] \in Nat
      /\ pending_total'[s] = IF s = z THEN pending_total[s] + d ELSE pending_total[s]
  BY DEF TypeOK, PositionTypeOK, MarketTypeOK
<1>5. HasSum(NumOwners, f, pending_total[s])
  OBVIOUS
<1>6. o \in 1..NumOwners /\ NumOwners \in Nat
  BY Indices
<1> HIDE DEF f, g
<1>7. HasSum(NumOwners, g, pending_total[s] - f[o] + g[o])
  BY <1>1, <1>2, <1>5, <1>6, SumChange
<1>8. pending_total[s] - f[o] + g[o] = pending_total'[s]
  <2>1. CASE s = z
    <3>1. f[o] = pending[o] /\ g[o] = pending[o] + d
      BY <2>1, <1>3
    <3> QED
      BY <2>1, <3>1, <1>4
  <2>2. CASE s # z
    <3>1. f[o] = 0 /\ g[o] = 0
      BY <2>2, <1>3
    <3> QED
      BY <2>2, <3>1, <1>4
  <2> QED
    BY <2>1, <2>2
<1> QED
  BY <1>7, <1>8 DEF g

LEMMA NextStakesAddUp ==
    ASSUME Ledger, Ledger', StakesAddUp, [Next]_vars
    PROVE  StakesAddUp'
<1> SUFFICES ASSUME state' \in Running
             PROVE  /\ HasSum(NumOwners, total_paid', vault')
                    /\ \A s \in Sides : HasSum(NumOwners, PendingOn(s)', pending_total'[s])
  BY DEF StakesAddUp
<1>p. /\ TypeOK /\ TypeOK' /\ side \in [Owners -> MaybeSides] /\ side' \in [Owners -> MaybeSides]
      /\ pending \in [Owners -> Nat] /\ pending' \in [Owners -> Nat]
      /\ total_paid \in [Owners -> Nat] /\ total_paid' \in [Owners -> Nat]
      /\ vault \in Nat /\ pending_total \in [Sides -> Nat]
  BY DEF Ledger, TypeOK, PositionTypeOK, MoneyTypeOK, MarketTypeOK
<1> USE DEF marketVars, positionVars, bucketVars, totalVars, moneyVars
<1>1. ASSUME UNCHANGED <<side, pending, total_paid, pending_total, vault>>, state \in Running
      PROVE  /\ HasSum(NumOwners, total_paid', vault')
             /\ \A s \in Sides : HasSum(NumOwners, PendingOn(s)', pending_total'[s])
  <2>1. \A s \in Sides : PendingOn(s)' = PendingOn(s)
    BY <1>1 DEF PendingOn
  <2> QED
    BY <1>1, <2>1 DEF StakesAddUp
<1>2. CASE UNCHANGED vars
  BY <1>1, <1>2 DEF vars
<1>3. CASE \/ Tick \/ SetPause \/ \E c \in Configs : RotateConfig(c)
           \/ \E a \in Times, r \in Times \cup {NoTime} : RotateOracleSet(a, r)
  BY <1>1, <1>3 DEF Tick, SetPause, RotateConfig, RotateOracleSet
<1>4. CASE (\E t \in TermSheets : InitializeMarket(t)) \/ FreezeMarket \/ UnfreezeMarket
  BY <1>1, <1>4 DEF InitializeMarket, FreezeMarket, UnfreezeMarket, BeginEpoch, Running
<1>5. CASE \/ \E o \in Owners, s \in Sides, a \in Amounts, d \in IntentLifetimes : SignIntent(o, s, a, d)
           \/ \E o \in Owners : DropIntent(o)
  BY <1>1, <1>5 DEF SignIntent, DropIntent
<1>6. CASE \E won \in BOOLEAN : SettleMarket(won)
  BY <1>1, <1>6 DEF SettleMarket, Running
<1>7. CASE VoidMarket \/ TimeoutVoid \/ CloseMarket
  BY <1>7 DEF VoidMarket, TimeoutVoid, TransitionToVoid, Void, CloseMarket, Running
<1>8. ASSUME NEW o \in Owners, CalculatePositionEntitlement(o)
      PROVE  /\ HasSum(NumOwners, total_paid', vault')
             /\ \A s \in Sides : HasSum(NumOwners, PendingOn(s)', pending_total'[s])
  BY <1>1, <1>8 DEF CalculatePositionEntitlement, Running
<1>9. ASSUME NEW o \in Owners,
             ProcessClaim(o) \/ ClosePosition(o) \/ \E k \in 1..MaxLots : ClosePositionLots(o, k)
      PROVE  FALSE
  BY <1>9 DEF ProcessClaim, ClosePosition, ClosePositionLots, Terminal, Running
<1>10. ASSUME NEW o \in Owners, PlacePosition(o)
       PROVE  /\ HasSum(NumOwners, total_paid', vault')
              /\ \A s \in Sides : HasSum(NumOwners, PendingOn(s)', pending_total'[s])
  <2> DEFINE i == intent[o]
             d == IF InPlay THEN i.amount ELSE 0
  <2>1. i.amount \in Nat /\ i.amount > 0 /\ i.side \in Sides
    BY <1>10 DEF Ledger, TypeOK, IntentTypeOK, IntentRecords, IntentShape, PlacePosition, AmountAllowed
  <2>2. /\ state \in Running
        /\ side' = [side EXCEPT ![o] = i.side] /\ total_paid' = [total_paid EXCEPT ![o] = @ + i.amount]
        /\ vault' = vault + i.amount
        /\ side[o] # "None" => side[o] = i.side
    BY <1>10 DEF PlacePosition, WindowOpen, Running, ApplyPositionDeposit, TransferPrincipal,
       PositionAccepts
  <2>3. IF InPlay
        THEN /\ pending' = [pending EXCEPT ![o] = @ + i.amount]
             /\ pending_total' = [pending_total EXCEPT ![i.side] = @ + i.amount]
        ELSE pending' = pending /\ pending_total' = pending_total
    BY <1>10 DEF PlacePosition, ApplyPositionDeposit
  <2>4. side[o] = "None" => pending[o] = 0
    BY DEF Ledger, PositionShape
  <2> HIDE DEF i
  <2>5. HasSum(NumOwners, total_paid', vault')
    <3>1. total_paid'[o] = total_paid[o] + i.amount
          /\ \A x \in 1..NumOwners : x # o => total_paid'[x] = total_paid[x]
      BY <2>2, <1>p, Indices
    <3>2. HasSum(NumOwners, total_paid', vault - total_paid[o] + total_paid'[o])
      <4>1. HasSum(NumOwners, total_paid, vault)
        BY <2>2 DEF StakesAddUp
      <4>2. total_paid \in [1..NumOwners -> Nat] /\ total_paid' \in [1..NumOwners -> Nat]
            /\ o \in 1..NumOwners /\ NumOwners \in Nat
        BY <1>p, Indices
      <4> QED
        BY <3>1, <4>1, <4>2, SumChange
    <3>3. vault - total_paid[o] + total_paid'[o] = vault'
      <4>1. total_paid[o] \in Nat /\ vault \in Nat
        BY <1>p
      <4>2. vault' = vault + i.amount /\ total_paid'[o] = total_paid[o] + i.amount
        BY <2>2, <3>1
      <4> QED
        BY <2>1, <4>1, <4>2
    <3> QED
      BY <3>2, <3>3
  <2>6. \A s \in Sides : HasSum(NumOwners, PendingOn(s)', pending_total'[s])
    <3>1. d \in Int /\ pending'[o] = pending[o] + d
          /\ \A x \in Owners : x # o => side'[x] = side[x] /\ pending'[x] = pending[x]
      BY <2>1, <2>2, <2>3, <1>p
    <3>2. pending_total' = [pending_total EXCEPT ![i.side] = @ + d]
      <4>1. CASE InPlay
        BY <4>1, <2>3
      <4>2. CASE ~InPlay
        <5>1. pending_total = [pending_total EXCEPT ![i.side] = @ + 0]
          BY <2>1, <1>p
        <5> QED
          BY <4>2, <2>3, <5>1
      <4> QED
        BY <4>1, <4>2
    <3>3. side'[o] = i.side
          /\ (side[o] = i.side \/ (side[o] # i.side /\ side[o] \notin Sides /\ pending[o] = 0))
      BY <2>1, <2>2, <2>4, <1>p DEF Sides, MaybeSides
    <3>4. \A s \in Sides : HasSum(NumOwners, PendingOn(s), pending_total[s])
      BY <2>2 DEF StakesAddUp
    <3> HIDE DEF d
    <3> QED
      BY <1>p, <2>1, <3>1, <3>2, <3>3, <3>4, PendingChange
  <2> QED
    BY <2>5, <2>6
<1>11. ASSUME NEW o \in Owners, NEW n \in Nonces,
              \/ ActivatePositionLot(o, n)
              \/ \E e \in 1..MaxEventEpoch : InvalidatePositionLot(o, n, e)
       PROVE  /\ HasSum(NumOwners, total_paid', vault')
              /\ \A s \in Sides : HasSum(NumOwners, PendingOn(s)', pending_total'[s])
  <2> DEFINE l == lot[o][n]
  <2>1. /\ state \in Running /\ UNCHANGED <<side, total_paid, vault>> /\ l.state # "None"
        /\ \/ UNCHANGED <<pending, pending_total>>
           \/ /\ pending' = [pending EXCEPT ![o] = @ - l.amount]
              /\ pending_total' = [pending_total EXCEPT ![l.side] = @ - l.amount]
    BY <1>11 DEF ActivatePositionLot, InvalidatePositionLot, OutsideBuckets, Activatable, Invalidatable,
       Running, MovePendingToActive, MakeLotRefundable
  <2>2. l.side = side[o] /\ l.side \in Sides /\ l.amount \in Nat
    <3>1. l \in LotRecords
      BY <1>p DEF TypeOK, LotTypeOK
    <3>2. side[o] # "None" /\ l.side = side[o]
      BY <2>1 DEF Ledger, LotShape
    <3> QED
      BY <3>1, <3>2, <1>p DEF LotRecords, MaybeSides
  <2>3. CASE UNCHANGED <<pending, pending_total>>
    BY <1>1, <2>1, <2>3
  <2>4. CASE /\ pending' = [pending EXCEPT ![o] = @ - l.amount]
             /\ pending_total' = [pending_total EXCEPT ![l.side] = @ - l.amount]
    <3> DEFINE d == 0 - l.amount
               z == l.side
    <3>0. d \in Int /\ z \in Sides /\ side[o] = z
      BY <2>2
    <3>1. pending'[o] = pending[o] + d /\ \A x \in Owners : x # o => pending'[x] = pending[x]
      BY <2>2, <2>4, <1>p
    <3>2. pending_total' = [pending_total EXCEPT ![z] = @ + d]
      <4>1. pending_total[z] - l.amount = pending_total[z] + d
        BY <2>2, <1>p
      <4> QED
        BY <2>4, <4>1
    <3>3. \A s \in Sides : HasSum(NumOwners, PendingOn(s), pending_total[s])
      BY <2>1 DEF StakesAddUp
    <3>4. HasSum(NumOwners, total_paid', vault')
      BY <2>1 DEF StakesAddUp
    <3>5. side'[o] = z /\ \A x \in Owners : side'[x] = side[x]
      BY <2>1, <3>0
    <3> HIDE DEF d, z
    <3> QED
      BY <1>p, <3>0, <3>1, <3>2, <3>3, <3>4, <3>5, PendingChange
  <2> QED
    BY <2>1, <2>3, <2>4
<1> QED
  BY <1>2, <1>3, <1>4, <1>5, <1>6, <1>7, <1>8, <1>9, <1>10, <1>11 DEF Next, ClaimPosition,
     ClaimPositionFor

\* The buckets of a position are sums over its lots, the vault and the pending
\* totals of a running market sums over the positions, through every instruction
\* (position.rs, settlement.rs).
THEOREM BooksInvariant == Spec => [](LotsAddUp /\ StakesAddUp)
<1>1. Init => LotsAddUp /\ StakesAddUp
  <2> SUFFICES ASSUME Init PROVE LotsAddUp /\ StakesAddUp
    OBVIOUS
  <2>1. \A o \in Owners : BucketsAddUp(lot[o], active[o], pending[o], refundable[o])
    <3> TAKE o \in Owners
    <3>1. active[o] = 0 /\ pending[o] = 0 /\ refundable[o] = 0 /\ \A n \in Nonces : lot[o][n].state = "None"
      BY DEF Init, NoLot
    <3>2. SumOfLots(lot[o], "Active") = 0 /\ SumOfLots(lot[o], "Pending") = 0 /\ SumOfLots(lot[o], "Voided") = 0
      BY <3>1, NoLotsSum
    <3> QED
      BY <3>1, <3>2 DEF BucketsAddUp
  <2>2. HasSum(NumOwners, total_paid, vault)
    <3>1. vault = 0 /\ \A i \in 1..NumOwners : total_paid[i] = 0
      BY Indices DEF Init
    <3> QED
      BY <3>1, SumZero, Indices
  <2>3. \A s \in Sides : HasSum(NumOwners, PendingOn(s), pending_total[s])
    <3> TAKE s \in Sides
    <3>1. pending_total[s] = 0 /\ \A i \in 1..NumOwners : PendingOn(s)[i] = 0
      BY Indices DEF Init, PendingOn, Zero
    <3> QED
      BY <3>1, SumZero, Indices
  <2> QED
    BY <2>1, <2>2, <2>3 DEF LotsAddUp, StakesAddUp
<1>2. Ledger /\ Ledger' /\ LotsAddUp /\ StakesAddUp /\ [Next]_vars => LotsAddUp' /\ StakesAddUp'
  BY NextLotsAddUp, NextStakesAddUp
<1> QED
  BY <1>1, <1>2, LedgerInvariant, PTL DEF Spec

\* The totals of the market and the buckets of every position are the sums of
\* their lots, for any number of owners, lots and stakes: placement, activation
\* and invalidation move the same amount in the lot, the position and the market
\* (position.rs, apply_position_deposit, move_pending_to_active,
\* make_lot_refundable).
THEOREM BooksBalance == Spec => []TotalsMatchLots
<1>1. Ledger /\ LotsAddUp /\ StakesAddUp => TotalsMatchLots
  <2> SUFFICES ASSUME Ledger, LotsAddUp, StakesAddUp PROVE TotalsMatchLots
    OBVIOUS
  <2>p. /\ TypeOK /\ active \in [Owners -> Nat] /\ pending \in [Owners -> Nat]
        /\ lot \in [Owners -> [Nonces -> LotRecords]]
    BY DEF Ledger, TypeOK, PositionTypeOK, LotTypeOK
  <2>1. \A o \in Owners, s \in {"Active", "Pending", "Voided"} : LotSum(o, s) = SumOfLots(lot[o], s)
    BY <2>p, LotSumIs DEF LotSum, Total
  <2>2. ASSUME NEW o \in Owners, ~claimed[o]
        PROVE  /\ active[o] = LotSum(o, "Active")
               /\ pending[o] = LotSum(o, "Pending")
               /\ refundable[o] = LotSum(o, "Voided")
    BY <2>1, <2>2 DEF LotsAddUp, BucketsAddUp
  <2>3. ASSUME state \in Running, NEW s \in Sides
        PROVE  /\ active_total[s] = SideActive(s)
               /\ pending_total[s] = Total(pending, {o \in Holders : side[o] = s})
    <3> DEFINE S == {o \in Holders : side[o] = s}
    <3>1. S \subseteq 1..NumOwners /\ \A x \in 1..NumOwners : x \notin S => side[x] # s
      BY Indices DEF Holders, Sides
    <3>2. \A x \in S : x \in Owners /\ side[x] = s
      BY DEF Holders
    <3>3. ActiveOn(s) \in [1..NumOwners -> Nat] /\ HasSum(NumOwners, ActiveOn(s), active_total[s])
      BY <2>3, <2>p, SummandTypes DEF Ledger, PotsAddUp
    <3>4. PendingOn(s) \in [1..NumOwners -> Nat] /\ HasSum(NumOwners, PendingOn(s), pending_total[s])
      BY <2>3, <2>p, PendingOnType DEF StakesAddUp
    <3>5. /\ \A x \in 1..NumOwners : x \notin S => ActiveOn(s)[x] = 0 /\ PendingOn(s)[x] = 0
          /\ \A x \in S : active[x] = ActiveOn(s)[x] /\ pending[x] = PendingOn(s)[x]
      BY <3>1, <3>2, Indices DEF ActiveOn, PendingOn
    <3> HIDE DEF S
    <3> DEFINE f == ActiveOn(s)
               g == PendingOn(s)
    <3>6. f \in [1..NumOwners -> Nat] /\ HasSum(NumOwners, f, active_total[s])
      BY <3>3
    <3>7. g \in [1..NumOwners -> Nat] /\ HasSum(NumOwners, g, pending_total[s])
      BY <3>4
    <3>8. Reindexes(NumOwners, f, S, active) /\ Reindexes(NumOwners, g, S, pending)
      BY <3>1, <3>5 DEF Reindexes
    <3>9. NumOwners \in Nat
      BY Indices
    <3> HIDE DEF f, g
    <3>10. SumFunctionOnSet(active, S) = active_total[s]
      BY <3>6, <3>8, <3>9, SumIsTotalOn
    <3>11. SumFunctionOnSet(pending, S) = pending_total[s]
      BY <3>7, <3>8, <3>9, SumIsTotalOn
    <3> QED
      BY <3>10, <3>11 DEF S, SideActive, Total
  <2> QED
    BY <2>2, <2>3 DEF TotalsMatchLots, Running
<1> QED
  BY <1>1, LedgerInvariant, BooksInvariant, PTL

-----------------------------------------------------------------------------
(* The vault against all it owes at once *)

\* The positions still to be paid, and the share of the pot each would win.
OpenClaims == {o \in Holders : ~claimed[o]}

Winnings(o) ==
    IF side[o] = WinningSide
    THEN WinnerWinnings(active[o], final_forfeited, active_total[side[o]]) ELSE 0

LEMMA OpenClaimsFinite == OpenClaims \subseteq 1..NumOwners /\ IsFiniteSet(OpenClaims)
<1>1. OpenClaims \subseteq 1..NumOwners
  BY Indices DEF OpenClaims, Holders
<1>2. IsFiniteSet(1..NumOwners)
  BY IntervalFinite, Indices
<1> QED
  BY <1>1, <1>2, FS_Subset

\* What is owed in a settled market: the base entitlements and the winnings.
LEMMA SettledClaims ==
    ASSUME Ledger, state = "Settled", NEW rest \in Nat, NEW unpaid \in Nat, RestCovers(rest, unpaid),
           NEW won, won = [o \in OpenClaims |-> Winnings(o)]
    PROVE  /\ \A o \in OpenClaims : won[o] \in Nat
           /\ SumFunctionOnSet(won, OpenClaims) \in Nat
           /\ SumFunctionOnSet([o \in OpenClaims |-> ClaimAmount(o)], OpenClaims)
                = vault - rest + SumFunctionOnSet(won, OpenClaims)
           /\ SumFunctionOnSet(UnpaidWinning, OpenClaims) = unpaid
<1> DEFINE due == [o \in OpenClaims |-> ClaimAmount(o)]
<1>p. /\ active \in [Owners -> Nat] /\ base \in [Owners -> Nat] /\ side \in [Owners -> MaybeSides]
      /\ active_total \in [Sides -> Nat] /\ final_forfeited \in Nat /\ NumOwners \in Nat
  BY Indices DEF Ledger, TypeOK, MarketTypeOK, PositionTypeOK
<1>1. \A o \in OpenClaims : /\ o \in Owners /\ side[o] \in Sides /\ ~claimed[o] /\ processed[o]
                            /\ active[o] \in Nat /\ base[o] \in Nat
  BY <1>p DEF OpenClaims, Holders, MaybeSides, Ledger, PhaseShape
<1>2. \A o \in OpenClaims : Winnings(o) \in Nat
  <2> TAKE o \in OpenClaims
  <2>1. active[o] \in Nat /\ active_total[side[o]] \in Nat
    BY <1>1, <1>p
  <2> QED
    BY <2>1, <1>p, FloorDiv DEF Winnings, WinnerWinnings, MulDivFloor
<1>3. \A o \in OpenClaims : ClaimAmount(o) = base[o] + Winnings(o)
  BY <1>1 DEF ClaimAmount, SettledClaimAmount, Winnings
<1>4. \A o \in OpenClaims : base[o] \in Nat /\ won[o] \in Nat /\ due[o] = base[o] + won[o]
  BY <1>1, <1>2, <1>3
<1> HIDE DEF due
<1>5. SumFunctionOnSet(due, OpenClaims)
        = SumFunctionOnSet(base, OpenClaims) + SumFunctionOnSet(won, OpenClaims)
  BY <1>4, OpenClaimsFinite, SumOnPlus
<1>6. SumFunctionOnSet(base, OpenClaims) = vault - rest
  <2>1. Owed \in [1..NumOwners -> Nat] /\ HasSum(NumOwners, Owed, vault - rest)
    BY SummandTypes DEF RestCovers, Ledger
  <2>2. Reindexes(NumOwners, Owed, OpenClaims, base)
    <3>1. \A x \in 1..NumOwners : x \notin OpenClaims => Owed[x] = 0
      BY Indices DEF OpenClaims, Holders, Owed
    <3>2. \A x \in OpenClaims : base[x] = Owed[x]
      BY <1>1 DEF Owed, OpenClaims, Holders
    <3> QED
      BY <3>1, <3>2, OpenClaimsFinite DEF Reindexes
  <2> QED
    BY <2>1, <2>2, <1>p, SumIsTotalOn
<1>7. SumFunctionOnSet(UnpaidWinning, OpenClaims) = unpaid
  <2>1. UnpaidWinning \in [1..NumOwners -> Nat] /\ HasSum(NumOwners, UnpaidWinning, unpaid)
    BY SummandTypes DEF RestCovers, Ledger
  <2>2. Reindexes(NumOwners, UnpaidWinning, OpenClaims, UnpaidWinning)
    <3>1. \A x \in 1..NumOwners : x \notin OpenClaims => UnpaidWinning[x] = 0
      BY Indices DEF OpenClaims, Holders, UnpaidWinning, WinningSide
    <3> QED
      BY <3>1, OpenClaimsFinite DEF Reindexes
  <2> QED
    BY <2>1, <2>2, <1>p, SumIsTotalOn
<1>8. SumFunctionOnSet(won, OpenClaims) \in Nat
  BY <1>4, OpenClaimsFinite, SumOnUnfold
<1> QED
  BY <1>4, <1>5, <1>6, <1>7, <1>8 DEF due

\* The open winners, counted, are among the positions still to be paid.
OpenWinner == [o \in Owners |-> IF side[o] = WinningSide /\ ~claimed[o] THEN 1 ELSE 0]

LEMMA WinnersCounted ==
    ASSUME Ledger
    PROVE  LET n == SumFunctionOnSet(OpenWinner, OpenClaims)
           IN  /\ n \in Nat /\ n <= position_count - claimed_count
               /\ (\E o \in Owners : OpenLoser(o)) => n < position_count - claimed_count
<1> DEFINE n == SumFunctionOnSet(OpenWinner, OpenClaims)
           all == SumFunctionOnSet(Unclaimed, OpenClaims)
<1>0. \A o \in OpenClaims : /\ o \in Owners /\ OpenWinner[o] \in Nat /\ Unclaimed[o] = 1
                            /\ OpenWinner[o] <= Unclaimed[o] /\ Unclaimed[o] \in Nat
  BY DEF OpenClaims, Holders, OpenWinner, Unclaimed
<1>1. all = position_count - claimed_count
  <2>1. Unclaimed \in [1..NumOwners -> Nat] /\ HasSum(NumOwners, Unclaimed, position_count - claimed_count)
    BY SummandTypes DEF Ledger, CountsAddUp
  <2>2. Reindexes(NumOwners, Unclaimed, OpenClaims, Unclaimed)
    <3>1. \A x \in 1..NumOwners : x \notin OpenClaims => Unclaimed[x] = 0
      BY Indices DEF OpenClaims, Holders, Unclaimed
    <3> QED
      BY <3>1, OpenClaimsFinite DEF Reindexes
  <2> QED
    BY <2>1, <2>2, Indices, SumIsTotalOn
<1>2. n \in Nat /\ all \in Nat
  BY <1>0, OpenClaimsFinite, SumOnUnfold
<1>3. n <= all
  BY <1>0, OpenClaimsFinite, SumOnMono
<1>4. ASSUME NEW l \in Owners, OpenLoser(l) PROVE n < all
  <2> DEFINE S == OpenClaims \ {l}
  <2>1. l \in OpenClaims /\ OpenWinner[l] = 0 /\ Unclaimed[l] = 1
    BY <1>4 DEF OpenLoser, OpenClaims, Holders, OpenWinner, Unclaimed
  <2>2. /\ n = OpenWinner[l] + SumFunctionOnSet(OpenWinner, S)
        /\ SumFunctionOnSet(OpenWinner, S) \in Nat
    BY <1>0, <2>1, OpenClaimsFinite, SumOnSplit
  <2>3. all = Unclaimed[l] + SumFunctionOnSet(Unclaimed, S) /\ SumFunctionOnSet(Unclaimed, S) \in Nat
    BY <1>0, <2>1, OpenClaimsFinite, SumOnSplit
  <2>4. IsFiniteSet(S) /\ \A o \in S : /\ OpenWinner[o] \in Nat /\ Unclaimed[o] \in Nat
                                       /\ OpenWinner[o] <= Unclaimed[o]
    BY <1>0, OpenClaimsFinite, FS_Subset
  <2> HIDE DEF S, n, all
  <2>5. SumFunctionOnSet(OpenWinner, S) <= SumFunctionOnSet(Unclaimed, S)
    BY <2>4, SumOnMono
  <2> QED
    BY <2>1, <2>2, <2>3, <2>5
<1> HIDE DEF n, all
<1> QED
  BY <1>1, <1>2, <1>3, <1>4 DEF n

\* A rest R over the winnings V of the unpaid winners, both within rounding of
\* the exact share F * U / W: the surplus is smaller than the roundings.
LEMMA SurplusBound ==
    ASSUME NEW F \in Nat, NEW W \in Nat \ {0}, NEW U \in Nat, NEW R \in Nat, NEW V \in Nat,
           NEW p \in Nat, NEW c \in Nat,
           W * V <= F * U, F * U <= R * W,
           R * W <= F * U + p * (W - 1), F * U <= W * V + (W - 1) * c
    PROVE  V <= R /\ (V = R \/ R - V < p + c)
<1>1. W * V <= R * W /\ W * V \in Nat /\ R * W \in Nat /\ F * U \in Nat
  OBVIOUS
<1>2. V <= R
  BY <1>1
<1> DEFINE d == R - V
           q == p + c
<1>3. d \in Nat /\ q \in Nat /\ d * W = R * W - W * V /\ q * W = p * W + W * c
  BY <1>2
<1>4. p * (W - 1) = p * W - p /\ (W - 1) * c = W * c - c /\ p * W \in Nat /\ W * c \in Nat
  OBVIOUS
<1> HIDE DEF d
<1>5. d * W <= q * W - q
  BY <1>1, <1>3, <1>4
<1> HIDE DEF q
<1>6. ASSUME d > 0, d >= q PROVE FALSE
  <2>1. q * W <= d * W
    BY <1>3, <1>6
  <2>2. q = 0
    BY <2>1, <1>3, <1>5
  <2>3. d * W <= 0
    BY <2>2, <1>5, <1>3
  <2>4. d * W >= d
    BY <1>3
  <2> QED
    BY <2>3, <2>4, <1>6, <1>3
<1>7. d = 0 \/ d < q
  BY <1>6, <1>3
<1> QED
  BY <1>2, <1>7 DEF d, q

\* What the open claims of a settled market win against the rest of the vault.
LEMMA SettledSurplus ==
    ASSUME Ledger, RestIsDust, state = "Settled"
    PROVE  LET surplus == vault - SumFunctionOnSet([o \in OpenClaims |-> ClaimAmount(o)], OpenClaims)
           IN  surplus = 0 \/ (surplus > 0 /\ surplus + 2 <= position_count)
<1> DEFINE won == [o \in OpenClaims |-> Winnings(o)]
           V == SumFunctionOnSet(won, OpenClaims)
           surplus == vault - SumFunctionOnSet([o \in OpenClaims |-> ClaimAmount(o)], OpenClaims)
           F == final_forfeited
           W == active_total[WinningSide]
           n == SumFunctionOnSet(OpenWinner, OpenClaims)
<1>p. /\ vault \in Nat /\ F \in Nat /\ W \in Nat /\ position_count \in Nat /\ claimed_count \in Nat
      /\ active \in [Owners -> Nat]
  BY DEF Ledger, TypeOK, MarketTypeOK, MoneyTypeOK, PositionTypeOK, WinningSide, Sides
<1>1. PICK rest \in Nat, unpaid \in Nat, paid \in Nat :
             RestCovers(rest, unpaid) /\ WithinDust(rest, unpaid, paid)
  BY DEF RestIsDust
<1>2. /\ \A o \in OpenClaims : won[o] \in Nat
      /\ V \in Nat /\ surplus = rest - V
      /\ SumFunctionOnSet(UnpaidWinning, OpenClaims) = unpaid
  <2>1. /\ \A o \in OpenClaims : won[o] \in Nat
        /\ V \in Nat
        /\ SumFunctionOnSet([o \in OpenClaims |-> ClaimAmount(o)], OpenClaims) = vault - rest + V
        /\ SumFunctionOnSet(UnpaidWinning, OpenClaims) = unpaid
    BY <1>1, SettledClaims
  <2> HIDE DEF won, V
  <2> QED
    BY <2>1, <1>p
<1>3. \A o \in OpenClaims :
         /\ o \in Owners /\ active[o] \in Nat /\ UnpaidWinning[o] \in Nat /\ OpenWinner[o] \in Nat
         /\ side[o] = WinningSide => /\ UnpaidWinning[o] = active[o] /\ OpenWinner[o] = 1
                                     /\ won[o] = WinnerWinnings(active[o], F, W)
         /\ side[o] # WinningSide => UnpaidWinning[o] = 0 /\ OpenWinner[o] = 0 /\ won[o] = 0
  <2> SUFFICES ASSUME NEW o \in OpenClaims
               PROVE  /\ o \in Owners /\ active[o] \in Nat /\ UnpaidWinning[o] \in Nat /\ OpenWinner[o] \in Nat
                      /\ side[o] = WinningSide => /\ UnpaidWinning[o] = active[o] /\ OpenWinner[o] = 1
                                                  /\ won[o] = WinnerWinnings(active[o], F, W)
                      /\ side[o] # WinningSide => UnpaidWinning[o] = 0 /\ OpenWinner[o] = 0 /\ won[o] = 0
    OBVIOUS
  <2>1. o \in Owners /\ ~claimed[o] /\ active[o] \in Nat
    BY <1>p DEF OpenClaims, Holders
  <2> QED
    BY <2>1 DEF UnpaidWinning, OpenWinner, Winnings
<1>4. /\ n \in Nat /\ n <= position_count - claimed_count
      /\ (\E o \in Owners : OpenLoser(o)) => n < position_count - claimed_count
  BY WinnersCounted
<1>5. /\ F * unpaid <= rest * W /\ rest <= F
      /\ F > 0 => /\ W > 0 /\ rest * W <= F * unpaid + paid * (W - 1)
                  /\ paid < claimed_count \/ (paid <= claimed_count /\ \E o \in Owners : OpenLoser(o))
  BY <1>1 DEF RestCovers, WithinDust
<1> HIDE DEF won, V, surplus, F, W, n
<1>6. CASE F = 0
  <2>1. \A o \in OpenClaims : won[o] = 0
    <3> TAKE o \in OpenClaims
    <3>1. W # 0 => (active[o] * 0) \div W = 0
      <4> SUFFICES ASSUME W # 0 PROVE (active[o] * 0) \div W = 0
        OBVIOUS
      <4>1. active[o] * 0 = 0 /\ W \in Nat \ {0}
        BY <1>3, <1>p
      <4>2. 0 \div W \in Nat /\ W * (0 \div W) <= 0
        BY <4>1, FloorDiv
      <4> DEFINE z == 0 \div W
      <4> HIDE DEF z
      <4>3. z \in Nat /\ W * z <= 0
        BY <4>2 DEF z
      <4>4. z = 0
        BY <4>1, <4>3
      <4> QED
        BY <4>1, <4>4 DEF z
    <3> QED
      BY <3>1, <1>3, <1>6 DEF WinnerWinnings, MulDivFloor
  <2>2. V = 0
    BY <2>1, OpenClaimsFinite, SumOnNothing DEF V
  <2>3. rest = 0
    BY <1>5, <1>6
  <2> QED
    BY <1>2, <2>2, <2>3 DEF surplus
<1>7. CASE F > 0
  <2>w. W \in Nat \ {0}
    BY <1>5, <1>7, <1>p
  <2>1. \A o \in OpenClaims : /\ UnpaidWinning[o] \in Nat /\ won[o] \in Nat /\ OpenWinner[o] \in Nat
                              /\ W * won[o] <= F * UnpaidWinning[o]
                              /\ F * UnpaidWinning[o] <= W * won[o] + (W - 1) * OpenWinner[o]
    <3> SUFFICES ASSUME NEW o \in OpenClaims
                 PROVE  /\ W * won[o] <= F * UnpaidWinning[o]
                        /\ F * UnpaidWinning[o] <= W * won[o] + (W - 1) * OpenWinner[o]
      BY <1>2, <1>3
    <3>1. CASE side[o] = WinningSide
      <4>1. UnpaidWinning[o] = active[o] /\ OpenWinner[o] = 1 /\ active[o] \in Nat
        BY <3>1, <1>3
      <4> DEFINE a == active[o]
                 x == a * F
                 w == x \div W
      <4>2. won[o] = w
        BY <3>1, <1>3, <2>w DEF WinnerWinnings, MulDivFloor
      <4>3. x \in Nat /\ x = F * a
        BY <4>1, <1>p
      <4> HIDE DEF x
      <4>4. w \in Nat /\ W * w <= x /\ x < W * w + W
        BY <4>3, <2>w, FloorDiv
      <4> HIDE DEF w, a
      <4>5. W * w \in Nat
        BY <4>4, <2>w
      <4>6. W * w <= x /\ x <= W * w + (W - 1) * 1
        BY <4>3, <4>4, <4>5, <2>w
      <4> QED
        BY <4>1, <4>2, <4>3, <4>6 DEF a
    <3>2. CASE side[o] # WinningSide
      <4>1. UnpaidWinning[o] = 0 /\ OpenWinner[o] = 0 /\ won[o] = 0
        BY <3>2, <1>3
      <4>2. W * 0 <= F * 0 /\ F * 0 <= W * 0 + (W - 1) * 0
        BY <1>p, <2>w
      <4> QED
        BY <4>1, <4>2
    <3> QED
      BY <3>1, <3>2
  <2>2. /\ W * V <= F * unpaid
        /\ F * unpaid <= W * V + (W - 1) * n
    BY <2>1, <2>w, <1>2, <1>p, OpenClaimsFinite, SharesTogether DEF V, n
  <2>3. rest * W <= F * unpaid + paid * (W - 1)
    BY <1>5, <1>7
  <2>4. V <= rest /\ (V = rest \/ rest - V < paid + n)
    BY <2>2, <2>3, <2>w, <1>p, <1>2, <1>4, <1>5, SurplusBound
  <2>5. paid + n < position_count
    BY <1>4, <1>5, <1>7, <1>p
  <2>6. surplus = 0 \/ (surplus > 0 /\ surplus + 2 <= position_count)
    BY <2>4, <2>5, <1>2, <1>4, <1>p
  <2> QED
    BY <2>6 DEF surplus
<1> QED
  BY <1>6, <1>7, <1>p DEF surplus

\* Whole vault against all claims at once, for any number of positions and any
\* odds: every stake while the market runs, every refund once it is voided, every
\* entitlement and all winnings once it is settled, and never more above that than
\* rounding leaves (settlement.rs, claims.rs).  So no order of claims can run the
\* vault dry, and no unit is stranded beyond one per winning position.
THEOREM VaultCoversEveryone == Spec => []VaultCoversAllClaims
<1>1. Ledger /\ StakesAddUp /\ RestIsDust => VaultCoversAllClaims
  <2> SUFFICES ASSUME Ledger, StakesAddUp, RestIsDust PROVE VaultCoversAllClaims
    OBVIOUS
  <2> DEFINE due == [o \in OpenClaims |-> ClaimAmount(o)]
             surplus == vault - SumFunctionOnSet(due, OpenClaims)
  <2>p. /\ total_paid \in [1..NumOwners -> Nat] /\ NumOwners \in Nat /\ vault \in Nat
        /\ Owed \in [1..NumOwners -> Nat]
    BY Indices, SummandTypes DEF Ledger, TypeOK, PositionTypeOK, MoneyTypeOK
  <2>1. state \in Running => vault = Total(total_paid, Holders)
    <3> SUFFICES ASSUME state \in Running PROVE vault = Total(total_paid, Holders)
      OBVIOUS
    <3>1. HasSum(NumOwners, total_paid, vault)
      BY DEF StakesAddUp
    <3>2. Reindexes(NumOwners, total_paid, Holders, total_paid)
      BY Indices DEF Reindexes, Holders, Ledger, PositionShape
    <3> QED
      BY <3>1, <3>2, <2>p, SumIsTotalOn DEF Total
  <2>2. state = "Voided" => surplus = 0
    <3> SUFFICES ASSUME state = "Voided" PROVE surplus = 0
      OBVIOUS
    <3>1. HasSum(NumOwners, Owed, vault - final_forfeited) /\ final_forfeited = 0
      BY DEF Ledger, VaultAddsUp, PhaseShape
    <3>2. HasSum(NumOwners, Owed, vault)
      <4>1. vault - final_forfeited = vault
        BY <3>1, <2>p
      <4> QED
        BY <3>1, <4>1
    <3>3. Reindexes(NumOwners, Owed, OpenClaims, due)
      <4>1. \A x \in 1..NumOwners : x \notin OpenClaims => Owed[x] = 0
        BY Indices DEF OpenClaims, Holders, Owed
      <4>2. \A x \in OpenClaims : due[x] = Owed[x]
        BY DEF OpenClaims, Holders, Owed, ClaimAmount, Ledger, PhaseShape
      <4> QED
        BY <4>1, <4>2, OpenClaimsFinite DEF Reindexes
    <3> HIDE DEF due
    <3>4. SumFunctionOnSet(due, OpenClaims) = vault
      BY <3>2, <3>3, <2>p, SumIsTotalOn
    <3> QED
      BY <3>4, <2>p
  <2>3. state = "Settled" => surplus = 0 \/ (surplus > 0 /\ surplus + 2 <= position_count)
    BY SettledSurplus
  <2> HIDE DEF surplus
  <2> QED
    BY <2>1, <2>2, <2>3 DEF VaultCoversAllClaims, OpenClaims, Total, Running, surplus
<1>2. Init => AccountsCounted /\ PotsMeet /\ RestIsDust
  BY DEF Init, AccountsCounted, PotsMeet, RestIsDust, Terminal
<1>3. Ledger /\ AccountsCounted /\ [Next]_vars => AccountsCounted'
  BY NextAccountsCounted
<1>4. Ledger /\ PotsMeet /\ [Next]_vars => PotsMeet'
  BY NextPotsMeet
<1>5. Ledger /\ AccountsCounted /\ PotsMeet /\ RestIsDust /\ [Next]_vars => RestIsDust'
  BY NextRestIsDust
<1> QED
  BY <1>1, <1>2, <1>3, <1>4, <1>5, LedgerInvariant, BooksInvariant, PTL DEF Spec

-----------------------------------------------------------------------------
(* The staged settlement computes what settle_positions computes at once *)

\* The pots are fixed once, and each calculated entitlement is the reference's.
PotsFixed ==
    state \in {"Settling", "Settled"} =>
        /\ outcome \in {"ClaimWon", "ClaimLost"}
        /\ final_matched["Back"] = MatchedBack(active_total["Back"], active_total["Doubt"], terms.ratio)
        /\ final_matched["Doubt"] = MatchedDoubt(active_total["Back"], active_total["Doubt"], terms.ratio)
        /\ \A o \in Owners :
              processed[o] => base[o] = active[o] - Forfeit(o) + pending[o] + refundable[o]

Forfeited == [o \in Owners |-> IF side[o] # "None" /\ processed[o] THEN Forfeit(o) ELSE 0]

\* As long as no position account is closed, the frozen totals are still sums
\* over the accounts, and the pot is what the calculated positions gave up.
NothingClosedYet ==
    /\ Terminal => processed_count <= position_count
    /\ Terminal /\ processed_count = position_count =>
          \A s \in Sides : HasSum(NumOwners, ActiveOn(s), active_total[s])
    /\ state = "Settling" \/ (state = "Settled" /\ processed_count = position_count) =>
          HasSum(NumOwners, Forfeited, final_forfeited)

\* A claim paid exactly what was owed.
PaidExactly ==
    /\ state = "Voided" => outcome = "Void"
    /\ Terminal => \A o \in Owners : claimed[o] => received[o] = ClaimAmount(o)

AsReference == PotsFixed /\ NothingClosedYet /\ PaidExactly

LEMMA ForfeitedType ==
    ASSUME TypeOK
    PROVE  Forfeited \in [1..NumOwners -> Nat]
  BY Indices, ForfeitType DEF Forfeited

LEMMA SettleAsReference ==
    ASSUME Ledger, NEW won \in BOOLEAN, SettleMarket(won)
    PROVE  AsReference'
<1> USE DEF positionVars, bucketVars, entitledVars, totalVars, moneyVars, termVars
<1>p. position_count \in Nat
  BY DEF Ledger, TypeOK, MarketTypeOK
<1>0. /\ state \in {"Open", "Frozen"} /\ state \in Running
      /\ state' \in {"Settling", "Settled"} /\ outcome' \in {"ClaimWon", "ClaimLost"}
      /\ processed_count' = 0 /\ final_forfeited' = 0
      /\ \A o \in Owners : ~claimed[o] /\ ~processed[o]
      /\ UNCHANGED <<side, active, processed, claimed, active_total, position_count, terms>>
  BY DEF SettleMarket, StateAfterSettle, Ledger, PhaseShape, Running
<1>1. PotsFixed'
  <2>1. /\ final_matched'["Back"] = MatchedBack(active_total["Back"], active_total["Doubt"], terms.ratio)
        /\ final_matched'["Doubt"] = MatchedDoubt(active_total["Back"], active_total["Doubt"], terms.ratio)
    BY DEF SettleMarket, Sides
  <2> QED
    BY <1>0, <2>1 DEF PotsFixed
<1>2. \A s \in Sides : HasSum(NumOwners, ActiveOn(s)', active_total'[s])
  <2>1. \A s \in Sides : ActiveOn(s)' = ActiveOn(s)
    BY <1>0 DEF ActiveOn
  <2> QED
    BY <1>0, <2>1 DEF Ledger, PotsAddUp
<1>3. HasSum(NumOwners, Forfeited', final_forfeited')
  <2>1. \A i \in 1..NumOwners : Forfeited'[i] = 0
    BY <1>0, Indices DEF Forfeited
  <2> QED
    BY <2>1, <1>0, SumZero, Indices
<1>4. NothingClosedYet'
  BY <1>0, <1>2, <1>3, <1>p DEF NothingClosedYet
<1>5. PaidExactly'
  BY <1>0 DEF PaidExactly
<1> QED
  BY <1>1, <1>4, <1>5 DEF AsReference

LEMMA CalculateAsReference ==
    ASSUME Ledger, AsReference, NEW o \in Owners, CalculatePositionEntitlement(o)
    PROVE  AsReference'
<1> USE DEF bucketVars, totalVars, moneyVars, termVars
<1>p. /\ processed \in [Owners -> BOOLEAN] /\ base \in [Owners -> Nat] /\ final_forfeited \in Nat
      /\ position_count \in Nat /\ processed_count \in Nat /\ TypeOK
  BY DEF Ledger, TypeOK, MarketTypeOK, PositionTypeOK
<1>0. /\ state = "Settling" /\ side[o] # "None" /\ ~processed[o]
      /\ state' \in {"Settling", "Settled"}
      /\ processed_count + 1 <= position_count /\ processed_count' = processed_count + 1
      /\ processed' = [processed EXCEPT ![o] = TRUE]
      /\ base' = [base EXCEPT ![o] = active[o] - Forfeit(o) + pending[o] + refundable[o]]
      /\ final_forfeited' = final_forfeited + Forfeit(o)
      /\ \A x \in Owners : ~claimed[x]
      /\ UNCHANGED <<side, active, pending, refundable, final_matched, claimed, active_total,
                     position_count, outcome, terms>>
  BY DEF CalculatePositionEntitlement, Ledger, PhaseShape, Running
<1>1. \A x \in Owners : Forfeit(x)' = Forfeit(x)
  BY <1>0 DEF Forfeit, WinningSide
<1>2. PotsFixed'
  <2>1. ASSUME NEW x \in Owners, processed'[x]
        PROVE  base'[x] = active[x] - Forfeit(x) + pending[x] + refundable[x]
    <3>1. CASE x = o
      BY <3>1, <1>0, <1>p
    <3>2. CASE x # o
      BY <3>2, <2>1, <1>0, <1>p DEF AsReference, PotsFixed
    <3> QED
      BY <3>1, <3>2
  <2> HIDE DEF Forfeit
  <2> QED
    BY <1>0, <1>1, <2>1 DEF AsReference, PotsFixed
<1>3. \A s \in Sides : HasSum(NumOwners, ActiveOn(s)', active_total'[s])
  <2>1. \A s \in Sides : ActiveOn(s)' = ActiveOn(s)
    BY <1>0 DEF ActiveOn
  <2> QED
    BY <1>0, <2>1 DEF Ledger, PotsAddUp, Running
<1>4. HasSum(NumOwners, Forfeited', final_forfeited')
  <2>1. Forfeit(o) \in Nat
    BY <1>0, <1>p, ForfeitType
  <2>2. Forfeited \in [1..NumOwners -> Nat] /\ HasSum(NumOwners, Forfeited, final_forfeited)
    BY <1>0, <1>p, ForfeitedType DEF AsReference, NothingClosedYet
  <2> DEFINE g == [x \in Owners |-> IF x = o THEN Forfeit(o) ELSE Forfeited[x]]
  <2>3. Forfeited' = g
    <3>1. \A x \in Owners : Forfeited'[x] = g[x]
      BY <1>0, <1>1, <1>p DEF Forfeited
    <3> QED
      BY <3>1 DEF Forfeited
  <2>4. /\ g \in [1..NumOwners -> Nat] /\ g[o] = Forfeit(o) /\ Forfeited[o] = 0
        /\ \A i \in 1..NumOwners : i # o => g[i] = Forfeited[i]
    BY <2>1, <2>2, <1>0, Indices DEF Forfeited
  <2> HIDE DEF g
  <2>5. HasSum(NumOwners, g, final_forfeited - Forfeited[o] + g[o])
    BY <2>2, <2>4, SumChange, Indices
  <2>6. final_forfeited - Forfeited[o] + g[o] = final_forfeited'
    BY <2>1, <2>4, <1>0, <1>p
  <2> QED
    BY <2>3, <2>5, <2>6
<1>5. NothingClosedYet'
  BY <1>0, <1>3, <1>4, <1>p DEF NothingClosedYet
<1>6. PaidExactly'
  BY <1>0 DEF PaidExactly
<1> QED
  BY <1>2, <1>5, <1>6 DEF AsReference

LEMMA ClosePositionAsReference ==
    ASSUME Ledger, AsReference, NEW o \in Owners, ClosePosition(o)
    PROVE  AsReference'
<1>p. /\ processed \in [Owners -> BOOLEAN] /\ base \in [Owners -> Nat] /\ side \in [Owners -> MaybeSides]
      /\ active \in [Owners -> Nat] /\ pending \in [Owners -> Nat] /\ refundable \in [Owners -> Nat]
      /\ claimed \in [Owners -> BOOLEAN] /\ total_paid \in [Owners -> Nat]
      /\ position_count \in Nat /\ processed_count \in Nat
  BY DEF Ledger, TypeOK, MarketTypeOK, PositionTypeOK
<1>0. /\ Terminal /\ processed_count > 0 /\ processed_count' = processed_count - 1
      /\ UNCHANGED <<state, outcome, final_matched, active_total, terms, final_forfeited,
                     position_count, received>>
  BY DEF ClosePosition, totalVars, termVars, moneyVars
<1>1. processed_count' < position_count'
  BY <1>0, <1>p DEF AsReference, NothingClosedYet
<1>2. ~processed'[o] /\ ~claimed'[o]
  BY <1>p DEF ClosePosition
<1>3. ASSUME NEW x \in Owners, x # o
      PROVE  /\ processed'[x] = processed[x] /\ claimed'[x] = claimed[x] /\ base'[x] = base[x]
             /\ side'[x] = side[x] /\ active'[x] = active[x] /\ pending'[x] = pending[x]
             /\ refundable'[x] = refundable[x] /\ total_paid'[x] = total_paid[x]
  BY <1>3, <1>p DEF ClosePosition
<1>4. \A x \in Owners : x # o => Forfeit(x)' = Forfeit(x) /\ ClaimAmount(x)' = ClaimAmount(x)
  BY <1>0, <1>3 DEF Forfeit, ClaimAmount, SettledClaimAmount, WinningSide
<1>5. PotsFixed'
  <2>1. ASSUME state \in {"Settling", "Settled"}, NEW x \in Owners, processed'[x]
        PROVE  base'[x] = active'[x] - Forfeit(x)' + pending'[x] + refundable'[x]
    <3>1. x # o /\ processed[x]
      BY <2>1, <1>2, <1>3
    <3>2. base[x] = active[x] - Forfeit(x) + pending[x] + refundable[x]
      BY <2>1, <3>1 DEF AsReference, PotsFixed
    <3> QED
      BY <3>1, <3>2, <1>3, <1>4
  <2> QED
    BY <1>0, <2>1 DEF AsReference, PotsFixed
<1>6. NothingClosedYet'
  <2>1. Terminal' /\ state' # "Settling" /\ processed_count' <= position_count'
        /\ processed_count' # position_count'
    BY <1>0, <1>1, <1>p DEF Terminal
  <2> QED
    BY <2>1 DEF NothingClosedYet
<1>7. PaidExactly'
  <2>1. ASSUME NEW x \in Owners, claimed'[x] PROVE received'[x] = ClaimAmount(x)'
    BY <2>1, <1>0, <1>2, <1>3, <1>4 DEF AsReference, PaidExactly
  <2> QED
    BY <1>0, <2>1 DEF AsReference, PaidExactly, Terminal
<1> QED
  BY <1>5, <1>6, <1>7 DEF AsReference

LEMMA ClaimAsReference ==
    ASSUME Ledger, Entitlements, AsReference, NEW o \in Owners, ProcessClaim(o)
    PROVE  AsReference'
<1>p. claimed \in [Owners -> BOOLEAN] /\ received \in [Owners -> Nat]
  BY DEF Ledger, TypeOK, PositionTypeOK, MoneyTypeOK
<1>0. /\ side[o] # "None" /\ ~claimed[o] /\ state \in {"Settled", "Voided"}
      /\ claimed' = [claimed EXCEPT ![o] = TRUE]
      /\ received' = [received EXCEPT ![o] = @ + ClaimAmount(o)]
      /\ UNCHANGED <<state, outcome, final_matched, active_total, terms, final_forfeited, position_count,
                     processed_count, side, active, pending, refundable, total_paid, base, processed>>
  BY DEF ProcessClaim, ClaimPrepared, TransferClaim, totalVars, termVars, finalVars, bucketVars, entitledVars
<1>1. \A x \in Owners : Forfeit(x)' = Forfeit(x) /\ ClaimAmount(x)' = ClaimAmount(x)
  BY <1>0 DEF Forfeit, ClaimAmount, SettledClaimAmount, WinningSide
<1>2. PotsFixed'
  BY <1>0, <1>1 DEF AsReference, PotsFixed
<1>3. NothingClosedYet'
  <2>1. Forfeited' = Forfeited /\ \A s \in Sides : ActiveOn(s)' = ActiveOn(s)
    BY <1>0, <1>1 DEF Forfeited, ActiveOn
  <2> QED
    BY <1>0, <2>1 DEF AsReference, NothingClosedYet, Terminal
<1>4. PaidExactly'
  <2>1. received[o] = 0 /\ ClaimAmount(o) \in Nat
    BY <1>0, ClaimAmountType DEF Entitlements, Ledger
  <2>2. received'[o] = ClaimAmount(o)
    BY <2>1, <1>0, <1>p
  <2>3. ASSUME NEW x \in Owners, claimed'[x] PROVE received'[x] = ClaimAmount(x)'
    <3>1. CASE x = o
      BY <3>1, <2>2, <1>1
    <3>2. CASE x # o
      BY <3>2, <2>3, <1>0, <1>1, <1>p DEF AsReference, PaidExactly, Terminal
    <3> QED
      BY <3>1, <3>2
  <2> QED
    BY <1>0, <2>3 DEF AsReference, PaidExactly
<1> QED
  BY <1>2, <1>3, <1>4 DEF AsReference

LEMMA NextAsReference ==
    ASSUME Ledger, Entitlements, AsReference, [Next]_vars
    PROVE  AsReference'
<1> USE DEF marketVars, totalVars, termVars, finalVars, positionVars, bucketVars, entitledVars, moneyVars
<1>1. ASSUME state' \notin {"Settling", "Settled", "Voided"} PROVE AsReference'
  BY <1>1 DEF AsReference, PotsFixed, NothingClosedYet, PaidExactly, Terminal
<1>2. ASSUME UNCHANGED <<state, outcome, terms, final_matched, final_forfeited, active_total, processed_count,
                         position_count, side, active, pending, refundable, total_paid, base,
                         processed, claimed, received>>
      PROVE  AsReference'
  <2>1. /\ \A x \in Owners : Forfeit(x)' = Forfeit(x) /\ ClaimAmount(x)' = ClaimAmount(x)
        /\ Terminal' = Terminal
    BY <1>2 DEF Forfeit, ClaimAmount, SettledClaimAmount, WinningSide, Terminal
  <2>2. Forfeited' = Forfeited /\ \A s \in Sides : ActiveOn(s)' = ActiveOn(s)
    BY <1>2, <2>1 DEF Forfeited, ActiveOn
  <2> QED
    BY <1>2, <2>1, <2>2 DEF AsReference, PotsFixed, NothingClosedYet, PaidExactly
<1>3. CASE UNCHANGED vars
  BY <1>2, <1>3 DEF vars
<1>4. CASE \/ Tick \/ SetPause \/ \E c \in Configs : RotateConfig(c)
           \/ \E a \in Times, r \in Times \cup {NoTime} : RotateOracleSet(a, r)
  BY <1>2, <1>4 DEF Tick, SetPause, RotateConfig, RotateOracleSet
<1>5. CASE \/ \E o \in Owners, s \in Sides, a \in Amounts, d \in IntentLifetimes : SignIntent(o, s, a, d)
           \/ \E o \in Owners : DropIntent(o)
           \/ \E o \in Owners, k \in 1..MaxLots : ClosePositionLots(o, k)
  BY <1>2, <1>5 DEF SignIntent, DropIntent, ClosePositionLots
<1>6. CASE (\E t \in TermSheets : InitializeMarket(t)) \/ FreezeMarket \/ UnfreezeMarket \/ CloseMarket
  BY <1>1, <1>6 DEF InitializeMarket, FreezeMarket, UnfreezeMarket, BeginEpoch, CloseMarket
<1>7. CASE \/ \E o \in Owners : PlacePosition(o)
           \/ \E o \in Owners, n \in Nonces : ActivatePositionLot(o, n)
           \/ \E o \in Owners, n \in Nonces, e \in 1..MaxEventEpoch : InvalidatePositionLot(o, n, e)
  <2>1. state \in {"Open", "Frozen"} /\ state' = state
    BY <1>7 DEF PlacePosition, WindowOpen, ActivatePositionLot, InvalidatePositionLot, OutsideBuckets
  <2> QED
    BY <1>1, <2>1
<1>8. CASE VoidMarket \/ TimeoutVoid
  <2>1. /\ state \in Running /\ state' = "Voided" /\ outcome' = "Void" /\ processed_count' = position_count
        /\ \A o \in Owners : ~claimed[o]
        /\ UNCHANGED <<side, active, claimed, active_total, position_count>>
    BY <1>8 DEF VoidMarket, TimeoutVoid, TransitionToVoid, Void, Ledger, PhaseShape, Running
  <2>2. \A s \in Sides : HasSum(NumOwners, ActiveOn(s)', active_total'[s])
    <3>1. \A s \in Sides : ActiveOn(s)' = ActiveOn(s)
      BY <2>1 DEF ActiveOn
    <3> QED
      BY <2>1, <3>1 DEF Ledger, PotsAddUp
  <2>3. position_count \in Nat
    BY DEF Ledger, TypeOK, MarketTypeOK
  <2> QED
    BY <2>1, <2>2, <2>3 DEF AsReference, PotsFixed, NothingClosedYet, PaidExactly
<1> QED
  BY <1>3, <1>4, <1>5, <1>6, <1>7, <1>8, SettleAsReference, CalculateAsReference, ClaimAsReference,
     ClosePositionAsReference DEF Next, ClaimPosition, ClaimPositionFor

\* The total of a side, added up over its accounts.
LEMMA SideActiveIs ==
    ASSUME TypeOK, NEW s \in Sides, HasSum(NumOwners, ActiveOn(s), active_total[s])
    PROVE  SideActive(s) = active_total[s]
<1> DEFINE S == {o \in Holders : side[o] = s}
           f == ActiveOn(s)
<1>1. f \in [1..NumOwners -> Nat] /\ HasSum(NumOwners, f, active_total[s]) /\ NumOwners \in Nat
  BY SummandTypes, Indices
<1>2. Reindexes(NumOwners, f, S, active)
  BY Indices DEF Reindexes, Holders, ActiveOn, Sides
<1> HIDE DEF f, S
<1>3. SumFunctionOnSet(active, S) = active_total[s]
  BY <1>1, <1>2, SumIsTotalOn
<1> QED
  BY <1>3 DEF S, SideActive, Total

\* The pot the reference adds up over the losers is the one the stages did.
LEMMA ReferencePotIs ==
    ASSUME Ledger, AsReference, state = "Settled", processed_count = position_count
    PROVE  LET losers == {x \in Holders : side[x] # WinningSide}
           IN  /\ \A o \in losers : ReferenceForfeit(o) = Forfeit(o)
               /\ Total([x \in losers |-> ReferenceForfeit(x)], losers) = final_forfeited
<1> DEFINE losers == {x \in Holders : side[x] # WinningSide}
           g == [x \in losers |-> ReferenceForfeit(x)]
<1>p. TypeOK /\ side \in [Owners -> MaybeSides]
  BY DEF Ledger, TypeOK, PositionTypeOK
<1>1. \A s \in Sides : SideActive(s) = active_total[s]
  BY <1>p, SideActiveIs DEF AsReference, NothingClosedYet, Terminal
<1>2. \A o \in losers : o \in Owners /\ side[o] \in Sides /\ side[o] # WinningSide /\ processed[o]
  BY <1>p DEF Holders, MaybeSides, Ledger, PhaseShape
<1>3. ASSUME NEW o \in losers PROVE ReferenceForfeit(o) = Forfeit(o)
  <2>1. /\ SideActive("Back") = active_total["Back"] /\ SideActive("Doubt") = active_total["Doubt"]
        /\ SideActive(side[o]) = active_total[side[o]] /\ side[o] \in {"Back", "Doubt"}
    BY <1>1, <1>2 DEF Sides
  <2>2. /\ final_matched["Back"] = MatchedBack(active_total["Back"], active_total["Doubt"], terms.ratio)
        /\ final_matched["Doubt"] = MatchedDoubt(active_total["Back"], active_total["Doubt"], terms.ratio)
    BY DEF AsReference, PotsFixed
  <2> HIDE DEF losers
  <2> QED
    BY <2>1, <2>2, <1>2 DEF ReferenceForfeit, Forfeit
<1>4. Forfeited \in [1..NumOwners -> Nat] /\ HasSum(NumOwners, Forfeited, final_forfeited) /\ NumOwners \in Nat
  BY <1>p, ForfeitedType, Indices DEF AsReference, NothingClosedYet
<1>5. Reindexes(NumOwners, Forfeited, losers, g)
  <2>1. losers \subseteq 1..NumOwners
    BY <1>2, Indices
  <2>2. ASSUME NEW x \in 1..NumOwners, x \notin losers PROVE Forfeited[x] = 0
    BY <2>2, Indices DEF Forfeited, Forfeit, Holders
  <2>3. ASSUME NEW x \in losers PROVE g[x] = Forfeited[x]
    <3>1. x \in Owners /\ side[x] # "None" /\ processed[x] /\ g[x] = Forfeit(x)
      BY <1>2, <1>3 DEF Holders
    <3> QED
      BY <3>1 DEF Forfeited
  <2> QED
    BY <2>1, <2>2, <2>3 DEF Reindexes
<1> HIDE DEF losers, g
<1>6. SumFunctionOnSet(g, losers) = final_forfeited
  BY <1>4, <1>5, SumIsTotalOn
<1> QED
  BY <1>3, <1>6 DEF Total, losers, g

LEMMA ReferenceAgrees == Ledger /\ AsReference => MatchesReference
<1> SUFFICES ASSUME Ledger, AsReference, Terminal, processed_count = position_count,
                    NEW o \in Owners, side[o] # "None"
             PROVE  (IF claimed[o] THEN received[o] ELSE ClaimAmount(o)) = ReferenceCredit(o)
  BY DEF MatchesReference, Holders
<1>p. /\ TypeOK /\ active[o] \in Nat /\ pending[o] \in Nat /\ refundable[o] \in Nat /\ base[o] \in Nat
      /\ total_paid[o] \in Nat /\ side[o] \in Sides
  BY DEF Ledger, TypeOK, PositionTypeOK, MaybeSides
<1>1. (IF claimed[o] THEN received[o] ELSE ClaimAmount(o)) = ClaimAmount(o)
  BY DEF AsReference, PaidExactly
<1> DEFINE losers == {x \in Holders : side[x] # WinningSide}
           pot == Total([x \in losers |-> ReferenceForfeit(x)], losers)
           idle == pending[o] + refundable[o]
<1>2. ReferenceCredit(o) =
         IF outcome = "Void" THEN active[o] + idle
         ELSE IF side[o] = WinningSide
              THEN active[o] + WinnerWinnings(active[o], pot, SideActive(side[o])) + idle
              ELSE active[o] - ReferenceForfeit(o) + idle
  BY DEF ReferenceCredit
<1>3. CASE state = "Voided"
  <2>1. outcome = "Void" /\ ClaimAmount(o) = total_paid[o]
    BY <1>3 DEF AsReference, PaidExactly, ClaimAmount
  <2>2. active[o] + pending[o] + refundable[o] = total_paid[o]
    BY DEF Ledger, PositionShape, PrincipalBalances
  <2>3. active[o] + idle = total_paid[o]
    BY <2>2, <1>p
  <2> HIDE DEF pot, idle
  <2> QED
    BY <1>1, <1>2, <2>1, <2>3
<1>4. CASE state = "Settled"
  <2>1. outcome # "Void" /\ processed[o]
    BY <1>4 DEF AsReference, PotsFixed, Ledger, PhaseShape
  <2>2. base[o] = active[o] - Forfeit(o) + pending[o] + refundable[o]
    BY <2>1, <1>4 DEF AsReference, PotsFixed
  <2>3. /\ pot = final_forfeited
        /\ side[o] # WinningSide => ReferenceForfeit(o) = Forfeit(o)
    BY <1>4, ReferencePotIs DEF Holders
  <2>4. SideActive(side[o]) = active_total[side[o]]
    BY <1>p, SideActiveIs DEF AsReference, NothingClosedYet
  <2>5. ClaimAmount(o) = IF side[o] # WinningSide THEN base[o]
                         ELSE base[o] + WinnerWinnings(active[o], final_forfeited, active_total[side[o]])
    BY <1>4 DEF ClaimAmount, SettledClaimAmount
  <2>6. Forfeit(o) \in Nat /\ (side[o] = WinningSide => Forfeit(o) = 0)
    BY <1>p, ForfeitType DEF Forfeit
  <2> DEFINE w == WinnerWinnings(active[o], final_forfeited, active_total[side[o]])
  <2>7. w \in Nat
    <3>1. active_total[side[o]] \in Nat /\ final_forfeited \in Nat
      BY <1>p DEF TypeOK, MarketTypeOK
    <3> QED
      BY <3>1, <1>p, FloorDiv DEF WinnerWinnings, MulDivFloor
  <2> HIDE DEF pot, w
  <2>8. CASE side[o] = WinningSide
    <3>1. ClaimAmount(o) = base[o] + w
      BY <2>5, <2>8 DEF w
    <3>2. ReferenceCredit(o) = active[o] + w + idle
      BY <1>2, <2>1, <2>3, <2>4, <2>8 DEF w
    <3>3. base[o] = active[o] + idle
      BY <2>2, <2>6, <2>8, <1>p
    <3> HIDE DEF idle
    <3>4. idle \in Nat
      BY <1>p DEF idle
    <3> QED
      BY <3>1, <3>2, <3>3, <3>4, <2>7, <1>1, <1>p
  <2>9. CASE side[o] # WinningSide
    <3>1. ClaimAmount(o) = base[o]
      BY <2>5, <2>9
    <3>2. ReferenceCredit(o) = active[o] - Forfeit(o) + idle
      BY <1>2, <2>1, <2>3, <2>9
    <3>3. base[o] = active[o] - Forfeit(o) + idle
      BY <2>2, <2>6, <1>p
    <3> QED
      BY <3>1, <3>2, <3>3, <1>1
  <2> QED
    BY <2>8, <2>9
<1> QED
  BY <1>3, <1>4 DEF Terminal

\* For any number of positions, any odds and any order of entitlements and
\* claims, the two-phase settlement credits each position exactly what
\* settle_positions (math.rs) computes for all of them at once.  It needs that
\* the pots are fixed when settlement begins and that the running forfeited pot
\* is the sum over the calculated losers, which only the end of the first phase
\* turns into the reference's pot.
THEOREM StagesMatchReference == Spec => []MatchesReference
<1>1. Init => AsReference /\ Entitlements /\ PaidInFull
  BY DEF Init, AsReference, PotsFixed, NothingClosedYet, PaidExactly, Terminal, Entitlements, PaidInFull
<1>2. Ledger /\ Entitlements /\ AsReference /\ [Next]_vars => AsReference'
  BY NextAsReference
<1>3. Ledger /\ Entitlements /\ PaidInFull /\ [Next]_vars => Entitlements' /\ PaidInFull'
  BY NextEntitlements
<1>4. Ledger /\ AsReference => MatchesReference
  BY ReferenceAgrees
<1> QED
  BY <1>1, <1>2, <1>3, <1>4, LedgerInvariant, PTL DEF Spec

=============================================================================
