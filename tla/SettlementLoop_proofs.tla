------------------------ MODULE SettlementLoop_proofs ------------------------
(***************************************************************************)
(* Proofs about SettlementLoop, for any match, any number of positions,    *)
(* any stakes and any ratio.                                               *)
(*                                                                         *)
(* The money part of the invariant says that what a settled market owes is *)
(* a function of its rows that nothing changes any more: what is in a      *)
(* task's hands or posted is due, and alone a task has in hand whatever is *)
(* due and not posted yet.  Two overlapping tasks can disturb the rows     *)
(* only through taps made in play.                                         *)
(***************************************************************************)
EXTENDS SettlementLoop, MarketReducer_proofs, FiniteSums

-----------------------------------------------------------------------------
(* The pot. *)

PositionRecords ==
    [state : {"none", "pending", "active", "void"}, placedAt : Nat, inPlay : BOOLEAN]
PositionRows == [Positions -> PositionRecords]

\* The parts of settlementCredits, by name.
Playing(P, o) == Placed(P) \ FullyRefunded(P, o)
Winners(P, o) == Playing(P, o) \cap (IF o = "claim_won" THEN Backers ELSE Doubters)
Losers(P, o) == Playing(P, o) \ Winners(P, o)
Matched(P, o) ==
    IF o = "claim_won" THEN computePots(Playing(P, o)).matchedAgainst
    ELSE computePots(Playing(P, o)).matchedFor
Forfeit(P, o) == [p \in Losers(P, o) |-> (Stake[p] * Matched(P, o)) \div StakesOf(Losers(P, o))]
Forfeited(P, o) == SumFunctionOnSet(Forfeit(P, o), Losers(P, o))
Winnings(P, o) == [p \in Winners(P, o) |-> (Stake[p] * Forfeited(P, o)) \div StakesOf(Winners(P, o))]

Credit(p, amount) == [pos |-> p, amount |-> amount]

LEMMA CreditsAre ==
    ASSUME NEW P, NEW o
    PROVE  LET credits == settlementCredits(P, o)
           IN  /\ credits.refunds =
                    {Credit(p, Stake[p]) : p \in FullyRefunded(P, o)}
                    \cup {c \in {Credit(p, Stake[p] - Forfeit(P, o)[p]) : p \in Losers(P, o)} : c.amount > 0}
               /\ credits.payouts = {Credit(p, Stake[p] + Winnings(P, o)[p]) : p \in Winners(P, o)}
               /\ credits.voidedPending = {p \in Placed(P) : P[p].state = "pending"}
               /\ credits = [refunds |-> credits.refunds, payouts |-> credits.payouts,
                             voidedPending |-> credits.voidedPending]
  BY DEF settlementCredits, Credit, Playing, Winners, Losers, Matched, Forfeit, Forfeited, Winnings

LEMMA MinPair ==
    ASSUME NEW a \in Nat, NEW b \in Nat
    PROVE  LET m == Min({a, b}) IN m \in Nat /\ m <= a /\ m <= b
<1>1. \E x \in {a, b} : \A y \in {a, b} : x <= y
  OBVIOUS
<1>2. LET m == Min({a, b}) IN m \in {a, b} /\ \A y \in {a, b} : m <= y
  BY <1>1 DEF Min
<1> QED
  BY <1>2

LEMMA StakesNat ==
    ASSUME NEW ps, ps \subseteq Positions
    PROVE  /\ IsFiniteSet(ps) /\ StakesOf(ps) \in Nat
           /\ ps = {} => StakesOf(ps) = 0
           /\ ps # {} => StakesOf(ps) > 0
<1>1. IsFiniteSet(ps) /\ \A p \in ps : Stake[p] \in Nat /\ Stake[p] > 0
  BY PotAssumption, FS_Subset
<1>2. StakesOf(ps) \in Nat /\ (ps = {} => StakesOf(ps) = 0)
  BY <1>1, SumOnUnfold DEF StakesOf
<1>3. ASSUME ps # {} PROVE StakesOf(ps) > 0
  <2>1. PICK p \in ps : TRUE
    BY <1>3
  <2>2. /\ SumFunctionOnSet(Stake, ps) = Stake[p] + SumFunctionOnSet(Stake, ps \ {p})
        /\ SumFunctionOnSet(Stake, ps \ {p}) \in Nat
    BY <1>1, <2>1, SumOnSplit
  <2> QED
    BY <1>1, <2>1, <2>2 DEF StakesOf
<1> QED
  BY <1>1, <1>2, <1>3

\* A side is matched by no more than it stakes, and not at all if either is empty.
LEMMA PotsOK ==
    ASSUME NEW ps, ps \subseteq Positions
    PROVE  LET pots == computePots(ps)
           IN  /\ pots.matchedFor \in Nat /\ pots.matchedFor <= StakesOf(ps \cap Backers)
               /\ pots.matchedAgainst \in Nat /\ pots.matchedAgainst <= StakesOf(ps \cap Doubters)
               /\ ps \cap Backers = {} => pots.matchedAgainst = 0
               /\ ps \cap Doubters = {} => pots.matchedFor = 0
<1> DEFINE forPot == StakesOf(ps \cap Backers)
           againstPot == StakesOf(ps \cap Doubters)
           a == (againstPot * MULT_SCALE) \div RatioMilli
           matchedFor == Min({forPot, a})
           b == (matchedFor * RatioMilli) \div MULT_SCALE
           matchedAgainst == Min({againstPot, b})
<1>1. computePots(ps) = [matchedFor |-> matchedFor, matchedAgainst |-> matchedAgainst]
  BY DEF computePots
<1>2. /\ forPot \in Nat /\ againstPot \in Nat
      /\ ps \cap Backers = {} => forPot = 0
      /\ ps \cap Doubters = {} => againstPot = 0
  BY StakesNat
<1>3. MULT_SCALE \in Nat \ {0} /\ RatioMilli \in Nat \ {0}
  BY PotAssumption
<1> HIDE DEF forPot, againstPot
<1>4. a \in Nat /\ (againstPot = 0 => a = 0)
  <2>1. againstPot * MULT_SCALE \in Nat /\ (againstPot = 0 => againstPot * MULT_SCALE = 0)
    BY <1>2, <1>3
  <2>2. 0 \div RatioMilli = 0
    BY <1>3
  <2> QED
    BY <1>3, <2>1, <2>2, FloorDiv
<1> HIDE DEF a
<1>5. matchedFor \in Nat /\ matchedFor <= forPot /\ matchedFor <= a
  BY <1>2, <1>4, MinPair
<1> HIDE DEF matchedFor
<1>6. b \in Nat /\ (matchedFor = 0 => b = 0)
  <2>1. matchedFor * RatioMilli \in Nat /\ (matchedFor = 0 => matchedFor * RatioMilli = 0)
    BY <1>3, <1>5
  <2>2. 0 \div MULT_SCALE = 0
    BY <1>3
  <2> QED
    BY <1>3, <2>1, <2>2, FloorDiv
<1> HIDE DEF b
<1>7. matchedAgainst \in Nat /\ matchedAgainst <= againstPot /\ matchedAgainst <= b
  BY <1>2, <1>6, MinPair
<1> HIDE DEF matchedAgainst
<1>8. forPot = 0 => matchedAgainst = 0
  BY <1>2, <1>5, <1>6, <1>7
<1>9. againstPot = 0 => matchedFor = 0
  BY <1>2, <1>4, <1>5
<1> QED
  BY <1>1, <1>2, <1>5, <1>7, <1>8, <1>9 DEF forPot, againstPot

LEMMA SidesOK ==
    ASSUME NEW P \in PositionRows, NEW o
    PROVE  /\ Placed(P) \subseteq Positions
           /\ Placed(P) = FullyRefunded(P, o) \cup Winners(P, o) \cup Losers(P, o)
           /\ FullyRefunded(P, o) \cap Winners(P, o) = {} /\ FullyRefunded(P, o) \cap Losers(P, o) = {}
           /\ Winners(P, o) \cap Losers(P, o) = {}
           /\ Playing(P, o) \subseteq Positions
           /\ Winners(P, o) = Playing(P, o) \cap (IF o = "claim_won" THEN Backers ELSE Doubters)
           /\ Losers(P, o) = Playing(P, o) \cap (IF o = "claim_won" THEN Doubters ELSE Backers)
<1>1. Placed(P) \subseteq Positions
  BY DEF PositionRows, Placed
<1>2. FullyRefunded(P, o) \subseteq Placed(P)
  BY DEF FullyRefunded
<1> QED
  BY <1>1, <1>2 DEF Playing, Winners, Losers, Doubters

\* A loser forfeits at most the stake, and nothing when nobody wins.
LEMMA ForfeitOK ==
    ASSUME NEW P \in PositionRows, NEW o
    PROVE  /\ \A p \in Losers(P, o) : /\ Stake[p] \in Nat /\ Forfeit(P, o)[p] \in Nat
                                      /\ Forfeit(P, o)[p] <= Stake[p]
                                      /\ Winners(P, o) = {} => Forfeit(P, o)[p] = 0
           /\ Forfeited(P, o) \in Nat
           /\ Winners(P, o) = {} => Forfeited(P, o) = 0
<1> DEFINE L == Losers(P, o)
           m == Matched(P, o)
           t == StakesOf(L)
<1>1. L \subseteq Positions /\ IsFiniteSet(L) /\ t \in Nat /\ (L # {} => t > 0)
  <2>1. L \subseteq Positions
    <3>1. Placed(P) \subseteq Positions /\ L \subseteq Placed(P)
      BY SidesOK
    <3> QED
      BY <3>1
  <2> HIDE DEF L
  <2> QED
    BY <2>1, StakesNat
<1>2. m \in Nat /\ m <= t /\ (Winners(P, o) = {} => m = 0)
  <2> DEFINE ps == Playing(P, o)
             pots == computePots(ps)
  <2>1. /\ ps \subseteq Positions
        /\ Winners(P, o) = ps \cap (IF o = "claim_won" THEN Backers ELSE Doubters)
        /\ L = ps \cap (IF o = "claim_won" THEN Doubters ELSE Backers)
    BY SidesOK
  <2>2. m = IF o = "claim_won" THEN pots.matchedAgainst ELSE pots.matchedFor
    BY DEF Matched
  <2> HIDE DEF ps
  <2>3. /\ pots.matchedFor \in Nat /\ pots.matchedFor <= StakesOf(ps \cap Backers)
        /\ pots.matchedAgainst \in Nat /\ pots.matchedAgainst <= StakesOf(ps \cap Doubters)
        /\ ps \cap Backers = {} => pots.matchedAgainst = 0
        /\ ps \cap Doubters = {} => pots.matchedFor = 0
    BY <2>1, PotsOK
  <2> HIDE DEF pots, L, m
  <2> QED
    BY <2>1, <2>2, <2>3
<1>3. ASSUME NEW p \in L
      PROVE  /\ Stake[p] \in Nat /\ Forfeit(P, o)[p] \in Nat /\ Forfeit(P, o)[p] <= Stake[p]
             /\ Winners(P, o) = {} => Forfeit(P, o)[p] = 0
  <2> DEFINE q == (Stake[p] * m) \div t
             s == Stake[p]
  <2>1. Forfeit(P, o)[p] = q
    BY DEF Forfeit
  <2>2. s \in Nat /\ t \in Nat \ {0}
    BY <1>1, PotAssumption
  <2> HIDE DEF m, t, s
  <2>3. s * m \in Nat /\ s * m <= t * s /\ (m = 0 => s * m = 0)
    BY <1>2, <2>2
  <2>4. q \in Nat /\ t * q <= s * m
    BY <2>2, <2>3, FloorDiv DEF s
  <2>5. m = 0 => q = 0
    <3>1. 0 \div t = 0
      BY <2>2
    <3> QED
      BY <2>3, <3>1 DEF s
  <2>6. t * q <= t * s
    BY <2>2, <2>3, <2>4, <1>2
  <2> HIDE DEF q
  <2>7. q <= s
    BY <2>2, <2>4, <2>6
  <2> QED
    BY <1>2, <2>1, <2>2, <2>4, <2>5, <2>7 DEF s
<1>4. Forfeited(P, o) \in Nat /\ (L = {} => Forfeited(P, o) = 0)
  BY <1>1, <1>3, SumOnUnfold DEF Forfeited
<1>5. ASSUME Winners(P, o) = {} PROVE Forfeited(P, o) = 0
  <2>1. SumFunctionOnSet(Forfeit(P, o), L) = SumFunctionOnSet(Forfeit(P, o), {})
    BY <1>1, <1>3, <1>5, SumOnZeros
  <2>2. SumFunctionOnSet(Forfeit(P, o), {}) = 0
    BY SumOnUnfold, FS_EmptySet
  <2> QED
    BY <2>1, <2>2 DEF Forfeited
<1> QED
  BY <1>3, <1>4, <1>5

\* A winner's share of the forfeits, rounded down.
LEMMA WinningsOK ==
    ASSUME NEW P \in PositionRows, NEW o, NEW p \in Winners(P, o)
    PROVE  /\ Stake[p] \in Nat /\ Winnings(P, o)[p] \in Nat
           /\ StakesOf(Winners(P, o)) \in Nat /\ StakesOf(Winners(P, o)) > 0
           /\ StakesOf(Winners(P, o)) * Winnings(P, o)[p] <= Forfeited(P, o) * Stake[p]
           /\ Forfeited(P, o) * Stake[p]
                <= StakesOf(Winners(P, o)) * Winnings(P, o)[p] + StakesOf(Winners(P, o))
<1> DEFINE W == StakesOf(Winners(P, o))
           F == Forfeited(P, o)
           s == Stake[p]
           q == (s * F) \div W
<1>1. W \in Nat /\ W > 0 /\ s \in Nat /\ F \in Nat
  BY SidesOK, StakesNat, ForfeitOK, PotAssumption
<1>2. Winnings(P, o)[p] = q
  BY DEF Winnings
<1> HIDE DEF W, F, s
<1>3. s * F \in Nat /\ s * F = F * s
  BY <1>1
<1>4. q \in Nat /\ W * q <= s * F /\ s * F < W * q + W
  BY <1>1, <1>3, FloorDiv
<1>5. W * q \in Nat
  BY <1>1, <1>4
<1> HIDE DEF q
<1>6. W * q <= F * s /\ F * s <= W * q + W
  BY <1>1, <1>3, <1>4, <1>5
<1> QED
  BY <1>1, <1>2, <1>4, <1>6 DEF W, F, s

\* The credits: positive, one for each position, payouts to the winners only.
LEMMA CreditsOK ==
    ASSUME NEW P \in PositionRows, NEW o
    PROVE  LET credits == settlementCredits(P, o)
           IN  /\ \A c \in credits.refunds :
                    /\ c = Credit(c.pos, c.amount) /\ c.pos \in Positions
                    /\ c.amount \in Nat /\ c.amount > 0
                    /\ c.pos \in FullyRefunded(P, o) => c.amount = Stake[c.pos]
                    /\ c.pos \notin FullyRefunded(P, o) =>
                         c.pos \in Losers(P, o) /\ c.amount = Stake[c.pos] - Forfeit(P, o)[c.pos]
               /\ \A c \in credits.payouts :
                    /\ c = Credit(c.pos, c.amount) /\ c.pos \in Positions
                    /\ c.amount \in Nat /\ c.amount > 0
                    /\ c.pos \in Winners(P, o) /\ c.amount = Stake[c.pos] + Winnings(P, o)[c.pos]
<1> DEFINE credits == settlementCredits(P, o)
           R == FullyRefunded(P, o)
           L == Losers(P, o)
           W == Winners(P, o)
<1>0. R \subseteq Positions /\ L \subseteq Positions /\ W \subseteq Positions /\ R \cap L = {}
  BY SidesOK
<1>1. \A p \in Positions : Stake[p] \in Nat /\ Stake[p] > 0
  BY PotAssumption
<1>2. \A p, a : Credit(p, a).pos = p /\ Credit(p, a).amount = a
  BY DEF Credit
<1>a. /\ credits.refunds =
           {Credit(p, Stake[p]) : p \in R}
           \cup {c \in {Credit(p, Stake[p] - Forfeit(P, o)[p]) : p \in L} : c.amount > 0}
      /\ credits.payouts = {Credit(p, Stake[p] + Winnings(P, o)[p]) : p \in W}
  BY CreditsAre
<1> HIDE DEF credits
<1>3. ASSUME NEW c \in credits.refunds
      PROVE  /\ c = Credit(c.pos, c.amount) /\ c.pos \in Positions /\ c.amount \in Nat /\ c.amount > 0
             /\ c.pos \in R => c.amount = Stake[c.pos]
             /\ c.pos \notin R => c.pos \in L /\ c.amount = Stake[c.pos] - Forfeit(P, o)[c.pos]
  <2>1. \/ \E p \in R : c = Credit(p, Stake[p])
        \/ c.amount > 0 /\ \E p \in L : c = Credit(p, Stake[p] - Forfeit(P, o)[p])
    BY <1>3, <1>a
  <2>2. CASE \E p \in R : c = Credit(p, Stake[p])
    BY <1>0, <1>1, <1>2, <2>2
  <2>3. CASE c.amount > 0 /\ \E p \in L : c = Credit(p, Stake[p] - Forfeit(P, o)[p])
    <3>1. PICK p \in L : c = Credit(p, Stake[p] - Forfeit(P, o)[p])
      BY <2>3
    <3>2. c.pos = p /\ c.amount = Stake[p] - Forfeit(P, o)[p] /\ p \in Positions /\ p \notin R
      BY <1>0, <1>2, <3>1
    <3>3. Stake[p] \in Nat /\ Forfeit(P, o)[p] \in Nat /\ Forfeit(P, o)[p] <= Stake[p]
      BY <3>1, ForfeitOK
    <3> QED
      BY <2>3, <3>1, <3>2, <3>3
  <2> QED
    BY <2>1, <2>2, <2>3
<1>4. ASSUME NEW c \in credits.payouts
      PROVE  /\ c = Credit(c.pos, c.amount) /\ c.pos \in Positions /\ c.amount \in Nat /\ c.amount > 0
             /\ c.pos \in W /\ c.amount = Stake[c.pos] + Winnings(P, o)[c.pos]
  <2>1. PICK p \in W : c = Credit(p, Stake[p] + Winnings(P, o)[p])
    BY <1>4, <1>a
  <2>2. Winnings(P, o)[p] \in Nat
    BY <2>1, WinningsOK
  <2>3. Stake[p] \in Nat /\ Stake[p] > 0 /\ p \in Positions
    BY <1>0, <1>1, <2>1
  <2> QED
    BY <1>2, <2>1, <2>2, <2>3
<1> QED
  BY <1>3, <1>4 DEF credits

\* Only which positions are placed and which of them active matters.
LEMMA CreditsStand ==
    ASSUME NEW P, NEW Q, NEW o, Placed(P) = Placed(Q),
           \A p \in Placed(P) : P[p].state = "active" <=> Q[p].state = "active"
    PROVE  /\ settlementCredits(P, o).refunds = settlementCredits(Q, o).refunds
           /\ settlementCredits(P, o).payouts = settlementCredits(Q, o).payouts
<1>1. FullyRefunded(P, o) = FullyRefunded(Q, o)
  BY DEF FullyRefunded
<1>2. Playing(P, o) = Playing(Q, o)
  BY <1>1 DEF Playing
<1>3. Winners(P, o) = Winners(Q, o) /\ Losers(P, o) = Losers(Q, o) /\ Matched(P, o) = Matched(Q, o)
  BY <1>2, Zenon DEF Winners, Losers, Matched
<1>4. Forfeit(P, o) = Forfeit(Q, o)
  BY <1>3, Zenon DEF Forfeit
<1>5. Winnings(P, o) = Winnings(Q, o)
  BY <1>3, <1>4, Zenon DEF Winnings, Forfeited
<1> DEFINE refunds(X) ==
             {Credit(p, Stake[p]) : p \in FullyRefunded(X, o)}
             \cup {c \in {Credit(p, Stake[p] - Forfeit(X, o)[p]) : p \in Losers(X, o)} : c.amount > 0}
           payouts(X) == {Credit(p, Stake[p] + Winnings(X, o)[p]) : p \in Winners(X, o)}
<1>6. /\ settlementCredits(P, o).refunds = refunds(P) /\ settlementCredits(Q, o).refunds = refunds(Q)
      /\ settlementCredits(P, o).payouts = payouts(P) /\ settlementCredits(Q, o).payouts = payouts(Q)
  BY CreditsAre
<1>7. refunds(P) = refunds(Q) /\ payouts(P) = payouts(Q)
  BY <1>1, <1>3, <1>4, <1>5
<1> HIDE DEF refunds, payouts
<1> QED
  BY <1>6, <1>7

\* What a settlement owes each position.
DueTo(P, o) == [p \in Positions |->
    IF p \in FullyRefunded(P, o) THEN Stake[p]
    ELSE IF p \in Losers(P, o) THEN Stake[p] - Forfeit(P, o)[p]
    ELSE IF p \in Winners(P, o) THEN Stake[p] + Winnings(P, o)[p] ELSE 0]

\* Winnings come out of the forfeits, but for at most a lamport for each winner.
LEMMA WinningsTotal ==
    ASSUME NEW P \in PositionRows, NEW o
    PROVE  LET w == SumFunctionOnSet(Winnings(P, o), Winners(P, o))
               n == Cardinality(Winners(P, o))
           IN  /\ w \in Nat /\ n \in Nat
               /\ w <= Forfeited(P, o) /\ Forfeited(P, o) <= w + n
<1> DEFINE T == Winners(P, o)
           W == StakesOf(T)
           F == Forfeited(P, o)
           w == SumFunctionOnSet(Winnings(P, o), T)
           n == Cardinality(T)
           one == [p \in T |-> 1]
           up == [p \in T |-> W * Winnings(P, o)[p]]
           on == [p \in T |-> F * Stake[p]]
           fill == [p \in T |-> W * one[p]]
           top == [p \in T |-> up[p] + fill[p]]
<1>1. /\ T \subseteq Positions /\ IsFiniteSet(T) /\ W \in Nat /\ F \in Nat
      /\ T = {} => F = 0
  BY SidesOK, StakesNat, ForfeitOK
<1>2. \A p \in T : /\ Stake[p] \in Nat /\ Winnings(P, o)[p] \in Nat /\ W > 0
                   /\ W * Winnings(P, o)[p] <= F * Stake[p]
                   /\ F * Stake[p] <= W * Winnings(P, o)[p] + W
  BY WinningsOK
<1>3. n \in Nat /\ w \in Nat /\ (T = {} => w = 0)
  BY <1>1, <1>2, FS_CardinalityType, SumOnUnfold
<1> HIDE DEF T, W, F
<1>4. \A p \in T : /\ up[p] \in Nat /\ on[p] \in Nat /\ one[p] = 1 /\ fill[p] = W /\ fill[p] \in Nat
                   /\ up[p] = W * Winnings(P, o)[p] /\ on[p] = F * Stake[p] /\ fill[p] = W * one[p]
                   /\ top[p] = up[p] + fill[p] /\ top[p] \in Nat /\ one[p] \in Nat
  BY <1>1, <1>2
<1>5. \A p \in T : up[p] <= on[p] /\ on[p] <= top[p]
  BY <1>2, <1>4
<1> HIDE DEF one, up, on, fill, top
<1> DEFINE Sum(f) == SumFunctionOnSet(f, T)
<1>6. Sum(up) = W * w
  BY <1>1, <1>2, <1>4, SumOnTimes
<1>7. Sum(on) = F * W
  <2>1. Sum(on) = F * Sum(Stake)
    BY <1>1, <1>2, <1>4, SumOnTimes
  <2> QED
    BY <2>1 DEF W, StakesOf
<1>8. Sum(fill) = W * n
  <2>1. Sum(one) = n
    BY <1>1, <1>4, SumOnOnes
  <2>2. Sum(fill) = W * Sum(one)
    BY <1>1, <1>4, SumOnTimes
  <2> QED
    BY <2>1, <2>2
<1>9. Sum(top) = Sum(up) + Sum(fill)
  BY <1>1, <1>4, SumOnPlus
<1>10. Sum(up) <= Sum(on) /\ Sum(on) <= Sum(top)
  BY <1>1, <1>4, <1>5, SumOnMono
<1> HIDE DEF Sum, w, n
<1>11. W * w <= F * W /\ F * W <= W * w + W * n
  BY <1>6, <1>7, <1>8, <1>9, <1>10
<1>12. CASE T = {}
  BY <1>1, <1>3, <1>12 DEF T, F, w, n
<1>13. CASE T # {}
  <2>1. W > 0
    BY <1>2, <1>13
  <2>2. F * W = W * F /\ W * w + W * n = W * (w + n)
    BY <1>1, <1>3
  <2>3. W * w <= W * F /\ W * F <= W * (w + n)
    BY <1>11, <2>2
  <2>4. w <= F /\ F <= w + n
    BY <1>1, <1>3, <2>1, <2>3
  <2> QED
    BY <1>3, <2>4 DEF T, F, w, n
<1> QED
  BY <1>12, <1>13

\* Together the dues are the stakes, but for a lamport for each position.
LEMMA DuesTotal ==
    ASSUME NEW P \in PositionRows, NEW o
    PROVE  LET total == SumFunctionOnSet(DueTo(P, o), Positions)
               staked == StakesOf(Placed(P))
           IN  /\ \A p \in Positions : DueTo(P, o)[p] \in Nat
               /\ total \in Nat /\ staked \in Nat /\ Cardinality(Placed(P)) \in Nat
               /\ total <= staked /\ staked <= total + Cardinality(Placed(P))
<1> DEFINE due == DueTo(P, o)
           R == FullyRefunded(P, o)
           L == Losers(P, o)
           W == Winners(P, o)
           A == Placed(P)
           stake == [p \in Positions |-> IF p \in A THEN Stake[p] ELSE 0]
           forfeit == [p \in Positions |-> IF p \in L THEN Forfeit(P, o)[p] ELSE 0]
           win == [p \in Positions |-> IF p \in W THEN Winnings(P, o)[p] ELSE 0]
           left == [p \in Positions |-> due[p] + forfeit[p]]
           Sum(f) == SumFunctionOnSet(f, Positions)
<1>1. IsFiniteSet(Positions) /\ \A p \in Positions : Stake[p] \in Nat
  BY PotAssumption
<1>2. /\ A \subseteq Positions /\ A = R \cup W \cup L
      /\ R \cap W = {} /\ R \cap L = {} /\ W \cap L = {}
  BY SidesOK
<1>3. \A p \in L : Forfeit(P, o)[p] \in Nat /\ Forfeit(P, o)[p] <= Stake[p]
  BY ForfeitOK
<1>4. \A p \in W : Winnings(P, o)[p] \in Nat
  BY WinningsOK
<1>5. \A p \in Positions : /\ due[p] = IF p \in R THEN Stake[p]
                                       ELSE IF p \in L THEN Stake[p] - Forfeit(P, o)[p]
                                       ELSE IF p \in W THEN Stake[p] + Winnings(P, o)[p] ELSE 0
  BY DEF DueTo
<1> HIDE DEF due, R, L, W, A
<1>6. \A p \in Positions :
        /\ due[p] \in Nat /\ stake[p] \in Nat /\ forfeit[p] \in Nat /\ win[p] \in Nat
        /\ left[p] = due[p] + forfeit[p] /\ left[p] = stake[p] + win[p]
  BY <1>1, <1>2, <1>3, <1>4, <1>5
<1>7. /\ \A p \in Positions : /\ p \notin A => stake[p] = 0
                              /\ p \notin L => forfeit[p] = 0
                              /\ p \notin W => win[p] = 0
      /\ \A p \in A : stake[p] = Stake[p]
      /\ \A p \in L : forfeit[p] = Forfeit(P, o)[p]
      /\ \A p \in W : win[p] = Winnings(P, o)[p]
  BY <1>2
<1> HIDE DEF stake, forfeit, win, left
<1>8. IsFiniteSet(A) /\ IsFiniteSet(L) /\ IsFiniteSet(W)
  BY <1>1, <1>2, FS_Subset
<1>9. Sum(left) = Sum(due) + Sum(forfeit) /\ Sum(left) = Sum(stake) + Sum(win)
  BY <1>1, <1>6, SumOnPlus
<1>10. Sum(stake) = StakesOf(A)
  <2>1. Sum(stake) = SumFunctionOnSet(stake, A)
    BY <1>1, <1>2, <1>6, <1>7, SumOnZeros
  <2>2. SumFunctionOnSet(stake, A) = SumFunctionOnSet(Stake, A)
    BY <1>2, <1>6, <1>7, <1>8, SumOnSame
  <2> QED
    BY <2>1, <2>2 DEF StakesOf
<1>11. Sum(forfeit) = Forfeited(P, o)
  <2>1. Sum(forfeit) = SumFunctionOnSet(forfeit, L)
    BY <1>1, <1>2, <1>6, <1>7, SumOnZeros
  <2>2. SumFunctionOnSet(forfeit, L) = SumFunctionOnSet(Forfeit(P, o), L)
    BY <1>2, <1>6, <1>7, <1>8, SumOnSame
  <2> QED
    BY <2>1, <2>2 DEF Forfeited, L
<1>12. Sum(win) = SumFunctionOnSet(Winnings(P, o), W)
  <2>1. Sum(win) = SumFunctionOnSet(win, W)
    BY <1>1, <1>2, <1>6, <1>7, SumOnZeros
  <2>2. SumFunctionOnSet(win, W) = SumFunctionOnSet(Winnings(P, o), W)
    BY <1>2, <1>6, <1>7, <1>8, SumOnSame
  <2> QED
    BY <2>1, <2>2
<1>13. /\ Sum(win) <= Sum(forfeit) /\ Sum(forfeit) <= Sum(win) + Cardinality(W)
       /\ Cardinality(W) \in Nat
  BY <1>11, <1>12, WinningsTotal DEF W
<1>14. Cardinality(W) <= Cardinality(A) /\ Cardinality(A) \in Nat
  BY <1>2, <1>8, FS_Subset, FS_CardinalityType
<1>15. Sum(due) \in Nat /\ Sum(stake) \in Nat /\ Sum(win) \in Nat /\ Sum(forfeit) \in Nat
  BY <1>1, <1>6, SumOnUnfold
<1> HIDE DEF Sum
<1>16. Sum(due) <= Sum(stake) /\ Sum(stake) <= Sum(due) + Cardinality(A)
  BY <1>9, <1>13, <1>14, <1>15
<1> QED
  BY <1>6, <1>10, <1>14, <1>15, <1>16 DEF due, A, Sum

-----------------------------------------------------------------------------
(* The inductive invariant. *)

\* The feed is the played part of the script.
FeedOK ==
    /\ script \in Scripts /\ feed \in Seq(FeedRecords) /\ Len(feed) <= Len(script) /\ now \in Nat
    /\ \A i \in DOMAIN feed : feed[i].phase # "NS"

RowsOK ==
    /\ market \in Running \cup Terminal
    /\ positions \in PositionRows
    /\ settlement \in Outcomes /\ applied \in BOOLEAN
    /\ ledger \in [{"refund", "payout"} -> [Positions -> Nat]]

FeedRowsOK ==
    /\ stored \subseteq {feed[i].seq : i \in DOMAIN feed} /\ cursor \in 0..Len(feed)
    /\ fixture = [phase |-> fixture.phase, seq |-> fixture.seq]
    /\ fixture.seq \in Nat /\ (fixture.seq = 0 \/ fixture.phase # "NS")

\* A state that is kept is one of a running market.
Kept(st) == st = NoState \/ (StateOK(st) /\ st.status \in Running)

IsJob(j) ==
    j = [at |-> j.at, event |-> j.event, upTo |-> j.upTo, nowMs |-> j.nowMs, row |-> j.row,
         state |-> j.state, fx |-> j.fx, outcome |-> j.outcome, credits |-> j.credits]

IsCredits(credits) ==
    credits = [refunds |-> credits.refunds, payouts |-> credits.payouts,
               voidedPending |-> credits.voidedPending]

\* A job in hand: while it pays it has credits, and a market it has not ended runs.
JobOK(j) ==
    /\ IsJob(j) /\ IsCredits(j.credits)
    /\ j.outcome \in Outcomes
    /\ Kept(j.state) /\ EffectsShape(j.fx) /\ TerminalOK(j.fx.terminal)
    /\ j.at \in {"check", "replay"} => j.state.status \in Running
    /\ j.at = "effects" /\ j.fx.terminal = NoTerminal => j.state.status \in Running
    /\ j.at \notin {"refund", "pay"} => j.credits = NoCredits
    /\ \A c \in j.credits.refunds \cup j.credits.payouts : c.pos \in Positions /\ c.amount \in Nat

\* The frame a task has in hand is a published one, the one that decided as well.
EventOK(t, j) ==
    /\ t = "stream" =>
         /\ j.event \in 0..Len(feed)
         /\ j.at \in {"fixture", "reduce"} => j.event \in 1..Len(feed)
    /\ t = "reconciler" /\ j.at = "fixture" => j.event \in 1..Len(feed)
    /\ t = "reconciler" /\ j.at = "replay" =>
         /\ j.upTo \in 0..Len(feed) /\ j.event \in 1..(j.upTo + 1)
         /\ \/ j.state.pending = NoCandidate
            \/ \E i \in 1..j.upTo : feed[i].seq = j.state.pending.decidingSeq

\* The tasks that are calls of an interval.
Intervals == Ticks \cup Voiders \cup Sweepers

LEMMA TaskKinds ==
    /\ "stream" \in Tasks /\ "reconciler" \in Tasks /\ Intervals \subseteq Tasks
    /\ Ticks \subseteq Intervals /\ Voiders \subseteq Intervals /\ Sweepers \subseteq Intervals
    /\ SettlerTasks \subseteq Tasks /\ "stream" \in SettlerTasks /\ Ticks \subseteq SettlerTasks
    /\ \A t \in Tasks : t \in Intervals \/ t = "stream" \/ t = "reconciler"
    /\ \A t \in Intervals : t # "stream" /\ t # "reconciler"
  BY TasksAssumption DEF Tasks, Intervals, SettlerTasks

TasksOK ==
    /\ task = [t \in Tasks |-> task[t]]
    /\ \A t \in Tasks : JobOK(task[t]) /\ EventOK(t, task[t])

Types == FeedOK /\ RowsOK /\ FeedRowsOK /\ Kept(cache) /\ TasksOK /\ overlapped \in BOOLEAN

\* Before kickoff nothing has been decided.
KickedOff == fixture.phase = "NS" =>
    /\ settlement = NoOutcome /\ cache = NoState
    /\ task["stream"].at \in {"idle", "fixture"}
    /\ task["reconciler"].at \in {"idle", "replay", "fixture"}
    /\ \A t \in Intervals : task[t].at = "idle"

InPlay == {p \in Positions : positions[p].inPlay}

\* Only taps made in play ever wait, and only those are voided or activated.
OnlyInPlayWaits ==
    /\ \A p \in Positions : positions[p].state \in {"pending", "void"} => p \in InPlay
    /\ Pending(cache.positions) \subseteq InPlay
    /\ \A t \in Tasks :
         /\ Pending(task[t].state.positions) \subseteq InPlay
         /\ task[t].fx.voids \subseteq InPlay /\ task[t].fx.activates \subseteq InPlay
         /\ task[t].credits.voidedPending \subseteq InPlay

Wins(p) == settlement = IF p \in Backers THEN "claim_won" ELSE "claim_lost"

\* A payout in hand or posted is one of the outcome on file.
PaidOnTheOutcome ==
    /\ \A t \in Tasks : /\ task[t].at \in {"refund", "pay"} => settlement # NoOutcome
                        /\ \A c \in task[t].credits.payouts : Wins(c.pos)
    /\ settlement = NoOutcome => \A p \in Positions : ledger["refund"][p] = 0
    /\ \A p \in Positions : ledger["payout"][p] > 0 => Wins(p)

\* Alone, a task finds the market as it left it.
Alone == ~overlapped =>
    /\ \A t, u \in Busy : t = u
    /\ \A t \in Tasks :
         /\ task[t].at = "effects" => market \notin Terminal
         /\ task[t].at \in {"settlement", "read", "refund", "pay"} => market \in Terminal
    /\ settlement # NoOutcome => market \in Terminal

\* Nothing can disturb what a settled market owes.
Calm == ~overlapped \/ (\A p \in Positions : ~positions[p].inPlay)

Due == settlementCredits(positions, settlement)

\* What is in hand or posted is what the rows and the outcome say is due.
OnlyTheDue == Calm =>
    /\ \A t \in Tasks :
         /\ task[t].credits.refunds \subseteq Due.refunds /\ task[t].credits.payouts \subseteq Due.payouts
         /\ \A p \in task[t].credits.voidedPending : positions[p].state \in {"pending", "void"}
    /\ \A p \in Positions :
         /\ ledger["refund"][p] > 0 => Credit(p, ledger["refund"][p]) \in Due.refunds
         /\ ledger["payout"][p] > 0 => Credit(p, ledger["payout"][p]) \in Due.payouts

Posted(kind, c) == ledger[kind][c.pos] = c.amount

\* Alone, a task that pays has in hand whatever is due and not posted yet.
AllOfTheDue == ~overlapped =>
    /\ \A t \in Tasks :
         /\ task[t].at \in {"refund", "pay"} =>
              /\ \A c \in Due.refunds : c \in task[t].credits.refunds \/ Posted("refund", c)
              /\ \A c \in Due.payouts : c \in task[t].credits.payouts \/ Posted("payout", c)
         /\ task[t].at = "pay" => task[t].credits.refunds = {}
    /\ applied =>
         /\ settlement # NoOutcome
         /\ \A c \in Due.refunds : Posted("refund", c)
         /\ \A c \in Due.payouts : Posted("payout", c)

IInv ==
    /\ Types /\ KickedOff /\ OnlyInPlayWaits /\ PaidOnTheOutcome
    /\ Alone /\ OnlyTheDue /\ AllOfTheDue

-----------------------------------------------------------------------------
(* Jobs. *)

\* Nothing but t's job changes.
Only(t) ==
    /\ task' = [u \in Tasks |-> task'[u]]
    /\ \A u \in Tasks : u # t => task'[u] = task[u]

\* The parts of a job that only a reduction changes.
Carries(t) ==
    /\ task'[t].state = task[t].state /\ task'[t].event = task[t].event
    /\ task'[t].upTo = task[t].upTo

LEMMA SetJob ==
    ASSUME task = [u \in Tasks |-> task[u]], NEW t \in Tasks, NEW j, task' = [task EXCEPT ![t] = j]
    PROVE  Only(t) /\ task'[t] = j
  BY DEF Only

LEMMA IdleIs ==
    /\ JobOK(Idle) /\ Kept(NoState) /\ NoState.pending = NoCandidate /\ NoState.status = "none"
    /\ Pending(NoState.positions) = {} /\ IsCredits(NoCredits)
    /\ NoCredits.refunds = {} /\ NoCredits.payouts = {} /\ NoCredits.voidedPending = {}
    /\ Idle.at = "idle" /\ Idle.event = 0 /\ Idle.state = NoState /\ Idle.fx = NoEffects
    /\ Idle.outcome = NoOutcome /\ Idle.credits = NoCredits /\ IsJob(Idle)
    /\ NoEffects.voids = {} /\ NoEffects.activates = {} /\ NoEffects.terminal = NoTerminal
    /\ EffectsShape(NoEffects)
<1>1. /\ Idle.at = "idle" /\ Idle.event = 0 /\ Idle.state = NoState /\ Idle.fx = NoEffects
      /\ Idle.outcome = NoOutcome /\ Idle.credits = NoCredits /\ IsJob(Idle)
  BY DEF Idle, IsJob
<1>2. /\ IsCredits(NoCredits) /\ NoCredits.refunds = {} /\ NoCredits.payouts = {}
      /\ NoCredits.voidedPending = {}
  BY DEF NoCredits, IsCredits
<1>3. Kept(NoState) /\ NoState.pending = NoCandidate /\ NoState.status = "none"
  BY DEF Kept, NoState
<1>4. NoState.positions = <<>>
  BY DEF NoState
<1>5. Pending(NoState.positions) = {}
  BY <1>4 DEF Pending
<1>6. /\ NoEffects.voids = {} /\ NoEffects.activates = {} /\ NoEffects.terminal = NoTerminal
      /\ EffectsShape(NoEffects) /\ TerminalOK(NoTerminal)
  BY DEF NoEffects, EffectsShape, TerminalOK
<1>7. JobOK(Idle)
  BY <1>1, <1>2, <1>3, <1>6 DEF JobOK, Outcomes
<1> QED
  BY <1>1, <1>2, <1>3, <1>5, <1>6, <1>7

\* A job for the event i.
LEMMA JobFor ==
    ASSUME NEW i
    PROVE  LET j == [Idle EXCEPT !.at = "fixture", !.event = i]
           IN  /\ IsJob(j) /\ j.at = "fixture" /\ j.event = i /\ j.state = NoState
               /\ j.fx = NoEffects /\ j.outcome = NoOutcome /\ j.credits = NoCredits
<1> DEFINE n == [Idle EXCEPT !.at = "fixture"]
           j == [n EXCEPT !.event = i]
<1>1. /\ IsJob(n) /\ n.at = "fixture" /\ n.state = NoState /\ n.fx = NoEffects
      /\ n.outcome = NoOutcome /\ n.credits = NoCredits
  BY IdleIs DEF IsJob
<1>2. [Idle EXCEPT !.at = "fixture", !.event = i] = j
  OBVIOUS
<1> HIDE DEF n
<1>3. /\ IsJob(j) /\ j.at = "fixture" /\ j.event = i /\ j.state = NoState
      /\ j.fx = NoEffects /\ j.outcome = NoOutcome /\ j.credits = NoCredits
  BY <1>1 DEF IsJob
<1> QED
  BY <1>2, <1>3

LEMMA EndJob ==
    ASSUME Types, NEW t \in Tasks, End(t)
    PROVE  Only(t) /\ task'[t] = Idle
  BY SetJob DEF Types, TasksOK, End

LEMMA GoJob ==
    ASSUME Types, NEW t \in Tasks, NEW step, Go(t, step)
    PROVE  /\ Only(t) /\ Carries(t) /\ IsJob(task'[t]) /\ task'[t].at = step
           /\ task'[t].fx = task[t].fx /\ task'[t].outcome = task[t].outcome
           /\ task'[t].credits = task[t].credits
<1> DEFINE j == [task[t] EXCEPT !.at = step]
<1>1. IsJob(task[t])
  BY DEF Types, TasksOK, JobOK
<1>2. task' = [task EXCEPT ![t] = j]
  BY DEF Go
<1>3. Only(t) /\ task'[t] = j
  BY <1>2, SetJob DEF Types, TasksOK
<1> QED
  BY <1>1, <1>3 DEF IsJob, Carries

LEMMA PersistJob ==
    ASSUME Types, NEW t \in Tasks, NEW result, Persist(t, result)
    PROVE  /\ Only(t) /\ IsJob(task'[t]) /\ task'[t].at = "effects" /\ task'[t].fx = result.effects
           /\ task'[t].state = (IF Closed(result.state) THEN NoState ELSE result.state)
           /\ task'[t].outcome = result.effects.terminal.outcome
           /\ task'[t].event = task[t].event /\ task'[t].credits = task[t].credits
<1> DEFINE s == IF Closed(result.state) THEN NoState ELSE result.state
           j == [task[t] EXCEPT !.at = "effects", !.row = market, !.fx = result.effects,
                                !.state = s, !.outcome = result.effects.terminal.outcome]
<1>1. IsJob(task[t])
  BY DEF Types, TasksOK, JobOK
<1>2. task' = [task EXCEPT ![t] = j]
  BY DEF Persist
<1>3. Only(t) /\ task'[t] = j
  BY <1>2, SetJob DEF Types, TasksOK
<1> DEFINE k == task[t]
           fx == result.effects
           outcome == result.effects.terminal.outcome
<1> HIDE DEF s
<1>a. j = [at |-> "effects", event |-> k.event, upTo |-> k.upTo, nowMs |-> k.nowMs, row |-> market,
           state |-> s, fx |-> fx, outcome |-> outcome, credits |-> k.credits]
  <2> HIDE DEF fx, outcome
  <2>1. k = [at |-> k.at, event |-> k.event, upTo |-> k.upTo, nowMs |-> k.nowMs, row |-> k.row,
             state |-> k.state, fx |-> k.fx, outcome |-> k.outcome, credits |-> k.credits]
    BY <1>1 DEF IsJob
  <2>2. j = [k EXCEPT !.at = "effects", !.row = market, !.fx = fx, !.state = s, !.outcome = outcome]
    BY DEF fx, outcome
  <2> HIDE DEF k, j
  <2> QED
    BY <2>1, <2>2
<1>4. /\ IsJob(j) /\ j.at = "effects" /\ j.fx = result.effects /\ j.state = s
      /\ j.outcome = result.effects.terminal.outcome
      /\ j.event = task[t].event /\ j.credits = task[t].credits
  <2> HIDE DEF j
  <2> QED
    BY <1>a DEF IsJob
<1> QED
  BY <1>3, <1>4 DEF s

LEMMA ApplyEffectsJob ==
    ASSUME Types, NEW t \in Tasks, ApplyEffects(t)
    PROVE  /\ Only(t) /\ Carries(t) /\ IsJob(task'[t]) /\ task'[t].fx = NoEffects
           /\ task'[t].at = (IF task[t].fx.terminal = NoTerminal THEN "keep" ELSE "status")
           /\ task'[t].outcome = task[t].outcome /\ task'[t].credits = task[t].credits
<1> DEFINE step == IF task[t].fx.terminal = NoTerminal THEN "keep" ELSE "status"
           j == [task[t] EXCEPT !.fx = NoEffects, !.row = "none", !.at = step]
<1>1. IsJob(task[t])
  BY DEF Types, TasksOK, JobOK
<1>2. task' = [task EXCEPT ![t] = j]
  BY DEF Types, TasksOK, ApplyEffects
<1>3. Only(t) /\ task'[t] = j
  BY <1>2, SetJob DEF Types, TasksOK
<1> HIDE DEF step
<1> QED
  BY <1>1, <1>3 DEF IsJob, Carries, step

LEMMA InsertSettlementJob ==
    ASSUME Types, NEW t \in Tasks, InsertSettlement(t)
    PROVE  /\ Only(t) /\ Carries(t) /\ IsJob(task'[t]) /\ task'[t].at = "read"
           /\ task'[t].outcome = NoOutcome /\ task'[t].fx = task[t].fx
           /\ task'[t].credits = task[t].credits
<1> DEFINE j == [task[t] EXCEPT !.at = "read", !.outcome = NoOutcome]
<1>1. IsJob(task[t])
  BY DEF Types, TasksOK, JobOK
<1>2. task' = [task EXCEPT ![t] = j]
  BY DEF Types, TasksOK, InsertSettlement
<1>3. Only(t) /\ task'[t] = j
  BY <1>2, SetJob DEF Types, TasksOK
<1> QED
  BY <1>1, <1>3 DEF IsJob, Carries

LEMMA AfterApplyJob ==
    ASSUME Types, NEW t \in Tasks, AfterApply(t)
    PROVE  /\ Only(t) /\ IsJob(task'[t]) /\ task'[t].at \in {"keep", "idle"}
           /\ task'[t].outcome = NoOutcome /\ task'[t].credits = NoCredits
           /\ \/ Carries(t) /\ task'[t].fx = task[t].fx
              \/ task'[t] = Idle
<1>1. IsJob(task[t])
  BY DEF Types, TasksOK, JobOK
<1>2. CASE t \in SettlerTasks
  <2> DEFINE j == [task[t] EXCEPT !.at = "keep", !.outcome = NoOutcome, !.credits = NoCredits]
  <2>1. task' = [task EXCEPT ![t] = j]
    BY <1>2 DEF Types, TasksOK, AfterApply
  <2>2. Only(t) /\ task'[t] = j
    BY <2>1, SetJob DEF Types, TasksOK
  <2> QED
    BY <1>1, <2>2 DEF IsJob, Carries
<1>3. CASE t \notin SettlerTasks
  BY <1>3, EndJob, IdleIs DEF AfterApply
<1> QED
  BY <1>2, <1>3

LEMMA ReadSettlementJob ==
    ASSUME Types, NEW t \in Tasks, ReadSettlement(t), ~(applied \/ settlement = NoOutcome)
    PROVE  /\ Only(t) /\ Carries(t) /\ IsJob(task'[t]) /\ task'[t].at = "refund"
           /\ task'[t].outcome = task[t].outcome /\ task'[t].fx = task[t].fx
           /\ task'[t].credits = settlementCredits(positions, settlement)
<1> DEFINE credits == settlementCredits(positions, settlement)
           j == [task[t] EXCEPT !.at = "refund", !.credits = credits]
<1>1. IsJob(task[t])
  BY DEF Types, TasksOK, JobOK
<1>2. task' = [task EXCEPT ![t] = j]
  BY DEF Types, TasksOK, ReadSettlement
<1> HIDE DEF credits
<1>3. Only(t) /\ task'[t] = j
  BY <1>2, SetJob DEF Types, TasksOK
<1> QED
  BY <1>1, <1>3 DEF IsJob, Carries, credits

\* A posted credit is taken off the list.
Struck(t, kind, credit) ==
    /\ Only(t) /\ Carries(t) /\ IsJob(task'[t]) /\ IsCredits(task'[t].credits)
    /\ task'[t].at = task[t].at
    /\ task'[t].outcome = task[t].outcome /\ task'[t].fx = task[t].fx
    /\ task'[t].credits.refunds = task[t].credits.refunds \ (IF kind = "refund" THEN {credit} ELSE {})
    /\ task'[t].credits.payouts = task[t].credits.payouts \ (IF kind = "payout" THEN {credit} ELSE {})
    /\ task'[t].credits.voidedPending = task[t].credits.voidedPending

LEMMA RefundJob ==
    ASSUME Types, NEW t \in Tasks, Refund(t)
    PROVE  \E credit \in task[t].credits.refunds :
             postWagerLedger("refund", credit) /\ Struck(t, "refund", credit)
<1> DEFINE credit == CHOOSE c \in task[t].credits.refunds : TRUE
           list == task[t].credits
           new == [list EXCEPT !.refunds = @ \ {credit}]
           j == [task[t] EXCEPT !.credits = new]
<1>1. IsJob(task[t]) /\ IsCredits(list)
  BY DEF Types, TasksOK, JobOK
<1>2. credit \in task[t].credits.refunds /\ postWagerLedger("refund", credit)
  BY DEF Refund
<1>3. task' = [task EXCEPT ![t] = j]
  BY DEF Types, TasksOK, Refund
<1> HIDE DEF credit
<1>4. Only(t) /\ task'[t] = j
  BY <1>3, SetJob DEF Types, TasksOK
<1>5. /\ IsCredits(new) /\ new.refunds = list.refunds \ {credit} /\ new.payouts = list.payouts
      /\ new.voidedPending = list.voidedPending
  BY <1>1 DEF IsCredits
<1> HIDE DEF new
<1>6. /\ IsJob(j) /\ j.at = task[t].at /\ j.outcome = task[t].outcome /\ j.fx = task[t].fx
      /\ j.credits = new /\ j.state = task[t].state /\ j.event = task[t].event /\ j.upTo = task[t].upTo
  BY <1>1 DEF IsJob
<1> HIDE DEF j
<1>7. list.payouts = list.payouts \ {}
  OBVIOUS
<1>8. Struck(t, "refund", credit)
  BY <1>4, <1>5, <1>6, <1>7 DEF Struck, Carries
<1> QED
  BY <1>2, <1>8

LEMMA PayJob ==
    ASSUME Types, NEW t \in Tasks, Pay(t)
    PROVE  \E credit \in task[t].credits.payouts :
             postWagerLedger("payout", credit) /\ Struck(t, "payout", credit)
<1> DEFINE credit == CHOOSE c \in task[t].credits.payouts : TRUE
           list == task[t].credits
           new == [list EXCEPT !.payouts = @ \ {credit}]
           j == [task[t] EXCEPT !.credits = new]
<1>1. IsJob(task[t]) /\ IsCredits(list)
  BY DEF Types, TasksOK, JobOK
<1>2. credit \in task[t].credits.payouts /\ postWagerLedger("payout", credit)
  BY DEF Pay
<1>3. task' = [task EXCEPT ![t] = j]
  BY DEF Types, TasksOK, Pay
<1> HIDE DEF credit
<1>4. Only(t) /\ task'[t] = j
  BY <1>3, SetJob DEF Types, TasksOK
<1>5. /\ IsCredits(new) /\ new.payouts = list.payouts \ {credit} /\ new.refunds = list.refunds
      /\ new.voidedPending = list.voidedPending
  BY <1>1 DEF IsCredits
<1> HIDE DEF new
<1>6. /\ IsJob(j) /\ j.at = task[t].at /\ j.outcome = task[t].outcome /\ j.fx = task[t].fx
      /\ j.credits = new /\ j.state = task[t].state /\ j.event = task[t].event /\ j.upTo = task[t].upTo
  BY <1>1 DEF IsJob
<1> HIDE DEF j
<1>7. list.refunds = list.refunds \ {}
  OBVIOUS
<1>8. Struck(t, "payout", credit)
  BY <1>4, <1>5, <1>6, <1>7 DEF Struck, Carries
<1> QED
  BY <1>2, <1>8

\* The jobs that start.
Starts(t, step) ==
    /\ Only(t) /\ IsJob(task'[t]) /\ task'[t].at = step /\ task'[t].fx = NoEffects
    /\ task'[t].credits = NoCredits

LEMMA ReceiveJob ==
    ASSUME Types, Receive, task' # task
    PROVE  /\ Starts("stream", "fixture") /\ task'["stream"].event = cursor + 1
           /\ task'["stream"].state = NoState /\ task'["stream"].outcome = NoOutcome
           /\ cursor' = cursor
<1> DEFINE i == cursor + 1
           j == [Idle EXCEPT !.at = "fixture", !.event = i]
<1>1. task' = [task EXCEPT !["stream"] = j] /\ cursor' = cursor
  BY DEF Receive
<1>2. Only("stream") /\ task'["stream"] = j
  BY <1>1, SetJob DEF Types, TasksOK, Tasks
<1> HIDE DEF i
<1>3. /\ IsJob(j) /\ j.at = "fixture" /\ j.event = i /\ j.fx = NoEffects /\ j.credits = NoCredits
      /\ j.state = NoState /\ j.outcome = NoOutcome
  BY JobFor
<1> QED
  BY <1>1, <1>2, <1>3 DEF Starts, i

LEMMA CaptureJob ==
    ASSUME Types, NEW t \in Ticks, Capture(t)
    PROVE  Starts(t, "check") /\ task'[t].state = cache /\ task'[t].outcome = NoOutcome
<1> DEFINE j == [Idle EXCEPT !.at = "check", !.state = cache, !.nowMs = now]
<1>1. task' = [task EXCEPT ![t] = j]
  BY DEF Capture
<1>2. Only(t) /\ task'[t] = j
  BY <1>1, SetJob DEF Types, TasksOK, Tasks
<1> QED
  BY <1>2, IdleIs DEF Starts, IsJob

LEMMA ReconcileJob ==
    ASSUME Types, Reconcile
    PROVE  /\ Starts("reconciler", "replay") /\ task'["reconciler"].outcome = NoOutcome
           /\ task'["reconciler"].state = fresh
           /\ task'["reconciler"].event = 1 /\ task'["reconciler"].upTo = Len(feed)
<1> DEFINE j == [Idle EXCEPT !.at = "replay", !.event = 1, !.upTo = Len(feed), !.state = fresh]
<1>1. task' = [task EXCEPT !["reconciler"] = j]
  BY DEF Reconcile
<1>2. Only("reconciler") /\ task'["reconciler"] = j
  BY <1>1, SetJob DEF Types, TasksOK, Tasks
<1> HIDE DEF fresh
<1> QED
  BY <1>2, IdleIs DEF Starts, IsJob

LEMMA VerdictIs ==
    ASSUME NEW i, NEW outcome
    PROVE  LET j == Verdict(i, outcome)
           IN  /\ IsJob(j) /\ j.at = "fixture" /\ j.event = i /\ j.outcome = outcome /\ j.fx = NoEffects
               /\ j.credits = NoCredits /\ j.state = NoState
<1> DEFINE k == [Idle EXCEPT !.at = "fixture", !.event = i]
           j == [k EXCEPT !.outcome = outcome]
<1>1. /\ IsJob(k) /\ k.at = "fixture" /\ k.event = i /\ k.state = NoState
      /\ k.fx = NoEffects /\ k.credits = NoCredits
  BY JobFor
<1>2. Verdict(i, outcome) = j
  BY DEF Verdict
<1> HIDE DEF k
<1>3. /\ IsJob(j) /\ j.at = "fixture" /\ j.event = i /\ j.outcome = outcome /\ j.fx = NoEffects
      /\ j.credits = NoCredits /\ j.state = NoState
  BY <1>1 DEF IsJob
<1> QED
  BY <1>2, <1>3

LEMMA VoidAbandonedJob ==
    ASSUME Types, NEW t \in Voiders, VoidAbandoned(t)
    PROVE  Starts(t, "status") /\ task'[t].state = NoState /\ task'[t].outcome = "void"
<1> DEFINE j == [Idle EXCEPT !.at = "status", !.outcome = "void"]
<1>1. task' = [task EXCEPT ![t] = j]
  BY DEF VoidAbandoned
<1>2. Only(t) /\ task'[t] = j
  BY <1>1, SetJob DEF Types, TasksOK, Tasks
<1> QED
  BY <1>2, IdleIs DEF Starts, IsJob

LEMMA PersistFixtureJob ==
    ASSUME Types, PersistFixture
    PROVE  LET t == "reconciler"
           IN  /\ Only(t) /\ IsJob(task'[t]) /\ task'[t].at = "status" /\ task'[t].state = task[t].state
               /\ task'[t].fx = task[t].fx /\ task'[t].outcome = task[t].outcome
               /\ task'[t].credits = task[t].credits
<1> DEFINE j == [task["reconciler"] EXCEPT !.at = "status", !.event = 0]
<1>1. IsJob(task["reconciler"]) /\ "reconciler" \in Tasks
  BY DEF Types, TasksOK, JobOK, Tasks
<1>2. task' = [task EXCEPT !["reconciler"] = j]
  BY <1>1 DEF Types, TasksOK, PersistFixture
<1>3. Only("reconciler") /\ task'["reconciler"] = j
  BY <1>1, <1>2, SetJob DEF Types, TasksOK
<1> QED
  BY <1>1, <1>3 DEF IsJob

LEMMA ReplayEventJob ==
    ASSUME Types, ReplayEvent
    PROVE  LET job == task["reconciler"]
               result == reduceMarket(Claim, job.state, Event(job.event))
               new == task'["reconciler"]
           IN  /\ Only("reconciler")
               /\ result.effects.terminal # NoTerminal =>
                    new = Verdict(job.event, result.effects.terminal.outcome)
               /\ result.effects.terminal = NoTerminal =>
                    /\ IsJob(new) /\ new.at = "replay" /\ new.event = job.event + 1
                    /\ new.upTo = job.upTo /\ new.state = result.state
                    /\ new.fx = job.fx /\ new.outcome = job.outcome /\ new.credits = job.credits
<1> DEFINE job == task["reconciler"]
           result == reduceMarket(Claim, job.state, Event(job.event))
           i == job.event + 1
           next == [job EXCEPT !.event = i, !.state = result.state]
           j == IF result.effects.terminal # NoTerminal
                THEN Verdict(job.event, result.effects.terminal.outcome) ELSE next
<1>1. IsJob(job) /\ "reconciler" \in Tasks
  BY DEF Types, TasksOK, JobOK, Tasks
<1>2. task' = [task EXCEPT !["reconciler"] = j]
  BY DEF ReplayEvent
<1>3. Only("reconciler") /\ task'["reconciler"] = j
  BY <1>1, <1>2, SetJob DEF Types, TasksOK
<1>4. job.at = "replay"
  BY DEF ReplayEvent, At
<1> DEFINE state == result.state
<1> HIDE DEF result, i, state
<1>a. next = [job EXCEPT !.event = i, !.state = state]
  BY DEF state
<1>5. /\ IsJob(next) /\ next.at = "replay" /\ next.event = i
      /\ next.upTo = job.upTo /\ next.state = state
      /\ next.fx = job.fx /\ next.outcome = job.outcome /\ next.credits = job.credits
  <2> HIDE DEF job, next
  <2> QED
    BY <1>1, <1>4, <1>a DEF IsJob
<1> HIDE DEF next
<1> QED
  BY <1>3, <1>5 DEF result, i, state

-----------------------------------------------------------------------------
(* Types. *)

\* Where t's new job is a job, the tasks are.
LEMMA TasksAfter ==
    ASSUME Types, feed' = feed, NEW t \in Tasks, Only(t), JobOK(task'[t]), EventOK(t, task'[t])
    PROVE  TasksOK'
<1>1. \A u \in Tasks : JobOK(task'[u]) /\ EventOK(u, task'[u])
  BY DEF Only, Types, TasksOK
<1>2. \A u \in Tasks : JobOK(task[u])' /\ EventOK(u, task[u])'
  BY <1>1 DEF EventOK
<1> QED
  BY <1>2 DEF TasksOK, Only

TailSteps == {"idle", "keep", "status", "settlement", "read", "refund", "pay"}

\* A job of the tail.
LEMMA TailJob ==
    ASSUME Types, feed' = feed, NEW t \in Tasks, Only(t), Carries(t), IsJob(task'[t]),
           IsCredits(task'[t].credits), task'[t].outcome \in Outcomes,
           task'[t].fx = task[t].fx \/ task'[t].fx = NoEffects,
           task'[t].at \in TailSteps,
           task'[t].at \in {"refund", "pay"} \/ task'[t].credits = NoCredits,
           \A c \in task'[t].credits.refunds \cup task'[t].credits.payouts :
              c.pos \in Positions /\ c.amount \in Nat
    PROVE  TasksOK'
<1>1. JobOK(task[t]) /\ EventOK(t, task[t])
  BY DEF Types, TasksOK
<1>2. EffectsShape(task'[t].fx) /\ TerminalOK(task'[t].fx.terminal)
  BY <1>1, IdleIs DEF JobOK, TerminalOK
<1>3. JobOK(task'[t])
  BY <1>1, <1>2 DEF JobOK, Carries, TailSteps
<1>4. EventOK(t, task'[t])
  BY <1>1 DEF EventOK, Carries, TailSteps
<1> QED
  BY <1>3, <1>4, TasksAfter

LEMMA IdleJob ==
    ASSUME Types, feed' = feed, NEW t \in Tasks, Only(t), task'[t] = Idle
    PROVE  TasksOK'
<1>1. Len(feed) \in Nat
  BY DEF Types, FeedOK
<1>2. EventOK(t, Idle)
  BY <1>1, IdleIs DEF EventOK
<1> QED
  BY <1>2, IdleIs, TasksAfter

\* A frame moves the fixture on, and past kickoff.
LEMMA FixtureMoves ==
    ASSUME Types, NEW i \in 1..Len(feed), fixture' = updateFixture(fixture, feed[i])
    PROVE  /\ fixture' = [phase |-> fixture'.phase, seq |-> fixture'.seq]
           /\ fixture'.seq \in Nat /\ fixture'.phase # "NS"
<1>1. feed[i] \in FeedRecords /\ feed[i].phase # "NS"
  BY DEF Types, FeedOK
<1>2. feed[i].seq \in Nat
  BY <1>1 DEF FeedRecords
<1>3. fixture.seq \in Nat /\ (fixture.seq = 0 \/ fixture.phase # "NS")
      /\ fixture = [phase |-> fixture.phase, seq |-> fixture.seq]
  BY DEF Types, FeedRowsOK
<1>4. CASE fixture.seq <= feed[i].seq
  BY <1>1, <1>2, <1>4 DEF updateFixture
<1>5. CASE ~(fixture.seq <= feed[i].seq)
  <2>1. fixture.seq # 0
    BY <1>2, <1>3, <1>5
  <2>2. fixture' = fixture
    BY <1>5 DEF updateFixture
  <2> QED
    BY <1>3, <2>1, <2>2
<1> QED
  BY <1>4, <1>5

\* The market is handed on as a state.
LEMMA FreshOK ==
    ASSUME Types, market \notin Terminal
    PROVE  /\ StateOK(fresh) /\ fresh.status \in Running /\ fresh.pending = NoCandidate
           /\ fresh.positions = positions
           /\ StateOK(hydrate) /\ hydrate.status \in Running /\ hydrate.positions = positions
<1>1. market \in Running
  BY DEF Types, RowsOK
<1>2. StateOK(fresh) /\ fresh.status \in Running /\ fresh.pending = NoCandidate
      /\ fresh.positions = positions
  BY <1>1 DEF fresh, StateOK, Running
<1>3. CASE cache = NoState
  BY <1>2, <1>3 DEF hydrate
<1>4. CASE cache # NoState
  <2>1. StateOK(cache) /\ cache.status \in Running
    BY <1>4 DEF Types, Kept
  <2>2. hydrate = [cache EXCEPT !.positions = positions]
    BY <1>4 DEF hydrate
  <2> QED
    BY <1>2, <2>1, <2>2, StateChanges
<1> QED
  BY <1>3, <1>4

\* What a reduction persists.
LEMMA PersistOK ==
    ASSUME Types, feed' = feed, NEW t \in SettlerTasks, task[t].at \in {"reduce", "check"},
           NEW b, StateOK(b), b.status \in Running, NEW seq, NEW result,
           From(b, seq, result.state, result.effects), Persist(t, result)
    PROVE  TasksOK'
<1> DEFINE fx == result.effects
           st == result.state
<1>0. t \in Tasks
  BY DEF SettlerTasks, Tasks
<1>1. /\ StateOK(st) /\ EffectsShape(fx) /\ TerminalOK(fx.terminal)
      /\ st.status \in Running \cup {"settled", "voided"}
      /\ fx.terminal = NoTerminal => st.status \in Running
  BY DEF From, StateFrom, EffectsFrom
<1>2. fx.terminal.outcome \in Outcomes
  BY <1>1 DEF TerminalOK, NoTerminal, Outcomes, Won
<1>3. /\ Only(t) /\ IsJob(task'[t]) /\ task'[t].at = "effects" /\ task'[t].fx = fx
      /\ task'[t].state = (IF Closed(st) THEN NoState ELSE st)
      /\ task'[t].outcome = fx.terminal.outcome
      /\ task'[t].event = task[t].event /\ task'[t].credits = task[t].credits
  BY <1>0, PersistJob
<1> HIDE DEF fx, st
<1>4. Closed(st) <=> st.status \in {"settled", "voided"}
  BY DEF Closed
<1>5. Kept(task'[t].state) /\ (fx.terminal = NoTerminal => task'[t].state.status \in Running)
  BY <1>1, <1>3, <1>4 DEF Kept, Running
<1>6. JobOK(task[t]) /\ EventOK(t, task[t]) /\ task[t].credits = NoCredits
  BY <1>0 DEF Types, TasksOK, JobOK
<1>7. JobOK(task'[t])
  BY <1>1, <1>2, <1>3, <1>5, <1>6, IdleIs DEF JobOK
<1>8. EventOK(t, task'[t])
  BY <1>3, <1>6 DEF EventOK, SettlerTasks
<1> QED
  BY <1>0, <1>3, <1>7, <1>8, TasksAfter

LEMMA PublishTypes ==
    ASSUME Types, PublishNext
    PROVE  /\ FeedOK' /\ FeedRowsOK' /\ TasksOK'
<1> DEFINE n == Len(feed)
           e == [script[n + 1] EXCEPT !.ts = now, !.rcv = now]
<1>1. /\ script \in Scripts /\ feed \in Seq(FeedRecords) /\ n <= Len(script) /\ now \in Nat
      /\ \A i \in DOMAIN feed : feed[i].phase # "NS"
  BY DEF Types, FeedOK
<1>2. /\ n < Len(script) /\ feed' = Append(feed, e)
      /\ UNCHANGED <<script, now, stored, fixture, cursor, task>>
  BY DEF PublishNext, feedRows
<1>3. script \in Seq(FeedRecords) /\ \A i \in DOMAIN script : script[i].phase # "NS"
  BY <1>1, ScriptsAssumption
<1>4. n \in Nat /\ Len(script) \in Nat /\ DOMAIN feed = 1..n /\ DOMAIN script = 1..Len(script)
  BY <1>1, <1>3
<1>5. n + 1 \in DOMAIN script
  BY <1>2, <1>4
<1>6. script[n + 1] \in FeedRecords /\ script[n + 1].phase # "NS"
  BY <1>3, <1>5
<1>7. e \in FeedRecords /\ e.phase # "NS"
  BY <1>1, <1>6 DEF FeedRecords
<1> HIDE DEF e
<1>8. /\ feed' \in Seq(FeedRecords) /\ Len(feed') = n + 1 /\ DOMAIN feed' = 1..(n + 1)
      /\ feed'[n + 1] = e /\ \A i \in 1..n : feed'[i] = feed[i]
  BY <1>1, <1>2, <1>4, <1>7
<1>9. \A i \in DOMAIN feed' : feed'[i].phase # "NS"
  BY <1>1, <1>4, <1>7, <1>8
<1>10. FeedOK'
  BY <1>1, <1>2, <1>4, <1>8, <1>9 DEF FeedOK
<1>11. {feed[i].seq : i \in DOMAIN feed} \subseteq {feed'[i].seq : i \in DOMAIN feed'}
  <2>1. ASSUME NEW i \in DOMAIN feed
        PROVE  i \in DOMAIN feed' /\ feed'[i].seq = feed[i].seq
    BY <1>4, <1>8
  <2> QED
    BY <2>1
<1>12. FeedRowsOK'
  <2>1. cursor \in 0..(n + 1) /\ stored \subseteq {feed'[i].seq : i \in DOMAIN feed'}
    BY <1>4, <1>11 DEF Types, FeedRowsOK
  <2> QED
    BY <1>2, <1>8, <2>1 DEF Types, FeedRowsOK
<1>13. ASSUME NEW t \in Tasks PROVE JobOK(task[t])' /\ EventOK(t, task[t])'
  <2> DEFINE j == task[t]
  <2>1. JobOK(j) /\ EventOK(t, j)
    BY DEF Types, TasksOK
  <2>2. task'[t] = j /\ Len(feed') = n + 1 /\ n \in Nat
    BY <1>2, <1>4, <1>8
  <2> HIDE DEF j
  <2>3. t = "stream" => /\ j.event \in 0..(n + 1)
                        /\ j.at \in {"fixture", "reduce"} => j.event \in 1..(n + 1)
    BY <2>1, <2>2 DEF EventOK
  <2>4. t = "reconciler" /\ j.at = "fixture" => j.event \in 1..(n + 1)
    BY <2>1, <2>2 DEF EventOK
  <2>5. ASSUME t = "reconciler", j.at = "replay"
        PROVE  /\ j.upTo \in 0..(n + 1) /\ j.event \in 1..(j.upTo + 1)
               /\ \/ j.state.pending = NoCandidate
                  \/ \E i \in 1..j.upTo : feed'[i].seq = j.state.pending.decidingSeq
    <3>1. j.upTo \in 0..n /\ j.event \in 1..(j.upTo + 1)
      BY <2>1, <2>5 DEF EventOK
    <3>2. \A i \in 1..j.upTo : feed'[i] = feed[i]
      BY <1>8, <2>2, <3>1
    <3> QED
      BY <2>1, <2>2, <2>5, <3>1, <3>2 DEF EventOK
  <2> QED
    BY <2>1, <2>2, <2>3, <2>4, <2>5 DEF EventOK
<1>14. TasksOK'
  BY <1>2, <1>13 DEF Types, TasksOK
<1> QED
  BY <1>10, <1>12, <1>14

\* What most actions leave alone.
LEMMA SameTypes ==
    ASSUME Types
    PROVE  /\ UNCHANGED <<script, feed, now>> => FeedOK'
           /\ UNCHANGED <<market, positions, settlement, applied, ledger>> => RowsOK'
           /\ UNCHANGED <<feed, stored, fixture, cursor>> => FeedRowsOK'
           /\ UNCHANGED <<feed, task>> => TasksOK'
           /\ UNCHANGED cache => Kept(cache)'
<1>1. UNCHANGED <<script, feed, now>> => FeedOK'
  BY DEF Types, FeedOK
<1>2. UNCHANGED <<market, positions, settlement, applied, ledger>> => RowsOK'
  BY DEF Types, RowsOK
<1>3. UNCHANGED <<feed, stored, fixture, cursor>> => FeedRowsOK'
  BY DEF Types, FeedRowsOK
<1>4. UNCHANGED <<feed, task>> => TasksOK'
  BY DEF Types, TasksOK, EventOK
<1>5. UNCHANGED cache => Kept(cache)'
  BY DEF Types, Kept
<1> QED
  BY <1>1, <1>2, <1>3, <1>4, <1>5

LEMMA PlaceTypes ==
    ASSUME Types, NEW p \in Positions, Place(p)
    PROVE  RowsOK'
<1> DEFINE inPlay == fixture.phase # "NS"
           new == [state |-> IF inPlay THEN "pending" ELSE "active", placedAt |-> now, inPlay |-> inPlay]
<1>1. positions \in PositionRows /\ now \in Nat
  BY DEF Types, RowsOK, FeedOK
<1>2. positions' = [positions EXCEPT ![p] = new]
  BY DEF Place
<1>3. inPlay \in BOOLEAN
  OBVIOUS
<1> HIDE DEF inPlay
<1>4. new \in PositionRecords
  BY <1>1, <1>3 DEF PositionRecords
<1> HIDE DEF new
<1>5. positions' \in PositionRows
  BY <1>1, <1>2, <1>4 DEF PositionRows
<1> QED
  BY <1>5 DEF Place, Types, RowsOK, moneyVars

\* Marking positions changes their state and nothing else.
LEMMA MarkOK ==
    ASSUME NEW P \in PositionRows, NEW chosen, NEW state \in {"active", "void"}
    PROVE  /\ Mark(P, chosen, state) \in PositionRows
           /\ \A p \in Positions :
                /\ Mark(P, chosen, state)[p].inPlay = P[p].inPlay
                /\ Mark(P, chosen, state)[p].state = IF p \in chosen THEN state ELSE P[p].state
                /\ p \notin chosen => Mark(P, chosen, state)[p] = P[p]
<1>1. DOMAIN P = Positions
  BY DEF PositionRows
<1>2. ASSUME NEW p \in Positions
      PROVE  LET q == IF p \in chosen THEN [P[p] EXCEPT !.state = state] ELSE P[p]
             IN  /\ q \in PositionRecords /\ q.inPlay = P[p].inPlay
                 /\ q.state = IF p \in chosen THEN state ELSE P[p].state
                 /\ p \notin chosen => q = P[p]
  <2>1. P[p] \in PositionRecords
    BY DEF PositionRows
  <2> QED
    BY <2>1 DEF PositionRecords
<1>3. Mark(P, chosen, state) =
        [p \in Positions |-> IF p \in chosen THEN [P[p] EXCEPT !.state = state] ELSE P[p]]
  BY <1>1 DEF Mark
<1>4. Mark(P, chosen, state) \in PositionRows
  BY <1>2, <1>3 DEF PositionRows
<1> QED
  BY <1>2, <1>3, <1>4

LEMMA ApplyEffectsRows ==
    ASSUME Types, NEW t \in Tasks, ApplyEffects(t)
    PROVE  /\ RowsOK' /\ market' \in {market, "frozen"} \cup Running
           /\ \A p \in Positions : positions'[p].inPlay = positions[p].inPlay
           /\ \A p \in Positions : p \notin task[t].fx.voids \cup task[t].fx.activates =>
                                     positions'[p] = positions[p]
<1> DEFINE P == positions
           fx == task[t].fx
           Q == Mark(P, fx.voids, "void")
<1>1. P \in PositionRows /\ market \in Running \cup Terminal
  BY DEF Types, RowsOK
<1>2. positions' = Mark(Q, fx.activates, "active") /\ task[t].at = "effects"
  BY DEF ApplyEffects, At
<1>3. Q \in PositionRows /\ \A p \in Positions : Q[p].inPlay = P[p].inPlay /\ (p \notin fx.voids => Q[p] = P[p])
  BY <1>1, MarkOK
<1> HIDE DEF Q
<1>4. /\ positions' \in PositionRows
      /\ \A p \in Positions : /\ positions'[p].inPlay = Q[p].inPlay
                              /\ p \notin fx.activates => positions'[p] = Q[p]
  BY <1>2, <1>3, MarkOK
<1>5. fx.terminal = NoTerminal => task[t].state.status \in Running
  BY <1>2 DEF Types, TasksOK, JobOK
<1>6. market' \in {market, "frozen"} \cup Running
  <2>1. CASE fx.terminal = NoTerminal
    BY <1>5, <2>1 DEF ApplyEffects
  <2>2. CASE fx.terminal # NoTerminal
    BY <2>2 DEF ApplyEffects
  <2> QED
    BY <2>1, <2>2
<1>7. market' \in Running \cup Terminal
  BY <1>1, <1>6 DEF Running
<1>8. RowsOK'
  BY <1>4, <1>7 DEF ApplyEffects, Types, RowsOK, moneyVars
<1> QED
  BY <1>3, <1>4, <1>6, <1>8

\* A posted credit is a credit in the ledger.
LEMMA PostOK ==
    ASSUME Types, NEW kind \in {"refund", "payout"}, NEW c, c.pos \in Positions, c.amount \in Nat,
           postWagerLedger(kind, c)
    PROVE  /\ ledger' \in [{"refund", "payout"} -> [Positions -> Nat]]
           /\ \A k \in {"refund", "payout"} : \A p \in Positions :
                k # kind \/ p # c.pos => ledger'[k][p] = ledger[k][p]
           /\ ledger'[kind][c.pos] = IF ledger[kind][c.pos] > 0 THEN ledger[kind][c.pos] ELSE c.amount
<1>1. ledger \in [{"refund", "payout"} -> [Positions -> Nat]]
  BY DEF Types, RowsOK
<1>2. CASE ledger[kind][c.pos] > 0
  BY <1>1, <1>2 DEF postWagerLedger
<1>3. CASE ~(ledger[kind][c.pos] > 0)
  <2>1. ledger' = [ledger EXCEPT ![kind][c.pos] = c.amount]
    BY <1>3 DEF postWagerLedger
  <2> DEFINE p == c.pos
             a == c.amount
  <2>2. ledger' = [ledger EXCEPT ![kind] = [ledger[kind] EXCEPT ![p] = a]] /\ p \in Positions /\ a \in Nat
    BY <2>1
  <2> HIDE DEF p, a
  <2>3. /\ ledger' \in [{"refund", "payout"} -> [Positions -> Nat]]
        /\ \A k \in {"refund", "payout"} : \A q \in Positions :
             k # kind \/ q # p => ledger'[k][q] = ledger[k][q]
        /\ ledger'[kind][p] = a
    BY <1>1, <2>2
  <2> QED
    BY <1>3, <2>3 DEF p, a
<1> QED
  BY <1>2, <1>3

-----------------------------------------------------------------------------
(* Every step keeps the types. *)

Shaped == FeedOK /\ RowsOK /\ FeedRowsOK /\ Kept(cache) /\ TasksOK

\* The frame of a step that changes a job and no row.
LEMMA JobOnly ==
    ASSUME Types, TasksOK',
           UNCHANGED <<script, feed, now, market, positions, moneyVars, feedRows, cache>>
    PROVE  Shaped'
  BY SameTypes DEF Shaped, moneyVars, feedRows

\* The event a reduction is made on carries its frame's number.
LEMMA EventSeq ==
    ASSUME Types, NEW i \in 1..Len(feed)
    PROVE  Event(i).seq = feed[i].seq /\ i \in DOMAIN feed /\ feed[i].seq \in Nat
<1>1. feed[i] \in FeedRecords /\ i \in DOMAIN feed
  BY DEF Types, FeedOK
<1> QED
  BY <1>1 DEF Event, FeedRecords

LEMMA ReceiveTypes ==
    ASSUME Types, Receive
    PROVE  Shaped'
<1> DEFINE i == cursor + 1
<1>1. /\ i \in DOMAIN feed /\ stored' = stored \cup {feed[i].seq}
      /\ UNCHANGED <<script, feed, now, market, positions, settlement, applied, ledger, fixture, cache>>
      /\ (cursor' = i /\ task' = task) \/ cursor' = cursor
  BY DEF Receive, envVars, worldVars, moneyVars
<1>2. cursor \in 0..Len(feed) /\ DOMAIN feed = 1..Len(feed) /\ Len(feed) \in Nat
  BY DEF Types, FeedRowsOK, FeedOK
<1>3. i \in 1..Len(feed)
  BY <1>1, <1>2
<1> HIDE DEF i
<1>4. FeedRowsOK'
  <2>1. cursor' \in 0..Len(feed)
    BY <1>1, <1>2, <1>3
  <2>2. stored' \subseteq {feed[k].seq : k \in DOMAIN feed}
    BY <1>1 DEF Types, FeedRowsOK
  <2> QED
    BY <1>1, <2>1, <2>2 DEF Types, FeedRowsOK
<1>5. CASE task' = task
  BY <1>1, <1>4, <1>5, SameTypes DEF Shaped
<1>6. CASE task' # task
  <2>1. /\ Starts("stream", "fixture") /\ task'["stream"].event = i
        /\ task'["stream"].state = NoState /\ task'["stream"].outcome = NoOutcome
    BY <1>6, ReceiveJob DEF i
  <2>2. JobOK(task'["stream"])
    BY <2>1, IdleIs DEF JobOK, Starts, Outcomes
  <2>3. EventOK("stream", task'["stream"])
    BY <1>2, <1>3, <2>1 DEF EventOK
  <2>4. TasksOK'
    BY <1>1, <2>1, <2>2, <2>3, TasksAfter DEF Starts, Tasks
  <2> QED
    BY <1>1, <1>4, <2>4, SameTypes DEF Shaped
<1> QED
  BY <1>5, <1>6

LEMMA UpdateFixtureTypes ==
    ASSUME Types, UpdateFixture
    PROVE  Shaped' /\ fixture'.phase # "NS"
<1> DEFINE t == "stream"
<1>0. t \in Tasks /\ task[t].at = "fixture" /\ Go(t, "reduce")
      /\ UNCHANGED <<script, feed, now, market, positions, settlement, applied, ledger, stored, cursor, cache>>
  BY DEF Tasks, UpdateFixture, At, envVars, worldVars, moneyVars
<1>1. JobOK(task[t]) /\ EventOK(t, task[t])
  BY <1>0 DEF Types, TasksOK
<1>2. task[t].event \in 1..Len(feed)
  BY <1>0, <1>1 DEF EventOK
<1>3. /\ fixture' = [phase |-> fixture'.phase, seq |-> fixture'.seq]
      /\ fixture'.seq \in Nat /\ fixture'.phase # "NS"
  BY <1>2, FixtureMoves DEF UpdateFixture
<1>4. FeedRowsOK'
  BY <1>0, <1>3 DEF Types, FeedRowsOK
<1>5. /\ Only(t) /\ Carries(t) /\ IsJob(task'[t]) /\ task'[t].at = "reduce"
      /\ task'[t].fx = task[t].fx /\ task'[t].outcome = task[t].outcome
      /\ task'[t].credits = task[t].credits
  BY <1>0, GoJob
<1>6. JobOK(task'[t]) /\ EventOK(t, task'[t])
  BY <1>0, <1>1, <1>2, <1>5 DEF JobOK, EventOK, Carries
<1>7. TasksOK'
  BY <1>0, <1>5, <1>6, TasksAfter
<1> QED
  BY <1>0, <1>3, <1>4, <1>7, SameTypes DEF Shaped

\* The handler is back: the task is idle, the cursor on a frame.
LEMMA ReturnTypes ==
    ASSUME Types, feed' = feed, NEW t \in Tasks, Return(t), UNCHANGED <<stored, fixture>>
    PROVE  TasksOK' /\ FeedRowsOK'
<1>1. Only(t) /\ task'[t] = Idle
  BY EndJob DEF Return
<1>2. EventOK(t, task[t])
  BY DEF Types, TasksOK
<1>3. cursor' \in 0..Len(feed)
  BY <1>2 DEF Return, EventOK, Types, FeedRowsOK
<1> QED
  BY <1>1, <1>3, IdleJob DEF Types, FeedRowsOK

LEMMA ReduceTypes ==
    ASSUME Types, Reduce
    PROVE  Shaped'
<1> DEFINE t == "stream"
           ev == Event(task[t].event)
<1>0. t \in Tasks /\ t \in SettlerTasks /\ task[t].at = "reduce"
      /\ UNCHANGED <<script, feed, now, market, positions, settlement, applied, ledger, stored, fixture>>
  BY DEF Tasks, SettlerTasks, Reduce, At, envVars, worldVars, moneyVars
<1>1. CASE market \in Terminal
  <2>1. Return(t) /\ cache' = cache
    BY <1>1 DEF Reduce
  <2> QED
    BY <1>0, <2>1, ReturnTypes, SameTypes DEF Shaped
<1>2. CASE market \notin Terminal
  <2>1. cache' = hydrate /\ cursor' = cursor /\ Persist(t, reduceMarket(Claim, hydrate, ev))
    BY <1>2 DEF Reduce
  <2>2. StateOK(hydrate) /\ hydrate.status \in Running
    BY <1>2, FreshOK
  <2>3. Kept(cache)'
    BY <2>1, <2>2 DEF Kept
  <2> DEFINE result == reduceMarket(Claim, hydrate, ev)
  <2>4. From(hydrate, ev.seq, result.state, result.effects)
    BY <2>2, ReducerOK
  <2>5. Persist(t, result)
    BY <2>1
  <2> HIDE DEF result, ev
  <2>6. TasksOK'
    BY <1>0, <2>2, <2>4, <2>5, PersistOK
  <2> QED
    BY <1>0, <2>1, <2>3, <2>6, SameTypes DEF Shaped
<1> QED
  BY <1>1, <1>2

LEMMA CaptureTypes ==
    ASSUME Types, NEW t \in Ticks, Capture(t)
    PROVE  Shaped' /\ cache.status \in Running /\ cache # NoState
<1>1. Starts(t, "check") /\ task'[t].state = cache /\ task'[t].outcome = NoOutcome
  BY CaptureJob
<1>2. cache # NoState
  BY IdleIs DEF Capture
<1>3. StateOK(cache) /\ cache.status \in Running /\ Kept(cache)
  BY <1>2 DEF Types, Kept
<1>4. JobOK(task'[t])
  BY <1>1, <1>3, IdleIs DEF JobOK, Starts, Outcomes
<1>5. EventOK(t, task'[t])
  BY TaskKinds DEF EventOK
<1>6. TasksOK'
  BY <1>1, <1>4, <1>5, TasksAfter DEF Starts, Tasks, Capture, envVars, worldVars
<1> QED
  BY <1>2, <1>3, <1>6, JobOnly DEF Capture, envVars, worldVars

LEMMA CheckTypes ==
    ASSUME Types, NEW t \in Ticks, Check(t)
    PROVE  Shaped'
<1> DEFINE st == task[t].state
           result == checkDebounce(st, task[t].nowMs)
<1>0. t \in Tasks /\ t \in SettlerTasks /\ task[t].at = "check"
      /\ UNCHANGED <<script, feed, now, market, positions, settlement, applied, ledger, stored, fixture, cursor>>
  BY DEF Tasks, SettlerTasks, Check, At, envVars, worldVars, moneyVars, feedRows
<1>1. CASE market \in Terminal
  <2>1. End(t) /\ cache' = NoState
    BY <1>1 DEF Check
  <2>2. TasksOK'
    BY <1>0, <2>1, EndJob, IdleJob
  <2> QED
    BY <1>0, <2>1, <2>2, IdleIs, SameTypes DEF Shaped, Kept
<1>2. CASE market \notin Terminal
  <2>1. cache' = cache /\ Persist(t, result)
    BY <1>2 DEF Check
  <2>2. StateOK(st) /\ st.status \in Running
    <3>1. JobOK(task[t])
      BY <1>0 DEF Types, TasksOK
    <3> QED
      BY <1>0, <3>1, IdleIs, RunningIs DEF JobOK, Kept, Running
  <2>3. From(st, 0, result.state, result.effects)
    BY <2>2, DebounceOK
  <2> HIDE DEF result
  <2>4. TasksOK'
    BY <1>0, <2>1, <2>2, <2>3, PersistOK
  <2> QED
    BY <1>0, <2>1, <2>4, SameTypes DEF Shaped
<1> QED
  BY <1>1, <1>2

LEMMA ApplyEffectsTypes ==
    ASSUME Types, NEW t \in Tasks, ApplyEffects(t)
    PROVE  Shaped'
<1>0. UNCHANGED <<script, feed, now, stored, fixture, cursor, cache>>
  BY DEF ApplyEffects, envVars, worldVars, feedRows
<1>1. RowsOK'
  BY ApplyEffectsRows
<1>2. JobOK(task[t]) /\ EventOK(t, task[t]) /\ task[t].at = "effects"
  BY DEF Types, TasksOK, ApplyEffects, At
<1>3. /\ Only(t) /\ Carries(t) /\ IsJob(task'[t]) /\ task'[t].fx = NoEffects
      /\ task'[t].at = (IF task[t].fx.terminal = NoTerminal THEN "keep" ELSE "status")
      /\ task'[t].outcome = task[t].outcome /\ task'[t].credits = task[t].credits
  BY ApplyEffectsJob
<1>4. task'[t].credits = NoCredits /\ task'[t].outcome \in Outcomes /\ task'[t].at \in TailSteps
  BY <1>2, <1>3 DEF JobOK, TailSteps
<1>5. TasksOK'
  BY <1>0, <1>3, <1>4, IdleIs, TailJob
<1> QED
  BY <1>0, <1>1, <1>5, SameTypes DEF Shaped

LEMMA KeepTypes ==
    ASSUME Types, NEW t \in Tasks, Keep(t)
    PROVE  Shaped'
<1>0. UNCHANGED <<script, feed, now, market, positions, settlement, applied, ledger, stored, fixture>>
      /\ Return(t) /\ cache' = task[t].state
  BY DEF Keep, envVars, worldVars, moneyVars
<1>1. Kept(cache)'
  BY <1>0 DEF Types, TasksOK, JobOK, Kept
<1> QED
  BY <1>0, <1>1, ReturnTypes, SameTypes DEF Shaped

LEMMA StoreSnapshotTypes ==
    ASSUME Types, StoreSnapshot
    PROVE  Shaped' /\ fixture'.phase # "NS"
<1>0. UNCHANGED <<script, feed, now, market, positions, settlement, applied, ledger, cursor, cache, task>>
      /\ stored' = stored \cup {feed[i].seq : i \in DOMAIN feed}
      /\ feed # <<>> /\ fixture' = updateFixture(fixture, feed[Len(feed)])
  BY DEF StoreSnapshot, Watched, envVars, worldVars, moneyVars
<1>1. Len(feed) \in 1..Len(feed)
  BY <1>0 DEF Types, FeedOK
<1>2. /\ fixture' = [phase |-> fixture'.phase, seq |-> fixture'.seq]
      /\ fixture'.seq \in Nat /\ fixture'.phase # "NS"
  BY <1>0, <1>1, FixtureMoves
<1>3. FeedRowsOK'
  BY <1>0, <1>2 DEF Types, FeedRowsOK
<1> QED
  BY <1>0, <1>2, <1>3, SameTypes DEF Shaped

LEMMA ReconcileTypes ==
    ASSUME Types, Reconcile
    PROVE  Shaped'
<1> DEFINE t == "reconciler"
<1>0. UNCHANGED <<script, feed, now, market, positions, moneyVars, feedRows, cache>>
      /\ market \notin Terminal /\ t \in Tasks
  BY DEF Reconcile, Watched, envVars, worldVars, Tasks
<1>1. /\ Starts(t, "replay") /\ task'[t].outcome = NoOutcome /\ task'[t].state = fresh
      /\ task'[t].event = 1 /\ task'[t].upTo = Len(feed)
  BY ReconcileJob
<1>2. StateOK(fresh) /\ fresh.status \in Running /\ fresh.pending = NoCandidate
  BY <1>0, FreshOK
<1>3. JobOK(task'[t])
  BY <1>1, <1>2, IdleIs DEF JobOK, Starts, Outcomes, Kept
<1>4. Len(feed) \in Nat
  BY DEF Types, FeedOK
<1>5. EventOK(t, task'[t])
  BY <1>1, <1>2, <1>4 DEF EventOK, Starts
<1>6. TasksOK'
  BY <1>0, <1>1, <1>3, <1>5, TasksAfter DEF Starts
<1> QED
  BY <1>0, <1>6, JobOnly

\* A verdict is a job when its frame has been published.
LEMMA VerdictTypes ==
    ASSUME Types, feed' = feed, Only("reconciler"), NEW i \in 1..Len(feed), NEW outcome \in Outcomes,
           task'["reconciler"] = Verdict(i, outcome)
    PROVE  TasksOK'
<1> DEFINE t == "reconciler"
           j == Verdict(i, outcome)
<1>1. /\ IsJob(j) /\ j.at = "fixture" /\ j.event = i /\ j.outcome = outcome /\ j.fx = NoEffects
      /\ j.credits = NoCredits /\ j.state = NoState
  BY VerdictIs
<1>2. task'[t] = j
  OBVIOUS
<1> HIDE DEF j
<1>3. JobOK(j) /\ EventOK(t, j)
  BY <1>1, IdleIs DEF JobOK, EventOK
<1> QED
  BY <1>2, <1>3, TasksAfter DEF Tasks

LEMMA ReplayEventTypes ==
    ASSUME Types, ReplayEvent
    PROVE  Shaped'
<1> DEFINE t == "reconciler"
           job == task[t]
           ev == Event(job.event)
           result == reduceMarket(Claim, job.state, ev)
           fx == result.effects
           new == task'[t]
<1>0. /\ UNCHANGED <<script, feed, now, market, positions, settlement, applied, ledger, fixture, cursor, cache>>
      /\ job.at = "replay" /\ job.event <= job.upTo /\ t \in Tasks
      /\ stored' = stored \cup {feed[job.event].seq}
  BY DEF ReplayEvent, At, envVars, worldVars, moneyVars, Tasks
<1>1. JobOK(job) /\ EventOK(t, job) /\ Len(feed) \in Nat
  BY <1>0 DEF Types, TasksOK, FeedOK
<1>2. /\ job.upTo \in 0..Len(feed) /\ job.event \in 1..(job.upTo + 1)
      /\ \/ job.state.pending = NoCandidate
         \/ \E i \in 1..job.upTo : feed[i].seq = job.state.pending.decidingSeq
  BY <1>0, <1>1 DEF EventOK
<1>3. job.event \in 1..Len(feed) /\ job.event \in 1..job.upTo /\ job.event + 1 \in 1..(job.upTo + 1)
  BY <1>0, <1>1, <1>2
<1>4. ev.seq = feed[job.event].seq /\ job.event \in DOMAIN feed
  BY <1>3, EventSeq
<1>5. StateOK(job.state) /\ job.state.status \in Running /\ job.credits = NoCredits
  BY <1>0, <1>1, IdleIs, RunningIs DEF JobOK, Kept, Running
<1>6. From(job.state, ev.seq, result.state, fx)
  BY <1>5, ReducerOK
<1>7. FeedRowsOK'
  <2>1. stored' \subseteq {feed[k].seq : k \in DOMAIN feed}
    BY <1>0, <1>4 DEF Types, FeedRowsOK
  <2> QED
    BY <1>0, <2>1 DEF Types, FeedRowsOK
<1>8. /\ Only(t)
      /\ fx.terminal # NoTerminal => new = Verdict(job.event, fx.terminal.outcome)
      /\ fx.terminal = NoTerminal =>
           /\ IsJob(new) /\ new.at = "replay" /\ new.event = job.event + 1
           /\ new.upTo = job.upTo /\ new.state = result.state
           /\ new.fx = job.fx /\ new.outcome = job.outcome /\ new.credits = job.credits
  BY ReplayEventJob
<1>9. TasksOK'
  <2> HIDE DEF result, ev
  <2>1. CASE fx.terminal # NoTerminal
    <3>1. fx.terminal.outcome \in Outcomes
      BY <1>6, <2>1 DEF From, EffectsFrom, TerminalOK, Outcomes, Won
    <3> QED
      BY <1>0, <1>3, <1>8, <2>1, <3>1, VerdictTypes
  <2>2. CASE fx.terminal = NoTerminal
    <3>1. StateOK(result.state) /\ result.state.status \in Running
      BY <1>5, <1>6, <2>2 DEF From, StateFrom
    <3>2. \/ result.state.pending = NoCandidate \/ result.state.pending = job.state.pending
          \/ result.state.pending.decidingSeq = ev.seq
      BY <1>6 DEF From, StateFrom
    <3>3. \/ result.state.pending = NoCandidate
          \/ \E i \in 1..job.upTo : feed[i].seq = result.state.pending.decidingSeq
      BY <1>2, <1>3, <1>4, <3>2
    <3>4. JobOK(new)
      BY <1>1, <1>5, <1>8, <2>2, <3>1 DEF JobOK, Kept
    <3>5. EventOK(t, new)
      BY <1>2, <1>3, <1>8, <2>2, <3>3 DEF EventOK
    <3> QED
      BY <1>0, <1>8, <3>4, <3>5, TasksAfter
  <2> QED
    BY <2>1, <2>2
<1> QED
  BY <1>0, <1>7, <1>9, SameTypes DEF Shaped

LEMMA ReplayDebounceJob ==
    ASSUME Types, ReplayDebounce
    PROVE  /\ Only("reconciler")
           /\ \/ task'["reconciler"] = Idle
              \/ \E i \in 1..Len(feed), outcome \in Outcomes : task'["reconciler"] = Verdict(i, outcome)
<1> DEFINE t == "reconciler"
           job == task[t]
           terminal == checkDebounce(job.state, now + SETTLEMENT_DEBOUNCE).effects.terminal
           i == CHOOSE i \in 1..job.upTo : feed[i].seq = terminal.decidingSeq
           j == IF terminal = NoTerminal THEN Idle ELSE Verdict(i, terminal.outcome)
<1>0. task' = [task EXCEPT ![t] = j] /\ job.at = "replay" /\ t \in Tasks
  BY DEF ReplayDebounce, At, Tasks
<1>1. Only(t) /\ task'[t] = j
  BY <1>0, SetJob DEF Types, TasksOK
<1>2. JobOK(job) /\ EventOK(t, job) /\ Len(feed) \in Nat
  BY <1>0 DEF Types, TasksOK, FeedOK
<1>3. StateOK(job.state)
  BY <1>0, <1>2, IdleIs, RunningIs DEF JobOK, Kept, Running
<1>4. ASSUME terminal # NoTerminal
      PROVE  i \in 1..Len(feed) /\ terminal.outcome \in Outcomes
  <2> DEFINE result == checkDebounce(job.state, now + SETTLEMENT_DEBOUNCE)
  <2>1. /\ From(job.state, 0, result.state, result.effects)
        /\ job.state.pending # NoCandidate /\ terminal.decidingSeq = job.state.pending.decidingSeq
    BY <1>3, <1>4, DebounceOK
  <2>2. terminal.outcome \in Outcomes
    BY <1>4, <2>1 DEF From, EffectsFrom, TerminalOK, Outcomes, Won
  <2>3. job.upTo \in 0..Len(feed) /\ \E k \in 1..job.upTo : feed[k].seq = terminal.decidingSeq
    BY <1>0, <1>2, <2>1 DEF EventOK
  <2> HIDE DEF terminal
  <2>4. i \in 1..job.upTo
    BY <2>3
  <2> QED
    BY <1>2, <2>2, <2>3, <2>4
<1> HIDE DEF terminal, i
<1> QED
  BY <1>1, <1>4

LEMMA ReplayDebounceTypes ==
    ASSUME Types, ReplayDebounce
    PROVE  Shaped'
<1>0. UNCHANGED <<script, feed, now, market, positions, moneyVars, feedRows, cache>>
  BY DEF ReplayDebounce, envVars, worldVars
<1>1. TasksOK'
  BY <1>0, ReplayDebounceJob, IdleJob, VerdictTypes DEF Tasks
<1> QED
  BY <1>0, <1>1, JobOnly

LEMMA PersistFixtureTypes ==
    ASSUME Types, PersistFixture
    PROVE  Shaped' /\ fixture'.phase # "NS"
<1> DEFINE t == "reconciler"
<1>0. UNCHANGED <<script, feed, now, market, positions, settlement, applied, ledger, stored, cursor, cache>>
      /\ task[t].at = "fixture" /\ fixture' = updateFixture(fixture, feed[task[t].event]) /\ t \in Tasks
  BY DEF PersistFixture, At, envVars, worldVars, moneyVars, Tasks
<1>1. JobOK(task[t]) /\ EventOK(t, task[t])
  BY <1>0 DEF Types, TasksOK
<1>2. task[t].event \in 1..Len(feed)
  BY <1>0, <1>1 DEF EventOK
<1>3. /\ fixture' = [phase |-> fixture'.phase, seq |-> fixture'.seq]
      /\ fixture'.seq \in Nat /\ fixture'.phase # "NS"
  BY <1>0, <1>2, FixtureMoves
<1>4. FeedRowsOK'
  BY <1>0, <1>3 DEF Types, FeedRowsOK
<1>5. /\ Only(t) /\ IsJob(task'[t]) /\ task'[t].at = "status" /\ task'[t].state = task[t].state
      /\ task'[t].fx = task[t].fx /\ task'[t].outcome = task[t].outcome
      /\ task'[t].credits = task[t].credits
  BY PersistFixtureJob
<1>6. JobOK(task'[t]) /\ EventOK(t, task'[t])
  BY <1>0, <1>1, <1>5 DEF JobOK, EventOK
<1>7. TasksOK'
  BY <1>0, <1>5, <1>6, TasksAfter
<1> QED
  BY <1>0, <1>3, <1>4, <1>7, SameTypes DEF Shaped

LEMMA VoidAbandonedTypes ==
    ASSUME Types, NEW t \in Voiders, VoidAbandoned(t)
    PROVE  Shaped'
<1>0. UNCHANGED <<script, feed, now, market, positions, moneyVars, feedRows, cache>> /\ t \in Tasks
  BY DEF VoidAbandoned, envVars, worldVars, Tasks
<1>1. Starts(t, "status") /\ task'[t].state = NoState /\ task'[t].outcome = "void"
  BY VoidAbandonedJob
<1>2. JobOK(task'[t]) /\ EventOK(t, task'[t])
  BY <1>1, IdleIs, TaskKinds DEF JobOK, EventOK, Starts, Outcomes
<1>3. TasksOK'
  BY <1>0, <1>1, <1>2, TasksAfter DEF Starts
<1> QED
  BY <1>0, <1>3, JobOnly

\* The steps of the tail, each with the job it leaves.
LEMMA TailTypes ==
    ASSUME Types, NEW t \in Tasks, CloseAndPay(t)
    PROVE  Shaped'
<1>0. JobOK(task[t])
  BY DEF Types, TasksOK
<1> DEFINE list == task[t].credits
<1>a. /\ \A c \in list.refunds \cup list.payouts : c.pos \in Positions /\ c.amount \in Nat
      /\ IsCredits(list) /\ task[t].outcome \in Outcomes
      /\ task[t].at \notin {"refund", "pay"} => list = NoCredits
  BY <1>0 DEF JobOK
<1>1. CASE MarkTerminal(t)
  <2>0. UNCHANGED <<script, feed, now, positions, settlement, applied, ledger, stored, fixture, cursor, cache>>
        /\ Go(t, "settlement") /\ market' \in Terminal /\ task[t].at = "status"
    BY <1>1 DEF MarkTerminal, At, Terminal, envVars, worldVars, moneyVars, feedRows
  <2>1. RowsOK'
    BY <2>0 DEF Types, RowsOK
  <2>2. /\ Only(t) /\ Carries(t) /\ IsJob(task'[t]) /\ task'[t].at = "settlement"
        /\ task'[t].fx = task[t].fx /\ task'[t].outcome = task[t].outcome
        /\ task'[t].credits = list
    BY <2>0, GoJob
  <2>3. TasksOK'
    BY <1>a, <2>0, <2>2, TailJob DEF TailSteps
  <2> QED
    BY <2>0, <2>1, <2>3, SameTypes DEF Shaped
<1>2. CASE InsertSettlement(t)
  <2>0. UNCHANGED <<script, feed, now, market, positions, applied, ledger, stored, fixture, cursor, cache>>
        /\ insertSettlement(task[t].outcome) /\ task[t].at = "settlement"
    BY <1>2 DEF InsertSettlement, At, envVars, worldVars, feedRows
  <2>1. RowsOK'
    BY <1>a, <2>0 DEF Types, RowsOK, insertSettlement
  <2>2. /\ Only(t) /\ Carries(t) /\ IsJob(task'[t]) /\ task'[t].at = "read"
        /\ task'[t].outcome = NoOutcome /\ task'[t].fx = task[t].fx
        /\ task'[t].credits = list
    BY <1>2, InsertSettlementJob
  <2>3. TasksOK'
    BY <1>a, <2>0, <2>2, TailJob DEF TailSteps, Outcomes
  <2> QED
    BY <2>0, <2>1, <2>3, SameTypes DEF Shaped
<1>3. ASSUME AfterApply(t), feed' = feed PROVE TasksOK'
  <2>1. /\ Only(t) /\ IsJob(task'[t]) /\ task'[t].at \in {"keep", "idle"}
        /\ task'[t].outcome = NoOutcome /\ task'[t].credits = NoCredits
        /\ \/ Carries(t) /\ task'[t].fx = task[t].fx
           \/ task'[t] = Idle
    BY <1>3, AfterApplyJob
  <2>2. CASE task'[t] = Idle
    BY <1>3, <2>1, <2>2, IdleJob
  <2>3. CASE Carries(t) /\ task'[t].fx = task[t].fx
    BY <1>3, <2>1, <2>3, IdleIs, TailJob DEF TailSteps, Outcomes
  <2> QED
    BY <2>1, <2>2, <2>3
<1>4. CASE ReadSettlement(t)
  <2>0. UNCHANGED <<script, feed, now, market, positions, moneyVars, feedRows, cache>>
    BY <1>4 DEF ReadSettlement, worldVars
  <2>1. CASE applied \/ settlement = NoOutcome
    <3>1. AfterApply(t)
      BY <1>4, <2>1 DEF ReadSettlement
    <3> QED
      BY <1>3, <2>0, <3>1, JobOnly
  <2>2. CASE ~(applied \/ settlement = NoOutcome)
    <3> DEFINE new == settlementCredits(positions, settlement)
    <3>1. /\ Only(t) /\ Carries(t) /\ IsJob(task'[t]) /\ task'[t].at = "refund"
          /\ task'[t].outcome = task[t].outcome /\ task'[t].fx = task[t].fx
          /\ task'[t].credits = new
      BY <1>4, <2>2, ReadSettlementJob
    <3>2. positions \in PositionRows
      BY DEF Types, RowsOK
    <3>3. IsCredits(new) /\ \A c \in new.refunds \cup new.payouts : c.pos \in Positions /\ c.amount \in Nat
      BY <3>2, CreditsAre, CreditsOK DEF IsCredits
    <3> HIDE DEF new
    <3>4. TasksOK'
      BY <1>a, <2>0, <3>1, <3>3, TailJob DEF TailSteps
    <3> QED
      BY <2>0, <3>4, JobOnly
  <2> QED
    BY <2>1, <2>2
<1>5. ASSUME NEW kind \in {"refund", "payout"}, NEW c \in list.refunds \cup list.payouts,
             postWagerLedger(kind, c), Struck(t, kind, c), task[t].at \in {"refund", "pay"},
             UNCHANGED <<script, feed, now, market, positions, settlement, applied, feedRows, cache>>
      PROVE  Shaped'
  <2>1. ledger' \in [{"refund", "payout"} -> [Positions -> Nat]]
    BY <1>a, <1>5, PostOK
  <2>2. RowsOK'
    BY <1>5, <2>1 DEF Types, RowsOK
  <2>3. TasksOK'
    BY <1>a, <1>5, TailJob DEF Struck, TailSteps
  <2> QED
    BY <1>5, <2>2, <2>3, SameTypes DEF Shaped, feedRows
<1>6. CASE Refund(t)
  <2>1. PICK c \in list.refunds : postWagerLedger("refund", c) /\ Struck(t, "refund", c)
    BY <1>6, RefundJob
  <2>2. UNCHANGED <<script, feed, now, market, positions, settlement, applied, feedRows, cache>>
        /\ task[t].at \in {"refund", "pay"}
    BY <1>6 DEF Refund, At, envVars, worldVars
  <2> QED
    BY <1>5, <2>1, <2>2
<1>7. CASE Pay(t)
  <2>1. PICK c \in list.payouts : postWagerLedger("payout", c) /\ Struck(t, "payout", c)
    BY <1>7, PayJob
  <2>2. UNCHANGED <<script, feed, now, market, positions, settlement, applied, feedRows, cache>>
        /\ task[t].at \in {"refund", "pay"}
    BY <1>7 DEF Pay, At, envVars, worldVars
  <2> QED
    BY <1>5, <2>1, <2>2
<1>8. CASE VoidPending(t)
  <2>0. UNCHANGED <<script, feed, now, market, settlement, applied, ledger, stored, fixture, cursor, cache>>
        /\ Go(t, "pay") /\ positions' = Mark(positions, list.voidedPending, "void") /\ task[t].at = "refund"
    BY <1>8 DEF VoidPending, setPositionStates, At, envVars, worldVars, moneyVars, feedRows
  <2>1. positions' \in PositionRows
    BY <2>0, MarkOK DEF Types, RowsOK
  <2>2. RowsOK'
    BY <2>0, <2>1 DEF Types, RowsOK
  <2>3. /\ Only(t) /\ Carries(t) /\ IsJob(task'[t]) /\ task'[t].at = "pay"
        /\ task'[t].fx = task[t].fx /\ task'[t].outcome = task[t].outcome
        /\ task'[t].credits = list
    BY <2>0, GoJob
  <2>4. TasksOK'
    BY <1>a, <2>0, <2>3, TailJob DEF TailSteps
  <2> QED
    BY <2>0, <2>2, <2>4, SameTypes DEF Shaped
<1>9. CASE MarkApplied(t)
  <2>0. UNCHANGED <<script, feed, now, market, positions, settlement, ledger, stored, fixture, cursor, cache>>
        /\ applied' = TRUE /\ AfterApply(t)
    BY <1>9 DEF MarkApplied, worldVars, feedRows
  <2>1. RowsOK'
    BY <2>0 DEF Types, RowsOK
  <2> QED
    BY <1>3, <2>0, <2>1, SameTypes DEF Shaped
<1> QED
  BY <1>1, <1>2, <1>4, <1>6, <1>7, <1>8, <1>9 DEF CloseAndPay

LEMMA SweepTypes ==
    ASSUME Types, NEW t \in Sweepers, Sweep(t)
    PROVE  Shaped'
<1>0. UNCHANGED <<script, feed, now, market, positions, moneyVars, feedRows, cache>>
      /\ t \in Tasks /\ Go(t, "read") /\ task[t].at = "idle"
  BY DEF Sweep, Ready, At, envVars, worldVars, Tasks
<1>1. JobOK(task[t])
  BY <1>0 DEF Types, TasksOK
<1>2. /\ Only(t) /\ Carries(t) /\ IsJob(task'[t]) /\ task'[t].at = "read"
      /\ task'[t].fx = task[t].fx /\ task'[t].outcome = task[t].outcome
      /\ task'[t].credits = task[t].credits
  BY <1>0, GoJob
<1>3. task'[t].credits = NoCredits /\ task'[t].outcome \in Outcomes
  BY <1>0, <1>1, <1>2 DEF JobOK
<1>4. TasksOK'
  BY <1>0, <1>2, <1>3, IdleIs, TailJob DEF TailSteps
<1> QED
  BY <1>0, <1>4, JobOnly

LEMMA FaultTypes ==
    ASSUME Types, Crash \/ \E t \in Tasks : Fail(t)
    PROVE  Shaped'
<1>1. CASE Crash
  <2>0. UNCHANGED <<script, feed, now, market, positions, settlement, applied, ledger, stored, fixture, cursor>>
        /\ cache' = NoState /\ task' = [t \in Tasks |-> Idle]
    BY <1>1 DEF Crash, moneyVars, feedRows
  <2>1. Len(feed) \in Nat
    BY DEF Types, FeedOK
  <2>2. ASSUME NEW t \in Tasks PROVE (JobOK(task[t]) /\ EventOK(t, task[t]))'
    <3>1. task'[t] = Idle /\ feed' = feed
      BY <2>0
    <3>2. JobOK(Idle) /\ EventOK(t, Idle)
      BY <2>1, IdleIs DEF EventOK
    <3> QED
      BY <3>1, <3>2 DEF EventOK
  <2>3. task' = [t \in Tasks |-> task'[t]]
    BY <2>0
  <2>4. TasksOK'
    BY <2>2, <2>3 DEF TasksOK
  <2> QED
    BY <2>0, <2>4, SameTypes DEF Shaped, Kept
<1>2. ASSUME NEW t \in Tasks, Fail(t) PROVE Shaped'
  <2>0. UNCHANGED <<script, feed, now, market, positions, settlement, applied, ledger, stored, fixture, cache>>
        /\ Return(t)
    BY <1>2 DEF Fail, moneyVars
  <2> QED
    BY <2>0, ReturnTypes, SameTypes DEF Shaped
<1> QED
  BY <1>1, <1>2

LEMMA WorldTypes ==
    ASSUME Types, PublishNext \/ PassTime \/ Refresh \/ \E p \in Positions : Place(p)
    PROVE  Shaped'
<1>1. CASE PublishNext
  BY <1>1, PublishTypes, SameTypes DEF Shaped, PublishNext, moneyVars
<1>4. CASE Refresh
  BY <1>4, SameTypes DEF Shaped, Refresh, moneyVars, feedRows
<1>2. CASE PassTime
  <2>1. FeedOK'
    BY <1>2 DEF PassTime, Types, FeedOK
  <2> QED
    BY <1>2, <2>1, SameTypes DEF Shaped, PassTime, moneyVars, feedRows
<1>3. ASSUME NEW p \in Positions, Place(p) PROVE Shaped'
  BY <1>3, PlaceTypes, SameTypes DEF Shaped, Place, envVars, worldVars, feedRows
<1> QED
  BY <1>1, <1>2, <1>3, <1>4

\* The steps of the engine: where one starts the cases of a proof.
LEMMA StepCases ==
    ASSUME EngineStep
    PROVE  \/ PublishNext \/ PassTime \/ Refresh \/ \E p \in Positions : Place(p)
           \/ Receive \/ UpdateFixture \/ Reduce
           \/ \E t \in Ticks : Capture(t) \/ Check(t)
           \/ \E t \in SettlerTasks : ApplyEffects(t) \/ Keep(t)
           \/ StoreSnapshot \/ Reconcile \/ ReplayEvent \/ ReplayDebounce \/ PersistFixture
           \/ \E t \in Voiders : VoidAbandoned(t)
           \/ \E t \in Sweepers : Sweep(t)
           \/ \E t \in Tasks : CloseAndPay(t)
           \/ \E t \in Tasks : Fail(t)
           \/ Crash
  BY DEF EngineStep, StreamTask, TickTask, ReconcilerTask, VoiderTask, SweeperTask, SettlerTasks, Tasks

LEMMA NextTypes ==
    ASSUME Types, EngineStep
    PROVE  Shaped'
<1>1. CASE PublishNext \/ PassTime \/ Refresh \/ \E p \in Positions : Place(p)
  BY <1>1, WorldTypes
<1>2. CASE Receive \/ UpdateFixture \/ Reduce \/ \E t \in Ticks : Capture(t) \/ Check(t)
  BY <1>2, ReceiveTypes, UpdateFixtureTypes, ReduceTypes, CaptureTypes, CheckTypes
<1>3. ASSUME NEW t \in SettlerTasks, ApplyEffects(t) \/ Keep(t) PROVE Shaped'
  <2>1. t \in Tasks
    BY DEF SettlerTasks, Tasks
  <2> QED
    BY <1>3, <2>1, ApplyEffectsTypes, KeepTypes
<1>4. CASE StoreSnapshot \/ Reconcile \/ ReplayEvent \/ ReplayDebounce \/ PersistFixture
  BY <1>4, StoreSnapshotTypes, ReconcileTypes, ReplayEventTypes, ReplayDebounceTypes, PersistFixtureTypes
<1>5. CASE (\E t \in Voiders : VoidAbandoned(t)) \/ \E t \in Sweepers : Sweep(t)
  BY <1>5, VoidAbandonedTypes, SweepTypes
<1>6. ASSUME NEW t \in Tasks, CloseAndPay(t) PROVE Shaped'
  BY <1>6, TailTypes
<1>7. CASE Crash \/ \E t \in Tasks : Fail(t)
  BY <1>7, FaultTypes
<1> QED
  BY <1>1, <1>2, <1>3, <1>4, <1>5, <1>6, <1>7, StepCases

-----------------------------------------------------------------------------
(* What a step may do to the jobs, the rows and the ledger. *)

\* The taps a job takes for waiting ones.
Waiting(j) ==
    Pending(j.state.positions) \cup j.fx.voids \cup j.fx.activates \cup j.credits.voidedPending

\* A job is handed no taps but those that wait in the rows or in the cache, and
\* no credits but the ones due.
Hands(old, new) ==
    /\ Waiting(new) \subseteq Waiting(old) \cup Pending(positions) \cup Pending(cache.positions)
    /\ \/ /\ new.credits = Due /\ new.at = "refund" /\ old.at = "read"
          /\ settlement # NoOutcome /\ ~applied
       \/ /\ new.credits.refunds \subseteq old.credits.refunds
          /\ new.credits.payouts \subseteq old.credits.payouts
          /\ new.credits.voidedPending \subseteq old.credits.voidedPending
          /\ new.at \in {"refund", "pay"} => old.at \in {"refund", "pay"}

\* A job that keeps or drops what it has.
LEMMA Fewer ==
    ASSUME NEW old, NEW new,
           new.state = old.state \/ new.state = NoState,
           new.fx = old.fx \/ new.fx = NoEffects,
           new.credits = old.credits \/ new.credits = NoCredits,
           new.at \in {"refund", "pay"} => old.at \in {"refund", "pay"}
    PROVE  Hands(old, new)
<1>1. Pending(new.state.positions) \subseteq Pending(old.state.positions)
  BY IdleIs
<1>2. new.fx.voids \subseteq old.fx.voids /\ new.fx.activates \subseteq old.fx.activates
  BY IdleIs
<1>3. /\ new.credits.refunds \subseteq old.credits.refunds
      /\ new.credits.payouts \subseteq old.credits.payouts
      /\ new.credits.voidedPending \subseteq old.credits.voidedPending
  BY IdleIs
<1> QED
  BY <1>1, <1>2, <1>3 DEF Hands, Waiting

\* A job that starts on a reduction.
LEMMA Anew ==
    ASSUME NEW old, NEW new, new.credits = NoCredits, new.at \notin {"refund", "pay"},
           Pending(new.state.positions) \cup new.fx.voids \cup new.fx.activates
             \subseteq Pending(old.state.positions) \cup Pending(positions) \cup Pending(cache.positions)
    PROVE  Hands(old, new)
<1>1. new.credits.refunds = {} /\ new.credits.payouts = {} /\ new.credits.voidedPending = {}
  BY IdleIs
<1> QED
  BY <1>1 DEF Hands, Waiting

LEMMA PersistHands ==
    ASSUME Types, NEW t \in Tasks, task[t].at \in {"reduce", "check"}, NEW b, NEW seq, NEW result,
           From(b, seq, result.state, result.effects), Persist(t, result),
           Pending(b.positions) \subseteq Pending(task[t].state.positions) \cup Pending(positions)
    PROVE  Only(t) /\ Hands(task[t], task'[t])
<1>1. /\ Only(t) /\ task'[t].at = "effects" /\ task'[t].fx = result.effects
      /\ task'[t].state = NoState \/ task'[t].state = result.state
      /\ task'[t].credits = task[t].credits
  BY PersistJob
<1>2. task[t].credits = NoCredits
  BY DEF Types, TasksOK, JobOK
<1>3. /\ Pending(result.state.positions) \subseteq Pending(b.positions)
      /\ result.effects.voids \subseteq Pending(b.positions)
      /\ result.effects.activates \subseteq Pending(b.positions)
  BY DEF From, StateFrom, EffectsFrom
<1>4. Pending(task'[t].state.positions) \cup task'[t].fx.voids \cup task'[t].fx.activates
        \subseteq Pending(task[t].state.positions) \cup Pending(positions) \cup Pending(cache.positions)
  BY <1>1, <1>3, IdleIs
<1> QED
  BY <1>1, <1>2, <1>4, Anew

\* The steps of the tail hand on what the task has, or take what is due.
LEMMA TailHands ==
    ASSUME Types, NEW t \in Tasks, CloseAndPay(t)
    PROVE  Only(t) /\ Hands(task[t], task'[t])
<1>1. CASE MarkTerminal(t)
  BY <1>1, GoJob, Fewer DEF MarkTerminal, Carries
<1>2. CASE InsertSettlement(t)
  BY <1>2, InsertSettlementJob, Fewer DEF Carries
<1>3. ASSUME AfterApply(t) PROVE Only(t) /\ Hands(task[t], task'[t])
  BY <1>3, AfterApplyJob, IdleIs, Fewer DEF Carries
<1>4. CASE ReadSettlement(t)
  <2>1. CASE applied \/ settlement = NoOutcome
    BY <1>3, <1>4, <2>1 DEF ReadSettlement
  <2>2. CASE ~(applied \/ settlement = NoOutcome)
    <3>1. /\ Only(t) /\ Carries(t) /\ task'[t].at = "refund"
          /\ task'[t].fx = task[t].fx /\ task'[t].credits = Due
      BY <1>4, <2>2, ReadSettlementJob DEF Due
    <3>2. Due.voidedPending \subseteq Pending(positions)
      BY CreditsAre DEF Due, Placed, Pending
    <3>3. task[t].at = "read"
      BY <1>4 DEF ReadSettlement, At
    <3> QED
      BY <2>2, <3>1, <3>2, <3>3 DEF Hands, Waiting, Carries
  <2> QED
    BY <2>1, <2>2
<1>5. ASSUME NEW kind, NEW c, Struck(t, kind, c) PROVE Only(t) /\ Hands(task[t], task'[t])
  BY <1>5 DEF Struck, Hands, Waiting, Carries
<1>6. CASE Refund(t)
  BY <1>5, <1>6, RefundJob
<1>7. CASE Pay(t)
  BY <1>5, <1>7, PayJob
<1>8. CASE VoidPending(t)
  BY <1>8, GoJob, Fewer DEF VoidPending, Carries, At
<1>9. CASE MarkApplied(t)
  BY <1>3, <1>9 DEF MarkApplied
<1> QED
  BY <1>1, <1>2, <1>4, <1>6, <1>7, <1>8, <1>9 DEF CloseAndPay

LEMMA StepHands ==
    ASSUME Types, EngineStep
    PROVE  \A t \in Tasks : Hands(task[t], task'[t])
<1>0. /\ "stream" \in Tasks /\ "reconciler" \in Tasks /\ SettlerTasks \subseteq Tasks
      /\ Ticks \subseteq Tasks /\ Voiders \subseteq Tasks /\ Sweepers \subseteq Tasks
  BY DEF Tasks, SettlerTasks
<1>a. ASSUME task' = task PROVE \A t \in Tasks : Hands(task[t], task'[t])
  BY <1>a, Fewer
<1>b. ASSUME NEW t \in Tasks, Only(t), Hands(task[t], task'[t])
      PROVE  \A u \in Tasks : Hands(task[u], task'[u])
  BY <1>b, Fewer DEF Only
<1>c. ASSUME NEW t \in Tasks, Only(t), task'[t] = Idle
      PROVE  \A u \in Tasks : Hands(task[u], task'[u])
  BY <1>b, <1>c, Fewer, IdleIs
<1>1. CASE PublishNext \/ PassTime \/ Refresh \/ (\E p \in Positions : Place(p)) \/ StoreSnapshot
  BY <1>1, <1>a DEF PublishNext, PassTime, Refresh, Place, StoreSnapshot
<1>2. CASE Receive
  BY <1>0, <1>2, <1>a, <1>b, ReceiveJob, Fewer DEF Starts
<1>3. CASE UpdateFixture
  BY <1>0, <1>3, <1>b, GoJob, Fewer DEF UpdateFixture, Carries
<1>4. CASE Reduce
  <2> DEFINE ev == Event(task["stream"].event)
             result == reduceMarket(Claim, hydrate, ev)
  <2>1. CASE market \in Terminal
    BY <1>0, <1>4, <1>c, <2>1, EndJob DEF Reduce, Return
  <2>2. CASE market \notin Terminal
    <3>1. Persist("stream", result) /\ task["stream"].at = "reduce"
      BY <1>4, <2>2 DEF Reduce, At
    <3>2. StateOK(hydrate) /\ hydrate.positions = positions
      BY <2>2, FreshOK
    <3>3. From(hydrate, ev.seq, result.state, result.effects)
      BY <3>2, ReducerOK
    <3> HIDE DEF result, ev
    <3>4. Only("stream") /\ Hands(task["stream"], task'["stream"])
      BY <1>0, <3>1, <3>2, <3>3, PersistHands
    <3> QED
      BY <1>0, <1>b, <3>4
  <2> QED
    BY <2>1, <2>2
<1>5. ASSUME NEW t \in Ticks, Capture(t)
      PROVE  \A u \in Tasks : Hands(task[u], task'[u])
  <2>1. Starts(t, "check") /\ task'[t].state = cache
    BY <1>5, CaptureJob
  <2>2. Hands(task[t], task'[t])
    BY <2>1, IdleIs, Anew DEF Starts
  <2> QED
    BY <1>0, <1>b, <2>1, <2>2 DEF Starts
<1>6. ASSUME NEW t \in Ticks, Check(t)
      PROVE  \A u \in Tasks : Hands(task[u], task'[u])
  <2> DEFINE st == task[t].state
             result == checkDebounce(st, task[t].nowMs)
  <2>1. CASE market \in Terminal
    BY <1>0, <1>6, <1>c, <2>1, EndJob DEF Check
  <2>2. CASE market \notin Terminal
    <3>1. Persist(t, result) /\ task[t].at = "check"
      BY <1>6, <2>2 DEF Check, At
    <3>2. StateOK(st)
      BY <1>0, <3>1, IdleIs, RunningIs DEF Types, TasksOK, JobOK, Kept, Running
    <3>3. From(st, 0, result.state, result.effects)
      BY <3>2, DebounceOK
    <3> HIDE DEF result
    <3>4. Only(t) /\ Hands(task[t], task'[t])
      BY <1>0, <3>1, <3>2, <3>3, PersistHands
    <3> QED
      BY <1>0, <1>b, <3>4
  <2> QED
    BY <2>1, <2>2
<1>7. ASSUME NEW t \in SettlerTasks, ApplyEffects(t) \/ Keep(t)
      PROVE  \A u \in Tasks : Hands(task[u], task'[u])
  <2>0. t \in Tasks
    BY <1>0
  <2>1. CASE ApplyEffects(t)
    BY <1>b, <2>0, <2>1, ApplyEffectsJob, Fewer DEF Carries
  <2>2. CASE Keep(t)
    BY <1>c, <2>0, <2>2, EndJob DEF Keep, Return
  <2> QED
    BY <1>7, <2>1, <2>2
<1>8. CASE Reconcile
  <2>1. Starts("reconciler", "replay") /\ task'["reconciler"].state = fresh
    BY <1>8, ReconcileJob
  <2>2. fresh.positions = positions
    BY DEF fresh
  <2>3. Hands(task["reconciler"], task'["reconciler"])
    BY <2>1, <2>2, IdleIs, Anew DEF Starts
  <2> QED
    BY <1>0, <1>b, <2>1, <2>3 DEF Starts
<1>9. CASE ReplayEvent
  <2> DEFINE t == "reconciler"
             job == task[t]
             ev == Event(job.event)
             result == reduceMarket(Claim, job.state, ev)
             fx == result.effects
             new == task'[t]
  <2>1. /\ Only(t)
        /\ fx.terminal # NoTerminal => new = Verdict(job.event, fx.terminal.outcome)
        /\ fx.terminal = NoTerminal =>
             /\ new.at = "replay" /\ new.state = result.state /\ new.fx = job.fx
             /\ new.credits = job.credits
    BY <1>9, ReplayEventJob
  <2>2. StateOK(job.state)
    BY <1>0, <1>9, IdleIs, RunningIs DEF Types, TasksOK, JobOK, Kept, Running, ReplayEvent, At
  <2>3. From(job.state, ev.seq, result.state, fx)
    BY <2>2, ReducerOK
  <2>4. Pending(result.state.positions) \subseteq Pending(job.state.positions)
    BY <2>3 DEF From, StateFrom
  <2> HIDE DEF result, ev
  <2>5. Hands(job, new)
    <3>1. CASE fx.terminal # NoTerminal
      BY <2>1, <3>1, VerdictIs, Fewer
    <3>2. CASE fx.terminal = NoTerminal
      BY <2>1, <2>4, <3>2 DEF Hands, Waiting
    <3> QED
      BY <3>1, <3>2
  <2> QED
    BY <1>0, <1>b, <2>1, <2>5
<1>10. CASE ReplayDebounce
  BY <1>0, <1>10, <1>b, <1>c, ReplayDebounceJob, VerdictIs, Fewer
<1>11. CASE PersistFixture
  BY <1>0, <1>11, <1>b, PersistFixtureJob, Fewer
<1>12. ASSUME NEW t \in Voiders, VoidAbandoned(t)
       PROVE  \A u \in Tasks : Hands(task[u], task'[u])
  BY <1>0, <1>12, <1>b, VoidAbandonedJob, Fewer DEF Starts
<1>13. ASSUME NEW t \in Sweepers, Sweep(t)
       PROVE  \A u \in Tasks : Hands(task[u], task'[u])
  BY <1>0, <1>13, <1>b, GoJob, Fewer DEF Sweep, Carries
<1>14. ASSUME NEW t \in Tasks, CloseAndPay(t)
       PROVE  \A u \in Tasks : Hands(task[u], task'[u])
  BY <1>14, <1>b, TailHands
<1>15. ASSUME NEW t \in Tasks, Fail(t)
       PROVE  \A u \in Tasks : Hands(task[u], task'[u])
  BY <1>15, <1>c, EndJob DEF Fail, Return
<1>16. CASE Crash
  BY <1>16, Fewer, IdleIs DEF Crash
<1> QED
  BY <1>1, <1>2, <1>3, <1>4, <1>5, <1>6, <1>7, <1>8, <1>9, <1>10, <1>11, <1>12, <1>13, <1>14, <1>15,
     <1>16, StepCases

\* Who writes which row.
LEMMA StepRows ==
    ASSUME EngineStep
    PROVE  /\ \/ positions' = positions
              \/ \E p \in Positions : Place(p)
              \/ \E t \in SettlerTasks : ApplyEffects(t)
              \/ \E t \in Tasks : VoidPending(t)
           /\ \/ market' = market
              \/ \E t \in SettlerTasks : ApplyEffects(t)
              \/ \E t \in Tasks : MarkTerminal(t)
           /\ settlement' = settlement \/ \E t \in Tasks : InsertSettlement(t)
           /\ ledger' = ledger \/ \E t \in Tasks : Refund(t) \/ Pay(t)
           /\ applied' = applied \/ \E t \in Tasks : MarkApplied(t)
           /\ fixture' = fixture \/ UpdateFixture \/ StoreSnapshot \/ PersistFixture
           /\ \/ cache' = cache \/ cache' = NoState
              \/ Reduce /\ market \notin Terminal /\ cache' = hydrate
              \/ \E t \in SettlerTasks : Keep(t)
<1>1. CASE PublishNext \/ PassTime \/ Refresh \/ Receive
  BY <1>1 DEF PublishNext, PassTime, Refresh, Receive, moneyVars, feedRows
<1>2. ASSUME NEW p \in Positions, Place(p)
      PROVE  UNCHANGED <<market, settlement, ledger, applied, fixture, cache>>
  BY <1>2 DEF Place, moneyVars, feedRows
<1>3. CASE UpdateFixture \/ StoreSnapshot \/ PersistFixture
  <2>1. UNCHANGED <<positions, market, settlement, ledger, applied, cache>>
    BY <1>3 DEF UpdateFixture, StoreSnapshot, PersistFixture, moneyVars
  <2> QED
    BY <1>3, <2>1
<1>4. CASE Reduce
  BY <1>4 DEF Reduce, moneyVars
<1>5. CASE Reconcile \/ ReplayDebounce
  BY <1>5 DEF Reconcile, ReplayDebounce, moneyVars, feedRows
<1>21. ASSUME NEW t, Capture(t) \/ VoidAbandoned(t) \/ Sweep(t)
       PROVE  UNCHANGED <<positions, market, settlement, ledger, applied, fixture, cache>>
  BY <1>21 DEF Capture, VoidAbandoned, Sweep, moneyVars, feedRows
<1>22. CASE \/ \E t \in Ticks : Capture(t)
            \/ \E t \in Voiders : VoidAbandoned(t)
            \/ \E t \in Sweepers : Sweep(t)
  BY <1>21, <1>22, Zenon
<1>6. CASE (\E t \in Ticks : Check(t)) \/ Crash
  <2>1. UNCHANGED <<positions, market, settlement, ledger, applied, fixture>>
    BY <1>6 DEF Check, Crash, moneyVars, feedRows
  <2>2. cache' = cache \/ cache' = NoState
    BY <1>6 DEF Check, Crash
  <2> QED
    BY <2>1, <2>2
<1>7. ASSUME NEW t \in SettlerTasks, ApplyEffects(t)
      PROVE  UNCHANGED <<settlement, ledger, applied, fixture, cache>>
  BY <1>7 DEF ApplyEffects, moneyVars, feedRows
<1>8. ASSUME NEW t \in SettlerTasks, Keep(t)
      PROVE  UNCHANGED <<positions, market, settlement, ledger, applied, fixture>>
  BY <1>8 DEF Keep, moneyVars
<1>9. CASE ReplayEvent
  BY <1>9 DEF ReplayEvent, moneyVars
<1>10. ASSUME NEW t \in Tasks, Fail(t)
       PROVE  UNCHANGED <<positions, market, settlement, ledger, applied, fixture, cache>>
  BY <1>10 DEF Fail, moneyVars
<1>11. ASSUME NEW t \in Tasks, MarkTerminal(t)
       PROVE  UNCHANGED <<positions, settlement, ledger, applied, fixture, cache>>
  BY <1>11 DEF MarkTerminal, moneyVars, feedRows
<1>12. ASSUME NEW t \in Tasks, InsertSettlement(t)
       PROVE  UNCHANGED <<positions, market, ledger, applied, fixture, cache>>
  BY <1>12 DEF InsertSettlement, feedRows
<1>13. ASSUME NEW t \in Tasks, ReadSettlement(t)
       PROVE  UNCHANGED <<positions, market, settlement, ledger, applied, fixture, cache>>
  BY <1>13 DEF ReadSettlement, moneyVars, feedRows
<1>14. ASSUME NEW t \in Tasks, Refund(t) \/ Pay(t)
       PROVE  UNCHANGED <<positions, market, settlement, applied, fixture, cache>>
  BY <1>14 DEF Refund, Pay, feedRows
<1>15. ASSUME NEW t \in Tasks, VoidPending(t)
       PROVE  UNCHANGED <<market, settlement, ledger, applied, fixture, cache>>
  BY <1>15 DEF VoidPending, moneyVars, feedRows
<1>16. ASSUME NEW t \in Tasks, MarkApplied(t)
       PROVE  UNCHANGED <<positions, market, settlement, ledger, fixture, cache>>
  BY <1>16 DEF MarkApplied, feedRows
<1>17. CASE \E t \in Tasks : CloseAndPay(t)
  BY <1>11, <1>12, <1>13, <1>14, <1>15, <1>16, <1>17, Zenon DEF CloseAndPay
<1>18. CASE \E p \in Positions : Place(p)
  BY <1>2, <1>18, Zenon
<1>19. CASE \E t \in SettlerTasks : ApplyEffects(t) \/ Keep(t)
  BY <1>7, <1>8, <1>19, Zenon
<1>20. CASE \E t \in Tasks : Fail(t)
  BY <1>10, <1>20, Zenon
<1> QED
  BY <1>1, <1>3, <1>4, <1>5, <1>6, <1>9, <1>17, <1>18, <1>19, <1>20, <1>22, StepCases

-----------------------------------------------------------------------------
(* Before kickoff nothing is decided. *)

LEMMA TailAt ==
    ASSUME NEW t \in Tasks, CloseAndPay(t)
    PROVE  task[t].at \in {"status", "settlement", "read", "refund", "pay"}
  BY DEF CloseAndPay, MarkTerminal, InsertSettlement, ReadSettlement, Refund, VoidPending, Pay,
         MarkApplied, At

LEMMA NextKickedOff ==
    ASSUME Types, EngineStep, KickedOff
    PROVE  KickedOff'
<1>0. /\ "stream" \in Tasks /\ "reconciler" \in Tasks /\ Intervals \subseteq Tasks
      /\ SettlerTasks \subseteq Tasks /\ Ticks \subseteq Tasks
      /\ \A t \in Tasks : t \in Intervals \/ t = "stream" \/ t = "reconciler"
      /\ \A t \in Intervals : t # "stream" /\ t # "reconciler"
  BY TaskKinds
<1> SUFFICES ASSUME fixture'.phase = "NS"
             PROVE  /\ settlement' = NoOutcome /\ cache' = NoState
                    /\ task'["stream"].at \in {"idle", "fixture"}
                    /\ task'["reconciler"].at \in {"idle", "replay", "fixture"}
                    /\ \A t \in Intervals : task'[t].at = "idle"
  BY DEF KickedOff
<1>1. ~UpdateFixture /\ ~StoreSnapshot /\ ~PersistFixture
  BY UpdateFixtureTypes, StoreSnapshotTypes, PersistFixtureTypes
<1>2. fixture.phase = "NS"
  BY <1>1, StepRows
<1>3. /\ settlement = NoOutcome /\ cache = NoState
      /\ task["stream"].at \in {"idle", "fixture"}
      /\ task["reconciler"].at \in {"idle", "replay", "fixture"}
      /\ \A t \in Intervals : task[t].at = "idle"
  BY <1>2 DEF KickedOff
<1>4. \A t \in Tasks : task[t].at \in {"idle", "fixture", "replay"}
  BY <1>0, <1>3
<1>5. /\ \A t \in Tasks : ~CloseAndPay(t)
      /\ \A t \in SettlerTasks : ~ApplyEffects(t) /\ ~Keep(t)
      /\ ~Reduce /\ \A t \in Ticks : ~Capture(t) /\ ~Check(t)
      /\ \A t \in Voiders : ~VoidAbandoned(t)
      /\ \A t \in Sweepers : ~Sweep(t)
  <2>1. \A t \in Tasks : ~CloseAndPay(t)
    BY <1>4, TailAt
  <2>2. \A t \in SettlerTasks : ~ApplyEffects(t) /\ ~Keep(t)
    BY <1>0, <1>4 DEF ApplyEffects, Keep, At
  <2>3. ~Reduce /\ \A t \in Ticks : ~Check(t)
    BY <1>0, <1>3, <1>4 DEF Reduce, Check, At
  <2>4. \A t \in Ticks : ~Capture(t)
    BY <1>3, IdleIs DEF Capture
  <2>5. (\A t \in Voiders : ~VoidAbandoned(t)) /\ \A t \in Sweepers : ~Sweep(t)
    BY <1>2, <1>3 DEF VoidAbandoned, Sweep
  <2> QED
    BY <2>1, <2>2, <2>3, <2>4, <2>5
<1>6. settlement' = settlement
  BY <1>5, StepRows DEF CloseAndPay
<1>7. cache' = NoState
  BY <1>3, <1>5, StepRows
<1>8. ASSUME NEW t \in Tasks, Only(t),
             task'[t].at = "idle" \/ (t = "stream" /\ task'[t].at = "fixture")
               \/ (t = "reconciler" /\ task'[t].at \in {"replay", "fixture"})
      PROVE  /\ task'["stream"].at \in {"idle", "fixture"}
             /\ task'["reconciler"].at \in {"idle", "replay", "fixture"}
             /\ \A u \in Intervals : task'[u].at = "idle"
  BY <1>0, <1>3, <1>8 DEF Only
<1> DEFINE Calmed == /\ task'["stream"].at \in {"idle", "fixture"}
                     /\ task'["reconciler"].at \in {"idle", "replay", "fixture"}
                     /\ \A u \in Intervals : task'[u].at = "idle"
<1>9. CASE PublishNext \/ PassTime \/ Refresh \/ \E p \in Positions : Place(p)
  <2>1. task' = task
    BY <1>9 DEF PublishNext, PassTime, Refresh, Place
  <2> QED
    BY <1>3, <1>6, <1>7, <2>1
<1>10. CASE Receive
  <2>1. task' = task \/ Starts("stream", "fixture")
    BY <1>10, ReceiveJob
  <2> QED
    BY <1>0, <1>3, <1>6, <1>7, <1>8, <2>1 DEF Starts
<1>11. CASE Reconcile \/ ReplayEvent \/ ReplayDebounce
  <2>1. Only("reconciler") /\ task'["reconciler"].at \in {"idle", "replay", "fixture"}
    <3>1. CASE Reconcile
      BY <3>1, ReconcileJob DEF Starts
    <3>2. CASE ReplayEvent
      BY <3>2, ReplayEventJob, VerdictIs
    <3>3. CASE ReplayDebounce
      BY <3>3, ReplayDebounceJob, VerdictIs, IdleIs
    <3> QED
      BY <1>11, <3>1, <3>2, <3>3
  <2> QED
    BY <1>0, <1>3, <1>6, <1>7, <1>8, <2>1
<1>12. ASSUME NEW t \in Tasks, Fail(t) PROVE Calmed
  <2>1. Only(t) /\ task'[t].at = "idle"
    BY <1>12, EndJob, IdleIs DEF Fail, Return
  <2> QED
    BY <1>8, <2>1
<1>13. CASE Crash
  <2>1. \A t \in Tasks : task'[t].at = "idle"
    BY <1>13, IdleIs DEF Crash
  <2> QED
    BY <1>0, <1>3, <1>6, <1>7, <2>1
<1> QED
  BY <1>1, <1>3, <1>5, <1>6, <1>7, <1>9, <1>10, <1>11, <1>12, <1>13, StepCases

-----------------------------------------------------------------------------
(* Only taps made in play wait, and only those are voided or activated. *)

\* A step leaves a tap as it was, makes it, or changes the state of one in play.
LEMMA StepPositions ==
    ASSUME Types, EngineStep, OnlyInPlayWaits
    PROVE  /\ InPlay \subseteq InPlay'
           /\ \A p \in Positions :
                \/ positions'[p] = positions[p]
                \/ Place(p) /\ positions[p] = NoPosition
                   /\ (positions'[p].state \in {"pending", "void"} => p \in InPlay')
                \/ p \in InPlay
           /\ \A p \in Positions :
                positions'[p].inPlay = positions[p].inPlay \/ Place(p)
<1>0. positions \in PositionRows /\ SettlerTasks \subseteq Tasks
  BY DEF Types, RowsOK, SettlerTasks, Tasks
<1>1. CASE positions' = positions
  BY <1>1 DEF InPlay
<1>2. ASSUME NEW q \in Positions, Place(q)
      PROVE  /\ \A p \in Positions : p # q => positions'[p] = positions[p]
             /\ positions[q] = NoPosition /\ ~positions[q].inPlay
             /\ positions'[q].state \in {"pending", "void"} => positions'[q].inPlay
  <2> DEFINE inPlay == fixture.phase # "NS"
             new == [state |-> IF inPlay THEN "pending" ELSE "active", placedAt |-> now, inPlay |-> inPlay]
  <2>1. positions' = [positions EXCEPT ![q] = new] /\ positions[q] = NoPosition
    BY <1>2 DEF Place
  <2>2. positions'[q] = new /\ \A p \in Positions : p # q => positions'[p] = positions[p]
    BY <1>0, <2>1 DEF PositionRows
  <2>3. new.state \in {"pending", "void"} => new.inPlay
    OBVIOUS
  <2>4. ~NoPosition.inPlay
    BY DEF NoPosition
  <2> QED
    BY <2>1, <2>2, <2>3, <2>4
<1>3. CASE \E q \in Positions : Place(q)
  BY <1>2, <1>3 DEF InPlay
<1>4. ASSUME NEW t \in SettlerTasks, ApplyEffects(t)
      PROVE  \A p \in Positions : /\ positions'[p].inPlay = positions[p].inPlay
                                  /\ positions'[p] = positions[p] \/ p \in InPlay
  <2>1. task[t].fx.voids \subseteq InPlay /\ task[t].fx.activates \subseteq InPlay
    BY <1>0 DEF OnlyInPlayWaits
  <2> QED
    BY <1>0, <1>4, <2>1, ApplyEffectsRows
<1>5. ASSUME NEW t \in Tasks, VoidPending(t)
      PROVE  \A p \in Positions : /\ positions'[p].inPlay = positions[p].inPlay
                                  /\ positions'[p] = positions[p] \/ p \in InPlay
  <2>1. positions' = Mark(positions, task[t].credits.voidedPending, "void")
    BY <1>5 DEF VoidPending, setPositionStates
  <2>2. task[t].credits.voidedPending \subseteq InPlay
    BY DEF OnlyInPlayWaits
  <2> QED
    BY <1>0, <2>1, <2>2, MarkOK
<1>6. CASE (\E t \in SettlerTasks : ApplyEffects(t)) \/ \E t \in Tasks : VoidPending(t)
  BY <1>4, <1>5, <1>6 DEF InPlay
<1> QED
  BY <1>1, <1>3, <1>6, StepRows

LEMMA NextOnlyInPlayWaits ==
    ASSUME Types, EngineStep, OnlyInPlayWaits
    PROVE  OnlyInPlayWaits'
<1>1. InPlay \subseteq InPlay'
  BY StepPositions
<1>2. Pending(positions) \subseteq InPlay /\ Pending(cache.positions) \subseteq InPlay
      /\ \A t \in Tasks : Pending(task[t].state.positions) \subseteq InPlay
                          /\ Waiting(task[t]) \subseteq InPlay
  BY DEF OnlyInPlayWaits, Types, RowsOK, PositionRows, Pending, Waiting
<1>3. \A p \in Positions : positions'[p].state \in {"pending", "void"} => p \in InPlay'
  BY <1>1, StepPositions DEF OnlyInPlayWaits
<1>4. Pending(cache'.positions) \subseteq InPlay
  <2>1. CASE cache' = cache \/ cache' = NoState
    BY <1>2, <2>1, IdleIs
  <2>2. CASE Reduce /\ market \notin Terminal /\ cache' = hydrate
    BY <1>2, <2>2, FreshOK
  <2>3. CASE \E t \in SettlerTasks : Keep(t)
    BY <1>2, <2>3 DEF Keep, SettlerTasks, Tasks
  <2> QED
    BY <2>1, <2>2, <2>3, StepRows
<1>5. \A t \in Tasks : Waiting(task'[t]) \subseteq InPlay
  BY <1>2, StepHands DEF Hands
<1>6. ASSUME NEW t \in Tasks
      PROVE  /\ Pending(task'[t].state.positions) \subseteq InPlay'
             /\ task'[t].fx.voids \subseteq InPlay' /\ task'[t].fx.activates \subseteq InPlay'
             /\ task'[t].credits.voidedPending \subseteq InPlay'
  BY <1>1, <1>5 DEF Waiting
<1>7. Pending(cache'.positions) \subseteq InPlay'
  BY <1>1, <1>4
<1> HIDE DEF InPlay
<1> QED
  BY <1>3, <1>6, <1>7 DEF OnlyInPlayWaits, Pending

-----------------------------------------------------------------------------
(* One outcome. *)

\* A payout that is due is one of the outcome.
LEMMA DueWins ==
    ASSUME Types, settlement # NoOutcome, NEW c \in Due.payouts
    PROVE  Wins(c.pos)
<1>1. positions \in PositionRows /\ settlement \in {"claim_won", "claim_lost", "void"}
  BY DEF Types, RowsOK, Outcomes
<1>2. c.pos \in Winners(positions, settlement)
  BY <1>1, CreditsOK DEF Due
<1>3. settlement # "void"
  BY <1>1, <1>2 DEF Winners, Playing, FullyRefunded
<1> QED
  BY <1>1, <1>2, <1>3 DEF Winners, Wins, Doubters

\* The first outcome written stays.
LEMMA SettlementStays ==
    ASSUME EngineStep, settlement # NoOutcome
    PROVE  settlement' = settlement
  BY StepRows DEF InsertSettlement, insertSettlement

LEMMA NextPaidOnTheOutcome ==
    ASSUME Types, EngineStep, PaidOnTheOutcome
    PROVE  PaidOnTheOutcome'
<1>1. settlement # NoOutcome => settlement' = settlement
  BY SettlementStays
<1>2. \A p \in Positions : Wins(p) => settlement # NoOutcome
  BY DEF Wins, NoOutcome
<1>3. \A p : Wins(p) => settlement' = settlement
  BY <1>1 DEF Wins, NoOutcome
<1>4. \A p : Wins(p) => Wins(p)'
  BY <1>3 DEF Wins
<1>5. ASSUME NEW t \in Tasks
      PROVE  /\ task'[t].at \in {"refund", "pay"} => settlement' # NoOutcome
             /\ \A c \in task'[t].credits.payouts : Wins(c.pos)'
  <2>1. Hands(task[t], task'[t])
    BY StepHands
  <2>2. CASE task'[t].credits = Due /\ task'[t].at = "refund" /\ settlement # NoOutcome
    BY <1>1, <1>4, <2>2, DueWins
  <2>3. CASE /\ task'[t].credits.payouts \subseteq task[t].credits.payouts
             /\ task'[t].at \in {"refund", "pay"} => task[t].at \in {"refund", "pay"}
    BY <1>1, <1>4, <2>3 DEF PaidOnTheOutcome
  <2> QED
    BY <2>1, <2>2, <2>3 DEF Hands
<1>6. ASSUME ledger' = ledger
      PROVE  /\ settlement' = NoOutcome => \A p \in Positions : ledger'["refund"][p] = 0
             /\ \A p \in Positions : ledger'["payout"][p] > 0 => Wins(p)'
  BY <1>1, <1>4, <1>6 DEF PaidOnTheOutcome
<1>7. ASSUME NEW t \in Tasks, Refund(t) \/ Pay(t)
      PROVE  /\ settlement' = NoOutcome => \A p \in Positions : ledger'["refund"][p] = 0
             /\ \A p \in Positions : ledger'["payout"][p] > 0 => Wins(p)'
  <2>1. settlement # NoOutcome /\ settlement' = settlement
    BY <1>1, <1>7 DEF Refund, Pay, At, PaidOnTheOutcome
  <2>a. \A c \in task[t].credits.refunds \cup task[t].credits.payouts : c.pos \in Positions /\ c.amount \in Nat
    BY DEF Types, TasksOK, JobOK
  <2>2. CASE Refund(t)
    <3>1. PICK c \in task[t].credits.refunds : postWagerLedger("refund", c)
      BY <2>2, RefundJob
    <3>2. \A p \in Positions : ledger'["payout"][p] = ledger["payout"][p]
      BY <2>a, <3>1, PostOK
    <3> QED
      BY <1>4, <2>1, <3>2 DEF PaidOnTheOutcome
  <2>3. CASE Pay(t)
    <3>1. PICK c \in task[t].credits.payouts : postWagerLedger("payout", c)
      BY <2>3, PayJob
    <3>2. \A p \in Positions : p = c.pos \/ ledger'["payout"][p] = ledger["payout"][p]
      BY <2>a, <3>1, PostOK
    <3>3. Wins(c.pos)
      BY <3>1 DEF PaidOnTheOutcome
    <3> QED
      BY <1>4, <2>1, <3>2, <3>3 DEF PaidOnTheOutcome
  <2> QED
    BY <1>7, <2>2, <2>3
<1>8. /\ settlement' = NoOutcome => \A p \in Positions : ledger'["refund"][p] = 0
      /\ \A p \in Positions : ledger'["payout"][p] > 0 => Wins(p)'
  BY <1>6, <1>7, StepRows
<1> HIDE DEF Wins
<1> QED
  BY <1>5, <1>8 DEF PaidOnTheOutcome

-----------------------------------------------------------------------------
(* Alone. *)

LEMMA BusyIs ==
    /\ Busy \subseteq Tasks /\ IsFiniteSet(Tasks) /\ IsFiniteSet(Busy)
    /\ \A t \in Tasks : t \in Busy <=> task[t].at # "idle"
<1>1. IsFiniteSet(Tasks)
  <2>1. IsFiniteSet({"stream"})
    BY FS_Singleton
  <2>2. IsFiniteSet({"stream"} \cup {"reconciler"})
    BY <2>1, FS_AddElement
  <2>3. {"stream"} \cup {"reconciler"} = {"stream", "reconciler"}
    OBVIOUS
  <2>4. IsFiniteSet({"stream", "reconciler"} \cup Ticks)
    BY <2>2, <2>3, TasksAssumption, FS_Union
  <2>5. IsFiniteSet({"stream", "reconciler"} \cup Ticks \cup Voiders)
    BY <2>4, TasksAssumption, FS_Union
  <2>6. IsFiniteSet({"stream", "reconciler"} \cup Ticks \cup Voiders \cup Sweepers)
    BY <2>5, TasksAssumption, FS_Union
  <2> QED
    BY <2>6 DEF Tasks
<1>2. Busy \subseteq Tasks /\ \A t \in Tasks : t \in Busy <=> task[t].at # "idle"
  BY DEF Busy, At
<1> QED
  BY <1>1, <1>2, FS_Subset

\* A set of at most one task has no two.
LEMMA AtMostOne ==
    ASSUME NEW S, IsFiniteSet(S), ~(Cardinality(S) > 1), NEW t \in S, NEW u \in S
    PROVE  t = u
<1> SUFFICES ASSUME t # u PROVE FALSE
  OBVIOUS
<1>1. /\ IsFiniteSet(S \ {t}) /\ Cardinality(S \ {t}) = Cardinality(S) - 1 /\ Cardinality(S) \in Nat
  BY FS_RemoveElement, FS_CardinalityType
<1>2. Cardinality(S \ {t}) # 0
  BY <1>1, FS_EmptySet
<1>3. Cardinality(S \ {t}) \in Nat
  BY <1>1, FS_CardinalityType
<1> QED
  BY <1>1, <1>2, <1>3

PayingSteps == {"settlement", "read", "refund", "pay"}

\* A task alone moves on: nobody else has anything in hand.
LEMMA AloneAfter ==
    ASSUME Types, Alone, ~overlapped, NEW t \in Tasks, Only(t), \A u, v \in Busy' : u = v,
           market' = market \/ task[t].at # "idle",
           task'[t].at = "effects" => market' \notin Terminal,
           task'[t].at \in PayingSteps => market' \in Terminal,
           settlement' # NoOutcome => market' \in Terminal
    PROVE  Alone'
<1>1. ASSUME NEW u \in Tasks
      PROVE  /\ task'[u].at = "effects" => market' \notin Terminal
             /\ task'[u].at \in PayingSteps => market' \in Terminal
  <2>1. CASE u = t
    BY <2>1
  <2>2. CASE u # t
    <3>1. task'[u] = task[u]
      BY <2>2 DEF Only
    <3>2. CASE market' = market
      BY <3>1, <3>2 DEF Alone, PayingSteps
    <3>3. CASE task[t].at # "idle"
      <4>1. task[u].at = "idle"
        BY <2>2, <3>3, BusyIs DEF Alone
      <4> QED
        BY <3>1, <4>1 DEF PayingSteps
    <3> QED
      BY <3>2, <3>3
  <2> QED
    BY <2>1, <2>2
<1> QED
  BY <1>1 DEF Alone, PayingSteps

LEMMA NextAlone ==
    ASSUME Types, EngineStep, Alone, overlapped' = (overlapped \/ Cardinality(Busy') > 1)
    PROVE  Alone' /\ (~overlapped' => (market \in Terminal => market' \in Terminal))
<1>0. /\ "stream" \in Tasks /\ "reconciler" \in Tasks /\ SettlerTasks \subseteq Tasks
      /\ Ticks \subseteq Tasks /\ Voiders \subseteq Tasks /\ Sweepers \subseteq Tasks
      /\ overlapped \in BOOLEAN
  BY DEF Tasks, SettlerTasks, Types
<1> SUFFICES ASSUME ~overlapped'
             PROVE  Alone' /\ (market \in Terminal => market' \in Terminal)
  BY DEF Alone
<1>1. ~overlapped /\ ~(Cardinality(Busy') > 1)
  BY <1>0
<1>2. \A u, v \in Busy' : u = v
  <2>1. Busy' \subseteq Tasks
    BY DEF Busy
  <2>2. IsFiniteSet(Busy')
    BY <2>1, BusyIs, FS_Subset
  <2> QED
    BY <1>1, <2>2, AtMostOne
<1>3. /\ \A t \in Tasks : /\ task[t].at = "effects" => market \notin Terminal
                          /\ task[t].at \in PayingSteps => market \in Terminal
      /\ settlement # NoOutcome => market \in Terminal
  BY <1>1 DEF Alone, PayingSteps
<1> DEFINE Fine == Alone' /\ (market \in Terminal => market' \in Terminal)
<1>4. ASSUME NEW t \in Tasks, Only(t), UNCHANGED <<market, settlement>>,
             task'[t].at = "effects" => market \notin Terminal,
             task'[t].at \in PayingSteps => market \in Terminal
      PROVE  Fine
  BY <1>1, <1>2, <1>3, <1>4, AloneAfter
<1>5. ASSUME task' = task, UNCHANGED <<market, settlement>> PROVE Fine
  BY <1>1, <1>2, <1>3, <1>5 DEF Alone, PayingSteps
<1>6. CASE PublishNext \/ PassTime \/ Refresh \/ (\E p \in Positions : Place(p)) \/ StoreSnapshot
  BY <1>5, <1>6 DEF PublishNext, PassTime, Refresh, Place, StoreSnapshot, moneyVars
<1>7. CASE Receive
  <2>1. UNCHANGED <<market, settlement>>
    BY <1>7 DEF Receive, moneyVars
  <2>2. task' = task \/ Starts("stream", "fixture")
    BY <1>7, ReceiveJob
  <2> QED
    BY <1>0, <1>4, <1>5, <2>1, <2>2 DEF Starts, PayingSteps
<1>8. CASE UpdateFixture
  <2>1. UNCHANGED <<market, settlement>> /\ Go("stream", "reduce")
    BY <1>8 DEF UpdateFixture, moneyVars
  <2> QED
    BY <1>0, <1>4, <2>1, GoJob DEF PayingSteps
<1>9. CASE Reduce
  <2>1. UNCHANGED <<market, settlement>>
    BY <1>9 DEF Reduce, moneyVars
  <2>2. CASE market \in Terminal
    <3>1. Only("stream") /\ task'["stream"].at = "idle"
      BY <1>0, <1>9, <2>2, EndJob, IdleIs DEF Reduce, Return
    <3> QED
      BY <1>0, <1>4, <2>1, <3>1 DEF PayingSteps
  <2>3. CASE market \notin Terminal
    <3>1. Only("stream") /\ task'["stream"].at = "effects"
      BY <1>0, <1>9, <2>3, PersistJob DEF Reduce
    <3> QED
      BY <1>0, <1>4, <2>1, <2>3, <3>1 DEF PayingSteps
  <2> QED
    BY <2>2, <2>3
<1>10. ASSUME NEW t \in Ticks, Capture(t) PROVE Fine
  <2>1. UNCHANGED <<market, settlement>>
    BY <1>10 DEF Capture, moneyVars
  <2> QED
    BY <1>0, <1>4, <1>10, <2>1, CaptureJob DEF Starts, PayingSteps
<1>11. ASSUME NEW t \in Ticks, Check(t) PROVE Fine
  <2>1. UNCHANGED <<market, settlement>>
    BY <1>11 DEF Check, moneyVars
  <2>2. CASE market \in Terminal
    <3>1. Only(t) /\ task'[t].at = "idle"
      BY <1>0, <1>11, <2>2, EndJob, IdleIs DEF Check
    <3> QED
      BY <1>0, <1>4, <2>1, <3>1 DEF PayingSteps
  <2>3. CASE market \notin Terminal
    <3>1. Only(t) /\ task'[t].at = "effects"
      BY <1>0, <1>11, <2>3, PersistJob DEF Check
    <3> QED
      BY <1>0, <1>4, <2>1, <2>3, <3>1 DEF PayingSteps
  <2> QED
    BY <2>2, <2>3
<1>12. ASSUME NEW t \in SettlerTasks, ApplyEffects(t) PROVE Fine
  <2>1. t \in Tasks /\ task[t].at = "effects" /\ settlement' = settlement
    BY <1>0, <1>12 DEF ApplyEffects, At, moneyVars
  <2>2. Only(t) /\ task'[t].at \in {"keep", "status"}
    BY <1>12, <2>1, ApplyEffectsJob
  <2>3. market \notin Terminal /\ settlement' = NoOutcome
    BY <1>3, <2>1
  <2> QED
    BY <1>1, <1>2, <2>1, <2>2, <2>3, AloneAfter DEF PayingSteps
<1>13. ASSUME NEW t \in SettlerTasks, Keep(t) PROVE Fine
  <2>1. t \in Tasks /\ UNCHANGED <<market, settlement>>
    BY <1>0, <1>13 DEF Keep, moneyVars
  <2>2. Only(t) /\ task'[t].at = "idle"
    BY <1>13, <2>1, EndJob, IdleIs DEF Keep, Return
  <2> QED
    BY <1>4, <2>1, <2>2 DEF PayingSteps
<1>14. CASE Reconcile \/ ReplayEvent \/ ReplayDebounce \/ PersistFixture
  <2>1. UNCHANGED <<market, settlement>>
    BY <1>14 DEF Reconcile, ReplayEvent, ReplayDebounce, PersistFixture, moneyVars
  <2>2. Only("reconciler") /\ task'["reconciler"].at \in {"idle", "replay", "fixture", "status"}
    <3>1. CASE Reconcile
      BY <3>1, ReconcileJob DEF Starts
    <3>2. CASE ReplayEvent
      BY <3>2, ReplayEventJob, VerdictIs
    <3>3. CASE ReplayDebounce
      BY <3>3, ReplayDebounceJob, VerdictIs, IdleIs
    <3>4. CASE PersistFixture
      BY <3>4, PersistFixtureJob
    <3> QED
      BY <1>14, <3>1, <3>2, <3>3, <3>4
  <2> QED
    BY <1>0, <1>4, <2>1, <2>2 DEF PayingSteps
<1>15. ASSUME NEW t \in Voiders, VoidAbandoned(t) PROVE Fine
  <2>1. UNCHANGED <<market, settlement>>
    BY <1>15 DEF VoidAbandoned, moneyVars
  <2> QED
    BY <1>0, <1>4, <1>15, <2>1, VoidAbandonedJob DEF Starts, PayingSteps
<1>16. ASSUME NEW t \in Sweepers, Sweep(t) PROVE Fine
  <2>1. UNCHANGED <<market, settlement>> /\ market \in Terminal /\ Go(t, "read")
    BY <1>16 DEF Sweep, moneyVars
  <2> QED
    BY <1>0, <1>4, <2>1, GoJob
<1>17. ASSUME NEW t \in Tasks, CloseAndPay(t) PROVE Fine
  <2>1. CASE MarkTerminal(t)
    <3>1. market' \in Terminal /\ task[t].at = "status" /\ Go(t, "settlement")
      BY <2>1 DEF MarkTerminal, At, Terminal
    <3>2. Only(t) /\ task'[t].at = "settlement"
      BY <3>1, GoJob
    <3> QED
      BY <1>1, <1>2, <3>1, <3>2, AloneAfter
  <2>2. CASE InsertSettlement(t)
    <3>1. market' = market /\ task[t].at = "settlement"
      BY <2>2 DEF InsertSettlement, At
    <3>2. Only(t) /\ task'[t].at = "read" /\ market \in Terminal
      BY <1>3, <2>2, <3>1, InsertSettlementJob DEF PayingSteps
    <3> QED
      BY <1>1, <1>2, <3>1, <3>2, AloneAfter
  <2>3. CASE ReadSettlement(t) \/ Refund(t) \/ VoidPending(t) \/ Pay(t) \/ MarkApplied(t)
    <3>1. UNCHANGED <<market, settlement>> /\ task[t].at \in PayingSteps
      BY <2>3 DEF ReadSettlement, Refund, VoidPending, Pay, MarkApplied, At, moneyVars, PayingSteps
    <3>2. Only(t) /\ task'[t].at # "effects"
      <4>1. ASSUME AfterApply(t) PROVE Only(t) /\ task'[t].at # "effects"
        BY <4>1, AfterApplyJob
      <4>2. CASE ReadSettlement(t)
        BY <4>1, <4>2, ReadSettlementJob DEF ReadSettlement
      <4>3. CASE Refund(t) \/ Pay(t)
        BY <3>1, <4>3, RefundJob, PayJob DEF Struck, PayingSteps
      <4>4. CASE VoidPending(t)
        BY <4>4, GoJob DEF VoidPending
      <4>5. CASE MarkApplied(t)
        BY <4>1, <4>5 DEF MarkApplied
      <4> QED
        BY <2>3, <4>2, <4>3, <4>4, <4>5
    <3>3. market \in Terminal
      BY <1>3, <3>1
    <3> QED
      BY <1>4, <3>1, <3>2, <3>3
  <2> QED
    BY <1>17, <2>1, <2>2, <2>3 DEF CloseAndPay
<1>18. ASSUME NEW t \in Tasks, Fail(t) PROVE Fine
  <2>1. UNCHANGED <<market, settlement>>
    BY <1>18 DEF Fail, moneyVars
  <2>2. Only(t) /\ task'[t].at = "idle"
    BY <1>18, EndJob, IdleIs DEF Fail, Return
  <2> QED
    BY <1>4, <2>1, <2>2 DEF PayingSteps
<1>19. CASE Crash
  <2>1. UNCHANGED <<market, settlement>>
    BY <1>19 DEF Crash, moneyVars
  <2>2. \A t \in Tasks : task'[t].at = "idle"
    BY <1>19, IdleIs DEF Crash
  <2> QED
    BY <1>2, <1>3, <2>1, <2>2 DEF Alone
<1> QED
  BY <1>6, <1>7, <1>8, <1>9, <1>10, <1>11, <1>12, <1>13, <1>14, <1>15, <1>16, <1>17, <1>18, <1>19,
     StepCases

-----------------------------------------------------------------------------
(* What a settled market owes. *)

\* How a job comes to be paying, or goes on.
LEMMA StepPays ==
    ASSUME Types, EngineStep, NEW t \in Tasks, task'[t].at \in {"refund", "pay"}
    PROVE  \/ task'[t] = task[t]
           \/ task'[t].at = "refund" /\ task'[t].credits = Due
           \/ /\ VoidPending(t) /\ task'[t].at = "pay" /\ task'[t].credits = task[t].credits
              /\ task[t].credits.refunds = {} /\ task[t].at = "refund"
           \/ Refund(t) \/ Pay(t)
<1>0. /\ "stream" \in Tasks /\ "reconciler" \in Tasks /\ SettlerTasks \subseteq Tasks
      /\ Ticks \subseteq Tasks /\ Voiders \subseteq Tasks /\ Sweepers \subseteq Tasks
  BY DEF Tasks, SettlerTasks
<1>1. ASSUME NEW u \in Tasks, Only(u), task'[u].at \notin {"refund", "pay"}
      PROVE  task'[t] = task[t]
  BY <1>1 DEF Only
<1>2. CASE PublishNext \/ PassTime \/ Refresh \/ (\E p \in Positions : Place(p)) \/ StoreSnapshot
  BY <1>2 DEF PublishNext, PassTime, Refresh, Place, StoreSnapshot
<1>3. CASE Receive
  BY <1>0, <1>1, <1>3, ReceiveJob DEF Starts
<1>4. CASE UpdateFixture
  BY <1>0, <1>1, <1>4, GoJob DEF UpdateFixture
<1>5. CASE Reduce
  <2>1. Only("stream") /\ task'["stream"].at \in {"idle", "effects"}
    BY <1>0, <1>5, EndJob, IdleIs, PersistJob DEF Reduce, Return
  <2> QED
    BY <1>0, <1>1, <2>1
<1>6. ASSUME NEW u \in Ticks, Capture(u) PROVE task'[t] = task[t]
  BY <1>0, <1>1, <1>6, CaptureJob DEF Starts
<1>7. ASSUME NEW u \in Ticks, Check(u) PROVE task'[t] = task[t]
  <2>1. Only(u) /\ task'[u].at \in {"idle", "effects"}
    BY <1>0, <1>7, EndJob, IdleIs, PersistJob DEF Check
  <2> QED
    BY <1>0, <1>1, <2>1
<1>8. ASSUME NEW u \in SettlerTasks, ApplyEffects(u) \/ Keep(u) PROVE task'[t] = task[t]
  <2>1. u \in Tasks /\ Only(u) /\ task'[u].at \in {"idle", "keep", "status"}
    BY <1>0, <1>8, ApplyEffectsJob, EndJob, IdleIs DEF Keep, Return
  <2> QED
    BY <1>1, <2>1
<1>9. CASE Reconcile \/ ReplayEvent \/ ReplayDebounce \/ PersistFixture
  <2>1. Only("reconciler") /\ task'["reconciler"].at \in {"idle", "replay", "fixture", "status"}
    <3>1. CASE Reconcile
      BY <3>1, ReconcileJob DEF Starts
    <3>2. CASE ReplayEvent
      BY <3>2, ReplayEventJob, VerdictIs
    <3>3. CASE ReplayDebounce
      BY <3>3, ReplayDebounceJob, VerdictIs, IdleIs
    <3>4. CASE PersistFixture
      BY <3>4, PersistFixtureJob
    <3> QED
      BY <1>9, <3>1, <3>2, <3>3, <3>4
  <2> QED
    BY <1>0, <1>1, <2>1
<1>10. ASSUME NEW u \in Voiders, VoidAbandoned(u) PROVE task'[t] = task[t]
  BY <1>0, <1>1, <1>10, VoidAbandonedJob DEF Starts
<1>11. ASSUME NEW u \in Sweepers, Sweep(u) PROVE task'[t] = task[t]
  BY <1>0, <1>1, <1>11, GoJob DEF Sweep
<1>12. ASSUME NEW u \in Tasks, CloseAndPay(u), u # t PROVE task'[t] = task[t]
  BY <1>12, TailHands DEF Only
<1>13. CASE CloseAndPay(t)
  <2>1. ~MarkTerminal(t) /\ ~InsertSettlement(t) /\ ~AfterApply(t)
    BY GoJob, InsertSettlementJob, AfterApplyJob DEF MarkTerminal
  <2>2. CASE ReadSettlement(t)
    <3>1. ~(applied \/ settlement = NoOutcome)
      BY <2>1, <2>2 DEF ReadSettlement
    <3> QED
      BY <2>2, <3>1, ReadSettlementJob DEF Due
  <2>3. CASE VoidPending(t)
    BY <2>3, GoJob DEF VoidPending, At
  <2>4. ~MarkApplied(t)
    BY <2>1 DEF MarkApplied
  <2> QED
    BY <1>13, <2>1, <2>2, <2>3, <2>4 DEF CloseAndPay
<1>14. ASSUME NEW u \in Tasks, Fail(u) PROVE task'[t] = task[t]
  BY <1>14, <1>1, EndJob, IdleIs DEF Fail, Return
<1>15. ~Crash
  BY IdleIs DEF Crash
<1> QED
  BY <1>2, <1>3, <1>4, <1>5, <1>6, <1>7, <1>8, <1>9, <1>10, <1>11, <1>12, <1>13, <1>14, <1>15, StepCases

\* What is due is a function of rows that no step changes.
LEMMA DueStands ==
    ASSUME Types, EngineStep, overlapped' = (overlapped \/ Cardinality(Busy') > 1),
           KickedOff, OnlyInPlayWaits, Alone, OnlyTheDue, Calm', settlement # NoOutcome
    PROVE  /\ Calm /\ settlement' = settlement
           /\ Due'.refunds = Due.refunds /\ Due'.payouts = Due.payouts
           /\ \A p \in Positions : positions[p].state \in {"pending", "void"} =>
                                     positions'[p].state \in {"pending", "void"}
<1>0. positions \in PositionRows /\ positions' \in PositionRows /\ overlapped \in BOOLEAN
  BY NextTypes DEF Types, Shaped, RowsOK
<1>a. DOMAIN positions = Positions /\ DOMAIN positions' = Positions
  BY <1>0 DEF PositionRows
<1>b. ~overlapped' => ~overlapped
  BY <1>0
<1>c. overlapped' => InPlay' = {}
  BY DEF Calm, InPlay
<1>1. Calm
  BY <1>b, <1>c, StepPositions DEF Calm, InPlay
<1>2. settlement' = settlement
  BY SettlementStays
<1>3. ~overlapped' => market \in Terminal
  BY <1>b DEF Alone
<1>4. \A p \in Positions : ~Place(p)
  <2> SUFFICES ASSUME NEW p \in Positions, Place(p) PROVE FALSE
    OBVIOUS
  <2>1. market \notin Terminal /\ positions' = [positions EXCEPT ![p] =
          [state |-> IF fixture.phase # "NS" THEN "pending" ELSE "active", placedAt |-> now,
           inPlay |-> fixture.phase # "NS"]]
    BY DEF Place, Terminal
  <2>2. fixture.phase # "NS"
    BY DEF KickedOff
  <2>3. positions'[p].inPlay
    BY <1>a, <2>1, <2>2
  <2> QED
    BY <1>3, <1>c, <2>1, <2>3 DEF InPlay
<1>5. /\ \A p \in Positions : positions[p].state = "active" <=> positions'[p].state = "active"
      /\ \A p \in Positions : positions[p].state = "none" <=> positions'[p].state = "none"
      /\ \A p \in Positions : positions[p].state \in {"pending", "void"} =>
                                positions'[p].state \in {"pending", "void"}
  <2>1. CASE positions' = positions
    BY <2>1
  <2>2. ASSUME NEW t \in SettlerTasks, ApplyEffects(t)
        PROVE  \A p \in Positions : positions'[p] = positions[p]
    <3>1. CASE ~overlapped'
      <4>1. market \notin Terminal
        BY <1>b, <2>2, <3>1 DEF Alone, ApplyEffects, At, SettlerTasks, Tasks
      <4> QED
        BY <1>3, <3>1, <4>1
    <3>2. CASE overlapped'
      BY <1>4, <1>c, <3>2, StepPositions DEF InPlay
    <3> QED
      BY <3>1, <3>2
  <2>3. ASSUME NEW t \in Tasks, VoidPending(t)
        PROVE  \A p \in Positions :
                 \/ positions'[p] = positions[p]
                 \/ positions[p].state \in {"pending", "void"} /\ positions'[p].state = "void"
    <3>1. positions' = Mark(positions, task[t].credits.voidedPending, "void")
      BY <2>3 DEF VoidPending, setPositionStates
    <3>2. \A p \in task[t].credits.voidedPending : positions[p].state \in {"pending", "void"}
      BY <1>1 DEF OnlyTheDue
    <3> QED
      BY <1>0, <3>1, <3>2, MarkOK
  <2> QED
    BY <1>4, <2>1, <2>2, <2>3, StepRows
<1>6. Placed(positions) = Placed(positions')
  BY <1>a, <1>5 DEF Placed
<1>7. \A p \in Placed(positions) : positions[p].state = "active" <=> positions'[p].state = "active"
  BY <1>a, <1>5 DEF Placed
<1>8. /\ settlementCredits(positions, settlement).refunds = settlementCredits(positions', settlement).refunds
      /\ settlementCredits(positions, settlement).payouts = settlementCredits(positions', settlement).payouts
  BY <1>6, <1>7, CreditsStand
<1> QED
  BY <1>1, <1>2, <1>5, <1>8 DEF Due

\* Before there is an outcome nothing is in hand or posted.
LEMMA NothingYet ==
    ASSUME Types, PaidOnTheOutcome, settlement = NoOutcome
    PROVE  /\ \A t \in Tasks : task[t].credits = NoCredits /\ task[t].at \notin {"refund", "pay"}
           /\ \A p \in Positions : ledger["refund"][p] = 0 /\ ledger["payout"][p] = 0
<1>1. \A t \in Tasks : task[t].credits = NoCredits /\ task[t].at \notin {"refund", "pay"}
  BY DEF PaidOnTheOutcome, Types, TasksOK, JobOK
<1>2. \A p \in Positions : ledger["payout"][p] \in Nat /\ ~(ledger["payout"][p] > 0)
  BY DEF PaidOnTheOutcome, Wins, NoOutcome, Types, RowsOK
<1> QED
  BY <1>1, <1>2 DEF PaidOnTheOutcome

LEMMA NextOnlyTheDue ==
    ASSUME Types, EngineStep, overlapped' = (overlapped \/ Cardinality(Busy') > 1),
           KickedOff, OnlyInPlayWaits, PaidOnTheOutcome, Alone, OnlyTheDue
    PROVE  OnlyTheDue'
<1> SUFFICES ASSUME Calm'
             PROVE  /\ \A t \in Tasks :
                         /\ task'[t].credits.refunds \subseteq Due'.refunds
                         /\ task'[t].credits.payouts \subseteq Due'.payouts
                         /\ \A p \in task'[t].credits.voidedPending : positions'[p].state \in {"pending", "void"}
                    /\ \A p \in Positions :
                         /\ ledger'["refund"][p] > 0 => Credit(p, ledger'["refund"][p]) \in Due'.refunds
                         /\ ledger'["payout"][p] > 0 => Credit(p, ledger'["payout"][p]) \in Due'.payouts
  BY DEF OnlyTheDue
<1>0. positions \in PositionRows
  BY DEF Types, RowsOK
<1>1. CASE settlement = NoOutcome
  <2>1. \A t \in Tasks : /\ task'[t].credits.refunds = {} /\ task'[t].credits.payouts = {}
                         /\ task'[t].credits.voidedPending = {}
    BY <1>1, NothingYet, StepHands, IdleIs DEF Hands
  <2>2. ledger' = ledger
    BY <1>1, NothingYet, StepRows DEF Refund, Pay, At
  <2> QED
    BY <1>1, <2>1, <2>2, NothingYet
<1>2. CASE settlement # NoOutcome
  <2>1. /\ Calm /\ settlement' = settlement
        /\ Due'.refunds = Due.refunds /\ Due'.payouts = Due.payouts
        /\ \A p \in Positions : positions[p].state \in {"pending", "void"} =>
                                  positions'[p].state \in {"pending", "void"}
    BY <1>2, DueStands
  <2>2. /\ \A t \in Tasks :
             /\ task[t].credits.refunds \subseteq Due.refunds /\ task[t].credits.payouts \subseteq Due.payouts
             /\ \A p \in task[t].credits.voidedPending : positions[p].state \in {"pending", "void"}
        /\ \A p \in Positions :
             /\ ledger["refund"][p] > 0 => Credit(p, ledger["refund"][p]) \in Due.refunds
             /\ ledger["payout"][p] > 0 => Credit(p, ledger["payout"][p]) \in Due.payouts
    BY <2>1 DEF OnlyTheDue
  <2>3. ASSUME NEW t \in Tasks
        PROVE  /\ task'[t].credits.refunds \subseteq Due.refunds /\ task'[t].credits.payouts \subseteq Due.payouts
               /\ \A p \in task'[t].credits.voidedPending : positions'[p].state \in {"pending", "void"}
    <3>0. /\ task[t].credits.voidedPending \subseteq Positions
          /\ Due.voidedPending \subseteq Positions
          /\ \A p \in Due.voidedPending : positions[p].state = "pending"
      BY <1>0, CreditsAre DEF OnlyInPlayWaits, InPlay, Due, Placed, PositionRows
    <3>1. CASE task'[t].credits = Due
      BY <2>1, <3>0, <3>1
    <3>2. CASE /\ task'[t].credits.refunds \subseteq task[t].credits.refunds
               /\ task'[t].credits.payouts \subseteq task[t].credits.payouts
               /\ task'[t].credits.voidedPending \subseteq task[t].credits.voidedPending
      BY <2>1, <2>2, <3>0, <3>2
    <3> QED
      BY <3>1, <3>2, StepHands DEF Hands
  <2>a. ASSUME NEW c, c \in Due.refunds \cup Due.payouts
        PROVE  c = Credit(c.pos, c.amount) /\ c.pos \in Positions /\ c.amount \in Nat
    BY <1>0, <2>a, CreditsOK DEF Due
  <2>4. ASSUME NEW t \in Tasks, Refund(t)
        PROVE  \A p \in Positions :
                 /\ ledger'["refund"][p] > 0 => Credit(p, ledger'["refund"][p]) \in Due.refunds
                 /\ ledger'["payout"][p] > 0 => Credit(p, ledger'["payout"][p]) \in Due.payouts
    <3>1. PICK c \in task[t].credits.refunds : postWagerLedger("refund", c)
      BY <2>4, RefundJob
    <3>2. c \in Due.refunds /\ c = Credit(c.pos, c.amount) /\ c.pos \in Positions /\ c.amount \in Nat
      BY <2>2, <2>a, <3>1
    <3>3. /\ \A p \in Positions : p = c.pos \/ ledger'["refund"][p] = ledger["refund"][p]
          /\ \A p \in Positions : ledger'["payout"][p] = ledger["payout"][p]
          /\ \/ ledger'["refund"][c.pos] = ledger["refund"][c.pos]
             \/ ledger'["refund"][c.pos] = c.amount
      BY <3>1, <3>2, PostOK
    <3> QED
      BY <2>2, <3>2, <3>3
  <2>5. ASSUME NEW t \in Tasks, Pay(t)
        PROVE  \A p \in Positions :
                 /\ ledger'["refund"][p] > 0 => Credit(p, ledger'["refund"][p]) \in Due.refunds
                 /\ ledger'["payout"][p] > 0 => Credit(p, ledger'["payout"][p]) \in Due.payouts
    <3>1. PICK c \in task[t].credits.payouts : postWagerLedger("payout", c)
      BY <2>5, PayJob
    <3>2. c \in Due.payouts /\ c = Credit(c.pos, c.amount) /\ c.pos \in Positions /\ c.amount \in Nat
      BY <2>2, <2>a, <3>1
    <3>3. /\ \A p \in Positions : p = c.pos \/ ledger'["payout"][p] = ledger["payout"][p]
          /\ \A p \in Positions : ledger'["refund"][p] = ledger["refund"][p]
          /\ \/ ledger'["payout"][c.pos] = ledger["payout"][c.pos]
             \/ ledger'["payout"][c.pos] = c.amount
      BY <3>1, <3>2, PostOK
    <3> QED
      BY <2>2, <3>2, <3>3
  <2>6. \A p \in Positions :
          /\ ledger'["refund"][p] > 0 => Credit(p, ledger'["refund"][p]) \in Due.refunds
          /\ ledger'["payout"][p] > 0 => Credit(p, ledger'["payout"][p]) \in Due.payouts
    <3>1. CASE ledger' = ledger
      BY <2>2, <3>1
    <3> QED
      BY <2>4, <2>5, <3>1, StepRows
  <2> QED
    BY <2>1, <2>3, <2>6
<1> QED
  BY <1>1, <1>2

\* A settlement owes a position one refund and one payout at most.
LEMMA OneDue ==
    ASSUME Types, NEW c, NEW d, c.pos = d.pos,
           (c \in Due.refunds /\ d \in Due.refunds) \/ (c \in Due.payouts /\ d \in Due.payouts)
    PROVE  c.amount = d.amount
<1>1. positions \in PositionRows
  BY DEF Types, RowsOK
<1> QED
  BY <1>1, CreditsOK DEF Due

LEMMA DueIs ==
    ASSUME Types, NEW c, c \in Due.refunds \cup Due.payouts
    PROVE  c = Credit(c.pos, c.amount) /\ c.pos \in Positions /\ c.amount \in Nat /\ c.amount > 0
<1>1. positions \in PositionRows
  BY DEF Types, RowsOK
<1> QED
  BY <1>1, CreditsOK DEF Due

\* A credit is never taken back.
LEMMA PostedStays ==
    ASSUME Types, EngineStep, NEW kind \in {"refund", "payout"}, NEW c, c.pos \in Positions,
           c.amount \in Nat, c.amount > 0, Posted(kind, c)
    PROVE  Posted(kind, c)'
<1>1. CASE ledger' = ledger
  BY <1>1 DEF Posted
<1>2. ASSUME NEW t \in Tasks, NEW k \in {"refund", "payout"},
             NEW d \in task[t].credits.refunds \cup task[t].credits.payouts, postWagerLedger(k, d)
      PROVE  Posted(kind, c)'
  <2>1. d.pos \in Positions /\ d.amount \in Nat
    BY DEF Types, TasksOK, JobOK
  <2>2. CASE k = kind /\ d.pos = c.pos
    BY <1>2, <2>1, <2>2, PostOK DEF Posted
  <2>3. CASE k # kind \/ d.pos # c.pos
    BY <1>2, <2>1, <2>3, PostOK DEF Posted
  <2> QED
    BY <2>2, <2>3
<1>3. CASE \E t \in Tasks : Refund(t) \/ Pay(t)
  BY <1>2, <1>3, RefundJob, PayJob
<1> QED
  BY <1>1, <1>3, StepRows

\* A credit that is struck off is in the ledger.
LEMMA StruckIsPosted ==
    ASSUME Types, OnlyTheDue, Calm, NEW t \in Tasks, NEW kind \in {"refund", "payout"}, NEW c,
           c \in (IF kind = "refund" THEN task[t].credits.refunds ELSE task[t].credits.payouts),
           postWagerLedger(kind, c)
    PROVE  Posted(kind, c)'
<1>1. c \in (IF kind = "refund" THEN Due.refunds ELSE Due.payouts)
  BY DEF OnlyTheDue
<1>2. c.pos \in Positions /\ c.amount \in Nat
  BY <1>1, DueIs
<1>3. ledger'[kind][c.pos] = IF ledger[kind][c.pos] > 0 THEN ledger[kind][c.pos] ELSE c.amount
  BY <1>2, PostOK
<1>4. ASSUME ledger[kind][c.pos] > 0 PROVE ledger[kind][c.pos] = c.amount
  <2> DEFINE d == Credit(c.pos, ledger[kind][c.pos])
  <2>1. d \in (IF kind = "refund" THEN Due.refunds ELSE Due.payouts)
    BY <1>2, <1>4 DEF OnlyTheDue
  <2>2. d.pos = c.pos /\ d.amount = ledger[kind][c.pos]
    BY DEF Credit
  <2> HIDE DEF d
  <2> QED
    BY <1>1, <2>1, <2>2, OneDue
<1> QED
  BY <1>3, <1>4 DEF Posted

LEMMA NextAllOfTheDue ==
    ASSUME Types, EngineStep, overlapped' = (overlapped \/ Cardinality(Busy') > 1),
           KickedOff, OnlyInPlayWaits, PaidOnTheOutcome, Alone, OnlyTheDue, AllOfTheDue
    PROVE  AllOfTheDue'
<1> SUFFICES ASSUME ~overlapped'
             PROVE  /\ \A t \in Tasks :
                         /\ task'[t].at \in {"refund", "pay"} =>
                              /\ \A c \in Due'.refunds : c \in task'[t].credits.refunds \/ Posted("refund", c)'
                              /\ \A c \in Due'.payouts : c \in task'[t].credits.payouts \/ Posted("payout", c)'
                         /\ task'[t].at = "pay" => task'[t].credits.refunds = {}
                    /\ applied' =>
                         /\ settlement' # NoOutcome
                         /\ \A c \in Due'.refunds : Posted("refund", c)'
                         /\ \A c \in Due'.payouts : Posted("payout", c)'
  BY DEF AllOfTheDue
<1>0. ~overlapped /\ Calm' /\ Calm
  BY DEF Types, Calm
<1>1. /\ \A t \in Tasks :
           /\ task[t].at \in {"refund", "pay"} =>
                /\ \A c \in Due.refunds : c \in task[t].credits.refunds \/ Posted("refund", c)
                /\ \A c \in Due.payouts : c \in task[t].credits.payouts \/ Posted("payout", c)
           /\ task[t].at = "pay" => task[t].credits.refunds = {}
      /\ applied =>
           /\ settlement # NoOutcome
           /\ \A c \in Due.refunds : Posted("refund", c)
           /\ \A c \in Due.payouts : Posted("payout", c)
  BY <1>0 DEF AllOfTheDue
<1>2. /\ \A c \in Due.refunds : Posted("refund", c) => Posted("refund", c)'
      /\ \A c \in Due.payouts : Posted("payout", c) => Posted("payout", c)'
  <2>1. ASSUME NEW c \in Due.refunds, Posted("refund", c) PROVE Posted("refund", c)'
    BY <2>1, DueIs, PostedStays
  <2>2. ASSUME NEW c \in Due.payouts, Posted("payout", c) PROVE Posted("payout", c)'
    BY <2>2, DueIs, PostedStays
  <2> QED
    BY <2>1, <2>2
<1>3. CASE settlement = NoOutcome
  <2>1. \A t \in Tasks : task'[t].at \notin {"refund", "pay"}
    BY <1>3, NothingYet, StepHands DEF Hands
  <2>2. ~applied /\ applied' = applied
    BY <1>1, <1>3, NothingYet, StepRows DEF MarkApplied, At
  <2> QED
    BY <2>1, <2>2
<1>4. CASE settlement # NoOutcome
  <2>1. settlement' = settlement /\ Due'.refunds = Due.refunds /\ Due'.payouts = Due.payouts
    BY <1>0, <1>4, DueStands
  <2>2. ASSUME NEW t \in Tasks, task'[t].at \in {"refund", "pay"}
        PROVE  /\ \A c \in Due.refunds : c \in task'[t].credits.refunds \/ Posted("refund", c)'
               /\ \A c \in Due.payouts : c \in task'[t].credits.payouts \/ Posted("payout", c)'
               /\ task'[t].at = "pay" => task'[t].credits.refunds = {}
    <3>1. CASE task'[t] = task[t]
      BY <1>1, <1>2, <2>2, <3>1
    <3>2. CASE task'[t].at = "refund" /\ task'[t].credits = Due
      BY <3>2
    <3>3. CASE /\ task'[t].at = "pay" /\ task'[t].credits = task[t].credits
               /\ task[t].credits.refunds = {} /\ task[t].at = "refund"
      BY <1>1, <1>2, <3>3
    <3>4. CASE Refund(t)
      <4>1. PICK c \in task[t].credits.refunds : postWagerLedger("refund", c) /\ Struck(t, "refund", c)
        BY <3>4, RefundJob
      <4>2. Posted("refund", c)'
        BY <1>0, <4>1, StruckIsPosted
      <4>3. task'[t].at = "refund" /\ task[t].at = "refund"
        BY <3>4, <4>1 DEF Refund, At, Struck
      <4>4. task'[t].credits.refunds = task[t].credits.refunds \ {c}
            /\ task'[t].credits.payouts = task[t].credits.payouts
        BY <4>1 DEF Struck
      <4> QED
        BY <1>1, <1>2, <4>2, <4>3, <4>4
    <3>5. CASE Pay(t)
      <4>1. PICK c \in task[t].credits.payouts : postWagerLedger("payout", c) /\ Struck(t, "payout", c)
        BY <3>5, PayJob
      <4>2. Posted("payout", c)'
        BY <1>0, <4>1, StruckIsPosted
      <4>3. task'[t].at = "pay" /\ task[t].at = "pay"
        BY <3>5, <4>1 DEF Pay, At, Struck
      <4>4. task'[t].credits.payouts = task[t].credits.payouts \ {c}
            /\ task'[t].credits.refunds = task[t].credits.refunds
        BY <4>1 DEF Struck
      <4> QED
        BY <1>1, <1>2, <4>2, <4>3, <4>4
    <3> QED
      BY <2>2, <3>1, <3>2, <3>3, <3>4, <3>5, StepPays
  <2>3. ASSUME applied'
        PROVE  /\ \A c \in Due.refunds : Posted("refund", c)'
               /\ \A c \in Due.payouts : Posted("payout", c)'
    <3>1. CASE applied' = applied
      BY <1>1, <1>2, <2>3, <3>1
    <3>2. ASSUME NEW t \in Tasks, MarkApplied(t)
          PROVE  /\ \A c \in Due.refunds : Posted("refund", c)
                 /\ \A c \in Due.payouts : Posted("payout", c)
      <4>1. task[t].at = "pay" /\ task[t].credits.payouts = {}
        BY <3>2 DEF MarkApplied, At
      <4> QED
        BY <1>1, <4>1
    <3> QED
      BY <1>2, <3>1, <3>2, StepRows
  <2> QED
    BY <1>4, <2>1, <2>2, <2>3
<1> QED
  BY <1>3, <1>4

-----------------------------------------------------------------------------
(* The theorems. *)

LEMMA InitInv == LoopInit => IInv
<1> SUFFICES ASSUME LoopInit PROVE IInv
  OBVIOUS
<1>0. /\ \A t \in Tasks : task[t] = Idle
      /\ "stream" \in Tasks /\ "reconciler" \in Tasks /\ Intervals \subseteq Tasks
  BY DEF LoopInit, Tasks, Intervals
<1>1. FeedOK
  <2>1. script \in Seq(FeedRecords)
    BY ScriptsAssumption DEF LoopInit
  <2>2. feed = <<>> /\ Len(script) \in Nat
    BY <2>1 DEF LoopInit
  <2> QED
    BY <2>2 DEF LoopInit, FeedOK
<1>2. RowsOK
  <2>1. NoPosition \in PositionRecords
    BY DEF NoPosition, PositionRecords
  <2>2. positions \in PositionRows
    BY <2>1 DEF LoopInit, PositionRows
  <2>3. ledger \in [{"refund", "payout"} -> [Positions -> Nat]]
    BY DEF LoopInit
  <2> QED
    BY <2>2, <2>3, RunningIs DEF LoopInit, RowsOK, Outcomes
<1>3. FeedRowsOK
  BY DEF LoopInit, FeedRowsOK
<1>4. TasksOK
  <2>1. Len(feed) \in Nat
    BY DEF LoopInit
  <2>2. \A t \in Tasks : JobOK(Idle) /\ EventOK(t, Idle)
    BY <2>1, IdleIs DEF EventOK
  <2> QED
    BY <1>0, <2>2 DEF LoopInit, TasksOK
<1>5. Types
  BY <1>1, <1>2, <1>3, <1>4, IdleIs DEF Types, LoopInit
<1>6. KickedOff
  BY <1>0, IdleIs DEF LoopInit, KickedOff
<1>7. OnlyInPlayWaits
  <2>1. \A p \in Positions : positions[p].state = "none"
    BY DEF LoopInit, NoPosition
  <2> QED
    BY <1>0, <2>1, IdleIs DEF OnlyInPlayWaits, LoopInit
<1>8. \A p \in Positions : ledger["refund"][p] = 0 /\ ledger["payout"][p] = 0
  BY DEF LoopInit
<1>9. PaidOnTheOutcome
  BY <1>0, <1>8, IdleIs DEF PaidOnTheOutcome, LoopInit
<1>10. Alone
  <2>1. Busy = {}
    BY <1>0, BusyIs, IdleIs
  <2> QED
    BY <1>0, <2>1, IdleIs DEF Alone, LoopInit
<1>11. OnlyTheDue
  BY <1>0, <1>8, IdleIs DEF OnlyTheDue
<1>12. AllOfTheDue
  BY <1>0, IdleIs DEF AllOfTheDue, LoopInit
<1> QED
  BY <1>5, <1>6, <1>7, <1>9, <1>10, <1>11, <1>12 DEF IInv

LEMMA StutterInv ==
    ASSUME IInv, UNCHANGED vars
    PROVE  IInv'
<1> USE DEF vars, engineVars
<1>1. Types'
  BY SameTypes DEF IInv, Types
<1>2. KickedOff'
  BY DEF IInv, KickedOff
<1>3. OnlyInPlayWaits'
  BY DEF IInv, OnlyInPlayWaits, InPlay, Pending
<1>4. PaidOnTheOutcome'
  BY DEF IInv, PaidOnTheOutcome, Wins
<1>5. Alone'
  BY DEF IInv, Alone, Busy, At
<1>6. Due' = Due /\ Calm' = Calm
  BY DEF Due, Calm
<1>7. OnlyTheDue' /\ AllOfTheDue'
  BY <1>6 DEF IInv, OnlyTheDue, AllOfTheDue, Posted
<1> QED
  BY <1>1, <1>2, <1>3, <1>4, <1>5, <1>7 DEF IInv

LEMMA StepInv ==
    ASSUME IInv, LoopNext
    PROVE  IInv'
<1>1. EngineStep /\ overlapped' = (overlapped \/ Cardinality(Busy') > 1)
  BY DEF LoopNext
<1>2. /\ Types /\ KickedOff /\ OnlyInPlayWaits /\ PaidOnTheOutcome
      /\ Alone /\ OnlyTheDue /\ AllOfTheDue
  BY DEF IInv
<1>3. Types'
  BY <1>1, <1>2, NextTypes DEF Types, Shaped
<1> QED
  BY <1>1, <1>2, <1>3, NextKickedOff, NextOnlyInPlayWaits, NextPaidOnTheOutcome, NextAlone,
     NextOnlyTheDue, NextAllOfTheDue DEF IInv

\* Whatever the match, the stakes and the order in which the five tasks run,
\* fail and start again, the invariant holds.
THEOREM LoopInvariant == LoopSpec => []IInv
<1>1. IInv /\ [LoopNext]_vars => IInv'
  BY StepInv, StutterInv
<1> QED
  BY <1>1, InitInv, PTL DEF LoopSpec

\* The rows and the cache keep their types, and no closed market is cached.
THEOREM LoopTypes == LoopSpec => []LoopTypeOK
<1>1. IInv => LoopTypeOK
  <2> SUFFICES ASSUME IInv PROVE LoopTypeOK
    OBVIOUS
  <2>1. Types
    BY DEF IInv
  <2>2. market \in Statuses
    BY <2>1 DEF Types, RowsOK, Statuses, Running, Terminal
  <2>3. \A p \in Positions : positions[p].state \in {"none", "pending", "active", "void"}
    BY <2>1 DEF Types, RowsOK, PositionRows, PositionRecords
  <2>4. cache.status \in (Statuses \cup {"none"}) \ Terminal
    BY <2>1, IdleIs DEF Types, Kept, Statuses, Running, Terminal
  <2>5. \A t \in Tasks : task[t].outcome \in Outcomes
    BY <2>1 DEF Types, TasksOK, JobOK
  <2> QED
    BY <2>1, <2>2, <2>3, <2>4, <2>5 DEF LoopTypeOK, Types, RowsOK, FeedRowsOK
<1> QED
  BY <1>1, LoopInvariant, PTL

\* Every payout ever posted is one of the single outcome on file, however the
\* five tasks overlap, fail and repeat each other: settlements takes the first
\* outcome only, and applySettlement reads it back before it pays.
THEOREM OneOutcomePays == LoopSpec => []OneOutcome
<1>1. IInv => OneOutcome
  BY DEF IInv, PaidOnTheOutcome, Wins, OneOutcome
<1> QED
  BY <1>1, LoopInvariant, PTL

\* While no two tasks have overlapped, a closed market stays closed through
\* failures and restarts, although updateMarketStatus has no guard of its own.
THEOREM ClosedStaysClosed == LoopSpec => TerminalStatusIsFinal
<1>1. IInv /\ [LoopNext]_vars => [(market \in Terminal) /\ ~overlapped' => (market' \in Terminal)]_vars
  BY NextAlone DEF IInv, LoopNext
<1> QED
  BY <1>1, LoopInvariant, PTL DEF LoopSpec, TerminalStatusIsFinal

\* Calm, a position has been credited its due or nothing of it.
LEMMA CreditedAtMost ==
    ASSUME IInv, Calm, NEW p \in Positions
    PROVE  /\ ledger["refund"][p] \in Nat /\ ledger["payout"][p] \in Nat
           /\ Credited(p) \in Nat /\ Credited(p) <= DueTo(positions, settlement)[p]
<1> DEFINE o == settlement
           due == DueTo(positions, o)
           r == ledger["refund"][p]
           w == ledger["payout"][p]
<1>0. Types /\ positions \in PositionRows /\ r \in Nat /\ w \in Nat
  BY DEF IInv, Types, RowsOK
<1>1. r > 0 => Credit(p, r) \in Due.refunds
  BY DEF IInv, OnlyTheDue
<1>2. w > 0 => Credit(p, w) \in Due.payouts
  BY DEF IInv, OnlyTheDue
<1>3. Credit(p, r).pos = p /\ Credit(p, r).amount = r /\ Credit(p, w).pos = p /\ Credit(p, w).amount = w
  BY DEF Credit
<1>4. /\ FullyRefunded(positions, o) \cap Winners(positions, o) = {}
      /\ FullyRefunded(positions, o) \cap Losers(positions, o) = {}
      /\ Winners(positions, o) \cap Losers(positions, o) = {}
  BY <1>0, SidesOK
<1>5. due[p] \in Nat /\ due[p] = IF p \in FullyRefunded(positions, o) THEN Stake[p]
                                 ELSE IF p \in Losers(positions, o) THEN Stake[p] - Forfeit(positions, o)[p]
                                 ELSE IF p \in Winners(positions, o) THEN Stake[p] + Winnings(positions, o)[p] ELSE 0
  BY <1>0, DuesTotal DEF DueTo
<1>6. r > 0 => r = due[p] /\ p \notin Winners(positions, o)
  <2> SUFFICES ASSUME r > 0 PROVE r = due[p] /\ p \notin Winners(positions, o)
    OBVIOUS
  <2>1. /\ p \in FullyRefunded(positions, o) => r = Stake[p]
        /\ p \notin FullyRefunded(positions, o) =>
             p \in Losers(positions, o) /\ r = Stake[p] - Forfeit(positions, o)[p]
    BY <1>0, <1>1, <1>3, CreditsOK DEF Due
  <2> QED
    BY <1>4, <1>5, <2>1
<1>7. w > 0 => w = due[p] /\ p \in Winners(positions, o)
  <2> SUFFICES ASSUME w > 0 PROVE w = due[p] /\ p \in Winners(positions, o)
    OBVIOUS
  <2>1. p \in Winners(positions, o) /\ w = Stake[p] + Winnings(positions, o)[p]
    BY <1>0, <1>2, <1>3, CreditsOK DEF Due
  <2> QED
    BY <1>4, <1>5, <2>1
<1> HIDE DEF r, w, due
<1>8. r + w \in Nat /\ r + w <= due[p]
  BY <1>0, <1>5, <1>6, <1>7
<1> QED
  BY <1>0, <1>8 DEF r, w, due, Credited

\* Behind the marker, alone, it has been credited all of it.
LEMMA CreditedAll ==
    ASSUME IInv, ~overlapped, applied, NEW p \in Positions
    PROVE  DueTo(positions, settlement)[p] <= Credited(p)
<1> DEFINE o == settlement
           due == DueTo(positions, o)
           r == ledger["refund"][p]
           w == ledger["payout"][p]
           R == FullyRefunded(positions, o)
           L == Losers(positions, o)
           W == Winners(positions, o)
<1>0. positions \in PositionRows /\ r \in Nat /\ w \in Nat
  BY DEF IInv, Types, RowsOK
<1>1. /\ \A c \in Due.refunds : ledger["refund"][c.pos] = c.amount
      /\ \A c \in Due.payouts : ledger["payout"][c.pos] = c.amount
  BY DEF IInv, AllOfTheDue, Posted
<1>2. /\ Due.refunds = {Credit(q, Stake[q]) : q \in R}
                       \cup {c \in {Credit(q, Stake[q] - Forfeit(positions, o)[q]) : q \in L} : c.amount > 0}
      /\ Due.payouts = {Credit(q, Stake[q] + Winnings(positions, o)[q]) : q \in W}
  BY CreditsAre DEF Due
<1>3. \A q, a : Credit(q, a).pos = q /\ Credit(q, a).amount = a
  BY DEF Credit
<1>4. due[p] = IF p \in R THEN Stake[p] ELSE IF p \in L THEN Stake[p] - Forfeit(positions, o)[p]
               ELSE IF p \in W THEN Stake[p] + Winnings(positions, o)[p] ELSE 0
  BY DEF DueTo
<1>5. due[p] \in Nat
  BY <1>0, DuesTotal
<1>6. p \in R => r = Stake[p]
  BY <1>1, <1>2, <1>3
<1>7. p \in L /\ Stake[p] - Forfeit(positions, o)[p] > 0 => r = Stake[p] - Forfeit(positions, o)[p]
  <2> SUFFICES ASSUME p \in L, Stake[p] - Forfeit(positions, o)[p] > 0
               PROVE  r = Stake[p] - Forfeit(positions, o)[p]
    OBVIOUS
  <2> DEFINE a == Stake[p] - Forfeit(positions, o)[p]
             c == Credit(p, a)
  <2>1. c \in {Credit(q, Stake[q] - Forfeit(positions, o)[q]) : q \in L} /\ c.amount > 0
    BY <1>3
  <2>2. c \in Due.refunds
    BY <1>2, <2>1
  <2> QED
    BY <1>1, <1>3, <2>2
<1>8. p \in W => w = Stake[p] + Winnings(positions, o)[p]
  BY <1>1, <1>2, <1>3
<1> HIDE DEF r, w, due, R, L, W
<1>9. due[p] <= r + w
  <2>1. CASE p \in R
    BY <1>0, <1>4, <1>5, <1>6, <2>1
  <2>2. CASE p \notin R /\ p \in L
    BY <1>0, <1>4, <1>5, <1>7, <2>2
  <2>3. CASE p \notin R /\ p \notin L /\ p \in W
    BY <1>0, <1>4, <1>5, <1>8, <2>3
  <2>4. CASE p \notin R /\ p \notin L /\ p \notin W
    BY <1>0, <1>4, <2>4
  <2> QED
    BY <2>1, <2>2, <2>3, <2>4
<1> QED
  BY <1>9 DEF r, w, due, Credited

\* The total of the credits is the total of the dues at most, and behind the
\* marker, alone, at least.
LEMMA CreditsInTotal ==
    ASSUME IInv, Calm
    PROVE  /\ TotalCredited <= TotalStaked
           /\ applied /\ ~overlapped => TotalCredited + Cardinality(Placed(positions)) >= TotalStaked
<1> DEFINE due == DueTo(positions, settlement)
           f == [p \in Positions |-> Credited(p)]
           total == SumFunctionOnSet(due, Positions)
           n == Cardinality(Placed(positions))
<1>0. positions \in PositionRows /\ IsFiniteSet(Positions)
  BY PotAssumption DEF IInv, Types, RowsOK
<1>1. /\ \A p \in Positions : due[p] \in Nat
      /\ total \in Nat /\ TotalStaked \in Nat /\ n \in Nat
      /\ total <= TotalStaked /\ TotalStaked <= total + n
  BY <1>0, DuesTotal DEF TotalStaked
<1>2. \A p \in Positions : f[p] \in Nat /\ f[p] <= due[p]
  BY CreditedAtMost
<1>3. applied /\ ~overlapped => \A p \in Positions : due[p] <= f[p]
  BY CreditedAll
<1>a. TotalCredited = SumFunctionOnSet(f, Positions)
  BY DEF TotalCredited
<1> HIDE DEF due, f
<1>4. SumFunctionOnSet(f, Positions) \in Nat /\ SumFunctionOnSet(f, Positions) <= total
  BY <1>0, <1>1, <1>2, SumOnMono, SumOnUnfold
<1>5. applied /\ ~overlapped => total <= SumFunctionOnSet(f, Positions)
  BY <1>0, <1>1, <1>2, <1>3, SumOnMono
<1> HIDE DEF total, n
<1> DEFINE credited == SumFunctionOnSet(f, Positions)
<1>6. credited \in Nat /\ credited <= total /\ (applied /\ ~overlapped => total <= credited)
  BY <1>4, <1>5
<1> HIDE DEF credited
<1>7. credited <= TotalStaked /\ (applied /\ ~overlapped => credited + n >= TotalStaked)
  BY <1>1, <1>6
<1> QED
  BY <1>7, <1>a DEF credited, n

\* A market never credits more than was staked on it (settlement.ts: "payouts
\* can never exceed escrow"): with taps made before kickoff whatever overlaps,
\* with taps in play as long as no two tasks do.
THEOREM CreditsAreCovered == LoopSpec => []EscrowCoversCredits
<1>1. IInv => EscrowCoversCredits
  BY CreditsInTotal DEF EscrowCoversCredits, Calm
<1> QED
  BY <1>1, LoopInvariant, PTL

\* Behind wager_settlements_applied nobody is left unpaid: the credits are the
\* stakes but for at most a lamport for each position.
THEOREM AppliedMeansPaid == LoopSpec => []AppliedPaysEveryone
<1>1. IInv => AppliedPaysEveryone
  BY CreditsInTotal DEF AppliedPaysEveryone, Calm
<1> QED
  BY <1>1, LoopInvariant, PTL

=============================================================================
