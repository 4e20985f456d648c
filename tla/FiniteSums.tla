----------------------------- MODULE FiniteSums -----------------------------
(***************************************************************************)
(* What the proofs need to know about finite sums.                         *)
(*                                                                         *)
(* SumFunctionOnSet is the fold of the community modules: the proofs argue *)
(* about a smallest counterexample, which every set of naturals has.       *)
(*                                                                         *)
(* HasSum(n, f, t) says without recursion that t is the sum of f over      *)
(* 1..n: a sequence of partial sums exists.  The partial sums also carry   *)
(* that they grow, and that they grow only where f is positive.            *)
(***************************************************************************)
EXTENDS Integers, Functions, FiniteSetTheorems, WellFoundedInduction, TLAPS

\* A set of naturals has a least element.
LEMMA LeastNatural ==
    ASSUME NEW T, T \subseteq Nat, T # {}
    PROVE  \E x \in T : \A y \in T : x <= y
<1> DEFINE R == OpToRel(<, Nat)
<1>1. IsWellFoundedOn(R, Nat)
  BY NatLessThanWellFounded
<1>2. \A x, y \in Nat : y < x => <<y, x>> \in R
  BY DEF OpToRel
<1> HIDE DEF R
<1>3. PICK x \in T : \A y \in T : ~ (<<y, x>> \in R)
  BY <1>1, WFMin
<1>4. \A y \in T : ~ (y < x)
  BY <1>2, <1>3
<1>5. \A y \in T : x <= y
  BY <1>4
<1> QED
  BY <1>5

-----------------------------------------------------------------------------
(* SumFunctionOnSet *)

\* The element the fold takes out of a set.
PickOf(s) == CHOOSE x \in s : TRUE

\* One unfolding of the fold at the set s.
Unfolds(f, R, s) == R[s] = IF s = {} THEN 0 ELSE f[PickOf(s)] + R[s \ {PickOf(s)}]

\* R is the recursive function of the fold on the subsets of S.
IsFold(f, S, R) ==
    R = [s \in SUBSET S |-> IF s = {} THEN 0 ELSE f[PickOf(s)] + R[s \ {PickOf(s)}]]

\* The element is a member.
LEMMA PickIsIn == \A s : s # {} => PickOf(s) \in s
  BY Zenon DEF PickOf

\* Removing the chosen element makes a smaller finite set.
LEMMA PickSmaller ==
    ASSUME NEW s, IsFiniteSet(s), s # {}
    PROVE  /\ IsFiniteSet(s \ {PickOf(s)}) /\ Cardinality(s) \in Nat
           /\ Cardinality(s \ {PickOf(s)}) = Cardinality(s) - 1 /\ Cardinality(s) >= 1
<1>1. PickOf(s) \in s
  BY PickIsIn
<1>2. Cardinality(s) \in Nat /\ Cardinality(s) # 0
  BY FS_CardinalityType, FS_EmptySet
<1> QED
  BY <1>1, <1>2, FS_RemoveElement

\* The recursive function behind the fold exists on the subsets of a finite set.
LEMMA FoldExists ==
    ASSUME NEW S, IsFiniteSet(S), NEW f, \A x \in S : f[x] \in Nat
    PROVE  \E R \in [SUBSET S -> Nat] : IsFold(f, S, R)
<1> DEFINE Good(n) == \E R \in [SUBSET S -> Nat] :
                         \A s \in SUBSET S : Cardinality(s) <= n => Unfolds(f, R, s)
           Bad == {n \in Nat : ~ Good(n)}
<1>0. \A s \in SUBSET S : IsFiniteSet(s) /\ Cardinality(s) \in Nat
  BY FS_Subset, FS_CardinalityType
<1>1. Bad = {}
  <2> SUFFICES ASSUME Bad # {} PROVE FALSE
    OBVIOUS
  <2>1. PICK n \in Bad : \A m \in Bad : n <= m
    BY LeastNatural
  <2>2. n \in Nat /\ ~ Good(n)
    OBVIOUS
  <2>3. CASE n = 0
    <3> DEFINE R == [s \in SUBSET S |-> 0]
    <3>1. \A s \in SUBSET S : Cardinality(s) <= 0 => s = {}
      BY <1>0, FS_EmptySet
    <3>2. \A s \in SUBSET S : Cardinality(s) <= n => Unfolds(f, R, s)
      BY <2>3, <3>1 DEF Unfolds
    <3> QED
      BY <2>2, <3>2
  <2>4. CASE n # 0
    <3>1. n - 1 \in Nat /\ ~(n <= n - 1)
      BY <2>2, <2>4
    <3>2. Good(n - 1)
      BY <2>1, <3>1
    <3>3. PICK R \in [SUBSET S -> Nat] :
             \A s \in SUBSET S : Cardinality(s) <= n - 1 => Unfolds(f, R, s)
      BY <3>2
    <3> DEFINE Q == [s \in SUBSET S |-> IF s = {} THEN 0 ELSE f[PickOf(s)] + R[s \ {PickOf(s)}]]
    <3>4. Q \in [SUBSET S -> Nat]
      BY PickIsIn, <3>3
    <3>5. ASSUME NEW s \in SUBSET S, Cardinality(s) <= n PROVE Unfolds(f, Q, s)
      <4>1. CASE s = {}
        BY <4>1 DEF Unfolds
      <4>2. CASE s # {}
        <5> DEFINE u == s \ {PickOf(s)}
        <5>1. u \in SUBSET S /\ Cardinality(u) <= n - 1
          BY <1>0, <3>5, <4>2, PickSmaller, <2>2
        <5>2. R[u] = IF u = {} THEN 0 ELSE f[PickOf(u)] + R[u \ {PickOf(u)}]
          BY <3>3, <5>1 DEF Unfolds
        <5>3. Q[u] = R[u]
          BY <5>1, <5>2
        <5>4. Q[s] = f[PickOf(s)] + R[u]
          BY <4>2
        <5> HIDE DEF u, Q
        <5>5. Q[s] = f[PickOf(s)] + Q[u]
          BY <5>3, <5>4
        <5> QED
          BY <5>5, <4>2 DEF Unfolds, u
      <4> QED
        BY <4>1, <4>2
    <3> HIDE DEF Q
    <3>6. Good(n)
      BY <3>4, <3>5
    <3> QED
      BY <2>2, <3>6
  <2> QED
    BY <2>3, <2>4
<1>2. Good(Cardinality(S))
  <2>1. Cardinality(S) \in Nat
    BY FS_CardinalityType
  <2> QED
    BY <1>1, <2>1
<1>3. PICK R \in [SUBSET S -> Nat] :
         \A s \in SUBSET S : Cardinality(s) <= Cardinality(S) => Unfolds(f, R, s)
  BY <1>2
<1>4. \A s \in SUBSET S : Unfolds(f, R, s)
  BY <1>3, FS_Subset
<1>5. R = [s \in SUBSET S |-> IF s = {} THEN 0 ELSE f[PickOf(s)] + R[s \ {PickOf(s)}]]
  BY <1>4 DEF Unfolds
<1> QED
  BY <1>5 DEF IsFold

\* What the fold computes on a set depends only on the set and the terms in it.
LEMMA FoldUnique ==
    ASSUME NEW S, IsFiniteSet(S), NEW f, NEW R, IsFold(f, S, R),
           NEW T, NEW g, NEW Q, IsFold(g, T, Q),
           NEW s, s \subseteq S, s \subseteq T, \A x \in s : f[x] = g[x]
    PROVE  R[s] = Q[s]
<1> DEFINE Bad == {n \in Nat : \E u \in SUBSET s : Cardinality(u) = n /\ R[u] # Q[u]}
<1>0. \A u \in SUBSET s : IsFiniteSet(u) /\ Cardinality(u) \in Nat
  BY FS_Subset, FS_CardinalityType
<1>1. Bad = {}
  <2> SUFFICES ASSUME Bad # {} PROVE FALSE
    OBVIOUS
  <2>1. PICK n \in Bad : \A m \in Bad : n <= m
    BY LeastNatural
  <2>2. PICK u \in SUBSET s : Cardinality(u) = n /\ R[u] # Q[u]
    OBVIOUS
  <2>3. /\ R[u] = IF u = {} THEN 0 ELSE f[PickOf(u)] + R[u \ {PickOf(u)}]
        /\ Q[u] = IF u = {} THEN 0 ELSE g[PickOf(u)] + Q[u \ {PickOf(u)}]
    <3>1. u \in SUBSET S /\ u \in SUBSET T
      OBVIOUS
    <3> QED
      BY <3>1 DEF IsFold
  <2>4. u # {}
    BY <2>2, <2>3
  <2> DEFINE v == u \ {PickOf(u)}
  <2>5. v \in SUBSET s /\ Cardinality(v) = n - 1 /\ n - 1 \in Nat /\ n \in Nat
    BY <1>0, <2>2, <2>4, PickSmaller
  <2>6. R[v] = Q[v]
    BY <2>1, <2>5
  <2>7. f[PickOf(u)] = g[PickOf(u)]
    BY <2>4, PickIsIn
  <2> QED
    BY <2>2, <2>3, <2>4, <2>6, <2>7
<1> QED
  BY <1>0, <1>1

\* So SumFunctionOnSet is what that function computes.
LEMMA SumIsFold ==
    ASSUME NEW S, IsFiniteSet(S), NEW f, \A x \in S : f[x] \in Nat
    PROVE  \E R : R \in [SUBSET S -> Nat] /\ IsFold(f, S, R) /\ SumFunctionOnSet(f, S) = R[S]
<1> DEFINE Q == CHOOSE Q : IsFold(f, S, Q)
<1>1. PICK R \in [SUBSET S -> Nat] : IsFold(f, S, R)
  BY FoldExists
<1>2. IsFold(f, S, Q)
  BY <1>1, Zenon
<1>3. SumFunctionOnSet(f, S) = Q[S]
  BY DEF SumFunctionOnSet, FoldFunctionOnSet, MapThenFoldSet, IsFold, PickOf
<1> HIDE DEF Q
<1>4. Q[S] = R[S]
  BY <1>1, <1>2, FoldUnique
<1> QED
  BY <1>1, <1>3, <1>4

\* The sum over the empty set; the sum over a larger one, by its chosen element.
LEMMA SumOnUnfold ==
    ASSUME NEW S, IsFiniteSet(S), NEW f, \A x \in S : f[x] \in Nat
    PROVE  /\ SumFunctionOnSet(f, S) \in Nat
           /\ S = {} => SumFunctionOnSet(f, S) = 0
           /\ S # {} => SumFunctionOnSet(f, S)
                          = f[PickOf(S)] + SumFunctionOnSet(f, S \ {PickOf(S)})
<1>1. PICK R : R \in [SUBSET S -> Nat] /\ IsFold(f, S, R) /\ SumFunctionOnSet(f, S) = R[S]
  BY SumIsFold
<1>2. R[S] = IF S = {} THEN 0 ELSE f[PickOf(S)] + R[S \ {PickOf(S)}]
  BY <1>1 DEF IsFold
<1>3. CASE S # {}
  <2> DEFINE T == S \ {PickOf(S)}
  <2>1. IsFiniteSet(T) /\ T \subseteq S
    BY FS_Subset
  <2>2. PICK Q : Q \in [SUBSET T -> Nat] /\ IsFold(f, T, Q) /\ SumFunctionOnSet(f, T) = Q[T]
    BY <2>1, SumIsFold
  <2>3. R[T] = Q[T]
    BY <1>1, <2>1, <2>2, FoldUnique
  <2> QED
    BY <1>1, <1>2, <1>3, <2>2, <2>3
<1> QED
  BY <1>1, <1>2, <1>3

\* A new member adds its term, whichever element the fold starts with.
LEMMA SumOnAdd ==
    ASSUME NEW S, IsFiniteSet(S), NEW x, x \notin S, NEW f, \A y \in S \cup {x} : f[y] \in Nat
    PROVE  SumFunctionOnSet(f, S \cup {x}) = f[x] + SumFunctionOnSet(f, S)
<1> DEFINE U == S \cup {x}
           Sum(s) == SumFunctionOnSet(f, s)
           Fails(s, y) == Sum(s \cup {y}) # f[y] + Sum(s)
           Bad == {n \in Nat : \E s \in SUBSET U : \E y \in U :
                                  y \notin s /\ Cardinality(s) = n /\ Fails(s, y)}
<1>f. IsFiniteSet(U)
  BY FS_AddElement
<1>0. \A s \in SUBSET U : IsFiniteSet(s) /\ Cardinality(s) \in Nat /\ Sum(s) \in Nat
  BY <1>f, FS_Subset, FS_CardinalityType, SumOnUnfold
<1>1. Bad = {}
  <2> SUFFICES ASSUME Bad # {} PROVE FALSE
    OBVIOUS
  <2>1. PICK n \in Bad : \A m \in Bad : n <= m
    BY LeastNatural
  <2>2. PICK s \in SUBSET U, y \in U : y \notin s /\ Cardinality(s) = n /\ Fails(s, y)
    OBVIOUS
  <2> DEFINE T == s \cup {y}
             p == PickOf(T)
  <2>3. T \in SUBSET U /\ T # {} /\ p \in T
    BY PickIsIn
  <2>4. Sum(T) = f[p] + Sum(T \ {p})
    BY <1>0, <2>3, SumOnUnfold
  <2>5. p # y
    <3> SUFFICES ASSUME p = y PROVE FALSE
      OBVIOUS
    <3>1. T \ {p} = s
      BY <2>2
    <3> HIDE DEF T, p, Sum
    <3> QED
      BY <3>1, <2>2, <2>4 DEF T
  <2>6. p \in s
    BY <2>3, <2>5
  <2> DEFINE v == s \ {p}
  <2> HIDE DEF p
  <2>7. /\ v \in SUBSET U /\ p \in U /\ p \notin v /\ y \notin v
        /\ T \ {p} = v \cup {y} /\ s = v \cup {p}
    BY <2>2, <2>5, <2>6
  <2>8. Cardinality(v) = n - 1 /\ n \in Nat /\ n - 1 \in Nat
    <3>1. Cardinality(v) = Cardinality(s) - 1
      BY <1>0, <2>6, FS_RemoveElement
    <3>2. Cardinality(v) \in Nat
      BY <1>0, <2>7
    <3> QED
      BY <2>2, <3>1, <3>2
  <2>9. ~ Fails(v, y) /\ ~ Fails(v, p)
    <3>1. n - 1 \notin Bad
      <4>1. n \in Nat /\ n - 1 \in Nat /\ ~(n <= n - 1)
        BY <2>8
      <4> HIDE DEF Bad
      <4> QED
        BY <2>1, <4>1
    <3>2. \A w \in SUBSET U : \A z \in U : z \notin w /\ Cardinality(w) = n - 1 => ~ Fails(w, z)
      BY <3>1, <2>8
    <3> HIDE DEF Fails, U, v
    <3> QED
      BY <3>2, <2>7, <2>8
  <2>10. Sum(v) \in Nat /\ f[p] \in Nat /\ f[y] \in Nat
    BY <1>0, <2>7, <2>2
  <2> HIDE DEF T, v, Sum
  <2>11. Sum(T) = f[p] + (f[y] + Sum(v)) /\ Sum(s) = f[p] + Sum(v)
    BY <2>4, <2>7, <2>9
  <2> QED
    BY <2>2, <2>10, <2>11 DEF T
<1>2. Cardinality(S) \in Nat /\ S \in SUBSET U /\ x \in U
  BY FS_CardinalityType
<1>3. ~ Fails(S, x)
  BY <1>1, <1>2
<1> QED
  BY <1>3

\* Larger terms over a larger set have a larger sum.
LEMMA SumOnMono ==
    ASSUME NEW T, IsFiniteSet(T), NEW S, S \subseteq T, NEW f, NEW g,
           \A x \in S : f[x] \in Nat, \A x \in T : g[x] \in Nat, \A x \in S : f[x] <= g[x]
    PROVE  SumFunctionOnSet(f, S) <= SumFunctionOnSet(g, T)
<1> DEFINE F(s) == SumFunctionOnSet(f, s)
           G(s) == SumFunctionOnSet(g, s)
           Bad == {n \in Nat : \E s \in SUBSET S : \E u \in SUBSET T :
                                  s \subseteq u /\ Cardinality(u) = n /\ ~(F(s) <= G(u))}
<1>s. IsFiniteSet(S)
  BY FS_Subset
<1>0. /\ \A s \in SUBSET S : IsFiniteSet(s) /\ Cardinality(s) \in Nat /\ F(s) \in Nat
      /\ \A s \in SUBSET T : IsFiniteSet(s) /\ Cardinality(s) \in Nat /\ G(s) \in Nat
  BY <1>s, FS_Subset, FS_CardinalityType, SumOnUnfold
<1>1. Bad = {}
  <2> SUFFICES ASSUME Bad # {} PROVE FALSE
    OBVIOUS
  <2>1. PICK n \in Bad : \A m \in Bad : n <= m
    BY LeastNatural
  <2>2. PICK s \in SUBSET S, u \in SUBSET T : s \subseteq u /\ Cardinality(u) = n /\ ~(F(s) <= G(u))
    OBVIOUS
  <2>3. s # {}
    <3> SUFFICES ASSUME s = {} PROVE FALSE
      OBVIOUS
    <3>1. F(s) = 0 /\ G(u) \in Nat
      BY <1>0, SumOnUnfold
    <3> HIDE DEF F, G
    <3> QED
      BY <2>2, <3>1
  <2> DEFINE p == PickOf(u)
             v == u \ {p}
             r == s \ {p}
  <2>4. u # {} /\ p \in u
    BY <2>2, <2>3, PickIsIn
  <2>5. G(u) = g[p] + G(v) /\ G(v) \in Nat /\ g[p] \in Nat
    BY <1>0, <2>4, SumOnUnfold
  <2>6. r \in SUBSET S /\ v \in SUBSET T /\ r \subseteq v
    BY <2>2
  <2>7. Cardinality(v) = n - 1 /\ n \in Nat /\ n - 1 \in Nat
    BY <1>0, <2>2, <2>4, PickSmaller
  <2>8. F(r) <= G(v)
    BY <2>1, <2>6, <2>7
  <2>9. F(r) \in Nat
    BY <1>0, <2>6
  <2> HIDE DEF p
  <2>10. CASE p \in s
    <3>1. p \notin r /\ s = r \cup {p} /\ \A y \in r \cup {p} : f[y] \in Nat
      BY <2>10
    <3>2. F(r \cup {p}) = f[p] + F(r)
      BY <1>0, <2>6, <3>1, SumOnAdd
    <3>3. f[p] <= g[p] /\ f[p] \in Nat
      BY <2>10
    <3> HIDE DEF r, v, F, G
    <3> QED
      BY <2>2, <2>5, <2>8, <2>9, <3>1, <3>2, <3>3
  <2>11. CASE p \notin s
    <3>1. r = s
      BY <2>11
    <3> HIDE DEF r, v, F, G
    <3> QED
      BY <2>2, <2>5, <2>8, <2>9, <3>1
  <2> QED
    BY <2>10, <2>11
<1>2. Cardinality(T) \in Nat
  BY FS_CardinalityType
<1> QED
  BY <1>0, <1>1, <1>2

\* Members whose term is zero do not count.
LEMMA SumOnZeros ==
    ASSUME NEW T, IsFiniteSet(T), NEW S, S \subseteq T, NEW f, \A x \in T : f[x] \in Nat,
           \A x \in T : x \notin S => f[x] = 0
    PROVE  SumFunctionOnSet(f, T) = SumFunctionOnSet(f, S)
<1> DEFINE F(s) == SumFunctionOnSet(f, s)
           Bad == {n \in Nat : \E u \in SUBSET T : S \subseteq u /\ Cardinality(u) = n /\ F(u) # F(S)}
<1>0. \A u \in SUBSET T : IsFiniteSet(u) /\ Cardinality(u) \in Nat /\ F(u) \in Nat
  BY FS_Subset, FS_CardinalityType, SumOnUnfold
<1>1. Bad = {}
  <2> SUFFICES ASSUME Bad # {} PROVE FALSE
    OBVIOUS
  <2>1. PICK n \in Bad : \A m \in Bad : n <= m
    BY LeastNatural
  <2>2. PICK u \in SUBSET T : S \subseteq u /\ Cardinality(u) = n /\ F(u) # F(S)
    OBVIOUS
  <2>3. PICK p \in u : p \notin S
    BY <2>2
  <2> DEFINE v == u \ {p}
  <2>4. v \in SUBSET T /\ S \subseteq v /\ p \notin v /\ u = v \cup {p} /\ f[p] = 0
        /\ \A y \in v \cup {p} : f[y] \in Nat
    BY <2>2, <2>3
  <2>5. Cardinality(v) = n - 1 /\ n \in Nat /\ n - 1 \in Nat
    <3>1. Cardinality(v) = Cardinality(u) - 1
      BY <1>0, <2>3, FS_RemoveElement
    <3>2. Cardinality(v) \in Nat
      BY <1>0, <2>4
    <3> QED
      BY <2>2, <3>1, <3>2
  <2>6. n - 1 \notin Bad
    <3>1. ~(n <= n - 1)
      BY <2>5
    <3> HIDE DEF Bad
    <3> QED
      BY <2>1, <3>1
  <2>7. F(v) = F(S) /\ F(v) \in Nat
    BY <1>0, <2>4, <2>5, <2>6
  <2> HIDE DEF v
  <2>8. F(u) = f[p] + F(v)
    BY <1>0, <2>4, SumOnAdd
  <2> HIDE DEF F
  <2> QED
    BY <2>2, <2>4, <2>7, <2>8
<1>2. T \in SUBSET T /\ Cardinality(T) \in Nat
  BY FS_CardinalityType
<1> QED
  BY <1>1, <1>2

\* Taking one member's term out of the sum.
LEMMA SumOnSplit ==
    ASSUME NEW S, IsFiniteSet(S), NEW k \in S, NEW f, \A y \in S : f[y] \in Nat
    PROVE  /\ SumFunctionOnSet(f, S) = f[k] + SumFunctionOnSet(f, S \ {k})
           /\ SumFunctionOnSet(f, S) \in Nat /\ SumFunctionOnSet(f, S \ {k}) \in Nat
<1> DEFINE T == S \ {k}
<1>1. IsFiniteSet(T) /\ k \notin T /\ S = T \cup {k} /\ \A y \in T \cup {k} : f[y] \in Nat
  BY FS_Subset
<1> HIDE DEF T
<1>2. SumFunctionOnSet(f, T \cup {k}) = f[k] + SumFunctionOnSet(f, T)
  BY <1>1, SumOnAdd
<1>3. SumFunctionOnSet(f, T) \in Nat /\ SumFunctionOnSet(f, S) \in Nat
  BY <1>1, SumOnUnfold
<1> QED
  BY <1>1, <1>2, <1>3 DEF T

\* The sum looks at the terms only.
LEMMA SumOnSame ==
    ASSUME NEW S, IsFiniteSet(S), NEW f, NEW g, \A y \in S : f[y] \in Nat /\ f[y] = g[y]
    PROVE  SumFunctionOnSet(f, S) = SumFunctionOnSet(g, S)
<1>1. SumFunctionOnSet(f, S) \in Nat /\ SumFunctionOnSet(g, S) \in Nat
  BY SumOnUnfold
<1>2. /\ SumFunctionOnSet(f, S) <= SumFunctionOnSet(g, S)
      /\ SumFunctionOnSet(g, S) <= SumFunctionOnSet(f, S)
  BY SumOnMono
<1> QED
  BY <1>1, <1>2

\* Changing one term changes the sum by the same amount.
LEMMA SumOnChange ==
    ASSUME NEW S, IsFiniteSet(S), NEW k \in S, NEW f, NEW g,
           \A y \in S : f[y] \in Nat /\ g[y] \in Nat, \A y \in S : y # k => f[y] = g[y]
    PROVE  SumFunctionOnSet(g, S) = SumFunctionOnSet(f, S) - f[k] + g[k]
<1>1. /\ SumFunctionOnSet(f, S) = f[k] + SumFunctionOnSet(f, S \ {k})
      /\ SumFunctionOnSet(g, S) = g[k] + SumFunctionOnSet(g, S \ {k})
      /\ SumFunctionOnSet(f, S \ {k}) \in Nat
  BY SumOnSplit
<1>2. IsFiniteSet(S \ {k})
  BY FS_Subset
<1>3. SumFunctionOnSet(f, S \ {k}) = SumFunctionOnSet(g, S \ {k})
  BY <1>2, SumOnSame
<1> QED
  BY <1>1, <1>3

\* Induction on subsets: a family of subsets of a finite set has a member that
\* leaves the family whatever is taken away from it.
LEMMA MinimalSubset ==
    ASSUME NEW S, IsFiniteSet(S), NEW B, B \subseteq SUBSET S, B # {}
    PROVE  \E u \in B : IsFiniteSet(u) /\ \A p \in u : u \ {p} \notin B
<1> DEFINE Sizes == {n \in Nat : \E u \in B : Cardinality(u) = n}
<1>0. \A u \in B : IsFiniteSet(u) /\ Cardinality(u) \in Nat
  BY FS_Subset, FS_CardinalityType
<1>1. Sizes # {} /\ Sizes \subseteq Nat
  BY <1>0
<1>2. PICK n \in Sizes : \A m \in Sizes : n <= m
  BY <1>1, LeastNatural
<1>3. PICK u \in B : Cardinality(u) = n
  OBVIOUS
<1>4. ASSUME NEW p \in u, u \ {p} \in B PROVE FALSE
  <2>1. Cardinality(u \ {p}) = Cardinality(u) - 1
    BY <1>0, FS_RemoveElement
  <2>2. n \in Nat /\ n - 1 \in Sizes
    BY <1>0, <1>3, <1>4, <2>1
  <2>3. ~(n <= n - 1)
    BY <2>2
  <2> HIDE DEF Sizes
  <2> QED
    BY <1>2, <2>2, <2>3
<1> QED
  BY <1>0, <1>4

\* Sums add up.
LEMMA SumOnPlus ==
    ASSUME NEW S, IsFiniteSet(S), NEW f, NEW g, NEW h,
           \A x \in S : f[x] \in Nat /\ g[x] \in Nat /\ h[x] = f[x] + g[x]
    PROVE  SumFunctionOnSet(h, S) = SumFunctionOnSet(f, S) + SumFunctionOnSet(g, S)
<1> DEFINE F(s) == SumFunctionOnSet(f, s)
           G(s) == SumFunctionOnSet(g, s)
           H(s) == SumFunctionOnSet(h, s)
           Bad == {s \in SUBSET S : H(s) # F(s) + G(s)}
<1> SUFFICES ASSUME Bad # {} PROVE FALSE
  OBVIOUS
<1>1. Bad \subseteq SUBSET S
  OBVIOUS
<1>2. PICK u \in Bad : IsFiniteSet(u) /\ \A p \in u : u \ {p} \notin Bad
  BY <1>1, MinimalSubset
<1>3. \A x \in u : f[x] \in Nat /\ g[x] \in Nat /\ h[x] \in Nat /\ h[x] = f[x] + g[x]
  OBVIOUS
<1>4. CASE u = {}
  <2>1. F(u) = 0 /\ G(u) = 0 /\ H(u) = 0
    BY <1>2, <1>3, <1>4, SumOnUnfold
  <2> HIDE DEF F, G, H
  <2> QED
    BY <2>1
<1>5. CASE u # {}
  <2>1. PICK p \in u : TRUE
    BY <1>5
  <2>2. /\ F(u) = f[p] + F(u \ {p}) /\ G(u) = g[p] + G(u \ {p}) /\ H(u) = h[p] + H(u \ {p})
        /\ F(u \ {p}) \in Nat /\ G(u \ {p}) \in Nat /\ H(u \ {p}) \in Nat
    BY <1>2, <1>3, <2>1, SumOnSplit
  <2>3. H(u \ {p}) = F(u \ {p}) + G(u \ {p})
    BY <1>2, <2>1
  <2>4. H(u) # F(u) + G(u)
    OBVIOUS
  <2> HIDE DEF F, G, H
  <2> QED
    BY <1>3, <2>1, <2>2, <2>3, <2>4
<1> QED
  BY <1>4, <1>5

\* A common factor comes out of the sum.
LEMMA SumOnTimes ==
    ASSUME NEW S, IsFiniteSet(S), NEW f, NEW k \in Nat, NEW h,
           \A x \in S : f[x] \in Nat /\ h[x] = k * f[x]
    PROVE  SumFunctionOnSet(h, S) = k * SumFunctionOnSet(f, S)
<1> DEFINE F(s) == SumFunctionOnSet(f, s)
           H(s) == SumFunctionOnSet(h, s)
           Bad == {s \in SUBSET S : H(s) # k * F(s)}
<1> SUFFICES ASSUME Bad # {} PROVE FALSE
  OBVIOUS
<1>1. Bad \subseteq SUBSET S
  OBVIOUS
<1>2. PICK u \in Bad : IsFiniteSet(u) /\ \A p \in u : u \ {p} \notin Bad
  BY <1>1, MinimalSubset
<1>3. \A x \in u : f[x] \in Nat /\ h[x] \in Nat /\ h[x] = k * f[x]
  OBVIOUS
<1>4. CASE u = {}
  <2>1. F(u) = 0 /\ H(u) = 0
    BY <1>2, <1>3, <1>4, SumOnUnfold
  <2> HIDE DEF F, H
  <2> QED
    BY <2>1
<1>5. CASE u # {}
  <2>1. PICK p \in u : TRUE
    BY <1>5
  <2>2. /\ F(u) = f[p] + F(u \ {p}) /\ H(u) = h[p] + H(u \ {p})
        /\ F(u \ {p}) \in Nat /\ H(u \ {p}) \in Nat
    BY <1>2, <1>3, <2>1, SumOnSplit
  <2>3. H(u \ {p}) = k * F(u \ {p})
    BY <1>2, <2>1
  <2>4. H(u) # k * F(u)
    OBVIOUS
  <2>5. \A x, y \in Nat : k * (x + y) = k * x + k * y
    OBVIOUS
  <2> HIDE DEF F, H
  <2> QED
    BY <1>3, <2>1, <2>2, <2>3, <2>4, <2>5
<1> QED
  BY <1>4, <1>5

\* Summing ones counts.
LEMMA SumOnOnes ==
    ASSUME NEW S, IsFiniteSet(S), NEW f, \A x \in S : f[x] = 1
    PROVE  SumFunctionOnSet(f, S) = Cardinality(S)
<1> DEFINE F(s) == SumFunctionOnSet(f, s)
           Bad == {s \in SUBSET S : F(s) # Cardinality(s)}
<1> SUFFICES ASSUME Bad # {} PROVE FALSE
  OBVIOUS
<1>1. Bad \subseteq SUBSET S
  OBVIOUS
<1>2. PICK u \in Bad : IsFiniteSet(u) /\ \A p \in u : u \ {p} \notin Bad
  BY <1>1, MinimalSubset
<1>3. \A x \in u : f[x] = 1 /\ f[x] \in Nat
  OBVIOUS
<1>4. CASE u = {}
  <2>1. F(u) = 0 /\ Cardinality(u) = 0
    BY <1>2, <1>3, <1>4, SumOnUnfold, FS_EmptySet
  <2> HIDE DEF F
  <2> QED
    BY <2>1
<1>5. CASE u # {}
  <2>1. PICK p \in u : TRUE
    BY <1>5
  <2>2. F(u) = f[p] + F(u \ {p}) /\ F(u \ {p}) \in Nat
    BY <1>2, <1>3, <2>1, SumOnSplit
  <2>3. Cardinality(u \ {p}) = Cardinality(u) - 1 /\ Cardinality(u) \in Nat
    BY <1>2, <2>1, FS_RemoveElement, FS_CardinalityType
  <2>4. F(u \ {p}) = Cardinality(u \ {p})
    BY <1>2, <2>1
  <2>5. F(u) # Cardinality(u)
    OBVIOUS
  <2> HIDE DEF F
  <2> QED
    BY <1>3, <2>1, <2>2, <2>3, <2>4, <2>5
<1> QED
  BY <1>4, <1>5

\* Floored division of naturals.
LEMMA FloorDiv ==
    ASSUME NEW x \in Nat, NEW y \in Nat \ {0}
    PROVE  /\ x \div y \in Nat
           /\ y * (x \div y) <= x
           /\ x < y * (x \div y) + y
  OBVIOUS

-----------------------------------------------------------------------------
(* HasSum *)

PartialSums(n, f, S) ==
    /\ S[0] = 0
    /\ \A i \in 1..n : S[i] = S[i - 1] + f[i]
    /\ \A i, j \in 0..n : i <= j => S[i] <= S[j]
    /\ \A i, j \in 0..n : i < j /\ S[i] < S[j] => \E k \in 1..n : i < k /\ k <= j /\ f[k] > 0

HasSum(n, f, t) == \E S \in [0..n -> Nat] : PartialSums(n, f, S) /\ S[n] = t

\* The sum of zeros is zero.
LEMMA SumZero ==
    ASSUME NEW n \in Nat, NEW f, \A i \in 1..n : f[i] = 0
    PROVE  HasSum(n, f, 0)
<1> DEFINE S == [i \in 0..n |-> 0]
<1>1. PartialSums(n, f, S) /\ S[n] = 0
  BY DEF PartialSums
<1> QED
  BY <1>1 DEF HasSum

\* A sum is a natural number.
LEMMA SumNat ==
    ASSUME NEW n \in Nat, NEW f, NEW t, HasSum(n, f, t)
    PROVE  t \in Nat
  BY DEF HasSum, PartialSums

\* No term exceeds the sum.
LEMMA SumBound ==
    ASSUME NEW n \in Nat, NEW f \in [1..n -> Nat], NEW t, HasSum(n, f, t), NEW k \in 1..n
    PROVE  f[k] <= t
<1>1. PICK S \in [0..n -> Nat] : PartialSums(n, f, S) /\ S[n] = t
  BY DEF HasSum
<1>2. k \in 0..n /\ k - 1 \in 0..n /\ n \in 0..n /\ k <= n
  OBVIOUS
<1>3. S[k] = S[k - 1] + f[k] /\ S[k - 1] \in Nat /\ S[k] <= S[n]
  BY <1>1, <1>2 DEF PartialSums
<1> QED
  BY <1>1, <1>3

\* A positive sum has a positive term.
LEMMA SumPositive ==
    ASSUME NEW n \in Nat, NEW f, NEW t, HasSum(n, f, t), t > 0
    PROVE  \E k \in 1..n : f[k] > 0
<1>1. PICK S \in [0..n -> Nat] : PartialSums(n, f, S) /\ S[n] = t
  BY DEF HasSum
<1>2. 0 < n /\ S[0] < S[n]
  BY <1>1 DEF PartialSums
<1> QED
  BY <1>1, <1>2 DEF PartialSums

\* Changing one term changes the sum by the same amount.
LEMMA SumChange ==
    ASSUME NEW n \in Nat, NEW f \in [1..n -> Nat], NEW g \in [1..n -> Nat], NEW t,
           HasSum(n, f, t), NEW k \in 1..n, \A i \in 1..n : i # k => g[i] = f[i]
    PROVE  HasSum(n, g, t - f[k] + g[k])
<1>1. PICK S \in [0..n -> Nat] : PartialSums(n, f, S) /\ S[n] = t
  BY DEF HasSum
<1> DEFINE T == [i \in 0..n |-> IF i < k THEN S[i] ELSE S[i] - f[k] + g[k]]
<1>2. \A i \in 0..n : S[i] \in Nat /\ (i >= k => S[i] >= S[k])
  BY <1>1 DEF PartialSums
<1>3. S[k] = S[k - 1] + f[k] /\ f[k] \in Nat /\ g[k] \in Nat /\ S[k - 1] \in Nat /\ S[k] \in Nat
  BY <1>1, <1>2 DEF PartialSums
<1>k. k \in 0..n /\ k - 1 \in 0..n
  OBVIOUS
<1>4. T \in [0..n -> Nat]
  <2>1. ASSUME NEW i \in 0..n, i >= k PROVE S[i] - f[k] + g[k] \in Nat
    <3> DEFINE a == S[i]
               b == S[k]
               c == S[k - 1]
               d == f[k]
               e == g[k]
    <3>1. a \in Nat /\ a >= b /\ b = c + d /\ c \in Nat /\ d \in Nat /\ e \in Nat
      BY <1>2, <1>3, <2>1
    <3> HIDE DEF a, b, c, d, e
    <3>2. a - d + e \in Nat
      BY <3>1
    <3> QED
      BY <3>2 DEF a, d, e
  <2>2. ASSUME NEW i \in 0..n PROVE T[i] \in Nat
    <3>1. CASE i < k
      BY <1>2, <3>1
    <3>2. CASE ~(i < k)
      <4>1. i >= k
        BY <3>2
      <4> QED
        BY <2>1, <3>2, <4>1
    <3> QED
      BY <3>1, <3>2
  <2>3. T = [i \in 0..n |-> T[i]]
    OBVIOUS
  <2> HIDE DEF T
  <2> QED
    BY <2>2, <2>3
<1>5. T[0] = 0
  BY <1>1 DEF PartialSums
<1>6. ASSUME NEW i \in 1..n PROVE T[i] = T[i - 1] + g[i]
  <2>0. i \in 0..n /\ i - 1 \in 0..n
    OBVIOUS
  <2>1. S[i] = S[i - 1] + f[i] /\ S[i - 1] \in Nat /\ S[i] \in Nat
    <3> HIDE DEF T
    <3>1. S[i - 1] \in Nat /\ S[i] \in Nat
      BY <1>2, <2>0
    <3>2. S[i] = S[i - 1] + f[i]
      BY <1>1 DEF PartialSums
    <3> QED
      BY <3>1, <3>2
  <2>2. CASE i < k
    BY <2>1, <2>2
  <2>3. CASE i = k
    BY <2>1, <2>3, <1>3
  <2>4. CASE i > k
    <3>1. g[i] = f[i] /\ ~(i < k) /\ ~(i - 1 < k) /\ i - 1 \in 0..n /\ i \in 0..n
      BY <2>4
    <3>2. T[i] = S[i] - f[k] + g[k] /\ T[i - 1] = S[i - 1] - f[k] + g[k]
      BY <3>1
    <3>3. \A a, b, c, d \in Int : (a + b) - c + d = (a - c + d) + b
      OBVIOUS
    <3>4. S[i - 1] \in Int /\ f[i] \in Int /\ f[k] \in Int /\ g[k] \in Int
      BY <2>1, <1>3
    <3> HIDE DEF T
    <3> QED
      BY <2>1, <3>1, <3>2, <3>3, <3>4, SMTT(30)
  <2> QED
    BY <2>2, <2>3, <2>4
<1>7. ASSUME NEW i \in 0..n, NEW j \in 0..n, i <= j PROVE T[i] <= T[j]
  <2>1. S[i] <= S[j] /\ S[i] \in Nat /\ S[j] \in Nat
    BY <1>1, <1>2, <1>7 DEF PartialSums
  <2>2. CASE i < k /\ k <= j
    <3>1. i <= k - 1
      BY <2>2
    <3>2. S[i] <= S[k - 1] /\ S[k] <= S[j]
      BY <1>1, <1>k, <2>2, <3>1 DEF PartialSums
    <3> QED
      BY <2>1, <2>2, <3>2, <1>3, SMTT(30)
  <2>3. CASE j < k
    BY <2>1, <2>3, <1>7, SMTT(30)
  <2>4. CASE k <= i
    BY <2>1, <2>4, <1>3, <1>7, SMTT(30)
  <2> QED
    BY <2>2, <2>3, <2>4
<1>8. ASSUME NEW i \in 0..n, NEW j \in 0..n, i < j, T[i] < T[j]
      PROVE  \E m \in 1..n : i < m /\ m <= j /\ g[m] > 0
  <2>0. S[i] \in Nat /\ S[j] \in Nat
    BY <1>2
  <2>1. CASE i < k /\ k <= j
    <3>1. CASE g[k] > 0
      BY <2>1, <3>1
    <3>2. CASE g[k] = 0 /\ S[i] < S[k - 1]
      <4>0. i < k - 1
        <5>1. S[k - 1] \in Nat /\ ~(S[k - 1] < S[k - 1])
          BY <1>3
        <5>2. i # k - 1
          BY <5>1, <3>2
        <5> QED
          BY <5>2, <2>1
      <4>1. PICK m \in 1..n : i < m /\ m <= k - 1 /\ f[m] > 0
        BY <1>1, <1>k, <4>0, <3>2 DEF PartialSums
      <4> QED
        BY <4>1, <2>1
    <3>3. CASE g[k] = 0 /\ ~(S[i] < S[k - 1])
      <4>1. S[i] <= S[k - 1]
        BY <1>1, <2>1 DEF PartialSums
      <4>2. S[k] < S[j]
        BY <1>8, <2>0, <2>1, <3>3, <4>1, <1>3, SMTT(30)
      <4>3. k < j
        BY <4>2, <2>1, <1>2
      <4>4. PICK m \in 1..n : k < m /\ m <= j /\ f[m] > 0
        BY <1>1, <4>2, <4>3 DEF PartialSums
      <4> QED
        BY <4>4, <2>1
    <3> QED
      BY <3>1, <3>2, <3>3, <1>3
  <2>2. CASE ~(i < k /\ k <= j)
    <3>1. S[i] < S[j]
      BY <1>8, <2>0, <2>2, <1>3
    <3>2. PICK m \in 1..n : i < m /\ m <= j /\ f[m] > 0
      BY <1>1, <1>8, <3>1 DEF PartialSums
    <3> QED
      BY <3>2, <2>2
  <2> QED
    BY <2>1, <2>2
<1>9. T[n] = t - f[k] + g[k]
  BY <1>1
<1> HIDE DEF T
<1>10. PartialSums(n, g, T)
  BY <1>4, <1>5, <1>6, <1>7, <1>8 DEF PartialSums
<1> QED
  BY <1>4, <1>9, <1>10 DEF HasSum

\* An interval is finite.
LEMMA IntervalFinite == \A n \in Int : IsFiniteSet(1..n)
<1> SUFFICES ASSUME NEW n \in Int PROVE IsFiniteSet(1..n)
  OBVIOUS
<1>1. 1 \in Int
  OBVIOUS
<1> QED
  BY <1>1, FS_Interval, Zenon

\* The sum of the partial sums is the fold's.
LEMMA SumIsTotal ==
    ASSUME NEW n \in Nat, NEW f \in [1..n -> Nat], NEW t, HasSum(n, f, t)
    PROVE  SumFunctionOnSet(f, 1..n) = t
<1>1. PICK S \in [0..n -> Nat] : PartialSums(n, f, S) /\ S[n] = t
  BY DEF HasSum
<1> DEFINE F(i) == SumFunctionOnSet(f, 1..i)
           Bad == {i \in 0..n : F(i) # S[i]}
<1>2. Bad = {}
  <2> SUFFICES ASSUME Bad # {} PROVE FALSE
    OBVIOUS
  <2>1. PICK i \in Bad : \A j \in Bad : i <= j
    <3>1. Bad \subseteq Nat
      OBVIOUS
    <3> HIDE DEF Bad
    <3> QED
      BY <3>1, LeastNatural
  <2>2. i \in 0..n /\ F(i) # S[i]
    OBVIOUS
  <2>3. CASE i = 0
    <3>1. 1..0 = {} /\ IsFiniteSet({}) /\ \A x \in {} : f[x] \in Nat
      BY FS_EmptySet
    <3>2. SumFunctionOnSet(f, {}) = 0
      BY <3>1, SumOnUnfold
    <3>3. F(0) = 0
      BY <3>1, <3>2
    <3>4. S[0] = 0
      BY <1>1 DEF PartialSums
    <3> HIDE DEF F
    <3> QED
      BY <2>2, <2>3, <3>3, <3>4
  <2>4. CASE i # 0
    <3>1. i - 1 \in 0..n /\ i - 1 \in Nat /\ i \in 1..n /\ ~(i <= i - 1)
      BY <2>2, <2>4
    <3>2. F(i - 1) = S[i - 1]
      BY <2>1, <3>1
    <3> DEFINE T == 1..(i - 1)
    <3>3. IsFiniteSet(T) /\ i \notin T /\ 1..i = T \cup {i} /\ \A y \in T \cup {i} : f[y] \in Nat
      BY <3>1, IntervalFinite
    <3>4. SumFunctionOnSet(f, T \cup {i}) = f[i] + SumFunctionOnSet(f, T)
      <4>1. IsFiniteSet(T) /\ i \notin T /\ \A y \in T \cup {i} : f[y] \in Nat
        BY <3>3
      <4> HIDE DEF T
      <4> QED
        BY <4>1, SumOnAdd
    <3>5. F(i) = f[i] + F(i - 1)
      BY <3>3, <3>4
    <3>6. S[i] = S[i - 1] + f[i] /\ S[i - 1] \in Nat /\ f[i] \in Nat
      BY <1>1, <3>1 DEF PartialSums
    <3> HIDE DEF F, T
    <3> QED
      BY <2>2, <3>2, <3>5, <3>6
  <2> QED
    BY <2>3, <2>4
<1>3. F(n) = S[n]
  BY <1>2
<1> QED
  BY <1>1, <1>3

\* The terms g over S are those of f over 1..n that are not zero.
Reindexes(n, f, S, g) ==
    /\ S \subseteq 1..n
    /\ \A x \in 1..n : x \notin S => f[x] = 0
    /\ \A x \in S : g[x] = f[x]

LEMMA SumIsTotalOn ==
    ASSUME NEW n \in Nat, NEW f \in [1..n -> Nat], NEW t, HasSum(n, f, t),
           NEW S, NEW g, Reindexes(n, f, S, g)
    PROVE  SumFunctionOnSet(g, S) = t
<1> USE DEF Reindexes
<1>0. IsFiniteSet(1..n)
  BY IntervalFinite
<1>1. IsFiniteSet(1..n) /\ IsFiniteSet(S)
  BY <1>0, FS_Subset
<1>2. SumFunctionOnSet(f, 1..n) = SumFunctionOnSet(f, S)
  BY <1>1, SumOnZeros
<1>3. SumFunctionOnSet(f, S) = SumFunctionOnSet(g, S)
  <2>1. \A y \in S : f[y] \in Nat /\ f[y] = g[y]
    OBVIOUS
  <2> QED
    BY <1>1, <2>1, SumOnSame
<1>4. SumFunctionOnSet(f, 1..n) = t
  BY SumIsTotal
<1> QED
  BY <1>2, <1>3, <1>4

\* A sum of nothing but zeros.
LEMMA SumOnNothing ==
    ASSUME NEW S, IsFiniteSet(S), NEW f, \A x \in S : f[x] = 0
    PROVE  SumFunctionOnSet(f, S) = 0
<1>1. IsFiniteSet({}) /\ {} \subseteq S /\ \A x \in {} : f[x] \in Nat
  BY FS_EmptySet
<1>2. SumFunctionOnSet(f, {}) = 0
  BY <1>1, SumOnUnfold
<1>3. \A x \in S : f[x] \in Nat /\ (x \notin {} => f[x] = 0)
  OBVIOUS
<1>4. SumFunctionOnSet(f, S) = SumFunctionOnSet(f, {})
  BY <1>1, <1>3, SumOnZeros
<1> QED
  BY <1>2, <1>4

\* Shares w of a pot F by stakes a out of W, each rounded down by less than one
\* unit: all of them together are rounded down by less than one unit each.
LEMMA SharesTogether ==
    ASSUME NEW S, IsFiniteSet(S), NEW F \in Nat, NEW W \in Nat \ {0}, NEW a, NEW w, NEW c,
           \A x \in S : /\ a[x] \in Nat /\ w[x] \in Nat /\ c[x] \in Nat
                        /\ W * w[x] <= F * a[x]
                        /\ F * a[x] <= W * w[x] + (W - 1) * c[x]
    PROVE  /\ W * SumFunctionOnSet(w, S) <= F * SumFunctionOnSet(a, S)
           /\ F * SumFunctionOnSet(a, S)
                <= W * SumFunctionOnSet(w, S) + (W - 1) * SumFunctionOnSet(c, S)
<1> DEFINE fa == [x \in S |-> F * a[x]]
           ww == [x \in S |-> W * w[x]]
           wc == [x \in S |-> (W - 1) * c[x]]
           top == [x \in S |-> ww[x] + wc[x]]
           Sum(f) == SumFunctionOnSet(f, S)
<1>1. W \in Nat /\ W - 1 \in Nat
  OBVIOUS
<1>2. \A x \in S : fa[x] \in Nat /\ ww[x] \in Nat /\ wc[x] \in Nat
  OBVIOUS
<1>3. \A x \in S : ww[x] <= fa[x] /\ fa[x] <= top[x] /\ top[x] \in Nat /\ top[x] = ww[x] + wc[x]
  BY <1>2
<1>4. /\ \A x \in S : a[x] \in Nat /\ fa[x] = F * a[x]
      /\ \A x \in S : w[x] \in Nat /\ ww[x] = W * w[x]
      /\ \A x \in S : c[x] \in Nat /\ wc[x] = (W - 1) * c[x]
  OBVIOUS
<1> HIDE DEF fa, ww, wc, top
<1>5. Sum(fa) = F * Sum(a)
  BY <1>4, SumOnTimes
<1>6. Sum(ww) = W * Sum(w)
  BY <1>1, <1>4, SumOnTimes
<1>7. Sum(wc) = (W - 1) * Sum(c)
  <2> DEFINE k == W - 1
  <2>1. k \in Nat /\ \A x \in S : c[x] \in Nat /\ wc[x] = k * c[x]
    BY <1>1, <1>4
  <2> HIDE DEF k
  <2>2. Sum(wc) = k * Sum(c)
    BY <2>1, SumOnTimes
  <2> QED
    BY <2>2 DEF k
<1>8. Sum(top) = Sum(ww) + Sum(wc)
  BY <1>2, <1>3, SumOnPlus
<1>9. Sum(ww) <= Sum(fa)
  BY <1>2, <1>3, SumOnMono
<1>10. Sum(fa) <= Sum(top)
  BY <1>2, <1>3, SumOnMono
<1> QED
  BY <1>5, <1>6, <1>7, <1>8, <1>9, <1>10

=============================================================================
