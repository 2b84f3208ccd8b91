------------------------ MODULE LedgerBalances_proofs ------------------------
(* Every saved balance is what its record says it is (SavedBalancesHold), for     *)
(* every set of accounts, amounts, starting tables and bounds, after any history  *)
(* of commands.                                                                   *)
(*                                                                                *)
(* Sums of rows come first: a finite sum splits over disjoint sets, whatever the  *)
(* order it is taken in.  Then Books, the inductive invariant: a balance is       *)
(* described by a version, a version is built on an earlier one of an earlier     *)
(* balance, and one that is still relied on adds up.  One lemma per kind of step  *)
(* shows that it keeps Books.                                                     *)
EXTENDS Ledger_proofs, Functions, WellFoundedInduction

(* -- Sums ----------------------------------------------------------------- *)

Sum(f, S) == SumFunctionOnSet(f, S)

Some(s) == CHOOSE x \in s : TRUE
Folded(f, S, g) ==
   g = [s \in SUBSET S |-> IF s = {} THEN 0 ELSE f[Some(s)] + g[s \ {Some(s)}]]

FoldOf(f, S) == CHOOSE g : Folded(f, S, g)

\* SumFunctionOnSet is a CHOOSE of a recursive function: its body, named once.
LEMMA Unfold == \A f, S : SumFunctionOnSet(f, S) = FoldOf(f, S)[S]
BY DEF SumFunctionOnSet, FoldFunctionOnSet, MapThenFoldSet, Folded, FoldOf, Some

\* Of the finite sets with a property, one has no proper subset with it.
LEMMA SmallestSubset ==
    ASSUME NEW S, IsFiniteSet(S), NEW bad \in SUBSET (SUBSET S), bad # {}
    PROVE  \E T \in bad : \A U \in SUBSET T : U # T => U \notin bad
<1>1. IsWellFoundedOn(StrictSubsetOrdering(S), FiniteSubsetsOf(S))
  BY FS_StrictSubsetOrderingWellFounded
<1>2. bad \subseteq FiniteSubsetsOf(S)
  BY FS_FiniteSubsetsOfFinite
<1>3. PICK T \in bad : \A U \in bad : <<U, T>> \notin StrictSubsetOrdering(S)
  BY <1>1, <1>2, WFMin
<1> SUFFICES ASSUME NEW U \in SUBSET T, U # T, U \in bad PROVE FALSE
  BY <1>3
<1>4. <<U, T>> \in StrictSubsetOrdering(S)
  BY DEF StrictSubsetOrdering
<1> QED
  BY <1>3, <1>4

\* The element the fold takes first is one of the set.
LEMMA SomeIn == \A s : s # {} => Some(s) \in s
BY DEF Some

\* A folded function, one element unfolded.
LEMMA FoldedAt ==
    ASSUME NEW f, NEW S, NEW g, Folded(f, S, g), NEW s \in SUBSET S
    PROVE  g[s] = IF s = {} THEN 0 ELSE f[Some(s)] + g[s \ {Some(s)}]
<1> DEFINE G == [t \in SUBSET S |-> IF t = {} THEN 0 ELSE f[Some(t)] + g[t \ {Some(t)}]]
<1>1. g = G
  BY DEF Folded
<1>2. G[s] = IF s = {} THEN 0 ELSE f[Some(s)] + g[s \ {Some(s)}]
  OBVIOUS
<1> HIDE DEF G
<1> QED
  BY <1>1, <1>2

\* Two folds of the same values agree on every set both are defined on.
LEMMA FoldedSame ==
    ASSUME NEW f, NEW S, IsFiniteSet(S), NEW g, Folded(f, S, g),
           NEW T \in SUBSET S, NEW h, Folded(f, T, h), NEW u \in SUBSET T
    PROVE  g[u] = h[u]
<1> DEFINE bad == {s \in SUBSET T : g[s] # h[s]}
<1> SUFFICES ASSUME bad # {} PROVE FALSE
  OBVIOUS
<1>1. IsFiniteSet(T) /\ bad \in SUBSET (SUBSET T)
  BY FS_Subset
<1> HIDE DEF bad
<1>2. PICK s \in bad : \A r \in SUBSET s : r # s => r \notin bad
  BY <1>1, SmallestSubset
<1>3. s \in SUBSET T /\ s \in SUBSET S /\ g[s] # h[s]
  BY <1>2 DEF bad
<1>4. /\ g[s] = IF s = {} THEN 0 ELSE f[Some(s)] + g[s \ {Some(s)}]
      /\ h[s] = IF s = {} THEN 0 ELSE f[Some(s)] + h[s \ {Some(s)}]
  BY <1>3, FoldedAt
<1>5. s # {} /\ Some(s) \in s
  BY <1>3, <1>4, SomeIn
<1>6. s \ {Some(s)} \notin bad
  BY <1>2, <1>5
<1>7. g[s \ {Some(s)}] = h[s \ {Some(s)}]
  BY <1>3, <1>6 DEF bad
<1> QED
  BY <1>3, <1>4, <1>7

\* A fold over a finite set exists, so the CHOOSE in the definition finds one.
LEMMA FoldedExists ==
    ASSUME NEW f, NEW S, IsFiniteSet(S)
    PROVE  \E g : Folded(f, S, g)
<1> DEFINE bad == {T \in SUBSET S : ~ \E g : Folded(f, T, g)}
<1> SUFFICES ASSUME bad # {} PROVE FALSE
  OBVIOUS
<1>1. bad \in SUBSET (SUBSET S)
  OBVIOUS
<1> HIDE DEF bad
<1>2. PICK T \in bad : \A U \in SUBSET T : U # T => U \notin bad
  BY <1>1, SmallestSubset
<1>3. T \in SUBSET S /\ ~ \E g : Folded(f, T, g)
  BY <1>2 DEF bad
<1>4. \A U \in SUBSET T : U # T => Folded(f, U, FoldOf(f, U)) /\ IsFiniteSet(U)
  <2> TAKE U \in SUBSET T
  <2> HAVE U # T
  <2>1. \E g : Folded(f, U, g)
    BY <1>2, <1>3 DEF bad
  <2> QED BY <2>1, <1>3, FS_Subset DEF FoldOf
<1> DEFINE g == [s \in SUBSET T |-> IF s = {} THEN 0
                                    ELSE f[Some(s)] + FoldOf(f, s \ {Some(s)})[s \ {Some(s)}]]
<1>5. \A u \in SUBSET T : u # T => g[u] = FoldOf(f, u)[u]
  <2> TAKE u \in SUBSET T
  <2> HAVE u # T
  <2>1. FoldOf(f, u)[u] = IF u = {} THEN 0 ELSE f[Some(u)] + FoldOf(f, u)[u \ {Some(u)}]
    BY <1>4, FoldedAt
  <2>2. CASE u = {}
    BY <2>1, <2>2
  <2>3. CASE u # {}
    <3> DEFINE v == u \ {Some(u)}
    <3>1. v \in SUBSET u /\ v \in SUBSET T /\ v # T /\ v \in SUBSET v
      BY <2>3, SomeIn
    <3> HIDE DEF v
    <3>2. FoldOf(f, u)[v] = FoldOf(f, v)[v]
      <4>1. IsFiniteSet(u) /\ Folded(f, u, FoldOf(f, u)) /\ Folded(f, v, FoldOf(f, v))
        BY <1>4, <3>1
      <4> QED BY <4>1, <3>1, FoldedSame
    <3> QED BY <2>1, <2>3, <3>2 DEF v
  <2> QED BY <2>2, <2>3
<1>6. g = [s \in SUBSET T |-> IF s = {} THEN 0 ELSE f[Some(s)] + g[s \ {Some(s)}]]
  <2>1. \A s \in SUBSET T : s # {} => s \ {Some(s)} \in SUBSET T /\ s \ {Some(s)} # T
    BY SomeIn
  <2>2. \A s \in SUBSET T : s # {} => g[s \ {Some(s)}] = FoldOf(f, s \ {Some(s)})[s \ {Some(s)}]
    BY <1>5, <2>1
  <2>3. \A s \in SUBSET T : g[s] = IF s = {} THEN 0
                                   ELSE f[Some(s)] + FoldOf(f, s \ {Some(s)})[s \ {Some(s)}]
    OBVIOUS
  <2>4. DOMAIN g = SUBSET T /\ g = [s \in SUBSET T |-> g[s]]
    OBVIOUS
  <2> HIDE DEF g
  <2> QED BY <2>2, <2>3, <2>4
<1> HIDE DEF g
<1> QED
  BY <1>3, <1>6 DEF Folded

\* A sum, its first element taken out: what the recursion computes.
LEMMA SumUnfolds ==
    ASSUME NEW f, NEW S, IsFiniteSet(S)
    PROVE  Sum(f, S) = IF S = {} THEN 0 ELSE f[Some(S)] + Sum(f, S \ {Some(S)})
<1> DEFINE U == S \ {Some(S)}
<1>1. IsFiniteSet(U) /\ U \in SUBSET S /\ S \in SUBSET S
  BY FS_Subset
<1>2. Folded(f, S, FoldOf(f, S)) /\ Folded(f, U, FoldOf(f, U))
  BY <1>1, FoldedExists DEF FoldOf
<1>3. Sum(f, S) = FoldOf(f, S)[S] /\ Sum(f, U) = FoldOf(f, U)[U]
  BY Unfold DEF Sum
<1>4. FoldOf(f, S)[S] = IF S = {} THEN 0 ELSE f[Some(S)] + FoldOf(f, S)[U]
  <2> DEFINE h == FoldOf(f, S)
  <2>1. Folded(f, S, h) /\ S \in SUBSET S
    BY <1>1, <1>2
  <2> HIDE DEF h
  <2>2. h[S] = IF S = {} THEN 0 ELSE f[Some(S)] + h[S \ {Some(S)}]
    BY <2>1, FoldedAt
  <2> QED BY <2>2 DEF h
<1> HIDE DEF U
<1>5. U \in SUBSET U
  OBVIOUS
<1>6. FoldOf(f, S)[U] = FoldOf(f, U)[U]
  BY <1>1, <1>2, <1>5, FoldedSame
<1> QED
  BY <1>3, <1>4, <1>6 DEF U

LEMMA SumOfNone == \A f : Sum(f, {}) = 0
BY SumUnfolds, FS_EmptySet

\* A finite sum of integers is an integer.
LEMMA SumInt ==
    ASSUME NEW f, NEW S, IsFiniteSet(S), \A x \in S : f[x] \in Int
    PROVE  Sum(f, S) \in Int
<1> DEFINE bad == {T \in SUBSET S : Sum(f, T) \notin Int}
<1> SUFFICES ASSUME bad # {} PROVE FALSE
  OBVIOUS
<1>1. bad \in SUBSET (SUBSET S)
  OBVIOUS
<1> HIDE DEF bad
<1>2. PICK T \in bad : \A U \in SUBSET T : U # T => U \notin bad
  BY <1>1, SmallestSubset
<1>3. T \in SUBSET S /\ Sum(f, T) \notin Int /\ IsFiniteSet(T)
  BY <1>2, FS_Subset DEF bad
<1>4. Sum(f, T) = IF T = {} THEN 0 ELSE f[Some(T)] + Sum(f, T \ {Some(T)})
  BY <1>3, SumUnfolds
<1>5. T # {} /\ Some(T) \in T
  BY <1>3, <1>4, SomeIn
<1>6. Sum(f, T \ {Some(T)}) \in Int
  BY <1>2, <1>3, <1>5 DEF bad
<1> QED
  BY <1>3, <1>4, <1>5, <1>6

\* Any element may be taken out first: a sum has no order.
LEMMA SumTakeOut ==
    ASSUME NEW f, NEW S, IsFiniteSet(S), \A x \in S : f[x] \in Int, NEW e \in S
    PROVE  Sum(f, S) = f[e] + Sum(f, S \ {e})
<1> DEFINE bad == {T \in SUBSET S : \E x \in T : Sum(f, T) # f[x] + Sum(f, T \ {x})}
<1> SUFFICES ASSUME bad # {} PROVE FALSE
  OBVIOUS
<1>1. bad \in SUBSET (SUBSET S)
  OBVIOUS
<1> HIDE DEF bad
<1>2. PICK T \in bad : \A U \in SUBSET T : U # T => U \notin bad
  BY <1>1, SmallestSubset
<1>3. T \in SUBSET S /\ IsFiniteSet(T)
  BY <1>2, FS_Subset DEF bad
<1>4. PICK x \in T : Sum(f, T) # f[x] + Sum(f, T \ {x})
  BY <1>2 DEF bad
<1> DEFINE p == Some(T)
<1>5. p \in T /\ Sum(f, T) = f[p] + Sum(f, T \ {p})
  BY <1>3, SumUnfolds, SomeIn
<1> HIDE DEF p
<1>6. p # x
  BY <1>4, <1>5
<1>7. Sum(f, T \ {p}) = f[x] + Sum(f, (T \ {p}) \ {x})
  <2>1. T \ {p} \notin bad /\ x \in T \ {p} /\ T \ {p} \in SUBSET S
    BY <1>2, <1>3, <1>5, <1>6
  <2> QED BY <2>1 DEF bad
<1>8. Sum(f, T \ {x}) = f[p] + Sum(f, (T \ {x}) \ {p})
  <2>1. T \ {x} \notin bad /\ p \in T \ {x} /\ T \ {x} \in SUBSET S
    BY <1>2, <1>3, <1>5, <1>6
  <2> QED BY <2>1 DEF bad
<1>9. (T \ {p}) \ {x} = (T \ {x}) \ {p}
  OBVIOUS
<1>10. Sum(f, (T \ {x}) \ {p}) \in Int
  <2>1. IsFiniteSet((T \ {x}) \ {p})
    BY <1>3, FS_Subset
  <2> QED BY <1>3, <2>1, SumInt
<1>11. f[p] \in Int /\ f[x] \in Int
  BY <1>3, <1>5
<1> DEFINE r == Sum(f, (T \ {x}) \ {p})
<1>12. Sum(f, T) = f[p] + (f[x] + r) /\ Sum(f, T \ {x}) = f[p] + r /\ r \in Int
  BY <1>5, <1>7, <1>8, <1>9, <1>10
<1> HIDE DEF r
<1>13. f[p] + (f[x] + r) = f[x] + (f[p] + r)
  BY <1>11, <1>12
<1> QED
  BY <1>4, <1>12, <1>13

LEMMA SumOfOne ==
    ASSUME NEW f, NEW e, f[e] \in Int
    PROVE  Sum(f, {e}) = f[e]
<1>1. IsFiniteSet({e}) /\ {e} \ {e} = {}
  BY FS_Singleton
<1> QED
  BY <1>1, SumTakeOut, SumOfNone

\* The sum over two disjoint finite sets is the sum of their sums.
LEMMA SumOfUnion ==
    ASSUME NEW f, NEW S, NEW T, IsFiniteSet(S), IsFiniteSet(T), S \cap T = {},
           \A x \in S \cup T : f[x] \in Int
    PROVE  Sum(f, S \cup T) = Sum(f, S) + Sum(f, T)
<1> DEFINE bad == {U \in SUBSET S : Sum(f, U \cup T) # Sum(f, U) + Sum(f, T)}
<1> SUFFICES ASSUME bad # {} PROVE FALSE
  OBVIOUS
<1>1. bad \in SUBSET (SUBSET S)
  OBVIOUS
<1> HIDE DEF bad
<1>2. PICK U \in bad : \A W \in SUBSET U : W # U => W \notin bad
  BY <1>1, SmallestSubset
<1>3. U \in SUBSET S /\ IsFiniteSet(U) /\ Sum(f, U \cup T) # Sum(f, U) + Sum(f, T)
  BY <1>2, FS_Subset DEF bad
<1>4. Sum(f, T) \in Int
  BY SumInt
<1>5. U # {}
  <2> SUFFICES ASSUME U = {} PROVE FALSE
    OBVIOUS
  <2>1. U \cup T = T /\ Sum(f, U) = 0
    BY SumOfNone
  <2>2. Sum(f, T) = 0 + Sum(f, T)
    BY <1>4
  <2> QED BY <1>3, <2>1, <2>2
<1>6. PICK e \in U : TRUE
  BY <1>5
<1>7. Sum(f, U) = f[e] + Sum(f, U \ {e})
  BY <1>3, SumTakeOut
<1>8. Sum(f, U \cup T) = f[e] + Sum(f, (U \cup T) \ {e})
  <2>1. IsFiniteSet(U \cup T) /\ e \in U \cup T
    BY <1>3, FS_Union
  <2> QED BY <1>3, <2>1, SumTakeOut
<1>9. (U \cup T) \ {e} = (U \ {e}) \cup T
  BY <1>3
<1>10. Sum(f, (U \ {e}) \cup T) = Sum(f, U \ {e}) + Sum(f, T)
  BY <1>2, <1>3 DEF bad
<1>11. f[e] \in Int /\ Sum(f, U \ {e}) \in Int
  <2>1. IsFiniteSet(U \ {e})
    BY <1>3, FS_Subset
  <2> QED BY <1>3, <2>1, SumInt
<1> DEFINE r == Sum(f, U \ {e})
<1> DEFINE t == Sum(f, T)
<1>12. Sum(f, U \cup T) = f[e] + (r + t) /\ Sum(f, U) = f[e] + r
  BY <1>7, <1>8, <1>9, <1>10
<1>13. r \in Int /\ t \in Int /\ Sum(f, T) = t
  BY <1>4, <1>11
<1> HIDE DEF r, t
<1>14. f[e] + (r + t) = (f[e] + r) + t
  BY <1>11, <1>13
<1> QED
  BY <1>3, <1>12, <1>13, <1>14

\* Sums of functions that agree on the set, or are each other's negatives there.
LEMMA SumSame ==
    ASSUME NEW f, NEW g, NEW S, IsFiniteSet(S), \A x \in S : f[x] = g[x]
    PROVE  Sum(f, S) = Sum(g, S)
<1> DEFINE bad == {T \in SUBSET S : Sum(f, T) # Sum(g, T)}
<1> SUFFICES ASSUME bad # {} PROVE FALSE
  OBVIOUS
<1>1. bad \in SUBSET (SUBSET S)
  OBVIOUS
<1> HIDE DEF bad
<1>2. PICK T \in bad : \A U \in SUBSET T : U # T => U \notin bad
  BY <1>1, SmallestSubset
<1>3. T \in SUBSET S /\ Sum(f, T) # Sum(g, T) /\ IsFiniteSet(T)
  BY <1>2, FS_Subset DEF bad
<1>4. /\ Sum(f, T) = IF T = {} THEN 0 ELSE f[Some(T)] + Sum(f, T \ {Some(T)})
      /\ Sum(g, T) = IF T = {} THEN 0 ELSE g[Some(T)] + Sum(g, T \ {Some(T)})
  BY <1>3, SumUnfolds
<1>5. T # {} /\ Some(T) \in T
  BY <1>3, <1>4, SomeIn
<1>6. Sum(f, T \ {Some(T)}) = Sum(g, T \ {Some(T)})
  BY <1>2, <1>3, <1>5 DEF bad
<1> QED
  BY <1>3, <1>4, <1>5, <1>6

\* Negated values sum to the negated sum.
LEMMA SumNegated ==
    ASSUME NEW f, NEW g, NEW S, IsFiniteSet(S), \A x \in S : f[x] \in Int /\ g[x] = -f[x]
    PROVE  Sum(g, S) = -Sum(f, S)
<1> DEFINE bad == {T \in SUBSET S : Sum(g, T) # -Sum(f, T)}
<1> SUFFICES ASSUME bad # {} PROVE FALSE
  OBVIOUS
<1>1. bad \in SUBSET (SUBSET S)
  OBVIOUS
<1> HIDE DEF bad
<1>2. PICK T \in bad : \A U \in SUBSET T : U # T => U \notin bad
  BY <1>1, SmallestSubset
<1>3. T \in SUBSET S /\ Sum(g, T) # -Sum(f, T) /\ IsFiniteSet(T)
  BY <1>2, FS_Subset DEF bad
<1>4. /\ Sum(f, T) = IF T = {} THEN 0 ELSE f[Some(T)] + Sum(f, T \ {Some(T)})
      /\ Sum(g, T) = IF T = {} THEN 0 ELSE g[Some(T)] + Sum(g, T \ {Some(T)})
  BY <1>3, SumUnfolds
<1>5. T # {} /\ Some(T) \in T
  BY <1>3, <1>4, SomeIn
<1>6. Sum(g, T \ {Some(T)}) = -Sum(f, T \ {Some(T)})
  BY <1>2, <1>3, <1>5 DEF bad
<1>7. Sum(f, T \ {Some(T)}) \in Int /\ f[Some(T)] \in Int /\ g[Some(T)] = -f[Some(T)]
  <2>1. IsFiniteSet(T \ {Some(T)})
    BY <1>3, FS_Subset
  <2> QED BY <1>3, <1>5, <2>1, SumInt
<1> QED
  BY <1>3, <1>4, <1>5, <1>6, <1>7

\* A finite set has a greatest element in a total order (given as a set of pairs).
LEMMA GreatestExists ==
    ASSUME NEW S, IsFiniteSet(S), S # {}, NEW R,
           \A x, y \in S : <<x, y>> \in R \/ <<y, x>> \in R,
           \A x, y, z \in S : <<x, y>> \in R /\ <<y, z>> \in R => <<x, z>> \in R
    PROVE  \E x \in S : \A y \in S : <<x, y>> \in R
<1> DEFINE Has(T) == \E x \in T : \A y \in T : <<x, y>> \in R
<1> DEFINE bad == {T \in SUBSET S : T # {} /\ ~Has(T)}
<1> SUFFICES ASSUME bad # {} PROVE FALSE
  BY DEF Has
<1>1. bad \in SUBSET (SUBSET S)
  OBVIOUS
<1> HIDE DEF bad
<1>2. PICK T \in bad : \A U \in SUBSET T : U # T => U \notin bad
  BY <1>1, SmallestSubset
<1>3. T \in SUBSET S /\ T # {} /\ ~Has(T)
  BY <1>2 DEF bad
<1>4. PICK e \in T : TRUE
  BY <1>3
<1> DEFINE U == T \ {e}
<1>5. U \in SUBSET S /\ U # T /\ U \in SUBSET T
  BY <1>3, <1>4
<1>6. CASE U = {}
  <2>1. \A y \in T : y = e
    BY <1>6
  <2> QED BY <1>3, <2>1
<1>7. CASE U # {}
  <2>1. PICK g \in U : \A y \in U : <<g, y>> \in R
    BY <1>2, <1>5, <1>7 DEF bad
  <2>2. CASE <<g, e>> \in R
    <3>1. \A y \in T : <<g, y>> \in R
      BY <2>1, <2>2
    <3> QED BY <1>3, <2>1, <3>1
  <2>3. CASE <<e, g>> \in R
    <3>1. \A y \in T : <<e, y>> \in R
      <4> TAKE y \in T
      <4>1. CASE y = e
        BY <4>1, <1>3, <1>4
      <4>2. CASE y # e
        BY <4>2, <2>1, <2>3, <1>3, <1>4
      <4> QED BY <4>1, <4>2
    <3> QED BY <1>3, <1>4, <3>1
  <2> QED BY <2>1, <2>2, <2>3, <1>3, <1>4
<1> QED
  BY <1>6, <1>7

\* A property some number up to n has, a least one has.
LEMMA LeastNumber ==
    ASSUME NEW n \in Nat, NEW B \in SUBSET (0 .. n), B # {}
    PROVE  \E m \in B : \A k \in B : m <= k
<1> DEFINE R == {p \in (0 .. n) \X (0 .. n) : p[1] <= p[2]}
<1>1. IsFiniteSet(B)
  <2>1. IsFiniteSet(0 .. n)
    BY FS_Interval
  <2> QED BY <2>1, FS_Subset
<1>2. \A x, y \in B : <<x, y>> \in R <=> x <= y
  OBVIOUS
<1> HIDE DEF R
<1>3. PICK x \in B : \A y \in B : <<x, y>> \in R
  <2>0. \A x, y \in B : x <= y \/ y <= x
    OBVIOUS
  <2>1. \A x, y \in B : <<x, y>> \in R \/ <<y, x>> \in R
    BY <2>0, <1>2
  <2>2. \A x, y, z \in B : <<x, y>> \in R /\ <<y, z>> \in R => <<x, z>> \in R
    BY <1>2
  <2> QED BY <1>1, <2>1, <2>2, GreatestExists
<1> QED
  BY <1>2, <1>3

\* A quantity carried along parents: own, on top of the parent's, for those in A.
Carries(n, A, p, own, d) == d = [c \in 0 .. n |-> IF c \notin A THEN 0 ELSE d[p[c]] + own[c]]
Carried(n, A, p, own) == CHOOSE d : Carries(n, A, p, own, d)

\* Differences carried along a chain of earlier balances: such a function exists
\* when every balance is built on an earlier one.
LEMMA CarriedExists ==
    ASSUME NEW n \in Nat, NEW A, NEW p, NEW own,
           \A c \in A \cap (0 .. n) : p[c] \in 0 .. c - 1
    PROVE  \E d : Carries(n, A, p, own, d)
<1> DEFINE bad == {m \in 0 .. n : ~ \E d : Carries(m, A, p, own, d)}
<1> SUFFICES ASSUME bad # {} PROVE FALSE
  OBVIOUS
<1>1. bad \in SUBSET (0 .. n)
  OBVIOUS
<1>2. \A m \in bad : m \in 0 .. n /\ ~ \E d : Carries(m, A, p, own, d)
  OBVIOUS
<1>3. \A m \in 0 .. n : m \notin bad => \E d : Carries(m, A, p, own, d)
  OBVIOUS
<1> HIDE DEF bad
<1>4. PICK m \in bad : \A k \in bad : m <= k
  BY <1>1, LeastNumber
<1>5. m \in 0 .. n
  BY <1>1
<1>6. CASE m = 0
  <2>1. 0 \notin A
    <3>1. 0 \in A => p[0] \in 0 .. -1
      BY <1>5, <1>6
    <3> QED BY <3>1
  <2> DEFINE d == [c \in 0 .. 0 |-> 0]
  <2>2. \A c \in 0 .. 0 : c \notin A
    BY <2>1
  <2>3. [c \in 0 .. 0 |-> IF c \notin A THEN 0 ELSE d[p[c]] + own[c]] = d
    BY <2>2
  <2> HIDE DEF d
  <2>4. Carries(0, A, p, own, d)
    BY <2>3 DEF Carries
  <2> QED BY <1>2, <1>4, <1>6, <2>4
<1>7. CASE m # 0
  <2>1. m - 1 \in 0 .. n /\ m - 1 \notin bad
    BY <1>4, <1>5, <1>7
  <2>2. PICK e : Carries(m - 1, A, p, own, e)
    BY <1>3, <2>1
  <2> DEFINE d == [c \in 0 .. m |-> IF c \in 0 .. m - 1 THEN e[c]
                                    ELSE IF c \notin A THEN 0 ELSE e[p[c]] + own[c]]
  <2>3. \A c \in 0 .. m - 1 : d[c] = e[c]
    BY <1>5
  <2>4. \A c \in 0 .. m - 1 : e[c] = IF c \notin A THEN 0 ELSE e[p[c]] + own[c]
    <3> DEFINE E == [c \in 0 .. m - 1 |-> IF c \notin A THEN 0 ELSE e[p[c]] + own[c]]
    <3>1. e = E
      BY <2>2 DEF Carries
    <3>2. \A c \in 0 .. m - 1 : E[c] = IF c \notin A THEN 0 ELSE e[p[c]] + own[c]
      OBVIOUS
    <3> HIDE DEF E
    <3> QED BY <3>1, <3>2
  <2>5. \A c \in 0 .. m : c \in A => p[c] \in 0 .. m - 1
    BY <1>5
  <2>6. \A c \in 0 .. m : d[c] = IF c \notin A THEN 0 ELSE d[p[c]] + own[c]
    <3> TAKE c \in 0 .. m
    <3>1. d[c] = IF c \in 0 .. m - 1 THEN e[c] ELSE IF c \notin A THEN 0 ELSE e[p[c]] + own[c]
      OBVIOUS
    <3> HIDE DEF d
    <3>2. c \in A => d[p[c]] = e[p[c]]
      BY <2>3, <2>5
    <3> QED BY <3>1, <3>2, <2>4
  <2>7. d = [c \in 0 .. m |-> d[c]]
    OBVIOUS
  <2> HIDE DEF d
  <2>8. Carries(m, A, p, own, d)
    BY <2>6, <2>7 DEF Carries
  <2> QED BY <1>2, <1>4, <2>8
<1> QED
  BY <1>6, <1>7

\* It satisfies its equation, and is a number where what each adds is one.
LEMMA CarriedFacts ==
    ASSUME NEW n \in Nat, NEW A, NEW p, NEW own, \A c \in A \cap (0 .. n) : p[c] \in 0 .. c - 1,
           NEW d, d = Carried(n, A, p, own)
    PROVE  /\ DOMAIN d = 0 .. n
           /\ \A c \in 0 .. n : d[c] = IF c \notin A THEN 0 ELSE d[p[c]] + own[c]
           /\ (\A c \in A \cap (0 .. n) : own[c] \in Int) => \A c \in 0 .. n : d[c] \in Int
<1> DEFINE E == [c \in 0 .. n |-> IF c \notin A THEN 0 ELSE d[p[c]] + own[c]]
<1>0. Carries(n, A, p, own, d)
  BY CarriedExists DEF Carried
<1>1. d = E
  BY <1>0 DEF Carries
<1>2. DOMAIN E = 0 .. n /\ \A c \in 0 .. n : E[c] = IF c \notin A THEN 0 ELSE d[p[c]] + own[c]
  OBVIOUS
<1> HIDE DEF E
<1>3. DOMAIN d = 0 .. n /\ \A c \in 0 .. n : d[c] = IF c \notin A THEN 0 ELSE d[p[c]] + own[c]
  BY <1>1, <1>2
<1>4. ASSUME \A c \in A \cap (0 .. n) : own[c] \in Int
      PROVE  \A c \in 0 .. n : d[c] \in Int
  <2> DEFINE bad == {c \in 0 .. n : d[c] \notin Int}
  <2> SUFFICES ASSUME bad # {} PROVE FALSE
    OBVIOUS
  <2>1. bad \in SUBSET (0 .. n) /\ \A c \in 0 .. n : c \in bad <=> d[c] \notin Int
    OBVIOUS
  <2> HIDE DEF bad
  <2>2. PICK c \in bad : \A k \in bad : c <= k
    BY <2>1, LeastNumber
  <2>3. c \in 0 .. n /\ d[c] \notin Int
    BY <2>1
  <2>4. c \in A
    BY <1>3, <2>3
  <2>5. p[c] \in 0 .. n /\ p[c] \notin bad
    BY <2>2, <2>3, <2>4
  <2>6. d[p[c]] \in Int /\ own[c] \in Int /\ d[c] = d[p[c]] + own[c]
    BY <1>3, <1>4, <2>1, <2>3, <2>4, <2>5
  <2> QED BY <2>3, <2>6
<1> QED
  BY <1>3, <1>4

(* -- Sums of rows ---------------------------------------------------------- *)

Worth(table) == [i \in DOMAIN table |-> table[i].amount]

\* The library's sum of a function restricted to a set is the sum over that set.
LEMMA SumRestricted ==
    ASSUME NEW f, NEW S, IsFiniteSet(S)
    PROVE  SumFunction([i \in S |-> f[i]]) = Sum(f, S)
<1> DEFINE g == [i \in S |-> f[i]]
<1>1. SumFunction(g) = SumFunctionOnSet(g, DOMAIN g)
  BY DEF SumFunction, SumFunctionOnSet, FoldFunction
<1>2. DOMAIN g = S /\ \A x \in S : g[x] = f[x]
  OBVIOUS
<1> HIDE DEF g
<1>3. SumFunction(g) = Sum(g, S)
  BY <1>1, <1>2 DEF Sum
<1> QED
  BY <1>2, <1>3, SumSame DEF g

\* The total of a set of rows, as a sum of the amounts of the table.
LEMMA TotalOfTable ==
    ASSUME NEW table, NEW S, S \subseteq DOMAIN table, IsFiniteSet(S)
    PROVE  SumFunction([i \in S |-> table[i].amount]) = Sum(Worth(table), S)
<1>1. [i \in S |-> table[i].amount] = [i \in S |-> Worth(table)[i]]
  BY DEF Worth
<1> QED
  BY <1>1, SumRestricted

LEMMA IdsFinite ==
    ASSUME TableOK, NEW S, S \subseteq Ids
    PROVE  IsFiniteSet(S)
<1>1. Len(rows) \in Nat /\ Ids = 1 .. Len(rows)
  BY RowFacts
<1>2. IsFiniteSet(1 .. Len(rows))
  BY <1>1, FS_Interval
<1> QED
  BY <1>1, <1>2, FS_Subset

(* -- Which checkpoint a balance starts from -------------------------------- *)

ResetsTyped == resets \in Seq(SavedBalances \cup {None})

\* What is kept is a checkpoint.
ResetFacts ==
    /\ Len(resets) \in Nat /\ DOMAIN resets = 1 .. Len(resets)
    /\ \A c \in DOMAIN resets : resets[c] # None => resets[c] \in SavedBalances

\* What a reader of a saved balance may take from its type.
LEMMA ResetsAre == ResetsTyped => ResetFacts
<1> SUFFICES ASSUME ResetsTyped PROVE ResetFacts
  OBVIOUS
<1>1. Len(resets) \in Nat /\ DOMAIN resets = 1 .. Len(resets)
      /\ resets \in [1 .. Len(resets) -> SavedBalances \cup {None}]
  BY LenProperties DEF ResetsTyped
<1> QED
  BY <1>1 DEF ResetFacts

LatestHolds ==
    \A a, d :
        /\ Eligible(a, d) = {} => LatestCheckpoint(a, d) = 0
        /\ Eligible(a, d) # {} =>
               /\ LatestCheckpoint(a, d) \in Eligible(a, d)
               /\ LatestCheckpoint(a, d) # 0
               /\ \A e \in Eligible(a, d) : Supersedes(LatestCheckpoint(a, d), e)
        /\ \A c \in Eligible(a, d) :
               (\A e \in Eligible(a, d) : Supersedes(c, e)) => LatestCheckpoint(a, d) = c

\* Checkpoints are totally ordered, so one of those eligible supersedes the others.
LEMMA LatestFacts == ResetsTyped => LatestHolds
<1> SUFFICES ASSUME ResetsTyped, NEW a, NEW d
             PROVE  /\ Eligible(a, d) = {} => LatestCheckpoint(a, d) = 0
                    /\ Eligible(a, d) # {} =>
                           /\ LatestCheckpoint(a, d) \in Eligible(a, d)
                           /\ LatestCheckpoint(a, d) # 0
                           /\ \A e \in Eligible(a, d) : Supersedes(LatestCheckpoint(a, d), e)
                    /\ \A c \in Eligible(a, d) :
                           (\A e \in Eligible(a, d) : Supersedes(c, e))
                           => LatestCheckpoint(a, d) = c
  BY DEF LatestHolds
<1>1. /\ Len(resets) \in Nat
      /\ Eligible(a, d) \in SUBSET (1 .. Len(resets))
      /\ \A c \in Eligible(a, d) : resets[c] \in SavedBalances
  BY ResetsAre DEF ResetFacts, Eligible, Checkpoints
<1> DEFINE S == Eligible(a, d)
<1>2. \A c \in S : c \in Nat /\ c # 0 /\ resets[c].effective \in Int /\ resets[c].cutoff \in Int
  BY <1>1 DEF SavedBalances
<1>3. IsFiniteSet(S)
  <2>1. IsFiniteSet(1 .. Len(resets)) /\ S \in SUBSET (1 .. Len(resets))
    BY <1>1, FS_Interval
  <2> HIDE DEF S
  <2> QED BY <2>1, FS_Subset
<1> HIDE DEF S
<1>4. \A x, y \in S : Supersedes(x, y) \/ Supersedes(y, x)
  BY <1>2 DEF Supersedes
<1>5. \A x, y, z \in S : Supersedes(x, y) /\ Supersedes(y, z) => Supersedes(x, z)
  BY <1>2 DEF Supersedes
<1>6. \A x, y \in S : Supersedes(x, y) /\ Supersedes(y, x) => x = y
  BY <1>2 DEF Supersedes
<1>7. S # {} => \E x \in S : \A y \in S : Supersedes(x, y)
  <2> SUFFICES ASSUME S # {} PROVE \E x \in S : \A y \in S : Supersedes(x, y)
    OBVIOUS
  <2> DEFINE R == {p \in S \X S : Supersedes(p[1], p[2])}
  <2>1. \A x, y \in S : <<x, y>> \in R <=> Supersedes(x, y)
    OBVIOUS
  <2> HIDE DEF R
  <2>2. \A x, y \in S : <<x, y>> \in R \/ <<y, x>> \in R
    BY <1>4, <2>1
  <2>3. \A x, y, z \in S : <<x, y>> \in R /\ <<y, z>> \in R => <<x, z>> \in R
    BY <1>5, <2>1
  <2>4. \E x \in S : \A y \in S : <<x, y>> \in R
    BY <1>3, <2>2, <2>3, GreatestExists
  <2> QED BY <2>1, <2>4
<1>8. S # {} => LatestCheckpoint(a, d) = CHOOSE c \in S : \A e \in S : Supersedes(c, e)
  BY DEF LatestCheckpoint, S
<1>9. S # {} => LatestCheckpoint(a, d) \in S
                /\ \A e \in S : Supersedes(LatestCheckpoint(a, d), e)
  BY <1>7, <1>8
<1>10. S = {} => LatestCheckpoint(a, d) = 0
  BY DEF LatestCheckpoint, S
<1>11. \A c \in S : (\A e \in S : Supersedes(c, e)) => LatestCheckpoint(a, d) = c
  BY <1>6, <1>9
<1> QED
  BY <1>2, <1>9, <1>10, <1>11 DEF S

\* The same after a step.
LEMMA LatestFactsNext == ResetsTyped' => LatestHolds' /\ ResetFacts'
<1>1. ResetsTyped => LatestHolds /\ ResetFacts
  BY LatestFacts, ResetsAre
<1> QED
  BY <1>1, PTL

\* A mark handed down from parents: on those in B, and on those in A below a marked one.
Marks(n, A, B, p, f) == f = [v \in 0 .. n |-> v \in A /\ (v \in B \/ f[p[v]])]

\* A mark that follows the chain of earlier versions: such a function exists.
LEMMA MarksExist ==
    ASSUME NEW n \in Nat, NEW A, NEW B, NEW p,
           \A v \in (A \ B) \cap (0 .. n) : p[v] \in 0 .. v - 1
    PROVE  \E f : Marks(n, A, B, p, f)
<1> DEFINE bad == {m \in 0 .. n : ~ \E f : Marks(m, A, B, p, f)}
<1> SUFFICES ASSUME bad # {} PROVE FALSE
  OBVIOUS
<1>1. bad \in SUBSET (0 .. n)
  OBVIOUS
<1>2. \A m \in bad : m \in 0 .. n /\ ~ \E f : Marks(m, A, B, p, f)
  OBVIOUS
<1>3. \A m \in 0 .. n : m \notin bad => \E f : Marks(m, A, B, p, f)
  OBVIOUS
<1> HIDE DEF bad
<1>4. PICK m \in bad : \A k \in bad : m <= k
  BY <1>1, LeastNumber
<1>5. m \in 0 .. n
  BY <1>1
<1>6. CASE m = 0
  <2>1. 0 \notin A \/ 0 \in B
    <3>1. 0 \in A \ B => p[0] \in 0 .. -1
      BY <1>5, <1>6
    <3> QED BY <3>1
  <2> DEFINE f == [v \in 0 .. 0 |-> v \in A]
  <2>2. [v \in 0 .. 0 |-> v \in A /\ (v \in B \/ f[p[v]])] = f
    BY <2>1
  <2> HIDE DEF f
  <2>3. Marks(0, A, B, p, f)
    BY <2>2 DEF Marks
  <2> QED BY <1>2, <1>4, <1>6, <2>3
<1>7. CASE m # 0
  <2>1. m - 1 \in 0 .. n /\ m - 1 \notin bad
    BY <1>4, <1>5, <1>7
  <2>2. PICK e : Marks(m - 1, A, B, p, e)
    BY <1>3, <2>1
  <2> DEFINE E == [v \in 0 .. m - 1 |-> v \in A /\ (v \in B \/ e[p[v]])]
  <2> DEFINE f == [v \in 0 .. m |-> IF v \in 0 .. m - 1 THEN e[v]
                                    ELSE v \in A /\ (v \in B \/ e[p[v]])]
  <2>3. \A v \in 0 .. m - 1 : f[v] = e[v]
    BY <1>5
  <2>4. e = E
    BY <2>2 DEF Marks
  <2>5. \A v \in 0 .. m - 1 : E[v] = (v \in A /\ (v \in B \/ e[p[v]]))
    OBVIOUS
  <2>6. \A v \in 0 .. m : f[v] = IF v \in 0 .. m - 1 THEN e[v]
                                 ELSE v \in A /\ (v \in B \/ e[p[v]])
    OBVIOUS
  <2>7. f = [v \in 0 .. m |-> f[v]]
    OBVIOUS
  <2> HIDE DEF E, f
  <2>8. \A v \in 0 .. m : f[v] = (v \in A /\ (v \in B \/ e[p[v]]))
    BY <2>4, <2>5, <2>6
  <2>9. \A v \in 0 .. m : v \in A \ B => p[v] \in 0 .. m - 1
    BY <1>5
  <2>10. \A v \in 0 .. m : f[v] = (v \in A /\ (v \in B \/ f[p[v]]))
    <3> TAKE v \in 0 .. m
    <3>1. v \in A \ B => f[p[v]] = e[p[v]]
      BY <2>3, <2>9
    <3> QED BY <2>8, <3>1
  <2>11. Marks(m, A, B, p, f)
    BY <2>7, <2>10 DEF Marks
  <2> QED BY <1>2, <1>4, <2>11
<1> QED
  BY <1>6, <1>7

\* and it is the one the chain prescribes: a version is marked when it, or one it
\* was built on, is in the set.
LEMMA MarksAre ==
    ASSUME NEW n \in Nat, NEW A, NEW B, NEW p, NEW f, Marks(n, A, B, p, f)
    PROVE  \A v \in 0 .. n : f[v] = (v \in A /\ (v \in B \/ f[p[v]]))
<1> DEFINE F == [v \in 0 .. n |-> v \in A /\ (v \in B \/ f[p[v]])]
<1>1. f = F
  BY DEF Marks
<1>2. \A v \in 0 .. n : F[v] = (v \in A /\ (v \in B \/ f[p[v]]))
  OBVIOUS
<1> HIDE DEF F
<1> QED
  BY <1>1, <1>2

\* A sequence, longer.
LEMMA Joined ==
    ASSUME NEW S, NEW s \in Seq(S), NEW k \in Nat, NEW t \in [1 .. k -> S]
    PROVE  /\ Len(s) \in Nat /\ DOMAIN s = 1 .. Len(s)
           /\ s \o t \in Seq(S) /\ Len(s \o t) = Len(s) + k
           /\ DOMAIN (s \o t) = 1 .. Len(s) + k
           /\ \A i \in 1 .. Len(s) : (s \o t)[i] = s[i]
           /\ \A n \in 1 .. k : (s \o t)[Len(s) + n] = t[n]
<1>1. t \in Seq(S) /\ Len(t) = k
  <2>1. t \in Seq(S)
    BY SeqDef
  <2>2. DOMAIN t = 1 .. k /\ DOMAIN t = 1 .. Len(t) /\ Len(t) \in Nat
    BY <2>1, LenProperties
  <2>3. \A i, j \in Nat : 1 .. i = 1 .. j => i = j
    OBVIOUS
  <2> QED BY <2>1, <2>2, <2>3
<1>2. Len(s) \in Nat /\ DOMAIN s = 1 .. Len(s)
  BY LenProperties
<1>3. /\ s \o t \in Seq(S)
      /\ Len(s \o t) = Len(s) + Len(t)
      /\ \A i \in 1 .. Len(s) + Len(t) :
             (s \o t)[i] = IF i <= Len(s) THEN s[i] ELSE t[i - Len(s)]
  BY <1>1, ConcatProperties
<1>4. DOMAIN (s \o t) = 1 .. Len(s) + k
  BY <1>1, <1>3, LenProperties
<1>5. \A i \in 1 .. Len(s) : (s \o t)[i] = s[i]
  BY <1>1, <1>2, <1>3
<1>6. \A n \in 1 .. k : (s \o t)[Len(s) + n] = t[n]
  <2> TAKE n \in 1 .. k
  <2>1. Len(s) + n \in 1 .. Len(s) + Len(t) /\ ~(Len(s) + n <= Len(s)) /\ (Len(s) + n) - Len(s) = n
    BY <1>1, <1>2
  <2> QED BY <1>3, <2>1
<1> QED
  BY <1>1, <1>2, <1>3, <1>4, <1>5, <1>6

(* -- What the saved balances and their versions are ------------------------ *)

VersionsTyped == versions \in Seq(SavedVersions \cup {None})

\* A saved balance is through a day that is over, and starts to count by today.
Placed ==
    \A c \in DOMAIN resets : resets[c] # None =>
        /\ -1 <= resets[c].cutoff /\ resets[c].cutoff <= today - 1
        /\ resets[c].effective <= today

\* A version is of a saved balance of its account, built on an earlier version of an
\* earlier one, or on nothing.
LinkedUp(v) ==
    /\ v.parentCutoff <= v.cutoff
    /\ v.parent = 0 => v.parentCutoff = -1
    /\ v.parent # 0 => /\ v.parent \in DOMAIN versions /\ versions[v.parent] # None
                       /\ versions[v.parent].account = v.account
                       /\ versions[v.parent].reset < v.reset
Chained ==
    \A n \in DOMAIN versions : versions[n] # None =>
        /\ versions[n].reset \in DOMAIN resets
        /\ resets[versions[n].reset] # None
        /\ resets[versions[n].reset].account = versions[n].account
        /\ versions[n].parent < n
        /\ LinkedUp(versions[n])

\* The current version of a saved balance says of it what it is.
Describes(v, c, r) ==
    /\ v.reset = c /\ v.account = r.account /\ v.cutoff = r.cutoff
    /\ v.effective = r.effective /\ v.balance = r.balance
Current ==
    \A c \in DOMAIN resets : resets[c] # None =>
        /\ resets[c].version \in DOMAIN versions
        /\ V(c) # None
        /\ Describes(V(c), c, resets[c])

\* What a version counted adds up to its balance.
Quantities(m) == [i \in DOMAIN m |-> m[i].quantity]
Starts(v) == IF v.parent = 0 THEN v.opens ELSE v.parentBalance
AddsUp(v) ==
    /\ Starts(v) \in Int
    /\ \A i \in DOMAIN v.members : v.members[i].day <= v.cutoff /\ v.members[i].day > v.parentCutoff
    /\ Starts(v) + SumFunction(Quantities(v.members)) = v.balance
Trusted(v) == v.kind = "automatic" /\ v.integrity = "trusted"
Balanced == \A n \in DOMAIN versions : versions[n] # None /\ Trusted(versions[n]) => AddsUp(versions[n])

\* A version that is still relied on was built on a saved balance as it still is.
BuiltOn(v, p, r) == /\ r # None /\ r.version = v.parent
                    /\ r.cutoff = v.parentCutoff /\ r.balance = v.parentBalance
Followed ==
    \A c \in DOMAIN resets : resets[c] # None /\ Trusted(V(c)) /\ V(c).parent # 0 =>
        BuiltOn(V(c), versions[V(c).parent].reset, resets[versions[V(c).parent].reset])

Books == /\ ResetsTyped /\ VersionsTyped /\ Placed
         /\ Chained /\ Current /\ Balanced /\ Followed

\* What a reader of a version may take from its type.
LEMMA VersionsAre ==
    ASSUME VersionsTyped
    PROVE  /\ Len(versions) \in Nat /\ DOMAIN versions = 1 .. Len(versions)
           /\ \A n \in DOMAIN versions : versions[n] # None => versions[n] \in SavedVersions
<1>1. Len(versions) \in Nat /\ DOMAIN versions = 1 .. Len(versions)
      /\ versions \in [1 .. Len(versions) -> SavedVersions \cup {None}]
  BY LenProperties DEF VersionsTyped
<1> QED
  BY <1>1

\* A version or a checkpoint is something.
LEMMA Something ==
    /\ \A v \in SavedVersions : v # None
    /\ \A r \in SavedBalances : r # None
BY LedgerAssumption DEF LedgerAssumption

\* That what is saved holds is what the application's checks look for.
LEMMA ChainWhole ==
    ASSUME VersionsTyped, Chained, NEW a, NEW v \in DOMAIN versions,
           versions[v] # None, versions[v].account = a
    PROVE  ~BrokenChain(a, v) /\ ~BrokenChain(a, 0)
<1>1. Len(versions) \in Nat /\ DOMAIN versions = 1 .. Len(versions)
      /\ \A n \in DOMAIN versions : versions[n] # None => versions[n] \in SavedVersions
  BY VersionsAre
<1> DEFINE n == Len(versions)
<1> DEFINE A == 1 .. n
<1> DEFINE B == {w \in 1 .. n : versions[w] = None \/ versions[w].account # a}
<1> DEFINE p == [w \in 1 .. n |-> versions[w].parent]
<1> DEFINE Is(f) == f = [w \in 0 .. n |-> w # 0 /\ (versions[w] = None \/ versions[w].account # a
                                                   \/ f[versions[w].parent])]
<1> DEFINE broken == CHOOSE f : Is(f)
<1>2. \A w \in (A \ B) \cap (0 .. n) : p[w] \in 0 .. w - 1
  <2> TAKE w \in (A \ B) \cap (0 .. n)
  <2>1. w \in DOMAIN versions /\ versions[w] # None /\ p[w] = versions[w].parent
    BY <1>1
  <2>2. versions[w].parent < w /\ versions[w].parent \in Nat /\ w \in Nat
    BY <1>1, <2>1 DEF Chained, SavedVersions
  <2> QED BY <2>1, <2>2
<1>3. \A f : Is(f) <=> Marks(n, A, B, p, f)
  <2> TAKE f
  <2> DEFINE F == [w \in 0 .. n |-> w # 0 /\ (versions[w] = None \/ versions[w].account # a
                                                   \/ f[versions[w].parent])]
  <2> DEFINE G == [w \in 0 .. n |-> w \in A /\ (w \in B \/ f[p[w]])]
  <2>1. \A w \in 0 .. n : F[w] = G[w]
    <3> TAKE w \in 0 .. n
    <3>1. w # 0 <=> w \in A
      BY <1>1
    <3>2. w \in A => p[w] = versions[w].parent
                     /\ (w \in B <=> (versions[w] = None \/ versions[w].account # a))
      OBVIOUS
    <3> HIDE DEF A, B, p
    <3> QED BY <3>1, <3>2
  <2>2. F = G
    <3>1. F = [w \in 0 .. n |-> F[w]] /\ G = [w \in 0 .. n |-> G[w]]
      OBVIOUS
    <3> HIDE DEF F, G
    <3> QED BY <2>1, <3>1
  <2>3. Is(f) <=> f = F
    OBVIOUS
  <2>4. Marks(n, A, B, p, f) <=> f = G
    BY DEF Marks
  <2> HIDE DEF F, G, Is
  <2> QED BY <2>2, <2>3, <2>4
<1>4. \A w : BrokenChain(a, w) = broken[w]
  BY DEF BrokenChain
<1> HIDE DEF A, B, p, Is
<1>5. \E f : Marks(n, A, B, p, f)
  BY <1>1, <1>2, MarksExist
<1>6. Is(broken)
  BY <1>3, <1>5
<1> HIDE DEF broken
<1>7. \A w \in 0 .. n : broken[w] = (w \in A /\ (w \in B \/ broken[p[w]]))
  BY <1>1, <1>3, <1>6, MarksAre
<1>8. ~broken[0]
  <2>1. 0 \in 0 .. n /\ 0 \notin A
    BY <1>1 DEF A
  <2> QED BY <1>7, <2>1
<1> DEFINE bad == {w \in 0 .. n : w # 0 /\ versions[w] # None /\ versions[w].account = a /\ broken[w]}
<1>9. bad = {}
  <2> SUFFICES ASSUME bad # {} PROVE FALSE
    OBVIOUS
  <2>1. bad \in SUBSET (0 .. n)
    OBVIOUS
  <2>2. PICK w \in bad : \A k \in bad : w <= k
    BY <1>1, <2>1, LeastNumber
  <2>3. w \in 0 .. n /\ w # 0 /\ versions[w] # None /\ versions[w].account = a /\ broken[w]
    OBVIOUS
  <2>4. w \in DOMAIN versions /\ w \in A /\ w \notin B /\ p[w] = versions[w].parent
    BY <1>1, <2>3 DEF A, B, p
  <2>5. broken[versions[w].parent]
    BY <1>7, <2>3, <2>4
  <2>6. versions[w].parent \in Nat /\ versions[w].parent < w /\ versions[w].parent # 0
    BY <1>1, <1>8, <2>4, <2>3, <2>5 DEF Chained, SavedVersions
  <2>7. versions[versions[w].parent] # None /\ versions[versions[w].parent].account = a
    BY <2>3, <2>4, <2>6 DEF Chained, LinkedUp
  <2>8. versions[w].parent \in bad
    BY <2>3, <2>5, <2>6, <2>7
  <2> QED BY <2>2, <2>3, <2>6, <2>8
<1>10. v \in 0 .. n /\ v # 0
  BY <1>1
<1> QED
  BY <1>4, <1>8, <1>9, <1>10

\* Books says more than SavedBalancesHold: a trusted version adds up, and its saved
\* balance carries that version's figure.
LEMMA BooksHold == Books => SavedBalancesHold
<1> SUFFICES ASSUME Books, NEW a \in accounts
             PROVE  ~Mislabelled(a) /\ \A c \in Checkpoints(a) : ~Damaged(a, c)
  BY DEF SavedBalancesHold
<1>1. \A c \in Checkpoints(a) : /\ c \in DOMAIN resets /\ resets[c] # None /\ resets[c].account = a
                                /\ V(c) # None /\ resets[c].version \in DOMAIN versions
                                /\ Describes(V(c), c, resets[c])
  BY DEF Books, Current, Checkpoints
<1>2. ~Mislabelled(a)
  BY <1>1 DEF Mislabelled, Describes
<1>3. ASSUME NEW c \in Checkpoints(a) PROVE ~Damaged(a, c)
  <2> DEFINE v == V(c)
  <2>1. v # None /\ Describes(v, c, resets[c]) /\ resets[c].version \in DOMAIN versions
        /\ v = versions[resets[c].version]
    BY <1>1 DEF V
  <2>2. v.balance = resets[c].balance /\ v.account = a
    BY <1>1 DEF Describes
  <2>3. ~BrokenChain(a, v.parent)
    <3>1. CASE v.parent = 0
      BY <2>1, <2>2, <3>1, ChainWhole DEF Books
    <3>2. CASE v.parent # 0
      <4>1. v.parent \in DOMAIN versions /\ versions[v.parent] # None
            /\ versions[v.parent].account = a
        BY <2>1, <2>2, <3>2 DEF Books, Chained, LinkedUp
      <4> QED BY <4>1, ChainWhole DEF Books
    <3> QED BY <3>1, <3>2
  <2>4. ASSUME Recorded(c) PROVE ~ParentMoved(c) /\ ~MembersDisagree(a, c)
    <3>1. Trusted(v)
      BY <2>4 DEF Recorded, Trusted
    <3>2. AddsUp(v)
      BY <2>1, <3>1 DEF Books, Balanced
    <3>3. ~MembersDisagree(a, c)
      <4>1. v \in SavedVersions
        BY <2>1, VersionsAre DEF Books
      <4>2. v.cutoff \in Int /\ v.parentCutoff \in Int
            /\ \A i \in DOMAIN v.members : v.members[i].day \in Int
        BY <4>1 DEF SavedVersions, Counted
      <4>3. Starts(v) + SumFunction(Quantities(v.members)) = resets[c].balance
            /\ \A i \in DOMAIN v.members : v.members[i].day <= v.cutoff
                                          /\ v.members[i].day > v.parentCutoff
        BY <3>2, <2>2 DEF AddsUp
      <4>4. ~\E i \in DOMAIN v.members : v.members[i].day > v.cutoff
                                         \/ v.members[i].day <= v.parentCutoff
        <5> HIDE DEF v
        <5> QED BY <4>2, <4>3
      <4> QED BY Zenon, <4>3, <4>4 DEF MembersDisagree, Starts, Quantities
    <3>4. v.parent # 0 => BuiltOn(v, versions[v.parent].reset, resets[versions[v.parent].reset])
      BY <1>1, <3>1 DEF Books, Followed
    <3>5. ~ParentMoved(c)
      BY <3>4 DEF ParentMoved, BuiltOn
    <3> QED BY <3>3, <3>5
  <2> QED BY <2>2, <2>3, <2>4 DEF Damaged
<1> QED
  BY <1>2, <1>3

(* -- What a step leaves as it was ------------------------------------------ *)

\* A version stays, or is only distrusted.
Kept(w, v) == w = v \/ (v # None /\ w = [v EXCEPT !.integrity = "untrusted"])
VersionsKept == \A v \in DOMAIN versions : v \in DOMAIN versions' /\ Kept(versions'[v], versions[v])
ResetsKept ==
    \A c \in DOMAIN resets :
        /\ c \in DOMAIN resets'
        /\ resets[c] # None => resets'[c] # None /\ resets'[c].account = resets[c].account

\* A checkpoint is as it was, or its version is new and says what it is.
ResetsDescribed ==
    \A c \in DOMAIN resets' : resets'[c] # None =>
        \/ c \in DOMAIN resets /\ resets'[c] = resets[c]
        \/ /\ resets'[c].version \in DOMAIN versions'
           /\ versions'[resets'[c].version] # None
           /\ Describes(versions'[resets'[c].version], c, resets'[c])

\* A new version is one of a checkpoint, built on what is there, and adds up.
SoundVersion(n) ==
    /\ versions[n].reset \in DOMAIN resets
    /\ resets[versions[n].reset] # None
    /\ resets[versions[n].reset].account = versions[n].account
    /\ versions[n].parent < n
    /\ LinkedUp(versions[n])
    /\ Trusted(versions[n]) => AddsUp(versions[n])

\* A version that a step only distrusts keeps every figure it had.
LEMMA KeptFacts ==
    ASSUME NEW v, NEW w, v \in SavedVersions \cup {None}, Kept(w, v)
    PROVE  /\ w = None <=> v = None
           /\ v # None =>
                /\ w.reset = v.reset /\ w.account = v.account /\ w.cutoff = v.cutoff
                /\ w.effective = v.effective /\ w.balance = v.balance /\ w.kind = v.kind
                /\ w.opens = v.opens /\ w.parent = v.parent /\ w.parentBalance = v.parentBalance
                /\ w.parentCutoff = v.parentCutoff /\ w.members = v.members
                /\ w \in SavedVersions
                /\ w = v \/ w.integrity = "untrusted"
<1>1. CASE w = v
  BY <1>1
<1>2. CASE v # None /\ w = [v EXCEPT !.integrity = "untrusted"]
  <2>1. v \in SavedVersions
    BY <1>2
  <2>2. w \in SavedVersions
    BY <1>2, <2>1 DEF SavedVersions
  <2>3. w # None
    BY <2>2, Something
  <2> QED BY <1>2, <2>1, <2>2, <2>3 DEF SavedVersions
<1> QED
  BY <1>1, <1>2 DEF Kept

\* A step keeps Books when old versions keep their figures, old balances are kept or
\* described again, and the new versions are sound.
LEMMA BooksNext ==
    ASSUME Books, ResetsTyped', VersionsTyped', Placed', VersionsKept, ResetsKept,
           ResetsDescribed, Followed',
           \A n \in DOMAIN versions' \ DOMAIN versions :
               versions'[n] # None => SoundVersion(n)'
    PROVE  Books'
<1> USE DEF Books
<1>1. \A n \in DOMAIN versions : versions[n] \in SavedVersions \cup {None}
  BY VersionsAre
<1>2. ASSUME NEW n \in DOMAIN versions, versions'[n] # None
      PROVE  /\ n \in DOMAIN versions' /\ versions[n] # None
             /\ versions'[n].reset = versions[n].reset
             /\ versions'[n].account = versions[n].account
             /\ versions'[n].cutoff = versions[n].cutoff
             /\ versions'[n].effective = versions[n].effective
             /\ versions'[n].balance = versions[n].balance
             /\ versions'[n].kind = versions[n].kind /\ versions'[n].opens = versions[n].opens
             /\ versions'[n].parent = versions[n].parent
             /\ versions'[n].parentBalance = versions[n].parentBalance
             /\ versions'[n].parentCutoff = versions[n].parentCutoff
             /\ versions'[n].members = versions[n].members
             /\ Trusted(versions'[n]) => Trusted(versions[n])
  <2>1. Kept(versions'[n], versions[n]) /\ n \in DOMAIN versions'
    BY DEF VersionsKept
  <2> QED BY <1>1, <1>2, <2>1, KeptFacts DEF Trusted
<1>3. \A n \in DOMAIN versions : versions[n] # None => versions'[n] # None /\ n \in DOMAIN versions'
  BY <1>1, KeptFacts DEF VersionsKept
<1>4. ASSUME NEW n \in DOMAIN versions', versions'[n] # None PROVE SoundVersion(n)'
  <2>1. CASE n \notin DOMAIN versions
    BY <1>4, <2>1
  <2>2. CASE n \in DOMAIN versions
    <3> DEFINE w == versions'[n]
    <3> DEFINE v == versions[n]
    <3>1. /\ w.reset \in DOMAIN resets' /\ resets'[w.reset] # None
          /\ resets'[w.reset].account = w.account /\ w.parent < n
      BY <1>2, <1>4, <2>2 DEF Chained, ResetsKept
    <3>2. LinkedUp(v) /\ w.parent = v.parent /\ w.parentCutoff = v.parentCutoff
          /\ w.cutoff = v.cutoff /\ w.account = v.account /\ w.reset = v.reset
      BY <1>2, <1>4, <2>2 DEF Chained
    <3>3. w.parent # 0 => /\ w.parent \in DOMAIN versions' /\ versions'[w.parent] # None
                          /\ versions'[w.parent].account = w.account
                          /\ versions'[w.parent].reset < w.reset
      <4> SUFFICES ASSUME w.parent # 0 PROVE /\ w.parent \in DOMAIN versions' /\ versions'[w.parent] # None
                          /\ versions'[w.parent].account = w.account
                          /\ versions'[w.parent].reset < w.reset
        OBVIOUS
      <4>1. v.parent \in DOMAIN versions /\ versions[v.parent] # None
            /\ versions[v.parent].account = v.account /\ versions[v.parent].reset < v.reset
        BY <3>2 DEF LinkedUp
      <4> HIDE DEF v, w
      <4> QED BY <1>2, <1>3, <3>2, <4>1
    <3>4. LinkedUp(versions[n])'
      BY <3>2, <3>3 DEF LinkedUp
    <3>5. Trusted(w) => AddsUp(w)
      <4> SUFFICES ASSUME Trusted(w) PROVE AddsUp(w)
        OBVIOUS
      <4>1. AddsUp(v)
        BY <1>2, <1>4, <2>2 DEF Balanced
      <4>2. Starts(w) = Starts(v) /\ Quantities(w.members) = Quantities(v.members)
        BY <1>2, <1>4, <2>2 DEF Starts
      <4>3. w.members = v.members /\ w.cutoff = v.cutoff /\ w.parentCutoff = v.parentCutoff
            /\ w.balance = v.balance
        BY <1>2, <1>4, <2>2
      <4> HIDE DEF v, w
      <4> QED BY <4>1, <4>2, <4>3 DEF AddsUp
    <3>6. (Trusted(versions[n]) => AddsUp(versions[n]))'
      BY <3>5
    <3> QED BY <3>1, <3>4, <3>6 DEF SoundVersion
  <2> QED BY <2>1, <2>2
<1>5. Chained'
  BY <1>4 DEF Chained, SoundVersion
<1>6. Balanced'
  BY <1>4 DEF Balanced, SoundVersion
<1>7. Current'
  <2> SUFFICES ASSUME NEW c \in DOMAIN resets', resets'[c] # None
               PROVE  /\ resets'[c].version \in DOMAIN versions'
                      /\ versions'[resets'[c].version] # None
                      /\ Describes(versions'[resets'[c].version], c, resets'[c])
    BY DEF Current, V
  <2>1. CASE c \in DOMAIN resets /\ resets'[c] = resets[c]
    <3> DEFINE n == resets[c].version
    <3>1. n \in DOMAIN versions /\ versions[n] # None /\ Describes(versions[n], c, resets[c])
      BY <2>1 DEF Current, V
    <3>2. n \in DOMAIN versions' /\ versions'[n] # None
      BY <1>3, <3>1
    <3> HIDE DEF n
    <3>3. Describes(versions'[n], c, resets[c])
      BY <1>2, <3>1, <3>2 DEF Describes
    <3> QED BY <2>1, <3>2, <3>3 DEF n
  <2> QED BY <2>1 DEF ResetsDescribed
<1> QED
  BY <1>5, <1>6, <1>7

FollowedAt(c) ==
    BuiltOn(V(c), versions[V(c).parent].reset, resets[versions[V(c).parent].reset])

\* The checkpoint and the one it was built on are as they were.
UntouchedBelow(c) ==
    /\ c \in DOMAIN resets /\ resets'[c] = resets[c]
    /\ V(c).parent # 0 =>
           resets'[versions[V(c).parent].reset] = resets[versions[V(c).parent].reset]

\* The balance a version was built on stays in force, or nothing below it changed.
LEMMA FollowedNext ==
    ASSUME Books, VersionsKept,
           \A c \in DOMAIN resets' : resets'[c] # None /\ Trusted(V(c))' /\ V(c)'.parent # 0 =>
               FollowedAt(c)' \/ UntouchedBelow(c)
    PROVE  Followed'
<1> SUFFICES ASSUME NEW c \in DOMAIN resets', resets'[c] # None, Trusted(V(c))', V(c)'.parent # 0
             PROVE  FollowedAt(c)'
  BY DEF Followed, FollowedAt
<1>1. CASE FollowedAt(c)'
  BY <1>1
<1>2. CASE UntouchedBelow(c)
  <2> DEFINE n == resets[c].version
  <2> DEFINE w == versions'[n]
  <2> DEFINE v == versions[n]
  <2>1. c \in DOMAIN resets /\ resets[c] # None /\ n \in DOMAIN versions /\ v # None
        /\ V(c) = v /\ V(c)' = w
    BY <1>2 DEF UntouchedBelow, Books, Current, V
  <2>2. v \in SavedVersions \cup {None} /\ Kept(w, v)
    BY <2>1, VersionsAre DEF Books, VersionsKept
  <2>3. w.parent = v.parent /\ w.kind = v.kind /\ (w = v \/ w.integrity = "untrusted")
        /\ w.parentCutoff = v.parentCutoff /\ w.parentBalance = v.parentBalance
    <3> HIDE DEF v, w
    <3> QED BY <2>1, <2>2, KeptFacts
  <2>4. w = v /\ Trusted(v) /\ v.parent # 0
    <3> HIDE DEF v, w
    <3> QED BY <2>1, <2>3 DEF Trusted
  <2> DEFINE p == versions[v.parent].reset
  <2>5. BuiltOn(v, p, resets[p])
    BY <2>1, <2>4 DEF Books, Followed
  <2>6. v.parent \in DOMAIN versions /\ versions[v.parent] # None
    BY <2>1, <2>4 DEF Books, Chained, LinkedUp
  <2>7. versions'[v.parent].reset = p
    <3>1. versions[v.parent] \in SavedVersions \cup {None}
          /\ Kept(versions'[v.parent], versions[v.parent])
      BY <2>6, VersionsAre DEF Books, VersionsKept
    <3> QED BY <2>6, <3>1, KeptFacts
  <2>8. resets'[p] = resets[p]
    BY <1>2, <2>1, <2>4 DEF UntouchedBelow
  <2>9. BuiltOn(w, versions'[w.parent].reset, resets'[versions'[w.parent].reset])
    <3> HIDE DEF v, w, p
    <3> QED BY <2>4, <2>5, <2>7, <2>8
  <2> QED BY <2>1, <2>9 DEF FollowedAt
<1> QED
  BY <1>1, <1>2

(* -- Saved balances added -------------------------------------------------- *)

\* A version as it is added: on nothing, or on a checkpoint that is there.
OnNothing(v) == v.parent = 0 /\ v.parentCutoff = -1 /\ -1 <= v.cutoff
OnCheckpoint(v, p) ==
    /\ p \in DOMAIN resets /\ resets[p] # None /\ resets[p].account = v.account
    /\ v.parent = resets[p].version /\ v.parentBalance = resets[p].balance
    /\ v.parentCutoff = resets[p].cutoff /\ v.parentCutoff <= v.cutoff
AddedVersion(v) ==
    /\ OnNothing(v) \/ \E p : OnCheckpoint(v, p)
    /\ Trusted(v) => AddsUp(v)
AddedReset(r, n) ==
    /\ -1 <= r.cutoff /\ r.cutoff <= today - 1 /\ r.effective <= today
    /\ r.version = n

\* Saving new balances, each with a version of its own, keeps Books.
LEMMA BooksExtended ==
    ASSUME Books, UNCHANGED today, NEW k \in Nat,
           NEW R \in [1 .. k -> SavedBalances], NEW W \in [1 .. k -> SavedVersions],
           resets' = resets \o R, versions' = versions \o W,
           \A n \in 1 .. k : /\ AddedReset(R[n], Len(versions) + n)
                             /\ AddedVersion(W[n])
                             /\ Describes(W[n], Len(resets) + n, R[n])
    PROVE  Books'
<1>0. ResetFacts /\ Len(versions) \in Nat /\ DOMAIN versions = 1 .. Len(versions)
      /\ \A n \in DOMAIN versions : versions[n] # None => versions[n] \in SavedVersions
  BY ResetsAre, VersionsAre DEF Books
<1>1. /\ resets' \in Seq(SavedBalances \cup {None})
      /\ DOMAIN resets' = 1 .. Len(resets) + k
      /\ \A i \in 1 .. Len(resets) : resets'[i] = resets[i]
      /\ \A n \in 1 .. k : resets'[Len(resets) + n] = R[n]
  <2>1. R \in [1 .. k -> SavedBalances \cup {None}]
    OBVIOUS
  <2> QED BY <2>1, Joined DEF Books, ResetsTyped
<1>2. /\ versions' \in Seq(SavedVersions \cup {None})
      /\ DOMAIN versions' = 1 .. Len(versions) + k
      /\ \A i \in 1 .. Len(versions) : versions'[i] = versions[i]
      /\ \A n \in 1 .. k : versions'[Len(versions) + n] = W[n]
  <2>1. W \in [1 .. k -> SavedVersions \cup {None}]
    OBVIOUS
  <2> QED BY <2>1, Joined DEF Books, VersionsTyped
<1>3. \A c \in DOMAIN resets' :
         \/ c \in DOMAIN resets /\ resets'[c] = resets[c]
         \/ \E n \in 1 .. k : c = Len(resets) + n /\ resets'[c] = R[n]
  <2> TAKE c \in DOMAIN resets'
  <2>1. CASE c \in 1 .. Len(resets)
    BY <1>0, <1>1, <2>1 DEF ResetFacts
  <2>2. CASE c \notin 1 .. Len(resets)
    <3>1. c - Len(resets) \in 1 .. k /\ c = Len(resets) + (c - Len(resets))
      BY <1>0, <1>1, <2>2 DEF ResetFacts
    <3> QED BY <1>1, <3>1
  <2> QED BY <2>1, <2>2
<1>4. \A v \in DOMAIN versions' : v \in DOMAIN versions
         \/ \E n \in 1 .. k : v = Len(versions) + n /\ versions'[v] = W[n]
  <2> TAKE v \in DOMAIN versions'
  <2>1. CASE v \in 1 .. Len(versions)
    BY <1>0, <2>1
  <2>2. CASE v \notin 1 .. Len(versions)
    <3>1. v - Len(versions) \in 1 .. k /\ v = Len(versions) + (v - Len(versions))
      BY <1>0, <1>2, <2>2
    <3> QED BY <1>2, <3>1
  <2> QED BY <2>1, <2>2
<1>5. VersionsKept
  BY <1>0, <1>2 DEF VersionsKept, Kept
<1>6. ResetsKept
  BY <1>0, <1>1 DEF ResetsKept, ResetFacts
<1>7. \A n \in 1 .. k : R[n] # None /\ W[n] # None /\ R[n] \in SavedBalances
                        /\ W[n] \in SavedVersions
  BY Something
<1>8. ASSUME NEW n \in 1 .. k
      PROVE  /\ R[n].version = Len(versions) + n /\ Len(versions) + n \in DOMAIN versions'
             /\ versions'[R[n].version] = W[n]
             /\ Len(resets) + n \in DOMAIN resets' /\ resets'[Len(resets) + n] = R[n]
  BY <1>0, <1>1, <1>2 DEF AddedReset, ResetFacts
<1>9. ResetsDescribed
  <2> SUFFICES ASSUME NEW c \in DOMAIN resets', resets'[c] # None, NEW n \in 1 .. k,
                      c = Len(resets) + n, resets'[c] = R[n]
               PROVE  /\ resets'[c].version \in DOMAIN versions'
                      /\ versions'[resets'[c].version] # None
                      /\ Describes(versions'[resets'[c].version], c, resets'[c])
    BY <1>3 DEF ResetsDescribed
  <2> QED BY <1>7, <1>8
<1>10. Placed'
  <2> SUFFICES ASSUME NEW c \in DOMAIN resets', resets'[c] # None
               PROVE  /\ -1 <= resets'[c].cutoff /\ resets'[c].cutoff <= today - 1
                      /\ resets'[c].effective <= today
    BY DEF Placed
  <2> QED BY <1>3 DEF AddedReset, Books, Placed
<1>11. ASSUME NEW n \in DOMAIN versions' \ DOMAIN versions, versions'[n] # None
       PROVE  SoundVersion(n)'
  <2>1. PICK m \in 1 .. k : n = Len(versions) + m /\ versions'[n] = W[m]
    BY <1>4, <1>11
  <2> DEFINE v == W[m]
  <2> DEFINE c == Len(resets) + m
  <2>2. Describes(v, c, R[m]) /\ AddedVersion(v) /\ v \in SavedVersions
    BY <1>7
  <2>3. /\ v.reset = c /\ c \in DOMAIN resets' /\ resets'[c] # None
        /\ resets'[c].account = v.account
    BY <1>7, <1>8, <2>2 DEF Describes
  <2>4. LinkedUp(versions[n])' /\ v.parent < n
    <3>1. CASE OnNothing(v)
      <4>1. v.parent = 0 /\ v.parentCutoff = -1 /\ -1 <= v.cutoff
        BY <3>1 DEF OnNothing
      <4>2. 0 < n
        BY <1>0, <2>1
      <4> HIDE DEF v
      <4> QED BY <2>1, <4>1, <4>2 DEF LinkedUp, v
    <3>2. ASSUME NEW p, OnCheckpoint(v, p) PROVE LinkedUp(versions[n])' /\ v.parent < n
      <4>1. /\ p \in DOMAIN resets /\ resets[p] # None /\ resets[p].account = v.account
            /\ v.parent = resets[p].version
            /\ v.parentCutoff = resets[p].cutoff /\ v.parentCutoff <= v.cutoff
        BY <3>2 DEF OnCheckpoint
      <4>2. /\ v.parent \in DOMAIN versions /\ versions[v.parent] # None
            /\ Describes(versions[v.parent], p, resets[p])
        BY <4>1 DEF Books, Current, V
      <4>3. versions'[v.parent] = versions[v.parent] /\ v.parent \in DOMAIN versions'
            /\ v.parent # 0 /\ v.parent < n
        BY <1>0, <1>2, <2>1, <4>2
      <4>4. p < c
        BY <1>0, <4>1 DEF ResetFacts
      <4>5. /\ versions'[v.parent].account = v.account
            /\ versions'[v.parent].reset = p
        BY <4>1, <4>2, <4>3 DEF Describes
      <4> HIDE DEF v, c
      <4> QED BY <2>1, <2>3, <4>1, <4>2, <4>3, <4>4, <4>5 DEF LinkedUp, v
    <3> QED BY <2>2, <3>1, <3>2 DEF AddedVersion
  <2>5. Trusted(v) => AddsUp(v)
    BY <2>2 DEF AddedVersion
  <2>6. (Trusted(versions[n]) => AddsUp(versions[n]))'
    BY <2>1, <2>5
  <2> HIDE DEF v, c
  <2> QED BY <2>1, <2>3, <2>4, <2>6 DEF SoundVersion, v
<1>12. Followed'
  <2> SUFFICES ASSUME NEW c \in DOMAIN resets', resets'[c] # None, Trusted(V(c))',
                      V(c)'.parent # 0
               PROVE  FollowedAt(c)' \/ UntouchedBelow(c)
    BY <1>5, FollowedNext
  <2>1. CASE c \in DOMAIN resets /\ resets'[c] = resets[c]
    <3>1. V(c).parent # 0 => versions[V(c).parent].reset \in DOMAIN resets
      BY <2>1 DEF Books, Current, Chained, LinkedUp, V
    <3> QED BY <1>0, <1>1, <2>1, <3>1 DEF UntouchedBelow, ResetFacts
  <2>2. ASSUME NEW n \in 1 .. k, c = Len(resets) + n, resets'[c] = R[n] PROVE FollowedAt(c)'
    <3> DEFINE v == W[n]
    <3>1. V(c)' = v
      BY <1>8, <2>2 DEF V
    <3>2. PICK p : OnCheckpoint(v, p)
      BY <3>1 DEF AddedVersion, OnNothing
    <3>3. /\ p \in DOMAIN resets /\ resets[p] # None
          /\ v.parent = resets[p].version /\ v.parentBalance = resets[p].balance
          /\ v.parentCutoff = resets[p].cutoff
      BY <3>2 DEF OnCheckpoint
    <3>4. /\ v.parent \in DOMAIN versions /\ Describes(versions[v.parent], p, resets[p])
      BY <3>3 DEF Books, Current, V
    <3>5. versions'[v.parent] = versions[v.parent] /\ resets'[p] = resets[p]
      BY <1>0, <1>1, <1>2, <3>3, <3>4 DEF ResetFacts
    <3>6. versions'[v.parent].reset = p
      BY <3>4, <3>5 DEF Describes
    <3> HIDE DEF v
    <3>7. BuiltOn(v, p, resets'[p])
      BY <3>3, <3>5 DEF BuiltOn
    <3> QED BY <3>1, <3>6, <3>7 DEF FollowedAt
  <2> QED BY <1>3, <2>1, <2>2
<1> QED
  BY <1>1, <1>2, <1>5, <1>6, <1>9, <1>10, <1>11, <1>12, BooksNext DEF ResetsTyped, VersionsTyped

(* -- Saved balances rewritten ---------------------------------------------- *)

\* What is built directly on a version of a checkpoint is among its descendants, and all
\* of them are there.
LEMMA DescendantsAre ==
    ASSUME VersionsTyped, Chained, NEW c
    PROVE  /\ \A v \in DOMAIN versions :
                  versions[v] # None /\ versions[v].parent # 0
                  /\ versions[versions[v].parent].reset = c => v \in Descendants(c)
           /\ \A v \in Descendants(c) : v \in DOMAIN versions /\ versions[v] # None
<1>1. Len(versions) \in Nat /\ DOMAIN versions = 1 .. Len(versions)
      /\ \A n \in DOMAIN versions : versions[n] # None => versions[n] \in SavedVersions
  BY VersionsAre
<1> DEFINE n == Len(versions)
<1> DEFINE A == {w \in 1 .. n : versions[w] # None /\ versions[w].parent # 0}
<1> DEFINE B == {w \in 1 .. n : versions[versions[w].parent].reset = c}
<1> DEFINE p == [w \in 1 .. n |-> versions[w].parent]
<1> DEFINE Is(f) == f = [v \in 0 .. n |->
                           /\ v # 0 /\ versions[v] # None /\ versions[v].parent # 0
                           /\ \/ versions[versions[v].parent].reset = c
                              \/ f[versions[v].parent]]
<1> DEFINE built == CHOOSE f : Is(f)
<1>2. \A w \in (A \ B) \cap (0 .. n) : p[w] \in 0 .. w - 1
  <2> TAKE w \in (A \ B) \cap (0 .. n)
  <2>1. w \in DOMAIN versions /\ versions[w] # None /\ p[w] = versions[w].parent
    BY <1>1
  <2>2. versions[w].parent < w /\ versions[w].parent \in Nat /\ w \in Nat
    BY <1>1, <2>1 DEF Chained, SavedVersions
  <2> QED BY <2>1, <2>2
<1>3. \A f : Is(f) <=> Marks(n, A, B, p, f)
  <2> TAKE f
  <2> DEFINE F == [v \in 0 .. n |->
                           /\ v # 0 /\ versions[v] # None /\ versions[v].parent # 0
                           /\ \/ versions[versions[v].parent].reset = c
                              \/ f[versions[v].parent]]
  <2> DEFINE G == [w \in 0 .. n |-> w \in A /\ (w \in B \/ f[p[w]])]
  <2>1. \A w \in 0 .. n : F[w] = G[w]
    <3> TAKE w \in 0 .. n
    <3>1. (w # 0 /\ versions[w] # None /\ versions[w].parent # 0) <=> w \in A
      BY <1>1
    <3>2. w \in A => p[w] = versions[w].parent
                     /\ (w \in B <=> versions[versions[w].parent].reset = c)
      OBVIOUS
    <3> HIDE DEF A, B, p
    <3> QED BY <3>1, <3>2
  <2>2. F = G
    <3>1. F = [w \in 0 .. n |-> F[w]] /\ G = [w \in 0 .. n |-> G[w]]
      OBVIOUS
    <3> HIDE DEF F, G
    <3> QED BY <2>1, <3>1
  <2>3. Is(f) <=> f = F
    OBVIOUS
  <2>4. Marks(n, A, B, p, f) <=> f = G
    BY DEF Marks
  <2> HIDE DEF F, G, Is
  <2> QED BY <2>2, <2>3, <2>4
<1>4. Descendants(c) = {v \in DOMAIN versions : built[v]}
  BY DEF Descendants
<1> HIDE DEF Is
<1>5. \E f : Marks(n, A, B, p, f)
  <2> HIDE DEF A, B, p
  <2> QED BY <1>1, <1>2, MarksExist
<1>6. Is(built)
  <2> HIDE DEF A, B, p
  <2> QED BY <1>3, <1>5
<1> HIDE DEF built
<1>7. \A w \in 0 .. n : built[w] = (w \in A /\ (w \in B \/ built[p[w]]))
  <2> HIDE DEF A, B, p
  <2> QED BY <1>1, <1>3, <1>6, MarksAre
<1>8. ASSUME NEW v \in DOMAIN versions, versions[v] # None, versions[v].parent # 0,
             versions[versions[v].parent].reset = c
      PROVE  v \in Descendants(c)
  <2>1. v \in 0 .. n /\ v \in A /\ v \in B
    BY <1>1, <1>8
  <2> HIDE DEF A, B, p
  <2> QED BY <1>4, <1>7, <2>1
<1>9. ASSUME NEW v \in Descendants(c) PROVE v \in DOMAIN versions /\ versions[v] # None
  <2>1. v \in 0 .. n /\ built[v] /\ v \in DOMAIN versions
    BY <1>1, <1>4
  <2>2. v \in A
    <3> HIDE DEF A, B, p
    <3> QED BY <1>7, <2>1
  <2> QED BY <2>1, <2>2
<1> QED
  BY <1>8, <1>9

\* Distrusted, versions stay what they are otherwise.
LEMMA DistrustKeeps ==
    ASSUME VersionsTyped, NEW S, \A v \in S : v \in DOMAIN versions /\ versions[v] # None
    PROVE  /\ Distrust(S) \in Seq(SavedVersions \cup {None})
           /\ Len(Distrust(S)) = Len(versions) /\ DOMAIN Distrust(S) = DOMAIN versions
           /\ \A v \in DOMAIN versions :
                  /\ Kept(Distrust(S)[v], versions[v])
                  /\ v \in S => ~Trusted(Distrust(S)[v])
<1>1. Len(versions) \in Nat /\ DOMAIN versions = 1 .. Len(versions)
      /\ \A n \in DOMAIN versions : versions[n] # None => versions[n] \in SavedVersions
  BY VersionsAre
<1> DEFINE t == Distrust(S)
<1>2. DOMAIN t = 1 .. Len(versions) /\ t = [v \in 1 .. Len(versions) |-> t[v]]
  BY <1>1 DEF Distrust
<1>3. ASSUME NEW v \in 1 .. Len(versions)
      PROVE  Kept(t[v], versions[v]) /\ t[v] \in SavedVersions \cup {None}
             /\ (v \in S => ~Trusted(t[v]))
  <2>1. CASE v \notin S
    BY <1>1, <2>1 DEF Kept, Distrust
  <2>2. CASE v \in S
    <3>1. t[v] = [versions[v] EXCEPT !.integrity = "untrusted"] /\ versions[v] # None
          /\ versions[v] \in SavedVersions
      BY <1>1, <2>2 DEF Distrust
    <3> HIDE DEF t
    <3>2. Kept(t[v], versions[v])
      BY <3>1 DEF Kept
    <3>3. t[v] \in SavedVersions
      BY <3>1, <3>2, KeptFacts
    <3>4. ~Trusted(t[v])
      BY <3>1 DEF Trusted, SavedVersions
    <3> QED BY <3>2, <3>3, <3>4
  <2> QED BY <2>1, <2>2
<1> HIDE DEF t
<1>4. t \in [1 .. Len(versions) -> SavedVersions \cup {None}]
  BY <1>2, <1>3
<1>5. t \in Seq(SavedVersions \cup {None}) /\ Len(t) = Len(versions)
  BY <1>1, <1>4, SeqDef, LenProperties
<1> QED
  BY <1>1, <1>2, <1>3, <1>5 DEF t

\* Appending versions leaves the earlier ones where they were.
LEMMA VersionsJoined ==
    ASSUME NEW K \in Seq(SavedVersions \cup {None}), NEW k \in Nat, NEW W \in [1 .. k -> SavedVersions]
    PROVE  /\ K \o W \in Seq(SavedVersions \cup {None})
           /\ DOMAIN (K \o W) = 1 .. Len(K) + k
           /\ \A i \in 1 .. Len(K) : (K \o W)[i] = K[i]
           /\ \A n \in 1 .. k : (K \o W)[Len(K) + n] = W[n]
<1> DEFINE S == SavedVersions \cup {None}
<1>1. W \in [1 .. k -> S] /\ K \in Seq(S)
  OBVIOUS
<1> HIDE DEF S
<1>2. /\ K \o W \in Seq(S)
      /\ DOMAIN (K \o W) = 1 .. Len(K) + k
      /\ \A i \in 1 .. Len(K) : (K \o W)[i] = K[i]
      /\ \A n \in 1 .. k : (K \o W)[Len(K) + n] = W[n]
  BY <1>1, Joined
<1> QED
  BY <1>2 DEF S

\* The checkpoints in H get new numbers, and versions that say so; the others stay.
Rewritten(H, k) ==
    /\ DOMAIN resets' = DOMAIN resets
    /\ resets' = [c \in DOMAIN resets' |-> resets'[c]]
    /\ \A c \in DOMAIN resets : c \notin H => resets'[c] = resets[c]
    /\ \A c \in H :
           /\ c \in DOMAIN resets /\ resets[c] # None
           /\ resets'[c] \in SavedBalances /\ resets'[c].account = resets[c].account
           /\ -1 <= resets'[c].cutoff /\ resets'[c].cutoff <= today - 1
           /\ resets'[c].effective <= today
           /\ resets'[c].version \in Len(versions) + 1 .. Len(versions) + k

\* Changing the figures of some balances keeps Books when each gets a new version and
\* the versions that relied on them are accounted for.
LEMMA BooksRewritten ==
    ASSUME Books, UNCHANGED today, NEW k \in Nat, NEW H, Rewritten(H, k),
           NEW K \in Seq(SavedVersions \cup {None}), Len(K) = Len(versions),
           \A v \in DOMAIN versions : Kept(K[v], versions[v]),
           NEW W \in [1 .. k -> SavedVersions], versions' = K \o W,
           \A c \in H : Describes(V(c)', c, resets'[c]),
           \A n \in DOMAIN versions' \ DOMAIN versions : SoundVersion(n)',
           \A c \in DOMAIN resets' : resets'[c] # None /\ Trusted(V(c))' /\ V(c)'.parent # 0 =>
               FollowedAt(c)' \/ UntouchedBelow(c)
    PROVE  Books'
<1>0. ResetFacts /\ Len(versions) \in Nat /\ DOMAIN versions = 1 .. Len(versions)
  BY ResetsAre, VersionsAre DEF Books
<1>1. resets' \in Seq(SavedBalances \cup {None})
  <2>1. \A c \in DOMAIN resets' : resets'[c] \in SavedBalances \cup {None}
    BY <1>0 DEF Rewritten, ResetFacts
  <2>2. resets' \in [1 .. Len(resets) -> SavedBalances \cup {None}]
    BY <1>0, <2>1 DEF Rewritten, ResetFacts
  <2>3. resets' \in [1 .. Len(resets) -> SavedBalances \cup {None}] /\ Len(resets) \in Nat
    BY <1>0, <2>2 DEF ResetFacts
  <2> QED BY <2>3, SeqDef
<1>2. /\ versions' \in Seq(SavedVersions \cup {None})
      /\ DOMAIN versions' = 1 .. Len(versions) + k
      /\ \A i \in 1 .. Len(versions) : versions'[i] = K[i]
      /\ \A n \in 1 .. k : versions'[Len(versions) + n] = W[n]
  <2> DEFINE s == K \o W
  <2>2. /\ s \in Seq(SavedVersions \cup {None})
        /\ DOMAIN s = 1 .. Len(K) + k
        /\ \A i \in 1 .. Len(K) : s[i] = K[i]
        /\ \A n \in 1 .. k : s[Len(K) + n] = W[n]
    BY VersionsJoined
  <2>3. versions' = s
    OBVIOUS
  <2> HIDE DEF s
  <2> QED BY <2>2, <2>3
<1>3. VersionsKept
  BY <1>0, <1>2 DEF VersionsKept
<1>4. ResetsKept
  BY <1>0, Something DEF ResetsKept, Rewritten
<1>5. ASSUME NEW c \in H
      PROVE  resets'[c].version \in DOMAIN versions' /\ versions'[resets'[c].version] # None
  <2> DEFINE n == resets'[c].version - Len(versions)
  <2>1. n \in 1 .. k /\ resets'[c].version = Len(versions) + n
    BY <1>0 DEF Rewritten
  <2> HIDE DEF n
  <2>2. versions'[resets'[c].version] = W[n] /\ W[n] # None
        /\ resets'[c].version \in 1 .. Len(versions) + k
    BY <1>0, <1>2, <2>1, Something
  <2> QED BY <1>2, <2>2
<1>6. ResetsDescribed
  BY <1>5 DEF ResetsDescribed, Rewritten, V
<1>7. Placed'
  BY DEF Placed, Books, Rewritten
<1>9. Followed'
  BY <1>3, FollowedNext
<1> QED
  BY <1>1, <1>2, <1>3, <1>4, <1>6, <1>7, <1>9, BooksNext DEF ResetsTyped, VersionsTyped

\* A version of unknown content, of a checkpoint that is there.
Opaque(v) == v.parent = 0 /\ v.parentCutoff = -1 /\ -1 <= v.cutoff /\ ~Trusted(v)

\* The same when what relied on the changed balances is marked unverified
\* (mark_descendants_untrusted in store/checkpoints.rs).
LEMMA BooksDistrusted ==
    ASSUME Books, UNCHANGED today, NEW k \in Nat, NEW H, Rewritten(H, k), NEW S,
           \A v \in S : v \in DOMAIN versions /\ versions[v] # None,
           \A c \in H : Descendants(c) \subseteq S,
           NEW W \in [1 .. k -> SavedVersions], versions' = Distrust(S) \o W,
           \A c \in H : Describes(V(c)', c, resets'[c]),
           \A n \in 1 .. k : Opaque(W[n]) /\ W[n].reset \in H
                             /\ W[n].account = resets[W[n].reset].account
    PROVE  Books'
<1>0. ResetFacts /\ Len(versions) \in Nat /\ DOMAIN versions = 1 .. Len(versions)
      /\ \A n \in DOMAIN versions : versions[n] # None => versions[n] \in SavedVersions
  BY ResetsAre, VersionsAre DEF Books
<1> DEFINE K == Distrust(S)
<1>1. /\ K \in Seq(SavedVersions \cup {None}) /\ Len(K) = Len(versions)
      /\ \A v \in DOMAIN versions : Kept(K[v], versions[v]) /\ (v \in S => ~Trusted(K[v]))
  BY DistrustKeeps DEF Books
<1>2. /\ DOMAIN versions' = 1 .. Len(versions) + k
      /\ \A i \in 1 .. Len(versions) : versions'[i] = K[i]
      /\ \A n \in 1 .. k : versions'[Len(versions) + n] = W[n]
  <2> DEFINE s == K \o W
  <2>2. versions' = s
    OBVIOUS
  <2> HIDE DEF K
  <2>3. /\ DOMAIN s = 1 .. Len(K) + k
        /\ \A i \in 1 .. Len(K) : s[i] = K[i]
        /\ \A n \in 1 .. k : s[Len(K) + n] = W[n]
    BY <1>1, VersionsJoined
  <2> HIDE DEF s
  <2> QED BY <1>1, <2>2, <2>3
<1> HIDE DEF K
<1>3. ASSUME NEW m \in DOMAIN versions' \ DOMAIN versions PROVE SoundVersion(m)'
  <2> DEFINE n == m - Len(versions)
  <2>1. n \in 1 .. k /\ m = Len(versions) + n /\ m \in Nat /\ 0 < m
    BY <1>0, <1>2
  <2> HIDE DEF n
  <2>2. versions'[m] = W[n] /\ Opaque(W[n]) /\ W[n].reset \in H
        /\ W[n].account = resets[W[n].reset].account
    BY <1>2, <2>1
  <2> DEFINE w == W[n]
  <2> HIDE DEF w
  <2>3. versions'[m] = w /\ Opaque(w) /\ w.reset \in H /\ w.account = resets[w.reset].account
    BY <2>2 DEF w
  <2>4. LinkedUp(versions[m])'
    BY <2>3 DEF Opaque, LinkedUp
  <2>5. /\ w.reset \in DOMAIN resets' /\ resets'[w.reset] # None
        /\ resets'[w.reset].account = w.account
    BY <2>3, Something DEF Rewritten
  <2>6. w.parent < m /\ ~Trusted(w)
    BY <2>1, <2>3 DEF Opaque
  <2> QED BY <2>3, <2>4, <2>5, <2>6 DEF SoundVersion
<1>4. ASSUME NEW c \in DOMAIN resets', resets'[c] # None, Trusted(V(c))', V(c)'.parent # 0
      PROVE  UntouchedBelow(c)
  <2>1. c \notin H
    <3> SUFFICES ASSUME c \in H PROVE FALSE
      OBVIOUS
    <3> DEFINE n == resets'[c].version - Len(versions)
    <3>1. n \in 1 .. k /\ resets'[c].version = Len(versions) + n
      BY <1>0 DEF Rewritten
    <3>2. V(c)' = W[n]
      BY <1>2, <3>1 DEF V
    <3> QED BY <1>4, <3>1, <3>2 DEF Opaque
  <2>2. c \in DOMAIN resets /\ resets'[c] = resets[c]
    BY <2>1 DEF Rewritten
  <2> DEFINE m == resets[c].version
  <2>3. m \in DOMAIN versions /\ versions[m] # None /\ V(c) = versions[m] /\ V(c)' = K[m]
    BY <1>0, <1>2, <1>4, <2>2 DEF Books, Current, V
  <2>4. m \notin S
    BY <1>1, <1>4, <2>3
  <2>5. K[m].parent = versions[m].parent /\ versions[m].parent # 0
    BY <1>0, <1>1, <1>4, <2>3, KeptFacts
  <2> DEFINE p == versions[versions[m].parent].reset
  <2>6. p \notin H
    <3> SUFFICES ASSUME p \in H PROVE FALSE
      OBVIOUS
    <3>1. m \in Descendants(p)
      BY <2>3, <2>5, DescendantsAre DEF Books
    <3> QED BY <2>4, <3>1
  <2>7. p \in DOMAIN resets
    BY <2>3, <2>5 DEF Books, Chained, LinkedUp
  <2>8. resets'[p] = resets[p]
    BY <2>6, <2>7 DEF Rewritten
  <2> QED BY <2>2, <2>3, <2>8 DEF UntouchedBelow
<1> QED
  BY <1>1, <1>3, <1>4, BooksRewritten DEF K

(* -- Numbers --------------------------------------------------------------- *)

\* What the commands' numbers rest on.
Grounds ==
    /\ today \in Nat /\ moved \in Nat
    /\ opening \in [Accounts -> Int]
    /\ IsFiniteSet(accounts)
    /\ Len(rows) <= MaxRows
    /\ review # None =>
           /\ review.inputs \in Confirmations
           /\ review.token.confirm => review.inputs[1] # "none"

LEMMA DirIs == \A a : Dir(a) = 1 \/ Dir(a) = -1
BY DEF Dir

\* A nonempty finite set of integers has a greatest element, the one Max chooses.
LEMMA GreatestNumber ==
    ASSUME NEW S, IsFiniteSet(S), S \subseteq Int, S # {}
    PROVE  Max(S) \in S /\ \A x \in S : Max(S) >= x
<1> DEFINE R == {p \in S \X S : p[1] >= p[2]}
<1>1. \A x, y \in S : <<x, y>> \in R <=> x >= y
  OBVIOUS
<1>2. \A x \in S : x \in Int
  OBVIOUS
<1> HIDE DEF R
<1>3. \A x, y \in S : <<x, y>> \in R \/ <<y, x>> \in R
  <2> TAKE x, y \in S
  <2>1. x >= y \/ y >= x
    BY <1>2
  <2> QED BY <1>1, <2>1
<1>4. \A x, y, z \in S : <<x, y>> \in R /\ <<y, z>> \in R => <<x, z>> \in R
  BY <1>1, <1>2
<1>5. \E x \in S : \A y \in S : <<x, y>> \in R
  BY <1>3, <1>4, GreatestExists
<1>6. \E x \in S : \A y \in S : x >= y
  BY <1>1, <1>5
<1> QED
  BY <1>6 DEF Max

\* A finite set, laid out as a sequence without repetition.
LEMMA SequenceOfSet ==
    ASSUME NEW S, IsFiniteSet(S)
    PROVE  /\ Cardinality(S) \in Nat
           /\ SetToSeq(S) \in [1 .. Cardinality(S) -> S]
           /\ DOMAIN SetToSeq(S) = 1 .. Cardinality(S)
           /\ \A m, n \in 1 .. Cardinality(S) : SetToSeq(S)[m] = SetToSeq(S)[n] => m = n
<1> DEFINE k == Cardinality(S)
<1>1. k \in Nat /\ ExistsBijection(1 .. k, S)
  BY FS_CardinalityType
<1>2. \E f \in [1 .. k -> S] : \A a, b \in DOMAIN f : f[a] = f[b] => a = b
  BY <1>1, ZenonT(30) DEF ExistsBijection, Bijection, Injection, IsInjective
<1> HIDE DEF k
<1>3. SetToSeq(S) \in [1 .. k -> S]
      /\ \A a, b \in DOMAIN SetToSeq(S) : SetToSeq(S)[a] = SetToSeq(S)[b] => a = b
  BY <1>2 DEF SetToSeq, IsInjective, k
<1> QED
  BY <1>1, <1>3 DEF k

\* Rows add up to a number, and so do they in the account's terms.
LEMMA RowsTotal ==
    ASSUME TableOK, NEW ids, ids \subseteq Ids, \A i \in ids : rows[i] # None
    PROVE  /\ IsFiniteSet(ids) /\ Total(ids) = Sum(Worth(rows), ids) /\ Total(ids) \in Int
           /\ \A i \in ids : Worth(rows)[i] = rows[i].amount /\ rows[i].amount \in Int
<1>1. IsFiniteSet(ids)
  BY IdsFinite
<1>2. Total(ids) = Sum(Worth(rows), ids)
  BY <1>1, TotalOfTable DEF Total, Ids
<1>3. \A i \in ids : Worth(rows)[i] = rows[i].amount /\ rows[i].amount \in Int
  BY RowFacts DEF Worth, Ids, RowOrNone, Transactions
<1>4. Sum(Worth(rows), ids) \in Int
  BY <1>1, <1>3, SumInt
<1> QED
  BY <1>1, <1>2, <1>3, <1>4

\* A debt account's sign may be taken out of a sum.
LEMMA ScaledTotal ==
    ASSUME TableOK, NEW a, NEW ids, ids \subseteq Ids, \A i \in ids : rows[i] # None
    PROVE  SumFunction([i \in ids |-> Dir(a) * rows[i].amount]) = Dir(a) * Total(ids)
<1> DEFINE g == [i \in ids |-> Dir(a) * rows[i].amount]
<1>1. IsFiniteSet(ids) /\ Total(ids) = Sum(Worth(rows), ids) /\ Total(ids) \in Int
      /\ \A i \in ids : Worth(rows)[i] = rows[i].amount /\ rows[i].amount \in Int
  BY RowsTotal
<1>2. \A i \in ids : g[i] = Dir(a) * rows[i].amount
  OBVIOUS
<1>3. [i \in ids |-> g[i]] = g
  OBVIOUS
<1> HIDE DEF g
<1>4. SumFunction(g) = Sum(g, ids)
  BY <1>1, <1>3, SumRestricted
<1>5. CASE Dir(a) = 1
  <2>1. \A i \in ids : g[i] = Worth(rows)[i]
    BY <1>1, <1>2, <1>5
  <2>2. Sum(g, ids) = Sum(Worth(rows), ids)
    BY <1>1, <2>1, SumSame
  <2> QED BY <1>1, <1>4, <1>5, <2>2 DEF g
<1>6. CASE Dir(a) = -1
  <2>1. \A i \in ids : Worth(rows)[i] \in Int /\ g[i] = -Worth(rows)[i]
    BY <1>1, <1>2, <1>6
  <2>2. Sum(g, ids) = -Sum(Worth(rows), ids)
    BY <1>1, <2>1, SumNegated
  <2> QED BY <1>1, <1>4, <1>6, <2>2 DEF g
<1> QED
  BY <1>5, <1>6, DirIs

\* The rows a balance counts between two days: finite, of that account, in that
\* interval.
LEMMA IntervalFacts ==
    ASSUME TableOK, NEW a, NEW m, NEW n
    PROVE  LET ids == IntervalRows(a, m, n)
           IN  /\ ids \subseteq Ids /\ IsFiniteSet(ids) /\ Total(ids) \in Int
               /\ \A i \in ids : /\ rows[i] # None /\ rows[i] \in Transactions
                                 /\ rows[i].day > m /\ rows[i].day <= n
<1> DEFINE ids == IntervalRows(a, m, n)
<1>1. ids \subseteq Ids
      /\ \A i \in ids : rows[i] # None /\ rows[i].day > m /\ rows[i].day <= n
  BY DEF IntervalRows, LiveRows, Live, Exists
<1> HIDE DEF ids
<1>2. \A i \in ids : rows[i] \in Transactions
  BY <1>1, RowFacts DEF RowOrNone
<1>3. IsFiniteSet(ids) /\ Total(ids) \in Int
  BY <1>1, RowsTotal
<1> QED
  BY <1>1, <1>2, <1>3 DEF ids

\* The balance a figure is read from is of that account and already in effect.
LEMMA LatestIs ==
    ASSUME ResetsTyped, NEW a, NEW d
    PROVE  LET c == LatestCheckpoint(a, d)
           IN  c # 0 => /\ c \in DOMAIN resets /\ resets[c] # None /\ resets[c].account = a
                        /\ resets[c] \in SavedBalances
                        /\ resets[c].cutoff <= d /\ resets[c].effective <= d
<1>1. LatestHolds /\ ResetFacts
  BY LatestFacts, ResetsAre
<1>2. LatestCheckpoint(a, d) # 0 => LatestCheckpoint(a, d) \in Eligible(a, d)
  BY <1>1 DEF LatestHolds
<1> QED
  BY <1>1, <1>2 DEF Eligible, Checkpoints, ResetFacts

\* Every balance the program shows is a number.
LEMMA BalanceInt ==
    ASSUME TableOK, ResetsTyped, opening \in [Accounts -> Int], NEW a \in Accounts, NEW d
    PROVE  BalanceAsOf(a, d) \in Int /\ Base(a, LatestCheckpoint(a, d)) \in Int
<1> DEFINE c == LatestCheckpoint(a, d)
<1>1. Base(a, c) \in Int
  BY LatestIs DEF Base, SavedBalances
<1>2. Total(IntervalRows(a, Since(c), d)) \in Int
  BY IntervalFacts
<1> HIDE DEF c
<1>3. Dir(a) * Total(IntervalRows(a, Since(c), d)) \in Int
  BY <1>2, DirIs
<1>4. BalanceAsOf(a, d) = Base(a, c) + Dir(a) * Total(IntervalRows(a, Since(c), d))
  BY DEF BalanceAsOf, c
<1> QED
  BY <1>1, <1>3, <1>4 DEF c

(* -- The monthly roll-forward ---------------------------------------------- *)

\* What a roll-forward counted is a record of it.
LEMMA MembersAre ==
    ASSUME TableOK, NEW a, NEW ids, ids \subseteq Ids, \A i \in ids : rows[i] # None
    PROVE  /\ Members(a, ids) \in [ids -> Counted]
           /\ \A i \in ids : Members(a, ids)[i].day = rows[i].day
           /\ SumFunction(Quantities(Members(a, ids))) = Dir(a) * Total(ids)
<1>1. \A i \in ids : rows[i] \in Transactions
  BY RowFacts DEF RowOrNone
<1>2. \A i \in ids : Contribution(a, i) \in Counted
  <2> TAKE i \in ids
  <2>1. rows[i].rev \in Int /\ rows[i].day \in Int /\ rows[i].amount \in Int
    BY <1>1 DEF Transactions
  <2>2. Dir(a) * rows[i].amount \in Int
    BY <2>1, DirIs
  <2> QED BY <2>1, <2>2 DEF Contribution, Counted
<1>3. Quantities(Members(a, ids)) = [i \in ids |-> Dir(a) * rows[i].amount]
  BY DEF Quantities, Members, Contribution
<1> QED
  BY <1>2, <1>3, ScaledTotal DEF Members, Contribution

LEMMA CountedIn ==
    ASSUME TableOK, Len(rows) <= MaxRows, NEW ids, ids \subseteq Ids, NEW m \in [ids -> Counted]
    PROVE  m \in UNION {[S -> Counted] : S \in SUBSET (1 .. MaxRows)}
<1>1. ids \in SUBSET (1 .. MaxRows)
  BY RowFacts, LedgerAssumption DEF LedgerAssumption
<1> QED
  BY <1>1

LEMMA ShortSeqs ==
    /\ \A S, x, y : x \in S /\ y \in S => <<x, y>> \in Seq(S)
    /\ \A S, x, y, z : x \in S /\ y \in S /\ z \in S => <<x, y, z>> \in Seq(S)
OBVIOUS

\* What the roll-forward saves for one account, and the version that describes it.
LEMMA MonthlyFacts ==
    ASSUME IInv, Grounds, Books, NEW a \in accounts, NEW c \in Nat, NEW n \in Nat
    PROVE  /\ MonthlyRow(a, n) \in SavedBalances
           /\ AddedReset(MonthlyRow(a, n), Len(versions) + n)
           /\ MonthlyVersion(a, c, n) \in SavedVersions
           /\ AddedVersion(MonthlyVersion(a, c, n))
           /\ Describes(MonthlyVersion(a, c, n), c, MonthlyRow(a, n))
<1> DEFINE r == MonthlyRow(a, n)
<1> DEFINE v == MonthlyVersion(a, c, n)
<1> DEFINE p == LatestCheckpoint(a, today - 1)
<1> DEFINE ids == IntervalRows(a, Since(p), today - 1)
<1>1. /\ TableOK /\ ResetsTyped /\ VersionsTyped /\ a \in Accounts /\ today \in Nat
      /\ opening \in [Accounts -> Int] /\ revision \in Int /\ Len(rows) <= MaxRows
      /\ Len(versions) \in Nat
  BY VersionsAre DEF IInv, Books, TableOK, Grounds
<1>2. BalanceAsOf(a, today - 1) \in Int /\ Base(a, p) \in Int
  BY <1>1, BalanceInt
<1>3. /\ r.account = a /\ r.period = <<"month", Month(today)>> /\ r.cutoff = today - 1
      /\ r.effective = today - 1 /\ r.balance = BalanceAsOf(a, today - 1)
      /\ r.version = Len(versions) + n
  BY DEF MonthlyRow
<1>4. r \in SavedBalances
  <2>1. Month(today) \in Int
    BY <1>1 DEF Month
  <2>2. <<"month", Month(today)>> \in Seq(Int \cup {"month", "manual", "move"})
    BY <2>1, ShortSeqs
  <2> QED BY <1>1, <1>2, <2>2 DEF MonthlyRow, SavedBalances
<1>5. AddedReset(r, Len(versions) + n)
  BY <1>1, <1>3 DEF AddedReset
<1>6. p # 0 => /\ p \in DOMAIN resets /\ resets[p] # None /\ resets[p].account = a
               /\ resets[p] \in SavedBalances
               /\ resets[p].cutoff <= today - 1
  BY <1>1, LatestIs
<1>7. /\ ids \subseteq Ids /\ IsFiniteSet(ids) /\ Total(ids) \in Int
      /\ \A i \in ids : /\ rows[i] # None /\ rows[i] \in Transactions
                        /\ rows[i].day > Since(p) /\ rows[i].day <= today - 1
  BY <1>1, IntervalFacts
<1>8. /\ Members(a, ids) \in [ids -> Counted]
      /\ \A i \in ids : Members(a, ids)[i].day = rows[i].day
      /\ SumFunction(Quantities(Members(a, ids))) = Dir(a) * Total(ids)
  BY <1>1, <1>7, MembersAre
<1>9. BalanceAsOf(a, today - 1) = Base(a, p) + Dir(a) * Total(ids)
  BY DEF BalanceAsOf
<1>10. /\ v.reset = c /\ v.account = a /\ v.kind = "automatic" /\ v.cutoff = today - 1
       /\ v.effective = today - 1 /\ v.balance = BalanceAsOf(a, today - 1)
       /\ v.opens = (IF p = 0 THEN opening[a] ELSE None)
       /\ v.parent = (IF p = 0 THEN 0 ELSE resets[p].version)
       /\ v.parentBalance = (IF p = 0 THEN None ELSE resets[p].balance)
       /\ v.parentCutoff = Since(p) /\ v.integrity = "trusted" /\ v.capture = revision
       /\ v.members = Members(a, ids)
  BY <1>3 DEF MonthlyVersion, Version
<1>11. Since(p) \in Int /\ (p = 0 => Since(p) = -1) /\ (p # 0 => Since(p) = resets[p].cutoff)
  BY <1>6 DEF Since, SavedBalances
<1>12. p # 0 => /\ resets[p].version \in Nat /\ resets[p].version # 0
                /\ resets[p].balance \in Int
  BY <1>6, VersionsAre DEF SavedBalances, Books, Current
<1>13. v \in SavedVersions
  <2>1. v.members \in UNION {[S -> Counted] : S \in SUBSET (1 .. MaxRows)}
    BY <1>1, <1>7, <1>8, <1>10, CountedIn
  <2>2. v.opens \in Int \cup {None} /\ v.parentBalance \in Int \cup {None} /\ v.parent \in Nat
    BY <1>1, <1>10, <1>12
  <2>3. v = [reset |-> v.reset, account |-> v.account, kind |-> v.kind, cutoff |-> v.cutoff,
             effective |-> v.effective, balance |-> v.balance, opens |-> v.opens,
             parent |-> v.parent, parentBalance |-> v.parentBalance,
             parentCutoff |-> v.parentCutoff, integrity |-> v.integrity,
             capture |-> v.capture, members |-> v.members]
    BY DEF MonthlyVersion, Version
  <2> HIDE DEF v, p, ids
  <2>4. /\ v.reset \in Nat /\ v.account \in Accounts /\ v.cutoff \in Int /\ v.effective \in Int
        /\ v.balance \in Int /\ v.kind \in {"automatic", "manual", "confirmation", "legacy"}
        /\ v.parentCutoff \in Int /\ v.integrity \in {"trusted", "untrusted", "opaque"}
        /\ v.capture \in Int
    BY <1>1, <1>2, <1>10, <1>11
  <2> QED BY <2>1, <2>2, <2>3, <2>4 DEF SavedVersions
<1> HIDE DEF r, v, p, ids
<1>14. OnNothing(v) \/ OnCheckpoint(v, p)
  <2>1. CASE p = 0
    BY <1>1, <1>10, <1>11, <2>1 DEF OnNothing
  <2>2. CASE p # 0
    BY <1>6, <1>10, <1>11, <2>2 DEF OnCheckpoint
  <2> QED BY <2>1, <2>2
<1>15. AddsUp(v)
  <2>1. Starts(v) = Base(a, p)
    BY <1>10, <1>12 DEF Starts, Base
  <2>2. DOMAIN v.members = ids
    BY <1>8, <1>10
  <2>3. \A i \in ids : v.members[i].day = rows[i].day
    BY <1>8, <1>10
  <2>4. \A i \in DOMAIN v.members : v.members[i].day <= v.cutoff
                                    /\ v.members[i].day > v.parentCutoff
    BY <1>7, <1>10, <2>2, <2>3
  <2> QED BY <1>2, <1>8, <1>9, <1>10, <2>1, <2>4 DEF AddsUp
<1>16. Describes(v, c, r)
  BY <1>3, <1>10 DEF Describes
<1> QED
  BY <1>4, <1>5, <1>13, <1>14, <1>15, <1>16 DEF AddedVersion, r, v

\* roll_forward_monthly_balances saves one balance per account, built on the one before it.
LEMMA RollForwardBooks ==
    ASSUME IInv, Grounds, Books, RollForward
    PROVE  Books'
<1> DEFINE k == Cardinality(Unrolled)
<1> DEFINE R == [n \in DOMAIN RollOrder |-> MonthlyRow(RollOrder[n], n)]
<1> DEFINE W == [n \in DOMAIN RollOrder |-> MonthlyVersion(RollOrder[n], Len(resets) + n, n)]
<1>1. k \in Nat /\ RollOrder \in [1 .. k -> Unrolled] /\ DOMAIN RollOrder = 1 .. k
  <2>1. IsFiniteSet(Unrolled)
    <3>1. Unrolled \in SUBSET accounts /\ IsFiniteSet(accounts)
      BY DEF Unrolled, Grounds
    <3> QED BY <3>1, FS_Subset
  <2> QED BY <2>1, SequenceOfSet DEF RollOrder
<1>2. Len(resets) \in Nat
  BY ResetsAre DEF Books, ResetFacts
<1>3. ASSUME NEW n \in 1 .. k
      PROVE  /\ R[n] \in SavedBalances /\ W[n] \in SavedVersions
             /\ AddedReset(R[n], Len(versions) + n) /\ AddedVersion(W[n])
             /\ Describes(W[n], Len(resets) + n, R[n])
  <2>1. RollOrder[n] \in accounts /\ n \in Nat /\ Len(resets) + n \in Nat
    BY <1>1, <1>2 DEF Unrolled
  <2>2. R[n] = MonthlyRow(RollOrder[n], n)
        /\ W[n] = MonthlyVersion(RollOrder[n], Len(resets) + n, n)
    BY <1>1
  <2> HIDE DEF R, W, k
  <2> QED BY <2>1, <2>2, MonthlyFacts
<1>4. DOMAIN R = 1 .. k /\ DOMAIN W = 1 .. k /\ R = [n \in 1 .. k |-> R[n]]
      /\ W = [n \in 1 .. k |-> W[n]]
  BY <1>1
<1>5. resets' = resets \o R /\ versions' = versions \o W /\ UNCHANGED today
  BY DEF RollForward, otherVars
<1> HIDE DEF R, W, k
<1>6. R \in [1 .. k -> SavedBalances] /\ W \in [1 .. k -> SavedVersions]
  BY <1>3, <1>4
<1> QED
  BY <1>1, <1>3, <1>5, <1>6, BooksExtended

(* -- Balances a person types ----------------------------------------------- *)

\* A version of unknown content.
Unknown(c, r, kind, x) == [Version(c, r, kind, None, 0, "opaque", <<>>) EXCEPT !.capture = x]

\* A version with no rows behind it (a typed or confirmed figure) claims nothing.
LEMMA OpaqueFacts ==
    ASSUME NEW r \in SavedBalances, NEW c \in Nat, NEW x \in Int, revision \in Int,
           NEW kind \in {"manual", "confirmation", "legacy"}, -1 <= r.cutoff
    PROVE  LET v == Unknown(c, r, kind, x)
           IN  /\ v \in SavedVersions /\ Opaque(v) /\ Describes(v, c, r)
               /\ v.reset = c /\ v.account = r.account
<1> DEFINE v == Unknown(c, r, kind, x)
<1>1. <<>> \in UNION {[S -> Counted] : S \in SUBSET (1 .. MaxRows)}
  <2>1. <<>> \in [{} -> Counted]
    OBVIOUS
  <2> QED BY <2>1
<1>2. v = [reset |-> c, account |-> r.account, kind |-> kind, cutoff |-> r.cutoff,
           effective |-> r.effective, balance |-> r.balance, opens |-> None, parent |-> 0,
           parentBalance |-> None, parentCutoff |-> -1, integrity |-> "opaque",
           capture |-> x, members |-> <<>>]
  BY DEF Unknown, Version, Since
<1>3. v \in SavedVersions
  <2>1. /\ r.account \in Accounts /\ r.cutoff \in Int /\ r.effective \in Int
        /\ r.balance \in Int
    BY DEF SavedBalances
  <2>2. kind \in {"automatic", "manual", "confirmation", "legacy"} /\ 0 \in Nat /\ -1 \in Int
        /\ None \in Int \cup {None} /\ "opaque" \in {"trusted", "untrusted", "opaque"}
    OBVIOUS
  <2> HIDE DEF v
  <2> QED BY <1>1, <1>2, <2>1, <2>2 DEF SavedVersions
<1> HIDE DEF v
<1>4. Opaque(v)
  BY <1>2 DEF Opaque, Trusted
<1>5. Describes(v, c, r)
  BY <1>2 DEF Describes
<1> QED
  BY <1>2, <1>3, <1>4, <1>5 DEF v

LEMMA AnchorVersion ==
    ASSUME NEW r \in SavedBalances, NEW c \in Nat, revision \in Int,
           NEW kind \in {"manual", "confirmation", "legacy"}, -1 <= r.cutoff
    PROVE  LET v == Version(c, r, kind, None, 0, "opaque", <<>>)
           IN  /\ v \in SavedVersions /\ Opaque(v) /\ Describes(v, c, r)
               /\ v.reset = c /\ v.account = r.account
<1> DEFINE v == Version(c, r, kind, None, 0, "opaque", <<>>)
<1> DEFINE w == Unknown(c, r, kind, revision)
<1>1. w = v
  BY DEF Version, Unknown
<1>2. /\ w \in SavedVersions /\ Opaque(w) /\ Describes(w, c, r)
      /\ w.reset = c /\ w.account = r.account
  BY OpaqueFacts
<1>3. /\ v \in SavedVersions /\ Opaque(v) /\ Describes(v, c, r)
      /\ v.reset = c /\ v.account = r.account
  <2> HIDE DEF v, w
  <2> QED BY <1>1, <1>2
<1> QED
  BY <1>3

LEMMA OneMore ==
    ASSUME NEW S, NEW s \in Seq(S), NEW e \in S
    PROVE  Append(s, e) = s \o [n \in 1 .. 1 |-> e]
<1>1. Append(s, e) \in Seq(S) /\ Len(Append(s, e)) = Len(s) + 1
      /\ \A i \in 1 .. Len(s) + 1 : Append(s, e)[i] = IF i = Len(s) + 1 THEN e ELSE s[i]
  OBVIOUS
<1> DEFINE t == [n \in 1 .. 1 |-> e]
<1> DEFINE k == 1
<1>2. t \in [1 .. k -> S] /\ t[1] = e /\ k \in Nat
  OBVIOUS
<1> HIDE DEF t, k
<1>3. /\ s \o t \in Seq(S) /\ Len(s \o t) = Len(s) + k /\ Len(s) \in Nat
      /\ \A i \in 1 .. Len(s) : (s \o t)[i] = s[i]
      /\ \A n \in 1 .. k : (s \o t)[Len(s) + n] = t[n]
  BY <1>2, Joined
<1> USE DEF k
<1>4. \A i \in 1 .. Len(s) + 1 : Append(s, e)[i] = (s \o t)[i]
  <2> TAKE i \in 1 .. Len(s) + 1
  <2>1. CASE i = Len(s) + 1
    BY <1>1, <1>2, <1>3, <2>1
  <2>2. CASE i # Len(s) + 1
    <3>1. i \in 1 .. Len(s)
      BY <1>3, <2>2
    <3> QED BY <1>1, <1>3, <2>2, <3>1
  <2> QED BY <2>1, <2>2
<1> DEFINE u == Append(s, e)
<1> DEFINE w == s \o t
<1>5. u \in Seq(S) /\ w \in Seq(S) /\ Len(u) = Len(w) /\ \A i \in 1 .. Len(u) : u[i] = w[i]
  BY <1>1, <1>3, <1>4
<1> HIDE DEF u, w
<1>6. u = w
  BY <1>5, SeqEqual
<1> QED
  BY <1>6 DEF u, w, t

\* A number typed for a day is kept as that, whatever was saved before.
LEMMA AnchorBooks ==
    ASSUME Books, UNCHANGED today, revision \in Int, NEW a, NEW period, NEW cutoff, NEW effective,
           NEW balance, NEW kind \in {"manual", "confirmation"},
           AnchorRow(a, period, cutoff, effective, balance) \in SavedBalances,
           -1 <= cutoff, cutoff <= today - 1, effective <= today,
           RecordAnchor(a, period, cutoff, effective, balance, kind)
    PROVE  Books'
<1> DEFINE r == AnchorRow(a, period, cutoff, effective, balance)
<1> DEFINE v(c) == Version(c, r, kind, None, 0, "opaque", <<>>)
<1>1. /\ r \in SavedBalances /\ r.account = a /\ r.cutoff = cutoff /\ r.effective = effective
      /\ r.version = Len(versions) + 1
  BY DEF AnchorRow
<1> HIDE DEF r
<1>2. /\ Len(resets) \in Nat /\ DOMAIN resets = 1 .. Len(resets)
      /\ \A c \in DOMAIN resets : resets[c] # None => resets[c] \in SavedBalances
      /\ Len(versions) \in Nat /\ DOMAIN versions = 1 .. Len(versions)
      /\ ResetsTyped /\ VersionsTyped
  BY ResetsAre, VersionsAre DEF Books, ResetFacts
<1>3. ASSUME NEW c \in Nat
      PROVE  /\ v(c) \in SavedVersions /\ Opaque(v(c)) /\ Describes(v(c), c, r)
             /\ v(c).reset = c /\ v(c).account = a
  BY <1>1, AnchorVersion
<1> HIDE DEF v
<1>4. CASE AddAnchor(r, kind)
  <2> DEFINE R == [n \in 1 .. 1 |-> r]
  <2> DEFINE W == [n \in 1 .. 1 |-> v(Len(resets) + 1)]
  <2>1. Len(resets) + 1 \in Nat
    BY <1>2
  <2>2. v(Len(resets) + 1) \in SavedVersions /\ Opaque(v(Len(resets) + 1))
        /\ Describes(v(Len(resets) + 1), Len(resets) + 1, r)
    BY <1>3, <2>1
  <2>3. resets' = resets \o R
    <3>1. resets' = Append(resets, r)
      BY <1>4 DEF AddAnchor
    <3> QED BY <1>1, <1>2, <3>1, OneMore DEF ResetsTyped
  <2>4. versions' = versions \o W
    <3>1. versions' = Append(versions, v(Len(resets) + 1))
      BY <1>4 DEF AddAnchor, v
    <3> QED BY <1>2, <2>2, <3>1, OneMore DEF VersionsTyped
  <2>5. AddedVersion(v(Len(resets) + 1))
    BY <2>2 DEF AddedVersion, Opaque, OnNothing
  <2>6. AddedReset(r, Len(versions) + 1)
    BY <1>1 DEF AddedReset
  <2>7. R \in [1 .. 1 -> SavedBalances] /\ W \in [1 .. 1 -> SavedVersions]
    BY <1>1, <2>2
  <2>8. \A n \in 1 .. 1 : /\ AddedReset(R[n], Len(versions) + n)
                          /\ AddedVersion(W[n])
                          /\ Describes(W[n], Len(resets) + n, R[n])
    BY <2>2, <2>5, <2>6
  <2> HIDE DEF R, W
  <2> QED BY <2>3, <2>4, <2>7, <2>8, BooksExtended
<1>5. ASSUME NEW c \in PeriodRow(a, period), ReplaceAnchor(c, r, kind)
      PROVE  Books'
  <2>1. c \in DOMAIN resets /\ resets[c] # None /\ resets[c].account = a /\ c \in Nat
    BY <1>2 DEF PeriodRow, Checkpoints
  <2> DEFINE H == {c}
  <2> DEFINE S == Descendants(c) \cup {resets[c].version}
  <2> DEFINE W == [n \in 1 .. 1 |-> v(c)]
  <2>2. v(c) \in SavedVersions /\ Opaque(v(c)) /\ Describes(v(c), c, r)
        /\ v(c).reset = c /\ v(c).account = a
    BY <1>3, <2>1
  <2>3. \A n \in S : n \in DOMAIN versions /\ versions[n] # None
    BY <2>1, DescendantsAre DEF Books, Current, V
  <2>4. resets' = [resets EXCEPT ![c] = r] /\ versions' = Append(Distrust(S), v(c))
    BY <1>5 DEF ReplaceAnchor, v
  <2> HIDE DEF S
  <2>5. /\ Distrust(S) \in Seq(SavedVersions \cup {None}) /\ Len(Distrust(S)) = Len(versions)
    BY <1>2, <2>3, DistrustKeeps
  <2>6. versions' = Distrust(S) \o W
    BY <2>2, <2>4, <2>5, OneMore
  <2>7. Rewritten(H, 1)
    <3>1. DOMAIN resets' = DOMAIN resets /\ resets' = [d \in DOMAIN resets' |-> resets'[d]]
          /\ resets'[c] = r /\ \A d \in DOMAIN resets : d # c => resets'[d] = resets[d]
      BY <1>2, <2>1, <2>4
    <3>2. r.version \in Len(versions) + 1 .. Len(versions) + 1
      BY <1>1, <1>2
    <3> QED BY <1>1, <2>1, <3>1, <3>2 DEF Rewritten
  <2>8. W \in [1 .. 1 -> SavedVersions] /\ \A n \in 1 .. 1 : W[n] = v(c)
    BY <2>2
  <2>9. V(c)' = v(c) /\ resets'[c] = r
    <3>1. resets'[c] = r
      BY <2>1, <2>4
    <3>2. versions'[Len(versions) + 1] = v(c)
      <4>1. \A n \in 1 .. 1 : (Distrust(S) \o W)[Len(Distrust(S)) + n] = W[n]
        BY <2>5, <2>8, VersionsJoined
      <4> QED BY <2>5, <2>6, <2>8, <4>1
    <3> QED BY <1>1, <3>1, <3>2 DEF V
  <2>10. \A d \in H : Descendants(d) \subseteq S
    BY DEF S
  <2>11. \A d \in H : Describes(V(d)', d, resets'[d])
    BY <2>2, <2>9
  <2>12. \A n \in 1 .. 1 : Opaque(W[n]) /\ W[n].reset \in H
                           /\ W[n].account = resets[W[n].reset].account
    BY <2>1, <2>2, <2>8
  <2> HIDE DEF W, H
  <2> QED BY <2>3, <2>6, <2>7, <2>8, <2>10, <2>11, <2>12, BooksDistrusted
<1> QED
  BY <1>4, <1>5 DEF RecordAnchor, r

\* Ranks among finitely many numbers.
LEMMA RankFacts ==
    ASSUME NEW k \in Nat, NEW S \in SUBSET (1 .. k)
    PROVE  /\ IsFiniteSet(S) /\ Cardinality(S) \in Nat
           /\ \A m \in S : Rank(S, m) \in 1 .. Cardinality(S)
           /\ \A l, m \in S : l < m => Rank(S, l) < Rank(S, m)
           /\ \A m \in S : Nth(S, Rank(S, m)) = m
           /\ \A n \in 1 .. Cardinality(S) : Nth(S, n) \in S /\ Rank(S, Nth(S, n)) = n
<1> DEFINE Upto(m) == {j \in S : j <= m}
<1>1. IsFiniteSet(S) /\ Cardinality(S) \in Nat
  <2>1. IsFiniteSet(1 .. k)
    BY FS_Interval
  <2> QED BY <2>1, FS_Subset, FS_CardinalityType
<1>2. ASSUME NEW m \in S
      PROVE  /\ IsFiniteSet(Upto(m)) /\ Cardinality(Upto(m)) \in Nat
             /\ Cardinality(Upto(m)) <= Cardinality(S)
             /\ Cardinality(Upto(m)) # 0 /\ Rank(S, m) = Cardinality(Upto(m))
  <2>1. Upto(m) \in SUBSET S /\ m \in Upto(m)
    OBVIOUS
  <2>2. IsFiniteSet(Upto(m)) /\ Cardinality(Upto(m)) <= Cardinality(S)
    BY <1>1, <2>1, FS_Subset
  <2>3. Cardinality(Upto(m)) \in Nat
    BY <2>2, FS_CardinalityType
  <2>4. Cardinality(Upto(m)) # 0
    BY <2>1, <2>2, FS_EmptySet
  <2> QED BY <2>2, <2>3, <2>4 DEF Rank
<1>3. ASSUME NEW l \in S, NEW m \in S, l < m PROVE Rank(S, l) < Rank(S, m)
  <2>1. l \in Int /\ m \in Int /\ \A j \in S : j \in Int
    OBVIOUS
  <2>2. m \notin Upto(l) /\ m \in Upto(m)
    BY <1>3, <2>1
  <2>3. \A j \in Upto(l) : j \in Upto(m)
    BY <1>3, <2>1
  <2> DEFINE A == Upto(l)
  <2> DEFINE B == Upto(m)
  <2>4. IsFiniteSet(B) /\ A \in SUBSET B /\ A # B
    BY <1>2, <2>2, <2>3
  <2>5. Rank(S, l) = Cardinality(A) /\ Rank(S, m) = Cardinality(B)
    BY <1>2
  <2>6. Cardinality(A) \in Nat /\ Cardinality(B) \in Nat
    BY <1>2
  <2> HIDE DEF A, B
  <2>7. Cardinality(A) <= Cardinality(B) /\ Cardinality(A) # Cardinality(B)
    BY <2>4, FS_Subset
  <2> QED BY <2>5, <2>6, <2>7
<1>4. \A m \in S : Rank(S, m) \in 1 .. Cardinality(S)
  <2> TAKE m \in S
  <2>1. /\ Cardinality(Upto(m)) \in Nat /\ Cardinality(Upto(m)) <= Cardinality(S)
        /\ Cardinality(Upto(m)) # 0 /\ Rank(S, m) = Cardinality(Upto(m))
    BY <1>2
  <2> HIDE DEF Upto
  <2> QED BY <1>1, <2>1
<1>5. \A n \in 1 .. Cardinality(S) : Nth(S, n) \in S /\ Rank(S, Nth(S, n)) = n
  BY NthFacts
<1>6. \A m \in S : Nth(S, Rank(S, m)) = m
  <2> TAKE m \in S
  <2> DEFINE l == Nth(S, Rank(S, m))
  <2>1. l \in S /\ Rank(S, l) = Rank(S, m)
    BY <1>4, <1>5
  <2> HIDE DEF l
  <2>2. l \in Int /\ m \in Int /\ Rank(S, m) \in Int
    BY <1>4, <2>1
  <2>3. ~(l < m) /\ ~(m < l)
    BY <1>3, <2>1, <2>2
  <2> QED BY <2>2, <2>3 DEF l
<1> QED
  BY <1>1, <1>3, <1>4, <1>5, <1>6

\* A typed balance starts to count when every earlier one has.
LEMMA EffectiveFacts ==
    ASSUME ResetsTyped, Placed, today \in Nat, NEW a, NEW period
    PROVE  /\ OverrideEffective(a, period) \in Int
           /\ OverrideEffective(a, period) >= today - 1
           /\ OverrideEffective(a, period) <= today
           /\ \A c \in Checkpoints(a) :
                  resets[c].period # period /\ resets[c].cutoff <= today - 1
                  => OverrideEffective(a, period) >= resets[c].effective
           /\ \/ OverrideEffective(a, period) = today - 1
              \/ \E c \in Checkpoints(a) :
                     /\ resets[c].period # period /\ resets[c].cutoff <= today - 1
                     /\ OverrideEffective(a, period) = resets[c].effective
<1> DEFINE D == {e \in Checkpoints(a) : resets[e].period # period /\ resets[e].cutoff <= today - 1}
<1> DEFINE others == {resets[c].effective : c \in D}
<1>1. ResetFacts
  BY ResetsAre
<1>2. D \in SUBSET (1 .. Len(resets)) /\ \A c \in D : resets[c] \in SavedBalances /\ resets[c] # None
                                                    /\ c \in DOMAIN resets
  BY <1>1 DEF ResetFacts, Checkpoints
<1>3. IsFiniteSet(D)
  <2>1. IsFiniteSet(1 .. Len(resets))
    BY <1>1, FS_Interval DEF ResetFacts
  <2> HIDE DEF D
  <2> QED BY <1>2, <2>1, FS_Subset
<1>4. \A x \in others : x \in Int /\ x <= today
  BY <1>2 DEF SavedBalances, Placed
<1>5. IsFiniteSet(others)
  <2> DEFINE f == [c \in D |-> resets[c].effective]
  <2>1. f \in Surjection(D, others)
    BY DEF Surjection
  <2> HIDE DEF f, D, others
  <2> QED BY <1>3, <2>1, FS_Surjection
<1> DEFINE S == {today - 1} \cup others
<1>6. IsFiniteSet(S)
  <2>1. S = others \cup {today - 1}
    OBVIOUS
  <2> HIDE DEF S, others
  <2> QED BY <1>5, <2>1, FS_AddElement
<1>7. S \subseteq Int /\ S # {} /\ \A x \in S : x <= today
  BY <1>4
<1>8. OverrideEffective(a, period) = Max(S)
  BY DEF OverrideEffective
<1>9. /\ today - 1 \in S /\ \A c \in D : resets[c].effective \in S
      /\ \A x \in S : x = today - 1 \/ \E c \in D : x = resets[c].effective
  OBVIOUS
<1> HIDE DEF S, others
<1>10. Max(S) \in S /\ \A x \in S : Max(S) >= x
  BY <1>6, <1>7, GreatestNumber
<1> QED
  BY <1>7, <1>8, <1>9, <1>10

\* The baseline an override writes is a saved balance of the right period.
LEMMA OverrideRow ==
    ASSUME IInv, Grounds, Books, NEW a \in accounts, NEW b \in Typed
    PROVE  /\ AnchorRow(a, OverridePeriod(a), today - 1, OverrideEffective(a, OverridePeriod(a)),
                        OverrideBaseline(a, b)) \in SavedBalances
           /\ OverrideEffective(a, OverridePeriod(a)) <= today
<1>1. /\ TableOK /\ ResetsTyped /\ Placed /\ a \in Accounts /\ today \in Nat /\ b \in Int
      /\ Len(versions) \in Nat /\ Len(resets) \in Nat
  BY VersionsAre, ResetsAre, LedgerAssumption
     DEF LedgerAssumption, IInv, Books, TableOK, Grounds, ResetFacts
<1>2. /\ OverrideEffective(a, OverridePeriod(a)) \in Int
      /\ OverrideEffective(a, OverridePeriod(a)) <= today
  BY <1>1, EffectiveFacts
<1>3. OverridePeriod(a) \in Seq(Int \cup {"month", "manual", "move"})
  <2>1. <<"manual", today, Len(resets) + 1>> \in Seq(Int \cup {"month", "manual", "move"})
    BY <1>1, ShortSeqs
  <2>2. <<"manual", today, 0>> \in Seq(Int \cup {"month", "manual", "move"})
    BY <1>1, ShortSeqs
  <2> QED BY <2>1, <2>2 DEF OverridePeriod
<1>4. OverrideBaseline(a, b) \in Int
  <2>1. Total(IntervalRows(a, today - 1, today)) \in Int
    BY <1>1, IntervalFacts
  <2>2. Dir(a) * Total(IntervalRows(a, today - 1, today)) \in Int
    BY <2>1, DirIs
  <2> QED BY <1>1, <2>2 DEF OverrideBaseline
<1>5. today - 1 \in Int /\ Len(versions) + 1 \in Nat
  BY <1>1
<1> QED
  BY <1>1, <1>2, <1>3, <1>4, <1>5 DEF AnchorRow, SavedBalances

\* A typed balance (set_account_balance_override in accounts.rs) keeps Books.
LEMMA OverrideBooks ==
    ASSUME IInv, Grounds, Books, NEW a \in accounts, NEW b \in Typed, Override(a, b)
    PROVE  Books'
<1> DEFINE period == OverridePeriod(a)
<1> DEFINE effective == OverrideEffective(a, period)
<1> DEFINE balance == OverrideBaseline(a, b)
<1> DEFINE cutoff == today - 1
<1>1. UNCHANGED today /\ RecordAnchor(a, period, cutoff, effective, balance, "manual")
  BY DEF Override, otherVars
<1>2. revision \in Int /\ -1 <= cutoff /\ cutoff <= today - 1
  BY DEF IInv, TableOK, Grounds
<1>3. AnchorRow(a, period, cutoff, effective, balance) \in SavedBalances /\ effective <= today
  BY OverrideRow
<1>4. "manual" \in {"manual", "confirmation"}
  OBVIOUS
<1> HIDE DEF period, effective, balance, cutoff
<1> QED
  BY <1>1, <1>2, <1>3, <1>4, AnchorBooks

(* -- Flipped signs --------------------------------------------------------- *)

Earlier(a, c) == {e \in Checkpoints(a) : e < c /\ resets[e].cutoff <= resets[c].cutoff}
AnchorOf(a, c) ==
    IF Earlier(a, c) = {} THEN 0
    ELSE CHOOSE e \in Earlier(a, c) : \A f \in Earlier(a, c) :
           resets[e].cutoff > resets[f].cutoff
           \/ (resets[e].cutoff = resets[f].cutoff /\ e >= f)

\* The balance a recalculation starts from is an earlier one.
LEMMA AnchorBefore ==
    ASSUME ResetsTyped, NEW a, NEW c \in Checkpoints(a)
    PROVE  AnchorOf(a, c) \in 0 .. c - 1
           /\ (AnchorOf(a, c) # 0 => AnchorOf(a, c) \in Checkpoints(a))
<1> DEFINE S == Earlier(a, c)
<1>1. ResetFacts
  BY ResetsAre
<1>2. S \in SUBSET (1 .. Len(resets)) /\ c \in Nat /\ Len(resets) \in Nat
      /\ \A e \in S : e \in Nat /\ e # 0 /\ e < c /\ resets[e].cutoff \in Int /\ e \in Checkpoints(a)
  BY <1>1 DEF Earlier, ResetFacts, Checkpoints, SavedBalances
<1>3. IsFiniteSet(S)
  <2>1. IsFiniteSet(1 .. Len(resets))
    BY <1>2, FS_Interval
  <2> HIDE DEF S
  <2> QED BY <1>2, <2>1, FS_Subset
<1> DEFINE R == {p \in S \X S : resets[p[1]].cutoff > resets[p[2]].cutoff
                               \/ (resets[p[1]].cutoff = resets[p[2]].cutoff /\ p[1] >= p[2])}
<1>4. \A x, y \in S : <<x, y>> \in R <=> resets[x].cutoff > resets[y].cutoff
                               \/ (resets[x].cutoff = resets[y].cutoff /\ x >= y)
  OBVIOUS
<1>5. c # 0
  BY <1>1 DEF Checkpoints, ResetFacts
<1>6. AnchorOf(a, c) = IF S = {} THEN 0
                       ELSE CHOOSE e \in S : \A f \in S :
                              resets[e].cutoff > resets[f].cutoff
                              \/ (resets[e].cutoff = resets[f].cutoff /\ e >= f)
  BY DEF AnchorOf
<1> HIDE DEF R, S
<1>7. \A x, y \in S : <<x, y>> \in R \/ <<y, x>> \in R
  <2> TAKE x, y \in S
  <2>1. x \in Nat /\ y \in Nat /\ resets[x].cutoff \in Int /\ resets[y].cutoff \in Int
    BY <1>2
  <2> QED BY <1>4, <2>1
<1>8. \A x, y, z \in S : <<x, y>> \in R /\ <<y, z>> \in R => <<x, z>> \in R
  BY <1>2, <1>4
<1>9. S # {} => \E x \in S : \A y \in S : <<x, y>> \in R
  BY <1>3, <1>7, <1>8, GreatestExists
<1>10. S # {} => AnchorOf(a, c) \in S
  <2> SUFFICES ASSUME S # {} PROVE AnchorOf(a, c) \in S
    OBVIOUS
  <2>1. \E e \in S : \A f \in S : resets[e].cutoff > resets[f].cutoff
                              \/ (resets[e].cutoff = resets[f].cutoff /\ e >= f)
    BY <1>4, <1>9
  <2> QED BY <1>6, <2>1
<1>11. CASE S = {}
  <2>1. AnchorOf(a, c) = 0 /\ 0 \in 0 .. c - 1
    BY <1>2, <1>5, <1>6, <1>11
  <2> QED BY <2>1
<1>12. CASE S # {}
  <2> DEFINE m == AnchorOf(a, c)
  <2>1. m \in Nat /\ m < c /\ m \in Checkpoints(a)
    BY <1>2, <1>10, <1>12
  <2> HIDE DEF m
  <2>2. m \in 0 .. c - 1
    BY <1>2, <2>1
  <2> QED BY <2>1, <2>2 DEF m
<1> QED
  BY <1>11, <1>12

\* Flipping live rows changes every saved balance by a number, a person's by none.
LEMMA CorrectionFacts ==
    ASSUME TableOK, ResetsTyped, NEW ids, \A i \in ids : Live(i)
    PROVE  \A c \in DOMAIN resets :
               /\ Correction(ids)[c] \in Int
               /\ resets[c] = None => Correction(ids)[c] = 0
<1>1. ResetFacts
  BY ResetsAre
<1>2. ASSUME NEW a, NEW m, NEW n PROVE FlippedBetween(a, ids, m, n) \in Int
  <2> DEFINE S == {i \in ids : rows[i].account = a /\ rows[i].day <= n /\ rows[i].day > m}
  <2>1. S \subseteq Ids /\ \A i \in S : rows[i] # None
    BY DEF Live, Exists
  <2>2. FlippedBetween(a, ids, m, n) = -2 * Dir(a) * Total(S)
    BY DEF FlippedBetween
  <2> HIDE DEF S
  <2>3. Total(S) \in Int
    BY <2>1, RowsTotal
  <2> QED BY <2>2, <2>3, DirIs
<1>3. ASSUME NEW a, NEW c \in 0 .. Len(resets) PROVE FlipCorrection(a, ids)[c] \in Int
  <2> DEFINE n == Len(resets)
  <2> DEFINE A == {e \in Checkpoints(a) : resets[e].period[1] # "manual"}
  <2> DEFINE p == [e \in 0 .. n |-> AnchorOf(a, e)]
  <2> DEFINE own == [e \in 0 .. n |->
                       FlippedBetween(a, ids, Since(AnchorOf(a, e)), resets[e].cutoff)]
  <2> DEFINE Body(f) == [e \in 0 .. n |->
                  IF e \notin Checkpoints(a) \/ resets[e].period[1] = "manual" THEN 0
                  ELSE f[AnchorOf(a, e)]
                       + FlippedBetween(a, ids, Since(AnchorOf(a, e)), resets[e].cutoff)]
  <2> DEFINE Next1(f) == [e \in 0 .. n |-> IF e \notin A THEN 0 ELSE f[p[e]] + own[e]]
  <2> DEFINE fix == CHOOSE f : f = Body(f)
  <2>1. FlipCorrection(a, ids) = fix
    BY DEF FlipCorrection, AnchorOf, Earlier
  <2>2. n \in Nat /\ \A e \in A \cap (0 .. n) : p[e] \in 0 .. e - 1
    BY <1>1, AnchorBefore DEF ResetFacts
  <2>3. \A f : Body(f) = Next1(f)
    <3> TAKE f
    <3>1. \A e \in 0 .. n : Body(f)[e] = Next1(f)[e]
      OBVIOUS
    <3>2. Body(f) = [e \in 0 .. n |-> Body(f)[e]] /\ Next1(f) = [e \in 0 .. n |-> Next1(f)[e]]
      OBVIOUS
    <3> HIDE DEF Body, Next1
    <3> QED BY <3>1, <3>2
  <2>4. \A f : f = Next1(f) <=> Carries(n, A, p, own, f)
    BY DEF Carries
  <2>5. \A e \in A \cap (0 .. n) : own[e] \in Int
    BY <1>2
  <2> HIDE DEF A, p, own, Body, Next1
  <2>6. \A f : f = Body(f) <=> Carries(n, A, p, own, f)
    BY <2>3, <2>4
  <2>7. fix = Carried(n, A, p, own)
    BY <2>6 DEF Carried
  <2> HIDE DEF fix, n
  <2>8. \A e \in 0 .. n : fix[e] \in Int
    BY <2>2, <2>5, <2>7, CarriedFacts
  <2> QED BY <2>1, <2>8 DEF n
<1>4. ASSUME NEW c \in DOMAIN resets
      PROVE  Correction(ids)[c] \in Int /\ (resets[c] = None => Correction(ids)[c] = 0)
  <2>1. Correction(ids)[c] = IF resets[c] = None THEN 0
                             ELSE FlipCorrection(resets[c].account, ids)[c]
    BY DEF Correction
  <2>2. c \in 0 .. Len(resets)
    BY <1>1 DEF ResetFacts
  <2> QED BY <1>3, <2>1, <2>2
<1> QED
  BY <1>4

\* Recalculating every balance that relied on flipped rows keeps Books
\* (correct_checkpoints_after_flip in sign_flip.rs).
LEMMA FlippedBooks ==
    ASSUME TableOK, Books, UNCHANGED today, revision' \in Int, revision \in Int,
           NEW ids, \A i \in ids : Live(i), CorrectCheckpoints(ids)
    PROVE  Books'
<1> DEFINE fix == Correction(ids)
<1> DEFINE H == {c \in DOMAIN resets : fix[c] # 0}
<1> DEFINE k == Cardinality(H)
<1> DEFINE new(c) == [resets[c] EXCEPT !.balance = @ + fix[c],
                                       !.version = Len(versions) + Rank(H, c)]
<1> DEFINE typed(c) == Unknown(c, new(c), "legacy", revision')
<1> DEFINE S == {resets[c].version : c \in H} \cup UNION {Descendants(c) : c \in H}
<1> DEFINE W == [n \in 1 .. k |-> typed(Nth(H, n))]
<1>1. /\ ResetsTyped /\ VersionsTyped /\ Placed /\ Chained /\ Current
      /\ Len(resets) \in Nat /\ DOMAIN resets = 1 .. Len(resets)
      /\ \A c \in DOMAIN resets : resets[c] # None => resets[c] \in SavedBalances
      /\ Len(versions) \in Nat /\ DOMAIN versions = 1 .. Len(versions)
  BY ResetsAre, VersionsAre DEF Books, ResetFacts
<1>2. \A c \in H : /\ c \in DOMAIN resets /\ c \in Nat /\ resets[c] # None
                   /\ resets[c] \in SavedBalances /\ fix[c] \in Int
  BY <1>1, CorrectionFacts
<1>3. resets' = [c \in DOMAIN resets |-> IF c \in H THEN new(c) ELSE resets[c]]
  BY DEF CorrectCheckpoints
<1>4. versions' = Distrust(S) \o W
  BY DEF CorrectCheckpoints, Unknown
<1>5. /\ IsFiniteSet(H) /\ k \in Nat
      /\ \A m \in H : Rank(H, m) \in 1 .. k
      /\ \A m \in H : Nth(H, Rank(H, m)) = m
      /\ \A n \in 1 .. k : Nth(H, n) \in H /\ Rank(H, Nth(H, n)) = n
  <2>1. H \in SUBSET (1 .. Len(resets))
    BY <1>1
  <2> HIDE DEF H
  <2> QED BY <1>1, <2>1, RankFacts
<1>6. ASSUME NEW c \in H
      PROVE  /\ new(c) \in SavedBalances /\ new(c).account = resets[c].account
             /\ new(c).cutoff = resets[c].cutoff /\ new(c).effective = resets[c].effective
             /\ new(c).version = Len(versions) + Rank(H, c)
  <2>1. resets[c] \in SavedBalances /\ fix[c] \in Int /\ Rank(H, c) \in 1 .. k
    BY <1>2, <1>5
  <2>2. Len(versions) + Rank(H, c) \in Nat /\ resets[c].balance + fix[c] \in Int
    BY <1>1, <1>5, <2>1 DEF SavedBalances
  <2> HIDE DEF fix, H
  <2> QED BY <2>1, <2>2 DEF SavedBalances
<1>7. S \subseteq DOMAIN versions /\ \A v \in S : v \in DOMAIN versions /\ versions[v] # None
  BY <1>1, <1>2, DescendantsAre DEF Current, V
<1> HIDE DEF fix, S
<1>8. ASSUME NEW c \in H
      PROVE  /\ typed(c) \in SavedVersions /\ Opaque(typed(c)) /\ Describes(typed(c), c, new(c))
             /\ typed(c).reset = c /\ typed(c).account = resets[c].account
  <2>1. new(c) \in SavedBalances /\ c \in Nat /\ "legacy" \in {"manual", "confirmation", "legacy"}
        /\ new(c).account = resets[c].account
    BY <1>2, <1>6
  <2>2. -1 <= new(c).cutoff
    BY <1>1, <1>2, <1>6 DEF Placed
  <2> HIDE DEF new, H
  <2> QED BY <2>1, <2>2, OpaqueFacts
<1> HIDE DEF typed
<1>9. \A n \in 1 .. k : W[n] = typed(Nth(H, n))
  OBVIOUS
<1>10. W \in [1 .. k -> SavedVersions]
  BY <1>5, <1>8
<1> HIDE DEF W
<1>11. DOMAIN resets' = DOMAIN resets /\ resets' = [c \in DOMAIN resets' |-> resets'[c]]
       /\ (\A c \in H : resets'[c] = new(c))
       /\ \A c \in DOMAIN resets : c \notin H => resets'[c] = resets[c]
  BY <1>3
<1> HIDE DEF new, H, k
<1>12. Rewritten(H, k)
  <2> SUFFICES ASSUME NEW c \in H
               PROVE  /\ c \in DOMAIN resets /\ resets[c] # None
                      /\ resets'[c] \in SavedBalances /\ resets'[c].account = resets[c].account
                      /\ -1 <= resets'[c].cutoff /\ resets'[c].cutoff <= today - 1
                      /\ resets'[c].effective <= today
                      /\ resets'[c].version \in Len(versions) + 1 .. Len(versions) + k
    BY <1>11 DEF Rewritten
  <2>1. Len(versions) + Rank(H, c) \in Len(versions) + 1 .. Len(versions) + k
    BY <1>1, <1>5
  <2> QED BY <1>1, <1>2, <1>6, <1>11, <2>1 DEF Placed
<1>13. \A c \in H : Describes(V(c)', c, resets'[c])
  <2> TAKE c \in H
  <2>1. Rank(H, c) \in 1 .. k /\ W[Rank(H, c)] = typed(c)
    BY <1>5, <1>9
  <2>2. versions'[Len(versions) + Rank(H, c)] = typed(c)
    <3>1. Distrust(S) \in Seq(SavedVersions \cup {None}) /\ Len(Distrust(S)) = Len(versions)
      BY <1>1, <1>7, DistrustKeeps
    <3>2. \A n \in 1 .. k : (Distrust(S) \o W)[Len(Distrust(S)) + n] = W[n]
      BY <1>5, <1>10, <3>1, VersionsJoined
    <3> QED BY <1>4, <2>1, <3>1, <3>2
  <2>3. V(c)' = typed(c) /\ resets'[c] = new(c)
    BY <1>6, <1>11, <2>2 DEF V
  <2> QED BY <1>8, <2>3
<1>14. \A c \in H : Descendants(c) \subseteq S
  BY DEF S
<1>15. \A n \in 1 .. k : Opaque(W[n]) /\ W[n].reset \in H
                         /\ W[n].account = resets[W[n].reset].account
  BY <1>5, <1>8, <1>9
<1> QED
  BY <1>4, <1>5, <1>7, <1>10, <1>12, <1>13, <1>14, <1>15, BooksDistrusted

\* Flipping signs keeps Books: rows change and balances follow in one transaction.
LEMMA FlipBooks ==
    ASSUME IInv, Books, NEW ids, FlipSigns(ids), revision' \in Int
    PROVE  Books'
<1>1. /\ \A i \in ids : Live(i)
      /\ CorrectCheckpoints(ids) /\ UNCHANGED today
  BY DEF FlipSigns, otherVars
<1> QED
  BY <1>1, FlippedBooks DEF IInv, TableOK

(* -- An account goes ------------------------------------------------------- *)

\* Deleting an account deletes its balances and versions together.
LEMMA DeleteBooks ==
    ASSUME Books, NEW a, DeleteAccount(a)
    PROVE  Books'
<1>1. /\ resets' = [c \in DOMAIN resets |-> IF c \in Checkpoints(a) THEN None ELSE resets[c]]
      /\ versions' = [v \in DOMAIN versions |->
                       IF versions[v] # None /\ versions[v].account = a THEN None
                       ELSE versions[v]]
      /\ UNCHANGED today
  BY DEF DeleteAccount
<1>2. /\ ResetsTyped /\ VersionsTyped /\ Placed /\ Chained /\ Current /\ Balanced /\ Followed
      /\ Len(resets) \in Nat /\ DOMAIN resets = 1 .. Len(resets)
      /\ \A c \in DOMAIN resets : resets[c] # None => resets[c] \in SavedBalances
      /\ Len(versions) \in Nat /\ DOMAIN versions = 1 .. Len(versions)
      /\ \A n \in DOMAIN versions : versions[n] # None => versions[n] \in SavedVersions
  BY ResetsAre, VersionsAre DEF Books, ResetFacts
<1>3. /\ DOMAIN resets' = DOMAIN resets /\ DOMAIN versions' = DOMAIN versions
      /\ \A c \in DOMAIN resets : resets'[c] # None =>
             resets'[c] = resets[c] /\ resets[c].account # a
      /\ \A n \in DOMAIN versions : versions'[n] # None =>
             versions'[n] = versions[n] /\ versions[n].account # a
      /\ \A c \in DOMAIN resets : resets[c] # None /\ resets[c].account # a =>
             resets'[c] = resets[c]
      /\ \A n \in DOMAIN versions : versions[n] # None /\ versions[n].account # a =>
             versions'[n] = versions[n]
  BY <1>1 DEF Checkpoints
<1>4. ResetsTyped'
  <2>1. resets' \in [1 .. Len(resets) -> SavedBalances \cup {None}]
    BY <1>1, <1>2
  <2> QED BY <1>2, <2>1, SeqDef DEF ResetsTyped
<1>5. VersionsTyped'
  <2>1. versions' \in [1 .. Len(versions) -> SavedVersions \cup {None}]
    BY <1>1, <1>2
  <2> QED BY <1>2, <2>1, SeqDef DEF VersionsTyped
<1>6. Placed'
  BY <1>1, <1>2, <1>3 DEF Placed
<1>7. ASSUME NEW n \in DOMAIN versions', versions'[n] # None
      PROVE  /\ versions'[n].reset \in DOMAIN resets' /\ resets'[versions'[n].reset] # None
             /\ resets'[versions'[n].reset].account = versions'[n].account
             /\ versions'[n].parent < n /\ LinkedUp(versions[n])'
  <2>1. n \in DOMAIN versions /\ versions'[n] = versions[n] /\ versions[n] # None
        /\ versions[n].account # a
    BY <1>3, <1>7
  <2> DEFINE v == versions[n]
  <2>2. /\ v.reset \in DOMAIN resets /\ resets[v.reset] # None
        /\ resets[v.reset].account = v.account /\ v.parent < n /\ LinkedUp(v)
    BY <1>2, <2>1 DEF Chained
  <2>3. v.parent # 0 => /\ v.parent \in DOMAIN versions /\ versions[v.parent] # None
                        /\ versions[v.parent].account = v.account
                        /\ versions[v.parent].reset < v.reset
    BY <2>2 DEF LinkedUp
  <2>4. v.parent # 0 => versions'[v.parent] = versions[v.parent]
    BY <1>3, <2>1, <2>3
  <2>5. LinkedUp(versions[n])'
    <3>1. v.parentCutoff <= v.cutoff /\ (v.parent = 0 => v.parentCutoff = -1)
      BY <2>2 DEF LinkedUp
    <3> QED BY <1>3, <2>1, <2>3, <2>4, <3>1 DEF LinkedUp
  <2>6. resets'[v.reset] = resets[v.reset]
    BY <1>3, <2>1, <2>2
  <2> QED BY <1>3, <2>1, <2>2, <2>5, <2>6
<1>8. Chained'
  BY <1>7 DEF Chained
<1>9. ASSUME NEW c \in DOMAIN resets', resets'[c] # None
      PROVE  /\ c \in DOMAIN resets /\ resets'[c] = resets[c] /\ resets[c].account # a
             /\ resets[c].version \in DOMAIN versions /\ versions[resets[c].version] # None
             /\ Describes(V(c), c, resets[c]) /\ V(c) = versions[resets[c].version]
             /\ versions'[resets[c].version] = versions[resets[c].version] /\ V(c)' = V(c)
             /\ V(c).account = resets[c].account
  <2>1. c \in DOMAIN resets /\ resets'[c] = resets[c] /\ resets[c].account # a
        /\ resets[c] # None
    BY <1>3, <1>9
  <2>2. /\ resets[c].version \in DOMAIN versions /\ V(c) # None /\ Describes(V(c), c, resets[c])
        /\ V(c) = versions[resets[c].version]
    BY <1>2, <2>1 DEF Current, V
  <2>3. V(c).account = resets[c].account
    BY <2>2 DEF Describes
  <2>4. versions'[resets[c].version] = versions[resets[c].version]
    BY <1>3, <2>1, <2>2, <2>3
  <2> QED BY <2>1, <2>2, <2>3, <2>4 DEF V
<1>10. Current'
  BY <1>3, <1>9 DEF Current
<1>11. Balanced'
  BY <1>2, <1>3 DEF Balanced
<1>12. Followed'
  <2> SUFFICES ASSUME NEW c \in DOMAIN resets', resets'[c] # None, Trusted(V(c)'),
                      V(c)'.parent # 0
               PROVE  BuiltOn(V(c)', versions'[V(c)'.parent].reset,
                              resets'[versions'[V(c)'.parent].reset])
    BY DEF Followed
  <2> DEFINE v == V(c)
  <2> DEFINE p == versions[v.parent].reset
  <2>1. V(c)' = v /\ v = versions[resets[c].version] /\ resets[c].version \in DOMAIN versions
        /\ v # None /\ v.account # a
    BY <1>9
  <2>2. BuiltOn(v, p, resets[p])
    BY <1>2, <1>9, <2>1 DEF Followed
  <2>3. /\ v.parent \in DOMAIN versions /\ versions[v.parent] # None
        /\ versions[v.parent].account = v.account
    BY <1>2, <2>1 DEF Chained, LinkedUp
  <2>4. p \in DOMAIN resets /\ resets[p] # None /\ resets[p].account = v.account
    BY <1>2, <2>3 DEF Chained
  <2>5. versions'[v.parent] = versions[v.parent] /\ resets'[p] = resets[p]
    BY <1>3, <2>1, <2>3, <2>4
  <2> HIDE DEF v
  <2> QED BY <2>1, <2>2, <2>5
<1> QED
  BY <1>4, <1>5, <1>6, <1>8, <1>10, <1>11, <1>12 DEF Books

(* -- What a move does to one account's saved balances ---------------------- *)

\* The checkpoint a checkpoint was built on is an earlier one.
LEMMA ParentFacts ==
    ASSUME ResetsTyped, VersionsTyped, Chained, Current,
           NEW c \in DOMAIN resets, resets[c] # None
    PROVE  /\ ParentReset(c) \in 0 .. c - 1
           /\ V(c) \in SavedVersions /\ V(c) # None /\ Describes(V(c), c, resets[c])
           /\ resets[c].version \in DOMAIN versions /\ V(c) = versions[resets[c].version]
           /\ V(c).parent # 0 =>
                /\ ParentReset(c) \in DOMAIN resets /\ resets[ParentReset(c)] # None
                /\ ParentReset(c) # 0
                /\ resets[ParentReset(c)].account = resets[c].account
                /\ ParentReset(c) = versions[V(c).parent].reset
                /\ V(c).parent \in DOMAIN versions
           /\ V(c).parent = 0 => ParentReset(c) = 0
<1>1. ResetFacts /\ \A n \in DOMAIN versions : versions[n] # None => versions[n] \in SavedVersions
  BY ResetsAre, VersionsAre
<1> DEFINE v == V(c)
<1>2. /\ resets[c].version \in DOMAIN versions /\ v = versions[resets[c].version]
      /\ v # None /\ Describes(v, c, resets[c])
  BY DEF Current, V
<1>3. v \in SavedVersions /\ LinkedUp(v)
  BY <1>1, <1>2 DEF Chained
<1>4. v.reset = c /\ v.account = resets[c].account
  BY <1>2 DEF Describes
<1>5. v.parent # 0 => /\ v.parent \in DOMAIN versions /\ versions[v.parent] # None
                      /\ versions[v.parent].account = v.account
                      /\ versions[v.parent].reset < c
                      /\ versions[v.parent] \in SavedVersions
                      /\ versions[v.parent].reset \in DOMAIN resets
                      /\ resets[versions[v.parent].reset] # None
                      /\ resets[versions[v.parent].reset].account = v.account
  BY <1>1, <1>3, <1>4 DEF LinkedUp, Chained
<1>6. c \in Nat /\ c # 0 /\ DOMAIN resets = 1 .. Len(resets) /\ Len(resets) \in Nat
  BY <1>1 DEF ResetFacts
<1>7. ParentReset(c) = IF v.parent = 0 THEN 0 ELSE versions[v.parent].reset
  BY DEF ParentReset
<1> HIDE DEF v
<1>8. CASE v.parent = 0
  <2>1. ParentReset(c) = 0 /\ 0 \in 0 .. c - 1
    BY <1>6, <1>7, <1>8
  <2> QED BY <1>2, <1>3, <1>8, <2>1 DEF v
<1>9. CASE v.parent # 0
  <2> DEFINE p == versions[v.parent].reset
  <2>1. p \in 1 .. Len(resets) /\ p < c
    BY <1>5, <1>6, <1>9
  <2>2. ParentReset(c) = p /\ p \in 0 .. c - 1 /\ p # 0
    <3> HIDE DEF p
    <3>1. p \in 0 .. c - 1 /\ p # 0
      BY <1>6, <2>1
    <3> QED BY <1>7, <1>9, <3>1 DEF p
  <2> QED BY <1>2, <1>3, <1>4, <1>5, <1>9, <2>2 DEF v
<1> QED
  BY <1>8, <1>9

\* A move is of rows that are there.
There(ids) == ids \subseteq Ids /\ \A i \in ids : rows[i] # None

\* The balances a move can touch are saved balances of that account.
LEMMA AffectedAre ==
    ASSUME ResetsTyped, NEW a, NEW ids
    PROVE  \A c \in Affected(a, ids) :
               /\ c \in DOMAIN resets /\ c \in 1 .. Len(resets) /\ resets[c] # None
               /\ resets[c].account = a /\ resets[c] \in SavedBalances
BY ResetsAre DEF Affected, Checkpoints, ResetFacts

\* What arrives at a saved balance or leaves it amounts to a number.
LEMMA OwnIs ==
    ASSUME TableOK, ResetsTyped, VersionsTyped, Chained, Current, NEW a, NEW ids, There(ids),
           NEW c \in Affected(a, ids), NEW incoming \in BOOLEAN
    PROVE  /\ OwnDelta(c, a, ids, incoming) \in Int
           /\ IsFiniteSet(Inside(c, ids)) /\ IsFiniteSet(Gone(c, ids))
           /\ Gone(c, ids) \subseteq DOMAIN V(c).members
           /\ \A i \in DOMAIN V(c).members : V(c).members[i] \in Counted
           /\ ~incoming => OwnDelta(c, a, ids, incoming)
                           = -Sum(Quantities(V(c).members), Gone(c, ids))
<1>1. There(Inside(c, ids)) /\ Gone(c, ids) \subseteq Ids
      /\ Gone(c, ids) \subseteq DOMAIN V(c).members
  BY DEF There, Inside, Gone, Counts
<1>2. IsFiniteSet(Inside(c, ids)) /\ Total(Inside(c, ids)) \in Int
  BY <1>1, RowsTotal DEF There
<1>3. IsFiniteSet(Gone(c, ids))
  BY <1>1, IdsFinite
<1>4. c \in DOMAIN resets /\ resets[c] # None
  BY AffectedAre
<1>5. V(c) \in SavedVersions
  BY <1>4, ParentFacts
<1>6. \A i \in DOMAIN V(c).members : V(c).members[i] \in Counted
  BY <1>5 DEF SavedVersions
<1> DEFINE m == V(c).members
<1> DEFINE q == Quantities(m)
<1> DEFINE S == Gone(c, ids)
<1>7. \A i \in S : q[i] = m[i].quantity /\ q[i] \in Int
  BY <1>1, <1>6 DEF Quantities, Counted
<1>8. [i \in S |-> m[i].quantity] = [i \in S |-> q[i]]
  BY <1>7
<1>9. SumFunction([i \in S |-> m[i].quantity]) = Sum(q, S) /\ Sum(q, S) \in Int
  <2> HIDE DEF m, q, S
  <2>1. IsFiniteSet(S)
    BY <1>3 DEF S
  <2>2. Sum(q, S) \in Int
    BY <1>7, <2>1, SumInt
  <2> QED BY <1>8, <2>1, <2>2, SumRestricted
<1>10. CASE incoming
  <2>1. OwnDelta(c, a, ids, incoming) = Dir(a) * Total(Inside(c, ids))
    BY <1>10 DEF OwnDelta
  <2>2. OwnDelta(c, a, ids, incoming) \in Int
    BY <1>2, <2>1, DirIs
  <2> QED BY <1>1, <1>2, <1>3, <1>6, <1>10, <2>2
<1>11. CASE ~incoming
  <2>1. OwnDelta(c, a, ids, incoming) = -SumFunction([i \in S |-> m[i].quantity])
    BY <1>11 DEF OwnDelta
  <2>2. OwnDelta(c, a, ids, incoming) = -Sum(q, S) /\ Sum(q, S) \in Int
    <3> HIDE DEF q, S, m
    <3> QED BY <1>9, <2>1
  <2>3. OwnDelta(c, a, ids, incoming) \in Int
    <3> HIDE DEF q, S
    <3> QED BY <2>2
  <2> QED BY <1>1, <1>2, <1>3, <1>6, <2>2, <2>3
<1> QED
  BY <1>10, <1>11

\* What a saved balance changes by is its own and what the one below it changes by.
LEMMA DeltaFacts ==
    ASSUME TableOK, ResetsTyped, VersionsTyped, Chained, Current, NEW a, NEW ids, There(ids),
           NEW incoming \in BOOLEAN
    PROVE  \A c \in 0 .. Len(resets) :
             /\ Deltas(a, ids, incoming)[c] \in Int
             /\ Deltas(a, ids, incoming)[c] =
                  IF c \notin Affected(a, ids) THEN 0
                  ELSE Deltas(a, ids, incoming)[ParentReset(c)]
                       + OwnDelta(c, a, ids, incoming)
<1> DEFINE n == Len(resets)
<1> DEFINE A == Affected(a, ids)
<1> DEFINE p == [c \in 0 .. n |-> ParentReset(c)]
<1> DEFINE own == [c \in 0 .. n |-> OwnDelta(c, a, ids, incoming)]
<1> DEFINE Body(f) == [c \in 0 .. n |->
              IF c \notin Affected(a, ids) THEN 0
              ELSE f[ParentReset(c)] + OwnDelta(c, a, ids, incoming)]
<1> DEFINE Next1(f) == [c \in 0 .. n |-> IF c \notin A THEN 0 ELSE f[p[c]] + own[c]]
<1> DEFINE d == CHOOSE f : f = Body(f)
<1>1. Deltas(a, ids, incoming) = d
  BY DEF Deltas
<1>2. n \in Nat /\ \A c \in A \cap (0 .. n) : p[c] \in 0 .. c - 1
  BY AffectedAre, ParentFacts, ResetsAre DEF ResetFacts
<1>3. \A c \in A \cap (0 .. n) : own[c] \in Int
  BY OwnIs
<1>4. \A f : Body(f) = Next1(f)
  <2> TAKE f
  <2>1. \A c \in 0 .. n : Body(f)[c] = Next1(f)[c]
    OBVIOUS
  <2>2. Body(f) = [c \in 0 .. n |-> Body(f)[c]] /\ Next1(f) = [c \in 0 .. n |-> Next1(f)[c]]
    OBVIOUS
  <2> HIDE DEF Body, Next1
  <2> QED BY <2>1, <2>2
<1>5. \A f : f = Next1(f) <=> Carries(n, A, p, own, f)
  BY DEF Carries
<1>6. \A c \in 0 .. n : p[c] = ParentReset(c) /\ own[c] = OwnDelta(c, a, ids, incoming)
  OBVIOUS
<1> HIDE DEF A, p, own, Body, Next1
<1>7. \A f : f = Body(f) <=> Carries(n, A, p, own, f)
  BY <1>4, <1>5
<1>8. d = Carried(n, A, p, own)
  BY <1>7 DEF Carried
<1> HIDE DEF d, n
<1>9. /\ \A c \in 0 .. n : d[c] = IF c \notin A THEN 0 ELSE d[p[c]] + own[c]
      /\ \A c \in 0 .. n : d[c] \in Int
  BY <1>2, <1>3, <1>8, CarriedFacts
<1> QED
  BY <1>1, <1>6, <1>9 DEF n, A

TouchedBy(c, ids, incoming) == IF incoming THEN Inside(c, ids) # {} ELSE Gone(c, ids) # {}

\* A saved balance is corrected when rows of its own move, when its number changes, or
\* when the one it was built on is corrected.
LEMMA HitFacts ==
    ASSUME ResetsTyped, VersionsTyped, Chained, Current, NEW a, NEW ids, NEW incoming \in BOOLEAN
    PROVE  /\ Corrected(a, ids, incoming) \subseteq Affected(a, ids)
           /\ \A c \in Affected(a, ids) :
                 c \in Corrected(a, ids, incoming) <=>
                     \/ TouchedBy(c, ids, incoming)
                     \/ Deltas(a, ids, incoming)[c] # 0
                     \/ ParentReset(c) \in Corrected(a, ids, incoming)
<1> DEFINE n == Len(resets)
<1> DEFINE A == Affected(a, ids)
<1> DEFINE B == {c \in 0 .. n : TouchedBy(c, ids, incoming) \/ Deltas(a, ids, incoming)[c] # 0}
<1> DEFINE p == [c \in 0 .. n |-> ParentReset(c)]
<1> DEFINE Body(f) == [c \in 0 .. n |->
            /\ c \in Affected(a, ids)
            /\ \/ IF incoming THEN Inside(c, ids) # {} ELSE Gone(c, ids) # {}
               \/ Deltas(a, ids, incoming)[c] # 0
               \/ f[ParentReset(c)]]
<1> DEFINE Next1(f) == [c \in 0 .. n |-> c \in A /\ (c \in B \/ f[p[c]])]
<1> DEFINE hit == CHOOSE f : f = Body(f)
<1>1. Corrected(a, ids, incoming) = {c \in A : hit[c]}
  BY DEF Corrected
<1>2. n \in Nat /\ \A c \in (A \ B) \cap (0 .. n) : p[c] \in 0 .. c - 1
  BY AffectedAre, ParentFacts, ResetsAre DEF ResetFacts
<1>3. \A f : Body(f) = Next1(f)
  <2> TAKE f
  <2>1. \A c \in 0 .. n : Body(f)[c] = Next1(f)[c]
    BY DEF TouchedBy
  <2>2. Body(f) = [c \in 0 .. n |-> Body(f)[c]] /\ Next1(f) = [c \in 0 .. n |-> Next1(f)[c]]
    OBVIOUS
  <2> HIDE DEF Body, Next1
  <2> QED BY <2>1, <2>2
<1>4. \A f : f = Next1(f) <=> Marks(n, A, B, p, f)
  BY DEF Marks
<1>5. \A c \in A : c \in 0 .. n /\ p[c] = ParentReset(c)
                   /\ (c \in B <=> TouchedBy(c, ids, incoming)
                                   \/ Deltas(a, ids, incoming)[c] # 0)
  BY AffectedAre
<1>6. \A c \in A : p[c] \in 0 .. n
  <2> TAKE c \in A
  <2>1. p[c] \in 0 .. c - 1 /\ c \in 1 .. n /\ n \in Nat
    BY <1>2, <1>5, AffectedAre, ParentFacts
  <2> HIDE DEF n
  <2> QED BY <2>1
<1> HIDE DEF A, B, p, Body, Next1
<1>7. \E f : Marks(n, A, B, p, f)
  BY <1>2, MarksExist
<1>8. Marks(n, A, B, p, hit)
  <2>1. \A f : f = Body(f) <=> Marks(n, A, B, p, f)
    BY <1>3, <1>4
  <2>2. \E f : f = Body(f)
    BY <1>7, <2>1
  <2>3. hit = Body(hit)
    BY <2>2
  <2> HIDE DEF hit
  <2> QED BY <2>1, <2>3
<1> HIDE DEF hit, n
<1>9. \A c \in 0 .. n : hit[c] = (c \in A /\ (c \in B \/ hit[p[c]]))
  BY <1>2, <1>8, MarksAre
<1> DEFINE H == {c \in A : hit[c]}
<1>10. \A c \in A : c \in H <=> c \in B \/ p[c] \in H
  BY <1>5, <1>6, <1>9
<1>11. H \subseteq A /\ Corrected(a, ids, incoming) = H
  BY <1>1
<1> HIDE DEF H
<1> QED
  BY <1>5, <1>10, <1>11 DEF A

Arrivals(c, ids, incoming) == IF incoming THEN Inside(c, ids) ELSE {}
Departures(c, ids, incoming) == IF incoming THEN {} ELSE Gone(c, ids)

\* What a corrected version counts.
Recounted(c, a, ids, incoming) ==
    LET came == Arrivals(c, ids, incoming)
    IN  [i \in (DOMAIN V(c).members \cup came) \ Departures(c, ids, incoming) |->
            IF i \in came
            THEN [rev |-> rows'[i].rev, day |-> rows[i].day,
                  quantity |-> Dir(a) * rows[i].amount]
            ELSE V(c).members[i]]

LEMMA WholeSum ==
    ASSUME NEW m, IsFiniteSet(DOMAIN m)
    PROVE  SumFunction(Quantities(m)) = Sum(Quantities(m), DOMAIN m)
           /\ \A i \in DOMAIN m : Quantities(m)[i] = m[i].quantity
<1> DEFINE q == Quantities(m)
<1>1. q = [i \in DOMAIN m |-> q[i]] /\ \A i \in DOMAIN m : q[i] = m[i].quantity
  BY DEF Quantities
<1> HIDE DEF q
<1>2. SumFunction([i \in DOMAIN m |-> q[i]]) = Sum(q, DOMAIN m)
  BY SumRestricted
<1> QED
  BY <1>1, <1>2 DEF q

\* A balance corrected by a move counts the rows it counted, the moved ones at their
\* new revision, and its figure changed by exactly their worth.
LEMMA RecountedFacts ==
    ASSUME TableOK, ResetsTyped, VersionsTyped, Chained, Current, Len(rows) <= MaxRows,
           NEW a, NEW ids, There(ids), NEW incoming \in BOOLEAN, NEW c \in Affected(a, ids),
           \A i \in ids : rows'[i].rev \in Int,
           incoming => \A i \in Inside(c, ids) : ~Counts(c, i)
    PROVE  LET M == Recounted(c, a, ids, incoming)
           IN  /\ M \in UNION {[S -> Counted] : S \in SUBSET (1 .. MaxRows)}
               /\ \A i \in DOMAIN M :
                     \/ i \in DOMAIN V(c).members /\ M[i] = V(c).members[i]
                     \/ M[i].day <= V(c).cutoff /\ M[i].day > V(c).parentCutoff
               /\ SumFunction(Quantities(M)) = SumFunction(Quantities(V(c).members))
                                               + OwnDelta(c, a, ids, incoming)
               /\ SumFunction(Quantities(V(c).members)) \in Int
<1> DEFINE m == V(c).members
<1> DEFINE D == DOMAIN m
<1> DEFINE came == Arrivals(c, ids, incoming)
<1> DEFINE left == Departures(c, ids, incoming)
<1> DEFINE M == Recounted(c, a, ids, incoming)
<1> DEFINE q == Quantities(m)
<1> DEFINE Q == Quantities(M)
<1> DEFINE new(i) == [rev |-> rows'[i].rev, day |-> rows[i].day,
                      quantity |-> Dir(a) * rows[i].amount]
<1>1. c \in DOMAIN resets /\ resets[c] # None
  BY AffectedAre
<1>2. V(c) \in SavedVersions
  BY <1>1, ParentFacts
<1>3. D \subseteq 1 .. MaxRows /\ \A i \in D : m[i] \in Counted
  BY <1>2 DEF SavedVersions
<1>4. IsFiniteSet(D)
  <2>1. IsFiniteSet(1 .. MaxRows)
    BY LedgerAssumption, FS_Interval DEF LedgerAssumption
  <2> HIDE DEF D
  <2> QED BY <1>3, <2>1, FS_Subset
<1>5. /\ OwnDelta(c, a, ids, incoming) \in Int
      /\ IsFiniteSet(Inside(c, ids)) /\ IsFiniteSet(Gone(c, ids))
      /\ Gone(c, ids) \subseteq D
      /\ ~incoming => OwnDelta(c, a, ids, incoming) = -Sum(q, Gone(c, ids))
  BY OwnIs
<1>6. \A i \in Inside(c, ids) : /\ i \in ids /\ i \in Ids /\ rows[i] # None
                                /\ rows[i] \in Transactions
                                /\ rows[i].day <= V(c).cutoff /\ rows[i].day > V(c).parentCutoff
  BY RowFacts DEF Inside, There, RowOrNone
<1>7. Ids \subseteq 1 .. MaxRows
  BY RowFacts, LedgerAssumption DEF LedgerAssumption
<1>8. IsFiniteSet(came) /\ came \subseteq Inside(c, ids)
  BY <1>5, FS_EmptySet DEF Arrivals
<1>9. \A i \in came : new(i) \in Counted /\ new(i).day <= V(c).cutoff
                      /\ new(i).day > V(c).parentCutoff
                      /\ new(i).quantity = Dir(a) * rows[i].amount /\ new(i).quantity \in Int
  <2> TAKE i \in came
  <2>1. rows[i].day \in Int /\ rows[i].amount \in Int /\ rows'[i].rev \in Int
    BY <1>6, <1>8 DEF Transactions
  <2>2. Dir(a) * rows[i].amount \in Int
    BY <2>1, DirIs
  <2> QED BY <1>6, <1>8, <2>1, <2>2 DEF Counted
<1>10. /\ DOMAIN M = (D \cup came) \ left
       /\ \A i \in (D \cup came) \ left : M[i] = IF i \in came THEN new(i) ELSE m[i]
       /\ M = [i \in (D \cup came) \ left |-> M[i]]
  BY DEF Recounted
<1> HIDE DEF M, new
<1>11. M \in UNION {[S -> Counted] : S \in SUBSET (1 .. MaxRows)}
  <2> DEFINE E == (D \cup came) \ left
  <2>1. E \subseteq 1 .. MaxRows
    BY <1>3, <1>6, <1>7, <1>8
  <2>2. \A i \in E : M[i] \in Counted
    BY <1>3, <1>9, <1>10
  <2>3. M \in [E -> Counted]
    <3> HIDE DEF E
    <3> QED BY <1>10, <2>2 DEF E
  <2> HIDE DEF E
  <2> QED BY <2>1, <2>3
<1>12. \A i \in DOMAIN M : \/ i \in D /\ M[i] = m[i]
                           \/ M[i].day <= V(c).cutoff /\ M[i].day > V(c).parentCutoff
  BY <1>9, <1>10
<1>13. IsFiniteSet(DOMAIN M)
  <2>1. IsFiniteSet(1 .. MaxRows)
    BY LedgerAssumption, FS_Interval DEF LedgerAssumption
  <2>2. DOMAIN M \in SUBSET (1 .. MaxRows)
    BY <1>3, <1>6, <1>7, <1>8, <1>10
  <2> QED BY <2>1, <2>2, FS_Subset
<1>14. /\ SumFunction(q) = Sum(q, D) /\ \A i \in D : q[i] = m[i].quantity /\ q[i] \in Int
  BY <1>3, <1>4, WholeSum DEF Counted
<1>15. /\ SumFunction(Q) = Sum(Q, DOMAIN M) /\ \A i \in DOMAIN M : Q[i] = M[i].quantity
  BY <1>13, WholeSum
<1> HIDE DEF q, Q
<1>16. Sum(q, D) \in Int
  BY <1>4, <1>14, SumInt
<1>17. CASE incoming
  <2>1. came = Inside(c, ids) /\ left = {} /\ D \cap came = {}
    BY <1>17 DEF Arrivals, Departures, Counts
  <2>2. \A i \in D : Q[i] = q[i]
    BY <1>10, <1>14, <1>15, <2>1
  <2>3. \A i \in came : Q[i] = Dir(a) * rows[i].amount /\ Q[i] \in Int
    BY <1>9, <1>10, <1>15, <2>1
  <2>4. DOMAIN M = D \cup came
    BY <1>10, <2>1
  <2> HIDE DEF D, came
  <2>5. Sum(Q, D \cup came) = Sum(Q, D) + Sum(Q, came)
    BY <1>4, <1>8, <1>14, <2>1, <2>2, <2>3, SumOfUnion
  <2>6. Sum(Q, D) = Sum(q, D)
    BY <1>4, <2>2, SumSame
  <2>7. Sum(Q, came) = Dir(a) * Total(came)
    <3> DEFINE g == [i \in came |-> Dir(a) * rows[i].amount]
    <3>1. SumFunction(g) = Dir(a) * Total(came)
      BY <1>6, <1>8, ScaledTotal
    <3>2. g = [i \in came |-> Q[i]]
      BY <2>3
    <3> HIDE DEF g
    <3> QED BY <1>8, <3>1, <3>2, SumRestricted
  <2>8. OwnDelta(c, a, ids, incoming) = Dir(a) * Total(came)
    BY <1>17, <2>1 DEF OwnDelta
  <2>9. SumFunction(Q) = SumFunction(q) + OwnDelta(c, a, ids, incoming)
    BY <1>14, <1>15, <2>4, <2>5, <2>6, <2>7, <2>8
  <2> QED BY <1>11, <1>12, <1>14, <1>16, <2>9 DEF M, Q, q, D
<1>18. CASE ~incoming
  <2>1. came = {} /\ left = Gone(c, ids) /\ left \subseteq D
    BY <1>5, <1>18 DEF Arrivals, Departures
  <2> DEFINE E == D \ left
  <2>2. DOMAIN M = E
    BY <1>10, <2>1
  <2>3. \A i \in E : Q[i] = q[i] /\ q[i] \in Int
    BY <1>10, <1>14, <1>15, <2>1
  <2>4. IsFiniteSet(E) /\ IsFiniteSet(left) /\ E \cap left = {} /\ E \cup left = D
    <3>1. E \in SUBSET D /\ E \cap left = {} /\ E \cup left = D
      BY <2>1
    <3> HIDE DEF E, D
    <3> QED BY <1>4, <1>5, <2>1, <3>1, FS_Subset
  <2>5. \A i \in E \cup left : q[i] \in Int
    BY <1>14, <2>4
  <2>6. OwnDelta(c, a, ids, incoming) = -Sum(q, left)
    BY <1>5, <1>18, <2>1 DEF q, D
  <2> HIDE DEF E, left, D
  <2>7. Sum(q, D) = Sum(q, E) + Sum(q, left)
    BY <2>4, <2>5, SumOfUnion
  <2>8. Sum(Q, E) = Sum(q, E) /\ Sum(q, E) \in Int /\ Sum(q, left) \in Int
    BY <2>3, <2>4, <2>5, SumSame, SumInt
  <2>9. SumFunction(Q) = SumFunction(q) + OwnDelta(c, a, ids, incoming)
    BY <1>14, <1>15, <2>2, <2>6, <2>7, <2>8
  <2> QED BY <1>11, <1>12, <1>14, <1>16, <2>9 DEF M, Q, q, D
<1> QED
  BY <1>17, <1>18

\* The corrected version of a saved balance says what it now is, and adds up.
LEMMA CorrectedFacts ==
    ASSUME TableOK, Books, Len(rows) <= MaxRows, NEW a, NEW ids, NEW to, NEW at,
           There(Moving(a, ids, to)),
           \A c \in Affected(a, Moving(a, ids, to)) : Recorded(c),
           ~Contradicted(a, Moving(a, ids, to), a = to),
           \A i \in Moving(a, ids, to) : rows'[i].rev \in Int,
           \A p \in Corrected(a, Moving(a, ids, to), a = to) : at[p] \in Nat /\ at[p] # 0,
           NEW c \in Corrected(a, Moving(a, ids, to), a = to)
    PROVE  LET w == CorrectedVersion(c, a, ids, to, at)
               H == Corrected(a, Moving(a, ids, to), a = to)
               delta == Deltas(a, Moving(a, ids, to), a = to)
               p == ParentReset(c)
           IN  /\ w \in SavedVersions /\ w.reset = c /\ w.account = a
               /\ w.cutoff = resets[c].cutoff /\ w.effective = resets[c].effective
               /\ w.balance = resets[c].balance + delta[c] /\ delta[c] \in Int
               /\ w.parentCutoff = V(c).parentCutoff
               /\ IF p # 0 /\ p \in H
                  THEN w.parent = at[p] /\ w.parentBalance = resets[p].balance + delta[p]
                  ELSE w.parent = V(c).parent /\ w.parentBalance = V(c).parentBalance
               /\ AddsUp(w)
<1> DEFINE mine == Moving(a, ids, to)
<1> DEFINE incoming == a = to
<1> DEFINE H == Corrected(a, mine, incoming)
<1> DEFINE delta == Deltas(a, mine, incoming)
<1> DEFINE p == ParentReset(c)
<1> DEFINE old == V(c)
<1> DEFINE w == CorrectedVersion(c, a, ids, to, at)
<1> DEFINE M == Recounted(c, a, mine, incoming)
<1> DEFINE follows == p # 0 /\ p \in H
<1>1. w = [old EXCEPT !.balance = resets[c].balance + delta[c],
             !.parent = IF follows THEN at[p] ELSE @,
             !.parentBalance = IF follows THEN resets[p].balance + delta[p] ELSE @,
             !.members = M]
  BY DEF CorrectedVersion, Recounted, Arrivals, Departures
<1>2. ResetsTyped /\ VersionsTyped /\ Chained /\ Current /\ incoming \in BOOLEAN
  BY DEF Books
<1>3. There(mine) /\ c \in Affected(a, mine) /\ H \subseteq Affected(a, mine) /\ c \in H
  BY <1>2, HitFacts
<1> HIDE DEF incoming
<1>4. /\ c \in DOMAIN resets /\ c \in 1 .. Len(resets) /\ resets[c] # None
      /\ resets[c].account = a /\ resets[c] \in SavedBalances
  BY <1>2, <1>3, AffectedAre
<1>5. /\ p \in 0 .. c - 1 /\ old \in SavedVersions /\ old # None
      /\ Describes(old, c, resets[c])
      /\ resets[c].version \in DOMAIN versions /\ old = versions[resets[c].version]
      /\ old.parent # 0 =>
            /\ p \in DOMAIN resets /\ resets[p] # None /\ p # 0
            /\ resets[p].account = a /\ p = versions[old.parent].reset
      /\ old.parent = 0 => p = 0
  BY <1>2, <1>4, ParentFacts
<1>6. Trusted(old) /\ AddsUp(old)
  BY <1>3, <1>5 DEF Recorded, Trusted, Books, Balanced
<1>7. old.parent # 0 => BuiltOn(old, p, resets[p])
  BY <1>4, <1>5, <1>6 DEF Books, Followed
<1>8. /\ \A d \in 0 .. Len(resets) :
             /\ delta[d] \in Int
             /\ delta[d] = IF d \notin Affected(a, mine) THEN 0
                           ELSE delta[ParentReset(d)] + OwnDelta(d, a, mine, incoming)
  BY <1>2, <1>3, DeltaFacts DEF incoming
<1>9. /\ M \in UNION {[S -> Counted] : S \in SUBSET (1 .. MaxRows)}
      /\ \A i \in DOMAIN M : \/ i \in DOMAIN old.members /\ M[i] = old.members[i]
                             \/ M[i].day <= old.cutoff /\ M[i].day > old.parentCutoff
      /\ SumFunction(Quantities(M)) = SumFunction(Quantities(old.members))
                                      + OwnDelta(c, a, mine, incoming)
      /\ SumFunction(Quantities(old.members)) \in Int
  <2>1. incoming => \A i \in Inside(c, mine) : ~Counts(c, i)
    BY <1>3 DEF Contradicted, incoming
  <2>2. \A i \in mine : rows'[i].rev \in Int
    OBVIOUS
  <2> HIDE DEF mine
  <2> QED BY <1>2, <1>3, <2>1, <2>2, RecountedFacts
<1>10. OwnDelta(c, a, mine, incoming) \in Int
  BY <1>2, <1>3, OwnIs DEF incoming
<1>11. \A d \in Affected(a, mine) : d \notin H => delta[d] = 0
  BY <1>2, HitFacts DEF incoming
<1>12. 0 \notin Affected(a, mine) /\ p \in 0 .. Len(resets) /\ c \in 0 .. Len(resets)
  <2>1. Len(resets) \in Nat
    BY <1>2, ResetsAre DEF ResetFacts
  <2> QED BY <1>2, <1>4, <1>5, <2>1, AffectedAre
<1>13. delta[c] = delta[p] + OwnDelta(c, a, mine, incoming) /\ delta[p] \in Int
       /\ delta[c] \in Int
  BY <1>3, <1>8, <1>12
<1>14. ~follows => delta[p] = 0
  BY <1>8, <1>11, <1>12
<1>15. follows => /\ at[p] \in Nat /\ at[p] # 0 /\ resets[p] \in SavedBalances
                  /\ old.parent # 0
  BY <1>2, <1>3, <1>5, AffectedAre DEF incoming
<1>16. /\ resets[c].balance \in Int /\ old.balance = resets[c].balance /\ old.reset = c
       /\ old.account = a /\ old.cutoff = resets[c].cutoff
       /\ old.effective = resets[c].effective
       /\ follows => resets[p].balance \in Int
  BY <1>4, <1>5, <1>15 DEF Describes, SavedBalances
<1> HIDE DEF w, M, follows, delta, p, H, mine
<1>17. /\ w.reset = c /\ w.account = a /\ w.cutoff = resets[c].cutoff
       /\ w.effective = resets[c].effective
       /\ w.balance = resets[c].balance + delta[c]
       /\ w.parentCutoff = old.parentCutoff /\ w.opens = old.opens
       /\ w.parent = IF follows THEN at[p] ELSE old.parent
       /\ w.parentBalance = IF follows THEN resets[p].balance + delta[p] ELSE old.parentBalance
       /\ w.members = M
  <2> HIDE DEF old
  <2> QED BY <1>1, <1>5, <1>16 DEF SavedVersions
<1>18. w \in SavedVersions
  <2>1. resets[c].balance + delta[c] \in Int
    BY <1>13, <1>16
  <2>2. (IF follows THEN at[p] ELSE old.parent) \in Nat
    BY <1>5, <1>15 DEF SavedVersions
  <2>3. (IF follows THEN resets[p].balance + delta[p] ELSE old.parentBalance) \in Int \cup {None}
    BY <1>5, <1>13, <1>16 DEF SavedVersions
  <2> HIDE DEF old
  <2> QED BY <1>1, <1>5, <1>9, <2>1, <2>2, <2>3 DEF SavedVersions
<1>19. AddsUp(w)
  <2>1. Starts(w) = Starts(old) + delta[p]
    <3>1. CASE follows
      <4>1. w.parent # 0 /\ old.parent # 0 /\ resets[p].balance = old.parentBalance
        BY <1>7, <1>15, <1>17, <3>1 DEF BuiltOn
      <4> QED BY <1>17, <3>1, <4>1 DEF Starts
    <3>2. CASE ~follows
      <4>1. Starts(w) = Starts(old) /\ Starts(old) \in Int
        BY <1>6, <1>17, <3>2 DEF Starts, AddsUp
      <4> QED BY <1>14, <3>2, <4>1
    <3> QED BY <3>1, <3>2
  <2>2. Starts(old) \in Int /\ Starts(old) + SumFunction(Quantities(old.members)) = old.balance
        /\ \A i \in DOMAIN old.members : old.members[i].day <= old.cutoff
                                         /\ old.members[i].day > old.parentCutoff
    BY <1>6 DEF AddsUp
  <2>3. Starts(w) + SumFunction(Quantities(w.members)) = w.balance /\ Starts(w) \in Int
    <3> HIDE DEF old
    <3> QED BY <1>9, <1>10, <1>13, <1>16, <1>17, <2>1, <2>2
  <2>4. \A i \in DOMAIN w.members : w.members[i].day <= w.cutoff /\ w.members[i].day > w.parentCutoff
    <3> HIDE DEF old
    <3> QED BY <1>9, <1>16, <1>17, <2>2
  <2> QED BY <2>3, <2>4 DEF AddsUp
<1> QED
  BY <1>13, <1>17, <1>18, <1>19 DEF w, delta, p, follows, H, mine, incoming

\* Every saved balance a move changes recorded what it counted, and that is what is there.
Correctable(ids, to) ==
    \A a \in Touched(ids, to) :
        /\ \A c \in Affected(a, Moving(a, ids, to)) : Recorded(c)
        /\ ~Contradicted(a, Moving(a, ids, to), a = to)

Hits(ids, to) == UNION {Corrected(a, Moving(a, ids, to), a = to) : a \in Touched(ids, to)}

LEMMA MovingThere ==
    ASSUME NEW ids, There(ids), NEW a, NEW to
    PROVE  There(Moving(a, ids, to)) /\ Moving(a, ids, to) \subseteq ids
BY DEF There, Moving, Effective, Leaving

\* What a move rewrites, in the accounts it touches.
LEMMA HitsAre ==
    ASSUME Books, NEW ids, NEW to
    PROVE  /\ Hits(ids, to) \in SUBSET (1 .. Len(resets)) /\ Len(resets) \in Nat
           /\ \A c \in Hits(ids, to) :
                 /\ c \in DOMAIN resets /\ resets[c] # None /\ resets[c] \in SavedBalances
                 /\ resets[c].account \in Touched(ids, to)
                 /\ c \in Corrected(resets[c].account, Moving(resets[c].account, ids, to),
                                    resets[c].account = to)
<1>1. ResetsTyped /\ VersionsTyped /\ Chained /\ Current /\ Len(resets) \in Nat
  BY ResetsAre DEF Books, ResetFacts
<1>2. ASSUME NEW a, NEW c \in Corrected(a, Moving(a, ids, to), a = to)
      PROVE  /\ c \in DOMAIN resets /\ c \in 1 .. Len(resets) /\ resets[c] # None
             /\ resets[c].account = a /\ resets[c] \in SavedBalances
  <2>1. c \in Affected(a, Moving(a, ids, to))
    BY <1>1, HitFacts
  <2> QED BY <1>1, <2>1, AffectedAre
<1>3. ASSUME NEW c \in Hits(ids, to)
      PROVE  \E a \in Touched(ids, to) : c \in Corrected(a, Moving(a, ids, to), a = to)
  BY DEF Hits
<1>4. ASSUME NEW c \in Hits(ids, to)
      PROVE  /\ c \in 1 .. Len(resets)
             /\ c \in DOMAIN resets /\ resets[c] # None /\ resets[c] \in SavedBalances
             /\ resets[c].account \in Touched(ids, to)
             /\ c \in Corrected(resets[c].account, Moving(resets[c].account, ids, to),
                                resets[c].account = to)
  <2>1. PICK a \in Touched(ids, to) : c \in Corrected(a, Moving(a, ids, to), a = to)
    BY <1>3
  <2>2. /\ c \in DOMAIN resets /\ c \in 1 .. Len(resets) /\ resets[c] # None
        /\ resets[c].account = a /\ resets[c] \in SavedBalances
    BY <1>2, <2>1
  <2> QED BY <2>1, <2>2
<1> QED
  BY <1>1, <1>4

Renumber(r, b, n) == [r EXCEPT !.balance = b, !.version = n]

\* Rewriting a balance's figure leaves its account, period and days alone.
LEMMA Renumbered ==
    ASSUME NEW r \in SavedBalances, NEW b \in Int, NEW n \in Nat
    PROVE  LET s == Renumber(r, b, n)
           IN  /\ s \in SavedBalances /\ s.account = r.account /\ s.period = r.period
               /\ s.cutoff = r.cutoff /\ s.effective = r.effective
               /\ s.balance = b /\ s.version = n
BY DEF SavedBalances, Renumber

\* Corrected along their records, saved balances are still what their records say.
LEMMA CorrectionBooks ==
    ASSUME TableOK, Books, UNCHANGED today, Len(rows) <= MaxRows, NEW ids, NEW to,
           There(ids), Correctable(ids, to), \A i \in ids : rows'[i].rev \in Int,
           CorrectSavedBalances(ids, to)
    PROVE  Books'
<1> DEFINE H == Hits(ids, to)
<1> DEFINE k == Cardinality(H)
<1> DEFINE at == [c \in H |-> Len(versions) + Rank(H, c)]
<1> DEFINE new(c) == CorrectedVersion(c, resets[c].account, ids, to, at)
<1> DEFINE W == [n \in 1 .. k |-> new(Nth(H, n))]
<1> DEFINE moving(c) == Moving(resets[c].account, ids, to)
<1> DEFINE own(c) == Corrected(resets[c].account, moving(c), resets[c].account = to)
<1> DEFINE delta(c) == Deltas(resets[c].account, moving(c), resets[c].account = to)
<1> DEFINE p(c) == ParentReset(c)
<1>1. /\ ResetsTyped /\ VersionsTyped /\ Placed /\ Chained /\ Current
      /\ Len(resets) \in Nat /\ DOMAIN resets = 1 .. Len(resets)
      /\ \A c \in DOMAIN resets : resets[c] # None => resets[c] \in SavedBalances
      /\ Len(versions) \in Nat /\ DOMAIN versions = 1 .. Len(versions)
      /\ \A n \in DOMAIN versions : versions[n] # None => versions[n] \in SavedVersions
  BY ResetsAre, VersionsAre DEF Books, ResetFacts
<1>2. /\ H \in SUBSET (1 .. Len(resets))
      /\ \A c \in H : /\ c \in DOMAIN resets /\ c \in Nat /\ resets[c] # None
                      /\ resets[c] \in SavedBalances
                      /\ resets[c].account \in Touched(ids, to) /\ c \in own(c)
  BY <1>1, HitsAre
<1>3. /\ resets' = [c \in DOMAIN resets |->
                        IF c \in H
                        THEN [resets[c] EXCEPT !.balance = new(c).balance, !.version = at[c]]
                        ELSE resets[c]]
      /\ versions' = versions \o W
  BY DEF CorrectSavedBalances, Hits
<1>4. /\ IsFiniteSet(H) /\ k \in Nat
      /\ \A m \in H : Rank(H, m) \in 1 .. k
      /\ \A l, m \in H : l < m => Rank(H, l) < Rank(H, m)
      /\ \A m \in H : Nth(H, Rank(H, m)) = m
      /\ \A n \in 1 .. k : Nth(H, n) \in H /\ Rank(H, Nth(H, n)) = n
  <2> HIDE DEF H
  <2> QED BY <1>1, <1>2, RankFacts
<1>5. \A c \in H : at[c] = Len(versions) + Rank(H, c) /\ at[c] \in Nat /\ at[c] # 0
                   /\ at[c] \in Len(versions) + 1 .. Len(versions) + k
  <2> HIDE DEF H, k
  <2> QED BY <1>1, <1>4
<1>6. \A c, d : c \in own(d) /\ d \in H => c \in H
  BY <1>2 DEF Hits
<1> DEFINE Fixed(w, c, P, d) ==
        /\ w \in SavedVersions /\ w.reset = c /\ w.account = resets[c].account
        /\ w.cutoff = resets[c].cutoff /\ w.effective = resets[c].effective
        /\ w.balance = resets[c].balance + d[c] /\ d[c] \in Int
        /\ w.parentCutoff = V(c).parentCutoff
        /\ IF p(c) # 0 /\ p(c) \in P
           THEN w.parent = at[p(c)] /\ w.parentBalance = resets[p(c)].balance + d[p(c)]
           ELSE w.parent = V(c).parent /\ w.parentBalance = V(c).parentBalance
        /\ AddsUp(w)
<1>7. ASSUME NEW c \in H PROVE Fixed(new(c), c, own(c), delta(c))
  <2> DEFINE a == resets[c].account
  <2>1. There(Moving(a, ids, to)) /\ \A i \in Moving(a, ids, to) : rows'[i].rev \in Int
    BY MovingThere
  <2>2. /\ \A d \in Affected(a, Moving(a, ids, to)) : Recorded(d)
        /\ ~Contradicted(a, Moving(a, ids, to), a = to)
    BY <1>2 DEF Correctable
  <2>3. \A d \in Corrected(a, Moving(a, ids, to), a = to) : at[d] \in Nat /\ at[d] # 0
    <3> HIDE DEF H, at
    <3> QED BY <1>5, <1>6
  <2>4. c \in Corrected(a, Moving(a, ids, to), a = to)
    BY <1>2
  <2> HIDE DEF a, at, H
  <2>5. LET w == CorrectedVersion(c, a, ids, to, at)
            own1 == Corrected(a, Moving(a, ids, to), a = to)
            d1 == Deltas(a, Moving(a, ids, to), a = to)
        IN  /\ w \in SavedVersions /\ w.reset = c /\ w.account = a
            /\ w.cutoff = resets[c].cutoff /\ w.effective = resets[c].effective
            /\ w.balance = resets[c].balance + d1[c] /\ d1[c] \in Int
            /\ w.parentCutoff = V(c).parentCutoff
            /\ IF ParentReset(c) # 0 /\ ParentReset(c) \in own1
               THEN w.parent = at[ParentReset(c)]
                    /\ w.parentBalance = resets[ParentReset(c)].balance + d1[ParentReset(c)]
               ELSE w.parent = V(c).parent /\ w.parentBalance = V(c).parentBalance
            /\ AddsUp(w)
    BY <2>1, <2>2, <2>3, <2>4, CorrectedFacts
  <2> QED BY <2>5 DEF a
<1>8. \A n \in 1 .. k : W[n] = new(Nth(H, n))
  OBVIOUS
<1>9. DOMAIN resets' = DOMAIN resets /\ resets' = [c \in DOMAIN resets' |-> resets'[c]]
      /\ (\A c \in H : resets'[c] = [resets[c] EXCEPT !.balance = new(c).balance,
                                                      !.version = at[c]])
      /\ \A c \in DOMAIN resets : c \notin H => resets'[c] = resets[c]
  BY <1>2, <1>3
<1> HIDE DEF new, W, at, H, k, own, delta, moving
<1>10. W \in [1 .. k -> SavedVersions]
  <2>1. \A n \in 1 .. k : W[n] \in SavedVersions
    BY <1>4, <1>7, <1>8
  <2>2. W = [n \in 1 .. k |-> W[n]]
    BY DEF W
  <2> QED BY <2>1, <2>2
<1>11. /\ DOMAIN versions' = 1 .. Len(versions) + k
       /\ \A i \in 1 .. Len(versions) : versions'[i] = versions[i]
       /\ \A n \in 1 .. k : versions'[Len(versions) + n] = W[n]
  <2> DEFINE s == versions \o W
  <2>1. versions' = s
    BY <1>3
  <2>2. /\ DOMAIN s = 1 .. Len(versions) + k
        /\ \A i \in 1 .. Len(versions) : s[i] = versions[i]
        /\ \A n \in 1 .. k : s[Len(versions) + n] = W[n]
    BY <1>1, <1>4, <1>10, VersionsJoined DEF VersionsTyped
  <2> HIDE DEF s
  <2> QED BY <2>1, <2>2
<1>12. ASSUME NEW c \in H
       PROVE  /\ resets'[c] \in SavedBalances /\ resets'[c].account = resets[c].account
              /\ resets'[c].cutoff = resets[c].cutoff
              /\ resets'[c].effective = resets[c].effective
              /\ resets'[c].version = at[c] /\ resets'[c].balance = new(c).balance
              /\ resets'[c] # None
              /\ V(c)' = new(c) /\ versions'[at[c]] = new(c) /\ new(c) # None
              /\ at[c] \in DOMAIN versions'
  <2>1. new(c) \in SavedVersions /\ new(c) # None
    BY <1>7, Something
  <2>2. new(c).balance \in Int /\ at[c] \in Nat
    BY <1>5, <2>1 DEF SavedVersions
  <2>3. /\ resets'[c] \in SavedBalances /\ resets'[c].account = resets[c].account
        /\ resets'[c].cutoff = resets[c].cutoff /\ resets'[c].effective = resets[c].effective
        /\ resets'[c].version = at[c] /\ resets'[c].balance = new(c).balance
    <3>1. resets[c] \in SavedBalances
          /\ resets'[c] = Renumber(resets[c], new(c).balance, at[c])
      BY <1>2, <1>9 DEF Renumber
    <3> QED BY <2>2, <3>1, Renumbered
  <2>4. versions'[at[c]] = new(c)
    <3>1. versions'[Len(versions) + Rank(H, c)] = W[Rank(H, c)]
      BY <1>4, <1>11
    <3> QED BY <1>4, <1>5, <1>8, <3>1
  <2>5. at[c] \in DOMAIN versions'
    BY <1>1, <1>4, <1>5, <1>11
  <2> QED BY <2>1, <2>3, <2>4, <2>5, Something DEF V
<1>13. Rewritten(H, k)
  <2> SUFFICES ASSUME NEW c \in H
               PROVE  /\ c \in DOMAIN resets /\ resets[c] # None
                      /\ resets'[c] \in SavedBalances /\ resets'[c].account = resets[c].account
                      /\ -1 <= resets'[c].cutoff /\ resets'[c].cutoff <= today - 1
                      /\ resets'[c].effective <= today
                      /\ resets'[c].version \in Len(versions) + 1 .. Len(versions) + k
    BY <1>9 DEF Rewritten
  <2> QED BY <1>1, <1>2, <1>5, <1>12 DEF Placed
<1>14. \A c \in H : Describes(V(c)', c, resets'[c])
  BY <1>7, <1>12 DEF Describes
<1>15. ASSUME NEW c \in DOMAIN resets, resets[c] # None
       PROVE  /\ p(c) \in 0 .. c - 1 /\ V(c) \in SavedVersions
              /\ V(c).reset = c /\ V(c).account = resets[c].account
              /\ V(c).cutoff = resets[c].cutoff /\ V(c) # None
              /\ resets[c].version \in DOMAIN versions
              /\ V(c) = versions[resets[c].version]
              /\ V(c).parent # 0 =>
                   /\ p(c) \in DOMAIN resets /\ resets[p(c)] # None
                   /\ resets[p(c)].account = resets[c].account
                   /\ p(c) = versions[V(c).parent].reset /\ p(c) # 0
                   /\ V(c).parent \in DOMAIN versions
              /\ V(c).parent = 0 => p(c) = 0
  <2>1. /\ ParentReset(c) \in 0 .. c - 1
        /\ V(c) \in SavedVersions /\ V(c) # None /\ Describes(V(c), c, resets[c])
        /\ resets[c].version \in DOMAIN versions /\ V(c) = versions[resets[c].version]
        /\ V(c).parent # 0 =>
             /\ ParentReset(c) \in DOMAIN resets /\ resets[ParentReset(c)] # None
             /\ ParentReset(c) # 0
             /\ resets[ParentReset(c)].account = resets[c].account
             /\ ParentReset(c) = versions[V(c).parent].reset
             /\ V(c).parent \in DOMAIN versions
        /\ V(c).parent = 0 => ParentReset(c) = 0
    BY <1>1, <1>15, ParentFacts
  <2>2. V(c).reset = c /\ V(c).account = resets[c].account /\ V(c).cutoff = resets[c].cutoff
    BY <2>1 DEF Describes
  <2> QED BY <2>1, <2>2
<1>16. ASSUME NEW c \in H
       PROVE  LinkedUp(V(c)) /\ V(c).parent < resets[c].version
              /\ Trusted(V(c)) /\ (V(c).parent # 0 => BuiltOn(V(c), p(c), resets[p(c)]))
  <2>1. c \in DOMAIN resets /\ resets[c] # None
    BY <1>2
  <2>2. LinkedUp(V(c)) /\ V(c).parent < resets[c].version
    BY <1>1, <1>15, <2>1 DEF Chained
  <2> DEFINE a == resets[c].account
  <2>3. c \in Affected(a, Moving(a, ids, to))
    BY <1>1, <1>2, HitFacts DEF own, moving
  <2>4. Trusted(V(c))
    BY <1>2, <2>3 DEF Correctable, Recorded, Trusted
  <2> QED BY <1>15, <2>1, <2>2, <2>4 DEF Books, Followed
<1>17. ASSUME NEW c \in H
       PROVE  /\ p(c) # 0 /\ p(c) \in own(c) =>
                   /\ p(c) \in H /\ V(c).parent # 0 /\ new(c).parent = at[p(c)]
                   /\ new(c).parentBalance = new(p(c)).balance
              /\ ~(p(c) # 0 /\ p(c) \in own(c)) =>
                   /\ new(c).parent = V(c).parent
                   /\ new(c).parentBalance = V(c).parentBalance
                   /\ V(c).parent # 0 => p(c) \notin H
  <2>1. c \in DOMAIN resets /\ resets[c] # None
    BY <1>2
  <2>2. V(c).parent # 0 => /\ own(p(c)) = own(c) /\ delta(p(c)) = delta(c)
    <3>1. V(c).parent # 0 => resets[p(c)].account = resets[c].account
      BY <1>15, <2>1
    <3> QED BY <3>1 DEF own, delta, moving
  <2>3. CASE p(c) # 0 /\ p(c) \in own(c)
    <3>1. p(c) \in H /\ V(c).parent # 0
      BY <1>6, <1>15, <2>1, <2>3
    <3>2. Fixed(new(c), c, own(c), delta(c)) /\ Fixed(new(p(c)), p(c), own(p(c)), delta(p(c)))
      BY <1>7, <3>1
    <3>3. new(c).parent = at[p(c)] /\ new(c).parentBalance = resets[p(c)].balance + delta(c)[p(c)]
      BY <2>3, <3>2
    <3>4. new(p(c)).balance = resets[p(c)].balance + delta(p(c))[p(c)]
      BY <3>2
    <3> QED BY <2>2, <2>3, <3>1, <3>3, <3>4
  <2>4. CASE ~(p(c) # 0 /\ p(c) \in own(c))
    <3>1. V(c).parent # 0 => p(c) \notin H
      BY <1>2, <1>15, <2>1, <2>2, <2>4
    <3>2. Fixed(new(c), c, own(c), delta(c))
      BY <1>7
    <3>3. new(c).parent = V(c).parent /\ new(c).parentBalance = V(c).parentBalance
      BY <2>4, <3>2
    <3> QED BY <2>4, <3>1, <3>3
  <2> QED BY <2>3, <2>4
<1>18. ASSUME NEW n \in DOMAIN versions' \ DOMAIN versions PROVE SoundVersion(n)'
  <2> DEFINE m == n - Len(versions)
  <2>1. m \in 1 .. k /\ n = Len(versions) + m /\ n \in Nat
    BY <1>1, <1>4, <1>11
  <2> DEFINE c == Nth(H, m)
  <2>2. c \in H /\ Rank(H, c) = m /\ versions'[n] = new(c) /\ n = at[c]
    BY <1>4, <1>5, <1>8, <1>11, <2>1
  <2> HIDE DEF m, c
  <2> DEFINE w == new(c)
  <2>3. /\ w \in SavedVersions /\ w.reset = c /\ w.account = resets[c].account
        /\ w.cutoff = resets[c].cutoff /\ w.parentCutoff = V(c).parentCutoff /\ AddsUp(w)
    BY <1>7, <2>2
  <2>4. /\ c \in DOMAIN resets /\ resets[c] # None /\ c \in DOMAIN resets'
        /\ resets'[c] # None /\ resets'[c].account = resets[c].account
    BY <1>2, <1>9, <1>12, <2>2
  <2>5. w.parentCutoff <= w.cutoff
    BY <1>15, <1>16, <2>2, <2>3, <2>4 DEF LinkedUp
  <2>6. CASE p(c) # 0 /\ p(c) \in own(c)
    <3>1. p(c) \in H /\ w.parent = at[p(c)]
      BY <1>17, <2>2, <2>6
    <3>2. /\ versions'[w.parent] = new(p(c)) /\ new(p(c)) # None
          /\ new(p(c)).reset = p(c) /\ new(p(c)).account = resets[p(c)].account
          /\ w.parent \in DOMAIN versions'
      BY <1>7, <1>12, <3>1
    <3>3. p(c) \in Nat /\ c \in Nat /\ p(c) < c /\ resets[p(c)].account = resets[c].account
      BY <1>2, <1>15, <1>17, <2>2, <2>4, <2>6
    <3>4. w.parent < n /\ w.parent # 0
      <4>1. Rank(H, p(c)) < Rank(H, c) /\ Rank(H, p(c)) \in 1 .. k /\ Rank(H, c) \in 1 .. k
        BY <1>4, <2>2, <3>1, <3>3
      <4> QED BY <1>1, <1>4, <1>5, <2>2, <3>1, <4>1
    <3>5. LinkedUp(versions[n])'
      BY <2>2, <2>3, <2>5, <3>2, <3>3, <3>4 DEF LinkedUp
    <3> QED BY <2>2, <2>3, <2>4, <3>4, <3>5 DEF SoundVersion
  <2>7. CASE ~(p(c) # 0 /\ p(c) \in own(c))
    <3>1. w.parent = V(c).parent
      BY <1>17, <2>2, <2>7
    <3>2. LinkedUp(V(c)) /\ V(c).parent < resets[c].version /\ V(c).parent \in Nat
          /\ resets[c].version \in DOMAIN versions
      BY <1>15, <1>16, <2>2, <2>4 DEF SavedVersions
    <3>3. w.parent < n
      BY <1>1, <1>5, <1>11, <2>1, <2>2, <3>1, <3>2
    <3>4. w.parent # 0 => /\ w.parent \in DOMAIN versions' /\ versions'[w.parent] # None
                          /\ versions'[w.parent].account = w.account
                          /\ versions'[w.parent].reset < w.reset
      <4> SUFFICES ASSUME w.parent # 0
                   PROVE  /\ w.parent \in DOMAIN versions' /\ versions'[w.parent] # None
                          /\ versions'[w.parent].account = w.account
                          /\ versions'[w.parent].reset < w.reset
        OBVIOUS
      <4>1. /\ V(c).parent \in DOMAIN versions /\ versions[V(c).parent] # None
            /\ versions[V(c).parent].account = V(c).account
            /\ versions[V(c).parent].reset < V(c).reset
        BY <3>1, <3>2 DEF LinkedUp
      <4>2. V(c).account = resets[c].account /\ V(c).reset = c
        BY <1>15, <2>4
      <4>3. versions'[V(c).parent] = versions[V(c).parent] /\ V(c).parent \in DOMAIN versions'
        BY <1>1, <1>4, <1>11, <4>1
      <4> QED BY <2>3, <3>1, <4>1, <4>2, <4>3
    <3>5. w.parent = 0 => w.parentCutoff = -1
      BY <2>3, <3>1, <3>2 DEF LinkedUp
    <3>6. LinkedUp(versions[n])'
      BY <2>2, <2>5, <3>4, <3>5 DEF LinkedUp
    <3> QED BY <2>2, <2>3, <2>4, <3>3, <3>6 DEF SoundVersion
  <2> QED BY <2>6, <2>7
<1>19. ASSUME NEW c \in DOMAIN resets', resets'[c] # None, Trusted(V(c))', V(c)'.parent # 0
       PROVE  FollowedAt(c)' \/ UntouchedBelow(c)
  <2>1. c \in DOMAIN resets
    BY <1>9
  <2>2. CASE c \in H
    <3>1. V(c)' = new(c) /\ new(c).parent # 0 /\ new(c).parentCutoff = V(c).parentCutoff
      BY <1>7, <1>12, <1>19, <2>2
    <3>2. CASE p(c) # 0 /\ p(c) \in own(c)
      <4>1. p(c) \in H /\ new(c).parent = at[p(c)] /\ V(c).parent # 0
            /\ new(c).parentBalance = new(p(c)).balance
        BY <1>17, <2>2, <3>2
      <4>2. versions'[new(c).parent].reset = p(c)
        BY <1>7, <1>12, <4>1
      <4>3. BuiltOn(V(c), p(c), resets[p(c)])
        BY <1>16, <2>2, <4>1
      <4>4. BuiltOn(new(c), p(c), resets'[p(c)])
        BY <1>12, <3>1, <4>1, <4>3 DEF BuiltOn
      <4> QED BY <3>1, <4>2, <4>4 DEF FollowedAt
    <3>3. CASE ~(p(c) # 0 /\ p(c) \in own(c))
      <4>1. new(c).parent = V(c).parent /\ V(c).parent # 0 /\ p(c) \notin H
            /\ new(c).parentBalance = V(c).parentBalance
        BY <1>17, <2>2, <3>1, <3>3
      <4>2. p(c) \in DOMAIN resets /\ p(c) = versions[V(c).parent].reset
            /\ V(c).parent \in DOMAIN versions
        BY <1>2, <1>15, <2>2, <4>1
      <4>3. versions'[new(c).parent].reset = p(c) /\ resets'[p(c)] = resets[p(c)]
        BY <1>1, <1>9, <1>11, <4>1, <4>2
      <4>4. BuiltOn(new(c), p(c), resets'[p(c)])
        BY <1>16, <2>2, <3>1, <4>1, <4>3 DEF BuiltOn
      <4> QED BY <3>1, <4>3, <4>4 DEF FollowedAt
    <3> QED BY <3>2, <3>3
  <2>3. CASE c \notin H
    <3>1. resets'[c] = resets[c] /\ resets[c] # None
      BY <1>9, <1>19, <2>1, <2>3
    <3>2. V(c)' = V(c)
      BY <1>1, <1>11, <1>15, <2>1, <3>1 DEF V
    <3>3. SUFFICES ASSUME V(c).parent # 0, p(c) \in H PROVE FALSE
      <4>1. V(c).parent # 0 => p(c) \in DOMAIN resets /\ p(c) = versions[V(c).parent].reset
        BY <1>15, <2>1, <3>1
      <4>2. V(c).parent # 0 /\ p(c) \notin H => resets'[p(c)] = resets[p(c)]
        BY <1>9, <4>1
      <4> QED BY <2>1, <3>1, <4>1, <4>2 DEF UntouchedBelow
    <3> DEFINE a == resets[c].account
    <3> DEFINE mine == Moving(a, ids, to)
    <3>4. resets[p(c)].account = a /\ p(c) \in DOMAIN resets /\ resets[p(c)] # None
      BY <1>15, <2>1, <3>1, <3>3
    <3>5. p(c) \in Corrected(a, mine, a = to) /\ a \in Touched(ids, to)
      BY <1>2, <3>3, <3>4 DEF own, moving
    <3>6. p(c) \in Affected(a, mine) /\ Trusted(V(c))
      BY <1>1, <1>19, <3>2, <3>5, HitFacts
    <3>7. BuiltOn(V(c), p(c), resets[p(c)])
      BY <1>15, <2>1, <3>1, <3>3, <3>6 DEF Books, Followed
    <3>8. LinkedUp(V(c))
      BY <1>1, <1>15, <2>1, <3>1 DEF Chained
    <3>9. resets[p(c)].cutoff <= resets[c].cutoff
      BY <1>15, <2>1, <3>1, <3>7, <3>8 DEF BuiltOn, LinkedUp
    <3>10. PICK i \in mine : resets[p(c)].cutoff >= rows[i].day
      BY <3>6 DEF Affected
    <3>11. rows[i].day \in Int /\ resets[p(c)].cutoff \in Int /\ resets[c].cutoff \in Int
      <4>1. i \in Ids /\ rows[i] # None
        BY <3>10, MovingThere DEF There
      <4>2. rows[i] \in Transactions
        BY <4>1, RowFacts DEF RowOrNone
      <4> QED BY <1>1, <2>1, <3>1, <3>4, <4>2 DEF SavedBalances, Transactions
    <3>12. resets[c].cutoff >= rows[i].day
      <4> HIDE DEF p
      <4> QED BY <3>9, <3>10, <3>11
    <3>13. c \in Affected(a, mine)
      BY <2>1, <3>1, <3>10, <3>12 DEF Affected, Checkpoints
    <3>14. c \in Corrected(a, mine, a = to)
      BY <1>1, <3>5, <3>13, HitFacts
    <3> QED BY <2>3, <3>5, <3>14 DEF H, Hits
  <2> QED BY <2>2, <2>3
<1>20. \A v \in DOMAIN versions : Kept(versions[v], versions[v])
  BY DEF Kept
<1>21. versions \in Seq(SavedVersions \cup {None})
  BY <1>1 DEF VersionsTyped
<1> QED
  BY <1>3, <1>4, <1>10, <1>13, <1>14, <1>18, <1>19, <1>20, <1>21, BooksRewritten

\* The rows that are elsewhere are what a move is of.
LEMMA EffectiveTwice ==
    ASSUME NEW ids, NEW to
    PROVE  LET E == Effective(ids, to)
           IN  /\ E \subseteq ids /\ Effective(E, to) = E
               /\ Touched(E, to) = Touched(ids, to)
               /\ \A a : Moving(a, E, to) = Moving(a, ids, to)
<1> DEFINE E == Effective(ids, to)
<1>1. E \subseteq ids /\ Effective(E, to) = E
  BY DEF Effective
<1>2. Touched(E, to) = Touched(ids, to)
  BY <1>1 DEF Touched
<1>3. ASSUME NEW a, a # to PROVE Leaving(E, a) = Leaving(ids, a)
  BY <1>3 DEF Leaving, Effective
<1>4. ASSUME NEW a PROVE Moving(a, E, to) = Moving(a, ids, to)
  BY <1>1, <1>3 DEF Moving
<1> QED
  BY <1>1, <1>2, <1>4

\* A move that nothing blocks and that asks for no balance can be made from the records.
LEMMA MoveCorrectable ==
    ASSUME NEW ids, NEW to, Blockers(ids, to) = {}, ~NeedsBalances(ids, to)
    PROVE  Correctable(Effective(ids, to), to)
<1> DEFINE E == Effective(ids, to)
<1>1. ~LooksDamaged(ids, to)
  BY DEF Blockers
<1>2. ASSUME NEW a \in Touched(ids, to)
      PROVE  /\ \A c \in Affected(a, Moving(a, ids, to)) : Recorded(c)
             /\ ~Contradicted(a, Moving(a, ids, to), a = to)
  <2>1. Verdict(a, Moving(a, ids, to), a = to) # "confirm"
        /\ Verdict(a, Moving(a, ids, to), a = to) # "integrity"
    BY <1>1 DEF NeedsBalances, LooksDamaged, VerdictFor
  <2>2. (\A c \in Affected(a, Moving(a, ids, to)) : ~Uncertain(a, c))
        /\ ~Contradicted(a, Moving(a, ids, to), a = to)
    BY <2>1 DEF Verdict
  <2> QED BY <2>2 DEF Uncertain
<1>3. Touched(E, to) = Touched(ids, to) /\ \A a : Moving(a, E, to) = Moving(a, ids, to)
  BY EffectiveTwice
<1> HIDE DEF E
<1>4. ASSUME NEW a \in Touched(E, to)
      PROVE  /\ \A c \in Affected(a, Moving(a, E, to)) : Recorded(c)
             /\ ~Contradicted(a, Moving(a, E, to), a = to)
  <2>1. Moving(a, E, to) = Moving(a, ids, to) /\ a \in Touched(ids, to)
    BY <1>3
  <2> QED BY <1>2, <2>1
<1>5. Correctable(E, to)
  BY <1>4 DEF Correctable
<1> QED
  BY <1>5 DEF E

\* A move touches finitely many accounts.
LEMMA TouchedFinite ==
    ASSUME TableOK, NEW ids, There(ids), NEW to \in accounts
    PROVE  IsFiniteSet(Touched(ids, to)) /\ Touched(ids, to) \subseteq Accounts
<1> DEFINE E == Effective(ids, to)
<1> DEFINE f == [i \in E |-> rows[i].account]
<1> DEFINE T == {rows[i].account : i \in E}
<1>1. E \subseteq Ids /\ \A i \in E : rows[i] \in Transactions
  BY RowFacts DEF Effective, There, RowOrNone
<1>2. IsFiniteSet(E)
  BY <1>1, IdsFinite
<1>3. T \subseteq Accounts
  BY <1>1 DEF Transactions
<1>4. f \in Surjection(E, T)
  BY DEF Surjection
<1>5. Touched(ids, to) = IF E = {} THEN {} ELSE {to} \cup T
  BY DEF Touched
<1>6. to \in Accounts
  BY DEF TableOK
<1> HIDE DEF f, T, E
<1>7. IsFiniteSet(T)
  BY <1>2, <1>4, FS_Surjection
<1>8. IsFiniteSet(T \cup {to}) /\ {to} \cup T = T \cup {to}
  BY <1>7, FS_AddElement
<1>9. IsFiniteSet({})
  BY FS_EmptySet
<1> QED
  BY <1>3, <1>5, <1>6, <1>8, <1>9

\* A balance is confirmed as a number.
LEMMA BaselineInt ==
    ASSUME IInv, Grounds, Books, NEW ids, There(ids), NEW to, NEW a \in Accounts,
           NEW inputs \in Confirmations, inputs[1] # "none"
    PROVE  Baseline(a, ids, to, inputs) \in Int
<1>1. /\ TableOK /\ ResetsTyped /\ today \in Nat /\ opening \in [Accounts -> Int]
  BY DEF IInv, Books, Grounds
<1>2. Confirmed(a, inputs) \in Int
  <2>1. CASE inputs[1] = "keep"
    BY <1>1, <2>1, BalanceInt DEF Confirmed
  <2>2. CASE inputs[1] # "keep"
    <3>1. PICK b \in Typed : inputs = <<"set", b>>
      BY <2>2 DEF Confirmations
    <3>2. inputs[2] = b /\ b \in Int
      BY <3>1, LedgerAssumption DEF LedgerAssumption
    <3>3. Shown(a, b) \in Int
      BY <1>1, <3>2 DEF Shown
    <3> QED BY <2>2, <3>2, <3>3 DEF Confirmed
  <2> QED BY <2>1, <2>2
<1>3. Total(IntervalRows(a, today - 1, today)) \in Int
  BY <1>1, IntervalFacts
<1> DEFINE M == {i \in Moving(a, Effective(ids, to), to) : rows[i].day = today}
<1>4. M \subseteq Ids /\ \A i \in M : rows[i] # None
  BY DEF There, Moving, Effective, Leaving
<1>5. Total(M) \in Int
  <2> HIDE DEF M
  <2> QED BY <1>1, <1>4, RowsTotal
<1>6. ActivityToday(a, ids, to) \in Int
  <2>1. ActivityToday(a, ids, to) =
          IF a = to THEN Total(IntervalRows(a, today - 1, today)) + Total(M)
          ELSE Total(IntervalRows(a, today - 1, today)) - Total(M)
    BY DEF ActivityToday
  <2> HIDE DEF M
  <2> QED BY <1>3, <1>5, <2>1
<1>7. Dir(a) * ActivityToday(a, ids, to) \in Int
  BY <1>6, DirIs
<1> QED
  BY <1>2, <1>7 DEF Baseline

\* Confirmed for a move, balances are typed numbers like others.
LEMMA ConfirmationBooks ==
    ASSUME IInv, Grounds, Books, UNCHANGED today, revision' \in Int, NEW ids, There(ids),
           NEW to \in accounts, NEW inputs \in Confirmations, inputs[1] # "none",
           ConfirmBalances(ids, to, inputs)
    PROVE  Books'
<1> DEFINE T == Touched(ids, to)
<1> DEFINE k == Cardinality(T)
<1> DEFINE order == SetToSeq(T)
<1> DEFINE row(n) == [AnchorRow(order[n], <<"move", moved + 1>>, today - 1, today,
                                Baseline(order[n], ids, to, inputs))
                      EXCEPT !.version = Len(versions) + n]
<1> DEFINE R == [n \in DOMAIN order |-> row(n)]
<1> DEFINE W == [n \in DOMAIN order |->
                   Unknown(Len(resets) + n, row(n), "confirmation", revision')]
<1>1. /\ TableOK /\ today \in Nat /\ moved \in Nat /\ revision \in Int
      /\ Len(resets) \in Nat /\ Len(versions) \in Nat
  BY ResetsAre, VersionsAre DEF IInv, TableOK, Grounds, Books, ResetFacts
<1>2. T \subseteq Accounts /\ k \in Nat /\ order \in [1 .. k -> T] /\ DOMAIN order = 1 .. k
  <2>1. IsFiniteSet(T) /\ T \subseteq Accounts
    BY <1>1, TouchedFinite
  <2> HIDE DEF T
  <2> QED BY <2>1, SequenceOfSet
<1>3. ASSUME NEW n \in 1 .. k
      PROVE  /\ row(n) \in SavedBalances /\ row(n).cutoff = today - 1
             /\ row(n).effective = today /\ row(n).version = Len(versions) + n
  <2> DEFINE b == Baseline(order[n], ids, to, inputs)
  <2>1. order[n] \in Accounts /\ b \in Int
    BY <1>2, BaselineInt
  <2> DEFINE period == <<"move", moved + 1>>
  <2>2. period \in Seq(Int \cup {"month", "manual", "move"})
    BY <1>1, ShortSeqs
  <2>3. row(n) = [account |-> order[n], period |-> period, cutoff |-> today - 1,
                  effective |-> today, balance |-> b, version |-> Len(versions) + n]
    BY DEF AnchorRow
  <2>4. Len(versions) + n \in Nat /\ today - 1 \in Int /\ today \in Int
    BY <1>1
  <2> HIDE DEF b, period, order, row, k
  <2> QED BY <2>1, <2>2, <2>3, <2>4 DEF SavedBalances
<1>4. resets' = resets \o R
  BY DEF ConfirmBalances
<1>5. versions' = versions \o W
  BY DEF ConfirmBalances, Unknown
<1>6. /\ \A n \in 1 .. k : R[n] = row(n)
                           /\ W[n] = Unknown(Len(resets) + n, row(n), "confirmation", revision')
      /\ R = [n \in 1 .. k |-> R[n]] /\ W = [n \in 1 .. k |-> W[n]]
  BY <1>2
<1> HIDE DEF R, W, row, order, k
<1>7. ASSUME NEW n \in 1 .. k
      PROVE  /\ R[n] \in SavedBalances /\ W[n] \in SavedVersions
             /\ AddedReset(R[n], Len(versions) + n) /\ AddedVersion(W[n])
             /\ Describes(W[n], Len(resets) + n, R[n])
  <2> DEFINE c == Len(resets) + n
  <2>1. R[n] = row(n) /\ W[n] = Unknown(c, row(n), "confirmation", revision')
    BY <1>6
  <2>2. c \in Nat /\ "confirmation" \in {"manual", "confirmation", "legacy"}
        /\ row(n) \in SavedBalances /\ -1 <= row(n).cutoff
    BY <1>1, <1>3
  <2> DEFINE x == revision'
  <2> DEFINE v == Unknown(c, row(n), "confirmation", x)
  <2> HIDE DEF c
  <2>3. v \in SavedVersions /\ Opaque(v) /\ Describes(v, c, row(n))
    <3>1. x \in Int /\ revision \in Int
      BY <1>1
    <3> HIDE DEF x
    <3> QED BY <2>2, <3>1, OpaqueFacts
  <2>4. AddedVersion(W[n])
    BY <2>1, <2>3 DEF AddedVersion, Opaque, OnNothing
  <2>5. AddedReset(R[n], Len(versions) + n)
    BY <1>1, <1>3, <2>1 DEF AddedReset
  <2> QED BY <2>1, <2>2, <2>3, <2>4, <2>5 DEF c
<1>8. R \in [1 .. k -> SavedBalances] /\ W \in [1 .. k -> SavedVersions]
  BY <1>6, <1>7
<1> QED
  BY <1>2, <1>4, <1>5, <1>7, <1>8, BooksExtended

\* The rows a move takes along exist before it, with revisions after it.
LEMMA MovedTable ==
    ASSUME IInv, NEW ids, \A i \in ids : Live(i), NEW to \in accounts,
           NEW inputs, ApplyMove(ids, to, inputs)
    PROVE  /\ There(Effective(ids, to)) /\ revision' \in Int
           /\ \A i \in Effective(ids, to) : rows'[i].rev \in Int
<1> DEFINE E == Effective(ids, to)
<1> DEFINE new == [i \in E |-> MovedRow(i, to)]
<1>1. UpdateRows(new)
  BY DEF ApplyMove
<1>2. \A i \in E : i \in Ids /\ rows[i] \in Transactions /\ rows[i] # None
  BY RowFacts DEF IInv, Effective, Live
<1>3. \A i \in E : MovedRow(i, to) \in Transactions
  BY <1>2 DEF MovedRow, Transactions, IInv, TableOK
<1>4. DOMAIN new = E /\ DOMAIN new \subseteq Ids /\ \A i \in DOMAIN new : new[i] \in Transactions
  BY <1>2, <1>3
<1> HIDE DEF new
<1>5. revision' \in Int /\ \A i \in E : rows'[i] \in Transactions
  BY <1>1, <1>4, UpdateRowsFacts DEF IInv
<1> QED
  BY <1>2, <1>5 DEF There, Transactions

\* A move keeps Books, whether it corrects from the records, takes confirmed figures
\* or needs neither (transaction_account_move.rs, historical_move.rs).
LEMMA MoveBooks ==
    ASSUME IInv, Grounds, Books, UNCHANGED today, NEW ids, \A i \in ids : Live(i),
           NEW to \in accounts, NEW inputs \in Confirmations,
           NeedsBalances(ids, to) => inputs[1] # "none",
           Blockers(ids, to) = {}, ApplyMove(ids, to, inputs)
    PROVE  Books'
<1> DEFINE E == Effective(ids, to)
<1>1. There(E) /\ revision' \in Int /\ \A i \in E : rows'[i].rev \in Int
  BY MovedTable
<1>2. CASE NeedsBalances(ids, to)
  <2>1. ConfirmBalances(E, to, inputs)
    BY <1>2 DEF ApplyMove
  <2> HIDE DEF E
  <2> QED BY <1>1, <1>2, <2>1, ConfirmationBooks
<1>3. CASE ~NeedsBalances(ids, to)
  <2>1. CorrectSavedBalances(E, to)
    BY <1>3 DEF ApplyMove
  <2>2. Correctable(E, to)
    BY <1>3, MoveCorrectable
  <2>3. TableOK /\ Len(rows) <= MaxRows
    BY DEF IInv, Grounds
  <2> HIDE DEF E
  <2> QED BY <1>1, <2>1, <2>2, <2>3, CorrectionBooks
<1> QED
  BY <1>2, <1>3

(* -- What the other steps leave alone -------------------------------------- *)

\* A step that leaves balances and versions alone keeps Books, whatever it does to
\* rows: a version carries the rows it counted.
LEMMA BooksQuiet ==
    ASSUME Books, UNCHANGED <<resets, versions, today>>
    PROVE  Books'
BY DEF Books, ResetsTyped, VersionsTyped, Placed, Chained, LinkedUp, Current, V, Balanced, Followed

\* commit of a reviewed move.
LEMMA CommitMoveBooks ==
    ASSUME IInv, Grounds, Books, CommitMove
    PROVE  Books'
<1>1. UNCHANGED today /\ review # None
  BY DEF CommitMove
<1> DEFINE ids == review.ids
<1> DEFINE to == review.to
<1> DEFINE inputs == review.inputs
<1> DEFINE Same == to \in accounts /\ (\A i \in ids : Live(i)) /\ Token(ids, to, inputs) = review.token
<1>2. CASE Same
  <2>1. ApplyMove(ids, to, inputs)
    BY <1>2 DEF CommitMove
  <2>2. Token(ids, to, inputs).blockers = Blockers(ids, to)
        /\ Token(ids, to, inputs).confirm = NeedsBalances(ids, to)
    BY DEF Token
  <2>3. Blockers(ids, to) = {} /\ review.token.confirm = NeedsBalances(ids, to)
    BY <1>1, <1>2, <2>2 DEF IInv, ReviewClear
  <2>4. inputs \in Confirmations /\ (review.token.confirm => inputs[1] # "none")
    BY <1>1 DEF Grounds
  <2> HIDE DEF ids, to, inputs
  <2> QED BY <1>1, <1>2, <2>1, <2>3, <2>4, MoveBooks
<1>3. CASE ~Same
  <2>1. UNCHANGED <<resets, versions>>
    BY <1>3 DEF CommitMove
  <2> QED BY <1>1, <2>1, BooksQuiet
<1> QED
  BY <1>2, <1>3

\* A move of a single row without a review.
LEMMA MoveOneBooks ==
    ASSUME IInv, Grounds, Books, NEW i, NEW to, MoveOne(i, to)
    PROVE  Books'
<1>1. /\ UNCHANGED today /\ to \in accounts /\ \A j \in {i} : Live(j)
      /\ ApplyMove({i}, to, <<"none">>) /\ Blockers({i}, to) = {}
      /\ NeedsBalances({i}, to) => <<"none">>[1] # "none"
  BY DEF MoveOne, CanCommit
<1>2. <<"none">> \in Confirmations
  BY DEF Confirmations
<1> QED
  BY <1>1, <1>2, MoveBooks

\* A day passing brings balances into effect and changes none.
LEMMA NextDayBooks ==
    ASSUME Grounds, Books, NextDay
    PROVE  Books'
<1>1. today' = today + 1 /\ UNCHANGED <<resets, versions>> /\ today \in Nat
  BY DEF NextDay, balanceVars, Grounds
<1>2. Placed'
  <2> SUFFICES ASSUME NEW c \in DOMAIN resets, resets[c] # None
               PROVE  /\ -1 <= resets[c].cutoff /\ resets[c].cutoff <= (today + 1) - 1
                      /\ resets[c].effective <= today + 1
    BY <1>1 DEF Placed
  <2>1. resets[c] \in SavedBalances
    BY ResetsAre DEF Books, ResetFacts
  <2>2. resets[c].cutoff \in Int /\ resets[c].effective \in Int
    BY <2>1 DEF SavedBalances
  <2>3. -1 <= resets[c].cutoff /\ resets[c].cutoff <= today - 1 /\ resets[c].effective <= today
    BY DEF Books, Placed
  <2> QED BY <1>1, <2>2, <2>3
<1> QED
  BY <1>1, <1>2 DEF Books, ResetsTyped, VersionsTyped, Chained, LinkedUp, Current, V, Balanced,
                    Followed

(* -- Every step ------------------------------------------------------------ *)

LEMMA BalanceStepBooks == IInv /\ Grounds /\ Books /\ BalanceStep => Books'
<1> SUFFICES ASSUME IInv, Grounds, Books, BalanceStep PROVE Books'
  OBVIOUS
<1>1. CASE RollForward
  BY <1>1, RollForwardBooks
<1>2. CASE NextDay
  BY <1>2, NextDayBooks
<1>3. ASSUME NEW a \in accounts, NEW b \in Typed, SetStartingBalance(a, b) PROVE Books'
  BY <1>3, BooksQuiet DEF SetStartingBalance, otherVars
<1>4. ASSUME NEW a \in accounts, NEW b \in Typed, Override(a, b) PROVE Books'
  BY <1>4, OverrideBooks
<1>5. ASSUME NEW ids, NEW to, NEW inputs, ReviewMove(ids, to, inputs) PROVE Books'
  BY <1>5, BooksQuiet DEF ReviewMove, balanceVars
<1>6. CASE CommitMove
  BY <1>6, CommitMoveBooks
<1> QED
  BY <1>1, <1>2, <1>3, <1>4, <1>5, <1>6 DEF BalanceStep

LEMMA RowStepBooks == IInv /\ IInv' /\ Grounds /\ Books /\ RowStep => Books'
<1> SUFFICES ASSUME IInv, IInv', Grounds, Books, RowStep PROVE Books'
  OBVIOUS
<1>1. CASE \/ \E a \in accounts, d \in {0, today}, x \in Amounts : CreateTransaction(a, d, x)
           \/ \E i \in Ids, x \in Amounts : UpdateAmount(i, x)
           \/ \E i \in Ids, d \in Days : UpdateDate(i, d)
           \/ \E i \in Ids : DeleteTransaction(i) \/ RestoreTransaction(i)
  <2>1. UNCHANGED <<resets, versions, today>>
    BY <1>1 DEF CreateTransaction, UpdateAmount, UpdateDate, DeleteTransaction,
                RestoreTransaction, SetLive, ChangeRow, balanceVars, otherVars
  <2> QED BY <2>1, BooksQuiet
<1>2. CASE \E ids \in SUBSET Ids : FlipSigns(ids)
  <2>1. revision' \in Int
    BY DEF IInv, TableOK
  <2> QED BY <1>2, <2>1, FlipBooks
<1>3. CASE \E i \in Ids, to \in accounts : MoveOne(i, to)
  BY <1>3, MoveOneBooks
<1> QED
  BY <1>1, <1>2, <1>3 DEF RowStep

LEMMA PairStepBooks == Books /\ PairStep => Books'
<1> SUFFICES ASSUME Books, PairStep PROVE Books'
  OBVIOUS
<1>1. CASE \E a \in accounts : DeleteAccount(a)
  BY <1>1, DeleteBooks
<1>2. CASE ~ \E a \in accounts : DeleteAccount(a)
  <2>1. UNCHANGED <<resets, versions, today>>
    BY <1>2 DEF PairStep, LinkTransfer, UnlinkTransfer, DismissCandidates, RestoreCandidates,
                AutoLink, MarkReviewed, ApplyDebtPayment, UnapplyDebtPayment, balanceVars,
                otherVars
  <2> QED BY <2>1, BooksQuiet
<1> QED
  BY <1>1, <1>2

LEMMA ReconcileStepBooks == Books /\ ReconcileStep => Books'
<1> SUFFICES ASSUME Books, ReconcileStep PROVE Books'
  OBVIOUS
<1>1. UNCHANGED <<resets, versions, today>>
  BY DEF ReconcileStep, Tick, FinishManual, ReviewStatement, FinishStatement, balanceVars,
         otherVars
<1> QED
  BY <1>1, BooksQuiet

\* Every step keeps Books.
LEMMA NextBooks == IInv /\ IInv' /\ Grounds /\ Books /\ [Next]_vars => Books'
<1> SUFFICES ASSUME IInv, IInv', Grounds, Books, [Next]_vars PROVE Books'
  OBVIOUS
<1>1. CASE UNCHANGED vars
  <2>1. UNCHANGED <<resets, versions, today>>
    BY <1>1 DEF vars
  <2> QED BY <2>1, BooksQuiet
<1> QED
  BY <1>1, BalanceStepBooks, RowStepBooks, PairStepBooks, ReconcileStepBooks DEF Next

(* -- What the steps rest on ------------------------------------------------ *)

\* Sequences over the same positions have the same length.
LEMMA SameLength ==
    ASSUME NEW S, NEW T, NEW s \in Seq(S), NEW t \in Seq(T), DOMAIN s = DOMAIN t
    PROVE  Len(s) = Len(t)
<1>1. Len(s) \in Nat /\ Len(t) \in Nat /\ 1 .. Len(s) = 1 .. Len(t)
  BY LenProperties
<1>2. \A m, n \in Nat : 1 .. m = 1 .. n => m = n
  <2> TAKE m, n \in Nat
  <2> HAVE 1 .. m = 1 .. n
  <2>1. m # 0 => m \in 1 .. n
    OBVIOUS
  <2>2. n # 0 => n \in 1 .. m
    OBVIOUS
  <2> QED BY <2>1, <2>2
<1> QED
  BY <1>1, <1>2

\* Steps that leave what Grounds is about alone.
LEMMA GroundsQuiet ==
    ASSUME Grounds, UNCHANGED <<today, moved, opening, accounts, rows, review>>
    PROVE  Grounds'
BY DEF Grounds

\* Steps that add no row and move none.
LEMMA SameRowsGround ==
    ASSUME IInv, IInv', Grounds, Ids' = Ids,
           today' \in Nat, moved' \in Nat, UNCHANGED <<opening, accounts>>,
           review' = review \/ review' = None
    PROVE  Grounds'
<1>1. rows \in Seq(RowOrNone) /\ rows' \in Seq(RowOrNone) /\ DOMAIN rows = DOMAIN rows'
  BY DEF IInv, TableOK, Ids
<1>2. Len(rows') = Len(rows)
  BY <1>1, SameLength
<1>3. opening' \in [Accounts -> Int] /\ IsFiniteSet(accounts') /\ Len(rows') <= MaxRows
  BY <1>2 DEF Grounds
<1>4. review' # None => /\ review'.inputs \in Confirmations
                        /\ review'.token.confirm => review'.inputs[1] # "none"
  BY DEF Grounds
<1> QED
  BY <1>3, <1>4 DEF Grounds

LEMMA UpdateKeepsIds ==
    ASSUME NEW new, UpdateRows(new)
    PROVE  Ids' = Ids
BY DEF UpdateRows, Updated, Ids

\* A new row comes into a table that had room for it.
LEMMA InsertGround ==
    ASSUME IInv, Grounds, NEW a, NEW d, NEW x, NEW what, InsertRow(a, d, x, what),
           UNCHANGED <<today, moved, opening, accounts, review>>
    PROVE  Grounds'
<1>1. rows' = Append(rows, NewRow(a, d, x, what, revision + 1)) /\ Len(rows) < MaxRows
  BY DEF InsertRow
<1>2. rows \in Seq(RowOrNone)
  BY DEF IInv, TableOK
<1>3. Len(rows') = Len(rows) + 1 /\ Len(rows) \in Nat
  <2> DEFINE r == NewRow(a, d, x, what, revision + 1)
  <2> DEFINE S == RowOrNone \cup {r}
  <2>1. rows \in Seq(S) /\ r \in S /\ rows' = Append(rows, r)
    BY <1>1, <1>2
  <2> HIDE DEF r, S
  <2> QED BY <2>1, AppendProperties, LenProperties
<1>4. Len(rows') <= MaxRows
  BY <1>1, <1>3, LedgerAssumption DEF LedgerAssumption
<1> QED
  BY <1>4 DEF Grounds

LEMMA MoveGround ==
    ASSUME IInv, IInv', Grounds, NEW ids, NEW to, NEW inputs, ApplyMove(ids, to, inputs),
           UNCHANGED <<today, opening, accounts>>, review' = review \/ review' = None
    PROVE  Grounds'
<1>1. moved' = moved + 1 /\ \E new : UpdateRows(new)
  BY DEF ApplyMove
<1>2. Ids' = Ids
  BY <1>1, UpdateKeepsIds
<1>3. today' \in Nat /\ moved' \in Nat
  BY <1>1 DEF Grounds
<1> QED
  BY <1>2, <1>3, SameRowsGround

LEMMA ReviewGround ==
    ASSUME Grounds, NEW ids, NEW to, NEW inputs \in Confirmations, ReviewMove(ids, to, inputs)
    PROVE  Grounds'
<1>1. /\ review' = [ids |-> ids, to |-> to, inputs |-> inputs, token |-> Token(ids, to, inputs)]
      /\ CanCommit(ids, to, inputs)
      /\ UNCHANGED <<today, moved, opening, accounts, rows>>
  BY DEF ReviewMove, balanceVars
<1>2. Token(ids, to, inputs).confirm = NeedsBalances(ids, to)
  BY DEF Token
<1>3. NeedsBalances(ids, to) => inputs[1] # "none"
  BY <1>1 DEF CanCommit
<1>4. review'.inputs = inputs /\ review'.token = Token(ids, to, inputs)
  BY <1>1
<1>5. /\ review'.inputs \in Confirmations
      /\ review'.token.confirm => review'.inputs[1] # "none"
  BY <1>2, <1>3, <1>4
<1>6. Confirmations' = Confirmations
  BY DEF Confirmations
<1> QED
  BY <1>1, <1>5, <1>6 DEF Grounds

LEMMA BalanceStepGround == IInv /\ IInv' /\ Grounds /\ BalanceStep => Grounds'
<1> SUFFICES ASSUME IInv, IInv', Grounds, BalanceStep PROVE Grounds'
  OBVIOUS
<1>0. today \in Nat /\ moved \in Nat /\ opening \in [Accounts -> Int]
  BY DEF Grounds
<1>1. CASE RollForward
  BY <1>1, GroundsQuiet DEF RollForward, otherVars
<1>2. CASE NextDay
  <2>1. today' \in Nat /\ UNCHANGED <<moved, opening, accounts, rows, review>>
    BY <1>0, <1>2 DEF NextDay, balanceVars
  <2> QED BY <2>1 DEF Grounds
<1>3. ASSUME NEW a \in accounts, NEW b \in Typed, SetStartingBalance(a, b) PROVE Grounds'
  <2>1. /\ opening' = [opening EXCEPT ![a] = b]
        /\ UNCHANGED <<today, moved, accounts, rows, review>>
    BY <1>3 DEF SetStartingBalance, otherVars
  <2>2. b \in Int /\ opening' \in [Accounts -> Int]
    BY <1>0, <2>1, LedgerAssumption DEF LedgerAssumption
  <2> QED BY <2>1, <2>2 DEF Grounds
<1>4. ASSUME NEW a \in accounts, NEW b \in Typed, Override(a, b) PROVE Grounds'
  BY <1>4, GroundsQuiet DEF Override, otherVars
<1>5. ASSUME NEW ids, NEW to, NEW inputs \in Confirmations, ReviewMove(ids, to, inputs)
      PROVE  Grounds'
  BY <1>5, ReviewGround
<1>6. CASE CommitMove
  <2>1. UNCHANGED <<today, opening, accounts>> /\ review' = None
    BY <1>6 DEF CommitMove
  <2>2. CASE ApplyMove(review.ids, review.to, review.inputs)
    BY <2>1, <2>2, MoveGround
  <2>3. CASE UNCHANGED <<rows, moved>>
    <3>1. Ids' = Ids
      BY <2>3 DEF Ids
    <3> QED BY <1>0, <2>1, <2>3, <3>1, SameRowsGround
  <2> QED BY <1>6, <2>2, <2>3 DEF CommitMove
<1> QED
  BY <1>1, <1>2, <1>3, <1>4, <1>5, <1>6 DEF BalanceStep

LEMMA RowStepGround == IInv /\ IInv' /\ Grounds /\ RowStep => Grounds'
<1> SUFFICES ASSUME IInv, IInv', Grounds, RowStep PROVE Grounds'
  OBVIOUS
<1>1. ASSUME NEW a, NEW d, NEW x, CreateTransaction(a, d, x) PROVE Grounds'
  BY <1>1, InsertGround DEF CreateTransaction, balanceVars, otherVars
<1>2. ASSUME NEW new, UpdateRows(new), UNCHANGED <<accounts, opening, today, moved, review>>
      PROVE  Grounds'
  <2>1. Ids' = Ids /\ today' \in Nat /\ moved' \in Nat
    BY <1>2, UpdateKeepsIds DEF Grounds
  <2> QED BY <1>2, <2>1, SameRowsGround
<1>3. CASE \/ \E i \in Ids, x \in Amounts : UpdateAmount(i, x)
           \/ \E i \in Ids, d \in Days : UpdateDate(i, d)
           \/ \E i \in Ids : DeleteTransaction(i) \/ RestoreTransaction(i)
           \/ \E ids \in SUBSET Ids : FlipSigns(ids)
  <2>1. (\E new : UpdateRows(new)) /\ UNCHANGED <<accounts, opening, today, moved, review>>
    BY <1>3 DEF UpdateAmount, UpdateDate, DeleteTransaction, RestoreTransaction, SetLive,
                ChangeRow, FlipSigns, balanceVars, otherVars
  <2> QED BY <1>2, <2>1
<1>4. ASSUME NEW i, NEW to, MoveOne(i, to) PROVE Grounds'
  BY <1>4, MoveGround DEF MoveOne
<1> QED
  BY <1>1, <1>3, <1>4 DEF RowStep

LEMMA PairStepGround == IInv /\ IInv' /\ Grounds /\ PairStep => Grounds'
<1> SUFFICES ASSUME IInv, IInv', Grounds, PairStep PROVE Grounds'
  OBVIOUS
<1>0. today \in Nat /\ moved \in Nat
  BY DEF Grounds
<1>1. CASE \E a \in accounts : DeleteAccount(a)
  <2>1. PICK a \in accounts : DeleteAccount(a)
    BY <1>1
  <2>2. /\ accounts' = accounts \ {a} /\ Ids' = Ids
        /\ UNCHANGED <<today, moved, opening, review>>
    BY <2>1 DEF DeleteAccount, Ids
  <2>3. IsFiniteSet(accounts')
    <3>1. IsFiniteSet(accounts) /\ accounts' \in SUBSET accounts
      BY <2>2 DEF Grounds
    <3> QED BY <3>1, FS_Subset
  <2>4. Len(rows') = Len(rows)
    <3>1. rows \in Seq(RowOrNone) /\ rows' \in Seq(RowOrNone) /\ DOMAIN rows = DOMAIN rows'
      BY <2>2 DEF IInv, TableOK, Ids
    <3> QED BY <3>1, SameLength
  <2> QED BY <2>2, <2>3, <2>4 DEF Grounds
<1>2. ASSUME NEW i, NEW debt, NEW x, ApplyDebtPayment(i, debt, x) PROVE Grounds'
  BY <1>2, InsertGround DEF ApplyDebtPayment, balanceVars, otherVars
<1>3. ASSUME NEW p, UnapplyDebtPayment(p) PROVE Grounds'
  <2>1. Ids' = Ids
    BY <1>3 DEF UnapplyDebtPayment, Ids
  <2>2. UNCHANGED <<today, moved, opening, accounts, review>>
    BY <1>3 DEF UnapplyDebtPayment, balanceVars, otherVars
  <2> QED BY <1>0, <2>1, <2>2, SameRowsGround
<1>4. CASE \/ \E o, n \in Ids : LinkTransfer(o, n)
           \/ \E i \in Ids : UnlinkTransfer(i)
           \/ \E S : DismissCandidates(S) \/ RestoreCandidates(S)
           \/ AutoLink
           \/ \E l \in links : MarkReviewed(l)
  <2>1. UNCHANGED <<today, moved, opening, accounts, rows, review>>
    BY <1>4 DEF LinkTransfer, UnlinkTransfer, DismissCandidates, RestoreCandidates,
                AutoLink, MarkReviewed, balanceVars, otherVars
  <2> QED BY <2>1, GroundsQuiet
<1> QED
  BY <1>1, <1>2, <1>3, <1>4 DEF PairStep

LEMMA ReconcileStepGround == IInv /\ IInv' /\ Grounds /\ ReconcileStep => Grounds'
<1> SUFFICES ASSUME IInv, IInv', Grounds, ReconcileStep PROVE Grounds'
  OBVIOUS
<1>0. today \in Nat /\ moved \in Nat
  BY DEF Grounds
<1>1. ASSUME NEW i, NEW b, Tick(i, b) PROVE Grounds'
  <2>1. Ids' = Ids
    BY <1>1 DEF Tick, Ids
  <2>2. UNCHANGED <<today, moved, opening, accounts, review>>
    BY <1>1 DEF Tick, balanceVars, otherVars
  <2> QED BY <1>0, <2>1, <2>2, SameRowsGround
<1>2. ASSUME NEW a, NEW d, NEW b, FinishManual(a, d, b) PROVE Grounds'
  <2>1. Ids' = Ids
    BY <1>2 DEF FinishManual, Settle, Ids
  <2>2. UNCHANGED <<today, moved, opening, accounts, review>>
    BY <1>2 DEF FinishManual, balanceVars
  <2> QED BY <1>0, <2>1, <2>2, SameRowsGround
<1>3. ASSUME NEW a, NEW d, NEW lines, ReviewStatement(a, d, lines) PROVE Grounds'
  BY <1>3, GroundsQuiet DEF ReviewStatement, balanceVars
<1>4. ASSUME statement # None, NEW decide \in Decisions(statement.lines, Ids), NEW b, NEW checked,
             FinishStatement(decide, b, checked)
      PROVE  Grounds'
  <2> DEFINE a == statement.account
  <2> DEFINE table == WithStatement(statement, decide)
  <2>1. /\ a \in accounts /\ MatchedBy(decide) \subseteq Candidates(a, statement.day)
        /\ rows' = Settle(table, Ticked(a, table)) /\ Len(table) <= MaxRows
        /\ UNCHANGED <<today, moved, opening, accounts, review>>
    BY <1>4 DEF FinishStatement, balanceVars
  <2>2. \A i \in MatchedBy(decide) : Exists(i)
    BY <2>1 DEF Candidates, LiveRows, Live
  <2>3. table \in Seq(RowOrNone)
    BY <1>4, <2>1, <2>2, WithStatementFacts DEF IInv, TableOK
  <2> HIDE DEF table, a
  <2>4. rows' \in Seq(RowOrNone) /\ DOMAIN rows' = DOMAIN table
    BY <2>1, <2>3, SettleFacts DEF IInv
  <2>5. Len(rows') <= MaxRows
    BY <2>1, <2>3, <2>4, SameLength
  <2> QED BY <2>1, <2>5 DEF Grounds
<1> QED
  BY <1>1, <1>2, <1>3, <1>4 DEF ReconcileStep

\* Every step keeps Grounds.
LEMMA NextGround == IInv /\ IInv' /\ Grounds /\ [Next]_vars => Grounds'
<1> SUFFICES ASSUME IInv, IInv', Grounds, [Next]_vars PROVE Grounds'
  OBVIOUS
<1>1. CASE UNCHANGED vars
  BY <1>1, GroundsQuiet DEF vars
<1> QED
  BY <1>1, BalanceStepGround, RowStepGround, PairStepGround, ReconcileStepGround DEF Next

(* -- The first saved balances ---------------------------------------------- *)

LEMMA InitGround == Init => Grounds
<1> SUFFICES ASSUME Init PROVE Grounds
  OBVIOUS
<1>1. PICK table \in Tables : rows = Imported(table.rows) /\ accounts = table.accounts
  BY DEF Init
<1>2. /\ IsFiniteSet(accounts) /\ Len(table.rows) <= MaxRows
      /\ table.rows \in Seq([account : Accounts, day : Days, amount : Int])
  BY <1>1, TablesAssumption DEF TablesAssumption
<1>3. Len(rows) = Len(table.rows)
  <2>1. rows \in Seq(RowOrNone)
    BY InitHolds DEF IInv, TableOK
  <2>2. DOMAIN rows = DOMAIN table.rows
    BY <1>1 DEF Imported
  <2> QED BY <1>2, <2>1, <2>2, SameLength
<1>4. today \in Nat /\ moved \in Nat /\ opening \in [Accounts -> Int] /\ review = None
  BY DEF Init
<1> QED
  BY <1>2, <1>3, <1>4 DEF Grounds

\* The starting tables are sound books: every balance they begin with has no rows
\* behind it, or adds up.
LEMMA InitBooks == Init => Books
<1> SUFFICES ASSUME Init PROVE Books
  OBVIOUS
<1>1. PICK table \in Tables : resets = TypedBefore(table.typed) /\ accounts = table.accounts
                              /\ revision = Len(table.rows)
  BY DEF Init
<1> DEFINE typed == table.typed
<1> DEFINE v(c) == Version(c, resets[c], "manual", None, 0, "opaque", <<>>)
<1>2. /\ versions = [c \in DOMAIN resets |-> v(c)] /\ today = 1
  BY DEF Init
<1>3. /\ typed \in Seq([account : table.accounts, balance : Int])
      /\ table.accounts \subseteq Accounts
  BY TablesAssumption DEF TablesAssumption
<1>4. revision \in Int
  BY InitHolds DEF IInv, TableOK
<1>5. /\ Len(typed) \in Nat /\ DOMAIN typed = 1 .. Len(typed)
      /\ \A c \in DOMAIN typed : typed[c].account \in Accounts /\ typed[c].balance \in Int
  <2>1. Len(typed) \in Nat /\ DOMAIN typed = 1 .. Len(typed)
        /\ typed \in [1 .. Len(typed) -> [account : table.accounts, balance : Int]]
    BY <1>3, LenProperties
  <2> QED BY <1>3, <2>1
<1>6. <<"manual", 1, 0>> \in Seq(Int \cup {"month", "manual", "move"})
  BY ShortSeqs
<1>7. /\ resets = [c \in DOMAIN typed |->
                    [account |-> typed[c].account, period |-> <<"manual", 1, 0>>, cutoff |-> 0,
                     effective |-> 0, balance |-> typed[c].balance, version |-> c]]
      /\ DOMAIN resets = 1 .. Len(typed)
  BY <1>1, <1>5 DEF TypedBefore
<1> HIDE DEF typed
<1>8. \A c \in DOMAIN resets :
          /\ resets[c] \in SavedBalances /\ resets[c].version = c
          /\ resets[c].cutoff = 0 /\ resets[c].effective = 0
  <2> TAKE c \in DOMAIN resets
  <2> DEFINE x == typed[c].account
  <2> DEFINE b == typed[c].balance
  <2> DEFINE p == <<"manual", 1, 0>>
  <2>1. /\ resets[c] = [account |-> x, period |-> p, cutoff |-> 0, effective |-> 0, balance |-> b,
                        version |-> c]
        /\ x \in Accounts /\ b \in Int /\ p \in Seq(Int \cup {"month", "manual", "move"})
        /\ c \in Nat
    BY <1>5, <1>6, <1>7
  <2> HIDE DEF x, b, p
  <2> QED BY <2>1 DEF SavedBalances
<1>9. \A c \in DOMAIN resets : /\ v(c) \in SavedVersions /\ Opaque(v(c))
                               /\ Describes(v(c), c, resets[c])
                               /\ v(c).reset = c /\ v(c).account = resets[c].account
  <2> TAKE c \in DOMAIN resets
  <2>1. c \in Nat
    BY <1>7
  <2>2. resets[c] \in SavedBalances /\ -1 <= resets[c].cutoff
    BY <1>8
  <2> QED BY <1>4, <2>1, <2>2, AnchorVersion
<1> HIDE DEF v
<1>10. DOMAIN versions = DOMAIN resets /\ \A c \in DOMAIN resets : versions[c] = v(c)
  BY <1>2
<1>11. ResetsTyped /\ VersionsTyped
  <2>1. resets \in [1 .. Len(typed) -> SavedBalances \cup {None}]
        /\ versions \in [1 .. Len(typed) -> SavedVersions \cup {None}]
    <3>1. resets = [c \in 1 .. Len(typed) |-> resets[c]]
          /\ versions = [c \in 1 .. Len(typed) |-> versions[c]]
      BY <1>2, <1>7
    <3> QED BY <1>7, <1>8, <1>9, <1>10, <3>1
  <2> QED BY <1>5, <2>1, SeqDef DEF ResetsTyped, VersionsTyped
<1>12. Placed
  BY <1>2, <1>8 DEF Placed
<1>13. Chained
  <2> SUFFICES ASSUME NEW n \in DOMAIN versions
               PROVE  /\ versions[n].reset \in DOMAIN resets
                      /\ resets[versions[n].reset] # None
                      /\ resets[versions[n].reset].account = versions[n].account
                      /\ versions[n].parent < n
                      /\ LinkedUp(versions[n])
    BY DEF Chained
  <2>1. n \in DOMAIN resets /\ n \in 1 .. Len(typed) /\ versions[n] = v(n)
    BY <1>7, <1>10
  <2>2. /\ v(n).reset = n /\ v(n).account = resets[n].account /\ v(n).parent = 0
        /\ v(n).parentCutoff = -1 /\ v(n).cutoff = 0
    <3>1. v(n).parent = 0 /\ v(n).parentCutoff = -1
      BY DEF v, Version, Since
    <3> QED BY <1>8, <1>9, <2>1, <3>1 DEF Describes
  <2>3. resets[n] # None
    BY <1>8, <2>1, Something
  <2>4. LinkedUp(v(n))
    BY <2>2 DEF LinkedUp
  <2> QED BY <1>5, <2>1, <2>2, <2>3, <2>4
<1>14. Current
  <2> SUFFICES ASSUME NEW c \in DOMAIN resets, resets[c] # None
               PROVE  resets[c].version \in DOMAIN versions /\ V(c) # None
                      /\ Describes(V(c), c, resets[c])
    BY DEF Current
  <2>1. V(c) = v(c) /\ resets[c].version = c
    BY <1>8, <1>10 DEF V
  <2> QED BY <1>9, <1>10, <2>1, Something
<1>15. \A n \in DOMAIN versions : ~Trusted(versions[n])
  BY <1>9, <1>10 DEF Opaque
<1>16. Balanced
  BY <1>15 DEF Balanced
<1>17. Followed
  <2> SUFFICES ASSUME NEW c \in DOMAIN resets PROVE ~Trusted(V(c))
    BY DEF Followed
  <2>1. resets[c].version = c /\ c \in DOMAIN versions
    BY <1>8, <1>10
  <2> QED BY <1>15, <2>1 DEF V
<1> QED
  BY <1>11, <1>12, <1>13, <1>14, <1>16, <1>17 DEF Books

(* -- The theorem ------------------------------------------------------------ *)

\* In every reachable state a saved balance whose version is still relied on is the
\* balance it was built on plus the rows its version counted: no history of
\* roll-forwards, typed balances, moves, sign flips, edits and deletions leaves a
\* trusted figure that its own record contradicts (checkpoints.rs,
\* sign_flip.rs, historical_move.rs).
THEOREM SavedBalancesAlwaysHold == Spec => []SavedBalancesHold
<1> DEFINE Inv == IInv /\ today \in Int /\ Grounds /\ Books
<1>1. Init => Inv
  BY InitHolds, InitGround, InitBooks DEF Init
<1>2. Inv /\ [Next]_vars => Inv'
  <2>1. Inv /\ [Next]_vars => IInv' /\ today' \in Int
    BY NextKeeps, TodayKept
  <2>2. Inv /\ [Next]_vars => Grounds' /\ Books'
    BY <2>1, NextGround, NextBooks
  <2> QED BY <2>1, <2>2
<1>3. Inv => SavedBalancesHold
  BY BooksHold
<1> HIDE DEF Inv
<1> QED
  BY <1>1, <1>2, <1>3, PTL DEF Spec
==============================================================================
