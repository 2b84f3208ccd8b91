------------------------ MODULE LedgerHistory_proofs -------------------------
(* What the commands do to the balances a person sees, for every set of accounts, *)
(* amounts, starting tables and bounds: finished statements add up, the           *)
(* roll-forward changes no balance, a typed balance is the one shown, a move      *)
(* leaves what its review showed and, where it was corrected from the records,    *)
(* the history its rows would have made.                                          *)
EXTENDS LedgerBalances_proofs

(* -- Sums of sums ---------------------------------------------------------- *)

\* What disjoint sets amount to together is the sum of what each amounts to.
LEMMA SumOfParts ==
    ASSUME NEW K, IsFiniteSet(K), NEW part, NEW f, NEW g,
           \A k \in K : /\ IsFiniteSet(part[k]) /\ g[k] = Sum(f, part[k])
                        /\ \A x \in part[k] : f[x] \in Int,
           \A j, k \in K : j # k => part[j] \cap part[k] = {}
    PROVE  /\ IsFiniteSet(UNION {part[k] : k \in K})
           /\ Sum(f, UNION {part[k] : k \in K}) = Sum(g, K)
<1> DEFINE All(T) == UNION {part[k] : k \in T}
<1> DEFINE bad == {T \in SUBSET K : ~ (IsFiniteSet(All(T)) /\ Sum(f, All(T)) = Sum(g, T))}
<1> SUFFICES ASSUME bad # {} PROVE FALSE
  OBVIOUS
<1>1. bad \in SUBSET (SUBSET K)
  OBVIOUS
<1>2. \A T \in SUBSET K : T \in bad <=> ~ (IsFiniteSet(All(T)) /\ Sum(f, All(T)) = Sum(g, T))
  OBVIOUS
<1> HIDE DEF bad
<1>3. PICK T \in bad : \A U \in SUBSET T : U # T => U \notin bad
  BY <1>1, SmallestSubset
<1>4. T \in SUBSET K /\ IsFiniteSet(T)
  BY <1>1, <1>3, FS_Subset
<1>5. T # {}
  <2> SUFFICES ASSUME T = {} PROVE FALSE
    OBVIOUS
  <2>1. All(T) = {}
    OBVIOUS
  <2>2. IsFiniteSet(All(T)) /\ Sum(f, All(T)) = Sum(g, T)
    BY <2>1, FS_EmptySet, SumOfNone
  <2> QED BY <1>2, <1>3, <1>4, <2>2
<1>6. PICK e \in T : TRUE
  BY <1>5
<1> DEFINE U == T \ {e}
<1>7. U \in SUBSET T /\ U # T /\ IsFiniteSet(U) /\ U \in SUBSET K
  BY <1>4, <1>6, FS_Subset
<1>8. IsFiniteSet(All(U)) /\ Sum(f, All(U)) = Sum(g, U)
  BY <1>2, <1>3, <1>7
<1>9. All(T) = part[e] \cup All(U)
  BY <1>6
<1>10. part[e] \cap All(U) = {}
  BY <1>4, <1>6
<1>11. \A x \in part[e] \cup All(U) : f[x] \in Int
  BY <1>4, <1>6
<1>12. IsFiniteSet(part[e]) /\ g[e] = Sum(f, part[e])
  BY <1>4, <1>6
<1>13. Sum(g, T) = g[e] + Sum(g, U)
  <2>1. \A k \in T : g[k] \in Int
    <3> TAKE k \in T
    <3>1. IsFiniteSet(part[k]) /\ g[k] = Sum(f, part[k]) /\ \A x \in part[k] : f[x] \in Int
      BY <1>4
    <3> QED BY <3>1, SumInt
  <2> QED BY <1>4, <1>6, <2>1, SumTakeOut
<1> DEFINE A == All(U)
<1> DEFINE P == part[e]
<1> HIDE DEF U
<1>14. /\ IsFiniteSet(A) /\ Sum(f, A) = Sum(g, U) /\ All(T) = P \cup A
       /\ P \cap A = {} /\ \A x \in P \cup A : f[x] \in Int
       /\ IsFiniteSet(P) /\ g[e] = Sum(f, P)
  BY <1>8, <1>9, <1>10, <1>11, <1>12
<1>15. ~ (IsFiniteSet(All(T)) /\ Sum(f, All(T)) = Sum(g, T))
  BY <1>2, <1>3, <1>4
<1> HIDE DEF A, P, All
<1>16. IsFiniteSet(P \cup A) /\ Sum(f, P \cup A) = Sum(f, P) + Sum(f, A)
  <2>1. IsFiniteSet(P \cup A)
    BY <1>14, FS_Union
  <2>2. /\ IsFiniteSet(P) /\ IsFiniteSet(A) /\ P \cap A = {}
        /\ \A x \in P \cup A : f[x] \in Int
    BY <1>14
  <2>3. Sum(f, P \cup A) = Sum(f, P) + Sum(f, A)
    BY <2>2, SumOfUnion
  <2> QED BY <2>1, <2>3
<1> QED
  BY <1>13, <1>14, <1>15, <1>16

(* -- Finished reconciliations ---------------------------------------------- *)

RecordOK(r) ==
    /\ r.day \in Int
    /\ r.checked = None => r.start \in Int /\ r.end \in Int
    /\ IsFiniteSet(DOMAIN r.settles) /\ \A i \in DOMAIN r.settles : r.settles[i] \in Int
RecordsTyped == \A a \in Accounts : \A k \in Records(a) : RecordOK(recons[k])

Settlements == [k \in DOMAIN recons |-> SettledBy(k)]

\* The records are numbered.
LEMMA RecordsNumbered ==
    ASSUME TableOK, NEW a
    PROVE  /\ Len(recons) \in Nat /\ DOMAIN recons = 1 .. Len(recons)
           /\ \A S : S \subseteq Records(a) => S \subseteq 1 .. Len(recons) /\ IsFiniteSet(S)
<1>1. Len(recons) \in Nat /\ DOMAIN recons = 1 .. Len(recons)
  BY LenProperties DEF TableOK, IsSeq
<1>2. IsFiniteSet(1 .. Len(recons))
  BY <1>1, FS_Interval
<1>3. \A S : S \subseteq Records(a) => S \in SUBSET (1 .. Len(recons))
  BY <1>1 DEF Records
<1>4. \A S : S \subseteq Records(a) => IsFiniteSet(S)
  BY <1>2, <1>3, FS_Subset
<1> QED
  BY <1>1, <1>3, <1>4

\* What a record settled, as a sum over its rows.
LEMMA SettledByIs ==
    ASSUME RecordsTyped, NEW a \in Accounts, NEW k \in Records(a)
    PROVE  /\ SettledBy(k) = Sum(recons[k].settles, DOMAIN recons[k].settles)
           /\ SettledBy(k) \in Int /\ Settlements[k] = SettledBy(k)
<1>1. IsFiniteSet(DOMAIN recons[k].settles)
      /\ \A i \in DOMAIN recons[k].settles : recons[k].settles[i] \in Int
  BY DEF RecordsTyped, RecordOK
<1> DEFINE g == recons[k].settles
<1>2. SumFunction(g) = Sum(g, DOMAIN g)
  <2> HIDE DEF g
  <2> QED BY DEF SumFunction, SumFunctionOnSet, FoldFunction, Sum
<1>3. Sum(g, DOMAIN g) \in Int
  <2> HIDE DEF g
  <2> QED BY <1>1, SumInt DEF g
<1> QED
  BY <1>2, <1>3 DEF SettledBy, Settlements, Records

\* The account's sign distributes over a sum.
LEMMA ChangeFacts ==
    ASSUME NEW a, NEW x \in Int, NEW y \in Int
    PROVE  Change(a, x) \in Int /\ Change(a, x + y) = Change(a, x) + Change(a, y)
BY DEF Change

\* The record a statement starts from is the latest of that account in date order.
LEMMA LastRecordFacts ==
    ASSUME TableOK, RecordsTyped, NEW a \in Accounts, NEW d, BalanceRecords(a, d) # {}
    PROVE  /\ LastRecord(a, d) \in BalanceRecords(a, d)
           /\ \A n \in BalanceRecords(a, d) : n = LastRecord(a, d) \/ After(LastRecord(a, d), n)
<1> DEFINE S == BalanceRecords(a, d)
<1>1. IsFiniteSet(S) /\ S \subseteq Int
  <2>1. S \subseteq Records(a)
    BY DEF BalanceRecords
  <2> HIDE DEF S
  <2>2. S \subseteq 1 .. Len(recons) /\ IsFiniteSet(S) /\ Len(recons) \in Nat
    BY <2>1, RecordsNumbered
  <2> QED BY <2>2
<1>2. \A k \in S : k \in Int /\ recons[k].day \in Int
  BY <1>1 DEF BalanceRecords, RecordsTyped, RecordOK
<1> DEFINE R == {p \in S \X S : p[1] = p[2] \/ After(p[1], p[2])}
<1>3. \A x, y \in S : <<x, y>> \in R <=> x = y \/ After(x, y)
  OBVIOUS
<1> HIDE DEF R, S
<1>4. \A x, y \in S : <<x, y>> \in R \/ <<y, x>> \in R
  <2> TAKE x, y \in S
  <2>1. x \in Int /\ y \in Int /\ recons[x].day \in Int /\ recons[y].day \in Int
    BY <1>2
  <2> QED BY <1>3, <2>1 DEF After
<1>5. \A x, y, z \in S : <<x, y>> \in R /\ <<y, z>> \in R => <<x, z>> \in R
  <2> TAKE x, y, z \in S
  <2>1. x \in Int /\ y \in Int /\ z \in Int
        /\ recons[x].day \in Int /\ recons[y].day \in Int /\ recons[z].day \in Int
    BY <1>2
  <2> QED BY <1>3, <2>1 DEF After
<1>6. \E x \in S : \A y \in S : <<x, y>> \in R
  BY <1>1, <1>4, <1>5, GreatestExists DEF S
<1>7. \E x \in S : \A y \in S : y = x \/ After(x, y)
  BY <1>3, <1>6
<1> QED
  BY <1>7 DEF LastRecord, S

\* The rows settled after a record are finite and total to a number.
LEMMA SinceFacts ==
    ASSUME TableOK, NEW a, NEW n, NEW d
    PROVE  /\ SettledSince(a, n, d) \subseteq Ids /\ IsFiniteSet(SettledSince(a, n, d))
           /\ Total(SettledSince(a, n, d)) \in Int
           /\ Total(SettledSince(a, n, d)) = Sum(Worth(rows), SettledSince(a, n, d))
<1> DEFINE ids == SettledSince(a, n, d)
<1>1. ids \subseteq Ids /\ \A i \in ids : rows[i] # None
  BY DEF SettledSince, Exists
<1> HIDE DEF ids
<1>2. IsFiniteSet(ids) /\ Total(ids) = Sum(Worth(rows), ids) /\ Total(ids) \in Int
  BY <1>1, RowsTotal
<1> QED
  BY <1>1, <1>2 DEF ids

\* A statement's starting balance is a number.
LEMMA StartInt ==
    ASSUME TableOK, RecordsTyped, NEW a \in Accounts, NEW d, NEW typed \in Int
    PROVE  StartFrom(a, d, typed) \in Int
<1>1. CASE BalanceRecords(a, d) = {}
  BY <1>1 DEF StartFrom, StartingPoint
<1>2. CASE BalanceRecords(a, d) # {}
  <2> DEFINE n == LastRecord(a, d)
  <2>1. n \in BalanceRecords(a, d)
    BY <1>2, LastRecordFacts
  <2>2. recons[n].end \in Int
    BY <2>1 DEF BalanceRecords, RecordsTyped, RecordOK
  <2>3. ChangeOf(a, SettledSince(a, n, d)) \in Int
    <3> HIDE DEF n
    <3>1. Total(SettledSince(a, n, d)) \in Int
      BY SinceFacts
    <3> QED BY <3>1, ChangeFacts DEF ChangeOf
  <2>4. StartingPoint(a, d) = recons[n].end + ChangeOf(a, SettledSince(a, n, d))
    BY <1>2 DEF StartingPoint
  <2> HIDE DEF n
  <2> QED BY <2>2, <2>3, <2>4 DEF StartFrom
<1> QED
  BY <1>1, <1>2

\* When an account's records were finished in date order, later means higher number.
LEMMA OrderIsNumber ==
    ASSUME TableOK, RecordsTyped, NEW a \in Accounts, InOrder(a)
    PROVE  \A k, n \in Records(a) : After(k, n) <=> k > n
<1> TAKE k, n \in Records(a)
<1>1. k \in Int /\ n \in Int
  <2>1. Records(a) \subseteq 1 .. Len(recons)
    BY RecordsNumbered
  <2> QED BY <2>1
<1>2. recons[k].day \in Int /\ recons[n].day \in Int
  BY DEF RecordsTyped, RecordOK
<1>3. /\ k < n => recons[k].day <= recons[n].day
      /\ n < k => recons[n].day <= recons[k].day
  BY DEF InOrder
<1> QED
  BY <1>1, <1>2, <1>3 DEF After

\* What later share counts settled, as the rows are now, is what they settled.
LEMMA SinceSum ==
    ASSUME TableOK, SettledInv, RecordsTyped, NEW a \in Accounts, AsSettled(a), InOrder(a),
           NEW d, \A k \in Records(a) : recons[k].day <= d, NEW l \in Records(a),
           \A k \in Records(a) : k > l => recons[k].checked # None
    PROVE  Total(SettledSince(a, l, d)) = Sum(Settlements, {k \in Records(a) : k > l})
<1> DEFINE K == {k \in Records(a) : k > l}
<1> DEFINE part == [k \in K |-> DOMAIN recons[k].settles]
<1> DEFINE f == Worth(rows)
<1> DEFINE g == Settlements
<1>1. IsFiniteSet(K) /\ K \subseteq 1 .. Len(recons)
  <2>1. K \subseteq Records(a)
    OBVIOUS
  <2> HIDE DEF K
  <2> QED BY <2>1, RecordsNumbered
<1>2. \A k \in K : \A i \in part[k] :
          /\ Exists(i) /\ rows[i].settled = k
          /\ f[i] = recons[k].settles[i] /\ f[i] \in Int
  <2> TAKE k \in K
  <2> TAKE i \in part[k]
  <2>1. k \in Records(a) /\ i \in DOMAIN recons[k].settles /\ k \in DOMAIN recons
    BY DEF Records
  <2>2. Exists(i) /\ rows[i].amount = recons[k].settles[i]
    BY <2>1 DEF AsSettled
  <2>3. rows[i] = None \/ rows[i].settled = k
    BY <2>1 DEF SettledInv, RecordsListSettled
  <2>4. i \in DOMAIN rows /\ recons[k].settles[i] \in Int
    BY <2>1, <2>2 DEF Exists, Ids, RecordsTyped, RecordOK
  <2> QED BY <2>2, <2>3, <2>4 DEF Worth, Exists
<1>3. \A k \in K : IsFiniteSet(part[k]) /\ g[k] = Sum(f, part[k])
  <2> TAKE k \in K
  <2>1. k \in Records(a) /\ part[k] = DOMAIN recons[k].settles
    OBVIOUS
  <2> DEFINE s == recons[k].settles
  <2>2. IsFiniteSet(DOMAIN s) /\ g[k] = Sum(s, DOMAIN s)
    BY <2>1, SettledByIs DEF RecordsTyped, RecordOK
  <2>3. \A x \in DOMAIN s : s[x] = f[x]
    BY <1>2, <2>1
  <2> HIDE DEF s, f, g
  <2>4. Sum(s, DOMAIN s) = Sum(f, DOMAIN s)
    BY <2>2, <2>3, SumSame
  <2> QED BY <2>1, <2>2, <2>4 DEF s
<1>4. \A j, k \in K : j # k => part[j] \cap part[k] = {}
  BY DEF SettledInv, OneRecordPerRow, Records
<1>5. UNION {part[k] : k \in K} = SettledSince(a, l, d)
  <2>1. ASSUME NEW k \in K, NEW i \in part[k] PROVE i \in SettledSince(a, l, d)
    <3>1. Exists(i) /\ rows[i].settled = k /\ k # 0 /\ i \in Ids
      BY <1>1, <1>2 DEF Exists
    <3>2. k \in Records(a) /\ k > l /\ recons[k].checked # None /\ recons[k].day <= d
      OBVIOUS
    <3>3. After(k, l)
      BY <3>2, OrderIsNumber
    <3> QED BY <3>1, <3>2, <3>3 DEF SettledSince
  <2>2. ASSUME NEW i \in SettledSince(a, l, d) PROVE \E k \in K : i \in part[k]
    <3> DEFINE k == rows[i].settled
    <3>1. Exists(i) /\ k # 0 /\ k \in Records(a) /\ After(k, l) /\ i \in Ids
      BY DEF SettledSince
    <3>2. k > l
      BY <3>1, OrderIsNumber
    <3>3. i \in DOMAIN recons[k].settles
      BY <3>1 DEF SettledInv, ListedByRecord
    <3> HIDE DEF k
    <3> QED BY <3>1, <3>2, <3>3
  <2> QED BY <2>1, <2>2
<1> HIDE DEF K, part, f, g
<1>6. Sum(f, UNION {part[k] : k \in K}) = Sum(g, K)
  <2>1. \A k \in K : /\ IsFiniteSet(part[k]) /\ g[k] = Sum(f, part[k])
                     /\ \A x \in part[k] : f[x] \in Int
    BY <1>2, <1>3
  <2>2. IsFiniteSet(K)
    BY <1>1
  <2> QED BY <1>4, <2>1, <2>2, SumOfParts
<1>7. Total(SettledSince(a, l, d)) = Sum(f, SettledSince(a, l, d))
  BY SinceFacts DEF f
<1> QED
  BY <1>5, <1>6, <1>7 DEF K, g

\* The records of a since record j.
From(a, j) == {k \in Records(a) : k >= j}

\* A balance is started from what an earlier one leads to.
LEMMA StartChains ==
    ASSUME TableOK, SettledInv, RecordsTyped, EndingBalancesAddUp, NEW a \in Accounts,
           AsSettled(a), InOrder(a), \A k \in Records(a) : recons[k].asSettled,
           NEW d, \A k \in Records(a) : recons[k].day <= d, NEW typed \in Int,
           NEW j \in Records(a), recons[j].checked = None
    PROVE  StartFrom(a, d, typed)
           = recons[j].start + Change(a, Sum(Settlements, From(a, j)))
<1> DEFINE l == LastRecord(a, d)
<1> DEFINE K == {k \in Records(a) : k > l}
<1> DEFINE M == Records(a) \cap j .. l
<1>1. j \in BalanceRecords(a, d)
  BY DEF BalanceRecords
<1>2. /\ l \in BalanceRecords(a, d)
      /\ \A n \in BalanceRecords(a, d) : n = l \/ After(l, n)
  BY <1>1, LastRecordFacts
<1> HIDE DEF l
<1>3. l \in Records(a) /\ recons[l].checked = None
  BY <1>2 DEF BalanceRecords
<1>4. \A k \in Records(a) : k \in Int
  <2>1. Records(a) \subseteq 1 .. Len(recons)
    BY RecordsNumbered
  <2> QED BY <2>1
<1>5. \A n \in BalanceRecords(a, d) : n = l \/ l > n
  BY <1>2, <1>3, OrderIsNumber DEF BalanceRecords
<1>6. j <= l
  BY <1>1, <1>3, <1>4, <1>5
<1>7. \A k \in Records(a) : k > l => recons[k].checked # None
  <2> TAKE k \in Records(a)
  <2> SUFFICES ASSUME k > l, recons[k].checked = None PROVE FALSE
    OBVIOUS
  <2>1. k \in BalanceRecords(a, d)
    BY DEF BalanceRecords
  <2> QED BY <1>3, <1>4, <1>5, <2>1
<1>8. Total(SettledSince(a, l, d)) = Sum(Settlements, K)
  BY <1>3, <1>7, SinceSum
<1>9. /\ IsFiniteSet(K) /\ IsFiniteSet(M) /\ K \cap M = {}
      /\ M \cup K = From(a, j)
  <2>1. K \subseteq Records(a) /\ M \subseteq Records(a)
    OBVIOUS
  <2>2. IsFiniteSet(K) /\ IsFiniteSet(M)
    <3> HIDE DEF K, M
    <3> QED BY <2>1, RecordsNumbered
  <2>3. K \cap M = {}
    BY <1>3, <1>4
  <2>4. \A k \in Records(a) : k >= j <=> (k > l \/ k \in j .. l)
    BY <1>3, <1>4, <1>6
  <2> QED BY <2>2, <2>3, <2>4 DEF From
<1>10. \A k \in Records(a) : Settlements[k] \in Int /\ Settlements[k] = SettledBy(k)
  BY SettledByIs
<1>11. recons[l].end = recons[j].start
                       + Change(a, SumFunction([n \in M |-> SettledBy(n)]))
  BY <1>3, <1>6 DEF EndingBalancesAddUp
<1>12. [n \in M |-> SettledBy(n)] = [n \in M |-> Settlements[n]]
  BY <1>10
<1>13. SumFunction([n \in M |-> SettledBy(n)]) = Sum(Settlements, M)
  <2> HIDE DEF M
  <2> QED BY <1>9, <1>12, SumRestricted
<1>14. /\ Sum(Settlements, M) \in Int /\ Sum(Settlements, K) \in Int
       /\ Sum(Settlements, M \cup K) = Sum(Settlements, M) + Sum(Settlements, K)
  <2>1. \A k \in M \cup K : Settlements[k] \in Int
    BY <1>10
  <2> HIDE DEF M, K
  <2> QED BY <1>9, <2>1, SumInt, SumOfUnion
<1>15. StartFrom(a, d, typed) = recons[l].end + Change(a, Total(SettledSince(a, l, d)))
  <2>1. StartingPoint(a, d) = recons[l].end + Change(a, Total(SettledSince(a, l, d)))
    BY <1>1 DEF StartingPoint, ChangeOf, l
  <2>2. Total(SettledSince(a, l, d)) \in Int
    BY SinceFacts
  <2>3. recons[l].end \in Int
    BY <1>3 DEF RecordsTyped, RecordOK
  <2>4. StartingPoint(a, d) \in Int
    BY <2>1, <2>2, <2>3, ChangeFacts
  <2> QED BY <2>1, <2>4, LedgerAssumption DEF StartFrom, LedgerAssumption
<1> DEFINE x == Sum(Settlements, M)
<1> DEFINE y == Sum(Settlements, K)
<1>16. x \in Int /\ y \in Int /\ recons[j].start \in Int
  BY <1>14 DEF RecordsTyped, RecordOK
<1>17. /\ recons[l].end = recons[j].start + Change(a, x)
       /\ StartFrom(a, d, typed) = recons[l].end + Change(a, y)
       /\ Sum(Settlements, From(a, j)) = x + y
  <2>1. Sum(Settlements, From(a, j)) = Sum(Settlements, M \cup K)
    BY <1>9
  <2> QED BY <1>8, <1>11, <1>13, <1>14, <1>15, <2>1
<1> HIDE DEF x, y
<1>18. Change(a, x) \in Int /\ Change(a, y) \in Int /\ Change(a, x + y) = Change(a, x) + Change(a, y)
  BY <1>16, ChangeFacts
<1> QED
  BY <1>16, <1>17, <1>18

\* Finishing a statement appends one record and keeps the others.
LEMMA RecordAppended ==
    ASSUME TableOK, NEW r, recons' = Append(recons, r)
    PROVE  LET n == Len(recons) + 1
           IN  /\ n \in Nat /\ n \notin DOMAIN recons /\ DOMAIN recons' = DOMAIN recons \cup {n}
               /\ \A k \in DOMAIN recons : recons'[k] = recons[k] /\ k \in Nat /\ k < n
               /\ recons'[n] = r
<1>1. /\ recons \in Seq({recons[i] : i \in DOMAIN recons})
      /\ Len(recons) \in Nat /\ DOMAIN recons = 1 .. Len(recons)
  BY LenProperties DEF TableOK, IsSeq
<1> DEFINE R == {recons[i] : i \in DOMAIN recons} \cup {r}
<1>2. recons \in Seq(R) /\ r \in R
  BY <1>1, SeqMonotonic
<1> HIDE DEF R
<1>3. /\ Len(recons') = Len(recons) + 1 /\ recons' \in Seq(R)
      /\ \A k \in 1 .. Len(recons) : recons'[k] = recons[k]
      /\ recons'[Len(recons) + 1] = r
  BY <1>2, AppendProperties
<1>4. DOMAIN recons' = 1 .. Len(recons) + 1
  BY <1>3, LenProperties
<1> QED
  BY <1>1, <1>3, <1>4

\* A new record adds up: it starts where the latest one ended, or its rows are
\* counted once, because a settled row belongs to one record (SettledInv).
LEMMA FinishedAddUp ==
    ASSUME IInv, SettledInv, RecordsTyped, EndingBalancesAddUp, NEW a \in Accounts, NEW r,
           recons' = Append(recons, r), r.account = a, RecordOK(r),
           r.asSettled => AsSettled(a),
           NEW typed \in Int,
           r.checked = None => /\ r.start = StartFrom(a, r.day, typed)
                               /\ r.end = r.start + Change(a, SumFunction(r.settles))
    PROVE  RecordsTyped' /\ EndingBalancesAddUp'
<1>0. TableOK
  BY DEF IInv
<1>1. PICK n :
      /\ n \in Nat /\ n \notin DOMAIN recons /\ DOMAIN recons' = DOMAIN recons \cup {n}
      /\ \A k \in DOMAIN recons : recons'[k] = recons[k] /\ k \in Nat /\ k < n
      /\ recons'[n] = r
  <2> DEFINE n == Len(recons) + 1
  <2>1. /\ n \in Nat /\ n \notin DOMAIN recons /\ DOMAIN recons' = DOMAIN recons \cup {n}
        /\ \A k \in DOMAIN recons : recons'[k] = recons[k] /\ k \in Nat /\ k < n
        /\ recons'[n] = r
    BY <1>0, RecordAppended
  <2> HIDE DEF n
  <2> QED BY <2>1
<1>2. /\ \A b : b # a => Records(b)' = Records(b)
      /\ Records(a)' = Records(a) \cup {n}
      /\ \A b : \A k \in Records(b) : k \in DOMAIN recons
  BY <1>1 DEF Records
<1>3. RecordsTyped'
  <2> SUFFICES ASSUME NEW b \in Accounts, NEW k \in Records(b)' PROVE RecordOK(recons'[k])
    BY DEF RecordsTyped, RecordOK
  <2>1. CASE k = n
    BY <1>1, <2>1
  <2>2. CASE k # n
    <3>1. k \in Records(b) /\ recons'[k] = recons[k]
      BY <1>1, <1>2, <2>2
    <3> QED BY <3>1 DEF RecordsTyped
  <2> QED BY <2>1, <2>2
<1> DEFINE S == Settlements
<1> DEFINE T == [m \in DOMAIN recons' |-> SettledBy(m)']
<1>4. \A b \in Accounts : \A m \in Records(b) :
          T[m] = S[m] /\ S[m] \in Int /\ SettledBy(m) = S[m] /\ SettledBy(m)' = S[m]
  <2> TAKE b \in Accounts
  <2> TAKE m \in Records(b)
  <2>1. m \in DOMAIN recons /\ recons'[m] = recons[m] /\ m \in DOMAIN recons'
    BY <1>1, <1>2
  <2>2. SettledBy(m)' = SettledBy(m)
    BY <2>1 DEF SettledBy
  <2>3. SettledBy(m) \in Int /\ Settlements[m] = SettledBy(m)
    BY SettledByIs
  <2> QED BY <2>1, <2>2, <2>3
<1>5. T[n] = SumFunction(r.settles) /\ SumFunction(r.settles) \in Int
  <2>1. SettledBy(n)' = SumFunction(r.settles)
    BY <1>1 DEF SettledBy
  <2> DEFINE s == r.settles
  <2>2. IsFiniteSet(DOMAIN s) /\ \A i \in DOMAIN s : s[i] \in Int
    BY DEF RecordOK
  <2> HIDE DEF s
  <2>3. SumFunction(s) = Sum(s, DOMAIN s)
    BY DEF SumFunction, SumFunctionOnSet, FoldFunction, Sum
  <2>4. Sum(s, DOMAIN s) \in Int
    BY <2>2, SumInt
  <2>5. SumFunction(s) \in Int
    BY <2>3, <2>4
  <2> QED BY <1>1, <2>1, <2>5 DEF s
<1> DEFINE P == recons'
<1>6. ASSUME NEW b \in Accounts, NEW j \in Records(b)', NEW k \in Records(b)', j <= k,
             P[j].checked = None, P[k].checked = None,
             InOrder(b)', \A m \in Records(b)' : P[m].asSettled
      PROVE  P[k].end = P[j].start
               + Change(b, SumFunction([m \in Records(b)' \cap j .. k |-> SettledBy(m)']))
  <2> DEFINE M == Records(b)' \cap j .. k
  <2> DEFINE Q == SumFunction([m \in M |-> SettledBy(m)'])
  <2> SUFFICES P[k].end = P[j].start + Change(b, Q)
    OBVIOUS
  <2>1. j \in Nat /\ k \in Nat /\ j <= n /\ k <= n /\ \A m \in Records(b) : m \in Nat /\ m < n
    BY <1>1, <1>2
  <2>2. InOrder(b) /\ \A m \in Records(b) : recons[m].asSettled
    <3>1. \A m \in Records(b) : m \in Records(b)' /\ P[m] = recons[m]
      BY <1>1, <1>2
    <3>2. \A i, m \in Records(b)' : i < m => P[i].day <= P[m].day
      BY <1>6 DEF InOrder
    <3>3. InOrder(b)
      BY <3>1, <3>2 DEF InOrder
    <3> QED BY <1>6, <3>1, <3>3
  <2>3. CASE k # n
    <3>1. j \in Records(b) /\ k \in Records(b)
      BY <1>2, <1>6, <2>1, <2>3
    <3>2. P[j] = recons[j] /\ P[k] = recons[k]
      BY <1>1, <1>2, <3>1
    <3>3. M = Records(b) \cap j .. k
      BY <1>2, <2>1, <2>3
    <3>4. [m \in M |-> SettledBy(m)'] = [m \in Records(b) \cap j .. k |-> SettledBy(m)]
      BY <1>4, <3>3
    <3>5. recons[k].end = recons[j].start
              + Change(b, SumFunction([m \in Records(b) \cap j .. k |-> SettledBy(m)]))
      <4>1. j <= k /\ recons[j].checked = None /\ recons[k].checked = None
        BY <1>6, <3>2
      <4> HIDE DEF M, Q, P, S, T
      <4> QED BY <2>2, <3>1, <4>1 DEF EndingBalancesAddUp
    <3> QED BY <3>2, <3>4, <3>5
  <2>4. CASE k = n
    <3>1. b = a /\ P[k] = r /\ r.checked = None
      BY <1>1, <1>2, <1>6, <2>4
    <3>2. /\ r.start = StartFrom(a, r.day, typed) /\ r.start \in Int
          /\ r.end = r.start + Change(a, SumFunction(r.settles))
      BY <3>1 DEF RecordOK
    <3>3. /\ n \in M /\ M \ {n} \subseteq Records(a)
          /\ \A m \in M : m \in DOMAIN recons'
      BY <1>1, <1>2, <1>6, <2>1, <2>4, <3>1
    <3>4. IsFiniteSet(M \ {n})
      <4> HIDE DEF M
      <4> QED BY <1>0, <3>3, RecordsNumbered
    <3>5. IsFiniteSet(M)
      <4>1. M = (M \ {n}) \cup {n}
        BY <3>3
      <4> HIDE DEF M
      <4> QED BY <3>4, <4>1, FS_AddElement
    <3>6. \A m \in M : T[m] \in Int /\ SettledBy(m)' = T[m]
      BY <1>4, <1>5, <3>3
    <3>7. [m \in M |-> SettledBy(m)'] = [m \in M |-> T[m]]
      BY <3>6
    <3> HIDE DEF T, M
    <3>8. Q = Sum(T, M)
      BY <3>5, <3>7, SumRestricted
    <3> HIDE DEF Q
    <3>9. Sum(T, M) = T[n] + Sum(T, M \ {n})
      BY <3>3, <3>5, <3>6, SumTakeOut
    <3>10. CASE j = n
      <4>1. M = {n}
        BY <2>1, <2>4, <3>3, <3>10 DEF M
      <4>2. Sum(T, M) = T[n]
        BY <1>5, <4>1, SumOfOne
      <4>3. P[j] = r /\ Q = SumFunction(r.settles)
        BY <1>5, <2>4, <3>1, <3>8, <3>10, <4>2
      <4> QED BY <3>1, <3>2, <4>3
    <3>11. CASE j # n
      <4>1. j \in Records(a) /\ recons[j] = P[j]
        BY <1>1, <1>2, <1>6, <3>1, <3>11
      <4>2. AsSettled(a) /\ InOrder(a) /\ \A m \in Records(a) : recons[m].asSettled
        <5>1. n \in Records(a)' /\ P[n].asSettled
          BY <1>2, <1>6, <3>1
        <5> QED BY <1>1, <2>2, <3>1, <5>1
      <4>3. \A m \in Records(a) : recons[m].day <= r.day
        <5> TAKE m \in Records(a)
        <5>1. m \in Records(a)' /\ n \in Records(a)' /\ m < n /\ P[m] = recons[m]
          BY <1>1, <1>2
        <5> QED BY <1>1, <1>6, <3>1, <5>1 DEF InOrder
      <4>4. M \ {n} = From(a, j)
        BY <1>2, <2>1, <2>4, <3>1, <3>3 DEF M, From
      <4>5. StartFrom(a, r.day, typed)
            = recons[j].start + Change(a, Sum(S, From(a, j)))
        <5> DEFINE d == r.day
        <5>1. \A m \in Records(a) : recons[m].day <= d
          BY <4>3
        <5>2. j \in Records(a) /\ recons[j].checked = None
          BY <1>6, <4>1
        <5> HIDE DEF d, P, S
        <5>3. AsSettled(a) /\ InOrder(a)
          BY <4>2
        <5>4. \A m \in Records(a) : recons[m].asSettled
          BY <4>2
        <5>5. StartFrom(a, d, typed)
              = recons[j].start + Change(a, Sum(Settlements, From(a, j)))
          BY <1>0, <5>1, <5>2, <5>3, <5>4, StartChains
        <5> QED BY <5>5 DEF d, S
      <4>6. Sum(S, M \ {n}) = Sum(T, M \ {n}) /\ Sum(T, M \ {n}) \in Int
        <5>1. \A m \in M \ {n} : S[m] = T[m] /\ T[m] \in Int
          BY <1>4, <3>3
        <5> HIDE DEF S
        <5> QED BY <3>4, <5>1, SumSame, SumInt
      <4>7. recons[j].start \in Int
        BY <1>6, <4>1 DEF RecordsTyped, RecordOK
      <4> DEFINE x == Sum(T, M \ {n})
      <4> DEFINE y == T[n]
      <4>8. /\ P[k].end = (recons[j].start + Change(a, x)) + Change(a, y)
            /\ Q = y + x
            /\ x \in Int /\ y \in Int
        BY <1>5, <3>1, <3>2, <3>8, <3>9, <4>4, <4>5, <4>6
      <4> HIDE DEF x, y
      <4>9. Change(a, x) \in Int /\ Change(a, y) \in Int /\ Change(a, y + x) = Change(a, y) + Change(a, x)
        BY <4>8, ChangeFacts
      <4>10. Change(b, Q) = Change(a, y) + Change(a, x)
        BY <3>1, <4>8, <4>9
      <4>11. P[j].start = recons[j].start
        BY <4>1
      <4> HIDE DEF P
      <4> QED BY <4>7, <4>8, <4>9, <4>10, <4>11
    <3> QED BY <3>10, <3>11
  <2> QED BY <2>3, <2>4
<1>7. EndingBalancesAddUp'
  BY <1>6 DEF EndingBalancesAddUp
<1> QED
  BY <1>3, <1>7

\* A statement under review ends on a day.
StatementDated == statement # None => statement.day \in Int

\* Steps that finish nothing.
LEMMA RecordsKept ==
    ASSUME RecordsTyped, EndingBalancesAddUp, UNCHANGED recons
    PROVE  RecordsTyped' /\ EndingBalancesAddUp'
<1>1. RecordsTyped'
  BY DEF RecordsTyped, Records, RecordOK
<1>2. EndingBalancesAddUp'
  BY DEF EndingBalancesAddUp, Records, InOrder, SettledBy
<1> QED
  BY <1>1, <1>2

\* Deleting an account deletes its records, and no chain crosses accounts.
LEMMA DeletedAddUp ==
    ASSUME IInv, RecordsTyped, EndingBalancesAddUp, NEW a \in accounts, DeleteAccount(a)
    PROVE  RecordsTyped' /\ EndingBalancesAddUp'
<1>1. recons' = [k \in DOMAIN recons |-> IF k \in Records(a) THEN NoRecord ELSE recons[k]]
  BY DEF DeleteAccount
<1>2. None \notin Accounts
  BY LedgerAssumption DEF LedgerAssumption
<1>3. \A b \in Accounts : \A k \in Records(b)' : k \in Records(b) /\ recons'[k] = recons[k]
  <2> TAKE b \in Accounts
  <2> TAKE k \in Records(b)'
  <2>1. k \in DOMAIN recons /\ recons'[k].account = b
    BY <1>1 DEF Records
  <2>2. NoRecord.account # b
    BY <1>2 DEF NoRecord
  <2>3. recons'[k] = recons[k]
    BY <1>1, <2>1, <2>2
  <2> QED BY <2>1, <2>3 DEF Records
<1>4. \A b \in Accounts : Records(b)' # {} => Records(b)' = Records(b)
  <2> SUFFICES ASSUME NEW b \in Accounts, NEW m \in Records(b)', NEW k \in Records(b)
               PROVE  k \in Records(b)'
    BY <1>3
  <2>1. b # a
    <3>1. m \in Records(b) /\ recons'[m] = recons[m]
      BY <1>3
    <3>2. m \in Records(a) => recons'[m] = NoRecord
      BY <1>1 DEF Records
    <3>3. NoRecord.account # b
      BY <1>2 DEF NoRecord
    <3> QED BY <3>1, <3>2, <3>3 DEF Records
  <2>2. k \notin Records(a) /\ k \in DOMAIN recons /\ recons[k].account = b
    BY <2>1 DEF Records
  <2> QED BY <1>1, <2>2 DEF Records
<1>5. RecordsTyped'
  BY <1>3 DEF RecordsTyped, RecordOK
<1> DEFINE P == recons'
<1>6. ASSUME NEW b \in Accounts, NEW j \in Records(b)', NEW k \in Records(b)', j <= k,
             P[j].checked = None, P[k].checked = None,
             InOrder(b)', \A m \in Records(b)' : P[m].asSettled
      PROVE  P[k].end = P[j].start
               + Change(b, SumFunction([m \in Records(b)' \cap j .. k |-> SettledBy(m)']))
  <2>1. Records(b)' = Records(b)
    BY <1>4, <1>6
  <2>2. \A m \in Records(b) : P[m] = recons[m]
    BY <1>3, <2>1
  <2>3. InOrder(b) /\ \A m \in Records(b) : recons[m].asSettled
    <3>1. \A i, m \in Records(b)' : i < m => P[i].day <= P[m].day
      BY <1>6 DEF InOrder
    <3>2. InOrder(b)
      BY <2>1, <2>2, <3>1 DEF InOrder
    <3> QED BY <1>6, <2>1, <2>2, <3>2
  <2>4. \A m \in Records(b) : SettledBy(m)' = SettledBy(m)
    BY <2>2 DEF SettledBy
  <2>5. [m \in Records(b)' \cap j .. k |-> SettledBy(m)']
        = [m \in Records(b) \cap j .. k |-> SettledBy(m)]
    BY <2>1, <2>4
  <2>6. recons[k].end = recons[j].start
            + Change(b, SumFunction([m \in Records(b) \cap j .. k |-> SettledBy(m)]))
    BY <1>6, <2>1, <2>2, <2>3 DEF EndingBalancesAddUp
  <2> QED BY <2>1, <2>2, <2>5, <2>6
<1>7. EndingBalancesAddUp'
  BY <1>6 DEF EndingBalancesAddUp
<1> QED
  BY <1>5, <1>7

\* What a finished reconciliation settles are amounts of a table's rows.
LEMMA TickedAmounts ==
    ASSUME NEW table \in Seq(RowOrNone), NEW a
    PROVE  /\ IsFiniteSet(Ticked(a, table))
           /\ \A i \in Ticked(a, table) : table[i].amount \in Int
           /\ SumFunction([i \in Ticked(a, table) |-> table[i].amount]) \in Int
<1> DEFINE ids == Ticked(a, table)
<1>1. Len(table) \in Nat /\ DOMAIN table = 1 .. Len(table)
      /\ \A i \in DOMAIN table : table[i] \in RowOrNone
  BY LenProperties
<1>2. ids \in SUBSET (1 .. Len(table)) /\ \A i \in ids : table[i] # None
  BY <1>1 DEF Ticked
<1>3. IsFiniteSet(ids)
  <2>1. IsFiniteSet(1 .. Len(table))
    BY <1>1, FS_Interval
  <2> HIDE DEF ids
  <2> QED BY <1>2, <2>1, FS_Subset
<1>4. \A i \in ids : table[i].amount \in Int
  BY <1>1, <1>2 DEF RowOrNone, Transactions
<1>5. SumFunction([i \in ids |-> table[i].amount]) \in Int
  <2> DEFINE f == Worth(table)
  <2>1. \A i \in ids : f[i] = table[i].amount
    BY <1>1, <1>2 DEF Worth
  <2>2. [i \in ids |-> table[i].amount] = [i \in ids |-> f[i]]
    BY <2>1
  <2> HIDE DEF f, ids
  <2>3. SumFunction([i \in ids |-> f[i]]) = Sum(f, ids) /\ Sum(f, ids) \in Int
    BY <1>3, <1>4, <2>1, SumRestricted, SumInt
  <2> QED BY <2>2, <2>3
<1> QED
  BY <1>3, <1>4, <1>5

\* What a finished statement's record says.
LEMMA RecordFacts ==
    ASSUME NEW table \in Seq(RowOrNone), NEW a, NEW d \in Int, NEW start, NEW end, NEW checked,
           checked = None => start \in Int /\ end \in Int
    PROVE  LET r == Record(a, d, start, end, checked, Ticked(a, table), table)
           IN  /\ RecordOK(r) /\ r.account = a /\ r.day = d /\ r.start = start /\ r.end = end
               /\ r.checked = checked /\ (r.asSettled => AsSettled(a))
               /\ r.settles = [i \in Ticked(a, table) |-> table[i].amount]
<1> DEFINE ids == Ticked(a, table)
<1> DEFINE s == [i \in ids |-> table[i].amount]
<1> DEFINE r == Record(a, d, start, end, checked, ids, table)
<1>1. IsFiniteSet(ids) /\ \A i \in ids : table[i].amount \in Int
  BY TickedAmounts
<1>2. DOMAIN s = ids /\ \A i \in ids : s[i] \in Int
  BY <1>1
<1>3. /\ r.account = a /\ r.day = d /\ r.start = start /\ r.end = end /\ r.checked = checked
      /\ r.settles = s
  BY DEF Record
<1>4. r.asSettled = AsSettled(a)
  BY DEF Record
<1> HIDE DEF s, ids, r
<1>5. RecordOK(r)
  BY <1>1, <1>2, <1>3 DEF RecordOK
<1>6. r.asSettled => AsSettled(a)
  BY <1>4
<1> QED
  BY <1>3, <1>5, <1>6 DEF s, ids, r

\* An investment's record of settled shares states no balance.
LEMMA SharesFacts ==
    ASSUME NEW table \in Seq(RowOrNone), NEW a, NEW d \in Int, NEW checked, checked # None
    PROVE  LET r == Record(a, d, None, 0, checked, Ticked(a, table), table)
           IN  RecordOK(r) /\ r.account = a /\ r.checked = checked /\ (r.asSettled => AsSettled(a))
<1> DEFINE ids == Ticked(a, table)
<1> DEFINE s == [i \in ids |-> table[i].amount]
<1> DEFINE r == Record(a, d, None, 0, checked, ids, table)
<1>1. IsFiniteSet(ids) /\ \A i \in ids : table[i].amount \in Int
  BY TickedAmounts
<1>2. DOMAIN s = ids /\ \A i \in ids : s[i] \in Int
  BY <1>1
<1>3. r.account = a /\ r.day = d /\ r.checked = checked /\ r.settles = s
  BY DEF Record
<1>4. r.asSettled = AsSettled(a)
  BY DEF Record
<1> HIDE DEF s, ids, r
<1>5. RecordOK(r)
  BY <1>1, <1>2, <1>3 DEF RecordOK
<1>6. r.asSettled => AsSettled(a)
  BY <1>4
<1> QED
  BY <1>3, <1>5, <1>6 DEF s, ids, r

\* Finishing by hand (reconcile.rs) keeps the chain of records.
LEMMA FinishManualAddsUp ==
    ASSUME IInv, SettledInv, RecordsTyped, EndingBalancesAddUp,
           NEW a \in accounts, NEW d \in Ends, NEW b \in Typed, FinishManual(a, d, b)
    PROVE  RecordsTyped' /\ EndingBalancesAddUp'
<1> DEFINE ids == Ticked(a, rows)
<1> DEFINE start == StartFrom(a, d, b)
<1> DEFINE end == start + ChangeOf(a, ids)
<1> DEFINE r == Record(a, d, start, end, None, ids, rows)
<1>1. recons' = Append(recons, r)
  BY DEF FinishManual
<1>2. TableOK /\ rows \in Seq(RowOrNone) /\ a \in Accounts /\ d \in Int /\ b \in Int
  BY LedgerAssumption, TablesAssumption DEF IInv, TableOK, LedgerAssumption, TablesAssumption
<1>3. start \in Int
  BY <1>2, StartInt
<1>4. SumFunction([i \in ids |-> rows[i].amount]) \in Int
  BY <1>2, TickedAmounts
<1>5. end = start + Change(a, SumFunction([i \in ids |-> rows[i].amount]))
  BY DEF ChangeOf, Total
<1>6. end \in Int
  <2> DEFINE x == SumFunction([i \in ids |-> rows[i].amount])
  <2>1. x \in Int /\ end = start + Change(a, x)
    BY <1>4, <1>5
  <2> HIDE DEF x, end, start
  <2>2. Change(a, x) \in Int
    BY <2>1, ChangeFacts
  <2> QED BY <1>3, <2>1, <2>2
<1> HIDE DEF start, end
<1>7. /\ RecordOK(r) /\ r.account = a /\ r.day = d /\ r.start = start /\ r.end = end
      /\ r.checked = None /\ (r.asSettled => AsSettled(a))
      /\ r.settles = [i \in ids |-> rows[i].amount]
  BY <1>2, <1>3, <1>6, RecordFacts
<1> HIDE DEF r
<1>8. r.start = StartFrom(a, r.day, b) /\ r.end = r.start + Change(a, SumFunction(r.settles))
  BY <1>5, <1>7 DEF start
<1>9. RecordOK(r) /\ r.account = a /\ (r.asSettled => AsSettled(a))
  BY <1>7
<1>10. IInv /\ SettledInv /\ RecordsTyped /\ EndingBalancesAddUp /\ a \in Accounts /\ b \in Int
  BY <1>2
<1> QED
  BY <1>1, <1>8, <1>9, <1>10, FinishedAddUp

\* So does finishing an imported statement.
LEMMA FinishStatementAddsUp ==
    ASSUME IInv, SettledInv, RecordsTyped, EndingBalancesAddUp, StatementDated,
           statement # None, NEW decide \in Decisions(statement.lines, Ids), NEW b \in Typed,
           NEW checked \in BOOLEAN, FinishStatement(decide, b, checked)
    PROVE  RecordsTyped' /\ EndingBalancesAddUp'
<1> DEFINE a == statement.account
<1> DEFINE d == statement.day
<1> DEFINE table == WithStatement(statement, decide)
<1> DEFINE ids == Ticked(a, table)
<1> DEFINE x == SumFunction([i \in ids |-> table[i].amount])
<1> DEFINE start == StartFrom(a, d, b)
<1> DEFINE end == start + Change(a, x)
<1> DEFINE shares == Record(a, d, None, 0, checked, ids, table)
<1> DEFINE money == Record(a, d, start, end, None, ids, table)
<1>1. /\ a \in accounts /\ MatchedBy(decide) \subseteq Candidates(a, d)
      /\ recons' = Append(recons, IF Kind[a] = "investment" THEN shares ELSE money)
  BY DEF FinishStatement
<1>2. TableOK /\ a \in Accounts /\ d \in Int /\ b \in Int
  BY <1>1, LedgerAssumption DEF IInv, TableOK, LedgerAssumption, StatementDated
<1>3. table \in Seq(RowOrNone)
  <2>1. \A i \in MatchedBy(decide) : Exists(i)
    BY <1>1 DEF Candidates, LiveRows, Live
  <2> QED BY <1>2, <2>1, WithStatementFacts
<1> HIDE DEF a, d, table
<1>4. x \in Int
  BY <1>3, TickedAmounts
<1>5. start \in Int
  BY <1>2, StartInt
<1>6. checked # None
  BY LedgerAssumption DEF LedgerAssumption
<1> HIDE DEF x, start
<1>7. end \in Int
  BY <1>4, <1>5, ChangeFacts
<1> HIDE DEF end
<1>8. CASE Kind[a] = "investment"
  <2> DEFINE r == shares
  <2>1. /\ RecordOK(r) /\ r.account = a /\ r.checked = checked /\ (r.asSettled => AsSettled(a))
    BY <1>2, <1>3, <1>6, SharesFacts
  <2>2. recons' = Append(recons, r)
    BY <1>1, <1>8
  <2> HIDE DEF r
  <2> QED BY <1>2, <1>6, <2>1, <2>2, FinishedAddUp
<1>9. CASE Kind[a] # "investment"
  <2> DEFINE r == money
  <2>1. /\ RecordOK(r) /\ r.account = a /\ r.day = d /\ r.start = start /\ r.end = end
        /\ r.checked = None /\ (r.asSettled => AsSettled(a))
        /\ r.settles = [i \in ids |-> table[i].amount]
    BY <1>2, <1>3, <1>5, <1>7, RecordFacts
  <2>2. recons' = Append(recons, r)
    BY <1>1, <1>9
  <2> HIDE DEF r
  <2>3. r.start = StartFrom(a, r.day, b) /\ r.end = r.start + Change(a, SumFunction(r.settles))
    BY <2>1 DEF start, end, x
  <2>4. RecordOK(r) /\ r.account = a /\ (r.asSettled => AsSettled(a))
    BY <2>1
  <2>5. IInv /\ SettledInv /\ RecordsTyped /\ EndingBalancesAddUp /\ a \in Accounts /\ b \in Int
    BY <1>2
  <2> QED BY <2>2, <2>3, <2>4, <2>5, FinishedAddUp
<1> QED
  BY <1>8, <1>9

\* Every step keeps the chain.
LEMMA NextAddsUp ==
    IInv /\ SettledInv /\ RecordsTyped /\ EndingBalancesAddUp /\ StatementDated /\ [Next]_vars
    => RecordsTyped' /\ EndingBalancesAddUp' /\ StatementDated'
<1> SUFFICES ASSUME IInv, SettledInv, RecordsTyped, EndingBalancesAddUp, StatementDated,
                    [Next]_vars
             PROVE  RecordsTyped' /\ EndingBalancesAddUp' /\ StatementDated'
  OBVIOUS
<1>0. ASSUME UNCHANGED <<recons, statement>>
      PROVE  RecordsTyped' /\ EndingBalancesAddUp' /\ StatementDated'
  BY <1>0, RecordsKept DEF StatementDated
<1>1. CASE UNCHANGED vars
  BY <1>0, <1>1 DEF vars
<1>2. CASE BalanceStep
  <2>1. UNCHANGED <<recons, statement>>
    BY <1>2 DEF BalanceStep, RollForward, NextDay, SetStartingBalance, Override, ReviewMove,
                CommitMove, otherVars
  <2> QED BY <1>0, <2>1
<1>3. CASE RowStep
  <2>1. UNCHANGED <<recons, statement>>
    BY <1>3 DEF RowStep, CreateTransaction, UpdateAmount, UpdateDate, DeleteTransaction,
                RestoreTransaction, SetLive, ChangeRow, FlipSigns, MoveOne, otherVars
  <2> QED BY <1>0, <2>1
<1>4. CASE PairStep
  <2>1. CASE \E a \in accounts : DeleteAccount(a)
    <3>1. UNCHANGED statement
      BY <2>1 DEF DeleteAccount
    <3> QED BY <2>1, <3>1, DeletedAddUp DEF StatementDated
  <2>2. CASE ~ \E a \in accounts : DeleteAccount(a)
    <3>1. UNCHANGED <<recons, statement>>
      BY <1>4, <2>2 DEF PairStep, LinkTransfer, UnlinkTransfer, DismissCandidates,
                        RestoreCandidates, AutoLink, MarkReviewed, ApplyDebtPayment,
                        UnapplyDebtPayment, otherVars
    <3> QED BY <1>0, <3>1
  <2> QED BY <2>1, <2>2
<1>5. CASE \E i \in Ids, b \in BOOLEAN : Tick(i, b)
  <2>1. UNCHANGED <<recons, statement>>
    BY <1>5 DEF Tick, otherVars
  <2> QED BY <1>0, <2>1
<1>6. ASSUME NEW a, NEW d \in Ends, NEW b \in Typed, FinishManual(a, d, b)
      PROVE  RecordsTyped' /\ EndingBalancesAddUp' /\ StatementDated'
  <2>1. UNCHANGED statement /\ a \in accounts
    BY <1>6 DEF FinishManual
  <2> QED BY <1>6, <2>1, FinishManualAddsUp DEF StatementDated
<1>7. ASSUME NEW a, NEW d \in Ends, NEW lines, ReviewStatement(a, d, lines)
      PROVE  RecordsTyped' /\ EndingBalancesAddUp' /\ StatementDated'
  <2>1. UNCHANGED recons /\ statement'.day = d
    BY <1>7 DEF ReviewStatement
  <2>2. d \in Int
    BY TablesAssumption DEF TablesAssumption
  <2> QED BY <2>1, <2>2, RecordsKept DEF StatementDated
<1>8. ASSUME statement # None, NEW decide \in Decisions(statement.lines, Ids), NEW b \in Typed,
             NEW checked \in BOOLEAN, FinishStatement(decide, b, checked)
      PROVE  RecordsTyped' /\ EndingBalancesAddUp' /\ StatementDated'
  <2>1. statement' = None
    BY <1>8 DEF FinishStatement
  <2> QED BY <1>8, <2>1, FinishStatementAddsUp DEF StatementDated
<1> QED
  BY <1>1, <1>2, <1>3, <1>4, <1>5, <1>6, <1>7, <1>8 DEF Next, ReconcileStep

\* In every reachable state the records of an account that were finished in date
\* order, from rows as they were settled, add up: each one's ending balance is an
\* earlier one's start and everything settled from there on, each row once
\* (reconcile_status in reconcile.rs takes a statement's start from the record before
\* it; finish_reconciliation adds the rows it settles).
THEOREM StatementsAddUp == Spec => []EndingBalancesAddUp
<1> DEFINE Inv == /\ IInv /\ today \in Int /\ SettledInv
                  /\ RecordsTyped /\ EndingBalancesAddUp /\ StatementDated
<1>1. Init => Inv
  <2> SUFFICES ASSUME Init PROVE RecordsTyped /\ EndingBalancesAddUp /\ StatementDated
    BY InitHolds, InitUnsettled DEF Init
  <2>1. \A a : Records(a) = {}
    BY DEF Init, Records
  <2> QED BY <2>1 DEF Init, RecordsTyped, EndingBalancesAddUp, StatementDated
<1>2. Inv /\ [Next]_vars => Inv'
  BY NextKeeps, TodayKept, NextKeepsMarks, NextAddsUp
<1>3. Inv => EndingBalancesAddUp
  OBVIOUS
<1> HIDE DEF Inv
<1> QED
  BY <1>1, <1>2, <1>3, PTL DEF Spec

(* -- What a balance is made of ---------------------------------------------- *)

\* The rows of two intervals in a row are those of the whole interval.
LEMMA IntervalSplit ==
    ASSUME TableOK, NEW a, NEW l \in Int, NEW m \in Int, NEW n \in Int, l <= m, m <= n
    PROVE  Total(IntervalRows(a, l, n)) = Total(IntervalRows(a, l, m)) + Total(IntervalRows(a, m, n))
<1> DEFINE S == IntervalRows(a, l, m)
<1> DEFINE T == IntervalRows(a, m, n)
<1>1. S \subseteq Ids /\ T \subseteq Ids /\ \A i \in S \cup T : rows[i] # None
  BY DEF IntervalRows, LiveRows, Live, Exists
<1>2. \A i : Live(i) => rows[i].day \in Int
  BY RowFacts DEF Live, Transactions
<1>3. S \cap T = {}
  BY <1>2 DEF IntervalRows, LiveRows
<1>4. IntervalRows(a, l, n) = S \cup T
  BY <1>2 DEF IntervalRows, LiveRows
<1> HIDE DEF S, T
<1>5. IsFiniteSet(S) /\ IsFiniteSet(T) /\ Total(S) = Sum(Worth(rows), S)
      /\ Total(T) = Sum(Worth(rows), T)
      /\ \A i \in S \cup T : Worth(rows)[i] \in Int
  BY <1>1, RowsTotal
<1>6. Sum(Worth(rows), S \cup T) = Sum(Worth(rows), S) + Sum(Worth(rows), T)
  BY <1>3, <1>5, SumOfUnion
<1>7. Total(S \cup T) = Sum(Worth(rows), S \cup T)
  <2>1. S \cup T \subseteq Ids /\ \A i \in S \cup T : rows[i] # None
    BY <1>1
  <2> QED BY <2>1, RowsTotal
<1> QED
  BY <1>4, <1>5, <1>6, <1>7 DEF S, T

\* A set made a sequence leaves nothing out.
LEMMA NothingLeftOut ==
    ASSUME NEW S, IsFiniteSet(S)
    PROVE  \A x \in S : \E n \in 1 .. Cardinality(S) : SetToSeq(S)[n] = x
<1> DEFINE k == Cardinality(S)
<1> DEFINE f == SetToSeq(S)
<1>1. k \in Nat /\ f \in [1 .. k -> S] /\ DOMAIN f = 1 .. k
      /\ \A m, n \in 1 .. k : f[m] = f[n] => m = n
  BY SequenceOfSet
<1>2. IsFiniteSet(1 .. k) /\ Cardinality(1 .. k) = k
  BY <1>1, FS_Interval
<1>3. Cardinality(1 .. k) = Cardinality(S)
  BY <1>2 DEF k
<1> HIDE DEF f, k
<1>4. f \in Injection(1 .. k, S)
  BY <1>1 DEF Injection, IsInjective
<1>5. f \in Surjection(1 .. k, S)
  BY <1>3, <1>4, FS_Injection
<1> QED
  BY <1>5 DEF Surjection, f, k

\* A saved balance more for some of the accounts: no other changes.
Gained(a, k, R) ==
    /\ Len(resets) \in Nat
    /\ \A c \in Checkpoints(a) : c \in Checkpoints(a)' /\ resets'[c] = resets[c]
                                 /\ c \in 1 .. Len(resets)
    /\ \A c \in Checkpoints(a)' :
         \/ c \in Checkpoints(a)
         \/ \E n \in 1 .. k : c = Len(resets) + n /\ R[n].account = a
    /\ \A n \in 1 .. k : R[n].account = a =>
         /\ Len(resets) + n \in Checkpoints(a)' /\ resets'[Len(resets) + n] = R[n]
         /\ Checkpoints(a)' = Checkpoints(a) \cup {Len(resets) + n}
\* When every account gets at most one new balance, what is in force before it is
\* what was in force.
LEMMA OneMoreEach ==
    ASSUME ResetsTyped, NEW k \in Nat, NEW R \in [1 .. k -> SavedBalances],
           \A m, n \in 1 .. k : R[m].account = R[n].account => m = n,
           resets' = resets \o R, NEW a
    PROVE  Gained(a, k, R)
<1>1. Len(resets) \in Nat /\ DOMAIN resets = 1 .. Len(resets)
  BY ResetsAre DEF ResetFacts
<1>2. /\ DOMAIN resets' = 1 .. Len(resets) + k
      /\ \A i \in 1 .. Len(resets) : resets'[i] = resets[i]
      /\ \A n \in 1 .. k : resets'[Len(resets) + n] = R[n] /\ R[n] # None
  <2>1. R \in [1 .. k -> SavedBalances \cup {None}]
    OBVIOUS
  <2>2. /\ DOMAIN resets' = 1 .. Len(resets) + k
        /\ \A i \in 1 .. Len(resets) : resets'[i] = resets[i]
        /\ \A n \in 1 .. k : resets'[Len(resets) + n] = R[n]
    BY <2>1, Joined DEF ResetsTyped
  <2> QED BY <2>2, Something
<1>3. \A c \in Checkpoints(a) : c \in Checkpoints(a)' /\ resets'[c] = resets[c]
                                /\ c \in 1 .. Len(resets)
  BY <1>1, <1>2 DEF Checkpoints
<1>4. \A c \in Checkpoints(a)' : \/ c \in Checkpoints(a)
                                 \/ \E n \in 1 .. k : c = Len(resets) + n /\ R[n].account = a
  <2> TAKE c \in Checkpoints(a)'
  <2>1. c \in 1 .. Len(resets) + k /\ resets'[c] # None /\ resets'[c].account = a
    BY <1>2 DEF Checkpoints
  <2>2. CASE c \in 1 .. Len(resets)
    BY <1>1, <1>2, <2>1, <2>2 DEF Checkpoints
  <2>3. CASE c \notin 1 .. Len(resets)
    <3>1. c - Len(resets) \in 1 .. k /\ c = Len(resets) + (c - Len(resets))
      BY <1>1, <2>1, <2>3
    <3>2. PICK n \in 1 .. k : c = Len(resets) + n
      BY <3>1
    <3> QED BY <1>2, <2>1, <3>2
  <2> QED BY <2>2, <2>3
<1>5. ASSUME NEW n \in 1 .. k, R[n].account = a
      PROVE  /\ Len(resets) + n \in Checkpoints(a)' /\ resets'[Len(resets) + n] = R[n]
             /\ Checkpoints(a)' = Checkpoints(a) \cup {Len(resets) + n}
  <2>1. Len(resets) + n \in Checkpoints(a)' /\ resets'[Len(resets) + n] = R[n]
    BY <1>1, <1>2, <1>5 DEF Checkpoints
  <2>2. \A m \in 1 .. k : R[m].account = a => m = n
    BY <1>5
  <2>3. \A c \in Checkpoints(a)' : c \in Checkpoints(a) \/ c = Len(resets) + n
    BY <1>4, <2>2
  <2>4. \A c \in Checkpoints(a) : c \in Checkpoints(a)'
    BY <1>3
  <2> QED BY <2>1, <2>3, <2>4
<1> QED
  BY <1>1, <1>3, <1>4, <1>5 DEF Gained

\* What a roll-forward adds.
RolledRow(r) ==
    /\ r.account \in Unrolled /\ r.period = <<"month", Month(today)>>
    /\ r.cutoff = today - 1 /\ r.effective = today - 1
    /\ r.balance = BalanceAsOf(r.account, today - 1)
\* The roll-forward's new balances, one per account that has none for the month, each
\* with the figure shown the day before.
LEMMA RolledRows ==
    ASSUME IInv, Grounds, Books, RollForward
    PROVE  \E k \in Nat : \E R \in [1 .. k -> SavedBalances] :
              /\ resets' = resets \o R
              /\ \A m, n \in 1 .. k : R[m].account = R[n].account => m = n
              /\ \A n \in 1 .. k : RolledRow(R[n])
              /\ \A b \in Unrolled : \E n \in 1 .. k : R[n].account = b
<1> DEFINE k == Cardinality(Unrolled)
<1> DEFINE R == [n \in DOMAIN RollOrder |-> MonthlyRow(RollOrder[n], n)]
<1>1. IsFiniteSet(Unrolled)
  <2>1. Unrolled \in SUBSET accounts /\ IsFiniteSet(accounts)
    BY DEF Unrolled, Grounds
  <2> QED BY <2>1, FS_Subset
<1>2. /\ k \in Nat /\ RollOrder \in [1 .. k -> Unrolled] /\ DOMAIN RollOrder = 1 .. k
      /\ \A m, n \in 1 .. k : RollOrder[m] = RollOrder[n] => m = n
      /\ \A b \in Unrolled : \E n \in 1 .. k : RollOrder[n] = b
  BY <1>1, SequenceOfSet, NothingLeftOut DEF RollOrder
<1>3. ASSUME NEW n \in 1 .. k
      PROVE  /\ R[n] \in SavedBalances /\ R[n].account = RollOrder[n] /\ RolledRow(R[n])
  <2>1. R[n] = MonthlyRow(RollOrder[n], n)
    BY <1>2
  <2>2. RollOrder[n] \in Unrolled /\ RollOrder[n] \in accounts /\ n \in Nat
    <3>1. k \in Nat /\ RollOrder \in [1 .. k -> Unrolled]
      BY <1>2
    <3> HIDE DEF k
    <3>2. RollOrder[n] \in Unrolled /\ n \in Nat
      BY <3>1
    <3> QED BY <3>2 DEF Unrolled
  <2> HIDE DEF R, k
  <2>3. MonthlyRow(RollOrder[n], n) \in SavedBalances
    BY <2>2, MonthlyFacts
  <2> QED BY <2>1, <2>2, <2>3 DEF MonthlyRow, RolledRow
<1>4. DOMAIN R = 1 .. k /\ R = [n \in 1 .. k |-> R[n]]
  BY <1>2
<1>5. resets' = resets \o R
  BY DEF RollForward
<1> HIDE DEF R, k
<1>6. R \in [1 .. k -> SavedBalances]
  BY <1>3, <1>4
<1>7. \A m, n \in 1 .. k : R[m].account = R[n].account => m = n
  BY <1>2, <1>3
<1>8. \A b \in Unrolled : \E n \in 1 .. k : R[n].account = b
  BY <1>2, <1>3
<1>9. k \in Nat
  BY <1>2
<1>10. \A n \in 1 .. k : RolledRow(R[n])
  BY <1>3
<1> QED
  BY <1>5, <1>6, <1>7, <1>8, <1>9, <1>10

\* The saved balances of an account after a roll-forward: those it had, and one new
\* one if it had none of this month.
LEMMA RolledCheckpoints ==
    ASSUME IInv, Grounds, Books, RollForward, NEW a \in accounts
    PROVE  /\ \A c \in Checkpoints(a) : c \in Checkpoints(a)' /\ resets'[c] = resets[c]
                                        /\ c \in 1 .. Len(resets)
           /\ \A c \in Checkpoints(a)' : c \in Checkpoints(a) \/ (a \in Unrolled /\ c > Len(resets))
           /\ a \in Unrolled =>
                \E c \in Checkpoints(a)' :
                    /\ c \in Nat /\ c > Len(resets)
                    /\ resets'[c].cutoff = today - 1 /\ resets'[c].effective = today - 1
                    /\ resets'[c].balance = BalanceAsOf(a, today - 1)
                    /\ Checkpoints(a)' = Checkpoints(a) \cup {c}
<1>0. PICK k \in Nat : \E R \in [1 .. k -> SavedBalances] :
          /\ resets' = resets \o R
          /\ \A m, n \in 1 .. k : R[m].account = R[n].account => m = n
          /\ \A n \in 1 .. k : RolledRow(R[n])
          /\ \A b \in Unrolled : \E n \in 1 .. k : R[n].account = b
  BY RolledRows
<1>1. PICK R \in [1 .. k -> SavedBalances] :
          /\ resets' = resets \o R
          /\ \A m, n \in 1 .. k : R[m].account = R[n].account => m = n
          /\ \A n \in 1 .. k : RolledRow(R[n])
          /\ \A b \in Unrolled : \E n \in 1 .. k : R[n].account = b
  BY <1>0
<1>2. ResetsTyped
  BY DEF Books
<1>3. /\ Len(resets) \in Nat
      /\ \A c \in Checkpoints(a) : c \in Checkpoints(a)' /\ resets'[c] = resets[c]
                                   /\ c \in 1 .. Len(resets)
      /\ \A c \in Checkpoints(a)' :
           \/ c \in Checkpoints(a)
           \/ \E n \in 1 .. k : c = Len(resets) + n /\ R[n].account = a
      /\ \A n \in 1 .. k : R[n].account = a =>
           /\ Len(resets) + n \in Checkpoints(a)' /\ resets'[Len(resets) + n] = R[n]
           /\ Checkpoints(a)' = Checkpoints(a) \cup {Len(resets) + n}
  <2>1. /\ \A m, n \in 1 .. k : R[m].account = R[n].account => m = n
        /\ resets' = resets \o R
    BY <1>1
  <2> QED BY <1>2, <2>1, OneMoreEach DEF Gained
<1>4. \A c \in Checkpoints(a)' : c \in Checkpoints(a) \/ (a \in Unrolled /\ c > Len(resets))
  <2> SUFFICES ASSUME NEW c \in Checkpoints(a)', NEW n \in 1 .. k,
                      c = Len(resets) + n, R[n].account = a
               PROVE  a \in Unrolled /\ c > Len(resets)
    BY <1>3
  <2> QED BY <1>1, <1>3 DEF RolledRow
<1>5. ASSUME a \in Unrolled
      PROVE  \E c \in Checkpoints(a)' :
                    /\ c \in Nat /\ c > Len(resets)
                    /\ resets'[c].cutoff = today - 1 /\ resets'[c].effective = today - 1
                    /\ resets'[c].balance = BalanceAsOf(a, today - 1)
                    /\ Checkpoints(a)' = Checkpoints(a) \cup {c}
  <2>1. PICK n \in 1 .. k : R[n].account = a
    BY <1>1, <1>5
  <2>2. RolledRow(R[n])
    BY <1>1
  <2>3. Len(resets) + n \in Nat /\ Len(resets) + n > Len(resets)
    BY <1>3
  <2> QED BY <1>3, <2>1, <2>2, <2>3 DEF RolledRow
<1> QED
  BY <1>3, <1>4, <1>5

\* What a saved balance that is used leaves to count.
LEMMA StartFacts ==
    ASSUME Grounds, Books, NEW a \in Accounts, NEW d
    PROVE  LET c == LatestCheckpoint(a, d)
           IN  /\ Since(c) \in Int /\ -1 <= Since(c) /\ Since(c) <= today - 1
               /\ Base(a, c) \in Int
               /\ c = 0 \/ (c \in Checkpoints(a) /\ c \in Nat /\ c # 0)
<1> DEFINE c == LatestCheckpoint(a, d)
<1>1. c # 0 => /\ c \in DOMAIN resets /\ resets[c] # None /\ resets[c].account = a
               /\ resets[c] \in SavedBalances
  BY LatestIs DEF Books
<1>2. DOMAIN resets = 1 .. Len(resets) /\ Len(resets) \in Nat
  BY ResetsAre DEF Books, ResetFacts
<1>3. today \in Nat /\ opening[a] \in Int
  BY DEF Grounds
<1> HIDE DEF c
<1>4. CASE c = 0
  BY <1>3, <1>4 DEF c, Since, Base
<1>5. CASE c # 0
  <2>1. resets[c].cutoff \in Int /\ resets[c].balance \in Int
    BY <1>1, <1>5 DEF SavedBalances
  <2>2. -1 <= resets[c].cutoff /\ resets[c].cutoff <= today - 1
    BY <1>1, <1>5 DEF Books, Placed
  <2>3. Since(c) = resets[c].cutoff /\ Base(a, c) = resets[c].balance
    BY <1>5 DEF Since, Base
  <2>4. c \in Checkpoints(a) /\ c \in Nat
    BY <1>1, <1>2, <1>5 DEF Checkpoints
  <2> QED BY <1>5, <2>1, <2>2, <2>3, <2>4 DEF c
<1> QED
  BY <1>4, <1>5

\* A balance as of a day is what it started from and what happened since.
LEMMA BalanceFrom ==
    ASSUME NEW a, NEW d, NEW c, c = LatestCheckpoint(a, d)
    PROVE  BalanceAsOf(a, d) = Base(a, c) + Dir(a) * Total(IntervalRows(a, Since(c), d))
BY DEF BalanceAsOf

\* ... the same after a step that leaves the rows alone.
LEMMA BalanceFromNext ==
    ASSUME UNCHANGED rows, NEW a, NEW d, NEW c, c = LatestCheckpoint(a, d)'
    PROVE  BalanceAsOf(a, d)' = Base(a, c)' + Dir(a) * Total(IntervalRows(a, Since(c)', d))
BY DEF BalanceAsOf, Total, IntervalRows, LiveRows, Live, Exists, Ids

\* A saved balance that stays as it is and stays in use keeps the balance.
LEMMA SameStart ==
    ASSUME ResetsTyped, UNCHANGED <<rows, opening>>, NEW a, NEW d, NEW c,
           c = LatestCheckpoint(a, d), c = LatestCheckpoint(a, d)',
           c # 0 => resets'[c] = resets[c]
    PROVE  BalanceAsOf(a, d)' = BalanceAsOf(a, d)
<1>1. Since(c)' = Since(c) /\ Base(a, c)' = Base(a, c)
  BY DEF Since, Base
<1>2. BalanceAsOf(a, d) = Base(a, c) + Dir(a) * Total(IntervalRows(a, Since(c), d))
  BY BalanceFrom
<1>3. BalanceAsOf(a, d)' = Base(a, c)' + Dir(a) * Total(IntervalRows(a, Since(c)', d))
  BY BalanceFromNext
<1> QED
  BY <1>1, <1>2, <1>3

\* Rolling forward changes no balance on any day.
LEMMA RolledBalances ==
    ASSUME IInv, Grounds, Books, RollForward, NEW a \in accounts, NEW d \in Days
    PROVE  BalanceAsOf(a, d)' = BalanceAsOf(a, d)
<1>1. /\ a \in Accounts /\ TableOK /\ today \in Nat /\ d \in Int
      /\ ResetsTyped /\ LatestHolds /\ ResetFacts
  BY LatestFacts, ResetsAre, LedgerAssumption
     DEF IInv, TableOK, Grounds, Books, Days, LedgerAssumption
<1>2. UNCHANGED <<rows, opening, today>>
  BY DEF RollForward, otherVars
<1>3. Books'
  BY RollForwardBooks
<1>4. LatestHolds' /\ ResetFacts' /\ ResetsTyped'
  BY <1>3, LatestFactsNext DEF Books
<1>5. \A c \in Checkpoints(a) : c \in Checkpoints(a)' /\ resets'[c] = resets[c]
                                /\ c \in 1 .. Len(resets)
  BY RolledCheckpoints
<1>6. \A c \in Checkpoints(a)' : c \in Checkpoints(a) \/ (a \in Unrolled /\ c > Len(resets))
  BY RolledCheckpoints
<1>7. \A c \in Eligible(a, d) : c \in Eligible(a, d)' /\ c \in Checkpoints(a)
  BY <1>5 DEF Eligible
<1>8. \A c, e \in Checkpoints(a) : Supersedes(c, e)' <=> Supersedes(c, e)
  BY <1>5 DEF Supersedes
<1>9. \A c \in Checkpoints(a) : resets[c] \in SavedBalances /\ c \in Nat /\ c # 0
  BY <1>1 DEF ResetFacts, Checkpoints
<1>0. PICK L : L = LatestCheckpoint(a, d)
  OBVIOUS
<1>10. ASSUME Eligible(a, d)' = Eligible(a, d)
       PROVE  BalanceAsOf(a, d)' = BalanceAsOf(a, d)
  <2>1. CASE Eligible(a, d) = {}
    <3>1. L = 0 /\ L = LatestCheckpoint(a, d)'
      BY <1>0, <1>1, <1>4, <1>10, <2>1 DEF LatestHolds
    <3> QED BY <1>0, <1>1, <1>2, <3>1, SameStart
  <2>2. CASE Eligible(a, d) # {}
    <3>1. L \in Eligible(a, d) /\ \A e \in Eligible(a, d) : Supersedes(L, e)
      BY <1>0, <1>1, <2>2 DEF LatestHolds
    <3>2. L \in Eligible(a, d)' /\ \A e \in Eligible(a, d)' : Supersedes(L, e)'
      BY <1>7, <1>8, <1>10, <3>1
    <3>3. LatestCheckpoint(a, d)' = L
      BY <1>4, <3>2 DEF LatestHolds
    <3>4. resets'[L] = resets[L]
      BY <1>5, <1>7, <3>1
    <3> QED BY <1>0, <1>1, <1>2, <3>3, <3>4, SameStart
  <2> QED BY <2>1, <2>2
<1>11. CASE a \notin Unrolled
  <2>1. Eligible(a, d)' = Eligible(a, d)
    BY <1>5, <1>6, <1>11 DEF Eligible
  <2> QED BY <1>10, <2>1
<1>12. CASE a \in Unrolled
  <2>1. PICK c \in Checkpoints(a)' :
                    /\ c \in Nat /\ c > Len(resets)
                    /\ resets'[c].cutoff = today - 1 /\ resets'[c].effective = today - 1
                    /\ resets'[c].balance = BalanceAsOf(a, today - 1)
                    /\ Checkpoints(a)' = Checkpoints(a) \cup {c}
    BY <1>12, RolledCheckpoints
  <2>2. \A e \in Checkpoints(a) : e < c
    BY <1>1, <1>5, <2>1 DEF ResetFacts
  <2>3. CASE d < today - 1
    <3>1. c \notin Eligible(a, d)'
      BY <1>1, <2>1, <2>3 DEF Eligible
    <3>2. Eligible(a, d)' = Eligible(a, d)
      BY <1>5, <2>1, <3>1 DEF Eligible
    <3> QED BY <1>10, <3>2
  <2>4. CASE d >= today - 1
    <3>1. Eligible(a, d)' = Eligible(a, d) \cup {c}
      BY <1>1, <1>5, <2>1, <2>4 DEF Eligible
    <3>2. CASE L # 0 /\ resets[L].effective > today - 1
      <4>1. L \in Eligible(a, d) /\ \A e \in Eligible(a, d) : Supersedes(L, e)
        BY <1>0, <1>1, <3>2 DEF LatestHolds
      <4>2. L \in Checkpoints(a) /\ resets'[L] = resets[L]
        BY <1>5, <1>7, <4>1
      <4>3. Supersedes(L, c)'
        BY <2>1, <3>2, <4>2 DEF Supersedes
      <4>4. L \in Eligible(a, d)' /\ \A e \in Eligible(a, d)' : Supersedes(L, e)'
        BY <1>7, <1>8, <3>1, <4>1, <4>3
      <4>5. LatestCheckpoint(a, d)' = L
        BY <1>4, <4>4 DEF LatestHolds
      <4> QED BY <1>0, <1>1, <1>2, <4>2, <4>5, SameStart
    <3>3. CASE L = 0 \/ resets[L].effective <= today - 1
      <4>1. \A e \in Eligible(a, d) : /\ resets[e].effective <= today - 1
                                      /\ resets[e].cutoff <= today - 1
        <5> SUFFICES ASSUME NEW e \in Eligible(a, d)
                     PROVE  resets[e].effective <= today - 1 /\ resets[e].cutoff <= today - 1
          OBVIOUS
        <5>1. L \in Eligible(a, d) /\ Supersedes(L, e) /\ L # 0
          BY <1>0, <1>1 DEF LatestHolds
        <5>2. resets[e] \in SavedBalances /\ resets[L] \in SavedBalances
          BY <1>7, <1>9, <5>1
        <5>3. resets[e].effective <= resets[L].effective
              /\ resets[e].effective \in Int /\ resets[L].effective \in Int
          BY <5>1, <5>2 DEF Supersedes, SavedBalances
        <5>4. resets[e].cutoff <= today - 1
          BY DEF Books, Placed, Eligible, Checkpoints
        <5> QED BY <1>1, <3>3, <5>1, <5>3, <5>4
      <4>2. \A e \in Eligible(a, d)' : Supersedes(c, e)'
        <5> SUFFICES ASSUME NEW e \in Eligible(a, d), e # c
                     PROVE  Supersedes(c, e)'
          BY <1>1, <2>1, <3>1 DEF Supersedes
        <5>1. /\ resets'[e] = resets[e] /\ e < c
              /\ resets[e].effective \in Int /\ resets[e].cutoff \in Int /\ e \in Nat
          BY <1>5, <1>7, <1>9, <2>2 DEF SavedBalances
        <5>2. resets[e].effective <= today - 1 /\ resets[e].cutoff <= today - 1
          BY <4>1
        <5> QED BY <1>1, <2>1, <5>1, <5>2 DEF Supersedes
      <4>3. LatestCheckpoint(a, d)' = c
        BY <1>4, <3>1, <4>2 DEF LatestHolds
      <4>4. Eligible(a, today - 1) = Eligible(a, d)
        <5>1. \A e \in Eligible(a, d) : e \in Eligible(a, today - 1)
          BY <4>1 DEF Eligible
        <5>2. \A e \in Eligible(a, today - 1) : e \in Eligible(a, d)
          BY <1>1, <1>9, <2>4 DEF Eligible, SavedBalances
        <5> QED BY <5>1, <5>2
      <4>5. LatestCheckpoint(a, today - 1) = L
        <5>1. CASE Eligible(a, d) = {}
          BY <1>0, <1>1, <4>4, <5>1 DEF LatestHolds
        <5>2. CASE Eligible(a, d) # {}
          <6>1. L \in Eligible(a, d) /\ \A e \in Eligible(a, d) : Supersedes(L, e)
            BY <1>0, <1>1, <5>2 DEF LatestHolds
          <6> QED BY <1>1, <4>4, <6>1 DEF LatestHolds
        <5> QED BY <5>1, <5>2
      <4>6. /\ Since(L) \in Int /\ Since(L) <= today - 1 /\ Base(a, L) \in Int
        BY <1>0, <1>1, StartFacts
      <4>7. BalanceAsOf(a, d) = Base(a, L) + Dir(a) * Total(IntervalRows(a, Since(L), d))
        BY <1>0, BalanceFrom
      <4>8. BalanceAsOf(a, today - 1)
            = Base(a, L) + Dir(a) * Total(IntervalRows(a, Since(L), today - 1))
        BY <4>5, BalanceFrom
      <4>9. c # 0 /\ Since(c)' = today - 1 /\ Base(a, c)' = BalanceAsOf(a, today - 1)
        BY <1>1, <2>1 DEF Since, Base, ResetFacts
      <4>10. BalanceAsOf(a, d)'
             = BalanceAsOf(a, today - 1) + Dir(a) * Total(IntervalRows(a, today - 1, d))
        BY <1>2, <4>3, <4>9, BalanceFromNext
      <4> DEFINE x == Total(IntervalRows(a, Since(L), d))
      <4> DEFINE y == Total(IntervalRows(a, Since(L), today - 1))
      <4> DEFINE z == Total(IntervalRows(a, today - 1, d))
      <4>11. x = y + z
        <5>1. today - 1 \in Int /\ Since(L) <= today - 1 /\ today - 1 <= d
          BY <1>1, <2>4, <4>6
        <5> QED BY <1>1, <4>6, <5>1, IntervalSplit
      <4>12. x \in Int /\ y \in Int /\ z \in Int
        BY <1>1, IntervalFacts
      <4>13. /\ BalanceAsOf(a, d) = Base(a, L) + Dir(a) * x
             /\ BalanceAsOf(a, today - 1) = Base(a, L) + Dir(a) * y
             /\ BalanceAsOf(a, d)' = BalanceAsOf(a, today - 1) + Dir(a) * z
        BY <4>7, <4>8, <4>10
      <4> HIDE DEF x, y, z
      <4>14. CASE Dir(a) = 1
        BY <4>6, <4>11, <4>12, <4>13, <4>14
      <4>15. CASE Dir(a) = -1
        BY <4>6, <4>11, <4>12, <4>13, <4>15
      <4> QED BY <4>14, <4>15, DirIs
    <3> QED
      <4>1. L # 0 => resets[L].effective \in Int
        BY <1>0, <1>1, LatestIs DEF SavedBalances
      <4> QED BY <1>1, <3>2, <3>3, <4>1
  <2> QED BY <1>1, <2>3, <2>4
<1> QED
  BY <1>11, <1>12

(* -- What holds all along ---------------------------------------------------- *)

\* What the theorems about balances rest on.
Standing == IInv /\ today \in Int /\ Grounds /\ Books

\* What the proofs below assume of a state holds at the start
LEMMA StandingInit == Init => Standing
BY InitHolds, InitGround, InitBooks DEF Init, Standing

\* and in every later state.
LEMMA StandingNext == Standing /\ [Next]_vars => Standing'
<1>1. Standing /\ [Next]_vars => IInv' /\ today' \in Int
  BY NextKeeps, TodayKept DEF Standing
<1>2. Standing /\ [Next]_vars => Grounds' /\ Books'
  BY <1>1, NextGround, NextBooks DEF Standing
<1> QED
  BY <1>1, <1>2 DEF Standing

\* Every step but the roll-forward, the next day and a review is a command, and it
\* counts.
LEMMA CommandsCount ==
    ASSUME work \in Nat, [Next]_vars
    PROVE  work' = work + 1 \/ (work' = work /\ (UNCHANGED resets \/ RollForward))
<1>1. CASE UNCHANGED vars
  BY <1>1 DEF vars
<1>2. CASE BalanceStep
  <2>1. CASE RollForward
    BY <2>1 DEF RollForward
  <2>2. CASE ~RollForward
    BY <1>2, <2>2 DEF BalanceStep, NextDay, SetStartingBalance, Override, ReviewMove, CommitMove,
                      Command, balanceVars
  <2> QED BY <2>1, <2>2
<1>3. CASE RowStep
  BY <1>3 DEF RowStep, CreateTransaction, UpdateAmount, UpdateDate, DeleteTransaction,
              RestoreTransaction, FlipSigns, MoveOne, Command
<1>4. CASE PairStep
  BY <1>4 DEF PairStep, LinkTransfer, UnlinkTransfer, DismissCandidates, RestoreCandidates,
              AutoLink, MarkReviewed, ApplyDebtPayment, UnapplyDebtPayment, DeleteAccount, Command
<1>5. CASE ReconcileStep
  BY <1>5 DEF ReconcileStep, Tick, FinishManual, ReviewStatement, FinishStatement, Command
<1> QED
  BY <1>1, <1>2, <1>3, <1>4, <1>5 DEF Next

\* A roll-forward leaves every account's balance at every day as it was.
LEMMA RolloverChangesNone ==
    ASSUME Standing, work \in Nat, [Next]_vars, resets' # resets, UNCHANGED <<rows, work>>,
           NEW a \in accounts, NEW d \in Days
    PROVE  BalanceAsOf(a, d)' = BalanceAsOf(a, d)
<1>1. RollForward
  BY CommandsCount
<1> QED
  BY <1>1, RolledBalances DEF Standing

\* The monthly roll-forward changes no balance at any day: the figure it saves is the
\* one that was shown, so reading from it instead of from an earlier one gives the
\* same (roll_forward_monthly_balances in accounts.rs).
THEOREM RolloverKeeps == Spec => RolloverKeepsBalances
<1> DEFINE Inv == Standing /\ work \in Nat
<1> DEFINE Kept2 == resets' # resets /\ UNCHANGED <<rows, work>> =>
                       \A a \in accounts, d \in Days : BalanceAsOf(a, d)' = BalanceAsOf(a, d)
<1>1. Init => Inv
  BY StandingInit DEF Init
<1>2. Inv /\ [Next]_vars => Inv'
  BY StandingNext, CommandsCount
<1>3. Inv /\ [Next]_vars => [Kept2]_vars
  BY RolloverChangesNone
<1>4. RolloverKeepsBalances <=> [][Kept2]_vars
  BY DEF RolloverKeepsBalances
<1> HIDE DEF Inv, Kept2
<1> QED
  BY <1>1, <1>2, <1>3, <1>4, PTL DEF Spec

(* -- Which saved balance is which -------------------------------------------- *)

\* A correction typed for a day counts from its day, or from when another balance
\* it came after does.
Grounded(a, c) ==
    \/ resets[c].effective <= resets[c].cutoff
    \/ \E e \in Checkpoints(a) : /\ e # c /\ resets[e].cutoff <= resets[c].cutoff
                                 /\ resets[e].effective >= resets[c].effective
OfDay(p) == p[1] = "manual" /\ p[3] = 0

\* No account has two saved balances of one period, and the numbers in the periods of
\* rows of their own and of moves were given before.
OnePerPeriod == \A a \in Accounts : \A c, d \in Checkpoints(a) :
                    resets[c].period = resets[d].period => c = d
Numbered == \A a \in Accounts : \A c \in Checkpoints(a) :
                LET p == resets[c].period
                IN  /\ p[1] = "manual" => p[3] = 0 \/ p[3] \in DOMAIN resets
                    /\ p[1] = "move" => p[2] \in Nat /\ p[2] <= moved
DaysGrounded == \A a \in Accounts : \A c \in Checkpoints(a) : OfDay(resets[c].period) =>
                    resets[c].cutoff = resets[c].period[2] - 1 /\ Grounded(a, c)
Periods == OnePerPeriod /\ Numbered /\ DaysGrounded

\* A saved balance that is corrected keeps its place.
SamePlace(r, s) == r.account = s.account /\ r.period = s.period
                   /\ r.cutoff = s.cutoff /\ r.effective = s.effective
Renumbering ==
    /\ DOMAIN resets' = DOMAIN resets
    /\ \A c \in DOMAIN resets : /\ resets'[c] # None <=> resets[c] # None
                                /\ resets[c] # None => SamePlace(resets'[c], resets[c])

\* Saved balances that stay or go leave the others their places.
LEMMA FewerPeriods ==
    ASSUME Periods, moved \in Nat, moved' \in Nat, moved <= moved',
           DOMAIN resets' = DOMAIN resets,
           \A a \in Accounts :
               \/ Checkpoints(a)' = {}
               \/ /\ Checkpoints(a)' = Checkpoints(a)
                  /\ \A c \in Checkpoints(a) : SamePlace(resets'[c], resets[c])
    PROVE  Periods'
<1> USE DEF SamePlace
<1>1. OnePerPeriod'
  BY DEF Periods, OnePerPeriod
<1>2. Numbered'
  BY DEF Periods, Numbered
<1>3. DaysGrounded'
  <2> SUFFICES ASSUME NEW a \in Accounts, NEW c \in Checkpoints(a)', OfDay(resets'[c].period)
               PROVE  resets'[c].cutoff = resets'[c].period[2] - 1 /\ Grounded(a, c)'
    BY DEF DaysGrounded
  <2>1. /\ Checkpoints(a)' = Checkpoints(a)
        /\ \A e \in Checkpoints(a) : SamePlace(resets'[e], resets[e])
    OBVIOUS
  <2>2. resets[c].cutoff = resets[c].period[2] - 1 /\ Grounded(a, c)
    BY <2>1 DEF Periods, DaysGrounded
  <2> QED BY <2>1, <2>2 DEF Grounded
<1> QED
  BY <1>1, <1>2, <1>3 DEF Periods

\* A step that rewrites figures only leaves every balance its period.
LEMMA SamePeriods ==
    ASSUME Periods, Renumbering, moved \in Nat, moved' \in Nat, moved <= moved'
    PROVE  Periods'
<1>1. \A a \in Accounts : Checkpoints(a)' = Checkpoints(a)
                          /\ \A c \in Checkpoints(a) : SamePlace(resets'[c], resets[c])
  BY DEF Renumbering, Checkpoints, SamePlace
<1> QED
  BY <1>1, FewerPeriods DEF Renumbering

LEMMA DeletedPeriods ==
    ASSUME Periods, moved \in Nat, NEW a, DeleteAccount(a)
    PROVE  Periods'
<1>1. /\ resets' = [c \in DOMAIN resets |-> IF c \in Checkpoints(a) THEN None ELSE resets[c]]
      /\ moved' = moved
  BY DEF DeleteAccount
<1>2. DOMAIN resets' = DOMAIN resets
  BY <1>1
<1>3. ASSUME NEW b \in Accounts
      PROVE  \/ Checkpoints(b)' = {}
             \/ /\ Checkpoints(b)' = Checkpoints(b)
                /\ \A c \in Checkpoints(b) : SamePlace(resets'[c], resets[c])
  <2>1. CASE b = a
    BY <1>1, <2>1 DEF Checkpoints
  <2>2. CASE b # a
    <3>1. \A c \in Checkpoints(b) : resets'[c] = resets[c]
      BY <1>1, <2>2 DEF Checkpoints
    <3>2. \A c \in Checkpoints(b) : c \in Checkpoints(b)'
      BY <1>2, <3>1 DEF Checkpoints
    <3>3. \A c \in Checkpoints(b)' : c \in Checkpoints(b)
      BY <1>1 DEF Checkpoints
    <3> QED BY <3>1, <3>2, <3>3 DEF SamePlace
  <2> QED BY <2>1, <2>2
<1> QED
  BY <1>1, <1>2, <1>3, FewerPeriods

\* A new saved balance of a period no other one of its account is of.
GroundedOn(r) ==
    \/ r.effective <= r.cutoff
    \/ \E e \in Checkpoints(r.account) : /\ resets[e].cutoff <= r.cutoff
                                         /\ resets[e].effective >= r.effective
FreshPeriod(r) ==
    /\ \A c \in Checkpoints(r.account) : resets[c].period # r.period
    /\ OfDay(r.period) => r.cutoff = r.period[2] - 1 /\ GroundedOn(r)
    /\ r.period[1] = "manual" => r.period[3] = 0 \/ r.period[3] \in DOMAIN resets'
    /\ r.period[1] = "move" => r.period[2] \in Nat /\ r.period[2] <= moved'

\* New saved balances, one an account, of a period no other one of the account is of.
LEMMA MorePeriods ==
    ASSUME Periods, ResetsTyped, moved \in Nat, moved' \in Nat, moved <= moved',
           NEW k \in Nat, NEW R \in [1 .. k -> SavedBalances], resets' = resets \o R,
           \A m, n \in 1 .. k : R[m].account = R[n].account => m = n,
           \A n \in 1 .. k : FreshPeriod(R[n])
    PROVE  Periods'
<1>1. ASSUME NEW a
      PROVE  /\ Len(resets) \in Nat
             /\ \A c \in Checkpoints(a) : c \in Checkpoints(a)' /\ resets'[c] = resets[c]
                                          /\ c \in 1 .. Len(resets)
             /\ \A c \in Checkpoints(a)' :
                  \/ c \in Checkpoints(a)
                  \/ \E n \in 1 .. k : c = Len(resets) + n /\ R[n].account = a
             /\ \A n \in 1 .. k : R[n].account = a =>
                  /\ Len(resets) + n \in Checkpoints(a)' /\ resets'[Len(resets) + n] = R[n]
                  /\ Checkpoints(a)' = Checkpoints(a) \cup {Len(resets) + n}
  <2>1. Gained(a, k, R)
    BY OneMoreEach
  <2> QED BY <2>1 DEF Gained
<1>2. ASSUME NEW a, NEW c \in Checkpoints(a)'
      PROVE  \/ c \in Checkpoints(a) /\ resets'[c] = resets[c]
             \/ \E n \in 1 .. k : /\ c = Len(resets) + n /\ R[n].account = a
                                  /\ resets'[c] = R[n]
  BY <1>1
<1>3. OnePerPeriod'
  <2> SUFFICES ASSUME NEW a \in Accounts, NEW c \in Checkpoints(a)', NEW d \in Checkpoints(a)',
                      resets'[c].period = resets'[d].period
               PROVE  c = d
    BY DEF OnePerPeriod
  <2>1. CASE c \in Checkpoints(a) /\ d \in Checkpoints(a)
    BY <1>1, <2>1 DEF Periods, OnePerPeriod
  <2>2. CASE c \notin Checkpoints(a) /\ d \notin Checkpoints(a)
    <3>1. PICK n \in 1 .. k : c = Len(resets) + n /\ R[n].account = a
      BY <1>2, <2>2
    <3>2. PICK m \in 1 .. k : d = Len(resets) + m /\ R[m].account = a
      BY <1>2, <2>2
    <3> QED BY <3>1, <3>2
  <2>3. CASE c \in Checkpoints(a) /\ d \notin Checkpoints(a)
    <3>1. PICK m \in 1 .. k : d = Len(resets) + m /\ R[m].account = a /\ resets'[d] = R[m]
      BY <1>2, <2>3
    <3>2. FreshPeriod(R[m]) /\ resets'[c] = resets[c]
      BY <1>1, <2>3
    <3> QED BY <2>3, <3>1, <3>2 DEF FreshPeriod
  <2>4. CASE c \notin Checkpoints(a) /\ d \in Checkpoints(a)
    <3>1. PICK m \in 1 .. k : c = Len(resets) + m /\ R[m].account = a /\ resets'[c] = R[m]
      BY <1>2, <2>4
    <3>2. FreshPeriod(R[m]) /\ resets'[d] = resets[d]
      BY <1>1, <2>4
    <3> QED BY <2>4, <3>1, <3>2 DEF FreshPeriod
  <2> QED BY <2>1, <2>2, <2>3, <2>4
<1>4. DOMAIN resets \subseteq DOMAIN resets'
  <2>1. R \in [1 .. k -> SavedBalances \cup {None}]
    OBVIOUS
  <2>2. DOMAIN resets' = 1 .. Len(resets) + k /\ DOMAIN resets = 1 .. Len(resets)
        /\ Len(resets) \in Nat
    BY <2>1, Joined DEF ResetsTyped
  <2> QED BY <2>2
<1>5. Numbered'
  <2> SUFFICES ASSUME NEW a \in Accounts, NEW c \in Checkpoints(a)'
               PROVE  /\ resets'[c].period[1] = "manual" => resets'[c].period[3] = 0
                             \/ resets'[c].period[3] \in DOMAIN resets'
                      /\ resets'[c].period[1] = "move" =>
                             resets'[c].period[2] \in Nat /\ resets'[c].period[2] <= moved'
    BY DEF Numbered
  <2>1. CASE c \in Checkpoints(a)
    <3>1. resets'[c] = resets[c]
      BY <1>1, <2>1
    <3>2. /\ resets[c].period[1] = "manual" => resets[c].period[3] = 0
                             \/ resets[c].period[3] \in DOMAIN resets
          /\ resets[c].period[1] = "move" =>
                             resets[c].period[2] \in Nat /\ resets[c].period[2] <= moved
      BY <2>1 DEF Periods, Numbered
    <3> DEFINE p == resets[c].period
    <3>3. resets'[c].period = p
      BY <3>1
    <3>4. /\ p[1] = "manual" => p[3] = 0 \/ p[3] \in DOMAIN resets
          /\ p[1] = "move" => p[2] \in Nat /\ p[2] <= moved
      BY <3>2
    <3> HIDE DEF p
    <3> QED BY <1>4, <3>3, <3>4
  <2>2. CASE \E n \in 1 .. k : resets'[c] = R[n]
    <3>1. PICK n \in 1 .. k : resets'[c] = R[n]
      BY <2>2
    <3>2. FreshPeriod(R[n])
      OBVIOUS
    <3> QED BY <3>1, <3>2 DEF FreshPeriod
  <2>3. c \in Checkpoints(a) \/ \E n \in 1 .. k : resets'[c] = R[n]
    BY <1>2
  <2> QED BY <2>1, <2>2, <2>3
<1>6. DaysGrounded'
  <2> SUFFICES ASSUME NEW a \in Accounts, NEW c \in Checkpoints(a)', OfDay(resets'[c].period)
               PROVE  resets'[c].cutoff = resets'[c].period[2] - 1 /\ Grounded(a, c)'
    BY DEF DaysGrounded
  <2>1. \A e \in Checkpoints(a) : e \in Checkpoints(a)' /\ resets'[e] = resets[e]
                                 /\ e \in 1 .. Len(resets)
    BY <1>1
  <2>2. CASE c \in Checkpoints(a)
    <3>1. resets'[c] = resets[c]
      BY <2>1, <2>2
    <3>2. resets[c].cutoff = resets[c].period[2] - 1 /\ Grounded(a, c)
      BY <2>2, <3>1 DEF Periods, DaysGrounded
    <3> QED BY <2>1, <3>1, <3>2 DEF Grounded
  <2>3. CASE \E n \in 1 .. k : c = Len(resets) + n /\ R[n].account = a /\ resets'[c] = R[n]
    <3>1. PICK n \in 1 .. k : c = Len(resets) + n /\ R[n].account = a /\ resets'[c] = R[n]
      BY <2>3
    <3>2. FreshPeriod(R[n])
      OBVIOUS
    <3>3. R[n].cutoff = R[n].period[2] - 1 /\ GroundedOn(R[n])
      BY <3>1, <3>2 DEF FreshPeriod
    <3>4. \A e \in Checkpoints(a) : e # c
      BY <1>1, <2>1, <3>1
    <3> QED BY <2>1, <3>1, <3>3, <3>4 DEF Grounded, GroundedOn
  <2>4. \/ c \in Checkpoints(a)
        \/ \E n \in 1 .. k : c = Len(resets) + n /\ R[n].account = a /\ resets'[c] = R[n]
    BY <1>2
  <2> QED BY <2>2, <2>3, <2>4
<1> QED
  BY <1>3, <1>5, <1>6 DEF Periods

(* -- What corrections and confirmations do to the saved balances ------------- *)

\* Flipped signs correct numbers, and leave every saved balance its place.
LEMMA FlipRenumbers ==
    ASSUME TableOK, Books, NEW ids, \A i \in ids : Live(i), CorrectCheckpoints(ids)
    PROVE  Renumbering
<1> DEFINE fix == Correction(ids)
<1> DEFINE H == {c \in DOMAIN resets : fix[c] # 0}
<1> DEFINE n(c) == Len(versions) + Rank(H, c)
<1>1. /\ ResetsTyped /\ DOMAIN resets = 1 .. Len(resets) /\ Len(resets) \in Nat
      /\ \A c \in DOMAIN resets : resets[c] # None => resets[c] \in SavedBalances
      /\ Len(versions) \in Nat
  BY ResetsAre, VersionsAre DEF Books, ResetFacts
<1>2. \A c \in H : /\ c \in DOMAIN resets /\ resets[c] # None
                   /\ resets[c] \in SavedBalances /\ fix[c] \in Int
  BY <1>1, CorrectionFacts
<1>3. resets' = [c \in DOMAIN resets |->
                   IF c \in H THEN Renumber(resets[c], resets[c].balance + fix[c], n(c))
                   ELSE resets[c]]
  BY DEF CorrectCheckpoints, Renumber
<1>4. \A c \in H : n(c) \in Nat
  <2>1. H \in SUBSET (1 .. Len(resets))
    BY <1>1
  <2> HIDE DEF H
  <2>2. \A m \in H : Rank(H, m) \in 1 .. Cardinality(H)
    BY <1>1, <2>1, RankFacts
  <2>3. Cardinality(H) \in Nat
    BY <1>1, <2>1, RankFacts
  <2> QED BY <1>1, <2>2, <2>3
<1> HIDE DEF fix, H, n
<1>5. ASSUME NEW c \in H
      PROVE  resets'[c] # None /\ SamePlace(resets'[c], resets[c])
  <2> DEFINE b == resets[c].balance + fix[c]
  <2> DEFINE m == n(c)
  <2>1. resets'[c] = Renumber(resets[c], b, m)
    BY <1>2, <1>3
  <2>2. resets[c] \in SavedBalances /\ b \in Int /\ m \in Nat
    BY <1>2, <1>4 DEF SavedBalances
  <2> HIDE DEF b, m
  <2>3. /\ Renumber(resets[c], b, m) \in SavedBalances
        /\ SamePlace(Renumber(resets[c], b, m), resets[c])
    BY <2>2, Renumbered DEF SamePlace
  <2> QED BY <2>1, <2>3, Something
<1>6. DOMAIN resets' = DOMAIN resets /\ \A c \in DOMAIN resets : c \notin H => resets'[c] = resets[c]
  BY <1>3
<1> QED
  BY <1>2, <1>5, <1>6 DEF Renumbering, SamePlace

\* What a move corrects an account's saved balance by.
MoveDelta(ids, to, c) ==
    IF resets[c].account \notin Touched(ids, to) THEN 0
    ELSE Deltas(resets[c].account, Moving(resets[c].account, ids, to),
                resets[c].account = to)[c]

\* A move that is corrected from the records leaves every saved balance its place, and
\* changes the numbers by what its deltas say.
LEMMA MoveRenumbers ==
    ASSUME TableOK, Books, Len(rows) <= MaxRows, NEW ids, NEW to,
           There(ids), Correctable(ids, to), \A i \in ids : rows'[i].rev \in Int,
           CorrectSavedBalances(ids, to)
    PROVE  /\ Renumbering
           /\ \A c \in DOMAIN resets : resets[c] # None =>
                  /\ MoveDelta(ids, to, c) \in Int
                  /\ resets'[c].balance = resets[c].balance + MoveDelta(ids, to, c)
<1> DEFINE H == Hits(ids, to)
<1> DEFINE at == [c \in H |-> Len(versions) + Rank(H, c)]
<1> DEFINE new(c) == CorrectedVersion(c, resets[c].account, ids, to, at)
<1> DEFINE moving(c) == Moving(resets[c].account, ids, to)
<1> DEFINE own(c) == Corrected(resets[c].account, moving(c), resets[c].account = to)
<1> DEFINE delta(c) == Deltas(resets[c].account, moving(c), resets[c].account = to)
<1>1. /\ ResetsTyped /\ VersionsTyped /\ Placed /\ Chained /\ Current
      /\ Len(resets) \in Nat /\ DOMAIN resets = 1 .. Len(resets)
      /\ \A c \in DOMAIN resets : resets[c] # None => resets[c] \in SavedBalances
      /\ Len(versions) \in Nat
  BY ResetsAre, VersionsAre DEF Books, ResetFacts
<1>2. /\ H \in SUBSET (1 .. Len(resets))
      /\ \A c \in H : /\ c \in DOMAIN resets /\ c \in Nat /\ resets[c] # None
                      /\ resets[c] \in SavedBalances
                      /\ resets[c].account \in Touched(ids, to) /\ c \in own(c)
  BY <1>1, HitsAre
<1>3. resets' = [c \in DOMAIN resets |->
                        IF c \in H
                        THEN [resets[c] EXCEPT !.balance = new(c).balance, !.version = at[c]]
                        ELSE resets[c]]
  BY DEF CorrectSavedBalances, Hits
<1>4. /\ Cardinality(H) \in Nat
      /\ \A m \in H : Rank(H, m) \in 1 .. Cardinality(H)
  <2> HIDE DEF H
  <2> QED BY <1>1, <1>2, RankFacts
<1>5. \A c \in H : at[c] = Len(versions) + Rank(H, c) /\ at[c] \in Nat /\ at[c] # 0
  <2> HIDE DEF H
  <2> QED BY <1>1, <1>4
<1>6. \A c, d : c \in own(d) /\ d \in H => c \in H
  BY <1>2 DEF Hits
<1>7. ASSUME NEW c \in H
      PROVE  /\ new(c).balance = resets[c].balance + delta(c)[c] /\ delta(c)[c] \in Int
             /\ new(c) \in SavedVersions
  <2> DEFINE a == resets[c].account
  <2>1. There(Moving(a, ids, to)) /\ \A i \in Moving(a, ids, to) : rows'[i].rev \in Int
    BY MovingThere
  <2>2. /\ \A d \in Affected(a, Moving(a, ids, to)) : Recorded(d)
        /\ ~Contradicted(a, Moving(a, ids, to), a = to)
    BY <1>2 DEF Correctable
  <2>3. \A d \in Corrected(a, Moving(a, ids, to), a = to) : at[d] \in Nat /\ at[d] # 0
    <3> HIDE DEF H, at
    <3> QED BY <1>5, <1>6
  <2>4. c \in Corrected(a, Moving(a, ids, to), a = to)
    BY <1>2
  <2> HIDE DEF a, at, H
  <2>5. LET w == CorrectedVersion(c, a, ids, to, at)
            d1 == Deltas(a, Moving(a, ids, to), a = to)
        IN  w.balance = resets[c].balance + d1[c] /\ d1[c] \in Int /\ w \in SavedVersions
    BY <2>1, <2>2, <2>3, <2>4, CorrectedFacts
  <2> QED BY <2>5 DEF a
<1>8. DOMAIN resets' = DOMAIN resets
      /\ (\A c \in H : resets'[c] = Renumber(resets[c], new(c).balance, at[c]))
      /\ \A c \in DOMAIN resets : c \notin H => resets'[c] = resets[c]
  BY <1>2, <1>3 DEF Renumber
<1>9. \A c \in H : MoveDelta(ids, to, c) = delta(c)[c]
  BY <1>2 DEF MoveDelta
<1>10. \A c \in DOMAIN resets : resets[c] # None /\ c \notin H => MoveDelta(ids, to, c) = 0
  <2> SUFFICES ASSUME NEW c \in DOMAIN resets, resets[c] # None, c \notin H,
                      resets[c].account \in Touched(ids, to)
               PROVE  delta(c)[c] = 0
    BY DEF MoveDelta
  <2> DEFINE a == resets[c].account
  <2> DEFINE mine == Moving(a, ids, to)
  <2>1. There(mine)
    BY MovingThere
  <2>2. c \notin Corrected(a, mine, a = to)
    BY DEF Hits
  <2>3. delta(c)[c] = Deltas(a, mine, a = to)[c] /\ c \in 0 .. Len(resets)
    BY <1>1
  <2> HIDE DEF mine, a, delta, H
  <2> DEFINE in == a = to
  <2>4. in \in BOOLEAN
    OBVIOUS
  <2> HIDE DEF in
  <2>5. CASE c \notin Affected(a, mine)
    <3>1. Deltas(a, mine, in)[c] = 0
      BY <1>1, <2>1, <2>3, <2>4, <2>5, DeltaFacts
    <3> QED BY <2>3, <3>1 DEF in
  <2>6. CASE c \in Affected(a, mine)
    <3>1. c \notin Corrected(a, mine, in)
      BY <2>2 DEF in
    <3>2. Deltas(a, mine, in)[c] = 0
      BY <1>1, <2>4, <2>6, <3>1, HitFacts
    <3> QED BY <2>3, <3>2 DEF in
  <2> QED BY <2>5, <2>6
<1> HIDE DEF new, at, H, own, delta, moving
<1>11. ASSUME NEW c \in H
       PROVE  /\ resets'[c] # None /\ SamePlace(resets'[c], resets[c])
              /\ resets'[c].balance = resets[c].balance + delta(c)[c]
  <2>1. new(c).balance \in Int /\ at[c] \in Nat /\ resets[c] \in SavedBalances
    BY <1>2, <1>5, <1>7 DEF SavedVersions
  <2>2. resets'[c] = Renumber(resets[c], new(c).balance, at[c])
    BY <1>8
  <2>3. /\ resets'[c] \in SavedBalances /\ SamePlace(resets'[c], resets[c])
        /\ resets'[c].balance = new(c).balance
    BY <2>1, <2>2, Renumbered DEF SamePlace
  <2> QED BY <1>7, <2>3, Something
<1>12. Renumbering
  BY <1>2, <1>8, <1>11 DEF Renumbering, SamePlace
<1>13. ASSUME NEW c \in DOMAIN resets, resets[c] # None
       PROVE  /\ MoveDelta(ids, to, c) \in Int
              /\ resets'[c].balance = resets[c].balance + MoveDelta(ids, to, c)
  <2>1. CASE c \in H
    BY <1>7, <1>9, <1>11, <2>1
  <2>2. CASE c \notin H
    <3>1. resets[c].balance \in Int
      BY <1>1, <1>13 DEF SavedBalances
    <3> QED BY <1>8, <1>10, <1>13, <2>2, <3>1
  <2> QED BY <2>1, <2>2
<1> QED
  BY <1>12, <1>13

(* -- A balance a person types ------------------------------------------------ *)

\* A typed balance is the one saved balance of its period, of a row of its own or of the
\* row that was in use.
TypedRow(a, b) ==
    AnchorRow(a, OverridePeriod(a), today - 1, OverrideEffective(a, OverridePeriod(a)),
              OverrideBaseline(a, b))
Overridden(a, b, c) ==
    /\ c \in Nat /\ c # 0 /\ resets'[c] = TypedRow(a, b)
    /\ Checkpoints(a)' = Checkpoints(a) \cup {c}
    /\ \A e \in Checkpoints(a) : e # c => resets'[e] = resets[e]
                                          /\ resets[e].period # OverridePeriod(a)
    /\ \/ c = Len(resets) + 1 /\ c \notin Checkpoints(a)
       \/ c \in Checkpoints(a) /\ c = LatestCheckpoint(a, today)
          /\ OverridePeriod(a) = <<"manual", today, 0>>
          /\ resets[c].period = <<"manual", today, 0>>

\* One more balance: its account has one more, the others what they had.
LEMMA OneMoreReset ==
    ASSUME ResetsTyped, NEW r \in SavedBalances, resets' = Append(resets, r)
    PROVE  /\ Checkpoints(r.account)' = Checkpoints(r.account) \cup {Len(resets) + 1}
           /\ resets'[Len(resets) + 1] = r /\ Len(resets) + 1 \notin Checkpoints(r.account)
           /\ \A e \in Checkpoints(r.account) : resets'[e] = resets[e]
           /\ Len(resets) \in Nat
<1> DEFINE R == [n \in 1 .. 1 |-> r]
<1> DEFINE k == 1
<1>1. resets' = resets \o R
  BY OneMore DEF ResetsTyped
<1>2. k \in Nat /\ R \in [1 .. k -> SavedBalances] /\ R[1] = r /\ 1 \in 1 .. k
      /\ \A m, n \in 1 .. k : R[m].account = R[n].account => m = n
  OBVIOUS
<1> HIDE DEF R, k
<1> DEFINE a == r.account
<1>3. Gained(a, k, R)
  BY <1>1, <1>2, OneMoreEach
<1> HIDE DEF a
<1>4. /\ Len(resets) \in Nat
      /\ \A c \in Checkpoints(a) : resets'[c] = resets[c] /\ c \in 1 .. Len(resets)
      /\ R[1].account = a => /\ resets'[Len(resets) + 1] = R[1]
                             /\ Checkpoints(a)' = Checkpoints(a) \cup {Len(resets) + 1}
  BY <1>2, <1>3 DEF Gained
<1>5. R[1].account = a
  BY <1>2 DEF a
<1>6. Len(resets) + 1 \notin Checkpoints(a)
  BY <1>4
<1> QED
  BY <1>2, <1>4, <1>5, <1>6 DEF a

\* An override leaves one baseline of its period, the figure less the rows of today.
LEMMA OverrideLeaves ==
    ASSUME Standing, Periods, NEW a \in accounts, NEW b \in Typed, Override(a, b)
    PROVE  \E c : Overridden(a, b, c)
<1>1. /\ ResetsTyped /\ LatestHolds /\ ResetFacts /\ a \in Accounts /\ today \in Nat /\ Placed
  BY LatestFacts, ResetsAre DEF Standing, IInv, TableOK, Grounds, Books
<1>2. TypedRow(a, b) \in SavedBalances /\ TypedRow(a, b).account = a
  BY OverrideRow DEF Standing, TypedRow, AnchorRow
<1> DEFINE p == OverridePeriod(a)
<1>3. \/ PeriodRow(a, p) = {} /\ resets' = Append(resets, TypedRow(a, b))
      \/ \E c \in PeriodRow(a, p) : resets' = [resets EXCEPT ![c] = TypedRow(a, b)]
  BY DEF Override, RecordAnchor, AddAnchor, ReplaceAnchor, TypedRow
<1>4. CASE PeriodRow(a, p) = {} /\ resets' = Append(resets, TypedRow(a, b))
  <2> DEFINE c == Len(resets) + 1
  <2> DEFINE r == TypedRow(a, b)
  <2>1. r \in SavedBalances /\ r.account = a /\ resets' = Append(resets, r)
    BY <1>2, <1>4
  <2> HIDE DEF r
  <2>2. /\ Checkpoints(a)' = Checkpoints(a) \cup {c} /\ resets'[c] = r
        /\ c \notin Checkpoints(a) /\ Len(resets) \in Nat
        /\ \A e \in Checkpoints(a) : resets'[e] = resets[e]
    BY <1>1, <2>1, OneMoreReset
  <2>3. \A e \in Checkpoints(a) : resets[e].period # p
    BY <1>4 DEF PeriodRow
  <2>4. Overridden(a, b, c)
    BY <2>2, <2>3 DEF Overridden, r
  <2> QED BY <2>4
<1>5. CASE \E c \in PeriodRow(a, p) : resets' = [resets EXCEPT ![c] = TypedRow(a, b)]
  <2>1. PICK c \in PeriodRow(a, p) : resets' = [resets EXCEPT ![c] = TypedRow(a, b)]
    BY <1>5
  <2> DEFINE day == <<"manual", today, 0>>
  <2>2. /\ c \in Checkpoints(a) /\ resets[c].period = p /\ c \in DOMAIN resets
        /\ resets[c] # None /\ c \in Nat /\ c # 0 /\ resets[c].account = a
    BY <1>1 DEF PeriodRow, Checkpoints, ResetFacts
  <2>3. p = day
    <3>1. CASE p = <<"manual", today, Len(resets) + 1>>
      <4>1. resets[c].period[1] = "manual" => resets[c].period[3] = 0
                             \/ resets[c].period[3] \in DOMAIN resets
        BY <1>1, <2>2 DEF Periods, Numbered
      <4>2. resets[c].period[1] = "manual" /\ resets[c].period[3] = Len(resets) + 1
        BY <2>2, <3>1
      <4> QED BY <1>1, <4>1, <4>2 DEF ResetFacts
    <3> QED BY <3>1 DEF OverridePeriod
  <2>4. \A e \in Checkpoints(a) : resets[e].period = p => e = c
    BY <1>1, <2>2 DEF Periods, OnePerPeriod
  <2>5. PeriodRow(a, day) = {c}
    BY <2>2, <2>3, <2>4 DEF PeriodRow
  <2>6. LatestCheckpoint(a, today) \in {c, 0}
    <3>1. day # <<"manual", today, Len(resets) + 1>>
      BY <1>1 DEF ResetFacts
    <3> QED BY <2>3, <2>5, <3>1 DEF OverridePeriod
  <2>7. resets[c].cutoff = today - 1
    <3>1. OfDay(resets[c].period) /\ resets[c].period[2] = today
      BY <2>2, <2>3 DEF OfDay
    <3> QED BY <1>1, <2>2, <3>1 DEF Periods, DaysGrounded
  <2>8. c \in Eligible(a, today)
    BY <1>1, <2>2, <2>7 DEF Eligible, Placed
  <2>9. LatestCheckpoint(a, today) = c
    BY <1>1, <2>6, <2>8 DEF LatestHolds
  <2>10. /\ resets'[c] = TypedRow(a, b) /\ DOMAIN resets' = DOMAIN resets
         /\ \A e \in DOMAIN resets : e # c => resets'[e] = resets[e]
    BY <2>1, <2>2
  <2>11. TypedRow(a, b) # None
    BY <1>2, Something
  <2>12. Checkpoints(a)' = Checkpoints(a) \cup {c}
    BY <1>2, <2>2, <2>10, <2>11 DEF Checkpoints
  <2>13. \A e \in Checkpoints(a) : e # c => resets'[e] = resets[e] /\ resets[e].period # p
    BY <2>4, <2>10 DEF Checkpoints
  <2>14. Overridden(a, b, c)
    BY <2>2, <2>3, <2>9, <2>10, <2>12, <2>13 DEF Overridden
  <2> QED BY <2>14
<1> QED
  BY <1>3, <1>4, <1>5

\* The saved balance in use after an override is the one that was typed.
LEMMA TypedInUse ==
    ASSUME Standing, Periods, NEW a \in accounts, NEW b \in Typed, NEW c,
           Overridden(a, b, c), Books', UNCHANGED today
    PROVE  LatestCheckpoint(a, today)' = c
<1>1. /\ ResetsTyped /\ LatestHolds /\ ResetFacts /\ a \in Accounts /\ today \in Nat /\ Placed
  BY LatestFacts, ResetsAre DEF Standing, IInv, TableOK, Grounds, Books
<1>2. LatestHolds' /\ ResetFacts' /\ ResetsTyped'
  BY LatestFactsNext DEF Books
<1> DEFINE p == OverridePeriod(a)
<1> DEFINE E == OverrideEffective(a, p)
<1>3. /\ E \in Int /\ E >= today - 1 /\ E <= today
      /\ \A e \in Checkpoints(a) :
            resets[e].period # p /\ resets[e].cutoff <= today - 1 => E >= resets[e].effective
  BY <1>1, EffectiveFacts
<1>4. /\ resets'[c].cutoff = today - 1 /\ resets'[c].effective = E /\ c \in Nat
      /\ Checkpoints(a)' = Checkpoints(a) \cup {c}
  BY DEF Overridden, TypedRow, AnchorRow
<1>5. \A e \in Checkpoints(a) : /\ resets[e].cutoff \in Int /\ resets[e].effective \in Int
                                /\ resets[e].cutoff <= today - 1 /\ resets[e].effective <= today
                                /\ e \in Nat /\ e <= Len(resets) /\ resets[e] \in SavedBalances
  <2> TAKE e \in Checkpoints(a)
  <2>1. resets[e] \in SavedBalances /\ e \in 1 .. Len(resets) /\ resets[e] # None
        /\ e \in DOMAIN resets
    BY <1>1 DEF Checkpoints, ResetFacts
  <2> QED BY <1>1, <2>1 DEF Placed, SavedBalances, ResetFacts
<1> HIDE DEF E
<1>6. c \in Eligible(a, today)'
  BY <1>1, <1>3, <1>4 DEF Eligible
<1>7. ASSUME NEW e \in Checkpoints(a), e # c
      PROVE  Supersedes(c, e)'
  <2>1. resets'[e] = resets[e] /\ E >= resets[e].effective
    BY <1>3, <1>5, <1>7 DEF Overridden
  <2>2. CASE c = Len(resets) + 1
    BY <1>1, <1>3, <1>4, <1>5, <2>1, <2>2 DEF Supersedes
  <2>3. CASE /\ c \in Checkpoints(a) /\ c = LatestCheckpoint(a, today)
             /\ p = <<"manual", today, 0>> /\ resets[c].period = <<"manual", today, 0>>
    <3>1. SUFFICES ASSUME E = resets[e].effective, resets[e].cutoff = today - 1, e > c
                   PROVE  FALSE
      BY <1>1, <1>3, <1>4, <1>5, <2>1 DEF Supersedes
    <3>2. OfDay(resets[c].period) /\ resets[c].period[2] = today
      BY <2>3 DEF OfDay
    <3>3. resets[c].cutoff = today - 1 /\ Grounded(a, c)
      BY <1>1, <2>3, <3>2 DEF Periods, DaysGrounded
    <3>4. e \in Eligible(a, today) /\ c \in Eligible(a, today)
      BY <1>1, <1>5, <2>3 DEF Eligible
    <3>5. Supersedes(c, e)
      BY <1>1, <2>3, <3>4 DEF LatestHolds
    <3>6. resets[c].effective > E
      BY <1>1, <1>3, <1>5, <2>3, <3>1, <3>3, <3>5 DEF Supersedes
    <3>7. CASE resets[c].effective <= resets[c].cutoff
      BY <1>1, <1>3, <1>5, <2>3, <3>3, <3>6, <3>7
    <3>8. CASE \E f \in Checkpoints(a) : /\ f # c /\ resets[f].cutoff <= resets[c].cutoff
                                         /\ resets[f].effective >= resets[c].effective
      <4>1. PICK f \in Checkpoints(a) : /\ f # c /\ resets[f].cutoff <= resets[c].cutoff
                                        /\ resets[f].effective >= resets[c].effective
        BY <3>8
      <4>2. resets[f].period # p
        BY <4>1 DEF Overridden
      <4>3. E >= resets[f].effective
        BY <1>3, <1>5, <4>2
      <4> QED BY <1>3, <1>5, <2>3, <3>6, <4>1, <4>3
    <3> QED BY <3>3, <3>7, <3>8 DEF Grounded
  <2> QED BY <2>2, <2>3 DEF Overridden
<1>8. Supersedes(c, c)'
  BY <1>1, <1>3, <1>4 DEF Supersedes
<1>9. \A e \in Eligible(a, today)' : Supersedes(c, e)'
  BY <1>4, <1>7, <1>8 DEF Eligible
<1> QED
  BY <1>2, <1>6, <1>9 DEF LatestHolds

\* The number typed is the number shown.
LEMMA TypedShown ==
    ASSUME Standing, Periods, NEW a \in accounts, NEW b \in Typed, Override(a, b), Books'
    PROVE  BalanceAsOf(a, today)' = b
<1>1. PICK c : Overridden(a, b, c)
  BY OverrideLeaves
<1>2. UNCHANGED <<rows, today>>
  BY DEF Override, otherVars
<1>3. c = LatestCheckpoint(a, today)'
  BY <1>1, <1>2, TypedInUse
<1> DEFINE x == Total(IntervalRows(a, today - 1, today))
<1>4. Since(c)' = today - 1 /\ Base(a, c)' = b - Dir(a) * x
  BY <1>1 DEF Overridden, TypedRow, AnchorRow, OverrideBaseline, Since, Base
<1>5. BalanceAsOf(a, today)' = Base(a, c)' + Dir(a) * Total(IntervalRows(a, Since(c)', today))
  <2>1. BalanceAsOf(a, today)' = (Base(a, c) + Dir(a) * Total(IntervalRows(a, Since(c), today)))'
    BY <1>3 DEF BalanceAsOf
  <2> QED BY <1>2, <2>1 DEF Total, IntervalRows, LiveRows, Live, Exists, Ids
<1>6. x \in Int /\ b \in Int
  BY IntervalFacts, LedgerAssumption DEF LedgerAssumption, Standing, IInv
<1>7. BalanceAsOf(a, today)' = (b - Dir(a) * x) + Dir(a) * x
  BY <1>4, <1>5
<1> HIDE DEF x
<1> QED
  BY <1>6, <1>7, DirIs

(* -- Every step keeps the periods -------------------------------------------- *)

\* What a confirmation adds.
ConfirmedRow(r, ids, to, inputs) ==
    /\ r.account \in Touched(ids, to) /\ r.period = <<"move", moved + 1>>
    /\ r.cutoff = today - 1 /\ r.effective = today
    /\ r.balance = Baseline(r.account, ids, to, inputs)
LEMMA ConfirmedRows ==
    ASSUME IInv, Grounds, Books, NEW ids, There(ids), NEW to \in accounts,
           NEW inputs \in Confirmations, inputs[1] # "none", ConfirmBalances(ids, to, inputs)
    PROVE  \E k \in Nat : \E R \in [1 .. k -> SavedBalances] :
              /\ resets' = resets \o R
              /\ \A m, n \in 1 .. k : R[m].account = R[n].account => m = n
              /\ \A n \in 1 .. k : ConfirmedRow(R[n], ids, to, inputs)
              /\ \A b \in Touched(ids, to) : \E n \in 1 .. k : R[n].account = b
<1> DEFINE T == Touched(ids, to)
<1> DEFINE k == Cardinality(T)
<1> DEFINE order == SetToSeq(T)
<1> DEFINE row(n) == [AnchorRow(order[n], <<"move", moved + 1>>, today - 1, today,
                                Baseline(order[n], ids, to, inputs))
                      EXCEPT !.version = Len(versions) + n]
<1> DEFINE R == [n \in DOMAIN order |-> row(n)]
<1>1. TableOK /\ today \in Nat /\ moved \in Nat /\ Len(versions) \in Nat
  BY VersionsAre DEF IInv, Grounds, Books
<1>2. IsFiniteSet(T) /\ T \subseteq Accounts
  BY <1>1, TouchedFinite
<1>3. /\ k \in Nat /\ order \in [1 .. k -> T] /\ DOMAIN order = 1 .. k
      /\ \A m, n \in 1 .. k : order[m] = order[n] => m = n
      /\ \A b \in T : \E n \in 1 .. k : order[n] = b
  <2> HIDE DEF T
  <2> QED BY <1>2, SequenceOfSet, NothingLeftOut
<1>4. ASSUME NEW n \in 1 .. k
      PROVE  row(n) \in SavedBalances /\ ConfirmedRow(row(n), ids, to, inputs)
             /\ row(n).account = order[n]
  <2> DEFINE b == Baseline(order[n], ids, to, inputs)
  <2>1. order[n] \in Accounts /\ b \in Int /\ order[n] \in T
    BY <1>2, <1>3, BaselineInt
  <2> DEFINE period == <<"move", moved + 1>>
  <2>2. period \in Seq(Int \cup {"month", "manual", "move"})
    BY <1>1, ShortSeqs
  <2>3. row(n) = [account |-> order[n], period |-> period, cutoff |-> today - 1,
                  effective |-> today, balance |-> b, version |-> Len(versions) + n]
    BY DEF AnchorRow
  <2>4. Len(versions) + n \in Nat /\ today - 1 \in Int /\ today \in Int
    BY <1>1
  <2>5. ConfirmedRow(row(n), ids, to, inputs) /\ row(n).account = order[n]
    BY <2>1, <2>3 DEF ConfirmedRow
  <2> HIDE DEF b, period, order, row, k
  <2> QED BY <2>1, <2>2, <2>3, <2>4, <2>5 DEF SavedBalances
<1>5. resets' = resets \o R
  BY DEF ConfirmBalances
<1>6. /\ \A n \in 1 .. k : R[n] = row(n)
      /\ R = [n \in 1 .. k |-> R[n]]
  BY <1>3
<1> HIDE DEF R, row, order, k
<1>7. R \in [1 .. k -> SavedBalances]
  BY <1>4, <1>6
<1>8. \A m, n \in 1 .. k : R[m].account = R[n].account => m = n
  BY <1>3, <1>4, <1>6
<1>9. \A n \in 1 .. k : ConfirmedRow(R[n], ids, to, inputs)
  BY <1>4, <1>6
<1>10. \A b \in T : \E n \in 1 .. k : R[n].account = b
  BY <1>3, <1>4, <1>6
<1>11. /\ resets' = resets \o R
       /\ \A m, n \in 1 .. k : R[m].account = R[n].account => m = n
       /\ \A n \in 1 .. k : ConfirmedRow(R[n], ids, to, inputs)
       /\ \A b \in Touched(ids, to) : \E n \in 1 .. k : R[n].account = b
  BY <1>5, <1>8, <1>9, <1>10
<1>12. k \in Nat
  BY <1>3
<1> QED
  BY <1>7, <1>11, <1>12

LEMMA RollPeriods ==
    ASSUME Standing, Periods, RollForward
    PROVE  Periods'
<1>1. PICK k \in Nat : \E R \in [1 .. k -> SavedBalances] :
          /\ resets' = resets \o R
          /\ \A m, n \in 1 .. k : R[m].account = R[n].account => m = n
          /\ \A n \in 1 .. k : RolledRow(R[n])
          /\ \A b \in Unrolled : \E n \in 1 .. k : R[n].account = b
  BY RolledRows DEF Standing
<1>2. PICK R \in [1 .. k -> SavedBalances] :
          /\ resets' = resets \o R
          /\ \A m, n \in 1 .. k : R[m].account = R[n].account => m = n
          /\ \A n \in 1 .. k : RolledRow(R[n])
  BY <1>1
<1>3. moved \in Nat /\ moved' \in Nat /\ moved <= moved' /\ ResetsTyped
  BY DEF RollForward, otherVars, Standing, Grounds, Books
<1>4. \A n \in 1 .. k : FreshPeriod(R[n])
  <2> TAKE n \in 1 .. k
  <2>1. R[n].account \in Unrolled /\ R[n].period = <<"month", Month(today)>>
    BY <1>2 DEF RolledRow
  <2>2. R[n].period[1] = "month"
    BY <2>1
  <2>3. \A c \in Checkpoints(R[n].account) : resets[c].period # R[n].period
    BY <2>1 DEF Unrolled, PeriodRow
  <2> QED BY <2>2, <2>3 DEF FreshPeriod, OfDay
<1>5. /\ resets' = resets \o R
      /\ \A m, n \in 1 .. k : R[m].account = R[n].account => m = n
  BY <1>2
<1> QED
  BY <1>3, <1>4, <1>5, MorePeriods

LEMMA ConfirmPeriods ==
    ASSUME Standing, Periods, NEW ids, There(ids), NEW to \in accounts,
           NEW inputs \in Confirmations, inputs[1] # "none", ConfirmBalances(ids, to, inputs),
           moved' = moved + 1
    PROVE  Periods'
<1>1. PICK k \in Nat : \E R \in [1 .. k -> SavedBalances] :
          /\ resets' = resets \o R
          /\ \A m, n \in 1 .. k : R[m].account = R[n].account => m = n
          /\ \A n \in 1 .. k : ConfirmedRow(R[n], ids, to, inputs)
          /\ \A b \in Touched(ids, to) : \E n \in 1 .. k : R[n].account = b
  BY ConfirmedRows DEF Standing
<1>2. PICK R \in [1 .. k -> SavedBalances] :
          /\ resets' = resets \o R
          /\ \A m, n \in 1 .. k : R[m].account = R[n].account => m = n
          /\ \A n \in 1 .. k : ConfirmedRow(R[n], ids, to, inputs)
  BY <1>1
<1>3. moved \in Nat /\ moved' \in Nat /\ moved <= moved' /\ ResetsTyped
  BY DEF Standing, Grounds, Books
<1>4. \A n \in 1 .. k : FreshPeriod(R[n])
  <2> TAKE n \in 1 .. k
  <2>1. R[n].period = <<"move", moved + 1>> /\ R[n].account \in Accounts
    BY <1>2 DEF ConfirmedRow, SavedBalances
  <2>2. R[n].period[1] = "move" /\ R[n].period[2] = moved + 1
    BY <2>1
  <2>3. ASSUME NEW c \in Checkpoints(R[n].account), resets[c].period = R[n].period PROVE FALSE
    <3>1. resets[c].period[1] = "move" => resets[c].period[2] \in Nat /\ resets[c].period[2] <= moved
      BY <2>1 DEF Periods, Numbered
    <3> QED BY <1>3, <2>2, <2>3, <3>1
  <2> QED BY <1>3, <2>2, <2>3 DEF FreshPeriod, OfDay
<1>5. /\ resets' = resets \o R
      /\ \A m, n \in 1 .. k : R[m].account = R[n].account => m = n
  BY <1>2
<1> QED
  BY <1>3, <1>4, <1>5, MorePeriods

\* A move rewrites figures, or appends confirmed balances of a period no other has.
LEMMA MovePeriods ==
    ASSUME Standing, Periods, NEW ids, \A i \in ids : Live(i),
           NEW to \in accounts, NEW inputs \in Confirmations,
           NeedsBalances(ids, to) => inputs[1] # "none",
           Blockers(ids, to) = {}, ApplyMove(ids, to, inputs)
    PROVE  Periods'
<1> DEFINE E == Effective(ids, to)
<1>1. There(E) /\ revision' \in Int /\ \A i \in E : rows'[i].rev \in Int
  BY MovedTable DEF Standing
<1>2. moved' = moved + 1 /\ moved \in Nat
  BY DEF ApplyMove, Standing, Grounds
<1>3. CASE NeedsBalances(ids, to)
  <2>1. ConfirmBalances(E, to, inputs)
    BY <1>3 DEF ApplyMove
  <2> HIDE DEF E
  <2> QED BY <1>1, <1>2, <1>3, <2>1, ConfirmPeriods
<1>4. CASE ~NeedsBalances(ids, to)
  <2>1. CorrectSavedBalances(E, to)
    BY <1>4 DEF ApplyMove
  <2>2. Correctable(E, to)
    BY <1>4, MoveCorrectable
  <2>3. TableOK /\ Books /\ Len(rows) <= MaxRows
    BY DEF Standing, IInv, Grounds
  <2> HIDE DEF E
  <2>4. Renumbering
    BY <1>1, <2>1, <2>2, <2>3, MoveRenumbers
  <2> QED BY <1>2, <2>4, SamePeriods
<1> QED
  BY <1>3, <1>4

LEMMA CommitMovePeriods ==
    ASSUME Standing, Periods, CommitMove
    PROVE  Periods'
<1>1. UNCHANGED today /\ review # None /\ IInv /\ Grounds
  BY DEF CommitMove, Standing
<1> DEFINE ids == review.ids
<1> DEFINE to == review.to
<1> DEFINE inputs == review.inputs
<1> DEFINE Same == to \in accounts /\ (\A i \in ids : Live(i)) /\ Token(ids, to, inputs) = review.token
<1>2. CASE Same
  <2>1. ApplyMove(ids, to, inputs)
    BY <1>2 DEF CommitMove
  <2>2. Token(ids, to, inputs).blockers = Blockers(ids, to)
        /\ Token(ids, to, inputs).confirm = NeedsBalances(ids, to)
    BY DEF Token
  <2>3. Blockers(ids, to) = {} /\ review.token.confirm = NeedsBalances(ids, to)
    BY <1>1, <1>2, <2>2 DEF IInv, ReviewClear
  <2>4. inputs \in Confirmations /\ (review.token.confirm => inputs[1] # "none")
    BY <1>1 DEF Grounds
  <2> HIDE DEF ids, to, inputs
  <2> QED BY <1>1, <1>2, <2>1, <2>3, <2>4, MovePeriods
<1>3. CASE ~Same
  <2>1. UNCHANGED <<resets, moved>>
    BY <1>3 DEF CommitMove
  <2> QED BY <2>1 DEF Periods, OnePerPeriod, Numbered, DaysGrounded, Grounded, Checkpoints
<1> QED
  BY <1>2, <1>3

LEMMA MoveOnePeriods ==
    ASSUME Standing, Periods, NEW i, NEW to, MoveOne(i, to)
    PROVE  Periods'
<1>1. /\ to \in accounts /\ \A j \in {i} : Live(j)
      /\ ApplyMove({i}, to, <<"none">>) /\ Blockers({i}, to) = {}
      /\ NeedsBalances({i}, to) => <<"none">>[1] # "none"
  BY DEF MoveOne, CanCommit
<1>2. <<"none">> \in Confirmations
  BY DEF Confirmations
<1> QED
  BY <1>1, <1>2, MovePeriods

LEMMA PeriodsQuiet ==
    ASSUME Periods, UNCHANGED <<resets, moved>>
    PROVE  Periods'
BY DEF Periods, OnePerPeriod, Numbered, DaysGrounded, Grounded, Checkpoints

\* A typed balance is of a day no other one is of, or has a number of its own.
LEMMA OverridePeriods ==
    ASSUME Standing, Periods, NEW a \in accounts, NEW b \in Typed, Override(a, b)
    PROVE  Periods'
<1>1. /\ ResetsTyped /\ ResetFacts /\ a \in Accounts /\ today \in Nat /\ Placed
      /\ moved \in Nat /\ moved' = moved
  BY ResetsAre DEF Standing, IInv, TableOK, Grounds, Books, Override, otherVars
<1> DEFINE p == OverridePeriod(a)
<1> DEFINE E == OverrideEffective(a, p)
<1> DEFINE day == <<"manual", today, 0>>
<1>2. /\ E \in Int /\ E >= today - 1
      /\ \A e \in Checkpoints(a) :
            resets[e].period # p /\ resets[e].cutoff <= today - 1 => E >= resets[e].effective
      /\ \/ E = today - 1
         \/ \E e \in Checkpoints(a) : resets[e].period # p /\ resets[e].cutoff <= today - 1
                                      /\ E = resets[e].effective
  BY <1>1, EffectiveFacts
<1> DEFINE r == TypedRow(a, b)
<1>3. /\ r \in SavedBalances /\ r.account = a /\ r.period = p /\ r.cutoff = today - 1
      /\ r.effective = E
  BY OverrideRow DEF Standing, TypedRow, AnchorRow
<1>4. \/ PeriodRow(a, p) = {} /\ resets' = Append(resets, r)
      \/ \E c \in PeriodRow(a, p) : resets' = [resets EXCEPT ![c] = r]
  BY DEF Override, RecordAnchor, AddAnchor, ReplaceAnchor, TypedRow
<1>5. p = day \/ p = <<"manual", today, Len(resets) + 1>>
  BY DEF OverridePeriod
<1> HIDE DEF r, p, E
<1>6. CASE PeriodRow(a, p) = {} /\ resets' = Append(resets, r)
  <2> DEFINE k == 1
  <2> DEFINE R == [n \in 1 .. 1 |-> r]
  <2>1. resets' = resets \o R
    BY <1>1, <1>3, <1>6, OneMore DEF ResetsTyped
  <2>2. k \in Nat /\ R \in [1 .. k -> SavedBalances] /\ (\A n \in 1 .. k : R[n] = r)
        /\ \A m, n \in 1 .. k : R[m].account = R[n].account => m = n
    BY <1>3
  <2>3. FreshPeriod(r)
    <3>1. \A c \in Checkpoints(a) : resets[c].period # p
      BY <1>6 DEF PeriodRow
    <3>2. r.period[1] = "manual" /\ r.period[2] = today
      BY <1>3, <1>5
    <3>3. r.period[3] = 0 \/ r.period[3] = Len(resets) + 1
      BY <1>3, <1>5
    <3>4. DOMAIN resets' = 1 .. Len(resets) + 1
      BY <1>1, <1>3, <1>6 DEF ResetsTyped
    <3>5. r.cutoff = r.period[2] - 1
      BY <1>3, <3>2
    <3>6. GroundedOn(r)
      <4>1. CASE E = today - 1
        BY <1>1, <1>2, <1>3, <4>1 DEF GroundedOn
      <4>2. CASE \E e \in Checkpoints(a) : resets[e].period # p /\ resets[e].cutoff <= today - 1
                                           /\ E = resets[e].effective
        <5>1. PICK e \in Checkpoints(a) : resets[e].cutoff <= today - 1 /\ E = resets[e].effective
          BY <4>2
        <5>2. resets[e].cutoff <= r.cutoff /\ resets[e].effective >= r.effective
          BY <1>2, <1>3, <5>1
        <5> QED BY <1>3, <5>1, <5>2 DEF GroundedOn
      <4> QED BY <1>2, <4>1, <4>2
    <3>7. r.period[3] = 0 \/ r.period[3] \in DOMAIN resets'
      BY <1>1, <3>3, <3>4 DEF ResetFacts
    <3>8. r.period[1] # "move"
      BY <3>2
    <3> QED BY <1>3, <3>1, <3>5, <3>6, <3>7, <3>8 DEF FreshPeriod
  <2>4. moved' \in Nat /\ moved <= moved' /\ \A n \in 1 .. k : FreshPeriod(R[n])
    <3> HIDE DEF k, R
    <3> QED BY <1>1, <2>2, <2>3
  <2> HIDE DEF k, R
  <2> QED BY <1>1, <2>1, <2>2, <2>4, MorePeriods
<1>7. CASE \E c \in PeriodRow(a, p) : resets' = [resets EXCEPT ![c] = r]
  <2>1. PICK c \in PeriodRow(a, p) : resets' = [resets EXCEPT ![c] = r]
    BY <1>7
  <2>2. /\ c \in Checkpoints(a) /\ resets[c].period = p /\ c \in DOMAIN resets
        /\ resets[c] # None /\ c \in Nat /\ resets[c].account = a /\ resets[c] \in SavedBalances
    BY <1>1 DEF PeriodRow, Checkpoints, ResetFacts
  <2>3. p = day
    <3>1. CASE p = <<"manual", today, Len(resets) + 1>>
      <4>1. resets[c].period[1] = "manual" => resets[c].period[3] = 0
                             \/ resets[c].period[3] \in DOMAIN resets
        BY <1>1, <2>2 DEF Periods, Numbered
      <4>2. resets[c].period[1] = "manual" /\ resets[c].period[3] = Len(resets) + 1
        BY <2>2, <3>1
      <4> QED BY <1>1, <4>1, <4>2 DEF ResetFacts
    <3> QED BY <1>5, <3>1
  <2>4. /\ resets'[c] = r /\ DOMAIN resets' = DOMAIN resets
        /\ \A e \in DOMAIN resets : e # c => resets'[e] = resets[e]
    BY <2>1, <2>2
  <2>5. r # None
    BY <1>3, Something
  <2>6. ASSUME NEW d
        PROVE  /\ Checkpoints(d)' = Checkpoints(d)
               /\ \A e \in Checkpoints(d) : resets'[e].period = resets[e].period
                                            /\ (e # c => resets'[e] = resets[e])
    <3>1. Checkpoints(d)' = Checkpoints(d)
      BY <1>3, <2>2, <2>4, <2>5 DEF Checkpoints
    <3>2. \A e \in Checkpoints(d) : e \in DOMAIN resets
      BY DEF Checkpoints
    <3> QED BY <1>3, <2>2, <2>4, <3>1, <3>2
  <2>7. OnePerPeriod'
    BY <2>6 DEF Periods, OnePerPeriod
  <2>8. Numbered'
    <3> SUFFICES ASSUME NEW d \in Accounts, NEW e \in Checkpoints(d)'
                 PROVE  /\ resets'[e].period[1] = "manual" => resets'[e].period[3] = 0
                               \/ resets'[e].period[3] \in DOMAIN resets'
                        /\ resets'[e].period[1] = "move" =>
                               resets'[e].period[2] \in Nat /\ resets'[e].period[2] <= moved'
      BY DEF Numbered
    <3>1. e \in Checkpoints(d) /\ resets'[e].period = resets[e].period
      BY <2>6
    <3>2. /\ resets[e].period[1] = "manual" => resets[e].period[3] = 0
                               \/ resets[e].period[3] \in DOMAIN resets
          /\ resets[e].period[1] = "move" =>
                               resets[e].period[2] \in Nat /\ resets[e].period[2] <= moved
      BY <3>1 DEF Periods, Numbered
    <3> QED BY <1>1, <2>4, <3>1, <3>2
  <2>9. \A e \in Checkpoints(a) : e # c => resets[e].period # p
    BY <1>1, <2>2 DEF Periods, OnePerPeriod
  <2>10. OfDay(resets[c].period) /\ resets[c].period[2] = today
    BY <2>2, <2>3 DEF OfDay
  <2>11. resets[c].cutoff = today - 1 /\ Grounded(a, c)
    BY <1>1, <2>2, <2>10 DEF Periods, DaysGrounded
  <2>12. \A e \in Checkpoints(a) : /\ resets[e].cutoff \in Int /\ resets[e].effective \in Int
                                   /\ resets[e].cutoff <= today - 1
    BY <1>1 DEF Checkpoints, ResetFacts, SavedBalances, Placed
  <2>13. resets[c].effective <= E
    <3>1. CASE resets[c].effective <= resets[c].cutoff
      BY <1>1, <1>2, <2>2, <2>11, <2>12, <3>1
    <3>2. CASE \E e \in Checkpoints(a) : /\ e # c /\ resets[e].cutoff <= resets[c].cutoff
                                         /\ resets[e].effective >= resets[c].effective
      <4>1. PICK e \in Checkpoints(a) : e # c /\ resets[e].effective >= resets[c].effective
        BY <3>2
      <4>2. E >= resets[e].effective
        BY <1>2, <2>9, <2>12, <4>1
      <4> QED BY <1>2, <2>2, <2>12, <4>1, <4>2
    <3> QED BY <2>11, <3>1, <3>2 DEF Grounded
  <2>14. Grounded(a, c)'
    <3>1. CASE E = today - 1
      BY <1>1, <1>2, <1>3, <2>4, <3>1 DEF Grounded
    <3>2. CASE \E e \in Checkpoints(a) : resets[e].period # p /\ resets[e].cutoff <= today - 1
                                         /\ E = resets[e].effective
      <4>1. PICK e \in Checkpoints(a) : resets[e].period # p /\ resets[e].cutoff <= today - 1
                                        /\ E = resets[e].effective
        BY <3>2
      <4>2. e # c
        BY <2>2, <4>1
      <4>3. e \in Checkpoints(a)' /\ resets'[e] = resets[e]
        BY <2>6, <4>2
      <4>4. resets'[e].cutoff <= resets'[c].cutoff /\ resets'[e].effective >= resets'[c].effective
        BY <1>2, <1>3, <2>4, <4>1, <4>3
      <4> QED BY <4>2, <4>3, <4>4 DEF Grounded
    <3> QED BY <1>2, <3>1, <3>2
  <2>15. DaysGrounded'
    <3> SUFFICES ASSUME NEW d \in Accounts, NEW e \in Checkpoints(d)', OfDay(resets'[e].period)
                 PROVE  resets'[e].cutoff = resets'[e].period[2] - 1 /\ Grounded(d, e)'
      BY DEF DaysGrounded
    <3>1. CASE e = c
      <4>1. d = a
        BY <1>3, <2>4, <3>1 DEF Checkpoints
      <4> QED BY <1>3, <2>2, <2>4, <2>10, <2>14, <3>1, <4>1
    <3>2. CASE e # c
      <4>1. e \in Checkpoints(d) /\ resets'[e] = resets[e]
        BY <2>6, <3>2
      <4>2. resets[e].cutoff = resets[e].period[2] - 1 /\ Grounded(d, e)
        BY <4>1 DEF Periods, DaysGrounded
      <4>3. CASE resets[e].effective <= resets[e].cutoff
        BY <4>1, <4>2, <4>3 DEF Grounded
      <4>4. CASE \E f \in Checkpoints(d) : /\ f # e /\ resets[f].cutoff <= resets[e].cutoff
                                           /\ resets[f].effective >= resets[e].effective
        <5>1. PICK f \in Checkpoints(d) : /\ f # e /\ resets[f].cutoff <= resets[e].cutoff
                                          /\ resets[f].effective >= resets[e].effective
          BY <4>4
        <5>2. f \in Checkpoints(d)'
          BY <2>6
        <5>3. resets'[f].cutoff <= resets'[e].cutoff /\ resets'[f].effective >= resets'[e].effective
          <6>1. CASE f # c
            BY <2>6, <4>1, <5>1, <6>1
          <6>2. CASE f = c
            <7>1. d = a
              BY <2>2, <6>2 DEF Checkpoints
            <7>2. resets[e].effective \in Int /\ resets[c].effective \in Int /\ E \in Int
              BY <1>2, <2>2, <2>12, <4>1, <7>1
            <7>3. E >= resets[e].effective
              BY <2>13, <5>1, <6>2, <7>2
            <7> QED BY <1>3, <2>4, <2>11, <4>1, <5>1, <6>2, <7>3
          <6> QED BY <6>1, <6>2
        <5> QED BY <4>1, <4>2, <5>1, <5>2, <5>3 DEF Grounded
      <4> QED BY <4>2, <4>3, <4>4 DEF Grounded
    <3> QED BY <3>1, <3>2
  <2> QED BY <2>7, <2>8, <2>15 DEF Periods
<1> QED
  BY <1>4, <1>6, <1>7

LEMMA FlipPeriods ==
    ASSUME Standing, Periods, NEW ids, FlipSigns(ids)
    PROVE  Periods'
<1>1. TableOK /\ Books /\ (\A i \in ids : Live(i)) /\ CorrectCheckpoints(ids)
      /\ moved' = moved /\ moved \in Nat
  BY DEF FlipSigns, Standing, IInv, Grounds, otherVars
<1>2. Renumbering
  BY <1>1, FlipRenumbers
<1> QED
  BY <1>1, <1>2, SamePeriods

LEMMA BalanceStepPeriods == Standing /\ Periods /\ BalanceStep => Periods'
<1> SUFFICES ASSUME Standing, Periods, BalanceStep PROVE Periods'
  OBVIOUS
<1>1. CASE RollForward
  BY <1>1, RollPeriods
<1>2. CASE NextDay
  BY <1>2, PeriodsQuiet DEF NextDay, balanceVars
<1>3. ASSUME NEW a \in accounts, NEW b \in Typed, SetStartingBalance(a, b) PROVE Periods'
  BY <1>3, PeriodsQuiet DEF SetStartingBalance, otherVars
<1>4. ASSUME NEW a \in accounts, NEW b \in Typed, Override(a, b) PROVE Periods'
  BY <1>4, OverridePeriods
<1>5. ASSUME NEW ids, NEW to, NEW inputs, ReviewMove(ids, to, inputs) PROVE Periods'
  BY <1>5, PeriodsQuiet DEF ReviewMove, balanceVars
<1>6. CASE CommitMove
  BY <1>6, CommitMovePeriods
<1> QED
  BY <1>1, <1>2, <1>3, <1>4, <1>5, <1>6 DEF BalanceStep

LEMMA RowStepPeriods == Standing /\ Periods /\ RowStep => Periods'
<1> SUFFICES ASSUME Standing, Periods, RowStep PROVE Periods'
  OBVIOUS
<1>1. CASE \/ \E a \in accounts, d \in {0, today}, x \in Amounts : CreateTransaction(a, d, x)
           \/ \E i \in Ids, x \in Amounts : UpdateAmount(i, x)
           \/ \E i \in Ids, d \in Days : UpdateDate(i, d)
           \/ \E i \in Ids : DeleteTransaction(i) \/ RestoreTransaction(i)
  <2>1. UNCHANGED <<resets, moved>>
    BY <1>1 DEF CreateTransaction, UpdateAmount, UpdateDate, DeleteTransaction,
                RestoreTransaction, SetLive, ChangeRow, balanceVars, otherVars
  <2> QED BY <2>1, PeriodsQuiet
<1>2. CASE \E ids \in SUBSET Ids : FlipSigns(ids)
  BY <1>2, FlipPeriods
<1>3. CASE \E i \in Ids, to \in accounts : MoveOne(i, to)
  BY <1>3, MoveOnePeriods
<1> QED
  BY <1>1, <1>2, <1>3 DEF RowStep

LEMMA PairStepPeriods == Standing /\ Periods /\ PairStep => Periods'
<1> SUFFICES ASSUME Standing, Periods, PairStep PROVE Periods'
  OBVIOUS
<1>1. CASE \E a \in accounts : DeleteAccount(a)
  BY <1>1, DeletedPeriods DEF Standing, Grounds
<1>2. CASE ~ \E a \in accounts : DeleteAccount(a)
  <2>1. UNCHANGED <<resets, moved>>
    BY <1>2 DEF PairStep, LinkTransfer, UnlinkTransfer, DismissCandidates, RestoreCandidates,
                AutoLink, MarkReviewed, ApplyDebtPayment, UnapplyDebtPayment, balanceVars,
                otherVars
  <2> QED BY <2>1, PeriodsQuiet
<1> QED
  BY <1>1, <1>2

\* Every step keeps Periods.
LEMMA NextPeriods == Standing /\ Periods /\ [Next]_vars => Periods'
<1> SUFFICES ASSUME Standing, Periods, [Next]_vars PROVE Periods'
  OBVIOUS
<1>1. CASE UNCHANGED vars
  <2>1. UNCHANGED <<resets, moved>>
    BY <1>1 DEF vars
  <2> QED BY <2>1, PeriodsQuiet
<1>2. CASE ReconcileStep
  <2>1. UNCHANGED <<resets, moved>>
    BY <1>2 DEF ReconcileStep, Tick, FinishManual, ReviewStatement, FinishStatement, balanceVars,
                otherVars
  <2> QED BY <2>1, PeriodsQuiet
<1> QED
  BY <1>1, <1>2, BalanceStepPeriods, RowStepPeriods, PairStepPeriods DEF Next

LEMMA InitPeriods == Init => Periods
<1> SUFFICES ASSUME Init PROVE Periods
  OBVIOUS
<1>1. PICK table \in Tables : resets = TypedBefore(table.typed)
  BY DEF Init
<1> DEFINE typed == table.typed
<1>2. \A c, d \in DOMAIN typed : typed[c].account = typed[d].account => c = d
  BY TablesAssumption DEF TablesAssumption
<1>3. /\ DOMAIN resets = DOMAIN typed
      /\ \A c \in DOMAIN resets : /\ resets[c].account = typed[c].account /\ resets[c].cutoff = 0
                                  /\ resets[c].effective = 0
                                  /\ resets[c].period = <<"manual", 1, 0>>
  BY <1>1 DEF TypedBefore
<1> HIDE DEF typed
<1>4. OnePerPeriod
  BY <1>2, <1>3 DEF OnePerPeriod, Checkpoints
<1>5. \A c \in DOMAIN resets : /\ resets[c].period[1] = "manual" /\ resets[c].period[2] = 1
                               /\ resets[c].period[3] = 0
  BY <1>3
<1>6. Numbered
  BY <1>5 DEF Numbered, Checkpoints
<1>7. DaysGrounded
  BY <1>3, <1>5 DEF DaysGrounded, Grounded, Checkpoints
<1> QED
  BY <1>4, <1>6, <1>7 DEF Periods

\* The balance a person types is the balance shown afterwards: the baseline saved for
\* it, with the rows already there on its day, comes out at the figure typed, and no
\* other balance of the account outranks it (set_account_balance_override in accounts.rs).
THEOREM TypedBalanceIsShown == Spec => TypedBalanceShown
<1> DEFINE Inv == Standing /\ Periods
<1> DEFINE Shown2 == \A a \in Accounts, b \in Typed : Override(a, b) => BalanceAsOf(a, today)' = b
<1>1. Init => Inv
  BY StandingInit, InitPeriods
<1>2. Inv /\ [Next]_vars => Inv'
  BY StandingNext, NextPeriods
<1>3. Inv /\ [Next]_vars => [Shown2]_vars
  <2> SUFFICES ASSUME Inv, [Next]_vars, NEW a \in Accounts, NEW b \in Typed, Override(a, b)
               PROVE  BalanceAsOf(a, today)' = b
    OBVIOUS
  <2>1. a \in accounts
    BY DEF Override
  <2>2. Books'
    BY <1>2 DEF Standing
  <2> QED BY <2>1, <2>2, TypedShown
<1>4. TypedBalanceShown <=> [][Shown2]_vars
  BY DEF TypedBalanceShown
<1> HIDE DEF Inv, Shown2
<1> QED
  BY <1>1, <1>2, <1>3, <1>4, PTL DEF Spec

(* -- What a move shows ------------------------------------------------------- *)

\* The moved rows are in the other account, as they were; no other row changes.
MovesRows(E, to) ==
    /\ Ids' = Ids /\ \A i \in Ids : i \notin E => rows'[i] = rows[i]
    /\ \A i \in E : /\ rows'[i] # None /\ rows'[i].account = to /\ rows'[i].live
                    /\ rows'[i].day = rows[i].day /\ rows'[i].amount = rows[i].amount
                    /\ rows[i].account # to /\ Live(i)
\* A move changes the account and revision of the rows it takes along, nothing else.
LEMMA MovedRows ==
    ASSUME IInv, NEW ids, \A i \in ids : Live(i), NEW to \in accounts,
           NEW inputs, ApplyMove(ids, to, inputs)
    PROVE  MovesRows(Effective(ids, to), to)
<1> DEFINE E == Effective(ids, to)
<1> DEFINE new == [i \in E |-> MovedRow(i, to)]
<1>1. UpdateRows(new) /\ TableOK
  BY DEF ApplyMove, IInv
<1>2. \A i \in E : i \in Ids /\ rows[i] \in Transactions /\ rows[i] # None /\ rows[i].live
                   /\ rows[i].account # to
  BY RowFacts DEF IInv, Effective, Live
<1>3. \A i \in E : MovedRow(i, to) \in Transactions
  BY <1>2 DEF MovedRow, Transactions, IInv, TableOK
<1>4. DOMAIN new = E /\ DOMAIN new \subseteq Ids /\ \A i \in DOMAIN new : new[i] \in Transactions
  BY <1>2, <1>3
<1> HIDE DEF new
<1>5. /\ Ids' = Ids /\ \A i \in Ids : i \notin DOMAIN new => rows'[i] = rows[i]
      /\ \A i \in DOMAIN new : rows'[i] \in Transactions
  BY <1>1, <1>4, UpdateRowsFacts
<1>6. ASSUME NEW i \in E
      PROVE  /\ rows'[i].account = to /\ rows'[i].live
             /\ rows'[i].day = rows[i].day /\ rows'[i].amount = rows[i].amount
  <2>1. rows'[i] = [new[i] EXCEPT !.rev = Stamp(new, i)] \/ rows'[i] = new[i]
    BY <1>1, <1>4 DEF UpdateRows, Updated
  <2>2. new[i] = MovedRow(i, to)
    BY DEF new
  <2>3. new[i].account = to /\ new[i].live /\ new[i].day = rows[i].day
        /\ new[i].amount = rows[i].amount /\ new[i] \in Transactions
    BY <1>2, <1>3, <2>2 DEF MovedRow, Transactions
  <2> QED BY <2>1, <2>3 DEF Transactions
<1>7. \A i \in E : rows'[i] # None
  BY <1>4, <1>5, LedgerAssumption DEF LedgerAssumption
<1> QED
  BY <1>2, <1>4, <1>5, <1>6, <1>7 DEF MovesRows, Live, Exists

\* What an interval gains or loses with the rows that move.
MovingIn(S, m, n) == {i \in S : rows[i].day <= n /\ rows[i].day > m}
\* What an interval of an account totals after a move: what it totalled, less the rows
\* that left, or more those that arrived.
LEMMA MovedInterval ==
    ASSUME TableOK, NEW E, NEW to, MovesRows(E, to), NEW a, NEW m, NEW n,
           NEW S, S = IntervalRows(a, m, n)'
    PROVE  LET M == MovingIn(Moving(a, E, to), m, n)
           IN  /\ Total(M) \in Int /\ Total(IntervalRows(a, m, n)) \in Int
               /\ SumFunction([i \in S |-> rows'[i].amount])
                  = Total(IntervalRows(a, m, n)) + (IF a = to THEN 1 ELSE -1) * Total(M)
<1> DEFINE M == MovingIn(Moving(a, E, to), m, n)
<1> DEFINE I == IntervalRows(a, m, n)
<1>1. S = {i \in Ids : /\ rows'[i] # None /\ rows'[i].live /\ rows'[i].account = a
                       /\ rows'[i].day > m /\ rows'[i].day <= n}
  <2>1. Ids' = Ids
    BY DEF MovesRows
  <2> QED BY <2>1 DEF IntervalRows, LiveRows, Live, Exists
<1>2. I = {i \in Ids : /\ rows[i] # None /\ rows[i].live /\ rows[i].account = a
                       /\ rows[i].day > m /\ rows[i].day <= n}
  BY DEF IntervalRows, LiveRows, Live, Exists
<1>3. M = {i \in E : /\ (IF a = to THEN TRUE ELSE rows[i].account = a)
                     /\ rows[i].day > m /\ rows[i].day <= n}
  BY DEF MovingIn, Moving, Effective, Leaving, MovesRows
<1>4. \A i \in E : i \in Ids /\ rows[i] # None /\ rows[i].live
  BY DEF MovesRows, Live, Exists
<1>5. S \subseteq Ids /\ I \subseteq Ids /\ M \subseteq Ids
      /\ \A i \in S \cup I \cup M : rows[i] # None
  <2>1. \A i \in S : rows[i] # None
    BY <1>1, <1>4 DEF MovesRows
  <2> QED BY <1>1, <1>2, <1>3, <1>4, <2>1
<1>6. IF a = to THEN S = I \cup M /\ I \cap M = {} ELSE I = S \cup M /\ S \cap M = {}
  <2>1. CASE a = to
    <3>1. \A i \in S : i \in I \cup M
      BY <1>1, <1>2, <1>3, <2>1 DEF MovesRows
    <3>2. \A i \in I \cup M : i \in S
      BY <1>1, <1>2, <1>3, <1>4, <2>1 DEF MovesRows
    <3>3. \A i \in I : i \notin M
      BY <1>2, <1>3, <2>1 DEF MovesRows
    <3> QED BY <2>1, <3>1, <3>2, <3>3
  <2>2. CASE a # to
    <3>1. \A i \in S : i \in I /\ i \notin M
      BY <1>1, <1>2, <1>3, <2>2 DEF MovesRows
    <3>2. \A i \in I : i \in S \cup M
      BY <1>1, <1>2, <1>3, <2>2 DEF MovesRows
    <3>3. \A i \in M : i \in I
      BY <1>2, <1>3, <1>4, <2>2
    <3> QED BY <2>2, <3>1, <3>2, <3>3
  <2> QED BY <2>1, <2>2
<1>7. S \subseteq DOMAIN rows' /\ \A i \in S : rows'[i].amount = rows[i].amount
  <2>1. Ids' = Ids
    BY DEF MovesRows
  <2> QED BY <1>1, <2>1 DEF MovesRows, Ids
<1> HIDE DEF M, I
<1>8. /\ IsFiniteSet(S) /\ IsFiniteSet(I) /\ IsFiniteSet(M)
      /\ Total(I) = Sum(Worth(rows), I) /\ Total(M) = Sum(Worth(rows), M)
      /\ Total(I) \in Int /\ Total(M) \in Int
      /\ \A i \in S \cup I \cup M : Worth(rows)[i] = rows[i].amount /\ Worth(rows)[i] \in Int
  BY <1>5, RowsTotal
<1>9. Sum(Worth(rows), S) \in Int
  BY <1>5, RowsTotal
<1>10. SumFunction([i \in S |-> rows'[i].amount]) = Sum(Worth(rows), S)
  <2>1. SumFunction([i \in S |-> rows'[i].amount]) = Sum(Worth(rows'), S)
    BY <1>7, <1>8, TotalOfTable
  <2>2. \A i \in S : Worth(rows')[i] = Worth(rows)[i]
    BY <1>7, <1>8 DEF Worth
  <2> QED BY <1>8, <2>1, <2>2, SumSame
<1>11. CASE a = to
  <2>1. S = I \cup M /\ I \cap M = {}
    BY <1>6, <1>11
  <2>2. Sum(Worth(rows), I \cup M) = Sum(Worth(rows), I) + Sum(Worth(rows), M)
    BY <1>8, <2>1, SumOfUnion
  <2>3. Sum(Worth(rows), S) = Total(I) + Total(M)
    BY <1>8, <2>1, <2>2
  <2> QED BY <1>8, <1>10, <1>11, <2>3 DEF M, I
<1>12. CASE a # to
  <2>1. I = S \cup M /\ S \cap M = {}
    BY <1>6, <1>12
  <2>2. Sum(Worth(rows), S \cup M) = Sum(Worth(rows), S) + Sum(Worth(rows), M)
    BY <1>8, <2>1, SumOfUnion
  <2>3. Sum(Worth(rows), S) = Total(I) - Total(M)
    BY <1>8, <1>9, <2>1, <2>2
  <2> QED BY <1>8, <1>10, <1>12, <2>3 DEF M, I
<1> QED
  BY <1>11, <1>12

\* A balance after a step, read from the balance then in force.
LEMMA BalanceNext ==
    ASSUME NEW a, NEW d, NEW c, c = LatestCheckpoint(a, d)',
           NEW m, m = Since(c)', NEW S, S = IntervalRows(a, m, d)'
    PROVE  BalanceAsOf(a, d)' = Base(a, c)' + Dir(a) * SumFunction([i \in S |-> rows'[i].amount])
<1>1. BalanceAsOf(a, d)' = Base(a, c)' + Dir(a) * Total(S)'
  BY DEF BalanceAsOf
<1>2. Total(S)' = SumFunction([i \in S |-> rows'[i].amount])
  BY DEF Total
<1> QED
  BY <1>1, <1>2

\* Saved balances that keep their places keep their order.
LEMMA SameLatest ==
    ASSUME ResetsTyped, ResetsTyped', Renumbering, NEW a, NEW d
    PROVE  LatestCheckpoint(a, d)' = LatestCheckpoint(a, d)
<1>1. LatestHolds /\ LatestHolds'
  BY LatestFacts, LatestFactsNext
<1>2. /\ Checkpoints(a)' = Checkpoints(a)
      /\ \A c \in Checkpoints(a) : SamePlace(resets'[c], resets[c])
  BY DEF Renumbering, Checkpoints, SamePlace
<1>3. Eligible(a, d)' = Eligible(a, d) /\ \A c \in Eligible(a, d) : c \in Checkpoints(a)
  BY <1>2 DEF Eligible, SamePlace
<1>4. \A c, e \in Eligible(a, d) : Supersedes(c, e)' <=> Supersedes(c, e)
  BY <1>2, <1>3 DEF Supersedes, SamePlace
<1>5. CASE Eligible(a, d) = {}
  BY <1>1, <1>3, <1>5 DEF LatestHolds
<1>6. CASE Eligible(a, d) # {}
  <2>1. PICK L : L = LatestCheckpoint(a, d)
    OBVIOUS
  <2>2. L \in Eligible(a, d) /\ \A e \in Eligible(a, d) : Supersedes(L, e)
    BY <1>1, <1>6, <2>1 DEF LatestHolds
  <2>3. L \in Eligible(a, d)' /\ \A e \in Eligible(a, d)' : Supersedes(L, e)'
    BY <1>3, <1>4, <2>2
  <2>4. LatestCheckpoint(a, d)' = L
    BY <1>1, <2>3 DEF LatestHolds
  <2> QED BY <2>1, <2>4
<1> QED
  BY <1>5, <1>6

\* Corrected along the records, a balance changes by what the saved balance below it
\* changes by, and by the rows that moved since.
LEMMA CorrectedBalance ==
    ASSUME Standing, Books', UNCHANGED opening, NEW E, NEW to, There(E), Correctable(E, to),
           MovesRows(E, to), \A i \in E : rows'[i].rev \in Int, CorrectSavedBalances(E, to),
           NEW a \in Accounts, NEW d, NEW L, L = LatestCheckpoint(a, d)
    PROVE  LET M == MovingIn(Moving(a, E, to), Since(L), d)
               fix == IF L = 0 THEN 0 ELSE MoveDelta(E, to, L)
           IN  /\ fix \in Int /\ Total(M) \in Int
               /\ BalanceAsOf(a, d)' = (BalanceAsOf(a, d) + fix)
                                       + Dir(a) * ((IF a = to THEN 1 ELSE -1) * Total(M))
<1> DEFINE M == MovingIn(Moving(a, E, to), Since(L), d)
<1> DEFINE fix == IF L = 0 THEN 0 ELSE MoveDelta(E, to, L)
<1> DEFINE sign == IF a = to THEN 1 ELSE -1
<1>1. /\ TableOK /\ Books /\ Len(rows) <= MaxRows /\ ResetsTyped /\ ResetsTyped'
      /\ opening[a] \in Int
  BY DEF Standing, IInv, Grounds, Books
<1>2. /\ Renumbering
      /\ \A c \in DOMAIN resets : resets[c] # None =>
            /\ MoveDelta(E, to, c) \in Int
            /\ resets'[c].balance = resets[c].balance + MoveDelta(E, to, c)
  BY <1>1, MoveRenumbers
<1>3. L = LatestCheckpoint(a, d)'
  BY <1>1, <1>2, SameLatest
<1>4. L # 0 => /\ L \in DOMAIN resets /\ resets[L] # None /\ resets[L].account = a
               /\ resets[L] \in SavedBalances
  BY <1>1, LatestIs
<1>5. fix \in Int /\ Since(L)' = Since(L) /\ Base(a, L)' = Base(a, L) + fix /\ Base(a, L) \in Int
  <2>1. CASE L = 0
    BY <1>1, <2>1 DEF Since, Base
  <2>2. CASE L # 0
    <3>1. MoveDelta(E, to, L) = fix
      BY <2>2
    <3>2. MoveDelta(E, to, L) \in Int
          /\ resets'[L].balance = resets[L].balance + MoveDelta(E, to, L)
      BY <1>2, <1>4, <2>2
    <3>3. resets'[L].cutoff = resets[L].cutoff /\ resets[L].balance \in Int
      BY <1>2, <1>4, <2>2 DEF Renumbering, SamePlace, SavedBalances
    <3>4. /\ Since(L) = resets[L].cutoff /\ Base(a, L) = resets[L].balance
          /\ Since(L)' = resets'[L].cutoff /\ Base(a, L)' = resets'[L].balance
      BY <2>2 DEF Since, Base
    <3> HIDE DEF fix
    <3> QED BY <3>1, <3>2, <3>3, <3>4
  <2> QED BY <2>1, <2>2
<1>6. PICK S : S = IntervalRows(a, Since(L), d)'
  OBVIOUS
<1> DEFINE m == Since(L)
<1> DEFINE I == IntervalRows(a, m, d)
<1>7. PICK n : n = m
  OBVIOUS
<1>8. n = Since(L)' /\ S = IntervalRows(a, n, d)'
  BY <1>5, <1>6, <1>7
<1>9. BalanceAsOf(a, d)' = Base(a, L)' + Dir(a) * SumFunction([i \in S |-> rows'[i].amount])
  BY <1>3, <1>8, BalanceNext
<1>10. /\ Total(M) \in Int /\ Total(I) \in Int
       /\ SumFunction([i \in S |-> rows'[i].amount]) = Total(I) + sign * Total(M)
  BY <1>1, <1>7, <1>8, MovedInterval
<1>11. BalanceAsOf(a, d) = Base(a, L) + Dir(a) * Total(I)
  BY BalanceFrom
<1> DEFINE x == Total(I)
<1> DEFINE y == Total(M)
<1>12. /\ BalanceAsOf(a, d)' = (Base(a, L) + fix) + Dir(a) * (x + sign * y)
       /\ BalanceAsOf(a, d) = Base(a, L) + Dir(a) * x
       /\ x \in Int /\ y \in Int /\ sign \in {1, -1}
  BY <1>5, <1>9, <1>10, <1>11
<1> HIDE DEF x, y, fix, sign
<1>13. BalanceAsOf(a, d)' = (BalanceAsOf(a, d) + fix) + Dir(a) * (sign * y)
  <2>1. PICK s : s = sign * y
    OBVIOUS
  <2>2. s \in Int
    BY <1>12, <2>1
  <2>3. CASE Dir(a) = 1
    BY <1>5, <1>12, <2>1, <2>2, <2>3
  <2>4. CASE Dir(a) = -1
    BY <1>5, <1>12, <2>1, <2>2, <2>4
  <2> QED BY <2>3, <2>4, DirIs
<1> QED
  BY <1>5, <1>10, <1>13 DEF y, fix, sign

\* A confirmed balance is the one saved last, and what is there today leads to what was
\* confirmed.
LEMMA ConfirmedBalance ==
    ASSUME Standing, Books', UNCHANGED <<opening, today>>, NEW E, NEW to \in accounts, There(E),
           Effective(E, to) = E, MovesRows(E, to),
           NEW inputs \in Confirmations, inputs[1] # "none",
           ConfirmBalances(E, to, inputs), NEW a \in Touched(E, to), a \in Accounts
    PROVE  BalanceAsOf(a, today)' = Confirmed(a, inputs)
<1>0. IInv /\ Grounds /\ Books
  BY DEF Standing
<1>1. PICK k \in Nat : \E R \in [1 .. k -> SavedBalances] :
          /\ resets' = resets \o R
          /\ \A m, n \in 1 .. k : R[m].account = R[n].account => m = n
          /\ \A n \in 1 .. k : ConfirmedRow(R[n], E, to, inputs)
          /\ \A b \in Touched(E, to) : \E n \in 1 .. k : R[n].account = b
  BY <1>0, ConfirmedRows
<1>2. PICK R \in [1 .. k -> SavedBalances] :
          /\ resets' = resets \o R
          /\ \A m, n \in 1 .. k : R[m].account = R[n].account => m = n
          /\ \A n \in 1 .. k : ConfirmedRow(R[n], E, to, inputs)
          /\ \A b \in Touched(E, to) : \E n \in 1 .. k : R[n].account = b
  BY <1>1
<1>3. /\ TableOK /\ ResetsTyped /\ ResetFacts /\ Placed /\ today \in Nat /\ LatestHolds'
  BY ResetsAre, LatestFactsNext DEF Standing, IInv, Grounds, Books
<1>4. PICK n \in 1 .. k : R[n].account = a
  BY <1>2
<1>5. Gained(a, k, R)
  BY <1>2, <1>3, OneMoreEach
<1>6. PICK c : c = Len(resets) + n
  OBVIOUS
<1>7. /\ Len(resets) \in Nat /\ c \in Checkpoints(a)' /\ resets'[c] = R[n]
      /\ Checkpoints(a)' = Checkpoints(a) \cup {c}
      /\ \A e \in Checkpoints(a) : resets'[e] = resets[e] /\ e \in 1 .. Len(resets)
  BY <1>4, <1>5, <1>6 DEF Gained
<1>8. /\ R[n].cutoff = today - 1 /\ R[n].effective = today
      /\ R[n].balance = Baseline(a, E, to, inputs)
  BY <1>2, <1>4 DEF ConfirmedRow
<1>9. c \in Eligible(a, today)'
  BY <1>3, <1>7, <1>8 DEF Eligible
<1>10. \A e \in Checkpoints(a) : /\ resets[e].cutoff \in Int /\ resets[e].effective \in Int
                                 /\ resets[e].cutoff <= today - 1 /\ resets[e].effective <= today
  BY <1>3 DEF Checkpoints, ResetFacts, SavedBalances, Placed
<1>11. \A e \in Eligible(a, today)' : Supersedes(c, e)'
  <2> SUFFICES ASSUME NEW e \in Checkpoints(a)' PROVE Supersedes(c, e)'
    BY DEF Eligible
  <2>1. CASE e = c
    BY <1>3, <1>6, <1>7, <1>8, <2>1 DEF Supersedes
  <2>2. CASE e # c
    <3>1. e \in Checkpoints(a) /\ resets'[e] = resets[e] /\ e \in Nat /\ c >= e /\ c \in Nat
      BY <1>6, <1>7, <2>2
    <3> QED BY <1>3, <1>7, <1>8, <1>10, <3>1 DEF Supersedes
  <2> QED BY <2>1, <2>2
<1>12. c = LatestCheckpoint(a, today)'
  BY <1>3, <1>9, <1>11 DEF LatestHolds
<1>13. PICK m : m = today - 1
  OBVIOUS
<1>14. PICK d : d = today
  OBVIOUS
<1>15. PICK S : S = IntervalRows(a, m, d)'
  OBVIOUS
<1>16. c # 0 /\ m = Since(c)' /\ Base(a, c)' = Baseline(a, E, to, inputs)
  BY <1>6, <1>7, <1>8, <1>13 DEF Since, Base
<1>17. c = LatestCheckpoint(a, d)' /\ BalanceAsOf(a, today)' = BalanceAsOf(a, d)'
  <2>1. today' = d
    BY <1>14
  <2> QED BY <1>12, <2>1 DEF LatestCheckpoint, BalanceAsOf
<1>18. BalanceAsOf(a, d)' = Base(a, c)' + Dir(a) * SumFunction([i \in S |-> rows'[i].amount])
  BY <1>15, <1>16, <1>17, BalanceNext
<1> DEFINE M == MovingIn(Moving(a, E, to), m, d)
<1> DEFINE I == IntervalRows(a, m, d)
<1> DEFINE sign == IF a = to THEN 1 ELSE -1
<1>19. /\ Total(M) \in Int /\ Total(I) \in Int
       /\ SumFunction([i \in S |-> rows'[i].amount]) = Total(I) + sign * Total(M)
  BY <1>3, <1>15, MovedInterval
<1>20. ActivityToday(a, E, to) = Total(I) + sign * Total(M)
  <2> DEFINE N == {i \in Moving(a, Effective(E, to), to) : rows[i].day = today}
  <2>1. \A i \in Moving(a, E, to) : rows[i].day \in Int
    <3>1. \A i \in Moving(a, E, to) : i \in Ids /\ rows[i] # None
      BY DEF There, Moving, Effective, Leaving
    <3> QED BY <1>3, <3>1, RowFacts DEF RowOrNone, Transactions
  <2>2. N = M
    <3>1. \A i \in Moving(a, E, to) : rows[i].day = today
                                      <=> rows[i].day <= d /\ rows[i].day > m
      BY <1>3, <1>13, <1>14, <2>1
    <3> QED BY <3>1 DEF MovingIn
  <2>3. I = IntervalRows(a, today - 1, today)
    BY <1>13, <1>14
  <2> DEFINE now == Total(IntervalRows(a, today - 1, today))
  <2>4. ActivityToday(a, E, to) = IF a = to THEN now + Total(N) ELSE now - Total(N)
    BY DEF ActivityToday
  <2>5. now = Total(I)
    BY <2>3
  <2> HIDE DEF N, M, I, now
  <2> QED BY <1>19, <2>2, <2>4, <2>5
<1> DEFINE act == ActivityToday(a, E, to)
<1> DEFINE said == Confirmed(a, inputs)
<1>21. Baseline(a, E, to, inputs) = said - Dir(a) * act /\ Baseline(a, E, to, inputs) \in Int
  BY BaselineInt DEF Baseline, Standing
<1>22. act \in Int
  <2> HIDE DEF I, M, act
  <2>1. sign * Total(M) \in Int
    BY <1>19
  <2> QED BY <1>19, <1>20, <2>1 DEF act
<1>23. said \in Int
  <2>1. /\ TableOK /\ ResetsTyped /\ opening \in [Accounts -> Int]
    BY DEF Standing, IInv, Books, Grounds
  <2>2. CASE inputs[1] = "keep"
    BY <2>1, <2>2, BalanceInt DEF Confirmed
  <2>3. CASE inputs[1] # "keep"
    <3>1. PICK b \in Typed : inputs = <<"set", b>>
      BY <2>3 DEF Confirmations
    <3>2. inputs[2] = b /\ b \in Int
      BY <3>1, LedgerAssumption DEF LedgerAssumption
    <3> QED BY <2>1, <2>3, <3>2 DEF Confirmed, Shown
  <2> QED BY <2>2, <2>3
<1>24. BalanceAsOf(a, today)' = (said - Dir(a) * act) + Dir(a) * act
  <2> HIDE DEF act, said
  <2> QED BY <1>16, <1>17, <1>18, <1>19, <1>20, <1>21 DEF act
<1> HIDE DEF act, said
<1>25. BalanceAsOf(a, today)' = said
  BY <1>22, <1>23, <1>24, DirIs
<1> QED
  BY <1>25 DEF said

\* Only the commit of a review that still says what is there writes a reviewed move.
LEMMA ReviewedMove ==
    ASSUME Standing, [Next]_vars, moved' > moved, review # None, review' = None
    PROVE  /\ review.to \in accounts /\ \A i \in review.ids : Live(i)
           /\ Token(review.ids, review.to, review.inputs) = review.token
           /\ ApplyMove(review.ids, review.to, review.inputs)
           /\ UNCHANGED <<opening, today>>
<1>1. moved \in Nat
  BY DEF Standing, Grounds
<1>2. moved' # moved
  BY <1>1
<1>3. CommitMove
  <2>1. CASE UNCHANGED vars
    BY <1>2, <2>1 DEF vars
  <2>2. CASE RowStep
    <3>1. CASE \E i \in Ids, to \in accounts : MoveOne(i, to)
      BY <3>1 DEF MoveOne
    <3>2. CASE ~ \E i \in Ids, to \in accounts : MoveOne(i, to)
      <4>1. UNCHANGED moved
        BY <2>2, <3>2 DEF RowStep, CreateTransaction, UpdateAmount, UpdateDate,
           DeleteTransaction, RestoreTransaction, SetLive, ChangeRow, FlipSigns, otherVars
      <4> QED BY <1>2, <4>1
    <3> QED BY <3>1, <3>2
  <2>3. CASE PairStep
    <3>1. UNCHANGED moved
      BY <2>3 DEF PairStep, LinkTransfer, UnlinkTransfer, DismissCandidates, RestoreCandidates,
                  AutoLink, MarkReviewed, ApplyDebtPayment, UnapplyDebtPayment, DeleteAccount,
                  otherVars
    <3> QED BY <1>2, <3>1
  <2>4. CASE ReconcileStep
    <3>1. UNCHANGED moved
      BY <2>4 DEF ReconcileStep, Tick, FinishManual, ReviewStatement, FinishStatement, otherVars
    <3> QED BY <1>2, <3>1
  <2>5. CASE BalanceStep
    <3>1. CASE CommitMove
      BY <3>1
    <3>2. CASE ~CommitMove
      <4>1. UNCHANGED moved
        BY <2>5, <3>2 DEF BalanceStep, RollForward, NextDay, SetStartingBalance, Override,
                          ReviewMove, otherVars
      <4> QED BY <1>2, <4>1
    <3> QED BY <3>1, <3>2
  <2> QED BY <2>1, <2>2, <2>3, <2>4, <2>5 DEF Next
<1> QED
  BY <1>2, <1>3 DEF CommitMove

\* What the steps before the commit established about it.
CommitIs(ids, to, inputs, E) ==
    /\ to \in accounts /\ There(E)
    /\ review.token.projected = Projected(ids, to, inputs)
    /\ review.token.confirm = NeedsBalances(ids, to)
    /\ review.token.moving = [i \in E |-> rows[i]]
    /\ inputs \in Confirmations /\ (NeedsBalances(ids, to) => inputs[1] # "none")
    /\ MovesRows(E, to)
    /\ \A i \in E : rows'[i].rev \in Int
    /\ NeedsBalances(ids, to) => ConfirmBalances(E, to, inputs)
    /\ ~NeedsBalances(ids, to) => CorrectSavedBalances(E, to) /\ Correctable(E, to)
    /\ UNCHANGED <<opening, today>>
\* A committed move is one whose review still holds: same rows, same figures.
LEMMA CommitFacts ==
    ASSUME Standing, [Next]_vars, moved' > moved, review # None, review' = None,
           NEW ids, ids = review.ids, NEW to, to = review.to, NEW inputs, inputs = review.inputs
    PROVE  CommitIs(ids, to, inputs, Effective(ids, to))
<1>1. /\ to \in accounts /\ \A i \in ids : Live(i)
      /\ Token(ids, to, inputs) = review.token
      /\ ApplyMove(ids, to, inputs)
      /\ UNCHANGED <<opening, today>>
  BY ReviewedMove
<1>2. /\ Token(ids, to, inputs).blockers = Blockers(ids, to)
      /\ Token(ids, to, inputs).confirm = NeedsBalances(ids, to)
      /\ Token(ids, to, inputs).projected = Projected(ids, to, inputs)
      /\ Token(ids, to, inputs).moving = [i \in Effective(ids, to) |-> rows[i]]
  BY DEF Token
<1>3. IInv /\ Grounds
  BY DEF Standing
<1>4. Blockers(ids, to) = {}
  BY <1>1, <1>2, <1>3 DEF IInv, ReviewClear
<1>5. inputs \in Confirmations /\ (review.token.confirm => inputs[1] # "none")
  BY <1>3 DEF Grounds
<1>6. /\ There(Effective(ids, to)) /\ \A i \in Effective(ids, to) : rows'[i].rev \in Int
  BY <1>1, <1>3, MovedTable
<1>7. MovesRows(Effective(ids, to), to)
  BY <1>1, <1>3, MovedRows
<1>8. ~NeedsBalances(ids, to) => Correctable(Effective(ids, to), to)
  BY <1>4, MoveCorrectable
<1>9. IF NeedsBalances(ids, to) THEN ConfirmBalances(Effective(ids, to), to, inputs)
      ELSE CorrectSavedBalances(Effective(ids, to), to)
  BY <1>1 DEF ApplyMove
<1> QED
  BY <1>1, <1>2, <1>5, <1>6, <1>7, <1>8, <1>9 DEF CommitIs

\* The result of a corrected move is the one computed for the review.
LEMMA CorrectedAsShown ==
    ASSUME Standing, Books', UNCHANGED <<opening, today>>, NEW E, NEW to, There(E),
           Effective(E, to) = E, Correctable(E, to), MovesRows(E, to),
           \A i \in E : rows'[i].rev \in Int, CorrectSavedBalances(E, to),
           NEW a \in Touched(E, to), a \in Accounts
    PROVE  BalanceAsOf(a, today)' = AutomaticProjection(a, E, to)
<1>1. PICK d : d = today
  OBVIOUS
<1>2. PICK L : L = LatestCheckpoint(a, d)
  OBVIOUS
<1> DEFINE M == MovingIn(Moving(a, E, to), Since(L), d)
<1> DEFINE fix == IF L = 0 THEN 0 ELSE MoveDelta(E, to, L)
<1> DEFINE sign == IF a = to THEN 1 ELSE -1
<1>3. /\ fix \in Int /\ Total(M) \in Int
      /\ BalanceAsOf(a, d)' = (BalanceAsOf(a, d) + fix) + Dir(a) * (sign * Total(M))
  BY <1>2, CorrectedBalance
<1>4. BalanceAsOf(a, today)' = BalanceAsOf(a, d)'
  <2>1. today' = d
    BY <1>1
  <2> QED BY <2>1 DEF LatestCheckpoint, BalanceAsOf
<1>5. fix = IF L = 0 THEN 0 ELSE Deltas(a, Moving(a, E, to), a = to)[L]
  <2>1. L # 0 => resets[L] # None /\ resets[L].account = a
    BY <1>2, LatestIs DEF Standing, Books
  <2> QED BY <2>1 DEF MoveDelta
<1>6. M = {i \in Moving(a, E, to) : rows[i].day <= today /\ rows[i].day > Since(L)}
  BY <1>1 DEF MovingIn
<1>7. AutomaticProjection(a, E, to) = BalanceAsOf(a, d) + fix + Dir(a) * sign * Total(M)
  BY <1>1, <1>2, <1>5, <1>6 DEF AutomaticProjection
<1>8. BalanceAsOf(a, d) \in Int
  BY BalanceInt DEF Standing, IInv, Books, Grounds
<1>9. Dir(a) * sign * Total(M) = Dir(a) * (sign * Total(M))
  <2> HIDE DEF M
  <2>1. PICK x \in Int : x = Total(M)
    BY <1>3
  <2>2. (Dir(a) = 1 \/ Dir(a) = -1) /\ (sign = 1 \/ sign = -1)
    BY DirIs
  <2> HIDE DEF sign
  <2> QED BY <2>1, <2>2
<1> HIDE DEF M, fix, sign
<1> QED
  BY <1>3, <1>4, <1>7, <1>8, <1>9

\* Each account the review projected a balance for shows it after the move.
LEMMA MoveAsShown ==
    ASSUME Standing, Standing', [Next]_vars, moved' > moved, review # None, review' = None,
           NEW a \in DOMAIN review.token.projected
    PROVE  BalanceAsOf(a, today)' = review.token.projected[a]
<1>1. PICK ids : ids = review.ids
  OBVIOUS
<1>2. PICK to : to = review.to
  OBVIOUS
<1>3. PICK inputs : inputs = review.inputs
  OBVIOUS
<1>4. PICK E : E = Effective(ids, to)
  OBVIOUS
<1>5. CommitIs(ids, to, inputs, E)
  BY <1>1, <1>2, <1>3, <1>4, CommitFacts
<1>6. Effective(E, to) = E /\ Touched(E, to) = Touched(ids, to)
      /\ Moving(a, E, to) = Moving(a, ids, to)
  BY <1>4, EffectiveTwice
<1>7. a \in Touched(E, to) /\ a \in Accounts
  <2>1. a \in Touched(ids, to)
    BY <1>5 DEF CommitIs, Projected
  <2>2. TableOK
    BY DEF Standing, IInv
  <2> QED BY <1>5, <1>6, <2>1, <2>2, TouchedFinite DEF CommitIs
<1>8. Books'
  BY DEF Standing
<1>9. CASE NeedsBalances(ids, to)
  <2>1. BalanceAsOf(a, today)' = Confirmed(a, inputs)
    BY <1>5, <1>6, <1>7, <1>8, <1>9, ConfirmedBalance DEF CommitIs
  <2> QED BY <1>5, <1>6, <1>7, <1>9, <2>1 DEF CommitIs, Projected
<1>10. CASE ~NeedsBalances(ids, to)
  <2>1. BalanceAsOf(a, today)' = AutomaticProjection(a, E, to)
    BY <1>5, <1>6, <1>7, <1>8, <1>10, CorrectedAsShown DEF CommitIs
  <2>2. AutomaticProjection(a, E, to) = AutomaticProjection(a, ids, to)
    BY <1>4, <1>6 DEF AutomaticProjection
  <2> QED BY <1>5, <1>6, <1>7, <1>10, <2>1, <2>2 DEF CommitIs, Projected
<1> QED
  BY <1>9, <1>10

\* A committed move leaves every account at the balance its review projected: the
\* check of the token before the write is what makes the figure stand
\* (commit_move in transaction_account_move.rs).
THEOREM MoveShows == Spec => MoveShowsItsResult
<1> DEFINE Shown2 == moved' > moved /\ review # None /\ review' = None =>
                       \A a \in DOMAIN review.token.projected :
                           BalanceAsOf(a, today)' = review.token.projected[a]
<1>1. Init => Standing
  BY StandingInit
<1>2. Standing /\ [Next]_vars => Standing'
  BY StandingNext
<1>3. Standing /\ Standing' /\ [Next]_vars => [Shown2]_vars
  BY MoveAsShown
<1>4. MoveShowsItsResult <=> [][Shown2]_vars
  BY DEF MoveShowsItsResult
<1> HIDE DEF Shown2
<1> QED
  BY <1>1, <1>2, <1>3, <1>4, PTL DEF Spec

(* -- Days ------------------------------------------------------------------- *)

\* No row and no line of a reviewed statement is of a day before the first one.
DaysOf(table) == \A i \in DOMAIN table : table[i] # None => table[i].day \in Nat
DaysAre ==
    /\ DaysOf(rows)
    /\ statement # None => \A n \in DOMAIN statement.lines : statement.lines[n].day \in Nat

\* The days of a ledger are numbers.
LEMMA DaysNat == Days \subseteq Nat
BY LedgerAssumption DEF Days, LedgerAssumption

LEMMA DaysQuiet ==
    ASSUME DaysAre, UNCHANGED <<rows, statement>>
    PROVE  DaysAre'
BY DEF DaysAre, DaysOf

\* Changed rows have days that are.
LEMMA UpdateDays ==
    ASSUME TableOK, DaysAre, UNCHANGED statement, NEW new, UpdateRows(new),
           \A i \in DOMAIN new : /\ Exists(i) /\ new[i] \in Transactions
                                 /\ new[i].day \in Nat
    PROVE  DaysAre'
<1>1. DOMAIN new \subseteq Ids
  BY DEF Exists
<1>2. /\ Ids' = Ids
      /\ \A i \in Ids : i \notin DOMAIN new => rows'[i] = rows[i]
  BY <1>1, UpdateRowsFacts
<1>3. ASSUME NEW i \in DOMAIN new PROVE rows'[i].day \in Nat
  <2>1. rows'[i] = [new[i] EXCEPT !.rev = Stamp(new, i)] \/ rows'[i] = new[i]
    BY <1>1 DEF UpdateRows, Updated
  <2>2. [new[i] EXCEPT !.rev = Stamp(new, i)].day = new[i].day
    BY DEF Transactions
  <2> QED BY <2>1, <2>2
<1>4. ASSUME NEW i \in Ids', rows'[i] # None PROVE rows'[i].day \in Nat
  BY <1>2, <1>3, <1>4 DEF DaysAre, DaysOf, Ids
<1> QED
  BY <1>4 DEF DaysAre, DaysOf, Ids

LEMMA InsertDays ==
    ASSUME TableOK, DaysAre, UNCHANGED statement, NEW a \in Accounts, NEW d \in Nat,
           NEW x \in Int, NEW what \in {"entry", "payment"}, InsertRow(a, d, x, what)
    PROVE  DaysAre'
<1>1. /\ Len(rows) \in Nat /\ Ids = 1 .. Len(rows) /\ Ids' = 1 .. Len(rows) + 1
      /\ \A i \in Ids : rows'[i] = rows[i]
  BY InsertRowFacts
<1> DEFINE r == NewRow(a, d, x, what, revision + 1)
<1>2. r.day = d
  BY DEF NewRow
<1>3. rows' = Append(rows, r)
  BY DEF InsertRow
<1> HIDE DEF r
<1>4. rows'[Len(rows) + 1] = r
  BY <1>3 DEF TableOK
<1>5. \A i \in Ids' : i \in Ids \/ i = Len(rows) + 1
  BY <1>1
<1>6. \A i \in Ids' : rows'[i] # None => rows'[i].day \in Nat
  BY <1>1, <1>2, <1>4, <1>5 DEF DaysAre, DaysOf, Ids
<1> QED
  BY <1>6 DEF DaysAre, DaysOf, Ids

LEMMA MoveDays ==
    ASSUME IInv, DaysAre, UNCHANGED statement, NEW ids, NEW to \in accounts, NEW inputs,
           ApplyMove(ids, to, inputs), \A i \in ids : Live(i)
    PROVE  DaysAre'
<1> DEFINE E == Effective(ids, to)
<1> DEFINE new == [i \in E |-> MovedRow(i, to)]
<1>1. UpdateRows(new)
  BY DEF ApplyMove
<1>2. \A i \in E : Exists(i) /\ rows[i] \in Transactions /\ rows[i] # None
  BY RowFacts DEF IInv, Effective, Live
<1>3. \A i \in E : MovedRow(i, to) \in Transactions
                   /\ MovedRow(i, to).day = rows[i].day
  BY <1>2 DEF MovedRow, Transactions, IInv, TableOK
<1>4. \A i \in E : rows[i].day \in Nat
  BY <1>2 DEF DaysAre, DaysOf, Exists, Ids
<1>5. DOMAIN new = E /\ \A i \in E : new[i] = MovedRow(i, to)
  OBVIOUS
<1> HIDE DEF new, E
<1> QED
  BY <1>1, <1>2, <1>3, <1>4, <1>5, UpdateDays DEF IInv

LEMMA FewerRowsDays ==
    ASSUME DaysAre, UNCHANGED statement, Ids' = Ids,
           \A i \in Ids : rows'[i] = rows[i] \/ rows'[i] = None
    PROVE  DaysAre'
<1>1. \A i \in Ids' : rows'[i] # None => rows'[i].day \in Nat
  BY DEF DaysAre, DaysOf, Ids
<1> QED
  BY <1>1 DEF DaysAre, DaysOf, Ids

LEMMA SettleDays ==
    ASSUME DaysAre, NEW table \in Seq(RowOrNone), DaysOf(table),
           NEW ids, \A i \in ids : table[i] # None,
           rows' = Settle(table, ids), statement' = statement \/ statement' = None
    PROVE  DaysAre'
<1>1. DOMAIN rows' = DOMAIN table
  BY DEF Settle
<1>2. ASSUME NEW i \in DOMAIN table, rows'[i] # None PROVE rows'[i].day \in Nat
  <2>1. rows'[i] = table[i] \/ rows'[i] = [table[i] EXCEPT !.settled = Len(recons) + 1]
    BY DEF Settle
  <2>2. table[i] \in RowOrNone
    BY LenProperties
  <2>3. CASE table[i] = None
    <3>1. CASE rows'[i] = table[i]
      BY <1>2, <2>3, <3>1
    <3>2. CASE i \in ids
      BY <2>3, <3>2
    <3> QED BY <3>1, <3>2 DEF Settle
  <2>4. CASE table[i] # None
    <3>1. table[i] \in Transactions /\ table[i].day \in Nat
      BY <2>2, <2>4 DEF RowOrNone, DaysOf
    <3>2. [table[i] EXCEPT !.settled = Len(recons) + 1].day = table[i].day
      BY <3>1 DEF Transactions
    <3> QED BY <2>1, <3>1, <3>2
  <2> QED BY <2>3, <2>4
<1> QED
  BY <1>1, <1>2 DEF DaysAre, DaysOf

LEMMA TickDays ==
    ASSUME IInv, DaysAre, NEW i \in Ids, NEW b \in BOOLEAN, Tick(i, b)
    PROVE  DaysAre'
<1>1. Exists(i) /\ rows' = [rows EXCEPT ![i].cleared = b] /\ UNCHANGED statement
  BY DEF Tick, otherVars
<1>2. rows[i] \in Transactions /\ rows[i] # None /\ rows[i].day \in Nat
  BY <1>1, RowFacts DEF IInv, DaysAre, DaysOf, Ids
<1> DEFINE r == [rows[i] EXCEPT !.cleared = b]
<1>3. r.day = rows[i].day
  BY <1>2 DEF Transactions
<1>4. rows = [j \in Ids |-> rows[j]]
  <2>1. rows \in Seq(RowOrNone)
    BY DEF IInv, TableOK
  <2> QED BY <2>1, LenProperties DEF Ids
<1>5. rows' = [rows EXCEPT ![i] = r]
  BY <1>1
<1> HIDE DEF r
<1>6. Ids' = Ids /\ \A j \in Ids : rows'[j] = IF j = i THEN r ELSE rows[j]
  BY <1>4, <1>5 DEF Ids
<1>7. \A j \in Ids' : rows'[j] # None => rows'[j].day \in Nat
  BY <1>2, <1>3, <1>6 DEF DaysAre, DaysOf, Ids
<1> QED
  BY <1>1, <1>7 DEF DaysAre, DaysOf, Ids

LEMMA FinishManualDays ==
    ASSUME IInv, DaysAre, NEW a, NEW d, NEW b, FinishManual(a, d, b)
    PROVE  DaysAre'
<1>1. rows' = Settle(rows, Ticked(a, rows)) /\ UNCHANGED statement
  BY DEF FinishManual
<1>2. rows \in Seq(RowOrNone) /\ DaysOf(rows) /\ \A i \in Ticked(a, rows) : rows[i] # None
  BY DEF IInv, TableOK, DaysAre, Ticked
<1> QED
  BY <1>1, <1>2, SettleDays

\* The days of the table with the statement's ticks and its added lines.
LEMMA StatementDays ==
    ASSUME IInv, DaysAre, statement # None, statement.account \in Accounts,
           NEW decide \in Decisions(statement.lines, Ids),
           \A i \in MatchedBy(decide) : Exists(i)
    PROVE  DaysOf(WithStatement(statement, decide))
<1> DEFINE s == statement
<1> DEFINE add == AddedBy(decide)
<1> DEFINE old == Unticked(s.account)
<1> DEFINE mine == [i \in Ids |-> IF i \in MatchedBy(decide) THEN [old[i] EXCEPT !.cleared = TRUE]
                                  ELSE old[i]]
<1> DEFINE line(n) == s.lines[Nth(add, n)]
<1> DEFINE new(n) == [NewRow(s.account, line(n).day, line(n).amount, "entry", revision + n)
                      EXCEPT !.cleared = TRUE]
<1> DEFINE added == [n \in 1 .. Cardinality(add) |-> new(n)]
<1>1. /\ Len(rows) \in Nat /\ Ids = 1 .. Len(rows) /\ Cardinality(add) \in Nat
      /\ \A i : Exists(i) => rows[i] \in Transactions
      /\ \A i \in Ids : rows[i] # None => rows[i].day \in Nat
  BY RowFacts, WithStatementFacts DEF IInv, DaysAre, DaysOf, Ids
<1>2. \A i \in Ids : rows[i] = None => mine[i] = None
  BY DEF Unticked, Exists
<1>3. \A i \in Ids : rows[i] # None => mine[i].day \in Nat
  <2> SUFFICES ASSUME NEW i \in Ids, rows[i] # None PROVE mine[i].day \in Nat
    OBVIOUS
  <2>1. old[i] = rows[i] \/ old[i] = [rows[i] EXCEPT !.cleared = FALSE]
    BY DEF Unticked
  <2>2. rows[i] \in Transactions /\ rows[i].day \in Nat
    BY <1>1 DEF Exists
  <2>3. /\ [rows[i] EXCEPT !.cleared = FALSE].day = rows[i].day
        /\ [rows[i] EXCEPT !.cleared = FALSE] \in Transactions
    BY <2>2 DEF Transactions
  <2> HIDE DEF old
  <2>4. old[i] \in Transactions /\ old[i].day \in Nat
    BY <2>1, <2>2, <2>3
  <2>5. [old[i] EXCEPT !.cleared = TRUE].day = old[i].day
    BY <2>4 DEF Transactions
  <2>6. mine[i] = old[i] \/ mine[i] = [old[i] EXCEPT !.cleared = TRUE]
    OBVIOUS
  <2> HIDE DEF mine
  <2> QED BY <2>4, <2>5, <2>6
<1>4. \A n \in 1 .. Cardinality(add) : new(n).day \in Nat
  <2> TAKE n \in 1 .. Cardinality(add)
  <2>1. s.lines \in Seq([day : Int, amount : Int])
    BY DEF IInv, StatementRead
  <2>2. Len(s.lines) \in Nat /\ DOMAIN s.lines = 1 .. Len(s.lines)
    BY <2>1, LenProperties
  <2>3. add \in SUBSET (1 .. Len(s.lines))
    BY <2>2 DEF AddedBy, Decisions
  <2>4. Nth(add, n) \in DOMAIN s.lines
    <3> HIDE DEF add
    <3> QED BY <2>2, <2>3, NthFacts
  <2>6. line(n).day \in Nat
    BY <2>4 DEF DaysAre
  <2> DEFINE row == NewRow(s.account, line(n).day, line(n).amount, "entry", revision + n)
  <2>7. row.day = line(n).day /\ DOMAIN row = {"account", "day", "amount", "what", "live", "rev",
                                         "cleared", "settled"}
    BY DEF NewRow
  <2> HIDE DEF row
  <2>8. [row EXCEPT !.cleared = TRUE].day = row.day
    BY <2>7
  <2> QED BY <2>6, <2>7, <2>8 DEF row
<1>5. WithStatement(s, decide) = mine \o added
  BY DEF WithStatement, old
<1>6. /\ DOMAIN mine = 1 .. Len(rows) /\ DOMAIN added = 1 .. Cardinality(add)
      /\ \A n \in 1 .. Cardinality(add) : added[n].day \in Nat
  BY <1>1, <1>4
<1> DEFINE t == WithStatement(s, decide)
<1> DEFINE R == {mine[i] : i \in DOMAIN mine} \cup {added[n] : n \in DOMAIN added}
<1>9. mine \in Seq(R) /\ added \in Seq(R)
  <2>1. mine = [i \in DOMAIN mine |-> mine[i]] /\ added = [n \in DOMAIN added |-> added[n]]
    OBVIOUS
  <2> HIDE DEF mine, added
  <2>2. mine \in [1 .. Len(rows) -> R] /\ added \in [1 .. Cardinality(add) -> R]
    BY <1>6, <2>1
  <2> HIDE DEF R
  <2> QED BY <1>1, <2>2, SeqDef
<1>7. \A i \in Ids : mine[i] # None => mine[i].day \in Nat
  BY <1>2, <1>3
<1> HIDE DEF mine, added, add, R
<1>10. /\ Len(mine) = Len(rows) /\ Len(added) = Cardinality(add)
       /\ Len(mine \o added) = Len(mine) + Len(added) /\ mine \o added \in Seq(R)
       /\ \A i \in 1 .. Len(mine) + Len(added) : (mine \o added)[i] =
              IF i <= Len(mine) THEN mine[i] ELSE added[i - Len(mine)]
  <2>1. Len(mine) = Len(rows) /\ Len(added) = Cardinality(add)
    BY <1>1, <1>6, <1>9, LenProperties
  <2> QED BY <1>9, <2>1, ConcatProperties
<1>11. DOMAIN t = 1 .. Len(rows) + Cardinality(add)
  BY <1>5, <1>10, LenProperties
<1> HIDE DEF t
<1>12. ASSUME NEW i \in DOMAIN t, t[i] # None PROVE t[i].day \in Nat
  <2>0. t = mine \o added
    BY <1>5 DEF t
  <2>1. CASE i <= Len(rows)
    <3>1. i \in Ids /\ t[i] = mine[i]
      BY <1>1, <1>10, <1>11, <2>0, <2>1
    <3> QED BY <1>7, <1>12, <3>1
  <2>2. CASE ~ i <= Len(rows)
    <3>1. i - Len(rows) \in 1 .. Cardinality(add) /\ t[i] = added[i - Len(rows)]
      BY <1>1, <1>10, <1>11, <2>0, <2>2
    <3> QED BY <1>6, <3>1
  <2> QED BY <2>1, <2>2
<1> QED
  BY <1>12 DEF DaysOf, t

LEMMA FinishStatementDays ==
    ASSUME IInv, DaysAre, statement # None, NEW b, NEW checked,
           NEW decide \in Decisions(statement.lines, Ids), FinishStatement(decide, b, checked)
    PROVE  DaysAre'
<1> DEFINE a == statement.account
<1> DEFINE table == WithStatement(statement, decide)
<1>1. /\ a \in accounts /\ MatchedBy(decide) \subseteq Candidates(a, statement.day)
      /\ rows' = Settle(table, Ticked(a, table)) /\ statement' = None
  BY DEF FinishStatement
<1>2. (\A i \in MatchedBy(decide) : Exists(i)) /\ a \in Accounts
  BY <1>1 DEF Candidates, LiveRows, Live, IInv, TableOK
<1>3. table \in Seq(RowOrNone) /\ DaysOf(table)
  BY <1>2, WithStatementFacts, StatementDays
<1>4. \A i \in Ticked(a, table) : table[i] # None
  BY DEF Ticked
<1> HIDE DEF table, a
<1> QED
  BY <1>1, <1>3, <1>4, SettleDays

LEMMA CorrectionDays ==
    ASSUME IInv, DaysAre, UNCHANGED statement, NEW new, UpdateRows(new),
           \A i \in DOMAIN new : /\ Exists(i) /\ new[i] \in Transactions
                                 /\ new[i].day = rows[i].day
    PROVE  DaysAre'
<1>1. \A i \in DOMAIN new : new[i].day \in Nat
  <2>1. \A i : Exists(i) => rows[i].day \in Nat
    BY DEF DaysAre, DaysOf, Exists, Ids
  <2> QED BY <2>1
<1> QED
  BY <1>1, UpdateDays DEF IInv

LEMMA UpdateAmountDays ==
    ASSUME IInv, DaysAre, NEW i \in Ids, NEW x \in Amounts, UpdateAmount(i, x)
    PROVE  DaysAre'
<1> DEFINE new == [j \in {i} |-> [rows[j] EXCEPT !.amount = x]]
<1>1. Exists(i) /\ UpdateRows(new) /\ UNCHANGED statement
  BY DEF UpdateAmount, ChangeRow, otherVars
<1>2. rows[i] \in Transactions /\ x \in Int
  BY <1>1, RowFacts, LedgerAssumption DEF IInv, LedgerAssumption
<1>3. DOMAIN new = {i} /\ new[i] \in Transactions /\ new[i].day = rows[i].day
  BY <1>2 DEF Transactions
<1> HIDE DEF new
<1> QED
  BY <1>1, <1>3, CorrectionDays

LEMMA UpdateDateDays ==
    ASSUME IInv, DaysAre, NEW i \in Ids, NEW d \in Days, UpdateDate(i, d)
    PROVE  DaysAre'
<1> DEFINE new == [j \in {i} |-> [rows[j] EXCEPT !.day = d]]
<1>1. Exists(i) /\ UpdateRows(new) /\ UNCHANGED statement
  BY DEF UpdateDate, ChangeRow, otherVars
<1>2. rows[i] \in Transactions /\ d \in Nat /\ d \in Int
  BY <1>1, RowFacts, DaysNat DEF IInv
<1>3. DOMAIN new = {i} /\ new[i] \in Transactions /\ new[i].day = d
  BY <1>2 DEF Transactions
<1> HIDE DEF new
<1> QED
  BY <1>1, <1>2, <1>3, UpdateDays DEF IInv

LEMMA SetLiveDays ==
    ASSUME IInv, DaysAre, NEW ids, NEW b \in BOOLEAN, \A i \in ids : Exists(i),
           SetLive(ids, b)
    PROVE  DaysAre'
<1> DEFINE new == [i \in ids |-> [rows[i] EXCEPT !.live = b]]
<1>1. UpdateRows(new) /\ UNCHANGED statement
  BY DEF SetLive, ChangeRow, otherVars
<1>2. \A i \in ids : rows[i] \in Transactions
  BY RowFacts DEF IInv
<1>3. DOMAIN new = ids
      /\ \A i \in ids : new[i] \in Transactions /\ new[i].day = rows[i].day
  BY <1>2 DEF Transactions
<1> HIDE DEF new
<1> QED
  BY <1>1, <1>3, CorrectionDays

LEMMA DeleteRestoreDays ==
    ASSUME IInv, DaysAre, NEW i, DeleteTransaction(i) \/ RestoreTransaction(i)
    PROVE  DaysAre'
<1>1. \A j \in {i} \cup Partner(i) : Exists(j)
  BY DEF DeleteTransaction, RestoreTransaction, Partner, Generated, Live, IInv, PairsIntact
<1>2. SetLive({i} \cup Partner(i), FALSE) \/ SetLive({i} \cup Partner(i), TRUE)
  BY DEF DeleteTransaction, RestoreTransaction
<1> QED
  BY <1>1, <1>2, SetLiveDays

LEMMA FlipDays ==
    ASSUME IInv, DaysAre, NEW ids, FlipSigns(ids)
    PROVE  DaysAre'
<1> DEFINE new == [i \in ids |-> [rows[i] EXCEPT !.amount = -@]]
<1>1. UpdateRows(new) /\ (\A i \in ids : Live(i)) /\ UNCHANGED statement
  BY DEF FlipSigns, otherVars
<1>2. \A i \in ids : Exists(i) /\ rows[i] \in Transactions
  BY <1>1, RowFacts DEF IInv, Live
<1>3. DOMAIN new = ids
      /\ \A i \in ids : new[i] \in Transactions /\ new[i].day = rows[i].day
  BY <1>2 DEF Transactions
<1> HIDE DEF new
<1> QED
  BY <1>1, <1>2, <1>3, CorrectionDays

LEMMA CommitMoveDays ==
    ASSUME IInv, DaysAre, CommitMove
    PROVE  DaysAre'
<1> DEFINE Same == /\ review.to \in accounts
                   /\ \A i \in review.ids : Live(i)
                   /\ Token(review.ids, review.to, review.inputs) = review.token
<1>1. UNCHANGED statement
  BY DEF CommitMove
<1>2. CASE Same
  <2>1. ApplyMove(review.ids, review.to, review.inputs)
    BY <1>2 DEF CommitMove
  <2> QED BY <1>1, <1>2, <2>1, MoveDays
<1>3. CASE ~Same
  <2>1. UNCHANGED rows
    BY <1>3 DEF CommitMove
  <2> QED BY <1>1, <2>1, DaysQuiet
<1> QED
  BY <1>2, <1>3

LEMMA MoveOneDays ==
    ASSUME IInv, DaysAre, NEW i, NEW to, MoveOne(i, to)
    PROVE  DaysAre'
<1>1. /\ to \in accounts /\ Live(i) /\ ApplyMove({i}, to, <<"none">>) /\ UNCHANGED statement
  BY DEF MoveOne
<1>2. \A j \in {i} : Live(j)
  BY <1>1
<1> QED
  BY <1>1, <1>2, MoveDays

LEMMA UnapplyDays ==
    ASSUME IInv, DaysAre, NEW p \in payments, UnapplyDebtPayment(p)
    PROVE  DaysAre'
<1> DEFINE g == p.generated
<1>1. UNCHANGED statement
  BY DEF UnapplyDebtPayment, otherVars
<1>2. rows' = rows \/ rows' = [rows EXCEPT ![g] = None]
  BY DEF UnapplyDebtPayment
<1>3. rows = [i \in Ids |-> rows[i]]
  <2>1. rows \in Seq(RowOrNone)
    BY DEF IInv, TableOK
  <2> QED BY <2>1, LenProperties DEF Ids
<1>4. Ids' = Ids /\ \A i \in Ids : rows'[i] = rows[i] \/ rows'[i] = None
  BY <1>2, <1>3 DEF Ids
<1> QED
  BY <1>1, <1>4, FewerRowsDays

LEMMA DeleteAccountDays ==
    ASSUME DaysAre, NEW a, DeleteAccount(a)
    PROVE  DaysAre'
<1>1. rows' = [i \in Ids |-> IF i \in Cascade(a) THEN None ELSE rows[i]] /\ UNCHANGED statement
  BY DEF DeleteAccount
<1>2. Ids' = Ids /\ \A i \in Ids : rows'[i] = rows[i] \/ rows'[i] = None
  BY <1>1 DEF Ids
<1> QED
  BY <1>1, <1>2, FewerRowsDays

LEMMA ReviewStatementDays ==
    ASSUME DaysAre, NEW a, NEW d, NEW lines, ReviewStatement(a, d, lines)
    PROVE  DaysAre'
<1>1. /\ UNCHANGED rows /\ statement'.lines = lines
      /\ \A n \in DOMAIN lines : lines[n].day \in Near(d)
  BY DEF ReviewStatement
<1>2. \A n \in DOMAIN statement'.lines : statement'.lines[n].day \in Nat
  BY <1>1, DaysNat DEF Near
<1> QED
  BY <1>1, <1>2 DEF DaysAre, DaysOf

LEMMA RowStepDays == IInv /\ today \in Nat /\ DaysAre /\ RowStep => DaysAre'
<1> SUFFICES ASSUME IInv, today \in Nat, DaysAre, RowStep PROVE DaysAre'
  OBVIOUS
<1>1. ASSUME NEW a \in accounts, NEW d \in {0, today}, NEW x \in Amounts,
             CreateTransaction(a, d, x)
      PROVE  DaysAre'
  <2>1. a \in Accounts /\ x \in Int /\ d \in Nat
    BY LedgerAssumption DEF LedgerAssumption, IInv, TableOK
  <2>2. InsertRow(a, d, x, "entry") /\ UNCHANGED statement
    BY <1>1 DEF CreateTransaction, otherVars
  <2> QED BY <2>1, <2>2, InsertDays DEF IInv
<1> QED
  BY <1>1, UpdateAmountDays, UpdateDateDays, DeleteRestoreDays, FlipDays, MoveOneDays DEF RowStep

LEMMA PairStepDays == IInv /\ DaysAre /\ PairStep => DaysAre'
<1> SUFFICES ASSUME IInv, DaysAre, PairStep PROVE DaysAre'
  OBVIOUS
<1>1. ASSUME NEW i \in Ids, NEW debt \in accounts, NEW x \in Amounts,
             ApplyDebtPayment(i, debt, x)
      PROVE  DaysAre'
  <2>1. Exists(i) /\ InsertRow(debt, rows[i].day, x, "payment") /\ UNCHANGED statement
    BY <1>1 DEF ApplyDebtPayment, otherVars
  <2>2. debt \in Accounts /\ x \in Int /\ rows[i].day \in Nat
    BY <2>1, LedgerAssumption DEF LedgerAssumption, IInv, TableOK, DaysAre, DaysOf, Exists, Ids
  <2> QED BY <2>1, <2>2, InsertDays DEF IInv
<1>2. CASE \/ \E i \in Ids, debt \in accounts, x \in Amounts : ApplyDebtPayment(i, debt, x)
           \/ \E p \in payments : UnapplyDebtPayment(p)
           \/ \E a \in accounts : DeleteAccount(a)
  BY <1>1, <1>2, UnapplyDays, DeleteAccountDays
<1>3. CASE ~ \/ \E i \in Ids, debt \in accounts, x \in Amounts : ApplyDebtPayment(i, debt, x)
             \/ \E p \in payments : UnapplyDebtPayment(p)
             \/ \E a \in accounts : DeleteAccount(a)
  <2>1. UNCHANGED <<rows, statement>>
    BY <1>3 DEF PairStep, LinkTransfer, UnlinkTransfer, DismissCandidates, RestoreCandidates,
                AutoLink, MarkReviewed, otherVars
  <2> QED BY <2>1, DaysQuiet
<1> QED
  BY <1>2, <1>3

\* Every step keeps the days of rows within Days.
LEMMA NextDays == IInv /\ today \in Nat /\ DaysAre /\ [Next]_vars => DaysAre'
<1> SUFFICES ASSUME IInv, today \in Nat, DaysAre, [Next]_vars PROVE DaysAre'
  OBVIOUS
<1>1. CASE UNCHANGED vars
  BY <1>1, DaysQuiet DEF vars
<1>2. CASE BalanceStep
  <2>1. CASE CommitMove
    BY <2>1, CommitMoveDays
  <2>2. CASE ~CommitMove
    <3>1. UNCHANGED <<rows, statement>>
      BY <1>2, <2>2 DEF BalanceStep, RollForward, NextDay, SetStartingBalance, Override,
                        ReviewMove, otherVars
    <3> QED BY <3>1, DaysQuiet
  <2> QED BY <2>1, <2>2
<1>3. CASE ReconcileStep
  BY <1>3, TickDays, FinishManualDays, ReviewStatementDays, FinishStatementDays DEF ReconcileStep
<1> QED
  BY <1>1, <1>2, <1>3, RowStepDays, PairStepDays DEF Next

LEMMA InitDays == Init => DaysAre
<1> SUFFICES ASSUME Init PROVE DaysAre
  OBVIOUS
<1>1. PICK table \in Tables : rows = Imported(table.rows)
  BY DEF Init
<1>2. table.rows \in Seq([account : Accounts, day : Days, amount : Int])
  BY TablesAssumption DEF TablesAssumption
<1>3. \A i \in DOMAIN table.rows : table.rows[i].day \in Nat
  <2> DEFINE R == [account : Accounts, day : Days, amount : Int]
  <2>1. PICK t : t = table.rows
    OBVIOUS
  <2>2. \A r \in R : r.day \in Nat
    BY DaysNat
  <2> HIDE DEF R
  <2>3. t \in Seq(R)
    BY <1>2, <2>1 DEF R
  <2>4. \A i \in DOMAIN t : t[i] \in R
    BY <2>3, LenProperties
  <2> QED BY <2>1, <2>2, <2>4
<1>4. DaysOf(rows)
  BY <1>1, <1>3 DEF Imported, NewRow, DaysOf
<1> QED
  BY <1>4 DEF Init, DaysAre

(* -- What the destination of a corrected move holds ------------------------- *)

Early(E, n) == {i \in E : rows[i].day <= n}

\* Rows up to a day are those up to an earlier day and those in between.
LEMMA EarlySplit ==
    ASSUME TableOK, NEW E, There(E), NEW m \in Int, NEW n \in Int, m <= n
    PROVE  /\ Total(Early(E, m)) \in Int /\ Total(MovingIn(E, m, n)) \in Int
           /\ Total(Early(E, n)) = Total(Early(E, m)) + Total(MovingIn(E, m, n))
<1> DEFINE S == Early(E, m)
<1> DEFINE T == MovingIn(E, m, n)
<1> DEFINE U == Early(E, n)
<1>1. \A i \in E : i \in Ids /\ rows[i] # None /\ rows[i].day \in Int
  <2>1. \A i \in E : i \in Ids /\ rows[i] # None
    BY DEF There
  <2> QED BY <2>1, RowFacts DEF RowOrNone, Transactions
<1>2. U = S \cup T /\ S \cap T = {}
  <2>1. \A i \in E : rows[i].day <= n <=> rows[i].day <= m \/ (rows[i].day <= n /\ rows[i].day > m)
    BY <1>1
  <2>2. \A i \in E : ~(rows[i].day <= m /\ rows[i].day > m)
    BY <1>1
  <2> QED BY <2>1, <2>2 DEF Early, MovingIn
<1>3. /\ S \subseteq Ids /\ \A i \in S : rows[i] # None
      /\ T \subseteq Ids /\ \A i \in T : rows[i] # None
      /\ U \subseteq Ids /\ \A i \in U : rows[i] # None
  BY <1>1 DEF Early, MovingIn
<1> HIDE DEF S, T, U
<1>4. /\ IsFiniteSet(S) /\ IsFiniteSet(T) /\ Total(S) \in Int /\ Total(T) \in Int
      /\ Total(S) = Sum(Worth(rows), S) /\ Total(T) = Sum(Worth(rows), T)
      /\ Total(U) = Sum(Worth(rows), U)
      /\ \A i \in S \cup T : Worth(rows)[i] \in Int
  BY <1>3, RowsTotal
<1>5. Sum(Worth(rows), S \cup T) = Sum(Worth(rows), S) + Sum(Worth(rows), T)
  BY <1>2, <1>4, SumOfUnion
<1>6. Total(U) = Total(S) + Total(T)
  BY <1>2, <1>4, <1>5
<1> QED
  BY <1>4, <1>6 DEF S, T, U

\* No row is of a day before the first one.
LEMMA FromTheFirst ==
    ASSUME TableOK, DaysAre, NEW E, There(E), NEW n
    PROVE  MovingIn(E, -1, n) = Early(E, n) /\ (Early(E, n) = {} => Total(Early(E, n)) = 0)
<1>1. \A i \in E : rows[i].day \in Nat
  BY DEF There, DaysAre, DaysOf, Ids
<1>2. \A i \in E : rows[i].day > -1
  BY <1>1
<1>3. Total({}) = 0
  BY RowsTotal, SumOfNone
<1> QED
  BY <1>2, <1>3 DEF MovingIn, Early

\* Along the records every saved balance of the destination gains the rows that arrive by
\* its last day, not those of its own interval alone.
LEMMA ArrivalReachesAll ==
    ASSUME TableOK, Books, DaysAre, NEW E, There(E), NEW a,
           \A c \in Affected(a, E) : Recorded(c)
    PROVE  \A c \in Checkpoints(a) :
               Deltas(a, E, TRUE)[c] = Dir(a) * Total(Early(E, resets[c].cutoff))
<1> DEFINE D == Deltas(a, E, TRUE)
<1> DEFINE gain(c) == Dir(a) * Total(Early(E, resets[c].cutoff))
<1> DEFINE bad == {c \in Checkpoints(a) : D[c] # gain(c)}
<1>1. /\ ResetsTyped /\ VersionsTyped /\ Chained /\ Current /\ Followed
      /\ Len(resets) \in Nat /\ DOMAIN resets = 1 .. Len(resets)
      /\ \A c \in DOMAIN resets : resets[c] # None => resets[c] \in SavedBalances
  BY ResetsAre DEF Books, ResetFacts
<1>2. \A c \in 0 .. Len(resets) :
             /\ D[c] \in Int
             /\ D[c] = IF c \notin Affected(a, E) THEN 0
                       ELSE D[ParentReset(c)] + OwnDelta(c, a, E, TRUE)
  BY <1>1, DeltaFacts
<1> SUFFICES ASSUME bad # {} PROVE FALSE
  OBVIOUS
<1> HIDE DEF D
<1>3. bad \in SUBSET (0 .. Len(resets))
  BY <1>1 DEF Checkpoints
<1>4. PICK c \in bad : \A k \in bad : c <= k
  <2> HIDE DEF bad
  <2> QED BY <1>1, <1>3, LeastNumber
<1>5. /\ c \in DOMAIN resets /\ c \in 0 .. Len(resets) /\ resets[c] # None
      /\ resets[c].account = a /\ resets[c].cutoff \in Int
  BY <1>1, <1>3, <1>4 DEF Checkpoints, SavedBalances
<1> DEFINE n == resets[c].cutoff
<1>6. D[c] = gain(c)
  <2>1. CASE c \notin Affected(a, E)
    <3>1. \A i \in E : ~(n >= rows[i].day)
      BY <1>5, <2>1 DEF Affected, Checkpoints
    <3>2. \A i \in E : rows[i].day \in Int
      BY RowFacts DEF There, RowOrNone, Transactions
    <3>3. Early(E, n) = {}
      BY <1>5, <3>1, <3>2 DEF Early
    <3>4. gain(c) = 0
      BY <3>3, FromTheFirst, DirIs
    <3> QED BY <1>2, <1>5, <2>1, <3>4
  <2>2. CASE c \in Affected(a, E)
    <3> DEFINE p == ParentReset(c)
    <3> DEFINE v == V(c)
    <3>1. D[c] = D[p] + Dir(a) * Total(Inside(c, E))
      BY <1>2, <1>5, <2>2 DEF OwnDelta
    <3>2. /\ p \in 0 .. c - 1 /\ v \in SavedVersions /\ v # None /\ v.cutoff = n
          /\ resets[c].version \in DOMAIN versions /\ v = versions[resets[c].version]
          /\ v.parent # 0 => /\ p \in DOMAIN resets /\ resets[p] # None /\ p # 0
                             /\ resets[p].account = a
                             /\ p = versions[v.parent].reset
          /\ v.parent = 0 => p = 0
      BY <1>1, <1>5, ParentFacts DEF Describes
    <3>3. LinkedUp(v) /\ v.parentCutoff \in Int
      BY <1>1, <3>2 DEF Chained, SavedVersions
    <3>4. Inside(c, E) = MovingIn(E, v.parentCutoff, n)
      BY <3>2 DEF Inside, MovingIn
    <3>5. CASE v.parent = 0
      <4>1. p = 0 /\ v.parentCutoff = -1
        BY <3>2, <3>3, <3>5 DEF LinkedUp
      <4>2. D[0] = 0
        <5>1. 0 \notin Affected(a, E) /\ 0 \in 0 .. Len(resets)
          BY <1>1 DEF Affected, Checkpoints
        <5> QED BY <1>2, <5>1
      <4>3. Inside(c, E) = Early(E, n)
        BY <3>4, <4>1, FromTheFirst
      <4>4. D[c] = 0 + gain(c)
        BY <3>1, <4>1, <4>2, <4>3
      <4>5. gain(c) \in Int
        <5>1. n <= n
          BY <1>5
        <5>2. Total(Early(E, n)) \in Int
          BY <1>5, <5>1, EarlySplit
        <5> QED BY <5>2, DirIs
      <4> QED BY <4>4, <4>5
    <3>6. CASE v.parent # 0
      <4>1. Trusted(v)
        BY <2>2 DEF Trusted, Recorded
      <4>2. BuiltOn(v, p, resets[p])
        BY <1>1, <1>5, <3>2, <3>6, <4>1 DEF Followed
      <4>3. resets[p].cutoff = v.parentCutoff /\ v.parentCutoff <= n
        BY <3>2, <3>3, <4>2 DEF BuiltOn, LinkedUp
      <4>4. p \in Checkpoints(a) /\ p < c /\ p \notin bad
        <5>1. p \in Checkpoints(a)
          BY <3>2, <3>6 DEF Checkpoints
        <5>2. p \in Int /\ c \in Int /\ p < c
          BY <1>5, <3>2
        <5> QED BY <1>4, <5>1, <5>2
      <4>5. D[p] = Dir(a) * Total(Early(E, v.parentCutoff))
        BY <4>3, <4>4
      <4>6. /\ Total(Early(E, v.parentCutoff)) \in Int
            /\ Total(MovingIn(E, v.parentCutoff, n)) \in Int
            /\ Total(Early(E, n)) = Total(Early(E, v.parentCutoff))
                                    + Total(MovingIn(E, v.parentCutoff, n))
        BY <1>5, <3>3, <4>3, EarlySplit
      <4>7. D[c] = Dir(a) * Total(Early(E, v.parentCutoff))
                   + Dir(a) * Total(MovingIn(E, v.parentCutoff, n))
        BY <3>1, <3>4, <4>5
      <4>8. PICK x \in Int : x = Total(Early(E, v.parentCutoff))
        BY <4>6
      <4>9. PICK y \in Int : y = Total(MovingIn(E, v.parentCutoff, n))
        BY <4>6
      <4>10. Dir(a) * x + Dir(a) * y = Dir(a) * (x + y)
        BY <4>8, <4>9, DirIs
      <4> QED BY <4>6, <4>7, <4>8, <4>9, <4>10
    <3> QED BY <3>5, <3>6
  <2> QED BY <2>1, <2>2
<1> QED
  BY <1>4, <1>6

\* A correction from the records moves the arriving rows' worth into every balance
\* of the account from their day on.
LEMMA ArrivedHistory ==
    ASSUME Standing, Books', DaysAre, UNCHANGED opening, NEW E, NEW to, to \in Accounts, There(E),
           Effective(E, to) = E, Correctable(E, to), MovesRows(E, to),
           \A i \in E : rows'[i].rev \in Int, CorrectSavedBalances(E, to), NEW d \in Days
    PROVE  BalanceAsOf(to, d)' = BalanceAsOf(to, d) + Dir(to) * Total(Early(E, d))
<1>1. /\ TableOK /\ Books /\ ResetsTyped /\ opening \in [Accounts -> Int] /\ d \in Int /\ d >= 0
  BY DaysNat DEF Standing, IInv, Grounds, Books
<1>2. PICK L : L = LatestCheckpoint(to, d)
  OBVIOUS
<1>3. Moving(to, E, to) = E
  BY DEF Moving
<1> DEFINE M == MovingIn(E, Since(L), d)
<1> DEFINE fix == IF L = 0 THEN 0 ELSE MoveDelta(E, to, L)
<1>4. /\ fix \in Int /\ Total(M) \in Int
      /\ BalanceAsOf(to, d)' = (BalanceAsOf(to, d) + fix) + Dir(to) * (1 * Total(M))
  BY <1>2, <1>3, CorrectedBalance
<1>5. BalanceAsOf(to, d) \in Int
  BY <1>1, BalanceInt
<1>6. fix + Dir(to) * Total(M) = Dir(to) * Total(Early(E, d))
  <2>1. CASE L = 0
    <3>1. M = Early(E, d)
      BY <1>1, <2>1, FromTheFirst DEF Since
    <3> HIDE DEF M
    <3>2. Dir(to) * Total(M) \in Int
      BY <1>4, DirIs
    <3> QED BY <2>1, <3>1, <3>2
  <2>2. CASE L # 0
    <3>1. /\ L \in Checkpoints(to) /\ resets[L].cutoff <= d /\ resets[L].cutoff \in Int
          /\ resets[L].account = to /\ Since(L) = resets[L].cutoff
      BY <1>1, <1>2, <2>2, LatestIs DEF Checkpoints, SavedBalances, Since
    <3>2. /\ Total(Early(E, resets[L].cutoff)) \in Int
          /\ Total(Early(E, d)) = Total(Early(E, resets[L].cutoff)) + Total(M)
      BY <1>1, <3>1, EarlySplit
    <3>3. fix = Dir(to) * Total(Early(E, resets[L].cutoff))
      <4>1. CASE to \in Touched(E, to)
        <5>1. \A c \in Affected(to, E) : Recorded(c)
          BY <1>3, <4>1 DEF Correctable
        <5>2. Deltas(to, E, TRUE)[L] = Dir(to) * Total(Early(E, resets[L].cutoff))
          BY <1>1, <3>1, <5>1, ArrivalReachesAll
        <5>3. (to = to) = TRUE
          OBVIOUS
        <5>4. MoveDelta(E, to, L) = Deltas(to, E, TRUE)[L]
          BY <1>3, <3>1, <4>1, <5>3 DEF MoveDelta
        <5> QED BY <2>2, <5>2, <5>4
      <4>2. CASE to \notin Touched(E, to)
        <5>1. E = {}
          BY <4>2 DEF Touched
        <5>2. Early(E, resets[L].cutoff) = {}
          BY <5>1 DEF Early
        <5>3. Total(Early(E, resets[L].cutoff)) = 0
          BY <1>1, <5>2, FromTheFirst
        <5>4. MoveDelta(E, to, L) = 0
          BY <3>1, <4>2 DEF MoveDelta
        <5> QED BY <2>2, <5>3, <5>4, DirIs
      <4> QED BY <4>1, <4>2
    <3>4. PICK x \in Int : x = Total(Early(E, resets[L].cutoff))
      BY <3>2
    <3>5. PICK y \in Int : y = Total(M)
      BY <1>4
    <3> HIDE DEF fix, M
    <3>6. Dir(to) * x + Dir(to) * y = Dir(to) * (x + y)
      BY <3>4, <3>5, DirIs
    <3> QED BY <3>2, <3>3, <3>4, <3>5, <3>6
  <2> QED BY <2>1, <2>2
<1> HIDE DEF fix, M
<1>7. PICK y \in Int : y = Total(M)
  BY <1>4
<1>8. 1 * y = y /\ Dir(to) * y \in Int
  BY <1>7, DirIs
<1> QED
  BY <1>4, <1>5, <1>6, <1>7, <1>8

\* A committed move that was corrected from the records does so at every day.
LEMMA MoveArrives ==
    ASSUME Standing, Standing', DaysAre, [Next]_vars, moved' > moved, review # None,
           review' = None, ~review.token.confirm, NEW to, to = review.to, NEW d \in Days
    PROVE  BalanceAsOf(to, d)' = BalanceAsOf(to, d) + Dir(to) * Total(Arrived(d))
<1>1. PICK ids : ids = review.ids
  OBVIOUS
<1>3. PICK inputs : inputs = review.inputs
  OBVIOUS
<1>4. PICK E : E = Effective(ids, to)
  OBVIOUS
<1>5. CommitIs(ids, to, inputs, E)
  BY <1>1, <1>3, <1>4, CommitFacts
<1>6. Effective(E, to) = E
  BY <1>4, EffectiveTwice
<1>7. to \in Accounts
  BY <1>5 DEF CommitIs, Standing, IInv, TableOK
<1>8. Books'
  BY DEF Standing
<1>9. /\ CorrectSavedBalances(E, to) /\ Correctable(E, to) /\ There(E) /\ MovesRows(E, to)
      /\ (\A i \in E : rows'[i].rev \in Int) /\ UNCHANGED opening
  BY <1>5 DEF CommitIs
<1>10. BalanceAsOf(to, d)' = BalanceAsOf(to, d) + Dir(to) * Total(Early(E, d))
  BY <1>6, <1>7, <1>8, <1>9, ArrivedHistory
<1>11. Arrived(d) = Early(E, d)
  <2>1. DOMAIN review.token.moving = E
    BY <1>5 DEF CommitIs
  <2> QED BY <2>1 DEF Arrived, Early
<1> QED
  BY <1>10, <1>11

\* A move corrected from the records leaves the receiving account's history as if the
\* rows had always been there: at every day the balance changes by exactly the rows
\* of that day or before (CorrectSavedBalances; historical_move.rs).
THEOREM HistoryFollows == Spec => HistoryFollowsMove
<1> DEFINE Inv == Standing /\ DaysAre
<1> DEFINE Follows == moved' > moved /\ review # None /\ review' = None
                      /\ ~review.token.confirm =>
                          \A a \in {review.to}, d \in Days :
                              BalanceAsOf(a, d)' = BalanceAsOf(a, d) + Dir(a) * Total(Arrived(d))
<1>1. Init => Inv
  BY StandingInit, InitDays
<1>2. Inv /\ [Next]_vars => Inv'
  <2>1. Standing => IInv /\ today \in Nat
    BY DEF Standing, Grounds
  <2> QED BY <2>1, StandingNext, NextDays
<1>3. Inv /\ Inv' /\ [Next]_vars => [Follows]_vars
  <2> SUFFICES ASSUME Inv, Inv', [Next]_vars, moved' > moved, review # None, review' = None,
                      ~review.token.confirm, NEW a \in {review.to}, NEW d \in Days
               PROVE  BalanceAsOf(a, d)' = BalanceAsOf(a, d) + Dir(a) * Total(Arrived(d))
    OBVIOUS
  <2>1. a = review.to
    OBVIOUS
  <2> QED BY <2>1, MoveArrives
<1>4. HistoryFollowsMove <=> [][Follows]_vars
  BY DEF HistoryFollowsMove
<1> HIDE DEF Inv, Follows
<1> QED
  BY <1>1, <1>2, <1>3, <1>4, PTL DEF Spec
==============================================================================
