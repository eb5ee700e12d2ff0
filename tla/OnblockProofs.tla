---------------------------- MODULE OnblockProofs ----------------------------
(***************************************************************************)
(* Proofs about Onblock, for every set of producers, keys, votes and pay   *)
(* rates, every size of a schedule and every number of blocks and calls.   *)
(*                                                                         *)
(* TablesOK says of the tables that they are sound: every one has its      *)
(* type, the total of unpaid blocks is that of the producers (BlocksOK),   *)
(* and eosio.bpay holds the bucket and the payments (Covers).  Each helper *)
(* of Producers is shown to write a few of the tables only (MetricsOnly,   *)
(* ProdsOnly, RotationOnly, Settles) and to leave them sound.              *)
(*                                                                         *)
(* An election proposes what the index by votes has at its front: Ranked   *)
(* lists a set in an order (RankedLists), those who may be elected come    *)
(* first in it (ElectableFirst), Leading takes them (LeadingFirst), and    *)
(* the swap of the rotation changes one place (IsTop).  What onblock does  *)
(* after that keeps votes and who is active (Continues).                   *)
(***************************************************************************)
EXTENDS Onblock, LedgerProofs, SequenceTheorems

-----------------------------------------------------------------------------
(* Orders and sequences                                                    *)

\* A bounded set of numbers has a greatest, which Max finds.
LEMMA GreatestNumber ==
    ASSUME NEW n \in Nat, NEW T \in SUBSET (0..n), T # {}
    PROVE  Max(T) \in T /\ \A k \in T : k <= Max(T)
<1> DEFINE U == {m \in Nat : m <= n /\ n - m \in T}
<1>1. U # {}
  <2>1. PICK k \in T : TRUE
    OBVIOUS
  <2>2. k \in Nat /\ k <= n
    OBVIOUS
  <2>3. n - k \in Nat /\ n - k <= n /\ n - (n - k) = k
    BY <2>2
  <2> QED
    BY <2>1, <2>3
<1>2. PICK m \in U : \A k \in U : m <= k
  BY <1>1, LeastNumber
<1>3. n - m \in T
  BY <1>2
<1>4. \A k \in T : n - m >= k
  <2> SUFFICES ASSUME NEW k \in T PROVE n - m >= k
    OBVIOUS
  <2>1. k \in Nat /\ k <= n /\ m \in Nat
    BY <1>2
  <2>2. n - k \in Nat /\ n - k <= n /\ n - (n - k) = k
    BY <2>1
  <2>3. n - k \in U
    BY <2>2
  <2>4. m <= n - k
    BY <1>2, <2>3
  <2> QED
    BY <2>1, <2>4
<1>5. Max(T) \in T /\ \A k \in T : Max(T) >= k
  BY <1>3, <1>4 DEF Max
<1> QED
  BY <1>5

\* The lesser of two numbers.
LEMMA LesserOfTwo ==
    ASSUME NEW a \in Int, NEW b \in Int
    PROVE  Min({a, b}) = IF a <= b THEN a ELSE b
<1>1. \E x \in {a, b} : \A y \in {a, b} : x <= y
  OBVIOUS
<1>2. Min({a, b}) \in {a, b} /\ \A y \in {a, b} : Min({a, b}) <= y
  BY <1>1 DEF Min
<1> QED
  BY <1>2

\* The pairs in R put the elements of S in a strict order.
InOrder(S, R) ==
    /\ \A x \in S : <<x, x>> \notin R
    /\ \A x, y, z \in S : <<x, y>> \in R /\ <<y, z>> \in R => <<x, z>> \in R
    /\ \A x, y \in S : x # y => <<x, y>> \in R \/ <<y, x>> \in R

\* The sequence has every element of S once, in the order of R.
Lists(s, S, R) ==
    /\ s \in [1..Cardinality(S) -> S] /\ s \in Seq(S) /\ Len(s) = Cardinality(S)
    /\ \A x \in S : \E i \in 1..Cardinality(S) : s[i] = x
    /\ \A i, j \in 1..Cardinality(S) : i < j => <<s[i], s[j]>> \in R
    /\ \A i, j \in 1..Cardinality(S) : i # j => s[i] # s[j]

\* Every element of an ordered set has a place: as many as are before it.
LEMMA RankedLists ==
    ASSUME NEW S, IsFiniteSet(S), NEW R, InOrder(S, R)
    PROVE  Lists(Ranked(S, R), S, R)
<1> DEFINE n == Cardinality(S)
           Before(x) == {y \in S : <<y, x>> \in R}
           rank == [x \in S |-> Cardinality(Before(x))]
           s == Ranked(S, R)
<1>1. n \in Nat
  BY FS_CardinalityType
<1>2. ASSUME NEW x \in S
      PROVE  IsFiniteSet(Before(x)) /\ Cardinality(Before(x)) \in 0..(n - 1)
  <2>1. Before(x) \in SUBSET (S \ {x})
    BY DEF InOrder
  <2>2. IsFiniteSet(S \ {x}) /\ Cardinality(S \ {x}) = n - 1
    BY FS_RemoveElement
  <2>3. IsFiniteSet(Before(x)) /\ Cardinality(Before(x)) <= n - 1
    <3>1. PICK A, B : A = Before(x) /\ B = S \ {x}
      OBVIOUS
    <3> HIDE DEF Before
    <3>2. IsFiniteSet(B) /\ A \in SUBSET B
      BY <2>1, <2>2, <3>1
    <3>3. IsFiniteSet(A) /\ Cardinality(A) <= Cardinality(B)
      BY <3>2, FS_Subset, Zenon
    <3> QED
      BY <2>2, <3>1, <3>3
  <2>4. Cardinality(Before(x)) \in Nat
    BY <2>3, FS_CardinalityType
  <2> QED
    BY <1>1, <2>3, <2>4
<1>3. ASSUME NEW x \in S, NEW y \in S, <<x, y>> \in R
      PROVE  Cardinality(Before(x)) < Cardinality(Before(y))
  <2>1. Before(x) \in SUBSET Before(y) /\ x \in Before(y) /\ x \notin Before(x)
    BY <1>3 DEF InOrder
  <2>2. Before(x) # Before(y)
    BY <2>1
  <2>3. Cardinality(Before(x)) <= Cardinality(Before(y)) /\ Cardinality(Before(x)) # Cardinality(Before(y))
    BY <1>2, <2>1, <2>2, FS_Subset
  <2>4. Cardinality(Before(x)) \in Int /\ Cardinality(Before(y)) \in Int
    BY <1>1, <1>2
  <2> QED
    BY <2>3, <2>4
<1>4. rank \in [S -> 0..(n - 1)]
  BY <1>2
<1>5. \A x, y \in S : rank[x] = rank[y] => x = y
  <2> SUFFICES ASSUME NEW x \in S, NEW y \in S, rank[x] = rank[y], x # y PROVE FALSE
    OBVIOUS
  <2>0. Cardinality(Before(x)) = Cardinality(Before(y)) /\ Cardinality(Before(x)) \in Int
    BY <1>1, <1>2, Z3T(30)
  <2>1. CASE <<x, y>> \in R
    <3>1. Cardinality(Before(x)) < Cardinality(Before(y))
      BY <1>3, <2>1
    <3> QED
      BY <2>0, <3>1
  <2>2. CASE <<y, x>> \in R
    <3>1. Cardinality(Before(y)) < Cardinality(Before(x))
      BY <1>3, <2>2
    <3> QED
      BY <2>0, <3>1
  <2> QED
    BY <2>1, <2>2 DEF InOrder
<1>6. \A i \in 0..(n - 1) : \E x \in S : rank[x] = i
  <2>1. rank \in Injection(S, 0..(n - 1))
    BY <1>4, <1>5 DEF Injection, IsInjective
  <2>2. IsFiniteSet(0..(n - 1)) /\ Cardinality(0..(n - 1)) = n
    BY <1>1, FS_Interval, SMTT(30)
  <2>3. rank \in Surjection(S, 0..(n - 1))
    BY <2>1, <2>2, FS_Injection
  <2> QED
    BY <2>3 DEF Surjection
<1>7. ASSUME NEW i \in 1..n PROVE s[i] \in S /\ rank[s[i]] = i - 1
  <2>1. i - 1 \in 0..(n - 1)
    BY <1>1
  <2>2. \E x \in S : Cardinality(Before(x)) = i - 1
    BY <1>6, <2>1
  <2>3. s[i] = CHOOSE x \in S : Cardinality(Before(x)) = i - 1
    BY DEF Ranked
  <2>4. s[i] \in S /\ Cardinality(Before(s[i])) = i - 1
    BY <2>2, <2>3
  <2> QED
    BY <2>4
<1>8. s = [i \in 1..n |-> s[i]] /\ DOMAIN s = 1..n
  <2>1. s = [i \in 1..n |-> CHOOSE x \in S : Cardinality(Before(x)) = i - 1]
    BY Zenon DEF Ranked
  <2> QED
    BY <2>1
<1> HIDE DEF s, rank, n
<1>9. s \in [1..n -> S] /\ s \in Seq(S) /\ Len(s) = n
  <2>1. s \in [1..n -> S]
    BY <1>7, <1>8
  <2>2. s \in Seq(S)
    BY <1>1, <2>1, SeqDef
  <2> QED
    BY <1>1, <1>8, <2>1, <2>2
<1>10. ASSUME NEW x \in S PROVE \E i \in 1..n : s[i] = x
  <2>1. rank[x] \in 0..(n - 1)
    BY <1>4
  <2>2. rank[x] + 1 \in 1..n /\ (rank[x] + 1) - 1 = rank[x]
    BY <1>1, <2>1
  <2>3. s[rank[x] + 1] \in S /\ rank[s[rank[x] + 1]] = rank[x]
    BY <1>7, <2>2
  <2> QED
    BY <1>5, <2>2, <2>3
<1>11. ASSUME NEW i \in 1..n, NEW j \in 1..n, i # j PROVE s[i] # s[j]
  BY <1>1, <1>7, <1>11
<1>12. ASSUME NEW i \in 1..n, NEW j \in 1..n, i < j PROVE <<s[i], s[j]>> \in R
  <2>1. s[i] \in S /\ s[j] \in S /\ rank[s[i]] = i - 1 /\ rank[s[j]] = j - 1
    BY <1>7
  <2>2. s[i] # s[j]
    BY <1>1, <1>12, <2>1
  <2>3. CASE <<s[j], s[i]>> \in R
    <3>1. rank[s[j]] < rank[s[i]]
      BY <1>3, <2>1, <2>3 DEF rank
    <3> QED
      BY <1>1, <1>12, <2>1, <3>1
  <2> QED
    BY <2>1, <2>2, <2>3 DEF InOrder
<1> QED
  BY <1>9, <1>10, <1>11, <1>12 DEF Lists, n, s

\* The first elements of s, which are in S, until one is not, or there are
\* enough.
Leads(l, s, S, max) ==
    /\ Len(l) \in Nat /\ Len(l) <= max /\ Len(l) <= Len(s) /\ DOMAIN l = 1..Len(l)
    /\ \A i \in 1..Len(l) : l[i] = s[i] /\ l[i] \in S
    /\ Len(l) < max /\ Len(l) < Len(s) => s[Len(l) + 1] \notin S

\* Leading takes them.
LEMMA LeadingLeads ==
    ASSUME NEW X, NEW s \in Seq(X), NEW S, NEW max \in Nat
    PROVE  Leads(Leading(s, S, max), s, S, max) /\ Leading(s, S, max) \in Seq(X)
<1> DEFINE K == {k \in 0..Min({max, Len(s)}) : \A i \in 1..k : s[i] \in S}
           n == Max(K)
           l == Leading(s, S, max)
<1>1. Len(s) \in Nat /\ DOMAIN s = 1..Len(s)
  BY LenProperties
<1>2. Min({max, Len(s)}) = IF max <= Len(s) THEN max ELSE Len(s)
  BY <1>1, LesserOfTwo
<1>3. Min({max, Len(s)}) \in Nat
  BY <1>1, <1>2
<1>4. 0 \in K
  BY <1>3
<1>5. n \in K /\ \A k \in K : k <= n
  <2>1. K \in SUBSET (0..Min({max, Len(s)})) /\ K # {}
    BY <1>4
  <2> HIDE DEF K
  <2> QED
    BY <1>3, <2>1, GreatestNumber
<1>6. n \in Nat /\ n <= max /\ n <= Len(s) /\ \A i \in 1..n : s[i] \in S
  <2> PICK m : m = n
    OBVIOUS
  <2>1. m \in K
    BY <1>5
  <2>2. m \in 0..Min({max, Len(s)}) /\ \A i \in 1..m : s[i] \in S
    BY <2>1
  <2>3. m \in Nat /\ m <= max /\ m <= Len(s)
    BY <1>1, <1>2, <1>3, <2>2
  <2> HIDE DEF K, n
  <2> QED
    BY <2>2, <2>3
<1>7. l = SubSeq(s, 1, n)
  BY DEF Leading
<1>8. ASSUME n < max, n < Len(s) PROVE s[n + 1] \notin S
  <2> SUFFICES ASSUME s[n + 1] \in S PROVE FALSE
    OBVIOUS
  <2> PICK m : m = n
    OBVIOUS
  <2>1. m \in Nat /\ m < max /\ m < Len(s) /\ s[m + 1] \in S /\ \A i \in 1..m : s[i] \in S
    BY <1>6, <1>8
  <2>2. m + 1 \in 0..Min({max, Len(s)})
    BY <1>1, <1>2, <2>1
  <2>3. \A i \in 1..(m + 1) : s[i] \in S
    <3> HIDE DEF n, K
    <3> SUFFICES ASSUME NEW i \in 1..(m + 1), i # m + 1 PROVE s[i] \in S
      BY <2>1
    <3>1. i \in 1..m
      BY <2>1
    <3> QED
      BY <2>1, <3>1
  <2>4. m + 1 \in K
    BY <2>2, <2>3
  <2>5. m + 1 <= m
    <3> HIDE DEF K, n
    <3> QED
      BY <1>5, <2>4
  <2> QED
    BY <2>1, <2>5
<1> HIDE DEF n, l, K
<1>9. l \in Seq(X) /\ Len(l) = n /\ DOMAIN l = 1..n /\ \A i \in 1..n : l[i] = s[i]
  BY <1>1, <1>6, <1>7, SubSeqProperties
<1> QED
  BY <1>6, <1>8, <1>9 DEF Leads, l

\* One producer is before another in the index by votes.
Sooner(t, p, q) ==
    \/ by_votes(t.prods[p]) < by_votes(t.prods[q])
    \/ by_votes(t.prods[p]) = by_votes(t.prods[q]) /\ p < q
VotePairs(t, S) == {e \in S \X S : Sooner(t, e[1], e[2])}

\* That index is an order, and ByVotes lists it.
LEMMA ByVotesLists ==
    ASSUME NEW t, NEW S \in SUBSET Nat, IsFiniteSet(S),
           \A p \in S : by_votes(t.prods[p]) \in Int
    PROVE  /\ Lists(ByVotes(t, S), S, VotePairs(t, S))
           /\ \A i, j \in 1..Cardinality(S) : i < j => Sooner(t, ByVotes(t, S)[i], ByVotes(t, S)[j])
<1> DEFINE R == VotePairs(t, S)
<1>1. \A p, q \in S : <<p, q>> \in R <=> Sooner(t, p, q)
  BY DEF VotePairs
<1>2. InOrder(S, R)
  <2>1. ASSUME NEW p \in S PROVE ~Sooner(t, p, p)
    <3>1. PICK a : a = by_votes(t.prods[p])
      OBVIOUS
    <3>2. a \in Int /\ p \in Nat
      BY <3>1
    <3> QED
      BY <3>1, <3>2 DEF Sooner
  <2>2. ASSUME NEW p \in S, NEW q \in S, NEW r \in S, Sooner(t, p, q), Sooner(t, q, r)
        PROVE  Sooner(t, p, r)
    <3>1. PICK a, b, c : a = by_votes(t.prods[p]) /\ b = by_votes(t.prods[q]) /\ c = by_votes(t.prods[r])
      OBVIOUS
    <3>2. a \in Int /\ b \in Int /\ c \in Int /\ p \in Nat /\ q \in Nat /\ r \in Nat
      BY <3>1
    <3> QED
      BY <2>2, <3>1, <3>2 DEF Sooner
  <2>3. ASSUME NEW p \in S, NEW q \in S, p # q PROVE Sooner(t, p, q) \/ Sooner(t, q, p)
    <3>1. PICK a, b : a = by_votes(t.prods[p]) /\ b = by_votes(t.prods[q])
      OBVIOUS
    <3>2. a \in Int /\ b \in Int /\ p \in Int /\ q \in Int
      BY <3>1
    <3> QED
      BY <2>3, <3>1, <3>2 DEF Sooner
  <2> HIDE DEF R
  <2> QED
    BY <1>1, <2>1, <2>2, <2>3 DEF InOrder
<1>3. ByVotes(t, S) = Ranked(S, R)
  BY DEF ByVotes, VotePairs, Sooner
<1>4. Lists(ByVotes(t, S), S, R)
  BY <1>2, <1>3, RankedLists
<1>5. \A i, j \in 1..Cardinality(S) : i < j => Sooner(t, ByVotes(t, S)[i], ByVotes(t, S)[j])
  BY <1>4 DEF Lists, VotePairs
<1> QED
  BY <1>4, <1>5

\* Two sequences that have the same elements, as often.
Rearranged(r, s, X) ==
    /\ r \in Seq(X) /\ s \in Seq(X) /\ Len(r) = Len(s)
    /\ \E f \in [1..Len(s) -> 1..Len(s)] :
         /\ \A i \in 1..Len(s) : r[i] = s[f[i]]
         /\ \A j \in 1..Len(s) : \E i \in 1..Len(s) : f[i] = j

\* ByName puts a schedule in another order.
LEMMA ByNameRearranges ==
    ASSUME NEW X, NEW s \in Seq(X), \A x \in X : x.name \in Nat
    PROVE  Rearranged(ByName(s), s, X)
<1> DEFINE n == Len(s)
           before(i, j) == s[i].name < s[j].name \/ (s[i].name = s[j].name /\ i < j)
           R == {e \in (1..n) \X (1..n) : before(e[1], e[2])}
           f == Ranked(1..n, R)
           r == ByName(s)
<1>1. n \in Nat /\ DOMAIN s = 1..n /\ \A i \in 1..n : s[i] \in X /\ s[i].name \in Int
  BY LenProperties, ElementOfSeq
<1>2. \A i, j \in 1..n : <<i, j>> \in R <=> before(i, j)
  OBVIOUS
<1>3. InOrder(1..n, R)
  <2>1. ASSUME NEW i \in 1..n PROVE ~before(i, i)
    BY <1>1
  <2>2. ASSUME NEW i \in 1..n, NEW j \in 1..n, NEW k \in 1..n, before(i, j), before(j, k)
        PROVE  before(i, k)
    <3>1. s[i].name \in Int /\ s[j].name \in Int /\ s[k].name \in Int
      BY <1>1
    <3> QED
      BY <1>1, <2>2, <3>1
  <2>3. ASSUME NEW i \in 1..n, NEW j \in 1..n, i # j PROVE before(i, j) \/ before(j, i)
    <3>1. s[i].name \in Int /\ s[j].name \in Int
      BY <1>1
    <3> QED
      BY <1>1, <2>3, <3>1
  <2> HIDE DEF R, before, n
  <2> QED
    BY <1>2, <2>1, <2>2, <2>3 DEF InOrder
<1>4. IsFiniteSet(1..n) /\ Cardinality(1..n) = n
  BY <1>1, FS_Interval, SMTT(30)
<1>5. Lists(f, 1..n, R)
  <2> HIDE DEF R, n
  <2> QED
    BY <1>3, <1>4, RankedLists
<1>6. f \in [1..n -> 1..n] /\ \A j \in 1..n : \E i \in 1..n : f[i] = j
  <2> HIDE DEF f, R, n
  <2> QED
    BY <1>4, <1>5 DEF Lists
<1>7. r = [i \in 1..n |-> s[f[i]]]
  BY Zenon DEF ByName
<1> HIDE DEF f, R, r
<1>8. r \in [1..n -> X] /\ \A i \in 1..n : r[i] = s[f[i]]
  BY <1>1, <1>6, <1>7
<1>9. r \in Seq(X) /\ Len(r) = n
  <2>1. r \in Seq(X)
    BY <1>1, <1>8, SeqDef
  <2> QED
    BY <1>1, <1>8, <2>1, LenProperties
<1> QED
  BY <1>6, <1>8, <1>9 DEF Rearranged, r

\* A set with as many elements as places from 1 to m.
LEMMA CountedByPlaces ==
    ASSUME NEW m \in Nat, NEW T, NEW f, f \in [1..m -> T],
           \A x \in T : \E i \in 1..m : f[i] = x,
           \A i, j \in 1..m : i # j => f[i] # f[j]
    PROVE  IsFiniteSet(T) /\ Cardinality(T) = m
<1>1. f \in Injection(1..m, T) /\ f \in Surjection(1..m, T)
  BY DEF Injection, IsInjective, Surjection
<1>2. ExistsBijection(1..m, T)
  BY <1>1 DEF ExistsBijection, Bijection
<1>3. IsFiniteSet(1..m) /\ Cardinality(1..m) = m
  BY FS_Interval
<1> QED
  BY <1>2, <1>3, FS_Bijection

\* S comes before the rest of D in the order of R.
ComesFirst(S, D, R) == \A x \in S, y \in D \ S : <<y, x>> \notin R

\* Then its elements have the first places.
LEMMA FirstPlaces ==
    ASSUME NEW D, IsFiniteSet(D), NEW R, NEW s, Lists(s, D, R), NEW S \in SUBSET D,
           ComesFirst(S, D, R)
    PROVE  /\ IsFiniteSet(S) /\ Cardinality(S) \in Nat /\ Cardinality(S) <= Cardinality(D)
           /\ \A i \in 1..Cardinality(D) : s[i] \in S <=> i <= Cardinality(S)
<1> DEFINE n == Cardinality(D)
           K == {0} \cup {i \in 1..n : s[i] \in S}
<1>1. n \in Nat /\ IsFiniteSet(S) /\ Cardinality(S) \in Nat /\ Cardinality(S) <= n
  BY FS_CardinalityType, FS_Subset
<1>2. K \in SUBSET (0..n) /\ K # {}
  BY <1>1
<1>3. Max(K) \in K /\ \A k \in K : k <= Max(K)
  <2> HIDE DEF K
  <2> QED
    BY <1>1, <1>2, GreatestNumber
<1> PICK m : m = Max(K)
  OBVIOUS
<1>4. m \in 0..n /\ (m = 0 \/ s[m] \in S)
  BY <1>1, <1>3
<1>5. ASSUME NEW i \in 1..n, s[i] \in S PROVE i <= m
  <2>1. i \in K
    BY <1>5
  <2> HIDE DEF K
  <2> QED
    BY <1>3, <2>1
<1>6. ASSUME NEW i \in 1..n, i <= m PROVE s[i] \in S
  <2>1. CASE i = m
    BY <1>1, <1>4, <2>1
  <2>2. CASE i # m
    <3>1. m \in 1..n /\ i < m /\ s[m] \in S
      BY <1>1, <1>4, <1>6, <2>2
    <3>2. <<s[i], s[m]>> \in R /\ s[i] \in D
      BY <3>1 DEF Lists
    <3> QED
      BY <3>1, <3>2 DEF ComesFirst
  <2> QED
    BY <2>1, <2>2
<1> DEFINE f == [i \in 1..m |-> s[i]]
<1> HIDE DEF n, K
<1>7. m \in Nat /\ 1..m \subseteq 1..n
  BY <1>1, <1>4
<1>8. f \in [1..m -> S]
  BY <1>1, <1>6, <1>7
<1>9. \A x \in S : \E i \in 1..m : f[i] = x
  <2> SUFFICES ASSUME NEW x \in S PROVE \E i \in 1..m : f[i] = x
    OBVIOUS
  <2>1. PICK i \in 1..n : s[i] = x
    BY DEF Lists, n
  <2>2. i \in 1..m
    BY <1>1, <1>5, <1>7, <2>1
  <2> QED
    BY <2>1, <2>2
<1>10. \A i, j \in 1..m : i # j => f[i] # f[j]
  BY <1>7 DEF Lists, n
<1>11. Cardinality(S) = m
  <2> HIDE DEF f
  <2> QED
    BY <1>7, <1>8, <1>9, <1>10, CountedByPlaces, ZenonT(30)
<1> QED
  BY <1>1, <1>5, <1>6, <1>11 DEF n

\* The lesser of two numbers, without a set.
Lesser(a, b) == IF a <= b THEN a ELSE b

\* l has the elements of S, in their order, but no more than max.
IsFirst(l, s, S, max) ==
    /\ Len(l) = Lesser(max, Cardinality(S))
    /\ Len(l) \in Nat /\ DOMAIN l = 1..Len(l)
    /\ \A i \in 1..Len(l) : l[i] = s[i] /\ l[i] \in S

\* And Leading takes them all, or as many as it may.
LEMMA LeadingFirst ==
    ASSUME NEW D, IsFiniteSet(D), NEW R, NEW s, Lists(s, D, R), NEW S \in SUBSET D,
           ComesFirst(S, D, R), NEW max \in Nat
    PROVE  Leading(s, S, max) \in Seq(D) /\ IsFirst(Leading(s, S, max), s, S, max)
<1> DEFINE n == Cardinality(D)
<1>1. s \in Seq(D) /\ Len(s) = n /\ n \in Nat
  BY FS_CardinalityType DEF Lists
<1> PICK l : l = Leading(s, S, max)
  OBVIOUS
<1>2. l \in Seq(D) /\ Leads(l, s, S, max)
  BY <1>1, LeadingLeads
<1> PICK c : c = Cardinality(S)
  OBVIOUS
<1>3. c \in Nat /\ c <= n /\ \A i \in 1..n : s[i] \in S <=> i <= c
  BY FirstPlaces
<1> HIDE DEF n
<1> PICK k : k = Len(l)
  OBVIOUS
<1>4. k \in Nat /\ k <= max /\ k <= n /\ (\A i \in 1..k : s[i] \in S)
      /\ (k < max /\ k < n => s[k + 1] \notin S)
  BY <1>1, <1>2 DEF Leads
<1>5. k <= c
  <2> SUFFICES ASSUME k # 0 PROVE k <= c
    BY <1>3, <1>4
  <2>1. k \in 1..k /\ k \in 1..n
    BY <1>1, <1>4
  <2> QED
    BY <1>3, <1>4, <2>1
<1>6. k < max => c <= k
  <2> SUFFICES ASSUME k < max, k < c PROVE FALSE
    BY <1>3, <1>4
  <2>1. k + 1 \in 1..n /\ k + 1 <= c /\ k < n
    BY <1>1, <1>3, <1>4
  <2> QED
    BY <1>3, <1>4, <2>1
<1>7. k = Lesser(max, c)
  BY <1>3, <1>4, <1>5, <1>6 DEF Lesser
<1> QED
  BY <1>2, <1>7 DEF IsFirst, Leads

-----------------------------------------------------------------------------
(* The tables                                                              *)

TableFields == {"ok", "now", "prods", "rotation", "metrics", "elected", "active", "pending",
                "proposed", "pay", "payments", "ledger"}
IsTables(t) == t = [x \in TableFields |-> t[x]] /\ t.ok \in BOOLEAN

ProducerFields == {"total_votes", "key", "is_active", "unpaid_blocks",
                   "missed_blocks_per_rotation", "lifetime_missed_blocks", "times_kicked",
                   "kick_penalty_hours", "last_time_kicked"}
IsProducer(r) ==
    /\ r = [x \in ProducerFields |-> r[x]]
    /\ r.total_votes \in Votes
    /\ r.is_active \in BOOLEAN
    /\ IF r.is_active THEN r.key \in Keys ELSE r.key = 0
    /\ r.unpaid_blocks \in Nat /\ r.missed_blocks_per_rotation \in Nat
    /\ r.lifetime_missed_blocks \in Nat /\ r.times_kicked \in Nat

ProdsOK(rows) ==
    /\ rows = [p \in Names |-> rows[p]]
    /\ \A p \in Names : IsProducer(rows[p])

RotationFields == {"bp_currently_out", "sbp_currently_in", "bp_out_index", "sbp_in_index",
                   "next_rotation_time", "last_rotation_time"}
RotationOK(r) ==
    /\ r = [x \in RotationFields |-> r[x]]
    /\ r.bp_currently_out \in Names \cup {0} /\ r.sbp_currently_in \in Names \cup {0}
    /\ r.bp_out_index \in 0..TOP_PRODUCERS
    /\ r.sbp_in_index \in TOP_PRODUCERS..MAX_PRODUCERS + 1

MetricsFields == {"last_onblock_caller", "block_counter_correction", "producers_metric"}
Metric == [bp_name : Names, missed : 0..uint32_range - 1]
MetricsOK(m) ==
    /\ m = [x \in MetricsFields |-> m[x]]
    /\ m.block_counter_correction \in Int
    /\ m.producers_metric \in Seq(Metric)

ElectedOK(e, m) ==
    /\ e = [x \in {"last_update", "size"} |-> e[x]]
    /\ e.size = Len(m.producers_metric) /\ e.size <= TOP_PRODUCERS

Entry == [name : Nat, key : Nat]
ScheduleOK(s) == s \in Seq(Entry) /\ Len(s) <= TOP_PRODUCERS
ChainOK(now_active, next, later) ==
    ScheduleOK(now_active) /\ now_active # <<>> /\ ScheduleOK(next) /\ ScheduleOK(later)

PayFields == {"block_num", "activated", "last_claimrewards", "last_pervote_bucket_fill",
              "total_unpaid_blocks", "perblock_bucket", "bpay_rate", "worker_amount"}
PayOK(g) ==
    /\ g = [x \in PayFields |-> g[x]]
    /\ g.last_pervote_bucket_fill \in Nat /\ g.bpay_rate \in Nat /\ g.worker_amount \in Nat
    /\ g.perblock_bucket \in Int /\ g.total_unpaid_blocks \in Nat

Accounts == {"tedp", "bpay", "works", "owners"}
DuesOK(dues) == IsTable(dues) /\ DOMAIN dues \subseteq Names

\* The blocks that onblock has counted at a producer and not paid.
Unpaid(rows) == [p \in DOMAIN rows |-> rows[p].unpaid_blocks]
BlocksOK(rows, g) == g.total_unpaid_blocks = SumOf(Unpaid(rows))

\* eosio.bpay holds the bucket and what it owes.
Covers(money, g, dues) == money.bpay = g.perblock_bucket + SumOf(dues)

TablesOK(t) ==
    /\ IsTables(t) /\ t.now \in Nat
    /\ ProdsOK(t.prods) /\ RotationOK(t.rotation)
    /\ MetricsOK(t.metrics) /\ ElectedOK(t.elected, t.metrics)
    /\ ChainOK(t.active, t.pending, t.proposed)
    /\ PayOK(t.pay) /\ t.ledger \in [Accounts -> Nat] /\ DuesOK(t.payments)
    /\ BlocksOK(t.prods, t.pay)
    /\ Covers(t.ledger, t.pay, t.payments)

\* A check that may fail touches nothing else.
LEMMA CheckOK ==
    ASSUME NEW t, TablesOK(t), NEW condition \in BOOLEAN
    PROVE  TablesOK(Check(t, condition))
BY DEF TablesOK, IsTables, TableFields, Check

-----------------------------------------------------------------------------
(* What only writes schedulemetr                                           *)

MetricsOnly(t, u) ==
    /\ u = [t EXCEPT !.metrics = u.metrics]
    /\ MetricsOK(u.metrics)
    /\ Len(u.metrics.producers_metric) = Len(t.metrics.producers_metric)

\* The tables stay sound,
LEMMA MetricsOnlyOK ==
    ASSUME NEW t, TablesOK(t), NEW u, MetricsOnly(t, u)
    PROVE  TablesOK(u)
<1> PICK m : m = u.metrics
  OBVIOUS
<1>1. u = [t EXCEPT !.metrics = m] /\ MetricsOK(m)
      /\ Len(m.producers_metric) = Len(t.metrics.producers_metric)
  BY DEF MetricsOnly
<1>2. IsTables(u) /\ u.now = t.now /\ u.prods = t.prods /\ u.rotation = t.rotation /\ u.metrics = m
      /\ u.elected = t.elected /\ u.active = t.active /\ u.pending = t.pending
      /\ u.proposed = t.proposed /\ u.pay = t.pay /\ u.payments = t.payments
      /\ u.ledger = t.ledger
  BY <1>1 DEF TablesOK, IsTables, TableFields
<1>3. ElectedOK(t.elected, m)
  BY <1>1 DEF TablesOK, ElectedOK
<1> QED
  BY <1>1, <1>2, <1>3 DEF TablesOK

\* also after another such step.
LEMMA MetricsOnlyTwice ==
    ASSUME NEW t, IsTables(t), NEW u, NEW v, MetricsOnly(t, u), MetricsOnly(u, v)
    PROVE  MetricsOnly(t, v)
BY DEF MetricsOnly, IsTables, TableFields

\* Nothing is written at all.
LEMMA MetricsOnlySelf ==
    ASSUME NEW t, TablesOK(t)
    PROVE  MetricsOnly(t, t)
BY DEF MetricsOnly, TablesOK, IsTables, TableFields

\* The rows of the schedule's producers are written one by one.
LEMMA QueueRewritten ==
    ASSUME NEW t, TablesOK(t), NEW q, q = t.metrics.producers_metric,
           NEW g, g = [i \in 1..Len(q) |-> g[i]], \A i \in 1..Len(q) : g[i] \in Metric,
           NEW u, u = [t EXCEPT !.metrics.producers_metric = g]
    PROVE  MetricsOnly(t, u)
<1> PICK m : m = t.metrics
  OBVIOUS
<1>1. MetricsOK(m) /\ q = m.producers_metric /\ IsTables(t)
  BY DEF TablesOK
<1>2. q \in Seq(Metric) /\ Len(q) \in Nat
  BY <1>1, LenProperties DEF MetricsOK
<1>3. g \in Seq(Metric) /\ Len(g) = Len(q)
  <2> PICK n : n = Len(q)
    OBVIOUS
  <2>1. n \in Nat /\ g = [i \in 1..n |-> g[i]] /\ \A i \in 1..n : g[i] \in Metric
    BY <1>2
  <2>2. g \in [1..n -> Metric] /\ DOMAIN g = 1..n
    BY <2>1
  <2>3. g \in Seq(Metric)
    BY <2>1, <2>2, SeqDef
  <2>4. Len(g) = n
    BY <2>1, <2>2, <2>3, LenProperties
  <2> QED
    BY <2>3, <2>4
<1> PICK w : w = [m EXCEPT !.producers_metric = g]
  OBVIOUS
<1>4. MetricsOK(w) /\ w.producers_metric = g
  BY <1>1, <1>3 DEF MetricsOK, MetricsFields
<1>5. u = [t EXCEPT !.metrics = w] /\ u.metrics = w
  BY <1>1 DEF IsTables, TableFields
<1> QED
  BY <1>1, <1>3, <1>4, <1>5 DEF MetricsOnly

\* reset_schedule_metrics is one such step,
LEMMA ResetMarks ==
    ASSUME NEW t, TablesOK(t), NEW producer
    PROVE  MetricsOnly(t, reset_schedule_metrics(t, producer))
<1> PICK m : m = t.metrics
  OBVIOUS
<1> PICK q : q = m.producers_metric
  OBVIOUS
<1>1. m = [x \in MetricsFields |-> m[x]] /\ q \in Seq(Metric) /\ Len(q) \in Nat /\ IsTables(t)
  BY LenProperties DEF TablesOK, MetricsOK
<1> DEFINE row(i) == [q[i] EXCEPT !.missed =
                        IF producer # 0 /\ q[i].bp_name = producer
                        THEN MAX_BLOCK_PER_CYCLE - 1 ELSE MAX_BLOCK_PER_CYCLE]
           g == [i \in 1..Len(q) |-> row(i)]
<1>2. \A i \in 1..Len(q) : row(i) \in Metric
  <2> TAKE i \in 1..Len(q)
  <2> PICK x : x = q[i]
    OBVIOUS
  <2>1. x \in Metric
    BY <1>1, ElementOfSeq
  <2>2. MAX_BLOCK_PER_CYCLE - 1 \in 0..uint32_range - 1
        /\ MAX_BLOCK_PER_CYCLE \in 0..uint32_range - 1
    BY ProducersAssumption, SMTT(30)
  <2>3. \A v \in 0..uint32_range - 1 : [x EXCEPT !.missed = v] \in Metric
    BY <2>1 DEF Metric
  <2> QED
    BY <2>2, <2>3
<1>3. reset_schedule_metrics(t, producer) = [t EXCEPT !.metrics.producers_metric = g]
  BY <1>1 DEF reset_schedule_metrics, IsTables, TableFields, MetricsFields
<1>4. g = [i \in 1..Len(q) |-> g[i]] /\ \A i \in 1..Len(q) : g[i] \in Metric
  <2> HIDE DEF row
  <2> QED
    BY <1>2
<1> HIDE DEF g
<1> QED
  BY <1>3, <1>4, QueueRewritten

\* and so is the correction of what one producer owes.
LEMMA SetOwedMarks ==
    ASSUME NEW t, TablesOK(t), NEW producer, NEW missed \in 0..uint32_range - 1
    PROVE  MetricsOnly(t, SetOwed(t, producer, missed))
<1> PICK m : m = t.metrics
  OBVIOUS
<1> PICK q : q = m.producers_metric
  OBVIOUS
<1>1. m = [x \in MetricsFields |-> m[x]] /\ q \in Seq(Metric) /\ Len(q) \in Nat /\ IsTables(t)
  BY LenProperties DEF TablesOK, MetricsOK
<1> DEFINE row(i) == IF q[i].bp_name = producer THEN [q[i] EXCEPT !.missed = missed] ELSE q[i]
           g == [i \in 1..Len(q) |-> row(i)]
<1>2. \A i \in 1..Len(q) : row(i) \in Metric
  <2> TAKE i \in 1..Len(q)
  <2> PICK x : x = q[i]
    OBVIOUS
  <2>1. x \in Metric
    BY <1>1, ElementOfSeq
  <2>2. [x EXCEPT !.missed = missed] \in Metric
    BY <2>1 DEF Metric
  <2> QED
    BY <2>1, <2>2
<1>3. SetOwed(t, producer, missed) = [t EXCEPT !.metrics.producers_metric = g]
  BY <1>1 DEF SetOwed, IsTables, TableFields, MetricsFields
<1>4. g = [i \in 1..Len(q) |-> g[i]] /\ \A i \in 1..Len(q) : g[i] \in Metric
  <2> HIDE DEF row
  <2> QED
    BY <1>2
<1> HIDE DEF g
<1> QED
  BY <1>3, <1>4, QueueRewritten

\* What a producer owes is a 32 bit number.
LEMMA OwedRange ==
    ASSUME NEW t, TablesOK(t), NEW producer
    PROVE  Owed(t, producer) \in 0..uint32_range - 1
<1> PICK q : q = t.metrics.producers_metric
  OBVIOUS
<1> DEFINE mine == {i \in 1..Len(q) : q[i].bp_name = producer}
<1>1. q \in Seq(Metric) /\ Len(q) \in Nat
  BY LenProperties DEF TablesOK, MetricsOK
<1>2. Owed(t, producer) = IF mine = {} THEN 0 ELSE q[Min(mine)].missed
  BY DEF Owed
<1>3. CASE mine = {}
  BY <1>2, <1>3, ProducersAssumption
<1>4. CASE mine # {}
  <2>1. \E n \in mine : \A k \in mine : n <= k
    <3>1. mine \in SUBSET Nat
      BY <1>1
    <3> HIDE DEF mine
    <3> QED
      BY <1>4, <3>1, LeastNumber
  <2>2. Min(mine) \in mine
    BY <2>1 DEF Min
  <2>3. q[Min(mine)] \in Metric
    BY <1>1, <2>2, ElementOfSeq
  <2> QED
    BY <1>2, <1>4, <2>3 DEF Metric
<1> QED
  BY <1>3, <1>4

\* The caller and the correction, which no other table depends on.
LEMMA CallerMarks ==
    ASSUME NEW t, TablesOK(t), NEW who, NEW c \in Int
    PROVE  /\ MetricsOnly(t, Seen(t, who))
           /\ MetricsOnly(t, [t EXCEPT !.metrics.block_counter_correction = c])
           /\ MetricsOnly(t, [Seen(t, who) EXCEPT !.metrics.block_counter_correction = c])
<1> PICK m : m = t.metrics
  OBVIOUS
<1>1. MetricsOK(m) /\ IsTables(t)
  BY DEF TablesOK
<1>2. /\ MetricsOK([m EXCEPT !.last_onblock_caller = who])
      /\ MetricsOK([m EXCEPT !.block_counter_correction = c])
      /\ MetricsOK([m EXCEPT !.last_onblock_caller = who, !.block_counter_correction = c])
  BY <1>1 DEF MetricsOK, MetricsFields
<1>3. /\ [m EXCEPT !.last_onblock_caller = who].producers_metric = m.producers_metric
      /\ [m EXCEPT !.block_counter_correction = c].producers_metric = m.producers_metric
      /\ [m EXCEPT !.last_onblock_caller = who,
                   !.block_counter_correction = c].producers_metric = m.producers_metric
  BY <1>1 DEF MetricsOK, MetricsFields
<1>4. ASSUME NEW w, MetricsOK(w), w.producers_metric = m.producers_metric
      PROVE  MetricsOnly(t, [t EXCEPT !.metrics = w])
  BY <1>1, <1>4 DEF MetricsOnly, IsTables, TableFields
<1>5. /\ Seen(t, who) = [t EXCEPT !.metrics = [m EXCEPT !.last_onblock_caller = who]]
      /\ [t EXCEPT !.metrics.block_counter_correction = c]
           = [t EXCEPT !.metrics = [m EXCEPT !.block_counter_correction = c]]
      /\ [Seen(t, who) EXCEPT !.metrics.block_counter_correction = c]
           = [t EXCEPT !.metrics = [m EXCEPT !.last_onblock_caller = who,
                                             !.block_counter_correction = c]]
  BY <1>1 DEF Seen, IsTables, TableFields, MetricsOK, MetricsFields
<1> QED
  BY <1>2, <1>3, <1>4, <1>5

\* Only the caller.
LEMMA SeenMarks ==
    ASSUME NEW t, TablesOK(t), NEW who
    PROVE  MetricsOnly(t, Seen(t, who))
<1>1. 0 \in Int
  OBVIOUS
<1> QED
  BY <1>1, CallerMarks

\* Correcting the count of blocks writes schedulemetr,
LEMMA CorrectedMarks ==
    ASSUME NEW t, TablesOK(t), NEW producer
    PROVE  MetricsOnly(t, Corrected(t, producer))
<1> DEFINE owed == (Owed(t, producer) - t.metrics.block_counter_correction) % uint32_range
           again == reset_schedule_metrics(t, 0)
           restarted == [again EXCEPT !.metrics.block_counter_correction = -3]
           written == SetOwed(t, producer, owed)
           fixed == IF t.metrics.last_onblock_caller # eosio THEN restarted ELSE written
<1>1. t.metrics.block_counter_correction \in Int /\ IsTables(t)
  BY DEF TablesOK, MetricsOK
<1>2. owed \in 0..uint32_range - 1
  <2> PICK a, b : a = Owed(t, producer) /\ b = t.metrics.block_counter_correction
    OBVIOUS
  <2>1. a \in Int /\ b \in Int /\ uint32_range \in Nat \ {0}
    BY <1>1, OwedRange, ProducersAssumption
  <2>2. (a - b) % uint32_range \in 0..uint32_range - 1
    BY <2>1
  <2> QED
    BY <2>2
<1> HIDE DEF owed
<1>3. MetricsOnly(t, again) /\ TablesOK(again)
  BY ResetMarks, MetricsOnlyOK
<1>4. MetricsOnly(t, restarted)
  <2> HIDE DEF again
  <2>1. MetricsOnly(again, restarted)
    <3>1. -3 \in Int
      OBVIOUS
    <3> QED
      BY <1>3, <3>1, CallerMarks
  <2> HIDE DEF restarted
  <2> QED
    BY <1>1, <1>3, <2>1, MetricsOnlyTwice
<1>5. MetricsOnly(t, written)
  BY <1>2, SetOwedMarks
<1> HIDE DEF again, restarted, written
<1>6. MetricsOnly(t, fixed) /\ TablesOK(fixed)
  BY <1>4, <1>5, MetricsOnlyOK
<1>7. Corrected(t, producer) = Seen(fixed, producer)
  BY DEF Corrected, owed, again, restarted, written
<1> HIDE DEF fixed
<1>8. MetricsOnly(fixed, Seen(fixed, producer))
  BY <1>6, SeenMarks
<1> QED
  BY <1>1, <1>6, <1>7, <1>8, MetricsOnlyTwice

\* as do waiting for a turn
LEMMA TurnMarks ==
    ASSUME NEW t, TablesOK(t), NEW producer
    PROVE  MetricsOnly(t, CountedTurn(t, producer))
<1> DEFINE c == t.metrics.block_counter_correction + 1
           one == [t EXCEPT !.metrics.block_counter_correction = c]
<1>1. t.metrics.block_counter_correction \in Int /\ IsTables(t)
  BY DEF TablesOK, MetricsOK
<1>2. c \in Int
  BY <1>1
<1> HIDE DEF c
<1>3. MetricsOnly(t, one)
  BY <1>2, CallerMarks
<1>4. CountedTurn(t, producer)
        = IF t.metrics.last_onblock_caller = producer THEN t ELSE Seen(one, producer)
  BY <1>1 DEF CountedTurn, c, IsTables, TableFields, TablesOK, MetricsOK, MetricsFields
<1> HIDE DEF one
<1>5. MetricsOnly(one, Seen(one, producer))
  BY <1>3, MetricsOnlyOK, SeenMarks
<1>6. MetricsOnly(t, Seen(one, producer))
  BY <1>1, <1>3, <1>5, MetricsOnlyTwice
<1> QED
  BY <1>4, <1>6, MetricsOnlySelf

\* and counting a block.
LEMMA BlockMarks ==
    ASSUME NEW t, TablesOK(t), NEW producer
    PROVE  /\ MetricsOnly(t, update_producer_missed_blocks(t, producer))
           /\ MetricsOnly(t, Seen(update_producer_missed_blocks(t, producer), producer))
<1> PICK owed : owed = Owed(t, producer)
  OBVIOUS
<1> PICK u : u = update_producer_missed_blocks(t, producer)
  OBVIOUS
<1>1. owed \in 0..uint32_range - 1
  BY OwedRange
<1>2. owed > 0 => owed - 1 \in 0..uint32_range - 1
  BY <1>1, ProducersAssumption
<1>3. u = IF owed > 0 THEN SetOwed(t, producer, owed - 1) ELSE t
  BY DEF update_producer_missed_blocks
<1>4. MetricsOnly(t, u)
  BY <1>2, <1>3, SetOwedMarks, MetricsOnlySelf
<1>5. MetricsOnly(u, Seen(u, producer))
  BY <1>4, MetricsOnlyOK, SeenMarks
<1>6. MetricsOnly(t, Seen(u, producer))
  BY <1>4, <1>5, MetricsOnlyTwice DEF TablesOK
<1> QED
  BY <1>4, <1>6

\* A block of a producer either writes schedulemetr, or brings an election.
CountsOrElects(t, timestamp, result) ==
    /\ result.over \in BOOLEAN
    /\ \/ MetricsOnly(t, result.t)
       \/ /\ ~result.over
          /\ \E v : MetricsOnly(t, v) /\ result.t = update_elected_producers(v, timestamp)

\* Counted is such a step.
LEMMA CountedResult ==
    ASSUME NEW t, TablesOK(t), NEW timestamp, NEW producer
    PROVE  CountsOrElects(t, timestamp, Counted(t, timestamp, producer))
<1> PICK r : r = Counted(t, timestamp, producer)
  OBVIOUS
<1> PICK reg, act, late :
      /\ reg = (Registered(t, producer) /\ ~Active(t, producer))
      /\ act = (Registered(t, producer) => Active(t, producer))
      /\ late = (/\ t.metrics.last_onblock_caller # producer
                 /\ Owed(t, producer) # MAX_BLOCK_PER_CYCLE
                 /\ \E i \in 1..Len(t.metrics.producers_metric) :
                      t.metrics.producers_metric[i].bp_name = producer)
  OBVIOUS
<1> PICK again, seen, counted :
      /\ again = reset_schedule_metrics(t, 0)
      /\ seen = Seen(t, producer)
      /\ counted = Seen(update_producer_missed_blocks(t, producer), producer)
  OBVIOUS
<1>1. MetricsOnly(t, again) /\ MetricsOnly(t, seen) /\ MetricsOnly(t, counted)
  BY SeenMarks, ResetMarks, BlockMarks
<1>2. r = CASE reg -> [t |-> update_elected_producers(again, timestamp), over |-> FALSE]
            [] act -> IF late THEN [t |-> seen, over |-> TRUE] ELSE [t |-> counted, over |-> FALSE]
  BY DEF Counted
<1>3. reg \in BOOLEAN /\ act = ~reg /\ late \in BOOLEAN
  OBVIOUS
<1>4. CASE reg
  <2>1. r = [t |-> update_elected_producers(again, timestamp), over |-> FALSE]
    BY <1>2, <1>4
  <2> QED
    BY <1>1, <2>1 DEF CountsOrElects
<1>5. CASE ~reg
  <2>1. r = IF late THEN [t |-> seen, over |-> TRUE] ELSE [t |-> counted, over |-> FALSE]
    BY <1>2, <1>3, <1>5
  <2> QED
    BY <1>1, <1>3, <2>1 DEF CountsOrElects
<1> QED
  BY <1>3, <1>4, <1>5

\* So does the whole of check_missed_blocks.
LEMMA CheckedResult ==
    ASSUME NEW t, TablesOK(t), NEW timestamp, NEW producer
    PROVE  CountsOrElects(t, timestamp, check_missed_blocks(t, timestamp, producer))
<1> DEFINE m == t.metrics
           uncounted == IF producer = eosio \/ m.last_onblock_caller = producer
                        THEN m.block_counter_correction + 1 ELSE 1
           waiting == [Seen(t, producer) EXCEPT !.metrics.block_counter_correction = uncounted]
           corrected == IF m.block_counter_correction > 0 THEN Corrected(t, producer) ELSE t
           turn == IF corrected.metrics.block_counter_correction < 0
                   THEN CountedTurn(corrected, producer) ELSE corrected
           off == producer = eosio \/ ~ScheduleActivated(t)
           result == check_missed_blocks(t, timestamp, producer)
<1>1. m.block_counter_correction \in Int /\ IsTables(t)
  BY DEF TablesOK, MetricsOK
<1>2. MetricsOnly(t, waiting)
  <2>1. uncounted \in Int
    BY <1>1
  <2> HIDE DEF uncounted
  <2> QED
    BY <2>1, CallerMarks
<1>3. MetricsOnly(t, corrected) /\ TablesOK(corrected)
  BY CorrectedMarks, MetricsOnlySelf, MetricsOnlyOK
<1>4. MetricsOnly(t, turn) /\ TablesOK(turn)
  <2> HIDE DEF corrected
  <2>1. MetricsOnly(corrected, turn)
    BY <1>3, TurnMarks, MetricsOnlySelf
  <2> HIDE DEF turn
  <2> QED
    BY <1>1, <1>3, <2>1, MetricsOnlyTwice, MetricsOnlyOK
<1>5. CountsOrElects(t, timestamp, Counted(turn, timestamp, producer))
  <2> HIDE DEF turn
  <2> PICK r : r = Counted(turn, timestamp, producer)
    OBVIOUS
  <2>1. CountsOrElects(turn, timestamp, r)
    BY <1>4, CountedResult
  <2>2. ASSUME NEW v, MetricsOnly(turn, v) PROVE MetricsOnly(t, v)
    BY <1>1, <1>4, <2>2, MetricsOnlyTwice
  <2> QED
    BY <2>1, <2>2 DEF CountsOrElects
<1>6. off \in BOOLEAN /\ (producer # eosio /\ ScheduleActivated(t)) = ~off
  OBVIOUS
<1>7. result = CASE off -> [t |-> waiting, over |-> FALSE]
                 [] producer # eosio /\ ScheduleActivated(t) ->
                      IF turn.metrics.block_counter_correction < 0
                      THEN [t |-> turn, over |-> FALSE]
                      ELSE Counted(turn, timestamp, producer)
  BY DEF check_missed_blocks
<1> HIDE DEF m, waiting, corrected, turn, off, result
<1>8. \/ result = [t |-> waiting, over |-> FALSE]
      \/ result = [t |-> turn, over |-> FALSE]
      \/ result = Counted(turn, timestamp, producer)
  BY <1>6, <1>7
<1>9. CASE result = [t |-> waiting, over |-> FALSE]
  BY <1>2, <1>9 DEF CountsOrElects, result
<1>10. CASE result = [t |-> turn, over |-> FALSE]
  BY <1>4, <1>10 DEF CountsOrElects, result
<1>11. CASE result = Counted(turn, timestamp, producer)
  BY <1>5, <1>11 DEF result
<1> QED
  BY <1>8, <1>9, <1>10, <1>11

-----------------------------------------------------------------------------
(* What only writes the producers table, and no unpaid blocks              *)

SameUnpaid(rows, next) == \A p \in Names : next[p].unpaid_blocks = rows[p].unpaid_blocks

ProdsOnly(t, u) ==
    /\ u = [t EXCEPT !.prods = u.prods]
    /\ ProdsOK(u.prods) /\ SameUnpaid(t.prods, u.prods)

\* The blocks to be paid are the same.
LEMMA SameUnpaidSum ==
    ASSUME NEW rows, ProdsOK(rows), NEW next, ProdsOK(next), SameUnpaid(rows, next)
    PROVE  Unpaid(next) = Unpaid(rows)
BY DEF ProdsOK, SameUnpaid, Unpaid

\* The tables stay sound,
LEMMA ProdsOnlyOK ==
    ASSUME NEW t, TablesOK(t), NEW u, ProdsOnly(t, u)
    PROVE  TablesOK(u)
<1> PICK rows : rows = u.prods
  OBVIOUS
<1>1. u = [t EXCEPT !.prods = rows] /\ ProdsOK(rows) /\ SameUnpaid(t.prods, rows)
  BY DEF ProdsOnly
<1>2. IsTables(u) /\ u.now = t.now /\ u.prods = rows /\ u.rotation = t.rotation
      /\ u.metrics = t.metrics /\ u.elected = t.elected /\ u.active = t.active
      /\ u.pending = t.pending /\ u.proposed = t.proposed /\ u.pay = t.pay
      /\ u.payments = t.payments /\ u.ledger = t.ledger
  BY <1>1 DEF TablesOK, IsTables, TableFields
<1>3. Unpaid(rows) = Unpaid(t.prods)
  BY <1>1, SameUnpaidSum DEF TablesOK
<1>4. BlocksOK(rows, t.pay)
  BY <1>3 DEF TablesOK, BlocksOK
<1> QED
  BY <1>1, <1>2, <1>4 DEF TablesOK

\* also after another such step.
LEMMA ProdsOnlyTwice ==
    ASSUME NEW t, IsTables(t), NEW u, NEW v, ProdsOnly(t, u), ProdsOnly(u, v)
    PROVE  ProdsOnly(t, v)
<1>1. SameUnpaid(t.prods, v.prods)
  BY DEF ProdsOnly, SameUnpaid
<1>2. v = [t EXCEPT !.prods = v.prods]
  BY DEF ProdsOnly, IsTables, TableFields
<1> QED
  BY <1>1, <1>2 DEF ProdsOnly

\* Nothing is written at all.
LEMMA ProdsOnlySelf ==
    ASSUME NEW t, TablesOK(t)
    PROVE  ProdsOnly(t, t)
BY DEF ProdsOnly, SameUnpaid, TablesOK, IsTables, TableFields

\* One row that is written.
Rewritten(t, p, row) == [t EXCEPT !.prods[p] = row]

\* The tables stay sound, and what is to be paid the same.
LEMMA RowWritten ==
    ASSUME NEW t, TablesOK(t), NEW p \in Names, NEW row, IsProducer(row),
           row.unpaid_blocks = t.prods[p].unpaid_blocks
    PROVE  /\ ProdsOnly(t, Rewritten(t, p, row))
           /\ Rewritten(t, p, row).prods = [t.prods EXCEPT ![p] = row]
<1> PICK rows, next : rows = t.prods /\ next = [rows EXCEPT ![p] = row]
  OBVIOUS
<1>1. IsTables(t) /\ ProdsOK(rows)
  BY DEF TablesOK
<1>2. ProdsOK(next) /\ SameUnpaid(rows, next)
  BY <1>1 DEF ProdsOK, SameUnpaid
<1>3. Rewritten(t, p, row) = [t EXCEPT !.prods = next] /\ [t EXCEPT !.prods = next].prods = next
  BY <1>1 DEF IsTables, TableFields, Rewritten
<1> QED
  BY <1>2, <1>3 DEF ProdsOnly

\* Who is out cannot sign.
LEMMA DeactivateOK ==
    ASSUME NEW t, TablesOK(t), NEW p \in Names
    PROVE  /\ ProdsOnly(t, deactivate(t, p))
           /\ deactivate(t, p).prods[p] = [t.prods[p] EXCEPT !.is_active = FALSE, !.key = 0]
           /\ \A q \in Names \ {p} : deactivate(t, p).prods[q] = t.prods[q]
<1>0. PICK r : r = t.prods[p]
  OBVIOUS
<1>1. PICK row : row = [r EXCEPT !.is_active = FALSE, !.key = 0]
  OBVIOUS
<1>2. IsTables(t) /\ ProdsOK(t.prods) /\ IsProducer(r)
  BY <1>0 DEF TablesOK, ProdsOK
<1>3. IsProducer(row) /\ row.unpaid_blocks = r.unpaid_blocks
  BY <1>1, <1>2 DEF IsProducer, ProducerFields
<1>4. deactivate(t, p) = Rewritten(t, p, row)
  BY <1>0, <1>1, <1>2 DEF deactivate, IsTables, TableFields, ProdsOK, Rewritten
<1>5. row.unpaid_blocks = t.prods[p].unpaid_blocks /\ IsProducer(row)
  BY <1>0, <1>3
<1>6. ProdsOnly(t, Rewritten(t, p, row))
  BY <1>5, RowWritten
<1>7. Rewritten(t, p, row).prods = [t.prods EXCEPT ![p] = row]
  BY <1>5, RowWritten
<1> QED
  BY <1>0, <1>1, <1>2, <1>4, <1>6, <1>7 DEF ProdsOK

\* A kick keeps what is to be paid.
LEMMA KickOK ==
    ASSUME NEW t, TablesOK(t), NEW p \in Names, NEW penalty
    PROVE  ProdsOnly(t, kick(t, p, penalty))
<1> DEFINE d == deactivate(t, p)
           n == t.prods[p].missed_blocks_per_rotation
           r == d.prods[p]
           row == [r EXCEPT !.times_kicked = @ + 1,
                            !.last_time_kicked = t.now,
                            !.kick_penalty_hours = penalty,
                            !.lifetime_missed_blocks = @ + n,
                            !.missed_blocks_per_rotation = 0]
<1>1. kick(t, p, penalty) = Rewritten(d, p, row)
  BY DEF kick, Rewritten
<1>2. IsTables(t) /\ ProdsOK(t.prods) /\ IsProducer(t.prods[p])
  BY DEF TablesOK, ProdsOK
<1>3. ProdsOnly(t, d) /\ TablesOK(d)
  BY DeactivateOK, ProdsOnlyOK
<1> HIDE DEF d
<1>4. IsProducer(r)
  BY <1>3 DEF TablesOK, ProdsOK
<1>5. n \in Nat
  BY <1>2 DEF IsProducer
<1> HIDE DEF n, r
<1>6. /\ row = [x \in ProducerFields |-> row[x]]
      /\ row.total_votes = r.total_votes /\ row.is_active = r.is_active /\ row.key = r.key
      /\ row.unpaid_blocks = r.unpaid_blocks /\ row.missed_blocks_per_rotation = 0
      /\ row.lifetime_missed_blocks = r.lifetime_missed_blocks + n
      /\ row.times_kicked = r.times_kicked + 1
  <2>1. r = [x \in ProducerFields |-> r[x]]
    BY <1>4 DEF IsProducer
  <2> QED
    BY <2>1 DEF ProducerFields
<1> HIDE DEF row
<1>7. row.lifetime_missed_blocks \in Nat /\ row.times_kicked \in Nat
  BY <1>4, <1>5, <1>6 DEF IsProducer
<1>8. IsProducer(row)
  BY <1>4, <1>6, <1>7 DEF IsProducer
<1>9. row.unpaid_blocks = d.prods[p].unpaid_blocks
  BY <1>6 DEF r
<1>10. ProdsOnly(d, Rewritten(d, p, row))
  BY <1>3, <1>8, <1>9, RowWritten
<1> QED
  BY <1>1, <1>2, <1>3, <1>10, ProdsOnlyTwice

\* One producer is kicked for n missed blocks.
KickedFor(u, p, n) ==
    kick([u EXCEPT !.prods[p].lifetime_missed_blocks = @ + n],
         p, 2 ^ (u.prods[p].times_kicked + 1))

\* It keeps what is to be paid.
LEMMA KickedForOK ==
    ASSUME NEW u, TablesOK(u), NEW p \in Names, NEW n \in Nat
    PROVE  ProdsOnly(u, KickedFor(u, p, n))
<1> DEFINE r == u.prods[p]
           row == [r EXCEPT !.lifetime_missed_blocks = @ + n]
           v == [u EXCEPT !.prods[p].lifetime_missed_blocks = @ + n]
           penalty == 2 ^ (u.prods[p].times_kicked + 1)
<1>1. IsTables(u) /\ ProdsOK(u.prods) /\ IsProducer(r)
  BY DEF TablesOK, ProdsOK
<1>2. v = Rewritten(u, p, row)
  BY <1>1 DEF Rewritten, IsTables, TableFields, ProdsOK
<1>3. /\ row = [x \in ProducerFields |-> row[x]]
      /\ row.total_votes = r.total_votes /\ row.is_active = r.is_active /\ row.key = r.key
      /\ row.unpaid_blocks = r.unpaid_blocks
      /\ row.missed_blocks_per_rotation = r.missed_blocks_per_rotation
      /\ row.lifetime_missed_blocks = r.lifetime_missed_blocks + n
      /\ row.times_kicked = r.times_kicked
  <2>1. r = [x \in ProducerFields |-> r[x]]
    BY <1>1 DEF IsProducer
  <2> HIDE DEF r
  <2> QED
    BY <2>1 DEF ProducerFields
<1> HIDE DEF row, r, v
<1>4. IsProducer(row)
  <2>1. row.lifetime_missed_blocks \in Nat
    BY <1>1, <1>3 DEF IsProducer
  <2> QED
    BY <1>1, <1>3, <2>1 DEF IsProducer
<1>5. row.unpaid_blocks = u.prods[p].unpaid_blocks
  BY <1>3 DEF r
<1>6. ProdsOnly(u, v) /\ TablesOK(v)
  BY <1>2, <1>4, <1>5, RowWritten, ProdsOnlyOK
<1>7. KickedFor(u, p, n) = kick(v, p, penalty)
  BY DEF KickedFor, v
<1> HIDE DEF penalty
<1>8. ProdsOnly(v, kick(v, p, penalty))
  BY <1>6, KickOK
<1> QED
  BY <1>1, <1>6, <1>7, <1>8, ProdsOnlyTwice

\* The loop over the producers that are kicked, as a function of the round.
KickStep(start, s, g, i) ==
    IF i = 0 THEN start
    ELSE KickedFor(g[i - 1], s[i], start.prods[s[i]].missed_blocks_per_rotation)
AreKicks(start, s, g, n) == g = [i \in 0..n |-> KickStep(start, s, g, i)]
Kicks(start, s, n) == CHOOSE g : g = [i \in 0..n |-> KickStep(start, s, g, i)]

\* There is such a function: for n + 1 rounds it adds one to that for n.
LEMMA KicksExist ==
    ASSUME NEW start, NEW s, NEW n \in Nat
    PROVE  AreKicks(start, s, Kicks(start, s, n), n)
<1> DEFINE Ok(k) == \E g : AreKicks(start, s, g, k)
           Bad == {k \in Nat : ~Ok(k)}
<1>1. Ok(0)
  <2> DEFINE g == [i \in 0..0 |-> start]
  <2>1. g = [i \in 0..0 |-> KickStep(start, s, g, i)]
    BY DEF KickStep
  <2> QED
    BY <2>1 DEF AreKicks
<1>2. ASSUME NEW k \in Nat, Ok(k) PROVE Ok(k + 1)
  <2>1. PICK g : g = [i \in 0..k |-> KickStep(start, s, g, i)]
    BY <1>2 DEF AreKicks
  <2> DEFINE h == [i \in 0..(k + 1) |-> KickStep(start, s, g, i)]
  <2>2. \A i \in 0..k : h[i] = g[i]
    BY <2>1
  <2>3. \A i \in 0..(k + 1) : KickStep(start, s, g, i) = KickStep(start, s, h, i)
    <3> SUFFICES ASSUME NEW i \in 0..(k + 1)
                 PROVE  KickStep(start, s, g, i) = KickStep(start, s, h, i)
      OBVIOUS
    <3>1. i # 0 => i - 1 \in 0..k
      OBVIOUS
    <3>2. i # 0 => h[i - 1] = g[i - 1]
      BY <2>2, <3>1
    <3> HIDE DEF h
    <3> QED
      BY <3>2 DEF KickStep
  <2>4. h = [i \in 0..(k + 1) |-> KickStep(start, s, h, i)]
    BY <2>3
  <2> HIDE DEF h
  <2> QED
    BY <2>4 DEF AreKicks
<1>3. Bad = {}
  <2> SUFFICES ASSUME Bad # {} PROVE FALSE
    OBVIOUS
  <2>1. PICK k \in Bad : \A j \in Bad : k <= j
    BY LeastNumber
  <2>2. k \in Nat /\ k # 0 /\ ~Ok(k)
    BY <1>1, <2>1
  <2>3. k - 1 \in Nat /\ k - 1 \notin Bad /\ (k - 1) + 1 = k
    BY <2>1, <2>2
  <2>4. Ok(k - 1)
    BY <2>3
  <2> HIDE DEF Ok
  <2> QED
    BY <1>2, <2>2, <2>3, <2>4
<1>4. \E g : g = [i \in 0..n |-> KickStep(start, s, g, i)]
  BY <1>3 DEF AreKicks
<1> QED
  BY <1>4, Zenon DEF AreKicks, Kicks

\* Every round keeps the tables sound.
LEMMA KicksOK ==
    ASSUME NEW start, TablesOK(start), NEW n \in Nat, NEW s, \A i \in 1..n : s[i] \in Names
    PROVE  ProdsOnly(start, Kicks(start, s, n)[n])
<1> PICK g : g = Kicks(start, s, n)
  OBVIOUS
<1> DEFINE Bad == {i \in 0..n : ~ProdsOnly(start, g[i])}
<1>1. \A i \in 0..n : g[i] = KickStep(start, s, g, i)
  <2>1. AreKicks(start, s, g, n)
    BY KicksExist
  <2> QED
    BY <2>1 DEF AreKicks
<1>2. 0 \notin Bad
  <2>1. g[0] = start
    BY <1>1 DEF KickStep
  <2> QED
    BY <2>1, ProdsOnlySelf
<1>3. ASSUME NEW i \in 1..n, ProdsOnly(start, g[i - 1]) PROVE ProdsOnly(start, g[i])
  <2> PICK m : m = start.prods[s[i]].missed_blocks_per_rotation
    OBVIOUS
  <2>1. g[i] = KickedFor(g[i - 1], s[i], m)
    BY <1>1 DEF KickStep
  <2>2. m \in Nat /\ IsTables(start)
    BY DEF TablesOK, ProdsOK, IsProducer
  <2>3. TablesOK(g[i - 1])
    BY <1>3, ProdsOnlyOK
  <2>4. ProdsOnly(g[i - 1], g[i])
    BY <2>1, <2>2, <2>3, KickedForOK
  <2> QED
    BY <1>3, <2>2, <2>4, ProdsOnlyTwice
<1>4. Bad = {}
  <2> SUFFICES ASSUME Bad # {} PROVE FALSE
    OBVIOUS
  <2>1. PICK k \in Bad : \A j \in Bad : k <= j
    <3>1. Bad \in SUBSET Nat
      OBVIOUS
    <3> HIDE DEF Bad
    <3> QED
      BY <3>1, LeastNumber
  <2>2. k \in 1..n /\ k - 1 \in 0..n
    BY <1>2, <2>1
  <2>3. k - 1 \notin Bad
    BY <2>1, <2>2
  <2>4. ProdsOnly(start, g[k - 1]) /\ ~ProdsOnly(start, g[k])
    BY <2>1, <2>2, <2>3
  <2> QED
    BY <1>3, <2>2, <2>4
<1>5. n \in 0..n
  OBVIOUS
<1> QED
  BY <1>4, <1>5

\* The whole part of a quotient.
LEMMA WholePart ==
    ASSUME NEW a \in Nat, NEW b \in Nat \ {0}
    PROVE  a \div b \in Nat /\ b * (a \div b) <= a
BY SMT

\* Ranked is a sequence, whatever the order.
LEMMA RankedPlaces ==
    ASSUME NEW S, NEW R
    PROVE  DOMAIN Ranked(S, R) = 1..Cardinality(S)
           /\ Ranked(S, R) = [i \in 1..Cardinality(S) |-> Ranked(S, R)[i]]
<1> DEFINE At(i) == CHOOSE x \in S : Cardinality({y \in S : <<y, x>> \in R}) = i - 1
<1>1. Ranked(S, R) = [i \in 1..Cardinality(S) |-> At(i)]
  BY Zenon DEF Ranked
<1> HIDE DEF At
<1> QED
  BY <1>1

\* The end of a cycle: what is owed is charged, and those who have missed too
\* much are kicked.
LEMMA RotationChargedOK ==
    ASSUME NEW t, TablesOK(t)
    PROVE  ProdsOnly(t, update_missed_blocks_per_rotation(t))
<1> DEFINE size == Len(t.metrics.producers_metric)
           counted == {p \in {t.metrics.producers_metric[i].bp_name : i \in 1..size} : Active(t, p)}
           more(p) == [t.prods[p] EXCEPT !.missed_blocks_per_rotation = @ + Owed(t, p)]
           rows == [p \in DOMAIN t.prods |-> IF p \in counted THEN more(p) ELSE t.prods[p]]
           charged == [t EXCEPT !.prods = rows]
           Missed(p) == charged.prods[p].missed_blocks_per_rotation
           VotesOf(p) == charged.prods[p].total_votes
           late == {p \in counted : Missed(p) > 0}
           worse(p, q) == \/ Missed(p) > Missed(q)
                          \/ Missed(p) = Missed(q) /\ VotesOf(p) < VotesOf(q)
                          \/ Missed(p) = Missed(q) /\ VotesOf(p) = VotesOf(q) /\ p < q
           worst == Ranked(late, {e \in late \X late : worse(e[1], e[2])})
           over == {p \in late : crossed_missed_blocks_threshold(t, Missed(p), size)}
           kicked == Leading(worst, over, size \div kick_share)
<1>1. IsTables(t) /\ ProdsOK(t.prods) /\ DOMAIN t.prods = Names /\ size \in Nat
  BY LenProperties DEF TablesOK, ProdsOK, MetricsOK
<1>2. update_missed_blocks_per_rotation(t) = Kicks(charged, kicked, Len(kicked))[Len(kicked)]
  BY Zenon DEF update_missed_blocks_per_rotation, Kicks, KickStep, KickedFor
<1>3. ProdsOK(rows) /\ SameUnpaid(t.prods, rows) /\ rows = [p \in Names |-> rows[p]]
  <2>1. ASSUME NEW p \in Names
        PROVE  IsProducer(more(p)) /\ more(p).unpaid_blocks = t.prods[p].unpaid_blocks
    <3> PICK r, n : r = t.prods[p] /\ n = Owed(t, p)
      OBVIOUS
    <3>1. IsProducer(r) /\ n \in Nat
      BY <1>1, OwedRange DEF ProdsOK
    <3>2. r = [x \in ProducerFields |-> r[x]]
      BY <3>1 DEF IsProducer
    <3> PICK row : row = [r EXCEPT !.missed_blocks_per_rotation = @ + n]
      OBVIOUS
    <3>3. /\ row = [x \in ProducerFields |-> row[x]]
          /\ row.total_votes = r.total_votes /\ row.is_active = r.is_active /\ row.key = r.key
          /\ row.unpaid_blocks = r.unpaid_blocks
          /\ row.missed_blocks_per_rotation = r.missed_blocks_per_rotation + n
          /\ row.lifetime_missed_blocks = r.lifetime_missed_blocks
          /\ row.times_kicked = r.times_kicked
      BY <3>2 DEF ProducerFields
    <3>4. row.missed_blocks_per_rotation \in Nat
      BY <3>1, <3>3 DEF IsProducer
    <3> QED
      BY <3>1, <3>3, <3>4 DEF IsProducer
  <2> HIDE DEF more
  <2>2. \A p \in Names : IsProducer(t.prods[p])
    BY <1>1 DEF ProdsOK
  <2> HIDE DEF counted
  <2> QED
    BY <1>1, <2>1, <2>2 DEF ProdsOK, SameUnpaid
<1> HIDE DEF rows
<1>4. charged.prods = rows
  BY <1>1 DEF IsTables, TableFields
<1>5. ProdsOnly(t, charged) /\ TablesOK(charged)
  <2>1. ProdsOnly(t, charged)
    BY <1>3, <1>4 DEF ProdsOnly
  <2> QED
    BY <2>1, ProdsOnlyOK
<1>6. counted \in SUBSET Names
  BY <1>1 DEF Active, Registered
<1> HIDE DEF charged, counted
<1>7. late \in SUBSET Names /\ IsFiniteSet(late) /\ over \in SUBSET Names
  BY <1>6, OnblockAssumption, FS_Subset
<1> HIDE DEF late, over
<1>8. \E X : worst \in Seq(X)
  <2> DEFINE n == Cardinality(late)
             X == {worst[i] : i \in 1..n}
  <2>1. n \in Nat
    BY <1>7, FS_CardinalityType
  <2>2. DOMAIN worst = 1..n /\ worst = [i \in 1..n |-> worst[i]]
    BY RankedPlaces
  <2> HIDE DEF worst, n
  <2>3. worst \in [1..n -> X]
    BY <2>2
  <2> HIDE DEF X
  <2>4. worst \in Seq(X)
    BY <2>1, <2>3, SeqDef
  <2> QED
    BY <2>4
<1> HIDE DEF worst
<1>9. size \div kick_share \in Nat
  <2>1. kick_share \in Nat \ {0}
    BY ProducersAssumption
  <2> HIDE DEF size
  <2> QED
    BY <1>1, <2>1, WholePart
<1>10. Leads(kicked, worst, over, size \div kick_share)
  <2> PICK max : max = size \div kick_share
    OBVIOUS
  <2> HIDE DEF size
  <2>1. Leads(Leading(worst, over, max), worst, over, max)
    BY <1>8, <1>9, LeadingLeads
  <2> QED
    BY <2>1
<1> HIDE DEF kicked, size
<1>11. Len(kicked) \in Nat /\ \A i \in 1..Len(kicked) : kicked[i] \in Names
  BY <1>7, <1>10 DEF Leads
<1>12. ProdsOnly(charged, update_missed_blocks_per_rotation(t))
  BY <1>2, <1>5, <1>11, KicksOK
<1> QED
  BY <1>1, <1>5, <1>12, ProdsOnlyTwice

-----------------------------------------------------------------------------
(* Rotation                                                                *)

\* The votes and who is active.
Standing(rows, next) ==
    \A p \in Names : /\ next[p].total_votes = rows[p].total_votes
                     /\ next[p].is_active = rows[p].is_active

\* What a rotation may write.
RotationOnly(t, u) ==
    /\ u = [t EXCEPT !.rotation = u.rotation, !.prods = u.prods]
    /\ RotationOK(u.rotation)
    /\ ProdsOK(u.prods) /\ SameUnpaid(t.prods, u.prods) /\ Standing(t.prods, u.prods)

\* The tables stay sound,
LEMMA RotationOnlyOK ==
    ASSUME NEW t, TablesOK(t), NEW u, RotationOnly(t, u)
    PROVE  TablesOK(u)
<1> PICK rows, r : rows = u.prods /\ r = u.rotation
  OBVIOUS
<1>1. u = [t EXCEPT !.rotation = r, !.prods = rows] /\ RotationOK(r) /\ ProdsOK(rows)
      /\ SameUnpaid(t.prods, rows)
  BY DEF RotationOnly
<1>2. IsTables(u) /\ u.now = t.now /\ u.prods = rows /\ u.rotation = r
      /\ u.metrics = t.metrics /\ u.elected = t.elected /\ u.active = t.active
      /\ u.pending = t.pending /\ u.proposed = t.proposed /\ u.pay = t.pay
      /\ u.payments = t.payments /\ u.ledger = t.ledger
  BY <1>1 DEF TablesOK, IsTables, TableFields
<1>3. BlocksOK(rows, t.pay)
  <2>1. Unpaid(rows) = Unpaid(t.prods)
    BY <1>1, SameUnpaidSum DEF TablesOK
  <2> QED
    BY <2>1 DEF TablesOK, BlocksOK
<1> QED
  BY <1>1, <1>2, <1>3 DEF TablesOK

\* also after another such step.
LEMMA RotationOnlyTwice ==
    ASSUME NEW t, IsTables(t), NEW u, NEW v, RotationOnly(t, u), RotationOnly(u, v)
    PROVE  RotationOnly(t, v)
<1>1. SameUnpaid(t.prods, v.prods) /\ Standing(t.prods, v.prods)
  BY DEF RotationOnly, SameUnpaid, Standing
<1>2. v = [t EXCEPT !.rotation = v.rotation, !.prods = v.prods]
  BY DEF RotationOnly, IsTables, TableFields
<1> QED
  BY <1>1, <1>2 DEF RotationOnly

\* The rotations row, whatever is written into it.
TurnedTo(t, r) == [t EXCEPT !.rotation = r]

\* The tables stay sound with any row that is sound.
LEMMA RotationWritten ==
    ASSUME NEW t, TablesOK(t), NEW r, RotationOK(r)
    PROVE  RotationOnly(t, TurnedTo(t, r)) /\ TurnedTo(t, r).rotation = r
<1>1. IsTables(t) /\ ProdsOK(t.prods)
  BY DEF TablesOK
<1>2. SameUnpaid(t.prods, t.prods) /\ Standing(t.prods, t.prods)
  BY DEF SameUnpaid, Standing
<1>3. TurnedTo(t, r).rotation = r /\ TurnedTo(t, r).prods = t.prods
  BY <1>1 DEF TurnedTo, IsTables, TableFields
<1>4. TurnedTo(t, r) = [t EXCEPT !.rotation = r, !.prods = t.prods]
  BY <1>1 DEF TurnedTo, IsTables, TableFields
<1> QED
  BY <1>1, <1>2, <1>3, <1>4 DEF RotationOnly

\* Who is out and who is in.
LEMMA SetRotationOK ==
    ASSUME NEW t, TablesOK(t), NEW out \in Names \cup {0}, NEW in \in Names \cup {0}
    PROVE  RotationOnly(t, set_bps_rotation(t, out, in))
<1> DEFINE r == [t.rotation EXCEPT !.bp_currently_out = out, !.sbp_currently_in = in]
<1>1. IsTables(t) /\ RotationOK(t.rotation)
  BY DEF TablesOK
<1>2. RotationOK(r)
  BY <1>1 DEF RotationOK, RotationFields
<1>3. set_bps_rotation(t, out, in) = TurnedTo(t, r)
  BY <1>1 DEF set_bps_rotation, TurnedTo, IsTables, TableFields, RotationOK
<1> QED
  BY <1>2, <1>3, RotationWritten

\* Where the next swap starts.
LEMMA IndicesOK ==
    ASSUME NEW t, TablesOK(t), NEW out \in 0..TOP_PRODUCERS,
           NEW in \in TOP_PRODUCERS..MAX_PRODUCERS + 1
    PROVE  RotationOnly(t, [t EXCEPT !.rotation.bp_out_index = out, !.rotation.sbp_in_index = in])
<1> DEFINE r == [t.rotation EXCEPT !.bp_out_index = out, !.sbp_in_index = in]
<1>1. IsTables(t) /\ RotationOK(t.rotation)
  BY DEF TablesOK
<1>2. RotationOK(r)
  BY <1>1 DEF RotationOK, RotationFields
<1>3. [t EXCEPT !.rotation.bp_out_index = out, !.rotation.sbp_in_index = in] = TurnedTo(t, r)
  BY <1>1 DEF TurnedTo, IsTables, TableFields, RotationOK
<1> QED
  BY <1>2, <1>3, RotationWritten

\* When it starts.
LEMMA TimesOK ==
    ASSUME NEW t, TablesOK(t), NEW a, NEW b
    PROVE  RotationOnly(t, [t EXCEPT !.rotation.last_rotation_time = a,
                                     !.rotation.next_rotation_time = b])
<1> DEFINE r == [t.rotation EXCEPT !.last_rotation_time = a, !.next_rotation_time = b]
<1>1. IsTables(t) /\ RotationOK(t.rotation)
  BY DEF TablesOK
<1>2. RotationOK(r)
  BY <1>1 DEF RotationOK, RotationFields
<1>3. [t EXCEPT !.rotation.last_rotation_time = a, !.rotation.next_rotation_time = b]
        = TurnedTo(t, r)
  BY <1>1 DEF TurnedTo, IsTables, TableFields, RotationOK
<1> QED
  BY <1>2, <1>3, RotationWritten

\* A producer of the schedule starts a rotation without missed blocks.
LEMMA RestartOK ==
    ASSUME NEW t, TablesOK(t), NEW s
    PROVE  RotationOnly(t, restart_missed_blocks_per_rotation(t, s))
<1> DEFINE Restarted(p, r) ==
             IF p \notin {s[i].name : i \in 1..Len(s)} THEN r
             ELSE [r EXCEPT !.times_kicked =
                              IF @ > 0 /\ r.missed_blocks_per_rotation = 0 THEN @ - 1 ELSE @,
                            !.lifetime_missed_blocks = @ + r.missed_blocks_per_rotation,
                            !.missed_blocks_per_rotation = 0]
           rows == [p \in DOMAIN t.prods |-> Restarted(p, t.prods[p])]
<1>1. IsTables(t) /\ RotationOK(t.rotation) /\ ProdsOK(t.prods) /\ DOMAIN t.prods = Names
  BY DEF TablesOK, ProdsOK
<1>2. restart_missed_blocks_per_rotation(t, s) = [t EXCEPT !.prods = rows]
  BY DEF restart_missed_blocks_per_rotation
<1>3. ASSUME NEW p \in Names
      PROVE  /\ IsProducer(Restarted(p, t.prods[p]))
             /\ Restarted(p, t.prods[p]).unpaid_blocks = t.prods[p].unpaid_blocks
             /\ Restarted(p, t.prods[p]).total_votes = t.prods[p].total_votes
             /\ Restarted(p, t.prods[p]).is_active = t.prods[p].is_active
  <2> PICK r : r = t.prods[p]
    OBVIOUS
  <2>0. PICK row : row = [r EXCEPT
              !.times_kicked = IF @ > 0 /\ r.missed_blocks_per_rotation = 0 THEN @ - 1 ELSE @,
              !.lifetime_missed_blocks = @ + r.missed_blocks_per_rotation,
              !.missed_blocks_per_rotation = 0]
    OBVIOUS
  <2>1. IsProducer(r) /\ r = [x \in ProducerFields |-> r[x]]
    BY <1>1 DEF ProdsOK, IsProducer
  <2>2. /\ row = [x \in ProducerFields |-> row[x]]
        /\ row.total_votes = r.total_votes /\ row.is_active = r.is_active /\ row.key = r.key
        /\ row.unpaid_blocks = r.unpaid_blocks
        /\ row.missed_blocks_per_rotation = 0
        /\ row.lifetime_missed_blocks = r.lifetime_missed_blocks + r.missed_blocks_per_rotation
        /\ row.times_kicked
             = IF r.times_kicked > 0 /\ r.missed_blocks_per_rotation = 0
               THEN r.times_kicked - 1 ELSE r.times_kicked
    BY <2>0, <2>1 DEF ProducerFields
  <2>3. row.lifetime_missed_blocks \in Nat /\ row.times_kicked \in Nat
    BY <2>1, <2>2 DEF IsProducer
  <2>4. IsProducer(row)
    BY <2>1, <2>2, <2>3 DEF IsProducer
  <2>5. Restarted(p, t.prods[p]) = r \/ Restarted(p, t.prods[p]) = row
    BY <2>0
  <2> HIDE DEF Restarted
  <2> QED
    BY <2>1, <2>2, <2>4, <2>5
<1> HIDE DEF Restarted
<1>4. ProdsOK(rows) /\ SameUnpaid(t.prods, rows) /\ Standing(t.prods, rows)
  BY <1>1, <1>3 DEF ProdsOK, SameUnpaid, Standing
<1> HIDE DEF rows
<1> PICK u : u = [t EXCEPT !.prods = rows]
  OBVIOUS
<1>5. u.prods = rows /\ u.rotation = t.rotation
      /\ u = [t EXCEPT !.rotation = t.rotation, !.prods = rows]
  BY <1>1 DEF IsTables, TableFields
<1> QED
  BY <1>1, <1>2, <1>4, <1>5 DEF RotationOnly

\* The schedules that the votes call for.
Candidate == [name : Names, key : Keys]

\* What becomes of the tables, and who changes places, if anyone does.
Swaps(t, s, result) ==
    /\ RotationOnly(t, result.t)
    /\ \/ result.swap = <<0, 0>>
       \/ \E o, i \in 1..Len(s) : result.swap = <<o, i>>

\* When the next swap is due.
LEMMA RotationDueOK ==
    ASSUME NEW t, TablesOK(t), NEW s \in Seq(Candidate), Len(s) <= MAX_PRODUCERS, NEW time
    PROVE  Swaps(t, s, RotationDue(t, s, time))
<1> DEFINE last == Len(s) - 1
           r == t.rotation
           out == IF r.bp_out_index >= TOP_PRODUCERS - 1 THEN 0 ELSE r.bp_out_index + 1
           in == IF r.sbp_in_index >= last THEN TOP_PRODUCERS ELSE r.sbp_in_index + 1
           moved == set_bps_rotation(t, s[out + 1].name, s[in + 1].name)
           swapped == [moved EXCEPT !.rotation.bp_out_index = out, !.rotation.sbp_in_index = in]
           many == Len(s) > TOP_PRODUCERS
           base == IF many THEN swapped ELSE t
           timed == [base EXCEPT !.rotation.last_rotation_time = time,
                                 !.rotation.next_rotation_time = time + rotation_interval]
           result == RotationDue(t, s, time)
<1>1. IsTables(t) /\ RotationOK(r) /\ Len(s) \in Nat
  BY LenProperties DEF TablesOK
<1>2. result = [t |-> restart_missed_blocks_per_rotation(timed, s),
                swap |-> IF many THEN <<out + 1, in + 1>> ELSE <<0, 0>>]
  BY DEF RotationDue
<1>3. TOP_PRODUCERS \in Nat \ {0} /\ MAX_PRODUCERS \in Nat /\ MAX_PRODUCERS > TOP_PRODUCERS
  BY ProducersAssumption
<1>4. r.bp_out_index \in 0..TOP_PRODUCERS /\ r.sbp_in_index \in TOP_PRODUCERS..MAX_PRODUCERS + 1
  BY <1>1 DEF RotationOK
<1> HIDE DEF r
<1>5. ASSUME many
      PROVE  /\ out \in 0..TOP_PRODUCERS /\ in \in TOP_PRODUCERS..MAX_PRODUCERS + 1
             /\ out + 1 \in 1..Len(s) /\ in + 1 \in 1..Len(s)
  <2>1. PICK b, j, p, m, l : /\ b = r.bp_out_index /\ j = r.sbp_in_index
                             /\ p = TOP_PRODUCERS /\ m = MAX_PRODUCERS /\ l = Len(s)
    OBVIOUS
  <2>2. /\ b \in 0..p /\ j \in p..m + 1 /\ p \in Nat \ {0} /\ m \in Nat /\ p < m
        /\ l \in Nat /\ p < l /\ l <= m
    BY <1>1, <1>3, <1>4, <1>5, <2>1
  <2>3. /\ out = IF b >= p - 1 THEN 0 ELSE b + 1
        /\ in = IF j >= l - 1 THEN p ELSE j + 1
    BY <2>1
  <2> HIDE DEF out, in, last
  <2>4. out \in 0..p /\ out + 1 \in 1..l
    <3>1. CASE b >= p - 1
      <4>1. out = 0
        BY <2>3, <3>1
      <4> QED
        BY <2>2, <4>1
    <3>2. CASE ~(b >= p - 1)
      <4>1. out = b + 1
        BY <2>3, <3>2
      <4> QED
        BY <2>2, <3>2, <4>1
    <3> QED
      BY <3>1, <3>2
  <2>5. in \in p..m + 1 /\ in + 1 \in 1..l
    <3>1. CASE j >= l - 1
      <4>1. in = p
        BY <2>3, <3>1
      <4> QED
        BY <2>2, <4>1
    <3>2. CASE ~(j >= l - 1)
      <4>1. in = j + 1
        BY <2>3, <3>2
      <4> QED
        BY <2>2, <3>2, <4>1
    <3> QED
      BY <3>1, <3>2
  <2> QED
    BY <2>1, <2>4, <2>5
<1> HIDE DEF out, in, last
<1>6. ASSUME many PROVE RotationOnly(t, swapped)
  <2>1. s[out + 1] \in Candidate /\ s[in + 1] \in Candidate
    BY <1>5, <1>6, ElementOfSeq
  <2>2. s[out + 1].name \in Names \cup {0} /\ s[in + 1].name \in Names \cup {0}
    BY <2>1 DEF Candidate
  <2>3. RotationOnly(t, moved) /\ TablesOK(moved)
    BY <2>2, SetRotationOK, RotationOnlyOK
  <2> HIDE DEF moved
  <2>4. RotationOnly(moved, swapped)
    BY <1>5, <1>6, <2>3, IndicesOK
  <2> HIDE DEF swapped
  <2> QED
    BY <1>1, <2>3, <2>4, RotationOnlyTwice
<1> HIDE DEF swapped
<1>7. RotationOnly(t, t)
  <2>1. RotationOnly(t, TurnedTo(t, t.rotation))
    BY RotationWritten DEF TablesOK
  <2>2. TurnedTo(t, t.rotation) = t
    BY <1>1 DEF TurnedTo, IsTables, TableFields
  <2> QED
    BY <2>1, <2>2
<1>8. RotationOnly(t, base) /\ TablesOK(base)
  BY <1>6, <1>7, RotationOnlyOK
<1> HIDE DEF base
<1>9. RotationOnly(base, timed) /\ TablesOK(timed)
  BY <1>8, TimesOK, RotationOnlyOK
<1> HIDE DEF timed
<1>10. RotationOnly(timed, restart_missed_blocks_per_rotation(timed, s))
  BY <1>9, RestartOK
<1>11. RotationOnly(t, timed)
  BY <1>1, <1>8, <1>9, RotationOnlyTwice
<1>12. RotationOnly(t, restart_missed_blocks_per_rotation(timed, s))
  BY <1>1, <1>10, <1>11, RotationOnlyTwice
<1>13. result.t = restart_missed_blocks_per_rotation(timed, s)
       /\ result.swap = IF many THEN <<out + 1, in + 1>> ELSE <<0, 0>>
  BY <1>2
<1> HIDE DEF result
<1>14. RotationOnly(t, result.t)
  BY <1>12, <1>13
<1>15. CASE many
  <2>1. PICK o, i : o = out + 1 /\ i = in + 1
    OBVIOUS
  <2>2. o \in 1..Len(s) /\ i \in 1..Len(s)
    BY <1>5, <1>15, <2>1
  <2>3. result.swap = <<o, i>>
    BY <1>13, <1>15, <2>1
  <2> HIDE DEF many
  <2> QED
    BY <1>14, <2>2, <2>3 DEF Swaps, result
<1>16. CASE ~many
  <2>1. result.swap = <<0, 0>>
    BY <1>13, <1>16
  <2> QED
    BY <1>14, <2>1 DEF Swaps, result
<1> QED
  BY <1>15, <1>16

\* Where a name is in a schedule.
LEMMA PositionInside ==
    ASSUME NEW s, Len(s) \in Nat, NEW name
    PROVE  Position(s, name) \in 0..Len(s)
<1> DEFINE K == {0} \cup {i \in 1..Len(s) : s[i].name = name}
<1>1. K \in SUBSET (0..Len(s)) /\ K # {}
  OBVIOUS
<1>2. Max(K) \in K
  <2> HIDE DEF K
  <2> QED
    BY <1>1, GreatestNumber
<1> QED
  BY <1>1, <1>2 DEF Position

\* When the last swap goes on.
LEMMA RotationHeldOK ==
    ASSUME NEW t, TablesOK(t), NEW s \in Seq(Candidate)
    PROVE  Swaps(t, s, RotationHeld(t, s))
<1> DEFINE r == t.rotation
           out == Position(s, r.bp_currently_out)
           in == Position(s, r.sbp_currently_in)
           cleared == set_bps_rotation(t, 0, 0)
           reset == [cleared EXCEPT !.rotation.bp_out_index = TOP_PRODUCERS,
                                    !.rotation.sbp_in_index = MAX_PRODUCERS + 1]
           inPlace == out \in 1..TOP_PRODUCERS /\ in \in TOP_PRODUCERS + 1..MAX_PRODUCERS
           none == r.bp_currently_out = 0 \/ r.sbp_currently_in = 0
           lost == r.bp_currently_out # 0 /\ r.sbp_currently_in # 0 /\ (out = 0 \/ in = 0)
           result == RotationHeld(t, s)
<1>1. IsTables(t) /\ Len(s) \in Nat
  BY LenProperties DEF TablesOK
<1>2. out \in 0..Len(s) /\ in \in 0..Len(s)
  BY <1>1, PositionInside
<1>3. result =
        CASE none -> [t |-> t, swap |-> <<0, 0>>]
          [] lost -> [t |-> IF Len(s) < TOP_PRODUCERS THEN reset ELSE cleared, swap |-> <<0, 0>>]
          [] OTHER -> IF Len(s) > TOP_PRODUCERS /\ ~inPlace
                      THEN [t |-> cleared, swap |-> <<0, 0>>] ELSE [t |-> t, swap |-> <<out, in>>]
  BY DEF RotationHeld
<1>4. ~none /\ ~lost => out # 0 /\ in # 0
  OBVIOUS
<1>5. none \in BOOLEAN /\ lost \in BOOLEAN /\ (none => ~lost)
  OBVIOUS
<1>6. RotationOnly(t, t)
  <2>1. RotationOnly(t, TurnedTo(t, t.rotation))
    BY RotationWritten DEF TablesOK
  <2>2. TurnedTo(t, t.rotation) = t
    BY <1>1 DEF TurnedTo, IsTables, TableFields
  <2> QED
    BY <2>1, <2>2
<1>7. RotationOnly(t, cleared) /\ TablesOK(cleared)
  BY SetRotationOK, RotationOnlyOK
<1> HIDE DEF cleared
<1>8. RotationOnly(t, reset)
  <2>1. TOP_PRODUCERS \in 0..TOP_PRODUCERS
        /\ MAX_PRODUCERS + 1 \in TOP_PRODUCERS..MAX_PRODUCERS + 1
    BY ProducersAssumption
  <2>2. RotationOnly(cleared, reset)
    BY <1>7, <2>1, IndicesOK
  <2> HIDE DEF reset
  <2> QED
    BY <1>1, <1>7, <2>2, RotationOnlyTwice
<1> HIDE DEF r, out, in, reset, inPlace, none, lost, result
<1>9. \/ result.swap = <<0, 0>> /\ result.t \in {t, cleared, reset}
      \/ out # 0 /\ in # 0 /\ result = [t |-> t, swap |-> <<out, in>>]
  <2>1. CASE none
    BY <1>3, <2>1
  <2>2. CASE lost
    BY <1>3, <1>5, <2>2
  <2>3. CASE ~none /\ ~lost
    BY <1>3, <1>4, <2>3
  <2> QED
    BY <1>5, <2>1, <2>2, <2>3
<1>10. CASE result.swap = <<0, 0>> /\ result.t \in {t, cleared, reset}
  BY <1>6, <1>7, <1>8, <1>10 DEF Swaps, result
<1>11. CASE out # 0 /\ in # 0 /\ result = [t |-> t, swap |-> <<out, in>>]
  <2>1. out \in 1..Len(s) /\ in \in 1..Len(s) /\ result.t = t /\ result.swap = <<out, in>>
    BY <1>1, <1>2, <1>11
  <2> QED
    BY <1>6, <2>1 DEF Swaps, result
<1> QED
  BY <1>9, <1>10, <1>11

-----------------------------------------------------------------------------
(* Election                                                                *)

Electable(rows) == {p \in Names : rows[p].total_votes > 0 /\ rows[p].is_active}

\* The index by votes, and who may be elected are the first in it.
LEMMA ElectableFirst ==
    ASSUME NEW t, ProdsOK(t.prods)
    PROVE  /\ Lists(ByVotes(t, Names), Names, VotePairs(t, Names))
           /\ \A i, j \in 1..Cardinality(Names) :
                i < j => Sooner(t, ByVotes(t, Names)[i], ByVotes(t, Names)[j])
           /\ ComesFirst(Electable(t.prods), Names, VotePairs(t, Names))
           /\ Electable(t.prods) \in SUBSET Names
<1> DEFINE E == Electable(t.prods)
<1>1. Names \in SUBSET Nat /\ IsFiniteSet(Names)
  BY OnblockAssumption
<1>2. \A p \in Names : t.prods[p].total_votes \in Nat /\ t.prods[p].is_active \in BOOLEAN
  BY OnblockAssumption DEF ProdsOK, IsProducer
<1>3. \A p \in Names : by_votes(t.prods[p]) \in Int
  BY <1>2 DEF by_votes
<1>4. /\ Lists(ByVotes(t, Names), Names, VotePairs(t, Names))
      /\ \A i, j \in 1..Cardinality(Names) :
           i < j => Sooner(t, ByVotes(t, Names)[i], ByVotes(t, Names)[j])
  BY <1>1, <1>3, ByVotesLists
<1>5. ASSUME NEW p \in E, NEW q \in Names \ E PROVE <<q, p>> \notin VotePairs(t, Names)
  <2> PICK a, b : a = by_votes(t.prods[p]) /\ b = by_votes(t.prods[q])
    OBVIOUS
  <2>1. a \in Int /\ a < 0
    BY <1>2 DEF by_votes, Electable
  <2>2. b \in Int /\ b >= 0
    <3>1. ~(t.prods[q].total_votes > 0 /\ t.prods[q].is_active)
      BY DEF Electable
    <3> QED
      BY <1>2, <3>1 DEF by_votes
  <2>3. ~Sooner(t, q, p)
    BY <2>1, <2>2 DEF Sooner
  <2> QED
    BY <2>3 DEF VotePairs
<1> QED
  BY <1>4, <1>5 DEF ComesFirst, Electable

\* The candidates are the first of them.
AreCandidates(c, t) ==
    /\ c \in Seq(Candidate)
    /\ Len(c) = Lesser(MAX_PRODUCERS, Cardinality(Electable(t.prods)))
    /\ Len(c) \in Nat /\ Cardinality(Electable(t.prods)) \in Nat
    /\ \A i \in 1..Len(c) : c[i].name = ByVotes(t, Names)[i] /\ c[i].name \in Electable(t.prods)

\* Candidates finds them.
LEMMA CandidatesAre ==
    ASSUME NEW t, ProdsOK(t.prods)
    PROVE  AreCandidates(Candidates(t), t)
<1> DEFINE E == Electable(t.prods)
           V == ByVotes(t, Names)
           l == Leading(V, E, MAX_PRODUCERS)
           c == [i \in 1..Len(l) |-> [name |-> l[i], key |-> t.prods[l[i]].key]]
<1>1. DOMAIN t.prods = Names
  BY DEF ProdsOK
<1>2. Candidates(t) = c
  BY <1>1 DEF Candidates, Electable
<1>3. IsFiniteSet(Names) /\ MAX_PRODUCERS \in Nat
  BY OnblockAssumption, ProducersAssumption
<1>4. l \in Seq(Names) /\ IsFirst(l, V, E, MAX_PRODUCERS)
  <2> HIDE DEF V, E, l
  <2>1. Lists(V, Names, VotePairs(t, Names)) /\ ComesFirst(E, Names, VotePairs(t, Names))
        /\ E \in SUBSET Names
    BY ElectableFirst DEF V, E
  <2> QED
    BY <1>3, <2>1, LeadingFirst DEF l
<1>5. Cardinality(E) \in Nat
  BY <1>3, ElectableFirst, FS_Subset, FS_CardinalityType
<1> HIDE DEF l, V
<1>6. /\ Len(l) \in Nat /\ Len(l) = Lesser(MAX_PRODUCERS, Cardinality(E))
      /\ \A i \in 1..Len(l) : l[i] = V[i] /\ l[i] \in E
  BY <1>4 DEF IsFirst
<1>7. \A i \in 1..Len(l) : c[i] \in Candidate
  <2> TAKE i \in 1..Len(l)
  <2> PICK p : p = l[i]
    OBVIOUS
  <2>1. p \in Names /\ t.prods[p].is_active
    BY <1>6 DEF Electable
  <2>2. t.prods[p].key \in Keys
    BY <2>1 DEF ProdsOK, IsProducer
  <2> QED
    BY <2>1, <2>2 DEF Candidate
<1>8. c \in Seq(Candidate) /\ Len(c) = Len(l)
  <2> PICK n : n = Len(l)
    OBVIOUS
  <2>1. n \in Nat /\ DOMAIN c = 1..n
    BY <1>6
  <2>2. c \in [1..n -> Candidate]
    BY <1>7, <2>1
  <2> HIDE DEF c
  <2>3. c \in Seq(Candidate)
    BY <2>1, <2>2, SeqDef
  <2> QED
    BY <2>1, <2>3, LenProperties
<1>9. \A i \in 1..Len(l) : c[i].name = V[i] /\ c[i].name \in E
  BY <1>6
<1> HIDE DEF c, E
<1> QED
  BY <1>2, <1>5, <1>6, <1>8, <1>9 DEF AreCandidates, E, V

\* Those in the schedule: the first of the candidates, but for one of them who
\* may have left the place to another.
IsTop(top, s) ==
    /\ top \in Seq(Candidate) /\ Len(top) = Lesser(TOP_PRODUCERS, Len(s)) /\ Len(top) \in Nat
    /\ \E o, i \in 0..Len(s) :
         /\ o # 0 => i # 0
         /\ \A k \in 1..Len(top) : top[k] = IF k = o THEN s[i] ELSE s[k]

\* check_rotation_state finds it, and only writes what a rotation may.
LEMMA RotationStateOK ==
    ASSUME NEW t, TablesOK(t), NEW s \in Seq(Candidate), Len(s) <= MAX_PRODUCERS, NEW time
    PROVE  /\ RotationOnly(t, check_rotation_state(t, s, time).t)
           /\ IsTop(check_rotation_state(t, s, time).top, s)
<1> DEFINE rotated == IF t.rotation.next_rotation_time <= time
                      THEN RotationDue(t, s, time) ELSE RotationHeld(t, s)
           out == rotated.swap[1]
           in == rotated.swap[2]
           first == SubSeq(s, 1, Min({TOP_PRODUCERS, Len(s)}))
           other == [i \in 1..Len(first) |-> IF i = out THEN s[in] ELSE s[i]]
           result == check_rotation_state(t, s, time)
<1>1. Swaps(t, s, rotated)
  BY RotationDueOK, RotationHeldOK
<1>2. result.t = rotated.t /\ result.top = IF rotated.swap = <<0, 0>> THEN first ELSE other
  BY DEF check_rotation_state
<1> HIDE DEF rotated, result
<1>3. Len(s) \in Nat /\ DOMAIN s = 1..Len(s) /\ \A k \in 1..Len(s) : s[k] \in Candidate
  BY LenProperties, ElementOfSeq
<1> PICK n : n = Lesser(TOP_PRODUCERS, Len(s))
  OBVIOUS
<1>4. TOP_PRODUCERS \in Nat
  BY ProducersAssumption
<1>5. Min({TOP_PRODUCERS, Len(s)}) = n /\ n \in Nat /\ n <= Len(s)
  <2>1. Min({TOP_PRODUCERS, Len(s)}) = IF TOP_PRODUCERS <= Len(s) THEN TOP_PRODUCERS ELSE Len(s)
    BY <1>3, <1>4, LesserOfTwo
  <2> PICK m : m = Len(s)
    OBVIOUS
  <2>2. n = IF TOP_PRODUCERS <= m THEN TOP_PRODUCERS ELSE m
    BY DEF Lesser
  <2> QED
    BY <1>3, <1>4, <2>1, <2>2
<1>6. first \in Seq(Candidate) /\ Len(first) = n /\ \A i \in 1..n : first[i] = s[i]
  <2>1. first = SubSeq(s, 1, n)
    BY <1>5
  <2> HIDE DEF first
  <2> QED
    BY <1>3, <1>5, <2>1, SubSeqProperties
<1> HIDE DEF first
<1>7. CASE rotated.swap = <<0, 0>>
  <2>1. result.top = first
    BY <1>2, <1>7
  <2>2. 0 \in 0..Len(s) /\ \A k \in 1..Len(first) : first[k] = IF k = 0 THEN s[0] ELSE s[k]
    BY <1>3, <1>5, <1>6
  <2>3. IsTop(first, s)
    BY <1>5, <1>6, <2>2 DEF IsTop
  <2> QED
    BY <1>1, <1>2, <2>1, <2>3 DEF Swaps, result
<1>8. ASSUME NEW o \in 1..Len(s), NEW i \in 1..Len(s), rotated.swap = <<o, i>>
      PROVE  RotationOnly(t, result.t) /\ IsTop(result.top, s)
  <2>1. out = o /\ in = i /\ rotated.swap # <<0, 0>>
    BY <1>8
  <2> HIDE DEF out, in
  <2>2. result.top = other /\ other = [k \in 1..n |-> IF k = o THEN s[i] ELSE s[k]]
    BY <1>2, <1>6, <2>1
  <2>3. other \in [1..n -> Candidate]
    BY <1>3, <1>5, <2>2
  <2>4. other \in Seq(Candidate) /\ DOMAIN other = 1..n
    BY <1>5, <2>2, <2>3, SeqDef, Z3T(30)
  <2>5. Len(other) = n
    BY <1>5, <2>4, LenProperties
  <2>6. \A k \in 1..n : other[k] = IF k = o THEN s[i] ELSE s[k]
    BY <2>2
  <2> HIDE DEF other
  <2>7. IsTop(other, s)
    BY <1>5, <2>4, <2>5, <2>6, Z3T(30) DEF IsTop
  <2> QED
    BY <1>1, <1>2, <2>2, <2>7 DEF Swaps
<1> QED
  BY <1>1, <1>7, <1>8 DEF Swaps, result

\* A schedule that an election proposes.
IsElection(schedule, t) ==
    \E top : /\ IsTop(top, Candidates(t)) /\ Rearranged(schedule, top, Candidate)
             /\ Valid(schedule)

\* What an election leaves alone, and what it proposes if it proposes something
\* that the chain takes up.
Elects(t, u) ==
    /\ TablesOK(u) /\ (u.ok => t.ok)
    /\ u.now = t.now /\ u.active = t.active /\ u.pending = t.pending
    /\ u.pay = t.pay /\ u.payments = t.payments /\ u.ledger = t.ledger
    /\ Standing(t.prods, u.prods)
    /\ u.proposed = t.proposed \/ (u.ok => IsElection(u.proposed, t))

\* The tables after a schedule has been proposed.
ProposedOf(v, schedule, g) ==
    [v EXCEPT !.proposed = schedule, !.metrics.producers_metric = g, !.elected.size = Len(schedule)]

\* They are sound, and the others stay.
LEMMA ProposedOK ==
    ASSUME NEW v, TablesOK(v), NEW schedule, ScheduleOK(schedule), NEW g \in Seq(Metric),
           Len(g) = Len(schedule)
    PROVE  /\ TablesOK(ProposedOf(v, schedule, g))
           /\ ProposedOf(v, schedule, g).proposed = schedule
           /\ \A x \in TableFields \ {"proposed", "metrics", "elected"} :
                ProposedOf(v, schedule, g)[x] = v[x]
<1> PICK w : w = ProposedOf(v, schedule, g)
  OBVIOUS
<1>1. PICK m : m = [v.metrics EXCEPT !.producers_metric = g]
  OBVIOUS
<1>2. PICK e : e = [v.elected EXCEPT !.size = Len(schedule)]
  OBVIOUS
<1>3. IsTables(v) /\ MetricsOK(v.metrics) /\ ElectedOK(v.elected, v.metrics)
  BY DEF TablesOK
<1>4. MetricsOK(m) /\ m.producers_metric = g
  BY <1>1, <1>3 DEF MetricsOK, MetricsFields
<1>5. ElectedOK(e, m)
  BY <1>2, <1>3, <1>4 DEF ElectedOK, ScheduleOK
<1>6. w = [v EXCEPT !.proposed = schedule, !.metrics = m, !.elected = e]
  BY <1>1, <1>2, <1>3 DEF ProposedOf, IsTables, TableFields
<1>7. /\ IsTables(w) /\ w.metrics = m /\ w.elected = e /\ w.proposed = schedule
      /\ w.now = v.now /\ w.prods = v.prods /\ w.rotation = v.rotation /\ w.active = v.active
      /\ w.pending = v.pending /\ w.pay = v.pay /\ w.payments = v.payments
      /\ w.ledger = v.ledger /\ w.ok = v.ok
  BY <1>3, <1>6 DEF IsTables, TableFields
<1>8. ChainOK(w.active, w.pending, w.proposed)
  BY <1>7 DEF TablesOK, ChainOK
<1>9. TablesOK(w)
  BY <1>4, <1>5, <1>7, <1>8 DEF TablesOK
<1>10. \A x \in TableFields \ {"proposed", "metrics", "elected"} : w[x] = v[x]
  BY <1>7 DEF TableFields
<1> QED
  BY <1>7, <1>9, <1>10

\* The time of an election.
LEMMA LastUpdateOK ==
    ASSUME NEW t, TablesOK(t), NEW time, NEW u, u = [t EXCEPT !.elected.last_update = time]
    PROVE  TablesOK(u) /\ \A x \in TableFields \ {"elected"} : u[x] = t[x]
<1>1. PICK e : e = [t.elected EXCEPT !.last_update = time]
  OBVIOUS
<1>2. IsTables(t) /\ ElectedOK(t.elected, t.metrics)
  BY DEF TablesOK
<1>3. ElectedOK(e, t.metrics)
  BY <1>1, <1>2 DEF ElectedOK
<1>4. u = [t EXCEPT !.elected = e]
  BY <1>1, <1>2 DEF IsTables, TableFields
<1>5. /\ IsTables(u) /\ u.metrics = t.metrics /\ u.elected = e /\ u.proposed = t.proposed
      /\ u.now = t.now /\ u.prods = t.prods /\ u.rotation = t.rotation /\ u.active = t.active
      /\ u.pending = t.pending /\ u.pay = t.pay /\ u.payments = t.payments
      /\ u.ledger = t.ledger /\ u.ok = t.ok
  BY <1>2, <1>4 DEF IsTables, TableFields
<1>6. \A x \in TableFields \ {"elected"} : u[x] = t[x]
  BY <1>5 DEF TableFields
<1> QED
  BY <1>3, <1>5, <1>6 DEF TablesOK

\* A schedule has entries.
LEMMA CandidatesAreEntries ==
    ASSUME NEW s \in Seq(Candidate)
    PROVE  s \in Seq(Entry)
<1>1. Candidate \subseteq Entry
  BY OnblockAssumption DEF Candidate, Entry
<1>2. Len(s) \in Nat /\ s \in [1..Len(s) -> Candidate]
  BY LenProperties
<1>3. s \in [1..Len(s) -> Entry]
  BY <1>1, <1>2
<1> QED
  BY <1>2, <1>3, SeqDef

\* An election keeps the tables sound.
LEMMA ElectionElects ==
    ASSUME NEW t, TablesOK(t), NEW time
    PROVE  Elects(t, update_elected_producers(t, time))
<1> DEFINE t1 == [t EXCEPT !.elected.last_update = time]
           c == Candidates(t)
           rotated == check_rotation_state(t1, c, time)
           schedule == ByName(rotated.top)
           g == [i \in 1..Len(schedule) |-> [bp_name |-> schedule[i].name,
                                             missed |-> MAX_BLOCK_PER_CYCLE]]
           proposed == ProposedOf(rotated.t, schedule, g)
           base == IF IsChange(t, schedule) THEN proposed ELSE rotated.t
           u == update_elected_producers(t, time)
<1>1. u = Check(base, Valid(schedule))
  BY DEF update_elected_producers, ProposedOf
<1>2. TablesOK(t1) /\ (\A x \in TableFields \ {"elected"} : t1[x] = t[x])
  BY LastUpdateOK
<1>3. AreCandidates(c, t)
  BY CandidatesAre DEF TablesOK
<1>4. c \in Seq(Candidate) /\ Len(c) <= MAX_PRODUCERS
  <2>1. MAX_PRODUCERS \in Nat
    BY ProducersAssumption
  <2> HIDE DEF c
  <2> QED
    BY <1>3, <2>1 DEF AreCandidates, Lesser
<1> HIDE DEF t1, c
<1>5. RotationOnly(t1, rotated.t) /\ IsTop(rotated.top, c)
  BY <1>2, <1>4, RotationStateOK
<1> PICK v, top : v = rotated.t /\ top = rotated.top
  OBVIOUS
<1> HIDE DEF rotated
<1>6. TablesOK(v) /\ RotationOnly(t1, v)
  BY <1>2, <1>5, RotationOnlyOK
<1>7. top \in Seq(Candidate) /\ Len(top) <= TOP_PRODUCERS
  <2>1. TOP_PRODUCERS \in Nat /\ Len(c) \in Nat
    BY <1>4, LenProperties, ProducersAssumption
  <2> QED
    BY <1>5, <2>1 DEF IsTop, Lesser
<1>8. Rearranged(schedule, top, Candidate)
  <2>1. \A x \in Candidate : x.name \in Nat
    BY OnblockAssumption DEF Candidate
  <2> QED
    BY <1>7, <2>1, ByNameRearranges
<1> HIDE DEF schedule
<1>9. schedule \in Seq(Candidate) /\ ScheduleOK(schedule) /\ Len(schedule) \in Nat
  <2>1. schedule \in Seq(Candidate) /\ Len(schedule) = Len(top)
    BY <1>8 DEF Rearranged
  <2> QED
    BY <1>7, <2>1, CandidatesAreEntries, LenProperties DEF ScheduleOK
<1>10. g \in Seq(Metric) /\ Len(g) = Len(schedule)
  <2> PICK n : n = Len(schedule)
    OBVIOUS
  <2>1. \A i \in 1..n : g[i] \in Metric
    <3> TAKE i \in 1..n
    <3>1. schedule[i] \in Candidate
      BY <1>9, ElementOfSeq
    <3>2. schedule[i].name \in Names
      BY <3>1 DEF Candidate
    <3>3. MAX_BLOCK_PER_CYCLE \in 0..uint32_range - 1
      BY ProducersAssumption, SMTT(30)
    <3> QED
      BY <3>2, <3>3 DEF Metric
  <2>2. DOMAIN g = 1..n /\ g = [i \in 1..n |-> g[i]] /\ n \in Nat
    BY <1>9
  <2> HIDE DEF g
  <2>3. g \in [1..n -> Metric]
    BY <2>1, <2>2
  <2>4. g \in Seq(Metric)
    BY <2>2, <2>3, SeqDef
  <2> QED
    BY <2>2, <2>4, LenProperties
<1> HIDE DEF g
<1>11. TablesOK(proposed) /\ proposed.proposed = schedule
       /\ \A x \in TableFields \ {"proposed", "metrics", "elected"} : proposed[x] = v[x]
  BY <1>6, <1>9, <1>10, ProposedOK
<1> HIDE DEF proposed
<1>12. /\ TablesOK(base) /\ base.now = v.now /\ base.active = v.active
       /\ base.pending = v.pending /\ base.pay = v.pay /\ base.payments = v.payments
       /\ base.ledger = v.ledger /\ base.prods = v.prods /\ base.ok = v.ok
       /\ base.proposed \in {v.proposed, schedule}
  BY <1>6, <1>11 DEF TableFields
<1>13. /\ v.now = t.now /\ v.active = t.active /\ v.pending = t.pending /\ v.pay = t.pay
       /\ v.payments = t.payments /\ v.ledger = t.ledger /\ v.proposed = t.proposed
       /\ v.ok = t.ok
  <2>1. IsTables(t1)
    BY <1>2 DEF TablesOK
  <2>2. /\ v.now = t1.now /\ v.active = t1.active /\ v.pending = t1.pending /\ v.pay = t1.pay
        /\ v.payments = t1.payments /\ v.ledger = t1.ledger /\ v.proposed = t1.proposed
        /\ v.ok = t1.ok
    BY <1>6, <2>1 DEF RotationOnly, IsTables, TableFields
  <2> QED
    BY <1>2, <2>2 DEF TableFields
<1>14. Standing(t.prods, v.prods)
  <2>1. t1.prods = t.prods
    BY <1>2 DEF TableFields
  <2> QED
    BY <1>6, <2>1 DEF RotationOnly
<1> HIDE DEF base
<1>15. TablesOK(u)
  <2>1. Valid(schedule) \in BOOLEAN
    BY DEF Valid
  <2> QED
    BY <1>1, <1>12, <2>1, CheckOK
<1>16. /\ u.now = base.now /\ u.active = base.active
       /\ u.pending = base.pending /\ u.pay = base.pay /\ u.payments = base.payments
       /\ u.ledger = base.ledger /\ u.prods = base.prods
       /\ u.proposed = base.proposed /\ (u.ok => base.ok /\ Valid(schedule))
  <2>1. IsTables(base)
    BY <1>12 DEF TablesOK
  <2> HIDE DEF u
  <2> QED
    BY <1>1, <2>1 DEF Check, IsTables, TableFields
<1> HIDE DEF u
<1>17. u.proposed = t.proposed \/ (u.ok => IsElection(u.proposed, t))
  <2>1. IsTop(top, c)
    BY <1>5
  <2> QED
    BY <1>8, <1>12, <1>13, <1>16, <2>1 DEF IsElection, c
<1> QED
  BY <1>12, <1>13, <1>14, <1>15, <1>16, <1>17 DEF Elects, u

\* The members of a schedule are the producers with the most votes, but for one
\* of them who may have changed places with a standby.
Members(s) == {s[i].name : i \in 1..Len(s)}
MoreVotes(rows, members, in, out) ==
    \A q \in members \ {in}, p \in Electable(rows) \ (members \cup {out}) :
      rows[p].total_votes <= rows[q].total_votes
MostVoted(members, rows) ==
    /\ members \subseteq Electable(rows)
    /\ Cardinality(members) = Lesser(TOP_PRODUCERS, Cardinality(Electable(rows)))
    /\ Cardinality(Electable(rows)) \in Nat
    /\ \E in \in members, out \in Names : MoreVotes(rows, members, in, out)

\* As many as the schedule has places.
LEMMA MembersCounted ==
    ASSUME NEW s, Len(s) \in Nat, IsInjective([i \in 1..Len(s) |-> s[i].name])
    PROVE  Cardinality(Members(s)) = Len(s)
<1> DEFINE n == Len(s)
           f == [i \in 1..n |-> s[i].name]
           T == Members(s)
<1>1. f \in [1..n -> T] /\ (\A x \in T : \E i \in 1..n : f[i] = x)
  BY DEF Members
<1>2. \A i, j \in 1..n : i # j => f[i] # f[j]
  <2>1. DOMAIN f = 1..n /\ IsInjective(f)
    OBVIOUS
  <2> HIDE DEF f
  <2> QED
    BY <2>1 DEF IsInjective
<1> HIDE DEF f, T
<1>3. n \in Nat
  OBVIOUS
<1> HIDE DEF n
<1> QED
  BY <1>1, <1>2, <1>3, CountedByPlaces DEF T, n

\* A schedule in another order has the same members.
LEMMA MembersRearranged ==
    ASSUME NEW s, NEW top, NEW X, Rearranged(s, top, X)
    PROVE  Members(s) = Members(top) /\ Len(s) = Len(top)
<1>1. PICK f \in [1..Len(top) -> 1..Len(top)] :
        /\ \A i \in 1..Len(top) : s[i] = top[f[i]]
        /\ \A j \in 1..Len(top) : \E i \in 1..Len(top) : f[i] = j
  BY DEF Rearranged
<1>2. Len(s) = Len(top)
  BY DEF Rearranged
<1>3. \A j \in 1..Len(top) : \E i \in 1..Len(top) : s[i] = top[j]
  BY <1>1
<1>4. \A i \in 1..Len(top) : \E j \in 1..Len(top) : s[i] = top[j]
  BY <1>1
<1> PICK n : n = Len(top)
  OBVIOUS
<1> DEFINE A == {s[i].name : i \in 1..n}
           B == {top[j].name : j \in 1..n}
<1>5. Members(s) = A /\ Members(top) = B
  BY <1>2 DEF Members
<1>6. A \subseteq B
  BY <1>4
<1>7. B \subseteq A
  <2> SUFFICES ASSUME NEW j \in 1..n PROVE top[j].name \in A
    OBVIOUS
  <2>1. PICK i \in 1..n : s[i] = top[j]
    BY <1>3
  <2> QED
    BY <2>1
<1> HIDE DEF A, B
<1> QED
  BY <1>2, <1>5, <1>6, <1>7

\* Among active producers the sooner in the index has the votes.
LEMMA SoonerHasMore ==
    ASSUME NEW t, ProdsOK(t.prods), NEW p \in Electable(t.prods), NEW q \in Electable(t.prods),
           Sooner(t, q, p)
    PROVE  t.prods[p].total_votes <= t.prods[q].total_votes
<1>1. t.prods[p].total_votes \in Nat /\ t.prods[q].total_votes \in Nat
  BY OnblockAssumption DEF Electable, ProdsOK, IsProducer
<1>2. by_votes(t.prods[p]) = -t.prods[p].total_votes /\ by_votes(t.prods[q]) = -t.prods[q].total_votes
  BY DEF by_votes, Electable
<1> QED
  BY <1>1, <1>2 DEF Sooner

\* What an election proposes.
LEMMA ElectionMostVoted ==
    ASSUME NEW t, ProdsOK(t.prods), NEW schedule, IsElection(schedule, t)
    PROVE  MostVoted(Members(schedule), t.prods)
<1> DEFINE c == Candidates(t)
           V == ByVotes(t, Names)
           E == Electable(t.prods)
           M == Members(schedule)
<1>1. PICK top : IsTop(top, c) /\ Rearranged(schedule, top, Candidate) /\ Valid(schedule)
  BY DEF IsElection
<1>2. AreCandidates(c, t)
  BY CandidatesAre
<1>3. /\ Len(c) = Lesser(MAX_PRODUCERS, Cardinality(E)) /\ Len(c) \in Nat /\ Cardinality(E) \in Nat
      /\ \A k \in 1..Len(c) : c[k].name = V[k] /\ c[k].name \in E
  BY <1>2 DEF AreCandidates
<1>4. /\ \A x \in Names : \E k \in 1..Cardinality(Names) : V[k] = x
      /\ \A k, j \in 1..Cardinality(Names) : k < j => Sooner(t, V[k], V[j])
      /\ E \in SUBSET Names /\ Cardinality(Names) \in Nat /\ Cardinality(E) <= Cardinality(Names)
  <2>1. IsFiniteSet(Names) /\ E \in SUBSET Names
    BY OnblockAssumption DEF Electable
  <2>2. Cardinality(Names) \in Nat /\ Cardinality(E) <= Cardinality(Names)
    BY <2>1, FS_Subset, FS_CardinalityType
  <2> QED
    BY <2>1, <2>2, ElectableFirst DEF Lists
<1> HIDE DEF c, V, E
<1>5. PICK o \in 0..Len(c), i \in 0..Len(c) :
        /\ o # 0 => i # 0
        /\ \A k \in 1..Len(top) : top[k] = IF k = o THEN c[i] ELSE c[k]
  BY <1>1 DEF IsTop
<1>6. Len(top) = Lesser(TOP_PRODUCERS, Len(c)) /\ Len(top) \in Nat /\ M = Members(top)
      /\ Len(schedule) = Len(top)
  BY <1>1, MembersRearranged DEF IsTop
<1> PICK n : n = Len(top)
  OBVIOUS
<1>7. /\ n = Lesser(TOP_PRODUCERS, Cardinality(E)) /\ n \in Nat /\ n <= Len(c)
      /\ n <= Cardinality(Names)
  BY <1>3, <1>4, <1>6, ProducersAssumption, SMTT(30) DEF Lesser
<1>8. n # 0
  <2>1. schedule # <<>> /\ schedule \in Seq(Candidate)
    BY <1>1 DEF Valid, Rearranged
  <2>2. Len(schedule) # 0
    BY <2>1, EmptySeq
  <2> QED
    BY <1>6, <2>2
<1>9. Cardinality(M) = n
  <2>1. IsInjective([k \in 1..Len(schedule) |-> schedule[k].name])
    BY <1>1 DEF Valid
  <2> QED
    BY <1>6, <2>1, MembersCounted DEF M
<1>10. M = {top[k].name : k \in 1..n}
  BY <1>6 DEF Members
<1> HIDE DEF M
<1>11. \A k \in 1..n : top[k].name = (IF k = o THEN V[i] ELSE V[k]) /\ top[k].name \in E
  <2> TAKE k \in 1..n
  <2>1. k \in 1..Len(c) /\ (k = o => i \in 1..Len(c))
    BY <1>3, <1>5, <1>7
  <2> QED
    BY <1>3, <1>5, <2>1
<1>12. M \subseteq E
  BY <1>10, <1>11
<1> DEFINE in == IF o \in 1..n THEN V[i] ELSE V[1]
           out == IF o \in 1..n THEN V[o] ELSE V[1]
<1>13. in \in M /\ out \in Names
  <2>1. 1 \in 1..n
    BY <1>7, <1>8
  <2>2. CASE o \in 1..n
    <3>1. top[o].name = V[i] /\ top[o].name \in M
      BY <1>10, <1>11, <2>2
    <3>2. V[o] \in Names
      <4>1. o \in 1..Len(c)
        BY <1>3, <1>7, <2>2
      <4> QED
        BY <1>3, <1>4, <4>1
    <3> QED
      BY <2>2, <3>1, <3>2
  <2>3. CASE o \notin 1..n
    <3>1. top[1].name = V[1] /\ top[1].name \in M
      BY <1>10, <1>11, <2>1, <2>3
    <3>2. V[1] \in Names
      BY <1>4, <1>12, <3>1
    <3> QED
      BY <2>3, <3>1, <3>2
  <2> QED
    BY <2>2, <2>3
<1>14. ASSUME NEW q \in M \ {in}, NEW p \in E \ (M \cup {out})
       PROVE  t.prods[p].total_votes <= t.prods[q].total_votes
  <2>1. PICK k \in 1..n : q = V[k]
    <3>1. PICK k \in 1..n : q = top[k].name
      BY <1>10, <1>14
    <3>2. k = o => q = in
      BY <1>11, <3>1
    <3> QED
      BY <1>11, <1>14, <3>1, <3>2
  <2>2. PICK j \in 1..Cardinality(Names) : p = V[j]
    BY <1>4, <1>14
  <2>3. j \notin 1..n
    <3> SUFFICES ASSUME j \in 1..n PROVE FALSE
      OBVIOUS
    <3>1. j = o => p = out
      BY <2>2
    <3>2. j # o => p \in M
      BY <1>10, <1>11, <2>2
    <3> QED
      BY <1>14, <3>1, <3>2
  <2>4. k \in 1..Cardinality(Names) /\ k < j
    BY <1>4, <1>7, <2>1, <2>2, <2>3
  <2>5. Sooner(t, q, p)
    BY <1>4, <2>1, <2>2, <2>4
  <2>6. p \in Electable(t.prods) /\ q \in Electable(t.prods)
    BY <1>12, <1>14 DEF E
  <2> QED
    BY <2>5, <2>6, SoonerHasMore
<1>15. MoreVotes(t.prods, M, in, out)
  <2> HIDE DEF in, out
  <2> QED
    BY <1>14 DEF MoreVotes, E
<1>16. \E x \in M, y \in Names : MoreVotes(t.prods, M, x, y)
  BY <1>13, <1>15
<1> QED
  BY <1>3, <1>7, <1>9, <1>12, <1>16 DEF MostVoted, E, M

\* It stays so as long as the votes and who is active stay.
LEMMA MostVotedStands ==
    ASSUME NEW rows, NEW next, Standing(rows, next), NEW M, MostVoted(M, rows)
    PROVE  MostVoted(M, next)
<1>1. Electable(next) = Electable(rows)
  BY DEF Standing, Electable
<1>2. \A p \in Names : next[p].total_votes = rows[p].total_votes
  BY DEF Standing
<1>3. PICK in \in M, out \in Names : MoreVotes(rows, M, in, out)
  BY DEF MostVoted
<1>4. M \subseteq Names /\ Electable(rows) \subseteq Names
  BY DEF MostVoted, Electable
<1>5. MoreVotes(next, M, in, out)
  BY <1>1, <1>2, <1>3, <1>4 DEF MoreVotes
<1> QED
  BY <1>1, <1>5 DEF MostVoted

-----------------------------------------------------------------------------
(* Pay                                                                     *)

\* The tables that pay is about, as they are written.
Settled(t, rows, g, dues, money) ==
    [t EXCEPT !.prods = rows, !.pay = g, !.payments = dues, !.ledger = money]

\* What settling accounts keeps.
Settles(t, u) ==
    /\ TablesOK(u) /\ (u.ok => t.ok)
    /\ u.now = t.now /\ u.active = t.active /\ u.pending = t.pending /\ u.proposed = t.proposed
    /\ Standing(t.prods, u.prods)

\* What is settled is sound if the accounts match,
LEMMA SettledOK ==
    ASSUME NEW t, TablesOK(t), NEW rows, NEW g, NEW dues, NEW money,
           ProdsOK(rows), Standing(t.prods, rows), PayOK(g), DuesOK(dues),
           money \in [Accounts -> Nat], BlocksOK(rows, g), Covers(money, g, dues)
    PROVE  /\ Settles(t, Settled(t, rows, g, dues, money))
           /\ Settled(t, rows, g, dues, money).prods = rows
           /\ Settled(t, rows, g, dues, money).pay = g
<1> PICK u : u = Settled(t, rows, g, dues, money)
  OBVIOUS
<1>1. IsTables(t)
  BY DEF TablesOK
<1>2. /\ IsTables(u) /\ u.ok = t.ok /\ u.now = t.now /\ u.prods = rows /\ u.rotation = t.rotation
      /\ u.metrics = t.metrics /\ u.elected = t.elected /\ u.active = t.active
      /\ u.pending = t.pending /\ u.proposed = t.proposed /\ u.pay = g
      /\ u.payments = dues /\ u.ledger = money
  BY <1>1 DEF Settled, IsTables, TableFields
<1>3. TablesOK(u)
  BY <1>2 DEF TablesOK
<1> QED
  BY <1>2, <1>3 DEF Settles

\* also after another such step.
LEMMA SettlesTwice ==
    ASSUME NEW t, NEW u, NEW v, Settles(t, u), Settles(u, v)
    PROVE  Settles(t, v)
BY DEF Settles, Standing

\* Nothing is written at all, or a check has failed.
LEMMA SettlesSelf ==
    ASSUME NEW t, TablesOK(t)
    PROVE  Settles(t, t) /\ Settles(t, Check(t, FALSE))
<1>1. Settles(t, t)
  BY DEF Settles, Standing
<1>2. TablesOK(Check(t, FALSE))
  BY CheckOK
<1>3. IsTables(t)
  BY DEF TablesOK
<1> PICK u : u = Check(t, FALSE)
  OBVIOUS
<1>4. /\ u.ok = (t.ok /\ FALSE) /\ u.now = t.now /\ u.active = t.active
      /\ u.pending = t.pending /\ u.proposed = t.proposed /\ u.prods = t.prods
  BY <1>3 DEF Check, IsTables, TableFields
<1> QED
  BY <1>1, <1>2, <1>4 DEF Settles, Standing

\* The unpaid blocks of all producers.
LEMMA UnpaidTable ==
    ASSUME NEW rows, ProdsOK(rows)
    PROVE  IsTable(Unpaid(rows)) /\ DOMAIN Unpaid(rows) = Names /\ SumOf(Unpaid(rows)) \in Nat
<1> DEFINE f == Unpaid(rows)
<1>1. f = [p \in Names |-> rows[p].unpaid_blocks] /\ DOMAIN f = Names
  BY DEF Unpaid, ProdsOK
<1>2. \A p \in Names : f[p] \in Nat
  BY <1>1 DEF ProdsOK, IsProducer
<1> HIDE DEF f
<1>3. IsFiniteSet(Names)
  BY OnblockAssumption
<1>4. IsTable(f)
  BY <1>1, <1>2, <1>3 DEF IsTable
<1>5. SumOf(f) \in Nat
  BY <1>1, <1>2, <1>3, SumNat DEF SumOf
<1> QED
  BY <1>1, <1>4, <1>5 DEF f

\* Where one producer has other blocks to be paid.
WithUnpaid(rows, p, n) == [rows EXCEPT ![p] = [rows[p] EXCEPT !.unpaid_blocks = n]]

\* Only that many blocks more or less are to be paid.
LEMMA UnpaidMoves ==
    ASSUME NEW rows, ProdsOK(rows), NEW p \in Names, NEW n \in Nat
    PROVE  /\ ProdsOK(WithUnpaid(rows, p, n)) /\ Standing(rows, WithUnpaid(rows, p, n))
           /\ SumOf(Unpaid(WithUnpaid(rows, p, n)))
                = SumOf(Unpaid(rows)) - rows[p].unpaid_blocks + n
<1> PICK next, r, row : next = WithUnpaid(rows, p, n) /\ r = rows[p]
                        /\ row = [r EXCEPT !.unpaid_blocks = n]
  OBVIOUS
<1>1. IsProducer(r)
  BY DEF ProdsOK
<1>2. /\ row = [x \in ProducerFields |-> row[x]]
      /\ row.total_votes = r.total_votes /\ row.is_active = r.is_active /\ row.key = r.key
      /\ row.unpaid_blocks = n
      /\ row.missed_blocks_per_rotation = r.missed_blocks_per_rotation
      /\ row.lifetime_missed_blocks = r.lifetime_missed_blocks
      /\ row.times_kicked = r.times_kicked
  <2>1. r = [x \in ProducerFields |-> r[x]]
    BY <1>1 DEF IsProducer
  <2> QED
    BY <2>1 DEF ProducerFields
<1>3. IsProducer(row)
  BY <1>1, <1>2 DEF IsProducer
<1>4. next = [rows EXCEPT ![p] = row] /\ rows = [q \in Names |-> rows[q]]
  BY DEF WithUnpaid, ProdsOK
<1>5. next = [q \in Names |-> next[q]] /\ next[p] = row /\ \A q \in Names \ {p} : next[q] = rows[q]
  BY <1>4
<1>6. ProdsOK(next)
  BY <1>3, <1>5 DEF ProdsOK
<1>7. Standing(rows, next)
  BY <1>2, <1>5 DEF Standing
<1>8. SumOf(Unpaid(next)) = SumOf(Unpaid(rows)) - rows[p].unpaid_blocks + n
  <2> DEFINE f == Unpaid(rows)
             g == Unpaid(next)
  <2>1. IsTable(f) /\ DOMAIN f = Names /\ DOMAIN g = Names
    BY <1>6, UnpaidTable
  <2>2. f[p] = rows[p].unpaid_blocks /\ g[p] = n
    BY <1>2, <1>5, <2>1 DEF Unpaid
  <2>3. \A q \in Names \ {p} : g[q] = f[q]
    BY <1>5, <2>1 DEF Unpaid
  <2> HIDE DEF f, g
  <2>4. SumOf(g) = SumOf(f) + BalanceOf(g, p) - BalanceOf(f, p) /\ SumOf(f) \in Int
    BY <2>1, <2>2, <2>3, SumMoves
  <2>5. rows[p].unpaid_blocks \in Nat
    BY DEF ProdsOK, IsProducer
  <2> QED
    BY <2>1, <2>2, <2>4, <2>5 DEF BalanceOf, f, g
<1> QED
  BY <1>6, <1>7, <1>8

\* onblock counts a block at the producer and in the global row.
LEMMA CountBlockOK ==
    ASSUME NEW t, TablesOK(t), NEW producer
    PROVE  /\ Settles(t, CountBlock(t, producer))
           /\ CountBlock(t, producer).pay.perblock_bucket = t.pay.perblock_bucket
<1>1. IsTables(t) /\ ProdsOK(t.prods) /\ PayOK(t.pay) /\ BlocksOK(t.prods, t.pay)
      /\ Covers(t.ledger, t.pay, t.payments) /\ DuesOK(t.payments)
      /\ t.ledger \in [Accounts -> Nat]
  BY DEF TablesOK
<1>2. CASE Registered(t, producer)
  <2>1. producer \in Names
    BY <1>1, <1>2 DEF Registered, ProdsOK
  <2> PICK n, k : n = t.prods[producer].unpaid_blocks /\ k = t.pay.total_unpaid_blocks
    OBVIOUS
  <2>2. n \in Nat /\ k \in Nat
    BY <1>1, <2>1 DEF ProdsOK, IsProducer, PayOK
  <2> PICK rows : rows = WithUnpaid(t.prods, producer, n + 1)
    OBVIOUS
  <2> PICK g : g = [t.pay EXCEPT !.total_unpaid_blocks = k + 1]
    OBVIOUS
  <2>3. CountBlock(t, producer) = Settled(t, rows, g, t.payments, t.ledger)
    BY <1>1, <1>2, <2>1 DEF CountBlock, Settled, WithUnpaid, ProdsOK, PayOK, IsTables, TableFields
  <2>4. PayOK(g) /\ g.total_unpaid_blocks = k + 1 /\ g.perblock_bucket = t.pay.perblock_bucket
    BY <1>1, <2>2 DEF PayOK, PayFields
  <2>5. ProdsOK(rows) /\ Standing(t.prods, rows) /\ SumOf(Unpaid(rows)) = SumOf(Unpaid(t.prods)) + 1
    <3>1. SumOf(Unpaid(t.prods)) \in Nat
      BY <1>1, UnpaidTable
    <3>2. /\ ProdsOK(rows) /\ Standing(t.prods, rows)
          /\ SumOf(Unpaid(rows)) = SumOf(Unpaid(t.prods)) - n + (n + 1)
      BY <1>1, <2>1, <2>2, UnpaidMoves
    <3> QED
      BY <2>2, <3>1, <3>2
  <2>6. BlocksOK(rows, g)
    BY <1>1, <2>4, <2>5 DEF BlocksOK
  <2>7. Covers(t.ledger, g, t.payments)
    BY <1>1, <2>4 DEF Covers
  <2>8. /\ Settles(t, Settled(t, rows, g, t.payments, t.ledger))
        /\ Settled(t, rows, g, t.payments, t.ledger).pay = g
    BY <1>1, <2>4, <2>5, <2>6, <2>7, SettledOK
  <2> QED
    BY <2>3, <2>4, <2>8
<1>3. CASE ~Registered(t, producer)
  BY <1>3, SettlesSelf DEF CountBlock
<1> QED
  BY <1>2, <1>3

\* A product of natural numbers.
LEMMA NatProduct ==
    ASSUME NEW a \in Nat, NEW b \in Nat
    PROVE  a * b \in Nat
OBVIOUS

\* What is due since the last time goes to the bucket and to eosio.bpay alike.
LEMMA InflationOK ==
    ASSUME NEW t, TablesOK(t)
    PROVE  /\ Settles(t, Inflation(t)) /\ Inflation(t).prods = t.prods
           /\ Inflation(t).pay.perblock_bucket >= t.pay.perblock_bucket
<1> DEFINE due == t.now - t.pay.last_pervote_bucket_fill > 0 /\ t.pay.last_pervote_bucket_fill > 0
<1>1. IsTables(t) /\ ProdsOK(t.prods) /\ PayOK(t.pay) /\ BlocksOK(t.prods, t.pay)
      /\ Covers(t.ledger, t.pay, t.payments) /\ DuesOK(t.payments)
      /\ t.ledger \in [Accounts -> Nat] /\ t.now \in Nat
  BY DEF TablesOK
<1>2. CASE due
  <2>elapsed. PICK elapsed, a, b : /\ elapsed = t.now - t.pay.last_pervote_bucket_fill
                           /\ a = t.pay.bpay_rate * elapsed /\ b = t.pay.worker_amount * elapsed
    OBVIOUS
  <2>1. a \in Nat /\ b \in Nat
    <3> PICK x, y : x = t.pay.bpay_rate /\ y = t.pay.worker_amount
      OBVIOUS
    <3>1. elapsed \in Nat /\ x \in Nat /\ y \in Nat
      BY <1>1, <1>2, <2>elapsed DEF PayOK
    <3>2. a = x * elapsed /\ b = y * elapsed
      BY <2>elapsed
    <3> QED
      BY <3>1, <3>2, NatProduct
  <2>offset. PICK offset : offset = Min({t.ledger.tedp, a + b})
    OBVIOUS
  <2>2. /\ t.ledger.tedp \in Nat /\ t.ledger.bpay \in Nat /\ t.ledger.works \in Nat
        /\ t.ledger.owners \in Nat
    BY <1>1 DEF Accounts
  <2>3. offset \in Nat /\ offset <= t.ledger.tedp
    <3> PICK x, y : x = t.ledger.tedp /\ y = a + b
      OBVIOUS
    <3>1. x \in Nat /\ y \in Nat
      BY <2>1, <2>2
    <3>2. Min({x, y}) = IF x <= y THEN x ELSE y
      BY <3>1, LesserOfTwo
    <3>3. offset = Min({x, y})
      BY <2>offset
    <3> QED
      BY <3>1, <3>2, <3>3
  <2> DEFINE money == [t.ledger EXCEPT !.tedp = @ - offset, !.works = @ + b, !.bpay = @ + a]
             g == [t.pay EXCEPT !.perblock_bucket = @ + a, !.last_pervote_bucket_fill = t.now]
  <2>4. Inflation(t) = [t EXCEPT !.ledger = money, !.pay = g]
    BY <1>2, <2>elapsed, <2>offset DEF Inflation
  <2> HIDE DEF due
  <2>5. Inflation(t) = Settled(t, t.prods, g, t.payments, money)
    <3> HIDE DEF money, g
    <3> QED
      BY <1>1, <2>4 DEF Settled, IsTables, TableFields
  <2>6. money = [x \in Accounts |-> money[x]] /\ money.tedp = t.ledger.tedp - offset
        /\ money.bpay = t.ledger.bpay + a /\ money.works = t.ledger.works + b
        /\ money.owners = t.ledger.owners
    BY <1>1 DEF Accounts
  <2>7. money \in [Accounts -> Nat]
    <3>1. money.tedp \in Nat /\ money.bpay \in Nat /\ money.works \in Nat /\ money.owners \in Nat
      BY <2>1, <2>2, <2>3, <2>6
    <3> QED
      BY <2>6, <3>1 DEF Accounts
  <2>8. /\ g = [x \in PayFields |-> g[x]] /\ g.perblock_bucket = t.pay.perblock_bucket + a
        /\ g.last_pervote_bucket_fill = t.now /\ g.bpay_rate = t.pay.bpay_rate
        /\ g.worker_amount = t.pay.worker_amount
        /\ g.total_unpaid_blocks = t.pay.total_unpaid_blocks
    BY <1>1 DEF PayOK, PayFields
  <2> HIDE DEF money, g
  <2>9. PayOK(g) /\ g.perblock_bucket >= t.pay.perblock_bucket
    BY <1>1, <2>1, <2>8 DEF PayOK
  <2>10. BlocksOK(t.prods, g)
    BY <1>1, <2>8 DEF BlocksOK
  <2>11. Covers(money, g, t.payments)
    <3>1. SumOf(t.payments) \in Int /\ t.pay.perblock_bucket \in Int
      BY <1>1, BalanceInt DEF DuesOK, PayOK
    <3> QED
      BY <1>1, <2>1, <2>6, <2>8, <3>1 DEF Covers
  <2>12. Standing(t.prods, t.prods)
    BY DEF Standing
  <2>13. /\ Settles(t, Settled(t, t.prods, g, t.payments, money))
         /\ Settled(t, t.prods, g, t.payments, money).prods = t.prods
         /\ Settled(t, t.prods, g, t.payments, money).pay = g
    BY <1>1, <2>7, <2>9, <2>10, <2>11, <2>12, SettledOK
  <2> QED
    BY <2>5, <2>9, <2>13
<1>3. CASE ~due
  <2>1. Inflation(t) = t
    BY <1>3 DEF Inflation
  <2>2. t.pay.perblock_bucket >= t.pay.perblock_bucket
    BY <1>1 DEF PayOK
  <2> QED
    BY <2>1, <2>2, SettlesSelf
<1> QED
  BY <1>2, <1>3

\* A payment comes out of the bucket and pays off the blocks.
LEMMA PayProducerOK ==
    ASSUME NEW t, TablesOK(t), NEW p \in Names, NEW amount \in Int
    PROVE  /\ Settles(t, PayProducer(t, p, amount))
           /\ PayProducer(t, p, amount).pay.perblock_bucket = t.pay.perblock_bucket - amount
<1>1. IsTables(t) /\ ProdsOK(t.prods) /\ PayOK(t.pay) /\ BlocksOK(t.prods, t.pay)
      /\ Covers(t.ledger, t.pay, t.payments) /\ DuesOK(t.payments)
      /\ t.ledger \in [Accounts -> Nat]
  BY DEF TablesOK
<1> PICK n, k, m : n = t.prods[p].unpaid_blocks /\ k = t.pay.total_unpaid_blocks
                   /\ m = t.pay.perblock_bucket
  OBVIOUS
<1>2. n \in Nat /\ k \in Nat /\ m \in Int
  BY <1>1 DEF ProdsOK, IsProducer, PayOK
<1> PICK rows : rows = WithUnpaid(t.prods, p, 0)
  OBVIOUS
<1> PICK dues : dues = Add(t.payments, p, amount)
  OBVIOUS
<1> PICK g : g = [t.pay EXCEPT !.perblock_bucket = m - amount, !.total_unpaid_blocks = k - n]
  OBVIOUS
<1>3. PayProducer(t, p, amount) = Settled(t, rows, g, dues, t.ledger)
  BY <1>1, ZenonT(30) DEF PayProducer, Settled, WithUnpaid, ProdsOK, PayOK, IsTables, TableFields
<1>4. ProdsOK(rows) /\ Standing(t.prods, rows) /\ SumOf(Unpaid(rows)) = k - n
      /\ SumOf(Unpaid(rows)) \in Nat
  <2>1. /\ ProdsOK(rows) /\ Standing(t.prods, rows)
        /\ SumOf(Unpaid(rows)) = SumOf(Unpaid(t.prods)) - n + 0
    BY <1>1, UnpaidMoves
  <2>2. SumOf(Unpaid(rows)) \in Nat /\ SumOf(Unpaid(t.prods)) = k
    BY <1>1, <2>1, UnpaidTable DEF BlocksOK
  <2> QED
    BY <1>2, <2>1, <2>2
<1>5. /\ g = [x \in PayFields |-> g[x]] /\ g.perblock_bucket = m - amount
      /\ g.last_pervote_bucket_fill = t.pay.last_pervote_bucket_fill
      /\ g.bpay_rate = t.pay.bpay_rate
      /\ g.worker_amount = t.pay.worker_amount
      /\ g.total_unpaid_blocks = k - n
  BY <1>1 DEF PayOK, PayFields
<1>6. PayOK(g) /\ BlocksOK(rows, g)
  <2>1. k - n \in Nat /\ m - amount \in Int
    BY <1>2, <1>4
  <2> QED
    BY <1>1, <1>4, <1>5, <2>1 DEF PayOK, BlocksOK
<1>7. DuesOK(dues) /\ SumOf(dues) = SumOf(t.payments) + amount
  <2>1. Credited(t.payments, dues, p, amount)
    BY <1>1, AddHeld DEF DuesOK
  <2> QED
    BY <1>1, <2>1 DEF Credited, DuesOK
<1>8. Covers(t.ledger, g, dues)
  <2>1. SumOf(t.payments) \in Int
    BY <1>1, BalanceInt DEF DuesOK
  <2>2. t.ledger.bpay = m + SumOf(t.payments)
    BY <1>1 DEF Covers
  <2> QED
    BY <1>2, <1>5, <1>7, <2>1, <2>2 DEF Covers
<1>9. /\ Settles(t, Settled(t, rows, g, dues, t.ledger))
      /\ Settled(t, rows, g, dues, t.ledger).pay = g
  BY <1>1, <1>4, <1>6, <1>7, <1>8, SettledOK
<1> QED
  BY <1>3, <1>5, <1>9

\* The shares of the first n producers.
Weight(n) == IF n <= TOP_PRODUCERS THEN n * 2 ELSE 2 * TOP_PRODUCERS + (n - TOP_PRODUCERS)

\* Each producer adds its shares.
LEMMA WeightGrows ==
    ASSUME NEW n \in Nat
    PROVE  /\ Weight(n) \in Nat /\ Weight(0) = 0
           /\ n # 0 => Weight(n) = Weight(n - 1) + (IF n <= TOP_PRODUCERS THEN 2 ELSE 1)
BY ProducersAssumption DEF Weight

Actives(rows) == {p \in Names : rows[p].is_active}

\* With votes for everyone the shares are those of all who are paid.
LEMMA SharesAre ==
    ASSUME NEW t, TablesOK(t)
    PROVE  /\ shares(t) \in Nat
           /\ 0 \notin Votes =>
                shares(t) = Weight(Lesser(MAX_PRODUCERS, Cardinality(Actives(t.prods))))
<1> DEFINE A == Actives(t.prods)
           V == ByVotes(t, Names)
           l == Leading(V, A, MAX_PRODUCERS)
<1>1. ProdsOK(t.prods) /\ DOMAIN t.prods = Names
  BY DEF TablesOK, ProdsOK
<1>2. shares(t) = Weight(Len(l))
  BY <1>1 DEF shares, Weight, Actives
<1>3. Lists(V, Names, VotePairs(t, Names))
      /\ ComesFirst(Electable(t.prods), Names, VotePairs(t, Names))
  BY <1>1, ElectableFirst
<1>4. MAX_PRODUCERS \in Nat /\ IsFiniteSet(Names) /\ A \in SUBSET Names
  BY ProducersAssumption, OnblockAssumption DEF Actives
<1>5. Leads(l, V, A, MAX_PRODUCERS)
  <2>1. V \in Seq(Names)
    BY <1>3 DEF Lists
  <2> HIDE DEF V, A
  <2> QED
    BY <1>4, <2>1, LeadingLeads
<1>6. 0 \notin Votes => A = Electable(t.prods)
  <2>1. \A p \in Names : t.prods[p].total_votes \in Votes
    BY <1>1 DEF ProdsOK, IsProducer
  <2>2. ASSUME 0 \notin Votes, NEW p \in Names PROVE t.prods[p].total_votes > 0
    <3>1. t.prods[p].total_votes \in Nat /\ t.prods[p].total_votes # 0
      BY <2>1, <2>2, OnblockAssumption
    <3> QED
      BY <3>1
  <2> QED
    BY <2>2 DEF Actives, Electable
<1>7. 0 \notin Votes => Len(l) = Lesser(MAX_PRODUCERS, Cardinality(A))
  <2> HIDE DEF V, A
  <2> SUFFICES ASSUME 0 \notin Votes PROVE Len(l) = Lesser(MAX_PRODUCERS, Cardinality(A))
    OBVIOUS
  <2>1. ComesFirst(A, Names, VotePairs(t, Names))
    BY <1>3, <1>6
  <2>2. IsFirst(l, V, A, MAX_PRODUCERS)
    BY <1>3, <1>4, <2>1, LeadingFirst
  <2> QED
    BY <2>2 DEF IsFirst
<1> HIDE DEF l, A, V
<1>8. Len(l) \in Nat
  BY <1>5 DEF Leads
<1> QED
  BY <1>2, <1>7, <1>8, WeightGrows DEF A

\* The loop over the producers that are paid, as a function of the round.
RoundStep(start, s, q, g, i) ==
    IF i = 0 THEN start
    ELSE PayProducer(g[i - 1], s[i], IF i <= TOP_PRODUCERS THEN 2 * q ELSE q)
AreRounds(start, s, q, g, n) == g = [i \in 0..n |-> RoundStep(start, s, q, g, i)]
Rounds(start, s, q, n) == CHOOSE g : g = [i \in 0..n |-> RoundStep(start, s, q, g, i)]

\* There is such a function: for n + 1 rounds it adds one to that for n.
LEMMA RoundsExist ==
    ASSUME NEW start, NEW s, NEW q, NEW n \in Nat
    PROVE  AreRounds(start, s, q, Rounds(start, s, q, n), n)
<1> DEFINE Ok(k) == \E g : AreRounds(start, s, q, g, k)
           Bad == {k \in Nat : ~Ok(k)}
<1>1. Ok(0)
  <2> DEFINE g == [i \in 0..0 |-> start]
  <2>1. g = [i \in 0..0 |-> RoundStep(start, s, q, g, i)]
    BY DEF RoundStep
  <2> QED
    BY <2>1 DEF AreRounds
<1>2. ASSUME NEW k \in Nat, Ok(k) PROVE Ok(k + 1)
  <2>1. PICK g : g = [i \in 0..k |-> RoundStep(start, s, q, g, i)]
    BY <1>2 DEF AreRounds
  <2> DEFINE h == [i \in 0..(k + 1) |-> RoundStep(start, s, q, g, i)]
  <2>2. \A i \in 0..k : h[i] = g[i]
    BY <2>1
  <2>3. \A i \in 0..(k + 1) : RoundStep(start, s, q, g, i) = RoundStep(start, s, q, h, i)
    <3> SUFFICES ASSUME NEW i \in 0..(k + 1)
                 PROVE  RoundStep(start, s, q, g, i) = RoundStep(start, s, q, h, i)
      OBVIOUS
    <3>1. i # 0 => i - 1 \in 0..k
      OBVIOUS
    <3>2. i # 0 => h[i - 1] = g[i - 1]
      BY <2>2, <3>1
    <3> HIDE DEF h
    <3> QED
      BY <3>2 DEF RoundStep
  <2>4. h = [i \in 0..(k + 1) |-> RoundStep(start, s, q, h, i)]
    BY <2>3
  <2> HIDE DEF h
  <2> QED
    BY <2>4 DEF AreRounds
<1>3. Bad = {}
  <2> SUFFICES ASSUME Bad # {} PROVE FALSE
    OBVIOUS
  <2>1. PICK k \in Bad : \A j \in Bad : k <= j
    BY LeastNumber
  <2>2. k \in Nat /\ k # 0 /\ ~Ok(k)
    BY <1>1, <2>1
  <2>3. k - 1 \in Nat /\ k - 1 \notin Bad /\ (k - 1) + 1 = k
    BY <2>1, <2>2
  <2>4. Ok(k - 1)
    BY <2>3
  <2> HIDE DEF Ok
  <2> QED
    BY <1>2, <2>2, <2>3, <2>4
<1>4. \E g : g = [i \in 0..n |-> RoundStep(start, s, q, g, i)]
  BY <1>3 DEF AreRounds
<1> QED
  BY <1>4, Zenon DEF AreRounds, Rounds

\* What the rounds take out of the bucket is what the shares add up to.
RoundPays(start, q, n, u) ==
    /\ Settles(start, u)
    /\ u.pay.perblock_bucket = start.pay.perblock_bucket - q * Weight(n)

\* The next round takes one or two shares more.
LEMMA NextRound ==
    ASSUME NEW start, TablesOK(start), NEW q \in Int, NEW n \in Nat, n # 0, NEW p \in Names,
           NEW u, RoundPays(start, q, n - 1, u)
    PROVE  RoundPays(start, q, n, PayProducer(u, p, IF n <= TOP_PRODUCERS THEN 2 * q ELSE q))
<1> DEFINE amount == IF n <= TOP_PRODUCERS THEN 2 * q ELSE q
           v == PayProducer(u, p, amount)
<1>1. TablesOK(u) /\ amount \in Int
  BY DEF RoundPays, Settles
<1>2. Weight(n - 1) \in Nat /\ Weight(n) = Weight(n - 1) + (IF n <= TOP_PRODUCERS THEN 2 ELSE 1)
  BY WeightGrows
<1>3. q * Weight(n) = q * Weight(n - 1) + amount
  <2> PICK w : w = Weight(n - 1)
    OBVIOUS
  <2>1. w \in Nat /\ Weight(n) = IF n <= TOP_PRODUCERS THEN w + 2 ELSE w + 1
    BY <1>2
  <2>2. q * (w + 2) = q * w + 2 * q /\ q * (w + 1) = q * w + q
    BY <2>1
  <2> QED
    BY <2>1, <2>2
<1> HIDE DEF amount
<1>4. Settles(u, v) /\ v.pay.perblock_bucket = u.pay.perblock_bucket - amount
  BY <1>1, PayProducerOK
<1> HIDE DEF v
<1>5. Settles(start, v)
  BY <1>4, SettlesTwice DEF RoundPays
<1>6. v.pay.perblock_bucket = start.pay.perblock_bucket - q * Weight(n)
  <2> PICK a, x, y : a = start.pay.perblock_bucket /\ x = q * Weight(n - 1) /\ y = q * Weight(n)
    OBVIOUS
  <2>1. a \in Int /\ x \in Int /\ y = x + amount
    BY <1>2, <1>3 DEF TablesOK, PayOK
  <2>2. v.pay.perblock_bucket = (a - x) - amount
    BY <1>4 DEF RoundPays
  <2> QED
    BY <1>1, <2>1, <2>2
<1> QED
  BY <1>5, <1>6 DEF RoundPays, v, amount

\* All rounds together.
LEMMA RoundsOK ==
    ASSUME NEW start, TablesOK(start), NEW n \in Nat, NEW q \in Int,
           NEW s, \A i \in 1..n : s[i] \in Names
    PROVE  RoundPays(start, q, n, Rounds(start, s, q, n)[n])
<1> PICK g : g = Rounds(start, s, q, n)
  OBVIOUS
<1> DEFINE Bad == {i \in 0..n : ~RoundPays(start, q, i, g[i])}
<1>1. \A i \in 0..n : g[i] = RoundStep(start, s, q, g, i)
  <2>1. AreRounds(start, s, q, g, n)
    BY RoundsExist
  <2> QED
    BY <2>1 DEF AreRounds
<1>2. 0 \notin Bad
  <2>1. g[0] = start
    BY <1>1 DEF RoundStep
  <2>2. start.pay.perblock_bucket = start.pay.perblock_bucket - q * 0
    BY DEF TablesOK, PayOK
  <2> QED
    BY <2>1, <2>2, SettlesSelf, WeightGrows DEF RoundPays
<1>3. ASSUME NEW i \in 1..n, RoundPays(start, q, i - 1, g[i - 1]) PROVE RoundPays(start, q, i, g[i])
  <2>1. g[i] = PayProducer(g[i - 1], s[i], IF i <= TOP_PRODUCERS THEN 2 * q ELSE q)
    BY <1>1 DEF RoundStep
  <2>2. s[i] \in Names /\ i \in Nat /\ i # 0
    OBVIOUS
  <2> QED
    BY <1>3, <2>1, <2>2, NextRound
<1>4. Bad = {}
  <2> SUFFICES ASSUME Bad # {} PROVE FALSE
    OBVIOUS
  <2>1. PICK k \in Bad : \A j \in Bad : k <= j
    <3>1. Bad \in SUBSET Nat
      OBVIOUS
    <3> HIDE DEF Bad
    <3> QED
      BY <3>1, LeastNumber
  <2>2. k \in 1..n /\ k - 1 \in 0..n
    BY <1>2, <2>1
  <2>3. k - 1 \notin Bad
    BY <2>1, <2>2
  <2>4. RoundPays(start, q, k - 1, g[k - 1]) /\ ~RoundPays(start, q, k, g[k])
    BY <2>1, <2>2, <2>3
  <2> QED
    BY <1>3, <2>2, <2>4
<1>5. n \in 0..n
  OBVIOUS
<1> QED
  BY <1>4, <1>5

\* The quotient times the divisor does not exceed what is divided.
LEMMA QuotientOK ==
    ASSUME NEW a \in Int, NEW b \in Nat \ {0}
    PROVE  Quotient(a, b) \in Int /\ (a >= 0 => b * Quotient(a, b) <= a)
<1>1. CASE a >= 0
  BY <1>1, WholePart DEF Quotient
<1>2. CASE ~(a >= 0)
  <2>1. -a \in Nat
    BY <1>2
  <2>2. (-a) \div b \in Nat
    BY <2>1, WholePart
  <2> PICK k : k = (-a) \div b
    OBVIOUS
  <2>3. Quotient(a, b) = -k
    BY <1>2 DEF Quotient
  <2> QED
    BY <1>2, <2>2, <2>3
<1> QED
  BY <1>1, <1>2

\* With votes for everyone the bucket does not go below zero.
Solvent(t, u) ==
    0 \notin Votes /\ t.pay.perblock_bucket >= 0 => u.pay.perblock_bucket >= 0

\* A snapshot that pays.
LEMMA ClaimPays ==
    ASSUME NEW t, TablesOK(t), shares(t) > 0, t.pay.total_unpaid_blocks > 0
    PROVE  Settles(t, claimrewards_snapshot(t)) /\ Solvent(t, claimrewards_snapshot(t))
<1> DEFINE filled == Inflation(t)
           actives == {p \in DOMAIN t.prods : t.prods[p].is_active}
           V == ByVotes(t, actives)
           q == Quotient(filled.pay.perblock_bucket, shares(t))
           n == Min({MAX_PRODUCERS, Cardinality(actives)})
           u == Rounds(filled, V, q, n)[n]
<1>1. claimrewards_snapshot(t) = u
  <2>1. t.pay.total_unpaid_blocks # 0 /\ shares(t) # 0
    OBVIOUS
  <2> QED
    BY <2>1, Zenon DEF claimrewards_snapshot, Rounds, RoundStep
<1>2. ProdsOK(t.prods) /\ DOMAIN t.prods = Names
  BY DEF TablesOK, ProdsOK
<1>3. actives = Actives(t.prods)
  BY <1>2 DEF Actives
<1>4. Settles(t, filled) /\ filled.pay.perblock_bucket >= t.pay.perblock_bucket
  BY InflationOK
<1>5. TablesOK(filled) /\ filled.pay.perblock_bucket \in Int
  BY <1>4 DEF Settles, TablesOK, PayOK
<1>6. shares(t) \in Nat \ {0}
  <2>1. shares(t) \in Nat
    BY SharesAre
  <2> QED
    BY <2>1
<1>7. q \in Int /\ (filled.pay.perblock_bucket >= 0 => shares(t) * q <= filled.pay.perblock_bucket)
  BY <1>5, <1>6, QuotientOK
<1>8. Lists(V, actives, VotePairs(t, actives)) /\ Cardinality(actives) \in Nat
  <2>1. actives \in SUBSET Nat /\ IsFiniteSet(actives)
    <3>1. actives \in SUBSET Names
      BY <1>2
    <3> HIDE DEF actives
    <3> QED
      BY <3>1, OnblockAssumption, FS_Subset
  <2>2. \A p \in actives : by_votes(t.prods[p]) \in Int
    <3>1. \A p \in Names : t.prods[p].total_votes \in Nat
      BY <1>2, OnblockAssumption DEF ProdsOK, IsProducer
    <3> QED
      BY <1>2, <3>1 DEF by_votes
  <2> HIDE DEF actives
  <2> QED
    BY <2>1, <2>2, ByVotesLists, FS_CardinalityType
<1>9. n = Lesser(MAX_PRODUCERS, Cardinality(actives)) /\ n \in Nat
      /\ n <= Cardinality(actives)
  <2> PICK k : k = Cardinality(actives)
    OBVIOUS
  <2>1. k \in Nat /\ MAX_PRODUCERS \in Nat
    BY <1>8, ProducersAssumption
  <2> HIDE DEF actives
  <2> QED
    BY <2>1, LesserOfTwo DEF Lesser
<1>10. \A i \in 1..n : V[i] \in Names
  <2>1. actives \subseteq Names
    BY <1>2
  <2> HIDE DEF actives, V, n
  <2> QED
    BY <1>8, <1>9, <2>1 DEF Lists
<1> HIDE DEF filled, V, q, n
<1>11. RoundPays(filled, q, n, u)
  BY <1>5, <1>7, <1>9, <1>10, RoundsOK
<1> HIDE DEF u
<1>12. Settles(t, u)
  BY <1>4, <1>11, SettlesTwice DEF RoundPays
<1>13. Solvent(t, u)
  <2> SUFFICES ASSUME 0 \notin Votes, t.pay.perblock_bucket >= 0
               PROVE  u.pay.perblock_bucket >= 0
    BY DEF Solvent
  <2>1. shares(t) = Weight(n)
    BY <1>3, <1>9, SharesAre
  <2> PICK b, w : b = filled.pay.perblock_bucket /\ w = shares(t)
    OBVIOUS
  <2>2. b \in Int /\ b >= 0
    <3>1. t.pay.perblock_bucket \in Int
      BY DEF TablesOK, PayOK
    <3> QED
      BY <1>4, <1>5, <3>1
  <2>3. u.pay.perblock_bucket = b - q * w
    BY <1>11, <2>1 DEF RoundPays
  <2>4. w * q <= b /\ w \in Nat
    BY <1>6, <1>7, <2>2
  <2>5. w * q = q * w /\ q * w \in Int
    BY <1>7, <2>4
  <2> QED
    BY <2>2, <2>3, <2>4, <2>5
<1> QED
  BY <1>1, <1>12, <1>13

\* A row of pay with the same bucket and the same count of blocks.
PayRow(t, g) == [t EXCEPT !.pay = g]

\* The accounts still match.
LEMMA PayRowOK ==
    ASSUME NEW t, TablesOK(t), NEW g, PayOK(g), g.perblock_bucket = t.pay.perblock_bucket,
           g.total_unpaid_blocks = t.pay.total_unpaid_blocks
    PROVE  Settles(t, PayRow(t, g)) /\ PayRow(t, g).pay = g
<1>1. IsTables(t) /\ ProdsOK(t.prods) /\ DuesOK(t.payments) /\ t.ledger \in [Accounts -> Nat]
  BY DEF TablesOK
<1>2. BlocksOK(t.prods, g) /\ Covers(t.ledger, g, t.payments)
  BY DEF TablesOK, BlocksOK, Covers
<1>3. Standing(t.prods, t.prods)
  BY DEF Standing
<1>4. PayRow(t, g) = Settled(t, t.prods, g, t.payments, t.ledger)
  BY <1>1 DEF PayRow, Settled, IsTables, TableFields
<1>5. /\ Settles(t, Settled(t, t.prods, g, t.payments, t.ledger))
      /\ Settled(t, t.prods, g, t.payments, t.ledger).pay = g
  BY <1>1, <1>2, <1>3, SettledOK
<1> QED
  BY <1>4, <1>5

\* The time of a snapshot.
LEMMA ClaimTimeOK ==
    ASSUME NEW t, TablesOK(t), NEW time
    PROVE  /\ Settles(t, [t EXCEPT !.pay.last_claimrewards = time])
           /\ [t EXCEPT !.pay.last_claimrewards = time].pay.perblock_bucket
                = t.pay.perblock_bucket
<1> DEFINE g == [t.pay EXCEPT !.last_claimrewards = time]
<1>1. PayOK(t.pay) /\ IsTables(t)
  BY DEF TablesOK
<1>2. /\ PayOK(g) /\ g.perblock_bucket = t.pay.perblock_bucket
      /\ g.total_unpaid_blocks = t.pay.total_unpaid_blocks
  BY <1>1 DEF PayOK, PayFields
<1>3. [t EXCEPT !.pay.last_claimrewards = time] = PayRow(t, g)
  BY <1>1 DEF PayRow, IsTables, TableFields
<1> HIDE DEF g
<1>4. Settles(t, PayRow(t, g)) /\ PayRow(t, g).pay = g
  BY <1>2, PayRowOK
<1> QED
  BY <1>2, <1>3, <1>4

\* A snapshot, when its time has come.
LEMMA SnapshotOK ==
    ASSUME NEW t, TablesOK(t), NEW timestamp
    PROVE  Settles(t, Snapshot(t, timestamp)) /\ Solvent(t, Snapshot(t, timestamp))
<1> PICK u : u = claimrewards_snapshot(t)
  OBVIOUS
<1>1. Settles(t, u) /\ Solvent(t, u)
  <2>1. t.pay.total_unpaid_blocks \in Nat /\ shares(t) \in Nat
    BY SharesAre DEF TablesOK, PayOK
  <2>2. CASE t.pay.total_unpaid_blocks = 0
    <3>1. u = t
      BY <2>2 DEF claimrewards_snapshot
    <3> QED
      BY <3>1, SettlesSelf DEF Solvent
  <2>3. CASE t.pay.total_unpaid_blocks > 0 /\ shares(t) = 0
    <3>1. u = Check(t, FALSE)
      <4>1. t.pay.total_unpaid_blocks # 0 /\ ~(shares(t) > 0)
        BY <2>1, <2>3
      <4>2. claimrewards_snapshot(t) = Check(t, FALSE)
        BY <2>3, <4>1, Zenon DEF claimrewards_snapshot
      <4> QED
        BY <4>2
    <3>2. u.pay = t.pay
      BY <3>1 DEF Check, TablesOK, IsTables, TableFields
    <3> QED
      BY <3>1, <3>2, SettlesSelf DEF Solvent
  <2>4. CASE t.pay.total_unpaid_blocks > 0 /\ shares(t) > 0
    BY <2>4, ClaimPays
  <2> QED
    BY <2>1, <2>2, <2>3, <2>4
<1> PICK v : v = [u EXCEPT !.pay.last_claimrewards = timestamp]
  OBVIOUS
<1>2. Settles(u, v) /\ v.pay.perblock_bucket = u.pay.perblock_bucket
  <2>1. TablesOK(u)
    BY <1>1 DEF Settles
  <2> QED
    BY <2>1, ClaimTimeOK
<1>3. Settles(t, v) /\ Solvent(t, v)
  BY <1>1, <1>2, SettlesTwice DEF Solvent
<1>4. Snapshot(t, timestamp) = v \/ Snapshot(t, timestamp) = t
  BY DEF Snapshot
<1> QED
  BY <1>3, <1>4, SettlesSelf DEF Solvent

-----------------------------------------------------------------------------
(* onblock                                                                 *)

\* A step that proposes nothing, and leaves pay alone.
Keeps(t, u) ==
    /\ TablesOK(u) /\ u.ok = t.ok
    /\ u.now = t.now /\ u.active = t.active /\ u.pending = t.pending /\ u.proposed = t.proposed
    /\ u.pay = t.pay

\* A step after which what has been proposed has the most votes, and nobody is
\* paid more than there is.
Proposes(t, u) ==
    /\ TablesOK(u) /\ (u.ok => t.ok)
    /\ u.now = t.now /\ u.active = t.active /\ u.pending = t.pending
    /\ u.proposed = t.proposed \/ (u.ok => MostVoted(Members(u.proposed), u.prods))
    /\ Solvent(t, u)

\* Such a step that leaves the votes and who is active.
Continues(t, u) == Proposes(t, u) /\ Standing(t.prods, u.prods)

\* Two such steps are one.
LEMMA KeepsTwice ==
    ASSUME NEW t, NEW u, NEW v, Keeps(t, u), Keeps(u, v)
    PROVE  Keeps(t, v)
BY DEF Keeps

\* Such a step proposes nothing.
LEMMA KeepsProposes ==
    ASSUME NEW t, NEW u, Keeps(t, u)
    PROVE  Proposes(t, u)
BY DEF Keeps, Proposes, Solvent

\* Writing schedulemetr is such a step.
LEMMA MetricsKeep ==
    ASSUME NEW t, TablesOK(t), NEW u, MetricsOnly(t, u)
    PROVE  Keeps(t, u) /\ u.prods = t.prods
<1>1. TablesOK(u)
  BY MetricsOnlyOK
<1>2. IsTables(t) /\ u = [t EXCEPT !.metrics = u.metrics]
  BY DEF TablesOK, MetricsOnly
<1>3. /\ u.ok = t.ok /\ u.now = t.now /\ u.active = t.active /\ u.pending = t.pending
      /\ u.proposed = t.proposed /\ u.pay = t.pay /\ u.prods = t.prods
  BY <1>2 DEF IsTables, TableFields
<1> QED
  BY <1>1, <1>3 DEF Keeps

\* So are the kicks.
LEMMA ProdsKeep ==
    ASSUME NEW t, TablesOK(t), NEW u, ProdsOnly(t, u)
    PROVE  Keeps(t, u)
<1>1. TablesOK(u)
  BY ProdsOnlyOK
<1>2. IsTables(t) /\ u = [t EXCEPT !.prods = u.prods]
  BY DEF TablesOK, ProdsOnly
<1>3. /\ u.ok = t.ok /\ u.now = t.now /\ u.active = t.active /\ u.pending = t.pending
      /\ u.proposed = t.proposed /\ u.pay = t.pay
  BY <1>2 DEF IsTables, TableFields
<1> QED
  BY <1>1, <1>3 DEF Keeps

\* What comes after a proposal leaves it right.
LEMMA ProposesOn ==
    ASSUME NEW t, NEW u, NEW v, Proposes(t, u), Continues(u, v)
    PROVE  Proposes(t, v)
<1>1. TablesOK(v) /\ (v.ok => t.ok /\ u.ok) /\ v.now = t.now /\ v.active = t.active
      /\ v.pending = t.pending
  BY DEF Proposes, Continues
<1>2. Solvent(t, v)
  BY DEF Proposes, Continues, Solvent
<1>3. MostVoted(Members(u.proposed), u.prods) => MostVoted(Members(u.proposed), v.prods)
  BY MostVotedStands DEF Continues
<1>4. v.proposed = t.proposed \/ (v.ok => MostVoted(Members(v.proposed), v.prods))
  <2>1. CASE v.proposed = u.proposed
    BY <1>1, <1>3, <2>1 DEF Proposes
  <2>2. CASE v.proposed # u.proposed
    BY <2>2 DEF Proposes, Continues
  <2> QED
    BY <2>1, <2>2
<1> QED
  BY <1>1, <1>2, <1>4 DEF Proposes

\* Settling accounts proposes nothing,
LEMMA SettlesContinue ==
    ASSUME NEW t, NEW u, Settles(t, u), Solvent(t, u)
    PROVE  Continues(t, u)
BY DEF Settles, Continues, Proposes

\* and what an election proposes has the most votes.
LEMMA ElectsContinue ==
    ASSUME NEW t, TablesOK(t), NEW u, Elects(t, u)
    PROVE  Continues(t, u)
<1>1. ProdsOK(t.prods) /\ Standing(t.prods, u.prods)
  BY DEF TablesOK, Elects
<1>2. IsElection(u.proposed, t) => MostVoted(Members(u.proposed), u.prods)
  BY <1>1, ElectionMostVoted, MostVotedStands
<1>3. Solvent(t, u)
  BY DEF Elects, Solvent
<1> QED
  BY <1>1, <1>2, <1>3 DEF Elects, Continues, Proposes

\* A block is counted, a cycle ends, or a producer that is out has produced.
LEMMA MissedBlocksPropose ==
    ASSUME NEW t, TablesOK(t), NEW timestamp, NEW producer
    PROVE  Proposes(t, MissedBlocks(t, timestamp, producer))
<1> PICK checked : checked = check_missed_blocks(t, timestamp, producer)
  OBVIOUS
<1>1. CountsOrElects(t, timestamp, checked)
  BY CheckedResult
<1> PICK u : u = checked.t
  OBVIOUS
<1>2. CASE checked.over
  <2>1. MetricsOnly(t, u)
    BY <1>1, <1>2 DEF CountsOrElects
  <2>2. Keeps(t, u) /\ TablesOK(u)
    BY <2>1, MetricsKeep DEF Keeps
  <2> PICK v : v = update_missed_blocks_per_rotation(u)
    OBVIOUS
  <2>3. Keeps(u, v) /\ TablesOK(v)
    BY <2>2, RotationChargedOK, ProdsKeep DEF Keeps
  <2>4. Keeps(v, reset_schedule_metrics(v, producer))
    BY <2>3, ResetMarks, MetricsKeep
  <2>5. MissedBlocks(t, timestamp, producer) = reset_schedule_metrics(v, producer)
    BY <1>2 DEF MissedBlocks
  <2> QED
    BY <2>2, <2>3, <2>4, <2>5, KeepsTwice, KeepsProposes
<1>3. CASE ~checked.over
  <2>1. MissedBlocks(t, timestamp, producer) = u
    BY <1>3 DEF MissedBlocks
  <2>2. CASE MetricsOnly(t, u)
    BY <2>1, <2>2, MetricsKeep, KeepsProposes
  <2>3. CASE ~MetricsOnly(t, u)
    <3>1. PICK v : MetricsOnly(t, v) /\ u = update_elected_producers(v, timestamp)
      BY <1>1, <2>3 DEF CountsOrElects
    <3>2. Keeps(t, v) /\ TablesOK(v)
      BY <3>1, MetricsKeep DEF Keeps
    <3>3. Continues(v, u)
      BY <3>1, <3>2, ElectionElects, ElectsContinue
    <3> QED
      BY <2>1, <3>2, <3>3, KeepsProposes, ProposesOn
  <2> QED
    BY <2>2, <2>3
<1> QED
  BY <1>2, <1>3

\* An election, when it is due.
LEMMA ElectionsContinue ==
    ASSUME NEW t, TablesOK(t), NEW timestamp
    PROVE  Continues(t, Elections(t, timestamp))
<1>1. Continues(t, t)
  BY DEF Continues, Proposes, Standing, Solvent
<1>2. Continues(t, update_elected_producers(t, timestamp))
  BY ElectionElects, ElectsContinue
<1> QED
  BY <1>1, <1>2 DEF Elections

\* The blocks before the network is activated.
LEMMA ActivationOK ==
    ASSUME NEW t, TablesOK(t), NEW timestamp
    PROVE  Proposes(t, Activation(t, timestamp))
<1> DEFINE number == Min({t.pay.block_num + 1, block_num_network_activation})
           g == [t.pay EXCEPT !.block_num = number]
           h == [g EXCEPT !.activated = TRUE, !.last_claimrewards = timestamp]
           u == PayRow(t, g)
           v == PayRow(t, h)
<1>1. IsTables(t) /\ PayOK(t.pay)
  BY DEF TablesOK
<1> HIDE DEF number
<1>2. /\ PayOK(g) /\ g.perblock_bucket = t.pay.perblock_bucket
      /\ g.total_unpaid_blocks = t.pay.total_unpaid_blocks
  BY <1>1 DEF PayOK, PayFields
<1>3. /\ PayOK(h) /\ h.perblock_bucket = t.pay.perblock_bucket
      /\ h.total_unpaid_blocks = t.pay.total_unpaid_blocks
  <2> HIDE DEF g
  <2> QED
    BY <1>2 DEF PayOK, PayFields
<1>4. Activation(t, timestamp) \in {u, v}
  <2> DEFINE counted == [t EXCEPT !.pay.block_num = Min({@ + 1, block_num_network_activation})]
  <2>1. counted = u
    BY <1>1 DEF PayRow, number, IsTables, TableFields
  <2>2. Activation(t, timestamp)
          \in {counted, [counted EXCEPT !.pay.activated = TRUE, !.pay.last_claimrewards = timestamp]}
    BY DEF Activation
  <2> HIDE DEF counted, g
  <2>3. [u EXCEPT !.pay.activated = TRUE, !.pay.last_claimrewards = timestamp] = v
    BY <1>1 DEF PayRow, IsTables, TableFields
  <2> QED
    BY <2>1, <2>2, <2>3
<1> HIDE DEF g, h
<1>5. Settles(t, u) /\ Settles(t, v) /\ u.pay = g /\ v.pay = h
  BY <1>2, <1>3, PayRowOK
<1> HIDE DEF u, v
<1>6. Solvent(t, u) /\ Solvent(t, v)
  BY <1>2, <1>3, <1>5 DEF Solvent
<1> QED
  BY <1>4, <1>5, <1>6, SettlesContinue DEF Continues

\* The whole of onblock.
LEMMA OnblockProposes ==
    ASSUME NEW t, TablesOK(t), NEW timestamp, NEW producer
    PROVE  Proposes(t, onblock(t, timestamp, producer))
<1> DEFINE last == t.pay.last_pervote_bucket_fill
           time == IF last = 0 THEN t.now ELSE last
           g == [t.pay EXCEPT !.last_pervote_bucket_fill = time]
           filling == PayRow(t, g)
           missed == MissedBlocks(filling, timestamp, producer)
           counted == CountBlock(missed, producer)
           voted == Elections(counted, timestamp)
           paid == Snapshot(voted, timestamp)
<1>1. IsTables(t) /\ PayOK(t.pay) /\ t.now \in Nat
  BY DEF TablesOK
<1>2. onblock(t, timestamp, producer) \in {Activation(t, timestamp), paid}
  <2>1. [t EXCEPT !.pay.last_pervote_bucket_fill = IF @ = 0 THEN t.now ELSE @] = filling
    BY <1>1 DEF PayRow, IsTables, TableFields
  <2> QED
    BY <2>1 DEF onblock
<1>3. /\ PayOK(g) /\ g.perblock_bucket = t.pay.perblock_bucket
      /\ g.total_unpaid_blocks = t.pay.total_unpaid_blocks
  <2>1. time \in Nat
    BY <1>1 DEF PayOK
  <2> HIDE DEF time
  <2> QED
    BY <1>1, <2>1 DEF PayOK, PayFields
<1> HIDE DEF g
<1>4. Proposes(t, filling)
  <2>1. Settles(t, filling) /\ filling.pay = g
    BY <1>3, PayRowOK
  <2> HIDE DEF filling
  <2>2. Solvent(t, filling)
    BY <1>3, <2>1 DEF Solvent
  <2> QED
    BY <2>1, <2>2, SettlesContinue DEF Continues
<1>5. TablesOK(filling) /\ filling.proposed = t.proposed /\ (filling.ok => t.ok)
      /\ filling.now = t.now /\ filling.active = t.active /\ filling.pending = t.pending
      /\ Solvent(t, filling)
  <2>1. Settles(t, filling)
    BY <1>3, PayRowOK
  <2> QED
    BY <1>4, <2>1 DEF Proposes, Settles
<1> HIDE DEF filling
<1>6. Proposes(filling, missed)
  BY <1>5, MissedBlocksPropose
<1> HIDE DEF missed
<1>7. Proposes(t, missed)
  BY <1>5, <1>6 DEF Proposes, Solvent
<1>8. Continues(missed, counted)
  <2>1. /\ Settles(missed, counted)
        /\ counted.pay.perblock_bucket = missed.pay.perblock_bucket
    BY <1>6, CountBlockOK DEF Proposes
  <2>2. Solvent(missed, counted)
    BY <2>1 DEF Solvent
  <2> QED
    BY <2>1, <2>2, SettlesContinue
<1> HIDE DEF counted
<1>9. Continues(counted, voted)
  BY <1>8, ElectionsContinue DEF Continues, Proposes
<1> HIDE DEF voted
<1>10. Continues(voted, paid)
  BY <1>9, SnapshotOK, SettlesContinue DEF Continues, Proposes
<1> HIDE DEF paid
<1>11. Proposes(t, paid)
  BY <1>7, <1>8, <1>9, <1>10, ProposesOn
<1> QED
  BY <1>2, <1>11, ActivationOK

-----------------------------------------------------------------------------
(* The steps of the specification                                          *)

\* The inductive invariant: the tables are sound, in a slot that is a number.
IInv == TablesOK(Now) /\ head.slot \in Nat

\* At another time they are sound too.
LEMMA TablesAnyTime ==
    ASSUME NEW slot \in Nat, IInv
    PROVE  TablesOK(Tables(slot))
BY DEF IInv, Now, Tables, TablesOK, IsTables, TableFields

\* What is written is what the next state has.
LEMMA WrittenOK ==
    ASSUME NEW u, TablesOK(u), Write(u), head'.slot \in Nat
    PROVE  IInv'
<1> PICK n : n = head'.slot
  OBVIOUS
<1>1. Now' = [ok |-> TRUE, now |-> n, prods |-> prods', rotation |-> rotation',
              metrics |-> metrics', elected |-> elected', active |-> chain'.active,
              pending |-> chain'.pending, proposed |-> chain'.proposed, pay |-> pay',
              payments |-> payments', ledger |-> ledger']
  BY DEF Now, Tables
<1>2. /\ prods' = u.prods /\ rotation' = u.rotation /\ metrics' = u.metrics
      /\ elected' = u.elected /\ pay' = u.pay /\ payments' = u.payments
      /\ ledger' = u.ledger /\ chain'.active = u.active /\ chain'.pending = u.pending
      /\ chain'.proposed = u.proposed
  BY DEF Write
<1> PICK t : t = Now'
  OBVIOUS
<1>3. /\ IsTables(t) /\ t.now = n /\ t.prods = u.prods /\ t.rotation = u.rotation
      /\ t.metrics = u.metrics /\ t.elected = u.elected /\ t.active = u.active
      /\ t.pending = u.pending /\ t.proposed = u.proposed /\ t.pay = u.pay
      /\ t.payments = u.payments /\ t.ledger = u.ledger
  BY <1>1, <1>2 DEF IsTables, TableFields
<1>4. TablesOK(t)
  BY <1>3 DEF TablesOK
<1> QED
  BY <1>4 DEF IInv

\* The chain takes up a schedule that was proposed before.
LEMMA PromotionsOK ==
    ASSUME NEW t, TablesOK(t), NEW u \in Promotions(t)
    PROVE  /\ TablesOK(u) /\ u.proposed \in {<<>>, t.proposed} /\ u.prods = t.prods
           /\ u.pay = t.pay
<1>1. IsTables(t) /\ ChainOK(t.active, t.pending, t.proposed)
  BY DEF TablesOK
<1>2. ScheduleOK(<<>>)
  BY EmptySeq, ProducersAssumption DEF ScheduleOK
<1>3. CASE u = t
  BY <1>3
<1>4. CASE u = Taken(t) /\ t.pending # <<>>
  <2>1. /\ IsTables(u) /\ u.now = t.now /\ u.prods = t.prods /\ u.rotation = t.rotation
        /\ u.metrics = t.metrics /\ u.elected = t.elected /\ u.active = t.pending
        /\ u.pending = <<>> /\ u.proposed = t.proposed /\ u.pay = t.pay
        /\ u.payments = t.payments /\ u.ledger = t.ledger
    BY <1>1, <1>4 DEF Taken, IsTables, TableFields
  <2>2. ChainOK(u.active, u.pending, u.proposed)
    BY <1>1, <1>2, <1>4, <2>1 DEF ChainOK
  <2> QED
    BY <2>1, <2>2 DEF TablesOK
<1>5. CASE u = Pended(t) /\ t.pending = <<>>
  <2>1. /\ IsTables(u) /\ u.now = t.now /\ u.prods = t.prods /\ u.rotation = t.rotation
        /\ u.metrics = t.metrics /\ u.elected = t.elected /\ u.active = t.active
        /\ u.pending = t.proposed /\ u.proposed = <<>> /\ u.pay = t.pay
        /\ u.payments = t.payments /\ u.ledger = t.ledger
    BY <1>1, <1>5 DEF Pended, IsTables, TableFields
  <2>2. ChainOK(u.active, u.pending, u.proposed)
    BY <1>1, <1>2, <2>1 DEF ChainOK
  <2> QED
    BY <2>1, <2>2 DEF TablesOK
<1> QED
  BY <1>3, <1>4, <1>5 DEF Promotions

\* What a step keeps: the inductive invariant, and a bucket that holds what it
\* hands out; and what has been proposed has the most votes.
BucketKept == 0 \notin Votes /\ pay.perblock_bucket >= 0 => pay'.perblock_bucket >= 0
MostVotedProposed ==
    chain'.proposed \notin {<<>>, chain.proposed} => MostVoted(Members(chain'.proposed), prods')
StepOK == IInv' /\ BucketKept /\ MostVotedProposed

\* A block.
LEMMA ProduceOK ==
    ASSUME IInv, Produce
    PROVE  StepOK
<1>0. PICK slot \in head.slot + 1 .. Min({head.slot + 1 + MaxSkips - skipped, MaxSlot}) :
        \E t \in Promotions(Tables(slot)) :
          LET u == onblock(t, head.slot, head.producer)
          IN  Write(IF u.ok THEN u ELSE t)
              /\ head' = [slot |-> slot, producer |-> SlotProducer(slot)]
  BY DEF Produce
<1>1. PICK t \in Promotions(Tables(slot)) :
        LET u == onblock(t, head.slot, head.producer)
        IN  Write(IF u.ok THEN u ELSE t)
            /\ head' = [slot |-> slot, producer |-> SlotProducer(slot)]
  BY <1>0
<1> PICK u : u = onblock(t, head.slot, head.producer)
  OBVIOUS
<1> PICK w : w = IF u.ok THEN u ELSE t
  OBVIOUS
<1>2. Write(w) /\ head'.slot = slot
  BY <1>1
<1>3. slot \in Nat
  BY DEF IInv
<1>4. TablesOK(Tables(slot))
  BY <1>3, TablesAnyTime
<1>5. Tables(slot).proposed = chain.proposed /\ Tables(slot).pay = pay
  BY DEF Tables
<1>6. TablesOK(t) /\ t.proposed \in {<<>>, chain.proposed} /\ t.pay = pay
  BY <1>4, <1>5, PromotionsOK
<1>7. Proposes(t, u)
  BY <1>6, OnblockProposes
<1>8. TablesOK(w)
  BY <1>6, <1>7 DEF Proposes
<1>9. IInv'
  BY <1>2, <1>3, <1>8, WrittenOK
<1>10. BucketKept
  BY <1>2, <1>6, <1>7 DEF Write, BucketKept, Proposes, Solvent
<1>11. MostVotedProposed
  <2> SUFFICES ASSUME chain'.proposed \notin {<<>>, chain.proposed}
               PROVE  MostVoted(Members(chain'.proposed), prods')
    BY DEF MostVotedProposed
  <2>1. chain'.proposed = w.proposed /\ prods' = w.prods
    BY <1>2 DEF Write
  <2>2. w = u /\ u.ok /\ u.proposed # t.proposed
    BY <1>6, <2>1
  <2> QED
    BY <1>7, <2>1, <2>2 DEF Proposes
<1> QED
  BY <1>9, <1>10, <1>11 DEF StepOK

\* An action that settles accounts or changes producers, and schedules nothing.
LEMMA CalledOK ==
    ASSUME IInv, Called, NEW u, TablesOK(u), u.proposed = Now.proposed,
           u.pay.perblock_bucket = Now.pay.perblock_bucket, Write(u)
    PROVE  StepOK
<1>1. head' = head
  BY DEF Called
<1>2. IInv'
  BY <1>1, WrittenOK DEF IInv
<1>3. pay' = u.pay /\ chain'.proposed = u.proposed
  BY DEF Write
<1>4. Now.pay = pay /\ Now.proposed = chain.proposed
  BY DEF Now, Tables
<1> QED
  BY <1>2, <1>3, <1>4 DEF StepOK, BucketKept, MostVotedProposed

\* It writes the producers table.
LEMMA ProducersCalledOK ==
    ASSUME IInv, Called, NEW u, ProdsOnly(Now, u), Write(u)
    PROVE  StepOK
<1>1. TablesOK(Now)
  BY DEF IInv
<1>2. Keeps(Now, u)
  BY <1>1, ProdsKeep
<1> QED
  BY <1>2, CalledOK DEF Keeps

\* regproducer. No producer is new: all names have registered.
LEMMA regproducerOK ==
    ASSUME IInv, NEW p \in Names, NEW key \in Keys, regproducer(p, key)
    PROVE  StepOK
<1> DEFINE r == Now.prods[p]
           row == [r EXCEPT !.key = key, !.is_active = TRUE]
           u == Rewritten(Now, p, row)
           late == Now.now > Now.prods[p].last_time_kicked
                               + Now.prods[p].kick_penalty_hours * slots_per_hour
           w == register_producer(Now, p, key)
<1>1. TablesOK(Now) /\ IsTables(Now) /\ ProdsOK(Now.prods) /\ IsProducer(r)
  BY DEF IInv, TablesOK, ProdsOK
<1>2. w = Check([Now EXCEPT !.prods[p].key = key, !.prods[p].is_active = TRUE], late)
  <2>1. Registered(Now, p)
    BY <1>1 DEF Registered, ProdsOK
  <2> QED
    BY <2>1 DEF register_producer
<1>3. [Now EXCEPT !.prods[p].key = key, !.prods[p].is_active = TRUE] = u
  BY <1>1 DEF Rewritten, IsTables, TableFields, ProdsOK
<1>4. late \in BOOLEAN
  OBVIOUS
<1> HIDE DEF late
<1>5. IsProducer(row) /\ row.unpaid_blocks = r.unpaid_blocks
  <2>1. r = [x \in ProducerFields |-> r[x]]
    BY <1>1 DEF IsProducer
  <2> HIDE DEF r
  <2>2. /\ row = [x \in ProducerFields |-> row[x]]
        /\ row.total_votes = r.total_votes /\ row.is_active = TRUE /\ row.key = key
        /\ row.unpaid_blocks = r.unpaid_blocks
        /\ row.missed_blocks_per_rotation = r.missed_blocks_per_rotation
        /\ row.lifetime_missed_blocks = r.lifetime_missed_blocks
        /\ row.times_kicked = r.times_kicked
    BY <2>1 DEF ProducerFields
  <2> HIDE DEF row
  <2> QED
    BY <1>1, <2>2 DEF IsProducer
<1> HIDE DEF row
<1>6. Keeps(Now, u)
  <2>1. row.unpaid_blocks = Now.prods[p].unpaid_blocks
    BY <1>5
  <2>2. ProdsOnly(Now, u)
    BY <1>1, <1>5, <2>1, RowWritten
  <2> HIDE DEF u
  <2> QED
    BY <1>1, <2>2, ProdsKeep
<1> HIDE DEF u
<1>7. TablesOK(w) /\ w.proposed = u.proposed /\ w.pay = u.pay
  <2>1. TablesOK(u) /\ IsTables(u)
    BY <1>6 DEF Keeps, TablesOK
  <2>2. w = Check(u, late)
    BY <1>2, <1>3
  <2>3. TablesOK(w)
    BY <1>4, <2>1, <2>2, CheckOK
  <2> HIDE DEF w
  <2> QED
    BY <2>1, <2>2, <2>3 DEF Check, IsTables, TableFields
<1>8. Called /\ Write(w)
  BY DEF regproducer
<1> HIDE DEF w
<1> QED
  BY <1>6, <1>7, <1>8, CalledOK DEF Keeps

\* unregprod.
LEMMA unregprodOK ==
    ASSUME IInv, NEW p \in Names, unregprod(p)
    PROVE  StepOK
<1>1. ProdsOnly(Now, deactivate(Now, p))
  BY DeactivateOK DEF IInv
<1> QED
  BY <1>1, ProducersCalledOK DEF unregprod

\* votebpout.
LEMMA votebpoutOK ==
    ASSUME IInv, NEW p \in Names, NEW hours, votebpout(p, hours)
    PROVE  StepOK
<1>1. ProdsOnly(Now, kick(Now, p, hours))
  BY KickOK DEF IInv
<1> QED
  BY <1>1, ProducersCalledOK DEF votebpout

\* update_votes.
LEMMA update_votesOK ==
    ASSUME IInv, NEW p \in Names, NEW votes \in Votes, update_votes(p, votes)
    PROVE  StepOK
<1> DEFINE r == Now.prods[p]
           row == [r EXCEPT !.total_votes = votes]
           u == Rewritten(Now, p, row)
<1>1. TablesOK(Now) /\ IsTables(Now) /\ ProdsOK(Now.prods) /\ IsProducer(r)
  BY DEF IInv, TablesOK, ProdsOK
<1>2. [Now EXCEPT !.prods[p].total_votes = votes] = u
  BY <1>1 DEF Rewritten, IsTables, TableFields, ProdsOK
<1>3. IsProducer(row) /\ row.unpaid_blocks = r.unpaid_blocks
  <2>1. r = [x \in ProducerFields |-> r[x]]
    BY <1>1 DEF IsProducer
  <2> HIDE DEF r
  <2>2. /\ row = [x \in ProducerFields |-> row[x]]
        /\ row.total_votes = votes /\ row.is_active = r.is_active /\ row.key = r.key
        /\ row.unpaid_blocks = r.unpaid_blocks
        /\ row.missed_blocks_per_rotation = r.missed_blocks_per_rotation
        /\ row.lifetime_missed_blocks = r.lifetime_missed_blocks
        /\ row.times_kicked = r.times_kicked
    BY <2>1 DEF ProducerFields
  <2> HIDE DEF row
  <2> QED
    BY <1>1, <2>2 DEF IsProducer
<1> HIDE DEF row
<1>4. ProdsOnly(Now, u)
  <2>1. row.unpaid_blocks = Now.prods[p].unpaid_blocks
    BY <1>3
  <2> QED
    BY <1>1, <1>3, <2>1, RowWritten
<1>5. Called /\ Write(u)
  BY <1>2 DEF update_votes
<1> HIDE DEF u
<1> QED
  BY <1>4, <1>5, ProducersCalledOK

\* claimrewards pays out of eosio.bpay what it erases.
LEMMA claimrewardsOK ==
    ASSUME IInv, NEW owner \in Names, claimrewards(owner)
    PROVE  StepOK
<1> DEFINE t == Now
           v == payments[owner]
           money == [ledger EXCEPT !["bpay"] = @ - v, !["owners"] = @ + v]
           dues == Erase(payments, owner)
           w == claimed(Now, owner)
           u == Settled(Now, prods, pay, dues, money)
<1>1. TablesOK(t) /\ IsTables(t)
  BY DEF IInv, TablesOK
<1>2. /\ t.payments = payments /\ t.ledger = ledger /\ t.pay = pay /\ t.prods = prods
      /\ t.ok = TRUE
  BY DEF Now, Tables
<1>3. Called /\ w.ok /\ Write(w) /\ owner \in DOMAIN payments
  BY DEF claimrewards
<1> HIDE DEF t
<1>4. transfer(t, "bpay", "owners", v) = [t EXCEPT !.ok = (t.ok /\ ledger["bpay"] >= v), !.ledger = money]
  <2>1. [Check(t, ledger["bpay"] >= v) EXCEPT !.ledger["bpay"] = @ - v, !.ledger["owners"] = @ + v]
          = [t EXCEPT !.ok = (t.ok /\ ledger["bpay"] >= v), !.ledger = money]
    BY <1>1, <1>2 DEF Check, IsTables, TableFields
  <2> QED
    BY <1>2, <2>1 DEF transfer
<1>5. w = Check([transfer(t, "bpay", "owners", v) EXCEPT !.payments = dues], v > 0)
  <2> PICK x : x = transfer(t, "bpay", "owners", v)
    OBVIOUS
  <2>1. x.payments = payments
    BY <1>1, <1>2, <1>4 DEF IsTables, TableFields
  <2>2. w = Check([x EXCEPT !.payments = Erase(x.payments, owner)], v > 0)
    BY <1>2 DEF claimed, t
  <2> QED
    BY <2>1, <2>2
<1>6. /\ w.ok = ((t.ok /\ ledger["bpay"] >= v) /\ v > 0)
      /\ IsTables(w) /\ w.now = t.now /\ w.prods = t.prods /\ w.rotation = t.rotation
      /\ w.metrics = t.metrics /\ w.elected = t.elected /\ w.active = t.active
      /\ w.pending = t.pending /\ w.proposed = t.proposed /\ w.pay = t.pay
      /\ w.payments = dues /\ w.ledger = money
  <2> HIDE DEF money, dues, w, v
  <2> QED
    BY <1>1, <1>4, <1>5 DEF Check, IsTables, TableFields
<1> HIDE DEF w
<1>7. IsTable(payments) /\ DOMAIN payments \subseteq Names /\ ledger \in [Accounts -> Nat]
      /\ Covers(ledger, pay, payments)
  BY <1>1, <1>2 DEF TablesOK, DuesOK
<1>8. v \in Int /\ v > 0 /\ ledger.bpay >= v
  BY <1>3, <1>6, <1>7 DEF IsTable
<1>9. money \in [Accounts -> Nat] /\ money.bpay = ledger.bpay - v
  <2>1. /\ ledger.tedp \in Nat /\ ledger.bpay \in Nat /\ ledger.works \in Nat
        /\ ledger.owners \in Nat
    BY <1>7 DEF Accounts
  <2>2. /\ money = [x \in Accounts |-> money[x]] /\ money.tedp = ledger.tedp
        /\ money.bpay = ledger.bpay - v /\ money.works = ledger.works
        /\ money.owners = ledger.owners + v
    BY <1>7 DEF Accounts
  <2> HIDE DEF money, v
  <2>3. money.tedp \in Nat /\ money.bpay \in Nat /\ money.works \in Nat /\ money.owners \in Nat
    BY <1>8, <2>1, <2>2
  <2> QED
    BY <2>2, <2>3 DEF Accounts
<1>10. DuesOK(dues) /\ SumOf(dues) = SumOf(payments) - v
  <2>1. IsTable(dues) /\ SumOf(dues) = SumOf(payments) - BalanceOf(payments, owner)
    BY <1>7, EraseHeld
  <2>2. DOMAIN dues \subseteq Names
    BY <1>7 DEF Erase
  <2> QED
    BY <1>3, <2>1, <2>2 DEF DuesOK, BalanceOf
<1>11. Covers(money, pay, dues)
  <2>1. SumOf(payments) \in Int /\ pay.perblock_bucket \in Int
    BY <1>1, <1>2, <1>7, BalanceInt DEF TablesOK, PayOK
  <2> HIDE DEF money, dues, v
  <2> QED
    BY <1>7, <1>8, <1>9, <1>10, <2>1 DEF Covers
<1> HIDE DEF money, dues
<1>12. TablesOK(w)
  BY <1>1, <1>2, <1>6, <1>9, <1>10, <1>11 DEF TablesOK
<1>13. w.proposed = Now.proposed /\ w.pay.perblock_bucket = Now.pay.perblock_bucket
  BY <1>6 DEF t
<1> QED
  BY <1>3, <1>12, <1>13, CalledOK

\* setpayrates.
LEMMA setpayratesOK ==
    ASSUME IInv, NEW rate \in Rates, setpayrates(rate)
    PROVE  StepOK
<1> DEFINE g == [Now.pay EXCEPT !.bpay_rate = rate.bpay_rate,
                                !.worker_amount = rate.worker_amount]
           u == PayRow(Now, g)
<1>1. TablesOK(Now) /\ IsTables(Now) /\ PayOK(Now.pay)
  BY DEF IInv, TablesOK
<1>2. [Now EXCEPT !.pay.bpay_rate = rate.bpay_rate, !.pay.worker_amount = rate.worker_amount] = u
  BY <1>1 DEF PayRow, IsTables, TableFields
<1>3. PayOK(g) /\ g.perblock_bucket = Now.pay.perblock_bucket
      /\ g.total_unpaid_blocks = Now.pay.total_unpaid_blocks
  <2>1. rate.bpay_rate \in Nat /\ rate.worker_amount \in Nat
    BY OnblockAssumption
  <2> QED
    BY <1>1, <2>1 DEF PayOK, PayFields
<1> HIDE DEF g
<1>4. Settles(Now, u) /\ u.pay = g
  BY <1>1, <1>3, PayRowOK
<1>5. Called /\ Write(u)
  BY <1>2 DEF setpayrates
<1> HIDE DEF u
<1> QED
  BY <1>3, <1>4, <1>5, CalledOK DEF Settles

\* Every step.
LEMMA NextOK == IInv /\ [Next]_vars => StepOK \/ vars' = vars
<1> SUFFICES ASSUME IInv, [Next]_vars PROVE StepOK \/ vars' = vars
  OBVIOUS
<1>1. CASE Produce
  BY <1>1, ProduceOK
<1>2. ASSUME NEW p \in Names, NEW key \in Keys, regproducer(p, key) PROVE StepOK
  BY <1>2, regproducerOK
<1>3. ASSUME NEW p \in Names, unregprod(p) PROVE StepOK
  BY <1>3, unregprodOK
<1>4. ASSUME NEW p \in Names, NEW hours \in Hours, votebpout(p, hours) PROVE StepOK
  BY <1>4, votebpoutOK
<1>5. ASSUME NEW p \in Names, NEW v \in Votes, update_votes(p, v) PROVE StepOK
  BY <1>5, update_votesOK
<1>6. ASSUME NEW p \in Names, claimrewards(p) PROVE StepOK
  BY <1>6, claimrewardsOK
<1>7. ASSUME NEW rate \in Rates, setpayrates(rate) PROVE StepOK
  BY <1>7, setpayratesOK
<1> QED
  BY <1>1, <1>2, <1>3, <1>4, <1>5, <1>6, <1>7 DEF Next

\* A producer that has registered, with votes.
LEMMA FreshProducer ==
    ASSUME NEW v \in Votes, NEW key \in Keys, NEW r, r = [x \in ProducerFields |-> r[x]],
           r.total_votes = v, r.is_active = TRUE, r.key = key, r.unpaid_blocks = 0,
           r.missed_blocks_per_rotation = 0, r.lifetime_missed_blocks = 0, r.times_kicked = 0
    PROVE  IsProducer(r)
<1>1. r.total_votes \in Votes
  OBVIOUS
<1>2. r.is_active \in BOOLEAN
  OBVIOUS
<1>3. IF r.is_active THEN r.key \in Keys ELSE r.key = 0
  OBVIOUS
<1>4. /\ r.unpaid_blocks \in Nat /\ r.missed_blocks_per_rotation \in Nat
      /\ r.lifetime_missed_blocks \in Nat /\ r.times_kicked \in Nat
  OBVIOUS
<1> QED
  BY <1>1, <1>2, <1>3, <1>4 DEF IsProducer

\* The producers that have registered to begin with.
LEMMA InitRows ==
    ASSUME NEW votes \in [Names -> Votes], NEW rows,
           rows = [p \in Names |-> [NewProducer(Min(Keys)) EXCEPT !.total_votes = votes[p]]]
    PROVE  ProdsOK(rows) /\ SumOf(Unpaid(rows)) = 0
<1> PICK key : key = Min(Keys)
  OBVIOUS
<1>1. key \in Keys
  <2>1. \E n \in Keys : \A m \in Keys : n <= m
    BY OnblockAssumption, LeastNumber
  <2> QED
    BY <2>1 DEF Min
<1>2. ASSUME NEW p \in Names
      PROVE  IsProducer(rows[p]) /\ rows[p].unpaid_blocks = 0
  <2> PICK r, v : r = [NewProducer(key) EXCEPT !.total_votes = v] /\ v = votes[p]
    OBVIOUS
  <2>1. rows[p] = r /\ v \in Votes
    OBVIOUS
  <2>2. /\ r = [x \in ProducerFields |-> r[x]]
        /\ r.total_votes = v /\ r.is_active = TRUE /\ r.key = key
        /\ r.unpaid_blocks = 0 /\ r.missed_blocks_per_rotation = 0
        /\ r.lifetime_missed_blocks = 0 /\ r.times_kicked = 0
    BY DEF NewProducer, ProducerFields
  <2>3. IsProducer(r)
    BY <1>1, <2>1, <2>2, FreshProducer
  <2> QED
    BY <2>1, <2>2, <2>3
<1>3. rows = [p \in Names |-> rows[p]]
  OBVIOUS
<1>4. ProdsOK(rows)
  BY <1>2, <1>3 DEF ProdsOK
<1> HIDE DEF ProdsOK
<1>5. SumOf(Unpaid(rows)) = 0
  <2> DEFINE f == Unpaid(rows)
  <2>1. DOMAIN f = Names /\ \A p \in Names : f[p] = 0
    BY <1>2, <1>3 DEF Unpaid
  <2>2. IsFiniteSet(Names)
    BY OnblockAssumption
  <2> HIDE DEF f
  <2>3. IsEven(f, 0, Names)
    BY <2>1 DEF IsEven
  <2>4. SumOver(f, Names) = 0 * Cardinality(Names) /\ Cardinality(Names) \in Nat
    BY <2>2, <2>3, SumConstant, FS_CardinalityType
  <2> QED
    BY <2>1, <2>4 DEF SumOf, f
<1> QED
  BY <1>4, <1>5

\* The first schedule is that of the system account.
LEMMA InitChain == ChainOK(<<[name |-> eosio, key |-> 1]>>, <<>>, <<>>)
<1> PICK e : e = [name |-> eosio, key |-> 1]
  OBVIOUS
<1>1. e \in Entry
  BY ProducersAssumption DEF Entry
<1>2. <<e>> \in Seq(Entry) /\ Len(<<e>>) = 1 /\ <<e>> # <<>>
  BY <1>1
<1>3. <<>> \in Seq(Entry) /\ Len(<<>>) = 0
  BY EmptySeq
<1> QED
  BY <1>2, <1>3, ProducersAssumption DEF ChainOK, ScheduleOK

\* The invariant holds to begin with.
LEMMA InitOK == Init => IInv /\ pay.perblock_bucket = 0
<1> SUFFICES ASSUME Init PROVE IInv /\ pay.perblock_bucket = 0
  OBVIOUS
<1>1. ProdsOK(prods) /\ SumOf(Unpaid(prods)) = 0
  <2>1. PICK votes \in [Names -> Votes] :
          prods = [p \in Names |-> [NewProducer(Min(Keys)) EXCEPT !.total_votes = votes[p]]]
    BY DEF Init
  <2> QED
    BY <2>1, InitRows
<1>2. RotationOK(rotation)
  BY ProducersAssumption, SMTT(30) DEF Init, RotationOK, RotationFields
<1>3. MetricsOK(metrics) /\ metrics.producers_metric = <<>>
  BY EmptySeq DEF Init, MetricsOK, MetricsFields
<1>4. ElectedOK(elected, metrics)
  BY <1>3, EmptySeq, ProducersAssumption DEF Init, ElectedOK
<1>5. ChainOK(chain.active, chain.pending, chain.proposed)
  BY InitChain DEF Init
<1>6. PayOK(pay) /\ pay.total_unpaid_blocks = 0 /\ pay.perblock_bucket = 0
  <2>1. PICK rate \in Rates :
          pay = [block_num |-> 0, activated |-> FALSE, last_claimrewards |-> 0,
                 last_pervote_bucket_fill |-> 0, total_unpaid_blocks |-> 0,
                 perblock_bucket |-> 0, bpay_rate |-> rate.bpay_rate,
                 worker_amount |-> rate.worker_amount]
    BY DEF Init
  <2>2. rate.bpay_rate \in Nat /\ rate.worker_amount \in Nat
    BY OnblockAssumption
  <2> QED
    BY <2>1, <2>2 DEF PayOK, PayFields
<1>7. ledger \in [Accounts -> Nat] /\ ledger.bpay = 0
  <2>1. PICK reserve \in {0, MaxReserve} :
          ledger = [tedp |-> reserve, bpay |-> 0, works |-> 0, owners |-> 0]
    BY DEF Init
  <2>2. reserve \in Nat
    BY OnblockAssumption
  <2> QED
    BY <2>1, <2>2 DEF Accounts
<1>8. DuesOK(payments) /\ SumOf(payments) = 0
  <2>1. <<>> = [x \in {} |-> 0] /\ DOMAIN <<>> = {}
    OBVIOUS
  <2> QED
    BY <2>1, EmptyTable DEF Init, DuesOK
<1>9. head.slot = 1
  BY DEF Init
<1>10. BlocksOK(prods, pay) /\ Covers(ledger, pay, payments)
  BY <1>1, <1>6, <1>7, <1>8 DEF BlocksOK, Covers
<1> PICK t : t = Now
  OBVIOUS
<1>11. /\ IsTables(t) /\ t.now = 1 /\ t.prods = prods /\ t.rotation = rotation
       /\ t.metrics = metrics /\ t.elected = elected /\ t.active = chain.active
       /\ t.pending = chain.pending /\ t.proposed = chain.proposed /\ t.pay = pay
       /\ t.payments = payments /\ t.ledger = ledger
  BY <1>9 DEF Now, Tables, IsTables, TableFields
<1>12. TablesOK(t)
  BY <1>1, <1>2, <1>3, <1>4, <1>5, <1>6, <1>7, <1>8, <1>10, <1>11 DEF TablesOK
<1> QED
  BY <1>6, <1>9, <1>12 DEF IInv

-----------------------------------------------------------------------------
(* The theorems                                                            *)

\* No bucket below zero, with votes for everyone.
BucketOK == 0 \notin Votes => pay.perblock_bucket >= 0

\* The invariant is inductive.
LEMMA IInvNext == IInv /\ BucketOK /\ [Next]_vars => IInv' /\ BucketOK'
<1> SUFFICES ASSUME IInv, BucketOK, [Next]_vars PROVE IInv' /\ BucketOK'
  OBVIOUS
<1>1. CASE StepOK
  BY <1>1 DEF StepOK, BucketKept, BucketOK
<1>2. CASE vars' = vars
  BY <1>2 DEF vars, tables, IInv, BucketOK, Now, Tables
<1> QED
  BY <1>1, <1>2, NextOK

\* So it holds in every state.
LEMMA SpecIInv == Spec => [](IInv /\ BucketOK)
<1>1. Init => IInv /\ BucketOK
  BY InitOK DEF BucketOK
<1> QED
  BY <1>1, IInvNext, PTL DEF Spec

\* Every table has its type, and a row for each of the names: who is out cannot
\* sign, and what a producer owes stays a 32 bit number.
THEOREM ProducersTypeCorrect == Spec => []TypeOK
<1>1. IInv => TypeOK
  <2> SUFFICES ASSUME IInv PROVE TypeOK
    OBVIOUS
  <2>1. /\ ProdsOK(prods) /\ RotationOK(rotation) /\ MetricsOK(metrics)
        /\ ElectedOK(elected, metrics) /\ ChainOK(chain.active, chain.pending, chain.proposed)
        /\ PayOK(pay) /\ ledger \in [Accounts -> Nat] /\ DuesOK(payments)
    BY DEF IInv, Now, Tables, TablesOK
  <2>2. DOMAIN prods = Names
    BY <2>1 DEF ProdsOK
  <2>3. ASSUME NEW p \in DOMAIN prods
        PROVE  /\ prods[p].total_votes \in Nat
               /\ IF prods[p].is_active THEN prods[p].key \in Keys ELSE prods[p].key = 0
               /\ {prods[p].unpaid_blocks, prods[p].missed_blocks_per_rotation,
                   prods[p].lifetime_missed_blocks, prods[p].times_kicked} \subseteq Nat
    BY <2>1, <2>2, OnblockAssumption DEF ProdsOK, IsProducer
  <2>4. ASSUME NEW i \in 1..Len(metrics.producers_metric)
        PROVE  /\ metrics.producers_metric[i].bp_name \in Names
               /\ metrics.producers_metric[i].missed \in 0..uint32_range - 1
    <3>1. metrics.producers_metric[i] \in Metric
      BY <2>1, ElementOfSeq DEF MetricsOK
    <3> QED
      BY <3>1 DEF Metric
  <2>5. elected.size = Len(metrics.producers_metric) /\ elected.size \in 0..TOP_PRODUCERS
    <3>1. Len(metrics.producers_metric) \in Nat
      BY <2>1, LenProperties DEF MetricsOK
    <3> QED
      BY <2>1, <3>1 DEF ElectedOK
  <2>6. chain.active # <<>> /\ Len(chain.active) <= TOP_PRODUCERS
    BY <2>1 DEF ChainOK, ScheduleOK
  <2>7. DOMAIN payments \subseteq Names /\ \A p \in DOMAIN payments : payments[p] \in Int
    BY <2>1 DEF DuesOK, IsTable
  <2>8. \A account \in DOMAIN ledger : ledger[account] \in Nat
    BY <2>1
  <2>9. pay.perblock_bucket \in Int /\ pay.total_unpaid_blocks \in Nat
    BY <2>1 DEF PayOK
  <2>10. /\ {rotation.bp_currently_out, rotation.sbp_currently_in} \subseteq Names \cup {0}
         /\ rotation.bp_out_index \in 0..TOP_PRODUCERS
         /\ rotation.sbp_in_index \in TOP_PRODUCERS..MAX_PRODUCERS + 1
    BY <2>1 DEF RotationOK
  <2> QED
    BY <2>2, <2>3, <2>4, <2>5, <2>6, <2>7, <2>8, <2>9, <2>10 DEF TypeOK
<1> QED
  BY <1>1, SpecIInv, PTL

\* The blocks to be paid are counted alike at the producers and in the global
\* row, whoever is kicked, resigns, returns or is paid.
THEOREM BlocksAccounted == Spec => []UnpaidBlocksAccounted
<1>1. IInv => UnpaidBlocksAccounted
  BY DEF IInv, Now, Tables, TablesOK, BlocksOK, Unpaid, UnpaidBlocksAccounted
<1> QED
  BY <1>1, SpecIInv, PTL

\* eosio.bpay holds the bucket and what the payments table owes.
THEOREM BpayCoversPayments == Spec => []BpayCovers
<1>1. IInv => BpayCovers
  BY DEF IInv, Now, Tables, TablesOK, Covers, BpayCovers
<1> QED
  BY <1>1, SpecIInv, PTL

\* And where every producer has votes, no snapshot hands out more than there is
\* in the bucket.
THEOREM PaymentsAreBacked ==
    ASSUME 0 \notin Votes
    PROVE  Spec => []PaymentsBacked
<1>1. BucketOK /\ BpayCovers => PaymentsBacked
  BY DEF BucketOK, PaymentsBacked
<1> QED
  BY <1>1, SpecIInv, BpayCoversPayments, PTL

\* Who is proposed has the most votes, but for the one that changes places.
THEOREM MostVotedAreProposed == Spec => ProposesTheMostVoted
<1> DEFINE Right == LET members == {chain'.proposed[i].name : i \in 1..Len(chain'.proposed)}
                        eligible == {p \in DOMAIN prods' : Eligible(prods'[p])}
                    IN  chain'.proposed \notin {<<>>, chain.proposed} =>
                          /\ members \subseteq eligible
                          /\ Cardinality(members) = Min({TOP_PRODUCERS, Cardinality(eligible)})
                          /\ \E in \in members, out \in Names :
                               \A q \in members \ {in}, p \in eligible \ (members \cup {out}) :
                                 prods'[p].total_votes <= prods'[q].total_votes
<1>1. IInv /\ [Next]_vars => [Right]_vars
  <2> SUFFICES ASSUME IInv, StepOK PROVE Right
    BY NextOK
  <2> PICK M, E : M = Members(chain'.proposed) /\ E = Electable(prods')
    OBVIOUS
  <2>1. M = {chain'.proposed[i].name : i \in 1..Len(chain'.proposed)}
    BY DEF Members
  <2>2. E = {p \in DOMAIN prods' : Eligible(prods'[p])}
    <3>1. DOMAIN prods' = Names
      BY DEF StepOK, IInv, Now, Tables, TablesOK, ProdsOK
    <3> QED
      BY <3>1 DEF Electable, Eligible
  <2> SUFFICES ASSUME chain'.proposed \notin {<<>>, chain.proposed}
               PROVE  /\ M \subseteq E
                      /\ Cardinality(M) = Min({TOP_PRODUCERS, Cardinality(E)})
                      /\ \E in \in M, out \in Names :
                           \A q \in M \ {in}, p \in E \ (M \cup {out}) :
                             prods'[p].total_votes <= prods'[q].total_votes
    BY <2>1, <2>2
  <2>3. MostVoted(M, prods')
    BY DEF StepOK, MostVotedProposed
  <2>4. /\ M \subseteq E /\ Cardinality(M) = Lesser(TOP_PRODUCERS, Cardinality(E))
        /\ Cardinality(E) \in Nat
    BY <2>3 DEF MostVoted
  <2>5. Cardinality(M) = Min({TOP_PRODUCERS, Cardinality(E)})
    <3> PICK k : k = Cardinality(E)
      OBVIOUS
    <3>1. TOP_PRODUCERS \in Int /\ k \in Int
      BY <2>4, ProducersAssumption
    <3> QED
      BY <2>4, <3>1, LesserOfTwo DEF Lesser
  <2>6. \E in \in M, out \in Names :
          \A q \in M \ {in}, p \in E \ (M \cup {out}) :
            prods'[p].total_votes <= prods'[q].total_votes
    BY <2>3 DEF MostVoted, MoreVotes
  <2> QED
    BY <2>4, <2>5, <2>6
<1> QED
  BY <1>1, SpecIInv, PTL DEF Spec, ProposesTheMostVoted
=============================================================================
