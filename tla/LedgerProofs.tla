---------------------------- MODULE LedgerProofs ----------------------------
(***************************************************************************)
(* What sums over finite sets and the operators of a ledger built on them  *)
(* satisfy, for all functions and sets.  The sum is a recursion on the     *)
(* subsets of a set.  That the recursion defines a function, and every     *)
(* fact about it, is shown by the least counterexample: a set of           *)
(* counterexamples that is not empty has a least one, which cannot be.     *)
(***************************************************************************)
EXTENDS Ledger, FiniteSetTheorems, TLAPS

-----------------------------------------------------------------------------
(* Least elements                                                          *)

\* Every set of natural numbers but the empty one has a least element,
LEMMA LeastNumber ==
    ASSUME NEW T \in SUBSET Nat, T # {}
    PROVE  \E n \in T : \A m \in T : n <= m
<1>1. \E n \in T : \A m \in T : ~(<<m, n>> \in OpToRel(<, Nat))
  BY NatLessThanWellFounded, WFMin, Zenon
<1>2. ASSUME NEW m \in Nat, NEW n \in Nat, m < n
      PROVE  <<m, n>> \in OpToRel(<, Nat)
  BY <1>2, Zenon DEF OpToRel
<1>3. \E n \in T : \A m \in T : ~(m < n)
  BY <1>1, <1>2, Zenon
<1> QED
  BY <1>3, SMT

\* and so has every set of subsets of a finite set.
LEMMA LeastSubset ==
    ASSUME NEW S, IsFiniteSet(S), NEW T, T \subseteq SUBSET S, T # {}
    PROVE  \E s \in T : \A r \in T : ~(r \subseteq s /\ r # s)
<1>1. IsWellFoundedOn(StrictSubsetOrdering(S), SUBSET S)
  BY FS_FiniteSubsetsOfFinite, FS_StrictSubsetOrderingWellFounded
<1>2. \E s \in T : \A r \in T : ~(<<r, s>> \in StrictSubsetOrdering(S))
  BY <1>1, WFMin, Zenon
<1> QED
  BY <1>2 DEF StrictSubsetOrdering

-----------------------------------------------------------------------------
(* The recursion that a sum stands for                                     *)

Pick(s) == CHOOSE x \in s : TRUE
Step(f, g, s) == IF s = {} THEN 0 ELSE f[Pick(s)] + g[s \ {Pick(s)}]

\* g gives the sum of f over each of the sets in D.
IsIter(f, g, D) == g = [s \in D |-> Step(f, g, s)]
Iter(f, S) == CHOOSE g : g = [s \in SUBSET S |-> Step(f, g, s)]

\* A sum is what iterating over the set gives.
LEMMA SumIsIter == \A f, S : SumOver(f, S) = Iter(f, S)[S]
BY DEF SumOver, MapThenSumSet, MapThenFoldSet, Iter, Step, Pick

Small(S, n) == {s \in SUBSET S : Cardinality(s) <= n}

\* There is such a g for the subsets of up to n elements: for those of n + 1
\* it takes one step from the g for n.
LEMMA SmallIterExists ==
    ASSUME NEW S, IsFiniteSet(S), NEW f, NEW n \in Nat
    PROVE  \E g : IsIter(f, g, Small(S, n))
<1> DEFINE Ok(m) == \E g : g = [s \in Small(S, m) |-> Step(f, g, s)]
           Bad == {m \in Nat : ~Ok(m)}
<1>1. Ok(0)
  <2>1. \A s \in Small(S, 0) : s = {}
    BY FS_Subset, FS_EmptySet, FS_CardinalityType DEF Small
  <2> DEFINE g == [s \in Small(S, 0) |-> 0]
  <2>2. g = [s \in Small(S, 0) |-> Step(f, g, s)]
    BY <2>1 DEF Step
  <2> QED
    BY <2>2
<1>2. ASSUME NEW m \in Nat, Ok(m) PROVE Ok(m + 1)
  <2>1. PICK g : g = [s \in Small(S, m) |-> Step(f, g, s)]
    BY <1>2
  <2> DEFINE h == [s \in Small(S, m + 1) |-> Step(f, g, s)]
  <2>2. ASSUME NEW s \in Small(S, m + 1), s # {} PROVE s \ {Pick(s)} \in Small(S, m)
    <3>1. Pick(s) \in s
      BY <2>2 DEF Pick
    <3>2. IsFiniteSet(s) /\ Cardinality(s) \in Nat
      BY FS_Subset, FS_CardinalityType DEF Small
    <3>3. Cardinality(s \ {Pick(s)}) = Cardinality(s) - 1
      BY <3>1, <3>2, FS_RemoveElement
    <3> QED
      BY <3>2, <3>3 DEF Small
  <2>3. \A s \in Small(S, m) : s \in Small(S, m + 1)
    BY FS_Subset, FS_CardinalityType DEF Small
  <2>4. ASSUME NEW s \in Small(S, m) PROVE h[s] = g[s]
    BY <2>1, <2>3
  <2>5. ASSUME NEW s \in Small(S, m + 1) PROVE Step(f, g, s) = Step(f, h, s)
    BY <2>2, <2>4 DEF Step
  <2>6. h = [s \in Small(S, m + 1) |-> Step(f, h, s)]
    BY <2>5
  <2> QED
    BY <2>6
<1> HIDE DEF Ok
<1>3. Bad = {}
  <2>1. SUFFICES ASSUME Bad # {} PROVE FALSE
    OBVIOUS
  <2>2. PICK m \in Bad : \A k \in Bad : m <= k
    BY <2>1, LeastNumber
  <2>3. m # 0
    BY <1>1
  <2>4. m - 1 \in Nat /\ m - 1 \notin Bad
    BY <2>2, <2>3
  <2> QED
    BY <2>4, <1>2
<1> QED
  BY <1>3 DEF Ok, IsIter

\* The recursion does what it says on every subset of a finite set.
LEMMA IterDefined ==
    ASSUME NEW S, IsFiniteSet(S), NEW f
    PROVE  \A s \in SUBSET S : Iter(f, S)[s] = Step(f, Iter(f, S), s)
<1>1. Cardinality(S) \in Nat
  BY FS_CardinalityType
<1>2. Small(S, Cardinality(S)) = SUBSET S
  BY FS_Subset DEF Small
<1>3. \E g : IsIter(f, g, SUBSET S)
  <2>1. \E g : IsIter(f, g, Small(S, Cardinality(S)))
    BY <1>1, SmallIterExists
  <2> QED
    BY <1>2, <2>1
<1>4. Iter(f, S) = CHOOSE g : IsIter(f, g, SUBSET S)
  BY Zenon DEF Iter, IsIter
<1>5. IsIter(f, Iter(f, S), SUBSET S)
  BY <1>3, <1>4, Zenon
<1> QED
  BY <1>5, Zenon DEF IsIter

\* The sum over a set does not depend on the set it is taken as a part of,
\* nor on the values of the function elsewhere.
LEMMA IterAgrees ==
    ASSUME NEW S, IsFiniteSet(S), NEW R \in SUBSET S, NEW f, NEW g,
           \A x \in R : f[x] = g[x]
    PROVE  Iter(f, S)[R] = Iter(g, R)[R]
<1> DEFINE Bad == {s \in SUBSET R : Iter(f, S)[s] # Iter(g, R)[s]}
<1>1. IsFiniteSet(R)
  BY FS_Subset
<1>2. \A s \in SUBSET S : Iter(f, S)[s] = Step(f, Iter(f, S), s)
  BY IterDefined
<1>3. \A s \in SUBSET R : Iter(g, R)[s] = Step(g, Iter(g, R), s)
  BY IterDefined, <1>1
<1>4. SUFFICES ASSUME Bad # {} PROVE FALSE
  OBVIOUS
<1>5. PICK s \in Bad : \A t \in Bad : ~(t \subseteq s /\ t # s)
  <2>1. Bad \subseteq SUBSET R
    OBVIOUS
  <2> HIDE DEF Bad
  <2> QED
    BY <1>1, <1>4, <2>1, LeastSubset
<1>6. s # {}
  BY <1>2, <1>3 DEF Step
<1>7. Pick(s) \in s
  BY <1>6 DEF Pick
<1>8. Iter(f, S)[s \ {Pick(s)}] = Iter(g, R)[s \ {Pick(s)}]
  BY <1>5, <1>7
<1> QED
  BY <1>2, <1>3, <1>6, <1>7, <1>8 DEF Step

-----------------------------------------------------------------------------
(* Sums over sets                                                          *)

\* The sums of two functions over a set on which they agree are the same.
LEMMA SumAgrees ==
    ASSUME NEW S, IsFiniteSet(S), NEW f, NEW g, \A x \in S : f[x] = g[x]
    PROVE  SumOver(f, S) = SumOver(g, S)
BY IterAgrees, SumIsIter

\* The sum takes one element after the other, in the order of Pick.
LEMMA SumPicks ==
    ASSUME NEW S, IsFiniteSet(S), NEW f
    PROVE  SumOver(f, S) = IF S = {} THEN 0 ELSE f[Pick(S)] + SumOver(f, S \ {Pick(S)})
<1>1. SumOver(f, S) = Step(f, Iter(f, S), S)
  BY IterDefined, SumIsIter
<1>2. S \ {Pick(S)} \in SUBSET S
  OBVIOUS
<1>3. Iter(f, S)[S \ {Pick(S)}] = SumOver(f, S \ {Pick(S)})
  BY <1>2, IterAgrees, SumIsIter
<1> QED
  BY <1>1, <1>3 DEF Step

\* The sum over nothing is 0.
LEMMA SumEmpty == \A f : SumOver(f, {}) = 0
BY SumPicks, FS_EmptySet

\* A sum of integers is an integer,
LEMMA SumInt ==
    ASSUME NEW S, IsFiniteSet(S), NEW f, \A x \in S : f[x] \in Int
    PROVE  SumOver(f, S) \in Int
<1> DEFINE Bad == {s \in SUBSET S : SumOver(f, s) \notin Int}
<1>1. SUFFICES ASSUME Bad # {} PROVE FALSE
  OBVIOUS
<1>2. PICK s \in Bad : \A t \in Bad : ~(t \subseteq s /\ t # s)
  <2>1. Bad \subseteq SUBSET S
    OBVIOUS
  <2> HIDE DEF Bad
  <2> QED
    BY <1>1, <2>1, LeastSubset
<1>3. s # {}
  BY SumEmpty
<1>4. Pick(s) \in s
  BY <1>3 DEF Pick
<1>5. SumOver(f, s \ {Pick(s)}) \in Int
  BY <1>2, <1>4
<1>6. SumOver(f, s) = f[Pick(s)] + SumOver(f, s \ {Pick(s)})
  BY <1>3, SumPicks, FS_Subset
<1> QED
  BY <1>4, <1>5, <1>6

\* and the elements may be taken in any order.
LEMMA SumRemove ==
    ASSUME NEW S, IsFiniteSet(S), NEW f, \A x \in S : f[x] \in Int, NEW a \in S
    PROVE  SumOver(f, S) = f[a] + SumOver(f, S \ {a})
<1> DEFINE Splits(s, x) == SumOver(f, s) = f[x] + SumOver(f, s \ {x})
           Bad == {s \in SUBSET S : ~ \A x \in s : Splits(s, x)}
<1>1. SUFFICES ASSUME Bad # {} PROVE FALSE
  OBVIOUS
<1>2. PICK s \in Bad : \A t \in Bad : ~(t \subseteq s /\ t # s)
  <2>1. Bad \subseteq SUBSET S
    OBVIOUS
  <2> HIDE DEF Bad
  <2> QED
    BY <1>1, <2>1, LeastSubset
<1>3. PICK x \in s : ~Splits(s, x)
  OBVIOUS
<1> DEFINE y == Pick(s)
<1>4. y \in s
  BY <1>3 DEF Pick
<1>5. IsFiniteSet(s)
  BY FS_Subset
<1>6. SumOver(f, s) = f[y] + SumOver(f, s \ {y})
  BY <1>3, <1>5, SumPicks
<1> HIDE DEF y
<1>7. x # y
  BY <1>3, <1>6
<1>8. SumOver(f, s \ {y}) = f[x] + SumOver(f, (s \ {y}) \ {x})
  <2>1. s \ {y} \notin Bad
    BY <1>2, <1>4
  <2> QED
    BY <1>7, <2>1
<1>9. SumOver(f, s \ {x}) = f[y] + SumOver(f, (s \ {x}) \ {y})
  <2>1. s \ {x} \notin Bad
    BY <1>2
  <2> QED
    BY <1>4, <1>7, <2>1
<1>10. (s \ {y}) \ {x} = (s \ {x}) \ {y}
  OBVIOUS
<1>11. SumOver(f, (s \ {x}) \ {y}) \in Int /\ f[x] \in Int /\ f[y] \in Int
  BY <1>4, <1>5, SumInt, FS_Subset
<1>12. f[y] + (f[x] + SumOver(f, (s \ {x}) \ {y})) = f[x] + (f[y] + SumOver(f, (s \ {x}) \ {y}))
  BY <1>11, SMT
<1>13. Splits(s, x)
  BY <1>6, <1>8, <1>9, <1>10, <1>12
<1> QED
  BY <1>3, <1>13

\* Induction on the subsets of a finite set: Good are those of which it holds.
LEMMA SubsetInduction ==
    ASSUME NEW S, IsFiniteSet(S), NEW Good, {} \in Good,
           \A s \in SUBSET S : \A x \in S \ s : s \in Good => s \cup {x} \in Good
    PROVE  S \in Good
<1> DEFINE Bad == (SUBSET S) \ Good
<1>1. SUFFICES ASSUME Bad # {} PROVE FALSE
  OBVIOUS
<1>2. PICK s \in Bad : \A t \in Bad : ~(t \subseteq s /\ t # s)
  <2>1. Bad \subseteq SUBSET S
    OBVIOUS
  <2> HIDE DEF Bad
  <2> QED
    BY <1>1, <2>1, LeastSubset
<1>3. PICK x : x \in s
  <2>1. s \notin Good
    BY <1>2
  <2>2. s # {}
    BY <2>1
  <2> QED
    BY <2>2
<1>4. s \ {x} \in Good
  BY <1>2, <1>3
<1>5. (s \ {x}) \cup {x} = s /\ x \in S \ (s \ {x}) /\ s \ {x} \in SUBSET S
  BY <1>2, <1>3
<1> QED
  BY <1>2, <1>4, <1>5

\* One element more.
LEMMA SumAdd ==
    ASSUME NEW S, IsFiniteSet(S), NEW f, NEW a, a \notin S, \A x \in S \cup {a} : f[x] \in Int
    PROVE  SumOver(f, S \cup {a}) = SumOver(f, S) + f[a]
<1>1. IsFiniteSet(S \cup {a}) /\ (S \cup {a}) \ {a} = S
  BY FS_AddElement
<1>2. SumOver(f, S \cup {a}) = f[a] + SumOver(f, S)
  BY <1>1, SumRemove
<1>3. SumOver(f, S) \in Int /\ f[a] \in Int
  BY SumInt
<1> QED
  BY <1>2, <1>3, SMT

\* A sum of natural numbers is a natural number, and no less than a part of it.
IntOn(f, S) == \A x \in S : f[x] \in Int

\* The sum over one more element, for functions known to give integers there.
LEMMA SumAddOn ==
    ASSUME NEW S, IsFiniteSet(S), NEW f, NEW a, a \notin S, IntOn(f, S \cup {a})
    PROVE  /\ SumOver(f, S \cup {a}) = SumOver(f, S) + f[a]
           /\ SumOver(f, S) \in Int
<1>1. \A x \in S \cup {a} : f[x] \in Int
  BY DEF IntOn
<1> QED
  BY <1>1, SumAdd, SumInt

\* The sum over one element.
LEMMA SumSingle ==
    ASSUME NEW f, NEW a, f[a] \in Int
    PROVE  SumOver(f, {a}) = f[a]
<1>1. IsFiniteSet({}) /\ {} \cup {a} = {a}
  BY FS_EmptySet
<1>2. SumOver(f, {} \cup {a}) = SumOver(f, {}) + f[a]
  BY <1>1, SumAdd
<1> QED
  BY <1>1, <1>2, SumEmpty

\* A sum of natural numbers is one.
LEMMA SumNat ==
    ASSUME NEW S, IsFiniteSet(S), NEW f, \A x \in S : f[x] \in Nat
    PROVE  SumOver(f, S) \in Nat
<1> DEFINE Good == {s \in SUBSET S : SumOver(f, s) \in Nat}
<1>1. {} \in Good
  BY SumEmpty
<1>2. ASSUME NEW s \in SUBSET S, NEW x \in S \ s, s \in Good PROVE s \cup {x} \in Good
  <2>1. IsFiniteSet(s) /\ \A y \in s \cup {x} : f[y] \in Int
    BY FS_Subset
  <2>2. SumOver(f, s \cup {x}) = SumOver(f, s) + f[x]
    BY <2>1, SumAdd
  <2>3. SumOver(f, s \cup {x}) \in Nat
    BY <1>2, <2>2
  <2> QED
    BY <2>3
<1> HIDE DEF Good
<1>3. S \in Good
  BY <1>1, <1>2, SubsetInduction
<1> QED
  BY <1>3 DEF Good

\* The sum over two disjoint sets is the sum of the sums.
LEMMA SumUnion ==
    ASSUME NEW S, NEW T, IsFiniteSet(S), IsFiniteSet(T), S \cap T = {},
           NEW f, \A x \in S \cup T : f[x] \in Int
    PROVE  SumOver(f, S \cup T) = SumOver(f, S) + SumOver(f, T)
<1> DEFINE Good == {s \in SUBSET S : SumOver(f, s \cup T) = SumOver(f, s) + SumOver(f, T)}
<1>1. {} \in Good
  <2>1. SumOver(f, T) \in Int /\ {} \cup T = T
    BY SumInt
  <2> QED
    BY <2>1, SumEmpty
<1>2. ASSUME NEW s \in SUBSET S, NEW x \in S \ s, s \in Good PROVE s \cup {x} \in Good
  <2>1. IsFiniteSet(s) /\ IsFiniteSet(s \cup T) /\ x \notin s \cup T
    BY FS_Subset, FS_Union
  <2>2. (s \cup {x}) \cup T = (s \cup T) \cup {x}
    OBVIOUS
  <2>3. SumOver(f, (s \cup T) \cup {x}) = SumOver(f, s \cup T) + f[x]
    <3>1. \A y \in (s \cup T) \cup {x} : f[y] \in Int
      OBVIOUS
    <3>2. PICK u : u = s \cup T
      OBVIOUS
    <3>3. IsFiniteSet(u) /\ x \notin u /\ \A y \in u \cup {x} : f[y] \in Int
      BY <2>1, <3>1, <3>2
    <3>4. SumOver(f, u \cup {x}) = SumOver(f, u) + f[x]
      BY <3>3, SumAdd, Zenon
    <3> QED
      BY <3>2, <3>4
  <2>4. SumOver(f, s \cup {x}) = SumOver(f, s) + f[x]
    BY <2>1, SumAdd
  <2>5. SumOver(f, s) \in Int /\ SumOver(f, T) \in Int /\ f[x] \in Int
    BY <2>1, SumInt
  <2>6. SumOver(f, s \cup T) = SumOver(f, s) + SumOver(f, T)
    BY <1>2
  <2>7. SumOver(f, (s \cup {x}) \cup T) = SumOver(f, s \cup {x}) + SumOver(f, T)
    <3>1. SumOver(f, (s \cup {x}) \cup T) = SumOver(f, s \cup T) + f[x]
      BY <2>2, <2>3
    <3> HIDE DEF Good
    <3> QED
      BY <2>4, <2>5, <2>6, <3>1, SMT
  <2> QED
    BY <2>7
<1> HIDE DEF Good
<1>3. S \in Good
  BY <1>1, <1>2, SubsetInduction
<1> QED
  BY <1>3 DEF Good

\* Without negative values a part sums to no more than the whole.
LEMMA SumPart ==
    ASSUME NEW S, IsFiniteSet(S), NEW T \in SUBSET S, NEW f, \A x \in S : f[x] \in Nat
    PROVE  SumOver(f, T) <= SumOver(f, S)
<1>1. IsFiniteSet(T) /\ IsFiniteSet(S \ T) /\ S = T \cup (S \ T) /\ T \cap (S \ T) = {}
  BY FS_Subset
<1>2. SumOver(f, S) = SumOver(f, T) + SumOver(f, S \ T)
  BY <1>1, SumUnion
<1>3. SumOver(f, T) \in Nat /\ SumOver(f, S \ T) \in Nat
  BY <1>1, SumNat
<1> QED
  BY <1>2, <1>3, SMT

\* A sum of equal values.
IsEven(f, c, S) == c \in Int /\ \A x \in S : f[x] = c

\* The sum of a constant.
LEMMA SumConstant ==
    ASSUME NEW S, IsFiniteSet(S), NEW f, NEW c, IsEven(f, c, S)
    PROVE  SumOver(f, S) = c * Cardinality(S)
<1> DEFINE Good == {s \in SUBSET S : SumOver(f, s) = c * Cardinality(s)}
<1>1. {} \in Good
  <2>1. c \in Int
    BY DEF IsEven
  <2>2. SumOver(f, {}) = 0 /\ Cardinality({}) = 0 /\ c * 0 = 0
    BY <2>1, SumEmpty, FS_EmptySet
  <2> QED
    BY <2>2
<1>2. ASSUME NEW s \in SUBSET S, NEW x \in S \ s, s \in Good PROVE s \cup {x} \in Good
  <2>1. /\ IsFiniteSet(s) /\ x \notin s
        /\ c \in Int /\ f[x] = c /\ SumOver(f, s) = c * Cardinality(s)
    BY <1>2, FS_Subset DEF IsEven
  <2>2. SumOver(f, s \cup {x}) = SumOver(f, s) + f[x]
    <3>1. \A y \in s \cup {x} : f[y] \in Int
      BY DEF IsEven
    <3>2. IsFiniteSet(s) /\ x \notin s
      BY <2>1
    <3> HIDE DEF Good
    <3> QED
      BY <3>1, <3>2, SumAdd, Zenon
  <2>3. Cardinality(s \cup {x}) = Cardinality(s) + 1 /\ Cardinality(s) \in Nat
    BY <2>1, FS_AddElement, FS_CardinalityType
  <2>4. c * (Cardinality(s) + 1) = c * Cardinality(s) + c
    <3>1. \A m, n \in Int : m * (n + 1) = m * n + m
      OBVIOUS
    <3> QED
      BY <2>1, <2>3, <3>1
  <2>5. SumOver(f, s \cup {x}) = c * Cardinality(s \cup {x})
    BY <2>1, <2>2, <2>3, <2>4
  <2> QED
    BY <2>5
<1> HIDE DEF Good
<1>3. S \in Good
  BY <1>1, <1>2, SubsetInduction
<1> QED
  BY <1>3 DEF Good

\* The sum of sums.
IsPlus(h, f, g, S) == \A x \in S : f[x] \in Int /\ g[x] \in Int /\ h[x] = f[x] + g[x]

\* The sum of a pointwise sum.
LEMMA SumPlus ==
    ASSUME NEW S, IsFiniteSet(S), NEW f, NEW g, NEW h, IsPlus(h, f, g, S)
    PROVE  SumOver(h, S) = SumOver(f, S) + SumOver(g, S)
<1> DEFINE Good == {s \in SUBSET S : SumOver(h, s) = SumOver(f, s) + SumOver(g, s)}
<1>1. {} \in Good
  BY SumEmpty
<1>2. ASSUME NEW s \in SUBSET S, NEW x \in S \ s, s \in Good PROVE s \cup {x} \in Good
  <2>1. IsFiniteSet(s) /\ x \notin s
    BY FS_Subset
  <2>2. /\ \A y \in s \cup {x} : f[y] \in Int
        /\ \A y \in s \cup {x} : g[y] \in Int
        /\ \A y \in s \cup {x} : h[y] \in Int
    BY DEF IsPlus
  <2>3. SumOver(f, s \cup {x}) = SumOver(f, s) + f[x]
    BY <2>1, <2>2, SumAdd
  <2>4. SumOver(g, s \cup {x}) = SumOver(g, s) + g[x]
    BY <2>1, <2>2, SumAdd
  <2>5. SumOver(h, s \cup {x}) = SumOver(h, s) + h[x]
    BY <2>1, <2>2, SumAdd
  <2>6. SumOver(f, s) \in Int /\ SumOver(g, s) \in Int /\ f[x] \in Int /\ g[x] \in Int
    BY <2>1, <2>2, SumInt
  <2>7. SumOver(h, s) = SumOver(f, s) + SumOver(g, s) /\ h[x] = f[x] + g[x]
    BY <1>2 DEF IsPlus
  <2>8. SumOver(h, s \cup {x}) = SumOver(f, s \cup {x}) + SumOver(g, s \cup {x})
    BY <2>3, <2>4, <2>5, <2>6, <2>7, SMT
  <2> QED
    BY <2>8
<1> HIDE DEF Good
<1>3. S \in Good
  BY <1>1, <1>2, SubsetInduction
<1> QED
  BY <1>3 DEF Good

-----------------------------------------------------------------------------
(* Sums of tables                                                          *)

\* A table of amounts: a row for each of finitely many keys.
IsTable(f) ==
    /\ f = [x \in DOMAIN f |-> f[x]]
    /\ IsFiniteSet(DOMAIN f)
    /\ \A x \in DOMAIN f : f[x] \in Int

\* Two tables that differ only in the row of a, which may be missing in
\* either, differ in their sums by what they hold there.
LEMMA SumMoves ==
    ASSUME NEW f, NEW g, NEW a, IsTable(f),
           DOMAIN g \ {a} = DOMAIN f \ {a},
           \A x \in DOMAIN f \ {a} : g[x] = f[x],
           a \in DOMAIN g => g[a] \in Int
    PROVE  /\ SumOf(f) \in Int /\ SumOf(g) \in Int
           /\ IsFiniteSet(DOMAIN g)
           /\ \A x \in DOMAIN g : g[x] \in Int
           /\ SumOf(g) = SumOf(f) + BalanceOf(g, a) - BalanceOf(f, a)
<1> DEFINE S == DOMAIN f \ {a}
<1>1. IsFiniteSet(S) /\ \A x \in S : f[x] \in Int /\ g[x] \in Int /\ g[x] = f[x]
  BY FS_RemoveElement DEF IsTable
<1>2. DOMAIN f = IF a \in DOMAIN f THEN S \cup {a} ELSE S
  OBVIOUS
<1>3. DOMAIN g = IF a \in DOMAIN g THEN S \cup {a} ELSE S
  OBVIOUS
<1>4. a \notin S
  OBVIOUS
<1>5. SumOver(f, S) = SumOver(g, S) /\ SumOver(f, S) \in Int
  <2> HIDE DEF S
  <2> QED
    BY <1>1, SumAgrees, SumInt
<1>6. SumOf(f) = SumOver(f, S) + BalanceOf(f, a) /\ BalanceOf(f, a) \in Int
  <2>1. a \in DOMAIN f => f[a] \in Int
    BY DEF IsTable
  <2> HIDE DEF S
  <2>2. a \in DOMAIN f => SumOver(f, S \cup {a}) = SumOver(f, S) + f[a]
    BY <1>1, <1>4, <2>1, SumAdd
  <2> QED
    BY <1>2, <1>5, <2>1, <2>2 DEF SumOf, BalanceOf
<1>7. SumOf(g) = SumOver(g, S) + BalanceOf(g, a) /\ BalanceOf(g, a) \in Int
  <2> HIDE DEF S
  <2>2. a \in DOMAIN g => SumOver(g, S \cup {a}) = SumOver(g, S) + g[a]
    BY <1>1, <1>4, SumAdd
  <2> QED
    BY <1>3, <1>5, <2>2 DEF SumOf, BalanceOf
<1>8. IsFiniteSet(DOMAIN g)
  BY <1>1, <1>3, FS_AddElement
<1>9. \A x \in DOMAIN g : g[x] \in Int
  BY <1>1, <1>3
<1>10. SumOf(g) = SumOf(f) + BalanceOf(g, a) - BalanceOf(f, a)
  <2> HIDE DEF S
  <2> QED
    BY <1>5, <1>6, <1>7, SMT
<1>11. SumOf(f) \in Int /\ SumOf(g) \in Int
  <2> HIDE DEF S
  <2> QED
    BY <1>5, <1>6, <1>7, SMT
<1> QED
  BY <1>8, <1>9, <1>10, <1>11

\* Tables with the same rows have the same sum.
LEMMA SumSame ==
    ASSUME NEW f, NEW g, IsTable(f), DOMAIN g = DOMAIN f, \A x \in DOMAIN f : g[x] = f[x]
    PROVE  SumOf(g) = SumOf(f)
BY SumAgrees DEF IsTable, SumOf

\* No row of a table without negative amounts holds more than the sum.
LEMMA RowAtMostSum ==
    ASSUME NEW f, IsTable(f), \A x \in DOMAIN f : f[x] >= 0, NEW a \in DOMAIN f
    PROVE  f[a] <= SumOf(f)
<1>1. IsFiniteSet(DOMAIN f) /\ \A x \in DOMAIN f : f[x] \in Nat
  BY DEF IsTable
<1>2. {a} \in SUBSET DOMAIN f /\ IsFiniteSet({}) /\ f[a] \in Int /\ {} \cup {a} = {a}
  BY <1>1, FS_EmptySet
<1>3. SumOver(f, {} \cup {a}) = SumOver(f, {}) + f[a]
  BY <1>2, SumAdd
<1>4. SumOver(f, {a}) = f[a]
  BY <1>2, <1>3, SumEmpty
<1>5. SumOver(f, {a}) <= SumOver(f, DOMAIN f)
  BY <1>1, <1>2, SumPart
<1> QED
  BY <1>4, <1>5 DEF SumOf

-----------------------------------------------------------------------------
(* What the token contract does to a ledger                                *)

\* The table without rows.
LEMMA EmptyTable ==
    ASSUME NEW f, f = [x \in {} |-> 0]
    PROVE  IsTable(f) /\ SumOf(f) = 0
BY SumEmpty, FS_EmptySet DEF IsTable, SumOf

\* From l to m an amount v has come to the row of an account, which is there
\* from now on.
Credited(l, m, a, v) ==
    /\ IsTable(m)
    /\ DOMAIN m = DOMAIN l \cup {a}
    /\ SumOf(m) = SumOf(l) + v
    /\ BalanceOf(m, a) = BalanceOf(l, a) + v
    /\ \A b \in DOMAIN l \ {a} : m[b] = l[b]

\* add_balance raises the row of the owner, and the sum, by the amount.
LEMMA AddHeld ==
    ASSUME NEW l, IsTable(l), NEW owner, NEW v \in Int
    PROVE  Credited(l, Add(l, owner, v), owner, v)
<1> DEFINE m == Add(l, owner, v)
<1>1. /\ m = [a \in DOMAIN l \cup {owner} |->
                IF a = owner THEN BalanceOf(l, owner) + v ELSE l[a]]
      /\ BalanceOf(l, owner) \in Int
  BY DEF Add, Put, BalanceOf, IsTable
<1> HIDE DEF m
<1>2. DOMAIN m = DOMAIN l \cup {owner} /\ m[owner] = BalanceOf(l, owner) + v
  BY <1>1
<1>3. \A a \in DOMAIN l \ {owner} : m[a] = l[a]
  BY <1>1
<1>4. DOMAIN m \ {owner} = DOMAIN l \ {owner}
  BY <1>2
<1>5. m[owner] \in Int
  BY <1>1, <1>2
<1>6. /\ SumOf(l) \in Int /\ IsFiniteSet(DOMAIN m) /\ \A x \in DOMAIN m : m[x] \in Int
      /\ SumOf(m) = SumOf(l) + BalanceOf(m, owner) - BalanceOf(l, owner)
  BY <1>3, <1>4, <1>5, SumMoves
<1>7. IsTable(m)
  BY <1>1, <1>2, <1>6 DEF IsTable
<1>8. SumOf(m) = SumOf(l) + v /\ BalanceOf(m, owner) = BalanceOf(l, owner) + v
  BY <1>1, <1>2, <1>6 DEF BalanceOf
<1> QED
  BY <1>2, <1>3, <1>7, <1>8 DEF m, Credited

\* sub_balance lowers both by the amount.
LEMMA SubHeld ==
    ASSUME NEW l, IsTable(l), NEW owner \in DOMAIN l, NEW v \in Int
    PROVE  Credited(l, Sub(l, owner, v), owner, -v)
<1>1. Sub(l, owner, v) = Add(l, owner, -v)
  BY DEF Sub, Add, Put, IsTable
<1>2. -v \in Int
  OBVIOUS
<1> QED
  BY <1>1, <1>2, AddHeld

\* From l to m an amount v has gone from one account to another.
Moved(l, m, from, to, v) ==
    /\ IsTable(m)
    /\ DOMAIN m = DOMAIN l \cup {to}
    /\ SumOf(m) = SumOf(l)
    /\ BalanceOf(m, from) = BalanceOf(l, from) - v
    /\ BalanceOf(m, to) = BalanceOf(l, to) + v
    /\ \A b : b # from /\ b # to => BalanceOf(m, b) = BalanceOf(l, b)

\* What a row holds, and all of them, are integers.
LEMMA BalanceInt == \A l, a : IsTable(l) => BalanceOf(l, a) \in Int /\ SumOf(l) \in Int
BY SumInt DEF IsTable, BalanceOf, SumOf

\* A transfer moves the amount from one row to another and keeps the sum.
LEMMA TransferHeld ==
    ASSUME NEW l, IsTable(l), NEW from, NEW to, NEW v \in Int, CanTransfer(l, from, to, v)
    PROVE  Moved(l, Transferred(l, from, to, v), from, to, v)
<1> DEFINE k == Sub(l, from, v)
           m == Transferred(l, from, to, v)
<1>1. from \in DOMAIN l /\ from # to
  BY DEF CanTransfer, CanSub
<1>2. Credited(l, k, from, -v)
  BY <1>1, SubHeld
<1>3. IsTable(k) /\ m = Add(k, to, v)
  BY <1>2 DEF Credited, Transferred
<1> HIDE DEF k, m
<1>4. Credited(k, m, to, v)
  BY <1>3, AddHeld
<1>5. DOMAIN k = DOMAIN l
  BY <1>1, <1>2 DEF Credited
<1>6. \A b : b # from => BalanceOf(k, b) = BalanceOf(l, b)
  BY <1>2, <1>5 DEF Credited, BalanceOf
<1>7. \A b : b # to => BalanceOf(m, b) = BalanceOf(k, b)
  BY <1>4 DEF Credited, BalanceOf
<1>8. BalanceOf(k, from) = BalanceOf(l, from) - v /\ SumOf(k) = SumOf(l) - v
  BY <1>2, BalanceInt DEF Credited
<1>9. BalanceOf(m, from) = BalanceOf(l, from) - v
  BY <1>1, <1>7, <1>8
<1>10. BalanceOf(m, to) = BalanceOf(l, to) + v
  BY <1>1, <1>4, <1>6 DEF Credited
<1>11. SumOf(m) = SumOf(l)
  <2>1. SumOf(l) \in Int /\ SumOf(m) = SumOf(k) + v
    BY <1>4, BalanceInt DEF Credited
  <2> QED
    BY <1>8, <2>1, SMT
<1>12. IsTable(m) /\ DOMAIN m = DOMAIN l \cup {to}
  BY <1>4, <1>5 DEF Credited
<1>13. \A b : b # from /\ b # to => BalanceOf(m, b) = BalanceOf(l, b)
  BY <1>6, <1>7
<1> QED
  BY <1>9, <1>10, <1>11, <1>12, <1>13, Zenon DEF m, Moved

\* No row is negative.
NoDebts(l) == \A a \in DOMAIN l : l[a] >= 0

\* add_balance leaves no row below zero,
LEMMA AddNoDebts ==
    ASSUME NEW l, IsTable(l), NoDebts(l), NEW owner, NEW v \in Nat
    PROVE  NoDebts(Add(l, owner, v))
BY DEF IsTable, NoDebts, Add, Put

\* nor does sub_balance, if the row covers the amount,
LEMMA SubNoDebts ==
    ASSUME NEW l, IsTable(l), NoDebts(l), NEW owner, NEW v \in Int, CanSub(l, owner, v)
    PROVE  NoDebts(Sub(l, owner, v))
BY DEF IsTable, NoDebts, Sub, CanSub

\* nor a transfer.
LEMMA TransferNoDebts ==
    ASSUME NEW l, IsTable(l), NoDebts(l), NEW from, NEW to, NEW v \in Int,
           CanTransfer(l, from, to, v)
    PROVE  NoDebts(Transferred(l, from, to, v))
<1>1. from \in DOMAIN l /\ CanSub(l, from, v) /\ v \in Nat
  BY DEF CanTransfer, CanSub
<1>2. IsTable(Sub(l, from, v))
  BY <1>1, SubHeld DEF Credited
<1> QED
  BY <1>1, <1>2, SubNoDebts, AddNoDebts DEF Transferred

\* A row that is erased.
LEMMA EraseHeld ==
    ASSUME NEW l, IsTable(l), NEW a
    PROVE  /\ IsTable(Erase(l, a))
           /\ SumOf(Erase(l, a)) = SumOf(l) - BalanceOf(l, a)
           /\ \A b : b # a =>
                BalanceOf(Erase(l, a), b) = BalanceOf(l, b)
<1> DEFINE m == Erase(l, a)
<1>1. /\ DOMAIN m = DOMAIN l \ {a} /\ \A b \in DOMAIN m : m[b] = l[b]
      /\ m = [b \in DOMAIN m |-> m[b]]
  BY DEF Erase
<1> HIDE DEF m
<1>2. /\ DOMAIN m \ {a} = DOMAIN l \ {a}
      /\ a \notin DOMAIN m
      /\ \A b \in DOMAIN l \ {a} : m[b] = l[b]
  BY <1>1
<1>3. /\ IsFiniteSet(DOMAIN m) /\ \A b \in DOMAIN m : m[b] \in Int
      /\ SumOf(m) = SumOf(l) + BalanceOf(m, a) - BalanceOf(l, a)
  BY <1>2, SumMoves
<1>4. IsTable(m)
  BY <1>1, <1>3 DEF IsTable
<1>5. SumOf(m) = SumOf(l) - BalanceOf(l, a)
  BY <1>2, <1>3, BalanceInt DEF BalanceOf
<1>6. \A b : b # a => BalanceOf(m, b) = BalanceOf(l, b)
  BY <1>1 DEF BalanceOf
<1> QED
  BY <1>4, <1>5, <1>6 DEF m

\* A row that is put into a table.
LEMMA PutHeld ==
    ASSUME NEW l, IsTable(l), NEW a, NEW v \in Int
    PROVE  /\ IsTable(Put(l, a, v))
           /\ SumOf(Put(l, a, v)) = SumOf(l) - BalanceOf(l, a) + v
           /\ SumOf(l) \in Int /\ BalanceOf(l, a) \in Int
<1> DEFINE m == Put(l, a, v)
<1>1. /\ DOMAIN m = DOMAIN l \cup {a} /\ m[a] = v
      /\ \A b \in DOMAIN l \ {a} : m[b] = l[b]
      /\ m = [b \in DOMAIN m |-> m[b]]
  BY DEF Put
<1> HIDE DEF m
<1>2. DOMAIN m \ {a} = DOMAIN l \ {a}
  BY <1>1
<1>3. /\ IsFiniteSet(DOMAIN m) /\ \A b \in DOMAIN m : m[b] \in Int
      /\ SumOf(m) = SumOf(l) + BalanceOf(m, a) - BalanceOf(l, a)
  BY <1>1, <1>2, SumMoves
<1>4. IsTable(m)
  BY <1>1, <1>3 DEF IsTable
<1>5. BalanceOf(m, a) = v /\ SumOf(l) \in Int /\ BalanceOf(l, a) \in Int
  BY <1>1, BalanceInt DEF BalanceOf
<1>6. SumOf(m) = SumOf(l) - BalanceOf(l, a) + v
  BY <1>3, <1>5
<1> QED
  BY <1>4, <1>5, <1>6 DEF m

-----------------------------------------------------------------------------
(* Many transfers from one account, as a recursion like that of sums        *)

PayStep(l, from, g, s) ==
    IF s = {} THEN l
    ELSE Transferred(g[s \ {Pick(s)}], from, Pick(s).to, Pick(s).quantity)

ArePays(l, from, g, D) == g = [s \in D |-> PayStep(l, from, g, s)]
Pays(l, from, S) == CHOOSE g : g = [s \in SUBSET S |-> PayStep(l, from, g, s)]

\* Sending transfers one after another is folding over their set.
LEMMA TransfersArePays ==
    \A l, from, S : TransferredAll(l, from, S) = Pays(l, from, S)[S]
BY DEF TransferredAll, FoldSet, MapThenFoldSet, Pays, PayStep, Pick

\* The fold is defined on the small sets of transfers,
LEMMA SmallPaysExist ==
    ASSUME NEW S, IsFiniteSet(S), NEW l, NEW from, NEW n \in Nat
    PROVE  \E g : ArePays(l, from, g, Small(S, n))
<1> DEFINE Ok(m) == \E g : g = [s \in Small(S, m) |-> PayStep(l, from, g, s)]
           Bad == {m \in Nat : ~Ok(m)}
<1>1. Ok(0)
  <2>1. \A s \in Small(S, 0) : s = {}
    BY FS_Subset, FS_EmptySet, FS_CardinalityType DEF Small
  <2> DEFINE g == [s \in Small(S, 0) |-> l]
  <2>2. g = [s \in Small(S, 0) |-> PayStep(l, from, g, s)]
    BY <2>1 DEF PayStep
  <2> QED
    BY <2>2
<1>2. ASSUME NEW m \in Nat, Ok(m) PROVE Ok(m + 1)
  <2>1. PICK g : g = [s \in Small(S, m) |-> PayStep(l, from, g, s)]
    BY <1>2
  <2> DEFINE h == [s \in Small(S, m + 1) |-> PayStep(l, from, g, s)]
  <2>2. ASSUME NEW s \in Small(S, m + 1), s # {} PROVE s \ {Pick(s)} \in Small(S, m)
    <3>1. Pick(s) \in s
      BY <2>2 DEF Pick
    <3>2. IsFiniteSet(s) /\ Cardinality(s) \in Nat
      BY FS_Subset, FS_CardinalityType DEF Small
    <3>3. Cardinality(s \ {Pick(s)}) = Cardinality(s) - 1
      BY <3>1, <3>2, FS_RemoveElement
    <3> QED
      BY <3>2, <3>3 DEF Small
  <2>3. \A s \in Small(S, m) : s \in Small(S, m + 1)
    BY FS_Subset, FS_CardinalityType DEF Small
  <2>4. ASSUME NEW s \in Small(S, m) PROVE h[s] = g[s]
    BY <2>1, <2>3
  <2>5. ASSUME NEW s \in Small(S, m + 1) PROVE PayStep(l, from, g, s) = PayStep(l, from, h, s)
    BY <2>2, <2>4 DEF PayStep
  <2>6. h = [s \in Small(S, m + 1) |-> PayStep(l, from, h, s)]
    BY <2>5
  <2> QED
    BY <2>6
<1> HIDE DEF Ok
<1>3. Bad = {}
  <2>1. SUFFICES ASSUME Bad # {} PROVE FALSE
    OBVIOUS
  <2>2. PICK m \in Bad : \A k \in Bad : m <= k
    BY <2>1, LeastNumber
  <2>3. m # 0
    BY <1>1
  <2>4. m - 1 \in Nat /\ m - 1 \notin Bad
    BY <2>2, <2>3
  <2> QED
    BY <2>4, <1>2
<1> QED
  BY <1>3 DEF Ok, ArePays

\* and so on all of them.
LEMMA PaysDefined ==
    ASSUME NEW S, IsFiniteSet(S), NEW l, NEW from
    PROVE  \A s \in SUBSET S : Pays(l, from, S)[s] = PayStep(l, from, Pays(l, from, S), s)
<1>1. Cardinality(S) \in Nat
  BY FS_CardinalityType
<1>2. Small(S, Cardinality(S)) = SUBSET S
  BY FS_Subset DEF Small
<1>3. \E g : ArePays(l, from, g, SUBSET S)
  <2>1. \E g : ArePays(l, from, g, Small(S, Cardinality(S)))
    BY <1>1, SmallPaysExist
  <2> QED
    BY <1>2, <2>1
<1>4. Pays(l, from, S) = CHOOSE g : ArePays(l, from, g, SUBSET S)
  BY Zenon DEF Pays, ArePays
<1>5. ArePays(l, from, Pays(l, from, S), SUBSET S)
  BY <1>3, <1>4, Zenon
<1> QED
  BY <1>5, Zenon DEF ArePays


Amounts(ts) == [t \in ts |-> t.quantity]

\* What TransferredAll is called with: transfers to different accounts, that
\* no check refuses.
Payable(l, from, ts) ==
    /\ IsTable(l) /\ NoDebts(l)
    /\ IsFiniteSet(ts)
    /\ \A t \in ts : t.quantity \in Int /\ t.quantity > 0 /\ t.to # from
    /\ \A t, u \in ts : t.to = u.to => t = u
    /\ from \in DOMAIN l /\ SumOf(Amounts(ts)) <= l[from]

\* From l to m the transfers in s, which have the amounts q, have been made.
Paid(l, m, from, s, q) ==
    /\ IsTable(m)
    /\ DOMAIN m = DOMAIN l \cup {t.to : t \in s}
    /\ SumOf(m) = SumOf(l)
    /\ BalanceOf(m, from) = BalanceOf(l, from) - SumOver(q, s)
    /\ \A t \in s : BalanceOf(m, t.to) = BalanceOf(l, t.to) + q[t]
    /\ \A a : a # from /\ (\A t \in s : a # t.to) => BalanceOf(m, a) = BalanceOf(l, a)

\* One more transfer, to an account that is not yet paid.
Sends(x, to) == x.to = to
SendsElsewhere(s, a) == \A t \in s : t.to # a

\* What one more transfer does to a ledger that has paid the others.
LEMMA PaidOneMore ==
    ASSUME NEW l, NEW m, NEW from, NEW s, NEW q, NEW x, NEW to, NEW v \in Int,
           IsTable(l), IsFiniteSet(s), Paid(l, m, from, s, q),
           x \notin s, IntOn(q, s \cup {x}), q[x] = v, v > 0,
           Sends(x, to), SendsElsewhere(s, to), SendsElsewhere(s, from), to # from,
           from \in DOMAIN l, SumOver(q, s \cup {x}) <= l[from]
    PROVE  Paid(l, Transferred(m, from, to, v), from, s \cup {x}, q)
<1> DEFINE k == Transferred(m, from, to, v)
<1>2. /\ SumOver(q, s) \in Int /\ SumOver(q, s \cup {x}) = SumOver(q, s) + v
      /\ BalanceOf(l, from) = l[from] /\ l[from] \in Int
  <2>1. SumOver(q, s) \in Int /\ SumOver(q, s \cup {x}) = SumOver(q, s) + q[x]
    BY SumAddOn
  <2> QED
    BY <2>1 DEF BalanceOf, IsTable
<1>3. IsTable(m) /\ from \in DOMAIN m /\ m[from] = l[from] - SumOver(q, s)
  BY <1>2 DEF Paid, BalanceOf
<1>4. CanTransfer(m, from, to, v)
  BY <1>2, <1>3 DEF CanTransfer, CanSub
<1>6. Moved(m, k, from, to, v)
  BY <1>3, <1>4, TransferHeld
<1> HIDE DEF k
<1>7. IsTable(k) /\ SumOf(k) = SumOf(l)
  BY <1>6 DEF Moved, Paid
<1>8. DOMAIN k = DOMAIN l \cup {t.to : t \in s \cup {x}}
  BY <1>6 DEF Moved, Paid, Sends
<1>9. BalanceOf(k, from) = BalanceOf(l, from) - SumOver(q, s \cup {x})
  <2>1. BalanceOf(k, from) = BalanceOf(m, from) - v
    BY <1>6 DEF Moved
  <2>2. BalanceOf(m, from) = BalanceOf(l, from) - SumOver(q, s)
    BY DEF Paid
  <2> QED
    BY <1>2, <2>1, <2>2
<1>10. ASSUME NEW t \in s \cup {x}
       PROVE  BalanceOf(k, t.to) = BalanceOf(l, t.to) + q[t]
  <2>1. CASE t = x
    <3>1. BalanceOf(k, to) = BalanceOf(m, to) + v
      BY <1>6 DEF Moved
    <3>2. BalanceOf(m, to) = BalanceOf(l, to)
      BY DEF Paid, SendsElsewhere
    <3> QED
      BY <2>1, <3>1, <3>2 DEF Sends
  <2>2. CASE t # x
    <3>1. t \in s /\ t.to # to /\ t.to # from
      BY <2>2 DEF SendsElsewhere
    <3>2. BalanceOf(m, t.to) = BalanceOf(l, t.to) + q[t]
      BY <3>1 DEF Paid
    <3> QED
      BY <1>6, <3>1, <3>2 DEF Moved
  <2> QED
    BY <2>1, <2>2
<1>11. ASSUME NEW a, a # from, \A t \in s \cup {x} : a # t.to
       PROVE  BalanceOf(k, a) = BalanceOf(l, a)
  <2>1. a # to /\ \A t \in s : a # t.to
    BY <1>11 DEF Sends
  <2>2. BalanceOf(m, a) = BalanceOf(l, a)
    BY <1>11, <2>1 DEF Paid
  <2> QED
    BY <1>6, <1>11, <2>1, <2>2 DEF Moved
<1> QED
  BY <1>7, <1>8, <1>9, <1>10, <1>11 DEF k, Paid

\* All of the transfers: each account gets what is sent to it, and the one
\* that pays has paid the total.
LEMMA PaidAll ==
    ASSUME NEW l, NEW from, NEW ts, Payable(l, from, ts)
    PROVE  Paid(l, TransferredAll(l, from, ts), from, ts, Amounts(ts))
<1> DEFINE q == Amounts(ts)
           After(s) == Pays(l, from, ts)[s]
           Bad == {s \in SUBSET ts : ~Paid(l, After(s), from, s, q)}
<1>1. /\ IsTable(l) /\ IsFiniteSet(ts) /\ from \in DOMAIN l
      /\ SumOver(q, ts) <= l[from] /\ l[from] \in Int
  BY DEF Payable, SumOf, Amounts, IsTable
<1>2. IntOn(q, ts) /\ \A t \in ts : q[t] \in Nat /\ q[t] = t.quantity
  BY DEF Payable, Amounts, IntOn
<1>3. \A s \in SUBSET ts : After(s) = PayStep(l, from, Pays(l, from, ts), s)
  BY <1>1, PaysDefined
<1>4. SUFFICES ASSUME Bad # {} PROVE FALSE
  <2>1. ts \notin Bad
    BY <1>4
  <2>2. Paid(l, After(ts), from, ts, q)
    BY <2>1
  <2> QED
    BY <2>2, TransfersArePays
<1>5. PICK s \in Bad : \A r \in Bad : ~(r \subseteq s /\ r # s)
  <2>1. Bad \subseteq SUBSET ts
    OBVIOUS
  <2> HIDE DEF Bad
  <2> QED
    BY <1>1, <1>4, <2>1, LeastSubset
<1>6. s \in SUBSET ts /\ IsFiniteSet(s) /\ ~Paid(l, After(s), from, s, q)
  BY <1>1, <1>5, FS_Subset
<1>7. CASE s = {}
  <2>1. After(s) = l /\ SumOver(q, s) = 0 /\ BalanceOf(l, from) \in Int
    BY <1>1, <1>3, <1>7, SumEmpty, BalanceInt DEF PayStep
  <2>2. Paid(l, l, from, {}, q)
    BY <1>1, <1>7, <2>1 DEF Paid
  <2> QED
    BY <1>6, <1>7, <2>1, <2>2
<1>8. CASE s # {}
  <2> DEFINE x == Pick(s)
             r == s \ {x}
  <2>1. x \in s /\ r \in SUBSET ts /\ r \subseteq s /\ r # s /\ s = r \cup {x} /\ x \notin r
    BY <1>6, <1>8 DEF Pick
  <2>2. After(s) = Transferred(After(r), from, x.to, x.quantity)
    BY <1>3, <1>6, <1>8 DEF PayStep
  <2> HIDE DEF x, After, q
  <2>3. Paid(l, After(r), from, r, q)
    BY <1>5, <2>1
  <2>4. IsFiniteSet(r) /\ IntOn(q, r \cup {x})
    BY <1>2, <1>6, <2>1, FS_Subset DEF IntOn
  <2>5. SumOver(q, s) <= l[from]
    <3>1. SumOver(q, s) <= SumOver(q, ts)
      BY <1>1, <1>2, <1>6, SumPart
    <3>2. SumOver(q, s) \in Int /\ SumOver(q, ts) \in Int
      BY <1>1, <1>2, <1>6, SumInt
    <3> QED
      BY <1>1, <3>1, <3>2
  <2>6. x.quantity \in Int /\ x.quantity > 0 /\ q[x] = x.quantity /\ x.to # from
    BY <1>2, <1>6, <2>1 DEF Payable
  <2>7. Sends(x, x.to) /\ SendsElsewhere(r, x.to) /\ SendsElsewhere(r, from)
    BY <2>1, <1>6 DEF Payable, Sends, SendsElsewhere
  <2> HIDE DEF r
  <2>8. Paid(l, Transferred(After(r), from, x.to, x.quantity), from, r \cup {x}, q)
    <3>1. PICK to, v : to = x.to /\ v = x.quantity
      OBVIOUS
    <3>2. SumOver(q, r \cup {x}) <= l[from]
      BY <2>1, <2>5
    <3>3. v \in Int /\ v > 0 /\ q[x] = v /\ to # from
      BY <2>6, <3>1
    <3>4. Sends(x, to) /\ SendsElsewhere(r, to) /\ SendsElsewhere(r, from)
      BY <2>7, <3>1
    <3>5. Paid(l, Transferred(After(r), from, to, v), from, r \cup {x}, q)
      BY <1>1, <2>1, <2>3, <2>4, <3>2, <3>3, <3>4, PaidOneMore
    <3> QED
      BY <3>1, <3>5
  <2> QED
    BY <1>6, <2>1, <2>2, <2>8
<1> QED
  BY <1>7, <1>8

\* No row is negative after it.
LEMMA PaidNoDebts ==
    ASSUME NEW l, NEW from, NEW ts, NEW m, Payable(l, from, ts),
           Paid(l, m, from, ts, Amounts(ts))
    PROVE  NoDebts(m)
<1> SUFFICES ASSUME NEW a \in DOMAIN m PROVE m[a] >= 0
  BY DEF NoDebts
<1>1. m[a] = BalanceOf(m, a) /\ m[a] \in Int
  BY DEF BalanceOf, Paid, IsTable
<1>2. BalanceOf(l, a) \in Nat
  BY DEF Payable, IsTable, NoDebts, BalanceOf
<1>3. CASE a = from
  <2>1. SumOver(Amounts(ts), ts) \in Int /\ SumOver(Amounts(ts), ts) <= BalanceOf(l, a)
    <3>1. \A t \in ts : Amounts(ts)[t] \in Int
      BY DEF Payable, Amounts
    <3>2. SumOver(Amounts(ts), ts) \in Int
      BY <3>1, SumInt DEF Payable
    <3> QED
      BY <1>3, <3>2 DEF Payable, BalanceOf, SumOf, Amounts
  <2>2. BalanceOf(m, a) = BalanceOf(l, a) - SumOver(Amounts(ts), ts)
    BY <1>3 DEF Paid
  <2> QED
    BY <1>1, <1>2, <2>1, <2>2
<1>4. CASE \E t \in ts : a = t.to
  <2>1. PICK t \in ts : a = t.to
    BY <1>4
  <2>2. Amounts(ts)[t] \in Nat
    BY DEF Payable, Amounts
  <2>3. BalanceOf(m, a) = BalanceOf(l, a) + Amounts(ts)[t]
    BY <2>1 DEF Paid
  <2> QED
    BY <1>1, <1>2, <2>2, <2>3
<1>5. CASE a # from /\ \A t \in ts : a # t.to
  <2>1. BalanceOf(m, a) = BalanceOf(l, a)
    BY <1>5 DEF Paid
  <2> QED
    BY <1>1, <1>2, <2>1
<1> QED
  BY <1>3, <1>4, <1>5
=============================================================================
