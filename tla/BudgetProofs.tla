---------------------------- MODULE BudgetProofs ----------------------------
(***************************************************************************)
(* Proofs about Budget, for any number of requests, transactions, budgets  *)
(* and categories and any amounts.                                         *)
(*                                                                         *)
(* The total of a budget is off, at any moment, by what the requests under *)
(* way still have to add to it and to take from it.  Each step moves a     *)
(* transaction, a total and what its request owes by the same amount, as   *)
(* long as no request writes over a change of another.                     *)
(***************************************************************************)
EXTENDS Budget, FiniteSetTheorems, WellFoundedInduction, TLAPS

-----------------------------------------------------------------------------
(* Sums.  MapThenSumSet adds one chosen element after the other; for a finite set the order *)
(* makes no difference.                                                    *)

\* The least-number principle, for sets of numbers.
LEMMA Least ==
  ASSUME NEW T, T \subseteq Nat, T # {}
  PROVE  \E n \in T : \A m \in T : n <= m
<1> DEFINE R == OpToRel(<, Nat)
<1>1. \E n \in T : \A m \in T : <<m, n>> \notin R
  <2>1. IsWellFoundedOn(R, Nat)
    BY NatLessThanWellFounded
  <2> HIDE DEF R
  <2> QED
    BY <2>1, WFMin
<1>2. \A m, n \in Nat : m < n => <<m, n>> \in R
  BY DEF OpToRel
<1> HIDE DEF R
<1>3. PICK n \in T : \A m \in T : <<m, n>> \notin R
  BY <1>1
<1>4. ASSUME NEW m \in T
      PROVE  n <= m
  <2>1. m \in Nat /\ n \in Nat
    OBVIOUS
  <2>2. ~(m < n)
    BY <1>2, <1>3, <2>1
  <2> QED
    BY <2>1, <2>2
<1> QED
  BY <1>4

Pick(S) == CHOOSE x \in S : TRUE

SumOver(w, S) == MapThenSumSet(LAMBDA x : w[x], S)

\* One step of the recursion: the sum over s, from those over smaller sets.
StepOf(g, w, s) == IF s = {} THEN 0 ELSE w[Pick(s)] + g[s \ {Pick(s)}]

IsTable(g, w, S) == g = [s \in SUBSET S |-> StepOf(g, w, s)]

Table(w, S) == CHOOSE g : IsTable(g, w, S)

LEMMA SumIsTable ==
  ASSUME NEW w, NEW S
  PROVE  SumOver(w, S) = Table(w, S)[S]
  BY DEF SumOver, MapThenSumSet, MapThenFoldSet, Table, IsTable, StepOf, Pick

\* What a finite set is without the element that is added first.
LEMMA PickOf ==
  ASSUME NEW S, IsFiniteSet(S), S # {}
  PROVE  /\ Pick(S) \in S
         /\ IsFiniteSet(S \ {Pick(S)})
         /\ Cardinality(S) \in Nat /\ Cardinality(S \ {Pick(S)}) \in Nat
         /\ Cardinality(S \ {Pick(S)}) = Cardinality(S) - 1
<1>1. Pick(S) \in S
  BY DEF Pick
<1> QED
  BY <1>1, FS_RemoveElement, FS_CardinalityType

\* What holds of the empty set, and of a set when it holds of all that are smaller, holds of
\* all finite sets.
LEMMA TableExists ==
  ASSUME NEW S, IsFiniteSet(S), NEW w \in [S -> Int]
  PROVE  \E g \in [SUBSET S -> Int] : IsTable(g, w, S)
<1> DEFINE Good(n) == \E g \in [SUBSET S -> Int] :
                        \A s \in SUBSET S : Cardinality(s) <= n => g[s] = StepOf(g, w, s)
           bad == {n \in Nat : ~Good(n)}
<1>1. \A s \in SUBSET S : IsFiniteSet(s) /\ Cardinality(s) \in Nat
  BY FS_Subset, FS_CardinalityType
<1>2. \A s \in SUBSET S : s # {} => /\ Pick(s) \in s /\ Pick(s) \in S
                                    /\ s \ {Pick(s)} \in SUBSET S
                                    /\ Cardinality(s \ {Pick(s)}) = Cardinality(s) - 1
  BY <1>1, PickOf
<1>3. \A s \in SUBSET S : Cardinality(s) = 0 <=> s = {}
  BY <1>1, FS_EmptySet
<1>4. Good(0)
  <2> DEFINE g == [s \in SUBSET S |-> 0]
  <2>1. /\ g \in [SUBSET S -> Int]
        /\ \A s \in SUBSET S : Cardinality(s) <= 0 => g[s] = StepOf(g, w, s)
    BY <1>1, <1>3 DEF StepOf
  <2> QED
    BY <2>1
<1>5. ASSUME NEW n \in Nat, Good(n)
      PROVE  Good(n + 1)
  <2>1. PICK g \in [SUBSET S -> Int] :
               \A s \in SUBSET S : Cardinality(s) <= n => g[s] = StepOf(g, w, s)
    BY <1>5
  <2> DEFINE h == [s \in SUBSET S |-> IF Cardinality(s) <= n THEN g[s] ELSE StepOf(g, w, s)]
  <2>2. h \in [SUBSET S -> Int]
    <3>1. ASSUME NEW s \in SUBSET S
          PROVE  StepOf(g, w, s) \in Int
      <4>1. CASE s = {}
        BY <4>1 DEF StepOf
      <4>2. CASE s # {}
        <5>1. w[Pick(s)] \in Int /\ g[s \ {Pick(s)}] \in Int
          BY <1>2, <4>2
        <5> QED
          BY <4>2, <5>1 DEF StepOf
      <4> QED
        BY <4>1, <4>2
    <3> QED
      BY <3>1
  <2>3. \A s \in SUBSET S : Cardinality(s) <= n + 1 => StepOf(h, w, s) = StepOf(g, w, s)
    BY <1>1, <1>2 DEF StepOf
  <2>4. \A s \in SUBSET S : h[s] = StepOf(g, w, s) \/ ~(Cardinality(s) <= n + 1)
    BY <2>1
  <2> HIDE DEF h
  <2> QED
    BY <2>2, <2>3, <2>4
<1>6. bad = {}
  <2> SUFFICES ASSUME bad # {}
               PROVE  FALSE
    OBVIOUS
  <2>1. PICK n \in bad : \A m \in bad : n <= m
    <3>1. bad \subseteq Nat
      OBVIOUS
    <3> HIDE DEF bad
    <3> QED
      BY <3>1, Least
  <2> HIDE DEF Good
  <2>2. n \in Nat /\ n # 0 /\ ~Good(n)
    BY <1>4
  <2>3. Good(n - 1)
    BY <2>1, <2>2
  <2> QED
    BY <1>5, <2>2, <2>3
<1>7. Good(Cardinality(S))
  <2> HIDE DEF Good
  <2> QED
    BY <1>1, <1>6
<1>8. \A s \in SUBSET S : Cardinality(s) <= Cardinality(S)
  BY FS_Subset
<1>9. PICK g \in [SUBSET S -> Int] : \A s \in SUBSET S : g[s] = StepOf(g, w, s)
  BY <1>7, <1>8
<1> QED
  BY <1>9 DEF IsTable

\* g holds the sums of w over the subsets of S.
Sums(g, w, S) == \A s \in SUBSET S : g[s] = StepOf(g, w, s)

LEMMA TableOf ==
  ASSUME NEW S, IsFiniteSet(S), NEW w \in [S -> Int]
  PROVE  Sums(Table(w, S), w, S)
<1>1. \E g : IsTable(g, w, S)
  BY TableExists
<1>2. IsTable(Table(w, S), w, S)
  BY <1>1, Zenon DEF Table
<1> HIDE DEF Table
<1>3. ASSUME NEW h, IsTable(h, w, S), NEW s \in SUBSET S
      PROVE  h[s] = StepOf(h, w, s)
  BY <1>3, Zenon DEF IsTable
<1> QED
  BY <1>2, <1>3, Zenon DEF Sums

\* Two tables agree where their weights do.
LEMMA TablesAgree ==
  ASSUME NEW S, IsFiniteSet(S), NEW g, NEW h, NEW w, NEW v,
         Sums(g, w, S), Sums(h, v, S), \A x \in S : w[x] = v[x]
  PROVE  \A s \in SUBSET S : g[s] = h[s]
<1> DEFINE bad == {n \in Nat : \E s \in SUBSET S : Cardinality(s) = n /\ g[s] # h[s]}
<1>1. \A s \in SUBSET S : IsFiniteSet(s) /\ Cardinality(s) \in Nat
  BY FS_Subset, FS_CardinalityType
<1>2. bad = {}
  <2> SUFFICES ASSUME bad # {}
               PROVE  FALSE
    OBVIOUS
  <2>1. PICK n \in bad : \A m \in bad : n <= m
    <3>1. bad \subseteq Nat
      OBVIOUS
    <3> HIDE DEF bad
    <3> QED
      BY <3>1, Least
  <2>2. PICK s \in SUBSET S : Cardinality(s) = n /\ g[s] # h[s]
    OBVIOUS
  <2>3. s # {}
    BY <2>2 DEF Sums, StepOf
  <2>4. /\ Pick(s) \in S
        /\ s \ {Pick(s)} \in SUBSET S
        /\ Cardinality(s \ {Pick(s)}) = n - 1 /\ n - 1 \in Nat
    BY <1>1, <2>2, <2>3, PickOf
  <2>5. n - 1 \notin bad
    BY <2>1, <2>4
  <2>6. g[s \ {Pick(s)}] = h[s \ {Pick(s)}]
    BY <2>4, <2>5
  <2> QED
    BY <2>2, <2>3, <2>4, <2>6 DEF Sums, StepOf
<1> QED
  BY <1>1, <1>2

\* A sum is that of any table that holds more.
LEMMA SumIn ==
  ASSUME NEW D, IsFiniteSet(D), NEW w \in [D -> Int], NEW S \in SUBSET D
  PROVE  SumOver(w, S) = Table(w, D)[S]
<1>1. IsFiniteSet(S)
  BY FS_Subset
<1> DEFINE v == [x \in S |-> w[x]]
<1>2. Sums(Table(v, S), v, S) /\ Sums(Table(w, D), w, S)
  BY <1>1, TableOf DEF Sums
<1>3. Table(v, S)[S] = Table(w, D)[S]
  <2>1. \A x \in S : v[x] = w[x]
    OBVIOUS
  <2> HIDE DEF v
  <2> QED
    BY <1>1, <1>2, <2>1, TablesAgree
<1>4. Table(v, S) = Table(w, S)
  <2>1. ASSUME NEW g, NEW s \in SUBSET S
        PROVE  StepOf(g, v, s) = StepOf(g, w, s)
    <3>1. s # {} => Pick(s) \in S
      BY <1>1, FS_Subset, PickOf
    <3> QED
      BY <3>1 DEF StepOf
  <2> HIDE DEF v
  <2>2. \A g : [s \in SUBSET S |-> StepOf(g, v, s)] = [s \in SUBSET S |-> StepOf(g, w, s)]
    BY <2>1
  <2> QED
    BY <2>2 DEF Table, IsTable
<1> QED
  BY <1>3, <1>4, SumIsTable

\* g holds the sums of w over the subsets of D.
Adds(g, w, D) ==
  /\ \A S \in SUBSET D : g[S] \in Int /\ SumOver(w, S) = g[S]
  /\ g[{}] = 0
  /\ \A S \in SUBSET D : S # {} => Pick(S) \in S /\ g[S] = w[Pick(S)] + g[S \ {Pick(S)}]

LEMMA SumTable ==
  ASSUME NEW D, IsFiniteSet(D), NEW w \in [D -> Int]
  PROVE  \E g : Adds(g, w, D)
<1>1. PICK g \in [SUBSET D -> Int] : IsTable(g, w, D)
  BY TableExists
<1>2. ASSUME NEW S \in SUBSET D
      PROVE  g[S] = StepOf(g, w, S)
  BY <1>1, Zenon DEF IsTable
<1>3. Sums(g, w, D) /\ Sums(Table(w, D), w, D)
  BY <1>2, TableOf DEF Sums
<1>4. \A S \in SUBSET D : g[S] = Table(w, D)[S]
  BY <1>3, TablesAgree
<1>5. \A S \in SUBSET D : SumOver(w, S) = g[S]
  BY <1>4, SumIn
<1>6. g[{}] = 0
  BY <1>2 DEF StepOf
<1>7. ASSUME NEW S \in SUBSET D, S # {}
      PROVE  Pick(S) \in S /\ g[S] = w[Pick(S)] + g[S \ {Pick(S)}]
  <2>1. IsFiniteSet(S)
    BY FS_Subset
  <2> QED
    BY <1>2, <1>7, <2>1, PickOf DEF StepOf
<1> QED
  BY <1>5, <1>6, <1>7 DEF Adds

LEMMA SmallerOf ==
  ASSUME NEW s, IsFiniteSet(s), NEW x \in s
  PROVE  Cardinality(s \ {x}) = Cardinality(s) - 1
  BY FS_RemoveElement

LEMMA SumType ==
  ASSUME NEW D, IsFiniteSet(D), NEW w \in [D -> Int], NEW S \in SUBSET D
  PROVE  SumOver(w, S) \in Int
<1>1. PICK g : Adds(g, w, D)
  BY SumTable
<1> QED
  BY <1>1 DEF Adds

LEMMA SumEmpty ==
  ASSUME NEW D, IsFiniteSet(D), NEW w \in [D -> Int]
  PROVE  SumOver(w, {}) = 0
<1>1. PICK g : Adds(g, w, D)
  BY SumTable
<1> QED
  BY <1>1 DEF Adds

LEMMA SumSame ==
  ASSUME NEW D, IsFiniteSet(D), NEW w \in [D -> Int], NEW v \in [D -> Int],
         NEW S \in SUBSET D, \A x \in S : w[x] = v[x]
  PROVE  SumOver(w, S) = SumOver(v, S)
<1>1. IsFiniteSet(S)
  BY FS_Subset
<1>2. Sums(Table(w, D), w, S) /\ Sums(Table(v, D), v, S)
  BY TableOf DEF Sums
<1>3. Table(w, D)[S] = Table(v, D)[S]
  BY <1>1, <1>2, TablesAgree
<1> QED
  BY <1>3, SumIn

LEMMA SumSplit ==
  ASSUME NEW D, IsFiniteSet(D), NEW w \in [D -> Int], NEW S \in SUBSET D, NEW x \in S
  PROVE  SumOver(w, S) = w[x] + SumOver(w, S \ {x})
<1>1. PICK g : Adds(g, w, D)
  BY SumTable
<1> DEFINE bad == {n \in Nat : \E s \in SUBSET D, y \in D :
                                  y \in s /\ Cardinality(s) = n /\ g[s] # w[y] + g[s \ {y}]}
<1>2. \A s \in SUBSET D : IsFiniteSet(s) /\ Cardinality(s) \in Nat
  BY FS_Subset, FS_CardinalityType
<1>3. bad = {}
  <2> SUFFICES ASSUME bad # {}
               PROVE  FALSE
    OBVIOUS
  <2>1. PICK n \in bad : \A m \in bad : n <= m
    <3>1. bad \subseteq Nat
      OBVIOUS
    <3> HIDE DEF bad
    <3> QED
      BY <3>1, Least
  <2>2. PICK s \in SUBSET D, y \in D : y \in s /\ Cardinality(s) = n /\ g[s] # w[y] + g[s \ {y}]
    OBVIOUS
  <2> DEFINE p == Pick(s)
  <2>3. p \in s /\ p \in D /\ g[s] = w[p] + g[s \ {p}]
    BY <1>1, <2>2 DEF Adds
  <2> HIDE DEF p
  <2>4. p # y
    BY <2>2, <2>3
  <2>4a. IsFiniteSet(s) /\ s \ {p} \in SUBSET D /\ s \ {y} \in SUBSET D
    BY <1>2
  <2>4b. Cardinality(s \ {p}) = n - 1 /\ Cardinality(s \ {y}) = n - 1
    BY <2>2, <2>3, <2>4a, SmallerOf
  <2>5. /\ s \ {p} \in SUBSET D /\ s \ {y} \in SUBSET D
        /\ Cardinality(s \ {p}) = n - 1 /\ Cardinality(s \ {y}) = n - 1
        /\ n - 1 \in Nat
    BY <1>2, <2>4a, <2>4b
  <2>6. n - 1 \notin bad
    <3>1. n \in Nat /\ ~(n <= n - 1)
      BY <2>2, <2>5
    <3> HIDE DEF bad
    <3> QED
      BY <2>1, <3>1
  <2>7. g[s \ {p}] = w[y] + g[(s \ {p}) \ {y}]
    BY <2>2, <2>4, <2>5, <2>6
  <2>8. g[s \ {y}] = w[p] + g[(s \ {y}) \ {p}]
    BY <2>3, <2>4, <2>5, <2>6
  <2>9. g[(s \ {p}) \ {y}] = g[(s \ {y}) \ {p}]
    <3>1. (s \ {p}) \ {y} = (s \ {y}) \ {p}
      OBVIOUS
    <3> QED
      BY <3>1
  <2>10. /\ w[p] \in Int /\ w[y] \in Int
         /\ g[(s \ {p}) \ {y}] \in Int /\ g[s \ {y}] \in Int /\ g[s \ {p}] \in Int
    BY <1>1, <2>2, <2>3 DEF Adds
  <2> QED
    BY <2>2, <2>3, <2>7, <2>8, <2>9, <2>10
<1>4. g[S] = w[x] + g[S \ {x}]
  BY <1>2, <1>3
<1> QED
  BY <1>1, <1>4 DEF Adds

\* One weight changes.
LEMMA SumChange ==
  ASSUME NEW D, IsFiniteSet(D), NEW w \in [D -> Int], NEW v \in [D -> Int], NEW x \in D,
         \A y \in D \ {x} : w[y] = v[y]
  PROVE  SumOver(v, D) = SumOver(w, D) + v[x] - w[x]
<1>1. SumOver(v, D) = v[x] + SumOver(v, D \ {x}) /\ SumOver(w, D) = w[x] + SumOver(w, D \ {x})
  BY SumSplit
<1>2. SumOver(v, D \ {x}) = SumOver(w, D \ {x})
  BY SumSame
<1>3. SumOver(w, D \ {x}) \in Int /\ v[x] \in Int /\ w[x] \in Int
  BY SumType
<1> QED
  BY <1>1, <1>2, <1>3

LEMMA SumNat ==
  ASSUME NEW D, IsFiniteSet(D), NEW w \in [D -> Nat], NEW S \in SUBSET D
  PROVE  SumOver(w, S) \in Nat
<1>1. w \in [D -> Int]
  OBVIOUS
<1>2. PICK g : Adds(g, w, D)
  BY <1>1, SumTable
<1> DEFINE bad == {n \in Nat : \E s \in SUBSET D : Cardinality(s) = n /\ g[s] \notin Nat}
<1>3. \A s \in SUBSET D : IsFiniteSet(s) /\ Cardinality(s) \in Nat
  BY FS_Subset, FS_CardinalityType
<1>4. bad = {}
  <2> SUFFICES ASSUME bad # {}
               PROVE  FALSE
    OBVIOUS
  <2>1. PICK n \in bad : \A m \in bad : n <= m
    <3>1. bad \subseteq Nat
      OBVIOUS
    <3> HIDE DEF bad
    <3> QED
      BY <3>1, Least
  <2>2. PICK s \in SUBSET D : Cardinality(s) = n /\ g[s] \notin Nat
    OBVIOUS
  <2> DEFINE p == Pick(s)
  <2>2a. s # {}
    <3> SUFFICES ASSUME s = {}
                 PROVE  FALSE
      OBVIOUS
    <3>1. g[s] = 0
      BY <1>2 DEF Adds
    <3> QED
      BY <2>2, <3>1
  <2>3. p \in s /\ p \in D /\ g[s] = w[p] + g[s \ {p}]
    BY <1>2, <2>2a DEF Adds
  <2> HIDE DEF p
  <2>4. s \ {p} \in SUBSET D /\ Cardinality(s \ {p}) = n - 1 /\ n - 1 \in Nat
    BY <1>3, <2>2, <2>3, SmallerOf
  <2>5. n - 1 \notin bad
    BY <2>1, <2>4
  <2>6. g[s \ {p}] \in Nat /\ w[p] \in Nat
    BY <2>3, <2>4, <2>5
  <2> QED
    BY <2>2, <2>3, <2>6
<1>5. g[S] \in Nat
  BY <1>3, <1>4
<1> QED
  BY <1>2, <1>5 DEF Adds

LEMMA SumZero ==
  ASSUME NEW D, IsFiniteSet(D), NEW w \in [D -> Int], \A x \in D : w[x] = 0
  PROVE  SumOver(w, D) = 0
<1>1. PICK g : Adds(g, w, D)
  BY SumTable
<1> DEFINE bad == {n \in Nat : \E s \in SUBSET D : Cardinality(s) = n /\ g[s] # 0}
<1>2. \A s \in SUBSET D : IsFiniteSet(s) /\ Cardinality(s) \in Nat
  BY FS_Subset, FS_CardinalityType
<1>3. bad = {}
  <2> SUFFICES ASSUME bad # {}
               PROVE  FALSE
    OBVIOUS
  <2>1. PICK n \in bad : \A m \in bad : n <= m
    <3>1. bad \subseteq Nat
      OBVIOUS
    <3> HIDE DEF bad
    <3> QED
      BY <3>1, Least
  <2>2. PICK s \in SUBSET D : Cardinality(s) = n /\ g[s] # 0
    OBVIOUS
  <2> DEFINE p == Pick(s)
  <2>3. p \in s /\ p \in D /\ g[s] = w[p] + g[s \ {p}]
    BY <1>1, <2>2 DEF Adds
  <2> HIDE DEF p
  <2>4. s \ {p} \in SUBSET D /\ Cardinality(s \ {p}) = n - 1 /\ n - 1 \in Nat
    BY <1>2, <2>2, <2>3, SmallerOf
  <2>5. n - 1 \notin bad
    BY <2>1, <2>4
  <2>6. g[s \ {p}] = 0 /\ w[p] = 0
    BY <2>3, <2>4, <2>5
  <2> QED
    BY <2>2, <2>3, <2>6
<1> QED
  BY <1>1, <1>2, <1>3 DEF Adds

\* A sum over a part of a set is one over the whole in which the others count nothing.
LEMMA SumPart ==
  ASSUME NEW D, IsFiniteSet(D), NEW w \in [D -> Int], NEW v \in [D -> Int], NEW S \in SUBSET D,
         \A x \in D : v[x] = IF x \in S THEN w[x] ELSE 0
  PROVE  SumOver(v, D) = SumOver(w, S)
<1>1. PICK g : Adds(g, v, D)
  BY SumTable
<1>2. PICK h : Adds(h, w, D)
  BY SumTable
<1> DEFINE bad == {n \in Nat : \E s \in SUBSET D : Cardinality(s) = n /\ g[s] # h[s \cap S]}
<1>3. \A s \in SUBSET D : IsFiniteSet(s) /\ Cardinality(s) \in Nat
  BY FS_Subset, FS_CardinalityType
<1>4. bad = {}
  <2> SUFFICES ASSUME bad # {}
               PROVE  FALSE
    OBVIOUS
  <2>1. PICK n \in bad : \A m \in bad : n <= m
    <3>1. bad \subseteq Nat
      OBVIOUS
    <3> HIDE DEF bad
    <3> QED
      BY <3>1, Least
  <2>2. PICK s \in SUBSET D : Cardinality(s) = n /\ g[s] # h[s \cap S]
    OBVIOUS
  <2>3. s # {}
    <3> SUFFICES ASSUME s = {}
                 PROVE  FALSE
      OBVIOUS
    <3>1. s \cap S = {}
      OBVIOUS
    <3>2. g[s] = 0 /\ h[s \cap S] = 0
      BY <1>1, <1>2, <3>1 DEF Adds
    <3> QED
      BY <2>2, <3>2
  <2> DEFINE p == Pick(s)
  <2>4. p \in s /\ p \in D /\ g[s] = v[p] + g[s \ {p}]
    BY <1>1, <2>3 DEF Adds
  <2> HIDE DEF p
  <2>5. s \ {p} \in SUBSET D /\ Cardinality(s \ {p}) = n - 1 /\ n - 1 \in Nat
    BY <1>3, <2>2, <2>4, SmallerOf
  <2>6. n - 1 \notin bad
    <3>1. n \in Nat /\ ~(n <= n - 1)
      BY <2>2, <2>5
    <3> HIDE DEF bad
    <3> QED
      BY <2>1, <3>1
  <2>7. g[s \ {p}] = h[(s \ {p}) \cap S]
    BY <2>5, <2>6
  <2>8. h[s \cap S] = v[p] + h[(s \ {p}) \cap S]
    <3>1. CASE p \in S
      <4>1. p \in s \cap S /\ s \cap S \in SUBSET D /\ (s \cap S) \ {p} \in SUBSET D
        BY <2>4, <3>1
      <4>2. SumOver(w, s \cap S) = w[p] + SumOver(w, (s \cap S) \ {p})
        BY <4>1, SumSplit
      <4>3. h[s \cap S] = w[p] + h[(s \cap S) \ {p}]
        BY <1>2, <4>1, <4>2 DEF Adds
      <4>4. (s \cap S) \ {p} = (s \ {p}) \cap S
        OBVIOUS
      <4> QED
        BY <2>4, <3>1, <4>3, <4>4
    <3>2. CASE p \notin S
      <4>1. h[(s \ {p}) \cap S] = h[s \cap S]
        <5>1. (s \ {p}) \cap S = s \cap S
          BY <3>2
        <5> QED
          BY <5>1
      <4>2. s \cap S \in SUBSET D
        OBVIOUS
      <4>3. h[s \cap S] \in Int
        BY <1>2, <4>2 DEF Adds
      <4>4. v[p] = 0
        BY <2>4, <3>2
      <4> QED
        BY <4>1, <4>3, <4>4
    <3> QED
      BY <3>1, <3>2
  <2> QED
    BY <2>2, <2>4, <2>7, <2>8
<1>5. g[D] = h[D \cap S]
  BY <1>3, <1>4
<1>6. D \cap S = S
  OBVIOUS
<1> QED
  BY <1>1, <1>2, <1>5, <1>6 DEF Adds

-----------------------------------------------------------------------------
(* What rows, drafts and totals are.                                       *)

AnyRow == [kind : Kinds \cup {"new", "gone"}, amount : 0..MaxAmount,
           category : Categories \cup {Null}, link : Budgets \cup {Null}]

Drafts == [tx : Txs \cup {Null}, less : AnyRow, more : AnyRow, own : BOOLEAN,
           budget : Budgets \cup {Null}, base : 0..MaxSpent, category : Categories \cup {Null}, sum : Nat]

BudgetRows == [there : {"new", "open", "gone"}, spent : 0..MaxSpent,
               category : Categories \cup {Null}]

\* The budgets that were ever there.
Known == {b \in Budgets : budget[b].there # "new"} \cup {Null}

StoreTypes ==
  /\ tx \in [Txs -> Rows \cup {New, Gone}]
  /\ \A t \in Txs : tx[t].link \in Open \cup {Null}
  /\ budget \in [Budgets -> BudgetRows]
  /\ \A b \in Budgets : budget[b].there = "new" => budget[b] = NewBudget

\* What a request whose next round trip is p can hold in its draft d, when K were there.
FitsAt(p, d, K) ==
  /\ d.less.link \in K /\ d.more.link \in K
  /\ p \in {"update", "approve", "delete"} => d.tx \in Txs /\ d.less \in Rows
  /\ p = "update" => ~d.own
  /\ p = "update" => d.more \in Rows
  /\ p = "approve" =>
       /\ d.less.kind # "spent"
       /\ d.more = IF d.less.kind = "pending" THEN [d.less EXCEPT !.kind = "spent"] ELSE New
  /\ p = "delete" => d.more = Gone
  /\ p \in {"findLess", "subtract"} =>
       /\ d.less \in Rows /\ d.less.kind = "spent" /\ d.less.link # Null
       /\ d.more \in Rows \cup {New, Gone}
       /\ d.more = Gone => d.tx \in Txs
  /\ p \in {"findLess", "subtract"} => ~d.own
  /\ p = "subtract" => d.budget = d.less.link
  /\ p \in {"findMore", "add"} =>
       d.more \in Rows /\ d.more.kind = "spent" /\ d.less \in {New, Gone}
  /\ p = "add" => /\ d.budget \in Budgets /\ (d.more.link # Null => d.budget = d.more.link)
                 /\ (d.own => Owner[d.budget] = Owner[d.tx])
  /\ p \in {"recalculate", "linked", "unlinked", "store", "drop"} => d.budget \in K \ {Null}

BudgetTypes ==
  /\ StoreTypes
  /\ pc \in [Clients -> Steps]
  /\ draft \in [Clients -> Drafts]
  /\ was \in {"exact", "apart", "raced"}
  /\ \A c \in Clients : FitsAt(pc[c], draft[c], Known)

\* What row, of transaction t, adds to the total of b, and what it would with category k and
\* no link.
Counts(t, row, b) ==
  IF row.kind = "spent" /\ Owner[t] = Owner[b] /\ row.link = b THEN row.amount ELSE 0
Frees(t, row, b, k) ==
  IF /\ row.kind = "spent" /\ Owner[t] = Owner[b] /\ row.link = Null
     /\ k # Null /\ row.category = k
  THEN row.amount ELSE 0

LinkedIn(f, b) == SumOver([t \in Txs |-> Counts(t, f[t], b)], Txs)
FreeIn(f, b, k) == SumOver([t \in Txs |-> Frees(t, f[t], b, k)], Txs)

\* What a request still has to take from the total of b, less what it has to add.
OweOf(p, d, b) ==
  IF p \in {"findLess", "subtract"} /\ d.more # Gone THEN Counts(d.tx, d.less, b) - Counts(d.tx, d.more, b)
  ELSE IF p \in {"findMore", "add"} /\ d.less # New THEN 0 - Counts(d.tx, d.more, b)
  ELSE IF p = "delete" THEN 0 - Counts(d.tx, d.less, b)
  ELSE 0

Owes(c, b) == OweOf(pc[c], draft[c], b)
OwedOf(b) == SumOver([c \in Clients |-> Owes(c, b)], Clients)

Balance(b) == budget[b].spent = LinkedIn(tx, b) + OwedOf(b)

\* The links to b are cleared, and b goes.
Dropping(b) == \E c \in Clients : pc[c] = "drop" /\ draft[c].budget = b

\* As long as nothing raced or came apart.
Exact ==
  was = "exact" =>
    /\ \A b \in Open : Unlinked(b, budget[b].category) = {}
    /\ \A c \in Clients : pc[c] = "add" => draft[c].more.link # Null /\ draft[c].less # New
    /\ \A c \in Clients :
         pc[c] \in {"subtract", "add"} => Owner[draft[c].budget] = Owner[draft[c].tx]
    /\ \A b \in Open : ~Dropping(b) => Balance(b)

\* What a recalculation has read and counted is still so.
Recounts(c) ==
  LET d == draft[c]
  IN /\ pc[c] \in {"linked", "unlinked"} /\ d.budget \in Open =>
          d.category = budget[d.budget].category
     /\ pc[c] = "unlinked" => d.sum = LinkedIn(tx, d.budget)
     /\ pc[c] = "store" /\ d.budget \in Open =>
          d.sum = LinkedIn(tx, d.budget) + FreeIn(tx, d.budget, budget[d.budget].category)

Recounted == was # "raced" => \A c \in Clients : Busy = {c} => Recounts(c)

BudgetInv == BudgetTypes /\ Exact /\ Recounted

LEMMA RowsOf ==
  /\ Rows \subseteq AnyRow /\ New \in AnyRow /\ Gone \in AnyRow
  /\ New.kind = "new" /\ Gone.kind = "gone" /\ New.link = Null /\ Gone.link = Null
  /\ New # Gone /\ New \notin Rows /\ Gone \notin Rows
  /\ \A r \in Rows : /\ r.kind \in Kinds /\ r.amount \in Nat /\ r.link \in Budgets \cup {Null}
                     /\ r.category \in Categories \cup {Null}
  BY MaxAmountAssumption DEF Rows, AnyRow, New, Gone, Kinds, Amounts

LEMMA CountsOf ==
  /\ \A r \in AnyRow : \A t, b, k : Counts(t, r, b) \in Nat /\ Frees(t, r, b, k) \in Nat
  /\ \A t, b, k : /\ Counts(t, New, b) = 0 /\ Counts(t, Gone, b) = 0
                  /\ Frees(t, New, b, k) = 0 /\ Frees(t, Gone, b, k) = 0
  /\ \A t, r, b : r.kind # "spent" \/ r.link # b \/ Owner[t] # Owner[b] => Counts(t, r, b) = 0
  BY MaxAmountAssumption, RowsOf DEF Counts, Frees, AnyRow

LEMMA OweOfIdle == \A d, b : OweOf("idle", d, b) = 0
  BY DEF OweOf

LEMMA NoDraftOf ==
  /\ NoDraft \in Drafts
  /\ \A K : Null \in K => FitsAt("idle", NoDraft, K)
  BY RowsOf, MaxSpentAssumption DEF NoDraft, Drafts, FitsAt

LEMMA DraftOf ==
  ASSUME NEW t \in Txs \cup {Null}, NEW l \in AnyRow, NEW m \in AnyRow
  PROVE  /\ [NoDraft EXCEPT !.tx = t, !.less = l, !.more = m] \in Drafts
         /\ [NoDraft EXCEPT !.tx = t, !.less = l, !.more = m].tx = t
         /\ [NoDraft EXCEPT !.tx = t, !.less = l, !.more = m].less = l
         /\ [NoDraft EXCEPT !.tx = t, !.less = l, !.more = m].more = m
  BY NoDraftOf DEF Drafts

LEMMA MaxOf == \A n \in Int : Max({0, n}) = IF n > 0 THEN n ELSE 0
<1> SUFFICES ASSUME NEW n \in Int
             PROVE  Max({0, n}) = IF n > 0 THEN n ELSE 0
  OBVIOUS
<1> DEFINE m == IF n > 0 THEN n ELSE 0
<1>1. m \in {0, n} \/ n < 0
  OBVIOUS
<1>2. m \in {0, n} /\ \A y \in {0, n} : m >= y
  OBVIOUS
<1>3. \A x \in {0, n} : (\A y \in {0, n} : x >= y) => x = m
  OBVIOUS
<1> HIDE DEF m
<1>4. Max({0, n}) = m
  BY <1>2, <1>3, Zenon DEF Max
<1> QED
  BY <1>4 DEF m

-----------------------------------------------------------------------------
(* Sums of amounts.                                                        *)

AmountsIn(f, S) == MapThenSumSet(LAMBDA t : f[t].amount, S)

LEMMA SumIs ==
  /\ \A S : Sum(S) = AmountsIn(tx, S)
  /\ \A S : Sum(S)' = AmountsIn(tx', S)
<1>1. \A S : Sum(S) = AmountsIn(tx, S)
  BY DEF Sum, AmountsIn, MapThenSumSet, MapThenFoldSet
<1>2. \A S : Sum(S)' = AmountsIn(tx', S)
  BY DEF Sum, AmountsIn, MapThenSumSet, MapThenFoldSet
<1> QED
  BY <1>1, <1>2

LEMMA AmountsAre ==
  ASSUME NEW f \in [Txs -> AnyRow], NEW S \in SUBSET Txs
  PROVE  AmountsIn(f, S) = SumOver([t \in Txs |-> f[t].amount], S)
<1> DEFINE w == [t \in Txs |-> f[t].amount]
           step(g, s) == IF s = {} THEN 0 ELSE f[Pick(s)].amount + g[s \ {Pick(s)}]
<1>1. ASSUME NEW g, NEW s \in SUBSET S
      PROVE  step(g, s) = StepOf(g, w, s)
  <2>1. s # {} => Pick(s) \in Txs
    BY DEF Pick
  <2> QED
    BY <2>1 DEF StepOf
<1>2. AmountsIn(f, S) = (CHOOSE g : g = [s \in SUBSET S |-> step(g, s)])[S]
  BY DEF AmountsIn, MapThenSumSet, MapThenFoldSet, Pick
<1>3. SumOver(w, S) = (CHOOSE g : g = [s \in SUBSET S |-> StepOf(g, w, s)])[S]
  BY SumIsTable DEF Table, IsTable
<1> HIDE DEF w, step
<1>4. \A g : [s \in SUBSET S |-> step(g, s)] = [s \in SUBSET S |-> StepOf(g, w, s)]
  BY <1>1
<1>5. (CHOOSE g : g = [s \in SUBSET S |-> step(g, s)]) =
        (CHOOSE g : g = [s \in SUBSET S |-> StepOf(g, w, s)])
  BY <1>4
<1>6. AmountsIn(f, S) = SumOver(w, S)
  BY <1>2, <1>3, <1>5
<1> QED
  BY <1>6 DEF w

\* What the two queries of a recalculation count.
LEMMA TotalsIn ==
  ASSUME NEW f \in [Txs -> AnyRow], NEW b, NEW k
  PROVE  /\ AmountsIn(f, {t \in Txs : /\ f[t].kind = "spent" /\ Owner[t] = Owner[b]
                                      /\ f[t].link = b}) = LinkedIn(f, b)
         /\ AmountsIn(f, {t \in Txs : /\ f[t].kind = "spent" /\ Owner[t] = Owner[b]
                                      /\ f[t].link = Null
                                      /\ k # Null /\ f[t].category = k}) = FreeIn(f, b, k)
<1> DEFINE w == [t \in Txs |-> f[t].amount]
           S == {t \in Txs : f[t].kind = "spent" /\ Owner[t] = Owner[b] /\ f[t].link = b}
           U == {t \in Txs : /\ f[t].kind = "spent" /\ Owner[t] = Owner[b] /\ f[t].link = Null
                             /\ k # Null /\ f[t].category = k}
           v == [t \in Txs |-> Counts(t, f[t], b)]
           u == [t \in Txs |-> Frees(t, f[t], b, k)]
<1>1. S \in SUBSET Txs /\ U \in SUBSET Txs
  OBVIOUS
<1>2. \A t \in Txs : f[t].amount \in Int
  BY DEF AnyRow
<1>3. w \in [Txs -> Int]
  BY <1>2
<1>4. /\ \A t \in Txs : v[t] = IF t \in S THEN w[t] ELSE 0
      /\ \A t \in Txs : u[t] = IF t \in U THEN w[t] ELSE 0
  BY DEF Counts, Frees
<1>5. v \in [Txs -> Int] /\ u \in [Txs -> Int]
  <2>1. \A t \in Txs : Counts(t, f[t], b) \in Int /\ Frees(t, f[t], b, k) \in Int
    BY <1>2 DEF Counts, Frees
  <2> QED
    BY <2>1
<1>6. AmountsIn(f, S) = SumOver(w, S) /\ AmountsIn(f, U) = SumOver(w, U)
  BY <1>1, AmountsAre
<1>7. SumOver(v, Txs) = SumOver(w, S) /\ SumOver(u, Txs) = SumOver(w, U)
  <2> HIDE DEF v, w, u, S, U
  <2> QED
    BY <1>1, <1>3, <1>4, <1>5, SumPart, FiniteAssumption
<1> QED
  BY <1>6, <1>7 DEF LinkedIn, FreeIn

LEMMA RowsTyped ==
  /\ StoreTypes => tx \in [Txs -> AnyRow]
  /\ StoreTypes' => tx' \in [Txs -> AnyRow]
  BY RowsOf DEF StoreTypes

LEMMA TotalsAre ==
  ASSUME StoreTypes, NEW b, NEW k
  PROVE  Sum(Linked(b)) = LinkedIn(tx, b) /\ Sum(Unlinked(b, k)) = FreeIn(tx, b, k)
<1>1. Linked(b) = {t \in Txs : tx[t].kind = "spent" /\ Owner[t] = Owner[b] /\ tx[t].link = b}
  BY DEF Linked, Spent
<1>2. Unlinked(b, k) = {t \in Txs : /\ tx[t].kind = "spent" /\ Owner[t] = Owner[b]
                                    /\ tx[t].link = Null /\ k # Null /\ tx[t].category = k}
  BY DEF Unlinked, Spent
<1> QED
  BY <1>1, <1>2, SumIs, TotalsIn, RowsTyped

LEMMA TotalsWillBe ==
  ASSUME StoreTypes', NEW b, NEW k
  PROVE  /\ AmountsIn(tx', Linked(b)') = LinkedIn(tx', b)
         /\ AmountsIn(tx', Unlinked(b, k)') = FreeIn(tx', b, k)
<1>1. Linked(b)' = {t \in Txs : /\ tx'[t].kind = "spent" /\ Owner[t] = Owner[b]
                                /\ tx'[t].link = b}
  BY DEF Linked, Spent
<1>2. Unlinked(b, k)' = {t \in Txs : /\ tx'[t].kind = "spent" /\ Owner[t] = Owner[b]
                                     /\ tx'[t].link = Null /\ k # Null /\ tx'[t].category = k}
  BY DEF Unlinked, Spent
<1> QED
  BY <1>1, <1>2, TotalsIn, RowsTyped

LEMMA InType ==
  ASSUME NEW f \in [Txs -> AnyRow], NEW b
  PROVE  LinkedIn(f, b) \in Nat /\ \A k : FreeIn(f, b, k) \in Nat
<1>1. \A t \in Txs : Counts(t, f[t], b) \in Nat /\ \A k : Frees(t, f[t], b, k) \in Nat
  BY CountsOf
<1>2. /\ [t \in Txs |-> Counts(t, f[t], b)] \in [Txs -> Nat]
      /\ \A k : [t \in Txs |-> Frees(t, f[t], b, k)] \in [Txs -> Nat]
  BY <1>1
<1> QED
  BY <1>2, SumNat, FiniteAssumption, Zenon DEF LinkedIn, FreeIn

\* One row changes, or none that counts.
LEMMA InChange ==
  ASSUME NEW f \in [Txs -> AnyRow], NEW g \in [Txs -> AnyRow], NEW b, NEW t \in Txs,
         \A u \in Txs \ {t} : Counts(u, f[u], b) = Counts(u, g[u], b)
  PROVE  LinkedIn(g, b) = LinkedIn(f, b) + Counts(t, g[t], b) - Counts(t, f[t], b)
<1> DEFINE v == [u \in Txs |-> Counts(u, f[u], b)]
           w == [u \in Txs |-> Counts(u, g[u], b)]
<1>1. \A u \in Txs : Counts(u, f[u], b) \in Int /\ Counts(u, g[u], b) \in Int
  BY CountsOf
<1>2. v \in [Txs -> Int] /\ w \in [Txs -> Int] /\ \A u \in Txs \ {t} : v[u] = w[u]
  BY <1>1
<1>3. v[t] = Counts(t, f[t], b) /\ w[t] = Counts(t, g[t], b)
  OBVIOUS
<1>4. LinkedIn(f, b) = SumOver(v, Txs) /\ LinkedIn(g, b) = SumOver(w, Txs)
  BY DEF LinkedIn
<1> HIDE DEF v, w
<1>5. SumOver(w, Txs) = SumOver(v, Txs) + w[t] - v[t]
  BY <1>2, SumChange, FiniteAssumption
<1> QED
  BY <1>3, <1>4, <1>5

LEMMA InSame ==
  ASSUME NEW f \in [Txs -> AnyRow], NEW g \in [Txs -> AnyRow], NEW b, NEW k
  PROVE  /\ (\A u \in Txs : Counts(u, f[u], b) = Counts(u, g[u], b)) =>
              LinkedIn(g, b) = LinkedIn(f, b)
         /\ (\A u \in Txs : Frees(u, f[u], b, k) = Frees(u, g[u], b, k)) =>
              FreeIn(g, b, k) = FreeIn(f, b, k)
         /\ (\A u \in Txs : Counts(u, f[u], b) = 0) => LinkedIn(f, b) = 0
<1>1. ASSUME \A u \in Txs : Counts(u, f[u], b) = Counts(u, g[u], b)
      PROVE  LinkedIn(g, b) = LinkedIn(f, b)
  <2>1. [t \in Txs |-> Counts(t, f[t], b)] = [t \in Txs |-> Counts(t, g[t], b)]
    BY <1>1
  <2> QED
    BY <2>1 DEF LinkedIn
<1>2. ASSUME \A u \in Txs : Frees(u, f[u], b, k) = Frees(u, g[u], b, k)
      PROVE  FreeIn(g, b, k) = FreeIn(f, b, k)
  <2>1. [t \in Txs |-> Frees(t, f[t], b, k)] = [t \in Txs |-> Frees(t, g[t], b, k)]
    BY <1>2
  <2> QED
    BY <2>1 DEF FreeIn
<1>3. ASSUME \A u \in Txs : Counts(u, f[u], b) = 0
      PROVE  LinkedIn(f, b) = 0
  <2> DEFINE v == [t \in Txs |-> Counts(t, f[t], b)]
  <2>1. v \in [Txs -> Int] /\ \A t \in Txs : v[t] = 0
    BY <1>3
  <2>2. LinkedIn(f, b) = SumOver(v, Txs)
    BY DEF LinkedIn
  <2> HIDE DEF v
  <2> QED
    BY <2>1, <2>2, SumZero, FiniteAssumption
<1> QED
  BY <1>1, <1>2, <1>3

\* What the requests owe, when one of them moves.
LEMMA OweType ==
  ASSUME NEW p, NEW d \in Drafts, NEW b
  PROVE  OweOf(p, d, b) \in Int
<1>1. Counts(d.tx, d.less, b) \in Int /\ Counts(d.tx, d.more, b) \in Int
  BY CountsOf DEF Drafts
<1> QED
  BY <1>1 DEF OweOf

LEMMA OwedChange ==
  ASSUME draft \in [Clients -> Drafts], draft' \in [Clients -> Drafts], NEW c \in Clients, NEW b,
         \A d \in Clients \ {c} : pc'[d] = pc[d] /\ draft'[d] = draft[d]
  PROVE  OwedOf(b)' = OwedOf(b) + OweOf(pc'[c], draft'[c], b) - OweOf(pc[c], draft[c], b)
<1> DEFINE v == [d \in Clients |-> OweOf(pc[d], draft[d], b)]
           w == [d \in Clients |-> OweOf(pc'[d], draft'[d], b)]
<1>1. \A d \in Clients : OweOf(pc[d], draft[d], b) \in Int /\ OweOf(pc'[d], draft'[d], b) \in Int
  BY OweType
<1>2. v \in [Clients -> Int] /\ w \in [Clients -> Int] /\ \A d \in Clients \ {c} : v[d] = w[d]
  BY <1>1
<1>3. v[c] = OweOf(pc[c], draft[c], b) /\ w[c] = OweOf(pc'[c], draft'[c], b)
  OBVIOUS
<1>4. OwedOf(b) = SumOver(v, Clients) /\ OwedOf(b)' = SumOver(w, Clients)
  BY DEF OwedOf, Owes
<1> HIDE DEF v, w
<1>5. SumOver(w, Clients) = SumOver(v, Clients) + w[c] - v[c]
  BY <1>2, SumChange, FiniteAssumption
<1> QED
  BY <1>3, <1>4, <1>5

LEMMA OwedZero ==
  ASSUME draft \in [Clients -> Drafts], NEW b, \A d \in Clients : OweOf(pc[d], draft[d], b) = 0
  PROVE  OwedOf(b) = 0
<1> DEFINE v == [d \in Clients |-> OweOf(pc[d], draft[d], b)]
<1>1. v \in [Clients -> Int] /\ \A d \in Clients : v[d] = 0
  OBVIOUS
<1>2. OwedOf(b) = SumOver(v, Clients)
  BY DEF OwedOf, Owes
<1> HIDE DEF v
<1> QED
  BY <1>1, <1>2, SumZero, FiniteAssumption

LEMMA OwedType ==
  ASSUME draft \in [Clients -> Drafts], NEW b
  PROVE  OwedOf(b) \in Int
<1> DEFINE v == [d \in Clients |-> OweOf(pc[d], draft[d], b)]
<1>1. \A d \in Clients : OweOf(pc[d], draft[d], b) \in Int
  BY OweType
<1>2. v \in [Clients -> Int]
  BY <1>1
<1>3. OwedOf(b) = SumOver(v, Clients)
  BY DEF OwedOf, Owes
<1> HIDE DEF v
<1> QED
  BY <1>2, <1>3, SumType, FiniteAssumption

-----------------------------------------------------------------------------
(* What a step does.                                                       *)

\* Nothing that a recalculation counts changes.
SumsStay ==
  /\ \A b \in Budgets : LinkedIn(tx', b) = LinkedIn(tx, b)
  /\ \A b \in Budgets, k \in Categories \cup {Null} : FreeIn(tx', b, k) = FreeIn(tx, b, k)
  /\ \A b \in Known \ {Null} : budget'[b] = budget[b]

\* A step of c leaves everything in its place, and the others where they are.
Effect(c) ==
  /\ StoreTypes' /\ Known \subseteq Known'
  /\ \E p \in Steps, d \in Drafts : Go(c, p, d) /\ FitsAt(p, d, Known')
  /\ Recounts(c) => Recounts(c)'
  /\ pc[c] = "idle" /\ pc'[c] = "idle" => SumsStay

\* A total, what is linked to it, and what is owed move together.
Evens(c, b) ==
  budget'[b].spent - budget[b].spent =
    LinkedIn(tx', b) - LinkedIn(tx, b) + OweOf(pc'[c], draft'[c], b) - OweOf(pc[c], draft[c], b)

EvenStep(c) ==
  \A b \in Open' : ~Dropping(b)' => Balance(b)' \/ (b \in Open /\ ~Dropping(b) /\ Evens(c, b))

\* What c writes is exact.
Unraced(c) == was = "exact" /\ ~Raced(c) /\ (Recalculating = {} \/ Cardinality(Busy) <= 1)

LEMMA GoOf ==
  ASSUME BudgetTypes, NEW c \in Clients, NEW p, NEW d, Go(c, p, d)
  PROVE  /\ pc'[c] = p /\ draft'[c] = d
         /\ \A e \in Clients \ {c} : pc'[e] = pc[e] /\ draft'[e] = draft[e]
  BY DEF Go, BudgetTypes

LEMMA EffectIf ==
  ASSUME BudgetTypes, NEW c \in Clients, NEW p \in Steps, NEW d \in Drafts, Go(c, p, d),
         FitsAt(p, d, Known'), StoreTypes', Known \subseteq Known',
         p \notin {"linked", "unlinked", "store"} \/ (Recounts(c) => Recounts(c)'),
         p # "idle" \/ pc[c] # "idle" \/ SumsStay
  PROVE  Effect(c)
<1>1. pc'[c] = p
  BY GoOf
<1>2. Recounts(c) => Recounts(c)'
  BY <1>1 DEF Recounts
<1> QED
  BY <1>1, <1>2 DEF Effect

LEMMA EvenIf ==
  ASSUME BudgetTypes, NEW c \in Clients, NEW p, NEW d, Go(c, p, d), pc[c] # "drop",
         \A b \in Open' : ~Dropping(b)' =>
           /\ b \in Open
           /\ budget'[b].spent - budget[b].spent =
                LinkedIn(tx', b) - LinkedIn(tx, b) + OweOf(p, d, b) - OweOf(pc[c], draft[c], b)
  PROVE  EvenStep(c)
<1>1. \A b : Dropping(b) => Dropping(b)'
  BY GoOf DEF Dropping
<1> QED
  BY <1>1, GoOf DEF EvenStep, Evens

\* The rows stay.
LEMMA StoreSame ==
  ASSUME BudgetTypes, UNCHANGED <<tx, budget>>
  PROVE  StoreTypes' /\ Known' = Known /\ Open' = Open /\ SumsStay
  BY DEF BudgetTypes, StoreTypes, Known, Open, SumsStay

LEMMA EvenSame ==
  ASSUME BudgetTypes, NEW c \in Clients, NEW p \in Steps, NEW d \in Drafts,
         Go(c, p, d), pc[c] # "drop",
         UNCHANGED <<tx, budget>>,
         \A b \in Open : OweOf(p, d, b) = OweOf(pc[c], draft[c], b)
  PROVE  EvenStep(c)
<1>1. \A b \in Open : /\ LinkedIn(tx, b) \in Int /\ budget[b].spent \in Int
                      /\ OweOf(p, d, b) \in Int
  BY InType, RowsTyped, OweType DEF BudgetTypes, StoreTypes, BudgetRows, Open
<1>2. \A b \in Open' :
        /\ b \in Open
        /\ budget'[b].spent - budget[b].spent =
             LinkedIn(tx', b) - LinkedIn(tx, b) + OweOf(p, d, b) - OweOf(pc[c], draft[c], b)
  BY <1>1, StoreSame
<1> QED
  BY <1>2, EvenIf

LEMMA NullKnown == Null \in Known /\ Null \in Known' /\ Null \notin Budgets /\ Open \subseteq Known
  BY NullAssumption DEF Known, Open

LEMMA BusyOf ==
  ASSUME NEW c \in Busy, Cardinality(Busy) <= 1
  PROVE  Busy = {c}
<1>1. IsFiniteSet(Busy)
  BY FS_Subset, FiniteAssumption DEF Busy
<1>2. IsFiniteSet(Busy \ {c}) /\ Cardinality(Busy \ {c}) = Cardinality(Busy) - 1
  BY <1>1, FS_RemoveElement
<1>3. Cardinality(Busy \ {c}) \in Nat /\ Cardinality(Busy) \in Nat
  BY <1>1, <1>2, FS_CardinalityType
<1>4. Cardinality(Busy \ {c}) = 0
  BY <1>2, <1>3
<1>5. Busy \ {c} = {}
  BY <1>2, <1>4, FS_EmptySet
<1> QED
  BY <1>5

\* The additions that are left.
LEMMA SettleMoreOf ==
  ASSUME NEW K, Null \in K, NEW c \in Clients, NEW d \in Drafts,
         d.more \in Rows \cup {New, Gone}, d.more.link \in K, SettleMore(c, d)
  PROVE  \E p \in {"idle", "findMore"}, e \in Drafts :
           /\ Go(c, p, e) /\ FitsAt(p, e, K)
           /\ p = "idle" => d.more.kind # "spent" \/ (d.more.link = Null /\ d.more.category = Null)
           /\ \A b \in Budgets :
                OweOf(p, e, b) = IF d.less = New THEN 0 ELSE 0 - Counts(d.tx, d.more, b)
<1> DEFINE more == d.more.kind = "spent" /\ (d.more.link # Null \/ d.more.category # Null)
           l == IF d.less = New THEN New ELSE Gone
           e == [NoDraft EXCEPT !.tx = d.tx, !.more = d.more, !.own = d.own, !.less = l]
<1>1. CASE more
  <2>1. Go(c, "findMore", e)
    BY <1>1 DEF SettleMore
  <2>2. /\ d.tx \in Txs \cup {Null} /\ d.more \in AnyRow /\ l \in AnyRow
        /\ d.own \in BOOLEAN
    BY RowsOf DEF Drafts
  <2>3. /\ e \in Drafts /\ e.more = d.more /\ e.less = l /\ e.less \in {New, Gone}
        /\ e.tx = d.tx
    <3> HIDE DEF l
    <3>1. e \in Drafts /\ e.more = d.more /\ e.less = l /\ e.tx = d.tx
      BY <2>2, NoDraftOf DEF Drafts
    <3> QED
      BY <3>1 DEF l
  <2> HIDE DEF e
  <2>4. d.more \in Rows
    BY <1>1, RowsOf
  <2>5. FitsAt("findMore", e, K)
    BY <1>1, <2>3, <2>4, RowsOf DEF FitsAt
  <2>6. \A b \in Budgets :
          OweOf("findMore", e, b) = IF d.less = New THEN 0 ELSE 0 - Counts(d.tx, d.more, b)
    BY <2>3, RowsOf DEF OweOf
  <2> QED
    BY <2>1, <2>3, <2>5, <2>6
<1>2. CASE ~more
  <2>1. Go(c, "idle", NoDraft)
    BY <1>2 DEF SettleMore, End
  <2>2. \A b \in Budgets : Counts(d.tx, d.more, b) = 0
    BY <1>2, NullAssumption DEF Counts
  <2>3. \A b \in Budgets : OweOf("idle", NoDraft, b) = 0
    BY OweOfIdle
  <2> QED
    BY <1>2, <2>1, <2>2, <2>3, NoDraftOf
<1> QED
  BY <1>1, <1>2

LEMMA SettleOf ==
  ASSUME NEW K, Null \in K, NEW c \in Clients, NEW d \in Drafts,
         d.less \in Rows \cup {New}, d.less.link \in K,
         d.more \in Rows \cup {New}, d.more.link \in K, d.own => d.less.kind # "spent",
         Settle(c, d)
  PROVE  \E p \in {"idle", "findMore", "findLess"}, e \in Drafts :
           /\ Go(c, p, e) /\ FitsAt(p, e, K)
           /\ p = "idle" => d.more.kind # "spent" \/ (d.more.link = Null /\ d.more.category = Null)
           /\ \A b \in Budgets :
                OweOf(p, e, b) = IF d.less = New THEN 0 ELSE Counts(d.tx, d.less, b) - Counts(d.tx, d.more, b)
<1>1. CASE d.less.kind = "spent" /\ d.less.link # Null
  <2>1. Go(c, "findLess", d)
    BY <1>1 DEF Settle
  <2>2. d.less # New /\ d.more # Gone /\ d.less \in Rows
    BY <1>1, RowsOf
  <2>3. FitsAt("findLess", d, K)
    BY <1>1, <2>2 DEF FitsAt
  <2>4. \A b \in Budgets :
          OweOf("findLess", d, b) =
            IF d.less = New THEN 0 ELSE Counts(d.tx, d.less, b) - Counts(d.tx, d.more, b)
    BY <2>2 DEF OweOf
  <2> QED
    BY <2>1, <2>3, <2>4
<1>2. CASE ~(d.less.kind = "spent" /\ d.less.link # Null)
  <2>1. SettleMore(c, d)
    BY <1>2 DEF Settle
  <2>2. PICK p \in {"idle", "findMore"}, e \in Drafts :
           /\ Go(c, p, e) /\ FitsAt(p, e, K)
           /\ p = "idle" => d.more.kind # "spent" \/ (d.more.link = Null /\ d.more.category = Null)
           /\ \A b \in Budgets :
                OweOf(p, e, b) = IF d.less = New THEN 0 ELSE 0 - Counts(d.tx, d.more, b)
    BY <2>1, SettleMoreOf
  <2>3. \A b \in Budgets : Counts(d.tx, d.less, b) = 0 /\ Counts(d.tx, d.more, b) \in Int
    BY <1>2, CountsOf, NullAssumption DEF Counts, Drafts
  <2>4. \A b \in Budgets :
          OweOf(p, e, b) = IF d.less = New THEN 0 ELSE Counts(d.tx, d.less, b) - Counts(d.tx, d.more, b)
    BY <2>2, <2>3
  <2> QED
    BY <2>2, <2>4
<1> QED
  BY <1>1, <1>2

-----------------------------------------------------------------------------
(* Each operation.                                                         *)

LEMMA DraftIn ==
  ASSUME BudgetTypes, NEW c \in Clients
  PROVE  /\ draft[c] \in Drafts /\ pc[c] \in Steps /\ FitsAt(pc[c], draft[c], Known)
         /\ draft[c].less \in AnyRow /\ draft[c].more \in AnyRow /\ draft[c].base \in 0..MaxSpent
         /\ draft[c].less.link \in Known /\ draft[c].more.link \in Known
         /\ draft[c].sum \in Nat
  BY DEF BudgetTypes, Drafts, FitsAt

\* Row r takes the place of the row of t.
LEMMA RowTo ==
  ASSUME BudgetTypes, NEW t \in Txs, NEW r \in Rows \cup {New, Gone},
         r.link \in Open \cup {Null},
         tx' = [tx EXCEPT ![t] = r], UNCHANGED budget
  PROVE  /\ StoreTypes' /\ Known' = Known /\ Open' = Open
         /\ \A b \in Budgets :
              LinkedIn(tx', b) = LinkedIn(tx, b) + Counts(t, r, b) - Counts(t, tx[t], b)
         /\ \A b \in Budgets : LinkedIn(tx, b) \in Int /\ budget[b].spent \in Int
         /\ \A b \in Budgets : Counts(t, r, b) \in Int /\ Counts(t, tx[t], b) \in Int
<1>1. Known' = Known /\ Open' = Open
  BY DEF Known, Open
<1>2. StoreTypes'
  BY <1>1 DEF BudgetTypes, StoreTypes
<1>3. tx \in [Txs -> AnyRow] /\ tx' \in [Txs -> AnyRow]
  BY <1>2, RowsTyped DEF BudgetTypes
<1>4. tx'[t] = r /\ \A u \in Txs \ {t} : tx'[u] = tx[u]
  BY <1>3
<1>5. \A b \in Budgets : LinkedIn(tx', b) = LinkedIn(tx, b) + Counts(t, r, b) - Counts(t, tx[t], b)
  <2> SUFFICES ASSUME NEW b \in Budgets
               PROVE  LinkedIn(tx', b) = LinkedIn(tx, b) + Counts(t, r, b) - Counts(t, tx[t], b)
    OBVIOUS
  <2>1. \A u \in Txs \ {t} : Counts(u, tx[u], b) = Counts(u, tx'[u], b)
    BY <1>4
  <2>2. LinkedIn(tx', b) = LinkedIn(tx, b) + Counts(t, tx'[t], b) - Counts(t, tx[t], b)
    <3>1. ASSUME NEW f \in [Txs -> AnyRow], NEW g \in [Txs -> AnyRow],
                 \A u \in Txs \ {t} : Counts(u, f[u], b) = Counts(u, g[u], b)
          PROVE  LinkedIn(g, b) = LinkedIn(f, b) + Counts(t, g[t], b) - Counts(t, f[t], b)
      BY <3>1, InChange
    <3> QED
      BY <1>3, <2>1, <3>1
  <2> QED
    BY <1>4, <2>2
<1>6. \A b \in Budgets : LinkedIn(tx, b) \in Int /\ budget[b].spent \in Int
  BY <1>3, InType DEF BudgetTypes, StoreTypes, BudgetRows
<1>7. \A b \in Budgets : Counts(t, r, b) \in Int /\ Counts(t, tx[t], b) \in Int
  BY <1>3, RowsOf, CountsOf
<1> QED
  BY <1>1, <1>2, <1>5, <1>6, <1>7

LEMMA CreateTransactionKeeps ==
  ASSUME BudgetTypes, NEW c \in Clients, pc[c] = "idle", NEW t \in Txs, NEW row \in Rows,
         NEW b \in Open \cup {Null}, CreateTransaction(c, t, row, b)
  PROVE  Effect(c) /\ EvenStep(c)
<1> DEFINE m == [row EXCEPT !.link = b]
           d == [NoDraft EXCEPT !.tx = t, !.more = m, !.own = TRUE]
<1>1. /\ tx[t] = New /\ row.link = Null
      /\ tx' = [tx EXCEPT ![t] = row]
      /\ UNCHANGED budget
      /\ Settle(c, d)
  BY DEF CreateTransaction
<1>2. m \in Rows /\ m.link = b /\ m.kind = row.kind /\ m.category = row.category
  BY DEF Rows, Open
<1> HIDE DEF m
<1>3. d \in Drafts /\ d.more = m /\ d.less = New
  <2>1. t \in Txs \cup {Null} /\ m \in AnyRow
    BY <1>2, RowsOf
  <2>2. NoDraft.less = New
    BY DEF NoDraft
  <2> QED
    BY <2>1, <2>2, NoDraftOf DEF Drafts
<1> HIDE DEF d
<1>4. /\ StoreTypes' /\ Known' = Known /\ Open' = Open
      /\ \A x \in Budgets : LinkedIn(tx', x) = LinkedIn(tx, x) + Counts(t, row, x) - Counts(t, tx[t], x)
      /\ \A x \in Budgets : LinkedIn(tx, x) \in Int /\ budget[x].spent \in Int
  BY <1>1, RowTo
<1>5. PICK p \in {"idle", "findMore", "findLess"}, e \in Drafts :
           /\ Go(c, p, e) /\ FitsAt(p, e, Known)
           /\ p = "idle" => m.kind # "spent" \/ (m.link = Null /\ m.category = Null)
           /\ \A x \in Budgets : OweOf(p, e, x) = 0
  BY <1>1, <1>2, <1>3, SettleOf, NullKnown, RowsOf
<1>6. \A x \in Budgets : Counts(t, row, x) = 0 /\ Counts(t, tx[t], x) = 0
  BY <1>1, NullAssumption, CountsOf
<1>7. \A x \in Budgets : LinkedIn(tx', x) = LinkedIn(tx, x)
  BY <1>4, <1>6
<1>8. p = "idle" => SumsStay
  <2> SUFFICES ASSUME p = "idle"
               PROVE  SumsStay
    OBVIOUS
  <2>1. \A x, k : Frees(t, row, x, k) = 0
    BY <1>2, <1>5 DEF Frees
  <2>2. tx \in [Txs -> AnyRow] /\ tx' \in [Txs -> AnyRow]
    BY <1>4, RowsTyped DEF BudgetTypes
  <2>4. \A x, k : FreeIn(tx', x, k) = FreeIn(tx, x, k)
    <3> SUFFICES ASSUME NEW x, NEW k
                 PROVE  FreeIn(tx', x, k) = FreeIn(tx, x, k)
      OBVIOUS
    <3>1. \A u \in Txs : Frees(u, tx[u], x, k) = Frees(u, tx'[u], x, k)
      <4> SUFFICES ASSUME NEW u \in Txs
                   PROVE  Frees(u, tx[u], x, k) = Frees(u, tx'[u], x, k)
        OBVIOUS
      <4>1. CASE u = t
        BY <1>1, <2>1, <2>2, <4>1, CountsOf
      <4>2. CASE u # t
        BY <1>1, <2>2, <4>2
      <4> QED
        BY <4>1, <4>2
    <3> QED
      BY <2>2, <3>1, InSame
  <2> QED
    BY <1>1, <1>7, <2>4 DEF SumsStay
<1>9. p \in Steps /\ p \notin {"linked", "unlinked", "store"}
  BY DEF Steps
<1>10. Effect(c)
  BY <1>4, <1>5, <1>8, <1>9, EffectIf
<1>11. \A x \in Open' :
         /\ x \in Open
         /\ budget'[x].spent - budget[x].spent =
              LinkedIn(tx', x) - LinkedIn(tx, x) + OweOf(p, e, x) - OweOf(pc[c], draft[c], x)
  <2> SUFFICES ASSUME NEW x \in Open
               PROVE  /\ x \in Open
                      /\ budget'[x].spent - budget[x].spent =
                           LinkedIn(tx', x) - LinkedIn(tx, x) + OweOf(p, e, x)
                             - OweOf(pc[c], draft[c], x)
    BY <1>4
  <2>1. x \in Budgets
    BY DEF Open
  <2>2. /\ LinkedIn(tx, x) \in Int /\ budget[x].spent \in Int /\ budget' = budget
        /\ LinkedIn(tx', x) = LinkedIn(tx, x)
        /\ OweOf(p, e, x) = 0 /\ OweOf(pc[c], draft[c], x) = 0
    BY <1>1, <1>4, <1>5, <1>7, <2>1, OweOfIdle
  <2> QED
    BY <2>2
<1>12. EvenStep(c)
  BY <1>5, <1>11, EvenIf
<1> QED
  BY <1>10, <1>12

\* A request that has read a row, or that goes on from one round trip to the next without
\* writing, and owes the same.
LEMMA GoesOn ==
  ASSUME BudgetTypes, NEW c \in Clients, NEW p \in Steps, NEW d \in Drafts, Go(c, p, d),
         p \notin {"linked", "unlinked", "store"}, pc[c] # "drop",
         UNCHANGED <<tx, budget>>, FitsAt(p, d, Known),
         \A b \in Open : OweOf(p, d, b) = OweOf(pc[c], draft[c], b)
  PROVE  Effect(c) /\ EvenStep(c)
<1>1. StoreTypes' /\ Known' = Known /\ SumsStay
  BY StoreSame
<1> QED
  BY <1>1, EffectIf, EvenSame

LEMMA UpdateTransactionKeeps ==
  ASSUME BudgetTypes, NEW c \in Clients, pc[c] = "idle", NEW t \in Stored, NEW row \in Rows,
         UpdateTransaction(c, t, row)
  PROVE  Effect(c) /\ EvenStep(c)
<1> DEFINE d == [NoDraft EXCEPT !.tx = t, !.less = tx[t], !.more = row]
<1>1. /\ row.link \in Open \cup {Null}
      /\ Go(c, "update", d)
      /\ UNCHANGED <<tx, budget>>
  BY DEF UpdateTransaction
<1>2. t \in Txs /\ tx[t] \in Rows /\ tx[t].link \in Open \cup {Null} /\ tx[t] \in AnyRow
      /\ row \in AnyRow
  BY RowsOf DEF Stored, BudgetTypes, StoreTypes, Kinds
<1>3. d \in Drafts /\ d.tx = t /\ d.less = tx[t] /\ d.more = row /\ ~d.own
  BY <1>2, NoDraftOf DEF Drafts, NoDraft
<1> HIDE DEF d
<1>4. FitsAt("update", d, Known)
  BY <1>1, <1>2, <1>3, NullKnown DEF FitsAt
<1>5. \A b \in Open : OweOf("update", d, b) = OweOf(pc[c], draft[c], b)
  BY DEF OweOf
<1> QED
  BY <1>1, <1>3, <1>4, <1>5, GoesOn DEF Steps

LEMMA ApproveTransactionKeeps ==
  ASSUME BudgetTypes, NEW c \in Clients, pc[c] = "idle", NEW t \in Stored, ApproveTransaction(c, t)
  PROVE  Effect(c) /\ EvenStep(c)
<1> DEFINE m == IF tx[t].kind = "pending" THEN [tx[t] EXCEPT !.kind = "spent"] ELSE New
           d == [NoDraft EXCEPT !.tx = t, !.less = tx[t], !.own = TRUE, !.more = m]
<1>1. /\ tx[t].kind # "spent"
      /\ Go(c, "approve", d)
      /\ UNCHANGED <<tx, budget>>
  BY DEF ApproveTransaction
<1>2. t \in Txs /\ tx[t] \in Rows /\ tx[t].link \in Open \cup {Null} /\ tx[t] \in AnyRow
  BY RowsOf DEF Stored, BudgetTypes, StoreTypes, Kinds
<1>3. m \in AnyRow /\ m.link \in Open \cup {Null}
  BY <1>2, RowsOf DEF AnyRow, Kinds
<1>4. d \in Drafts /\ d.tx = t /\ d.less = tx[t] /\ d.more = m
  <2> HIDE DEF m
  <2> QED
    BY <1>2, <1>3, NoDraftOf DEF Drafts
<1> HIDE DEF d
<1>5. FitsAt("approve", d, Known)
  BY <1>1, <1>2, <1>3, <1>4, NullKnown DEF FitsAt
<1>6. \A b \in Open : OweOf("approve", d, b) = OweOf(pc[c], draft[c], b)
  BY DEF OweOf
<1> QED
  BY <1>1, <1>4, <1>5, <1>6, GoesOn DEF Steps

LEMMA DeleteTransactionKeeps ==
  ASSUME BudgetTypes, NEW c \in Clients, pc[c] = "idle", NEW t \in Stored, DeleteTransaction(c, t)
  PROVE  Effect(c) /\ EvenStep(c)
<1> DEFINE d == [NoDraft EXCEPT !.tx = t, !.less = tx[t], !.more = Gone]
           p == IF Spent(t) /\ tx[t].link # Null THEN "findLess" ELSE "delete"
<1>1. Go(c, p, d) /\ UNCHANGED <<tx, budget>>
  BY DEF DeleteTransaction
<1>2. t \in Txs /\ tx[t] \in Rows /\ tx[t].link \in Open \cup {Null} /\ tx[t] \in AnyRow
  BY RowsOf DEF Stored, BudgetTypes, StoreTypes, Kinds
<1>3. d \in Drafts /\ d.tx = t /\ d.less = tx[t] /\ d.more = Gone /\ ~d.own
  BY <1>2, RowsOf, NoDraftOf DEF Drafts, NoDraft
<1> HIDE DEF d
<1>4. FitsAt(p, d, Known)
  BY <1>2, <1>3, NullKnown, RowsOf DEF FitsAt, Spent
<1>5. \A b \in Open : OweOf(p, d, b) = 0
  <2> SUFFICES ASSUME NEW b \in Open
               PROVE  OweOf(p, d, b) = 0
    OBVIOUS
  <2>1. p = "delete" => Counts(d.tx, d.less, b) = 0
    BY <1>3, NullAssumption DEF Counts, Spent, Open
  <2> QED
    BY <1>3, <2>1 DEF OweOf
<1>6. p \in Steps /\ p \notin {"linked", "unlinked", "store"}
  BY DEF Steps
<1> HIDE DEF p
<1> QED
  BY <1>1, <1>3, <1>4, <1>5, <1>6, GoesOn, OweOfIdle

\* A request that writes a row and goes on.
LEMMA RowStep ==
  ASSUME BudgetTypes, NEW c \in Clients, NEW p \in Steps, NEW d \in Drafts, Go(c, p, d),
         p \notin {"linked", "unlinked", "store"}, pc[c] \notin {"idle", "drop"},
         NEW t \in Txs, NEW r \in Rows \cup {New, Gone}, r.link \in Open \cup {Null},
         tx' = [tx EXCEPT ![t] = r], UNCHANGED budget, FitsAt(p, d, Known),
         Unraced(c) => \A b \in Budgets : OweOf(p, d, b) - OweOf(pc[c], draft[c], b) =
                                            Counts(t, tx[t], b) - Counts(t, r, b)
  PROVE  Effect(c) /\ (Unraced(c) => EvenStep(c))
<1>1. /\ StoreTypes' /\ Known' = Known /\ Open' = Open
      /\ \A x \in Budgets : LinkedIn(tx', x) = LinkedIn(tx, x) + Counts(t, r, x) - Counts(t, tx[t], x)
      /\ \A x \in Budgets : LinkedIn(tx, x) \in Int /\ budget[x].spent \in Int
      /\ \A x \in Budgets : Counts(t, r, x) \in Int /\ Counts(t, tx[t], x) \in Int
  BY RowTo
<1>2. Effect(c)
  BY <1>1, EffectIf
<1>3. ASSUME Unraced(c)
      PROVE  EvenStep(c)
  <2>1. ASSUME NEW x \in Open
        PROVE  /\ x \in Open
               /\ budget'[x].spent - budget[x].spent =
                    LinkedIn(tx', x) - LinkedIn(tx, x) + OweOf(p, d, x) - OweOf(pc[c], draft[c], x)
    <3>1. x \in Budgets
      BY DEF Open
    <3>2. OweOf(p, d, x) \in Int /\ OweOf(pc[c], draft[c], x) \in Int
      BY OweType, DraftIn
    <3>3. /\ LinkedIn(tx', x) = LinkedIn(tx, x) + Counts(t, r, x) - Counts(t, tx[t], x)
          /\ LinkedIn(tx, x) \in Int /\ budget[x].spent \in Int /\ budget' = budget
          /\ Counts(t, r, x) \in Int /\ Counts(t, tx[t], x) \in Int
          /\ OweOf(p, d, x) - OweOf(pc[c], draft[c], x) = Counts(t, tx[t], x) - Counts(t, r, x)
      BY <1>1, <1>3, <3>1
    <3> QED
      BY <3>2, <3>3
  <2> QED
    BY <1>1, <2>1, EvenIf
<1> QED
  BY <1>2, <1>3

LEMMA WriteRowKeeps ==
  ASSUME BudgetTypes, NEW c \in Clients, WriteRow(c)
  PROVE  Effect(c) /\ (Unraced(c) => EvenStep(c))
<1> DEFINE t == draft[c].tx
           r == draft[c].more
           m == IF r.link = Null THEN New ELSE r
           d == [draft[c] EXCEPT !.more = IF @.link = Null THEN New ELSE @]
<1>1. /\ pc[c] = "update"
      /\ t \in Stored /\ r.link \in Open \cup {Null}
      /\ tx' = [tx EXCEPT ![t] = r]
      /\ Settle(c, d)
      /\ UNCHANGED budget
  BY DEF WriteRow
<1>2. /\ t \in Txs /\ r \in Rows /\ draft[c].less \in Rows /\ draft[c].less.link \in Known
      /\ ~draft[c].own
  BY <1>1, DraftIn DEF FitsAt, Stored
<1>3. m \in Rows \cup {New} /\ m \in AnyRow /\ m.link = r.link
  BY <1>2, RowsOf
<1>4. d \in Drafts /\ d.less = draft[c].less /\ d.more = m /\ d.tx = t /\ d.own = draft[c].own
  <2>1. d = [draft[c] EXCEPT !.more = m]
    BY DraftIn DEF Drafts
  <2> HIDE DEF d, m
  <2> QED
    BY <1>3, <2>1, DraftIn DEF Drafts
<1> HIDE DEF d
<1>5. m.link \in Known
  BY <1>1, <1>3, NullKnown
<1>6. PICK p \in {"idle", "findMore", "findLess"}, e \in Drafts :
           /\ Go(c, p, e) /\ FitsAt(p, e, Known)
           /\ \A b \in Budgets :
                OweOf(p, e, b) = IF d.less = New THEN 0 ELSE Counts(d.tx, d.less, b) - Counts(d.tx, d.more, b)
  <2>1. ~d.own
    BY <1>2, <1>4
  <2>2. d.less \in Rows \cup {New} /\ d.less.link \in Known /\ d.more \in Rows \cup {New}
        /\ d.more.link \in Known /\ Settle(c, d)
    BY <1>1, <1>2, <1>3, <1>4, <1>5
  <2> QED
    BY <1>4, <2>1, <2>2, SettleOf, NullKnown
<1>7. ASSUME Unraced(c), NEW b \in Budgets
      PROVE  OweOf(p, e, b) - OweOf(pc[c], draft[c], b) = Counts(t, tx[t], b) - Counts(t, r, b)
  <2>1. tx[t] = draft[c].less
    BY <1>1, <1>7 DEF Unraced, Raced
  <2>2. draft[c].less # New
    BY <1>2, RowsOf
  <2>3. Counts(t, m, b) = Counts(t, r, b)
    BY <1>2, RowsOf, CountsOf, NullAssumption
  <2>4. OweOf(pc[c], draft[c], b) = 0
    BY <1>1 DEF OweOf
  <2>5. Counts(t, tx[t], b) \in Int /\ Counts(t, r, b) \in Int
    BY <1>2, <2>1, RowsOf, CountsOf
  <2> HIDE DEF m, t, r
  <2>6. OweOf(p, e, b) = Counts(t, tx[t], b) - Counts(t, r, b)
    BY <1>4, <1>6, <2>1, <2>2, <2>3
  <2> QED
    BY <2>4, <2>5, <2>6
<1>8. p \in Steps /\ p \notin {"linked", "unlinked", "store"}
  BY DEF Steps
<1> HIDE DEF t, r, m
<1> QED
  BY <1>1, <1>2, <1>6, <1>7, <1>8, RowStep

LEMMA WriteStatusKeeps ==
  ASSUME BudgetTypes, NEW c \in Clients, WriteStatus(c)
  PROVE  Effect(c) /\ (Unraced(c) => EvenStep(c))
<1> DEFINE t == draft[c].tx
           d == draft[c]
           r == [tx[t] EXCEPT !.kind = IF @ = "pending" THEN "spent" ELSE @]
<1>1. /\ pc[c] = "approve"
      /\ t \in Stored
      /\ tx' = [tx EXCEPT ![t].kind = IF @ = "pending" THEN "spent" ELSE @]
      /\ Settle(c, d)
      /\ UNCHANGED budget
  BY DEF WriteStatus
<1>2. /\ t \in Txs /\ d.less \in Rows /\ d.less.kind # "spent"
      /\ d.more = IF d.less.kind = "pending" THEN [d.less EXCEPT !.kind = "spent"] ELSE New
      /\ d.less.link \in Known /\ d.more.link \in Known
  BY <1>1, DraftIn DEF FitsAt
<1>3. tx[t] \in Rows /\ tx[t].link \in Open \cup {Null}
  BY <1>1, RowsOf DEF Stored, BudgetTypes, StoreTypes, Kinds
<1>4. /\ r \in Rows /\ r.link = tx[t].link
      /\ r = IF tx[t].kind = "pending" THEN [tx[t] EXCEPT !.kind = "spent"] ELSE tx[t]
  BY <1>3 DEF Rows, Kinds
<1>5. tx' = [tx EXCEPT ![t] = r]
  BY <1>1
<1>6. d.more \in Rows \cup {New}
  BY <1>2 DEF Rows, Kinds
<1> HIDE DEF r, d
<1>7. d \in Drafts /\ d.less = draft[c].less /\ d.tx = t
  BY DraftIn DEF d
<1>8a. /\ Settle(c, d) /\ d.less \in Rows \cup {New} /\ d.less.link \in Known
       /\ d.more.link \in Known /\ Null \in Known /\ (d.own => d.less.kind # "spent")
       /\ d.more \in Rows \cup {New} /\ d \in Drafts
  BY <1>1, <1>2, <1>6, <1>7, NullKnown
<1>8. PICK p \in {"idle", "findMore", "findLess"}, e \in Drafts :
           /\ Go(c, p, e) /\ FitsAt(p, e, Known)
           /\ \A b \in Budgets :
                OweOf(p, e, b) = IF d.less = New THEN 0 ELSE Counts(d.tx, d.less, b) - Counts(d.tx, d.more, b)
  BY <1>8a, SettleOf, Zenon
<1>9. ASSUME Unraced(c), NEW b \in Budgets
      PROVE  OweOf(p, e, b) - OweOf(pc[c], draft[c], b) = Counts(t, tx[t], b) - Counts(t, r, b)
  <2>1. tx[t] = d.less
    BY <1>1, <1>7, <1>9 DEF Unraced, Raced
  <2>2. d.less # New
    BY <1>2, RowsOf
  <2>3. Counts(t, tx[t], b) = 0
    BY <1>2, <2>1, CountsOf
  <2>4. Counts(d.tx, d.more, b) = Counts(t, r, b)
    <3>1. CASE d.less.kind = "pending"
      BY <1>2, <1>4, <1>7, <2>1, <3>1
    <3>2. CASE d.less.kind # "pending"
      BY <1>2, <1>4, <1>7, <2>1, <2>3, <3>2, CountsOf
    <3> QED
      BY <3>1, <3>2
  <2>5. OweOf(pc[c], draft[c], b) = 0
    BY <1>1 DEF OweOf
  <2>6. Counts(t, r, b) \in Int
    BY <1>4, RowsOf, CountsOf
  <2>7. OweOf(p, e, b) = 0 - Counts(t, r, b)
    BY <1>7, <1>8, <2>1, <2>2, <2>3, <2>4
  <2> QED
    BY <2>3, <2>5, <2>6, <2>7
<1>10. p \in Steps /\ p \notin {"linked", "unlinked", "store"}
  BY DEF Steps
<1>11. r \in Rows \cup {New, Gone} /\ r.link \in Open \cup {Null}
  BY <1>3, <1>4
<1> HIDE DEF t
<1> QED
  BY <1>1, <1>2, <1>5, <1>8, <1>9, <1>10, <1>11, RowStep

LEMMA DeleteRowKeeps ==
  ASSUME BudgetTypes, NEW c \in Clients, DeleteRow(c)
  PROVE  Effect(c) /\ (Unraced(c) => EvenStep(c))
<1> DEFINE t == draft[c].tx
<1>1. /\ pc[c] = "delete"
      /\ t \in Stored
      /\ tx' = [tx EXCEPT ![t] = Gone]
      /\ Go(c, "idle", NoDraft)
      /\ UNCHANGED budget
  BY DEF DeleteRow, End
<1>2. t \in Txs
  BY <1>1 DEF Stored
<1>3. ASSUME Unraced(c), NEW b \in Budgets
      PROVE  OweOf("idle", NoDraft, b) - OweOf(pc[c], draft[c], b) =
               Counts(t, tx[t], b) - Counts(t, Gone, b)
  <2>1. tx[t] = draft[c].less
    BY <1>1, <1>3 DEF Unraced, Raced
  <2>2. OweOf(pc[c], draft[c], b) = 0 - Counts(draft[c].tx, draft[c].less, b)
    BY <1>1 DEF OweOf
  <2>3. Counts(draft[c].tx, draft[c].less, b) \in Int
    BY DraftIn, CountsOf
  <2>4. OweOf("idle", NoDraft, b) = 0 /\ Counts(t, Gone, b) = 0
    BY OweOfIdle, CountsOf
  <2> QED
    BY <2>1, <2>2, <2>3, <2>4
<1>4. FitsAt("idle", NoDraft, Known) /\ NoDraft \in Drafts /\ Gone.link \in Open \cup {Null}
  BY NoDraftOf, NullKnown, RowsOf
<1> HIDE DEF t
<1> QED
  BY <1>1, <1>2, <1>3, <1>4, RowStep DEF Steps

LEMMA BackOf ==
  ASSUME NEW d \in Drafts
  PROVE  LET e == [d EXCEPT !.budget = Null, !.base = 0]
         IN e \in Drafts /\ e.less = d.less /\ e.more = d.more /\ e.tx = d.tx
<1> DEFINE f == [d EXCEPT !.budget = Null]
           g == [f EXCEPT !.base = 0]
<1>1. f \in Drafts /\ f.less = d.less /\ f.more = d.more /\ f.tx = d.tx
  BY DEF Drafts
<1>2. [d EXCEPT !.budget = Null, !.base = 0] = g
  OBVIOUS
<1> HIDE DEF f
<1>3. g \in Drafts /\ g.less = d.less /\ g.more = d.more /\ g.tx = d.tx
  BY <1>1, MaxSpentAssumption DEF Drafts
<1> QED
  BY <1>2, <1>3, Zenon

\* After a subtraction, which left the budget of draft[c].less with n less.
LEMMA AfterLessOf ==
  ASSUME BudgetTypes, NEW c \in Clients, pc[c] \in {"findLess", "subtract"}, AfterLess(c),
         NEW K, Known \subseteq K
  PROVE  \E p \in {"idle", "findMore", "delete"}, e \in Drafts :
           /\ Go(c, p, e) /\ FitsAt(p, e, K)
           /\ \A b \in Budgets :
                OweOf(p, e, b) = OweOf(pc[c], draft[c], b) - Counts(draft[c].tx, draft[c].less, b)
<1>1. /\ draft[c].less \in Rows /\ draft[c].more \in Rows \cup {New, Gone}
      /\ draft[c].more = Gone => draft[c].tx \in Txs
      /\ draft[c].less.link \in K /\ draft[c].more.link \in K
      /\ draft[c] \in Drafts
  BY DraftIn DEF FitsAt
<1>2. \A b \in Budgets : Counts(draft[c].tx, draft[c].less, b) \in Int /\ Counts(draft[c].tx, draft[c].more, b) \in Int
  BY DraftIn, CountsOf
<1>3. CASE draft[c].more = Gone
  <2> DEFINE e == [draft[c] EXCEPT !.budget = Null, !.base = 0]
  <2>1. Go(c, "delete", e)
    BY <1>3 DEF AfterLess
  <2>2. /\ e \in Drafts /\ e.less = draft[c].less /\ e.more = draft[c].more /\ e.tx = draft[c].tx
    BY <1>1, BackOf
  <2> HIDE DEF e
  <2>3. FitsAt("delete", e, K)
    BY <1>1, <1>3, <2>2 DEF FitsAt
  <2>4. ASSUME NEW b \in Budgets
        PROVE  OweOf("delete", e, b) = OweOf(pc[c], draft[c], b) - Counts(draft[c].tx, draft[c].less, b)
    <3>1. OweOf("delete", e, b) = 0 - Counts(draft[c].tx, draft[c].less, b)
      BY <2>2 DEF OweOf
    <3>2. OweOf(pc[c], draft[c], b) = 0
      BY <1>3 DEF OweOf
    <3> QED
      BY <3>1, <3>2
  <2> QED
    BY <2>1, <2>2, <2>3, <2>4
<1>4. CASE draft[c].more # Gone
  <2>1. SettleMore(c, draft[c])
    BY <1>4 DEF AfterLess
  <2>2. Null \in K
    BY NullKnown
  <2>3. PICK p \in {"idle", "findMore"}, e \in Drafts :
           /\ Go(c, p, e) /\ FitsAt(p, e, K)
           /\ \A b \in Budgets :
                OweOf(p, e, b) = IF draft[c].less = New THEN 0 ELSE 0 - Counts(draft[c].tx, draft[c].more, b)
    BY <1>1, <2>1, <2>2, SettleMoreOf
  <2>4. ASSUME NEW b \in Budgets
        PROVE  OweOf(p, e, b) = OweOf(pc[c], draft[c], b) - Counts(draft[c].tx, draft[c].less, b)
    <3>1. OweOf(p, e, b) = 0 - Counts(draft[c].tx, draft[c].more, b)
      BY <1>1, <2>3, RowsOf
    <3>2. OweOf(pc[c], draft[c], b) = Counts(draft[c].tx, draft[c].less, b) - Counts(draft[c].tx, draft[c].more, b)
      BY <1>4 DEF OweOf
    <3> QED
      BY <1>2, <3>1, <3>2
  <2> QED
    BY <2>3, <2>4
<1> QED
  BY <1>3, <1>4

LEMMA FindLessKeeps ==
  ASSUME BudgetTypes, NEW c \in Clients, FindLess(c)
  PROVE  Effect(c) /\ EvenStep(c)
<1> DEFINE b == draft[c].less.link
           d == [draft[c] EXCEPT !.budget = b, !.base = budget[b].spent]
<1>1. /\ pc[c] = "findLess"
      /\ UNCHANGED <<tx, budget>>
      /\ b \in Open => Go(c, "subtract", d)
      /\ b \notin Open => AfterLess(c)
  BY DEF FindLess
<1>2. FitsAt("findLess", draft[c], Known) /\ draft[c] \in Drafts
  BY <1>1, DraftIn
<1>3. CASE b \in Open
  <2>1. b \in Budgets /\ budget[b].spent \in 0..MaxSpent
    BY <1>3 DEF Open, BudgetTypes, StoreTypes, BudgetRows
  <2>2. /\ d \in Drafts /\ d.less = draft[c].less /\ d.more = draft[c].more /\ d.tx = draft[c].tx
        /\ d.budget = b /\ d.own = draft[c].own
    <3> HIDE DEF b
    <3> QED
      BY <1>2, <2>1 DEF Drafts
  <2>3. Go(c, "subtract", d)
    BY <1>1, <1>3
  <2> HIDE DEF d
  <2>4. FitsAt("subtract", d, Known)
    BY <1>2, <2>2 DEF FitsAt
  <2>5. \A x \in Open : OweOf("subtract", d, x) = OweOf(pc[c], draft[c], x)
    BY <1>1, <2>2 DEF OweOf
  <2> QED
    BY <1>1, <2>2, <2>3, <2>4, <2>5, GoesOn DEF Steps
<1>4. CASE b \notin Open
  <2>1. AfterLess(c)
    BY <1>1, <1>4
  <2>2. PICK p \in {"idle", "findMore", "delete"}, e \in Drafts :
           /\ Go(c, p, e) /\ FitsAt(p, e, Known)
           /\ \A x \in Budgets :
                OweOf(p, e, x) = OweOf(pc[c], draft[c], x) - Counts(draft[c].tx, draft[c].less, x)
    BY <1>1, <2>1, AfterLessOf
  <2>3. ASSUME NEW x \in Open
        PROVE  OweOf(p, e, x) = OweOf(pc[c], draft[c], x)
    <3>1. x \in Budgets /\ Counts(draft[c].tx, draft[c].less, x) = 0
      BY <1>4, CountsOf DEF Open
    <3>2. OweOf(pc[c], draft[c], x) \in Int
      BY <1>2, OweType
    <3> QED
      BY <2>2, <3>1, <3>2
  <2>4. p \in Steps /\ p \notin {"linked", "unlinked", "store"} /\ pc[c] # "drop"
    BY <1>1 DEF Steps
  <2> QED
    BY <1>1, <2>2, <2>3, <2>4, GoesOn
<1> QED
  BY <1>3, <1>4

\* A request that writes a total and goes on.
LEMMA TotalTo ==
  ASSUME BudgetTypes, NEW b \in Open, NEW n \in 0..MaxSpent,
         budget' = [budget EXCEPT ![b].spent = n], UNCHANGED tx
  PROVE  /\ StoreTypes' /\ Known' = Known /\ Open' = Open /\ b \in Budgets
         /\ budget'[b].spent = n
         /\ \A x \in Budgets \ {b} : budget'[x] = budget[x]
         /\ \A x \in Budgets : /\ budget'[x].category = budget[x].category
                               /\ LinkedIn(tx, x) \in Int /\ budget[x].spent \in Int
<1>1. b \in Budgets /\ budget \in [Budgets -> BudgetRows] /\ budget[b].there = "open"
  BY DEF BudgetTypes, StoreTypes, Open
<1>2. /\ budget' \in [Budgets -> BudgetRows]
      /\ budget'[b].spent = n /\ budget'[b].there = "open"
      /\ \A x \in Budgets : budget'[x].category = budget[x].category
      /\ \A x \in Budgets \ {b} : budget'[x] = budget[x]
  BY <1>1 DEF BudgetRows
<1>3. \A x \in Budgets : budget'[x].there = budget[x].there
  BY <1>1, <1>2
<1>4. Known' = Known /\ Open' = Open
  BY <1>3 DEF Known, Open
<1>5. \A x \in Budgets : budget'[x].there = "new" => budget'[x] = NewBudget
  BY <1>1, <1>2 DEF BudgetTypes, StoreTypes
<1>6. StoreTypes'
  BY <1>2, <1>4, <1>5 DEF BudgetTypes, StoreTypes
<1>7. \A x \in Budgets : LinkedIn(tx, x) \in Int /\ budget[x].spent \in Int
  BY InType, RowsTyped DEF BudgetTypes, StoreTypes, BudgetRows
<1> QED
  BY <1>1, <1>2, <1>4, <1>6, <1>7

LEMMA TotalStep ==
  ASSUME BudgetTypes, NEW c \in Clients, NEW p \in Steps, NEW d \in Drafts, Go(c, p, d),
         p \notin {"linked", "unlinked", "store"}, pc[c] \notin {"idle", "drop"},
         NEW b \in Open, NEW n \in 0..MaxSpent,
         budget' = [budget EXCEPT ![b].spent = n], UNCHANGED tx, FitsAt(p, d, Known),
         Unraced(c) =>
           /\ n - budget[b].spent = OweOf(p, d, b) - OweOf(pc[c], draft[c], b)
           /\ \A x \in Budgets \ {b} : OweOf(p, d, x) = OweOf(pc[c], draft[c], x)
  PROVE  Effect(c) /\ (Unraced(c) => EvenStep(c))
<1>1. /\ StoreTypes' /\ Known' = Known /\ Open' = Open /\ b \in Budgets
      /\ budget'[b].spent = n
      /\ \A x \in Budgets \ {b} : budget'[x] = budget[x]
      /\ \A x \in Budgets : LinkedIn(tx, x) \in Int /\ budget[x].spent \in Int
  BY TotalTo
<1>2. Effect(c)
  BY <1>1, EffectIf
<1>3. ASSUME Unraced(c)
      PROVE  EvenStep(c)
  <2>1. ASSUME NEW x \in Open
        PROVE  /\ x \in Open
               /\ budget'[x].spent - budget[x].spent =
                    LinkedIn(tx', x) - LinkedIn(tx, x) + OweOf(p, d, x) - OweOf(pc[c], draft[c], x)
    <3>1. x \in Budgets /\ LinkedIn(tx', x) = LinkedIn(tx, x)
      BY DEF Open
    <3>2. OweOf(p, d, x) \in Int /\ OweOf(pc[c], draft[c], x) \in Int
      BY OweType, DraftIn
    <3>3. LinkedIn(tx, x) \in Int /\ budget[x].spent \in Int
      BY <1>1, <3>1
    <3>4. CASE x = b
      BY <1>1, <1>3, <3>1, <3>2, <3>3, <3>4
    <3>5. CASE x # b
      <4>1. budget'[x] = budget[x] /\ OweOf(p, d, x) = OweOf(pc[c], draft[c], x)
        BY <1>1, <1>3, <3>1, <3>5
      <4>2. budget'[x].spent = budget[x].spent
        BY <4>1
      <4> DEFINE s == budget[x].spent
                 o == OweOf(pc[c], draft[c], x)
                 k == LinkedIn(tx, x)
      <4>3. s \in Int /\ o \in Int /\ k \in Int
        BY <3>2, <3>3
      <4>4. budget'[x].spent = s /\ OweOf(p, d, x) = o /\ LinkedIn(tx', x) = k
        BY <3>1, <4>1, <4>2
      <4> HIDE DEF s, o, k
      <4>5. s - s = k - k + o - o
        BY <4>3
      <4> QED
        BY <3>1, <4>4, <4>5 DEF s, o, k
    <3> QED
      BY <3>4, <3>5
  <2> QED
    BY <1>1, <2>1, EvenIf
<1> QED
  BY <1>2, <1>3

LEMMA SubtractKeeps ==
  ASSUME BudgetTypes, Exact, NEW c \in Clients, Subtract(c)
  PROVE  Effect(c) /\ (Unraced(c) => EvenStep(c))
<1> DEFINE b == draft[c].budget
           n == LessSpent(draft[c])
<1>1. /\ pc[c] = "subtract"
      /\ b \in Open
      /\ budget' = [budget EXCEPT ![b].spent = n]
      /\ AfterLess(c)
      /\ UNCHANGED tx
  BY DEF Subtract
<1>2. /\ draft[c].less \in Rows /\ draft[c].less.kind = "spent" /\ b = draft[c].less.link
      /\ draft[c].base \in 0..MaxSpent
  BY <1>1, DraftIn DEF FitsAt
<1>3. draft[c].less.amount \in Nat
  BY <1>2, RowsOf
<1>4. n = IF draft[c].base > draft[c].less.amount THEN draft[c].base - draft[c].less.amount ELSE 0
  BY <1>2, <1>3, MaxOf DEF LessSpent
<1>5. n \in 0..MaxSpent
  BY <1>2, <1>3, <1>4, MaxSpentAssumption
<1>6. PICK p \in {"idle", "findMore", "delete"}, e \in Drafts :
           /\ Go(c, p, e) /\ FitsAt(p, e, Known)
           /\ \A x \in Budgets :
                OweOf(p, e, x) = OweOf(pc[c], draft[c], x) - Counts(draft[c].tx, draft[c].less, x)
  BY <1>1, AfterLessOf
<1>7. ASSUME Unraced(c)
      PROVE  /\ n - budget[b].spent = OweOf(p, e, b) - OweOf(pc[c], draft[c], b)
             /\ \A x \in Budgets \ {b} : OweOf(p, e, x) = OweOf(pc[c], draft[c], x)
  <2>1. budget[b].spent = draft[c].base /\ ~(draft[c].base < draft[c].less.amount)
    BY <1>1, <1>7 DEF Unraced, Raced
  <2>2. n - budget[b].spent = 0 - draft[c].less.amount
    BY <1>2, <1>3, <1>4, <2>1
  <2>3. Counts(draft[c].tx, draft[c].less, b) = draft[c].less.amount
    <3>1. Owner[b] = Owner[draft[c].tx]
      BY <1>1, <1>7 DEF Exact, Unraced
    <3> QED
      BY <1>2, <3>1 DEF Counts
  <2>4. \A x \in Budgets \ {b} : Counts(draft[c].tx, draft[c].less, x) = 0
    BY <1>2, CountsOf
  <2>5. \A x \in Budgets : OweOf(pc[c], draft[c], x) \in Int
    BY DraftIn, OweType
  <2>6. b \in Budgets
    BY <1>1 DEF Open
  <2> HIDE DEF b, n
  <2>7. OweOf(p, e, b) - OweOf(pc[c], draft[c], b) = 0 - draft[c].less.amount
    BY <1>3, <1>6, <2>3, <2>5, <2>6
  <2>8. \A x \in Budgets \ {b} : OweOf(p, e, x) = OweOf(pc[c], draft[c], x)
    BY <1>6, <2>4, <2>5
  <2> QED
    BY <2>2, <2>7, <2>8
<1>8. p \in Steps /\ p \notin {"linked", "unlinked", "store"}
  BY DEF Steps
<1> HIDE DEF b, n
<1> QED
  BY <1>1, <1>5, <1>6, <1>7, <1>8, TotalStep

LEMMA FindMoreKeeps ==
  ASSUME BudgetTypes, NEW c \in Clients, FindMore(c)
  PROVE  Effect(c) /\ EvenStep(c)
<1> DEFINE found == Matching(draft[c])
<1>1. /\ pc[c] = "findMore"
      /\ UNCHANGED <<tx, budget>>
      /\ found = {} => Go(c, "idle", NoDraft)
      /\ found # {} => \E b \in found :
           Go(c, "add", [draft[c] EXCEPT !.budget = b, !.base = budget[b].spent])
  BY DEF FindMore, End
<1>2. FitsAt("findMore", draft[c], Known) /\ draft[c] \in Drafts
  BY <1>1, DraftIn
<1>3. CASE found = {}
  <2>1. \A b \in Open : Counts(draft[c].tx, draft[c].more, b) = 0
    BY <1>3, NullAssumption, CountsOf DEF Matching, Counts, Open
  <2>2. \A b \in Open : OweOf("idle", NoDraft, b) = OweOf(pc[c], draft[c], b)
    <3>1. pc[c] = "findMore"
      BY <1>1
    <3>2. \A b \in Open : OweOf("findMore", draft[c], b) = 0
      BY <2>1 DEF OweOf
    <3> QED
      BY <3>1, <3>2, OweOfIdle
  <2>3. FitsAt("idle", NoDraft, Known) /\ NoDraft \in Drafts
    BY NoDraftOf, NullKnown
  <2> QED
    BY <1>1, <1>3, <2>2, <2>3, GoesOn DEF Steps
<1>4. CASE found # {}
  <2>1. PICK b \in found : Go(c, "add", [draft[c] EXCEPT !.budget = b, !.base = budget[b].spent])
    BY <1>1, <1>4
  <2>2. /\ b \in Open /\ (draft[c].more.link # Null => b = draft[c].more.link)
        /\ draft[c].own => Owner[b] = Owner[draft[c].tx]
    BY <2>1 DEF Matching
  <2>3. b \in Budgets /\ budget[b].spent \in 0..MaxSpent
    BY <2>2 DEF Open, BudgetTypes, StoreTypes, BudgetRows
  <2> DEFINE d == [draft[c] EXCEPT !.budget = b, !.base = budget[b].spent]
  <2>4. /\ d \in Drafts /\ d.less = draft[c].less /\ d.more = draft[c].more /\ d.tx = draft[c].tx
        /\ d.budget = b /\ d.own = draft[c].own
    BY <1>2, <2>3 DEF Drafts
  <2>5. Go(c, "add", d)
    BY <2>1
  <2> HIDE DEF d, found
  <2>6. FitsAt("add", d, Known)
    BY <1>2, <2>2, <2>3, <2>4 DEF FitsAt
  <2>7. \A x \in Open : OweOf("add", d, x) = OweOf(pc[c], draft[c], x)
    BY <1>1, <2>4 DEF OweOf
  <2> QED
    BY <1>1, <2>4, <2>5, <2>6, <2>7, GoesOn DEF Steps
<1> QED
  BY <1>3, <1>4

LEMMA AddKeeps ==
  ASSUME BudgetTypes, Exact, NEW c \in Clients, Add(c)
  PROVE  Effect(c) /\ (Unraced(c) => EvenStep(c))
<1> DEFINE b == draft[c].budget
           n == draft[c].base + draft[c].more.amount
<1>1. /\ pc[c] = "add"
      /\ b \in Open
      /\ n <= MaxSpent
      /\ budget' = [budget EXCEPT ![b].spent = n]
      /\ Go(c, "idle", NoDraft)
      /\ UNCHANGED tx
  BY DEF Add, End
<1>2. /\ draft[c].more \in Rows /\ draft[c].more.kind = "spent"
      /\ draft[c].more.link # Null => b = draft[c].more.link
      /\ draft[c].base \in 0..MaxSpent
  BY <1>1, DraftIn DEF FitsAt
<1>3. draft[c].more.amount \in Nat
  BY <1>2, RowsOf
<1>4. n \in 0..MaxSpent
  BY <1>1, <1>2, <1>3, MaxSpentAssumption
<1>5. ASSUME Unraced(c)
      PROVE  /\ n - budget[b].spent = OweOf("idle", NoDraft, b) - OweOf(pc[c], draft[c], b)
             /\ \A x \in Budgets \ {b} : OweOf("idle", NoDraft, x) = OweOf(pc[c], draft[c], x)
  <2>1. budget[b].spent = draft[c].base
    BY <1>1, <1>5 DEF Unraced, Raced
  <2>2. draft[c].more.link = b /\ draft[c].less # New
    BY <1>1, <1>2, <1>5 DEF Exact, Unraced
  <2>3. Counts(draft[c].tx, draft[c].more, b) = draft[c].more.amount
    <3>1. Owner[b] = Owner[draft[c].tx]
      BY <1>1, <1>5 DEF Exact, Unraced
    <3> QED
      BY <1>2, <2>2, <3>1 DEF Counts
  <2>4. \A x \in Budgets \ {b} : Counts(draft[c].tx, draft[c].more, x) = 0
    BY <2>2, CountsOf
  <2>5. \A x : /\ OweOf("idle", NoDraft, x) = 0
               /\ OweOf(pc[c], draft[c], x) = 0 - Counts(draft[c].tx, draft[c].more, x)
    BY <1>1, <2>2 DEF OweOf
  <2> QED
    BY <1>2, <1>3, <2>1, <2>3, <2>4, <2>5
<1>6. FitsAt("idle", NoDraft, Known) /\ NoDraft \in Drafts
  BY NoDraftOf, NullKnown
<1> HIDE DEF b, n
<1> QED
  BY <1>1, <1>4, <1>5, <1>6, TotalStep DEF Steps

LEMMA FitsMono ==
  ASSUME NEW K, NEW L, K \subseteq L, NEW p, NEW d, FitsAt(p, d, K)
  PROVE  FitsAt(p, d, L)
  BY DEF FitsAt

LEMMA BudgetOf ==
  ASSUME BudgetTypes, NEW c \in Clients,
         pc[c] \in {"recalculate", "linked", "unlinked", "store", "drop"}
  PROVE  draft[c].budget \in Budgets /\ draft[c].budget \in Known \ {Null}
  BY DraftIn DEF FitsAt, Known

LEMMA CreateBudgetKeeps ==
  ASSUME BudgetTypes, NEW c \in Clients, pc[c] = "idle", NEW b \in Budgets,
         NEW category \in Categories \cup {Null}, CreateBudget(c, b, category)
  PROVE  Effect(c) /\ EvenStep(c)
<1> DEFINE row == [there |-> "open", category |-> category, spent |-> 0]
<1>1. /\ budget[b] = NewBudget
      /\ budget' = [budget EXCEPT ![b] = row]
      /\ UNCHANGED <<tx, pc, draft>>
  BY DEF CreateBudget
<1>2. /\ row \in BudgetRows /\ row.there = "open" /\ row.spent = 0
      /\ budget \in [Budgets -> BudgetRows] /\ NewBudget.there = "new"
  BY MaxSpentAssumption DEF BudgetRows, BudgetTypes, StoreTypes, NewBudget
<1> HIDE DEF row
<1>3. budget' \in [Budgets -> BudgetRows] /\ budget'[b] = row
      /\ \A x \in Budgets \ {b} : budget'[x] = budget[x]
  BY <1>1, <1>2
<1>4. Open' = Open \cup {b} /\ b \notin Open /\ b \notin Known /\ Known' = Known \cup {b}
  BY <1>1, <1>2, <1>3, NullAssumption DEF Open, Known
<1>5. StoreTypes'
  BY <1>1, <1>2, <1>3, <1>4 DEF BudgetTypes, StoreTypes
<1>6. SumsStay
  BY <1>1, <1>3, <1>4 DEF SumsStay, Known
<1>7. Go(c, pc[c], draft[c])
  BY <1>1 DEF Go, BudgetTypes
<1>8. /\ draft[c] \in Drafts /\ pc[c] \in Steps /\ Known \subseteq Known'
      /\ FitsAt(pc[c], draft[c], Known')
  BY <1>4, DraftIn, FitsMono
<1>9. Effect(c)
  BY <1>5, <1>6, <1>7, <1>8, EffectIf
<1>10. Balance(b)'
  <2>1. LinkedIn(tx, b) = 0
    <3>1. \A t \in Txs : Counts(t, tx[t], b) = 0
      BY <1>4, NullAssumption DEF BudgetTypes, StoreTypes, Counts
    <3> QED
      BY <3>1, InSame, RowsTyped DEF BudgetTypes
  <2>2. OwedOf(b) = 0
    <3>1. ASSUME NEW d \in Clients
          PROVE  OweOf(pc[d], draft[d], b) = 0
      <4>1. Counts(draft[d].tx, draft[d].less, b) = 0 /\ Counts(draft[d].tx, draft[d].more, b) = 0
        BY <1>4, DraftIn DEF Counts
      <4> QED
        BY <4>1 DEF OweOf
    <3> QED
      BY <3>1, OwedZero DEF BudgetTypes
  <2>3. OwedOf(b)' = OwedOf(b) /\ LinkedIn(tx', b) = LinkedIn(tx, b) /\ budget'[b].spent = 0
    BY <1>1, <1>2, <1>3 DEF OwedOf, Owes
  <2> QED
    BY <2>1, <2>2, <2>3 DEF Balance
<1>11. ASSUME NEW x \in Open', x # b, ~Dropping(x)'
       PROVE  x \in Open /\ ~Dropping(x) /\ Evens(c, x)
  <2>1. x \in Open /\ x \in Budgets
    BY <1>4, <1>11 DEF Open
  <2>2. ~Dropping(x)
    BY <1>1, <1>11 DEF Dropping
  <2>3. budget'[x] = budget[x] /\ LinkedIn(tx', x) = LinkedIn(tx, x)
        /\ OweOf(pc'[c], draft'[c], x) = 0 /\ OweOf(pc[c], draft[c], x) = 0
    BY <1>1, <1>3, <1>11, <2>1, OweOfIdle
  <2>4. LinkedIn(tx, x) \in Int /\ budget[x].spent \in Int
    BY <2>1, InType, RowsTyped DEF BudgetTypes, StoreTypes, BudgetRows
  <2> QED
    BY <2>1, <2>2, <2>3, <2>4 DEF Evens
<1> QED
  BY <1>9, <1>10, <1>11 DEF EvenStep

LEMMA UpdateBudgetKeeps ==
  ASSUME BudgetTypes, NEW c \in Clients, pc[c] = "idle", NEW b \in Open,
         NEW category \in Categories \cup {Null}, UpdateBudget(c, b, category)
  PROVE  Effect(c) /\ EvenStep(c)
<1> DEFINE d == [NoDraft EXCEPT !.budget = b]
<1>1. /\ budget' = [budget EXCEPT ![b].category = category]
      /\ Go(c, "recalculate", d)
      /\ UNCHANGED tx
  BY DEF UpdateBudget
<1>2. b \in Budgets /\ budget[b].there = "open" /\ budget \in [Budgets -> BudgetRows]
  BY DEF Open, BudgetTypes, StoreTypes
<1>3. d \in Drafts /\ d.budget = b /\ d.less = New /\ d.more = New
  <2>1. NoDraft.less = New /\ NoDraft.more = New
    BY DEF NoDraft
  <2> QED
    BY <1>2, <2>1, NoDraftOf DEF Drafts
<1> HIDE DEF d
<1>4. /\ budget' \in [Budgets -> BudgetRows]
      /\ \A x \in Budgets : /\ budget'[x].there = budget[x].there
                            /\ budget'[x].spent = budget[x].spent
      /\ \A x \in Budgets \ {b} : budget'[x] = budget[x]
  BY <1>1, <1>2 DEF BudgetRows
<1>5. Known' = Known /\ Open' = Open
  BY <1>4 DEF Known, Open
<1>6. StoreTypes'
  BY <1>1, <1>2, <1>4, <1>5 DEF BudgetTypes, StoreTypes
<1>7. FitsAt("recalculate", d, Known)
  BY <1>2, <1>3, NullKnown, RowsOf DEF FitsAt
<1>8. Effect(c)
  BY <1>1, <1>3, <1>5, <1>6, <1>7, EffectIf DEF Steps
<1>9. ASSUME NEW x \in Open'
      PROVE  /\ x \in Open
             /\ budget'[x].spent - budget[x].spent =
                  LinkedIn(tx', x) - LinkedIn(tx, x) + OweOf("recalculate", d, x)
                    - OweOf(pc[c], draft[c], x)
  <2>1. x \in Open /\ x \in Budgets
    BY <1>5, <1>9 DEF Open
  <2>2. /\ budget'[x].spent = budget[x].spent /\ LinkedIn(tx', x) = LinkedIn(tx, x)
        /\ OweOf("recalculate", d, x) = 0 /\ OweOf(pc[c], draft[c], x) = 0
    BY <1>1, <1>4, <2>1 DEF OweOf
  <2>3. LinkedIn(tx, x) \in Int /\ budget[x].spent \in Int
    BY <2>1, InType, RowsTyped DEF BudgetTypes, StoreTypes, BudgetRows
  <2> QED
    BY <2>1, <2>2, <2>3
<1> QED
  BY <1>1, <1>8, <1>9, EvenIf

LEMMA RecalculateBudgetSpentKeeps ==
  ASSUME BudgetTypes, NEW c \in Clients, RecalculateBudgetSpent(c)
  PROVE  Effect(c) /\ EvenStep(c)
<1> DEFINE b == draft[c].budget
           d == [draft[c] EXCEPT !.category = budget[b].category]
<1>1. /\ pc[c] = "recalculate"
      /\ UNCHANGED <<tx, budget>>
      /\ b \in Open => Go(c, "linked", d)
      /\ b \notin Open => Go(c, "idle", NoDraft)
  BY DEF RecalculateBudgetSpent, End
<1>2. b \in Budgets /\ b \in Known \ {Null} /\ FitsAt("recalculate", draft[c], Known)
      /\ draft[c] \in Drafts
  BY <1>1, DraftIn, BudgetOf
<1>3. \A x : OweOf(pc[c], draft[c], x) = 0 /\ OweOf("linked", d, x) = 0
  BY <1>1 DEF OweOf
<1>4. CASE b \in Open
  <2>1. budget[b].category \in Categories \cup {Null}
    BY <1>2 DEF BudgetTypes, StoreTypes, BudgetRows
  <2>2. /\ d \in Drafts /\ d.less = draft[c].less /\ d.more = draft[c].more /\ d.budget = b
        /\ d.category = budget[b].category
    <3> DEFINE k == budget[b].category
    <3>1. k \in Categories \cup {Null} /\ draft[c] \in Drafts
      BY <1>2, <2>1
    <3> HIDE DEF k, b
    <3>2. /\ d \in Drafts /\ d.less = draft[c].less /\ d.more = draft[c].more
          /\ d.budget = draft[c].budget /\ d.category = k
      BY <3>1 DEF Drafts, k
    <3> QED
      BY <3>2 DEF k, b
  <2>3. Go(c, "linked", d) /\ UNCHANGED <<tx, budget>>
    BY <1>1, <1>4
  <2>4. FitsAt("linked", d, Known)
    <3> HIDE DEF d
    <3> QED
      BY <1>2, <2>2 DEF FitsAt
  <2>5. pc'[c] = "linked" /\ draft'[c] = d
    BY <2>3, GoOf
  <2> HIDE DEF d, b
  <2>6. Recounts(c)'
    BY <2>2, <2>3, <2>5 DEF Recounts
  <2>7. Effect(c)
    BY <2>2, <2>3, <2>4, <2>6, StoreSame, EffectIf DEF Steps
  <2>8. EvenStep(c)
    <3>1. pc[c] # "drop" /\ "linked" \in Steps
      BY <1>1 DEF Steps
    <3> QED
      BY <1>3, <2>2, <2>3, <3>1, EvenSame
  <2> QED
    BY <2>7, <2>8
<1>5. CASE b \notin Open
  <2>1. Go(c, "idle", NoDraft) /\ UNCHANGED <<tx, budget>> /\ pc[c] # "drop"
    BY <1>1, <1>5
  <2>2. FitsAt("idle", NoDraft, Known) /\ NoDraft \in Drafts /\ "idle" \in Steps
    BY NoDraftOf, NullKnown DEF Steps
  <2>3. \A x \in Open : OweOf("idle", NoDraft, x) = OweOf(pc[c], draft[c], x)
    BY <1>3, OweOfIdle
  <2> QED
    BY <2>1, <2>2, <2>3, GoesOn
<1> QED
  BY <1>4, <1>5

\* The two queries of a recalculation.
LEMMA ReadKeeps ==
  ASSUME BudgetTypes, NEW c \in Clients, pc[c] \in {"linked", "unlinked"},
         NEW p \in {"unlinked", "store"}, NEW d \in Drafts, Go(c, p, d), UNCHANGED <<tx, budget>>,
         d.less = draft[c].less, d.more = draft[c].more, d.budget = draft[c].budget,
         Recounts(c) => Recounts(c)'
  PROVE  Effect(c) /\ EvenStep(c)
<1>1. FitsAt(p, d, Known)
  BY DraftIn DEF FitsAt
<1>2. p \in Steps /\ p # "idle" /\ pc[c] # "drop"
  BY DEF Steps
<1>3. \A x \in Open : OweOf(p, d, x) = OweOf(pc[c], draft[c], x)
  BY DEF OweOf
<1>4. Effect(c)
  BY <1>1, <1>2, StoreSame, EffectIf
<1>5. EvenStep(c)
  BY <1>2, <1>3, EvenSame
<1> QED
  BY <1>4, <1>5

LEMMA ReadLinkedKeeps ==
  ASSUME BudgetTypes, NEW c \in Clients, ReadLinked(c)
  PROVE  Effect(c) /\ EvenStep(c)
<1> DEFINE b == draft[c].budget
           n == Sum(Linked(b))
           d == [draft[c] EXCEPT !.sum = n]
<1>1. /\ pc[c] = "linked"
      /\ UNCHANGED <<tx, budget>>
      /\ Go(c, "unlinked", d)
  BY DEF ReadLinked
<1>2. draft[c] \in Drafts
  BY DraftIn
<1>3. n = LinkedIn(tx, b) /\ n \in Nat
  BY TotalsAre, InType, RowsTyped DEF BudgetTypes
<1> HIDE DEF n
<1>4. /\ d \in Drafts /\ d.less = draft[c].less /\ d.more = draft[c].more /\ d.budget = b
      /\ d.category = draft[c].category /\ d.sum = n
  BY <1>2, <1>3 DEF Drafts
<1>5. pc'[c] = "unlinked" /\ draft'[c] = d
  BY <1>1, GoOf
<1> HIDE DEF d
<1>6. Open' = Open
  BY <1>1 DEF Open
<1>7. ASSUME Recounts(c)
      PROVE  Recounts(c)'
  <2>1. draft'[c].budget \in Open' => draft'[c].category = budget'[draft'[c].budget].category
    BY <1>1, <1>4, <1>5, <1>6, <1>7 DEF Recounts
  <2>2. draft'[c].sum = LinkedIn(tx', draft'[c].budget)
    BY <1>1, <1>3, <1>4, <1>5
  <2> QED
    BY <1>5, <2>1, <2>2 DEF Recounts
<1> QED
  BY <1>1, <1>4, <1>7, ReadKeeps

LEMMA ReadUnlinkedKeeps ==
  ASSUME BudgetTypes, NEW c \in Clients, ReadUnlinked(c)
  PROVE  Effect(c) /\ EvenStep(c)
<1> DEFINE b == draft[c].budget
           n == draft[c].sum + Sum(Unlinked(b, draft[c].category))
           d == [draft[c] EXCEPT !.sum = n, !.category = Null]
<1>1. /\ pc[c] = "unlinked"
      /\ UNCHANGED <<tx, budget>>
      /\ Go(c, "store", d)
  BY DEF ReadUnlinked
<1>2. draft[c] \in Drafts /\ draft[c].sum \in Nat
  BY DraftIn
<1>3. n = draft[c].sum + FreeIn(tx, b, draft[c].category) /\ n \in Nat
  <2>1. /\ Sum(Unlinked(b, draft[c].category)) = FreeIn(tx, b, draft[c].category)
        /\ FreeIn(tx, b, draft[c].category) \in Nat
    BY TotalsAre, InType, RowsTyped DEF BudgetTypes
  <2> QED
    BY <1>2, <2>1
<1> HIDE DEF n
<1>4. /\ d \in Drafts /\ d.less = draft[c].less /\ d.more = draft[c].more /\ d.budget = b
      /\ d.sum = n
  <2> DEFINE e == [draft[c] EXCEPT !.sum = n]
  <2>1. /\ e \in Drafts /\ e.less = draft[c].less /\ e.more = draft[c].more /\ e.budget = b
        /\ e.sum = n
    BY <1>2, <1>3 DEF Drafts
  <2>2. d = [e EXCEPT !.category = Null]
    OBVIOUS
  <2> HIDE DEF e, d
  <2> QED
    BY <2>1, <2>2 DEF Drafts
<1>5. pc'[c] = "store" /\ draft'[c] = d
  BY <1>1, GoOf
<1> HIDE DEF d
<1>6. Open' = Open
  BY <1>1 DEF Open
<1>7. ASSUME Recounts(c)
      PROVE  Recounts(c)'
  <2>1. draft[c].sum = LinkedIn(tx, b)
    BY <1>1, <1>7 DEF Recounts
  <2>2. b \in Open => draft[c].category = budget[b].category
    BY <1>1, <1>7 DEF Recounts
  <2>3. draft'[c].budget \in Open' =>
          draft'[c].sum = LinkedIn(tx', draft'[c].budget)
                            + FreeIn(tx', draft'[c].budget, budget'[draft'[c].budget].category)
    BY <1>1, <1>3, <1>4, <1>5, <1>6, <2>1, <2>2
  <2> QED
    BY <1>5, <2>3 DEF Recounts
<1> QED
  BY <1>1, <1>4, <1>7, ReadKeeps

LEMMA FreeNone ==
  ASSUME StoreTypes, NEW b, NEW k, Unlinked(b, k) = {}
  PROVE  FreeIn(tx, b, k) = 0
<1> DEFINE v == [t \in Txs |-> Frees(t, tx[t], b, k)]
<1>1. \A t \in Txs : Frees(t, tx[t], b, k) = 0
  BY DEF Unlinked, Spent, Frees
<1>2. v \in [Txs -> Int] /\ \A t \in Txs : v[t] = 0
  BY <1>1
<1>3. FreeIn(tx, b, k) = SumOver(v, Txs)
  BY DEF FreeIn
<1> HIDE DEF v
<1> QED
  BY <1>2, <1>3, SumZero, FiniteAssumption

LEMMA StoreTotalKeeps ==
  ASSUME BudgetTypes, Exact, Recounted, NEW c \in Clients, StoreTotal(c)
  PROVE  Effect(c) /\ (Unraced(c) => EvenStep(c))
<1> PICK b, n : b = draft[c].budget /\ n = draft[c].sum
  OBVIOUS
<1>1. /\ pc[c] = "store"
      /\ b \in Open /\ n <= MaxSpent
      /\ budget' = [budget EXCEPT ![b].spent = n]
      /\ Go(c, "idle", NoDraft)
      /\ UNCHANGED tx
  BY DEF StoreTotal, End
<1>2. n \in 0..MaxSpent
  BY <1>1, DraftIn, MaxSpentAssumption
<1>3. /\ StoreTypes' /\ Known' = Known /\ Open' = Open /\ b \in Budgets
      /\ budget'[b].spent = n
      /\ \A x \in Budgets \ {b} : budget'[x] = budget[x]
      /\ \A x \in Budgets : LinkedIn(tx, x) \in Int /\ budget[x].spent \in Int
  BY <1>1, <1>2, TotalTo
<1>4. FitsAt("idle", NoDraft, Known) /\ NoDraft \in Drafts /\ "idle" \in Steps
  BY NoDraftOf, NullKnown DEF Steps
<1>5. Effect(c)
  BY <1>1, <1>3, <1>4, EffectIf
<1>6. pc'[c] = "idle" /\ draft'[c] = NoDraft
      /\ \A e \in Clients \ {c} : pc'[e] = pc[e] /\ draft'[e] = draft[e]
  BY <1>1, GoOf
<1>7. \A x : OweOf(pc'[c], draft'[c], x) = 0 /\ OweOf(pc[c], draft[c], x) = 0
  BY <1>1, <1>6, OweOfIdle DEF OweOf
<1>8. ASSUME Unraced(c)
      PROVE  Balance(b)'
  <2>1. c \in Recalculating /\ c \in Busy
    BY <1>1 DEF Recalculating, Busy
  <2>2. Busy = {c}
    BY <1>8, <2>1, BusyOf DEF Unraced
  <2>3. Recounts(c)
    BY <1>8, <2>2 DEF Recounted, Unraced
  <2>4. n = LinkedIn(tx, b) + FreeIn(tx, b, budget[b].category)
    BY <1>1, <2>3 DEF Recounts
  <2>5. FreeIn(tx, b, budget[b].category) = 0
    BY <1>1, <1>8, FreeNone DEF Exact, Unraced, BudgetTypes
  <2>6. OwedOf(b) = 0
    <3>1. ASSUME NEW e \in Clients
          PROVE  OweOf(pc[e], draft[e], b) = 0
      <4>1. e = c \/ pc[e] = "idle"
        BY <2>2 DEF Busy
      <4> QED
        BY <1>7, <4>1, OweOfIdle
    <3> QED
      BY <3>1, OwedZero DEF BudgetTypes
  <2>7. OwedOf(b)' = OwedOf(b) + 0 - 0
    <3>1. draft \in [Clients -> Drafts] /\ draft' \in [Clients -> Drafts]
      BY <1>1, <1>4 DEF Go, BudgetTypes
    <3>2. OwedOf(b)' = OwedOf(b) + OweOf(pc'[c], draft'[c], b) - OweOf(pc[c], draft[c], b)
      BY <1>6, <3>1, OwedChange
    <3> QED
      BY <1>7, <3>2
  <2>8. LinkedIn(tx', b) = LinkedIn(tx, b) /\ LinkedIn(tx, b) \in Int
    BY <1>1, <1>3
  <2> QED
    BY <1>3, <2>4, <2>5, <2>6, <2>7, <2>8 DEF Balance
<1>9. ASSUME NEW x \in Open', x # b, ~Dropping(x)'
      PROVE  x \in Open /\ ~Dropping(x) /\ Evens(c, x)
  <2>1. x \in Open /\ x \in Budgets
    BY <1>3, <1>9 DEF Open
  <2>2. ~Dropping(x)
    <3> SUFFICES ASSUME NEW e \in Clients, pc[e] = "drop", draft[e].budget = x
                 PROVE  FALSE
      BY DEF Dropping
    <3>1. e # c
      BY <1>1
    <3> QED
      BY <1>6, <1>9, <3>1 DEF Dropping
  <2>3. /\ budget'[x].spent = budget[x].spent /\ LinkedIn(tx', x) = LinkedIn(tx, x)
        /\ OweOf(pc'[c], draft'[c], x) = 0 /\ OweOf(pc[c], draft[c], x) = 0
    BY <1>1, <1>3, <1>7, <1>9, <2>1
  <2>4. LinkedIn(tx, x) \in Int /\ budget[x].spent \in Int
    BY <1>3, <2>1
  <2> QED
    BY <2>1, <2>2, <2>3, <2>4 DEF Evens
<1> QED
  BY <1>5, <1>8, <1>9 DEF EvenStep

LEMMA UnlinkOf ==
  ASSUME BudgetTypes, NEW b \in Open, Unlink(b)
  PROVE  /\ tx' \in [Txs -> Rows \cup {New, Gone}] /\ b \in Budgets
         /\ \A t \in Txs : tx'[t].link \in (Open \ {b}) \cup {Null}
         /\ \A x \in Budgets \ {b} : LinkedIn(tx', x) = LinkedIn(tx, x)
         /\ \A x \in Budgets : LinkedIn(tx, x) \in Int /\ budget[x].spent \in Int
<1>1. /\ b \in Budgets /\ b # Null /\ Null \notin Open
      /\ tx \in [Txs -> Rows \cup {New, Gone}] /\ tx \in [Txs -> AnyRow]
      /\ \A t \in Txs : tx[t].link \in Open \cup {Null}
  BY NullAssumption, RowsTyped DEF Open, BudgetTypes, StoreTypes
<1>2. ASSUME NEW t \in Txs
      PROVE  /\ tx'[t] \in Rows \cup {New, Gone} /\ tx'[t].link \in (Open \ {b}) \cup {Null}
             /\ \A x \in Budgets \ {b} : Counts(t, tx'[t], x) = Counts(t, tx[t], x)
  <2>1. CASE tx[t].link = b
    <3>1. tx'[t] = [tx[t] EXCEPT !.link = Null]
      BY <2>1 DEF Unlink
    <3>2. tx[t] \in Rows
      BY <1>1, <2>1, RowsOf
    <3>3. tx'[t] \in Rows /\ tx'[t].link = Null
      BY <3>1, <3>2 DEF Rows
    <3>4. \A x \in Budgets \ {b} : Counts(t, tx'[t], x) = 0 /\ Counts(t, tx[t], x) = 0
      BY <2>1, <3>3, NullAssumption, CountsOf
    <3> QED
      BY <3>3, <3>4
  <2>2. CASE tx[t].link # b
    <3>1. tx'[t] = tx[t]
      BY <2>2 DEF Unlink
    <3> QED
      BY <1>1, <2>2, <3>1
  <2> QED
    BY <2>1, <2>2
<1>3. tx' \in [Txs -> Rows \cup {New, Gone}]
  <2>1. DOMAIN tx' = Txs /\ tx' = [t \in Txs |-> tx'[t]]
    BY Zenon DEF Unlink
  <2> QED
    BY <1>2, <2>1
<1>4. tx' \in [Txs -> AnyRow]
  BY <1>3, RowsOf
<1>5. ASSUME NEW x \in Budgets \ {b}
      PROVE  LinkedIn(tx', x) = LinkedIn(tx, x)
  <2>1. \A t \in Txs : Counts(t, tx[t], x) = Counts(t, tx'[t], x)
    BY <1>2
  <2>2. ASSUME NEW f \in [Txs -> AnyRow], NEW g \in [Txs -> AnyRow],
               \A t \in Txs : Counts(t, f[t], x) = Counts(t, g[t], x)
        PROVE  LinkedIn(g, x) = LinkedIn(f, x)
    BY <2>2, InSame
  <2> QED
    BY <1>1, <1>4, <2>1, <2>2
<1>6. \A x \in Budgets : LinkedIn(tx, x) \in Int /\ budget[x].spent \in Int
  BY <1>1, InType DEF BudgetTypes, StoreTypes, BudgetRows
<1> QED
  BY <1>1, <1>2, <1>3, <1>5, <1>6

LEMMA DeleteBudgetKeeps ==
  ASSUME BudgetTypes, NEW c \in Clients, pc[c] = "idle", NEW b \in Open, DeleteBudget(c, b)
  PROVE  Effect(c) /\ EvenStep(c)
<1> DEFINE d == [NoDraft EXCEPT !.budget = b]
<1>1. Unlink(b) /\ Go(c, "drop", d) /\ UNCHANGED budget
  BY DEF DeleteBudget
<1>2. /\ tx' \in [Txs -> Rows \cup {New, Gone}] /\ b \in Budgets
      /\ \A t \in Txs : tx'[t].link \in (Open \ {b}) \cup {Null}
      /\ \A x \in Budgets \ {b} : LinkedIn(tx', x) = LinkedIn(tx, x)
      /\ \A x \in Budgets : LinkedIn(tx, x) \in Int /\ budget[x].spent \in Int
  BY <1>1, UnlinkOf
<1>3. d \in Drafts /\ d.budget = b /\ d.less = New /\ d.more = New
  <2>1. NoDraft.less = New /\ NoDraft.more = New
    BY DEF NoDraft
  <2> QED
    BY <1>2, <2>1, NoDraftOf DEF Drafts
<1> HIDE DEF d
<1>4. Known' = Known /\ Open' = Open
  BY <1>1 DEF Known, Open
<1>5. StoreTypes'
  BY <1>1, <1>2, <1>4 DEF BudgetTypes, StoreTypes
<1>6. FitsAt("drop", d, Known)
  BY <1>2, <1>3, NullKnown, RowsOf DEF FitsAt
<1>7. Effect(c)
  BY <1>1, <1>3, <1>4, <1>5, <1>6, EffectIf DEF Steps
<1>8. ASSUME NEW x \in Open', ~Dropping(x)'
      PROVE  /\ x \in Open
             /\ budget'[x].spent - budget[x].spent =
                  LinkedIn(tx', x) - LinkedIn(tx, x) + OweOf("drop", d, x)
                    - OweOf(pc[c], draft[c], x)
  <2>1. pc'[c] = "drop" /\ draft'[c] = d
    BY <1>1, GoOf
  <2>2. x # b
    BY <1>3, <1>8, <2>1 DEF Dropping
  <2>3. x \in Open /\ x \in Budgets \ {b}
    BY <1>4, <1>8, <2>2 DEF Open
  <2>4. /\ budget'[x].spent = budget[x].spent /\ LinkedIn(tx', x) = LinkedIn(tx, x)
        /\ OweOf("drop", d, x) = 0 /\ OweOf(pc[c], draft[c], x) = 0
    BY <1>1, <1>2, <2>3 DEF OweOf
  <2> QED
    BY <1>2, <2>3, <2>4
<1> QED
  BY <1>1, <1>7, <1>8, EvenIf

LEMMA DropBudgetKeeps ==
  ASSUME BudgetTypes, NEW c \in Clients, DropBudget(c)
  PROVE  Effect(c) /\ EvenStep(c)
<1> PICK b : b = draft[c].budget
  OBVIOUS
<1>1. /\ pc[c] = "drop" /\ b \in Open
      /\ budget' = [budget EXCEPT ![b] = GoneBudget]
      /\ Unlink(b)
      /\ Go(c, "idle", NoDraft)
  BY DEF DropBudget, End
<1>2. /\ tx' \in [Txs -> Rows \cup {New, Gone}] /\ b \in Budgets
      /\ \A t \in Txs : tx'[t].link \in (Open \ {b}) \cup {Null}
      /\ \A x \in Budgets \ {b} : LinkedIn(tx', x) = LinkedIn(tx, x)
      /\ \A x \in Budgets : LinkedIn(tx, x) \in Int /\ budget[x].spent \in Int
  BY <1>1, UnlinkOf
<1>3. GoneBudget \in BudgetRows /\ GoneBudget.there = "gone"
  BY MaxSpentAssumption DEF GoneBudget, NewBudget, BudgetRows
<1>4. /\ budget' \in [Budgets -> BudgetRows] /\ budget'[b] = GoneBudget
      /\ \A x \in Budgets \ {b} : budget'[x] = budget[x]
  BY <1>1, <1>2, <1>3 DEF BudgetTypes, StoreTypes
<1>5. Open' = Open \ {b} /\ Known' = Known
  BY <1>1, <1>2, <1>3, <1>4 DEF Open, Known
<1>6. StoreTypes'
  BY <1>2, <1>3, <1>4, <1>5 DEF BudgetTypes, StoreTypes
<1>7. FitsAt("idle", NoDraft, Known) /\ NoDraft \in Drafts /\ "idle" \in Steps
  BY NoDraftOf, NullKnown DEF Steps
<1>8. Effect(c)
  BY <1>1, <1>5, <1>6, <1>7, EffectIf
<1>9. pc'[c] = "idle" /\ \A e \in Clients \ {c} : pc'[e] = pc[e] /\ draft'[e] = draft[e]
  BY <1>1, GoOf
<1>10. ASSUME NEW x \in Open', ~Dropping(x)'
       PROVE  x \in Open /\ ~Dropping(x) /\ Evens(c, x)
  <2>1. x \in Open /\ x \in Budgets \ {b}
    BY <1>5, <1>10 DEF Open
  <2>2. ~Dropping(x)
    BY <1>9, <1>10, <2>1 DEF Dropping
  <2>3. /\ budget'[x].spent = budget[x].spent /\ LinkedIn(tx', x) = LinkedIn(tx, x)
        /\ OweOf(pc'[c], draft'[c], x) = 0 /\ OweOf(pc[c], draft[c], x) = 0
    BY <1>1, <1>2, <1>4, <1>9, <2>1, OweOfIdle DEF OweOf
  <2> QED
    BY <1>2, <2>1, <2>2, <2>3 DEF Evens
<1> QED
  BY <1>8, <1>10 DEF EvenStep

LEMMA StopKeeps ==
  ASSUME BudgetTypes, NEW c \in Clients, Stop(c)
  PROVE  Effect(c)
<1>1. pc[c] # "idle" /\ Go(c, "idle", NoDraft) /\ UNCHANGED <<tx, budget>>
  BY DEF Stop, End
<1>2. FitsAt("idle", NoDraft, Known) /\ NoDraft \in Drafts /\ "idle" \in Steps
  BY NoDraftOf, NullKnown DEF Steps
<1> QED
  BY <1>1, <1>2, StoreSame, EffectIf

LEMMA RequestKeeps ==
  ASSUME BudgetTypes, NEW c \in Clients, Request(c)
  PROVE  Effect(c) /\ EvenStep(c)
<1>1. pc[c] = "idle"
  BY DEF Request
<1>2. ASSUME NEW t \in Txs, NEW row \in Rows, NEW b \in Open \cup {Null},
             CreateTransaction(c, t, row, b)
      PROVE  Effect(c) /\ EvenStep(c)
  BY <1>1, <1>2, CreateTransactionKeeps
<1>3. ASSUME NEW t \in Stored, NEW row \in Rows, UpdateTransaction(c, t, row)
      PROVE  Effect(c) /\ EvenStep(c)
  BY <1>1, <1>3, UpdateTransactionKeeps
<1>4. ASSUME NEW t \in Stored, ApproveTransaction(c, t)
      PROVE  Effect(c) /\ EvenStep(c)
  BY <1>1, <1>4, ApproveTransactionKeeps
<1>5. ASSUME NEW t \in Stored, DeleteTransaction(c, t)
      PROVE  Effect(c) /\ EvenStep(c)
  BY <1>1, <1>5, DeleteTransactionKeeps
<1>6. ASSUME NEW b \in Budgets, NEW k \in Categories \cup {Null}, CreateBudget(c, b, k)
      PROVE  Effect(c) /\ EvenStep(c)
  BY <1>1, <1>6, CreateBudgetKeeps
<1>7. ASSUME NEW b \in Open, NEW k \in Categories \cup {Null}, UpdateBudget(c, b, k)
      PROVE  Effect(c) /\ EvenStep(c)
  BY <1>1, <1>7, UpdateBudgetKeeps
<1>8. ASSUME NEW b \in Open, DeleteBudget(c, b)
      PROVE  Effect(c) /\ EvenStep(c)
  BY <1>1, <1>8, DeleteBudgetKeeps
<1> QED
  BY <1>2, <1>3, <1>4, <1>5, <1>6, <1>7, <1>8, Zenon DEF Request, TransactionRoutes, BudgetRoutes

LEMMA ContinueKeeps ==
  ASSUME BudgetInv, NEW c \in Clients, Continue(c)
  PROVE  Effect(c) /\ (Unraced(c) => EvenStep(c))
<1>1. BudgetTypes /\ Exact /\ Recounted
  BY DEF BudgetInv
<1>2. WriteRow(c) => Effect(c) /\ (Unraced(c) => EvenStep(c))
  BY <1>1, WriteRowKeeps
<1>3. WriteStatus(c) => Effect(c) /\ (Unraced(c) => EvenStep(c))
  BY <1>1, WriteStatusKeeps
<1>4. DeleteRow(c) => Effect(c) /\ (Unraced(c) => EvenStep(c))
  BY <1>1, DeleteRowKeeps
<1>5. FindLess(c) \/ FindMore(c) => Effect(c) /\ EvenStep(c)
  BY <1>1, FindLessKeeps, FindMoreKeeps
<1>6. Subtract(c) \/ Add(c) => Effect(c) /\ (Unraced(c) => EvenStep(c))
  BY <1>1, SubtractKeeps, AddKeeps
<1>7. RecalculateBudgetSpent(c) \/ ReadLinked(c) \/ ReadUnlinked(c) => Effect(c) /\ EvenStep(c)
  BY <1>1, RecalculateBudgetSpentKeeps, ReadLinkedKeeps, ReadUnlinkedKeeps
<1>8. StoreTotal(c) => Effect(c) /\ (Unraced(c) => EvenStep(c))
  BY <1>1, StoreTotalKeeps
<1>9. DropBudget(c) => Effect(c) /\ EvenStep(c)
  BY <1>1, DropBudgetKeeps
<1> QED
  BY <1>2, <1>3, <1>4, <1>5, <1>6, <1>7, <1>8, <1>9, Zenon DEF Continue

-----------------------------------------------------------------------------
(* The invariant.                                                          *)

LEMMA BudgetInit == Init => BudgetInv
<1> SUFFICES ASSUME Init
             PROVE  BudgetInv
  OBVIOUS
<1>1. /\ tx = [t \in Txs |-> New] /\ budget = [b \in Budgets |-> NewBudget]
      /\ pc = [c \in Clients |-> "idle"] /\ draft = [c \in Clients |-> NoDraft] /\ was = "exact"
  BY DEF Init
<1>2. NewBudget \in BudgetRows /\ NewBudget.there = "new"
  BY MaxSpentAssumption DEF NewBudget, BudgetRows
<1>3. StoreTypes /\ Open = {}
  BY <1>1, <1>2, RowsOf DEF StoreTypes, Open
<1>4. BudgetTypes
  <2>1. pc \in [Clients -> Steps] /\ draft \in [Clients -> Drafts]
    BY <1>1, NoDraftOf DEF Steps
  <2>2. \A c \in Clients : FitsAt(pc[c], draft[c], Known)
    BY <1>1, NoDraftOf, NullKnown
  <2> QED
    BY <1>1, <1>3, <2>1, <2>2 DEF BudgetTypes
<1>5. Exact
  BY <1>1, <1>3 DEF Exact
<1>6. Recounted
  BY <1>1 DEF Recounted, Busy
<1> QED
  BY <1>4, <1>5, <1>6 DEF BudgetInv

\* Who may step, and what the history then says.
LEMMA RememberOf ==
  ASSUME NEW c \in Clients, NEW stopped, Remember(c, stopped), was \in {"exact", "apart", "raced"}
  PROVE  /\ was' \in {"exact", "apart", "raced"}
         /\ was' # "raced" => /\ was # "raced" /\ ~Raced(c)
                              /\ Recalculating = {} \/ Cardinality(Busy) <= 1
         /\ was' = "exact" => Unraced(c) /\ ~stopped /\ ~Apart'
<1>1. Cardinality(Busy) \in Nat
  BY FS_Subset, FS_CardinalityType, FiniteAssumption DEF Busy
<1>2. ~(Cardinality(Busy) > 1) => Cardinality(Busy) <= 1
  BY <1>1
<1> QED
  BY <1>2, Zenon DEF Remember, Unraced

LEMMA TypesStep ==
  ASSUME BudgetTypes, NEW c \in Clients, Effect(c), was' \in {"exact", "apart", "raced"}
  PROVE  BudgetTypes'
<1>1. PICK p \in Steps, d \in Drafts : Go(c, p, d) /\ FitsAt(p, d, Known')
  BY Zenon DEF Effect
<1>2. pc' \in [Clients -> Steps] /\ draft' \in [Clients -> Drafts]
  BY <1>1 DEF Go, BudgetTypes
<1>3. StoreTypes' /\ Known \subseteq Known'
  BY Zenon DEF Effect
<1>4. \A e \in Clients : FitsAt(pc'[e], draft'[e], Known')
  <2> SUFFICES ASSUME NEW e \in Clients
               PROVE  FitsAt(pc'[e], draft'[e], Known')
    OBVIOUS
  <2>1. CASE e = c
    BY <1>1, <2>1, GoOf
  <2>2. CASE e # c
    <3>1. pc'[e] = pc[e] /\ draft'[e] = draft[e]
      BY <1>1, <2>2, GoOf
    <3>2. FitsAt(pc[e], draft[e], Known')
      BY <1>3, DraftIn, FitsMono
    <3> QED
      BY <3>1, <3>2
  <2> QED
    BY <2>1, <2>2
<1> QED
  BY <1>2, <1>3, <1>4 DEF BudgetTypes

LEMMA ExactStep ==
  ASSUME BudgetTypes, BudgetTypes', Exact, NEW c \in Clients, Effect(c),
         was' = "exact" => Unraced(c) /\ EvenStep(c) /\ ~Apart'
  PROVE  Exact'
<1> SUFFICES ASSUME was' = "exact"
             PROVE  /\ \A b \in Open' : Unlinked(b, budget[b].category)' = {}
                    /\ \A e \in Clients :
                         pc'[e] = "add" => draft'[e].more.link # Null /\ draft'[e].less # New
                    /\ \A e \in Clients :
                         pc'[e] \in {"subtract", "add"} =>
                           Owner[draft'[e].budget] = Owner[draft'[e].tx]
                    /\ \A b \in Open' : ~Dropping(b)' => Balance(b)'
  BY DEF Exact
<1>1. /\ \A b \in Open' : Unlinked(b, budget[b].category)' = {}
      /\ \A e \in Clients : pc'[e] = "add" => draft'[e].more.link # Null /\ draft'[e].less # New
  BY DEF Apart
<1>1a. ASSUME NEW e \in Clients, pc'[e] \in {"subtract", "add"}
       PROVE  Owner[draft'[e].budget] = Owner[draft'[e].tx]
  <2>1. draft'[e].own => Owner[draft'[e].budget] = Owner[draft'[e].tx]
    BY <1>1a DEF BudgetTypes, FitsAt
  <2> QED
    BY <1>1a, <2>1 DEF Apart
<1>2. ASSUME NEW b \in Open', ~Dropping(b)'
      PROVE  Balance(b)'
  <2>1. CASE b \in Open /\ ~Dropping(b) /\ Evens(c, b)
    <3>1. budget[b].spent = LinkedIn(tx, b) + OwedOf(b)
      BY <2>1 DEF Exact, Unraced, Balance
    <3>2. PICK p \in Steps, d \in Drafts : Go(c, p, d)
      BY Zenon DEF Effect
    <3>3. draft \in [Clients -> Drafts] /\ draft' \in [Clients -> Drafts]
      BY DEF BudgetTypes
    <3>4. \A e \in Clients \ {c} : pc'[e] = pc[e] /\ draft'[e] = draft[e]
      BY <3>2, GoOf
    <3>5. OwedOf(b)' = OwedOf(b) + OweOf(pc'[c], draft'[c], b) - OweOf(pc[c], draft[c], b)
      BY <3>3, <3>4, OwedChange
    <3>6. b \in Budgets
      BY <2>1 DEF Open
    <3>7. /\ OwedOf(b) \in Int /\ OweOf(pc'[c], draft'[c], b) \in Int
          /\ OweOf(pc[c], draft[c], b) \in Int
      BY <3>3, OwedType, OweType
    <3>8. LinkedIn(tx, b) \in Int /\ LinkedIn(tx', b) \in Int
      <4>1. tx \in [Txs -> AnyRow] /\ tx' \in [Txs -> AnyRow]
        BY RowsTyped DEF BudgetTypes
      <4>2. ASSUME NEW f \in [Txs -> AnyRow]
            PROVE  LinkedIn(f, b) \in Int
        BY InType
      <4> QED
        BY <4>1, <4>2
    <3>9. budget[b].spent \in Int /\ budget'[b].spent \in Int
      BY <3>6 DEF BudgetTypes, StoreTypes, BudgetRows
    <3>10. budget'[b].spent - budget[b].spent =
             LinkedIn(tx', b) - LinkedIn(tx, b) + OweOf(pc'[c], draft'[c], b)
               - OweOf(pc[c], draft[c], b)
      BY <2>1 DEF Evens
    <3>11. budget'[b].spent = LinkedIn(tx', b) + OwedOf(b)'
      BY <3>1, <3>5, <3>7, <3>8, <3>9, <3>10
    <3> QED
      BY <3>11 DEF Balance
  <2> QED
    BY <1>2, <2>1 DEF EvenStep
<1> QED
  BY <1>1, <1>1a, <1>2

LEMMA RecountedStep ==
  ASSUME BudgetTypes, Recounted, NEW c \in Clients, Effect(c),
         was' # "raced" => was # "raced" /\ (Recalculating = {} \/ Cardinality(Busy) <= 1)
  PROVE  Recounted'
<1> SUFFICES ASSUME was' # "raced", NEW e \in Clients, Busy' = {e}
             PROVE  Recounts(e)'
  BY DEF Recounted
<1>1. PICK p \in Steps, d \in Drafts : Go(c, p, d)
  BY Zenon DEF Effect
<1>2. \A x \in Clients \ {c} : pc'[x] = pc[x] /\ draft'[x] = draft[x]
  BY <1>1, GoOf
<1>3. \A x \in Clients : pc[x] \in {"linked", "unlinked", "store"} => Busy = {x} /\ Recounts(x)
  <2> SUFFICES ASSUME NEW x \in Clients, pc[x] \in {"linked", "unlinked", "store"}
               PROVE  Busy = {x} /\ Recounts(x)
    OBVIOUS
  <2>1. x \in Recalculating /\ x \in Busy
    BY DEF Recalculating, Busy
  <2>2. Busy = {x}
    BY <2>1, BusyOf
  <2> QED
    BY <2>2 DEF Recounted
<1>4. \A x \in Clients : pc[x] \notin {"linked", "unlinked", "store"} => Recounts(x)
  BY DEF Recounts
<1>5. CASE e = c
  BY <1>3, <1>4, <1>5, Zenon DEF Effect
<1>6. CASE e # c
  <2>1. pc'[e] = pc[e] /\ draft'[e] = draft[e] /\ pc'[c] = "idle"
    BY <1>2, <1>6 DEF Busy
  <2>2. CASE pc[e] \notin {"linked", "unlinked", "store"}
    BY <2>1, <2>2 DEF Recounts
  <2>3. CASE pc[e] \in {"linked", "unlinked", "store"}
    <3>1. Busy = {e} /\ Recounts(e)
      BY <1>3, <2>3
    <3>2. pc[c] = "idle"
      BY <1>6, <3>1 DEF Busy
    <3>3. SumsStay
      BY <2>1, <3>2, Zenon DEF Effect
    <3>4. draft[e].budget \in Budgets /\ draft[e].budget \in Known \ {Null}
      BY <2>3, BudgetOf
    <3>5. /\ budget'[draft[e].budget] = budget[draft[e].budget]
          /\ LinkedIn(tx', draft[e].budget) = LinkedIn(tx, draft[e].budget)
          /\ budget[draft[e].budget].category \in Categories \cup {Null}
      BY <3>3, <3>4 DEF SumsStay, BudgetTypes, StoreTypes, BudgetRows
    <3>6. FreeIn(tx', draft[e].budget, budget[draft[e].budget].category) =
            FreeIn(tx, draft[e].budget, budget[draft[e].budget].category)
      BY <3>3, <3>4, <3>5, Zenon DEF SumsStay
    <3>7. draft[e].budget \in Open' <=> draft[e].budget \in Open
      BY <3>5 DEF Open
    <3> QED
      BY <2>1, <3>1, <3>5, <3>6, <3>7 DEF Recounts
  <2> QED
    BY <2>2, <2>3
<1> QED
  BY <1>5, <1>6

LEMMA BudgetStep == BudgetInv /\ [Next]_vars => BudgetInv'
<1> SUFFICES ASSUME BudgetInv, [Next]_vars
             PROVE  BudgetInv'
  OBVIOUS
<1>1. BudgetTypes /\ Exact /\ Recounted /\ was \in {"exact", "apart", "raced"}
  BY DEF BudgetInv, BudgetTypes
<1>2. ASSUME NEW c \in Clients, NEW stopped \in BOOLEAN, Remember(c, stopped), Effect(c),
             Unraced(c) /\ ~stopped => EvenStep(c)
      PROVE  BudgetInv'
  <2>1. /\ was' \in {"exact", "apart", "raced"}
        /\ was' # "raced" => was # "raced" /\ (Recalculating = {} \/ Cardinality(Busy) <= 1)
        /\ was' = "exact" => Unraced(c) /\ EvenStep(c) /\ ~Apart'
    BY <1>1, <1>2, RememberOf
  <2>2. BudgetTypes'
    BY <1>1, <1>2, <2>1, TypesStep
  <2>3. Exact'
    BY <1>1, <1>2, <2>1, <2>2, ExactStep
  <2>4. Recounted'
    BY <1>1, <1>2, <2>1, RecountedStep
  <2> QED
    BY <2>2, <2>3, <2>4 DEF BudgetInv
<1>3. ASSUME NEW c \in Clients, Request(c) \/ Continue(c), Remember(c, FALSE)
      PROVE  BudgetInv'
  <2>1. Effect(c) /\ (Unraced(c) => EvenStep(c))
    BY <1>1, <1>3, RequestKeeps, ContinueKeeps
  <2> QED
    BY <1>2, <1>3, <2>1
<1>4. ASSUME NEW c \in Clients, Stop(c), Remember(c, TRUE)
      PROVE  BudgetInv'
  BY <1>1, <1>2, <1>4, StopKeeps
<1>5. CASE UNCHANGED vars
  <2>1. UNCHANGED <<tx, budget, pc, draft, was>>
    BY <1>5 DEF vars
  <2>2. Known' = Known /\ Open' = Open /\ Busy' = Busy
    BY <2>1 DEF Known, Open, Busy
  <2>3. BudgetTypes'
    BY <1>1, <2>1, <2>2 DEF BudgetTypes, StoreTypes
  <2>4. Exact'
    <3>1. \A b : /\ Unlinked(b, budget[b].category)' = Unlinked(b, budget[b].category)
                 /\ Dropping(b)' = Dropping(b) /\ Balance(b)' = Balance(b)
      BY <2>1 DEF Unlinked, Spent, Dropping, Balance, OwedOf, Owes
    <3> QED
      BY <1>1, <2>1, <2>2, <3>1 DEF Exact
  <2>5. Recounted'
    <3>1. \A c \in Clients : Recounts(c)' = Recounts(c)
      BY <2>1, <2>2 DEF Recounts
    <3> QED
      BY <1>1, <2>1, <2>2, <3>1 DEF Recounted
  <2> QED
    BY <2>3, <2>4, <2>5 DEF BudgetInv
<1> QED
  BY <1>3, <1>4, <1>5, Zenon DEF Next

LEMMA BudgetInvariant == Spec => []BudgetInv
  BY BudgetInit, BudgetStep, PTL DEF Spec

-----------------------------------------------------------------------------
(* What the requests of a user can rely on.                                *)

\* The foreign key holds, and no total is negative or above what may be written, in whatever
\* order requests read and write (finance.service.ts).
THEOREM BudgetTypeCorrect == Spec => []TypeOK
<1>1. BudgetInv => TypeOK
  BY DEF BudgetInv, BudgetTypes, StoreTypes, BudgetRows, TypeOK
<1> QED
  BY <1>1, BudgetInvariant, PTL

\* When no request is under way and none wrote over a change of another, was stopped half-way or
\* counted an expense without a link, every total is what recalculateBudgetSpent would store.
THEOREM TotalsExact == Spec => []SpentIsTotal
<1>1. BudgetInv => SpentIsTotal
  <2> SUFFICES ASSUME BudgetInv, Busy = {}, was = "exact", NEW b \in Open
               PROVE  budget[b].spent = Total(b)
    BY DEF SpentIsTotal
  <2>1. BudgetTypes /\ StoreTypes /\ Exact /\ b \in Budgets
    BY DEF BudgetInv, BudgetTypes, Open
  <2>2. \A c \in Clients : pc[c] = "idle"
    BY DEF Busy
  <2>3. budget[b].spent = LinkedIn(tx, b) + OwedOf(b)
    BY <2>1, <2>2 DEF Exact, Balance, Dropping
  <2>4. OwedOf(b) = 0
    BY <2>1, <2>2, OwedZero, OweOfIdle DEF BudgetTypes
  <2>5. FreeIn(tx, b, budget[b].category) = 0
    BY <2>1, FreeNone DEF Exact
  <2>6. Total(b) = LinkedIn(tx, b) + FreeIn(tx, b, budget[b].category)
    BY <2>1, TotalsAre DEF Total
  <2>7. LinkedIn(tx, b) \in Int
    BY <2>1, InType, RowsTyped
  <2> QED
    BY <2>3, <2>4, <2>5, <2>6, <2>7
<1> QED
  BY <1>1, BudgetInvariant, PTL

\* What a recalculation that raced with nothing stores is the total of the transactions as they
\* then are, whatever the total was before (recalculateBudgetSpent).
THEOREM RecalculationExact == Spec => RecalculationRestores
<1> DEFINE A == \A c \in Clients, b \in Budgets :
                  StoreTotal(c) /\ draft[c].budget = b /\ was' # "raced" =>
                    budget'[b].spent = Total(b)'
<1>1. BudgetInv /\ BudgetInv' /\ [Next]_vars => [A]_vars
  <2> SUFFICES ASSUME BudgetInv, BudgetInv', Next, NEW c \in Clients, NEW b \in Budgets,
                      StoreTotal(c), draft[c].budget = b, was' # "raced"
               PROVE  budget'[b].spent = Total(b)'
    OBVIOUS
  <2>1. BudgetTypes /\ StoreTypes' /\ Recounted /\ was \in {"exact", "apart", "raced"}
    BY DEF BudgetInv, BudgetTypes
  <2>2. /\ pc[c] = "store" /\ b \in Open
        /\ budget' = [budget EXCEPT ![b].spent = draft[c].sum]
        /\ Go(c, "idle", NoDraft)
        /\ tx' = tx
    BY DEF StoreTotal, End
  <2>3. PICK e \in Clients, stopped \in BOOLEAN :
          (Request(e) \/ Continue(e) \/ Stop(e)) /\ Remember(e, stopped)
    BY Zenon DEF Next
  <2>4. was # "raced" /\ (Recalculating = {} \/ Cardinality(Busy) <= 1)
    BY <2>1, <2>3, RememberOf
  <2>5. Busy = {c}
    BY <2>2, <2>4, BusyOf DEF Recalculating, Busy
  <2>6. Recounts(c)
    BY <2>1, <2>4, <2>5 DEF Recounted
  <2>7. draft[c].sum = LinkedIn(tx, b) + FreeIn(tx, b, budget[b].category)
    BY <2>2, <2>6 DEF Recounts
  <2>8. budget'[b].spent = draft[c].sum /\ budget'[b].category = budget[b].category
    BY <2>1, <2>2 DEF BudgetTypes, StoreTypes, BudgetRows
  <2>9. Total(b)' = LinkedIn(tx', b) + FreeIn(tx', b, budget'[b].category)
    <3>1. Total(b)' = AmountsIn(tx', Linked(b)') + AmountsIn(tx', Unlinked(b, budget[b].category)')
      BY DEF Total, Sum, AmountsIn, MapThenSumSet, MapThenFoldSet
    <3>2. \A k : Unlinked(b, k)' = {t \in Txs : /\ tx'[t].kind = "spent"
                                                /\ Owner[t] = Owner[b] /\ tx'[t].link = Null
                                                /\ k # Null /\ tx'[t].category = k}
      BY DEF Unlinked, Spent
    <3>3. Unlinked(b, budget[b].category)' =
            {t \in Txs : /\ tx'[t].kind = "spent" /\ Owner[t] = Owner[b] /\ tx'[t].link = Null
                         /\ budget'[b].category # Null /\ tx'[t].category = budget'[b].category}
      BY DEF Unlinked, Spent
    <3>4. AmountsIn(tx', Linked(b)') = LinkedIn(tx', b)
      BY <2>1, TotalsWillBe
    <3>5. AmountsIn(tx', Unlinked(b, budget[b].category)') = FreeIn(tx', b, budget'[b].category)
      <4>1. \A k : AmountsIn(tx', Unlinked(b, k)') = FreeIn(tx', b, k)
        BY <2>1, TotalsWillBe
      <4> QED
        BY <3>2, <3>3, <4>1
    <3> QED
      BY <3>1, <3>4, <3>5
  <2> QED
    BY <2>2, <2>7, <2>8, <2>9
<1> QED
  BY <1>1, BudgetInvariant, PTL DEF Spec, RecalculationRestores
=============================================================================
