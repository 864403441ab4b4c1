-------------------------- MODULE AuditChainProofs --------------------------
(***************************************************************************)
(* Proofs about AuditChain, for any number of clients, actors and rows.    *)
(*                                                                         *)
(* Two facts about sequences of linked rows carry the argument, stated of  *)
(* any finite set of stamps with a checksum and a predecessor each: in a   *)
(* valid chain no two rows have the same checksum (Twins), and rows that   *)
(* point backwards without two sharing a predecessor form one chain        *)
(* (Straight).  Both go by least counterexample.                           *)
(***************************************************************************)
EXTENDS AuditChain, WellFoundedInduction, TLAPS

\* The least-number principle for sets.
LEMMA LeastNatural ==
  ASSUME NEW T \in SUBSET Nat, T # {}
  PROVE  \E x \in T : \A y \in T : x <= y
<1> DEFINE R == OpToRel(<, Nat)
<1>1. IsWellFoundedOn(R, Nat)
  BY NatLessThanWellFounded
<1>2. \E x \in T : \A y \in T : <<y, x>> \notin R
  <2> HIDE DEF R
  <2> QED
    BY <1>1, WFMin
<1>3. \A x, y \in Nat : y < x => <<y, x>> \in R
  BY DEF OpToRel
<1>4. PICK x \in T : \A y \in T : <<y, x>> \notin R
  BY <1>2
<1>5. ASSUME NEW y \in T
      PROVE  x <= y
  <2>1. x \in Nat /\ y \in Nat
    OBVIOUS
  <2>2. ~(y < x)
    <3> HIDE DEF R
    <3> QED
      BY <1>3, <1>4, <2>1
  <2> QED
    BY <2>1, <2>2
<1> QED
  BY <1>5

\* A nonempty set of stamps has a newest one.
LEMMA GreatestStamp ==
  ASSUME NEW n \in Nat, NEW T \in SUBSET (1..n), T # {}
  PROVE  \E x \in T : \A y \in T : y <= x
<1> DEFINE D == {n - t : t \in T}
<1>1. D \in SUBSET Nat
  <2>1. \A t \in T : n - t \in Nat
    OBVIOUS
  <2> QED
    BY <2>1
<1>1a. D # {}
  <2>1. PICK t \in T : TRUE
    OBVIOUS
  <2>2. n - t \in D
    OBVIOUS
  <2> QED
    BY <2>2
<1>2. PICK d \in D : \A e \in D : d <= e
  <2> HIDE DEF D
  <2> QED
    BY <1>1, <1>1a, LeastNatural
<1>3. PICK x \in T : d = n - x
  OBVIOUS
<1>4. \A y \in T : n - x <= n - y
  BY <1>2, <1>3
<1>5. \A y \in T : y <= x
  BY <1>4
<1> QED
  BY <1>5

-----------------------------------------------------------------------------
(* Chains of rows, as data: V the stamps of the rows, sum and prev their   *)
(* checksum and previousChecksum, null the previousChecksum of a first row. *)

Pred(V, j, i) == j < i /\ \A k \in V : k <= j \/ k >= i

Linked(V, sum, prev, null, i) ==
  IF \E j \in V : Pred(V, j, i)
  THEN \E j \in V : Pred(V, j, i) /\ prev[i] = sum[j]
  ELSE prev[i] = null

\* A row that is not the first has a predecessor.
LEMMA PredExists ==
  ASSUME NEW n \in Nat, NEW V \in SUBSET (1..n), NEW i \in V, NEW h \in V, h < i
  PROVE  \E j \in V : Pred(V, j, i)
<1> DEFINE T == {j \in V : j < i}
<1>1. T \in SUBSET (1..n) /\ T # {}
  OBVIOUS
<1>2. PICK j \in T : \A k \in T : k <= j
  <2> HIDE DEF T
  <2> QED
    BY <1>1, GreatestStamp
<1>3. \A k \in V : k <= j \/ k >= i
  BY <1>2
<1> QED
  BY <1>2, <1>3 DEF Pred

\* The checksum of a row determines its previousChecksum, and none is null.
Hashed(V, sum, prev, null) ==
  /\ \A i \in V : sum[i] # null
  /\ \A i, j \in V : sum[i] = sum[j] => prev[i] = prev[j]

\* In a chain whose rows are all linked, checksums are distinct: the least
\* row with a twin would have a predecessor with one.
LEMMA Twins ==
  ASSUME NEW n \in Nat, NEW V \in SUBSET (1..n), NEW sum, NEW prev, NEW null,
         Hashed(V, sum, prev, null),
         \A i \in V : Linked(V, sum, prev, null, i),
         NEW a \in V, NEW b \in V, sum[a] = sum[b]
  PROVE  a = b
<1> DEFINE HasTwin(x) == \E y \in V : x < y /\ sum[x] = sum[y]
           T == {x \in V : HasTwin(x)}
<1>1. SUFFICES ASSUME T # {}
               PROVE  FALSE
  <2>1. a \in Int /\ b \in Int
    OBVIOUS
  <2>2. ~(a < b) /\ ~(b < a)
    BY <1>1
  <2> QED
    BY <2>1, <2>2
<1>2. T \in SUBSET Nat
  <2>1. T \subseteq V
    <3> HIDE DEF HasTwin
    <3> QED
      OBVIOUS
  <2> HIDE DEF T
  <2> QED
    BY <2>1
<1>3. PICK x \in T : \A y \in T : x <= y
  <2> HIDE DEF T
  <2> QED
    BY <1>1, <1>2, LeastNatural
<1>4. PICK y \in V : x < y /\ sum[x] = sum[y]
  OBVIOUS
<1>5. x \in V /\ x \in Int /\ y \in Int
  OBVIOUS
<1>6. PICK q \in V : Pred(V, q, y) /\ prev[y] = sum[q]
  <2>1. \E j \in V : Pred(V, j, y)
    BY <1>4, <1>5, PredExists
  <2> QED
    BY <2>1 DEF Linked
<1>7. prev[x] = sum[q] /\ prev[x] # null
  BY <1>4, <1>5, <1>6 DEF Hashed
<1>8. PICK p \in V : Pred(V, p, x) /\ prev[x] = sum[p]
  BY <1>5, <1>7 DEF Linked
<1>9. p < x /\ x <= q
  <2>1. p \in Int /\ q \in Int /\ q < y
    BY <1>6 DEF Pred
  <2> QED
    BY <2>1, <1>4, <1>5, <1>6, <1>8 DEF Pred
<1>10. p \in T
  <2>1. p < q /\ sum[p] = sum[q]
    <3>1. p \in Int /\ q \in Int
      OBVIOUS
    <3> QED
      BY <3>1, <1>5, <1>7, <1>8, <1>9
  <2> QED
    BY <2>1
<1>11. x <= p
  BY <1>3, <1>10
<1> QED
  <2>1. p \in Int
    OBVIOUS
  <2> QED
    BY <2>1, <1>5, <1>9, <1>11

\* Rows that each point to an older one or to nothing, no two of them to the
\* same, are linked one after the other.
LEMMA Straight ==
  ASSUME NEW n \in Nat, NEW V \in SUBSET (1..n), NEW sum, NEW prev, NEW null,
         \A i \in V : sum[i] # null,
         \A i \in V : prev[i] # null => \E j \in V : j < i /\ prev[i] = sum[j],
         \A i, j \in V : prev[i] = prev[j] => i = j
  PROVE  \A i \in V : Linked(V, sum, prev, null, i)
<1> DEFINE T == {i \in V : ~Linked(V, sum, prev, null, i)}
<1>1. SUFFICES ASSUME T # {}
               PROVE  FALSE
  OBVIOUS
<1>2. T \in SUBSET Nat
  <2>1. T \subseteq V
    OBVIOUS
  <2> HIDE DEF T
  <2> QED
    BY <2>1
<1>3. PICK i \in T : \A y \in T : i <= y
  <2> HIDE DEF T
  <2> QED
    BY <1>1, <1>2, LeastNatural
<1>4. i \in V /\ i \in Int /\ ~Linked(V, sum, prev, null, i)
  OBVIOUS
<1>5. \A k \in V : k < i => Linked(V, sum, prev, null, k)
  <2> SUFFICES ASSUME NEW k \in V, k < i, ~Linked(V, sum, prev, null, k)
               PROVE  FALSE
    OBVIOUS
  <2>1. k \in T
    OBVIOUS
  <2>2. i <= k /\ k \in Int
    BY <2>1, <1>3
  <2> QED
    BY <2>2, <1>4
<1>6. PICK p \in V : Pred(V, p, i)
  <2>1. CASE \E h \in V : h < i
    BY <2>1, <1>4, PredExists
  <2>2. CASE ~\E h \in V : h < i
    <3>1. prev[i] = null
      BY <2>2, <1>4
    <3>2. ~\E j \in V : Pred(V, j, i)
      BY <2>2 DEF Pred
    <3>3. Linked(V, sum, prev, null, i)
      BY <3>1, <3>2 DEF Linked
    <3> QED
      BY <3>3, <1>4
  <2> QED
    BY <2>1, <2>2
<1>7. p < i /\ p \in Int
  <2>1. p \in Int
    OBVIOUS
  <2>2. p < i
    <3> HIDE DEF T
    <3> QED
      BY <1>6 DEF Pred
  <2> QED
    BY <2>1, <2>2
<1>8. CASE prev[i] = null
  <2>1. PICK f \in V : \A y \in V : f <= y
    <3>1. V \in SUBSET Nat
      <4>1. \A v \in V : v \in 1..n
        OBVIOUS
      <4> QED
        BY <4>1
    <3>2. V # {}
      BY <1>4
    <3> QED
      BY <3>1, <3>2, LeastNatural
  <2>2. f \in Int /\ f < i
    BY <2>1, <1>4, <1>7
  <2>3. ~\E j \in V : Pred(V, j, f)
    BY <2>1, <2>2 DEF Pred
  <2>4. prev[f] = null
    BY <2>2, <2>3, <1>5 DEF Linked
  <2> QED
    BY <2>2, <2>4, <1>8, <1>4
<1>9. CASE prev[i] # null
  <2>1. PICK j \in V : j < i /\ prev[i] = sum[j]
    BY <1>9, <1>4
  <2>2. j \in Int /\ j <= p
    BY <2>1, <1>4, <1>6, <1>7 DEF Pred
  <2>3. j # p
    <3>1. j = p => Linked(V, sum, prev, null, i)
      BY <1>6, <2>1 DEF Linked
    <3> QED
      BY <3>1, <1>4
  <2> DEFINE U == {k \in V : j < k}
  <2>4. U \in SUBSET Nat /\ p \in U
    <3>1. V \in SUBSET Nat
      <4>1. \A v \in V : v \in 1..n
        OBVIOUS
      <4> QED
        BY <4>1
    <3>2. U \subseteq V
      OBVIOUS
    <3>3. j < p
      BY <2>2, <2>3, <1>7
    <3>4. p \in U
      BY <3>3
    <3> HIDE DEF U
    <3> QED
      BY <3>1, <3>2, <3>4
  <2>5. PICK k \in U : \A y \in U : k <= y
    <3>1. U # {}
      BY <2>4
    <3> HIDE DEF U
    <3> QED
      BY <2>4, <3>1, LeastNatural
  <2>6. k \in V /\ k \in Int /\ j < k /\ k <= p
    BY <2>4, <2>5
  <2>7. Pred(V, j, k)
    <3>1. \A y \in V : y <= j \/ y >= k
      BY <2>5, <2>2
    <3> QED
      BY <3>1, <2>6 DEF Pred
  <2>8. k < i
    BY <2>6, <1>7, <1>4
  <2>9. PICK m \in V : Pred(V, m, k) /\ prev[k] = sum[m]
    BY <2>6, <2>7, <2>8, <1>5 DEF Linked
  <2>10. m = j
    <3>1. m \in Int
      OBVIOUS
    <3>2. m < k /\ (m <= j \/ m >= k) /\ (j <= m \/ j >= k)
      BY <2>7, <2>9, <2>1 DEF Pred
    <3> QED
      BY <3>1, <3>2, <2>2, <2>6
  <2>11. prev[k] = prev[i]
    BY <2>1, <2>9, <2>10
  <2> QED
    BY <2>6, <2>8, <2>11, <1>4
<1> QED
  BY <1>8, <1>9

-----------------------------------------------------------------------------
(* The inductive invariant.                                                *)

IsRow(r) == r = Row(r.actor, r.checksum, r.prev)

\* What a writer hashed: its own previousChecksum is inside, and the text of
\* an entry without an actor is not what AuditService hashes for a stored row.
IsHashed(r) ==
  /\ r.checksum.shape \in Shapes
  /\ r.checksum.prev = r.prev
  /\ r.checksum # Text("service", Nobody, "stored", r.prev)

Chained(prev, limit) ==
  prev # NoText => \E j \in Visible : j < limit /\ prev = log[j].checksum

Shaped ==
  /\ log = [i \in Stamps |-> log[i]]
  /\ draft = [c \in Clients |-> draft[c]]
  /\ \A i \in Stamps : IsRow(log[i])
  /\ \A c \in Clients : draft[c] = [stamp |-> draft[c].stamp, row |-> draft[c].row]

RowsHashed == \A i \in Visible : IsHashed(log[i])

\* An entry being written is chained to a row older than the stamp it gets,
\* and that stamp is its own.
DraftInv ==
  \A c \in Clients :
    /\ pc[c] # "idle" =>
         /\ IsRow(draft[c].row)
         /\ IsHashed(draft[c].row)
         /\ Chained(draft[c].row.prev, clock + 1)
    /\ pc[c] = "commit" =>
         /\ draft[c].stamp \in Stamps \ Visible
         /\ Chained(draft[c].row.prev, draft[c].stamp)
         /\ \A d \in Clients :
              pc[d] = "commit" /\ draft[d].stamp = draft[c].stamp => c = d

IInv == TypeOK /\ Shaped /\ RowsHashed /\ DraftInv /\ Rooted

\* A hashed text is never NULL.
LEMMA HashedNotNull ==
  ASSUME NEW r, IsHashed(r)
  PROVE  r.checksum # NoText
  BY DEF IsHashed, NoText, Shapes

LEMMA InitIInv == Init => IInv
<1> SUFFICES ASSUME Init
             PROVE  IInv
  OBVIOUS
<1> USE DEF Init
<1>1. Visible = {}
  BY DEF Visible, NoRow, Row
<1>2. TypeOK
  BY <1>1, MaxLogsAssumption DEF TypeOK, Steps, NoRow, Row, NoDraft
<1>3. Shaped
  BY DEF Shaped, IsRow, NoRow, Row, NoDraft
<1>4. RowsHashed /\ DraftInv /\ Rooted
  BY <1>1 DEF RowsHashed, DraftInv, Rooted
<1> QED
  BY <1>2, <1>3, <1>4 DEF IInv

\* The newest visible row is a visible row.
LEMMA NewestVisible ==
  ASSUME Visible # {}
  PROVE  Newest \in Visible /\ \A j \in Visible : j <= Newest
<1>1. Visible \in SUBSET (1..MaxLogs)
  BY DEF Visible, Stamps
<1>2. \E i \in Visible : \A j \in Visible : j <= i
  BY <1>1, GreatestStamp, MaxLogsAssumption
<1> QED
  BY <1>2 DEF Newest

LEMMA ReadKeepsIInv ==
  ASSUME IInv, NEW c \in Clients, NEW shape \in Shapes,
         NEW actor \in users \cup {Nobody}, NEW order \in Orders,
         ReadPrevious(c, shape, actor, order)
  PROVE  IInv'
<1> DEFINE r == Row(actor, Text(shape, actor, order, PreviousChecksum), PreviousChecksum)
<1> USE DEF ReadPrevious
<1>1. /\ draft' = [draft EXCEPT ![c] = [stamp |-> 0, row |-> r]]
      /\ pc' = [pc EXCEPT ![c] = "insert"]
      /\ UNCHANGED <<log, clock, users>>
  OBVIOUS
<1>2. Visible' = Visible
  BY <1>1 DEF Visible
<1>3. IsRow(r) /\ IsHashed(r)
  <2>1. r.checksum # Text("service", Nobody, "stored", r.prev)
    BY DEF Row, Text
  <2> QED
    BY <2>1 DEF IsRow, IsHashed, Row, Text
<1>4. Chained(r.prev, clock + 1)
  <2>1. CASE Visible = {}
    BY <2>1 DEF Chained, PreviousChecksum, Row
  <2>2. CASE Visible # {}
    <3>1. Newest \in Visible
      BY <2>2, NewestVisible
    <3>2. Newest < clock + 1
      BY <3>1 DEF IInv, TypeOK, Visible, Stamps
    <3> QED
      BY <2>2, <3>1, <3>2 DEF Chained, PreviousChecksum, Row
  <2> QED
    BY <2>1, <2>2
<1> HIDE DEF r, ReadPrevious
<1>5. TypeOK'
  BY <1>1, <1>2 DEF IInv, TypeOK, Shaped, Steps
<1>6. Shaped'
  BY <1>1 DEF IInv, Shaped, TypeOK
<1>7. RowsHashed' /\ Rooted'
  BY <1>1, <1>2 DEF IInv, RowsHashed, Rooted
<1>8. DraftInv'
  <2> SUFFICES ASSUME NEW d \in Clients
               PROVE  /\ pc'[d] # "idle" =>
                           /\ IsRow(draft'[d].row)
                           /\ IsHashed(draft'[d].row)
                           /\ Chained(draft'[d].row.prev, clock + 1)
                      /\ pc'[d] = "commit" =>
                           /\ draft'[d].stamp \in Stamps \ Visible
                           /\ Chained(draft'[d].row.prev, draft'[d].stamp)
                           /\ \A e \in Clients :
                                pc'[e] = "commit" /\ draft'[e].stamp = draft'[d].stamp => d = e
    BY <1>1, <1>2 DEF DraftInv, Chained, IsRow, IsHashed
  <2>1. \A e \in Clients : pc'[e] = "commit" => e # c /\ pc[e] = "commit" /\ draft'[e] = draft[e]
    BY <1>1 DEF IInv, TypeOK, Shaped
  <2>2. CASE d = c
    <3>1. draft'[d].row = r /\ pc'[d] = "insert"
      BY <1>1, <2>2 DEF IInv, TypeOK, Shaped
    <3> QED
      BY <3>1, <1>3, <1>4
  <2>3. CASE d # c
    <3>1. draft'[d] = draft[d] /\ pc'[d] = pc[d]
      BY <1>1, <2>3 DEF IInv, TypeOK, Shaped
    <3> QED
      BY <3>1, <2>1 DEF IInv, DraftInv
  <2> QED
    BY <2>2, <2>3
<1> QED
  BY <1>5, <1>6, <1>7, <1>8 DEF IInv

LEMMA StampKeepsIInv ==
  ASSUME IInv, NEW c \in Clients, Stamp(c)
  PROVE  IInv'
<1>1. /\ pc[c] = "insert" /\ clock < MaxLogs /\ clock' = clock + 1
      /\ draft' = [draft EXCEPT ![c].stamp = clock + 1]
      /\ pc' = [pc EXCEPT ![c] = "commit"]
      /\ UNCHANGED <<log, users>>
  BY DEF Stamp
<1>2. Visible' = Visible
  BY <1>1 DEF Visible
<1>3. clock \in Nat /\ clock <= MaxLogs /\ MaxLogs \in Nat
  BY MaxLogsAssumption DEF IInv, TypeOK
<1>4. /\ draft'[c].stamp = clock + 1 /\ draft'[c].row = draft[c].row
      /\ \A d \in Clients : d # c => draft'[d] = draft[d]
      /\ draft'[c] = [stamp |-> draft'[c].stamp, row |-> draft'[c].row]
      /\ draft' = [d \in Clients |-> draft'[d]]
  <2>1. draft = [d \in Clients |-> draft[d]]
    BY DEF IInv, Shaped
  <2>2. draft[c] = [stamp |-> draft[c].stamp, row |-> draft[c].row]
    BY DEF IInv, Shaped
  <2> QED
    BY <1>1, <2>1, <2>2
<1>5. TypeOK'
  <2>1. clock' \in 0..MaxLogs
    BY <1>1, <1>3
  <2>2. \A i \in Visible' : i <= clock'
    <3>1. \A i \in Visible : i <= clock /\ i \in Nat
      BY DEF IInv, TypeOK, Visible, Stamps
    <3> QED
      BY <3>1, <1>1, <1>2, <1>3
  <2>3. \A d \in Clients : draft'[d].stamp \in 0..clock'
    <3>1. \A d \in Clients : draft[d].stamp \in 0..clock
      BY DEF IInv, TypeOK
    <3> QED
      BY <3>1, <1>1, <1>3, <1>4
  <2>4. pc' \in [Clients -> Steps]
    BY <1>1 DEF IInv, TypeOK, Steps
  <2> QED
    BY <1>1, <2>1, <2>2, <2>3, <2>4 DEF IInv, TypeOK
<1>6. Shaped'
  <2>1. \A d \in Clients : draft'[d] = [stamp |-> draft'[d].stamp, row |-> draft'[d].row]
    BY <1>4 DEF IInv, Shaped
  <2> QED
    BY <1>1, <1>4, <2>1 DEF IInv, Shaped
<1>7. RowsHashed' /\ Rooted'
  BY <1>1, <1>2 DEF IInv, RowsHashed, Rooted
<1>8. DraftInv'
  <2>1. \A d \in Clients : pc'[d] = IF d = c THEN "commit" ELSE pc[d]
    BY <1>1 DEF IInv, TypeOK
  <2>2. \A d \in Clients : draft[d].stamp \in 0..clock
    BY DEF IInv, TypeOK
  <2>3. \A i \in Visible : i <= clock /\ i \in Nat
    BY DEF IInv, TypeOK, Visible, Stamps
  <2>4. clock + 1 \in Stamps \ Visible
    BY <1>1, <1>3, <2>3 DEF Stamps
  <2>5. \A d \in Clients :
          /\ IsRow(draft[d].row)' <=> IsRow(draft'[d].row)
          /\ IsHashed(draft[d].row)' <=> IsHashed(draft'[d].row)
          /\ Chained(draft[d].row.prev, clock + 1)' <=> Chained(draft'[d].row.prev, clock + 1)
          /\ Chained(draft[d].row.prev, draft[d].stamp)'
               <=> Chained(draft'[d].row.prev, draft'[d].stamp)
    <3>1. \A i \in Visible : i < clock + 1 /\ i < clock' + 1
      BY <2>3, <1>1, <1>3
    <3> QED
      BY <3>1, <1>1, <1>2 DEF Chained, IsRow, IsHashed
  <2>6. \A d \in Clients : pc'[d] # "idle" =>
           IsRow(draft'[d].row) /\ IsHashed(draft'[d].row) /\ Chained(draft'[d].row.prev, clock + 1)
    BY <1>1, <1>4, <2>1 DEF IInv, DraftInv
  <2>7. \A d \in Clients : pc'[d] = "commit" =>
           draft'[d].stamp \in Stamps \ Visible /\ Chained(draft'[d].row.prev, draft'[d].stamp)
    BY <1>1, <1>4, <2>1, <2>4 DEF IInv, DraftInv
  <2>8. \A d, e \in Clients :
           pc'[d] = "commit" /\ pc'[e] = "commit" /\ draft'[e].stamp = draft'[d].stamp => d = e
    BY <1>3, <1>4, <2>1, <2>2 DEF IInv, DraftInv
  <2> QED
    BY <1>2, <2>5, <2>6, <2>7, <2>8 DEF DraftInv, Stamps
<1> QED
  BY <1>5, <1>6, <1>7, <1>8 DEF IInv

LEMMA AppendKeepsIInv ==
  ASSUME IInv, NEW c \in Clients, Append(c)
  PROVE  IInv'
<1> DEFINE s == draft[c].stamp
           r == draft[c].row
<1>1. /\ pc[c] = "commit" /\ r.actor \in users \cup {Nobody}
      /\ log' = [log EXCEPT ![s] = r]
      /\ pc' = [pc EXCEPT ![c] = "idle"]
      /\ draft' = [draft EXCEPT ![c] = NoDraft]
      /\ UNCHANGED <<clock, users>>
  BY DEF Append, Finish
<1>2. IsRow(r) /\ IsHashed(r) /\ Chained(r.prev, s) /\ s \in Stamps \ Visible
  BY <1>1 DEF IInv, DraftInv
<1>3. \A i \in Stamps : log'[i] = IF i = s THEN r ELSE log[i]
  BY <1>1, <1>2 DEF IInv, Shaped
<1>4. log' = [i \in Stamps |-> log'[i]]
  BY <1>1 DEF IInv, Shaped
<1>5. Visible' = Visible \cup {s}
  BY <1>2, <1>3, HashedNotNull DEF Visible
<1>6. clock \in Nat /\ s <= clock /\ s \in Nat
  BY MaxLogsAssumption DEF IInv, TypeOK
<1>7. \A d \in Clients : /\ pc'[d] = IF d = c THEN "idle" ELSE pc[d]
                         /\ draft'[d] = IF d = c THEN NoDraft ELSE draft[d]
  BY <1>1 DEF IInv, TypeOK, Shaped
<1>8. \A prev, limit : Chained(prev, limit) =>
        (prev # NoText => \E j \in Visible' : j < limit /\ prev = log'[j].checksum)
  <2>1. \A j \in Visible : log'[j] = log[j] /\ j \in Visible'
    BY <1>2, <1>3, <1>5 DEF Visible
  <2> QED
    BY <2>1 DEF Chained
<1> HIDE DEF s, r
<1>9. TypeOK'
  <2>1. \A i \in Visible' : i <= clock'
    BY <1>1, <1>5, <1>6 DEF IInv, TypeOK
  <2>2. \A i \in Stamps : log'[i].actor \in users' \cup {Nobody}
    BY <1>1, <1>3 DEF IInv, TypeOK
  <2>3. \A d \in Clients : draft'[d].stamp \in 0..clock'
    BY <1>1, <1>6, <1>7 DEF IInv, TypeOK, NoDraft
  <2>4. pc' \in [Clients -> Steps]
    BY <1>1 DEF IInv, TypeOK, Steps
  <2>5. DOMAIN log' = Stamps
    BY <1>4
  <2> QED
    BY <1>1, <2>1, <2>2, <2>3, <2>4, <2>5 DEF IInv, TypeOK
<1>10. Shaped'
  <2>1. \A i \in Stamps : IsRow(log[i])'
    BY <1>2, <1>3 DEF IInv, Shaped, IsRow
  <2>2. draft' = [d \in Clients |-> draft'[d]]
    BY <1>1 DEF IInv, Shaped
  <2>3. \A d \in Clients : draft'[d] = [stamp |-> draft'[d].stamp, row |-> draft'[d].row]
    BY <1>7 DEF IInv, Shaped, NoDraft
  <2> QED
    BY <1>4, <2>1, <2>2, <2>3 DEF Shaped
<1>11. RowsHashed'
  BY <1>2, <1>3, <1>5 DEF IInv, RowsHashed, IsHashed, Visible
<1>12. Rooted'
  <2> SUFFICES ASSUME NEW i \in Visible', log'[i].prev # NoText
               PROVE  \E j \in Visible' : j < i /\ log'[i].prev = log'[j].checksum
    BY DEF Rooted
  <2>1. Chained(log'[i].prev, i)
    <3>1. CASE i = s
      BY <3>1, <1>2, <1>3
    <3>2. CASE i # s
      BY <3>2, <1>3, <1>5 DEF IInv, Rooted, Chained, Visible
    <3> QED
      BY <3>1, <3>2
  <2> QED
    BY <2>1, <1>8
<1>13. DraftInv'
  <2> SUFFICES ASSUME NEW d \in Clients
               PROVE  /\ pc'[d] # "idle" =>
                           /\ IsRow(draft'[d].row)
                           /\ IsHashed(draft'[d].row)
                           /\ Chained(draft[d].row.prev, clock + 1)'
                      /\ pc'[d] = "commit" =>
                           /\ draft'[d].stamp \in Stamps \ Visible'
                           /\ Chained(draft[d].row.prev, draft[d].stamp)'
                           /\ \A e \in Clients :
                                pc'[e] = "commit" /\ draft'[e].stamp = draft'[d].stamp => d = e
    BY DEF DraftInv, IsRow, IsHashed, Stamps
  <2>1. CASE d = c
    BY <2>1, <1>7
  <2>2. CASE d # c
    <3>1. draft'[d] = draft[d] /\ pc'[d] = pc[d]
      BY <2>2, <1>7
    <3>2. ASSUME pc[d] # "idle"
          PROVE  IsRow(draft[d].row) /\ IsHashed(draft[d].row)
                 /\ Chained(draft[d].row.prev, clock + 1)'
      <4>1. /\ IsRow(draft[d].row) /\ IsHashed(draft[d].row)
            /\ Chained(draft[d].row.prev, clock + 1)
        BY <3>2 DEF IInv, DraftInv
      <4>2. draft[d].row.prev # NoText =>
              \E j \in Visible' : j < clock + 1 /\ draft[d].row.prev = log'[j].checksum
        BY <4>1, <1>8
      <4> QED
        BY <4>1, <4>2, <3>1, <1>1 DEF Chained
    <3>3. ASSUME pc[d] = "commit"
          PROVE  /\ draft[d].stamp \in Stamps \ Visible'
                 /\ Chained(draft[d].row.prev, draft[d].stamp)'
                 /\ \A e \in Clients :
                      pc'[e] = "commit" /\ draft'[e].stamp = draft[d].stamp => d = e
      <4>1. draft[d].stamp # s
        BY <2>2, <3>3, <1>1 DEF IInv, DraftInv, s
      <4>2. draft[d].stamp \in Stamps \ Visible'
        BY <4>1, <3>3, <1>5 DEF IInv, DraftInv
      <4>3. Chained(draft[d].row.prev, draft[d].stamp)'
        <5>1. Chained(draft[d].row.prev, draft[d].stamp)
          BY <3>3 DEF IInv, DraftInv
        <5>2. draft[d].row.prev # NoText =>
                \E j \in Visible' : j < draft[d].stamp /\ draft[d].row.prev = log'[j].checksum
          BY <5>1, <1>8
        <5> QED
          BY <5>2, <3>1 DEF Chained
      <4>4. \A e \in Clients :
              pc'[e] = "commit" /\ draft'[e].stamp = draft[d].stamp => d = e
        BY <3>3, <1>7 DEF IInv, DraftInv
      <4> QED
        BY <4>2, <4>3, <4>4
    <3> QED
      BY <3>1, <3>2, <3>3
  <2> QED
    BY <2>1, <2>2
<1> QED
  BY <1>9, <1>10, <1>11, <1>12, <1>13 DEF IInv

LEMMA SwallowKeepsIInv ==
  ASSUME IInv, NEW c \in Clients, Swallow(c)
  PROVE  IInv'
<1>1. /\ pc' = [pc EXCEPT ![c] = "idle"]
      /\ draft' = [draft EXCEPT ![c] = NoDraft]
      /\ UNCHANGED <<log, clock, users>>
  BY DEF Swallow, Finish
<1>2. \A d \in Clients : /\ pc'[d] = IF d = c THEN "idle" ELSE pc[d]
                         /\ draft'[d] = IF d = c THEN NoDraft ELSE draft[d]
  BY <1>1 DEF IInv, TypeOK, Shaped
<1>3. Visible' = Visible
  BY <1>1 DEF Visible
<1>4. TypeOK'
  BY <1>1, <1>2, <1>3, MaxLogsAssumption DEF IInv, TypeOK, Steps, NoDraft
<1>5. Shaped'
  BY <1>1, <1>2 DEF IInv, Shaped, NoDraft, IsRow
<1>6. RowsHashed' /\ Rooted'
  BY <1>1, <1>3 DEF IInv, RowsHashed, Rooted, IsHashed
<1>7. DraftInv'
  <2>1. \A d \in Clients : pc'[d] # "idle" => draft'[d] = draft[d] /\ pc'[d] = pc[d]
    BY <1>2
  <2> QED
    BY <1>1, <1>3, <2>1 DEF IInv, DraftInv, IsRow, IsHashed, Chained, Stamps
<1> QED
  BY <1>4, <1>5, <1>6, <1>7 DEF IInv

\* A deletion changes no more than the actors of rows.
LEMMA DeleteUserActors ==
  ASSUME IInv, NEW a \in Actors, DeleteUser(a)
  PROVE  /\ Visible' = Visible
         /\ log' = [i \in Stamps |-> log'[i]]
         /\ \A i \in Stamps :
              /\ IsRow(log'[i])
              /\ log'[i].checksum = log[i].checksum
              /\ log'[i].prev = log[i].prev
              /\ log'[i].actor = IF log[i].actor = a THEN Nobody ELSE log[i].actor
<1>1. log' = [i \in Stamps |->
        IF log[i].actor = a THEN [log[i] EXCEPT !.actor = Nobody] ELSE log[i]]
  BY DEF DeleteUser
<1>2. ASSUME NEW i \in Stamps
      PROVE  /\ IsRow(log'[i])
             /\ log'[i].checksum = log[i].checksum
             /\ log'[i].prev = log[i].prev
             /\ log'[i].actor = IF log[i].actor = a THEN Nobody ELSE log[i].actor
  <2>1. IsRow(log[i])
    BY DEF IInv, Shaped
  <2>2. log'[i] = IF log[i].actor = a THEN [log[i] EXCEPT !.actor = Nobody] ELSE log[i]
    BY <1>1
  <2> QED
    BY <2>1, <2>2 DEF IsRow, Row
<1>3. Visible' = Visible
  BY <1>2 DEF Visible
<1> QED
  BY <1>1, <1>2, <1>3

LEMMA DeleteUserKeepsIInv ==
  ASSUME IInv, NEW a \in Actors, DeleteUser(a)
  PROVE  IInv'
<1>1. a \in users /\ users' = users \ {a} /\ UNCHANGED <<clock, pc, draft>>
  BY DEF DeleteUser
<1>2. /\ Visible' = Visible
      /\ log' = [i \in Stamps |-> log'[i]]
      /\ \A i \in Stamps :
           /\ IsRow(log'[i])
           /\ log'[i].checksum = log[i].checksum
           /\ log'[i].prev = log[i].prev
           /\ log'[i].actor = IF log[i].actor = a THEN Nobody ELSE log[i].actor
  BY DeleteUserActors
<1>3. Visible \subseteq Stamps
  BY DEF Visible
<1>4. TypeOK'
  <2>1. \A i \in Stamps : log'[i].actor \in users' \cup {Nobody}
    BY <1>1, <1>2 DEF IInv, TypeOK
  <2> QED
    BY <1>1, <1>2, <2>1 DEF IInv, TypeOK
<1>5. Shaped'
  BY <1>1, <1>2 DEF IInv, Shaped, IsRow
<1>6. RowsHashed'
  BY <1>2, <1>3 DEF IInv, RowsHashed, IsHashed
<1>7. Rooted'
  BY <1>2, <1>3 DEF IInv, Rooted
<1>8. DraftInv'
  <2>1. \A d \in Clients :
          /\ IsRow(draft[d].row)' <=> IsRow(draft[d].row)
          /\ IsHashed(draft[d].row)' <=> IsHashed(draft[d].row)
          /\ Chained(draft[d].row.prev, clock + 1)' <=> Chained(draft[d].row.prev, clock + 1)
          /\ Chained(draft[d].row.prev, draft[d].stamp)'
               <=> Chained(draft[d].row.prev, draft[d].stamp)
    BY <1>1, <1>2, <1>3 DEF Chained, IsRow, IsHashed
  <2> QED
    BY <1>1, <1>2, <2>1 DEF IInv, DraftInv, Stamps
<1> QED
  BY <1>4, <1>5, <1>6, <1>7, <1>8 DEF IInv

LEMMA StepKeepsIInv == IInv /\ [Next]_vars => IInv'
<1> SUFFICES ASSUME IInv, [Next]_vars
             PROVE  IInv'
  OBVIOUS
<1>1. ASSUME NEW c \in Clients, NEW shape \in Shapes, NEW actor \in users \cup {Nobody},
             NEW order \in Orders, ReadPrevious(c, shape, actor, order)
      PROVE  IInv'
  BY <1>1, ReadKeepsIInv
<1>2. ASSUME NEW c \in Clients, Stamp(c)
      PROVE  IInv'
  BY <1>2, StampKeepsIInv
<1>3. ASSUME NEW c \in Clients, Append(c)
      PROVE  IInv'
  BY <1>3, AppendKeepsIInv
<1>4. ASSUME NEW c \in Clients, Swallow(c)
      PROVE  IInv'
  BY <1>4, SwallowKeepsIInv
<1>5. ASSUME NEW a \in Actors, DeleteUser(a)
      PROVE  IInv'
  BY <1>5, DeleteUserKeepsIInv
<1>6. CASE UNCHANGED vars
  <2>1. UNCHANGED <<log, clock, users, pc, draft>> /\ Visible' = Visible
    BY <1>6 DEF vars, Visible
  <2>2. TypeOK'
    BY <2>1 DEF IInv, TypeOK
  <2>3. Shaped'
    BY <2>1 DEF IInv, Shaped, IsRow
  <2>4. RowsHashed' /\ Rooted'
    BY <2>1 DEF IInv, RowsHashed, Rooted, IsHashed
  <2>5. DraftInv'
    <3>1. \A d \in Clients :
            /\ IsRow(draft[d].row)' <=> IsRow(draft[d].row)
            /\ IsHashed(draft[d].row)' <=> IsHashed(draft[d].row)
            /\ Chained(draft[d].row.prev, clock + 1)' <=> Chained(draft[d].row.prev, clock + 1)
            /\ Chained(draft[d].row.prev, draft[d].stamp)'
                 <=> Chained(draft[d].row.prev, draft[d].stamp)
      BY <2>1 DEF Chained, IsRow, IsHashed
    <3> QED
      BY <2>1, <3>1 DEF IInv, DraftInv, Stamps
  <2> QED
    BY <2>2, <2>3, <2>4, <2>5 DEF IInv
<1> QED
  BY <1>1, <1>2, <1>3, <1>4, <1>5, <1>6 DEF Next, Intercept

\* In every reachable state the rows and the entries being written are chained
\* backwards, whatever the writers' interleaving, lost entries and deletions.
THEOREM ChainInvariance == Spec => []IInv
<1>1. Init => IInv
  BY InitIInv
<1>2. IInv /\ [Next]_vars => IInv'
  BY StepKeepsIInv
<1> QED
  BY <1>1, <1>2, PTL DEF Spec

\* AuditChain is type correct, and no row names a user that is gone (the
\* foreign key of audit_logs.actorId).
THEOREM ChainTypeCorrect == Spec => []TypeOK
<1>1. IInv => TypeOK
  BY DEF IInv
<1> QED
  BY <1>1, ChainInvariance, PTL

\* Every previousChecksum is NULL or the checksum of an older stored row
\* (previousChecksum in the three writers).
THEOREM ChainRooted == Spec => []Rooted
<1>1. IInv => Rooted
  BY DEF IInv
<1> QED
  BY <1>1, ChainInvariance, PTL

-----------------------------------------------------------------------------
(* What verifyChain says.                                                  *)

\* The checksums and previousChecksums of the log, as data.
Sums == [i \in Stamps |-> log[i].checksum]
Prevs == [i \in Stamps |-> log[i].prev]

LEMMA LinkedIsLinked ==
  ASSUME NEW i \in Visible
  PROVE  LinkedToPrevious(i) <=> Linked(Visible, Sums, Prevs, NoText, i)
<1>1. Visible \subseteq Stamps
  BY DEF Visible
<1>2. \A j \in Visible : Sums[j] = log[j].checksum /\ Prevs[j] = log[j].prev
  BY <1>1 DEF Sums, Prevs
<1>3. \A j : Precedes(j, i) <=> Pred(Visible, j, i)
  BY DEF Precedes, Pred
<1> QED
  BY <1>2, <1>3 DEF LinkedToPrevious, Linked

\* If every stored row passes verifyEntry and no two rows share a predecessor,
\* verifyChain finds the chain valid.
THEOREM ChainBreaksHaveACause == Spec => []BreaksHaveACause
<1>1. ASSUME IInv
      PROVE  BreaksHaveACause
  <2> SUFFICES ASSUME Unforked, NEW i \in Visible
               PROVE  LinkedToPrevious(i)
    BY DEF BreaksHaveACause, VerifyChain
  <2>1. Visible \in SUBSET (1..MaxLogs)
    BY DEF Visible, Stamps
  <2>2. \A j \in Visible : /\ Sums[j] = log[j].checksum
                           /\ Prevs[j] = log[j].prev
                           /\ Sums[j] # NoText
    BY DEF Visible, Sums, Prevs
  <2>3. \A j \in Visible :
          Prevs[j] # NoText => \E k \in Visible : k < j /\ Prevs[j] = Sums[k]
    BY <1>1, <2>2 DEF IInv, Rooted
  <2>4. \A j, k \in Visible : Prevs[j] = Prevs[k] => j = k
    BY <2>2 DEF Unforked
  <2>5. Linked(Visible, Sums, Prevs, NoText, i)
    <3>1. \A j \in Visible : Sums[j] # NoText
      BY <2>2
    <3> QED
      BY <2>1, <2>3, <2>4, <3>1, Straight, MaxLogsAssumption
  <2> QED
    BY <2>5, LinkedIsLinked
<1> QED
  BY <1>1, ChainInvariance, PTL

\* An entry that commits between two linked rows would make two rows with one
\* checksum, so a valid chain was valid before.
LEMMA AppendHidesNothing ==
  ASSUME IInv, IInv', NEW c \in Clients, Append(c), VerifyChain'
  PROVE  VerifyChain
<1> SUFFICES ASSUME NEW s, s = draft[c].stamp, NEW r, r = draft[c].row
             PROVE  VerifyChain
  OBVIOUS
<1> DEFINE sum == [i \in Stamps |-> log'[i].checksum]
           prev == [i \in Stamps |-> log'[i].prev]
<1>1. /\ IsHashed(r) /\ s \in Stamps \ Visible
      /\ \A i \in Stamps : log'[i] = IF i = s THEN r ELSE log[i]
  BY DEF Append, IInv, DraftInv, Shaped
<1>2. Visible' = Visible \cup {s}
  BY <1>1, HashedNotNull DEF Visible
<1>3. Visible \subseteq Stamps /\ Visible' \in SUBSET (1..MaxLogs)
  BY DEF Visible, Stamps
<1>4. \A i \in Visible' : sum[i] = log'[i].checksum /\ prev[i] = log'[i].prev
  BY <1>3 DEF Stamps
<1>5. Hashed(Visible', sum, prev, NoText)
  <2>1. \A i \in Visible' : log'[i].checksum # NoText /\ log'[i].checksum.prev = log'[i].prev
    BY DEF IInv, RowsHashed, IsHashed, Visible
  <2> HIDE DEF sum, prev
  <2> QED
    BY <1>4, <2>1 DEF Hashed
<1>6. \A j, i : Precedes(j, i)' <=> Pred(Visible', j, i)
  BY DEF Precedes, Pred
<1>7. \A i \in Visible' : Linked(Visible', sum, prev, NoText, i)
  <2>1. \A i \in Visible' : LinkedToPrevious(i)'
    BY DEF VerifyChain
  <2> HIDE DEF sum, prev
  <2> QED
    BY <2>1, <1>4, <1>6 DEF LinkedToPrevious, Linked
<1>8. \A a, b \in Visible' : log'[a].checksum = log'[b].checksum => a = b
  <2> HIDE DEF sum, prev
  <2>1. \A a, b \in Visible' : sum[a] = sum[b] => a = b
    BY <1>3, <1>5, <1>7, Twins, MaxLogsAssumption
  <2> QED
    BY <2>1, <1>4
<1> HIDE DEF sum, prev
<1> SUFFICES ASSUME NEW i \in Visible
             PROVE  LinkedToPrevious(i) /\ VerifyEntry(i)
  BY DEF VerifyChain
<1>9. /\ i \in Visible' /\ i # s /\ i \in Int /\ s \in Int
      /\ log'[i] = log[i]
      /\ LinkedToPrevious(i)' /\ VerifyEntry(i)'
  BY <1>1, <1>2, <1>3 DEF VerifyChain, Stamps
<1>10. VerifyEntry(i)
  BY <1>9 DEF VerifyEntry
<1>11. \A j \in Visible : log'[j] = log[j]
  BY <1>1, <1>3
<1>12. ~Precedes(s, i)'
  <2> SUFFICES ASSUME Precedes(s, i)'
               PROVE  FALSE
    OBVIOUS
  <2>1. s < i /\ \A k \in Visible' : k <= s \/ k >= i
    BY DEF Precedes
  <2>2. log[i].prev = r.checksum
    <3>1. s \in Visible'
      BY <1>2
    <3>2. PICK j \in Visible' : Precedes(j, i)' /\ log'[i].prev = log'[j].checksum
      BY <3>1, <1>9 DEF LinkedToPrevious
    <3>3. j = s
      <4>1. j \in Int /\ j < i /\ (j <= s \/ j >= i) /\ (s <= j \/ s >= i)
        BY <3>1, <3>2, <2>1, <1>3 DEF Precedes, Stamps
      <4> QED
        BY <4>1, <2>1, <1>9
    <3> QED
      BY <3>2, <3>3, <1>1, <1>9
  <2>3. PICK j \in Visible : log[i].prev = log[j].checksum
    BY <2>2, <1>1, HashedNotNull DEF IInv, Rooted
  <2>4. log'[j].checksum = log'[s].checksum
    BY <2>2, <2>3, <1>1, <1>11
  <2>5. j = s
    BY <2>4, <1>2, <1>8
  <2> QED
    BY <2>5, <1>1
<1>13. \A j \in Visible : Precedes(j, i)' => Precedes(j, i)
  BY <1>2 DEF Precedes
<1>14. LinkedToPrevious(i)
  <2>1. CASE \E j \in Visible' : Precedes(j, i)'
    <3>1. PICK j \in Visible' : Precedes(j, i)' /\ log'[i].prev = log'[j].checksum
      BY <2>1, <1>9 DEF LinkedToPrevious
    <3>2. j \in Visible
      BY <3>1, <1>2, <1>12
    <3> QED
      BY <3>1, <3>2, <1>9, <1>11, <1>13 DEF LinkedToPrevious
  <2>2. CASE ~\E j \in Visible' : Precedes(j, i)'
    <3>1. log[i].prev = NoText
      BY <2>2, <1>9 DEF LinkedToPrevious
    <3>2. ~\E j \in Visible : Precedes(j, i)
      <4> SUFFICES ASSUME NEW j \in Visible, Precedes(j, i)
                   PROVE  FALSE
        OBVIOUS
      <4>1. j < i /\ j \in Visible'
        BY <1>2 DEF Precedes
      <4>2. \E k \in Visible' : Pred(Visible', k, i)
        BY <4>1, <1>3, <1>9, PredExists, MaxLogsAssumption
      <4> QED
        BY <4>2, <2>2, <1>6
    <3> QED
      BY <3>1, <3>2 DEF LinkedToPrevious
  <2> QED
    BY <2>1, <2>2
<1> QED
  BY <1>10, <1>14

\* A deletion alters no link, and makes no row verify that did not.
LEMMA DeleteUserHidesNothing ==
  ASSUME IInv, NEW a \in Actors, DeleteUser(a), VerifyChain'
  PROVE  VerifyChain
<1>1. /\ Visible' = Visible
      /\ \A i \in Stamps :
           /\ log'[i].checksum = log[i].checksum
           /\ log'[i].prev = log[i].prev
           /\ log'[i].actor = IF log[i].actor = a THEN Nobody ELSE log[i].actor
  BY DeleteUserActors
<1>2. Visible \subseteq Stamps
  BY DEF Visible
<1> SUFFICES ASSUME NEW i \in Visible
             PROVE  LinkedToPrevious(i) /\ VerifyEntry(i)
  BY DEF VerifyChain
<1>3. LinkedToPrevious(i)' /\ VerifyEntry(i)'
  BY <1>1 DEF VerifyChain
<1>4. LinkedToPrevious(i)
  BY <1>1, <1>2, <1>3 DEF LinkedToPrevious, Precedes
<1>5. VerifyEntry(i)
  <2>1. log[i].checksum # Text("service", Nobody, "stored", log[i].prev)
    BY DEF IInv, RowsHashed, IsHashed
  <2> QED
    BY <2>1, <1>1, <1>2, <1>3 DEF VerifyEntry
<1> QED
  BY <1>4, <1>5

\* A chain that verifyChain found broken is never found valid again
\* (verifyChain, the three writers, and ON DELETE SET NULL on actorId).
THEOREM ChainBreaksStay == Spec => BreaksStay
<1>1. IInv /\ IInv' /\ [Next]_vars => (~VerifyChain => ~VerifyChain')
  <2> SUFFICES ASSUME IInv, IInv', [Next]_vars, VerifyChain'
               PROVE  VerifyChain
    OBVIOUS
  <2>1. ASSUME UNCHANGED log
        PROVE  VerifyChain
    <3>1. Visible' = Visible
      BY <2>1 DEF Visible
    <3> QED
      BY <2>1, <3>1 DEF VerifyChain, LinkedToPrevious, Precedes, VerifyEntry
  <2>2. ASSUME NEW c \in Clients, Append(c)
        PROVE  VerifyChain
    BY <2>2, AppendHidesNothing
  <2>3. ASSUME NEW a \in Actors, DeleteUser(a)
        PROVE  VerifyChain
    BY <2>3, DeleteUserHidesNothing
  <2>4. ASSUME NEW c \in Clients,
               \/ \E shape \in Shapes, actor \in users \cup {Nobody}, order \in Orders :
                    ReadPrevious(c, shape, actor, order)
               \/ Stamp(c) \/ Swallow(c)
        PROVE  UNCHANGED log
    BY <2>4 DEF ReadPrevious, Stamp, Swallow
  <2>5. CASE UNCHANGED vars
    BY <2>1, <2>5 DEF vars
  <2> QED
    BY <2>1, <2>2, <2>3, <2>4, <2>5 DEF Next, Intercept
<1>2. IInv /\ IInv' /\ [Next]_vars => [~VerifyChain => ~VerifyChain']_vars
  BY <1>1
<1> QED
  BY <1>2, ChainInvariance, PTL DEF Spec, BreaksStay
=============================================================================
