---------------------------- MODULE LedgerProofs ----------------------------
(***************************************************************************)
(* Theorems about Ledger, for any numbers of clients, wallets, amounts and *)
(* entries: what stays true of the ledger although every operation checks  *)
(* and computes on balances read outside its transaction.                  *)
(***************************************************************************)
EXTENDS Ledger, TLAPS

InTxn(c) == pc[c] \in {"mark", "insert1", "update1", "insert2", "update2", "commit"}

\* A call that has not opened its transaction has nothing to write, and its
\* first read is of rows that exist.
ReadsOf(c) ==
  /\ ~InTxn(c) => txn[c] = NoTxn /\ ids[c] = <<0, 0>>
  /\ pc[c] = "readOther" =>
       /\ call[c].from \in Wallets
       /\ call[c].to \in Wallets
       /\ call[c].from # call[c].to
       /\ call[c].amount \in Amounts
       /\ call[c].read \in Wallets
  /\ pc[c] = "readWallet" => call[c].entry \in Posted
ReadsInv == \A c \in Clients : ReadsOf(c)

\* What an open transaction is going to write.
TxnOf(c) ==
  InTxn(c) =>
    /\ txn[c].first \in Legs
    /\ txn[c].pair =>
         /\ txn[c].mark = 0
         /\ txn[c].second \in Legs
         /\ txn[c].first.type = "DEBIT" /\ txn[c].second.type = "CREDIT"
         /\ txn[c].first.amount = txn[c].second.amount
         /\ txn[c].first.wallet # txn[c].second.wallet
         /\ txn[c].second.reverses = 0
    /\ ~txn[c].pair => txn[c].second = NoLeg
    /\ txn[c].first.reverses = txn[c].mark
    /\ txn[c].mark # 0 =>
         /\ txn[c].mark \in Posted
         /\ txn[c].first.type = Opposite(rows[txn[c].mark].type)
         /\ txn[c].first.amount = rows[txn[c].mark].amount
         /\ txn[c].first.wallet = rows[txn[c].mark].wallet
TxnInv == \A c \in Clients : TxnOf(c)

\* Which stamps an open transaction holds.
StageOf(c) ==
  /\ pc[c] \in {"mark", "insert1"} => ids[c] = <<0, 0>>
  /\ pc[c] \in {"update1", "insert2"} => ids[c][1] # 0 /\ ids[c][2] = 0
  /\ pc[c] \in {"insert2", "update2"} => txn[c].pair
  /\ pc[c] = "update2" => ids[c][1] # 0 /\ ids[c][2] # 0
  /\ pc[c] = "commit" => ids[c][1] # 0 /\ (txn[c].pair <=> ids[c][2] # 0)
StageInv == \A c \in Clients : StageOf(c)

\* Stamps are handed out once.
StampInv ==
  /\ \A i \in Posted : i <= clock
  /\ \A c \in Clients, k \in 1..2 : ids[c][k] # 0 =>
       /\ ids[c][k] <= clock
       /\ ids[c][k] \notin Posted
  /\ \A c, d \in Clients, k, l \in 1..2 :
       ids[c][k] # 0 /\ ids[c][k] = ids[d][l] => c = d /\ k = l

\* A transferId in the ledger is the stamp of an entry in the ledger.
TransferInv == \A i \in Posted : rows[i].transfer \in Posted \cup {0}

\* A negative balance on its way to a wallet is the reversal of a CREDIT, or
\* was computed from a wallet on which one had been reversed.
Excused(leg) ==
  leg.balance < 0 => UncheckedOn(leg.wallet) \/ Unchecked(leg)
ExcusedOf(c) ==
  /\ InTxn(c) => Excused(txn[c].first) /\ (txn[c].pair => Excused(txn[c].second))
  /\ pc[c] = "readOther" => (call[c].seen < 0 => UncheckedOn(call[c].read))
OverdraftInv == OverdraftOnlyUnchecked /\ \A c \in Clients : ExcusedOf(c)

IInv ==
  /\ TypeOK /\ ReadsInv /\ TxnInv /\ StageInv /\ StampInv
  /\ TransferInv /\ TransfersPaired /\ ReversalsLinked /\ OverdraftInv

-----------------------------------------------------------------------------
(* Types.                                                                  *)

\* What every proof uses of the constants.
LEMMA ConstantFacts ==
  /\ Amounts \subseteq Int
  /\ MaxEntries \in Nat
  /\ Nobody \notin Wallets
BY AmountsAssumption, MaxEntriesAssumption, NobodyAssumption

\* The idle values are in their sets.
LEMMA IdleValues == NoTxn \in Txns /\ NoCall \in Calls
BY ConstantFacts DEF NoTxn, NoCall, Txns, Calls

\* Initially every variable has its type.
LEMMA InitType == Init => TypeOK
BY ConstantFacts, IdleValues DEF Init, TypeOK, Ids, Steps

\* Opening a transaction keeps the types of pc and txn.
LEMMA OpenType ==
  ASSUME TypeOK, NEW c \in Clients, NEW t \in Txns, Open(c, t)
  PROVE  txn' \in [Clients -> Txns] /\ pc' \in [Clients -> Steps]
BY DEF TypeOK, Open, Steps

\* A leg computed from a typed balance is a leg.
LEMMA LegType ==
  ASSUME NEW w \in Wallets, NEW type \in {"DEBIT", "CREDIT"}, NEW a \in Amounts,
         NEW b \in Int, NEW e \in 0..MaxEntries
  PROVE  Leg(w, type, a, b, e) \in Legs
BY DEF Leg, Legs

\* A transaction of one leg is a transaction.
LEMMA OneLegType ==
  ASSUME NEW w \in Wallets, NEW type \in {"DEBIT", "CREDIT"}, NEW a \in Amounts, NEW b \in Int
  PROVE  OneLeg(w, type, a, b) \in Txns
<1>1. Leg(w, type, a, b, 0) \in Legs
  BY LegType, ConstantFacts
<1> QED
  BY <1>1, ConstantFacts DEF OneLeg, Txns

\* postDebit and postCredit keep the types.
LEMMA PostType ==
  ASSUME TypeOK, NEW c \in Clients, NEW w \in Wallets, NEW a \in Amounts,
         PostDebit(c, w, a) \/ PostCredit(c, w, a)
  PROVE  TypeOK'
<1>1. wallet[w] - a \in Int /\ wallet[w] + a \in Int
  BY ConstantFacts DEF TypeOK
<1>2. /\ OneLeg(w, "DEBIT", a, wallet[w] - a) \in Txns
      /\ OneLeg(w, "CREDIT", a, wallet[w] + a) \in Txns
  BY <1>1, OneLegType
<1>3. txn' \in [Clients -> Txns] /\ pc' \in [Clients -> Steps]
  BY <1>2, OpenType DEF PostDebit, PostCredit
<1> QED
  BY <1>3 DEF TypeOK, PostDebit, PostCredit

\* The first reads of transfers and reversals keep the types.
LEMMA FirstReadType ==
  ASSUME TypeOK, NEW c \in Clients,
         \/ \E f, t \in Wallets, a \in Amounts : \E first \in {f, t} :
              TransferReadsOne(c, f, t, a, first)
         \/ \E e \in Ids : ReverseReadsEntry(c, e)
  PROVE  TypeOK'
<1>1. ASSUME NEW f \in Wallets, NEW t \in Wallets, NEW a \in Amounts, NEW first \in {f, t},
             TransferReadsOne(c, f, t, a, first)
      PROVE  TypeOK'
  <2>1. [from |-> f, to |-> t, amount |-> a, entry |-> 0, read |-> first,
         seen |-> wallet[first]] \in Calls
    BY ConstantFacts DEF Calls, TypeOK
  <2> QED
    BY <1>1, <2>1 DEF TransferReadsOne, Steps, TypeOK
<1>2. ASSUME NEW e \in Ids, ReverseReadsEntry(c, e)
      PROVE  TypeOK'
  <2>1. [NoCall EXCEPT !.entry = e] \in Calls
    BY ConstantFacts DEF Calls, NoCall, Ids
  <2> QED
    BY <1>2, <2>1 DEF ReverseReadsEntry, Steps, TypeOK
<1> QED
  BY <1>1, <1>2

\* Closing a call keeps the types of what it resets.
LEMMA CloseType ==
  ASSUME TypeOK, NEW c \in Clients, Close(c)
  PROVE  /\ txn' \in [Clients -> Txns] /\ pc' \in [Clients -> Steps]
         /\ call' \in [Clients -> Calls]
         /\ ids' \in [Clients -> (0..MaxEntries) \X (0..MaxEntries)]
BY ConstantFacts, IdleValues DEF TypeOK, Close, Steps

\* The decisions of postTransfer keep the types.
LEMMA TransferType ==
  ASSUME TypeOK, ReadsInv, NEW c \in Clients, PostTransfer(c) \/ RejectTransfer(c)
  PROVE  TypeOK'
<1>1. CASE PostTransfer(c)
  <2> DEFINE f == call[c].from
             t == call[c].to
             a == call[c].amount
             new == TwoLegs(f, Seen(c, f) - a, t, Seen(c, t) + a, a)
  <2>1. f \in Wallets /\ t \in Wallets /\ a \in Amounts /\ call[c].seen \in Int
    BY <1>1 DEF ReadsInv, ReadsOf, PostTransfer, TypeOK, Calls
  <2>2. Seen(c, f) \in Int /\ Seen(c, t) \in Int /\ a \in Int
    <3>1. wallet \in [Wallets -> Int] /\ Amounts \subseteq Int
      BY ConstantFacts DEF TypeOK
    <3> QED
      BY <2>1, <3>1 DEF Seen
  <2>3. new \in Txns
    <3> HIDE DEF f, t, a
    <3>1. Seen(c, f) - a \in Int /\ Seen(c, t) + a \in Int
      BY <2>2
    <3>2. /\ Leg(f, "DEBIT", a, Seen(c, f) - a, 0) \in Legs
          /\ Leg(t, "CREDIT", a, Seen(c, t) + a, 0) \in Legs
      BY <2>1, <3>1, LegType, ConstantFacts
    <3> QED
      BY <3>2, ConstantFacts DEF TwoLegs, Txns
  <2>4. txn' \in [Clients -> Txns] /\ pc' \in [Clients -> Steps]
    BY <1>1, <2>3, OpenType DEF PostTransfer
  <2> QED
    BY <1>1, <2>4, IdleValues DEF PostTransfer, TypeOK
<1>2. CASE RejectTransfer(c)
  BY <1>2, IdleValues DEF RejectTransfer, TypeOK, Steps
<1> QED
  BY <1>1, <1>2

\* What a reversal writes is a leg.
LEMMA UndoType ==
  ASSUME TypeOK, NEW e \in Posted
  PROVE  /\ rows[e] \in Rows
         /\ e \in Ids
         /\ Undo(e) \in Legs
<1>1. rows[e] \in Rows /\ e \in Ids
  BY DEF Posted, TypeOK, Absent
<1>2. /\ rows[e].wallet \in Wallets /\ rows[e].amount \in Amounts
      /\ rows[e].type \in {"DEBIT", "CREDIT"}
  BY <1>1 DEF Rows
<1>3. /\ wallet[rows[e].wallet] \in Int
      /\ rows[e].amount \in Int
  <2>1. wallet \in [Wallets -> Int] /\ Amounts \subseteq Int
    BY ConstantFacts DEF TypeOK
  <2> QED
    BY <1>2, <2>1
<1>4. /\ wallet[rows[e].wallet] + rows[e].amount \in Int
      /\ wallet[rows[e].wallet] - rows[e].amount \in Int
  BY <1>3
<1> DEFINE back == IF rows[e].type = "DEBIT" THEN wallet[rows[e].wallet] + rows[e].amount
                   ELSE wallet[rows[e].wallet] - rows[e].amount
<1>5. back \in Int
  BY <1>4
<1>6. Opposite(rows[e].type) \in {"DEBIT", "CREDIT"}
  BY DEF Opposite
<1>7. e \in 0..MaxEntries
  BY <1>1, ConstantFacts DEF Ids
<1>8. Undo(e) = Leg(rows[e].wallet, Opposite(rows[e].type), rows[e].amount, back, e)
  BY DEF Undo
<1> QED
  <2> HIDE DEF back
  <2> QED
    BY <1>1, <1>2, <1>5, <1>6, <1>7, <1>8, LegType

\* reverseEntry's decision keeps the types.
LEMMA ReverseType ==
  ASSUME TypeOK, ReadsInv, NEW c \in Clients, ReverseEntry(c)
  PROVE  TypeOK'
<1> DEFINE e == call[c].entry
<1>1. e \in Posted
  BY DEF ReadsInv, ReadsOf, ReverseEntry
<1>2. Reversal(e) \in Txns
  BY <1>1, UndoType, ConstantFacts DEF Reversal, Txns, Ids
<1>3. txn' \in [Clients -> Txns] /\ pc' \in [Clients -> Steps]
  BY <1>2, OpenType DEF ReverseEntry
<1> QED
  BY <1>3, IdleValues DEF ReverseEntry, TypeOK

\* The statements before COMMIT keep the types.
LEMMA StatementType ==
  ASSUME TypeOK, NEW c \in Clients, MarkReversed(c) \/ InsertEntry(c) \/ UpdateWallet(c)
  PROVE  TypeOK'
<1>1. CASE MarkReversed(c)
  BY <1>1 DEF MarkReversed, TypeOK, Steps
<1>2. CASE InsertEntry(c)
  <2>1. clock + 1 \in 0..MaxEntries
    BY <1>2, ConstantFacts DEF InsertEntry, TypeOK
  <2>2. /\ pc' \in [Clients -> Steps]
        /\ clock' \in 0..MaxEntries
        /\ UNCHANGED <<wallet, rows, call, txn>>
    BY <1>2, <2>1 DEF InsertEntry, TypeOK, Steps
  <2>3. ids' \in [Clients -> (0..MaxEntries) \X (0..MaxEntries)]
    BY <1>2, <2>1, ConstantFacts DEF InsertEntry, TypeOK
  <2> QED
    BY <2>2, <2>3 DEF TypeOK
<1>3. CASE UpdateWallet(c)
  BY <1>3 DEF UpdateWallet, TypeOK, Steps
<1> QED
  BY <1>1, <1>2, <1>3

\* What COMMIT does to the ledger and the wallets.
LEMMA CommitRows ==
  ASSUME TypeOK, ReadsInv, TxnInv, StageInv, StampInv, NEW c \in Clients, Commit(c)
  PROVE  /\ ids[c][1] \in Ids \ Posted
         /\ rows'[ids[c][1]] = NewRow(c, txn[c].first)
         /\ txn[c].pair =>
              /\ ids[c][2] \in Ids \ Posted
              /\ ids[c][1] # ids[c][2]
              /\ rows'[ids[c][2]] = NewRow(c, txn[c].second)
         /\ ~txn[c].pair => ids[c][2] = 0
         /\ txn[c].mark # 0 =>
              /\ txn[c].mark \in Posted
              /\ rows'[txn[c].mark] = [rows[txn[c].mark] EXCEPT !.status = "REVERSED"]
         /\ \A i \in Ids \ {ids[c][1], ids[c][2], txn[c].mark} : rows'[i] = rows[i]
<1>1. InTxn(c) /\ pc[c] = "commit"
  BY DEF Commit, InTxn
<1>2. /\ ids[c][1] \in 0..MaxEntries /\ ids[c][1] # 0
      /\ ids[c][2] \in 0..MaxEntries /\ (txn[c].pair <=> ids[c][2] # 0)
  BY <1>1 DEF StageInv, StageOf, TypeOK
<1>3. ids[c][1] \in Ids \ Posted
  BY <1>2, ConstantFacts DEF StampInv, Ids
<1>4. txn[c].pair => ids[c][2] \in Ids \ Posted /\ ids[c][1] # ids[c][2]
  <2>1. ASSUME txn[c].pair
        PROVE  ids[c][2] \in Ids \ Posted
    BY <1>2, <2>1, ConstantFacts DEF StampInv, Ids
  <2>2. ids[c][1] = ids[c][2] => 1 = 2
    BY <1>2 DEF StampInv
  <2> QED
    BY <2>1, <2>2
<1>5. txn[c].mark # 0 => txn[c].mark \in Posted
  BY <1>1 DEF TxnInv, TxnOf
<1>6. rows' = [i \in Ids |->
                 CASE i = ids[c][1] -> NewRow(c, txn[c].first)
                   [] i = ids[c][2] -> NewRow(c, txn[c].second)
                   [] i = txn[c].mark -> [rows[i] EXCEPT !.status = "REVERSED"]
                   [] OTHER -> rows[i]]
  BY DEF Commit, Inserted
<1>7. Posted \subseteq Ids
  BY DEF Posted
<1>8. ids[c][1] \in Ids => rows'[ids[c][1]] = NewRow(c, txn[c].first)
  <2>1. ids[c][1] # txn[c].mark
    BY <1>2, <1>3, <1>5
  <2>2. ids[c][1] # ids[c][2]
    BY <1>2, <1>4
  <2> QED
    BY <1>6, <2>1, <2>2
<1>9. txn[c].pair => rows'[ids[c][2]] = NewRow(c, txn[c].second)
  BY <1>1, <1>4, <1>6, <1>2 DEF TxnInv, TxnOf
<1>10. txn[c].mark # 0 => rows'[txn[c].mark] = [rows[txn[c].mark] EXCEPT !.status = "REVERSED"]
  <2>1. ASSUME txn[c].mark # 0
        PROVE  txn[c].mark \in Ids /\ txn[c].mark # ids[c][1] /\ txn[c].mark # ids[c][2]
    BY <2>1, <1>2, <1>3, <1>4, <1>5, <1>7
  <2> QED
    BY <1>6, <2>1
<1>11. \A i \in Ids \ {ids[c][1], ids[c][2], txn[c].mark} : rows'[i] = rows[i]
  BY <1>6
<1> QED
  BY <1>2, <1>3, <1>4, <1>5, <1>8, <1>9, <1>10, <1>11

\* A wallet after COMMIT holds a leg's balance or what it held.
LEMMA CommitWallets ==
  ASSUME TypeOK, TxnInv, NEW c \in Clients, Commit(c), NEW w \in Wallets
  PROVE  \/ w = txn[c].first.wallet /\ wallet'[w] = txn[c].first.balance
         \/ txn[c].pair /\ w = txn[c].second.wallet /\ wallet'[w] = txn[c].second.balance
         \/ wallet'[w] = wallet[w]
<1>1. InTxn(c)
  BY DEF Commit, InTxn
<1>2. wallet' = [v \in Wallets |->
                   CASE v = txn[c].first.wallet -> txn[c].first.balance
                     [] v = txn[c].second.wallet -> txn[c].second.balance
                     [] OTHER -> wallet[v]]
  BY DEF Commit, Updated
<1>3. txn[c].second.wallet = w => txn[c].pair /\ w # txn[c].first.wallet
  BY <1>1, ConstantFacts DEF TxnInv, TxnOf, NoLeg, Leg
<1> QED
  BY <1>2, <1>3

\* COMMIT keeps the types.
LEMMA CommitType ==
  ASSUME TypeOK, ReadsInv, TxnInv, StageInv, StampInv, NEW c \in Clients, Commit(c)
  PROVE  TypeOK' /\ NewRow(c, txn[c].first) \in Rows
         /\ (txn[c].pair => NewRow(c, txn[c].second) \in Rows)
<1>1. txn[c].first \in Legs /\ (txn[c].pair => txn[c].second \in Legs)
  BY DEF TxnInv, TxnOf, InTxn, Commit
<1>2. TransferId(c) \in 0..MaxEntries
  <2>1. ids[c][1] \in 0..MaxEntries
    BY DEF TypeOK
  <2>2. ASSUME txn[c].mark # 0, ~txn[c].pair
        PROVE  rows[txn[c].mark].transfer \in 0..MaxEntries
    BY <2>2 DEF TxnInv, TxnOf, InTxn, Commit, Posted, TypeOK, Rows, Absent
  <2> QED
    BY <2>1, <2>2, ConstantFacts DEF TransferId
<1>3. NewRow(c, txn[c].first) \in Rows
  BY <1>1, <1>2 DEF NewRow, Legs, Rows
<1>4. txn[c].pair => NewRow(c, txn[c].second) \in Rows
  BY <1>1, <1>2 DEF NewRow, Legs, Rows
<1>5. rows' \in [Ids -> Rows \cup {Absent}]
  <2>1. ASSUME NEW i \in Ids
        PROVE  rows'[i] \in Rows \cup {Absent}
    <3>1. CASE i = ids[c][1]
      BY <3>1, <1>3, CommitRows
    <3>2. CASE i = ids[c][2]
      <4>1. i # 0
        BY ConstantFacts DEF Ids
      <4> QED
        BY <3>2, <4>1, <1>4, CommitRows
    <3>3. CASE i = txn[c].mark
      <4>1. i \in Posted /\ rows'[i] = [rows[i] EXCEPT !.status = "REVERSED"]
        BY <3>3, CommitRows DEF Ids
      <4>2. rows[i] \in Rows
        BY <4>1, UndoType
      <4> QED
        BY <4>1, <4>2 DEF Rows
    <3>4. CASE i \notin {ids[c][1], ids[c][2], txn[c].mark}
      BY <3>4, CommitRows DEF TypeOK
    <3> QED
      BY <3>1, <3>2, <3>3, <3>4
  <2>2. rows' = [i \in Ids |-> rows'[i]]
    BY DEF Commit, Inserted
  <2> QED
    BY <2>1, <2>2
<1>6. wallet' \in [Wallets -> Int]
  <2>1. ASSUME NEW w \in Wallets
        PROVE  wallet'[w] \in Int
    BY <1>1, CommitWallets DEF TypeOK, Legs
  <2>2. wallet' = [w \in Wallets |-> wallet'[w]]
    BY DEF Commit, Updated
  <2> QED
    BY <2>1, <2>2
<1>7. clock' \in 0..MaxEntries
  BY DEF Commit, TypeOK
<1>8. /\ txn' \in [Clients -> Txns] /\ pc' \in [Clients -> Steps]
      /\ call' \in [Clients -> Calls]
      /\ ids' \in [Clients -> (0..MaxEntries) \X (0..MaxEntries)]
  BY CloseType DEF Commit
<1> QED
  BY <1>3, <1>4, <1>5, <1>6, <1>7, <1>8 DEF TypeOK

-----------------------------------------------------------------------------
(* The ledger only grows.                                                  *)

SameEntry(i) ==
  /\ rows'[i].wallet = rows[i].wallet /\ rows'[i].type = rows[i].type
  /\ rows'[i].amount = rows[i].amount /\ rows'[i].balance = rows[i].balance
  /\ rows'[i].transfer = rows[i].transfer /\ rows'[i].reverses = rows[i].reverses

\* What the rows of a transaction record.
LEMMA NewRowFields ==
  ASSUME NEW c \in Clients
  PROVE  /\ NewRow(c, txn[c].first).wallet = txn[c].first.wallet
         /\ NewRow(c, txn[c].first).type = txn[c].first.type
         /\ NewRow(c, txn[c].first).amount = txn[c].first.amount
         /\ NewRow(c, txn[c].first).balance = txn[c].first.balance
         /\ NewRow(c, txn[c].first).reverses = txn[c].first.reverses
         /\ NewRow(c, txn[c].first).transfer = TransferId(c)
         /\ NewRow(c, txn[c].first).status = "POSTED"
         /\ NewRow(c, txn[c].second).wallet = txn[c].second.wallet
         /\ NewRow(c, txn[c].second).type = txn[c].second.type
         /\ NewRow(c, txn[c].second).amount = txn[c].second.amount
         /\ NewRow(c, txn[c].second).balance = txn[c].second.balance
         /\ NewRow(c, txn[c].second).reverses = txn[c].second.reverses
         /\ NewRow(c, txn[c].second).transfer = TransferId(c)
         /\ NewRow(c, txn[c].second).status = "POSTED"
BY DEF NewRow

\* COMMIT keeps what every entry records and adds its own rows.
LEMMA CommitGrows ==
  ASSUME TypeOK, ReadsInv, TxnInv, StageInv, StampInv, NEW c \in Clients, Commit(c)
  PROVE  /\ \A i \in Posted :
              /\ SameEntry(i)
              /\ rows'[i].status = IF i = txn[c].mark THEN "REVERSED" ELSE rows[i].status
         /\ Posted' = Posted \cup {ids[c][1]} \cup (IF txn[c].pair THEN {ids[c][2]} ELSE {})
<1>1. ASSUME NEW i \in Posted
      PROVE  /\ SameEntry(i)
             /\ rows'[i].status = IF i = txn[c].mark THEN "REVERSED" ELSE rows[i].status
  <2>1. i \in Ids /\ rows[i] \in Rows
    BY UndoType
  <2>2. i # ids[c][1]
    BY CommitRows
  <2>3. i # ids[c][2]
    <3>1. 0 \notin Ids
      BY ConstantFacts DEF Ids
    <3> QED
      BY <2>1, <3>1, CommitRows
  <2>4. CASE i = txn[c].mark
    <3>1. i # 0
      BY <2>1, ConstantFacts DEF Ids
    <3>2. rows'[i] = [rows[i] EXCEPT !.status = "REVERSED"]
      BY <2>4, <3>1, CommitRows
    <3> QED
      BY <2>1, <2>4, <3>2 DEF Rows, SameEntry
  <2>5. CASE i # txn[c].mark
    <3>1. rows'[i] = rows[i]
      BY <2>1, <2>2, <2>3, <2>5, CommitRows
    <3> QED
      BY <2>5, <3>1 DEF SameEntry
  <2> QED
    BY <2>4, <2>5
<1>2. ASSUME NEW i \in Ids
      PROVE  i \in Posted' <=> \/ i \in Posted \/ i = ids[c][1]
                               \/ txn[c].pair /\ i = ids[c][2]
  <2>1. i # 0
    BY ConstantFacts DEF Ids
  <2>2. CASE i = ids[c][1]
    BY <2>2, CommitRows, NewRowFields DEF Posted
  <2>3. CASE i = ids[c][2] /\ txn[c].pair
    BY <2>3, CommitRows, NewRowFields DEF Posted
  <2>4. CASE i = txn[c].mark
    <3>1. i \in Posted
      BY <2>1, <2>4, CommitRows
    <3>2. rows'[i].status # "ABSENT"
      BY <1>1, <2>4, <3>1
    <3> QED
      BY <3>1, <3>2 DEF Posted
  <2>5. CASE i \notin {ids[c][1], ids[c][2], txn[c].mark}
    <3>1. rows'[i] = rows[i]
      BY <2>5, CommitRows
    <3> QED
      BY <2>5, <3>1 DEF Posted
  <2>6. ~txn[c].pair => i # ids[c][2]
    BY <2>1, CommitRows
  <2> QED
    BY <2>2, <2>3, <2>4, <2>5, <2>6
<1>3. ids[c][1] \in Ids /\ (txn[c].pair => ids[c][2] \in Ids)
  BY CommitRows
<1>4. Posted \subseteq Ids /\ Posted' \subseteq Ids
  BY DEF Posted
<1> QED
  BY <1>1, <1>2, <1>3, <1>4

-----------------------------------------------------------------------------
(* What COMMIT does to the invariants.                                     *)

\* The rows COMMIT adds, field by field.
LEMMA NewEntries ==
  ASSUME TypeOK, ReadsInv, TxnInv, StageInv, StampInv, NEW c \in Clients, Commit(c)
  PROVE  /\ ids[c][1] \in Ids /\ ids[c][1] \in Posted' /\ ids[c][1] \notin Posted
         /\ rows'[ids[c][1]].wallet = txn[c].first.wallet
         /\ rows'[ids[c][1]].type = txn[c].first.type
         /\ rows'[ids[c][1]].amount = txn[c].first.amount
         /\ rows'[ids[c][1]].reverses = txn[c].first.reverses
         /\ rows'[ids[c][1]].transfer = TransferId(c)
         /\ rows'[ids[c][1]].status = "POSTED"
         /\ txn[c].pair =>
              /\ ids[c][2] \in Ids /\ ids[c][2] \in Posted' /\ ids[c][2] \notin Posted
              /\ rows'[ids[c][2]].wallet = txn[c].second.wallet
              /\ rows'[ids[c][2]].type = txn[c].second.type
              /\ rows'[ids[c][2]].amount = txn[c].second.amount
              /\ rows'[ids[c][2]].reverses = txn[c].second.reverses
              /\ rows'[ids[c][2]].transfer = TransferId(c)
              /\ rows'[ids[c][2]].status = "POSTED"
         /\ \A i \in Posted' : i \in Posted \/ i = ids[c][1] \/ (txn[c].pair /\ i = ids[c][2])
         /\ Posted \subseteq Posted'
<1>1. /\ ids[c][1] \in Ids \ Posted
      /\ rows'[ids[c][1]] = NewRow(c, txn[c].first)
  BY CommitRows
<1>2. txn[c].pair => /\ ids[c][2] \in Ids \ Posted
                     /\ rows'[ids[c][2]] = NewRow(c, txn[c].second)
  BY CommitRows
<1>3. Posted' = Posted \cup {ids[c][1]} \cup (IF txn[c].pair THEN {ids[c][2]} ELSE {})
  BY CommitGrows
<1> QED
  BY <1>1, <1>2, <1>3, NewRowFields

\* UncheckedOn of the next state, w being one value in both states.
UncheckedNext(w) ==
  \E i \in Posted' : rows'[i].wallet = w /\ Unchecked(rows'[i])

\* An unchecked posting stays in the ledger.
LEMMA UncheckedGrows ==
  ASSUME TypeOK, ReadsInv, TxnInv, StageInv, StampInv, NEW c \in Clients, Commit(c)
  PROVE  \A w : UncheckedOn(w) => UncheckedNext(w)
<1> SUFFICES ASSUME NEW w, UncheckedOn(w)
             PROVE  UncheckedNext(w)
  OBVIOUS
<1>1. PICK i \in Posted : rows[i].wallet = w /\ Unchecked(rows[i])
  BY DEF UncheckedOn
<1> QED
  BY <1>1, CommitGrows DEF UncheckedNext, Unchecked, SameEntry

\* After COMMIT too, only unchecked postings explain negative balances.
LEMMA CommitOverdraft ==
  ASSUME TypeOK, ReadsInv, TxnInv, StageInv, StampInv, OverdraftInv, NEW c \in Clients, Commit(c)
  PROVE  OverdraftInv'
<1>1. InTxn(c)
  BY DEF Commit, InTxn
<1>2. txn[c].first.balance < 0 => UncheckedNext(txn[c].first.wallet)
  <2> SUFFICES ASSUME txn[c].first.balance < 0
               PROVE  UncheckedNext(txn[c].first.wallet)
    OBVIOUS
  <2>1. CASE UncheckedOn(txn[c].first.wallet)
    BY <2>1, UncheckedGrows
  <2>2. CASE Unchecked(txn[c].first)
    <3>1. ids[c][1] \in Posted'
      BY CommitGrows
    <3>2. /\ rows'[ids[c][1]].wallet = txn[c].first.wallet
          /\ Unchecked(rows'[ids[c][1]])
      BY <2>2, CommitRows, NewRowFields DEF Unchecked
    <3> QED
      BY <3>1, <3>2 DEF UncheckedNext
  <2> QED
    BY <1>1, <2>1, <2>2 DEF OverdraftInv, ExcusedOf, Excused
<1>3. txn[c].pair /\ txn[c].second.balance < 0 => UncheckedNext(txn[c].second.wallet)
  <2> SUFFICES ASSUME txn[c].pair, txn[c].second.balance < 0
               PROVE  UncheckedNext(txn[c].second.wallet)
    OBVIOUS
  <2>1. CASE UncheckedOn(txn[c].second.wallet)
    BY <2>1, UncheckedGrows
  <2>2. CASE Unchecked(txn[c].second)
    <3>1. ids[c][2] \in Posted'
      BY CommitGrows
    <3>2. /\ rows'[ids[c][2]].wallet = txn[c].second.wallet
          /\ Unchecked(rows'[ids[c][2]])
      BY <2>2, CommitRows, NewRowFields DEF Unchecked
    <3> QED
      BY <3>1, <3>2 DEF UncheckedNext
  <2> QED
    BY <1>1, <2>1, <2>2 DEF OverdraftInv, ExcusedOf, Excused
<1>4. \A w \in Wallets : wallet'[w] < 0 => UncheckedNext(w)
  <2>1. ASSUME NEW w \in Wallets, wallet'[w] < 0
        PROVE  UncheckedNext(w)
    BY <1>2, <1>3, <2>1, CommitWallets, UncheckedGrows
       DEF OverdraftInv, ExcusedOf, OverdraftOnlyUnchecked
  <2> QED
    BY <2>1
<1>5. OverdraftOnlyUnchecked'
  BY <1>4 DEF OverdraftOnlyUnchecked, UncheckedOn, UncheckedNext
<1>6. ASSUME NEW d \in Clients
      PROVE  ExcusedOf(d)'
  <2>1. CASE d = c
    BY <2>1 DEF Commit, Close, InTxn, TypeOK, ExcusedOf
  <2>2. CASE d # c
    <3>1. pc'[d] = pc[d] /\ txn'[d] = txn[d] /\ call'[d] = call[d]
      BY <2>2 DEF Commit, Close, TypeOK
    <3>2. InTxn(d)' => InTxn(d)
      BY <3>1 DEF InTxn
    <3>3. InTxn(d) => /\ txn[d].first.balance < 0 => UncheckedNext(txn[d].first.wallet)
                                \/ Unchecked(txn[d].first)
                      /\ txn[d].pair => (txn[d].second.balance < 0 =>
                           UncheckedNext(txn[d].second.wallet)
                                \/ Unchecked(txn[d].second))
      BY UncheckedGrows DEF OverdraftInv, ExcusedOf, Excused
    <3>4. pc[d] = "readOther" => (call[d].seen < 0 => UncheckedNext(call[d].read))
      BY UncheckedGrows DEF OverdraftInv, ExcusedOf
    <3> QED
      BY <3>1, <3>2, <3>3, <3>4 DEF ExcusedOf, Excused, UncheckedOn, UncheckedNext
  <2> QED
    BY <2>1, <2>2
<1> QED
  BY <1>5, <1>6 DEF OverdraftInv

\* After COMMIT each transferId is still that of an entry.
LEMMA CommitTransferIds ==
  ASSUME TypeOK, ReadsInv, TxnInv, StageInv, StampInv, TransferInv, NEW c \in Clients, Commit(c)
  PROVE  TransferInv' /\ TransferId(c) \in Posted' \cup {0}
                      /\ (txn[c].pair => TransferId(c) = ids[c][1])
                      /\ (~txn[c].pair => TransferId(c) \in Posted \cup {0})
<1>1. InTxn(c)
  BY DEF Commit, InTxn
<1>2. txn[c].pair => TransferId(c) = ids[c][1]
  BY DEF TransferId
<1>3. ~txn[c].pair => TransferId(c) \in Posted \cup {0}
  BY <1>1 DEF TransferId, TxnInv, TxnOf, TransferInv
<1>4. TransferId(c) \in Posted' \cup {0}
  BY <1>2, <1>3, CommitGrows
<1>5. ASSUME NEW i \in Posted'
      PROVE  rows'[i].transfer \in Posted' \cup {0}
  <2>1. CASE i \in Posted
    BY <2>1, CommitGrows DEF SameEntry, TransferInv
  <2>2. CASE i \notin Posted
    <3>1. rows'[i].transfer = TransferId(c)
      BY <2>2, NewEntries
    <3> QED
      BY <3>1, <1>4
  <2> QED
    BY <2>1, <2>2
<1> QED
  BY <1>2, <1>3, <1>4, <1>5 DEF TransferInv

\* After COMMIT the legs of each transfer still come as a pair.
LEMMA CommitTransfers ==
  ASSUME TypeOK, ReadsInv, TxnInv, StageInv, StampInv, TransferInv, TransfersPaired,
         NEW c \in Clients, Commit(c)
  PROVE  TransfersPaired'
<1> DEFINE i1 == ids[c][1]
           i2 == ids[c][2]
           LegsNext(t) == {i \in Posted' : rows'[i].transfer = t /\ rows'[i].reverses = 0}
<1>1. InTxn(c) /\ i1 \in Ids /\ i1 \notin Posted /\ i1 # 0
  <2>1. InTxn(c)
    BY DEF Commit, InTxn
  <2>2. i1 \in Ids /\ i1 \notin Posted
    BY NewEntries
  <2> QED
    BY <2>1, <2>2, ConstantFacts DEF Ids
<1>2. ASSUME NEW i \in Posted'
      PROVE  IF i \in Posted THEN SameEntry(i)
             ELSE /\ rows'[i].transfer = TransferId(c)
                  /\ \/ i = i1 /\ rows'[i].reverses = txn[c].first.reverses
                     \/ txn[c].pair /\ i = i2
  BY CommitGrows, NewEntries
<1>3. \A t \in Ids : t # i1 => LegsNext(t) = LegsOf(t)
  <2> SUFFICES ASSUME NEW t \in Ids, t # i1
               PROVE  LegsNext(t) = LegsOf(t)
    OBVIOUS
  <2>1. Posted \subseteq Posted'
    BY CommitGrows
  <2>2. ASSUME NEW i \in Posted', i \notin Posted
        PROVE  ~(rows'[i].transfer = t /\ rows'[i].reverses = 0)
    <3>1. CASE txn[c].pair
      BY <2>2, <1>2, <3>1, CommitTransferIds
    <3>2. CASE ~txn[c].pair
      <4>1. rows'[i].reverses = txn[c].mark
        BY <1>1, <1>2, <2>2, <3>2 DEF TxnInv, TxnOf
      <4>2. txn[c].mark = 0 => rows'[i].transfer = 0
        BY <1>2, <2>2, <3>2 DEF TransferId
      <4>3. t # 0
        BY ConstantFacts DEF Ids
      <4> QED
        BY <4>1, <4>2, <4>3
    <3> QED
      BY <3>1, <3>2
  <2> QED
    BY <1>2, <2>1, <2>2 DEF LegsOf, SameEntry
<1>4. LegsOf(i1) = {}
  BY <1>1 DEF LegsOf, TransferInv
<1>5. ~txn[c].pair => LegsNext(i1) = {}
  <2> SUFFICES ASSUME ~txn[c].pair, NEW i \in Posted', rows'[i].transfer = i1,
                      rows'[i].reverses = 0
               PROVE  FALSE
    OBVIOUS
  <2>1. i \in Posted => rows[i].transfer = i1 /\ rows[i].reverses = 0
    BY <1>2 DEF SameEntry
  <2>2. i \notin Posted => TransferId(c) = i1
    BY <1>2
  <2> QED
    BY <1>1, <1>4, <2>1, <2>2, CommitTransferIds DEF LegsOf
<1>6. txn[c].pair => LegsNext(i1) = {i1, i2}
  <2> SUFFICES ASSUME txn[c].pair
               PROVE  LegsNext(i1) = {i1, i2}
    OBVIOUS
  <2>1. i1 \in LegsNext(i1) /\ i2 \in LegsNext(i1)
    <3>1. txn[c].first.reverses = 0 /\ txn[c].second.reverses = 0
      BY <1>1 DEF TxnInv, TxnOf
    <3> QED
      BY <3>1, NewEntries, CommitTransferIds
  <2>2. ASSUME NEW i \in LegsNext(i1)
        PROVE  i \in {i1, i2}
    <3>1. i \in Posted => i \in LegsOf(i1)
      BY <1>2 DEF LegsOf, SameEntry
    <3> QED
      BY <1>2, <1>4, <3>1
  <2> QED
    BY <2>1, <2>2
<1>7. ASSUME NEW t \in Ids, LegsNext(t) # {}
      PROVE  \E i, j \in Ids :
               /\ LegsNext(t) = {i, j}
               /\ rows'[i].type = "DEBIT" /\ rows'[j].type = "CREDIT"
               /\ rows'[i].amount = rows'[j].amount
               /\ rows'[i].wallet # rows'[j].wallet
  <2>1. CASE t = i1
    <3>1. txn[c].pair
      BY <1>5, <1>7, <2>1
    <3>2. i2 \in Ids /\ LegsNext(t) = {i1, i2}
      BY <1>6, <2>1, <3>1, CommitRows
    <3>3. /\ rows'[i1].type = "DEBIT" /\ rows'[i2].type = "CREDIT"
          /\ rows'[i1].amount = rows'[i2].amount
          /\ rows'[i1].wallet # rows'[i2].wallet
      BY <1>1, <3>1, NewEntries DEF TxnInv, TxnOf
    <3> QED
      BY <1>1, <3>2, <3>3
  <2>2. CASE t # i1
    <3>1. LegsNext(t) = LegsOf(t) /\ LegsOf(t) # {}
      BY <1>3, <1>7, <2>2
    <3>2. PICK i, j \in Ids :
            /\ LegsOf(t) = {i, j}
            /\ rows[i].type = "DEBIT" /\ rows[j].type = "CREDIT"
            /\ rows[i].amount = rows[j].amount
            /\ rows[i].wallet # rows[j].wallet
      BY <3>1 DEF TransfersPaired
    <3>3. i \in Posted /\ j \in Posted
      BY <3>2 DEF LegsOf
    <3>4. SameEntry(i) /\ SameEntry(j)
      BY <3>3, CommitGrows
    <3> QED
      BY <3>1, <3>2, <3>4 DEF SameEntry
  <2> QED
    BY <2>1, <2>2
<1> QED
  BY <1>7 DEF TransfersPaired, LegsOf

\* After COMMIT every REVERSED entry still has its reversal and conversely.
LEMMA CommitReversals ==
  ASSUME TypeOK, ReadsInv, TxnInv, StageInv, StampInv, ReversalsLinked,
         NEW c \in Clients, Commit(c)
  PROVE  ReversalsLinked'
<1> DEFINE i1 == ids[c][1]
           m == txn[c].mark
           TakesNext(i, e) ==
             /\ rows'[i].reverses = e
             /\ rows'[i].type = Opposite(rows'[e].type)
             /\ rows'[i].amount = rows'[e].amount
             /\ rows'[i].wallet = rows'[e].wallet
             /\ rows'[i].transfer = rows'[e].transfer
<1>1. InTxn(c)
  BY DEF Commit, InTxn
<1>2. \A i, e \in Posted : TakesBack(i, e) => TakesNext(i, e)
  BY CommitGrows DEF SameEntry, TakesBack
<1>3. m # 0 => /\ m \in Posted /\ i1 \in Posted' /\ TakesNext(i1, m)
               /\ rows'[m].status = "REVERSED"
  <2> SUFFICES ASSUME m # 0
               PROVE  /\ m \in Posted /\ i1 \in Posted' /\ TakesNext(i1, m)
                      /\ rows'[m].status = "REVERSED"
    OBVIOUS
  <2>1. m \in Posted /\ i1 \in Posted' /\ ~txn[c].pair
    BY <1>1, CommitGrows DEF TxnInv, TxnOf
  <2>2. TransferId(c) = rows[m].transfer
    BY <2>1 DEF TransferId
  <2>3. SameEntry(m) /\ rows'[m].status = "REVERSED"
    BY <2>1, CommitGrows
  <2>4. rows'[i1] = NewRow(c, txn[c].first)
    BY CommitRows
  <2> QED
    BY <1>1, <2>1, <2>2, <2>3, <2>4, NewRowFields DEF TxnInv, TxnOf, SameEntry
<1>4. ASSUME NEW e \in Posted', rows'[e].status = "REVERSED"
      PROVE  \E i \in Posted' : TakesNext(i, e)
  <2>1. CASE e \notin Posted
    <3>1. rows'[e].status = "POSTED"
      BY <2>1, NewEntries
    <3> QED
      BY <1>4, <3>1
  <2>2. CASE e \in Posted /\ e = m
    <3>1. e # 0
      BY <2>2, ConstantFacts DEF Posted, Ids
    <3> QED
      BY <1>3, <2>2, <3>1
  <2>3. CASE e \in Posted /\ e # m
    <3>1. rows[e].status = "REVERSED"
      BY <1>4, <2>3, CommitGrows
    <3>2. PICK i \in Posted : TakesBack(i, e)
      BY <2>3, <3>1 DEF ReversalsLinked
    <3> QED
      BY <1>2, <2>3, <3>2, CommitGrows
  <2> QED
    BY <2>1, <2>2, <2>3
<1>5. ASSUME NEW i \in Posted', rows'[i].reverses # 0
      PROVE  /\ rows'[i].reverses \in Posted'
             /\ rows'[rows'[i].reverses].status = "REVERSED"
             /\ TakesNext(i, rows'[i].reverses)
  <2>1. CASE i \in Posted
    <3>1. rows'[i].reverses = rows[i].reverses
      BY <2>1, CommitGrows DEF SameEntry
    <3>2. /\ rows[i].reverses \in Posted
          /\ rows[rows[i].reverses].status = "REVERSED"
          /\ TakesBack(i, rows[i].reverses)
      BY <1>5, <2>1, <3>1 DEF ReversalsLinked
    <3>3. rows'[rows[i].reverses].status = "REVERSED"
      BY <3>2, CommitGrows
    <3> QED
      BY <1>2, <2>1, <3>1, <3>2, <3>3, CommitGrows
  <2>2. CASE i \notin Posted
    <3>1. i = i1 /\ rows'[i].reverses = m
      <4>1. txn[c].pair => txn[c].second.reverses = 0
        BY <1>1 DEF TxnInv, TxnOf
      <4>2. txn[c].first.reverses = m
        BY <1>1 DEF TxnInv, TxnOf
      <4>3. txn[c].pair /\ i = ids[c][2] => rows'[i].reverses = 0
        BY <4>1, NewEntries
      <4> QED
        BY <1>5, <2>2, <4>2, <4>3, NewEntries
    <3> QED
      BY <1>3, <1>5, <3>1, CommitGrows
  <2> QED
    BY <2>1, <2>2
<1> QED
  BY <1>4, <1>5 DEF ReversalsLinked, TakesBack

\* After COMMIT every client's call is still in order.
LEMMA CommitCalls ==
  ASSUME TypeOK, ReadsInv, TxnInv, StageInv, StampInv, NEW c \in Clients, Commit(c)
  PROVE  ReadsInv' /\ TxnInv' /\ StageInv' /\ StampInv'
<1>1. Posted \subseteq Posted' /\ \A i \in Posted : SameEntry(i)
  BY CommitGrows
<1>2. /\ pc'[c] = "idle" /\ txn'[c] = NoTxn /\ ids'[c] = <<0, 0>>
      /\ clock' = clock
      /\ \A d \in Clients \ {c} : /\ pc'[d] = pc[d] /\ txn'[d] = txn[d]
                                  /\ ids'[d] = ids[d] /\ call'[d] = call[d]
  BY DEF Commit, Close, TypeOK
<1>3. ASSUME NEW d \in Clients
      PROVE  ReadsOf(d)' /\ TxnOf(d)' /\ StageOf(d)'
  <2>1. CASE d = c
    BY <1>2, <2>1 DEF ReadsOf, TxnOf, StageOf, InTxn
  <2>2. CASE d # c
    <3>1. pc'[d] = pc[d] /\ txn'[d] = txn[d] /\ ids'[d] = ids[d] /\ call'[d] = call[d]
      BY <1>2, <2>2
    <3>2. ReadsOf(d)'
      BY <1>1, <3>1 DEF ReadsInv, ReadsOf, InTxn
    <3>3. StageOf(d)'
      BY <3>1 DEF StageInv, StageOf
    <3>4. TxnOf(d)'
      BY <1>1, <3>1 DEF TxnInv, TxnOf, InTxn, SameEntry
    <3> QED
      BY <3>2, <3>3, <3>4
  <2> QED
    BY <2>1, <2>2
<1>4. StampInv'
  <2>1. \A i \in Posted' : i <= clock'
    BY <1>2, NewEntries DEF StampInv, TypeOK
  <2>2. ASSUME NEW d \in Clients, NEW k \in 1..2, ids'[d][k] # 0
        PROVE  /\ d # c /\ ids'[d][k] = ids[d][k]
               /\ ids'[d][k] <= clock' /\ ids'[d][k] \notin Posted'
    <3>1. d # c /\ ids'[d][k] = ids[d][k]
      BY <1>2, <2>2
    <3>2. ids[d][k] # 0 /\ ids[d][k] <= clock /\ ids[d][k] \notin Posted
      BY <2>2, <3>1 DEF StampInv
    <3>3. ids[d][k] # ids[c][1] /\ ids[d][k] # ids[c][2]
      BY <3>1, <3>2 DEF StampInv
    <3> QED
      BY <1>2, <3>1, <3>2, <3>3, NewEntries
  <2>3. ASSUME NEW d \in Clients, NEW e \in Clients, NEW k \in 1..2, NEW l \in 1..2,
               ids'[d][k] # 0, ids'[d][k] = ids'[e][l]
        PROVE  d = e /\ k = l
    <3>1. ids'[e][l] # 0
      BY <2>3
    <3>2. ids'[d][k] = ids[d][k] /\ ids'[e][l] = ids[e][l]
      BY <2>2, <2>3, <3>1
    <3>3. ids[d][k] # 0 /\ ids[d][k] = ids[e][l]
      BY <2>3, <3>2
    <3> QED
      BY <3>3 DEF StampInv
  <2> QED
    BY <2>1, <2>2, <2>3 DEF StampInv
<1> QED
  BY <1>3, <1>4 DEF ReadsInv, TxnInv, StageInv

-----------------------------------------------------------------------------
(* Steps that touch neither the ledger nor the wallets.                    *)

Quiet == wallet' = wallet /\ rows' = rows

\* They keep what is said of the ledger alone.
LEMMA QuietLedger ==
  ASSUME Quiet
  PROVE  /\ Posted' = Posted
         /\ TransferInv => TransferInv'
         /\ TransfersPaired => TransfersPaired'
         /\ ReversalsLinked => ReversalsLinked'
         /\ OverdraftOnlyUnchecked => OverdraftOnlyUnchecked'
         /\ \A w : UncheckedOn(w) <=> UncheckedNext(w)
<1>1. Posted' = Posted
  BY DEF Quiet, Posted
<1>2. TransferInv => TransferInv'
  BY <1>1 DEF Quiet, TransferInv
<1>3. TransfersPaired => TransfersPaired'
  BY <1>1 DEF Quiet, TransfersPaired, LegsOf
<1>4. ReversalsLinked => ReversalsLinked'
  BY <1>1 DEF Quiet, ReversalsLinked, TakesBack
<1>5. OverdraftOnlyUnchecked => OverdraftOnlyUnchecked'
  BY <1>1 DEF Quiet, OverdraftOnlyUnchecked, UncheckedOn
<1>6. \A w : UncheckedOn(w) <=> UncheckedNext(w)
  BY <1>1 DEF Quiet, UncheckedOn, UncheckedNext
<1> QED
  BY <1>1, <1>2, <1>3, <1>4, <1>5, <1>6

\* They keep a client in order whose own call does not move.
LEMMA QuietClient ==
  ASSUME Quiet, NEW d \in Clients,
         pc'[d] = pc[d], txn'[d] = txn[d], ids'[d] = ids[d], call'[d] = call[d],
         ReadsOf(d), TxnOf(d), StageOf(d), ExcusedOf(d)
  PROVE  ReadsOf(d)' /\ TxnOf(d)' /\ StageOf(d)' /\ ExcusedOf(d)'
<1>1. Posted' = Posted
  BY QuietLedger
<1>2. ReadsOf(d)' /\ StageOf(d)'
  BY <1>1 DEF ReadsOf, StageOf, InTxn
<1>3. TxnOf(d)'
  BY <1>1 DEF TxnOf, InTxn, Quiet
<1>4. ExcusedOf(d)'
  BY <1>1 DEF ExcusedOf, Excused, UncheckedOn, InTxn, Quiet
<1> QED
  BY <1>2, <1>3, <1>4

\* So a quiet step of one client keeps the invariant if it keeps that
\* client's own part of it and the stamps.
OnlyMoves(c) ==
  \A d \in Clients \ {c} : /\ pc'[d] = pc[d] /\ txn'[d] = txn[d]
                           /\ ids'[d] = ids[d] /\ call'[d] = call[d]
LEMMA QuietStep ==
  ASSUME IInv, Quiet, NEW c \in Clients, OnlyMoves(c), TypeOK', StampInv',
         ReadsOf(c)', TxnOf(c)', StageOf(c)', ExcusedOf(c)'
  PROVE  IInv'
<1>1. ASSUME NEW d \in Clients
      PROVE  ReadsOf(d)' /\ TxnOf(d)' /\ StageOf(d)' /\ ExcusedOf(d)'
  <2>1. CASE d = c
    BY <2>1
  <2>2. CASE d # c
    BY <2>2, QuietClient DEF OnlyMoves, IInv, ReadsInv, TxnInv, StageInv, OverdraftInv
  <2> QED
    BY <2>1, <2>2
<1>2. TransferInv' /\ TransfersPaired' /\ ReversalsLinked' /\ OverdraftOnlyUnchecked'
  BY QuietLedger DEF IInv, OverdraftInv
<1> QED
  BY <1>1, <1>2 DEF IInv, ReadsInv, TxnInv, StageInv, OverdraftInv

\* Stamps stay good when no client gets one.
LEMMA QuietStamps ==
  ASSUME StampInv, TypeOK, Quiet, clock' = clock,
         \A d \in Clients : ids'[d] = ids[d] \/ ids'[d] = <<0, 0>>
  PROVE  StampInv'
<1>1. Posted' = Posted
  BY QuietLedger
<1>2. \A d \in Clients, k \in 1..2 : ids'[d][k] # 0 => ids'[d][k] = ids[d][k]
  OBVIOUS
<1> QED
  BY <1>1, <1>2 DEF StampInv

\* ROLLBACK keeps the invariant.
LEMMA AbortInv ==
  ASSUME IInv, NEW c \in Clients, Abort(c) \/ DeadlockVictim(c)
  PROVE  IInv'
<1>1. Close(c) /\ Quiet /\ clock' = clock
  BY DEF Abort, DeadlockVictim, Quiet
<1>2. TypeOK'
  BY <1>1, CloseType DEF IInv, TypeOK, Quiet
<1>3. /\ OnlyMoves(c)
      /\ pc'[c] = "idle" /\ txn'[c] = NoTxn /\ ids'[c] = <<0, 0>>
  BY <1>1 DEF OnlyMoves, Close, IInv, TypeOK
<1>4. StampInv'
  BY <1>1, <1>3, QuietStamps DEF IInv, OnlyMoves
<1>5. ReadsOf(c)' /\ TxnOf(c)' /\ StageOf(c)' /\ ExcusedOf(c)'
  BY <1>3 DEF ReadsOf, TxnOf, StageOf, ExcusedOf, InTxn
<1> QED
  BY <1>1, <1>2, <1>3, <1>4, <1>5, QuietStep

\* The first read of a transfer or reversal keeps the invariant.
LEMMA FirstReadInv ==
  ASSUME IInv, NEW c \in Clients,
         \/ \E f, t \in Wallets, a \in Amounts : \E first \in {f, t} :
              TransferReadsOne(c, f, t, a, first)
         \/ \E e \in Ids : ReverseReadsEntry(c, e)
  PROVE  IInv'
<1>1. Quiet /\ clock' = clock /\ ids' = ids /\ txn' = txn
  BY DEF TransferReadsOne, ReverseReadsEntry, Quiet
<1>2. OnlyMoves(c)
  BY DEF OnlyMoves, TransferReadsOne, ReverseReadsEntry, IInv, TypeOK
<1>3. TypeOK'
  BY FirstReadType DEF IInv
<1>4. StampInv'
  BY <1>1, QuietStamps DEF IInv
<1>5. pc[c] = "idle" /\ txn[c] = NoTxn /\ ids[c] = <<0, 0>>
  BY DEF TransferReadsOne, ReverseReadsEntry, IInv, ReadsInv, ReadsOf, InTxn
<1>6. ASSUME NEW f \in Wallets, NEW t \in Wallets, NEW a \in Amounts, NEW first \in {f, t},
             TransferReadsOne(c, f, t, a, first)
      PROVE  ReadsOf(c)' /\ ExcusedOf(c)'
  <2>1. /\ pc'[c] = "readOther" /\ f # t
        /\ call'[c].from = f /\ call'[c].to = t /\ call'[c].amount = a
        /\ call'[c].read = first /\ call'[c].seen = wallet[first]
    BY <1>6 DEF TransferReadsOne, IInv, TypeOK
  <2>2. ReadsOf(c)'
    BY <1>1, <1>5, <2>1 DEF ReadsOf, InTxn
  <2>3. wallet[first] < 0 => UncheckedOn(first)'
    BY <1>1, QuietLedger DEF IInv, OverdraftInv, OverdraftOnlyUnchecked, UncheckedOn,
       Quiet
  <2> QED
    BY <2>1, <2>2, <2>3 DEF ExcusedOf, InTxn, UncheckedOn
<1>7. ASSUME NEW e \in Ids, ReverseReadsEntry(c, e)
      PROVE  ReadsOf(c)' /\ ExcusedOf(c)'
  <2>1. pc'[c] = "readWallet" /\ call'[c].entry = e /\ e \in Posted
    BY <1>7 DEF ReverseReadsEntry, IInv, TypeOK, NoCall, Posted
  <2> QED
    BY <1>1, <1>5, <2>1, QuietLedger DEF ReadsOf, ExcusedOf, InTxn
<1>8. TxnOf(c)' /\ StageOf(c)'
  BY DEF TransferReadsOne, ReverseReadsEntry, IInv, TypeOK, TxnOf, StageOf, InTxn
<1> QED
  BY <1>1, <1>2, <1>3, <1>4, <1>6, <1>7, <1>8, QuietStep

\* Opening a transaction from a call without one moves only that client, and
\* keeps its stamps as they were, at none.
LEMMA OpenStep ==
  ASSUME IInv, NEW c \in Clients, NEW t, Open(c, t), ~InTxn(c), Quiet, clock' = clock,
         ids' = ids, \A d \in Clients \ {c} : call'[d] = call[d]
  PROVE  /\ OnlyMoves(c) /\ StampInv'
         /\ txn'[c] = t
         /\ pc'[c] = IF t.mark = 0 THEN "insert1" ELSE "mark"
         /\ InTxn(c)'
         /\ StageOf(c)' /\ ReadsOf(c)'
<1>1. /\ OnlyMoves(c) /\ txn'[c] = t
      /\ pc'[c] = IF t.mark = 0 THEN "insert1" ELSE "mark"
  BY DEF Open, OnlyMoves, IInv, TypeOK
<1>2. InTxn(c)'
  BY <1>1 DEF InTxn
<1>3. ids[c] = <<0, 0>>
  BY DEF IInv, ReadsInv, ReadsOf
<1>4. StageOf(c)' /\ ReadsOf(c)'
  BY <1>1, <1>2, <1>3 DEF StageOf, ReadsOf, InTxn
<1>5. StampInv'
  BY QuietStamps DEF IInv
<1> QED
  BY <1>1, <1>2, <1>4, <1>5

\* postDebit and postCredit keep the invariant: a debit leaves what the read
\* balance covers, a credit of a negative amount is unchecked.
LEMMA PostInv ==
  ASSUME IInv, NEW c \in Clients, NEW w \in Wallets, NEW a \in Amounts,
         PostDebit(c, w, a) \/ PostCredit(c, w, a)
  PROVE  IInv'
<1>1. /\ Quiet /\ clock' = clock /\ ids' = ids /\ call' = call
      /\ ~InTxn(c)
  BY DEF PostDebit, PostCredit, Quiet, InTxn
<1>2. TypeOK'
  BY PostType DEF IInv
<1>3. PICK type \in {"DEBIT", "CREDIT"}, b \in Int :
        /\ Open(c, OneLeg(w, type, a, b))
        /\ b < 0 => UncheckedOn(w) \/ (type = "CREDIT" /\ a < 0)
  <2>1. wallet[w] \in Int /\ a \in Int
    <3>1. wallet \in [Wallets -> Int] /\ Amounts \subseteq Int
      BY ConstantFacts DEF IInv, TypeOK
    <3> QED
      BY <3>1
  <2>2. wallet[w] < 0 => UncheckedOn(w)
    BY DEF IInv, OverdraftInv, OverdraftOnlyUnchecked
  <2>3. CASE PostDebit(c, w, a)
    <3>1. wallet[w] - a \in Int /\ ~(wallet[w] - a < 0)
      BY <2>1, <2>3 DEF PostDebit
    <3> QED
      BY <2>3, <3>1 DEF PostDebit
  <2>4. CASE PostCredit(c, w, a)
    <3>1. wallet[w] + a \in Int /\ (wallet[w] + a < 0 => wallet[w] < 0 \/ a < 0)
      BY <2>1
    <3> QED
      BY <2>2, <2>4, <3>1 DEF PostCredit
  <2> QED
    BY <2>3, <2>4
<1>4. /\ OnlyMoves(c) /\ StampInv' /\ txn'[c] = OneLeg(w, type, a, b) /\ InTxn(c)'
      /\ StageOf(c)' /\ ReadsOf(c)'
  BY <1>1, <1>3, OpenStep
<1>5. Leg(w, type, a, b, 0) \in Legs
  BY LegType, ConstantFacts
<1>6. TxnOf(c)'
  BY <1>4, <1>5 DEF TxnOf, OneLeg, Leg
<1>7. ExcusedOf(c)'
  <2>1. b < 0 => UncheckedOn(w)' \/ (type = "CREDIT" /\ a < 0)
    BY <1>1, <1>3, QuietLedger DEF UncheckedOn, Quiet
  <2>2. pc'[c] # "readOther"
    BY <1>4 DEF InTxn
  <2> QED
    BY <1>4, <2>1, <2>2 DEF ExcusedOf, Excused, OneLeg, Leg, Unchecked, UncheckedOn
<1> QED
  BY <1>1, <1>2, <1>4, <1>6, <1>7, QuietStep

\* postTransfer keeps the invariant, accepted or rejected, although one of the
\* two balances it checks and writes may be stale.
LEMMA TransferInvariant ==
  ASSUME IInv, NEW c \in Clients, PostTransfer(c) \/ RejectTransfer(c)
  PROVE  IInv'
<1>1. /\ Quiet /\ clock' = clock /\ ids' = ids /\ ~InTxn(c)
      /\ call'[c] = NoCall
      /\ \A d \in Clients \ {c} : call'[d] = call[d]
  BY DEF PostTransfer, RejectTransfer, Quiet, InTxn, IInv, TypeOK
<1>2. TypeOK'
  BY TransferType DEF IInv
<1>3. CASE RejectTransfer(c)
  <2>1. OnlyMoves(c) /\ pc'[c] = "idle" /\ txn' = txn
    BY <1>1, <1>3 DEF RejectTransfer, OnlyMoves, IInv, TypeOK
  <2>2. StampInv'
    BY <1>1, QuietStamps DEF IInv
  <2>3. txn[c] = NoTxn /\ ids[c] = <<0, 0>>
    BY <1>1 DEF IInv, ReadsInv, ReadsOf
  <2>4. ReadsOf(c)' /\ TxnOf(c)' /\ StageOf(c)' /\ ExcusedOf(c)'
    BY <1>1, <2>1, <2>3 DEF ReadsOf, TxnOf, StageOf, ExcusedOf, InTxn
  <2> QED
    BY <1>1, <1>2, <2>1, <2>2, <2>4, QuietStep
<1>4. CASE PostTransfer(c)
  <2>1. PICK f \in Wallets, t \in Wallets, a \in Amounts, x \in Int, y \in Int :
          /\ Open(c, TwoLegs(f, x - a, t, y + a, a))
          /\ f # t
          /\ x >= a
          /\ y < 0 => UncheckedOn(t)
    <3>1. /\ call[c].from \in Wallets /\ call[c].to \in Wallets /\ call[c].amount \in Amounts
          /\ call[c].from # call[c].to /\ call[c].read \in Wallets
      BY <1>4 DEF PostTransfer, IInv, ReadsInv, ReadsOf
    <3>2. Seen(c, call[c].from) \in Int /\ Seen(c, call[c].to) \in Int
      <4>1. wallet \in [Wallets -> Int] /\ call[c].seen \in Int
        BY DEF IInv, TypeOK, Calls
      <4> QED
        BY <3>1, <4>1 DEF Seen
    <3>3. Seen(c, call[c].to) < 0 => UncheckedOn(call[c].to)
      BY <1>4, <3>1 DEF Seen, PostTransfer, IInv, OverdraftInv, ExcusedOf,
         OverdraftOnlyUnchecked
    <3> QED
      BY <1>4, <3>1, <3>2, <3>3 DEF PostTransfer
  <2>2. a \in Int
    BY ConstantFacts
  <2>3. /\ OnlyMoves(c) /\ StampInv' /\ txn'[c] = TwoLegs(f, x - a, t, y + a, a) /\ InTxn(c)'
        /\ StageOf(c)' /\ ReadsOf(c)'
    BY <1>1, <2>1, OpenStep
  <2>4. Leg(f, "DEBIT", a, x - a, 0) \in Legs /\ Leg(t, "CREDIT", a, y + a, 0) \in Legs
    <3>1. x - a \in Int /\ y + a \in Int
      BY <2>2
    <3> QED
      BY <3>1, LegType, ConstantFacts
  <2>5. TxnOf(c)'
    BY <2>1, <2>3, <2>4 DEF TxnOf, TwoLegs, Leg
  <2>6. ExcusedOf(c)'
    <3>1. ~(x - a < 0) /\ (y + a < 0 => y < 0 \/ a < 0)
      BY <2>1, <2>2
    <3>2. y + a < 0 => UncheckedOn(t)' \/ a < 0
      BY <1>1, <2>1, <3>1, QuietLedger DEF UncheckedOn, Quiet
    <3>3. pc'[c] # "readOther"
      BY <2>3 DEF InTxn
    <3> QED
      BY <2>3, <3>1, <3>2, <3>3 DEF ExcusedOf, Excused, TwoLegs, Leg, Unchecked, UncheckedOn
  <2> QED
    BY <1>1, <1>2, <2>3, <2>5, <2>6, QuietStep
<1> QED
  BY <1>3, <1>4

\* reverseEntry keeps the invariant: its leg undoes an entry of the ledger,
\* and if it leaves the wallet negative it is itself the excuse, or found one.
LEMMA ReverseInv ==
  ASSUME IInv, NEW c \in Clients, ReverseEntry(c)
  PROVE  IInv'
<1> DEFINE e == call[c].entry
<1>1. /\ Quiet /\ clock' = clock /\ ids' = ids /\ ~InTxn(c)
      /\ \A d \in Clients \ {c} : call'[d] = call[d]
  BY DEF ReverseEntry, Quiet, InTxn, IInv, TypeOK
<1>2. TypeOK'
  BY ReverseType DEF IInv
<1>3. e \in Posted /\ Open(c, Reversal(e))
  BY DEF ReverseEntry, IInv, ReadsInv, ReadsOf
<1>4. rows[e] \in Rows /\ e \in Ids /\ Undo(e) \in Legs
  BY <1>3, UndoType DEF IInv
<1>5. e # 0
  BY <1>4, ConstantFacts DEF Ids
<1>6. /\ OnlyMoves(c) /\ StampInv' /\ txn'[c] = Reversal(e) /\ InTxn(c)'
      /\ StageOf(c)' /\ ReadsOf(c)'
  BY <1>1, <1>3, OpenStep
<1>7. TxnOf(c)'
  BY <1>1, <1>3, <1>4, <1>5, <1>6, QuietLedger DEF TxnOf, Reversal, Undo, Leg, Quiet
<1>8. ExcusedOf(c)'
  <2> DEFINE w == rows[e].wallet
             a == rows[e].amount
  <2>1. w \in Wallets /\ a \in Int /\ rows[e].type \in {"DEBIT", "CREDIT"}
    BY <1>4, ConstantFacts DEF Rows
  <2>2. wallet[w] \in Int
    BY <2>1 DEF IInv, TypeOK
  <2>3. /\ Undo(e).wallet = w /\ Undo(e).amount = a /\ Undo(e).reverses = e
        /\ Undo(e).type = Opposite(rows[e].type)
    BY DEF Undo, Leg
  <2>4. Undo(e).balance < 0 => wallet[w] < 0 \/ Unchecked(Undo(e))
    <3>1. CASE rows[e].type = "CREDIT"
      <4>1. Undo(e).balance = wallet[w] - a
        BY <3>1 DEF Undo, Leg
      <4>2. wallet[w] - a < 0 => wallet[w] < 0 \/ a > 0
        BY <2>1, <2>2
      <4> QED
        BY <1>5, <2>3, <3>1, <4>1, <4>2 DEF Unchecked, Opposite
    <3>2. CASE rows[e].type = "DEBIT"
      <4>1. Undo(e).balance = wallet[w] + a
        BY <3>2 DEF Undo, Leg
      <4>2. wallet[w] + a < 0 => wallet[w] < 0 \/ a < 0
        BY <2>1, <2>2
      <4> QED
        BY <2>3, <3>2, <4>1, <4>2 DEF Unchecked, Opposite
    <3> QED
      BY <2>1, <3>1, <3>2
  <2>5. wallet[w] < 0 => UncheckedNext(w)
    BY <1>1, <2>1, QuietLedger DEF IInv, OverdraftInv, OverdraftOnlyUnchecked
  <2>6. pc'[c] # "readOther" /\ ~txn'[c].pair /\ txn'[c].first = Undo(e)
    BY <1>6 DEF InTxn, Reversal
  <2>7. Excused(txn[c].first)'
    <3>1. PICK g : g = Undo(e)
      OBVIOUS
    <3>2. txn'[c].first = g /\ g.wallet = w
      BY <2>3, <2>6, <3>1
    <3>3. g.balance < 0 => UncheckedNext(g.wallet) \/ Unchecked(g)
      BY <2>4, <2>5, <3>1, <3>2
    <3> QED
      BY <3>2, <3>3 DEF Excused, UncheckedOn, UncheckedNext, Unchecked
  <2> QED
    BY <2>6, <2>7 DEF ExcusedOf
<1> QED
  BY <1>1, <1>2, <1>6, <1>7, <1>8, QuietStep

\* The statements before COMMIT write nothing others see.
LEMMA StatementInv ==
  ASSUME IInv, NEW c \in Clients, MarkReversed(c) \/ InsertEntry(c) \/ UpdateWallet(c)
  PROVE  IInv'
<1>1. /\ Quiet /\ call' = call /\ txn' = txn /\ InTxn(c) /\ InTxn(c)'
      /\ pc'[c] \in {"insert1", "update1", "insert2", "update2", "commit"}
  BY DEF MarkReversed, InsertEntry, UpdateWallet, Quiet, InTxn, IInv, TypeOK
<1>2. OnlyMoves(c)
  BY DEF MarkReversed, InsertEntry, UpdateWallet, OnlyMoves, IInv, TypeOK
<1>3. TypeOK'
  BY StatementType DEF IInv
<1>4. ReadsOf(c)' /\ TxnOf(c)' /\ ExcusedOf(c)'
  <2>1. Posted' = Posted
    BY <1>1, QuietLedger
  <2>2. ReadsOf(c)'
    BY <1>1 DEF ReadsOf, InTxn
  <2>3. TxnOf(c)'
    BY <1>1, <2>1 DEF TxnOf, Quiet, IInv, TxnInv
  <2>4. ExcusedOf(c)'
    BY <1>1, <2>1 DEF ExcusedOf, Excused, UncheckedOn, Quiet, IInv, OverdraftInv, InTxn
  <2> QED
    BY <2>2, <2>3, <2>4
<1>5. StageOf(c)'
  <2>1. ids[c] \in (0..MaxEntries) \X (0..MaxEntries) /\ clock \in Nat
    BY ConstantFacts DEF IInv, TypeOK
  <2>2. StageOf(c) /\ (pc[c] = "update1" /\ ~txn[c].pair => ids[c][2] = 0)
    BY DEF IInv, StageInv, StageOf
  <2>3. CASE MarkReversed(c)
    BY <2>2, <2>3 DEF MarkReversed, StageOf, IInv, TypeOK
  <2>4. CASE InsertEntry(c)
    BY <2>1, <2>2, <2>4 DEF InsertEntry, StageOf, IInv, TypeOK
  <2>5. CASE UpdateWallet(c)
    <3>1. txn[c].pair \in BOOLEAN
      BY DEF IInv, TypeOK, Txns
    <3>2. pc[c] = "update2" => txn[c].pair
      BY <2>2 DEF StageOf
    <3> QED
      BY <2>2, <2>5, <3>1, <3>2 DEF UpdateWallet, StageOf, IInv, TypeOK
  <2> QED
    BY <2>3, <2>4, <2>5
<1>6. StampInv'
  <2>1. CASE MarkReversed(c) \/ UpdateWallet(c)
    BY <1>1, <2>1, QuietStamps DEF MarkReversed, UpdateWallet, IInv
  <2>2. CASE InsertEntry(c)
    <3>1. Posted' = Posted /\ clock' = clock + 1 /\ clock \in Nat /\ Posted \subseteq Int
      BY <1>1, <2>2, QuietLedger, ConstantFacts DEF InsertEntry, IInv, TypeOK, Posted, Ids
    <3>2. PICK m \in 1..2 :
            \A d \in Clients, k \in 1..2 :
              ids'[d][k] = IF d = c /\ k = m THEN clock + 1
                           ELSE IF d = c /\ k > m THEN 0 ELSE ids[d][k]
      <4>1. CASE pc[c] = "insert1"
        <5>1. \A d \in Clients, k \in 1..2 :
                ids'[d][k] = IF d = c /\ k = 1 THEN clock + 1
                             ELSE IF d = c /\ k > 1 THEN 0 ELSE ids[d][k]
          BY <2>2, <4>1 DEF InsertEntry, IInv, TypeOK
        <5> QED
          BY <5>1
      <4>2. CASE pc[c] = "insert2"
        <5>1. \A d \in Clients, k \in 1..2 :
                ids'[d][k] = IF d = c /\ k = 2 THEN clock + 1
                             ELSE IF d = c /\ k > 2 THEN 0 ELSE ids[d][k]
          BY <2>2, <4>2 DEF InsertEntry, IInv, TypeOK
        <5> QED
          BY <5>1
      <4> QED
        BY <2>2, <4>1, <4>2 DEF InsertEntry
    <3>3. \A i \in Posted' : i <= clock' /\ i # clock + 1
      BY <3>1 DEF IInv, StampInv
    <3>4. \A d \in Clients, k \in 1..2 : ids[d][k] \in Int /\ (ids[d][k] # 0 => ids[d][k] <= clock)
      BY ConstantFacts DEF IInv, TypeOK, StampInv
    <3>5. \A d \in Clients, k \in 1..2 : ids'[d][k] # 0 =>
            /\ (ids'[d][k] = clock + 1 /\ d = c /\ k = m) \/ ids'[d][k] = ids[d][k]
            /\ ids'[d][k] <= clock' /\ ids'[d][k] \notin Posted'
      BY <3>1, <3>2, <3>3, <3>4 DEF IInv, StampInv
    <3>6. ASSUME NEW d \in Clients, NEW f \in Clients, NEW k \in 1..2, NEW l \in 1..2,
                 ids'[d][k] # 0, ids'[d][k] = ids'[f][l]
          PROVE  d = f /\ k = l
      <4>1. ids[d][k] # clock + 1 /\ ids[f][l] # clock + 1
        BY <3>1, <3>4
      <4>2. CASE d = c /\ k = m
        BY <3>2, <3>6, <4>1, <4>2, <3>1
      <4>3. CASE f = c /\ l = m
        BY <3>2, <3>6, <4>1, <4>3, <3>1
      <4>4. CASE ~(d = c /\ k = m) /\ ~(f = c /\ l = m)
        <5>1. ids'[d][k] = ids[d][k] /\ ids'[f][l] = ids[f][l]
          BY <3>2, <3>6, <4>4
        <5>2. ids[d][k] # 0 /\ ids[d][k] = ids[f][l]
          BY <3>6, <5>1
        <5> QED
          BY <5>2 DEF IInv, StampInv
      <4> QED
        BY <4>2, <4>3, <4>4
    <3> QED
      BY <3>3, <3>5, <3>6 DEF StampInv
  <2> QED
    BY <2>1, <2>2
<1> QED
  BY <1>1, <1>2, <1>3, <1>4, <1>5, <1>6, QuietStep

-----------------------------------------------------------------------------
(* The theorems.                                                           *)

\* COMMIT keeps the invariant.
LEMMA CommitInv ==
  ASSUME IInv, NEW c \in Clients, Commit(c)
  PROVE  IInv'
BY CommitType, CommitCalls, CommitTransferIds, CommitTransfers, CommitReversals,
   CommitOverdraft DEF IInv

\* The empty ledger satisfies the invariant.
LEMMA InitInv == Init => IInv
<1> SUFFICES ASSUME Init
             PROVE  IInv
  OBVIOUS
<1>1. TypeOK
  BY InitType
<1>2. Posted = {}
  BY DEF Init, Posted, Absent
<1>3. ReadsInv /\ TxnInv /\ StageInv
  BY DEF Init, ReadsInv, ReadsOf, TxnInv, TxnOf, StageInv, StageOf, InTxn
<1>4. StampInv
  BY <1>2 DEF Init, StampInv
<1>5. TransferInv /\ TransfersPaired /\ ReversalsLinked
  BY <1>2 DEF TransferInv, TransfersPaired, ReversalsLinked, LegsOf
<1>6. OverdraftInv
  BY DEF Init, OverdraftInv, OverdraftOnlyUnchecked, ExcusedOf, InTxn
<1> QED
  BY <1>1, <1>3, <1>4, <1>5, <1>6 DEF IInv

\* Every step of the service keeps the invariant.
LEMMA NextInv == IInv /\ [Next]_vars => IInv'
<1> SUFFICES ASSUME IInv, [Next]_vars
             PROVE  IInv'
  OBVIOUS
<1>1. ASSUME NEW c \in Clients,
             \E w \in Wallets, a \in Amounts : PostDebit(c, w, a) \/ PostCredit(c, w, a)
      PROVE  IInv'
  BY <1>1, PostInv
<1>2. ASSUME NEW c \in Clients,
             \/ \E f, t \in Wallets, a \in Amounts : \E first \in {f, t} :
                  TransferReadsOne(c, f, t, a, first)
             \/ \E e \in Ids : ReverseReadsEntry(c, e)
      PROVE  IInv'
  BY <1>2, FirstReadInv
<1>3. ASSUME NEW c \in Clients, Statement(c)
      PROVE  IInv'
  BY <1>3, TransferInvariant, ReverseInv, StatementInv, CommitInv DEF Statement
<1>4. ASSUME NEW c \in Clients, Abort(c) \/ DeadlockVictim(c)
      PROVE  IInv'
  BY <1>4, AbortInv
<1>5. CASE UNCHANGED vars
  BY <1>5 DEF vars, IInv, TypeOK, ReadsInv, ReadsOf, TxnInv, TxnOf, StageInv, StageOf,
     StampInv, TransferInv, TransfersPaired, LegsOf, ReversalsLinked, TakesBack,
     OverdraftInv, OverdraftOnlyUnchecked, UncheckedOn, Excused, ExcusedOf, InTxn,
     Posted
<1> QED
  BY <1>1, <1>2, <1>3, <1>4, <1>5 DEF Next

\* The inductive invariant of the ledger service.
THEOREM Invariance == Spec => []IInv
BY InitInv, NextInv, PTL DEF Spec

\* Every variable keeps its type.
THEOREM TypeCorrect == Spec => []TypeOK
<1>1. IInv => TypeOK
  BY DEF IInv
<1> QED
  BY <1>1, Invariance, PTL

\* Whatever the signs of the amounts, no interleaving of calls whose checks read
\* stale balances makes a wallet negative; only an unchecked posting on it does.
THEOREM NoOverdraft == Spec => []OverdraftOnlyUnchecked
<1>1. IInv => OverdraftOnlyUnchecked
  BY DEF IInv, OverdraftInv
<1> QED
  BY <1>1, Invariance, PTL

\* A transfer is in the ledger with both legs or not at all.
THEOREM TransfersAtomic == Spec => []TransfersPaired
<1>1. IInv => TransfersPaired
  BY DEF IInv
<1> QED
  BY <1>1, Invariance, PTL

\* REVERSED entries and reversals refer to each other.
THEOREM ReversalsExplained == Spec => []ReversalsLinked
<1>1. IInv => ReversalsLinked
  BY DEF IInv
<1> QED
  BY <1>1, Invariance, PTL

\* A step that is not COMMIT is quiet.
LEMMA OnlyCommitWrites ==
  ASSUME [Next]_vars
  PROVE  Quiet \/ \E c \in Clients : Commit(c)
BY DEF Next, vars, Quiet, PostDebit, PostCredit, TransferReadsOne, ReverseReadsEntry,
   Statement, PostTransfer, RejectTransfer, ReverseEntry, MarkReversed, InsertEntry,
   UpdateWallet, Abort, DeadlockVictim

\* COMMIT appends the entries of the balances it writes.
LEMMA CommitPosts ==
  ASSUME IInv, NEW c \in Clients, Commit(c)
  PROVE  PostingStep
<1>1. AppendOnly
  <2>1. ASSUME NEW i \in Posted
        PROVE  \/ rows'[i] = rows[i]
               \/ /\ rows[i].status = "POSTED"
                  /\ rows'[i] = [rows[i] EXCEPT !.status = "REVERSED"]
    <3>1. /\ rows[i] \in Rows
          /\ i \in Ids
      BY UndoType DEF IInv
    <3>2. rows'[i] \in Rows \cup {Absent}
      BY <3>1, CommitType DEF IInv, TypeOK
    <3>3. SameEntry(i) /\ rows'[i].status = IF i = txn[c].mark THEN "REVERSED" ELSE rows[i].status
      BY CommitGrows DEF IInv
    <3>4. rows'[i] \in Rows
      <4>1. rows[i].status \in {"POSTED", "REVERSED"}
        BY <3>1 DEF Rows
      <4> QED
        BY <3>2, <3>3, <4>1 DEF Absent
    <3>5. CASE rows'[i].status = rows[i].status
      BY <3>1, <3>3, <3>4, <3>5 DEF Rows, SameEntry
    <3>6. CASE rows'[i].status # rows[i].status
      BY <3>1, <3>3, <3>4, <3>6 DEF Rows, SameEntry
    <3> QED
      BY <3>5, <3>6
  <2> QED
    BY <2>1 DEF AppendOnly
<1>2. ASSUME NEW i \in Ids \ Posted
      PROVE  rows[i] = Absent
  BY DEF IInv, TypeOK, Posted, Rows
<1>3. ASSUME NEW w \in Wallets, wallet'[w] # wallet[w]
      PROVE  PostedWith(w)
  <2>1. CASE w = txn[c].first.wallet /\ wallet'[w] = txn[c].first.balance
    <3>1. /\ ids[c][1] \in Ids \ Posted
          /\ rows'[ids[c][1]] = NewRow(c, txn[c].first)
      BY CommitRows DEF IInv
    <3>2. rows'[ids[c][1]].wallet = w /\ rows'[ids[c][1]].balance = wallet'[w]
      BY <2>1, <3>1, NewRowFields
    <3> QED
      BY <1>2, <3>1, <3>2 DEF PostedWith
  <2>2. CASE txn[c].pair /\ w = txn[c].second.wallet /\ wallet'[w] = txn[c].second.balance
    <3>1. /\ ids[c][2] \in Ids \ Posted
          /\ rows'[ids[c][2]] = NewRow(c, txn[c].second)
      BY <2>2, CommitRows DEF IInv
    <3>2. rows'[ids[c][2]].wallet = w /\ rows'[ids[c][2]].balance = wallet'[w]
      BY <2>2, <3>1, NewRowFields
    <3> QED
      BY <1>2, <3>1, <3>2 DEF PostedWith
  <2> QED
    BY <1>3, <2>1, <2>2, CommitWallets DEF IInv
<1> QED
  BY <1>1, <1>3 DEF PostingStep

\* Balances move only with entries that carry them, and entries stay.
THEOREM PostingsAreAtomic == Spec => PostingsAtomic
<1>1. IInv /\ [Next]_vars => [PostingStep]_vars
  <2> SUFFICES ASSUME IInv, [Next]_vars
               PROVE  PostingStep
    OBVIOUS
  <2>1. CASE Quiet
    BY <2>1 DEF Quiet, PostingStep, AppendOnly
  <2>2. CASE \E c \in Clients : Commit(c)
    BY <2>2, CommitPosts
  <2> QED
    BY <2>1, <2>2, OnlyCommitWrites
<1> QED
  BY <1>1, Invariance, PTL DEF Spec, PostingsAtomic

-----------------------------------------------------------------------------
(* Calls that do not overlap.                                              *)

\* Requests come one at a time.
OneClient == \A c, d \in Clients : c = d

\* What the call in progress has read still holds.
FreshOf(c) ==
  /\ pc[c] = "readOther" => call[c].seen = wallet[call[c].read]
  /\ pc[c] = "readWallet" => rows[call[c].entry].status = "POSTED"
  /\ InTxn(c) =>
       /\ txn[c].first.balance =
            wallet[txn[c].first.wallet] + Serial!Signed(txn[c].first.type, txn[c].first.amount)
       /\ txn[c].first.type = "DEBIT" /\ txn[c].mark = 0 =>
            wallet[txn[c].first.wallet] >= txn[c].first.amount
       /\ txn[c].pair =>
            txn[c].second.balance = wallet[txn[c].second.wallet] + txn[c].second.amount
       /\ txn[c].mark # 0 => rows[txn[c].mark].status = "POSTED"
  /\ \A k \in 1..2 : ids[c][k] # 0 => \A i \in Posted : i < ids[c][k]
  /\ ids[c][2] # 0 => ids[c][1] < ids[c][2]

SerialInv == IInv /\ \A c \in Clients : FreshOf(c)

\* A serial call decides on what it has read.
LEMMA DecisionFresh ==
  ASSUME SerialInv, NEW c \in Clients,
         \/ \E w \in Wallets, a \in Amounts : PostDebit(c, w, a) \/ PostCredit(c, w, a)
         \/ PostTransfer(c) \/ ReverseEntry(c)
  PROVE  FreshOf(c)'
<1>1. /\ Quiet /\ ids' = ids /\ ids[c] = <<0, 0>> /\ pc[c] \in {"idle", "readOther", "readWallet"}
  BY DEF PostDebit, PostCredit, PostTransfer, ReverseEntry, Quiet, SerialInv, IInv,
     ReadsInv, ReadsOf, InTxn
<1>2. Posted' = Posted
  BY <1>1, QuietLedger
<1>3. ASSUME NEW t, Open(c, t),
             /\ t.first.balance =
                  wallet[t.first.wallet] + Serial!Signed(t.first.type, t.first.amount)
             /\ t.first.type = "DEBIT" /\ t.mark = 0 => wallet[t.first.wallet] >= t.first.amount
             /\ t.pair => t.second.balance = wallet[t.second.wallet] + t.second.amount
             /\ t.mark # 0 => rows[t.mark].status = "POSTED"
      PROVE  FreshOf(c)'
  <2>1. txn'[c] = t /\ pc'[c] \in {"insert1", "mark"}
    BY <1>3 DEF Open, SerialInv, IInv, TypeOK
  <2> QED
    BY <1>1, <1>3, <2>1 DEF FreshOf, Quiet, InTxn
<1>4. wallet \in [Wallets -> Int] /\ Amounts \subseteq Int
  BY ConstantFacts DEF SerialInv, IInv, TypeOK
<1>5. ASSUME NEW w \in Wallets, NEW a \in Amounts, PostDebit(c, w, a)
      PROVE  FreshOf(c)'
  <2>1. wallet[w] - a = wallet[w] + (-a) /\ wallet[w] >= a
    BY <1>4, <1>5 DEF PostDebit
  <2> QED
    BY <1>3, <1>5, <2>1 DEF PostDebit, OneLeg, Leg, Serial!Signed
<1>6. ASSUME NEW w \in Wallets, NEW a \in Amounts, PostCredit(c, w, a)
      PROVE  FreshOf(c)'
  BY <1>3, <1>6 DEF PostCredit, OneLeg, Leg, Serial!Signed
<1>7. CASE PostTransfer(c)
  <2> DEFINE f == call[c].from
             t == call[c].to
             a == call[c].amount
  <2>1. /\ Seen(c, f) = wallet[f] /\ Seen(c, t) = wallet[t]
        /\ f \in Wallets /\ t \in Wallets /\ a \in Amounts
    BY <1>7 DEF PostTransfer, Seen, SerialInv, FreshOf, IInv, ReadsInv, ReadsOf
  <2>2. wallet[f] - a = wallet[f] + (-a)
    BY <1>4, <2>1
  <2>3. Open(c, TwoLegs(f, wallet[f] - a, t, wallet[t] + a, a)) /\ wallet[f] >= a
    BY <1>7, <2>1 DEF PostTransfer
  <2> HIDE DEF f, t, a
  <2> QED
    BY <1>3, <2>2, <2>3 DEF TwoLegs, Leg, Serial!Signed
<1>8. CASE ReverseEntry(c)
  <2> DEFINE e == call[c].entry
  <2>1. e \in Posted /\ rows[e].status = "POSTED" /\ Open(c, Reversal(e))
    BY <1>8 DEF ReverseEntry, SerialInv, FreshOf, IInv, ReadsInv, ReadsOf
  <2>2. rows[e] \in Rows /\ e \in Ids /\ e # 0
    BY <2>1, UndoType, ConstantFacts DEF SerialInv, IInv, Ids
  <2>3. /\ rows[e].wallet \in Wallets /\ rows[e].amount \in Int
        /\ rows[e].type \in {"DEBIT", "CREDIT"}
    BY <1>4, <2>2 DEF Rows
  <2>4. wallet[rows[e].wallet] - rows[e].amount = wallet[rows[e].wallet] + (-rows[e].amount)
    BY <1>4, <2>3
  <2> HIDE DEF e
  <2> QED
    BY <1>3, <2>1, <2>2, <2>3, <2>4 DEF Reversal, Undo, Leg, Opposite, Serial!Signed
<1> QED
  BY <1>5, <1>6, <1>7, <1>8

\* And everything else a serial call does leaves what it has read as it was.
LEMMA OtherStepsFresh ==
  ASSUME SerialInv, NEW c \in Clients,
         \/ \E f, t \in Wallets, a \in Amounts : \E first \in {f, t} :
              TransferReadsOne(c, f, t, a, first)
         \/ \E e \in Ids : ReverseReadsEntry(c, e)
         \/ RejectTransfer(c) \/ MarkReversed(c) \/ InsertEntry(c) \/ UpdateWallet(c)
         \/ Commit(c) \/ Abort(c) \/ DeadlockVictim(c)
  PROVE  FreshOf(c)'
<1>1. CASE \E f, t \in Wallets, a \in Amounts : \E first \in {f, t} :
             TransferReadsOne(c, f, t, a, first)
  BY <1>1 DEF TransferReadsOne, SerialInv, FreshOf, IInv, TypeOK, InTxn, Posted,
     ReadsInv, ReadsOf
<1>2. CASE \E e \in Ids : ReverseReadsEntry(c, e)
  BY <1>2 DEF ReverseReadsEntry, SerialInv, FreshOf, IInv, TypeOK, InTxn, Posted, NoCall,
     ReadsInv, ReadsOf
<1>3. CASE RejectTransfer(c)
  BY <1>3 DEF RejectTransfer, SerialInv, FreshOf, IInv, TypeOK, InTxn, Posted,
     ReadsInv, ReadsOf
<1>4. CASE MarkReversed(c) \/ UpdateWallet(c)
  <2>1. pc'[c] \in {"insert1", "insert2", "update2", "commit"} /\ InTxn(c)
    BY <1>4 DEF MarkReversed, UpdateWallet, InTxn, SerialInv, IInv, TypeOK
  <2>2. UNCHANGED <<wallet, rows, txn, ids>>
    BY <1>4 DEF MarkReversed, UpdateWallet
  <2> QED
    BY <2>1, <2>2 DEF SerialInv, FreshOf, InTxn, Posted
<1>5. CASE InsertEntry(c)
  <2>1. pc'[c] \in {"update1", "update2"} /\ InTxn(c) /\ clock \in Nat
    BY <1>5, ConstantFacts DEF InsertEntry, InTxn, SerialInv, IInv, TypeOK
  <2>2. UNCHANGED <<wallet, rows, txn>> /\ Posted' = Posted
    BY <1>5 DEF InsertEntry, Posted
  <2>3. \A i \in Posted : i \in Int /\ i <= clock
    BY ConstantFacts DEF SerialInv, IInv, StampInv, Posted, Ids
  <2>4. ids[c][1] \in Int /\ ids[c][2] \in Int /\ (ids[c][1] # 0 => ids[c][1] <= clock)
    BY ConstantFacts DEF SerialInv, IInv, StampInv, TypeOK
  <2>5. \/ ids'[c] = <<clock + 1, 0>>
        \/ ids'[c] = <<ids[c][1], clock + 1>> /\ ids[c][1] # 0
    BY <1>5 DEF InsertEntry, SerialInv, IInv, TypeOK, StageInv, StageOf
  <2>6. /\ \A k \in 1..2 : ids'[c][k] # 0 => \A i \in Posted : i < ids'[c][k]
        /\ ids'[c][2] # 0 => ids'[c][1] < ids'[c][2]
    BY <2>1, <2>3, <2>4, <2>5 DEF SerialInv, FreshOf
  <2> QED
    BY <2>1, <2>2, <2>6 DEF SerialInv, FreshOf, InTxn
<1>6. CASE Commit(c) \/ Abort(c) \/ DeadlockVictim(c)
  <2>1. pc'[c] = "idle" /\ ids'[c] = <<0, 0>>
    BY <1>6 DEF Commit, Abort, DeadlockVictim, Close, SerialInv, IInv, TypeOK
  <2> QED
    BY <2>1 DEF FreshOf, InTxn
<1> QED
  BY <1>1, <1>2, <1>3, <1>4, <1>5, <1>6

\* The serial invariant, inductively.
LEMMA SerialInvariance ==
  ASSUME OneClient
  PROVE  Spec => []SerialInv
<1>1. Init => SerialInv
  BY InitInv DEF SerialInv, FreshOf, Init, InTxn
<1>2. SerialInv /\ [Next]_vars => SerialInv'
  <2> SUFFICES ASSUME SerialInv, [Next]_vars
               PROVE  \A d \in Clients : FreshOf(d)'
    BY NextInv DEF SerialInv
  <2>1. ASSUME NEW c \in Clients, FreshOf(c)'
        PROVE  \A d \in Clients : FreshOf(d)'
    BY <2>1 DEF OneClient
  <2>2. CASE UNCHANGED vars
    BY <2>2 DEF vars, SerialInv, FreshOf, InTxn, Posted
  <2>3. CASE Next
    BY <2>1, <2>3, DecisionFresh, OtherStepsFresh DEF Next, Statement
  <2> QED
    BY <2>2, <2>3
<1> QED
  BY <1>1, <1>2, PTL DEF Spec

\* The entry SerialLedger appends is the row COMMIT inserts.
LEMMA FirstEntry ==
  ASSUME SerialInv, NEW c \in Clients, Commit(c)
  PROVE  NewRow(c, txn[c].first) =
           Serial!Entry(txn[c].first.wallet, txn[c].first.type, txn[c].first.amount,
                        TransferId(c), txn[c].mark)
<1>1. InTxn(c)
  BY DEF Commit, InTxn
<1>2. txn[c].first.reverses = txn[c].mark
  BY <1>1 DEF SerialInv, IInv, TxnInv, TxnOf
<1>3. txn[c].first.balance =
        wallet[txn[c].first.wallet] + Serial!Signed(txn[c].first.type, txn[c].first.amount)
  BY <1>1 DEF SerialInv, FreshOf
<1> QED
  BY <1>2, <1>3 DEF NewRow, Serial!Entry

\* Its stamp is later than those of all entries.
LEMMA FreshStamp ==
  ASSUME SerialInv, NEW c \in Clients, Commit(c)
  PROVE  Serial!Fresh(ids[c][1])
<1>1. ids[c][1] # 0 /\ ids[c][1] \in Int
  BY ConstantFacts DEF Commit, SerialInv, IInv, StageInv, StageOf, TypeOK
<1>2. \A i \in Posted : i \in Int /\ i < ids[c][1]
  BY <1>1 DEF SerialInv, FreshOf, Posted, Ids
<1> QED
  BY <1>1, <1>2 DEF Serial!Fresh, Serial!SIds, Posted, Ids

\* COMMIT of a transfer is SerialLedger's Transfer.
LEMMA CommitRefinesTransfer ==
  ASSUME SerialInv, NEW c \in Clients, Commit(c), txn[c].pair
  PROVE  Serial!SNext
<1> DEFINE f == txn[c].first.wallet
           t == txn[c].second.wallet
           a == txn[c].first.amount
           i == ids[c][1]
           j == ids[c][2]
<1>1. /\ InTxn(c) /\ txn[c].mark = 0 /\ f # t
      /\ txn[c].first \in Legs /\ txn[c].second \in Legs
      /\ txn[c].first.type = "DEBIT" /\ txn[c].second.type = "CREDIT"
      /\ txn[c].second.amount = a
      /\ txn[c].first.reverses = 0 /\ txn[c].second.reverses = 0
  BY DEF Commit, InTxn, SerialInv, IInv, TxnInv, TxnOf
<1>2. f \in Wallets /\ t \in Wallets /\ a \in Amounts /\ a \in Int
  BY <1>1, ConstantFacts DEF Legs
<1>3. /\ wallet[f] >= a
      /\ txn[c].first.balance = wallet[f] + (-a)
      /\ txn[c].second.balance = wallet[t] + a
  BY <1>1 DEF SerialInv, FreshOf, Serial!Signed
<1>4. /\ i \in Ids /\ j \in Ids /\ i # j
      /\ rows'[i] = NewRow(c, txn[c].first) /\ rows'[j] = NewRow(c, txn[c].second)
      /\ \A k \in Ids \ {i, j, txn[c].mark} : rows'[k] = rows[k]
  BY CommitRows DEF SerialInv, IInv
<1>5. i < j
  BY <1>4, ConstantFacts DEF SerialInv, FreshOf, Ids
<1>6. /\ rows'[i] = Serial!Entry(f, "DEBIT", a, i, 0)
      /\ rows'[j] = Serial!Entry(t, "CREDIT", a, i, 0)
  <2>1. TransferId(c) = i
    BY DEF TransferId
  <2>2. rows'[i] = Serial!Entry(f, "DEBIT", a, i, 0)
    BY <1>1, <1>4, <2>1, FirstEntry
  <2>3. NewRow(c, txn[c].second) = Serial!Entry(t, "CREDIT", a, i, 0)
    BY <1>1, <1>3, <2>1 DEF NewRow, Serial!Entry, Serial!Signed
  <2> QED
    BY <1>4, <2>2, <2>3
<1>7. rows' = [rows EXCEPT ![i] = Serial!Entry(f, "DEBIT", a, i, 0),
                           ![j] = Serial!Entry(t, "CREDIT", a, i, 0)]
  <2>1. rows \in [Ids -> Rows \cup {Absent}] /\ rows' = [k \in Ids |-> rows'[k]]
    BY DEF SerialInv, IInv, TypeOK, Commit, Inserted
  <2>2. \A k \in Ids : k # txn[c].mark
    BY <1>1, ConstantFacts DEF Ids
  <2> HIDE DEF f, t, a, i, j
  <2> QED
    BY <1>4, <1>6, <2>1, <2>2
<1>8. wallet' = [wallet EXCEPT ![f] = @ - a, ![t] = @ + a]
  <2>1. wallet \in [Wallets -> Int] /\ wallet[f] + (-a) = wallet[f] - a
    BY <1>2 DEF SerialInv, IInv, TypeOK
  <2>2. wallet' = [w \in Wallets |->
                     CASE w = f -> txn[c].first.balance
                       [] w = t -> txn[c].second.balance
                       [] OTHER -> wallet[w]]
    BY DEF Commit, Updated
  <2> HIDE DEF f, t, a, i, j
  <2> QED
    BY <1>1, <1>2, <1>3, <2>1, <2>2
<1>9. Serial!Transfer(f, t, a)
  <2>1. i \in Serial!SIds /\ j \in Serial!SIds
    BY <1>4 DEF Serial!SIds, Ids
  <2> QED
    BY <1>1, <1>3, <1>5, <1>7, <1>8, <2>1, FreshStamp DEF Serial!Transfer
<1> QED
  BY <1>2, <1>9 DEF Serial!SNext

\* COMMIT of one leg is SerialLedger's Post or Reverse.
LEMMA CommitRefinesPost ==
  ASSUME SerialInv, NEW c \in Clients, Commit(c), ~txn[c].pair
  PROVE  Serial!SNext
<1> DEFINE w == txn[c].first.wallet
           type == txn[c].first.type
           a == txn[c].first.amount
           i == ids[c][1]
           e == txn[c].mark
           entry == Serial!Entry(w, type, a, TransferId(c), e)
<1>1. InTxn(c) /\ txn[c].first \in Legs /\ txn[c].second = NoLeg
  BY DEF Commit, InTxn, SerialInv, IInv, TxnInv, TxnOf
<1>2. w \in Wallets /\ a \in Amounts /\ a \in Int /\ type \in {"DEBIT", "CREDIT"}
  BY <1>1, ConstantFacts DEF Legs
<1>3. txn[c].first.balance = wallet[w] + Serial!Signed(type, a)
  BY <1>1 DEF SerialInv, FreshOf
<1>4. /\ i \in Ids \ Posted /\ ids[c][2] = 0
      /\ rows'[i] = NewRow(c, txn[c].first)
      /\ e # 0 => /\ e \in Posted
                  /\ rows'[e] = [rows[e] EXCEPT !.status = "REVERSED"]
      /\ \A k \in Ids \ {i, ids[c][2], e} : rows'[k] = rows[k]
  BY CommitRows DEF SerialInv, IInv
<1>5. rows'[i] = entry
  BY <1>4, FirstEntry
<1>6. wallet' = [wallet EXCEPT ![w] = @ + Serial!Signed(type, a)]
  <2>1. wallet \in [Wallets -> Int] /\ Nobody \notin Wallets
    BY ConstantFacts DEF SerialInv, IInv, TypeOK
  <2>2. wallet' = [v \in Wallets |->
                     CASE v = w -> txn[c].first.balance
                       [] v = Nobody -> txn[c].second.balance
                       [] OTHER -> wallet[v]]
    BY <1>1 DEF Commit, Updated, NoLeg, Leg
  <2> HIDE DEF w, type, a, i, e, entry
  <2> QED
    BY <1>2, <1>3, <2>1, <2>2
<1>7. /\ rows \in [Ids -> Rows \cup {Absent}] /\ rows' = [k \in Ids |-> rows'[k]]
      /\ 0 \notin Ids /\ Posted \subseteq Ids /\ i \in Serial!SIds
  BY <1>4, ConstantFacts DEF SerialInv, IInv, TypeOK, Commit, Inserted, Ids, Posted, Serial!SIds
<1>8. CASE e = 0
  <2>1. TransferId(c) = 0
    BY <1>8 DEF TransferId
  <2>2. rows' = [rows EXCEPT ![i] = entry]
    <3> HIDE DEF w, type, a, i, e, entry
    <3> QED
      BY <1>4, <1>5, <1>7, <1>8
  <2>3. type = "DEBIT" => wallet[w] >= a
    BY <1>1, <1>8 DEF SerialInv, FreshOf
  <2>4. Serial!Post(w, type, a)
    BY <1>6, <1>7, <1>8, <2>1, <2>2, <2>3, FreshStamp DEF Serial!Post
  <2> QED
    BY <1>2, <2>4 DEF Serial!SNext
<1>9. CASE e # 0
  <2>1. /\ e \in Posted /\ rows[e].status = "POSTED" /\ rows[e] \in Rows
        /\ type = Opposite(rows[e].type) /\ a = rows[e].amount /\ w = rows[e].wallet
    BY <1>1, <1>4, <1>9, UndoType DEF SerialInv, FreshOf, IInv, TxnInv, TxnOf
  <2>2. TransferId(c) = rows[e].transfer
    BY <1>9 DEF TransferId
  <2>3. e \in Ids /\ e # i
    BY <1>4, <1>7, <2>1
  <2>4. rows' = [rows EXCEPT ![e].status = "REVERSED", ![i] = entry]
    <3> HIDE DEF w, type, a, i, e, entry
    <3> QED
      BY <1>4, <1>5, <1>7, <1>9, <2>1, <2>3
  <2>5. type = IF rows[e].type = "DEBIT" THEN "CREDIT" ELSE "DEBIT"
    BY <2>1 DEF Opposite
  <2>6. Serial!Reverse(e)
    BY <1>6, <1>7, <2>1, <2>2, <2>4, <2>5, FreshStamp DEF Serial!Reverse
  <2> QED
    BY <2>3, <2>6 DEF Serial!SNext, Serial!SIds, Ids
<1> QED
  BY <1>8, <1>9

\* When calls do not overlap, the service is the double-entry ledger its class
\* comment promises: every step is one posting of SerialLedger or changes
\* neither wallets nor entries.
THEOREM SerialRefinement ==
  ASSUME OneClient
  PROVE  Spec => SerialLedgerSpec
<1>1. Init => Serial!SInit
  BY DEF Init, Serial!SInit, Absent, Serial!SAbsent, Ids, Serial!SIds
<1>2. SerialInv /\ [Next]_vars => [Serial!SNext]_(Serial!svars)
  <2> SUFFICES ASSUME SerialInv, [Next]_vars
               PROVE  Serial!SNext \/ UNCHANGED Serial!svars
    OBVIOUS
  <2>1. CASE Quiet
    BY <2>1 DEF Quiet, Serial!svars
  <2>2. CASE \E c \in Clients : Commit(c)
    BY <2>2, CommitRefinesTransfer, CommitRefinesPost
  <2> QED
    BY <2>1, <2>2, OnlyCommitWrites
<1> QED
  BY <1>1, <1>2, SerialInvariance, PTL DEF Spec, SerialLedgerSpec, Serial!SSpec

-----------------------------------------------------------------------------
(* verifyWalletBalance, while calls do not overlap.                        *)

\* Entry i of w is the newest that is POSTED, and the wallet holds its balance.
Newest(i, w) ==
  /\ i \in PostedOn(w)
  /\ \A j \in PostedOn(w) : j <= i
  /\ rows[i].balance = wallet[w]

Agrees(w) == (PostedOn(w) = {} /\ wallet[w] = 0) \/ \E i \in Ids : Newest(i, w)

\* What verifyWalletBalance looks for is unique.
LEMMA AgreesVerifies ==
  ASSUME NEW w \in Wallets, Agrees(w)
  PROVE  IsConsistent(w)
<1>1. CASE PostedOn(w) = {}
  BY <1>1 DEF Agrees, Newest, IsConsistent, LedgerBalance
<1>2. ASSUME NEW i \in Ids, Newest(i, w)
      PROVE  IsConsistent(w)
  <2>1. PostedOn(w) \subseteq Int /\ PostedOn(w) # {}
    BY <1>2, ConstantFacts DEF Newest, PostedOn, Ids
  <2> DEFINE k == CHOOSE k \in PostedOn(w) : \A j \in PostedOn(w) : j <= k
  <2>2. k \in PostedOn(w) /\ \A j \in PostedOn(w) : j <= k
    BY <1>2 DEF Newest
  <2>3. k = i
    <3> HIDE DEF k
    <3> QED
      BY <1>2, <2>1, <2>2 DEF Newest
  <2> QED
    BY <1>2, <2>1, <2>3 DEF Newest, IsConsistent, LedgerBalance
<1> QED
  BY <1>1, <1>2 DEF Agrees

\* COMMIT writes a balance to a wallet together with its newest entry, and takes from no
\* other wallet an entry that was POSTED.
LEMMA CommitAgrees ==
  ASSUME SerialInv, NEW c \in Clients, Commit(c), NEW w \in Wallets, Agrees(w)
  PROVE  Agrees(w)'
<1> DEFINE i == ids[c][1]
           j == ids[c][2]
           e == txn[c].mark
<1>1. InTxn(c) /\ TxnOf(c) /\ FreshOf(c) /\ TypeOK /\ Nobody \notin Wallets
  BY ConstantFacts DEF Commit, InTxn, SerialInv, IInv, TxnInv
<1>2. /\ i \in Ids \ Posted /\ rows'[i] = NewRow(c, txn[c].first)
      /\ txn[c].pair => /\ j \in Ids \ Posted /\ i # j
                        /\ rows'[j] = NewRow(c, txn[c].second)
      /\ ~txn[c].pair => j = 0
      /\ e # 0 => e \in Posted /\ rows'[e] = [rows[e] EXCEPT !.status = "REVERSED"]
      /\ \A k \in Ids \ {i, j, e} : rows'[k] = rows[k]
  BY CommitRows DEF SerialInv, IInv
<1>3. /\ \A k \in Posted : k \in Int /\ k < i /\ (txn[c].pair => k < j)
      /\ Ids \subseteq Int /\ 0 \notin Ids
  BY <1>1, <1>2, ConstantFacts DEF FreshOf, Posted, Ids
<1>4. \A k \in PostedOn(w) : k \in Posted
  BY DEF PostedOn, Posted
<1>5. /\ wallet'[txn[c].first.wallet] = txn[c].first.balance
      /\ txn[c].pair => wallet'[txn[c].second.wallet] = txn[c].second.balance
      /\ w # txn[c].first.wallet /\ w # txn[c].second.wallet => wallet'[w] = wallet[w]
      /\ txn[c].first.wallet \in Wallets
      /\ ~txn[c].pair => w # txn[c].second.wallet
  BY <1>1 DEF Commit, Updated, TxnOf, Legs, NoLeg, Leg
<1>6. \A k \in PostedOn(w)' : k \in PostedOn(w) \/ k = i \/ (k = j /\ txn[c].pair)
  <2> SUFFICES ASSUME NEW k \in Ids, rows'[k].status = "POSTED", rows'[k].wallet = w,
                      k # i, k # j
               PROVE  k \in PostedOn(w)
    BY <1>2, <1>3 DEF PostedOn
  <2>1. CASE k = e
    <3>1. rows[e] \in Rows /\ rows'[e] = [rows[e] EXCEPT !.status = "REVERSED"]
      BY <1>2, <1>3, <2>1, UndoType DEF SerialInv, IInv
    <3> QED
      BY <2>1, <3>1 DEF Rows
  <2>2. CASE k # e
    BY <1>2, <2>2 DEF PostedOn
  <2> QED
    BY <2>1, <2>2
<1>7. /\ rows'[i].wallet = txn[c].first.wallet /\ rows'[i].status = "POSTED"
      /\ rows'[i].balance = txn[c].first.balance
      /\ txn[c].pair => /\ rows'[j].wallet = txn[c].second.wallet
                        /\ rows'[j].status = "POSTED"
                        /\ rows'[j].balance = txn[c].second.balance
  BY <1>2, NewRowFields
<1>8. txn[c].pair => txn[c].first.wallet # txn[c].second.wallet
  BY <1>1 DEF TxnOf
<1>9. CASE w = txn[c].first.wallet
  <2>1. \A k \in PostedOn(w)' : k <= i
    <3> SUFFICES ASSUME NEW k \in PostedOn(w)', k # i
                 PROVE  k <= i
      BY <1>2, <1>3
    <3>1. ~(k = j /\ txn[c].pair)
      BY <1>7, <1>8, <1>9 DEF PostedOn
    <3>2. k \in Posted
      BY <1>4, <1>6, <3>1
    <3> QED
      BY <1>2, <1>3, <3>2
  <2>2. PICK n \in Ids : n = i
    BY <1>2
  <2>3. Newest(n, w)'
    BY <1>5, <1>7, <1>9, <2>1, <2>2 DEF Newest, PostedOn
  <2> QED
    BY <2>3 DEF Agrees
<1>10. CASE txn[c].pair /\ w = txn[c].second.wallet
  <2>1. \A k \in PostedOn(w)' : k <= j
    <3> SUFFICES ASSUME NEW k \in PostedOn(w)', k # j
                 PROVE  k <= j
      BY <1>2, <1>3, <1>10
    <3>1. k # i
      BY <1>7, <1>8, <1>10 DEF PostedOn
    <3>2. k \in Posted
      BY <1>4, <1>6, <3>1
    <3> QED
      BY <1>2, <1>3, <1>10, <3>2
  <2>2. PICK n \in Ids : n = j
    BY <1>2, <1>10
  <2>3. Newest(n, w)'
    BY <1>5, <1>7, <1>10, <2>1, <2>2 DEF Newest, PostedOn
  <2> QED
    BY <2>3 DEF Agrees
<1>11. CASE w # txn[c].first.wallet /\ w # txn[c].second.wallet
  <2>1. ASSUME NEW k \in Ids, k \in PostedOn(w)
        PROVE  k \in PostedOn(w)' /\ rows'[k] = rows[k]
    <3>1. k # i /\ (txn[c].pair => k # j)
      BY <1>2, <1>4, <2>1
    <3>2. k # j
      BY <1>2, <1>3, <2>1, <3>1
    <3>3. k # e
      BY <1>1, <1>2, <1>3, <1>11, <2>1 DEF TxnOf, PostedOn
    <3> QED
      BY <1>2, <2>1, <3>1, <3>2, <3>3 DEF PostedOn
  <2>2. \A k \in PostedOn(w)' : k \in PostedOn(w)
    BY <1>6, <1>7, <1>11 DEF PostedOn
  <2>3. wallet'[w] = wallet[w]
    BY <1>5, <1>11
  <2>4. PostedOn(w)' = PostedOn(w)
    BY <2>1, <2>2 DEF PostedOn
  <2>5. ASSUME NEW k \in Ids, Newest(k, w)
        PROVE  Newest(k, w)'
    BY <2>1, <2>3, <2>4, <2>5 DEF Newest
  <2> QED
    BY <2>3, <2>4, <2>5 DEF Agrees
<1> QED
  BY <1>5, <1>9, <1>10, <1>11

\* COMMIT of a reversal takes back an entry that was still POSTED, so no entry had.
LEMMA CommitReversesOnce ==
  ASSUME SerialInv, NEW c \in Clients, Commit(c), ReversedOnce
  PROVE  ReversedOnce'
<1> DEFINE e == txn[c].mark
<1>1. InTxn(c) /\ TxnOf(c) /\ FreshOf(c) /\ ReversalsLinked
  BY DEF Commit, InTxn, SerialInv, IInv, TxnInv
<1>2. /\ \A k \in Posted : rows'[k].reverses = rows[k].reverses
      /\ Posted' = Posted \cup {ids[c][1]} \cup (IF txn[c].pair THEN {ids[c][2]} ELSE {})
  BY CommitGrows DEF SerialInv, IInv, SameEntry
<1>3. /\ rows'[ids[c][1]].reverses = e
      /\ txn[c].pair => e = 0 /\ rows'[ids[c][2]].reverses = 0
  BY <1>1, NewEntries DEF SerialInv, IInv, TxnOf
<1>4. \A k \in Posted : rows[k].reverses = e => e = 0
  BY <1>1 DEF ReversalsLinked, FreshOf
<1>5. \A k \in Posted' : rows'[k].reverses # 0 => k \in Posted \/ k = ids[c][1]
  BY <1>2, <1>3
<1> QED
  BY <1>2, <1>3, <1>4, <1>5 DEF ReversedOnce

VerifiedInv == SerialInv /\ (\A w \in Wallets : Agrees(w)) /\ ReversedOnce

\* When calls do not overlap, verifyWalletBalance finds every wallet as its newest POSTED
\* entry says, reversals included, and no entry is taken back twice.
THEOREM WalletsVerify ==
  ASSUME OneClient
  PROVE  Spec => []LedgerVerifies
<1>1. Init => (\A w \in Wallets : Agrees(w)) /\ ReversedOnce
  BY DEF Init, Agrees, PostedOn, Posted, ReversedOnce, Absent, Ids
<1>2. VerifiedInv /\ [Next]_vars =>
        ((\A w \in Wallets : Agrees(w)) /\ ReversedOnce)'
  <2> SUFFICES ASSUME VerifiedInv, [Next]_vars
               PROVE  ((\A w \in Wallets : Agrees(w)) /\ ReversedOnce)'
    OBVIOUS
  <2>1. CASE Quiet
    BY <2>1 DEF Quiet, VerifiedInv, Agrees, Newest, PostedOn, ReversedOnce, Posted
  <2>2. CASE \E c \in Clients : Commit(c)
    BY <2>2, CommitAgrees, CommitReversesOnce DEF VerifiedInv
  <2> QED
    BY <2>1, <2>2, OnlyCommitWrites
<1>3. VerifiedInv => LedgerVerifies
  BY AgreesVerifies DEF VerifiedInv, LedgerVerifies, Consistent
<1>4. VerifiedInv <=> SerialInv /\ (\A w \in Wallets : Agrees(w)) /\ ReversedOnce
  BY DEF VerifiedInv
<1> QED
  BY <1>1, <1>2, <1>3, <1>4, SerialInvariance, PTL DEF Spec

\* COMMIT of a serial call moves each wallet that it posts to by the amount of the entry.
LEMMA CommitMoves ==
  ASSUME SerialInv, NEW c \in Clients, Commit(c),
         NEW i \in Ids, rows[i] = Absent, rows'[i] # Absent
  PROVE  wallet'[rows'[i].wallet] = wallet[rows'[i].wallet] + SignedAmount(i)
<1>1. InTxn(c) /\ TxnOf(c) /\ FreshOf(c) /\ Nobody \notin Wallets
  BY ConstantFacts DEF Commit, InTxn, SerialInv, IInv, TxnInv
<1>2. i \notin Posted
  BY DEF Posted, Absent
<1>3. i = ids[c][1] \/ (txn[c].pair /\ i = ids[c][2])
  <2>1. 0 \notin Ids
    BY ConstantFacts DEF Ids
  <2> QED
    BY <1>2, <2>1, CommitRows DEF SerialInv, IInv
<1>4. /\ wallet'[txn[c].first.wallet] = txn[c].first.balance
      /\ txn[c].pair => wallet'[txn[c].second.wallet] = txn[c].second.balance
  <2>1. wallet' = [w \in Wallets |->
                     CASE w = txn[c].first.wallet -> txn[c].first.balance
                       [] w = txn[c].second.wallet -> txn[c].second.balance
                       [] OTHER -> wallet[w]]
    BY DEF Commit, Updated
  <2>2. /\ txn[c].first.wallet \in Wallets
        /\ txn[c].pair => txn[c].second.wallet \in Wallets
        /\ txn[c].second.wallet # txn[c].first.wallet
    BY <1>1 DEF TxnOf, Legs, NoLeg, Leg
  <2> QED
    BY <2>1, <2>2
<1>5. CASE i = ids[c][1]
  <2>1. /\ rows'[i].wallet = txn[c].first.wallet /\ rows'[i].type = txn[c].first.type
        /\ rows'[i].amount = txn[c].first.amount
    BY <1>5, NewEntries DEF SerialInv, IInv
  <2>2. txn[c].first.balance =
          wallet[txn[c].first.wallet] + Serial!Signed(txn[c].first.type, txn[c].first.amount)
    BY <1>1 DEF FreshOf
  <2> QED
    BY <1>4, <2>1, <2>2 DEF SignedAmount, Serial!Signed
<1>6. CASE txn[c].pair /\ i = ids[c][2]
  <2>1. /\ rows'[i].wallet = txn[c].second.wallet /\ rows'[i].type = "CREDIT"
        /\ rows'[i].amount = txn[c].second.amount
    BY <1>1, <1>6, NewEntries DEF SerialInv, IInv, TxnOf
  <2>2. txn[c].second.balance = wallet[txn[c].second.wallet] + txn[c].second.amount
    BY <1>1, <1>6 DEF FreshOf
  <2> QED
    BY <1>4, <1>6, <2>1, <2>2 DEF SignedAmount
<1> QED
  BY <1>3, <1>5, <1>6

\* The running balances of the class comment do hold as long as calls do not overlap: it is
\* the overlap, and nothing else in the service, that loses postings.
THEOREM SerialBalancesRun ==
  ASSUME OneClient
  PROVE  Spec => RunningBalance
<1>1. SerialInv /\ [Next]_vars =>
        [\A i \in Ids : rows[i] = Absent /\ rows'[i] # Absent =>
           wallet'[rows'[i].wallet] = wallet[rows'[i].wallet] + SignedAmount(i)]_vars
  <2> SUFFICES ASSUME SerialInv, [Next]_vars, NEW i \in Ids, rows[i] = Absent, rows'[i] # Absent
               PROVE  wallet'[rows'[i].wallet] = wallet[rows'[i].wallet] + SignedAmount(i)
    OBVIOUS
  <2>1. ~Quiet
    BY DEF Quiet
  <2> QED
    BY <2>1, OnlyCommitWrites, CommitMoves
<1> QED
  BY <1>1, SerialInvariance, PTL DEF Spec, RunningBalance
=============================================================================
