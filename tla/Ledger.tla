------------------------------- MODULE Ledger -------------------------------
(***************************************************************************)
(* LedgerService: double-entry postings on wallets                         *)
(* (apps/klenzo/src/app/finance/ledger.service.ts).                        *)
(*                                                                         *)
(* Every operation reads the wallet (and, for a reversal, the entry)       *)
(* OUTSIDE its database transaction, computes the absolute new balance,    *)
(* and then runs one interactive transaction: insert the entry carrying    *)
(* that balance, then overwrite the wallet row with it.  PostgreSQL runs   *)
(* it at READ COMMITTED: an UPDATE waits for the row lock of an earlier    *)
(* uncommitted writer, and nothing is visible to others before COMMIT.     *)
(* An action is one such database round trip, so calls interleave between  *)
(* any two of them.                                                        *)
(***************************************************************************)
EXTENDS Integers, FiniteSets

CONSTANTS
  Clients,      \* concurrent requests to the service
  Wallets,      \* rows of the wallets table
  Amounts,      \* amounts callers post; nothing checks their sign
  MaxEntries,   \* bound: createdAt stamps handed out to ledger_entries
  Nobody        \* no wallet

ASSUME AmountsAssumption == Amounts \subseteq Int
ASSUME MaxEntriesAssumption == MaxEntries \in Nat
ASSUME NobodyAssumption == Nobody \notin Wallets

VARIABLES
  wallet,       \* wallet[w]: the committed balance column
  rows,         \* rows[i]: the committed ledger_entries; i stands for id and createdAt
  clock,        \* the last createdAt stamp handed out
  pc,           \* pc[c]: the statement the call of c runs next
  call,         \* call[c]: arguments, and what the first of two reads returned
  txn,          \* txn[c]: what the transaction of c writes
  ids           \* ids[c]: the stamps of the rows c has inserted, by leg

vars == <<wallet, rows, clock, pc, call, txn, ids>>

Ids == 1..MaxEntries

Absent == [wallet |-> Nobody, type |-> "DEBIT", amount |-> 0, balance |-> 0,
           status |-> "ABSENT", transfer |-> 0, reverses |-> 0]

\* One INSERT of a transaction and the UPDATE of its wallet.  reverses is the
\* id inside the reference 'REVERSAL:<id>', 0 under any other reference.
Leg(w, type, a, balance, reverses) ==
  [wallet |-> w, type |-> type, amount |-> a, balance |-> balance, reverses |-> reverses]

NoLeg == Leg(Nobody, "DEBIT", 0, 0, 0)
NoTxn == [mark |-> 0, first |-> NoLeg, second |-> NoLeg, pair |-> FALSE]
NoCall == [from |-> Nobody, to |-> Nobody, amount |-> 0, entry |-> 0,
           read |-> Nobody, seen |-> 0]

Posted == {i \in Ids : rows[i].status # "ABSENT"}

Init ==
  /\ wallet = [w \in Wallets |-> 0]
  /\ rows = [i \in Ids |-> Absent]
  /\ clock = 0
  /\ pc = [c \in Clients |-> "idle"]
  /\ call = [c \in Clients |-> NoCall]
  /\ txn = [c \in Clients |-> NoTxn]
  /\ ids = [c \in Clients |-> <<0, 0>>]

-----------------------------------------------------------------------------
(* The calls: reads, checks, and the transaction they decide on.           *)

\* Bound: a call starts only while stamps are left for it and for every open call.
Room == clock + 2 * Cardinality({c \in Clients : pc[c] # "idle"}) + 2 <= MaxEntries

Open(c, t) ==
  /\ txn' = [txn EXCEPT ![c] = t]
  /\ pc' = [pc EXCEPT ![c] = IF t.mark = 0 THEN "insert1" ELSE "mark"]

OneLeg(w, type, a, balance) ==
  [mark |-> 0, first |-> Leg(w, type, a, balance, 0), second |-> NoLeg, pair |-> FALSE]

\* Mutant: the sufficiency check is dropped.
PostDebitUnchecked(c, w, a) ==
  /\ pc[c] = "idle" /\ Room
  /\ Open(c, OneLeg(w, "DEBIT", a, wallet[w] - a))
  /\ UNCHANGED <<wallet, rows, clock, call, ids>>

\* postDebit: the read, the sufficiency check, one leg.
PostDebit(c, w, a) ==
  /\ pc[c] = "idle" /\ Room
  /\ wallet[w] >= a
  /\ Open(c, OneLeg(w, "DEBIT", a, wallet[w] - a))
  /\ UNCHANGED <<wallet, rows, clock, call, ids>>

\* postCredit: the read, one leg.  The sign of the amount is not looked at.
PostCredit(c, w, a) ==
  /\ pc[c] = "idle" /\ Room
  /\ Open(c, OneLeg(w, "CREDIT", a, wallet[w] + a))
  /\ UNCHANGED <<wallet, rows, clock, call, ids>>

\* postTransfer: Promise.all sends the two wallet reads over two connections,
\* so either may be answered first, and another commit may fall in between.
TransferReadsOne(c, f, t, a, first) ==
  /\ pc[c] = "idle" /\ Room
  /\ f # t
  /\ call' = [call EXCEPT ![c] = [from |-> f, to |-> t, amount |-> a, entry |-> 0,
                                  read |-> first, seen |-> wallet[first]]]
  /\ pc' = [pc EXCEPT ![c] = "readOther"]
  /\ UNCHANGED <<wallet, rows, clock, txn, ids>>

Seen(c, w) == IF call[c].read = w THEN call[c].seen ELSE wallet[w]

TwoLegs(f, fromBalance, t, toBalance, a) ==
  [mark |-> 0, first |-> Leg(f, "DEBIT", a, fromBalance, 0),
   second |-> Leg(t, "CREDIT", a, toBalance, 0), pair |-> TRUE]

\* The second read, the check on the sender's balance, and two legs.
PostTransfer(c) ==
  LET f == call[c].from
      t == call[c].to
      a == call[c].amount
  IN /\ pc[c] = "readOther"
     /\ Seen(c, f) >= a
     /\ Open(c, TwoLegs(f, Seen(c, f) - a, t, Seen(c, t) + a, a))
     /\ call' = [call EXCEPT ![c] = NoCall]
     /\ UNCHANGED <<wallet, rows, clock, ids>>

\* The same read, the check failed: 'Insufficient balance for transfer'.
RejectTransfer(c) ==
  /\ pc[c] = "readOther"
  /\ Seen(c, call[c].from) < call[c].amount
  /\ pc' = [pc EXCEPT ![c] = "idle"]
  /\ call' = [call EXCEPT ![c] = NoCall]
  /\ UNCHANGED <<wallet, rows, clock, txn, ids>>

\* Mutant: the status is not looked at.
ReverseReadsAnyEntry(c, e) ==
  /\ pc[c] = "idle" /\ Room
  /\ rows[e].status # "ABSENT"
  /\ call' = [call EXCEPT ![c] = [NoCall EXCEPT !.entry = e]]
  /\ pc' = [pc EXCEPT ![c] = "readWallet"]
  /\ UNCHANGED <<wallet, rows, clock, txn, ids>>

\* reverseEntry: the entry is read first and must not be REVERSED.
ReverseReadsEntry(c, e) ==
  /\ pc[c] = "idle" /\ Room
  /\ rows[e].status = "POSTED"
  /\ call' = [call EXCEPT ![c] = [NoCall EXCEPT !.entry = e]]
  /\ pc' = [pc EXCEPT ![c] = "readWallet"]
  /\ UNCHANGED <<wallet, rows, clock, txn, ids>>

Opposite(type) == IF type = "DEBIT" THEN "CREDIT" ELSE "DEBIT"

\* Mutant: the amount is applied again instead of being taken back.
UndoAgain(e) ==
  LET w == rows[e].wallet
      a == rows[e].amount
      again == IF rows[e].type = "DEBIT" THEN wallet[w] - a ELSE wallet[w] + a
  IN Leg(w, Opposite(rows[e].type), a, again, e)

\* The entry's amount goes back where it came from.  Nothing checks that
\* undoing a CREDIT leaves the wallet non-negative.
Undo(e) ==
  LET w == rows[e].wallet
      a == rows[e].amount
      back == IF rows[e].type = "DEBIT" THEN wallet[w] + a ELSE wallet[w] - a
  IN Leg(w, Opposite(rows[e].type), a, back, e)

Reversal(e) == [mark |-> e, first |-> Undo(e), second |-> NoLeg, pair |-> FALSE]

\* Mutant: the original keeps its status.
ReverseEntryUnmarked(c) ==
  LET e == call[c].entry
  IN /\ pc[c] = "readWallet"
     /\ Open(c, [Reversal(e) EXCEPT !.mark = 0])
     /\ call' = [call EXCEPT ![c] = NoCall]
     /\ UNCHANGED <<wallet, rows, clock, ids>>

\* Then its wallet is read: mark the entry, one leg.
ReverseEntry(c) ==
  LET e == call[c].entry
  IN /\ pc[c] = "readWallet"
     /\ Open(c, Reversal(e))
     /\ call' = [call EXCEPT ![c] = NoCall]
     /\ UNCHANGED <<wallet, rows, clock, ids>>

-----------------------------------------------------------------------------
(* The statements of an open transaction.                                  *)

\* Row locks follow from how far a transaction is: an UPDATE that has run
\* keeps its row until COMMIT or ROLLBACK.
HoldsEntry(c, e) ==
  /\ txn[c].mark = e
  /\ pc[c] \in {"insert1", "update1", "commit"}

HoldsWallet(c, w) ==
  \/ txn[c].first.wallet = w /\ pc[c] \in {"insert2", "update2", "commit"}
  \/ txn[c].pair /\ txn[c].second.wallet = w /\ pc[c] = "commit"

WantsWallet(c, w) ==
  \/ txn[c].first.wallet = w /\ pc[c] = "update1"
  \/ txn[c].second.wallet = w /\ pc[c] = "update2"

\* c waits for a row of d.
WaitsFor(c, d) ==
  \/ pc[c] = "mark" /\ HoldsEntry(d, txn[c].mark)
  \/ \E w \in Wallets : WantsWallet(c, w) /\ HoldsWallet(d, w)

\* ledgerEntry.update of a reversal: overwrites the status, whatever it is by then.
MarkReversed(c) ==
  /\ pc[c] = "mark"
  /\ \A d \in Clients : ~WaitsFor(c, d)
  /\ pc' = [pc EXCEPT ![c] = "insert1"]
  /\ UNCHANGED <<wallet, rows, clock, call, txn, ids>>

\* ledgerEntry.create: the row gets its createdAt here, long before it is visible.
InsertEntry(c) ==
  /\ clock < MaxEntries
  /\ clock' = clock + 1
  /\ \/ /\ pc[c] = "insert1"
        /\ ids' = [ids EXCEPT ![c] = <<clock + 1, 0>>]
        /\ pc' = [pc EXCEPT ![c] = "update1"]
     \/ /\ pc[c] = "insert2"
        /\ ids' = [ids EXCEPT ![c] = <<ids[c][1], clock + 1>>]
        /\ pc' = [pc EXCEPT ![c] = "update2"]
  /\ UNCHANGED <<wallet, rows, call, txn>>

\* Mutant: the wallet is written outside the transaction, visible at once.
UpdateWalletOutside(c) ==
  /\ \A d \in Clients : ~WaitsFor(c, d)
  /\ \/ /\ pc[c] = "update1"
        /\ pc' = [pc EXCEPT ![c] = IF txn[c].pair THEN "insert2" ELSE "commit"]
        /\ wallet' = [wallet EXCEPT ![txn[c].first.wallet] = txn[c].first.balance]
     \/ /\ pc[c] = "update2"
        /\ pc' = [pc EXCEPT ![c] = "commit"]
        /\ wallet' = [wallet EXCEPT ![txn[c].second.wallet] = txn[c].second.balance]
  /\ UNCHANGED <<rows, clock, call, txn, ids>>

\* wallet.update: waits for the row, then overwrites it with the balance
\* computed before the transaction.
UpdateWallet(c) ==
  /\ \A d \in Clients : ~WaitsFor(c, d)
  /\ \/ /\ pc[c] = "update1"
        /\ pc' = [pc EXCEPT ![c] = IF txn[c].pair THEN "insert2" ELSE "commit"]
     \/ /\ pc[c] = "update2"
        /\ pc' = [pc EXCEPT ![c] = "commit"]
  /\ UNCHANGED <<wallet, rows, clock, call, txn, ids>>

\* The transferId of the rows of c: one for both legs of a transfer (here the
\* stamp of the first leg), the original's for a reversal.
TransferId(c) ==
  IF txn[c].pair THEN ids[c][1]
  ELSE IF txn[c].mark # 0 THEN rows[txn[c].mark].transfer ELSE 0

\* The row that a leg of c inserts.
NewRow(c, leg) ==
  [wallet |-> leg.wallet, type |-> leg.type, amount |-> leg.amount,
   balance |-> leg.balance, status |-> "POSTED",
   transfer |-> TransferId(c), reverses |-> leg.reverses]

Close(c) ==
  /\ pc' = [pc EXCEPT ![c] = "idle"]
  /\ call' = [call EXCEPT ![c] = NoCall]
  /\ txn' = [txn EXCEPT ![c] = NoTxn]
  /\ ids' = [ids EXCEPT ![c] = <<0, 0>>]

Inserted(c) ==
  [i \in Ids |->
     CASE i = ids[c][1] -> NewRow(c, txn[c].first)
       [] i = ids[c][2] -> NewRow(c, txn[c].second)
       [] i = txn[c].mark -> [rows[i] EXCEPT !.status = "REVERSED"]
       [] OTHER -> rows[i]]

Updated(c) ==
  [w \in Wallets |->
     CASE w = txn[c].first.wallet -> txn[c].first.balance
       [] w = txn[c].second.wallet -> txn[c].second.balance
       [] OTHER -> wallet[w]]

\* Mutant: the receiver's entry is lost on the way.
CommitDroppingSecondInsert(c) ==
  /\ pc[c] = "commit"
  /\ rows' = [rows EXCEPT ![ids[c][1]] = NewRow(c, txn[c].first)]
  /\ wallet' = Updated(c)
  /\ UNCHANGED clock
  /\ Close(c)

\* COMMIT: all the statements become visible at once.
Commit(c) ==
  /\ pc[c] = "commit"
  /\ rows' = Inserted(c)
  /\ wallet' = Updated(c)
  /\ UNCHANGED clock
  /\ Close(c)

\* A read throws, the interactive transaction times out while it waits, the
\* connection or the process dies: ROLLBACK, nothing of the call remains.
Abort(c) ==
  /\ pc[c] # "idle"
  /\ UNCHANGED <<wallet, rows, clock>>
  /\ Close(c)

\* Mutant: only cycles of three are noticed.
VictimOfLongCycle(c) ==
  /\ \E d, e \in Clients \ {c} : d # e /\ WaitsFor(c, d) /\ WaitsFor(d, e)
  /\ UNCHANGED <<wallet, rows, clock>>
  /\ Close(c)

\* PostgreSQL's deadlock detector cancels a waiter of a wait-for cycle.  Here:
\* c waits for a transaction that is itself waiting.
DeadlockVictim(c) ==
  /\ \E d, e \in Clients : WaitsFor(c, d) /\ WaitsFor(d, e)
  /\ UNCHANGED <<wallet, rows, clock>>
  /\ Close(c)

Statement(c) ==
  \/ PostTransfer(c) \/ RejectTransfer(c) \/ ReverseEntry(c)
  \/ MarkReversed(c) \/ InsertEntry(c) \/ UpdateWallet(c) \/ Commit(c)

Next ==
  \E c \in Clients :
    \/ \E w \in Wallets, a \in Amounts : PostDebit(c, w, a) \/ PostCredit(c, w, a)
    \/ \E f, t \in Wallets, a \in Amounts : \E first \in {f, t} :
         TransferReadsOne(c, f, t, a, first)
    \/ \E e \in Ids : ReverseReadsEntry(c, e)
    \/ Statement(c)
    \/ Abort(c)
    \/ DeadlockVictim(c)

Spec == Init /\ [][Next]_vars

\* A lock queue is first come, first served, so a statement that can run again
\* and again does run; the detector runs whenever a cycle stays.  Nobody is
\* obliged to start a call, and nothing else obliges a call to abort.
FairSpec ==
  Spec /\ \A c \in Clients : SF_vars(Statement(c)) /\ WF_vars(DeadlockVictim(c))

-----------------------------------------------------------------------------
(* Properties.                                                             *)

Rows == [wallet : Wallets, type : {"DEBIT", "CREDIT"}, amount : Amounts, balance : Int,
         status : {"POSTED", "REVERSED"}, transfer : 0..MaxEntries, reverses : 0..MaxEntries]
Legs == [wallet : Wallets, type : {"DEBIT", "CREDIT"}, amount : Amounts, balance : Int,
         reverses : 0..MaxEntries]
Steps == {"idle", "readOther", "readWallet", "mark", "insert1", "update1",
          "insert2", "update2", "commit"}

Calls == [from : Wallets \cup {Nobody}, to : Wallets \cup {Nobody}, amount : Amounts \cup {0},
          entry : 0..MaxEntries, read : Wallets \cup {Nobody}, seen : Int]
Txns == [mark : 0..MaxEntries, first : Legs \cup {NoLeg}, second : Legs \cup {NoLeg},
         pair : BOOLEAN]

\* Types: in particular an entry has one of the types of the enum
\* LedgerEntryType (schema.prisma) and keeps a caller's amount, reversals included.
TypeOK ==
  /\ wallet \in [Wallets -> Int]
  /\ rows \in [Ids -> Rows \cup {Absent}]
  /\ clock \in 0..MaxEntries
  /\ pc \in [Clients -> Steps]
  /\ call \in [Clients -> Calls]
  /\ txn \in [Clients -> Txns]
  /\ ids \in [Clients -> (0..MaxEntries) \X (0..MaxEntries)]

\* The postings that lower a wallet without a look at its balance: a CREDIT of
\* a negative amount, and what takes back a CREDIT.
Unchecked(entry) ==
  \/ entry.type = "CREDIT" /\ entry.amount < 0
  \/ entry.type = "DEBIT" /\ entry.amount > 0 /\ entry.reverses # 0
UncheckedOn(w) == \E i \in Posted : rows[i].wallet = w /\ Unchecked(rows[i])

\* postDebit "verifies sufficient balance before posting", on a balance that
\* may be stale by the time it is written.  Whatever the interleaving of
\* debits, credits, transfers and aborts, a wallet is negative only after an
\* unchecked posting on it: no debit and no sender's leg overdraws.
OverdraftOnlyUnchecked ==
  \A w \in Wallets : wallet[w] < 0 => UncheckedOn(w)

\* postTransfer is "atomic - both entries succeed or neither does": of each
\* transfer the ledger holds no row or exactly one DEBIT and one CREDIT of one
\* amount on two wallets, after any crash, timeout or deadlock in between.
LegsOf(t) == {i \in Posted : rows[i].transfer = t /\ rows[i].reverses = 0}
TransfersPaired ==
  \A t \in Ids : LegsOf(t) # {} =>
    \E i, j \in Ids :
      /\ LegsOf(t) = {i, j}
      /\ rows[i].type = "DEBIT" /\ rows[j].type = "CREDIT"
      /\ rows[i].amount = rows[j].amount
      /\ rows[i].wallet # rows[j].wallet

\* reverseEntry: an entry is REVERSED exactly when the ledger holds an entry
\* that takes it back, of the opposite type, same amount and wallet, so no
\* crash between mark and insert leaves money marked as returned that was not.
TakesBack(i, e) ==
  /\ rows[i].reverses = e
  /\ rows[i].type = Opposite(rows[e].type)
  /\ rows[i].amount = rows[e].amount
  /\ rows[i].wallet = rows[e].wallet
  /\ rows[i].transfer = rows[e].transfer
ReversalsLinked ==
  /\ \A e \in Posted : rows[e].status = "REVERSED" => \E i \in Posted : TakesBack(i, e)
  /\ \A i \in Posted : rows[i].reverses # 0 =>
       /\ rows[i].reverses \in Posted
       /\ rows[rows[i].reverses].status = "REVERSED"
       /\ TakesBack(i, rows[i].reverses)

\* "Every financial mutation creates ledger entries that maintain running
\* balances": a wallet changes only in a step that appends an entry of that
\* wallet carrying the very balance written, and no step rewrites an entry
\* except from POSTED to REVERSED.
PostedWith(w) ==
  \E i \in Ids : /\ rows[i] = Absent
                /\ rows'[i].wallet = w
                /\ rows'[i].balance = wallet'[w]
AppendOnly ==
  \A i \in Posted :
    \/ rows'[i] = rows[i]
    \/ rows[i].status = "POSTED" /\ rows'[i] = [rows[i] EXCEPT !.status = "REVERSED"]
PostingStep ==
  /\ AppendOnly
  /\ \A w \in Wallets : wallet'[w] # wallet[w] => PostedWith(w)
PostingsAtomic == [][PostingStep]_vars

\* The class comment's "running balances per wallet": each posting moves its
\* wallet by its amount.  With overlapping calls the code breaks it.
SignedAmount(i) == IF rows'[i].type = "CREDIT" THEN rows'[i].amount ELSE -rows'[i].amount
RunningBalance ==
  [][\A i \in Ids : rows[i] = Absent /\ rows'[i] # Absent =>
       wallet'[rows'[i].wallet] = wallet[rows'[i].wallet] + SignedAmount(i)]_vars

\* 'Entry already reversed' (ledger.service.ts:198): at most one entry takes
\* back any given entry.
ReversedOnce ==
  \A i, j \in Posted : rows[i].reverses # 0 /\ rows[i].reverses = rows[j].reverses => i = j

\* verifyWalletBalance: the wallet against the newest POSTED entry of it.
PostedOn(w) == {i \in Ids : rows[i].status = "POSTED" /\ rows[i].wallet = w}
LedgerBalance(w) ==
  IF PostedOn(w) = {} THEN 0
  ELSE rows[CHOOSE i \in PostedOn(w) : \A j \in PostedOn(w) : j <= i].balance
IsConsistent(w) == wallet[w] = LedgerBalance(w)
Consistent == \A w \in Wallets : IsConsistent(w)

\* With calls that do not overlap verifyWalletBalance finds every wallet consistent, and no
\* entry is taken back twice (two overlapping reversals both read POSTED).
LedgerVerifies == Consistent /\ ReversedOnce

\* Every call returns: two transfers that lock each other's wallet included.
EveryCallEnds == \A c \in Clients : pc[c] # "idle" ~> pc[c] = "idle"

\* Calls that do not overlap do what SerialLedger says.
Serial == INSTANCE SerialLedger WITH
  Wallets <- Wallets, Amounts <- Amounts, MaxEntries <- MaxEntries, Nobody <- Nobody,
  wallet <- wallet, rows <- rows
SerialLedgerSpec == Serial!SSpec
=============================================================================
