---------------------------- MODULE SerialLedger ----------------------------
(***************************************************************************)
(* What LedgerService promises its callers: "Double-Entry Accounting ...   *)
(* running balances per wallet.  The ledger is the source of truth for     *)
(* wallet balances" (ledger.service.ts:5-11).  Each call takes effect at   *)
(* once: it moves a wallet by the amount of the entry it appends, and the  *)
(* entry carries the balance it leaves.  Ledger implements this module     *)
(* when its calls do not overlap.                                          *)
(***************************************************************************)
EXTENDS Integers

CONSTANTS Wallets, Amounts, MaxEntries, Nobody

VARIABLES wallet, rows

svars == <<wallet, rows>>

SIds == 1..MaxEntries

SAbsent == [wallet |-> Nobody, type |-> "DEBIT", amount |-> 0, balance |-> 0,
            status |-> "ABSENT", transfer |-> 0, reverses |-> 0]

\* Appended after every entry there is.
Fresh(i) == \A j \in SIds : j >= i => rows[j].status = "ABSENT"

Signed(type, a) == IF type = "CREDIT" THEN a ELSE -a

Entry(w, type, a, transfer, reverses) ==
  [wallet |-> w, type |-> type, amount |-> a, balance |-> wallet[w] + Signed(type, a),
   status |-> "POSTED", transfer |-> transfer, reverses |-> reverses]

SInit ==
  /\ wallet = [w \in Wallets |-> 0]
  /\ rows = [i \in SIds |-> SAbsent]

Post(w, type, a) ==
  /\ type = "DEBIT" => wallet[w] >= a
  /\ \E i \in SIds :
       /\ Fresh(i)
       /\ rows' = [rows EXCEPT ![i] = Entry(w, type, a, 0, 0)]
  /\ wallet' = [wallet EXCEPT ![w] = @ + Signed(type, a)]

Transfer(f, t, a) ==
  /\ f # t
  /\ wallet[f] >= a
  /\ \E i, j \in SIds :
       /\ Fresh(i)
       /\ i < j
       /\ rows' = [rows EXCEPT ![i] = Entry(f, "DEBIT", a, i, 0),
                               ![j] = Entry(t, "CREDIT", a, i, 0)]
  /\ wallet' = [wallet EXCEPT ![f] = @ - a, ![t] = @ + a]

Reverse(e) ==
  LET w == rows[e].wallet
      type == IF rows[e].type = "DEBIT" THEN "CREDIT" ELSE "DEBIT"
  IN /\ rows[e].status = "POSTED"
     /\ \E i \in SIds :
          /\ Fresh(i)
          /\ rows' = [rows EXCEPT ![e].status = "REVERSED",
                                  ![i] = Entry(w, type, rows[e].amount, rows[e].transfer, e)]
     /\ wallet' = [wallet EXCEPT ![w] = @ + Signed(type, rows[e].amount)]

SNext ==
  \/ \E w \in Wallets, type \in {"DEBIT", "CREDIT"}, a \in Amounts : Post(w, type, a)
  \/ \E f, t \in Wallets, a \in Amounts : Transfer(f, t, a)
  \/ \E e \in SIds : Reverse(e)

SSpec == SInit /\ [][SNext]_svars
=============================================================================
