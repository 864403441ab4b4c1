------------------------------- MODULE Budget -------------------------------
(***************************************************************************)
(* The transactions of users and the running total `spent` that budgets    *)
(* keep (finance.service.ts).  Transactions are linked to a budget by      *)
(* budgetId, or counted by category; every operation reads, awaits, and    *)
(* writes totals computed from what it read, one action per round trip     *)
(* that another request can come between.  A request is the owner's of the *)
(* transaction or budget it is for, but the budget that updateTransaction  *)
(* links to may be anybody's.                                              *)
(*                                                                         *)
(* Amounts are whole numbers, so Number() and the rounding to cents lose   *)
(* nothing.  A budget's limit, its notification and its period, which no    *)
(* total looks at, are left out.                                           *)
(***************************************************************************)
EXTENDS Integers, FiniteSets, FiniteSetsExt

CONSTANTS
  Clients,      \* concurrent requests
  Txs,          \* transaction ids, each used once
  Budgets,      \* budget ids, each used once
  Categories,
  Owner,        \* by transaction and by budget: the userId, which nothing changes
  MaxAmount,    \* bound: amounts are 1..MaxAmount
  MaxSpent,     \* bound: no total above this is written
  Null          \* SQL NULL, or the empty category, which no query looks for

ASSUME MaxAmountAssumption == MaxAmount \in Nat \ {0}
ASSUME MaxSpentAssumption == MaxSpent \in Nat
ASSUME NullAssumption == Null \notin Budgets \cup Categories
ASSUME FiniteAssumption == IsFiniteSet(Clients) /\ IsFiniteSet(Txs)

VARIABLES
  tx,        \* tx[t]: the row, or New, or Gone
  budget,    \* budget[b]: the row, or New, or Gone
  pc,        \* pc[c]: the round trip that the request of c makes next
  draft,     \* draft[c]: what the request of c has read and will write
  was        \* history: "raced" once a request wrote over a change; before that
             \* "apart" once one stopped half-way or counted an expense without
             \* a link or of another user; "exact" until then

vars == <<tx, budget, pc, draft, was>>

Amounts == 1..MaxAmount

\* status and transactionType, as far as budgets tell them apart: APPROVED
\* EXPENSE, PENDING EXPENSE, or INCOME of either status.
Kinds == {"spent", "pending", "income"}

Rows == [kind : Kinds, amount : Amounts, category : Categories \cup {Null},
         link : Budgets \cup {Null}]

New == [kind |-> "new", amount |-> 0, category |-> Null, link |-> Null]
Gone == [New EXCEPT !.kind = "gone"]

NewBudget == [there |-> "new", category |-> Null, spent |-> 0]
GoneBudget == [NewBudget EXCEPT !.there = "gone"]

Stored == {t \in Txs : tx[t].kind \in Kinds}
Spent(t) == tx[t].kind = "spent"
Open == {b \in Budgets : budget[b].there = "open"}

\* less: the row that was read, to be taken from its budget; more: the row
\* to be written or counted; own: only a budget of its user may count it;
\* base: the total that was read; sum: the amounts that a recalculation
\* counted so far.
NoDraft == [tx |-> Null, less |-> New, more |-> New, own |-> FALSE, budget |-> Null,
            base |-> 0, category |-> Null, sum |-> 0]

Init ==
  /\ tx = [t \in Txs |-> New]
  /\ budget = [b \in Budgets |-> NewBudget]
  /\ pc = [c \in Clients |-> "idle"]
  /\ draft = [c \in Clients |-> NoDraft]
  /\ was = "exact"

-----------------------------------------------------------------------------

Go(c, next, d) ==
  /\ pc' = [pc EXCEPT ![c] = next]
  /\ draft' = [draft EXCEPT ![c] = d]

End(c) == Go(c, "idle", NoDraft)

\* Next add d.more, an approved expense with a link or a category; d.less is
\* done with, and stays New only in createTransaction, which has read no row.
SettleMore(c, d) ==
  IF d.more.kind = "spent" /\ (d.more.link # Null \/ d.more.category # Null)
  THEN Go(c, "findMore", [NoDraft EXCEPT !.tx = d.tx, !.more = d.more, !.own = d.own,
                                         !.less = IF d.less = New THEN New ELSE Gone])
  ELSE End(c)

\* After the writes to the transaction: first take d.less, an approved expense
\* with a link, from its budget.
Settle(c, d) ==
  IF d.less.kind = "spent" /\ d.less.link # Null THEN Go(c, "findLess", d)
  ELSE SettleMore(c, d)

-----------------------------------------------------------------------------
(* Transactions.                                                           *)

\* createTransaction inserts the row; dto.budgetId (b) is not stored in it.
CreateTransaction(c, t, row, b) ==
  /\ tx[t] = New /\ row.link = Null
  /\ tx' = [tx EXCEPT ![t] = row]
  /\ Settle(c, [NoDraft EXCEPT !.tx = t, !.more = [row EXCEPT !.link = b], !.own = TRUE])
  /\ UNCHANGED budget

\* updateTransaction reads the row and merges the dto over it; a link can be
\* changed, to a budget of any user, but not removed.
UpdateTransaction(c, t, row) ==
  /\ row.link \in Open \cup {Null}
  /\ tx[t].link # Null => row.link # Null
  /\ Go(c, "update", [NoDraft EXCEPT !.tx = t, !.less = tx[t], !.more = row])
  /\ UNCHANGED <<tx, budget>>

\* Every column is written back, and the row, and the budget it links to, must
\* exist; only a link makes the new row count.
WriteRow(c) ==
  /\ pc[c] = "update"
  /\ draft[c].tx \in Stored /\ draft[c].more.link \in Open \cup {Null}
  /\ tx' = [tx EXCEPT ![draft[c].tx] = draft[c].more]
  /\ Settle(c, [draft[c] EXCEPT !.more = IF @.link = Null THEN New ELSE @])
  /\ UNCHANGED budget

\* approveTransaction reads a transaction that is not approved, of which an
\* expense will be counted ...
ApproveTransaction(c, t) ==
  /\ tx[t].kind # "spent"
  /\ Go(c, "approve", [NoDraft EXCEPT
        !.tx = t, !.less = tx[t], !.own = TRUE,
        !.more = IF tx[t].kind = "pending" THEN [tx[t] EXCEPT !.kind = "spent"] ELSE New])
  /\ UNCHANGED <<tx, budget>>

\* ... and writes its status only.
WriteStatus(c) ==
  /\ pc[c] = "approve"
  /\ draft[c].tx \in Stored
  /\ tx' = [tx EXCEPT ![draft[c].tx].kind = IF @ = "pending" THEN "spent" ELSE @]
  /\ Settle(c, draft[c])
  /\ UNCHANGED budget

\* deleteTransaction reads the row, takes it from its budget, deletes it.
DeleteTransaction(c, t) ==
  LET d == [NoDraft EXCEPT !.tx = t, !.less = tx[t], !.more = Gone]
  IN /\ IF Spent(t) /\ tx[t].link # Null THEN Go(c, "findLess", d) ELSE Go(c, "delete", d)
     /\ UNCHANGED <<tx, budget>>

DeleteRow(c) ==
  /\ pc[c] = "delete"
  /\ draft[c].tx \in Stored
  /\ tx' = [tx EXCEPT ![draft[c].tx] = Gone]
  /\ End(c)
  /\ UNCHANGED budget

-----------------------------------------------------------------------------
(* The totals.                                                             *)

\* What follows once `less` has been taken: the deletion, the addition or
\* nothing.
AfterLess(c) ==
  IF draft[c].more = Gone THEN Go(c, "delete", [draft[c] EXCEPT !.budget = Null, !.base = 0])
  ELSE SettleMore(c, draft[c])

FindLess(c) ==
  LET b == draft[c].less.link
  IN /\ pc[c] = "findLess"
     /\ IF b \in Open
        THEN Go(c, "subtract", [draft[c] EXCEPT !.budget = b, !.base = budget[b].spent])
        ELSE AfterLess(c)
     /\ UNCHANGED <<tx, budget>>

\* Mutant: without Math.max.
LessSpentUnclamped(d) == d.base - d.less.amount

\* Math.max(0, spent - amount), from the total that was read.
LessSpent(d) == Max({0, d.base - d.less.amount})

Subtract(c) ==
  /\ pc[c] = "subtract"
  /\ draft[c].budget \in Open
  /\ budget' = [budget EXCEPT ![draft[c].budget].spent = LessSpent(draft[c])]
  /\ AfterLess(c)
  /\ UNCHANGED tx

\* Mutant: createTransaction and approveTransaction ask for anybody's.
MatchingAnyone(d) ==
  {b \in Open : IF d.more.link # Null THEN b = d.more.link
                ELSE d.more.category # Null /\ budget[b].category = d.more.category}

\* The budget named, else one of the transaction's category; findFirst without
\* an order may return any of them.  createTransaction and approveTransaction
\* ask for the user's own.
Matching(d) ==
  {b \in Open :
     /\ d.own => Owner[b] = Owner[d.tx]
     /\ IF d.more.link # Null THEN b = d.more.link
        ELSE d.more.category # Null /\ budget[b].category = d.more.category}

FindMore(c) ==
  LET found == Matching(draft[c])
  IN /\ pc[c] = "findMore"
     /\ IF found = {} THEN End(c)
        ELSE \E b \in found :
               Go(c, "add", [draft[c] EXCEPT !.budget = b, !.base = budget[b].spent])
     /\ UNCHANGED <<tx, budget>>

\* Bound: MaxSpent.
Add(c) ==
  LET b == draft[c].budget
      newSpent == draft[c].base + draft[c].more.amount
  IN /\ pc[c] = "add"
     /\ b \in Open
     /\ newSpent <= MaxSpent
     /\ budget' = [budget EXCEPT ![b].spent = newSpent]
     /\ End(c)
     /\ UNCHANGED tx

-----------------------------------------------------------------------------
(* Budgets.                                                                *)

CreateBudget(c, b, category) ==
  /\ budget[b] = NewBudget
  /\ budget' = [budget EXCEPT ![b] = [there |-> "open", category |-> category, spent |-> 0]]
  /\ UNCHANGED <<tx, pc, draft>>

\* updateBudget finds the row, writes its columns, and then recalculates the total.
UpdateBudget(c, b, category) ==
  /\ budget' = [budget EXCEPT ![b].category = category]
  /\ Go(c, "recalculate", [NoDraft EXCEPT !.budget = b])
  /\ UNCHANGED tx

\* recalculateBudgetSpent reads the budget ...
RecalculateBudgetSpent(c) ==
  LET b == draft[c].budget
  IN /\ pc[c] = "recalculate"
     /\ IF b \in Open
        THEN Go(c, "linked", [draft[c] EXCEPT !.category = budget[b].category])
        ELSE End(c)
     /\ UNCHANGED <<tx, budget>>

\* Both queries are for the user's own transactions.
Linked(b) == {t \in Txs : Spent(t) /\ Owner[t] = Owner[b] /\ tx[t].link = b}

Unlinked(b, category) ==
  {t \in Txs : /\ Spent(t) /\ Owner[t] = Owner[b] /\ tx[t].link = Null
               /\ category # Null /\ tx[t].category = category}

Sum(S) == MapThenSumSet(LAMBDA t : tx[t].amount, S)

\* ... then the user's transactions linked to it ...
ReadLinked(c) ==
  /\ pc[c] = "linked"
  /\ Go(c, "unlinked", [draft[c] EXCEPT !.sum = Sum(Linked(draft[c].budget))])
  /\ UNCHANGED <<tx, budget>>

\* Mutant: the second query does not ask for budgetId null.
ReadCategory(c) ==
  LET S == {t \in Txs : /\ Spent(t) /\ Owner[t] = Owner[draft[c].budget]
                         /\ tx[t].category = draft[c].category}
  IN /\ pc[c] = "unlinked" /\ draft[c].category # Null
     /\ Go(c, "store", [draft[c] EXCEPT !.sum = @ + Sum(S)])
     /\ UNCHANGED <<tx, budget>>

\* ... then those of its category that are linked to none ...
ReadUnlinked(c) ==
  /\ pc[c] = "unlinked"
  /\ Go(c, "store", [draft[c] EXCEPT
                        !.sum = @ + Sum(Unlinked(draft[c].budget, draft[c].category)),
                        !.category = Null])
  /\ UNCHANGED <<tx, budget>>

\* ... and stores the sum.  Bound: MaxSpent.
StoreTotal(c) ==
  LET b == draft[c].budget
  IN /\ pc[c] = "store"
     /\ b \in Open
     /\ draft[c].sum <= MaxSpent
     /\ budget' = [budget EXCEPT ![b].spent = draft[c].sum]
     /\ End(c)
     /\ UNCHANGED tx

\* The links to b are cleared, whosever the transactions are.
Unlink(b) == tx' = [t \in Txs |-> IF tx[t].link = b THEN [tx[t] EXCEPT !.link = Null] ELSE tx[t]]

\* deleteBudget unlinks its transactions ...
DeleteBudget(c, b) ==
  /\ Unlink(b)
  /\ Go(c, "drop", [NoDraft EXCEPT !.budget = b])
  /\ UNCHANGED budget

\* ... and deletes the row; the foreign key (ON DELETE SET NULL) clears links
\* made since.
DropBudget(c) ==
  LET b == draft[c].budget
  IN /\ pc[c] = "drop"
     /\ b \in Open
     /\ budget' = [budget EXCEPT ![b] = GoneBudget]
     /\ Unlink(b)
     /\ End(c)

\* The process dies, or a write fails because its row is gone: the request
\* stops where it is.
Stop(c) ==
  /\ pc[c] # "idle"
  /\ End(c)
  /\ UNCHANGED <<tx, budget>>

-----------------------------------------------------------------------------

Busy == {c \in Clients : pc[c] # "idle"}

Recalculating == {c \in Clients : pc[c] \in {"recalculate", "linked", "unlinked", "store"}}

\* What c is about to write was computed from a row or a total that another
\* request has changed since, or Math.max cuts it off because an addition that
\* it should follow is still under way.
Raced(c) ==
  \/ pc[c] \in {"update", "approve", "delete"} /\ tx[draft[c].tx] # draft[c].less
  \/ pc[c] \in {"subtract", "add"} /\ budget[draft[c].budget].spent # draft[c].base
  \/ pc[c] = "subtract" /\ draft[c].base < draft[c].less.amount

\* An approved expense that a budget counts, or is about to, without a link
\* (createTransaction alone has read no row), or a total that changes by an
\* expense of another user, who linked it to this budget (finance.service.ts:136,
\* :158: no operation asks whose the budget is).
Apart ==
  \/ \E b \in Open : Unlinked(b, budget[b].category) # {}
  \/ \E c \in Clients :
       pc[c] = "add" /\ (draft[c].more.link = Null \/ draft[c].less = New)
  \/ \E c \in Clients :
       /\ pc[c] \in {"subtract", "add"} /\ ~draft[c].own
       /\ Owner[draft[c].budget] # Owner[draft[c].tx]

\* After a step of c.  A recalculation races with any other request.
Remember(c, stopped) ==
  was' = IF was = "raced" \/ Raced(c) \/ (Recalculating # {} /\ Cardinality(Busy) > 1)
         THEN "raced"
         ELSE IF was = "apart" \/ stopped \/ Apart' THEN "apart" ELSE "exact"

TransactionRoutes(c) ==
  \/ \E t \in Txs, row \in Rows, b \in Open \cup {Null} : CreateTransaction(c, t, row, b)
  \/ \E t \in Stored, row \in Rows : UpdateTransaction(c, t, row)
  \/ \E t \in Stored : ApproveTransaction(c, t) \/ DeleteTransaction(c, t)

BudgetRoutes(c) ==
  \/ \E b \in Budgets, category \in Categories \cup {Null} : CreateBudget(c, b, category)
  \/ \E b \in Open, category \in Categories \cup {Null} : UpdateBudget(c, b, category)
  \/ \E b \in Open : DeleteBudget(c, b)

\* What a client that waits for no answer may send.
Request(c) ==
  /\ pc[c] = "idle"
  /\ TransactionRoutes(c) \/ BudgetRoutes(c)

Continue(c) ==
  \/ WriteRow(c) \/ WriteStatus(c) \/ DeleteRow(c)
  \/ FindLess(c) \/ Subtract(c) \/ FindMore(c) \/ Add(c)
  \/ RecalculateBudgetSpent(c) \/ ReadLinked(c) \/ ReadUnlinked(c) \/ StoreTotal(c)
  \/ DropBudget(c)

Next ==
  \E c \in Clients :
    \/ (Request(c) \/ Continue(c)) /\ Remember(c, FALSE)
    \/ Stop(c) /\ Remember(c, TRUE)

Spec == Init /\ [][Next]_vars

-----------------------------------------------------------------------------
(* Properties.                                                             *)

Steps == {"idle", "update", "approve", "delete", "findLess", "subtract", "findMore", "add",
          "recalculate", "linked", "unlinked", "store", "drop"}

\* Types and the foreign key: no transaction is linked to a budget that is not
\* there, and no total is negative, whatever stale total it was computed from.
TypeOK ==
  /\ \A t \in Txs : tx[t] \in Rows \cup {New, Gone}
  /\ \A t \in Txs : tx[t].link \in Open \cup {Null}
  /\ \A b \in Budgets : budget[b] \in [there : {"new", "open", "gone"}, spent : 0..MaxSpent,
                                       category : Categories \cup {Null}]
  /\ pc \in [Clients -> Steps]
  /\ was \in {"exact", "apart", "raced"}

\* What recalculateBudgetSpent would store.
Total(b) == Sum(Linked(b)) + Sum(Unlinked(b, budget[b].category))

\* Requests that overlap on different rows, or whose reads and writes do not
\* cross, keep the totals exact: when every request has returned, a total is
\* what a recalculation would store, unless some request raced with another,
\* one was stopped half-way, or an expense was counted without a link or in
\* a budget of another user.
SpentIsTotal ==
  Busy = {} /\ was = "exact" => \A b \in Open : budget[b].spent = Total(b)

\* updateBudget repairs a total that drifted because a request stopped
\* half-way, an expense had no link or another user linked his: what an
\* undisturbed recalculation stores is exact, and of the user's expenses only.
RecalculationRestores ==
  [][\A c \in Clients, b \in Budgets :
       StoreTotal(c) /\ draft[c].budget = b /\ was' # "raced" =>
         budget'[b].spent = Total(b)']_vars
=============================================================================
