-------------------------------- MODULE Task --------------------------------
(***************************************************************************)
(* The tasks of one user (productivity.service.ts), and the finances on    *)
(* his dashboard (insight.service.ts), which is cached for two minutes:    *)
(* the writes of his transactions (finance.service.ts) delete the entry,   *)
(* but for the settlement of a group, and the answers do not wait.  The    *)
(* tasks and habits on the dashboard, which are read by queries of their   *)
(* own and never deleted, are as old as the entry and left out.            *)
(***************************************************************************)
EXTENDS Inbox

CONSTANTS
  TaskOwner,   \* the user
  Figures      \* what financeStats may show of his transactions

ASSUME TaskOwnerAssumption == TaskOwner \in Readers
ASSUME FiguresAssumption == "none" \notin Figures

VARIABLES
  task,        \* the status of the row, or "none"
  finances     \* the figures of his transactions, or "none" if there are none

taskVars == <<task, finances>>

TaskStatuses == {"TODO", "DONE"}

CreateTask(c, status) ==
  /\ TaskOwner \in users
  /\ task = "none"
  /\ Once(c)
  /\ task' = status
  /\ UNCHANGED <<users, redis, inboxVars, finances>>

\* updateTask and deleteTask get the task, which must be the user's own.
GetTask(c, next, status) ==
  /\ TaskOwner \in users
  /\ task # "none"
  /\ Begin(c, Request(next, TaskOwner, TaskOwner, status))
  /\ UNCHANGED <<users, redis, inboxVars, taskVars>>

\* By the id alone; it fails if the row is gone.
UpdateTask(c) ==
  /\ call[c].at = "update-task"
  /\ task' = IF task = "none" THEN task ELSE call[c].as
  /\ End(c)
  /\ UNCHANGED <<users, redis, inboxVars, finances>>

\* The user gets a message, which the answer does not wait for.
DeleteTask(c) ==
  /\ call[c].at = "delete-task"
  /\ IF task = "none"
     THEN UNCHANGED <<inboxVars, task>>
     ELSE /\ task' = "none"
          /\ Notify({TaskOwner})
  /\ End(c)
  /\ UNCHANGED <<users, redis, finances>>

\* createTransaction up to its insert: it reads no transaction.
CreateTransaction(c, figure) ==
  /\ TaskOwner \in users
  /\ Begin(c, Request("insert-transaction", TaskOwner, TaskOwner, figure))
  /\ UNCHANGED <<users, redis, inboxVars, taskVars>>

\* updateTransaction, approveTransaction, which changes no figure, and deleteTransaction
\* up to their write: they find a transaction of the user.
FindTransaction(c, figure) ==
  /\ TaskOwner \in users
  /\ finances # "none"
  /\ Begin(c, Request("write-transaction", TaskOwner, TaskOwner, figure))
  /\ UNCHANGED <<users, redis, inboxVars, taskVars>>

\* The insert is refused if the account is gone, the other writes if the transaction is.
\* The budgets (module Budget) come between this and the deletion of the entry.
WriteTransaction(c) ==
  /\ call[c].at \in {"insert-transaction", "write-transaction"}
  /\ IF IF call[c].at = "insert-transaction" THEN TaskOwner \in users ELSE finances # "none"
     THEN /\ finances' = call[c].as
          /\ Go(c, [call[c] EXCEPT !.at = "evict-dashboard"])
     ELSE End(c) /\ UNCHANGED finances
  /\ UNCHANGED <<users, redis, inboxVars, task>>

\* invalidateDashboard, which the answer does not wait for: it may have been given.
InvalidateDashboard(c) ==
  /\ call[c].at = "evict-dashboard"
  /\ Delete("dashboard")
  /\ End(c)
  /\ UNCHANGED <<users, inboxVars, taskVars>>

\* settleGroup's transaction, after which nobody deletes the entry.
SettleGroup(c, figure) ==
  /\ TaskOwner \in users
  /\ Once(c)
  /\ finances' = figure
  /\ ChangeUnnoticed({"dashboard"})
  /\ UNCHANGED <<users, inboxVars, task>>

GetDashboard(c) ==
  /\ TaskOwner \in users
  /\ Miss("dashboard")
  /\ Begin(c, Request("build-dashboard", TaskOwner, TaskOwner, Nobody))
  /\ UNCHANGED <<users, redis, inboxVars, taskVars>>

BuildDashboard(c) ==
  /\ call[c].at = "build-dashboard"
  /\ GoSeeing(c, "store-dashboard", finances)
  /\ UNCHANGED <<users, redis, inboxVars, taskVars>>

StoreDashboard(c) ==
  /\ call[c].at = "store-dashboard"
  /\ Store("dashboard", call[c].seen, finances)
  /\ End(c)
  /\ UNCHANGED <<users, inboxVars, taskVars>>

TasksDeleted(u) == IF u = TaskOwner THEN "none" ELSE task

TaskNext(c) ==
  \/ \E s \in TaskStatuses : CreateTask(c, s) \/ GetTask(c, "update-task", s)
  \/ GetTask(c, "delete-task", Nobody)
  \/ UpdateTask(c) \/ DeleteTask(c)
  \/ \E f \in Figures : CreateTransaction(c, f) \/ SettleGroup(c, f)
  \/ \E f \in Figures \cup {"none"} : FindTransaction(c, f)
  \/ WriteTransaction(c) \/ InvalidateDashboard(c)
  \/ GetDashboard(c) \/ BuildDashboard(c) \/ StoreDashboard(c)

-----------------------------------------------------------------------------

TaskTypeOK == task \in TaskStatuses \cup {"none"} /\ finances \in Figures \cup {"none"}

\* "called by other services after writes" (insight.service.ts:138; by finance.service.ts:74,
\* :110, :169 and :204): a cached dashboard whose finances are not those of the rows is about
\* to be deleted, or else excused: it was read before a change and stored after it, its delete
\* was lost or its request stopped, or the change was the settlement of a group.
DashboardExplained ==
  \/ Miss("dashboard")
  \/ entry["dashboard"] = {finances}
  \/ \E c \in Clients : call[c].at = "evict-dashboard"
  \/ "dashboard" \in excused
=============================================================================
