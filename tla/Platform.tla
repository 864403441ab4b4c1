------------------------------ MODULE Platform ------------------------------
(***************************************************************************)
(* The services of the platform together: approvals, consents, support     *)
(* cases, messages, a flag, tasks, habits and a group, of accounts that    *)
(* administrators delete meanwhile, by requests that may stop between any  *)
(* two of their statements; and the script that fills an empty database.   *)
(***************************************************************************)
EXTENDS Approval, Consent, Support, Flags, Task, Habit, Group, Seed

CONSTANT MaxDesks   \* bound: services used in one behaviour, besides the deletions

ASSUME MaxDesksAssumption == MaxDesks \in Nat

Services == {"approval", "consent", "support", "inbox", "flags", "task", "habit", "group",
             "seed"}

VARIABLE desks      \* those used so far

approvalVars == <<request, overlapped>>
consentVars == <<consent, policy>>
supportVars == <<time, case, dropped, crossed>>
cacheVars == <<redis, inboxVars>>

vars == <<desks, desk, approvalVars, consentVars, held, supportVars, cacheVars, flag,
          taskVars, habitVars, groupVars, seedVars>>

Visit(d) ==
  /\ desks' = desks \cup {d}
  /\ Cardinality(desks') <= MaxDesks

\* deleteUser and deleteAdmin up to the delete.  Not together with the script (bound), which
\* runs before the first request.
FindAccount(c, a, u) ==
  /\ "seed" \notin desks
  /\ Admin(a, AdminUserRoutes, "deleteUser") \/ Admin(a, AdminUserRoutes, "deleteAdmin")
  /\ a # u
  /\ u \in users
  /\ RoleOf[u] # "SUPER_ADMIN"
  /\ Begin(c, Request("delete-user", a, u, Nobody))
  /\ UNCHANGED <<users, approvalVars, consentVars, supportVars, cacheVars, flag, taskVars,
                 habitVars, groupVars>>

\* The delete: refused while the account has made an approval request, a group or a
\* transaction, or has gone.  What belongs to it goes with it, approvals lose their approver and
\* messages their reader, and rows of groups stay.
DeleteUser(c) ==
  LET u == call[c].of
  IN /\ call[c].at = "delete-user"
     /\ IF /\ u \in users /\ ~Requester(u) /\ ~Founder(u) /\ u \notin payers
           /\ u = TaskOwner => finances = "none"
        THEN /\ users' = users \ {u}
             /\ request' = ApproverCleared(u)
             /\ consent' = ConsentsDeleted(u)
             /\ case' = CasesDeleted(u)
             /\ note' = Orphaned(u)
             /\ task' = TasksDeleted(u)
             /\ ChangeUnnoticed({u} \cap Readers)
             /\ habit' = HabitsDeleted(u)
             /\ log' = LogsDeleted(u)
        ELSE UNCHANGED <<users, request, consent, case, note, redis, task, habit, log>>
     /\ End(c)
     /\ UNCHANGED <<overlapped, policy, time, dropped, crossed, hour, post, promised, flag,
                    finances, today, disturbed, groupVars>>

\* The process of a request ends between two of its statements, or one of them fails.
Stop(c) ==
  LET at == call[c].at
      \* the keys of cached values that it was to delete
      owed == CASE at = "evict-list" -> {call[c].as}
                [] at = "evict-banner" -> {"banners"}
                [] at = "evict-dashboard" -> {"dashboard"}
                [] at = "evict-flag" -> {"flag"}
                [] OTHER -> {}
  IN /\ at # "idle"
     /\ dropped' = IF at \in {"touch-case", "write-touch"} THEN dropped \cup {call[c].of}
                   ELSE dropped
     /\ promised' = IF at = "evict-banner" THEN promised \ call[c].seen ELSE promised
     /\ disturbed' = IF at = "update-streak" THEN disturbed \cup {call[c].by} ELSE disturbed
     /\ ChangeUnnoticed(owed)
     /\ End(c)
     /\ UNCHANGED <<users, approvalVars, consentVars, time, case, crossed, hour, note, post, flag,
                    taskVars, today, habit, log, groupVars>>

\* Steps that no request makes.
Background ==
  \/ \E u \in Readers : InsertNote(u) \/ EvictNote(u) \/ DropPost(u)
  \/ \E k \in Keys : Expire(k) /\ UNCHANGED <<desk, inboxVars>>

\* A step of a request, or a day or the life of an approval request that passes.
Serve(c) ==
  \/ /\ ApprovalNext(c) \/ \E r \in Requests : Lapse(r)
     /\ Visit("approval")
     /\ UNCHANGED <<consentVars, supportVars, cacheVars, flag, taskVars, habitVars, groupVars>>
  \/ /\ ConsentNext(c)
     /\ Visit("consent")
     /\ UNCHANGED <<approvalVars, supportVars, cacheVars, flag, taskVars, habitVars, groupVars>>
  \/ /\ SupportNext(c) \/ Tick
     /\ Visit("support")
     /\ UNCHANGED <<approvalVars, consentVars, cacheVars, flag, taskVars, habitVars, groupVars>>
  \/ /\ InboxNext(c) \/ NewHour
     /\ Visit("inbox")
     /\ UNCHANGED <<approvalVars, consentVars, supportVars, flag, taskVars, habitVars, groupVars>>
  \/ /\ FlagsNext(c)
     /\ Visit("flags")
     /\ UNCHANGED <<approvalVars, consentVars, supportVars, inboxVars, taskVars, habitVars,
                    groupVars>>
  \/ /\ TaskNext(c)
     /\ Visit("task")
     /\ UNCHANGED <<approvalVars, consentVars, supportVars, flag, habitVars, groupVars>>
  \/ /\ HabitNext(c) \/ NewDay
     /\ Visit("habit")
     /\ UNCHANGED <<approvalVars, consentVars, supportVars, flag, taskVars, groupVars>>
  \/ /\ GroupNext(c)
     /\ Visit("group")
     /\ UNCHANGED <<approvalVars, consentVars, supportVars, flag, taskVars, habitVars>>
  \/ /\ (\E a, u \in Users : FindAccount(c, a, u)) \/ DeleteUser(c) \/ Stop(c)
     /\ UNCHANGED desks

Next ==
  \/ /\ \/ \E c \in Clients : Serve(c)
        \/ /\ Background
           /\ UNCHANGED <<desks, approvalVars, consentVars, supportVars, flag, taskVars, habitVars,
                          groupVars>>
     /\ Remember
     /\ UNCHANGED seedVars
  \/ /\ calls = 0
     /\ SeedNext
     /\ Visit("seed")
     /\ UNCHANGED <<desk, approvalVars, consentVars, held, supportVars, cacheVars, flag, taskVars,
                    habitVars, groupVars>>

\* Everybody has an account.  Of the services used before there are: a pending request,
\* consents to the policies in force, a case, messages and a banner or none, a flag, habits and
\* a group.  The others have nothing yet.
Init ==
  /\ desks \in {D \in SUBSET Services : Cardinality(D) <= MaxDesks}
  /\ users = Users
  /\ call = [c \in Clients |-> NoCall]
  /\ calls = 0
  /\ request \in IF "approval" \in desks
                 THEN {[r \in Requests |-> Pending(u)] : u \in Users}
                 ELSE {[r \in Requests |-> Absent]}
  /\ policy = [t \in Policies |-> IF "consent" \in desks THEN {1} ELSE {}]
  /\ consent = [s \in Subjects |-> [t \in Types |->
                  IF "consent" \in desks THEN Given(1, TRUE, FALSE) ELSE Never]]
  /\ case \in IF "support" \in desks
              THEN {[k \in Cases |-> [NoCase EXCEPT !.owner = s, !.status = "OPEN"]] :
                      s \in Customers}
              ELSE {[k \in Cases |-> NoCase]}
  /\ note \in IF "inbox" \in desks
              THEN {[k \in Boxes |-> n] : n \in {"absent", "unread"}}
              ELSE {[k \in Boxes |-> "absent"]}
  /\ flag \in IF "flags" \in desks THEN FlagRows ELSE {NoFlag}
  /\ task \in IF "task" \in desks THEN TaskStatuses ELSE {"none"}
  /\ finances \in IF "task" \in desks THEN Figures \cup {"none"} ELSE {"none"}
  /\ habit \in IF "habit" \in desks
               THEN {[r \in Readers |-> [NoHabit EXCEPT !.there = TRUE, !.frequency = f]] :
                       f \in Frequencies}
               ELSE {[r \in Readers |-> NoHabit]}
  /\ creator \in IF "group" \in desks THEN Readers ELSE {Nobody}
  /\ members = [r \in Readers |-> IF r = creator THEN 1 ELSE 0]
  /\ overlapped = {}
  /\ held = [c \in Clients |-> FALSE]
  /\ time = 0
  /\ dropped = {}
  /\ crossed = {}
  /\ post = [u \in Readers |-> "none"]
  /\ hour = 0
  /\ promised = {}
  /\ entry = [k \in Keys |-> {}]
  /\ faults = 0
  /\ excused = {}
  /\ today = 1
  /\ log = [u \in Readers |-> NoLog]
  /\ disturbed = {}
  /\ expenses = NoExpenses
  /\ payers = {}
  /\ raced = {}
  /\ SeedInit

Spec == Init /\ [][Next]_vars

-----------------------------------------------------------------------------

\* Whoever a row belongs to has an account.
RowsOwned ==
  /\ \A r \in Requests : {request[r].by, request[r].approver} \subseteq users \cup {Nobody}
  /\ \A u \in Subjects \ users, t \in Types : consent[u][t] = Never
  /\ \A k \in Cases : case[k].owner \in users \cup {Nobody}
  /\ TaskOwner \in users \/ (task = "none" /\ finances = "none")
  /\ \A u \in Readers \ users : habit[u] = NoHabit /\ log[u] = NoLog
  /\ \A u \in Readers \ users : note[u] \in {"absent", "orphan"}
  /\ creator \in users \cup {Nobody}
  /\ payers \subseteq users

\* Types, and the foreign keys to users: a request that read an account before it was
\* deleted writes no row of it afterwards, and no deletion leaves one.
TypeOK ==
  /\ RowsOwned
  /\ users \subseteq Users
  /\ \A c \in Clients : call[c].by \in Users \cup {Nobody}
  /\ calls \in 0 .. MaxCalls
  /\ ApprovalTypeOK
  /\ ConsentTypeOK
  /\ SupportTypeOK
  /\ \A k \in excused : ~Miss(k)
  /\ faults \in 0 .. MaxFaults
  /\ InboxTypeOK
  /\ FlagsTypeOK
  /\ TaskTypeOK
  /\ HabitTypeOK
  /\ GroupTypeOK

\* What is read from the cache is what the rows say, or the reason why not is one of those
\* that ListsExplained, FlagExplained and DashboardExplained name.
CachesExplained == ListsExplained /\ FlagExplained /\ DashboardExplained
=============================================================================
