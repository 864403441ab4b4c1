------------------------------- MODULE Group -------------------------------
(***************************************************************************)
(* A group that shares expenses (the groups of finance.service.ts).  Its   *)
(* members are rows that nothing keeps apart, found and inserted in        *)
(* separate statements; anybody may post an expense to it, member or not.  *)
(***************************************************************************)
EXTENDS Inbox, FiniteSetsExt

CONSTANT MaxExpenses   \* bound: expenses of one user in the group

ASSUME MaxExpensesAssumption == MaxExpenses \in Nat
ASSUME FiniteAssumption == IsFiniteSet(Readers)

VARIABLES
  creator,    \* of the group, or Nobody before it exists and after
  members,    \* by user: how many member rows the group has of him
  expenses,   \* by payer: approved expenses of one unit each
  payers,     \* users with a transaction, in the group or in one that is gone
  raced       \* history: users whom two requests were adding at once

groupVars == <<creator, members, expenses, payers, raced>>

Created == creator # Nobody
NoRows == [u \in Readers |-> 0]

NoExpenses == [u \in Readers |-> 0]

\* assertGroupAccess
Access(u) == Created /\ (creator = u \/ members[u] > 0)

\* Request d is about to add u.
Adding(d, u) ==
  \/ call[d].at \in {"find-member", "insert-member"} /\ call[d].as = u
  \/ call[d].at \in {"insert-group", "insert-founders"} /\ u \in call[d].seen.left

Race(c, U) ==
  raced' = raced \cup {u \in U : \E d \in Clients \ {c} : Adding(d, u)}

\* createGroup finds its creator; U are the users asked for, himself added.
CreateGroup(c, u, U) ==
  /\ u \in users
  /\ ~Created
  /\ \A d \in Clients : call[d].of # "group"   \* bound: one group
  /\ Begin(c, [Request("insert-group", u, "group", Nobody)
                 EXCEPT !.seen = [all |-> U \cup {u}, left |-> U \cup {u}]])
  /\ UNCHANGED <<users, redis, inboxVars, groupVars>>

\* Refused when the account is gone.
InsertGroup(c) ==
  LET u == call[c].by
  IN /\ call[c].at = "insert-group"
     /\ IF u \in users
        THEN /\ creator' = u
             /\ Go(c, [call[c] EXCEPT !.at = "insert-founders"])
        ELSE End(c) /\ UNCHANGED creator
     /\ UNCHANGED <<users, redis, inboxVars, members, expenses, payers, raced>>

\* Each member is found and inserted by a promise of its own.  One that is not found
\* rejects the call, and neither stops the others nor takes the group back.
InsertFounder(c, u) ==
  /\ call[c].at = "insert-founders"
  /\ u \in call[c].seen.left
  /\ members' = IF u \in users /\ Created THEN [members EXCEPT ![u] = @ + 1] ELSE members
  /\ Go(c, [call[c] EXCEPT !.seen.left = @ \ {u},
                           !.as = IF u \in users /\ Created THEN @ ELSE "rejected"])
  /\ UNCHANGED <<users, redis, inboxVars, creator, expenses, payers, raced>>

\* Only a call that added everybody tells them, if they want messages about groups.
FinishGroup(c) ==
  /\ call[c].at = "insert-founders"
  /\ call[c].seen.left = {}
  /\ IF call[c].as = "rejected" THEN UNCHANGED inboxVars
     ELSE NotifyWilling(call[c].seen.all)
  /\ End(c)
  /\ UNCHANGED <<users, redis, groupVars>>

\* addGroupMember reads the group with its members.
ReadGroup(c, a, u) ==
  /\ a \in users
  /\ Access(a)
  /\ Begin(c, [Request("find-member", a, "group", u)
                 EXCEPT !.seen = {v \in Readers : members[v] > 0}])
  /\ Race(c, {u})
  /\ UNCHANGED <<users, redis, inboxVars, creator, members, expenses, payers>>

\* Mutant: whoever is found is added.
FindMemberAgain(c) ==
  /\ call[c].at = "find-member"
  /\ IF call[c].as \in users THEN GoSeeing(c, "insert-member", Nobody) ELSE End(c)
  /\ UNCHANGED <<users, redis, inboxVars, groupVars>>

\* The user is there and was not a member when the group was read.
FindMember(c) ==
  /\ call[c].at = "find-member"
  /\ IF call[c].as \in users \ call[c].seen
     THEN GoSeeing(c, "insert-member", Nobody)
     ELSE End(c)
  /\ UNCHANGED <<users, redis, inboxVars, groupVars>>

\* Refused when the group is gone; not when the account is.
InsertMember(c) ==
  LET u == call[c].as
  IN /\ call[c].at = "insert-member"
     /\ IF Created
        THEN members' = [members EXCEPT ![u] = @ + 1] /\ NotifyWilling({u})
        ELSE UNCHANGED <<members, inboxVars>>
     /\ End(c)
     /\ UNCHANGED <<users, redis, creator, expenses, payers, raced>>

\* removeGroupMember and deleteGroup, up to the delete.
FindOwnGroup(c, a, next, u) ==
  /\ a \in users
  /\ creator = a
  /\ u # Nobody => members[u] > 0
  /\ Begin(c, Request(next, a, "group", u))
  /\ UNCHANGED <<users, redis, inboxVars, groupVars>>

\* One row goes; the user's expenses stay.
DeleteMember(c) ==
  LET u == call[c].as
  IN /\ call[c].at = "delete-member"
     /\ IF members[u] > 0
        THEN members' = [members EXCEPT ![u] = @ - 1] /\ NotifyWilling({u})
        ELSE UNCHANGED <<members, inboxVars>>
     /\ End(c)
     /\ UNCHANGED <<users, redis, creator, expenses, payers, raced>>

\* The members go with the group, and its transactions belong to none.
DeleteGroup(c) ==
  /\ call[c].at = "delete-group"
  /\ creator' = Nobody
  /\ members' = NoRows
  /\ expenses' = NoExpenses
  /\ End(c)
  /\ UNCHANGED <<users, redis, inboxVars, payers, raced>>

\* updateGroup changes the name, which is not modelled, and tells the members.
RenameGroup(c, a) ==
  /\ Once(c)
  /\ a \in users
  /\ creator = a
  /\ NotifyWilling({u \in Readers : members[u] > 0})
  /\ UNCHANGED <<users, redis, groupVars>>

\* createTransaction, of an expense in the group: that the user is a member is not
\* asked.  settleGroup adds an income, which balances do not count.  What either does to
\* the dashboard is in Task.
PayExpense(c, u) ==
  /\ Once(c)
  /\ u \in users
  /\ Created
  /\ expenses[u] < MaxExpenses
  /\ expenses' = [expenses EXCEPT ![u] = @ + 1]
  /\ payers' = payers \cup {u}
  /\ UNCHANGED <<users, redis, inboxVars, creator, members, raced>>

\* Group.createdBy keeps its creator's account, and a transaction its payer's; a member
\* row does not keep the member's, and stays.
Founder(u) == creator = u

GroupNext(c) ==
  \/ \E u \in Readers :
       \/ \E U \in SUBSET Readers : CreateGroup(c, u, U)
       \/ \E v \in Readers : ReadGroup(c, u, v) \/ FindOwnGroup(c, u, "delete-member", v)
       \/ FindOwnGroup(c, u, "delete-group", Nobody)
       \/ InsertFounder(c, u) \/ RenameGroup(c, u) \/ PayExpense(c, u)
  \/ InsertGroup(c) \/ FinishGroup(c) \/ FindMember(c) \/ InsertMember(c)
  \/ DeleteMember(c) \/ DeleteGroup(c)

-----------------------------------------------------------------------------

GroupTypeOK ==
  /\ creator \in Readers \cup {Nobody}
  /\ members \in [Readers -> Nat]
  /\ expenses \in [Readers -> Nat]
  /\ \A u \in Readers : expenses[u] > 0 => u \in payers
  /\ raced \subseteq Readers
  /\ ~Created => members = NoRows /\ expenses = NoExpenses

Rows == MapThenSumSet(LAMBDA u : members[u], Readers)

\* getGroupBalances, before it rounds to cents and times the number of rows, of which
\* an expense is divided into as many shares.  A payer is credited once, when he is
\* a member, and everybody else charged once for each row.
Net(u) ==
  LET credit == IF expenses[u] > 0 THEN expenses[u] * (Rows - 1) ELSE 0
      charged(p) == IF p = u THEN 0 ELSE expenses[p] * members[u]
  IN credit - MapThenSumSet(charged, Readers)

Members == {u \in Readers : members[u] > 0}

\* What some members are owed is what the others owe (getGroupBalances), while
\* members come and go, accounts are deleted and expenses are paid.  It is not so only
\* when somebody paid who is no member, or when two requests added one user at once.
DebtsMatchCredits ==
  \/ MapThenSumSet(Net, Members) = 0
  \/ \E u \in Readers \ Members : expenses[u] > 0
  \/ \E u \in raced : members[u] > 1
=============================================================================
