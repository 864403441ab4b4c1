----------------------------- MODULE AuditChain -----------------------------
(***************************************************************************)
(* The audit log and its checksum chain: AuditService.log (in the file     *)
(* audit.service.ts), AuditLogService.create (audit-log.service.ts, called *)
(* by the interceptor after every mutating request) and                    *)
(* RbacService.writeAuditEvent (rbac.service.ts).  Each reads the newest   *)
(* row's checksum, hashes its own entry together with it, and inserts a    *)
(* row: two database round trips that other writers interleave with.       *)
(* verifyEntry and verifyChain hash the stored rows again.                 *)
(*                                                                         *)
(* SHA-256 is ideal: a checksum IS the text that was hashed.  Of that text *)
(* the model keeps what can differ between writing and verifying: which    *)
(* fields it lists, the actor, the order of the metadata's keys, and the   *)
(* previous checksum.                                                      *)
(***************************************************************************)
EXTENDS Integers, FiniteSets

CONSTANTS
  Clients,      \* requests that write audit entries
  Actors,       \* users that entries name
  MaxLogs,      \* bound: createdAt stamps handed out
  Nobody        \* SQL NULL in actorId

ASSUME MaxLogsAssumption == MaxLogs \in Nat
ASSUME NobodyAssumption == Nobody \notin Actors

VARIABLES
  log,          \* log[i]: the visible row of audit_logs with createdAt i
  clock,        \* the last createdAt handed out
  users,        \* rows of the users table
  pc,           \* pc[c]: the round trip the writer of c is at
  draft         \* draft[c]: the row that c is about to insert, its stamp

vars == <<log, clock, users, pc, draft>>

Stamps == 1..MaxLogs

\* The fields each writer hashes: AuditService all of them, AuditLogService
\* without result, RbacService without result and actorRole.
Shapes == {"service", "interceptor", "rbac"}

\* jsonb keeps the keys of an object in an order of its own, and an optional
\* field that was undefined comes back null: the text hashed at write is
\* either the one a stored row gives back, or it is not.
Orders == {"stored", "other"}

Text(shape, actor, order, prev) ==
  [shape |-> shape, actor |-> actor, order |-> order, prev |-> prev]

\* SQL NULL in previousChecksum.
NoText == [shape |-> "null"]

Row(actor, checksum, prev) == [actor |-> actor, checksum |-> checksum, prev |-> prev]

NoRow == Row(Nobody, NoText, NoText)
NoDraft == [stamp |-> 0, row |-> NoRow]

Visible == {i \in Stamps : log[i].checksum # NoText}

Init ==
  /\ log = [i \in Stamps |-> NoRow]
  /\ clock = 0
  /\ users = Actors
  /\ pc = [c \in Clients |-> "idle"]
  /\ draft = [c \in Clients |-> NoDraft]

-----------------------------------------------------------------------------

Newest == CHOOSE i \in Visible : \A j \in Visible : j <= i

\* Mutant: the checksum of an entry still being inserted is handed on.
PreviousInMemory ==
  IF \E d \in Clients : pc[d] # "idle"
  THEN draft[CHOOSE d \in Clients : pc[d] # "idle"].row.checksum
  ELSE IF Visible = {} THEN NoText ELSE log[Newest].checksum

\* findFirst by createdAt desc: the newest visible row's checksum.
PreviousChecksum == IF Visible = {} THEN NoText ELSE log[Newest].checksum

\* The first round trip and the checksum, of any of the three writers; without
\* an actor AuditService hashes no actorId and stores NULL.
\* Bound: an entry is begun only while a stamp is left for it and for every
\* entry begun before.
ReadPrevious(c, shape, actor, order) ==
  /\ pc[c] = "idle"
  /\ shape = "service" /\ actor = Nobody => order = "other"
  /\ clock + Cardinality({d \in Clients : pc[d] = "insert"}) < MaxLogs
  /\ draft' = [draft EXCEPT ![c] =
       [stamp |-> 0,
        row |-> Row(actor, Text(shape, actor, order, PreviousChecksum), PreviousChecksum)]]
  /\ pc' = [pc EXCEPT ![c] = "insert"]
  /\ UNCHANGED <<log, clock, users>>

\* auditLog.create is sent: the row gets its createdAt, and is not visible yet.
Stamp(c) ==
  /\ pc[c] = "insert"
  /\ clock < MaxLogs
  /\ clock' = clock + 1
  /\ draft' = [draft EXCEPT ![c].stamp = clock + 1]
  /\ pc' = [pc EXCEPT ![c] = "commit"]
  /\ UNCHANGED <<log, users>>

Finish(c) ==
  /\ pc' = [pc EXCEPT ![c] = "idle"]
  /\ draft' = [draft EXCEPT ![c] = NoDraft]

\* The insert commits; actorId must still name a user.
Append(c) ==
  /\ pc[c] = "commit"
  /\ draft[c].row.actor \in users \cup {Nobody}
  /\ log' = [log EXCEPT ![draft[c].stamp] = draft[c].row]
  /\ Finish(c)
  /\ UNCHANGED <<clock, users>>

\* "Audit logging must never crash the application": any error, a violated
\* foreign key included, is swallowed, and the entry is lost.
Swallow(c) ==
  /\ pc[c] # "idle"
  /\ Finish(c)
  /\ UNCHANGED <<log, clock, users>>

\* Mutant: the foreign key is not there.
DeleteUserOnly(a) ==
  /\ a \in users
  /\ users' = users \ {a}
  /\ UNCHANGED <<log, clock, pc, draft>>

\* AdminService.deleteUser and deleteAdmin: audit_logs.actorId is ON DELETE
\* SET NULL, so the user's rows lose their actor.
DeleteUser(a) ==
  /\ a \in users
  /\ users' = users \ {a}
  /\ log' = [i \in Stamps |->
       IF log[i].actor = a THEN [log[i] EXCEPT !.actor = Nobody] ELSE log[i]]
  /\ UNCHANGED <<clock, pc, draft>>

\* A request has been answered, or has failed, and its entry is written, which nobody
\* waits for: the interceptor, and the services that log for themselves.
Intercept(c) ==
  \E shape \in Shapes, actor \in users \cup {Nobody}, order \in Orders :
    ReadPrevious(c, shape, actor, order)

Next ==
  \/ \E c \in Clients :
       \/ Intercept(c) \/ Stamp(c) \/ Append(c) \/ Swallow(c)
  \/ \E a \in Actors : DeleteUser(a)

Spec == Init /\ [][Next]_vars

-----------------------------------------------------------------------------
(* verifyEntry and verifyChain.                                            *)

\* verifyEntry: the stored row, hashed as AuditService.log hashes an entry.
VerifyEntry(i) == log[i].checksum = Text("service", log[i].actor, "stored", log[i].prev)

\* Mutant: the rows are read newest first.
PrecedesDescending(j, i) == j > i /\ \A k \in Visible : k <= i \/ k >= j

\* Visible row j comes just before i in createdAt order.
Precedes(j, i) == j < i /\ \A k \in Visible : k <= j \/ k >= i

LinkedToPrevious(i) ==
  IF \E j \in Visible : Precedes(j, i)
  THEN \E j \in Visible : Precedes(j, i) /\ log[i].prev = log[j].checksum
  ELSE log[i].prev = NoText

\* Mutant: only the newest row is looked at.
VerifyNewest == \A i \in Visible : i = Newest => LinkedToPrevious(i) /\ VerifyEntry(i)

\* verifyChain's loop: stops at the first row that is not linked or not intact.
VerifyChain == \A i \in Visible : LinkedToPrevious(i) /\ VerifyEntry(i)

-----------------------------------------------------------------------------
(* Properties.                                                             *)

Steps == {"idle", "insert", "commit"}

\* Types, and the foreign key: a row's actor is a user or NULL.
TypeOK ==
  /\ clock \in 0..MaxLogs
  /\ users \subseteq Actors
  /\ DOMAIN log = Stamps
  /\ pc \in [Clients -> Steps]
  /\ \A i \in Visible : i <= clock
  /\ \A i \in Stamps : log[i].actor \in users \cup {Nobody}
  /\ \A c \in Clients : draft[c].stamp \in 0..clock

\* "Each entry's checksum chains to the previous, forming an integrity chain":
\* with overlapping writers and lost writes the rows still form a forest in
\* time order - every previousChecksum is NULL or the checksum of an older
\* row, so no row is chained to one that was never stored.
Rooted ==
  \A i \in Visible :
    log[i].prev # NoText => \E j \in Visible : j < i /\ log[i].prev = log[j].checksum

\* No two rows were chained to the same one, and one row has none.
Unforked == \A i, j \in Visible : log[i].prev = log[j].prev => i = j

\* verifyChain reports a break only for a cause: if every row passes
\* verifyEntry and no two overlapping writers read the same predecessor, the
\* whole chain is valid, whatever entries were lost in between.
BreaksHaveACause == Unforked /\ (\A i \in Visible : VerifyEntry(i)) => VerifyChain

\* A chain that verifyChain has found broken is never found valid again: no
\* later entry, late commit or deletion hides the break.
BreaksStay == [][~VerifyChain => ~VerifyChain']_vars

\* verifyEntry "returns true if the checksum is valid and unaltered".  Not so:
\* entries of two of the writers, entries whose metadata jsonb reorders, and
\* entries of deleted users never verify.
UnalteredEntriesVerify == \A i \in Visible : VerifyEntry(i)
=============================================================================
