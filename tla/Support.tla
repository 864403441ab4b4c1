------------------------------ MODULE Support ------------------------------
(***************************************************************************)
(* Support cases (support.service.ts).  A message and the touch of its     *)
(* case, which moves the case to the head of the list, are two statements; *)
(* the times they carry are read from the clock before they are sent.      *)
(***************************************************************************)
EXTENDS Desk

CONSTANTS
  Cases,      \* ids of support cases
  Customers,  \* bound: users that have cases
  MaxTime     \* bound: ticks of the clock

ASSUME CustomersAssumption == Customers \subseteq Users
ASSUME MaxTimeAssumption == MaxTime \in Nat

VARIABLES
  time,     \* the clock of Node and Prisma, which never goes back
  case,     \* the rows; newest is the createdAt of the newest message, or 0
  dropped,  \* history: cases of which a request stopped before its touch
  crossed   \* history: cases of which a write put an older updatedAt over a newer one

NoCase == [owner |-> Nobody, status |-> "ABSENT", newest |-> 0, updated |-> 0]

Statuses == {"OPEN", "IN_PROGRESS", "ESCALATED", "RESOLVED", "CLOSED"}

There(k) == case[k].status # "ABSENT"

\* A request about to send a statement that carries the time of now.
Stamped(at, a, k, as) == [Request(at, a, k, as) EXCEPT !.seen = time]

\* create up to its insert: the user is there.
CreateCase(c, a, u, k) ==
  /\ Admin(a, SupportRoutes, "create")
  /\ u \in users
  /\ ~There(k)
  /\ Begin(c, Stamped("open-case", u, k, Nobody))
  /\ UNCHANGED <<users, time, case, dropped, crossed>>

\* The insert, refused if the user is gone; its id is new.
OpenCase(c) ==
  LET u == call[c].by  k == call[c].of
  IN /\ call[c].at = "open-case"
     /\ case' = IF u \in users /\ ~There(k)
                THEN [case EXCEPT ![k] = [owner |-> u, status |-> "OPEN", newest |-> 0,
                                          updated |-> call[c].seen]]
                ELSE case
     /\ End(c)
     /\ UNCHANGED <<users, time, dropped, crossed>>

\* update, escalate and close up to their write: getById finds the case.
FindCase(c, a, k, route, status) ==
  /\ Admin(a, SupportRoutes, route)
  /\ There(k)
  /\ Begin(c, Stamped("update-case", a, k, status))
  /\ UNCHANGED <<users, time, case, dropped, crossed>>

\* A write of updatedAt, whatever stands there; it fails if the case is gone.  One
\* that is as new as the newest message makes up for those that were late or missing.
Touch(k, stamp, status) ==
  IF There(k)
  THEN /\ case' = [case EXCEPT ![k].updated = stamp, ![k].status = status]
       /\ crossed' = IF stamp >= case[k].newest THEN crossed \ {k}
                     ELSE IF stamp < case[k].updated THEN crossed \cup {k} ELSE crossed
       /\ dropped' = IF stamp >= case[k].newest THEN dropped \ {k} ELSE dropped
  ELSE UNCHANGED <<case, crossed, dropped>>

\* The update, of any status to any other; Prisma sets updatedAt as well.
UpdateCase(c) ==
  /\ call[c].at = "update-case"
  /\ Touch(call[c].of, call[c].seen, call[c].as)
  /\ End(c)
  /\ UNCHANGED <<users, time>>

\* addMessage up to its insert.
FindThread(c, a, k) ==
  /\ Admin(a, SupportRoutes, "addMessage")
  /\ There(k)
  /\ Begin(c, Stamped("insert-message", a, k, Nobody))
  /\ UNCHANGED <<users, time, case, dropped, crossed>>

WithMessage(k, stamp) ==
  [case EXCEPT ![k].newest = IF stamp > @ THEN stamp ELSE @]

\* Mutant: the message is inserted and the case left as it is.
InsertMessageOnly(c) ==
  LET k == call[c].of
  IN /\ call[c].at = "insert-message"
     /\ case' = IF There(k) THEN WithMessage(k, call[c].seen) ELSE case
     /\ End(c)
     /\ UNCHANGED <<users, time, dropped, crossed>>

InsertMessage(c) ==
  LET k == call[c].of
  IN /\ call[c].at = "insert-message"
     /\ IF There(k)
        THEN /\ case' = WithMessage(k, call[c].seen)
             /\ GoSeeing(c, "touch-case", Nobody)
        ELSE End(c) /\ UNCHANGED case
     /\ UNCHANGED <<users, time, dropped, crossed>>

\* new Date(), when the insert has been answered; the update is sent with it ...
StampTouch(c) ==
  /\ call[c].at = "touch-case"
  /\ GoSeeing(c, "write-touch", time)
  /\ UNCHANGED <<users, time, case, dropped, crossed>>

\* ... and arrives later.
TouchCase(c) ==
  /\ call[c].at = "write-touch"
  /\ Touch(call[c].of, call[c].seen, case[call[c].of].status)
  /\ End(c)
  /\ UNCHANGED <<users, time>>

Tick ==
  /\ time < MaxTime
  /\ time' = time + 1
  /\ UNCHANGED <<desk, case, dropped, crossed>>

\* The cases of an account go with it.
CasesDeleted(u) == [k \in Cases |-> IF case[k].owner = u THEN NoCase ELSE case[k]]

SupportNext(c) ==
  \/ \E a \in Users, u \in Customers, k \in Cases : CreateCase(c, a, u, k)
  \/ \E a \in Users, k \in Cases :
       \/ \E status \in Statuses : FindCase(c, a, k, "update", status)
       \/ FindCase(c, a, k, "escalate", "ESCALATED")
       \/ FindCase(c, a, k, "close", "CLOSED")
       \/ FindThread(c, a, k)
  \/ OpenCase(c) \/ UpdateCase(c) \/ InsertMessage(c) \/ StampTouch(c) \/ TouchCase(c)

-----------------------------------------------------------------------------

SupportTypeOK ==
  /\ time \in 0 .. MaxTime
  /\ case \in [Cases -> [owner : Customers \cup {Nobody},
                         status : Statuses \cup {"ABSENT"}, newest : 0 .. time,
                         updated : 0 .. time]]
  /\ dropped \subseteq Cases
  /\ crossed \subseteq Cases

\* c has inserted a message of k and has yet to write a time as new as its newest.
Touching(c, k) ==
  /\ call[c].of = k
  /\ \/ call[c].at = "touch-case"
     \/ call[c].at = "write-touch" /\ call[c].seen >= case[k].newest

\* "touch the case so list ordering reflects the latest activity"
\* (support.service.ts:174): a case whose updatedAt is older than its newest message has
\* a touch to come that is not, unless the request that would make it stopped half-way
\* or a write arrived after one with a newer time; and the next write that is as new as
\* the messages makes up for both.  The clocks of the processes are taken for one.
ListedByActivity ==
  \A k \in Cases :
    case[k].newest > case[k].updated =>
      k \in dropped \/ k \in crossed \/ \E c \in Clients : Touching(c, k)
=============================================================================
