------------------------------ MODULE Approval ------------------------------
(***************************************************************************)
(* Requests for sensitive operations and the decision on them              *)
(* (approval.service.ts): a decision checks the row it read and then       *)
(* updates the row by its id alone.                                        *)
(***************************************************************************)
EXTENDS Desk

CONSTANT Requests   \* ids of approval requests

VARIABLES
  request,    \* the rows
  overlapped  \* history: requests that two decisions were under way on at once

Absent == [status |-> "ABSENT", by |-> Nobody, approver |-> Nobody, late |-> FALSE]

Pending(u) == [Absent EXCEPT !.status = "PENDING", !.by = u]

Deciding == {"approve", "reject", "expire"}
Decided == {"APPROVED", "REJECTED", "EXPIRED"}

\* A decision that has read the row joins those that have not written yet.
Join(c, r) ==
  overlapped' = IF \E d \in Clients \ {c} : call[d].at \in Deciding /\ call[d].of = r
                THEN overlapped \cup {r} ELSE overlapped

\* createRequest, which no route calls yet.  The requester must exist.
CreateRequest(c, u, r) ==
  /\ Once(c)
  /\ u \in users
  /\ request[r] = Absent
  /\ request' = [request EXCEPT ![r] = Pending(u)]
  /\ UNCHANGED <<users, overlapped>>

\* expiresAt passes.
Lapse(r) ==
  /\ request[r] # Absent
  /\ ~request[r].late
  /\ request' = [request EXCEPT ![r].late = TRUE]
  /\ UNCHANGED <<desk, overlapped>>

\* Mutant: whoever asked may approve.
FindToApproveOwn(c, u, r) ==
  /\ Admin(u, ApprovalRoutes, "approveRequest")
  /\ request[r].status = "PENDING"
  /\ Begin(c, Request(IF request[r].late THEN "expire" ELSE "approve", u, r, Nobody))
  /\ Join(c, r)
  /\ UNCHANGED <<users, request>>

\* approveRequest up to its update: the request is pending, and is the user's
\* own only if it has expired.  An expired one is marked so, whoever asks.
FindToApprove(c, u, r) ==
  /\ Admin(u, ApprovalRoutes, "approveRequest")
  /\ request[r].status = "PENDING"
  /\ \/ /\ request[r].late
        /\ Begin(c, Request("expire", u, r, Nobody))
     \/ /\ ~request[r].late
        /\ request[r].by # u
        /\ Begin(c, Request("approve", u, r, Nobody))
  /\ Join(c, r)
  /\ UNCHANGED <<users, request>>

MarkExpired(c) ==
  /\ call[c].at = "expire"
  /\ request' = [request EXCEPT ![call[c].of].status = "EXPIRED"]
  /\ End(c)
  /\ UNCHANGED <<users, overlapped>>

\* The update fails when the approver's account is gone.
Decide(c, at, status) ==
  LET u == call[c].by
  IN /\ call[c].at = at
     /\ request' = IF u \in users
                   THEN [request EXCEPT ![call[c].of].status = status,
                                        ![call[c].of].approver = u]
                   ELSE request
     /\ End(c)
     /\ UNCHANGED <<users, overlapped>>

Approve(c) == Decide(c, "approve", "APPROVED")

\* Mutant: a request that was decided can still be rejected.
FindToRejectAny(c, u, r) ==
  /\ Admin(u, ApprovalRoutes, "rejectRequest")
  /\ request[r].status # "ABSENT"
  /\ Begin(c, Request("reject", u, r, Nobody))
  /\ Join(c, r)
  /\ UNCHANGED <<users, request>>

\* rejectRequest up to its update; one's own and expired requests too.
FindToReject(c, u, r) ==
  /\ Admin(u, ApprovalRoutes, "rejectRequest")
  /\ request[r].status = "PENDING"
  /\ Begin(c, Request("reject", u, r, Nobody))
  /\ Join(c, r)
  /\ UNCHANGED <<users, request>>

Reject(c) == Decide(c, "reject", "REJECTED")

\* Mutant: a request that was decided keeps nobody.
RequesterPending(u) == \E r \in Requests : request[r].by = u /\ request[r].status = "PENDING"

\* requestedById keeps an account from being deleted, approvedById is cleared.
Requester(u) == \E r \in Requests : request[r].by = u

ApproverCleared(u) ==
  [r \in Requests |-> IF request[r].approver = u THEN [request[r] EXCEPT !.approver = Nobody]
                      ELSE request[r]]

ApprovalNext(c) ==
  \/ \E u \in Users, r \in Requests :
       CreateRequest(c, u, r) \/ FindToApprove(c, u, r) \/ FindToReject(c, u, r)
  \/ MarkExpired(c) \/ Approve(c) \/ Reject(c)

-----------------------------------------------------------------------------

ApprovalTypeOK ==
  /\ request \in [Requests -> [status : Decided \cup {"ABSENT", "PENDING"},
                               by : Users \cup {Nobody},
                               approver : Users \cup {Nobody}, late : BOOLEAN]]
  /\ overlapped \subseteq Requests

\* "Enforces separation of duties: requester cannot approve their own request"
\* (approval.service.ts:17), however approvals, rejections (which anybody may do)
\* and expiries of one request overlap, and accounts come to an end.
SeparationOfDuties ==
  \A r \in Requests : request[r].status = "APPROVED" => request[r].approver # request[r].by

\* "Request is already ..." (approval.service.ts:87, :158): a decision is changed by
\* a later one only when the two overlapped, both having read PENDING.
DecisionsStand ==
  [][\A r \in Requests :
       /\ request[r].status \in Decided
       /\ request'[r].status # request[r].status
       => r \in overlapped]_request
=============================================================================
