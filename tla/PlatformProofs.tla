--------------------------- MODULE PlatformProofs ---------------------------
(***************************************************************************)
(* Proofs about Platform, for any number of requests, accounts, rows and   *)
(* days, any policies and any templates of the script.                     *)
(*                                                                         *)
(* Each service has an invariant of its own, over its rows and the         *)
(* requests at its stages.  A step of one service keeps its own (lemmas    *)
(* ...Step) and moves only requests at its stages, which are apart from    *)
(* the others', so it keeps theirs (...Kept).  A request that stops and    *)
(* the deletion of an account touch several services, and are shown to     *)
(* keep each (...Stopped and ...Deleted).                                  *)
(***************************************************************************)
EXTENDS Platform, SequenceTheorems, FiniteSetTheorems, WellFoundedInduction, TLAPS

-----------------------------------------------------------------------------
(* Requests.                                                               *)

\* A request has five fields, whatever they hold.
IsCall(r) == r = [at |-> r.at, by |-> r.by, of |-> r.of, as |-> r.as, seen |-> r.seen]

Calls ==
  /\ call = [c \in Clients |-> call[c]]
  /\ \A c \in Clients : IsCall(call[c]) /\ call[c].by \in Users \cup {Nobody}
  /\ calls \in 0 .. MaxCalls
  /\ users \subseteq Users

\* A step of one service: whoever moves comes from there, or from nowhere, and stays there.
Within(T) ==
  \A d \in Clients : call'[d] = call[d] \/ {call[d].at, call'[d].at} \subseteq T \cup {"idle"}

\* A step at which nobody arrives at a stage of a service.
Fewer(S) == \A d \in Clients : call'[d].at \in S => call'[d] = call[d]

\* Only c moves, and becomes r.
Turns(c, r) == call'[c] = r /\ \A d \in Clients \ {c} : call'[d] = call[d]

LEMMA Apart ==
  ASSUME NEW S, NEW T, Within(T), S \cap T = {}, "idle" \notin S
  PROVE  Fewer(S)
BY DEF Within, Fewer

\* A record with one field replaced, and the updates of a request that the services make.
LEMMA Replaced ==
  ASSUME NEW r, IsCall(r), NEW x
  PROVE  /\ [r EXCEPT !.at = x] = [at |-> x, by |-> r.by, of |-> r.of, as |-> r.as, seen |-> r.seen]
         /\ [r EXCEPT !.by = x] = [at |-> r.at, by |-> x, of |-> r.of, as |-> r.as, seen |-> r.seen]
         /\ [r EXCEPT !.of = x] = [at |-> r.at, by |-> r.by, of |-> x, as |-> r.as, seen |-> r.seen]
         /\ [r EXCEPT !.as = x] = [at |-> r.at, by |-> r.by, of |-> r.of, as |-> x, seen |-> r.seen]
         /\ [r EXCEPT !.seen = x] = [at |-> r.at, by |-> r.by, of |-> r.of, as |-> r.as, seen |-> x]
<1>1. r \in [at : {r.at}, by : {r.by}, of : {r.of}, as : {r.as}, seen : {r.seen}]
  BY DEF IsCall
<1> QED
  BY <1>1

\* A record of known fields.
Is(r, at, by, of, as, seen) ==
  IsCall(r) /\ r.at = at /\ r.by = by /\ r.of = of /\ r.as = as /\ r.seen = seen

LEMMA IsRecord ==
  ASSUME NEW at, NEW by, NEW of, NEW as, NEW seen, NEW q,
         q = [at |-> at, by |-> by, of |-> of, as |-> as, seen |-> seen]
  PROVE  Is(q, at, by, of, as, seen)
BY DEF Is, IsCall

LEMMA ReplacedIn ==
  ASSUME NEW at, NEW by, NEW of, NEW as, NEW seen, NEW r, Is(r, at, by, of, as, seen), NEW x
  PROVE  /\ Is([r EXCEPT !.at = x], x, by, of, as, seen)
         /\ Is([r EXCEPT !.by = x], at, x, of, as, seen)
         /\ Is([r EXCEPT !.of = x], at, by, x, as, seen)
         /\ Is([r EXCEPT !.as = x], at, by, of, x, seen)
         /\ Is([r EXCEPT !.seen = x], at, by, of, as, x)
<1>1. IsCall(r) /\ r.at = at /\ r.by = by /\ r.of = of /\ r.as = as /\ r.seen = seen
  BY DEF Is
<1>2. /\ [r EXCEPT !.at = x] = [at |-> x, by |-> by, of |-> of, as |-> as, seen |-> seen]
      /\ [r EXCEPT !.by = x] = [at |-> at, by |-> x, of |-> of, as |-> as, seen |-> seen]
      /\ [r EXCEPT !.of = x] = [at |-> at, by |-> by, of |-> x, as |-> as, seen |-> seen]
      /\ [r EXCEPT !.as = x] = [at |-> at, by |-> by, of |-> of, as |-> x, seen |-> seen]
      /\ [r EXCEPT !.seen = x] = [at |-> at, by |-> by, of |-> of, as |-> as, seen |-> x]
  BY <1>1, Replaced, Zenon
<1>3. Is([r EXCEPT !.at = x], x, by, of, as, seen)
  BY <1>2, IsRecord, Zenon
<1>4. Is([r EXCEPT !.by = x], at, x, of, as, seen)
  BY <1>2, IsRecord, Zenon
<1>5. Is([r EXCEPT !.of = x], at, by, x, as, seen)
  BY <1>2, IsRecord, Zenon
<1>6. Is([r EXCEPT !.as = x], at, by, of, x, seen)
  BY <1>2, IsRecord, Zenon
<1>7. Is([r EXCEPT !.seen = x], at, by, of, as, x)
  BY <1>2, IsRecord, Zenon
<1> QED
  BY <1>3, <1>4, <1>5, <1>6, <1>7

LEMMA RequestIs ==
  ASSUME NEW at, NEW by, NEW of, NEW as
  PROVE  Is(Request(at, by, of, as), at, by, of, as, Nobody)
<1>1. PICK r1 : r1 = [NoCall EXCEPT !.at = at]
  OBVIOUS
<1>2. PICK r2 : r2 = [r1 EXCEPT !.by = by]
  OBVIOUS
<1>3. PICK r3 : r3 = [r2 EXCEPT !.of = of]
  OBVIOUS
<1>4. PICK r4 : r4 = [r3 EXCEPT !.as = as]
  OBVIOUS
<1>4a. Request(at, by, of, as) = r4
  BY <1>1, <1>2, <1>3, <1>4, Zenon DEF Request
<1>5. Is(NoCall, "idle", Nobody, Nobody, Nobody, Nobody)
  BY IsRecord, Zenon DEF NoCall
<1>6. Is(r1, at, Nobody, Nobody, Nobody, Nobody)
  BY <1>1, <1>5, ReplacedIn, Zenon
<1>7. Is(r2, at, by, Nobody, Nobody, Nobody)
  BY <1>2, <1>6, ReplacedIn, Zenon
<1>8. Is(r3, at, by, of, Nobody, Nobody)
  BY <1>3, <1>7, ReplacedIn, Zenon
<1>9. Is(r4, at, by, of, as, Nobody)
  BY <1>4, <1>8, ReplacedIn, Zenon
<1> QED
  BY <1>4a, <1>9

LEMMA RequestSeeing ==
  ASSUME NEW at, NEW by, NEW of, NEW as, NEW x
  PROVE  Is([Request(at, by, of, as) EXCEPT !.seen = x], at, by, of, as, x)
BY RequestIs, ReplacedIn, Zenon

\* The updates of a request that the services make.
LEMMA Fields ==
  ASSUME NEW r, IsCall(r), NEW x, NEW y
  PROVE  /\ Is([r EXCEPT !.at = x], x, r.by, r.of, r.as, r.seen)
         /\ Is([r EXCEPT !.at = x, !.as = y], x, r.by, r.of, y, r.seen)
         /\ Is([r EXCEPT !.at = x, !.seen = y], x, r.by, r.of, r.as, y)
<1>1. Is(r, r.at, r.by, r.of, r.as, r.seen)
  BY DEF Is
<1>2. Is([r EXCEPT !.at = x], x, r.by, r.of, r.as, r.seen)
  BY <1>1, ReplacedIn, Zenon
<1>3. /\ [r EXCEPT !.at = x, !.as = y] = [[r EXCEPT !.at = x] EXCEPT !.as = y]
      /\ [r EXCEPT !.at = x, !.seen = y] = [[r EXCEPT !.at = x] EXCEPT !.seen = y]
  BY Zenon
<1> QED
  BY <1>2, <1>3, ReplacedIn, Zenon

LEMMA Turned ==
  ASSUME Calls, users' = users, NEW c \in Clients, NEW r, IsCall(r), r.by \in Users \cup {Nobody},
         call' = [call EXCEPT ![c] = r], calls' \in 0 .. MaxCalls
  PROVE  Calls' /\ Turns(c, r)
<1>1. Turns(c, r)
  BY DEF Calls, Turns
<1>2. call' = [d \in Clients |-> call'[d]]
  BY DEF Calls
<1>3. \A d \in Clients : IsCall(call'[d]) /\ call'[d].by \in Users \cup {Nobody}
  BY <1>1 DEF Calls, Turns
<1>4. Calls'
  <2>1. \A d \in Clients : IsCall(call'[d]) <=> IsCall(call[d])'
    BY DEF IsCall
  <2> QED
    BY <1>2, <1>3, <2>1 DEF Calls
<1> QED
  BY <1>1, <1>4

LEMMA Begun ==
  ASSUME Calls, users' = users, NEW c \in Clients, NEW r, IsCall(r), r.by \in Users \cup {Nobody},
         Begin(c, r)
  PROVE  call[c].at = "idle" /\ Calls' /\ Turns(c, r)
<1>1. call[c].at = "idle" /\ call' = [call EXCEPT ![c] = r] /\ calls' \in 0 .. MaxCalls
  BY MaxCallsAssumption DEF Begin, Calls
<1> QED
  BY <1>1, Turned

LEMMA Gone ==
  ASSUME Calls, users' = users, NEW c \in Clients, NEW r, IsCall(r), r.by \in Users \cup {Nobody},
         Go(c, r)
  PROVE  Calls' /\ Turns(c, r)
<1>1. call' = [call EXCEPT ![c] = r] /\ calls' \in 0 .. MaxCalls
  BY DEF Go, Calls
<1> QED
  BY <1>1, Turned

LEMMA Onced ==
  ASSUME Calls, users' = users, NEW c \in Clients, Once(c)
  PROVE  call' = call /\ Calls'
<1>1. call' = call /\ calls' \in 0 .. MaxCalls
  BY MaxCallsAssumption DEF Once, Calls
<1> QED
  BY <1>1 DEF Calls, IsCall

\* The forms in which services use them.
LEMMA BeginsRequest ==
  ASSUME Calls, users' = users, NEW c \in Clients,
         NEW at, NEW by \in Users \cup {Nobody}, NEW of, NEW as,
         Begin(c, Request(at, by, of, as))
  PROVE  /\ call[c].at = "idle"
         /\ Calls'
         /\ Turns(c, call'[c])
         /\ Is(call'[c], at, by, of, as, Nobody)
<1>1. PICK r : r = Request(at, by, of, as)
  OBVIOUS
<1>2. Is(r, at, by, of, as, Nobody) /\ Begin(c, r)
  BY <1>1, RequestIs, Zenon
<1>3. IsCall(r) /\ r.by = by
  BY <1>2 DEF Is
<1>4. call[c].at = "idle" /\ Calls' /\ Turns(c, r)
  BY <1>2, <1>3, Begun
<1>5. call'[c] = r
  BY <1>4 DEF Turns
<1> QED
  BY <1>2, <1>4, <1>5

LEMMA BeginsSeeing ==
  ASSUME Calls, users' = users, NEW c \in Clients,
         NEW at, NEW by \in Users \cup {Nobody}, NEW of, NEW as, NEW x,
         Begin(c, [Request(at, by, of, as) EXCEPT !.seen = x])
  PROVE  /\ call[c].at = "idle"
         /\ Calls'
         /\ Turns(c, call'[c])
         /\ Is(call'[c], at, by, of, as, x)
<1>1. PICK r : r = [Request(at, by, of, as) EXCEPT !.seen = x]
  OBVIOUS
<1>2. Is(r, at, by, of, as, x) /\ Begin(c, r)
  BY <1>1, RequestSeeing, Zenon
<1>3. IsCall(r) /\ r.by = by
  BY <1>2 DEF Is
<1>4. call[c].at = "idle" /\ Calls' /\ Turns(c, r)
  BY <1>2, <1>3, Begun
<1>5. call'[c] = r
  BY <1>4 DEF Turns
<1> QED
  BY <1>2, <1>4, <1>5

LEMMA Ends ==
  ASSUME Calls, users' = users, NEW c \in Clients, End(c)
  PROVE  /\ Calls'
         /\ Turns(c, call'[c])
         /\ Is(call'[c], "idle", Nobody, Nobody, Nobody, Nobody)
<1>1. Is(NoCall, "idle", Nobody, Nobody, Nobody, Nobody)
  BY IsRecord, Zenon DEF NoCall
<1>2. IsCall(NoCall) /\ NoCall.by = Nobody
  BY <1>1 DEF Is
<1>3. Calls' /\ Turns(c, NoCall)
  BY <1>2, Gone DEF End
<1>4. call'[c] = NoCall
  BY <1>3 DEF Turns
<1> QED
  BY <1>1, <1>3, <1>4

LEMMA GoesTo ==
  ASSUME Calls, users' = users, NEW c \in Clients, NEW x, NEW y,
         \/ Go(c, [call[c] EXCEPT !.at = x]) /\ y = call[c].as
         \/ Go(c, [call[c] EXCEPT !.at = x, !.as = y])
  PROVE  /\ Calls'
         /\ Turns(c, call'[c])
         /\ Is(call'[c], x, call[c].by, call[c].of, y, call[c].seen)
<1>1. PICK s : s = call[c]
  OBVIOUS
<1>2. IsCall(s) /\ s.by \in Users \cup {Nobody}
  BY <1>1 DEF Calls
<1>3. \/ Go(c, [s EXCEPT !.at = x]) /\ y = s.as
      \/ Go(c, [s EXCEPT !.at = x, !.as = y])
  BY <1>1, Zenon
<1>4. PICK r : Go(c, r) /\ Is(r, x, s.by, s.of, y, s.seen)
  BY <1>2, <1>3, Fields, Zenon
<1>5. IsCall(r) /\ r.by = s.by
  BY <1>4 DEF Is
<1>6. Calls' /\ Turns(c, r)
  BY <1>2, <1>4, <1>5, Gone
<1>7. call'[c] = r
  BY <1>6 DEF Turns
<1> QED
  BY <1>1, <1>4, <1>6, <1>7

LEMMA GoesSeeing ==
  ASSUME Calls, users' = users, NEW c \in Clients, NEW x, NEW y, GoSeeing(c, x, y)
  PROVE  /\ Calls'
         /\ Turns(c, call'[c])
         /\ Is(call'[c], x, call[c].by, call[c].of, call[c].as, y)
<1>1. PICK s : s = call[c]
  OBVIOUS
<1>2. IsCall(s) /\ s.by \in Users \cup {Nobody}
  BY <1>1 DEF Calls
<1>3. Go(c, [s EXCEPT !.at = x, !.seen = y])
  BY <1>1, Zenon DEF GoSeeing
<1>4. PICK r : Go(c, r) /\ Is(r, x, s.by, s.of, s.as, y)
  BY <1>2, <1>3, Fields, Zenon
<1>5. IsCall(r) /\ r.by = s.by
  BY <1>4 DEF Is
<1>6. Calls' /\ Turns(c, r)
  BY <1>2, <1>4, <1>5, Gone
<1>7. call'[c] = r
  BY <1>6 DEF Turns
<1> QED
  BY <1>1, <1>4, <1>6, <1>7

\* Where c was and where it comes to, both in one service.
LEMMA TurnsWithin ==
  ASSUME NEW T, NEW c \in Clients, NEW r, Turns(c, r),
         {call[c].at, r.at} \subseteq T \cup {"idle"}
  PROVE  Within(T)
BY DEF Turns, Within

LEMMA TurnsFewer ==
  ASSUME NEW S, NEW c \in Clients, NEW r, Turns(c, r), r.at \notin S
  PROVE  Fewer(S)
BY DEF Turns, Fewer

-----------------------------------------------------------------------------
(* Approvals.                                                              *)

\* Whoever asks and decides has an account, and nobody approves his own request.
Asked ==
  \A r \in Requests :
    /\ {request[r].by, request[r].approver} \subseteq users \cup {Nobody}
    /\ request[r].status # "ABSENT" => request[r].by \in Users
    /\ request[r].status = "APPROVED" => request[r].approver # request[r].by

\* A decision under way is on a request that is there, an approval on somebody else's.  When no
\* other was under way meanwhile, the request is as pending as it was.
Approving ==
  \A c \in Clients : call[c].at \in Deciding =>
    /\ call[c].of \in Requests /\ call[c].by \in Users
    /\ request[call[c].of].status # "ABSENT"
    /\ call[c].at = "approve" => request[call[c].of].by # call[c].by
    /\ call[c].of \notin overlapped =>
         /\ request[call[c].of].status = "PENDING"
         /\ \A d \in Clients \ {c} : call[d].at \in Deciding => call[d].of # call[c].of

ApprovalInv == ApprovalTypeOK /\ Asked /\ Approving

ApprovalRows == [status : Decided \cup {"ABSENT", "PENDING"}, by : Users \cup {Nobody},
                 approver : Users \cup {Nobody}, late : BOOLEAN]

LEMMA ApprovalKept ==
  ASSUME ApprovalInv, request' = request, overlapped' = overlapped, users' = users, Fewer(Deciding)
  PROVE  ApprovalInv'
<1>1. ApprovalTypeOK'
  BY DEF ApprovalInv, ApprovalTypeOK
<1>2. Asked'
  BY DEF ApprovalInv, Asked
<1>3. Approving'
  BY DEF ApprovalInv, Approving, Fewer
<1> QED
  BY <1>1, <1>2, <1>3 DEF ApprovalInv

LEMMA PendingIs ==
  ASSUME NEW u \in Users
  PROVE  /\ Absent \in ApprovalRows /\ Absent.status = "ABSENT"
         /\ Absent.by = Nobody /\ Absent.approver = Nobody
         /\ Pending(u) \in ApprovalRows /\ Pending(u).status = "PENDING"
         /\ Pending(u).by = u /\ Pending(u).approver = Nobody
<1>1. /\ Absent \in ApprovalRows
      /\ Absent.status = "ABSENT" /\ Absent.by = Nobody /\ Absent.approver = Nobody
  BY DEF Absent, ApprovalRows
<1>2. PICK q : q = [Absent EXCEPT !.status = "PENDING"]
  OBVIOUS
<1>3. q \in ApprovalRows /\ q.status = "PENDING" /\ q.by = Nobody /\ q.approver = Nobody
  BY <1>1, <1>2 DEF ApprovalRows
<1>4. Pending(u) = [q EXCEPT !.by = u]
  BY <1>2, Zenon DEF Pending
<1>5. /\ [q EXCEPT !.by = u] \in ApprovalRows
      /\ [q EXCEPT !.by = u].status = "PENDING"
      /\ [q EXCEPT !.by = u].by = u
      /\ [q EXCEPT !.by = u].approver = Nobody
  BY <1>3 DEF ApprovalRows
<1> QED
  BY <1>1, <1>4, <1>5

\* A request that is there keeps whoever asked for it.
LEMMA DecidedTo ==
  ASSUME ApprovalInv, NEW r \in Requests, NEW status \in Decided, NEW u \in users,
         users \subseteq Users,
         \/ request' = [request EXCEPT ![r].status = status, ![r].approver = u]
         \/ request' = [request EXCEPT ![r].status = status]
  PROVE  /\ request' \in [Requests -> ApprovalRows]
         /\ request'[r].status = status /\ request'[r].by = request[r].by
         /\ request'[r].approver \in {u, request[r].approver}
         /\ request' = [request EXCEPT ![r].status = status, ![r].approver = u] =>
              request'[r].approver = u
         /\ \A q \in Requests \ {r} : request'[q] = request[q]
<1>1. request \in [Requests -> ApprovalRows]
  BY DEF ApprovalInv, ApprovalTypeOK, ApprovalRows
<1>2. PICK one : one = [request EXCEPT ![r].status = status]
  OBVIOUS
<1>3. /\ one \in [Requests -> ApprovalRows]
      /\ one[r].status = status /\ one[r].by = request[r].by
      /\ one[r].approver = request[r].approver
      /\ \A q \in Requests \ {r} : one[q] = request[q]
  BY <1>1, <1>2 DEF ApprovalRows
<1>4. PICK two : two = [one EXCEPT ![r].approver = u]
  OBVIOUS
<1>5. /\ two \in [Requests -> ApprovalRows]
      /\ two[r].status = status /\ two[r].by = request[r].by
      /\ two[r].approver = u
      /\ \A q \in Requests \ {r} : two[q] = request[q]
  BY <1>3, <1>4 DEF ApprovalRows
<1>6. two = [request EXCEPT ![r].status = status, ![r].approver = u]
  BY <1>2, <1>4, Zenon
<1> QED
  BY <1>2, <1>3, <1>5, <1>6

\* A decision is changed only where two overlapped.
Standing ==
  \A r \in Requests :
    request[r].status \in Decided /\ request'[r].status # request[r].status => r \in overlapped

LEMMA CreateRequestKeeps ==
  ASSUME ApprovalInv, Calls, NEW c \in Clients, NEW u \in Users, NEW r \in Requests,
         CreateRequest(c, u, r)
  PROVE  Calls' /\ Within(Deciding) /\ ApprovalInv' /\ Standing
<1>1. /\ users' = users /\ u \in users /\ request[r] = Absent /\ overlapped' = overlapped
      /\ request' = [request EXCEPT ![r] = Pending(u)]
      /\ Once(c)
  BY DEF CreateRequest
<1>2. call' = call /\ Calls'
  BY <1>1, Onced
<1>3. request \in [Requests -> ApprovalRows] /\ users \subseteq Users
  BY DEF ApprovalInv, ApprovalTypeOK, ApprovalRows, Calls
<1>4. /\ request' \in [Requests -> ApprovalRows]
      /\ request[r].status = "ABSENT"
      /\ request'[r].status = "PENDING" /\ request'[r].by = u /\ request'[r].approver = Nobody
      /\ \A q \in Requests \ {r} : request'[q] = request[q]
  BY <1>1, <1>3, PendingIs
<1>5. ApprovalTypeOK'
  BY <1>1, <1>4 DEF ApprovalInv, ApprovalTypeOK, ApprovalRows
<1>6. Asked'
  BY <1>1, <1>3, <1>4 DEF ApprovalInv, Asked
<1>7. Approving'
  BY <1>1, <1>2, <1>4 DEF ApprovalInv, Approving
<1> QED
  BY <1>2, <1>4, <1>5, <1>6, <1>7 DEF ApprovalInv, Within, Standing, Decided

LEMMA LapseKeeps ==
  ASSUME ApprovalInv, Calls, NEW r \in Requests, Lapse(r)
  PROVE  Calls' /\ Within(Deciding) /\ ApprovalInv' /\ Standing
<1>1. /\ users' = users /\ call' = call /\ calls' = calls /\ overlapped' = overlapped
      /\ request' = [request EXCEPT ![r].late = TRUE]
  BY DEF Lapse, desk
<1>2. Calls'
  BY <1>1 DEF Calls, IsCall
<1>3. request \in [Requests -> ApprovalRows]
  BY DEF ApprovalInv, ApprovalTypeOK, ApprovalRows
<1>4. /\ request' \in [Requests -> ApprovalRows]
      /\ \A q \in Requests : /\ request'[q].status = request[q].status
                             /\ request'[q].by = request[q].by
                             /\ request'[q].approver = request[q].approver
  BY <1>1, <1>3 DEF ApprovalRows
<1>5. ApprovalTypeOK'
  BY <1>1, <1>4 DEF ApprovalInv, ApprovalTypeOK, ApprovalRows
<1>6. Asked'
  BY <1>1, <1>4 DEF ApprovalInv, Asked
<1>7. Approving'
  BY <1>1, <1>4 DEF ApprovalInv, Approving
<1> QED
  BY <1>1, <1>2, <1>4, <1>5, <1>6, <1>7 DEF ApprovalInv, Within, Standing

\* A decision begins, on a request that was pending.
LEMMA JoinKeeps ==
  ASSUME ApprovalInv, Calls, NEW c \in Clients, NEW u \in Users, NEW r \in Requests,
         NEW at \in Deciding, request[r].status = "PENDING",
         at = "approve" => request[r].by # u,
         Begin(c, Request(at, u, r, Nobody)), Join(c, r), users' = users, request' = request
  PROVE  Calls' /\ Within(Deciding) /\ ApprovalInv' /\ Standing
<1>1. /\ call[c].at = "idle" /\ Calls' /\ Turns(c, call'[c])
      /\ Is(call'[c], at, u, r, Nobody, Nobody)
  BY BeginsRequest
<1>2. call'[c].at = at /\ call'[c].by = u /\ call'[c].of = r
  BY <1>1 DEF Is
<1>3. Within(Deciding)
  BY <1>1, <1>2, TurnsWithin
<1>4. overlapped' = IF \E d \in Clients \ {c} : call[d].at \in Deciding /\ call[d].of = r
                    THEN overlapped \cup {r} ELSE overlapped
  BY DEF Join
<1>5. ApprovalTypeOK'
  BY <1>4 DEF ApprovalInv, ApprovalTypeOK
<1>6. Asked'
  BY DEF ApprovalInv, Asked
<1>7. Approving'
  <2> SUFFICES ASSUME NEW d \in Clients, call'[d].at \in Deciding
               PROVE  /\ call'[d].of \in Requests /\ call'[d].by \in Users
                      /\ request[call'[d].of].status # "ABSENT"
                      /\ call'[d].at = "approve" => request[call'[d].of].by # call'[d].by
                      /\ call'[d].of \notin overlapped' =>
                           /\ request[call'[d].of].status = "PENDING"
                           /\ \A e \in Clients \ {d} :
                                call'[e].at \in Deciding => call'[e].of # call'[d].of
    BY DEF Approving
  <2>1. CASE d = c
    <3>1. \A e \in Clients \ {c} : call'[e] = call[e]
      BY <1>1 DEF Turns
    <3> QED
      BY <1>2, <1>4, <2>1, <3>1
  <2>2. CASE d # c
    <3>1. \A e \in Clients \ {c} : call'[e] = call[e]
      BY <1>1 DEF Turns
    <3>2. /\ call[d].of \in Requests /\ call[d].by \in Users
          /\ request[call[d].of].status # "ABSENT"
          /\ call[d].at = "approve" => request[call[d].of].by # call[d].by
          /\ call[d].of \notin overlapped =>
               /\ request[call[d].of].status = "PENDING"
               /\ \A e \in Clients \ {d} : call[e].at \in Deciding => call[e].of # call[d].of
      BY <2>2, <3>1 DEF ApprovalInv, Approving
    <3>3. call[d].at \in Deciding /\ call'[d] = call[d]
      BY <2>2, <3>1
    <3>4. call[d].of \notin overlapped' => call[d].of \notin overlapped /\ call[d].of # r
      BY <1>4, <2>2, <3>3
    <3> QED
      BY <1>2, <3>1, <3>2, <3>3, <3>4
  <2> QED
    BY <2>1, <2>2
<1> QED
  BY <1>1, <1>3, <1>5, <1>6, <1>7 DEF ApprovalInv, Standing

LEMMA FindToApproveKeeps ==
  ASSUME ApprovalInv, Calls, NEW c \in Clients, NEW u \in Users, NEW r \in Requests,
         FindToApprove(c, u, r)
  PROVE  Calls' /\ Within(Deciding) /\ ApprovalInv' /\ Standing
<1>1. /\ request[r].status = "PENDING" /\ Join(c, r) /\ users' = users /\ request' = request
      /\ \/ Begin(c, Request("expire", u, r, Nobody))
         \/ request[r].by # u /\ Begin(c, Request("approve", u, r, Nobody))
  BY DEF FindToApprove
<1>2. "expire" \in Deciding /\ "approve" \in Deciding
  BY DEF Deciding
<1>3. CASE Begin(c, Request("expire", u, r, Nobody))
  BY <1>1, <1>2, <1>3, JoinKeeps
<1>4. CASE request[r].by # u /\ Begin(c, Request("approve", u, r, Nobody))
  BY <1>1, <1>2, <1>4, JoinKeeps
<1> QED
  BY <1>1, <1>3, <1>4

LEMMA FindToRejectKeeps ==
  ASSUME ApprovalInv, Calls, NEW c \in Clients, NEW u \in Users, NEW r \in Requests,
         FindToReject(c, u, r)
  PROVE  Calls' /\ Within(Deciding) /\ ApprovalInv' /\ Standing
<1>1. /\ request[r].status = "PENDING" /\ Join(c, r) /\ users' = users /\ request' = request
      /\ Begin(c, Request("reject", u, r, Nobody))
  BY DEF FindToReject
<1>2. "reject" \in Deciding
  BY DEF Deciding
<1> QED
  BY <1>1, <1>2, JoinKeeps

\* A decision is written, or fails.
LEMMA DecisionKeeps ==
  ASSUME ApprovalInv, Calls, NEW c \in Clients, call[c].at \in Deciding,
         NEW status \in Decided, status = "APPROVED" => call[c].at = "approve",
         \/ call[c].by \in users /\ request' = [request EXCEPT ![call[c].of].status = status,
                                                               ![call[c].of].approver = call[c].by]
         \/ status # "APPROVED" /\ request' = [request EXCEPT ![call[c].of].status = status]
         \/ request' = request,
         End(c), users' = users, overlapped' = overlapped
  PROVE  Calls' /\ Within(Deciding) /\ ApprovalInv' /\ Standing
<1>1. /\ Calls' /\ Turns(c, call'[c])
      /\ Is(call'[c], "idle", Nobody, Nobody, Nobody, Nobody)
  BY Ends
<1>2. call'[c].at = "idle" /\ "idle" \notin Deciding
  BY <1>1 DEF Is, Deciding
<1>3. Within(Deciding) /\ Fewer(Deciding)
  BY <1>1, <1>2, TurnsWithin, TurnsFewer
<1>4. CASE request' = request
  BY <1>1, <1>3, <1>4, ApprovalKept DEF Standing
<1>5. CASE request' # request
  <2>1. PICK r \in Requests : r = call[c].of
    BY DEF ApprovalInv, Approving
  <2>2. users \subseteq Users
    BY DEF Calls
  <2>3. PICK u \in users \cup {Nobody} :
           IF u \in users
           THEN u = call[c].by
                /\ request' = [request EXCEPT ![r].status = status, ![r].approver = u]
           ELSE status # "APPROVED" /\ request' = [request EXCEPT ![r].status = status]
    BY <1>5, <2>1, <2>2, NobodyAssumption
  <2>4. /\ request' \in [Requests -> ApprovalRows]
        /\ request'[r].status = status /\ request'[r].by = request[r].by
        /\ request'[r].approver \in {u, request[r].approver}
        /\ status = "APPROVED" => u \in users /\ u = call[c].by /\ request'[r].approver = u
        /\ \A q \in Requests \ {r} : request'[q] = request[q]
    <3>1. CASE u \in users
      BY <2>2, <2>3, <3>1, DecidedTo
    <3>2. CASE u \notin users
      <4>1. request' = [request EXCEPT ![r].status = status] /\ status # "APPROVED"
        BY <2>3, <3>2
      <4>2. request \in [Requests -> ApprovalRows]
        BY DEF ApprovalInv, ApprovalTypeOK, ApprovalRows
      <4> QED
        BY <4>1, <4>2 DEF ApprovalRows
    <3> QED
      BY <3>1, <3>2
  <2>5. ApprovalTypeOK'
    BY <2>4 DEF ApprovalInv, ApprovalTypeOK, ApprovalRows
  <2>6. /\ request[r].status # "ABSENT"
        /\ status = "APPROVED" => request[r].by # call[c].by
        /\ r \notin overlapped =>
             /\ request[r].status = "PENDING"
             /\ \A d \in Clients \ {c} : call[d].at \in Deciding => call[d].of # r
    BY <2>1 DEF ApprovalInv, Approving
  <2>7. Asked'
    <3> SUFFICES ASSUME NEW q \in Requests
                 PROVE  /\ {request'[q].by, request'[q].approver} \subseteq users \cup {Nobody}
                        /\ request'[q].status # "ABSENT" => request'[q].by \in Users
                        /\ request'[q].status = "APPROVED" => request'[q].approver # request'[q].by
      BY DEF Asked
    <3>1. /\ {request[q].by, request[q].approver} \subseteq users \cup {Nobody}
          /\ request[q].status # "ABSENT" => request[q].by \in Users
          /\ request[q].status = "APPROVED" => request[q].approver # request[q].by
      BY DEF ApprovalInv, Asked
    <3>2. CASE q = r
      BY <2>3, <2>4, <2>6, <3>1, <3>2
    <3>3. CASE q # r
      BY <2>4, <3>1, <3>3
    <3> QED
      BY <3>2, <3>3
  <2>8. Approving'
    <3> SUFFICES ASSUME NEW d \in Clients, call'[d].at \in Deciding
                 PROVE  /\ call'[d].of \in Requests /\ call'[d].by \in Users
                        /\ request'[call'[d].of].status # "ABSENT"
                        /\ call'[d].at = "approve" => request'[call'[d].of].by # call'[d].by
                        /\ call'[d].of \notin overlapped =>
                             /\ request'[call'[d].of].status = "PENDING"
                             /\ \A e \in Clients \ {d} :
                                  call'[e].at \in Deciding => call'[e].of # call'[d].of
      BY DEF Approving
    <3>1. d # c /\ call'[d] = call[d] /\ \A e \in Clients : call'[e].at \in Deciding =>
                                                              call'[e] = call[e]
      BY <1>1, <1>2, <1>3 DEF Fewer
    <3>2. /\ call[d].of \in Requests /\ call[d].by \in Users
          /\ request[call[d].of].status # "ABSENT"
          /\ call[d].at = "approve" => request[call[d].of].by # call[d].by
          /\ call[d].of \notin overlapped =>
               /\ request[call[d].of].status = "PENDING"
               /\ \A e \in Clients \ {d} : call[e].at \in Deciding => call[e].of # call[d].of
      BY <3>1 DEF ApprovalInv, Approving
    <3>3. CASE call[d].of = r
      <4>1. r \in overlapped
        BY <2>6, <3>1, <3>3
      <4>2. request'[r].by = request[r].by /\ request'[r].status # "ABSENT"
        BY <2>4 DEF Decided
      <4> QED
        BY <3>1, <3>2, <3>3, <4>1, <4>2
    <3>4. CASE call[d].of # r
      BY <2>4, <3>1, <3>2, <3>4
    <3> QED
      BY <3>3, <3>4
  <2>9. Standing
    BY <2>4, <2>6 DEF Standing, Decided
  <2> QED
    BY <1>1, <1>3, <2>5, <2>7, <2>8, <2>9 DEF ApprovalInv
<1> QED
  BY <1>4, <1>5

\* Each step of the service.
LEMMA ApprovalStep ==
  ASSUME ApprovalInv, Calls, NEW c \in Clients, ApprovalNext(c) \/ \E r \in Requests : Lapse(r)
  PROVE  Calls' /\ Within(Deciding) /\ ApprovalInv' /\ Standing
<1>1. CASE \E r \in Requests : Lapse(r)
  BY <1>1, LapseKeeps
<1>2. CASE \E u \in Users, r \in Requests :
             CreateRequest(c, u, r) \/ FindToApprove(c, u, r) \/ FindToReject(c, u, r)
  BY <1>2, CreateRequestKeeps, FindToApproveKeeps, FindToRejectKeeps
<1>3. CASE MarkExpired(c)
  <2>1. /\ call[c].at = "expire" /\ End(c) /\ users' = users /\ overlapped' = overlapped
        /\ request' = [request EXCEPT ![call[c].of].status = "EXPIRED"]
    BY <1>3 DEF MarkExpired
  <2>2. "EXPIRED" \in Decided /\ "expire" \in Deciding
    BY DEF Decided, Deciding
  <2> QED
    BY <2>1, <2>2, DecisionKeeps
<1>4. ASSUME NEW at \in Deciding, NEW status \in Decided, status = "APPROVED" => at = "approve",
             Decide(c, at, status)
      PROVE  Calls' /\ Within(Deciding) /\ ApprovalInv' /\ Standing
  <2>1. /\ call[c].at = at /\ End(c) /\ users' = users /\ overlapped' = overlapped
        /\ \/ /\ call[c].by \in users
              /\ request' = [request EXCEPT ![call[c].of].status = status,
                                            ![call[c].of].approver = call[c].by]
           \/ request' = request
    BY <1>4, Zenon DEF Decide
  <2> QED
    BY <1>4, <2>1, DecisionKeeps
<1>5. CASE Approve(c)
  BY <1>4, <1>5 DEF Approve, Decided, Deciding
<1>6. CASE Reject(c)
  BY <1>4, <1>6 DEF Reject, Decided, Deciding
<1> QED
  BY <1>1, <1>2, <1>3, <1>5, <1>6 DEF ApprovalNext

\* An account that goes has asked for nothing; its approvals lose their approver.
LEMMA ApprovalDeleted ==
  ASSUME ApprovalInv, Calls, NEW u, ~Requester(u), users' = users \ {u},
         request' = ApproverCleared(u), overlapped' = overlapped, Fewer(Deciding)
  PROVE  ApprovalInv' /\ Standing
<1>1. request \in [Requests -> ApprovalRows]
  BY DEF ApprovalInv, ApprovalTypeOK, ApprovalRows
<1>2. \A r \in Requests : request[r].by # u
  BY DEF Requester
<1>3. ASSUME NEW r \in Requests
      PROVE  /\ request'[r] \in ApprovalRows
             /\ request'[r].status = request[r].status
             /\ request'[r].by = request[r].by
             /\ request'[r].approver =
                  IF request[r].approver = u THEN Nobody ELSE request[r].approver
  <2>1. request'[r] = IF request[r].approver = u THEN [request[r] EXCEPT !.approver = Nobody]
                      ELSE request[r]
    BY DEF ApproverCleared
  <2>2. request[r] \in ApprovalRows
    BY <1>1
  <2> QED
    BY <2>1, <2>2 DEF ApprovalRows
<1>4. ApprovalTypeOK'
  BY <1>3 DEF ApprovalInv, ApprovalTypeOK, ApprovalRows, ApproverCleared
<1>5. Asked'
  BY <1>2, <1>3, NobodyAssumption DEF ApprovalInv, Asked
<1>6. Approving'
  BY <1>3 DEF ApprovalInv, Approving, Fewer
<1> QED
  BY <1>3, <1>4, <1>5, <1>6 DEF ApprovalInv, Standing

LEMMA ApprovalInit == Init => ApprovalInv
<1> SUFFICES ASSUME Init
             PROVE  ApprovalInv
  OBVIOUS
<1>1. /\ users = Users /\ overlapped = {} /\ call = [c \in Clients |-> NoCall]
      /\ request \in IF "approval" \in desks
                     THEN {[r \in Requests |-> Pending(u)] : u \in Users}
                     ELSE {[r \in Requests |-> Absent]}
  BY Zenon DEF Init
<1>2. \A c \in Clients : call[c].at \notin Deciding
  BY <1>1 DEF NoCall, Deciding
<1>3. \A r \in Requests : /\ request[r] \in ApprovalRows
                          /\ request[r].status \in {"ABSENT", "PENDING"}
                          /\ request[r].by \in Users \cup {Nobody}
                          /\ request[r].approver = Nobody
                          /\ request[r].status # "ABSENT" => request[r].by \in Users
  <2>1. CASE "approval" \in desks
    <3>1. PICK u \in Users : request = [r \in Requests |-> Pending(u)]
      BY <1>1, <2>1
    <3> QED
      BY <3>1, PendingIs
  <2>2. CASE "approval" \notin desks
    <3>1. request = [r \in Requests |-> Absent]
      BY <1>1, <2>2
    <3> QED
      BY <3>1 DEF Absent, ApprovalRows
  <2> QED
    BY <2>1, <2>2
<1>4. request = [r \in Requests |-> request[r]]
  BY <1>1
<1>5. ApprovalTypeOK
  BY <1>1, <1>3, <1>4 DEF ApprovalTypeOK, ApprovalRows
<1>6. Asked
  BY <1>1, <1>3 DEF Asked
<1>7. Approving
  BY <1>2 DEF Approving
<1> QED
  BY <1>5, <1>6, <1>7 DEF ApprovalInv

-----------------------------------------------------------------------------
(* Support cases.                                                          *)

SupportAt == {"open-case", "update-case", "insert-message", "touch-case", "write-touch"}
StampedAt == {"open-case", "update-case", "insert-message", "write-touch"}

\* What a request carries; a time that it has read is not of the future.
SupportCalls ==
  \A c \in Clients :
    /\ call[c].at \in SupportAt => call[c].of \in Cases
    /\ call[c].at \in StampedAt => call[c].seen \in 0 .. time
    /\ call[c].at = "open-case" => call[c].by \in Customers
    /\ call[c].at = "update-case" => call[c].as \in Statuses

\* Every case is of an account, and has messages only if it is there.
Owned ==
  \A k \in Cases : /\ case[k].owner \in users \cup {Nobody}
                   /\ There(k) \/ case[k].newest = 0

SupportInv == SupportTypeOK /\ SupportCalls /\ Owned /\ ListedByActivity

CaseRows == [owner : Customers \cup {Nobody}, status : Statuses \cup {"ABSENT"},
             newest : 0 .. time, updated : 0 .. time]

\* Nobody arrives, and whoever was to touch a case did not, or stopped.
LEMMA SupportKept ==
  ASSUME SupportInv, case' = case, time' = time, crossed' = crossed, users' = users,
         Fewer(SupportAt), dropped' \subseteq Cases, dropped \subseteq dropped',
         \A d \in Clients : call[d].at \in {"touch-case", "write-touch"} =>
           call'[d] = call[d] \/ call[d].of \in dropped'
  PROVE  SupportInv'
<1>1. SupportTypeOK'
  BY DEF SupportInv, SupportTypeOK
<1>2. SupportCalls'
  BY DEF SupportInv, SupportCalls, Fewer, SupportAt, StampedAt
<1>3. Owned'
  BY DEF SupportInv, Owned, There
<1>4. ListedByActivity'
  <2> SUFFICES ASSUME NEW k \in Cases, case[k].newest > case[k].updated
               PROVE  \/ k \in dropped' \/ k \in crossed'
                      \/ \E d \in Clients : Touching(d, k)'
    BY DEF ListedByActivity
  <2>1. CASE k \in dropped \/ k \in crossed
    BY <2>1
  <2>2. CASE k \notin dropped /\ k \notin crossed
    <3>1. PICK d \in Clients : Touching(d, k)
      BY <2>2 DEF SupportInv, ListedByActivity
    <3>2. call[d].at \in {"touch-case", "write-touch"} /\ call[d].of = k
      BY <3>1 DEF Touching
    <3>3. CASE call'[d] = call[d]
      BY <3>1, <3>3 DEF Touching
    <3> QED
      BY <3>2, <3>3
  <2> QED
    BY <2>1, <2>2
<1> QED
  BY <1>1, <1>2, <1>3, <1>4 DEF SupportInv

\* The clock goes on: what is not of the future stays so.
LEMMA TickKeeps ==
  ASSUME SupportInv, Calls, Tick
  PROVE  Calls' /\ Within(SupportAt) /\ SupportInv'
<1>1. /\ time \in Nat /\ time' = time + 1 /\ time' \in 0 .. MaxTime
      /\ users' = users /\ call' = call /\ calls' = calls
      /\ case' = case /\ dropped' = dropped /\ crossed' = crossed
  BY MaxTimeAssumption DEF Tick, desk, SupportInv, SupportTypeOK
<1>2. Calls' /\ Within(SupportAt)
  BY <1>1 DEF Calls, IsCall, Within
<1>3. 0 .. time \subseteq 0 .. time'
  BY <1>1
<1>4. case \in [Cases -> CaseRows] /\ CaseRows \subseteq CaseRows'
  BY <1>3 DEF SupportInv, SupportTypeOK, CaseRows
<1>5. SupportTypeOK'
  BY <1>1, <1>4 DEF SupportInv, SupportTypeOK, CaseRows
<1>6. SupportCalls'
  BY <1>1, <1>3 DEF SupportInv, SupportCalls
<1>7. Owned'
  BY <1>1 DEF SupportInv, Owned, There
<1>8. ListedByActivity'
  BY <1>1 DEF SupportInv, ListedByActivity, Touching
<1> QED
  BY <1>2, <1>5, <1>6, <1>7, <1>8 DEF SupportInv

\* A request of the service begins: nothing but the request itself changes.
LEMMA SupportBegins ==
  ASSUME SupportInv, Calls, NEW c \in Clients,
         NEW at \in {"open-case", "update-case", "insert-message"},
         NEW by \in Users, NEW k \in Cases, NEW as,
         at = "open-case" => by \in Customers, at = "update-case" => as \in Statuses,
         Begin(c, Stamped(at, by, k, as)), users' = users, time' = time, case' = case,
         dropped' = dropped, crossed' = crossed
  PROVE  Calls' /\ Within(SupportAt) /\ SupportInv'
<1>0. Begin(c, [Request(at, by, k, as) EXCEPT !.seen = time])
  BY DEF Stamped
<1>1. /\ call[c].at = "idle" /\ Calls' /\ Turns(c, call'[c])
      /\ Is(call'[c], at, by, k, as, time)
  BY <1>0, BeginsSeeing
<1>2. /\ call'[c].at = at /\ call'[c].by = by /\ call'[c].of = k /\ call'[c].as = as
      /\ call'[c].seen = time
  BY <1>1 DEF Is
<1>3. Within(SupportAt)
  BY <1>1, <1>2, TurnsWithin DEF SupportAt
<1>4. \A d \in Clients : d # c => call'[d] = call[d]
  BY <1>1 DEF Turns
<1>5. SupportTypeOK'
  BY DEF SupportInv, SupportTypeOK
<1>5a. time \in 0 .. time
  BY MaxTimeAssumption DEF SupportInv, SupportTypeOK
<1>6. SupportCalls'
  BY <1>2, <1>4, <1>5a DEF SupportInv, SupportCalls, SupportAt, StampedAt
<1>7. Owned'
  BY DEF SupportInv, Owned, There
<1>8. ListedByActivity'
  <2> SUFFICES ASSUME NEW q \in Cases, case[q].newest > case[q].updated,
                      q \notin dropped, q \notin crossed
               PROVE  \E d \in Clients : Touching(d, q)'
    BY DEF ListedByActivity
  <2>1. PICK d \in Clients : Touching(d, q)
    BY DEF SupportInv, ListedByActivity
  <2>2. d # c
    BY <1>1, <2>1 DEF Touching
  <2> QED
    BY <1>4, <2>1, <2>2 DEF Touching
<1> QED
  BY <1>1, <1>3, <1>5, <1>6, <1>7, <1>8 DEF SupportInv

\* What is said of the row that a step writes.
Accounted(row, k) ==
  \/ row.newest <= row.updated \/ k \in dropped' \/ k \in crossed'
  \/ \E d \in Clients : call'[d].of = k /\ \/ call'[d].at = "touch-case"
                                           \/ /\ call'[d].at = "write-touch"
                                              /\ call'[d].seen >= row.newest

\* A case is written, by a request that ends or goes on to touch it.
LEMMA SupportWrites ==
  ASSUME SupportInv, Calls, NEW c \in Clients, call[c].at \in SupportAt,
         NEW k \in Cases, k = call[c].of, NEW row \in CaseRows,
         case' = [case EXCEPT ![k] = row], row.owner \in users \cup {Nobody},
         row.status # "ABSENT" \/ row.newest = 0,
         Turns(c, call'[c]), call'[c].at \in {"idle", "touch-case"},
         call'[c].at = "touch-case" => call'[c].of = k,
         users' = users, time' = time, dropped' \subseteq Cases, crossed' \subseteq Cases,
         \A q \in Cases \ {k} : /\ q \in dropped => q \in dropped'
                                /\ q \in crossed => q \in crossed',
         Accounted(row, k)
  PROVE  Within(SupportAt) /\ SupportInv'
<1>1. \A d \in Clients : d # c => call'[d] = call[d]
  BY DEF Turns
<1>2. Within(SupportAt)
  BY <1>1, TurnsWithin DEF SupportAt
<1>3. case \in [Cases -> CaseRows]
  BY DEF SupportInv, SupportTypeOK, CaseRows
<1>4. case' \in [Cases -> CaseRows] /\ case'[k] = row /\ \A q \in Cases \ {k} : case'[q] = case[q]
  BY <1>3
<1>4a. time \in Nat
  BY MaxTimeAssumption DEF SupportInv, SupportTypeOK
<1>5. SupportTypeOK'
  BY <1>4 DEF SupportInv, SupportTypeOK, CaseRows
<1>6. SupportCalls'
  BY <1>1 DEF SupportInv, SupportCalls, SupportAt, StampedAt
<1>7. Owned'
  BY <1>4 DEF SupportInv, Owned, There, CaseRows
<1>8. ListedByActivity'
  <2> SUFFICES ASSUME NEW q \in Cases, case'[q].newest > case'[q].updated,
                      q \notin dropped', q \notin crossed'
               PROVE  \E d \in Clients : Touching(d, q)'
    BY DEF ListedByActivity
  <2>1. CASE q = k
    <3>1. ~(row.newest <= row.updated)
      <4>1. row.newest \in Int /\ row.updated \in Int /\ row.newest > row.updated
        BY <1>4, <1>4a, <2>1 DEF CaseRows
      <4> QED
        BY <4>1
    <3> QED
      BY <1>4, <2>1, <3>1 DEF Touching, Accounted
  <2>2. CASE q # k
    <3>1. PICK d \in Clients : Touching(d, q)
      BY <1>4, <2>2 DEF SupportInv, ListedByActivity
    <3>2. d # c
      BY <2>2, <3>1 DEF Touching
    <3> QED
      BY <1>1, <1>4, <2>2, <3>1, <3>2 DEF Touching
  <2> QED
    BY <2>1, <2>2
<1> QED
  BY <1>2, <1>5, <1>6, <1>7, <1>8 DEF SupportInv

\* A request ends with a write of updatedAt, or found the case gone.
LEMMA TouchKeeps ==
  ASSUME SupportInv, Calls, NEW c \in Clients, call[c].at \in {"update-case", "write-touch"},
         NEW status, status \in Statuses \/ status = case[call[c].of].status,
         Touch(call[c].of, call[c].seen, status), Calls', Turns(c, call'[c]),
         call'[c].at = "idle", users' = users, time' = time
  PROVE  Within(SupportAt) /\ SupportInv'
<1>1. PICK k \in Cases, stamp \in 0 .. time : k = call[c].of /\ stamp = call[c].seen
  BY DEF SupportInv, SupportCalls, SupportAt, StampedAt
<1>2. /\ case \in [Cases -> CaseRows] /\ dropped \subseteq Cases /\ crossed \subseteq Cases
      /\ time \in Nat
  BY MaxTimeAssumption DEF SupportInv, SupportTypeOK, CaseRows
<1>3. PICK old : old = case[k]
  OBVIOUS
<1>4. PICK row : row = [old EXCEPT !.updated = stamp, !.status = status]
  OBVIOUS
<1>5. /\ old \in CaseRows /\ row \in CaseRows /\ row.owner = old.owner
      /\ row.newest = old.newest /\ row.updated = stamp
  <2>1. old \in CaseRows
    BY <1>2, <1>3
  <2>2. status \in Statuses \cup {"ABSENT"}
    BY <1>1, <1>3, <2>1 DEF CaseRows
  <2>3. PICK one : one = [old EXCEPT !.updated = stamp]
    OBVIOUS
  <2>4. one \in CaseRows /\ one.owner = old.owner /\ one.newest = old.newest /\ one.updated = stamp
    BY <2>1, <2>3 DEF CaseRows
  <2>5. row = [one EXCEPT !.status = status]
    BY <1>4, <2>3, Zenon
  <2> QED
    BY <2>1, <2>2, <2>4, <2>5 DEF CaseRows
<1>6. old.newest \in Nat /\ old.updated \in Nat /\ stamp \in Nat
  BY <1>2, <1>5 DEF CaseRows
<1>7. Touch(k, stamp, status)
  BY <1>1
<1>8. CASE ~There(k)
  <2>1. case' = case /\ crossed' = crossed /\ dropped' = dropped
    BY <1>7, <1>8 DEF Touch
  <2>2. case' = [case EXCEPT ![k] = old]
    BY <1>2, <1>3, <2>1
  <2>3. old.newest <= old.updated
    BY <1>3, <1>6, <1>8 DEF SupportInv, Owned
  <2>4. old.owner \in users \cup {Nobody} /\ (old.status # "ABSENT" \/ old.newest = 0)
    BY <1>3 DEF SupportInv, Owned, There
  <2> QED
    BY <1>1, <1>2, <1>5, <2>1, <2>2, <2>3, <2>4, SupportWrites DEF SupportAt, Accounted
<1>9. CASE There(k)
  <2>1. /\ case' = [case EXCEPT ![k].updated = stamp, ![k].status = status]
        /\ crossed' = IF stamp >= old.newest THEN crossed \ {k}
                      ELSE IF stamp < old.updated THEN crossed \cup {k} ELSE crossed
        /\ dropped' = IF stamp >= old.newest THEN dropped \ {k} ELSE dropped
    BY <1>3, <1>7, <1>9 DEF Touch
  <2>2. case' = [case EXCEPT ![k] = row]
    <3>1. PICK one : one = [case EXCEPT ![k].updated = stamp]
      OBVIOUS
    <3>2. case' = [one EXCEPT ![k].status = status]
      BY <2>1, <3>1, Zenon
    <3>3. PICK mid : mid = [old EXCEPT !.updated = stamp]
      OBVIOUS
    <3>4. one = [case EXCEPT ![k] = mid]
      BY <1>3, <3>1, <3>3, Zenon
    <3>5. one[k] = mid /\ one = [q \in Cases |-> IF q = k THEN mid ELSE case[q]]
      BY <1>2, <3>4
    <3>6. row = [mid EXCEPT !.status = status]
      BY <1>4, <3>3, Zenon
    <3>7. case' = [one EXCEPT ![k] = row]
      BY <3>2, <3>5, <3>6, Zenon
    <3> QED
      BY <1>2, <3>5, <3>7
  <2>3. old.owner \in users \cup {Nobody} /\ old.status # "ABSENT"
    BY <1>3, <1>9 DEF SupportInv, Owned, There
  <2>4. row.owner \in users \cup {Nobody}
    BY <1>5, <2>3
  <2>5. row.status # "ABSENT"
    <3>1. row.status = status
      BY <1>4, <1>5 DEF CaseRows
    <3>2. "ABSENT" \notin Statuses
      BY DEF Statuses
    <3> QED
      BY <1>1, <1>3, <2>3, <3>1, <3>2
  <2>6. /\ dropped' \subseteq Cases /\ crossed' \subseteq Cases
        /\ \A q \in Cases \ {k} : /\ q \in dropped => q \in dropped'
                                  /\ q \in crossed => q \in crossed'
    BY <1>2, <2>1
  <2>7. Accounted(row, k)
    <3>1. CASE stamp >= old.newest
      BY <1>5, <1>6, <3>1 DEF Accounted
    <3>2. CASE stamp < old.newest /\ stamp < old.updated
      BY <1>6, <2>1, <3>2 DEF Accounted
    <3>3. CASE stamp < old.newest /\ ~(stamp < old.updated)
      \* Another request is to touch the case, since this one is late.
      <4>1. old.newest > old.updated
        BY <1>6, <3>3
      <4>2. dropped' = dropped /\ crossed' = crossed
        BY <1>6, <2>1, <3>3
      <4>3. CASE k \in dropped \/ k \in crossed
        BY <4>2, <4>3 DEF Accounted
      <4>4. CASE k \notin dropped /\ k \notin crossed
        <5>1. PICK d \in Clients : Touching(d, k)
          BY <1>3, <4>1, <4>4 DEF SupportInv, ListedByActivity
        <5>2. d # c
          BY <1>1, <1>3, <1>6, <3>3, <5>1 DEF Touching
        <5>3. call'[d] = call[d]
          BY <5>2 DEF Turns
        <5> QED
          BY <1>3, <1>5, <5>1, <5>3 DEF Touching, Accounted
      <4> QED
        BY <4>3, <4>4
    <3> QED
      BY <1>6, <3>1, <3>2, <3>3
  <2>8. /\ call[c].at \in SupportAt /\ call'[c].at \in {"idle", "touch-case"}
        /\ call'[c].at = "touch-case" => call'[c].of = k
        /\ row.status # "ABSENT" \/ row.newest = 0
    BY <2>5 DEF SupportAt
  <2>9. row \in CaseRows /\ k \in Cases /\ k = call[c].of
    BY <1>1, <1>5
  <2> QED
    BY <2>2, <2>4, <2>6, <2>7, <2>8, <2>9, SupportWrites, Zenon
<1> QED
  BY <1>8, <1>9

\* A request that found its case gone.
LEMMA SupportEnds ==
  ASSUME SupportInv, Calls, NEW c \in Clients, call[c].at \in SupportAt,
         call[c].at \notin {"touch-case", "write-touch"},
         case' = case, users' = users, time' = time, dropped' = dropped, crossed' = crossed,
         Calls', Turns(c, call'[c]), call'[c].at = "idle"
  PROVE  Within(SupportAt) /\ SupportInv'
<1>1. Within(SupportAt)
  BY TurnsWithin
<1>2. Fewer(SupportAt)
  BY TurnsFewer DEF SupportAt
<1>3. \A d \in Clients : call[d].at \in {"touch-case", "write-touch"} =>
        call'[d] = call[d] \/ call[d].of \in dropped'
  BY DEF Turns
<1>4. dropped' \subseteq Cases
  BY DEF SupportInv, SupportTypeOK
<1>5. SupportInv'
  BY <1>2, <1>3, <1>4, SupportKept
<1> QED
  BY <1>1, <1>5

LEMMA OpenCaseKeeps ==
  ASSUME SupportInv, Calls, NEW c \in Clients, OpenCase(c)
  PROVE  Calls' /\ Within(SupportAt) /\ SupportInv'
<1>1. PICK k \in Cases, u \in Customers, stamp \in 0 .. time :
        k = call[c].of /\ u = call[c].by /\ stamp = call[c].seen
  BY DEF OpenCase, SupportInv, SupportCalls, SupportAt, StampedAt
<1>2. /\ call[c].at = "open-case" /\ End(c)
      /\ users' = users /\ time' = time /\ dropped' = dropped /\ crossed' = crossed
      /\ case' = IF u \in users /\ ~There(k)
                 THEN [case EXCEPT ![k] = [owner |-> u, status |-> "OPEN", newest |-> 0,
                                           updated |-> stamp]]
                 ELSE case
  BY <1>1 DEF OpenCase
<1>3. Calls' /\ Turns(c, call'[c]) /\ call'[c].at = "idle"
  BY <1>2, Ends DEF Is
<1>4. CASE case' = case
  BY <1>2, <1>3, <1>4, SupportEnds DEF SupportAt
<1>5. CASE case' # case
  <2>1. PICK row : row = [owner |-> u, status |-> "OPEN", newest |-> 0, updated |-> stamp]
    OBVIOUS
  <2>2. u \in users /\ case' = [case EXCEPT ![k] = row]
    BY <1>2, <1>5, <2>1
  <2>3. row \in CaseRows /\ row.owner = u /\ row.newest = 0 /\ row.updated = stamp
    <3>1. time \in Nat
      BY MaxTimeAssumption DEF SupportInv, SupportTypeOK
    <3> QED
      BY <2>1, <3>1 DEF CaseRows, Statuses
  <2>4. row.newest <= row.updated
    BY <2>3
  <2>5. dropped' \subseteq Cases /\ crossed' \subseteq Cases
    BY <1>2 DEF SupportInv, SupportTypeOK
  <2> QED
    BY <1>1, <1>2, <1>3, <2>2, <2>3, <2>4, <2>5, SupportWrites DEF SupportAt, Accounted
<1> QED
  BY <1>3, <1>4, <1>5

LEMMA UpdateCaseKeeps ==
  ASSUME SupportInv, Calls, NEW c \in Clients, UpdateCase(c)
  PROVE  Calls' /\ Within(SupportAt) /\ SupportInv'
<1>1. /\ call[c].at = "update-case" /\ End(c) /\ users' = users /\ time' = time
      /\ Touch(call[c].of, call[c].seen, call[c].as)
  BY DEF UpdateCase
<1>2. call[c].as \in Statuses
  BY <1>1 DEF SupportInv, SupportCalls
<1>3. Calls' /\ Turns(c, call'[c]) /\ call'[c].at = "idle"
  BY <1>1, Ends DEF Is
<1> QED
  BY <1>1, <1>2, <1>3, TouchKeeps

LEMMA InsertMessageKeeps ==
  ASSUME SupportInv, Calls, NEW c \in Clients, InsertMessage(c)
  PROVE  Calls' /\ Within(SupportAt) /\ SupportInv'
<1>1. PICK k \in Cases, stamp \in 0 .. time : k = call[c].of /\ stamp = call[c].seen
  BY DEF InsertMessage, SupportInv, SupportCalls, SupportAt, StampedAt
<1>2. /\ call[c].at = "insert-message"
      /\ users' = users /\ time' = time /\ dropped' = dropped /\ crossed' = crossed
      /\ IF There(k)
         THEN /\ case' = WithMessage(k, stamp)
              /\ GoSeeing(c, "touch-case", Nobody)
         ELSE End(c) /\ case' = case
  BY <1>1 DEF InsertMessage
<1>3. CASE ~There(k)
  <2>1. Calls' /\ Turns(c, call'[c]) /\ call'[c].at = "idle"
    BY <1>2, <1>3, Ends DEF Is
  <2> QED
    BY <1>2, <1>3, <2>1, SupportEnds DEF SupportAt
<1>4. CASE There(k)
  <2>1. case \in [Cases -> CaseRows] /\ time \in Nat
    BY MaxTimeAssumption DEF SupportInv, SupportTypeOK, CaseRows
  <2>2. PICK old : old = case[k]
    OBVIOUS
  <2>3. old \in CaseRows /\ old.newest \in 0 .. time
    BY <2>1, <2>2 DEF CaseRows
  <2>4. PICK newest : newest = IF stamp > old.newest THEN stamp ELSE old.newest
    OBVIOUS
  <2>5. PICK row : row = [old EXCEPT !.newest = newest]
    OBVIOUS
  <2>6. case' = [case EXCEPT ![k] = row]
    BY <1>2, <1>4, <2>2, <2>4, <2>5, Zenon DEF WithMessage
  <2>7. row \in CaseRows /\ row.owner = old.owner /\ row.status = old.status
    BY <2>3, <2>4, <2>5 DEF CaseRows
  <2>8. row.owner \in users \cup {Nobody} /\ row.status # "ABSENT"
    BY <1>4, <2>2, <2>7 DEF SupportInv, Owned, There
  <2>9. /\ Calls' /\ Turns(c, call'[c])
        /\ call'[c].at = "touch-case" /\ call'[c].of = k
    BY <1>1, <1>2, <1>4, GoesSeeing DEF Is
  <2>10. dropped' \subseteq Cases /\ crossed' \subseteq Cases
    BY <1>2 DEF SupportInv, SupportTypeOK
  <2> QED
    BY <1>1, <1>2, <2>6, <2>7, <2>8, <2>9, <2>10, SupportWrites DEF SupportAt, Accounted
<1> QED
  BY <1>3, <1>4

\* The time that is read is no older than any message.
LEMMA StampTouchKeeps ==
  ASSUME SupportInv, Calls, NEW c \in Clients, StampTouch(c)
  PROVE  Calls' /\ Within(SupportAt) /\ SupportInv'
<1>1. /\ call[c].at = "touch-case" /\ GoSeeing(c, "write-touch", time)
      /\ users' = users /\ time' = time /\ case' = case
      /\ dropped' = dropped /\ crossed' = crossed
  BY DEF StampTouch
<1>2. /\ Calls' /\ Turns(c, call'[c])
      /\ call'[c].at = "write-touch" /\ call'[c].of = call[c].of /\ call'[c].seen = time
  BY <1>1, GoesSeeing DEF Is
<1>3. \A d \in Clients : d # c => call'[d] = call[d]
  BY <1>2 DEF Turns
<1>4. Within(SupportAt)
  BY <1>1, <1>2, TurnsWithin DEF SupportAt
<1>5. /\ time \in Nat /\ time \in 0 .. time
      /\ \A k \in Cases : case[k].newest \in 0 .. time
  <2>1. time \in Nat /\ case \in [Cases -> CaseRows]
    BY MaxTimeAssumption DEF SupportInv, SupportTypeOK, CaseRows
  <2> QED
    BY <2>1 DEF CaseRows
<1>6. SupportTypeOK'
  BY <1>1 DEF SupportInv, SupportTypeOK
<1>7. SupportCalls'
  BY <1>1, <1>2, <1>3, <1>5 DEF SupportInv, SupportCalls, SupportAt, StampedAt
<1>8. Owned'
  BY <1>1 DEF SupportInv, Owned, There
<1>9. \A d \in Clients, k \in Cases : Touching(d, k) => Touching(d, k)'
  <2> SUFFICES ASSUME NEW d \in Clients, NEW k \in Cases, Touching(d, k)
               PROVE  Touching(d, k)'
    OBVIOUS
  <2>1. CASE d = c
    <3>1. time >= case'[k].newest
      BY <1>1, <1>5
    <3> QED
      BY <1>2, <2>1, <3>1 DEF Touching
  <2>2. CASE d # c
    BY <1>1, <1>3, <2>2 DEF Touching
  <2> QED
    BY <2>1, <2>2
<1>10. ListedByActivity'
  BY <1>1, <1>9 DEF SupportInv, ListedByActivity
<1> QED
  BY <1>2, <1>4, <1>6, <1>7, <1>8, <1>10 DEF SupportInv

LEMMA TouchCaseKeeps ==
  ASSUME SupportInv, Calls, NEW c \in Clients, TouchCase(c)
  PROVE  Calls' /\ Within(SupportAt) /\ SupportInv'
<1>1. /\ call[c].at = "write-touch" /\ End(c) /\ users' = users /\ time' = time
      /\ Touch(call[c].of, call[c].seen, case[call[c].of].status)
  BY DEF TouchCase
<1>2. Calls' /\ Turns(c, call'[c]) /\ call'[c].at = "idle"
  BY <1>1, Ends DEF Is
<1> QED
  BY <1>1, <1>2, TouchKeeps

LEMMA SupportStep ==
  ASSUME SupportInv, Calls, NEW c \in Clients, SupportNext(c)
  PROVE  Calls' /\ Within(SupportAt) /\ SupportInv'
<1>0. Customers \subseteq Users /\ users \subseteq Users
  BY CustomersAssumption DEF Calls
<1>1. ASSUME NEW a \in Users, NEW u \in Customers, NEW k \in Cases, CreateCase(c, a, u, k)
      PROVE  Calls' /\ Within(SupportAt) /\ SupportInv'
  <2>1. /\ Begin(c, Stamped("open-case", u, k, Nobody))
        /\ users' = users /\ time' = time /\ case' = case
        /\ dropped' = dropped /\ crossed' = crossed
    BY <1>1 DEF CreateCase
  <2> QED
    BY <1>0, <2>1, SupportBegins
<1>2. ASSUME NEW a \in Users, NEW k \in Cases, NEW route, NEW status \in Statuses,
             FindCase(c, a, k, route, status)
      PROVE  Calls' /\ Within(SupportAt) /\ SupportInv'
  <2>1. /\ Begin(c, Stamped("update-case", a, k, status))
        /\ users' = users /\ time' = time /\ case' = case
        /\ dropped' = dropped /\ crossed' = crossed
    BY <1>2 DEF FindCase
  <2> QED
    BY <2>1, SupportBegins
<1>3. ASSUME NEW a \in Users, NEW k \in Cases, FindThread(c, a, k)
      PROVE  Calls' /\ Within(SupportAt) /\ SupportInv'
  <2>1. /\ Begin(c, Stamped("insert-message", a, k, Nobody))
        /\ users' = users /\ time' = time /\ case' = case
        /\ dropped' = dropped /\ crossed' = crossed
    BY <1>3 DEF FindThread
  <2> QED
    BY <2>1, SupportBegins
<1>4. "ESCALATED" \in Statuses /\ "CLOSED" \in Statuses
  BY DEF Statuses
<1> QED
  BY <1>1, <1>2, <1>3, <1>4, OpenCaseKeeps, UpdateCaseKeeps, InsertMessageKeeps,
     StampTouchKeeps, TouchCaseKeeps, Zenon DEF SupportNext

\* The cases of an account go with it.
LEMMA SupportDeleted ==
  ASSUME SupportInv, Calls, NEW u \in users, users' = users \ {u}, time' = time,
         case' = CasesDeleted(u), dropped' = dropped, crossed' = crossed, Fewer(SupportAt),
         \A d \in Clients : call[d].at \in {"touch-case", "write-touch"} => call'[d] = call[d]
  PROVE  SupportInv'
<1>0. time \in Nat
  BY MaxTimeAssumption DEF SupportInv, SupportTypeOK
<1>1. /\ NoCase \in CaseRows
      /\ NoCase.owner = Nobody /\ NoCase.newest = 0 /\ NoCase.updated = 0
  BY <1>0 DEF NoCase, CaseRows
<1>2. case \in [Cases -> CaseRows]
  BY DEF SupportInv, SupportTypeOK, CaseRows
<1>3. /\ case' = [k \in Cases |-> IF case[k].owner = u THEN NoCase ELSE case[k]]
      /\ case' \in [Cases -> CaseRows]
  BY <1>1, <1>2 DEF CasesDeleted
<1>4. SupportTypeOK'
  BY <1>3 DEF SupportInv, SupportTypeOK, CaseRows
<1>5. SupportCalls'
  BY DEF SupportInv, SupportCalls, Fewer, SupportAt, StampedAt
<1>6. Owned'
  BY <1>1, <1>3 DEF SupportInv, Owned, There
<1>7. ListedByActivity'
  <2> SUFFICES ASSUME NEW k \in Cases, case'[k].newest > case'[k].updated,
                      k \notin dropped, k \notin crossed
               PROVE  \E d \in Clients : Touching(d, k)'
    BY DEF ListedByActivity
  <2>1. case'[k] = case[k]
    BY <1>1, <1>3
  <2>2. PICK d \in Clients : Touching(d, k)
    BY <2>1 DEF SupportInv, ListedByActivity
  <2> QED
    BY <2>1, <2>2 DEF Touching
<1> QED
  BY <1>4, <1>5, <1>6, <1>7 DEF SupportInv

LEMMA SupportInit == Init => SupportInv
<1> SUFFICES ASSUME Init
             PROVE  SupportInv
  OBVIOUS
<1>1. /\ users = Users /\ dropped = {} /\ crossed = {} /\ time = 0
      /\ call = [c \in Clients |-> NoCall]
      /\ case \in IF "support" \in desks
                  THEN {[k \in Cases |-> [NoCase EXCEPT !.owner = s, !.status = "OPEN"]] :
                          s \in Customers}
                  ELSE {[k \in Cases |-> NoCase]}
  BY Zenon DEF Init
<1>2. \A c \in Clients : call[c].at = "idle"
  BY <1>1 DEF NoCall
<1>2a. 0 \in 0 .. time
  <2>1. time = 0
    BY <1>1
  <2> QED
    BY <2>1
<1>3. ASSUME NEW s \in Customers
      PROVE  LET row == [NoCase EXCEPT !.owner = s, !.status = "OPEN"]
             IN row \in CaseRows /\ row.newest = 0 /\ row.updated = 0 /\ row.owner = s
  <2>1. PICK one : one = [NoCase EXCEPT !.owner = s]
    OBVIOUS
  <2>2. one \in CaseRows /\ one.newest = 0 /\ one.updated = 0 /\ one.owner = s
    BY <1>2a, <2>1 DEF NoCase, CaseRows
  <2>3. PICK row : row = [one EXCEPT !.status = "OPEN"]
    OBVIOUS
  <2>4. row \in CaseRows /\ row.newest = 0 /\ row.updated = 0 /\ row.owner = s
    BY <2>2, <2>3 DEF CaseRows, Statuses
  <2>5. row = [NoCase EXCEPT !.owner = s, !.status = "OPEN"]
    BY <2>1, <2>3, Zenon
  <2> QED
    BY <2>4, <2>5, Zenon
<1>4. \A k \in Cases : /\ case[k] \in CaseRows /\ case[k].newest = 0 /\ case[k].updated = 0
                       /\ case[k].owner \in Users \cup {Nobody}
  <2>1. CASE "support" \in desks
    <3>0. PICK s \in Customers :
             case = [k \in Cases |-> [NoCase EXCEPT !.owner = s, !.status = "OPEN"]]
      BY <1>1, <2>1, Zenon
    <3>1. PICK row : /\ row = [NoCase EXCEPT !.owner = s, !.status = "OPEN"]
                     /\ case = [k \in Cases |-> row]
      BY <3>0, Zenon
    <3>2. row \in CaseRows /\ row.newest = 0 /\ row.updated = 0 /\ row.owner = s
      BY <1>3, <3>1, Zenon
    <3>3. s \in Users
      BY CustomersAssumption
    <3> QED
      BY <3>1, <3>2, <3>3
  <2>2. CASE "support" \notin desks
    <3>1. case = [k \in Cases |-> NoCase]
      BY <1>1, <2>2
    <3>2. /\ NoCase \in CaseRows /\ NoCase.newest = 0 /\ NoCase.updated = 0
          /\ NoCase.owner = Nobody
      BY <1>2a DEF NoCase, CaseRows
    <3> QED
      BY <3>1, <3>2
  <2> QED
    BY <2>1, <2>2
<1>5. case = [k \in Cases |-> case[k]]
  BY <1>1
<1>6. SupportTypeOK
  <2>1. time = 0 /\ dropped \subseteq Cases /\ crossed \subseteq Cases
    BY <1>1
  <2>1a. time \in 0 .. MaxTime
    BY <2>1, MaxTimeAssumption
  <2>2. case \in [Cases -> CaseRows]
    BY <1>4, <1>5
  <2> QED
    BY <2>1, <2>1a, <2>2 DEF SupportTypeOK, CaseRows
<1>7. SupportCalls
  BY <1>2 DEF SupportCalls, SupportAt, StampedAt
<1>8. Owned
  BY <1>1, <1>4 DEF Owned
<1>9. ListedByActivity
  BY <1>4 DEF ListedByActivity
<1> QED
  BY <1>6, <1>7, <1>8, <1>9 DEF SupportInv

-----------------------------------------------------------------------------
(* Consents.                                                               *)

ConsentAt == {"update-consent", "create-consent", "revoke"} \cup Checking

ConsentRows == [there : BOOLEAN, version : Versions \cup {0}, granted : BOOLEAN,
                revoked : BOOLEAN]

\* The versions of a policy have a last one, if there are any.
HasLatest(t) == policy[t] = {} \/ \E m \in policy[t] : \A w \in policy[t] : w <= m

\* A record is of an account, and a record that is not there says nothing.
Recorded ==
  \A u \in Subjects, t \in Types :
    /\ u \notin users => consent[u][t] = Never
    /\ ~consent[u][t].there => consent[u][t] = Never

\* What a request about to write holds.
Recording ==
  \A c \in Clients : call[c].at \in {"update-consent", "create-consent", "revoke"} =>
    /\ call[c].by \in Subjects /\ call[c].of \in Types
    /\ call[c].at # "revoke" => \E v \in Versions, g \in BOOLEAN : call[c].as = Given(v, g, ~g)

\* What a check has read was the latest version then, and versions only grow.  As long as it
\* still is, a check that found nothing missing was right.
Checked ==
  \A c \in Clients : call[c].at \in Checking =>
    /\ call[c].of \in Subjects
    /\ call[c].seen.terms \in Nat /\ call[c].seen.terms <= Latest("terms_of_service")
    /\ call[c].at # "check-privacy" =>
         call[c].seen.privacy \in Nat /\ call[c].seen.privacy <= Latest("privacy_policy")

ConsentInv ==
  /\ ConsentTypeOK
  /\ \A t \in Policies : HasLatest(t)
  /\ Recorded
  /\ Recording
  /\ Checked
  /\ CompleteMeansConsented

LEMMA LatestIs ==
  ASSUME NEW t \in Policies, policy \in [Policies -> SUBSET Versions], HasLatest(t)
  PROVE  /\ Latest(t) \in Nat
         /\ policy[t] = {} => Latest(t) = 0
         /\ policy[t] # {} => Latest(t) \in policy[t] /\ Latest(t) # 0
         /\ \A w \in policy[t] : w <= Latest(t)
<1>1. policy[t] \subseteq Nat \ {0}
  BY VersionsAssumption
<1>2. CASE policy[t] = {}
  BY <1>2 DEF Latest
<1>3. CASE policy[t] # {}
  <2>1. \E m \in policy[t] : \A w \in policy[t] : w <= m
    BY <1>3 DEF HasLatest
  <2>2. Latest(t) = CHOOSE v \in policy[t] : \A w \in policy[t] : w <= v
    BY <1>3 DEF Latest
  <2>3. Latest(t) \in policy[t] /\ \A w \in policy[t] : w <= Latest(t)
    BY <2>1, <2>2, Zenon
  <2> QED
    BY <1>1, <1>3, <2>3
<1> QED
  BY <1>2, <1>3

\* Policies only get versions: the latest one stays or grows.
LEMMA LatestGrows ==
  ASSUME NEW t \in Policies, policy \in [Policies -> SUBSET Versions], HasLatest(t),
         policy' \in [Policies -> SUBSET Versions],
         policy'[t] = policy[t] \/ \E v \in Versions : policy'[t] = policy[t] \cup {v}
  PROVE  HasLatest(t)' /\ Latest(t) \in Nat /\ (Latest(t))' \in Nat /\ Latest(t) <= (Latest(t))'
<1>1. policy[t] \subseteq Nat \ {0} /\ policy'[t] \subseteq Nat \ {0}
  BY VersionsAssumption
<1>2. HasLatest(t)'
  <2>1. CASE policy'[t] = policy[t]
    BY <2>1 DEF HasLatest
  <2>2. ASSUME NEW v \in Versions, policy'[t] = policy[t] \cup {v}
        PROVE  HasLatest(t)'
    <3>1. CASE policy[t] = {}
      BY <1>1, <2>2, <3>1 DEF HasLatest
    <3>2. CASE policy[t] # {}
      <4>1. PICK m \in policy[t] : \A w \in policy[t] : w <= m
        BY <3>2 DEF HasLatest
      <4>2. m \in Nat /\ v \in Nat
        BY <1>1, <2>2
      <4>3. CASE m <= v
        <5>1. \A w \in policy'[t] : w <= v
          BY <1>1, <2>2, <4>1, <4>2, <4>3
        <5> QED
          BY <2>2, <5>1 DEF HasLatest
      <4>4. CASE ~(m <= v)
        <5>1. \A w \in policy'[t] : w <= m
          BY <1>1, <2>2, <4>1, <4>2, <4>4
        <5> QED
          BY <2>2, <4>1, <5>1 DEF HasLatest
      <4> QED
        BY <4>3, <4>4
    <3> QED
      BY <3>1, <3>2
  <2> QED
    BY <2>1, <2>2
<1>3. /\ Latest(t) \in Nat
      /\ policy[t] = {} => Latest(t) = 0
      /\ policy[t] # {} => Latest(t) \in policy[t]
  BY LatestIs
<1>4. (Latest(t))' \in Nat /\ \A w \in policy'[t] : w <= (Latest(t))'
  <2>1. \A p : (p = policy' =>
                  (IF p[t] = {} THEN 0 ELSE CHOOSE v \in p[t] : \A w \in p[t] : w <= v)
                    = (Latest(t))')
    BY DEF Latest
  <2>2. CASE policy'[t] = {}
    BY <2>2 DEF Latest
  <2>3. CASE policy'[t] # {}
    <3>1. \E m \in policy'[t] : \A w \in policy'[t] : w <= m
      BY <1>2, <2>3 DEF HasLatest
    <3>2. (Latest(t))' = CHOOSE v \in policy'[t] : \A w \in policy'[t] : w <= v
      BY <2>3 DEF Latest
    <3>3. (Latest(t))' \in policy'[t] /\ \A w \in policy'[t] : w <= (Latest(t))'
      BY <3>1, <3>2, Zenon
    <3> QED
      BY <1>1, <3>3
  <2> QED
    BY <2>2, <2>3
<1> QED
  BY <1>2, <1>3, <1>4

LEMMA HeldIs ==
  ASSUME Remember
  PROVE  /\ held' \in [Clients -> BOOLEAN]
         /\ \A c \in Clients : call'[c].at \in Checking /\ call[c].at \in Checking /\
              held[c] => held'[c]
         /\ \A c \in Clients : call'[c].at \in Checking /\ Complete(call[c].of)' => held'[c]
<1>1. held' = [c \in Clients |->
                 /\ call'[c].at \in Checking
                 /\ (call[c].at \in Checking /\ held[c]) \/ Complete(call[c].of)']
  BY DEF Remember
<1>2. ASSUME NEW c \in Clients
      PROVE  held'[c] <=> /\ call'[c].at \in Checking
                          /\ (call[c].at \in Checking /\ held[c]) \/ Complete(call[c].of)'
  BY <1>1
<1>3. held' \in [Clients -> BOOLEAN]
  BY <1>1
<1> QED
  BY <1>2, <1>3

\* What one step of a request keeps, whatever it writes: the records stay in order, versions
\* only come, and where the request comes to it holds what is asked there.
LEMMA ConsentMoves ==
  ASSUME ConsentInv, Remember, NEW c \in Clients, Turns(c, call'[c]),
         consent' \in [Subjects -> [Types -> ConsentRows]], Recorded',
         policy' \in [Policies -> SUBSET Versions],
         \A t \in Policies : policy'[t] = policy[t]
                             \/ \E v \in Versions : policy'[t] = policy[t] \cup {v},
         \/ call'[c] = call[c]
         \/ /\ call'[c].at \in {"update-consent", "create-consent", "revoke"} =>
                 /\ call'[c].by \in Subjects /\ call'[c].of \in Types
                 /\ call'[c].at # "revoke" =>
                      \E v \in Versions, g \in BOOLEAN : call'[c].as = Given(v, g, ~g)
            /\ call'[c].at \in Checking =>
                 /\ call'[c].of \in Subjects
                 /\ call'[c].seen.terms \in Nat
                 /\ call'[c].seen.terms <= (Latest("terms_of_service"))'
                 /\ call'[c].at # "check-privacy" =>
                      /\ call'[c].seen.privacy \in Nat
                      /\ call'[c].seen.privacy <= (Latest("privacy_policy"))'
            /\ /\ call'[c].at = "complete"
               /\ call'[c].seen.terms = (Latest("terms_of_service"))'
               /\ call'[c].seen.privacy = (Latest("privacy_policy"))'
               => held'[c]
  PROVE  ConsentInv'
<1>1. \A d \in Clients : d # c => call'[d] = call[d]
  BY DEF Turns
<1>2. \A t \in Policies : /\ HasLatest(t)'
                          /\ Latest(t) \in Nat /\ (Latest(t))' \in Nat /\ Latest(t) <= (Latest(t))'
  BY LatestGrows DEF ConsentInv, ConsentTypeOK
<1>3. "terms_of_service" \in Policies /\ "privacy_policy" \in Policies
  BY DEF Policies
<1>4. ConsentTypeOK'
  <2>1. held' \in [Clients -> BOOLEAN]
    BY HeldIs
  <2>2. \A u \in Subjects, t \in Types : ~consent'[u][t].there => consent'[u][t] = Never
    BY DEF Recorded
  <2> QED
    BY <2>1, <2>2 DEF ConsentTypeOK, ConsentRows
<1>5. Recording'
  BY <1>1 DEF ConsentInv, Recording
<1>6. Checked'
  <2> SUFFICES ASSUME NEW d \in Clients, call'[d].at \in Checking
               PROVE  /\ call'[d].of \in Subjects
                      /\ call'[d].seen.terms \in Nat
                      /\ call'[d].seen.terms <= (Latest("terms_of_service"))'
                      /\ call'[d].at # "check-privacy" =>
                           /\ call'[d].seen.privacy \in Nat
                           /\ call'[d].seen.privacy <= (Latest("privacy_policy"))'
    BY DEF Checked
  <2>1. CASE call'[d] = call[d]
    <3>1. /\ call[d].of \in Subjects
          /\ call[d].seen.terms \in Nat /\ call[d].seen.terms <= Latest("terms_of_service")
          /\ call[d].at # "check-privacy" =>
               call[d].seen.privacy \in Nat /\ call[d].seen.privacy <= Latest("privacy_policy")
      BY <2>1 DEF ConsentInv, Checked
    <3> QED
      BY <1>2, <1>3, <2>1, <3>1
  <2>2. CASE call'[d] # call[d]
    <3>1. d = c
      BY <1>1, <2>2
    <3> QED
      BY <2>2, <3>1
  <2> QED
    BY <2>1, <2>2
<1>7. CompleteMeansConsented'
  <2> SUFFICES ASSUME NEW d \in Clients, call'[d].at = "complete",
                      call'[d].seen.terms = (Latest("terms_of_service"))',
                      call'[d].seen.privacy = (Latest("privacy_policy"))'
               PROVE  held'[d]
    BY DEF CompleteMeansConsented
  <2>0. "complete" \in Checking
    BY DEF Checking
  <2>1. CASE call'[d] = call[d]
    <3>1. /\ call[d].seen.terms \in Nat /\ call[d].seen.terms <= Latest("terms_of_service")
          /\ call[d].seen.privacy \in Nat /\ call[d].seen.privacy <= Latest("privacy_policy")
      BY <2>0, <2>1 DEF ConsentInv, Checked
    <3>2. /\ call[d].seen.terms = Latest("terms_of_service")
          /\ call[d].seen.privacy = Latest("privacy_policy")
      BY <1>2, <1>3, <2>1, <3>1
    <3>3. held[d]
      BY <2>1, <3>2 DEF ConsentInv, CompleteMeansConsented
    <3> QED
      BY <2>0, <2>1, <3>3, HeldIs
  <2>2. CASE call'[d] # call[d]
    <3>1. d = c
      BY <1>1, <2>2
    <3> QED
      BY <2>2, <3>1
  <2> QED
    BY <2>1, <2>2
<1> QED
  BY <1>2, <1>4, <1>5, <1>6, <1>7 DEF ConsentInv

\* Nobody arrives at a section of the service, which leaves its tables as they are.
LEMMA ConsentKept ==
  ASSUME ConsentInv, Remember, consent' = consent, policy' = policy, users' = users,
         Fewer(ConsentAt)
  PROVE  ConsentInv'
<1>1. ConsentTypeOK' /\ Recorded' /\ \A t \in Policies : HasLatest(t)'
  BY HeldIs DEF ConsentInv, ConsentTypeOK, Recorded, HasLatest
<1>2. \A t : (Latest(t))' = Latest(t)
  BY DEF Latest
<1>3. Recording'
  BY DEF ConsentInv, Recording, Fewer, ConsentAt
<1>4. Checked'
  BY <1>2 DEF ConsentInv, Checked, Fewer, ConsentAt
<1>5. CompleteMeansConsented'
  <2>1. ASSUME NEW d \in Clients, call'[d].at = "complete",
               call'[d].seen.terms = Latest("terms_of_service"),
               call'[d].seen.privacy = Latest("privacy_policy")
        PROVE  held'[d]
    <3>1. call'[d] = call[d] /\ call[d].at \in Checking
      BY <2>1 DEF Fewer, ConsentAt, Checking
    <3>2. held[d]
      BY <2>1, <3>1 DEF ConsentInv, CompleteMeansConsented
    <3> QED
      BY <3>1, <3>2, HeldIs
  <2> QED
    BY <1>2, <2>1 DEF CompleteMeansConsented
<1> QED
  BY <1>1, <1>3, <1>4, <1>5 DEF ConsentInv

LEMMA GivenIs ==
  ASSUME NEW v \in Versions \cup {0}, NEW g \in BOOLEAN, NEW x \in BOOLEAN
  PROVE  /\ Given(v, g, x) \in ConsentRows
         /\ Given(v, g, x).there /\ Given(v, g, x).version = v
         /\ Given(v, g, x).granted = g /\ Given(v, g, x).revoked = x
         /\ Never \in ConsentRows /\ ~Never.there /\ ~Never.granted
BY DEF Given, Never, ConsentRows

\* One record is written, of a user who is there.
LEMMA ConsentWrites ==
  ASSUME ConsentInv, Calls, Remember, NEW c \in Clients, NEW u \in Subjects, NEW t \in Types,
         call[c].at \in ConsentAt, NEW row \in ConsentRows,
         \/ consent' = consent
         \/ u \in users /\ row.there /\ consent' = [consent EXCEPT ![u][t] = row],
         End(c), users' = users, policy' = policy
  PROVE  Calls' /\ Within(ConsentAt) /\ ConsentInv'
<1>1. /\ Calls' /\ Turns(c, call'[c])
      /\ Is(call'[c], "idle", Nobody, Nobody, Nobody, Nobody)
  BY Ends
<1>2. call'[c].at = "idle"
  BY <1>1 DEF Is
<1>3. Within(ConsentAt)
  BY <1>1, <1>2, TurnsWithin
<1>4. consent \in [Subjects -> [Types -> ConsentRows]] /\ policy \in [Policies -> SUBSET Versions]
  BY DEF ConsentInv, ConsentTypeOK, ConsentRows
<1>5. consent' \in [Subjects -> [Types -> ConsentRows]] /\ Recorded'
  <2>1. CASE consent' = consent
    BY <1>4, <2>1 DEF ConsentInv, Recorded
  <2>2. CASE u \in users /\ row.there /\ consent' = [consent EXCEPT ![u][t] = row]
    <3>1. /\ consent' \in [Subjects -> [Types -> ConsentRows]]
          /\ \A v \in Subjects, s \in Types :
               consent'[v][s] = IF v = u /\ s = t THEN row ELSE consent[v][s]
      BY <1>4, <2>2
    <3>2. Recorded'
      BY <2>2, <3>1 DEF ConsentInv, Recorded
    <3> QED
      BY <3>1, <3>2
  <2> QED
    BY <2>1, <2>2
<1>6. ConsentInv'
  BY <1>1, <1>2, <1>4, <1>5, ConsentMoves DEF Checking
<1> QED
  BY <1>1, <1>3, <1>6

\* A step of the service that writes nothing.
LEMMA ConsentReads ==
  ASSUME ConsentInv, Calls, Remember, NEW c \in Clients, Turns(c, call'[c]),
         {call[c].at, call'[c].at} \subseteq ConsentAt \cup {"idle"},
         consent' = consent, users' = users, policy' = policy,
         call'[c].at \in {"update-consent", "create-consent", "revoke"} =>
           /\ call'[c].by \in Subjects /\ call'[c].of \in Types
           /\ call'[c].at # "revoke" =>
                \E v \in Versions, g \in BOOLEAN : call'[c].as = Given(v, g, ~g),
         call'[c].at \in Checking =>
           /\ call'[c].of \in Subjects
           /\ call'[c].seen.terms \in Nat /\ call'[c].seen.terms <= Latest("terms_of_service")
           /\ call'[c].at # "check-privacy" =>
                call'[c].seen.privacy \in Nat /\ call'[c].seen.privacy <= Latest("privacy_policy"),
         /\ call'[c].at = "complete"
         /\ call'[c].seen.terms = Latest("terms_of_service")
         /\ call'[c].seen.privacy = Latest("privacy_policy")
         => held'[c]
  PROVE  Within(ConsentAt) /\ ConsentInv'
<1>1. \A t : (Latest(t))' = Latest(t)
  BY DEF Latest
<1>2. /\ consent' \in [Subjects -> [Types -> ConsentRows]]
      /\ policy' \in [Policies -> SUBSET Versions]
  BY DEF ConsentInv, ConsentTypeOK, ConsentRows
<1>3. Recorded'
  BY DEF ConsentInv, Recorded
<1>4. ConsentInv'
  BY <1>1, <1>2, <1>3, ConsentMoves
<1> QED
  BY <1>4, TurnsWithin

LEMMA RecordConsentKeeps ==
  ASSUME ConsentInv, Calls, Remember, NEW c \in Clients, NEW u \in Subjects, NEW t \in Types,
         NEW v \in Versions, NEW g \in BOOLEAN, RecordConsent(c, u, t, v, g)
  PROVE  Calls' /\ Within(ConsentAt) /\ ConsentInv'
<1>1. PICK at \in {"update-consent", "create-consent"} :
         Begin(c, Request(at, u, t, Given(v, g, ~g)))
  <2>1. Begin(c, Request(IF consent[u][t].there THEN "update-consent" ELSE "create-consent",
                         u, t, Given(v, g, ~g)))
    BY DEF RecordConsent
  <2>2. CASE consent[u][t].there
    <3>1. Begin(c, Request("update-consent", u, t, Given(v, g, ~g)))
      BY <2>1, <2>2, Zenon
    <3> QED
      BY <3>1
  <2>3. CASE ~consent[u][t].there
    <3>1. Begin(c, Request("create-consent", u, t, Given(v, g, ~g)))
      BY <2>1, <2>3, Zenon
    <3> QED
      BY <3>1
  <2> QED
    BY <2>2, <2>3
<1>2. users' = users /\ consent' = consent /\ policy' = policy
  BY DEF RecordConsent
<1>3. u \in Users
  BY SubjectsAssumption
<1>4. PICK as : as = Given(v, g, ~g)
  OBVIOUS
<1>5. /\ call[c].at = "idle" /\ Calls' /\ Turns(c, call'[c])
      /\ Is(call'[c], at, u, t, as, Nobody)
  BY <1>1, <1>2, <1>3, <1>4, BeginsRequest
<1>6. call'[c].at = at /\ call'[c].by = u /\ call'[c].of = t /\ call'[c].as = Given(v, g, ~g)
  BY <1>4, <1>5 DEF Is
<1> QED
  BY <1>2, <1>5, <1>6, ConsentReads DEF ConsentAt, Checking

LEMMA RevokeConsentKeeps ==
  ASSUME ConsentInv, Calls, Remember, NEW c \in Clients, NEW u \in Subjects, NEW t \in Types,
         RevokeConsent(c, u, t)
  PROVE  Calls' /\ Within(ConsentAt) /\ ConsentInv'
<1>1. /\ Begin(c, Request("revoke", u, t, Nobody))
      /\ users' = users /\ consent' = consent /\ policy' = policy
  BY DEF RevokeConsent
<1>2. u \in Users
  BY SubjectsAssumption
<1>3. /\ call[c].at = "idle" /\ Calls' /\ Turns(c, call'[c])
      /\ Is(call'[c], "revoke", u, t, Nobody, Nobody)
  BY <1>1, <1>2, BeginsRequest
<1>4. call'[c].at = "revoke" /\ call'[c].by = u /\ call'[c].of = t
  BY <1>3 DEF Is
<1> QED
  BY <1>1, <1>3, <1>4, ConsentReads DEF ConsentAt, Checking

LEMMA AnyGiven ==
  ASSUME NEW v \in Versions, NEW g \in BOOLEAN
  PROVE  Given(v, g, ~g) \in ConsentRows /\ Given(v, g, ~g).there
<1>1. PICK r \in BOOLEAN : r = ~g
  OBVIOUS
<1>2. Given(v, g, r) \in ConsentRows /\ Given(v, g, r).there
  BY GivenIs
<1> QED
  BY <1>1, <1>2, Zenon

\* The three writes.
LEMMA StoreKeeps ==
  ASSUME ConsentInv, Calls, Remember, NEW c \in Clients,
         UpdateConsent(c) \/ CreateConsent(c) \/ StoreRevocation(c)
  PROVE  Calls' /\ Within(ConsentAt) /\ ConsentInv'
<1>1. /\ call[c].at \in {"update-consent", "create-consent", "revoke"}
      /\ End(c) /\ users' = users /\ policy' = policy
  BY DEF UpdateConsent, CreateConsent, StoreRevocation
<1>2. PICK u \in Subjects, t \in Types : u = call[c].by /\ t = call[c].of
  BY <1>1 DEF ConsentInv, Recording
<1>3. consent \in [Subjects -> [Types -> ConsentRows]]
  BY DEF ConsentInv, ConsentTypeOK, ConsentRows
<1>4. consent[u][t].there => u \in users
  BY GivenIs DEF ConsentInv, Recorded, Never
<1>5. call[c].at \in ConsentAt
  BY <1>1 DEF ConsentAt
<1>6. \E row \in ConsentRows :
        \/ consent' = consent
        \/ u \in users /\ row.there /\ consent' = [consent EXCEPT ![u][t] = row]
  <2>1. CASE UpdateConsent(c)
    <3>1. PICK v \in Versions, g \in BOOLEAN : call[c].as = Given(v, g, ~g)
      BY <2>1 DEF UpdateConsent, ConsentInv, Recording
    <3>2. PICK row : row = call[c].as
      OBVIOUS
    <3>3. row \in ConsentRows /\ row.there
      BY <3>1, <3>2, AnyGiven, Zenon
    <3>4. consent' = IF consent[u][t].there THEN [consent EXCEPT ![u][t] = row] ELSE consent
      BY <1>2, <2>1, <3>2 DEF UpdateConsent
    <3> QED
      BY <1>4, <3>3, <3>4
  <2>2. CASE CreateConsent(c)
    <3>1. PICK v \in Versions, g \in BOOLEAN : call[c].as = Given(v, g, ~g)
      BY <2>2 DEF CreateConsent, ConsentInv, Recording
    <3>2. PICK row : row = [call[c].as EXCEPT !.revoked = FALSE]
      OBVIOUS
    <3>3. PICK as : as = call[c].as
      OBVIOUS
    <3>4. as \in ConsentRows /\ as.there
      BY <3>1, <3>3, AnyGiven, Zenon
    <3>5. row \in ConsentRows /\ row.there
      BY <3>2, <3>3, <3>4 DEF ConsentRows
    <3>6. consent' = IF ~consent[u][t].there /\ u \in users
                     THEN [consent EXCEPT ![u][t] = row] ELSE consent
      BY <1>2, <2>2, <3>2 DEF CreateConsent
    <3> QED
      BY <3>5, <3>6
  <2>3. CASE StoreRevocation(c)
    <3>1. PICK row : row = [consent[u][t] EXCEPT !.revoked = TRUE]
      OBVIOUS
    <3>2. consent[u][t] \in ConsentRows
      BY <1>3
    <3>3. row \in ConsentRows /\ (consent[u][t].there => row.there)
      BY <3>1, <3>2 DEF ConsentRows
    <3>4. consent' = IF consent[u][t].there
                     THEN [consent EXCEPT ![u][t].revoked = TRUE] ELSE consent
      BY <1>2, <2>3 DEF StoreRevocation
    <3>5. [consent EXCEPT ![u][t].revoked = TRUE] = [consent EXCEPT ![u][t] = row]
      BY <3>1, Zenon
    <3> QED
      BY <1>4, <3>3, <3>4, <3>5
  <2> QED
    BY <2>1, <2>2, <2>3
<1> QED
  BY <1>1, <1>5, <1>6, ConsentWrites

LEMMA CheckPolicyConsentKeeps ==
  ASSUME ConsentInv, Calls, Remember, NEW c \in Clients, NEW a \in Users, NEW u \in Subjects,
         CheckPolicyConsent(c, a, u)
  PROVE  Calls' /\ Within(ConsentAt) /\ ConsentInv'
<1>1. PICK seen : seen = [terms |-> Latest("terms_of_service")]
  OBVIOUS
<1>2. /\ Begin(c, [Request("check-privacy", a, u, Nobody) EXCEPT !.seen = seen])
      /\ users' = users /\ consent' = consent /\ policy' = policy
  BY <1>1 DEF CheckPolicyConsent
<1>3. /\ call[c].at = "idle" /\ Calls' /\ Turns(c, call'[c])
      /\ Is(call'[c], "check-privacy", a, u, Nobody, seen)
  BY <1>2, BeginsSeeing
<1>4. /\ call'[c].at = "check-privacy" /\ call'[c].of = u
      /\ call'[c].seen.terms = Latest("terms_of_service")
  BY <1>1, <1>3 DEF Is
<1>5. Latest("terms_of_service") \in Nat
  BY LatestIs DEF ConsentInv, ConsentTypeOK, Policies
<1> QED
  BY <1>2, <1>3, <1>4, <1>5, ConsentReads DEF ConsentAt, Checking

LEMMA CheckPrivacyKeeps ==
  ASSUME ConsentInv, Calls, Remember, NEW c \in Clients, CheckPrivacy(c)
  PROVE  Calls' /\ Within(ConsentAt) /\ ConsentInv'
<1>1. PICK seen : seen = [terms |-> call[c].seen.terms, privacy |-> Latest("privacy_policy")]
  OBVIOUS
<1>2. /\ call[c].at = "check-privacy" /\ GoSeeing(c, "check-consents", seen)
      /\ users' = users /\ consent' = consent /\ policy' = policy
  BY <1>1 DEF CheckPrivacy
<1>3. /\ Calls' /\ Turns(c, call'[c])
      /\ Is(call'[c], "check-consents", call[c].by, call[c].of, call[c].as, seen)
  BY <1>2, GoesSeeing
<1>4. /\ call'[c].at = "check-consents" /\ call'[c].of = call[c].of
      /\ call'[c].seen.terms = call[c].seen.terms
      /\ call'[c].seen.privacy = Latest("privacy_policy")
  BY <1>1, <1>3 DEF Is
<1>5. Latest("privacy_policy") \in Nat
  BY LatestIs DEF ConsentInv, ConsentTypeOK, Policies
<1>6. /\ call[c].of \in Subjects
      /\ call[c].seen.terms \in Nat /\ call[c].seen.terms <= Latest("terms_of_service")
  BY <1>2 DEF ConsentInv, Checked, Checking
<1> QED
  BY <1>2, <1>3, <1>4, <1>5, <1>6, ConsentReads DEF ConsentAt, Checking

\* The third read, at which nothing is missing.
LEMMA CheckConsentsKeeps ==
  ASSUME ConsentInv, Calls, Remember, NEW c \in Clients, CheckConsents(c)
  PROVE  Calls' /\ Within(ConsentAt) /\ ConsentInv'
<1> DEFINE u == call[c].of
           v == call[c].seen.terms
           w == call[c].seen.privacy
<1>1. /\ call[c].at = "check-consents"
      /\ users' = users /\ consent' = consent /\ policy' = policy
      /\ \/ Go(c, [call[c] EXCEPT !.at = "incomplete"])
         \/ /\ HasConsented(u, "terms_of_service", v) /\ HasConsented(u, "privacy_policy", w)
            /\ Go(c, [call[c] EXCEPT !.at = "complete"])
  <2>1. PICK b \in BOOLEAN : b <=> /\ HasConsented(u, "terms_of_service", v)
                                   /\ HasConsented(u, "privacy_policy", w)
    OBVIOUS
  <2>2. Go(c, [call[c] EXCEPT !.at = IF b THEN "complete" ELSE "incomplete"])
    BY <2>1, Zenon DEF CheckConsents
  <2>3. CASE b
    BY <2>1, <2>2, <2>3, Zenon DEF CheckConsents
  <2>4. CASE ~b
    BY <2>2, <2>4, Zenon DEF CheckConsents
  <2> QED
    BY <2>3, <2>4
<1>2. /\ u \in Subjects
      /\ v \in Nat /\ v <= Latest("terms_of_service")
      /\ w \in Nat /\ w <= Latest("privacy_policy")
  BY <1>1 DEF ConsentInv, Checked, Checking
<1> HIDE DEF u, v, w
<1>3. ASSUME NEW x \in {"complete", "incomplete"}, Go(c, [call[c] EXCEPT !.at = x])
      PROVE  /\ Calls' /\ Turns(c, call'[c])
             /\ call'[c].at = x /\ call'[c].of = u
             /\ call'[c].seen.terms = v /\ call'[c].seen.privacy = w
  <2>1. /\ Calls' /\ Turns(c, call'[c])
        /\ Is(call'[c], x, call[c].by, call[c].of, call[c].as, call[c].seen)
    BY <1>1, <1>3, GoesTo
  <2> QED
    BY <2>1 DEF Is, u, v, w
<1>4. CASE Go(c, [call[c] EXCEPT !.at = "incomplete"])
  BY <1>1, <1>2, <1>3, <1>4, ConsentReads DEF ConsentAt, Checking
<1>5. CASE /\ HasConsented(u, "terms_of_service", v) /\ HasConsented(u, "privacy_policy", w)
           /\ Go(c, [call[c] EXCEPT !.at = "complete"])
  <2>1. /\ Calls' /\ Turns(c, call'[c])
        /\ call'[c].at = "complete" /\ call'[c].of = u
        /\ call'[c].seen.terms = v /\ call'[c].seen.privacy = w
    BY <1>3, <1>5
  <2>2. ASSUME v = Latest("terms_of_service"), w = Latest("privacy_policy")
        PROVE  held'[c]
    <3>1. ASSUME NEW t \in Policies, policy[t] # {}, NEW z, z = Latest(t),
                 HasConsented(u, t, z)
          PROVE  consent[u][t] = Given(Latest(t), TRUE, FALSE)
      <4>1. t \in Types
        BY DEF Types
      <4>2. z # 0
        BY <3>1, LatestIs DEF ConsentInv, ConsentTypeOK
      <4>3. consent[u][t].granted /\ ~consent[u][t].revoked /\ consent[u][t].version = z
        BY <3>1, <4>2 DEF HasConsented
      <4>4. consent[u][t] \in ConsentRows
        BY <1>2, <4>1 DEF ConsentInv, ConsentTypeOK, ConsentRows
      <4>5. consent[u][t].there
        BY <1>2, <4>1, <4>3, GivenIs DEF ConsentInv, Recorded, Never
      <4>6. ASSUME NEW r \in ConsentRows, r.granted, ~r.revoked, r.version = z, r.there
            PROVE  r = Given(z, TRUE, FALSE)
        BY <4>6 DEF Given, ConsentRows
      <4> QED
        BY <3>1, <4>3, <4>4, <4>5, <4>6
    <3>2. Complete(u)
      BY <1>5, <2>2, <3>1 DEF Complete, Policies
    <3>3. \A t : (Latest(t))' = Latest(t)
      BY <1>1 DEF Latest
    <3>4. Complete(call[c].of)'
      <4>1. ASSUME NEW t \in Policies, policy'[t] # {}
            PROVE  consent'[call'[c].of][t] = Given((Latest(t))', TRUE, FALSE)
        BY <1>1, <2>1, <3>2, <3>3, <4>1 DEF Complete
      <4> QED
        BY <4>1 DEF Complete, Given
    <3> QED
      BY <2>1, <3>4, HeldIs DEF Checking
  <2> QED
    BY <1>1, <1>2, <2>1, <2>2, ConsentReads DEF ConsentAt, Checking
<1> QED
  BY <1>1, <1>4, <1>5 DEF u, v, w

LEMMA AnswerCheckKeeps ==
  ASSUME ConsentInv, Calls, Remember, NEW c \in Clients, AnswerCheck(c)
  PROVE  Calls' /\ Within(ConsentAt) /\ ConsentInv'
<1>1. /\ call[c].at \in {"complete", "incomplete"} /\ End(c)
      /\ users' = users /\ consent' = consent /\ policy' = policy
  BY DEF AnswerCheck
<1>2. /\ Calls' /\ Turns(c, call'[c])
      /\ Is(call'[c], "idle", Nobody, Nobody, Nobody, Nobody)
  BY <1>1, Ends
<1>3. call'[c].at = "idle"
  BY <1>2 DEF Is
<1> QED
  BY <1>1, <1>2, <1>3, ConsentReads DEF ConsentAt, Checking

LEMMA CreatePolicyVersionKeeps ==
  ASSUME ConsentInv, Calls, Remember, NEW c \in Clients, NEW a \in Users, NEW t \in Policies,
         NEW v \in Versions, CreatePolicyVersion(c, a, t, v)
  PROVE  Calls' /\ Within(ConsentAt) /\ ConsentInv'
<1>1. /\ Once(c) /\ users' = users /\ consent' = consent
      /\ policy' = [policy EXCEPT ![t] = policy[t] \cup {v}]
  BY DEF CreatePolicyVersion
<1>2. call' = call /\ Calls'
  BY <1>1, Onced
<1>3. policy \in [Policies -> SUBSET Versions]
  BY DEF ConsentInv, ConsentTypeOK
<1>4. /\ policy' \in [Policies -> SUBSET Versions]
      /\ \A s \in Policies : policy'[s] = policy[s]
                             \/ \E x \in Versions : policy'[s] = policy[s] \cup {x}
  BY <1>1, <1>3
<1>5. consent' \in [Subjects -> [Types -> ConsentRows]] /\ Recorded'
  BY <1>1 DEF ConsentInv, ConsentTypeOK, ConsentRows, Recorded
<1>6. Turns(c, call'[c]) /\ Within(ConsentAt)
  BY <1>2 DEF Turns, Within
<1>7. ConsentInv'
  BY <1>2, <1>4, <1>5, <1>6, ConsentMoves
<1> QED
  BY <1>2, <1>6, <1>7

LEMMA ConsentStep ==
  ASSUME ConsentInv, Calls, Remember, NEW c \in Clients, ConsentNext(c)
  PROVE  Calls' /\ Within(ConsentAt) /\ ConsentInv'
<1>1. Policies \subseteq Types
  BY DEF Types
<1> QED
  BY <1>1, RecordConsentKeeps, RevokeConsentKeeps, StoreKeeps, CheckPolicyConsentKeeps,
     CheckPrivacyKeeps, CheckConsentsKeeps, AnswerCheckKeeps, CreatePolicyVersionKeeps, Zenon
     DEF ConsentNext

\* The consents of an account go with it.
LEMMA ConsentDeleted ==
  ASSUME ConsentInv, Calls, Remember, NEW c \in Clients, Turns(c, call'[c]), call'[c].at = "idle",
         NEW u, users' = users \ {u}, consent' = ConsentsDeleted(u), policy' = policy
  PROVE  ConsentInv'
<1>1. consent \in [Subjects -> [Types -> ConsentRows]] /\ policy \in [Policies -> SUBSET Versions]
  BY DEF ConsentInv, ConsentTypeOK, ConsentRows
<1>2. Never \in ConsentRows
  BY DEF Never, ConsentRows
<1>3. consent' = [s \in Subjects |-> IF s = u THEN [t \in Types |-> Never] ELSE consent[s]]
  BY DEF ConsentsDeleted
<1>4. consent' \in [Subjects -> [Types -> ConsentRows]]
  BY <1>1, <1>2, <1>3
<1>5. Recorded'
  BY <1>1, <1>3 DEF ConsentInv, Recorded
<1> QED
  BY <1>1, <1>4, <1>5, ConsentMoves DEF Checking

LEMMA ConsentInit == Init => ConsentInv
<1> SUFFICES ASSUME Init
             PROVE  ConsentInv
  OBVIOUS
<1>1. /\ users = Users /\ call = [c \in Clients |-> NoCall] /\ held = [c \in Clients |-> FALSE]
      /\ policy = [t \in Policies |-> IF "consent" \in desks THEN {1} ELSE {}]
      /\ consent = [s \in Subjects |-> [t \in Types |->
                      IF "consent" \in desks THEN Given(1, TRUE, FALSE) ELSE Never]]
  BY Zenon DEF Init
<1>2. \A c \in Clients : call[c].at = "idle"
  BY <1>1 DEF NoCall
<1>3. 1 \in Versions
  BY VersionsAssumption
<1>4. Given(1, TRUE, FALSE) \in ConsentRows /\ Given(1, TRUE, FALSE).there /\ Never \in ConsentRows
  BY <1>3, GivenIs
<1>5. ConsentTypeOK
  <2>1. consent \in [Subjects -> [Types -> ConsentRows]]
    BY <1>1, <1>4
  <2>2. \A u \in Subjects, t \in Types : ~consent[u][t].there => consent[u][t] = Never
    BY <1>1, <1>4
  <2>3. policy \in [Policies -> SUBSET Versions] /\ held \in [Clients -> BOOLEAN]
    BY <1>1, <1>3
  <2> QED
    BY <2>1, <2>2, <2>3 DEF ConsentTypeOK, ConsentRows
<1>6. \A t \in Policies : HasLatest(t)
  BY <1>1 DEF HasLatest
<1>7. Recorded
  BY <1>1, <1>5, SubjectsAssumption DEF Recorded, ConsentTypeOK
<1>8. Recording /\ Checked /\ CompleteMeansConsented
  BY <1>2 DEF Recording, Checked, CompleteMeansConsented, Checking
<1> QED
  BY <1>5, <1>6, <1>7, <1>8 DEF ConsentInv

-----------------------------------------------------------------------------
(* The cache, and what is cached: messages, the banner, the flag and the   *)
(* finances of the dashboard.                                              *)

CacheTypeOK ==
  /\ entry = [k \in Keys |-> entry[k]]
  /\ excused \subseteq Keys
  /\ \A k \in excused : ~Miss(k)
  /\ faults \in 0 .. MaxFaults

\* Request r, at this stage, is about to delete entry k.
OwedBy(r, k) ==
  \/ r.at = "evict-list" /\ r.as = k
  \/ r.at = "evict-banner" /\ k = "banners"
  \/ r.at = "evict-flag" /\ k = "flag"
  \/ r.at = "evict-dashboard" /\ k = "dashboard"

Owed(k) ==
  \/ \E c \in Clients : OwedBy(call[c], k)
  \/ k \in Readers /\ post[k] = "evict"

\* What the rows say.
Now(k) == IF k \in Boxes THEN Listed(k) ELSE IF k = "flag" THEN flag ELSE finances

Explained(k) == Miss(k) \/ entry[k] = {Now(k)} \/ Owed(k) \/ k \in excused

\* What a request of these services carries.
CacheCall(r) ==
  /\ r.at \in {"load-list", "store-list", "dismiss"} => r.of \in Boxes
  /\ r.at \in {"insert-banner", "evict-banner"} => r.seen \subseteq Readers
  /\ r.at = "mark-read" => r.of \in Readers
  /\ r.at = "evict-list" => r.as \in Boxes
  /\ r.at = "store-flag" => r.seen # NoFlag
  /\ r.at = "update-flag" => r.as \in FlagRows \cup {NoFlag}
  /\ r.at = "update-task" => r.as \in TaskStatuses
  /\ r.at \in {"insert-transaction", "write-transaction"} => r.as \in Figures \cup {"none"}

\* A message that its sender is done with is there; a message of nobody is nobody's.
Messages ==
  /\ \A u \in Readers : post[u] = "evict" => note[u] # "absent"
  /\ \A u \in Readers \ users : note[u] \in {"absent", "orphan"}

\* The message of u is there, or on its way.
Reached(u) == note[u] # "absent" \/ post[u] = "insert"

\* Nobody is promised a message, and whom one has reached it has not left.
ReachedKept ==
  /\ promised' \subseteq promised /\ users' \subseteq users
  /\ \A u \in Readers : Reached(u) => (Reached(u))' \/ u \notin promised' \/ u \notin users'

\* Without an account there are no tasks and no transactions.
Figured == TaskOwner \in users \/ (task = "none" /\ finances = "none")

\* A step that writes no transaction.
Tasked ==
  /\ TaskTypeOK' /\ finances' = finances
  /\ TaskOwner \in users \/ (task' = "none" /\ finances = "none")

CacheInv ==
  /\ CacheTypeOK /\ InboxTypeOK /\ FlagsTypeOK /\ TaskTypeOK
  /\ \A c \in Clients : CacheCall(call[c])
  /\ Messages
  /\ BroadcastReachesAll
  /\ Figured
  /\ entry["flag"] # {NoFlag}
  /\ \A k \in Keys : Explained(k)

InboxAt == {"load-list", "store-list", "insert-banner", "evict-banner", "mark-read", "dismiss",
            "evict-list", "delete-banner"}
FlagsAt == {"load-flag", "store-flag", "update-flag", "evict-flag"}
TaskAt == {"update-task", "delete-task", "insert-transaction", "write-transaction",
           "evict-dashboard", "build-dashboard", "store-dashboard"}
CacheAt == InboxAt \cup FlagsAt \cup TaskAt
EvictAt == {"evict-list", "evict-banner", "evict-flag", "evict-dashboard"}

LEMMA KeysApart ==
  /\ "banners" \in Boxes /\ "banners" \notin Readers
  /\ Boxes \subseteq Keys /\ Readers \subseteq Boxes
  /\ "flag" \notin Boxes /\ "flag" \in Keys /\ "dashboard" \notin Boxes /\ "dashboard" \in Keys
  /\ \A k \in Keys : k \in Boxes \/ k = "flag" \/ k = "dashboard"
  /\ \A k \in Boxes : k \in Readers \/ k = "banners"
  /\ TaskOwner \in Readers
BY KeysAssumption, ReadersAssumption, TaskOwnerAssumption DEF Boxes, Keys

\* The entries besides those of K are as they were, and as excused.
Unmoved(K) == \A k \in Keys \ K : entry'[k] = entry[k] /\ (k \in excused => k \in excused')

\* What a step leaves of an entry that it deletes, or of whose rows it writes.
Settled(k) ==
  \/ entry'[k] = {} \/ k \in excused' \/ entry'[k] = {(Now(k))'}
  \/ \E c \in Clients : OwedBy(call'[c], k)
  \/ k \in Readers /\ post'[k] = "evict"

LEMMA UnchangedMoves ==
  ASSUME CacheTypeOK, UNCHANGED redis
  PROVE  CacheTypeOK' /\ Unmoved({}) /\ entry' = entry
BY DEF CacheTypeOK, Unmoved, redis, Miss

LEMMA StoreMoves ==
  ASSUME CacheTypeOK, NEW k \in Keys, NEW v, NEW now, now = (Now(k))', Store(k, v, now)
  PROVE  /\ CacheTypeOK'
         /\ \E K \in SUBSET {k} : Unmoved(K) /\ \A j \in K : Settled(j)
         /\ \A j \in Keys : entry'[j] \in {entry[j], {v}}
         /\ \A j \in Keys \ {k} : entry'[j] = entry[j]
<1>1. CASE entry' = [entry EXCEPT ![k] = {v}]
           /\ excused' = IF v = now THEN excused \ {k} ELSE excused \cup {k}
  <2>1. /\ entry' = [j \in Keys |-> entry'[j]] /\ entry'[k] = {v}
        /\ \A j \in Keys \ {k} : entry'[j] = entry[j]
    BY <1>1 DEF CacheTypeOK
  <2>2. CacheTypeOK'
    BY <1>1, <2>1 DEF CacheTypeOK, Miss, Store
  <2>3. Unmoved({k}) /\ Settled(k)
    BY <1>1, <2>1 DEF Unmoved, Settled
  <2> QED
    BY <2>1, <2>2, <2>3
<1>2. CASE UNCHANGED <<entry, excused>>
  <2>1. CacheTypeOK' /\ Unmoved({}) /\ entry' = entry
    BY <1>2 DEF CacheTypeOK, Miss, Store, Unmoved
  <2> QED
    BY <2>1
<1> QED
  BY <1>1, <1>2 DEF Store

LEMMA DeleteMoves ==
  ASSUME CacheTypeOK, NEW k \in Keys, Delete(k)
  PROVE  /\ CacheTypeOK' /\ Unmoved({k})
         /\ entry'[k] = {} \/ k \in excused'
         /\ \A j \in Keys : entry'[j] \in {entry[j], {}}
<1>1. CASE /\ entry' = [entry EXCEPT ![k] = {}]
           /\ excused' = excused \ {k}
           /\ UNCHANGED faults
  <2>1. /\ entry' = [j \in Keys |-> entry'[j]] /\ entry'[k] = {}
        /\ \A j \in Keys \ {k} : entry'[j] = entry[j]
    BY <1>1 DEF CacheTypeOK
  <2> QED
    BY <1>1, <2>1 DEF CacheTypeOK, Miss, Unmoved
<1>2. CASE /\ faults < MaxFaults
           /\ faults' = faults + 1
           /\ Excuse({k})
           /\ UNCHANGED entry
  <2>1. /\ entry' = entry /\ excused' = excused \cup {j \in {k} : entry[j] # {}}
        /\ faults' \in 0 .. MaxFaults
    BY <1>2, MaxFaultsAssumption DEF CacheTypeOK, Miss, Excuse
  <2>2. CacheTypeOK'
    BY <2>1 DEF CacheTypeOK, Miss
  <2> QED
    BY <2>1, <2>2 DEF Unmoved
<1> QED
  BY <1>1, <1>2 DEF Delete

LEMMA ExpireMoves ==
  ASSUME CacheTypeOK, NEW k \in Keys, Expire(k)
  PROVE  /\ CacheTypeOK' /\ Unmoved({k}) /\ entry'[k] = {}
         /\ \A j \in Keys : entry'[j] \in {entry[j], {}}
<1>1. /\ entry' = [entry EXCEPT ![k] = {}] /\ excused' = excused \ {k} /\ faults' = faults
  BY DEF Expire
<1>2. /\ entry' = [j \in Keys |-> entry'[j]] /\ entry'[k] = {}
      /\ \A j \in Keys \ {k} : entry'[j] = entry[j]
  BY <1>1 DEF CacheTypeOK
<1> QED
  BY <1>1, <1>2 DEF CacheTypeOK, Miss, Unmoved

LEMMA ChangeMoves ==
  ASSUME CacheTypeOK, NEW K \in SUBSET Keys, ChangeUnnoticed(K)
  PROVE  /\ CacheTypeOK' /\ Unmoved({}) /\ entry' = entry
         /\ \A k \in K : entry'[k] = {} \/ k \in excused'
BY DEF CacheTypeOK, Miss, Unmoved, ChangeUnnoticed, Excuse

\* An entry stays explained.
LEMMA Explains ==
  ASSUME CacheInv, NEW K, Unmoved(K),
         \A k \in Keys \ K : (Now(k))' = Now(k),
         \A d \in Clients, k \in Keys \ K : OwedBy(call[d], k) => OwedBy(call'[d], k),
         \A u \in Readers \ K : post[u] = "evict" => post'[u] = "evict",
         \A k \in K : Settled(k)
  PROVE  \A k \in Keys : (Explained(k))'
<1> SUFFICES ASSUME NEW k \in Keys
             PROVE  (Explained(k))'
  OBVIOUS
<1>1. (Explained(k))' <=> \/ entry'[k] = {} \/ entry'[k] = {(Now(k))'}
                          \/ \E c \in Clients : OwedBy(call'[c], k)
                          \/ k \in Readers /\ post'[k] = "evict"
                          \/ k \in excused'
  BY DEF Explained, Miss, Owed, OwedBy
<1>2. CASE k \in K
  BY <1>1, <1>2 DEF Settled
<1>3. CASE k \notin K
  <2>1. Explained(k)
    BY DEF CacheInv
  <2> QED
    BY <1>1, <1>3, <2>1 DEF Unmoved, Explained, Miss, Owed
<1> QED
  BY <1>2, <1>3

\* One request turns.
LEMMA TaskKept == CacheInv /\ UNCHANGED taskVars => Tasked
BY DEF CacheInv, Figured, Tasked, taskVars, TaskTypeOK

LEMMA TaskedKeeps ==
  ASSUME Tasked, users' = users
  PROVE  TaskTypeOK' /\ Figured' /\ finances' = finances
BY DEF Tasked, Figured

\* Nobody but who is about to send it is waited for.
LEMMA StillReached ==
  ASSUME BroadcastReachesAll, InboxTypeOK, ReachedKept,
         \A d \in Clients : call[d].at = "evict-banner" =>
           call'[d] = call[d] \/ promised' \cap call[d].seen = {}
  PROVE  BroadcastReachesAll'
<1> SUFFICES ASSUME NEW u \in promised' \cap users'
             PROVE  \/ (Reached(u))'
                    \/ \E d \in Clients : call'[d].at = "evict-banner" /\ u \in call'[d].seen
  BY DEF BroadcastReachesAll, Reached
<1>1. u \in promised \cap users /\ u \in Readers
  BY DEF ReachedKept, InboxTypeOK
<1>2. CASE Reached(u)
  BY <1>1, <1>2 DEF ReachedKept
<1>3. CASE ~Reached(u)
  <2>1. PICK d \in Clients : call[d].at = "evict-banner" /\ u \in call[d].seen
    BY <1>1, <1>3 DEF BroadcastReachesAll, Reached
  <2> QED
    BY <2>1
<1> QED
  BY <1>2, <1>3

LEMMA CacheTurns ==
  ASSUME CacheInv, NEW c \in Clients, Turns(c, call'[c]), CacheCall(call'[c]),
         CacheTypeOK', InboxTypeOK', FlagsTypeOK', TaskTypeOK', Messages',
         BroadcastReachesAll', Figured',
         entry'["flag"] # {NoFlag},
         NEW K, Unmoved(K), \A k \in K : Settled(k),
         \A k \in Keys \ K : (Now(k))' = Now(k) /\ ~OwedBy(call[c], k),
         \A u \in Readers \ K : post[u] = "evict" => post'[u] = "evict"
  PROVE  CacheInv'
<1>1. \A d \in Clients : CacheCall(call'[d])
  BY DEF CacheInv, Turns
<1>2. \A d \in Clients : (CacheCall(call[d]))'
  BY <1>1 DEF CacheCall, Boxes
<1>3. \A d \in Clients, k \in Keys \ K : OwedBy(call[d], k) => OwedBy(call'[d], k)
  BY DEF Turns
<1>4. \A k \in Keys : (Explained(k))'
  BY <1>3, Explains
<1> QED
  BY <1>2, <1>4 DEF CacheInv

\* Its move is all that changes.
LEMMA CacheReads ==
  ASSUME CacheInv, NEW c \in Clients, Turns(c, call'[c]), CacheCall(call'[c]),
         call[c].at \notin EvictAt,
         users' = users, UNCHANGED redis, UNCHANGED inboxVars, flag' = flag, Tasked
  PROVE  CacheInv'
<1>1. CacheTypeOK' /\ Unmoved({}) /\ entry' = entry
  BY UnchangedMoves DEF CacheInv
<1>2. hour' = hour /\ note' = note /\ post' = post /\ promised' = promised
  BY DEF inboxVars
<1>3. InboxTypeOK' /\ FlagsTypeOK' /\ Messages'
  BY <1>2 DEF CacheInv, InboxTypeOK, FlagsTypeOK, Messages
<1>3a. TaskTypeOK' /\ Figured' /\ finances' = finances
  BY TaskedKeeps
<1>3b. BroadcastReachesAll'
  <2>1. ReachedKept
    BY <1>2 DEF ReachedKept, Reached
  <2>2. \A d \in Clients : call[d].at = "evict-banner" => call'[d] = call[d]
    BY DEF Turns, EvictAt
  <2> QED
    BY <2>1, <2>2, StillReached DEF CacheInv
<1>4. \A k \in Keys : (Now(k))' = Now(k) /\ ~OwedBy(call[c], k)
  BY <1>2, <1>3a DEF Now, Listed, ListedAt, OwedBy, EvictAt
<1>5. PICK K : K = {}
  OBVIOUS
<1>6. /\ Unmoved(K) /\ \A k \in K : Settled(k)
      /\ \A k \in Keys \ K : (Now(k))' = Now(k) /\ ~OwedBy(call[c], k)
      /\ \A u \in Readers \ K : post[u] = "evict" => post'[u] = "evict"
  BY <1>1, <1>2, <1>4, <1>5
<1>7. entry'["flag"] # {NoFlag}
  BY <1>1 DEF CacheInv
<1> QED
  BY <1>1, <1>3, <1>3a, <1>3b, <1>6, <1>7, CacheTurns

\* A message, or the banner, changes.
LEMMA NoteMoves ==
  ASSUME InboxTypeOK, Messages, NEW k \in Boxes, NEW x \in Notes,
         note' = [note EXCEPT ![k] = x], UNCHANGED <<users, hour, post>>,
         x = "absent" => k = "banners" \/ note[k] = "absent",
         k \in Readers \ users => x \in {"absent", "orphan"},
         promised' \in SUBSET Readers
  PROVE  /\ InboxTypeOK' /\ Messages'
         /\ \A u \in Readers : Reached(u) => (Reached(u))'
         /\ \A j \in Boxes \ {k} : (Listed(j))' = Listed(j)
<1>1. /\ note' \in [Boxes -> Notes] /\ note'[k] = x
      /\ \A j \in Boxes \ {k} : note'[j] = note[j]
  BY DEF InboxTypeOK
<1>2. \A u \in Readers : note[u] # "absent" => note'[u] # "absent"
  BY <1>1, KeysApart
<1>3. Messages'
  BY <1>1, <1>2, KeysApart DEF Messages
<1> QED
  BY <1>1, <1>2, <1>3 DEF InboxTypeOK, Listed, ListedAt, Reached

LEMMA NotifyMoves ==
  ASSUME InboxTypeOK, Messages, NEW U, Notify(U) \/ UNCHANGED inboxVars, users' = users
  PROVE  /\ InboxTypeOK' /\ Messages' /\ ReachedKept
         /\ note' = note /\ hour' = hour /\ promised' = promised
         /\ \A u \in Readers : post[u] = "evict" => post'[u] = "evict"
         /\ Notify(U) => \A u \in U \cap Readers : (Reached(u))'
<1>1. CASE UNCHANGED inboxVars /\ ~Notify(U)
  BY <1>1 DEF inboxVars, InboxTypeOK, Messages, ReachedKept, Reached
<1>2. CASE Notify(U)
  <2>1. /\ note' = note /\ promised' = promised /\ hour' = hour
        /\ post' = [u \in Readers |->
                      IF u \in U /\ post[u] = "none" /\ note[u] = "absent" THEN "insert"
                      ELSE post[u]]
    BY <1>2 DEF Notify
  <2>2. \A u \in Readers : post'[u] = IF u \in U /\ post[u] = "none" /\ note[u] = "absent"
                                      THEN "insert" ELSE post[u]
    BY <2>1
  <2>3. InboxTypeOK'
    BY <2>1 DEF InboxTypeOK
  <2>4. \A u \in Readers : Reached(u) => (Reached(u))'
    BY <2>1, <2>2 DEF Reached
  <2>5. \A u \in U \cap Readers : (Reached(u))'
    BY <2>1, <2>2 DEF InboxTypeOK, Messages, Reached
  <2>6. Messages'
    BY <2>1, <2>2 DEF Messages
  <2> QED
    BY <2>1, <2>2, <2>3, <2>4, <2>5, <2>6 DEF ReachedKept
<1> QED
  BY <1>1, <1>2

LEMMA StaysInCache ==
  ASSUME NEW c \in Clients, Turns(c, call'[c]),
         {call[c].at, call'[c].at} \subseteq CacheAt \cup {"idle"}
  PROVE  Within(CacheAt)
BY TurnsWithin

\* A request is begun, or goes on, and nothing else happens.
LEMMA CacheGoes ==
  ASSUME CacheInv, Calls', NEW c \in Clients, Turns(c, call'[c]), CacheCall(call'[c]),
         {call[c].at, call'[c].at} \subseteq CacheAt \cup {"idle"}, call[c].at \notin EvictAt,
         users' = users, UNCHANGED redis, UNCHANGED inboxVars, flag' = flag, Tasked
  PROVE  Calls' /\ Within(CacheAt) /\ CacheInv'
BY CacheReads, StaysInCache

LEMMA InboxBeginsKeep ==
  ASSUME CacheInv, Calls, NEW c \in Clients, NEW a \in Users, NEW k \in Boxes,
         NEW at \in {"load-list", "mark-read", "dismiss", "delete-banner"},
         NEW by \in {a, Nobody}, at = "mark-read" => k \in Readers,
         Begin(c, Request(at, by, k, Nobody)),
         UNCHANGED <<users, redis, inboxVars>>, flag' = flag, Tasked
  PROVE  Calls' /\ Within(CacheAt) /\ CacheInv'
<1>1. users' = users /\ UNCHANGED redis /\ UNCHANGED inboxVars
  BY Zenon
<1>2. /\ call[c].at = "idle" /\ Calls' /\ Turns(c, call'[c])
      /\ Is(call'[c], at, by, k, Nobody, Nobody)
  BY <1>1, BeginsRequest
<1>3. call'[c].at = at /\ call'[c].of = k
  BY <1>2 DEF Is
<1>4. CacheCall(call'[c])
  BY <1>3 DEF CacheCall
<1>5. {call[c].at, call'[c].at} \subseteq CacheAt \cup {"idle"} /\ call[c].at \notin EvictAt
  BY <1>2, <1>3 DEF CacheAt, InboxAt, EvictAt
<1> QED
  BY <1>1, <1>2, <1>4, <1>5, CacheGoes

LEMMA GetListKeeps ==
  ASSUME CacheInv, Calls, NEW c \in Clients, NEW k \in Boxes, GetList(c, k),
         flag' = flag, Tasked
  PROVE  Calls' /\ Within(CacheAt) /\ CacheInv'
<1>1. PICK h : h = hour
  OBVIOUS
<1>2. /\ Begin(c, [Request("load-list", Nobody, k, Nobody) EXCEPT !.seen = h])
      /\ users' = users /\ UNCHANGED redis /\ UNCHANGED inboxVars
  BY <1>1, Zenon DEF GetList
<1>3. /\ call[c].at = "idle" /\ Calls' /\ Turns(c, call'[c])
      /\ Is(call'[c], "load-list", Nobody, k, Nobody, h)
  BY <1>2, BeginsSeeing
<1>4. call'[c].at = "load-list" /\ call'[c].of = k
  BY <1>3 DEF Is
<1>5. CacheCall(call'[c])
  BY <1>4 DEF CacheCall
<1>6. {call[c].at, call'[c].at} \subseteq CacheAt \cup {"idle"} /\ call[c].at \notin EvictAt
  BY <1>3, <1>4 DEF CacheAt, InboxAt, EvictAt
<1> QED
  BY <1>2, <1>3, <1>5, <1>6, CacheGoes

LEMMA MarkAsReadKeeps ==
  ASSUME CacheInv, Calls, NEW c \in Clients, NEW u \in Readers, MarkAsRead(c, u),
         flag' = flag, Tasked
  PROVE  Calls' /\ Within(CacheAt) /\ CacheInv'
<1>1. Begin(c, Request("mark-read", u, u, Nobody)) /\ UNCHANGED <<users, redis, inboxVars>>
  BY DEF MarkAsRead
<1>2. u \in Users /\ u \in Boxes
  BY ReadersAssumption, KeysApart
<1> QED
  BY <1>1, <1>2, InboxBeginsKeep

LEMMA DismissKeeps ==
  ASSUME CacheInv, Calls, NEW c \in Clients, NEW u \in Users, NEW k \in Boxes, Dismiss(c, u, k),
         flag' = flag, Tasked
  PROVE  Calls' /\ Within(CacheAt) /\ CacheInv'
<1>1. Begin(c, Request("dismiss", u, k, Nobody)) /\ UNCHANGED <<users, redis, inboxVars>>
  BY DEF Dismiss
<1> QED
  BY <1>1, InboxBeginsKeep

LEMMA FindBannerKeeps ==
  ASSUME CacheInv, Calls, NEW c \in Clients, NEW a \in Users, FindBanner(c, a),
         flag' = flag, Tasked
  PROVE  Calls' /\ Within(CacheAt) /\ CacheInv'
<1>1. /\ Begin(c, Request("delete-banner", a, "banners", Nobody))
      /\ UNCHANGED <<users, redis, inboxVars>>
  BY DEF FindBanner
<1> QED
  BY <1>1, InboxBeginsKeep, KeysApart

LEMMA CreateBroadcastKeeps ==
  ASSUME CacheInv, Calls, NEW c \in Clients, NEW a \in Users, CreateBroadcast(c, a),
         flag' = flag, Tasked
  PROVE  Calls' /\ Within(CacheAt) /\ CacheInv'
<1>1. PICK seen : seen = users \cap Readers
  OBVIOUS
<1>2. /\ Begin(c, [Request("insert-banner", a, "banners", Nobody) EXCEPT !.seen = seen])
      /\ users' = users /\ UNCHANGED redis /\ UNCHANGED inboxVars
  BY <1>1, Zenon DEF CreateBroadcast
<1>3. /\ call[c].at = "idle" /\ Calls' /\ Turns(c, call'[c])
      /\ Is(call'[c], "insert-banner", a, "banners", Nobody, seen)
  BY <1>2, BeginsSeeing
<1>4. call'[c].at = "insert-banner" /\ call'[c].seen \subseteq Readers
  BY <1>1, <1>3 DEF Is
<1>5. CacheCall(call'[c])
  BY <1>4 DEF CacheCall
<1>6. {call[c].at, call'[c].at} \subseteq CacheAt \cup {"idle"} /\ call[c].at \notin EvictAt
  BY <1>3, <1>4 DEF CacheAt, InboxAt, EvictAt
<1> QED
  BY <1>2, <1>3, <1>5, <1>6, CacheGoes

LEMMA LoadListKeeps ==
  ASSUME CacheInv, Calls, NEW c \in Clients, LoadList(c), flag' = flag, Tasked
  PROVE  Calls' /\ Within(CacheAt) /\ CacheInv'
<1>1. PICK x : x = ListedAt(call[c].of, call[c].seen)
  OBVIOUS
<1>2. /\ call[c].at = "load-list" /\ GoSeeing(c, "store-list", x)
      /\ users' = users /\ UNCHANGED redis /\ UNCHANGED inboxVars
  BY <1>1, Zenon DEF LoadList
<1>3. /\ Calls' /\ Turns(c, call'[c])
      /\ Is(call'[c], "store-list", call[c].by, call[c].of, call[c].as, x)
  BY <1>2, GoesSeeing
<1>4. call'[c].at = "store-list" /\ call'[c].of \in Boxes
  BY <1>2, <1>3 DEF Is, CacheInv, CacheCall
<1>5. CacheCall(call'[c])
  BY <1>4 DEF CacheCall
<1>6. {call[c].at, call'[c].at} \subseteq CacheAt \cup {"idle"} /\ call[c].at \notin EvictAt
  BY <1>2, <1>4 DEF CacheAt, InboxAt, EvictAt
<1> QED
  BY <1>2, <1>3, <1>5, <1>6, CacheGoes

\* An end, at which the cache changes and what is cached does not.
LEMMA CacheEnds ==
  ASSUME CacheInv, Calls, NEW c \in Clients, End(c), call[c].at \in CacheAt,
         users' = users, CacheTypeOK', NEW K, Unmoved(K), \A k \in K : Settled(k),
         \A k \in Keys \ K : ~OwedBy(call[c], k),
         entry'["flag"] # {NoFlag}, NEW U, Notify(U) \/ UNCHANGED inboxVars,
         call[c].at = "evict-banner" => U = call[c].seen /\ Notify(U),
         flag' = flag, Tasked
  PROVE  Calls' /\ Within(CacheAt) /\ CacheInv'
<1>1. /\ Calls' /\ Turns(c, call'[c])
      /\ Is(call'[c], "idle", Nobody, Nobody, Nobody, Nobody)
  BY Ends
<1>2. call'[c].at = "idle"
  BY <1>1 DEF Is
<1>3. CacheCall(call'[c]) /\ Within(CacheAt)
  BY <1>1, <1>2, StaysInCache DEF CacheCall
<1>4. /\ InboxTypeOK' /\ Messages' /\ ReachedKept
      /\ note' = note /\ hour' = hour /\ promised' = promised
      /\ \A u \in Readers : post[u] = "evict" => post'[u] = "evict"
      /\ Notify(U) => \A u \in U \cap Readers : (Reached(u))'
  BY NotifyMoves DEF CacheInv
<1>4a. TaskTypeOK' /\ Figured' /\ finances' = finances
  BY TaskedKeeps
<1>5. \A k \in Keys : (Now(k))' = Now(k)
  BY <1>4, <1>4a DEF Now, Listed, ListedAt
<1>6. FlagsTypeOK'
  BY DEF CacheInv, FlagsTypeOK
<1>7. BroadcastReachesAll'
  <2>1. CASE call[c].at # "evict-banner"
    <3>1. \A d \in Clients : call[d].at = "evict-banner" => call'[d] = call[d]
      BY <1>1, <2>1 DEF Turns
    <3> QED
      BY <1>4, <3>1, StillReached DEF CacheInv
  \* Whom it was about to send a message now has one on its way.
  <2>2. CASE call[c].at = "evict-banner"
    <3> SUFFICES ASSUME NEW u \in promised \cap users
                 PROVE  \/ (Reached(u))'
                        \/ \E d \in Clients : call'[d].at = "evict-banner" /\ u \in call'[d].seen
      BY <1>4 DEF BroadcastReachesAll, Reached
    <3>1. u \in Readers
      BY DEF CacheInv, InboxTypeOK
    <3>2. CASE Reached(u)
      BY <1>4, <3>1, <3>2 DEF ReachedKept
    <3>3. CASE ~Reached(u)
      <4>1. PICK d \in Clients : call[d].at = "evict-banner" /\ u \in call[d].seen
        BY <3>3 DEF CacheInv, BroadcastReachesAll, Reached
      <4>2. CASE d = c
        BY <1>4, <2>2, <3>1, <4>1, <4>2
      <4>3. CASE d # c
        BY <1>1, <4>1, <4>3 DEF Turns
      <4> QED
        BY <4>2, <4>3
    <3> QED
      BY <3>2, <3>3
  <2> QED
    BY <2>1, <2>2
<1> QED
  BY <1>1, <1>3, <1>4, <1>4a, <1>5, <1>6, <1>7, CacheTurns

\* Its entry is deleted, or its delete is lost.
LEMMA EvictKeeps ==
  ASSUME CacheInv, Calls, NEW c \in Clients, End(c), call[c].at \in CacheAt,
         users' = users, NEW k \in Keys, Delete(k),
         \A j \in Keys : OwedBy(call[c], j) => j = k,
         NEW U, Notify(U) \/ UNCHANGED inboxVars,
         call[c].at = "evict-banner" => U = call[c].seen /\ Notify(U),
         flag' = flag, Tasked
  PROVE  Calls' /\ Within(CacheAt) /\ CacheInv'
<1>1. /\ CacheTypeOK' /\ Unmoved({k}) /\ (entry'[k] = {} \/ k \in excused')
      /\ \A j \in Keys : entry'[j] \in {entry[j], {}}
  BY DeleteMoves DEF CacheInv
<1>2. \A j \in {k} : Settled(j)
  BY <1>1 DEF Settled
<1>3. entry'["flag"] # {NoFlag}
  BY <1>1, KeysApart DEF CacheInv
<1>4. PICK K : K = {k}
  OBVIOUS
<1>5. Unmoved(K) /\ (\A j \in K : Settled(j)) /\ \A j \in Keys \ K : ~OwedBy(call[c], j)
  BY <1>1, <1>2, <1>4
<1> QED
  BY <1>1, <1>3, <1>5, CacheEnds

LEMMA EvictListKeeps ==
  ASSUME CacheInv, Calls, NEW c \in Clients, EvictList(c), flag' = flag, Tasked
  PROVE  Calls' /\ Within(CacheAt) /\ CacheInv'
<1>1. /\ call[c].at = "evict-list" /\ Delete(call[c].as) /\ End(c)
      /\ users' = users /\ UNCHANGED inboxVars
  BY DEF EvictList
<1>2. call[c].as \in Keys
  BY <1>1, KeysApart DEF CacheInv, CacheCall
<1>3. \A j \in Keys : OwedBy(call[c], j) => j = call[c].as
  BY <1>1 DEF OwedBy
<1>4. call[c].at \in CacheAt /\ call[c].at # "evict-banner"
  BY <1>1 DEF CacheAt, InboxAt
<1> QED
  BY <1>1, <1>2, <1>3, <1>4, EvictKeeps

LEMMA BroadcastKeeps ==
  ASSUME CacheInv, Calls, NEW c \in Clients, Broadcast(c), flag' = flag, Tasked
  PROVE  Calls' /\ Within(CacheAt) /\ CacheInv'
<1>1. /\ call[c].at = "evict-banner" /\ Delete("banners") /\ End(c)
      /\ users' = users /\ Notify(call[c].seen)
  BY DEF Broadcast
<1>2. \A j \in Keys : OwedBy(call[c], j) => j = "banners"
  BY <1>1 DEF OwedBy
<1>3. call[c].at \in CacheAt /\ "banners" \in Keys
  BY <1>1 DEF CacheAt, InboxAt, Keys
<1> QED
  BY <1>1, <1>2, <1>3, EvictKeeps

\* A value is stored.
LEMMA StoreEnds ==
  ASSUME CacheInv, Calls, NEW c \in Clients, End(c), call[c].at \in CacheAt \ EvictAt,
         users' = users, NEW k \in Keys, NEW v, NEW now, now = (Now(k))', Store(k, v, now),
         k = "flag" => v # NoFlag,
         UNCHANGED inboxVars, flag' = flag, Tasked
  PROVE  Calls' /\ Within(CacheAt) /\ CacheInv'
<1>1. PICK K \in SUBSET {k} : Unmoved(K) /\ \A j \in K : Settled(j)
  BY StoreMoves DEF CacheInv
<1>2. /\ CacheTypeOK'
      /\ \A j \in Keys : entry'[j] \in {entry[j], {v}}
      /\ \A j \in Keys \ {k} : entry'[j] = entry[j]
  BY StoreMoves DEF CacheInv
<1>3. entry'["flag"] # {NoFlag}
  BY <1>2, KeysApart DEF CacheInv
<1>4. call[c].at # "evict-banner" /\ \A j \in Keys : ~OwedBy(call[c], j)
  BY DEF OwedBy, EvictAt
<1> QED
  BY <1>1, <1>2, <1>3, <1>4, CacheEnds

LEMMA StoreListKeeps ==
  ASSUME CacheInv, Calls, NEW c \in Clients, StoreList(c), flag' = flag, Tasked
  PROVE  Calls' /\ Within(CacheAt) /\ CacheInv'
<1>1. /\ call[c].at = "store-list" /\ End(c) /\ users' = users /\ UNCHANGED inboxVars
      /\ Store(call[c].of, call[c].seen, Listed(call[c].of))
  BY DEF StoreList
<1>2. PICK k \in Boxes : k = call[c].of
  BY <1>1 DEF CacheInv, CacheCall
<1>3. k \in Keys /\ k # "flag"
  BY KeysApart
<1>4. PICK now : now = Listed(k)
  OBVIOUS
<1>5. now = (Now(k))'
  BY <1>1, <1>4 DEF Now, Listed, ListedAt, inboxVars, Boxes
<1>6. Store(k, call[c].seen, now)
  BY <1>1, <1>2, <1>4, Zenon
<1>7. call[c].at \in CacheAt \ EvictAt
  BY <1>1 DEF CacheAt, InboxAt, EvictAt
<1> QED
  BY <1>1, <1>3, <1>5, <1>6, <1>7, StoreEnds

\* A message, or the banner, is written, and its list is owed to be deleted.
LEMMA NoteWritten ==
  ASSUME CacheInv, Calls', NEW c \in Clients, Turns(c, call'[c]), CacheCall(call'[c]),
         call[c].at \in CacheAt \ EvictAt, call'[c].at \in CacheAt,
         NEW k \in Boxes, NEW x \in Notes, note' = [note EXCEPT ![k] = x], OwedBy(call'[c], k),
         x = "absent" => k = "banners" \/ note[k] = "absent",
         k \in Readers \ users => x \in {"absent", "orphan"},
         UNCHANGED <<users, redis, hour, post>>, flag' = flag, Tasked,
         \/ promised' = promised
         \/ /\ call'[c].at = "evict-banner" /\ call'[c].seen \subseteq Readers
            /\ promised' = promised \cup call'[c].seen
  PROVE  Calls' /\ Within(CacheAt) /\ CacheInv'
<1>1. UNCHANGED redis /\ users' = users /\ hour' = hour /\ post' = post
  BY Zenon
<1>2. CacheTypeOK' /\ Unmoved({}) /\ entry' = entry
  BY <1>1, UnchangedMoves DEF CacheInv
<1>2a. promised' \in SUBSET Readers
  BY DEF CacheInv, InboxTypeOK
<1>3. /\ InboxTypeOK' /\ Messages'
      /\ \A u \in Readers : Reached(u) => (Reached(u))'
      /\ \A j \in Boxes \ {k} : (Listed(j))' = Listed(j)
  BY <1>1, <1>2a, NoteMoves DEF CacheInv
<1>3a. TaskTypeOK' /\ Figured' /\ finances' = finances
  BY <1>1, TaskedKeeps
<1>4. PICK K : K = {k}
  OBVIOUS
<1>5. Unmoved(K) /\ \A j \in K : Settled(j)
  BY <1>2, <1>4 DEF Unmoved, Settled
<1>6. \A j \in Keys \ K : (Now(j))' = Now(j) /\ ~OwedBy(call[c], j)
  BY <1>3, <1>3a, <1>4 DEF Now, OwedBy, EvictAt, Boxes
<1>7. \A u \in Readers \ K : post[u] = "evict" => post'[u] = "evict"
  BY <1>1
<1>8. FlagsTypeOK'
  BY DEF CacheInv, FlagsTypeOK
<1>9. entry'["flag"] # {NoFlag}
  BY <1>2 DEF CacheInv
<1>10. BroadcastReachesAll'
  <2> SUFFICES ASSUME NEW u \in promised' \cap users
               PROVE  \/ (Reached(u))'
                      \/ \E d \in Clients : call'[d].at = "evict-banner" /\ u \in call'[d].seen
    BY <1>1 DEF BroadcastReachesAll, Reached
  <2>1. CASE u \in promised
    <3>1. CASE Reached(u)
      BY <1>2a, <1>3, <3>1
    <3>2. CASE ~Reached(u)
      <4>1. PICK d \in Clients : call[d].at = "evict-banner" /\ u \in call[d].seen
        BY <2>1, <3>2 DEF CacheInv, BroadcastReachesAll, Reached
      <4> QED
        BY <4>1 DEF Turns, EvictAt
    <3> QED
      BY <3>1, <3>2
  <2>2. CASE u \notin promised
    BY <2>2
  <2> QED
    BY <2>1, <2>2
<1> QED
  BY <1>2, <1>3, <1>3a, <1>5, <1>6, <1>7, <1>8, <1>9, <1>10, CacheTurns, StaysInCache

LEMMA InsertBannerKeeps ==
  ASSUME CacheInv, Calls, NEW c \in Clients, InsertBanner(c), flag' = flag, Tasked
  PROVE  Calls' /\ Within(CacheAt) /\ CacheInv'
<1>1. /\ call[c].at = "insert-banner" /\ UNCHANGED <<users, redis, hour, post>> /\ users' = users
      /\ promised' = promised \cup call[c].seen
      /\ Go(c, [call[c] EXCEPT !.at = "evict-banner"])
      /\ note' = [note EXCEPT !["banners"] = IF note["banners"] = "absent" THEN "unread"
                                             ELSE note["banners"]]
  BY DEF InsertBanner
<1>2. /\ Calls' /\ Turns(c, call'[c])
      /\ Is(call'[c], "evict-banner", call[c].by, call[c].of, call[c].as, call[c].seen)
  BY <1>1, GoesTo
<1>3. call'[c].at = "evict-banner" /\ call'[c].seen = call[c].seen
  BY <1>2 DEF Is
<1>4. call[c].seen \subseteq Readers
  BY <1>1 DEF CacheInv, CacheCall
<1>5. CacheCall(call'[c]) /\ OwedBy(call'[c], "banners")
  BY <1>3, <1>4 DEF CacheCall, OwedBy
<1>6. call[c].at \in CacheAt \ EvictAt /\ call'[c].at \in CacheAt
  BY <1>1, <1>3 DEF CacheAt, InboxAt, EvictAt
<1>7. PICK x \in Notes : x = IF note["banners"] = "absent" THEN "unread" ELSE note["banners"]
  BY KeysApart DEF CacheInv, InboxTypeOK, Notes
<1>8. note' = [note EXCEPT !["banners"] = x] /\ x # "absent"
  BY <1>1, <1>7
<1>9. /\ call'[c].at = "evict-banner" /\ call'[c].seen \subseteq Readers
      /\ promised' = promised \cup call'[c].seen
  BY <1>1, <1>3, <1>4
<1> QED
  BY <1>1, <1>2, <1>5, <1>6, <1>8, <1>9, NoteWritten, KeysApart

\* The three other writes owe the list of the row.
LEMMA RowWritten ==
  ASSUME CacheInv, Calls, NEW c \in Clients,
         call[c].at \in CacheAt \ EvictAt,
         NEW k \in Boxes, Go(c, [call[c] EXCEPT !.at = "evict-list", !.as = k]),
         NEW x \in Notes, note' = [note EXCEPT ![k] = x],
         x = "absent" => k = "banners" \/ note[k] = "absent",
         k \in Readers \ users => x \in {"absent", "orphan"},
         UNCHANGED <<users, redis, hour, post, promised>>, flag' = flag, Tasked
  PROVE  Calls' /\ Within(CacheAt) /\ CacheInv'
<1>1. /\ users' = users /\ promised' = promised
      /\ UNCHANGED <<users, redis, hour, post>>
  BY Zenon
<1>2. /\ Calls' /\ Turns(c, call'[c])
      /\ Is(call'[c], "evict-list", call[c].by, call[c].of, k, call[c].seen)
  BY <1>1, GoesTo
<1>3. call'[c].at = "evict-list" /\ call'[c].as = k
  BY <1>2 DEF Is
<1>4. CacheCall(call'[c]) /\ OwedBy(call'[c], k) /\ call'[c].at \in CacheAt
  BY <1>3 DEF CacheCall, OwedBy, CacheAt, InboxAt
<1> QED
  BY <1>1, <1>2, <1>4, NoteWritten

LEMMA StoreReadKeeps ==
  ASSUME CacheInv, Calls, NEW c \in Clients, StoreRead(c), flag' = flag, Tasked
  PROVE  Calls' /\ Within(CacheAt) /\ CacheInv'
<1>1. PICK u : u = call[c].of
  OBVIOUS
<1>2. /\ call[c].at = "mark-read" /\ UNCHANGED <<users, redis, hour, post, promised>>
      /\ Go(c, [call[c] EXCEPT !.at = "evict-list", !.as = u])
      /\ note' = [note EXCEPT ![u] = IF note[u] = "unread" THEN "read" ELSE note[u]]
  BY <1>1, Zenon DEF StoreRead
<1>3. u \in Readers /\ u \in Boxes
  BY <1>1, <1>2, KeysApart DEF CacheInv, CacheCall
<1>4. PICK x \in Notes : x = IF note[u] = "unread" THEN "read" ELSE note[u]
  BY <1>3 DEF CacheInv, InboxTypeOK, Notes
<1>5. note' = [note EXCEPT ![u] = x]
  BY <1>2, <1>4
<1>6. /\ x = "absent" => note[u] = "absent"
      /\ u \in Readers \ users => x \in {"absent", "orphan"}
  BY <1>4 DEF CacheInv, Messages
<1>7. call[c].at \in CacheAt \ EvictAt
  BY <1>2 DEF CacheAt, InboxAt, EvictAt
<1> QED
  BY <1>2, <1>3, <1>5, <1>6, <1>7, RowWritten

LEMMA InboxEnds ==
  ASSUME CacheInv, Calls, NEW c \in Clients, call[c].at \in CacheAt \ EvictAt, End(c),
         note' = note, UNCHANGED <<users, redis, hour, post, promised>>, flag' = flag, Tasked
  PROVE  Calls' /\ Within(CacheAt) /\ CacheInv'
<1>1. users' = users /\ UNCHANGED redis /\ UNCHANGED inboxVars
  BY Zenon DEF inboxVars
<1>2. /\ Calls' /\ Turns(c, call'[c])
      /\ Is(call'[c], "idle", Nobody, Nobody, Nobody, Nobody)
  BY <1>1, Ends
<1>3. call'[c].at = "idle"
  BY <1>2 DEF Is
<1>4. CacheCall(call'[c])
  BY <1>3 DEF CacheCall
<1> QED
  BY <1>1, <1>2, <1>3, <1>4, CacheGoes

LEMMA StoreDismissalKeeps ==
  ASSUME CacheInv, Calls, NEW c \in Clients, StoreDismissal(c), flag' = flag, Tasked
  PROVE  Calls' /\ Within(CacheAt) /\ CacheInv'
<1>1. PICK k : k = call[c].of
  OBVIOUS
<1>2. /\ call[c].at = "dismiss" /\ UNCHANGED <<users, redis, hour, post, promised>>
      /\ \/ End(c) /\ note' = note
         \/ /\ note[k] # "absent"
            /\ note' = [note EXCEPT ![k] = IF note[k] = "orphan" THEN note[k] ELSE "dismissed"]
            /\ Go(c, [call[c] EXCEPT !.at = "evict-list", !.as = k])
  BY <1>1, Zenon DEF StoreDismissal
<1>3. k \in Boxes
  BY <1>1, <1>2 DEF CacheInv, CacheCall
<1>4. call[c].at \in CacheAt \ EvictAt
  BY <1>2 DEF CacheAt, InboxAt, EvictAt
<1>5. CASE End(c) /\ note' = note
  BY <1>2, <1>4, <1>5, InboxEnds
<1>6. CASE /\ note[k] # "absent"
           /\ note' = [note EXCEPT ![k] = IF note[k] = "orphan" THEN note[k] ELSE "dismissed"]
           /\ Go(c, [call[c] EXCEPT !.at = "evict-list", !.as = k])
  <2>1. PICK x \in Notes : x = IF note[k] = "orphan" THEN note[k] ELSE "dismissed"
    BY <1>3 DEF CacheInv, InboxTypeOK, Notes
  <2>2. note' = [note EXCEPT ![k] = x]
    BY <1>6, <2>1
  <2>3. x # "absent" /\ (k \in Readers \ users => x \in {"absent", "orphan"})
    BY <1>6, <2>1 DEF CacheInv, Messages
  <2> QED
    BY <1>2, <1>3, <1>4, <1>6, <2>2, <2>3, RowWritten
<1> QED
  BY <1>2, <1>5, <1>6

LEMMA DeleteBannerKeeps ==
  ASSUME CacheInv, Calls, NEW c \in Clients, DeleteBanner(c), flag' = flag, Tasked
  PROVE  Calls' /\ Within(CacheAt) /\ CacheInv'
<1>1. /\ call[c].at = "delete-banner" /\ UNCHANGED <<users, redis, hour, post, promised>>
      /\ \/ End(c) /\ note' = note
         \/ /\ note' = [note EXCEPT !["banners"] = "absent"]
            /\ Go(c, [call[c] EXCEPT !.at = "evict-list", !.as = "banners"])
  BY Zenon DEF DeleteBanner
<1>2. call[c].at \in CacheAt \ EvictAt
  BY <1>1 DEF CacheAt, InboxAt, EvictAt
<1>3. CASE End(c) /\ note' = note
  BY <1>1, <1>2, <1>3, InboxEnds
<1>4. CASE /\ note' = [note EXCEPT !["banners"] = "absent"]
           /\ Go(c, [call[c] EXCEPT !.at = "evict-list", !.as = "banners"])
  <2>1. "absent" \in Notes
    BY DEF Notes
  <2> QED
    BY <1>1, <1>2, <1>4, <2>1, KeysApart, RowWritten
<1> QED
  BY <1>1, <1>3, <1>4

\* Each step of a request for messages.
LEMMA InboxStep ==
  ASSUME CacheInv, Calls, NEW c \in Clients, InboxNext(c), flag' = flag, Tasked
  PROVE  Calls' /\ Within(CacheAt) /\ CacheInv'
BY GetListKeeps, LoadListKeeps, StoreListKeeps, CreateBroadcastKeeps, FindBannerKeeps,
   InsertBannerKeeps, BroadcastKeeps, DeleteBannerKeeps, MarkAsReadKeeps, DismissKeeps,
   StoreReadKeeps, StoreDismissalKeeps, EvictListKeeps, Zenon
   DEF InboxNext

\* The flag.
LEMMA GetFlagKeeps ==
  ASSUME CacheInv, Calls, NEW c \in Clients, GetFlag(c), UNCHANGED inboxVars, Tasked
  PROVE  Calls' /\ Within(CacheAt) /\ CacheInv'
<1>1. /\ Begin(c, Request("load-flag", Nobody, "flag", Nobody))
      /\ users' = users /\ UNCHANGED redis /\ flag' = flag
  BY DEF GetFlag
<1>2. Nobody \in Users \cup {Nobody}
  OBVIOUS
<1>3. /\ call[c].at = "idle" /\ Calls' /\ Turns(c, call'[c])
      /\ Is(call'[c], "load-flag", Nobody, "flag", Nobody, Nobody)
  BY <1>1, <1>2, BeginsRequest
<1>4. call'[c].at = "load-flag"
  BY <1>3 DEF Is
<1>5. CacheCall(call'[c])
  BY <1>4 DEF CacheCall
<1>6. {call[c].at, call'[c].at} \subseteq CacheAt \cup {"idle"} /\ call[c].at \notin EvictAt
  BY <1>3, <1>4 DEF CacheAt, FlagsAt, EvictAt
<1> QED
  BY <1>1, <1>3, <1>5, <1>6, CacheGoes

LEMMA LoadFlagKeeps ==
  ASSUME CacheInv, Calls, NEW c \in Clients, LoadFlag(c), UNCHANGED inboxVars, Tasked
  PROVE  Calls' /\ Within(CacheAt) /\ CacheInv'
<1>1. /\ call[c].at = "load-flag" /\ users' = users /\ UNCHANGED redis /\ flag' = flag
      /\ End(c) \/ (flag # NoFlag /\ GoSeeing(c, "store-flag", flag))
  BY DEF LoadFlag
<1>2. call[c].at \in CacheAt \ EvictAt
  BY <1>1 DEF CacheAt, FlagsAt, EvictAt
<1>3. CASE End(c)
  <2>1. note' = note /\ UNCHANGED <<users, redis, hour, post, promised>>
    BY <1>1 DEF inboxVars
  <2> QED
    BY <1>1, <1>2, <1>3, <2>1, InboxEnds
<1>4. CASE flag # NoFlag /\ GoSeeing(c, "store-flag", flag)
  <2>1. /\ Calls' /\ Turns(c, call'[c])
        /\ Is(call'[c], "store-flag", call[c].by, call[c].of, call[c].as, flag)
    BY <1>1, <1>4, GoesSeeing
  <2>2. call'[c].at = "store-flag" /\ call'[c].seen # NoFlag
    BY <1>4, <2>1 DEF Is
  <2>3. CacheCall(call'[c])
    BY <2>2 DEF CacheCall
  <2>4. {call[c].at, call'[c].at} \subseteq CacheAt \cup {"idle"} /\ call[c].at \notin EvictAt
    BY <1>1, <2>2 DEF CacheAt, FlagsAt, EvictAt
  <2> QED
    BY <1>1, <2>1, <2>3, <2>4, CacheGoes
<1> QED
  BY <1>1, <1>3, <1>4

LEMMA StoreFlagEntryKeeps ==
  ASSUME CacheInv, Calls, NEW c \in Clients, StoreFlagEntry(c), UNCHANGED inboxVars, Tasked
  PROVE  Calls' /\ Within(CacheAt) /\ CacheInv'
<1>1. /\ call[c].at = "store-flag" /\ Store("flag", call[c].seen, flag) /\ End(c)
      /\ users' = users /\ flag' = flag
  BY DEF StoreFlagEntry
<1>2. "flag" \in Keys /\ flag = (Now("flag"))' /\ call[c].seen # NoFlag
  BY <1>1, KeysApart DEF Now, Boxes, CacheInv, CacheCall
<1>3. call[c].at \in CacheAt \ EvictAt
  BY <1>1 DEF CacheAt, FlagsAt, EvictAt
<1> QED
  BY <1>1, <1>2, <1>3, StoreEnds

\* No entry of the flag is there without its row, but one that is explained.
LEMMA CreateFlagKeeps ==
  ASSUME CacheInv, Calls, NEW c \in Clients, NEW a \in Users, NEW f \in FlagRows,
         CreateFlag(c, a, f), UNCHANGED inboxVars, Tasked
  PROVE  Calls' /\ Within(CacheAt) /\ CacheInv'
<1>1. /\ Once(c) /\ users' = users /\ UNCHANGED redis /\ flag = NoFlag /\ flag' = f
  BY DEF CreateFlag
<1>2. call' = call /\ Calls' /\ note' = note /\ post' = post /\ hour' = hour /\ promised' = promised
  BY <1>1, Onced DEF inboxVars
<1>3. Turns(c, call'[c]) /\ Within(CacheAt) /\ \A d \in Clients : CacheCall(call'[d])
  BY <1>2 DEF Turns, Within, CacheInv
<1>4. \A d \in Clients : (CacheCall(call[d]))'
  BY <1>3 DEF CacheCall, Boxes
<1>5. CacheTypeOK' /\ Unmoved({}) /\ entry' = entry /\ excused' = excused
  BY <1>1, UnchangedMoves DEF CacheInv, redis
<1>6. InboxTypeOK' /\ FlagsTypeOK' /\ Messages' /\ BroadcastReachesAll'
  BY <1>1, <1>2 DEF CacheInv, InboxTypeOK, FlagsTypeOK, Messages, BroadcastReachesAll
<1>6a. TaskTypeOK' /\ Figured' /\ finances' = finances
  BY <1>1, TaskedKeeps
<1>7. ASSUME NEW k \in Keys
      PROVE  (Explained(k))'
  <2>1. Explained(k)
    BY DEF CacheInv
  <2>2. k # "flag" => (Now(k))' = Now(k)
    BY <1>2, <1>6a DEF Now, Listed, ListedAt, Boxes
  <2>3. k = "flag" => entry[k] # {Now(k)}
    BY <1>1, KeysApart DEF Now, CacheInv
  <2>4. (Owed(k))' <=> Owed(k)
    BY <1>2 DEF Owed, OwedBy
  <2>5. (Explained(k))' <=> \/ entry[k] = {} \/ entry[k] = {(Now(k))'} \/ Owed(k) \/ k \in excused
    BY <1>5, <2>4 DEF Explained, Miss
  <2> QED
    BY <2>1, <2>2, <2>3, <2>5 DEF Explained, Miss
<1>8. entry'["flag"] # {NoFlag}
  BY <1>1, <1>5 DEF CacheInv
<1> QED
  BY <1>2, <1>3, <1>4, <1>5, <1>6, <1>6a, <1>7, <1>8 DEF CacheInv

LEMMA FindFlagKeeps ==
  ASSUME CacheInv, Calls, NEW c \in Clients, NEW a \in Users, NEW f \in FlagRows \cup {NoFlag},
         FindFlag(c, a, f), UNCHANGED inboxVars, Tasked
  PROVE  Calls' /\ Within(CacheAt) /\ CacheInv'
<1>1. /\ Begin(c, Request("update-flag", a, "flag", f))
      /\ users' = users /\ UNCHANGED redis /\ flag' = flag
  BY DEF FindFlag
<1>2. /\ call[c].at = "idle" /\ Calls' /\ Turns(c, call'[c])
      /\ Is(call'[c], "update-flag", a, "flag", f, Nobody)
  BY <1>1, BeginsRequest
<1>3. call'[c].at = "update-flag" /\ call'[c].as = f
  BY <1>2 DEF Is
<1>4. CacheCall(call'[c])
  BY <1>3 DEF CacheCall
<1>5. {call[c].at, call'[c].at} \subseteq CacheAt \cup {"idle"} /\ call[c].at \notin EvictAt
  BY <1>2, <1>3 DEF CacheAt, FlagsAt, EvictAt
<1> QED
  BY <1>1, <1>2, <1>4, <1>5, CacheGoes

LEMMA StoreFlagKeeps ==
  ASSUME CacheInv, Calls, NEW c \in Clients, StoreFlag(c), UNCHANGED inboxVars, Tasked
  PROVE  Calls' /\ Within(CacheAt) /\ CacheInv'
<1>1. /\ call[c].at = "update-flag" /\ users' = users /\ UNCHANGED redis
      /\ \/ End(c) /\ flag' = flag
         \/ flag' = call[c].as /\ Go(c, [call[c] EXCEPT !.at = "evict-flag"])
  BY Zenon DEF StoreFlag
<1>2. call[c].at \in CacheAt \ EvictAt
  BY <1>1 DEF CacheAt, FlagsAt, EvictAt
<1>3. note' = note /\ UNCHANGED <<users, redis, hour, post, promised>>
  BY <1>1 DEF inboxVars
<1>4. CASE End(c) /\ flag' = flag
  BY <1>2, <1>3, <1>4, InboxEnds
<1>5. CASE flag' = call[c].as /\ Go(c, [call[c] EXCEPT !.at = "evict-flag"])
  <2>1. /\ Calls' /\ Turns(c, call'[c])
        /\ Is(call'[c], "evict-flag", call[c].by, call[c].of, call[c].as, call[c].seen)
    BY <1>1, <1>5, GoesTo
  <2>2. call'[c].at = "evict-flag"
    BY <2>1 DEF Is
  <2>3. CacheCall(call'[c]) /\ OwedBy(call'[c], "flag")
    BY <2>2 DEF CacheCall, OwedBy
  <2>4. {call[c].at, call'[c].at} \subseteq CacheAt \cup {"idle"}
    BY <1>1, <2>2 DEF CacheAt, FlagsAt
  <2>5. CacheTypeOK' /\ Unmoved({}) /\ entry' = entry
    BY <1>1, UnchangedMoves DEF CacheInv
  <2>6. call[c].as \in FlagRows \cup {NoFlag}
    BY <1>1 DEF CacheInv, CacheCall
  <2>7. InboxTypeOK' /\ FlagsTypeOK' /\ Messages'
    BY <1>1, <1>3, <1>5, <2>6 DEF CacheInv, InboxTypeOK, FlagsTypeOK, Messages
  <2>7a. TaskTypeOK' /\ Figured' /\ finances' = finances
    BY <1>1, TaskedKeeps
  <2>7b. BroadcastReachesAll'
    <3>1. ReachedKept
      BY <1>1, <1>3 DEF ReachedKept, Reached
    <3>2. \A d \in Clients : call[d].at = "evict-banner" => call'[d] = call[d]
      BY <1>2, <2>1 DEF Turns, EvictAt
    <3> QED
      BY <3>1, <3>2, StillReached DEF CacheInv
  <2>8. PICK K : K = {"flag"}
    OBVIOUS
  <2>9. Unmoved(K) /\ \A k \in K : Settled(k)
    BY <2>3, <2>5, <2>8 DEF Unmoved, Settled
  <2>10. \A k \in Keys \ K : (Now(k))' = Now(k) /\ ~OwedBy(call[c], k)
    BY <1>1, <1>3, <2>7a, <2>8 DEF Now, Listed, ListedAt, Boxes, OwedBy
  <2>11. \A u \in Readers \ K : post[u] = "evict" => post'[u] = "evict"
    BY <1>3
  <2>12. entry'["flag"] # {NoFlag}
    BY <1>1, <2>5 DEF CacheInv
  <2> QED
    BY <2>1, <2>3, <2>4, <2>5, <2>7, <2>7a, <2>7b, <2>9, <2>10, <2>11, <2>12, CacheTurns,
       StaysInCache
<1> QED
  BY <1>1, <1>4, <1>5

LEMMA EvictFlagKeeps ==
  ASSUME CacheInv, Calls, NEW c \in Clients, EvictFlag(c), UNCHANGED inboxVars, Tasked
  PROVE  Calls' /\ Within(CacheAt) /\ CacheInv'
<1>1. /\ call[c].at = "evict-flag" /\ Delete("flag") /\ End(c)
      /\ users' = users /\ flag' = flag
  BY DEF EvictFlag
<1>2. \A j \in Keys : OwedBy(call[c], j) => j = "flag"
  BY <1>1 DEF OwedBy
<1>3. call[c].at \in CacheAt /\ "flag" \in Keys /\ call[c].at # "evict-banner"
  BY <1>1 DEF CacheAt, FlagsAt, Keys
<1> QED
  BY <1>1, <1>2, <1>3, EvictKeeps

LEMMA FlagsStep ==
  ASSUME CacheInv, Calls, NEW c \in Clients, FlagsNext(c), UNCHANGED inboxVars, Tasked
  PROVE  Calls' /\ Within(CacheAt) /\ CacheInv'
BY GetFlagKeeps, LoadFlagKeeps, StoreFlagEntryKeeps, CreateFlagKeeps, FindFlagKeeps,
   StoreFlagKeeps, EvictFlagKeeps, Zenon
   DEF FlagsNext

\* The tasks, and the finances that the dashboard shows.
LEMMA TaskBeginsKeep ==
  ASSUME CacheInv, Calls, NEW c \in Clients, NEW at \in TaskAt \ EvictAt, NEW as,
         at = "update-task" => as \in TaskStatuses,
         at \in {"insert-transaction", "write-transaction"} => as \in Figures \cup {"none"},
         Begin(c, Request(at, TaskOwner, TaskOwner, as)),
         UNCHANGED <<users, redis, inboxVars, taskVars>>, flag' = flag
  PROVE  Calls' /\ Within(CacheAt) /\ CacheInv'
<1>1. users' = users /\ UNCHANGED redis /\ UNCHANGED inboxVars /\ UNCHANGED taskVars
  BY Zenon
<1>1a. Tasked
  BY <1>1, TaskKept
<1>2. TaskOwner \in Users
  BY ReadersAssumption, TaskOwnerAssumption
<1>3. /\ call[c].at = "idle" /\ Calls' /\ Turns(c, call'[c])
      /\ Is(call'[c], at, TaskOwner, TaskOwner, as, Nobody)
  BY <1>1, <1>2, BeginsRequest
<1>4. call'[c].at = at /\ call'[c].as = as
  BY <1>3 DEF Is
<1>5. CacheCall(call'[c])
  BY <1>4 DEF CacheCall, TaskAt
<1>6. {call[c].at, call'[c].at} \subseteq CacheAt \cup {"idle"} /\ call[c].at \notin EvictAt
  BY <1>3, <1>4 DEF CacheAt, EvictAt
<1> QED
  BY <1>1, <1>1a, <1>3, <1>5, <1>6, CacheGoes

\* A change of the task, of which no entry tells.
LEMMA CreateTaskKeeps ==
  ASSUME CacheInv, Calls, NEW c \in Clients, NEW s \in TaskStatuses, CreateTask(c, s), flag' = flag
  PROVE  Calls' /\ Within(CacheAt) /\ CacheInv'
<1>1. /\ TaskOwner \in users /\ Once(c) /\ task' = s /\ finances' = finances
      /\ users' = users /\ UNCHANGED redis /\ UNCHANGED inboxVars /\ call[c].at = "idle"
  BY DEF CreateTask, Once
<1>2. call' = call /\ Calls'
  BY <1>1, Onced
<1>3. Turns(c, call'[c]) /\ CacheCall(call'[c]) /\ call'[c].at = "idle"
  BY <1>1, <1>2 DEF Turns, CacheCall
<1>4. {call[c].at, call'[c].at} \subseteq CacheAt \cup {"idle"} /\ call[c].at \notin EvictAt
  BY <1>1, <1>3 DEF EvictAt
<1>5. Tasked
  BY <1>1 DEF Tasked, TaskTypeOK, CacheInv
<1> QED
  BY <1>1, <1>2, <1>3, <1>4, <1>5, CacheGoes

LEMMA TaskEnds ==
  ASSUME CacheInv, Calls, NEW c \in Clients, call[c].at \in TaskAt \ EvictAt, End(c),
         users' = users, flag' = flag, UNCHANGED redis, Tasked,
         NEW U, Notify(U) \/ UNCHANGED inboxVars
  PROVE  Calls' /\ Within(CacheAt) /\ CacheInv'
<1>1. CacheTypeOK' /\ Unmoved({}) /\ entry' = entry
  BY UnchangedMoves DEF CacheInv
<1>2. call[c].at \in CacheAt /\ call[c].at # "evict-banner"
  BY DEF CacheAt, EvictAt
<1>3. PICK K : K = {}
  OBVIOUS
<1>4. /\ Unmoved(K) /\ \A k \in K : Settled(k)
      /\ \A k \in Keys \ K : ~OwedBy(call[c], k)
  BY <1>1, <1>3 DEF OwedBy, EvictAt
<1>5. entry'["flag"] # {NoFlag}
  BY <1>1 DEF CacheInv
<1> QED
  BY <1>1, <1>2, <1>4, <1>5, CacheEnds

LEMMA UpdateTaskKeeps ==
  ASSUME CacheInv, Calls, NEW c \in Clients, UpdateTask(c), flag' = flag
  PROVE  Calls' /\ Within(CacheAt) /\ CacheInv'
<1>1. /\ call[c].at = "update-task" /\ End(c) /\ users' = users
      /\ UNCHANGED redis /\ UNCHANGED inboxVars /\ finances' = finances
      /\ task' = IF task = "none" THEN task ELSE call[c].as
  BY DEF UpdateTask
<1>2. call[c].as \in TaskStatuses /\ call[c].at \in TaskAt \ EvictAt
  BY <1>1 DEF CacheInv, CacheCall, TaskAt, EvictAt
<1>3. Tasked
  BY <1>1, <1>2 DEF Tasked, TaskTypeOK, Figured, CacheInv
<1> QED
  BY <1>1, <1>2, <1>3, TaskEnds

LEMMA DeleteTaskKeeps ==
  ASSUME CacheInv, Calls, NEW c \in Clients, DeleteTask(c), flag' = flag
  PROVE  Calls' /\ Within(CacheAt) /\ CacheInv'
<1>1. /\ call[c].at = "delete-task" /\ End(c) /\ users' = users
      /\ UNCHANGED redis /\ finances' = finances
      /\ Notify({TaskOwner}) \/ UNCHANGED inboxVars
      /\ task' = task \/ task' = "none"
  BY DEF DeleteTask
<1>2. call[c].at \in TaskAt \ EvictAt
  BY <1>1 DEF TaskAt, EvictAt
<1>3. Tasked
  BY <1>1 DEF Tasked, TaskTypeOK, Figured, CacheInv
<1> QED
  BY <1>1, <1>2, <1>3, TaskEnds

\* The transactions change, and the entry is owed to be deleted, or excused.
LEMMA FiguresWritten ==
  ASSUME CacheInv, Calls', NEW c \in Clients, Turns(c, call'[c]), CacheCall(call'[c]),
         {call[c].at, call'[c].at} \subseteq CacheAt \cup {"idle"}, call[c].at \notin EvictAt,
         users' = users, flag' = flag, UNCHANGED inboxVars, task' = task,
         finances' \in Figures \cup {"none"}, TaskOwner \in users \/ finances = "none",
         TaskOwner \in users \/ finances' = "none",
         \/ OwedBy(call'[c], "dashboard") /\ UNCHANGED redis
         \/ ChangeUnnoticed({"dashboard"})
  PROVE  Calls' /\ Within(CacheAt) /\ CacheInv'
<1>1. {"dashboard"} \in SUBSET Keys
  BY KeysApart
<1>2. /\ CacheTypeOK' /\ Unmoved({}) /\ entry' = entry
      /\ \/ OwedBy(call'[c], "dashboard")
         \/ \A k \in {"dashboard"} : entry'[k] = {} \/ k \in excused'
  BY <1>1, ChangeMoves, UnchangedMoves DEF CacheInv
<1>3. hour' = hour /\ note' = note /\ post' = post /\ promised' = promised
  BY DEF inboxVars
<1>4. InboxTypeOK' /\ FlagsTypeOK' /\ TaskTypeOK' /\ Messages' /\ Figured'
  BY <1>3 DEF CacheInv, InboxTypeOK, FlagsTypeOK, TaskTypeOK, Messages, Figured
<1>5. BroadcastReachesAll'
  <2>1. ReachedKept
    BY <1>3 DEF ReachedKept, Reached
  <2>2. \A d \in Clients : call[d].at = "evict-banner" => call'[d] = call[d]
    BY DEF Turns, EvictAt
  <2> QED
    BY <2>1, <2>2, StillReached DEF CacheInv
<1>6. PICK K : K = {"dashboard"}
  OBVIOUS
<1>7. Unmoved(K) /\ \A k \in K : Settled(k)
  BY <1>2, <1>6 DEF Unmoved, Settled
<1>8. \A k \in Keys \ K : (Now(k))' = Now(k) /\ ~OwedBy(call[c], k)
  <2> SUFFICES ASSUME NEW k \in Keys \ K
               PROVE  (Now(k))' = Now(k) /\ ~OwedBy(call[c], k)
    OBVIOUS
  <2>1. k \in Boxes \/ k = "flag"
    BY <1>6, KeysApart
  <2> QED
    BY <1>3, <2>1 DEF Now, Listed, ListedAt, Boxes, OwedBy, EvictAt
<1>9. \A u \in Readers \ K : post[u] = "evict" => post'[u] = "evict"
  BY <1>3
<1>10. entry'["flag"] # {NoFlag}
  BY <1>2 DEF CacheInv
<1> QED
  BY <1>2, <1>4, <1>5, <1>7, <1>8, <1>9, <1>10, CacheTurns, StaysInCache

LEMMA WriteTransactionKeeps ==
  ASSUME CacheInv, Calls, NEW c \in Clients, WriteTransaction(c), flag' = flag
  PROVE  Calls' /\ Within(CacheAt) /\ CacheInv'
<1>1. /\ call[c].at \in {"insert-transaction", "write-transaction"}
      /\ users' = users /\ UNCHANGED redis /\ UNCHANGED inboxVars /\ task' = task
      /\ \/ /\ TaskOwner \in users \/ finances # "none"
            /\ finances' = call[c].as /\ Go(c, [call[c] EXCEPT !.at = "evict-dashboard"])
         \/ End(c) /\ finances' = finances
  BY Zenon DEF WriteTransaction
<1>2. /\ call[c].at \in TaskAt \ EvictAt /\ call[c].at \in CacheAt
      /\ call[c].as \in Figures \cup {"none"}
  BY <1>1 DEF TaskAt, EvictAt, CacheAt, CacheInv, CacheCall
<1>3. CASE End(c) /\ finances' = finances
  <2>1. Tasked
    BY <1>1, <1>3 DEF Tasked, TaskTypeOK, Figured, CacheInv
  <2> QED
    BY <1>1, <1>2, <1>3, <2>1, TaskEnds
<1>4. CASE /\ TaskOwner \in users \/ finances # "none"
           /\ finances' = call[c].as /\ Go(c, [call[c] EXCEPT !.at = "evict-dashboard"])
  <2>1. /\ Calls' /\ Turns(c, call'[c])
        /\ Is(call'[c], "evict-dashboard", call[c].by, call[c].of, call[c].as, call[c].seen)
    BY <1>1, <1>4, GoesTo
  <2>2. call'[c].at = "evict-dashboard"
    BY <2>1 DEF Is
  <2>3. CacheCall(call'[c]) /\ OwedBy(call'[c], "dashboard")
    BY <2>2 DEF CacheCall, OwedBy
  <2>4. {call[c].at, call'[c].at} \subseteq CacheAt \cup {"idle"} /\ call[c].at \notin EvictAt
    BY <1>2, <2>2 DEF CacheAt, TaskAt
  <2>5. TaskOwner \in users
    BY <1>4 DEF CacheInv, Figured
  <2> QED
    BY <1>1, <1>2, <1>4, <2>1, <2>3, <2>4, <2>5, FiguresWritten
<1> QED
  BY <1>1, <1>3, <1>4

LEMMA InvalidateDashboardKeeps ==
  ASSUME CacheInv, Calls, NEW c \in Clients, InvalidateDashboard(c), flag' = flag
  PROVE  Calls' /\ Within(CacheAt) /\ CacheInv'
<1>1. /\ call[c].at = "evict-dashboard" /\ Delete("dashboard") /\ End(c)
      /\ users' = users /\ UNCHANGED inboxVars /\ UNCHANGED taskVars
  BY Zenon DEF InvalidateDashboard
<1>2. \A j \in Keys : OwedBy(call[c], j) => j = "dashboard"
  BY <1>1 DEF OwedBy
<1>3. call[c].at \in CacheAt /\ "dashboard" \in Keys /\ call[c].at # "evict-banner"
  BY <1>1 DEF CacheAt, TaskAt, Keys
<1>4. Tasked
  BY <1>1, TaskKept
<1> QED
  BY <1>1, <1>2, <1>3, <1>4, EvictKeeps

LEMMA SettleGroupKeeps ==
  ASSUME CacheInv, Calls, NEW c \in Clients, NEW f \in Figures, SettleGroup(c, f), flag' = flag
  PROVE  Calls' /\ Within(CacheAt) /\ CacheInv'
<1>1. /\ TaskOwner \in users /\ Once(c) /\ finances' = f /\ ChangeUnnoticed({"dashboard"})
      /\ users' = users /\ UNCHANGED inboxVars /\ task' = task /\ call[c].at = "idle"
  BY DEF SettleGroup, Once
<1>2. call' = call /\ Calls'
  BY <1>1, Onced
<1>3. Turns(c, call'[c]) /\ CacheCall(call'[c]) /\ call'[c].at = "idle"
  BY <1>1, <1>2 DEF Turns, CacheCall
<1>4. {call[c].at, call'[c].at} \subseteq CacheAt \cup {"idle"} /\ call[c].at \notin EvictAt
  BY <1>1, <1>3 DEF EvictAt
<1> QED
  BY <1>1, <1>2, <1>3, <1>4, FiguresWritten

LEMMA BuildDashboardKeeps ==
  ASSUME CacheInv, Calls, NEW c \in Clients, BuildDashboard(c), flag' = flag
  PROVE  Calls' /\ Within(CacheAt) /\ CacheInv'
<1>1. /\ call[c].at = "build-dashboard" /\ GoSeeing(c, "store-dashboard", finances)
      /\ users' = users /\ UNCHANGED redis /\ UNCHANGED inboxVars /\ UNCHANGED taskVars
  BY Zenon DEF BuildDashboard
<1>2. Tasked
  BY <1>1, TaskKept
<1>3. /\ Calls' /\ Turns(c, call'[c])
      /\ Is(call'[c], "store-dashboard", call[c].by, call[c].of, call[c].as, finances)
  BY <1>1, GoesSeeing
<1>4. call'[c].at = "store-dashboard"
  BY <1>3 DEF Is
<1>5. CacheCall(call'[c])
  BY <1>4 DEF CacheCall
<1>6. {call[c].at, call'[c].at} \subseteq CacheAt \cup {"idle"} /\ call[c].at \notin EvictAt
  BY <1>1, <1>4 DEF CacheAt, TaskAt, EvictAt
<1> QED
  BY <1>1, <1>2, <1>3, <1>5, <1>6, CacheGoes

LEMMA StoreDashboardKeeps ==
  ASSUME CacheInv, Calls, NEW c \in Clients, StoreDashboard(c), flag' = flag
  PROVE  Calls' /\ Within(CacheAt) /\ CacheInv'
<1>1. /\ call[c].at = "store-dashboard" /\ Store("dashboard", call[c].seen, finances) /\ End(c)
      /\ users' = users /\ UNCHANGED inboxVars /\ UNCHANGED taskVars
  BY Zenon DEF StoreDashboard
<1>2. Tasked /\ finances' = finances
  BY <1>1, TaskKept DEF taskVars
<1>3. "dashboard" \in Keys /\ finances = (Now("dashboard"))'
  BY <1>2, KeysApart DEF Now, Boxes
<1>4. call[c].at \in CacheAt \ EvictAt
  BY <1>1 DEF CacheAt, TaskAt, EvictAt
<1> QED
  BY <1>1, <1>2, <1>3, <1>4, StoreEnds

LEMMA TaskStep ==
  ASSUME CacheInv, Calls, NEW c \in Clients, TaskNext(c), flag' = flag
  PROVE  Calls' /\ Within(CacheAt) /\ CacheInv'
<1>1. ASSUME NEW s \in TaskStatuses, GetTask(c, "update-task", s)
      PROVE  Calls' /\ Within(CacheAt) /\ CacheInv'
  BY <1>1, TaskBeginsKeep DEF GetTask, TaskAt, EvictAt
<1>2. CASE GetTask(c, "delete-task", Nobody)
  BY <1>2, TaskBeginsKeep DEF GetTask, TaskAt, EvictAt
<1>3. CASE GetDashboard(c)
  BY <1>3, TaskBeginsKeep DEF GetDashboard, TaskAt, EvictAt
<1>4. ASSUME NEW f \in Figures, CreateTransaction(c, f)
      PROVE  Calls' /\ Within(CacheAt) /\ CacheInv'
  BY <1>4, TaskBeginsKeep DEF CreateTransaction, TaskAt, EvictAt
<1>5. ASSUME NEW f \in Figures \cup {"none"}, FindTransaction(c, f)
      PROVE  Calls' /\ Within(CacheAt) /\ CacheInv'
  BY <1>5, TaskBeginsKeep DEF FindTransaction, TaskAt, EvictAt
<1> QED
  BY <1>1, <1>2, <1>3, <1>4, <1>5, CreateTaskKeeps, UpdateTaskKeeps, DeleteTaskKeeps,
     WriteTransactionKeeps, InvalidateDashboardKeeps, SettleGroupKeeps, BuildDashboardKeeps,
     StoreDashboardKeeps, Zenon DEF TaskNext

\* Steps that move no request, or none of these services.
Still(S) == \A d \in Clients : call'[d] = call[d] \/ {call[d].at, call'[d].at} \cap S = {}

LEMMA WithinStill ==
  ASSUME NEW S, NEW T, Within(T), S \cap T = {}, "idle" \notin S
  PROVE  Still(S)
BY DEF Within, Still

LEMMA CacheStill ==
  ASSUME CacheInv, Still(CacheAt),
         CacheTypeOK', InboxTypeOK', Messages', flag' = flag, Tasked, users' = users,
         ReachedKept,
         entry'["flag"] # {NoFlag},
         NEW K, Unmoved(K), \A k \in K : Settled(k),
         \A k \in Boxes \ K : (Listed(k))' = Listed(k),
         \A u \in Readers \ K : post[u] = "evict" => post'[u] = "evict"
  PROVE  CacheInv'
<1>1. \A d \in Clients : call'[d].at \in CacheAt \/ call[d].at \in CacheAt => call'[d] = call[d]
  BY DEF Still
<1>2. \A d \in Clients : CacheCall(call'[d])
  BY <1>1 DEF CacheInv, CacheCall, CacheAt, InboxAt, FlagsAt, TaskAt
<1>3. \A d \in Clients : (CacheCall(call[d]))'
  BY <1>2 DEF CacheCall, Boxes
<1>4. \A d \in Clients, k \in Keys \ K : OwedBy(call[d], k) => OwedBy(call'[d], k)
  BY <1>1 DEF OwedBy, CacheAt, InboxAt, FlagsAt, TaskAt
<1>4a. TaskTypeOK' /\ Figured' /\ finances' = finances
  BY TaskedKeeps
<1>5. \A k \in Keys \ K : (Now(k))' = Now(k)
  BY <1>4a DEF Now, Boxes
<1>6. \A k \in Keys : (Explained(k))'
  BY <1>4, <1>5, Explains
<1>7. FlagsTypeOK'
  BY DEF CacheInv, FlagsTypeOK
<1>8. BroadcastReachesAll'
  <2>1. \A d \in Clients : call[d].at = "evict-banner" => call'[d] = call[d]
    BY <1>1 DEF CacheAt, InboxAt
  <2> QED
    BY <2>1, StillReached DEF CacheInv
<1> QED
  BY <1>3, <1>4a, <1>6, <1>7, <1>8 DEF CacheInv

LEMMA CacheKept ==
  ASSUME CacheInv, Still(CacheAt), UNCHANGED redis, flag' = flag, Tasked, users' = users,
         NEW U, Notify(U) \/ UNCHANGED inboxVars
  PROVE  CacheInv'
<1>1. CacheTypeOK' /\ Unmoved({}) /\ entry' = entry
  BY UnchangedMoves DEF CacheInv
<1>2. /\ InboxTypeOK' /\ Messages' /\ ReachedKept /\ note' = note /\ hour' = hour
      /\ \A u \in Readers : post[u] = "evict" => post'[u] = "evict"
  BY NotifyMoves DEF CacheInv
<1>3. PICK K : K = {}
  OBVIOUS
<1>4. Unmoved(K) /\ \A k \in K : Settled(k)
  BY <1>1, <1>3
<1>5. \A k \in Boxes \ K : (Listed(k))' = Listed(k)
  BY <1>2 DEF Listed, ListedAt
<1>6. entry'["flag"] # {NoFlag}
  BY <1>1 DEF CacheInv
<1> QED
  BY <1>1, <1>2, <1>4, <1>5, <1>6, CacheStill

\* A message gets on its way, or off it.
LEMMA PostMoves ==
  ASSUME InboxTypeOK, Messages, NEW u \in Readers, NEW p \in {"none", "evict"},
         note' = note \/ (u \in users /\ note' = [note EXCEPT ![u] = "unread"]),
         p = "evict" => note'[u] # "absent",
         post' = [post EXCEPT ![u] = p],
         promised' = promised \/ promised' = promised \ {u},
         u \in promised' \cap users => note'[u] # "absent",
         users' = users, hour' = hour
  PROVE  /\ InboxTypeOK' /\ Messages' /\ ReachedKept
         /\ \A k \in Boxes \ {u} : (Listed(k))' = Listed(k)
         /\ \A v \in Readers \ {u} : post'[v] = post[v]
<1>1. /\ post' \in [Readers -> {"none", "insert", "evict"}] /\ post'[u] = p
      /\ \A v \in Readers \ {u} : post'[v] = post[v]
  BY DEF InboxTypeOK
<1>2. /\ note' \in [Boxes -> Notes]
      /\ \A k \in Boxes \ {u} : note'[k] = note[k]
      /\ note'[u] = note[u] \/ (u \in users /\ note'[u] = "unread")
  BY KeysApart DEF InboxTypeOK, Notes
<1>3. Messages'
  <2>1. \A v \in Readers : post'[v] = "evict" => note'[v] # "absent"
    BY <1>1, <1>2, KeysApart DEF Messages
  <2>2. \A v \in Readers \ users : note'[v] \in {"absent", "orphan"}
    BY <1>2, KeysApart DEF Messages
  <2> QED
    BY <2>1, <2>2 DEF Messages
<1>4. ReachedKept
  <2> SUFFICES ASSUME NEW v \in Readers, Reached(v), v \in promised', v \in users
               PROVE  (Reached(v))'
    BY DEF ReachedKept
  <2>1. CASE v = u
    BY <2>1 DEF Reached
  <2>2. CASE v # u
    BY <1>1, <1>2, <2>2, KeysApart DEF Reached
  <2> QED
    BY <2>1, <2>2
<1> QED
  BY <1>1, <1>2, <1>3, <1>4 DEF InboxTypeOK, Listed, ListedAt

LEMMA BackgroundKeeps ==
  ASSUME CacheInv, Background, flag' = flag, Tasked
  PROVE  call' = call /\ calls' = calls /\ users' = users /\ CacheInv'
<1>1. call' = call /\ calls' = calls /\ users' = users
  BY DEF Background, InsertNote, EvictNote, DropPost, desk
<1>2. Still(CacheAt)
  BY <1>1 DEF Still
<1>3. InboxTypeOK /\ Messages /\ CacheTypeOK /\ entry["flag"] # {NoFlag}
  BY DEF CacheInv
<1>4. ASSUME NEW u \in Readers, InsertNote(u)
      PROVE  CacheInv'
  <2>1. /\ post[u] = "insert" /\ UNCHANGED redis
        /\ \/ /\ u \in users /\ note' = [note EXCEPT ![u] = "unread"]
              /\ post' = [post EXCEPT ![u] = "evict"]
           \/ u \notin users /\ post' = [post EXCEPT ![u] = "none"] /\ note' = note
        /\ hour' = hour /\ promised' = promised
    BY <1>4 DEF InsertNote
  <2>1a. promised' = promised \/ promised' = promised \ {u}
    BY <2>1
  <2>2. CacheTypeOK' /\ Unmoved({}) /\ entry' = entry
    BY <1>3, <2>1, UnchangedMoves
  <2>3. CASE /\ u \in users /\ note' = [note EXCEPT ![u] = "unread"]
             /\ post' = [post EXCEPT ![u] = "evict"]
    <3>1. note'[u] = "unread"
      BY <1>3, <2>3, KeysApart DEF InboxTypeOK
    <3>2. /\ InboxTypeOK' /\ Messages' /\ ReachedKept
          /\ \A k \in Boxes \ {u} : (Listed(k))' = Listed(k)
          /\ \A v \in Readers \ {u} : post'[v] = post[v]
      <4>1. /\ note' = note \/ (u \in users /\ note' = [note EXCEPT ![u] = "unread"])
            /\ note'[u] # "absent" /\ post' = [post EXCEPT ![u] = "evict"]
            /\ users' = users /\ hour' = hour
        BY <1>1, <2>1, <2>3, <3>1
      <4> QED
        BY <1>3, <2>1a, <4>1, PostMoves
    <3>3. PICK K : K = {u}
      OBVIOUS
    <3>4. Unmoved(K) /\ \A k \in K : Settled(k)
      BY <1>3, <2>2, <2>3, <3>3 DEF Unmoved, Settled, InboxTypeOK
    <3> QED
      BY <1>1, <1>2, <1>3, <2>2, <3>2, <3>3, <3>4, CacheStill
  <2>4. CASE u \notin users /\ post' = [post EXCEPT ![u] = "none"] /\ note' = note
    <3>1. /\ InboxTypeOK' /\ Messages' /\ ReachedKept
          /\ \A k \in Boxes \ {u} : (Listed(k))' = Listed(k)
          /\ \A v \in Readers \ {u} : post'[v] = post[v]
      BY <1>1, <1>3, <2>1, <2>1a, <2>4, PostMoves
    <3>2. PICK K : K = {}
      OBVIOUS
    <3>3. Unmoved(K) /\ \A k \in K : Settled(k)
      BY <2>2, <3>2
    <3>4. \A k \in Boxes \ K : (Listed(k))' = Listed(k)
      BY <2>1, <2>4 DEF Listed, ListedAt
    <3>5. \A v \in Readers \ K : post[v] = "evict" => post'[v] = "evict"
      BY <2>1, <3>1
    <3> QED
      BY <1>1, <1>2, <1>3, <2>2, <3>1, <3>3, <3>4, <3>5, CacheStill
  <2> QED
    BY <2>1, <2>3, <2>4
<1>5. ASSUME NEW u \in Readers, EvictNote(u)
      PROVE  CacheInv'
  <2>1. /\ post[u] = "evict" /\ Delete(u)
        /\ post' = [post EXCEPT ![u] = "none"] /\ note' = note
        /\ hour' = hour /\ promised' = promised
    BY <1>5 DEF EvictNote
  <2>2. /\ CacheTypeOK' /\ Unmoved({u}) /\ (entry'[u] = {} \/ u \in excused')
        /\ \A j \in Keys : entry'[j] \in {entry[j], {}}
    BY <1>3, <2>1, DeleteMoves, KeysApart
  <2>3. note'[u] # "absent"
    BY <1>3, <2>1 DEF Messages
  <2>4. /\ InboxTypeOK' /\ Messages' /\ ReachedKept
        /\ \A k \in Boxes \ {u} : (Listed(k))' = Listed(k)
        /\ \A v \in Readers \ {u} : post'[v] = post[v]
    BY <1>1, <1>3, <2>1, <2>3, PostMoves
  <2>5. PICK K : K = {u}
    OBVIOUS
  <2>6. Unmoved(K) /\ \A k \in K : Settled(k)
    BY <2>2, <2>5 DEF Settled
  <2>7. entry'["flag"] # {NoFlag}
    BY <1>3, <2>2, KeysApart
  <2> QED
    BY <1>1, <1>2, <2>2, <2>4, <2>5, <2>6, <2>7, CacheStill
<1>6. ASSUME NEW u \in Readers, DropPost(u)
      PROVE  CacheInv'
  <2>1. /\ post[u] # "none"
        /\ \/ post[u] = "evict" /\ ChangeUnnoticed({u}) /\ promised' = promised
           \/ post[u] = "insert" /\ UNCHANGED redis /\ promised' = promised \ {u}
        /\ post' = [post EXCEPT ![u] = "none"] /\ note' = note /\ hour' = hour
    BY <1>3, <1>6 DEF DropPost, InboxTypeOK
  <2>2. u \in promised' => note'[u] # "absent"
    BY <1>3, <2>1 DEF Messages
  <2>3. promised' = promised \/ promised' = promised \ {u}
    BY <2>1
  <2>4. /\ InboxTypeOK' /\ Messages' /\ ReachedKept
        /\ \A k \in Boxes \ {u} : (Listed(k))' = Listed(k)
        /\ \A v \in Readers \ {u} : post'[v] = post[v]
    BY <1>1, <1>3, <2>1, <2>2, <2>3, PostMoves
  <2>5. PICK K : K = IF post[u] = "evict" THEN {u} ELSE {}
    OBVIOUS
  <2>6. {u} \in SUBSET Keys
    BY KeysApart
  <2>7. /\ CacheTypeOK' /\ Unmoved({}) /\ entry' = entry
        /\ post[u] = "evict" => entry'[u] = {} \/ u \in excused'
    BY <1>3, <2>1, <2>6, UnchangedMoves, ChangeMoves
  <2>8. Unmoved(K) /\ \A k \in K : Settled(k)
    BY <2>5, <2>7 DEF Unmoved, Settled
  <2>9. \A k \in Boxes \ K : (Listed(k))' = Listed(k)
    BY <2>1 DEF Listed, ListedAt
  <2>10. \A v \in Readers \ K : post[v] = "evict" => post'[v] = "evict"
    BY <2>4, <2>5
  <2> QED
    BY <1>1, <1>2, <1>3, <2>4, <2>7, <2>8, <2>9, <2>10, CacheStill
<1>7. ASSUME NEW k \in Keys, Expire(k), UNCHANGED inboxVars
      PROVE  CacheInv'
  <2>1. /\ CacheTypeOK' /\ Unmoved({k}) /\ entry'[k] = {}
        /\ \A j \in Keys : entry'[j] \in {entry[j], {}}
    BY <1>3, <1>7, ExpireMoves
  <2>2. note' = note /\ post' = post /\ hour' = hour /\ promised' = promised
    BY <1>7 DEF inboxVars
  <2>3. InboxTypeOK' /\ Messages' /\ ReachedKept
    BY <1>1, <1>3, <2>2 DEF InboxTypeOK, Messages, ReachedKept, Reached
  <2>4. PICK K : K = {k}
    OBVIOUS
  <2>5. Unmoved(K) /\ \A j \in K : Settled(j)
    BY <2>1, <2>4 DEF Settled
  <2>6. /\ \A j \in Boxes \ K : (Listed(j))' = Listed(j)
        /\ \A v \in Readers \ K : post[v] = "evict" => post'[v] = "evict"
    BY <2>2 DEF Listed, ListedAt
  <2>7. entry'["flag"] # {NoFlag}
    BY <1>3, <2>1, KeysApart
  <2> QED
    BY <1>1, <1>2, <2>1, <2>3, <2>5, <2>6, <2>7, CacheStill
<1> QED
  BY <1>1, <1>4, <1>5, <1>6, <1>7 DEF Background

\* An hour passes: what the list of banners shows may change, that of the others not.
LEMMA NewHourKeeps ==
  ASSUME CacheInv, Calls, NewHour, flag' = flag, Tasked
  PROVE  Calls' /\ Within(CacheAt) /\ CacheInv'
<1>1. /\ hour < MaxHour /\ hour' = hour + 1
      /\ users' = users /\ call' = call /\ calls' = calls
      /\ note' = note /\ post' = post /\ promised' = promised
  BY DEF NewHour, desk
<1>2. Calls' /\ Within(CacheAt) /\ Still(CacheAt)
  BY <1>1 DEF Calls, IsCall, Within, Still
<1>3. PICK K : K = IF ListedAt("banners", hour + 1) = Listed("banners") THEN {} ELSE {"banners"}
  OBVIOUS
<1>4. ChangeUnnoticed(K) /\ K \in SUBSET Keys
  BY <1>3, KeysApart DEF NewHour
<1>5. /\ CacheTypeOK' /\ Unmoved({}) /\ entry' = entry
      /\ \A k \in K : entry'[k] = {} \/ k \in excused'
  BY <1>4, ChangeMoves DEF CacheInv
<1>6. Unmoved(K) /\ \A k \in K : Settled(k)
  BY <1>5 DEF Unmoved, Settled
<1>7. InboxTypeOK' /\ Messages' /\ ReachedKept
  <2>1. hour' \in 0 .. MaxHour
    BY <1>1, MaxHourAssumption DEF CacheInv, InboxTypeOK
  <2> QED
    BY <1>1, <2>1 DEF CacheInv, InboxTypeOK, Messages, ReachedKept, Reached
<1>8. \A k \in Boxes \ K : (Listed(k))' = Listed(k)
  <2> SUFFICES ASSUME NEW k \in Boxes \ K
               PROVE  (Listed(k))' = Listed(k)
    OBVIOUS
  <2>1. CASE k = "banners"
    <3>1. ListedAt("banners", hour + 1) = Listed("banners")
      BY <1>3, <2>1
    <3> QED
      BY <1>1, <2>1, <3>1 DEF Listed, ListedAt
  <2>2. CASE k # "banners"
    BY <1>1, <2>2 DEF Listed, ListedAt
  <2> QED
    BY <2>1, <2>2
<1>9. entry'["flag"] # {NoFlag}
  BY <1>5 DEF CacheInv
<1>10. \A u \in Readers \ K : post[u] = "evict" => post'[u] = "evict"
  BY <1>1
<1> QED
  BY <1>1, <1>2, <1>5, <1>6, <1>7, <1>8, <1>9, <1>10, CacheStill

\* A request that stops before its delete leaves the entry excused.
LEMMA CacheStopped ==
  ASSUME CacheInv, NEW c \in Clients, Stop(c), Turns(c, call'[c]), call'[c].at = "idle"
  PROVE  CacheInv'
<1>1. PICK at : at = call[c].at
  OBVIOUS
<1>2. PICK owed : owed = CASE at = "evict-list" -> {call[c].as}
                           [] at = "evict-banner" -> {"banners"}
                           [] at = "evict-dashboard" -> {"dashboard"}
                           [] at = "evict-flag" -> {"flag"}
                           [] OTHER -> {}
  OBVIOUS
<1>3. ChangeUnnoticed(owed)
  BY <1>1, <1>2, Zenon DEF Stop
<1>4. /\ users' = users /\ flag' = flag /\ UNCHANGED taskVars
      /\ hour' = hour /\ note' = note /\ post' = post
      /\ promised' = IF at = "evict-banner" THEN promised \ call[c].seen ELSE promised
  BY <1>1, Zenon DEF Stop
<1>4a. Tasked
  BY <1>4, TaskKept
<1>4b. TaskTypeOK' /\ Figured' /\ finances' = finances
  BY <1>4, <1>4a, TaskedKeeps
<1>5. /\ at = "evict-list" => owed = {call[c].as}
      /\ at = "evict-banner" => owed = {"banners"}
      /\ at = "evict-flag" => owed = {"flag"}
      /\ at = "evict-dashboard" => owed = {"dashboard"}
      /\ at \notin EvictAt => owed = {}
  BY <1>2 DEF EvictAt
<1>6. owed \in SUBSET Keys
  BY <1>1, <1>5, KeysApart DEF CacheInv, CacheCall, EvictAt
<1>7. /\ CacheTypeOK' /\ Unmoved({}) /\ entry' = entry
      /\ \A k \in owed : entry'[k] = {} \/ k \in excused'
  BY <1>3, <1>6, ChangeMoves DEF CacheInv
<1>8. Unmoved(owed) /\ \A k \in owed : Settled(k)
  BY <1>7 DEF Unmoved, Settled
<1>9. InboxTypeOK' /\ FlagsTypeOK' /\ Messages'
  BY <1>4 DEF CacheInv, InboxTypeOK, FlagsTypeOK, Messages
\* With the process the messages go that it had yet to send.
<1>10. BroadcastReachesAll'
  <2>1. ReachedKept
    BY <1>4 DEF ReachedKept, Reached
  <2>2. \A d \in Clients : call[d].at = "evict-banner" =>
          call'[d] = call[d] \/ promised' \cap call[d].seen = {}
    BY <1>1, <1>4 DEF Turns
  <2> QED
    BY <2>1, <2>2, StillReached DEF CacheInv
<1>11. \A k \in Keys \ owed : (Now(k))' = Now(k) /\ ~OwedBy(call[c], k)
  BY <1>1, <1>4, <1>4b, <1>5 DEF Now, Listed, ListedAt, Boxes, OwedBy
<1>12. \A u \in Readers \ owed : post[u] = "evict" => post'[u] = "evict"
  BY <1>4
<1>13. CacheCall(call'[c])
  BY DEF CacheCall
<1>14. entry'["flag"] # {NoFlag}
  BY <1>7 DEF CacheInv
<1> QED
  BY <1>4b, <1>7, <1>8, <1>9, <1>10, <1>11, <1>12, <1>13, <1>14, CacheTurns

\* An account goes with its tasks, its messages become nobody's.
LEMMA CacheDeleted ==
  ASSUME CacheInv, NEW c \in Clients, Turns(c, call'[c]), call'[c].at = "idle",
         call[c].at \notin EvictAt, NEW u \in Users, users' = users \ {u},
         note' = Orphaned(u), hour' = hour, promised' = promised, post' = post,
         task' = TasksDeleted(u), finances' = finances, u = TaskOwner => finances = "none",
         ChangeUnnoticed({u} \cap Readers), flag' = flag
  PROVE  CacheInv'
<1>1. PICK K : K = {u} \cap Readers
  OBVIOUS
<1>2. ChangeUnnoticed(K) /\ K \in SUBSET Keys
  BY <1>1, KeysApart
<1>3. /\ CacheTypeOK' /\ Unmoved({}) /\ entry' = entry
      /\ \A k \in K : entry'[k] = {} \/ k \in excused'
  BY <1>2, ChangeMoves DEF CacheInv
<1>4. Unmoved(K) /\ \A k \in K : Settled(k)
  BY <1>3 DEF Unmoved, Settled
<1>5. \A k \in Boxes : note'[k] = IF k = u /\ note[k] # "absent" THEN "orphan" ELSE note[k]
  BY DEF Orphaned
<1>6. InboxTypeOK'
  BY <1>5 DEF CacheInv, InboxTypeOK, Orphaned, Notes
<1>7. Messages'
  <2>1. \A v \in Readers : post'[v] = "evict" => note'[v] # "absent"
    BY <1>5, KeysApart DEF CacheInv, Messages
  <2>2. \A v \in Readers \ users' : note'[v] \in {"absent", "orphan"}
    BY <1>5, KeysApart DEF CacheInv, Messages
  <2> QED
    BY <2>1, <2>2 DEF Messages
<1>7a. BroadcastReachesAll'
  <2>1. ReachedKept
    BY <1>5, KeysApart DEF ReachedKept, Reached
  <2>2. \A d \in Clients : call[d].at = "evict-banner" => call'[d] = call[d]
    BY DEF Turns, EvictAt
  <2> QED
    BY <2>1, <2>2, StillReached DEF CacheInv
<1>8. FlagsTypeOK' /\ TaskTypeOK' /\ Figured'
  BY DEF CacheInv, FlagsTypeOK, TaskTypeOK, TasksDeleted, Figured
<1>9. \A k \in Keys \ K : (Now(k))' = Now(k) /\ ~OwedBy(call[c], k)
  <2> SUFFICES ASSUME NEW k \in Keys \ K
               PROVE  (Now(k))' = Now(k)
    BY DEF OwedBy, EvictAt
  <2>1. CASE k \in Readers
    <3>1. note'[k] = note[k] /\ k \in Boxes
      BY <1>1, <1>5, <2>1, KeysApart
    <3> QED
      BY <3>1 DEF Now, Listed, ListedAt, Boxes
  <2>2. CASE k = "banners"
    <3>1. note'[k] = note[k] /\ k \in Boxes
      BY <1>5, <2>2, KeysApart, KeysAssumption
    <3> QED
      BY <3>1 DEF Now, Listed, ListedAt, Boxes
  <2>3. CASE k = "flag"
    BY <2>3, KeysApart DEF Now, Boxes
  <2>4. CASE k = "dashboard"
    BY <2>4, KeysApart DEF Now, Boxes
  <2> QED
    BY <2>1, <2>2, <2>3, <2>4, KeysApart
<1>10. CacheCall(call'[c]) /\ entry'["flag"] # {NoFlag}
  BY <1>3 DEF CacheCall, CacheInv
<1>11. \A v \in Readers \ K : post[v] = "evict" => post'[v] = "evict"
  OBVIOUS
<1> QED
  BY <1>3, <1>4, <1>6, <1>7, <1>7a, <1>8, <1>9, <1>10, <1>11, CacheTurns

LEMMA CacheInit == Init => CacheInv
<1> SUFFICES ASSUME Init
             PROVE  CacheInv
  OBVIOUS
<1>1. /\ users = Users /\ call = [c \in Clients |-> NoCall]
      /\ note \in IF "inbox" \in desks
                  THEN {[k \in Boxes |-> n] : n \in {"absent", "unread"}}
                  ELSE {[k \in Boxes |-> "absent"]}
      /\ post = [u \in Readers |-> "none"] /\ promised = {} /\ hour = 0
      /\ entry = [k \in Keys |-> {}] /\ faults = 0 /\ excused = {}
      /\ flag \in IF "flags" \in desks THEN FlagRows ELSE {NoFlag}
      /\ task \in IF "task" \in desks THEN TaskStatuses ELSE {"none"}
      /\ finances \in IF "task" \in desks THEN Figures \cup {"none"} ELSE {"none"}
  BY Zenon DEF Init
<1>2. \A c \in Clients : CacheCall(call[c])
  BY <1>1 DEF NoCall, CacheCall
<1>3. CacheTypeOK /\ InboxTypeOK
  <2>1. note \in [Boxes -> Notes]
    BY <1>1 DEF Notes
  <2>2. hour \in 0 .. MaxHour
    BY <1>1, MaxHourAssumption
  <2> QED
    BY <1>1, <2>1, <2>2, MaxFaultsAssumption DEF CacheTypeOK, InboxTypeOK, Miss
<1>4. FlagsTypeOK /\ TaskTypeOK /\ Figured
  BY <1>1, ReadersAssumption, TaskOwnerAssumption DEF FlagsTypeOK, TaskTypeOK, Figured
<1>5. Messages /\ BroadcastReachesAll
  BY <1>1, ReadersAssumption DEF Messages, BroadcastReachesAll
<1>6. entry["flag"] # {NoFlag} /\ \A k \in Keys : Explained(k)
  BY <1>1, KeysApart DEF Explained, Miss
<1> QED
  BY <1>2, <1>3, <1>4, <1>5, <1>6 DEF CacheInv

-----------------------------------------------------------------------------
(* Habits.                                                                 *)

HabitRows == [there : BOOLEAN, frequency : Frequencies, streak : Nat, longest : Nat,
              last : 0 .. MaxDay]

\* The days of L, up to the last one, with no longer gap between them; those of a run C
\* that a habit of frequency f leaves out; and how many it counts.
ChainOf(L, last, gap) ==
  {d \in L : \A e \in L : d <= e /\ e < last =>
               \E g \in L : e < g /\ Midnight[g] - Midnight[e] <= gap}
UncountedOf(C, f) ==
  {d \in C : f = "DAILY" /\ d - 1 \in C /\ Midnight[d] - Midnight[d - 1] = 23}
CountOf(L, last, f) ==
  Cardinality(ChainOf(L, last, Gap(f))) - Cardinality(UncountedOf(ChainOf(L, last, Gap(f)), f))

\* Row h counts the run of days that ends the log L.
Runs(h, L, now) ==
  /\ h.streak = CountOf(L, h.last, h.frequency)
  /\ h.longest >= h.streak
  /\ h.last \in L \cup {0}
  /\ \A d \in L : d <= h.last
  /\ h.last <= now

\* What a request about a habit carries.
HabitCall(r) ==
  /\ r.at \in {"update-habit", "delete-habit", "check-log", "insert-log", "update-streak"} =>
       r.by \in Readers
  /\ r.at = "update-habit" => r.as \in Frequencies
  /\ r.at \in {"check-log", "insert-log", "update-streak"} => r.seen \in HabitRows
  /\ r.at \in {"insert-log", "update-streak"} => r.as \in Days

\* One request at most completes the habit, from the row as it is; between its two
\* writes the row counts the log without the day that it adds.
Undisturbed(u) ==
  /\ \A c, d \in Clients : Completing(c, u) /\ Completing(d, u) => c = d
  /\ \A c \in Clients : Completing(c, u) => call[c].seen = habit[u]
  /\ (\A c \in Clients : Completing(c, u) => call[c].at # "update-streak") =>
       Runs(habit[u], Logged(u), today)
  /\ \A c \in Clients : Completing(c, u) /\ call[c].at = "insert-log" =>
       call[c].as \notin Logged(u) /\ habit[u].last < call[c].as /\ call[c].as <= today
  /\ \A c \in Clients : Completing(c, u) /\ call[c].at = "update-streak" =>
       /\ call[c].as \in Logged(u) /\ habit[u].last < call[c].as /\ call[c].as <= today
       /\ Runs(habit[u], Logged(u) \ {call[c].as}, today)

HabitInv ==
  /\ HabitTypeOK
  /\ \A c \in Clients : HabitCall(call[c])
  /\ \A u \in Readers \ users : habit[u] = NoHabit /\ log[u] = NoLog
  /\ \A u \in Readers \ disturbed : habit[u].there => Undisturbed(u)

HabitAt == {"update-habit", "delete-habit", "check-log", "insert-log", "update-streak"}
CompleteAt == {"check-log", "insert-log", "update-streak"}

LEMMA DaysFinite ==
  ASSUME NEW L \in SUBSET Days
  PROVE  IsFiniteSet(L) /\ Cardinality(L) \in Nat
<1>1. IsFiniteSet(Days)
  BY FS_Interval, MaxDayAssumption DEF Days
<1> QED
  BY <1>1, FS_Subset, FS_CardinalityType

LEMMA GapIs ==
  ASSUME NEW f \in Frequencies
  PROVE  Gap(f) \in Nat /\ (f = "DAILY" => Gap(f) = 24) /\ (f # "DAILY" => Gap(f) = 24 * Week)
BY WeekAssumption DEF Gap, Frequencies

LEMMA NothingCounts ==
  ASSUME NEW L, L = {}, NEW last, NEW f
  PROVE  CountOf(L, last, f) = 0
<1>1. ChainOf(L, last, Gap(f)) = {}
  BY DEF ChainOf
<1>2. UncountedOf({}, f) = {}
  BY DEF UncountedOf
<1>3. Cardinality({}) = 0
  BY FS_EmptySet
<1>4. CountOf(L, last, f) = Cardinality({}) - Cardinality({})
  BY <1>1, <1>2, Zenon DEF CountOf
<1> QED
  BY <1>3, <1>4

\* Later days begin later; two that are 23 hours apart follow each other, and two that
\* follow each other are 23, 24 or 25 hours apart.
LEMMA MidnightsPass ==
  ASSUME NEW d \in Days, NEW e \in Days, d < e
  PROVE  /\ Midnight[d] \in Int /\ Midnight[e] \in Int /\ Midnight[d] < Midnight[e]
         /\ Midnight[e] - Midnight[d] <= 24 => e = d + 1
         /\ e = d + 1 => Midnight[e] - Midnight[d] >= 23
<1>1. d \in Int /\ e \in Int
  BY MaxDayAssumption DEF Days
<1>2. Midnight[d] \in Nat /\ Midnight[e] \in Nat
  BY MidnightAssumption DEF Days
<1>3. Midnight[e] - Midnight[d] \in 24 * (e - d) - 1 .. 24 * (e - d) + 1
  BY MidnightAssumption DEF Days
<1> QED
  BY <1>1, <1>2, <1>3

\* A later day makes the run longer, or starts another.
LEMMA ChainGrows ==
  ASSUME NEW L \in SUBSET Days, NEW h \in HabitRows, NEW now \in Days, Runs(h, L, now),
         NEW day \in Days, h.last < day
  PROVE  /\ Streak(h, day) \in Nat
         /\ Streak(h, day) = CountOf(L \cup {day}, day, h.frequency)
<1> DEFINE last == h.last
           f == h.frequency
           gap == Gap(f)
           old == ChainOf(L, last, gap)
           new == ChainOf(L \cup {day}, day, gap)
           apart == Midnight[day] - Midnight[last]
<1>1. /\ last \in 0 .. MaxDay /\ f \in Frequencies /\ h.streak \in Nat
      /\ gap \in Nat
      /\ f = "DAILY" => gap = 24
      /\ f # "DAILY" => gap = 24 * Week
  BY GapIs DEF HabitRows
<1>2. /\ h.streak = CountOf(L, last, f) /\ last \in L \cup {0} /\ \A d \in L : d <= last
  BY DEF Runs
<1>3. day \in Int /\ last \in Int /\ L \subseteq Int /\ last < day /\ day \notin L /\ MaxDay \in Nat
  BY <1>1, <1>2, MaxDayAssumption DEF Days
<1>4. /\ old \in SUBSET Days /\ old \subseteq L /\ day \notin old
      /\ IsFiniteSet(old) /\ Cardinality(old) \in Nat
  <2>1. old \in SUBSET Days /\ old \subseteq L
    BY DEF ChainOf
  <2> QED
    BY <1>3, <2>1, DaysFinite
<1>5. day \in new
  BY <1>3 DEF ChainOf
<1>6. /\ UncountedOf(old, f) \in SUBSET Days /\ day \notin UncountedOf(old, f)
      /\ IsFiniteSet(UncountedOf(old, f)) /\ Cardinality(UncountedOf(old, f)) \in Nat
  <2>1. UncountedOf(old, f) \subseteq old
    BY DEF UncountedOf
  <2>2. UncountedOf(old, f) \in SUBSET Days /\ day \notin UncountedOf(old, f)
    BY <1>4, <2>1
  <2> QED
    BY <2>2, DaysFinite
<1>7. \A d, e \in Days :
        d < e => /\ Midnight[d] \in Int /\ Midnight[e] \in Int /\ Midnight[d] < Midnight[e]
                 /\ Midnight[e] - Midnight[d] <= 24 => e = d + 1
                 /\ e = d + 1 => Midnight[e] - Midnight[d] >= 23
  BY MidnightsPass
<1>8. 24 * Week \in Nat
  BY WeekAssumption
<1> HIDE DEF last, f, gap, old, new, apart
<1>9. CASE last \in L /\ apart <= gap
  <2>1. /\ last \in Days /\ Midnight[last] \in Int /\ Midnight[day] \in Int
        /\ Midnight[last] < Midnight[day] /\ apart \in Int
    <3>1. last \in Days
      BY <1>9
    <3> QED
      BY <1>3, <1>7, <3>1 DEF apart
  <2>2. new = old \cup {day}
    <3>1. ASSUME NEW d \in old
          PROVE  d \in new
      <4>1. /\ d \in L
            /\ \A e \in L : d <= e /\ e < last =>
                 \E g \in L : e < g /\ Midnight[g] - Midnight[e] <= gap
        BY DEF ChainOf, old
      <4>2. ASSUME NEW e \in L \cup {day}, d <= e, e < day
            PROVE  \E g \in L \cup {day} : e < g /\ Midnight[g] - Midnight[e] <= gap
        <5>1. e \in L /\ e <= last
          BY <1>2, <1>3, <4>2
        <5>2. CASE e = last
          BY <1>9, <4>2, <5>2 DEF apart
        <5>3. CASE e # last
          BY <1>3, <4>1, <4>2, <5>1, <5>3
        <5> QED
          BY <5>2, <5>3
      <4> QED
        BY <4>1, <4>2 DEF ChainOf, new
    <3>2. ASSUME NEW d \in new, d # day
          PROVE  d \in old
      <4>1. /\ d \in L
            /\ \A e \in L \cup {day} : d <= e /\ e < day =>
                 \E g \in L \cup {day} : e < g /\ Midnight[g] - Midnight[e] <= gap
        BY <3>2 DEF ChainOf, new
      <4>2. ASSUME NEW e \in L, d <= e, e < last
            PROVE  \E g \in L : e < g /\ Midnight[g] - Midnight[e] <= gap
        <5>1. PICK g \in L \cup {day} : e < g /\ Midnight[g] - Midnight[e] <= gap
          BY <1>3, <4>1, <4>2
        <5>2. CASE g \in L
          BY <5>1, <5>2
        <5>3. CASE g = day
          <6>1. Midnight[e] \in Int
            BY <1>7, <2>1, <4>2
          <6>2. Midnight[last] - Midnight[e] <= gap
            BY <1>1, <2>1, <5>1, <5>3, <6>1
          <6> QED
            BY <1>9, <4>2, <6>2
        <5> QED
          BY <5>2, <5>3
      <4> QED
        BY <4>1, <4>2 DEF ChainOf, old
    <3> QED
      BY <1>5, <3>1, <3>2
  <2>3. Cardinality(new) = Cardinality(old) + 1
    BY <1>4, <2>2, FS_AddElement
  <2>4. last \in old
    BY <1>3, <1>9 DEF ChainOf, old
  <2>5. \A d \in old : d - 1 \in new <=> d - 1 \in old
    BY <1>2, <1>3, <1>4, <2>2
  <2>6. CASE f = "DAILY" /\ apart = 23
    <3>1. day = last + 1
      BY <1>3, <1>7, <2>1, <2>6 DEF apart
    <3>2. day - 1 = last
      BY <1>3, <3>1
    <3>3. UncountedOf(new, f) = UncountedOf(old, f) \cup {day}
      BY <2>2, <2>4, <2>5, <2>6, <3>2 DEF UncountedOf, apart
    <3>4. Cardinality(UncountedOf(new, f)) = Cardinality(UncountedOf(old, f)) + 1
      BY <1>6, <3>3, FS_AddElement
    <3>5. CountOf(L \cup {day}, day, f) = CountOf(L, last, f)
      BY <1>4, <1>6, <2>3, <3>4 DEF CountOf, old, new, gap
    <3>6. Streak(h, day) = h.streak
      BY <1>3, <2>1, <2>6 DEF Streak, last, f, apart, Days
    <3> QED
      BY <1>1, <1>2, <3>5, <3>6 DEF last, f
  <2>7. CASE ~(f = "DAILY" /\ apart = 23)
    <3>1. UncountedOf(new, f) = UncountedOf(old, f)
      <4>1. day \notin UncountedOf(new, f)
        <5> SUFFICES ASSUME f = "DAILY", day - 1 \in new, Midnight[day] - Midnight[day - 1] = 23
                     PROVE  FALSE
          BY DEF UncountedOf
        <5>1. day - 1 \in old
          BY <1>3, <2>2
        <5>2. day - 1 = last
          BY <1>2, <1>3, <1>4, <5>1
        <5> QED
          BY <2>7, <5>2 DEF apart
      <4> QED
        BY <2>2, <2>5, <4>1 DEF UncountedOf
    <3>2. CountOf(L \cup {day}, day, f) = CountOf(L, last, f) + 1
      BY <1>4, <1>6, <2>3, <3>1 DEF CountOf, old, new, gap
    <3>3. Streak(h, day) = h.streak + 1
      <4>1. last # 0
        BY <2>1 DEF Days
      <4>2. CASE f = "DAILY"
        <5>1. apart = 24
          BY <1>1, <1>3, <1>7, <1>9, <2>1, <2>7, <4>2 DEF apart
        <5> QED
          BY <4>1, <4>2, <5>1 DEF Streak, last, f, apart
      <4>3. CASE f = "WEEKLY"
        <5>1. apart <= 24 * Week
          BY <1>1, <1>9, <4>3
        <5> QED
          BY <4>1, <4>3, <5>1, <1>8, <2>1 DEF Streak, last, f, apart
      <4> QED
        BY <1>1, <4>2, <4>3 DEF Frequencies
    <3> QED
      BY <1>1, <1>2, <3>2, <3>3 DEF last, f
  <2> QED
    BY <2>6, <2>7
<1>10. CASE ~(last \in L /\ apart <= gap)
  <2>1. new = {day}
    <3> SUFFICES ASSUME NEW d \in new, d # day
                 PROVE  FALSE
      BY <1>5
    <3>1. /\ d \in L
          /\ \A e \in L \cup {day} : d <= e /\ e < day =>
               \E g \in L \cup {day} : e < g /\ Midnight[g] - Midnight[e] <= gap
      BY DEF ChainOf, new
    <3>2. last \in L
      BY <1>2, <1>3, <3>1 DEF Days
    <3>3. d <= last
      BY <1>2, <3>1
    <3>4. PICK g \in L \cup {day} : last < g /\ Midnight[g] - Midnight[last] <= gap
      BY <1>3, <3>1, <3>2, <3>3
    <3>5. g # day
      BY <1>10, <3>2, <3>4 DEF apart
    <3>6. g <= last
      BY <1>2, <3>4, <3>5
    <3> QED
      BY <1>3, <3>4, <3>5, <3>6
  <2>2. Cardinality(new) = 1
    BY <2>1, FS_Singleton
  <2>3. UncountedOf(new, f) = {}
    BY <1>3, <2>1 DEF UncountedOf
  <2>4. Cardinality(UncountedOf(new, f)) = 0
    BY <2>3, FS_EmptySet
  <2>5. CountOf(L \cup {day}, day, f) = 1
    BY <2>2, <2>4 DEF CountOf, new, gap
  <2>6. Streak(h, day) = 1
    <3>1. CASE last = 0
      BY <3>1 DEF Streak, last
    <3>2. CASE last # 0
      <4>1. last \in L
        BY <1>2, <3>2
      <4>2. apart \in Int /\ apart > gap
        BY <1>1, <1>3, <1>7, <1>10, <4>1 DEF apart
      <4>3. CASE f = "DAILY"
        <5>1. apart > 24 /\ apart # 24
          BY <1>1, <4>2, <4>3
        <5> QED
          BY <3>2, <4>3, <5>1 DEF Streak, last, f, apart
      <4>4. CASE f = "WEEKLY"
        <5>1. apart > 24 * Week /\ ~(apart <= 24 * Week)
          BY <1>1, <1>8, <4>2, <4>4
        <5> QED
          BY <3>2, <4>4, <5>1 DEF Streak, last, f, apart
      <4> QED
        BY <1>1, <4>3, <4>4 DEF Frequencies
    <3> QED
      BY <3>1, <3>2
  <2> QED
    BY <2>5, <2>6 DEF f
<1> QED
  BY <1>9, <1>10

LEMMA StreakNat ==
  ASSUME NEW h \in HabitRows, NEW day \in Days
  PROVE  Streak(h, day) \in Nat
<1>1. h.streak \in Nat
  BY DEF HabitRows
<1> QED
  BY <1>1 DEF Streak

\* What StreakIsRun says of a habit.
LEMMA RunsHold ==
  ASSUME HabitInv
  PROVE  StreakIsRun
<1> SUFFICES ASSUME NEW u \in Readers \ disturbed, habit[u].there,
                    \A c \in Clients : ~Completing(c, u)
             PROVE  /\ habit[u].streak = Cardinality(Chain(u)) - Cardinality(Uncounted(u))
                    /\ habit[u].longest >= habit[u].streak
  BY DEF StreakIsRun
<1>1. Runs(habit[u], Logged(u), today)
  BY DEF HabitInv, Undisturbed
<1>2. Chain(u) = ChainOf(Logged(u), habit[u].last, Gap(habit[u].frequency))
  BY DEF Chain, ChainOf, Logged
<1>3. Uncounted(u) = UncountedOf(Chain(u), habit[u].frequency)
  BY DEF Uncounted, UncountedOf
<1> QED
  BY <1>1, <1>2, <1>3 DEF Runs, CountOf

\* A habit that a step leaves alone, whose completion does not end between its writes.
LEMMA UndisturbedKept ==
  ASSUME NEW u \in Readers, Undisturbed(u), habit'[u] = habit[u], log'[u] = log[u],
         habit[u] \in HabitRows, \A c \in Clients : HabitCall(call[c]),
         today \in Days, today' \in Days, today <= today',
         \A d \in Clients : (Completing(d, u))' => call'[d] = call[d],
         \A d \in Clients : Completing(d, u) /\ call[d].at = "update-streak" => call'[d] = call[d]
  PROVE  (Undisturbed(u))'
<1>1. PICK L : L = Logged(u)
  OBVIOUS
<1>2. (Logged(u))' = L
  BY <1>1 DEF Logged, Days
<1>3. ASSUME NEW M, Runs(habit[u], M, today)
      PROVE  Runs(habit'[u], M, today')
  <2>1. habit[u].last \in Int
    BY DEF HabitRows
  <2> QED
    BY <1>3, <2>1 DEF Runs, Days
<1>4. \A d \in Clients : (Completing(d, u))' => Completing(d, u) /\ call'[d] = call[d]
  BY DEF Completing
<1>5. \A d \in Clients : Completing(d, u) /\ call[d].at = "update-streak" =>
                           (Completing(d, u))' /\ call'[d] = call[d]
  BY DEF Completing
<1>6. \A c, d \in Clients : (Completing(c, u))' /\ (Completing(d, u))' => c = d
  BY <1>4 DEF Undisturbed
<1>7. \A c \in Clients : (Completing(c, u))' => call'[c].seen = habit'[u]
  BY <1>4 DEF Undisturbed
<1>8. (\A c \in Clients : (Completing(c, u))' => call'[c].at # "update-streak") =>
         Runs(habit'[u], L, today')
  BY <1>1, <1>3, <1>5 DEF Undisturbed
<1>9. ASSUME NEW c \in Clients, (Completing(c, u))', call'[c].at \in {"insert-log", "update-streak"}
      PROVE  call'[c].as <= today'
  <2>1. call[c].as <= today /\ call'[c] = call[c] /\ call[c].as \in Days
    BY <1>4, <1>9 DEF Undisturbed, HabitCall
  <2> QED
    BY <2>1 DEF Days
<1>10. \A c \in Clients : (Completing(c, u))' /\ call'[c].at = "insert-log" =>
         call'[c].as \notin L /\ habit'[u].last < call'[c].as /\ call'[c].as <= today'
  BY <1>1, <1>4, <1>9 DEF Undisturbed
<1>11. \A c \in Clients : (Completing(c, u))' /\ call'[c].at = "update-streak" =>
         /\ call'[c].as \in L /\ habit'[u].last < call'[c].as /\ call'[c].as <= today'
         /\ Runs(habit'[u], L \ {call'[c].as}, today')
  BY <1>1, <1>3, <1>4, <1>9 DEF Undisturbed
<1> QED
  BY <1>2, <1>6, <1>7, <1>8, <1>10, <1>11 DEF Undisturbed

LEMMA NoHabitIs ==
  /\ NoHabit \in HabitRows /\ ~NoHabit.there /\ NoLog \in [Days -> Nat]
  /\ NoHabit.streak = 0 /\ NoHabit.longest = 0 /\ NoHabit.last = 0
BY MaxDayAssumption DEF NoHabit, NoLog, HabitRows, Frequencies

\* One request turns, and may change one user's habit.
LEMMA HabitTurns ==
  ASSUME HabitInv, NEW c \in Clients, Turns(c, call'[c]), HabitCall(call'[c]),
         HabitTypeOK', today' = today, NEW u \in Readers,
         \A v \in Readers \ {u} : v \in users => v \in users',
         call[c].at \in CompleteAt => call[c].by = u,
         call'[c].at \in CompleteAt => call'[c].by = u,
         \A v \in Readers \ {u} : /\ habit'[v] = habit[v] /\ log'[v] = log[v]
                                  /\ v \in disturbed => v \in disturbed',
         u \notin users' => habit'[u] = NoHabit /\ log'[u] = NoLog,
         u \notin disturbed' /\ habit'[u].there => (Undisturbed(u))'
  PROVE  HabitInv'
<1>1. \A d \in Clients : HabitCall(call'[d])
  BY DEF HabitInv, Turns
<1>2. \A d \in Clients : (HabitCall(call[d]))'
  BY <1>1 DEF HabitCall, HabitRows, Days
<1>3. \A v \in Readers \ users' : habit'[v] = NoHabit /\ log'[v] = NoLog
  BY DEF HabitInv
<1>4. ASSUME NEW v \in Readers \ disturbed', habit'[v].there
      PROVE  (Undisturbed(v))'
  <2>1. CASE v = u
    BY <1>4, <2>1
  <2>2. CASE v # u
    <3>1. habit'[v] = habit[v] /\ log'[v] = log[v] /\ Undisturbed(v)
      BY <1>4, <2>2 DEF HabitInv
    <3>2. habit[v] \in HabitRows /\ today \in Days
      BY DEF HabitInv, HabitTypeOK, HabitRows
    <3>3. /\ \A d \in Clients : (Completing(d, v))' => call'[d] = call[d]
          /\ \A d \in Clients : Completing(d, v) => call'[d] = call[d]
      BY <2>2 DEF Turns, Completing, CompleteAt
    <3>4. today <= today'
      BY <3>2 DEF Days
    <3> QED
      BY <3>1, <3>2, <3>3, <3>4, UndisturbedKept DEF HabitInv
  <2> QED
    BY <2>1, <2>2
<1>5. NoHabit' = NoHabit /\ NoLog' = NoLog
  BY DEF NoHabit, NoLog, Days
<1> QED
  BY <1>2, <1>3, <1>4, <1>5 DEF HabitInv

\* It goes to a stage that completes nothing, and no habit changes.
LEMMA HabitQuiet ==
  ASSUME HabitInv, NEW c \in Clients, Turns(c, call'[c]), HabitCall(call'[c]),
         call'[c].at \notin CompleteAt, call[c].at # "update-streak",
         today' = today, habit' = habit, log' = log, disturbed' = disturbed, users' = users
  PROVE  HabitInv'
<1>1. HabitTypeOK'
  BY DEF HabitInv, HabitTypeOK
<1>2. PICK u \in Readers : call[c].at \in CompleteAt => call[c].by = u
  BY TaskOwnerAssumption DEF HabitInv, HabitCall, CompleteAt
<1>3. ASSUME u \notin disturbed', habit'[u].there
      PROVE  (Undisturbed(u))'
  <2>1. Undisturbed(u) /\ habit[u] \in HabitRows /\ today \in Days
    BY <1>3 DEF HabitInv, HabitTypeOK, HabitRows
  <2>2. /\ \A d \in Clients : (Completing(d, u))' => call'[d] = call[d]
        /\ \A d \in Clients : Completing(d, u) /\ call[d].at = "update-streak" => call'[d] = call[d]
    BY DEF Turns, Completing, CompleteAt
  <2>3. today <= today'
    BY <2>1 DEF Days
  <2> QED
    BY <2>1, <2>2, <2>3, UndisturbedKept DEF HabitInv
<1>4. u \notin users' => habit'[u] = NoHabit /\ log'[u] = NoLog
  BY DEF HabitInv
<1> QED
  BY <1>1, <1>2, <1>3, <1>4, HabitTurns

LEMMA CreateHabitKeeps ==
  ASSUME HabitInv, Calls, NEW c \in Clients, NEW u \in Readers, NEW f \in Frequencies,
         CreateHabit(c, u, f)
  PROVE  Calls' /\ Within(HabitAt) /\ HabitInv'
<1>1. PICK row : row = [NoHabit EXCEPT !.there = TRUE, !.frequency = f]
  OBVIOUS
<1>2. /\ u \in users /\ ~habit[u].there /\ Once(c) /\ call[c].at = "idle"
      /\ \A d \in Clients : call[d].by # u
      /\ habit' = [habit EXCEPT ![u] = row] /\ log' = [log EXCEPT ![u] = NoLog]
      /\ disturbed' = disturbed \ {u} /\ users' = users /\ today' = today
  BY <1>1, Zenon DEF CreateHabit, Once
<1>3. call' = call /\ Calls'
  BY <1>2, Onced
<1>4. Turns(c, call'[c]) /\ Within(HabitAt) /\ HabitCall(call'[c]) /\ call'[c].at = "idle"
  BY <1>2, <1>3 DEF Turns, Within, HabitInv
<1>5. PICK one : one = [NoHabit EXCEPT !.there = TRUE]
  OBVIOUS
<1>6. one \in HabitRows /\ one.there /\ one.streak = 0 /\ one.longest = 0 /\ one.last = 0
  BY <1>5, NoHabitIs DEF HabitRows
<1>7. row = [one EXCEPT !.frequency = f]
  BY <1>1, <1>5, Zenon
<1>8. row \in HabitRows /\ row.there /\ row.streak = 0 /\ row.longest = 0 /\ row.last = 0
  BY <1>6, <1>7 DEF HabitRows
<1>9. /\ habit \in [Readers -> HabitRows] /\ log \in [Readers -> [Days -> Nat]] /\ today \in Days
      /\ disturbed \subseteq Readers
  BY DEF HabitInv, HabitTypeOK, HabitRows
<1>10. /\ habit' \in [Readers -> HabitRows] /\ habit'[u] = row
       /\ log' \in [Readers -> [Days -> Nat]] /\ log'[u] = NoLog
       /\ \A v \in Readers \ {u} : habit'[v] = habit[v] /\ log'[v] = log[v]
  BY <1>2, <1>8, <1>9, NoHabitIs
<1>11. HabitTypeOK'
  BY <1>2, <1>9, <1>10 DEF HabitTypeOK, HabitRows
<1>12. (Undisturbed(u))'
  <2>1. PICK L : L = (Logged(u))'
    OBVIOUS
  <2>2. L = {}
    BY <1>10, <2>1 DEF Logged, NoLog, Days
  <2>3. \A d \in Clients : ~(Completing(d, u))'
    BY <1>2, <1>3 DEF Completing
  <2>4. Runs(habit'[u], L, today')
    <3>1. CountOf(L, 0, row.frequency) = 0
      BY <2>2, NothingCounts
    <3> QED
      BY <1>2, <1>8, <1>9, <1>10, <2>2, <3>1 DEF Runs, Days
  <2> QED
    BY <2>1, <2>3, <2>4 DEF Undisturbed
<1>13. call[c].at \notin CompleteAt
  BY <1>2 DEF CompleteAt
<1>14. HabitInv'
  BY <1>2, <1>4, <1>10, <1>11, <1>12, <1>13, HabitTurns DEF CompleteAt
<1> QED
  BY <1>3, <1>4, <1>14

LEMMA FindHabitKeeps ==
  ASSUME HabitInv, Calls, NEW c \in Clients, NEW u \in Readers,
         NEW next \in {"update-habit", "delete-habit"}, NEW f,
         next = "update-habit" => f \in Frequencies, FindHabit(c, u, next, f)
  PROVE  Calls' /\ Within(HabitAt) /\ HabitInv'
<1>1. /\ Begin(c, Request(next, u, u, f)) /\ users' = users
      /\ today' = today /\ habit' = habit /\ log' = log /\ disturbed' = disturbed
  BY DEF FindHabit, habitVars
<1>2. u \in Users
  BY ReadersAssumption
<1>3. /\ call[c].at = "idle" /\ Calls' /\ Turns(c, call'[c])
      /\ Is(call'[c], next, u, u, f, Nobody)
  BY <1>1, <1>2, BeginsRequest
<1>4. call'[c].at = next /\ call'[c].by = u /\ call'[c].as = f
  BY <1>3 DEF Is
<1>5. HabitCall(call'[c]) /\ call'[c].at \notin CompleteAt
  BY <1>4 DEF HabitCall, CompleteAt
<1>6. Within(HabitAt)
  BY <1>3, <1>4, TurnsWithin DEF HabitAt
<1> QED
  BY <1>1, <1>3, <1>5, <1>6, HabitQuiet

\* A change of the frequency disturbs; a deletion leaves nothing to count.
LEMMA HabitWritten ==
  ASSUME HabitInv, Calls, NEW c \in Clients, End(c), call[c].at \in HabitAt \ CompleteAt,
         NEW u \in Readers, u = call[c].by, users' = users, today' = today,
         \/ habit' = habit /\ log' = log /\ disturbed' = disturbed
         \/ /\ habit[u].there /\ log' = log /\ disturbed' = disturbed \cup {u}
            /\ \E f \in Frequencies : habit' = [habit EXCEPT ![u].frequency = f]
         \/ /\ habit' = [habit EXCEPT ![u] = NoHabit] /\ log' = [log EXCEPT ![u] = NoLog]
            /\ disturbed' = disturbed
  PROVE  Calls' /\ Within(HabitAt) /\ HabitInv'
<1>1. /\ Calls' /\ Turns(c, call'[c])
      /\ Is(call'[c], "idle", Nobody, Nobody, Nobody, Nobody)
  BY Ends
<1>2. call'[c].at = "idle"
  BY <1>1 DEF Is
<1>3. HabitCall(call'[c]) /\ call'[c].at \notin CompleteAt /\ Within(HabitAt)
  BY <1>1, <1>2, TurnsWithin DEF HabitCall, CompleteAt
<1>4. /\ habit \in [Readers -> HabitRows] /\ log \in [Readers -> [Days -> Nat]] /\ today \in Days
      /\ disturbed \subseteq Readers
  BY DEF HabitInv, HabitTypeOK, HabitRows
<1>5. CASE habit' = habit /\ log' = log /\ disturbed' = disturbed
  BY <1>1, <1>3, <1>5, HabitQuiet DEF CompleteAt
<1>6. CASE /\ habit[u].there /\ log' = log /\ disturbed' = disturbed \cup {u}
           /\ \E f \in Frequencies : habit' = [habit EXCEPT ![u].frequency = f]
  <2>1. /\ habit' \in [Readers -> HabitRows]
        /\ \A v \in Readers \ {u} : habit'[v] = habit[v]
    BY <1>4, <1>6 DEF HabitRows
  <2>2. HabitTypeOK'
    BY <1>4, <1>6, <2>1 DEF HabitTypeOK, HabitRows
  <2>3. u \in users
    BY <1>6, NoHabitIs DEF HabitInv
  <2>4. /\ \A v \in Readers \ {u} : /\ habit'[v] = habit[v] /\ log'[v] = log[v]
                                    /\ v \in disturbed => v \in disturbed'
        /\ u \in disturbed'
    BY <1>6, <2>1
  <2>5. HabitInv'
    BY <1>1, <1>3, <2>2, <2>3, <2>4, HabitTurns
  <2> QED
    BY <1>1, <1>3, <2>5
<1>7. CASE /\ habit' = [habit EXCEPT ![u] = NoHabit] /\ log' = [log EXCEPT ![u] = NoLog]
           /\ disturbed' = disturbed
  <2>1. /\ habit' \in [Readers -> HabitRows] /\ habit'[u] = NoHabit
        /\ log' \in [Readers -> [Days -> Nat]] /\ log'[u] = NoLog
        /\ \A v \in Readers \ {u} : habit'[v] = habit[v] /\ log'[v] = log[v]
    BY <1>4, <1>7, NoHabitIs
  <2>2. HabitTypeOK'
    BY <1>4, <1>7, <2>1 DEF HabitTypeOK, HabitRows
  <2>3. ~habit'[u].there
    BY <2>1, NoHabitIs
  <2>4. HabitInv'
    BY <1>1, <1>3, <1>7, <2>1, <2>2, <2>3, HabitTurns
  <2> QED
    BY <1>1, <1>3, <2>4
<1> QED
  BY <1>5, <1>6, <1>7

LEMMA UpdateHabitKeeps ==
  ASSUME HabitInv, Calls, NEW c \in Clients, UpdateHabit(c)
  PROVE  Calls' /\ Within(HabitAt) /\ HabitInv'
<1>1. PICK u : u = call[c].by
  OBVIOUS
<1>2. PICK f : f = call[c].as
  OBVIOUS
<1>3. /\ call[c].at = "update-habit" /\ End(c) /\ users' = users /\ today' = today /\ log' = log
      /\ habit' = IF habit[u].there THEN [habit EXCEPT ![u].frequency = f] ELSE habit
      /\ disturbed' = IF habit' = habit THEN disturbed ELSE disturbed \cup {u}
  BY <1>1, <1>2, Zenon DEF UpdateHabit
<1>4. u \in Readers /\ f \in Frequencies
  BY <1>1, <1>2, <1>3 DEF HabitInv, HabitCall
<1>5. \/ habit' = habit /\ disturbed' = disturbed
      \/ /\ habit[u].there /\ habit' = [habit EXCEPT ![u].frequency = f]
         /\ disturbed' = disturbed \cup {u}
  BY <1>3, Zenon
<1>6. call[c].at \in HabitAt \ CompleteAt
  BY <1>3 DEF HabitAt, CompleteAt
<1> QED
  BY <1>1, <1>3, <1>4, <1>5, <1>6, HabitWritten

LEMMA DeleteHabitKeeps ==
  ASSUME HabitInv, Calls, NEW c \in Clients, DeleteHabit(c)
  PROVE  Calls' /\ Within(HabitAt) /\ HabitInv'
<1>1. PICK u : u = call[c].by
  OBVIOUS
<1>2. /\ call[c].at = "delete-habit" /\ End(c) /\ users' = users /\ today' = today
      /\ habit' = [habit EXCEPT ![u] = NoHabit] /\ log' = [log EXCEPT ![u] = NoLog]
      /\ disturbed' = disturbed
  BY <1>1, Zenon DEF DeleteHabit
<1>3. u \in Readers
  BY <1>1, <1>2 DEF HabitInv, HabitCall
<1>4. call[c].at \in HabitAt \ CompleteAt
  BY <1>2 DEF HabitAt, CompleteAt
<1> QED
  BY <1>1, <1>2, <1>3, <1>4, HabitWritten

LEMMA CompleteHabitKeeps ==
  ASSUME HabitInv, Calls, NEW c \in Clients, NEW u \in Readers, CompleteHabit(c, u)
  PROVE  Calls' /\ Within(HabitAt) /\ HabitInv'
<1>1. PICK seen : seen = habit[u]
  OBVIOUS
<1>2. /\ Begin(c, [Request("check-log", u, u, Nobody) EXCEPT !.seen = seen])
      /\ u \in users /\ users' = users /\ today' = today /\ habit' = habit /\ log' = log
      /\ disturbed' = IF \E d \in Clients \ {c} : Completing(d, u)
                      THEN disturbed \cup {u} ELSE disturbed
  BY <1>1, Zenon DEF CompleteHabit
<1>3. u \in Users
  BY ReadersAssumption
<1>4. /\ call[c].at = "idle" /\ Calls' /\ Turns(c, call'[c])
      /\ Is(call'[c], "check-log", u, u, Nobody, seen)
  BY <1>2, <1>3, BeginsSeeing
<1>5. call'[c].at = "check-log" /\ call'[c].by = u /\ call'[c].seen = habit[u]
  BY <1>1, <1>4 DEF Is
<1>6. /\ habit \in [Readers -> HabitRows] /\ log \in [Readers -> [Days -> Nat]] /\ today \in Days
      /\ disturbed \subseteq Readers
  BY DEF HabitInv, HabitTypeOK, HabitRows
<1>7. HabitCall(call'[c]) /\ Within(HabitAt)
  BY <1>4, <1>5, <1>6, TurnsWithin DEF HabitCall, HabitAt
<1>8. HabitTypeOK'
  BY <1>2 DEF HabitInv, HabitTypeOK
<1>9. ASSUME u \notin disturbed', habit'[u].there
      PROVE  (Undisturbed(u))'
  <2>1. u \notin disturbed /\ \A d \in Clients \ {c} : ~Completing(d, u)
    BY <1>2, <1>9
  <2>2. Undisturbed(u) /\ ~Completing(c, u)
    BY <1>2, <1>4, <1>9, <2>1 DEF HabitInv, Completing
  <2>3. Runs(habit[u], Logged(u), today)
    BY <2>1, <2>2 DEF Undisturbed
  <2>4. PICK L : L = Logged(u)
    OBVIOUS
  <2>5. (Logged(u))' = L
    BY <1>2, <2>4 DEF Logged, Days
  <2>6. \A d \in Clients : (Completing(d, u))' => d = c
    BY <1>4, <2>1 DEF Turns, Completing
  <2>7. Runs(habit'[u], L, today')
    BY <1>2, <2>3, <2>4
  <2> QED
    BY <1>2, <1>5, <2>5, <2>6, <2>7 DEF Undisturbed
<1>10. /\ \A v \in Readers \ {u} : v \in disturbed => v \in disturbed'
       /\ call[c].at \notin CompleteAt
  BY <1>2, <1>4 DEF CompleteAt
<1>11. HabitInv'
  BY <1>2, <1>4, <1>5, <1>7, <1>8, <1>9, <1>10, HabitTurns
<1> QED
  BY <1>4, <1>7, <1>11

LEMMA CheckLogKeeps ==
  ASSUME HabitInv, Calls, NEW c \in Clients, CheckLog(c)
  PROVE  Calls' /\ Within(HabitAt) /\ HabitInv'
<1>1. PICK u : u = call[c].by
  OBVIOUS
<1>2. /\ call[c].at = "check-log"
      /\ users' = users /\ today' = today /\ habit' = habit /\ log' = log /\ disturbed' = disturbed
      /\ \/ End(c)
         \/ ~(log[u][today] > 0) /\ Go(c, [call[c] EXCEPT !.at = "insert-log", !.as = today])
  BY <1>1, Zenon DEF CheckLog, habitVars
<1>3. u \in Readers /\ call[c].seen \in HabitRows
  BY <1>1, <1>2 DEF HabitInv, HabitCall
<1>4. CASE End(c)
  <2>1. /\ Calls' /\ Turns(c, call'[c])
        /\ Is(call'[c], "idle", Nobody, Nobody, Nobody, Nobody)
    BY <1>2, <1>4, Ends
  <2>2. call'[c].at = "idle"
    BY <2>1 DEF Is
  <2>3. HabitCall(call'[c]) /\ call'[c].at \notin CompleteAt /\ Within(HabitAt)
    BY <1>2, <2>1, <2>2, TurnsWithin DEF HabitCall, CompleteAt, HabitAt
  <2> QED
    BY <1>2, <2>1, <2>3, HabitQuiet
<1>5. CASE ~(log[u][today] > 0) /\ Go(c, [call[c] EXCEPT !.at = "insert-log", !.as = today])
  <2>1. /\ Calls' /\ Turns(c, call'[c])
        /\ Is(call'[c], "insert-log", call[c].by, call[c].of, today, call[c].seen)
    BY <1>2, <1>5, GoesTo
  <2>2. /\ call'[c].at = "insert-log" /\ call'[c].by = u /\ call'[c].as = today
        /\ call'[c].seen = call[c].seen
    BY <1>1, <2>1 DEF Is
  <2>3. today \in Days /\ HabitTypeOK' /\ habit[u] \in HabitRows
    BY <1>2, <1>3 DEF HabitInv, HabitTypeOK, HabitRows
  <2>4. HabitCall(call'[c]) /\ Within(HabitAt)
    BY <1>2, <1>3, <2>1, <2>2, <2>3, TurnsWithin DEF HabitCall, HabitAt
  <2>5. ASSUME u \notin disturbed', habit'[u].there
        PROVE  (Undisturbed(u))'
    <3>1. Undisturbed(u) /\ Completing(c, u)
      BY <1>1, <1>2, <1>3, <2>5 DEF HabitInv, Completing
    <3>2. \A d \in Clients : Completing(d, u) => d = c
      BY <3>1 DEF Undisturbed
    <3>3. Runs(habit[u], Logged(u), today) /\ call[c].seen = habit[u]
      BY <1>2, <3>1, <3>2 DEF Undisturbed
    <3>4. PICK L : L = Logged(u)
      OBVIOUS
    <3>5. (Logged(u))' = L
      BY <1>2, <3>4 DEF Logged, Days
    <3>6. \A d \in Clients : (Completing(d, u))' => d = c
      BY <2>1, <3>2 DEF Turns, Completing
    <3>7. today \notin L
      BY <1>5, <3>4 DEF Logged
    <3>8. habit[u].last < today
      BY <2>3, <3>3, <3>4, <3>7 DEF Runs, HabitRows, Days
    <3>9. Runs(habit'[u], L, today')
      BY <1>2, <3>3, <3>4
    <3>10. today <= today'
      BY <1>2, <2>3 DEF Days
    <3> QED
      BY <1>2, <2>2, <3>3, <3>5, <3>6, <3>7, <3>8, <3>9, <3>10 DEF Undisturbed
  <2>6. u \notin users' => habit'[u] = NoHabit /\ log'[u] = NoLog
    BY <1>2, <1>3 DEF HabitInv
  <2>7. HabitInv'
    BY <1>1, <1>2, <1>3, <2>1, <2>2, <2>3, <2>4, <2>5, <2>6, HabitTurns
  <2> QED
    BY <2>1, <2>4, <2>7
<1> QED
  BY <1>2, <1>4, <1>5

LEMMA InsertLogKeeps ==
  ASSUME HabitInv, Calls, NEW c \in Clients, InsertLog(c)
  PROVE  Calls' /\ Within(HabitAt) /\ HabitInv'
<1>1. PICK u : u = call[c].by
  OBVIOUS
<1>2. PICK day : day = call[c].as
  OBVIOUS
<1>3. /\ call[c].at = "insert-log"
      /\ users' = users /\ today' = today /\ habit' = habit /\ disturbed' = disturbed
      /\ \/ End(c) /\ log' = log
         \/ /\ habit[u].there /\ log' = [log EXCEPT ![u][day] = log[u][day] + 1]
            /\ Go(c, [call[c] EXCEPT !.at = "update-streak"])
  BY <1>1, <1>2, Zenon DEF InsertLog
<1>4. u \in Readers /\ call[c].seen \in HabitRows /\ day \in Days
  BY <1>1, <1>2, <1>3 DEF HabitInv, HabitCall
<1>5. CASE End(c) /\ log' = log
  <2>1. /\ Calls' /\ Turns(c, call'[c])
        /\ Is(call'[c], "idle", Nobody, Nobody, Nobody, Nobody)
    BY <1>3, <1>5, Ends
  <2>2. call'[c].at = "idle"
    BY <2>1 DEF Is
  <2>3. HabitCall(call'[c]) /\ call'[c].at \notin CompleteAt /\ Within(HabitAt)
    BY <1>3, <2>1, <2>2, TurnsWithin DEF HabitCall, CompleteAt, HabitAt
  <2> QED
    BY <1>3, <1>5, <2>1, <2>3, HabitQuiet
<1>6. CASE /\ habit[u].there /\ log' = [log EXCEPT ![u][day] = log[u][day] + 1]
           /\ Go(c, [call[c] EXCEPT !.at = "update-streak"])
  <2>1. /\ Calls' /\ Turns(c, call'[c])
        /\ Is(call'[c], "update-streak", call[c].by, call[c].of, call[c].as, call[c].seen)
    BY <1>3, <1>6, GoesTo
  <2>2. /\ call'[c].at = "update-streak" /\ call'[c].by = u /\ call'[c].as = day
        /\ call'[c].seen = call[c].seen
    BY <1>1, <1>2, <2>1 DEF Is
  <2>3. /\ habit \in [Readers -> HabitRows] /\ log \in [Readers -> [Days -> Nat]] /\ today \in Days
        /\ disturbed \subseteq Readers
    BY DEF HabitInv, HabitTypeOK, HabitRows
  <2>4. /\ log' \in [Readers -> [Days -> Nat]]
        /\ \A v \in Readers \ {u} : log'[v] = log[v]
        /\ \A d \in Days : log'[u][d] = IF d = day THEN log[u][d] + 1 ELSE log[u][d]
    BY <1>4, <1>6, <2>3
  <2>5. HabitTypeOK'
    BY <1>3, <2>3, <2>4 DEF HabitTypeOK, HabitRows
  <2>6. HabitCall(call'[c]) /\ Within(HabitAt)
    BY <1>3, <1>4, <2>1, <2>2, TurnsWithin DEF HabitCall, HabitAt
  <2>7. ASSUME u \notin disturbed', habit'[u].there
        PROVE  (Undisturbed(u))'
    <3>1. Undisturbed(u) /\ Completing(c, u)
      BY <1>1, <1>3, <1>4, <2>7 DEF HabitInv, Completing
    <3>2. \A d \in Clients : Completing(d, u) => d = c
      BY <3>1 DEF Undisturbed
    <3>3. PICK L : L = Logged(u)
      OBVIOUS
    <3>4. /\ Runs(habit[u], L, today) /\ call[c].seen = habit[u]
          /\ day \notin L /\ habit[u].last < day /\ day <= today
      BY <1>2, <1>3, <3>1, <3>2, <3>3 DEF Undisturbed
    <3>5. PICK M : M = (Logged(u))'
      OBVIOUS
    <3>6. M = L \cup {day}
      <4>1. M = {d \in Days : log'[u][d] > 0} /\ L = {d \in Days : log[u][d] > 0}
        BY <3>3, <3>5 DEF Logged, Days
      <4>2. \A d \in Days : log[u][d] \in Nat
        BY <1>4, <2>3
      <4> QED
        BY <1>4, <2>4, <4>1, <4>2
    <3>7. \A d \in Clients : (Completing(d, u))' => d = c
      BY <2>1, <3>2 DEF Turns, Completing
    <3>8. M \ {day} = L /\ day \in M
      BY <3>4, <3>6
    <3>9. Runs(habit'[u], M \ {day}, today')
      BY <1>3, <3>4, <3>8
    <3> QED
      <4>1. /\ (Completing(c, u))' /\ call'[c].seen = habit'[u]
            /\ habit'[u].last < call'[c].as /\ call'[c].as <= today'
        BY <1>3, <2>2, <3>4 DEF Completing
      <4> QED
        BY <2>2, <3>5, <3>7, <3>8, <3>9, <4>1 DEF Undisturbed
  <2>8. u \notin users' => habit'[u] = NoHabit /\ log'[u] = NoLog
    BY <1>3, <1>4, <1>6, NoHabitIs DEF HabitInv
  <2>9. HabitInv'
    BY <1>1, <1>3, <1>4, <2>1, <2>2, <2>4, <2>5, <2>6, <2>7, <2>8, HabitTurns
  <2> QED
    BY <2>1, <2>6, <2>9
<1> QED
  BY <1>3, <1>5, <1>6

LEMMA UpdateStreakKeeps ==
  ASSUME HabitInv, Calls, NEW c \in Clients, UpdateStreak(c)
  PROVE  Calls' /\ Within(HabitAt) /\ HabitInv'
<1>1. PICK u : u = call[c].by
  OBVIOUS
<1>2. PICK day : day = call[c].as
  OBVIOUS
<1>3. PICK h : h = call[c].seen
  OBVIOUS
<1>4. PICK s : s = Streak(h, day)
  OBVIOUS
<1>5. PICK l : l = Later(s, h.longest)
  OBVIOUS
<1>6. /\ call[c].at = "update-streak" /\ End(c)
      /\ users' = users /\ today' = today /\ log' = log /\ disturbed' = disturbed
      /\ habit' = IF habit[u].there
                  THEN [habit EXCEPT ![u].streak = s, ![u].longest = l, ![u].last = day]
                  ELSE habit
  BY <1>1, <1>2, <1>3, <1>4, <1>5, Zenon DEF UpdateStreak
<1>7. u \in Readers /\ h \in HabitRows /\ day \in Days
  BY <1>1, <1>2, <1>3, <1>6 DEF HabitInv, HabitCall
<1>8. s \in Nat /\ l \in Nat /\ l >= s
  BY <1>4, <1>5, <1>7, StreakNat DEF Later, HabitRows
<1>9. /\ Calls' /\ Turns(c, call'[c])
      /\ Is(call'[c], "idle", Nobody, Nobody, Nobody, Nobody)
  BY <1>6, Ends
<1>10. call'[c].at = "idle"
  BY <1>9 DEF Is
<1>11. HabitCall(call'[c]) /\ call'[c].at \notin CompleteAt /\ Within(HabitAt)
  BY <1>6, <1>9, <1>10, TurnsWithin DEF HabitCall, CompleteAt, HabitAt
<1>12. /\ habit \in [Readers -> HabitRows] /\ log \in [Readers -> [Days -> Nat]] /\ today \in Days
       /\ disturbed \subseteq Readers
  BY DEF HabitInv, HabitTypeOK, HabitRows
<1>13. /\ habit' \in [Readers -> HabitRows]
       /\ \A v \in Readers \ {u} : habit'[v] = habit[v]
       /\ habit'[u].there = habit[u].there
       /\ habit[u].there => /\ habit'[u].streak = s /\ habit'[u].longest = l /\ habit'[u].last = day
                            /\ habit'[u].frequency = habit[u].frequency
  <2>1. day \in 0 .. MaxDay
    BY <1>7, MaxDayAssumption DEF Days
  <2>2. PICK one : one = [habit EXCEPT ![u].streak = s]
    OBVIOUS
  <2>3. /\ one \in [Readers -> HabitRows] /\ \A v \in Readers \ {u} : one[v] = habit[v]
        /\ one[u].streak = s /\ one[u].there = habit[u].there
        /\ one[u].frequency = habit[u].frequency
    BY <1>7, <1>8, <1>12, <2>2 DEF HabitRows
  <2>4. PICK two : two = [one EXCEPT ![u].longest = l]
    OBVIOUS
  <2>5. /\ two \in [Readers -> HabitRows] /\ \A v \in Readers \ {u} : two[v] = habit[v]
        /\ two[u].streak = s /\ two[u].longest = l /\ two[u].there = habit[u].there
        /\ two[u].frequency = habit[u].frequency
    BY <1>7, <1>8, <2>3, <2>4 DEF HabitRows
  <2>6. PICK three : three = [two EXCEPT ![u].last = day]
    OBVIOUS
  <2>7. /\ three \in [Readers -> HabitRows] /\ \A v \in Readers \ {u} : three[v] = habit[v]
        /\ three[u].streak = s /\ three[u].longest = l /\ three[u].there = habit[u].there
        /\ three[u].last = day /\ three[u].frequency = habit[u].frequency
    BY <1>7, <2>1, <2>5, <2>6 DEF HabitRows
  <2>8. three = [habit EXCEPT ![u].streak = s, ![u].longest = l, ![u].last = day]
    BY <2>2, <2>4, <2>6, Zenon
  <2> QED
    BY <1>6, <1>12, <2>7, <2>8
<1>14. HabitTypeOK'
  BY <1>6, <1>12, <1>13 DEF HabitTypeOK, HabitRows
<1>15. ASSUME u \notin disturbed', habit'[u].there
       PROVE  (Undisturbed(u))'
  <2>1. Undisturbed(u) /\ Completing(c, u)
    BY <1>1, <1>6, <1>7, <1>13, <1>15 DEF HabitInv, Completing
  <2>2. \A d \in Clients : Completing(d, u) => d = c
    BY <2>1 DEF Undisturbed
  <2>3. PICK L : L = Logged(u)
    OBVIOUS
  <2>4. PICK M : M = L \ {day}
    OBVIOUS
  <2>5. /\ Runs(habit[u], M, today) /\ h = habit[u]
        /\ day \in L /\ h.last < day /\ day <= today
    BY <1>2, <1>3, <1>6, <2>1, <2>3, <2>4 DEF Undisturbed
  <2>6. M \in SUBSET Days /\ L = M \cup {day}
    BY <2>3, <2>4, <2>5 DEF Logged
  <2>7. s = CountOf(L, day, h.frequency)
    BY <1>4, <1>7, <1>12, <2>5, <2>6, ChainGrows
  <2>8. \A d \in L : d <= day
    <3>1. \A d \in M : d <= h.last
      BY <2>5 DEF Runs
    <3> QED
      <4>1. h.last \in Int /\ day \in Int /\ M \subseteq Int
        BY <1>7, <2>6 DEF Days, HabitRows
      <4> QED
        BY <2>5, <2>6, <3>1, <4>1
  <2>9. Runs(habit'[u], L, today')
    BY <1>6, <1>8, <1>13, <1>15, <2>5, <2>7, <2>8 DEF Runs
  <2>10. (Logged(u))' = L
    BY <1>6, <2>3 DEF Logged, Days
  <2>11. \A d \in Clients : ~(Completing(d, u))'
    BY <1>9, <1>11, <2>2 DEF Turns, Completing, CompleteAt
  <2> QED
    BY <2>9, <2>10, <2>11 DEF Undisturbed
<1>16. u \notin users' => habit'[u] = NoHabit /\ log'[u] = NoLog
  BY <1>6, <1>7, NoHabitIs DEF HabitInv
<1>17. HabitInv'
  BY <1>1, <1>6, <1>7, <1>9, <1>11, <1>13, <1>14, <1>15, <1>16, HabitTurns
<1> QED
  BY <1>9, <1>11, <1>17

LEMMA NewDayKeeps ==
  ASSUME HabitInv, Calls, NewDay
  PROVE  Calls' /\ Within(HabitAt) /\ HabitInv'
<1>1. /\ call' = call /\ calls' = calls /\ users' = users /\ habit' = habit /\ log' = log
      /\ disturbed' = disturbed /\ today < MaxDay /\ today' = today + 1
  BY DEF NewDay, desk
<1>2. Calls' /\ Within(HabitAt)
  BY <1>1 DEF Calls, IsCall, Within
<1>3. today \in Days /\ today' \in Days /\ today <= today'
  BY <1>1, MaxDayAssumption DEF HabitInv, HabitTypeOK, Days
<1>4. HabitTypeOK'
  BY <1>1, <1>3 DEF HabitInv, HabitTypeOK
<1>5. \A d \in Clients : (HabitCall(call[d]))'
  BY <1>1 DEF HabitInv, HabitCall, HabitRows, Days
<1>6. ASSUME NEW u \in Readers \ disturbed', habit'[u].there
      PROVE  (Undisturbed(u))'
  <2>1. Undisturbed(u) /\ habit[u] \in HabitRows
    BY <1>1, <1>6 DEF HabitInv, HabitTypeOK, HabitRows
  <2> QED
    BY <1>1, <1>3, <2>1, UndisturbedKept DEF HabitInv
<1>7. \A u \in Readers \ users' : habit'[u] = NoHabit /\ log'[u] = NoLog
  BY <1>1 DEF HabitInv
<1>8. NoHabit' = NoHabit /\ NoLog' = NoLog
  BY DEF NoHabit, NoLog, Days
<1> QED
  BY <1>2, <1>4, <1>5, <1>6, <1>7, <1>8 DEF HabitInv

LEMMA HabitStep ==
  ASSUME HabitInv, Calls, NEW c \in Clients, HabitNext(c) \/ NewDay
  PROVE  Calls' /\ Within(HabitAt) /\ HabitInv'
<1>1. ASSUME NEW u \in Readers, NEW f \in Frequencies, FindHabit(c, u, "update-habit", f)
      PROVE  Calls' /\ Within(HabitAt) /\ HabitInv'
  BY <1>1, FindHabitKeeps
<1>2. ASSUME NEW u \in Readers, FindHabit(c, u, "delete-habit", Nobody)
      PROVE  Calls' /\ Within(HabitAt) /\ HabitInv'
  BY <1>2, FindHabitKeeps
<1> QED
  BY <1>1, <1>2, CreateHabitKeeps, CompleteHabitKeeps, UpdateHabitKeeps, DeleteHabitKeeps,
     CheckLogKeeps, InsertLogKeeps, UpdateStreakKeeps, NewDayKeeps, Zenon DEF HabitNext

\* Of messages, it may send one.
LEMMA HabitNotifies ==
  ASSUME NEW c \in Clients, HabitNext(c) \/ NewDay
  PROVE  users' = users /\ UNCHANGED redis /\ \E U : Notify(U) \/ UNCHANGED inboxVars
<1>1. CASE UpdateStreak(c)
  <2>1. PICK U : U = IF Streak(call[c].seen, call[c].as) \in Milestones THEN {call[c].by} ELSE {}
    OBVIOUS
  <2>2. users' = users /\ UNCHANGED redis /\ (Notify(U) \/ UNCHANGED <<habit, inboxVars>>)
    BY <1>1, <2>1, Zenon DEF UpdateStreak
  <2> QED
    BY <2>2, Zenon
<1>2. CASE ~UpdateStreak(c)
  <2>1. users' = users /\ UNCHANGED redis /\ UNCHANGED inboxVars
    BY <1>2 DEF HabitNext, NewDay, CreateHabit, FindHabit, CompleteHabit, UpdateHabit, DeleteHabit,
                CheckLog, InsertLog, desk
  <2> QED
    BY <2>1, Zenon
<1> QED
  BY <1>1, <1>2

LEMMA HabitKept ==
  ASSUME HabitInv, Still(HabitAt), UNCHANGED habitVars, users' = users
  PROVE  HabitInv'
<1>1. today' = today /\ habit' = habit /\ log' = log /\ disturbed' = disturbed
  BY DEF habitVars
<1>2. \A d \in Clients : call'[d].at \in HabitAt \/ call[d].at \in HabitAt => call'[d] = call[d]
  BY DEF Still
<1>3. \A d \in Clients : HabitCall(call'[d])
  BY <1>2 DEF HabitInv, HabitCall, HabitAt
<1>4. \A d \in Clients : (HabitCall(call[d]))'
  BY <1>3 DEF HabitCall, HabitRows, Days
<1>5. HabitTypeOK'
  BY <1>1 DEF HabitInv, HabitTypeOK
<1>6. ASSUME NEW u \in Readers \ disturbed', habit'[u].there
      PROVE  (Undisturbed(u))'
  <2>1. Undisturbed(u) /\ habit[u] \in HabitRows /\ today \in Days /\ today <= today'
    BY <1>1, <1>6 DEF HabitInv, HabitTypeOK, HabitRows, Days
  <2>2. /\ \A d \in Clients : (Completing(d, u))' => call'[d] = call[d]
        /\ \A d \in Clients : Completing(d, u) /\ call[d].at = "update-streak" => call'[d] = call[d]
    BY <1>2 DEF Completing, HabitAt
  <2> QED
    BY <1>1, <2>1, <2>2, UndisturbedKept DEF HabitInv
<1>7. \A u \in Readers \ users' : habit'[u] = NoHabit /\ log'[u] = NoLog
  BY <1>1 DEF HabitInv
<1>8. NoHabit' = NoHabit /\ NoLog' = NoLog
  BY DEF NoHabit, NoLog, Days
<1> QED
  BY <1>4, <1>5, <1>6, <1>7, <1>8 DEF HabitInv

\* A completion that stops between its writes disturbs; before, it does not.
LEMMA HabitStopped ==
  ASSUME HabitInv, NEW c \in Clients, Stop(c), Turns(c, call'[c]), call'[c].at = "idle"
  PROVE  HabitInv'
<1>1. /\ users' = users /\ today' = today /\ habit' = habit /\ log' = log
      /\ disturbed' = IF call[c].at = "update-streak" THEN disturbed \cup {call[c].by}
                      ELSE disturbed
  BY DEF Stop
<1>2. HabitCall(call'[c]) /\ call'[c].at \notin CompleteAt
  BY DEF HabitCall, CompleteAt
<1>3. CASE call[c].at # "update-streak"
  BY <1>1, <1>2, <1>3, HabitQuiet
<1>4. CASE call[c].at = "update-streak"
  <2>1. PICK u \in Readers : call[c].by = u
    BY <1>4 DEF HabitInv, HabitCall
  <2>2. u \in disturbed' /\ \A v \in Readers \ {u} : v \in disturbed => v \in disturbed'
    BY <1>1, <1>4, <2>1
  <2>3. HabitTypeOK'
    BY <1>1, <2>1 DEF HabitInv, HabitTypeOK
  <2>4. u \notin users' => habit'[u] = NoHabit /\ log'[u] = NoLog
    BY <1>1 DEF HabitInv
  <2> QED
    BY <1>1, <1>2, <2>1, <2>2, <2>3, <2>4, HabitTurns
<1> QED
  BY <1>3, <1>4

LEMMA HabitDeleted ==
  ASSUME HabitInv, NEW c \in Clients, Turns(c, call'[c]), call'[c].at = "idle",
         call[c].at \notin HabitAt, NEW u, users' = users \ {u},
         habit' = HabitsDeleted(u), log' = LogsDeleted(u), today' = today, disturbed' = disturbed
  PROVE  HabitInv'
<1>1. /\ habit \in [Readers -> HabitRows] /\ log \in [Readers -> [Days -> Nat]] /\ today \in Days
      /\ disturbed \subseteq Readers
  BY DEF HabitInv, HabitTypeOK, HabitRows
<1>2. /\ habit' \in [Readers -> HabitRows] /\ log' \in [Readers -> [Days -> Nat]]
      /\ \A v \in Readers : /\ habit'[v] = IF v = u THEN NoHabit ELSE habit[v]
                            /\ log'[v] = IF v = u THEN NoLog ELSE log[v]
  BY <1>1, NoHabitIs DEF HabitsDeleted, LogsDeleted
<1>3. HabitTypeOK'
  BY <1>1, <1>2 DEF HabitTypeOK, HabitRows
<1>4. HabitCall(call'[c]) /\ call[c].at \notin CompleteAt /\ call'[c].at \notin CompleteAt
  BY DEF HabitCall, CompleteAt, HabitAt
<1>5. PICK v \in Readers : u \in Readers => v = u
  BY TaskOwnerAssumption
<1>6. ASSUME v \notin disturbed', habit'[v].there
      PROVE  (Undisturbed(v))'
  <2>1. v # u
    BY <1>2, <1>6, NoHabitIs
  <2>2. habit'[v] = habit[v] /\ log'[v] = log[v] /\ Undisturbed(v) /\ habit[v] \in HabitRows
    BY <1>1, <1>2, <1>6, <2>1 DEF HabitInv
  <2>3. /\ \A d \in Clients : (Completing(d, v))' => call'[d] = call[d]
        /\ \A d \in Clients : Completing(d, v) => call'[d] = call[d]
    BY <1>4 DEF Turns, Completing, CompleteAt
  <2>4. today <= today'
    BY <1>1 DEF Days
  <2> QED
    BY <1>1, <2>2, <2>3, <2>4, UndisturbedKept DEF HabitInv
<1>7. v \notin users' => habit'[v] = NoHabit /\ log'[v] = NoLog
  BY <1>2, <1>5 DEF HabitInv
<1>8. \A w \in Readers \ {v} : /\ habit'[w] = habit[w] /\ log'[w] = log[w]
                               /\ w \in disturbed => w \in disturbed'
                               /\ w \in users => w \in users'
  BY <1>2, <1>5
<1> QED
  BY <1>3, <1>4, <1>5, <1>6, <1>7, <1>8, HabitTurns

LEMMA HabitInit == Init => HabitInv
<1> SUFFICES ASSUME Init
             PROVE  HabitInv
  OBVIOUS
<1>1. /\ users = Users /\ call = [c \in Clients |-> NoCall] /\ today = 1
      /\ log = [u \in Readers |-> NoLog] /\ disturbed = {}
      /\ habit \in IF "habit" \in desks
                   THEN {[r \in Readers |-> [NoHabit EXCEPT !.there = TRUE, !.frequency = f]] :
                           f \in Frequencies}
                   ELSE {[r \in Readers |-> NoHabit]}
  BY Zenon DEF Init
<1>2. PICK row \in HabitRows : /\ habit = [r \in Readers |-> row]
                               /\ row.streak = 0 /\ row.longest = 0 /\ row.last = 0
  <2>1. CASE "habit" \in desks
    <3>1. PICK f \in Frequencies :
            habit = [r \in Readers |-> [NoHabit EXCEPT !.there = TRUE, !.frequency = f]]
      BY <1>1, <2>1
    <3>2. PICK one : one = [NoHabit EXCEPT !.there = TRUE]
      OBVIOUS
    <3>3. one \in HabitRows /\ one.streak = 0 /\ one.longest = 0 /\ one.last = 0
      BY <3>2, NoHabitIs DEF HabitRows
    <3>4. PICK row : row = [one EXCEPT !.frequency = f]
      OBVIOUS
    <3>5. row \in HabitRows /\ row.streak = 0 /\ row.longest = 0 /\ row.last = 0
      BY <3>3, <3>4 DEF HabitRows
    <3>6. row = [NoHabit EXCEPT !.there = TRUE, !.frequency = f]
      BY <3>2, <3>4, Zenon
    <3>7. habit = [r \in Readers |-> row]
      BY <3>1, <3>6, Zenon
    <3> QED
      BY <3>5, <3>7
  <2>2. CASE "habit" \notin desks
    BY <1>1, <2>2, NoHabitIs
  <2> QED
    BY <2>1, <2>2
<1>3. HabitTypeOK
  <2>1. habit \in [Readers -> HabitRows]
    BY <1>2
  <2>2. log \in [Readers -> [Days -> Nat]]
    BY <1>1, NoHabitIs
  <2>3. today \in Days
    <3>1. today = 1
      BY <1>1, Zenon
    <3> QED
      BY <3>1, MaxDayAssumption DEF Days
  <2>4. disturbed \subseteq Readers
    BY <1>1
  <2> QED
    BY <2>1, <2>2, <2>3, <2>4 DEF HabitTypeOK, HabitRows
<1>4. \A c \in Clients : call[c].at = "idle"
  BY <1>1 DEF NoCall
<1>5. \A c \in Clients : HabitCall(call[c])
  BY <1>4 DEF HabitCall
<1>6. ASSUME NEW u \in Readers
      PROVE  Undisturbed(u)
  <2>1. PICK L : L = Logged(u)
    OBVIOUS
  <2>2. L = {}
    <3>1. log[u] = NoLog
      BY <1>1
    <3>2. \A d \in Days : NoLog[d] = 0
      BY DEF NoLog
    <3> QED
      BY <2>1, <3>1, <3>2 DEF Logged
  <2>3. CountOf(L, 0, row.frequency) = 0
    BY <2>2, NothingCounts
  <2>5. Runs(habit[u], L, today)
    <3>1. habit[u] = row /\ today = 1
      BY <1>1, <1>2
    <3> QED
      BY <1>2, <2>2, <2>3, <3>1 DEF Runs
  <2> QED
    BY <1>4, <2>1, <2>5 DEF Undisturbed, Completing
<1> QED
  BY <1>1, <1>3, <1>5, <1>6, ReadersAssumption DEF HabitInv

-----------------------------------------------------------------------------
(* The group.                                                              *)

GroupAt == {"insert-group", "insert-founders", "find-member", "insert-member", "delete-member",
            "delete-group"}
FoundAt == {"insert-group", "insert-founders"}

\* What a request about the group carries.
GroupCall(r) ==
  /\ r.at \in GroupAt => r.of = "group"
  /\ r.at \in FoundAt => /\ r.by \in Readers
                        /\ r.seen = [all |-> r.seen.all, left |-> r.seen.left]
                        /\ r.seen.left \subseteq Readers
  /\ r.at \in {"find-member", "insert-member", "delete-member"} => r.as \in Readers

\* Request r is about to look for u, or to add him; and is to add him if he is there.
Aims(r, u) ==
  \/ r.at \in {"find-member", "insert-member"} /\ r.as = u
  \/ r.at \in FoundAt /\ u \in r.seen.left

WillAdd(r, u) == Aims(r, u) /\ (r.at = "find-member" => u \notin r.seen)

\* A user has one row unless two requests were adding him at once: whoever adds him alone
\* saw that he had none.
RowsCounted ==
  /\ \A c, d \in Clients : \A u \in Readers :
       c # d /\ Aims(call[c], u) /\ Aims(call[d], u) => u \in raced
  /\ \A c \in Clients : \A u \in Readers \ raced : WillAdd(call[c], u) => members[u] = 0
  /\ \A u \in Readers \ raced : members[u] <= 1

GroupInv ==
  /\ GroupTypeOK
  /\ \A c \in Clients : GroupCall(call[c])
  /\ creator \in users \cup {Nobody}
  /\ payers \subseteq users
  /\ RowsCounted

LEMMA GroupTyped ==
  ASSUME GroupInv
  PROVE  /\ members \in [Readers -> Nat] /\ expenses \in [Readers -> Nat] /\ raced \subseteq Readers
         /\ creator \in Readers \cup {Nobody}
BY DEF GroupInv, GroupTypeOK

\* One request turns; it gives rows only to users it was to add, and takes on only users
\* that no other is adding, or that are noted.
LEMMA GroupTurns ==
  ASSUME GroupInv, NEW c \in Clients, Turns(c, call'[c]), GroupCall(call'[c]),
         GroupTypeOK', creator' \in users' \cup {Nobody}, payers' \subseteq users',
         raced \subseteq raced',
         \A u \in Readers : Aims(call'[c], u) /\ ~Aims(call[c], u) =>
           \A d \in Clients \ {c} : Aims(call[d], u) => u \in raced',
         \A u \in Readers \ raced' : members'[u] > members[u] =>
           Aims(call[c], u) /\ members'[u] <= 1,
         \A u \in Readers \ raced' : WillAdd(call'[c], u) => members'[u] = 0
  PROVE  GroupInv'
<1>1. \A d \in Clients : GroupCall(call'[d])
  BY DEF GroupInv, Turns
<1>2. \A d \in Clients : (GroupCall(call[d]))'
  BY <1>1 DEF GroupCall
<1>3. /\ members \in [Readers -> Nat] /\ members' \in [Readers -> Nat]
      /\ raced \subseteq Readers /\ raced' \subseteq Readers
  BY DEF GroupInv, GroupTypeOK
<1>4. ASSUME NEW d \in Clients, NEW e \in Clients, NEW u \in Readers, d # e,
             Aims(call'[d], u), Aims(call'[e], u)
      PROVE  u \in raced'
  <2>1. ASSUME NEW f \in Clients \ {c}, Aims(call[f], u), Aims(call'[c], u)
        PROVE  u \in raced'
    <3>1. Aims(call[c], u) \/ u \in raced'
      BY <2>1
    <3>2. Aims(call[c], u) => u \in raced
      BY <2>1 DEF GroupInv, RowsCounted
    <3> QED
      BY <3>1, <3>2
  <2>2. CASE d = c
    <3>1. e \in Clients \ {c} /\ call'[e] = call[e]
      BY <1>4, <2>2 DEF Turns
    <3> QED
      BY <1>4, <2>1, <2>2, <3>1
  <2>3. CASE e = c
    <3>1. d \in Clients \ {c} /\ call'[d] = call[d]
      BY <1>4, <2>3 DEF Turns
    <3> QED
      BY <1>4, <2>1, <2>3, <3>1
  <2>4. CASE d # c /\ e # c
    <3>1. call'[d] = call[d] /\ call'[e] = call[e]
      BY <2>4 DEF Turns
    <3>2. u \in raced
      BY <1>4, <3>1 DEF GroupInv, RowsCounted
    <3> QED
      BY <3>2
  <2> QED
    BY <2>2, <2>3, <2>4
<1>5. ASSUME NEW d \in Clients, NEW u \in Readers \ raced', WillAdd(call'[d], u)
      PROVE  members'[u] = 0
  <2>1. CASE d = c
    BY <1>5, <2>1
  <2>2. CASE d # c
    <3>1. call'[d] = call[d] /\ u \notin raced /\ WillAdd(call[d], u) /\ Aims(call[d], u)
      BY <1>5, <2>2 DEF Turns, WillAdd
    <3>2. members[u] = 0
      BY <3>1 DEF GroupInv, RowsCounted
    <3>3. ~Aims(call[c], u)
      BY <2>2, <3>1 DEF GroupInv, RowsCounted
    <3>4. ~(members'[u] > members[u])
      BY <1>5, <3>3
    <3> QED
      BY <1>3, <3>2, <3>4
  <2> QED
    BY <2>1, <2>2
<1>6. ASSUME NEW u \in Readers \ raced'
      PROVE  members'[u] <= 1
  <2>1. members[u] <= 1
    BY <1>6 DEF GroupInv, RowsCounted
  <2>2. members'[u] > members[u] => members'[u] <= 1
    BY <1>6
  <2> QED
    BY <1>3, <2>1, <2>2
<1>7. RowsCounted'
  <2>1. \A d, e \in Clients : \A u \in Readers :
          d # e /\ (Aims(call[d], u))' /\ (Aims(call[e], u))' => u \in raced'
    BY <1>4 DEF Aims
  <2>2. \A d \in Clients : \A u \in Readers \ raced' :
          (WillAdd(call[d], u))' => members'[u] = 0
    BY <1>5 DEF WillAdd, Aims
  <2> QED
    BY <1>6, <2>1, <2>2 DEF RowsCounted
<1> QED
  BY <1>2, <1>7 DEF GroupInv

\* The rows stay, and the request takes on nobody.
LEMMA GroupQuiet ==
  ASSUME GroupInv, NEW c \in Clients, Turns(c, call'[c]), GroupCall(call'[c]),
         users' = users, creator' = creator, members' = members, expenses' = expenses,
         payers' = payers, raced' = raced,
         \A u \in Readers : /\ Aims(call'[c], u) => Aims(call[c], u)
                            /\ WillAdd(call'[c], u) => WillAdd(call[c], u)
  PROVE  GroupInv'
<1>1. GroupTypeOK'
  BY DEF GroupInv, GroupTypeOK, Created, NoRows, NoExpenses
<1>2. creator' \in users' \cup {Nobody} /\ payers' \subseteq users' /\ raced \subseteq raced'
  BY DEF GroupInv
<1>3. \A u \in Readers \ raced' : WillAdd(call'[c], u) => members'[u] = 0
  BY DEF GroupInv, RowsCounted
<1>4. \A u \in Readers : ~(members'[u] > members[u])
  BY GroupTyped
<1> QED
  BY <1>1, <1>2, <1>3, <1>4, GroupTurns

LEMMA StaysInGroup ==
  ASSUME NEW c \in Clients, Turns(c, call'[c]),
         {call[c].at, call'[c].at} \subseteq GroupAt \cup {"idle"}
  PROVE  Within(GroupAt)
BY TurnsWithin

\* A request that is over, or that has not begun, adds nobody.
LEMMA IdleAims ==
  ASSUME NEW r, r.at \in {"idle", "delete-member", "delete-group"}, NEW u
  PROVE  ~Aims(r, u) /\ ~WillAdd(r, u)
BY DEF Aims, WillAdd, FoundAt

LEMMA IdleGroupCall ==
  ASSUME NEW r, r.at = "idle"
  PROVE  GroupCall(r)
BY DEF GroupCall, GroupAt, FoundAt

LEMMA CreateGroupKeeps ==
  ASSUME GroupInv, Calls, NEW c \in Clients, NEW u \in Readers, NEW U \in SUBSET Readers,
         CreateGroup(c, u, U)
  PROVE  Calls' /\ Within(GroupAt) /\ GroupInv'
<1>1. PICK x : x = [all |-> U \cup {u}, left |-> U \cup {u}]
  OBVIOUS
<1>2. /\ Begin(c, [Request("insert-group", u, "group", Nobody) EXCEPT !.seen = x])
      /\ u \in users /\ ~Created /\ \A d \in Clients : call[d].of # "group"
      /\ users' = users /\ creator' = creator /\ members' = members /\ expenses' = expenses
      /\ payers' = payers /\ raced' = raced
  BY <1>1, Zenon DEF CreateGroup, groupVars
<1>3. u \in Users
  BY ReadersAssumption
<1>4. /\ call[c].at = "idle" /\ Calls' /\ Turns(c, call'[c])
      /\ Is(call'[c], "insert-group", u, "group", Nobody, x)
  BY <1>2, <1>3, BeginsSeeing
<1>5. /\ call'[c].at = "insert-group" /\ call'[c].by = u /\ call'[c].of = "group"
      /\ call'[c].seen = x
  BY <1>4 DEF Is
<1>6. Within(GroupAt)
  BY <1>4, <1>5, StaysInGroup DEF GroupAt
<1>7. x = [all |-> x.all, left |-> x.left] /\ x.left \subseteq Readers
  BY <1>1
<1>8. GroupCall(call'[c])
  BY <1>5, <1>7 DEF GroupCall, FoundAt, GroupAt
<1>9. \A d \in Clients : call[d].at \notin GroupAt
  BY <1>2 DEF GroupInv, GroupCall
<1>10. \A d \in Clients : \A v \in Readers : ~Aims(call[d], v)
  BY <1>9 DEF Aims, GroupAt, FoundAt
<1>11. \A v \in Readers : members[v] = 0
  BY <1>2 DEF GroupInv, GroupTypeOK, NoRows
<1>12. GroupTypeOK'
  BY <1>2 DEF GroupInv, GroupTypeOK, Created, NoRows, NoExpenses
<1>13. creator' \in users' \cup {Nobody} /\ payers' \subseteq users' /\ raced \subseteq raced'
  BY <1>2 DEF GroupInv
<1>14. GroupInv'
  BY <1>2, <1>4, <1>8, <1>10, <1>11, <1>12, <1>13, GroupTurns
<1> QED
  BY <1>4, <1>6, <1>14

LEMMA InsertGroupKeeps ==
  ASSUME GroupInv, Calls, NEW c \in Clients, InsertGroup(c)
  PROVE  Calls' /\ Within(GroupAt) /\ GroupInv'
<1>1. /\ call[c].at = "insert-group" /\ users' = users /\ members' = members
      /\ expenses' = expenses /\ payers' = payers /\ raced' = raced
      /\ \/ /\ call[c].by \in users /\ creator' = call[c].by
            /\ Go(c, [call[c] EXCEPT !.at = "insert-founders"])
         \/ End(c) /\ creator' = creator
  BY Zenon DEF InsertGroup
<1>2. GroupCall(call[c])
  BY DEF GroupInv
<1>3. CASE End(c) /\ creator' = creator
  <2>1. Calls' /\ Turns(c, call'[c]) /\ Is(call'[c], "idle", Nobody, Nobody, Nobody, Nobody)
    BY <1>1, <1>3, Ends
  <2>2. call'[c].at = "idle"
    BY <2>1 DEF Is
  <2>3. GroupInv'
    BY <1>1, <1>3, <2>1, <2>2, IdleAims, IdleGroupCall, GroupQuiet
  <2>4. Within(GroupAt)
    BY <1>1, <2>1, <2>2, StaysInGroup DEF GroupAt
  <2> QED
    BY <2>1, <2>3, <2>4
<1>4. CASE /\ call[c].by \in users /\ creator' = call[c].by
           /\ Go(c, [call[c] EXCEPT !.at = "insert-founders"])
  <2>1. PICK s : s = call[c]
    OBVIOUS
  <2>2. /\ Calls' /\ Turns(c, call'[c])
        /\ Is(call'[c], "insert-founders", s.by, s.of, s.as, s.seen)
    BY <1>1, <1>4, <2>1, GoesTo
  <2>3. /\ call'[c].at = "insert-founders" /\ call'[c].by = s.by /\ call'[c].of = s.of
        /\ call'[c].seen = s.seen /\ s.at = "insert-group" /\ GroupCall(s)
    BY <1>1, <1>2, <2>1, <2>2 DEF Is
  <2>4. GroupCall(call'[c])
    BY <2>3 DEF GroupCall, FoundAt, GroupAt
  <2>5. \A u \in Readers : /\ Aims(call'[c], u) => Aims(call[c], u)
                           /\ WillAdd(call'[c], u) => WillAdd(call[c], u)
    BY <2>1, <2>3 DEF Aims, WillAdd, FoundAt
  <2>6. Within(GroupAt)
    BY <1>1, <2>2, <2>3, StaysInGroup DEF GroupAt
  <2>7. s.by \in Readers /\ creator' = s.by /\ s.by \in users
    BY <1>4, <2>1, <2>3 DEF GroupCall, FoundAt
  <2>8. s.by # Nobody
    BY <2>7, ReadersAssumption, NobodyAssumption
  <2>9. GroupTypeOK'
    BY <1>1, <2>7, <2>8 DEF GroupInv, GroupTypeOK, Created
  <2>10. creator' \in users' \cup {Nobody} /\ payers' \subseteq users' /\ raced \subseteq raced'
    BY <1>1, <2>7 DEF GroupInv
  <2>11. \A u \in Readers \ raced' : WillAdd(call'[c], u) => members'[u] = 0
    BY <1>1, <2>5 DEF GroupInv, RowsCounted
  <2>12. \A u \in Readers : ~(members'[u] > members[u])
    BY <1>1, GroupTyped
  <2>13. GroupInv'
    BY <2>2, <2>4, <2>5, <2>9, <2>10, <2>11, <2>12, GroupTurns
  <2> QED
    BY <2>2, <2>6, <2>13
<1> QED
  BY <1>1, <1>3, <1>4

\* One row more for one user, of a group that is there.
LEMMA RowAdded ==
  ASSUME GroupInv, Created, NEW u \in Readers, members' = [members EXCEPT ![u] = @ + 1],
         creator' = creator, expenses' = expenses, payers' = payers, raced' = raced,
         users' = users
  PROVE  /\ GroupTypeOK' /\ creator' \in users' \cup {Nobody} /\ payers' \subseteq users'
         /\ members'[u] = members[u] + 1 /\ \A v \in Readers \ {u} : members'[v] = members[v]
<1>1. members \in [Readers -> Nat]
  BY GroupTyped
<1>2. /\ members' \in [Readers -> Nat] /\ members'[u] = members[u] + 1
      /\ \A v \in Readers \ {u} : members'[v] = members[v]
  BY <1>1
<1>3. GroupTypeOK'
  BY <1>2 DEF GroupInv, GroupTypeOK, Created
<1> QED
  BY <1>2, <1>3 DEF GroupInv

\* The request adds one of those it was to add, or finds that it cannot, and is done with him.
LEMMA MemberWritten ==
  ASSUME GroupInv, NEW c \in Clients, NEW u \in Readers, Turns(c, call'[c]),
         GroupCall(call'[c]), Aims(call[c], u), WillAdd(call[c], u),
         \A v \in Readers : Aims(call'[c], v) => Aims(call[c], v) /\ v # u,
         \A v \in Readers : WillAdd(call'[c], v) => WillAdd(call[c], v),
         creator' = creator, expenses' = expenses, payers' = payers, raced' = raced,
         users' = users,
         \/ Created /\ members' = [members EXCEPT ![u] = @ + 1]
         \/ members' = members
  PROVE  GroupInv'
<1>1. CASE members' = members
  BY <1>1, GroupQuiet
<1>2. CASE Created /\ members' = [members EXCEPT ![u] = @ + 1]
  <2>1. /\ GroupTypeOK' /\ creator' \in users' \cup {Nobody} /\ payers' \subseteq users'
        /\ members'[u] = members[u] + 1 /\ \A v \in Readers \ {u} : members'[v] = members[v]
    BY <1>2, RowAdded
  <2>2. u \notin raced => members[u] = 0
    BY DEF GroupInv, RowsCounted
  <2>3. \A v \in Readers \ raced' : members'[v] > members[v] => Aims(call[c], v) /\ members'[v] <= 1
    BY <2>1, <2>2, GroupTyped
  <2>4. ASSUME NEW v \in Readers \ raced', WillAdd(call'[c], v)
        PROVE  members'[v] = 0
    <3>1. WillAdd(call[c], v) /\ v # u /\ v \notin raced
      BY <2>4 DEF WillAdd
    <3>2. members[v] = 0
      BY <3>1 DEF GroupInv, RowsCounted
    <3> QED
      BY <2>1, <3>1, <3>2
  <2> QED
    BY <2>1, <2>3, <2>4, GroupTurns
<1> QED
  BY <1>1, <1>2

\* What InsertFounder leaves of those to be added.
LEMMA LeftIs ==
  ASSUME NEW z, z = [all |-> z.all, left |-> z.left], NEW x, NEW t, t = [z EXCEPT !.left = x]
  PROVE  t = [all |-> t.all, left |-> t.left] /\ t.left = x
<1>1. z \in [all : {z.all}, left : {z.left}]
  OBVIOUS
<1>2. [z EXCEPT !.left = x] = [all |-> z.all, left |-> x]
  BY <1>1
<1> QED
  BY <1>2

LEMMA InsertFounderKeeps ==
  ASSUME GroupInv, Calls, NEW c \in Clients, NEW u \in Readers, InsertFounder(c, u)
  PROVE  Calls' /\ Within(GroupAt) /\ GroupInv'
<1>1. PICK s : s = call[c]
  OBVIOUS
<1>2. PICK left, as : /\ left = s.seen.left \ {u}
                      /\ as = IF u \in users /\ Created THEN s.as ELSE "rejected"
  OBVIOUS
<1>3. /\ s.at = "insert-founders" /\ u \in s.seen.left
      /\ users' = users /\ creator' = creator /\ expenses' = expenses
      /\ payers' = payers /\ raced' = raced
      /\ members' = IF u \in users /\ Created THEN [members EXCEPT ![u] = @ + 1] ELSE members
      /\ Go(c, [call[c] EXCEPT !.seen.left = @ \ {u},
                               !.as = IF u \in users /\ Created THEN @ ELSE "rejected"])
  BY <1>1, Zenon DEF InsertFounder
<1>4. PICK t : t = [s.seen EXCEPT !.left = left]
  OBVIOUS
<1>5. PICK one : one = [s EXCEPT !.seen = t]
  OBVIOUS
<1>6. PICK q : q = [one EXCEPT !.as = as]
  OBVIOUS
<1>6a. q = [call[c] EXCEPT !.seen.left = @ \ {u},
                           !.as = IF u \in users /\ Created THEN @ ELSE "rejected"]
  BY <1>1, <1>2, <1>4, <1>5, <1>6, Zenon
<1>6b. Go(c, q)
  BY <1>3, <1>6a, Zenon
<1>7. GroupCall(s) /\ IsCall(s) /\ s.by \in Users \cup {Nobody}
  BY <1>1 DEF GroupInv, Calls
<1>8. /\ s.seen = [all |-> s.seen.all, left |-> s.seen.left] /\ s.seen.left \subseteq Readers
      /\ s.by \in Readers /\ s.of = "group"
  BY <1>3, <1>7 DEF GroupCall, FoundAt, GroupAt
<1>8a. t = [all |-> t.all, left |-> t.left] /\ t.left = left
  <2>1. PICK z : z = s.seen
    OBVIOUS
  <2>2. z = [all |-> z.all, left |-> z.left] /\ t = [z EXCEPT !.left = left]
    BY <1>4, <1>8, <2>1
  <2> QED
    BY <2>2, LeftIs
<1>8b. Is(s, s.at, s.by, s.of, s.as, s.seen)
  BY <1>7 DEF Is
<1>8c. Is(one, s.at, s.by, s.of, s.as, t)
  BY <1>5, <1>8b, ReplacedIn, Zenon
<1>8d. Is(q, s.at, s.by, s.of, as, t)
  BY <1>6, <1>8c, ReplacedIn, Zenon
<1>9. /\ IsCall(q) /\ q.at = s.at /\ q.by = s.by /\ q.of = s.of
      /\ q.seen = [all |-> q.seen.all, left |-> q.seen.left] /\ q.seen.left = left
  BY <1>8a, <1>8d DEF Is
<1>10. Calls' /\ Turns(c, q)
  BY <1>3, <1>6b, <1>7, <1>9, Gone
<1>11. Turns(c, call'[c]) /\ call'[c] = q
  BY <1>10 DEF Turns
<1>12. Within(GroupAt)
  BY <1>1, <1>3, <1>9, <1>11, StaysInGroup DEF GroupAt
<1>13. GroupCall(q)
  BY <1>2, <1>3, <1>8, <1>9 DEF GroupCall, FoundAt, GroupAt
<1>14. /\ Aims(s, u) /\ WillAdd(s, u)
       /\ \A v \in Readers : Aims(q, v) => Aims(s, v) /\ v # u
       /\ \A v \in Readers : WillAdd(q, v) => WillAdd(s, v)
  BY <1>2, <1>3, <1>9 DEF Aims, WillAdd, FoundAt
<1>15. GroupInv'
  BY <1>1, <1>3, <1>11, <1>13, <1>14, MemberWritten
<1> QED
  BY <1>10, <1>12, <1>15

\* A request whose rows stay is over.
LEMMA GroupEnds ==
  ASSUME GroupInv, Calls, NEW c \in Clients, call[c].at \in GroupAt, End(c),
         users' = users, UNCHANGED groupVars
  PROVE  Calls' /\ Within(GroupAt) /\ GroupInv'
<1>1. /\ creator' = creator /\ members' = members /\ expenses' = expenses
      /\ payers' = payers /\ raced' = raced
  BY DEF groupVars
<1>2. Calls' /\ Turns(c, call'[c]) /\ Is(call'[c], "idle", Nobody, Nobody, Nobody, Nobody)
  BY Ends
<1>3. call'[c].at = "idle"
  BY <1>2 DEF Is
<1>4. Within(GroupAt)
  BY <1>2, <1>3, StaysInGroup
<1> QED
  BY <1>1, <1>2, <1>3, <1>4, IdleAims, IdleGroupCall, GroupQuiet

LEMMA ReadGroupKeeps ==
  ASSUME GroupInv, Calls, NEW c \in Clients, NEW a \in Readers, NEW u \in Readers,
         ReadGroup(c, a, u)
  PROVE  Calls' /\ Within(GroupAt) /\ GroupInv'
<1>1. PICK seen : seen = {v \in Readers : members[v] > 0}
  OBVIOUS
<1>2. /\ Begin(c, [Request("find-member", a, "group", u) EXCEPT !.seen = seen])
      /\ Race(c, {u}) /\ users' = users /\ creator' = creator /\ members' = members
      /\ expenses' = expenses /\ payers' = payers
  BY <1>1, Zenon DEF ReadGroup
<1>3. a \in Users
  BY ReadersAssumption
<1>4. /\ call[c].at = "idle" /\ Calls' /\ Turns(c, call'[c])
      /\ Is(call'[c], "find-member", a, "group", u, seen)
  BY <1>2, <1>3, BeginsSeeing
<1>5. /\ call'[c].at = "find-member" /\ call'[c].of = "group" /\ call'[c].as = u
      /\ call'[c].seen = seen
  BY <1>4 DEF Is
<1>6. Within(GroupAt)
  BY <1>4, <1>5, StaysInGroup DEF GroupAt
<1>7. GroupCall(call'[c])
  BY <1>5 DEF GroupCall, FoundAt, GroupAt
<1>8. \A v \in Readers : Aims(call'[c], v) => v = u
  BY <1>5 DEF Aims, FoundAt
<1>9. raced \subseteq raced' /\ raced' \subseteq raced \cup {u}
  BY <1>2 DEF Race
<1>10. ASSUME NEW d \in Clients \ {c}, Aims(call[d], u)
       PROVE  u \in raced'
  <2>1. Adding(d, u)
    BY <1>10 DEF Adding, Aims, FoundAt
  <2> QED
    BY <1>2, <2>1 DEF Race
<1>11. ASSUME NEW v \in Readers, WillAdd(call'[c], v)
       PROVE  members'[v] = 0
  <2>1. v \notin seen
    BY <1>5, <1>11 DEF WillAdd
  <2> QED
    BY <1>1, <1>2, <2>1, GroupTyped
<1>12. GroupTypeOK'
  <2>1. raced' \subseteq Readers
    BY <1>9, GroupTyped
  <2> QED
    BY <1>2, <2>1 DEF GroupInv, GroupTypeOK, Created, NoRows, NoExpenses
<1>13. creator' \in users' \cup {Nobody} /\ payers' \subseteq users'
  BY <1>2 DEF GroupInv
<1>14. \A v \in Readers : ~(members'[v] > members[v])
  BY <1>2, GroupTyped
<1>15. GroupInv'
  BY <1>4, <1>7, <1>8, <1>9, <1>10, <1>11, <1>12, <1>13, <1>14, GroupTurns
<1> QED
  BY <1>4, <1>6, <1>15

LEMMA FindMemberKeeps ==
  ASSUME GroupInv, Calls, NEW c \in Clients, FindMember(c)
  PROVE  Calls' /\ Within(GroupAt) /\ GroupInv'
<1>1. /\ call[c].at = "find-member" /\ users' = users /\ UNCHANGED groupVars
      /\ IF call[c].as \in users \ call[c].seen
         THEN GoSeeing(c, "insert-member", Nobody)
         ELSE End(c)
  BY Zenon DEF FindMember
<1>2. CASE End(c)
  BY <1>1, <1>2, GroupEnds DEF GroupAt
<1>3. CASE GoSeeing(c, "insert-member", Nobody) /\ call[c].as \in users \ call[c].seen
  <2>1. PICK s : s = call[c]
    OBVIOUS
  <2>2. Calls' /\ Turns(c, call'[c]) /\ Is(call'[c], "insert-member", s.by, s.of, s.as, Nobody)
    BY <1>1, <1>3, <2>1, GoesSeeing
  <2>3. /\ call'[c].at = "insert-member" /\ call'[c].of = s.of /\ call'[c].as = s.as
        /\ s.at = "find-member" /\ s.as \notin s.seen /\ GroupCall(s)
    BY <1>1, <1>3, <2>1, <2>2 DEF Is, GroupInv
  <2>4. GroupCall(call'[c])
    BY <2>3 DEF GroupCall, FoundAt, GroupAt
  <2>5. \A u \in Readers : /\ Aims(call'[c], u) => Aims(s, u)
                           /\ WillAdd(call'[c], u) => WillAdd(s, u)
    BY <2>3 DEF Aims, WillAdd, FoundAt
  <2>6. Within(GroupAt)
    BY <1>1, <2>2, <2>3, StaysInGroup DEF GroupAt
  <2>7. /\ creator' = creator /\ members' = members /\ expenses' = expenses
        /\ payers' = payers /\ raced' = raced
    BY <1>1 DEF groupVars
  <2>8. GroupInv'
    BY <1>1, <2>1, <2>2, <2>4, <2>5, <2>7, GroupQuiet
  <2> QED
    BY <2>2, <2>6, <2>8
<1> QED
  BY <1>1, <1>2, <1>3

LEMMA InsertMemberKeeps ==
  ASSUME GroupInv, Calls, NEW c \in Clients, InsertMember(c)
  PROVE  Calls' /\ Within(GroupAt) /\ GroupInv'
<1>1. PICK u : u = call[c].as
  OBVIOUS
<1>2. /\ call[c].at = "insert-member" /\ End(c) /\ users' = users /\ creator' = creator
      /\ expenses' = expenses /\ payers' = payers /\ raced' = raced
      /\ \/ Created /\ members' = [members EXCEPT ![u] = @ + 1]
         \/ members' = members
  BY <1>1, Zenon DEF InsertMember
<1>3. u \in Readers
  BY <1>1, <1>2 DEF GroupInv, GroupCall
<1>4. Calls' /\ Turns(c, call'[c]) /\ Is(call'[c], "idle", Nobody, Nobody, Nobody, Nobody)
  BY <1>2, Ends
<1>5. call'[c].at = "idle"
  BY <1>4 DEF Is
<1>6. Within(GroupAt)
  BY <1>2, <1>4, <1>5, StaysInGroup DEF GroupAt
<1>7. Aims(call[c], u) /\ WillAdd(call[c], u)
  BY <1>1, <1>2 DEF Aims, WillAdd
<1>8. GroupInv'
  BY <1>2, <1>3, <1>4, <1>5, <1>7, IdleAims, IdleGroupCall, MemberWritten
<1> QED
  BY <1>4, <1>6, <1>8

LEMMA FindOwnGroupKeeps ==
  ASSUME GroupInv, Calls, NEW c \in Clients, NEW a \in Readers,
         NEW next \in {"delete-member", "delete-group"}, NEW u,
         next = "delete-member" => u \in Readers, FindOwnGroup(c, a, next, u)
  PROVE  Calls' /\ Within(GroupAt) /\ GroupInv'
<1>1. /\ Begin(c, Request(next, a, "group", u)) /\ users' = users /\ creator' = creator
      /\ members' = members /\ expenses' = expenses /\ payers' = payers /\ raced' = raced
  BY DEF FindOwnGroup, groupVars
<1>2. a \in Users
  BY ReadersAssumption
<1>3. /\ call[c].at = "idle" /\ Calls' /\ Turns(c, call'[c])
      /\ Is(call'[c], next, a, "group", u, Nobody)
  BY <1>1, <1>2, BeginsRequest
<1>4. call'[c].at = next /\ call'[c].of = "group" /\ call'[c].as = u
  BY <1>3 DEF Is
<1>5. Within(GroupAt)
  BY <1>3, <1>4, StaysInGroup DEF GroupAt
<1>6. GroupCall(call'[c])
  BY <1>4 DEF GroupCall, FoundAt, GroupAt
<1>7. GroupInv'
  BY <1>1, <1>3, <1>4, <1>6, IdleAims, GroupQuiet
<1> QED
  BY <1>3, <1>5, <1>7

LEMMA DeleteMemberKeeps ==
  ASSUME GroupInv, Calls, NEW c \in Clients, DeleteMember(c)
  PROVE  Calls' /\ Within(GroupAt) /\ GroupInv'
<1>1. PICK u : u = call[c].as
  OBVIOUS
<1>2. /\ call[c].at = "delete-member" /\ End(c) /\ users' = users /\ creator' = creator
      /\ expenses' = expenses /\ payers' = payers /\ raced' = raced
      /\ \/ members[u] > 0 /\ members' = [members EXCEPT ![u] = @ - 1]
         \/ members' = members
  BY <1>1, Zenon DEF DeleteMember
<1>3. u \in Readers
  BY <1>1, <1>2 DEF GroupInv, GroupCall
<1>4. CASE members' = members
  <2>1. UNCHANGED groupVars
    BY <1>2, <1>4 DEF groupVars
  <2> QED
    BY <1>2, <2>1, GroupEnds DEF GroupAt
<1>5. CASE members[u] > 0 /\ members' = [members EXCEPT ![u] = @ - 1]
  <2>1. Calls' /\ Turns(c, call'[c]) /\ Is(call'[c], "idle", Nobody, Nobody, Nobody, Nobody)
    BY <1>2, Ends
  <2>2. call'[c].at = "idle"
    BY <2>1 DEF Is
  <2>3. Within(GroupAt)
    BY <1>2, <2>1, <2>2, StaysInGroup DEF GroupAt
  <2>4. /\ members' \in [Readers -> Nat] /\ members'[u] = members[u] - 1
        /\ \A v \in Readers \ {u} : members'[v] = members[v]
    BY <1>3, <1>5, GroupTyped
  <2>5. \A v \in Readers : ~(members'[v] > members[v])
    BY <1>3, <2>4, GroupTyped
  <2>6. Created
    BY <1>3, <1>5 DEF GroupInv, GroupTypeOK, NoRows
  <2>7. GroupTypeOK'
    BY <1>2, <2>4, <2>6 DEF GroupInv, GroupTypeOK, Created
  <2>8. creator' \in users' \cup {Nobody} /\ payers' \subseteq users' /\ raced \subseteq raced'
    BY <1>2 DEF GroupInv
  <2>9. GroupInv'
    BY <2>1, <2>2, <2>5, <2>7, <2>8, IdleAims, IdleGroupCall, GroupTurns
  <2> QED
    BY <2>1, <2>3, <2>9
<1> QED
  BY <1>2, <1>4, <1>5

LEMMA DeleteGroupKeeps ==
  ASSUME GroupInv, Calls, NEW c \in Clients, DeleteGroup(c)
  PROVE  Calls' /\ Within(GroupAt) /\ GroupInv'
<1>1. /\ call[c].at = "delete-group" /\ End(c) /\ users' = users /\ creator' = Nobody
      /\ members' = NoRows /\ expenses' = NoExpenses /\ payers' = payers /\ raced' = raced
  BY DEF DeleteGroup
<1>2. Calls' /\ Turns(c, call'[c]) /\ Is(call'[c], "idle", Nobody, Nobody, Nobody, Nobody)
  BY <1>1, Ends
<1>3. call'[c].at = "idle"
  BY <1>2 DEF Is
<1>4. Within(GroupAt)
  BY <1>1, <1>2, <1>3, StaysInGroup DEF GroupAt
<1>5. /\ members' \in [Readers -> Nat] /\ expenses' \in [Readers -> Nat]
      /\ \A v \in Readers : members'[v] = 0 /\ expenses'[v] = 0
  BY <1>1 DEF NoRows, NoExpenses
<1>6. \A v \in Readers : ~(members'[v] > members[v])
  BY <1>5, GroupTyped
<1>7. GroupTypeOK'
  BY <1>1, <1>5, GroupTyped DEF GroupTypeOK, Created, NoRows, NoExpenses
<1>8. creator' \in users' \cup {Nobody} /\ payers' \subseteq users' /\ raced \subseteq raced'
  BY <1>1 DEF GroupInv
<1>9. GroupInv'
  BY <1>2, <1>3, <1>6, <1>7, <1>8, IdleAims, IdleGroupCall, GroupTurns
<1> QED
  BY <1>2, <1>4, <1>9

\* A request of one round trip that leaves the members alone.
LEMMA GroupOnce ==
  ASSUME GroupInv, Calls, NEW c \in Clients, Once(c), users' = users, creator' = creator,
         members' = members, raced' = raced, GroupTypeOK', payers' \subseteq users'
  PROVE  Calls' /\ Within(GroupAt) /\ GroupInv'
<1>1. call' = call /\ Calls'
  BY Onced
<1>2. Turns(c, call'[c]) /\ Within(GroupAt) /\ GroupCall(call'[c]) /\ call'[c] = call[c]
  BY <1>1 DEF Turns, Within, GroupInv
<1>3. \A u \in Readers \ raced' : WillAdd(call'[c], u) => members'[u] = 0
  BY <1>2 DEF GroupInv, RowsCounted
<1>4. \A u \in Readers : ~(members'[u] > members[u])
  BY GroupTyped
<1>5. creator' \in users' \cup {Nobody} /\ raced \subseteq raced'
  BY DEF GroupInv
<1>6. GroupInv'
  BY <1>2, <1>3, <1>4, <1>5, GroupTurns
<1> QED
  BY <1>1, <1>2, <1>6

LEMMA RenameGroupKeeps ==
  ASSUME GroupInv, Calls, NEW c \in Clients, NEW a \in Readers, RenameGroup(c, a)
  PROVE  Calls' /\ Within(GroupAt) /\ GroupInv'
<1>1. /\ Once(c) /\ users' = users /\ creator' = creator
      /\ members' = members /\ expenses' = expenses /\ payers' = payers /\ raced' = raced
  BY Zenon DEF RenameGroup, groupVars
<1>2. GroupTypeOK' /\ payers' \subseteq users'
  BY <1>1 DEF GroupInv, GroupTypeOK, Created, NoRows, NoExpenses
<1> QED
  BY <1>1, <1>2, GroupOnce

LEMMA PayExpenseKeeps ==
  ASSUME GroupInv, Calls, NEW c \in Clients, NEW u \in Readers, PayExpense(c, u)
  PROVE  Calls' /\ Within(GroupAt) /\ GroupInv'
<1>1. /\ Once(c) /\ u \in users /\ Created /\ users' = users /\ creator' = creator
      /\ members' = members /\ expenses' = [expenses EXCEPT ![u] = @ + 1]
      /\ payers' = payers \cup {u} /\ raced' = raced
  BY DEF PayExpense
<1>2. GroupTypeOK' /\ payers' \subseteq users'
  BY <1>1 DEF GroupInv, GroupTypeOK, Created
<1> QED
  BY <1>1, <1>2, GroupOnce

LEMMA GroupStep ==
  ASSUME GroupInv, Calls, NEW c \in Clients, GroupNext(c)
  PROVE  Calls' /\ Within(GroupAt) /\ GroupInv'
<1>1. ASSUME NEW u \in Readers, NEW v \in Readers, FindOwnGroup(c, u, "delete-member", v)
      PROVE  Calls' /\ Within(GroupAt) /\ GroupInv'
  BY <1>1, FindOwnGroupKeeps
<1>2. ASSUME NEW u \in Readers, FindOwnGroup(c, u, "delete-group", Nobody)
      PROVE  Calls' /\ Within(GroupAt) /\ GroupInv'
  BY <1>2, FindOwnGroupKeeps
<1>3. ASSUME FinishGroup(c)
      PROVE  Calls' /\ Within(GroupAt) /\ GroupInv'
  <2>1. call[c].at = "insert-founders" /\ End(c) /\ users' = users /\ UNCHANGED groupVars
    BY <1>3, Zenon DEF FinishGroup
  <2> QED
    BY <2>1, GroupEnds DEF GroupAt
<1> QED
  BY <1>1, <1>2, <1>3, CreateGroupKeeps, ReadGroupKeeps, InsertFounderKeeps, RenameGroupKeeps,
     PayExpenseKeeps, InsertGroupKeeps, FindMemberKeeps, InsertMemberKeeps, DeleteMemberKeeps,
     DeleteGroupKeeps, Zenon DEF GroupNext

\* Of messages, it may send some.
LEMMA GroupNotifies ==
  ASSUME NEW c \in Clients, GroupNext(c)
  PROVE  users' = users /\ UNCHANGED redis /\ \E U : Notify(U) \/ UNCHANGED inboxVars
<1>1. users' = users /\ UNCHANGED redis
  BY Zenon DEF GroupNext, CreateGroup, InsertGroup, InsertFounder, FinishGroup,
     ReadGroup, FindMember,
     InsertMember, FindOwnGroup, DeleteMember, DeleteGroup, RenameGroup, PayExpense
<1>2. (\E U : NotifyWilling(U)) \/ UNCHANGED inboxVars
  BY Zenon DEF GroupNext, CreateGroup, InsertGroup, InsertFounder, FinishGroup,
     ReadGroup, FindMember,
     InsertMember, FindOwnGroup, DeleteMember, DeleteGroup, RenameGroup, PayExpense
<1>3. (\E U : NotifyWilling(U)) => \E U : Notify(U)
  BY Zenon DEF NotifyWilling
<1> QED
  BY <1>1, <1>2, <1>3

LEMMA GroupKept ==
  ASSUME GroupInv, Still(GroupAt), UNCHANGED groupVars, users' = users
  PROVE  GroupInv'
<1>1. /\ creator' = creator /\ members' = members /\ expenses' = expenses
      /\ payers' = payers /\ raced' = raced
  BY DEF groupVars
<1>2. \A d \in Clients : call'[d].at \in GroupAt => call'[d] = call[d]
  BY DEF Still
<1>3. \A d \in Clients : GroupCall(call'[d])
  BY <1>2 DEF GroupInv, GroupCall, GroupAt, FoundAt
<1>4. \A d \in Clients : (GroupCall(call[d]))'
  BY <1>3 DEF GroupCall
<1>5. \A d \in Clients : \A u \in Readers :
        /\ (Aims(call[d], u))' => Aims(call[d], u)
        /\ (WillAdd(call[d], u))' => WillAdd(call[d], u)
  BY <1>2 DEF Aims, WillAdd, GroupAt, FoundAt
<1>6. RowsCounted'
  BY <1>1, <1>5 DEF GroupInv, RowsCounted
<1>7. GroupTypeOK'
  BY <1>1 DEF GroupInv, GroupTypeOK, Created, NoRows, NoExpenses
<1> QED
  BY <1>1, <1>4, <1>6, <1>7 DEF GroupInv

LEMMA GroupStopped ==
  ASSUME GroupInv, NEW c \in Clients, Stop(c), Turns(c, call'[c]), call'[c].at = "idle"
  PROVE  GroupInv'
<1>1. /\ users' = users /\ creator' = creator /\ members' = members /\ expenses' = expenses
      /\ payers' = payers /\ raced' = raced
  BY DEF Stop, groupVars
<1> QED
  BY <1>1, IdleAims, IdleGroupCall, GroupQuiet

\* The founder of a group and whoever paid something are not deleted.
LEMMA GroupDeleted ==
  ASSUME GroupInv, NEW c \in Clients, Turns(c, call'[c]), call'[c].at = "idle",
         NEW u, u \in Users, users' = users \ {u}, ~Founder(u), u \notin payers,
         UNCHANGED groupVars
  PROVE  GroupInv'
<1>1. /\ creator' = creator /\ members' = members /\ expenses' = expenses
      /\ payers' = payers /\ raced' = raced
  BY DEF groupVars
<1>2. creator' \in users' \cup {Nobody} /\ payers' \subseteq users' /\ raced \subseteq raced'
  BY <1>1 DEF GroupInv, Founder
<1>3. GroupTypeOK'
  BY <1>1 DEF GroupInv, GroupTypeOK, Created, NoRows, NoExpenses
<1>4. \A v \in Readers : ~(members'[v] > members[v])
  BY <1>1, GroupTyped
<1> QED
  BY <1>2, <1>3, <1>4, IdleAims, IdleGroupCall, GroupTurns

LEMMA GroupInit == Init => GroupInv
<1> SUFFICES ASSUME Init
             PROVE  GroupInv
  OBVIOUS
<1>1. /\ users = Users /\ call = [c \in Clients |-> NoCall]
      /\ members = [r \in Readers |-> IF r = creator THEN 1 ELSE 0]
      /\ expenses = NoExpenses /\ payers = {} /\ raced = {}
      /\ creator \in Readers \cup {Nobody}
  BY DEF Init
<1>2. \A c \in Clients : call[c].at = "idle"
  BY <1>1 DEF NoCall
<1>3. \A c \in Clients : GroupCall(call[c]) /\ \A u \in Readers : ~Aims(call[c], u)
  BY <1>2, IdleAims, IdleGroupCall
<1>4. Nobody \notin Readers
  BY ReadersAssumption, NobodyAssumption
<1>5. /\ members \in [Readers -> Nat] /\ expenses \in [Readers -> Nat]
      /\ \A u \in Readers : members[u] <= 1 /\ expenses[u] = 0
  BY <1>1 DEF NoExpenses
<1>6. ~Created => members = NoRows
  <2>1. creator = Nobody => \A r \in Readers : members[r] = 0
    BY <1>1, <1>4
  <2> QED
    BY <1>5, <2>1 DEF Created, NoRows
<1>7. GroupTypeOK
  BY <1>1, <1>5, <1>6 DEF GroupTypeOK
<1>8. RowsCounted
  BY <1>3, <1>5 DEF RowsCounted, WillAdd
<1>9. creator \in users \cup {Nobody} /\ payers \subseteq users
  BY <1>1, ReadersAssumption
<1> QED
  BY <1>3, <1>7, <1>8, <1>9 DEF GroupInv

-----------------------------------------------------------------------------
(* Sums, as in BudgetProofs.  MapThenSumSet adds one chosen element after  *)
(* the other; for a finite set the order makes no difference.              *)

\* The least-number principle, for sets of numbers.
LEMMA Least ==
  ASSUME NEW T, T \subseteq Nat, T # {}
  PROVE  \E n \in T : \A m \in T : n <= m
<1> DEFINE R == OpToRel(<, Nat)
<1>1. \E n \in T : \A m \in T : <<m, n>> \notin R
  <2>1. IsWellFoundedOn(R, Nat)
    BY NatLessThanWellFounded
  <2> HIDE DEF R
  <2> QED
    BY <2>1, WFMin
<1>2. \A m, n \in Nat : m < n => <<m, n>> \in R
  BY DEF OpToRel
<1> HIDE DEF R
<1>3. PICK n \in T : \A m \in T : <<m, n>> \notin R
  BY <1>1
<1>4. ASSUME NEW m \in T
      PROVE  n <= m
  <2>1. m \in Nat /\ n \in Nat
    OBVIOUS
  <2>2. ~(m < n)
    BY <1>2, <1>3, <2>1
  <2> QED
    BY <2>1, <2>2
<1> QED
  BY <1>4

Pick(S) == CHOOSE x \in S : TRUE

SumOver(w, S) == MapThenSumSet(LAMBDA x : w[x], S)

\* One step of the recursion: the sum over s, from those over smaller sets.
StepOf(g, w, s) == IF s = {} THEN 0 ELSE w[Pick(s)] + g[s \ {Pick(s)}]

IsTable(g, w, S) == g = [s \in SUBSET S |-> StepOf(g, w, s)]

Table(w, S) == CHOOSE g : IsTable(g, w, S)

LEMMA SumIsTable ==
  ASSUME NEW w, NEW S
  PROVE  SumOver(w, S) = Table(w, S)[S]
  BY DEF SumOver, MapThenSumSet, MapThenFoldSet, Table, IsTable, StepOf, Pick

\* What a finite set is without the element that is added first.
LEMMA PickOf ==
  ASSUME NEW S, IsFiniteSet(S), S # {}
  PROVE  /\ Pick(S) \in S
         /\ IsFiniteSet(S \ {Pick(S)})
         /\ Cardinality(S) \in Nat /\ Cardinality(S \ {Pick(S)}) \in Nat
         /\ Cardinality(S \ {Pick(S)}) = Cardinality(S) - 1
<1>1. Pick(S) \in S
  BY DEF Pick
<1> QED
  BY <1>1, FS_RemoveElement, FS_CardinalityType

\* What holds of the empty set, and of a set when it holds of all that are smaller, holds of
\* all finite sets.
LEMMA TableExists ==
  ASSUME NEW S, IsFiniteSet(S), NEW w \in [S -> Int]
  PROVE  \E g \in [SUBSET S -> Int] : IsTable(g, w, S)
<1> DEFINE Good(n) == \E g \in [SUBSET S -> Int] :
                        \A s \in SUBSET S : Cardinality(s) <= n => g[s] = StepOf(g, w, s)
           bad == {n \in Nat : ~Good(n)}
<1>1. \A s \in SUBSET S : IsFiniteSet(s) /\ Cardinality(s) \in Nat
  BY FS_Subset, FS_CardinalityType
<1>2. \A s \in SUBSET S : s # {} => /\ Pick(s) \in s /\ Pick(s) \in S
                                    /\ s \ {Pick(s)} \in SUBSET S
                                    /\ Cardinality(s \ {Pick(s)}) = Cardinality(s) - 1
  BY <1>1, PickOf
<1>3. \A s \in SUBSET S : Cardinality(s) = 0 <=> s = {}
  BY <1>1, FS_EmptySet
<1>4. Good(0)
  <2> DEFINE g == [s \in SUBSET S |-> 0]
  <2>1. /\ g \in [SUBSET S -> Int]
        /\ \A s \in SUBSET S : Cardinality(s) <= 0 => g[s] = StepOf(g, w, s)
    BY <1>1, <1>3 DEF StepOf
  <2> QED
    BY <2>1
<1>5. ASSUME NEW n \in Nat, Good(n)
      PROVE  Good(n + 1)
  <2>1. PICK g \in [SUBSET S -> Int] :
               \A s \in SUBSET S : Cardinality(s) <= n => g[s] = StepOf(g, w, s)
    BY <1>5
  <2> DEFINE h == [s \in SUBSET S |-> IF Cardinality(s) <= n THEN g[s] ELSE StepOf(g, w, s)]
  <2>2. h \in [SUBSET S -> Int]
    <3>1. ASSUME NEW s \in SUBSET S
          PROVE  StepOf(g, w, s) \in Int
      <4>1. CASE s = {}
        BY <4>1 DEF StepOf
      <4>2. CASE s # {}
        <5>1. w[Pick(s)] \in Int /\ g[s \ {Pick(s)}] \in Int
          BY <1>2, <4>2
        <5> QED
          BY <4>2, <5>1 DEF StepOf
      <4> QED
        BY <4>1, <4>2
    <3> QED
      BY <3>1
  <2>3. \A s \in SUBSET S : Cardinality(s) <= n + 1 => StepOf(h, w, s) = StepOf(g, w, s)
    BY <1>1, <1>2 DEF StepOf
  <2>4. \A s \in SUBSET S : h[s] = StepOf(g, w, s) \/ ~(Cardinality(s) <= n + 1)
    BY <2>1
  <2> HIDE DEF h
  <2> QED
    BY <2>2, <2>3, <2>4
<1>6. bad = {}
  <2> SUFFICES ASSUME bad # {}
               PROVE  FALSE
    OBVIOUS
  <2>1. PICK n \in bad : \A m \in bad : n <= m
    <3>1. bad \subseteq Nat
      OBVIOUS
    <3> HIDE DEF bad
    <3> QED
      BY <3>1, Least
  <2> HIDE DEF Good
  <2>2. n \in Nat /\ n # 0 /\ ~Good(n)
    BY <1>4
  <2>3. Good(n - 1)
    BY <2>1, <2>2
  <2> QED
    BY <1>5, <2>2, <2>3
<1>7. Good(Cardinality(S))
  <2> HIDE DEF Good
  <2> QED
    BY <1>1, <1>6
<1>8. \A s \in SUBSET S : Cardinality(s) <= Cardinality(S)
  BY FS_Subset
<1>9. PICK g \in [SUBSET S -> Int] : \A s \in SUBSET S : g[s] = StepOf(g, w, s)
  BY <1>7, <1>8
<1> QED
  BY <1>9 DEF IsTable

\* g holds the sums of w over the subsets of S.
Sums(g, w, S) == \A s \in SUBSET S : g[s] = StepOf(g, w, s)

LEMMA TableOf ==
  ASSUME NEW S, IsFiniteSet(S), NEW w \in [S -> Int]
  PROVE  Sums(Table(w, S), w, S)
<1>1. \E g : IsTable(g, w, S)
  BY TableExists
<1>2. IsTable(Table(w, S), w, S)
  BY <1>1, Zenon DEF Table
<1> HIDE DEF Table
<1>3. ASSUME NEW h, IsTable(h, w, S), NEW s \in SUBSET S
      PROVE  h[s] = StepOf(h, w, s)
  BY <1>3, Zenon DEF IsTable
<1> QED
  BY <1>2, <1>3, Zenon DEF Sums

\* Two tables agree where their weights do.
LEMMA TablesAgree ==
  ASSUME NEW S, IsFiniteSet(S), NEW g, NEW h, NEW w, NEW v,
         Sums(g, w, S), Sums(h, v, S), \A x \in S : w[x] = v[x]
  PROVE  \A s \in SUBSET S : g[s] = h[s]
<1> DEFINE bad == {n \in Nat : \E s \in SUBSET S : Cardinality(s) = n /\ g[s] # h[s]}
<1>1. \A s \in SUBSET S : IsFiniteSet(s) /\ Cardinality(s) \in Nat
  BY FS_Subset, FS_CardinalityType
<1>2. bad = {}
  <2> SUFFICES ASSUME bad # {}
               PROVE  FALSE
    OBVIOUS
  <2>1. PICK n \in bad : \A m \in bad : n <= m
    <3>1. bad \subseteq Nat
      OBVIOUS
    <3> HIDE DEF bad
    <3> QED
      BY <3>1, Least
  <2>2. PICK s \in SUBSET S : Cardinality(s) = n /\ g[s] # h[s]
    OBVIOUS
  <2>3. s # {}
    BY <2>2 DEF Sums, StepOf
  <2>4. /\ Pick(s) \in S
        /\ s \ {Pick(s)} \in SUBSET S
        /\ Cardinality(s \ {Pick(s)}) = n - 1 /\ n - 1 \in Nat
    BY <1>1, <2>2, <2>3, PickOf
  <2>5. n - 1 \notin bad
    BY <2>1, <2>4
  <2>6. g[s \ {Pick(s)}] = h[s \ {Pick(s)}]
    BY <2>4, <2>5
  <2> QED
    BY <2>2, <2>3, <2>4, <2>6 DEF Sums, StepOf
<1> QED
  BY <1>1, <1>2

\* A sum is that of any table that holds more.
LEMMA SumIn ==
  ASSUME NEW D, IsFiniteSet(D), NEW w \in [D -> Int], NEW S \in SUBSET D
  PROVE  SumOver(w, S) = Table(w, D)[S]
<1>1. IsFiniteSet(S)
  BY FS_Subset
<1> DEFINE v == [x \in S |-> w[x]]
<1>2. Sums(Table(v, S), v, S) /\ Sums(Table(w, D), w, S)
  BY <1>1, TableOf DEF Sums
<1>3. Table(v, S)[S] = Table(w, D)[S]
  <2>1. \A x \in S : v[x] = w[x]
    OBVIOUS
  <2> HIDE DEF v
  <2> QED
    BY <1>1, <1>2, <2>1, TablesAgree
<1>4. Table(v, S) = Table(w, S)
  <2>1. ASSUME NEW g, NEW s \in SUBSET S
        PROVE  StepOf(g, v, s) = StepOf(g, w, s)
    <3>1. s # {} => Pick(s) \in S
      BY <1>1, FS_Subset, PickOf
    <3> QED
      BY <3>1 DEF StepOf
  <2> HIDE DEF v
  <2>2. \A g : [s \in SUBSET S |-> StepOf(g, v, s)] = [s \in SUBSET S |-> StepOf(g, w, s)]
    BY <2>1
  <2> QED
    BY <2>2 DEF Table, IsTable
<1> QED
  BY <1>3, <1>4, SumIsTable

\* g holds the sums of w over the subsets of D.
Adds(g, w, D) ==
  /\ \A S \in SUBSET D : g[S] \in Int /\ SumOver(w, S) = g[S]
  /\ g[{}] = 0
  /\ \A S \in SUBSET D : S # {} => Pick(S) \in S /\ g[S] = w[Pick(S)] + g[S \ {Pick(S)}]

LEMMA SumTable ==
  ASSUME NEW D, IsFiniteSet(D), NEW w \in [D -> Int]
  PROVE  \E g : Adds(g, w, D)
<1>1. PICK g \in [SUBSET D -> Int] : IsTable(g, w, D)
  BY TableExists
<1>2. ASSUME NEW S \in SUBSET D
      PROVE  g[S] = StepOf(g, w, S)
  BY <1>1, Zenon DEF IsTable
<1>3. Sums(g, w, D) /\ Sums(Table(w, D), w, D)
  BY <1>2, TableOf DEF Sums
<1>4. \A S \in SUBSET D : g[S] = Table(w, D)[S]
  BY <1>3, TablesAgree
<1>5. \A S \in SUBSET D : SumOver(w, S) = g[S]
  BY <1>4, SumIn
<1>6. g[{}] = 0
  BY <1>2 DEF StepOf
<1>7. ASSUME NEW S \in SUBSET D, S # {}
      PROVE  Pick(S) \in S /\ g[S] = w[Pick(S)] + g[S \ {Pick(S)}]
  <2>1. IsFiniteSet(S)
    BY FS_Subset
  <2> QED
    BY <1>2, <1>7, <2>1, PickOf DEF StepOf
<1> QED
  BY <1>5, <1>6, <1>7 DEF Adds

LEMMA SmallerOf ==
  ASSUME NEW s, IsFiniteSet(s), NEW x \in s
  PROVE  Cardinality(s \ {x}) = Cardinality(s) - 1
  BY FS_RemoveElement

LEMMA SumType ==
  ASSUME NEW D, IsFiniteSet(D), NEW w \in [D -> Int], NEW S \in SUBSET D
  PROVE  SumOver(w, S) \in Int
<1>1. PICK g : Adds(g, w, D)
  BY SumTable
<1> QED
  BY <1>1 DEF Adds

LEMMA SumSame ==
  ASSUME NEW D, IsFiniteSet(D), NEW w \in [D -> Int], NEW v \in [D -> Int],
         NEW S \in SUBSET D, \A x \in S : w[x] = v[x]
  PROVE  SumOver(w, S) = SumOver(v, S)
<1>1. IsFiniteSet(S)
  BY FS_Subset
<1>2. Sums(Table(w, D), w, S) /\ Sums(Table(v, D), v, S)
  BY TableOf DEF Sums
<1>3. Table(w, D)[S] = Table(v, D)[S]
  BY <1>1, <1>2, TablesAgree
<1> QED
  BY <1>3, SumIn

LEMMA SumSplit ==
  ASSUME NEW D, IsFiniteSet(D), NEW w \in [D -> Int], NEW S \in SUBSET D, NEW x \in S
  PROVE  SumOver(w, S) = w[x] + SumOver(w, S \ {x})
<1>1. PICK g : Adds(g, w, D)
  BY SumTable
<1> DEFINE bad == {n \in Nat : \E s \in SUBSET D, y \in D :
                                  y \in s /\ Cardinality(s) = n /\ g[s] # w[y] + g[s \ {y}]}
<1>2. \A s \in SUBSET D : IsFiniteSet(s) /\ Cardinality(s) \in Nat
  BY FS_Subset, FS_CardinalityType
<1>3. bad = {}
  <2> SUFFICES ASSUME bad # {}
               PROVE  FALSE
    OBVIOUS
  <2>1. PICK n \in bad : \A m \in bad : n <= m
    <3>1. bad \subseteq Nat
      OBVIOUS
    <3> HIDE DEF bad
    <3> QED
      BY <3>1, Least
  <2>2. PICK s \in SUBSET D, y \in D : y \in s /\ Cardinality(s) = n /\ g[s] # w[y] + g[s \ {y}]
    OBVIOUS
  <2> DEFINE p == Pick(s)
  <2>3. p \in s /\ p \in D /\ g[s] = w[p] + g[s \ {p}]
    BY <1>1, <2>2 DEF Adds
  <2> HIDE DEF p
  <2>4. p # y
    BY <2>2, <2>3
  <2>4a. IsFiniteSet(s) /\ s \ {p} \in SUBSET D /\ s \ {y} \in SUBSET D
    BY <1>2
  <2>4b. Cardinality(s \ {p}) = n - 1 /\ Cardinality(s \ {y}) = n - 1
    BY <2>2, <2>3, <2>4a, SmallerOf
  <2>5. /\ s \ {p} \in SUBSET D /\ s \ {y} \in SUBSET D
        /\ Cardinality(s \ {p}) = n - 1 /\ Cardinality(s \ {y}) = n - 1
        /\ n - 1 \in Nat
    BY <1>2, <2>4a, <2>4b
  <2>6. n - 1 \notin bad
    <3>1. n \in Nat /\ ~(n <= n - 1)
      BY <2>2, <2>5
    <3> HIDE DEF bad
    <3> QED
      BY <2>1, <3>1
  <2>7. g[s \ {p}] = w[y] + g[(s \ {p}) \ {y}]
    BY <2>2, <2>4, <2>5, <2>6
  <2>8. g[s \ {y}] = w[p] + g[(s \ {y}) \ {p}]
    BY <2>3, <2>4, <2>5, <2>6
  <2>9. g[(s \ {p}) \ {y}] = g[(s \ {y}) \ {p}]
    <3>1. (s \ {p}) \ {y} = (s \ {y}) \ {p}
      OBVIOUS
    <3> QED
      BY <3>1
  <2>10. /\ w[p] \in Int /\ w[y] \in Int
         /\ g[(s \ {p}) \ {y}] \in Int /\ g[s \ {y}] \in Int /\ g[s \ {p}] \in Int
    BY <1>1, <2>2, <2>3 DEF Adds
  <2> QED
    BY <2>2, <2>3, <2>7, <2>8, <2>9, <2>10
<1>4. g[S] = w[x] + g[S \ {x}]
  BY <1>2, <1>3
<1> QED
  BY <1>1, <1>4 DEF Adds

\* A sum over a part of a set is one over the whole in which the others count nothing.
LEMMA SumPart ==
  ASSUME NEW D, IsFiniteSet(D), NEW w \in [D -> Int], NEW v \in [D -> Int], NEW S \in SUBSET D,
         \A x \in D : v[x] = IF x \in S THEN w[x] ELSE 0
  PROVE  SumOver(v, D) = SumOver(w, S)
<1>1. PICK g : Adds(g, v, D)
  BY SumTable
<1>2. PICK h : Adds(h, w, D)
  BY SumTable
<1> DEFINE bad == {n \in Nat : \E s \in SUBSET D : Cardinality(s) = n /\ g[s] # h[s \cap S]}
<1>3. \A s \in SUBSET D : IsFiniteSet(s) /\ Cardinality(s) \in Nat
  BY FS_Subset, FS_CardinalityType
<1>4. bad = {}
  <2> SUFFICES ASSUME bad # {}
               PROVE  FALSE
    OBVIOUS
  <2>1. PICK n \in bad : \A m \in bad : n <= m
    <3>1. bad \subseteq Nat
      OBVIOUS
    <3> HIDE DEF bad
    <3> QED
      BY <3>1, Least
  <2>2. PICK s \in SUBSET D : Cardinality(s) = n /\ g[s] # h[s \cap S]
    OBVIOUS
  <2>3. s # {}
    <3> SUFFICES ASSUME s = {}
                 PROVE  FALSE
      OBVIOUS
    <3>1. s \cap S = {}
      OBVIOUS
    <3>2. g[s] = 0 /\ h[s \cap S] = 0
      BY <1>1, <1>2, <3>1 DEF Adds
    <3> QED
      BY <2>2, <3>2
  <2> DEFINE p == Pick(s)
  <2>4. p \in s /\ p \in D /\ g[s] = v[p] + g[s \ {p}]
    BY <1>1, <2>3 DEF Adds
  <2> HIDE DEF p
  <2>5. s \ {p} \in SUBSET D /\ Cardinality(s \ {p}) = n - 1 /\ n - 1 \in Nat
    BY <1>3, <2>2, <2>4, SmallerOf
  <2>6. n - 1 \notin bad
    <3>1. n \in Nat /\ ~(n <= n - 1)
      BY <2>2, <2>5
    <3> HIDE DEF bad
    <3> QED
      BY <2>1, <3>1
  <2>7. g[s \ {p}] = h[(s \ {p}) \cap S]
    BY <2>5, <2>6
  <2>8. h[s \cap S] = v[p] + h[(s \ {p}) \cap S]
    <3>1. CASE p \in S
      <4>1. p \in s \cap S /\ s \cap S \in SUBSET D /\ (s \cap S) \ {p} \in SUBSET D
        BY <2>4, <3>1
      <4>2. SumOver(w, s \cap S) = w[p] + SumOver(w, (s \cap S) \ {p})
        BY <4>1, SumSplit
      <4>3. h[s \cap S] = w[p] + h[(s \cap S) \ {p}]
        BY <1>2, <4>1, <4>2 DEF Adds
      <4>4. (s \cap S) \ {p} = (s \ {p}) \cap S
        OBVIOUS
      <4> QED
        BY <2>4, <3>1, <4>3, <4>4
    <3>2. CASE p \notin S
      <4>1. h[(s \ {p}) \cap S] = h[s \cap S]
        <5>1. (s \ {p}) \cap S = s \cap S
          BY <3>2
        <5> QED
          BY <5>1
      <4>2. s \cap S \in SUBSET D
        OBVIOUS
      <4>3. h[s \cap S] \in Int
        BY <1>2, <4>2 DEF Adds
      <4>4. v[p] = 0
        BY <2>4, <3>2
      <4> QED
        BY <4>1, <4>3, <4>4
    <3> QED
      BY <3>1, <3>2
  <2> QED
    BY <2>2, <2>4, <2>7, <2>8
<1>5. g[D] = h[D \cap S]
  BY <1>3, <1>4
<1>6. D \cap S = S
  OBVIOUS
<1> QED
  BY <1>1, <1>2, <1>5, <1>6 DEF Adds

\* z counts each x so often as w says, n times, less as v says, e times.
Differ(z, w, n, v, e, D) == \A x \in D : z[x] = w[x] * n - v[x] * e

\* A sum of differences.
LEMMA SumLinear ==
  ASSUME NEW D, IsFiniteSet(D), NEW w \in [D -> Int], NEW v \in [D -> Int], NEW z \in [D -> Int],
         NEW n \in Int, NEW e \in Int, Differ(z, w, n, v, e, D)
  PROVE  SumOver(z, D) = SumOver(w, D) * n - SumOver(v, D) * e
<1>1. PICK f : Adds(f, w, D)
  BY SumTable
<1>2. PICK g : Adds(g, v, D)
  BY SumTable
<1>3. PICK h : Adds(h, z, D)
  BY SumTable
<1> DEFINE bad == {k \in Nat : \E s \in SUBSET D : Cardinality(s) = k /\ h[s] # f[s] * n - g[s] * e}
<1>4. \A s \in SUBSET D : IsFiniteSet(s) /\ Cardinality(s) \in Nat
  BY FS_Subset, FS_CardinalityType
<1>5. bad = {}
  <2> SUFFICES ASSUME bad # {}
               PROVE  FALSE
    OBVIOUS
  <2>1. PICK k \in bad : \A m \in bad : k <= m
    <3>1. bad \subseteq Nat
      OBVIOUS
    <3> HIDE DEF bad
    <3> QED
      BY <3>1, Least
  <2>2. PICK s \in SUBSET D : Cardinality(s) = k /\ h[s] # f[s] * n - g[s] * e
    OBVIOUS
  <2>3. s # {}
    <3> SUFFICES ASSUME s = {}
                 PROVE  FALSE
      OBVIOUS
    <3>1. f[s] = 0 /\ g[s] = 0 /\ h[s] = 0
      BY <1>1, <1>2, <1>3 DEF Adds
    <3>2. 0 * n = 0 /\ 0 * e = 0
      OBVIOUS
    <3> QED
      BY <2>2, <3>1, <3>2
  <2> DEFINE p == Pick(s)
  <2>4. /\ p \in s /\ p \in D /\ f[s] = w[p] + f[s \ {p}] /\ g[s] = v[p] + g[s \ {p}]
        /\ h[s] = z[p] + h[s \ {p}]
    BY <1>1, <1>2, <1>3, <2>3 DEF Adds
  <2> HIDE DEF p
  <2>5. s \ {p} \in SUBSET D /\ Cardinality(s \ {p}) = k - 1 /\ k - 1 \in Nat
    BY <1>4, <2>2, <2>4, SmallerOf
  <2>6. k - 1 \notin bad
    <3>1. k \in Nat /\ ~(k <= k - 1)
      BY <2>2, <2>5
    <3> HIDE DEF bad
    <3> QED
      BY <2>1, <3>1
  <2>7. h[s \ {p}] = f[s \ {p}] * n - g[s \ {p}] * e
    BY <2>5, <2>6
  <2>8. PICK a \in Int, b \in Int, c \in Int, d \in Int :
          a = w[p] /\ b = f[s \ {p}] /\ c = v[p] /\ d = g[s \ {p}]
    BY <1>1, <1>2, <2>4, <2>5 DEF Adds
  <2>9. (a + b) * n = a * n + b * n /\ (c + d) * e = c * e + d * e
    OBVIOUS
  <2>10. PICK an \in Int, bn \in Int, ce \in Int, de \in Int :
           an = a * n /\ bn = b * n /\ ce = c * e /\ de = d * e
    OBVIOUS
  <2>11. f[s] * n = an + bn /\ g[s] * e = ce + de
    BY <2>4, <2>8, <2>9, <2>10
  <2>12. z[p] = an - ce /\ h[s \ {p}] = bn - de
    BY <2>4, <2>7, <2>8, <2>10 DEF Differ
  <2> QED
    BY <2>2, <2>4, <2>10, <2>11, <2>12
<1>6. h[D] = f[D] * n - g[D] * e
  BY <1>4, <1>5
<1> QED
  BY <1>1, <1>2, <1>3, <1>6 DEF Adds

-----------------------------------------------------------------------------
(* Debts.                                                                  *)

\* What the others paid for u, by payer.
ChargedTo(u) == [p \in Readers |-> IF p = u THEN 0 ELSE expenses[p] * members[u]]

ChargedStep(g, u, s) ==
  IF s = {} THEN 0
  ELSE (IF Pick(s) = u THEN 0 ELSE expenses[Pick(s)] * members[u]) + g[s \ {Pick(s)}]

NetStep(g, s) == IF s = {} THEN 0 ELSE Net(Pick(s)) + g[s \ {Pick(s)}]

LEMMA NetIs ==
  ASSUME NEW u \in Readers
  PROVE  Net(u) = (IF expenses[u] > 0 THEN expenses[u] * (Rows - 1) ELSE 0)
                    - SumOver(ChargedTo(u), Readers)
<1>1. PICK t : t = CHOOSE g : g = [s \in SUBSET Readers |-> ChargedStep(g, u, s)]
  OBVIOUS
<1>2. Net(u) = (IF expenses[u] > 0 THEN expenses[u] * (Rows - 1) ELSE 0) - t[Readers]
  BY <1>1 DEF Net, MapThenSumSet, MapThenFoldSet, ChargedStep, Pick
<1>3. ASSUME NEW g, NEW s \in SUBSET Readers
      PROVE  ChargedStep(g, u, s) = StepOf(g, ChargedTo(u), s)
  <2>1. s # {} => Pick(s) \in Readers
    <3>1. s # {} => Pick(s) \in s
      BY DEF Pick
    <3> QED
      BY <3>1
  <2> QED
    BY <2>1 DEF ChargedStep, StepOf, ChargedTo
<1>4. \A g : [s \in SUBSET Readers |-> ChargedStep(g, u, s)]
               = [s \in SUBSET Readers |-> StepOf(g, ChargedTo(u), s)]
  BY <1>3
<1>5. t = Table(ChargedTo(u), Readers)
  BY <1>1, <1>4 DEF Table, IsTable
<1> QED
  BY <1>2, <1>5, SumIsTable

LEMMA NetsAre ==
  MapThenSumSet(Net, Members) = SumOver([u \in Readers |-> Net(u)], Members)
<1>1. PICK N : N = [u \in Readers |-> Net(u)]
  OBVIOUS
<1>2. PICK M : M = Members
  OBVIOUS
<1>3. PICK t : t = CHOOSE g : g = [s \in SUBSET M |-> NetStep(g, s)]
  OBVIOUS
<1>4. MapThenSumSet(Net, M) = t[M]
  BY <1>3 DEF MapThenSumSet, MapThenFoldSet, NetStep, Pick
<1>5. ASSUME NEW g, NEW s \in SUBSET M
      PROVE  NetStep(g, s) = StepOf(g, N, s)
  <2>1. s # {} => Pick(s) \in Readers
    <3>1. s # {} => Pick(s) \in s
      BY DEF Pick
    <3> QED
      BY <1>2, <3>1 DEF Members
  <2>2. s # {} => N[Pick(s)] = Net(Pick(s))
    BY <1>1, <2>1
  <2> QED
    BY <2>2 DEF NetStep, StepOf
<1>6. \A g : [s \in SUBSET M |-> NetStep(g, s)] = [s \in SUBSET M |-> StepOf(g, N, s)]
  BY <1>5
<1>7. t = Table(N, M)
  BY <1>3, <1>6 DEF Table, IsTable
<1> QED
  BY <1>1, <1>2, <1>4, <1>7, SumIsTable

\* With one row each, and none who is no member paying, what a member is owed is all his
\* expenses less his share of everybody's; over all members the two are the same.
LEMMA DebtsAreCredits ==
  ASSUME GroupInv
  PROVE  DebtsMatchCredits
<1> SUFFICES ASSUME \A u \in Readers \ Members : ~(expenses[u] > 0),
                    \A u \in raced : ~(members[u] > 1)
             PROVE  MapThenSumSet(Net, Members) = 0
  BY DEF DebtsMatchCredits
<1>1. /\ members \in [Readers -> Nat] /\ expenses \in [Readers -> Nat]
      /\ IsFiniteSet(Readers) /\ Members \in SUBSET Readers
  BY GroupTyped, FiniteAssumption DEF Members
<1>2. \A u \in Readers : /\ members[u] = IF u \in Members THEN 1 ELSE 0
                         /\ u \notin Members => expenses[u] = 0
  <2> SUFFICES ASSUME NEW u \in Readers
               PROVE  /\ members[u] = IF u \in Members THEN 1 ELSE 0
                      /\ u \notin Members => expenses[u] = 0
    OBVIOUS
  <2>1. members[u] \in Nat /\ expenses[u] \in Nat /\ ~(members[u] > 1)
    <3>1. u \in raced => ~(members[u] > 1)
      OBVIOUS
    <3>2. u \notin raced => members[u] <= 1
      BY DEF GroupInv, RowsCounted
    <3> QED
      BY <1>1, <3>1, <3>2
  <2>2. u \in Members <=> members[u] > 0
    BY DEF Members
  <2> QED
    BY <2>1, <2>2
<1>3. PICK M, w, m : M = Members /\ w = expenses /\ m = members
  OBVIOUS
<1>3a. w \in [Readers -> Int] /\ m \in [Readers -> Int]
  BY <1>1, <1>3
<1>4. PICK n, e : n = Rows /\ e = SumOver(w, Readers)
  OBVIOUS
<1>5. n = SumOver(m, Readers)
  BY <1>3, <1>4 DEF Rows, SumOver
<1>6. n \in Int /\ e \in Int
  BY <1>1, <1>3a, <1>4, <1>5, SumType
<1>7. ASSUME NEW u \in Readers
      PROVE  /\ Net(u) \in Int
             /\ u \in M => Net(u) = w[u] * n - e
  <2>1. PICK c : c = ChargedTo(u)
    OBVIOUS
  <2>2. c \in [Readers -> Int]
    BY <1>1, <2>1 DEF ChargedTo
  <2>3. PICK sum \in Int : sum = SumOver(c, Readers)
    BY <1>1, <2>2, SumType
  <2>4. Net(u) = (IF w[u] > 0 THEN w[u] * (n - 1) ELSE 0) - sum
    BY <1>3, <1>4, <2>1, <2>3, NetIs
  <2>5. PICK x \in Nat : x = w[u]
    BY <1>1, <1>3
  <2>6. Net(u) \in Int
    BY <1>6, <2>4, <2>5
  <2>7. ASSUME u \in M
        PROVE  Net(u) = w[u] * n - e
    <3>1. \A p \in Readers \ {u} : c[p] = w[p]
      <4>1. members[u] = 1
        BY <1>2, <1>3, <2>7
      <4> QED
        BY <1>1, <1>3, <2>1, <4>1 DEF ChargedTo
    <3>2. c[u] = 0
      BY <2>1 DEF ChargedTo
    <3>3. PICK rest \in Int : rest = SumOver(w, Readers \ {u})
      BY <1>1, <1>3a, SumType
    <3>4. e = x + rest
      BY <1>1, <1>3a, <1>4, <2>5, <3>3, SumSplit
    <3>5. sum = 0 + rest
      <4>1. SumOver(c, Readers) = c[u] + SumOver(c, Readers \ {u})
        BY <1>1, <2>2, SumSplit
      <4>2. SumOver(c, Readers \ {u}) = SumOver(w, Readers \ {u})
        BY <1>1, <1>3a, <2>2, <3>1, SumSame
      <4> QED
        BY <2>3, <3>2, <3>3, <4>1, <4>2
    <3>6. x * (n - 1) = x * n - x
      BY <1>6
    <3>7. PICK xn \in Int : xn = x * n
      BY <1>6
    <3>8. CASE x > 0
      BY <1>6, <2>3, <2>4, <2>5, <3>3, <3>4, <3>5, <3>6, <3>7, <3>8
    <3>9. CASE x = 0
      <4>1. x * n = 0
        BY <1>6, <3>9
      <4> QED
        BY <1>6, <2>3, <2>4, <2>5, <3>3, <3>4, <3>5, <3>9, <4>1
    <3> QED
      BY <3>8, <3>9
  <2> QED
    BY <2>6, <2>7
<1>8. PICK N : N = [u \in Readers |-> Net(u)]
  OBVIOUS
<1>9. N \in [Readers -> Int] /\ \A u \in M : N[u] = w[u] * n - e
  BY <1>1, <1>3, <1>3a, <1>7, <1>8
<1>10. PICK z : z = [u \in Readers |-> IF u \in M THEN N[u] ELSE 0]
  OBVIOUS
<1>11. z \in [Readers -> Int] /\ \A u \in Readers : z[u] = IF u \in M THEN N[u] ELSE 0
  BY <1>9, <1>10
<1>12. ASSUME NEW u \in Readers
       PROVE  z[u] = w[u] * n - m[u] * e
  <2>1. CASE u \in M
    <3>1. m[u] = 1 /\ 1 * e = e
      BY <1>2, <1>3, <1>6, <2>1
    <3> QED
      BY <1>9, <1>11, <2>1, <3>1
  <2>2. CASE u \notin M
    <3>1. m[u] = 0 /\ w[u] = 0 /\ 0 * e = 0 /\ 0 * n = 0
      BY <1>2, <1>3, <1>6, <2>2
    <3> QED
      BY <1>11, <2>2, <3>1
  <2> QED
    BY <2>1, <2>2
<1>13. SumOver(z, Readers) = e * n - n * e
  <2>1. IsFiniteSet(Readers) /\ z \in [Readers -> Int]
    BY <1>1, <1>11
  <2>2. Differ(z, w, n, m, e, Readers)
    BY <1>12, Zenon DEF Differ
  <2>3. SumOver(z, Readers) = SumOver(w, Readers) * n - SumOver(m, Readers) * e
    BY <1>3a, <1>6, <2>1, <2>2, SumLinear
  <2> QED
    BY <1>4, <1>5, <2>3
<1>14. SumOver(z, Readers) = SumOver(N, M)
  BY <1>1, <1>3, <1>9, <1>11, SumPart
<1>15. e * n - n * e = 0
  BY <1>6
<1> QED
  BY <1>3, <1>8, <1>13, <1>14, <1>15, NetsAre

-----------------------------------------------------------------------------
(* The services together.                                                  *)

PlatformInv ==
  /\ Calls
  /\ ApprovalInv /\ ConsentInv /\ SupportInv /\ CacheInv /\ HabitInv /\ GroupInv

ServicesAt == {Deciding, ConsentAt, SupportAt, CacheAt, HabitAt, GroupAt}

LEMMA ServicesApart ==
  /\ \A S \in ServicesAt : "idle" \notin S /\ "delete-user" \notin S
  /\ Deciding \cap ConsentAt = {} /\ Deciding \cap SupportAt = {} /\ Deciding \cap CacheAt = {}
  /\ Deciding \cap HabitAt = {} /\ Deciding \cap GroupAt = {}
  /\ ConsentAt \cap SupportAt = {} /\ ConsentAt \cap CacheAt = {}
  /\ ConsentAt \cap HabitAt = {} /\ ConsentAt \cap GroupAt = {}
  /\ SupportAt \cap CacheAt = {} /\ SupportAt \cap HabitAt = {} /\ SupportAt \cap GroupAt = {}
  /\ CacheAt \cap HabitAt = {} /\ CacheAt \cap GroupAt = {} /\ HabitAt \cap GroupAt = {}
<1>1. /\ \A x \in Deciding : x \notin ConsentAt /\ x \notin SupportAt /\ x \notin CacheAt
                             /\ x \notin HabitAt /\ x \notin GroupAt
  BY DEF Deciding, ConsentAt, Checking, SupportAt, CacheAt, InboxAt, FlagsAt, TaskAt,
         HabitAt, GroupAt
<1>2. \A x \in ConsentAt : x \notin SupportAt /\ x \notin CacheAt
                          /\ x \notin HabitAt /\ x \notin GroupAt
  BY DEF ConsentAt, Checking, SupportAt, CacheAt, InboxAt, FlagsAt, TaskAt, HabitAt, GroupAt
<1>3. \A x \in SupportAt : x \notin CacheAt /\ x \notin HabitAt /\ x \notin GroupAt
  BY DEF SupportAt, CacheAt, InboxAt, FlagsAt, TaskAt, HabitAt, GroupAt
<1>4. \A x \in HabitAt : x \notin CacheAt /\ x \notin GroupAt
  BY DEF CacheAt, InboxAt, FlagsAt, TaskAt, HabitAt, GroupAt
<1>5. \A x \in GroupAt : x \notin CacheAt
  BY DEF CacheAt, InboxAt, FlagsAt, TaskAt, GroupAt
<1>6. \A S \in ServicesAt : "idle" \notin S /\ "delete-user" \notin S
  BY DEF ServicesAt, Deciding, ConsentAt, Checking, SupportAt, CacheAt, InboxAt, FlagsAt, TaskAt,
         HabitAt, GroupAt
<1> QED
  BY <1>1, <1>2, <1>3, <1>4, <1>5, <1>6

\* Whoever is to touch a case stays.
TouchesStay ==
  \A d \in Clients : call[d].at \in {"touch-case", "write-touch"} => call'[d] = call[d]

\* What a step of one service leaves to the others.
LEMMA Elsewhere ==
  ASSUME NEW T, Within(T)
  PROVE  /\ T \cap Deciding = {} => Fewer(Deciding)
         /\ T \cap ConsentAt = {} => Fewer(ConsentAt)
         /\ T \cap SupportAt = {} => Fewer(SupportAt) /\ TouchesStay
         /\ T \cap CacheAt = {} => Still(CacheAt)
         /\ T \cap HabitAt = {} => Still(HabitAt)
         /\ T \cap GroupAt = {} => Still(GroupAt)
<1>1. \A S \in ServicesAt : "idle" \notin S
  BY ServicesApart
<1>2. T \cap SupportAt = {} => TouchesStay
  <2>1. {"touch-case", "write-touch"} \subseteq SupportAt
    BY DEF SupportAt
  <2> QED
    BY <2>1 DEF Within, TouchesStay
<1>3. \A S \in ServicesAt : T \cap S = {} => Fewer(S)
  <2> SUFFICES ASSUME NEW S \in ServicesAt, T \cap S = {}
               PROVE  Fewer(S)
    OBVIOUS
  <2>1. S \cap T = {} /\ "idle" \notin S
    BY <1>1
  <2> QED
    BY <2>1, Apart
<1>4. \A S \in ServicesAt : T \cap S = {} => Still(S)
  <2> SUFFICES ASSUME NEW S \in ServicesAt, T \cap S = {}
               PROVE  Still(S)
    OBVIOUS
  <2>1. S \cap T = {} /\ "idle" \notin S
    BY <1>1
  <2> QED
    BY <2>1, WithinStill
<1>5. /\ Deciding \in ServicesAt /\ ConsentAt \in ServicesAt /\ SupportAt \in ServicesAt
      /\ CacheAt \in ServicesAt /\ HabitAt \in ServicesAt /\ GroupAt \in ServicesAt
  BY DEF ServicesAt
<1> QED
  BY <1>2, <1>3, <1>4, <1>5

\* The rows of each service kept by a step elsewhere.
LEMMA SupportStays ==
  ASSUME SupportInv, UNCHANGED supportVars, users' = users, Fewer(SupportAt),
         TouchesStay
  PROVE  SupportInv'
<1>1. /\ case' = case /\ time' = time /\ crossed' = crossed
      /\ dropped' = dropped /\ dropped \subseteq Cases
  BY DEF supportVars, SupportInv, SupportTypeOK
<1> QED
  BY <1>1, SupportKept DEF TouchesStay

LEMMA ApprovalStays ==
  ASSUME ApprovalInv, UNCHANGED approvalVars, users' = users, Fewer(Deciding)
  PROVE  ApprovalInv' /\ Standing
<1>1. request' = request /\ overlapped' = overlapped
  BY DEF approvalVars
<1> QED
  BY <1>1, ApprovalKept DEF Standing

LEMMA ConsentStays ==
  ASSUME ConsentInv, Remember, UNCHANGED consentVars, users' = users, Fewer(ConsentAt)
  PROVE  ConsentInv'
<1>1. consent' = consent /\ policy' = policy
  BY DEF consentVars
<1> QED
  BY <1>1, ConsentKept

LEMMA CacheStays ==
  ASSUME CacheInv, UNCHANGED cacheVars, flag' = flag, UNCHANGED taskVars, users' = users,
         Still(CacheAt)
  PROVE  CacheInv'
<1>1. UNCHANGED redis /\ UNCHANGED inboxVars
  BY DEF cacheVars
<1> QED
  BY <1>1, CacheKept, TaskKept

LEMMA ApprovalServes ==
  ASSUME PlatformInv, Remember, NEW c \in Clients,
         ApprovalNext(c) \/ \E r \in Requests : Lapse(r),
         UNCHANGED <<consentVars, supportVars, cacheVars, flag, taskVars, habitVars, groupVars>>
  PROVE  PlatformInv' /\ Standing
<1>1. Calls' /\ Within(Deciding) /\ ApprovalInv' /\ Standing
  BY ApprovalStep DEF PlatformInv
<1>2. users' = users
  BY Zenon DEF ApprovalNext, Lapse, CreateRequest, FindToApprove, FindToReject, Join, Approve,
     Reject,
     MarkExpired, Decide, desk
<1>3. /\ Fewer(ConsentAt) /\ Fewer(SupportAt) /\ Still(CacheAt) /\ Still(HabitAt) /\ Still(GroupAt)
      /\ TouchesStay
  BY <1>1, Elsewhere, ServicesApart
<1> QED
  BY <1>1, <1>2, <1>3, ConsentStays, SupportStays, CacheStays, HabitKept, GroupKept DEF PlatformInv

LEMMA ConsentServes ==
  ASSUME PlatformInv, Remember, NEW c \in Clients, ConsentNext(c),
         UNCHANGED <<approvalVars, supportVars, cacheVars, flag, taskVars, habitVars, groupVars>>
  PROVE  PlatformInv' /\ Standing
<1>1. Calls' /\ Within(ConsentAt) /\ ConsentInv'
  BY ConsentStep DEF PlatformInv
<1>2. users' = users
  BY Zenon DEF ConsentNext, RecordConsent, UpdateConsent, CreateConsent, RevokeConsent,
     StoreRevocation, CheckPolicyConsent, CheckPrivacy, CheckConsents, AnswerCheck,
     CreatePolicyVersion, desk
<1>3. /\ Fewer(Deciding) /\ Fewer(SupportAt) /\ Still(CacheAt) /\ Still(HabitAt) /\ Still(GroupAt)
      /\ TouchesStay
  BY <1>1, Elsewhere, ServicesApart
<1> QED
  BY <1>1, <1>2, <1>3, ApprovalStays, SupportStays, CacheStays, HabitKept, GroupKept
     DEF PlatformInv

LEMMA SupportServes ==
  ASSUME PlatformInv, Remember, NEW c \in Clients, SupportNext(c) \/ Tick,
         UNCHANGED <<approvalVars, consentVars, cacheVars, flag, taskVars, habitVars, groupVars>>
  PROVE  PlatformInv' /\ Standing
<1>1. Calls' /\ Within(SupportAt) /\ SupportInv'
  BY SupportStep, TickKeeps DEF PlatformInv
<1>2. users' = users
  BY Zenon DEF SupportNext, OpenCase, CreateCase, FindCase, UpdateCase, FindThread, InsertMessage,
     StampTouch, TouchCase, Tick, desk
<1>3. /\ Fewer(Deciding) /\ Fewer(ConsentAt) /\ Still(CacheAt) /\ Still(HabitAt) /\ Still(GroupAt)
  BY <1>1, Elsewhere, ServicesApart
<1> QED
  BY <1>1, <1>2, <1>3, ApprovalStays, ConsentStays, CacheStays, HabitKept, GroupKept
     DEF PlatformInv

\* What a step of the cached services leaves to the others.
LEMMA CacheServed ==
  ASSUME PlatformInv, Remember, Calls', Within(CacheAt), CacheInv', users' = users,
         UNCHANGED <<approvalVars, consentVars, supportVars, habitVars, groupVars>>
  PROVE  PlatformInv' /\ Standing
<1>1. /\ Fewer(Deciding) /\ Fewer(ConsentAt) /\ Fewer(SupportAt) /\ Still(HabitAt) /\ Still(GroupAt)
      /\ TouchesStay
  BY Elsewhere, ServicesApart
<1> QED
  BY <1>1, ApprovalStays, ConsentStays, SupportStays, HabitKept, GroupKept DEF PlatformInv

LEMMA InboxServes ==
  ASSUME PlatformInv, Remember, NEW c \in Clients, InboxNext(c) \/ NewHour,
         UNCHANGED <<approvalVars, consentVars, supportVars, flag, taskVars, habitVars, groupVars>>
  PROVE  PlatformInv' /\ Standing
<1>1. Calls' /\ Within(CacheAt) /\ CacheInv'
  BY InboxStep, NewHourKeeps, TaskKept DEF PlatformInv
<1>2. users' = users
  BY Zenon DEF InboxNext, GetList, LoadList, StoreList, CreateBroadcast, InsertBanner,
     MarkAsRead, StoreRead, Dismiss, StoreDismissal, EvictList, FindBanner, DeleteBanner, Broadcast,
     NewHour, desk
<1> QED
  BY <1>1, <1>2, CacheServed

LEMMA FlagsServes ==
  ASSUME PlatformInv, Remember, NEW c \in Clients, FlagsNext(c),
         UNCHANGED <<approvalVars, consentVars, supportVars, inboxVars, taskVars, habitVars,
                     groupVars>>
  PROVE  PlatformInv' /\ Standing
<1>1. Calls' /\ Within(CacheAt) /\ CacheInv'
  BY FlagsStep, TaskKept DEF PlatformInv
<1>2. users' = users
  BY Zenon DEF FlagsNext, GetFlag, LoadFlag, StoreFlagEntry, CreateFlag, FindFlag,
     StoreFlag, EvictFlag,
     desk
<1> QED
  BY <1>1, <1>2, CacheServed

LEMMA TaskServes ==
  ASSUME PlatformInv, Remember, NEW c \in Clients, TaskNext(c),
         UNCHANGED <<approvalVars, consentVars, supportVars, flag, habitVars, groupVars>>
  PROVE  PlatformInv' /\ Standing
<1>1. Calls' /\ Within(CacheAt) /\ CacheInv'
  BY TaskStep DEF PlatformInv
<1>2. users' = users
  BY Zenon DEF TaskNext, CreateTask, GetTask, UpdateTask, DeleteTask, CreateTransaction,
     FindTransaction, WriteTransaction, InvalidateDashboard, SettleGroup, GetDashboard,
     BuildDashboard, StoreDashboard, desk
<1> QED
  BY <1>1, <1>2, CacheServed

LEMMA HabitServes ==
  ASSUME PlatformInv, Remember, NEW c \in Clients, HabitNext(c) \/ NewDay,
         UNCHANGED <<approvalVars, consentVars, supportVars, flag, taskVars, groupVars>>
  PROVE  PlatformInv' /\ Standing
<1>1. Calls' /\ Within(HabitAt) /\ HabitInv'
  BY HabitStep DEF PlatformInv
<1>2. users' = users /\ UNCHANGED redis /\ \E U : Notify(U) \/ UNCHANGED inboxVars
  BY HabitNotifies
<1>3. /\ Fewer(Deciding) /\ Fewer(ConsentAt) /\ Fewer(SupportAt) /\ Still(CacheAt) /\ Still(GroupAt)
      /\ TouchesStay
  BY <1>1, Elsewhere, ServicesApart
<1>4. CacheInv'
  BY <1>2, <1>3, CacheKept, TaskKept DEF PlatformInv
<1> QED
  BY <1>1, <1>2, <1>3, <1>4, ApprovalStays, ConsentStays, SupportStays, GroupKept DEF PlatformInv

LEMMA GroupServes ==
  ASSUME PlatformInv, Remember, NEW c \in Clients, GroupNext(c),
         UNCHANGED <<approvalVars, consentVars, supportVars, flag, taskVars, habitVars>>
  PROVE  PlatformInv' /\ Standing
<1>1. Calls' /\ Within(GroupAt) /\ GroupInv'
  BY GroupStep DEF PlatformInv
<1>2. users' = users /\ UNCHANGED redis /\ \E U : Notify(U) \/ UNCHANGED inboxVars
  BY GroupNotifies
<1>3. /\ Fewer(Deciding) /\ Fewer(ConsentAt) /\ Fewer(SupportAt) /\ Still(CacheAt) /\ Still(HabitAt)
      /\ TouchesStay
  BY <1>1, Elsewhere, ServicesApart
<1>4. CacheInv'
  BY <1>2, <1>3, CacheKept, TaskKept DEF PlatformInv
<1> QED
  BY <1>1, <1>2, <1>3, <1>4, ApprovalStays, ConsentStays, SupportStays, HabitKept DEF PlatformInv

LEMMA FindAccountServes ==
  ASSUME PlatformInv, Remember, NEW c \in Clients, NEW a \in Users, NEW u \in Users,
         FindAccount(c, a, u)
  PROVE  PlatformInv' /\ Standing
<1>1. /\ Begin(c, Request("delete-user", a, u, Nobody)) /\ users' = users
      /\ UNCHANGED <<approvalVars, consentVars, supportVars, cacheVars, flag, taskVars, habitVars,
                     groupVars>>
  BY Zenon DEF FindAccount
<1>2. /\ call[c].at = "idle" /\ Calls' /\ Turns(c, call'[c])
      /\ Is(call'[c], "delete-user", a, u, Nobody, Nobody)
  BY <1>1, BeginsRequest DEF PlatformInv
<1>3. call'[c].at = "delete-user"
  BY <1>2 DEF Is
<1>4. Within({"delete-user"})
  BY <1>2, <1>3, TurnsWithin
<1>5. \A S \in ServicesAt : {"delete-user"} \cap S = {}
  BY ServicesApart
<1>6. /\ Deciding \in ServicesAt /\ ConsentAt \in ServicesAt /\ SupportAt \in ServicesAt
      /\ CacheAt \in ServicesAt /\ HabitAt \in ServicesAt /\ GroupAt \in ServicesAt
  BY DEF ServicesAt
<1>7. /\ Fewer(Deciding) /\ Fewer(ConsentAt) /\ Fewer(SupportAt) /\ Still(CacheAt) /\ Still(HabitAt)
      /\ Still(GroupAt) /\ TouchesStay
  BY <1>4, <1>5, <1>6, Elsewhere
<1> QED
  BY <1>1, <1>2, <1>7, ApprovalStays, ConsentStays, SupportStays, CacheStays, HabitKept, GroupKept
     DEF PlatformInv

LEMMA DeleteUserServes ==
  ASSUME PlatformInv, Remember, NEW c \in Clients, DeleteUser(c)
  PROVE  PlatformInv' /\ Standing
<1>1. PICK u : u = call[c].of
  OBVIOUS
<1>2. /\ call[c].at = "delete-user" /\ End(c)
      /\ UNCHANGED <<overlapped, policy, time, dropped, crossed, hour, post, promised, flag,
                     finances, today, disturbed, groupVars>>
      /\ \/ /\ u \in users /\ ~Requester(u) /\ ~Founder(u) /\ u \notin payers
            /\ u = TaskOwner => finances = "none"
            /\ users' = users \ {u}
            /\ request' = ApproverCleared(u)
            /\ consent' = ConsentsDeleted(u)
            /\ case' = CasesDeleted(u)
            /\ note' = Orphaned(u)
            /\ task' = TasksDeleted(u)
            /\ ChangeUnnoticed({u} \cap Readers)
            /\ habit' = HabitsDeleted(u)
            /\ log' = LogsDeleted(u)
         \/ UNCHANGED <<users, request, consent, case, note, redis, task, habit, log>>
  BY <1>1, Zenon DEF DeleteUser
<1>3. \A S \in ServicesAt : {"delete-user"} \cap S = {}
  BY ServicesApart
<1>4. /\ Deciding \in ServicesAt /\ ConsentAt \in ServicesAt /\ SupportAt \in ServicesAt
      /\ CacheAt \in ServicesAt /\ HabitAt \in ServicesAt /\ GroupAt \in ServicesAt
  BY DEF ServicesAt
<1>5. CASE UNCHANGED <<users, request, consent, case, note, redis, task, habit, log>>
  <2>1. Calls' /\ Turns(c, call'[c]) /\ Is(call'[c], "idle", Nobody, Nobody, Nobody, Nobody)
    BY <1>2, <1>5, Ends DEF PlatformInv
  <2>2. call'[c].at = "idle"
    BY <2>1 DEF Is
  <2>3. Within({"delete-user"})
    BY <1>2, <2>1, <2>2, TurnsWithin
  <2>4. /\ Fewer(Deciding) /\ Fewer(ConsentAt) /\ Fewer(SupportAt) /\ Still(CacheAt)
        /\ Still(HabitAt) /\ Still(GroupAt)
        /\ TouchesStay
    BY <1>3, <1>4, <2>3, Elsewhere
  <2>5. /\ UNCHANGED <<approvalVars, consentVars, supportVars, cacheVars, flag, taskVars, habitVars,
                       groupVars>>
        /\ users' = users
    BY <1>2, <1>5 DEF approvalVars, consentVars, supportVars, cacheVars, inboxVars, taskVars,
                      habitVars
  <2> QED
    BY <2>1, <2>4, <2>5, ApprovalStays, ConsentStays, SupportStays, CacheStays, HabitKept, GroupKept
       DEF PlatformInv
<1>6. CASE /\ u \in users /\ ~Requester(u) /\ ~Founder(u) /\ u \notin payers
           /\ u = TaskOwner => finances = "none"
           /\ users' = users \ {u}
           /\ request' = ApproverCleared(u)
           /\ consent' = ConsentsDeleted(u)
           /\ case' = CasesDeleted(u)
           /\ note' = Orphaned(u)
           /\ task' = TasksDeleted(u)
           /\ ChangeUnnoticed({u} \cap Readers)
           /\ habit' = HabitsDeleted(u)
           /\ log' = LogsDeleted(u)
  <2>1. u \in Users
    BY <1>6 DEF PlatformInv, Calls
  <2>2. Calls' /\ Turns(c, call'[c]) /\ call'[c].at = "idle"
    <3>1. call' = [call EXCEPT ![c] = NoCall] /\ calls' = calls
      BY <1>2, Zenon DEF End, Go
    <3>2. Is(NoCall, "idle", Nobody, Nobody, Nobody, Nobody)
      BY IsRecord, Zenon DEF NoCall
    <3>3. IsCall(NoCall) /\ NoCall.by = Nobody /\ NoCall.at = "idle"
      BY <3>2 DEF Is
    <3>4. call = [d \in Clients |-> call[d]]
      BY DEF PlatformInv, Calls
    <3>5. Turns(c, NoCall) /\ call' = [d \in Clients |-> call'[d]]
      BY <3>1, <3>4 DEF Turns
    <3>6. \A d \in Clients : (IsCall(call[d]))' /\ call'[d].by \in Users \cup {Nobody}
      BY <3>3, <3>5 DEF PlatformInv, Calls, IsCall, Turns
    <3>7. calls' \in 0 .. MaxCalls /\ users' \subseteq Users
      BY <1>6, <3>1 DEF PlatformInv, Calls
    <3>8. call'[c] = NoCall
      BY <3>5 DEF Turns
    <3> QED
      BY <3>3, <3>5, <3>6, <3>7, <3>8 DEF Calls
  <2>3. Within({"delete-user"})
    BY <1>2, <2>2, TurnsWithin
  <2>4. /\ Fewer(Deciding) /\ Fewer(SupportAt)
        /\ TouchesStay
    BY <1>3, <1>4, <2>3, Elsewhere
  <2>5. call[c].at \notin EvictAt /\ call[c].at \notin HabitAt
    BY <1>2 DEF EvictAt, HabitAt
  <2>6. ApprovalInv' /\ Standing
    BY <1>2, <1>6, <2>4, ApprovalDeleted DEF PlatformInv
  <2>7. ConsentInv'
    BY <1>2, <1>6, <2>2, ConsentDeleted DEF PlatformInv
  <2>8. SupportInv'
    BY <1>2, <1>6, <2>4, SupportDeleted DEF PlatformInv, TouchesStay
  <2>9. CacheInv'
    BY <1>2, <1>6, <2>1, <2>2, <2>5, CacheDeleted DEF PlatformInv
  <2>10. HabitInv'
    BY <1>2, <1>6, <2>2, <2>5, HabitDeleted DEF PlatformInv
  <2>11. GroupInv'
    BY <1>2, <1>6, <2>1, <2>2, GroupDeleted DEF PlatformInv
  <2> QED
    BY <2>2, <2>6, <2>7, <2>8, <2>9, <2>10, <2>11 DEF PlatformInv
<1> QED
  BY <1>2, <1>5, <1>6

LEMMA StopServes ==
  ASSUME PlatformInv, Remember, NEW c \in Clients, Stop(c)
  PROVE  PlatformInv' /\ Standing
<1>1. /\ End(c) /\ users' = users /\ UNCHANGED approvalVars /\ consent' = consent
      /\ policy' = policy /\ time' = time /\ case' = case /\ crossed' = crossed
      /\ dropped' = IF call[c].at \in {"touch-case", "write-touch"} THEN dropped \cup {call[c].of}
                    ELSE dropped
  BY Zenon DEF Stop, consentVars
<1>2. Calls' /\ Turns(c, call'[c]) /\ Is(call'[c], "idle", Nobody, Nobody, Nobody, Nobody)
  BY <1>1, Ends DEF PlatformInv
<1>3. call'[c].at = "idle"
  BY <1>2 DEF Is
<1>4. \A S \in ServicesAt : Fewer(S)
  <2> SUFFICES ASSUME NEW S \in ServicesAt
               PROVE  Fewer(S)
    OBVIOUS
  <2>1. call'[c].at \notin S
    BY <1>3, ServicesApart
  <2> QED
    BY <1>2, <2>1, TurnsFewer
<1>5. Fewer(Deciding) /\ Fewer(ConsentAt) /\ Fewer(SupportAt)
  BY <1>4 DEF ServicesAt
<1>6. ApprovalInv' /\ Standing
  BY <1>1, <1>5, ApprovalStays DEF PlatformInv
<1>7. ConsentInv'
  BY <1>1, <1>5, ConsentKept DEF PlatformInv
<1>8. SupportInv'
  <2>1. /\ dropped \subseteq Cases
        /\ call[c].at \in {"touch-case", "write-touch"} => call[c].of \in Cases
    BY DEF PlatformInv, SupportInv, SupportTypeOK, SupportCalls, SupportAt
  <2>2. dropped' \subseteq Cases /\ dropped \subseteq dropped'
    BY <1>1, <2>1
  <2>3. \A d \in Clients : call[d].at \in {"touch-case", "write-touch"} =>
          call'[d] = call[d] \/ call[d].of \in dropped'
    BY <1>1, <1>2 DEF Turns
  <2> QED
    BY <1>1, <1>5, <2>2, <2>3, SupportKept DEF PlatformInv
<1>9. CacheInv' /\ HabitInv' /\ GroupInv'
  BY <1>2, <1>3, CacheStopped, HabitStopped, GroupStopped DEF PlatformInv
<1> QED
  BY <1>2, <1>6, <1>7, <1>8, <1>9 DEF PlatformInv

LEMMA BackgroundServes ==
  ASSUME PlatformInv, Remember, Background,
         UNCHANGED <<approvalVars, consentVars, supportVars, flag, taskVars, habitVars, groupVars>>
  PROVE  PlatformInv' /\ Standing
<1>1. call' = call /\ calls' = calls /\ users' = users /\ CacheInv'
  BY BackgroundKeeps, TaskKept DEF PlatformInv
<1>2. Calls'
  BY <1>1 DEF PlatformInv, Calls, IsCall
<1>3. /\ Fewer(Deciding) /\ Fewer(ConsentAt) /\ Fewer(SupportAt) /\ Still(HabitAt) /\ Still(GroupAt)
      /\ TouchesStay
  BY <1>1 DEF Fewer, Still, TouchesStay
<1> QED
  BY <1>1, <1>2, <1>3, ApprovalStays, ConsentStays, SupportStays, HabitKept, GroupKept
     DEF PlatformInv

\* Steps of the script, and stuttering ones: nothing of the services moves.
LEMMA NothingMoves ==
  ASSUME PlatformInv,
         UNCHANGED <<desk, approvalVars, consentVars, held, supportVars, cacheVars, flag, taskVars,
                     habitVars, groupVars>>
  PROVE  PlatformInv' /\ Standing
<1>1. call' = call /\ calls' = calls /\ users' = users
  BY DEF desk
<1>2. Calls'
  BY <1>1 DEF PlatformInv, Calls, IsCall
<1>3. /\ Fewer(Deciding) /\ Fewer(SupportAt) /\ Still(CacheAt) /\ Still(HabitAt) /\ Still(GroupAt)
      /\ TouchesStay
  BY <1>1 DEF Fewer, Still, TouchesStay
<1>4. consent' = consent /\ policy' = policy /\ held' = held
  BY DEF consentVars
<1>5. ConsentInv'
  <2>1. ConsentTypeOK'
    BY <1>4 DEF PlatformInv, ConsentInv, ConsentTypeOK, Never
  <2>2. \A t \in Policies : HasLatest(t)'
    BY <1>4 DEF PlatformInv, ConsentInv, HasLatest
  <2>3. Recorded'
    BY <1>1, <1>4 DEF PlatformInv, ConsentInv, Recorded, Never
  <2>4. Recording'
    BY <1>1 DEF PlatformInv, ConsentInv, Recording, Given
  <2>5. \A t \in Policies : Latest(t)' = Latest(t)
    BY <1>4 DEF Latest
  <2>6. "terms_of_service" \in Policies /\ "privacy_policy" \in Policies
    BY DEF Policies
  <2>7. /\ Latest("terms_of_service")' = Latest("terms_of_service")
        /\ Latest("privacy_policy")' = Latest("privacy_policy")
    BY <2>5, <2>6
  <2>8. Checked' /\ CompleteMeansConsented'
    BY <1>1, <1>4, <2>7 DEF PlatformInv, ConsentInv, Checked, CompleteMeansConsented
  <2> QED
    BY <2>1, <2>2, <2>3, <2>4, <2>8 DEF ConsentInv
<1> QED
  BY <1>1, <1>2, <1>3, <1>5, ApprovalStays, SupportStays, CacheStays, HabitKept, GroupKept
     DEF PlatformInv

LEMMA PlatformStep ==
  ASSUME PlatformInv, [Next]_vars
  PROVE  PlatformInv' /\ Standing
<1>1. ASSUME NEW c \in Clients, Serve(c), Remember
      PROVE  PlatformInv' /\ Standing
  <2>1. ASSUME NEW a \in Users, NEW u \in Users, FindAccount(c, a, u)
        PROVE  PlatformInv' /\ Standing
    BY <1>1, <2>1, FindAccountServes
  <2>2. CASE DeleteUser(c)
    BY <1>1, <2>2, DeleteUserServes
  <2>3. CASE Stop(c)
    BY <1>1, <2>3, StopServes
  <2>4. CASE /\ ApprovalNext(c) \/ \E r \in Requests : Lapse(r)
             /\ UNCHANGED <<consentVars, supportVars, cacheVars, flag, taskVars, habitVars,
                            groupVars>>
    BY <1>1, <2>4, ApprovalServes
  <2>5. CASE /\ ConsentNext(c)
             /\ UNCHANGED <<approvalVars, supportVars, cacheVars, flag, taskVars, habitVars,
                            groupVars>>
    BY <1>1, <2>5, ConsentServes
  <2>6. CASE /\ SupportNext(c) \/ Tick
             /\ UNCHANGED <<approvalVars, consentVars, cacheVars, flag, taskVars, habitVars,
                            groupVars>>
    BY <1>1, <2>6, SupportServes
  <2>7. CASE /\ InboxNext(c) \/ NewHour
             /\ UNCHANGED <<approvalVars, consentVars, supportVars, flag, taskVars, habitVars,
                            groupVars>>
    BY <1>1, <2>7, InboxServes
  <2>8. CASE /\ FlagsNext(c)
             /\ UNCHANGED <<approvalVars, consentVars, supportVars, inboxVars, taskVars, habitVars,
                            groupVars>>
    BY <1>1, <2>8, FlagsServes
  <2>9. CASE /\ TaskNext(c)
             /\ UNCHANGED <<approvalVars, consentVars, supportVars, flag, habitVars, groupVars>>
    BY <1>1, <2>9, TaskServes
  <2>10. CASE /\ HabitNext(c) \/ NewDay
              /\ UNCHANGED <<approvalVars, consentVars, supportVars, flag, taskVars, groupVars>>
    BY <1>1, <2>10, HabitServes
  <2>11. CASE /\ GroupNext(c)
              /\ UNCHANGED <<approvalVars, consentVars, supportVars, flag, taskVars, habitVars>>
    BY <1>1, <2>11, GroupServes
  <2> QED
    BY <1>1, <2>1, <2>2, <2>3, <2>4, <2>5, <2>6, <2>7, <2>8, <2>9, <2>10, <2>11, Zenon DEF Serve
<1>2. CASE /\ Background /\ Remember
           /\ UNCHANGED <<desks, approvalVars, consentVars, supportVars, flag, taskVars, habitVars,
                          groupVars>>
  BY <1>2, BackgroundServes
<1>3. CASE UNCHANGED <<desk, approvalVars, consentVars, held, supportVars, cacheVars, flag,
                       taskVars, habitVars, groupVars>>
  BY <1>3, NothingMoves
<1>4. CASE UNCHANGED vars
  BY <1>4, NothingMoves DEF vars
<1> QED
  BY <1>1, <1>2, <1>3, <1>4, Zenon DEF Next

LEMMA PlatformInit == Init => PlatformInv
<1> SUFFICES ASSUME Init
             PROVE  PlatformInv
  OBVIOUS
<1>1. users = Users /\ call = [c \in Clients |-> NoCall] /\ calls = 0
  BY Zenon DEF Init
<1>2. Is(NoCall, "idle", Nobody, Nobody, Nobody, Nobody)
  BY IsRecord, Zenon DEF NoCall
<1>3. IsCall(NoCall) /\ NoCall.by = Nobody
  BY <1>2 DEF Is
<1>4. Calls
  BY <1>1, <1>3, MaxCallsAssumption DEF Calls
<1> QED
  BY <1>4, ApprovalInit, ConsentInit, SupportInit, CacheInit, HabitInit, GroupInit DEF PlatformInv

LEMMA Explanations ==
  ASSUME CacheInv
  PROVE  CachesExplained
<1>1. \A k \in Keys : Explained(k)
  BY DEF CacheInv
<1>2. ASSUME NEW k \in Boxes
      PROVE  Miss(k) \/ entry[k] = {Listed(k)} \/ Evicting(k) \/ k \in excused
  <2>1. Explained(k) /\ Now(k) = Listed(k) /\ k \notin {"flag", "dashboard"}
    BY <1>1, KeysApart DEF Now
  <2>2. Owed(k) => Evicting(k)
    BY <2>1 DEF Owed, OwedBy, Evicting
  <2> QED
    BY <2>1, <2>2 DEF Explained
<1>3. FlagExplained
  <2>1. Explained("flag") /\ Now("flag") = flag /\ "flag" \notin Readers /\ "flag" # "banners"
    BY <1>1, KeysApart DEF Now
  <2>2. Owed("flag") => \E c \in Clients : call[c].at = "evict-flag"
    <3>1. \A c \in Clients : call[c].at = "evict-list" => call[c].as \in Boxes
      BY DEF CacheInv, CacheCall
    <3> QED
      BY <2>1, <3>1, KeysApart DEF Owed, OwedBy
  <2> QED
    BY <2>1, <2>2 DEF Explained, FlagExplained
<1>4. DashboardExplained
  <2>1. /\ Explained("dashboard") /\ Now("dashboard") = finances
        /\ "dashboard" \notin Readers /\ "dashboard" \notin {"banners", "flag"}
    BY <1>1, KeysApart DEF Now
  <2>2. Owed("dashboard") => \E c \in Clients : call[c].at = "evict-dashboard"
    <3>1. \A c \in Clients : call[c].at = "evict-list" => call[c].as \in Boxes
      BY DEF CacheInv, CacheCall
    <3> QED
      BY <2>1, <3>1, KeysApart DEF Owed, OwedBy
  <2> QED
    BY <2>1, <2>2 DEF Explained, DashboardExplained
<1> QED
  BY <1>2, <1>3, <1>4 DEF CachesExplained, ListsExplained

LEMMA PlatformTypes ==
  ASSUME PlatformInv
  PROVE  TypeOK
<1>1. RowsOwned
  <2>1. \A r \in Requests : {request[r].by, request[r].approver} \subseteq users \cup {Nobody}
    BY DEF PlatformInv, ApprovalInv, Asked
  <2>2. \A u \in Subjects \ users, t \in Types : consent[u][t] = Never
    BY DEF PlatformInv, ConsentInv, Recorded
  <2>3. \A k \in Cases : case[k].owner \in users \cup {Nobody}
    BY DEF PlatformInv, SupportInv, Owned
  <2>4. /\ TaskOwner \in users \/ (task = "none" /\ finances = "none")
        /\ \A u \in Readers \ users : note[u] \in {"absent", "orphan"}
    BY DEF PlatformInv, CacheInv, Messages, Figured
  <2>5. \A u \in Readers \ users : habit[u] = NoHabit /\ log[u] = NoLog
    BY DEF PlatformInv, HabitInv
  <2>6. creator \in users \cup {Nobody} /\ payers \subseteq users
    BY DEF PlatformInv, GroupInv
  <2> QED
    BY <2>1, <2>2, <2>3, <2>4, <2>5, <2>6 DEF RowsOwned
<1>2. /\ users \subseteq Users /\ \A c \in Clients : call[c].by \in Users \cup {Nobody}
      /\ calls \in 0 .. MaxCalls
  BY DEF PlatformInv, Calls
<1>3. ApprovalTypeOK /\ ConsentTypeOK /\ SupportTypeOK /\ HabitTypeOK /\ GroupTypeOK
  BY DEF PlatformInv, ApprovalInv, ConsentInv, SupportInv, HabitInv, GroupInv
<1>4. /\ \A k \in excused : ~Miss(k)
      /\ faults \in 0 .. MaxFaults
      /\ InboxTypeOK /\ FlagsTypeOK /\ TaskTypeOK
  BY DEF PlatformInv, CacheInv, CacheTypeOK
<1> QED
  BY <1>1, <1>2, <1>3, <1>4 DEF TypeOK

LEMMA PlatformAlways == Spec => []PlatformInv
<1>1. PlatformInv /\ [Next]_vars => PlatformInv'
  BY PlatformStep
<1> QED
  BY PlatformInit, <1>1, PTL DEF Spec

-----------------------------------------------------------------------------
(* What is promised.                                                       *)

\* Every row is of an account that exists, and typed: no request writes for an account
\* deleted after it was read, and DeleteUser takes along what is the account's
\* (admin.service.ts, the foreign keys of schema.prisma).
THEOREM RowsAreOwned == Spec => []TypeOK
<1>1. PlatformInv => TypeOK
  BY PlatformTypes
<1> QED
  BY PlatformAlways, <1>1, PTL

\* "Enforces separation of duties" (approval.service.ts:17), whatever overlaps.
THEOREM NobodyApprovesHisOwn == Spec => []SeparationOfDuties
<1>1. PlatformInv => SeparationOfDuties
  BY DEF PlatformInv, ApprovalInv, Asked, SeparationOfDuties
<1> QED
  BY PlatformAlways, <1>1, PTL

\* A decision changes only where two decisions overlapped, both having read PENDING
\* (approval.service.ts:87, :158); the deletion of an account changes none.
THEOREM DecisionsAreKept == Spec => DecisionsStand
<1>1. PlatformInv /\ [Next]_vars =>
        [\A r \in Requests :
           /\ request[r].status \in Decided
           /\ request'[r].status # request[r].status
           => r \in overlapped]_request
  BY PlatformStep DEF Standing
<1> QED
  BY PlatformAlways, <1>1, PTL DEF Spec, DecisionsStand

\* A check that finds nothing missing was true at some moment of it, unless a version came
\* out meanwhile (consent.service.ts:144).
THEOREM CompleteWasTrue == Spec => []CompleteMeansConsented
<1>1. PlatformInv => CompleteMeansConsented
  BY DEF PlatformInv, ConsentInv
<1> QED
  BY PlatformAlways, <1>1, PTL

\* A case with a newer message than its place in the list shows still gets its touch, the
\* request that owed it stopped, or two touches of it overlapped (support.service.ts:174, :195).
THEOREM TouchesFollow == Spec => []ListedByActivity
<1>1. PlatformInv => ListedByActivity
  BY DEF PlatformInv, SupportInv
<1> QED
  BY PlatformAlways, <1>1, PTL

\* Nothing cached differs from its rows without a delete on its way or a reason
\* (notification.service.ts:324, feature-flag.service.ts, insight.service.ts:15).
THEOREM CachesAreExplained == Spec => []CachesExplained
<1>1. PlatformInv => CachesExplained
  BY Explanations DEF PlatformInv
<1> QED
  BY PlatformAlways, <1>1, PTL

\* Whoever a stored banner is for and who has an account has its message, or gets it, whatever
\* fails for others, as long as the process lives (notification.service.ts:288).
THEOREM BroadcastsReachAll == Spec => []BroadcastReachesAll
<1>1. PlatformInv => BroadcastReachesAll
  BY DEF PlatformInv, CacheInv
<1> QED
  BY PlatformAlways, <1>1, PTL

\* The streak is the number of days of the run of logged days that ends with the last one,
\* but for those after a day of 23 hours, and the longest is no shorter, for any number of
\* days, any rhythm and any changes of the clock (habit.service.ts), unless two completions
\* overlapped or one stopped between its writes.
THEOREM StreaksAreRuns == Spec => []StreakIsRun
<1>1. PlatformInv => StreakIsRun
  BY RunsHold DEF PlatformInv
<1> QED
  BY PlatformAlways, <1>1, PTL

\* What some members of a group are owed is what the others owe (getGroupBalances,
\* finance.service.ts), for any number of members and any expenses, unless somebody paid who
\* is no member or two requests added one user at once.
THEOREM DebtsDoMatch == Spec => []DebtsMatchCredits
<1>1. PlatformInv => DebtsMatchCredits
  BY DebtsAreCredits DEF PlatformInv
<1> QED
  BY PlatformAlways, <1>1, PTL

-----------------------------------------------------------------------------
(* The script.                                                             *)

Elements(s) == {s[n] : n \in DOMAIN s}

\* The templates of all sections.
Saved ==
  UNION {Elements(SeedUsers), Elements(SeedTasks), Elements(SeedHabits), Elements(SeedAccounts),
         Elements(SeedTransactions), Elements(SeedBudgets), Elements(SeedGroups),
         Elements(SeedNotifications), Elements(SeedBanner)}

LEMMA ForEachIsSeq ==
  ASSUME NEW table, NEW names, NEW parts, Len(names) \in Nat
  PROVE  ForEach(table, names, parts) \in Seq(Elements(ForEach(table, names, parts)))
<1> DEFINE s == ForEach(table, names, parts)
           k == Len(People) * Len(names)
<1>1. Len(People) \in Nat
  BY NamesAssumption, LenProperties
<1>2. k \in Nat
  BY <1>1
<1>3. DOMAIN s = 1 .. k
  BY DEF ForEach
<1>4. s \in [1 .. k -> Elements(s)]
  BY <1>3 DEF ForEach, Elements
<1> HIDE DEF s, k
<1>5. s \in Seq(Elements(s))
  BY <1>2, <1>4, SeqDef
<1> QED
  BY <1>5 DEF s

LEMMA PlanIsSeq == Plan \in Seq(Saved) /\ Len(Plan) \in Nat \ {0}
<1>1. /\ Len(<<"self">>) \in Nat /\ Len(<<"Exercise">>) \in Nat /\ Len(<<"Savings">>) \in Nat
      /\ Len(<<"food">>) \in Nat /\ Len(<<"any">>) \in Nat
  OBVIOUS
<1>2. Len(Titles) \in Nat /\ Len(Salaries) \in Nat
  BY NamesAssumption, LenProperties
<1>3. /\ SeedUsers \in Seq(Elements(SeedUsers))
      /\ SeedTasks \in Seq(Elements(SeedTasks))
      /\ SeedHabits \in Seq(Elements(SeedHabits))
      /\ SeedAccounts \in Seq(Elements(SeedAccounts))
      /\ SeedTransactions \in Seq(Elements(SeedTransactions))
      /\ SeedBudgets \in Seq(Elements(SeedBudgets))
      /\ SeedNotifications \in Seq(Elements(SeedNotifications))
  BY <1>1, <1>2, ForEachIsSeq, Zenon
     DEF SeedUsers, SeedTasks, SeedHabits, SeedAccounts, SeedTransactions, SeedBudgets,
         SeedNotifications
<1>3a. ASSUME NEW t
      PROVE  <<t>> \in Seq(Elements(<<t>>))
  BY DEF Elements
<1>4. SeedGroups \in Seq(Elements(SeedGroups))
  BY <1>3a, Zenon DEF SeedGroups
<1>5. SeedBanner \in Seq(Elements(SeedBanner))
  BY <1>3a, Zenon DEF SeedBanner
<1>6. ASSUME NEW s, s \in Seq(Elements(s)), Elements(s) \subseteq Saved
      PROVE  s \in Seq(Saved)
  BY <1>6, SeqMonotonic
<1>7. /\ SeedUsers \in Seq(Saved)
      /\ SeedTasks \in Seq(Saved)
      /\ SeedHabits \in Seq(Saved)
      /\ SeedAccounts \in Seq(Saved)
      /\ SeedTransactions \in Seq(Saved)
      /\ SeedBudgets \in Seq(Saved)
      /\ SeedGroups \in Seq(Saved)
      /\ SeedNotifications \in Seq(Saved)
      /\ SeedBanner \in Seq(Saved)
  BY <1>3, <1>4, <1>5, <1>6, Zenon DEF Saved
<1>8. \A s, t \in Seq(Saved) : s \o t \in Seq(Saved) /\ Len(s \o t) = Len(s) + Len(t)
  BY ConcatProperties
<1>9. Len(SeedBanner) = 1
  BY DEF SeedBanner
<1> DEFINE rest == SeedUsers \o SeedTasks \o SeedHabits \o SeedAccounts \o SeedTransactions
                     \o SeedBudgets \o SeedGroups \o SeedNotifications
<1>10. rest \in Seq(Saved)
  BY <1>7, <1>8
<1>11. Plan = rest \o SeedBanner
  BY DEF Plan
<1> HIDE DEF rest
<1>12. Plan \in Seq(Saved) /\ Len(Plan) = Len(rest) + 1
  BY <1>7, <1>8, <1>9, <1>10, <1>11
<1> QED
  BY <1>10, <1>12, LenProperties

Positions == [at : {"off", "find", "save", "parts"}, item : Nat, row : Nat]

\* What a script does, and the rows.
ScriptTypes ==
  /\ script \in [Scripts -> Positions]
  /\ rows \in [Templates -> Seq(Nat)]
  /\ \A r \in Scripts :
       \/ script[r] = Off
       \/ script[r].at # "off" /\ script[r].item \in 1 .. Len(Plan)

\* All rows of the plan before the one that a script is at are there, and this one when it
\* saves parts of it.
Behind ==
  \A r \in Scripts :
    /\ script[r].at # "off" =>
         \A n \in 1 .. Len(Plan) : n < script[r].item => rows[Plan[n]] # <<>>
    /\ script[r].at = "parts" => script[r].row \in 1 .. Len(rows[Doing(r)])

SeedInv == ScriptTypes /\ Behind /\ SeedComplete

\* At the look-up of a template, and at the parts of a row.
Find(p, k) == [p EXCEPT !.at = "find", !.item = k]
Parts(p, k) == [p EXCEPT !.at = "parts", !.row = k]

LEMMA FindIsPosition ==
  ASSUME NEW p \in Positions, NEW k \in Nat
  PROVE  Find(p, k) \in Positions /\ Find(p, k).at = "find" /\ Find(p, k).item = k
<1> DEFINE q == [p EXCEPT !.at = "find"]
<1>1. q \in Positions /\ q.at = "find"
  BY DEF Positions
<1>2. Find(p, k) = [q EXCEPT !.item = k]
  BY DEF Find
<1> HIDE DEF q
<1> QED
  BY <1>1, <1>2 DEF Positions

LEMMA PartsIsPosition ==
  ASSUME NEW p \in Positions, NEW k \in Nat
  PROVE  /\ Parts(p, k) \in Positions
         /\ Parts(p, k).at = "parts"
         /\ Parts(p, k).row = k
         /\ Parts(p, k).item = p.item
<1> DEFINE q == [p EXCEPT !.at = "parts"]
<1>1. q \in Positions /\ q.at = "parts" /\ q.item = p.item
  BY DEF Positions
<1>2. Parts(p, k) = [q EXCEPT !.row = k]
  BY DEF Parts
<1> HIDE DEF q
<1> QED
  BY <1>1, <1>2 DEF Positions

LEMMA DoingATemplate ==
  ASSUME ScriptTypes, NEW r \in Scripts, script[r].at # "off"
  PROVE  /\ script[r].item \in 1 .. Len(Plan)
         /\ Doing(r) \in Templates
         /\ Doing(r) = Plan[script[r].item]
         /\ rows[Doing(r)] \in Seq(Nat)
BY DEF ScriptTypes, Doing, Templates, Off

LEMMA SeedInitInv == SeedInit => SeedInv
<1> SUFFICES ASSUME SeedInit
             PROVE  SeedInv
  OBVIOUS
<1>1. ScriptTypes
  BY DEF SeedInit, ScriptTypes, Positions, Off
<1>2. Behind
  BY DEF SeedInit, Behind, Off
<1>3. SeedComplete
  BY DEF SeedInit, SeedComplete
<1> QED
  BY <1>1, <1>2, <1>3 DEF SeedInv

\* What any step of a script keeps: the others stay where they are, rows only grow, and its
\* own next position is one that it may be at.
LEMMA StepKeeps ==
  ASSUME SeedInv, NEW r \in Scripts, NEW s \in Positions,
         script' = [script EXCEPT ![r] = s],
         rows' \in [Templates -> Seq(Nat)],
         \A t \in Templates : Len(rows[t]) <= Len(rows'[t]),
         \/ s = Off
         \/ /\ s.at # "off"
            /\ s.item \in 1 .. Len(Plan)
            /\ \A n \in 1 .. Len(Plan) : n < s.item => rows'[Plan[n]] # <<>>
            /\ s.at = "parts" => s.row \in 1 .. Len(rows'[Plan[s.item]])
  PROVE  /\ ScriptTypes'
         /\ Behind'
         /\ script'[r] = s
         /\ \A q \in Scripts \ {r} : script'[q] = script[q] /\ (Doing(q))' = Doing(q)
         /\ \A t \in Templates : rows[t] # <<>> => rows'[t] # <<>>
<1> USE DEF SeedInv
<1>1. /\ script'[r] = s
      /\ \A q \in Scripts \ {r} : script'[q] = script[q]
  BY DEF ScriptTypes, Positions
<1>2. \A q \in Scripts \ {r} : (Doing(q))' = Doing(q)
  BY <1>1 DEF Doing
<1>3. ScriptTypes'
  <2>1. script' \in [Scripts -> Positions]
    BY DEF ScriptTypes
  <2> QED
    BY <1>1, <2>1 DEF ScriptTypes
<1>4. \A n \in 1 .. Len(Plan) : Plan[n] \in Templates
  BY DEF Templates
<1>5. \A t \in Templates : rows[t] # <<>> => rows'[t] # <<>>
  <2> SUFFICES ASSUME NEW t \in Templates, rows[t] # <<>>
               PROVE  rows'[t] # <<>>
    OBVIOUS
  <2>1. rows[t] \in Seq(Nat) /\ rows'[t] \in Seq(Nat) /\ Len(rows[t]) <= Len(rows'[t])
    BY DEF ScriptTypes
  <2>2. Len(rows[t]) # 0 /\ Len(rows[t]) \in Nat /\ Len(rows'[t]) \in Nat
    BY <2>1, EmptySeq, LenProperties
  <2> QED
    BY <2>1, <2>2, EmptySeq
<1>6. Behind'
  <2>1. ASSUME s.at # "off", NEW n \in 1 .. Len(Plan), n < s.item
        PROVE  rows'[Plan[n]] # <<>>
    BY <2>1 DEF Off
  <2>2. ASSUME s.at = "parts"
        PROVE  s.row \in 1 .. Len(rows'[(Doing(r))'])
    BY <1>1, <2>2 DEF Off, Doing
  <2>3. ASSUME NEW q \in Scripts \ {r}, script[q].at # "off", NEW n \in 1 .. Len(Plan),
               n < script[q].item
        PROVE  rows'[Plan[n]] # <<>>
    BY <1>4, <1>5, <2>3 DEF Behind
  <2>4. ASSUME NEW q \in Scripts \ {r}, script[q].at = "parts"
        PROVE  script[q].row \in 1 .. Len(rows'[Doing(q)])
    <3>1. Doing(q) \in Templates
      BY <2>4, DoingATemplate
    <3>2. Len(rows[Doing(q)]) <= Len(rows'[Doing(q)])
      BY <3>1
    <3>3. rows[Doing(q)] \in Seq(Nat) /\ rows'[Doing(q)] \in Seq(Nat)
      BY <3>1 DEF ScriptTypes
    <3>4. Len(rows[Doing(q)]) \in Nat /\ Len(rows'[Doing(q)]) \in Nat
      BY <3>3, LenProperties
    <3>5. script[q].row \in 1 .. Len(rows[Doing(q)])
      BY <2>4 DEF Behind
    <3> QED
      BY <3>2, <3>4, <3>5
  <2>5. ASSUME NEW q \in Scripts
        PROVE  /\ script'[q].at # "off" =>
                    \A n \in 1 .. Len(Plan) : n < script'[q].item => rows'[Plan[n]] # <<>>
               /\ script'[q].at = "parts" => script'[q].row \in 1 .. Len(rows'[(Doing(q))'])
    <3>1. CASE q = r
      BY <1>1, <2>1, <2>2, <3>1
    <3>2. CASE q # r
      BY <1>1, <1>2, <2>3, <2>4, <3>2
    <3> QED
      BY <3>1, <3>2
  <2> QED
    BY <2>5 DEF Behind
<1> QED
  BY <1>1, <1>2, <1>3, <1>5, <1>6

\* What Advance does: from a row that is there to the next one, or to the end with all there.
LEMMA AdvanceKeeps ==
  ASSUME SeedInv, NEW r \in Scripts, script[r].at # "off", Advance(r),
         rows' \in [Templates -> Seq(Nat)],
         \A t \in Templates : Len(rows[t]) <= Len(rows'[t]),
         rows'[Doing(r)] # <<>>
  PROVE  /\ ScriptTypes'
         /\ Behind'
         /\ seeded' => \A t \in Templates : rows'[t] # <<>>
         /\ \A q \in Scripts \ {r} : script'[q] = script[q] /\ (Doing(q))' = Doing(q)
<1> USE DEF SeedInv
<1> DEFINE there == [at |-> "find", item |-> script[r].item + 1, row |-> 0]
<1>1. /\ script[r].item \in 1 .. Len(Plan)
      /\ Doing(r) = Plan[script[r].item]
  BY DoingATemplate
<1>2. Len(Plan) \in Nat
  BY PlanIsSeq, LenProperties
<1>3. \A n \in 1 .. Len(Plan) : Plan[n] \in Templates
  BY DEF Templates
<1>4. \A t \in Templates : rows[t] # <<>> => rows'[t] # <<>>
  <2> SUFFICES ASSUME NEW t \in Templates, rows[t] # <<>>
               PROVE  rows'[t] # <<>>
    OBVIOUS
  <2>1. rows[t] \in Seq(Nat) /\ rows'[t] \in Seq(Nat) /\ Len(rows[t]) <= Len(rows'[t])
    BY DEF ScriptTypes
  <2>2. Len(rows[t]) # 0 /\ Len(rows[t]) \in Nat /\ Len(rows'[t]) \in Nat
    BY <2>1, EmptySeq, LenProperties
  <2> QED
    BY <2>1, <2>2, EmptySeq
<1>5. \A n \in 1 .. Len(Plan) : n <= script[r].item => rows'[Plan[n]] # <<>>
  <2> SUFFICES ASSUME NEW n \in 1 .. Len(Plan), n <= script[r].item
               PROVE  rows'[Plan[n]] # <<>>
    OBVIOUS
  <2>1. CASE n = script[r].item
    BY <1>1, <2>1
  <2>2. CASE n < script[r].item
    BY <1>3, <1>4, <2>2 DEF Behind
  <2> QED
    BY <1>1, <1>2, <2>1, <2>2
<1>6. CASE script[r].item = Len(Plan)
  <2>1. script' = [script EXCEPT ![r] = Off] /\ seeded' = TRUE
    BY <1>6 DEF Advance
  <2>2. Off \in Positions
    BY DEF Off, Positions
  <2>3. \A t \in Templates : rows'[t] # <<>>
    BY <1>2, <1>5, <1>6 DEF Templates
  <2> QED
    BY <2>1, <2>2, <2>3, StepKeeps
<1>7. CASE script[r].item # Len(Plan)
  <2>1. script' = [script EXCEPT ![r] = there] /\ seeded' = seeded
    BY <1>7, Zenon DEF Advance, Off
  <2>2. there \in Positions
    BY <1>1, <1>2 DEF Positions
  <2>3. there.item \in 1 .. Len(Plan) /\ there.at = "find"
    BY <1>1, <1>2, <1>7
  <2>4. \A n \in 1 .. Len(Plan) : n < there.item => rows'[Plan[n]] # <<>>
    BY <1>1, <1>2, <1>5
  <2>5. /\ ScriptTypes'
        /\ Behind'
        /\ \A q \in Scripts \ {r} : script'[q] = script[q] /\ (Doing(q))' = Doing(q)
    <3> HIDE DEF there
    <3> QED
      BY <2>1, <2>2, <2>3, <2>4, StepKeeps
  <2>6. seeded' => \A t \in Templates : rows'[t] # <<>>
    BY <1>4, <2>1 DEF SeedComplete
  <2> QED
    BY <2>5, <2>6
<1> QED
  BY <1>6, <1>7

\* SeedComplete is kept by a step that leaves a row without all its parts only where it was
\* so before, or where the script saves them or has just ended.
LEMMA CompleteKeeps ==
  ASSUME SeedInv, NEW r \in Scripts,
         \A q \in Scripts \ {r} : script'[q] = script[q] /\ (Doing(q))' = Doing(q),
         cut \subseteq cut',
         seeded' => \A t \in Templates : rows'[t] # <<>>,
         \A t \in Templates : Len(rows'[t]) > 1 => t \in missed' /\ t.table # "user",
         \A t \in Templates : \A i \in 1 .. Len(rows'[t]) :
           rows'[t][i] # t.parts =>
             \/ t \in cut'
             \/ script'[r].at = "parts" /\ (Doing(r))' = t /\ script'[r].row = i
             \/ /\ i \in 1 .. Len(rows[t])
                /\ rows[t][i] # t.parts
                /\ ~(script[r].at = "parts" /\ Doing(r) = t /\ script[r].row = i)
  PROVE  SeedComplete'
<1>1. ASSUME NEW t \in Templates, NEW i \in 1 .. Len(rows'[t]), rows'[t][i] # t.parts
      PROVE  \/ t \in cut'
             \/ \E q \in Scripts : script'[q].at = "parts" /\ (Doing(q))' = t /\ script'[q].row = i
  <2>1. CASE t \in cut' \/ (script'[r].at = "parts" /\ (Doing(r))' = t /\ script'[r].row = i)
    BY <2>1
  <2>2. CASE /\ i \in 1 .. Len(rows[t])
             /\ rows[t][i] # t.parts
             /\ ~(script[r].at = "parts" /\ Doing(r) = t /\ script[r].row = i)
    <3>1. \/ t \in cut
          \/ \E q \in Scripts : script[q].at = "parts" /\ Doing(q) = t /\ script[q].row = i
      BY <2>2 DEF SeedInv, SeedComplete
    <3>2. CASE t \in cut
      BY <3>2
    <3>3. CASE \E q \in Scripts : script[q].at = "parts" /\ Doing(q) = t /\ script[q].row = i
      <4>1. PICK q \in Scripts : script[q].at = "parts" /\ Doing(q) = t /\ script[q].row = i
        BY <3>3
      <4>2. q \in Scripts \ {r}
        BY <2>2, <4>1
      <4> QED
        BY <4>1, <4>2
    <3> QED
      BY <3>1, <3>2, <3>3
  <2> QED
    BY <1>1, <2>1, <2>2
<1> QED
  BY <1>1 DEF SeedComplete

\* The same for a step that saves nothing, of a script that is not at the parts of a row or
\* whose row is noted as cut off.
LEMMA CompleteReading ==
  ASSUME SeedInv, NEW r \in Scripts,
         \A q \in Scripts \ {r} : script'[q] = script[q] /\ (Doing(q))' = Doing(q),
         rows' = rows, missed' = missed, cut \subseteq cut',
         seeded' => \A t \in Templates : rows'[t] # <<>>,
         script[r].at = "parts" => Doing(r) \in cut'
  PROVE  SeedComplete'
<1>1. \A t \in Templates : Len(rows'[t]) > 1 => t \in missed' /\ t.table # "user"
  BY DEF SeedInv, SeedComplete
<1>2. ASSUME NEW t \in Templates, NEW i \in 1 .. Len(rows'[t]), rows'[t][i] # t.parts
      PROVE  \/ t \in cut'
             \/ /\ i \in 1 .. Len(rows[t])
                /\ rows[t][i] # t.parts
                /\ ~(script[r].at = "parts" /\ Doing(r) = t /\ script[r].row = i)
  BY <1>2
<1> QED
  BY <1>1, <1>2, CompleteKeeps

LEMMA StartKeeps ==
  ASSUME SeedInv, NEW r \in Scripts, Start(r)
  PROVE  SeedInv'
<1> DEFINE first == Find(Off, 1)
<1>1. script[r].at # "parts" /\ script' = [script EXCEPT ![r] = first]
  <2>1. script' = [script EXCEPT ![r] = first]
    BY DEF Start, Find
  <2>2. script[r].at # "parts"
    BY DEF Start, Off
  <2> QED
    BY <2>1, <2>2
<1>2. rows' = rows /\ missed' = missed /\ cut' = cut /\ seeded' = seeded
  BY DEF Start
<1>3. /\ first \in Positions
      /\ first.item \in 1 .. Len(Plan)
      /\ first.at = "find"
      /\ \A n \in 1 .. Len(Plan) : n < first.item => rows'[Plan[n]] # <<>>
  <2>1. Off \in Positions
    BY DEF Off, Positions
  <2>2. first \in Positions /\ first.at = "find" /\ first.item = 1
    BY <2>1, FindIsPosition
  <2> HIDE DEF first
  <2> QED
    BY <2>2, PlanIsSeq
<1>4. rows' \in [Templates -> Seq(Nat)] /\ \A t \in Templates : Len(rows[t]) <= Len(rows'[t])
  <2>1. \A t \in Templates : Len(rows[t]) \in Nat
    BY LenProperties DEF SeedInv, ScriptTypes
  <2> QED
    BY <1>2, <2>1 DEF SeedInv, ScriptTypes
<1> HIDE DEF first
<1>5. /\ ScriptTypes'
      /\ Behind'
      /\ \A q \in Scripts \ {r} : script'[q] = script[q] /\ (Doing(q))' = Doing(q)
  BY <1>1, <1>3, <1>4, StepKeeps
<1>6. SeedComplete'
  BY <1>1, <1>2, <1>5, CompleteReading DEF SeedInv, SeedComplete
<1> QED
  BY <1>5, <1>6 DEF SeedInv

LEMMA FindRowKeeps ==
  ASSUME SeedInv, NEW r \in Scripts, FindRow(r)
  PROVE  SeedInv'
<1> DEFINE s == [script[r] EXCEPT !.at = "save"]
<1>1. script[r].at = "find" /\ rows' = rows /\ missed' = missed /\ cut' = cut
  BY DEF FindRow
<1>2. /\ script[r].item \in 1 .. Len(Plan)
      /\ Doing(r) \in Templates
  BY <1>1, DoingATemplate DEF SeedInv
<1>3. rows' \in [Templates -> Seq(Nat)] /\ \A t \in Templates : Len(rows[t]) <= Len(rows'[t])
  <2>1. \A t \in Templates : Len(rows[t]) \in Nat
    BY LenProperties DEF SeedInv, ScriptTypes
  <2> QED
    BY <1>1, <2>1 DEF SeedInv, ScriptTypes
<1>4. /\ ScriptTypes'
      /\ Behind'
      /\ seeded' => \A t \in Templates : rows'[t] # <<>>
      /\ \A q \in Scripts \ {r} : script'[q] = script[q] /\ (Doing(q))' = Doing(q)
  <2>1. CASE rows[Doing(r)] # <<>>
    <3>1. Advance(r) /\ rows'[Doing(r)] # <<>> /\ script[r].at # "off"
      BY <1>1, <2>1 DEF FindRow
    <3> QED
      BY <1>3, <3>1, AdvanceKeeps
  <2>2. CASE rows[Doing(r)] = <<>>
    <3>1. script' = [script EXCEPT ![r] = s] /\ seeded' = seeded
      BY <2>2 DEF FindRow
    <3>2. script[r] \in Positions
      BY DEF SeedInv, ScriptTypes
    <3>3. s \in Positions /\ s.at = "save" /\ s.item = script[r].item
      BY <3>2 DEF Positions
    <3>4. \A n \in 1 .. Len(Plan) : n < s.item => rows'[Plan[n]] # <<>>
      BY <1>1, <3>3 DEF SeedInv, Behind
    <3> HIDE DEF s
    <3>5. /\ ScriptTypes'
          /\ Behind'
          /\ \A q \in Scripts \ {r} : script'[q] = script[q] /\ (Doing(q))' = Doing(q)
      BY <1>2, <1>3, <3>1, <3>3, <3>4, StepKeeps
    <3> QED
      BY <1>1, <3>1, <3>5 DEF SeedInv, SeedComplete
  <2> QED
    BY <2>1, <2>2
<1>5. SeedComplete'
  BY <1>1, <1>4, CompleteReading
<1> QED
  BY <1>4, <1>5 DEF SeedInv

\* A script that ends, by itself or not.
LEMMA OffKeeps ==
  ASSUME SeedInv, NEW r \in Scripts, script' = [script EXCEPT ![r] = Off],
         rows' = rows, missed' = missed, seeded' = seeded, cut \subseteq cut',
         script[r].at = "parts" => Doing(r) \in cut'
  PROVE  SeedInv'
<1>1. Off \in Positions
  BY DEF Off, Positions
<1>2. rows' \in [Templates -> Seq(Nat)] /\ \A t \in Templates : Len(rows[t]) <= Len(rows'[t])
  <2>1. \A t \in Templates : Len(rows[t]) \in Nat
    BY LenProperties DEF SeedInv, ScriptTypes
  <2> QED
    BY <2>1 DEF SeedInv, ScriptTypes
<1>3. /\ ScriptTypes'
      /\ Behind'
      /\ \A q \in Scripts \ {r} : script'[q] = script[q] /\ (Doing(q))' = Doing(q)
  BY <1>1, <1>2, StepKeeps
<1>4. SeedComplete'
  BY <1>3, CompleteReading DEF SeedInv, SeedComplete
<1> QED
  BY <1>3, <1>4 DEF SeedInv

LEMMA RefuseUserKeeps ==
  ASSUME SeedInv, NEW r \in Scripts, RefuseUser(r)
  PROVE  SeedInv'
BY OffKeeps DEF RefuseUser

LEMMA StopScriptKeeps ==
  ASSUME SeedInv, NEW r \in Scripts, StopScript(r)
  PROVE  SeedInv'
<1>1. cut \subseteq cut' /\ (script[r].at = "parts" => Doing(r) \in cut')
  BY DEF StopScript
<1> QED
  BY <1>1, OffKeeps DEF StopScript

LEMMA SaveRowKeeps ==
  ASSUME SeedInv, NEW r \in Scripts, SaveRow(r)
  PROVE  SeedInv'
<1> DEFINE t == Doing(r)
           s == Parts(script[r], Len(rows[t]) + 1)
<1>1. /\ script[r].at = "save"
      /\ rows' = [rows EXCEPT ![t] = Append(@, 0)]
      /\ cut' = cut
  BY DEF SaveRow
<1>2. /\ script[r].item \in 1 .. Len(Plan)
      /\ t \in Templates
      /\ t = Plan[script[r].item]
      /\ rows[t] \in Seq(Nat)
      /\ rows \in [Templates -> Seq(Nat)]
      /\ script[r] \in Positions
  BY <1>1, DoingATemplate DEF SeedInv, ScriptTypes
<1> HIDE DEF t
<1>3. /\ rows'[t] = Append(rows[t], 0)
      /\ \A u \in Templates \ {t} : rows'[u] = rows[u]
  BY <1>1, <1>2
<1>4. /\ Append(rows[t], 0) \in Seq(Nat)
      /\ Len(Append(rows[t], 0)) = Len(rows[t]) + 1
      /\ \A i \in 1 .. Len(rows[t]) : Append(rows[t], 0)[i] = rows[t][i]
  BY <1>2, AppendProperties
<1>5. \A u \in Templates : Len(rows[u]) \in Nat
  BY <1>2, LenProperties
<1>6. rows' \in [Templates -> Seq(Nat)]
  BY <1>1, <1>2, <1>4
<1>7. \A u \in Templates : Len(rows[u]) <= Len(rows'[u])
  BY <1>2, <1>3, <1>4, <1>5
<1>8. rows'[t] # <<>>
  BY <1>2, <1>3, <1>4, <1>5, EmptySeq
<1>9. /\ ScriptTypes'
      /\ Behind'
      /\ seeded' => \A u \in Templates : rows'[u] # <<>>
      /\ \A q \in Scripts \ {r} : script'[q] = script[q] /\ (Doing(q))' = Doing(q)
      /\ t.parts # 0 => /\ script'[r].at = "parts"
                        /\ (Doing(r))' = t
                        /\ script'[r].row = Len(rows[t]) + 1
  <2>1. CASE t.parts = 0
    <3>1. Advance(r)
      BY <2>1 DEF SaveRow, t
    <3> QED
      BY <1>1, <1>6, <1>7, <1>8, <2>1, <3>1, AdvanceKeeps DEF t
  <2>2. CASE t.parts # 0
    <3>1. script' = [script EXCEPT ![r].at = "parts", ![r].row = Len(rows[t]) + 1]
          /\ seeded' = seeded
      BY <2>2 DEF SaveRow, t
    <3>2. script' = [script EXCEPT ![r] = s]
      BY <1>2, <3>1 DEF Parts
    <3>3. /\ s \in Positions
          /\ s.at = "parts"
          /\ s.item = script[r].item
          /\ s.row = Len(rows[t]) + 1
      <4>1. Len(rows[t]) + 1 \in Nat
        BY <1>2, <1>5
      <4> QED
        BY <1>2, <4>1, PartsIsPosition, Zenon
    <3>4. \A n \in 1 .. Len(Plan) : n < s.item => rows'[Plan[n]] # <<>>
      <4> SUFFICES ASSUME NEW n \in 1 .. Len(Plan), n < script[r].item
                   PROVE  rows'[Plan[n]] # <<>>
        BY <3>3
      <4>1. rows[Plan[n]] # <<>> /\ Plan[n] \in Templates
        BY <1>1 DEF SeedInv, Behind, Templates
      <4> QED
        BY <1>3, <1>8, <4>1
    <3>5. s.row \in 1 .. Len(rows'[Plan[s.item]])
      BY <1>2, <1>3, <1>4, <1>5, <3>3
    <3> HIDE DEF s
    <3>6. /\ ScriptTypes'
          /\ Behind'
          /\ script'[r] = s
          /\ \A q \in Scripts \ {r} : script'[q] = script[q] /\ (Doing(q))' = Doing(q)
          /\ \A u \in Templates : rows[u] # <<>> => rows'[u] # <<>>
      BY <1>2, <1>6, <1>7, <3>2, <3>3, <3>4, <3>5, StepKeeps
    <3>7. (Doing(r))' = t
      BY <1>2, <3>3, <3>6 DEF Doing
    <3> QED
      BY <3>1, <3>3, <3>6, <3>7 DEF SeedInv, SeedComplete
  <2> QED
    BY <2>1, <2>2
<1>10. \A u \in Templates : Len(rows'[u]) > 1 => u \in missed' /\ u.table # "user"
  <2>1. missed' = IF rows[t] = <<>> THEN missed ELSE missed \cup {t}
    BY DEF SaveRow, t
  <2>2. t.table = "user" => rows[t] = <<>>
    BY DEF SaveRow, t
  <2>3. ASSUME Len(rows'[t]) > 1
        PROVE  rows[t] # <<>>
    BY <1>2, <1>3, <1>4, <2>3, EmptySeq
  <2>4. ASSUME NEW u \in Templates \ {t}, Len(rows'[u]) > 1
        PROVE  u \in missed /\ u.table # "user"
    BY <1>3, <2>4 DEF SeedInv, SeedComplete
  <2> QED
    BY <2>1, <2>2, <2>3, <2>4
<1>11. ASSUME NEW u \in Templates, NEW i \in 1 .. Len(rows'[u]), rows'[u][i] # u.parts
       PROVE  \/ script'[r].at = "parts" /\ (Doing(r))' = u /\ script'[r].row = i
              \/ i \in 1 .. Len(rows[u]) /\ rows[u][i] # u.parts
  <2>1. CASE u # t
    BY <1>3, <1>11, <2>1
  <2>2. CASE u = t /\ i = Len(rows[t]) + 1
    <3>1. rows'[t][i] = 0
      BY <1>2, <1>3, <2>2, AppendProperties
    <3> QED
      BY <1>9, <1>11, <2>2, <3>1
  <2>3. CASE u = t /\ i # Len(rows[t]) + 1
    <3>1. i \in 1 .. Len(rows[t])
      BY <1>2, <1>3, <1>4, <1>5, <2>3
    <3> QED
      BY <1>3, <1>4, <1>11, <2>3, <3>1
  <2> QED
    BY <2>1, <2>2, <2>3
<1>12. SeedComplete'
  BY <1>1, <1>9, <1>10, <1>11, CompleteKeeps
<1> QED
  BY <1>9, <1>12 DEF SeedInv

LEMMA SavePartKeeps ==
  ASSUME SeedInv, NEW r \in Scripts, SavePart(r)
  PROVE  SeedInv'
<1> DEFINE t == Doing(r)
           i == script[r].row
<1>1. /\ script[r].at = "parts"
      /\ rows' = [rows EXCEPT ![t][i] = @ + 1]
      /\ cut' = cut
      /\ missed' = missed
      /\ IF rows[t][i] + 1 = t.parts THEN Advance(r) ELSE UNCHANGED <<script, seeded>>
  BY DEF SavePart
<1>2. /\ script[r].item \in 1 .. Len(Plan)
      /\ t \in Templates
      /\ t = Plan[script[r].item]
      /\ rows[t] \in Seq(Nat)
      /\ rows \in [Templates -> Seq(Nat)]
  BY <1>1, DoingATemplate DEF SeedInv, ScriptTypes
<1>3. i \in 1 .. Len(rows[t])
  BY <1>1 DEF SeedInv, Behind
<1> HIDE DEF t, i
<1> DEFINE more == [rows[t] EXCEPT ![i] = @ + 1]
<1>4. /\ rows' = [rows EXCEPT ![t] = more]
      /\ rows'[t] = more
      /\ \A u \in Templates \ {t} : rows'[u] = rows[u]
  BY <1>1, <1>2
<1>5. /\ more \in Seq(Nat)
      /\ Len(more) = Len(rows[t])
      /\ more[i] = rows[t][i] + 1
      /\ \A j \in 1 .. Len(rows[t]) : j # i => more[j] = rows[t][j]
  <2>1. rows[t][i] \in Nat
    BY <1>2, <1>3, ElementOfSeq
  <2>2. more \in Seq(Nat) /\ Len(more) = Len(rows[t])
    BY <1>2, <1>3, <2>1, ExceptSeq
  <2>3. DOMAIN rows[t] = 1 .. Len(rows[t])
    BY <1>2, LenProperties
  <2> QED
    BY <1>3, <2>2, <2>3
<1> HIDE DEF more
<1>6. \A u \in Templates : Len(rows[u]) \in Nat
  BY <1>2, LenProperties
<1>7. rows' \in [Templates -> Seq(Nat)]
  BY <1>2, <1>4, <1>5
<1>8. \A u \in Templates : Len(rows'[u]) = Len(rows[u])
  BY <1>2, <1>4, <1>5
<1>8a. \A u \in Templates : Len(rows[u]) <= Len(rows'[u])
  BY <1>6, <1>8
<1>9. \A u \in Templates : rows[u] # <<>> => rows'[u] # <<>>
  <2> SUFFICES ASSUME NEW u \in Templates, rows[u] # <<>>
               PROVE  rows'[u] # <<>>
    OBVIOUS
  <2>1. rows[u] \in Seq(Nat) /\ rows'[u] \in Seq(Nat) /\ Len(rows'[u]) = Len(rows[u])
    BY <1>2, <1>7, <1>8
  <2> QED
    BY <2>1, EmptySeq
<1>10. rows'[t] # <<>>
  BY <1>2, <1>3, <1>9, EmptySeq
<1>11. /\ ScriptTypes'
       /\ Behind'
       /\ seeded' => \A u \in Templates : rows'[u] # <<>>
       /\ \A q \in Scripts \ {r} : script'[q] = script[q] /\ (Doing(q))' = Doing(q)
       /\ \/ rows[t][i] + 1 = t.parts
          \/ script'[r].at = "parts" /\ (Doing(r))' = t /\ script'[r].row = i
  <2>1. CASE rows[t][i] + 1 = t.parts
    <3>1. Advance(r)
      BY <1>1, <2>1
    <3> QED
      BY <1>1, <1>7, <1>8a, <1>10, <2>1, <3>1, AdvanceKeeps DEF t
  <2>2. CASE rows[t][i] + 1 # t.parts
    <3>1. script' = script /\ seeded' = seeded
      BY <1>1, <2>2
    <3>2. script' = [script EXCEPT ![r] = script[r]] /\ script[r] \in Positions
      BY <3>1 DEF SeedInv, ScriptTypes
    <3>3. \A n \in 1 .. Len(Plan) : n < script[r].item => rows'[Plan[n]] # <<>>
      BY <1>1, <1>9 DEF SeedInv, Behind, Templates
    <3>4. script[r].row \in 1 .. Len(rows'[Plan[script[r].item]])
      BY <1>2, <1>3, <1>8 DEF i
    <3>5. /\ ScriptTypes'
          /\ Behind'
          /\ \A q \in Scripts \ {r} : script'[q] = script[q] /\ (Doing(q))' = Doing(q)
      BY <1>1, <1>2, <1>7, <1>8a, <3>2, <3>3, <3>4, StepKeeps
    <3>6. (Doing(r))' = t
      BY <3>1 DEF Doing, t
    <3> QED
      BY <1>1, <1>9, <3>1, <3>5, <3>6 DEF SeedInv, SeedComplete, i
  <2> QED
    BY <2>1, <2>2
<1>12. \A u \in Templates : Len(rows'[u]) > 1 => u \in missed' /\ u.table # "user"
  BY <1>1, <1>8 DEF SeedInv, SeedComplete
<1>13. ASSUME NEW u \in Templates, NEW j \in 1 .. Len(rows'[u]), rows'[u][j] # u.parts
       PROVE  \/ script'[r].at = "parts" /\ (Doing(r))' = u /\ script'[r].row = j
              \/ /\ j \in 1 .. Len(rows[u])
                 /\ rows[u][j] # u.parts
                 /\ ~(script[r].at = "parts" /\ Doing(r) = u /\ script[r].row = j)
  <2>1. j \in 1 .. Len(rows[u])
    BY <1>8
  <2>2. CASE u # t
    BY <1>4, <1>13, <2>1, <2>2 DEF t
  <2>3. CASE u = t /\ j # i
    BY <1>4, <1>5, <1>13, <2>1, <2>3 DEF i
  <2>4. CASE u = t /\ j = i
    BY <1>4, <1>5, <1>11, <1>13, <2>4
  <2> QED
    BY <2>2, <2>3, <2>4
<1>14. SeedComplete'
  BY <1>1, <1>11, <1>12, <1>13, CompleteKeeps
<1> QED
  BY <1>11, <1>14 DEF SeedInv

LEMMA SeedStep ==
  ASSUME SeedInv, [Next]_vars
  PROVE  SeedInv'
<1>1. CASE UNCHANGED seedVars
  <2>1. UNCHANGED <<script, rows, missed, cut, seeded>>
    BY <1>1 DEF seedVars
  <2> QED
    BY <2>1 DEF SeedInv, ScriptTypes, Behind, SeedComplete, Doing
<1>2. CASE SeedNext
  <2>1. PICK r \in Scripts : \/ Start(r) \/ FindRow(r) \/ RefuseUser(r) \/ SaveRow(r)
                             \/ SavePart(r) \/ StopScript(r)
    BY <1>2 DEF SeedNext
  <2> QED
    BY <2>1, StartKeeps, FindRowKeeps, RefuseUserKeeps, SaveRowKeeps, SavePartKeeps,
       StopScriptKeeps
<1>3. CASE UNCHANGED vars
  BY <1>1, <1>3 DEF vars
<1>4. Next => SeedNext \/ UNCHANGED seedVars
  BY Zenon DEF Next
<1> QED
  BY <1>1, <1>2, <1>3, <1>4

\* However often the script is started, stopped and run beside itself, for any users and
\* templates: once one has come to its end every row of the plan is there, a row is there
\* twice only if two scripts missed it, and never a user, and a row lacks parts only while a
\* script saves them or because one was cut off there (seed.ts).
THEOREM SeedAlwaysComplete == Spec => []SeedComplete
<1>1. Init => SeedInv
  BY SeedInitInv DEF Init
<1>2. SeedInv /\ [Next]_vars => SeedInv'
  BY SeedStep
<1>3. SeedInv => SeedComplete
  BY DEF SeedInv
<1> QED
  BY <1>1, <1>2, <1>3, PTL DEF Spec

=============================================================================
