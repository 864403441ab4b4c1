------------------------------ MODULE AuthRpc ------------------------------
(***************************************************************************)
(* Calls from api-worker to auth-worker (api-worker's lib/auth-rpc.ts and  *)
(* auth-worker's routes/rpc.ts): validateToken and getUserProfile, over a  *)
(* service binding that may fail, with a deadline for the headers of the   *)
(* answer and none for its body.                                           *)
(***************************************************************************)
EXTENDS Google

VARIABLES
  timers,   \* the calls whose deadline is running
  got       \* got[c]: what the last call of c returned or threw

RpcRoutes == {"validate-token", "get-user-profile"}

\* What auth-worker may say: the user is active or locked; the token is none of a user;
\* there is no such user.
Answers == {"active", "locked", "invalid", "missing"}

\* callRpc: the request is on its way, and the timer set.
CallRpc(c, op) ==
  /\ Begin(c, [NoCall EXCEPT !.op = op,
                             !.token = IF op = "validate-token" THEN "access" ELSE "none"])
  /\ timers' = timers \cup {c}
  /\ UNCHANGED <<jar, challenge, store, worker, got>>

-----------------------------------------------------------------------------
(* The handlers.  Both awaits of validate-token are stages of their own:    *)
(* the token may expire, and the row change, between them.                  *)

\* verifyAccessToken: a token that does not verify is nobody's.
VerifyToken(c) ==
  /\ Running(c, "validate-token", "sent")
  /\ Go(c, IF VerifyAccessToken(c) THEN "find" ELSE "invalid")
  /\ UNCHANGED <<challenge, store, worker, timers, got>>

\* What the row says of the person c asks about.
Person(c) ==
  CASE row.there /\ row.active -> "active"
    [] row.there /\ ~row.active -> "locked"
    [] OTHER -> IF call[c].op = "validate-token" THEN "invalid" ELSE "missing"

\* Mutant: the claims of the token are taken for the user.
FindByIdInClaims(c) ==
  /\ Running(c, "validate-token", "find") \/ Running(c, "get-user-profile", "sent")
  /\ Go(c, IF call[c].op = "validate-token" THEN "active" ELSE Person(c))
  /\ UNCHANGED <<challenge, store, worker, timers, got>>

\* store.findById, and the answer.
FindById(c) ==
  /\ Running(c, "validate-token", "find") \/ Running(c, "get-user-profile", "sent")
  /\ Go(c, Person(c))
  /\ UNCHANGED <<challenge, store, worker, timers, got>>

-----------------------------------------------------------------------------
(* The caller.                                                              *)

Return(c, outcome) ==
  /\ got' = [got EXCEPT ![c] = outcome]
  /\ timers' = timers \ {c}
  /\ End(c)
  /\ UNCHANGED <<jar, challenge, disturbed, store, worker>>

\* The race is lost: the deadline fires (RpcTimeoutError), or sooner the binding throws
\* (RpcUnavailableError).  What the handler does after it is not heard.
LoseRace(c) ==
  /\ call[c].op \in RpcRoutes /\ c \in timers
  /\ Return(c, "failed")

\* The race is won: the headers of the answer are there, and clearTimeout stops the timer.
WinRace(c) ==
  /\ call[c].at \in Answers /\ c \in timers
  /\ timers' = timers \ {c}
  /\ UNCHANGED <<browser, store, worker, got>>

\* The body is there and well-formed, or is cut off (RpcError); nothing times it.
ReadBody(c) ==
  /\ call[c].at \in Answers /\ c \notin timers
  /\ \E outcome \in {call[c].at, "failed"} : Return(c, outcome)

RpcNext(c) ==
  \/ \E op \in RpcRoutes : CallRpc(c, op)
  \/ VerifyToken(c) \/ FindById(c)
  \/ LoseRace(c) \/ WinRace(c) \/ ReadBody(c)

-----------------------------------------------------------------------------

Asks(c) == call[c].op \in RpcRoutes

\* Where the question of c stands.
Asked(c) ==
  IF ~Asks(c) THEN "idle"
  ELSE IF Running(c, "validate-token", "sent") THEN "token"
  ELSE IF call[c].at \in {"sent", "find"} THEN "person"
  ELSE call[c].at

Lookup == INSTANCE TokenLookup WITH
  Clients <- Clients,
  Answers <- Answers,
  valid <- [c \in Clients |-> VerifyAccessToken(c)],
  person <- [c \in Clients |-> Person(c)],
  ask <- [c \in Clients |-> Asked(c)],
  got <- got

\* The calls implement TokenLookup: a token that is answered for was valid at one moment of
\* its call, and the row said what is answered at that or a later one; and every call ends
\* (auth-rpc.ts:139).
RpcImplementsLookup == Lookup!LookupSpec
=============================================================================
