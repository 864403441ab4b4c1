------------------------------ MODULE Browser ------------------------------
(***************************************************************************)
(* A person's browser and what carries its requests: the cookies kz_at and *)
(* kz_rt, sent through api-worker's proxy and set by the answers.  Several *)
(* tabs share the cookies, and other devices sign in to the same account.  *)
(*                                                                         *)
(* A request takes the cookies along when it is sent, and its answer       *)
(* replaces them when it arrives; requests and answers overtake each       *)
(* other, and either may get lost.                                         *)
(***************************************************************************)
EXTENDS UserStore

CONSTANTS
  Clients,    \* concurrent requests about the account, numbered
  MaxCalls    \* bound: requests made

ASSUME ClientsAssumption == Clients \subseteq Nat
ASSUME MaxCallsAssumption == MaxCalls \in Nat

VARIABLES
  jar,        \* kz_rt, 0 if there is none, and whether there is a kz_at
  challenge,  \* an MFA challenge that has not expired is held
  call,       \* call[c]: the request of c
  calls,      \* requests made so far
  crossed,    \* history: requests that met another of their family
  disturbed   \* history: why the cookies may be behind the row, see JarCurrent

browser == <<jar, challenge, call, calls, crossed, disturbed>>

\* Stage, route, from this browser or from elsewhere; kz_rt and the access token or
\* challenge it brings; its password, code or link, 0 if wrong; what the handler uses of
\* what it read, and whether the session it is about to issue is earned; and the kz_rt that
\* the answer sets, 0 to clear it.
NothingSeen == [failed |-> 0, mfa |-> FALSE, secret |-> 0]
NoCall ==
  [at |-> "idle", op |-> "none", here |-> FALSE, refresh |-> 0, token |-> "none", code |-> 0,
   seen |-> NothingSeen, earned |-> FALSE, sets |-> 0]

Guarded == {"logout", "profile", "setup", "enable", "disable"}
SessionRoutes == {"register", "login", "login-mfa", "refresh", "logout", "google"}
LinkRoutes == {"forgot", "reset"}
FactorRoutes == {"setup", "enable", "disable"}
Routes == Guarded \cup SessionRoutes \cup LinkRoutes

Family(op) ==
  CASE op \in SessionRoutes -> SessionRoutes
    [] op \in LinkRoutes -> LinkRoutes
    [] op \in FactorRoutes -> FactorRoutes
    [] OTHER -> {}

Met(c, op) == {d \in Clients \ {c} : call[d].op \in Family(op)}

\* A request starts; the numbers of requests tell nothing, so the least free one is taken.
Begin(c, request) ==
  /\ call[c].at = "idle"
  /\ \A d \in Clients : d < c => call[d].at # "idle"
  /\ calls < MaxCalls
  /\ calls' = calls + 1
  /\ call' = [call EXCEPT ![c] = [request EXCEPT !.at = "sent"]]
  /\ crossed' = IF Met(c, request.op) = {} THEN crossed
                ELSE crossed \cup {c} \cup Met(c, request.op)
  /\ disturbed' = (disturbed \/ (request.op \in SessionRoutes /\
                                   (~request.here \/ Met(c, request.op) # {})))

\* What may be typed in: a right password is 1; a link is one that was handed out, a code
\* one of a secret that was shown.
Input(op) ==
  CASE op = "login" -> {0, 1}
    [] op = "reset" -> 1 .. minted.reset
    [] op \in {"login-mfa", "enable", "disable"} -> 0 .. minted.secret
    [] OTHER -> {0}

\* A tab sends a request, with the cookies there are.
Send(c, op, code) ==
  /\ code \in Input(op)
  /\ op \in Guarded => jar.access
  /\ op = "refresh" => jar.refresh # 0
  /\ op = "login-mfa" => challenge
  /\ Begin(c, [NoCall EXCEPT !.op = op, !.here = TRUE, !.code = code,
                             !.refresh = IF op = "refresh" THEN jar.refresh ELSE 0,
                             !.token = IF op \in Guarded THEN "access"
                                       ELSE IF op = "login-mfa" THEN "challenge" ELSE "none"])
  /\ UNCHANGED <<jar, challenge, store>>

\* Another device signs in, or out with the access token it keeps.
SendElsewhere(c, op, code) ==
  /\ op \in {"login", "logout", "google"} /\ code = 1
  /\ Begin(c, [NoCall EXCEPT !.op = op, !.code = code,
                             !.token = IF op = "logout" THEN "access" ELSE "none"])
  /\ UNCHANGED <<jar, challenge, store>>

Running(c, op, at) == call[c].op = op /\ call[c].at = at

\* The handler awaits, having read the row or not.
Go(c, at) ==
  /\ call' = [call EXCEPT ![c].at = at]
  /\ UNCHANGED <<jar, calls, crossed, disturbed>>

GoSeeing(c, at, seen) ==
  /\ call' = [call EXCEPT ![c].at = at, ![c].seen = seen]
  /\ UNCHANGED <<jar, calls, crossed, disturbed>>

\* All that is left is to issue a session.
GoIssue(c, isEarned) ==
  /\ call' = [call EXCEPT ![c] = [NoCall EXCEPT !.at = "issue", !.op = call[c].op,
                                                !.here = call[c].here, !.earned = isEarned]]
  /\ UNCHANGED <<jar, calls, crossed, disturbed>>

End(c) ==
  /\ call' = [call EXCEPT ![c] = NoCall]
  /\ crossed' = crossed \ {c}
  /\ UNCHANGED calls

\* The handler is done, and its answer sets no cookie: when it arrives does not matter.
Answer(c) == End(c) /\ UNCHANGED <<jar, disturbed>>

\* The handler is done, and its answer sets or clears both cookies.
AnswerSetting(c, refresh) ==
  /\ call' = [call EXCEPT ![c] = [NoCall EXCEPT !.at = "answered", !.op = call[c].op,
                                                !.here = call[c].here, !.sets = refresh]]
  /\ UNCHANGED <<jar, calls, crossed, disturbed>>

\* Mutant: of two Set-Cookie headers only the first one survives.
SetCookiesFirst(c) == [jar EXCEPT !.access = call[c].sets # 0]

\* What its two Set-Cookie headers make of the cookies.
SetCookies(c) == [refresh |-> call[c].sets, access |-> call[c].sets # 0]

\* The answer arrives.
Deliver(c) ==
  /\ call[c].at = "answered"
  /\ jar' = IF call[c].here THEN SetCookies(c) ELSE jar
  /\ disturbed' = (disturbed /\ ~(call[c].here /\ c \notin crossed))
  /\ End(c)
  /\ UNCHANGED <<challenge, store>>

\* The answer does not arrive, or the binding throws and the proxy answers 503.
Lose(c) ==
  /\ call[c].at = "answered"
  /\ disturbed' = TRUE
  /\ End(c)
  /\ UNCHANGED <<jar, challenge, store>>

\* There is no binding, or a query fails: 503 or 500, and no cookie.
Fail(c) ==
  /\ call[c].at \notin {"idle", "answered"} /\ call[c].op \in Routes
  /\ Answer(c)
  /\ UNCHANGED <<challenge, store>>

\* Max-Age of kz_at, the life of the JWT in it, is over.
AccessLapses ==
  /\ jar.access
  /\ jar' = [jar EXCEPT !.access = FALSE]
  /\ UNCHANGED <<challenge, call, calls, crossed, disturbed>>

\* The JWT that a request carries expires on its way.
TokenExpires(c) ==
  /\ call[c].at \in {"sent", "find"} /\ call[c].token # "none"
  /\ call' = [call EXCEPT ![c].token = "none"]
  /\ UNCHANGED <<jar, challenge, calls, crossed, disturbed>>

ChallengeExpires ==
  /\ challenge
  /\ challenge' = FALSE
  /\ UNCHANGED <<jar, call, calls, crossed, disturbed>>
=============================================================================
