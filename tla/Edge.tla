-------------------------------- MODULE Edge --------------------------------
(***************************************************************************)
(* The authentication front: browsers through api-worker to auth-worker,   *)
(* klenzo's Google sign-in and administrators on the same row, and         *)
(* api-worker's own calls; and operations made under an idempotency key,   *)
(* which share no state with them: a behaviour is about the one or the     *)
(* other.                                                                  *)
(***************************************************************************)
EXTENDS AuthRpc, Delivery

CONSTANT
  MaxLapses   \* bound: tokens and cookies whose time runs out

ASSUME MaxLapsesAssumption == MaxLapses \in Nat

VARIABLE
  lapses   \* how many did so far

auth == <<store, browser, worker, timers, got, lapses>>
vars == <<auth, delivery>>

\* klenzo's administration locks or unlocks the account.
ToggleActive ==
  /\ calls < MaxCalls
  /\ calls' = calls + 1
  /\ Update([row EXCEPT !.active = ~@])
  /\ UNCHANGED <<minted, jar, challenge, call, crossed, disturbed, worker, timers, got, lapses>>

\* Seven days are over for the stored refresh token, and for kz_rt if it holds it; a request
\* on its way still brings it.
SessionLapses ==
  /\ RefreshLapses
  /\ jar' = IF jar.refresh = row.refresh THEN [jar EXCEPT !.refresh = 0] ELSE jar
  /\ UNCHANGED <<challenge, call, calls, crossed, disturbed>>

TimePasses ==
  /\ lapses < MaxLapses
  /\ lapses' = lapses + 1
  /\ \/ SessionLapses
     \/ ResetLapses /\ UNCHANGED browser
     \/ /\ AccessLapses \/ ChallengeExpires \/ \E c \in Clients : TokenExpires(c)
        /\ UNCHANGED store
  /\ UNCHANGED <<worker, timers, got>>

AuthenticationNext ==
  \/ \E c \in Clients :
       \/ /\ \/ \E op \in Routes, code \in 0 .. MaxCalls :
                  Send(c, op, code) \/ SendElsewhere(c, op, code)
             \/ Deliver(c) \/ Lose(c) \/ Fail(c)
          /\ UNCHANGED <<worker, timers, got, lapses>>
       \/ (AuthNext(c) \/ GoogleNext(c)) /\ UNCHANGED <<timers, got, lapses>>
       \/ RpcNext(c) /\ UNCHANGED lapses
  \/ TimePasses
  \/ ToggleActive

Next ==
  \/ server = "none" /\ AuthenticationNext /\ UNCHANGED delivery
  \/ DeliveryNext /\ UNCHANGED auth

SignedIn(user) == [user EXCEPT !.refresh = 1, !.refreshLive = TRUE]

Users == {SignedIn(NewUser), SignedIn([NewUser EXCEPT !.secret = 1]),
          SignedIn([NewUser EXCEPT !.secret = 1, !.mfa = TRUE])}

\* The person has no account, or is signed in on this browser, with MFA off, set up or on.
Init ==
  /\ \/ row \in {NoUser} \cup Users /\ DeliveryInit(FALSE)
     \/ row = NoUser /\ DeliveryInit(TRUE)
  /\ minted = [refresh |-> row.refresh, reset |-> 0, secret |-> row.secret]
  /\ jar = [refresh |-> row.refresh, access |-> row.there]
  /\ challenge = FALSE
  /\ call = [c \in Clients |-> NoCall]
  /\ calls = 0
  /\ crossed = {}
  /\ disturbed = FALSE
  /\ earned = TRUE
  /\ links = [newest |-> 0, used |-> {}, crossed |-> FALSE]
  /\ timers = {}
  /\ got = [c \in Clients |-> "failed"]
  /\ lapses = 0

\* The deadline of a call whose timer runs is over, whatever else happens.
Timer(c) == LoseRace(c) /\ UNCHANGED <<lapses, delivery>>

\* A body whose headers came ends or is cut off: the transport sees to it, not this code, whose
\* "Deadline for each call (default 2 s)" (auth-rpc.ts:73) is over for this call by then.
Body(c) == ReadBody(c) /\ UNCHANGED <<lapses, delivery>>

\* What the code sees to by itself ...
TimerSpec == Init /\ [][Next]_vars /\ \A c \in Clients : WF_vars(Timer(c))

\* ... and with the transport of the Workers runtime.
Spec == TimerSpec /\ \A c \in Clients : WF_vars(Body(c))
=============================================================================
