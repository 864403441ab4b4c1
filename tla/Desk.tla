-------------------------------- MODULE Desk --------------------------------
(***************************************************************************)
(* What the services of the platform share: the users, and requests cut at *)
(* their awaits.  Approval, Consent, Support, Inbox, Flags, Habit and      *)
(* Group each add a table, and Platform composes them.                     *)
(***************************************************************************)
EXTENDS AdminRoutes, Naturals

CONSTANTS
  Clients,    \* concurrent requests
  Users,      \* accounts, administrators' and others'
  RoleOf,     \* the default role of each, or "USER"
  MaxCalls    \* bound: requests made

ASSUME MaxCallsAssumption == MaxCalls \in Nat

Nobody == "nobody"
ASSUME NobodyAssumption == Nobody \notin Users

VARIABLES
  users,    \* the accounts that exist
  call,     \* call[c]: the section that request c runs next, and what it uses
  calls     \* requests made so far

desk == <<users, call, calls>>

\* Stage, user who asks, row or user asked about, value to be written, and what
\* was read.
NoCall == [at |-> "idle", by |-> Nobody, of |-> Nobody, as |-> Nobody, seen |-> Nobody]

Request(at, by, of, as) == [NoCall EXCEPT !.at = at, !.by = by, !.of = of, !.as = as]

\* A request about to do more than one round trip.
Begin(c, next) ==
  /\ call[c].at = "idle"
  /\ calls < MaxCalls
  /\ calls' = calls + 1
  /\ call' = [call EXCEPT ![c] = next]

\* A request of one round trip.
Once(c) ==
  /\ call[c].at = "idle"
  /\ calls < MaxCalls
  /\ calls' = calls + 1
  /\ UNCHANGED call

Go(c, next) ==
  /\ call' = [call EXCEPT ![c] = next]
  /\ UNCHANGED calls

End(c) == Go(c, NoCall)

\* A request that goes on, having read what it will use.
GoSeeing(c, next, read) == Go(c, [call[c] EXCEPT !.at = next, !.seen = read])

\* An administrator whom JwtStrategy and both guards let through.
Admin(u, routes, route) == u \in users /\ Passes(RoleOf[u], routes, route)
=============================================================================
