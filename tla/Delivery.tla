------------------------------ MODULE Delivery ------------------------------
(***************************************************************************)
(* One operation, under one idempotency key, made at most once: the client *)
(* side, retryWithBackoff around a circuit breaker (circuit-breaker.ts),   *)
(* and the two server sides, klenzo's IdempotencyGuard with its marker in  *)
(* Redis, and withIdempotentTransaction with the map of a Worker isolate   *)
(* (libs/database, transaction.ts).                                        *)
(*                                                                         *)
(* These are library code: no route of the repository uses them yet, and   *)
(* they are put together here as their comments say they are meant to be.  *)
(***************************************************************************)
EXTENDS Integers

CONSTANTS
  MaxRetries,        \* maxRetries
  Isolates,          \* Worker isolates
  MaxFaults          \* bound: Redis errors, lost commits, isolates restarted

ASSUME MaxRetriesAssumption == MaxRetries \in Nat
ASSUME MaxFaultsOfDeliveryAssumption == MaxFaults \in Nat

VARIABLES
  server,    \* "guard" or "wrapper"
  retry,     \* the client: its stage, and the attempts that it has made
  run,       \* run[n]: what the server does for attempt n, and in which isolate
  marker,    \* Redis holds idempotency:<key>
  keys,      \* keys[i]: completedKeys of isolate i for the key
  done,      \* how often the operation was committed
  breaker,   \* the state of the circuit breaker
  mishap     \* history: faults so far, and whether a second commit is explained

delivery == <<server, retry, run, marker, keys, done, breaker, mishap>>

Attempts == 1 .. MaxRetries + 1

Explain(yes) == mishap' = [mishap EXCEPT !.explained = @ \/ yes]

Fault ==
  /\ mishap.faults < MaxFaults
  /\ mishap' = [faults |-> mishap.faults + 1, explained |-> TRUE]

Stage(n, at) == run' = [run EXCEPT ![n].at = at]

-----------------------------------------------------------------------------
(* The client.                                                             *)

\* An attempt failed: after a delay the next one, or the error is thrown.
Caught == [retry EXCEPT !.at = IF retry.attempt <= MaxRetries THEN "delay" ELSE "failed"]

\* Half open the breaker opens again; closed it does when the rate of errors in its window,
\* to which other calls contribute, is reached.
Failed ==
  \/ breaker' = "open"
  \/ breaker = "closed" /\ UNCHANGED breaker

\* The next attempt, which an open breaker rejects at once.
Attempt ==
  /\ retry.at \in {"start", "delay"}
  /\ LET n == retry.attempt + 1
     IN IF breaker = "open"
        THEN /\ retry' = [retry EXCEPT !.attempt = n,
                                       !.at = IF n <= MaxRetries THEN "delay" ELSE "failed"]
             /\ UNCHANGED run
        ELSE /\ retry' = [at |-> "waiting", attempt |-> n]
             /\ \E i \in Isolates : run' = [run EXCEPT ![n] = [at |-> "sent", in |-> i]]
  /\ UNCHANGED <<server, marker, keys, done, breaker, mishap>>

\* The breaker's timeout: the attempt is given up, and the server goes on with it.
TimeOut ==
  /\ retry.at = "waiting"
  /\ retry' = Caught
  /\ Failed
  /\ UNCHANGED <<server, run, marker, keys, done, mishap>>

\* resetTimeout is over.
HalfOpen ==
  /\ breaker = "open"
  /\ breaker' = "half-open"
  /\ UNCHANGED <<server, retry, run, marker, keys, done, mishap>>

\* The answer to attempt n, if it is still waited for.
Reply(n, ok) ==
  /\ Stage(n, "over")
  /\ IF retry.at = "waiting" /\ retry.attempt = n
     THEN IF ok
          THEN /\ retry' = [retry EXCEPT !.at = "succeeded"]
               /\ breaker' = "closed"
          ELSE retry' = Caught /\ Failed
     ELSE UNCHANGED <<retry, breaker>>
  /\ UNCHANGED server

-----------------------------------------------------------------------------
(* IdempotencyGuard.                                                       *)

\* Redis get: a value is answered as it is, status 202.  An error is a miss.
GetMarker(n) ==
  /\ server = "guard" /\ run[n].at = "sent"
  /\ IF marker
     THEN \/ Reply(n, TRUE) /\ UNCHANGED mishap
          \/ Stage(n, "missed") /\ Fault /\ UNCHANGED <<server, retry, breaker>>
     ELSE /\ Stage(n, "missed")
          /\ Explain(\E k \in Attempts : run[k].at = "missed")
          /\ UNCHANGED <<server, retry, breaker>>
  /\ UNCHANGED <<marker, keys, done>>

\* Redis set, for 24 hours, which no retry outlives.  An error stores nothing.
SetMarker(n) ==
  /\ server = "guard" /\ run[n].at = "missed"
  /\ Stage(n, "working")
  /\ \/ marker' = TRUE /\ UNCHANGED mishap
     \/ Fault /\ UNCHANGED marker
  /\ UNCHANGED <<server, retry, keys, done, breaker>>

-----------------------------------------------------------------------------
(* withIdempotentTransaction.                                              *)

\* Mutant: the key is stored only once there is a result.
EnterUnmarked(n) ==
  LET i == run[n].in
  IN /\ server = "wrapper" /\ run[n].at = "sent"
     /\ IF keys[i] # "none" THEN Reply(n, TRUE) /\ UNCHANGED <<keys, mishap>>
        ELSE /\ Stage(n, "working")
             /\ UNCHANGED keys
             /\ Explain(\E j \in Isolates : keys[j] # "none")
             /\ UNCHANGED <<server, retry, breaker>>
     /\ UNCHANGED <<marker, done>>

\* A key that is there, even one in flight, is answered with what is stored; otherwise the
\* sentinel is, in the same step.
Enter(n) ==
  LET i == run[n].in
  IN /\ server = "wrapper" /\ run[n].at = "sent"
     /\ IF keys[i] # "none" THEN Reply(n, TRUE) /\ UNCHANGED <<keys, mishap>>
        ELSE /\ Stage(n, "working")
             /\ keys' = [keys EXCEPT ![i] = "in-flight"]
             /\ Explain(\E j \in Isolates : keys[j] # "none")
             /\ UNCHANGED <<server, retry, breaker>>
     /\ UNCHANGED <<marker, done>>

Store(n, value) ==
  keys' = IF server = "wrapper" THEN [keys EXCEPT ![run[n].in] = value] ELSE keys

\* The transaction commits, and the caller gets the result ...
Commit(n) ==
  /\ run[n].at = "working"
  /\ done' = done + 1
  /\ \/ Store(n, "result") /\ Reply(n, TRUE) /\ UNCHANGED mishap
        \* ... or an error, when the connection is lost meanwhile.
     \/ Store(n, "none") /\ Reply(n, FALSE) /\ Fault
  /\ UNCHANGED marker

\* It is rolled back: withIdempotentTransaction forgets the key, the guard does not.
RollBack(n) ==
  /\ run[n].at = "working"
  /\ Store(n, "none")
  /\ Reply(n, FALSE)
  /\ UNCHANGED <<marker, done, mishap>>

\* An isolate is evicted, with its map and what it runs.
Evict(i) ==
  /\ server = "wrapper" /\ keys[i] # "none"
  /\ keys' = [keys EXCEPT ![i] = "none"]
  /\ run' = [n \in Attempts |-> IF run[n].in = i /\ run[n].at # "none"
                                THEN [run[n] EXCEPT !.at = "over"] ELSE run[n]]
  /\ Fault
  /\ UNCHANGED <<server, retry, marker, done, breaker>>

DeliveryNext ==
  \/ Attempt \/ TimeOut \/ HalfOpen
  \/ \E n \in Attempts :
       GetMarker(n) \/ SetMarker(n) \/ Enter(n) \/ Commit(n) \/ RollBack(n)
  \/ \E i \in Isolates : Evict(i)

\* Other calls have left the breaker in any state.
DeliveryInit(used) ==
  /\ server \in IF used THEN {"guard", "wrapper"} ELSE {"none"}
  /\ retry = [at |-> IF used THEN "start" ELSE "none", attempt |-> 0]
  /\ run = [n \in Attempts |-> [at |-> "none", in |-> CHOOSE i \in Isolates : TRUE]]
  /\ marker = FALSE
  /\ keys = [i \in Isolates |-> "none"]
  /\ done = 0
  /\ breaker \in IF used THEN {"closed", "half-open", "open"} ELSE {"closed"}
  /\ mishap = [faults |-> 0, explained |-> FALSE]

-----------------------------------------------------------------------------

\* "Prevents double-charges on network retries" (idempotency.guard.ts:13), "only once per
\* idempotencyKey" (transaction.ts:42): the operation is committed once at most, unless
\* Redis or the connection failed, an attempt read the marker before an earlier one had set
\* it, or an attempt reached another isolate, or the same after an eviction.
KeyedOnce == done > 1 => mishap.explained
=============================================================================
