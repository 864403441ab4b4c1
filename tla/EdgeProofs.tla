----------------------------- MODULE EdgeProofs -----------------------------
(***************************************************************************)
(* Proofs about Edge, for any number of clients, requests, retries,        *)
(* isolates, faults and lapses.                                            *)
(***************************************************************************)
EXTENDS Edge, TLAPS

-----------------------------------------------------------------------------
(* One operation under an idempotency key (Delivery).                      *)

Taken(n) == run[n].at \in {"missed", "working"}

\* Where an attempt is put down that was not sent.
SomeIsolate == CHOOSE i \in Isolates : TRUE

Explained == mishap.explained

DeliveryTypes ==
  /\ run \in [Attempts -> [at : {"none", "sent", "missed", "working", "over"},
                           in : Isolates \cup {SomeIsolate}]]
  /\ keys \in [Isolates -> {"none", "in-flight", "result"}]
  /\ marker \in BOOLEAN
  /\ done \in Nat
  /\ mishap \in [faults : Nat, explained : BOOLEAN]
  /\ \A n \in Attempts : run[n].at # "none" => run[n].in \in Isolates

\* Until something explains a second commit, at most one attempt is past the check of the
\* key, none once the operation was committed, and the server remembers the key by then.
Guarding ==
  ~Explained =>
    /\ \A n, k \in Attempts : Taken(n) /\ Taken(k) => n = k
    /\ done = 0 \/ (done = 1 /\ \A n \in Attempts : ~Taken(n))
    /\ server = "guard" /\ (done = 1 \/ \E n \in Attempts : run[n].at = "working") => marker
    /\ server = "wrapper" =>
         /\ \A n \in Attempts : run[n].at = "working" => keys[run[n].in] = "in-flight"
         /\ done = 1 => \E i \in Isolates : keys[i] # "none"

Served ==
  \A n \in Attempts : /\ run[n].at = "missed" => server = "guard"
                      /\ run[n].at = "working" => server \in {"guard", "wrapper"}

DeliveryInv == DeliveryTypes /\ Guarding /\ Served

\* An attempt that is not past the check of the key does not get past it when it ends.
LEMMA StageOf ==
  ASSUME DeliveryInv, NEW n \in Attempts, NEW s \in {"missed", "working", "over"},
         run[n].at # "none", Stage(n, s)
  PROVE  /\ run' \in [Attempts -> [at : {"none", "sent", "missed", "working", "over"},
                                   in : Isolates \cup {SomeIsolate}]]
         /\ \A k \in Attempts : k # n => run'[k] = run[k]
         /\ run'[n].at = s /\ run'[n].in = run[n].in
         /\ \A k \in Attempts : run'[k].at # "none" => run'[k].in \in Isolates
<1> DEFINE R == [at : {"none", "sent", "missed", "working", "over"},
                 in : Isolates \cup {SomeIsolate}]
           r == [run[n] EXCEPT !.at = s]
<1>1. run \in [Attempts -> R] /\ \A k \in Attempts : run[k].at # "none" => run[k].in \in Isolates
  BY DEF DeliveryInv, DeliveryTypes
<1>2. run[n] \in R
  BY <1>1
<1>3. r \in R /\ r.at = s /\ r.in = run[n].in
  BY <1>2
<1>4. run' = [run EXCEPT ![n] = r]
  BY DEF Stage
<1> HIDE DEF r
<1> QED
  BY <1>1, <1>3, <1>4

LEMMA ReplyOf ==
  ASSUME NEW n, NEW ok, Reply(n, ok)
  PROVE  Stage(n, "over") /\ UNCHANGED server
  BY Zenon DEF Reply

LEMMA FaultOf ==
  ASSUME DeliveryTypes, Fault
  PROVE  mishap' \in [faults : Nat, explained : BOOLEAN] /\ Explained'
<1>1. mishap.faults + 1 \in Nat
  BY DEF DeliveryTypes
<1>2. mishap' = [faults |-> mishap.faults + 1, explained |-> TRUE]
  BY Zenon DEF Fault
<1>3. mishap'.explained = TRUE
  BY <1>2, Zenon
<1>4. Explained'
  BY <1>3, Zenon DEF Explained
<1> QED
  BY <1>1, <1>2, <1>4

LEMMA ExplainOf ==
  ASSUME DeliveryTypes, NEW yes \in BOOLEAN, Explain(yes)
  PROVE  /\ mishap' \in [faults : Nat, explained : BOOLEAN]
         /\ Explained' <=> (Explained \/ yes)
<1> DEFINE e == mishap.explained \/ yes
<1>1. mishap \in [faults : Nat, explained : BOOLEAN] /\ e \in BOOLEAN
  BY DEF DeliveryTypes
<1>2. mishap' = [mishap EXCEPT !.explained = e]
  BY Zenon DEF Explain
<1> HIDE DEF e
<1>3. mishap' \in [faults : Nat, explained : BOOLEAN] /\ mishap'.explained = e
  BY <1>1, <1>2
<1> QED
  BY <1>3, Zenon DEF e, Explained

LEMMA NotExplaining == UNCHANGED mishap => (Explained' <=> Explained)
  BY DEF Explained

LEMMA DeliveryInitInv ==
  ASSUME NEW used \in BOOLEAN, DeliveryInit(used)
  PROVE  DeliveryInv
<1>1. DeliveryTypes
  BY DEF DeliveryInit, DeliveryTypes, SomeIsolate
<1>2. \A n \in Attempts : run[n].at = "none"
  BY DEF DeliveryInit
<1>3. done = 0
  BY DEF DeliveryInit
<1> QED
  BY <1>1, <1>2, <1>3 DEF DeliveryInv, Guarding, Taken, Served

LEMMA ClientKeeps ==
  ASSUME DeliveryInv, Attempt \/ TimeOut \/ HalfOpen
  PROVE  DeliveryInv'
<1>1. UNCHANGED <<server, marker, keys, done, mishap>>
  BY Zenon DEF Attempt, TimeOut, HalfOpen
<1>2. CASE UNCHANGED run
  BY <1>1, <1>2, NotExplaining DEF DeliveryInv, DeliveryTypes, Guarding, Taken, Served
<1>3. CASE ~ UNCHANGED run
  <2>1. PICK i \in Isolates :
          run' = [run EXCEPT ![retry.attempt + 1] = [at |-> "sent", in |-> i]]
    BY <1>3, Zenon DEF Attempt, TimeOut, HalfOpen
  <2>2. /\ run' \in [Attempts -> [at : {"none", "sent", "missed", "working", "over"},
                                  in : Isolates \cup {SomeIsolate}]]
        /\ \A n \in Attempts : run'[n] = run[n] \/ run'[n] = [at |-> "sent", in |-> i]
    BY <2>1 DEF DeliveryInv, DeliveryTypes
  <2>3. \A n \in Attempts : run'[n].at \in {"missed", "working"} => run'[n] = run[n]
    BY <2>2
  <2>4. DeliveryTypes'
    BY <1>1, <2>2 DEF DeliveryInv, DeliveryTypes
  <2>5. Guarding' /\ Served'
    BY <1>1, <2>3, NotExplaining DEF DeliveryInv, Guarding, Taken, Served
  <2> QED
    BY <2>4, <2>5 DEF DeliveryInv
<1> QED
  BY <1>2, <1>3

LEMMA GetMarkerKeeps ==
  ASSUME DeliveryInv, NEW n \in Attempts, GetMarker(n)
  PROVE  DeliveryInv'
<1>1. server = "guard" /\ run[n].at = "sent" /\ UNCHANGED <<server, marker, keys, done>>
  BY ReplyOf, Zenon DEF GetMarker
<1>2. CASE Stage(n, "over") /\ UNCHANGED mishap
  BY <1>1, <1>2, StageOf, NotExplaining DEF DeliveryInv, DeliveryTypes, Guarding, Taken, Served
<1>3. CASE Stage(n, "missed") /\ Fault
  <2>1. mishap' \in [faults : Nat, explained : BOOLEAN] /\ Explained'
    BY <1>3, FaultOf DEF DeliveryInv
  <2> QED
    BY <1>1, <1>3, <2>1, StageOf DEF DeliveryInv, DeliveryTypes, Guarding, Served
<1>4. CASE ~marker /\ Stage(n, "missed") /\ Explain(\E k \in Attempts : run[k].at = "missed")
  <2>1. /\ mishap' \in [faults : Nat, explained : BOOLEAN]
        /\ Explained' <=>
             (Explained \/ \E k \in Attempts : run[k].at = "missed")
    BY <1>4, ExplainOf DEF DeliveryInv
  <2>2. ~Explained' => done = 0 /\ \A k \in Attempts : ~Taken(k)
    BY <1>1, <1>4, <2>1 DEF DeliveryInv, Guarding, Taken
  <2> QED
    BY <1>1, <1>4, <2>1, <2>2, StageOf DEF DeliveryInv, DeliveryTypes, Guarding, Taken, Served
<1> QED
  BY <1>2, <1>3, <1>4, ReplyOf, Zenon DEF GetMarker

LEMMA SetMarkerKeeps ==
  ASSUME DeliveryInv, NEW n \in Attempts, SetMarker(n)
  PROVE  DeliveryInv'
<1>1. server = "guard" /\ run[n].at = "missed" /\ UNCHANGED <<server, keys, done>>
  BY DEF SetMarker
<1>2. Stage(n, "working")
  BY DEF SetMarker
<1>3. CASE marker' = TRUE /\ UNCHANGED mishap
  BY <1>1, <1>2, <1>3, StageOf, NotExplaining
     DEF DeliveryInv, DeliveryTypes, Guarding, Taken, Served
<1>4. CASE Fault /\ UNCHANGED marker
  <2>1. mishap' \in [faults : Nat, explained : BOOLEAN] /\ Explained'
    BY <1>4, FaultOf DEF DeliveryInv
  <2> QED
    BY <1>1, <1>2, <1>4, <2>1, StageOf DEF DeliveryInv, DeliveryTypes, Guarding, Served
<1> QED
  BY <1>3, <1>4 DEF SetMarker

LEMMA EnterKeeps ==
  ASSUME DeliveryInv, NEW n \in Attempts, Enter(n)
  PROVE  DeliveryInv'
<1>1. server = "wrapper" /\ run[n].at = "sent" /\ UNCHANGED <<server, marker, done>>
  BY ReplyOf, Zenon DEF Enter
<1>2. CASE Stage(n, "over") /\ UNCHANGED <<keys, mishap>>
  BY <1>1, <1>2, StageOf, NotExplaining DEF DeliveryInv, DeliveryTypes, Guarding, Taken, Served
<1>3. CASE /\ Stage(n, "working")
           /\ keys' = [keys EXCEPT ![run[n].in] = "in-flight"]
           /\ Explain(\E j \in Isolates : keys[j] # "none")
  <2>1. /\ mishap' \in [faults : Nat, explained : BOOLEAN]
        /\ Explained' <=> (Explained \/ \E j \in Isolates : keys[j] # "none")
    BY <1>3, ExplainOf DEF DeliveryInv
  <2>2. run[n].in \in Isolates
    BY <1>1 DEF DeliveryInv, DeliveryTypes
  <2>3. ~Explained' => done = 0 /\ \A k \in Attempts : ~Taken(k)
    <3>1. \A k \in Attempts : run[k].at = "working" => run[k].in \in Isolates
      BY DEF DeliveryInv, DeliveryTypes
    <3> QED
      BY <1>1, <2>1, <3>1 DEF DeliveryInv, Guarding, Taken, Served
  <2>4. keys' \in [Isolates -> {"none", "in-flight", "result"}]
        /\ keys'[run[n].in] = "in-flight"
    BY <1>3, <2>2 DEF DeliveryInv, DeliveryTypes
  <2> QED
    BY <1>1, <1>3, <2>1, <2>2, <2>3, <2>4, StageOf
       DEF DeliveryInv, DeliveryTypes, Guarding, Taken, Served
<1> QED
  BY <1>2, <1>3, ReplyOf, Zenon DEF Enter

\* Commit and RollBack: the one attempt past the check ends.
LEMMA EndKeeps ==
  ASSUME DeliveryInv, NEW n \in Attempts, Commit(n) \/ RollBack(n)
  PROVE  DeliveryInv'
<1>1. run[n].at = "working" /\ Stage(n, "over") /\ UNCHANGED <<server, marker>>
  BY ReplyOf, Zenon DEF Commit, RollBack
<1>2. server \in {"guard", "wrapper"} /\ run[n].in \in Isolates
  BY <1>1 DEF DeliveryInv, Served, DeliveryTypes
<1>3. /\ run' \in [Attempts -> [at : {"none", "sent", "missed", "working", "over"},
                                in : Isolates \cup {SomeIsolate}]]
      /\ \A k \in Attempts : k # n => run'[k] = run[k]
      /\ run'[n].at = "over" /\ run'[n].in = run[n].in
      /\ \A k \in Attempts : run'[k].at # "none" => run'[k].in \in Isolates
  BY <1>1, StageOf
<1>4. Served'
  BY <1>1, <1>3 DEF DeliveryInv, Served
<1>5. ASSUME Explained', done' \in Nat,
             mishap' \in [faults : Nat, explained : BOOLEAN],
             keys' \in [Isolates -> {"none", "in-flight", "result"}]
      PROVE  DeliveryInv'
  BY <1>1, <1>3, <1>4, <1>5 DEF DeliveryInv, DeliveryTypes, Guarding
<1>6. \A v \in {"none", "result"} : Store(n, v) =>
        /\ keys' \in [Isolates -> {"none", "in-flight", "result"}]
        /\ server = "wrapper" => keys'[run[n].in] = v
        /\ server # "wrapper" => keys' = keys
  BY <1>2 DEF Store, DeliveryInv, DeliveryTypes
<1>7. CASE done' = done + 1 /\ Store(n, "result") /\ UNCHANGED mishap
  <2>1. ~Explained => done = 0 /\ \A k \in Attempts : ~Taken(k)'
    BY <1>1, <1>3 DEF DeliveryInv, Guarding, Taken
  <2> QED
    BY <1>1, <1>2, <1>3, <1>4, <1>6, <1>7, <2>1, NotExplaining
       DEF DeliveryInv, DeliveryTypes, Guarding, Taken
<1>8. CASE done' = done + 1 /\ Store(n, "none") /\ Fault
  <2>1. mishap' \in [faults : Nat, explained : BOOLEAN] /\ Explained'
    BY <1>8, FaultOf DEF DeliveryInv
  <2> QED
    BY <1>5, <1>6, <1>8, <2>1 DEF DeliveryInv, DeliveryTypes
<1>9. CASE Store(n, "none") /\ UNCHANGED <<done, mishap>>
  <2>1. ~Explained => done = 0 /\ \A k \in Attempts : ~Taken(k)'
    BY <1>1, <1>3 DEF DeliveryInv, Guarding, Taken
  <2> QED
    BY <1>1, <1>2, <1>3, <1>4, <1>6, <1>9, <2>1, NotExplaining
       DEF DeliveryInv, DeliveryTypes, Guarding, Taken
<1> QED
  BY <1>7, <1>8, <1>9, Zenon DEF Commit, RollBack

LEMMA EvictKeeps ==
  ASSUME DeliveryInv, NEW i \in Isolates, Evict(i)
  PROVE  DeliveryInv'
<1>1. mishap' \in [faults : Nat, explained : BOOLEAN] /\ Explained'
  BY FaultOf DEF Evict, DeliveryInv
<1>2. /\ run' \in [Attempts -> [at : {"none", "sent", "missed", "working", "over"},
                                in : Isolates \cup {SomeIsolate}]]
      /\ \A n \in Attempts : /\ run'[n].in = run[n].in
                             /\ \/ run'[n].at = run[n].at
                                \/ run'[n].at = "over" /\ run[n].at # "none"
  BY DEF Evict, DeliveryInv, DeliveryTypes
<1>3. keys' \in [Isolates -> {"none", "in-flight", "result"}]
  BY DEF Evict, DeliveryInv, DeliveryTypes
<1> QED
  BY <1>1, <1>2, <1>3 DEF Evict, DeliveryInv, DeliveryTypes, Guarding, Served

LEMMA DeliveryStep ==
  ASSUME DeliveryInv, [Next]_vars
  PROVE  DeliveryInv'
<1>1. CASE UNCHANGED delivery
  BY <1>1, NotExplaining DEF delivery, DeliveryInv, DeliveryTypes, Guarding, Taken, Served
<1>2. CASE DeliveryNext
  BY <1>2, ClientKeeps, GetMarkerKeeps, SetMarkerKeeps, EnterKeeps, EndKeeps, EvictKeeps
     DEF DeliveryNext
<1>3. Next => DeliveryNext \/ UNCHANGED delivery
  BY Zenon DEF Next
<1>4. UNCHANGED vars => UNCHANGED delivery
  BY DEF vars
<1> QED
  BY <1>1, <1>2, <1>3, <1>4

\* However many retries, isolates and faults there are, and whatever the breaker does: the
\* operation is committed at most once, unless Redis or the connection failed, two attempts
\* read the marker before either set it, or another isolate, or an evicted one, took a retry
\* (idempotency.guard.ts:13, transaction.ts:42).
THEOREM CommittedOnce == Spec => []KeyedOnce
<1>1. Init => DeliveryInv
  BY DeliveryInitInv DEF Init
<1>2. DeliveryInv /\ [Next]_vars => DeliveryInv'
  BY DeliveryStep
<1>3. DeliveryInv => KeyedOnce
  <2>1. DeliveryInv /\ done > 1 => done # 0 /\ done # 1
    BY DEF DeliveryInv, DeliveryTypes
  <2> QED
    BY <2>1, Zenon DEF DeliveryInv, Guarding, KeyedOnce, Explained
<1> QED
  BY <1>1, <1>2, <1>3, PTL DEF Spec, TimerSpec

-----------------------------------------------------------------------------
(* The requests of the authentication front, and what happens to them.     *)

\* Stages, routes and what a request may bring as a token.
Words ==
  Routes \cup RpcRoutes \cup Answers \cup
  {"idle", "sent", "create", "succeed", "count", "verified", "admitted", "link", "look-up",
   "found", "issue", "answered", "find", "none", "access", "challenge"}

Seen == [failed : Nat, mfa : BOOLEAN, secret : Nat]
Requests == [at : Words, op : Words, here : BOOLEAN, refresh : Nat, token : Words,
             code : Nat, seen : Seen, earned : BOOLEAN, sets : Nat]
Rows == [there : BOOLEAN, active : BOOLEAN, failed : Nat, refresh : Nat,
         refreshLive : BOOLEAN, reset : Nat, resetLive : BOOLEAN, mfa : BOOLEAN,
         secret : Nat, google : BOOLEAN]

EdgeTypes ==
  /\ row \in Rows
  /\ minted \in [refresh : Nat, reset : Nat, secret : Nat]
  /\ jar \in [refresh : Nat, access : BOOLEAN]
  /\ call \in [Clients -> Requests]
  /\ crossed \subseteq Clients
  /\ challenge \in BOOLEAN /\ disturbed \in BOOLEAN /\ earned \in BOOLEAN
  /\ links \in [newest : Nat, used : SUBSET Nat, crossed : BOOLEAN]
  /\ got \in [Clients -> Answers \cup {"failed"}]

LEMMA WordsOf ==
  /\ Routes \subseteq Words /\ RpcRoutes \subseteq Words /\ Answers \subseteq Words
  /\ {"idle", "sent", "create", "succeed", "count", "verified", "admitted", "link", "look-up",
      "found", "issue", "answered", "find", "none", "access", "challenge",
      "reset"} \subseteq Words
  BY DEF Words, Routes, LinkRoutes

LEMMA SeenOf ==
  ASSUME NEW failed \in Nat, NEW mfa \in BOOLEAN, NEW secret \in Nat
  PROVE  /\ NothingSeen \in Seen
         /\ [NothingSeen EXCEPT !.mfa = mfa] \in Seen
         /\ [NothingSeen EXCEPT !.failed = failed] \in Seen
         /\ [NothingSeen EXCEPT !.secret = secret] \in Seen
         /\ [NothingSeen EXCEPT !.secret = secret].secret = secret
         /\ [NothingSeen EXCEPT !.mfa = mfa, !.secret = secret] \in Seen
<1>1. NothingSeen \in Seen
  BY DEF NothingSeen, Seen
<1> QED
  BY <1>1 DEF Seen

LEMMA NoCallOf ==
  /\ NoCall \in Requests
  /\ NoCall.at = "idle" /\ NoCall.op = "none"
<1>1. NothingSeen \in Seen /\ "idle" \in Words /\ "none" \in Words
  BY WordsOf DEF NothingSeen, Seen
<1>2. NoCall \in Requests
  BY <1>1 DEF NoCall, Requests
<1> QED
  BY <1>2 DEF NoCall

\* Nobody else's request is touched.
Only(c) ==
  /\ call' \in [Clients -> Requests]
  /\ \A d \in Clients \ {c} : call'[d] = call[d]

LEMMA BeginOf ==
  ASSUME EdgeTypes, NEW c \in Clients, NEW r \in Requests, Begin(c, r)
  PROVE  /\ Only(c)
         /\ call[c].at = "idle"
         /\ call'[c].at = "sent" /\ call'[c].op = r.op /\ call'[c].here = r.here
         /\ crossed' = IF Met(c, r.op) = {} THEN crossed ELSE crossed \cup {c} \cup Met(c, r.op)
         /\ crossed' \subseteq Clients
         /\ disturbed' \in BOOLEAN
         /\ disturbed' <=> (disturbed \/ (r.op \in SessionRoutes /\
                                             (~r.here \/ Met(c, r.op) # {})))
<1> DEFINE q == [r EXCEPT !.at = "sent"]
<1>1. "sent" \in Words
  BY WordsOf
<1>2. q \in Requests /\ q.at = "sent" /\ q.op = r.op /\ q.here = r.here
  BY <1>1 DEF Requests
<1>3. call' = [call EXCEPT ![c] = q]
  BY Zenon DEF Begin
<1> HIDE DEF q
<1>4. Only(c) /\ call'[c] = q
  BY <1>2, <1>3 DEF Only, EdgeTypes
<1>5. call[c].at = "idle"
  BY Zenon DEF Begin
<1>6. crossed' = IF Met(c, r.op) = {} THEN crossed ELSE crossed \cup {c} \cup Met(c, r.op)
  BY Zenon DEF Begin
<1>7. Met(c, r.op) \subseteq Clients /\ crossed \subseteq Clients
  BY DEF Met, EdgeTypes
<1>8. disturbed' = (disturbed \/ (r.op \in SessionRoutes /\ (~r.here \/ Met(c, r.op) # {})))
  BY Zenon DEF Begin
<1>9. crossed' \subseteq Clients
  BY <1>6, <1>7
<1>10. disturbed' \in BOOLEAN
  BY <1>8
<1> QED
  BY <1>2, <1>4, <1>5, <1>6, <1>8, <1>9, <1>10, Zenon

LEMMA GoOf ==
  ASSUME EdgeTypes, NEW c \in Clients, NEW at \in Words, Go(c, at)
  PROVE  /\ Only(c)
         /\ call'[c].at = at /\ call'[c].op = call[c].op /\ call'[c].here = call[c].here
         /\ call'[c].code = call[c].code
         /\ UNCHANGED <<jar, crossed, disturbed>>
  BY DEF Go, EdgeTypes, Requests, Only

LEMMA GoSeeingOf ==
  ASSUME EdgeTypes, NEW c \in Clients, NEW at \in Words, NEW seen \in Seen,
         GoSeeing(c, at, seen)
  PROVE  /\ Only(c)
         /\ call'[c].at = at /\ call'[c].op = call[c].op /\ call'[c].here = call[c].here
         /\ call'[c].code = call[c].code /\ call'[c].seen = seen
         /\ UNCHANGED <<jar, crossed, disturbed>>
  BY DEF GoSeeing, EdgeTypes, Requests, Only

LEMMA GoIssueOf ==
  ASSUME EdgeTypes, NEW c \in Clients, NEW e \in BOOLEAN, GoIssue(c, e)
  PROVE  /\ Only(c)
         /\ call'[c].at = "issue" /\ call'[c].op = call[c].op /\ call'[c].here = call[c].here
         /\ call'[c].earned = e
         /\ UNCHANGED <<jar, crossed, disturbed>>
<1> DEFINE r == [NoCall EXCEPT !.at = "issue", !.op = call[c].op,
                               !.here = call[c].here, !.earned = e]
<1>1. call[c].op \in Words /\ call[c].here \in BOOLEAN /\ "issue" \in Words
  BY WordsOf DEF EdgeTypes, Requests
<1>2. r \in Requests /\ r.at = "issue" /\ r.op = call[c].op /\ r.here = call[c].here
      /\ r.earned = e
  BY <1>1, NoCallOf DEF Requests
<1>3. call' = [call EXCEPT ![c] = r] /\ UNCHANGED <<jar, crossed, disturbed>>
  BY Zenon DEF GoIssue
<1> HIDE DEF r
<1> QED
  BY <1>2, <1>3 DEF Only, EdgeTypes

LEMMA EndOf ==
  ASSUME EdgeTypes, NEW c \in Clients, End(c)
  PROVE  /\ Only(c)
         /\ call'[c] = NoCall /\ call'[c].at = "idle" /\ call'[c].op = "none"
         /\ crossed' = crossed \ {c}
<1>1. call' = [call EXCEPT ![c] = NoCall] /\ crossed' = crossed \ {c}
  BY Zenon DEF End
<1> QED
  BY <1>1, NoCallOf DEF EdgeTypes, Only

LEMMA AnswerOf ==
  ASSUME NEW c, Answer(c)
  PROVE  End(c) /\ UNCHANGED <<jar, disturbed>>
  BY Zenon DEF Answer

LEMMA AnswerSettingOf ==
  ASSUME EdgeTypes, NEW c \in Clients, NEW t \in Nat, AnswerSetting(c, t)
  PROVE  /\ Only(c)
         /\ call'[c].at = "answered" /\ call'[c].op = call[c].op
         /\ call'[c].here = call[c].here /\ call'[c].sets = t
         /\ UNCHANGED <<jar, crossed, disturbed>>
<1> DEFINE r == [NoCall EXCEPT !.at = "answered", !.op = call[c].op,
                               !.here = call[c].here, !.sets = t]
<1>1. call[c].op \in Words /\ call[c].here \in BOOLEAN /\ "answered" \in Words
  BY WordsOf DEF EdgeTypes, Requests
<1>2. r \in Requests /\ r.at = "answered" /\ r.op = call[c].op /\ r.here = call[c].here
      /\ r.sets = t
  BY <1>1, NoCallOf DEF Requests
<1>3. call' = [call EXCEPT ![c] = r] /\ UNCHANGED <<jar, crossed, disturbed>>
  BY Zenon DEF AnswerSetting
<1> HIDE DEF r
<1> QED
  BY <1>2, <1>3 DEF Only, EdgeTypes

-----------------------------------------------------------------------------
(* What is kept of every request, and the kinds of steps.                  *)

\* A call of api-worker is sent or answered; only the session routes issue sessions and set
\* cookies; a session about to be issued is earned, and so is the one that is stored.
EdgeInv ==
  /\ EdgeTypes
  /\ earned = TRUE
  /\ \A c \in Clients :
       /\ call[c].op \in RpcRoutes => call[c].at \in {"sent", "find"} \cup Answers
       /\ call[c].op \notin RpcRoutes => call[c].at \notin {"find"} \cup Answers
       /\ call[c].at \in {"issue", "answered"} => call[c].op \in SessionRoutes
       /\ call[c].at = "issue" => call[c].earned = TRUE
       /\ call[c].at = "verified" => VerifyTotp(call[c].seen.secret, call[c].code)
       /\ call[c].at = "reset" => call[c].op = "reset"

\* The columns that say who is there and which tokens are stored.
SameKeys ==
  /\ row'.there = row.there
  /\ row'.refresh = row.refresh /\ row'.refreshLive = row.refreshLive
  /\ row'.reset = row.reset
  /\ minted'.refresh = minted.refresh /\ minted'.reset = minted.reset

\* A request begins.
Starts(c) ==
  /\ Only(c)
  /\ call[c].at = "idle"
  /\ call'[c].at = "sent" /\ call'[c].op \in Routes \cup RpcRoutes
  /\ crossed' = IF Met(c, call'[c].op) = {} THEN crossed
                ELSE crossed \cup {c} \cup Met(c, call'[c].op)
  /\ disturbed' <=> (disturbed \/ (call'[c].op \in SessionRoutes /\
                                      (~call'[c].here \/ Met(c, call'[c].op) # {})))
  /\ UNCHANGED <<row, minted, jar, earned, links, got>>

\* It goes on to its next stage, and the columns stay, or a user is created.
Fits(c) ==
  LET s == call'[c].at
  IN /\ s \notin {"idle", "answered"}
     /\ IF call[c].op \in RpcRoutes THEN s \in {"sent", "find"} \cup Answers
        ELSE s \notin {"find"} \cup Answers
     /\ s = "issue" => call[c].op \in SessionRoutes /\ call'[c].earned = TRUE
     /\ s = "verified" => VerifyTotp(call'[c].seen.secret, call'[c].code)
     /\ s = "reset" => /\ call[c].op = "reset" /\ row.there
                       /\ row.reset # 0 /\ call'[c].code = row.reset

Goes(c) ==
  /\ Only(c) /\ Fits(c)
  /\ call'[c].op = call[c].op /\ call'[c].here = call[c].here
  /\ call[c].at \notin {"idle", "answered"}
  /\ UNCHANGED <<jar, crossed, disturbed, earned, links, got>>

Creates(c) ==
  /\ Goes(c)
  /\ call[c].op \in SessionRoutes /\ call'[c].at # "reset"
  /\ ~row.there /\ row'.there
  /\ row'.refresh = 0 /\ ~row'.refreshLive /\ row'.reset = 0
  /\ UNCHANGED minted

\* It ends, and changes no cookie.
Leaves(c) ==
  /\ Only(c)
  /\ call'[c].at = "idle" /\ call'[c].op = "none"
  /\ crossed' = crossed \ {c}
  /\ SameKeys
  /\ call[c].at \notin {"idle", "answered"}
  /\ UNCHANGED <<jar, disturbed, earned, links>>

\* It stores another session, or none, and its answer sets the cookies.
Settles(c) ==
  /\ Only(c)
  /\ call'[c].at = "answered" /\ call[c].op \in SessionRoutes
  /\ call[c].at \notin {"idle", "answered"}
  /\ call'[c].op = call[c].op /\ call'[c].here = call[c].here
  /\ row.there /\ row'.there /\ row'.reset = row.reset /\ minted'.reset = minted.reset
  /\ call'[c].sets = row'.refresh
  /\ row'.refreshLive => row'.refresh # 0
  /\ earned' = TRUE
  /\ UNCHANGED <<jar, crossed, disturbed, links, got>>

\* Its answer arrives, or is lost.
Delivers(c) ==
  /\ Only(c)
  /\ call'[c].at = "idle" /\ call'[c].op = "none"
  /\ crossed' = crossed \ {c}
  /\ call[c].at = "answered"
  /\ \/ /\ jar'.refresh = IF call[c].here THEN call[c].sets ELSE jar.refresh
        /\ disturbed' <=> (disturbed /\ ~(call[c].here /\ c \notin crossed))
     \/ disturbed' /\ UNCHANGED jar
  /\ UNCHANGED <<row, minted, earned, links, got>>

\* It stores another reset link, or uses one.
Links(c) ==
  /\ Only(c)
  /\ call'[c].at = "idle" /\ call'[c].op = "none"
  /\ crossed' = crossed \ {c}
  /\ call[c].op \in LinkRoutes /\ call[c].at \notin {"idle", "answered"}
  /\ row.there /\ row'.there
  /\ row'.refresh = row.refresh /\ row'.refreshLive = row.refreshLive
  /\ \/ /\ row'.reset = minted.reset + 1 /\ minted'.reset = minted.reset + 1
        /\ links'.newest = minted.reset + 1 /\ links'.used = links.used
        /\ links'.crossed = (c \in crossed)
     \/ /\ call[c].at = "reset" /\ row'.reset = 0 /\ minted'.reset = minted.reset
        /\ links'.newest = links.newest /\ links'.used = links.used \cup {call[c].code}
        /\ links'.crossed = (links.crossed \/ c \in crossed)
  /\ UNCHANGED <<jar, disturbed, earned, got>>

\* Time passes, or the lock changes.
Passes ==
  /\ row'.there = row.there /\ row'.refresh = row.refresh /\ row'.reset = row.reset
  /\ \/ row'.refreshLive = row.refreshLive /\ jar'.refresh = jar.refresh
     \/ row.refreshLive /\ ~row'.refreshLive
  /\ UNCHANGED <<minted, call, crossed, disturbed, earned, links, got>>

KindOf(c) ==
  \/ Starts(c) \/ Creates(c) \/ Settles(c) \/ Delivers(c) \/ Links(c)
  \/ SameKeys /\ (Goes(c) \/ Leaves(c))

StepKind == Passes \/ \E c \in Clients : KindOf(c)

-----------------------------------------------------------------------------
(* Every action is of one of these kinds.                                  *)

LEMMA SameStore == UNCHANGED store => SameKeys /\ UNCHANGED <<row, minted>>
  BY DEF store, SameKeys

LEMMA LeavesIf ==
  ASSUME EdgeInv, NEW c \in Clients, Answer(c), SameKeys,
         call[c].at \notin {"idle", "answered"},
         row' \in Rows, minted' \in [refresh : Nat, reset : Nat, secret : Nat],
         challenge' \in BOOLEAN, UNCHANGED <<earned, links>>, UNCHANGED got
  PROVE  EdgeTypes' /\ Leaves(c)
<1>1. End(c) /\ UNCHANGED <<jar, disturbed>>
  BY AnswerOf
<1>2. Only(c) /\ call'[c].at = "idle" /\ call'[c].op = "none" /\ crossed' = crossed \ {c}
  BY <1>1, EndOf DEF EdgeInv
<1>3. Leaves(c)
  BY <1>1, <1>2, Zenon DEF Leaves
<1>4. EdgeTypes'
  BY <1>1, <1>2 DEF EdgeInv, EdgeTypes, Only
<1> QED
  BY <1>3, <1>4

Plain == {"create", "succeed", "count", "admitted", "link", "look-up", "found"}

LEMMA GoesIf ==
  ASSUME EdgeInv, NEW c \in Clients, NEW s \in Plain, NEW seen \in Seen,
         Go(c, s) \/ GoSeeing(c, s, seen),
         call[c].op \in Routes, call[c].at \notin {"idle", "answered"},
         row' \in Rows, minted' \in [refresh : Nat, reset : Nat, secret : Nat],
         UNCHANGED <<challenge, earned, links>>, UNCHANGED got
  PROVE  EdgeTypes' /\ Goes(c) /\ call'[c].at = s
<1>1. s \in Words
  BY WordsOf DEF Plain
<1>2. /\ Only(c)
      /\ call'[c].at = s /\ call'[c].op = call[c].op /\ call'[c].here = call[c].here
      /\ UNCHANGED <<jar, crossed, disturbed>>
  BY <1>1, GoOf, GoSeeingOf DEF EdgeInv
<1>3. Fits(c)
  BY <1>2 DEF Fits, Plain, Answers, Routes, Guarded, SessionRoutes, LinkRoutes, RpcRoutes
<1>4. Goes(c)
  BY <1>2, <1>3, Zenon DEF Goes
<1>5. EdgeTypes'
  BY <1>2 DEF EdgeInv, EdgeTypes, Only
<1> QED
  BY <1>2, <1>4, <1>5

LEMMA IssuesIf ==
  ASSUME EdgeInv, NEW c \in Clients, GoIssue(c, TRUE),
         call[c].op \in SessionRoutes, call[c].at \notin {"idle", "answered"},
         row' \in Rows, minted' \in [refresh : Nat, reset : Nat, secret : Nat],
         UNCHANGED <<challenge, earned, links>>, UNCHANGED got
  PROVE  EdgeTypes' /\ Goes(c) /\ call'[c].at = "issue"
<1>2. /\ Only(c)
      /\ call'[c].at = "issue" /\ call'[c].op = call[c].op /\ call'[c].here = call[c].here
      /\ call'[c].earned = TRUE
      /\ UNCHANGED <<jar, crossed, disturbed>>
  BY GoIssueOf DEF EdgeInv
<1>3. Fits(c)
  BY <1>2 DEF Fits, Answers, SessionRoutes, RpcRoutes
<1>4. Goes(c)
  BY <1>2, <1>3, Zenon DEF Goes
<1>5. EdgeTypes'
  BY <1>2 DEF EdgeInv, EdgeTypes, Only
<1> QED
  BY <1>2, <1>4, <1>5

LEMMA RegisterKind ==
  ASSUME EdgeInv, NEW c \in Clients, Register(c), UNCHANGED got
  PROVE  EdgeTypes' /\ SameKeys /\ (Goes(c) \/ Leaves(c))
<1>1. /\ call[c].op = "register" /\ call[c].at = "sent"
      /\ UNCHANGED store /\ UNCHANGED <<challenge, earned, links>>
      /\ Go(c, "create") \/ Answer(c)
  BY Zenon DEF Register, Running, KeepWorker
<1>2. /\ row' \in Rows /\ minted' \in [refresh : Nat, reset : Nat, secret : Nat]
      /\ challenge' \in BOOLEAN /\ SameKeys
  BY <1>1, SameStore DEF EdgeInv, EdgeTypes
<1>3. call[c].op \in Routes /\ call[c].at \notin {"idle", "answered"} /\ "create" \in Plain
  BY <1>1 DEF Routes, SessionRoutes, Plain
<1> QED
  BY <1>1, <1>2, <1>3, LeavesIf, GoesIf, SeenOf

LEMMA NewUserOf ==
  /\ NoUser \in Rows /\ NewUser \in Rows /\ [NewUser EXCEPT !.google = TRUE] \in Rows
  /\ NewUser.there = TRUE /\ NewUser.refresh = 0 /\ NewUser.refreshLive = FALSE
  /\ NewUser.reset = 0
  /\ [NewUser EXCEPT !.google = TRUE].there = TRUE
  /\ [NewUser EXCEPT !.google = TRUE].refresh = 0
  /\ [NewUser EXCEPT !.google = TRUE].refreshLive = FALSE
  /\ [NewUser EXCEPT !.google = TRUE].reset = 0
<1>1. NoUser \in Rows /\ NoUser.refresh = 0 /\ NoUser.refreshLive = FALSE /\ NoUser.reset = 0
  BY DEF NoUser, Rows
<1>2. /\ NewUser \in Rows /\ NewUser.there = TRUE
      /\ NewUser.refresh = 0 /\ NewUser.refreshLive = FALSE /\ NewUser.reset = 0
  BY <1>1 DEF NewUser, Rows
<1> QED
  BY <1>1, <1>2 DEF Rows

LEMMA CreateUserKind ==
  ASSUME EdgeInv, NEW c \in Clients, CreateUser(c), UNCHANGED got
  PROVE  EdgeTypes' /\ (Creates(c) \/ (SameKeys /\ Leaves(c)))
<1>1. /\ call[c].op = "register" /\ call[c].at = "create"
      /\ UNCHANGED <<minted, challenge, earned, links>>
      /\ \/ row.there /\ Answer(c) /\ UNCHANGED row
         \/ ~row.there /\ row' = NewUser /\ GoIssue(c, TRUE)
  BY Zenon DEF CreateUser, Create, Running, KeepWorker
<1>2. minted' \in [refresh : Nat, reset : Nat, secret : Nat] /\ challenge' \in BOOLEAN
  BY <1>1 DEF EdgeInv, EdgeTypes
<1>3. call[c].op \in SessionRoutes /\ call[c].at \notin {"idle", "answered"}
  BY <1>1 DEF SessionRoutes
<1>4. CASE row.there /\ Answer(c) /\ UNCHANGED row
  <2>1. row' \in Rows /\ SameKeys
    BY <1>1, <1>4 DEF EdgeInv, EdgeTypes, SameKeys
  <2> QED
    BY <1>1, <1>2, <1>3, <1>4, <2>1, LeavesIf
<1>5. CASE ~row.there /\ row' = NewUser /\ GoIssue(c, TRUE)
  <2>1. row' \in Rows
    BY <1>5, NewUserOf
  <2>2. EdgeTypes' /\ Goes(c) /\ call'[c].at = "issue"
    BY <1>1, <1>2, <1>3, <1>5, <2>1, IssuesIf
  <2>3. Creates(c)
    BY <1>1, <1>3, <1>5, <2>2, NewUserOf DEF Creates
  <2> QED
    BY <2>2, <2>3
<1> QED
  BY <1>1, <1>4, <1>5

LEMMA LoginKind ==
  ASSUME EdgeInv, NEW c \in Clients, Login(c), UNCHANGED got
  PROVE  EdgeTypes' /\ SameKeys /\ (Goes(c) \/ Leaves(c))
<1>1. /\ call[c].op = "login" /\ call[c].at = "sent"
      /\ UNCHANGED store /\ UNCHANGED <<challenge, earned, links>>
      /\ \/ GoSeeing(c, "succeed", [NothingSeen EXCEPT !.mfa = row.mfa])
         \/ GoSeeing(c, "count", [NothingSeen EXCEPT !.failed = row.failed])
         \/ Answer(c)
  BY Zenon DEF Login, Running, KeepWorker
<1>2. /\ row' \in Rows /\ minted' \in [refresh : Nat, reset : Nat, secret : Nat]
      /\ challenge' \in BOOLEAN /\ SameKeys
  BY <1>1, SameStore DEF EdgeInv, EdgeTypes
<1>3. /\ call[c].op \in Routes /\ call[c].at \notin {"idle", "answered"}
      /\ "succeed" \in Plain /\ "count" \in Plain
  BY <1>1 DEF Routes, SessionRoutes, Plain
<1>4. /\ [NothingSeen EXCEPT !.mfa = row.mfa] \in Seen
      /\ [NothingSeen EXCEPT !.failed = row.failed] \in Seen
  <2>1. row.mfa \in BOOLEAN /\ row.failed \in Nat /\ row.secret \in Nat
    BY DEF EdgeInv, EdgeTypes, Rows
  <2> QED
    BY <2>1, SeenOf, Zenon
<1> QED
  BY <1>1, <1>2, <1>3, <1>4, LeavesIf, GoesIf

LEMMA CountFailureKind ==
  ASSUME EdgeInv, NEW c \in Clients, CountFailure(c), UNCHANGED got
  PROVE  EdgeTypes' /\ SameKeys /\ Leaves(c)
<1> DEFINE attempts == call[c].seen.failed + 1
           active == row.active /\ attempts < MaxFailed
<1>1. /\ call[c].op = "login" /\ call[c].at = "count"
      /\ row' = [row EXCEPT !.failed = attempts, !.active = active]
      /\ Answer(c)
      /\ UNCHANGED <<minted, challenge, earned, links>>
  BY Zenon DEF CountFailure, Update, Running, KeepWorker
<1>2. attempts \in Nat /\ active \in BOOLEAN
  BY DEF EdgeInv, EdgeTypes, Requests, Seen, Rows
<1> HIDE DEF attempts, active
<1>3. /\ row' \in Rows /\ minted' \in [refresh : Nat, reset : Nat, secret : Nat]
      /\ challenge' \in BOOLEAN /\ SameKeys
  BY <1>1, <1>2 DEF EdgeInv, EdgeTypes, SameKeys, Rows
<1>4. call[c].at \notin {"idle", "answered"}
  BY <1>1
<1> QED
  BY <1>1, <1>3, <1>4, LeavesIf

LEMMA LoginSucceedsKind ==
  ASSUME EdgeInv, NEW c \in Clients, LoginSucceeds(c), UNCHANGED got
  PROVE  EdgeTypes' /\ SameKeys /\ (Goes(c) \/ Leaves(c))
<1>1. /\ call[c].op = "login" /\ call[c].at = "succeed"
      /\ row' = [row EXCEPT !.failed = 0]
      /\ UNCHANGED <<minted, earned, links>>
      /\ \/ challenge' = (challenge \/ call[c].here) /\ Answer(c)
         \/ ~call[c].seen.mfa /\ GoIssue(c, ~call[c].seen.mfa) /\ UNCHANGED challenge
  BY Zenon DEF LoginSucceeds, Update, Running
<1>2. /\ row' \in Rows /\ minted' \in [refresh : Nat, reset : Nat, secret : Nat]
      /\ SameKeys
  BY <1>1 DEF EdgeInv, EdgeTypes, SameKeys, Rows
<1>3. call[c].op \in SessionRoutes /\ call[c].at \notin {"idle", "answered"}
  BY <1>1 DEF SessionRoutes
<1>4. CASE challenge' = (challenge \/ call[c].here) /\ Answer(c)
  <2>1. challenge' \in BOOLEAN
    BY <1>4
  <2> QED
    BY <1>1, <1>2, <1>3, <1>4, <2>1, LeavesIf
<1>5. CASE ~call[c].seen.mfa /\ GoIssue(c, ~call[c].seen.mfa) /\ UNCHANGED challenge
  <2>1. (~call[c].seen.mfa) = TRUE
    BY <1>5, Zenon
  <2>2. GoIssue(c, TRUE)
    BY <1>5, <2>1, Zenon
  <2> QED
    BY <1>1, <1>2, <1>3, <1>5, <2>2, IssuesIf
<1> QED
  BY <1>1, <1>4, <1>5

LEMMA LoginMfaKind ==
  ASSUME EdgeInv, NEW c \in Clients, LoginMfa(c), UNCHANGED got
  PROVE  EdgeTypes' /\ SameKeys /\ (Goes(c) \/ Leaves(c))
<1> DEFINE seen == [NothingSeen EXCEPT !.secret = row.secret]
<1>1. /\ call[c].op = "login-mfa" /\ call[c].at = "sent"
      /\ UNCHANGED store /\ UNCHANGED <<challenge, earned, links>>
      /\ \/ VerifyTotp(row.secret, call[c].code) /\ GoSeeing(c, "verified", seen)
         \/ Answer(c)
  BY Zenon DEF LoginMfa, Running, KeepWorker
<1>2. /\ row' \in Rows /\ minted' \in [refresh : Nat, reset : Nat, secret : Nat]
      /\ challenge' \in BOOLEAN /\ SameKeys
  BY <1>1, SameStore DEF EdgeInv, EdgeTypes
<1>3. call[c].op \in Routes \ RpcRoutes /\ call[c].at \notin {"idle", "answered"}
  BY <1>1 DEF Routes, SessionRoutes, RpcRoutes
<1>4. CASE Answer(c)
  BY <1>1, <1>2, <1>3, <1>4, LeavesIf
<1>5. CASE VerifyTotp(row.secret, call[c].code) /\ GoSeeing(c, "verified", seen)
  <2>1. row.secret \in Nat
    BY DEF EdgeInv, EdgeTypes, Rows
  <2>2. seen \in Seen /\ seen.secret = row.secret
    BY <2>1, SeenOf DEF Seen
  <2> HIDE DEF seen
  <2>3. /\ Only(c)
        /\ call'[c].at = "verified" /\ call'[c].op = call[c].op /\ call'[c].here = call[c].here
        /\ call'[c].code = call[c].code /\ call'[c].seen = seen
        /\ UNCHANGED <<jar, crossed, disturbed>>
    BY <1>5, <2>2, WordsOf, GoSeeingOf DEF EdgeInv
  <2>4. VerifyTotp(call'[c].seen.secret, call'[c].code)
    BY <1>5, <2>2, <2>3, Zenon
  <2>5. Fits(c)
    BY <1>3, <2>3, <2>4 DEF Fits, Answers
  <2>6. Goes(c)
    BY <1>1, <1>3, <2>3, <2>5, Zenon DEF Goes
  <2>7. EdgeTypes'
    BY <1>1, <1>2, <2>3 DEF EdgeInv, EdgeTypes, Only
  <2> QED
    BY <1>2, <2>6, <2>7
<1> QED
  BY <1>1, <1>4, <1>5

LEMMA ClearFailuresKind ==
  ASSUME EdgeInv, NEW c \in Clients, ClearFailures(c), UNCHANGED got
  PROVE  EdgeTypes' /\ SameKeys /\ Goes(c)
<1>1. /\ call[c].op = "login-mfa" /\ call[c].at = "verified"
      /\ row' = [row EXCEPT !.failed = 0]
      /\ UNCHANGED <<minted, challenge, earned, links>>
      /\ GoIssue(c, VerifyTotp(call[c].seen.secret, call[c].code))
  BY Zenon DEF ClearFailures, Update, Running, KeepWorker
<1>2. /\ row' \in Rows /\ minted' \in [refresh : Nat, reset : Nat, secret : Nat]
      /\ SameKeys
  BY <1>1 DEF EdgeInv, EdgeTypes, SameKeys, Rows
<1>3. call[c].op \in SessionRoutes /\ call[c].at \notin {"idle", "answered"}
  BY <1>1 DEF SessionRoutes
<1>4. VerifyTotp(call[c].seen.secret, call[c].code) = TRUE
  BY <1>1 DEF EdgeInv, VerifyTotp
<1>5. GoIssue(c, TRUE)
  BY <1>1, <1>4, Zenon
<1> QED
  BY <1>1, <1>2, <1>3, <1>5, IssuesIf

LEMMA RefreshKind ==
  ASSUME EdgeInv, NEW c \in Clients, Refresh(c), UNCHANGED got
  PROVE  EdgeTypes' /\ SameKeys /\ (Goes(c) \/ Leaves(c))
<1>1. /\ call[c].op = "refresh" /\ call[c].at = "sent"
      /\ UNCHANGED store /\ UNCHANGED <<challenge, earned, links>>
      /\ GoIssue(c, earned) \/ Answer(c)
  BY Zenon DEF Refresh, Running, KeepWorker
<1>2. /\ row' \in Rows /\ minted' \in [refresh : Nat, reset : Nat, secret : Nat]
      /\ challenge' \in BOOLEAN /\ SameKeys
  BY <1>1, SameStore DEF EdgeInv, EdgeTypes
<1>3. call[c].op \in SessionRoutes /\ call[c].at \notin {"idle", "answered"}
  BY <1>1 DEF SessionRoutes
<1>4. GoIssue(c, earned) => GoIssue(c, TRUE)
  BY Zenon DEF EdgeInv
<1> QED
  BY <1>1, <1>2, <1>3, <1>4, IssuesIf, LeavesIf

\* IssueSession and Logout: the stored session and the cookies that the answer sets agree.
LEMMA SettlesIf ==
  ASSUME EdgeInv, NEW c \in Clients, NEW t \in Nat, NEW live \in BOOLEAN, live => t # 0,
         AnswerSetting(c, t), row.there,
         row' = [row EXCEPT !.refresh = t, !.refreshLive = live],
         minted' \in [refresh : Nat, reset : Nat, secret : Nat],
         minted'.reset = minted.reset,
         call[c].op \in SessionRoutes, call[c].at \notin {"idle", "answered"},
         earned' = TRUE, UNCHANGED <<challenge, links>>, UNCHANGED got
  PROVE  EdgeTypes' /\ Settles(c)
<1>1. /\ Only(c)
      /\ call'[c].at = "answered" /\ call'[c].op = call[c].op
      /\ call'[c].here = call[c].here /\ call'[c].sets = t
      /\ UNCHANGED <<jar, crossed, disturbed>>
  BY AnswerSettingOf DEF EdgeInv
<1>2. /\ row' \in Rows /\ row'.there = row.there /\ row'.reset = row.reset
      /\ row'.refresh = t /\ row'.refreshLive = live
  BY DEF EdgeInv, EdgeTypes, Rows
<1>3. Settles(c)
  BY <1>1, <1>2, Zenon DEF Settles
<1>4. EdgeTypes'
  BY <1>1, <1>2 DEF EdgeInv, EdgeTypes, Only
<1> QED
  BY <1>3, <1>4

LEMMA IssueSessionKind ==
  ASSUME EdgeInv, NEW c \in Clients, IssueSession(c), UNCHANGED got
  PROVE  EdgeTypes' /\ Settles(c)
<1> DEFINE t == minted.refresh + 1
<1>1. /\ call[c].at = "issue" /\ row.there
      /\ minted' = [minted EXCEPT !.refresh = t]
      /\ row' = [row EXCEPT !.refresh = t, !.refreshLive = TRUE]
      /\ earned' = call[c].earned /\ AnswerSetting(c, t)
      /\ UNCHANGED <<challenge, links>>
  BY Zenon DEF IssueSession, Draw, Update
<1>2. t \in Nat /\ t # 0
  BY DEF EdgeInv, EdgeTypes
<1> HIDE DEF t
<1>3. minted' \in [refresh : Nat, reset : Nat, secret : Nat] /\ minted'.reset = minted.reset
  BY <1>1, <1>2 DEF EdgeInv, EdgeTypes
<1>4. call[c].op \in SessionRoutes /\ call[c].at \notin {"idle", "answered"} /\ earned' = TRUE
  BY <1>1 DEF EdgeInv
<1> QED
  BY <1>1, <1>2, <1>3, <1>4, SettlesIf

LEMMA LogoutKind ==
  ASSUME EdgeInv, NEW c \in Clients, Logout(c), UNCHANGED got
  PROVE  EdgeTypes' /\ Settles(c)
<1>1. /\ call[c].op = "logout" /\ call[c].at = "admitted" /\ row.there
      /\ row' = [row EXCEPT !.refresh = 0, !.refreshLive = FALSE]
      /\ AnswerSetting(c, 0)
      /\ UNCHANGED <<minted, challenge, earned, links>>
  BY Zenon DEF Logout, Update, Running, KeepWorker
<1>2. /\ call[c].op \in SessionRoutes /\ call[c].at \notin {"idle", "answered"}
      /\ earned' = TRUE
      /\ minted' \in [refresh : Nat, reset : Nat, secret : Nat] /\ minted'.reset = minted.reset
  BY <1>1 DEF EdgeInv, EdgeTypes, SessionRoutes
<1> QED
  BY <1>1, <1>2, SettlesIf

LEMMA RequireAuthKind ==
  ASSUME EdgeInv, NEW c \in Clients, RequireAuth(c), UNCHANGED got
  PROVE  EdgeTypes' /\ SameKeys /\ (Goes(c) \/ Leaves(c))
<1> DEFINE seen == [NothingSeen EXCEPT !.mfa = row.mfa, !.secret = row.secret]
<1>1. /\ call[c].op \in Guarded /\ call[c].at = "sent"
      /\ UNCHANGED store /\ UNCHANGED <<challenge, earned, links>>
      /\ GoSeeing(c, "admitted", seen) \/ Answer(c)
  BY Zenon DEF RequireAuth, KeepWorker
<1>2. /\ row' \in Rows /\ minted' \in [refresh : Nat, reset : Nat, secret : Nat]
      /\ challenge' \in BOOLEAN /\ SameKeys
  BY <1>1, SameStore DEF EdgeInv, EdgeTypes
<1>3. /\ call[c].op \in Routes /\ call[c].at \notin {"idle", "answered"}
      /\ "admitted" \in Plain
  BY <1>1 DEF Routes, Plain
<1>4. seen \in Seen
  <2>1. row.mfa \in BOOLEAN /\ row.failed \in Nat /\ row.secret \in Nat
    BY DEF EdgeInv, EdgeTypes, Rows
  <2> QED
    BY <2>1, SeenOf, Zenon
<1> HIDE DEF seen
<1> QED
  BY <1>1, <1>2, <1>3, <1>4, LeavesIf, GoesIf

\* Profile, Setup, Enable and Disable.
LEMMA FactorKind ==
  ASSUME EdgeInv, NEW c \in Clients, UNCHANGED got,
         Profile(c) \/ Setup(c) \/ Enable(c) \/ Disable(c)
  PROVE  EdgeTypes' /\ SameKeys /\ Leaves(c)
<1> DEFINE s == minted.secret + 1
<1>1. /\ call[c].at = "admitted" /\ Answer(c) /\ UNCHANGED <<challenge, earned, links>>
      /\ \/ UNCHANGED <<row, minted>>
         \/ minted' = [minted EXCEPT !.secret = s] /\ row' = [row EXCEPT !.secret = s]
         \/ row' = [row EXCEPT !.mfa = TRUE] /\ UNCHANGED minted
         \/ row' = [row EXCEPT !.mfa = FALSE, !.secret = 0] /\ UNCHANGED minted
  BY Zenon DEF Profile, Setup, Enable, Disable, Update, Draw, Running, KeepWorker, store
<1>2. s \in Nat
  BY DEF EdgeInv, EdgeTypes
<1> HIDE DEF s
<1>3. /\ row' \in Rows /\ minted' \in [refresh : Nat, reset : Nat, secret : Nat]
      /\ challenge' \in BOOLEAN /\ SameKeys
  <2>1. CASE UNCHANGED <<row, minted>>
    BY <1>1, <2>1 DEF EdgeInv, EdgeTypes, SameKeys
  <2>2. CASE minted' = [minted EXCEPT !.secret = s] /\ row' = [row EXCEPT !.secret = s]
    BY <1>1, <1>2, <2>2 DEF EdgeInv, EdgeTypes, SameKeys, Rows
  <2>3. CASE row' = [row EXCEPT !.mfa = TRUE] /\ UNCHANGED minted
    BY <1>1, <2>3 DEF EdgeInv, EdgeTypes, SameKeys, Rows
  <2>4. CASE row' = [row EXCEPT !.mfa = FALSE, !.secret = 0] /\ UNCHANGED minted
    BY <1>1, <2>4 DEF EdgeInv, EdgeTypes, SameKeys, Rows
  <2> QED
    BY <1>1, <2>1, <2>2, <2>3, <2>4
<1>4. call[c].at \notin {"idle", "answered"}
  BY <1>1
<1> QED
  BY <1>1, <1>3, <1>4, LeavesIf

LEMMA ForgotPasswordKind ==
  ASSUME EdgeInv, NEW c \in Clients, ForgotPassword(c), UNCHANGED got
  PROVE  EdgeTypes' /\ SameKeys /\ (Goes(c) \/ Leaves(c))
<1>1. /\ call[c].op = "forgot" /\ call[c].at = "sent"
      /\ UNCHANGED store /\ UNCHANGED <<challenge, earned, links>>
      /\ Go(c, "link") \/ Answer(c)
  BY Zenon DEF ForgotPassword, Running, KeepWorker
<1>2. /\ row' \in Rows /\ minted' \in [refresh : Nat, reset : Nat, secret : Nat]
      /\ challenge' \in BOOLEAN /\ SameKeys
  BY <1>1, SameStore DEF EdgeInv, EdgeTypes
<1>3. call[c].op \in Routes /\ call[c].at \notin {"idle", "answered"} /\ "link" \in Plain
  BY <1>1 DEF Routes, LinkRoutes, Plain
<1> QED
  BY <1>1, <1>2, <1>3, LeavesIf, GoesIf, SeenOf

LEMMA StoreLinkKind ==
  ASSUME EdgeInv, NEW c \in Clients, StoreLink(c), UNCHANGED got
  PROVE  EdgeTypes' /\ Links(c)
<1> DEFINE t == minted.reset + 1
           x == c \in crossed
<1>1. /\ call[c].op = "forgot" /\ call[c].at = "link" /\ row.there
      /\ minted' = [minted EXCEPT !.reset = t]
      /\ row' = [row EXCEPT !.reset = t, !.resetLive = TRUE]
      /\ links' = [links EXCEPT !.newest = t, !.crossed = x]
      /\ Answer(c)
      /\ UNCHANGED <<challenge, earned>>
  BY Zenon DEF StoreLink, Update, Draw, Running
<1>2. t \in Nat /\ x \in BOOLEAN
  BY DEF EdgeInv, EdgeTypes
<1>3. End(c) /\ UNCHANGED <<jar, disturbed>>
  BY <1>1, AnswerOf
<1>4. Only(c) /\ call'[c].at = "idle" /\ call'[c].op = "none" /\ crossed' = crossed \ {c}
  BY <1>3, EndOf DEF EdgeInv
<1> HIDE DEF x
<1>5. /\ row' \in Rows /\ row'.there = row.there /\ row'.reset = t
      /\ row'.refresh = row.refresh /\ row'.refreshLive = row.refreshLive
      /\ minted' \in [refresh : Nat, reset : Nat, secret : Nat] /\ minted'.reset = t
  BY <1>1, <1>2 DEF EdgeInv, EdgeTypes, Rows
<1>6. /\ links' \in [newest : Nat, used : SUBSET Nat, crossed : BOOLEAN]
      /\ links'.newest = t /\ links'.used = links.used /\ links'.crossed = x
  BY <1>1, <1>2 DEF EdgeInv, EdgeTypes
<1>7. call[c].op \in LinkRoutes /\ call[c].at \notin {"idle", "answered"}
  BY <1>1 DEF LinkRoutes
<1>8. Links(c)
  BY <1>1, <1>3, <1>4, <1>5, <1>6, <1>7, Zenon DEF Links, x
<1>9. EdgeTypes'
  BY <1>1, <1>3, <1>4, <1>5, <1>6 DEF EdgeInv, EdgeTypes, Only
<1> QED
  BY <1>8, <1>9

LEMMA ResetPasswordKind ==
  ASSUME EdgeInv, NEW c \in Clients, ResetPassword(c), UNCHANGED got
  PROVE  EdgeTypes' /\ SameKeys /\ (Goes(c) \/ Leaves(c))
<1>1. /\ call[c].op = "reset" /\ call[c].at = "sent"
      /\ UNCHANGED store /\ UNCHANGED <<challenge, earned, links>>
      /\ \/ FindByResetHash(call[c].code) /\ Go(c, "reset")
         \/ Answer(c)
  BY Zenon DEF ResetPassword, Running, KeepWorker
<1>2. /\ row' \in Rows /\ minted' \in [refresh : Nat, reset : Nat, secret : Nat]
      /\ challenge' \in BOOLEAN /\ SameKeys
  BY <1>1, SameStore DEF EdgeInv, EdgeTypes
<1>3. call[c].op \in Routes \ RpcRoutes /\ call[c].at \notin {"idle", "answered"}
  BY <1>1 DEF Routes, LinkRoutes, RpcRoutes
<1>4. CASE Answer(c)
  BY <1>1, <1>2, <1>3, <1>4, LeavesIf
<1>5. CASE FindByResetHash(call[c].code) /\ Go(c, "reset")
  <2>1. row.there /\ row.reset # 0 /\ call[c].code = row.reset
    BY <1>5 DEF FindByResetHash
  <2>3. /\ Only(c)
        /\ call'[c].at = "reset" /\ call'[c].op = call[c].op /\ call'[c].here = call[c].here
        /\ call'[c].code = call[c].code
        /\ UNCHANGED <<jar, crossed, disturbed>>
    BY <1>5, WordsOf, GoOf DEF EdgeInv
  <2>5. Fits(c)
    BY <1>1, <1>3, <2>1, <2>3 DEF Fits, Answers
  <2>6. Goes(c)
    BY <1>1, <1>3, <2>3, <2>5, Zenon DEF Goes
  <2>7. EdgeTypes'
    BY <1>1, <1>2, <2>3 DEF EdgeInv, EdgeTypes, Only
  <2> QED
    BY <1>2, <2>6, <2>7
<1> QED
  BY <1>1, <1>4, <1>5

LEMMA StorePasswordKind ==
  ASSUME EdgeInv, NEW c \in Clients, StorePassword(c), UNCHANGED got
  PROVE  EdgeTypes' /\ Links(c)
<1> DEFINE u == links.used \cup {call[c].code}
           x == links.crossed \/ c \in crossed
<1>1. /\ call[c].op = "reset" /\ call[c].at = "reset" /\ row.there
      /\ row' = [row EXCEPT !.reset = 0, !.resetLive = FALSE, !.failed = 0, !.active = TRUE]
      /\ links' = [links EXCEPT !.used = u, !.crossed = x]
      /\ Answer(c)
      /\ UNCHANGED <<minted, challenge, earned>>
  BY Zenon DEF StorePassword, Update, Running
<1>2. u \in SUBSET Nat /\ x \in BOOLEAN
  BY DEF EdgeInv, EdgeTypes, Requests
<1>3. End(c) /\ UNCHANGED <<jar, disturbed>>
  BY <1>1, AnswerOf
<1>4. Only(c) /\ call'[c].at = "idle" /\ call'[c].op = "none" /\ crossed' = crossed \ {c}
  BY <1>3, EndOf DEF EdgeInv
<1> HIDE DEF u, x
<1>5. /\ row' \in Rows /\ row'.there = row.there /\ row'.reset = 0
      /\ row'.refresh = row.refresh /\ row'.refreshLive = row.refreshLive
      /\ minted' \in [refresh : Nat, reset : Nat, secret : Nat] /\ minted'.reset = minted.reset
  BY <1>1 DEF EdgeInv, EdgeTypes, Rows
<1>6. /\ links' \in [newest : Nat, used : SUBSET Nat, crossed : BOOLEAN]
      /\ links'.newest = links.newest /\ links'.used = u /\ links'.crossed = x
  BY <1>1, <1>2 DEF EdgeInv, EdgeTypes
<1>7. call[c].op \in LinkRoutes /\ call[c].at \notin {"idle", "answered"}
  BY <1>1 DEF LinkRoutes
<1>8. Links(c)
  BY <1>1, <1>3, <1>4, <1>5, <1>6, <1>7, Zenon DEF Links, u, x
<1>9. EdgeTypes'
  BY <1>1, <1>3, <1>4, <1>5, <1>6 DEF EdgeInv, EdgeTypes, Only
<1> QED
  BY <1>8, <1>9

LEMMA FindKind ==
  ASSUME EdgeInv, NEW c \in Clients, UNCHANGED got,
         FindLinked(c) \/ FindByEmail(c) \/ LinkAccount(c)
  PROVE  EdgeTypes' /\ SameKeys /\ Goes(c)
<1> DEFINE seen == [NothingSeen EXCEPT !.mfa = row.mfa]
<1>1. /\ call[c].op = "google" /\ call[c].at \in {"sent", "look-up", "link"}
      /\ UNCHANGED <<minted, challenge, earned, links>>
      /\ row' = row \/ row' = [row EXCEPT !.google = TRUE]
      /\ \/ GoSeeing(c, "found", seen) \/ Go(c, "look-up")
         \/ Go(c, IF row.there THEN "link" ELSE "create")
  BY Zenon DEF FindLinked, FindByEmail, LinkAccount, Found, Update, Running, KeepWorker, store
<1>2. /\ row' \in Rows /\ minted' \in [refresh : Nat, reset : Nat, secret : Nat] /\ SameKeys
  <2>1. CASE row' = row
    BY <1>1, <2>1 DEF EdgeInv, EdgeTypes, SameKeys
  <2>2. CASE row' = [row EXCEPT !.google = TRUE]
    BY <1>1, <2>2 DEF EdgeInv, EdgeTypes, SameKeys, Rows
  <2> QED
    BY <1>1, <2>1, <2>2
<1>3. call[c].op \in Routes /\ call[c].at \notin {"idle", "answered"}
  BY <1>1 DEF Routes, SessionRoutes
<1>4. /\ "found" \in Plain /\ "look-up" \in Plain
      /\ (IF row.there THEN "link" ELSE "create") \in Plain
  BY DEF Plain
<1>5. seen \in Seen
  <2>1. row.mfa \in BOOLEAN /\ row.failed \in Nat /\ row.secret \in Nat
    BY DEF EdgeInv, EdgeTypes, Rows
  <2> QED
    BY <2>1, SeenOf, Zenon
<1> HIDE DEF seen
<1>6. \E s \in Plain, k \in Seen : Go(c, s) \/ GoSeeing(c, s, k)
  BY <1>1, <1>4, <1>5, Zenon
<1> QED
  BY <1>1, <1>2, <1>3, <1>6, GoesIf

LEMMA CreateLinkedKind ==
  ASSUME EdgeInv, NEW c \in Clients, CreateLinked(c), UNCHANGED got
  PROVE  EdgeTypes' /\ (Creates(c) \/ (SameKeys /\ Leaves(c)))
<1> DEFINE user == [NewUser EXCEPT !.google = TRUE]
           seen == [NothingSeen EXCEPT !.mfa = user.mfa]
<1>1. /\ call[c].op = "google" /\ call[c].at = "create"
      /\ UNCHANGED <<minted, challenge, earned, links>>
      /\ \/ row.there /\ Answer(c) /\ UNCHANGED row
         \/ ~row.there /\ row' = user /\ GoSeeing(c, "found", seen)
  BY Zenon DEF CreateLinked, Create, Found, Running, KeepWorker
<1>2. minted' \in [refresh : Nat, reset : Nat, secret : Nat] /\ challenge' \in BOOLEAN
  BY <1>1 DEF EdgeInv, EdgeTypes
<1>3. /\ call[c].op \in SessionRoutes /\ call[c].op \in Routes
      /\ call[c].at \notin {"idle", "answered"} /\ "found" \in Plain
  BY <1>1 DEF SessionRoutes, Routes, Plain
<1>4. CASE row.there /\ Answer(c) /\ UNCHANGED row
  <2>1. row' \in Rows /\ SameKeys
    BY <1>1, <1>4 DEF EdgeInv, EdgeTypes, SameKeys
  <2> QED
    BY <1>1, <1>2, <1>3, <1>4, <2>1, LeavesIf
<1>5. CASE ~row.there /\ row' = user /\ GoSeeing(c, "found", seen)
  <2>1. /\ row' \in Rows
        /\ row'.there = TRUE /\ row'.refresh = 0 /\ row'.refreshLive = FALSE
        /\ row'.reset = 0
    BY <1>5, NewUserOf, Zenon
  <2>2. seen \in Seen
    <3>1. user.mfa \in BOOLEAN
      BY NewUserOf DEF Rows
    <3>2. 0 \in Nat
      OBVIOUS
    <3> QED
      BY <3>1, <3>2, SeenOf, Zenon
  <2> HIDE DEF seen, user
  <2>3. EdgeTypes' /\ Goes(c) /\ call'[c].at = "found"
    BY <1>1, <1>2, <1>3, <1>5, <2>1, <2>2, GoesIf
  <2>4. Creates(c)
    BY <1>1, <1>3, <1>5, <2>1, <2>3 DEF Creates
  <2> QED
    BY <2>3, <2>4
<1> QED
  BY <1>1, <1>4, <1>5

LEMMA AuthenticateKind ==
  ASSUME EdgeInv, NEW c \in Clients, Authenticate(c), UNCHANGED got
  PROVE  EdgeTypes' /\ SameKeys /\ (Goes(c) \/ Leaves(c))
<1>1. /\ call[c].op = "google" /\ call[c].at = "found"
      /\ UNCHANGED store /\ UNCHANGED <<earned, links>>
      /\ \/ challenge' = (challenge \/ call[c].here) /\ Answer(c)
         \/ ~call[c].seen.mfa /\ GoIssue(c, ~call[c].seen.mfa) /\ UNCHANGED challenge
  BY Zenon DEF Authenticate, Running
<1>2. /\ row' \in Rows /\ minted' \in [refresh : Nat, reset : Nat, secret : Nat]
      /\ SameKeys
  BY <1>1, SameStore DEF EdgeInv, EdgeTypes
<1>3. call[c].op \in SessionRoutes /\ call[c].at \notin {"idle", "answered"}
  BY <1>1 DEF SessionRoutes
<1>4. CASE challenge' = (challenge \/ call[c].here) /\ Answer(c)
  <2>1. challenge' \in BOOLEAN
    BY <1>4
  <2> QED
    BY <1>1, <1>2, <1>3, <1>4, <2>1, LeavesIf
<1>5. CASE ~call[c].seen.mfa /\ GoIssue(c, ~call[c].seen.mfa) /\ UNCHANGED challenge
  <2>1. (~call[c].seen.mfa) = TRUE
    BY <1>5, Zenon
  <2>2. GoIssue(c, TRUE)
    BY <1>5, <2>1, Zenon
  <2> QED
    BY <1>1, <1>2, <1>3, <1>5, <2>2, IssuesIf
<1> QED
  BY <1>1, <1>4, <1>5

\* Send, SendElsewhere and CallRpc.
LEMMA StartsIf ==
  ASSUME EdgeInv, NEW c \in Clients, NEW r \in Requests, Begin(c, r),
         r.op \in Routes \cup RpcRoutes,
         UNCHANGED store, UNCHANGED <<jar, challenge, earned, links>>, UNCHANGED got
  PROVE  EdgeTypes' /\ Starts(c) /\ call'[c].op = r.op
<1>1. /\ Only(c)
      /\ call[c].at = "idle"
      /\ call'[c].at = "sent" /\ call'[c].op = r.op /\ call'[c].here = r.here
      /\ crossed' = IF Met(c, r.op) = {} THEN crossed ELSE crossed \cup {c} \cup Met(c, r.op)
      /\ crossed' \subseteq Clients
      /\ disturbed' \in BOOLEAN
      /\ disturbed' <=> (disturbed \/ (r.op \in SessionRoutes /\
                                          (~r.here \/ Met(c, r.op) # {})))
  BY BeginOf DEF EdgeInv
<1>2. Starts(c)
  BY <1>1, SameStore DEF Starts
<1>3. EdgeTypes'
  BY <1>1, SameStore DEF EdgeInv, EdgeTypes, Only
<1> QED
  BY <1>1, <1>2, <1>3

LEMMA SendKind ==
  ASSUME EdgeInv, NEW c \in Clients, NEW op \in Routes, NEW code \in Nat,
         Send(c, op, code) \/ SendElsewhere(c, op, code),
         UNCHANGED <<worker, got>>
  PROVE  EdgeTypes' /\ Starts(c) /\ call'[c].op \in Routes
<1> DEFINE rt == IF op = "refresh" THEN jar.refresh ELSE 0
           tk == IF op \in Guarded THEN "access"
                 ELSE IF op = "login-mfa" THEN "challenge" ELSE "none"
           tk2 == IF op = "logout" THEN "access" ELSE "none"
           r1 == [NoCall EXCEPT !.op = op, !.here = TRUE, !.code = code,
                                !.refresh = rt, !.token = tk]
           r2 == [NoCall EXCEPT !.op = op, !.code = code, !.token = tk2]
<1>1. /\ UNCHANGED store /\ UNCHANGED <<jar, challenge>> /\ UNCHANGED worker
      /\ Begin(c, r1) \/ Begin(c, r2)
  BY Zenon DEF Send, SendElsewhere
<1>2. UNCHANGED <<earned, links>>
  BY DEF worker
<1>3. rt \in Nat
  BY DEF EdgeInv, EdgeTypes
<1>4. tk \in Words /\ tk2 \in Words /\ op \in Words
  BY WordsOf
<1> HIDE DEF rt, tk, tk2
<1>5. r1 \in Requests /\ r1.op = op
  BY <1>3, <1>4, NoCallOf DEF Requests
<1>6. r2 \in Requests /\ r2.op = op
  BY <1>3, <1>4, NoCallOf DEF Requests
<1> HIDE DEF r1, r2
<1> QED
  BY <1>1, <1>2, <1>5, <1>6, StartsIf

LEMMA CallRpcKind ==
  ASSUME EdgeInv, NEW c \in Clients, NEW op \in RpcRoutes, CallRpc(c, op)
  PROVE  EdgeTypes' /\ Starts(c) /\ call'[c].op \in RpcRoutes
<1> DEFINE tk == IF op = "validate-token" THEN "access" ELSE "none"
           r == [NoCall EXCEPT !.op = op, !.token = tk]
<1>1. /\ UNCHANGED store /\ UNCHANGED <<jar, challenge>> /\ UNCHANGED worker /\ UNCHANGED got
      /\ Begin(c, r)
  BY Zenon DEF CallRpc
<1>2. UNCHANGED <<earned, links>>
  BY <1>1 DEF worker
<1>4. tk \in Words /\ op \in Words
  BY WordsOf
<1> HIDE DEF tk
<1>5. r \in Requests /\ r.op = op
  BY <1>4, NoCallOf DEF Requests
<1> HIDE DEF r
<1> QED
  BY <1>1, <1>2, <1>5, StartsIf

LEMMA DeliverKind ==
  ASSUME EdgeInv, NEW c \in Clients, Deliver(c) \/ Lose(c), UNCHANGED <<worker, got>>
  PROVE  EdgeTypes' /\ Delivers(c)
<1>1. /\ call[c].at = "answered" /\ End(c) /\ UNCHANGED <<challenge, store>>
      /\ \/ /\ jar' = IF call[c].here THEN SetCookies(c) ELSE jar
            /\ disturbed' = (disturbed /\ ~(call[c].here /\ c \notin crossed))
         \/ disturbed' = TRUE /\ UNCHANGED jar
  BY Zenon DEF Deliver, Lose
<1>2. UNCHANGED <<earned, links>> /\ UNCHANGED <<row, minted>> /\ UNCHANGED challenge
  BY <1>1, SameStore DEF worker
<1>3. Only(c) /\ call'[c].at = "idle" /\ call'[c].op = "none" /\ crossed' = crossed \ {c}
  BY <1>1, EndOf DEF EdgeInv
<1>4. call[c].sets \in Nat /\ jar \in [refresh : Nat, access : BOOLEAN]
  BY DEF EdgeInv, EdgeTypes, Requests
<1>5. /\ SetCookies(c) \in [refresh : Nat, access : BOOLEAN]
      /\ SetCookies(c).refresh = call[c].sets
  BY <1>4 DEF SetCookies
<1>6. CASE /\ jar' = IF call[c].here THEN SetCookies(c) ELSE jar
           /\ disturbed' = (disturbed /\ ~(call[c].here /\ c \notin crossed))
  <2>1. /\ jar' \in [refresh : Nat, access : BOOLEAN]
        /\ jar'.refresh = IF call[c].here THEN call[c].sets ELSE jar.refresh
    BY <1>4, <1>5, <1>6
  <2>2. disturbed' \in BOOLEAN
    BY <1>6
  <2>3. Delivers(c)
    BY <1>1, <1>2, <1>3, <1>6, <2>1, Zenon DEF Delivers
  <2>4. EdgeTypes'
    BY <1>2, <1>3, <2>1, <2>2 DEF EdgeInv, EdgeTypes, Only
  <2> QED
    BY <2>3, <2>4
<1>7. CASE disturbed' = TRUE /\ UNCHANGED jar
  <2>3. Delivers(c)
    BY <1>1, <1>2, <1>3, <1>7, Zenon DEF Delivers
  <2>4. EdgeTypes'
    BY <1>2, <1>3, <1>7 DEF EdgeInv, EdgeTypes, Only
  <2> QED
    BY <2>3, <2>4
<1> QED
  BY <1>1, <1>6, <1>7

LEMMA FailKind ==
  ASSUME EdgeInv, NEW c \in Clients, Fail(c), UNCHANGED <<worker, got>>
  PROVE  EdgeTypes' /\ SameKeys /\ Leaves(c)
<1>1. /\ call[c].at \notin {"idle", "answered"} /\ Answer(c)
      /\ UNCHANGED store /\ UNCHANGED challenge
  BY Zenon DEF Fail
<1>2. UNCHANGED <<earned, links>>
  BY DEF worker
<1>3. /\ row' \in Rows /\ minted' \in [refresh : Nat, reset : Nat, secret : Nat]
      /\ challenge' \in BOOLEAN /\ SameKeys
  BY <1>1, SameStore DEF EdgeInv, EdgeTypes
<1> QED
  BY <1>1, <1>2, <1>3, LeavesIf

LEMMA PersonOf ==
  ASSUME NEW c \in Clients
  PROVE  Person(c) \in Answers
  BY DEF Person, Answers

\* VerifyToken and FindById.
LEMMA HandlerKind ==
  ASSUME EdgeInv, NEW c \in Clients, NEW s \in {"find"} \cup Answers, Go(c, s),
         call[c].op \in RpcRoutes, call[c].at \in {"sent", "find"},
         UNCHANGED store, UNCHANGED worker, UNCHANGED <<challenge, got>>
  PROVE  EdgeTypes' /\ SameKeys /\ Goes(c) /\ call'[c].at = s
<1>1. UNCHANGED <<earned, links>> /\ UNCHANGED <<row, minted>> /\ SameKeys
  BY SameStore DEF worker
<1>2. s \in Words
  BY WordsOf
<1>3. /\ Only(c)
      /\ call'[c].at = s /\ call'[c].op = call[c].op /\ call'[c].here = call[c].here
      /\ UNCHANGED <<jar, crossed, disturbed>>
  BY <1>2, GoOf DEF EdgeInv
<1>4. Fits(c)
  BY <1>3 DEF Fits, Answers
<1>5. Goes(c)
  BY <1>1, <1>3, <1>4 DEF Goes
<1>6. EdgeTypes'
  BY <1>1, <1>3 DEF EdgeInv, EdgeTypes, Only
<1> QED
  BY <1>1, <1>3, <1>5, <1>6

LEMMA VerifyTokenOf ==
  ASSUME NEW c \in Clients, VerifyToken(c)
  PROVE  /\ call[c].op = "validate-token" /\ call[c].op \in RpcRoutes /\ call[c].at = "sent"
         /\ \/ VerifyAccessToken(c) /\ Go(c, "find")
            \/ ~VerifyAccessToken(c) /\ Go(c, "invalid")
         /\ UNCHANGED store /\ UNCHANGED worker /\ UNCHANGED <<challenge, got>>
<1>1. call[c].op = "validate-token" /\ call[c].at = "sent"
  BY Zenon DEF VerifyToken, Running
<1>2. /\ \/ VerifyAccessToken(c) /\ Go(c, "find")
         \/ ~VerifyAccessToken(c) /\ Go(c, "invalid")
      /\ UNCHANGED store /\ UNCHANGED worker /\ UNCHANGED <<challenge, got>>
  BY Zenon DEF VerifyToken
<1> QED
  BY <1>1, <1>2 DEF RpcRoutes

LEMMA FindByIdOf ==
  ASSUME NEW c \in Clients, FindById(c)
  PROVE  /\ \/ call[c].op = "validate-token" /\ call[c].at = "find"
            \/ call[c].op = "get-user-profile" /\ call[c].at = "sent"
         /\ call[c].op \in RpcRoutes
         /\ Go(c, Person(c)) /\ Person(c) \in Answers
         /\ UNCHANGED store /\ UNCHANGED worker /\ UNCHANGED <<challenge, got>>
<1>1. \/ call[c].op = "validate-token" /\ call[c].at = "find"
      \/ call[c].op = "get-user-profile" /\ call[c].at = "sent"
  BY Zenon DEF FindById, Running
<1>2. /\ Go(c, Person(c))
      /\ UNCHANGED store /\ UNCHANGED worker /\ UNCHANGED <<challenge, got>>
  BY Zenon DEF FindById
<1> QED
  BY <1>1, <1>2, PersonOf DEF RpcRoutes

LEMMA AnswerRpcKind ==
  ASSUME EdgeInv, NEW c \in Clients, VerifyToken(c) \/ FindById(c)
  PROVE  EdgeTypes' /\ SameKeys /\ Goes(c)
<1>1. "find" \in {"find"} \cup Answers /\ "invalid" \in {"find"} \cup Answers
  BY DEF Answers
<1>2. CASE VerifyToken(c)
  BY <1>1, <1>2, VerifyTokenOf, HandlerKind
<1>3. CASE FindById(c)
  BY <1>3, FindByIdOf, HandlerKind
<1> QED
  BY <1>2, <1>3

\* The timer stops, and nothing else happens.
LEMMA WinRaceKind ==
  ASSUME EdgeInv, NEW c \in Clients, WinRace(c)
  PROVE  EdgeTypes' /\ Passes
<1>1. UNCHANGED browser /\ UNCHANGED store /\ UNCHANGED worker /\ UNCHANGED got
  BY Zenon DEF WinRace
<1>2. /\ UNCHANGED <<row, minted>> /\ UNCHANGED <<earned, links>>
      /\ UNCHANGED <<jar, challenge, call, crossed, disturbed, got>>
  BY <1>1 DEF browser, store, worker
<1> QED
  BY <1>2 DEF Passes, EdgeInv, EdgeTypes

LEMMA ReturnKind ==
  ASSUME EdgeInv, NEW c \in Clients, LoseRace(c) \/ ReadBody(c)
  PROVE  EdgeTypes' /\ SameKeys /\ Leaves(c)
<1>1. PICK outcome \in Answers \cup {"failed"} : Return(c, outcome)
  BY Zenon DEF LoseRace, ReadBody
<1>2. /\ got' = [got EXCEPT ![c] = outcome] /\ End(c)
      /\ UNCHANGED store /\ UNCHANGED worker /\ UNCHANGED <<jar, challenge, disturbed>>
  BY <1>1, Zenon DEF Return
<1>3. UNCHANGED <<earned, links>> /\ UNCHANGED <<row, minted>> /\ SameKeys
  BY <1>2, SameStore DEF worker
<1>4. Only(c) /\ call'[c].at = "idle" /\ call'[c].op = "none" /\ crossed' = crossed \ {c}
  BY <1>2, EndOf DEF EdgeInv
<1>5. call[c].at \notin {"idle", "answered"}
  BY DEF LoseRace, ReadBody, EdgeInv, Answers
<1>6. Leaves(c)
  BY <1>2, <1>3, <1>4, <1>5 DEF Leaves
<1>7. EdgeTypes'
  BY <1>2, <1>3, <1>4 DEF EdgeInv, EdgeTypes, Only
<1> QED
  BY <1>3, <1>6, <1>7

LEMMA TokenExpiresKind ==
  ASSUME EdgeInv, NEW c \in Clients, TokenExpires(c), UNCHANGED store, UNCHANGED <<worker, got>>
  PROVE  EdgeTypes' /\ SameKeys /\ Goes(c)
<1>1. /\ call[c].at \in {"sent", "find"}
      /\ call' = [call EXCEPT ![c].token = "none"]
      /\ UNCHANGED <<jar, challenge, crossed, disturbed>>
  BY Zenon DEF TokenExpires
<1>2. UNCHANGED <<earned, links>> /\ UNCHANGED <<row, minted>> /\ SameKeys /\ UNCHANGED got
  BY SameStore DEF worker
<1>3. "none" \in Words
  BY WordsOf
<1>4. /\ Only(c)
      /\ call'[c].at = call[c].at /\ call'[c].op = call[c].op /\ call'[c].here = call[c].here
  BY <1>1, <1>3 DEF EdgeInv, EdgeTypes, Requests, Only
<1>5. Fits(c)
  BY <1>1, <1>4 DEF Fits, EdgeInv, Answers
<1>6. Goes(c)
  BY <1>1, <1>2, <1>4, <1>5 DEF Goes
<1>7. EdgeTypes'
  BY <1>1, <1>2, <1>4 DEF EdgeInv, EdgeTypes, Only
<1> QED
  BY <1>2, <1>6, <1>7

LEMMA LapseKind ==
  ASSUME EdgeInv, UNCHANGED <<worker, got>>,
         \/ SessionLapses
         \/ ResetLapses /\ UNCHANGED browser
         \/ (AccessLapses \/ ChallengeExpires) /\ UNCHANGED store
  PROVE  EdgeTypes' /\ Passes
<1> DEFINE j1 == [jar EXCEPT !.refresh = 0]
           j2 == [jar EXCEPT !.access = FALSE]
<1>1. j1 \in [refresh : Nat, access : BOOLEAN]
  BY DEF EdgeInv, EdgeTypes
<1>2. j2 \in [refresh : Nat, access : BOOLEAN] /\ j2.refresh = jar.refresh
  BY DEF EdgeInv, EdgeTypes
<1>3. UNCHANGED <<earned, links>> /\ UNCHANGED got
  BY DEF worker
<1>4. CASE SessionLapses
  <2>1. /\ row.refreshLive /\ row' = [row EXCEPT !.refreshLive = FALSE]
        /\ jar' = j1 \/ jar' = jar
        /\ UNCHANGED <<minted, challenge, call, crossed, disturbed>>
    BY <1>4, Zenon DEF SessionLapses, RefreshLapses
  <2> HIDE DEF j1, j2
  <2>2. /\ row' \in Rows /\ row'.there = row.there /\ row'.refresh = row.refresh
        /\ row'.reset = row.reset /\ row'.refreshLive = FALSE
    BY <2>1 DEF EdgeInv, EdgeTypes, Rows
  <2>3. Passes
    BY <1>3, <2>1, <2>2 DEF Passes
  <2>4. EdgeTypes'
    BY <1>1, <1>3, <2>1, <2>2 DEF EdgeInv, EdgeTypes
  <2> QED
    BY <2>3, <2>4
<1>5. CASE ResetLapses /\ UNCHANGED browser
  <2>1. /\ row' = [row EXCEPT !.resetLive = FALSE]
        /\ UNCHANGED <<minted, jar, challenge, call, crossed, disturbed>>
    BY <1>5, Zenon DEF ResetLapses, browser
  <2> HIDE DEF j1, j2
  <2>2. /\ row' \in Rows /\ row'.there = row.there /\ row'.refresh = row.refresh
        /\ row'.reset = row.reset /\ row'.refreshLive = row.refreshLive
    BY <2>1 DEF EdgeInv, EdgeTypes, Rows
  <2>3. Passes
    BY <1>3, <2>1, <2>2 DEF Passes
  <2>4. EdgeTypes'
    BY <1>3, <2>1, <2>2 DEF EdgeInv, EdgeTypes
  <2> QED
    BY <2>3, <2>4
<1>6. CASE (AccessLapses \/ ChallengeExpires) /\ UNCHANGED store
  <2>1. /\ jar' = j2 \/ jar' = jar
        /\ challenge' = FALSE \/ challenge' = challenge
        /\ UNCHANGED <<call, crossed, disturbed>>
    BY <1>6, Zenon DEF AccessLapses, ChallengeExpires
  <2> HIDE DEF j1, j2
  <2>2. UNCHANGED <<row, minted>>
    BY <1>6, SameStore
  <2>3. Passes
    BY <1>2, <1>3, <2>1, <2>2 DEF Passes
  <2>4. EdgeTypes'
    BY <1>2, <1>3, <2>1, <2>2 DEF EdgeInv, EdgeTypes
  <2> QED
    BY <2>3, <2>4
<1> QED
  BY <1>4, <1>5, <1>6

LEMMA ToggleKind ==
  ASSUME EdgeInv, ToggleActive
  PROVE  EdgeTypes' /\ Passes
<1> DEFINE b == ~row.active
<1>1. /\ row' = [row EXCEPT !.active = b]
      /\ UNCHANGED <<minted, jar, challenge, call, crossed, disturbed, got>>
      /\ UNCHANGED worker
  BY Zenon DEF ToggleActive, Update
<1>2. b \in BOOLEAN
  OBVIOUS
<1> HIDE DEF b
<1>3. /\ row' \in Rows /\ row'.there = row.there /\ row'.refresh = row.refresh
      /\ row'.reset = row.reset /\ row'.refreshLive = row.refreshLive
  BY <1>1, <1>2 DEF EdgeInv, EdgeTypes, Rows
<1>4. UNCHANGED <<earned, links>>
  BY <1>1 DEF worker
<1> QED
  BY <1>1, <1>3, <1>4 DEF Passes, EdgeInv, EdgeTypes

LEMMA AuthKind ==
  ASSUME EdgeInv, NEW c \in Clients, AuthNext(c) \/ GoogleNext(c), UNCHANGED got
  PROVE  EdgeTypes' /\ KindOf(c)
<1>1. CASE \/ Register(c) \/ CreateUser(c) \/ Login(c) \/ CountFailure(c)
           \/ LoginSucceeds(c) \/ LoginMfa(c) \/ ClearFailures(c) \/ Refresh(c)
  <2>1. \/ Register(c) \/ Login(c) \/ CountFailure(c) \/ LoginSucceeds(c)
        => EdgeTypes' /\ SameKeys /\ (Goes(c) \/ Leaves(c))
    BY RegisterKind, LoginKind, CountFailureKind, LoginSucceedsKind, Zenon
  <2>2. \/ LoginMfa(c) \/ ClearFailures(c) \/ Refresh(c)
        => EdgeTypes' /\ SameKeys /\ (Goes(c) \/ Leaves(c))
    BY LoginMfaKind, ClearFailuresKind, RefreshKind, Zenon
  <2>3. CreateUser(c) => EdgeTypes' /\ (Creates(c) \/ (SameKeys /\ Leaves(c)))
    BY CreateUserKind, Zenon
  <2> QED
    BY <1>1, <2>1, <2>2, <2>3, Zenon DEF KindOf
<1>2. CASE \/ IssueSession(c) \/ RequireAuth(c) \/ Logout(c)
           \/ Profile(c) \/ Setup(c) \/ Enable(c) \/ Disable(c)
  BY <1>2, IssueSessionKind, RequireAuthKind, LogoutKind, FactorKind, Zenon DEF KindOf
<1>3. CASE ForgotPassword(c) \/ StoreLink(c) \/ ResetPassword(c) \/ StorePassword(c)
  BY <1>3, ForgotPasswordKind, StoreLinkKind, ResetPasswordKind, StorePasswordKind,
     Zenon DEF KindOf
<1>4. CASE GoogleNext(c)
  <2>1. \/ FindLinked(c) \/ FindByEmail(c) \/ LinkAccount(c) \/ Authenticate(c)
        => EdgeTypes' /\ SameKeys /\ (Goes(c) \/ Leaves(c))
    BY FindKind, AuthenticateKind, Zenon
  <2>2. CreateLinked(c) => EdgeTypes' /\ (Creates(c) \/ (SameKeys /\ Leaves(c)))
    BY CreateLinkedKind, Zenon
  <2> QED
    BY <1>4, <2>1, <2>2, Zenon DEF KindOf, GoogleNext
<1> QED
  BY <1>1, <1>2, <1>3, <1>4, Zenon DEF AuthNext

LEMMA KindOfStep ==
  ASSUME EdgeInv, AuthenticationNext
  PROVE  EdgeTypes' /\ StepKind
<1>1. ASSUME NEW c \in Clients, NEW op \in Routes, NEW code \in 0 .. MaxCalls,
             Send(c, op, code) \/ SendElsewhere(c, op, code), UNCHANGED <<worker, got>>
      PROVE  EdgeTypes' /\ StepKind
  <2>1. code \in Nat
    BY MaxCallsAssumption
  <2> QED
    BY <1>1, <2>1, SendKind DEF StepKind, KindOf
<1>2. ASSUME NEW c \in Clients, Deliver(c) \/ Lose(c) \/ Fail(c), UNCHANGED <<worker, got>>
      PROVE  EdgeTypes' /\ StepKind
  BY <1>2, DeliverKind, FailKind DEF StepKind, KindOf
<1>3. ASSUME NEW c \in Clients, AuthNext(c) \/ GoogleNext(c), UNCHANGED got
      PROVE  EdgeTypes' /\ StepKind
  BY <1>3, AuthKind DEF StepKind, KindOf
<1>4. ASSUME NEW c \in Clients, RpcNext(c)
      PROVE  EdgeTypes' /\ StepKind
  BY <1>4, CallRpcKind, AnswerRpcKind, WinRaceKind, ReturnKind,
     Zenon DEF StepKind, KindOf, RpcNext
<1>5. ASSUME NEW c \in Clients, TokenExpires(c), UNCHANGED store, UNCHANGED <<worker, got>>
      PROVE  EdgeTypes' /\ StepKind
  BY <1>5, TokenExpiresKind, Zenon DEF StepKind, KindOf
<1>6. ASSUME UNCHANGED <<worker, got>>,
             \/ SessionLapses
             \/ ResetLapses /\ UNCHANGED browser
             \/ (AccessLapses \/ ChallengeExpires) /\ UNCHANGED store
      PROVE  EdgeTypes' /\ StepKind
  BY <1>6, LapseKind, Zenon DEF StepKind, KindOf
<1>7. CASE ToggleActive
  BY <1>7, ToggleKind, Zenon DEF StepKind, KindOf
<1>8. ASSUME TimePasses
      PROVE  EdgeTypes' /\ StepKind
  <2>1. UNCHANGED <<worker, timers, got>>
    BY <1>8, Zenon DEF TimePasses
  <2>2. UNCHANGED <<worker, got>>
    BY <2>1
  <2> QED
    BY <1>5, <1>6, <1>8, <2>2, Zenon DEF TimePasses
<1>9. UNCHANGED <<worker, timers, got, lapses>> => UNCHANGED <<worker, got>>
  OBVIOUS
<1>10. UNCHANGED <<timers, got, lapses>> => UNCHANGED got
  OBVIOUS
<1> QED
  BY <1>1, <1>2, <1>3, <1>4, <1>7, <1>8, <1>9, <1>10, Zenon DEF AuthenticationNext

LEMMA UsersOf ==
  ASSUME NEW u \in {NoUser} \cup Users
  PROVE  /\ u \in Rows /\ u.reset = 0
         /\ u.refreshLive => u.refresh # 0
         /\ ~u.there => u.refresh = 0
<1>1. /\ NoUser \in Rows /\ NoUser.refreshLive = FALSE /\ NoUser.reset = 0
      /\ NoUser.refresh = 0
  BY NewUserOf DEF NoUser
<1>2. ASSUME NEW v \in Rows, v.reset = 0, v.there
      PROVE  /\ SignedIn(v) \in Rows /\ SignedIn(v).reset = 0 /\ SignedIn(v).refresh = 1
             /\ SignedIn(v).there
  BY <1>2 DEF SignedIn, Rows
<1> DEFINE v1 == [NewUser EXCEPT !.secret = 1]
           v2 == [NewUser EXCEPT !.secret = 1, !.mfa = TRUE]
<1>3. v1 \in Rows /\ v1.reset = 0 /\ v1.there
  BY NewUserOf DEF Rows
<1>4. v2 \in Rows /\ v2.reset = 0 /\ v2.there
  BY NewUserOf DEF Rows
<1>5. u = NoUser \/ u = SignedIn(NewUser) \/ u = SignedIn(v1) \/ u = SignedIn(v2)
  BY Zenon DEF Users
<1> HIDE DEF v1, v2
<1> QED
  BY <1>1, <1>2, <1>3, <1>4, <1>5, NewUserOf

LEMMA EdgeInitInv == Init => EdgeInv
<1> SUFFICES ASSUME Init
             PROVE  EdgeInv
  OBVIOUS
<1>1. row \in Rows
  BY UsersOf, Zenon DEF Init
<1>2. /\ minted = [refresh |-> row.refresh, reset |-> 0, secret |-> row.secret]
      /\ jar = [refresh |-> row.refresh, access |-> row.there]
      /\ challenge = FALSE /\ crossed = {} /\ disturbed = FALSE /\ earned = TRUE
      /\ call = [c \in Clients |-> NoCall]
      /\ links = [newest |-> 0, used |-> {}, crossed |-> FALSE]
      /\ got = [c \in Clients |-> "failed"]
  BY Zenon DEF Init
<1>3. /\ minted \in [refresh : Nat, reset : Nat, secret : Nat]
      /\ jar \in [refresh : Nat, access : BOOLEAN]
  BY <1>1, <1>2 DEF Rows
<1>4. /\ call \in [Clients -> Requests]
      /\ \A c \in Clients : call[c].at = "idle" /\ call[c].op = "none"
  BY <1>2, NoCallOf
<1>5. EdgeTypes
  BY <1>1, <1>2, <1>3, <1>4 DEF EdgeTypes
<1> QED
  BY <1>2, <1>4, <1>5 DEF EdgeInv, RpcRoutes, Answers

LEMMA EdgeKeeps ==
  ASSUME EdgeInv, EdgeTypes', StepKind
  PROVE  EdgeInv'
<1> DEFINE Fit(c) ==
             /\ call[c].op \in RpcRoutes => call[c].at \in {"sent", "find"} \cup Answers
             /\ call[c].op \notin RpcRoutes => call[c].at \notin {"find"} \cup Answers
             /\ call[c].at \in {"issue", "answered"} => call[c].op \in SessionRoutes
             /\ call[c].at = "issue" => call[c].earned = TRUE
             /\ call[c].at = "verified" => VerifyTotp(call[c].seen.secret, call[c].code)
             /\ call[c].at = "reset" => call[c].op = "reset"
<1>1. \A c \in Clients : Fit(c)
  BY DEF EdgeInv
<1>2. ASSUME NEW c \in Clients, Only(c), Fit(c)', earned' = TRUE
      PROVE  EdgeInv'
  <2>1. \A d \in Clients : Fit(d)'
    BY <1>1, <1>2 DEF Only, VerifyTotp
  <2> QED
    BY <1>2, <2>1 DEF EdgeInv
<1>3. ASSUME NEW c \in Clients, call'[c].at = "idle", call'[c].op = "none"
      PROVE  Fit(c)'
  BY <1>3 DEF RpcRoutes, Answers
<1>4. earned = TRUE
  BY DEF EdgeInv
<1>5. ASSUME NEW c \in Clients, Starts(c)
      PROVE  EdgeInv'
  <2>1. Fit(c)'
    BY <1>5 DEF Starts, Answers
  <2> QED
    BY <1>2, <1>4, <1>5, <2>1 DEF Starts
<1>6. ASSUME NEW c \in Clients, Goes(c)
      PROVE  EdgeInv'
  <2>1. Fit(c)'
    <3>1. (VerifyTotp(call[c].seen.secret, call[c].code))' <=>
            VerifyTotp(call'[c].seen.secret, call'[c].code)
      BY DEF VerifyTotp
    <3> QED
      BY <1>6, <3>1, Zenon DEF Goes, Fits
  <2> QED
    BY <1>2, <1>4, <1>6, <2>1 DEF Goes
<1>7. ASSUME NEW c \in Clients, Leaves(c) \/ Delivers(c) \/ Links(c)
      PROVE  EdgeInv'
  BY <1>2, <1>3, <1>4, <1>7 DEF Leaves, Delivers, Links
<1>8. ASSUME NEW c \in Clients, Settles(c)
      PROVE  EdgeInv'
  <2>1. Fit(c)'
    BY <1>8 DEF Settles, Answers, SessionRoutes, RpcRoutes
  <2> QED
    BY <1>2, <1>8, <2>1 DEF Settles
<1>9. CASE Passes
  BY <1>9 DEF Passes, EdgeInv, VerifyTotp
<1> QED
  BY <1>5, <1>6, <1>7, <1>8, <1>9, Zenon DEF StepKind, KindOf, Creates

\* What the invariants below speak of.
front == <<row, minted, jar, challenge, call, crossed, disturbed, earned, links, got>>

LEMMA EdgeFrame ==
  ASSUME [Next]_vars
  PROVE  AuthenticationNext \/ UNCHANGED front
<1>1. Next => AuthenticationNext \/ UNCHANGED auth
  BY Zenon DEF Next
<1>2. UNCHANGED vars => UNCHANGED auth
  BY DEF vars
<1>3. UNCHANGED auth => UNCHANGED front
  BY DEF auth, store, browser, worker, front
<1> QED
  BY <1>1, <1>2, <1>3

LEMMA EdgeStep ==
  ASSUME EdgeInv, [Next]_vars
  PROVE  EdgeInv'
<1>1. CASE AuthenticationNext
  BY <1>1, KindOfStep, EdgeKeeps
<1>2. CASE UNCHANGED front
  BY <1>2 DEF front, EdgeInv, EdgeTypes, VerifyTotp
<1> QED
  BY <1>1, <1>2, EdgeFrame

\* Every session that is stored, through any number of sign-ins, refreshes and concurrent
\* requests, goes back to a second factor or to a time when MFA was off (routes/auth.ts).
THEOREM SessionsAreEarned == Spec => []SecondFactor
<1>1. EdgeInv => SecondFactor
  BY DEF EdgeInv, SecondFactor
<1> QED
  BY <1>1, EdgeInitInv, EdgeStep, PTL DEF Spec, TimerSpec

-----------------------------------------------------------------------------
(* Requests that meet.                                                     *)

\* Of two requests of a family that are under way both are known to have crossed.
Crossing(F) ==
  \A c, d \in Clients :
    c # d /\ call[c].op \in F /\ call[d].op \in F => c \in crossed /\ d \in crossed

LEMMA FamilyOf ==
  ASSUME NEW F \in {SessionRoutes, LinkRoutes}
  PROVE  /\ "none" \notin F
         /\ \A op \in F : Family(op) = F
         /\ \A op : "none" \notin Family(op)
         /\ \A op : op \notin SessionRoutes => Family(op) \cap SessionRoutes = {}
<1>1. \A op \in SessionRoutes : op \notin LinkRoutes /\ op \notin FactorRoutes
  BY DEF SessionRoutes, LinkRoutes, FactorRoutes
<1>2. \A op \in LinkRoutes : op \notin SessionRoutes /\ op \notin FactorRoutes
  BY DEF SessionRoutes, LinkRoutes, FactorRoutes
<1>3. /\ \A op \in SessionRoutes : Family(op) = SessionRoutes
      /\ \A op \in LinkRoutes : Family(op) = LinkRoutes
  BY <1>1, <1>2 DEF Family
<1>4. "none" \notin SessionRoutes /\ "none" \notin LinkRoutes
  BY DEF SessionRoutes, LinkRoutes
<1>5. \A op : Family(op) \in {SessionRoutes, LinkRoutes, FactorRoutes, {}}
  BY DEF Family
<1>6. "none" \notin FactorRoutes
  BY DEF FactorRoutes
<1>7. \A op : op \notin SessionRoutes => Family(op) \in {LinkRoutes, FactorRoutes, {}}
  BY DEF Family
<1>8. \A op : op \notin SessionRoutes => Family(op) \cap SessionRoutes = {}
  BY <1>1, <1>7
<1> QED
  BY <1>3, <1>4, <1>5, <1>6, <1>8

LEMMA StartsCrossing ==
  ASSUME EdgeInv, NEW c \in Clients, Starts(c),
         NEW F \in {SessionRoutes, LinkRoutes}, call'[c].op \in F,
         NEW d \in Clients \ {c}, call[d].op \in F
  PROVE  d \in Met(c, call'[c].op) /\ c \in crossed' /\ d \in crossed'
<1>1. Family(call'[c].op) = F
  BY FamilyOf
<1>2. d \in Met(c, call'[c].op)
  BY <1>1 DEF Met
<1> QED
  BY <1>2 DEF Starts

LEMMA CrossingKeeps ==
  ASSUME EdgeInv, StepKind \/ UNCHANGED front,
         NEW F \in {SessionRoutes, LinkRoutes}, Crossing(F)
  PROVE  Crossing(F)'
<1>1. ASSUME NEW c \in Clients, Starts(c)
      PROVE  Crossing(F)'
  <2>1. /\ \A d \in Clients \ {c} : call'[d] = call[d]
        /\ crossed \subseteq crossed'
    BY <1>1 DEF Starts, Only
  <2>2. ASSUME NEW d \in Clients \ {c}, call'[c].op \in F, call[d].op \in F
        PROVE  c \in crossed' /\ d \in crossed'
    BY <1>1, <2>2, StartsCrossing
  <2> QED
    BY <2>1, <2>2 DEF Crossing
<1>2. ASSUME NEW c \in Clients, Goes(c) \/ Settles(c)
      PROVE  Crossing(F)'
  <2>1. /\ \A d \in Clients : call'[d].op = call[d].op
        /\ crossed' = crossed
    BY <1>2 DEF Goes, Settles, Only
  <2> QED
    BY <2>1 DEF Crossing
<1>3. ASSUME NEW c \in Clients, Leaves(c) \/ Delivers(c) \/ Links(c)
      PROVE  Crossing(F)'
  <2>1. /\ \A d \in Clients \ {c} : call'[d] = call[d]
        /\ call'[c].op = "none" /\ crossed' = crossed \ {c}
    BY <1>3 DEF Leaves, Delivers, Links, Only
  <2> QED
    BY <2>1, FamilyOf DEF Crossing
<1>4. CASE Passes \/ UNCHANGED front
  BY <1>4 DEF Passes, front, Crossing
<1> QED
  BY <1>1, <1>2, <1>3, <1>4, Zenon DEF StepKind, KindOf, Creates

-----------------------------------------------------------------------------
(* Reset links.                                                            *)

\* A reset under way that met no other brings the token that is stored.
LinksInv ==
  /\ Crossing(LinkRoutes)
  /\ row.reset <= minted.reset /\ links.newest <= minted.reset
  /\ \A u \in links.used : u <= minted.reset
  /\ ~row.there => links.newest = 0
  /\ \A c \in Clients : call[c].at = "reset" =>
        /\ row.there
        /\ call[c].code # 0 /\ call[c].code <= minted.reset
        /\ c \notin crossed => row.reset = call[c].code
  /\ LinksWorkOnce

LEMMA LinksInitInv == Init => LinksInv
<1> SUFFICES ASSUME Init
             PROVE  LinksInv
  OBVIOUS
<1>1. row.reset = 0
  BY UsersOf, Zenon DEF Init
<1>2. /\ minted = [refresh |-> row.refresh, reset |-> 0, secret |-> row.secret]
      /\ crossed = {}
      /\ call = [c \in Clients |-> NoCall]
      /\ links = [newest |-> 0, used |-> {}, crossed |-> FALSE]
  BY Zenon DEF Init
<1>3. \A c \in Clients : call[c].at = "idle" /\ call[c].op = "none"
  BY <1>2, NoCallOf
<1>4. Crossing(LinkRoutes)
  BY <1>3 DEF Crossing, LinkRoutes
<1> QED
  BY <1>1, <1>2, <1>3, <1>4 DEF LinksInv, LinksWorkOnce

LEMMA LinksKeep ==
  ASSUME EdgeInv, EdgeInv', LinksInv, StepKind \/ UNCHANGED front
  PROVE  LinksInv'
<1>1. Crossing(LinkRoutes)'
  BY CrossingKeeps DEF LinksInv
<1>2. \A c \in Clients : call[c].at = "reset" => call[c].op \in LinkRoutes
  BY DEF EdgeInv, LinkRoutes
<1>3. ASSUME NEW c \in Clients, Starts(c)
      PROVE  LinksInv'
  <2>1. UNCHANGED <<row, minted, links>> /\ crossed \subseteq crossed'
    BY <1>3 DEF Starts
  <2>2. \A d \in Clients : call'[d].at = "reset" => call'[d] = call[d]
    BY <1>3 DEF Starts, Only
  <2> QED
    BY <1>1, <2>1, <2>2 DEF LinksInv, LinksWorkOnce
<1>4. ASSUME NEW c \in Clients, Goes(c), SameKeys
      PROVE  LinksInv'
  <2>1. UNCHANGED <<links, crossed>> /\ row'.reset = row.reset /\ row'.there = row.there
        /\ minted'.reset = minted.reset
    BY <1>4 DEF Goes, SameKeys
  <2>2. \A d \in Clients \ {c} : call'[d] = call[d]
    BY <1>4 DEF Goes, Only
  <2>3. call'[c].at = "reset" => row.there /\ row.reset # 0 /\ call'[c].code = row.reset
    BY <1>4 DEF Goes, Fits
  <2> QED
    BY <1>1, <2>1, <2>2, <2>3 DEF LinksInv, LinksWorkOnce
<1>5. ASSUME NEW c \in Clients, Creates(c)
      PROVE  LinksInv'
  <2>1. UNCHANGED <<minted, links, crossed>> /\ row'.reset = 0 /\ ~row.there /\ row'.there
    BY <1>5 DEF Creates, Goes
  <2>2. \A d \in Clients \ {c} : call'[d] = call[d]
    BY <1>5 DEF Creates, Goes, Only
  <2>3. call'[c].at # "reset"
    BY <1>5 DEF Creates
  <2> QED
    BY <1>1, <2>1, <2>2, <2>3 DEF LinksInv, LinksWorkOnce
<1>6. ASSUME NEW c \in Clients, Leaves(c) \/ Delivers(c)
      PROVE  LinksInv'
  <2>1. /\ UNCHANGED links /\ crossed' = crossed \ {c}
        /\ row'.reset = row.reset /\ row'.there = row.there
        /\ minted'.reset = minted.reset
    BY <1>6 DEF Leaves, Delivers, SameKeys
  <2>2. \A d \in Clients \ {c} : call'[d] = call[d]
    BY <1>6 DEF Leaves, Delivers, Only
  <2>3. call'[c].at = "idle"
    BY <1>6 DEF Leaves, Delivers
  <2> QED
    BY <1>1, <2>1, <2>2, <2>3 DEF LinksInv, LinksWorkOnce
<1>7. ASSUME NEW c \in Clients, Settles(c)
      PROVE  LinksInv'
  <2>1. /\ UNCHANGED <<links, crossed>>
        /\ row'.reset = row.reset /\ row'.there = row.there
        /\ minted'.reset = minted.reset
    BY <1>7 DEF Settles, EdgeInv, EdgeTypes, Rows
  <2>2. \A d \in Clients \ {c} : call'[d] = call[d]
    BY <1>7 DEF Settles, Only
  <2>3. call'[c].at = "answered"
    BY <1>7 DEF Settles
  <2> QED
    BY <1>1, <2>1, <2>2, <2>3 DEF LinksInv, LinksWorkOnce
<1>8. ASSUME NEW c \in Clients, Links(c)
      PROVE  LinksInv'
  <2>1. /\ \A d \in Clients \ {c} : call'[d] = call[d]
        /\ call'[c].at = "idle" /\ call'[c].op = "none" /\ crossed' = crossed \ {c}
        /\ row.there /\ row'.there
    BY <1>8 DEF Links, Only
  <2>2. \A d \in Clients \ {c} : call[d].at = "reset" => c \in crossed /\ d \in crossed'
    BY <1>2, <1>8, <2>1 DEF Links, LinksInv, Crossing
  <2>3. /\ minted.reset \in Nat /\ links.newest \in Nat
        /\ \A u \in links.used : u \in Nat
    BY DEF EdgeInv, EdgeTypes
  <2>4. CASE /\ row'.reset = minted.reset + 1 /\ minted'.reset = minted.reset + 1
             /\ links'.newest = minted.reset + 1 /\ links'.used = links.used
    <3>1. links'.newest \notin links'.used
      BY <2>3, <2>4 DEF LinksInv
    <3>2. row'.reset <= minted'.reset /\ links'.newest <= minted'.reset
      BY <2>3, <2>4
    <3>3. \A u \in links'.used : u <= minted'.reset
      BY <2>3, <2>4 DEF LinksInv
    <3>4. \A d \in Clients : call'[d].at = "reset" =>
            /\ call'[d].code # 0 /\ call'[d].code <= minted'.reset
            /\ d \in crossed'
      <4>1. \A d \in Clients : call[d].code \in Nat
        BY DEF EdgeInv, EdgeTypes, Requests
      <4> QED
        BY <2>1, <2>2, <2>3, <2>4, <4>1 DEF LinksInv
    <3>5. LinksWorkOnce'
      BY <2>4, <3>1 DEF LinksWorkOnce
    <3> QED
      BY <1>1, <2>1, <3>2, <3>3, <3>4, <3>5 DEF LinksInv
  <2>5. CASE /\ call[c].at = "reset" /\ row'.reset = 0 /\ minted'.reset = minted.reset
             /\ links'.newest = links.newest /\ links'.used = links.used \cup {call[c].code}
             /\ links'.crossed = (links.crossed \/ c \in crossed)
    <3>1. /\ call[c].code # 0 /\ call[c].code <= minted.reset
          /\ c \notin crossed => row.reset = call[c].code
      BY <2>5 DEF LinksInv
    <3>2. links'.crossed <=> (links.crossed \/ c \in crossed)
      BY <2>5
    <3>3. LinksWorkOnce'
      BY <2>5, <3>1, <3>2 DEF LinksInv, LinksWorkOnce
    <3>4. \A u \in links'.used : u <= minted'.reset
      BY <2>5, <3>1 DEF LinksInv
    <3>5. row'.reset <= minted'.reset /\ links'.newest <= minted'.reset
      BY <2>3, <2>5 DEF LinksInv
    <3>6. \A d \in Clients : call'[d].at = "reset" =>
            /\ call'[d].code # 0 /\ call'[d].code <= minted'.reset
            /\ d \in crossed'
      BY <2>1, <2>2, <2>5 DEF LinksInv
    <3> QED
      BY <1>1, <2>1, <3>3, <3>4, <3>5, <3>6 DEF LinksInv
  <2> QED
    BY <1>8, <2>4, <2>5, Zenon DEF Links
<1>9. CASE Passes \/ UNCHANGED front
  <2>1. /\ UNCHANGED <<minted, call, crossed, links>>
        /\ row'.reset = row.reset /\ row'.there = row.there
    BY <1>9 DEF Passes, front
  <2> QED
    BY <1>1, <2>1 DEF LinksInv, LinksWorkOnce
<1> QED
  BY <1>3, <1>4, <1>5, <1>6, <1>7, <1>8, <1>9, Zenon DEF StepKind, KindOf

LEMMA LinksStep ==
  ASSUME EdgeInv /\ LinksInv, [Next]_vars
  PROVE  (EdgeInv /\ LinksInv)'
  BY EdgeStep, EdgeFrame, KindOfStep, LinksKeep

\* However requests for links and resets interleave with everything else: the reset token
\* handed out last works until it is used, and none works twice, unless such requests
\* crossed (routes/auth.ts, forgot-password and reset-password).
THEOREM ResetLinksWorkOnce == Spec => []LinksWorkOnce
<1>1. Init => EdgeInv /\ LinksInv
  BY EdgeInitInv, LinksInitInv
<1>2. (EdgeInv /\ LinksInv) /\ [Next]_vars => (EdgeInv /\ LinksInv)'
  BY LinksStep
<1>3. EdgeInv /\ LinksInv => LinksWorkOnce
  BY DEF LinksInv
<1> QED
  BY <1>1, <1>2, <1>3, PTL DEF Spec, TimerSpec

-----------------------------------------------------------------------------
(* Cookies.                                                                *)

\* While nothing has disturbed them, a request of the session routes is this browser's and
\* alone; an answer that met no other brings the stored token; and without an answer on its
\* way the cookie is the stored token.
JarInv ==
  /\ Crossing(SessionRoutes)
  /\ \A c \in Clients : call[c].at = "idle" => call[c].op = "none" /\ c \notin crossed
  /\ ~disturbed =>
       \A c \in Clients : call[c].op \in SessionRoutes => call[c].here /\ c \notin crossed
  /\ \A c \in Clients :
       call[c].at = "answered" /\ c \notin crossed => call[c].sets = row.refresh
  /\ row.refreshLive => row.refresh # 0
  /\ ~row.there => row.refresh = 0
  /\ ~disturbed /\ (row.refreshLive \/ row.refresh = 0)
        /\ (\A c \in Clients : call[c].at # "answered") =>
       jar.refresh = row.refresh

LEMMA JarInitInv == Init => JarInv
<1> SUFFICES ASSUME Init
             PROVE  JarInv
  OBVIOUS
<1>1. (row.refreshLive => row.refresh # 0) /\ (~row.there => row.refresh = 0)
  BY UsersOf, Zenon DEF Init
<1>2. /\ jar = [refresh |-> row.refresh, access |-> row.there]
      /\ crossed = {}
      /\ call = [c \in Clients |-> NoCall]
  BY Zenon DEF Init
<1>3. \A c \in Clients : call[c].at = "idle" /\ call[c].op = "none"
  BY <1>2, NoCallOf
<1>4. Crossing(SessionRoutes) /\ "none" \notin SessionRoutes
  BY <1>3 DEF Crossing, SessionRoutes
<1> QED
  BY <1>1, <1>2, <1>3, <1>4 DEF JarInv

LEMMA JarKeeps ==
  ASSUME EdgeInv, EdgeInv', JarInv, StepKind \/ UNCHANGED front
  PROVE  JarInv'
<1>1. Crossing(SessionRoutes)'
  BY CrossingKeeps DEF JarInv
<1>2. \A c \in Clients : call[c].at = "answered" => call[c].op \in SessionRoutes
  BY DEF EdgeInv
<1>3. ASSUME NEW c \in Clients, Starts(c)
      PROVE  JarInv'
  <2>1. /\ UNCHANGED <<row, jar>>
        /\ \A d \in Clients \ {c} : call'[d] = call[d]
        /\ call[c].at = "idle" /\ call'[c].at = "sent"
        /\ ~disturbed' => ~disturbed
    BY <1>3 DEF Starts, Only
  <2>2. ASSUME NEW d \in Clients, call'[d].at = "idle"
        PROVE  call'[d].op = "none" /\ d \notin crossed'
    <3>1. d # c /\ call[d].op = "none" /\ d \notin crossed
      BY <2>1, <2>2 DEF JarInv
    <3>2. d \notin Met(c, call'[c].op)
      BY <3>1, FamilyOf DEF Met
    <3> QED
      BY <1>3, <2>1, <3>1, <3>2 DEF Starts
  <2>3. ASSUME ~disturbed', NEW d \in Clients, call'[d].op \in SessionRoutes
        PROVE  call'[d].here /\ d \notin crossed'
    <3>1. CASE call'[c].op \in SessionRoutes
      <4>1. call'[c].here /\ Met(c, call'[c].op) = {} /\ crossed' = crossed
        BY <1>3, <2>3, <3>1 DEF Starts
      <4> QED
        BY <2>1, <2>3, <4>1 DEF JarInv
    <3>2. CASE call'[c].op \notin SessionRoutes
      <4>1. d # c /\ call[d].here /\ d \notin crossed
        BY <2>1, <2>3, <3>2 DEF JarInv
      <4>2. d \notin Met(c, call'[c].op)
        BY <2>1, <2>3, <3>2, <4>1, FamilyOf DEF Met
      <4> QED
        BY <1>3, <2>1, <4>1, <4>2 DEF Starts
    <3> QED
      BY <3>1, <3>2
  <2>4. crossed \subseteq crossed'
    BY <1>3 DEF Starts
  <2> QED
    BY <1>1, <2>1, <2>2, <2>3, <2>4 DEF JarInv
<1>4. ASSUME NEW c \in Clients, Goes(c), SameKeys
      PROVE  JarInv'
  <2>1. /\ UNCHANGED <<jar, crossed, disturbed>>
        /\ row'.refresh = row.refresh /\ row'.refreshLive = row.refreshLive
        /\ row'.there = row.there
        /\ call'[c].op = call[c].op /\ call'[c].here = call[c].here
        /\ call[c].at \notin {"idle", "answered"} /\ call'[c].at \notin {"idle", "answered"}
    BY <1>4 DEF Goes, SameKeys, Fits
  <2>2. \A d \in Clients \ {c} : call'[d] = call[d]
    BY <1>4 DEF Goes, Only
  <2> QED
    BY <1>1, <2>1, <2>2 DEF JarInv
<1>5. ASSUME NEW c \in Clients, Creates(c)
      PROVE  JarInv'
  <2>1. /\ UNCHANGED <<jar, crossed, disturbed>>
        /\ ~row.there /\ row'.there /\ row'.refresh = 0 /\ ~row'.refreshLive
        /\ call[c].op \in SessionRoutes
        /\ call'[c].op = call[c].op /\ call'[c].here = call[c].here
        /\ call[c].at \notin {"idle", "answered"} /\ call'[c].at \notin {"idle", "answered"}
    BY <1>5 DEF Creates, Goes, Fits
  <2>2. \A d \in Clients \ {c} : call'[d] = call[d]
    BY <1>5 DEF Creates, Goes, Only
  <2>3. row.refresh = 0
    BY <2>1 DEF JarInv
  <2> QED
    BY <1>1, <2>1, <2>2, <2>3 DEF JarInv
<1>6. ASSUME NEW c \in Clients, Leaves(c) \/ Links(c)
      PROVE  JarInv'
  <2>1. /\ UNCHANGED <<jar, disturbed>> /\ crossed' = crossed \ {c}
        /\ row'.refresh = row.refresh /\ row'.refreshLive = row.refreshLive
        /\ ~row'.there => ~row.there
        /\ call'[c].at = "idle" /\ call'[c].op = "none"
        /\ call[c].at # "answered"
    BY <1>6 DEF Leaves, Links, SameKeys
  <2>2. \A d \in Clients \ {c} : call'[d] = call[d]
    BY <1>6 DEF Leaves, Links, Only
  <2> QED
    BY <1>1, <2>1, <2>2, FamilyOf DEF JarInv
<1>7. ASSUME NEW c \in Clients, Settles(c)
      PROVE  JarInv'
  <2>1. /\ UNCHANGED <<jar, crossed, disturbed>>
        /\ row'.there /\ (row'.refreshLive => row'.refresh # 0)
        /\ call[c].op \in SessionRoutes
        /\ call'[c].op = call[c].op /\ call'[c].here = call[c].here
        /\ call'[c].at = "answered" /\ call'[c].sets = row'.refresh
    BY <1>7 DEF Settles
  <2>2. \A d \in Clients \ {c} : call'[d] = call[d]
    BY <1>7 DEF Settles, Only
  <2>3. ASSUME NEW d \in Clients, call'[d].at = "answered", d \notin crossed'
        PROVE  call'[d].sets = row'.refresh
    BY <1>2, <2>1, <2>2, <2>3 DEF JarInv, Crossing
  <2>4. row'.there /\ (row'.refreshLive => row'.refresh # 0)
    BY <1>7 DEF Settles
  <2> QED
    BY <1>1, <2>1, <2>2, <2>3, <2>4 DEF JarInv
<1>8. ASSUME NEW c \in Clients, Delivers(c)
      PROVE  JarInv'
  <2>1. /\ UNCHANGED row /\ crossed' = crossed \ {c}
        /\ call'[c].at = "idle" /\ call'[c].op = "none"
        /\ call[c].at = "answered" /\ call[c].op \in SessionRoutes
        /\ \A d \in Clients \ {c} : call'[d] = call[d]
    BY <1>2, <1>8 DEF Delivers, Only
  <2>2. ASSUME ~disturbed'
        PROVE  /\ \A d \in Clients : call'[d].op \notin SessionRoutes
               /\ jar'.refresh = row'.refresh
    <3>1. call[c].here /\ c \notin crossed
      BY <1>8, <2>1, <2>2 DEF Delivers, JarInv
    <3>2. jar'.refresh = call[c].sets
      BY <1>8, <2>2, <3>1 DEF Delivers
    <3>3. jar'.refresh = row'.refresh
      BY <2>1, <3>1, <3>2 DEF JarInv
    <3>4. \A d \in Clients : call'[d].op \notin SessionRoutes
      BY <2>1, <3>1, FamilyOf DEF JarInv, Crossing
    <3> QED
      BY <3>3, <3>4
  <2> QED
    BY <1>1, <2>1, <2>2 DEF JarInv
<1>9. CASE Passes \/ UNCHANGED front
  <2>1. /\ UNCHANGED <<call, crossed, disturbed>>
        /\ row'.refresh = row.refresh /\ row'.there = row.there
        /\ \/ row'.refreshLive = row.refreshLive /\ jar'.refresh = jar.refresh
           \/ row.refreshLive /\ ~row'.refreshLive
    BY <1>9 DEF Passes, front
  <2> QED
    BY <1>1, <2>1 DEF JarInv
<1> QED
  BY <1>3, <1>4, <1>5, <1>6, <1>7, <1>8, <1>9, Zenon DEF StepKind, KindOf

LEMMA JarStep ==
  ASSUME EdgeInv /\ JarInv, [Next]_vars
  PROVE  (EdgeInv /\ JarInv)'
  BY EdgeStep, EdgeFrame, KindOfStep, JarKeeps

\* For any number of tabs and requests, and cookies that lapse at any moment: with nothing
\* under way the browser holds the stored refresh token, unless an answer was lost, requests
\* that set cookies crossed or another device made one, and no later request put an end to
\* that (routes/auth.ts).
THEOREM CookiesCurrent == Spec => []JarCurrent
<1>1. Init => EdgeInv /\ JarInv
  BY EdgeInitInv, JarInitInv
<1>2. (EdgeInv /\ JarInv) /\ [Next]_vars => (EdgeInv /\ JarInv)'
  BY JarStep
<1>3. EdgeInv /\ JarInv => JarCurrent
  BY DEF JarInv, JarCurrent, Quiet
<1> QED
  BY <1>1, <1>2, <1>3, PTL DEF Spec, TimerSpec

-----------------------------------------------------------------------------
(* The calls of api-worker implement TokenLookup.                          *)

SameAsks == \A c \in Clients : Asked(c)' = Asked(c)

LEMMA SameCallsAsk ==
  ASSUME EdgeInv, NEW c \in Clients, Only(c),
         call[c].op \notin RpcRoutes, call'[c].op \notin RpcRoutes
  PROVE  SameAsks
  BY DEF SameAsks, Asked, Asks, Running, Only

LEMMA AuthRoutes ==
  ASSUME EdgeInv, NEW c \in Clients, AuthNext(c) \/ GoogleNext(c)
  PROVE  call[c].op \notin RpcRoutes /\ call[c].at # "idle"
<1> DEFINE names == {"register", "login", "login-mfa", "refresh", "logout", "profile", "setup",
                     "enable", "disable", "forgot", "reset", "google"}
           stages == {"sent", "create", "succeed", "count", "verified", "admitted", "link",
                      "look-up", "found", "issue", "reset"}
<1>1. \/ call[c].at = "issue" \/ call[c].op \in Guarded
      \/ \E op \in names : call[c].op = op
  BY Zenon DEF AuthNext, GoogleNext, Register, CreateUser, Login, CountFailure,
     LoginSucceeds, LoginMfa, ClearFailures, Refresh, IssueSession, RequireAuth, Logout,
     Profile, Setup, Enable, Disable, ForgotPassword, StoreLink, ResetPassword,
     StorePassword, FindLinked, FindByEmail, LinkAccount, CreateLinked, Authenticate, Running
<1>2. call[c].at = "issue" => call[c].op \in SessionRoutes
  BY DEF EdgeInv
<1>3. \E at \in stages : call[c].at = at
  BY Zenon DEF AuthNext, GoogleNext, Register, CreateUser, Login, CountFailure,
     LoginSucceeds, LoginMfa, ClearFailures, Refresh, IssueSession, RequireAuth, Logout,
     Profile, Setup, Enable, Disable, ForgotPassword, StoreLink, ResetPassword,
     StorePassword, FindLinked, FindByEmail, LinkAccount, CreateLinked, Authenticate, Running
<1> QED
  BY <1>1, <1>2, <1>3 DEF RpcRoutes, Guarded, SessionRoutes

\* A step that is none of such a call leaves all of them as they are.
LEMMA OthersAsk ==
  ASSUME EdgeInv, NEW c \in Clients, KindOf(c),
         call[c].op \notin RpcRoutes, call'[c].op \notin RpcRoutes
  PROVE  SameAsks
<1>1. Only(c)
  BY Zenon DEF KindOf, Starts, Creates, Settles, Delivers, Links, Goes, Leaves
<1> QED
  BY <1>1, SameCallsAsk

LEMMA KeptRoute ==
  ASSUME NEW c \in Clients, KindOf(c), ~Starts(c)
  PROVE  call'[c].op = call[c].op \/ call'[c].op = "none"
  BY Zenon DEF KindOf, Creates, Settles, Delivers, Links, Goes, Leaves

LEMMA OutsideStays ==
  /\ [c \in Clients |-> VerifyAccessToken(c)]' \in [Clients -> BOOLEAN]
  /\ [c \in Clients |-> Person(c)]' \in [Clients -> Answers]
<1>1. \A c \in Clients : Person(c)' \in Answers
  BY DEF Person, Answers
<1>2. \A c \in Clients : VerifyAccessToken(c)' \in BOOLEAN
  BY DEF VerifyAccessToken
<1> QED
  BY <1>1, <1>2

LEMMA LookupStays ==
  ASSUME UNCHANGED got, SameAsks
  PROVE  Lookup!LookupNext
<1>1. [c \in Clients |-> Asked(c)]' = [c \in Clients |-> Asked(c)]
  BY DEF SameAsks
<1> QED
  BY <1>1, OutsideStays, Zenon DEF Lookup!LookupNext

LEMMA LookupStepIf ==
  ASSUME NEW c \in Clients,
         \A d \in Clients \ {c} : Asked(d)' = Asked(d),
         \/ Asked(c) = "idle" /\ Asked(c)' \in {"token", "person"} /\ UNCHANGED got
         \/ /\ Asked(c) = "token" /\ UNCHANGED got
            /\ Asked(c)' = IF VerifyAccessToken(c) THEN "person" ELSE "invalid"
         \/ Asked(c) = "person" /\ Asked(c)' = Person(c) /\ UNCHANGED got
         \/ /\ Asked(c) \in Answers /\ got' = [got EXCEPT ![c] = Asked(c)]
            /\ Asked(c)' = "idle"
         \/ /\ Asked(c) # "idle" /\ got' = [got EXCEPT ![c] = "failed"]
            /\ Asked(c)' = "idle"
  PROVE  Lookup!LookupNext
<1> DEFINE ask == [d \in Clients |-> Asked(d)]
           valid == [d \in Clients |-> VerifyAccessToken(d)]
           person == [d \in Clients |-> Person(d)]
<1>1. valid' \in [Clients -> BOOLEAN] /\ person' \in [Clients -> Answers]
  BY OutsideStays
<1>2. ask' = [ask EXCEPT ![c] = Asked(c)']
  OBVIOUS
<1>3. ask[c] = Asked(c) /\ person[c] = Person(c) /\ valid[c] = VerifyAccessToken(c)
  OBVIOUS
<1>4. CASE Asked(c) = "idle" /\ Asked(c)' \in {"token", "person"} /\ UNCHANGED got
  <2>1. \E about \in {"token", "person"} : ask' = [ask EXCEPT ![c] = about]
    BY <1>2, <1>4
  <2> QED
    BY <1>1, <1>3, <1>4, <2>1, Zenon DEF Lookup!LookupNext, Lookup!Ask
<1>5. CASE /\ Asked(c) = "token" /\ UNCHANGED got
           /\ Asked(c)' = IF VerifyAccessToken(c) THEN "person" ELSE "invalid"
  <2>1. ask' = [ask EXCEPT ![c] = IF valid[c] THEN "person" ELSE "invalid"]
    BY <1>2, <1>3, <1>5
  <2> QED
    BY <1>1, <1>3, <1>5, <2>1, Zenon DEF Lookup!LookupNext, Lookup!Verify
<1>6. CASE Asked(c) = "person" /\ Asked(c)' = Person(c) /\ UNCHANGED got
  <2>1. ask' = [ask EXCEPT ![c] = person[c]]
    BY <1>2, <1>3, <1>6
  <2> QED
    BY <1>1, <1>3, <1>6, <2>1, Zenon DEF Lookup!LookupNext, Lookup!Learn
<1>7. CASE Asked(c) \in Answers /\ got' = [got EXCEPT ![c] = Asked(c)] /\ Asked(c)' = "idle"
  <2>1. ask' = [ask EXCEPT ![c] = "idle"] /\ got' = [got EXCEPT ![c] = ask[c]]
    BY <1>2, <1>3, <1>7
  <2> QED
    BY <1>1, <1>3, <1>7, <2>1, Zenon DEF Lookup!LookupNext, Lookup!Tell
<1>8. CASE Asked(c) # "idle" /\ got' = [got EXCEPT ![c] = "failed"] /\ Asked(c)' = "idle"
  <2>1. ask' = [ask EXCEPT ![c] = "idle"]
    BY <1>2, <1>8
  <2> QED
    BY <1>1, <1>3, <1>8, <2>1, Zenon DEF Lookup!LookupNext, Lookup!GiveUp
<1> QED
  BY <1>4, <1>5, <1>6, <1>7, <1>8, Zenon

LEMMA RpcLookupStep ==
  ASSUME EdgeInv, EdgeInv', NEW c \in Clients, RpcNext(c)
  PROVE  Lookup!LookupNext
<1>1. ASSUME NEW op \in RpcRoutes, CallRpc(c, op)
      PROVE  Lookup!LookupNext
  <2>1. Starts(c) /\ call'[c].op \in RpcRoutes
    BY <1>1, CallRpcKind
  <2>2. /\ \A d \in Clients \ {c} : call'[d] = call[d]
        /\ call[c].at = "idle" /\ call'[c].at = "sent" /\ UNCHANGED got
    BY <2>1 DEF Starts, Only
  <2>3. call[c].op \notin RpcRoutes
    BY <2>2 DEF EdgeInv, Answers
  <2>4. /\ \A d \in Clients \ {c} : Asked(d)' = Asked(d)
        /\ Asked(c) = "idle" /\ Asked(c)' \in {"token", "person"}
    BY <2>1, <2>2, <2>3 DEF Asked, Asks, Running
  <2> QED
    BY <2>2, <2>4, LookupStepIf
<1>2. CASE VerifyToken(c)
  <2>1. "find" \in {"find"} \cup Answers /\ "invalid" \in {"find"} \cup Answers
    BY DEF Answers
  <2>2. /\ call[c].op = "validate-token" /\ call[c].op \in RpcRoutes /\ call[c].at = "sent"
        /\ UNCHANGED got
    BY <1>2, VerifyTokenOf
  <2>3. /\ Goes(c)
        /\ call'[c].at = IF VerifyAccessToken(c) THEN "find" ELSE "invalid"
    BY <1>2, <2>1, VerifyTokenOf, HandlerKind
  <2>4. /\ \A d \in Clients \ {c} : Asked(d)' = Asked(d)
        /\ Asked(c) = "token"
        /\ Asked(c)' = IF VerifyAccessToken(c) THEN "person" ELSE "invalid"
    BY <2>2, <2>3 DEF Asked, Asks, Running, Goes, Only
  <2> QED
    BY <2>2, <2>4, LookupStepIf
<1>3. CASE FindById(c)
  <2>1. /\ \/ call[c].op = "validate-token" /\ call[c].at = "find"
           \/ call[c].op = "get-user-profile" /\ call[c].at = "sent"
        /\ call[c].op \in RpcRoutes /\ Person(c) \in Answers /\ UNCHANGED got
    BY <1>3, FindByIdOf
  <2>2. Goes(c) /\ call'[c].at = Person(c)
    BY <1>3, FindByIdOf, HandlerKind
  <2>3. Person(c) \notin {"sent", "find"}
    BY <2>1 DEF Answers
  <2>4. /\ \A d \in Clients \ {c} : Asked(d)' = Asked(d)
        /\ Asked(c) = "person" /\ Asked(c)' = Person(c)
    BY <2>1, <2>2, <2>3 DEF Asked, Asks, Running, Goes, Only
  <2> QED
    BY <2>1, <2>4, LookupStepIf
<1>4. ASSUME NEW outcome, Return(c, outcome), call[c].op \in RpcRoutes,
             outcome = "failed" \/ (call[c].at \in Answers /\ outcome = call[c].at)
      PROVE  Lookup!LookupNext
  <2>1. got' = [got EXCEPT ![c] = outcome] /\ End(c)
    BY <1>4, Zenon DEF Return
  <2>2. Only(c) /\ call'[c].op = "none"
    BY <2>1, EndOf DEF EdgeInv
  <2>3. /\ \A d \in Clients \ {c} : Asked(d)' = Asked(d)
        /\ Asked(c)' = "idle" /\ Asked(c) # "idle"
    BY <1>4, <2>2 DEF Asked, Asks, Running, Only, RpcRoutes, EdgeInv, Answers
  <2>4. call[c].at \in Answers => Asked(c) = call[c].at
    BY <1>4 DEF Asked, Asks, Running, Answers
  <2> QED
    BY <1>4, <2>1, <2>3, <2>4, LookupStepIf
<1>5. ReadBody(c) => call[c].op \in RpcRoutes
  BY DEF ReadBody, EdgeInv
<1>6. CASE WinRace(c)
  <2>1. UNCHANGED call /\ UNCHANGED got
    BY <1>6 DEF WinRace, browser
  <2>2. SameAsks
    BY <2>1 DEF SameAsks, Asked, Asks, Running
  <2> QED
    BY <2>1, <2>2, LookupStays
<1> QED
  BY <1>1, <1>2, <1>3, <1>4, <1>5, <1>6, Zenon DEF RpcNext, LoseRace, ReadBody

LEMMA AuthLookupStep ==
  ASSUME EdgeInv, AuthenticationNext, ~\E c \in Clients : RpcNext(c)
  PROVE  UNCHANGED got /\ SameAsks
<1>1. ASSUME NEW c \in Clients, NEW op \in Routes, NEW code \in 0 .. MaxCalls,
             Send(c, op, code) \/ SendElsewhere(c, op, code), UNCHANGED <<worker, got>>
      PROVE  SameAsks
  <2>1. code \in Nat
    BY MaxCallsAssumption
  <2>2. Starts(c) /\ call'[c].op \in Routes
    BY <1>1, <2>1, SendKind
  <2>3. Only(c) /\ call[c].op \notin RpcRoutes /\ call'[c].op \notin RpcRoutes
    BY <2>2 DEF Starts, EdgeInv, Answers, Routes, Guarded, SessionRoutes, LinkRoutes, RpcRoutes
  <2> QED
    BY <2>3, SameCallsAsk
<1>2. ASSUME NEW c \in Clients, Deliver(c) \/ Lose(c) \/ Fail(c), UNCHANGED <<worker, got>>
      PROVE  SameAsks
  <2>1. Delivers(c) \/ Leaves(c)
    BY <1>2, DeliverKind, FailKind
  <2>2. call[c].op \in SessionRoutes \/ call[c].op \in Routes
    BY <1>2 DEF Deliver, Lose, Fail, EdgeInv
  <2>3. Only(c) /\ call'[c].op = "none"
    BY <2>1 DEF Delivers, Leaves
  <2>4. call[c].op \notin RpcRoutes /\ call'[c].op \notin RpcRoutes
    BY <2>2, <2>3 DEF Routes, Guarded, SessionRoutes, LinkRoutes, RpcRoutes
  <2> QED
    BY <2>3, <2>4, SameCallsAsk
<1>3. ASSUME NEW c \in Clients, AuthNext(c) \/ GoogleNext(c), UNCHANGED got
      PROVE  SameAsks
  <2>1. KindOf(c) /\ call[c].op \notin RpcRoutes /\ call[c].at # "idle"
    BY <1>3, AuthKind, AuthRoutes
  <2>2. "none" \notin RpcRoutes
    BY DEF RpcRoutes
  <2>3. ~Starts(c)
    BY <2>1 DEF Starts
  <2> QED
    BY <2>1, <2>2, <2>3, KeptRoute, OthersAsk
<1>5. ASSUME TimePasses \/ ToggleActive
      PROVE  SameAsks
  <2>1. ASSUME NEW c \in Clients, TokenExpires(c)
        PROVE  SameAsks
    <3>1. "none" \in Words /\ call' = [call EXCEPT ![c].token = "none"]
      BY <2>1, WordsOf, Zenon DEF TokenExpires
    <3>2. \A d \in Clients : call'[d].at = call[d].at /\ call'[d].op = call[d].op
      BY <3>1 DEF EdgeInv, EdgeTypes, Requests
    <3> QED
      BY <3>2 DEF SameAsks, Asked, Asks, Running
  <2>2. UNCHANGED call => SameAsks
    BY DEF SameAsks, Asked, Asks, Running
  <2>3. ASSUME ~\E c \in Clients : TokenExpires(c)
        PROVE  UNCHANGED call
    BY <1>5, <2>3, Zenon DEF TimePasses, ToggleActive, SessionLapses, browser, AccessLapses,
       ChallengeExpires
  <2> QED
    BY <2>1, <2>2, <2>3
<1>6. UNCHANGED <<worker, timers, got, lapses>> => UNCHANGED <<worker, got>> /\ UNCHANGED got
  OBVIOUS
<1>7. UNCHANGED <<timers, got, lapses>> => UNCHANGED got
  OBVIOUS
<1>8. TimePasses \/ ToggleActive => UNCHANGED got
  BY DEF TimePasses, ToggleActive
<1> QED
  BY <1>1, <1>2, <1>3, <1>5, <1>6, <1>7, <1>8, Zenon DEF AuthenticationNext

\* However api-worker's calls, the awaits of auth-worker's handlers, changes of the row,
\* expiries and deadlines interleave: an answer about a token is of one that verified during
\* the call and of what the row said at that moment or later in the call; an answer about a
\* person was so during the call; and a call that is given up tells nothing (lib/auth-rpc.ts,
\* routes/rpc.ts).  That every call ends is left to the run.
THEOREM AnswersWereTrue ==
  Spec => Lookup!LookupInit /\ [][Lookup!LookupNext]_(Lookup!lookupVars)
<1>1. Init => Lookup!LookupInit
  <2> SUFFICES ASSUME Init
               PROVE  Lookup!LookupInit
    OBVIOUS
  <2>1. call = [c \in Clients |-> NoCall] /\ got = [c \in Clients |-> "failed"]
    BY Zenon DEF Init
  <2>2. \A c \in Clients : ~Asks(c)
    BY <2>1, NoCallOf DEF Asks, RpcRoutes
  <2>3. /\ [c \in Clients |-> Person(c)] \in [Clients -> Answers]
        /\ [c \in Clients |-> VerifyAccessToken(c)] \in [Clients -> BOOLEAN]
    BY PersonOf DEF VerifyAccessToken
  <2> QED
    BY <2>1, <2>2, <2>3 DEF Lookup!LookupInit, Asked
<1>2. EdgeInv /\ EdgeInv' /\ [Next]_vars => [Lookup!LookupNext]_(Lookup!lookupVars)
  <2> SUFFICES ASSUME EdgeInv, EdgeInv', [Next]_vars
               PROVE  Lookup!LookupNext
    BY DEF Lookup!lookupVars
  <2>1. CASE AuthenticationNext
    BY <2>1, RpcLookupStep, AuthLookupStep, LookupStays
  <2>2. CASE UNCHANGED front
    <3>1. UNCHANGED got /\ SameAsks
      BY <2>2 DEF front, SameAsks, Asked, Asks, Running
    <3> QED
      BY <3>1, LookupStays
  <2> QED
    BY <2>1, <2>2, EdgeFrame
<1> QED
  BY <1>1, <1>2, EdgeInitInv, EdgeStep, PTL DEF Spec, TimerSpec

=============================================================================
