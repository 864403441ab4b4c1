--------------------------- MODULE AccountProofs ---------------------------
(***************************************************************************)
(* Proofs about Account, for any number of requests, any limit of failed   *)
(* attempts and any bounds.                                                *)
(***************************************************************************)
EXTENDS Account, TLAPS

\* What a request read is still possible to write back.
SeenInv ==
  \A c \in Clients :
    /\ pc[c] = "fail" => seen[c].attempts < MaxAttempts
    /\ pc[c] = "fill" => seen[c].active

\* Requests that do not overlap find the row as they read it, and count every
\* failure.
SerialInv ==
  ~was.overlapped =>
    /\ \A c, d \in Clients : pc[c] # "idle" /\ pc[d] # "idle" => c = d
    /\ \A c \in Clients : pc[c] = "fail" => seen[c].attempts = user.attempts
    /\ was.failures <= user.attempts
    /\ was.failures >= MaxFailed => ~user.active

IInv == TypeOK /\ SeenInv /\ SerialInv

Bounds ==
  MaxFailed \in Nat /\ MaxFailed >= 1 /\ MaxAttempts \in Nat /\ MaxTokens \in Nat

LEMMA BoundsHold == Bounds
  BY MaxFailedAssumption, MaxAttemptsAssumption, MaxTokensAssumption DEF Bounds

LEMMA InitIInv == Init => IInv
<1> SUFFICES ASSUME Init
             PROVE  IInv
  OBVIOUS
<1>1. 0 \in 0..MaxAttempts /\ 0 \in 0..MaxTokens /\ 0 \in 0..MaxFailed
  BY BoundsHold DEF Bounds
<1>2. TypeOK
  <2>1. user \in [active : BOOLEAN, attempts : 0..MaxAttempts, reset : 0..MaxTokens,
                  profile : Profiles]
    BY <1>1 DEF Init, Profiles
  <2>2. /\ cache \in {NoProfile} \cup [active : {TRUE}, profile : Profiles]
        /\ minted \in 0..MaxTokens
        /\ pc \in [Clients -> Steps]
        /\ was \in [overlapped : BOOLEAN, failures : 0..MaxFailed]
    BY <1>1 DEF Init, Steps
  <2>3. seen \in [Clients -> [attempts : 0..MaxAttempts, active : BOOLEAN, profile : Profiles]]
    BY <1>1 DEF Init, Unseen, Profiles
  <2> QED
    BY <2>1, <2>2, <2>3 DEF TypeOK
<1>3. SeenInv /\ SerialInv
  BY BoundsHold DEF Init, SeenInv, SerialInv, Unseen, Bounds
<1> QED
  BY <1>2, <1>3 DEF IInv

\* Ending a request keeps what concerns the others.
LEMMA EndTyped ==
  ASSUME TypeOK, NEW c \in Clients, End(c)
  PROVE  /\ pc' \in [Clients -> Steps]
         /\ seen' \in [Clients -> [attempts : 0..MaxAttempts, active : BOOLEAN,
                                   profile : Profiles]]
         /\ pc'[c] = "idle"
         /\ \A d \in Clients : d # c => pc'[d] = pc[d] /\ seen'[d] = seen[d]
<1>1. Unseen \in [attempts : 0..MaxAttempts, active : BOOLEAN, profile : Profiles]
  BY BoundsHold DEF Bounds, Unseen, Profiles
<1> QED
  BY <1>1 DEF TypeOK, Steps, End

\* The first section of a request keeps the types of what it changes.
LEMMA BeginTyped ==
  ASSUME TypeOK, NEW c \in Clients, NEW next \in Steps,
         NEW s \in [attempts : 0..MaxAttempts, active : BOOLEAN, profile : Profiles],
         Begin(c, next, s)
  PROVE  /\ pc' \in [Clients -> Steps]
         /\ seen' \in [Clients -> [attempts : 0..MaxAttempts, active : BOOLEAN,
                                   profile : Profiles]]
         /\ was' \in [overlapped : BOOLEAN, failures : 0..MaxFailed]
         /\ was'.failures = was.failures
         /\ was'.overlapped = Overlaps(c)
         /\ pc[c] = "idle" /\ pc'[c] = next /\ seen'[c] = s
         /\ \A d \in Clients : d # c => pc'[d] = pc[d] /\ seen'[d] = seen[d]
<1>1. Overlaps(c) \in BOOLEAN
  BY DEF Overlaps, TypeOK
<1> QED
  BY <1>1 DEF TypeOK, Begin

\* A request that begins while none is open leaves the serial invariant alone,
\* whatever columns but the lock and the count it writes.
LEMMA BeginSerial ==
  ASSUME IInv, NEW c \in Clients,
         user'.active = user.active, user'.attempts = user.attempts,
         was'.failures = was.failures, was'.overlapped = Overlaps(c),
         \A d \in Clients : d # c => pc'[d] = pc[d] /\ seen'[d] = seen[d],
         pc'[c] = "fail" => seen'[c].attempts = user.attempts
  PROVE  SerialInv'
<1> SUFFICES ASSUME ~Overlaps(c)
             PROVE  SerialInv'
  BY DEF SerialInv
<1>1. ~was.overlapped /\ \A d \in Clients : d # c => pc[d] = "idle"
  BY DEF Overlaps
<1> QED
  BY <1>1 DEF SerialInv, IInv

LEMMA UnseenTyped ==
  Unseen \in [attempts : 0..MaxAttempts, active : BOOLEAN, profile : Profiles]
  BY BoundsHold DEF Bounds, Unseen, Profiles

LEMMA NextIInv == IInv /\ [Next]_vars => IInv'
<1> SUFFICES ASSUME IInv, [Next]_vars
             PROVE  IInv'
  OBVIOUS
<1>t. TypeOK /\ Bounds
  BY BoundsHold DEF IInv
<1>1. ASSUME NEW c \in Clients, NEW match \in BOOLEAN, Login(c, match)
      PROVE  IInv'
  <2> DEFINE s == IF match THEN Unseen ELSE [Unseen EXCEPT !.attempts = user.attempts]
             next == IF match THEN "succeed" ELSE "fail"
  <2>1. Begin(c, next, s) /\ UNCHANGED <<user, cache, minted>> /\ user.attempts < MaxAttempts
    BY <1>1 DEF Login
  <2>2. s \in [attempts : 0..MaxAttempts, active : BOOLEAN, profile : Profiles]
    BY <1>t, UnseenTyped DEF TypeOK
  <2>3. next \in Steps
    BY DEF Steps
  <2>4. next = "fail" => s.attempts = user.attempts
    BY DEF Unseen
  <2> HIDE DEF s
  <2>5. /\ pc' \in [Clients -> Steps]
        /\ seen' \in [Clients -> [attempts : 0..MaxAttempts, active : BOOLEAN,
                                  profile : Profiles]]
        /\ was' \in [overlapped : BOOLEAN, failures : 0..MaxFailed]
        /\ was'.failures = was.failures
        /\ was'.overlapped = Overlaps(c)
        /\ pc[c] = "idle" /\ pc'[c] = next /\ seen'[c] = s
        /\ \A d \in Clients : d # c => pc'[d] = pc[d] /\ seen'[d] = seen[d]
    BY <1>t, <2>1, <2>2, <2>3, BeginTyped
  <2>6. TypeOK'
    BY <1>t, <2>1, <2>5 DEF TypeOK
  <2>7. SeenInv'
    BY <2>1, <2>4, <2>5 DEF IInv, SeenInv
  <2>8. SerialInv'
    BY <2>1, <2>4, <2>5, BeginSerial
  <2> QED
    BY <2>6, <2>7, <2>8 DEF IInv
<1>2. ASSUME NEW c \in Clients, NEW next \in {"mail", "reset", "evict", "read"},
             Begin(c, next, Unseen), UNCHANGED <<cache, minted>>,
             user' \in {user, [user EXCEPT !.profile = 1 - @]}
      PROVE  IInv'
  <2>1. /\ pc' \in [Clients -> Steps]
        /\ seen' \in [Clients -> [attempts : 0..MaxAttempts, active : BOOLEAN,
                                  profile : Profiles]]
        /\ was' \in [overlapped : BOOLEAN, failures : 0..MaxFailed]
        /\ was'.failures = was.failures
        /\ was'.overlapped = Overlaps(c)
        /\ pc[c] = "idle" /\ pc'[c] = next /\ seen'[c] = Unseen
        /\ \A d \in Clients : d # c => pc'[d] = pc[d] /\ seen'[d] = seen[d]
    <3>1. next \in Steps
      BY DEF Steps
    <3> QED
      BY <1>t, <1>2, <3>1, BeginTyped, UnseenTyped
  <2>2. /\ user' \in [active : BOOLEAN, attempts : 0..MaxAttempts, reset : 0..MaxTokens,
                      profile : Profiles]
        /\ user'.active = user.active /\ user'.attempts = user.attempts
    BY <1>t, <1>2 DEF TypeOK, Profiles
  <2>3. TypeOK'
    BY <1>t, <1>2, <2>1, <2>2 DEF TypeOK
  <2>4. SeenInv'
    BY <2>1 DEF IInv, SeenInv
  <2>5. SerialInv'
    BY <2>1, <2>2, BeginSerial
  <2> QED
    BY <2>3, <2>4, <2>5 DEF IInv
<1>3. ASSUME NEW c \in Clients, LoginFails(c)
      PROVE  IInv'
  <2>1. /\ pc' \in [Clients -> Steps]
        /\ seen' \in [Clients -> [attempts : 0..MaxAttempts, active : BOOLEAN,
                                  profile : Profiles]]
        /\ pc'[c] = "idle"
        /\ \A d \in Clients : d # c => pc'[d] = pc[d] /\ seen'[d] = seen[d]
    BY <1>3, <1>t, EndTyped DEF LoginFails
  <2>2. seen[c].attempts < MaxAttempts /\ seen[c].attempts \in Nat
    BY <1>3, <1>t DEF IInv, SeenInv, LoginFails, TypeOK
  <2>3. /\ user'.attempts = seen[c].attempts + 1
        /\ user'.active = (user.active /\ seen[c].attempts + 1 < MaxFailed)
        /\ user' \in [active : BOOLEAN, attempts : 0..MaxAttempts, reset : 0..MaxTokens,
                      profile : Profiles]
    <3>1. seen[c].attempts + 1 \in 0..MaxAttempts
      BY <2>2, <1>t DEF Bounds
    <3>2. user' = [user EXCEPT !.attempts = seen[c].attempts + 1,
                               !.active = @ /\ seen[c].attempts + 1 < MaxFailed]
      BY <1>3 DEF LoginFails
    <3> QED
      BY <3>1, <3>2, <1>t DEF TypeOK
  <2>4. /\ was'.failures = IF was.failures < MaxFailed THEN was.failures + 1 ELSE was.failures
        /\ was'.overlapped = was.overlapped
        /\ was' \in [overlapped : BOOLEAN, failures : 0..MaxFailed]
    BY <1>3, <1>t DEF LoginFails, TypeOK, Bounds
  <2>5. TypeOK'
    BY <1>3, <1>t, <2>1, <2>3, <2>4 DEF TypeOK, LoginFails
  <2>6. SeenInv'
    BY <2>1 DEF IInv, SeenInv
  <2>7. SerialInv'
    <3> SUFFICES ASSUME ~was.overlapped
                 PROVE  SerialInv'
      BY <2>4 DEF SerialInv
    <3>1. \A d \in Clients : d # c => pc[d] = "idle"
      BY <1>3 DEF IInv, SerialInv, LoginFails
    <3>2. seen[c].attempts = user.attempts /\ was.failures <= user.attempts
      BY <1>3 DEF IInv, SerialInv, LoginFails
    <3>3. was'.failures <= user'.attempts
      BY <3>2, <2>3, <2>4, <1>t DEF TypeOK, Bounds
    <3>4. was'.failures >= MaxFailed => ~user'.active
      BY <3>3, <2>3, <2>4, <1>t, <2>2 DEF TypeOK, Bounds
    <3> QED
      BY <3>1, <3>3, <3>4, <2>1 DEF SerialInv
  <2> QED
    BY <2>5, <2>6, <2>7 DEF IInv
<1>4. ASSUME NEW c \in Clients, pc[c] # "idle", End(c), UNCHANGED minted,
             \/ user' = user /\ was' = was
             \/ user' = [user EXCEPT !.reset = minted] /\ was' = was
             \/ user' = [user EXCEPT !.attempts = 0] /\ was' = [was EXCEPT !.failures = 0]
             \/ /\ user' = [user EXCEPT !.reset = 0, !.attempts = 0, !.active = TRUE]
                /\ was' = [was EXCEPT !.failures = 0],
             cache' \in {NoProfile} \cup [active : {TRUE}, profile : Profiles]
      PROVE  IInv'
  <2>1. /\ pc' \in [Clients -> Steps]
        /\ seen' \in [Clients -> [attempts : 0..MaxAttempts, active : BOOLEAN,
                                  profile : Profiles]]
        /\ pc'[c] = "idle"
        /\ \A d \in Clients : d # c => pc'[d] = pc[d] /\ seen'[d] = seen[d]
    BY <1>4, <1>t, EndTyped
  <2>2. 0 \in 0..MaxAttempts /\ 0 \in 0..MaxTokens /\ 0 \in 0..MaxFailed
    BY <1>t DEF Bounds
  <2>3. /\ user' \in [active : BOOLEAN, attempts : 0..MaxAttempts, reset : 0..MaxTokens,
                      profile : Profiles]
        /\ was' \in [overlapped : BOOLEAN, failures : 0..MaxFailed]
        /\ was'.overlapped = was.overlapped
        /\ \/ /\ user'.active = user.active /\ user'.attempts = user.attempts
              /\ was'.failures = was.failures
           \/ user'.attempts = 0 /\ was'.failures = 0
    BY <1>4, <1>t, <2>2 DEF TypeOK
  <2>4. TypeOK'
    BY <1>4, <1>t, <2>1, <2>3 DEF TypeOK
  <2>5. SeenInv'
    BY <2>1 DEF IInv, SeenInv
  <2>6. SerialInv'
    <3> SUFFICES ASSUME ~was.overlapped
                 PROVE  SerialInv'
      BY <2>3 DEF SerialInv
    <3>1. \A d \in Clients : pc'[d] = "idle"
      BY <1>4, <2>1 DEF IInv, SerialInv
    <3> QED
      BY <3>1, <2>3, <1>t DEF IInv, SerialInv, Bounds
  <2> QED
    BY <2>4, <2>5, <2>6 DEF IInv
<1>5. ASSUME NEW c \in Clients, NEW active \in BOOLEAN, ToggleUserActive(c, active)
      PROVE  IInv'
  <2>1. Overlaps(c) \in BOOLEAN
    BY <1>t DEF Overlaps, TypeOK
  <2>2. /\ was'.overlapped = Overlaps(c)
        /\ was'.failures = IF active THEN 0 ELSE was.failures
        /\ user'.active = active /\ user'.attempts = user.attempts
        /\ UNCHANGED <<pc, seen>> /\ pc[c] = "idle"
    BY <1>5, <1>t DEF ToggleUserActive, TypeOK
  <2>3. TypeOK'
    <3>1. 0 \in 0..MaxFailed
      BY <1>t DEF Bounds
    <3>2. was' \in [overlapped : BOOLEAN, failures : 0..MaxFailed]
      BY <1>5, <1>t, <2>1, <3>1 DEF ToggleUserActive, TypeOK
    <3> QED
      BY <1>5, <1>t, <3>2 DEF ToggleUserActive, TypeOK
  <2>4. SeenInv'
    BY <2>2 DEF IInv, SeenInv
  <2>5. SerialInv'
    <3> SUFFICES ASSUME ~Overlaps(c)
                 PROVE  SerialInv'
      BY <2>2 DEF SerialInv
    <3>1. ~was.overlapped /\ \A d \in Clients : pc[d] = "idle"
      BY <2>2 DEF Overlaps
    <3> QED
      BY <3>1, <2>2, <1>t DEF IInv, SerialInv, Bounds, TypeOK
  <2> QED
    BY <2>3, <2>4, <2>5 DEF IInv
<1>6. ASSUME NEW c \in Clients, StoreResetToken(c)
      PROVE  IInv'
  <2>1. /\ pc' \in [Clients -> Steps]
        /\ seen' \in [Clients -> [attempts : 0..MaxAttempts, active : BOOLEAN,
                                  profile : Profiles]]
        /\ pc'[c] = "idle"
        /\ \A d \in Clients : d # c => pc'[d] = pc[d] /\ seen'[d] = seen[d]
    BY <1>6, <1>t, EndTyped DEF StoreResetToken
  <2>2. minted + 1 \in 0..MaxTokens
    BY <1>6, <1>t DEF StoreResetToken, TypeOK, Bounds
  <2>3. /\ user' \in [active : BOOLEAN, attempts : 0..MaxAttempts, reset : 0..MaxTokens,
                      profile : Profiles]
        /\ user'.active = user.active /\ user'.attempts = user.attempts
        /\ minted' \in 0..MaxTokens /\ UNCHANGED <<cache, was>>
    BY <1>6, <1>t, <2>2 DEF StoreResetToken, TypeOK
  <2>4. TypeOK'
    BY <1>t, <2>1, <2>3 DEF TypeOK
  <2>5. SeenInv'
    BY <2>1 DEF IInv, SeenInv
  <2>6. SerialInv'
    BY <2>1, <2>3 DEF IInv, SerialInv
  <2> QED
    BY <2>4, <2>5, <2>6 DEF IInv
<1>7. ASSUME NEW c \in Clients, ValidateReads(c)
      PROVE  IInv'
  <2>1. /\ pc[c] = "read" /\ user.active /\ UNCHANGED <<user, cache, minted, was>>
        /\ pc' = [pc EXCEPT ![c] = "fill"]
        /\ seen' = [seen EXCEPT ![c].active = user.active, ![c].profile = user.profile]
    BY <1>7 DEF ValidateReads
  <2>2. TypeOK'
    <3>1. pc' \in [Clients -> Steps]
      BY <2>1, <1>t DEF TypeOK, Steps
    <3>2. [seen[c] EXCEPT !.active = user.active, !.profile = user.profile]
            \in [attempts : 0..MaxAttempts, active : BOOLEAN, profile : Profiles]
      BY <1>t DEF TypeOK
    <3>3. seen' = [seen EXCEPT
                     ![c] = [seen[c] EXCEPT !.active = user.active, !.profile = user.profile]]
      BY <2>1, <1>t DEF TypeOK
    <3> QED
      BY <2>1, <3>1, <3>2, <3>3, <1>t DEF TypeOK
  <2>3. \A d \in Clients : d # c => pc'[d] = pc[d] /\ seen'[d] = seen[d]
    BY <2>1, <1>t DEF TypeOK
  <2>4. pc'[c] = "fill" /\ seen'[c].active
    BY <2>1, <1>t DEF TypeOK
  <2>5. SeenInv'
    BY <2>3, <2>4 DEF IInv, SeenInv
  <2>6. SerialInv'
    BY <2>1, <2>3, <2>4 DEF IInv, SerialInv
  <2> QED
    BY <2>2, <2>5, <2>6 DEF IInv
<1>8. CASE Expire \/ UNCHANGED vars
  <2>1. UNCHANGED <<user, minted, pc, seen, was>> /\ cache' \in {cache, NoProfile}
    BY <1>8 DEF Expire, vars
  <2> QED
    BY <2>1 DEF IInv, TypeOK, SeenInv, SerialInv
<1>9. ASSUME NEW c \in Clients,
             LoginSucceeds(c) \/ OpenAccount(c) \/ ValidateRefuses(c) \/ Crash(c)
      PROVE  IInv'
  <2>1. cache' \in {NoProfile} \cup [active : {TRUE}, profile : Profiles]
    BY <1>9, <1>t DEF LoginSucceeds, OpenAccount, ValidateRefuses, Crash, TypeOK
  <2> QED
    BY <2>1, <1>9, <1>4 DEF LoginSucceeds, OpenAccount, ValidateRefuses, Crash
<1>10. ASSUME NEW c \in Clients, Evict(c) \/ Fill(c)
       PROVE  IInv'
  <2>1. CASE Evict(c)
    <3>1. cache' \in {NoProfile} \cup [active : {TRUE}, profile : Profiles]
      BY <2>1, <1>t DEF Evict, TypeOK
    <3> QED
      BY <3>1, <2>1, <1>4 DEF Evict
  <2>2. CASE Fill(c)
    <3>1. seen[c].active = TRUE /\ seen[c].profile \in Profiles
      BY <2>2, <1>t DEF Fill, IInv, SeenInv, TypeOK
    <3>2. [active |-> seen[c].active, profile |-> seen[c].profile]
            \in [active : {TRUE}, profile : Profiles]
      BY <3>1
    <3>3. cache' \in {NoProfile} \cup [active : {TRUE}, profile : Profiles]
      BY <2>2, <3>2, <1>t DEF Fill, TypeOK
    <3> QED
      BY <3>3, <2>2, <1>4 DEF Fill
  <2> QED
    BY <1>10, <2>1, <2>2
<1>11. ASSUME NEW c \in Clients,
              \/ ForgotPassword(c) \/ ResetPassword(c) \/ UpdateProfile(c)
              \/ WriteAndEvict(c) \/ ValidateMisses(c)
       PROVE  IInv'
  BY <1>11, <1>2 DEF ForgotPassword, ResetPassword, UpdateProfile, WriteAndEvict, ValidateMisses
<1> QED
  BY <1>1, <1>3, <1>5, <1>6, <1>7, <1>8, <1>9, <1>10, <1>11 DEF Next, Continue, ProfileRoutes

\* The row, the cache and what open requests read agree in every reachable
\* state.
THEOREM AccountInvariance == Spec => []IInv
<1>1. Init => IInv
  BY InitIInv
<1>2. IInv /\ [Next]_vars => IInv'
  BY NextIInv
<1> QED
  BY <1>1, <1>2, PTL DEF Spec

\* Account is type correct, and only active accounts are cached (validate).
THEOREM AccountTypeCorrect == Spec => []TypeOK
<1>1. IInv => TypeOK
  BY DEF IInv
<1> QED
  BY <1>1, AccountInvariance, PTL

\* Requests that do not overlap lock the account at the MaxFailed-th failure
\* (login).
THEOREM FailuresLock == Spec => []FifthFailureLocks
<1>1. IInv => FifthFailureLocks
  BY DEF IInv, SerialInv, FifthFailureLocks
<1> QED
  BY <1>1, AccountInvariance, PTL

\* No login and no reset, however late it writes, leaves an account open with
\* its count at the limit (login, resetPassword, toggleUserActive).
THEOREM LimitAlwaysLocks == Spec => LimitLocks
<1>1. IInv /\ [Next]_vars =>
        [~AtLimitOpen /\ AtLimitOpen' => \E c \in Clients : ToggleUserActive(c, TRUE)]_vars
  <2> SUFFICES ASSUME IInv, Next, ~AtLimitOpen, AtLimitOpen'
               PROVE  \E c \in Clients : ToggleUserActive(c, TRUE)
    OBVIOUS
  <2>t. TypeOK /\ Bounds
    BY BoundsHold DEF IInv
  <2>1. ~(user'.active = user.active /\ user'.attempts = user.attempts)
    BY DEF AtLimitOpen
  <2>2. ASSUME NEW c \in Clients, LoginFails(c)
        PROVE  FALSE
    <3>1. /\ user'.attempts = seen[c].attempts + 1
          /\ user'.active = (user.active /\ seen[c].attempts + 1 < MaxFailed)
      BY <2>2, <2>t DEF LoginFails, TypeOK
    <3>2. seen[c].attempts + 1 < MaxFailed
      BY <3>1 DEF AtLimitOpen
    <3>3. seen[c].attempts + 1 >= MaxFailed
      BY <3>1 DEF AtLimitOpen
    <3>4. seen[c].attempts \in Nat
      BY <2>2, <2>t DEF TypeOK
    <3> QED
      BY <3>2, <3>3, <3>4, <2>t DEF Bounds
  <2>3. ASSUME NEW c \in Clients, LoginSucceeds(c) \/ OpenAccount(c)
        PROVE  FALSE
    <3>1. user'.attempts = 0
      BY <2>3, <2>t DEF LoginSucceeds, OpenAccount, TypeOK
    <3> QED
      BY <3>1, <2>t DEF AtLimitOpen, Bounds
  <2>4. ASSUME NEW c \in Clients, ToggleUserActive(c, FALSE)
        PROVE  FALSE
    BY <2>4, <2>t DEF ToggleUserActive, AtLimitOpen, TypeOK
  <2>5. ASSUME NEW c \in Clients, UpdateProfile(c) \/ StoreResetToken(c)
        PROVE  FALSE
    <3>1. \/ user' = [user EXCEPT !.profile = 1 - @]
          \/ user' = [user EXCEPT !.reset = minted + 1]
      BY <2>5 DEF UpdateProfile, StoreResetToken
    <3>2. user'.active = user.active /\ user'.attempts = user.attempts
      BY <3>1, <2>t DEF TypeOK
    <3> QED
      BY <3>2, <2>1
  <2>6. ASSUME UNCHANGED user
        PROVE  FALSE
    BY <2>6, <2>1
  <2>7. ASSUME NEW c \in Clients,
               \/ \E match \in BOOLEAN : Login(c, match)
               \/ ForgotPassword(c) \/ ResetPassword(c) \/ WriteAndEvict(c)
               \/ ValidateMisses(c) \/ Evict(c) \/ ValidateReads(c) \/ ValidateRefuses(c)
               \/ Fill(c) \/ Crash(c)
        PROVE  FALSE
    BY <2>7, <2>6 DEF Login, ForgotPassword, ResetPassword, WriteAndEvict, ValidateMisses, Evict,
                      ValidateReads, ValidateRefuses, Fill, Crash
  <2>8. CASE Expire
    BY <2>8, <2>6 DEF Expire
  <2> QED
    BY <2>2, <2>3, <2>4, <2>5, <2>7, <2>8 DEF Next, Continue, ProfileRoutes
<1> QED
  BY <1>1, AccountInvariance, PTL DEF Spec, LimitLocks
=============================================================================
