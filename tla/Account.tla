------------------------------ MODULE Account ------------------------------
(***************************************************************************)
(* One user account: the lock that failed logins close, the password reset *)
(* that opens it, and the profile that authenticated requests are answered *)
(* from (auth.service.ts, jwt.strategy.ts, admin.service.ts).              *)
(*                                                                         *)
(* Every handler reads the row, awaits (bcrypt, Redis), and writes columns *)
(* computed from what it read.  An action is one await-free section, so    *)
(* other requests run between a read and the write that follows it.  What  *)
(* login does once the password was right is modelled in Session.          *)
(***************************************************************************)
EXTENDS Integers

CONSTANTS
  Clients,       \* concurrent requests about this account
  MaxFailed,     \* MAX_FAILED_ATTEMPTS
  MaxAttempts,   \* bound: failedLoginAttempts is counted this far
  MaxTokens      \* bound: reset tokens mailed

ASSUME MaxFailedAssumption == MaxFailed \in Nat \ {0}
ASSUME MaxAttemptsAssumption == MaxAttempts \in Nat
ASSUME MaxTokensAssumption == MaxTokens \in Nat

VARIABLES
  user,     \* the row: isActive, failedLoginAttempts, passwordResetToken, profile
  cache,    \* Redis user:profile:<id>
  minted,   \* the last reset token generated; 0 is SQL NULL
  pc,       \* pc[c]: the section that the request of c runs next
  seen,     \* seen[c]: what that section uses of what c read
  was       \* history: did requests overlap; failures since the account was opened

vars == <<user, cache, minted, pc, seen, was>>

\* The columns a profile shows are one value that an update flips.
Profiles == {0, 1}

NoProfile == [active |-> FALSE, profile |-> 0]
Unseen == [attempts |-> 0, active |-> FALSE, profile |-> 0]

Init ==
  /\ user = [active |-> TRUE, attempts |-> 0, reset |-> 0, profile |-> 0]
  /\ cache = NoProfile
  /\ minted = 0
  /\ pc = [c \in Clients |-> "idle"]
  /\ seen = [c \in Clients |-> Unseen]
  /\ was = [overlapped |-> FALSE, failures |-> 0]

-----------------------------------------------------------------------------
(* Sections of a request.                                                  *)

Overlaps(c) == was.overlapped \/ \E d \in Clients \ {c} : pc[d] # "idle"

\* The first section of a request, which leaves s for the next.
Begin(c, next, s) ==
  /\ pc[c] = "idle"
  /\ pc' = [pc EXCEPT ![c] = next]
  /\ seen' = [seen EXCEPT ![c] = s]
  /\ was' = [was EXCEPT !.overlapped = Overlaps(c)]

End(c) ==
  /\ pc' = [pc EXCEPT ![c] = "idle"]
  /\ seen' = [seen EXCEPT ![c] = Unseen]

-----------------------------------------------------------------------------
(* Login and the lock.                                                     *)

\* login reads the row; a locked account is refused.  bcrypt.compare then
\* answers for the password the row had.
\* Bound: attempts below MaxAttempts.
Login(c, match) ==
  /\ user.active
  /\ user.attempts < MaxAttempts
  /\ IF match THEN Begin(c, "succeed", Unseen)
     ELSE Begin(c, "fail", [Unseen EXCEPT !.attempts = user.attempts])
  /\ UNCHANGED <<user, cache, minted>>

\* Mutant: the row is written back as it was read.
LoginFailsUncounted(c) ==
  /\ pc[c] = "fail"
  /\ user' = [user EXCEPT !.attempts = seen[c].attempts,
                          !.active = seen[c].attempts < MaxFailed]
  /\ was' = [was EXCEPT !.failures = @ + 1]
  /\ End(c)
  /\ UNCHANGED <<cache, minted>>

\* Mutant: only the count is written, the lock is left to somebody else.
LoginFailsUnlocked(c) ==
  /\ pc[c] = "fail"
  /\ user' = [user EXCEPT !.attempts = seen[c].attempts + 1]
  /\ was' = [was EXCEPT !.failures = @ + 1]
  /\ End(c)
  /\ UNCHANGED <<cache, minted>>

\* Mutant: the lock closes one failure late.
LoginFailsLate(c) ==
  LET newFailedAttempts == seen[c].attempts + 1
  IN /\ pc[c] = "fail"
     /\ user' = [user EXCEPT !.attempts = newFailedAttempts,
                             !.active = @ /\ newFailedAttempts <= MaxFailed]
     /\ was' = [was EXCEPT !.failures = @ + 1]
     /\ End(c)
     /\ UNCHANGED <<cache, minted>>

\* A wrong password: the count read before bcrypt, plus one, and the lock in
\* the same update.
LoginFails(c) ==
  LET newFailedAttempts == seen[c].attempts + 1
  IN /\ pc[c] = "fail"
     /\ user' = [user EXCEPT !.attempts = newFailedAttempts,
                             !.active = @ /\ newFailedAttempts < MaxFailed]
     /\ was' = [was EXCEPT !.failures = IF @ < MaxFailed THEN @ + 1 ELSE @]
     /\ End(c)
     /\ UNCHANGED <<cache, minted>>

\* A right password clears the count, whatever it is by then.
LoginSucceeds(c) ==
  /\ pc[c] = "succeed"
  /\ user' = [user EXCEPT !.attempts = 0]
  /\ was' = [was EXCEPT !.failures = 0]
  /\ End(c)
  /\ UNCHANGED <<cache, minted>>

\* forgotPassword: reads the row, then stores a new token and mails it.
ForgotPassword(c) ==
  /\ Begin(c, "mail", Unseen)
  /\ UNCHANGED <<user, cache, minted>>

\* Bound: MaxTokens.
StoreResetToken(c) ==
  /\ pc[c] = "mail"
  /\ minted < MaxTokens
  /\ minted' = minted + 1
  /\ user' = [user EXCEPT !.reset = minted + 1]
  /\ End(c)
  /\ UNCHANGED <<cache, was>>

\* resetPassword finds the row by a mailed token; findFirst with an expired
\* token finds nothing.
ResetPassword(c) ==
  /\ user.reset # 0
  /\ Begin(c, "reset", Unseen)
  /\ UNCHANGED <<user, cache, minted>>

\* ... and after bcrypt.hash opens the account and clears the count and
\* whatever token is stored by then.
OpenAccount(c) ==
  /\ pc[c] = "reset"
  /\ user' = [user EXCEPT !.reset = 0, !.attempts = 0, !.active = TRUE]
  /\ was' = [was EXCEPT !.failures = 0]
  /\ End(c)
  /\ UNCHANGED <<cache, minted>>

\* toggleUserActive: the count stays, and so does the cached profile.
ToggleUserActive(c, active) ==
  /\ pc[c] = "idle"
  /\ user' = [user EXCEPT !.active = active]
  /\ was' = [overlapped |-> Overlaps(c), failures |-> IF active THEN 0 ELSE was.failures]
  /\ UNCHANGED <<cache, minted, pc, seen>>

-----------------------------------------------------------------------------
(* The cached profile.                                                     *)

\* updateProfile writes, then evicts.
UpdateProfile(c) ==
  /\ Begin(c, "evict", Unseen)
  /\ user' = [user EXCEPT !.profile = 1 - @]
  /\ UNCHANGED <<cache, minted>>

\* logout and changePassword, which write no column that is modelled here, and
\* evict.
WriteAndEvict(c) ==
  /\ Begin(c, "evict", Unseen)
  /\ UNCHANGED <<user, cache, minted>>

\* redis.del, which may fail: its error is swallowed.
Evict(c) ==
  /\ pc[c] = "evict"
  /\ cache' \in {NoProfile, cache}
  /\ End(c)
  /\ UNCHANGED <<user, minted, was>>

\* validate misses: the key is not there, or Redis does not answer.
ValidateMisses(c) ==
  /\ Begin(c, "read", Unseen)
  /\ UNCHANGED <<user, cache, minted>>

\* The row is read; an inactive account is refused.
ValidateReads(c) ==
  /\ pc[c] = "read"
  /\ user.active
  /\ pc' = [pc EXCEPT ![c] = "fill"]
  /\ seen' = [seen EXCEPT ![c].active = user.active, ![c].profile = user.profile]
  /\ UNCHANGED <<user, cache, minted, was>>

ValidateRefuses(c) ==
  /\ pc[c] = "read"
  /\ ~user.active
  /\ End(c)
  /\ UNCHANGED <<user, cache, minted, was>>

\* redis.set of what was read, TTL 120 s; its error is swallowed.
Fill(c) ==
  /\ pc[c] = "fill"
  /\ cache' \in {[active |-> seen[c].active, profile |-> seen[c].profile], cache}
  /\ End(c)
  /\ UNCHANGED <<user, minted, was>>

\* Mutant: the key has no TTL and goes only when Redis restarts with it stale.
ExpireNever ==
  /\ cache # NoProfile
  /\ cache.profile = user.profile /\ user.active
  /\ cache' = NoProfile
  /\ UNCHANGED <<user, minted, pc, seen, was>>

\* The TTL runs out, or Redis restarts empty.
Expire ==
  /\ cache # NoProfile
  /\ cache' = NoProfile
  /\ UNCHANGED <<user, minted, pc, seen, was>>

\* The process dies, or the database refuses: the request stops where it is.
Crash(c) ==
  /\ pc[c] # "idle"
  /\ End(c)
  /\ UNCHANGED <<user, cache, minted, was>>

-----------------------------------------------------------------------------

Continue(c) ==
  \/ LoginFails(c) \/ LoginSucceeds(c) \/ StoreResetToken(c) \/ OpenAccount(c)
  \/ Evict(c) \/ ValidateReads(c) \/ ValidateRefuses(c) \/ Fill(c)

\* The routes of the password and of the profile (logout is one of WriteAndEvict, too).
ProfileRoutes(c) == ForgotPassword(c) \/ ResetPassword(c) \/ UpdateProfile(c) \/ WriteAndEvict(c)

Next ==
  \/ \E c \in Clients :
       \/ \E match \in BOOLEAN : Login(c, match)
       \/ \E active \in BOOLEAN : ToggleUserActive(c, active)
       \/ ProfileRoutes(c) \/ ValidateMisses(c)
       \/ Continue(c) \/ Crash(c)
  \/ Expire

Spec == Init /\ [][Next]_vars

\* A request that is not stopped is continued by the event loop, and Redis
\* removes a key whose TTL ran out.  Nobody is obliged to send a request.
FairSpec == Spec /\ WF_vars(Expire) /\ \A c \in Clients : WF_vars(Continue(c))

-----------------------------------------------------------------------------
(* Properties.                                                             *)

Steps == {"idle", "succeed", "fail", "mail", "reset", "evict", "read", "fill"}

\* Types; a cached profile is one of an active account.
TypeOK ==
  /\ user \in [active : BOOLEAN, attempts : 0..MaxAttempts, reset : 0..MaxTokens,
               profile : Profiles]
  /\ cache \in {NoProfile} \cup [active : {TRUE}, profile : Profiles]
  /\ minted \in 0..MaxTokens
  /\ pc \in [Clients -> Steps]
  /\ seen \in [Clients -> [attempts : 0..MaxAttempts, active : BOOLEAN, profile : Profiles]]
  /\ was \in [overlapped : BOOLEAN, failures : 0..MaxFailed]

\* The lock and the count go together: however logins overlap with resets and
\* with each other, an account is open with its count at the limit only
\* because an administrator opened it; login, reset and every late write of
\* an old count leave it locked or below the limit.
AtLimitOpen == user.active /\ user.attempts >= MaxFailed

LimitLocks ==
  [][~AtLimitOpen /\ AtLimitOpen' =>
       \E c \in Clients : ToggleUserActive(c, TRUE)]_vars

\* "After 5 failed attempts, account is locked" (docs/security.md:112), for
\* requests that do not overlap: MaxFailed failures since the account was last
\* opened or logged into lock it.
FifthFailureLocks == ~was.overlapped /\ was.failures >= MaxFailed => ~user.active

AnyFails == \E c \in Clients : LoginFails(c)

\* Overlapping failures may each write the same old count, so the lock may
\* close late, but not never: failures go on for ever only if something else
\* goes on writing the lock or the count.
LocksEventually ==
  []<><<AnyFails>>_pc => []<><<~AnyFails>>_<<user.active, user.attempts>>

\* The row as validate would cache it.
CurrentProfile ==
  IF user.active THEN [active |-> TRUE, profile |-> user.profile] ELSE NoProfile

\* A fill that read before a write and sets after its eviction leaves a stale
\* profile, and toggleUserActive evicts nothing; but once the row stops
\* changing, requests end up being answered from it.
CacheCatchesUp ==
  <>[][FALSE]_<<user.active, user.profile>> => <>[](cache \in {NoProfile, CurrentProfile})
=============================================================================
