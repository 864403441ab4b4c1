------------------------------ MODULE Session ------------------------------
(***************************************************************************)
(* The refresh token and the second factor of one account                  *)
(* (auth.service.ts, mfa.service.ts, google-oauth.service.ts).             *)
(*                                                                         *)
(* As in Account an action is one await-free section of a handler, and a   *)
(* write comes after an await from the read it was decided on.  A random   *)
(* token and a TOTP secret are numbers never handed out before.  Passwords *)
(* and the lock are Account's: here a login, or an mfaLogin, is one that   *)
(* they let through.                                                       *)
(***************************************************************************)
EXTENDS Integers

CONSTANTS
  Requests,      \* concurrent requests about this account
  MaxRefreshes,  \* bound: refresh tokens handed out
  MaxSecrets     \* bound: TOTP secrets handed out

ASSUME MaxRefreshesAssumption == MaxRefreshes \in Nat
ASSUME MaxSecretsAssumption == MaxSecrets \in Nat

VARIABLES
  row,        \* the row: refreshToken, mfaEnabled, mfaSecret; 0 is SQL NULL
  tokens,     \* refresh tokens handed out are 1..tokens
  secrets,    \* secrets shown to the user are 1..secrets
  challenge,  \* an MFA challenge JWT that has not expired is held
  stage,      \* stage[c]: the section that the request of c runs next
  held,       \* held[c]: the refresh token that c presented, 0 if none
  past        \* history: see SessionInit

sessionVars == <<row, tokens, secrets, challenge, stage, held, past>>

SessionInit ==
  /\ row = [refresh |-> 0, mfaEnabled |-> FALSE, mfaSecret |-> 0]
  /\ tokens = 0
  /\ secrets = 0
  /\ challenge = FALSE
  /\ stage = [c \in Requests |-> "idle"]
  /\ held = [c \in Requests |-> 0]
     \* did two refreshes overlap, two changes of the MFA settings; the refresh
     \* tokens that were exchanged, and was one exchanged twice; the secrets
     \* that enable verified a code of; has the user logged out, with no sign-in
     \* under way then or begun since
  /\ past = [refreshes |-> FALSE, settings |-> FALSE, used |-> {}, reused |-> FALSE,
             proven |-> {}, out |-> FALSE]

-----------------------------------------------------------------------------

Refreshing == \E d \in Requests : held[d] # 0

Changing == \E d \in Requests : stage[d] \in {"setup", "enable", "disable"}

Start(c, next) ==
  /\ stage[c] = "idle"
  /\ stage' = [stage EXCEPT ![c] = next]

Finish(c) ==
  /\ stage' = [stage EXCEPT ![c] = "idle"]
  /\ held' = [held EXCEPT ![c] = 0]

\* What login and Google sign-in do with the row they read: a challenge, or
\* the session at once.
FirstFactor(c) ==
  IF row.mfaEnabled
  THEN Start(c, "challenge")
  ELSE Start(c, "issue")

\* login after its password check, and the Google callback.
SignIn(c) ==
  /\ FirstFactor(c)
  /\ past' = [past EXCEPT !.out = FALSE]
  /\ UNCHANGED <<row, tokens, secrets, challenge, held>>

\* login has cleared the count of failures; the challenge JWT is returned.
IssueChallenge(c) ==
  /\ stage[c] = "challenge"
  /\ challenge' = TRUE
  /\ Finish(c)
  /\ UNCHANGED <<row, tokens, secrets, past>>

\* The JWT lives ten minutes and may be used until then.
ExpireChallenge ==
  /\ challenge
  /\ challenge' = FALSE
  /\ UNCHANGED <<row, tokens, secrets, stage, held, past>>

\* mfaLogin: verifies the JWT and reads the row ...
MfaLogin(c) ==
  /\ challenge
  /\ Start(c, "verify")
  /\ past' = [past EXCEPT !.out = FALSE]
  /\ UNCHANGED <<row, tokens, secrets, challenge, held>>

\* ... and verifyChallenge reads it again; the code is one of the secret there.
VerifyChallenge(c) ==
  /\ stage[c] = "verify"
  /\ row.mfaEnabled /\ row.mfaSecret # 0
  /\ stage' = [stage EXCEPT ![c] = "issue"]
  /\ UNCHANGED <<row, tokens, secrets, challenge, held, past>>

\* "MFA is not enabled", or a wrong code.
RefuseCode(c) ==
  /\ stage[c] = "verify"
  /\ Finish(c)
  /\ UNCHANGED <<row, tokens, secrets, challenge, past>>

\* Mutant: the token is looked up among all that were ever stored.
RefreshAny(c, t) ==
  /\ t # 0 /\ t <= tokens
  /\ Start(c, "issue")
  /\ held' = [held EXCEPT ![c] = t]
  /\ past' = [past EXCEPT !.refreshes = @ \/ Refreshing]
  /\ UNCHANGED <<row, tokens, secrets, challenge>>

\* refresh: finds the row by the token's hash.
Refresh(c, t) ==
  /\ t # 0 /\ row.refresh = t
  /\ Start(c, "issue")
  /\ held' = [held EXCEPT ![c] = t]
  /\ past' = [past EXCEPT !.refreshes = @ \/ Refreshing]
  /\ UNCHANGED <<row, tokens, secrets, challenge>>

\* generateRefreshToken: a new token overwrites whatever is stored by now, and
\* the pair is returned.  Bound: MaxRefreshes.
GenerateRefreshToken(c) ==
  /\ stage[c] = "issue"
  /\ tokens < MaxRefreshes
  /\ tokens' = tokens + 1
  /\ row' = [row EXCEPT !.refresh = tokens + 1]
  /\ past' = IF held[c] = 0 THEN past
            ELSE [past EXCEPT !.used = @ \cup {held[c]},
                             !.reused = @ \/ held[c] \in past.used]
  /\ Finish(c)
  /\ UNCHANGED <<secrets, challenge>>

SigningIn(c) == stage[c] \in {"verify", "issue"}

\* Mutant: the expiry is cleared, the token is not.
LogoutKeepsToken(c) ==
  /\ stage[c] = "idle"
  /\ past' = [past EXCEPT !.out = \A d \in Requests : ~SigningIn(d)]
  /\ UNCHANGED <<row, tokens, secrets, challenge, stage, held>>

\* logout: one write, then the eviction that Account models.
Logout(c) ==
  /\ stage[c] = "idle"
  /\ row' = [row EXCEPT !.refresh = 0]
  /\ past' = [past EXCEPT !.out = \A d \in Requests : ~SigningIn(d)]
  /\ UNCHANGED <<tokens, secrets, challenge, stage, held>>

-----------------------------------------------------------------------------
(* The second factor: each operation reads the row, then writes it.        *)

Setup(c) ==
  /\ ~row.mfaEnabled
  /\ Start(c, "setup")
  /\ past' = [past EXCEPT !.settings = @ \/ Changing]
  /\ UNCHANGED <<row, tokens, secrets, challenge, held>>

\* The new secret is stored and shown.  Bound: MaxSecrets.
StoreSecret(c) ==
  /\ stage[c] = "setup"
  /\ secrets < MaxSecrets
  /\ secrets' = secrets + 1
  /\ row' = [row EXCEPT !.mfaSecret = secrets + 1]
  /\ Finish(c)
  /\ UNCHANGED <<tokens, challenge, past>>

\* Mutant: the code is not checked.
EnableUnverified(c) ==
  /\ ~row.mfaEnabled /\ row.mfaSecret # 0
  /\ Start(c, "enable")
  /\ past' = [past EXCEPT !.settings = @ \/ Changing]
  /\ UNCHANGED <<row, tokens, secrets, challenge, held>>

\* enable: a code of the secret that was read is verified ...
Enable(c) ==
  /\ ~row.mfaEnabled /\ row.mfaSecret # 0
  /\ Start(c, "enable")
  /\ past' = [past EXCEPT !.settings = @ \/ Changing, !.proven = @ \cup {row.mfaSecret}]
  /\ UNCHANGED <<row, tokens, secrets, challenge, held>>

\* ... and mfaEnabled set, for whatever secret is stored by then.
SetEnabled(c) ==
  /\ stage[c] = "enable"
  /\ row' = [row EXCEPT !.mfaEnabled = TRUE]
  /\ Finish(c)
  /\ UNCHANGED <<tokens, secrets, challenge, past>>

\* disable: a code of the secret that was read is verified ...
Disable(c) ==
  /\ row.mfaEnabled /\ row.mfaSecret # 0
  /\ Start(c, "disable")
  /\ past' = [past EXCEPT !.settings = @ \/ Changing]
  /\ UNCHANGED <<row, tokens, secrets, challenge, held>>

\* ... and both columns cleared.
ClearSecret(c) ==
  /\ stage[c] = "disable"
  /\ row' = [row EXCEPT !.mfaEnabled = FALSE, !.mfaSecret = 0]
  /\ Finish(c)
  /\ UNCHANGED <<tokens, secrets, challenge, past>>

\* The process dies, or the database refuses: the request stops where it is.
Stop(c) ==
  /\ stage[c] # "idle"
  /\ Finish(c)
  /\ UNCHANGED <<row, tokens, secrets, challenge, past>>

-----------------------------------------------------------------------------

\* What a browser may ask for: the routes login, refresh and logout ...
SessionRoutes(c) ==
  \/ SignIn(c)
  \/ \E t \in 1..MaxRefreshes : Refresh(c, t)
  \/ Logout(c)

\* ... and the routes of the second factor.
MfaRoutes(c) == MfaLogin(c) \/ Setup(c) \/ Enable(c) \/ Disable(c)

SessionNext ==
  \/ \E c \in Requests :
       \/ SessionRoutes(c) \/ IssueChallenge(c) \/ GenerateRefreshToken(c)
       \/ MfaRoutes(c) \/ VerifyChallenge(c) \/ RefuseCode(c)
       \/ StoreSecret(c) \/ SetEnabled(c) \/ ClearSecret(c)
       \/ Stop(c)
  \/ ExpireChallenge

SessionSpec == SessionInit /\ [][SessionNext]_sessionVars

-----------------------------------------------------------------------------
(* Properties.                                                             *)

Stages == {"idle", "challenge", "verify", "issue", "setup", "enable", "disable"}

\* Types; a refresh token is held only by a request that is exchanging it, and
\* enable has verified codes of stored secrets only.
SessionTypeOK ==
  /\ row \in [refresh : 0..tokens, mfaEnabled : BOOLEAN, mfaSecret : 0..secrets]
  /\ tokens \in 0..MaxRefreshes
  /\ secrets \in 0..MaxSecrets
  /\ challenge \in BOOLEAN
  /\ stage \in [Requests -> Stages]
  /\ held \in [Requests -> 0..tokens]
  /\ \A c \in Requests : held[c] # 0 => stage[c] = "issue"
  /\ past.used \subseteq 1..tokens
  /\ past.proven \subseteq 1..secrets

\* "Refresh tokens one-time use" (docs/security.md:216): no refresh token is
\* exchanged twice, whatever logins, logouts and crashes fall in between,
\* unless two refreshes overlapped.
RefreshOnce == past.reused => past.refreshes

\* logout is final: until somebody signs in again no refresh token is stored,
\* unless a sign-in or a refresh was under way at the logout and stores its
\* token after it.
LogoutHolds == past.out => row.refresh = 0

\* "The user must prove they can read the code via enable()"
\* (mfa.service.ts:20): when MFA is on, a code of the stored secret was
\* verified, unless two of setup, enable and disable overlapped.
ProvenSecret == row.mfaEnabled => row.mfaSecret \in past.proven \/ past.settings

\* The same without the exception.  Not so: enable sets mfaEnabled for a secret
\* that setup replaced, or disable cleared, after enable had read the row.
EnabledIsProven == row.mfaEnabled => row.mfaSecret \in past.proven
=============================================================================
