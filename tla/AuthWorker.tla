----------------------------- MODULE AuthWorker -----------------------------
(***************************************************************************)
(* The handlers of auth-worker (routes/auth.ts), the port of klenzo's auth *)
(* routes to Cloudflare, for one person's row.  Account and Session model  *)
(* klenzo's own.                                                           *)
(*                                                                         *)
(* An action is a handler from one await on the store to the next: it      *)
(* reads the row or updates it, and others run in between.                 *)
(***************************************************************************)
EXTENDS Browser

VARIABLES
  earned,   \* history: did a password, and with MFA on a code, earn the stored session
  links     \* history: the reset token handed out last, those that were used, and
            \* whether requests that draw or use them crossed since

worker == <<earned, links>>

KeepWorker == UNCHANGED <<challenge, earned, links>>

\* The signature is right and exp is not over; an MFA challenge names nobody who is let in.
VerifyAccessToken(c) == call[c].token = "access"

VerifyMfaChallenge(c) == call[c].token = "challenge"

\* The code is one of the secret's, of this or the neighbouring half minute.
VerifyTotp(secret, code) == secret # 0 /\ code = secret

-----------------------------------------------------------------------------
(* Sessions.                                                               *)

\* issueSession: a new refresh token replaces the stored one, and both cookies are set.
IssueSession(c) ==
  LET t == minted.refresh + 1
  IN /\ call[c].at = "issue"
     /\ Draw("refresh")
     /\ Update([row EXCEPT !.refresh = t, !.refreshLive = TRUE])
     /\ earned' = call[c].earned
     /\ AnswerSetting(c, t)
     /\ UNCHANGED <<challenge, links>>

\* register: the address is looked up ...
Register(c) ==
  /\ Running(c, "register", "sent")
  /\ IF row.there THEN Answer(c) ELSE Go(c, "create")
  /\ UNCHANGED store /\ KeepWorker

\* ... and the user created, after the hash, unless somebody else was faster.
CreateUser(c) ==
  /\ Running(c, "register", "create")
  /\ IF row.there
     THEN Answer(c) /\ UNCHANGED row
     ELSE Create(NewUser) /\ GoIssue(c, TRUE)
  /\ UNCHANGED minted /\ KeepWorker

\* login: an unknown address and a locked account are refused; the password is compared
\* with the hash that was read.
Login(c) ==
  /\ Running(c, "login", "sent")
  /\ IF row.there /\ row.active
     THEN IF call[c].code = 1
          THEN GoSeeing(c, "succeed", [NothingSeen EXCEPT !.mfa = row.mfa])
          ELSE GoSeeing(c, "count", [NothingSeen EXCEPT !.failed = row.failed])
     ELSE Answer(c)
  /\ UNCHANGED store /\ KeepWorker

\* A wrong password: the count that was read, plus one; at the limit the account is locked.
CountFailure(c) ==
  LET attempts == call[c].seen.failed + 1
  IN /\ Running(c, "login", "count")
     /\ Update([row EXCEPT !.failed = attempts, !.active = @ /\ attempts < MaxFailed])
     /\ Answer(c)
     /\ UNCHANGED minted /\ KeepWorker

\* Mutant: mfaEnabled is not looked at.
LoginSucceedsAlways(c) ==
  /\ Running(c, "login", "succeed")
  /\ Update([row EXCEPT !.failed = 0])
  /\ GoIssue(c, ~call[c].seen.mfa)
  /\ UNCHANGED challenge
  /\ UNCHANGED <<minted, earned, links>>

\* The right one: the count is cleared, and a session issued, or a challenge if the row
\* that was read has MFA enabled.
LoginSucceeds(c) ==
  /\ Running(c, "login", "succeed")
  /\ Update([row EXCEPT !.failed = 0])
  /\ IF call[c].seen.mfa
     THEN challenge' = (challenge \/ call[c].here) /\ Answer(c)
     ELSE GoIssue(c, ~call[c].seen.mfa) /\ UNCHANGED challenge
  /\ UNCHANGED <<minted, earned, links>>

\* login/mfa: the challenge verifies, the user is active with MFA on, and the code is one
\* of the stored secret.
LoginMfa(c) ==
  /\ Running(c, "login-mfa", "sent")
  /\ IF /\ VerifyMfaChallenge(c)
        /\ row.there /\ row.active
        /\ row.mfa /\ VerifyTotp(row.secret, call[c].code)
     THEN GoSeeing(c, "verified", [NothingSeen EXCEPT !.secret = row.secret])
     ELSE Answer(c)
  /\ UNCHANGED store /\ KeepWorker

ClearFailures(c) ==
  /\ Running(c, "login-mfa", "verified")
  /\ Update([row EXCEPT !.failed = 0])
  /\ GoIssue(c, VerifyTotp(call[c].seen.secret, call[c].code))
  /\ UNCHANGED minted /\ KeepWorker

\* refresh: the row is found by the hash of kz_rt.  Neither the lock nor MFA is asked for.
Refresh(c) ==
  /\ Running(c, "refresh", "sent")
  /\ IF FindByRefreshHash(call[c].refresh) /\ row.refreshLive
     THEN GoIssue(c, earned)
     ELSE Answer(c)
  /\ UNCHANGED store /\ KeepWorker

-----------------------------------------------------------------------------
(* Authenticated requests.                                                 *)

\* requireAuth: the access token verifies, and the user exists and is active.
RequireAuth(c) ==
  /\ call[c].at = "sent" /\ call[c].op \in Guarded
  /\ IF VerifyAccessToken(c) /\ row.there /\ row.active
     THEN GoSeeing(c, "admitted", [NothingSeen EXCEPT !.mfa = row.mfa, !.secret = row.secret])
     ELSE Answer(c)
  /\ UNCHANGED store /\ KeepWorker

\* logout: NULL is stored and both cookies are cleared.
Logout(c) ==
  /\ Running(c, "logout", "admitted")
  /\ Update([row EXCEPT !.refresh = 0, !.refreshLive = FALSE])
  /\ AnswerSetting(c, 0)
  /\ UNCHANGED minted /\ KeepWorker

\* profile, read or updated, and mfa/status: no column that is modelled here is written.
Profile(c) ==
  /\ Running(c, "profile", "admitted")
  /\ Answer(c)
  /\ UNCHANGED store /\ KeepWorker

\* mfa/setup: a new secret is stored and shown, unless MFA was on when the row was read.
Setup(c) ==
  /\ Running(c, "setup", "admitted")
  /\ IF call[c].seen.mfa THEN UNCHANGED store
     ELSE Draw("secret") /\ Update([row EXCEPT !.secret = minted.secret + 1])
  /\ Answer(c)
  /\ KeepWorker

\* mfa/enable: a code of the secret that was read, while MFA was off.
Enable(c) ==
  /\ Running(c, "enable", "admitted")
  /\ IF ~call[c].seen.mfa /\ VerifyTotp(call[c].seen.secret, call[c].code)
     THEN Update([row EXCEPT !.mfa = TRUE])
     ELSE UNCHANGED row
  /\ Answer(c)
  /\ UNCHANGED minted /\ KeepWorker

\* mfa/disable: a code of the secret that was read, while MFA was on.
Disable(c) ==
  /\ Running(c, "disable", "admitted")
  /\ IF call[c].seen.mfa /\ VerifyTotp(call[c].seen.secret, call[c].code)
     THEN Update([row EXCEPT !.mfa = FALSE, !.secret = 0])
     ELSE UNCHANGED row
  /\ Answer(c)
  /\ UNCHANGED minted /\ KeepWorker

-----------------------------------------------------------------------------
(* The forgotten password.                                                 *)

\* forgot-password: an unknown address gets the same answer ...
ForgotPassword(c) ==
  /\ Running(c, "forgot", "sent")
  /\ IF row.there THEN Go(c, "link") ELSE Answer(c)
  /\ UNCHANGED store /\ KeepWorker

\* ... and a known one a new token, which replaces the stored one and is handed out.
StoreLink(c) ==
  LET t == minted.reset + 1
  IN /\ Running(c, "forgot", "link")
     /\ Draw("reset")
     /\ Update([row EXCEPT !.reset = t, !.resetLive = TRUE])
     /\ links' = [links EXCEPT !.newest = t, !.crossed = c \in crossed]
     /\ Answer(c)
     /\ UNCHANGED <<challenge, earned>>

\* reset-password: the row is found by the token's hash ...
ResetPassword(c) ==
  /\ Running(c, "reset", "sent")
  /\ IF FindByResetHash(call[c].code) /\ row.resetLive THEN Go(c, "reset") ELSE Answer(c)
  /\ UNCHANGED store /\ KeepWorker

\* Mutant: the token stays valid for its hour.
StorePasswordOnly(c) ==
  /\ Running(c, "reset", "reset")
  /\ Update([row EXCEPT !.failed = 0, !.active = TRUE])
  /\ links' = [links EXCEPT !.used = @ \cup {call[c].code}, !.crossed = @ \/ c \in crossed]
  /\ Answer(c)
  /\ UNCHANGED <<minted, challenge, earned>>

\* ... and, after the hash, the password stored, whatever token is there by now cleared,
\* and the account unlocked.
StorePassword(c) ==
  /\ Running(c, "reset", "reset")
  /\ Update([row EXCEPT !.reset = 0, !.resetLive = FALSE, !.failed = 0, !.active = TRUE])
  /\ links' = [links EXCEPT !.used = @ \cup {call[c].code}, !.crossed = @ \/ c \in crossed]
  /\ Answer(c)
  /\ UNCHANGED <<minted, challenge, earned>>

-----------------------------------------------------------------------------

AuthNext(c) ==
  \/ Register(c) \/ CreateUser(c)
  \/ Login(c) \/ CountFailure(c) \/ LoginSucceeds(c)
  \/ LoginMfa(c) \/ ClearFailures(c)
  \/ Refresh(c)
  \/ IssueSession(c)
  \/ RequireAuth(c)
  \/ Logout(c) \/ Profile(c) \/ Setup(c) \/ Enable(c) \/ Disable(c)
  \/ ForgotPassword(c) \/ StoreLink(c)
  \/ ResetPassword(c) \/ StorePassword(c)

-----------------------------------------------------------------------------
(* Properties.                                                             *)

Quiet == \A c \in Clients : call[c].at = "idle"

\* A browser stays signed in, and signed out: whenever nothing is under way the refresh
\* token in its cookies is the stored one ("rotates kz_rt", routes/auth.ts:261), unless an answer
\* was lost, requests that sign in, out or refresh crossed, or another device made one.  The
\* next such request that nothing crosses puts an end to that.
JarCurrent ==
  Quiet /\ ~disturbed /\ (row.refreshLive \/ row.refresh = 0) => jar.refresh = row.refresh

\* While MFA is on the stored session goes back, through any number of refreshes, to a code
\* or to a time when MFA was off ("200 with session, or {mfaRequired, mfaToken} when MFA is
\* on", routes/auth.ts:173).
SecondFactor == row.mfa /\ row.refresh # 0 => earned

\* The reset token that was handed out last works until it is used, and none works twice
\* ("consumes the hashed token", routes/auth.ts:359), unless such requests crossed.
LinksWorkOnce ==
  ~links.crossed /\ links.newest # 0 =>
    row.reset = IF links.newest \in links.used THEN 0 ELSE links.newest
=============================================================================
