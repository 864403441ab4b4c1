------------------------------- MODULE Google -------------------------------
(***************************************************************************)
(* Signing in with Google (klenzo's google-oauth.service.ts): the callback *)
(* of a browser and the ID token of a mobile application, for the same row *)
(* and cookies as AuthWorker.  Google is external: an exchange answers     *)
(* with the person's profile, or fails as any other request does.          *)
(***************************************************************************)
EXTENDS AuthWorker

\* The user whom authenticate goes on with.
Found(c, user) == GoSeeing(c, "found", [NothingSeen EXCEPT !.mfa = user.mfa])

\* The state, or the ID token, has been verified and the profile fetched: a row that is
\* linked is used as it is ...
FindLinked(c) ==
  /\ Running(c, "google", "sent")
  /\ IF row.google THEN Found(c, row) ELSE Go(c, "look-up")
  /\ UNCHANGED store /\ KeepWorker

\* ... one with the address is to be linked, and otherwise a user created.
FindByEmail(c) ==
  /\ Running(c, "google", "look-up")
  /\ Go(c, IF row.there THEN "link" ELSE "create")
  /\ UNCHANGED store /\ KeepWorker

\* The update returns the row, with mfaEnabled as it is by now.
LinkAccount(c) ==
  /\ Running(c, "google", "link")
  /\ Update([row EXCEPT !.google = TRUE])
  /\ Found(c, row)
  /\ UNCHANGED minted /\ KeepWorker

\* A user with a password nobody knows, unless somebody else was faster.
CreateLinked(c) ==
  /\ Running(c, "google", "create")
  /\ IF row.there
     THEN Answer(c) /\ UNCHANGED row
     ELSE LET user == [NewUser EXCEPT !.google = TRUE]
          IN Create(user) /\ Found(c, user)
  /\ UNCHANGED minted /\ KeepWorker

\* authenticate: a challenge, or the session.  The lock is not asked for.
Authenticate(c) ==
  /\ Running(c, "google", "found")
  /\ IF call[c].seen.mfa
     THEN challenge' = (challenge \/ call[c].here) /\ Answer(c)
     ELSE GoIssue(c, ~call[c].seen.mfa) /\ UNCHANGED challenge
  /\ UNCHANGED <<store, earned, links>>

GoogleNext(c) ==
  FindLinked(c) \/ FindByEmail(c) \/ LinkAccount(c) \/ CreateLinked(c) \/ Authenticate(c)
=============================================================================
