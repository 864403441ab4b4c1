----------------------------- MODULE UserStore -----------------------------
(***************************************************************************)
(* The row of one person in auth.users, as the authentication handlers     *)
(* read and write it (auth-worker's lib/store.ts over Prisma, and klenzo). *)
(* A read and an update are a round trip each: an update writes the        *)
(* columns it names and leaves what the others hold by then.               *)
(*                                                                         *)
(* Random tokens and secrets are numbers never drawn before; 0 is NULL.    *)
(***************************************************************************)
EXTENDS Integers

CONSTANT
  MaxFailed   \* MAX_FAILED_ATTEMPTS

ASSUME MaxFailedAssumption == MaxFailed \in Nat \ {0}

VARIABLES
  row,      \* the row
  minted    \* how many refresh tokens, reset tokens and TOTP secrets were drawn

store == <<row, minted>>

NoUser ==
  [there |-> FALSE, active |-> FALSE, failed |-> 0, refresh |-> 0, refreshLive |-> FALSE,
   reset |-> 0, resetLive |-> FALSE, mfa |-> FALSE, secret |-> 0, google |-> FALSE]

NewUser == [NoUser EXCEPT !.there = TRUE, !.active = TRUE]

FindByRefreshHash(t) == row.there /\ t # 0 /\ row.refresh = t
FindByResetHash(t) == row.there /\ t # 0 /\ row.reset = t

\* The unique key on the address lets one create succeed.
Create(user) ==
  /\ ~row.there
  /\ row' = user

Update(user) ==
  /\ row.there
  /\ row' = user

Draw(what) == minted' = [minted EXCEPT ![what] = @ + 1]

\* Seven days, or one hour, have passed since the token was stored.
RefreshLapses ==
  /\ row.refreshLive
  /\ row' = [row EXCEPT !.refreshLive = FALSE]
  /\ UNCHANGED minted

ResetLapses ==
  /\ row.resetLive
  /\ row' = [row EXCEPT !.resetLive = FALSE]
  /\ UNCHANGED minted
=============================================================================
