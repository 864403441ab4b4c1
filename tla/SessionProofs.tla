--------------------------- MODULE SessionProofs ---------------------------
(***************************************************************************)
(* Proofs about Session, for any number of concurrent requests, refresh    *)
(* tokens and secrets.                                                     *)
(***************************************************************************)
EXTENDS Session, TLAPS

Settings == {"setup", "enable", "disable"}

\* A stored token was not exchanged yet; two exchanges of one token, or of a
\* token exchanged before, are under way only if two refreshes overlapped.
RefreshInv ==
  /\ row.refresh \notin past.used
  /\ ~past.refreshes =>
       /\ ~past.reused
       /\ \A c \in Requests : held[c] # 0 => held[c] \notin past.used
       /\ \A c, d \in Requests : held[c] # 0 /\ held[d] # 0 => c = d

\* While changes of the settings do not overlap, the row is as the one under
\* way read it.
SettingsInv ==
  ~past.settings =>
    /\ \A c, d \in Requests : stage[c] \in Settings /\ stage[d] \in Settings => c = d
    /\ \A c \in Requests : stage[c] = "setup" => ~row.mfaEnabled
    /\ \A c \in Requests : stage[c] = "enable" => row.mfaSecret \in past.proven
    /\ row.mfaEnabled => row.mfaSecret \in past.proven

LogoutInv == past.out => row.refresh = 0 /\ \A c \in Requests : ~SigningIn(c)

Was == [refreshes : BOOLEAN, settings : BOOLEAN, used : SUBSET Nat, reused : BOOLEAN,
        proven : SUBSET Nat, out : BOOLEAN]

IInv ==
  /\ SessionTypeOK
  /\ past \in Was
  /\ RefreshInv
  /\ SettingsInv
  /\ LogoutInv

LEMMA InitIInv == SessionInit => IInv
<1> SUFFICES ASSUME SessionInit
             PROVE  IInv
  OBVIOUS
<1>1. SessionTypeOK
  <2>1. 0 \in 0..MaxRefreshes /\ 0 \in 0..MaxSecrets /\ 0 \in 0..0
    BY MaxRefreshesAssumption, MaxSecretsAssumption
  <2>2. tokens \in 0..MaxRefreshes /\ secrets \in 0..MaxSecrets /\ challenge \in BOOLEAN
    BY <2>1 DEF SessionInit
  <2>3. row \in [refresh : 0..tokens, mfaEnabled : BOOLEAN, mfaSecret : 0..secrets]
    BY <2>1 DEF SessionInit
  <2>4. stage \in [Requests -> Stages] /\ held \in [Requests -> 0..tokens]
    BY <2>1 DEF SessionInit, Stages
  <2>5. \A c \in Requests : held[c] # 0 => stage[c] = "issue"
    BY DEF SessionInit
  <2>6. past.used = {} /\ past.proven = {}
    BY DEF SessionInit
  <2> QED
    BY <2>2, <2>3, <2>4, <2>5, <2>6 DEF SessionTypeOK
<1>3. past \in Was
  BY DEF SessionInit, Was
<1>2. RefreshInv /\ SettingsInv /\ LogoutInv
  BY DEF SessionInit, RefreshInv, SettingsInv, LogoutInv, Settings, SigningIn
<1> QED
  BY <1>1, <1>2, <1>3 DEF IInv

LEMMA NextIInv == IInv /\ [SessionNext]_sessionVars => IInv'
<1> SUFFICES ASSUME IInv, [SessionNext]_sessionVars
             PROVE  IInv'
  OBVIOUS
<1> USE MaxRefreshesAssumption, MaxSecretsAssumption
<1> USE DEF IInv, SessionTypeOK, Was, Stages, RefreshInv, SettingsInv, LogoutInv, Settings,
            SigningIn, Refreshing, Changing
<1>1. ASSUME NEW c \in Requests, SignIn(c)
      PROVE  IInv'
  <2>1. SessionTypeOK'
    BY <1>1 DEF SignIn, FirstFactor, Start
  <2>2. (past \in Was)'
    BY <1>1 DEF SignIn, FirstFactor, Start
  <2>3. RefreshInv'
    BY <1>1 DEF SignIn, FirstFactor, Start
  <2>4. SettingsInv'
    BY <1>1 DEF SignIn, FirstFactor, Start
  <2>5. LogoutInv'
    BY <1>1 DEF SignIn, FirstFactor, Start
  <2> QED
    BY <2>1, <2>2, <2>3, <2>4, <2>5
<1>2. ASSUME NEW c \in Requests, IssueChallenge(c)
      PROVE  IInv'
  BY <1>2 DEF IssueChallenge, Finish
<1>3. ASSUME NEW c \in Requests, MfaLogin(c)
      PROVE  IInv'
  BY <1>3 DEF MfaLogin, Start
<1>4. ASSUME NEW c \in Requests, VerifyChallenge(c)
      PROVE  IInv'
  BY <1>4 DEF VerifyChallenge
<1>5. ASSUME NEW c \in Requests, RefuseCode(c)
      PROVE  IInv'
  BY <1>5 DEF RefuseCode, Finish
<1>6. ASSUME NEW c \in Requests, NEW t \in 1..MaxRefreshes, Refresh(c, t)
      PROVE  IInv'
  BY <1>6 DEF Refresh, Start
<1>7. ASSUME NEW c \in Requests, GenerateRefreshToken(c)
      PROVE  IInv'
  <2>1. SessionTypeOK'
    BY <1>7 DEF GenerateRefreshToken, Finish
  <2>2. (past \in Was)'
    <3>1. held[c] \in Nat /\ past.used \cup {held[c]} \in SUBSET Nat
      OBVIOUS
    <3>2. CASE held[c] = 0
      BY <3>2, <1>7 DEF GenerateRefreshToken
    <3>3. CASE held[c] # 0
      BY <3>1, <3>3, <1>7 DEF GenerateRefreshToken
    <3> QED
      BY <3>2, <3>3
  <2>3. RefreshInv'
    BY <1>7 DEF GenerateRefreshToken, Finish
  <2>4. SettingsInv'
    BY <1>7 DEF GenerateRefreshToken, Finish
  <2>5. LogoutInv'
    BY <1>7 DEF GenerateRefreshToken, Finish
  <2> QED
    BY <2>1, <2>2, <2>3, <2>4, <2>5
<1>8. ASSUME NEW c \in Requests, Logout(c)
      PROVE  IInv'
  <2>1. SessionTypeOK'
    BY <1>8 DEF Logout
  <2>2. (past \in Was)'
    BY <1>8 DEF Logout
  <2>3. RefreshInv'
    BY <1>8 DEF Logout
  <2>4. SettingsInv'
    BY <1>8 DEF Logout
  <2>5. LogoutInv'
    BY <1>8 DEF Logout
  <2> QED
    BY <2>1, <2>2, <2>3, <2>4, <2>5
<1>9. ASSUME NEW c \in Requests, Setup(c)
      PROVE  IInv'
  BY <1>9 DEF Setup, Start
<1>10. ASSUME NEW c \in Requests, StoreSecret(c)
       PROVE  IInv'
  BY <1>10 DEF StoreSecret, Finish
<1>11. ASSUME NEW c \in Requests, Enable(c)
       PROVE  IInv'
  <2>1. SessionTypeOK'
    BY <1>11 DEF Enable, Start
  <2>2. (past \in Was)'
    <3>1. row.mfaSecret \in Nat /\ past.proven \cup {row.mfaSecret} \in SUBSET Nat
      OBVIOUS
    <3>2. past' = [past EXCEPT !.settings = @ \/ Changing, !.proven = @ \cup {row.mfaSecret}]
      BY <1>11 DEF Enable
    <3>3. (\E d \in Requests : stage[d] \in {"setup", "enable", "disable"}) \in BOOLEAN
      OBVIOUS
    <3> QED
      BY <3>1, <3>2, <3>3
  <2>3. RefreshInv'
    BY <1>11 DEF Enable, Start
  <2>4. SettingsInv'
    BY <1>11 DEF Enable, Start
  <2>5. LogoutInv'
    BY <1>11 DEF Enable, Start
  <2> QED
    BY <2>1, <2>2, <2>3, <2>4, <2>5
<1>12. ASSUME NEW c \in Requests, SetEnabled(c)
       PROVE  IInv'
  BY <1>12 DEF SetEnabled, Finish
<1>13. ASSUME NEW c \in Requests, Disable(c)
       PROVE  IInv'
  BY <1>13 DEF Disable, Start
<1>14. ASSUME NEW c \in Requests, ClearSecret(c)
       PROVE  IInv'
  <2>1. SessionTypeOK'
    <3>1. row' \in [refresh : 0..tokens, mfaEnabled : BOOLEAN, mfaSecret : 0..secrets]
      <4>1. 0 \in 0..secrets
        OBVIOUS
      <4> QED
        BY <4>1, <1>14 DEF ClearSecret
    <3>2. stage' \in [Requests -> Stages] /\ held' \in [Requests -> 0..tokens]
      <4>1. 0 \in 0..tokens
        OBVIOUS
      <4> QED
        BY <4>1, <1>14 DEF ClearSecret, Finish
    <3>3. \A d \in Requests : held'[d] # 0 => stage'[d] = "issue"
      BY <1>14 DEF ClearSecret, Finish
    <3>4. UNCHANGED <<tokens, secrets, challenge, past>>
      BY <1>14 DEF ClearSecret
    <3> QED
      BY <3>1, <3>2, <3>3, <3>4
  <2>2. (past \in Was)'
    BY <1>14 DEF ClearSecret, Finish
  <2>3. RefreshInv'
    BY <1>14 DEF ClearSecret, Finish
  <2>4. SettingsInv'
    BY <1>14 DEF ClearSecret, Finish
  <2>5. LogoutInv'
    BY <1>14 DEF ClearSecret, Finish
  <2> QED
    BY <2>1, <2>2, <2>3, <2>4, <2>5
<1>15. ASSUME NEW c \in Requests, Stop(c)
       PROVE  IInv'
  BY <1>15 DEF Stop, Finish
<1>16. ASSUME ExpireChallenge
       PROVE  IInv'
  BY <1>16 DEF ExpireChallenge
<1>17. CASE UNCHANGED sessionVars
  BY <1>17 DEF sessionVars
<1> QED
  BY <1>1, <1>2, <1>3, <1>4, <1>5, <1>6, <1>7, <1>8, <1>9, <1>10, <1>11, <1>12, <1>13, <1>14,
     <1>15, <1>16, <1>17 DEF SessionNext, SessionRoutes, MfaRoutes

\* What is stored and what open requests hold agree in every reachable state.
THEOREM SessionInvariance == SessionSpec => []IInv
<1>1. SessionInit => IInv
  BY InitIInv
<1>2. IInv /\ [SessionNext]_sessionVars => IInv'
  BY NextIInv
<1> QED
  BY <1>1, <1>2, PTL DEF SessionSpec

\* Session is type correct: a request holds a refresh token only while it
\* exchanges it.
THEOREM SessionTypeCorrect == SessionSpec => []SessionTypeOK
<1>1. IInv => SessionTypeOK
  BY DEF IInv
<1> QED
  BY <1>1, SessionInvariance, PTL

\* No refresh token is exchanged twice unless two refreshes overlapped
\* (refresh, generateRefreshToken).
THEOREM RefreshedOnce == SessionSpec => []RefreshOnce
<1>1. IInv => RefreshOnce
  BY DEF IInv, RefreshInv, RefreshOnce, Was
<1> QED
  BY <1>1, SessionInvariance, PTL

\* A logout is undone only by a sign-in or refresh under way (logout).
THEOREM LogoutIsFinal == SessionSpec => []LogoutHolds
<1>1. IInv => LogoutHolds
  BY DEF IInv, LogoutInv, LogoutHolds
<1> QED
  BY <1>1, SessionInvariance, PTL

\* MFA is on only with a secret whose code was verified, unless two of setup,
\* enable and disable overlapped (MfaService).
THEOREM SecretProven == SessionSpec => []ProvenSecret
<1>1. IInv => ProvenSecret
  BY DEF IInv, SettingsInv, ProvenSecret, Was
<1> QED
  BY <1>1, SessionInvariance, PTL
=============================================================================
