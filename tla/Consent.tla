------------------------------ MODULE Consent ------------------------------
(***************************************************************************)
(* Consent records, one for a user and a type, and the versions of the     *)
(* policies they are given to (consent.service.ts).  The check whether a   *)
(* user has consented to the latest policies is three reads.               *)
(***************************************************************************)
EXTENDS Desk

CONSTANTS
  Subjects,   \* bound: users whose consents are modelled
  Versions    \* versions of a policy, in the order of their effective dates

ASSUME SubjectsAssumption == Subjects \subseteq Users
ASSUME VersionsAssumption == Versions \subseteq Nat \ {0} /\ 1 \in Versions

VARIABLES
  consent,  \* consent_records by user and type
  policy,   \* policy_versions by type
  held      \* history: users of a check under way who, at some moment of it, had
            \* consented to the latest policies

\* One of the five revocable types stands for all.
Policies == {"terms_of_service", "privacy_policy"}
Revocable == {"marketing_email"}
Types == Policies \cup Revocable

Never == [there |-> FALSE, version |-> 0, granted |-> FALSE, revoked |-> FALSE]

Given(v, granted, revoked) ==
  [there |-> TRUE, version |-> v, granted |-> granted, revoked |-> revoked]

\* findFirst by effectiveDate, newest first; 0 if there is none.
Latest(t) == IF policy[t] = {} THEN 0
             ELSE CHOOSE v \in policy[t] : \A w \in policy[t] : w <= v

\* Mutant: any version will do.
HasConsentedToAny(u, t, v) ==
  v # 0 => consent[u][t].granted /\ ~consent[u][t].revoked

HasConsented(u, t, v) ==
  v # 0 => consent[u][t].granted /\ ~consent[u][t].revoked /\ consent[u][t].version = v

\* recordConsent: looks for the record; what it goes on to write depends on
\* whether there was one.
RecordConsent(c, u, t, v, granted) ==
  /\ u \in users
  /\ Begin(c, Request(IF consent[u][t].there THEN "update-consent" ELSE "create-consent",
                      u, t, Given(v, granted, ~granted)))
  /\ UNCHANGED <<users, consent, policy>>

\* The update fails when the record went with its user.
UpdateConsent(c) ==
  LET u == call[c].by  t == call[c].of
  IN /\ call[c].at = "update-consent"
     /\ consent' = IF consent[u][t].there
                   THEN [consent EXCEPT ![u][t] = call[c].as] ELSE consent
     /\ End(c)
     /\ UNCHANGED <<users, policy>>

\* Only one record of a user and a type can be created, and only of a user who
\* exists.  A refusal is recorded without revokedAt.
CreateConsent(c) ==
  LET u == call[c].by  t == call[c].of
  IN /\ call[c].at = "create-consent"
     /\ consent' = IF ~consent[u][t].there /\ u \in users
                   THEN [consent EXCEPT ![u][t] = [call[c].as EXCEPT !.revoked = FALSE]]
                   ELSE consent
     /\ End(c)
     /\ UNCHANGED <<users, policy>>

\* revokeConsent, of a record not revoked yet: granted or not.
RevokeConsent(c, u, t) ==
  /\ u \in users
  /\ t \in Revocable
  /\ consent[u][t].there /\ ~consent[u][t].revoked
  /\ Begin(c, Request("revoke", u, t, Nobody))
  /\ UNCHANGED <<users, consent, policy>>

StoreRevocation(c) ==
  LET u == call[c].by  t == call[c].of
  IN /\ call[c].at = "revoke"
     /\ consent' = IF consent[u][t].there
                   THEN [consent EXCEPT ![u][t].revoked = TRUE] ELSE consent
     /\ End(c)
     /\ UNCHANGED <<users, policy>>

\* checkPolicyConsent of oneself or, for an administrator, of anybody.
CheckPolicyConsent(c, a, u) ==
  /\ a \in users
  /\ a = u \/ Admin(a, ConsentRoutes, "checkUserPolicyConsent")
  /\ Begin(c, [Request("check-privacy", a, u, Nobody)
                 EXCEPT !.seen = [terms |-> Latest("terms_of_service")]])
  /\ UNCHANGED <<users, consent, policy>>

CheckPrivacy(c) ==
  /\ call[c].at = "check-privacy"
  /\ GoSeeing(c, "check-consents", [terms |-> call[c].seen.terms,
                                    privacy |-> Latest("privacy_policy")])
  /\ UNCHANGED <<users, consent, policy>>

CheckConsents(c) ==
  LET u == call[c].of
      complete == /\ HasConsented(u, "terms_of_service", call[c].seen.terms)
                  /\ HasConsented(u, "privacy_policy", call[c].seen.privacy)
  IN /\ call[c].at = "check-consents"
     /\ Go(c, [call[c] EXCEPT !.at = IF complete THEN "complete" ELSE "incomplete"])
     /\ UNCHANGED <<users, consent, policy>>

AnswerCheck(c) ==
  /\ call[c].at \in {"complete", "incomplete"}
  /\ End(c)
  /\ UNCHANGED <<users, consent, policy>>

\* createPolicyVersion: a version of a type is unique.
CreatePolicyVersion(c, a, t, v) ==
  /\ Once(c)
  /\ Admin(a, ConsentRoutes, "createPolicyVersion")
  /\ v \notin policy[t]
  /\ policy' = [policy EXCEPT ![t] = @ \cup {v}]
  /\ UNCHANGED <<users, consent>>

ConsentsDeleted(u) ==
  [s \in Subjects |-> IF s = u THEN [t \in Types |-> Never] ELSE consent[s]]

ConsentNext(c) ==
  \/ \E u \in Subjects, t \in Types, v \in Versions, granted \in BOOLEAN :
       RecordConsent(c, u, t, v, granted)
  \/ \E u \in Subjects, t \in Types : RevokeConsent(c, u, t)
  \/ UpdateConsent(c) \/ CreateConsent(c) \/ StoreRevocation(c)
  \/ \E a \in Users, u \in Subjects : CheckPolicyConsent(c, a, u)
  \/ CheckPrivacy(c) \/ CheckConsents(c) \/ AnswerCheck(c)
  \/ \E a \in Users, t \in Policies, v \in Versions : CreatePolicyVersion(c, a, t, v)

-----------------------------------------------------------------------------

Checking == {"check-privacy", "check-consents", "complete", "incomplete"}

\* The user's record of each policy is a grant of its latest version.
Complete(u) ==
  \A t \in Policies :
    policy[t] # {} => consent[u][t] = Given(Latest(t), TRUE, FALSE)

\* The history that goes with every step.
Remember ==
  held' = [c \in Clients |->
             /\ (call[c].at \in Checking)'
             /\ (call[c].at \in Checking /\ held[c]) \/ Complete(call[c].of)']

ConsentTypeOK ==
  /\ consent \in [Subjects -> [Types -> [there : BOOLEAN, version : Versions \cup {0},
                                         granted : BOOLEAN, revoked : BOOLEAN]]]
  /\ \A u \in Subjects, t \in Types : ~consent[u][t].there => consent[u][t] = Never
  /\ policy \in [Policies -> SUBSET Versions]
  /\ held \in [Clients -> BOOLEAN]

\* "Check if user has consented to the latest versions of required policies"
\* (consent.service.ts:144): an answer that nothing is missing was true at some
\* moment of the check, unless a newer version came after the check had read that
\* type.  Consents recorded, refused or deleted between its reads do not matter.
CompleteMeansConsented ==
  \A c \in Clients :
    /\ call[c].at = "complete"
    /\ call[c].seen.terms = Latest("terms_of_service")
    /\ call[c].seen.privacy = Latest("privacy_policy")
    => held[c]
=============================================================================
