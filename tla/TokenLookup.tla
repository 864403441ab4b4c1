---------------------------- MODULE TokenLookup ----------------------------
(***************************************************************************)
(* What api-worker may rely on when it asks auth-worker about a token or a *)
(* person: every question ends, with nothing learnt, or with an answer     *)
(* that was so while the question was open.  A token is looked at first,   *)
(* and then the person it names: the answer is of two moments, and may     *)
(* have been the truth at neither.                                         *)
(***************************************************************************)

CONSTANTS
  Clients,   \* who ask
  Answers    \* "invalid", of a token, and what may be said of a person

VARIABLES
  valid,    \* valid[c]: does the token that c asks about verify, as of now
  person,   \* person[c]: what there is to say of the person, as of now
  ask,      \* ask[c]: "idle", asking about a "token" or a "person", or the answer on its way
  got       \* got[c]: what the last question of c ended with

lookupVars == <<valid, person, ask, got>>

LookupInit ==
  /\ valid \in [Clients -> BOOLEAN]
  /\ person \in [Clients -> Answers]
  /\ ask = [c \in Clients |-> "idle"]
  /\ got = [c \in Clients |-> "failed"]

Ask(c) ==
  /\ ask[c] = "idle"
  /\ \E about \in {"token", "person"} : ask' = [ask EXCEPT ![c] = about]
  /\ UNCHANGED got

\* A token that does not verify is "invalid"; one that does names a person.
Verify(c) ==
  /\ ask[c] = "token"
  /\ ask' = [ask EXCEPT ![c] = IF valid[c] THEN "person" ELSE "invalid"]
  /\ UNCHANGED got

Learn(c) ==
  /\ ask[c] = "person"
  /\ ask' = [ask EXCEPT ![c] = person[c]]
  /\ UNCHANGED got

Tell(c) ==
  /\ ask[c] \in Answers
  /\ got' = [got EXCEPT ![c] = ask[c]]
  /\ ask' = [ask EXCEPT ![c] = "idle"]

GiveUp(c) ==
  /\ ask[c] # "idle"
  /\ got' = [got EXCEPT ![c] = "failed"]
  /\ ask' = [ask EXCEPT ![c] = "idle"]

\* Tokens and persons change as they like.
LookupNext ==
  /\ valid' \in [Clients -> BOOLEAN]
  /\ person' \in [Clients -> Answers]
  /\ \/ \E c \in Clients : Ask(c) \/ Verify(c) \/ Learn(c) \/ Tell(c) \/ GiveUp(c)
     \/ UNCHANGED <<ask, got>>

Ends(c) == ask[c] # "idle" ~> ask[c] = "idle"

LookupSpec == LookupInit /\ [][LookupNext]_lookupVars /\ \A c \in Clients : Ends(c)
=============================================================================
