------------------------------- MODULE Redis -------------------------------
(***************************************************************************)
(* The cache of the platform (redis.service.ts), which swallows errors: a  *)
(* get that fails is a miss, a set that fails stores nothing, and a delete *)
(* that fails leaves the entry until its time is over.                     *)
(***************************************************************************)
EXTENDS Desk

CONSTANTS
  Readers,    \* bound: users with an inbox, a habit and a place in a group
  MaxFaults   \* bound: failed deletes

ASSUME ReadersAssumption == Readers \subseteq Users
\* A user's key is none of the others.
ASSUME KeysAssumption == Users \cap {"banners", "flag", "dashboard"} = {}
ASSUME MaxFaultsAssumption == MaxFaults \in Nat

VARIABLES
  entry,    \* by key: no value, or the one that is cached
  faults,   \* failed deletes so far
  excused   \* history: keys whose entry may be old with nothing left to delete it

redis == <<entry, faults, excused>>

\* The users' inboxes, the active banners, the one flag, and one user's dashboard.
Keys == Readers \cup {"banners", "flag", "dashboard"}

Miss(k) == entry[k] = {}

\* The value is stored, however old by now, or not at all.
Store(k, value, now) ==
  /\ \/ /\ entry' = [entry EXCEPT ![k] = {value}]
        /\ excused' = IF value = now THEN excused \ {k} ELSE excused \cup {k}
     \/ UNCHANGED <<entry, excused>>
  /\ UNCHANGED faults

Excuse(K) == excused' = excused \cup {k \in K : ~Miss(k)}

Delete(k) ==
  \/ /\ entry' = [entry EXCEPT ![k] = {}]
     /\ excused' = excused \ {k}
     /\ UNCHANGED faults
  \/ /\ faults < MaxFaults
     /\ faults' = faults + 1
     /\ Excuse({k})
     /\ UNCHANGED entry

\* The time of an entry is over.
Expire(k) ==
  /\ ~Miss(k)
  /\ entry' = [entry EXCEPT ![k] = {}]
  /\ excused' = excused \ {k}
  /\ UNCHANGED faults

\* The rows behind these keys change and nobody deletes the entries.
ChangeUnnoticed(K) == Excuse(K) /\ UNCHANGED <<entry, faults>>
=============================================================================
