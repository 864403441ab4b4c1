------------------------------- MODULE Flags -------------------------------
(***************************************************************************)
(* One feature flag (feature-flag.service.ts), read by the guard of the    *)
(* routes that need it.  Its row is cached for a minute when there is one. *)
(* An update and a deletion delete the entry, a creation does not.         *)
(***************************************************************************)
EXTENDS Redis

CONSTANT FlagRows   \* what administrators set the flag to

NoFlag == "no-flag"
ASSUME FlagRowsAssumption == NoFlag \notin FlagRows

VARIABLE flag       \* the row, or NoFlag

\* isEnabled, asked by the guard when nothing is cached.
GetFlag(c) ==
  /\ Miss("flag")
  /\ Begin(c, Request("load-flag", Nobody, "flag", Nobody))
  /\ UNCHANGED <<users, redis, flag>>

\* A row is cached, its absence is not.
LoadFlag(c) ==
  /\ call[c].at = "load-flag"
  /\ IF flag = NoFlag THEN End(c) ELSE GoSeeing(c, "store-flag", flag)
  /\ UNCHANGED <<users, redis, flag>>

StoreFlagEntry(c) ==
  /\ call[c].at = "store-flag"
  /\ Store("flag", call[c].seen, flag)
  /\ End(c)
  /\ UNCHANGED <<users, flag>>

\* createFlag, and seedDefaults past its check: the name is unique.
CreateFlag(c, a, f) ==
  /\ Admin(a, FlagRoutes, "createFlag") \/ Admin(a, FlagRoutes, "seedDefaults")
  /\ Once(c)
  /\ flag = NoFlag
  /\ flag' = f
  /\ UNCHANGED <<users, redis>>

\* updateFlag, and deleteFlag with f = NoFlag, find the row.
FindFlag(c, a, f) ==
  /\ Admin(a, FlagRoutes, IF f = NoFlag THEN "deleteFlag" ELSE "updateFlag")
  /\ flag # NoFlag
  /\ Begin(c, Request("update-flag", a, "flag", f))
  /\ UNCHANGED <<users, redis, flag>>

\* The write, which fails if the row is gone, and then its entry goes.
StoreFlag(c) ==
  /\ call[c].at = "update-flag"
  /\ IF flag = NoFlag
     THEN End(c) /\ UNCHANGED flag
     ELSE /\ flag' = call[c].as
          /\ Go(c, [call[c] EXCEPT !.at = "evict-flag"])
  /\ UNCHANGED <<users, redis>>

EvictFlag(c) ==
  /\ call[c].at = "evict-flag"
  /\ Delete("flag")
  /\ End(c)
  /\ UNCHANGED <<users, flag>>

FlagsNext(c) ==
  \/ GetFlag(c) \/ LoadFlag(c) \/ StoreFlagEntry(c)
  \/ \E a \in Users, f \in FlagRows : CreateFlag(c, a, f)
  \/ \E a \in Users, f \in FlagRows \cup {NoFlag} : FindFlag(c, a, f)
  \/ StoreFlag(c) \/ EvictFlag(c)

-----------------------------------------------------------------------------

FlagsTypeOK == flag \in FlagRows \cup {NoFlag}

\* "Feature flag cache" of a minute: a cached flag that differs from its row, or whose
\* row is gone, is about to be deleted or was stored by a reader that overlapped the
\* change, its delete was lost, or the change's request stopped before it.
FlagExplained ==
  \/ Miss("flag") \/ entry["flag"] = {flag}
  \/ \E c \in Clients : call[c].at = "evict-flag"
  \/ "flag" \in excused
=============================================================================
