----------------------------- MODULE RbacProofs -----------------------------
(***************************************************************************)
(* Proofs about Rbac, for any users, roles, grants and number of  *)
(* overlapping requests, and any bounds.                                   *)
(***************************************************************************)
EXTENDS Rbac, FiniteSetTheorems, TLAPS

\* What a section will use is there.
JobInv ==
  \A c \in Clients :
    /\ pc[c] \in {"load", "fill"} => Subject(c) \in Users /\ status[Subject(c)] # "new"
    /\ pc[c] \in {"assign", "count", "remove", "clear", "insert", "enrol"} =>
         job[c].user \in Users
    /\ pc[c] \in {"seed", "seed role"} => job[c].list \subseteq Roles

\* Nothing is cached for a user that does not exist yet.
FreshInv == \A a \in Users : status[a] = "new" => cache[a] = {}

\* One removal of a SUPER_ADMIN at a time, and past the check another is left.
RemovalInv ==
  ~bypassed =>
    /\ SuperAdmins # {}
    /\ \A c, d \in Clients : Removing(c) /\ Removing(d) => c = d
    /\ \A c \in Clients :
         Removing(c) /\ pc[c] # "count" => SuperAdmins \ {job[c].user} # {}

IInv == TypeOK /\ JobInv /\ FreshInv /\ RemovalInv /\ CacheExplained

LEMMA NoJobTyped == NoJob \in Jobs
  BY RolesAssumption DEF NoJob, Jobs

LEMMA DefinitionTyped == \A r \in Roles : Definition(r) \subseteq Catalog
  BY DEF Definition, Catalog

LEMMA InitIInv == Init => IInv
<1> SUFFICES ASSUME Init
             PROVE  IInv
  OBVIOUS
<1>1. TypeOK
  <2>1. /\ status \in [Users -> {"new", "USER", "ADMIN", "SUPERADMIN", "gone"}]
        /\ assigned \in [Users -> SUBSET Roles]
        /\ \A a \in Users : assigned[a] # {} => There(a)
    BY RolesAssumption DEF Init, Live, There
  <2>2. perms \in [Roles -> SUBSET Catalog]
    BY DefinitionTyped DEF Init
  <2>3. pc \in [Clients -> Steps] /\ job \in [Clients -> Jobs]
    BY NoJobTyped DEF Init, Steps
  <2>4. changes \in 0..MaxChanges /\ faults \in 0..MaxFaults
    BY BoundsAssumption DEF Init
  <2> QED
    BY <2>1, <2>2, <2>3, <2>4 DEF TypeOK, Init
<1>2. JobInv /\ FreshInv /\ CacheExplained
  BY DEF Init, JobInv, FreshInv, CacheExplained
<1>3. RemovalInv
  <2>1. SuperAdmins # {}
    BY DEF Init, Supers, SuperAdmins
  <2> QED
    BY <2>1 DEF Init, RemovalInv, Removing
<1> QED
  BY <1>1, <1>2, <1>3 DEF IInv

-----------------------------------------------------------------------------
(* What one request may do to each part of the invariant.                  *)

\* The other requests stay where they are.
LEMMA GoFacts ==
  ASSUME TypeOK, NEW c \in Clients, NEW next \in Steps, NEW k \in Jobs, Go(c, next, k)
  PROVE  /\ pc' \in [Clients -> Steps] /\ job' \in [Clients -> Jobs]
         /\ pc'[c] = next /\ job'[c] = k
         /\ \A d \in Clients : d # c => pc'[d] = pc[d] /\ job'[d] = job[d]
  BY DEF TypeOK, Go

\* Others(c): all but c stay where they are.
Others(c) == \A d \in Clients : d # c => pc'[d] = pc[d] /\ job'[d] = job[d]

\* A request that takes no SUPER_ADMIN away and is between no check and its
\* delete, or was and is no more.
LEMMA KeepRemoval ==
  ASSUME IInv, NEW c \in Clients, Others(c), SuperAdmins \subseteq SuperAdmins',
         bypassed' = bypassed, ~Removing(c)'
  PROVE  RemovalInv'
<1>1. \A d \in Clients : Removing(d)' => d # c /\ Removing(d) /\ pc'[d] = pc[d] /\ job'[d] = job[d]
  BY DEF Others, Removing
<1> QED
  BY <1>1 DEF IInv, RemovalInv

\* A request that leaves rows and cache alone and owes no less than before.
LEMMA KeepCache ==
  ASSUME IInv, NEW c \in Clients, Others(c), UNCHANGED <<rows, cache>>,
         stale \subseteq stale', Owed(c) \subseteq Owed(c)' \cup stale'
  PROVE  CacheExplained'
<1>1. \A d \in Clients : d # c => Owed(d)' = Owed(d)
  BY DEF Others, Owed, UsersOf, rows
<1>2. \A a \in Users : (There(a)' <=> There(a)) /\ cache'[a] = cache[a] /\ \A p : IsRight(a, p)' <=> IsRight(a, p)
  BY DEF rows, Live, There, IsRight, Granted
<1> SUFFICES ASSUME NEW a \in Users, There(a)', NEW p \in cache'[a], ~IsRight(a, p)'
             PROVE  a \in stale' \/ \E d \in Clients : a \in Owed(d)'
  BY DEF CacheExplained
<1>3. a \in stale \/ \E d \in Clients : a \in Owed(d)
  BY <1>2 DEF IInv, CacheExplained
<1>4. CASE a \in stale
  BY <1>4
<1>5. CASE \E d \in Clients : a \in Owed(d)
  BY <1>1, <1>5
<1> QED
  BY <1>3, <1>4, <1>5

\* Roles of u change, or the permissions of a role whose users are owed: every
\* entry of another user is as right as before.
LEMMA KeepCacheOfOthers ==
  ASSUME IInv, NEW c \in Clients, Others(c), NEW u \in Users, 
         \A a \in Users \ {u} : assigned'[a] = assigned[a] /\ status'[a] = status[a],
         UNCHANGED <<perms, cache>>, stale \subseteq stale', Owed(c) \subseteq {u},
         There(u)' /\ cache'[u] # {} => u \in stale' \/ u \in Owed(c)'
  PROVE  CacheExplained'
<1>1. \A d \in Clients : d # c => Owed(d) \ {u} \subseteq Owed(d)'
  BY DEF Others, Owed, UsersOf
<1> SUFFICES ASSUME NEW a \in Users, There(a)', NEW p \in cache'[a], ~IsRight(a, p)', a # u
             PROVE  a \in stale' \/ \E d \in Clients : a \in Owed(d)'
  BY DEF CacheExplained
<1>2. There(a) /\ p \in cache[a] /\ ~IsRight(a, p)
  BY DEF Live, There, IsRight, Granted
<1>3. a \in stale \/ \E d \in Clients : a \in Owed(d)
  BY <1>2 DEF IInv, CacheExplained
<1> QED
  BY <1>1, <1>3

LEMMA EndTyped == "idle" \in Steps /\ NoJob \in Jobs
  BY NoJobTyped DEF Steps

\* Whose permissions k asks for.
SubjectOf(k) == IF k.user = Nobody THEN k.actor ELSE k.user

\* k is what the section next needs.
Fits(next, k) ==
  /\ next \in Steps /\ k \in Jobs
  /\ next \in {"load", "fill"} => SubjectOf(k) \in Users /\ status[SubjectOf(k)] # "new"
  /\ next \in {"assign", "count", "remove", "clear", "insert", "enrol"} => k.user \in Users
  /\ next \in {"seed", "seed role"} => k.list \subseteq Roles

LEMMA EndFits == Fits("idle", NoJob)
  BY EndTyped DEF Fits

\* Users come to exist and cease to, and none is new again.
NoneNew == \A a \in Users : status'[a] = "new" => status[a] = "new"

LEMMA KeepJobs ==
  ASSUME IInv, NEW c \in Clients, NEW next, NEW k, Fits(next, k), Go(c, next, k), NoneNew
  PROVE  /\ JobInv' /\ Others(c)
         /\ pc' \in [Clients -> Steps] /\ job' \in [Clients -> Jobs]
         /\ pc'[c] = next /\ job'[c] = k
<1>1. /\ pc' \in [Clients -> Steps] /\ job' \in [Clients -> Jobs]
      /\ pc'[c] = next /\ job'[c] = k /\ Others(c)
  BY GoFacts DEF Fits, IInv, Others
<1>2. JobInv'
  <2> SUFFICES ASSUME NEW d \in Clients
               PROVE  JobInv!(d)'
    BY DEF JobInv
  <2>1. CASE d = c
    BY <2>1, <1>1 DEF Fits, NoneNew, Subject, SubjectOf
  <2>2. CASE d # c
    BY <2>2, <1>1 DEF IInv, JobInv, Others, NoneNew, Subject
  <2> QED
    BY <2>1, <2>2
<1> QED
  BY <1>1, <1>2

\* Sections that change no row and no entry, and that leave and enter no removal.
LEMMA QuietKeeps ==
  ASSUME IInv, NEW c \in Clients, NEW next, NEW k, Fits(next, k), Go(c, next, k),
         UNCHANGED <<rows, cache, bypassed>>, stale \subseteq stale', stale' \subseteq Users,
         changes' \in 0..MaxChanges, faults' \in 0..MaxFaults,
         ~Removing(c)', Owed(c) \subseteq Owed(c)' \cup stale'
  PROVE  IInv'
<1>1. NoneNew
  BY DEF NoneNew, rows
<1>2. /\ JobInv' /\ Others(c)
      /\ pc' \in [Clients -> Steps] /\ job' \in [Clients -> Jobs]
  BY <1>1, KeepJobs
<1>3. TypeOK'
  BY <1>2 DEF IInv, TypeOK, rows, Live, There
<1>4. FreshInv'
  BY DEF IInv, FreshInv, rows
<1>5. RemovalInv'
  BY <1>2, KeepRemoval DEF Supers, SuperAdmins, Live, rows
<1>6. CacheExplained'
  BY <1>2, KeepCache
<1> QED
  BY <1>2, <1>3, <1>4, <1>5, <1>6 DEF IInv

-----------------------------------------------------------------------------
(* One lemma per action.                                                   *)

\* A handler counts its change.
LEMMA HandleFacts ==
  ASSUME IInv, NEW c \in Clients, NEW any, Handle(c, any)
  PROVE  pc[c] = "handle" /\ changes' \in 0..MaxChanges /\ Owed(c) = {} /\ ~Removing(c)
  BY BoundsAssumption DEF Handle, IInv, TypeOK, Owed, Removing

LEMMA BeginKeeps ==
  ASSUME IInv, NEW c \in Clients, NEW a \in Users, Begin(c, a)
  PROVE  IInv'
<1>1. PICK next \in {"load", "handle"}, k \in Jobs :
        /\ Go(c, next, k) /\ SubjectOf(k) = a
        /\ UNCHANGED <<rows, cache, changes, faults, stale, bypassed>>
  <2>1. \A p \in SUBSET Catalog : [NoJob EXCEPT !.actor = a, !.may = p] \in Jobs
    BY NoJobTyped DEF Jobs
  <2>2. [NoJob EXCEPT !.actor = a] \in Jobs /\ SubjectOf([NoJob EXCEPT !.actor = a]) = a
    BY NoJobTyped DEF Jobs, NoJob, SubjectOf
  <2>3. \A p \in cache[a] : p \in SUBSET Catalog
    BY DEF IInv, TypeOK
  <2>4. \A p : SubjectOf([NoJob EXCEPT !.actor = a, !.may = p]) = a
    BY DEF NoJob, SubjectOf
  <2> QED
    BY <2>1, <2>2, <2>3, <2>4 DEF Begin
<1>2. pc[c] = "idle" /\ status[a] # "new" /\ Owed(c) = {}
  BY DEF Begin, Live, Owed
<1>3. Fits(next, k)
  BY <1>1, <1>2 DEF Fits, Steps
<1>4. pc'[c] = next
  BY <1>1, <1>3, GoFacts DEF IInv, Fits
<1> QED
  BY <1>1, <1>2, <1>3, <1>4, QuietKeeps DEF Removing, IInv, TypeOK

LEMMA GrantedTyped ==
  ASSUME IInv, NEW a \in Users
  PROVE  Granted(a) \in SUBSET Catalog
<1>1. \A r \in assigned[a] : perms[r] \subseteq Catalog
  BY DEF IInv, TypeOK
<1> QED
  BY <1>1 DEF Granted

LEMMA LookKeeps ==
  ASSUME IInv, NEW c \in Clients, NEW u \in Users, GetEffectivePermissions(c, u)
  PROVE  IInv'
<1> DEFINE j == [NoJob EXCEPT !.user = u]
<1>a. j \in Jobs
  BY NoJobTyped DEF Jobs
<1>b. j.user = u /\ j.actor = Nobody
  BY DEF NoJob
<1>1. j \in Jobs /\ SubjectOf(j) = u
  BY <1>a, <1>b DEF SubjectOf
<1>2. Fits("load", j)
  BY <1>1 DEF Fits, Steps, GetEffectivePermissions
<1>3. Go(c, "load", j) \/ Go(c, "idle", NoJob)
  BY DEF GetEffectivePermissions, End
<1>4. PICK next \in {"load", "idle"}, k \in Jobs : Fits(next, k) /\ Go(c, next, k)
  BY <1>2, <1>3, EndFits DEF Fits
<1> HIDE DEF j
<1>5. pc'[c] = next
  BY <1>4, GoFacts DEF IInv, Fits
<1>6. /\ UNCHANGED <<rows, cache, changes, faults, stale, bypassed>>
      /\ Owed(c) = {}
  BY DEF GetEffectivePermissions, Owed
<1> QED
  BY <1>4, <1>5, <1>6, QuietKeeps DEF Removing, IInv, TypeOK

\* A request that is answered ends, or goes on to its handler.
LEMMA AnswerFits ==
  ASSUME IInv, NEW c \in Clients, NEW p \in SUBSET Catalog, Answer(c, p)
  PROVE  \E next \in {"handle", "idle"}, k \in Jobs : Fits(next, k) /\ Go(c, next, k)
<1>1. CASE job[c].user = Nobody
  <2>1. Go(c, "handle", [job[c] EXCEPT !.may = p])
    BY <1>1 DEF Answer
  <2>2. [job[c] EXCEPT !.may = p] \in Jobs
    BY DEF IInv, TypeOK, Jobs
  <2>3. Fits("handle", [job[c] EXCEPT !.may = p])
    BY <2>2 DEF Fits, Steps
  <2> QED
    BY <2>1, <2>2, <2>3
<1>2. CASE job[c].user # Nobody
  BY <1>2, EndFits, NoJobTyped DEF Answer, End
<1> QED
  BY <1>1, <1>2

LEMMA LoadKeeps ==
  ASSUME IInv, NEW c \in Clients, Load(c)
  PROVE  IInv'
<1>a. pc[c] = "load"
  BY DEF Load
<1>b. Subject(c) \in Users /\ status[Subject(c)] # "new" /\ job[c] \in Jobs
  BY <1>a DEF IInv, JobInv, TypeOK
<1>1. Granted(Subject(c)) \in SUBSET Catalog
  BY <1>b, GrantedTyped
<1>2. PICK next \in {"handle", "fill", "idle"}, k \in Jobs : Fits(next, k) /\ Go(c, next, k)
  <2>1. CASE Answer(c, Catalog)
    <3>1. Catalog \in SUBSET Catalog
      OBVIOUS
    <3> QED
      BY <2>1, <3>1, AnswerFits
  <2>2. CASE Go(c, "fill", [job[c] EXCEPT !.may = Granted(Subject(c))])
    <3> DEFINE j == [job[c] EXCEPT !.may = Granted(Subject(c))]
    <3>1. j \in Jobs /\ SubjectOf(j) = Subject(c)
      BY <1>b, <1>1 DEF Jobs, Subject, SubjectOf
    <3>2. Fits("fill", j)
      BY <1>b, <3>1 DEF Fits, Steps
    <3> QED
      BY <2>2, <3>1, <3>2
  <2> QED
    BY <2>1, <2>2 DEF Load
<1>3. UNCHANGED <<rows, cache, changes, faults, stale, bypassed>> /\ Owed(c) = {}
  BY DEF Load, Owed
<1>4. pc'[c] = next
  BY <1>2, GoFacts DEF IInv, Fits
<1> QED
  BY <1>2, <1>3, <1>4, QuietKeeps DEF Removing, IInv, TypeOK

LEMMA LeaveKeeps ==
  ASSUME IInv, NEW c \in Clients, Leave(c)
  PROVE  IInv'
<1>1. Go(c, "idle", NoJob) /\ UNCHANGED <<rows, cache, changes, faults, stale, bypassed>> /\ Owed(c) = {}
  BY DEF Leave, End, Owed
<1>2. pc'[c] = "idle"
  BY <1>1, EndTyped, GoFacts DEF IInv
<1> QED
  BY <1>1, <1>2, EndFits, QuietKeeps DEF Removing, IInv, TypeOK

LEMMA StopKeeps ==
  ASSUME IInv, NEW c \in Clients, Stop(c)
  PROVE  IInv'
<1>1. /\ Go(c, "idle", NoJob) /\ UNCHANGED <<rows, cache, changes, bypassed>>
      /\ faults' \in 0..MaxFaults /\ stale' = stale \cup Owed(c)
  BY BoundsAssumption DEF Stop, End, IInv, TypeOK
<1>2. pc'[c] = "idle"
  BY <1>1, EndTyped, GoFacts DEF IInv
<1>3. Owed(c) \subseteq Users
  BY DEF Owed
<1> QED
  BY <1>1, <1>2, <1>3, EndFits, QuietKeeps DEF Removing, IInv, TypeOK

\* A removal that is asked for or passes the check.
LEMMA RemovalKeeps ==
  ASSUME IInv, NEW c \in Clients, NEW next, NEW k, Fits(next, k), Go(c, next, k),
         UNCHANGED <<rows, cache, faults, stale>>, changes' \in 0..MaxChanges,
         bypassed' \in BOOLEAN, bypassed => bypassed',
         ~bypassed' => Removing(c) \/ ~Overlapping(c),
         ~bypassed' /\ next # "count" => SuperAdmins \ {k.user} # {},
         Owed(c) = {}
  PROVE  IInv'
<1>1. NoneNew
  BY DEF NoneNew, rows
<1>2. /\ JobInv' /\ Others(c)
      /\ pc' \in [Clients -> Steps] /\ job' \in [Clients -> Jobs]
      /\ pc'[c] = next /\ job'[c] = k
  BY <1>1, KeepJobs
<1>3. TypeOK'
  BY <1>2 DEF IInv, TypeOK, rows, Live, There
<1>4. FreshInv'
  BY DEF IInv, FreshInv, rows
<1>5. RemovalInv'
  <2> SUFFICES ASSUME ~bypassed'
               PROVE  RemovalInv!2'
    BY DEF RemovalInv
  <2>1. \A d \in Clients : d # c => ~Removing(d)
    BY DEF IInv, RemovalInv, Overlapping
  <2>2. \A d \in Clients : d # c => ~Removing(d)'
    BY <1>2, <2>1 DEF Others, Removing
  <2>3. SuperAdmins' = SuperAdmins
    BY DEF Supers, SuperAdmins, Live, rows
  <2> QED
    BY <1>2, <2>2, <2>3 DEF IInv, RemovalInv
<1>6. CacheExplained'
  BY <1>2, KeepCache
<1> QED
  BY <1>2, <1>3, <1>4, <1>5, <1>6 DEF IInv

LEMMA AssignKeeps ==
  ASSUME IInv, NEW c \in Clients, NEW u \in Users, NEW r \in Roles, Assign(c, u, r)
  PROVE  IInv'
<1> DEFINE k == [NoJob EXCEPT !.user = u, !.role = r]
<1>1. k \in Jobs /\ k.user = u
  BY NoJobTyped DEF Jobs
<1>2. Fits("assign", k)
  BY <1>1 DEF Fits, Steps
<1>3. /\ Handle(c, RbacRoutes.assignRoleToAdmin) /\ Go(c, "assign", k)
      /\ UNCHANGED <<rows, cache, faults, stale, bypassed>>
  BY DEF Assign
<1> HIDE DEF k
<1>4. changes' \in 0..MaxChanges /\ Owed(c) = {}
  BY <1>3, HandleFacts
<1>5. pc'[c] = "assign"
  BY <1>2, <1>3, GoFacts DEF IInv, Fits
<1> QED
  BY <1>2, <1>3, <1>4, <1>5, QuietKeeps DEF Removing, IInv, TypeOK

LEMMA RemoveKeeps ==
  ASSUME IInv, NEW c \in Clients, NEW u \in Users, NEW r \in Roles, Remove(c, u, r)
  PROVE  IInv'
<1> DEFINE k == [NoJob EXCEPT !.user = u, !.role = r]
           next == IF r = SuperAdmin THEN "count" ELSE "remove"
<1>1. k \in Jobs /\ k.user = u /\ k.role = r
  BY NoJobTyped DEF Jobs
<1>2. Fits(next, k)
  BY <1>1 DEF Fits, Steps
<1>3. /\ Handle(c, RbacRoutes.removeRoleFromAdmin) /\ Go(c, next, k)
      /\ bypassed' = (bypassed \/ (r = SuperAdmin /\ Overlapping(c)))
      /\ UNCHANGED <<rows, cache, faults, stale>>
  BY DEF Remove
<1>4. changes' \in 0..MaxChanges /\ Owed(c) = {}
  BY <1>3, HandleFacts
<1>5. bypassed' \in BOOLEAN /\ (bypassed => bypassed')
  BY <1>3 DEF IInv, TypeOK
<1> HIDE DEF k
<1>6. CASE r = SuperAdmin
  <2>1. next = "count" /\ (~bypassed' => ~Overlapping(c))
    BY <1>3, <1>6
  <2> QED
    BY <1>2, <1>3, <1>4, <1>5, <2>1, RemovalKeeps
<1>7. CASE r # SuperAdmin
  <2>1. bypassed' = bypassed /\ next = "remove"
    BY <1>3, <1>7 DEF IInv, TypeOK
  <2>2. pc'[c] = "remove" /\ job'[c] = k
    BY <1>2, <1>3, <2>1, GoFacts DEF IInv, Fits
  <2>3. ~Removing(c)'
    BY <1>1, <1>7, <2>2 DEF Removing, SuperAdmin
  <2> QED
    BY <1>2, <1>3, <1>4, <2>1, <2>3, QuietKeeps DEF IInv, TypeOK
<1> QED
  BY <1>6, <1>7

\* Where two are counted, one is left when any one goes.
LEMMA CountMeans ==
  ASSUME ~(Cardinality(Supers) <= 1), NEW u
  PROVE  Supers \ {u} # {}
<1> SUFFICES ASSUME Supers \subseteq {u}
             PROVE  FALSE
  OBVIOUS
<1>1. IsFiniteSet({u}) /\ Cardinality({u}) = 1
  BY FS_Singleton
<1>2. Cardinality(Supers) <= 1
  BY <1>1, FS_Subset
<1> QED
  BY <1>2

LEMMA RemoveCountsKeeps ==
  ASSUME IInv, NEW c \in Clients, RemoveCounts(c)
  PROVE  IInv'
<1>1. pc[c] = "count" /\ UNCHANGED <<rows, cache, changes, faults, stale>>
  BY DEF RemoveCounts
<1>2. job[c] \in Jobs /\ job[c].user \in Users /\ Owed(c) = {} /\ Removing(c)
  BY <1>1 DEF IInv, TypeOK, JobInv, Owed, Removing
<1>3. CASE Cardinality(Supers) <= 1
  <2>1. Go(c, "idle", NoJob) /\ UNCHANGED bypassed
    BY <1>3 DEF RemoveCounts, End
  <2>2. pc'[c] = "idle"
    BY <2>1, EndTyped, GoFacts DEF IInv
  <2> QED
    BY <1>1, <1>2, <2>1, <2>2, EndFits, QuietKeeps DEF Removing, IInv, TypeOK
<1>4. CASE ~(Cardinality(Supers) <= 1)
  <2>1. Go(c, "remove", job[c]) /\ bypassed' = (bypassed \/ OrdinaryHolder)
    BY <1>4 DEF RemoveCounts
  <2>2. Fits("remove", job[c])
    BY <1>2 DEF Fits, Steps
  <2>3. ~bypassed' => SuperAdmins \ {job[c].user} # {}
    BY <1>4, <2>1, CountMeans DEF OrdinaryHolder
  <2>4. bypassed' \in BOOLEAN /\ (bypassed => bypassed') /\ changes' \in 0..MaxChanges
    BY <1>1, <2>1 DEF IInv, TypeOK
  <2> QED
    BY <1>1, <1>2, <2>1, <2>2, <2>3, <2>4, RemovalKeeps
<1> QED
  BY <1>3, <1>4

LEMMA SetAdminRolesKeeps ==
  ASSUME IInv, NEW c \in Clients, NEW u \in Users, NEW list \in SUBSET Roles,
         NEW hasCode \in BOOLEAN, SetAdminRoles(c, u, list, hasCode)
  PROVE  IInv'
<1> DEFINE l == IF hasCode THEN {Nobody} ELSE list
           k == [NoJob EXCEPT !.user = u, !.list = l]
<1>0. l \in SUBSET (Roles \cup {Nobody})
  OBVIOUS
<1> HIDE DEF l
<1>1. k \in Jobs /\ k.user = u
  BY <1>0, NoJobTyped DEF Jobs
<1>2. Fits("clear", k)
  BY <1>1 DEF Fits, Steps
<1>3. /\ Handle(c, RbacRoutes.setAdminRoles) /\ Go(c, "clear", k)
      /\ hasCode \/ Supers = {} \/ Supers \ {u} # {}
      /\ bypassed' = (bypassed \/ Overlapping(c) \/ hasCode \/ OrdinaryHolder)
      /\ UNCHANGED <<rows, cache, faults, stale>>
  BY DEF SetAdminRoles, l
<1> HIDE DEF k
<1>4. changes' \in 0..MaxChanges /\ Owed(c) = {}
  BY <1>3, HandleFacts
<1>5. bypassed' \in BOOLEAN /\ (bypassed => bypassed')
  BY <1>3 DEF IInv, TypeOK
<1>6. ~bypassed' => ~Overlapping(c) /\ SuperAdmins \ {u} # {}
  BY <1>3 DEF IInv, RemovalInv, OrdinaryHolder
<1> QED
  BY <1>1, <1>2, <1>3, <1>4, <1>5, <1>6, RemovalKeeps

LEMMA UpdateRoleKeeps ==
  ASSUME IInv, NEW c \in Clients, NEW r \in Roles, UpdateRole(c, r)
  PROVE  IInv'
<1> DEFINE k == [NoJob EXCEPT !.role = r]
<1>1. k \in Jobs
  BY NoJobTyped DEF Jobs
<1>2. Fits("find", k)
  BY <1>1 DEF Fits, Steps
<1>3. /\ Handle(c, RbacRoutes.updateRole) /\ Go(c, "find", k)
      /\ UNCHANGED <<rows, cache, faults, stale, bypassed>>
  BY DEF UpdateRole
<1> HIDE DEF k
<1>4. changes' \in 0..MaxChanges /\ Owed(c) = {}
  BY <1>3, HandleFacts
<1>5. pc'[c] = "find"
  BY <1>2, <1>3, GoFacts DEF IInv, Fits
<1> QED
  BY <1>2, <1>3, <1>4, <1>5, QuietKeeps DEF Removing, IInv, TypeOK

LEMMA FindUsersKeeps ==
  ASSUME IInv, NEW c \in Clients, FindUsers(c)
  PROVE  IInv'
<1> DEFINE users == {a \in Users : job[c].role \in assigned[a]}
           k == [NoJob EXCEPT !.evict = users]
<1>1. pc[c] = "find" /\ UNCHANGED <<rows, cache, changes, faults, stale, bypassed>>
  BY DEF FindUsers
<1>2. Owed(c) = users
  BY <1>1 DEF Owed
<1>3. CASE users = {}
  <2>1. Go(c, "idle", NoJob)
    BY <1>3 DEF FindUsers, End
  <2>2. pc'[c] = "idle"
    BY <2>1, EndTyped, GoFacts DEF IInv
  <2> HIDE DEF users
  <2> QED
    BY <1>1, <1>2, <1>3, <2>1, <2>2, EndFits, QuietKeeps DEF Removing, IInv, TypeOK
<1>4. CASE users # {}
  <2>1. Go(c, "evict", k)
    BY <1>4 DEF FindUsers
  <2>2. k \in Jobs /\ k.evict = users
    BY NoJobTyped DEF Jobs
  <2>3. Fits("evict", k)
    BY <2>2 DEF Fits, Steps
  <2>5. users \subseteq Users
    OBVIOUS
  <2> HIDE DEF k, users
  <2>4. pc'[c] = "evict" /\ job'[c] = k
    BY <2>1, <2>3, GoFacts DEF IInv, Fits
  <2>6. Owed(c)' = users
    BY <2>2, <2>4, <2>5 DEF Owed
  <2> QED
    BY <1>1, <1>2, <2>1, <2>3, <2>4, <2>6, QuietKeeps DEF Removing, IInv, TypeOK
<1> QED
  BY <1>3, <1>4

LEMMA SeedKeeps ==
  ASSUME IInv, NEW c \in Clients, Seed(c)
  PROVE  IInv'
<1> DEFINE k == [NoJob EXCEPT !.list = Roles]
<1>1. k \in Jobs /\ k.list = Roles
  BY NoJobTyped DEF Jobs
<1>2. Fits("seed", k)
  BY <1>1 DEF Fits, Steps
<1>3. Go(c, "seed", k) /\ UNCHANGED <<rows, cache, faults, stale, bypassed>>
  BY DEF Seed
<1>4. changes' \in 0..MaxChanges /\ Owed(c) = {}
  <2>1. CASE pc[c] = "idle" /\ changes < MaxChanges /\ changes' = changes + 1
    BY <2>1, BoundsAssumption DEF Owed, IInv, TypeOK
  <2>2. CASE Handle(c, RbacRoutes.seedRbac)
    BY <2>2, HandleFacts
  <2> QED
    BY <2>1, <2>2 DEF Seed
<1> HIDE DEF k
<1>5. pc'[c] = "seed"
  BY <1>2, <1>3, GoFacts DEF IInv, Fits
<1> QED
  BY <1>2, <1>3, <1>4, <1>5, QuietKeeps DEF Removing, IInv, TypeOK

-----------------------------------------------------------------------------
(* The actions that write.                                                 *)

\* A SUPER_ADMIN that was checked is taken away, or kept.
LEMMA RemovalDone ==
  ASSUME IInv, NEW c \in Clients, Others(c), Removing(c), pc[c] # "count",
         ~Removing(c)', SuperAdmins \ {job[c].user} \subseteq SuperAdmins', bypassed' = bypassed
  PROVE  RemovalInv'
<1> SUFFICES ASSUME ~bypassed
             PROVE  RemovalInv!2'
  BY DEF RemovalInv
<1>1. SuperAdmins \ {job[c].user} # {}
  BY DEF IInv, RemovalInv
<1>2. \A d \in Clients : d # c => ~Removing(d)
  BY DEF IInv, RemovalInv
<1>3. \A d \in Clients : ~Removing(d)'
  BY <1>2 DEF Others, Removing
<1> QED
  BY <1>1, <1>3

\* The roles of one user change: what has to be shown of the action.
LEMMA RolesKeep ==
  ASSUME IInv, NEW c \in Clients, NEW u \in Users, NEW next, NEW k,
         Fits(next, k), Go(c, next, k), NEW R \in SUBSET Roles,
         assigned' = [assigned EXCEPT ![u] = R], R # {} => There(u),
         UNCHANGED <<status, perms, cache, changes, faults, bypassed>>,
         stale \subseteq stale', stale' \subseteq Users,
         Owed(c) \subseteq {u}, cache[u] # {} => u \in stale' \/ u \in Owed(c)',
         RemovalInv'
  PROVE  IInv'
<1>1. NoneNew
  BY DEF NoneNew
<1>2. /\ JobInv' /\ Others(c)
      /\ pc' \in [Clients -> Steps] /\ job' \in [Clients -> Jobs]
  BY <1>1, KeepJobs
<1>3. /\ assigned' \in [Users -> SUBSET Roles] /\ assigned'[u] = R
      /\ \A a \in Users \ {u} : assigned'[a] = assigned[a]
  BY DEF IInv, TypeOK
<1>4. TypeOK'
  <2>1. \A a \in Users : assigned'[a] # {} => There(a)'
    BY <1>3 DEF IInv, TypeOK, Live, There
  <2> QED
    BY <1>2, <1>3, <2>1 DEF IInv, TypeOK
<1>5. FreshInv'
  BY DEF IInv, FreshInv
<1>6. CacheExplained'
  BY <1>2, <1>3, KeepCacheOfOthers
<1> QED
  BY <1>2, <1>4, <1>5, <1>6 DEF IInv

\* SuperAdmins, when the roles of one user change.
LEMMA SupersChange ==
  ASSUME IInv, NEW u \in Users, NEW R, assigned' = [assigned EXCEPT ![u] = R], status' = status
  PROVE  /\ SuperAdmins \ {u} \subseteq SuperAdmins'
         /\ (SuperAdmin \in assigned[u] => SuperAdmin \in R) => SuperAdmins \subseteq SuperAdmins'
  BY DEF Supers, SuperAdmins, Live, IInv, TypeOK

LEMMA EvictFits ==
  ASSUME NEW E \in SUBSET Users
  PROVE  /\ Fits("evict", [NoJob EXCEPT !.evict = E])
         /\ [NoJob EXCEPT !.evict = E].evict = E
<1>1. [NoJob EXCEPT !.evict = E] \in Jobs /\ [NoJob EXCEPT !.evict = E].evict = E
  BY NoJobTyped DEF Jobs
<1> QED
  BY <1>1 DEF Fits, Steps

LEMMA AfterGo ==
  ASSUME IInv, NEW c \in Clients, NEW next, NEW k, Fits(next, k), Go(c, next, k)
  PROVE  pc'[c] = next /\ job'[c] = k /\ Others(c)
  BY GoFacts DEF IInv, Fits, Others

LEMMA AssignWritesKeeps ==
  ASSUME IInv, NEW c \in Clients, AssignWrites(c)
  PROVE  IInv'
<1> DEFINE u == job[c].user
           k == [NoJob EXCEPT !.evict = {u}]
<1>1. pc[c] = "assign" /\ UNCHANGED <<status, perms, cache, changes, faults, stale, bypassed>>
  BY DEF AssignWrites
<1>2. u \in Users /\ job[c].role \in Roles /\ Owed(c) = {}
  BY <1>1 DEF IInv, TypeOK, JobInv, Jobs, Owed
<1>3. CASE There(u) /\ job[c].role \notin assigned[u]
  <2> DEFINE R == assigned[u] \cup {job[c].role}
  <2>1. assigned' = [assigned EXCEPT ![u] = R] /\ Go(c, "evict", k)
    BY <1>3 DEF AssignWrites
  <2>2. R \in SUBSET Roles
    BY <1>2 DEF IInv, TypeOK
  <2>3. Fits("evict", k) /\ k.evict = {u}
    BY <1>2, EvictFits
  <2>4. SuperAdmin \in assigned[u] => SuperAdmin \in R
    OBVIOUS
  <2> HIDE DEF k, R
  <2>5. pc'[c] = "evict" /\ job'[c] = k /\ Others(c)
    BY <2>1, <2>3, AfterGo
  <2>6. RemovalInv'
    BY <1>1, <1>2, <2>1, <2>4, <2>5, KeepRemoval, SupersChange DEF Removing
  <2>7. u \in Owed(c)'
    BY <1>2, <2>3, <2>5 DEF Owed
  <2> HIDE DEF u
  <2> QED
    BY <1>1, <1>2, <1>3, <2>1, <2>2, <2>3, <2>6, <2>7, RolesKeep DEF IInv, TypeOK
<1>4. CASE ~(There(u) /\ job[c].role \notin assigned[u])
  <2>1. UNCHANGED assigned /\ Go(c, "idle", NoJob)
    BY <1>4 DEF AssignWrites, End
  <2>2. pc'[c] = "idle"
    BY <2>1, EndFits, AfterGo
  <2> QED
    BY <1>1, <1>2, <2>1, <2>2, EndFits, QuietKeeps DEF Removing, IInv, TypeOK, rows
<1> QED
  BY <1>3, <1>4

LEMMA RemoveWritesKeeps ==
  ASSUME IInv, NEW c \in Clients, RemoveWrites(c)
  PROVE  IInv'
<1> DEFINE u == job[c].user
           k == [NoJob EXCEPT !.evict = {u}]
           R == assigned[u] \ {job[c].role}
<1>1. /\ pc[c] = "remove" /\ assigned' = [assigned EXCEPT ![u] = R]
      /\ UNCHANGED <<status, perms, cache, changes, faults, stale, bypassed>>
  BY DEF RemoveWrites
<1>2. u \in Users /\ Owed(c) = {} /\ R \in SUBSET Roles
  BY <1>1 DEF IInv, TypeOK, JobInv, Owed
<1>3. CASE job[c].role \in assigned[u]
  <2>1. Go(c, "evict", k)
    BY <1>3 DEF RemoveWrites
  <2>3. Fits("evict", k) /\ k.evict = {u}
    BY <1>2, EvictFits
  <2>8. R # {} => There(u)
    BY <1>3, <1>2 DEF IInv, TypeOK
  <2>4. job[c].role # SuperAdmin => (SuperAdmin \in assigned[u] => SuperAdmin \in R)
    OBVIOUS
  <2> HIDE DEF k, R
  <2>5. pc'[c] = "evict" /\ job'[c] = k /\ Others(c) /\ ~Removing(c)'
    BY <2>1, <2>3, AfterGo DEF Removing
  <2>6. RemovalInv'
    <3>1. CASE job[c].role = SuperAdmin
      <4>1. Removing(c) /\ SuperAdmins \ {u} \subseteq SuperAdmins'
        BY <1>1, <1>2, <3>1, SupersChange DEF Removing
      <4> QED
        BY <1>1, <2>5, <4>1, RemovalDone
    <3>2. CASE job[c].role # SuperAdmin
      BY <1>1, <1>2, <2>4, <2>5, <3>2, KeepRemoval, SupersChange
    <3> QED
      BY <3>1, <3>2
  <2>7. u \in Owed(c)'
    BY <1>2, <2>3, <2>5 DEF Owed
  <2> HIDE DEF u
  <2> QED
    BY <1>1, <1>2, <2>1, <2>3, <2>6, <2>7, <2>8, RolesKeep DEF IInv, TypeOK
<1>4. CASE job[c].role \notin assigned[u]
  <2>1. Go(c, "idle", NoJob)
    BY <1>4 DEF RemoveWrites, End
  <2>2. pc'[c] = "idle"
    BY <2>1, EndFits, AfterGo
  <2>3. R = assigned[u]
    BY <1>4
  <2>4. assigned' = assigned
    BY <1>1, <1>2, <2>3 DEF IInv, TypeOK
  <2> QED
    BY <1>1, <1>2, <2>1, <2>2, <2>4, EndFits, QuietKeeps DEF Removing, IInv, TypeOK, rows
<1> QED
  BY <1>3, <1>4

LEMMA ClearRolesKeeps ==
  ASSUME IInv, NEW c \in Clients, ClearRoles(c)
  PROVE  IInv'
<1> DEFINE u == job[c].user
           e == [NoJob EXCEPT !.evict = {u}]
<1>1. /\ pc[c] = "clear" /\ assigned' = [assigned EXCEPT ![u] = {}]
      /\ UNCHANGED <<status, perms, cache, changes, faults, stale, bypassed>>
  BY DEF ClearRoles
<1>2. u \in Users /\ job[c] \in Jobs /\ Owed(c) = {} /\ Removing(c)
  BY <1>1 DEF IInv, TypeOK, JobInv, Owed, Removing
<1>3. PICK next \in {"evict", "insert"}, k \in Jobs :
        /\ Go(c, next, k) /\ Fits(next, k)
        /\ next = "evict" => k.evict = {u}
        /\ next = "insert" => k.user = u
  <2>1. CASE job[c].list = {}
    <3>1. Go(c, "evict", e)
      BY <2>1 DEF ClearRoles
    <3>2. Fits("evict", e) /\ e.evict = {u}
      BY <1>2, EvictFits
    <3> QED
      BY <3>1, <3>2 DEF Fits
  <2>2. CASE job[c].list # {}
    <3>1. Go(c, "insert", job[c])
      BY <2>2 DEF ClearRoles
    <3>2. Fits("insert", job[c])
      BY <1>2 DEF Fits, Steps
    <3> QED
      BY <3>1, <3>2 DEF Fits
  <2> QED
    BY <2>1, <2>2
<1>4. pc'[c] = next /\ job'[c] = k /\ Others(c)
  BY <1>3, AfterGo
<1>5. ~Removing(c)' /\ u \in Owed(c)'
  BY <1>2, <1>3, <1>4 DEF Removing, Owed
<1>6. SuperAdmins \ {u} \subseteq SuperAdmins'
  BY <1>1, <1>2, SupersChange
<1>7. RemovalInv'
  BY <1>1, <1>2, <1>4, <1>5, <1>6, RemovalDone
<1> HIDE DEF u
<1>8. {} \in SUBSET Roles /\ stale \subseteq stale' /\ stale' \subseteq Users
  BY <1>1 DEF IInv, TypeOK
<1> QED
  BY <1>1, <1>2, <1>3, <1>5, <1>7, <1>8, RolesKeep

LEMMA InsertRolesKeeps ==
  ASSUME IInv, NEW c \in Clients, InsertRoles(c)
  PROVE  IInv'
<1> DEFINE u == job[c].user
           k == [NoJob EXCEPT !.evict = {u}]
           fits == There(u) /\ job[c].list \subseteq Roles \ assigned[u]
<1>1. pc[c] = "insert" /\ UNCHANGED <<status, perms, cache, changes, faults, bypassed>>
  BY DEF InsertRoles
<1>2. u \in Users /\ Owed(c) = {u}
  BY <1>1 DEF IInv, JobInv, Owed
<1>3. CASE fits
  <2> DEFINE R == assigned[u] \cup job[c].list
  <2>1. assigned' = [assigned EXCEPT ![u] = R] /\ Go(c, "evict", k) /\ UNCHANGED stale
    BY <1>3 DEF InsertRoles
  <2>2. R \in SUBSET Roles /\ There(u)
    BY <1>2, <1>3 DEF IInv, TypeOK
  <2>3. Fits("evict", k) /\ k.evict = {u}
    BY <1>2, EvictFits
  <2>4. SuperAdmin \in assigned[u] => SuperAdmin \in R
    OBVIOUS
  <2> HIDE DEF k, R
  <2>5. pc'[c] = "evict" /\ job'[c] = k /\ Others(c)
    BY <2>1, <2>3, AfterGo
  <2>6. RemovalInv'
    BY <1>1, <1>2, <2>1, <2>4, <2>5, KeepRemoval, SupersChange DEF Removing
  <2>7. u \in Owed(c)'
    BY <1>2, <2>3, <2>5 DEF Owed
  <2> HIDE DEF u
  <2> QED
    BY <1>1, <1>2, <2>1, <2>2, <2>3, <2>6, <2>7, RolesKeep DEF IInv, TypeOK
<1>4. CASE ~fits
  <2>1. UNCHANGED assigned /\ Go(c, "idle", NoJob) /\ stale' = stale \cup {u}
    BY <1>4 DEF InsertRoles, End
  <2>2. pc'[c] = "idle"
    BY <2>1, EndFits, AfterGo
  <2> QED
    BY <1>1, <1>2, <2>1, <2>2, EndFits, QuietKeeps DEF Removing, IInv, TypeOK, rows
<1> QED
  BY <1>3, <1>4

LEMMA EnrolKeeps ==
  ASSUME IInv, NEW c \in Clients, Enrol(c)
  PROVE  IInv'
<1> DEFINE u == job[c].user
           gives == There(u) /\ job[c].role \notin assigned[u]
           R == IF gives THEN assigned[u] \cup {job[c].role} ELSE assigned[u]
<1>1. /\ pc[c] = "enrol" /\ Go(c, "idle", NoJob)
      /\ stale' = IF cache[u] = {} THEN stale ELSE stale \cup {u}
      /\ UNCHANGED <<status, perms, cache, changes, faults, bypassed>>
  BY DEF Enrol, End
<1>2. u \in Users /\ job[c].role \in Roles /\ Owed(c) = {}
  BY <1>1 DEF IInv, TypeOK, JobInv, Jobs, Owed
<1>3. assigned' = [assigned EXCEPT ![u] = R]
  <2>1. CASE gives
    BY <2>1 DEF Enrol
  <2>2. CASE ~gives
    BY <1>2, <2>2 DEF Enrol, IInv, TypeOK
  <2> QED
    BY <2>1, <2>2
<1>4. R \in SUBSET Roles /\ (R # {} => There(u))
  BY <1>2 DEF IInv, TypeOK
<1>5. SuperAdmin \in assigned[u] => SuperAdmin \in R
  OBVIOUS
<1> HIDE DEF R
<1>6. pc'[c] = "idle" /\ job'[c] = NoJob /\ Others(c)
  BY <1>1, EndFits, AfterGo
<1>7. RemovalInv'
  BY <1>1, <1>2, <1>3, <1>5, <1>6, KeepRemoval, SupersChange DEF Removing
<1>8. stale \subseteq stale' /\ stale' \subseteq Users /\ (cache[u] # {} => u \in stale')
  BY <1>1, <1>2 DEF IInv, TypeOK
<1> HIDE DEF u
<1> QED
  BY <1>1, <1>2, <1>3, <1>4, <1>7, <1>8, EndFits, RolesKeep

\* The permissions of one role change, and its users are owed an eviction or
\* marked as stale.
LEMMA PermsKeep ==
  ASSUME IInv, NEW c \in Clients, NEW r \in Roles, NEW next, NEW k,
         Fits(next, k), Go(c, next, k), NEW P \in SUBSET Catalog,
         perms' = [perms EXCEPT ![r] = P],
         UNCHANGED <<status, assigned, cache, faults, bypassed>>,
         changes' \in 0..MaxChanges,
         stale \subseteq stale', stale' \subseteq Users, Owed(c) = {},
         UsersOf(r) \subseteq stale' \cup Owed(c)', ~Removing(c)'
  PROVE  IInv'
<1>1. NoneNew
  BY DEF NoneNew
<1>2. /\ JobInv' /\ Others(c)
      /\ pc' \in [Clients -> Steps] /\ job' \in [Clients -> Jobs]
  BY <1>1, KeepJobs
<1>3. perms' \in [Roles -> SUBSET Catalog]
  BY DEF IInv, TypeOK
<1>4. TypeOK'
  BY <1>2, <1>3 DEF IInv, TypeOK, Live, There
<1>5. FreshInv'
  BY DEF IInv, FreshInv
<1>6. RemovalInv'
  BY <1>2, KeepRemoval DEF Supers, SuperAdmins, Live
<1>7. CacheExplained'
  <2> SUFFICES ASSUME NEW a \in Users, There(a)', NEW p \in cache'[a], ~IsRight(a, p)',
                      a \notin UsersOf(r)
               PROVE  a \in stale' \/ \E d \in Clients : a \in Owed(d)'
    BY DEF CacheExplained
  <2>1. \A s \in assigned[a] : perms'[s] = perms[s]
    BY DEF UsersOf, IInv, TypeOK
  <2>2. Granted(a)' = Granted(a)
    BY <2>1 DEF Granted
  <2>3. There(a) /\ p \in cache[a] /\ ~IsRight(a, p)
    BY <2>2 DEF Live, There, IsRight
  <2>4. a \in stale \/ \E d \in Clients : a \in Owed(d)
    BY <2>3 DEF IInv, CacheExplained
  <2>5. \A d \in Clients : d # c => Owed(d)' = Owed(d)
    BY <1>2 DEF Others, Owed
  <2> QED
    BY <2>4, <2>5
<1> QED
  BY <1>2, <1>4, <1>5, <1>6, <1>7 DEF IInv

LEMMA SetRolePermissionsKeeps ==
  ASSUME IInv, NEW c \in Clients, NEW r \in Roles, NEW p \in Grants, SetRolePermissions(c, r, p)
  PROVE  IInv'
<1> DEFINE k == [NoJob EXCEPT !.role = r]
<1>1. k \in Jobs /\ k.role = r
  BY NoJobTyped DEF Jobs
<1>2. Fits("find", k)
  BY <1>1 DEF Fits, Steps
<1>3. /\ Handle(c, RbacRoutes.setRolePermissions) /\ Go(c, "find", k) /\ perms' = [perms EXCEPT ![r] = p]
      /\ UNCHANGED <<status, assigned, cache, faults, stale, bypassed>>
  BY DEF SetRolePermissions
<1> HIDE DEF k
<1>4. changes' \in 0..MaxChanges /\ Owed(c) = {}
  BY <1>3, HandleFacts
<1>5. pc'[c] = "find" /\ job'[c] = k
  BY <1>2, <1>3, AfterGo
<1>6. UsersOf(r) \subseteq Owed(c)' /\ ~Removing(c)'
  BY <1>1, <1>3, <1>5 DEF UsersOf, Owed, Removing
<1>7. p \in SUBSET Catalog
  BY GrantsAssumption
<1> QED
  BY <1>2, <1>3, <1>4, <1>6, <1>7, PermsKeep DEF IInv, TypeOK

LEMMA SeedClearsKeeps ==
  ASSUME IInv, NEW c \in Clients, NEW r \in Roles, SeedClears(c, r)
  PROVE  IInv'
<1> DEFINE k == [job[c] EXCEPT !.role = r, !.list = @ \ {r}]
<1>1. /\ pc[c] = "seed" /\ perms' = [perms EXCEPT ![r] = {}] /\ stale' = stale \cup UsersOf(r)
      /\ Go(c, "seed role", k)
      /\ UNCHANGED <<status, assigned, cache, changes, faults, bypassed>>
  BY DEF SeedClears
<1>2. job[c] \in Jobs /\ job[c].list \subseteq Roles /\ Owed(c) = {}
  BY <1>1 DEF IInv, TypeOK, JobInv, Owed
<1>3. k \in Jobs /\ k.list \subseteq Roles
  BY <1>2 DEF Jobs
<1>4. Fits("seed role", k)
  BY <1>3 DEF Fits, Steps
<1> HIDE DEF k
<1>5. pc'[c] = "seed role"
  BY <1>1, <1>4, AfterGo
<1>6. UsersOf(r) \subseteq Users
  BY DEF UsersOf
<1>7. ~Removing(c)' /\ stale' \subseteq Users /\ changes' \in 0..MaxChanges
  BY <1>1, <1>5, <1>6 DEF Removing, IInv, TypeOK
<1>8. {} \in SUBSET Catalog /\ stale \subseteq stale' /\ UsersOf(r) \subseteq stale' \cup Owed(c)'
  BY <1>1
<1> QED
  BY <1>1, <1>2, <1>4, <1>7, <1>8, PermsKeep

LEMMA SeedCreatesKeeps ==
  ASSUME IInv, NEW c \in Clients, SeedCreates(c)
  PROVE  IInv'
<1> DEFINE r == job[c].role
<1>1. pc[c] = "seed role" /\ UNCHANGED <<status, assigned, cache, changes, faults, bypassed>>
  BY DEF SeedCreates
<1>2. job[c] \in Jobs /\ job[c].list \subseteq Roles /\ r \in Roles /\ Owed(c) = {}
  BY <1>1 DEF IInv, TypeOK, JobInv, Owed, Jobs
<1>3. CASE perms[r] \cap Definition(r) = {}
  <2> DEFINE P == perms[r] \cup Definition(r)
  <2>1. perms' = [perms EXCEPT ![r] = P] /\ stale' = stale \cup UsersOf(r)
    BY <1>3 DEF SeedCreates
  <2>2. P \in SUBSET Catalog
    BY <1>2, DefinitionTyped DEF IInv, TypeOK
  <2>3. PICK next \in {"idle", "seed"}, k \in Jobs : Go(c, next, k) /\ Fits(next, k)
    <3>1. CASE job[c].list = {}
      BY <1>3, <3>1, EndFits DEF SeedCreates, End, Fits
    <3>2. CASE job[c].list # {}
      <4>1. Go(c, "seed", job[c])
        BY <1>3, <3>2 DEF SeedCreates
      <4>2. Fits("seed", job[c])
        BY <1>2 DEF Fits, Steps
      <4> QED
        BY <4>1, <4>2 DEF Fits
    <3> QED
      BY <3>1, <3>2
  <2> HIDE DEF P, r
  <2>4. pc'[c] = next
    BY <2>3, AfterGo
  <2>5. UsersOf(r) \subseteq Users
    BY DEF UsersOf
  <2>6. ~Removing(c)' /\ stale' \subseteq Users /\ changes' \in 0..MaxChanges
    BY <1>1, <2>1, <2>4, <2>5 DEF Removing, IInv, TypeOK
  <2>7. stale \subseteq stale' /\ UsersOf(r) \subseteq stale' \cup Owed(c)'
    BY <2>1
  <2> QED
    BY <1>1, <1>2, <2>1, <2>2, <2>3, <2>6, <2>7, PermsKeep
<1>4. CASE perms[r] \cap Definition(r) # {}
  <2>1. UNCHANGED <<perms, stale>> /\ Go(c, "idle", NoJob)
    BY <1>4 DEF SeedCreates, End
  <2>2. pc'[c] = "idle"
    BY <2>1, EndFits, AfterGo
  <2> QED
    BY <1>1, <1>2, <2>1, <2>2, EndFits, QuietKeeps DEF Removing, IInv, TypeOK, rows
<1> QED
  BY <1>3, <1>4

\* One entry of the cache changes.
LEMMA EntryExplained ==
  ASSUME IInv, NEW a \in Users, NEW E \in SUBSET SUBSET Catalog, UNCHANGED rows,
         cache' = [cache EXCEPT ![a] = E], stale \ {a} \subseteq stale',
         \A d \in Clients : Owed(d) \ {a} \subseteq Owed(d)',
         \A p \in E : IsRight(a, p) \/ a \in stale'
  PROVE  CacheExplained'
<1>1. cache'[a] = E /\ \A b \in Users \ {a} : cache'[b] = cache[b]
  BY DEF IInv, TypeOK
<1>2. \A b \in Users : (There(b)' <=> There(b)) /\ \A p : IsRight(b, p)' <=> IsRight(b, p)
  BY DEF rows, Live, There, IsRight, Granted
<1> SUFFICES ASSUME NEW b \in Users, There(b)', NEW p \in cache'[b], ~IsRight(b, p)', b # a
             PROVE  b \in stale' \/ \E d \in Clients : b \in Owed(d)'
  BY <1>1, <1>2 DEF CacheExplained
<1>3. b \in stale \/ \E d \in Clients : b \in Owed(d)
  BY <1>1, <1>2 DEF IInv, CacheExplained
<1> QED
  BY <1>3

LEMMA FillKeeps ==
  ASSUME IInv, NEW c \in Clients, Fill(c)
  PROVE  IInv'
<1> DEFINE a == Subject(c)
           E == {job[c].may}
<1>1. /\ pc[c] = "fill" /\ cache' = [cache EXCEPT ![a] = E]
      /\ stale' = IF IsRight(a, job[c].may) THEN stale \ {a} ELSE stale \cup {a}
      /\ Answer(c, job[c].may)
      /\ UNCHANGED <<rows, changes, faults, bypassed>>
  BY DEF Fill
<1>a. job[c] \in Jobs /\ Owed(c) = {}
  BY <1>1 DEF IInv, TypeOK, Owed
<1>b. a \in Users /\ status[a] # "new"
  BY <1>1 DEF IInv, JobInv
<1>c. job[c].may \in SUBSET Catalog
  BY <1>a DEF Jobs
<1>2. /\ a \in Users /\ status[a] # "new" /\ job[c] \in Jobs /\ Owed(c) = {}
      /\ E \in SUBSET SUBSET Catalog
  BY <1>a, <1>b, <1>c
<1>3. PICK next \in {"handle", "idle"}, k \in Jobs : Fits(next, k) /\ Go(c, next, k)
  BY <1>1, <1>c, AnswerFits
<1>4. NoneNew
  BY <1>1 DEF NoneNew, rows
<1>5. /\ JobInv' /\ Others(c) /\ pc'[c] \in {"handle", "idle"}
      /\ pc' \in [Clients -> Steps] /\ job' \in [Clients -> Jobs]
  BY <1>1, <1>3, <1>4, KeepJobs
<1>6. TypeOK'
  BY <1>1, <1>2, <1>5 DEF IInv, TypeOK, rows, Live, There
<1>7. FreshInv'
  BY <1>1, <1>2 DEF IInv, FreshInv, rows, TypeOK
<1>8. RemovalInv'
  BY <1>1, <1>5, KeepRemoval DEF Supers, SuperAdmins, Live, rows, Removing
<1>9. CacheExplained'
  <2>1. \A d \in Clients : Owed(d) \subseteq Owed(d)'
    BY <1>1, <1>2, <1>5 DEF Others, Owed, rows
  <2>2. stale \ {a} \subseteq stale' /\ \A p \in E : IsRight(a, p) \/ a \in stale'
    BY <1>1
  <2> HIDE DEF a, E
  <2> QED
    BY <1>1, <1>2, <2>1, <2>2, EntryExplained
<1> QED
  BY <1>5, <1>6, <1>7, <1>8, <1>9 DEF IInv

LEMMA ExpireKeeps ==
  ASSUME IInv, NEW a \in Users, Expire(a)
  PROVE  IInv'
<1>1. /\ cache' = [cache EXCEPT ![a] = {}] /\ stale' = stale \ {a}
      /\ UNCHANGED <<rows, pc, job, changes, faults, bypassed>>
  BY DEF Expire
<1>2. TypeOK' /\ JobInv' /\ FreshInv' /\ RemovalInv'
  BY <1>1 DEF IInv, TypeOK, JobInv, FreshInv, RemovalInv, rows, Live, There, Subject,
     Supers, SuperAdmins, Removing
<1>3. CacheExplained'
  <2> DEFINE E == {}
  <2>1. \A d \in Clients : Owed(d) \ {a} \subseteq Owed(d)'
    BY <1>1 DEF Owed, rows
  <2>2. /\ E \in SUBSET SUBSET Catalog /\ \A p \in E : IsRight(a, p) \/ a \in stale'
        /\ cache' = [cache EXCEPT ![a] = E] /\ stale \ {a} \subseteq stale' /\ UNCHANGED rows
    BY <1>1
  <2> HIDE DEF E
  <2> QED
    BY <2>1, <2>2, EntryExplained
<1> QED
  BY <1>2, <1>3 DEF IInv

LEMMA EvictKeeps ==
  ASSUME IInv, NEW c \in Clients, NEW a \in Users, Evict(c, a)
  PROVE  IInv'
<1> DEFINE left == job[c].evict \ {a}
           e == [NoJob EXCEPT !.evict = left]
<1>1. pc[c] = "evict" /\ a \in job[c].evict /\ UNCHANGED <<rows, changes, bypassed>>
  BY DEF Evict
<1>2. job[c].evict \subseteq Users /\ left \in SUBSET Users
  BY DEF IInv, TypeOK, Jobs
<1>3. PICK next \in {"idle", "evict"}, k \in Jobs :
        /\ Go(c, next, k) /\ Fits(next, k)
        /\ next = "evict" => k.evict = left
        /\ next = "idle" => left = {}
  <2>1. CASE left = {}
    <3>1. Go(c, "idle", NoJob)
      BY <2>1 DEF Evict, End
    <3> QED
      BY <2>1, <3>1, EndFits DEF Fits
  <2>2. CASE left # {}
    <3>1. Go(c, "evict", e)
      BY <2>2 DEF Evict
    <3>2. Fits("evict", e) /\ e.evict = left
      BY <1>2, EvictFits
    <3> QED
      BY <3>1, <3>2 DEF Fits
  <2> QED
    BY <2>1, <2>2
<1> HIDE DEF e
<1>4. pc'[c] = next /\ job'[c] = k /\ Others(c)
  BY <1>3, AfterGo
<1>5. Owed(c) \ {a} \subseteq Owed(c)' /\ ~Removing(c)'
  BY <1>1, <1>2, <1>3, <1>4 DEF Owed, Removing
<1>6. CASE cache' = [cache EXCEPT ![a] = {}] /\ stale' = stale \ {a} /\ UNCHANGED faults
  <2>1. NoneNew
    BY <1>1 DEF NoneNew, rows
  <2>2. JobInv' /\ pc' \in [Clients -> Steps] /\ job' \in [Clients -> Jobs]
    BY <1>3, <2>1, KeepJobs
  <2>3. TypeOK'
    BY <1>1, <1>6, <2>2 DEF IInv, TypeOK, rows, Live, There
  <2>4. FreshInv'
    BY <1>1, <1>6 DEF IInv, FreshInv, rows, TypeOK
  <2>5. RemovalInv'
    BY <1>1, <1>4, <1>5, KeepRemoval DEF Supers, SuperAdmins, Live, rows
  <2>6. CacheExplained'
    <3> DEFINE E == {}
    <3>1. \A d \in Clients : Owed(d) \ {a} \subseteq Owed(d)'
      BY <1>1, <1>4, <1>5 DEF Others, Owed, rows
    <3>2. /\ E \in SUBSET SUBSET Catalog /\ \A p \in E : IsRight(a, p) \/ a \in stale'
          /\ cache' = [cache EXCEPT ![a] = E] /\ stale \ {a} \subseteq stale' /\ UNCHANGED rows
      BY <1>1, <1>6
    <3> HIDE DEF E
    <3> QED
      BY <3>1, <3>2, EntryExplained
  <2> QED
    BY <2>2, <2>3, <2>4, <2>5, <2>6 DEF IInv
<1>7. CASE faults < MaxFaults /\ faults' = faults + 1 /\ stale' = stale \cup {a} /\ UNCHANGED cache
  <2>1. faults' \in 0..MaxFaults
    BY <1>7, BoundsAssumption DEF IInv, TypeOK
  <2>2. /\ stale \subseteq stale' /\ stale' \subseteq Users /\ Owed(c) \subseteq Owed(c)' \cup stale'
        /\ changes' \in 0..MaxChanges
    BY <1>1, <1>5, <1>7 DEF IInv, TypeOK
  <2> QED
    BY <1>1, <1>3, <1>5, <1>7, <2>1, <2>2, QuietKeeps
<1> QED
  BY <1>6, <1>7 DEF Evict

LEMMA CreateAdminKeeps ==
  ASSUME IInv, NEW c \in Clients, NEW u \in Users, NEW r \in Roles, CreateAdmin(c, u, r)
  PROVE  IInv'
<1> DEFINE j == [NoJob EXCEPT !.user = u, !.role = r]
           s == "ADMIN"
<1>1. j \in Jobs /\ j.user = u
  BY NoJobTyped DEF Jobs
<1>a. Fits("enrol", j)
  BY <1>1 DEF Fits, Steps
<1>b. Go(c, "enrol", j) \/ Go(c, "idle", NoJob)
  BY DEF CreateAdmin, End
<1>2. PICK next \in {"enrol", "idle"}, k \in Jobs : Fits(next, k) /\ Go(c, next, k)
  BY <1>a, <1>b, EndFits DEF Fits
<1>3. /\ Handle(c, AdminUserRoutes.createAdmin)
      /\ status[u] = "new" /\ status' = [status EXCEPT ![u] = s]
      /\ UNCHANGED <<assigned, perms, cache, faults, stale, bypassed>>
  BY DEF CreateAdmin
<1>0. s \in {"ADMIN", "SUPERADMIN"}
  OBVIOUS
<1> HIDE DEF j, s
<1>4. changes' \in 0..MaxChanges /\ Owed(c) = {}
  BY <1>3, HandleFacts
<1>5. /\ status' \in [Users -> {"new", "USER", "ADMIN", "SUPERADMIN", "gone"}]
      /\ status'[u] = s /\ \A a \in Users \ {u} : status'[a] = status[a]
  BY <1>0, <1>3 DEF IInv, TypeOK
<1>6. NoneNew
  BY <1>0, <1>5 DEF NoneNew
<1>7. /\ JobInv' /\ Others(c) /\ pc'[c] = next
      /\ pc' \in [Clients -> Steps] /\ job' \in [Clients -> Jobs]
  BY <1>2, <1>3, <1>6, KeepJobs
<1>8. TypeOK'
  <2>1. \A a \in Users : assigned[a] # {} => There(a)'
    BY <1>0, <1>5 DEF IInv, TypeOK, Live, There
  <2> QED
    BY <1>3, <1>4, <1>5, <1>7, <2>1 DEF IInv, TypeOK
<1>9. FreshInv'
  BY <1>3, <1>6 DEF IInv, FreshInv, NoneNew
<1>10. RemovalInv'
  BY <1>3, <1>7, KeepRemoval DEF Supers, SuperAdmins, Live, Removing
<1>11. CacheExplained'
  <2>1. cache[u] = {}
    BY <1>3 DEF IInv, FreshInv
  <2> QED
    BY <1>3, <1>4, <1>5, <1>7, <2>1, KeepCacheOfOthers
<1> QED
  BY <1>7, <1>8, <1>9, <1>10, <1>11 DEF IInv

LEMMA DeleteUserKeeps ==
  ASSUME IInv, NEW c \in Clients, NEW u \in Users, DeleteUser(c, u)
  PROVE  IInv'
<1>1. /\ Handle(c, AdminUserRoutes.deleteUser) /\ Go(c, "idle", NoJob)
      /\ status' = [status EXCEPT ![u] = "gone"] /\ assigned' = [assigned EXCEPT ![u] = {}]
      /\ bypassed' = (bypassed \/ u \in Supers)
      /\ UNCHANGED <<perms, cache, faults, stale>>
  BY DEF DeleteUser, End
<1>4. changes' \in 0..MaxChanges /\ Owed(c) = {}
  BY <1>1, HandleFacts
<1>5. /\ status' \in [Users -> {"new", "USER", "ADMIN", "SUPERADMIN", "gone"}]
      /\ assigned' \in [Users -> SUBSET Roles]
      /\ status'[u] = "gone" /\ assigned'[u] = {}
      /\ \A a \in Users \ {u} : status'[a] = status[a] /\ assigned'[a] = assigned[a]
  BY <1>1 DEF IInv, TypeOK
<1>6. NoneNew
  BY <1>5 DEF NoneNew
<1>7. /\ JobInv' /\ Others(c) /\ pc'[c] = "idle"
      /\ pc' \in [Clients -> Steps] /\ job' \in [Clients -> Jobs]
  BY <1>1, <1>6, EndFits, KeepJobs
<1>8. TypeOK'
  <2>1. \A a \in Users : assigned'[a] # {} => There(a)'
    BY <1>5 DEF IInv, TypeOK, Live, There
  <2> QED
    BY <1>1, <1>4, <1>5, <1>7, <2>1 DEF IInv, TypeOK
<1>9. FreshInv'
  BY <1>1, <1>6 DEF IInv, FreshInv, NoneNew
<1>10. RemovalInv'
  <2>1. CASE u \in Supers
    BY <1>1, <2>1 DEF RemovalInv
  <2>2. CASE u \notin Supers
    <3>1. SuperAdmin \notin assigned[u]
      BY <2>2 DEF Supers
    <3>2. SuperAdmins \subseteq SuperAdmins' /\ bypassed' = bypassed
      BY <1>1, <1>5, <2>2, <3>1 DEF IInv, TypeOK, Supers, SuperAdmins, Live
    <3> QED
      BY <1>7, <3>2, KeepRemoval DEF Removing
  <2> QED
    BY <2>1, <2>2
<1>11. CacheExplained'
  <2>1. ~There(u)'
    BY <1>5 DEF Live, There
  <2> QED
    BY <1>1, <1>4, <1>5, <1>7, <2>1, KeepCacheOfOthers
<1> QED
  BY <1>7, <1>8, <1>9, <1>10, <1>11 DEF IInv

-----------------------------------------------------------------------------
(* The theorems.                                                           *)

LEMMA NextIInv == IInv /\ [Next]_vars => IInv'
<1> SUFFICES ASSUME IInv, [Next]_vars
             PROVE  IInv'
  OBVIOUS
<1>1. ASSUME NEW c \in Clients, Section(c)
      PROVE  IInv'
  BY <1>1, LoadKeeps, FillKeeps, LeaveKeeps, AssignWritesKeeps, RemoveCountsKeeps,
     RemoveWritesKeeps, ClearRolesKeeps, InsertRolesKeeps, FindUsersKeeps,
     SeedCreatesKeeps, EnrolKeeps, EvictKeeps, SeedClearsKeeps DEF Section
<1>2. ASSUME NEW c \in Clients, Change(c)
      PROVE  IInv'
  BY <1>2, AssignKeeps, RemoveKeeps, CreateAdminKeeps, SetAdminRolesKeeps,
     SetRolePermissionsKeeps, UpdateRoleKeeps, DeleteUserKeeps, SeedKeeps DEF Change
<1>3. ASSUME UNCHANGED vars
      PROVE  IInv'
  <2>1. TypeOK' /\ JobInv' /\ FreshInv' /\ RemovalInv'
    BY <1>3 DEF IInv, TypeOK, JobInv, FreshInv, RemovalInv, vars, Live, There, Subject,
       Supers, SuperAdmins, Removing
  <2>2. CacheExplained'
    <3>1. \A d \in Clients : Owed(d)' = Owed(d)
      BY <1>3 DEF vars, Owed
    <3>2. \A a \in Users : (There(a)' <=> There(a)) /\ \A q : IsRight(a, q)' <=> IsRight(a, q)
      BY <1>3 DEF vars, Live, There, IsRight, Granted
    <3> QED
      BY <1>3, <3>1, <3>2 DEF IInv, CacheExplained, vars
  <2> QED
    BY <2>1, <2>2 DEF IInv
<1> QED
  BY <1>1, <1>2, <1>3, StopKeeps, BeginKeeps, LookKeeps, ExpireKeeps DEF Next

\* The inductive invariant: sections find what they use, removals of a
\* SUPER_ADMIN that are checked one at a time leave one, and a wrong entry has a
\* cause.
THEOREM RbacInvariance == Spec => []IInv
<1>1. Init => IInv
  BY InitIInv
<1>2. IInv /\ [Next]_vars => IInv'
  BY NextIInv
<1> QED
  BY <1>1, <1>2, PTL DEF Spec

\* Types, and a deleted user holds no role.
THEOREM RbacTypeCorrect == Spec => []TypeOK
<1>1. IInv => TypeOK
  BY DEF IInv
<1> QED
  BY <1>1, RbacInvariance, PTL

\* However assignments, grants, seeds and stops are interleaved with it, a
\* removal that passes the check keeps an administrator with SUPER_ADMIN, for
\* any users, unless an ordinary user with the role was counted.
THEOREM LastSuperAdminStays == Spec => []SuperAdminRemains
<1>1. IInv => SuperAdminRemains
  BY DEF IInv, RemovalInv, SuperAdminRemains
<1> QED
  BY <1>1, RbacInvariance, PTL

\* A cached entry that differs from what the roles grant was filled late, lost
\* its eviction or is about to be evicted.
THEOREM CacheHasACause == Spec => []CacheExplained
<1>1. IInv => CacheExplained
  BY DEF IInv
<1> QED
  BY <1>1, RbacInvariance, PTL
=============================================================================
