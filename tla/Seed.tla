-------------------------------- MODULE Seed --------------------------------
(***************************************************************************)
(* The script that fills a database (seed.ts): for each row of a fixed     *)
(* plan it looks whether the row is there and, if not, saves it.  Nothing  *)
(* but the e-mail of a user is unique, habits and groups save what belongs *)
(* to them after their own row, and a script may end anywhere and be run   *)
(* again, or twice at a time.                                              *)
(***************************************************************************)
EXTENDS Naturals, Sequences

CONSTANTS
  Scripts,       \* processes that run the script
  MaxStarts,     \* bound: how often it is started
  People,        \* sequence: the regular users
  Titles,        \* sequence: the tasks of each
  Salaries,      \* sequence: the descriptions of their transactions, one of them twice
  LoggedDays,    \* days of a habit's streak
  MembersOf      \* members of a group

ASSUME MaxStartsAssumption == MaxStarts \in Nat
ASSUME NamesAssumption == {People, Titles, Salaries} \subseteq Seq(STRING)
ASSUME LoggedDaysAssumption == LoggedDays \in Nat
ASSUME MembersOfAssumption == MembersOf \in Nat

VARIABLES
  script,    \* by process: what it does next (at), for which row of the plan (item)
             \* and, of a row that it saves parts of, which one of the template (row)
  starts,    \* times that the script was started
  rows,      \* by template: the rows stored, each as the number of its parts
  missed,     \* history: templates that two scripts missed before either saved
  cut,       \* history: templates a script ended within the parts of
  seeded     \* history: a script came to its end

seedVars == <<script, starts, rows, missed, cut, seeded>>

-----------------------------------------------------------------------------

\* A row to save: what findOne looks for, and how many rows belong to it.
Template(table, owner, name, parts) ==
  [table |-> table, owner |-> owner, name |-> name, parts |-> parts]

\* For each user, for each template.
ForEach(table, names, parts) ==
  [k \in 1 .. Len(People) * Len(names) |->
     Template(table, People[1 + ((k - 1) \div Len(names))],
              names[1 + ((k - 1) % Len(names))], parts)]

SeedUsers == ForEach("user", <<"self">>, 0)
SeedTasks == ForEach("task", Titles, 0)

\* A habit and the logs of its streak.
SeedHabits == ForEach("habit", <<"Exercise">>, LoggedDays)
SeedAccounts == ForEach("account", <<"Savings">>, 0)

\* Two of the templates look for the same description and type.
SeedTransactions == ForEach("transaction", Salaries, 0)
SeedBudgets == ForEach("budget", <<"food">>, 0)

\* A group, its members one by one, and its transactions in one save.
SeedGroups == <<Template("group", People[1], "Road Trip", MembersOf + 1)>>

\* All messages of a user in one save, if he has none.
SeedNotifications == ForEach("notification", <<"any">>, 0)
SeedBanner == <<Template("banner", "everybody", "any", 0)>>

Plan == SeedUsers \o SeedTasks \o SeedHabits \o SeedAccounts \o SeedTransactions \o SeedBudgets
          \o SeedGroups \o SeedNotifications \o SeedBanner

Templates == {Plan[n] : n \in 1 .. Len(Plan)}

Off == [at |-> "off", item |-> 0, row |-> 0]

Doing(r) == Plan[script[r].item]

SeedInit ==
  /\ script = [r \in Scripts |-> Off]
  /\ starts = 0
  /\ rows = [t \in Templates |-> <<>>]
  /\ missed = {}
  /\ cut = {}
  /\ seeded = FALSE

-----------------------------------------------------------------------------

Start(r) ==
  /\ script[r] = Off
  /\ starts < MaxStarts
  /\ starts' = starts + 1
  /\ script' = [script EXCEPT ![r] = [Off EXCEPT !.at = "find", !.item = 1]]
  /\ UNCHANGED <<rows, missed, cut, seeded>>

\* To the next row of the plan, or to the end.
Advance(r) ==
  IF script[r].item = Len(Plan)
  THEN /\ script' = [script EXCEPT ![r] = Off]
       /\ seeded' = TRUE
  ELSE /\ script' = [script EXCEPT ![r] = [Off EXCEPT !.at = "find", !.item = script[r].item + 1]]
       /\ UNCHANGED seeded

\* Mutant: when a user is there, all that is his is taken to be.
SkipSeededUser(r) ==
  /\ script[r].at = "find"
  /\ IF rows[Doing(r)] = <<>>
     THEN /\ script' = [script EXCEPT ![r].at = "save"]
          /\ UNCHANGED seeded
     ELSE IF Doing(r).table = "user"
     THEN /\ script' = [script EXCEPT ![r] = Off]
          /\ seeded' = TRUE
     ELSE Advance(r)
  /\ UNCHANGED <<starts, rows, missed, cut>>

\* findOne, or count: a row that is there is left as it is.
FindRow(r) ==
  /\ script[r].at = "find"
  /\ IF rows[Doing(r)] # <<>>
     THEN Advance(r)
     ELSE /\ script' = [script EXCEPT ![r].at = "save"]
          /\ UNCHANGED seeded
  /\ UNCHANGED <<starts, rows, missed, cut>>

\* Of one e-mail there is one user: the second save fails, and the script with it.
RefuseUser(r) ==
  /\ script[r].at = "save"
  /\ Doing(r).table = "user"
  /\ rows[Doing(r)] # <<>>
  /\ script' = [script EXCEPT ![r] = Off]
  /\ UNCHANGED <<starts, rows, missed, cut, seeded>>

SaveRow(r) ==
  LET t == Doing(r)
  IN /\ script[r].at = "save"
     /\ t.table = "user" => rows[t] = <<>>
     /\ rows' = [rows EXCEPT ![t] = Append(@, 0)]
     /\ missed' = IF rows[t] = <<>> THEN missed ELSE missed \cup {t}
     /\ IF t.parts = 0
        THEN Advance(r)
        ELSE /\ script' = [script EXCEPT ![r].at = "parts", ![r].row = Len(rows[t]) + 1]
             /\ UNCHANGED seeded
     /\ UNCHANGED <<starts, cut>>

\* A log of the habit, or a member or the transactions of the group, that this script has saved.
SavePart(r) ==
  LET t == Doing(r)
      i == script[r].row
  IN /\ script[r].at = "parts"
     /\ rows' = [rows EXCEPT ![t][i] = @ + 1]
     /\ IF rows[t][i] + 1 = t.parts
        THEN Advance(r)
        ELSE UNCHANGED <<script, seeded>>
     /\ UNCHANGED <<starts, missed, cut>>

\* The process ends, or a statement fails: everything saved stays.
StopScript(r) ==
  /\ script[r] # Off
  /\ cut' = IF script[r].at = "parts" THEN cut \cup {Doing(r)} ELSE cut
  /\ script' = [script EXCEPT ![r] = Off]
  /\ UNCHANGED <<starts, rows, missed, seeded>>

SeedNext ==
  \E r \in Scripts : Start(r) \/ FindRow(r) \/ RefuseUser(r) \/ SaveRow(r) \/ SavePart(r)
                       \/ StopScript(r)

-----------------------------------------------------------------------------

\* Once a script has come to its end everything of the plan is there, whatever ended
\* before it (the first comment of seed.ts: for each user).  A row is there twice only if
\* two scripts had missed it, and never a user; a habit without its logs and a group
\* without its members are there only if a script ended just then, and then for good:
\* the next one finds the row and leaves it.
SeedComplete ==
  \A t \in Templates :
    /\ seeded => rows[t] # <<>>
    /\ Len(rows[t]) > 1 => t \in missed /\ t.table # "user"
    /\ \A i \in 1 .. Len(rows[t]) :
         rows[t][i] # t.parts =>
           \/ t \in cut
           \/ \E r \in Scripts : script[r].at = "parts" /\ Doing(r) = t /\ script[r].row = i
=============================================================================
