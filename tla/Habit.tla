------------------------------- MODULE Habit -------------------------------
(***************************************************************************)
(* Habits and their streaks (habit.service.ts), one habit for a user.  A   *)
(* completion reads the habit, then the log of the day, adds to the log    *)
(* and then to the streak it read first; nothing keeps the day unique.     *)
(***************************************************************************)
EXTENDS Inbox, FiniteSets

CONSTANTS
  MaxDay,       \* bound: days that pass
  Midnight,     \* by day: the hour, of all hours, at which it begins where the server is
  Week,         \* days of a week
  Milestones    \* streaks that are announced

ASSUME MaxDayAssumption == MaxDay \in Nat \ {0}
ASSUME WeekAssumption == Week \in Nat \ {0}
\* The clock is put forward by an hour, and back again: a day may have 23 or 25 hours.
ASSUME MidnightAssumption ==
  /\ Midnight \in [1 .. MaxDay -> Nat]
  /\ \A d, e \in 1 .. MaxDay :
       d < e => Midnight[e] - Midnight[d] \in 24 * (e - d) - 1 .. 24 * (e - d) + 1

VARIABLES
  today,      \* 1, 2, ...
  habit,      \* by user: the row
  log,        \* by user and day: the entries of the habit's log
  disturbed   \* history: users whose habit was completed twice at a time or by a
              \* request that stopped, or changed its frequency

habitVars == <<today, habit, log, disturbed>>

Frequencies == {"DAILY", "WEEKLY"}
Days == 1 .. MaxDay

NoHabit == [there |-> FALSE, frequency |-> "DAILY", streak |-> 0, longest |-> 0, last |-> 0]
NoLog == [d \in Days |-> 0]

Later(a, b) == IF a > b THEN a ELSE b

\* A habit of a user whose requests about an earlier one are over (bound).
CreateHabit(c, u, f) ==
  /\ u \in users
  /\ ~habit[u].there
  /\ \A d \in Clients : call[d].by # u
  /\ Once(c)
  /\ habit' = [habit EXCEPT ![u] = [NoHabit EXCEPT !.there = TRUE, !.frequency = f]]
  /\ log' = [log EXCEPT ![u] = NoLog]
  /\ disturbed' = disturbed \ {u}
  /\ UNCHANGED <<users, redis, inboxVars, today>>

\* updateHabit and deleteHabit find the user's habit; f is the frequency asked for
\* or, if none was, the one that was read.
FindHabit(c, u, next, f) ==
  /\ u \in users
  /\ habit[u].there
  /\ Begin(c, Request(next, u, u, f))
  /\ UNCHANGED <<users, redis, inboxVars, habitVars>>

\* An update is of the frequency, too, when it was not to change.
UpdateHabit(c) ==
  LET u == call[c].by
  IN /\ call[c].at = "update-habit"
     /\ habit' = IF habit[u].there THEN [habit EXCEPT ![u].frequency = call[c].as] ELSE habit
     /\ disturbed' = IF habit' = habit THEN disturbed ELSE disturbed \cup {u}
     /\ End(c)
     /\ UNCHANGED <<users, redis, inboxVars, today, log>>

DeleteHabit(c) ==
  LET u == call[c].by
  IN /\ call[c].at = "delete-habit"
     /\ habit' = [habit EXCEPT ![u] = NoHabit]
     /\ log' = [log EXCEPT ![u] = NoLog]
     /\ End(c)
     /\ UNCHANGED <<users, redis, inboxVars, today, disturbed>>

Completing(c, u) == call[c].at \in {"check-log", "insert-log", "update-streak"} /\ call[c].by = u

\* completeHabit reads the row that it will count from.
CompleteHabit(c, u) ==
  /\ u \in users
  /\ habit[u].there
  /\ Begin(c, [Request("check-log", u, u, Nobody) EXCEPT !.seen = habit[u]])
  /\ disturbed' = IF \E d \in Clients \ {c} : Completing(d, u)
                  THEN disturbed \cup {u} ELSE disturbed
  /\ UNCHANGED <<users, redis, inboxVars, today, habit, log>>

\* Mutant: the day's log is not looked at.
SkipLogCheck(c) ==
  /\ call[c].at = "check-log"
  /\ Go(c, [call[c] EXCEPT !.at = "insert-log", !.as = today])
  /\ UNCHANGED <<users, redis, inboxVars, habitVars>>

\* Not twice on one day, the one that began before this read.
CheckLog(c) ==
  /\ call[c].at = "check-log"
  /\ IF log[call[c].by][today] > 0
     THEN End(c)
     ELSE Go(c, [call[c] EXCEPT !.at = "insert-log", !.as = today])
  /\ UNCHANGED <<users, redis, inboxVars, habitVars>>

\* Refused when the habit is gone.
InsertLog(c) ==
  LET u == call[c].by
  IN /\ call[c].at = "insert-log"
     /\ IF habit[u].there
        THEN /\ log' = [log EXCEPT ![u][call[c].as] = @ + 1]
             /\ Go(c, [call[c] EXCEPT !.at = "update-streak"])
        ELSE End(c) /\ UNCHANGED log
     /\ UNCHANGED <<users, redis, inboxVars, today, habit, disturbed>>

\* The streak after a completion on this day, of the row as it was read.  diffDays is
\* diff / 24, a fraction after a change of the clock: a daily habit then breaks after
\* 25 hours and stays as it is after 23.
Streak(h, day) ==
  LET diff == Midnight[day] - Midnight[h.last]
  IN IF h.last = 0 THEN 1
     ELSE CASE h.frequency = "DAILY" /\ diff = 24 -> h.streak + 1
            [] h.frequency = "DAILY" /\ diff > 24 -> 1
            [] h.frequency = "WEEKLY" /\ diff <= 24 * Week -> h.streak + 1
            [] h.frequency = "WEEKLY" /\ diff > 24 * Week -> 1
            [] OTHER -> h.streak

UpdateStreak(c) ==
  LET u == call[c].by
      streak == Streak(call[c].seen, call[c].as)
  IN /\ call[c].at = "update-streak"
     /\ IF habit[u].there
        THEN /\ habit' = [habit EXCEPT ![u].streak = streak,
                                       ![u].longest = Later(streak, call[c].seen.longest),
                                       ![u].last = call[c].as]
             /\ Notify(IF streak \in Milestones THEN {u} ELSE {})
        ELSE UNCHANGED <<habit, inboxVars>>
     /\ End(c)
     /\ UNCHANGED <<users, redis, today, log, disturbed>>

NewDay ==
  /\ today < MaxDay
  /\ today' = today + 1
  /\ UNCHANGED <<desk, redis, inboxVars, habit, log, disturbed>>

HabitsDeleted(u) == [v \in Readers |-> IF v = u THEN NoHabit ELSE habit[v]]
LogsDeleted(u) == [v \in Readers |-> IF v = u THEN NoLog ELSE log[v]]

HabitNext(c) ==
  \/ \E u \in Readers :
       \/ \E f \in Frequencies : CreateHabit(c, u, f) \/ FindHabit(c, u, "update-habit", f)
       \/ FindHabit(c, u, "delete-habit", Nobody)
       \/ CompleteHabit(c, u)
  \/ UpdateHabit(c) \/ DeleteHabit(c) \/ CheckLog(c) \/ InsertLog(c) \/ UpdateStreak(c)

-----------------------------------------------------------------------------

HabitTypeOK ==
  /\ today \in Days
  /\ habit \in [Readers -> [there : BOOLEAN, frequency : Frequencies, streak : Nat,
                            longest : Nat, last : 0 .. MaxDay]]
  /\ log \in [Readers -> [Days -> Nat]]
  /\ disturbed \subseteq Readers

Gap(f) == IF f = "DAILY" THEN 24 ELSE 24 * Week

Logged(u) == {d \in Days : log[u][d] > 0}

\* The days of the log, up to the last one, with no longer gap between them.
Chain(u) ==
  {d \in Logged(u) :
     \A e \in Logged(u) : d <= e /\ e < habit[u].last =>
       \E g \in Logged(u) : e < g /\ Midnight[g] - Midnight[e] <= Gap(habit[u].frequency)}

\* Those that a daily habit does not count: the day before had 23 hours.
Uncounted(u) ==
  {d \in Chain(u) : /\ habit[u].frequency = "DAILY" /\ d - 1 \in Chain(u)
                    /\ Midnight[d] - Midnight[d - 1] = 23}

\* The streak of an undisturbed habit is the number of days it was done with no longer
\* gap than 24 hours, or 7 times 24, from midnight to midnight ("streak-broken",
\* habit.service.ts:94), of which a daily habit leaves out one after a day of 23 hours;
\* and the longest is no shorter.  Requests that overlap on one day, change the frequency
\* or stop half-way break this; a day that begins between two reads does not.
StreakIsRun ==
  \A u \in Readers \ disturbed :
    /\ habit[u].there
    /\ \A c \in Clients : ~Completing(c, u)
    => /\ habit[u].streak = Cardinality(Chain(u)) - Cardinality(Uncounted(u))
       /\ habit[u].longest >= habit[u].streak

\* "Multiple completions in the same period count as one" (docs/services/habit-service.md:96):
\* the streak of an undisturbed weekly habit is at most the number of weeks, counted
\* from the first day, in which it was done.
PeriodsCountOnce ==
  \A u \in Readers \ disturbed :
    /\ habit[u].there /\ habit[u].frequency = "WEEKLY"
    /\ \A c \in Clients : ~Completing(c, u)
    => habit[u].streak <= Cardinality({(d - 1) \div Week : d \in Logged(u)})
=============================================================================
