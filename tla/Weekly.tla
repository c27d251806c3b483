------------------------------- MODULE Weekly -------------------------------
(***************************************************************************)
(* What the overview of HomePage.tsx proposes for the week:                *)
(* getWeeklyRecommendations (domain/weeklyRecommendation.ts), the          *)
(* suggestions of getWeeklyOverview (domain/weeklyOverview.ts) and         *)
(* nextScheduledRelease (domain/taskSchedule.ts).                          *)
(*                                                                         *)
(* A view v is what the page has when it is rendered:                      *)
(*   tasks (the bank), history, schedule (when a task is first due, for    *)
(*   the tasks that have an entry), now.                                   *)
(* What the overview counts, its wording and its pace are left out.        *)
(***************************************************************************)
EXTENDS Planning

CONSTANTS
    IdOrder,        \* the bank by id (localeCompare)
    MonthOf,        \* MonthOf[time]
    DeepInterval,   \* DEEP_CLEAN_INTERVAL_DAYS
    LongCard        \* minutes from which a recommendation fills its room's week

ASSUME WeeklyAssumption ==
    /\ DeepInterval \in Nat /\ LongCard \in Nat
    /\ \A t \in Task : /\ Info[t].recurrence \in Nat /\ Info[t].urgency \in Nat
                       /\ Info[t].boost \in Nat

IdRank(t) == CHOOSE k \in DOMAIN IdOrder : IdOrder[k] = t

ReleasedIn(t, v) == IsTaskReleased(t, v.schedule, v.history, v.now)

Grouped(t, u) == Info[t].group # NoGroup /\ Info[u].group = Info[t].group

(* The latest of some completions, or 0. *)
Latest(done) ==
    IF done = {} THEN 0
    ELSE (CHOOSE c \in done : \A d \in done : d.at <= c.at).at

-----------------------------------------------------------------------------
(* The weekly recommendations. *)

(* A task counts as done when it or another of its group was. *)
Done(t, v) ==
    {c \in v.history : c.task = t \/ (c.task \in v.tasks /\ Grouped(t, c.task))}

IsNew(t, v) == Done(t, v) = {}

Age(t, v) == v.now - Latest(Done(t, v))

Due(t, v) ==
    /\ t \in v.tasks /\ Info[t].recurrence > 0 /\ Info[t].weekly
    /\ MonthOf[v.now] \in Info[t].activeMonths
    /\ ReleasedIn(t, v)
    /\ IsNew(t, v) \/ Age(t, v) >= Info[t].recurrence

(* How urgent it is, times its recurrence: a new task is as good as twice due. *)
Urgency(t, v) ==
    (IF IsNew(t, v) THEN 200 * Info[t].recurrence ELSE 100 * Age(t, v))
        + Info[t].urgency * Info[t].recurrence

RecommendedBefore(t, u, v) ==
    LET mine == Urgency(t, v) * Info[u].recurrence
        other == Urgency(u, v) * Info[t].recurrence
    IN mine > other \/ (mine = other /\ IdRank(t) < IdRank(u))

(* Those of some due tasks that nobody comes before: one, or none.         *)
MostUrgent(tasks, v) ==
    {t \in tasks : \A u \in tasks \ {t} : RecommendedBefore(t, u, v)}

(* What the page recommends. *)
WeeklyRecommendation(v) == MostUrgent({t \in Task : Due(t, v)}, v)

(* The first of the others that was done before. *)
SecondRecommendation(v) ==
    MostUrgent({t \in Task : Due(t, v) /\ ~IsNew(t, v)} \ WeeklyRecommendation(v), v)

-----------------------------------------------------------------------------
(* The weekly overview. *)

IsDeep(t) == Info[t].deep /\ ~Info[t].recommendationOnly

(* A property of the task bank: its deep cleans are none of the weekly     *)
(* recommendations (taskBank.ts, declutterTaskBank.ts).                    *)
ASSUME DeepAssumption == \A t \in Task : IsDeep(t) => ~Info[t].weekly

(* Mutant of DeepCompletions: the other tasks of their groups do not count. *)
DeepCompletionsOwn(v) == {c \in v.history : c.task \in v.tasks /\ IsDeep(c.task)}

DeepCompletions(v) ==
    {c \in v.history : \E t \in v.tasks :
        IsDeep(t) /\ (c.task = t \/ (c.task \in v.tasks /\ Grouped(t, c.task)))}

DeepCleanDue(v) ==
    DeepCompletions(v) = {} \/ v.now - Latest(DeepCompletions(v)) >= DeepInterval

Own(t, v) == {c \in v.history : c.task = t}

(* oldestDeepTask: done longest ago or never, of those the highest boost,  *)
(* of those the first of the bank.                                         *)
OlderDeep(t, u, v) ==
    LET mine == Latest(Own(t, v)) other == Latest(Own(u, v)) IN
    \/ mine < other
    \/ mine = other /\ Info[t].boost > Info[u].boost
    \/ mine = other /\ Info[t].boost = Info[u].boost /\ Position(t) < Position(u)

DeepCleanTask(v) ==
    IF ~DeepCleanDue(v) THEN {}
    ELSE LET released == {t \in v.tasks : IsDeep(t) /\ ReleasedIn(t, v)} IN
         {t \in released : \A u \in released \ {t} : OlderDeep(t, u, v)}

(* A long recommendation is enough for the room it is in. *)
Suggestions(v) ==
    LET first == WeeklyRecommendation(v)
        crowded(t) == \E r \in first : Info[r].room = Info[t].room /\ Info[r].minutes >= LongCard
    IN first \cup {t \in DeepCleanTask(v) : ~crowded(t)} \cup SecondRecommendation(v)

-----------------------------------------------------------------------------
(* Mutant of NextRelease: what was never done is not looked at. *)
NextReleaseOfDone(v) ==
    LET waiting == {t \in DOMAIN v.schedule :
                        v.schedule[t] > v.now /\ \E c \in v.history : c.task = t} IN
    {v.schedule[t] : t \in {u \in waiting : \A w \in waiting : v.schedule[u] <= v.schedule[w]}}

(* nextScheduledRelease: when the next unknown task comes, if one does.    *)
NextRelease(v) ==
    LET waiting == {t \in DOMAIN v.schedule :
                        v.schedule[t] > v.now /\ \A c \in v.history : c.task # t} IN
    {v.schedule[t] : t \in {u \in waiting : \A w \in waiting : v.schedule[u] <= v.schedule[w]}}
=============================================================================
