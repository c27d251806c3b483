------------------------------ MODULE Rotation ------------------------------
(***************************************************************************)
(* The start rotation of frontend/src/domain/taskSchedule.ts: at the first *)
(* visit every recurring or deep task of the bank is given a first due     *)
(* date, so that not all of them come up at once.  The schedule is kept in *)
(* the browser's store and completed at every visit: a later version of    *)
(* the program has other tasks.                                            *)
(*                                                                         *)
(* A page stands with the bank, the schedule and the history it was        *)
(* mounted with while days pass and tasks are done.  Any write may fail: a *)
(* private window's store, or a full one.  What the page shows is taken as *)
(* just rendered.                                                          *)
(***************************************************************************)
EXTENDS Weekly

CONSTANTS
    Banks,          \* the banks of the versions that may be deployed
    DayLength,      \* a day, in ticks of the clock
    DeepSpacing,    \* days between the first due dates of deep tasks
    Hash,           \* Hash[t]: stableHash of its id
    DefaultRecurrence, HalfYear, Year,  \* 42, 180 and 365 days
    SeasonSearch,   \* how many days moveIntoActiveSeason looks ahead
    Retention,      \* HISTORY_RETENTION_DAYS, in ticks
    Nothing,        \* no stored schedule
    MaxTime,        \* bound: the clock stops here
    MaxDone         \* bound: completions in the history, but for a card's parts

(* What a schedule may say: the tasks it has an entry for, with their dates. *)
IsSchedule(due) == \E ts \in SUBSET Task : due \in [ts -> Nat]

ASSUME RotationAssumption ==
    /\ \A b \in Banks : b \subseteq Task /\ IsFiniteSet(b)
    /\ ~IsSchedule(Nothing)
    /\ {DayLength, DeepSpacing, DefaultRecurrence, HalfYear, Year} \subseteq Nat \ {0}
    /\ {SeasonSearch, Retention, MaxTime, MaxDone} \subseteq Nat
    /\ Hash \in [Task -> Nat]

VARIABLES
    stored,         \* the entries of the stored schedule, or Nothing
    kept,           \* the store's history
    tasks,          \* page: allPlanningTasks of its version
    schedule,       \* page: taskSchedule
    history,        \* page: completionHistory
    now,
    promised,       \* history: the first date the store ever took for a task
    dropped         \* history: the tasks whose entry the store has since lost

page == <<tasks, schedule, history>>
vars == <<stored, kept, page, now, promised, dropped>>

-----------------------------------------------------------------------------
(* First due dates. *)

StartOfDay(time) == (time \div DayLength) * DayLength

AddDays(time, days) == time + days * DayLength

(* isInitiallyScheduled *)
Scheduled(t) == Info[t].firstUseDueImmediately \/ Info[t].recurrence > 0 \/ IsDeep(t)

(* The place of a deep task among those of a bank: the highest boost first. *)
DeepIndex(t, all) ==
    Cardinality({u \in all : IsDeep(u)
        /\ (Info[u].boost > Info[t].boost
            \/ (Info[u].boost = Info[t].boost /\ IdRank(u) < IdRank(t)))})

RecurrenceDays(t) ==
    IF Info[t].recurrence = 0 THEN DefaultRecurrence ELSE Info[t].recurrence \div DayLength

(* Within how many days a task comes up for the first time.                *)
Horizon(t) ==
    LET days == RecurrenceDays(t) IN
    IF days >= Year THEN Year
    ELSE IF days >= HalfYear \/ days < DefaultRecurrence THEN days
    ELSE DefaultRecurrence

(* moveIntoActiveSeason: the days out of season are passed over.           *)
InSeason(time, t) ==
    AddDays(time, Cardinality({d \in 0 .. SeasonSearch - 1 :
        \A e \in 0 .. d : MonthOf[AddDays(time, e)] \notin Info[t].activeMonths}))

InitialDueDate(t, base, all) ==
    LET offset == (Hash[t] % (IF Horizon(t) = 0 THEN 1 ELSE Horizon(t))) + 1 IN
    IF Info[t].firstUseDueImmediately THEN StartOfDay(base)
    ELSE IF IsDeep(t) THEN AddDays(StartOfDay(base), DeepIndex(t, all) * DeepSpacing)
    ELSE InSeason(AddDays(StartOfDay(base), offset), t)

(* A property of the task banks: a task is due for the first time before   *)
(* the history forgets what was done when it was dated.                    *)
ASSUME FirstDueAssumption ==
    \A b \in Banks, base \in 0 .. MaxTime : \A t \in b :
        InitialDueDate(t, base, b) <= base + Retention

(* Mutant of DueDate: what was done is dated anew. *)
DueDateAgain(t, all, past) ==
    IF stored # Nothing /\ t \in DOMAIN stored /\ \A c \in past : c.task # t
    THEN stored[t]
    ELSE InitialDueDate(t, now, all)

(* What there is an entry for keeps its date; a new task is dated from     *)
(* now, and one that was done before is due at once.                       *)
DueDate(t, all, past) ==
    IF stored # Nothing /\ t \in DOMAIN stored THEN stored[t]
    ELSE IF \E c \in past : c.task = t THEN now
    ELSE InitialDueDate(t, now, all)

(* Mutant of Pruned: half the time is thought to be enough. *)
PrunedEarly(past) == {c \in past : 2 * (now - c.at) <= Retention}

Pruned(past) == {c \in past : now - c.at <= Retention}

-----------------------------------------------------------------------------
(* loadOrCreateTaskSchedule, with the bank all and a history past.         *)
Entries(all, past) == [t \in {u \in all : Scheduled(u)} |-> DueDate(t, all, past)]

(* A mount of HomePage in the version with that bank; setItem may throw.   *)
(* The entries of tasks that version does not have are not written again.  *)
Open(all, saved) ==
    /\ tasks' = all
    /\ history' = Pruned(kept)
    /\ schedule' = Entries(all, history')
    /\ stored' = IF saved THEN schedule' ELSE stored
    /\ promised' = IF saved
                   THEN [t \in DOMAIN promised \cup DOMAIN schedule' |->
                            IF t \in DOMAIN promised THEN promised[t] ELSE schedule'[t]]
                   ELSE promised
    /\ dropped' = IF saved THEN dropped \cup (DOMAIN promised \ DOMAIN schedule') ELSE dropped
    /\ UNCHANGED <<kept, now>>

Init ==
    /\ stored = Nothing /\ kept = {} /\ promised = <<>> /\ dropped = {}
    /\ tasks = {} /\ schedule = <<>> /\ history = {}
    /\ now = 0

(* A card is finished in a session, or credited by a room's checklist,     *)
(* which asks for no release.                                              *)
Complete(ids, saved) ==
    /\ Cardinality(history) < MaxDone
    /\ history' = Pruned(history \cup {[task |-> t, at |-> now] : t \in ids})
    /\ kept' = IF saved THEN history' ELSE kept
    /\ UNCHANGED <<stored, tasks, schedule, now, promised, dropped>>

Tick ==
    /\ now < MaxTime
    /\ now' = now + 1
    /\ UNCHANGED <<stored, kept, page, promised, dropped>>

Next ==
    \/ Tick
    \/ \E saved \in BOOLEAN :
         \/ \E all \in Banks : Open(all, saved)
         \/ \E t \in tasks : Complete({t}, saved) \/ Complete({t} \cup Info[t].includes, saved)

Spec == Init /\ [][Next]_vars

-----------------------------------------------------------------------------
(* Properties. *)

View == [tasks |-> tasks, history |-> history, schedule |-> schedule, now |-> now]

Released(t) == ReleasedIn(t, View)

TypeOK ==
    /\ tasks \in Banks \cup {{}}
    /\ IsSchedule(schedule) /\ IsSchedule(promised)
    /\ stored = Nothing \/ IsSchedule(stored)
    /\ history \cup kept \subseteq [task : Task, at : 0 .. now]
    /\ dropped \subseteq Task
    /\ now \in Nat

(* Once the store has taken a task's first due date, every visit whose     *)
(* version has the task shows that date, whatever is done or no longer     *)
(* written since (loadOrCreateTaskSchedule, taskSchedule.ts:17-40).  What  *)
(* ends it is a version without the task, visited with a store that can be *)
(* written: its entry is gone (:28,39), and a later version dates it anew. *)
KeepsItsWord ==
    \A t \in (tasks \cap DOMAIN promised) \ dropped :
        t \in DOMAIN schedule /\ schedule[t] = promised[t]

(* What was released is not held back again, by no visit, deployment or    *)
(* forgotten completion, while the version has the task and the store has  *)
(* what the page knows (isTaskReleased, pruneTaskHistory).                 *)
ReleasedForGood ==
    [][\A t \in tasks \cap tasks' :
         (/\ Released(t) /\ history = kept
          /\ Scheduled(t) => stored # Nothing /\ t \in DOMAIN stored)
         => Released(t)']_vars

(* The overview's note of the next new task tells the truth: what a day    *)
(* releases was announced for that day, and nothing comes unannounced      *)
(* (nextScheduledRelease, weeklyOverview.ts:87-94).                        *)
Announced ==
    [][now' # now =>
         \A t \in tasks : ~Released(t) /\ Released(t)' => now' \in NextRelease(View)]_vars

(* The overview suggests only what is in the bank and released, and        *)
(* nothing so soon after it, or another task of its group, was done: its   *)
(* interval after for a recommendation, DeepInterval for a deep clean.     *)
RestedBeforeSuggested ==
    \A t \in Suggestions(View) :
        /\ t \in tasks /\ Released(t)
        /\ \A c \in history :
             c.task = t \/ (c.task \in tasks /\ Grouped(t, c.task)) =>
                 now - c.at >= IF Info[t].weekly THEN Info[t].recurrence ELSE DeepInterval
=============================================================================
