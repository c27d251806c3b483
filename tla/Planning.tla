------------------------------ MODULE Planning ------------------------------
(***************************************************************************)
(* buildPlan of frontend/src/domain/taskEngine.ts as operators: which      *)
(* tasks are candidates, in which order they are considered, and to whom a *)
(* task goes.  Planner runs its loop a step at a time, HomeSession calls   *)
(* it as a whole.                                                          *)
(*                                                                         *)
(* The task bank is data: Info[t] holds what the planner reads of task t.  *)
(* The factors of score that never change (the room, the category's weight *)
(* in a mode, the length, the priority) are one number in Info[t].score.   *)
(***************************************************************************)
EXTENDS Integers, Sequences, FiniteSets

CONSTANTS
    Task,           \* activities of the task bank
    TaskOrder,      \* the bank as it is listed
    Info,           \* Info[t]: what is known of task t
    Person,         \* the household
    Adult,          \* its adults; the others are children
    Willing,        \* those with willingToHelp
    Preferred,      \* Preferred[p]: the rooms p prefers
    Private,        \* rooms with isPrivate
    NoGroup         \* a task without repeatGroup

Category == {"odor", "other"}

(* At this many minutes a session counts as long. *)
CONSTANT LongSession

ASSUME PlanningAssumption ==
    /\ Adult \subseteq Person /\ Willing \subseteq Person
    /\ LongSession \in Nat
    /\ \A t \in Task :
         /\ Info[t].minutes \in Nat
         /\ Info[t].category \in Category
         /\ Info[t].childFriendly \in BOOLEAN
         /\ Info[t].supersedes \subseteq Task
         /\ Info[t].includes \subseteq Task
         /\ Info[t].cooldown \in Nat

(* The bank is a list of its tasks, and every task is scored in its modes. *)
ASSUME OrderAssumption ==
    /\ TaskOrder \in Seq(Task)
    /\ \A t \in Task :
         /\ \E k \in DOMAIN TaskOrder : TaskOrder[k] = t
         /\ \A mode \in Info[t].modes : Info[t].score[mode] \in Int

(* A property of the task bank (taskBank.ts): of two cards that share a    *)
(* part one replaces the other, and no card is a part of itself.           *)
ASSUME BankAssumption ==
    \A t, u \in Task :
        /\ t \notin Info[t].includes
        /\ t # u /\ Info[t].includes \cap Info[u].includes # {} =>
               t \in Info[u].supersedes \/ u \in Info[t].supersedes

(* Another: the parts of a card replace nothing themselves (they are all   *)
(* in microTaskBank.ts).                                                   *)
ASSUME PartsAssumption ==
    \A t \in Task : \A u \in Info[t].includes : Info[u].supersedes = {}

-----------------------------------------------------------------------------
(* History, cooldown and release. *)

(* Completion c counts as having done task t; the steps of an incident     *)
(* protocol, which are completed like tasks, are none of the bank.         *)
SameActivity(c, t) ==
    /\ c.task \in Task
    /\ \/ c.task = t
       \/ Info[t].group # NoGroup /\ Info[c.task].group = Info[t].group
       \/ t \in Info[c.task].supersedes

(* Mutant of IsCoolingDown: the cooldown is the one of what is asked for.  *)
IsCoolingDownOwn(t, history, now) ==
    \E c \in history : SameActivity(c, t) /\ now - c.at < Info[t].cooldown

(* The cooldown is the one of what was done, not of what is asked for. *)
IsCoolingDown(t, history, now) ==
    \E c \in history : SameActivity(c, t) /\ now - c.at < Info[c.task].cooldown

(* A task without an entry in the schedule was never held back.            *)
IsTaskReleased(t, schedule, history, now) ==
    \/ \E c \in history : c.task = t
    \/ t \notin DOMAIN schedule
    \/ schedule[t] <= now

-----------------------------------------------------------------------------
(* Candidates.  An input in is a TaskSelectionInput:                       *)
(*   mode, minutes, people (a sequence), rooms, history, now, month,       *)
(*   schedule (schedule[t]: when t is first due).                           *)

Team(in) == SelectSeq(in.people, LAMBDA p : p \in Adult \/ p \in Willing)

TeamSize(in) == Len(Team(in))

IsCandidate(t, in) ==
    LET i == Info[t] IN
    /\ in.mode \in i.modes
    /\ i.room \in in.rooms
    /\ in.month \in i.activeMonths
    /\ IsTaskReleased(t, in.schedule, in.history, in.now)
    /\ ~i.recommendationOnly
    /\ i.minutes <= in.minutes
    /\ in.minutes >= i.minimumSession
    /\ TeamSize(in) >= i.minimumPeople
    /\ i.maximumPeople # 0 => TeamSize(in) <= i.maximumPeople
    /\ ~IsCoolingDown(t, in.history, in.now)
    /\ in.mode = "guests" /\ TeamSize(in) = 1 => i.maximumPeople = 1

Candidates(in) == {t \in Task : IsCandidate(t, in)}

(* Mutant of Covers: smaller cards are not replaced. *)
CoversParts(t) == Info[t].includes

(* What a card for task t covers besides t: the smaller cards it replaces, *)
(* and its parts.                                                          *)
Covers(t) == Info[t].supersedes \cup Info[t].includes

Superseded(tasks) == UNION {Covers(t) : t \in tasks}

Eligible(in) == LET tasks == Candidates(in) IN tasks \ Superseded(tasks)

-----------------------------------------------------------------------------
(* The order in which tasks are considered. *)

(* Some part of the card is due from the first use and was never done. *)
HasUnfinishedKickstart(t, history) ==
    \E u \in {t} \cup Info[t].includes :
        Info[u].firstUseDueImmediately /\ \A c \in history : c.task # u

SelectionScore(t, in) ==
    Info[t].score[in.mode]
      * (IF Info[t].deep /\ in.minutes >= LongSession THEN 30 ELSE 1)
      * (IF HasUnfinishedKickstart(t, in.history) THEN 16 ELSE 1)

Position(t) == CHOOSE k \in DOMAIN TaskOrder : TaskOrder[k] = t

(* Array.prototype.sort is stable: equals stay in the bank's order. *)
Before(t, u, in) ==
    \/ SelectionScore(t, in) > SelectionScore(u, in)
    \/ SelectionScore(t, in) = SelectionScore(u, in) /\ Position(t) < Position(u)

(* Mutant of Foremost: the tasks are not sorted. *)
ForemostUnsorted(tasks, in) ==
    {t \in tasks : \A u \in tasks \ {t} : Position(t) < Position(u)}

(* Whichever of these tasks comes first. *)
Foremost(tasks, in) == {t \in tasks : \A u \in tasks \ {t} : Before(t, u, in)}

(* Mutant of EligibleTasks: equals are in the reverse of the bank's order. *)
EligibleTasksUnstable(in) ==
    LET tasks == Eligible(in) IN
    [k \in 1 .. Cardinality(tasks) |->
        CHOOSE t \in tasks :
            Cardinality({u \in tasks :
                \/ SelectionScore(u, in) > SelectionScore(t, in)
                \/ /\ SelectionScore(u, in) = SelectionScore(t, in)
                   /\ Position(u) > Position(t)}) = k - 1]

(* Some tasks in the order in which they are considered.                   *)
InOrder(tasks, in) ==
    [k \in 1 .. Cardinality(tasks) |->
        CHOOSE t \in tasks : Cardinality({u \in tasks : Before(u, t, in)}) = k - 1]

(* eligibleTasks: the eligible ones in their order. *)
EligibleTasks(in) == InOrder(Eligible(in), in)

-----------------------------------------------------------------------------
(* Assignment.  A plan holds the cards in the order they were assigned,    *)
(* the minutes of every person, and whether an odour task is among them.   *)

EmptyPlan == [cards |-> <<>>, minutes |-> [p \in Person |-> 0], odor |-> FALSE]

Members(in) == {in.people[k] : k \in DOMAIN in.people} \cap (Adult \cup Willing)

May(p, t) == p \in Adult \/ Info[t].childFriendly

(* Mutant of Fits: the time already taken is forgotten. *)
FitsAlone(p, t, plan, in) == Info[t].minutes <= in.minutes

(* Mutant of Fits: the last minute is never used. *)
FitsStrictly(p, t, plan, in) == plan.minutes[p] + Info[t].minutes < in.minutes

Fits(p, t, plan, in) == plan.minutes[p] + Info[t].minutes <= in.minutes

Able(t, plan, in) == {p \in Members(in) : May(p, t) /\ Fits(p, t, plan, in)}

MemberScore(p, t, plan) ==
    LET room == Info[t].room IN
      (IF room \in Private /\ room \in Preferred[p] THEN 10 ELSE 0)
    + (IF p \in Adult /\ room \notin Private THEN 2 ELSE 0)
    + (IF p \notin Adult /\ Info[t].childFriendly /\ room \in Private THEN 5 ELSE 0)
    - plan.minutes[p]

Chosen(p, in) == CHOOSE k \in DOMAIN in.people : in.people[k] = p

(* Those nobody comes before: the highest score, the first chosen. *)
Best(t, plan, in) ==
    LET able == Able(t, plan, in) IN
    {p \in able : \A q \in able \ {p} :
        \/ MemberScore(p, t, plan) > MemberScore(q, t, plan)
        \/ /\ MemberScore(p, t, plan) = MemberScore(q, t, plan)
           /\ Chosen(p, in) < Chosen(q, in)}

(* One odour task is enough for a plan. *)
TooMuchOdor(t, plan) == Info[t].category = "odor" /\ plan.odor

(* Mutant of Assigned: the minutes are overwritten, not added. *)
AssignedMinutesLost(t, p, plan) ==
    [cards |-> Append(plan.cards, [task |-> t, person |-> p]),
     minutes |-> [plan.minutes EXCEPT ![p] = Info[t].minutes],
     odor |-> plan.odor \/ Info[t].category = "odor"]

Assigned(t, p, plan) ==
    [cards |-> Append(plan.cards, [task |-> t, person |-> p]),
     minutes |-> [plan.minutes EXCEPT ![p] = @ + Info[t].minutes],
     odor |-> plan.odor \/ Info[t].category = "odor"]

(* Whether the loop passes over task t. *)
PassedOver(t, plan, in) == TooMuchOdor(t, plan) \/ Able(t, plan, in) = {}

(* buildPlan's assignments: after[k] is the plan after k tasks.            *)
BuildPlan(in) ==
    LET tasks == EligibleTasks(in)
        after[k \in 0 .. Len(tasks)] ==
            IF k = 0 THEN EmptyPlan
            ELSE LET t == tasks[k]
                     plan == after[k - 1]
                 IN IF PassedOver(t, plan, in) THEN plan
                    ELSE Assigned(t, CHOOSE p \in Best(t, plan, in) : TRUE, plan)
    IN after[Len(tasks)]

AssignedTasks(plan) == {plan.cards[k].task : k \in DOMAIN plan.cards}

(* What could not be assigned, in the same order. *)
UnassignedTasks(in, plan) == InOrder(Eligible(in) \ AssignedTasks(plan), in)
=============================================================================
