------------------------------ MODULE Planner -------------------------------
(***************************************************************************)
(* The loop of buildPlan (frontend/src/domain/taskEngine.ts), one eligible *)
(* task a step, for any input a user can give it.                          *)
(***************************************************************************)
EXTENDS Planning

CONSTANT Inputs     \* the inputs buildPlan is called with

VARIABLES
    input,          \* its argument
    todo,           \* the eligible tasks not yet considered
    passed,         \* those that went to nobody
    plan            \* assignments, minutesByMember, odorTaskAssigned

vars == <<input, todo, passed, plan>>

ASSUME PlannerAssumption ==
    \A in \in Inputs : in.minutes \in Nat /\ in.people \in Seq(Person)

Card == [task : Task, person : Person]

TypeOK ==
    /\ input \in Inputs
    /\ todo \in SUBSET Task
    /\ passed \in SUBSET Task
    /\ plan \in [cards : Seq(Card), minutes : [Person -> Nat], odor : BOOLEAN]

Init ==
    /\ input \in Inputs
    /\ todo = Eligible(input)
    /\ passed = {}
    /\ plan = EmptyPlan

(* The next task goes to nobody. *)
PassOver ==
    \E t \in Foremost(todo, input) :
        /\ PassedOver(t, plan, input)
        /\ todo' = todo \ {t}
        /\ passed' = passed \cup {t}
        /\ UNCHANGED <<input, plan>>

(* The next task goes to the best member. *)
Assign ==
    \E t \in Foremost(todo, input) :
        /\ ~TooMuchOdor(t, plan)
        /\ \E p \in Best(t, plan, input) : plan' = Assigned(t, p, plan)
        /\ todo' = todo \ {t}
        /\ UNCHANGED <<input, passed>>

Next == PassOver \/ Assign

Spec == Init /\ [][Next]_vars

-----------------------------------------------------------------------------
(* Properties. *)

Cards == {plan.cards[k] : k \in DOMAIN plan.cards}

(* taskEngine.ts:190-198, and the tests BACKLOG.md asks for on time limits *)
(* and roles: nobody gets more minutes than there are; a child only gets   *)
(* what suits a child, and only if it wants to help; nobody who was not    *)
(* chosen gets a card.                                                     *)
WithinMeans ==
    /\ \A p \in Person : plan.minutes[p] <= input.minutes
    /\ \A c \in Cards : c.person \in Members(input) /\ May(c.person, c.task)

(* What card c has person p do of these tasks.                             *)
Share(p, tasks, c) ==
    IF c.person = p /\ c.task \in tasks THEN Info[c.task].minutes ELSE 0

(* Minutes of the cards person p has for these tasks, added up.            *)
MinutesOn(p, tasks, cards) ==
    LET total[k \in 0 .. Len(cards)] ==
            IF k = 0 THEN 0 ELSE total[k - 1] + Share(p, tasks, cards[k])
    IN total[Len(cards)]

(* The minutes the loop keeps of a member are those of the member's cards  *)
(* (taskEngine.ts:196-198).                                                *)
MinutesAddUp == \A p \in Person : plan.minutes[p] = MinutesOn(p, Task, plan.cards)

(* What a card has people do. *)
Work(t) == {t} \cup Info[t].includes

(* No double work ("dubbla tilldelningar" in BACKLOG.md): no activity is   *)
(* asked for twice in one plan, as a card or as a part of one, and no card *)
(* is there together with its replacement (taskEngine.ts:176-178).         *)
NoDoubleWork ==
    \A j, k \in DOMAIN plan.cards : j # k =>
        LET t == plan.cards[j].task
            u == plan.cards[k].task
        IN Work(t) \cap Work(u) = {} /\ u \notin Info[t].supersedes

(* taskEngine.ts:185-201: what is left over at any point could still not   *)
(* be given to anybody who may do it, although others have had cards since *)
(* it was considered; or it is an odour task, of which a plan has one.     *)
NothingWasted ==
    /\ \A t \in passed :
         \/ Info[t].category = "odor" /\ \E c \in Cards : Info[c.task].category = "odor"
         \/ \A p \in Members(input) :
               May(p, t) => plan.minutes[p] + Info[t].minutes > input.minutes
    /\ \A c, d \in Cards :
         Info[c.task].category = "odor" /\ Info[d.task].category = "odor" => c = d

(* Priority ("prioritering" in BACKLOG.md, taskEngine.ts:177-201): no task  *)
(* is left over for a less important one.  At any point, the cards that    *)
(* come before a task that was passed over are by themselves enough to     *)
(* leave no room for it.                                                   *)
PriorityRespected ==
    \A t \in passed :
        LET earlier == {u \in Task \ {t} : Before(u, t, input)} IN
        \/ /\ Info[t].category = "odor"
           /\ \E c \in Cards : c.task \in earlier /\ Info[c.task].category = "odor"
        \/ \A p \in Members(input) :
              May(p, t) => MinutesOn(p, earlier, plan.cards) + Info[t].minutes > input.minutes

(* The operator HomeSession calls computes what the loop computes: the     *)
(* same cards for the same people in the same order, and the same rest.    *)
LoopIsBuildPlan ==
    todo = {} =>
        /\ plan = BuildPlan(input)
        /\ passed = {UnassignedTasks(input, plan)[k] :
                        k \in DOMAIN UnassignedTasks(input, plan)}
=============================================================================
