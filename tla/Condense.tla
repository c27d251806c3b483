------------------------------ MODULE Condense ------------------------------
(***************************************************************************)
(* The rows of a room's checklist, made from its source list               *)
(* (sectionsForChecklist of frontend/src/domain/roomChecklist.ts): tasks   *)
(* that are about the floor move to the section of the floor, and in each  *)
(* section the tasks of one phase and one topic become one row.            *)
(*                                                                         *)
(* What the titles of tasks and sections say is data: Source and Sections  *)
(* hold what the patterns of phaseForTask, topicForTask and                *)
(* defaultTopicForSection find in them.  Rows are sets of tasks; their     *)
(* titles and their order on the page are left out.                        *)
(***************************************************************************)
EXTENDS Naturals

CONSTANTS
    Room,           \* rooms with a checklist
    Sections,       \* Sections[room]: its sections in order, each
                    \*   [topic: defaultTopicForSection or "none", tasks]
    Source,         \* Source[i]: of source task i, its
                    \*   phase, topic (that its own title names, or "none"),
                    \*   floorTopic (in a section of the floor, or "none"),
                    \*   moves (its title names the floor beneath, skirting
                    \*   or a threshold) and condition
    Uncondensed     \* rooms whose list is shown as it is (the bedroom)

Phase == {"prepare", "clean", "inspect", "restore"}

SectionsOf(room) == DOMAIN Sections[room]
TasksIn(room, k) == Sections[room][k].tasks

Items == [room \in Room |-> UNION {TasksIn(room, k) : k \in SectionsOf(room)}]

Item == UNION {Items[room] : room \in Room}

-----------------------------------------------------------------------------
(* rehomeHiddenFloorTasks *)

FloorSections(room) == {k \in SectionsOf(room) : Sections[room][k].topic = "floor-wet"}

(* The last section of the floor is the home of the others' floor tasks.   *)
IsHome(room, k) ==
    k \in FloorSections(room) /\ \A l \in FloorSections(room) : l <= k

(* Sections come in a finite list, so there is a last; a task is in one.   *)
ASSUME CondenseAssumption ==
    \A room \in Room :
        /\ SectionsOf(room) \subseteq Nat
        /\ FloorSections(room) # {} => \E k \in FloorSections(room) : IsHome(room, k)
        /\ \A other \in Room : \A k \in SectionsOf(room), l \in SectionsOf(other) :
             <<room, k>> # <<other, l>> => TasksIn(room, k) \cap TasksIn(other, l) = {}

(* Does a task leave its section? *)
Moves(room, k, i) == FloorSections(room) # {} /\ ~IsHome(room, k) /\ Source[i].moves

Rehomed(room, k) ==
    {i \in TasksIn(room, k) : ~Moves(room, k, i)}
    \cup {i \in Items[room] : IsHome(room, k)
            /\ \E l \in SectionsOf(room) : i \in TasksIn(room, l) /\ Moves(room, l, i)}

-----------------------------------------------------------------------------
(* condenseSection *)

(* topicForTask: what the title names, else what the section is about.     *)
TopicForTask(i, section) ==
    IF Source[i].topic # "none" THEN Source[i].topic
    ELSE IF section.topic = "floor-wet" /\ Source[i].floorTopic # "none"
         THEN Source[i].floorTopic
    ELSE IF section.topic # "none" THEN section.topic
    ELSE "main"

(* The key of a task's group: outside cleaning, a floor is one topic.      *)
Group(i, section) ==
    LET phase == Source[i].phase
        topic == TopicForTask(i, section)
    IN IF phase # "clean" /\ topic \in {"floor-dry", "floor-wet", "floor-treatment"}
       THEN <<phase, IF phase = "prepare" THEN "floor-dry" ELSE "floor-wet">>
       ELSE <<phase, topic>>

CondenseSection(room, k) ==
    {{j \in Rehomed(room, k) : Group(j, Sections[room][k]) = Group(i, Sections[room][k])} :
        i \in Rehomed(room, k)}

(* The rows of a room, each the set of its sourceTaskIds. *)
Rows == [room \in Room |->
            IF room \in Uncondensed THEN {{i} : i \in Items[room]}
            ELSE UNION {CondenseSection(room, k) : k \in SectionsOf(room)}]

(* Mutant of CombinedCondition: what is optional for a part is for all. *)
CombinedConditionOfSome(row) ==
    IF \A i \in row : Source[i].condition = "always" THEN "always" ELSE "if_applicable"

CombinedCondition(row) ==
    IF \E i \in row : Source[i].condition = "always" THEN "always"
    ELSE IF \A i, j \in row : Source[i].condition = Source[j].condition
         THEN Source[CHOOSE i \in row : TRUE].condition
    ELSE "if_applicable"
=============================================================================
