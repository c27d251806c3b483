------------------------------ MODULE Checklist ------------------------------
(***************************************************************************)
(* The room checklists and the task history of the frontend                *)
(* (frontend/src/pages/RoomChecklistPage.tsx, the completion side of       *)
(* HomePage.tsx, domain/taskHistory.ts, domain/roomChecklistProgress.ts).  *)
(*                                                                         *)
(* Both live in localStorage, which all tabs of the browser share.  A page *)
(* copies what it needs when it is mounted (useState(load...)), works on   *)
(* its copy, and on every change writes the WHOLE copy back; nothing       *)
(* listens for the changes of another tab.  A write may fail silently      *)
(* (private or full store).  Each event handler is one action: browsers    *)
(* run a tab's handlers one at a time, and the two stores are written      *)
(* synchronously in them.                                                  *)
(*                                                                         *)
(* A history is a set of completions: every reader of the array asks only  *)
(* which entries it holds (the latest, any within the cooldown).  Which    *)
(* cards HomePage puts on screen is left open here.                        *)
(***************************************************************************)
EXTENDS Integers, Condense

CONSTANTS
    Tab,                \* browser tabs on one device
    Links,              \* Links[room]: which items account for which card
    Card,               \* ids that occur in the history
    PlanningTask,       \* the cards in allPlanningTasks
    HomeCard,           \* cards on HomePage, each its set of completionIds
    Cooldown,           \* Cooldown[card]: cooldownFor
    Retention,          \* HISTORY_RETENTION_DAYS
    StorageMayFail,     \* may setItem throw?
    MaxTime             \* bound: the clock stops here

Row == UNION {Rows[room] : room \in Room}
Status == {"open", "completed", "skipped"}
Completion == [task : Card, at : Nat]

ASSUME ChecklistAssumption ==
    /\ \A room \in Room : \A link \in Links[room] : link.needs \subseteq Items[room]
    /\ PlanningTask \subseteq Card
    /\ HomeCard \subseteq (SUBSET Card) \ {{}}
    /\ Cooldown \in [Card -> Nat]
    /\ Retention \in Nat
    /\ \A card \in Card : Cooldown[card] <= Retention
    /\ StorageMayFail \in BOOLEAN
    /\ MaxTime \in Nat

VARIABLES
    now,                \* the device's clock
    storedProgress,     \* localStorage ring-pa.room-checklists.v1
    storedHistory,      \* localStorage ring-pa.task-history.v1
    page,               \* page[t]: what tab t shows, with its copies
    done,               \* history: every completion a handler recorded, and how
    marks               \* history: how each item was last marked, in any tab

vars == <<now, storedProgress, storedHistory, page, done, marks>>

(* A room's items are its own, so one function stands for all rooms.       *)
Progress == [Item -> Status]

Other == [name |-> "other"]
HomePage == [name : {"home"}, history : SUBSET Completion]
ChecklistPage == [name : {"checklist"}, room : Room, progress : Progress,
                  history : SUBSET Completion]

Record == [task : Card, at : Nat, by : {"session", "checklist"}]

TypeOK ==
    /\ now \in Nat
    /\ storedProgress \in Progress
    /\ storedHistory \subseteq Completion
    /\ DOMAIN page = Tab
    /\ \A t \in Tab : page[t] = Other \/ page[t] \in HomePage \/ page[t] \in ChecklistPage
    /\ done \subseteq Record
    /\ marks \in Progress

Init ==
    /\ now = 1
    /\ storedProgress = [i \in Item |-> "open"]
    /\ storedHistory = {}
    /\ page = [t \in Tab |-> Other]
    /\ done = {}
    /\ marks = [i \in Item |-> "open"]

-----------------------------------------------------------------------------
(* taskHistory.ts *)

(* Mutant of Prune: forgets a completion at the end of its retention.      *)
PruneEarly(history, t) == {c \in history : c.at > t - Retention}

Prune(history, t) == {c \in history : c.at >= t - Retention}

(* Mutant of AddCompletions: addTaskCompletion without its pruning.        *)
AddCompletionsUnpruned(history, cards, t) ==
    history \cup {[task |-> card, at |-> t] : card \in cards}

(* addTaskCompletion for each of the cards, at the time t.                 *)
AddCompletions(history, cards, t) ==
    IF cards = {} THEN history
    ELSE Prune(history \cup {[task |-> card, at |-> t] : card \in cards}, t)

OnCooldown(card, history, t) ==
    \E c \in history : c.task = card /\ t - c.at < Cooldown[card]

(* localStorage.setItem inside try/catch: a failed write is ignored.       *)
Save(old, new) == {new} \cup (IF StorageMayFail THEN {old} ELSE {})

-----------------------------------------------------------------------------
(* roomChecklist.ts *)

(* taskStatusFromProgress *)
RowStatus(row, progress) ==
    IF \E i \in row : progress[i] = "open" THEN "open"
    ELSE IF \A i \in row : progress[i] = "completed" THEN "completed"
    ELSE "skipped"

(* What a click may set a row to: the checkbox and the button "Ej          *)
(* relevant", which a row has unless it must always be done, toggle.       *)
Choices(row, progress) ==
    {IF RowStatus(row, progress) = status THEN "open" ELSE status :
        status \in {"completed"}
            \cup (IF CombinedCondition(row) = "always" THEN {} ELSE {"skipped"})}

Mark(progress, items, status) ==
    [i \in Item |-> IF i \in items THEN status ELSE progress[i]]

(* allRequirementsResolved: skipped counts as well as completed.           *)
Handled(link, progress) == \A i \in link.needs : progress[i] # "open"

(* Mutant of Credited: the cooldown is not consulted.                      *)
CreditedAgain(room, progress, history, t) ==
    {link.card : link \in {l \in Links[room] :
        Handled(l, progress) /\ l.card \in PlanningTask}}

(* The cards syncCompletedPlannerTasks adds to the history.                *)
Credited(room, progress, history, t) ==
    {link.card : link \in {l \in Links[room] :
        /\ Handled(l, progress)
        /\ l.card \in PlanningTask
        /\ ~OnCooldown(l.card, history, t)}}

-----------------------------------------------------------------------------
(* Pages.  Navigation, a reload or a new tab mounts a page afresh.         *)

OpenHome(t) ==
    /\ page' = [page EXCEPT ![t] =
           [name |-> "home", history |-> Prune(storedHistory, now)]]
    /\ UNCHANGED <<now, storedProgress, storedHistory, done, marks>>

OpenChecklist(t, room) ==
    /\ page' = [page EXCEPT ![t] =
           [name |-> "checklist", room |-> room, progress |-> storedProgress,
            history |-> Prune(storedHistory, now)]]
    /\ UNCHANGED <<now, storedProgress, storedHistory, done, marks>>

(* History navigation from one checklist straight to another: the route is *)
(* the same, so the page stays mounted and keeps its copies.               *)
SwitchRoom(t, room) ==
    /\ page[t].name = "checklist"
    /\ page' = [page EXCEPT ![t].room = room]
    /\ UNCHANGED <<now, storedProgress, storedHistory, done, marks>>

(* A page that keeps no copy of either store, or the tab is closed.        *)
OpenOther(t) ==
    /\ page' = [page EXCEPT ![t] = Other]
    /\ UNCHANGED <<now, storedProgress, storedHistory, done, marks>>

(* HomePage.finishTask: the card's completionIds join the page's history,  *)
(* which replaces the stored one.                                          *)
FinishTask(t, card) ==
    LET history == AddCompletions(page[t].history, card, now) IN
    /\ page[t].name = "home"
    /\ page' = [page EXCEPT ![t].history = history]
    /\ storedHistory' \in Save(storedHistory, history)
    /\ done' = done \cup {[task |-> id, at |-> now, by |-> "session"] : id \in card}
    /\ UNCHANGED <<now, storedProgress, marks>>

(* RoomChecklistPage.setItemStatus with syncCompletedPlannerTasks.         *)
SetItemStatus(t, row, status) ==
    LET p == page[t]
        progress == Mark(p.progress, row, status)
        cards == Credited(p.room, progress, p.history, now)
        history == AddCompletions(p.history, cards, now)
    IN
    /\ p.name = "checklist"
    /\ row \in Rows[p.room]
    /\ status \in Choices(row, p.progress)
    /\ page' = [page EXCEPT ![t].progress = progress, ![t].history = history]
    /\ storedProgress' \in Save(storedProgress, progress)
    /\ storedHistory' \in IF cards = {} THEN {storedHistory}
                          ELSE Save(storedHistory, history)
    /\ done' = done \cup {[task |-> card, at |-> now, by |-> "checklist"] : card \in cards}
    /\ marks' = Mark(marks, row, status)
    /\ UNCHANGED now

(* Mutant of ResetChecklist: the page starts over, the store does not.     *)
ResetChecklistUnsaved(t) ==
    LET p == page[t] IN
    /\ p.name = "checklist"
    /\ \E row \in Rows[p.room] : RowStatus(row, p.progress) # "open"
    /\ page' = [page EXCEPT ![t].progress = Mark(@, Items[p.room], "open")]
    /\ marks' = Mark(marks, Items[p.room], "open")
    /\ UNCHANGED <<now, storedProgress, storedHistory, done>>

(* The button is there once a row is resolved.                             *)
ResetChecklist(t) ==
    LET p == page[t]
        progress == Mark(p.progress, Items[p.room], "open")
    IN
    /\ p.name = "checklist"
    /\ \E row \in Rows[p.room] : RowStatus(row, p.progress) # "open"
    /\ page' = [page EXCEPT ![t].progress = progress]
    /\ storedProgress' \in Save(storedProgress, progress)
    /\ marks' = Mark(marks, Items[p.room], "open")
    /\ UNCHANGED <<now, storedHistory, done>>

Tick ==
    /\ now < MaxTime
    /\ now' = now + 1
    /\ UNCHANGED <<storedProgress, storedHistory, page, done, marks>>

Next ==
    \/ \E t \in Tab :
         \/ OpenHome(t)
         \/ \E room \in Room : OpenChecklist(t, room) \/ SwitchRoom(t, room)
         \/ OpenOther(t)
         \/ \E card \in HomeCard : FinishTask(t, card)
         \/ \E row \in Row, status \in Status : SetItemStatus(t, row, status)
         \/ ResetChecklist(t)
    \/ Tick

Spec == Init /\ [][Next]_vars

-----------------------------------------------------------------------------
(* Properties of one tab, with a store that can be written. *)

(* A recorded completion is in the store until its retention is over,      *)
(* whatever pages come and go (taskHistory.ts, HomePage.tsx:216-217,       *)
(* RoomChecklistPage.tsx:115-118).                                         *)
Remembered ==
    \A d \in done : d.at >= now - Retention =>
        [task |-> d.task, at |-> d.at] \in storedHistory

(* Every item is stored as the user last left it, and the open checklist   *)
(* shows nothing else (RoomChecklistPage.tsx:293 "Avprickningen sparas     *)
(* automatiskt på den här enheten").                                       *)
ProgressKept ==
    /\ storedProgress = marks
    /\ \A t \in Tab : page[t].name = "checklist" => page[t].progress = marks

(* A task that must always be done is never put aside as not relevant,     *)
(* whatever row it shares with tasks that need not be done                 *)
(* (roomChecklist.ts:650-654, RoomChecklistPage.tsx:225).                  *)
NeverPutAside ==
    \A i \in Item : marks[i] = "skipped" => Source[i].condition # "always"

(* A checklist never credits a card within the cooldown of an earlier      *)
(* completion, by a session or by any checklist                            *)
(* (RoomChecklistPage.tsx:109).                                            *)
NoDoubleCredit ==
    [][\A c \in done' \ done : c.by = "checklist" =>
         \A d \in done : d.task = c.task => c.at - d.at >= Cooldown[c.task]]_vars

-----------------------------------------------------------------------------
(* Properties of any number of tabs, with a store that may fail. *)

(* A card is credited only by a checklist page on which every requirement  *)
(* of a link of its room is handled (RoomChecklistPage.tsx:104-106).       *)
CreditBacked ==
    [][\A c \in done' \ done : c.by = "checklist" =>
         \E t \in Tab :
            /\ page'[t].name = "checklist"
            /\ \E link \in Links[page'[t].room] :
                 /\ link.card = c.task
                 /\ \A i \in link.needs : page'[t].progress[i] # "open"]_vars

(* The stored history does not grow without bound: whatever stale copy a   *)
(* page writes back, nothing past its retention is written                 *)
(* (taskHistory.ts:23, 49-52).                                             *)
NothingOutdatedWritten ==
    [][storedHistory' # storedHistory =>
         \A c \in storedHistory' : now - c.at <= Retention]_vars

-----------------------------------------------------------------------------
(* A statement of the documentation that the code does not meet. *)

(* roomChecklist.ts:183-185 "Once all of a card's concrete requirements    *)
(* have been handled, the card is recorded in the shared task history":    *)
(* what makes a checklist record a card is work on its requirements.       *)
CreditForFreshWork ==
    [][\A c \in done' \ done : c.by = "checklist" =>
         \E room \in Room : \E link \in Links[room] :
            /\ link.card = c.task
            /\ \E i \in link.needs : marks'[i] # marks[i]]_vars
=============================================================================
