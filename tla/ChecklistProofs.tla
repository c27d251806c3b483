--------------------------- MODULE ChecklistProofs ---------------------------
(***************************************************************************)
(* Proofs about module Checklist: for any tabs, rooms, cards and links     *)
(* what holds whether or not a write fails, and for one tab with a store   *)
(* that can be written that nothing is forgotten and no card is credited   *)
(* twice within its cooldown.                                              *)
(***************************************************************************)
EXTENDS Checklist, TLAPS

PageState == {Other} \cup HomePage \cup ChecklistPage

-----------------------------------------------------------------------------
(* The type invariant. *)

(* A page with its progress and its history replaced is still a checklist. *)
LEMMA ChecklistPageType ==
    ASSUME NEW p \in ChecklistPage, NEW progress \in Progress,
           NEW history \in SUBSET Completion, NEW room \in Room
    PROVE  /\ [p EXCEPT !.progress = progress, !.history = history] \in ChecklistPage
           /\ [p EXCEPT !.progress = progress] \in ChecklistPage
           /\ [p EXCEPT !.room = room] \in ChecklistPage
  BY DEF ChecklistPage

(* A page of the name is of the kind. *)
LEMMA PageKinds ==
    ASSUME NEW p \in PageState
    PROVE  /\ p.name = "home" => p \in HomePage
           /\ p.name = "checklist" => p \in ChecklistPage
           /\ p.name \in {"other", "home", "checklist"}
  BY DEF PageState, Other, HomePage, ChecklistPage

LEMMA PruneType ==
    ASSUME NEW history \in SUBSET Completion, NEW t
    PROVE  Prune(history, t) \in SUBSET Completion
  BY DEF Prune

LEMMA AddCompletionsType ==
    ASSUME NEW history \in SUBSET Completion, NEW cards \in SUBSET Card, NEW t \in Nat
    PROVE  AddCompletions(history, cards, t) \in SUBSET Completion
  BY DEF AddCompletions, Prune, Completion

LEMMA MarkType ==
    ASSUME NEW progress \in Progress, NEW items, NEW status \in Status
    PROVE  Mark(progress, items, status) \in Progress
  BY DEF Mark, Progress

LEMMA CreditedType ==
    ASSUME NEW room, NEW progress, NEW history, NEW t
    PROVE  Credited(room, progress, history, t) \in SUBSET Card
  BY ChecklistAssumption DEF Credited

(* The type invariant, with the pages as one set. *)
Typed ==
    /\ now \in Nat
    /\ storedProgress \in Progress
    /\ storedHistory \in SUBSET Completion
    /\ DOMAIN page = Tab
    /\ \A t \in Tab : page[t] \in PageState
    /\ done \in SUBSET Record
    /\ marks \in Progress

LEMMA TypedIsTypeOK == Typed <=> TypeOK
  BY DEF Typed, TypeOK, PageState

LEMMA TypedInit == Init => Typed
  BY DEF Init, Typed, PageState, Progress, Status, Completion, Record

LEMMA TypedNext == Typed /\ [Next]_vars => Typed'
<1> SUFFICES ASSUME Typed, [Next]_vars PROVE Typed'
  OBVIOUS
<1> USE DEF Typed
<1>1. ASSUME NEW t \in Tab, OpenHome(t) PROVE Typed'
  <2>1. [name |-> "home", history |-> Prune(storedHistory, now)] \in PageState
    BY PruneType DEF PageState, HomePage
  <2> QED
    BY <1>1, <2>1 DEF OpenHome
<1>2. ASSUME NEW t \in Tab, NEW room \in Room, OpenChecklist(t, room) PROVE Typed'
  <2>1. [name |-> "checklist", room |-> room, progress |-> storedProgress,
         history |-> Prune(storedHistory, now)] \in PageState
    BY PruneType DEF PageState, ChecklistPage
  <2> QED
    BY <1>2, <2>1 DEF OpenChecklist
<1>3. ASSUME NEW t \in Tab, NEW room \in Room, SwitchRoom(t, room) PROVE Typed'
  <2>1. page[t] \in ChecklistPage
    BY <1>3, PageKinds DEF SwitchRoom
  <2>2. PICK progress \in Progress : TRUE
    OBVIOUS
  <2>3. [page[t] EXCEPT !.room = room] \in PageState
    BY <2>1, <2>2, ChecklistPageType DEF PageState
  <2> QED
    BY <1>3, <2>3 DEF SwitchRoom
<1>4. ASSUME NEW t \in Tab, OpenOther(t) PROVE Typed'
  BY <1>4 DEF OpenOther, PageState
<1>5. ASSUME NEW t \in Tab, NEW card \in HomeCard, FinishTask(t, card) PROVE Typed'
  <2> DEFINE history == AddCompletions(page[t].history, card, now)
  <2>1. page[t] \in HomePage /\ card \in SUBSET Card
    BY <1>5, PageKinds, ChecklistAssumption DEF FinishTask
  <2>2. history \in SUBSET Completion
    BY <2>1, AddCompletionsType DEF HomePage
  <2>3. [page[t] EXCEPT !.history = history] \in PageState
    BY <2>1, <2>2 DEF HomePage, PageState
  <2>4. storedHistory' \in SUBSET Completion
    BY <1>5, <2>2 DEF FinishTask, Save
  <2>5. done' \in SUBSET Record
    BY <1>5, <2>1 DEF FinishTask, Record
  <2> HIDE DEF history
  <2>6. page' = [page EXCEPT ![t] = [page[t] EXCEPT !.history = history]]
    BY <1>5 DEF FinishTask, history
  <2> QED
    BY <1>5, <2>3, <2>4, <2>5, <2>6 DEF FinishTask
<1>6. ASSUME NEW t \in Tab, NEW row \in Row, NEW status \in Status, SetItemStatus(t, row, status)
      PROVE  Typed'
  <2> DEFINE p == page[t]
             progress == Mark(p.progress, row, status)
             cards == Credited(p.room, progress, p.history, now)
             history == AddCompletions(p.history, cards, now)
  <2>1. p \in ChecklistPage
    BY <1>6, PageKinds DEF SetItemStatus
  <2>2. progress \in Progress /\ cards \in SUBSET Card
    BY <2>1, MarkType, CreditedType DEF ChecklistPage
  <2>3. history \in SUBSET Completion
    BY <2>1, <2>2, AddCompletionsType DEF ChecklistPage
  <2>4. page' = [page EXCEPT ![t] = [p EXCEPT !.progress = progress, !.history = history]]
    BY <1>6 DEF SetItemStatus
  <2>5. storedProgress' \in Save(storedProgress, progress)
    BY <1>6 DEF SetItemStatus
  <2>6. storedHistory' = storedHistory \/ storedHistory' \in Save(storedHistory, history)
    BY <1>6 DEF SetItemStatus
  <2>7. done' = done \cup {[task |-> card, at |-> now, by |-> "checklist"] : card \in cards}
    BY <1>6 DEF SetItemStatus
  <2>8. marks' = Mark(marks, row, status) /\ now' = now
    BY <1>6 DEF SetItemStatus
  <2>9. PICK room \in Room : TRUE
    BY <2>1 DEF ChecklistPage
  <2> HIDE DEF progress, cards, history
  <2>10. [p EXCEPT !.progress = progress, !.history = history] \in PageState
    BY <2>1, <2>2, <2>3, <2>9, ChecklistPageType DEF PageState
  <2>11. storedProgress' \in Progress /\ storedHistory' \in SUBSET Completion
    BY <2>2, <2>3, <2>5, <2>6 DEF Save
  <2>12. done' \in SUBSET Record
    BY <2>2, <2>7 DEF Record
  <2>13. marks' \in Progress
    BY <2>8, MarkType
  <2> QED
    BY <2>4, <2>8, <2>10, <2>11, <2>12, <2>13
<1>7. ASSUME NEW t \in Tab, ResetChecklist(t) PROVE Typed'
  <2> DEFINE p == page[t]
             progress == Mark(p.progress, Items[p.room], "open")
  <2>1. p \in ChecklistPage
    BY <1>7, PageKinds DEF ResetChecklist
  <2>2. progress \in Progress /\ Mark(marks, Items[p.room], "open") \in Progress
    BY <2>1, MarkType DEF ChecklistPage, Status
  <2>3. /\ page' = [page EXCEPT ![t] = [p EXCEPT !.progress = progress]]
        /\ storedProgress' \in Save(storedProgress, progress)
        /\ marks' = Mark(marks, Items[p.room], "open")
        /\ UNCHANGED <<now, storedHistory, done>>
    BY <1>7 DEF ResetChecklist
  <2> HIDE DEF progress
  <2>4. [p EXCEPT !.progress = progress] \in PageState
    BY <2>1, <2>2 DEF ChecklistPage, PageState
  <2>5. storedProgress' \in Progress
    BY <2>2, <2>3 DEF Save
  <2> QED
    BY <2>2, <2>3, <2>4, <2>5
<1>8. CASE Tick
  BY <1>8 DEF Tick
<1>9. CASE UNCHANGED vars
  BY <1>9 DEF vars
<1> QED
  BY <1>1, <1>2, <1>3, <1>4, <1>5, <1>6, <1>7, <1>8, <1>9 DEF Next

(* The pages, the two stores and what was recorded have their types, for   *)
(* any tabs, rooms and cards, and whichever writes fail.                   *)
THEOREM TypeCorrect == Spec => []TypeOK
<1>1. Init => Typed
  BY TypedInit
<1>2. Typed /\ [Next]_vars => Typed'
  BY TypedNext
<1>3. Typed => TypeOK
  BY TypedIsTypeOK
<1> QED
  BY <1>1, <1>2, <1>3, PTL DEF Spec

-----------------------------------------------------------------------------
(* What holds for any tabs and whichever writes fail. *)

CreditBackedStep ==
    \A c \in done' \ done : c.by = "checklist" =>
        \E t \in Tab :
           /\ page'[t].name = "checklist"
           /\ \E link \in Links[page'[t].room] :
                /\ link.card = c.task
                /\ \A i \in link.needs : page'[t].progress[i] # "open"

OutdatedStep ==
    storedHistory' # storedHistory => \A c \in storedHistory' : now - c.at <= Retention

(* A change of an item's row, in the parts that the lemmas below share.    *)
LEMMA SetItemStatusLemma ==
    ASSUME Typed, NEW t \in Tab, NEW row \in Row, NEW status \in Status,
           SetItemStatus(t, row, status)
    PROVE  LET p == page[t]
               q == page'[t]
               cards == Credited(p.room, q.progress, p.history, now)
           IN /\ p \in ChecklistPage /\ q \in ChecklistPage
              /\ q.room = p.room
              /\ q.progress = Mark(p.progress, row, status)
              /\ q.history = AddCompletions(p.history, cards, now)
              /\ cards \in SUBSET Card
              /\ storedHistory' = storedHistory \/ storedHistory' = q.history
              /\ cards = {} => storedHistory' = storedHistory
              /\ StorageMayFail = FALSE =>
                    /\ storedProgress' = q.progress
                    /\ storedHistory' = IF cards = {} THEN storedHistory ELSE q.history
              /\ done' = done \cup {[task |-> card, at |-> now, by |-> "checklist"] : card \in cards}
              /\ \A u \in Tab \ {t} : page'[u] = page[u]
              /\ DOMAIN page' = Tab
<1> DEFINE p == page[t]
           progress == Mark(p.progress, row, status)
           cards == Credited(p.room, progress, p.history, now)
           history == AddCompletions(p.history, cards, now)
<1>1. p \in ChecklistPage /\ DOMAIN page = Tab /\ now \in Nat
  BY PageKinds DEF SetItemStatus, Typed
<1>2. /\ page' = [page EXCEPT ![t] = [p EXCEPT !.progress = progress, !.history = history]]
      /\ storedProgress' \in Save(storedProgress, progress)
      /\ storedHistory' \in IF cards = {} THEN {storedHistory} ELSE Save(storedHistory, history)
      /\ done' = done \cup {[task |-> card, at |-> now, by |-> "checklist"] : card \in cards}
  BY DEF SetItemStatus
<1>3. cards \in SUBSET Card /\ progress \in Progress
  BY <1>1, CreditedType, MarkType DEF ChecklistPage
<1>4. history \in SUBSET Completion
  BY <1>1, <1>3, AddCompletionsType DEF ChecklistPage
<1>5. progress = Mark(p.progress, row, status)
  OBVIOUS
<1>6. cards = Credited(p.room, progress, p.history, now)
  OBVIOUS
<1>7. history = AddCompletions(p.history, cards, now)
  OBVIOUS
<1> HIDE DEF progress, cards, history
<1>8. /\ page'[t] = [p EXCEPT !.progress = progress, !.history = history]
      /\ \A u \in Tab \ {t} : page'[u] = page[u]
      /\ DOMAIN page' = Tab
  BY <1>1, <1>2
<1>9. /\ page'[t] \in ChecklistPage /\ page'[t].room = p.room
      /\ page'[t].progress = progress /\ page'[t].history = history
  BY <1>1, <1>3, <1>4, <1>8 DEF ChecklistPage
<1>10. /\ storedHistory' = storedHistory \/ storedHistory' = history
       /\ cards = {} => storedHistory' = storedHistory
       /\ StorageMayFail = FALSE =>
             /\ storedProgress' = progress
             /\ storedHistory' = IF cards = {} THEN storedHistory ELSE history
  BY <1>2 DEF Save
<1> QED
  BY <1>1, <1>2, <1>3, <1>5, <1>6, <1>7, <1>8, <1>9, <1>10

(* Likewise the end of a card in a session. *)
LEMMA FinishTaskLemma ==
    ASSUME Typed, NEW t \in Tab, NEW card \in HomeCard, FinishTask(t, card)
    PROVE  LET p == page[t]
               q == page'[t]
           IN /\ p \in HomePage /\ q.name = "home"
              /\ card \in SUBSET Card /\ card # {}
              /\ q.history = AddCompletions(p.history, card, now)
              /\ storedHistory' = storedHistory \/ storedHistory' = q.history
              /\ StorageMayFail = FALSE => storedHistory' = q.history
              /\ done' = done \cup {[task |-> id, at |-> now, by |-> "session"] : id \in card}
              /\ \A u \in Tab \ {t} : page'[u] = page[u]
              /\ DOMAIN page' = Tab
<1> DEFINE p == page[t]
           history == AddCompletions(p.history, card, now)
<1>1. p \in HomePage /\ DOMAIN page = Tab /\ card \in SUBSET Card /\ card # {}
  BY PageKinds, ChecklistAssumption DEF FinishTask, Typed
<1>2. /\ page' = [page EXCEPT ![t] = [p EXCEPT !.history = history]]
      /\ storedHistory' \in Save(storedHistory, history)
      /\ done' = done \cup {[task |-> id, at |-> now, by |-> "session"] : id \in card}
  BY DEF FinishTask
<1>3. history = AddCompletions(p.history, card, now)
  OBVIOUS
<1> HIDE DEF history
<1>4. page'[t].history = history /\ page'[t].name = "home"
  BY <1>1, <1>2 DEF HomePage
<1>5. /\ storedHistory' = storedHistory \/ storedHistory' = history
      /\ StorageMayFail = FALSE => storedHistory' = history
  BY <1>2 DEF Save
<1> QED
  BY <1>1, <1>2, <1>3, <1>4, <1>5

(* Only these two record anything or write the history. *)
LEMMA StepKinds ==
    ASSUME [Next]_vars
    PROVE  \/ done' = done /\ storedHistory' = storedHistory
           \/ \E t \in Tab : \E card \in HomeCard : FinishTask(t, card)
           \/ \E t \in Tab : \E row \in Row, status \in Status : SetItemStatus(t, row, status)
<1> DEFINE Quiet == done' = done /\ storedHistory' = storedHistory
<1>1. ASSUME NEW t \in Tab, OpenHome(t) \/ OpenOther(t) \/ ResetChecklist(t) PROVE Quiet
  BY <1>1 DEF OpenHome, OpenOther, ResetChecklist
<1>2. ASSUME NEW t \in Tab, NEW room \in Room, OpenChecklist(t, room) \/ SwitchRoom(t, room)
      PROVE  Quiet
  BY <1>2 DEF OpenChecklist, SwitchRoom
<1>3. Tick => Quiet
  BY DEF Tick
<1>4. UNCHANGED vars => Quiet
  BY DEF vars
<1> HIDE DEF Quiet
<1>5. CASE Next
  BY <1>1, <1>2, <1>3, <1>5 DEF Next, Quiet
<1> QED
  BY <1>4, <1>5 DEF Quiet

(* What is added is added as of now, and what is too old goes.             *)
LEMMA AddCompletionsLemma ==
    ASSUME NEW history \in SUBSET Completion, NEW cards \in SUBSET Card, NEW t \in Nat
    PROVE  /\ cards # {} => \A c \in AddCompletions(history, cards, t) : t - c.at <= Retention
           /\ \A c \in history : t - c.at <= Retention => c \in AddCompletions(history, cards, t)
           /\ \A card \in cards : [task |-> card, at |-> t] \in AddCompletions(history, cards, t)
<1> DEFINE new == {[task |-> card, at |-> t] : card \in cards}
<1>1. new \in SUBSET Completion
  BY DEF Completion
<1>2. \A c \in new : c.at = t
  OBVIOUS
<1>3. \A c \in history \cup new : c.at \in Nat
  BY <1>1 DEF Completion
<1>4. Retention \in Nat
  BY ChecklistAssumption
<1>5. cards # {} => AddCompletions(history, cards, t) = {c \in history \cup new : c.at >= t - Retention}
  BY DEF AddCompletions, Prune
<1>6. cards = {} => AddCompletions(history, cards, t) = history
  BY DEF AddCompletions
<1>7. \A card \in cards : [task |-> card, at |-> t] \in new
  OBVIOUS
<1> HIDE DEF new
<1> QED
  BY <1>2, <1>3, <1>4, <1>5, <1>6, <1>7

LEMMA CreditBackedNext == Typed /\ [Next]_vars => CreditBackedStep
<1> SUFFICES ASSUME Typed, [Next]_vars PROVE CreditBackedStep
  OBVIOUS
<1>1. ASSUME NEW t \in Tab, NEW card \in HomeCard, FinishTask(t, card) PROVE CreditBackedStep
  <2>1. done' = done \cup {[task |-> id, at |-> now, by |-> "session"] : id \in card}
    BY <1>1 DEF FinishTask
  <2> QED
    BY <2>1 DEF CreditBackedStep
<1>2. ASSUME NEW t \in Tab, NEW row \in Row, NEW status \in Status, SetItemStatus(t, row, status)
      PROVE  CreditBackedStep
  <2> DEFINE p == page[t]
             q == page'[t]
             cards == Credited(p.room, q.progress, p.history, now)
  <2>1. /\ q.name = "checklist" /\ q.room = p.room
        /\ done' = done \cup {[task |-> card, at |-> now, by |-> "checklist"] : card \in cards}
    BY <1>2, SetItemStatusLemma DEF ChecklistPage
  <2>2. \A card \in cards : \E link \in Links[q.room] :
           link.card = card /\ \A i \in link.needs : q.progress[i] # "open"
    BY <2>1 DEF Credited, Handled
  <2> HIDE DEF cards
  <2>3. \A c \in done' \ done : c.task \in cards
    BY <2>1
  <2> QED
    BY <2>1, <2>2, <2>3 DEF CreditBackedStep
<1>3. ASSUME done' = done PROVE CreditBackedStep
  BY <1>3 DEF CreditBackedStep
<1> QED
  BY <1>1, <1>2, <1>3, StepKinds

LEMMA OutdatedNext == Typed /\ [Next]_vars => OutdatedStep
<1> SUFFICES ASSUME Typed, [Next]_vars PROVE OutdatedStep
  OBVIOUS
<1> now \in Nat
  BY DEF Typed
<1>1. ASSUME NEW t \in Tab, NEW card \in HomeCard, FinishTask(t, card) PROVE OutdatedStep
  <2>1. /\ page[t].history \in SUBSET Completion /\ card \in SUBSET Card /\ card # {}
        /\ storedHistory' = storedHistory
             \/ storedHistory' = AddCompletions(page[t].history, card, now)
    BY <1>1, FinishTaskLemma DEF HomePage
  <2> QED
    BY <2>1, AddCompletionsLemma DEF OutdatedStep
<1>2. ASSUME NEW t \in Tab, NEW row \in Row, NEW status \in Status, SetItemStatus(t, row, status)
      PROVE  OutdatedStep
  <2> DEFINE cards == Credited(page[t].room, page'[t].progress, page[t].history, now)
  <2>1. /\ page[t].history \in SUBSET Completion /\ cards \in SUBSET Card
        /\ storedHistory' = storedHistory
             \/ storedHistory' = AddCompletions(page[t].history, cards, now)
    BY <1>2, SetItemStatusLemma DEF ChecklistPage
  <2>2. cards = {} => storedHistory' = storedHistory
    BY <1>2, SetItemStatusLemma
  <2> HIDE DEF cards
  <2> QED
    BY <2>1, <2>2, AddCompletionsLemma DEF OutdatedStep
<1>3. ASSUME storedHistory' = storedHistory PROVE OutdatedStep
  BY <1>3 DEF OutdatedStep
<1> QED
  BY <1>1, <1>2, <1>3, StepKinds

(* However many tabs are open and whichever writes fail, a checklist only  *)
(* credits a card for which its page shows all the work of a link of its   *)
(* room as handled (syncCompletedPlannerTasks).                            *)
THEOREM CreditsAreBacked == Spec => CreditBacked
<1>1. Typed /\ [Next]_vars => [CreditBackedStep]_vars
  BY CreditBackedNext
<1>2. Spec => []Typed
  BY TypedInit, TypedNext, PTL DEF Spec
<1>3. Spec => [][CreditBackedStep]_vars
  BY <1>1, <1>2, PTL DEF Spec
<1> QED
  BY <1>3 DEF CreditBacked, CreditBackedStep

(* Nor is anything past its retention ever written to the store, from      *)
(* however old a copy (pruneTaskHistory).                                  *)
THEOREM OutdatedIsDropped == Spec => NothingOutdatedWritten
<1>1. Typed /\ [Next]_vars => [OutdatedStep]_vars
  BY OutdatedNext
<1>2. Spec => []Typed
  BY TypedInit, TypedNext, PTL DEF Spec
<1>3. Spec => [][OutdatedStep]_vars
  BY <1>1, <1>2, PTL DEF Spec
<1> QED
  BY <1>3 DEF NothingOutdatedWritten, OutdatedStep

-----------------------------------------------------------------------------
(* One tab, and a store that can be written. *)

OneTab == \A t, u \in Tab : t = u
Durable == StorageMayFail = FALSE

Recent(d, t) == d.at >= t - Retention
Entry(d) == [task |-> d.task, at |-> d.at]

(* The store and every copy of it hold what was recorded of late: that is  *)
(* why the copy a handler writes back takes nothing away.                  *)
Recalled ==
    /\ \A d \in done : Recent(d, now) => Entry(d) \in storedHistory
    /\ \A t \in Tab : page[t].name \in {"home", "checklist"} =>
          \A d \in done : Recent(d, now) => Entry(d) \in page[t].history

NoDoubleStep ==
    \A c \in done' \ done : c.by = "checklist" =>
        \A d \in done : d.task = c.task => c.at - d.at >= Cooldown[c.task]

(* A step that records nothing and leaves every copy alone, or mounts a    *)
(* page afresh.                                                            *)
LEMMA RecalledQuiet ==
    ASSUME Typed, Recalled, done' = done, storedHistory' = storedHistory, now' = now,
           \A t \in Tab : \/ page'[t].name \notin {"home", "checklist"}
                          \/ page'[t].name = page[t].name /\ page'[t].history = page[t].history
                          \/ page'[t].history = Prune(storedHistory, now)
    PROVE  Recalled'
<1>1. \A d \in done : Recent(d, now) => Entry(d) \in storedHistory
  BY DEF Recalled
<1>2. \A d \in done : Recent(d, now) => Entry(d) \in Prune(storedHistory, now)
  BY <1>1 DEF Prune, Recent, Entry
<1>3. ASSUME NEW t \in Tab, page'[t].name \in {"home", "checklist"}
      PROVE  \A d \in done : Recent(d, now) => Entry(d) \in page'[t].history
  <2>1. CASE page'[t].name = page[t].name /\ page'[t].history = page[t].history
    BY <1>3, <2>1 DEF Recalled
  <2>2. CASE page'[t].history = Prune(storedHistory, now)
    BY <2>2, <1>2
  <2> QED
    BY <1>3, <2>1, <2>2
<1> QED
  BY <1>1, <1>3 DEF Recalled, Recent

(* A step that adds cards to the copy of the only tab and writes it back.  *)
LEMMA RecalledAdd ==
    ASSUME Typed, Recalled, OneTab, NEW t \in Tab, NEW by, NEW cards \in SUBSET Card,
           page[t].name \in {"home", "checklist"}, page[t].history \in SUBSET Completion,
           page'[t].history = AddCompletions(page[t].history, cards, now),
           storedHistory' = IF cards = {} THEN storedHistory ELSE page'[t].history,
           done' = done \cup {[task |-> card, at |-> now, by |-> by] : card \in cards},
           now' = now
    PROVE  Recalled'
<1> DEFINE new == {[task |-> card, at |-> now, by |-> by] : card \in cards}
<1>1. \A d \in new : d.task \in cards /\ d.at = now
  OBVIOUS
<1>2. now \in Nat /\ Retention \in Nat /\ \A d \in done : d.at \in Nat
  BY ChecklistAssumption DEF Typed, Record
<1>3. /\ \A c \in page[t].history : now - c.at <= Retention => c \in page'[t].history
      /\ \A card \in cards : [task |-> card, at |-> now] \in page'[t].history
  BY <1>2, AddCompletionsLemma
<1>4. done' = done \cup new
  OBVIOUS
<1> HIDE DEF new
<1>5. ASSUME NEW d \in done', Recent(d, now) PROVE Entry(d) \in page'[t].history
  <2>1. CASE d \in done
    <3>1. Entry(d) \in page[t].history
      BY <1>5, <2>1 DEF Recalled
    <3>2. Entry(d).at = d.at /\ now - d.at <= Retention
      BY <1>2, <1>5, <2>1 DEF Recent, Entry
    <3> QED
      BY <1>3, <3>1, <3>2
  <2>2. CASE d \in new
    BY <1>1, <1>3, <2>2 DEF Entry
  <2> QED
    BY <1>4, <2>1, <2>2
<1>6. ASSUME NEW d \in done', Recent(d, now) PROVE Entry(d) \in storedHistory'
  <2>1. CASE cards = {}
    <3>1. new = {}
      BY <2>1 DEF new
    <3>2. d \in done
      BY <1>4, <3>1
    <3> QED
      BY <1>6, <2>1, <3>2 DEF Recalled
  <2>2. CASE cards # {}
    BY <1>5, <1>6, <2>2
  <2> QED
    BY <2>1, <2>2
<1>7. \A u \in Tab : u = t
  BY DEF OneTab
<1> QED
  BY <1>5, <1>6, <1>7 DEF Recalled, Recent

LEMMA RecalledInit == Init => Recalled
  BY DEF Init, Recalled, Other

LEMMA RecalledNext ==
    ASSUME OneTab, Durable, Typed, Recalled, [Next]_vars
    PROVE  Recalled'
<1>1. ASSUME NEW t \in Tab, OpenHome(t) PROVE Recalled'
  <2>1. \A u \in Tab : u # t => page'[u] = page[u]
    BY <1>1 DEF OpenHome, Typed
  <2>2. page'[t].history = Prune(storedHistory, now)
    BY <1>1 DEF OpenHome, Typed
  <2> QED
    BY <1>1, <2>1, <2>2, RecalledQuiet DEF OpenHome
<1>2. ASSUME NEW t \in Tab, NEW room \in Room, OpenChecklist(t, room) PROVE Recalled'
  <2>1. \A u \in Tab : u # t => page'[u] = page[u]
    BY <1>2 DEF OpenChecklist, Typed
  <2>2. page'[t].history = Prune(storedHistory, now)
    BY <1>2 DEF OpenChecklist, Typed
  <2> QED
    BY <1>2, <2>1, <2>2, RecalledQuiet DEF OpenChecklist
<1>3. ASSUME NEW t \in Tab, NEW room \in Room, SwitchRoom(t, room) PROVE Recalled'
  <2>1. \A u \in Tab : u # t => page'[u] = page[u]
    BY <1>3 DEF SwitchRoom, Typed
  <2>2. page[t] \in ChecklistPage
    BY <1>3, PageKinds DEF SwitchRoom, Typed
  <2>3. page'[t].name = page[t].name /\ page'[t].history = page[t].history
    BY <1>3, <2>2 DEF SwitchRoom, Typed, ChecklistPage
  <2> QED
    BY <1>3, <2>1, <2>3, RecalledQuiet DEF SwitchRoom
<1>4. ASSUME NEW t \in Tab, OpenOther(t) PROVE Recalled'
  <2>1. \A u \in Tab : u # t => page'[u] = page[u]
    BY <1>4 DEF OpenOther, Typed
  <2>2. page'[t].name \notin {"home", "checklist"}
    BY <1>4 DEF OpenOther, Typed, Other
  <2> QED
    BY <1>4, <2>1, <2>2, RecalledQuiet DEF OpenOther
<1>5. ASSUME NEW t \in Tab, NEW card \in HomeCard, FinishTask(t, card) PROVE Recalled'
  <2>1. /\ page[t].name = "home" /\ page[t].history \in SUBSET Completion
        /\ card \in SUBSET Card /\ card # {}
        /\ page'[t].history = AddCompletions(page[t].history, card, now)
        /\ storedHistory' = page'[t].history
        /\ done' = done \cup {[task |-> id, at |-> now, by |-> "session"] : id \in card}
    BY <1>5, FinishTaskLemma DEF Durable, HomePage
  <2>2. now' = now
    BY <1>5 DEF FinishTask
  <2> QED
    BY <2>1, <2>2, RecalledAdd
<1>6. ASSUME NEW t \in Tab, NEW row \in Row, NEW status \in Status, SetItemStatus(t, row, status)
      PROVE  Recalled'
  <2> DEFINE cards == Credited(page[t].room, page'[t].progress, page[t].history, now)
  <2>1. /\ page[t].name = "checklist" /\ page[t].history \in SUBSET Completion
        /\ cards \in SUBSET Card
        /\ page'[t].history = AddCompletions(page[t].history, cards, now)
        /\ storedHistory' = IF cards = {} THEN storedHistory ELSE page'[t].history
        /\ done' = done \cup {[task |-> card, at |-> now, by |-> "checklist"] : card \in cards}
    BY <1>6, SetItemStatusLemma DEF Durable, ChecklistPage
  <2>2. now' = now
    BY <1>6 DEF SetItemStatus
  <2> HIDE DEF cards
  <2> QED
    BY <2>1, <2>2, RecalledAdd
<1>7. ASSUME NEW t \in Tab, ResetChecklist(t) PROVE Recalled'
  <2>1. \A u \in Tab : u # t => page'[u] = page[u]
    BY <1>7 DEF ResetChecklist, Typed
  <2>2. page[t] \in ChecklistPage
    BY <1>7, PageKinds DEF ResetChecklist, Typed
  <2>3. PICK progress : page' = [page EXCEPT ![t].progress = progress]
    BY <1>7 DEF ResetChecklist
  <2>4. page'[t].name = page[t].name /\ page'[t].history = page[t].history
    BY <2>2, <2>3 DEF Typed, ChecklistPage
  <2> QED
    BY <1>7, <2>1, <2>4, RecalledQuiet DEF ResetChecklist
<1>8. CASE Tick
  <2>1. /\ now' = now + 1 /\ storedHistory' = storedHistory /\ page' = page /\ done' = done
    BY <1>8 DEF Tick
  <2>2. \A d \in done : Recent(d, now') => Recent(d, now)
    BY <2>1, ChecklistAssumption DEF Typed, Record, Recent
  <2> QED
    BY <2>1, <2>2 DEF Recalled
<1>9. CASE UNCHANGED vars
  BY <1>9 DEF vars, Recalled, Recent
<1> QED
  BY <1>1, <1>2, <1>3, <1>4, <1>5, <1>6, <1>7, <1>8, <1>9 DEF Next

(* What a checklist credits is not in its copy within the cooldown, and    *)
(* the copy recalls whatever was recorded that recently.                   *)
LEMMA NoDoubleNext ==
    ASSUME OneTab, Durable, Typed, Recalled, [Next]_vars
    PROVE  NoDoubleStep
<1>1. ASSUME NEW t \in Tab, NEW card \in HomeCard, FinishTask(t, card) PROVE NoDoubleStep
  <2>1. done' = done \cup {[task |-> id, at |-> now, by |-> "session"] : id \in card}
    BY <1>1 DEF FinishTask
  <2> QED
    BY <2>1 DEF NoDoubleStep
<1>2. ASSUME NEW t \in Tab, NEW row \in Row, NEW status \in Status, SetItemStatus(t, row, status)
      PROVE  NoDoubleStep
  <2> DEFINE cards == Credited(page[t].room, page'[t].progress, page[t].history, now)
  <2>1. /\ page[t].name = "checklist" /\ page[t].history \in SUBSET Completion
        /\ cards \in SUBSET Card
        /\ done' = done \cup {[task |-> card, at |-> now, by |-> "checklist"] : card \in cards}
    BY <1>2, SetItemStatusLemma DEF ChecklistPage
  <2>2. \A card \in cards : ~OnCooldown(card, page[t].history, now)
    BY DEF Credited
  <2> HIDE DEF cards
  <2>3. \A c \in done' \ done : c.task \in cards /\ c.at = now
    BY <2>1
  <2>4. ASSUME NEW c \in done' \ done, NEW d \in done, d.task = c.task
        PROVE  c.at - d.at >= Cooldown[c.task]
    <3>1. /\ c.at = now /\ now \in Nat /\ d.at \in Nat /\ c.task \in Card
          /\ Cooldown[c.task] \in Nat /\ Retention \in Nat /\ Cooldown[c.task] <= Retention
      BY <2>1, <2>3, ChecklistAssumption DEF Typed, Record
    <3>2. Entry(d).task = c.task /\ Entry(d).at = d.at
      BY <2>4 DEF Entry
    <3>3. SUFFICES ASSUME now - d.at < Cooldown[c.task] PROVE FALSE
      BY <3>1
    <3>4. Recent(d, now)
      BY <3>1, <3>3 DEF Recent
    <3>5. Entry(d) \in page[t].history
      BY <2>1, <3>4 DEF Recalled
    <3>6. OnCooldown(c.task, page[t].history, now)
      BY <3>1, <3>2, <3>3, <3>5 DEF OnCooldown
    <3> QED
      BY <2>2, <2>3, <3>6
  <2> QED
    BY <2>4 DEF NoDoubleStep
<1>3. ASSUME done' = done PROVE NoDoubleStep
  BY <1>3 DEF NoDoubleStep
<1> QED
  BY <1>1, <1>2, <1>3, StepKinds

LEMMA ProgressNext ==
    ASSUME OneTab, Durable, Typed, ProgressKept, [Next]_vars
    PROVE  ProgressKept'
<1>1. ASSUME NEW t \in Tab, OpenHome(t) \/ OpenOther(t) PROVE ProgressKept'
  BY <1>1 DEF OpenHome, OpenOther, Other, ProgressKept, Typed
<1>2. ASSUME NEW t \in Tab, NEW room \in Room, OpenChecklist(t, room) PROVE ProgressKept'
  BY <1>2 DEF OpenChecklist, ProgressKept, Typed
<1>3. ASSUME NEW t \in Tab, NEW room \in Room, SwitchRoom(t, room) PROVE ProgressKept'
  <2>1. page[t] \in ChecklistPage
    BY <1>3, PageKinds DEF SwitchRoom, Typed
  <2>2. page'[t].progress = page[t].progress /\ \A u \in Tab : u # t => page'[u] = page[u]
    BY <1>3, <2>1 DEF SwitchRoom, Typed, ChecklistPage
  <2> QED
    BY <1>3, <2>2 DEF SwitchRoom, ProgressKept
<1>4. ASSUME NEW t \in Tab, NEW card \in HomeCard, FinishTask(t, card) PROVE ProgressKept'
  <2>1. page'[t].name = "home" /\ \A u \in Tab \ {t} : page'[u] = page[u]
    BY <1>4, FinishTaskLemma
  <2>2. storedProgress' = storedProgress /\ marks' = marks
    BY <1>4 DEF FinishTask, ProgressKept, OneTab
  <2>3. storedProgress = marks /\ \A u \in Tab : u = t
    BY DEF ProgressKept, OneTab
  <2> QED
    BY <2>1, <2>2, <2>3 DEF ProgressKept
<1>5. ASSUME NEW t \in Tab, NEW row \in Row, NEW status \in Status, SetItemStatus(t, row, status)
      PROVE  ProgressKept'
  <2>1. /\ page[t].name = "checklist" /\ storedProgress' = page'[t].progress
        /\ page'[t].progress = Mark(page[t].progress, row, status)
    BY <1>5, SetItemStatusLemma DEF Durable, ChecklistPage
  <2>2. marks' = Mark(marks, row, status)
    BY <1>5 DEF SetItemStatus
  <2>3. page[t].progress = marks
    BY <2>1 DEF ProgressKept
  <2> QED
    BY <2>1, <2>2, <2>3 DEF ProgressKept, OneTab
<1>6. ASSUME NEW t \in Tab, ResetChecklist(t) PROVE ProgressKept'
  <2> DEFINE progress == Mark(marks, Items[page[t].room], "open")
  <2>1. page[t] \in ChecklistPage /\ page[t].progress = marks
    BY <1>6, PageKinds DEF ResetChecklist, Typed, ProgressKept
  <2>2. /\ page' = [page EXCEPT ![t] = [page[t] EXCEPT !.progress = progress]]
        /\ storedProgress' = progress /\ marks' = progress
    BY <1>6, <2>1 DEF ResetChecklist, Save, Durable
  <2> HIDE DEF progress
  <2>3. page'[t].progress = progress
    BY <2>1, <2>2 DEF Typed, ChecklistPage
  <2> QED
    BY <2>2, <2>3 DEF ProgressKept, OneTab
<1>7. CASE Tick
  BY <1>7 DEF Tick, ProgressKept
<1>8. CASE UNCHANGED vars
  BY <1>8 DEF vars, ProgressKept
<1> QED
  BY <1>1, <1>2, <1>3, <1>4, <1>5, <1>6, <1>7, <1>8 DEF Next

(* With one tab and a store that can be written, the store holds every     *)
(* item as the user last left it, and an open checklist shows just that    *)
(* (RoomChecklistPage.tsx:121-127, 147-153).                               *)
THEOREM ProgressIsKept ==
    ASSUME OneTab, Durable
    PROVE  Spec => []ProgressKept
<1>1. Init => Typed /\ ProgressKept
  BY TypedInit DEF Init, ProgressKept, Other
<1>2. Typed /\ ProgressKept /\ [Next]_vars => (Typed /\ ProgressKept)'
  BY TypedNext, ProgressNext
<1> QED
  BY <1>1, <1>2, PTL DEF Spec

(* With one tab and a store that can be written, a recorded completion     *)
(* stays in the store for its retention, whatever pages come and go.       *)
THEOREM NothingForgotten ==
    ASSUME OneTab, Durable
    PROVE  Spec => []Remembered
<1>1. Init => Typed /\ Recalled
  BY TypedInit, RecalledInit
<1>2. Typed /\ Recalled /\ [Next]_vars => (Typed /\ Recalled)'
  BY TypedNext, RecalledNext
<1>3. Typed /\ Recalled => Remembered
  BY DEF Recalled, Remembered, Recent, Entry
<1> QED
  BY <1>1, <1>2, <1>3, PTL DEF Spec

(* Nor then does a checklist credit a card within its cooldown, counted    *)
(* from whatever a session or any checklist recorded                       *)
(* (syncCompletedPlannerTasks).                                            *)
THEOREM CreditedOnce ==
    ASSUME OneTab, Durable
    PROVE  Spec => NoDoubleCredit
<1>1. Init => Typed /\ Recalled
  BY TypedInit, RecalledInit
<1>2. Typed /\ Recalled /\ [Next]_vars => (Typed /\ Recalled)'
  BY TypedNext, RecalledNext
<1>3. Typed /\ Recalled /\ [Next]_vars => [NoDoubleStep]_vars
  BY NoDoubleNext
<1>4. Spec => [][NoDoubleStep]_vars
  BY <1>1, <1>2, <1>3, PTL DEF Spec
<1> QED
  BY <1>4 DEF NoDoubleCredit, NoDoubleStep

-----------------------------------------------------------------------------
(* The rows of a checklist. *)

(* Moving the floor's tasks leaves every item of a room in one section.    *)
LEMMA RehomedOnce ==
    ASSUME NEW room \in Room, NEW i \in Items[room]
    PROVE  /\ \E k \in SectionsOf(room) : i \in Rehomed(room, k)
           /\ \A k, l \in SectionsOf(room) :
                i \in Rehomed(room, k) /\ i \in Rehomed(room, l) => k = l
<1>1. PICK k \in SectionsOf(room) : i \in TasksIn(room, k)
  BY DEF Items
<1>2. \A l \in SectionsOf(room) : i \in TasksIn(room, l) => l = k
  BY <1>1, CondenseAssumption
<1>3. CASE Moves(room, k, i)
  <2>1. PICK home \in FloorSections(room) : IsHome(room, home)
    BY <1>3, CondenseAssumption DEF Moves
  <2>2. home \in SectionsOf(room) /\ SectionsOf(room) \subseteq Nat
    BY <2>1, CondenseAssumption DEF FloorSections
  <2>3. i \in Rehomed(room, home)
    BY <1>1, <1>3, <2>1 DEF Rehomed
  <2>4. ASSUME NEW l \in SectionsOf(room), i \in Rehomed(room, l) PROVE l = home
    <3>1. IsHome(room, l)
      BY <1>2, <1>3, <2>4 DEF Rehomed
    <3>2. l \in FloorSections(room) /\ l <= home /\ home <= l
      BY <2>1, <3>1 DEF IsHome
    <3> QED
      BY <2>2, <3>2
  <2> QED
    BY <2>2, <2>3, <2>4
<1>4. CASE ~Moves(room, k, i)
  <2>1. i \in Rehomed(room, k)
    BY <1>1, <1>4 DEF Rehomed
  <2>2. ASSUME NEW l \in SectionsOf(room), i \in Rehomed(room, l) PROVE l = k
    BY <1>2, <1>4, <2>2 DEF Rehomed
  <2> QED
    BY <2>1, <2>2
<1> QED
  BY <1>3, <1>4

(* Condensing loses no task of a room and shows none twice: each is in     *)
(* exactly one row, and a row has no task of another room                  *)
(* (sectionsForChecklist, roomChecklist.ts:395-401).                       *)
THEOREM RowsPartition ==
    ASSUME NEW room \in Room
    PROVE  /\ \A row \in Rows[room] : row # {} /\ row \subseteq Items[room]
           /\ \A i \in Items[room] :
                \E row \in Rows[room] :
                   i \in row /\ \A other \in Rows[room] : i \in other => other = row
<1>1. CASE room \in Uncondensed
  <2>1. Rows[room] = {{i} : i \in Items[room]}
    BY <1>1 DEF Rows
  <2>2. \A row \in Rows[room] : row # {} /\ row \subseteq Items[room]
    BY <2>1
  <2>3. ASSUME NEW i \in Items[room]
        PROVE  \E row \in Rows[room] :
                  i \in row /\ \A other \in Rows[room] : i \in other => other = row
    <3>1. {i} \in Rows[room]
      BY <2>1
    <3>2. \A other \in Rows[room] : i \in other => other = {i}
      BY <2>1
    <3> QED
      BY <3>1, <3>2
  <2> QED
    BY <2>2, <2>3
<1>2. CASE room \notin Uncondensed
  <2>1. Rows[room] = UNION {CondenseSection(room, k) : k \in SectionsOf(room)}
    BY <1>2 DEF Rows
  <2> DEFINE RowOf(k, i) ==
               {j \in Rehomed(room, k) : Group(j, Sections[room][k]) = Group(i, Sections[room][k])}
  <2>2. \A row : row \in Rows[room] <=>
          \E k \in SectionsOf(room) : \E i \in Rehomed(room, k) : row = RowOf(k, i)
    <3>1. \A k : CondenseSection(room, k) = {RowOf(k, i) : i \in Rehomed(room, k)}
      BY DEF CondenseSection
    <3> HIDE DEF RowOf
    <3>2. \A row, k : row \in CondenseSection(room, k) <=>
            \E i \in Rehomed(room, k) : row = RowOf(k, i)
      BY <3>1
    <3>3. \A row : row \in Rows[room] <=>
            \E k \in SectionsOf(room) : row \in CondenseSection(room, k)
      BY <2>1
    <3> QED
      BY <3>2, <3>3
  <2>3. \A k \in SectionsOf(room) : Rehomed(room, k) \subseteq Items[room]
    BY DEF Rehomed, Items
  <2>4. \A k \in SectionsOf(room) : \A i \in Rehomed(room, k) :
          i \in RowOf(k, i) /\ RowOf(k, i) \subseteq Rehomed(room, k)
    OBVIOUS
  <2>5. \A k \in SectionsOf(room) : \A i, j \in Rehomed(room, k) :
          i \in RowOf(k, j) => RowOf(k, j) = RowOf(k, i)
    OBVIOUS
  <2> HIDE DEF RowOf
  <2>6. \A row \in Rows[room] : row # {} /\ row \subseteq Items[room]
    BY <2>2, <2>3, <2>4
  <2>7. ASSUME NEW i \in Items[room]
        PROVE  \E row \in Rows[room] :
                  i \in row /\ \A other \in Rows[room] : i \in other => other = row
    <3>1. PICK k \in SectionsOf(room) : i \in Rehomed(room, k)
      BY RehomedOnce
    <3>2. RowOf(k, i) \in Rows[room] /\ i \in RowOf(k, i)
      BY <2>2, <2>4, <3>1
    <3>3. ASSUME NEW other \in Rows[room], i \in other PROVE other = RowOf(k, i)
      <4>1. PICK l \in SectionsOf(room) : \E j \in Rehomed(room, l) : other = RowOf(l, j)
        BY <2>2
      <4>2. PICK j \in Rehomed(room, l) : other = RowOf(l, j)
        BY <4>1
      <4>3. i \in Rehomed(room, l)
        BY <2>4, <3>3, <4>2
      <4>4. l = k
        BY <3>1, <4>3, RehomedOnce
      <4> QED
        BY <2>5, <3>1, <3>3, <4>2, <4>4
    <3> QED
      BY <3>2, <3>3
  <2> QED
    BY <2>6, <2>7
<1> QED
  BY <1>1, <1>2

(* No row with a task that must always be done can be put aside, so no     *)
(* such task is, in any tab, whichever writes fail and whatever else the   *)
(* row holds: it takes that the row's condition is "always" as soon as one *)
(* of its tasks' is (combinedCondition, roomChecklist.ts:650-654).         *)
THEOREM AlwaysStays == Spec => []NeverPutAside
<1>1. Init => NeverPutAside
  BY DEF Init, NeverPutAside
<1>2. ASSUME NeverPutAside, [Next]_vars PROVE NeverPutAside'
  <2> SUFFICES ASSUME NEW i \in Item, marks'[i] = "skipped", Source[i].condition = "always"
               PROVE  FALSE
    BY DEF NeverPutAside
  <2>1. marks[i] # "skipped"
    BY <1>2 DEF NeverPutAside
  <2>2. ASSUME NEW t \in Tab, NEW row \in Row, NEW status \in Status, SetItemStatus(t, row, status)
        PROVE  FALSE
    <3>1. marks' = Mark(marks, row, status) /\ status \in Choices(row, page[t].progress)
      BY <2>2 DEF SetItemStatus
    <3>2. i \in row /\ status = "skipped"
      BY <2>1, <3>1 DEF Mark
    <3>3. CombinedCondition(row) = "always"
      BY <3>2 DEF CombinedCondition
    <3> QED
      BY <3>1, <3>2, <3>3 DEF Choices
  <2>3. ASSUME NEW t \in Tab, ResetChecklist(t) PROVE FALSE
    BY <2>1, <2>3 DEF ResetChecklist, Mark
  <2>4. CASE marks' = marks
    BY <2>1, <2>4
  <2> QED
    BY <1>2, <2>2, <2>3, <2>4
       DEF Next, OpenHome, OpenChecklist, SwitchRoom, OpenOther, FinishTask, Tick, vars
<1> QED
  BY <1>1, <1>2, PTL DEF Spec
=============================================================================
