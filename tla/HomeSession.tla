---------------------------- MODULE HomeSession -----------------------------
(***************************************************************************)
(* The cleaning sessions of frontend/src/pages/HomePage.tsx, from the      *)
(* overview over planning to the last bonus task, with buildPlan as        *)
(* Planning has it and the weekly overview of module Weekly.               *)
(*                                                                         *)
(* Every handler is one action: React runs them one at a time and renders  *)
(* the page after each.  planningNow is the time of the LAST RENDER, not   *)
(* of the click, and a page without a running timer may stand for days;    *)
(* completions carry the time of the click.  One tab is enough here, and   *)
(* its store can be written: Checklist has the other cases.                *)
(*                                                                         *)
(* A card is the sequence of the tasks it is made of: one, or several      *)
(* small ones bundled (toDisplayPlan).                                     *)
(***************************************************************************)
EXTENDS Weekly

CONSTANTS
    Mode,           \* the modes on the overview, incidents aside
    DefaultMinutes, \* DefaultMinutes[m]: its duration
    TimeOptions,    \* TimeOptions[m]: the minutes the set-up offers
    AreaOrder,      \* cleaningAreas
    AreaRooms,      \* the rooms of each
    AllRooms,       \* householdRooms
    FirstChoices,   \* what is selected when the page is mounted
    Incident,       \* the incident modes
    Steps,          \* Steps[i]: its protocol, a sequence of cards
    StepId,         \* the ids in those cards
    NoBundle,       \* Info[t].bundle of a task without bundleKey
    Schedules,      \* what loadOrCreateTaskSchedule may have stored
    Retention,      \* HISTORY_RETENTION_DAYS
    MaxTime,        \* bound: the clock stops here
    MaxStarts       \* bound: sessions started

VARIABLES
    screen,         \* which of the screens is shown
    choices,        \* selectedMode, selectedAreaId, selectedMembers, selectedMinutes
    planned,        \* plannedTasks: the cards of the session
    bonus,          \* bonusTasks: cards that may still be offered
    base,           \* baseTaskCount: how many cards were planned at the start
    bonusCompleted,
    completed,      \* completedTaskIds, in the order they were finished
    timeLeft,       \* secondsLeft > 0
    kind,           \* weeklySession, incidentSession, or an ordinary one
    history,        \* completionHistory, and what the store holds
    schedule,       \* taskSchedule
    rendered,       \* when the page was last rendered (planningNow)
    now,            \* the clock
    started,        \* history: when the session was started
    repeated,       \* history: whether it was started from the rest screen
    starts          \* history: how many were started

deck == <<planned, bonus, base, bonusCompleted, completed>>
pass == <<deck, timeLeft, kind, started, repeated, starts>>
vars == <<screen, choices, pass, history, schedule, rendered, now>>

Elements(s) == {s[k] : k \in DOMAIN s}
Area == Elements(AreaOrder)
Card == Seq(Task \cup StepId)
Completion == [task : Task \cup StepId, at : Nat]
Screen == {"home", "setup", "incident-choice", "session", "bonus", "done", "rest"}
Choices == [mode : Mode \cup Incident, area : Area, people : Seq(Person), minutes : Nat]

NoRepetition(s) == \A j, k \in DOMAIN s : s[j] = s[k] => j = k

ASSUME HomeSessionAssumption ==
    /\ \A m \in Mode : DefaultMinutes[m] \in Nat /\ TimeOptions[m] \subseteq Nat
    /\ FirstChoices \in Choices /\ FirstChoices.mode \in Mode /\ NoRepetition(FirstChoices.people)
    /\ AreaOrder \in Seq(Area)
    /\ Task \cap StepId = {}
    /\ MaxTime \in Nat /\ MaxStarts \in Nat /\ Retention \in Nat

TypeOK ==
    /\ screen \in Screen
    /\ choices \in Choices /\ NoRepetition(choices.people)
    /\ planned \in Seq(Card) /\ bonus \in Seq(Card)
    /\ base \in Nat /\ bonusCompleted \in Nat /\ starts \in Nat
    /\ completed \in Seq(Card)
    /\ timeLeft \in BOOLEAN /\ repeated \in BOOLEAN
    /\ kind \in {"ordinary", "weekly", "incident"}
    /\ history \subseteq Completion
    /\ schedule \in Schedules
    /\ rendered \in 0 .. now /\ started \in 0 .. now /\ now \in Nat

-----------------------------------------------------------------------------
(* Cards. *)

(* What s holds at these places, in its order: Array.prototype.filter.     *)
Picked(s, places) ==
    [n \in 1 .. Cardinality(places) |->
        s[CHOOSE k \in places : Cardinality({j \in places : j < k}) = n - 1]]

(* completionIds: a card of one task also counts for the parts of it. *)
CompletionIds(card) ==
    IF Len(card) = 1 /\ card[1] \in Task
    THEN {card[1]} \cup Info[card[1]].includes
    ELSE Elements(card)

(* No two of these cards record the same completion. *)
Separate(cards) ==
    \A j, k \in DOMAIN cards :
        j # k => CompletionIds(cards[j]) \cap CompletionIds(cards[k]) = {}

(* A property of the protocols (incidentTaskBank): they have steps, and no *)
(* two with the same id.                                                   *)
ASSUME ProtocolAssumption ==
    \A i \in Incident :
        /\ Steps[i] \in Seq(Card) /\ Steps[i] # <<>> /\ Separate(Steps[i])
        /\ \A k \in DOMAIN Steps[i] : Steps[i][k] # <<>>

(* Small tasks of one person with one bundleKey share a card. *)
Together(c, d) ==
    \/ c = d
    \/ /\ Info[c.task].bundle # NoBundle
       /\ Info[c.task].bundle = Info[d.task].bundle
       /\ c.person = d.person

(* The cards of a plan, each where its first task was. *)
DisplayPlan(cards) ==
    LET tasks == [k \in DOMAIN cards |-> cards[k].task]
        bundle(k) == {j \in DOMAIN cards : Together(cards[j], cards[k])}
        leads == {k \in DOMAIN cards : \A j \in bundle(k) : k <= j}
    IN Picked([k \in DOMAIN cards |-> Picked(tasks, bundle(k))], leads)

(* Mutant of BonusCards: whatever was eligible may be offered. *)
BonusCardsOfAll(in, plan) ==
    LET tasks == EligibleTasks(in) IN [k \in DOMAIN tasks |-> <<tasks[k]>>]

BonusCards(in, plan) ==
    LET tasks == UnassignedTasks(in, plan) IN [k \in DOMAIN tasks |-> <<tasks[k]>>]

-----------------------------------------------------------------------------
(* The weekly overview, as last rendered. *)

View == [tasks |-> Task, history |-> history, schedule |-> schedule, now |-> rendered]

(* The area of the suggested deep clean, if there is one: what the set-up  *)
(* begins with, from the mode's card (startSetup) as from the overview's   *)
(* button (startAreaSetup).                                                *)
SuggestedArea ==
    LET rooms == {Info[t].room : t \in DeepCleanTask(View)}
        areas == {k \in DOMAIN AreaOrder : AreaRooms[AreaOrder[k]] \cap rooms # {}}
    IN IF areas = {} THEN FirstChoices.area
       ELSE AreaOrder[CHOOSE k \in areas : \A j \in areas : k <= j]

-----------------------------------------------------------------------------
Init ==
    /\ screen = "home"
    /\ choices = FirstChoices
    /\ planned = <<>> /\ bonus = <<>> /\ base = 0
    /\ bonusCompleted = 0 /\ completed = <<>>
    /\ timeLeft = FALSE /\ kind = "ordinary"
    /\ history = {}
    /\ schedule \in Schedules
    /\ rendered = 0 /\ now = 0
    /\ started = 0 /\ repeated = FALSE /\ starts = 0

(* Time passes, and nothing renders the page. *)
Tick ==
    /\ now < MaxTime
    /\ now' = now + 1
    /\ UNCHANGED <<screen, choices, pass, history, schedule, rendered>>

(* After a handler the page is rendered again. *)
Rendered == rendered' = now /\ UNCHANGED <<schedule, now>>

(* The timer of a session, which may be throttled while nobody looks.      *)
TimerTick ==
    /\ screen = "session" /\ kind # "incident" /\ timeLeft
    /\ timeLeft' \in BOOLEAN
    /\ Rendered
    /\ UNCHANGED <<screen, choices, deck, kind, started, repeated, starts, history>>

(* The page is mounted anew; only what is stored outlives it. *)
OpenHome ==
    /\ screen' = "home"
    /\ choices' = FirstChoices
    /\ planned' = <<>> /\ bonus' = <<>> /\ base' = 0
    /\ bonusCompleted' = 0 /\ completed' = <<>>
    /\ timeLeft' = FALSE /\ kind' = "ordinary"
    /\ history' = {c \in history : now - c.at <= Retention}
    /\ Rendered
    /\ UNCHANGED <<started, repeated, starts>>

-----------------------------------------------------------------------------
(* Choosing. *)

(* A mode is picked on the overview, or its suggestion is planned.         *)
StartSetup(m) ==
    /\ screen = "home"
    /\ choices' = [choices EXCEPT !.mode = m,
                                  !.area = IF m = "area" THEN SuggestedArea ELSE @,
                                  !.minutes = DefaultMinutes[m]]
    /\ kind' = "ordinary"
    /\ screen' = "setup"
    /\ Rendered
    /\ UNCHANGED <<deck, timeLeft, started, repeated, starts, history>>

Choose(new) ==
    /\ screen = "setup"
    /\ new # choices
    /\ choices' = new
    /\ Rendered
    /\ UNCHANGED <<screen, pass, history>>

SelectMinutes ==
    /\ screen = "setup"
    /\ \E minutes \in TimeOptions[choices.mode] :
         Choose([choices EXCEPT !.minutes = minutes])

SelectArea ==
    /\ choices.mode = "area"
    /\ \E area \in Area : Choose([choices EXCEPT !.area = area])

Toggled(p, people) ==
    IF p \in Elements(people) THEN Picked(people, {k \in DOMAIN people : people[k] # p})
    ELSE Append(people, p)

ToggleMember ==
    \E p \in Person : Choose([choices EXCEPT !.people = Toggled(p, @)])

(* The buttons that change nothing but the screen. *)
GoTo(name) ==
    /\ screen' = name
    /\ Rendered
    /\ UNCHANGED <<choices, pass, history>>

ChooseIncident == screen = "home" /\ GoTo("incident-choice")

GoHome == screen \in {"setup", "incident-choice", "done", "rest"} /\ GoTo("home")

(* Ending a session early, or another one after it. *)
GoBack ==
    /\ screen \in {"session", "done"}
    /\ GoTo(IF kind = "ordinary" THEN "setup" ELSE "home")

SkipBonus == screen = "bonus" /\ GoTo("done")

-----------------------------------------------------------------------------
(* Starting. *)

PlanMode ==
    CASE choices.mode = "area" -> "weekend"
      [] choices.mode = "timed" ->
            IF choices.minutes >= LongSession THEN "weekend" ELSE "daily"
      [] OTHER -> choices.mode

SelectionInput(ignoreHistory) ==
    [mode |-> PlanMode,
     minutes |-> choices.minutes,
     people |-> choices.people,
     rooms |-> IF choices.mode = "area" THEN AreaRooms[choices.area] ELSE AllRooms,
     history |-> IF ignoreHistory THEN {} ELSE history,
     now |-> rendered, month |-> MonthOf[rendered],
     schedule |-> schedule]

(* Mutant of StartWith: what was finished before is kept. *)
StartWithCompleted(newPlanned, newBonus, time) ==
    /\ starts < MaxStarts
    /\ planned' = newPlanned /\ bonus' = newBonus
    /\ base' = Len(newPlanned)
    /\ bonusCompleted' = 0
    /\ timeLeft' = time
    /\ started' = now /\ starts' = starts + 1
    /\ Rendered
    /\ UNCHANGED <<history, completed>>

(* What every start sets. *)
StartWith(newPlanned, newBonus, time) ==
    /\ starts < MaxStarts
    /\ planned' = newPlanned /\ bonus' = newBonus
    /\ base' = Len(newPlanned)
    /\ bonusCompleted' = 0 /\ completed' = <<>>
    /\ timeLeft' = time
    /\ started' = now /\ starts' = starts + 1
    /\ Rendered
    /\ UNCHANGED history

StartSession(ignoreHistory) ==
    /\ IF ignoreHistory THEN screen = "rest" ELSE screen = "setup" /\ choices.people # <<>>
    /\ choices.mode \in Mode
    /\ LET in == SelectionInput(ignoreHistory)
           plan == BuildPlan(in)
       IN StartWith(DisplayPlan(plan.cards), BonusCards(in, plan), choices.minutes > 0)
    /\ screen' = IF planned' = <<>> THEN "rest" ELSE "session"
    /\ repeated' = ignoreHistory
    /\ UNCHANGED <<choices, kind>>

StartIncident(i) ==
    /\ screen = "incident-choice"
    /\ StartWith(Steps[i], <<>>, FALSE)
    /\ choices' = [choices EXCEPT !.mode = i]
    /\ kind' = "incident"
    /\ screen' = "session"
    /\ UNCHANGED repeated

StartWeeklyRecommendation ==
    /\ screen = "home"
    /\ \E t \in WeeklyRecommendation(View) :
         StartWith(<< <<t>> >>, <<>>, Info[t].minutes > 0)
    /\ kind' = "weekly"
    /\ screen' = "session"
    /\ UNCHANGED <<choices, repeated>>

-----------------------------------------------------------------------------
(* Working. *)

PositionOf(card) ==
    CHOOSE k \in DOMAIN planned :
        planned[k] = card /\ \A j \in 1 .. k - 1 : planned[j] # card

(* Mutant of Afterwards: a bonus is offered although none is left. *)
AfterwardsWhileTime == IF timeLeft THEN "bonus" ELSE "done"

Afterwards == IF bonus # <<>> /\ timeLeft THEN "bonus" ELSE "done"

FinishTask ==
    /\ screen = "session"
    /\ \E card \in Elements(planned) \ Elements(completed) :
         /\ completed' = Append(completed, card)
         /\ history' = {c \in history \cup {[task |-> id, at |-> now] :
                                               id \in CompletionIds(card)} :
                          now - c.at <= Retention}
         /\ bonusCompleted' =
              bonusCompleted + (IF PositionOf(card) > base THEN 1 ELSE 0)
    /\ screen' = IF Len(completed') >= Len(planned) THEN Afterwards ELSE screen
    /\ Rendered
    /\ UNCHANGED <<choices, planned, bonus, base, timeLeft, kind, started, repeated, starts>>

(* Mutant of StartBonus: the bonus task is put before the others. *)
StartBonusInFront ==
    /\ screen = "bonus"
    /\ screen' = IF bonus = <<>> THEN "done" ELSE "session"
    /\ planned' = SubSeq(bonus, 1, 1) \o planned
    /\ bonus' = SubSeq(bonus, 2, Len(bonus))
    /\ timeLeft' = (timeLeft \/ bonus # <<>>)
    /\ Rendered
    /\ UNCHANGED <<choices, base, bonusCompleted, completed, kind, started, repeated,
                   starts, history>>

(* The first bonus task joins the session, with time of its own. *)
StartBonus ==
    /\ screen = "bonus"
    /\ screen' = IF bonus = <<>> THEN "done" ELSE "session"
    /\ planned' = planned \o SubSeq(bonus, 1, 1)
    /\ bonus' = SubSeq(bonus, 2, Len(bonus))
    /\ timeLeft' = (timeLeft \/ bonus # <<>>)
    /\ Rendered
    /\ UNCHANGED <<choices, base, bonusCompleted, completed, kind, started, repeated,
                   starts, history>>

Next ==
    \/ Tick \/ TimerTick \/ OpenHome
    \/ \E m \in Mode : StartSetup(m)
    \/ SelectMinutes \/ SelectArea \/ ToggleMember
    \/ ChooseIncident \/ GoHome \/ GoBack \/ SkipBonus
    \/ \E ignoreHistory \in BOOLEAN : StartSession(ignoreHistory)
    \/ \E i \in Incident : StartIncident(i)
    \/ StartWeeklyRecommendation
    \/ FinishTask \/ StartBonus

Spec == Init /\ [][Next]_vars

-----------------------------------------------------------------------------
(* Properties. *)

(* No activity counts twice in a session: no two of its cards, planned or  *)
(* still to be offered, bundled or with parts, record the same completion  *)
(* (HomePage.tsx:198-205, 217-218).                                        *)
CardsDisjoint == Separate(planned \o bonus)

(* The rest screen promises to wait rather than give the same card too     *)
(* often (HomePage.tsx:465).  However long the set-up or the bonus screen  *)
(* stood there, an ordinary session asks for nothing that is cooling down  *)
(* now, but for what was done in this very session as another task of the  *)
(* same repeat group: the plan was made before (taskEngine.ts:170,         *)
(* HomePage.tsx:194-205).                                                  *)
NothingTooSoon ==
    kind = "ordinary" /\ ~repeated /\ screen \in {"session", "bonus"} =>
        \A card \in (Elements(planned) \ Elements(completed)) \cup Elements(bonus) :
        \A t \in Elements(card), c \in history :
            SameActivity(c, t) /\ now - c.at < Info[c.task].cooldown =>
                c.at >= started /\ c.task # t /\ Info[c.task].group = Info[t].group

(* Whenever the page says that a session is over, or offers more, all the  *)
(* work of every card on it, bonus tasks included, is in the history as    *)
(* done since the session began (HomePage.tsx:213-227), unless that was    *)
(* longer ago than a completion is kept.                                   *)
DoneMeansDone ==
    screen \in {"bonus", "done"} /\ now - started <= Retention =>
        \A card \in Elements(planned) : \A id \in CompletionIds(card) :
            \E c \in history : c.task = id /\ c.at >= started

(* The bonus tasks the last screen praises are those that were done, the   *)
(* planned ones not among them (HomePage.tsx:220-221, 230-237).            *)
BonusCounted ==
    bonusCompleted =
        Cardinality({k \in DOMAIN planned : k > base /\ planned[k] \in Elements(completed)})

(* No screen is a dead end with a button that does nothing: a session has  *)
(* a card to finish, a bonus offer a task, and the set-up a mode the       *)
(* planner knows (HomePage.tsx:182, 214, 224-226, 231-232).                *)
NoDeadEnd ==
    /\ screen = "session" => Elements(planned) \ Elements(completed) # {}
    /\ screen = "bonus" => bonus # <<>>
    /\ screen \in {"setup", "rest"} => choices.mode \in Mode /\ kind = "ordinary"
=============================================================================
