--------------------------- MODULE RotationProofs ---------------------------
(***************************************************************************)
(* Proofs about module Rotation, for any bank and its versions, any        *)
(* recurrences and seasons, and whichever writes fail: a first due date    *)
(* the store has taken stands until the store drops it, what a day         *)
(* releases was announced, what was released stays released, and what the  *)
(* overview suggests is rested.                                            *)
(***************************************************************************)
EXTENDS Rotation, FiniteSetTheorems, WellFoundedInduction, TLAPS

-----------------------------------------------------------------------------
(* Dates are natural numbers. *)

LEMMA DayType ==
    ASSUME NEW time \in Nat, NEW days \in Nat
    PROVE  StartOfDay(time) \in Nat /\ AddDays(time, days) \in Nat
<1>1. DayLength \in Nat \ {0}
  BY RotationAssumption
<1>2. time \div DayLength \in Nat
  BY <1>1
<1>3. \A x, y \in Nat : x * y \in Nat
  OBVIOUS
<1> QED
  BY <1>1, <1>2, <1>3 DEF StartOfDay, AddDays

LEMMA HorizonType ==
    ASSUME NEW t \in Task
    PROVE  Horizon(t) \in Nat
<1>1. /\ DayLength \in Nat \ {0} /\ DefaultRecurrence \in Nat /\ HalfYear \in Nat
      /\ Year \in Nat /\ Info[t].recurrence \in Nat
  BY RotationAssumption, WeeklyAssumption
<1>2. Info[t].recurrence \div DayLength \in Nat
  BY <1>1
<1>3. RecurrenceDays(t) \in Nat
  BY <1>1, <1>2 DEF RecurrenceDays
<1> QED
  BY <1>1, <1>3 DEF Horizon

LEMMA InSeasonType ==
    ASSUME NEW time \in Nat, NEW t \in Task
    PROVE  InSeason(time, t) \in Nat
<1> DEFINE passed == {d \in 0 .. SeasonSearch - 1 :
               \A e \in 0 .. d : MonthOf[AddDays(time, e)] \notin Info[t].activeMonths}
<1>1. IsFiniteSet(0 .. SeasonSearch - 1)
  BY FS_Interval, RotationAssumption
<1>2. passed \subseteq 0 .. SeasonSearch - 1
  OBVIOUS
<1> HIDE DEF passed
<1>3. Cardinality(passed) \in Nat
  BY <1>1, <1>2, FS_Subset, FS_CardinalityType
<1>4. AddDays(time, Cardinality(passed)) \in Nat
  BY <1>3, DayType
<1> QED
  BY <1>4 DEF InSeason, passed

LEMMA DeepIndexType ==
    ASSUME NEW all, IsFiniteSet(all), NEW t \in Task
    PROVE  DeepIndex(t, all) \in Nat
<1> DEFINE before == {u \in all : IsDeep(u)
        /\ (Info[u].boost > Info[t].boost
            \/ (Info[u].boost = Info[t].boost /\ IdRank(u) < IdRank(t)))}
<1>1. before \subseteq all
  OBVIOUS
<1> HIDE DEF before
<1>2. Cardinality(before) \in Nat
  BY <1>1, FS_Subset, FS_CardinalityType
<1> QED
  BY <1>2 DEF DeepIndex, before

LEMMA InitialDueDateType ==
    ASSUME NEW all \in Banks, NEW t \in Task, NEW base \in Nat
    PROVE  InitialDueDate(t, base, all) \in Nat
<1> DEFINE horizon == IF Horizon(t) = 0 THEN 1 ELSE Horizon(t)
           offset == (Hash[t] % horizon) + 1
           start == StartOfDay(base)
<1>1. start \in Nat
  BY DayType
<1>2. horizon \in Nat \ {0} /\ Hash[t] \in Nat
  BY HorizonType, RotationAssumption
<1>3. offset \in Nat
  BY <1>2
<1> HIDE DEF offset, start
<1>4. InSeason(AddDays(start, offset), t) \in Nat
  BY <1>1, <1>3, DayType, InSeasonType
<1>5. DeepIndex(t, all) \in Nat /\ DeepSpacing \in Nat
  BY DeepIndexType, RotationAssumption
<1>6. DeepIndex(t, all) * DeepSpacing \in Nat
  BY <1>5
<1>7. AddDays(start, DeepIndex(t, all) * DeepSpacing) \in Nat
  BY <1>1, <1>6, DayType
<1> QED
  BY <1>1, <1>4, <1>7 DEF InitialDueDate, offset, start

(* Every bank gives a schedule, of its scheduled tasks. *)
LEMMA EntriesType ==
    ASSUME NEW all \in Banks, NEW past, now \in Nat, stored = Nothing \/ IsSchedule(stored)
    PROVE  /\ IsSchedule(Entries(all, past))
           /\ DOMAIN Entries(all, past) = {u \in all : Scheduled(u)}
           /\ \A t \in all : Scheduled(t) => Entries(all, past)[t] = DueDate(t, all, past)
<1> DEFINE ts == {u \in all : Scheduled(u)}
<1>1. all \in SUBSET Task
  BY RotationAssumption
<1>2. ASSUME NEW t \in all PROVE DueDate(t, all, past) \in Nat
  <2>1. InitialDueDate(t, now, all) \in Nat
    BY <1>1, InitialDueDateType
  <2>2. stored # Nothing /\ t \in DOMAIN stored => stored[t] \in Nat
    BY DEF IsSchedule
  <2> QED
    BY <2>1, <2>2 DEF DueDate
<1>3. Entries(all, past) = [t \in ts |-> DueDate(t, all, past)]
  BY DEF Entries
<1> HIDE DEF ts
<1>4. ts \subseteq all
  BY DEF ts
<1>5. Entries(all, past) \in [ts -> Nat]
  BY <1>2, <1>3, <1>4
<1> QED
  BY <1>1, <1>3, <1>4, <1>5 DEF IsSchedule, ts

-----------------------------------------------------------------------------
(* The invariant. *)

(* The dates the store has. *)
Dates == IF stored = Nothing THEN <<>> ELSE stored

(* The store has what it promised, but for what it dropped. *)
StoreKeeps ==
    /\ dropped \subseteq DOMAIN promised
    /\ DOMAIN Dates \subseteq DOMAIN promised
    /\ \A t \in DOMAIN promised \ dropped : t \in DOMAIN Dates /\ Dates[t] = promised[t]

(* The page on screen shows what the store has. *)
PageShows == \A t \in tasks \cap DOMAIN Dates : t \in DOMAIN schedule /\ schedule[t] = Dates[t]

Dated ==
    /\ StoreKeeps
    /\ PageShows
    /\ \A t \in DOMAIN Dates : Scheduled(t)

IInv == TypeOK /\ Dated

LEMMA DatesType ==
    ASSUME TypeOK
    PROVE  IsSchedule(Dates)
<1>1. <<>> \in [{} -> Nat]
  OBVIOUS
<1> QED
  BY <1>1 DEF TypeOK, Dates, IsSchedule

LEMMA DatedKeepsWord == Dated => KeepsItsWord
  BY DEF Dated, StoreKeeps, PageShows, KeepsItsWord

LEMMA InitIInv == Init => IInv
<1> SUFFICES ASSUME Init PROVE IInv
  OBVIOUS
<1>1. <<>> \in [{} -> Nat] /\ DOMAIN <<>> = {}
  OBVIOUS
<1>2. IsSchedule(<<>>)
  BY <1>1 DEF IsSchedule
<1>3. TypeOK
  BY <1>2 DEF Init, TypeOK
<1>4. DOMAIN Dates = {} /\ DOMAIN promised = {} /\ dropped = {}
  BY <1>1 DEF Init, Dates
<1> QED
  BY <1>3, <1>4 DEF IInv, Dated, StoreKeeps, PageShows

(* What Open makes of the store and the page. *)
LEMMA OpenFacts ==
    ASSUME IInv, NEW all \in Banks, NEW saved \in BOOLEAN, Open(all, saved)
    PROVE  /\ tasks' = all /\ history' = Pruned(kept) /\ kept' = kept /\ now' = now
           /\ IsSchedule(schedule') /\ DOMAIN schedule' = {u \in all : Scheduled(u)}
           /\ \A t \in DOMAIN schedule' :
                 IF t \in DOMAIN Dates THEN schedule'[t] = Dates[t]
                 ELSE schedule'[t] = IF \E c \in history' : c.task = t THEN now
                                     ELSE InitialDueDate(t, now, all)
           /\ ~saved => stored' = stored /\ Dates' = Dates
           /\ saved => stored' = schedule' /\ Dates' = schedule'
<1> DEFINE entries == Entries(all, history')
<1>1. /\ tasks' = all /\ history' = Pruned(kept) /\ schedule' = entries
      /\ stored' = IF saved THEN schedule' ELSE stored
      /\ kept' = kept /\ now' = now
  BY DEF Open
<1>2. now \in Nat /\ (stored = Nothing \/ IsSchedule(stored))
  BY DEF IInv, TypeOK
<1>3. /\ IsSchedule(entries) /\ DOMAIN entries = {u \in all : Scheduled(u)}
      /\ \A t \in all : Scheduled(t) => entries[t] = DueDate(t, all, history')
  BY <1>2, EntriesType
<1> HIDE DEF entries
<1>4. DOMAIN <<>> = {}
  OBVIOUS
<1>5. (stored = Nothing /\ DOMAIN Dates = {}) \/ (stored # Nothing /\ stored = Dates)
  BY <1>4 DEF Dates
<1>6. ASSUME NEW t \in DOMAIN entries
      PROVE  IF t \in DOMAIN Dates THEN entries[t] = Dates[t]
             ELSE entries[t] = IF \E c \in history' : c.task = t THEN now
                               ELSE InitialDueDate(t, now, all)
  <2>1. entries[t] = DueDate(t, all, history')
    BY <1>3
  <2>2. CASE t \in DOMAIN Dates
    BY <1>5, <2>1, <2>2 DEF DueDate
  <2>3. CASE t \notin DOMAIN Dates
    BY <1>5, <2>1, <2>3 DEF DueDate
  <2> QED
    BY <2>2, <2>3
<1>7. saved => stored' = schedule' /\ Dates' = schedule'
  <2>1. entries # Nothing
    BY <1>3, RotationAssumption
  <2> QED
    BY <1>1, <2>1 DEF Dates
<1>8. ~saved => stored' = stored /\ Dates' = Dates
  BY <1>1 DEF Dates
<1> QED
  BY <1>1, <1>3, <1>6, <1>7, <1>8

LEMMA OpenIInv ==
    ASSUME IInv, NEW all \in Banks, NEW saved \in BOOLEAN, Open(all, saved)
    PROVE  IInv'
<1>1. /\ tasks' = all /\ history' = Pruned(kept) /\ kept' = kept /\ now' = now
      /\ IsSchedule(schedule') /\ DOMAIN schedule' = {u \in all : Scheduled(u)}
      /\ \A t \in DOMAIN schedule' : t \in DOMAIN Dates => schedule'[t] = Dates[t]
      /\ ~saved => stored' = stored /\ Dates' = Dates
      /\ saved => stored' = schedule' /\ Dates' = schedule'
  BY OpenFacts
<1>2. /\ ~saved => promised' = promised /\ dropped' = dropped
      /\ saved => promised' = [t \in DOMAIN promised \cup DOMAIN schedule' |->
                                  IF t \in DOMAIN promised THEN promised[t] ELSE schedule'[t]]
      /\ saved => dropped' = dropped \cup (DOMAIN promised \ DOMAIN schedule')
  BY DEF Open
<1>3. /\ now \in Nat /\ dropped \subseteq Task
      /\ stored = Nothing \/ IsSchedule(stored)
      /\ kept \subseteq [task : Task, at : 0 .. now]
  BY DEF IInv, TypeOK
<1>4. PICK ts \in SUBSET Task : promised \in [ts -> Nat]
  BY DEF IInv, TypeOK, IsSchedule
<1>5. PICK us \in SUBSET Task : schedule' \in [us -> Nat]
  BY <1>1 DEF IsSchedule
<1>6. DOMAIN promised = ts /\ DOMAIN schedule' = us
  BY <1>4, <1>5
<1>7. IsSchedule(promised')
  <2>1. CASE saved
    <3>1. promised' \in [ts \cup us -> Nat]
      BY <1>2, <1>4, <1>5, <1>6, <2>1
    <3>2. ts \cup us \in SUBSET Task
      OBVIOUS
    <3> QED
      BY <3>1, <3>2 DEF IsSchedule
  <2>2. CASE ~saved
    BY <1>2, <2>2 DEF IInv, TypeOK, IsSchedule
  <2> QED
    BY <2>1, <2>2
<1>8. TypeOK'
  <2>1. history' \subseteq kept
    BY <1>1 DEF Pruned
  <2>2. dropped' \subseteq Task
    BY <1>2, <1>3, <1>6
  <2>3. IsSchedule(stored') \/ stored' = Nothing
    BY <1>1, <1>3
  <2>4. TypeOK' <=> /\ tasks' \in Banks \cup {{}}
                    /\ IsSchedule(schedule') /\ IsSchedule(promised')
                    /\ stored' = Nothing \/ IsSchedule(stored')
                    /\ history' \cup kept' \subseteq [task : Task, at : 0 .. now']
                    /\ dropped' \subseteq Task
                    /\ now' \in Nat
    BY DEF TypeOK, IsSchedule
  <2> QED
    BY <1>1, <1>3, <1>7, <2>1, <2>2, <2>3, <2>4
<1>9. PageShows'
  <2>1. \A t \in all : t \in DOMAIN Dates => Scheduled(t)
    BY DEF IInv, Dated
  <2>2. \A t \in all \cap DOMAIN Dates' : t \in DOMAIN schedule' /\ schedule'[t] = Dates'[t]
    BY <1>1, <2>1
  <2>3. PageShows' <=> \A t \in tasks' \cap DOMAIN Dates' :
                           t \in DOMAIN schedule' /\ schedule'[t] = Dates'[t]
    BY DEF PageShows
  <2> QED
    BY <1>1, <2>2, <2>3
<1>10. StoreKeeps'
  <2>1. StoreKeeps
    BY DEF IInv, Dated
  <2>2. StoreKeeps' <=> /\ dropped' \subseteq DOMAIN promised'
                        /\ DOMAIN Dates' \subseteq DOMAIN promised'
                        /\ \A t \in DOMAIN promised' \ dropped' :
                              t \in DOMAIN Dates' /\ Dates'[t] = promised'[t]
    BY DEF StoreKeeps
  <2>3. CASE ~saved
    BY <1>1, <1>2, <2>1, <2>2, <2>3 DEF StoreKeeps
  <2>4. CASE saved
    <3>1. DOMAIN promised' = ts \cup us /\ dropped' = dropped \cup (ts \ us) /\ Dates' = schedule'
      BY <1>1, <1>2, <1>6, <2>4
    <3>2. \A t \in ts \cup us : promised'[t] = IF t \in ts THEN promised[t] ELSE schedule'[t]
      BY <1>2, <1>6, <2>4
    <3>3. dropped \subseteq ts /\ \A t \in ts \ dropped : t \in DOMAIN Dates /\ Dates[t] = promised[t]
      BY <1>6, <2>1 DEF StoreKeeps
    <3>4. ASSUME NEW t \in DOMAIN promised' \ dropped'
          PROVE  t \in us /\ schedule'[t] = promised'[t]
      <4>1. t \in us
        BY <3>1
      <4>2. CASE t \in ts
        BY <1>1, <1>6, <3>1, <3>2, <3>3, <4>1, <4>2
      <4>3. CASE t \notin ts
        BY <3>2, <4>1, <4>3
      <4> QED
        BY <4>1, <4>2, <4>3
    <3> QED
      BY <1>6, <2>2, <3>1, <3>3, <3>4
  <2> QED
    BY <2>3, <2>4
<1>11. (\A t \in DOMAIN Dates : Scheduled(t))'
  <2>1. \A t \in DOMAIN Dates' : Scheduled(t)
    BY <1>1 DEF IInv, Dated
  <2> QED
    BY <2>1 DEF Scheduled, IsDeep
<1> QED
  BY <1>8, <1>9, <1>10, <1>11 DEF IInv, Dated

LEMMA CompleteIInv ==
    ASSUME IInv, NEW ids \in SUBSET Task, NEW saved \in BOOLEAN, Complete(ids, saved)
    PROVE  IInv'
<1>1. /\ history' = Pruned(history \cup {[task |-> t, at |-> now] : t \in ids})
      /\ kept' = IF saved THEN history' ELSE kept
      /\ UNCHANGED <<stored, tasks, schedule, now, promised, dropped>>
  BY DEF Complete
<1>2. now \in Nat /\ history \cup kept \subseteq [task : Task, at : 0 .. now]
  BY DEF IInv, TypeOK
<1>3. history' \subseteq [task : Task, at : 0 .. now]
  BY <1>1, <1>2 DEF Pruned
<1>4. TypeOK'
  BY <1>1, <1>2, <1>3 DEF IInv, TypeOK, IsSchedule
<1>5. Dated'
  BY <1>1 DEF IInv, Dated, StoreKeeps, PageShows, Dates, Scheduled, IsDeep
<1> QED
  BY <1>4, <1>5 DEF IInv

LEMMA NextIInv ==
    ASSUME IInv, [Next]_vars
    PROVE  IInv'
<1>1. CASE Tick
  <2>1. now' = now + 1 /\ UNCHANGED <<stored, kept, tasks, schedule, history, promised, dropped>>
    BY <1>1 DEF Tick, page
  <2>2. TypeOK'
    BY <2>1 DEF IInv, TypeOK, IsSchedule
  <2>3. Dated'
    BY <2>1 DEF IInv, Dated, StoreKeeps, PageShows, Dates, Scheduled, IsDeep
  <2> QED
    BY <2>2, <2>3 DEF IInv
<1>2. ASSUME NEW saved \in BOOLEAN, NEW all \in Banks, Open(all, saved) PROVE IInv'
  BY <1>2, OpenIInv
<1>3. ASSUME NEW saved \in BOOLEAN, NEW t \in tasks,
             Complete({t}, saved) \/ Complete({t} \cup Info[t].includes, saved)
      PROVE  IInv'
  <2>1. t \in Task
    BY RotationAssumption DEF IInv, TypeOK
  <2>2. {t} \cup Info[t].includes \in SUBSET Task /\ {t} \in SUBSET Task
    BY <2>1, PlanningAssumption
  <2> QED
    BY <1>3, <2>2, CompleteIInv
<1>4. CASE UNCHANGED vars
  <2>1. UNCHANGED <<stored, kept, tasks, schedule, history, now, promised, dropped>>
    BY <1>4 DEF vars, page
  <2> QED
    BY <2>1 DEF IInv, TypeOK, IsSchedule, Dated, StoreKeeps, PageShows, Dates, Scheduled, IsDeep
<1> QED
  BY <1>1, <1>2, <1>3, <1>4 DEF Next

-----------------------------------------------------------------------------
(* The theorems. *)

(* The schedules, the histories and the bank have their types.             *)
THEOREM TypeCorrect == Spec => []TypeOK
<1>1. IInv /\ [Next]_vars => IInv'
  BY NextIInv
<1>2. IInv => TypeOK
  BY DEF IInv
<1> QED
  BY InitIInv, <1>1, <1>2, PTL DEF Spec

(* The first due date the store has once taken for a task is what every    *)
(* later visit of a version with the task shows, whatever was done in      *)
(* between and whether or not that visit's own write succeeds, until a     *)
(* version without the task has been visited with a store that takes its   *)
(* schedule (loadOrCreateTaskSchedule).                                    *)
THEOREM WordIsKept == Spec => []KeepsItsWord
<1>1. IInv /\ [Next]_vars => IInv'
  BY NextIInv
<1>2. IInv => KeepsItsWord
  BY DatedKeepsWord DEF IInv
<1> QED
  BY InitIInv, <1>1, <1>2, PTL DEF Spec

AnnouncedStep ==
    now' # now =>
        \A t \in tasks : ~Released(t) /\ Released(t)' => now' \in NextRelease(View)

LEMMA AnnouncedNext ==
    ASSUME IInv, [Next]_vars
    PROVE  AnnouncedStep
<1> SUFFICES ASSUME now' # now, NEW t \in tasks, ~Released(t), Released(t)'
             PROVE  now' \in NextRelease(View)
  BY DEF AnnouncedStep
<1>1. now' = now + 1 /\ UNCHANGED <<tasks, schedule, history>> /\ now \in Nat
  <2>1. CASE Tick
    BY <2>1 DEF Tick, page, IInv, TypeOK
  <2>2. ASSUME NEW saved, NEW all, Open(all, saved) PROVE FALSE
    BY <2>2 DEF Open
  <2>3. ASSUME NEW saved, NEW ids, Complete(ids, saved) PROVE FALSE
    BY <2>3 DEF Complete
  <2>4. CASE UNCHANGED vars
    BY <2>4 DEF vars
  <2> QED
    BY <2>1, <2>2, <2>3, <2>4 DEF Next
<1>2. \A u \in DOMAIN schedule : schedule[u] \in Nat
  BY DEF IInv, TypeOK, IsSchedule
<1>3. /\ t \in DOMAIN schedule /\ schedule[t] > now
      /\ \A c \in history : c.task # t
  BY <1>1, <1>2 DEF Released, ReleasedIn, IsTaskReleased, View
<1>4. schedule[t] = now + 1
  BY <1>1, <1>2, <1>3 DEF Released, ReleasedIn, IsTaskReleased, View
<1> DEFINE waiting == {u \in DOMAIN schedule :
                           schedule[u] > now /\ \A c \in history : c.task # u}
<1>5. t \in waiting
  BY <1>3
<1>6. \A w \in waiting : schedule[t] <= schedule[w]
  BY <1>1, <1>2, <1>4
<1>7. NextRelease(View) =
          {schedule[u] : u \in {x \in waiting : \A w \in waiting : schedule[x] <= schedule[w]}}
  BY DEF NextRelease, View
<1> HIDE DEF waiting
<1> QED
  BY <1>1, <1>4, <1>5, <1>6, <1>7

(* A task becomes visible by the passing of a day only on the day the      *)
(* overview announced as the next one (nextScheduledRelease).              *)
THEOREM ReleasesAreAnnounced == Spec => Announced
<1>1. IInv /\ [Next]_vars => IInv'
  BY NextIInv
<1>2. IInv /\ [Next]_vars => [AnnouncedStep]_vars
  BY AnnouncedNext
<1>3. Spec => [][AnnouncedStep]_vars
  BY InitIInv, <1>1, <1>2, PTL DEF Spec
<1> QED
  BY <1>3 DEF Announced, AnnouncedStep

-----------------------------------------------------------------------------
(* What was released stays released. *)

(* First due dates come no later than the history forgets the completions  *)
(* known when they were given; a completion for which that does not hold   *)
(* is one no page will see again.                                          *)
Punctual ==
    /\ now <= MaxTime
    /\ \A t \in DOMAIN schedule : Scheduled(t)
    /\ \A t \in DOMAIN Dates : Dates[t] <= now + Retention
    /\ \A c \in history : c.task \in DOMAIN Dates => Dates[c.task] <= c.at + Retention
    /\ \A c \in kept : c.task \in DOMAIN Dates =>
           Dates[c.task] <= c.at + Retention \/ c.at + Retention < now

LEMMA PunctualInit == Init => Punctual
<1>1. DOMAIN <<>> = {}
  OBVIOUS
<1>2. Init => DOMAIN Dates = {}
  BY <1>1 DEF Init, Dates
<1> QED
  BY <1>1, <1>2, RotationAssumption DEF Init, Punctual

LEMMA OpenPunctual ==
    ASSUME IInv, Punctual, NEW all \in Banks, NEW saved \in BOOLEAN, Open(all, saved)
    PROVE  Punctual'
<1>1. /\ tasks' = all /\ history' = Pruned(kept) /\ kept' = kept /\ now' = now
      /\ DOMAIN schedule' = {u \in all : Scheduled(u)}
      /\ \A t \in DOMAIN schedule' :
            IF t \in DOMAIN Dates THEN schedule'[t] = Dates[t]
            ELSE schedule'[t] = IF \E c \in history' : c.task = t THEN now
                                ELSE InitialDueDate(t, now, all)
      /\ ~saved => Dates' = Dates
      /\ saved => DOMAIN Dates' = DOMAIN schedule' /\ \A t \in DOMAIN Dates' : Dates'[t] = schedule'[t]
  BY OpenFacts
<1>2. now \in Nat /\ Retention \in Nat /\ now \in 0 .. MaxTime
  BY RotationAssumption DEF IInv, TypeOK, Punctual
<1>3. \A c \in kept : c.at \in Nat
  BY DEF IInv, TypeOK
<1>4. \A c \in history' : c \in kept /\ now <= c.at + Retention
  BY <1>1, <1>2, <1>3 DEF Pruned
<1>5. \A c \in kept : c \notin history' => c.at + Retention < now
  BY <1>1, <1>2, <1>3 DEF Pruned
<1>6. now' <= MaxTime /\ \A t \in DOMAIN schedule' : Scheduled(t)
  BY <1>1 DEF Punctual
<1>7. CASE ~saved
  <2>1. \A c \in history' : c.task \in DOMAIN Dates => Dates[c.task] <= c.at + Retention
    <3>1. ASSUME NEW c \in history', c.task \in DOMAIN Dates
          PROVE  Dates[c.task] <= c.at + Retention
      <4>1. c \in kept /\ ~(c.at + Retention < now)
        BY <1>2, <1>3, <1>4
      <4> QED
        BY <3>1, <4>1 DEF Punctual
    <3> QED
      BY <3>1
  <2>2. Dates' = Dates
    BY <1>1, <1>7
  <2> QED
    BY <1>1, <1>6, <2>1, <2>2 DEF Punctual, Scheduled, IsDeep
<1>8. CASE saved
  <2>1. ASSUME NEW t \in DOMAIN Dates'
        PROVE  /\ Dates'[t] <= now + Retention
               /\ \A c \in kept : c.task = t =>
                     Dates'[t] <= c.at + Retention \/ c \notin history'
    <3>1. t \in DOMAIN schedule' /\ Dates'[t] = schedule'[t] /\ t \in all
      BY <1>1, <1>8
    <3>2. CASE t \in DOMAIN Dates
      <4>1. Dates'[t] = Dates[t]
        BY <1>1, <3>1, <3>2
      <4>2. Dates[t] <= now + Retention
        BY <3>2 DEF Punctual
      <4>3. ASSUME NEW c \in kept, c.task = t, c \in history'
            PROVE  Dates[t] <= c.at + Retention
        <5>1. ~(c.at + Retention < now)
          BY <1>2, <1>3, <1>4, <4>3
        <5> QED
          BY <3>2, <4>3, <5>1 DEF Punctual
      <4> QED
        BY <4>1, <4>2, <4>3
    <3>3. CASE t \notin DOMAIN Dates /\ \E c \in history' : c.task = t
      <4>1. Dates'[t] = now
        BY <1>1, <3>1, <3>3
      <4> QED
        BY <1>2, <1>4, <4>1
    <3>4. CASE t \notin DOMAIN Dates /\ \A c \in history' : c.task # t
      <4>1. Dates'[t] = InitialDueDate(t, now, all)
        BY <1>1, <3>1, <3>4
      <4>2. Dates'[t] <= now + Retention
        BY <1>2, <3>1, <4>1, FirstDueAssumption
      <4> QED
        BY <3>4, <4>2
    <3> QED
      BY <3>2, <3>3, <3>4
  <2>2. \A t \in DOMAIN Dates' : Dates'[t] <= now + Retention
    BY <2>1
  <2>3. \A c \in history' : c.task \in DOMAIN Dates' => Dates'[c.task] <= c.at + Retention
    BY <1>4, <2>1
  <2>4. \A c \in kept : c.task \in DOMAIN Dates' =>
            Dates'[c.task] <= c.at + Retention \/ c.at + Retention < now
    BY <1>5, <2>1
  <2> QED
    BY <1>1, <1>6, <2>2, <2>3, <2>4 DEF Punctual, Scheduled, IsDeep
<1> QED
  BY <1>7, <1>8

LEMMA CompletePunctual ==
    ASSUME IInv, Punctual, NEW ids \in SUBSET Task, NEW saved \in BOOLEAN, Complete(ids, saved)
    PROVE  Punctual'
<1>1. /\ history' = Pruned(history \cup {[task |-> t, at |-> now] : t \in ids})
      /\ kept' = IF saved THEN history' ELSE kept
      /\ UNCHANGED <<tasks, schedule, now>> /\ Dates' = Dates
  BY DEF Complete, Dates
<1>2. ASSUME NEW c \in history', c.task \in DOMAIN Dates
      PROVE  Dates[c.task] <= c.at + Retention
  <2>1. CASE c \in history
    BY <1>2, <2>1 DEF Punctual
  <2>2. CASE c \notin history
    <3>1. c.at = now
      BY <1>1, <2>2 DEF Pruned
    <3> QED
      BY <1>2, <3>1 DEF Punctual
  <2> QED
    BY <2>1, <2>2
<1>3. \A c \in kept' : c.task \in DOMAIN Dates =>
          Dates[c.task] <= c.at + Retention \/ c.at + Retention < now
  BY <1>1, <1>2 DEF Punctual
<1> QED
  BY <1>1, <1>2, <1>3 DEF Punctual, Scheduled, IsDeep

LEMMA NextPunctual ==
    ASSUME IInv, Punctual, [Next]_vars
    PROVE  Punctual'
<1>1. CASE Tick
  <2>1. now' = now + 1 /\ now < MaxTime /\ UNCHANGED <<kept, schedule, history>> /\ Dates' = Dates
    BY <1>1 DEF Tick, page, Dates
  <2>2. /\ now \in Nat /\ Retention \in Nat /\ MaxTime \in Nat
        /\ \A t \in DOMAIN Dates : Dates[t] \in Nat
        /\ \A c \in kept : c.at \in Nat
    BY RotationAssumption, DatesType DEF IInv, TypeOK, IsSchedule
  <2>3. now' <= MaxTime
    BY <2>1, <2>2
  <2>4. \A t \in DOMAIN Dates : Dates[t] <= now' + Retention
    BY <2>1, <2>2 DEF Punctual
  <2>5. \A c \in kept : c.at + Retention < now => c.at + Retention < now'
    BY <2>1, <2>2
  <2> QED
    BY <2>1, <2>3, <2>4, <2>5 DEF Punctual, Scheduled, IsDeep
<1>2. ASSUME NEW saved \in BOOLEAN, NEW all \in Banks, Open(all, saved) PROVE Punctual'
  BY <1>2, OpenPunctual
<1>3. ASSUME NEW saved \in BOOLEAN, NEW t \in tasks,
             Complete({t}, saved) \/ Complete({t} \cup Info[t].includes, saved)
      PROVE  Punctual'
  <2>1. t \in Task
    BY RotationAssumption DEF IInv, TypeOK
  <2>2. {t} \cup Info[t].includes \in SUBSET Task /\ {t} \in SUBSET Task
    BY <2>1, PlanningAssumption
  <2> QED
    BY <1>3, <2>2, CompletePunctual
<1>4. CASE UNCHANGED vars
  <2>1. UNCHANGED <<kept, schedule, history, now>> /\ Dates' = Dates
    BY <1>4 DEF vars, page, Dates
  <2> QED
    BY <2>1 DEF Punctual, Scheduled, IsDeep
<1> QED
  BY <1>1, <1>2, <1>3, <1>4 DEF Next

ReleasedStep ==
    \A t \in tasks \cap tasks' :
        (/\ Released(t) /\ history = kept
         /\ Scheduled(t) => stored # Nothing /\ t \in DOMAIN stored)
        => Released(t)'

LEMMA ReleasedNext ==
    ASSUME IInv, Punctual, [Next]_vars
    PROVE  ReleasedStep
<1> SUFFICES ASSUME NEW t \in tasks, t \in tasks', Released(t), history = kept,
                    Scheduled(t) => t \in DOMAIN Dates
             PROVE  Released(t)'
  BY DEF ReleasedStep, Dates
<1> USE DEF Released, ReleasedIn, IsTaskReleased, View
<1>1. /\ now \in Nat /\ Retention \in Nat
      /\ \A u \in DOMAIN schedule : schedule[u] \in Nat
      /\ \A c \in history : c.at \in Nat
  BY RotationAssumption DEF IInv, TypeOK, IsSchedule
<1>2. t \in DOMAIN schedule => t \in DOMAIN Dates /\ schedule[t] = Dates[t]
  BY DEF IInv, Dated, PageShows, Punctual
<1>3. Scheduled(t) => t \in DOMAIN schedule
  BY DEF IInv, Dated, PageShows
<1>4. ASSUME NEW c \in history, c.task = t, t \in DOMAIN schedule, ~(now - c.at <= Retention)
      PROVE  schedule[t] <= now
  <2>1. Dates[t] <= c.at + Retention
    BY <1>2, <1>4 DEF Punctual
  <2> QED
    BY <1>1, <1>2, <1>4, <2>1
<1>5. CASE Tick
  <2>1. now' = now + 1 /\ UNCHANGED <<schedule, history>>
    BY <1>5 DEF Tick, page
  <2> QED
    BY <1>1, <2>1
<1>6. ASSUME NEW saved \in BOOLEAN, NEW all \in Banks, Open(all, saved) PROVE Released(t)'
  <2>1. /\ history' = Pruned(history) /\ now' = now
        /\ DOMAIN schedule' = {u \in all : Scheduled(u)}
        /\ t \in DOMAIN schedule' /\ t \in DOMAIN Dates => schedule'[t] = Dates[t]
    BY <1>6, OpenFacts
  <2>2. CASE \E c \in history : c.task = t /\ now - c.at <= Retention
    BY <2>1, <2>2 DEF Pruned
  <2>3. CASE t \notin DOMAIN schedule'
    BY <2>3
  <2>4. CASE t \in DOMAIN schedule' /\ \A c \in history : c.task = t => ~(now - c.at <= Retention)
    <3>1. t \in DOMAIN Dates /\ t \in DOMAIN schedule /\ schedule'[t] = schedule[t]
      BY <1>2, <1>3, <2>1, <2>4
    <3>2. schedule[t] <= now
      BY <1>4, <2>4, <3>1
    <3> QED
      BY <2>1, <3>1, <3>2
  <2> QED
    BY <2>2, <2>3, <2>4
<1>7. ASSUME NEW saved \in BOOLEAN, NEW ids, Complete(ids, saved) PROVE Released(t)'
  <2>1. /\ history' = Pruned(history \cup {[task |-> u, at |-> now] : u \in ids})
        /\ schedule' = schedule /\ now' = now
    BY <1>7 DEF Complete
  <2>2. CASE \E c \in history : c.task = t /\ now - c.at <= Retention
    BY <2>1, <2>2 DEF Pruned
  <2>3. CASE \A c \in history : c.task = t => ~(now - c.at <= Retention)
    <3>1. t \in DOMAIN schedule => schedule[t] <= now
      BY <1>4, <2>3
    <3> QED
      BY <2>1, <3>1
  <2> QED
    BY <2>2, <2>3
<1>8. CASE UNCHANGED vars
  BY <1>8 DEF vars, page
<1> QED
  BY <1>5, <1>6, <1>7, <1>8 DEF Next

(* What was released is not held back again, by no visit, deployment or    *)
(* forgotten completion, where the store has what the page knows: a date   *)
(* is past before the history forgets (isTaskReleased, pruneTaskHistory).  *)
THEOREM ReleasesLast == Spec => ReleasedForGood
<1>1. IInv /\ Punctual /\ [Next]_vars => IInv' /\ Punctual'
  BY NextIInv, NextPunctual
<1>2. IInv /\ Punctual /\ [Next]_vars => [ReleasedStep]_vars
  BY ReleasedNext
<1>3. Spec => [][ReleasedStep]_vars
  BY InitIInv, PunctualInit, <1>1, <1>2, PTL DEF Spec
<1> QED
  BY <1>3 DEF ReleasedForGood, ReleasedStep

-----------------------------------------------------------------------------
(* Nothing is suggested too soon. *)

LEMMA LeastNat ==
    ASSUME NEW T \in SUBSET Nat, T # {}
    PROVE  \E n \in T : \A m \in T : n <= m
<1>1. PICK R : IsWellFoundedOn(R, Nat) /\ \A n, m \in Nat : m < n => <<m, n>> \in R
  <2>1. \A n, m \in Nat : m < n => <<m, n>> \in OpToRel(<, Nat)
    BY DEF OpToRel
  <2> QED
    BY <2>1, NatLessThanWellFounded
<1>2. PICK n \in T : \A m \in T : ~(<<m, n>> \in R)
  BY <1>1, WFMin
<1>3. \A m \in T : ~(m < n)
  BY <1>1, <1>2, Zenon
<1> QED
  BY <1>3

(* Of some completions there is a latest one.                              *)
LEMMA LatestIsLatest ==
    ASSUME NEW n \in Nat, NEW done, \A c \in done : c.at \in 0 .. n,
           NEW c \in done
    PROVE  c.at <= Latest(done) /\ Latest(done) \in 0 .. n
<1> DEFINE ages == {n - d.at : d \in done}
<1>1. ages \in SUBSET Nat /\ ages # {}
  OBVIOUS
<1>2. PICK a \in ages : \A b \in ages : a <= b
  BY <1>1, LeastNat
<1>3. PICK d \in done : a = n - d.at
  BY <1>2
<1>4. ASSUME NEW e \in done PROVE e.at <= d.at
  <2>1. n - d.at <= n - e.at
    BY <1>2, <1>3
  <2> QED
    BY <2>1
<1>5. PICK e : e = CHOOSE x \in done : \A y \in done : y.at <= x.at
  OBVIOUS
<1>6. e \in done /\ \A y \in done : y.at <= e.at
  BY <1>3, <1>4, <1>5
<1>7. Latest(done) = e.at
  BY <1>5 DEF Latest
<1> QED
  BY <1>6, <1>7

(* What the overview suggests was not done within its interval, nor was    *)
(* any other of its group (getWeeklyOverview, getWeeklyRecommendations).   *)
THEOREM SuggestionsAreRested == Spec => []RestedBeforeSuggested
<1>1. IInv => RestedBeforeSuggested
  <2> SUFFICES ASSUME TypeOK, NEW t \in Suggestions(View)
               PROVE  /\ t \in tasks /\ Released(t)
                      /\ \A c \in history :
                           c.task = t \/ (c.task \in tasks /\ Grouped(t, c.task)) =>
                             now - c.at >= IF Info[t].weekly THEN Info[t].recurrence ELSE DeepInterval
    BY DEF IInv, RestedBeforeSuggested
  <2>1. /\ View.tasks = tasks /\ View.history = history /\ View.now = now
        /\ now \in Nat /\ \A c \in history : c.at \in 0 .. now
    BY DEF View, TypeOK
  <2>2. CASE t \in Task /\ Due(t, View)
    <3>1. t \in tasks /\ Released(t) /\ Info[t].weekly
      BY <2>1, <2>2 DEF Due, Released
    <3>2. ASSUME NEW c \in history, c.task = t \/ (c.task \in tasks /\ Grouped(t, c.task))
          PROVE  now - c.at >= Info[t].recurrence
      <4>1. PICK done : done = Done(t, View)
        OBVIOUS
      <4>2. c \in done /\ done \subseteq history
        BY <2>1, <3>2, <4>1 DEF Done
      <4>3. c.at <= Latest(done) /\ Latest(done) \in 0 .. now
        BY <2>1, <4>2, LatestIsLatest
      <4>4. now - Latest(done) >= Info[t].recurrence
        BY <2>1, <2>2, <4>1, <4>2 DEF Due, IsNew, Age
      <4>5. Info[t].recurrence \in Nat /\ c.at \in Nat
        BY <2>1, <2>2, WeeklyAssumption
      <4> QED
        BY <2>1, <4>3, <4>4, <4>5
    <3> QED
      BY <3>1, <3>2
  <2>3. CASE t \in DeepCleanTask(View)
    <3>1. DeepCleanDue(View) /\ t \in tasks /\ IsDeep(t) /\ Released(t)
      BY <2>1, <2>3 DEF DeepCleanTask, Released
    <3>2. t \in Task /\ ~Info[t].weekly
      BY <3>1, RotationAssumption, DeepAssumption DEF TypeOK
    <3>3. ASSUME NEW c \in history, c.task = t \/ (c.task \in tasks /\ Grouped(t, c.task))
          PROVE  now - c.at >= DeepInterval
      <4>1. PICK done : done = DeepCompletions(View)
        OBVIOUS
      <4>2. c \in done /\ done \subseteq history
        BY <2>1, <3>1, <3>3, <4>1 DEF DeepCompletions
      <4>3. c.at <= Latest(done) /\ Latest(done) \in 0 .. now
        BY <2>1, <4>2, LatestIsLatest
      <4>4. now - Latest(done) >= DeepInterval
        BY <2>1, <3>1, <4>1, <4>2 DEF DeepCleanDue
      <4>5. DeepInterval \in Nat /\ c.at \in Nat
        BY <2>1, WeeklyAssumption
      <4> QED
        BY <2>1, <4>3, <4>4, <4>5
    <3> QED
      BY <3>1, <3>2, <3>3
  <2>4. (t \in Task /\ Due(t, View)) \/ t \in DeepCleanTask(View)
    BY DEF Suggestions, WeeklyRecommendation, SecondRecommendation, MostUrgent
  <2> QED
    BY <2>2, <2>3, <2>4
<1>2. IInv /\ [Next]_vars => IInv'
  BY NextIInv
<1> QED
  BY InitIInv, <1>1, <1>2, PTL DEF Spec
=============================================================================
