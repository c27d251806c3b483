--------------------------- MODULE PlannerProofs ----------------------------
(***************************************************************************)
(* What the loop of buildPlan guarantees for every household, every task   *)
(* bank and every input: theorems about Planner.                           *)
(***************************************************************************)
EXTENDS Planner, FiniteSetTheorems, WellFoundedInduction, TLAPS

(* Where the tasks are: a card's task was eligible and is considered only  *)
(* once.                                                                   *)
Placement ==
    /\ todo \subseteq Eligible(input)
    /\ passed \subseteq Eligible(input)
    /\ \A k \in DOMAIN plan.cards : plan.cards[k].task \in Eligible(input) \ todo
    /\ \A j, k \in DOMAIN plan.cards :
           j # k => plan.cards[j].task # plan.cards[k].task

(* What a member has been given. *)
Means ==
    /\ \A p \in Person : plan.minutes[p] <= input.minutes
    /\ \A k \in DOMAIN plan.cards :
           /\ plan.cards[k].person \in Members(input)
           /\ May(plan.cards[k].person, plan.cards[k].task)

IsOdor(k) == Info[plan.cards[k].task].category = "odor"

(* odorTaskAssigned says whether the plan has an odour task. *)
OdorFlag ==
    /\ plan.odor <=> \E k \in DOMAIN plan.cards : IsOdor(k)
    /\ \A j, k \in DOMAIN plan.cards : IsOdor(j) /\ IsOdor(k) => j = k

(* Why a task was passed over, in terms of the present plan. *)
StillPassedOver ==
    \A t \in passed :
        \/ TooMuchOdor(t, plan)
        \/ \A p \in Members(input) : May(p, t) => ~Fits(p, t, plan, input)

PInv == TypeOK /\ Placement /\ Means /\ OdorFlag /\ StillPassedOver

-----------------------------------------------------------------------------
(* Those who may be given a card are in the household. *)
LEMMA MembersInHousehold ==
    ASSUME NEW in \in Inputs
    PROVE  /\ in.minutes \in Nat
           /\ Members(in) \subseteq Person
BY PlannerAssumption DEF Members

(* An eligible task is in the bank. *)
LEMMA EligibleInBank ==
    ASSUME NEW in PROVE Eligible(in) \subseteq Task
BY DEF Eligible, Candidates

(* No eligible task covers another. *)
LEMMA EligibleApart ==
    ASSUME NEW in, NEW t \in Eligible(in), NEW u \in Eligible(in)
    PROVE  u \notin Covers(t)
BY DEF Eligible, Superseded

(* Nothing is given to a member who may not do it, or has no time for it. *)
LEMMA BestIsAble ==
    ASSUME NEW t, NEW p \in Best(t, plan, input)
    PROVE  p \in Members(input) /\ May(p, t) /\ Fits(p, t, plan, input)
BY DEF Best, Able

(* The cards after one more. *)
LEMMA OneMoreCard ==
    ASSUME NEW cards \in Seq(Card), NEW c \in Card
    PROVE  /\ Append(cards, c) \in Seq(Card)
           /\ DOMAIN cards \subseteq Nat
           /\ DOMAIN Append(cards, c) = DOMAIN cards \cup {Len(cards) + 1}
           /\ Len(cards) + 1 \notin DOMAIN cards
           /\ \A k \in DOMAIN cards : Append(cards, c)[k] = cards[k]
           /\ Append(cards, c)[Len(cards) + 1] = c
OBVIOUS

-----------------------------------------------------------------------------
LEMMA PInvInit == Init => PInv
<1> SUFFICES ASSUME Init PROVE PInv
  OBVIOUS
<1> USE DEF Init
<1>1. plan.cards = <<>> /\ plan.minutes = [p \in Person |-> 0] /\ plan.odor = FALSE
  BY DEF EmptyPlan
<1>2. TypeOK
  <2>1. todo \in SUBSET Task
    BY EligibleInBank
  <2>2. EmptyPlan \in [cards : Seq(Card), minutes : [Person -> Nat], odor : BOOLEAN]
    BY DEF EmptyPlan
  <2> QED BY <2>1, <2>2 DEF TypeOK
<1>3. Placement
  BY <1>1 DEF Placement
<1>4. Means
  BY <1>1, MembersInHousehold DEF Means
<1>5. OdorFlag
  BY <1>1 DEF OdorFlag
<1>6. StillPassedOver
  BY DEF StillPassedOver
<1> QED BY <1>2, <1>3, <1>4, <1>5, <1>6 DEF PInv

(* Passing over a task adds it to those that still could not be given. *)
LEMMA PInvPassOver == PInv /\ PassOver => PInv'
<1> SUFFICES ASSUME PInv, PassOver PROVE PInv'
  OBVIOUS
<1>1. PICK t \in Foremost(todo, input) :
        /\ PassedOver(t, plan, input)
        /\ todo' = todo \ {t}
        /\ passed' = passed \cup {t}
        /\ UNCHANGED <<input, plan>>
  BY DEF PassOver
<1>2. t \in todo
  BY DEF Foremost
<1>3. TypeOK'
  BY <1>1, <1>2 DEF PInv, TypeOK
<1>4. Placement'
  BY <1>1, <1>2 DEF PInv, Placement
<1>5. Means'
  BY <1>1 DEF PInv, Means
<1>6. OdorFlag'
  BY <1>1 DEF PInv, OdorFlag, IsOdor
<1>7. StillPassedOver'
  <2>1. \/ TooMuchOdor(t, plan)
        \/ \A p \in Members(input) : May(p, t) => ~Fits(p, t, plan, input)
    BY <1>1 DEF PassedOver, Able
  <2>2. \A s \in passed' : s \in passed \/ s = t
    BY <1>1
  <2> QED BY <1>1, <2>1, <2>2 DEF PInv, StillPassedOver
<1> QED BY <1>3, <1>4, <1>5, <1>6, <1>7 DEF PInv

(* A card is added, its member's minutes grow, nothing else changes. *)
LEMMA PInvAssign == PInv /\ Assign => PInv'
<1> SUFFICES ASSUME PInv, Assign PROVE PInv'
  OBVIOUS
<1>1. PICK t \in Foremost(todo, input) :
        /\ ~TooMuchOdor(t, plan)
        /\ \E p \in Best(t, plan, input) : plan' = Assigned(t, p, plan)
        /\ todo' = todo \ {t}
        /\ UNCHANGED <<input, passed>>
  BY DEF Assign
<1>2. PICK p \in Best(t, plan, input) : plan' = Assigned(t, p, plan)
  BY <1>1
<1>3. /\ t \in todo /\ t \in Task
      /\ Info[t].minutes \in Nat
  BY PlanningAssumption DEF Foremost, PInv, TypeOK
<1>4. /\ p \in Members(input) /\ p \in Person
      /\ May(p, t)
      /\ Fits(p, t, plan, input)
  BY BestIsAble, MembersInHousehold DEF PInv, TypeOK
<1> DEFINE new == [task |-> t, person |-> p]
<1>5. /\ plan'.cards = Append(plan.cards, new)
      /\ plan'.minutes = [plan.minutes EXCEPT ![p] = @ + Info[t].minutes]
      /\ plan'.odor = (plan.odor \/ Info[t].category = "odor")
  BY <1>2 DEF Assigned
<1>6. /\ plan.cards \in Seq(Card) /\ plan.minutes \in [Person -> Nat]
      /\ plan.odor \in BOOLEAN
      /\ input.minutes \in Nat
  BY MembersInHousehold DEF PInv, TypeOK
<1>7. new \in Card
  BY <1>3, <1>4 DEF Card
<1>8. PICK last :
      /\ plan'.cards \in Seq(Card)
      /\ DOMAIN plan'.cards = DOMAIN plan.cards \cup {last}
      /\ last \notin DOMAIN plan.cards
      /\ \A k \in DOMAIN plan.cards : plan'.cards[k] = plan.cards[k]
      /\ plan'.cards[last] = new
  BY <1>5, <1>6, <1>7, OneMoreCard
<1>9. /\ plan'.minutes \in [Person -> Nat]
      /\ plan'.minutes[p] = plan.minutes[p] + Info[t].minutes
      /\ \A q \in Person \ {p} : plan'.minutes[q] = plan.minutes[q]
      /\ \A q \in Person : plan'.minutes[q] >= plan.minutes[q]
  BY <1>3, <1>4, <1>5, <1>6
<1>10. TypeOK'
  <2>1. plan' \in [cards : Seq(Card), minutes : [Person -> Nat], odor : BOOLEAN]
    BY <1>2, <1>5, <1>8, <1>9, <1>6 DEF Assigned
  <2> QED BY <1>1, <2>1 DEF PInv, TypeOK
<1>11. Placement'
  <2>1. t \in Eligible(input) /\ new.task = t
    BY <1>3 DEF PInv, Placement
  <2>2. \A k \in DOMAIN plan'.cards :
            plan'.cards[k].task \in Eligible(input) \ todo'
    BY <1>1, <1>8, <2>1 DEF PInv, Placement
  <2>3. \A k \in DOMAIN plan.cards : plan'.cards[k].task # t
    BY <1>3, <1>8 DEF PInv, Placement
  <2>4. \A j, k \in DOMAIN plan'.cards :
            j # k => plan'.cards[j].task # plan'.cards[k].task
    BY <1>8, <2>1, <2>3 DEF PInv, Placement
  <2> QED BY <1>1, <2>2, <2>4 DEF PInv, Placement
<1>12. Means'
  <2>1. \A q \in Person : plan'.minutes[q] <= input.minutes
    BY <1>3, <1>4, <1>6, <1>9 DEF PInv, Means, Fits
  <2>2. \A k \in DOMAIN plan'.cards :
            /\ plan'.cards[k].person \in Members(input)
            /\ May(plan'.cards[k].person, plan'.cards[k].task)
    BY <1>4, <1>8 DEF PInv, Means
  <2> QED BY <1>1, <2>1, <2>2 DEF Means
<1>13. OdorFlag'
  <2>1. \A k \in DOMAIN plan.cards : IsOdor(k)' <=> IsOdor(k)
    BY <1>8 DEF IsOdor
  <2>2. IsOdor(last)' <=> Info[t].category = "odor"
    BY <1>8 DEF IsOdor
  <2>3. plan'.odor <=> \E k \in DOMAIN plan'.cards : IsOdor(k)'
    BY <1>5, <1>8, <2>1, <2>2 DEF PInv, OdorFlag
  <2>4. IsOdor(last)' => \A k \in DOMAIN plan.cards : ~IsOdor(k)
    BY <1>1, <2>2 DEF PInv, OdorFlag, TooMuchOdor
  <2>5. \A j, k \in DOMAIN plan'.cards : IsOdor(j)' /\ IsOdor(k)' => j = k
    BY <1>8, <2>1, <2>4 DEF PInv, OdorFlag
  <2> QED BY <2>3, <2>5 DEF OdorFlag
<1>14. StillPassedOver'
  <2> SUFFICES ASSUME NEW s \in passed
               PROVE  \/ TooMuchOdor(s, plan')
                      \/ \A q \in Members(input) :
                             May(q, s) => ~Fits(q, s, plan', input)
    BY <1>1 DEF StillPassedOver
  <2>1. CASE TooMuchOdor(s, plan)
    BY <1>5, <2>1 DEF TooMuchOdor
  <2>2. CASE \A q \in Members(input) : May(q, s) => ~Fits(q, s, plan, input)
    <3>1. s \in Task /\ Info[s].minutes \in Nat
      BY PlanningAssumption DEF PInv, TypeOK
    <3>2. \A q \in Members(input) : q \in Person
      BY MembersInHousehold DEF PInv, TypeOK
    <3>3. \A q \in Person : Fits(q, s, plan', input) => Fits(q, s, plan, input)
      BY <1>6, <1>9, <3>1 DEF Fits
    <3> QED BY <2>2, <3>2, <3>3
  <2> QED BY <2>1, <2>2 DEF PInv, StillPassedOver
<1> QED BY <1>10, <1>11, <1>12, <1>13, <1>14 DEF PInv

(* The invariant holds of every plan the loop ever has. *)
THEOREM PlanInvariant == Spec => []PInv
<1>1. PInv /\ [Next]_vars => PInv'
  <2> SUFFICES ASSUME PInv, [Next]_vars PROVE PInv'
    OBVIOUS
  <2>1. CASE PassOver
    BY <2>1, PInvPassOver
  <2>2. CASE Assign
    BY <2>2, PInvAssign
  <2>3. CASE UNCHANGED vars
    BY <2>3 DEF vars, PInv, TypeOK, Placement, Means, OdorFlag, IsOdor, StillPassedOver
  <2> QED BY <2>1, <2>2, <2>3 DEF Next
<1> QED BY PInvInit, <1>1, PTL DEF Spec

-----------------------------------------------------------------------------
(* The loop's variables have their types (taskEngine.ts:180-183). *)
THEOREM PlannerTypeCorrect == Spec => []TypeOK
<1>1. PInv => TypeOK
  BY DEF PInv
<1> QED BY PlanInvariant, <1>1, PTL

(* taskEngine.ts:190-198, for any household and bank: no plan asks more of *)
(* anybody than there is time for, or than the member may do.              *)
THEOREM PlanWithinMeans == Spec => []WithinMeans
<1>1. PInv => WithinMeans
  BY DEF PInv, Means, WithinMeans, Cards
<1> QED BY PlanInvariant, <1>1, PTL

(* taskEngine.ts:176-178, for any bank that meets BankAssumption: no plan  *)
(* asks for the same work twice.                                           *)
THEOREM PlanWithoutDoubleWork == Spec => []NoDoubleWork
<1>1. PInv => NoDoubleWork
  <2> SUFFICES ASSUME PInv, NEW j \in DOMAIN plan.cards,
                      NEW k \in DOMAIN plan.cards, j # k
               PROVE  /\ Work(plan.cards[j].task) \cap Work(plan.cards[k].task) = {}
                      /\ plan.cards[k].task \notin Info[plan.cards[j].task].supersedes
    BY DEF NoDoubleWork
  <2> DEFINE t == plan.cards[j].task
             u == plan.cards[k].task
  <2>1. t # u /\ t \in Eligible(input) /\ u \in Eligible(input)
    BY DEF PInv, Placement
  <2> HIDE DEF t, u
  <2>2. t \in Task /\ u \in Task
    BY <2>1, EligibleInBank
  <2>3. u \notin Covers(t) /\ t \notin Covers(u)
    BY <2>1, EligibleApart
  <2>4. Info[t].includes \cap Info[u].includes = {}
    BY <2>1, <2>2, <2>3, BankAssumption DEF Covers
  <2>5. Work(t) \cap Work(u) = {} /\ u \notin Info[t].supersedes
    BY <2>1, <2>3, <2>4 DEF Work, Covers
  <2> QED BY <2>5 DEF t, u
<1> QED BY PlanInvariant, <1>1, PTL

(* taskEngine.ts:185-201: greedy as it is, the loop never leaves over a    *)
(* task that the finished plan would still have room for.                  *)
THEOREM PlanWastesNothing == Spec => []NothingWasted
<1>1. PInv => NothingWasted
  <2> SUFFICES ASSUME PInv PROVE NothingWasted
    OBVIOUS
  <2>1. \A c, d \in Cards :
            Info[c.task].category = "odor" /\ Info[d.task].category = "odor" => c = d
    BY DEF PInv, OdorFlag, IsOdor, Cards
  <2>2. ASSUME NEW t \in passed
        PROVE  \/ /\ Info[t].category = "odor"
                  /\ \E c \in Cards : Info[c.task].category = "odor"
               \/ \A p \in Members(input) :
                     May(p, t) => plan.minutes[p] + Info[t].minutes > input.minutes
    <3>1. CASE TooMuchOdor(t, plan)
      BY <3>1 DEF TooMuchOdor, PInv, OdorFlag, IsOdor, Cards
    <3>2. CASE \A p \in Members(input) : May(p, t) => ~Fits(p, t, plan, input)
      <4>1. t \in Task /\ Info[t].minutes \in Nat
        BY PlanningAssumption DEF PInv, TypeOK
      <4>2. \A p \in Members(input) : p \in Person
        BY MembersInHousehold DEF PInv, TypeOK
      <4>3. plan.minutes \in [Person -> Nat] /\ input.minutes \in Nat
        BY MembersInHousehold DEF PInv, TypeOK
      <4> QED BY <3>2, <4>1, <4>2, <4>3 DEF Fits
    <3> QED BY <3>1, <3>2 DEF PInv, StillPassedOver
  <2> QED BY <2>1, <2>2 DEF NothingWasted
<1> QED BY PlanInvariant, <1>1, PTL

-----------------------------------------------------------------------------
(* Sums along a sequence.  A recursive function exists because there is no *)
(* least number up to which it does not.                                   *)

LEMMA LeastNat ==
    ASSUME NEW T \in SUBSET Nat, T # {}
    PROVE  \E n \in T : \A m \in T : n <= m
<1>1. PICK R : IsWellFoundedOn(R, Nat) /\ \A n, m \in Nat : m < n => <<m, n>> \in R
  <2>1. \A n, m \in Nat : m < n => <<m, n>> \in OpToRel(<, Nat)
    BY DEF OpToRel
  <2>2. QED
    BY <2>1, NatLessThanWellFounded
<1>2. PICK n \in T : \A m \in T : ~(<<m, n>> \in R)
  BY <1>1, WFMin
<1>3. \A m \in T : ~(m < n)
  BY <1>1, <1>2, Zenon
<1>4. QED
  BY <1>3

(* f adds up the first n of the weights w.                                 *)
AddsUp(f, w, n) == f[0] = 0 /\ \A k \in 1 .. n : f[k] = f[k - 1] + w[k]

LEMMA Sums ==
    ASSUME NEW n \in Nat, NEW w \in [1 .. n -> Nat]
    PROVE  \E f \in [0 .. n -> Nat] : AddsUp(f, w, n)
<1> DEFINE P(m) == \E f \in [0 .. m -> Nat] : AddsUp(f, w, m)
           bad == {m \in 0 .. n : ~P(m)}
<1>1. bad = {}
  <2>1. SUFFICES ASSUME bad # {} PROVE FALSE
    OBVIOUS
  <2>2. PICK m \in bad : \A l \in bad : m <= l
    <3>1. bad \in SUBSET Nat
      OBVIOUS
    <3>2. QED
      BY <2>1, <3>1, LeastNat
  <2>3. CASE m = 0
    <3>1. PICK f : f = [k \in 0 .. 0 |-> 0]
      OBVIOUS
    <3>2. f \in [0 .. 0 -> Nat] /\ AddsUp(f, w, 0)
      BY <3>1 DEF AddsUp
    <3>3. QED
      BY <2>3, <3>2
  <2>4. CASE m # 0
    <3>0. m \in 0 .. n
      BY <2>2
    <3>1. m - 1 \in 0 .. n /\ m \in 1 .. n /\ m - 1 \notin bad
      <4>1. m - 1 \in 0 .. n /\ m \in 1 .. n /\ ~(m <= m - 1)
        BY <2>4, <3>0
      <4>2. QED
        BY <2>2, <4>1, Zenon
    <3>2. PICK f \in [0 .. m - 1 -> Nat] : f[0] = 0 /\ \A k \in 1 .. m - 1 : f[k] = f[k - 1] + w[k]
      BY <3>1 DEF AddsUp
    <3>3. PICK g : g = [k \in 0 .. m |-> IF k = m THEN f[m - 1] + w[m] ELSE f[k]]
      OBVIOUS
    <3>4. m - 1 \in 0 .. m - 1 /\ f[m - 1] \in Nat /\ w[m] \in Nat
      BY <3>1
    <3>5. g \in [0 .. m -> Nat]
      <4>1. ASSUME NEW k \in 0 .. m, k # m PROVE f[k] \in Nat
        BY <3>1, <4>1
      <4>2. QED
        BY <3>3, <3>4, <4>1
    <3>6. g[0] = 0
      BY <3>1, <3>2, <3>3
    <3>7. ASSUME NEW k \in 1 .. m PROVE g[k] = g[k - 1] + w[k]
      <4>1. g[k - 1] = f[k - 1] /\ k - 1 \in 0 .. m - 1
        BY <3>1, <3>3
      <4>2. CASE k = m
        BY <3>3, <4>1, <4>2
      <4>3. CASE k # m
        BY <3>1, <3>2, <3>3, <4>1, <4>3
      <4>4. QED
        BY <4>2, <4>3
    <3>8. P(m)
      BY <3>5, <3>6, <3>7 DEF AddsUp
    <3>9. QED
      BY <2>2, <3>8
  <2>5. QED
    BY <2>3, <2>4
<1>2. n \in 0 .. n
  OBVIOUS
<1>3. QED
  BY <1>1, <1>2

(* Two such functions agree as far as their weights do. *)
LEMMA SumsAgree ==
    ASSUME NEW m \in Nat, NEW v, NEW f, NEW g, AddsUp(f, v, m), AddsUp(g, v, m)
    PROVE  f[m] = g[m]
<1> DEFINE bad == {k \in 0 .. m : f[k] # g[k]}
<1>1. bad = {}
  <2>1. SUFFICES ASSUME bad # {} PROVE FALSE
    OBVIOUS
  <2>2. PICK k \in bad : \A l \in bad : k <= l
    <3>1. bad \in SUBSET Nat
      OBVIOUS
    <3>2. QED
      BY <2>1, <3>1, LeastNat
  <2>3. k # 0
    BY <2>2 DEF AddsUp
  <2>4. k \in 1 .. m /\ k - 1 \in 0 .. m /\ k - 1 \notin bad
    BY <2>2, <2>3
  <2>5. f[k - 1] = g[k - 1]
    BY <2>4
  <2>6. f[k] = g[k]
    BY <2>4, <2>5 DEF AddsUp
  <2>7. QED
    BY <2>2, <2>6
<1>2. QED
  BY <1>1

(* w[k] is the share of the k-th card.                                     *)
Weights(w, p, tasks, cards) == w = [k \in 1 .. Len(cards) |-> Share(p, tasks, cards[k])]

LEMMA WeightsType ==
    ASSUME NEW cards \in Seq(Card), NEW p, NEW tasks
    PROVE  \E w \in [1 .. Len(cards) -> Nat] : Weights(w, p, tasks, cards)
<1>1. ASSUME NEW k \in 1 .. Len(cards) PROVE Share(p, tasks, cards[k]) \in Nat
  <2>1. cards[k] \in Card
    OBVIOUS
  <2>2. cards[k].task \in Task
    BY <2>1 DEF Card
  <2>3. QED
    BY <2>2, PlanningAssumption DEF Share
<1>2. QED
  BY <1>1 DEF Weights

LEMMA MinutesOnSum ==
    ASSUME NEW cards \in Seq(Card), NEW p, NEW tasks,
           NEW w \in [1 .. Len(cards) -> Nat], Weights(w, p, tasks, cards)
    PROVE  \E f : /\ AddsUp(f, w, Len(cards)) /\ MinutesOn(p, tasks, cards) = f[Len(cards)]
                  /\ f[Len(cards)] \in Nat
<1> DEFINE body(f) == [k \in 0 .. Len(cards) |-> IF k = 0 THEN 0 ELSE f[k - 1] + Share(p, tasks, cards[k])]
           total == CHOOSE f : f = body(f)
<1>1. Len(cards) \in Nat
  OBVIOUS
<1>2. ASSUME NEW f, NEW k \in 0 .. Len(cards)
      PROVE  body(f)[k] = IF k = 0 THEN 0 ELSE f[k - 1] + w[k]
  <2>1. k # 0 => k \in 1 .. Len(cards)
    BY <1>1
  <2>2. QED
    BY <2>1 DEF Weights
<1>3. \E f : f = body(f)
  <2>1. PICK f \in [0 .. Len(cards) -> Nat] : AddsUp(f, w, Len(cards))
    BY <1>1, Sums
  <2>2. ASSUME NEW k \in 0 .. Len(cards) PROVE f[k] = body(f)[k]
    <3>1. k # 0 => k \in 1 .. Len(cards)
      BY <1>1
    <3>2. QED
      BY <1>2, <2>1, <3>1 DEF AddsUp
  <2>3. f = body(f)
    BY <2>2
  <2>4. QED
    BY <2>3
<1>4. AddsUp(total, w, Len(cards))
  <2>1. total = body(total)
    BY <1>3
  <2> HIDE DEF total, body
  <2>2. ASSUME NEW k \in 0 .. Len(cards)
        PROVE  total[k] = IF k = 0 THEN 0 ELSE total[k - 1] + w[k]
    BY <1>2, <2>1
  <2>3. QED
    BY <1>1, <2>2 DEF AddsUp
<1>5. MinutesOn(p, tasks, cards) = total[Len(cards)]
  BY DEF MinutesOn
<1>6. PICK g \in [0 .. Len(cards) -> Nat] : AddsUp(g, w, Len(cards))
  BY <1>1, Sums
<1>7. total[Len(cards)] = g[Len(cards)]
  BY <1>1, <1>4, <1>6, SumsAgree
<1>8. g[Len(cards)] \in Nat
  BY <1>1
<1> HIDE DEF total
<1>9. QED
  BY <1>4, <1>5, <1>7, <1>8

(* A card more adds its share, to whichever total. *)
LEMMA MinutesOnAppend ==
    ASSUME NEW cards \in Seq(Card), NEW c \in Card, NEW p, NEW tasks
    PROVE  /\ MinutesOn(p, tasks, cards) \in Nat /\ Share(p, tasks, c) \in Nat
           /\ MinutesOn(p, tasks, Append(cards, c)) = MinutesOn(p, tasks, cards) + Share(p, tasks, c)
<1>1. PICK more : more = Append(cards, c)
  OBVIOUS
<1>2. PICK n : n = Len(cards)
  OBVIOUS
<1>3. /\ n \in Nat /\ more \in Seq(Card) /\ Len(more) = n + 1 /\ more[n + 1] = c
      /\ \A k \in 1 .. n : more[k] = cards[k]
  BY <1>1, <1>2
<1>4. PICK v : v \in [1 .. n -> Nat] /\ Weights(v, p, tasks, cards)
  BY <1>2, WeightsType
<1>5. PICK w : w \in [1 .. n + 1 -> Nat] /\ Weights(w, p, tasks, more)
  BY <1>3, WeightsType
<1>6. PICK g : AddsUp(g, v, n) /\ MinutesOn(p, tasks, cards) = g[n] /\ g[n] \in Nat
  BY <1>2, <1>4, MinutesOnSum
<1>7. PICK f : AddsUp(f, w, n + 1) /\ MinutesOn(p, tasks, more) = f[n + 1]
  <2>1. \E f : AddsUp(f, w, Len(more)) /\ MinutesOn(p, tasks, more) = f[Len(more)]
    BY <1>3, <1>5, MinutesOnSum
  <2>2. QED
    BY <1>3, <2>1
<1>8. \A k \in 1 .. n : w[k] = v[k]
  BY <1>2, <1>3, <1>4, <1>5 DEF Weights
<1>9. w[n + 1] = Share(p, tasks, c) /\ w[n + 1] \in Nat
  BY <1>3, <1>5 DEF Weights
<1>10. f[n] = g[n]
  <2>1. AddsUp(f, v, n)
    <3>1. \A k \in 1 .. n : k \in 1 .. n + 1
      BY <1>3
    <3>2. QED
      BY <1>7, <1>8, <3>1 DEF AddsUp
  <2>2. AddsUp(g, v, n) /\ n \in Nat
    BY <1>3, <1>6
  <2>3. QED
    BY <2>1, <2>2, SumsAgree
<1>11. f[n + 1] = f[n] + w[n + 1]
  <2>1. n + 1 \in 1 .. n + 1 /\ (n + 1) - 1 = n
    BY <1>3
  <2>2. QED
    BY <1>7, <2>1 DEF AddsUp
<1>12. QED
  BY <1>1, <1>6, <1>7, <1>9, <1>10, <1>11

LEMMA NoMinutes ==
    ASSUME NEW p, NEW tasks
    PROVE  MinutesOn(p, tasks, <<>>) = 0
<1>1. PICK none \in Seq(Card) : none = <<>>
  <2>1. <<>> \in Seq(Card)
    OBVIOUS
  <2>2. QED
    BY <2>1
<1>2. Len(none) = 0
  BY <1>1
<1>3. PICK w \in [1 .. Len(none) -> Nat] : Weights(w, p, tasks, none)
  BY WeightsType
<1>4. PICK f : AddsUp(f, w, 0) /\ MinutesOn(p, tasks, none) = f[0]
  BY <1>2, <1>3, MinutesOnSum
<1>5. QED
  BY <1>1, <1>4 DEF AddsUp

(* Tasks that no card is for make no difference. *)
LEMMA MinutesOnSame ==
    ASSUME NEW cards \in Seq(Card), NEW p, NEW A, NEW B,
           \A k \in DOMAIN cards : cards[k].task \in A <=> cards[k].task \in B
    PROVE  MinutesOn(p, A, cards) = MinutesOn(p, B, cards)
<1>1. PICK n : n = Len(cards) /\ n \in Nat /\ DOMAIN cards = 1 .. n
  OBVIOUS
<1>2. PICK v : v \in [1 .. n -> Nat] /\ Weights(v, p, A, cards)
  BY <1>1, WeightsType
<1>3. PICK w : w \in [1 .. n -> Nat] /\ Weights(w, p, B, cards)
  BY <1>1, WeightsType
<1>4. \A k \in 1 .. n : v[k] = w[k]
  BY <1>1, <1>2, <1>3 DEF Weights, Share
<1>5. PICK f : AddsUp(f, v, n) /\ MinutesOn(p, A, cards) = f[n]
  BY <1>1, <1>2, MinutesOnSum
<1>6. PICK g : AddsUp(g, w, n) /\ MinutesOn(p, B, cards) = g[n]
  BY <1>1, <1>3, MinutesOnSum
<1>7. f[n] = g[n]
  <2>1. AddsUp(g, v, n)
    BY <1>4, <1>6 DEF AddsUp
  <2>2. QED
    BY <1>1, <1>5, <2>1, SumsAgree
<1>8. QED
  BY <1>5, <1>6, <1>7

-----------------------------------------------------------------------------
(* The minutes the loop keeps, and what was earlier than what.             *)

(* The tasks that are considered before task t. *)
Earlier(t) == {u \in Task \ {t} : Before(u, t, input)}

(* Every card's task comes before those still to be considered.            *)
Ordered ==
    \A k \in DOMAIN plan.cards, t \in todo : Before(plan.cards[k].task, t, input)

OrderInv == MinutesAddUp /\ Ordered /\ PriorityRespected

LEMMA OrderInit == Init => OrderInv
<1> SUFFICES ASSUME Init PROVE OrderInv
  OBVIOUS
<1>1. plan.cards = <<>> /\ plan.minutes = [p \in Person |-> 0] /\ passed = {}
  BY DEF Init, EmptyPlan
<1>2. MinutesAddUp
  BY <1>1, NoMinutes DEF MinutesAddUp
<1>3. Ordered /\ PriorityRespected
  BY <1>1 DEF Ordered, PriorityRespected
<1>4. QED
  BY <1>2, <1>3 DEF OrderInv

(* What is passed over is passed over because of cards before it: so far   *)
(* there are no others.                                                    *)
LEMMA OrderPassOver == PInv /\ OrderInv /\ PassOver => OrderInv'
<1> SUFFICES ASSUME PInv, OrderInv, PassOver PROVE OrderInv'
  OBVIOUS
<1>1. PICK t \in Foremost(todo, input) :
        /\ PassedOver(t, plan, input)
        /\ todo' = todo \ {t}
        /\ passed' = passed \cup {t}
        /\ UNCHANGED <<input, plan>>
  BY DEF PassOver
<1>2. t \in todo /\ t \in Task /\ plan.cards \in Seq(Card)
  BY DEF Foremost, PInv, TypeOK
<1>3. \A k \in DOMAIN plan.cards : plan.cards[k].task \in Earlier(t)
  <2>1. ASSUME NEW k \in DOMAIN plan.cards PROVE plan.cards[k].task \in Earlier(t)
    <3>1. plan.cards[k].task \in Eligible(input) \ todo
      BY DEF PInv, Placement
    <3>2. plan.cards[k].task \in Task \ {t}
      BY <1>2, <3>1, EligibleInBank
    <3>3. Before(plan.cards[k].task, t, input)
      BY <1>2 DEF OrderInv, Ordered
    <3>4. QED
      BY <3>2, <3>3 DEF Earlier
  <2>2. QED
    BY <2>1
<1>4. CASE TooMuchOdor(t, plan)
  <2>1. Info[t].category = "odor" /\ plan.odor
    BY <1>4 DEF TooMuchOdor
  <2>2. PICK k \in DOMAIN plan.cards : Info[plan.cards[k].task].category = "odor"
    BY <2>1 DEF PInv, OdorFlag, IsOdor
  <2>3. \E c \in Cards : c.task \in Earlier(t) /\ Info[c.task].category = "odor"
    BY <1>3, <2>2 DEF Cards
  <2>4. PriorityRespected'
    BY <1>1, <2>1, <2>3 DEF OrderInv, PriorityRespected, Cards, Earlier
  <2>5. QED
    BY <1>1, <2>4 DEF OrderInv, MinutesAddUp, Ordered
<1>5. CASE Able(t, plan, input) = {}
  <2>1. ASSUME NEW p \in Members(input), May(p, t)
        PROVE  MinutesOn(p, Earlier(t), plan.cards) + Info[t].minutes > input.minutes
    <3>1. p \in Person
      BY MembersInHousehold DEF PInv, TypeOK
    <3>2. ~Fits(p, t, plan, input)
      BY <1>5, <2>1 DEF Able
    <3>3. plan.minutes[p] = MinutesOn(p, Task, plan.cards)
      BY <3>1 DEF OrderInv, MinutesAddUp
    <3>4. \A k \in DOMAIN plan.cards : plan.cards[k].task \in Task <=> plan.cards[k].task \in Earlier(t)
      BY <1>3 DEF Earlier
    <3>5. MinutesOn(p, Task, plan.cards) = MinutesOn(p, Earlier(t), plan.cards)
      BY <1>2, <3>4, MinutesOnSame
    <3>6. plan.minutes[p] \in Nat /\ Info[t].minutes \in Nat /\ input.minutes \in Nat
      BY <1>2, <3>1, PlanningAssumption, MembersInHousehold DEF PInv, TypeOK
    <3>7. QED
      BY <3>2, <3>3, <3>5, <3>6 DEF Fits
  <2>2. PriorityRespected'
    BY <1>1, <2>1 DEF OrderInv, PriorityRespected, Cards, Earlier
  <2>3. QED
    BY <1>1, <2>2 DEF OrderInv, MinutesAddUp, Ordered
<1>6. QED
  BY <1>1, <1>4, <1>5 DEF PassedOver

LEMMA OrderAssign == PInv /\ OrderInv /\ Assign => OrderInv'
<1> SUFFICES ASSUME PInv, OrderInv, Assign PROVE OrderInv'
  OBVIOUS
<1>1. PICK t \in Foremost(todo, input) :
        /\ \E p \in Best(t, plan, input) : plan' = Assigned(t, p, plan)
        /\ todo' = todo \ {t}
        /\ UNCHANGED <<input, passed>>
  BY DEF Assign
<1>2. PICK p \in Best(t, plan, input) : plan' = Assigned(t, p, plan)
  BY <1>1
<1>3. t \in Task /\ t \in todo /\ Info[t].minutes \in Nat /\ p \in Person
  BY BestIsAble, MembersInHousehold, PlanningAssumption DEF Foremost, PInv, TypeOK
<1>4. PICK new \in Card : new = [task |-> t, person |-> p]
  BY <1>3 DEF Card
<1>5. /\ plan'.cards = Append(plan.cards, new)
      /\ plan'.minutes = [plan.minutes EXCEPT ![p] = @ + Info[t].minutes]
      /\ plan.cards \in Seq(Card) /\ plan.minutes \in [Person -> Nat]
  BY <1>2, <1>4 DEF Assigned, PInv, TypeOK
<1>6. ASSUME NEW q, NEW tasks
      PROVE  /\ MinutesOn(q, tasks, plan.cards) \in Nat /\ Share(q, tasks, new) \in Nat
             /\ MinutesOn(q, tasks, plan'.cards)
                    = MinutesOn(q, tasks, plan.cards) + Share(q, tasks, new)
  BY <1>5, MinutesOnAppend
<1>7. MinutesAddUp'
  <2>1. ASSUME NEW q \in Person
        PROVE  plan'.minutes[q] = MinutesOn(q, Task, plan'.cards)
    <3>1. plan.minutes[q] = MinutesOn(q, Task, plan.cards)
      BY DEF OrderInv, MinutesAddUp
    <3>2. CASE q = p
      <4>1. Share(q, Task, new) = Info[t].minutes
        BY <1>3, <1>4, <3>2 DEF Share
      <4>2. plan'.minutes[q] = plan.minutes[q] + Info[t].minutes
        BY <1>3, <1>5, <3>2
      <4>3. QED
        BY <1>6, <3>1, <4>1, <4>2
    <3>3. CASE q # p
      <4>1. Share(q, Task, new) = 0
        BY <1>4, <3>3 DEF Share
      <4>2. plan'.minutes[q] = plan.minutes[q]
        BY <1>3, <1>5, <3>3
      <4>3. MinutesOn(q, Task, plan.cards) \in Nat
        BY <1>6
      <4>4. QED
        BY <1>6, <3>1, <4>1, <4>2, <4>3
    <3>4. QED
      BY <3>2, <3>3
  <2>2. QED
    BY <2>1 DEF MinutesAddUp
<1>8. PICK last :
      /\ DOMAIN plan'.cards = DOMAIN plan.cards \cup {last}
      /\ \A k \in DOMAIN plan.cards : plan'.cards[k] = plan.cards[k]
      /\ plan'.cards[last] = new
  BY <1>5, OneMoreCard
<1>9. Ordered'
  <2>1. \A u \in todo \ {t} : Before(t, u, input)
    BY DEF Foremost
  <2>2. new.task = t
    BY <1>4
  <2>3. QED
    BY <1>1, <1>8, <2>1, <2>2 DEF OrderInv, Ordered
<1>10. PriorityRespected'
  <2>1. ASSUME NEW s \in passed
        PROVE  \/ /\ Info[s].category = "odor"
                  /\ \E c \in Cards' : c.task \in Earlier(s) /\ Info[c.task].category = "odor"
               \/ \A q \in Members(input) :
                     May(q, s) => MinutesOn(q, Earlier(s), plan'.cards) + Info[s].minutes > input.minutes
    <3>1. \/ /\ Info[s].category = "odor"
             /\ \E c \in Cards : c.task \in Earlier(s) /\ Info[c.task].category = "odor"
          \/ \A q \in Members(input) :
                May(q, s) => MinutesOn(q, Earlier(s), plan.cards) + Info[s].minutes > input.minutes
      BY DEF OrderInv, PriorityRespected, Earlier
    <3>2. Cards \subseteq Cards'
      BY <1>8 DEF Cards
    <3>3. Info[s].minutes \in Nat /\ input.minutes \in Nat
      BY PlanningAssumption, MembersInHousehold DEF PInv, TypeOK
    <3>4. ASSUME NEW q, MinutesOn(q, Earlier(s), plan.cards) + Info[s].minutes > input.minutes
          PROVE  MinutesOn(q, Earlier(s), plan'.cards) + Info[s].minutes > input.minutes
      <4>1. PICK more : more = Share(q, Earlier(s), new)
        OBVIOUS
      <4>2. PICK old : old = MinutesOn(q, Earlier(s), plan.cards)
        OBVIOUS
      <4>3. old \in Nat /\ more \in Nat /\ MinutesOn(q, Earlier(s), plan'.cards) = old + more
        BY <1>6, <4>1, <4>2
      <4>4. QED
        BY <3>3, <3>4, <4>2, <4>3
    <3>5. QED
      BY <3>1, <3>2, <3>4
  <2>2. QED
    BY <1>1, <2>1 DEF PriorityRespected, Earlier
<1>11. QED
  BY <1>7, <1>9, <1>10 DEF OrderInv

THEOREM OrderInvariant == Spec => []OrderInv
<1>1. PInv /\ OrderInv /\ [Next]_vars => OrderInv'
  <2> SUFFICES ASSUME PInv, OrderInv, [Next]_vars PROVE OrderInv'
    OBVIOUS
  <2>1. CASE PassOver
    BY <2>1, OrderPassOver
  <2>2. CASE Assign
    BY <2>2, OrderAssign
  <2>3. CASE UNCHANGED vars
    BY <2>3 DEF vars, OrderInv, MinutesAddUp, Ordered, PriorityRespected, Cards
  <2> QED BY <2>1, <2>2, <2>3 DEF Next
<1> QED BY OrderInit, <1>1, PlanInvariant, PTL DEF Spec

(* taskEngine.ts:196-198, for any household and bank: the minutes the loop *)
(* keeps of everybody are those of the cards it has given out.             *)
THEOREM MinutesAreThoseOfTheCards == Spec => []MinutesAddUp
<1>1. OrderInv => MinutesAddUp
  BY DEF OrderInv
<1> QED BY OrderInvariant, <1>1, PTL

(* taskEngine.ts:177-201, for any household and bank: no task is left over *)
(* for the sake of one that comes after it.                                *)
THEOREM NothingGoesFirst == Spec => []PriorityRespected
<1>1. OrderInv => PriorityRespected
  BY DEF OrderInv
<1> QED BY OrderInvariant, <1>1, PTL

-----------------------------------------------------------------------------
(* The loop and the operator BuildPlan.  The loop itself supplies what an  *)
(* induction would: a step finds the task at the next place of             *)
(* EligibleTasks, and adds a value to the recursive function.              *)

LEMMA TasksFinite == IsFiniteSet(Task)
<1>1. PICK len \in Nat : DOMAIN TaskOrder = 1 .. len
  BY OrderAssumption
<1>2. PICK f : f = [t \in Task |-> CHOOSE k \in 1 .. len : TaskOrder[k] = t]
  OBVIOUS
<1>3. \A t \in Task : f[t] \in 1 .. len /\ TaskOrder[f[t]] = t
  <2> SUFFICES ASSUME NEW t \in Task PROVE f[t] \in 1 .. len /\ TaskOrder[f[t]] = t
    OBVIOUS
  <2>1. \E k \in 1 .. len : TaskOrder[k] = t
    BY <1>1, OrderAssumption
  <2>2. QED
    BY <1>2, <2>1
<1>4. f \in Injection(Task, 1 .. len)
  BY <1>2, <1>3 DEF Injection, IsInjective
<1>5. IsFiniteSet(1 .. len)
  <2>1. PICK one \in Int : one = 1
    OBVIOUS
  <2>2. QED
    BY <2>1, FS_Interval
<1>6. QED
  BY <1>4, <1>5, FS_Injection

(* Tasks are considered in a strict order. *)
LEMMA StrictOrder ==
    ASSUME NEW in, NEW t \in Eligible(in), NEW u \in Eligible(in), NEW v \in Eligible(in)
    PROVE  /\ ~Before(t, t, in)
           /\ Before(t, u, in) => ~Before(u, t, in)
           /\ t # u => Before(t, u, in) \/ Before(u, t, in)
           /\ Before(t, u, in) /\ Before(u, v, in) => Before(t, v, in)
<1>1. ASSUME NEW s \in Eligible(in)
      PROVE  SelectionScore(s, in) \in Int /\ Position(s) \in Int /\ TaskOrder[Position(s)] = s
  <2>1. s \in Task /\ in.mode \in Info[s].modes
    BY DEF Eligible, Candidates, IsCandidate
  <2>2. SelectionScore(s, in) \in Int
    <3>1. Info[s].score[in.mode] \in Int
      BY <2>1, OrderAssumption
    <3>2. QED
      BY <3>1 DEF SelectionScore
  <2>3. \E k \in DOMAIN TaskOrder : TaskOrder[k] = s
    BY <2>1, OrderAssumption
  <2>4. Position(s) \in DOMAIN TaskOrder /\ TaskOrder[Position(s)] = s
    BY <2>3 DEF Position
  <2>5. \A k \in DOMAIN TaskOrder : k \in Int
    BY OrderAssumption
  <2>6. QED
    BY <2>2, <2>4, <2>5
<1>2. QED
  BY <1>1 DEF Before

(* How many of these tasks come before task t. *)
Rank(t, tasks, in) == Cardinality({u \in tasks : Before(u, t, in)})

LEMMA SomeFinite ==
    ASSUME NEW in, NEW tasks \in SUBSET Eligible(in)
    PROVE  IsFiniteSet(tasks) /\ Cardinality(tasks) \in Nat
<1>1. tasks \in SUBSET Task
  BY EligibleInBank
<1>2. IsFiniteSet(tasks)
  BY <1>1, TasksFinite, FS_Subset
<1>3. QED
  BY <1>2, FS_CardinalityType

LEMMA OneRank ==
    ASSUME NEW in, NEW tasks \in SUBSET Eligible(in), NEW t \in tasks, NEW u \in tasks,
           Rank(t, tasks, in) = Rank(u, tasks, in)
    PROVE  t = u
<1>1. ASSUME NEW a \in tasks, NEW b \in tasks, Before(a, b, in)
      PROVE  Rank(a, tasks, in) # Rank(b, tasks, in)
  <2>1. PICK A, B : A = {v \in tasks : Before(v, a, in)} /\ B = {v \in tasks : Before(v, b, in)}
    OBVIOUS
  <2>2. A \in SUBSET B /\ a \in B /\ a \notin A
    <3>1. \A v \in tasks : Before(v, a, in) => Before(v, b, in)
      BY <1>1, StrictOrder
    <3>2. ~Before(a, a, in)
      BY StrictOrder
    <3>3. QED
      BY <1>1, <2>1, <3>1, <3>2
  <2>3. IsFiniteSet(B)
    <3>1. B \in SUBSET Eligible(in)
      BY <2>1
    <3>2. QED
      BY <3>1, SomeFinite
  <2>4. Cardinality(B) = Cardinality(A) => B = A
    BY <2>2, <2>3, FS_Subset
  <2>5. QED
    BY <2>1, <2>2, <2>4 DEF Rank
<1>2. t # u => Before(t, u, in) \/ Before(u, t, in)
  BY StrictOrder
<1>3. QED
  BY <1>1, <1>2

(* A task is at the place that as many come before. *)
LEMMA AtItsPlace ==
    ASSUME NEW in, NEW tasks \in SUBSET Eligible(in), NEW n \in 1 .. Cardinality(tasks),
           NEW t \in tasks, Rank(t, tasks, in) = n - 1
    PROVE  InOrder(tasks, in)[n] = t
<1>1. PICK s : s = CHOOSE u \in tasks : Rank(u, tasks, in) = n - 1
  OBVIOUS
<1>2. InOrder(tasks, in)[n] = s
  BY <1>1 DEF InOrder, Rank
<1>3. s \in tasks /\ Rank(s, tasks, in) = n - 1
  BY <1>1, Zenon
<1>4. QED
  BY <1>2, <1>3, OneRank

(* Of the able members one comes first. *)
LEMMA OneBest ==
    ASSUME PInv, NEW t \in Task, NEW p \in Best(t, plan, input)
    PROVE  p = CHOOSE q \in Best(t, plan, input) : TRUE
<1>1. ASSUME NEW q \in Able(t, plan, input)
      PROVE  MemberScore(q, t, plan) \in Int /\ Chosen(q, input) \in Int
  <2>1. q \in Members(input)
    BY DEF Able
  <2>2. q \in Person /\ plan.minutes[q] \in Nat
    BY <2>1, MembersInHousehold DEF PInv, TypeOK
  <2>3. MemberScore(q, t, plan) \in Int
    BY <2>2 DEF MemberScore
  <2>4. \E k \in DOMAIN input.people : input.people[k] = q
    BY <2>1 DEF Members
  <2>5. Chosen(q, input) \in DOMAIN input.people
    BY <2>4 DEF Chosen
  <2>6. \A k \in DOMAIN input.people : k \in Int
    BY PlannerAssumption DEF PInv, TypeOK
  <2>7. QED
    BY <2>3, <2>5, <2>6
<1>2. ASSUME NEW q \in Best(t, plan, input) PROVE q = p
  <2>1. q \in Able(t, plan, input) /\ p \in Able(t, plan, input)
    BY DEF Best
  <2>2. PICK a, b, c, d : /\ a = MemberScore(p, t, plan) /\ b = MemberScore(q, t, plan)
                          /\ c = Chosen(p, input) /\ d = Chosen(q, input)
    OBVIOUS
  <2>3. a \in Int /\ b \in Int /\ c \in Int /\ d \in Int
    BY <1>1, <2>1, <2>2
  <2>4. q # p => (a > b \/ (a = b /\ c < d)) /\ (b > a \/ (b = a /\ d < c))
    BY <2>1, <2>2 DEF Best
  <2>5. QED
    BY <2>3, <2>4
<1>3. (CHOOSE q \in Best(t, plan, input) : TRUE) \in Best(t, plan, input)
  OBVIOUS
<1>4. QED
  BY <1>2, <1>3

-----------------------------------------------------------------------------
(* The next task of buildPlan's loop, and the plan after it. *)
NextPlan(t, before, in) ==
    IF PassedOver(t, before, in) THEN before
    ELSE Assigned(t, CHOOSE p \in Best(t, before, in) : TRUE, before)

(* f goes through the first m of these tasks. *)
Plans(f, tasks, m, in) ==
    f[0] = EmptyPlan /\ \A k \in 1 .. m : f[k] = NextPlan(tasks[k], f[k - 1], in)

LEMMA PlansAgree ==
    ASSUME NEW m \in Nat, NEW tasks, NEW in, NEW f, NEW g,
           Plans(f, tasks, m, in), Plans(g, tasks, m, in)
    PROVE  f[m] = g[m]
<1> DEFINE bad == {k \in 0 .. m : f[k] # g[k]}
<1>1. bad = {}
  <2>1. SUFFICES ASSUME bad # {} PROVE FALSE
    OBVIOUS
  <2>2. PICK k \in bad : \A l \in bad : k <= l
    <3>1. bad \in SUBSET Nat
      OBVIOUS
    <3>2. QED
      BY <2>1, <3>1, LeastNat
  <2>3. k # 0
    BY <2>2 DEF Plans
  <2>4. k \in 1 .. m /\ k - 1 \in 0 .. m /\ k - 1 \notin bad
    BY <2>2, <2>3
  <2>5. f[k - 1] = g[k - 1]
    BY <2>4
  <2>6. f[k] = g[k]
    BY <2>4, <2>5 DEF Plans
  <2>7. QED
    BY <2>2, <2>6
<1>2. QED
  BY <1>1

(* Where a list of tasks was gone through, the recursive function exists.  *)
LEMMA BuildPlanIs ==
    ASSUME NEW in, NEW n \in Nat, n = Len(EligibleTasks(in)),
           NEW f, Plans(f, EligibleTasks(in), n, in)
    PROVE  BuildPlan(in) = f[n]
<1> DEFINE body(g) ==
             [k \in 0 .. Len(EligibleTasks(in)) |->
                IF k = 0 THEN EmptyPlan
                ELSE LET t == EligibleTasks(in)[k]
                         last == g[k - 1]
                     IN IF PassedOver(t, last, in) THEN last
                        ELSE Assigned(t, CHOOSE p \in Best(t, last, in) : TRUE, last)]
           after == CHOOSE g : g = body(g)
<1>1. BuildPlan(in) = after[Len(EligibleTasks(in))]
  BY DEF BuildPlan
<1>2. PICK tasks : tasks = EligibleTasks(in)
  OBVIOUS
<1>3. ASSUME NEW g
      PROVE  body(g) = [k \in 0 .. n |-> IF k = 0 THEN EmptyPlan ELSE NextPlan(tasks[k], g[k - 1], in)]
  BY <1>2 DEF NextPlan
<1> HIDE DEF body
<1>4. \E g : g = body(g)
  <2>1. PICK g : g = [k \in 0 .. n |-> f[k]]
    OBVIOUS
  <2>2. \A k \in 0 .. n : g[k] = f[k]
    BY <2>1
  <2>3. ASSUME NEW k \in 0 .. n
        PROVE  f[k] = IF k = 0 THEN EmptyPlan ELSE NextPlan(tasks[k], g[k - 1], in)
    <3>1. CASE k = 0
      BY <3>1 DEF Plans
    <3>2. CASE k # 0
      <4>1. k \in 1 .. n /\ k - 1 \in 0 .. n
        BY <3>2
      <4>2. QED
        BY <1>2, <2>2, <3>2, <4>1 DEF Plans
    <3>3. QED
      BY <3>1, <3>2
  <2>4. g = [k \in 0 .. n |-> IF k = 0 THEN EmptyPlan ELSE NextPlan(tasks[k], g[k - 1], in)]
    BY <2>1, <2>3
  <2>5. g = body(g)
    BY <1>3, <2>4
  <2>6. QED
    BY <2>5
<1>5. after = body(after)
  BY <1>4
<1> HIDE DEF after
<1>6. after = [k \in 0 .. n |-> IF k = 0 THEN EmptyPlan ELSE NextPlan(tasks[k], after[k - 1], in)]
  BY <1>3, <1>5
<1>7. \A k \in 0 .. n : after[k] = IF k = 0 THEN EmptyPlan ELSE NextPlan(tasks[k], after[k - 1], in)
  BY <1>6
<1>8. Plans(after, tasks, n, in)
  <2>1. \A k \in 1 .. n : k \in 0 .. n /\ k # 0
    OBVIOUS
  <2>2. after[0] = EmptyPlan
    BY <1>7
  <2>3. QED
    BY <1>7, <2>1, <2>2 DEF Plans
<1>9. after[n] = f[n]
  BY <1>2, <1>8, PlansAgree
<1>10. QED
  BY <1>1, <1>9

LEMMA EligibleCounted ==
    ASSUME NEW in
    PROVE  Len(EligibleTasks(in)) = Cardinality(Eligible(in)) /\ Cardinality(Eligible(in)) \in Nat
<1>1. PICK n \in Nat : n = Cardinality(Eligible(in))
  BY SomeFinite
<1>2. PICK s : s = EligibleTasks(in)
  OBVIOUS
<1> DEFINE e(k) == CHOOSE t \in Eligible(in) : Cardinality({u \in Eligible(in) : Before(u, t, in)}) = k - 1
<1>3. s = [k \in 1 .. n |-> e(k)]
  BY <1>1, <1>2 DEF EligibleTasks, InOrder
<1> HIDE DEF e
<1>4. PICK S : S = {e(k) : k \in 1 .. n}
  OBVIOUS
<1>5. s \in [1 .. n -> S]
  BY <1>3, <1>4
<1>6. s \in Seq(S) /\ Len(s) = n
  BY <1>5
<1>7. QED
  BY <1>1, <1>2, <1>6
-----------------------------------------------------------------------------
(* How far the loop is.                                                    *)

Considered == Eligible(input) \ todo

(* What was considered went to somebody, or to nobody. *)
Sorted ==
    /\ Considered = passed \cup AssignedTasks(plan)
    /\ passed \cap AssignedTasks(plan) = {} /\ passed \cap todo = {}

(* It comes before what is still to come. *)
InTurn == \A u \in Considered, t \in todo : Before(u, t, input)

(* The plan is what the operator has after as many tasks. *)
AsFar ==
    \E f : /\ Plans(f, EligibleTasks(input), Cardinality(Considered), input)
           /\ plan = f[Cardinality(Considered)]

(* Every place in the list of what was passed over is taken. *)
Placed == \A n \in 1 .. Cardinality(passed) : \E t \in passed : Rank(t, passed, input) = n - 1

LoopInv == Sorted /\ InTurn /\ AsFar /\ Placed

LEMMA LoopInit == Init => LoopInv
<1> SUFFICES ASSUME Init PROVE LoopInv
  OBVIOUS
<1>1. Considered = {} /\ passed = {} /\ plan = EmptyPlan
  BY DEF Init, Considered
<1>2. AssignedTasks(plan) = {}
  BY <1>1 DEF AssignedTasks, EmptyPlan
<1>3. Cardinality(Considered) = 0 /\ Cardinality(passed) = 0
  BY <1>1, FS_EmptySet
<1>4. AsFar
  <2>1. PICK f : f = [k \in {0} |-> EmptyPlan]
    OBVIOUS
  <2>2. Plans(f, EligibleTasks(input), 0, input) /\ f[0] = EmptyPlan
    BY <2>1 DEF Plans
  <2>3. QED
    BY <1>1, <1>3, <2>2 DEF AsFar
<1>5. Sorted /\ InTurn /\ Placed
  BY <1>1, <1>2, <1>3 DEF Sorted, InTurn, Placed
<1>6. QED
  BY <1>4, <1>5 DEF LoopInv

(* The foremost task is the next of EligibleTasks. *)
LEMMA NextInTurn ==
    ASSUME PInv, InTurn, NEW t \in Foremost(todo, input),
           todo' = todo \ {t}, input' = input
    PROVE  /\ Cardinality(Considered) \in Nat
           /\ Considered' = Considered \cup {t}
           /\ Cardinality(Considered') = Cardinality(Considered) + 1
           /\ EligibleTasks(input)[Cardinality(Considered) + 1] = t
           /\ InTurn'
<1>1. /\ t \in todo /\ t \in Eligible(input) /\ todo \subseteq Eligible(input)
      /\ \A u \in todo \ {t} : Before(t, u, input)
  BY DEF Foremost, PInv, Placement
<1>2. Considered \in SUBSET Eligible(input) /\ t \notin Considered
  BY <1>1 DEF Considered
<1>3. IsFiniteSet(Considered) /\ Cardinality(Considered) \in Nat
  BY <1>2, SomeFinite
<1>4. Considered' = Considered \cup {t}
  BY <1>1 DEF Considered
<1>5. Cardinality(Considered \cup {t}) = Cardinality(Considered) + 1
  BY <1>2, <1>3, FS_AddElement
<1>6. {u \in Eligible(input) : Before(u, t, input)} = Considered
  <2>1. \A u \in Considered : u \in Eligible(input) /\ Before(u, t, input)
    BY <1>1, <1>2 DEF InTurn
  <2>2. ASSUME NEW u \in todo PROVE ~Before(u, t, input)
    BY <1>1, StrictOrder
  <2>3. QED
    BY <2>1, <2>2 DEF Considered
<1>7. PICK k : k = Cardinality(Considered) + 1
  OBVIOUS
<1>8. k \in 1 .. Cardinality(Eligible(input)) /\ Cardinality(Considered) = k - 1
  <2>1. Considered \cup {t} \in SUBSET Eligible(input)
    BY <1>1, <1>2
  <2>2. Cardinality(Considered \cup {t}) <= Cardinality(Eligible(input))
    BY <2>1, SomeFinite, FS_Subset
  <2>3. Cardinality(Eligible(input)) \in Nat
    BY SomeFinite
  <2>4. QED
    BY <1>3, <1>5, <1>7, <2>2, <2>3
<1>9. Rank(t, Eligible(input), input) = k - 1
  BY <1>6, <1>8 DEF Rank
<1>10. EligibleTasks(input)[k] = t
  BY <1>1, <1>8, <1>9, AtItsPlace DEF EligibleTasks
<1>11. InTurn'
  BY <1>1, <1>4 DEF InTurn
<1>12. QED
  BY <1>3, <1>4, <1>5, <1>7, <1>10, <1>11

(* The function grows by a value. *)
LEMMA OneFarther ==
    ASSUME PInv, InTurn, AsFar, NEW t \in Foremost(todo, input),
           todo' = todo \ {t}, input' = input, plan' = NextPlan(t, plan, input)
    PROVE  AsFar'
<1>1. PICK n \in Nat : n = Cardinality(Considered)
  BY NextInTurn
<1>2. PICK tasks : tasks = EligibleTasks(input)
  OBVIOUS
<1>3. Cardinality(Considered') = n + 1 /\ tasks[n + 1] = t
  BY <1>1, <1>2, NextInTurn
<1>4. PICK f : Plans(f, tasks, n, input) /\ plan = f[n]
  BY <1>1, <1>2 DEF AsFar
<1>5. PICK g : g = [k \in 0 .. n + 1 |-> IF k = n + 1 THEN plan' ELSE f[k]]
  OBVIOUS
<1>6. g[n + 1] = plan' /\ \A k \in 0 .. n : g[k] = f[k]
  BY <1>5
<1>7. g[0] = EmptyPlan
  BY <1>4, <1>6 DEF Plans
<1>8. ASSUME NEW k \in 1 .. n + 1 PROVE g[k] = NextPlan(tasks[k], g[k - 1], input)
  <2>1. g[k - 1] = f[k - 1]
    BY <1>6
  <2>2. CASE k = n + 1
    BY <1>3, <1>4, <1>6, <2>1, <2>2
  <2>3. CASE k # n + 1
    <3>1. k \in 1 .. n /\ k \in 0 .. n
      BY <2>3
    <3>2. f[k] = NextPlan(tasks[k], f[k - 1], input)
      BY <1>4, <3>1 DEF Plans
    <3>3. QED
      BY <1>6, <2>1, <3>1, <3>2
  <2>4. QED
    BY <2>2, <2>3
<1>9. Plans(g, tasks, n + 1, input)
  BY <1>7, <1>8 DEF Plans
<1>10. Plans(g, EligibleTasks(input)', Cardinality(Considered)', input')
  <2>1. EligibleTasks(input)' = tasks
    BY <1>2
  <2>2. QED
    BY <1>3, <1>9, <2>1
<1>11. plan' = g[Cardinality(Considered)']
  BY <1>3, <1>6
<1>12. QED
  BY <1>10, <1>11 DEF AsFar

LEMMA LoopPassOver == PInv /\ LoopInv /\ PassOver => LoopInv'
<1> SUFFICES ASSUME PInv, LoopInv, PassOver PROVE LoopInv'
  OBVIOUS
<1>1. PICK t \in Foremost(todo, input) :
        /\ PassedOver(t, plan, input)
        /\ todo' = todo \ {t}
        /\ passed' = passed \cup {t}
        /\ input' = input /\ plan' = plan
  BY DEF PassOver
<1>2. t \in todo /\ t \in Eligible(input) /\ t \notin Considered
  BY DEF Foremost, Considered, PInv, Placement
<1>3. Considered' = Considered \cup {t} /\ InTurn'
  BY <1>1, NextInTurn DEF LoopInv
<1>4. t \notin AssignedTasks(plan) /\ t \notin passed
  BY <1>2 DEF LoopInv, Sorted
<1>5. Sorted'
  BY <1>1, <1>3, <1>4 DEF LoopInv, Sorted
<1>6. AsFar'
  <2>1. plan' = NextPlan(t, plan, input)
    BY <1>1 DEF NextPlan
  <2>2. QED
    BY <1>1, <2>1, OneFarther DEF LoopInv
<1>7. Placed'
  <2>1. IsFiniteSet(passed) /\ Cardinality(passed) \in Nat
    <3>1. passed \in SUBSET Eligible(input)
      BY DEF PInv, Placement
    <3>2. QED
      BY <3>1, SomeFinite
  <2>2. Cardinality(passed') = Cardinality(passed) + 1
    BY <1>1, <1>4, <2>1, FS_AddElement
  <2>3. \A u \in passed : u \in Eligible(input) /\ Before(u, t, input)
    BY <1>2 DEF LoopInv, Sorted, InTurn, PInv, Placement
  <2>4. Rank(t, passed', input) = Cardinality(passed)
    <3>1. {u \in passed \cup {t} : Before(u, t, input)} = passed
      BY <1>2, <1>4, <2>3, StrictOrder
    <3>2. QED
      BY <1>1, <3>1 DEF Rank
  <2>5. ASSUME NEW s \in passed PROVE Rank(s, passed', input) = Rank(s, passed, input)
    <3>1. ~Before(t, s, input)
      BY <1>2, <2>3, StrictOrder
    <3>2. {u \in passed \cup {t} : Before(u, s, input)} = {u \in passed : Before(u, s, input)}
      BY <3>1
    <3>3. QED
      BY <1>1, <3>2 DEF Rank
  <2>6. ASSUME NEW n \in 1 .. Cardinality(passed')
        PROVE  \E s \in passed' : Rank(s, passed', input) = n - 1
    <3>1. CASE n = Cardinality(passed) + 1
      BY <1>1, <2>1, <2>4, <3>1
    <3>2. CASE n # Cardinality(passed) + 1
      <4>1. n \in 1 .. Cardinality(passed)
        BY <2>1, <2>2, <3>2
      <4>2. PICK s \in passed : Rank(s, passed, input) = n - 1
        BY <4>1 DEF LoopInv, Placed
      <4>3. QED
        BY <1>1, <2>5, <4>2
    <3>3. QED
      BY <3>1, <3>2
  <2>7. QED
    BY <1>1, <2>6 DEF Placed
<1>8. QED
  BY <1>3, <1>5, <1>6, <1>7 DEF LoopInv

LEMMA LoopAssign == PInv /\ LoopInv /\ Assign => LoopInv'
<1> SUFFICES ASSUME PInv, LoopInv, Assign PROVE LoopInv'
  OBVIOUS
<1>1. PICK t \in Foremost(todo, input) :
        /\ ~TooMuchOdor(t, plan)
        /\ \E p \in Best(t, plan, input) : plan' = Assigned(t, p, plan)
        /\ todo' = todo \ {t}
        /\ input' = input /\ passed' = passed
  BY DEF Assign
<1>2. PICK p \in Best(t, plan, input) : plan' = Assigned(t, p, plan)
  BY <1>1
<1>3. t \in todo /\ t \in Eligible(input) /\ t \notin Considered /\ t \in Task
  BY EligibleInBank DEF Foremost, Considered, PInv, Placement
<1>4. Considered' = Considered \cup {t} /\ InTurn'
  BY <1>1, NextInTurn DEF LoopInv
<1>5. AssignedTasks(plan') = AssignedTasks(plan) \cup {t}
  <2>1. plan.cards \in Seq(Card)
    BY DEF PInv, TypeOK
  <2>2. PICK new \in Card : new = [task |-> t, person |-> p]
    BY <1>3, BestIsAble, MembersInHousehold DEF Card, PInv, TypeOK
  <2>3. plan'.cards = Append(plan.cards, new)
    BY <1>2, <2>2 DEF Assigned
  <2>4. PICK last : last = Len(plan.cards) + 1
    OBVIOUS
  <2>5. /\ DOMAIN plan'.cards = DOMAIN plan.cards \cup {last}
        /\ \A k \in DOMAIN plan.cards : plan'.cards[k] = plan.cards[k]
        /\ plan'.cards[last] = new
    BY <2>1, <2>2, <2>3, <2>4, OneMoreCard
  <2>6. QED
    BY <2>2, <2>5 DEF AssignedTasks
<1>6. Sorted'
  BY <1>1, <1>3, <1>4, <1>5 DEF LoopInv, Sorted
<1>7. AsFar'
  <2>1. ~PassedOver(t, plan, input)
    BY <1>1, <1>2 DEF PassedOver, Best
  <2>2. plan' = NextPlan(t, plan, input)
    BY <1>2, <1>3, <2>1, OneBest DEF NextPlan
  <2>3. QED
    BY <1>1, <2>2, OneFarther DEF LoopInv
<1>8. Placed'
  BY <1>1 DEF LoopInv, Placed
<1>9. QED
  BY <1>4, <1>6, <1>7, <1>8 DEF LoopInv

THEOREM LoopInvariant == Spec => []LoopInv
<1>1. PInv /\ LoopInv /\ [Next]_vars => LoopInv'
  <2> SUFFICES ASSUME PInv, LoopInv, [Next]_vars PROVE LoopInv'
    OBVIOUS
  <2>1. CASE PassOver
    BY <2>1, LoopPassOver
  <2>2. CASE Assign
    BY <2>2, LoopAssign
  <2>3. CASE UNCHANGED vars
    BY <2>3 DEF vars, LoopInv, Sorted, InTurn, AsFar, Placed, Considered
  <2> QED BY <2>1, <2>2, <2>3 DEF Next
<1> QED BY LoopInit, <1>1, PlanInvariant, PTL DEF Spec

(* taskEngine.ts:177-208, for any household and bank: where the loop ends, *)
(* its plan is that of the operator home sessions are modelled with, and   *)
(* so is the rest.                                                         *)
THEOREM LoopDoesBuildPlan == Spec => []LoopIsBuildPlan
<1>1. PInv /\ LoopInv => LoopIsBuildPlan
  <2> SUFFICES ASSUME PInv, LoopInv, todo = {}
               PROVE  /\ plan = BuildPlan(input)
                      /\ passed = {UnassignedTasks(input, plan)[k] :
                                      k \in DOMAIN UnassignedTasks(input, plan)}
    BY DEF LoopIsBuildPlan
  <2>1. Considered = Eligible(input)
    BY DEF Considered
  <2>2. plan = BuildPlan(input)
    <3>1. PICK n \in Nat : n = Cardinality(Eligible(input)) /\ n = Len(EligibleTasks(input))
      BY EligibleCounted
    <3>2. PICK f : Plans(f, EligibleTasks(input), n, input) /\ plan = f[n]
      BY <2>1, <3>1 DEF LoopInv, AsFar
    <3>3. QED
      BY <3>1, <3>2, BuildPlanIs
  <2>3. passed = Eligible(input) \ AssignedTasks(plan) /\ passed \in SUBSET Eligible(input)
    BY <2>1 DEF LoopInv, Sorted
  <2>4. PICK rest : rest = UnassignedTasks(input, plan)
    OBVIOUS
  <2>5. rest = InOrder(passed, input)
    BY <2>3, <2>4 DEF UnassignedTasks
  <2>6. DOMAIN rest = 1 .. Cardinality(passed)
    BY <2>5 DEF InOrder
  <2>7. ASSUME NEW n \in 1 .. Cardinality(passed) PROVE rest[n] \in passed
    <3>1. PICK t \in passed : Rank(t, passed, input) = n - 1
      BY DEF LoopInv, Placed
    <3>2. QED
      BY <2>3, <2>5, <3>1, AtItsPlace
  <2>8. ASSUME NEW t \in passed PROVE \E n \in 1 .. Cardinality(passed) : rest[n] = t
    <3>1. PICK n : n = Rank(t, passed, input) + 1
      OBVIOUS
    <3>2. n \in 1 .. Cardinality(passed) /\ Rank(t, passed, input) = n - 1
      <4>1. PICK B : B = {u \in passed : Before(u, t, input)}
        OBVIOUS
      <4>2. B \in SUBSET passed /\ t \notin B
        BY <2>3, <4>1, StrictOrder
      <4>3. IsFiniteSet(passed) /\ Cardinality(passed) \in Nat /\ Cardinality(B) \in Nat
        <5>1. B \in SUBSET Eligible(input)
          BY <2>3, <4>2
        <5>2. QED
          BY <2>3, <5>1, SomeFinite
      <4>4. /\ Cardinality(B) <= Cardinality(passed)
            /\ Cardinality(passed) = Cardinality(B) => passed = B
        BY <4>2, <4>3, FS_Subset
      <4>5. Rank(t, passed, input) = Cardinality(B)
        BY <4>1 DEF Rank
      <4>6. QED
        BY <3>1, <4>2, <4>3, <4>4, <4>5
    <3>3. QED
      BY <2>3, <2>5, <3>2, AtItsPlace
  <2>9. passed = {rest[n] : n \in DOMAIN rest}
    BY <2>6, <2>7, <2>8
  <2>10. QED
    BY <2>2, <2>4, <2>9
<1> QED BY PlanInvariant, LoopInvariant, <1>1, PTL
=============================================================================
