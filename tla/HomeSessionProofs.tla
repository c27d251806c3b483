-------------------------- MODULE HomeSessionProofs --------------------------
(***************************************************************************)
(* Proofs about module HomeSession, for any household, bank, protocols and *)
(* schedules, any number of sessions of any kind: what a session asks for, *)
(* counts and records.  They rest on what buildPlan returns, for any input *)
(* at all: different eligible tasks, and the rest of them.                 *)
(***************************************************************************)
EXTENDS HomeSession, FiniteSetTheorems, WellFoundedInduction, TLAPS

-----------------------------------------------------------------------------
(* Listing a finite set in an order: by how many come before.              *)

LEMMA LeastNat ==
    ASSUME NEW T \in SUBSET Nat, T # {}
    PROVE  \E n \in T : \A m \in T : n <= m
<1>1. PICK R : IsWellFoundedOn(R, Nat) /\ \A n, m \in Nat : m < n => <<m, n>> \in R
  <2>1. \A n, m \in Nat : m < n => <<m, n>> \in OpToRel(<, Nat)
    BY DEF OpToRel
  <2>2. QED
    BY <2>1, NatLessThanWellFounded
<1>2. PICK n \in T : \A m \in T : ~(<<m, n>> \in R)
  BY <1>1, WFMin
<1>3. \A m \in T : ~(m < n)
  BY <1>1, <1>2, Zenon
<1>4. QED
  BY <1>3

(* R orders the members of S, without ties.                                *)
Orders(R, S) ==
    /\ \A t \in S : <<t, t>> \notin R
    /\ \A t, u, v \in S : <<t, u>> \in R /\ <<u, v>> \in R => <<t, v>> \in R
    /\ \A t, u \in S : t # u => <<t, u>> \in R \/ <<u, t>> \in R

Below(t, R, S) == {u \in S : <<u, t>> \in R}

LEMMA BelowLess ==
    ASSUME NEW S, IsFiniteSet(S), NEW R, Orders(R, S), NEW t \in S
    PROVE  /\ Cardinality(Below(t, R, S)) \in 0 .. Cardinality(S) - 1
           /\ \A u \in S : <<t, u>> \in R =>
                Cardinality(Below(t, R, S)) < Cardinality(Below(u, R, S))
<1>1. ASSUME NEW u \in S PROVE IsFiniteSet(Below(u, R, S)) /\ Cardinality(Below(u, R, S)) \in Nat
  <2>1. Below(u, R, S) \in SUBSET S
    BY DEF Below
  <2>2. IsFiniteSet(Below(u, R, S))
    BY <2>1, FS_Subset
  <2>3. QED
    BY <2>2, FS_CardinalityType
<1>2. Cardinality(Below(t, R, S)) < Cardinality(S)
  <2>1. Below(t, R, S) \in SUBSET S /\ t \notin Below(t, R, S)
    BY DEF Below, Orders
  <2>2. /\ Cardinality(Below(t, R, S)) <= Cardinality(S)
        /\ Cardinality(S) = Cardinality(Below(t, R, S)) => S = Below(t, R, S)
    BY <2>1, FS_Subset
  <2>3. Cardinality(S) \in Nat
    BY FS_CardinalityType
  <2>4. QED
    BY <1>1, <2>1, <2>2, <2>3
<1>3. ASSUME NEW u \in S, <<t, u>> \in R
      PROVE  Cardinality(Below(t, R, S)) < Cardinality(Below(u, R, S))
  <2>1. Below(t, R, S) \in SUBSET Below(u, R, S)
    BY <1>3 DEF Below, Orders
  <2>2. t \in Below(u, R, S) /\ t \notin Below(t, R, S)
    BY <1>3 DEF Below, Orders
  <2>3. /\ Cardinality(Below(t, R, S)) <= Cardinality(Below(u, R, S))
        /\ Cardinality(Below(u, R, S)) = Cardinality(Below(t, R, S)) => Below(u, R, S) = Below(t, R, S)
    BY <1>1, <2>1, FS_Subset
  <2>4. QED
    BY <1>1, <2>2, <2>3
<1>4. Cardinality(S) \in Nat
  BY FS_CardinalityType
<1>5. QED
  BY <1>1, <1>2, <1>3, <1>4

(* Every rank below the size of S is that of exactly one member.           *)
LEMMA Ranks ==
    ASSUME NEW S, IsFiniteSet(S), NEW R, Orders(R, S)
    PROVE  /\ Cardinality(S) \in Nat
           /\ \A n \in 1 .. Cardinality(S) : \E t \in S : Cardinality(Below(t, R, S)) = n - 1
           /\ \A t \in S : Cardinality(Below(t, R, S)) + 1 \in 1 .. Cardinality(S)
           /\ \A t, u \in S :
                Cardinality(Below(t, R, S)) = Cardinality(Below(u, R, S)) => t = u
<1>1. PICK N : N = Cardinality(S) /\ N \in Nat
  BY FS_CardinalityType
<1>2. \A t \in S : Cardinality(Below(t, R, S)) \in 0 .. N - 1
  BY <1>1, BelowLess
<1>3. ASSUME NEW t \in S, NEW u \in S, t # u
      PROVE  Cardinality(Below(t, R, S)) # Cardinality(Below(u, R, S))
  <2>1. CASE <<t, u>> \in R
    <3>1. Cardinality(Below(t, R, S)) < Cardinality(Below(u, R, S))
      BY <2>1, BelowLess
    <3>2. QED
      BY <1>2, <3>1
  <2>2. CASE <<u, t>> \in R
    <3>1. Cardinality(Below(u, R, S)) < Cardinality(Below(t, R, S))
      BY <2>2, BelowLess
    <3>2. QED
      BY <1>2, <3>1
  <2>3. QED
    BY <1>3, <2>1, <2>2 DEF Orders
<1>4. \A n \in 1 .. N : \E t \in S : Cardinality(Below(t, R, S)) = n - 1
  <2>1. PICK f : f = [t \in S |-> Cardinality(Below(t, R, S)) + 1]
    OBVIOUS
  <2>2. f \in [S -> 1 .. N]
    BY <1>1, <1>2, <2>1
  <2>3. f \in Injection(S, 1 .. N)
    <3>1. \A t, u \in S : f[t] = f[u] => t = u
      BY <1>2, <1>3, <2>1
    <3>2. QED
      BY <2>2, <3>1 DEF Injection, IsInjective
  <2>4. IsFiniteSet(1 .. N) /\ Cardinality(1 .. N) = N
    <3>1. PICK one \in Int : one = 1
      OBVIOUS
    <3>2. N \in Int
      BY <1>1
    <3>3. /\ IsFiniteSet(one .. N)
          /\ Cardinality(one .. N) = IF one > N THEN 0 ELSE N - one + 1
      BY <3>1, <3>2, FS_Interval
    <3>4. QED
      BY <1>1, <3>1, <3>3
  <2>5. f \in Surjection(S, 1 .. N)
    BY <1>1, <2>3, <2>4, FS_Injection
  <2>6. \A n \in 1 .. N : \E t \in S : f[t] = n
    BY <2>5 DEF Surjection
  <2>7. QED
    BY <1>1, <1>2, <2>1, <2>6
<1>5. QED
  BY <1>1, <1>2, <1>3, <1>4

(* f lists the members of S, each once.                                    *)
Lists(f, S) ==
    /\ Cardinality(S) \in Nat
    /\ f \in [1 .. Cardinality(S) -> S]
    /\ \A m, n \in 1 .. Cardinality(S) : f[m] = f[n] => m = n
    /\ \A t \in S : \E n \in 1 .. Cardinality(S) : f[n] = t

(* Whatever has the rank of its place makes a list.                        *)
LEMMA RankedLists ==
    ASSUME NEW S, IsFiniteSet(S), NEW R, Orders(R, S), NEW f,
           f = [n \in 1 .. Cardinality(S) |-> f[n]],
           \A n \in 1 .. Cardinality(S) :
               (\E t \in S : Cardinality(Below(t, R, S)) = n - 1) =>
                   f[n] \in S /\ Cardinality(Below(f[n], R, S)) = n - 1
    PROVE  Lists(f, S)
<1>1. PICK N : N = Cardinality(S) /\ N \in Nat
  BY Ranks
<1>2. \A n \in 1 .. N : f[n] \in S /\ Cardinality(Below(f[n], R, S)) = n - 1
  BY <1>1, Ranks
<1>3. f \in [1 .. N -> S]
  BY <1>1, <1>2
<1>4. \A m, n \in 1 .. N : f[m] = f[n] => m = n
  BY <1>1, <1>2
<1>5. ASSUME NEW t \in S PROVE \E n \in 1 .. N : f[n] = t
  <2>1. PICK n \in 1 .. N : n = Cardinality(Below(t, R, S)) + 1
    BY <1>1, Ranks
  <2>2. Cardinality(Below(f[n], R, S)) = n - 1 /\ f[n] \in S
    BY <1>2
  <2>3. Cardinality(Below(t, R, S)) = n - 1
    <3>1. Cardinality(Below(t, R, S)) \in Nat
      <4>1. Below(t, R, S) \in SUBSET S
        BY DEF Below
      <4>2. IsFiniteSet(Below(t, R, S))
        BY <4>1, FS_Subset
      <4>3. QED
        BY <4>2, FS_CardinalityType
    <3>2. QED
      BY <1>1, <2>1, <3>1
  <2>4. f[n] = t
    BY <2>2, <2>3, Ranks
  <2>5. QED
    BY <2>4
<1>6. QED
  BY <1>1, <1>3, <1>4, <1>5 DEF Lists

(* What is picked is what is at the places, in the order f lists them.     *)
Picks(f, s, places) ==
    /\ Lists(f, places)
    /\ Picked(s, places) = [n \in 1 .. Cardinality(places) |-> s[f[n]]]

LEMMA PickedLists ==
    ASSUME NEW s, NEW len \in Nat, NEW places \in SUBSET (1 .. len)
    PROVE  \E f : Picks(f, s, places)
<1>1. IsFiniteSet(places)
  <2>1. \A k \in places : k \in Nat /\ k <= len
    OBVIOUS
  <2>2. places \in SUBSET Nat
    BY <2>1
  <2>3. QED
    BY <2>1, <2>2, FS_BoundedSetOfNaturals
<1>2. PICK R : R = {p \in places \X places : p[1] < p[2]}
  OBVIOUS
<1>3. \A j, k \in places : <<j, k>> \in R <=> j < k
  BY <1>2
<1>4. Orders(R, places)
  <2>1. \A k \in places : k \in Int
    OBVIOUS
  <2>2. QED
    BY <1>3, <2>1 DEF Orders
<1>5. PICK f : f = [n \in 1 .. Cardinality(places) |->
                      CHOOSE k \in places : Cardinality({j \in places : j < k}) = n - 1]
  OBVIOUS
<1>6. \A k \in places : Below(k, R, places) = {j \in places : j < k}
  BY <1>3 DEF Below
<1>7. ASSUME NEW n \in 1 .. Cardinality(places),
             \E k \in places : Cardinality(Below(k, R, places)) = n - 1
      PROVE  f[n] \in places /\ Cardinality(Below(f[n], R, places)) = n - 1
  <2>1. \E k \in places : Cardinality({j \in places : j < k}) = n - 1
    BY <1>6, <1>7
  <2>2. f[n] = CHOOSE k \in places : Cardinality({j \in places : j < k}) = n - 1
    BY <1>5
  <2>3. f[n] \in places /\ Cardinality({j \in places : j < f[n]}) = n - 1
    BY <2>1, <2>2, Zenon
  <2>4. QED
    BY <1>6, <2>3
<1>8. f = [n \in 1 .. Cardinality(places) |-> f[n]]
  <2> DEFINE e(n) == CHOOSE k \in places : Cardinality({j \in places : j < k}) = n - 1
  <2>1. f = [n \in 1 .. Cardinality(places) |-> e(n)]
    BY <1>5
  <2> HIDE DEF e
  <2>2. QED
    BY <2>1
<1>9. Lists(f, places)
  BY <1>1, <1>4, <1>7, <1>8, RankedLists
<1>10. Picked(s, places) = [n \in 1 .. Cardinality(places) |-> s[f[n]]]
  BY <1>5 DEF Picked
<1>11. Picks(f, s, places)
  BY <1>9, <1>10 DEF Picks
<1>12. QED
  BY <1>11

-----------------------------------------------------------------------------
(* The order of consideration. *)

LEMMA TasksFinite == IsFiniteSet(Task)
<1>1. PICK len \in Nat : DOMAIN TaskOrder = 1 .. len
  BY OrderAssumption
<1>2. PICK f : f = [t \in Task |-> CHOOSE k \in 1 .. len : TaskOrder[k] = t]
  OBVIOUS
<1>3. \A t \in Task : f[t] \in 1 .. len /\ TaskOrder[f[t]] = t
  <2> SUFFICES ASSUME NEW t \in Task PROVE f[t] \in 1 .. len /\ TaskOrder[f[t]] = t
    OBVIOUS
  <2>1. \E k \in 1 .. len : TaskOrder[k] = t
    BY <1>1, OrderAssumption
  <2>2. QED
    BY <1>2, <2>1
<1>4. f \in Injection(Task, 1 .. len)
  BY <1>2, <1>3 DEF Injection, IsInjective
<1>5. IsFiniteSet(1 .. len)
  <2>1. PICK one \in Int : one = 1
    OBVIOUS
  <2>2. len \in Int
    OBVIOUS
  <2>3. QED
    BY <2>1, <2>2, FS_Interval
<1>6. QED
  BY <1>4, <1>5, FS_Injection

LEMMA EligibleScored ==
    ASSUME NEW in, NEW t \in Eligible(in)
    PROVE  t \in Task /\ SelectionScore(t, in) \in Int
<1>1. t \in Task /\ in.mode \in Info[t].modes
  BY DEF Eligible, Candidates, IsCandidate
<1>2. Info[t].score[in.mode] \in Int
  BY <1>1, OrderAssumption
<1>3. QED
  BY <1>1, <1>2 DEF SelectionScore

LEMMA Positions ==
    ASSUME NEW t \in Task
    PROVE  Position(t) \in Int /\ TaskOrder[Position(t)] = t
<1>1. \E k \in DOMAIN TaskOrder : TaskOrder[k] = t
  BY OrderAssumption
<1>2. Position(t) \in DOMAIN TaskOrder /\ TaskOrder[Position(t)] = t
  BY <1>1 DEF Position
<1>3. \A k \in DOMAIN TaskOrder : k \in Int
  BY OrderAssumption
<1>4. QED
  BY <1>2, <1>3

LEMMA InOrderLists ==
    ASSUME NEW in, NEW tasks \in SUBSET Eligible(in)
    PROVE  Lists(InOrder(tasks, in), tasks)
<1>1. \A t \in tasks : t \in Task /\ SelectionScore(t, in) \in Int
  BY EligibleScored
<1>2. \A t \in tasks : Position(t) \in Int /\ TaskOrder[Position(t)] = t
  BY <1>1, Positions
<1>3. IsFiniteSet(tasks)
  <2>1. tasks \in SUBSET Task
    BY <1>1
  <2>2. QED
    BY <2>1, TasksFinite, FS_Subset
<1>4. PICK R : R = {p \in tasks \X tasks : Before(p[1], p[2], in)}
  OBVIOUS
<1>5. \A t, u \in tasks : <<t, u>> \in R <=> Before(t, u, in)
  BY <1>4
<1>6. Orders(R, tasks)
  <2>1. \A t \in tasks : ~Before(t, t, in)
    BY <1>1, <1>2 DEF Before
  <2>2. \A t, u, v \in tasks : Before(t, u, in) /\ Before(u, v, in) => Before(t, v, in)
    BY <1>1, <1>2 DEF Before
  <2>3. \A t, u \in tasks : t # u => Before(t, u, in) \/ Before(u, t, in)
    BY <1>1, <1>2 DEF Before
  <2>4. QED
    BY <1>5, <2>1, <2>2, <2>3 DEF Orders
<1>7. PICK f : f = InOrder(tasks, in)
  OBVIOUS
<1>8. f = [n \in 1 .. Cardinality(tasks) |->
             CHOOSE t \in tasks : Cardinality({u \in tasks : Before(u, t, in)}) = n - 1]
  BY <1>7 DEF InOrder
<1>9. \A t \in tasks : Below(t, R, tasks) = {u \in tasks : Before(u, t, in)}
  BY <1>5 DEF Below
<1>10. ASSUME NEW n \in 1 .. Cardinality(tasks),
              \E t \in tasks : Cardinality(Below(t, R, tasks)) = n - 1
       PROVE  f[n] \in tasks /\ Cardinality(Below(f[n], R, tasks)) = n - 1
  <2>1. \E t \in tasks : Cardinality({u \in tasks : Before(u, t, in)}) = n - 1
    BY <1>9, <1>10
  <2>2. f[n] = CHOOSE t \in tasks : Cardinality({u \in tasks : Before(u, t, in)}) = n - 1
    BY <1>8
  <2>3. f[n] \in tasks /\ Cardinality({u \in tasks : Before(u, f[n], in)}) = n - 1
    BY <2>1, <2>2, Zenon
  <2>4. QED
    BY <1>9, <2>3
<1>11. f = [n \in 1 .. Cardinality(tasks) |-> f[n]]
  <2> DEFINE e(n) == CHOOSE t \in tasks : Cardinality({u \in tasks : Before(u, t, in)}) = n - 1
  <2>1. f = [n \in 1 .. Cardinality(tasks) |-> e(n)]
    BY <1>8
  <2> HIDE DEF e
  <2>2. QED
    BY <2>1
<1>12. Lists(f, tasks)
  BY <1>3, <1>6, <1>10, <1>11, RankedLists
<1>13. QED
  BY <1>7, <1>12

LEMMA ListIsSeq ==
    ASSUME NEW S, NEW f, Lists(f, S)
    PROVE  f \in Seq(S) /\ Len(f) = Cardinality(S) /\ DOMAIN f = 1 .. Cardinality(S)
<1>1. PICK n : n = Cardinality(S) /\ n \in Nat /\ f \in [1 .. n -> S]
  BY DEF Lists
<1>2. f \in Seq(S)
  BY <1>1
<1>3. QED
  BY <1>1, <1>2

-----------------------------------------------------------------------------
(* The plan, a task at a time.  A recursive function exists because there  *)
(* is no least number up to which it does not.                             *)

NextPlan(t, plan, in) ==
    IF PassedOver(t, plan, in) THEN plan
    ELSE Assigned(t, CHOOSE p \in Best(t, plan, in) : TRUE, plan)

(* f goes through the first m of these tasks. *)
Plans(f, tasks, m, in) ==
    f[0] = EmptyPlan /\ \A k \in 1 .. m : f[k] = NextPlan(tasks[k], f[k - 1], in)

LEMMA PlansExist ==
    ASSUME NEW tasks, NEW in, NEW n \in Nat
    PROVE  \E f : Plans(f, tasks, n, in)
<1> DEFINE bad == {m \in Nat : ~ \E f : Plans(f, tasks, m, in)}
<1>1. bad = {}
  <2>1. SUFFICES ASSUME bad # {} PROVE FALSE
    OBVIOUS
  <2>2. PICK m \in bad : \A l \in bad : m <= l
    <3>1. bad \in SUBSET Nat
      OBVIOUS
    <3>2. QED
      BY <2>1, <3>1, LeastNat
  <2>3. m \in Nat /\ ~ \E f : Plans(f, tasks, m, in)
    BY <2>2
  <2>4. m # 0
    <3>1. PICK f : f = [k \in {0} |-> EmptyPlan]
      OBVIOUS
    <3>2. Plans(f, tasks, 0, in)
      BY <3>1 DEF Plans
    <3>3. QED
      BY <2>3, <3>2
  <2>5. m - 1 \in Nat /\ m - 1 \notin bad
    BY <2>2, <2>3, <2>4
  <2>6. PICK f : Plans(f, tasks, m - 1, in)
    BY <2>5
  <2>7. PICK last : last = NextPlan(tasks[m], f[m - 1], in)
    OBVIOUS
  <2>8. PICK g : g = [k \in 0 .. m |-> IF k = m THEN last ELSE f[k]]
    OBVIOUS
  <2>9. g[m] = last /\ \A k \in 0 .. m - 1 : g[k] = f[k]
    BY <2>3, <2>8
  <2>10. g[0] = EmptyPlan
    BY <2>3, <2>4, <2>6, <2>9 DEF Plans
  <2>11. ASSUME NEW k \in 1 .. m PROVE g[k] = NextPlan(tasks[k], g[k - 1], in)
    <3>1. g[k - 1] = f[k - 1]
      BY <2>3, <2>9
    <3>2. CASE k = m
      BY <2>7, <2>9, <3>1, <3>2
    <3>3. CASE k # m
      <4>1. k \in 1 .. m - 1 /\ k \in 0 .. m - 1
        BY <2>3, <3>3
      <4>2. f[k] = NextPlan(tasks[k], f[k - 1], in)
        BY <2>6, <4>1 DEF Plans
      <4>3. QED
        BY <2>9, <3>1, <4>1, <4>2
    <3>4. QED
      BY <3>2, <3>3
  <2>12. Plans(g, tasks, m, in)
    BY <2>10, <2>11 DEF Plans
  <2>13. QED
    BY <2>3, <2>12
<1>2. QED
  BY <1>1

LEMMA BuildPlanSteps ==
    ASSUME NEW in, Len(EligibleTasks(in)) \in Nat
    PROVE  \E f : /\ Plans(f, EligibleTasks(in), Len(EligibleTasks(in)), in)
                  /\ BuildPlan(in) = f[Len(EligibleTasks(in))]
<1> DEFINE body(f) ==
             [k \in 0 .. Len(EligibleTasks(in)) |->
                IF k = 0 THEN EmptyPlan
                ELSE LET t == EligibleTasks(in)[k]
                         plan == f[k - 1]
                     IN IF PassedOver(t, plan, in) THEN plan
                        ELSE Assigned(t, CHOOSE p \in Best(t, plan, in) : TRUE, plan)]
           after == CHOOSE f : f = body(f)
<1>1. BuildPlan(in) = after[Len(EligibleTasks(in))]
  BY DEF BuildPlan
<1>2. PICK tasks : tasks = EligibleTasks(in)
  OBVIOUS
<1>3. PICK n \in Nat : n = Len(EligibleTasks(in))
  OBVIOUS
<1>4. ASSUME NEW f
      PROVE  body(f) = [k \in 0 .. n |-> IF k = 0 THEN EmptyPlan ELSE NextPlan(tasks[k], f[k - 1], in)]
  BY <1>2, <1>3 DEF NextPlan
<1> HIDE DEF body
<1>5. \E f : f = body(f)
  <2>1. PICK f : Plans(f, tasks, n, in)
    BY PlansExist
  <2>2. PICK g : g = [k \in 0 .. n |-> f[k]]
    OBVIOUS
  <2>3. \A k \in 0 .. n : g[k] = f[k]
    BY <2>2
  <2>4. ASSUME NEW k \in 0 .. n
        PROVE  f[k] = IF k = 0 THEN EmptyPlan ELSE NextPlan(tasks[k], g[k - 1], in)
    <3>1. CASE k = 0
      BY <2>1, <3>1 DEF Plans
    <3>2. CASE k # 0
      <4>1. k \in 1 .. n /\ k - 1 \in 0 .. n
        BY <1>3, <3>2
      <4>2. QED
        BY <2>1, <2>3, <3>2, <4>1 DEF Plans
    <3>3. QED
      BY <3>1, <3>2
  <2>5. g = [k \in 0 .. n |-> IF k = 0 THEN EmptyPlan ELSE NextPlan(tasks[k], g[k - 1], in)]
    BY <2>2, <2>4
  <2>6. g = body(g)
    BY <1>4, <2>5
  <2>7. QED
    BY <2>6
<1>6. after = body(after)
  BY <1>5
<1> HIDE DEF after
<1>7. after = [k \in 0 .. n |-> IF k = 0 THEN EmptyPlan ELSE NextPlan(tasks[k], after[k - 1], in)]
  BY <1>4, <1>6
<1>8. \A k \in 0 .. n : after[k] = IF k = 0 THEN EmptyPlan ELSE NextPlan(tasks[k], after[k - 1], in)
  BY <1>7
<1>9. Plans(after, tasks, n, in)
  <2>1. \A k \in 1 .. n : k \in 0 .. n /\ k # 0
    BY <1>3
  <2>2. after[0] = EmptyPlan
    BY <1>3, <1>8
  <2>3. QED
    BY <1>8, <2>1, <2>2 DEF Plans
<1>10. QED
  BY <1>1, <1>2, <1>3, <1>9

(* The cards are a sequence, of the first k of these tasks, each once.     *)
Dealt(cards, tasks, k) ==
    /\ \E S : cards \in Seq(S)
    /\ \A j \in DOMAIN cards : \E i \in 1 .. k : cards[j].task = tasks[i]
    /\ \A i, j \in DOMAIN cards : cards[i].task = cards[j].task => i = j

LEMMA DealtMore ==
    ASSUME NEW S, NEW tasks, Lists(tasks, S), NEW k \in 1 .. Cardinality(S), NEW in,
           NEW plan, Dealt(plan.cards, tasks, k - 1)
    PROVE  Dealt(NextPlan(tasks[k], plan, in).cards, tasks, k)
<1>1. PICK n \in Nat : n = Cardinality(S)
  BY DEF Lists
<1>2. \A i \in 1 .. k - 1 : i \in 1 .. k /\ i \in 1 .. n /\ i # k
  BY <1>1
<1>3. CASE PassedOver(tasks[k], plan, in)
  <2>1. NextPlan(tasks[k], plan, in) = plan
    BY <1>3 DEF NextPlan
  <2>2. QED
    BY <1>2, <2>1 DEF Dealt
<1>4. CASE ~PassedOver(tasks[k], plan, in)
  <2>1. PICK p : p = CHOOSE q \in Best(tasks[k], plan, in) : TRUE
    OBVIOUS
  <2>2. PICK c : c = [task |-> tasks[k], person |-> p]
    OBVIOUS
  <2>3. PICK old, T : old = plan.cards /\ old \in Seq(T)
    BY DEF Dealt
  <2>4. PICK new : new = Append(old, c)
    OBVIOUS
  <2>5. NextPlan(tasks[k], plan, in).cards = new
    BY <1>4, <2>1, <2>2, <2>3, <2>4 DEF NextPlan, Assigned
  <2>6. old \in Seq(T \cup {c})
    BY <2>3
  <2>7. PICK m \in Nat : m = Len(old) /\ DOMAIN old = 1 .. m
    BY <2>3
  <2>8. /\ new \in Seq(T \cup {c}) /\ DOMAIN new = 1 .. m + 1
        /\ new[m + 1] = c /\ \A j \in 1 .. m : new[j] = old[j]
    BY <2>4, <2>6, <2>7
  <2>9. \A j \in 1 .. m : \E i \in 1 .. k - 1 : new[j].task = tasks[i]
    <3>1. \A j \in 1 .. m : \E i \in 1 .. k - 1 : old[j].task = tasks[i]
      BY <2>3, <2>7 DEF Dealt
    <3>2. QED
      BY <2>8, <3>1
  <2>10. new[m + 1].task = tasks[k]
    BY <2>2, <2>8
  <2>11. \A j \in 1 .. m : new[j].task # tasks[k]
    BY <1>1, <1>2, <2>9 DEF Lists
  <2>12. \A i, j \in 1 .. m + 1 : new[i].task = new[j].task => i = j
    <3>1. \A i, j \in 1 .. m : new[i].task = new[j].task => i = j
      <4>1. \A i, j \in 1 .. m : old[i].task = old[j].task => i = j
        BY <2>3, <2>7 DEF Dealt
      <4>2. QED
        BY <2>8, <4>1
    <3>2. \A i \in 1 .. m + 1 : i \in 1 .. m \/ i = m + 1
      BY <2>7
    <3>3. QED
      BY <2>10, <2>11, <3>1, <3>2
  <2>13. \A j \in 1 .. m + 1 : \E i \in 1 .. k : new[j].task = tasks[i]
    <3>1. \A i \in 1 .. m + 1 : i \in 1 .. m \/ i = m + 1
      BY <2>7
    <3>2. k \in 1 .. k
      BY <1>1
    <3>3. QED
      BY <1>2, <2>9, <2>10, <3>1, <3>2
  <2>14. Dealt(new, tasks, k)
    BY <2>8, <2>12, <2>13 DEF Dealt
  <2>15. QED
    BY <2>5, <2>14
<1>5. QED
  BY <1>3, <1>4

(* A plan's cards are of different eligible tasks, whatever the input.     *)
LEMMA PlanCards ==
    ASSUME NEW in
    PROVE  /\ \E S : BuildPlan(in).cards \in Seq(S)
           /\ \A j \in DOMAIN BuildPlan(in).cards : BuildPlan(in).cards[j].task \in Eligible(in)
           /\ \A i, j \in DOMAIN BuildPlan(in).cards :
                BuildPlan(in).cards[i].task = BuildPlan(in).cards[j].task => i = j
<1>1. PICK S, tasks : S = Eligible(in) /\ tasks = EligibleTasks(in)
  OBVIOUS
<1>2. Lists(tasks, S)
  <2>1. S \in SUBSET Eligible(in)
    BY <1>1
  <2>2. Lists(InOrder(S, in), S)
    BY <1>1, <2>1, InOrderLists
  <2>3. QED
    BY <1>1, <2>2 DEF EligibleTasks
<1>3. PICK n \in Nat : n = Cardinality(S) /\ Len(tasks) = n
  BY <1>2, ListIsSeq DEF Lists
<1>4. PICK f : Plans(f, tasks, n, in) /\ BuildPlan(in) = f[n]
  BY <1>1, <1>3, BuildPlanSteps
<1> DEFINE bad == {k \in 0 .. n : ~Dealt(f[k].cards, tasks, k)}
<1>5. bad = {}
  <2>1. SUFFICES ASSUME bad # {} PROVE FALSE
    OBVIOUS
  <2>2. PICK k \in bad : \A l \in bad : k <= l
    <3>1. bad \in SUBSET Nat
      OBVIOUS
    <3>2. QED
      BY <2>1, <3>1, LeastNat
  <2>3. k # 0
    <3>1. f[0].cards = <<>>
      BY <1>4 DEF Plans, EmptyPlan
    <3>2. <<>> \in Seq({}) /\ DOMAIN <<>> = {}
      OBVIOUS
    <3>3. Dealt(<<>>, tasks, 0)
      BY <3>2 DEF Dealt
    <3>4. QED
      BY <2>2, <3>1, <3>3
  <2>4. k \in 1 .. n /\ k - 1 \in 0 .. n /\ k - 1 \notin bad
    BY <2>2, <2>3
  <2>5. Dealt(f[k - 1].cards, tasks, k - 1)
    BY <2>4
  <2>6. f[k] = NextPlan(tasks[k], f[k - 1], in)
    BY <1>4, <2>4 DEF Plans
  <2>7. Dealt(f[k].cards, tasks, k)
    <3>1. PICK plan : plan = f[k - 1]
      OBVIOUS
    <3>2. k \in 1 .. Cardinality(S)
      BY <1>3, <2>4
    <3>3. QED
      BY <1>2, <2>5, <2>6, <3>1, <3>2, DealtMore
  <2>8. QED
    BY <2>2, <2>7
<1>6. Dealt(f[n].cards, tasks, n)
  BY <1>3, <1>5
<1>7. \A i \in 1 .. n : tasks[i] \in S
  BY <1>2, <1>3 DEF Lists
<1>8. QED
  BY <1>1, <1>4, <1>6, <1>7 DEF Dealt

-----------------------------------------------------------------------------
(* The cards shown for a plan. *)

LEMMA PickedElements ==
    ASSUME NEW s, NEW len \in Nat, NEW places \in SUBSET (1 .. len)
    PROVE  /\ DOMAIN Picked(s, places) = 1 .. Cardinality(places) /\ Cardinality(places) \in Nat
           /\ Elements(Picked(s, places)) = {s[k] : k \in places}
           /\ \A S : (\A k \in places : s[k] \in S) => Picked(s, places) \in Seq(S)
<1>1. PICK f : /\ Lists(f, places)
               /\ Picked(s, places) = [n \in 1 .. Cardinality(places) |-> s[f[n]]]
  BY PickedLists DEF Picks
<1>2. PICK m \in Nat : m = Cardinality(places)
  BY <1>1 DEF Lists
<1>3. PICK p : p = Picked(s, places)
  OBVIOUS
<1>4. DOMAIN p = 1 .. m /\ \A n \in 1 .. m : p[n] = s[f[n]] /\ f[n] \in places
  BY <1>1, <1>2, <1>3 DEF Lists
<1>5. \A k \in places : \E n \in 1 .. m : f[n] = k
  BY <1>1, <1>2 DEF Lists
<1>6. Elements(p) = {s[k] : k \in places}
  <2>1. Elements(p) = {p[n] : n \in 1 .. m}
    BY <1>4 DEF Elements
  <2>2. \A n \in 1 .. m : p[n] \in {s[k] : k \in places}
    BY <1>4
  <2>3. \A k \in places : \E n \in 1 .. m : p[n] = s[k]
    BY <1>4, <1>5
  <2>4. QED
    BY <2>1, <2>2, <2>3
<1>7. ASSUME NEW S, \A k \in places : s[k] \in S PROVE p \in Seq(S)
  <2>1. p = [n \in 1 .. m |-> s[f[n]]]
    BY <1>1, <1>2, <1>3
  <2>2. \A n \in 1 .. m : s[f[n]] \in S
    BY <1>4, <1>7
  <2>3. p \in [1 .. m -> S]
    BY <2>1, <2>2
  <2>4. QED
    BY <2>3
<1>8. QED
  BY <1>2, <1>3, <1>4, <1>6, <1>7

LEMMA TogetherEquivalence ==
    /\ \A c : Together(c, c)
    /\ \A c, d, e : Together(c, d) /\ Together(c, e) => Together(d, e)
  BY DEF Together

(* The tasks of a plan's cards come on cards of their own, or bundled, and *)
(* on no two.                                                              *)
LEMMA DisplayedCards ==
    ASSUME NEW cards, NEW S, cards \in Seq(S), NEW T,
           \A j \in DOMAIN cards : cards[j].task \in T,
           \A i, j \in DOMAIN cards : cards[i].task = cards[j].task => i = j
    PROVE  LET shown == DisplayPlan(cards) IN
           /\ shown \in Seq(Seq(T))
           /\ \A n \in DOMAIN shown :
                shown[n] # <<>> /\ Elements(shown[n]) \subseteq {cards[j].task : j \in DOMAIN cards}
           /\ \A m, n \in DOMAIN shown :
                m # n => Elements(shown[m]) \cap Elements(shown[n]) = {}
<1>1. PICK len \in Nat : DOMAIN cards = 1 .. len
  OBVIOUS
<1>2. PICK tasks : tasks = [k \in DOMAIN cards |-> cards[k].task]
  OBVIOUS
<1> DEFINE bundle(k) == {j \in DOMAIN cards : Together(cards[j], cards[k])}
<1>3. PICK leads : leads = {k \in DOMAIN cards : \A j \in bundle(k) : k <= j}
  OBVIOUS
<1>4. PICK piles : piles = [k \in DOMAIN cards |-> Picked(tasks, bundle(k))]
  OBVIOUS
<1>5. DisplayPlan(cards) = Picked(piles, leads)
  BY <1>2, <1>3, <1>4 DEF DisplayPlan
<1>6. ASSUME NEW k \in 1 .. len
      PROVE  /\ piles[k] \in Seq(T) /\ piles[k] # <<>>
             /\ Elements(piles[k]) = {cards[j].task : j \in bundle(k)}
  <2>1. bundle(k) \in SUBSET (1 .. len)
    BY <1>1
  <2>2. \A j \in bundle(k) : tasks[j] = cards[j].task /\ tasks[j] \in T
    BY <1>1, <1>2
  <2>3. k \in bundle(k)
    BY <1>1, TogetherEquivalence
  <2> HIDE DEF bundle
  <2>4. PICK pile : pile = Picked(tasks, bundle(k))
    OBVIOUS
  <2>5. pile \in Seq(T) /\ Elements(pile) = {tasks[j] : j \in bundle(k)}
    <3>1. PICK places : places = bundle(k)
      OBVIOUS
    <3>2. places \in SUBSET (1 .. len) /\ \A j \in places : tasks[j] \in T
      BY <2>1, <2>2, <3>1
    <3>3. /\ Elements(Picked(tasks, places)) = {tasks[j] : j \in places}
          /\ Picked(tasks, places) \in Seq(T)
      BY <3>2, PickedElements
    <3>4. QED
      BY <2>4, <3>1, <3>3
  <2>6. piles[k] = pile
    BY <1>1, <1>4, <2>4
  <2>7. tasks[k] \in Elements(pile)
    BY <2>3, <2>5
  <2>8. pile # <<>>
    BY <2>7 DEF Elements
  <2>9. {tasks[j] : j \in bundle(k)} = {cards[j].task : j \in bundle(k)}
    BY <2>2
  <2>10. QED
    BY <2>5, <2>6, <2>8, <2>9
<1>7. ASSUME NEW k \in leads, NEW l \in leads, k # l
      PROVE  Elements(piles[k]) \cap Elements(piles[l]) = {}
  <2>1. k \in 1 .. len /\ l \in 1 .. len
    BY <1>1, <1>3
  <2>2. \A j \in bundle(k) : j \notin bundle(l)
    <3> SUFFICES ASSUME NEW j \in bundle(k), j \in bundle(l) PROVE FALSE
      OBVIOUS
    <3>1. Together(cards[k], cards[l]) /\ Together(cards[l], cards[k])
      BY TogetherEquivalence
    <3>2. l \in bundle(k) /\ k \in bundle(l)
      BY <1>1, <2>1, <3>1
    <3>3. k <= l /\ l <= k
      BY <1>3, <3>2
    <3>4. QED
      BY <1>7, <2>1, <3>3
  <2>3. \A i \in bundle(k), j \in bundle(l) : cards[i].task # cards[j].task
    BY <2>2
  <2>4. /\ Elements(piles[k]) = {cards[j].task : j \in bundle(k)}
        /\ Elements(piles[l]) = {cards[j].task : j \in bundle(l)}
    BY <1>6, <2>1
  <2> HIDE DEF bundle
  <2>5. QED
    BY <2>3, <2>4
<1> HIDE DEF bundle
<1>8. PICK f : /\ Lists(f, leads)
               /\ Picked(piles, leads) = [n \in 1 .. Cardinality(leads) |-> piles[f[n]]]
  <2>1. leads \in SUBSET (1 .. len)
    BY <1>1, <1>3
  <2>2. PICK f : Picks(f, piles, leads)
    BY <2>1, PickedLists
  <2>3. QED
    BY <2>2 DEF Picks
<1>9. PICK m \in Nat : m = Cardinality(leads)
  BY <1>8 DEF Lists
<1>10. PICK shown : shown = Picked(piles, leads)
  OBVIOUS
<1>11. \A n \in 1 .. m : f[n] \in leads /\ f[n] \in 1 .. len
  BY <1>1, <1>3, <1>8, <1>9 DEF Lists
<1>12. DOMAIN shown = 1 .. m /\ \A n \in 1 .. m : shown[n] = piles[f[n]]
  BY <1>8, <1>9, <1>10
<1>13. shown \in Seq(Seq(T))
  <2>1. shown = [n \in 1 .. m |-> piles[f[n]]]
    BY <1>8, <1>9, <1>10
  <2>2. shown \in [1 .. m -> Seq(T)]
    BY <1>6, <1>11, <2>1
  <2>3. QED
    BY <2>2
<1>14. ASSUME NEW n \in 1 .. m
       PROVE  shown[n] # <<>> /\ Elements(shown[n]) \subseteq {cards[j].task : j \in DOMAIN cards}
  <2>1. PICK k \in 1 .. len : k = f[n] /\ shown[n] = piles[k]
    BY <1>11, <1>12
  <2>2. bundle(k) \subseteq DOMAIN cards
    BY DEF bundle
  <2>3. piles[k] # <<>> /\ Elements(piles[k]) = {cards[j].task : j \in bundle(k)}
    BY <1>6
  <2>4. QED
    BY <2>1, <2>2, <2>3
<1>15. \A i, j \in 1 .. m : i # j => Elements(shown[i]) \cap Elements(shown[j]) = {}
  <2>1. \A i, j \in 1 .. m : i # j => f[i] # f[j]
    BY <1>8, <1>9 DEF Lists
  <2>2. \A i \in 1 .. m : f[i] \in leads /\ Elements(shown[i]) = Elements(piles[f[i]])
    BY <1>11, <1>12
  <2>3. QED
    BY <1>7, <2>1, <2>2
<1>16. QED
  BY <1>5, <1>10, <1>12, <1>13, <1>14, <1>15

(* The bonus tasks are the rest of the eligible ones, a card each. *)
LEMMA OfferedCards ==
    ASSUME NEW in, NEW plan
    PROVE  LET offered == BonusCards(in, plan) IN
           /\ offered \in Seq(Seq(Eligible(in)))
           /\ \A n \in DOMAIN offered :
                /\ offered[n] # <<>> /\ Elements(offered[n]) \subseteq Eligible(in)
                /\ Elements(offered[n]) \cap AssignedTasks(plan) = {}
           /\ \A m, n \in DOMAIN offered :
                m # n => Elements(offered[m]) \cap Elements(offered[n]) = {}
<1>1. PICK rest : rest = Eligible(in) \ AssignedTasks(plan)
  OBVIOUS
<1>2. PICK tasks : tasks = UnassignedTasks(in, plan)
  OBVIOUS
<1>3. Lists(tasks, rest)
  <2>1. rest \in SUBSET Eligible(in)
    BY <1>1
  <2>2. Lists(InOrder(rest, in), rest)
    BY <2>1, InOrderLists
  <2>3. QED
    BY <1>1, <1>2, <2>2 DEF UnassignedTasks
<1>4. PICK m \in Nat : m = Cardinality(rest) /\ DOMAIN tasks = 1 .. m
  BY <1>3, ListIsSeq DEF Lists
<1>5. /\ \A n \in 1 .. m : tasks[n] \in rest
      /\ \A i, j \in 1 .. m : tasks[i] = tasks[j] => i = j
  BY <1>3, <1>4 DEF Lists
<1>6. PICK offered : offered = [k \in 1 .. m |-> <<tasks[k]>>]
  OBVIOUS
<1>7. BonusCards(in, plan) = offered
  BY <1>2, <1>4, <1>6 DEF BonusCards
<1>8. ASSUME NEW n \in 1 .. m
      PROVE  /\ offered[n] \in Seq(Eligible(in)) /\ offered[n] # <<>>
             /\ Elements(offered[n]) = {tasks[n]}
  <2>1. offered[n] = <<tasks[n]>> /\ tasks[n] \in Eligible(in)
    BY <1>1, <1>5, <1>6
  <2>2. PICK t \in Eligible(in) : t = tasks[n]
    BY <2>1
  <2>3. DOMAIN <<t>> = {1} /\ <<t>>[1] = t /\ <<t>> # <<>> /\ <<t>> \in Seq(Eligible(in))
    OBVIOUS
  <2>4. QED
    BY <2>1, <2>2, <2>3 DEF Elements
<1>9. DOMAIN offered = 1 .. m
  BY <1>6
<1>10. offered \in Seq(Seq(Eligible(in)))
  <2>1. offered \in [1 .. m -> Seq(Eligible(in))]
    BY <1>6, <1>8
  <2>2. QED
    BY <2>1
<1>11. QED
  BY <1>1, <1>5, <1>7, <1>8, <1>9, <1>10

-----------------------------------------------------------------------------
(* What the cards of a session record. *)

LEMMA CardIds ==
    ASSUME NEW card \in Card, card # <<>>
    PROVE  /\ Elements(card) \subseteq CompletionIds(card) /\ CompletionIds(card) # {}
           /\ Elements(card) \subseteq Task \cup StepId
           /\ CompletionIds(card) \subseteq Task \cup StepId
           /\ \A id \in CompletionIds(card) :
                id \in Elements(card) \/ \E t \in Elements(card) \cap Task : id \in Info[t].includes
<1>1. PICK n \in Nat \ {0} : n = Len(card) /\ DOMAIN card = 1 .. n /\ card \in [1 .. n -> Task \cup StepId]
  BY DEF Card
<1>2. card[1] \in Elements(card)
  BY <1>1 DEF Elements
<1>3. Elements(card) \subseteq Task \cup StepId
  BY <1>1 DEF Elements
<1>4. CASE n = 1 /\ card[1] \in Task
  <2>1. CompletionIds(card) = {card[1]} \cup Info[card[1]].includes
    BY <1>1, <1>4 DEF CompletionIds
  <2>2. Elements(card) = {card[1]}
    BY <1>1, <1>4 DEF Elements
  <2>3. Info[card[1]].includes \subseteq Task
    BY <1>4, PlanningAssumption
  <2>4. QED
    BY <1>3, <1>4, <2>1, <2>2, <2>3
<1>5. CASE ~(n = 1 /\ card[1] \in Task)
  <2>1. CompletionIds(card) = Elements(card)
    BY <1>1, <1>5 DEF CompletionIds
  <2>2. QED
    BY <1>2, <1>3, <2>1
<1>6. QED
  BY <1>4, <1>5

(* Eligible tasks do not cover each other, nor do their parts meet.        *)
LEMMA EligibleApart ==
    ASSUME NEW in, NEW t \in Eligible(in), NEW u \in Eligible(in)
    PROVE  /\ t \in Task /\ t \notin Covers(u)
           /\ t # u => Info[t].includes \cap Info[u].includes = {}
<1>1. ASSUME NEW s \in Eligible(in), NEW r \in Eligible(in) PROVE s \in Task /\ s \notin Covers(r)
  BY <1>1 DEF Eligible, Superseded, Candidates
<1>2. t \in Task /\ u \in Task /\ t \notin Covers(u) /\ u \notin Covers(t)
  BY <1>1
<1>3. QED
  BY <1>2, BankAssumption DEF Covers

LEMMA CardsApart ==
    ASSUME NEW in, NEW c \in Card, NEW d \in Card, c # <<>>, d # <<>>,
           Elements(c) \subseteq Eligible(in), Elements(d) \subseteq Eligible(in),
           Elements(c) \cap Elements(d) = {}
    PROVE  CompletionIds(c) \cap CompletionIds(d) = {}
<1> SUFFICES ASSUME NEW id \in CompletionIds(c), id \in CompletionIds(d) PROVE FALSE
  OBVIOUS
<1>1. PICK t \in Elements(c) : id = t \/ id \in Info[t].includes
  BY CardIds
<1>2. PICK u \in Elements(d) : id = u \/ id \in Info[u].includes
  BY CardIds
<1>3. t \in Eligible(in) /\ u \in Eligible(in) /\ t # u
  BY <1>1, <1>2
<1>4. t \notin Covers(u) /\ u \notin Covers(t) /\ Info[t].includes \cap Info[u].includes = {}
  BY <1>3, EligibleApart
<1>5. QED
  BY <1>1, <1>2, <1>3, <1>4 DEF Covers

(* The cards of a session, p, and those that may still be offered, b.      *)
Deck(p, b) ==
    /\ p \in Seq(Card) /\ b \in Seq(Card)
    /\ \A card \in Elements(p) \cup Elements(b) : card # <<>>
    /\ Separate(p) /\ Separate(b)
    /\ \A c \in Elements(p), d \in Elements(b) : CompletionIds(c) \cap CompletionIds(d) = {}

(* All of them are made of these tasks. *)
MadeOf(p, b, tasks) == \A card \in Elements(p) \cup Elements(b) : Elements(card) \subseteq tasks

LEMMA PlannedDeck ==
    ASSUME NEW in
    PROVE  LET plan == BuildPlan(in)
               p == DisplayPlan(plan.cards)
               b == BonusCards(in, plan)
           IN Deck(p, b) /\ MadeOf(p, b, Eligible(in))
<1>1. PICK plan : plan = BuildPlan(in)
  OBVIOUS
<1>2. PICK cards, S : cards = plan.cards /\ cards \in Seq(S)
  BY <1>1, PlanCards
<1>3. /\ \A j \in DOMAIN cards : cards[j].task \in Eligible(in)
      /\ \A i, j \in DOMAIN cards : cards[i].task = cards[j].task => i = j
  BY <1>1, <1>2, PlanCards
<1>4. PICK p : p = DisplayPlan(cards)
  OBVIOUS
<1>5. PICK b : b = BonusCards(in, plan)
  OBVIOUS
<1>6. /\ p \in Seq(Seq(Eligible(in)))
      /\ \A n \in DOMAIN p :
            p[n] # <<>> /\ Elements(p[n]) \subseteq {cards[j].task : j \in DOMAIN cards}
      /\ \A m, n \in DOMAIN p : m # n => Elements(p[m]) \cap Elements(p[n]) = {}
  BY <1>2, <1>3, <1>4, DisplayedCards
<1>7. /\ b \in Seq(Seq(Eligible(in)))
      /\ \A n \in DOMAIN b :
           /\ b[n] # <<>> /\ Elements(b[n]) \subseteq Eligible(in)
           /\ Elements(b[n]) \cap AssignedTasks(plan) = {}
      /\ \A m, n \in DOMAIN b : m # n => Elements(b[m]) \cap Elements(b[n]) = {}
  BY <1>5, OfferedCards
<1>8. {cards[j].task : j \in DOMAIN cards} = AssignedTasks(plan)
  BY <1>2 DEF AssignedTasks
<1>9. Seq(Eligible(in)) \subseteq Card
  <2>1. Eligible(in) \subseteq Task \cup StepId
    BY EligibleScored
  <2>2. QED
    BY <2>1 DEF Card
<1>10. p \in Seq(Card) /\ b \in Seq(Card)
  BY <1>6, <1>7, <1>9
<1>11. \A n \in DOMAIN p : p[n] \in Card /\ p[n] # <<>> /\ Elements(p[n]) \subseteq Eligible(in)
  BY <1>3, <1>6, <1>10
<1>12. \A n \in DOMAIN b : b[n] \in Card /\ b[n] # <<>> /\ Elements(b[n]) \subseteq Eligible(in)
  BY <1>7, <1>10
<1>13. Separate(p)
  BY <1>6, <1>11, CardsApart DEF Separate
<1>14. Separate(b)
  BY <1>7, <1>12, CardsApart DEF Separate
<1>15. \A m \in DOMAIN p, n \in DOMAIN b : CompletionIds(p[m]) \cap CompletionIds(b[n]) = {}
  <2>1. \A m \in DOMAIN p, n \in DOMAIN b : Elements(p[m]) \cap Elements(b[n]) = {}
    BY <1>6, <1>7, <1>8
  <2>2. QED
    BY <1>11, <1>12, <2>1, CardsApart
<1>16. \A n \in DOMAIN p : p[n] \in Elements(p)
  BY DEF Elements
<1>17. Deck(p, b)
  BY <1>10, <1>11, <1>12, <1>13, <1>14, <1>15 DEF Deck, Elements
<1>18. MadeOf(p, b, Eligible(in))
  <2>1. \A card \in Elements(p) : \E n \in DOMAIN p : card = p[n]
    BY DEF Elements
  <2>2. \A card \in Elements(b) : \E n \in DOMAIN b : card = b[n]
    BY DEF Elements
  <2>3. QED
    BY <1>11, <1>12, <2>1, <2>2 DEF MadeOf
<1>19. QED
  BY <1>1, <1>2, <1>4, <1>5, <1>17, <1>18
-----------------------------------------------------------------------------
(* Lists without repetition. *)

LEMMA CountedOnce ==
    ASSUME NEW S, NEW s \in Seq(S), NoRepetition(s)
    PROVE  IsFiniteSet(Elements(s)) /\ Cardinality(Elements(s)) = Len(s) /\ Len(s) \in Nat
<1>1. PICK len \in Nat : len = Len(s) /\ DOMAIN s = 1 .. len
  OBVIOUS
<1>2. PICK E : E = Elements(s)
  OBVIOUS
<1>3. IsFiniteSet(1 .. len) /\ Cardinality(1 .. len) = len
  <2>1. PICK one \in Int : one = 1
    OBVIOUS
  <2>2. len \in Int
    OBVIOUS
  <2>3. IsFiniteSet(one .. len) /\ Cardinality(one .. len) = IF one > len THEN 0 ELSE len - one + 1
    BY <2>2, FS_Interval
  <2>4. QED
    BY <2>1, <2>3
<1>4. s \in [1 .. len -> E]
  BY <1>1, <1>2 DEF Elements
<1>5. s \in Injection(1 .. len, E)
  BY <1>1, <1>4 DEF NoRepetition, Injection, IsInjective
<1>6. \A e \in E : \E k \in 1 .. len : s[k] = e
  BY <1>1, <1>2 DEF Elements
<1>7. ExistsBijection(1 .. len, E)
  BY <1>4, <1>5, <1>6 DEF ExistsBijection, Bijection, Surjection
<1>8. QED
  BY <1>1, <1>2, <1>3, <1>7, FS_Bijection

(* Some of a list's members, each once, are all of them when they are as   *)
(* many, and otherwise one is missing.                                     *)
LEMMA AllOrSome ==
    ASSUME NEW S, NEW s \in Seq(S), NEW u \in Seq(S), NoRepetition(s), NoRepetition(u),
           Elements(u) \subseteq Elements(s)
    PROVE  /\ Len(u) >= Len(s) => Elements(s) \subseteq Elements(u)
           /\ ~(Len(u) >= Len(s)) => Elements(s) \ Elements(u) # {}
<1>1. /\ IsFiniteSet(Elements(s)) /\ Cardinality(Elements(s)) = Len(s) /\ Len(s) \in Nat
      /\ Cardinality(Elements(u)) = Len(u) /\ Len(u) \in Nat
  BY CountedOnce
<1>2. /\ Cardinality(Elements(u)) <= Cardinality(Elements(s))
      /\ Cardinality(Elements(s)) = Cardinality(Elements(u)) => Elements(s) = Elements(u)
  BY <1>1, FS_Subset
<1>3. ASSUME Elements(s) \subseteq Elements(u) PROVE Len(u) >= Len(s)
  <2>1. Elements(s) = Elements(u)
    BY <1>3
  <2>2. QED
    BY <1>1, <2>1
<1>4. QED
  BY <1>1, <1>2, <1>3

LEMMA OneMore ==
    ASSUME NEW S, NEW s \in Seq(S), NEW e \in S
    PROVE  /\ Append(s, e) \in Seq(S) /\ Len(Append(s, e)) = Len(s) + 1
           /\ DOMAIN Append(s, e) = 1 .. Len(s) + 1
           /\ \A k \in 1 .. Len(s) : Append(s, e)[k] = s[k]
           /\ Append(s, e)[Len(s) + 1] = e
           /\ Elements(Append(s, e)) = Elements(s) \cup {e}
           /\ e \notin Elements(s) /\ NoRepetition(s) => NoRepetition(Append(s, e))
<1>1. PICK len \in Nat : len = Len(s) /\ DOMAIN s = 1 .. len
  OBVIOUS
<1>2. PICK u : u = Append(s, e)
  OBVIOUS
<1>3. /\ u \in Seq(S) /\ Len(u) = len + 1 /\ DOMAIN u = 1 .. len + 1
      /\ \A k \in 1 .. len : u[k] = s[k]
      /\ u[len + 1] = e
  BY <1>1, <1>2
<1>4. Elements(s) = {s[k] : k \in 1 .. len}
  BY <1>1 DEF Elements
<1>5. Elements(u) = Elements(s) \cup {e}
  <2>1. \A k \in 1 .. len + 1 : k \in 1 .. len \/ k = len + 1
    OBVIOUS
  <2>2. \A k \in 1 .. len : k \in 1 .. len + 1
    OBVIOUS
  <2>3. len + 1 \in 1 .. len + 1
    OBVIOUS
  <2>4. Elements(u) = {u[k] : k \in 1 .. len + 1}
    BY <1>3 DEF Elements
  <2>5. \A k \in 1 .. len + 1 : u[k] \in Elements(s) \cup {e}
    BY <1>3, <1>4, <2>1
  <2>6. \A k \in 1 .. len : s[k] \in Elements(u)
    BY <1>3, <2>2, <2>4
  <2>7. e \in Elements(u)
    BY <1>3, <2>3, <2>4
  <2>8. QED
    BY <1>4, <2>4, <2>5, <2>6, <2>7
<1>6. ASSUME e \notin Elements(s), NoRepetition(s) PROVE NoRepetition(u)
  <2>1. \A k \in 1 .. len : s[k] # e
    BY <1>4, <1>6
  <2>2. SUFFICES ASSUME NEW j \in 1 .. len + 1, NEW k \in 1 .. len + 1, u[j] = u[k] PROVE j = k
    BY <1>3 DEF NoRepetition
  <2>3. \A i \in 1 .. len + 1 : i \in 1 .. len \/ i = len + 1
    OBVIOUS
  <2>4. CASE j = len + 1 \/ k = len + 1
    BY <1>3, <2>1, <2>2, <2>3, <2>4
  <2>5. CASE j \in 1 .. len /\ k \in 1 .. len
    <3>1. s[j] = s[k]
      BY <1>3, <2>2, <2>5
    <3>2. QED
      BY <1>1, <1>6, <2>5, <3>1 DEF NoRepetition
  <2>6. QED
    BY <2>3, <2>4, <2>5
<1>7. QED
  BY <1>1, <1>2, <1>3, <1>5, <1>6

(* What is taken out of a list leaves it without repetition. *)
LEMMA PickedOnce ==
    ASSUME NEW S, NEW s \in Seq(S), NoRepetition(s), NEW places \in SUBSET DOMAIN s
    PROVE  Picked(s, places) \in Seq(S) /\ NoRepetition(Picked(s, places))
<1>1. PICK len \in Nat : DOMAIN s = 1 .. len
  OBVIOUS
<1>2. places \in SUBSET (1 .. len)
  BY <1>1
<1>3. PICK f : /\ Lists(f, places)
               /\ Picked(s, places) = [n \in 1 .. Cardinality(places) |-> s[f[n]]]
  BY <1>2, PickedLists DEF Picks
<1>4. PICK m \in Nat : m = Cardinality(places)
  BY <1>3 DEF Lists
<1>5. \A n \in 1 .. m : f[n] \in DOMAIN s
  BY <1>3, <1>4 DEF Lists
<1>6. \A n \in 1 .. m : s[f[n]] \in S
  BY <1>5
<1>7. Picked(s, places) \in Seq(S)
  <2>1. \A k \in places : s[k] \in S
    OBVIOUS
  <2>2. QED
    BY <1>2, <2>1, PickedElements
<1>8. PICK p : p = Picked(s, places)
  OBVIOUS
<1>9. DOMAIN p = 1 .. m /\ \A n \in 1 .. m : p[n] = s[f[n]]
  BY <1>3, <1>4, <1>8
<1>10. \A i, j \in 1 .. m : f[i] = f[j] => i = j
  BY <1>3, <1>4 DEF Lists
<1>11. NoRepetition(p)
  <2>1. \A j, k \in DOMAIN s : s[j] = s[k] => j = k
    BY DEF NoRepetition
  <2>2. SUFFICES ASSUME NEW i \in 1 .. m, NEW j \in 1 .. m, p[i] = p[j] PROVE i = j
    BY <1>9 DEF NoRepetition
  <2>3. s[f[i]] = s[f[j]]
    BY <1>9, <2>2
  <2>4. f[i] = f[j]
    BY <1>5, <2>1, <2>3
  <2>5. QED
    BY <1>10, <2>4
<1>12. QED
  BY <1>7, <1>8, <1>11

-----------------------------------------------------------------------------
(* Decks. *)

LEMMA DeckOnce ==
    ASSUME NEW p, NEW b, Deck(p, b)
    PROVE  /\ NoRepetition(p) /\ p \in Seq(Card) /\ b \in Seq(Card)
           /\ \A c \in Elements(p) : c \in Card /\ CompletionIds(c) # {}
           /\ \A c, d \in Elements(p) : c # d => CompletionIds(c) \cap CompletionIds(d) = {}
           /\ \A c \in Elements(b) : c \in Card /\ c \notin Elements(p)
<1>1. p \in Seq(Card) /\ b \in Seq(Card)
  BY DEF Deck
<1>2. \A c \in Elements(p) : \E k \in DOMAIN p : c = p[k]
  BY DEF Elements
<1>3. \A c \in Elements(b) : \E k \in DOMAIN b : c = b[k]
  BY DEF Elements
<1>4. \A c \in Elements(p) \cup Elements(b) : c \in Card
  BY <1>1, <1>2, <1>3
<1>5. \A c \in Elements(p) \cup Elements(b) : c # <<>>
  BY DEF Deck
<1>6. \A c \in Elements(p) \cup Elements(b) : CompletionIds(c) # {}
  BY <1>4, <1>5, CardIds
<1>7. \A j, k \in DOMAIN p : j # k => CompletionIds(p[j]) \cap CompletionIds(p[k]) = {}
  BY DEF Deck, Separate
<1>8. NoRepetition(p)
  <2>1. \A k \in DOMAIN p : p[k] \in Elements(p)
    BY DEF Elements
  <2>2. QED
    BY <1>6, <1>7, <2>1 DEF NoRepetition
<1>9. \A c, d \in Elements(p) : c # d => CompletionIds(c) \cap CompletionIds(d) = {}
  BY <1>2, <1>7
<1>10. \A c \in Elements(b) : c \notin Elements(p)
  <2>1. \A c \in Elements(p), d \in Elements(b) : CompletionIds(c) \cap CompletionIds(d) = {}
    BY DEF Deck
  <2>2. QED
    BY <1>6, <2>1
<1>11. QED
  BY <1>1, <1>4, <1>6, <1>8, <1>9, <1>10

LEMMA DeckSeparate ==
    ASSUME NEW p, NEW b, Deck(p, b)
    PROVE  Separate(p \o b)
<1>1. PICK m \in Nat : m = Len(p) /\ DOMAIN p = 1 .. m
  BY DEF Deck
<1>2. PICK n \in Nat : n = Len(b) /\ DOMAIN b = 1 .. n
  BY DEF Deck
<1>3. PICK q : q = p \o b
  OBVIOUS
<1>4. /\ DOMAIN q = 1 .. m + n
      /\ \A k \in 1 .. m : q[k] = p[k]
      /\ \A k \in 1 .. m + n : k \notin 1 .. m => k - m \in 1 .. n /\ q[k] = b[k - m]
  <2>1. p \in Seq(Card) /\ b \in Seq(Card)
    BY DEF Deck
  <2>2. QED
    BY <1>1, <1>2, <1>3, <2>1
<1>5. /\ \A j, k \in 1 .. m : j # k => CompletionIds(p[j]) \cap CompletionIds(p[k]) = {}
      /\ \A j, k \in 1 .. n : j # k => CompletionIds(b[j]) \cap CompletionIds(b[k]) = {}
  BY <1>1, <1>2 DEF Deck, Separate
<1>6. \A j \in 1 .. m, k \in 1 .. n : CompletionIds(p[j]) \cap CompletionIds(b[k]) = {}
  <2>1. \A j \in 1 .. m : p[j] \in Elements(p)
    BY <1>1 DEF Elements
  <2>2. \A k \in 1 .. n : b[k] \in Elements(b)
    BY <1>2 DEF Elements
  <2>3. QED
    BY <2>1, <2>2 DEF Deck
<1>7. ASSUME NEW j \in 1 .. m + n, NEW k \in 1 .. m + n, j # k
      PROVE  CompletionIds(q[j]) \cap CompletionIds(q[k]) = {}
  <2>1. CASE j \in 1 .. m /\ k \in 1 .. m
    BY <1>4, <1>5, <1>7, <2>1
  <2>2. CASE j \in 1 .. m /\ k \notin 1 .. m
    BY <1>4, <1>6, <2>2
  <2>3. CASE j \notin 1 .. m /\ k \in 1 .. m
    BY <1>4, <1>6, <2>3
  <2>4. CASE j \notin 1 .. m /\ k \notin 1 .. m
    <3>1. j - m # k - m
      BY <1>7
    <3>2. QED
      BY <1>4, <1>5, <2>4, <3>1
  <2>5. QED
    BY <2>1, <2>2, <2>3, <2>4
<1>8. QED
  BY <1>3, <1>4, <1>7 DEF Separate

(* One more of the cards that may be offered is asked for. *)
LEMMA DeckDealt ==
    ASSUME NEW p, NEW b, Deck(p, b), b # <<>>
    PROVE  LET q == p \o SubSeq(b, 1, 1)
               r == SubSeq(b, 2, Len(b))
           IN /\ Deck(q, r) /\ q = Append(p, b[1])
              /\ b[1] \in Elements(b) /\ Elements(r) \subseteq Elements(b)
<1>1. p \in Seq(Card) /\ b \in Seq(Card)
  BY DEF Deck
<1>2. PICK n \in Nat \ {0} : n = Len(b) /\ DOMAIN b = 1 .. n
  BY <1>1
<1>3. PICK first \in Card : first = b[1]
  BY <1>1, <1>2
<1>4. PICK r : r = SubSeq(b, 2, n)
  OBVIOUS
<1>5. PICK q : q = Append(p, first)
  OBVIOUS
<1>6. p \o SubSeq(b, 1, 1) = q
  <2>1. PICK one : one = SubSeq(b, 1, 1)
    OBVIOUS
  <2>2. one \in Seq(Card) /\ Len(one) = 1 /\ one[1] = first
    BY <1>1, <1>2, <1>3, <2>1
  <2>3. one = <<first>>
    BY <1>3, <2>2
  <2>4. p \o <<first>> = Append(p, first)
    BY <1>1
  <2>5. QED
    BY <1>5, <2>1, <2>3, <2>4
<1>7. /\ r \in Seq(Card) /\ DOMAIN r = 1 .. n - 1
      /\ \A k \in 1 .. n - 1 : k + 1 \in 1 .. n /\ r[k] = b[k + 1]
  BY <1>1, <1>2, <1>4
<1>8. /\ q \in Seq(Card) /\ Elements(q) = Elements(p) \cup {first}
      /\ DOMAIN q = 1 .. Len(p) + 1 /\ q[Len(p) + 1] = first
      /\ \A k \in 1 .. Len(p) : q[k] = p[k]
  BY <1>1, <1>5, OneMore
<1>9. first \in Elements(b)
  BY <1>2, <1>3 DEF Elements
<1>10. Elements(r) \subseteq Elements(b)
  BY <1>2, <1>7 DEF Elements
<1>11. \A j, k \in 1 .. n : j # k => CompletionIds(b[j]) \cap CompletionIds(b[k]) = {}
  BY <1>2 DEF Deck, Separate
<1>12. Separate(r)
  <2>1. SUFFICES ASSUME NEW j \in 1 .. n - 1, NEW k \in 1 .. n - 1, j # k
                 PROVE  CompletionIds(r[j]) \cap CompletionIds(r[k]) = {}
    BY <1>7 DEF Separate
  <2>2. j + 1 # k + 1
    BY <2>1
  <2>3. QED
    BY <1>7, <1>11, <2>2
<1>13. \A c \in Elements(p), d \in Elements(b) : CompletionIds(c) \cap CompletionIds(d) = {}
  BY DEF Deck
<1>14. Separate(q)
  <2>1. SUFFICES ASSUME NEW j \in 1 .. Len(p) + 1, NEW k \in 1 .. Len(p) + 1, j # k
                 PROVE  CompletionIds(q[j]) \cap CompletionIds(q[k]) = {}
    BY <1>8 DEF Separate
  <2>2. PICK len \in Nat : len = Len(p) /\ DOMAIN p = 1 .. len
    BY <1>1
  <2>3. \A i \in 1 .. len : q[i] = p[i] /\ p[i] \in Elements(p)
    BY <1>8, <2>2 DEF Elements
  <2>4. \A i \in 1 .. len + 1 : i \in 1 .. len \/ i = len + 1
    OBVIOUS
  <2>5. CASE j \in 1 .. len /\ k \in 1 .. len
    <3>1. CompletionIds(p[j]) \cap CompletionIds(p[k]) = {}
      BY <2>1, <2>2, <2>5 DEF Deck, Separate
    <3>2. QED
      BY <2>3, <2>5, <3>1
  <2>6. CASE j = len + 1 /\ k \in 1 .. len
    <3>1. CompletionIds(p[k]) \cap CompletionIds(first) = {}
      BY <1>9, <1>13, <2>3, <2>6
    <3>2. QED
      BY <1>8, <2>2, <2>3, <2>6, <3>1
  <2>7. CASE j \in 1 .. len /\ k = len + 1
    <3>1. CompletionIds(p[j]) \cap CompletionIds(first) = {}
      BY <1>9, <1>13, <2>3, <2>7
    <3>2. QED
      BY <1>8, <2>2, <2>3, <2>7, <3>1
  <2>8. QED
    BY <2>1, <2>2, <2>4, <2>5, <2>6, <2>7
<1>15. \A d \in Elements(r) : CompletionIds(first) \cap CompletionIds(d) = {}
  <2>1. SUFFICES ASSUME NEW k \in 1 .. n - 1 PROVE CompletionIds(first) \cap CompletionIds(r[k]) = {}
    BY <1>7 DEF Elements
  <2>2. k + 1 # 1 /\ 1 \in 1 .. n
    OBVIOUS
  <2>3. QED
    BY <1>3, <1>7, <1>11, <2>2
<1>16. \A c \in Elements(q), d \in Elements(r) : CompletionIds(c) \cap CompletionIds(d) = {}
  BY <1>8, <1>10, <1>13, <1>15
<1>17. \A card \in Elements(q) \cup Elements(r) : card # <<>>
  BY <1>8, <1>9, <1>10 DEF Deck
<1>18. Deck(q, r)
  BY <1>7, <1>8, <1>12, <1>14, <1>16, <1>17 DEF Deck
<1>19. QED
  BY <1>2, <1>3, <1>4, <1>5, <1>6, <1>9, <1>10, <1>18

(* The other decks a page begins with: none, one step, or a protocol.      *)
LEMMA NoElements == Elements(<<>>) = {} /\ NoRepetition(<<>>) /\ <<>> \in Seq(Card)
  BY DEF Elements, NoRepetition

LEMMA NoDeck == Deck(<<>>, <<>>)
  BY NoElements DEF Deck, Separate

LEMMA ProtocolDeck ==
    ASSUME NEW i \in Incident
    PROVE  Deck(Steps[i], <<>>)
<1>1. PICK p : p = Steps[i]
  OBVIOUS
<1>2. p \in Seq(Card) /\ Separate(p) /\ \A k \in DOMAIN p : p[k] # <<>>
  BY <1>1, ProtocolAssumption
<1>3. \A c \in Elements(p) : c # <<>>
  BY <1>2 DEF Elements
<1>4. Deck(p, <<>>)
  BY <1>2, <1>3, NoElements DEF Deck, Separate
<1>5. QED
  BY <1>1, <1>4

LEMMA SingleDeck ==
    ASSUME NEW t \in Task
    PROVE  Deck(<< <<t>> >>, <<>>) /\ << <<t>> >> # <<>>
<1>1. PICK card : card = <<t>>
  OBVIOUS
<1>2. card \in Card /\ card # <<>>
  BY <1>1 DEF Card
<1>3. <<card>> \in Seq(Card) /\ DOMAIN <<card>> = {1} /\ <<card>>[1] = card /\ <<card>> # <<>>
  BY <1>2
<1>4. Elements(<<card>>) = {card} /\ Separate(<<card>>)
  BY <1>3 DEF Elements, Separate
<1>5. Deck(<<card>>, <<>>)
  BY <1>2, <1>3, <1>4, NoElements DEF Deck, Separate
<1>6. QED
  BY <1>1, <1>3, <1>5

-----------------------------------------------------------------------------
(* The inductive invariant. *)

(* How far the session is: what is finished was asked for and is finished  *)
(* once, and the screens tell whether anything is left.                    *)
Progress ==
    /\ Elements(completed) \subseteq Elements(planned) /\ NoRepetition(completed)
    /\ screen = "session" => Elements(planned) \ Elements(completed) # {}
    /\ screen \in {"bonus", "done"} => Elements(planned) \subseteq Elements(completed)
    /\ screen = "bonus" => bonus # <<>>

(* Only an ordinary session is set up, for a mode the planner knows.       *)
Ordinary ==
    /\ kind = "ordinary" => choices.mode \in Mode
    /\ screen \in {"setup", "rest"} => kind = "ordinary"

(* What is finished is in the history, unless it is too old for it. *)
Recorded ==
    now - started <= Retention =>
        \A card \in Elements(completed) : \A id \in CompletionIds(card) :
            \E c \in history : c.task = id /\ c.at >= started

Asked == UNION {Elements(card) : card \in Elements(planned) \cup Elements(bonus)}

(* The tasks of an ordinary session do not cover each other, and what      *)
(* makes one of them too early was finished in the session.                *)
Rested ==
    kind = "ordinary" /\ ~repeated /\ screen \in {"session", "bonus"} =>
        /\ Asked \subseteq Task
        /\ \A t, u \in Asked : t \notin Covers(u)
        /\ \A t \in Asked, c \in history :
             SameActivity(c, t) /\ now - c.at < Info[c.task].cooldown =>
                 /\ c.at >= started
                 /\ \E card \in Elements(completed) : c.task \in CompletionIds(card)

HInv ==
    /\ TypeOK /\ Deck(planned, bonus) /\ Progress /\ BonusCounted
    /\ Ordinary /\ Recorded /\ Rested

-----------------------------------------------------------------------------
(* What several actions have in common. *)

LEMMA NothingFinished ==
    ASSUME completed' = <<>>, bonusCompleted' = 0
    PROVE  /\ BonusCounted' /\ Recorded'
           /\ Elements(completed)' = {} /\ NoRepetition(completed)'
<1>1. Elements(completed)' = {} /\ NoRepetition(completed)'
  BY NoElements
<1>2. {k \in DOMAIN planned : k > base /\ planned[k] \in Elements(completed)}' = {}
  BY <1>1
<1>3. BonusCounted'
  BY <1>2, FS_EmptySet DEF BonusCounted
<1>4. Recorded'
  BY <1>1 DEF Recorded
<1>5. QED
  BY <1>1, <1>3, <1>4

(* A handler that leaves the cards, the history and the session alone.     *)
LEMMA SameWork ==
    ASSUME HInv, UNCHANGED <<deck, history, started, now>>, TypeOK', Ordinary',
           \/ screen' \in {"home", "setup", "incident-choice", "rest"}
           \/ screen' = screen /\ UNCHANGED <<kind, repeated>>
           \/ screen = "bonus" /\ screen' = "done"
    PROVE  HInv'
<1>1. Deck(planned, bonus)' /\ BonusCounted' /\ Recorded'
  BY DEF HInv, deck, Deck, BonusCounted, Recorded
<1>2. Progress'
  BY DEF HInv, deck, Progress
<1>3. Rested'
  <2>1. UNCHANGED <<Asked, Elements(completed)>>
    BY DEF deck, Asked
  <2>2. QED
    BY <2>1 DEF HInv, Rested
<1>4. QED
  BY <1>1, <1>2, <1>3 DEF HInv

LEMMA InitHInv == Init => HInv
<1> SUFFICES ASSUME Init PROVE HInv
  OBVIOUS
<1>1. TypeOK
  <2>1. choices \in Choices /\ NoRepetition(choices.people)
    BY HomeSessionAssumption DEF Init
  <2>2. planned \in Seq(Card) /\ bonus \in Seq(Card) /\ completed \in Seq(Card)
    BY NoElements DEF Init
  <2>3. rendered \in 0 .. now /\ started \in 0 .. now /\ now \in Nat
    BY DEF Init
  <2>4. QED
    BY <2>1, <2>2, <2>3 DEF Init, TypeOK, Screen
<1>2. Deck(planned, bonus)
  BY NoDeck DEF Init
<1>3. Elements(completed) = {} /\ NoRepetition(completed)
  BY NoElements DEF Init
<1>4. Progress /\ Recorded /\ Rested
  BY <1>3 DEF Init, Progress, Recorded, Rested
<1>5. BonusCounted
  <2>1. {k \in DOMAIN planned : k > base /\ planned[k] \in Elements(completed)} = {}
    BY <1>3
  <2>2. QED
    BY <2>1, FS_EmptySet DEF Init, BonusCounted
<1>6. Ordinary
  BY HomeSessionAssumption DEF Init, Ordinary
<1>7. QED
  BY <1>1, <1>2, <1>4, <1>5, <1>6 DEF HInv

-----------------------------------------------------------------------------
(* The steps that only choose or show. *)

LEMMA TickHInv == HInv /\ Tick => HInv'
<1> SUFFICES ASSUME HInv, Tick PROVE HInv'
  OBVIOUS
<1>1. /\ now \in Nat /\ rendered \in 0 .. now /\ started \in 0 .. now /\ now' = now + 1
      /\ UNCHANGED <<screen, choices, pass, history, schedule, rendered>>
  BY DEF HInv, TypeOK, Tick
<1>2. /\ UNCHANGED <<screen, choices, planned, bonus, base, bonusCompleted, completed>>
      /\ UNCHANGED <<timeLeft, kind, started, repeated, starts, history, schedule, rendered>>
  BY <1>1 DEF pass, deck
<1>3. TypeOK'
  <2>1. now' \in Nat /\ rendered' \in 0 .. now' /\ started' \in 0 .. now'
    BY <1>1, <1>2
  <2>2. QED
    BY <1>2, <2>1 DEF HInv, TypeOK
<1>4. Deck(planned, bonus)' /\ Progress' /\ BonusCounted' /\ Ordinary'
  BY <1>2 DEF HInv, Deck, Progress, BonusCounted, Ordinary
<1>5. Recorded'
  <2>1. now' - started' <= Retention => now - started <= Retention
    BY <1>1, <1>2, HomeSessionAssumption
  <2>2. QED
    BY <1>2, <2>1 DEF HInv, Recorded
<1>6. Rested'
  <2>1. UNCHANGED <<Asked, Elements(completed)>>
    BY <1>2 DEF Asked
  <2>2. ASSUME NEW c \in history, c.task \in Task, now' - c.at < Info[c.task].cooldown
        PROVE  now - c.at < Info[c.task].cooldown
    <3>1. c.at \in Nat
      BY DEF HInv, TypeOK, Completion
    <3>2. Info[c.task].cooldown \in Nat
      BY <2>2, PlanningAssumption
    <3>3. QED
      BY <1>1, <2>2, <3>1, <3>2
  <2>3. \A t, c : SameActivity(c, t) => c.task \in Task
    BY DEF SameActivity
  <2>4. QED
    BY <1>2, <2>1, <2>2, <2>3 DEF HInv, Rested
<1>7. QED
  BY <1>3, <1>4, <1>5, <1>6 DEF HInv

LEMMA TimerTickHInv == HInv /\ TimerTick => HInv'
<1> SUFFICES ASSUME HInv, TimerTick PROVE HInv'
  OBVIOUS
<1>1. /\ timeLeft' \in BOOLEAN /\ rendered' = now
      /\ UNCHANGED <<screen, choices, deck, kind, started, repeated, starts, history, schedule, now>>
  BY DEF TimerTick, Rendered
<1>2. UNCHANGED <<planned, bonus, base, bonusCompleted, completed>>
  BY <1>1 DEF deck
<1>3. TypeOK'
  <2>1. rendered' \in 0 .. now'
    BY <1>1 DEF HInv, TypeOK
  <2>2. QED
    BY <1>1, <1>2, <2>1 DEF HInv, TypeOK
<1>4. Ordinary'
  BY <1>1 DEF HInv, Ordinary
<1>5. QED
  BY <1>1, <1>3, <1>4, SameWork

LEMMA OpenHomeHInv == HInv /\ OpenHome => HInv'
<1> SUFFICES ASSUME HInv, OpenHome PROVE HInv'
  OBVIOUS
<1>1. /\ screen' = "home" /\ choices' = FirstChoices
      /\ planned' = <<>> /\ bonus' = <<>> /\ base' = 0
      /\ bonusCompleted' = 0 /\ completed' = <<>>
      /\ timeLeft' = FALSE /\ kind' = "ordinary"
      /\ history' \subseteq history
      /\ rendered' = now
      /\ UNCHANGED <<started, repeated, starts, schedule, now>>
  BY DEF OpenHome, Rendered
<1>2. TypeOK'
  <2>1. rendered' \in 0 .. now'
    BY <1>1 DEF HInv, TypeOK
  <2>2. history' \subseteq Completion
    BY <1>1 DEF HInv, TypeOK
  <2>3. choices' \in Choices /\ NoRepetition(choices'.people)
    BY <1>1, HomeSessionAssumption
  <2>4. QED
    BY <1>1, <2>1, <2>2, <2>3, NoElements DEF HInv, TypeOK, Screen
<1>3. Deck(planned, bonus)'
  BY <1>1, NoDeck
<1>4. BonusCounted' /\ Recorded' /\ Elements(completed)' = {} /\ NoRepetition(completed)'
  BY <1>1, NothingFinished
<1>5. Progress' /\ Rested'
  BY <1>1, <1>4 DEF Progress, Rested
<1>6. Ordinary'
  BY <1>1, HomeSessionAssumption DEF Ordinary
<1>7. QED
  BY <1>2, <1>3, <1>4, <1>5, <1>6 DEF HInv

LEMMA GoToHInv ==
    ASSUME HInv, NEW name \in Screen, GoTo(name), Ordinary',
           \/ name \in {"home", "setup", "incident-choice"}
           \/ screen = "bonus" /\ name = "done"
    PROVE  HInv'
<1>1. screen' = name /\ rendered' = now /\ UNCHANGED <<choices, pass, history, schedule, now>>
  BY DEF GoTo, Rendered
<1>2. /\ UNCHANGED <<choices, deck, history, schedule, now>>
      /\ UNCHANGED <<timeLeft, kind, started, repeated, starts>>
      /\ UNCHANGED <<planned, bonus, base, bonusCompleted, completed>>
  BY <1>1 DEF pass, deck
<1>3. TypeOK'
  <2>1. rendered' \in 0 .. now'
    BY <1>1 DEF HInv, TypeOK
  <2>2. screen' \in Screen
    BY <1>1
  <2>3. QED
    BY <1>2, <2>1, <2>2 DEF HInv, TypeOK
<1>4. QED
  BY <1>1, <1>2, <1>3, SameWork

LEMMA ButtonsHInv == HInv /\ (ChooseIncident \/ GoHome \/ GoBack \/ SkipBonus) => HInv'
<1> SUFFICES ASSUME HInv, ChooseIncident \/ GoHome \/ GoBack \/ SkipBonus PROVE HInv'
  OBVIOUS
<1>1. ASSUME NEW name, GoTo(name) PROVE screen' = name /\ UNCHANGED <<choices, kind>>
  BY <1>1 DEF GoTo, pass
<1>2. CASE ChooseIncident
  <2>1. GoTo("incident-choice") /\ "incident-choice" \in Screen
    BY <1>2 DEF ChooseIncident, Screen
  <2>2. Ordinary'
    BY <1>1, <2>1 DEF HInv, Ordinary
  <2>3. QED
    BY <2>1, <2>2, GoToHInv
<1>3. CASE GoHome
  <2>1. GoTo("home") /\ "home" \in Screen
    BY <1>3 DEF GoHome, Screen
  <2>2. Ordinary'
    BY <1>1, <2>1 DEF HInv, Ordinary
  <2>3. QED
    BY <2>1, <2>2, GoToHInv
<1>4. CASE GoBack
  <2>1. PICK name \in {"setup", "home"} : GoTo(name) /\ (name = "setup" => kind = "ordinary")
    BY <1>4 DEF GoBack
  <2>2. Ordinary'
    BY <1>1, <2>1 DEF HInv, Ordinary
  <2>3. name \in Screen
    BY DEF Screen
  <2>4. QED
    BY <2>1, <2>2, <2>3, GoToHInv
<1>5. CASE SkipBonus
  <2>1. screen = "bonus" /\ GoTo("done") /\ "done" \in Screen
    BY <1>5 DEF SkipBonus, Screen
  <2>2. Ordinary'
    BY <1>1, <2>1 DEF HInv, Ordinary
  <2>3. QED
    BY <2>1, <2>2, GoToHInv
<1>6. QED
  BY <1>2, <1>3, <1>4, <1>5

-----------------------------------------------------------------------------
(* The set-up. *)

LEMMA SuggestedAreas == SuggestedArea \in Area
<1>1. PICK rooms : rooms = {Info[t].room : t \in DeepCleanTask(View)}
  OBVIOUS
<1>2. PICK areas : areas = {k \in DOMAIN AreaOrder : AreaRooms[AreaOrder[k]] \cap rooms # {}}
  OBVIOUS
<1>3. SuggestedArea = IF areas = {} THEN FirstChoices.area
                      ELSE AreaOrder[CHOOSE k \in areas : \A j \in areas : k <= j]
  BY <1>1, <1>2 DEF SuggestedArea
<1>4. CASE areas = {}
  BY <1>3, <1>4, HomeSessionAssumption DEF Choices
<1>5. CASE areas # {}
  <2>1. areas \in SUBSET Nat /\ areas \subseteq DOMAIN AreaOrder
    BY <1>2, HomeSessionAssumption
  <2>2. \E k \in areas : \A j \in areas : k <= j
    BY <1>5, <2>1, LeastNat
  <2>3. PICK k : k = CHOOSE i \in areas : \A j \in areas : i <= j
    OBVIOUS
  <2>4. k \in areas
    BY <2>2, <2>3, Zenon
  <2>5. SuggestedArea = AreaOrder[k]
    BY <1>3, <1>5, <2>3
  <2>6. QED
    BY <2>1, <2>4, <2>5 DEF Area, Elements
<1>6. QED
  BY <1>4, <1>5

LEMMA StartSetupHInv ==
    ASSUME HInv, NEW m \in Mode, StartSetup(m)
    PROVE  HInv'
<1>1. /\ screen' = "setup" /\ kind' = "ordinary" /\ rendered' = now
      /\ UNCHANGED <<deck, timeLeft, started, repeated, starts, history, schedule, now>>
  BY DEF StartSetup, Rendered
<1>2. PICK area : area = IF m = "area" THEN SuggestedArea ELSE choices.area
  OBVIOUS
<1>3. choices' = [choices EXCEPT !.mode = m, !.area = area, !.minutes = DefaultMinutes[m]]
  BY <1>2 DEF StartSetup
<1>4. choices \in Choices /\ NoRepetition(choices.people)
  BY DEF HInv, TypeOK
<1>5. area \in Area
  BY <1>2, <1>4, SuggestedAreas DEF Choices
<1>6. DefaultMinutes[m] \in Nat
  BY HomeSessionAssumption
<1>7. choices' \in Choices /\ choices'.people = choices.people /\ choices'.mode = m
  BY <1>3, <1>4, <1>5, <1>6 DEF Choices
<1>8. TypeOK'
  <2>1. rendered' \in 0 .. now'
    BY <1>1 DEF HInv, TypeOK
  <2>2. UNCHANGED <<planned, bonus, base, bonusCompleted, completed>>
    BY <1>1 DEF deck
  <2>3. NoRepetition(choices'.people)
    BY <1>4, <1>7
  <2>4. QED
    BY <1>1, <1>7, <2>1, <2>2, <2>3 DEF HInv, TypeOK, Screen
<1>9. Ordinary'
  BY <1>1, <1>7 DEF Ordinary
<1>10. QED
  BY <1>1, <1>8, <1>9, SameWork

LEMMA ChooseHInv ==
    ASSUME HInv, NEW new \in Choices, NoRepetition(new.people), new.mode = choices.mode,
           Choose(new)
    PROVE  HInv'
<1>1. screen = "setup" /\ choices' = new /\ rendered' = now /\ UNCHANGED <<screen, pass, history, schedule, now>>
  BY DEF Choose, Rendered
<1>2. /\ UNCHANGED <<deck, timeLeft, kind, started, repeated, starts>>
      /\ UNCHANGED <<planned, bonus, base, bonusCompleted, completed>>
  BY <1>1 DEF pass, deck
<1>3. TypeOK'
  <2>1. rendered' \in 0 .. now'
    BY <1>1 DEF HInv, TypeOK
  <2>2. choices' \in Choices /\ NoRepetition(choices'.people)
    BY <1>1
  <2>3. QED
    BY <1>1, <1>2, <2>1, <2>2 DEF HInv, TypeOK
<1>4. Ordinary'
  BY <1>1, <1>2 DEF HInv, Ordinary
<1>5. QED
  BY <1>1, <1>2, <1>3, <1>4, SameWork

LEMMA ToggledOnce ==
    ASSUME NEW p \in Person, NEW people \in Seq(Person), NoRepetition(people)
    PROVE  Toggled(p, people) \in Seq(Person) /\ NoRepetition(Toggled(p, people))
<1>1. CASE p \in Elements(people)
  <2>1. PICK places \in SUBSET DOMAIN people : places = {k \in DOMAIN people : people[k] # p}
    OBVIOUS
  <2>2. Toggled(p, people) = Picked(people, places)
    BY <1>1, <2>1 DEF Toggled
  <2>3. QED
    BY <2>2, PickedOnce
<1>2. CASE p \notin Elements(people)
  <2>1. Toggled(p, people) = Append(people, p)
    BY <1>2 DEF Toggled
  <2>2. QED
    BY <1>2, <2>1, OneMore
<1>3. QED
  BY <1>1, <1>2

LEMMA SelectHInv == HInv /\ (SelectMinutes \/ SelectArea \/ ToggleMember) => HInv'
<1> SUFFICES ASSUME HInv, SelectMinutes \/ SelectArea \/ ToggleMember PROVE HInv'
  OBVIOUS
<1>1. choices \in Choices /\ NoRepetition(choices.people)
  BY DEF HInv, TypeOK
<1>2. CASE SelectMinutes
  <2>1. screen = "setup"
    BY <1>2 DEF SelectMinutes
  <2>2. choices.mode \in Mode
    BY <2>1 DEF HInv, Ordinary
  <2>3. PICK minutes \in TimeOptions[choices.mode] : Choose([choices EXCEPT !.minutes = minutes])
    BY <1>2 DEF SelectMinutes
  <2>4. PICK new : new = [choices EXCEPT !.minutes = minutes]
    OBVIOUS
  <2>5. minutes \in Nat
    BY <2>2, <2>3, HomeSessionAssumption
  <2>6. new \in Choices /\ new.people = choices.people /\ new.mode = choices.mode
    BY <1>1, <2>4, <2>5 DEF Choices
  <2>7. NoRepetition(new.people) /\ Choose(new)
    BY <1>1, <2>3, <2>4, <2>6
  <2>8. QED
    BY <2>6, <2>7, ChooseHInv
<1>3. CASE SelectArea
  <2>1. PICK area \in Area : Choose([choices EXCEPT !.area = area])
    BY <1>3 DEF SelectArea
  <2>2. PICK new : new = [choices EXCEPT !.area = area]
    OBVIOUS
  <2>3. new \in Choices /\ new.people = choices.people /\ new.mode = choices.mode
    BY <1>1, <2>1, <2>2 DEF Choices
  <2>4. NoRepetition(new.people) /\ Choose(new)
    BY <1>1, <2>1, <2>2, <2>3
  <2>5. QED
    BY <2>3, <2>4, ChooseHInv
<1>4. CASE ToggleMember
  <2>1. PICK p \in Person : Choose([choices EXCEPT !.people = Toggled(p, @)])
    BY <1>4 DEF ToggleMember
  <2>2. PICK people : people = Toggled(p, choices.people)
    OBVIOUS
  <2>3. people \in Seq(Person) /\ NoRepetition(people)
    <3>1. choices.people \in Seq(Person)
      BY <1>1 DEF Choices
    <3>2. QED
      BY <1>1, <2>1, <2>2, <3>1, ToggledOnce
  <2>4. PICK new : new = [choices EXCEPT !.people = people]
    OBVIOUS
  <2>5. new \in Choices /\ new.people = people /\ new.mode = choices.mode
    BY <1>1, <2>3, <2>4 DEF Choices
  <2>6. NoRepetition(new.people) /\ Choose(new)
    BY <2>1, <2>2, <2>3, <2>4, <2>5
  <2>7. QED
    BY <2>5, <2>6, ChooseHInv
<1>5. QED
  BY <1>2, <1>3, <1>4

-----------------------------------------------------------------------------
(* The starts. *)

LEMMA StartedWork ==
    ASSUME HInv, NEW p, NEW b, NEW time \in BOOLEAN, StartWith(p, b, time), Deck(p, b)
    PROVE  /\ planned' = p /\ bonus' = b
           /\ Deck(planned, bonus)' /\ BonusCounted' /\ Recorded'
           /\ Elements(completed)' = {} /\ NoRepetition(completed)'
           /\ UNCHANGED <<history, schedule, now>> /\ started' = now /\ rendered' = now
           /\ base' \in Nat /\ bonusCompleted' \in Nat /\ starts' \in Nat
           /\ completed' \in Seq(Card) /\ timeLeft' \in BOOLEAN
<1>1. /\ planned' = p /\ bonus' = b /\ base' = Len(p) /\ bonusCompleted' = 0
      /\ completed' = <<>> /\ timeLeft' = time /\ started' = now /\ starts' = starts + 1
      /\ rendered' = now /\ UNCHANGED <<history, schedule, now>>
  BY DEF StartWith, Rendered
<1>2. base' \in Nat /\ starts' \in Nat
  BY <1>1 DEF Deck, HInv, TypeOK
<1>3. Deck(planned, bonus)'
  BY <1>1
<1>4. QED
  BY <1>1, <1>2, <1>3, NothingFinished, NoElements

(* An incident or a recommendation: nothing is checked against history.    *)
LEMMA OtherStart ==
    ASSUME HInv, NEW p, NEW time \in BOOLEAN, StartWith(p, <<>>, time), Deck(p, <<>>), p # <<>>,
           screen' = "session", kind' \in {"weekly", "incident"}, repeated' = repeated,
           choices' \in Choices, choices'.people = choices.people
    PROVE  HInv'
<1>1. /\ planned' = p /\ bonus' = <<>>
      /\ Deck(planned, bonus)' /\ BonusCounted' /\ Recorded'
      /\ Elements(completed)' = {} /\ NoRepetition(completed)'
      /\ UNCHANGED <<history, schedule, now>> /\ started' = now /\ rendered' = now
      /\ base' \in Nat /\ bonusCompleted' \in Nat /\ starts' \in Nat
      /\ completed' \in Seq(Card) /\ timeLeft' \in BOOLEAN
  BY StartedWork
<1>2. TypeOK'
  <2>1. started' \in 0 .. now' /\ rendered' \in 0 .. now'
    BY <1>1 DEF HInv, TypeOK
  <2>2. NoRepetition(choices'.people)
    BY DEF HInv, TypeOK
  <2>3. planned' \in Seq(Card) /\ bonus' \in Seq(Card)
    BY <1>1 DEF Deck
  <2>4. QED
    BY <1>1, <2>1, <2>2, <2>3 DEF HInv, TypeOK, Screen
<1>3. Elements(p) # {}
  <2>1. p \in Seq(Card)
    BY DEF Deck
  <2>2. p[1] \in Elements(p)
    BY <2>1 DEF Elements
  <2>3. QED
    BY <2>2
<1>4. Progress'
  BY <1>1, <1>3 DEF Progress
<1>5. Ordinary' /\ Rested'
  BY DEF Ordinary, Rested
<1>6. QED
  BY <1>1, <1>2, <1>4, <1>5 DEF HInv

LEMMA StartIncidentHInv ==
    ASSUME HInv, NEW i \in Incident, StartIncident(i)
    PROVE  HInv'
<1>1. PICK p : p = Steps[i]
  OBVIOUS
<1>2. StartWith(p, <<>>, FALSE) /\ screen' = "session" /\ kind' = "incident" /\ repeated' = repeated
  BY <1>1 DEF StartIncident
<1>3. Deck(p, <<>>) /\ p # <<>>
  BY <1>1, ProtocolDeck, ProtocolAssumption
<1>4. choices' \in Choices /\ choices'.people = choices.people
  <2>1. choices \in Choices /\ choices' = [choices EXCEPT !.mode = i]
    BY DEF HInv, TypeOK, StartIncident
  <2>2. QED
    BY <2>1 DEF Choices
<1>5. QED
  BY <1>2, <1>3, <1>4, OtherStart

LEMMA StartWeeklyHInv == HInv /\ StartWeeklyRecommendation => HInv'
<1> SUFFICES ASSUME HInv, StartWeeklyRecommendation PROVE HInv'
  OBVIOUS
<1>1. PICK t \in WeeklyRecommendation(View) : StartWith(<< <<t>> >>, <<>>, Info[t].minutes > 0)
  BY DEF StartWeeklyRecommendation
<1>2. t \in Task
  BY <1>1 DEF WeeklyRecommendation, MostUrgent
<1>3. PICK p : p = << <<t>> >>
  OBVIOUS
<1>4. Deck(p, <<>>) /\ p # <<>>
  BY <1>2, <1>3, SingleDeck
<1>5. PICK time \in BOOLEAN : time = (Info[t].minutes > 0)
  <2>1. PICK minutes \in Nat : minutes = Info[t].minutes
    BY <1>2, PlanningAssumption
  <2>2. (minutes > 0) \in BOOLEAN
    BY <2>1
  <2>3. QED
    BY <2>1, <2>2
<1>6. StartWith(p, <<>>, time)
  BY <1>1, <1>3, <1>5
<1>7. /\ screen' = "session" /\ kind' = "weekly" /\ repeated' = repeated
      /\ choices' = choices
  BY DEF StartWeeklyRecommendation
<1>8. choices' \in Choices /\ choices'.people = choices.people
  BY <1>7 DEF HInv, TypeOK
<1>9. QED
  BY <1>4, <1>6, <1>7, <1>8, OtherStart

LEMMA EligibleRested ==
    ASSUME NEW in, NEW t \in Eligible(in), NEW c \in in.history, SameActivity(c, t)
    PROVE  ~(in.now - c.at < Info[c.task].cooldown)
  BY DEF Eligible, Candidates, IsCandidate, IsCoolingDown

LEMMA StartSessionHInv ==
    ASSUME HInv, NEW ignoreHistory \in BOOLEAN, StartSession(ignoreHistory)
    PROVE  HInv'
<1>1. PICK in : in = SelectionInput(ignoreHistory)
  OBVIOUS
<1>2. PICK p, b : p = DisplayPlan(BuildPlan(in).cards) /\ b = BonusCards(in, BuildPlan(in))
  OBVIOUS
<1>3. Deck(p, b) /\ MadeOf(p, b, Eligible(in))
  BY <1>2, PlannedDeck
<1>4. PICK time \in BOOLEAN : time = (choices.minutes > 0)
  <2>1. PICK minutes \in Nat : minutes = choices.minutes
    BY DEF HInv, TypeOK, Choices
  <2>2. (minutes > 0) \in BOOLEAN
    BY <2>1
  <2>3. QED
    BY <2>1, <2>2
<1>5. /\ StartWith(p, b, time) /\ UNCHANGED <<choices, kind>> /\ repeated' = ignoreHistory
      /\ screen' = IF planned' = <<>> THEN "rest" ELSE "session"
      /\ screen \in {"setup", "rest"}
  BY <1>1, <1>2, <1>4 DEF StartSession
<1>6. /\ planned' = p /\ bonus' = b
      /\ Deck(planned, bonus)' /\ BonusCounted' /\ Recorded'
      /\ Elements(completed)' = {} /\ NoRepetition(completed)'
      /\ UNCHANGED <<history, schedule, now>> /\ started' = now /\ rendered' = now
      /\ base' \in Nat /\ bonusCompleted' \in Nat /\ starts' \in Nat
      /\ completed' \in Seq(Card) /\ timeLeft' \in BOOLEAN
  BY <1>3, <1>5, StartedWork
<1>7. TypeOK'
  <2>1. started' \in 0 .. now' /\ rendered' \in 0 .. now'
    BY <1>6 DEF HInv, TypeOK
  <2>2. planned' \in Seq(Card) /\ bonus' \in Seq(Card)
    BY <1>6 DEF Deck
  <2>3. QED
    BY <1>5, <1>6, <2>1, <2>2 DEF HInv, TypeOK, Screen
<1>8. Progress'
  <2>1. CASE p = <<>>
    BY <1>5, <1>6, <2>1 DEF Progress
  <2>2. CASE p # <<>>
    <3>1. p \in Seq(Card)
      BY <1>3 DEF Deck
    <3>2. p[1] \in Elements(p)
      BY <2>2, <3>1 DEF Elements
    <3>3. QED
      BY <1>5, <1>6, <2>2, <3>2 DEF Progress
  <2>3. QED
    BY <2>1, <2>2
<1>9. Ordinary'
  BY <1>5 DEF HInv, Ordinary
<1>10. Rested'
  <2>1. Asked' \subseteq Eligible(in)
    BY <1>3, <1>6 DEF Asked, MadeOf
  <2>2. Asked' \subseteq Task /\ \A t, u \in Asked' : t \notin Covers(u)
    BY <2>1, EligibleApart
  <2>3. ASSUME ~ignoreHistory, NEW t \in Asked', NEW c \in history, SameActivity(c, t)
        PROVE  ~(now - c.at < Info[c.task].cooldown)
    <3>1. in.history = history /\ in.now = rendered
      BY <1>1, <2>3 DEF SelectionInput
    <3>2. ~(rendered - c.at < Info[c.task].cooldown)
      BY <2>1, <2>3, <3>1, EligibleRested
    <3>3. c.at \in Nat /\ rendered \in 0 .. now /\ now \in Nat
      BY DEF HInv, TypeOK, Completion
    <3>4. c.task \in Task
      BY <2>3 DEF SameActivity
    <3>5. Info[c.task].cooldown \in Nat
      BY <3>4, PlanningAssumption
    <3>6. QED
      BY <3>2, <3>3, <3>5
  <2>4. QED
    BY <1>5, <1>6, <2>2, <2>3 DEF Rested
<1>11. QED
  BY <1>6, <1>7, <1>8, <1>9, <1>10 DEF HInv

-----------------------------------------------------------------------------
(* Finishing a card. *)

LEMMA FinishedFields ==
    ASSUME HInv, FinishTask
    PROVE  \E card \in Elements(planned) \ Elements(completed) :
             /\ card \in Card
             /\ completed' = Append(completed, card)
             /\ completed' \in Seq(Card) /\ NoRepetition(completed')
             /\ Elements(completed') = Elements(completed) \cup {card}
             /\ history' = {c \in history \cup {[task |-> id, at |-> now] :
                                                    id \in CompletionIds(card)} :
                               now - c.at <= Retention}
             /\ bonusCompleted' =
                  bonusCompleted + (IF PositionOf(card) > base THEN 1 ELSE 0)
<1>1. PICK card \in Elements(planned) \ Elements(completed) :
             /\ completed' = Append(completed, card)
             /\ history' = {c \in history \cup {[task |-> id, at |-> now] :
                                                    id \in CompletionIds(card)} :
                               now - c.at <= Retention}
             /\ bonusCompleted' =
                  bonusCompleted + (IF PositionOf(card) > base THEN 1 ELSE 0)
  BY DEF FinishTask
<1>2. card \in Card
  <2>1. Deck(planned, bonus)
    BY DEF HInv
  <2>2. QED
    BY <2>1, DeckOnce
<1>3. completed \in Seq(Card) /\ NoRepetition(completed)
  BY DEF HInv, TypeOK, Progress
<1>4. /\ Append(completed, card) \in Seq(Card)
      /\ Elements(Append(completed, card)) = Elements(completed) \cup {card}
      /\ NoRepetition(Append(completed, card))
  BY <1>1, <1>2, <1>3, OneMore
<1>5. QED
  BY <1>1, <1>2, <1>4

LEMMA BonusOnceMore ==
    ASSUME HInv, NEW card \in Elements(planned) \ Elements(completed),
           UNCHANGED <<planned, base>>,
           Elements(completed') = Elements(completed) \cup {card},
           bonusCompleted' = bonusCompleted + (IF PositionOf(card) > base THEN 1 ELSE 0)
    PROVE  BonusCounted' /\ bonusCompleted' \in Nat
<1>1. NoRepetition(planned) /\ planned \in Seq(Card)
  <2>1. Deck(planned, bonus)
    BY DEF HInv
  <2>2. QED
    BY <2>1, DeckOnce
<1>2. PICK len \in Nat : DOMAIN planned = 1 .. len
  BY <1>1
<1>3. PICK k \in 1 .. len : planned[k] = card
  BY <1>2 DEF Elements
<1>4. \A j \in 1 .. len : planned[j] = card => j = k
  BY <1>1, <1>2, <1>3 DEF NoRepetition
<1>5. PositionOf(card) = k
  <2>1. \A j \in 1 .. k - 1 : planned[j] # card
    BY <1>3, <1>4
  <2>2. \E i \in DOMAIN planned : planned[i] = card /\ \A j \in 1 .. i - 1 : planned[j] # card
    BY <1>2, <1>3, <2>1
  <2>3. /\ PositionOf(card) \in DOMAIN planned
        /\ planned[PositionOf(card)] = card
    BY <2>2 DEF PositionOf
  <2>4. QED
    BY <1>2, <1>4, <2>3
<1>6. PICK before \in SUBSET (1 .. len) :
        before = {j \in DOMAIN planned : j > base /\ planned[j] \in Elements(completed)}
  BY <1>2
<1>7. PICK after :
        after = {j \in DOMAIN planned : j > base /\ planned[j] \in Elements(completed')}
  OBVIOUS
<1>8. k \notin before /\ k \in DOMAIN planned
  BY <1>2, <1>3, <1>6
<1>9. IsFiniteSet(before)
  <2>1. before \in SUBSET Nat /\ \A j \in before : j <= len
    BY <1>6
  <2>2. QED
    BY <2>1, FS_BoundedSetOfNaturals
<1>10. bonusCompleted = Cardinality(before) /\ bonusCompleted \in Nat
  BY <1>6 DEF HInv, TypeOK, BonusCounted
<1>11. CASE k > base
  <2>1. after = before \cup {k}
    BY <1>2, <1>3, <1>4, <1>6, <1>7, <1>8, <1>11
  <2>2. Cardinality(after) = Cardinality(before) + 1
    BY <1>8, <1>9, <2>1, FS_AddElement
  <2>3. bonusCompleted' = Cardinality(after)
    BY <1>5, <1>10, <1>11, <2>2
  <2>4. QED
    BY <1>7, <1>10, <2>2, <2>3 DEF BonusCounted
<1>12. CASE ~(k > base)
  <2>1. after = before
    BY <1>2, <1>3, <1>4, <1>6, <1>7, <1>12
  <2>2. bonusCompleted' = Cardinality(after)
    BY <1>5, <1>10, <1>12, <2>1
  <2>3. QED
    BY <1>7, <1>10, <2>1, <2>2 DEF BonusCounted
<1>13. QED
  BY <1>11, <1>12

LEMMA FinishTaskHInv == HInv /\ FinishTask => HInv'
<1> SUFFICES ASSUME HInv, FinishTask PROVE HInv'
  OBVIOUS
<1>1. PICK card \in Elements(planned) \ Elements(completed) :
             /\ card \in Card
             /\ completed' = Append(completed, card)
             /\ completed' \in Seq(Card) /\ NoRepetition(completed')
             /\ Elements(completed') = Elements(completed) \cup {card}
             /\ history' = {c \in history \cup {[task |-> id, at |-> now] :
                                                    id \in CompletionIds(card)} :
                               now - c.at <= Retention}
             /\ bonusCompleted' =
                  bonusCompleted + (IF PositionOf(card) > base THEN 1 ELSE 0)
  BY FinishedFields
<1>2. /\ screen = "session" /\ rendered' = now
      /\ screen' = IF Len(completed') >= Len(planned) THEN Afterwards ELSE screen
      /\ UNCHANGED <<choices, planned, bonus, base, timeLeft, kind, started, repeated, starts>>
      /\ UNCHANGED <<schedule, now>>
  BY DEF FinishTask, Rendered
<1>3. BonusCounted' /\ bonusCompleted' \in Nat
  BY <1>1, <1>2, BonusOnceMore
<1>4. now \in Nat /\ started \in 0 .. now /\ rendered \in 0 .. now
  BY DEF HInv, TypeOK
<1>5. CompletionIds(card) \subseteq Task \cup StepId
  <2>1. Deck(planned, bonus)
    BY DEF HInv
  <2>2. card # <<>>
    BY <2>1 DEF Deck
  <2>3. QED
    BY <1>1, <2>2, CardIds
<1>6. \A c \in history' : c \in history \/ (c.at = now /\ c.task \in CompletionIds(card))
  BY <1>1
<1>7. TypeOK'
  <2>1. history' \subseteq Completion
    BY <1>1, <1>4, <1>5 DEF HInv, TypeOK, Completion
  <2>2. screen' \in Screen
    BY <1>2 DEF Afterwards, Screen
  <2>3. rendered' \in 0 .. now'
    BY <1>2, <1>4
  <2>4. QED
    BY <1>1, <1>2, <1>3, <2>1, <2>2, <2>3 DEF HInv, TypeOK
<1>8. Deck(planned, bonus)'
  BY <1>2 DEF HInv
<1>9. Progress'
  <2>1. Elements(completed') \subseteq Elements(planned)
    BY <1>1 DEF HInv, Progress
  <2>2. planned \in Seq(Card) /\ NoRepetition(planned)
    <3>1. Deck(planned, bonus)
      BY DEF HInv
    <3>2. QED
      BY <3>1, DeckOnce
  <2>3. /\ Len(completed') >= Len(planned) => Elements(planned) \subseteq Elements(completed')
        /\ ~(Len(completed') >= Len(planned)) => Elements(planned) \ Elements(completed') # {}
    BY <1>1, <2>1, <2>2, AllOrSome
  <2>4. /\ screen' = "session" => ~(Len(completed') >= Len(planned))
        /\ screen' \in {"bonus", "done"} => Len(completed') >= Len(planned)
        /\ screen' = "bonus" => bonus # <<>>
    BY <1>2 DEF Afterwards
  <2>5. QED
    BY <1>1, <1>2, <2>1, <2>3, <2>4 DEF Progress
<1>10. Ordinary'
  BY <1>2 DEF HInv, Ordinary, Afterwards
<1>11. Recorded'
  <2>1. SUFFICES ASSUME now - started <= Retention,
                        NEW d \in Elements(completed'), NEW id \in CompletionIds(d)
                 PROVE  \E c \in history' : c.task = id /\ c.at >= started
    BY <1>2 DEF Recorded
  <2>2. CASE d = card
    <3>1. PICK c : c = [task |-> id, at |-> now]
      OBVIOUS
    <3>2. c.task = id /\ c.at = now
      BY <3>1
    <3>3. now - now <= Retention /\ now >= started
      BY <1>4, HomeSessionAssumption
    <3>4. c \in history'
      BY <1>1, <2>2, <3>1, <3>2, <3>3
    <3>5. QED
      BY <3>2, <3>3, <3>4
  <2>3. CASE d \in Elements(completed)
    <3>1. PICK c \in history : c.task = id /\ c.at >= started
      BY <2>1, <2>3 DEF HInv, Recorded
    <3>2. c.at \in Nat
      BY DEF HInv, TypeOK, Completion
    <3>3. now - c.at <= Retention
      BY <1>4, <2>1, <3>1, <3>2, HomeSessionAssumption
    <3>4. c \in history'
      BY <1>1, <3>3
    <3>5. QED
      BY <3>1, <3>4
  <2>4. QED
    BY <1>1, <2>2, <2>3
<1>12. Rested'
  <2>1. SUFFICES ASSUME kind = "ordinary", ~repeated PROVE Rested'
    BY <1>2 DEF Rested
  <2>2. Asked' = Asked
    BY <1>2 DEF Asked
  <2>3. /\ Asked \subseteq Task
        /\ \A t, u \in Asked : t \notin Covers(u)
        /\ \A t \in Asked, c \in history :
             SameActivity(c, t) /\ now - c.at < Info[c.task].cooldown =>
                 /\ c.at >= started
                 /\ \E d \in Elements(completed) : c.task \in CompletionIds(d)
    BY <1>2, <2>1 DEF HInv, Rested
  <2>4. ASSUME NEW t \in Asked, NEW c \in history', SameActivity(c, t),
               now - c.at < Info[c.task].cooldown
        PROVE  /\ c.at >= started
               /\ \E d \in Elements(completed') : c.task \in CompletionIds(d)
    <3>1. CASE c \in history
      BY <1>1, <2>3, <2>4, <3>1
    <3>2. CASE c.at = now /\ c.task \in CompletionIds(card)
      BY <1>1, <1>4, <3>2
    <3>3. QED
      BY <1>6, <3>1, <3>2
  <2>5. QED
    BY <1>2, <2>2, <2>3, <2>4 DEF Rested
<1>13. QED
  BY <1>3, <1>7, <1>8, <1>9, <1>10, <1>11, <1>12 DEF HInv

LEMMA StartBonusHInv == HInv /\ StartBonus => HInv'
<1> SUFFICES ASSUME HInv, StartBonus PROVE HInv'
  OBVIOUS
<1>1. screen = "bonus" /\ bonus # <<>> /\ Deck(planned, bonus)
  BY DEF StartBonus, HInv, Progress
<1>2. /\ screen' = "session" /\ timeLeft' = TRUE /\ rendered' = now
      /\ planned' = planned \o SubSeq(bonus, 1, 1)
      /\ bonus' = SubSeq(bonus, 2, Len(bonus))
      /\ UNCHANGED <<choices, base, bonusCompleted, completed, kind, started, repeated,
                     starts, history, schedule, now>>
  BY <1>1 DEF StartBonus, Rendered
<1>3. /\ Deck(planned', bonus') /\ planned' = Append(planned, bonus[1])
      /\ bonus[1] \in Elements(bonus) /\ Elements(bonus') \subseteq Elements(bonus)
  BY <1>1, <1>2, DeckDealt
<1>4. planned \in Seq(Card) /\ bonus[1] \in Card /\ bonus[1] \notin Elements(planned)
  BY <1>1, <1>3, DeckOnce
<1>5. /\ Elements(planned') = Elements(planned) \cup {bonus[1]}
      /\ DOMAIN planned' = 1 .. Len(planned) + 1
      /\ \A k \in 1 .. Len(planned) : planned'[k] = planned[k]
      /\ planned'[Len(planned) + 1] = bonus[1]
  BY <1>3, <1>4, OneMore
<1>6. bonus[1] \notin Elements(completed)
  BY <1>4 DEF HInv, Progress
<1>7. TypeOK'
  <2>1. rendered' \in 0 .. now'
    BY <1>2 DEF HInv, TypeOK
  <2>2. planned' \in Seq(Card) /\ bonus' \in Seq(Card)
    BY <1>3 DEF Deck
  <2>3. QED
    BY <1>2, <2>1, <2>2 DEF HInv, TypeOK, Screen
<1>8. Deck(planned, bonus)'
  BY <1>3
<1>9. Progress'
  <2>1. Elements(completed)' \subseteq Elements(planned)' /\ NoRepetition(completed)'
    BY <1>2, <1>5 DEF HInv, Progress
  <2>2. Elements(planned)' \ Elements(completed)' # {}
    BY <1>2, <1>5, <1>6
  <2>3. QED
    BY <1>2, <2>1, <2>2 DEF Progress
<1>10. BonusCounted'
  <2>1. PICK len \in Nat : len = Len(planned) /\ DOMAIN planned = 1 .. len
    BY <1>4
  <2>2. \A k \in 1 .. len + 1 : k \in 1 .. len \/ k = len + 1
    OBVIOUS
  <2>3. \A k \in 1 .. len : k \in 1 .. len + 1
    OBVIOUS
  <2>4. {k \in DOMAIN planned' : k > base /\ planned'[k] \in Elements(completed)}
          = {k \in DOMAIN planned : k > base /\ planned[k] \in Elements(completed)}
    BY <1>5, <1>6, <2>1, <2>2, <2>3
  <2>5. QED
    BY <1>2, <2>4 DEF HInv, BonusCounted
<1>11. Ordinary' /\ Recorded'
  BY <1>2 DEF HInv, Ordinary, Recorded
<1>12. Rested'
  <2>1. Asked' \subseteq Asked
    BY <1>3, <1>5 DEF Asked
  <2>2. QED
    BY <1>1, <1>2, <2>1 DEF HInv, Rested
<1>13. QED
  BY <1>7, <1>8, <1>9, <1>10, <1>11, <1>12 DEF HInv

-----------------------------------------------------------------------------
(* The theorems. *)

LEMMA NextHInv == HInv /\ [Next]_vars => HInv'
<1> SUFFICES ASSUME HInv, [Next]_vars PROVE HInv'
  OBVIOUS
<1>1. CASE Tick
  BY <1>1, TickHInv
<1>2. CASE TimerTick
  BY <1>2, TimerTickHInv
<1>3. CASE OpenHome
  BY <1>3, OpenHomeHInv
<1>4. CASE \E m \in Mode : StartSetup(m)
  BY <1>4, StartSetupHInv
<1>5. CASE SelectMinutes \/ SelectArea \/ ToggleMember
  BY <1>5, SelectHInv
<1>6. CASE ChooseIncident \/ GoHome \/ GoBack \/ SkipBonus
  BY <1>6, ButtonsHInv
<1>7. CASE \E ignoreHistory \in BOOLEAN : StartSession(ignoreHistory)
  BY <1>7, StartSessionHInv
<1>8. CASE \E i \in Incident : StartIncident(i)
  BY <1>8, StartIncidentHInv
<1>9. CASE StartWeeklyRecommendation
  BY <1>9, StartWeeklyHInv
<1>10. CASE FinishTask
  BY <1>10, FinishTaskHInv
<1>11. CASE StartBonus
  BY <1>11, StartBonusHInv
<1>12. CASE UNCHANGED vars
  <2>1. /\ UNCHANGED <<screen, choices, planned, bonus, base, bonusCompleted, completed>>
        /\ UNCHANGED <<timeLeft, kind, started, repeated, starts, history, schedule>>
        /\ UNCHANGED <<rendered, now>>
    BY <1>12 DEF vars, pass, deck
  <2>2. UNCHANGED <<deck, history, started, now>>
    BY <2>1 DEF deck
  <2>3. TypeOK' /\ Ordinary'
    BY <2>1 DEF HInv, TypeOK, Ordinary
  <2>4. QED
    BY <2>1, <2>2, <2>3, SameWork
<1>13. QED
  BY <1>1, <1>2, <1>3, <1>4, <1>5, <1>6, <1>7, <1>8, <1>9, <1>10, <1>11, <1>12 DEF Next

LEMMA AlwaysHInv == Spec => []HInv
<1>1. QED
  BY InitHInv, NextHInv, PTL DEF Spec

(* Every variable of the page stays in its type; nobody takes part twice.  *)
THEOREM TypeCorrect == Spec => []TypeOK
<1>1. HInv => TypeOK
  BY DEF HInv
<1>2. QED
  BY <1>1, AlwaysHInv, PTL

(* No two cards of a session, planned or to be offered, record the same    *)
(* completion, whatever the planner was given (HomePage.tsx:198-205).      *)
THEOREM CardsAreDisjoint == Spec => []CardsDisjoint
<1>1. HInv => CardsDisjoint
  <2> SUFFICES ASSUME HInv PROVE CardsDisjoint
    OBVIOUS
  <2>1. Deck(planned, bonus)
    BY DEF HInv
  <2>2. QED
    BY <2>1, DeckSeparate DEF CardsDisjoint
<1>2. QED
  BY <1>1, AlwaysHInv, PTL

(* However old the render a plan was made from, an ordinary session asks   *)
(* for nothing that is cooling down, but for what its own group has just   *)
(* been done for (taskEngine.ts:170, HomePage.tsx:194-205).                *)
THEOREM NothingIsTooSoon == Spec => []NothingTooSoon
<1>1. HInv => NothingTooSoon
  <2> SUFFICES ASSUME HInv, kind = "ordinary", ~repeated, screen \in {"session", "bonus"},
                      NEW card \in (Elements(planned) \ Elements(completed)) \cup Elements(bonus),
                      NEW t \in Elements(card), NEW c \in history,
                      SameActivity(c, t), now - c.at < Info[c.task].cooldown
               PROVE  c.at >= started /\ c.task # t /\ Info[c.task].group = Info[t].group
    BY DEF NothingTooSoon
  <2>1. /\ Deck(planned, bonus)
        /\ \A d \in Elements(planned) : d \in Card /\ d # <<>>
        /\ \A d \in Elements(bonus) : d \in Card /\ d # <<>>
    <3>1. Deck(planned, bonus)
      BY DEF HInv
    <3>2. QED
      BY <3>1, DeckOnce DEF Deck
  <2>2. t \in Asked
    BY DEF Asked
  <2>3. /\ Asked \subseteq Task /\ \A r, s \in Asked : r \notin Covers(s)
        /\ c.at >= started
        /\ \E d \in Elements(completed) : c.task \in CompletionIds(d)
    BY <2>2 DEF HInv, Rested
  <2>4. PICK d \in Elements(planned) : d \in Elements(completed) /\ c.task \in CompletionIds(d)
    BY <2>3 DEF HInv, Progress
  <2>5. CompletionIds(card) \cap CompletionIds(d) = {}
    <3>1. CASE card \in Elements(planned) \ Elements(completed)
      <4>1. card # d
        BY <2>4, <3>1
      <4>2. QED
        BY <2>1, <2>4, <3>1, <4>1, DeckOnce
    <3>2. CASE card \in Elements(bonus)
      BY <2>1, <2>4, <3>2 DEF Deck
    <3>3. QED
      BY <3>1, <3>2
  <2>6. t \in CompletionIds(card)
    BY <2>1, CardIds
  <2>7. c.task # t
    BY <2>4, <2>5, <2>6
  <2>8. t \notin Info[c.task].supersedes
    <3>1. \/ c.task \in Elements(d)
          \/ \E u \in Elements(d) \cap Task : c.task \in Info[u].includes
      BY <2>1, <2>4, CardIds
    <3>2. CASE c.task \in Elements(d)
      <4>1. c.task \in Asked
        BY <2>4, <3>2 DEF Asked
      <4>2. QED
        BY <2>2, <2>3, <4>1 DEF Covers
    <3>3. CASE \E u \in Elements(d) \cap Task : c.task \in Info[u].includes
      BY <3>3, PartsAssumption
    <3>4. QED
      BY <3>1, <3>2, <3>3
  <2>9. QED
    BY <2>3, <2>7, <2>8 DEF SameActivity
<1>2. QED
  BY <1>1, AlwaysHInv, PTL

(* When the page says that a session is over, or offers more, everything   *)
(* on its cards is in the history (HomePage.tsx:213-227).                  *)
THEOREM DoneIsDone == Spec => []DoneMeansDone
<1>1. HInv => DoneMeansDone
  BY DEF HInv, Progress, Recorded, DoneMeansDone
<1>2. QED
  BY <1>1, AlwaysHInv, PTL

(* The bonus tasks counted are those done (HomePage.tsx:220-221, 230-237). *)
THEOREM BonusIsCounted == Spec => []BonusCounted
<1>1. HInv => BonusCounted
  BY DEF HInv
<1>2. QED
  BY <1>1, AlwaysHInv, PTL

(* No screen has a button that does nothing (HomePage.tsx:182, 214,        *)
(* 224-226, 231-232).                                                      *)
THEOREM NoScreenIsADeadEnd == Spec => []NoDeadEnd
<1>1. HInv => NoDeadEnd
  BY DEF HInv, Progress, Ordinary, NoDeadEnd
<1>2. QED
  BY <1>1, AlwaysHInv, PTL
=============================================================================
