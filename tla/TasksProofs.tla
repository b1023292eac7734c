---------------------------- MODULE TasksProofs ----------------------------
(***************************************************************************)
(* Proofs about Tasks for every size of the task table and every largest   *)
(* priority.  One inductive invariant, Inv, carries all of them: it adds   *)
(* to the three invariants of Tasks that a task's pid is its slot, which   *)
(* is what makes the answers of getpid and clone the task's own.           *)
(*                                                                         *)
(* The second half is about the user programs on that kernel.              *)
(***************************************************************************)
EXTENDS TasksWait, UserMain, FiniteSetTheorems, TLAPS

(* task[i]->pid is i for every task but idle, whose pid is 0 as well.      *)
PidIsSlot == \A i \in live : pid[i] = i

Inv == TypeOK /\ RunningHasTime /\ RetIsOwn /\ PidIsSlot

USE NrTasksAssumption, PriorityAssumption

-----------------------------------------------------------------------------

LEMMA InitInv == Init => Inv
<1> SUFFICES ASSUME Init PROVE Inv
  OBVIOUS
<1>1. PICK p \in Priorities : priority = [i \in Slots |-> IF i = First THEN p ELSE 0]
  BY DEF Init
<1>2. First \in Slots /\ Idle \in Slots /\ p \in 0 .. PRIORITY_MAX
  BY DEF Slots, First, Idle, Priorities
<1>3. Schedulable = {First}
  BY DEF Init, Schedulable, First, Idle
<1>4. /\ ra = [i \in Slots |-> IF i = First THEN "__dummy" ELSE "start_kernel"]
      /\ {"__dummy", "start_kernel"} \subseteq Sites
  BY DEF Init, Sites
<1>5. ra \in [Slots -> Sites]
  BY <1>4
<1>6. TypeOK
  <2>1. counter \in [Slots -> 0 .. PRIORITY_MAX]
    BY DEF Init
  <2>2. priority \in [Slots -> 0 .. PRIORITY_MAX]
    BY <1>1, <1>2
  <2>3. \A i \in Schedulable : priority[i] \in Priorities
    BY <1>1, <1>2, <1>3
  <2>4. pid \in [Slots -> Slots] /\ ret \in [Slots -> Slots \cup {NoReturn}]
    BY <1>2 DEF Init, Idle
  <2> QED
    BY <1>2, <1>5, <2>1, <2>2, <2>3, <2>4 DEF Init, TypeOK
<1> QED
  BY <1>2, <1>3, <1>6 DEF Init, Inv, RunningHasTime, RetIsOwn, PidIsSlot, First, Idle

(* What charging the tick to the running task leaves in the counters.      *)
LEMMA ChargedFacts ==
  ASSUME TypeOK
  PROVE  /\ Charged \in [Slots -> 0 .. PRIORITY_MAX]
         /\ \A i \in Slots : Charged[i] = counter[i] \/ (i = current /\ i # Idle
                               /\ counter[i] > 0 /\ Charged[i] = counter[i] - 1)
<1>1. CASE current = Idle \/ counter[current] = 0
  BY <1>1 DEF TypeOK, Charged
<1>2. CASE ~(current = Idle \/ counter[current] = 0)
  <2>1. current \in Slots /\ current # Idle /\ counter[current] \in 1 .. PRIORITY_MAX
    BY <1>2 DEF TypeOK
  <2>2. Charged = [counter EXCEPT ![current] = counter[current] - 1]
    BY <1>2 DEF Charged
  <2> QED
    BY <2>1, <2>2 DEF TypeOK
<1> QED
  BY <1>1, <1>2

(* A refill keeps every counter within the largest priority, because it    *)
(* happens only when all the counters it halves are 0.                     *)
LEMMA RefillFacts ==
  ASSUME TypeOK, NEW c \in [Slots -> 0 .. PRIORITY_MAX]
  PROVE  /\ AfterRefill(c) \in [Slots -> 0 .. PRIORITY_MAX]
         /\ ~Spent(c) => AfterRefill(c) = c
         /\ Spent(c) => \A i \in Schedulable : AfterRefill(c)[i] = priority[i]
<1>1. CASE Spent(c)
  <2>1. \A i \in Schedulable : i \in Slots /\ c[i] = 0 /\ priority[i] \in Priorities
    BY <1>1 DEF Spent, TypeOK, Schedulable
  <2>2. \A i \in Schedulable : priority[i] + (c[i] \div 2) = priority[i]
    BY <2>1 DEF Priorities
  <2>3. \A i \in Slots : Refilled(c)[i] \in 0 .. PRIORITY_MAX
    BY <2>1, <2>2 DEF Refilled, Priorities
  <2> QED
    BY <1>1, <2>1, <2>2, <2>3 DEF AfterRefill, Refilled
<1>2. CASE ~Spent(c)
  BY <1>2 DEF AfterRefill
<1> QED
  BY <1>1, <1>2

(* schedule() hands the hart to a schedulable task that has time left.     *)
LEMMA ScheduleFacts ==
  ASSUME Inv, NEW c \in [Slots -> 0 .. PRIORITY_MAX], NEW site \in Sites,
         Schedule(c, site), UNCHANGED <<live, priority, pid, halted>>,
         site # "sys_fork"
  PROVE  Inv'
<1> DEFINE filled == AfterRefill(c)
<1>1. filled \in [Slots -> 0 .. PRIORITY_MAX]
  BY RefillFacts DEF Inv
<1>2. PICK next \in Schedulable :
        /\ Chosen(filled, next)
        /\ counter' = filled
        /\ SwitchTo(next, site, ra, ret)
  BY DEF Schedule
<1>3. next \in Slots /\ next # Idle /\ next \in live /\ pid[next] = next
  BY DEF Inv, TypeOK, Schedulable, PidIsSlot
<1>4. TypeOK'
  <2>1. ra' \in [Slots -> Sites]
    BY <1>2, <1>3 DEF Inv, TypeOK, SwitchTo
  <2>2. ret' \in [Slots -> Slots \cup {NoReturn}]
    BY <1>2, <1>3 DEF Inv, TypeOK, SwitchTo
  <2> QED
    BY <1>1, <1>2, <1>3, <2>1, <2>2 DEF Inv, TypeOK, SwitchTo, Schedulable
<1>5. RunningHasTime'
  BY <1>2 DEF SwitchTo, Chosen, RunningHasTime
<1>6. RetIsOwn'
  BY <1>2, <1>3 DEF Inv, TypeOK, RetIsOwn, SwitchTo, Schedulable, Slots, Idle,
                    First, NoReturn
<1>7. PidIsSlot'
  BY DEF Inv, PidIsSlot
<1> QED
  BY <1>4, <1>5, <1>6, <1>7 DEF Inv

LEMMA TimerInv == Inv /\ Timer => Inv'
<1> SUFFICES ASSUME Inv, Timer PROVE Inv'
  OBVIOUS
<1>1. Charged \in [Slots -> 0 .. PRIORITY_MAX]
  BY ChargedFacts DEF Inv
<1>2. CASE MustSchedule /\ Schedule(Charged, "do_timer")
  BY <1>1, <1>2, ScheduleFacts DEF Timer, Sites
<1>3. CASE ~MustSchedule /\ counter' = Charged /\ UNCHANGED <<current, ra, ret>>
  <2>1. TypeOK'
    BY <1>1, <1>3 DEF Timer, Inv, TypeOK, Schedulable
  <2>2. RunningHasTime'
    BY <1>1, <1>3 DEF MustSchedule, Inv, TypeOK, RunningHasTime
  <2> QED
    BY <1>3, <2>1, <2>2 DEF Timer, Inv, RetIsOwn, PidIsSlot, Schedulable
<1> QED
  BY <1>2, <1>3 DEF Timer

LEMMA ForkInv == Inv /\ Fork => Inv'
<1> SUFFICES ASSUME Inv, Fork PROVE Inv'
  OBVIOUS
<1>1. PICK child \in Slots, p \in Priorities :
       /\ FirstFree(child)
       /\ live'     = live \cup {child}
       /\ counter'  = [counter EXCEPT ![child] = counter[current]]
       /\ priority' = [priority EXCEPT ![child] = p]
       /\ pid'      = [pid EXCEPT ![child] = child]
       /\ SwitchTo(child, "sys_fork", [ra EXCEPT ![child] = "__ret_from_fork"],
                   [ret EXCEPT ![child] = 0])
  BY DEF Fork
<1>2. child \notin live /\ child # Idle /\ child # First
  BY <1>1 DEF FirstFree, FreeSlots
<1>3. current \in Slots /\ current \in live /\ current # Idle /\ current # child
  BY <1>2 DEF Fork, InUser, Inv, TypeOK
<1>4. /\ current' = child
      /\ ra' = [[ra EXCEPT ![child] = "__ret_from_fork"] EXCEPT ![current] = "sys_fork"]
      /\ ret' = [ret EXCEPT ![child] = 0]
  BY <1>1, <1>3 DEF SwitchTo, Inv, TypeOK
<1>5. TypeOK'
  <2>1. counter' \in [Slots -> 0 .. PRIORITY_MAX]
    BY <1>1, <1>3 DEF Inv, TypeOK
  <2>2. /\ priority' \in [Slots -> 0 .. PRIORITY_MAX]
        /\ \A i \in Schedulable' : priority'[i] \in Priorities
    BY <1>1 DEF Inv, TypeOK, Schedulable, Priorities
  <2>3. ra' \in [Slots -> Sites]
    BY <1>3, <1>4 DEF Inv, TypeOK, Sites
  <2>4. 0 \in Slots /\ ret' \in [Slots -> Slots \cup {NoReturn}]
    BY <1>4 DEF Inv, TypeOK, Slots, Idle
  <2>5. pid' \in [Slots -> Slots]
    BY <1>1 DEF Inv, TypeOK
  <2>6. live' \subseteq Slots /\ {Idle, First} \subseteq live' /\ current' \in live'
    BY <1>1, <1>4 DEF Inv, TypeOK
  <2> QED
    BY <2>1, <2>2, <2>3, <2>4, <2>5, <2>6 DEF Fork, Inv, TypeOK
<1>6. RunningHasTime'
  BY <1>1, <1>3, <1>4 DEF Inv, TypeOK, RunningHasTime
<1>7. RetIsOwn'
  BY <1>1, <1>2, <1>4 DEF Inv, TypeOK, RetIsOwn, Schedulable
<1>8. PidIsSlot'
  BY <1>1, <1>2 DEF Inv, TypeOK, PidIsSlot
<1> QED
  BY <1>5, <1>6, <1>7, <1>8 DEF Inv

LEMMA NextInv == Inv /\ [Next]_vars => Inv'
<1> SUFFICES ASSUME Inv, [Next]_vars PROVE Inv'
  OBVIOUS
<1>1. CASE StartSchedule
  <2>1. counter \in [Slots -> 0 .. PRIORITY_MAX]
    BY DEF Inv, TypeOK
  <2> QED
    BY <1>1, <2>1, ScheduleFacts DEF StartSchedule, Sites
<1>2. CASE Timer
  BY <1>2, TimerInv
<1>3. CASE Getpid
  BY <1>3 DEF Getpid, InUser, Inv, TypeOK, RunningHasTime, RetIsOwn, PidIsSlot,
              Schedulable
<1>4. CASE Fork
  BY <1>4, ForkInv
<1>5. CASE ForkTableFull
  BY <1>5 DEF ForkTableFull, Inv, TypeOK, RunningHasTime, RetIsOwn, PidIsSlot,
              Schedulable
<1>6. CASE FaultNoVma
  BY <1>6 DEF FaultNoVma, Inv, TypeOK, RunningHasTime, RetIsOwn, PidIsSlot,
              Schedulable
<1>7. CASE UNCHANGED vars
  BY <1>7 DEF vars, Inv, TypeOK, RunningHasTime, RetIsOwn, PidIsSlot, Schedulable
<1> QED
  BY <1>1, <1>2, <1>3, <1>4, <1>5, <1>6, <1>7 DEF Next

LEMMA Invariance == Spec => []Inv
BY InitInv, NextInv, PTL DEF Spec

-----------------------------------------------------------------------------

(* Type correctness; in particular no refill ever makes a counter larger   *)
(* than the largest priority (schedule_priority, proc.c).                  *)
THEOREM TypeCorrect == Spec => []TypeOK
<1>1. Inv => TypeOK
  BY DEF Inv
<1> QED
  BY <1>1, Invariance, PTL

(* User code only runs on granted time (do_timer, schedule_priority and    *)
(* sys_fork).                                                              *)
THEOREM RunsWithTime == Spec => []RunningHasTime
<1>1. Inv => RunningHasTime
  BY DEF Inv
<1> QED
  BY <1>1, Invariance, PTL

(* getpid and clone only ever answer with the task's own pid, or with 0 in *)
(* a child, across every interleaving of suspended forks.                  *)
THEOREM AnswersAreOwn == Spec => []RetIsOwn
<1>1. Inv => RetIsOwn
  BY DEF Inv
<1> QED
  BY <1>1, Invariance, PTL

-----------------------------------------------------------------------------

(* The step of FairCharging.                                               *)
ChargeStep ==
  /\ \A i \in Schedulable :
       counter'[i] < counter[i] => i = current /\ counter'[i] = counter[i] - 1
  /\ (\E i \in Schedulable : counter'[i] > counter[i]) =>
       \A i \in Schedulable :
         /\ counter[i] = IF i = current THEN 1 ELSE 0
         /\ counter'[i] = priority[i]

(* A step that leaves the schedulable counters alone.                      *)
LEMMA UnchargedStep ==
  ASSUME TypeOK, \A i \in Schedulable : counter'[i] = counter[i]
  PROVE  ChargeStep
BY DEF ChargeStep, TypeOK, Schedulable

(* A call of schedule() charges nobody further, and refills only when the  *)
(* counters it was called with are all 0.                                  *)
LEMMA ScheduleCharges ==
  ASSUME TypeOK, NEW c \in [Slots -> 0 .. PRIORITY_MAX], NEW site, Schedule(c, site)
  PROVE  \/ counter' = c
         \/ Spent(c) /\ \A i \in Schedulable : counter'[i] = priority[i]
BY RefillFacts DEF Schedule

(* What a step of the kernel or of a task charges.                         *)
LEMMA NextCharges == Inv /\ [Next]_vars => ChargeStep \/ UNCHANGED vars
<1> SUFFICES ASSUME Inv, [Next]_vars PROVE ChargeStep \/ UNCHANGED vars
  OBVIOUS
<1>1. \A i \in Schedulable : counter[i] \in 0 .. PRIORITY_MAX /\ i \in Slots
  BY DEF Inv, TypeOK, Schedulable
<1>2. CASE StartSchedule
  <2>1. counter \in [Slots -> 0 .. PRIORITY_MAX]
    BY DEF Inv, TypeOK
  <2>2. CASE counter' = counter
    BY <2>2, UnchargedStep DEF Inv
  <2>3. CASE Spent(counter) /\ \A i \in Schedulable : counter'[i] = priority[i]
    <3>1. current \notin Schedulable
      BY <1>2 DEF StartSchedule, Schedulable
    <3> QED
      BY <1>1, <2>3, <3>1 DEF ChargeStep, Spent, Inv, TypeOK, Priorities
  <2> QED
    BY <1>2, <2>1, <2>2, <2>3, ScheduleCharges DEF StartSchedule, Inv
<1>3. CASE Timer
  <2>1. Charged \in [Slots -> 0 .. PRIORITY_MAX]
    BY ChargedFacts DEF Inv
  <2>2. \A i \in Schedulable :
          Charged[i] = counter[i] \/ (i = current /\ Charged[i] = counter[i] - 1)
    BY <1>1, ChargedFacts DEF Inv
  <2>3. CASE counter' = Charged
    BY <1>1, <2>2, <2>3 DEF ChargeStep
  <2>4. CASE Spent(Charged) /\ \A i \in Schedulable : counter'[i] = priority[i]
    <3>1. ASSUME NEW i \in Schedulable PROVE counter[i] = IF i = current THEN 1 ELSE 0
      <4>1. Charged[i] = 0
        BY <2>4 DEF Spent
      <4>2. i = current => counter[i] > 0
        BY DEF Inv, RunningHasTime, Schedulable
      <4>3. current # Idle /\ counter[current] # 0 => Charged = [counter EXCEPT ![current] = @ - 1]
        BY DEF Charged
      <4> QED
        BY <1>1, <2>2, <4>1, <4>2, <4>3 DEF Inv, TypeOK, Schedulable
    <3>2. \A i \in Schedulable : counter'[i] \in Nat \ {0}
      BY <2>4 DEF Inv, TypeOK, Priorities
    <3> QED
      BY <1>1, <2>4, <3>1, <3>2 DEF ChargeStep
  <2> QED
    BY <1>3, <2>1, <2>3, <2>4, ScheduleCharges DEF Timer, Inv
<1>4. CASE Fork
  <2>1. PICK child \in Slots :
          FirstFree(child) /\ counter' = [counter EXCEPT ![child] = counter[current]]
    BY <1>4 DEF Fork
  <2>2. \A i \in Schedulable : counter'[i] = counter[i]
    BY <1>1, <2>1 DEF Inv, TypeOK, FirstFree, FreeSlots, Schedulable
  <2> QED
    BY <2>2, UnchargedStep DEF Inv
<1>5. CASE Getpid \/ ForkTableFull \/ FaultNoVma
  BY <1>5, UnchargedStep DEF Getpid, ForkTableFull, FaultNoVma, Inv
<1> QED
  BY <1>2, <1>3, <1>4, <1>5 DEF Next

(* Ticks are charged to the running task alone, and every task gets its    *)
(* priority at the start of each round (do_timer, schedule_priority).      *)
THEOREM ChargesFairly == Spec => FairCharging
<1>1. Inv /\ [Next]_vars => [ChargeStep]_vars
  BY NextCharges
<1> QED
  BY <1>1, Invariance, PTL DEF Spec, FairCharging, ChargeStep

-----------------------------------------------------------------------------
(* How long a task waits.  The ticks that can pass before it is its turn   *)
(* are counted as a set: a pair of a slot and a number for every tick the  *)
(* task of the slot has left.  A slot that has no task yet will get at     *)
(* most what its parent has.                                               *)

Left == [j \in Slots |-> IF j \in live THEN counter[j] ELSE PRIORITY_MAX]

Tokens(i, left) ==
  {k \in (Slots \ {Idle, i}) \X (1 .. PRIORITY_MAX) : k[2] <= left[k[1]]}

Round == (NR_TASKS - 2) * PRIORITY_MAX

LEMMA RoundFacts == Round \in Nat /\ Longest = 2 * Round
<1>1. NR_TASKS - 2 \in Nat /\ PRIORITY_MAX \in Nat
  OBVIOUS
<1>2. \A a, b \in Nat : a * b \in Nat /\ 2 * a * b = 2 * (a * b)
  OBVIOUS
<1> QED
  BY <1>1, <1>2 DEF Round, Longest

(* A round is the most the others can have left; who has a tick less has   *)
(* a token less.                                                           *)
LEMMA TokensFacts ==
  ASSUME NEW i \in Slots, i # Idle, NEW l \in [Slots -> 0 .. PRIORITY_MAX]
  PROVE  /\ IsFiniteSet(Tokens(i, l)) /\ Cardinality(Tokens(i, l)) \in 0 .. Round
         /\ \A j \in Slots \ {Idle, i} : l[j] > 0 => Cardinality(Tokens(i, l)) > 0
<1> DEFINE others == Slots \ {Idle, i}
           all    == others \X (1 .. PRIORITY_MAX)
<1>1. IsFiniteSet(Slots) /\ Cardinality(Slots) = NR_TASKS
  BY FS_Interval DEF Slots
<1>2. IsFiniteSet(Slots \ {i}) /\ Cardinality(Slots \ {i}) = NR_TASKS - 1
  BY <1>1, FS_RemoveElement
<1>3. Idle \in Slots \ {i} /\ others = (Slots \ {i}) \ {Idle}
  BY DEF Idle, Slots
<1>4. IsFiniteSet(others) /\ Cardinality(others) = NR_TASKS - 2
  <2>1. /\ IsFiniteSet((Slots \ {i}) \ {Idle})
        /\ Cardinality((Slots \ {i}) \ {Idle}) = Cardinality(Slots \ {i}) - 1
    BY <1>2, <1>3, FS_RemoveElement
  <2> QED
    BY <1>2, <1>3, <2>1
<1>5. IsFiniteSet(1 .. PRIORITY_MAX) /\ Cardinality(1 .. PRIORITY_MAX) = PRIORITY_MAX
  BY FS_Interval
<1>6. IsFiniteSet(all) /\ Cardinality(all) = Round
  BY <1>4, <1>5, FS_Product DEF Round
<1>7. Tokens(i, l) \in SUBSET all
  BY DEF Tokens
<1> HIDE DEF all
<1>8. IsFiniteSet(Tokens(i, l)) /\ Cardinality(Tokens(i, l)) <= Round
  BY <1>6, <1>7, FS_Subset
<1>9. Cardinality(Tokens(i, l)) \in Nat
  BY <1>8, FS_CardinalityType
<1>10. ASSUME NEW j \in Slots \ {Idle, i}, l[j] > 0 PROVE Cardinality(Tokens(i, l)) > 0
  <2>1. <<j, l[j]>> \in Tokens(i, l)
    BY <1>10 DEF Tokens
  <2>2. Cardinality(Tokens(i, l)) # 0
    BY <1>8, <2>1, FS_EmptySet
  <2> QED
    BY <1>9, <2>2
<1> QED
  BY <1>8, <1>9, <1>10, RoundFacts

LEMMA FewerTokens ==
  ASSUME NEW i \in Slots, i # Idle,
         NEW l \in [Slots -> 0 .. PRIORITY_MAX], NEW m \in [Slots -> 0 .. PRIORITY_MAX],
         \A j \in Slots \ {Idle, i} : m[j] <= l[j]
  PROVE  /\ Cardinality(Tokens(i, m)) <= Cardinality(Tokens(i, l))
         /\ \A j \in Slots \ {Idle, i} :
              m[j] < l[j] => Cardinality(Tokens(i, m)) < Cardinality(Tokens(i, l))
<1>1. IsFiniteSet(Tokens(i, l)) /\ Cardinality(Tokens(i, l)) \in Nat
      /\ Cardinality(Tokens(i, m)) \in Nat
  BY TokensFacts, RoundFacts
<1>2. Tokens(i, m) \in SUBSET Tokens(i, l)
  <2> SUFFICES ASSUME NEW k \in Tokens(i, m) PROVE k \in Tokens(i, l)
    OBVIOUS
  <2>1. k[1] \in Slots \ {Idle, i} /\ k[2] \in 1 .. PRIORITY_MAX /\ k[2] <= m[k[1]]
    BY DEF Tokens
  <2>2. k[2] <= l[k[1]]
    BY <2>1
  <2> QED
    BY <2>2 DEF Tokens
<1>3. ASSUME NEW j \in Slots \ {Idle, i}, m[j] < l[j]
      PROVE  Cardinality(Tokens(i, m)) < Cardinality(Tokens(i, l))
  <2>1. <<j, l[j]>> \in Tokens(i, l)
    BY <1>3 DEF Tokens
  <2>2. <<j, l[j]>> \notin Tokens(i, m)
    BY <1>3 DEF Tokens
  <2> QED
    BY <1>1, <1>2, <2>1, <2>2, FS_Subset
<1> QED
  BY <1>1, <1>2, <1>3, FS_Subset

(* A task that has time left waits for the rest of this round at most; one *)
(* that has none for the rest of this round and for the next one.          *)
Patience(i) == IF counter[i] > 0 THEN 2 * Round + 1 ELSE Round + 1

WaitInv ==
  /\ Inv
  /\ waited \in [Slots -> Nat]
  /\ \A i \in Slots : i \notin live \ {Idle, current} \/ halted => waited[i] = 0
  /\ current = Idle => live = {Idle, First}  /\ waited[First] = 0
  /\ \A i \in Schedulable : waited[i] + Cardinality(Tokens(i, Left)) <= Patience(i)

(* The arithmetic of a step: w ticks waited, t tokens ahead.               *)
LEMMA Arithmetic ==
  /\ \A w \in 0 .. 1, t \in 0 .. Round, c \in Nat :
       w + t <= IF c > 0 THEN 2 * Round + 1 ELSE Round + 1
  /\ \A w, v \in Nat, t \in 0 .. Round, c \in Nat :
       w <= v + 1 /\ v <= Round /\ c > 0
         => w + t <= IF c > 0 THEN 2 * Round + 1 ELSE Round + 1
<1>1. ASSUME NEW w \in 0 .. 1, NEW t \in 0 .. Round, NEW c \in Nat
      PROVE  w + t <= IF c > 0 THEN 2 * Round + 1 ELSE Round + 1
  BY RoundFacts
<1>2. ASSUME NEW w \in Nat, NEW v \in Nat, NEW t \in 0 .. Round, NEW c \in Nat,
             w <= v + 1, v <= Round, c > 0
      PROVE  w + t <= IF c > 0 THEN 2 * Round + 1 ELSE Round + 1
  BY <1>2, RoundFacts
<1> QED
  BY <1>1, <1>2

LEMMA LeftType == TypeOK => Left \in [Slots -> 0 .. PRIORITY_MAX]
BY DEF TypeOK, Left

(* Somebody has to run for a task to wait, and has a tick left.            *)
LEMMA WaitBounded ==
  ASSUME WaitInv
  PROVE  /\ BoundedWait
         /\ \A i \in Schedulable : counter[i] = 0 => waited[i] <= Round
<1> SUFFICES ASSUME NEW i \in Schedulable
             PROVE  waited[i] <= Longest /\ (counter[i] = 0 => waited[i] <= Round)
  BY DEF BoundedWait
<1>1. i \in Slots /\ i # Idle /\ i \in live /\ counter[i] \in Nat /\ waited[i] \in Nat
  BY DEF WaitInv, Inv, TypeOK, Schedulable
<1>2. CASE waited[i] = 0
  BY <1>2, RoundFacts
<1>3. CASE waited[i] # 0
  <2>1. current # i /\ ~halted
    BY <1>1, <1>3 DEF WaitInv
  <2>2. current # Idle
    BY <1>1, <1>3 DEF WaitInv, First, Idle
  <2>3. current \in Slots \ {Idle, i} /\ Left[current] > 0
    BY <2>1, <2>2 DEF WaitInv, Inv, TypeOK, RunningHasTime, Left
  <2>4. Cardinality(Tokens(i, Left)) \in Nat /\ Cardinality(Tokens(i, Left)) > 0
    BY <1>1, <2>3, TokensFacts, LeftType, RoundFacts DEF WaitInv, Inv
  <2>5. waited[i] + Cardinality(Tokens(i, Left)) <= Patience(i)
    BY DEF WaitInv
  <2> QED
    BY <1>1, <2>4, <2>5, RoundFacts DEF Patience
<1> QED
  BY <1>2, <1>3

(* The history variable, in a step of the kernel or of a task.             *)
LEMMA WaitsFacts ==
  ASSUME waited \in [Slots -> Nat], NEW tick \in {0, 1}, Waits(tick)
  PROVE  /\ waited' \in [Slots -> Nat]
         /\ \A i \in Slots : waited'[i] <= waited[i] + tick
         /\ \A i \in Slots : i \notin live' \ {Idle, current'} \/ halted' => waited'[i] = 0
BY DEF Waits

(* A task that has just run, or does not exist, has all its patience.      *)
LEMMA NotWaiting ==
  ASSUME TypeOK, NEW i \in Slots, i # Idle, waited[i] \in 0 .. 1
  PROVE  waited[i] + Cardinality(Tokens(i, Left)) <= Patience(i)
<1>1. Cardinality(Tokens(i, Left)) \in 0 .. Round
  BY TokensFacts, LeftType
<1> QED
  BY <1>1, RoundFacts DEF Patience

LEMMA InitWait == MCInit => WaitInv
<1> SUFFICES ASSUME MCInit PROVE WaitInv
  OBVIOUS
<1>1. Inv
  BY InitInv DEF MCInit
<1>2. waited = [i \in Slots |-> 0] /\ First \in Slots
  BY DEF MCInit, First, Slots
<1>3. \A i \in Schedulable : waited[i] + Cardinality(Tokens(i, Left)) <= Patience(i)
  BY <1>1, <1>2, NotWaiting DEF Inv, TypeOK, Schedulable
<1> QED
  BY <1>1, <1>2, <1>3 DEF WaitInv, MCInit, Init

LEMMA TimerWait ==
  ASSUME WaitInv, Inv', Timer, Waits(1)
  PROVE  WaitInv'
<1>1. /\ live' = live /\ halted' = halted /\ halted = FALSE /\ Schedulable' = Schedulable
      /\ \A i \in Schedulable : i \in Slots /\ i # Idle /\ i \in live
  BY DEF Timer, Schedulable, WaitInv, Inv, TypeOK
<1>2. /\ waited' \in [Slots -> Nat]
      /\ \A i \in Slots : waited'[i] <= waited[i] + 1
      /\ \A i \in Slots : i \notin live' \ {Idle, current'} \/ halted' => waited'[i] = 0
  BY WaitsFacts DEF WaitInv
<1>3. Left' \in [Slots -> 0 .. PRIORITY_MAX] /\ Left \in [Slots -> 0 .. PRIORITY_MAX]
  BY LeftType DEF WaitInv, Inv, TypeOK, Left
<1>4. Charged \in [Slots -> 0 .. PRIORITY_MAX]
  BY ChargedFacts DEF WaitInv, Inv
<1>5. \/ counter' = Charged
      \/ Spent(Charged) /\ \A i \in Schedulable : counter'[i] = priority[i]
  BY <1>4, ScheduleCharges DEF Timer, WaitInv, Inv
<1>6. current' # Idle
  <2>1. MustSchedule => \E next \in Schedulable : current' = next
    BY DEF Timer, Schedule, SwitchTo
  <2> QED
    BY <1>1, <2>1 DEF Timer, MustSchedule
<1>7. ASSUME NEW i \in Schedulable, NEW w, w = waited'[i], NEW t, t = Cardinality(Tokens(i, Left'))
      PROVE  w + t <= IF counter'[i] > 0 THEN 2 * Round + 1 ELSE Round + 1
  <2>1. i \in Slots /\ i # Idle /\ i \in live /\ w \in Nat /\ waited[i] \in Nat
        /\ counter'[i] \in Nat /\ w <= waited[i] + 1
    BY <1>1, <1>2, <1>7 DEF WaitInv, Inv, TypeOK
  <2>2. t \in 0 .. Round
    BY <1>3, <1>7, <2>1, TokensFacts
  <2>3. CASE w \in 0 .. 1
    BY <2>1, <2>2, <2>3, Arithmetic
  <2>4. CASE w \notin 0 .. 1
    <3>1. i # current' /\ waited[i] # 0
      BY <1>1, <1>2, <1>7, <2>1, <2>4
    <3>2. i # current /\ current # Idle
      BY <1>1, <2>1, <3>1 DEF WaitInv, First, Idle
    <3>3. current \in Slots \ {Idle, i} /\ current \in live /\ counter[current] > 0
          /\ Charged = [counter EXCEPT ![current] = counter[current] - 1]
          /\ counter \in [Slots -> 0 .. PRIORITY_MAX]
      BY <3>2 DEF WaitInv, Inv, TypeOK, RunningHasTime, Charged
    <3>4. CASE counter' = Charged
      <4>1. counter'[i] = counter[i]
        BY <2>1, <3>2, <3>3, <3>4
      <4>2. /\ \A j \in Slots \ {Idle, i} : Left'[j] <= Left[j]
            /\ Left'[current] < Left[current]
        BY <1>1, <3>3, <3>4 DEF Left
      <4>3. t < Cardinality(Tokens(i, Left))
        BY <1>3, <1>7, <2>1, <3>3, <4>2, FewerTokens
      <4>4. waited[i] + Cardinality(Tokens(i, Left)) <= Patience(i)
        BY DEF WaitInv
      <4>5. Cardinality(Tokens(i, Left)) \in Nat
        BY <1>3, <2>1, TokensFacts, RoundFacts
      <4>6. w + t <= Patience(i)
        <5> DEFINE u == Cardinality(Tokens(i, Left))
        <5>1. u \in Nat /\ t < u /\ waited[i] + u <= Patience(i)
          BY <4>3, <4>4, <4>5
        <5> HIDE DEF u
        <5>2. Patience(i) \in Nat
          BY RoundFacts DEF Patience
        <5> QED
          BY <2>1, <2>2, <5>1, <5>2, RoundFacts
      <4> QED
        BY <4>1, <4>6 DEF Patience
    <3>5. CASE Spent(Charged) /\ \A j \in Schedulable : counter'[j] = priority[j]
      <4>1. counter[i] = 0
        BY <1>7, <2>1, <3>2, <3>3, <3>5 DEF Spent
      <4>2. waited[i] <= Round
        BY <1>7, <4>1, WaitBounded
      <4>3. counter'[i] > 0
        BY <1>7, <3>5 DEF WaitInv, Inv, TypeOK, Priorities
      <4> QED
        BY <2>1, <2>2, <4>2, <4>3, Arithmetic
    <3> QED
      BY <1>5, <3>4, <3>5
  <2> QED
    BY <2>3, <2>4
<1>8. \A i \in Schedulable' : waited'[i] + Cardinality(Tokens(i, Left')) <= Patience(i)'
  BY <1>1, <1>7 DEF Patience
<1> QED
  BY <1>1, <1>2, <1>6, <1>8 DEF WaitInv

(* start_kernel's call, when there is one task.                            *)
LEMMA StartWait ==
  ASSUME WaitInv, Inv', StartSchedule, Waits(0)
  PROVE  WaitInv'
<1>1. live' = live /\ halted' = halted /\ live = {Idle, First} /\ Schedulable' = Schedulable
  BY DEF StartSchedule, WaitInv, Schedulable
<1>2. Schedulable = {First} /\ First \in Slots /\ First # Idle
  BY <1>1 DEF Schedulable, First, Idle, Slots
<1>3. current' = First
  BY <1>2 DEF StartSchedule, Schedule, SwitchTo
<1>4. waited' \in [Slots -> Nat] /\ \A i \in Slots : waited'[i] = 0
  <2>1. /\ waited' \in [Slots -> Nat]
        /\ \A i \in Slots : i \notin live' \ {Idle, current'} \/ halted' => waited'[i] = 0
    BY WaitsFacts DEF WaitInv
  <2> QED
    BY <1>1, <1>3, <2>1
<1>5. Left' \in [Slots -> 0 .. PRIORITY_MAX]
  BY DEF Inv, TypeOK, Left
<1>6. Cardinality(Tokens(First, Left')) \in 0 .. Round
  BY <1>2, <1>5, TokensFacts
<1>7. waited'[First] + Cardinality(Tokens(First, Left')) <= Patience(First)'
  BY <1>2, <1>4, <1>6, RoundFacts DEF Patience
<1> QED
  BY <1>1, <1>2, <1>3, <1>4, <1>7 DEF WaitInv

(* What a task does between two ticks: only fork creates one, which runs.  *)
LEMMA UserWait ==
  ASSUME WaitInv, Inv', Waits(0), Getpid \/ Fork \/ ForkTableFull \/ FaultNoVma
  PROVE  WaitInv'
<1>1. /\ waited' \in [Slots -> Nat]
      /\ \A i \in Slots : waited'[i] <= waited[i]
      /\ \A i \in Slots : i \notin live' \ {Idle, current'} \/ halted' => waited'[i] = 0
  <2>1. \A i \in Slots : waited[i] \in Nat /\ waited[i] + 0 = waited[i]
    BY DEF WaitInv
  <2>2. /\ waited' \in [Slots -> Nat]
        /\ \A i \in Slots : waited'[i] <= waited[i] + 0
        /\ \A i \in Slots : i \notin live' \ {Idle, current'} \/ halted' => waited'[i] = 0
    BY WaitsFacts DEF WaitInv
  <2> QED
    BY <2>1, <2>2
<1>2. current' # Idle
  BY DEF Getpid, Fork, ForkTableFull, FaultNoVma, InUser, SwitchTo, FirstFree, FreeSlots
<1>3. Left' \in [Slots -> 0 .. PRIORITY_MAX] /\ Left \in [Slots -> 0 .. PRIORITY_MAX]
  BY LeftType DEF WaitInv, Inv, TypeOK, Left
<1>4. ASSUME NEW i \in Schedulable', NEW w, w = waited'[i],
             NEW t, t = Cardinality(Tokens(i, Left'))
      PROVE  w + t <= IF counter'[i] > 0 THEN 2 * Round + 1 ELSE Round + 1
  <2>1. i \in Slots /\ i # Idle /\ i \in live' /\ w \in Nat /\ waited[i] \in Nat
        /\ counter'[i] \in Nat /\ w <= waited[i]
    BY <1>1, <1>4 DEF WaitInv, Inv, TypeOK, Schedulable
  <2>2. t \in 0 .. Round
    BY <1>3, <1>4, <2>1, TokensFacts
  <2>3. CASE w = 0
    BY <2>1, <2>2, <2>3, Arithmetic
  <2>4. CASE w # 0
    <3>1. waited[i] # 0 /\ i # current'
      BY <1>1, <1>4, <2>1, <2>4
    <3>2. i \in live /\ i \in Schedulable /\ counter'[i] = counter[i]
          /\ \A j \in Slots : Left'[j] <= Left[j]
      <4>1. CASE Getpid \/ ForkTableFull \/ FaultNoVma
        <5>1. live' = live /\ counter' = counter
          BY <4>1 DEF Getpid, ForkTableFull, FaultNoVma
        <5>2. Left' = Left
          BY <5>1 DEF Left
        <5> QED
          BY <1>3, <2>1, <5>1, <5>2 DEF Schedulable
      <4>2. CASE Fork
        <5>1. PICK child \in Slots :
                /\ FirstFree(child) /\ live' = live \cup {child} /\ current' = child
                /\ counter' = [counter EXCEPT ![child] = counter[current]]
          BY <4>2 DEF Fork, SwitchTo
        <5>2. child \notin live /\ i \in live /\ counter \in [Slots -> 0 .. PRIORITY_MAX]
              /\ current \in Slots
          BY <2>1, <3>1, <5>1 DEF FirstFree, FreeSlots, WaitInv, Inv, TypeOK
        <5> QED
          BY <2>1, <3>1, <5>1, <5>2 DEF Left, Schedulable
      <4> QED
        BY <4>1, <4>2
    <3>3. t <= Cardinality(Tokens(i, Left))
      BY <1>3, <1>4, <2>1, <3>2, FewerTokens
    <3>4. waited[i] + Cardinality(Tokens(i, Left)) <= Patience(i)
      BY <3>2 DEF WaitInv
    <3>5. Cardinality(Tokens(i, Left)) \in Nat
      BY <1>3, <2>1, TokensFacts, RoundFacts
    <3>6. w + t <= Patience(i)
      <4> DEFINE u == Cardinality(Tokens(i, Left))
      <4>1. u \in Nat /\ t <= u /\ waited[i] + u <= Patience(i)
        BY <3>3, <3>4, <3>5
      <4> HIDE DEF u
      <4>2. Patience(i) \in Nat
        BY RoundFacts DEF Patience
      <4> QED
        BY <2>1, <2>2, <4>1, <4>2, RoundFacts
    <3> QED
      BY <3>2, <3>6 DEF Patience
  <2> QED
    BY <2>3, <2>4
<1>5. \A i \in Schedulable' : waited'[i] + Cardinality(Tokens(i, Left')) <= Patience(i)'
  BY <1>4 DEF Patience
<1> QED
  BY <1>1, <1>2, <1>5 DEF WaitInv

LEMMA NextWait == WaitInv /\ [MCNext]_mcvars => WaitInv'
<1> SUFFICES ASSUME WaitInv, [MCNext]_mcvars PROVE WaitInv'
  OBVIOUS
<1>1. Inv'
  BY NextInv DEF WaitInv, MCNext, MCClockInit, MCStart, MCTimer, MCElapse, MCUser, Next, mcvars, vars
<1>2. CASE UNCHANGED <<vars, waited>>
  BY <1>1, <1>2 DEF vars, WaitInv, Patience, Left, Schedulable
<1>3. CASE MCStart
  BY <1>1, <1>3, StartWait DEF MCStart
<1>4. CASE MCTimer
  BY <1>1, <1>4, TimerWait DEF MCTimer
<1>5. CASE MCUser
  BY <1>1, <1>5, UserWait DEF MCUser
<1> QED
  BY <1>2, <1>3, <1>4, <1>5 DEF MCNext, MCClockInit, MCElapse, mcvars

(* No task waits longer than two rounds of everybody else's slices, also   *)
(* when the others fork and their children inherit running time (do_timer, *)
(* schedule_priority, sys_fork).                                           *)
THEOREM WaitsAreBounded == MCSpec => []BoundedWait
<1>1. WaitInv => BoundedWait
  BY WaitBounded
<1> QED
  BY <1>1, InitWait, NextWait, PTL DEF MCSpec

-----------------------------------------------------------------------------
(***************************************************************************)
(* The kernel with either scheduler under the four programs (Sjf and       *)
(* UserMain), for every largest time, with room for the processes of every *)
(* program.                                                                *)
(*                                                                         *)
(* With the priority scheduler the kernel is the one of Tasks and keeps    *)
(* Inv; TableOK and TimesOK say the same of the other one.  On top of      *)
(* them, ProgramInv says for every place of a program what has to be true  *)
(* of a process that is about to go on there.                              *)
(***************************************************************************)
USE TimeAssumption, UserAssumption

(* The table has room for the processes of every program.                  *)
EnoughSlots == NR_TASKS >= 5

-----------------------------------------------------------------------------
(* The kernel.                                                             *)

TableOK ==
  /\ live \subseteq Slots /\ {Idle, First} \subseteq live
  /\ pid \in [Slots -> Slots]
  /\ current \in live
  /\ ra \in [Slots -> Sites]
  /\ ret \in [Slots -> Slots \cup {NoReturn}]
  /\ RetIsOwn /\ PidIsSlot

(* Times of schedule_short_first: a task is hung or has time left, and the *)
(* running one has.                                                        *)
TimesOK ==
  /\ counter \in [Slots -> 0 .. HUNG]
  /\ \A i \in Schedulable : counter[i] \in 1 .. HUNG
  /\ current # Idle => counter[current] \in 1 .. MAX_TIME

KernelInv ==
  /\ prio_sched \in BOOLEAN /\ ~halted
  /\ TableOK
  /\ prio_sched => Inv
  /\ ~prio_sched => TimesOK

LEMMA SlotsFacts ==
  /\ Idle \in Slots /\ First \in Slots
  /\ EnoughSlots => 2 \in Slots /\ 3 \in Slots /\ 4 \in Slots
BY DEF Slots, Idle, First, EnoughSlots

LEMMA TableFromInv == Inv => TableOK
BY DEF Inv, TypeOK, TableOK

LEMMA InitKernelInv == SInit => KernelInv
<1> SUFFICES ASSUME SInit PROVE KernelInv
  OBVIOUS
<1>1. Idle \in Slots /\ First \in Slots /\ Idle # First
  BY SlotsFacts DEF Idle, First
<1>2. Schedulable = {First}
  BY <1>1 DEF SInit, Schedulable
<1>3. TableOK
  <2>1. /\ ra = [i \in Slots |-> IF i = First THEN "__dummy" ELSE "start_kernel"]
        /\ {"__dummy", "start_kernel"} \subseteq Sites
    BY DEF SInit, Sites
  <2>2. ra \in [Slots -> Sites]
    BY <2>1
  <2>3. pid \in [Slots -> Slots] /\ ret \in [Slots -> Slots \cup {NoReturn}]
    BY <1>1 DEF SInit, Idle
  <2>4. RetIsOwn /\ PidIsSlot
    BY <1>1, <1>2 DEF SInit, RetIsOwn, PidIsSlot, Idle, First
  <2> QED
    BY <1>1, <2>2, <2>3, <2>4 DEF SInit, TableOK
<1>4. prio_sched => Inv
  <2>1. prio_sched => Init
    BY DEF SInit, Init
  <2> QED
    BY <2>1, InitInv
<1>5. ~prio_sched => TimesOK
  BY <1>1, <1>2 DEF SInit, TimesOK, HUNG
<1> QED
  BY <1>3, <1>4, <1>5 DEF SInit, KernelInv

(* What a call of schedule() does to the tasks, with either scheduler: the *)
(* one that goes on was suspended in a clone, and answers its own pid, or  *)
(* was not.                                                                *)
Switches ==
  /\ current' \in live \ {Idle} \/ UNCHANGED current
  /\ \A i \in Slots :
       /\ ret'[i] = IF i = current' /\ i # current /\ ra[i] = "sys_fork" THEN i ELSE ret[i]
       /\ i # current => ra'[i] = ra[i]
       /\ ra'[i] = "sys_fork" => ra[i] = "sys_fork"
  /\ ra' \in [Slots -> Sites]
  /\ ret' \in [Slots -> Slots \cup {NoReturn}]

LEMMA SwitchToSwitches ==
  ASSUME TableOK, NEW next \in Schedulable, NEW site \in Sites, site # "sys_fork",
         SwitchTo(next, site, ra, ret)
  PROVE  Switches
<1>1. next \in Slots /\ current \in Slots /\ pid[next] = next
  BY DEF TableOK, Schedulable, PidIsSlot
<1>2. ra' = [ra EXCEPT ![current] = site] /\ current' = next
  BY DEF SwitchTo
<1>3. ra' \in [Slots -> Sites]
  BY <1>1, <1>2 DEF TableOK
<1>4. ret' = IF ra'[next] = "sys_fork" THEN [ret EXCEPT ![next] = next] ELSE ret
  BY <1>1, <1>2 DEF SwitchTo
<1>5. ra'[next] = IF next = current THEN site ELSE ra[next]
  BY <1>1, <1>2 DEF TableOK
<1>6. ret' \in [Slots -> Slots \cup {NoReturn}]
  BY <1>1, <1>4 DEF TableOK
<1> QED
  BY <1>1, <1>2, <1>3, <1>4, <1>5, <1>6 DEF TableOK, Switches, Schedulable

LEMMA SwitchesTable ==
  ASSUME TableOK, Switches, UNCHANGED <<live, pid>>
  PROVE  TableOK'
<1>1. RetIsOwn'
  BY DEF TableOK, Switches, RetIsOwn, Schedulable, Idle, First, NoReturn
<1> QED
  BY <1>1 DEF TableOK, Switches, PidIsSlot
(* A call of schedule_short_first: the next task has time left, since one  *)
(* task at least is not hung or all have drawn new times.                  *)
LEMMA ShortestFacts ==
  ASSUME TableOK, NEW c \in [Slots -> 0 .. HUNG], NEW site,
         \A i \in Schedulable : i # current => c[i] \in 1 .. HUNG,
         schedule_short_first(c, site)
  PROVE  /\ counter' \in [Slots -> 0 .. HUNG]
         /\ \A i \in Schedulable : counter'[i] \in 1 .. HUNG
         /\ current' \in Schedulable /\ counter'[current'] \in 1 .. MAX_TIME
         /\ counter' = Hung(c) \/ AllHung(Hung(c))
         /\ \E next \in Schedulable : SwitchTo(next, site, ra, ret)
<1>1. PICK filled \in IF AllHung(Hung(c)) THEN assign_counter(Hung(c)) ELSE {Hung(c)},
           next \in Schedulable :
             Shortest(filled, next) /\ counter' = filled /\ SwitchTo(next, site, ra, ret)
  BY DEF schedule_short_first
<1>2. /\ Hung(c) \in [Slots -> 0 .. HUNG]
      /\ \A i \in Schedulable : Hung(c)[i] \in 1 .. HUNG
  <2>1. current \in Slots /\ HUNG \in 1 .. HUNG
    BY DEF TableOK, HUNG
  <2> QED
    BY <2>1 DEF Hung, Schedulable, TableOK
<1>3. /\ filled \in [Slots -> 0 .. HUNG]
      /\ \A i \in Schedulable : filled[i] \in 1 .. HUNG
      /\ \E i \in Schedulable : filled[i] \in 1 .. MAX_TIME
  <2>1. CASE AllHung(Hung(c))
    <3>1. PICK a \in [Schedulable -> 1 .. MAX_TIME] :
            filled = [i \in Slots |-> IF i \in Schedulable THEN a[i] ELSE Hung(c)[i]]
      BY <1>1, <2>1 DEF assign_counter
    <3>2. \A i \in Schedulable : i \in Slots /\ filled[i] = a[i]
      BY <3>1 DEF TableOK, Schedulable
    <3>3. 1 .. MAX_TIME \subseteq 0 .. HUNG /\ 1 .. MAX_TIME \subseteq 1 .. HUNG
      BY DEF HUNG
    <3>4. First \in Schedulable
      BY DEF TableOK, Schedulable, First, Idle
    <3> QED
      BY <1>2, <3>1, <3>2, <3>3, <3>4
  <2>2. CASE ~AllHung(Hung(c))
    BY <1>1, <1>2, <2>2 DEF AllHung, HUNG
  <2> QED
    BY <2>1, <2>2
<1>4. filled[next] \in 1 .. MAX_TIME
  BY <1>1, <1>3 DEF Shortest
<1> QED
  BY <1>1, <1>3, <1>4 DEF SwitchTo

(* A step of either scheduler.                                             *)
LEMMA SchedulerKernelInv ==
  ASSUME KernelInv, SchedulerStep
  PROVE  KernelInv' /\ Switches /\ UNCHANGED <<live, pid, prio_sched>>
<1>1. TableOK /\ UNCHANGED <<live, pid, priority, prio_sched, halted>>
  BY DEF KernelInv, SchedulerStep, StartSchedule, Timer, SStart, STimer
<1>2. UNCHANGED <<current, ra, ret>> => Switches
  BY <1>1 DEF Switches, TableOK
<1>3. {"start_kernel", "do_timer"} \subseteq Sites
  BY DEF Sites
<1>4. CASE prio_sched
  <2>1. StartSchedule \/ Timer
    BY <1>4 DEF SchedulerStep
  <2>2. Inv'
    BY <1>4, <2>1, NextInv DEF Next, KernelInv
  <2>3. Switches
    BY <1>1, <1>2, <1>3, <2>1, SwitchToSwitches DEF StartSchedule, Timer, Schedule
  <2> QED
    BY <1>1, <1>4, <2>2, <2>3, SwitchesTable DEF KernelInv
<1>5. CASE ~prio_sched
  <2> USE DEF KernelInv
  <2>1. /\ counter \in [Slots -> 0 .. HUNG]
        /\ \A i \in Schedulable : counter[i] \in 1 .. HUNG
        /\ current # Idle => counter[current] \in 1 .. MAX_TIME
    BY <1>5 DEF TimesOK
  <2>2. /\ Charged \in [Slots -> 0 .. HUNG]
        /\ \A i \in Slots : i # current => Charged[i] = counter[i]
        /\ current # Idle => Charged[current] = counter[current] - 1
    BY <1>1, <2>1 DEF Charged, TableOK, HUNG
  <2>3. SStart \/ STimer
    BY <1>5 DEF SchedulerStep
  <2>4. CASE ~MustSchedule /\ counter' = Charged /\ UNCHANGED <<current, ra, ret>>
    <3>1. /\ current # Idle /\ counter'[current] \in 1 .. MAX_TIME
          /\ \A i \in Schedulable : counter'[i] \in 1 .. HUNG
      BY <2>1, <2>2, <2>4 DEF MustSchedule, TableOK, Schedulable, HUNG
    <3>2. TimesOK'
      BY <1>1, <2>2, <2>4, <3>1 DEF TimesOK, Schedulable
    <3> QED
      BY <1>1, <1>2, <1>5, <2>4, <3>2, SwitchesTable
  <2>5. ASSUME NEW c \in {counter, Charged}, NEW site \in {"start_kernel", "do_timer"},
               schedule_short_first(c, site)
        PROVE  KernelInv' /\ Switches
    <3>1. c \in [Slots -> 0 .. HUNG] /\ \A i \in Schedulable : i # current => c[i] \in 1 .. HUNG
      BY <1>1, <2>1, <2>2, <2>5 DEF Schedulable, TableOK
    <3>2. /\ counter' \in [Slots -> 0 .. HUNG]
          /\ \A i \in Schedulable : counter'[i] \in 1 .. HUNG
          /\ current' \in Schedulable /\ counter'[current'] \in 1 .. MAX_TIME
          /\ \E next \in Schedulable : SwitchTo(next, site, ra, ret)
      BY <1>1, <2>5, <3>1, ShortestFacts
    <3>3. TimesOK'
      BY <1>1, <3>2 DEF TimesOK, Schedulable
    <3>4. Switches
      BY <1>1, <1>3, <3>2, SwitchToSwitches
    <3> QED
      BY <1>1, <1>5, <3>3, <3>4, SwitchesTable
  <2> QED
    BY <1>1, <2>3, <2>4, <2>5 DEF SStart, STimer
<1> QED
  BY <1>4, <1>5 DEF KernelInv
(* What clone does to the tasks: the child runs, and its parent waits in   *)
(* sys_fork.                                                               *)
ForksTo(child) ==
  /\ child \in FreeSlots /\ FirstFree(child)
  /\ current' = child /\ live' = live \cup {child}
  /\ counter' = [counter EXCEPT ![child] = counter[current]]
  /\ pid' = [pid EXCEPT ![child] = child]
  /\ ra' = [[ra EXCEPT ![child] = "__ret_from_fork"] EXCEPT ![current] = "sys_fork"]
  /\ ret' = [ret EXCEPT ![child] = 0]

LEMMA ForkForks ==
  ASSUME TableOK, Fork
  PROVE  \E child \in Slots : ForksTo(child) /\ child # current
<1>1. PICK child \in Slots, p \in Priorities :
       /\ FirstFree(child)
       /\ live'     = live \cup {child}
       /\ counter'  = [counter EXCEPT ![child] = counter[current]]
       /\ priority' = [priority EXCEPT ![child] = p]
       /\ pid'      = [pid EXCEPT ![child] = child]
       /\ SwitchTo(child, "sys_fork", [ra EXCEPT ![child] = "__ret_from_fork"],
                   [ret EXCEPT ![child] = 0])
  BY DEF Fork
<1>2. child \in FreeSlots /\ child # current /\ current \in Slots
  BY <1>1 DEF FirstFree, FreeSlots, TableOK
<1>3. [[ra EXCEPT ![child] = "__ret_from_fork"] EXCEPT ![current] = "sys_fork"][child]
        = "__ret_from_fork"
  BY <1>2 DEF TableOK
<1> QED
  BY <1>1, <1>2, <1>3 DEF ForksTo, SwitchTo

LEMMA ForkKernelInv ==
  ASSUME KernelInv, Fork, UNCHANGED prio_sched
  PROVE  KernelInv'
<1> USE DEF KernelInv
<1>1. UNCHANGED halted
  BY DEF Fork
<1>2. PICK child \in Slots : ForksTo(child) /\ child # current
  BY ForkForks
<1>3. current \in Schedulable /\ child \notin live /\ child # Idle /\ child # First
  BY <1>2 DEF Fork, InUser, TableOK, Schedulable, ForksTo, FreeSlots
<1>4. Schedulable' = Schedulable \cup {child}
  BY <1>2, <1>3 DEF Schedulable, ForksTo
<1>5. TableOK'
  <2>1. ra' \in [Slots -> Sites]
    BY <1>2 DEF TableOK, ForksTo, Sites
  <2>2. ret' \in [Slots -> Slots \cup {NoReturn}] /\ pid' \in [Slots -> Slots]
    BY <1>2, SlotsFacts DEF TableOK, ForksTo, Idle
  <2>3. RetIsOwn'
    BY <1>2, <1>3, <1>4 DEF TableOK, ForksTo, RetIsOwn, Schedulable
  <2>4. PidIsSlot'
    BY <1>2, <1>3 DEF TableOK, ForksTo, PidIsSlot
  <2> QED
    BY <1>2, <2>1, <2>2, <2>3, <2>4 DEF TableOK, ForksTo
<1>6. prio_sched => Inv'
  BY NextInv DEF Next
<1>7. ~prio_sched => TimesOK'
  <2>1. Schedulable \subseteq Slots
    BY DEF TableOK, Schedulable
  <2>2. SUFFICES ASSUME TimesOK PROVE TimesOK'
    OBVIOUS
  <2>3. /\ counter[current] \in 1 .. MAX_TIME /\ counter[current] \in 1 .. HUNG
        /\ counter[current] \in 0 .. HUNG
    BY <1>3, <2>2 DEF TimesOK, HUNG, Schedulable
  <2>4. \A i \in Slots : counter'[i] = IF i = child THEN counter[current] ELSE counter[i]
    BY <1>2, <2>2 DEF ForksTo, TimesOK
  <2>5. counter' \in [Slots -> 0 .. HUNG]
    BY <1>2, <2>2, <2>3 DEF ForksTo, TimesOK
  <2> QED
    BY <1>2, <1>4, <2>1, <2>2, <2>3, <2>4, <2>5 DEF ForksTo, TimesOK
<1> QED
  BY <1>1, <1>5, <1>6, <1>7

LEMMA GetpidKernelInv ==
  ASSUME KernelInv, Getpid, UNCHANGED prio_sched
  PROVE  KernelInv' /\ ret' = [ret EXCEPT ![current] = current]
<1> USE DEF KernelInv
<1>1. current \in Schedulable /\ current \in Slots /\ pid[current] = current
  BY DEF Getpid, InUser, TableOK, PidIsSlot, Schedulable
<1>2. ret' = [ret EXCEPT ![current] = current]
  BY <1>1 DEF Getpid
<1>3. TableOK'
  <2>1. RetIsOwn'
    BY <1>1, <1>2 DEF Getpid, TableOK, RetIsOwn, Schedulable
  <2> QED
    BY <1>1, <1>2, <2>1 DEF Getpid, TableOK, PidIsSlot
<1>4. prio_sched => Inv'
  BY NextInv DEF Next
<1>5. ~prio_sched => TimesOK'
  BY DEF Getpid, TimesOK, Schedulable
<1> QED
  BY <1>2, <1>3, <1>4, <1>5 DEF Getpid

LEMMA SameKernel == KernelInv /\ UNCHANGED svars => KernelInv'
<1> SUFFICES ASSUME KernelInv, UNCHANGED svars PROVE KernelInv'
  OBVIOUS
<1>1. UNCHANGED vars /\ UNCHANGED prio_sched
  BY DEF svars
<1>2. TableOK'
  BY <1>1 DEF KernelInv, vars, TableOK, RetIsOwn, PidIsSlot, Schedulable
<1>3. ~prio_sched => TimesOK'
  BY <1>1 DEF KernelInv, vars, TimesOK, Schedulable
<1>4. prio_sched => Inv'
  BY <1>1, NextInv DEF KernelInv
<1> QED
  BY <1>1, <1>2, <1>3, <1>4 DEF KernelInv, vars

-----------------------------------------------------------------------------
(* The programs.                                                           *)

Programs == {main, main1, main2, main3}

LEMMA MainOps ==
  /\ Len(main) = 9
  /\ main[1] = "clear" /\ main[2] = "getpid" /\ main[3] = "print" /\ main[4] = "fork"
  /\ main[5] = "getpid" /\ main[6] = "print" /\ main[7] = "fork"
  /\ main[8] = "getpid" /\ main[9] = "print"
BY DEF main, line_ops

LEMMA Main1Ops == Len(main1) = 3 /\ main1[1] = "fork" /\ main1[2] = "getpid" /\ main1[3] = "print"
BY DEF main1, line_ops

LEMMA Main2Ops ==
  /\ Len(main2) = 4
  /\ main2[1] = "fork" /\ main2[2] = "if" /\ main2[3] = "getpid" /\ main2[4] = "print"
BY DEF main2, line_ops

LEMMA Main3Ops ==
  /\ Len(main3) = 11
  /\ main3[1] = "clear" /\ main3[2] = "getpid" /\ main3[3] = "print"
  /\ main3[4] = "getpid" /\ main3[5] = "print" /\ main3[6] = "getpid" /\ main3[7] = "print"
  /\ main3[8] = "fork" /\ main3[9] = "if" /\ main3[10] = "getpid" /\ main3[11] = "print"
BY DEF main3, line_ops

LEMMA ProgramsDiffer ==
  main # main1 /\ main # main2 /\ main # main3 /\ main1 # main2 /\ main1 # main3 /\ main2 # main3
BY MainOps, Main1Ops, Main2Ops, Main3Ops
(* The operation behind the one at k.                                      *)
After(p, k) == IF k = Len(p) THEN Len(p) - 1 ELSE k + 1

LEMMA NextOps ==
  ASSUME NEW p \in Programs, NEW k \in 1 .. Len(p)
  PROVE  /\ After(p, k) \in 1 .. Len(p)
         /\ p[After(p, k)] = "if" => p[k] = "fork" /\ p \in {main2, main3}
         /\ k >= Len(p) - 1 \/ p[k] = "if" => After(p, k) >= Len(p) - 1
         /\ k >= Len(p) - 1 => p[k] # "fork"
<1>1. CASE p = main
  <2>1. k \in {1, 2, 3, 4, 5, 6, 7, 8, 9}
    BY <1>1, MainOps
  <2> QED
    BY <1>1, <2>1, MainOps DEF After
<1>2. CASE p = main1
  <2>1. k \in {1, 2, 3}
    BY <1>2, Main1Ops
  <2> QED
    BY <1>2, <2>1, Main1Ops DEF After
<1>3. CASE p = main2
  <2>1. k \in {1, 2, 3, 4}
    BY <1>3, Main2Ops
  <2> QED
    BY <1>3, <2>1, Main2Ops DEF After
<1>4. CASE p = main3
  <2>1. k \in {1, 2, 3, 4, 5, 6, 7, 8, 9, 10, 11}
    BY <1>4, Main3Ops
  <2> QED
    BY <1>4, <2>1, Main3Ops DEF After
<1> QED
  BY <1>1, <1>2, <1>3, <1>4 DEF Programs

(* A program with one fork, at f: nobody is behind it before it is done,   *)
(* and nobody before it then.                                              *)
ForkedOnce(f) ==
  \/ live = {Idle, First} /\ upc[First] <= f
  \/ live = {Idle, First, 2} /\ upc[First] > f /\ upc[2] > f

(* main forks at 4, and both processes then fork at 7.                     *)
ForkedTwice ==
  \/ live = {Idle, First} /\ upc[First] <= 4
  \/ live = {Idle, First, 2} /\ upc[First] \in 5 .. 7 /\ upc[2] \in 5 .. 7
  \/ /\ live = {Idle, First, 2, 3} /\ upc[3] >= 8
     /\ \/ upc[First] >= 8 /\ upc[2] \in 5 .. 7
        \/ upc[First] \in 5 .. 7 /\ upc[2] >= 8
  \/ live = {Idle, First, 2, 3, 4} /\ \A i \in 1 .. 4 : upc[i] >= 8

Progress ==
  /\ program = main  => ForkedTwice
  /\ program = main1 => ForkedOnce(1)
  /\ program = main2 => ForkedOnce(1)
  /\ program = main3 => ForkedOnce(8)

(* What a process needs to go on where it is.                              *)
MayBranch(i) ==
  program[upc[i]] = "if" =>
    IF i = First THEN ret[i] = i \/ (ra[i] = "sys_fork" /\ i # current)
    ELSE ret[i] = 0 /\ ra[i] # "sys_fork"
Sided(i)     == side[i] # "none" => upc[i] >= Len(program) - 1

(* What process i finds in global_variable, now or after a page fault.     *)
Content(i) == IF pte[i] = NoFrame THEN FILE_WORD ELSE page[pte[i]]
Counted(i) == Content(i) = (last[i] + 1) % VALUES

(* No two tables have the same frame.                                      *)
PagesApart == \A i, j \in Slots : i # j /\ pte[i] = pte[j] => pte[i] = NoFrame

MemoryOK ==
  /\ pte \in [Slots -> Frames \cup {NoFrame}] /\ DOMAIN page = Frames
  /\ PagesApart

ProgramInv ==
  /\ program \in Programs
  /\ upc \in [Slots -> 1 .. Len(program)]
  /\ DOMAIN last = Slots /\ DOMAIN side = Slots
  /\ MemoryOK
  /\ Progress
  /\ RightBranch
  /\ \A i \in Schedulable : MayBranch(i) /\ Sided(i) /\ Counted(i)

UInv == EnoughSlots /\ KernelInv /\ ProgramInv

(* Before v comes the value that v is counted on from.                     *)
LEMMA BeforeCounts ==
  ASSUME NEW v \in 0 .. VALUES - 1
  PROVE  (Before(v) + 1) % VALUES = v
<1>1. VALUES \in Nat /\ VALUES > 0
  BY UserAssumption
<1>2. VALUES % VALUES = 0
  BY <1>1
<1>3. v % VALUES = v
  BY <1>1
<1>4. CASE v = 0
  BY <1>1, <1>2, <1>4 DEF Before
<1>5. CASE v # 0
  <2>1. Before(v) + 1 = v
    BY <1>5 DEF Before
  <2> QED
    BY <1>3, <2>1
<1> QED
  BY <1>4, <1>5

LEMMA InitUInv == EnoughSlots /\ UInit => UInv
<1> SUFFICES ASSUME EnoughSlots, UInit PROVE UInv
  OBVIOUS
<1>1. KernelInv
  BY InitKernelInv DEF UInit
<1>2. /\ program \in Programs /\ upc = [i \in Slots |-> 1]
      /\ live = {Idle, First} /\ First \in Slots /\ Schedulable = {First}
  BY SlotsFacts DEF UInit, Programs, SInit, Schedulable, Idle, First
<1>3. Len(program) \in {3, 4, 9, 11}
  BY <1>2, MainOps, Main1Ops, Main2Ops, Main3Ops DEF Programs
<1>4. Progress
  BY <1>2 DEF Progress, ForkedTwice, ForkedOnce
<1>5. program[1] \in {"clear", "fork"}
  BY <1>2, MainOps, Main1Ops, Main2Ops, Main3Ops DEF Programs
<1>6. Counted(First)
  <2>1. Content(First) = FILE_WORD /\ last[First] = Before(FILE_WORD)
    BY <1>2 DEF UInit, Content
  <2> QED
    BY <2>1, UserAssumption, BeforeCounts DEF Counted
<1>7. MayBranch(First) /\ Sided(First)
  BY <1>2, <1>5 DEF MayBranch, Sided, UInit
<1>8. RightBranch
  BY <1>2 DEF UInit, RightBranch
<1>9. upc \in [Slots -> 1 .. Len(program)]
  <2>1. ASSUME NEW n \in {3, 4, 9, 11} PROVE 1 \in 1 .. n
    OBVIOUS
  <2> QED
    BY <1>2, <1>3, <2>1
<1>10. MemoryOK
  BY DEF UInit, MemoryOK, PagesApart
<1> QED
  BY <1>1, <1>2, <1>4, <1>6, <1>7, <1>8, <1>9, <1>10 DEF UInv, ProgramInv, UInit

(* Only a fork leads from one part of a program to the next.               *)
LEMMA SamePart ==
  ASSUME NEW p \in Programs, NEW k \in 1 .. Len(p), p[k] # "fork"
  PROVE  /\ p = main => /\ k <= 4 => After(p, k) <= 4
                        /\ k \in 5 .. 7 => After(p, k) \in 5 .. 7
                        /\ k >= 8 => After(p, k) >= 8
         /\ p \in {main1, main2} => k > 1 /\ After(p, k) > 1
         /\ p = main3 => /\ k <= 8 => After(p, k) <= 8
                         /\ k > 8 => After(p, k) > 8
<1>1. CASE p = main
  <2>1. k \in {1, 2, 3, 5, 6, 8, 9}
    BY <1>1, MainOps
  <2> QED
    BY <1>1, <2>1, MainOps, ProgramsDiffer DEF After
<1>2. CASE p = main1
  <2>1. k \in {2, 3}
    BY <1>2, Main1Ops
  <2> QED
    BY <1>2, <2>1, Main1Ops, ProgramsDiffer DEF After
<1>3. CASE p = main2
  <2>1. k \in {2, 3, 4}
    BY <1>3, Main2Ops
  <2> QED
    BY <1>3, <2>1, Main2Ops, ProgramsDiffer DEF After
<1>4. CASE p = main3
  <2>1. k \in {1, 2, 3, 4, 5, 6, 7, 9, 10, 11}
    BY <1>4, Main3Ops
  <2> QED
    BY <1>4, <2>1, Main3Ops, ProgramsDiffer DEF After
<1> QED
  BY <1>1, <1>2, <1>3, <1>4 DEF Programs

(* The running process goes on, and nobody forks.                          *)
Advances ==
  /\ current \in Schedulable
  /\ upc' = [upc EXCEPT ![current] = After(program, upc[current])]
  /\ UNCHANGED <<live, program>>

LEMMA AdvanceProgress ==
  ASSUME EnoughSlots, KernelInv, ProgramInv, Advances
  PROVE  /\ current \in Slots /\ upc[current] \in 1 .. Len(program)
         /\ upc' \in [Slots -> 1 .. Len(program)]
         /\ Op # "fork" => Progress'
<1> DEFINE k == upc[current]
           n == After(program, k)
<1>1. current \in Slots /\ current \in live /\ current # Idle /\ live \subseteq Slots
  BY DEF KernelInv, TableOK, Advances, Schedulable
<1>2. program \in Programs /\ k \in 1 .. Len(program) /\ upc \in [Slots -> 1 .. Len(program)]
  BY <1>1 DEF ProgramInv
<1>3. n \in 1 .. Len(program)
  BY <1>2, NextOps
<1>4. upc' \in [Slots -> 1 .. Len(program)]
  BY <1>1, <1>2, <1>3 DEF Advances
<1>5. ASSUME Op # "fork" PROVE Progress'
  <2>1. \A i \in Slots : upc'[i] = IF i = current THEN n ELSE upc[i]
    BY <1>2 DEF Advances
  <2>2. /\ program = main => /\ k <= 4 => n <= 4
                             /\ k \in 5 .. 7 => n \in 5 .. 7
                             /\ k >= 8 => n >= 8
        /\ program \in {main1, main2} => k > 1 /\ n > 1
        /\ program = main3 => (k <= 8 => n <= 8) /\ (k > 8 => n > 8)
    BY <1>2, <1>5, SamePart DEF Op
  <2> HIDE DEF n
  <2>3. Progress /\ UNCHANGED <<live, program>>
    BY DEF ProgramInv, Advances
  <2>4. program = main => ForkedTwice'
    <3> SUFFICES ASSUME program = main, ForkedTwice PROVE ForkedTwice'
      BY <2>3 DEF Progress
    <3>1. \A i \in {First, 2, 3, 4} : i \in Slots /\ upc'[i] = IF i = current THEN n ELSE upc[i]
      BY <2>1, SlotsFacts
    <3>2. \A i \in 1 .. 4 : i \in {First, 2, 3, 4}
      BY DEF First
    <3> QED
      BY <1>1, <2>2, <2>3, <3>1, <3>2 DEF ForkedTwice
  <2>5. program = main1 \/ program = main2 => ForkedOnce(1)'
    <3> SUFFICES ASSUME program \in {main1, main2} PROVE ForkedOnce(1)'
      OBVIOUS
    <3>1. k > 1 /\ n > 1 /\ ForkedOnce(1)
      BY <2>2, <2>3 DEF Progress
    <3>2. ~ (live = {Idle, First} /\ upc[First] <= 1)
      BY <1>1, <1>2, <3>1
    <3> QED
      BY <1>1, <2>1, <2>3, <3>1, <3>2, SlotsFacts DEF ForkedOnce
  <2>6. program = main3 => ForkedOnce(8)'
    BY <1>1, <2>1, <2>2, <2>3, SlotsFacts DEF Progress, ForkedOnce
  <2> QED
    BY <2>3, <2>4, <2>5, <2>6 DEF Progress
<1> QED
  BY <1>1, <1>2, <1>4, <1>5
LEMMA ForkOps ==
  ASSUME NEW p \in Programs, NEW k \in 1 .. Len(p), p[k] = "fork"
  PROVE  /\ p = main => k = 4 \/ k = 7
         /\ p \in {main1, main2} => k = 1
         /\ p = main3 => k = 8
         /\ After(p, k) = k + 1
<1>1. CASE p = main
  <2>1. k \in {1, 2, 3, 4, 5, 6, 7, 8, 9}
    BY <1>1, MainOps
  <2> QED
    BY <1>1, <2>1, MainOps, ProgramsDiffer DEF After
<1>2. CASE p = main1
  <2>1. k \in {1, 2, 3}
    BY <1>2, Main1Ops
  <2> QED
    BY <1>2, <2>1, Main1Ops, ProgramsDiffer DEF After
<1>3. CASE p = main2
  <2>1. k \in {1, 2, 3, 4}
    BY <1>3, Main2Ops
  <2> QED
    BY <1>3, <2>1, Main2Ops, ProgramsDiffer DEF After
<1>4. CASE p = main3
  <2>1. k \in {1, 2, 3, 4, 5, 6, 7, 8, 9, 10, 11}
    BY <1>4, Main3Ops
  <2> QED
    BY <1>4, <2>1, Main3Ops, ProgramsDiffer DEF After
<1> QED
  BY <1>1, <1>2, <1>3, <1>4 DEF Programs

(* Who may be at a fork, and which slots are taken then.                   *)
LEMMA AtFork ==
  ASSUME KernelInv, ProgramInv, current \in Schedulable, Op = "fork"
  PROVE  \/ /\ live = {Idle, First} /\ current = First
            /\ program = main => upc[First] = 4
            /\ program \in {main1, main2} => upc[First] = 1
            /\ program = main3 => upc[First] = 8
         \/ /\ program = main /\ upc[current] = 7
            /\ \/ live = {Idle, First, 2} /\ upc[First] \in 5 .. 7 /\ upc[2] \in 5 .. 7
               \/ /\ live = {Idle, First, 2, 3} /\ upc[3] >= 8
                  /\ \/ upc[First] >= 8 /\ current = 2
                     \/ upc[2] >= 8 /\ current = First
<1> DEFINE k == upc[current]
<1>1. current \in Slots /\ current \in live /\ current # Idle
  BY DEF KernelInv, TableOK, Schedulable
<1>2. program \in Programs /\ k \in 1 .. Len(program) /\ Progress
  BY <1>1 DEF ProgramInv
<1>3. /\ program = main => k = 4 \/ k = 7
      /\ program \in {main1, main2} => k = 1
      /\ program = main3 => k = 8
  BY <1>2, ForkOps DEF Op
<1>4. CASE program = main
  BY <1>1, <1>2, <1>3, <1>4, ProgramsDiffer DEF Progress, ForkedTwice, First, Idle
<1>5. CASE program \in {main1, main2}
  BY <1>1, <1>2, <1>3, <1>5, ProgramsDiffer DEF Progress, ForkedOnce
<1>6. CASE program = main3
  BY <1>1, <1>2, <1>3, <1>6, ProgramsDiffer DEF Progress, ForkedOnce
<1> QED
  BY <1>2, <1>4, <1>5, <1>6 DEF Programs

(* The free slot that add_task finds is the next one.                      *)
LEMMA NextSlot ==
  ASSUME EnoughSlots, NEW child \in Slots, FirstFree(child), NEW n \in 2 .. 4,
         live \subseteq 0 .. n - 1, \A i \in 2 .. n - 1 : i \in live
  PROVE  child = n
<1>1. n \in FreeSlots
  BY DEF FreeSlots, Slots, Idle, First, EnoughSlots
<1>2. child \in FreeSlots /\ child <= n
  BY <1>1 DEF FirstFree
<1> QED
  BY <1>2 DEF FreeSlots, Slots, Idle, First

LEMMA ForkProgress ==
  ASSUME EnoughSlots, KernelInv, ProgramInv, current \in Schedulable, Op = "fork",
         NEW child \in Slots, ForksTo(child),
         upc' = [upc EXCEPT ![current] = NextOp, ![child] = NextOp],
         UNCHANGED program
  PROVE  /\ upc' \in [Slots -> 1 .. Len(program)]
         /\ Progress'
<1> DEFINE k == upc[current]
<1>1. current \in Slots /\ current \in live /\ current # Idle
  BY DEF KernelInv, TableOK, Schedulable
<1>2. program \in Programs /\ k \in 1 .. Len(program) /\ upc \in [Slots -> 1 .. Len(program)]
  BY <1>1 DEF ProgramInv
<1>3. NextOp = k + 1 /\ NextOp \in 1 .. Len(program)
  BY <1>2, ForkOps, NextOps DEF Op, NextOp, After
<1>4. upc' \in [Slots -> 1 .. Len(program)]
  BY <1>2, <1>3
<1>5. /\ child \notin live /\ child # current /\ live' = live \cup {child} /\ FirstFree(child)
      /\ upc'[child] = k + 1 /\ upc'[current] = k + 1
      /\ \A i \in Slots \ {current, child} : upc'[i] = upc[i]
  BY <1>1, <1>2, <1>3 DEF ForksTo, FreeSlots
<1>6. CASE live = {Idle, First} /\ current = First
  <2>1. child = 2
    BY <1>5, <1>6, NextSlot DEF Idle, First
  <2>2. live' = {Idle, First, 2} /\ upc'[First] = k + 1 /\ upc'[2] = k + 1
    BY <1>5, <1>6, <2>1
  <2>3. /\ program = main => k = 4
        /\ program \in {main1, main2} => k = 1
        /\ program = main3 => k = 8
    BY <1>6, AtFork, ProgramsDiffer DEF Idle, First
  <2>4. program = main => ForkedTwice'
    BY <2>2, <2>3 DEF ForkedTwice
  <2>5. program \in {main1, main2} => ForkedOnce(1)'
    BY <2>2, <2>3 DEF ForkedOnce
  <2>6. program = main3 => ForkedOnce(8)'
    BY <2>2, <2>3 DEF ForkedOnce
  <2> QED
    BY <1>4, <2>4, <2>5, <2>6 DEF Progress
<1>7. CASE /\ program = main /\ k = 7
           /\ live = {Idle, First, 2} /\ upc[First] \in 5 .. 7 /\ upc[2] \in 5 .. 7
  <2>1. child = 3
    BY <1>5, <1>7, NextSlot DEF Idle, First
  <2>2. current = First \/ current = 2
    BY <1>1, <1>7
  <2>3. /\ live' = {Idle, First, 2, 3}
        /\ upc'[3] = 8 /\ upc'[current] = 8
        /\ \A i \in {First, 2} : i # current => upc'[i] = upc[i]
    <3>1. live' = {Idle, First, 2, 3} /\ upc'[3] = 8 /\ upc'[current] = 8
      BY <1>5, <1>7, <2>1
    <3>2. ASSUME NEW i \in {First, 2}, i # current PROVE i \in Slots \ {current, child}
      BY <2>1, <3>2, SlotsFacts DEF First
    <3> QED
      BY <1>5, <3>1, <3>2
  <2>4. ForkedTwice'
    BY <1>7, <2>2, <2>3 DEF ForkedTwice, First
  <2> QED
    BY <1>4, <1>7, <2>4, ProgramsDiffer DEF Progress
<1>8. CASE /\ program = main /\ k = 7
           /\ live = {Idle, First, 2, 3} /\ upc[3] >= 8
           /\ \/ upc[First] >= 8 /\ current = 2
              \/ upc[2] >= 8 /\ current = First
  <2>1. child = 4
    BY <1>5, <1>8, NextSlot DEF Idle, First
  <2>2. /\ live' = {Idle, First, 2, 3, 4}
        /\ upc'[4] = 8 /\ upc'[current] = 8
        /\ \A i \in {First, 2, 3} : i # current => upc'[i] = upc[i]
    <3>1. live' = {Idle, First, 2, 3, 4} /\ upc'[4] = 8 /\ upc'[current] = 8
      BY <1>5, <1>8, <2>1
    <3>2. ASSUME NEW i \in {First, 2, 3}, i # current PROVE i \in Slots \ {current, child}
      BY <2>1, <3>2, SlotsFacts DEF First
    <3> QED
      BY <1>5, <3>1, <3>2
  <2>3. upc'[First] >= 8 /\ upc'[2] >= 8 /\ upc'[3] >= 8 /\ upc'[4] >= 8
    BY <1>8, <2>2 DEF First
  <2>4. \A i \in 1 .. 4 : i = First \/ i = 2 \/ i = 3 \/ i = 4
    BY DEF First
  <2>5. ForkedTwice'
    BY <2>2, <2>3, <2>4 DEF ForkedTwice
  <2> QED
    BY <1>4, <1>8, <2>5, ProgramsDiffer DEF Progress
<1> QED
  BY <1>6, <1>7, <1>8, AtFork
-----------------------------------------------------------------------------
(* The steps.                                                              *)

(* A tick changes no process but by the answer of a suspended clone, and a *)
(* page fault none but by loading what counts as its content already.      *)
LEMMA KernelProgramInv ==
  ASSUME KernelInv, ProgramInv, Switches, UNCHANGED <<live, pid, program, upc, side, last>>,
         MemoryOK', \A i \in Slots : Content(i)' = Content(i)
  PROVE  ProgramInv'
<1>1. /\ \A i \in Schedulable : i \in Slots
      /\ Schedulable' = Schedulable
  BY DEF KernelInv, TableOK, Schedulable
<1>2. Progress'
  BY <1>1 DEF ProgramInv, Progress, ForkedOnce, ForkedTwice
<1>3. RightBranch'
  BY <1>1 DEF ProgramInv, RightBranch
<1>4. ASSUME NEW i \in Schedulable
      PROVE  MayBranch(i)' /\ Sided(i)' /\ Counted(i)'
  <2>1. MayBranch(i) /\ Sided(i) /\ Counted(i) /\ i \in Slots
    BY <1>1 DEF ProgramInv
  <2>2. /\ ret'[i] = IF i = current' /\ i # current /\ ra[i] = "sys_fork" THEN i ELSE ret[i]
        /\ i # current => ra'[i] = ra[i]
        /\ ra'[i] = "sys_fork" => ra[i] = "sys_fork"
    BY <2>1 DEF Switches
  <2>3. Content(i)' = Content(i)
    BY <2>1
  <2> QED
    BY <1>1, <2>1, <2>2, <2>3 DEF MayBranch, Sided, Counted
<1> QED
  BY <1>1, <1>2, <1>3, <1>4 DEF ProgramInv

LEMMA PageFaultUInv == UInv /\ UPageFault => UInv'
<1> SUFFICES ASSUME UInv, UPageFault PROVE UInv'
  OBVIOUS
<1>1. /\ UNCHANGED <<svars, live, pid, current, program, upc, side, last>>
      /\ Switches /\ MemoryOK /\ pte[current] = NoFrame /\ current \in Slots
  BY DEF UPageFault, UInv, ProgramInv, KernelInv, TableOK, Switches, svars, vars
<1>2. PICK f \in Frames : /\ \A i \in Slots : pte[i] # f
                          /\ pte' = [pte EXCEPT ![current] = f]
                          /\ page' = [page EXCEPT ![f] = FILE_WORD]
  BY DEF UPageFault, FreshFrame, Unused
<1>3. \A i \in Slots : pte'[i] = IF i = current THEN f ELSE pte[i]
  BY <1>1, <1>2 DEF MemoryOK
<1>4. MemoryOK'
  <2>1. pte' \in [Slots -> Frames \cup {NoFrame}] /\ DOMAIN page' = Frames
    BY <1>1, <1>2 DEF MemoryOK
  <2>2. PagesApart'
    BY <1>1, <1>2, <1>3 DEF MemoryOK, PagesApart
  <2> QED
    BY <2>1, <2>2 DEF MemoryOK
<1>5. ASSUME NEW i \in Slots PROVE Content(i)' = Content(i)
  <2>1. f # NoFrame /\ page'[f] = FILE_WORD
    BY <1>1, <1>2 DEF MemoryOK, Frames, NoFrame
  <2>2. pte[i] # NoFrame => page'[pte[i]] = page[pte[i]]
    BY <1>1, <1>2 DEF MemoryOK
  <2> QED
    BY <1>1, <1>3, <2>1, <2>2 DEF Content
<1> QED
  BY <1>1, <1>4, <1>5, SameKernel, KernelProgramInv DEF UInv

(* A process writes to its own page, so that no other finds a new value.   *)
LEMMA StoreOwn ==
  ASSUME MemoryOK, current \in Slots, Mapped, NEW v,
         page' = [page EXCEPT ![pte[current]] = v], UNCHANGED <<pte, current>>
  PROVE  /\ MemoryOK' /\ Content(current)' = v
         /\ \A i \in Slots \ {current} : Content(i)' = Content(i)
<1>1. pte[current] \in Frames
  BY DEF MemoryOK, Mapped
<1>2. MemoryOK'
  BY DEF MemoryOK, PagesApart
<1>3. Content(current)' = v
  <2>1. page'[pte[current]] = v
    BY <1>1 DEF MemoryOK
  <2> QED
    BY <2>1 DEF Content, Mapped
<1>4. ASSUME NEW i \in Slots, i # current PROVE Content(i)' = Content(i)
  <2>1. pte[i] # NoFrame => pte[i] \in Frames /\ pte[i] # pte[current]
    BY <1>4 DEF MemoryOK, PagesApart
  <2>2. pte[i] # NoFrame => page'[pte[i]] = page[pte[i]]
    BY <2>1 DEF MemoryOK
  <2> QED
    BY <2>2 DEF Content
<1> QED
  BY <1>2, <1>3, <1>4

(* A step of the running process that is not a fork disturbs nobody else.  *)
LEMMA OthersGoOn ==
  ASSUME EnoughSlots, KernelInv, ProgramInv, Advances, UNCHANGED <<ra, current>>,
         \A i \in Slots \ {current} :
           /\ ret'[i] = ret[i] /\ last'[i] = last[i]
           /\ Content(i)' = Content(i) /\ side'[i] = side[i],
         DOMAIN last' = Slots, DOMAIN side' = Slots, MemoryOK',
         Op # "fork", Counted(current)',
         side'[current] \in {"none", IF current = First THEN "parent" ELSE "child"},
         side'[current] # "none" => side[current] # "none" \/ Op = "if"
  PROVE  ProgramInv'
<1>1. /\ \A i \in Schedulable : i \in Slots
      /\ Schedulable' = Schedulable /\ current \in Schedulable
      /\ UNCHANGED program
  BY DEF KernelInv, TableOK, Schedulable, Advances
<1>2. /\ upc' \in [Slots -> 1 .. Len(program)] /\ Progress'
      /\ upc[current] \in 1 .. Len(program) /\ program \in Programs
  BY AdvanceProgress DEF ProgramInv
<1>3. RightBranch'
  BY <1>1 DEF ProgramInv, RightBranch
<1>4. ASSUME NEW i \in Schedulable, i # current
      PROVE  MayBranch(i)' /\ Sided(i)' /\ Counted(i)'
  <2>1. /\ MayBranch(i) /\ Sided(i) /\ Counted(i)
        /\ i \in Slots \ {current}
    BY <1>1, <1>4 DEF ProgramInv
  <2>2. upc'[i] = upc[i]
    BY <1>1, <2>1 DEF ProgramInv, Advances
  <2> QED
    BY <1>1, <2>1, <2>2 DEF MayBranch, Sided, Counted
<1>5. MayBranch(current)' /\ Sided(current)'
  <2>1. upc'[current] = After(program, upc[current])
    BY <1>1 DEF ProgramInv, Advances
  <2>2. program[upc'[current]] # "if"
    BY <1>2, <2>1, NextOps DEF Op
  <2>3. side'[current] # "none" => After(program, upc[current]) >= Len(program) - 1
    BY <1>1, <1>2, NextOps DEF ProgramInv, Sided, Op
  <2> QED
    BY <1>1, <2>1, <2>2, <2>3 DEF MayBranch, Sided
<1>6. UNCHANGED current
  OBVIOUS
<1> QED
  BY <1>1, <1>2, <1>3, <1>4, <1>5, <1>6 DEF ProgramInv

LEMMA OwnSteps ==
  ASSUME UInv, UClear \/ UGetpid \/ PrintLine \/ Branch
  PROVE  UInv'
<1> USE DEF UInv
<1>1. InUser /\ Advance /\ UNCHANGED <<live, program, ra, current>>
  BY DEF UClear, UGetpid, PrintLine, Branch, Getpid, svars, vars
<1>2. current \in Schedulable /\ current \in Slots /\ Advances
  BY <1>1 DEF InUser, KernelInv, TableOK, Schedulable, Advance, Advances, NextOp, After
<1>3. KernelInv'
  BY GetpidKernelInv, SameKernel DEF UClear, UGetpid, PrintLine, Branch
<1>4. /\ DOMAIN last = Slots /\ DOMAIN side = Slots /\ MemoryOK
      /\ MayBranch(current) /\ Counted(current)
      /\ side[current] \in {"none", IF current = First THEN "parent" ELSE "child"}
  BY <1>2 DEF ProgramInv, RightBranch
<1>5. CASE UClear
  <2>1. /\ MemoryOK' /\ Content(current)' = 0
        /\ \A i \in Slots \ {current} : Content(i)' = Content(i)
    BY <1>1, <1>2, <1>4, <1>5, StoreOwn DEF UClear
  <2>2. last'[current] = Before(0)
    BY <1>2, <1>4, <1>5 DEF UClear
  <2>3. Counted(current)'
    <3>1. 0 \in 0 .. VALUES - 1
      BY UserAssumption
    <3> QED
      BY <1>1, <2>1, <2>2, <3>1, BeforeCounts DEF Counted
  <2> QED
    BY <1>1, <1>2, <1>3, <1>4, <1>5, <2>1, <2>3, OthersGoOn DEF UClear, svars, vars
<1>6. CASE UGetpid
  <2>1. ret' = [ret EXCEPT ![current] = current] /\ DOMAIN ret = Slots
    BY <1>6, GetpidKernelInv DEF UGetpid, KernelInv, TableOK
  <2>2. MemoryOK' /\ \A i \in Slots : Content(i)' = Content(i)
    BY <1>4, <1>6 DEF UGetpid, MemoryOK, PagesApart, Content
  <2>3. Counted(current)'
    BY <1>1, <1>2, <1>4, <1>6, <2>2 DEF UGetpid, Counted
  <2> QED
    BY <1>1, <1>2, <1>3, <1>4, <1>6, <2>1, <2>2, <2>3, OthersGoOn DEF UGetpid
<1>7. CASE PrintLine
  <2>1. page' = [page EXCEPT ![pte[current]] = (Shown + 1) % VALUES]
    BY <1>7 DEF PrintLine, Shown
  <2>2. /\ MemoryOK' /\ Content(current)' = (Shown + 1) % VALUES
        /\ \A i \in Slots \ {current} : Content(i)' = Content(i)
    BY <1>1, <1>2, <1>4, <1>7, <2>1, StoreOwn DEF PrintLine
  <2>3. last'[current] = Shown
    BY <1>2, <1>4, <1>7 DEF PrintLine
  <2>4. Counted(current)'
    BY <1>1, <2>2, <2>3 DEF Counted
  <2> QED
    BY <1>1, <1>2, <1>3, <1>4, <1>7, <2>2, <2>4, OthersGoOn DEF PrintLine, svars, vars
<1>8. CASE Branch
  <2>1. current = First => ret[current] = First
    BY <1>4, <1>8 DEF Branch, Op, MayBranch
  <2>2. current # First => ret[current] = 0
    BY <1>4, <1>8 DEF Branch, Op, MayBranch
  <2>3. side'[current] = IF current = First THEN "parent" ELSE "child"
    BY <1>2, <1>4, <1>8, <2>1, <2>2 DEF Branch, First
  <2>4. MemoryOK' /\ \A i \in Slots : Content(i)' = Content(i)
    BY <1>4, <1>8 DEF Branch, MemoryOK, PagesApart, Content
  <2>5. Counted(current)'
    BY <1>1, <1>2, <1>4, <1>8, <2>4 DEF Branch, Counted
  <2> QED
    BY <1>1, <1>2, <1>3, <1>4, <1>8, <2>3, <2>4, <2>5, OthersGoOn DEF Branch, svars, vars
<1> QED
  BY <1>5, <1>6, <1>7, <1>8

(* The child has a copy of the parent's page, in a frame of its own, or    *)
(* the parent had none.                                                    *)
LEMMA CopyApart ==
  ASSUME MemoryOK, current \in Slots, NEW child \in Slots, child # current,
         CopiedPage(child)
  PROVE  /\ MemoryOK' /\ Content(child)' = Content(current)
         /\ \A i \in Slots \ {child} : Content(i)' = Content(i)
<1>1. CASE ~Mapped
  <2>1. pte' = [pte EXCEPT ![child] = NoFrame] /\ UNCHANGED page
    BY <1>1 DEF CopiedPage
  <2>2. \A i \in Slots : pte'[i] = IF i = child THEN NoFrame ELSE pte[i]
    BY <2>1 DEF MemoryOK
  <2>3. MemoryOK'
    BY <2>1, <2>2 DEF MemoryOK, PagesApart
  <2> QED
    BY <1>1, <2>1, <2>2, <2>3 DEF Content, Mapped
<1>2. CASE Mapped
  <2>1. PICK f \in Frames : /\ \A i \in Slots : pte[i] # f
                            /\ pte' = [pte EXCEPT ![child] = f]
                            /\ page' = [page EXCEPT ![f] = page[pte[current]]]
    BY <1>2 DEF CopiedPage, FreshFrame, Unused
  <2>2. \A i \in Slots : pte'[i] = IF i = child THEN f ELSE pte[i]
    BY <2>1 DEF MemoryOK
  <2>3. MemoryOK'
    <3>1. pte' \in [Slots -> Frames \cup {NoFrame}] /\ DOMAIN page' = Frames
      BY <2>1 DEF MemoryOK
    <3>2. PagesApart'
      BY <2>1, <2>2 DEF MemoryOK, PagesApart
    <3> QED
      BY <3>1, <3>2 DEF MemoryOK
  <2>4. f # NoFrame /\ page'[f] = page[pte[current]]
    BY <2>1 DEF MemoryOK, Frames, NoFrame
  <2>5. ASSUME NEW i \in Slots, i # child PROVE Content(i)' = Content(i)
    <3>1. pte[i] # NoFrame => page'[pte[i]] = page[pte[i]]
      BY <2>1 DEF MemoryOK
    <3> QED
      BY <2>2, <2>5, <3>1 DEF Content
  <2> QED
    BY <1>2, <2>2, <2>3, <2>4, <2>5 DEF Content, Mapped
<1> QED
  BY <1>1, <1>2

LEMMA UForkUInv == UInv /\ UFork => UInv'
<1> SUFFICES ASSUME UInv, UFork PROVE UInv'
  OBVIOUS
<1> USE DEF UInv
<1>1. KernelInv' /\ current \in Schedulable /\ current \in Slots /\ Op = "fork"
  BY ForkKernelInv DEF UFork, Fork, InUser, KernelInv, TableOK, Schedulable
<1>2. PICK child \in Slots : ForksTo(child) /\ child # current
  BY ForkForks DEF UFork, KernelInv
<1>3. /\ upc' = [upc EXCEPT ![current] = NextOp, ![child] = NextOp]
      /\ CopiedPage(child)
      /\ last' = [last EXCEPT ![child] = last[current]]
      /\ side' = [side EXCEPT ![child] = side[current]]
      /\ UNCHANGED program
  BY <1>2 DEF UFork, ForksTo
<1>4. upc' \in [Slots -> 1 .. Len(program)] /\ Progress'
  BY <1>1, <1>2, <1>3, ForkProgress
<1>5. /\ child \notin live /\ child # First /\ child # Idle
      /\ Schedulable' = Schedulable \cup {child} /\ current' = child
  BY <1>2 DEF ForksTo, FreeSlots, Schedulable
<1>6. /\ program \in Programs /\ upc[current] \in 1 .. Len(program)
      /\ DOMAIN upc = Slots /\ \A i \in Schedulable : i \in Slots
      /\ DOMAIN ra = Slots /\ DOMAIN ret = Slots
      /\ DOMAIN last = Slots /\ DOMAIN side = Slots /\ MemoryOK
  BY <1>1 DEF ProgramInv, KernelInv, TableOK, Schedulable
<1>7. /\ upc'[current] = NextOp /\ upc'[child] = NextOp
      /\ ra'[current] = "sys_fork" /\ ra'[child] = "__ret_from_fork"
      /\ ret'[child] = 0 /\ ret'[current] = ret[current]
  BY <1>1, <1>2, <1>3, <1>6 DEF ForksTo
<1>8. side[current] = "none"
  <2>1. Sided(current)
    BY <1>1 DEF ProgramInv
  <2> QED
    BY <1>1, <1>6, <2>1, NextOps DEF Op, Sided
<1>9. /\ MemoryOK' /\ Content(child)' = Content(current)
      /\ \A i \in Slots \ {child} : Content(i)' = Content(i)
  BY <1>1, <1>2, <1>3, <1>6, CopyApart
<1>10. program[NextOp] = "if" => current = First
  BY <1>1, <1>6, NextOps, AtFork, ProgramsDiffer DEF Op, NextOp, After
<1>11. ASSUME NEW i \in Schedulable
       PROVE  MayBranch(i)' /\ Sided(i)' /\ Counted(i)'
  <2>1. /\ MayBranch(i) /\ Sided(i) /\ Counted(i)
        /\ i \in Slots /\ i # child
    BY <1>5, <1>6 DEF ProgramInv, Schedulable
  <2>2. Counted(i)'
    <3>1. Content(i)' = Content(i) /\ last'[i] = last[i]
      BY <1>3, <1>9, <2>1
    <3> QED
      BY <2>1, <3>1 DEF Counted
  <2>3. CASE i = current
    BY <1>2, <1>3, <1>5, <1>7, <1>8, <1>10, <2>1, <2>2, <2>3 DEF MayBranch, Sided
  <2>4. CASE i # current
    <3>1. upc'[i] = upc[i] /\ ra'[i] = ra[i] /\ ret'[i] = ret[i]
      BY <1>2, <1>3, <1>6, <2>1, <2>4 DEF ForksTo
    <3> QED
      BY <1>3, <1>5, <2>1, <2>2, <3>1 DEF MayBranch, Sided
  <2> QED
    BY <2>3, <2>4
<1>12. MayBranch(child)' /\ Sided(child)' /\ Counted(child)'
  <2>1. Counted(current) /\ last'[child] = last[current]
    BY <1>1, <1>3, <1>6 DEF ProgramInv
  <2>2. Counted(child)'
    BY <1>9, <2>1 DEF Counted
  <2> QED
    BY <1>3, <1>5, <1>6, <1>7, <1>8, <2>2 DEF MayBranch, Sided
<1>13. RightBranch'
  <2>1. ASSUME NEW i \in Schedulable
        PROVE  side'[i] \in {"none", IF i = First THEN "parent" ELSE "child"}
    BY <1>3, <1>5, <1>6 DEF ProgramInv, RightBranch, Schedulable
  <2>2. side'[child] = "none"
    BY <1>3, <1>6, <1>8
  <2> QED
    BY <1>5, <2>1, <2>2 DEF RightBranch
<1> QED
  BY <1>1, <1>3, <1>4, <1>5, <1>6, <1>9, <1>11, <1>12, <1>13 DEF ProgramInv

LEMMA UNextUInv == UInv /\ [UNext]_uvars => UInv'
<1> SUFFICES ASSUME UInv, [UNext]_uvars PROVE UInv'
  OBVIOUS
<1>1. MemoryOK /\ (UNCHANGED user => MemoryOK' /\ \A i \in Slots : Content(i)' = Content(i))
  BY DEF UInv, ProgramInv, MemoryOK, PagesApart, Content, user
<1>2. CASE Kernel
  BY <1>1, <1>2, SchedulerKernelInv, KernelProgramInv DEF Kernel, UInv, user
<1>3. CASE UserStep
  BY <1>3, OwnSteps, UForkUInv, PageFaultUInv DEF UserStep
<1>4. CASE UNCHANGED uvars
  <2>1. Switches /\ UNCHANGED <<live, pid, user, svars>>
    BY <1>4 DEF UInv, KernelInv, TableOK, Switches, uvars, svars, vars
  <2> QED
    BY <1>1, <2>1, SameKernel, KernelProgramInv DEF UInv, user
<1> QED
  BY <1>2, <1>3, <1>4 DEF UNext

LEMMA UInvariance == EnoughSlots /\ USpec => []UInv
BY InitUInv, UNextUInv, PTL DEF USpec

-----------------------------------------------------------------------------

(* With either scheduler user code runs on time that was granted and is    *)
(* not used up, also when a fork gave it its parent's rest                 *)
(* (schedule_priority, schedule_short_first, do_timer, sys_fork).          *)
THEOREM GrantedTime == EnoughSlots /\ USpec => []RunsOnGrantedTime
<1>1. UInv => RunsOnGrantedTime
  <2> SUFFICES ASSUME UInv, current # Idle
               PROVE  counter[current] \in 1 .. IF prio_sched THEN PRIORITY_MAX ELSE MAX_TIME
    BY DEF RunsOnGrantedTime
  <2>1. CASE prio_sched
    BY <2>1 DEF UInv, KernelInv, Inv, TypeOK, RunningHasTime
  <2>2. CASE ~prio_sched
    BY <2>2 DEF UInv, KernelInv, TimesOK
  <2> QED
    BY <2>1, <2>2
<1> QED
  BY <1>1, UInvariance, PTL

(* After if (pid == 0) the parent and the child are each in their own      *)
(* branch, although one call of clone returned to both (sys_fork, main2    *)
(* and main3).                                                             *)
THEOREM OwnBranches == EnoughSlots /\ USpec => []RightBranch
<1>1. UInv => RightBranch
  BY DEF UInv, ProgramInv
<1> QED
  BY <1>1, UInvariance, PTL

LEMMA Once ==
  ASSUME NEW f \in Nat, ForkedOnce(f), Len(program) - 1 > f, Len(program) \in Nat,
         upc[First] \in Nat
  PROVE  /\ live \subseteq {0, 1, 2}
         /\ (\A i \in live \ {Idle} : upc[i] >= Len(program) - 1) => live = {0, 1, 2}
<1>1. CASE live = {Idle, First} /\ upc[First] <= f
  BY <1>1 DEF Idle, First
<1>2. CASE live = {Idle, First, 2}
  BY <1>2 DEF Idle, First
<1> QED
  BY <1>1, <1>2 DEF ForkedOnce

(* add_task finds a slot for every fork of the programs.                   *)
LEMMA ForksFindASlot ==
  ASSUME UInv, InUser, Op = "fork"
  PROVE  FreeSlots # {}
<1>1. current \in Schedulable
  BY DEF InUser, UInv, KernelInv, TableOK, Schedulable
<1>2. 4 \notin live /\ 4 \in Slots
  BY <1>1, AtFork, SlotsFacts DEF UInv, Idle, First
<1> QED
  BY <1>2 DEF FreeSlots, Idle, First

(* Every program ends up with its processes, and no fork finds the table   *)
(* full (main to main3, add_task): UserMain leaves ForkTableFull out for a *)
(* reason.                                                                 *)
THEOREM AllProcesses == EnoughSlots /\ USpec => []Processes
<1>1. ASSUME UInv PROVE Processes
  <2>0. InUser /\ Op = "fork" => FreeSlots # {}
    BY <1>1, ForksFindASlot
  <2>1. /\ program \in Programs /\ Progress
        /\ Len(program) \in Nat /\ upc[First] \in Nat
    <3>1. Len(program) \in Nat
      BY <1>1, MainOps, Main1Ops, Main2Ops, Main3Ops DEF UInv, ProgramInv, Programs
    <3> QED
      BY <1>1, <3>1, SlotsFacts DEF UInv, ProgramInv, KernelInv
  <2>2. CASE program = main
    <3>1. ForkedTwice /\ Expected = {0, 1, 2, 3, 4} /\ Len(program) - 1 = 8
      BY <2>1, <2>2, MainOps DEF Progress, Expected
    <3>2. live \subseteq Expected
      BY <3>1 DEF ForkedTwice, Idle, First
    <3>3. CASE live = {Idle, First, 2, 3, 4}
      BY <2>0, <2>1, <3>1, <3>2, <3>3 DEF Processes, Idle, First
    <3>4. CASE live # {Idle, First, 2, 3, 4}
      <4>1. \E i \in live \ {Idle} : ~ (upc[i] >= 8)
        <5>1. First \in live \ {Idle} /\ (2 \in live => 2 \in live \ {Idle})
          BY <3>1 DEF ForkedTwice, Idle, First
        <5>2. ~ (upc[First] >= 8) \/ (2 \in live /\ ~ (upc[2] >= 8))
          BY <2>1, <3>1, <3>4 DEF ForkedTwice
        <5> QED
          BY <5>1, <5>2
      <4> QED
        BY <2>0, <2>1, <3>1, <3>2, <4>1 DEF Processes
    <3> QED
      BY <3>3, <3>4
  <2>3. CASE program = main1
    <3>1. ForkedOnce(1) /\ Expected = {0, 1, 2} /\ Len(program) - 1 > 1
      BY <2>1, <2>3, Main1Ops, ProgramsDiffer DEF Progress, Expected
    <3> QED
      BY <2>0, <2>1, <3>1, Once DEF Processes
  <2>4. CASE program = main2
    <3>1. ForkedOnce(1) /\ Expected = {0, 1, 2} /\ Len(program) - 1 > 1
      BY <2>1, <2>4, Main2Ops, ProgramsDiffer DEF Progress, Expected
    <3> QED
      BY <2>0, <2>1, <3>1, Once DEF Processes
  <2>5. CASE program = main3
    <3>1. ForkedOnce(8) /\ Expected = {0, 1, 2} /\ Len(program) - 1 > 8
      BY <2>1, <2>5, Main3Ops, ProgramsDiffer DEF Progress, Expected
    <3> QED
      BY <2>0, <2>1, <3>1, Once DEF Processes
  <2> QED
    BY <2>1, <2>2, <2>3, <2>4, <2>5 DEF Programs
<1> QED
  BY <1>1, UInvariance, PTL

(* Every process counts from where its parent was, and nobody else's lines *)
(* disturb it: pages are copied on a fork and loaded from the file on a    *)
(* fault, each into a frame no other table has (getpid.c, copy_vma_mem,    *)
(* do_page_fault).                                                         *)
THEOREM LinesAreOwn == EnoughSlots /\ USpec => CountsAlone
<1>1. ASSUME UInv, PrintLine
      PROVE  Shown = (last[current] + 1) % VALUES
  <2>1. current \in Schedulable
    BY <1>1 DEF PrintLine, InUser, UInv, KernelInv, TableOK, Schedulable
  <2> QED
    BY <1>1, <2>1 DEF PrintLine, Mapped, UInv, ProgramInv, Counted, Content, Shown
<1>2. UInv /\ [UNext]_uvars => [PrintLine => Shown = (last[current] + 1) % VALUES]_uvars
  BY <1>1
<1> QED
  BY <1>2, UInvariance, PTL DEF USpec, CountsAlone
-----------------------------------------------------------------------------

(* The step of OneSliceARound.                                             *)
SliceStep ==
  \A i \in Schedulable :
    counter'[i] # counter[i] =>
      RoundOver \/ (i = current /\ counter'[i] \in {counter[i] - 1, Done})

LEMMA PrioritySlices ==
  ASSUME KernelInv, prio_sched, [Next]_vars
  PROVE  SliceStep
<1>1. Inv /\ \A i \in Schedulable : counter[i] \in Int /\ i \in Slots
  BY DEF KernelInv, Inv, TypeOK, Schedulable
<1>2. Inv'
  BY <1>1, NextInv
<1>3. \A i \in Schedulable : counter'[i] \in Int
  BY <1>1, <1>2 DEF Inv, TypeOK
<1>4. CASE UNCHANGED vars
  BY <1>4 DEF vars, SliceStep
<1>5. CASE ChargeStep
  <2> SUFFICES ASSUME NEW i \in Schedulable, counter'[i] # counter[i]
               PROVE  RoundOver \/ (i = current /\ counter'[i] \in {counter[i] - 1, Done})
    BY DEF SliceStep
  <2>1. CASE counter'[i] < counter[i]
    BY <1>5, <2>1 DEF ChargeStep
  <2>2. CASE counter'[i] > counter[i]
    BY <1>5, <2>2 DEF ChargeStep, RoundOver, Done
  <2> QED
    BY <1>1, <1>3, <2>1, <2>2
<1> QED
  BY <1>1, <1>4, <1>5, NextCharges

(* Of the other scheduler: new times are drawn when the running task's     *)
(* last tick leaves all hung.                                              *)
LEMMA ShortestSlices ==
  ASSUME KernelInv, ~prio_sched, SStart \/ STimer
  PROVE  SliceStep
<1>1. TableOK /\ TimesOK
  BY DEF KernelInv
<1>2. /\ counter \in [Slots -> 0 .. HUNG]
      /\ \A i \in Schedulable : i \in Slots /\ counter[i] \in 1 .. HUNG
      /\ current # Idle => counter[current] \in 1 .. MAX_TIME
      /\ current \in Slots
  BY <1>1 DEF TimesOK, TableOK, Schedulable
<1>3. /\ Charged \in [Slots -> 0 .. HUNG]
      /\ \A i \in Slots : i # current => Charged[i] = counter[i]
      /\ current # Idle => Charged[current] = counter[current] - 1
  BY <1>2 DEF Charged, HUNG
<1>4. CASE counter' = Charged
  BY <1>2, <1>3, <1>4 DEF SliceStep, Schedulable
<1>5. ASSUME NEW c \in {counter, Charged}, NEW site,
             schedule_short_first(c, site),
             current = Idle \/ (c = Charged /\ Charged[current] = 0)
      PROVE  SliceStep
  <2>1. /\ c \in [Slots -> 0 .. HUNG]
        /\ \A i \in Schedulable : i # current => c[i] = counter[i] /\ c[i] \in 1 .. HUNG
    BY <1>2, <1>3
  <2>2. counter' = Hung(c) \/ AllHung(Hung(c))
    BY <1>1, <1>5, <2>1, ShortestFacts
  <2>3. \A i \in Schedulable : Hung(c)[i] = IF i = current THEN HUNG ELSE counter[i]
    BY <1>2, <2>1 DEF Hung
  <2>4. current \in Schedulable => counter[current] = 1
    BY <1>2, <1>3, <1>5 DEF Schedulable
  <2>5. Done = HUNG
    BY DEF Done
  <2>6. CASE counter' = Hung(c)
    BY <2>3, <2>5, <2>6 DEF SliceStep
  <2>7. CASE AllHung(Hung(c))
    <3>1. RoundOver
      BY <2>3, <2>4, <2>5, <2>7 DEF AllHung, RoundOver
    <3> QED
      BY <3>1 DEF SliceStep
  <2> QED
    BY <2>2, <2>6, <2>7
<1>6. CASE SStart
  BY <1>5, <1>6 DEF SStart
<1>7. CASE STimer
  BY <1>4, <1>5, <1>7 DEF STimer, MustSchedule
<1> QED
  BY <1>6, <1>7

(* Nobody gets a second slice before everyone had a first, with either     *)
(* scheduler and through forks that pass slices on (do_timer,              *)
(* schedule_priority, schedule_short_first, sys_fork).                     *)
THEOREM SlicesInRounds == EnoughSlots /\ USpec => OneSliceARound
<1>1. ASSUME UInv, [UNext]_uvars PROVE SliceStep
  <2>1. CASE Kernel
    BY <1>1, <2>1, PrioritySlices, ShortestSlices DEF Kernel, SchedulerStep, UInv, KernelInv, Next
  <2>2. CASE UFork
    <3>1. PICK child \in Slots : ForksTo(child)
      BY <1>1, <2>2, ForkForks DEF UFork, UInv, KernelInv
    <3>2. DOMAIN counter = Slots
      BY <1>1 DEF UInv, KernelInv, Inv, TypeOK, TimesOK
    <3>3. \A i \in Schedulable : counter'[i] = counter[i]
      BY <3>1, <3>2 DEF ForksTo, FreeSlots, Schedulable
    <3> QED
      BY <3>3 DEF SliceStep
  <2>3. CASE UPageFault \/ UClear \/ UGetpid \/ PrintLine \/ Branch \/ UNCHANGED uvars
    BY <2>3 DEF UPageFault, UClear, UGetpid, Getpid, PrintLine, Branch, uvars, svars, vars, SliceStep
  <2> QED
    BY <1>1, <2>1, <2>2, <2>3 DEF UNext, UserStep
<1>2. UInv /\ [UNext]_uvars => [SliceStep]_svars
  BY <1>1
<1> QED
  BY <1>2, UInvariance, PTL DEF USpec, OneSliceARound, SliceStep

=============================================================================
