------------------------------- MODULE Tasks -------------------------------
(***************************************************************************)
(* The task table and the scheduler of the kernel: task_init, the timer    *)
(* tick, schedule_priority, switch_to, and the getpid and clone system     *)
(* calls, as one hart runs them.                                           *)
(*                                                                         *)
(* After boot the kernel runs with interrupts off (a trap clears           *)
(* sstatus.SIE and nothing in the handlers sets it), so a trap handler is  *)
(* one step, from the trap to the sret that returns to SOME task.  What    *)
(* interleaves is user code of the tasks, and the handlers that were       *)
(* suspended inside switch_to: a task that is switched out keeps a frame   *)
(* of kernel code, and finishes it when it is switched in again.           *)
(***************************************************************************)
EXTENDS Integers

CONSTANTS
  NR_TASKS,      (* size of task[], idle included                          *)
  PRIORITY_MAX   (* priorities are drawn from 1..PRIORITY_MAX              *)

ASSUME NrTasksAssumption  == NR_TASKS \in Nat /\ NR_TASKS >= 2
ASSUME PriorityAssumption == PRIORITY_MAX \in Nat \ {0}

VARIABLES
  live,      (* the slots i with task[i] # NULL, idle's slot 0 included     *)
  counter,   (* task[i]->counter: ticks left                               *)
  priority,  (* task[i]->priority                                          *)
  pid,       (* task[i]->pid                                               *)
  current,   (* the slot of the running task                               *)
  ra,        (* task[i]->thread.ra: where switch_to will resume the task.  *)
             (* Stale while the task runs, as in the code.                 *)
  ret,       (* the a0 slot of the task's trap frame, as getpid and clone  *)
             (* leave it; NoReturn before the first of these calls         *)
  halted     (* halt() was called: the hart spins with interrupts off      *)

vars == <<live, counter, priority, pid, current, ra, ret, halted>>

Slots      == 0 .. NR_TASKS - 1
Idle       == 0
First      == 1
NoReturn   == -1
Priorities == 1 .. PRIORITY_MAX

(* The places a call of __switch_to returns to.                            *)
Sites == {"start_kernel", "__dummy", "do_timer", "sys_fork", "__ret_from_fork"}

Schedulable == live \ {Idle}

-----------------------------------------------------------------------------
(* task_init: idle in slot 0, one user task in slot 1, the rest NULL.      *)

Init ==
  /\ live     = {Idle, First}
  /\ \E p \in Priorities : priority = [i \in Slots |-> IF i = First THEN p ELSE 0]
  /\ counter  = [i \in Slots |-> 0]
  /\ pid      = [i \in Slots |-> IF i = First THEN First ELSE 0]
  /\ current  = Idle
  /\ ra       = [i \in Slots |-> IF i = First THEN "__dummy" ELSE "start_kernel"]
  /\ ret      = [i \in Slots |-> NoReturn]
  /\ halted   = FALSE

-----------------------------------------------------------------------------
(* switch_to.                                                              *)

(* Mutant: the pid is read before the switch, from the task that leaves.   *)
SwitchToStalePid(next, site, links, frames) ==
  /\ current' = next
  /\ ra'      = [links EXCEPT ![current] = site]
  /\ ret'     = IF links[next] = "sys_fork"
                THEN [frames EXCEPT ![next] = pid[current]]
                ELSE frames

(* Mutant: a child returns through sys_fork, as its parent does.           *)
SwitchToChildReturns(next, site, links, frames) ==
  /\ current' = next
  /\ ra'      = [links EXCEPT ![current] = site]
  /\ ret'     = IF links[next] \in {"sys_fork", "__ret_from_fork"}
                THEN [frames EXCEPT ![next] = next]
                ELSE frames

(* switch_to(next), called from `site`: current is replaced before         *)
(* __switch_to saves the old context and loads the new one.  The resumed   *)
(* task finishes the handler it was suspended in: a parent inside sys_fork *)
(* returns sys_getpid(), which reads current, into its own frame.  `links` *)
(* and `frames` are thread.ra and the a0 slots as they are at the call.    *)
SwitchTo(next, site, links, frames) ==
  LET saved == [links EXCEPT ![current] = site]
  IN  /\ current' = next
      /\ ra'      = saved
      /\ ret'     = IF saved[next] = "sys_fork"
                    THEN [frames EXCEPT ![next] = pid[next]]
                    ELSE frames

-----------------------------------------------------------------------------
(* schedule_priority.                                                      *)

(* Mutant: a round ends when the running task has used up its slice.       *)
SpentCurrent(c) == current = Idle \/ c[current] = 0

Spent(c) == \A i \in Schedulable : c[i] = 0

(* The refill loop, which runs only when the scan found c = 0.             *)
Refilled(c) ==
  [i \in Slots |-> IF i \in Schedulable THEN priority[i] + (c[i] \div 2) ELSE c[i]]

(* Mutant: the refill no longer waits for the round to end.                *)
RefillAlways(c) == Refilled(c)

(* One pass of while (true) when some task has time left, two when none.   *)
AfterRefill(c) == IF Spent(c) THEN Refilled(c) ELSE c

(* The scan runs from the last slot down and replaces on a strictly larger *)
(* counter: the winner is the last of the slots with the largest counter.  *)
Chosen(c, next) ==
  /\ c[next] > 0
  /\ \A i \in Schedulable : c[i] < c[next] \/ (c[i] = c[next] /\ i <= next)

Schedule(c, site) ==
  LET filled == AfterRefill(c)
  IN  \E next \in Schedulable :
        /\ Chosen(filled, next)
        /\ counter' = filled
        /\ SwitchTo(next, site, ra, ret)

-----------------------------------------------------------------------------
(* Traps and the call in start_kernel.                                     *)

(* start_kernel calls schedule() once, as idle.                            *)
StartSchedule ==
  /\ current = Idle
  /\ Schedule(counter, "start_kernel")
  /\ UNCHANGED <<live, priority, pid, halted>>

(* do_timer charges the tick to the running task, idle excepted.           *)
Charged ==
  IF current = Idle \/ counter[current] = 0
  THEN counter
  ELSE [counter EXCEPT ![current] = @ - 1]

(* Mutant: counter-- == 0 in place of --counter == 0.                      *)
MustScheduleLate == current = Idle \/ counter[current] = 0

MustSchedule == current = Idle \/ Charged[current] = 0

(* The timer interrupt: do_timer, after the next event has been armed.     *)
Timer ==
  /\ ~halted
  /\ \/ /\ MustSchedule
        /\ Schedule(Charged, "do_timer")
     \/ /\ ~MustSchedule
        /\ counter' = Charged
        /\ UNCHANGED <<current, ra, ret>>
  /\ UNCHANGED <<live, priority, pid, halted>>

InUser == ~halted /\ current # Idle

(* The getpid system call.                                                 *)
Getpid ==
  /\ InUser
  /\ ret' = [ret EXCEPT ![current] = pid[current]]
  /\ UNCHANGED <<live, counter, priority, pid, current, ra, halted>>

FreeSlots == Slots \ (live \cup {Idle, First})

(* add_task: the first NULL slot from 2 on.                                *)
FirstFree(i) == i \in FreeSlots /\ \A j \in FreeSlots : i <= j

(* sys_fork when add_task finds a slot.  The child's task page is a copy   *)
(* of the parent's (so it inherits the counter), with pid, priority, ra    *)
(* and the a0 slot of its frame replaced; the child runs at once, and the  *)
(* parent stays suspended inside sys_fork.                                 *)
Fork ==
  /\ InUser
  /\ \E child \in Slots, p \in Priorities :
       /\ FirstFree(child)
       /\ live'     = live \cup {child}
       /\ counter'  = [counter EXCEPT ![child] = counter[current]]
       /\ priority' = [priority EXCEPT ![child] = p]
       /\ pid'      = [pid EXCEPT ![child] = child]
       /\ SwitchTo(child, "sys_fork", [ra EXCEPT ![child] = "__ret_from_fork"],
                   [ret EXCEPT ![child] = 0])
  /\ UNCHANGED halted

(* sys_fork when add_task returns -1: the kernel halts for every task.     *)
ForkTableFull ==
  /\ InUser
  /\ FreeSlots = {}
  /\ halted' = TRUE
  /\ UNCHANGED <<live, counter, priority, pid, current, ra, ret>>

(* do_page_fault on an address no VMA of the task covers: halt().          *)
FaultNoVma ==
  /\ InUser
  /\ halted' = TRUE
  /\ UNCHANGED <<live, counter, priority, pid, current, ra, ret>>

Next ==
  \/ StartSchedule
  \/ Timer
  \/ Getpid
  \/ Fork
  \/ ForkTableFull
  \/ FaultNoVma

(* The kernel goes on booting, and every timer interrupt arms the next     *)
(* one; user code owes the kernel nothing.                                 *)
Fairness == WF_vars(StartSchedule) /\ WF_vars(Timer)

Spec == Init /\ [][Next]_vars /\ Fairness

-----------------------------------------------------------------------------
(* Type invariant.                                                         *)

(* Every variable keeps its type.  The bound on counter is the one that    *)
(* could fail: a refill computes priority + counter / 2, and the result    *)
(* still never exceeds the largest priority (proc.c, schedule_priority).   *)
TypeOK ==
  /\ live \subseteq Slots /\ {Idle, First} \subseteq live
  /\ counter \in [Slots -> 0 .. PRIORITY_MAX]
  /\ priority \in [Slots -> 0 .. PRIORITY_MAX]
  /\ \A i \in Schedulable : priority[i] \in Priorities
  /\ pid \in [Slots -> Slots]
  /\ current \in live
  /\ ra \in [Slots -> Sites]
  /\ ret \in [Slots -> Slots \cup {NoReturn}]
  /\ halted \in BOOLEAN

-----------------------------------------------------------------------------
(* Safety.                                                                 *)

(* User code runs only on time the scheduler granted: whenever a task      *)
(* other than idle is current it has at least one tick left, whether it    *)
(* got the hart from schedule_priority or from its parent's fork.  (So the *)
(* branch of do_timer for a running task with counter 0 is never taken.)   *)
RunningHasTime == current # Idle => counter[current] > 0

(* A task only ever sees its own pid, or fork's 0 in a child, however many *)
(* tasks ran while it was suspended inside sys_fork: sys_getpid reads      *)
(* current after the switch back.                                          *)
RetIsOwn ==
  \A i \in Schedulable : ret[i] \in IF i = First THEN {NoReturn, i} ELSE {0, i}

(* Ticks are charged to the running task alone, one at a time, and a new   *)
(* round starts only when every task has used up its slice; each task then *)
(* gets exactly its priority, the halved remainder being always 0.         *)
FairCharging ==
  [][/\ \A i \in Schedulable :
          counter'[i] < counter[i] => i = current /\ counter'[i] = counter[i] - 1
     /\ (\E i \in Schedulable : counter'[i] > counter[i]) =>
          \A i \in Schedulable :
            /\ counter[i] = IF i = current THEN 1 ELSE 0
            /\ counter'[i] = priority[i]]_vars

-----------------------------------------------------------------------------
(* Liveness.                                                               *)

(* No starvation: every task that exists gets the hart, again and again,   *)
(* unless the kernel halts (proc.c, schedule_priority with do_timer).      *)
NoStarvation == \A i \in Slots \ {Idle} : i \in live ~> (current = i \/ halted)

=============================================================================
