----------------------------- MODULE TasksWait -----------------------------
(* Tasks on the timer of Clock: interrupts come when it says so, and the   *)
(* handler sets the next one before it charges the tick.  A history        *)
(* variable counts the ticks each task has waited.                         *)
EXTENDS Tasks, Clock

VARIABLE waited   (* waited[i]: timer ticks since task i last had the hart *)

mcvars == <<vars, mtimecmp, waited>>

Longest == 2 * (NR_TASKS - 2) * PRIORITY_MAX

(* Counted up to one more than the longest wait.                           *)
Waits(tick) ==
  waited' = [i \in Slots |->
               IF i \notin live' \ {Idle, current'} \/ halted' THEN 0
               ELSE IF waited[i] <= Longest THEN waited[i] + tick ELSE waited[i]]

MCInit == Init /\ ClockOff /\ waited = [i \in Slots |-> 0]

(* start_kernel, behind task_init.                                         *)
MCClockInit == ClockOff /\ clock_init /\ UNCHANGED <<vars, waited>>

MCStart == ~ClockOff /\ StartSchedule /\ Waits(0) /\ UNCHANGED mtimecmp

(* The branch of trap_handler.                                             *)
MCTimer == Pending /\ clock_set_next_event /\ Timer /\ Waits(1)

MCElapse == Elapse /\ ~halted /\ UNCHANGED <<vars, waited>>

MCUser ==
  /\ Getpid \/ Fork \/ ForkTableFull \/ FaultNoVma
  /\ Waits(0)
  /\ UNCHANGED mtimecmp

MCNext == MCClockInit \/ MCStart \/ MCTimer \/ MCElapse \/ MCUser

MCFairness == WF_mcvars(MCClockInit) /\ WF_mcvars(MCStart) /\ WF_mcvars(MCTimer)
              /\ WF_mcvars(MCElapse)

MCSpec == MCInit /\ [][MCNext]_mcvars /\ MCFairness

(* How long a task can wait: two rounds of everyone else's slices, also    *)
(* when the others fork and their children inherit running time.           *)
BoundedWait == \A i \in Schedulable : waited[i] <= Longest

=============================================================================
