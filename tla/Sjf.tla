-------------------------------- MODULE Sjf ---------------------------------
(***************************************************************************)
(* The kernel of Tasks built with either scheduler: PRIO_SCHED chooses the *)
(* one in Tasks; without it the task with the least time left runs first,  *)
(* and times are drawn when all are used up.                               *)
(***************************************************************************)
EXTENDS Tasks

CONSTANT MAX_TIME   (* times are drawn from 1..MAX_TIME                    *)

ASSUME TimeAssumption == MAX_TIME \in Nat \ {0}

VARIABLE prio_sched   (* PRIO_SCHED is defined                             *)

svars == <<vars, prio_sched>>

(* ~((unsigned long)0), the counter of a task that waits for a new time.   *)
HUNG == MAX_TIME + 1

(* A task starts with DEFAULT_COUNTER, which depends on the scheduler.     *)
SInit ==
  /\ prio_sched \in BOOLEAN
  /\ live     = {Idle, First}
  /\ \E p \in Priorities : priority = [i \in Slots |-> IF i = First THEN p ELSE 0]
  /\ counter  = [i \in Slots |-> IF i = First /\ ~prio_sched THEN HUNG ELSE 0]
  /\ pid      = [i \in Slots |-> IF i = First THEN First ELSE 0]
  /\ current  = Idle
  /\ ra       = [i \in Slots |-> IF i = First THEN "__dummy" ELSE "start_kernel"]
  /\ ret      = [i \in Slots |-> NoReturn]
  /\ halted   = FALSE

(* Mutant: the task that has used up its time is not hung.                 *)
HungNot(c) == c

(* current->counter = ~0.                                                  *)
Hung(c) == [c EXCEPT ![current] = HUNG]

(* Mutant: the flag is set by a task that is hung.                         *)
SomeHung(c) == \E i \in Schedulable : c[i] = HUNG

(* all_zero_flag stays 0: no counter has a bit that is 0.                  *)
AllHung(c) == \A i \in Schedulable : c[i] = HUNG

(* assign_counter; the priorities are left alone.                          *)
assign_counter(c) ==
  {[i \in Slots |-> IF i \in Schedulable THEN a[i] ELSE c[i]] :
     a \in [Schedulable -> 1 .. MAX_TIME]}

(* The loop keeps the later of two equal ones.                             *)
Shortest(c, next) ==
  \A i \in Schedulable : c[next] < c[i] \/ (c[next] = c[i] /\ i <= next)

schedule_short_first(c, site) ==
  \E filled \in IF AllHung(Hung(c)) THEN assign_counter(Hung(c)) ELSE {Hung(c)} :
    \E next \in Schedulable :
      /\ Shortest(filled, next)
      /\ counter' = filled
      /\ SwitchTo(next, site, ra, ret)

(* schedule() and do_timer of that build.                                  *)
SStart ==
  /\ current = Idle
  /\ schedule_short_first(counter, "start_kernel")
  /\ UNCHANGED <<live, priority, pid, halted>>

STimer ==
  /\ ~halted
  /\ \/ /\ MustSchedule
        /\ schedule_short_first(Charged, "do_timer")
     \/ /\ ~MustSchedule
        /\ counter' = Charged
        /\ UNCHANGED <<current, ra, ret>>
  /\ UNCHANGED <<live, priority, pid, halted>>

SchedulerStep ==
  /\ \/ prio_sched /\ (StartSchedule \/ Timer)
     \/ ~prio_sched /\ (SStart \/ STimer)
  /\ UNCHANGED prio_sched

-----------------------------------------------------------------------------
(* The running task has time that was granted and is not used up: it is    *)
(* neither at 0 nor hung, also when a fork gave it its parent's rest.      *)
RunsOnGrantedTime ==
  current # Idle => counter[current] \in 1 .. IF prio_sched THEN PRIORITY_MAX ELSE MAX_TIME

(* A task that has had its slice.                                          *)
Done == IF prio_sched THEN 0 ELSE HUNG

(* Time is granted only when the running task uses up the last tick of the *)
(* round, to all tasks at once; else no task's time changes but the        *)
(* running one's, and the one a fork gives a child: nobody gets a second   *)
(* slice before everyone had a first.                                      *)
RoundOver == \A i \in Schedulable : counter[i] = IF i = current THEN 1 ELSE Done

OneSliceARound ==
  [][\A i \in Schedulable :
       counter'[i] # counter[i] =>
         RoundOver \/ (i = current /\ counter'[i] \in {counter[i] - 1, Done})]_svars
=============================================================================
