----------------------------- MODULE BootSwitch -----------------------------
(***************************************************************************)
(* The first switch_to, instruction by instruction where it matters.  It   *)
(* is the only one that is not made inside a trap: head.S has set          *)
(* sstatus.SIE, and clock_init has armed the timer.                        *)
(*                                                                         *)
(* Context models the switches made inside traps, where nothing can come   *)
(* in between.                                                             *)
(***************************************************************************)
EXTENDS Integers

CONSTANTS
  PRIORITY,  (* of task 1, the time schedule_priority gives it             *)
  TICKS      (* bound: timer interrupts before the first user instruction; *)
             (* with fewer than PRIORITY none of them calls schedule()     *)

VARIABLES
  pc,              (* the next step of the boot                            *)
  t0, sepc, sie,   (* the register and the CSRs                            *)
  current, counter,
  ticks

vars == <<pc, t0, sepc, sie, current, counter, ticks>>

(* The code of the switch, and what a task that never ran has saved.       *)
Order  == <<"schedule", "current = next", "ld t0, sepc", "csrw sepc", "ld t0, sstatus",
            "csrw sstatus", "csrw satp", "__dummy", "user">>
thread == [sepc |-> "e_entry", sstatus |-> "SPIE | SUM"]

Init ==
  /\ pc = 1 /\ t0 = "any" /\ sepc = "any" /\ sie = TRUE
  /\ current = "idle" /\ counter = PRIORITY /\ ticks = 0

At(label) == Order[pc] = label /\ pc' = pc + 1

(* Steps that touch nothing a tick could.                                  *)
Other ==
  /\ At("schedule") \/ At("csrw satp") \/ At("__dummy")
  /\ UNCHANGED <<t0, sepc, sie, current, counter, ticks>>

SetCurrent ==
  /\ At("current = next")
  /\ current' = "task 1"
  /\ UNCHANGED <<t0, sepc, sie, counter, ticks>>

Load ==
  /\ \/ At("ld t0, sepc") /\ t0' = thread.sepc
     \/ At("ld t0, sstatus") /\ t0' = thread.sstatus
  /\ UNCHANGED <<sepc, sie, current, counter, ticks>>

WriteSepc ==
  /\ At("csrw sepc")
  /\ sepc' = t0
  /\ UNCHANGED <<t0, sie, current, counter, ticks>>

(* SIE is off in the saved sstatus, and in a stack address, too.           *)
WriteStatus ==
  /\ At("csrw sstatus")
  /\ sie' = FALSE
  /\ UNCHANGED <<t0, sepc, current, counter, ticks>>

(* A tick in idle's name schedules inside the trap, with interrupts off.   *)
TickIdle ==
  /\ sie /\ ticks < TICKS /\ current = "idle"
  /\ pc' = CHOOSE i \in DOMAIN Order : Order[i] = "__dummy"
  /\ current' = "task 1" /\ sepc' = thread.sepc /\ sie' = FALSE
  /\ ticks' = ticks + 1
  /\ t0' = t0 /\ counter' = counter

(* A tick in task 1's name takes one unit of its time and returns: sret    *)
(* leaves the interrupted address in sepc, and t0 holds sp (see Context).  *)
TickTask ==
  /\ sie /\ ticks < TICKS /\ current = "task 1"
  /\ counter' = counter - 1
  /\ sepc' = "kernel code" /\ t0' = "kernel stack"
  /\ ticks' = ticks + 1
  /\ UNCHANGED <<pc, sie, current>>

Next ==
  \/ Other \/ SetCurrent \/ Load \/ WriteSepc \/ WriteStatus
  \/ TickIdle \/ TickTask

Spec == Init /\ [][Next]_vars

-----------------------------------------------------------------------------
(* A program's first instruction is the one its file names: load_program   *)
(* sets the function address (proc.h:97) and sret jumps to it.             *)
FirstRunAtEntry == Order[pc] = "user" => sepc = "e_entry"
=============================================================================
