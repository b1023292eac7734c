------------------------------- MODULE Clock --------------------------------
(***************************************************************************)
(* The timer as clock.c uses it: an SBI call sets the time of the next     *)
(* interrupt, which is pending from then on until the call is made again.  *)
(* The firmware and the counter behind rdtime are external.                *)
(*                                                                         *)
(* Only distances matter: times are counted from now, so that they stay    *)
(* small however long the kernel runs.                                     *)
(***************************************************************************)
EXTENDS Integers, Sbi

CONSTANT TIMECLOCK   (* cycles from one interrupt to the next              *)

ASSUME ClockAssumption == TIMECLOCK \in Nat \ {0}

VARIABLE mtimecmp   (* when the next interrupt is due, or Never            *)

Never == TIMECLOCK + 1

ClockOff == mtimecmp = Never

(* rdtime.                                                                 *)
get_cycles == 0

(* The firmware, asked to set the timer.                                   *)
SetTimer(call) == call.a7 = SBI_SET_TIMER /\ mtimecmp' = call.a0

clock_set_next_event ==
  LET next == get_cycles + TIMECLOCK
  IN  SetTimer(sbi_ecall(0, 0, next))

clock_init == clock_set_next_event

Pending == mtimecmp = 0

(* A cycle.                                                                *)
Elapse == mtimecmp \in 1 .. TIMECLOCK /\ mtimecmp' = mtimecmp - 1
=============================================================================
