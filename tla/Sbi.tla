-------------------------------- MODULE Sbi ---------------------------------
(* Calls of the firmware, as it sees them.  The kernel makes two kinds, to *)
(* set the timer and to print a character: neither needs more arguments,   *)
(* and no caller reads the result.                                         *)

SBI_SET_TIMER == 0
SBI_PUTCHAR   == 1

sbi_ecall(ext, fid, arg0) == [a7 |-> ext, a6 |-> fid, a0 |-> arg0]
=============================================================================
