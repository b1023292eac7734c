------------------------------ MODULE ProcRegs -----------------------------
(***************************************************************************)
(* What traps and switches promise user programs: every process has its    *)
(* registers and its program counter to itself.  Interrupts, page faults   *)
(* and the runs of others pass unnoticed; a system call answers in a0 and  *)
(* goes on behind the call; clone copies the caller, but for a0.           *)
(***************************************************************************)
CONSTANTS
  Tasks,      (* process slots                                             *)
  First,      (* the process that exists at boot                           *)
  Nobody,     (* no process                                                *)
  RegFiles,   (* [registers -> words]                                      *)
  Zero        (* a word: 0                                                 *)

VARIABLES
  procs,      (* the processes there are                                   *)
  user,       (* the process that executes user code, or Nobody            *)
  regs,       (* regs[t], the registers of process t                       *)
  ip          (* ip[t], "here" or, when a call was answered, "behind" it   *)

regvars == <<procs, user, regs, ip>>

RegInit ==
  /\ procs = {}
  /\ user  = Nobody
  /\ regs \in [Tasks -> RegFiles]
  /\ ip    = [t \in Tasks |-> "here"]

Answered(r, w) == [r EXCEPT !["a0"] = w]

(* Process t's registers become r, the others' stay.                       *)
Becomes(t, r) == r \in RegFiles /\ regs' = [regs EXCEPT ![t] = r]

(* The first process starts, with anything in its registers.               *)
Start ==
  /\ procs = {}
  /\ procs' = {First}
  /\ user'  = First
  /\ Becomes(First, regs'[First])
  /\ UNCHANGED ip

(* User code runs on.                                                      *)
Work ==
  /\ user # Nobody
  /\ Becomes(user, regs'[user])
  /\ ip' = [ip EXCEPT ![user] = "here"]
  /\ UNCHANGED <<procs, user>>

Leave ==
  /\ user # Nobody
  /\ user' = Nobody
  /\ UNCHANGED <<procs, regs, ip>>

Resume(t) ==
  /\ user = Nobody
  /\ t \in procs
  /\ user' = t
  /\ UNCHANGED <<procs, regs, ip>>

Answer(t) ==
  /\ user = Nobody
  /\ t \in procs
  /\ ip[t] = "here"
  /\ Becomes(t, Answered(regs[t], regs'[t]["a0"]))
  /\ ip' = [ip EXCEPT ![t] = "behind"]
  /\ UNCHANGED <<procs, user>>

Clone(t, c) ==
  /\ user = Nobody
  /\ t \in procs /\ c \notin procs
  /\ procs' = procs \cup {c}
  /\ Becomes(c, Answered(regs[t], Zero))
  /\ ip'    = [ip EXCEPT ![c] = "behind"]
  /\ UNCHANGED user

RegNext ==
  \/ Start \/ Work \/ Leave
  \/ \E t \in Tasks : Resume(t) \/ Answer(t)
  \/ \E t, c \in Tasks : Clone(t, c)

RegSpec == RegInit /\ [][RegNext]_regvars

=============================================================================
