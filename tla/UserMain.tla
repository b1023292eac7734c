------------------------------ MODULE UserMain ------------------------------
(***************************************************************************)
(* The four user programs of getpid.c on the kernel of Sjf, with either    *)
(* scheduler: processes that fork, and then print their pid and a counter  *)
(* for ever.                                                               *)
(*                                                                         *)
(* Registers are each process's own (Context).  Of memory, the page that   *)
(* has global_variable is modelled: it is loaded on the first access to    *)
(* it, and fork copies it if it is there.  A step is an operation of the   *)
(* program; the delay loops are the timer interrupts between two steps.    *)
(***************************************************************************)
EXTENDS Sjf, Sequences

CONSTANTS
  VALUES,      (* bound: global_variable is counted modulo VALUES          *)
  FILE_WORD    (* what the file has where global_variable is loaded from:  *)
               (* a variable of .bss is not in the file, so that this is   *)
               (* something else that follows (Image: BssZero)             *)

ASSUME UserAssumption == VALUES \in Nat \ {0} /\ FILE_WORD \in 0 .. VALUES - 1

VARIABLES
  program,   (* the operations of the main function that was built         *)
  upc,       (* the next operation                                         *)
  pte,       (* the frame of the page with global_variable in the table    *)
             (* of a process, or NoFrame when the page is not mapped       *)
  page,      (* global_variable in each frame                              *)
  side,      (* the branch a process took after fork                       *)
  last       (* the value last printed, by the process or, before it was   *)
             (* forked, by its parent.  Not state of the code.             *)

user  == <<program, upc, pte, page, side, last>>
uvars == <<svars, user>>

NoFrame == 0
Frames  == 1 .. NR_TASKS

-----------------------------------------------------------------------------
(* The programs; each ends with a loop around its last two operations.     *)
line_ops == <<"getpid", "print">>
main  == <<"clear">> \o line_ops \o <<"fork">> \o line_ops \o <<"fork">> \o line_ops
main1 == <<"fork">> \o line_ops
main2 == <<"fork", "if">> \o line_ops
main3 == <<"clear">> \o line_ops \o line_ops \o line_ops \o <<"fork", "if">> \o line_ops

Op == program[upc[current]]

(* Mutant: the loop takes in the operation before it.                      *)
NextOpLong == IF upc[current] = Len(program) THEN Len(program) - 2 ELSE upc[current] + 1

NextOp == IF upc[current] = Len(program) THEN Len(program) - 1 ELSE upc[current] + 1

Advance == upc' = [upc EXCEPT ![current] = NextOp]

(* The value before v.                                                     *)
Before(v) == IF v = 0 THEN VALUES - 1 ELSE v - 1

UInit ==
  /\ SInit
  /\ program \in {main, main1, main2, main3}
  /\ upc  = [i \in Slots |-> 1]
  /\ pte  = [i \in Slots |-> NoFrame]
  /\ page = [f \in Frames |-> 0]
  /\ side = [i \in Slots |-> "none"]
  /\ last = [i \in Slots |-> Before(FILE_WORD)]

(* kalloc: the first frame that no table has.                              *)
Unused(f)     == f \in Frames /\ \A i \in Slots : pte[i] # f
FreshFrame(f) == Unused(f) /\ \A g \in Frames : Unused(g) => f <= g

(* do_page_fault: the first access to anything on the page loads it.       *)
UPageFault ==
  /\ InUser /\ pte[current] = NoFrame
  /\ \E f \in Frames :
       /\ FreshFrame(f)
       /\ pte'  = [pte EXCEPT ![current] = f]
       /\ page' = [page EXCEPT ![f] = FILE_WORD]
  /\ UNCHANGED <<svars, program, upc, side, last>>

Mapped == pte[current] # NoFrame

(* global_variable = 0.                                                    *)
UClear ==
  /\ InUser /\ Op = "clear" /\ Mapped /\ Advance
  /\ page' = [page EXCEPT ![pte[current]] = 0]
  /\ last' = [last EXCEPT ![current] = Before(0)]
  /\ UNCHANGED <<svars, program, pte, side>>

UGetpid ==
  /\ Op = "getpid" /\ Getpid /\ Advance
  /\ UNCHANGED <<prio_sched, program, pte, page, side, last>>

(* The value a line shows, of global_variable++.                           *)
Shown == page[pte[current]]

PrintLine ==
  /\ InUser /\ Op = "print" /\ Mapped /\ Advance
  /\ page' = [page EXCEPT ![pte[current]] = (@ + 1) % VALUES]
  /\ last' = [last EXCEPT ![current] = Shown]
  /\ UNCHANGED <<svars, program, pte, side>>

(* Mutant: the child's table gets the parent's page, not a copy of it.     *)
SharedPage(child) ==
  pte' = [pte EXCEPT ![child] = pte[current]] /\ UNCHANGED page

(* The child's table is the kernel's, with a copy of the parent's page if  *)
(* there is one (copy_vma_mem).                                            *)
CopiedPage(child) ==
  \/ /\ ~Mapped
     /\ pte' = [pte EXCEPT ![child] = NoFrame]
     /\ UNCHANGED page
  \/ /\ Mapped
     /\ \E f \in Frames :
          /\ FreshFrame(f)
          /\ pte'  = [pte EXCEPT ![child] = f]
          /\ page' = [page EXCEPT ![f] = page[pte[current]]]

(* Both continue behind fork.                                              *)
UFork ==
  /\ Op = "fork" /\ Fork
  /\ LET child == current'
     IN  /\ upc' = [upc EXCEPT ![current] = NextOp, ![child] = NextOp]
         /\ CopiedPage(child)
         /\ last' = [last EXCEPT ![child] = last[current]]
         /\ side' = [side EXCEPT ![child] = side[current]]
  /\ UNCHANGED <<prio_sched, program>>

(* if (pid == 0), on the value fork returned.                              *)
Branch ==
  /\ InUser /\ Op = "if" /\ Advance
  /\ side' = [side EXCEPT ![current] = IF ret[current] = 0 THEN "child" ELSE "parent"]
  /\ UNCHANGED <<svars, program, pte, page, last>>

UserStep == UPageFault \/ UClear \/ UGetpid \/ PrintLine \/ UFork \/ Branch

Kernel == SchedulerStep /\ UNCHANGED user

UNext == Kernel \/ UserStep

(* User code owes the kernel nothing.                                      *)
USpec == UInit /\ [][UNext]_uvars /\ WF_uvars(Kernel)

-----------------------------------------------------------------------------
(* A program ends up with the processes it was written for: four for main, *)
(* two for the others, each going on behind the forks that made it, and    *)
(* add_task finds a slot for every one of the forks.                       *)
Expected == IF program = main THEN {0, 1, 2, 3, 4} ELSE {0, 1, 2}

Processes ==
  /\ live \subseteq Expected
  /\ InUser /\ Op = "fork" => FreeSlots # {}
  /\ (\A i \in live \ {Idle} : upc[i] >= Len(program) - 1) => live = Expected

(* Every process counts on its own, from where its parent was at the fork: *)
(* a line shows the value after the last one in the process's own history, *)
(* whoever printed in between, and whether its page came from its parent   *)
(* or from the file.  The first value is 0 only in a program that clears   *)
(* the variable; in the others it is what the file happened to have there. *)
CountsAlone ==
  [][PrintLine => Shown = (last[current] + 1) % VALUES]_uvars

(* After if (pid == 0) the original process is in the parent's branch and  *)
(* the forked one in the child's: each got its own return of the one call. *)
RightBranch ==
  \A i \in Schedulable : side[i] \in {"none", IF i = First THEN "parent" ELSE "child"}
=============================================================================
