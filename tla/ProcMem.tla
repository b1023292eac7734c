------------------------------ MODULE ProcMem ------------------------------
(***************************************************************************)
(* What virtual memory promises user programs: every process has a flat    *)
(* memory of its own.  A store is seen by nobody else, and fork gives the  *)
(* child a memory equal to the parent's at that moment.  There are no page *)
(* tables, no page faults and no frames here.                              *)
(***************************************************************************)
CONSTANTS
  Tasks,      (* process slots                                             *)
  First,      (* the process that exists at boot                           *)
  UserPages,  (* the pages a program can use                               *)
  Anonymous,  (* those of them that are not executable                     *)
  Values,     (* contents of a page                                        *)
  Initial     (* [UserPages -> Values], the program image                  *)

VARIABLES
  procs,      (* processes that run or wait                                *)
  running,    (* the one that runs                                         *)
  mem         (* mem[t][p], the content of page p of process t             *)

memvars == <<procs, running, mem>>

MemInit ==
  /\ procs   = {First}
  /\ running = First
  /\ mem     = [t \in Tasks |-> Initial]

(* The running process writes one of its own pages.                        *)
Write(p, v) ==
  /\ mem' = [mem EXCEPT ![running][p] = v]
  /\ UNCHANGED <<procs, running>>

(* The running process jumps to a page that is not executable and loses    *)
(* what it had there.                                                      *)
Reset(p) ==
  /\ mem' = [mem EXCEPT ![running][p] = Initial[p]]
  /\ UNCHANGED <<procs, running>>

(* The child starts as a copy, and runs at once.                           *)
Clone(t) ==
  /\ t \notin procs
  /\ procs'   = procs \cup {t}
  /\ running' = t
  /\ mem'     = [mem EXCEPT ![t] = mem[running]]

Dispatch(t) ==
  /\ running' = t
  /\ UNCHANGED <<procs, mem>>

MemNext ==
  \/ \E p \in UserPages, v \in Values : Write(p, v)
  \/ \E p \in Anonymous : Reset(p)
  \/ \E t \in Tasks : Clone(t)
  \/ \E t \in procs : Dispatch(t)

MemSpec == MemInit /\ [][MemNext]_memvars

=============================================================================
