----------------------------- MODULE AddrSpace -----------------------------
(***************************************************************************)
(* Address spaces: three-level page tables (vm.c), areas and page faults   *)
(* (vma.c, trap.c, elfutils.c, find_vma and do_mmap of proc.c), and the    *)
(* copy of the parent's memory in sys_fork.                                *)
(*                                                                         *)
(* A page of physical memory is a frame.  The model keeps two views of     *)
(* each, as a page table and as data, and the invariants say that no frame *)
(* is ever used both ways.  The kernel never frees a page, and every       *)
(* request it makes while tasks run is for one page, which buddy_alloc     *)
(* takes at the lowest free place: `next` counts up.  RAM starts as zeros, *)
(* which setup_pte relies on, since it does not clear a new table.         *)
(*                                                                         *)
(* Handlers run with interrupts off and are one step each, except that     *)
(* sys_fork is one step per page of its copy loops.  A step that needs     *)
(* more than the NFRAMES frames of the model is not taken; what the code   *)
(* does when memory runs out is in Buddy.                                  *)
(***************************************************************************)
EXTENDS Integers, Sequences

CONSTANTS
  NR_TASKS,    (* size of task[], idle included                            *)
  NFRAMES,     (* frames of RAM                                            *)
  Indices,     (* indices of page table entries                            *)
  UserIndices, (* the root indices of the user half of an address space    *)
  Vmas,        (* vmas[0 .. vma_cnt-1] of every task, as task_init makes   *)
               (* them and sys_fork copies them: [pages, anon], the pages  *)
               (* in the order of their addresses                          *)
  Values,      (* contents of a page                                       *)
  Zero,        (* a page of zeros                                          *)
  File         (* File[p], what alloc_elf_mem puts into page p             *)

Slots  == 0 .. NR_TASKS - 1
Idle   == 0
First  == 1
Frames == 0 .. NFRAMES
None   == 0                          (* a table entry that is not valid    *)

(* A page of user memory is the three table indices of its address.        *)
Pages       == UserIndices \X Indices \X Indices
PagesOf(i)  == {Vmas[i].pages[j] : j \in DOMAIN Vmas[i].pages}
UserPages   == UNION {PagesOf(i) : i \in DOMAIN Vmas}
Anonymous   == UNION {PagesOf(i) : i \in {j \in DOMAIN Vmas : Vmas[j].anon}}
Contents(i, p) == IF Vmas[i].anon THEN Zero ELSE File[p]

ASSUME SizesAssumption == NR_TASKS \in Nat /\ NR_TASKS >= 2 /\ NFRAMES \in Nat /\ NFRAMES >= 5
ASSUME IndicesAssumption == UserIndices \subseteq Indices
ASSUME VmasAssumption ==
  /\ Vmas \in Seq([pages : Seq(Pages), anon : BOOLEAN]) /\ Len(Vmas) >= 1
  /\ \A i \in DOMAIN Vmas :
       IF Vmas[i].anon THEN Len(Vmas[i].pages) = 1 ELSE Len(Vmas[i].pages) >= 1
  /\ \A i, j \in DOMAIN Vmas :    (* the stack is apart from the program   *)
       Vmas[i].anon # Vmas[j].anon => PagesOf(i) \cap PagesOf(j) = {}
ASSUME ValuesAssumption == Zero \in Values /\ File \in [UserPages -> Values]

VARIABLES
  pt,       (* pt[f][i], entry i of frame f as a table: the frame it       *)
            (* points to, or None.  Permission bits follow the VMA.        *)
  data,     (* data[f], frame f as data                                    *)
  next,     (* the lowest free frame                                       *)
  use,      (* what each frame was allocated for.  Not state of the code.  *)
  live,     (* slots with task[i] # NULL                                   *)
  root,     (* root[i], the frame of task[i]->page_table                   *)
  current,  (* the running task; satp holds its root                       *)
  mode,     (* "user" code, inside sys_"fork", or "halted"                 *)
  child,    (* sys_fork: the slot of child_task                            *)
  at        (* sys_fork: the VMA and the page its copy loops are at        *)

mem  == <<pt, data, next, use>>
vars == <<pt, data, next, use, live, root, current, mode, child, at>>

-----------------------------------------------------------------------------
(* Page tables.                                                            *)

(* The frame page p of task t is mapped to, or None: an entry that is not  *)
(* valid leads to None, whose own entries are None.                        *)
Frame(t, p) == pt[pt[pt[root[t]][p[1]]][p[2]]][p[3]]

(* What a frame is used for; a table or a page names the task and the path *)
(* of indices that leads to it.                                            *)
Unused            == <<"unused", Idle, None>>
Kernel            == <<"kernel", Idle, None>>
TaskPage(t)       == <<"task", t, None>>
RootOf(t)         == <<"root", t, None>>
MiddleOf(t, a)    == <<"middle", t, a>>
LastOf(t, a, b)   == <<"last", t, <<a, b>> >>
PageOf(t, p)      == <<"page", t, p>>

Uses ==
  {Unused, Kernel} \cup
  {TaskPage(t) : t \in Slots} \cup {RootOf(t) : t \in Slots} \cup
  {MiddleOf(t, a) : t \in Slots, a \in UserIndices} \cup
  {LastOf(t, a, b) : t \in Slots, a \in UserIndices, b \in Indices} \cup
  {PageOf(t, p) : t \in Slots, p \in Pages}

(* What entry i of a table that is used as u leads to.                     *)
Below(u, i) ==
  CASE u[1] = "root"   -> MiddleOf(u[2], i)
    [] u[1] = "middle" -> LastOf(u[2], u[3], i)
    [] u[1] = "last"   -> PageOf(u[2], <<u[3][1], u[3][2], i>>)
    [] OTHER           -> Unused

(* Memory as the allocating operations change it.                          *)
Memory == [pt |-> pt, next |-> next, use |-> use]

(* Mutant: the page is handed out but not marked as taken.                 *)
NotTaken(m, u) == [m EXCEPT !.use[m.next] = u]

(* kalloc, for use u.                                                      *)
Taken(m, u) ==
  [pt |-> m.pt, next |-> m.next + 1, use |-> [m.use EXCEPT ![m.next] = u]]

(* setup_pte when entry i of f is not valid: a new table behind it.        *)
SetupPte(m, f, i) ==
  IF m.pt[f][i] # None THEN m
  ELSE [Taken(m, Below(m.use[f], i)) EXCEPT !.pt[f][i] = m.next]

(* map_final_pgtbl: page p below root r is mapped to frame f, whatever it  *)
(* was mapped to before.                                                   *)
MapFinal(m, r, p, f) ==
  LET m1 == SetupPte(m, r, p[1])
      l1 == m1.pt[r][p[1]]
      m2 == SetupPte(m1, l1, p[2])
      l0 == m2.pt[l1][p[2]]
  IN  [m2 EXCEPT !.pt[l0][p[3]] = f]

(* A page of data for page p of task t, then the tables that map it.       *)
Mapped(t, p) == MapFinal(Taken(Memory, PageOf(t, p)), root[t], p, next)

(* pgcpy, of a table or of data: page is what the frame read holds.        *)
pgcpy(pages, dst, page) == [pages EXCEPT ![dst] = page]

(* n more frames are free; so many are needed to map page p below r.       *)
Room(n) == next + n <= NFRAMES + 1

Needed(r, p) == IF pt[r][p[1]] = None THEN 3
                ELSE IF pt[pt[r][p[1]]][p[2]] = None THEN 2 ELSE 1

MemoryBecomes(m) == pt' = m.pt /\ next' = m.next /\ use' = m.use

-----------------------------------------------------------------------------
(* After task_init: the kernel's tables are frames 1 (swapper_pg_dir) and  *)
(* 2, which stands for the tables below it; idle has a task page, task 1   *)
(* has a task page and a root, the copy setup_user_pgtbl makes, and its    *)
(* areas but none of their pages.                                          *)

Swapper   == 1
NoEntries == [i \in Indices |-> None]
KernelDir == [i \in Indices |-> IF i \in UserIndices THEN None ELSE 2]

Init ==
  /\ pt      = [f \in Frames |-> IF f \in {Swapper, 5} THEN KernelDir ELSE NoEntries]
  /\ data    = [f \in Frames |-> Zero]
  /\ next    = 6
  /\ use     = [f \in Frames |-> CASE f <= 3 -> Kernel
                                   [] f = 4  -> TaskPage(First)
                                   [] f = 5  -> RootOf(First)
                                   [] OTHER  -> Unused]
  /\ live    = {Idle, First}
  /\ root    = [i \in Slots |-> IF i = First THEN 5 ELSE None]
  /\ current = First
  /\ mode    = "user"
  /\ child   = Idle
  /\ at      = <<1, 1>>

-----------------------------------------------------------------------------
(* User code and the traps it causes.                                      *)

InUser == mode = "user"

(* A store to a page that is mapped.                                       *)
Store(p, v) ==
  /\ InUser
  /\ Frame(current, p) # None
  /\ data' = [data EXCEPT ![Frame(current, p)] = v]
  /\ UNCHANGED <<pt, next, use, live, root, current, mode, child, at>>

(* do_page_fault in area i: the first access to a page, or the fetch of an *)
(* instruction from the stack, which is never executable and which the     *)
(* handler maps afresh.                                                    *)
PageFault(i, p) ==
  /\ InUser
  /\ p \in PagesOf(i)
  /\ Frame(current, p) = None \/ Vmas[i].anon
  /\ Room(Needed(root[current], p))
  /\ MemoryBecomes(Mapped(current, p))
  /\ data' = [data EXCEPT ![next] = Contents(i, p)]
  /\ UNCHANGED <<live, root, current, mode, child, at>>

(* do_page_fault outside every area, kernel addresses included: halt().    *)
FaultNoVma ==
  /\ InUser
  /\ mode' = "halted"
  /\ UNCHANGED <<pt, data, next, use, live, root, current, child, at>>

(* A timer tick that ends in switch_to(task[t]).                           *)
Switch(t) ==
  /\ InUser
  /\ t \in live \ {Idle}
  /\ current' = t
  /\ UNCHANGED <<pt, data, next, use, live, root, mode, child, at>>

-----------------------------------------------------------------------------
(* sys_fork.                                                               *)

FreeSlots    == Slots \ (live \cup {Idle, First})
FirstFree(i) == i \in FreeSlots /\ \A j \in FreeSlots : i <= j

(* Mutants: the child's root is copied from the parent's, or not at all.   *)
ParentRoot == pt[root[current]]
EmptyRoot  == NoEntries

(* pgcpy(child_task->page_table, get_kernel_pgtbl()).                      *)
ChildRoot == pt[Swapper]

(* Up to the copy loops: the task page, which inherits the areas, and the  *)
(* root of the child's tables.                                             *)
ForkBegin ==
  /\ InUser
  /\ Room(2)
  /\ \E c \in Slots :
       /\ FirstFree(c)
       /\ LET m == Taken(Taken(Memory, TaskPage(c)), RootOf(c))
          IN  MemoryBecomes([m EXCEPT !.pt = pgcpy(m.pt, next + 1, ChildRoot)])
       /\ live'  = live \cup {c}
       /\ root'  = [root EXCEPT ![c] = next + 1]
       /\ child' = c
  /\ mode' = "fork"
  /\ at'   = <<1, 1>>
  /\ UNCHANGED <<data, current>>

(* Mutant: the loop runs while va <= vm_end.                               *)
AfterLate(i, j) == IF j <= Len(Vmas[i].pages) THEN <<i, j + 1>> ELSE <<i + 1, 1>>

(* The page after <<i, j>> in copy_vma_mem's order, areas in the order of  *)
(* sys_fork's.                                                             *)
After(i, j) == IF j < Len(Vmas[i].pages) THEN <<i, j + 1>> ELSE <<i + 1, 1>>

(* Mutant: the child's tables are active already.                          *)
ReadAsChild(p) == data[Frame(child, p)]

(* The page is read at its user address: through the active tables, which  *)
(* are the parent's until switch_to.                                       *)
ReadActive(p) == data[Frame(current, p)]

(* One turn of the loop in copy_vma_mem.                                   *)
CopyPage ==
  /\ mode = "fork"
  /\ at[1] \in DOMAIN Vmas
  /\ LET p == Vmas[at[1]].pages[at[2]]
     IN  \/ /\ Frame(current, p) # None
            /\ Room(Needed(root[child], p))
            /\ MemoryBecomes(Mapped(child, p))
            /\ data' = pgcpy(data, next, ReadActive(p))
         \/ /\ Frame(current, p) = None
            /\ UNCHANGED mem
  /\ at' = After(at[1], at[2])
  /\ UNCHANGED <<live, root, current, mode, child>>

(* switch_to(child_task), after the last area.                             *)
ForkEnd ==
  /\ mode = "fork"
  /\ at[1] \notin DOMAIN Vmas
  /\ current' = child
  /\ mode'    = "user"
  /\ child'   = Idle
  /\ at'      = <<1, 1>>
  /\ UNCHANGED <<pt, data, next, use, live, root>>

(* add_task returned -1: halt().                                           *)
ForkTableFull ==
  /\ InUser
  /\ Room(1)
  /\ FreeSlots = {}
  /\ mode' = "halted"
  /\ use'  = [use EXCEPT ![next] = Kernel]
  /\ next' = next + 1
  /\ UNCHANGED <<pt, data, live, root, current, child, at>>

Next ==
  \/ \E p \in UserPages, v \in Values : Store(p, v)
  \/ \E i \in DOMAIN Vmas : \E p \in PagesOf(i) : PageFault(i, p)
  \/ FaultNoVma
  \/ \E t \in Slots : Switch(t)
  \/ ForkBegin
  \/ CopyPage
  \/ ForkEnd
  \/ ForkTableFull

Spec == Init /\ [][Next]_vars

-----------------------------------------------------------------------------
(* Properties.                                                             *)

(* Every variable keeps its type; the loops of sys_fork stay on a page of  *)
(* an area until they are done.                                            *)
TypeOK ==
  /\ pt \in [Frames -> [Indices -> Frames]]
  /\ data \in [Frames -> Values]
  /\ next \in 6 .. NFRAMES + 1
  /\ use \in [Frames -> Uses]
  /\ {Idle, First} \subseteq live /\ live \subseteq Slots
  /\ root \in [Slots -> Frames]
  /\ current \in live \ {Idle}
  /\ mode \in {"user", "fork", "halted"}
  /\ child \in live /\ (mode = "fork" => child # Idle /\ child # current)
  /\ \/ at[1] \in DOMAIN Vmas /\ at[2] \in DOMAIN Vmas[at[1]].pages
     \/ mode = "fork" /\ at = <<Len(Vmas) + 1, 1>>

(* No two pages, of one task or of two, share a frame: nobody sees what    *)
(* another task stores, also not in the middle of a fork.                  *)
Isolation ==
  \A t, u \in live \ {Idle} : \A p, q \in Pages :
    Frame(t, p) # None /\ Frame(t, p) = Frame(u, q) => t = u /\ p = q

(* The frames that hold page tables, task pages or the kernel.             *)
Tables(t) ==
  LET l1 == {pt[root[t]][i] : i \in UserIndices}
  IN  {root[t]} \cup l1 \cup {pt[f][i] : f \in l1, i \in Indices}

KernelFrames ==
  {f \in 1 .. next - 1 : use[f] = Kernel \/ \E t \in live : use[f] = TaskPage(t)}

(* A user page is never mapped to a frame that holds a page table, a task  *)
(* page with its kernel stack, or the kernel, and is always memory that    *)
(* was allocated.                                                          *)
TablesNotExposed ==
  \A t, u \in live \ {Idle} : \A p \in Pages :
    Frame(t, p) # None =>
      Frame(t, p) < next /\ Frame(t, p) \notin Tables(u) \cup KernelFrames

(* The kernel runs under the tables of whatever task is current: its half  *)
(* is the same in all of them, and still what boot made it.                *)
KernelEverywhere ==
  \A t \in live \ {Idle} : \A i \in Indices :
    /\ pt[Swapper][i] = KernelDir[i]
    /\ i \notin UserIndices => pt[root[t]][i] = KernelDir[i]

-----------------------------------------------------------------------------
(* Refinement.                                                             *)

Initial == [p \in UserPages |-> IF p \in Anonymous THEN Zero ELSE File[p]]

(* A page that is not mapped yet holds what a fault would put there.  The  *)
(* child of a fork in progress does not exist yet.                         *)
Visible == live \ (IF mode = "fork" THEN {Idle, child} ELSE {Idle})

ProcessMemory ==
  [t \in Slots |->
    IF t \in Visible
    THEN [p \in UserPages |->
            IF Frame(t, p) = None THEN Initial[p] ELSE data[Frame(t, p)]]
    ELSE Initial]

Abstract == INSTANCE ProcMem WITH
  Tasks <- Slots, procs <- Visible, running <- current, mem <- ProcessMemory

(* Demand paging, copying and switching implement private flat memories:   *)
(* page faults are invisible, and a child gets exactly the parent's memory,*)
(* pages the parent never touched included.                                *)
ImplementsProcMem == Abstract!MemSpec

=============================================================================
