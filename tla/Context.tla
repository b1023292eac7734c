------------------------------ MODULE Context ------------------------------
(***************************************************************************)
(* Registers, trap frames and kernel stacks: _traps, __ret_from_fork,      *)
(* __dummy and __switch_to of entry.S, with the parts of trap_handler,     *)
(* switch_to and sys_fork that touch them.                                 *)
(*                                                                         *)
(* Interrupts are off in the kernel and its code does not fault, except    *)
(* for the buffer sys_write reads; so a stretch of code between two        *)
(* points where something else can happen is one step.  Which task the     *)
(* scheduler picks is left open, and memory is taken to be mapped: see     *)
(* Tasks and AddrSpace.                                                    *)
(*                                                                         *)
(* User code keeps its sp in its stack, and has used the stack before its  *)
(* first write; the programs in src/user do both.                          *)
(***************************************************************************)
EXTENDS Integers

CONSTANTS
  NR_TASKS,   (* size of task[], idle included                             *)
  DEPTH       (* how far down its stack user code goes                     *)

ASSUME SizesAssumption == NR_TASKS \in Nat /\ NR_TASKS >= 2 /\ DEPTH \in Nat

Slots  == 0 .. NR_TASKS - 1
Values == 0 .. DEPTH
Idle  == 0
First == 1

(* sp, t0 and a0; s stands for the callee-saved registers, x for the rest. *)
Regs == {"sp", "t0", "a0", "s", "x"}

(* Words.  A place on a stack is <<stack, task, n>>, n frames below the    *)
(* top; the user's stack has the same addresses in all tasks.              *)
Zero            == <<"zero", 0, 0>>
Pid(t)          == <<"pid", t, 0>>
Count           == <<"count", 0, 0>>
Junk            == <<"junk", 0, 0>>
Live(r, t)      == <<r, t, 1>>
UserWord(r, v)  == <<r, v, 0>>
KernelSp(t, n)  == <<"kernel_stack", t, n>>
UserSp(n)       == <<"user_stack", 0, n>>
USER_END        == UserSp(0)
Down(a)         == [a EXCEPT ![3] = @ + 1]
Up(a)           == [a EXCEPT ![3] = @ - 1]

(* Code.  User code is at some instruction, or at the one behind it.       *)
Text            == <<"user_code", 0, 0>>
Label(l)        == <<l, 0, 0>>
Behind(pc)      == [pc EXCEPT ![3] = 4]
__dummy         == Label("__dummy")
__ret_from_fork == Label("__ret_from_fork")

(* sstatus with these bits set, SSTATUS_SPP and so on.  SUM lets sys_write *)
(* and copy_vma_mem read user pages, and stays.                            *)
SSTATUS(bits) ==
  [spp |-> IF "SPP" \in bits THEN "S" ELSE "U", spie |-> "SPIE" \in bits, sie |-> "SIE" \in bits]

(* scause: one of the page faults, the timer, or nothing the kernel knows. *)
Exceptions == {"timer", "fault", "ignored"}

(* a7, if it is a call: those the kernel answers, and what else user code  *)
(* has a number for.                                                       *)
KernelCalls == {"getpid", "write", "clone"}
UserCalls   == KernelCalls \cup {"mmap"}

Traps == Exceptions \cup UserCalls

VARIABLES
  cpu,      (* the hart: reg, pc, mode and the CSRs it works with          *)
  stack,    (* stack[a], the frame at place a; C frames are frames, too    *)
  thread,   (* task[t]->thread                                             *)
  live,     (* slots with task[t] # NULL                                   *)
  current

vars == <<cpu, stack, thread, live, current>>

Places == {KernelSp(t, n) : t \in Slots, n \in 0 .. 3} \cup {UserSp(n) : n \in 0 .. DEPTH + 3}
Free   == [free |-> TRUE]

-----------------------------------------------------------------------------
(* The hart and entry.S.                                                   *)

(* A trap, and sret.                                                       *)
Trapped(c) ==
  [c EXCEPT !.sepc = c.pc, !.mode = "S",
            !.sstatus = [spp |-> c.mode, spie |-> c.sstatus.sie, sie |-> FALSE]]

Sret(c) ==
  [c EXCEPT !.pc = c.sepc, !.mode = c.sstatus.spp,
            !.sstatus = [spp |-> "U", spie |-> TRUE, sie |-> c.sstatus.spie]]

(* csrr t0, sscratch; csrw sscratch, sp; mv sp, t0.                        *)
Swapped(c) ==
  [c EXCEPT !.reg["t0"] = c.sscratch, !.reg["sp"] = c.sscratch, !.sscratch = c.reg["sp"]]

(* sscratch is 0 while boot code runs: then the swap is undone.            *)
StackSwitched(c) ==
  IF Swapped(c).reg["sp"] # Zero THEN Swapped(c) ELSE Swapped(Swapped(c))

(* What _traps saves, below the sp it has already lowered.                 *)
Frame(c) ==
  [reg |-> c.reg, sepc |-> c.sepc, sstatus |-> c.sstatus]

(* Before the swap back, with x2 raised again.                             *)
Restored(c, f) ==
  [c EXCEPT !.sepc = f.sepc, !.sstatus = f.sstatus,
            !.reg = [f.reg EXCEPT !["sp"] = Up(@)]]

(* What a called C function does to registers: it pushes a frame, and may  *)
(* use every register but those it must keep, which it saves there.        *)
InC(c, place) ==
  [c EXCEPT !.reg = [sp |-> place, s |-> Live("s", current), t0 |-> Junk,
                     a0 |-> Junk, x |-> Junk]]

(* _traps up to the call, and the call.                                    *)
Trap(cause) ==
  LET low(c) == [c EXCEPT !.reg["sp"] = Down(@)]
      c == low(StackSwitched(Trapped(cpu)))
      f == c.reg["sp"]
  IN  /\ stack' = [stack EXCEPT
                     ![f] = Frame(c),
                     ![Down(f)] = [cause |-> cause, regs |-> f, s |-> c.reg["s"]]]
      /\ cpu' = [InC(c, Down(f)) EXCEPT !.pc = Label("trap_handler")]
      /\ UNCHANGED <<thread, live, current>>

(* From __ret_from_fork to sret.                                           *)
Ret ==
  /\ cpu.pc = __ret_from_fork
  /\ cpu' = Sret(StackSwitched(Restored(cpu, stack[cpu.reg["sp"]])))
  /\ stack' = [stack EXCEPT ![cpu.reg["sp"]] = Free]
  /\ UNCHANGED <<thread, live, current>>

Dummy ==
  /\ cpu.pc = __dummy
  /\ cpu' = Sret([cpu EXCEPT !.reg["t0"] = cpu.reg["sp"], !.reg["sp"] = cpu.sscratch,
                             !.sscratch = cpu.reg["sp"]])
  /\ UNCHANGED <<stack, thread, live, current>>

(* Mutant: the callee-saved registers are not saved.                       *)
SavedWithoutS(c) ==
  [ra |-> Label("switch_to"), sp |-> c.reg["sp"], s |-> thread[current].s,
   sepc |-> c.sepc, sstatus |-> c.sstatus, sscratch |-> c.sscratch]

(* __switch_to saves this, to return into switch_to.                       *)
Saved(c) ==
  [ra |-> Label("switch_to"), sp |-> c.reg["sp"], s |-> c.reg["s"],
   sepc |-> c.sepc, sstatus |-> c.sstatus, sscratch |-> c.sscratch]

(* What it loads.                                                          *)
Loaded(th) ==
  [cpu EXCEPT !.pc = th.ra, !.sepc = th.sepc, !.sstatus = th.sstatus,
              !.sscratch = th.sscratch,
              !.reg = [sp |-> th.sp, s |-> th.s, t0 |-> th.sscratch,
                       a0 |-> Junk, x |-> Junk]]

SwitchTo(t, threads) ==
  LET saved == [threads EXCEPT ![current] = Saved(cpu)]
  IN  /\ current' = t
      /\ thread'  = saved
      /\ cpu'     = Loaded(saved[t])

-----------------------------------------------------------------------------
(* After task_init, inside start_kernel: idle is current, and the timer is *)
(* armed.                                                                  *)

NoThread == [ra |-> Zero, sp |-> Zero, s |-> Zero, sepc |-> Zero, sscratch |-> Zero,
             sstatus |-> SSTATUS({})]

(* Mutant: interrupts are on at once.                                      *)
EnabledStatus == SSTATUS({"SPIE", "SIE", "SUM"})

FirstStatus == SSTATUS({"SPIE", "SUM"})

FirstThread ==
  [ra |-> __dummy, sp |-> KernelSp(First, 0), s |-> Zero, sepc |-> Text,
   sscratch |-> USER_END, sstatus |-> FirstStatus]

Init ==
  /\ cpu = [reg |-> [sp |-> KernelSp(Idle, 0), s |-> Live("s", Idle), t0 |-> Junk,
                     a0 |-> Junk, x |-> Junk],
            pc |-> Label("start_kernel"), mode |-> "S", sepc |-> Zero, sscratch |-> Zero,
            sstatus |-> SSTATUS({"SPP", "SIE"})]
  /\ stack   = [a \in Places |-> Free]
  /\ thread  = [t \in Slots |-> IF t = First THEN FirstThread ELSE NoThread]
  /\ live    = {Idle, First}
  /\ current = Idle

(* The call of schedule() in start_kernel.                                 *)
StartSchedule ==
  /\ cpu.pc = Label("start_kernel")
  /\ SwitchTo(First, thread)
  /\ UNCHANGED <<stack, live>>

-----------------------------------------------------------------------------
(* User code.                                                              *)

(* User code fills its registers, with words that v tells apart, v frames  *)
(* down its stack.                                                         *)
Compute(v) ==
  /\ cpu.mode = "U"
  /\ cpu' = [cpu EXCEPT !.pc = Text,
                        !.reg = [r \in Regs |-> IF r = "sp" THEN UserSp(v) ELSE UserWord(r, v)]]
  /\ UNCHANGED <<stack, thread, live, current>>

(* Behind an answered call user code is not at a call yet.                 *)
UserTrap(cause) ==
  /\ cpu.mode = "U"
  /\ cause \in Exceptions \/ cpu.pc = Text
  /\ Trap(cause)

BootTimer ==
  /\ cpu.pc = Label("start_kernel")
  /\ Trap("timer")

-----------------------------------------------------------------------------
(* trap_handler.                                                           *)

CFrame    == stack[cpu.reg["sp"]]
TrapFrame == stack[CFrame.regs]

Handling(cause) == cpu.pc = Label("trap_handler") /\ CFrame.cause = cause

(* trap_handler returns, having left the trap frame as f.                  *)
HandlerReturns(f) ==
  /\ stack' = [stack EXCEPT ![CFrame.regs] = f, ![cpu.reg["sp"]] = Free]
  /\ cpu' = [cpu EXCEPT !.pc = __ret_from_fork,
                        !.reg["sp"] = Up(@), !.reg["s"] = CFrame.s]
  /\ UNCHANGED <<thread, live, current>>

Answer(v) == [TrapFrame EXCEPT !.reg["a0"] = v, !.sepc = Behind(@)]

(* do_page_fault that finds the area, and do_timer that does not switch.   *)
Fault     == Handling("fault") /\ HandlerReturns(TrapFrame)
TimerStay == Handling("timer") /\ current # Idle /\ HandlerReturns(TrapFrame)

(* do_timer that ends in switch_to, perhaps to the caller.                 *)
TimerSwitch(t) ==
  /\ Handling("timer")
  /\ t \in live \ {Idle}
  /\ SwitchTo(t, thread)
  /\ UNCHANGED <<stack, live>>

(* No branch of trap_handler: sret repeats the instruction.                *)
Ignored == Handling("ignored") /\ HandlerReturns(TrapFrame)

Getpid == Handling("getpid") /\ HandlerReturns(Answer(Pid(current)))

(* A call with a number that is not known is skipped.                      *)
UnknownCall ==
  /\ Handling("mmap")
  /\ HandlerReturns([TrapFrame EXCEPT !.sepc = Behind(@)])

(* sys_write works through the buffer, which may fault ...                 *)
Write ==
  /\ Handling("write")
  /\ cpu' = [cpu EXCEPT !.pc = Label("sys_write"),
                        !.reg = [r \in Regs |-> IF r = "sp" THEN cpu.reg["sp"]
                                                ELSE Live(r, current)]]
  /\ UNCHANGED <<stack, thread, live, current>>

WriteFault ==
  /\ cpu.pc = Label("sys_write")
  /\ Trap("fault")

(* ... and returns how far it got.                                         *)
WriteEnd ==
  /\ cpu.pc = Label("sys_write")
  /\ HandlerReturns(Answer(Count))

-----------------------------------------------------------------------------
(* sys_fork.                                                               *)

FreeSlots    == Slots \ (live \cup {Idle, First})
FirstFree(c) == c \in FreeSlots /\ \A j \in FreeSlots : c <= j

(* The place in the child's task page that is a in the parent's.           *)
InPage(c, a) == [a EXCEPT ![2] = c]

(* Mutant: the child's sp slot is the parent's.                            *)
ChildFrameOfParent(sp) == [TrapFrame EXCEPT !.reg["a0"] = Zero, !.sepc = Behind(@)]

(* child_regs, at sp.                                                      *)
ChildFrame(sp) ==
  [TrapFrame EXCEPT !.reg["a0"] = Zero, !.reg["sp"] = sp, !.sepc = Behind(@)]

(* Mutant: thread.sscratch stays what memcpy put there.                    *)
ChildThreadStale(sp) ==
  [thread[current] EXCEPT !.sp = sp, !.ra = __ret_from_fork]

read_csr(csr) == cpu[csr]

ChildThread(sp) ==
  [thread[current] EXCEPT !.sp = sp, !.ra = __ret_from_fork,
                          !.sscratch = read_csr("sscratch")]

(* memcpy(child_task, current, PGSIZE): the stack that is in the page.     *)
memcpy(c) ==
  [a \in Places |-> IF a[1] = "kernel_stack" /\ a[2] = c THEN stack[InPage(current, a)]
                    ELSE stack[a]]

Fork ==
  /\ Handling("clone")
  /\ \E c \in Slots :
       /\ FirstFree(c)
       /\ LET sp == InPage(c, CFrame.regs)
          IN  /\ stack' = [memcpy(c) EXCEPT ![sp] = ChildFrame(sp)]
              /\ SwitchTo(c, [thread EXCEPT ![c] = ChildThread(sp)])
       /\ live' = live \cup {c}

(* switch_to returns, in the handler that called it.                       *)
Switched ==
  /\ cpu.pc = Label("switch_to")
  /\ \/ CFrame.cause = "timer" /\ HandlerReturns(TrapFrame)
     \/ CFrame.cause = "clone" /\ HandlerReturns(Answer(Pid(current)))

(* The table is full, or the fault is in no area.                          *)
Halt ==
  /\ \/ Handling("clone") /\ FreeSlots = {}
     \/ Handling("fault")
  /\ cpu' = [cpu EXCEPT !.pc = Label("halt")]
  /\ UNCHANGED <<stack, thread, live, current>>

Next ==
  \/ StartSchedule \/ BootTimer
  \/ \E v \in Values : Compute(v)
  \/ \E cause \in Traps : UserTrap(cause)
  \/ Fault \/ TimerStay \/ Ignored \/ Getpid \/ UnknownCall \/ Write \/ WriteFault \/ WriteEnd
  \/ \E t \in Slots : TimerSwitch(t)
  \/ Fork \/ Switched \/ Halt
  \/ Ret \/ Dummy

Spec == Init /\ [][Next]_vars

-----------------------------------------------------------------------------
(* Properties.                                                             *)

Labels == {Label(l) : l \in {"start_kernel", "trap_handler", "switch_to", "sys_write",
                             "__ret_from_fork", "__dummy", "halt"}}

OnUserStack(a) == a[1] = "user_stack"

(* Registers and stack pointers are words of their kinds.                  *)
TypeOK ==
  /\ DOMAIN cpu.reg = Regs /\ cpu.reg["sp"] \in Places
  /\ cpu.mode \in {"U", "S"}
  /\ cpu.pc \in IF cpu.mode = "U" THEN {Text, Behind(Text)} ELSE Labels
  /\ cpu.sscratch \in Places \cup {Zero}
  /\ live \subseteq Slots /\ current \in live
  /\ DOMAIN stack = Places /\ DOMAIN thread = Slots

(* sp and sscratch keep in step through every mix of traps, first runs,    *)
(* switches and forks: user code finds the empty kernel stack of its own   *)
(* task in sscratch, and its handlers run at its top, with the user's sp   *)
(* in sscratch; a fault inside sys_write leaves the place of the           *)
(* interrupted frame there instead.  Suspended tasks keep the same.        *)
Depth(pc) == CASE pc = __dummy         -> 0
               [] pc = __ret_from_fork -> 1
               [] OTHER                         -> 2

StackDiscipline ==
  current # Idle =>
    /\ IF cpu.mode = "U"
       THEN OnUserStack(cpu.reg["sp"]) /\ cpu.sscratch = KernelSp(current, 0)
       ELSE \/ /\ cpu.reg["sp"] = KernelSp(current, Depth(cpu.pc))
               /\ OnUserStack(cpu.sscratch)
            \/ /\ OnUserStack(cpu.reg["sp"])
               /\ cpu.sscratch = KernelSp(current, 2)
    /\ \A t \in live \ {Idle, current} :
         /\ thread[t].sp = KernelSp(t, Depth(thread[t].ra))
         /\ OnUserStack(thread[t].sscratch)

(* After boot, interrupts are on exactly in user code: handlers are not    *)
(* interrupted, and no user program keeps the hart for itself.             *)
InterruptsInUserCode ==
  current # Idle => (cpu.sstatus.sie <=> cpu.mode = "U")

(* C code finds its registers as it left them, those that a called         *)
(* function must keep after switch_to, all but t0 after a page fault.      *)
KernelRegisters ==
  /\ cpu.pc \in {Label("switch_to"), Label("sys_write")} =>
       cpu.reg["s"] = Live("s", current)
  /\ cpu.pc = Label("sys_write") =>
       cpu.reg["x"] = Live("x", current) /\ cpu.reg["a0"] = Live("a0", current)

(* "restore sepc and 32 registers" (entry.S:91): the registers Compute set *)
(* together, and no call answers in, are as it set them.                   *)
RegistersRestored ==
  cpu.mode = "U" =>
    \A v \in Values : cpu.reg["x"] = UserWord("x", v) => cpu.reg["t0"] = UserWord("t0", v)

(* "if this is a kernel exp, swap them back" (entry.S:32): a trap out of   *)
(* kernel code puts its frame on the kernel stack.                         *)
KernelTrapsOnKernelStack ==
  cpu.pc = Label("trap_handler") /\ TrapFrame.sstatus.spp = "S" =>
    ~ OnUserStack(CFrame.regs)

-----------------------------------------------------------------------------
(* Refinement.                                                             *)

(* What the code keeps for user code: every register but t0.               *)
Kept  == Regs \ {"t0"}
Words == Places \cup {Zero, Count, Junk} \cup {Pid(t) : t \in Slots}
         \cup {UserWord(r, v) : r \in Kept, v \in Values}

Begun == IF current = Idle \/ cpu.pc = __dummy THEN {} ELSE live \ {Idle}

InUser(t) == t = current /\ cpu.mode = "U"

(* Of a task in the kernel: its trap frame, and where its sp is.           *)
UserFrame(t) == stack[KernelSp(t, 1)]

UserSpOf(t) ==
  IF t # current THEN thread[t].sscratch
  ELSE IF ~ OnUserStack(cpu.reg["sp"]) THEN cpu.sscratch
  ELSE IF cpu.pc = __ret_from_fork THEN Up(cpu.reg["sp"])
  ELSE Up(Up(cpu.reg["sp"]))

Registers(t) ==
  [r \in Kept |-> IF t \notin Begun THEN Zero
                  ELSE IF InUser(t) THEN cpu.reg[r]
                  ELSE IF r = "sp" THEN UserSpOf(t) ELSE UserFrame(t).reg[r]]

InstructionOf(t) ==
  IF t \in Begun /\ (IF InUser(t) THEN cpu.pc ELSE UserFrame(t).sepc) = Behind(Text)
  THEN "behind" ELSE "here"

Abstract == INSTANCE ProcRegs WITH
  Tasks     <- Slots,
  Nobody    <- Idle,
  RegFiles  <- [Kept -> Words],
  procs     <- Begun,
  user      <- IF cpu.mode = "U" THEN current ELSE Idle,
  regs      <- [t \in Slots |-> Registers(t)],
  ip        <- [t \in Slots |-> InstructionOf(t)]

(* Traps, switches and forks implement private registers: user code goes   *)
(* on with what it had, however many tasks and forks ran in between, and a *)
(* child starts with the parent's registers, behind the call.              *)
ImplementsProcRegs == Abstract!RegSpec

=============================================================================
