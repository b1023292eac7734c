---------------------------- MODULE ContextProofs ----------------------------
(***************************************************************************)
(* Proofs about Context for every number of tasks and every depth of the   *)
(* user's stack.  The invariants of Context say where sp and sscratch are; *)
(* they hold because of what the stacks hold: every task in the kernel has *)
(* its trap frame in place 1 of its kernel stack and the frame of the      *)
(* handler in place 2, and a fault inside sys_write two more on the user's *)
(* stack.  IInv says so for the running task, by the phase the hart is in, *)
(* and for every suspended one.                                            *)
(***************************************************************************)
EXTENDS Context, TLAPS

USE SizesAssumption

-----------------------------------------------------------------------------
(* Types of what the hart and the stacks hold.                             *)

Kinds    == Regs \cup {"zero", "pid", "count", "junk", "kernel_stack", "user_stack", "user_code",
                      "start_kernel", "trap_handler", "switch_to", "sys_write",
                      "__ret_from_fork", "__dummy", "halt"}
Word     == Kinds \X Int \X Int
Status   == [spp : {"U", "S"}, spie : BOOLEAN, sie : BOOLEAN]
RegFile  == [Regs -> Word]
Cpus     == [reg : RegFile, pc : Word, mode : {"U", "S"}, sepc : Word, sscratch : Word,
             sstatus : Status]
Threads  == [ra : Word, sp : Word, s : Word, sepc : Word, sscratch : Word, sstatus : Status]
TrapFrames == [reg : RegFile, sepc : Word, sstatus : Status]
CFrames  == [cause : Traps, regs : Word, s : Word]

UserSps      == {UserSp(v) : v \in Values}
UserPcs      == {Text, Behind(Text)}
UserStatus   == [spp |-> "U", spie |-> TRUE, sie |-> TRUE]
KernelStatus == [spp |-> "U", spie |-> TRUE, sie |-> FALSE]
NestedStatus == [spp |-> "S", spie |-> FALSE, sie |-> FALSE]

UserLabels == {Label("trap_handler"), Label("sys_write"), Label("switch_to"), Label("halt")}

UserWords(f) == \A r \in Kept \ {"sp"} : f[r] \in Words

(* The trap frame of user code, which a task leaves the kernel by ...      *)
UserFrameOK(t) ==
  LET f == stack[KernelSp(t, 1)]
  IN  /\ f \in TrapFrames
      /\ f.reg["sp"] = KernelSp(t, 1) /\ UserWords(f.reg)
      /\ f.sepc \in UserPcs
      /\ f.sstatus = KernelStatus

(* ... and the frame of the handler that works on it: a call has not been  *)
(* answered yet.                                                           *)
HandlerFrameOK(t) ==
  LET f == stack[KernelSp(t, 2)]
  IN  /\ f \in CFrames
      /\ f.regs = KernelSp(t, 1)
      /\ f.cause \in UserCalls => stack[KernelSp(t, 1)].sepc = Text
      /\ UserFrameOK(t)

(* The frame of a fault inside sys_write, n frames down the user's stack.  *)
NestedFrameOK(n) ==
  LET f == stack[UserSp(n + 1)]
  IN  /\ f \in TrapFrames
      /\ f.reg["sp"] = UserSp(n + 1)
      /\ \A r \in {"s", "x", "a0"} : f.reg[r] = Live(r, current)
      /\ f.sepc = Label("sys_write")
      /\ f.sstatus = NestedStatus

-----------------------------------------------------------------------------
(* The phases of the hart.                                                 *)

InBoot ==
  /\ current = Idle /\ live = {Idle, First}
  /\ thread[First] = FirstThread
  /\ cpu.mode = "S" /\ cpu.sscratch = Zero
  /\ \/ cpu.pc = Label("start_kernel") /\ cpu.reg["sp"] = KernelSp(Idle, 0)
        /\ cpu.reg["s"] = Live("s", Idle)
     \/ cpu.pc = Label("trap_handler") /\ cpu.reg["sp"] = KernelSp(Idle, 2)
        /\ stack[KernelSp(Idle, 2)] \in CFrames
        /\ stack[KernelSp(Idle, 2)].cause = "timer"

InDummy ==
  /\ current = First /\ live = {Idle, First}
  /\ cpu.mode = "S" /\ cpu.pc = __dummy
  /\ cpu.reg["sp"] = KernelSp(First, 0) /\ UserWords(cpu.reg)
  /\ cpu.sepc = Text /\ cpu.sscratch = USER_END /\ cpu.sstatus = KernelStatus

InUserCode ==
  /\ current # Idle
  /\ cpu.mode = "U" /\ cpu.pc \in UserPcs
  /\ cpu.reg["sp"] \in UserSps /\ UserWords(cpu.reg)
  /\ cpu.sscratch = KernelSp(current, 0) /\ cpu.sstatus = UserStatus

(* A handler on the kernel stack, halted or not.                           *)
InHandler ==
  /\ current # Idle
  /\ cpu.mode = "S" /\ cpu.pc \in UserLabels
  /\ cpu.reg["sp"] = KernelSp(current, 2) /\ cpu.reg["s"] = Live("s", current)
  /\ cpu.sscratch \in UserSps /\ cpu.sstatus = KernelStatus
  /\ HandlerFrameOK(current)
  /\ cpu.pc = Label("switch_to") => CFrame.cause \in {"timer", "clone"}
  /\ cpu.pc = Label("sys_write") =>
       /\ CFrame.cause = "write"
       /\ cpu.reg["x"] = Live("x", current) /\ cpu.reg["a0"] = Live("a0", current)

InReturn ==
  /\ current # Idle
  /\ cpu.mode = "S" /\ cpu.pc = __ret_from_fork
  /\ cpu.reg["sp"] = KernelSp(current, 1)
  /\ cpu.sscratch \in UserSps /\ cpu.sstatus = KernelStatus
  /\ UserFrameOK(current)

(* The handler of a fault inside sys_write, and its return.                *)
InNested ==
  /\ current # Idle
  /\ cpu.mode = "S" /\ cpu.sscratch = KernelSp(current, 2) /\ cpu.sstatus = NestedStatus
  /\ HandlerFrameOK(current) /\ stack[KernelSp(current, 2)].cause = "write"
  /\ \E n \in Values :
       /\ NestedFrameOK(n)
       /\ \/ /\ cpu.pc \in {Label("trap_handler"), Label("halt")}
             /\ cpu.reg["sp"] = UserSp(n + 2)
             /\ stack[UserSp(n + 2)] =
                  [cause |-> "fault", regs |-> UserSp(n + 1), s |-> Live("s", current)]
          \/ cpu.pc = __ret_from_fork /\ cpu.reg["sp"] = UserSp(n + 1)

Phase == InBoot \/ InDummy \/ InUserCode \/ InHandler \/ InReturn \/ InNested

(* A task that is not running goes on in switch_to, or starts as a child.  *)
Suspended(t) ==
  /\ thread[t].sscratch \in UserSps
  /\ \/ /\ thread[t].ra = Label("switch_to") /\ thread[t].sp = KernelSp(t, 2)
        /\ thread[t].s = Live("s", t)
        /\ HandlerFrameOK(t) /\ stack[KernelSp(t, 2)].cause \in {"timer", "clone"}
     \/ /\ thread[t].ra = __ret_from_fork /\ thread[t].sp = KernelSp(t, 1)
        /\ UserFrameOK(t)

Types ==
  /\ cpu \in Cpus
  /\ thread \in [Slots -> Threads]
  /\ DOMAIN stack = Places /\ stack = [a \in Places |-> stack[a]]
  /\ {Idle, First} \subseteq live /\ live \subseteq Slots /\ current \in live

IInv ==
  /\ Types
  /\ Phase
  /\ \A t \in live \ {Idle} : thread[t].sstatus = KernelStatus
  /\ current # Idle => \A t \in live \ {Idle, current} : Suspended(t)

-----------------------------------------------------------------------------
(* Words.                                                                  *)

LEMMA KernelSpFacts ==
  ASSUME NEW t \in Slots, NEW n \in Int
  PROVE  /\ KernelSp(t, n) \in Word /\ KernelSp(t, n) # Zero
         /\ n \in 0 .. 3 => KernelSp(t, n) \in Places
         /\ ~ OnUserStack(KernelSp(t, n))
         /\ Down(KernelSp(t, n)) = KernelSp(t, n + 1)
         /\ Up(KernelSp(t, n)) = KernelSp(t, n - 1)
         /\ \A c : InPage(c, KernelSp(t, n)) = KernelSp(c, n)
         /\ \A u, m : KernelSp(u, m) = KernelSp(t, n) => u = t /\ m = n
         /\ \A m : KernelSp(t, n) # UserSp(m)
BY DEF KernelSp, UserSp, Word, Kinds, Zero, Places, OnUserStack, Down, Up, InPage, Slots

(* The frames of another task are elsewhere.                               *)
LEMMA OtherPlaces ==
  ASSUME NEW t \in Slots, NEW u \in Slots, t # u, NEW n \in {1, 2}
  PROVE  /\ KernelSp(t, n) \in Places
         /\ \A m : KernelSp(t, n) # KernelSp(u, m)
         /\ \A m : KernelSp(t, n) # UserSp(m)
BY KernelSpFacts

LEMMA UserSpFacts ==
  ASSUME NEW n \in Int
  PROVE  /\ UserSp(n) \in Word /\ UserSp(n) # Zero
         /\ n \in 0 .. DEPTH + 3 => UserSp(n) \in Places
         /\ OnUserStack(UserSp(n))
         /\ Down(UserSp(n)) = UserSp(n + 1)
         /\ Up(UserSp(n)) = UserSp(n - 1)
         /\ \A m : UserSp(m) = UserSp(n) => m = n
         /\ \A t, m : KernelSp(t, m) # UserSp(n)
BY DEF KernelSp, UserSp, Word, Kinds, Zero, Places, OnUserStack, Down, Up, Slots

LEMMA LabelFacts ==
  /\ Labels \subseteq Word /\ UserPcs \subseteq Word /\ Text # Behind(Text)
  /\ Behind(Behind(Text)) = Behind(Text)
  /\ \A l, m : Label(l) = Label(m) => l = m
  /\ \A l : Label(l) # Behind(Text) /\ (l # "user_code" => Label(l) # Text)
<1>1. Behind(Text) = <<"user_code", 0, 4>> /\ Behind(Behind(Text)) = <<"user_code", 0, 4>>
  BY DEF Behind, Text
<1>2. Labels \subseteq Word
  BY DEF Label, Labels, Word, Kinds, __dummy, __ret_from_fork
<1>3. UserPcs \subseteq Word /\ Text # Behind(Text)
  BY <1>1 DEF UserPcs, Text, Word, Kinds
<1>4. \A l, m : Label(l) = Label(m) => l = m
  BY DEF Label
<1>5. \A l : Label(l) # Behind(Text) /\ (l # "user_code" => Label(l) # Text)
  BY <1>1 DEF Label, Text
<1> QED
  BY <1>1, <1>2, <1>3, <1>4, <1>5

LEMMA WordFacts ==
  /\ {Zero, Junk, Count} \subseteq Word
  /\ \A t \in Slots : Pid(t) \in Word /\ \A r \in Regs : Live(r, t) \in Word
  /\ \A r \in Regs : \A v \in Values : UserWord(r, v) \in Word
BY DEF Zero, Junk, Count, Pid, Live, UserWord, Word, Kinds, Slots, Values

-----------------------------------------------------------------------------
(* The pieces of entry.S, on any hart.                                     *)

(* Registers written one by one.                                           *)
RegRecord(sp, s, t0, a0, x) == [sp |-> sp, s |-> s, t0 |-> t0, a0 |-> a0, x |-> x]

(* Where a trap's frames go.                                               *)
TrapSp == IF cpu.sscratch # Zero THEN cpu.sscratch ELSE cpu.reg["sp"]

LEMMA StackSwitchedFacts ==
  ASSUME NEW c \in Cpus
  PROVE  LET d == StackSwitched(c) IN
         /\ d \in Cpus
         /\ d.pc = c.pc /\ d.mode = c.mode /\ d.sepc = c.sepc /\ d.sstatus = c.sstatus
         /\ \A r \in Regs \ {"sp", "t0"} : d.reg[r] = c.reg[r]
         /\ c.sscratch # Zero => d.reg["sp"] = c.sscratch /\ d.sscratch = c.reg["sp"]
         /\ c.sscratch = Zero => d.reg["sp"] = c.reg["sp"] /\ d.sscratch = Zero
<1>1. ASSUME NEW e \in Cpus
      PROVE  /\ Swapped(e) \in Cpus
             /\ Swapped(e).pc = e.pc /\ Swapped(e).mode = e.mode /\ Swapped(e).sepc = e.sepc
             /\ Swapped(e).sstatus = e.sstatus /\ Swapped(e).sscratch = e.reg["sp"]
             /\ Swapped(e).reg["sp"] = e.sscratch
             /\ \A r \in Regs \ {"sp", "t0"} : Swapped(e).reg[r] = e.reg[r]
  BY DEF Swapped, Cpus, RegFile, Regs
<1>2. CASE c.sscratch # Zero
  BY <1>1, <1>2 DEF StackSwitched
<1>3. CASE c.sscratch = Zero
  <2> DEFINE e == Swapped(c)
  <2>1. e \in Cpus /\ StackSwitched(c) = Swapped(e)
    BY <1>1, <1>3 DEF StackSwitched
  <2> QED
    BY <1>1, <1>3, <2>1
<1> QED
  BY <1>2, <1>3

(* What a trap leaves: its two frames, and the hart in trap_handler.        *)
Pushed(cause, frame, top) ==
  /\ cpu' \in Cpus
  /\ cpu'.pc = Label("trap_handler") /\ cpu'.mode = "S"
  /\ cpu'.reg["sp"] = top /\ cpu'.reg["s"] = Live("s", current)
  /\ cpu'.sscratch = IF cpu.sscratch = Zero THEN Zero ELSE cpu.reg["sp"]
  /\ cpu'.sstatus = [spp |-> cpu.mode, spie |-> cpu.sstatus.sie, sie |-> FALSE]
  /\ stack' = [a \in Places |-> stack'[a]]
  /\ \A a \in Places \ {frame, top} : stack'[a] = stack[a]
  /\ stack'[top] \in CFrames
  /\ stack'[top] = [cause |-> cause, regs |-> frame, s |-> cpu.reg["s"]]
  /\ stack'[frame] \in TrapFrames
  /\ stack'[frame].reg["sp"] = frame
  /\ \A r \in Regs \ {"sp", "t0"} : stack'[frame].reg[r] = cpu.reg[r]
  /\ stack'[frame].sepc = cpu.pc
  /\ stack'[frame].sstatus = cpu'.sstatus

LEMMA TrapFacts ==
  ASSUME cpu \in Cpus, stack = [a \in Places |-> stack[a]], current \in Slots,
         NEW cause \in Traps, Trap(cause),
         NEW frame \in Word \cap Places, NEW top \in Word \cap Places,
         frame = Down(TrapSp), top = Down(frame), frame # top
  PROVE  Pushed(cause, frame, top)
<1> DEFINE a == Trapped(cpu)
           b == StackSwitched(a)
           c == [b EXCEPT !.reg["sp"] = Down(@)]
           st == [spp |-> cpu.mode, spie |-> cpu.sstatus.sie, sie |-> FALSE]
<1>1. /\ a \in Cpus /\ a.reg = cpu.reg /\ a.pc = cpu.pc /\ a.mode = "S" /\ a.sepc = cpu.pc
      /\ a.sscratch = cpu.sscratch /\ a.sstatus = st
  BY DEF Trapped, Cpus, Status
<1>2. /\ b \in Cpus /\ b.reg["sp"] = TrapSp
      /\ b.pc = cpu.pc /\ b.mode = "S" /\ b.sepc = cpu.pc /\ b.sstatus = st
      /\ \A r \in Regs \ {"sp", "t0"} : b.reg[r] = cpu.reg[r]
      /\ b.sscratch = IF cpu.sscratch = Zero THEN Zero ELSE cpu.reg["sp"]
  BY <1>1, StackSwitchedFacts DEF TrapSp
<1>3. /\ c \in Cpus /\ c.reg["sp"] = frame
      /\ c.pc = cpu.pc /\ c.mode = "S" /\ c.sepc = cpu.pc /\ c.sstatus = st
      /\ \A r \in Regs \ {"sp", "t0"} : c.reg[r] = cpu.reg[r]
      /\ c.sscratch = b.sscratch
  BY <1>2 DEF Cpus, RegFile, Regs
<1>4. /\ stack' = [stack EXCEPT ![frame] = Frame(c),
                               ![top] = [cause |-> cause, regs |-> frame, s |-> c.reg["s"]]]
      /\ cpu' = [InC(c, top) EXCEPT !.pc = Label("trap_handler")]
  BY <1>3 DEF Trap
<1>5. /\ cpu' \in Cpus
      /\ cpu'.pc = Label("trap_handler") /\ cpu'.mode = "S"
      /\ cpu'.reg["sp"] = top /\ cpu'.reg["s"] = Live("s", current)
      /\ cpu'.sscratch = c.sscratch /\ cpu'.sstatus = st
  <2> DEFINE regs == RegRecord(top, Live("s", current), Junk, Junk, Junk)
  <2>1. InC(c, top) = [c EXCEPT !.reg = regs]
    BY DEF InC, RegRecord
  <2>2. Live("s", current) \in Word /\ Junk \in Word /\ Label("trap_handler") \in Word
    BY WordFacts, LabelFacts DEF Regs, Labels
  <2>3. regs \in RegFile /\ regs["sp"] = top /\ regs["s"] = Live("s", current)
    BY <2>2 DEF RegRecord, RegFile, Regs
  <2> QED
    BY <1>3, <1>4, <2>1, <2>2, <2>3 DEF Cpus
<1>6. /\ Frame(c) \in TrapFrames
      /\ Frame(c).reg = c.reg /\ Frame(c).sepc = c.sepc /\ Frame(c).sstatus = c.sstatus
  BY <1>3 DEF Frame, TrapFrames, Cpus
<1>7. [cause |-> cause, regs |-> frame, s |-> c.reg["s"]] \in CFrames
  BY <1>3 DEF CFrames, Cpus, RegFile, Regs
<1>8. /\ stack' = [p \in Places |-> stack'[p]]
      /\ stack'[frame] = Frame(c)
      /\ stack'[top] = [cause |-> cause, regs |-> frame, s |-> c.reg["s"]]
      /\ \A p \in Places \ {frame, top} : stack'[p] = stack[p]
  BY <1>4
<1> QED
  <2>1. c.reg["s"] = cpu.reg["s"]
    BY <1>3 DEF Regs
  <2> HIDE DEF c
  <2> QED
    BY <1>2, <1>3, <1>5, <1>6, <1>7, <1>8, <2>1 DEF Pushed

LEMMA SretFacts ==
  ASSUME NEW c \in Cpus
  PROVE  /\ Sret(c) \in Cpus
         /\ Sret(c).reg = c.reg /\ Sret(c).sscratch = c.sscratch
         /\ Sret(c).pc = c.sepc /\ Sret(c).mode = c.sstatus.spp
         /\ Sret(c).sstatus = [spp |-> "U", spie |-> TRUE, sie |-> c.sstatus.spie]
BY DEF Sret, Cpus, Status

(* __ret_from_fork, with f in the frame under sp.                          *)
LEMMA RetFacts ==
  ASSUME cpu \in Cpus, Ret, NEW f \in TrapFrames, stack[cpu.reg["sp"]] = f,
         cpu.sscratch # Zero, Up(f.reg["sp"]) \in Word
  PROVE  /\ cpu' \in Cpus
         /\ cpu'.pc = f.sepc /\ cpu'.mode = f.sstatus.spp
         /\ cpu'.sstatus = [spp |-> "U", spie |-> TRUE, sie |-> f.sstatus.spie]
         /\ cpu'.reg["sp"] = cpu.sscratch /\ cpu'.sscratch = Up(f.reg["sp"])
         /\ \A r \in Regs \ {"sp", "t0"} : cpu'.reg[r] = f.reg[r]
<1> DEFINE a == Restored(cpu, f)
           b == StackSwitched(a)
<1>1. /\ a \in Cpus /\ a.sepc = f.sepc /\ a.sstatus = f.sstatus /\ a.sscratch = cpu.sscratch
      /\ a.reg["sp"] = Up(f.reg["sp"])
      /\ \A r \in Regs \ {"sp", "t0"} : a.reg[r] = f.reg[r]
  BY DEF Restored, Cpus, TrapFrames, RegFile, Regs
<1>2. /\ b \in Cpus /\ b.sepc = f.sepc /\ b.sstatus = f.sstatus
      /\ b.reg["sp"] = cpu.sscratch /\ b.sscratch = Up(f.reg["sp"])
      /\ \A r \in Regs \ {"sp", "t0"} : b.reg[r] = f.reg[r]
  BY <1>1, StackSwitchedFacts
<1>3. cpu' = Sret(b)
  BY DEF Ret
<1> QED
  BY <1>2, <1>3, SretFacts

LEMMA HandlerReturnsFacts ==
  ASSUME cpu \in Cpus, NEW f, HandlerReturns(f), CFrame \in CFrames,
         stack = [a \in Places |-> stack[a]],
         CFrame.regs \in Places, cpu.reg["sp"] \in Places, CFrame.regs # cpu.reg["sp"],
         Up(cpu.reg["sp"]) \in Word
  PROVE  /\ cpu' \in Cpus
         /\ cpu'.pc = __ret_from_fork /\ cpu'.mode = cpu.mode
         /\ cpu'.sscratch = cpu.sscratch /\ cpu'.sstatus = cpu.sstatus
         /\ cpu'.reg["sp"] = Up(cpu.reg["sp"])
         /\ stack' = [a \in Places |-> stack'[a]]
         /\ stack'[CFrame.regs] = f
         /\ \A a \in Places \ {CFrame.regs, cpu.reg["sp"]} : stack'[a] = stack[a]
<1>1. __ret_from_fork \in Word
  BY LabelFacts DEF Labels, __ret_from_fork
<1>2. /\ cpu' = [cpu EXCEPT !.pc = __ret_from_fork,
                            !.reg["sp"] = Up(cpu.reg["sp"]), !.reg["s"] = CFrame.s]
      /\ stack' = [stack EXCEPT ![CFrame.regs] = f, ![cpu.reg["sp"]] = Free]
  BY DEF HandlerReturns
<1> QED
  BY <1>1, <1>2 DEF CFrames, Cpus, RegFile, Regs

LEMMA LoadedFacts ==
  ASSUME cpu \in Cpus, NEW th \in Threads
  PROVE  LET c == Loaded(th) IN
         /\ c \in Cpus
         /\ c.pc = th.ra /\ c.mode = cpu.mode /\ c.sepc = th.sepc
         /\ c.sscratch = th.sscratch /\ c.sstatus = th.sstatus
         /\ c.reg["sp"] = th.sp /\ c.reg["s"] = th.s
         /\ c.reg["a0"] = Junk /\ c.reg["x"] = Junk
<1> DEFINE regs == RegRecord(th.sp, th.s, th.sscratch, Junk, Junk)
<1>1. th.sp \in Word /\ th.s \in Word /\ th.sscratch \in Word /\ Junk \in Word
  BY WordFacts DEF Threads
<1>2. /\ regs \in RegFile /\ regs["sp"] = th.sp /\ regs["s"] = th.s
      /\ regs["a0"] = Junk /\ regs["x"] = Junk
  BY <1>1 DEF RegRecord, RegFile, Regs
<1>3. Loaded(th) = [cpu EXCEPT !.pc = th.ra, !.sepc = th.sepc, !.sstatus = th.sstatus,
                               !.sscratch = th.sscratch, !.reg = regs]
  BY DEF Loaded, RegRecord
<1> QED
  BY <1>2, <1>3 DEF Threads, Cpus

(* __switch_to, which loads what is in threads, the task that leaves aside.*)
LEMMA SwitchFacts ==
  ASSUME cpu \in Cpus, current \in Slots, NEW t \in Slots,
         NEW threads \in [Slots -> Threads], SwitchTo(t, threads)
  PROVE  /\ current' = t
         /\ thread' \in [Slots -> Threads]
         /\ thread'[current] = Saved(cpu)
         /\ \A u \in Slots \ {current} : thread'[u] = threads[u]
         /\ cpu' \in Cpus
         /\ LET th == thread'[t]
            IN  /\ cpu'.pc = th.ra /\ cpu'.mode = cpu.mode /\ cpu'.sepc = th.sepc
                /\ cpu'.sscratch = th.sscratch /\ cpu'.sstatus = th.sstatus
                /\ cpu'.reg["sp"] = th.sp /\ cpu'.reg["s"] = th.s
                /\ cpu'.reg["a0"] = Junk /\ cpu'.reg["x"] = Junk
<1>1. Saved(cpu) \in Threads
  BY LabelFacts DEF Saved, Threads, Cpus, RegFile, Regs, Labels
<1>2. /\ current' = t /\ thread' = [threads EXCEPT ![current] = Saved(cpu)]
      /\ cpu' = Loaded(thread'[t])
  BY DEF SwitchTo
<1>3. /\ thread' \in [Slots -> Threads] /\ thread'[current] = Saved(cpu)
      /\ \A u \in Slots \ {current} : thread'[u] = threads[u]
  BY <1>1, <1>2
<1> QED
  BY <1>2, <1>3, LoadedFacts

-----------------------------------------------------------------------------
(* The invariant holds at the start, and what it says in each place.       *)

LEMMA SlotFacts == Idle \in Slots /\ First \in Slots /\ Idle # First /\ 0 \in Values
BY DEF Slots, Idle, First, Values

LEMMA StatusFacts ==
  /\ FirstStatus = KernelStatus
  /\ {KernelStatus, UserStatus, NestedStatus} \subseteq Status
  /\ \A bits : SSTATUS(bits) \in Status
<1>1. ("SPP" \in {"SPIE", "SUM"}) = FALSE /\ ("SIE" \in {"SPIE", "SUM"}) = FALSE
  OBVIOUS
<1>2. ("SPIE" \in {"SPIE", "SUM"}) = TRUE
  OBVIOUS
<1>3. FirstStatus = KernelStatus
  BY <1>1, <1>2 DEF FirstStatus, SSTATUS, KernelStatus
<1>4. \A bits : SSTATUS(bits) \in Status
  BY DEF SSTATUS, Status
<1> QED
  BY <1>3, <1>4 DEF KernelStatus, UserStatus, NestedStatus, Status

LEMMA UserSpsFacts ==
  /\ USER_END \in UserSps
  /\ \A a \in UserSps : /\ a \in Word /\ a \in Places /\ a # Zero /\ OnUserStack(a)
                        /\ a \in Words
                        /\ \A t \in Slots : \A n \in Int : a # KernelSp(t, n)
<1>1. USER_END \in UserSps
  BY SlotFacts DEF USER_END, UserSps
<1>2. ASSUME NEW v \in Values
      PROVE  /\ UserSp(v) \in Word /\ UserSp(v) \in Places /\ UserSp(v) # Zero
             /\ OnUserStack(UserSp(v))
             /\ \A t \in Slots : \A n \in Int : UserSp(v) # KernelSp(t, n)
  <2>1. v \in Int /\ v \in 0 .. DEPTH + 3
    BY DEF Values
  <2> QED
    BY <2>1, UserSpFacts
<1> QED
  BY <1>1, <1>2 DEF UserSps, Words

LEMMA Where ==
  ASSUME Phase
  PROVE  /\ cpu.mode = "U" => InUserCode
         /\ cpu.pc = Label("start_kernel") => InBoot
         /\ cpu.pc = Label("trap_handler") => InBoot \/ InHandler \/ InNested
         /\ cpu.pc \in {Label("switch_to"), Label("sys_write")} => InHandler
         /\ cpu.pc = __ret_from_fork => InReturn \/ InNested
         /\ cpu.pc = __dummy => InDummy
<1>1. \A p \in UserPcs : \A l \in Labels : p # l
  BY LabelFacts DEF UserPcs, Labels, __dummy, __ret_from_fork
<1>2. \A l, m : l # m => Label(l) # Label(m)
  BY LabelFacts
<1> QED
  BY <1>1, <1>2 DEF Phase, InBoot, InDummy, InUserCode, InHandler, InReturn, InNested,
                    Labels, UserLabels, __dummy, __ret_from_fork

LEMMA InitIInv == Init => IInv
<1> SUFFICES ASSUME Init PROVE IInv
  OBVIOUS
<1>1. /\ FirstThread \in Threads /\ NoThread \in Threads
  <2>1. KernelSp(First, 0) \in Word /\ USER_END \in Word
    BY KernelSpFacts, SlotFacts, UserSpsFacts
  <2>2. Zero \in Word /\ Text \in Word /\ __dummy \in Word
    BY WordFacts, LabelFacts DEF UserPcs, Labels, __dummy
  <2>3. FirstStatus \in Status /\ SSTATUS({}) \in Status
    BY StatusFacts DEF FirstThread
  <2> QED
    BY <2>1, <2>2, <2>3 DEF FirstThread, NoThread, Threads
<1>2. cpu \in Cpus
  <2> DEFINE regs == RegRecord(KernelSp(Idle, 0), Live("s", Idle), Junk, Junk, Junk)
  <2>1. /\ KernelSp(Idle, 0) \in Word /\ Live("s", Idle) \in Word /\ Junk \in Word
        /\ Zero \in Word /\ Label("start_kernel") \in Word
    BY KernelSpFacts, SlotFacts, WordFacts, LabelFacts DEF Regs, Labels
  <2>2. regs \in RegFile /\ regs["sp"] = KernelSp(Idle, 0) /\ regs["s"] = Live("s", Idle)
    BY <2>1 DEF RegRecord, RegFile, Regs
  <2>3. SSTATUS({"SPP", "SIE"}) \in Status
    BY StatusFacts
  <2>4. cpu = [reg |-> regs, pc |-> Label("start_kernel"), mode |-> "S", sepc |-> Zero,
               sscratch |-> Zero, sstatus |-> SSTATUS({"SPP", "SIE"})]
    BY DEF Init, RegRecord
  <2> HIDE DEF regs
  <2> QED
    BY <2>1, <2>2, <2>3, <2>4 DEF Cpus
<1>3. cpu.reg["sp"] = KernelSp(Idle, 0) /\ cpu.reg["s"] = Live("s", Idle)
  BY DEF Init
<1>4. Types
  BY <1>1, <1>2, SlotFacts DEF Types, Init
<1>5. InBoot
  BY <1>3, SlotFacts DEF Init, InBoot
<1>6. thread[First] = FirstThread /\ FirstThread.sstatus = KernelStatus
  BY StatusFacts, SlotFacts DEF Init, FirstThread
<1> QED
  BY <1>4, <1>5, <1>6 DEF IInv, Phase, Init

LEMMA StillSuspended ==
  ASSUME NEW t, Suspended(t), thread'[t] = thread[t],
         \A n \in {1, 2} : stack'[KernelSp(t, n)] = stack[KernelSp(t, n)]
  PROVE  Suspended(t)'
BY DEF Suspended, HandlerFrameOK, UserFrameOK

(* A step of the running task that leaves the others' frames alone.        *)
LEMMA SameTask ==
  ASSUME IInv, current # Idle, UNCHANGED <<thread, live, current>>,
         cpu' \in Cpus, stack' = [a \in Places |-> stack'[a]],
         \A t \in Slots \ {current} : \A n \in {1, 2} :
           stack'[KernelSp(t, n)] = stack[KernelSp(t, n)],
         Phase'
  PROVE  IInv'
<1>1. Types'
  BY DEF IInv, Types
<1>2. ASSUME NEW t \in live \ {Idle, current} PROVE Suspended(t)'
  BY <1>2, StillSuspended DEF IInv, Types
<1> QED
  BY <1>1, <1>2 DEF IInv

-----------------------------------------------------------------------------
(* Boot, user code and the way into the kernel.                            *)

(* The first task runs, for schedule() in start_kernel or for a timer      *)
(* before that.                                                            *)
LEMMA FirstRuns ==
  ASSUME IInv, InBoot, SwitchTo(First, thread), UNCHANGED <<stack, live>>
  PROVE  IInv'
<1>1. InBoot
  OBVIOUS
<1>2. /\ current' = First /\ thread' \in [Slots -> Threads]
      /\ thread'[First] = FirstThread
      /\ cpu' \in Cpus /\ cpu'.pc = __dummy /\ cpu'.mode = "S" /\ cpu'.sepc = Text
      /\ cpu'.sscratch = USER_END /\ cpu'.sstatus = KernelStatus
      /\ cpu'.reg["sp"] = KernelSp(First, 0) /\ cpu'.reg["s"] = Zero
      /\ cpu'.reg["a0"] = Junk /\ cpu'.reg["x"] = Junk
  <2>1. /\ cpu \in Cpus /\ current \in Slots /\ First \in Slots \ {current}
        /\ thread \in [Slots -> Threads] /\ SwitchTo(First, thread)
    BY <1>1, SlotFacts DEF IInv, Types, InBoot
  <2>2. /\ current' = First /\ thread' \in [Slots -> Threads]
        /\ thread'[First] = thread[First] /\ cpu' \in Cpus
        /\ LET th == thread'[First]
           IN  /\ cpu'.pc = th.ra /\ cpu'.mode = cpu.mode /\ cpu'.sepc = th.sepc
               /\ cpu'.sscratch = th.sscratch /\ cpu'.sstatus = th.sstatus
               /\ cpu'.reg["sp"] = th.sp /\ cpu'.reg["s"] = th.s
               /\ cpu'.reg["a0"] = Junk /\ cpu'.reg["x"] = Junk
    BY <2>1, SwitchFacts
  <2> QED
    BY <1>1, <2>2, StatusFacts DEF InBoot, FirstThread
<1>3. InDummy'
  BY <1>1, <1>2 DEF InDummy, InBoot, UserWords, Kept, Regs, Words
<1>4. thread'[First].sstatus = KernelStatus
  BY <1>2, StatusFacts DEF FirstThread
<1> QED
  BY <1>1, <1>2, <1>3, <1>4 DEF IInv, Types, Phase, InBoot

LEMMA StartScheduleIInv == IInv /\ StartSchedule => IInv'
BY FirstRuns, Where DEF IInv, StartSchedule

LEMMA BootTimerIInv == IInv /\ BootTimer => IInv'
<1> SUFFICES ASSUME IInv, BootTimer PROVE IInv'
  OBVIOUS
<1>1. InBoot /\ TrapSp = KernelSp(Idle, 0) /\ Idle \in Slots
  BY Where, SlotFacts, LabelFacts DEF IInv, BootTimer, InBoot, TrapSp
<1>2. /\ Down(TrapSp) = KernelSp(Idle, 1) /\ Down(Down(TrapSp)) = KernelSp(Idle, 2)
      /\ {KernelSp(Idle, 1), KernelSp(Idle, 2)} \subseteq Word \cap Places
      /\ KernelSp(Idle, 1) # KernelSp(Idle, 2)
  BY <1>1, KernelSpFacts
<1>3. /\ cpu \in Cpus /\ stack = [a \in Places |-> stack[a]] /\ current \in Slots
      /\ "timer" \in Traps /\ Trap("timer")
  BY <1>1 DEF IInv, Types, BootTimer, Traps, Exceptions
<1>4. /\ cpu' \in Cpus /\ cpu'.pc = Label("trap_handler") /\ cpu'.mode = "S"
      /\ cpu'.reg["sp"] = KernelSp(Idle, 2)
      /\ cpu'.sscratch = IF cpu.sscratch = Zero THEN Zero ELSE cpu.reg["sp"]
      /\ stack' = [a \in Places |-> stack'[a]]
      /\ stack'[KernelSp(Idle, 2)] \in CFrames
      /\ stack'[KernelSp(Idle, 2)] =
           [cause |-> "timer", regs |-> KernelSp(Idle, 1), s |-> cpu.reg["s"]]
  BY <1>2, <1>3, TrapFacts DEF Pushed
<1>5. UNCHANGED <<thread, live, current>>
  BY DEF BootTimer, Trap
<1>6. InBoot'
  BY <1>1, <1>4, <1>5 DEF InBoot
<1> QED
  BY <1>1, <1>4, <1>5, <1>6 DEF IInv, Types, Phase, InBoot

LEMMA ComputeIInv == ASSUME IInv, NEW v \in Values, Compute(v) PROVE IInv'
<1>1. InUserCode
  BY Where DEF IInv, Compute
<1>2. UserSp(v) \in UserSps /\ UserSp(v) \in Word /\ Text \in Word
  BY UserSpsFacts, LabelFacts DEF UserSps, UserPcs
<1> DEFINE regs == [r \in Regs |-> IF r = "sp" THEN UserSp(v) ELSE UserWord(r, v)]
<1>3. regs \in RegFile /\ regs["sp"] = UserSp(v) /\ UserWords(regs)
  BY <1>2, WordFacts DEF RegFile, Regs, UserWords, Kept, Words
<1>4. cpu' = [cpu EXCEPT !.pc = Text, !.reg = regs]
  BY DEF Compute
<1> HIDE DEF regs
<1>5. /\ cpu' \in Cpus /\ cpu'.pc = Text /\ cpu'.reg = regs /\ cpu'.mode = cpu.mode
      /\ cpu'.sscratch = cpu.sscratch /\ cpu'.sstatus = cpu.sstatus
  BY <1>2, <1>3, <1>4 DEF IInv, Types, Cpus
<1>6. InUserCode'
  BY <1>1, <1>2, <1>3, <1>5 DEF InUserCode, UserPcs, Compute
<1> QED
  BY <1>1, <1>5, <1>6, SameTask DEF IInv, Types, Phase, InUserCode, Compute

(* A trap of user code leaves its frames on the task's kernel stack.       *)
LEMMA UserTrapPushes ==
  ASSUME IInv, NEW cause \in Traps, UserTrap(cause)
  PROVE  /\ InUserCode /\ UNCHANGED <<thread, live, current>>
         /\ Pushed(cause, KernelSp(current, 1), KernelSp(current, 2))
<1>1. InUserCode /\ Trap(cause)
  BY Where DEF IInv, UserTrap
<1>2. current \in Slots /\ TrapSp = KernelSp(current, 0)
  BY <1>1, KernelSpFacts DEF IInv, Types, InUserCode, TrapSp
<1>3. PICK frame \in Word \cap Places, top \in Word \cap Places :
        /\ frame = KernelSp(current, 1) /\ top = KernelSp(current, 2)
        /\ frame = Down(TrapSp) /\ top = Down(frame) /\ frame # top
  BY <1>2, KernelSpFacts
<1>4. cpu \in Cpus /\ stack = [a \in Places |-> stack[a]]
  BY DEF IInv, Types
<1>5. Pushed(cause, frame, top)
  BY <1>1, <1>2, <1>3, <1>4, TrapFacts
<1> QED
  BY <1>1, <1>3, <1>5 DEF Trap

LEMMA UserTrapIInv == ASSUME IInv, NEW cause \in Traps, UserTrap(cause) PROVE IInv'
<1>1. PICK frame \in Word \cap Places, top \in Word \cap Places :
        frame = KernelSp(current, 1) /\ top = KernelSp(current, 2)
  BY KernelSpFacts DEF IInv, Types
<1>2. InUserCode /\ UNCHANGED <<thread, live, current>> /\ Pushed(cause, frame, top)
  BY <1>1, UserTrapPushes
<1>3. current \in Slots /\ current # Idle /\ UserWords(cpu.reg) /\ cpu.sscratch # Zero
  BY <1>2, KernelSpFacts DEF IInv, Types, InUserCode
<1>4. cpu'.sstatus = KernelStatus /\ cpu'.sscratch = cpu.reg["sp"]
  BY <1>2, <1>3 DEF Pushed, InUserCode, UserStatus, KernelStatus
<1>5. UserWords(stack'[frame].reg)
  BY <1>2, <1>3 DEF Pushed, UserWords, Kept, Regs
<1>6. cause \in UserCalls => cpu.pc = Text
  BY DEF UserTrap, UserCalls, KernelCalls, Exceptions
<1>7. HandlerFrameOK(current)'
  BY <1>1, <1>2, <1>4, <1>5, <1>6 DEF Pushed, HandlerFrameOK, UserFrameOK, InUserCode
<1>8. InHandler'
  BY <1>1, <1>2, <1>3, <1>4, <1>7, LabelFacts DEF Pushed, InHandler, UserLabels, InUserCode
<1>9. \A t \in Slots \ {current} : \A n \in {1, 2} :
        stack'[KernelSp(t, n)] = stack[KernelSp(t, n)]
  BY <1>1, <1>2, <1>3, OtherPlaces DEF Pushed
<1> QED
  BY <1>2, <1>3, <1>8, <1>9, SameTask DEF Phase, Pushed

-----------------------------------------------------------------------------
(* Handlers that return.                                                   *)

(* A handler on the kernel stack leaves f for user code to go on with.     *)
LEMMA KernelReturns ==
  ASSUME IInv, InHandler, NEW f, HandlerReturns(f)
  PROVE  /\ cpu' \in Cpus /\ cpu'.pc = __ret_from_fork /\ cpu'.mode = cpu.mode
         /\ cpu'.sscratch = cpu.sscratch /\ cpu'.sstatus = cpu.sstatus
         /\ cpu'.reg["sp"] = KernelSp(current, 1)
         /\ stack' = [a \in Places |-> stack'[a]]
         /\ stack'[KernelSp(current, 1)] = f
         /\ \A t \in Slots \ {current} : \A n \in {1, 2} :
              stack'[KernelSp(t, n)] = stack[KernelSp(t, n)]
         /\ UNCHANGED <<thread, live, current>>
<1>1. current \in Slots /\ current # Idle /\ cpu \in Cpus /\ stack = [a \in Places |-> stack[a]]
  BY DEF IInv, Types, InHandler
<1>2. PICK frame \in Word \cap Places, top \in Word \cap Places :
        /\ frame = KernelSp(current, 1) /\ top = KernelSp(current, 2)
        /\ frame = Up(top) /\ frame # top
  BY <1>1, KernelSpFacts
<1>3. /\ CFrame \in CFrames /\ CFrame.regs = frame /\ cpu.reg["sp"] = top
      /\ Up(cpu.reg["sp"]) = frame
  BY <1>2 DEF InHandler, HandlerFrameOK, CFrame
<1>4. /\ cpu' \in Cpus /\ cpu'.pc = __ret_from_fork /\ cpu'.mode = cpu.mode
      /\ cpu'.sscratch = cpu.sscratch /\ cpu'.sstatus = cpu.sstatus
      /\ cpu'.reg["sp"] = frame
      /\ stack' = [a \in Places |-> stack'[a]]
      /\ stack'[frame] = f
      /\ \A a \in Places \ {frame, top} : stack'[a] = stack[a]
  BY <1>1, <1>2, <1>3, HandlerReturnsFacts
<1>5. \A t \in Slots \ {current} : \A n \in {1, 2} :
        stack'[KernelSp(t, n)] = stack[KernelSp(t, n)]
  BY <1>1, <1>2, <1>4, OtherPlaces
<1> QED
  BY <1>2, <1>4, <1>5 DEF HandlerReturns

LEMMA KernelReturn ==
  ASSUME IInv, InHandler, NEW f \in TrapFrames, HandlerReturns(f),
         f.reg["sp"] = KernelSp(current, 1), UserWords(f.reg),
         f.sepc \in UserPcs, f.sstatus = KernelStatus
  PROVE  IInv'
<1>1. InReturn'
  BY KernelReturns DEF InReturn, InHandler, UserFrameOK
<1> QED
  BY <1>1, KernelReturns, SameTask DEF Phase, InHandler

(* What the handlers make of the trap frame.                               *)
LEMMA TrapFrameFacts ==
  ASSUME IInv, InHandler
  PROVE  /\ TrapFrame \in TrapFrames
         /\ TrapFrame.reg["sp"] = KernelSp(current, 1) /\ UserWords(TrapFrame.reg)
         /\ TrapFrame.sepc \in UserPcs /\ TrapFrame.sstatus = KernelStatus
         /\ CFrame.cause \in UserCalls => TrapFrame.sepc = Text
BY DEF InHandler, HandlerFrameOK, UserFrameOK, CFrame, TrapFrame

LEMMA SkipFacts ==
  ASSUME IInv, InHandler
  PROVE  LET f == [TrapFrame EXCEPT !.sepc = Behind(@)] IN
         /\ f \in TrapFrames /\ f.reg = TrapFrame.reg
         /\ f.sepc = Behind(Text) /\ f.sepc \in UserPcs /\ f.sstatus = KernelStatus
<1>1. Behind(TrapFrame.sepc) = Behind(Text) /\ Behind(Text) \in Word
  BY TrapFrameFacts, LabelFacts DEF UserPcs
<1> QED
  BY <1>1, TrapFrameFacts DEF TrapFrames, UserPcs

LEMMA AnswerFacts ==
  ASSUME IInv, InHandler, NEW v \in Word, v \in Words
  PROVE  /\ Answer(v) \in TrapFrames
         /\ Answer(v).reg = [TrapFrame.reg EXCEPT !["a0"] = v]
         /\ Answer(v).reg["sp"] = KernelSp(current, 1) /\ UserWords(Answer(v).reg)
         /\ Answer(v).sepc = Behind(Text) /\ Answer(v).sepc \in UserPcs
         /\ Answer(v).sstatus = KernelStatus
<1>1. Behind(TrapFrame.sepc) = Behind(Text) /\ Behind(Text) \in Word
  BY TrapFrameFacts, LabelFacts DEF UserPcs
<1> DEFINE regs == [TrapFrame.reg EXCEPT !["a0"] = v]
<1>2. regs \in RegFile /\ regs["sp"] = KernelSp(current, 1)
  BY TrapFrameFacts DEF TrapFrames, RegFile, Regs
<1>3. UserWords(regs)
  BY TrapFrameFacts DEF TrapFrames, RegFile, Regs, UserWords, Kept
<1>4. Answer(v) = [TrapFrame EXCEPT !.reg = regs, !.sepc = Behind(Text)]
  BY <1>1 DEF Answer
<1> HIDE DEF regs
<1>5. /\ Answer(v) \in TrapFrames /\ Answer(v).reg = regs
      /\ Answer(v).sepc = Behind(Text) /\ Answer(v).sstatus = KernelStatus
  BY <1>1, <1>2, <1>4, TrapFrameFacts DEF TrapFrames
<1> QED
  BY <1>2, <1>3, <1>5 DEF regs, UserPcs

(* The fault inside sys_write is served on the user's stack.               *)
LEMMA NestedReturns ==
  ASSUME IInv, InNested, HandlerReturns(TrapFrame), cpu.pc = Label("trap_handler")
  PROVE  /\ cpu' \in Cpus /\ cpu'.pc = __ret_from_fork /\ cpu'.mode = cpu.mode
         /\ cpu'.sscratch = cpu.sscratch /\ cpu'.sstatus = cpu.sstatus
         /\ stack' = [a \in Places |-> stack'[a]]
         /\ UNCHANGED <<thread, live, current>>
         /\ \A t \in Slots : \A m \in {1, 2} : stack'[KernelSp(t, m)] = stack[KernelSp(t, m)]
         /\ \E n \in Values : /\ cpu.reg["sp"] = UserSp(n + 2) /\ cpu'.reg["sp"] = UserSp(n + 1)
                             /\ NestedFrameOK(n)'
<1>1. current \in Slots /\ current # Idle /\ cpu \in Cpus /\ stack = [a \in Places |-> stack[a]]
  BY DEF IInv, Types, InNested
<1>2. PICK n \in Values :
        /\ NestedFrameOK(n)
        /\ cpu.reg["sp"] = UserSp(n + 2)
        /\ stack[UserSp(n + 2)] =
             [cause |-> "fault", regs |-> UserSp(n + 1), s |-> Live("s", current)]
  BY LabelFacts DEF InNested, __ret_from_fork
<1>3. n \in Int /\ n + 1 \in 0 .. DEPTH + 3 /\ n + 2 \in 0 .. DEPTH + 3
  BY DEF Values
<1>4. PICK frame \in Word \cap Places, top \in Word \cap Places :
        /\ frame = UserSp(n + 1) /\ top = UserSp(n + 2) /\ frame = Up(top) /\ frame # top
  <2>1. Up(UserSp(n + 2)) = UserSp(n + 1)
    BY <1>3, UserSpFacts
  <2>2. UserSp(n + 1) \in Word \cap Places /\ UserSp(n + 2) \in Word \cap Places
    BY <1>3, UserSpFacts
  <2>3. UserSp(n + 1) # UserSp(n + 2)
    BY <1>3 DEF UserSp
  <2> QED
    BY <2>1, <2>2, <2>3
<1>5. /\ CFrame = [cause |-> "fault", regs |-> frame, s |-> Live("s", current)]
      /\ cpu.reg["sp"] = top /\ Up(cpu.reg["sp"]) = frame
  BY <1>2, <1>4 DEF CFrame
<1>6. CFrame \in CFrames /\ CFrame.regs = frame
  BY <1>1, <1>5, WordFacts DEF CFrames, Regs, Traps, Exceptions
<1>7. /\ cpu' \in Cpus /\ cpu'.pc = __ret_from_fork /\ cpu'.mode = cpu.mode
      /\ cpu'.sscratch = cpu.sscratch /\ cpu'.sstatus = cpu.sstatus
      /\ cpu'.reg["sp"] = frame
      /\ stack' = [a \in Places |-> stack'[a]]
      /\ stack'[frame] = TrapFrame
      /\ \A a \in Places \ {frame, top} : stack'[a] = stack[a]
  BY <1>1, <1>4, <1>5, <1>6, HandlerReturnsFacts
<1>8. UNCHANGED <<thread, live, current>> /\ TrapFrame = stack[UserSp(n + 1)]
  BY <1>4, <1>6 DEF HandlerReturns, TrapFrame
<1>9. \A t \in Slots : \A m \in {1, 2} : stack'[KernelSp(t, m)] = stack[KernelSp(t, m)]
  BY <1>4, <1>7, KernelSpFacts
<1>10. NestedFrameOK(n)'
  BY <1>2, <1>4, <1>7, <1>8 DEF NestedFrameOK
<1> QED
  BY <1>2, <1>4, <1>7, <1>8, <1>9, <1>10

LEMMA NestedReturn ==
  ASSUME IInv, InNested, HandlerReturns(TrapFrame), cpu.pc = Label("trap_handler")
  PROVE  IInv'
<1>1. current \in Slots /\ current # Idle
  BY DEF IInv, Types, InNested
<1>2. HandlerFrameOK(current)' /\ stack'[KernelSp(current, 2)].cause = "write"
  BY <1>1, NestedReturns DEF InNested, HandlerFrameOK, UserFrameOK
<1>3. InNested'
  BY <1>1, <1>2, NestedReturns DEF InNested
<1> QED
  BY <1>1, <1>3, NestedReturns, SameTask DEF Phase

(* Which handlers run where.                                               *)
LEMMA InKernel ==
  ASSUME IInv, NEW cause, Handling(cause)
  PROVE  /\ cause \notin {"timer", "fault"} => InHandler
         /\ cause = "timer" => InHandler \/ InBoot
         /\ cause = "timer" /\ current # Idle => InHandler
         /\ cause = "fault" => InHandler \/ InNested
         /\ cpu.pc = Label("trap_handler")
<1>1. InBoot => cause = "timer"
  BY LabelFacts DEF InBoot, Handling, CFrame
<1>2. InNested => cause = "fault"
  BY LabelFacts DEF InNested, Handling, CFrame, __ret_from_fork
<1>3. InBoot => current = Idle
  BY DEF InBoot
<1> QED
  BY <1>1, <1>2, <1>3, Where DEF IInv, Handling

LEMMA HandlerSteps ==
  ASSUME IInv, Fault \/ TimerStay \/ Ignored \/ Getpid \/ UnknownCall \/ WriteEnd \/ Switched
  PROVE  IInv'
<1>1. CASE Fault
  <2>1. InHandler \/ InNested
    BY <1>1, InKernel DEF Fault
  <2>2. HandlerReturns(TrapFrame) /\ cpu.pc = Label("trap_handler")
    BY <1>1 DEF Fault, Handling
  <2> QED
    BY <2>1, <2>2, KernelReturn, NestedReturn, TrapFrameFacts
<1>2. CASE TimerStay \/ Ignored
  <2>1. InHandler /\ HandlerReturns(TrapFrame)
    BY <1>2, InKernel DEF TimerStay, Ignored
  <2> QED
    BY <2>1, KernelReturn, TrapFrameFacts
<1>3. CASE Getpid
  <2>1. InHandler /\ HandlerReturns(Answer(Pid(current)))
    BY <1>3, InKernel DEF Getpid
  <2>2. Pid(current) \in Word /\ Pid(current) \in Words
    BY WordFacts DEF IInv, Types, Words
  <2> QED
    BY <2>1, <2>2, KernelReturn, AnswerFacts
<1>4. CASE UnknownCall
  <2>1. InHandler /\ HandlerReturns([TrapFrame EXCEPT !.sepc = Behind(@)])
    BY <1>4, InKernel DEF UnknownCall
  <2> QED
    BY <2>1, KernelReturn, SkipFacts, TrapFrameFacts
<1>5. CASE WriteEnd
  <2>1. InHandler /\ HandlerReturns(Answer(Count))
    BY <1>5, Where DEF WriteEnd, IInv
  <2>2. Count \in Word /\ Count \in Words
    BY WordFacts DEF Words
  <2> QED
    BY <2>1, <2>2, KernelReturn, AnswerFacts
<1>6. CASE Switched
  <2>1. InHandler
    BY <1>6, Where DEF Switched, IInv
  <2>2. Pid(current) \in Word /\ Pid(current) \in Words
    BY WordFacts DEF IInv, Types, Words
  <2>3. HandlerReturns(TrapFrame) \/ HandlerReturns(Answer(Pid(current)))
    BY <1>6 DEF Switched
  <2> QED
    BY <2>1, <2>2, <2>3, KernelReturn, AnswerFacts, TrapFrameFacts
<1> QED
  BY <1>1, <1>2, <1>3, <1>4, <1>5, <1>6

-----------------------------------------------------------------------------
(* sys_write, and the fault inside it.                                     *)

LEMMA WriteIInv == IInv /\ Write => IInv'
<1> SUFFICES ASSUME IInv, Write PROVE IInv'
  OBVIOUS
<1>1. InHandler /\ Handling("write")
  BY InKernel DEF Write
<1>2. current \in Slots /\ current # Idle /\ cpu \in Cpus /\ stack = [a \in Places |-> stack[a]]
  BY <1>1 DEF IInv, Types, InHandler
<1> DEFINE regs == [r \in Regs |-> IF r = "sp" THEN cpu.reg["sp"] ELSE Live(r, current)]
<1>3. /\ regs \in RegFile /\ regs["sp"] = cpu.reg["sp"] /\ regs["s"] = Live("s", current)
      /\ regs["x"] = Live("x", current) /\ regs["a0"] = Live("a0", current)
  BY <1>2, WordFacts DEF RegFile, Regs, Cpus
<1>4. cpu' = [cpu EXCEPT !.pc = Label("sys_write"), !.reg = regs]
  BY DEF Write
<1> HIDE DEF regs
<1>5. /\ cpu' \in Cpus /\ cpu'.pc = Label("sys_write") /\ cpu'.reg = regs
      /\ cpu'.mode = cpu.mode /\ cpu'.sscratch = cpu.sscratch /\ cpu'.sstatus = cpu.sstatus
  BY <1>2, <1>3, <1>4, LabelFacts DEF Cpus, Labels
<1>6. UNCHANGED <<stack, thread, live, current>>
  BY DEF Write
<1>7. CFrame' = CFrame /\ CFrame.cause = "write"
  BY <1>1, <1>3, <1>5, <1>6 DEF CFrame, Handling
<1>8. InHandler'
  BY <1>1, <1>3, <1>5, <1>6, <1>7, LabelFacts
     DEF InHandler, UserLabels, HandlerFrameOK, UserFrameOK
<1> QED
  BY <1>2, <1>5, <1>6, <1>8, SameTask DEF Phase

(* The fault leaves its frames on the user's stack.                        *)
LEMMA WriteFaultPushes ==
  ASSUME IInv, WriteFault
  PROVE  /\ InHandler /\ cpu.pc = Label("sys_write") /\ UNCHANGED <<thread, live, current>>
         /\ \E n \in Values : /\ cpu.sscratch = UserSp(n)
                             /\ \E cause \in Traps : Pushed(cause, UserSp(n + 1), UserSp(n + 2))
                                                  /\ cause = "fault"
<1>1. InHandler /\ cpu.pc = Label("sys_write")
  BY Where DEF IInv, WriteFault
<1>2. PICK cause \in Traps : cause = "fault" /\ Trap(cause)
  BY DEF WriteFault, Traps, Exceptions
<1>3. current \in Slots /\ cpu \in Cpus /\ stack = [a \in Places |-> stack[a]]
  BY DEF IInv, Types
<1>4. PICK n \in Values : cpu.sscratch = UserSp(n)
  BY <1>1 DEF InHandler, UserSps
<1>5. n \in Int /\ n + 1 \in 0 .. DEPTH + 3 /\ n + 2 \in 0 .. DEPTH + 3
  BY DEF Values
<1>6. TrapSp = UserSp(n)
  BY <1>4, <1>5, UserSpFacts DEF TrapSp
<1>7. PICK frame \in Word \cap Places, top \in Word \cap Places :
        /\ frame = UserSp(n + 1) /\ top = UserSp(n + 2)
        /\ frame = Down(TrapSp) /\ top = Down(frame) /\ frame # top
  <2>1. Down(UserSp(n)) = UserSp(n + 1) /\ Down(UserSp(n + 1)) = UserSp(n + 2)
    BY <1>5, UserSpFacts
  <2>2. UserSp(n + 1) \in Word \cap Places /\ UserSp(n + 2) \in Word \cap Places
    BY <1>5, UserSpFacts
  <2>3. UserSp(n + 1) # UserSp(n + 2)
    BY <1>5 DEF UserSp
  <2> QED
    BY <1>6, <2>1, <2>2, <2>3
<1>8. Pushed(cause, frame, top)
  <2>1. /\ frame \in Word \cap Places /\ top \in Word \cap Places
        /\ frame = Down(TrapSp) /\ top = Down(frame) /\ frame # top
    BY <1>7
  <2>2. cause \in Traps /\ Trap(cause)
    BY <1>2
  <2> QED
    BY <1>3, <2>1, <2>2, TrapFacts
<1> QED
  BY <1>1, <1>2, <1>4, <1>7, <1>8 DEF Trap

LEMMA WriteFaultIInv == IInv /\ WriteFault => IInv'
<1> SUFFICES ASSUME IInv, WriteFault PROVE IInv'
  OBVIOUS
<1>1. InHandler /\ cpu.pc = Label("sys_write") /\ UNCHANGED <<thread, live, current>>
  BY WriteFaultPushes
<1>2. PICK n \in Values, cause \in Traps :
        /\ cpu.sscratch = UserSp(n) /\ cause = "fault"
        /\ Pushed(cause, UserSp(n + 1), UserSp(n + 2))
  BY WriteFaultPushes
<1>3. current \in Slots /\ current # Idle /\ n \in Int /\ cpu.sscratch # Zero
  BY <1>1, <1>2, UserSpFacts DEF IInv, Types, InHandler, Values
<1>4. cpu'.sstatus = NestedStatus /\ cpu'.sscratch = KernelSp(current, 2)
  BY <1>1, <1>2, <1>3 DEF Pushed, InHandler, KernelStatus, NestedStatus
<1>5. \A r \in {"s", "x", "a0"} : cpu.reg[r] = Live(r, current)
  BY <1>1 DEF InHandler
<1>6. NestedFrameOK(n)'
  BY <1>1, <1>2, <1>4, <1>5 DEF Pushed, NestedFrameOK, Regs
<1>7. \A t \in Slots : \A m \in {1, 2} : stack'[KernelSp(t, m)] = stack[KernelSp(t, m)]
  BY <1>2, <1>3, KernelSpFacts DEF Pushed
<1>8. HandlerFrameOK(current)' /\ stack'[KernelSp(current, 2)].cause = "write"
  BY <1>1, <1>3, <1>7 DEF InHandler, HandlerFrameOK, UserFrameOK, CFrame
<1>9. InNested'
  BY <1>1, <1>2, <1>3, <1>4, <1>5, <1>6, <1>8 DEF Pushed, InNested
<1> QED
  BY <1>1, <1>2, <1>3, <1>7, <1>9, SameTask DEF Phase, Pushed

(* do_page_fault halts in either handler, sys_fork in the one.             *)
LEMMA HaltIInv == IInv /\ Halt => IInv'
<1> SUFFICES ASSUME IInv, Halt PROVE IInv'
  OBVIOUS
<1>1. (InHandler \/ InNested) /\ cpu.pc = Label("trap_handler")
  BY InKernel DEF Halt
<1>2. cpu' = [cpu EXCEPT !.pc = Label("halt")] /\ UNCHANGED <<stack, thread, live, current>>
  BY DEF Halt
<1>3. current # Idle /\ cpu \in Cpus /\ stack = [a \in Places |-> stack[a]]
  BY <1>1 DEF IInv, Types, InHandler, InNested
<1>4. /\ cpu' \in Cpus /\ cpu'.pc = Label("halt") /\ cpu'.reg = cpu.reg
      /\ cpu'.mode = cpu.mode /\ cpu'.sscratch = cpu.sscratch /\ cpu'.sstatus = cpu.sstatus
  BY <1>2, <1>3, LabelFacts DEF Cpus, Labels
<1>5. CASE InHandler
  <2>1. InHandler'
    BY <1>2, <1>4, <1>5, LabelFacts DEF InHandler, UserLabels, HandlerFrameOK, UserFrameOK
  <2> QED
    BY <1>2, <1>3, <1>4, <2>1, SameTask DEF Phase
<1>6. CASE InNested
  <2>1. HandlerFrameOK(current)' /\ stack'[KernelSp(current, 2)].cause = "write"
    BY <1>2, <1>6 DEF InNested, HandlerFrameOK, UserFrameOK
  <2>2. \A n : NestedFrameOK(n)' = NestedFrameOK(n)
    BY <1>2 DEF NestedFrameOK
  <2>3. PICK n \in Values :
          /\ NestedFrameOK(n)
          /\ cpu.reg["sp"] = UserSp(n + 2)
          /\ stack[UserSp(n + 2)] =
               [cause |-> "fault", regs |-> UserSp(n + 1), s |-> Live("s", current)]
    BY <1>1, <1>6, LabelFacts DEF InNested, __ret_from_fork
  <2>4. InNested'
    BY <1>2, <1>4, <1>6, <2>1, <2>2, <2>3 DEF InNested
  <2> QED
    BY <1>2, <1>3, <1>4, <2>4, SameTask DEF Phase
<1> QED
  BY <1>1, <1>5, <1>6

-----------------------------------------------------------------------------
(* Switches.                                                               *)

(* __switch_to loads a task that is suspended.                             *)
LEMMA Resumed ==
  ASSUME Types', current' # Idle,
         \A t \in live' \ {Idle} : Suspended(t)' /\ thread'[t].sstatus = KernelStatus,
         cpu'.mode = "S",
         LET th == thread'[current']
         IN  /\ cpu'.pc = th.ra /\ cpu'.sscratch = th.sscratch /\ cpu'.sstatus = th.sstatus
             /\ cpu'.reg["sp"] = th.sp /\ cpu'.reg["s"] = th.s
  PROVE  IInv'
<1>1. current' \in live' \ {Idle}
  BY DEF Types
<1>2. PICK u \in live' \ {Idle} : u = current'
  BY <1>1
<1>3. Suspended(u)' /\ cpu'.sstatus = KernelStatus /\ cpu'.sscratch \in UserSps
  BY <1>2 DEF Suspended
<1>4. CASE /\ thread'[u].ra = Label("switch_to") /\ thread'[u].sp = KernelSp(u, 2)
           /\ thread'[u].s = Live("s", u) /\ HandlerFrameOK(u)'
           /\ stack'[KernelSp(u, 2)].cause \in {"timer", "clone"}
  <2>1. InHandler'
    BY <1>2, <1>3, <1>4, LabelFacts
       DEF InHandler, HandlerFrameOK, UserFrameOK, CFrame, UserLabels
  <2> QED
    BY <1>2, <2>1 DEF IInv, Phase
<1>5. CASE /\ thread'[u].ra = __ret_from_fork /\ thread'[u].sp = KernelSp(u, 1)
           /\ UserFrameOK(u)'
  <2>1. InReturn'
    BY <1>2, <1>3, <1>5 DEF InReturn, UserFrameOK
  <2> QED
    BY <1>2, <2>1 DEF IInv, Phase
<1> QED
  BY <1>3, <1>4, <1>5 DEF Suspended

(* What it saves.                                                          *)
LEMMA SavedFacts ==
  ASSUME InHandler
  PROVE  LET th == Saved(cpu) IN
         /\ th.ra = Label("switch_to") /\ th.sp = KernelSp(current, 2)
         /\ th.s = Live("s", current) /\ th.sscratch \in UserSps
         /\ th.sstatus = KernelStatus
BY DEF Saved, InHandler

(* The timer switches from one user task to another, or to the same.       *)
LEMMA TimerSwitches ==
  ASSUME IInv, InHandler, NEW t \in Slots, TimerSwitch(t)
  PROVE  /\ CFrame.cause = "timer" /\ t \in live \ {Idle} /\ UNCHANGED <<stack, live>>
         /\ current' = t /\ thread' \in [Slots -> Threads]
         /\ thread'[current] = Saved(cpu)
         /\ \A u \in Slots \ {current} : thread'[u] = thread[u]
         /\ cpu' \in Cpus
         /\ LET th == thread'[t]
            IN  /\ cpu'.pc = th.ra /\ cpu'.mode = cpu.mode
                /\ cpu'.sscratch = th.sscratch /\ cpu'.sstatus = th.sstatus
                /\ cpu'.reg["sp"] = th.sp /\ cpu'.reg["s"] = th.s
<1>1. /\ cpu \in Cpus /\ current \in Slots /\ thread \in [Slots -> Threads]
      /\ SwitchTo(t, thread)
  BY DEF IInv, Types, TimerSwitch
<1>2. /\ current' = t /\ thread' \in [Slots -> Threads]
      /\ thread'[current] = Saved(cpu)
      /\ \A u \in Slots \ {current} : thread'[u] = thread[u]
      /\ cpu' \in Cpus
      /\ LET th == thread'[t]
         IN  /\ cpu'.pc = th.ra /\ cpu'.mode = cpu.mode /\ cpu'.sepc = th.sepc
             /\ cpu'.sscratch = th.sscratch /\ cpu'.sstatus = th.sstatus
             /\ cpu'.reg["sp"] = th.sp /\ cpu'.reg["s"] = th.s
             /\ cpu'.reg["a0"] = Junk /\ cpu'.reg["x"] = Junk
  BY <1>1, SwitchFacts
<1> QED
  BY <1>2 DEF TimerSwitch, Handling

LEMMA TimerSwitchIInv ==
  ASSUME IInv, NEW t \in Slots, TimerSwitch(t) PROVE IInv'
<1>1. CASE InBoot
  <2>1. t = First
    BY <1>1 DEF InBoot, TimerSwitch
  <2> QED
    BY <1>1, <2>1, FirstRuns DEF TimerSwitch
<1>2. CASE InHandler
  <2>1. current \in live /\ current # Idle /\ live \subseteq Slots
    BY <1>2 DEF IInv, Types, InHandler
  <2>2. Types'
    BY <1>2, TimerSwitches DEF IInv, Types
  <2>3. ASSUME NEW u \in live' \ {Idle}
        PROVE  Suspended(u)' /\ thread'[u].sstatus = KernelStatus
    <3>1. CASE u = current
      <4>1. HandlerFrameOK(u)' /\ stack'[KernelSp(u, 2)].cause = "timer"
        BY <1>2, <3>1, TimerSwitches DEF InHandler, HandlerFrameOK, UserFrameOK, CFrame
      <4> QED
        BY <1>2, <3>1, <4>1, TimerSwitches, SavedFacts DEF Suspended
    <3>2. CASE u # current
      BY <1>2, <2>1, <3>2, TimerSwitches, StillSuspended DEF IInv
    <3> QED
      BY <3>1, <3>2
  <2> QED
    BY <1>2, <2>2, <2>3, TimerSwitches, Resumed DEF InHandler
<1> QED
  BY <1>1, <1>2, InKernel DEF TimerSwitch

(* sys_fork: the frame it leaves for the child, and the child's thread.    *)
LEMMA ChildFrameFacts ==
  ASSUME IInv, InHandler, NEW sp \in Word
  PROVE  /\ ChildFrame(sp) \in TrapFrames
         /\ ChildFrame(sp).reg = [TrapFrame.reg EXCEPT !["a0"] = Zero, !["sp"] = sp]
         /\ ChildFrame(sp).reg["sp"] = sp /\ UserWords(ChildFrame(sp).reg)
         /\ ChildFrame(sp).sepc = Behind(Text) /\ ChildFrame(sp).sepc \in UserPcs
         /\ ChildFrame(sp).sstatus = KernelStatus
<1>1. Behind(TrapFrame.sepc) = Behind(Text) /\ Behind(Text) \in Word
  BY TrapFrameFacts, LabelFacts DEF UserPcs
<1> DEFINE regs == [TrapFrame.reg EXCEPT !["a0"] = Zero, !["sp"] = sp]
<1>2. regs \in RegFile /\ regs["sp"] = sp
  BY TrapFrameFacts, WordFacts DEF TrapFrames, RegFile, Regs
<1>3. UserWords(regs)
  BY TrapFrameFacts DEF TrapFrames, RegFile, Regs, UserWords, Kept, Words
<1>4. ChildFrame(sp) = [TrapFrame EXCEPT !.reg = regs, !.sepc = Behind(Text)]
  BY <1>1 DEF ChildFrame
<1> HIDE DEF regs
<1>5. /\ ChildFrame(sp) \in TrapFrames /\ ChildFrame(sp).reg = regs
      /\ ChildFrame(sp).sepc = Behind(Text) /\ ChildFrame(sp).sstatus = KernelStatus
  BY <1>1, <1>2, <1>4, TrapFrameFacts DEF TrapFrames
<1> QED
  BY <1>2, <1>3, <1>5 DEF regs, UserPcs

LEMMA ChildThreadFacts ==
  ASSUME IInv, InHandler, NEW sp \in Word
  PROVE  /\ ChildThread(sp) \in Threads
         /\ ChildThread(sp).ra = __ret_from_fork /\ ChildThread(sp).sp = sp
         /\ ChildThread(sp).sscratch \in UserSps /\ ChildThread(sp).sstatus = KernelStatus
<1>1. thread[current] \in Threads /\ thread[current].sstatus = KernelStatus
  BY DEF IInv, Types, InHandler
<1>2. cpu["sscratch"] \in Word /\ cpu["sscratch"] \in UserSps
  BY UserSpsFacts DEF InHandler
<1>3. __ret_from_fork \in Word
  BY LabelFacts DEF Labels, __ret_from_fork
<1> QED
  BY <1>1, <1>2, <1>3 DEF ChildThread, read_csr, Threads

(* Its frame is in the child's page, and nothing else changes but what is  *)
(* in that page.                                                           *)
Forked(c) ==
  /\ Handling("clone") /\ FirstFree(c)
  /\ LET sp == InPage(c, CFrame.regs)
     IN  /\ stack' = [memcpy(c) EXCEPT ![sp] = ChildFrame(sp)]
         /\ SwitchTo(c, [thread EXCEPT ![c] = ChildThread(sp)])
  /\ live' = live \cup {c}

LEMMA ForkFacts ==
  ASSUME IInv, NEW c \in Slots, Forked(c)
  PROVE  /\ InHandler /\ CFrame.cause = "clone"
         /\ c \notin live /\ c # Idle /\ c # current
         /\ stack' = [a \in Places |-> stack'[a]]
         /\ stack'[KernelSp(c, 1)] = ChildFrame(KernelSp(c, 1))
         /\ \A t \in Slots \ {c} : \A n \in {1, 2} :
              stack'[KernelSp(t, n)] = stack[KernelSp(t, n)]
         /\ current' = c /\ thread' \in [Slots -> Threads]
         /\ thread'[current] = Saved(cpu)
         /\ thread'[c] = ChildThread(KernelSp(c, 1))
         /\ \A u \in Slots \ {current, c} : thread'[u] = thread[u]
         /\ cpu' \in Cpus
         /\ LET th == thread'[c]
            IN  /\ cpu'.pc = th.ra /\ cpu'.mode = cpu.mode
                /\ cpu'.sscratch = th.sscratch /\ cpu'.sstatus = th.sstatus
                /\ cpu'.reg["sp"] = th.sp /\ cpu'.reg["s"] = th.s
<1>1. InHandler /\ CFrame.cause = "clone"
  BY InKernel DEF Forked, Handling
<1>2. /\ cpu \in Cpus /\ current \in Slots /\ thread \in [Slots -> Threads]
      /\ stack = [a \in Places |-> stack[a]]
      /\ c \notin live /\ c # Idle /\ c # current
  BY DEF IInv, Types, Forked, FirstFree, FreeSlots
<1>3. InPage(c, CFrame.regs) = KernelSp(c, 1)
  BY <1>1, <1>2, KernelSpFacts DEF InHandler, HandlerFrameOK, CFrame
<1>4. KernelSp(c, 1) \in Places /\ KernelSp(c, 1) \in Word
  BY KernelSpFacts
<1> DEFINE threads == [thread EXCEPT ![c] = ChildThread(KernelSp(c, 1))]
<1>5. threads \in [Slots -> Threads] /\ SwitchTo(c, threads)
  BY <1>1, <1>2, <1>3, <1>4, ChildThreadFacts DEF Forked
<1>6. /\ threads[c] = ChildThread(KernelSp(c, 1))
      /\ \A u \in Slots \ {c} : threads[u] = thread[u]
  BY <1>2
<1> HIDE DEF threads
<1>7. stack' = [memcpy(c) EXCEPT ![KernelSp(c, 1)] = ChildFrame(KernelSp(c, 1))]
  BY <1>3 DEF Forked
<1>8. stack' = [a \in Places |-> stack'[a]] /\ stack'[KernelSp(c, 1)] = ChildFrame(KernelSp(c, 1))
  BY <1>4, <1>7 DEF memcpy
<1>9. ASSUME NEW t \in Slots \ {c}, NEW n \in {1, 2}
      PROVE  stack'[KernelSp(t, n)] = stack[KernelSp(t, n)]
  <2>1. KernelSp(t, n) \in Places /\ KernelSp(t, n) # KernelSp(c, 1)
    BY OtherPlaces
  <2>2. KernelSp(t, n)[2] # c
    BY DEF KernelSp
  <2> QED
    BY <1>7, <2>1, <2>2 DEF memcpy
<1>10. /\ current' = c /\ thread' \in [Slots -> Threads] /\ thread'[current] = Saved(cpu)
       /\ \A u \in Slots \ {current} : thread'[u] = threads[u]
       /\ cpu' \in Cpus
       /\ LET th == thread'[c]
          IN  /\ cpu'.pc = th.ra /\ cpu'.mode = cpu.mode /\ cpu'.sepc = th.sepc
              /\ cpu'.sscratch = th.sscratch /\ cpu'.sstatus = th.sstatus
              /\ cpu'.reg["sp"] = th.sp /\ cpu'.reg["s"] = th.s
              /\ cpu'.reg["a0"] = Junk /\ cpu'.reg["x"] = Junk
  BY <1>2, <1>5, SwitchFacts
<1> QED
  BY <1>1, <1>2, <1>6, <1>8, <1>9, <1>10

LEMMA ForkIInv == ASSUME IInv, NEW c \in Slots, Forked(c) PROVE IInv'
<1>1. /\ InHandler /\ current # Idle /\ cpu.mode = "S" /\ c # Idle /\ c \notin live
      /\ live' = live \cup {c} /\ live \subseteq Slots
  BY ForkFacts DEF InHandler, Forked, IInv, Types
<1>2. Types'
  BY <1>1, ForkFacts DEF IInv, Types
<1>3. ASSUME NEW u \in live' \ {Idle}
      PROVE  Suspended(u)' /\ thread'[u].sstatus = KernelStatus
  <2>1. CASE u = c
    <3>1. KernelSp(c, 1) \in Word
      BY KernelSpFacts
    <3>2. PICK f \in TrapFrames :
            /\ f = ChildFrame(KernelSp(c, 1)) /\ f.reg["sp"] = KernelSp(c, 1)
            /\ UserWords(f.reg) /\ f.sepc \in UserPcs /\ f.sstatus = KernelStatus
      BY <1>1, <3>1, ChildFrameFacts
    <3>3. stack'[KernelSp(u, 1)] = f
      BY <2>1, <3>2, ForkFacts
    <3>4. UserFrameOK(u)'
      BY <2>1, <3>2, <3>3 DEF UserFrameOK
    <3> QED
      BY <1>1, <2>1, <3>1, <3>4, ForkFacts, ChildThreadFacts DEF Suspended
  <2>2. CASE u = current
    <3>1. HandlerFrameOK(u)' /\ stack'[KernelSp(u, 2)].cause = "clone"
      BY <1>1, <2>2, ForkFacts DEF InHandler, HandlerFrameOK, UserFrameOK, CFrame, IInv, Types
    <3> QED
      BY <1>1, <2>2, <3>1, ForkFacts, SavedFacts DEF Suspended
  <2>3. CASE u # c /\ u # current
    BY <1>1, <2>3, ForkFacts, StillSuspended DEF IInv
  <2> QED
    BY <2>1, <2>2, <2>3
<1> QED
  BY <1>1, <1>2, <1>3, ForkFacts, Resumed

-----------------------------------------------------------------------------
(* The ways out of the kernel.                                             *)

LEMMA DummyIInv == IInv /\ Dummy => IInv'
<1> SUFFICES ASSUME IInv, Dummy PROVE IInv'
  OBVIOUS
<1>1. InDummy /\ cpu \in Cpus /\ current # Idle
  BY Where, SlotFacts DEF IInv, Types, Dummy, InDummy
<1> DEFINE regs == [cpu.reg EXCEPT !["t0"] = cpu.reg["sp"], !["sp"] = cpu.sscratch]
<1>2. /\ regs \in RegFile /\ regs["sp"] = USER_END
      /\ \A r \in Regs \ {"sp", "t0"} : regs[r] = cpu.reg[r]
  BY <1>1, UserSpsFacts DEF InDummy, Cpus, RegFile, Regs
<1> DEFINE c == [cpu EXCEPT !.reg = regs, !.sscratch = cpu.reg["sp"]]
<1>3. cpu' = Sret(c)
  BY DEF Dummy
<1> HIDE DEF regs
<1>4. /\ c \in Cpus /\ c.reg = regs /\ c.sepc = Text
      /\ c.sscratch = KernelSp(current, 0) /\ c.sstatus = KernelStatus
  <2>1. cpu.reg["sp"] \in Word
    BY <1>1 DEF Cpus, RegFile, Regs
  <2> QED
    BY <1>1, <1>2, <2>1 DEF Cpus, InDummy
<1> HIDE DEF c
<1>5. /\ cpu' \in Cpus /\ cpu'.reg = regs /\ cpu'.pc = Text /\ cpu'.mode = "U"
      /\ cpu'.sscratch = KernelSp(current, 0) /\ cpu'.sstatus = UserStatus
  <2>1. c.sstatus.spp = "U" /\ c.sstatus.spie = TRUE
    BY <1>4 DEF KernelStatus
  <2> QED
    BY <1>3, <1>4, <2>1, SretFacts DEF UserStatus
<1>6. UserWords(regs)
  BY <1>1, <1>2 DEF InDummy, UserWords, Kept, Regs
<1>7. UNCHANGED <<stack, thread, live, current>>
  BY DEF Dummy
<1>8. InUserCode'
  BY <1>1, <1>2, <1>5, <1>6, <1>7, UserSpsFacts DEF InUserCode, UserPcs
<1> QED
  BY <1>1, <1>5, <1>7, <1>8, SameTask DEF IInv, Types, Phase

(* Back to user code, with its frame's registers.                          *)
LEMMA ReturnsToUser ==
  ASSUME IInv, InReturn, Ret
  PROVE  LET f == stack[KernelSp(current, 1)] IN
         /\ cpu' \in Cpus /\ cpu'.pc = f.sepc /\ cpu'.mode = "U"
         /\ cpu'.sstatus = UserStatus
         /\ cpu'.reg["sp"] = cpu.sscratch /\ cpu'.sscratch = KernelSp(current, 0)
         /\ \A r \in Regs \ {"sp", "t0"} : cpu'.reg[r] = f.reg[r]
<1>1. PICK f \in TrapFrames :
        /\ f = stack[KernelSp(current, 1)] /\ f = stack[cpu.reg["sp"]]
        /\ f.reg["sp"] = KernelSp(current, 1) /\ f.sstatus = KernelStatus
  BY DEF InReturn, UserFrameOK
<1>2. Up(f.reg["sp"]) \in Word /\ Up(f.reg["sp"]) = KernelSp(current, 0)
  BY <1>1, KernelSpFacts DEF IInv, Types
<1>3. cpu \in Cpus /\ cpu.sscratch # Zero
  BY UserSpsFacts DEF InReturn, IInv, Types
<1>4. /\ cpu' \in Cpus
      /\ cpu'.pc = f.sepc /\ cpu'.mode = f.sstatus.spp
      /\ cpu'.sstatus = [spp |-> "U", spie |-> TRUE, sie |-> f.sstatus.spie]
      /\ cpu'.reg["sp"] = cpu.sscratch /\ cpu'.sscratch = Up(f.reg["sp"])
      /\ \A r \in Regs \ {"sp", "t0"} : cpu'.reg[r] = f.reg[r]
  BY <1>1, <1>2, <1>3, RetFacts
<1>5. f.sstatus.spp = "U" /\ f.sstatus.spie = TRUE
  BY <1>1 DEF KernelStatus
<1> QED
  BY <1>1, <1>2, <1>4, <1>5 DEF UserStatus

(* Back into sys_write.                                                    *)
LEMMA ReturnsToHandler ==
  ASSUME IInv, InNested, Ret
  PROVE  \E n \in Values :
           /\ cpu.reg["sp"] = UserSp(n + 1) /\ cpu'.sscratch = UserSp(n)
           /\ cpu' \in Cpus /\ cpu'.pc = Label("sys_write") /\ cpu'.mode = "S"
           /\ cpu'.sstatus = KernelStatus /\ cpu'.reg["sp"] = KernelSp(current, 2)
           /\ \A r \in {"s", "x", "a0"} : cpu'.reg[r] = Live(r, current)
<1>1. PICK n \in Values : NestedFrameOK(n) /\ cpu.reg["sp"] = UserSp(n + 1)
  BY LabelFacts DEF Ret, InNested, __ret_from_fork
<1>2. PICK f \in TrapFrames :
        /\ f = stack[cpu.reg["sp"]] /\ f.reg["sp"] = UserSp(n + 1)
        /\ \A r \in {"s", "x", "a0"} : f.reg[r] = Live(r, current)
        /\ f.sepc = Label("sys_write") /\ f.sstatus = NestedStatus
  BY <1>1 DEF NestedFrameOK
<1>3. n \in Int /\ Up(UserSp(n + 1)) = UserSp(n) /\ UserSp(n) \in Word
  BY UserSpFacts DEF Values
<1>4. Up(f.reg["sp"]) \in Word
  BY <1>2, <1>3
<1>5. cpu \in Cpus /\ cpu.sscratch = KernelSp(current, 2) /\ cpu.sscratch # Zero
  BY KernelSpFacts DEF InNested, IInv, Types
<1>6. /\ cpu' \in Cpus
      /\ cpu'.pc = f.sepc /\ cpu'.mode = f.sstatus.spp
      /\ cpu'.sstatus = [spp |-> "U", spie |-> TRUE, sie |-> f.sstatus.spie]
      /\ cpu'.reg["sp"] = cpu.sscratch /\ cpu'.sscratch = Up(f.reg["sp"])
      /\ \A r \in Regs \ {"sp", "t0"} : cpu'.reg[r] = f.reg[r]
  BY <1>2, <1>4, <1>5, RetFacts
<1>7. \A r \in {"s", "x", "a0"} : cpu'.reg[r] = Live(r, current)
  BY <1>2, <1>6 DEF Regs
<1> QED
  BY <1>1, <1>2, <1>3, <1>5, <1>6, <1>7 DEF NestedStatus, KernelStatus

LEMMA RetIInv == IInv /\ Ret => IInv'
<1> SUFFICES ASSUME IInv, Ret PROVE IInv'
  OBVIOUS
<1>1. InReturn \/ InNested
  BY Where DEF IInv, Ret
<1>2. /\ current \in Slots /\ current # Idle
      /\ stack = [a \in Places |-> stack[a]]
      /\ stack' = [stack EXCEPT ![cpu.reg["sp"]] = Free]
      /\ UNCHANGED <<thread, live, current>> /\ cpu.pc = __ret_from_fork
  BY <1>1 DEF IInv, Types, Ret, InReturn, InNested
<1>3. /\ stack' = [a \in Places |-> stack'[a]]
      /\ \A a \in Places \ {cpu.reg["sp"]} : stack'[a] = stack[a]
  BY <1>2
<1>4. CASE InReturn
  <2>1. InUserCode'
    BY <1>2, <1>4, ReturnsToUser DEF InUserCode, InReturn, UserFrameOK, UserWords, Kept, Regs
  <2>2. \A t \in Slots \ {current} : \A n \in {1, 2} :
          stack'[KernelSp(t, n)] = stack[KernelSp(t, n)]
    BY <1>2, <1>3, <1>4, OtherPlaces DEF InReturn
  <2> QED
    BY <1>2, <1>3, <1>4, <2>1, <2>2, ReturnsToUser, SameTask DEF Phase
<1>5. CASE InNested
  <2>1. PICK n \in Values :
          /\ cpu.reg["sp"] = UserSp(n + 1) /\ cpu'.sscratch = UserSp(n)
          /\ cpu' \in Cpus /\ cpu'.pc = Label("sys_write") /\ cpu'.mode = "S"
          /\ cpu'.sstatus = KernelStatus /\ cpu'.reg["sp"] = KernelSp(current, 2)
          /\ \A r \in {"s", "x", "a0"} : cpu'.reg[r] = Live(r, current)
    BY <1>5, ReturnsToHandler
  <2>2. \A t \in Slots : \A m \in {1, 2} : stack'[KernelSp(t, m)] = stack[KernelSp(t, m)]
    BY <1>3, <2>1, KernelSpFacts
  <2>3. HandlerFrameOK(current)' /\ CFrame'.cause = "write"
    BY <1>2, <1>5, <2>1, <2>2 DEF InNested, HandlerFrameOK, UserFrameOK, CFrame
  <2>4. InHandler'
    BY <1>2, <2>1, <2>3, LabelFacts DEF InHandler, UserLabels, UserSps
  <2> QED
    BY <1>2, <1>3, <2>1, <2>2, <2>4, SameTask DEF Phase
<1> QED
  BY <1>1, <1>4, <1>5

-----------------------------------------------------------------------------
(* The theorems.                                                           *)

LEMMA NextIInv == IInv /\ [Next]_vars => IInv'
<1> SUFFICES ASSUME IInv, [Next]_vars PROVE IInv'
  OBVIOUS
<1>1. CASE StartSchedule
  BY <1>1, StartScheduleIInv
<1>2. CASE BootTimer
  BY <1>2, BootTimerIInv
<1>3. ASSUME NEW v \in Values, Compute(v) PROVE IInv'
  BY <1>3, ComputeIInv
<1>4. ASSUME NEW cause \in Traps, UserTrap(cause) PROVE IInv'
  BY <1>4, UserTrapIInv
<1>5. CASE Fault \/ TimerStay \/ Ignored \/ Getpid \/ UnknownCall \/ WriteEnd \/ Switched
  BY <1>5, HandlerSteps
<1>6. CASE Write
  BY <1>6, WriteIInv
<1>7. CASE WriteFault
  BY <1>7, WriteFaultIInv
<1>8. ASSUME NEW t \in Slots, TimerSwitch(t) PROVE IInv'
  BY <1>8, TimerSwitchIInv
<1>9. CASE Fork
  <2>1. PICK c \in Slots : Forked(c)
    BY <1>9 DEF Fork, Forked
  <2> QED
    BY <2>1, ForkIInv
<1>10. CASE Halt
  BY <1>10, HaltIInv
<1>11. CASE Ret
  BY <1>11, RetIInv
<1>12. CASE Dummy
  BY <1>12, DummyIInv
<1>13. CASE UNCHANGED vars
  <2>1. UNCHANGED <<cpu, stack, thread, live, current>>
    BY <1>13 DEF vars
  <2>2. Types'
    BY <2>1 DEF IInv, Types
  <2>3. \A t : UserFrameOK(t)' <=> UserFrameOK(t)
    BY <2>1 DEF UserFrameOK
  <2>4. \A t : HandlerFrameOK(t)' <=> HandlerFrameOK(t)
    BY <2>1, <2>3 DEF HandlerFrameOK
  <2>5. \A n : NestedFrameOK(n)' <=> NestedFrameOK(n)
    BY <2>1 DEF NestedFrameOK
  <2>6. \A t : Suspended(t)' <=> Suspended(t)
    BY <2>1, <2>3, <2>4 DEF Suspended
  <2>7. Phase'
    BY <2>1, <2>3, <2>4, <2>5
       DEF IInv, Phase, InBoot, InDummy, InUserCode, InHandler, InReturn, InNested, CFrame
  <2> QED
    BY <2>1, <2>2, <2>6, <2>7 DEF IInv
<1> QED
  BY <1>1, <1>2, <1>3, <1>4, <1>5, <1>6, <1>7, <1>8, <1>9, <1>10, <1>11, <1>12, <1>13 DEF Next

(* What the hart and the stacks hold in every phase, in every state the    *)
(* kernel reaches.                                                         *)
THEOREM Invariance == Spec => []IInv
BY InitIInv, NextIInv, PTL DEF Spec

LEMMA SpFacts == IInv => cpu.reg["sp"] \in Places /\ cpu.sscratch \in Places \cup {Zero}
<1> SUFFICES ASSUME IInv PROVE cpu.reg["sp"] \in Places /\ cpu.sscratch \in Places \cup {Zero}
  OBVIOUS
<1>1. \A t \in Slots : \A n \in 0 .. 3 : KernelSp(t, n) \in Places
  BY DEF Places
<1>2. \A n \in Values : UserSp(n + 1) \in Places /\ UserSp(n + 2) \in Places
  <2>1. \A n \in Values : n + 1 \in 0 .. DEPTH + 3 /\ n + 2 \in 0 .. DEPTH + 3
    BY DEF Values
  <2> QED
    BY <2>1 DEF Places
<1>3. UserSps \subseteq Places
  BY UserSpsFacts
<1>4. current \in Slots /\ Idle \in Slots /\ First \in Slots
  BY SlotFacts DEF IInv, Types
<1>5. CASE InBoot
  BY <1>1, <1>4, <1>5 DEF InBoot
<1>6. CASE InDummy
  BY <1>1, <1>3, <1>4, <1>6, UserSpsFacts DEF InDummy
<1>7. CASE InUserCode \/ InHandler \/ InReturn
  BY <1>1, <1>3, <1>4, <1>7 DEF InUserCode, InHandler, InReturn
<1>8. CASE InNested
  BY <1>1, <1>2, <1>4, <1>8 DEF InNested
<1> QED
  BY <1>5, <1>6, <1>7, <1>8 DEF IInv, Phase

(* Registers, stack pointers and the sets of places are of their kinds.    *)
THEOREM TypeCorrectness == Spec => []TypeOK
<1>1. IInv => TypeOK
  <2> SUFFICES ASSUME IInv PROVE TypeOK
    OBVIOUS
  <2>1. cpu.mode = "U" => cpu.pc \in {Text, Behind(Text)}
    BY Where DEF IInv, InUserCode, UserPcs
  <2>2. cpu.mode # "U" => cpu.pc \in Labels
    BY DEF IInv, Phase, InBoot, InDummy, InUserCode, InHandler, InReturn, InNested,
           UserLabels, Labels, __dummy, __ret_from_fork
  <2>3. DOMAIN cpu.reg = Regs /\ cpu.mode \in {"U", "S"}
    BY DEF IInv, Types, Cpus, RegFile
  <2> QED
    BY <2>1, <2>2, <2>3, SpFacts DEF IInv, Types, TypeOK
<1> QED
  BY <1>1, Invariance, PTL

(* sp and sscratch of the running task and of every suspended one: user    *)
(* code finds its own empty kernel stack in sscratch, handlers run at its  *)
(* top with the user's sp in sscratch, and a fault inside sys_write keeps  *)
(* the way back.                                                           *)
THEOREM StacksKept == Spec => []StackDiscipline
<1>1. IInv => StackDiscipline
  <2> SUFFICES ASSUME IInv, current # Idle PROVE StackDiscipline
    BY DEF StackDiscipline
  <2>1. __dummy # __ret_from_fork /\ \A l \in UserLabels : l # __dummy /\ l # __ret_from_fork
    BY LabelFacts DEF UserLabels, __dummy, __ret_from_fork
  <2>2. Depth(__dummy) = 0 /\ Depth(__ret_from_fork) = 1 /\ \A l \in UserLabels : Depth(l) = 2
    BY <2>1 DEF Depth
  <2>3. \A a \in UserSps : OnUserStack(a)
    BY UserSpsFacts
  <2>4. \A n \in Values : OnUserStack(UserSp(n + 1)) /\ OnUserStack(UserSp(n + 2))
    BY DEF OnUserStack, UserSp
  <2>5. ASSUME NEW t \in live \ {Idle, current}
        PROVE  thread[t].sp = KernelSp(t, Depth(thread[t].ra)) /\ OnUserStack(thread[t].sscratch)
    BY <2>2, <2>3 DEF IInv, Suspended, UserLabels
  <2>6. IF cpu.mode = "U"
        THEN OnUserStack(cpu.reg["sp"]) /\ cpu.sscratch = KernelSp(current, 0)
        ELSE \/ cpu.reg["sp"] = KernelSp(current, Depth(cpu.pc)) /\ OnUserStack(cpu.sscratch)
             \/ OnUserStack(cpu.reg["sp"]) /\ cpu.sscratch = KernelSp(current, 2)
    <3>1. CASE InDummy
      BY <2>2, <3>1, UserSpsFacts DEF InDummy
    <3>2. CASE InUserCode
      BY <2>3, <3>2 DEF InUserCode
    <3>3. CASE InHandler \/ InReturn
      BY <2>2, <2>3, <3>3 DEF InHandler, InReturn
    <3>4. CASE InNested
      BY <2>4, <3>4 DEF InNested
    <3>5. ~ InBoot
      BY DEF InBoot
    <3> QED
      BY <3>1, <3>2, <3>3, <3>4, <3>5 DEF IInv, Phase
  <2> QED
    BY <2>5, <2>6 DEF StackDiscipline
<1> QED
  BY <1>1, Invariance, PTL

(* User code can be interrupted, handlers cannot.                          *)
THEOREM UserCodeInterruptible == Spec => []InterruptsInUserCode
<1>1. IInv => InterruptsInUserCode
  BY DEF IInv, Phase, InBoot, InDummy, InUserCode, InHandler, InReturn, InNested,
         UserStatus, KernelStatus, NestedStatus, InterruptsInUserCode
<1> QED
  BY <1>1, Invariance, PTL

(* switch_to and a page fault give C code its registers back.              *)
THEOREM CRegistersKept == Spec => []KernelRegisters
<1>1. IInv => KernelRegisters
  BY Where DEF IInv, InHandler, KernelRegisters
<1> QED
  BY <1>1, Invariance, PTL

-----------------------------------------------------------------------------
(***************************************************************************)
(* Context implements ProcRegs: every step of the kernel is a step of      *)
(* private registers, or none at all.  A task's registers are in the hart  *)
(* while it executes user code and in its trap frame else, its sp in       *)
(* sscratch; IInv says that they are there.                                *)
(***************************************************************************)

(* The values of the mapping.                                              *)

UserTask == IF cpu.mode = "U" THEN current ELSE Idle
RegsOf   == [t \in Slots |-> Registers(t)]
IpOf     == [t \in Slots |-> InstructionOf(t)]

(* What user code goes on with, of a task in the kernel.                   *)
KernelRegs(sp, f) == [r \in Kept |-> IF r = "sp" THEN sp ELSE f.reg[r]]
KernelIp(f)       == IF f.sepc = Behind(Text) THEN "behind" ELSE "here"

Running == InUserCode \/ InHandler \/ InReturn \/ InNested

LEMMA Phases ==
  ASSUME IInv
  PROVE  /\ InBoot \/ InDummy \/ Running
         /\ InBoot \/ InDummy => Begun = {} /\ cpu.mode = "S"
         /\ Running => /\ Begun = live \ {Idle} /\ current \in Begun
                       /\ Begun \subseteq Slots /\ current # Idle
                       /\ cpu.mode = "U" <=> InUserCode
         /\ InHandler \/ InReturn \/ InNested => cpu.mode = "S"
<1>1. \A p \in UserPcs \cup UserLabels \cup {__ret_from_fork} : p # __dummy
  BY LabelFacts DEF UserPcs, UserLabels, __dummy, __ret_from_fork
<1>2. Running => cpu.pc # __dummy /\ current # Idle
  BY <1>1 DEF Running, InUserCode, InHandler, InReturn, InNested, UserLabels
<1>3. InHandler \/ InReturn \/ InNested => cpu.mode = "S"
  BY DEF InHandler, InReturn, InNested
<1>4. InBoot \/ InDummy => Begun = {} /\ cpu.mode = "S"
  BY DEF InBoot, InDummy, Begun
<1>5. cpu.mode = "U" => InUserCode
  BY Where DEF IInv
<1>6. InUserCode => cpu.mode = "U"
  BY DEF InUserCode
<1> QED
  BY <1>2, <1>3, <1>4, <1>5, <1>6 DEF IInv, Types, Phase, Running, Begun

(* Where the sp of a task is.                                              *)
LEMMA SpPlaces ==
  ASSUME IInv
  PROVE  /\ \A t : t # current => UserSpOf(t) = thread[t].sscratch
         /\ InHandler \/ InReturn => UserSpOf(current) = cpu.sscratch
         /\ \A n \in Values :
              \/ cpu.reg["sp"] = UserSp(n + 1) /\ cpu.pc = __ret_from_fork
              \/ cpu.reg["sp"] = UserSp(n + 2) /\ cpu.pc # __ret_from_fork
              => UserSpOf(current) = UserSp(n)
<1>1. InHandler \/ InReturn => ~ OnUserStack(cpu.reg["sp"])
  BY KernelSpFacts DEF IInv, Types, InHandler, InReturn
<1>2. ASSUME NEW n \in Values
      PROVE  /\ OnUserStack(UserSp(n + 1)) /\ OnUserStack(UserSp(n + 2))
             /\ Up(UserSp(n + 1)) = UserSp(n) /\ Up(UserSp(n + 2)) = UserSp(n + 1)
  BY UserSpFacts DEF Values
<1> QED
  BY <1>1, <1>2 DEF UserSpOf

(* The registers of each task.                                             *)
LEMMA Views ==
  ASSUME IInv, NEW t \in Slots
  PROVE  /\ t \notin Begun =>
              Registers(t) = [r \in Kept |-> Zero] /\ InstructionOf(t) = "here"
         /\ t \in Begun /\ ~ InUser(t) =>
              /\ Registers(t) = KernelRegs(UserSpOf(t), UserFrame(t))
              /\ InstructionOf(t) = KernelIp(UserFrame(t))
         /\ t \in Begun /\ InUser(t) =>
              /\ Registers(t) = [r \in Kept |-> cpu.reg[r]]
              /\ InstructionOf(t) = IF cpu.pc = Behind(Text) THEN "behind" ELSE "here"
BY DEF Registers, InstructionOf, KernelRegs, KernelIp, InUser, UserSpOf, UserFrame

LEMMA RegisterTypes ==
  ASSUME IInv, NEW t \in Slots
  PROVE  Registers(t) \in [Kept -> Words]
<1>1. CASE t \notin Begun
  BY <1>1, Views DEF Words
<1>2. CASE t \in Begun /\ InUser(t)
  <2>1. InUserCode
    BY <1>2, Phases DEF InUser, Running
  <2>2. \A r \in Kept : cpu.reg[r] \in Words
    BY <2>1, UserSpsFacts DEF InUserCode, UserWords
  <2> QED
    BY <1>2, <2>2, Views
<1>3. CASE t \in Begun /\ ~ InUser(t)
  <2>1. Running /\ current # Idle
    BY <1>3, Phases
  <2>2. UserSpOf(t) \in UserSps /\ UserWords(UserFrame(t).reg)
    <3>1. CASE t # current
      BY <1>3, <2>1, <3>1, SpPlaces, Phases
         DEF IInv, Suspended, HandlerFrameOK, UserFrameOK, UserFrame
    <3>2. CASE t = current
      <4>1. InHandler \/ InReturn \/ InNested
        BY <1>3, <2>1, <3>2, Phases DEF InUser, Running
      <4>2. CASE InHandler \/ InReturn
        BY <3>2, <4>2, SpPlaces DEF InHandler, InReturn, HandlerFrameOK, UserFrameOK, UserFrame
      <4>3. CASE InNested
        <5>1. __ret_from_fork \notin {Label("trap_handler"), Label("halt")}
          BY LabelFacts DEF __ret_from_fork
        <5>2. UserSpOf(current) \in UserSps
          BY <4>3, <5>1, SpPlaces DEF InNested, UserSps
        <5> QED
          BY <3>2, <4>3, <5>2 DEF InNested, HandlerFrameOK, UserFrameOK, UserFrame
      <4> QED
        BY <4>1, <4>2, <4>3
    <3> QED
      BY <3>1, <3>2
  <2>3. \A r \in Kept \ {"sp"} : UserFrame(t).reg[r] \in Words
    BY <2>2 DEF UserWords
  <2>4. UserSpOf(t) \in Words
    BY <2>2, UserSpsFacts
  <2>5. KernelRegs(UserSpOf(t), UserFrame(t)) \in [Kept -> Words]
    BY <2>3, <2>4 DEF KernelRegs
  <2> QED
    BY <1>3, <2>5, Views
<1> QED
  BY <1>1, <1>2, <1>3

-----------------------------------------------------------------------------
(* Before and after a step.                                                *)

Mapped ==
  /\ InBoot \/ InDummy \/ Running
  /\ InBoot \/ InDummy => Begun = {} /\ cpu.mode = "S"
  /\ Running => Begun = live \ {Idle} /\ current \in Begun /\ Begun \subseteq Slots
  /\ \A t \in Slots : Registers(t) \in [Kept -> Words]

LEMMA MappedNow == IInv => Mapped
BY Phases, RegisterTypes DEF Mapped

LEMMA MappedThen == IInv' => Mapped'
BY MappedNow, PTL

Stays(t) == Registers(t)' = Registers(t) /\ InstructionOf(t)' = InstructionOf(t)

(* A task that is in the kernel before and after a step.                   *)
LEMMA StaysInKernel ==
  ASSUME NEW t, t \in Begun' <=> t \in Begun, ~ InUser(t), ~ InUser(t)',
         UserSpOf(t)' = UserSpOf(t), UserFrame(t)' = UserFrame(t)
  PROVE  Stays(t)
BY DEF Stays, Registers, InstructionOf, InUser, UserSpOf, UserFrame

(* A task that is not there, before or after.                              *)
LEMMA StaysAway ==
  ASSUME NEW t, t \notin Begun, t \notin Begun' PROVE Stays(t)
BY DEF Stays, Registers, InstructionOf, InUser, UserSpOf, UserFrame

LEMMA Stutters ==
  ASSUME Begun' = Begun, cpu.mode = "S", cpu'.mode = "S", \A t \in Slots : Stays(t)
  PROVE  UNCHANGED Abstract!regvars
BY DEF Abstract!regvars, Stays

-----------------------------------------------------------------------------
(* Steps that user code does not notice.                                   *)

LEMMA BootStutters ==
  ASSUME IInv, IInv', Begun = {}, Begun' = {} PROVE UNCHANGED Abstract!regvars
<1>1. cpu.mode = "S" /\ cpu'.mode = "S"
  BY MappedNow, MappedThen DEF Mapped
<1>2. \A t \in Slots : Stays(t)
  BY StaysAway
<1> QED
  BY <1>1, <1>2, Stutters

LEMMA BootSteps ==
  ASSUME IInv, IInv', StartSchedule \/ BootTimer \/ \E t \in Slots : TimerSwitch(t) /\ InBoot
  PROVE  UNCHANGED Abstract!regvars
<1>1. InBoot /\ Begun = {}
  BY Where, Phases DEF IInv, StartSchedule, BootTimer
<1>2. CASE BootTimer
  <2>1. Begun' = {}
    BY <1>1, <1>2 DEF BootTimer, Trap, InBoot, Begun
  <2> QED
    BY <1>1, <2>1, BootStutters
<1>3. CASE StartSchedule \/ \E t \in Slots : TimerSwitch(t)
  <2>1. SwitchTo(First, thread)
    BY <1>1, <1>3 DEF StartSchedule, TimerSwitch, InBoot
  <2>2. cpu'.pc = __dummy
    <3>1. [thread EXCEPT ![current] = Saved(cpu)][First] = FirstThread
      BY <1>1, SlotFacts DEF IInv, Types, InBoot
    <3>2. cpu' = Loaded(FirstThread)
      BY <2>1, <3>1 DEF SwitchTo
    <3>3. cpu \in Cpus /\ FirstThread.ra = __dummy
      BY DEF IInv, Types, FirstThread
    <3> QED
      BY <3>2, <3>3 DEF Loaded, Cpus
  <2>3. Begun' = {}
    BY <2>2 DEF Begun
  <2> QED
    BY <1>1, <2>3, BootStutters
<1> QED
  BY <1>2, <1>3

(* A handler on the kernel stack goes on there.                            *)
LEMMA HandlerStutters ==
  ASSUME IInv, IInv', InHandler, UNCHANGED <<thread, live, current>>,
         cpu'.mode = "S", cpu'.pc # __dummy, cpu'.sscratch = cpu.sscratch,
         ~ OnUserStack(cpu'.reg["sp"]),
         \A t \in Slots : UserFrame(t)' = UserFrame(t)
  PROVE  UNCHANGED Abstract!regvars
<1>1. /\ cpu.mode = "S" /\ current # Idle /\ Begun = live \ {Idle} /\ current \in Slots
      /\ ~ OnUserStack(cpu.reg["sp"])
  BY Phases, KernelSpFacts DEF IInv, Types, InHandler, Running
<1>2. Begun' = Begun
  BY <1>1 DEF Begun
<1>3. ASSUME NEW t \in Slots PROVE Stays(t)
  <2>1. ~ InUser(t) /\ ~ InUser(t)'
    BY <1>1 DEF InUser
  <2>2. UserSpOf(t)' = UserSpOf(t)
    BY <1>1 DEF UserSpOf
  <2> QED
    BY <1>2, <2>1, <2>2, StaysInKernel
<1> QED
  BY <1>1, <1>2, <1>3, Stutters

LEMMA WriteStutters ==
  ASSUME IInv, IInv', Write \/ (Halt /\ InHandler) PROVE UNCHANGED Abstract!regvars
<1>1. InHandler /\ UNCHANGED <<stack, thread, live, current>>
  BY InKernel DEF Write, Halt
<1>2. /\ cpu'.pc \in {Label("sys_write"), Label("halt")} /\ cpu'.mode = "S"
      /\ cpu'.sscratch = cpu.sscratch /\ cpu'.reg["sp"] = cpu.reg["sp"]
  <2>1. cpu \in Cpus /\ cpu.mode = "S"
    BY <1>1 DEF IInv, Types, InHandler
  <2>2. CASE Halt
    BY <2>1, <2>2 DEF Halt, Cpus
  <2>3. CASE Write
    <3> DEFINE regs == [r \in Regs |-> IF r = "sp" THEN cpu.reg["sp"] ELSE Live(r, current)]
    <3>1. cpu' = [cpu EXCEPT !.pc = Label("sys_write"), !.reg = regs]
      BY <2>3 DEF Write
    <3>2. regs["sp"] = cpu.reg["sp"]
      BY DEF Regs
    <3> HIDE DEF regs
    <3> QED
      BY <2>1, <3>1, <3>2 DEF Cpus
  <2> QED
    BY <2>2, <2>3
<1>3. ~ OnUserStack(cpu'.reg["sp"]) /\ cpu'.pc # __dummy
  BY <1>1, <1>2, KernelSpFacts, LabelFacts DEF IInv, Types, InHandler, __dummy
<1>4. \A t \in Slots : UserFrame(t)' = UserFrame(t)
  BY <1>1 DEF UserFrame
<1> QED
  BY <1>1, <1>2, <1>3, <1>4, HandlerStutters

(* What a handler that returns leaves to user code.                        *)
LEMMA ReturnView ==
  ASSUME IInv, IInv', InHandler, NEW f, HandlerReturns(f)
  PROVE  /\ Begun' = Begun /\ current' = current /\ current \in Begun /\ current \in Slots
         /\ cpu.mode = "S" /\ cpu'.mode = "S"
         /\ \A t \in Slots \ {current} : Stays(t)
         /\ Registers(current) = KernelRegs(cpu.sscratch, TrapFrame)
         /\ InstructionOf(current) = KernelIp(TrapFrame)
         /\ Registers(current)' = KernelRegs(cpu.sscratch, f)
         /\ InstructionOf(current)' = KernelIp(f)
<1>1. /\ cpu.mode = "S" /\ current # Idle /\ Begun = live \ {Idle} /\ current \in Begun
      /\ current \in Slots /\ ~ OnUserStack(cpu.reg["sp"])
  BY Phases, KernelSpFacts DEF IInv, Types, InHandler, Running
<1>2. /\ UNCHANGED <<thread, live, current>> /\ cpu'.mode = "S" /\ cpu'.pc = __ret_from_fork
      /\ cpu'.sscratch = cpu.sscratch /\ ~ OnUserStack(cpu'.reg["sp"])
      /\ stack'[KernelSp(current, 1)] = f
      /\ \A t \in Slots \ {current} : stack'[KernelSp(t, 1)] = stack[KernelSp(t, 1)]
  BY <1>1, KernelReturns, KernelSpFacts
<1>3. Begun' = Begun
  BY <1>1, <1>2, LabelFacts DEF Begun, __ret_from_fork, __dummy
<1>4. ASSUME NEW t \in Slots \ {current} PROVE Stays(t)
  <2>1. ~ InUser(t) /\ ~ InUser(t)'
    BY <1>1, <1>2 DEF InUser
  <2>2. UserSpOf(t)' = UserSpOf(t) /\ UserFrame(t)' = UserFrame(t)
    BY <1>2 DEF UserSpOf, UserFrame
  <2> QED
    BY <1>3, <2>1, <2>2, StaysInKernel
<1>5. PICK t \in Slots : t = current /\ t \in Begun
  BY <1>1
<1>6. TrapFrame = stack[KernelSp(t, 1)]
  BY <1>5 DEF InHandler, HandlerFrameOK, CFrame, TrapFrame
<1>7. /\ Registers(t) = KernelRegs(cpu.sscratch, TrapFrame)
      /\ InstructionOf(t) = KernelIp(TrapFrame)
  BY <1>1, <1>5, <1>6
     DEF Registers, InstructionOf, InUser, UserSpOf, UserFrame, KernelRegs, KernelIp
<1>8. /\ Registers(t)' = KernelRegs(cpu.sscratch, f)
      /\ InstructionOf(t)' = KernelIp(f)
  BY <1>1, <1>2, <1>3, <1>5
     DEF Registers, InstructionOf, InUser, UserSpOf, UserFrame, KernelRegs, KernelIp
<1>9. /\ Registers(current)' = KernelRegs(cpu.sscratch, f)
      /\ InstructionOf(current)' = KernelIp(f)
  BY <1>2, <1>5, <1>8
<1> QED
  BY <1>1, <1>2, <1>3, <1>4, <1>5, <1>7, <1>9

LEMMA UnnoticedReturn ==
  ASSUME IInv, IInv', InHandler, HandlerReturns(TrapFrame)
  PROVE  UNCHANGED Abstract!regvars
<1>1. PICK f : f = TrapFrame
  OBVIOUS
<1>2. HandlerReturns(f)
  BY <1>1
<1>3. \A t \in Slots : Stays(t)
  BY <1>1, <1>2, ReturnView DEF Stays
<1> QED
  BY <1>2, <1>3, ReturnView, Stutters

(* An answered call.                                                       *)
LEMMA AnswerStep ==
  ASSUME IInv, IInv', InHandler, CFrame.cause \in UserCalls,
         NEW f, HandlerReturns(f),
         \A r \in Kept \ {"sp", "a0"} : f.reg[r] = TrapFrame.reg[r],
         f.sepc = Behind(Text)
  PROVE  Abstract!Answer(current)
<1>1. /\ current \in Slots /\ Begun' = Begun /\ current' = current /\ current \in Begun
      /\ cpu.mode = "S" /\ cpu'.mode = "S"
      /\ \A t \in Slots \ {current} : Stays(t)
  BY ReturnView
<1>2. TrapFrame.sepc # Behind(Text)
  BY TrapFrameFacts, LabelFacts
<1>3. InstructionOf(current) = "here" /\ InstructionOf(current)' = "behind"
  BY <1>2, ReturnView DEF KernelIp
<1>4. Registers(current)' \in [Kept -> Words]
  BY <1>1, MappedThen DEF Mapped
<1>5. Registers(current)' = [Registers(current) EXCEPT !["a0"] = Registers(current)'["a0"]]
  <2> DEFINE before == KernelRegs(cpu.sscratch, TrapFrame)
             after  == KernelRegs(cpu.sscratch, f)
  <2>1. \A r \in Kept \ {"a0"} : after[r] = before[r]
    BY DEF KernelRegs
  <2>2. DOMAIN after = Kept /\ DOMAIN before = Kept /\ after = [r \in Kept |-> after[r]]
        /\ before = [r \in Kept |-> before[r]]
    BY DEF KernelRegs
  <2> HIDE DEF before, after
  <2>3. after = [before EXCEPT !["a0"] = after["a0"]]
    BY <2>1, <2>2
  <2> QED
    BY <2>3, ReturnView DEF before, after
<1>6. [t \in Slots |-> Registers(t)]' =
        [[t \in Slots |-> Registers(t)] EXCEPT ![current] = Registers(current)']
  BY <1>1 DEF Stays
<1>7. [t \in Slots |-> InstructionOf(t)]' =
        [[t \in Slots |-> InstructionOf(t)] EXCEPT ![current] = "behind"]
  BY <1>1, <1>3 DEF Stays
<1> QED
  BY <1>1, <1>3, <1>4, <1>5, <1>6, <1>7 DEF Abstract!Answer, Abstract!Becomes, Abstract!Answered

(* The handlers that return to user code.                                  *)
LEMMA ReturnSteps ==
  ASSUME IInv, IInv', InHandler,
         Fault \/ TimerStay \/ Ignored \/ Getpid \/ UnknownCall \/ WriteEnd \/ Switched
  PROVE  UNCHANGED Abstract!regvars \/ Abstract!Answer(current)
<1>1. CASE HandlerReturns(TrapFrame)
  BY <1>1, UnnoticedReturn
<1>2. ASSUME NEW v \in Word, v \in Words, HandlerReturns(Answer(v)), CFrame.cause \in UserCalls
      PROVE  Abstract!Answer(current)
  <2>1. PICK f \in TrapFrames :
          f = Answer(v) /\ f.reg = [TrapFrame.reg EXCEPT !["a0"] = v] /\ f.sepc = Behind(Text)
    BY <1>2, AnswerFacts
  <2>2. \A r \in Kept \ {"sp", "a0"} : f.reg[r] = TrapFrame.reg[r]
    BY <2>1, TrapFrameFacts DEF TrapFrames, RegFile, Kept
  <2> QED
    BY <1>2, <2>1, <2>2, AnswerStep
<1>3. CASE UnknownCall
  <2>1. HandlerReturns([TrapFrame EXCEPT !.sepc = Behind(@)]) /\ CFrame.cause \in UserCalls
    BY <1>3 DEF UnknownCall, Handling, UserCalls
  <2>2. PICK f : /\ f = [TrapFrame EXCEPT !.sepc = Behind(@)]
                 /\ f.reg = TrapFrame.reg /\ f.sepc = Behind(Text)
    BY SkipFacts
  <2> QED
    BY <2>1, <2>2, AnswerStep
<1>4. CASE Getpid \/ WriteEnd \/ Switched
  <2>1. CFrame.cause \in UserCalls \/ HandlerReturns(TrapFrame)
    <3>1. CASE WriteEnd
      BY <3>1 DEF WriteEnd, InHandler, UserCalls, KernelCalls
    <3> QED
      BY <1>4, <3>1 DEF Getpid, Switched, Handling, UserCalls, KernelCalls
  <2>2. /\ Pid(current) \in Word /\ Pid(current) \in Words
        /\ Count \in Word /\ Count \in Words
    BY WordFacts DEF IInv, Types, Words
  <2>3. \/ HandlerReturns(Answer(Pid(current))) \/ HandlerReturns(Answer(Count))
        \/ HandlerReturns(TrapFrame)
    BY <1>4 DEF Getpid, WriteEnd, Switched
  <2> QED
    BY <1>1, <1>2, <2>1, <2>2, <2>3
<1>5. CASE Fault \/ TimerStay \/ Ignored
  BY <1>1, <1>5 DEF Fault, TimerStay, Ignored
<1> QED
  BY <1>3, <1>4, <1>5

-----------------------------------------------------------------------------
(* A fault inside sys_write, from the trap to the return: user code's sp   *)
(* is found next to its frame.                                             *)

NestedSp ==
  \A n \in Values :
    \/ cpu.reg["sp"] = UserSp(n + 1) /\ cpu.pc = __ret_from_fork
    \/ cpu.reg["sp"] = UserSp(n + 2) /\ cpu.pc # __ret_from_fork
    => UserSpOf(current) = UserSp(n)

LEMMA NestedSpNow == IInv => NestedSp
BY SpPlaces DEF NestedSp

LEMMA NestedSpThen == IInv' => NestedSp'
BY NestedSpNow, PTL

LEMMA KernelStutters ==
  ASSUME UNCHANGED <<thread, live, current>>, current # Idle,
         cpu.mode = "S", cpu'.mode = "S", cpu.pc # __dummy, cpu'.pc # __dummy,
         UserSpOf(current)' = UserSpOf(current),
         \A t \in Slots : stack'[KernelSp(t, 1)] = stack[KernelSp(t, 1)]
  PROVE  UNCHANGED Abstract!regvars
<1>1. Begun' = Begun
  BY DEF Begun
<1>2. ASSUME NEW t \in Slots PROVE Stays(t)
  <2>1. ~ InUser(t) /\ ~ InUser(t)' /\ UserFrame(t)' = UserFrame(t)
    BY DEF InUser, UserFrame
  <2>2. CASE t = current
    <3>1. UserSpOf(t)' = UserSpOf(t)
      BY <2>2
    <3> QED
      BY <1>1, <2>1, <3>1, StaysInKernel
  <2>3. CASE t # current
    <3>1. UserSpOf(t)' = UserSpOf(t)
      BY <2>3 DEF UserSpOf
    <3> QED
      BY <1>1, <2>1, <3>1, StaysInKernel
  <2> QED
    BY <2>2, <2>3
<1> QED
  BY <1>1, <1>2, Stutters

LEMMA NestedSteps ==
  ASSUME IInv, IInv', WriteFault \/ ((Fault \/ Halt \/ Ret) /\ InNested)
  PROVE  UNCHANGED Abstract!regvars
<1>1. /\ NestedSp /\ NestedSp' /\ current \in Slots
      /\ __dummy \notin UserLabels \cup {__ret_from_fork} /\ __ret_from_fork \notin UserLabels
  BY NestedSpNow, NestedSpThen, LabelFacts DEF IInv, Types, UserLabels, __dummy, __ret_from_fork
<1>2. CASE WriteFault
  <2>1. InHandler /\ cpu.mode = "S" /\ current # Idle /\ UNCHANGED <<thread, live, current>>
        /\ cpu.pc \in UserLabels
    BY <1>2, WriteFaultPushes DEF InHandler
  <2>2. PICK n \in Values, cause \in Traps :
          /\ cpu.sscratch = UserSp(n) /\ Pushed(cause, UserSp(n + 1), UserSp(n + 2))
    BY <1>2, WriteFaultPushes
  <2>3. /\ cpu'.mode = "S" /\ cpu'.pc = Label("trap_handler")
        /\ cpu'.reg["sp"] = UserSp(n + 2)
        /\ \A a \in Places \ {UserSp(n + 1), UserSp(n + 2)} : stack'[a] = stack[a]
    BY <2>2 DEF Pushed
  <2>4. \A t \in Slots : stack'[KernelSp(t, 1)] = stack[KernelSp(t, 1)]
    BY <2>3, KernelSpFacts
  <2>5. UserSpOf(current)' = UserSp(n)
    BY <1>1, <2>3 DEF NestedSp, UserLabels
  <2>6. UserSpOf(current) = UserSp(n)
    BY <2>1, <2>2, SpPlaces
  <2> QED
    BY <1>1, <2>1, <2>3, <2>4, <2>5, <2>6, KernelStutters DEF UserLabels
<1>3. CASE InNested /\ Fault
  <2>1. /\ cpu.mode = "S" /\ current # Idle /\ HandlerReturns(TrapFrame)
        /\ cpu.pc = Label("trap_handler")
    BY <1>3 DEF InNested, Fault, Handling
  <2>2. /\ cpu'.pc = __ret_from_fork /\ cpu'.mode = cpu.mode
        /\ UNCHANGED <<thread, live, current>>
        /\ \A t \in Slots : stack'[KernelSp(t, 1)] = stack[KernelSp(t, 1)]
    BY <1>3, <2>1, NestedReturns
  <2>3. PICK n \in Values : cpu.reg["sp"] = UserSp(n + 2) /\ cpu'.reg["sp"] = UserSp(n + 1)
    BY <1>3, <2>1, NestedReturns
  <2>4. UserSpOf(current) = UserSp(n) /\ UserSpOf(current)' = UserSp(n)
    BY <1>1, <2>1, <2>2, <2>3 DEF NestedSp, UserLabels
  <2> QED
    BY <1>1, <2>1, <2>2, <2>4, KernelStutters DEF UserLabels
<1>4. CASE InNested /\ Halt
  <2>1. /\ cpu.mode = "S" /\ current # Idle /\ cpu.pc = Label("trap_handler") /\ cpu \in Cpus
        /\ cpu' = [cpu EXCEPT !.pc = Label("halt")] /\ UNCHANGED <<stack, thread, live, current>>
    BY <1>4 DEF InNested, Halt, Handling, IInv, Types
  <2>2. cpu'.reg = cpu.reg /\ cpu'.pc = Label("halt") /\ cpu'.mode = "S"
    BY <2>1 DEF Cpus
  <2>3. PICK n \in Values : cpu.reg["sp"] = UserSp(n + 2)
    BY <1>1, <1>4, <2>1 DEF InNested, UserLabels
  <2>4. UserSpOf(current) = UserSp(n) /\ UserSpOf(current)' = UserSp(n)
    BY <1>1, <2>1, <2>2, <2>3 DEF NestedSp, UserLabels
  <2> QED
    BY <1>1, <2>1, <2>2, <2>4, KernelStutters DEF UserLabels
<1>5. CASE InNested /\ Ret
  <2>1. /\ cpu.mode = "S" /\ current # Idle /\ cpu.pc = __ret_from_fork
        /\ UNCHANGED <<thread, live, current>>
        /\ stack = [a \in Places |-> stack[a]]
        /\ stack' = [stack EXCEPT ![cpu.reg["sp"]] = Free]
    BY <1>5 DEF InNested, Ret, IInv, Types
  <2>2. PICK n \in Values :
          /\ cpu.reg["sp"] = UserSp(n + 1) /\ cpu'.sscratch = UserSp(n)
          /\ cpu'.pc = Label("sys_write") /\ cpu'.mode = "S"
          /\ cpu'.reg["sp"] = KernelSp(current, 2)
    BY <1>5, ReturnsToHandler
  <2>3. \A t \in Slots : stack'[KernelSp(t, 1)] = stack[KernelSp(t, 1)]
    <3>1. \A t \in Slots : KernelSp(t, 1) \in Places /\ KernelSp(t, 1) # UserSp(n + 1)
      BY KernelSpFacts
    <3> QED
      BY <2>1, <2>2, <3>1
  <2>4. ~ OnUserStack(cpu'.reg["sp"])
    BY <1>1, <2>2, KernelSpFacts
  <2>5. UserSpOf(current) = UserSp(n)
    BY <1>1, <2>1, <2>2 DEF NestedSp
  <2>6. UserSpOf(current)' = UserSp(n)
    BY <2>1, <2>2, <2>4 DEF UserSpOf
  <2> QED
    BY <1>1, <2>1, <2>2, <2>3, <2>5, <2>6, KernelStutters DEF UserLabels
<1> QED
  BY <1>2, <1>3, <1>4, <1>5

-----------------------------------------------------------------------------
(* Switches and forks.                                                     *)

(* Before and after a switch a task's sp is in the sscratch of its thread. *)
LEMMA SwitchedSp ==
  ASSUME IInv, InHandler, NEW t \in Slots, t # Idle, current' = t,
         cpu'.sscratch = thread'[t].sscratch, cpu'.reg["sp"] = thread'[t].sp,
         thread'[t].sp \in {KernelSp(t, 1), KernelSp(t, 2)},
         thread'[current] = Saved(cpu),
         NEW u \in Slots, u # current => thread'[u] = thread[u]
  PROVE  UserSpOf(u) = thread'[u].sscratch /\ UserSpOf(u)' = thread'[u].sscratch
<1>1. ~ OnUserStack(cpu'.reg["sp"]) /\ ~ OnUserStack(cpu.reg["sp"])
  BY KernelSpFacts DEF InHandler, IInv, Types
<1>2. UserSpOf(u)' = thread'[u].sscratch
  BY <1>1 DEF UserSpOf
<1>3. UserSpOf(u) = thread'[u].sscratch
  BY <1>1 DEF UserSpOf, Saved
<1> QED
  BY <1>2, <1>3

LEMMA TimerSwitchStutters ==
  ASSUME IInv, IInv', InHandler, NEW t \in Slots, TimerSwitch(t)
  PROVE  UNCHANGED Abstract!regvars
<1>1. /\ t \in live \ {Idle} /\ t # Idle /\ UNCHANGED <<stack, live>> /\ current' = t
      /\ thread'[current] = Saved(cpu)
      /\ \A u \in Slots : u # current => thread'[u] = thread[u]
      /\ cpu'.pc = thread'[t].ra /\ cpu'.sscratch = thread'[t].sscratch
      /\ cpu'.reg["sp"] = thread'[t].sp /\ cpu'.mode = cpu.mode
  BY TimerSwitches
<1>2. /\ current # Idle /\ current \in Slots /\ Begun = live \ {Idle} /\ cpu.mode = "S"
      /\ Begun \subseteq Slots
  BY Phases DEF Running, IInv, Types
<1>3. /\ thread'[t].sp \in {KernelSp(t, 1), KernelSp(t, 2)}
      /\ thread'[t].ra \in {Label("switch_to"), __ret_from_fork}
  BY <1>1, <1>2, SavedFacts DEF IInv, Suspended
<1>4. Begun' = Begun
  BY <1>1, <1>2, <1>3, LabelFacts DEF Begun, __dummy, __ret_from_fork
<1>5. ASSUME NEW u \in Slots PROVE Stays(u)
  <2>1. UserSpOf(u)' = UserSpOf(u)
    BY <1>1, <1>3, SwitchedSp
  <2>2. ~ InUser(u) /\ ~ InUser(u)' /\ UserFrame(u)' = UserFrame(u)
    BY <1>1, <1>2 DEF InUser, UserFrame
  <2> QED
    BY <1>4, <2>1, <2>2, StaysInKernel
<1> QED
  BY <1>1, <1>2, <1>4, <1>5, Stutters

LEMMA ForkStep ==
  ASSUME IInv, IInv', NEW c \in Slots, Forked(c)
  PROVE  Abstract!Clone(current, c)
<1>1. /\ InHandler /\ c \notin live /\ c # Idle /\ c # current
      /\ current' = c /\ live' = live \cup {c}
      /\ thread'[current] = Saved(cpu) /\ thread'[c] = ChildThread(KernelSp(c, 1))
      /\ \A u \in Slots \ {current, c} : thread'[u] = thread[u]
      /\ cpu'.pc = thread'[c].ra /\ cpu'.sscratch = thread'[c].sscratch
      /\ cpu'.reg["sp"] = thread'[c].sp /\ cpu'.mode = cpu.mode
      /\ stack'[KernelSp(c, 1)] = ChildFrame(KernelSp(c, 1))
      /\ \A t \in Slots \ {c} : stack'[KernelSp(t, 1)] = stack[KernelSp(t, 1)]
  BY ForkFacts DEF Forked
<1>2. /\ current # Idle /\ current \in Slots /\ Begun = live \ {Idle} /\ current \in Begun
      /\ cpu.mode = "S" /\ Begun \subseteq Slots
  BY <1>1, Phases DEF Running, IInv, Types
<1>3. /\ thread'[c].ra = __ret_from_fork /\ thread'[c].sp = KernelSp(c, 1)
      /\ thread'[c].sscratch = cpu.sscratch
  <2>1. KernelSp(c, 1) \in Word /\ thread[current] \in Threads
    BY <1>2, KernelSpFacts DEF IInv, Types
  <2>2. ChildThread(KernelSp(c, 1)).sscratch = cpu["sscratch"] /\ cpu["sscratch"] = cpu.sscratch
    BY <2>1 DEF ChildThread, read_csr, Threads
  <2> QED
    BY <1>1, <2>1, <2>2, ChildThreadFacts
<1>4. Begun' = Begun \cup {c}
  BY <1>1, <1>2, <1>3, LabelFacts DEF Begun, __dummy, __ret_from_fork
<1>5. ASSUME NEW u \in Slots \ {c} PROVE Stays(u)
  <2>1. UserSpOf(u)' = UserSpOf(u)
    BY <1>1, <1>3, SwitchedSp
  <2>2. ~ InUser(u) /\ ~ InUser(u)' /\ UserFrame(u)' = UserFrame(u)
    BY <1>1, <1>2 DEF InUser, UserFrame
  <2> QED
    BY <1>4, <2>1, <2>2, StaysInKernel
<1>6. TrapFrame = stack[KernelSp(current, 1)] /\ ~ OnUserStack(cpu.reg["sp"])
  BY <1>1, <1>2, KernelSpFacts DEF InHandler, HandlerFrameOK, CFrame, TrapFrame
<1>7. Registers(current) = KernelRegs(cpu.sscratch, TrapFrame)
  BY <1>2, <1>6 DEF Registers, InUser, UserSpOf, UserFrame, KernelRegs
<1>8. PICK f : /\ f = ChildFrame(KernelSp(c, 1)) /\ f.sepc = Behind(Text)
               /\ f.reg["a0"] = Zero
               /\ \A r \in Kept \ {"sp", "a0"} : f.reg[r] = TrapFrame.reg[r]
  <2>1. KernelSp(c, 1) \in Word
    BY KernelSpFacts
  <2>2. PICK f : /\ f = ChildFrame(KernelSp(c, 1)) /\ f.sepc = Behind(Text)
                 /\ f.reg = [TrapFrame.reg EXCEPT !["a0"] = Zero, !["sp"] = KernelSp(c, 1)]
    BY <1>1, <2>1, ChildFrameFacts
  <2>3. TrapFrame.reg \in RegFile
    BY <1>1, TrapFrameFacts DEF TrapFrames
  <2>4. f.reg["a0"] = Zero /\ \A r \in Kept \ {"sp", "a0"} : f.reg[r] = TrapFrame.reg[r]
    BY <2>2, <2>3 DEF RegFile, Kept, Regs
  <2> QED
    BY <2>2, <2>4
<1>9. /\ Registers(c)' = KernelRegs(cpu.sscratch, f)
      /\ InstructionOf(c)' = "behind"
  <2>1. ~ OnUserStack(cpu'.reg["sp"])
    BY <1>1, <1>3, KernelSpFacts
  <2> QED
    BY <1>1, <1>2, <1>3, <1>4, <1>8, <2>1
       DEF Registers, InstructionOf, InUser, UserSpOf, UserFrame, KernelRegs
<1>10. KernelRegs(cpu.sscratch, f) = [KernelRegs(cpu.sscratch, TrapFrame) EXCEPT !["a0"] = Zero]
  <2> DEFINE before == KernelRegs(cpu.sscratch, TrapFrame)
             after  == KernelRegs(cpu.sscratch, f)
  <2>1. after["a0"] = Zero /\ \A r \in Kept \ {"a0"} : after[r] = before[r]
    BY <1>8 DEF KernelRegs, Kept, Regs
  <2>2. after = [r \in Kept |-> after[r]] /\ before = [r \in Kept |-> before[r]]
    BY DEF KernelRegs
  <2> HIDE DEF before, after
  <2>3. after = [before EXCEPT !["a0"] = Zero]
    BY <2>1, <2>2
  <2> QED
    BY <2>3 DEF before, after
<1>11. Registers(c)' = [Registers(current) EXCEPT !["a0"] = Zero]
  BY <1>7, <1>9, <1>10
<1>12. [Registers(current) EXCEPT !["a0"] = Zero] \in [Kept -> Words]
  <2>1. Registers(c)' \in [Kept -> Words]
    BY MappedThen DEF Mapped
  <2> QED
    BY <1>11, <2>1
<1>13. [t \in Slots |-> Registers(t)]' =
         [[t \in Slots |-> Registers(t)] EXCEPT ![c] = [Registers(current) EXCEPT !["a0"] = Zero]]
  BY <1>5, <1>11 DEF Stays
<1>14. [t \in Slots |-> InstructionOf(t)]' =
         [[t \in Slots |-> InstructionOf(t)] EXCEPT ![c] = "behind"]
  BY <1>5, <1>9 DEF Stays
<1> QED
  BY <1>1, <1>2, <1>4, <1>12, <1>13, <1>14
     DEF Abstract!Clone, Abstract!Becomes, Abstract!Answered

-----------------------------------------------------------------------------
(* User code, the way in and the way out.                                  *)

(* The registers of the task in user code, before or after a step.         *)
LEMMA UserView ==
  ASSUME NEW t \in Slots, t = current, t \in Begun, cpu.mode = "U"
  PROVE  /\ Registers(t) = [r \in Kept |-> cpu.reg[r]]
         /\ InstructionOf(t) = IF cpu.pc = Behind(Text) THEN "behind" ELSE "here"
BY DEF Registers, InstructionOf, InUser, UserSpOf, UserFrame

(* The others do not notice.                                               *)
LEMMA OthersStay ==
  ASSUME UNCHANGED <<thread, current>>, NEW t \in Slots \ {current}, t \in Begun' <=> t \in Begun,
         stack'[KernelSp(t, 1)] = stack[KernelSp(t, 1)]
  PROVE  Stays(t)
<1>1. ~ InUser(t) /\ ~ InUser(t)' /\ UserFrame(t)' = UserFrame(t)
  BY DEF InUser, UserFrame
<1>2. UserSpOf(t)' = UserSpOf(t)
  BY DEF UserSpOf
<1> QED
  BY <1>1, <1>2, StaysInKernel

LEMMA UserTrapStep ==
  ASSUME IInv, IInv', NEW cause \in Traps, UserTrap(cause)
  PROVE  Abstract!Leave
<1>1. /\ InUserCode /\ UNCHANGED <<thread, live, current>>
      /\ Pushed(cause, KernelSp(current, 1), KernelSp(current, 2))
  BY UserTrapPushes
<1>2. /\ current # Idle /\ current \in Slots /\ Begun = live \ {Idle} /\ current \in Begun
      /\ cpu.mode = "U" /\ cpu.sscratch # Zero /\ cpu.sscratch = KernelSp(current, 0)
  BY <1>1, Phases, KernelSpFacts DEF Running, IInv, Types, InUserCode
<1>3. /\ cpu'.mode = "S" /\ cpu'.pc = Label("trap_handler")
      /\ cpu'.sscratch = cpu.reg["sp"] /\ ~ OnUserStack(cpu'.reg["sp"])
  BY <1>1, <1>2, KernelSpFacts DEF Pushed
<1>4. Begun' = Begun
  BY <1>1, <1>2, <1>3, LabelFacts DEF Begun, __dummy
<1>5. \A t \in Slots \ {current} : Stays(t)
  <2>1. \A t \in Slots \ {current} : stack'[KernelSp(t, 1)] = stack[KernelSp(t, 1)]
    BY <1>1, <1>2, OtherPlaces DEF Pushed
  <2> QED
    BY <1>1, <1>4, <2>1, OthersStay
<1>6. PICK t \in Slots : t = current
  BY <1>2
<1>7. /\ Registers(t) = [r \in Kept |-> cpu.reg[r]]
      /\ InstructionOf(t) = IF cpu.pc = Behind(Text) THEN "behind" ELSE "here"
  BY <1>2, <1>6, UserView
<1>8. /\ stack'[KernelSp(t, 1)].sepc = cpu.pc
      /\ \A r \in Kept \ {"sp"} : stack'[KernelSp(t, 1)].reg[r] = cpu.reg[r]
  BY <1>1, <1>6 DEF Pushed, Kept
<1>9. Stays(t)
  <2>1. Registers(t)' = [r \in Kept |-> cpu.reg[r]]
    BY <1>1, <1>2, <1>3, <1>4, <1>6, <1>8
       DEF Registers, InUser, UserSpOf, UserFrame
  <2>2. InstructionOf(t)' = IF cpu.pc = Behind(Text) THEN "behind" ELSE "here"
    BY <1>1, <1>2, <1>3, <1>4, <1>6, <1>8 DEF InstructionOf, InUser, UserFrame
  <2> QED
    BY <1>7, <2>1, <2>2 DEF Stays
<1>10. \A u \in Slots : Stays(u)
  BY <1>5, <1>6, <1>9
<1> QED
  BY <1>2, <1>3, <1>4, <1>10 DEF Abstract!Leave, Stays

LEMMA RetStep ==
  ASSUME IInv, IInv', InReturn, Ret
  PROVE  Abstract!Resume(current)
<1>1. /\ current # Idle /\ current \in Slots /\ Begun = live \ {Idle} /\ current \in Begun
      /\ cpu.mode = "S" /\ UNCHANGED <<thread, live, current>>
      /\ cpu.reg["sp"] = KernelSp(current, 1) /\ ~ OnUserStack(cpu.reg["sp"])
      /\ stack = [a \in Places |-> stack[a]]
      /\ stack' = [stack EXCEPT ![cpu.reg["sp"]] = Free]
  BY Phases, KernelSpFacts DEF Running, IInv, Types, InReturn, Ret
<1>2. PICK t \in Slots, f \in TrapFrames :
        t = current /\ f = stack[KernelSp(t, 1)] /\ f.sepc \in UserPcs
  BY <1>1 DEF InReturn, UserFrameOK
<1>3. /\ cpu'.pc = f.sepc /\ cpu'.mode = "U" /\ cpu'.reg["sp"] = cpu.sscratch
      /\ \A r \in Kept \ {"sp"} : cpu'.reg[r] = f.reg[r]
  BY <1>2, ReturnsToUser DEF Kept
<1>4. Begun' = Begun
  BY <1>1, <1>2, <1>3, LabelFacts DEF Begun, UserPcs, __dummy
<1>5. \A u \in Slots \ {current} : Stays(u)
  <2>1. \A u \in Slots \ {current} : stack'[KernelSp(u, 1)] = stack[KernelSp(u, 1)]
    BY <1>1, OtherPlaces
  <2> QED
    BY <1>1, <1>4, <2>1, OthersStay
<1>6. Registers(t)' = [r \in Kept |-> cpu'.reg[r]]
  BY <1>1, <1>2, <1>3, <1>4 DEF Registers, InUser, UserSpOf, UserFrame
<1>7. InstructionOf(t)' = IF f.sepc = Behind(Text) THEN "behind" ELSE "here"
  BY <1>1, <1>2, <1>3, <1>4 DEF InstructionOf, InUser, UserFrame
<1>8. Registers(t) = [r \in Kept |-> cpu'.reg[r]]
  BY <1>1, <1>2, <1>3 DEF Registers, InUser, UserSpOf, UserFrame
<1>9. InstructionOf(t) = IF f.sepc = Behind(Text) THEN "behind" ELSE "here"
  BY <1>1, <1>2 DEF InstructionOf, InUser, UserFrame
<1>10. \A u \in Slots : Stays(u)
  BY <1>2, <1>5, <1>6, <1>7, <1>8, <1>9 DEF Stays
<1> QED
  BY <1>1, <1>3, <1>4, <1>10 DEF Abstract!Resume, Stays

LEMMA ComputeStep ==
  ASSUME IInv, IInv', NEW v \in Values, Compute(v)
  PROVE  Abstract!Work
<1>1. /\ InUserCode /\ UNCHANGED <<stack, thread, live, current>>
      /\ cpu.mode = "U" /\ cpu \in Cpus
  BY Where DEF IInv, Types, Compute
<1>2. current # Idle /\ current \in Slots /\ Begun = live \ {Idle} /\ current \in Begun
  BY <1>1, Phases DEF Running, IInv, Types
<1> DEFINE regs == [r \in Regs |-> IF r = "sp" THEN UserSp(v) ELSE UserWord(r, v)]
<1>3. cpu' = [cpu EXCEPT !.pc = Text, !.reg = regs]
  BY DEF Compute
<1> HIDE DEF regs
<1>4. cpu'.mode = "U" /\ cpu'.pc = Text
  BY <1>1, <1>3 DEF Cpus
<1>5. Begun' = Begun
  BY <1>1, <1>2, <1>4, LabelFacts DEF Begun, __dummy
<1>6. \A u \in Slots \ {current} : Stays(u)
  BY <1>1, <1>5, OthersStay
<1>7. InstructionOf(current)' = "here"
  BY <1>1, <1>4, LabelFacts DEF InstructionOf, InUser
<1>8. Registers(current)' \in [Kept -> Words]
  BY <1>1, <1>2, MappedThen DEF Mapped
<1>9. [t \in Slots |-> Registers(t)]' =
        [[t \in Slots |-> Registers(t)] EXCEPT ![current] = Registers(current)']
  BY <1>1, <1>6 DEF Stays
<1>10. [t \in Slots |-> InstructionOf(t)]' =
         [[t \in Slots |-> InstructionOf(t)] EXCEPT ![current] = "here"]
  BY <1>1, <1>6, <1>7 DEF Stays
<1> QED
  BY <1>1, <1>2, <1>4, <1>5, <1>8, <1>9, <1>10 DEF Abstract!Work, Abstract!Becomes

LEMMA DummyStep ==
  ASSUME IInv, IInv', Dummy
  PROVE  Abstract!Start
<1>1. /\ InDummy /\ UNCHANGED <<stack, thread, live, current>> /\ Begun = {} /\ cpu.mode = "S"
      /\ cpu \in Cpus
  BY Where, Phases DEF IInv, Types, Dummy
<1>2. current = First /\ live = {Idle, First} /\ First \in Slots /\ First # Idle
  BY <1>1, SlotFacts DEF InDummy
<1>3. cpu'.mode = "U" /\ cpu'.pc = Text
  <2> DEFINE c == [cpu EXCEPT !.reg["t0"] = cpu.reg["sp"], !.reg["sp"] = cpu.sscratch,
                              !.sscratch = cpu.reg["sp"]]
  <2>1. c \in Cpus /\ c.sepc = Text /\ c.sstatus = KernelStatus
    BY <1>1, UserSpsFacts DEF InDummy, Cpus, RegFile, Regs
  <2>2. cpu' = Sret(c)
    BY DEF Dummy
  <2> HIDE DEF c
  <2>3. c.sstatus.spp = "U"
    BY <2>1 DEF KernelStatus
  <2> QED
    BY <2>1, <2>2, <2>3, SretFacts
<1>4. Begun' = {First}
  BY <1>1, <1>2, <1>3, LabelFacts DEF Begun, __dummy
<1>5. \A u \in Slots \ {First} : Stays(u)
  BY <1>1, <1>4, StaysAway
<1>6. InstructionOf(First)' = "here" /\ InstructionOf(First) = "here"
  BY <1>1, <1>2, <1>3, LabelFacts DEF InstructionOf, InUser
<1>7. Registers(First)' \in [Kept -> Words]
  BY <1>2, MappedThen DEF Mapped
<1>8. [t \in Slots |-> Registers(t)]' =
        [[t \in Slots |-> Registers(t)] EXCEPT ![First] = Registers(First)']
  BY <1>5 DEF Stays
<1>9. [t \in Slots |-> InstructionOf(t)]' = [t \in Slots |-> InstructionOf(t)]
  BY <1>5, <1>6 DEF Stays
<1> QED
  BY <1>1, <1>2, <1>3, <1>4, <1>7, <1>8, <1>9 DEF Abstract!Start, Abstract!Becomes

-----------------------------------------------------------------------------
(* The refinement.                                                         *)

LEMMA InitialMapped == Init => Abstract!RegInit
<1> SUFFICES ASSUME Init PROVE Abstract!RegInit
  OBVIOUS
<1>1. Begun = {} /\ cpu.mode = "S"
  BY DEF Init, Begun
<1>2. \A t \in Slots : Registers(t) \in [Kept -> Words]
  BY InitIInv, RegisterTypes
<1>3. \A t \in Slots : InstructionOf(t) = "here"
  BY <1>1 DEF InstructionOf
<1> QED
  BY <1>1, <1>2, <1>3 DEF Abstract!RegInit

LEMMA StepsMapped ==
  IInv /\ IInv' /\ [Next]_vars => [Abstract!RegNext]_(Abstract!regvars)
<1> SUFFICES ASSUME IInv, IInv', [Next]_vars PROVE [Abstract!RegNext]_(Abstract!regvars)
  OBVIOUS
<1>0. current \in Slots
  BY DEF IInv, Types
<1>1. CASE StartSchedule \/ BootTimer
  BY <1>1, BootSteps
<1>2. ASSUME NEW v \in Values, Compute(v) PROVE Abstract!RegNext
  BY <1>2, ComputeStep DEF Abstract!RegNext
<1>3. ASSUME NEW cause \in Traps, UserTrap(cause) PROVE Abstract!RegNext
  BY <1>3, UserTrapStep DEF Abstract!RegNext
<1>4. CASE Fault \/ TimerStay \/ Ignored \/ Getpid \/ UnknownCall \/ WriteEnd \/ Switched
  <2>1. InHandler \/ (Fault /\ InNested)
    BY <1>4, InKernel, Where
       DEF IInv, Fault, TimerStay, Ignored, Getpid, UnknownCall, WriteEnd, Switched
  <2>2. CASE InHandler
    BY <1>0, <1>4, <2>2, ReturnSteps DEF Abstract!RegNext
  <2>3. CASE Fault /\ InNested
    BY <2>3, NestedSteps
  <2> QED
    BY <2>1, <2>2, <2>3
<1>5. CASE Write
  BY <1>5, WriteStutters
<1>6. CASE WriteFault
  BY <1>6, NestedSteps
<1>7. ASSUME NEW t \in Slots, TimerSwitch(t) PROVE UNCHANGED Abstract!regvars
  <2>1. InBoot \/ InHandler
    BY <1>7, InKernel DEF TimerSwitch
  <2> QED
    BY <1>7, <2>1, BootSteps, TimerSwitchStutters
<1>8. CASE Fork
  <2>1. PICK c \in Slots : Forked(c)
    BY <1>8 DEF Fork, Forked
  <2>2. Abstract!Clone(current, c)
    BY <2>1, ForkStep
  <2> QED
    BY <1>0, <2>2 DEF Abstract!RegNext
<1>9. CASE Halt
  <2>1. InHandler \/ InNested
    BY <1>9, InKernel DEF Halt
  <2> QED
    BY <1>9, <2>1, WriteStutters, NestedSteps
<1>10. CASE Ret
  <2>1. InReturn \/ InNested
    BY <1>10, Where DEF IInv, Ret
  <2>2. CASE InReturn
    BY <1>0, <1>10, <2>2, RetStep DEF Abstract!RegNext
  <2> QED
    BY <1>10, <2>1, <2>2, NestedSteps
<1>11. CASE Dummy
  BY <1>11, DummyStep DEF Abstract!RegNext
<1>12. CASE UNCHANGED vars
  BY <1>12 DEF vars, Abstract!regvars, Begun, Registers, InstructionOf, InUser, UserSpOf, UserFrame
<1> QED
  BY <1>1, <1>2, <1>3, <1>4, <1>5, <1>6, <1>7, <1>8, <1>9, <1>10, <1>11, <1>12 DEF Next

(* Traps, page faults inside the kernel, switches and forks keep every     *)
(* task's registers and program counter to itself, for any number of tasks *)
(* and any interleaving of them.                                           *)
THEOREM RegistersArePrivate == Spec => ImplementsProcRegs
<1>1. Spec => []IInv
  BY Invariance
<1> QED
  BY <1>1, InitialMapped, StepsMapped, PTL DEF Spec, ImplementsProcRegs, Abstract!RegSpec

=============================================================================
