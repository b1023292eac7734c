# Verification of SimpleRV64OS

TLA+ specifications of the kernel in `src/`, a small RV64 teaching kernel for one hart: a priority scheduler,
a buddy page allocator, three-level page tables with demand paging, and three system calls (`write`, `getpid`, `clone`).
TLC checks the specifications on small instances, TLAPS proves theorems about them for every instance.

## 1. The system

| component | state | operations |
|---|---|---|
| task table, scheduler (`proc.c`) | `task[]`, `current`, per task `counter`, `priority`, `pid`, `thread` | `task_init`, `do_timer`, `schedule_priority`, `switch_to`, `add_task` |
| system calls (`syscall.c`) | the caller's trap frame | `sys_write`, `sys_getpid`, `sys_fork` |
| page allocator (`mm.c`) | `buddy.bitmap`, `free_page_start` | `buddy_init`, `buddy_alloc`, `buddy_free`; wrappers `alloc_pages`, `alloc_page`, `kalloc`, `pkalloc`, `free_pages`, `kfree` |
| page tables (`vm.c`) | page table pages, `swapper_pg_dir`, `satp` | `setup_pte`, `map_final_pgtbl`, `is_va_mapped`, `setup_vm`, `setup_vm_final` |
| areas and page faults (`vma.c`, `trap.c`, `proc.c`) | `vmas[]` in the task page | `do_mmap`, `find_vma`, `do_page_fault`, `alloc_annoymous_vm`, `copy_vma_mem` |
| ELF loading (`elfutils.c`, `proc.c`, `proc.h`) | - | `load_program`, `load_elf_program`, `alloc_elf_mem`, permission maps |
| traps and context switch (`entry.S`, `trap.c`) | registers, trap frames, `sscratch`, `sepc`, `sstatus` | `_traps`, `__ret_from_fork`, `__dummy`, `__switch_to`, `trap_handler` |
| boot (`head.S`, `main.c`, `vmlinux.lds.S`) | `early_pgtbl`, `swapper_pg_dir`, `satp`, `stvec`, `sie`, `sstatus` | `_start`, `setup_vm`, `relocate`, `start_kernel`, `vm_init` |
| clock, SBI (`clock.c`, `sbi.c`) | the machine timer | `clock_init`, `clock_set_next_event`, `sbi_ecall` |
| shortest-first scheduler (`proc.c`, built without `PRIO_SCHED`) | the counters, drawn instead of computed | `schedule_short_first`, `assign_counter` |
| random numbers (`rand.c`) | `r[]`, `t` | `rand` |
| console output (`printk.c`, `user/printf.c`) | the position in the format, `longarg`; the user's `buffer` and `tail` | `printk`, `puts`, `puti`, `printf` |
| user programs (`user/getpid.c`) | `global_variable`, in a page of each process | `main`, `main1`, `main2`, `main3` |
| test loop (`test.c`) | - | never reached |

How they interact. A timer interrupt or an `ecall` enters `_traps`, which saves the frame on the task's kernel stack and
calls `trap_handler`. The timer runs `do_timer`, which may end in `switch_to`; `clone` runs `sys_fork`, which takes pages
from the allocator, copies the task page, builds the child's tables, copies every page the parent has touched, and ends in
`switch_to(child)` with the parent suspended in the middle of the call. A page fault runs `do_page_fault`, which finds the
area, takes a page, and maps it. Every page comes from `buddy_alloc`. After boot interrupts are off in the kernel, so
that a handler is atomic up to a `switch_to`; what interleaves is user code and the handlers suspended in `switch_to`.

What is hard, and what makes each part correct:

* scheduler: a counter that is charged, inherited by fork and refilled must never let a task starve, run on time it was
  not granted, or grow. Suspended forks read `current` after other tasks ran.
* allocator: an implicit tree whose inner nodes are summaries, and in which a granted node keeps stale descendants. After
  any history of calls the summaries must be exact and the blocks disjoint.
* address spaces: tables are shared with the kernel at the root and nowhere else; pages appear one by one, in any order,
  in parent and child. No frame may be reached twice, and the parent's memory must arrive in the child whole.
* context: what the trap entry saves is what the exit restores, for first runs, resumed tasks and fork's children.
* contents of memory: a page of a segment is put together from a file offset, an address and a size that are rounded apart
  from each other; the right bytes have to arrive whatever page is touched first.
* boot: the tables are changed under the feet of the code that changes them, and interrupts are on earlier than the code
  is ready for them.
* output: two copies of one formatter that differ in one character, and a buffer that is never cleared.
* limits: no page, no slot, page 0 as an error value.

`PROJECT.json` lists these as hazards, each at its line.

## 2. The modules

| module | what it is |
|---|---|
| `Tasks` | the task table: `task_init`, timer, scheduler, `getpid`, `clone`, halts |
| `Sbi`, `Clock` | calls of the firmware; the timer as `clock.c` sets it |
| `TasksWait` | `Tasks` driven by `Clock`, with a history variable, the ticks each task has waited |
| `TasksProofs` | theorems about `Tasks` and `TasksWait`, and on those about `Sjf` and `UserMain` |
| `Sjf` | `Tasks` with either scheduler |
| `UserMain` | the four programs of `getpid.c` on `Sjf` |
| `PageAlloc` | abstract: what the allocator promises |
| `PageAllocProofs` | theorems about `PageAlloc` |
| `Buddy` | the bitmap tree of `mm.c` and the address arithmetic of its wrappers, an implementation of `PageAlloc` |
| `BuddyProofs` | theorems about `Buddy`, and that it implements `PageAlloc` |
| `ProcMem` | abstract: a flat private memory per process |
| `AddrSpace`, `MCAddrSpace` | page tables, areas, page faults and the memory part of `sys_fork`, an implementation of `ProcMem`; the program layout TLC uses |
| `AddrSpaceProofs` | theorems about `AddrSpace`, and that it implements `ProcMem` |
| `Image`, `MCImage` | the ELF loader and the bytes and rights of each page a fault maps; the files TLC tries |
| `ImageProofs` | theorems about `Image` |
| `ProcRegs` | abstract: private registers per process |
| `Context` | trap entry and exit, trap frames, kernel stacks and `__switch_to`, an implementation of `ProcRegs` |
| `ContextProofs` | theorems about `Context`, and that it implements `ProcRegs` |
| `Boot`, `MCBoot` | from `_start` to the first switch: layout, tables, rights, the first free page; the layouts TLC tries |
| `BootProofs` | theorems about `Boot` |
| `BootSwitch` | the first `switch_to`, instruction by instruction, with interrupts on |
| `Vprintfmt`, `Console` | the two formatters; `printk`, `puts`, `puti`, `printf` and the characters they put out |
| `Rand` | the generator, in C's arithmetic |
| `LibraryProofs` | theorems about `Console` and `Rand` |
| `MCLibrary` | the calls TLC makes of `Console`, and `Rand` beside it |

### Tasks

One action per trap: `Timer` (trap_handler with `do_timer`, `schedule_priority` and `switch_to`), `Getpid`, `Fork`,
`ForkTableFull` and `FaultNoVma` (both end in `halt()`); `StartSchedule` is the call in `start_kernel`. A timer interrupt
may come before it, as `head.S` leaves interrupts on; an interrupt inside it is not in this module (see section 7).
`task[]` is `live` and one function per field; `ra` is where `__switch_to` resumes each task and `ret` is the `a0` slot of
its trap frame. `SwitchTo` is `switch_to` together with what the resumed handler does before it returns to user code: a
task resumed inside `sys_fork` writes `sys_getpid()`, and `current` is by then itself again. The two scans of
`schedule_priority` are `Chosen` (the last slot among those with the largest counter) and `AfterRefill`.
Priorities are any of `1..PRIORITY_MAX`: the code draws them with `rand() % PRIORITY_MAX + 1`.

`TasksWait` puts the timer under it: `clock_init` asks the firmware for the first interrupt, cycles pass (`MCElapse`), and
when the interrupt is due `MCTimer` is the branch of `trap_handler`: the next event is set, then `do_timer` runs. Times are
counted from now, so that they stay small.

### Sjf and UserMain

The build has one scheduler or the other; `Sjf` chooses at the start (`prio_sched`). The shortest-first one hangs a task whose time
is used up (all ones) and draws new times for all when every task is hung. `UserMain` runs the programs on top: a step is one
operation of the program the current process is at, a page fault, or a tick. `global_variable` is in a page: `pte` is the frame a process's table
has for it, if any, and `page` what is in each frame. The first access to the page, of data or of code, faults and loads it from the file (`UPageFault`);
`fork` copies it into a frame of the child's own if the parent has it mapped (`CopiedPage`), and leaves the child to its own fault
if not, with the tables and the loops of `AddrSpace` taken as one step. `FILE_WORD` is what the file has where the variable is loaded from, which
for a variable in `.bss` is not 0 but what follows in the file (section 4); it is the same for every process, which is so if its place lies in the pages of
the file. Which lines come between two lines of a process is up to the ticks.

### PageAlloc and Buddy

`PageAlloc` keeps the set of blocks handed out; a request gets the lowest aligned block that fits, or is refused when
none does. `Buddy` is the code: `BuddyAlloc` walks down, clears the node and recomputes the ancestors; `BuddyFree` walks up
from the leaf to the node that is 0, restores it and merges. Paths are recursive functions over node indices. `owned` is
history: the callers' side of the contract, which is that they free what they were given, once. The kernel itself never
frees a page; `free_pages` and `kfree` are part of the allocator's interface and are modelled as such.
Addresses are page numbers in a word that wraps (`ADDR_PAGES`). A word is the set of its bits where the code works on bits: `fixsize` ors it
with itself shifted by 1, 2, 4 .. 32 as the code does, and `ImplementsPageAlloc` compares the sizes it leads to with the abstract ones.

### ProcMem and AddrSpace

A page is the triple of its table indices, a frame is a number, and `pt` and `data` are the two ways to read a frame.
`MapFinal` is `map_final_pgtbl` with the tables `setup_pte` adds, `Frame` is the walk (`is_va_mapped` and the hardware's).
`PageFault` is `do_page_fault` for both kinds of area. `sys_fork` is `ForkBegin`, one `CopyPage` per turn of the loops in
`copy_vma_mem`, `ForkEnd`; nothing else happens in between, as in the kernel. `use` is history: the purpose each frame was
allocated for.

The mapping to `ProcMem` says that a page not mapped yet holds what a fault would put there, so that page faults are
stuttering steps, and a fork takes effect at `ForkEnd`. Which task is switched to is left open: `Switch` allows any.
A jump to the stack page, which is not executable, faults although the page is mapped, and the handler maps a fresh page:
`ProcMem` has `Reset` for it, and only the task itself loses anything.

Assumed of the program image: areas that share a page are laid out so that the page is the same page of the file for both,
and the stack is apart from the program. `File[p]` is what the code copies into page `p`, whether or not it is what the
ELF header asks for.

### Image

One program, its bytes told apart: byte `n` of the file is `n + 1`. `LoadHeader` is a turn of the loop in `load_elf_program`, which finds
the headers by `e_phoff` and `e_phentsize` in the sizes of the format; `PageFault` is `do_page_fault` down to the bytes
`alloc_elf_mem` copies and the rights `map_vm_perm` gives. An access that is not permitted faults, is served and is tried
again (`retry`), so that until it succeeds the program does nothing else. For a jump to the stack it never does: the area has no
`VM_X_MASK`, and every retry faults on the page that is mapped and maps another one, cleared, over it. `FaultIsServed` and `NothingLost` say for
which access they hold and what that one does instead. What a linker guarantees of a file is `Linked`: segments apart from each other, offsets congruent to addresses.

### ProcRegs and Context

`cpu` is the hart: registers, pc, mode, `sepc`, `sstatus`, `sscratch`. `sp`, `t0` and `a0` are registers of their own; `s` stands
for the callee-saved ones and `x` for the rest, as the code treats the members of each alike. A place on a stack is a count
of frames: a trap pushes its frame and the C frame of `trap_handler`. `Trap` is `_traps` up to the call, `Ret` is
`__ret_from_fork` up to `sret`, `SwitchTo` is `switch_to` with `__switch_to`; `Swapped` and `StackSwitched` are the exchange of `sp`
and `sscratch` and the branch after it, which both use. What C code does to registers is external (`InC`). `Fork` copies
thread and stack of the task page, changes what `sys_fork` changes, and switches. `Switched` is the rest of a handler
resumed inside `switch_to`. `WriteFault` is the one trap out of kernel code.

The mapping to `ProcRegs` reads a suspended task's registers from its trap frame, and its `sp` from `sscratch`; a call is
answered when its handler returns, a child exists from `SwitchTo` on. `t0` is left out of the mapping (section 4).

Assumed of user code: its `sp` is in its stack (0 would be taken for the mark of boot code), and the stack was used before
the first `write`; otherwise a fault on the buffer faults again in `_traps`, and the first one is lost.

### Boot and BootSwitch

The image is laid out by the linker script for any sizes of its sections (`Sym`). RAM is pages of table entries, each a
page number and a set of rights: the code only ever shifts the one above the other and joins rights with `|` (`With`). `Walk` is the
hardware's translation. Virtual addresses are the 39 bits a walk looks at, without the sign bits above them. Each step of `head.S` is an action; `hi` says whether `pc` is a physical or a
virtual address. `setup_vm_final` is one step per page. `BootSwitch` takes up at the call of `schedule()`: what `Context` may treat as
one step, since it happens inside traps, is taken apart here, with a timer interrupt possible before each part.

### Vprintfmt, Console, Rand

One step per character of the format; `longarg` and `in_format` are the code's locals. A call is given as the pieces of its format, which are stretches
of plain characters and conversions with their argument; `call.text` joins what they promise (`Promised`: a number's decimal or
hexadecimal digits, stated without a loop), and the formatter, which sees characters only, computes it its own way, digit by digit, in words of
`INT_BITS` and `LONG_BITS`. `Sound` leaves out the arguments for which the code promises nothing: `-num` of the least number, a `%u` whose highest
bit is set (it is read as signed), a `%c` that is no character. `printk` calls `putc` for each character, the user's `printf` collects them in `buffer` and makes one
`write`. `Rand` is the generator with the code's own constants, 32-bit sums included.

## 3. The runs

| run | instance | shows |
|---|---|---|
| `tasks` | 4 slots, priorities 1..3, a cycle between ticks; 48,801 states | `TypeOK`, `RunningHasTime`, `RetIsOwn`, `FairCharging`, `NoStarvation`, and `BoundedWait`: a task waits at most `2 * (NR_TASKS - 2) * PRIORITY_MAX` ticks |
| `users` | the four programs, either scheduler, 5 slots, times 1..2; 78,390 states | `Processes`, `RightBranch`, `CountsAlone`, `RunsOnGrantedTime`, `OneSliceARound`, `NoStarvation` |
| `buddy` | 16 pages, 7 reserved; 12,182 states | `TypeOK`, `BitmapExact`, `ImplementsPageAlloc` |
| `address_spaces` | 2 tasks, 18 frames, a stack page and a page of two areas; 458,060 states | `Isolation`, `TablesNotExposed`, `KernelEverywhere`, `TypeOK`, `ImplementsProcMem` |
| `image` | 77 files of two segments, pages of 4 bytes, one store; 59,702 states | `TypeOK`, `FilePartLoaded`, `SegmentsFound`, `FaultIsServed`, `NothingLost` |
| `image_bss` | the same, no store | violation: `BssZero` |
| `context` | 4 slots, two user contexts at two depths; 319,242 states | `StackDiscipline`, `InterruptsInUserCode`, `KernelRegisters`, `TypeOK`, `ImplementsProcRegs` |
| `context_t0` | 1 task | violation: `t0` after a trap |
| `context_nested` | 1 task | violation: the frame of a fault in `sys_write` |
| `boot` | 432 layouts, 32 pages, 8 entries in a table; 18,576 states | `TypeOK`, `KeepsRunning`, `Rights`, `Tables`, `FreeIsFree` |
| `boot_switch` | one tick | violation: `FirstRunAtEntry` |
| `library` | formats of up to two pieces and a call with five conversions; two rounds of `rand`; 167,566 states | `TypeOK`, `PrintsPromise`, `WritesPromise`, `ResultInRange`, `Repeats` |

Bounds. Four slots are idle, the first task and two children: a parent can be suspended in `clone` while its child clones,
ties and refills between three counters occur, and the table fills up. Priorities up to 3 tell one, a last and a middle
tick apart. The bound of `BoundedWait` is tight: with one less TLC finds a violation for (NR_TASKS, PRIORITY_MAX) = (3,3),
(4,2), (4,3), (5,2) and (4,4). One cycle between two ticks is enough for user code to do anything in between.
`users` has a slot for every process of `main`. Its priorities are 1 and its drawn times 1 or 2: a tick can come before and after
any operation, and the least time need not be the only one. `global_variable` is counted modulo 2, which tells a value from its successor; in the
file there is 1, so that a page loaded differs from one that was cleared.
A tree of depth 4 with 7 reserved pages leaves free blocks of 1 and 8 pages; boot splits on every level. All requests from 0 to more
than the whole memory are made, and all states with every history of frees are reached (no bound on the number of calls).
18 frames are enough for a task that has touched all its
pages to fork and have every page copied, the shared one twice; leaks by jumps to the stack are cut off where the frames
end. `Indices = {0, 1}` with one user and one kernel entry at the root lets the two user pages share a middle table and
not a last one.
The files of `image` have a text and a data segment on the same page or on two, at every offset in a page, with and without a
part behind the file's, one next to the stack, and a header that is not loaded between them. One store is enough to see it lost.
In `boot` every section is empty, ends inside a page or fills it. `library` has every conversion with the least, the greatest and an
ordinary number of its type (8-bit ints, 12-bit longs), each followed by each; texts of different lengths follow each other in a
buffer of 7 characters. `rand` is deterministic, its run is its whole life.

In `Context` four slots let a child fork, with parent and grandparent suspended in `clone`, and the timer switch among all of
them, to the caller too. Two contexts per task, at two depths of the stack, tell every register of two tasks apart.

`CHECK_DEADLOCK FALSE` is there where the system stops: after `halt()` nothing happens; in `AddrSpace` when the
frames of the model are used up; in `Boot` and `BootSwitch` when the boot is over; in `Image` and `Context` after a halt; in
`library` after two rounds of `rand`.

Fairness: the kernel keeps booting (`clock_init`, `schedule()`), cycles pass, and an interrupt that is due is taken, since
interrupts are on in user mode; that the next one ever becomes due is not assumed but follows from `clock_set_next_event` in its
handler. In `users` the kernel's steps are fair as a whole. User code owes nothing, so nothing is assumed of `Getpid`, `Fork` or
a program's steps; `NoStarvation` excepts a halted kernel, since a program can halt it. The programs of `users` never do: they find a slot at
every fork (`Processes`) and use no memory outside their areas.

Every property has a mutant in its module, an operator that changes the code as a plausible mistake would and that TLC
tells from the code by that property.

## 4. Findings

* `_traps` (`entry.S:28`) loses the interrupted code's `t0`: it is overwritten before the registers are saved, and again by
  the exit (`entry.S:133`). User code finds its own `sp` in `t0` after every timer interrupt and page fault, wherever they
  come; the comments at lines 42 and 91 speak of saving and restoring 32 registers. `context_t0`.
* A page fault inside `sys_write` is a trap out of kernel code. The branch at `entry.S:32`, "if this is a kernel exp, swap them
  back", recognises such traps by `sscratch` being 0, which is so during boot only, and the frame goes to the user's
  stack. `context_nested`. `StackDiscipline` and `KernelRegisters` show that the way back still finds the kernel stack and
  every register but `t0`.
* `do_page_fault` (`trap.c:27`) copies a whole page of the file for every page of an area and never reads `vm_content_size_in_file`:
  what lies behind `p_filesz`, the program's `.bss`, is not zero but what follows in the file. `image_bss`. `global_variable` of
  `getpid.c` is in such a place; `main` and `main3` clear it themselves, `main1` and `main2`
  count from whatever is there.
* `head.S:33` turns interrupts on before `start_kernel`. A timer interrupt inside the first `switch_to`, behind the write of `sepc`,
  leaves a kernel address in `sepc`, where `__dummy` enters user mode. `boot_switch`.

Seen while modelling, without a run of their own:

* `pkalloc` (`mm.c:182`) subtracts the offset from whatever `kalloc` returned, 0 included when no page is left, and `setup_pte` links
  the result into a page table. `sys_fork` and `alloc_annoymous_vm` use such a result as well.
* `perm_elf2vm` (`elfutils.c:4`) combines the flags with `|` where it means to test them: every area is readable, writable and
  executable. `Image` has it as it is.
* The table full in `sys_fork` (`syscall.c:25`) halts the kernel for all tasks.

## 5. What is proved

`TasksProofs`, from `NR_TASKS \in Nat, >= 2` and `PRIORITY_MAX \in Nat \ {0}` alone: `TypeCorrect`, `RunsWithTime`,
`AnswersAreOwn`, `ChargesFairly`. The inductive invariant is `TypeOK /\ RunningHasTime /\ RetIsOwn /\ PidIsSlot`.
`PidIsSlot` (the pid of a task is its slot) is needed because answers are taken from `pid` and `RetIsOwn` speaks of slots;
`RunningHasTime` is needed by `FairCharging`, since a tick that found the counter at 0 would start a round without having
been charged. `ScheduleFacts` does the work for both callers of `schedule()`, `RefillFacts` shows that a refill halves zeros
only, hence the bound on counters.

`WaitsAreBounded`, in the same module: no task waits more than `2 * (NR_TASKS - 2) * PRIORITY_MAX` ticks. The ticks that may pass before
a task's turn are the sum of what the others have left; the sum is the cardinality of a set (`Tokens`: a pair of slot and number for every
tick left; a free slot is given `PRIORITY_MAX`, the most a child can inherit). `WaitInv` says that waiting time and tokens together do not
exceed the task's `Patience`, a round for a task without time and two for one with it. A tick takes a token away, a fork adds none, and
a refill, which fills the set again, comes only when nobody has time left, that is, to tasks that have waited one round at most.

`PageAllocProofs`, from nothing: blocks are disjoint from each other and from what boot reserved (`PagesAreExclusive`), in
range and aligned (`BlocksAreAligned`). The strengthening `BootFirst` says that no block is granted before boot has taken its
pages, since the reserved prefix still grows until then.

`BuddyProofs`, for every depth up to 62 (the bitmap has `2 * SIZE` words, counted in a `uint64_t`), every number of reserved pages and every
history of calls: `TypeCorrect`, `TreeIsExact`, `TreeImplementsPageAlloc`, and with it that the blocks of the tree are aligned and
disjoint (`TreeBlocksAreExclusive`). The invariant `IInv` is a law each node obeys by itself (`Lawful`): a node that is handed out has 0,
another leaf 1, and any other node what `Merged` makes of its halves. That `buddy_alloc` leaves the descendants of a node as
they were, does `Lawful` no harm: it is they that obey it without their ancestor. From the law follow: no node has less than the largest aligned block
free below it (`LowerBound`) and none, outside what is handed out, more (`UpperBound`), by induction from the leaves up; the walk of `buddy_alloc` ends at the
lowest block of its size (`DescendFinds`), and that of `buddy_free` at the node handed out, since the nodes below it that cover the page are
free in it (`HolderFinds`); and the recomputation of the ancestors leaves a lawful tree (`TakenLaw`, `FreedLaw`). `TakenLaw` needs that the greater of two
halves is what `Merged` would give: behind a node just taken, one half is never wholly free.
`RoundsUp` is about `fixsize`: after the shifts by 1, 2, 4 .. 32 all bits below the highest are set, so that adding 1 gives the least power of two.
The inductions run over sets: the set of the nodes that have the property is closed under the step, and a least node outside it (`WFMin`) is a contradiction.
`Recursion` shows that recursive functions over a measure satisfy their equations, which is what the provers have to know of the loops.

`AddrSpaceProofs`, from the assumptions of `AddrSpace` (at least 2 slots and 5 frames, areas not empty, a stack apart from
the program): `MemoryIsPrivate`, `TablesAreHidden`, `KernelIsShared`, `TypeCorrect`. `Isolation` speaks of two walks of three
levels and is far from inductive. The invariant speaks of single entries instead: a user entry of a table that is in use for
some path of indices leads to nothing, or to a frame that is in use for that path extended by the entry's index (`Wired`);
frames not yet allocated are empty tables (`Fresh`, which is what `setup_pte` relies on); the kernel's half of every root is
the kernel's (`KernelHalf`); and the root of a task is in use as that (`Rooted`). A frame has one use, so one path of one task
leads to it. `TakenSound`, `EntrySound`, `SetupSound` and `MapFinalSound` follow the code's own layers, `kalloc`, a table
write, `setup_pte` and `map_final_pgtbl`; each action's proof then only says which of them it calls.

Its second half: `MemoryIsFlat`, from the same assumptions: `AddrSpace` implements `ProcMem`. It rests on two things.
`MapFinalWalks`: `map_final_pgtbl` changes one walk, the one of its task to its page, whatever tables `setup_pte` has to add on
the way; that needs `Wired` (a table is below one path only) and `Fresh` (a new table is empty). `Copied`: while the loops of
`copy_vma_mem` run, the child has exactly those pages of the parent that they are past, with the parent's contents; at the end these
are all, and since pages that the parent does not have yet are what a fault would make of them in both, the memories are equal. A
`Store` is `Write`, `Switch` is `Dispatch`, `ForkEnd` is `Clone`, a fault on a page that is mapped (the jump to the stack) is `Reset`;
other faults, `ForkBegin`, `CopyPage` and the halts stutter.

`ContextProofs`, from at least 2 tasks and any depth of the user's stack: `StacksKept`, `UserCodeInterruptible`, `CRegistersKept`,
`TypeCorrectness`. The properties say where `sp` and `sscratch` are when a handler runs or a task is suspended; they hold because of
what was pushed long before, which they do not mention. `IInv` says it: by the phase the hart is in (boot, `__dummy`, user code, a handler, the
exit, a fault inside `sys_write`), the running task's trap frame is in place 1 of its kernel stack with the registers, `sepc` and
`sstatus` of user code in it, the handler's frame in place 2, and for a nested fault two frames more on the user's stack, from which the
way back is found; a suspended task (`Suspended`) has the same on its stack and in its `thread`, by where `__switch_to` will return to.
`TypeOK` follows from `IInv` and is not inductive by itself, since a word that is popped has to have been one when it was pushed.

Its second half: `RegistersArePrivate`, that `Context` implements `ProcRegs`. The first entry to user mode is a step of its own, an
instruction of user code is `Work`, a trap `Leave`, the exit `Resume`, the ends of `getpid`, of `write` and of
the parent's `clone` are `Answer`, the fork itself is `Clone`; switches, faults inside `sys_write`
and what boot does stutter. A step on one task's stack has to leave all others' frames: places of different stacks are
different, and a nested frame is on the stack of the running task. `t0` is not among the registers compared (section 4).

`BootProofs`, for every size of the RAM, of pages and of tables, every range of addresses and every set of layouts: `BootRuns`, `RightsAreRight`,
`LoopsMapTheSame`, `FreePagesAreFree`, `TypeCorrect`. Assumed (`BootAssumption`) is what `defs.h` has: RAM and kernel addresses begin at an entry of
the root, the RAM fits one, and the two halves of the early table do not overlap in it; and (`LayoutsAssumption`) that the RAM has room for the image, the bitmap,
the tables and the first task, since nobody checks that a page is left. With 128 MB they take 70 pages besides the image and the bitmap.
The properties speak of walks and of all pages at the end; the invariant says stage by stage what the registers hold
(`Registers`) and what every page of the RAM holds (`Memory`). For the loop of `setup_vm_final` that is `Mapped`: the root and the one middle table,
a last table for every `FAN` pages mapped so far, each filled just as far as the loop has come, all other pages zero, `next` behind the last
table. `MapStep` is one turn: at the first page it takes the middle table and a last one, later a last one whenever a table is full, and the pages `pkalloc` gives
are none of those in use (`TablePages`, `FirstFreeFacts`). `HighWalk`, `FinalWalk` and `OutsideWalk` compute every walk over such memory, the early
root's is `EarlyWalk`. `Rights` also needs that the symbols of the linker script are aligned where rights change (`SectionRights`).
`LoopsMapTheSame`: memory that is `Mapped` up to the end is determined (`MappedUnique`), and `create_mapping` over a stretch with one set of rights
keeps `Mapped` (`MapRange`), so three calls, which round sizes and addresses (`RoundShift`), end in the same memory as the loop page by page.
What a loop computes is a recursive function; `Iteration` gives its equations, `UpTo` the induction over its turns.

The second half of `TasksProofs`, for tables of at least 5 slots (`EnoughSlots`, a hypothesis of these theorems) and any priorities and times: `GrantedTime`, `OwnBranches`, `AllProcesses`,
`LinesAreOwn`, `SlicesInRounds`, for either scheduler. With `PRIO_SCHED` the kernel's steps are those of `Tasks`, and the invariant is the
one above; `TimesOK` is its counterpart for the other scheduler: a task is hung or has time, the running one has time.
`ProgramInv` is about the programs. `Progress` says which processes exist for each place their parents are at, hence that a slot is
free at a fork (the lemma `ForksFindASlot`; `UserMain` relies on it when it leaves the full table out, and `Processes` states it). `MayBranch` says what
`ret` has to be where a process is about to test it: in the parent its own pid, or nothing yet while it is suspended in `sys_fork`; in the child 0.
`MemoryOK` is about the pages: no frame is in two tables (`PagesApart`), and what a process would read, from its frame or, before its first
fault, from the file (`Content`), is the successor of the line it printed last (`Counted`). A store leaves the others' content since the frames are apart
(`StoreOwn`), and a fork or a fault takes a frame that no table has, of which there is one for every slot (`CopyApart`, `PageFaultUInv`).
`Sided` says that a process which took its branch does not fork any more; without it a child could inherit the branch of its parent.

`ImageProofs`, for every page size, every size of user memory and every set of files: `FileIsLoaded`, `AreasAreFound`,
`FaultsAreServed`, `NothingIsLost`, `TypeCorrectness`. A file is assumed to be what linkers make (`Linked`), with program headers of
the size of the kernel's structure (`HeadersAssumption`: `load_elf_program` steps by `sizeof(Elf64_Phdr)` and does not read `e_phentsize`).
The inductive invariant has, beside `FilePartLoaded`, where each area comes from (`Areas`) and what a page is mapped with (`Mappings`): a page of
a segment that is mapped has all rights, so no access faults on it and `alloc_elf_mem` never replaces it. The stack has all but `X`: what is read or
stored there never faults twice, a jump there always does, and then the page is the cleared one of `alloc_annoymous_vm` with nothing stored in it. The arithmetic is proved for
all sizes: `FilePageFacts` says that rounding the offset in the file and rounding the address agree when the two are congruent, and
`FaultMaps` that a page which two segments share gets the bytes of both.

`LibraryProofs`, first half, for every width of an int and a long that is a multiple of 4, every size of the buffer and every call whose
format is a sequence of pieces, of any length: `PrintsAsPromised`, `WritesAsPromised`, `ConsoleTypeCorrect`. None of the three is
inductive. `Flow` is: the rest of the format is the format of some pieces, the arguments left are theirs, and what is shown so far
with the text they promise is the text of the call; behind a `%` (`Inside`) the rest begins inside a piece, whose width is decided by `longarg` for
the `l` that was read and by `IsLong` for the one still ahead. `Buffered` has `buffer` hold what `putch` was given,
and that `tail` never reaches the end follows from `Flow`: what is out and what is to come is no longer than the text (`TextBound`).
There is one lemma for each kind of turn (`PlainTurn`, `PercentTurn`, `FlagTurn`, `ConvertTurn`). A conversion needs that the loop over `decchar` gives
the decimal digits of its number (`DecCharDigits`, `DecimalIsReversed`) and the shifts of a `%x` the hexadecimal ones, of a negative
number too (`HexSame`). These are inductions over the number and over sequences; as no installed prover takes an induction theorem
with an operator parameter, they are made with sets: `NatSetInduction` and `MeasureInduction` take the set of the numbers
for which the claim holds, `Recursion` and `Iteration` give a recursive function its equation.

`LibraryProofs`, second half, for every table that has room for what the first call fills and for one round: `RandInRange`, `RandRepeats`. The invariant says that
the written entries are a prefix of the table and that each from 34 on is the sum of the two it was made of (`Sums`), hence that
what a later round writes is there already. Three theorems are about the code's arithmetic, for every operand: `Lehmer` is the 64-bit
remainder of `rand.c:13` and never negative (`LehmerIsRemainder`: the correction in lines 14-16 never happens), `Add32` is the sum modulo
2^32 (`Add32Wraps`), `ModTen` the remainder of the `uint64` that a negative entry is converted to (`ModTenUnsigned`).

## 6. What is only model-checked

`NoStarvation`, which is liveness under fairness: the provers have no rules for `ENABLED`. Every invariant and every other action
property or refinement that a passing run checks is stated by a theorem of section 5, for every value of the constants.

## 7. Plan

In this order, the most important first; all lines are done but for what they name as left.

1. `Tasks`, `TasksWait`, `TasksProofs`; `Clock` under them.
2. `PageAlloc`, `Buddy`, `PageAllocProofs`, `BuddyProofs`.
3. `ProcMem`, `AddrSpace`.
4. `AddrSpaceProofs`: `Isolation`, `TablesNotExposed`, `KernelEverywhere` for every layout of areas, and that it implements `ProcMem`.
5. `ProcRegs`, `Context`, `ContextProofs`.
6. `Image`: contents and rights of file-backed pages at byte granularity; `ImageProofs`.
7. `Boot`, `BootProofs`, `BootSwitch`.
8. `Sjf`, `UserMain`: the programs on either scheduler; their theorems in `TasksProofs`.
9. `Console`, `Rand`, `LibraryProofs`.
10. Left: `Kernel`, `Tasks` and `AddrSpace` composed, refining both; the scheduler then picks the task `AddrSpace` switches to.

## 8. What is not modelled

The SBI firmware, the timer device and the counter behind `rdtime` (external; `Sbi` and `Clock` have what the kernel asks of them).
`kfreerange` and the kernel thread `dummy()` of `proc.c` (never called), `test()` (never reached). `create_mapping` has no caller
either; `Boot` uses it as the reference for the loops that do its work. Most of `elf.h` (3142 lines, more than half of the C sources)
defines parts of the format nobody here reads; `Image` has the types, the two headers and the flags that the loader does.
TLBs: every change of `satp` is followed by `sfence.vma`, and a fault maps a page that was not valid before;
the one case that replaces a valid entry, a jump to the stack, would need a fence the code does not have, and is
modelled as if the new entry were seen at once. RAM is zero at power-on, as QEMU provides it. What the compiler decides:
`setup_vm` leaves a value in `t0` for `relocate` across a call of `printk` (`vm.c:80`), and the moves in `sbi_ecall`
(`sbi.c:13`) do not name the registers they overwrite; both are taken to work.
