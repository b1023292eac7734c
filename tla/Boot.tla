------------------------------- MODULE Boot --------------------------------
(***************************************************************************)
(* From _start to the first context switch: the image as the linker lays   *)
(* it out, the early table, the move to virtual addresses, the allocator's *)
(* first free page, the final table, the tables of the first task.         *)
(*                                                                         *)
(* Tables are walked level by level with FAN entries in a table and PGSIZE *)
(* addresses in a page, so that the sizes of the sections end inside pages.*)
(***************************************************************************)
EXTENDS Integers

CONSTANTS
  PGSIZE, FAN,           (* addresses in a page, entries in a table        *)
  PHY_START, PHY_SIZE,   (* the RAM                                        *)
  VM_START, VM_END,      (* the addresses the image is linked for          *)
  OPENSBI_SIZE,          (* the firmware, at the start of the RAM          *)
  BITMAP,                (* the size of buddy.bitmap                       *)
  Layouts                (* section sizes: [text, rodata, data, uapp, bss] *)

EARLY_PGSIZE == PGSIZE * FAN * FAN
PHY_END      == PHY_START + PHY_SIZE
PA2VA_OFFSET == VM_START - PHY_START
VA2PA(va)    == va - PA2VA_OFFSET
PA2VA(pa)    == pa + PA2VA_OFFSET

ASSUME BootAssumption ==
  /\ PGSIZE \in Nat \ {0} /\ FAN \in Nat \ {0}
  /\ \A a \in {PHY_START, VM_START, VM_END} : a \in Nat /\ a % EARLY_PGSIZE = 0
  /\ PHY_SIZE \in 1 .. EARLY_PGSIZE /\ PHY_SIZE % PGSIZE = 0
  /\ OPENSBI_SIZE \in 0 .. PHY_SIZE /\ OPENSBI_SIZE % PGSIZE = 0
  /\ PHY_START + EARLY_PGSIZE <= VM_START /\ VM_START < VM_END
  /\ VM_END - VM_START <= PA2VA_OFFSET     (* the halves of the early table *)
  /\ VM_END <= EARLY_PGSIZE * FAN          (* bits that a walk looks at     *)

VARIABLES
  lay,      (* the sizes the image was linked with                         *)
  pc,       (* the next instruction, call or function of the boot          *)
  hi,       (* pc is an address the image was linked for, not a physical   *)
  ra,       (* hi of the return address                                    *)
  sp, t0,
  satp,     (* its fields: the mode and the page number of the root        *)
  mem,      (* the pages of the RAM, read as tables                        *)
  next,     (* the lowest page buddy_alloc(1) has not returned yet         *)
  page,     (* the address setup_vm_final maps next                        *)
  stvec,    (* hi of _traps, "none" before the register is set             *)
  sie, sstatus  (* the bits STIE and SIE                                   *)

vars == <<lay, pc, hi, ra, sp, t0, satp, mem, next, page, stvec, sie, sstatus>>

-----------------------------------------------------------------------------
(* The linker script.                                                      *)

PGROUNDUP(a) == PGSIZE * ((a + PGSIZE - 1) \div PGSIZE)

(* Mutant: .data without its ALIGN.                                        *)
SymUnaligned(l) ==
  LET stext   == VM_START + OPENSBI_SIZE
      srodata == PGROUNDUP(stext + l.text)
      sdata   == srodata + l.rodata
      uapp    == PGROUNDUP(sdata + l.data)
      stack   == PGROUNDUP(uapp + l.uapp)
  IN  [stext |-> stext, etext |-> stext + l.text,
       srodata |-> srodata, erodata |-> srodata + l.rodata,
       sdata |-> sdata, uapp_start |-> uapp, boot_stack |-> stack,
       early_pgtbl |-> stack + PGSIZE, swapper_pg_dir |-> stack + 2 * PGSIZE,
       ekernel |-> stack + 3 * PGSIZE + l.bss]

(* The symbols; uapp_start begins a page too, and the two tables are       *)
(* aligned variables of .bss, behind the stack.                            *)
Sym(l) ==
  LET stext   == VM_START + OPENSBI_SIZE
      srodata == PGROUNDUP(stext + l.text)
      sdata   == PGROUNDUP(srodata + l.rodata)
      uapp    == PGROUNDUP(sdata + l.data)
      stack   == PGROUNDUP(uapp + l.uapp)
  IN  [stext |-> stext, etext |-> stext + l.text,
       srodata |-> srodata, erodata |-> srodata + l.rodata,
       sdata |-> sdata, uapp_start |-> uapp, boot_stack |-> stack,
       early_pgtbl |-> stack + PGSIZE, swapper_pg_dir |-> stack + 2 * PGSIZE,
       ekernel |-> stack + 3 * PGSIZE + l.bss]

(* The RAM has room for the image, the tables and the first task.          *)
ASSUME LayoutsAssumption ==
  /\ BITMAP \in Nat
  /\ \A l \in Layouts :
       /\ l \in [text : Nat, rodata : Nat, data : Nat, uapp : Nat, bss : Nat]
       /\ VA2PA(Sym(l).ekernel) + BITMAP + PGSIZE * (PHY_SIZE \div (PGSIZE * FAN) + 6) <= PHY_END

s == Sym(lay)
early_pgtbl == s.early_pgtbl

(* Behind the bitmap, which buddy_init puts at the end of the image.       *)
free_page_start == s.ekernel + BITMAP

(* get_etext_start, get_etext_end and their like: the physical address.    *)
get(sym) == s[sym] - PA2VA_OFFSET

-----------------------------------------------------------------------------
(* Tables.  An entry is a page number and a set of rights.                 *)

VPN_0(va) == (va \div PGSIZE) % FAN
VPN_1(va) == (va \div (PGSIZE * FAN)) % FAN
VPN_2(va) == (va \div EARLY_PGSIZE) % FAN

PTE_V == 1
PTE_R == 2
PTE_W == 4
PTE_X == 8
PTE_U == 16

PG_NUM(addr)    == addr \div PGSIZE
VPN(pg_idx)     == [ppn |-> pg_idx, perm |-> {}]
With(pte, perm) == [ppn |-> pte.ppn, perm |-> pte.perm \cup perm]   (* pte | perm *)
ADDR2PTE(addr)  == VPN(PG_NUM(addr))
PTE2ADDR(pte)   == pte.ppn * PGSIZE
PTE2VA(pte)     == PA2VA_OFFSET + PTE2ADDR(pte)
PTE_VALID(pte)  == PTE_V \in pte.perm

page_table_t ==
  [0 .. FAN - 1 -> [ppn : Nat, perm : SUBSET {PTE_V, PTE_R, PTE_W, PTE_X, PTE_U}]]

Zeroed   == [i \in 0 .. FAN - 1 |-> VPN(0)]
RamPages == {a \in PHY_START .. PHY_END - 1 : a % PGSIZE = 0}

(* An entry as the hardware reads it.                                      *)
Leaf(pte)      == pte.perm \ {PTE_V} # {}
Maps(pte, off) == [pa |-> PTE2ADDR(pte) + off, perm |-> pte.perm]

Bare == [mode |-> 0, ppn |-> 0]
SV39 == 8

(* The walk of the hardware: where va is, and the rights.                  *)
Walk(root, va) ==
  LET e2 == mem[root.ppn * PGSIZE][VPN_2(va)]
      e1 == mem[PTE2ADDR(e2)][VPN_1(va)]
      e0 == mem[PTE2ADDR(e1)][VPN_0(va)]
  IN  IF root.mode # SV39 THEN [pa |-> va, perm |-> {PTE_V, PTE_R, PTE_W, PTE_X}]
      ELSE IF PTE_VALID(e2) /\ Leaf(e2) THEN Maps(e2, va % EARLY_PGSIZE)
      ELSE IF PTE_VALID(e2) /\ PTE_VALID(e1) THEN Maps(e0, va % PGSIZE)
      ELSE [pa |-> 0, perm |-> {}]

get_satp(pgtbl)  == [mode |-> SV39, ppn |-> PG_NUM(pgtbl - PA2VA_OFFSET)]
get_kernel_pgtbl == s.swapper_pg_dir

(* setup_pte, when the entry is not valid yet.  m is [mem, next], a table  *)
(* is named by its virtual address; the page of the new one is not cleared,*)
(* the RAM of a fresh machine is 0.                                        *)
setup_pte(m, table, idx) ==
  IF PTE_VALID(m.mem[VA2PA(table)][idx]) THEN m
  ELSE [mem  |-> [m.mem EXCEPT ![VA2PA(table)][idx] = With(ADDR2PTE(m.next), {PTE_V})],
        next |-> m.next + PGSIZE]

map_final_pgtbl(m, pgtbl, va, pa, perm) ==
  LET m2     == setup_pte(m, pgtbl, VPN_2(va))
      middle == PTE2VA(m2.mem[VA2PA(pgtbl)][VPN_2(va)])
      m1     == setup_pte(m2, middle, VPN_1(va))
      last   == PTE2VA(m1.mem[VA2PA(middle)][VPN_1(va)])
  IN  [m1 EXCEPT !.mem[VA2PA(last)][VPN_0(va)] = With(ADDR2PTE(pa), perm \cup {PTE_V})]

(* create_mapping: the general form of those loops.  The kernel does not   *)
(* call it.                                                                *)
create_mapping(m, pgtbl, va, pa, sz, perm) ==
  LET base  == PGROUNDUP(va)
      turns == (sz + PGSIZE - 1) \div PGSIZE
      after[k \in 0 .. turns] ==
        IF k = 0 THEN m
        ELSE map_final_pgtbl(after[k - 1], pgtbl, base + (k - 1) * PGSIZE, pa + (k - 1) * PGSIZE, perm)
  IN  after[turns]

(* Mutant: the first page behind a section gets the section's rights.      *)
FinalPermLate(va) ==
  IF va <= PGROUNDUP(s.etext) THEN {PTE_V, PTE_R, PTE_X}
  ELSE IF va <= PGROUNDUP(s.erodata) THEN {PTE_V, PTE_R}
  ELSE {PTE_W, PTE_R, PTE_V}

(* The rights that the three loops of setup_vm_final give a page.          *)
FinalPerm(va) ==
  IF va < PGROUNDUP(s.etext) THEN {PTE_V, PTE_R, PTE_X}
  ELSE IF va < PGROUNDUP(s.erodata) THEN {PTE_V, PTE_R}
  ELSE {PTE_W, PTE_R, PTE_V}

(* map_early_pgtbl, one entry for EARLY_PGSIZE addresses.                  *)
map_early_pgtbl(table, va, pa, perm) ==
  [table EXCEPT ![VPN_2(va)] = With(VPN(PG_NUM(pa)), perm)]

(* The loop of setup_vm: at the physical addresses and at the virtual.     *)
EarlyTable ==
  LET perm  == {PTE_V, PTE_R, PTE_W, PTE_X}
      turns == (VM_END - VM_START) \div EARLY_PGSIZE
      after[k \in 0 .. turns] ==
        IF k = 0 THEN Zeroed
        ELSE LET i == (k - 1) * EARLY_PGSIZE
             IN  map_early_pgtbl(map_early_pgtbl(after[k - 1], PHY_START + i, PHY_START + i, perm),
                                 VM_START + i, PHY_START + i, perm)
  IN  after[turns]

-----------------------------------------------------------------------------
(* _start runs at the address the image was loaded to: la, which is        *)
(* relative to pc, gives physical addresses.                               *)

Here(va) == IF hi THEN va ELSE VA2PA(va)

Init ==
  /\ lay \in Layouts
  /\ pc = "_start" /\ hi = FALSE /\ ra = FALSE
  /\ sp = PHY_START /\ t0 = 0 /\ satp = Bare
  /\ mem = [a \in RamPages |-> Zeroed]
  /\ next = PHY_START
  /\ page = VM_START + OPENSBI_SIZE
  /\ stvec = "none" /\ sie = FALSE /\ sstatus = FALSE

Goto(from, to) == pc = from /\ pc' = to

start ==
  /\ Goto("_start", "setup_vm")
  /\ sp' = Here(s.boot_stack) + PGSIZE
  /\ UNCHANGED <<lay, t0, page, hi, ra, satp, mem, next, stvec, sie, sstatus>>

reg_write(val) == t0' = val   (* the register is t0 in its only use          *)

(* t0 is taken to survive the printk that follows.                         *)
setup_vm ==
  /\ Goto("setup_vm", "relocate")
  /\ mem' = [mem EXCEPT ![Here(early_pgtbl)] = EarlyTable]
  /\ reg_write(PA2VA_OFFSET)
  /\ UNCHANGED <<lay, page, hi, ra, sp, satp, next, stvec, sie, sstatus>>

(* Mutant: sp is not moved.                                                *)
RelocateRa ==
  /\ Goto("relocate", "csrw satp")
  /\ ra' = (t0 = PA2VA_OFFSET) /\ sp' = sp
  /\ UNCHANGED <<lay, t0, page, hi, satp, mem, next, stvec, sie, sstatus>>

(* relocate: the return address and sp move by t0, pc itself does not.     *)
Relocate ==
  /\ Goto("relocate", "csrw satp")
  /\ ra' = (t0 = PA2VA_OFFSET) /\ sp' = sp + t0
  /\ UNCHANGED <<lay, t0, page, hi, satp, mem, next, stvec, sie, sstatus>>

SetEarly ==
  /\ Goto("csrw satp", "ret")
  /\ satp' = [mode |-> SV39, ppn |-> PG_NUM(Here(early_pgtbl))]
  /\ UNCHANGED <<lay, t0, page, hi, ra, sp, mem, next, stvec, sie, sstatus>>

Ret ==
  /\ Goto("ret", "stvec")
  /\ hi' = ra
  /\ UNCHANGED <<lay, t0, page, ra, sp, satp, mem, next, stvec, sie, sstatus>>

SetVector ==
  /\ Goto("stvec", "sie")
  /\ stvec' = IF hi THEN "virtual" ELSE "physical"
  /\ UNCHANGED <<lay, t0, page, hi, ra, sp, satp, mem, next, sie, sstatus>>

EnableTimer ==
  /\ Goto("sie", "sstatus")
  /\ sie' = TRUE
  /\ UNCHANGED <<lay, t0, page, hi, ra, sp, satp, mem, next, stvec, sstatus>>

EnableInterrupts ==
  /\ Goto("sstatus", "mm_init")
  /\ sstatus' = TRUE
  /\ UNCHANGED <<lay, t0, page, hi, ra, sp, satp, mem, next, stvec, sie>>

(* Mutant: the first page starts where the bitmap ends.                    *)
FirstFreeRaw(top) == top

(* Mutant: the page that holds the end of the bitmap is not reserved.      *)
FirstFreeDown(top) == PGSIZE * (top \div PGSIZE)

(* buddy_init takes the lowest page while it starts below free_page_start. *)
FirstFree(top) == CHOOSE a \in RamPages \cup {PHY_END} :
  a >= top /\ \A b \in RamPages : b < a => b < top

mm_init ==
  /\ Goto("mm_init", "setup_vm_final")
  /\ next' = FirstFree(VA2PA(free_page_start))
  /\ UNCHANGED <<lay, t0, page, hi, ra, sp, satp, mem, stvec, sie, sstatus>>

(* A turn of a loop of setup_vm_final.                                     *)
MapPage ==
  /\ pc = "setup_vm_final" /\ page < PA2VA(PHY_END)
  /\ LET m == map_final_pgtbl([mem |-> mem, next |-> next], get_kernel_pgtbl,
                              page, VA2PA(page), FinalPerm(page))
     IN  mem' = m.mem /\ next' = m.next
  /\ page' = page + PGSIZE
  /\ UNCHANGED <<lay, t0, pc, hi, ra, sp, satp, stvec, sie, sstatus>>

(* vm_init, once the loops are done: csrw satp.                            *)
vm_init ==
  /\ Goto("setup_vm_final", "task_init")
  /\ page = PA2VA(PHY_END)
  /\ satp' = get_satp(get_kernel_pgtbl)
  /\ UNCHANGED <<lay, t0, page, hi, ra, sp, mem, next, stvec, sie, sstatus>>

(* The pages of idle, of task[1] and of its root, and setup_user_pgtbl.    *)
UserRoot == next + 2 * PGSIZE

task_init ==
  /\ Goto("task_init", "schedule")
  /\ mem' = [mem EXCEPT ![UserRoot] = mem[VA2PA(get_kernel_pgtbl)]]
  /\ next' = next + 3 * PGSIZE
  /\ UNCHANGED <<lay, t0, page, hi, ra, sp, satp, stvec, sie, sstatus>>

(* __switch_to loads task[1]'s stack, the page's last address, and root.   *)
switch_to ==
  /\ Goto("schedule", "__dummy")
  /\ sp' = PA2VA(next - PGSIZE) - 1
  /\ satp' = get_satp(PA2VA(next - PGSIZE))
  /\ sstatus' = FALSE
  /\ UNCHANGED <<lay, t0, page, hi, ra, mem, next, stvec, sie>>

Next ==
  \/ start \/ setup_vm \/ Relocate \/ SetEarly \/ Ret
  \/ SetVector \/ EnableTimer \/ EnableInterrupts
  \/ mm_init \/ MapPage \/ vm_init \/ task_init \/ switch_to

Spec == Init /\ [][Next]_vars

-----------------------------------------------------------------------------
(* Properties.                                                             *)

Text   == s.stext .. s.etext - 1
Rodata == s.srodata .. s.erodata - 1
Written == s.sdata .. free_page_start - 1
Firmware == VM_START .. VM_START + OPENSBI_SIZE - 1
Kernel == VM_START + OPENSBI_SIZE .. PA2VA(PHY_END) - 1

(* The types; RAM did not run out.                                         *)
TypeOK ==
  /\ lay \in Layouts /\ hi \in BOOLEAN /\ ra \in BOOLEAN
  /\ satp = Bare \/ satp.ppn * PGSIZE \in RamPages
  /\ mem \in [RamPages -> page_table_t] /\ next \in RamPages
  /\ stvec \in {"none", "physical", "virtual"}
  /\ sie \in BOOLEAN /\ sstatus \in BOOLEAN

(* Whatever the root, the instruction after the one that changed it is     *)
(* fetched from where the loader put it, and the page under sp is memory   *)
(* that can be written: the early root maps the physical addresses too, as *)
(* long as pc is one, and no table is given up while something in use is   *)
(* not mapped the same way by its successor.  (relocate moves sp before    *)
(* satp, and uses no stack in between.)  An interrupt that could be taken  *)
(* finds its handler, at an address that stays mapped for good.            *)
KeepsRunning ==
  /\ \A va \in Text : LET e == Walk(satp, Here(va)) IN PTE_X \in e.perm /\ e.pa = VA2PA(va)
  /\ pc \notin {"_start", "csrw satp"} =>
       LET e == Walk(satp, sp - 1) IN PTE_W \in e.perm /\ e.pa \in PHY_START .. PHY_END - 1
  /\ sie /\ sstatus => stvec = "virtual"

(* The final root maps text R-X, rodata R--, everything else of the RAM    *)
(* RW-, at its physical address plus the offset, and nothing besides: no   *)
(* section shares a page with one of other rights.                         *)
Rights ==
  pc \in {"task_init", "schedule", "__dummy"} =>
    LET root == get_satp(get_kernel_pgtbl)
    IN  /\ \A va \in Kernel :
             LET e == Walk(root, va)
             IN  /\ e.pa = VA2PA(va)
                 /\ va \in Text => e.perm = {PTE_V, PTE_R, PTE_X}
                 /\ va \in Rodata => e.perm = {PTE_V, PTE_R}
                 /\ va \in Written => e.perm = {PTE_V, PTE_R, PTE_W}
                 /\ ~({PTE_W, PTE_X} \subseteq e.perm) /\ PTE_U \notin e.perm
        /\ \A va \in (PHY_START .. VM_END - 1) \ Kernel : PTE_V \notin Walk(root, va).perm

(* The loops of setup_vm_final leave, entry for entry, the tables that 3   *)
(* calls of create_mapping for the text, the read-only data and the rest   *)
(* of the RAM would leave.                                                 *)
Tables ==
  pc = "task_init" =>
    LET text   == get("stext")
        rodata == PGROUNDUP(get("etext"))
        rest   == PGROUNDUP(get("erodata"))
        Map(m, from, to, perm) ==
          create_mapping(m, get_kernel_pgtbl, PA2VA(from), from, to - from, perm)
        m0 == [mem  |-> [a \in RamPages |-> IF a = get("early_pgtbl") THEN EarlyTable ELSE Zeroed],
               next |-> FirstFree(VA2PA(free_page_start))]
    IN  Map(Map(Map(m0, text, rodata, {PTE_R, PTE_X}), rodata, rest, {PTE_R}),
            rest, PHY_END, {PTE_R, PTE_W}) = [mem |-> mem, next |-> next]

(* A page the allocator still has is part of nothing: neither the firmware *)
(* nor the image, the bitmap or a table is on it, and it can be written    *)
(* through its virtual address, under the root in use.                     *)
FreeIsFree ==
  hi /\ pc # "mm_init" /\ next > PHY_START =>
    \A a \in {b \in RamPages : b >= next} :
      /\ \A k \in 0 .. PGSIZE - 1 :
           PA2VA(a + k) \notin Firmware \cup Text \cup Rodata \cup Written
      /\ mem[a] = Zeroed
      /\ LET e == Walk(satp, PA2VA(a)) IN PTE_W \in e.perm /\ e.pa = a
=============================================================================
