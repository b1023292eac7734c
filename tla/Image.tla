------------------------------- MODULE Image -------------------------------
(***************************************************************************)
(* What a program finds in its memory: the areas load_elf_program makes of *)
(* the program headers, and the bytes and permissions do_page_fault gives  *)
(* each page on the first access to it.  The page tables and frames behind *)
(* this are in AddrSpace; here one program runs, and bytes are told apart. *)
(*                                                                         *)
(* The program is linked into the kernel at uapp_start, which the linker   *)
(* script aligns to a page.  Byte n of the file is n + 1, so that a byte   *)
(* names the place it comes from.                                          *)
(***************************************************************************)
EXTENDS Integers, Sequences, FiniteSets, SequencesExt

CONSTANTS
  PGSIZE,      (* bytes in a page                                          *)
  USER_END,    (* end of user addresses; the last page is the stack        *)
  FILE_SIZE,   (* uapp_end - uapp_start                                    *)
  MAX_STORES,  (* bound of the model: addresses the program stores to      *)
  Images       (* the files that are tried                                 *)

PGROUNDDOWN(a) == (a \div PGSIZE) * PGSIZE
PGROUNDUP(a)   == PGROUNDDOWN(a + PGSIZE - 1)

Rights      == {"R", "W", "X"}
Addresses   == 0 .. USER_END - 1
PageNumbers == 0 .. USER_END \div PGSIZE - 1
Page(a)     == a \div PGSIZE

(* The two headers as the kernel's elf.h lays them out, their fields by    *)
(* type; EI_NIDENT bytes come before those of the first.                   *)
bytes      == [uint16_t |-> 2, uint32_t |-> 4, uint64_t |-> 8]
Elf64      == [Half |-> bytes.uint16_t, Word |-> bytes.uint32_t, Xword |-> bytes.uint64_t,
               Addr |-> bytes.uint64_t, Off |-> bytes.uint64_t]
Elf64_Ehdr == <<"Half", "Half", "Word", "Addr", "Off", "Off", "Word",
                "Half", "Half", "Half", "Half", "Half", "Half">>
Elf64_Phdr == <<"Word", "Word", "Off", "Addr", "Addr", "Xword", "Xword", "Xword">>
EI_NIDENT  == 16
sizeof(struct) == FoldLeft(LAMBDA n, type : n + Elf64[type], 0, struct)

(* Only one type of segment is told from the others.                       *)
Types == {"PT_LOAD", "other"}

(* PF_R, PF_W and PF_X, and the bits of PF_MASKOS and PF_MASKPROC, which   *)
(* mean nothing to the kernel.                                             *)
ElfFlags == Rights \cup {"OS", "PROC"}

(* A program header, as far as the kernel reads it.                        *)
Headers == [p_type : Types, p_vaddr : Nat, p_memsz : Nat,
            p_offset : Nat, p_filesz : Nat, p_flags : SUBSET ElfFlags]

(* A file: its first header, and the program headers where they are, one   *)
(* every e_phentsize bytes.  (They have their real places; the pages and   *)
(* the bytes that the segments map are few, and counted apart from them.)  *)
IsFile(f) ==
  /\ f.e_entry \in Nat /\ f.e_phnum \in Nat /\ f.e_phentsize \in Nat
  /\ f.e_phoff >= EI_NIDENT + sizeof(Elf64_Ehdr)
  /\ f.at \in [{f.e_phoff + f.e_phentsize * k : k \in 0 .. f.e_phnum - 1} -> Headers]

Spans(h, a) == h.p_vaddr <= a /\ a < h.p_vaddr + h.p_memsz
PagesOf(h)  == Page(h.p_vaddr) .. Page(h.p_vaddr + h.p_memsz - 1)
Loads(f)    == {h \in {f.at[o] : o \in DOMAIN f.at} : h.p_type = "PT_LOAD"}

(* What a linker guarantees: segments lie in the program's half of the     *)
(* address space, apart from each other, with offsets congruent to the     *)
(* addresses; two that share a page of memory share that page of the file; *)
(* the entry is in one that can be executed.                               *)
Linked(f) ==
  /\ \E h \in Loads(f) : Spans(h, f.e_entry) /\ "X" \in h.p_flags
  /\ \A h \in Loads(f) :
       /\ h.p_filesz <= h.p_memsz /\ h.p_memsz > 0
       /\ h.p_vaddr + h.p_memsz <= USER_END - PGSIZE
       /\ h.p_offset + h.p_filesz <= FILE_SIZE
       /\ h.p_vaddr % PGSIZE = h.p_offset % PGSIZE
       /\ \A g \in Loads(f) \ {h} :
            /\ {a \in Addresses : Spans(h, a) /\ Spans(g, a)} = {}
            /\ PagesOf(h) \cap PagesOf(g) # {} => h.p_vaddr - h.p_offset = g.p_vaddr - g.p_offset

ASSUME SizesAssumption ==
  /\ PGSIZE \in Nat \ {0} /\ FILE_SIZE \in Nat /\ MAX_STORES \in Nat
  /\ USER_END \in Nat /\ USER_END % PGSIZE = 0 /\ USER_END > PGSIZE
ASSUME ImagesAssumption == \A f \in Images : IsFile(f) /\ Linked(f)

(* The entry size that linkers write, which load_elf_program does not look *)
(* at, is that of the kernel's structure.                                  *)
ASSUME HeadersAssumption == \A f \in Images : f.e_phentsize = sizeof(Elf64_Phdr)

VARIABLES
  image,   (* uapp, the file                                               *)
  i,       (* load_elf_program: the header its loop is at                  *)
  vmas,    (* task->vmas[0 .. vma_cnt-1]                                   *)
  mapped,  (* mapped[n], page n as the page table has it: its bytes and    *)
           (* permissions; no permissions when it is not valid             *)
  mode,    (* "loading" in the kernel, at the "entry", then in "user"      *)
           (* code, or "halted"                                            *)
  retry,   (* the access that faulted last and is tried again, or NoAccess *)
  stored   (* addresses the program stored to.  Not state of the code.     *)

vars == <<image, i, vmas, mapped, mode, retry, stored>>

-----------------------------------------------------------------------------
(* Permissions.  A set of flags is the bits that are 1.                    *)

(* Mutant: the write permission is dropped on the way to the page table.   *)
map_vm_perm_readonly(vm_flags) == vm_flags \cap {"R", "X"}

(* Mutant: the flags of the area are used as they are.                     *)
map_vm_perm_raw(vm_flags) == vm_flags

(* VM_X_MASK, VM_W_MASK, VM_R_MASK, VM_ANONYM.                             *)
VmFlags == Rights \cup {"VM_ANONYM"}

(* !!(vm_perm & VM_R_MASK) * PTE_R | ...                                   *)
map_vm_perm(vm_flags) == {b \in Rights : vm_flags \cap {b} # {}}

(* !!(elf_perm | PF_W) * VM_W_MASK | ...                                   *)
perm_elf2vm(elf_perm) == {b \in Rights : elf_perm \cup {b} # {}}

(* The rights of a user's page: those of its area, PTE_U and PTE_V (which  *)
(* all pages with rights have).                                            *)
PtePerm(v) == map_vm_perm(v.vm_flags) \cup {"U"}

-----------------------------------------------------------------------------
(* Areas.                                                                  *)

vm_area_struct ==
  [vm_start : Nat, vm_end : Nat, vm_flags : SUBSET VmFlags,
   vm_content_offset_in_file : Nat, vm_content_size_in_file : Nat]

(* do_mmap.                                                                *)
Area(addr, length, flags, offset, size) ==
  [vm_start |-> addr, vm_end |-> addr + length, vm_flags |-> flags,
   vm_content_offset_in_file |-> offset, vm_content_size_in_file |-> size]

(* setup_user_pgtbl: the stack.                                            *)
StackArea == Area(USER_END - PGSIZE, PGSIZE, {"R", "W", "VM_ANONYM"}, 0, 0)

(* Mutant: the last byte of an area counts as outside.                     *)
InAreaShort(v, a) == v.vm_start <= a /\ a < v.vm_end - 1

InArea(v, a) == v.vm_start <= a /\ a < v.vm_end

(* find_vma: the first area that holds a.                                  *)
FoundVma(n, a) ==
  n \in DOMAIN vmas /\ InArea(vmas[n], a) /\ \A m \in 1 .. n - 1 : ~InArea(vmas[m], a)

-----------------------------------------------------------------------------
(* Pages.                                                                  *)

Zeroed    == [o \in 0 .. PGSIZE - 1 |-> 0]
NotMapped == [byte |-> Zeroed, perm |-> {}]
Foreign   == -1                  (* a byte of the kernel's own data        *)
Written   == -2                  (* a byte the program stored              *)
NoAccess  == <<0, "none">>

(* The byte at uapp_start + n: the file, the padding of the linker script  *)
(* to the end of the page, and the kernel's .bss behind it.                *)
FileByte(n) == IF n < FILE_SIZE THEN n + 1
               ELSE IF n < PGROUNDUP(FILE_SIZE) THEN 0 ELSE Foreign

(* Mutant: the mapping loop runs one page too far.                         *)
SectionWide(base, top) == Page(base) .. Page(PGROUNDUP(top))

(* The pages of a mem_section.                                             *)
Section(base, top) == Page(base) .. Page(PGROUNDUP(top)) - 1

(* alloc_elf_mem: zeroed pages from where on, file_size bytes copied, the  *)
(* page table entries replaced.                                            *)
AllocElfMem(file_seg_start, file_size, mem_size, where, perm) ==
  [n \in PageNumbers |->
    IF n \in Section(where, where + mem_size)
    THEN [byte |-> [o \in 0 .. PGSIZE - 1 |->
                      LET at == n * PGSIZE + o - where
                      IN  IF at \in 0 .. file_size - 1 THEN FileByte(file_seg_start + at) ELSE 0],
          perm |-> perm]
    ELSE mapped[n]]

(* alloc_annoymous_vm: the whole area, zeroed.                             *)
AllocAnonymous(v) ==
  [n \in PageNumbers |->
    IF n \in Section(v.vm_start, v.vm_end)
    THEN [byte |-> Zeroed, perm |-> PtePerm(v)]
    ELSE mapped[n]]

(* Mutant: the page is taken from the file without its offset in the area. *)
FirstFilePage(v, a) == PGROUNDDOWN(v.vm_content_offset_in_file)

(* The page of the file do_page_fault copies for an access to a.           *)
FilePageStart(v, a) == PGROUNDDOWN(v.vm_content_offset_in_file + (a - v.vm_start))

-----------------------------------------------------------------------------
(* task_init: setup_user_pgtbl, then load_program.                         *)

Init ==
  /\ image \in Images
  /\ i = 0
  /\ vmas = <<StackArea>>
  /\ mapped = [n \in PageNumbers |-> NotMapped]
  /\ mode = "loading"
  /\ retry = NoAccess
  /\ stored = {}

(* One turn of the loop in load_elf_program.                               *)
LoadHeader ==
  /\ mode = "loading" /\ i < image.e_phnum
  /\ LET phdr_start == image.e_phoff
         h == image.at[phdr_start + sizeof(Elf64_Phdr) * i]
     IN  vmas' = IF h.p_type # "PT_LOAD" THEN vmas
                 ELSE Append(vmas, Area(h.p_vaddr, h.p_memsz, perm_elf2vm(h.p_flags),
                                        h.p_offset, h.p_filesz))
  /\ i' = i + 1
  /\ UNCHANGED <<image, mapped, mode, retry, stored>>

(* thread.sepc = e_entry, and sret.                                        *)
FirstRun ==
  /\ mode = "loading" /\ i = image.e_phnum
  /\ mode' = "entry"
  /\ UNCHANGED <<image, i, vmas, mapped, retry, stored>>

-----------------------------------------------------------------------------
(* User code.                                                              *)

Permitted(a, k) == {k, "U"} \subseteq mapped[Page(a)].perm

(* The instruction at sepc is tried again after a page fault.              *)
Tried(a, k) ==
  \/ mode = "user" /\ retry \in {NoAccess, <<a, k>>}
  \/ mode = "entry" /\ a = image.e_entry /\ k = "X"

(* An access that succeeds; what a store leaves is in Store.               *)
Access(a, k) ==
  /\ Tried(a, k) /\ Permitted(a, k)
  /\ retry' = NoAccess
  /\ UNCHANGED <<image, i, vmas, mapped, mode, stored>>

Store(a) ==
  /\ Tried(a, "W") /\ Permitted(a, "W")
  /\ Cardinality(stored \cup {a}) <= MAX_STORES
  /\ mapped' = [mapped EXCEPT ![Page(a)].byte[a % PGSIZE] = Written]
  /\ stored' = stored \cup {a}
  /\ retry'  = NoAccess
  /\ UNCHANGED <<image, i, vmas, mode>>

(* do_page_fault in area n.                                                *)
PageFault(a, k) ==
  /\ Tried(a, k) /\ ~Permitted(a, k)
  /\ \E n \in DOMAIN vmas :
       /\ FoundVma(n, a)
       /\ LET v == vmas[n]
          IN  mapped' = IF "VM_ANONYM" \in v.vm_flags THEN AllocAnonymous(v)
                        ELSE AllocElfMem(FilePageStart(v, a), PGSIZE, PGSIZE,
                                         PGROUNDDOWN(a), PtePerm(v))
  /\ retry' = <<a, k>>
  /\ mode'  = "user"
  /\ UNCHANGED <<image, i, vmas, stored>>

(* No area holds the address: halt().                                      *)
FaultNoVma(a, k) ==
  /\ Tried(a, k) /\ ~Permitted(a, k)
  /\ ~\E n \in DOMAIN vmas : FoundVma(n, a)
  /\ mode' = "halted"
  /\ UNCHANGED <<image, i, vmas, mapped, retry, stored>>

Next ==
  \/ LoadHeader
  \/ FirstRun
  \/ \E a \in Addresses : Store(a)
  \/ \E a \in Addresses, k \in Rights : Access(a, k) \/ PageFault(a, k) \/ FaultNoVma(a, k)

Spec == Init /\ [][Next]_vars

-----------------------------------------------------------------------------
(* Properties.                                                             *)

(* Every variable keeps its type; areas are one per loaded header, behind  *)
(* the stack.                                                              *)
TypeOK ==
  /\ IsFile(image)
  /\ i \in 0 .. image.e_phnum
  /\ Len(vmas) = 1 + Cardinality({j \in 0 .. i - 1 :
                       image.at[image.e_phoff + image.e_phentsize * j].p_type = "PT_LOAD"})
  /\ vmas \in Seq(vm_area_struct)
  /\ mapped \in [PageNumbers -> [byte : [0 .. PGSIZE - 1 -> Int], perm : SUBSET (Rights \cup {"U"})]]
  /\ mode \in {"loading", "entry", "user", "halted"}
  /\ retry \in {NoAccess} \cup Addresses \X Rights
  /\ stored \in SUBSET Addresses

ByteAt(a) == mapped[Page(a)].byte[a % PGSIZE]
Untouched(a) == mapped[Page(a)].perm # {} /\ a \notin stored

(* However the program came to touch its pages, in whatever order and      *)
(* through whichever segment, an address in the part of a segment that is  *)
(* in the file holds the byte the header puts there (trap.c:25 takes the   *)
(* page of the file that belongs to the page of memory), and the stack     *)
(* starts as zeros, whatever page alloc_pages returned.                    *)
FilePartLoaded ==
  /\ \A h \in Loads(image) : \A a \in h.p_vaddr .. h.p_vaddr + h.p_filesz - 1 :
       Untouched(a) => ByteAt(a) = FileByte(h.p_offset + (a - h.p_vaddr))
  /\ \A a \in USER_END - PGSIZE .. USER_END - 1 : Untouched(a) => ByteAt(a) = 0

(* find_vma finds every address a header asked for, and those of the       *)
(* stack, so that a program halts the kernel only outside them.            *)
SegmentsFound ==
  mode = "user" =>
    \A a \in Addresses :
      (\E n \in DOMAIN vmas : FoundVma(n, a))
        <=> a >= USER_END - PGSIZE \/ \E h \in Loads(image) : Spans(h, a)

(* The program jumped to its stack, whose area has no VM_X_MASK.           *)
JumpToStack(access) == access[2] = "X" /\ access[1] >= USER_END - PGSIZE

(* A fault that finds an area serves the access that caused it: the        *)
(* instruction succeeds when it is tried again (trap.c, do_page_fault).    *)
(* The one exception is a jump to the stack: whatever do_page_fault maps,  *)
(* it lacks PTE_X, and the process faults on the same instruction for ever *)
(* instead of being stopped.                                               *)
FaultIsServed ==
  retry # NoAccess => (Permitted(retry[1], retry[2]) <=> ~JumpToStack(retry))

(* What a fault takes away.  map_final_pgtbl replaces a page that is       *)
(* mapped without looking, so this depends on no fault being taken on a    *)
(* page that already has the rights.  It is so but for a jump to the       *)
(* stack, each fault of which replaces the whole stack by zeros; else the  *)
(* bytes of a page that is mapped change by the program's stores only, and *)
(* its rights never.                                                       *)
NothingLost ==
  [][\A n \in PageNumbers : mapped[n].perm # {} =>
       IF JumpToStack(retry') /\ n = Page(USER_END - PGSIZE)
       THEN mapped'[n] = [byte |-> Zeroed, perm |-> PtePerm(StackArea)]
       ELSE /\ mapped'[n].perm = mapped[n].perm
            /\ \A o \in 0 .. PGSIZE - 1 :
                 mapped'[n].byte[o] = IF n * PGSIZE + o \in stored' THEN Written
                                      ELSE mapped[n].byte[o]]_vars

(* From a doc: vm_content_size_in_file, the length of the content in the   *)
(* file, is not the same as vm_end - vm_start (vma.h:25): behind the part  *)
(* that is in the file the area is zeros.                                  *)
BssZero ==
  \A h \in Loads(image) :
    \A a \in h.p_vaddr + h.p_filesz .. h.p_vaddr + h.p_memsz - 1 :
      Untouched(a) => ByteAt(a) = 0

=============================================================================
