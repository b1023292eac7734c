------------------------------ MODULE MCImage ------------------------------
(* Programs of a text and a data segment, with a header of another type in *)
(* between: on one page or on two, at every offset in a page, with and     *)
(* without a part that is not in the file, one that ends in the stack's    *)
(* neighbour page, one that is nowhere in the file.                        *)
EXTENDS Image

Segment(v, memsz, o, filesz, flags) ==
  [p_type |-> "PT_LOAD", p_vaddr |-> v, p_memsz |-> memsz, p_offset |-> o,
   p_filesz |-> filesz, p_flags |-> flags]

Note == [p_type |-> "other", p_vaddr |-> 0, p_memsz |-> 4, p_offset |-> 0,
         p_filesz |-> 4, p_flags |-> {"R"}]

Texts == {Segment(v, n, o, n, {"R", "X"}) : v \in {0, 1, 3}, n \in {2, 5}, o \in 0 .. 3}
Datas == {Segment(v, n + b, o, n, {"R", "W", "PROC"}) :
            v \in {3, 5, 6, 8}, n \in {0, 2, 3}, b \in {0, 3}, o \in 0 .. 6}

(* A file of the 64-bit format with these program headers: 56 bytes each,  *)
(* behind the 64 bytes of the first header or further on.                  *)
File(e_phoff, phdrs) ==
  [e_entry |-> phdrs[1].p_vaddr, e_phoff |-> e_phoff, e_phnum |-> Len(phdrs),
   e_phentsize |-> 56,
   at |-> [o \in {e_phoff + 56 * k : k \in 0 .. Len(phdrs) - 1} |->
             phdrs[(o - e_phoff) \div 56 + 1]]]

MCImages ==
  {f \in {File(64 + 8 * t.p_offset, <<t, Note, d>>) :
            t \in Texts, d \in {d1 \in Datas : d1.p_memsz > 0}} : Linked(f)}

=============================================================================
