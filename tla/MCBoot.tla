------------------------------- MODULE MCBoot -------------------------------
(* Sections of 0 to 3 addresses: empty, part of a page, a page, more.      *)
EXTENDS Boot

MCLayouts == [text : 1 .. 3, rodata : 0 .. 3, data : 0 .. 3, uapp : 1 .. 3, bss : 0 .. 2]
=============================================================================
