---------------------------- MODULE MCAddrSpace ----------------------------
(* A stack, and a program whose two file-backed areas lie in one page.     *)
EXTENDS AddrSpace

Text  == <<0, 0, 0>>
Stack == <<0, 1, 0>>

MCVmas == << [pages |-> <<Stack>>, anon |-> TRUE],
             [pages |-> <<Text>>,  anon |-> FALSE],
             [pages |-> <<Text>>,  anon |-> FALSE] >>

MCFile == [p \in {Text, Stack} |-> IF p = Stack THEN 0 ELSE 1]

=============================================================================
