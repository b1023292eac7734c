----------------------------- MODULE MCLibrary ------------------------------
(* The library functions.  rand and the printing functions share no state: *)
(* a behaviour calls the one or the others.                                *)
(*                                                                         *)
(* Formats of at most two pieces for an 8-bit int and a 12-bit long; those *)
(* of printf have texts of different lengths, so that every stretch of     *)
(* buffer holds the rest of an earlier call.                               *)
EXTENDS Console, Rand

Numbers == {-2047, -128, 0, 10}
Unsigned == {0, 127}
L == Code.l

KernelPieces ==
  {Literal(<<65>>)}
  \cup {Conv(s, "d", Word(n)) : s \in {<<>>, <<L>>}, n \in Numbers \ {-128}}
  \cup {Conv(<<L>>, "d", Word(-128)), Conv(<<53>>, "d", Word(7))}
  \cup {Conv(s, "u", Word(n)) : s \in {<<>>, <<L>>}, n \in Unsigned}
  \cup {Conv(<<L>>, "u", Word(2000))}
  \cup {Conv(s, "x", Word(n)) : s \in {<<>>, <<L>>}, n \in Numbers}
  \cup {Conv(<<>>, "s", Str(s)) : s \in {<<>>, <<66, 67>>}}
  \cup {Conv(<<>>, "c", Word(68))}

(* The call with most arguments, two of them longs; its literal characters *)
(* are one between two conversions.                                        *)
print_task(pid, counter, priority, sp, sepc) ==
  <<Conv(<<>>, "d", Word(pid)), Literal(<<44>>),
    Conv(<<>>, "d", Word(counter)), Literal(<<44>>),
    Conv(<<>>, "d", Word(priority)), Literal(<<44>>),
    Conv(<<L>>, "x", Word(sp)), Literal(<<44>>),
    Conv(<<L>>, "x", Word(sepc)), Literal(<<10>>)>>

UserPieces ==
  {Conv(<<>>, "d", Word(n)) : n \in {-12, 0}}
  \cup {Conv(<<L>>, "x", Word(-2)), Conv(<<>>, "u", Word(105)),
        Conv(<<>>, "s", Str(<<66, 67>>)), Literal(<<10>>)}

MCKernelInputs ==
  BoundedSeq(KernelPieces, 2)
  \cup {print_task(pid, counter, 10, -2047, 2000) : pid \in {1, 15}, counter \in {0, 7}}
MCUserInputs   == BoundedSeq(UserPieces, 2)
MCTexts == {<<>>, <<66>>, <<66, 67, 10>>}
MCInts == {-127, -10, 0, 9, 120}

LibraryInit == Init /\ RandInit

LibraryNext ==
  \/ filled = 0 /\ Next /\ UNCHANGED rvars
  \/ FormatInit /\ RandNext /\ UNCHANGED vars

LibrarySpec == LibraryInit /\ [][LibraryNext]_<<vars, rvars>>
=============================================================================
