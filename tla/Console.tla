------------------------------ MODULE Console -------------------------------
(***************************************************************************)
(* Everything that prints: the kernel's printk, puts and puti, one SBI     *)
(* call for a character, and printf of the user library, which formats     *)
(* into a global buffer and makes one write system call, which stops at    *)
(* the first NUL.                                                          *)
(***************************************************************************)
EXTENDS Vprintfmt, Sbi

CONSTANTS
  BUFFER,         (* characters in buffer                                  *)
  KernelInputs,   (* calls of printk, as the pieces of their formats       *)
  Texts,          (* strings for puts                                      *)
  Ints,           (* numbers for puti                                      *)
  UserInputs      (* calls of printf                                       *)

ASSUME BufferAssumption == BUFFER \in Nat \ {0}
ASSUME InputsAssumption ==
  /\ KernelInputs \subseteq Seq(Pieces) /\ UserInputs \subseteq Seq(Pieces)
  /\ Texts \subseteq Seq(1 .. 127)
  /\ Ints \subseteq 1 - Pow2[INT_BITS - 1] .. Pow2[INT_BITS - 1] - 1

VARIABLES
  buffer, tail,   (* the globals: nothing clears buffer between two calls  *)
  console,        (* what the last write put on the console                *)
  res             (* what the last printf returned                         *)

user_vars == <<buffer, tail, console, res>>
vars == <<format_vars, user_vars>>

STDOUT == 1

Init ==
  /\ FormatInit
  /\ buffer = [i \in 1 .. BUFFER |-> 0]
  /\ tail = 0 /\ console = <<>> /\ res = 0

-----------------------------------------------------------------------------
(* The kernel.  Bound of the model: one call, as the kernel's functions    *)
(* keep nothing between two and share nothing with the user library.       *)

putc(c) == sbi_ecall(SBI_PUTCHAR, 0, c)

(* What the firmware has shown of the kernel's characters.                 *)
Terminal ==
  [i \in DOMAIN out |-> IF putc(out[i]).a7 = SBI_PUTCHAR THEN putc(out[i]).a0 ELSE NUL]

Calls == {Format(ps) : ps \in KernelInputs}

PrintkCall == FormatInit /\ (\E in \in Calls : Call("kernel", in)) /\ UNCHANGED user_vars

PrintkStep == copy = "kernel" /\ Step /\ UNCHANGED user_vars

PrintkReturn ==
  /\ AtEnd /\ copy = "kernel"
  /\ va_end
  /\ running' = FALSE
  /\ UNCHANGED <<copy, call, fmt, in_format, longarg, out, pos, user_vars>>

(* The characters puti prints.                                             *)
Puti(x) ==
  (IF x = 0 THEN <<Zero>> ELSE <<>>)
  \o (IF x < 0 THEN <<Minus>> ELSE <<>>)
  \o Reverse(DecChar[Wrap(IF x < 0 THEN -x ELSE x, INT_BITS)]) \o <<10>>

(* puts and puti have neither a format nor a count.                        *)
Direct(printed, text) ==
  /\ FormatInit
  /\ copy' = "kernel"
  /\ out' = printed
  /\ pos' = Len(printed)
  /\ call' = [fmt |-> <<>>, args |-> <<>>, text |-> text]
  /\ UNCHANGED <<fmt, args, in_format, longarg, running, user_vars>>

PutsCall == \E s \in Texts : Direct(s, s)
PutiCall == \E x \in Ints : Direct(Puti(x), Append(Signed(x), 10))

-----------------------------------------------------------------------------
(* The user library, and the system call.                                  *)

(* Mutant: the loop looks at size only.                                    *)
SysWriteAll(fd, buf, size) ==
  /\ console' = (IF fd = STDOUT THEN <<36, 32>> ELSE <<>>) \o SubSeq(buf, 1, size)
  /\ res' = size

(* sys_write(fd, buf, size): "$ ", then the characters before size and     *)
(* before a NUL, which it counts.                                          *)
SysWrite(fd, buf, size) ==
  LET nul == SelectInSubSeq(buf, 1, size, LAMBDA ch : ch = NUL)
      cnt == IF fd # STDOUT THEN 0 ELSE IF nul = 0 THEN size ELSE nul - 1
  IN  /\ console' = (IF fd = STDOUT THEN <<36, 32>> ELSE <<>>) \o SubSeq(buf, 1, cnt)
      /\ res' = cnt

(* putc for each character of new.                                         *)
Putc(new) ==
  /\ buffer' = [i \in 1 .. BUFFER |->
                  IF i \in tail + 1 .. tail + Len(new) THEN new[i - tail] ELSE buffer[i]]
  /\ tail' = tail + Len(new)

(* Calls whose text and NUL fit the buffer: putc does not look.            *)
Fitting == {in \in {Format(ps) : ps \in UserInputs} : Len(in.text) < BUFFER}

Printf == \E in \in Fitting :
  /\ FormatInit \/ copy = "user"
  /\ Call("user", in)
  /\ tail' = 0
  /\ UNCHANGED <<buffer, console, res>>

PrintfStep ==
  /\ copy = "user" /\ Step
  /\ Putc(SubSeq(out', Len(out) + 1, Len(out')))
  /\ UNCHANGED <<console, res>>

(* The end of vprintfmt: buffer[tail++] = '\0', the call, and the return,  *)
(* whose value is the system call's and not pos.                           *)
Write ==
  /\ AtEnd /\ copy = "user"
  /\ Putc(<<NUL>>)
  /\ SysWrite(STDOUT, buffer', tail')
  /\ va_end
  /\ running' = FALSE
  /\ UNCHANGED <<copy, call, fmt, in_format, longarg, out, pos>>

Next ==
  \/ PrintkCall \/ PrintkStep \/ PrintkReturn \/ PutsCall \/ PutiCall
  \/ Printf \/ PrintfStep \/ Write

Spec == Init /\ [][Next]_vars

-----------------------------------------------------------------------------
(* The types; a count that fell below 0 would be a huge size_t, tail never *)
(* leaves the buffer, and no NUL reaches the console from a program.       *)
TypeOK ==
  /\ copy \in {"kernel", "user"}
  /\ out \in Seq(0 .. 127) /\ fmt \in Seq(1 .. 127)
  /\ args \in Seq([word : Long, str : Seq(1 .. 127)])
  /\ in_format \in BOOLEAN /\ longarg \in BOOLEAN /\ running \in BOOLEAN
  /\ pos \in Nat
  /\ buffer \in [1 .. BUFFER -> 0 .. 127]
  /\ tail \in 0 .. BUFFER /\ res \in 0 .. BUFFER
  /\ console \in Seq(1 .. 127) /\ Len(console) <= BUFFER + 1

(* What can be seen of s.                                                  *)
Shown(s) == FlattenSeq([i \in DOMAIN s |-> IF s[i] = NUL THEN <<>> ELSE <<s[i]>>])

(* A call that has ended showed exactly the text its format and arguments  *)
(* promise: every l reached its own conversion and no other, every         *)
(* argument was taken by its own conversion, and no number lost a digit.   *)
(* The NUL that printk sends before a number is not visible, but counts in *)
(* its result, as all that it sends.                                       *)
PrintsPromise ==
  /\ ~running => Shown(IF copy = "kernel" THEN Terminal ELSE out) = call.text
  /\ copy = "kernel" => pos = Len(out)

(* A write shows the whole text the call promises and nothing of an        *)
(* earlier, longer one that is still in the buffer, and returns its length.*)
WritesPromise ==
  ~running /\ copy = "user" => console = <<36, 32>> \o call.text /\ res = Len(call.text)

=============================================================================
