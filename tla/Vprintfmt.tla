----------------------------- MODULE Vprintfmt -----------------------------
(***************************************************************************)
(* The formatter of printk.c, one character of the format per step.  The   *)
(* user library has a copy of it in printf.c, which prints and counts      *)
(* decimal numbers differently.                                            *)
(*                                                                         *)
(* Characters are their codes.  An argument is what va_arg finds: a word   *)
(* that is read as a long or, its lower half, as an int, or a string.      *)
(***************************************************************************)
EXTENDS Integers, Sequences, SequencesExt

CONSTANTS
  INT_BITS,      (* bits of an int                                         *)
  LONG_BITS      (* bits of a long                                         *)

ASSUME BitsAssumption ==
  /\ INT_BITS \in Nat \ {0} /\ LONG_BITS \in Nat /\ LONG_BITS > INT_BITS
  /\ INT_BITS % 4 = 0 /\ LONG_BITS % 4 = 0

VARIABLES
  copy,       (* the code that runs or ran last: "kernel" or "user"        *)
  call,       (* [fmt, args, text] of the call that runs or ran last, text *)
              (* being what its format and arguments promise               *)
  fmt,        (* the rest of the format                                    *)
  args,       (* the arguments va_arg has not reached                      *)
  in_format,
  longarg,
  out,        (* what was passed to putch                                  *)
  pos,
  running     (* inside vprintfmt                                          *)

format_vars == <<copy, call, fmt, args, in_format, longarg, out, pos, running>>

-----------------------------------------------------------------------------
(* Words and digits.                                                       *)

(* The powers of b: shifts and digits are quotients by them.               *)
Power(b) == LET P[k \in 0 .. LONG_BITS] == IF k = 0 THEN 1 ELSE b * P[k - 1]
            IN  [k \in 0 .. LONG_BITS |-> P[k]]
Pow2  == Power(2)
Pow10 == Power(10)

Wrap(n, bits) == LET u == n % Pow2[bits] IN IF u < Pow2[bits - 1] THEN u ELSE u - Pow2[bits]
Long          == -Pow2[LONG_BITS - 1] .. Pow2[LONG_BITS - 1] - 1

(* C's division and remainder truncate towards 0.                          *)
Quotient(n, d)  == IF n >= 0 THEN n \div d ELSE -((-n) \div d)
Remainder(n, d) == n - d * Quotient(n, d)

Minus == 45
Zero  == 48
NUL   == 0

(* decchar[0 .. bits-1]: the lowest digit first.                           *)
DecChar[tmp \in Long] ==
  IF tmp = 0 THEN <<>>
  ELSE <<Zero + Remainder(tmp, 10)>> \o DecChar[Quotient(tmp, 10)]

HexChar(hex) == IF hex < 10 THEN Zero + hex ELSE 97 + hex - 10

HexText(num, hexdigits) ==
  [k \in 1 .. hexdigits |-> HexChar((num \div Pow2[4 * (hexdigits - k)]) % 16)]

-----------------------------------------------------------------------------
(* The conversions.                                                        *)

Conversions == {"x", "d", "u", "s", "c"}
Code == [x |-> 120, d |-> 100, u |-> 117, s |-> 115, c |-> 99, l |-> 108, percent |-> 37]

(* for (i = bits; i >= 0; i--): the character behind the highest digit,    *)
(* which is '0' for the number 0 and NUL for all others, comes first.      *)
PrintedKernel(decchar) == IF decchar = <<>> THEN <<Zero>> ELSE Reverse(Append(decchar, NUL))

(* for (i = bits - 1; i >= 0; i--), bits being at least 1.                 *)
PrintedUser(decchar) == IF decchar = <<>> THEN <<Zero>> ELSE Reverse(decchar)

Digits(num) ==
  IF copy = "kernel" THEN PrintedKernel(DecChar[num]) ELSE PrintedUser(DecChar[num])

(* Mutant: the user library's count.                                       *)
CountedShort(k, bits) == IF k = "d" THEN bits + 1 ELSE bits - 1

(* What the digits add to pos.                                             *)
CountedKernel(k, bits) == bits + 1

CountedUser(k, bits) ==
  LET n == IF bits = 0 THEN 1 ELSE bits IN IF k = "d" THEN n + 1 ELSE n - 1

Counted(k, num) ==
  LET bits == Len(DecChar[num])
  IN  IF copy = "kernel" THEN CountedKernel(k, bits) ELSE CountedUser(k, bits)

(* A va_list is the arguments that are left.                               *)
va_start(in) == args' = in.args
va_arg       == Head(args)
va_next      == args' = Tail(args)
va_end       == args' = <<>>

(* Read as a long or as an int.                                            *)
Number(arg) == IF longarg THEN Wrap(arg.word, LONG_BITS) ELSE Wrap(arg.word, INT_BITS)

Text(k, arg) ==
  LET num == Number(arg)
  IN  CASE k = "x" -> HexText(num, (IF longarg THEN LONG_BITS ELSE INT_BITS) \div 4)
        [] k = "d" -> IF num < 0 THEN <<Minus>> \o Digits(Wrap(-num, LONG_BITS)) ELSE Digits(num)
        [] k = "u" -> Digits(num)
        [] k = "s" -> arg.str
        [] k = "c" -> <<arg.word>>

Advance(k, arg) ==
  LET num == Number(arg)
  IN  CASE k = "d" -> IF num < 0 THEN 1 + Counted(k, Wrap(-num, LONG_BITS))
                         ELSE Counted(k, num)
        [] k = "u" -> Counted(k, num)
        [] OTHER   -> Len(Text(k, arg))

-----------------------------------------------------------------------------
(* A call, and the turns of the loop over the format.                      *)

FormatInit ==
  /\ copy = "kernel"
  /\ call = [fmt |-> <<>>, args |-> <<>>, text |-> <<>>]
  /\ fmt = <<>> /\ args = <<>> /\ out = <<>>
  /\ in_format = FALSE /\ longarg = FALSE
  /\ pos = 0
  /\ running = FALSE

Call(who, in) ==
  /\ ~running
  /\ copy' = who
  /\ call' = in
  /\ va_start(in)
  /\ fmt' = in.fmt /\ out' = <<>>
  /\ in_format' = FALSE /\ longarg' = FALSE
  /\ pos' = 0
  /\ running' = TRUE

(* for (; *fmt; fmt++), with a character of chars.                         *)
Char(chars) == running /\ fmt # <<>> /\ Head(fmt) \in chars /\ fmt' = Tail(fmt)

Plain ==
  /\ ~in_format /\ Char((1 .. 127) \ {Code.percent})
  /\ out' = Append(out, Head(fmt))
  /\ pos' = pos + 1
  /\ UNCHANGED <<copy, call, args, in_format, longarg, running>>

Percent ==
  /\ ~in_format /\ Char({Code.percent})
  /\ in_format' = TRUE
  /\ UNCHANGED <<copy, call, args, longarg, out, pos, running>>

LongFlag ==
  /\ in_format /\ Char({Code.l})
  /\ longarg' = TRUE
  /\ UNCHANGED <<copy, call, args, in_format, out, pos, running>>

(* Mutant: the l of one conversion is still there for the next.            *)
StickyLong == longarg

(* longarg after a conversion.                                             *)
NoLong == FALSE

Convert(k) ==
  /\ in_format /\ Char({Code[k]})
  /\ out' = out \o Text(k, va_arg)
  /\ pos' = pos + Advance(k, va_arg)
  /\ va_next
  /\ longarg' = NoLong
  /\ in_format' = FALSE
  /\ UNCHANGED <<copy, call, running>>

(* default: anything else behind a % is dropped, another % too.            *)
Ignored ==
  /\ in_format /\ Char((1 .. 127) \ {Code[k] : k \in Conversions \cup {"l"}})
  /\ UNCHANGED <<copy, call, args, in_format, longarg, out, pos, running>>

AtEnd == running /\ fmt = <<>>

Step ==
  \/ Plain
  \/ Percent
  \/ LongFlag
  \/ \E k \in Conversions : Convert(k)
  \/ Ignored

-----------------------------------------------------------------------------
(* What a format promises, stated without the loop.                        *)

(* The decimal digits of n >= 0.                                           *)
Width(n)   == CHOOSE w \in 1 .. LONG_BITS : n < Pow10[w] /\ (w > 1 => n >= Pow10[w - 1])
Decimal(n) == [k \in 1 .. Width(n) |-> Zero + ((n \div Pow10[Width(n) - k]) % 10)]

Signed(n)      == IF n < 0 THEN <<Minus>> \o Decimal(-n) ELSE Decimal(n)
HexDigits      == <<48, 49, 50, 51, 52, 53, 54, 55, 56, 57, 97, 98, 99, 100, 101, 102>>
Hex(n, digits) == [k \in 1 .. digits |-> HexDigits[1 + ((n \div Pow2[4 * (digits - k)]) % 16)]]

Word(n) == [word |-> n, str |-> <<>>]
Str(s)  == [word |-> 0, str |-> s]

(* A conversion, for a long or an int.                                     *)
Promised(k, long, arg) ==
  LET bits == IF long THEN LONG_BITS ELSE INT_BITS
      num  == Wrap(arg.word, bits)
  IN  CASE k = "x" -> Hex(arg.word % Pow2[bits], bits \div 4)
        [] k = "d" -> Signed(num)
        [] k = "u" -> Decimal(num)
        [] k = "s" -> arg.str
        [] k = "c" -> <<arg.word>>

(* -num of the least number is undefined, a %u that is read as an int does *)
(* not print the numbers whose highest bit is set.                         *)
Sound(k, long, arg) ==
  LET bits == IF long THEN LONG_BITS ELSE INT_BITS
      num  == Wrap(arg.word, bits)
  IN  /\ k = "d" => num # -Pow2[bits - 1]
      /\ k = "u" => num >= 0
      /\ k = "c" => arg.word \in 1 .. 127

(* A format is made of pieces: a stretch of plain characters, or a         *)
(* conversion, with the characters between its % and its letter.           *)
Letters      == {Code[k] : k \in Conversions}
Args         == [word : Long, str : Seq(1 .. 127)]
Literal(s)   == [conv |-> "none", chars |-> s, arg |-> Word(0)]
Conv(s, k, a) == [conv |-> k, chars |-> s, arg |-> a]
IsLong(s)    == \E i \in DOMAIN s : s[i] = Code.l

Pieces ==
  {p \in [conv : Conversions \cup {"none"}, chars : Seq(1 .. 127), arg : Args] :
     IF p.conv = "none" THEN p.chars # <<>> /\ \A i \in DOMAIN p.chars : p.chars[i] # Code.percent
     ELSE /\ \A i \in DOMAIN p.chars : p.chars[i] \notin Letters
          /\ Sound(p.conv, IsLong(p.chars), p.arg)}

FmtOf(p)  == IF p.conv = "none" THEN p.chars ELSE <<Code.percent>> \o p.chars \o <<Code[p.conv]>>
ArgsOf(p) == IF p.conv = "none" THEN <<>> ELSE <<p.arg>>
TextOf(p) == IF p.conv = "none" THEN p.chars ELSE Promised(p.conv, IsLong(p.chars), p.arg)

(* The call with the pieces of ps.                                         *)
Format(ps) ==
  [fmt  |-> FlattenSeq([i \in DOMAIN ps |-> FmtOf(ps[i])]),
   args |-> FlattenSeq([i \in DOMAIN ps |-> ArgsOf(ps[i])]),
   text |-> FlattenSeq([i \in DOMAIN ps |-> TextOf(ps[i])])]

=============================================================================
