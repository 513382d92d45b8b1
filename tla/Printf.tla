------------------------------- MODULE Printf -------------------------------
(***************************************************************************)
(* The kernel's printf (src/kernel/core/stdio.c): vprintf walks the       *)
(* format, puts ordinary characters, and handles %%, %c, %s, %d, %u, %x,  *)
(* %X and %p; kernel_print_integer prints a number in base 10 or 16,      *)
(* most significant digit first, by recursing on n / base.  Every         *)
(* character goes to terminal_putchar (and serial_putchar, left out).     *)
(*                                                                         *)
(* Widths.  On i386 int, long and pointers are all one machine word of    *)
(* Bits bits; the arguments are words, and every conversion between int,  *)
(* unsigned int, long and unsigned long is a two's-complement             *)
(* reinterpretation of the word.  'n = -n' overflows for the most         *)
(* negative long; the build wraps it (no -ftrapv), which is modelled.     *)
(*                                                                         *)
(* Data.  The characters printed are the strings of the sequences below;  *)
(* a %c argument prints the one character Chr (its value does not steer   *)
(* anything), a non-NULL %s argument the string Str.                      *)
(***************************************************************************)
EXTENDS Integers, Sequences

CONSTANTS
  Bits,      \* the width of int, long and pointers (at least 2)
  Formats,   \* the format strings a caller passes
  ArgLists   \* the argument lists a caller passes (sequences of words)

VARIABLES fmt, args, out, ret, done

Word == 0 .. 2 ^ Bits - 1

\* A word read as a signed int or long.
ToLong(w) == IF w >= 2 ^ (Bits - 1) THEN w - 2 ^ Bits ELSE w
\* A long read as an unsigned long.
ToUnsigned(n) == n % 2 ^ Bits

Digits == <<"0", "1", "2", "3", "4", "5", "6", "7", "8", "9",
            "a", "b", "c", "d", "e", "f">>
Chr == "ch"
Str == <<"t">>
Null == <<"(", "n", "u", "l", "l", ")">>

\* kernel_print_integer(n, base): a '-' when base is 10 and n < 0, then n
\* negated in long; the digits of (unsigned long)n, the high ones by the
\* recursive call on un / base (passed back as a long).
RECURSIVE PrintInteger(_, _)
PrintInteger(n, base) ==
  LET neg == base = 10 /\ n < 0
      un  == ToUnsigned(IF neg THEN ToLong(ToUnsigned(-n)) ELSE n)
      hi  == IF un \div base # 0 THEN PrintInteger(ToLong(un \div base), base)
                                 ELSE <<>>
  IN (IF neg THEN <<"-">> ELSE <<>>) \o hi \o <<Digits[(un % base) + 1]>>

\* va_arg: the k-th argument.  Every caller passes one per conversion, and
\* the argument lists given are long enough; 0 is never read in a run.
NextArg(a, k) == IF k <= Len(a) THEN a[k] ELSE 0

\* One conversion of vprintf's switch: what it prints, what it adds to the
\* count, and whether it consumes an argument.
Conv(c, w) ==
  CASE c = "%"         -> [s |-> <<"%">>, n |-> 1, arg |-> FALSE]
    [] c = "c"         -> [s |-> <<Chr>>, n |-> 1, arg |-> TRUE]
    [] c = "s"         -> [s |-> IF w = 0 THEN Null ELSE Str, n |-> 0, arg |-> TRUE]
    [] c = "d"         -> LET p == PrintInteger(ToLong(w), 10)
                          IN [s |-> p, n |-> Len(p), arg |-> TRUE]
    [] c = "u"         -> LET p == PrintInteger(ToLong(w), 10)
                          IN [s |-> p, n |-> Len(p), arg |-> TRUE]
    [] c \in {"x", "X"} -> LET p == PrintInteger(ToLong(w), 16)
                          IN [s |-> p, n |-> Len(p), arg |-> TRUE]
    [] c = "p"         -> LET p == <<"0", "x">> \o PrintInteger(ToLong(w), 16)
                          IN [s |-> p, n |-> Len(p), arg |-> TRUE]
    [] OTHER           -> [s |-> <<"%", c>>, n |-> 2, arg |-> FALSE]

\* vprintf's loop from format position i with argument k next: an ordinary
\* character is put; '%' at the end of the format returns; otherwise the
\* conversion after it.  The result is the characters put and the count.
RECURSIVE Vprintf(_, _, _, _)
Vprintf(f, a, i, k) ==
  IF i > Len(f) THEN [s |-> <<>>, n |-> 0]
  ELSE IF f[i] # "%"
    THEN LET r == Vprintf(f, a, i + 1, k)
         IN [s |-> <<f[i]>> \o r.s, n |-> r.n + 1]
  ELSE IF i = Len(f) THEN [s |-> <<>>, n |-> 0]
  ELSE LET c == Conv(f[i + 1], NextArg(a, k))
           r == Vprintf(f, a, i + 2, IF c.arg THEN k + 1 ELSE k)
       IN [s |-> c.s \o r.s, n |-> c.n + r.n]

Init ==
  /\ fmt \in Formats /\ args \in ArgLists
  /\ out = <<>> /\ ret = 0 /\ done = FALSE

\* printf(fmt, args...): everything it prints reaches the terminal, and it
\* returns vprintf's count.
Printf ==
  /\ ~done
  /\ LET r == Vprintf(fmt, args, 1, 1) IN out' = r.s /\ ret' = r.n
  /\ done' = TRUE
  /\ UNCHANGED <<fmt, args>>

vars == <<fmt, args, out, ret, done>>

Spec == Init /\ [][Printf]_vars

-----------------------------------------------------------------------------
(* Reference: what C's printf prints for these conversions.               *)

\* The base-b digits of v >= 0, most significant first, by powers of b.
RefDigits(v, b) ==
  LET k == CHOOSE m \in 1 .. Bits : v < b ^ m /\ (m = 1 \/ v >= b ^ (m - 1))
  IN [j \in 1 .. k |-> Digits[((v \div b ^ (k - j)) % b) + 1]]

RefConv(c, w) ==
  CASE c = "%" -> <<"%">>
    [] c = "c" -> <<Chr>>
    [] c = "s" -> IF w = 0 THEN Null ELSE Str
    [] c = "d" -> IF ToLong(w) < 0 THEN <<"-">> \o RefDigits(-ToLong(w), 10)
                                   ELSE RefDigits(w, 10)
    [] c = "u" -> RefDigits(w, 10)
    [] c \in {"x", "X"} -> RefDigits(w, 16)
    [] c = "p" -> <<"0", "x">> \o RefDigits(w, 16)
    [] OTHER -> <<"%", c>>

RECURSIVE RefOut(_, _, _)
RefOut(f, a, k) ==
  IF f = <<>> THEN <<>>
  ELSE IF Head(f) # "%" THEN <<Head(f)>> \o RefOut(Tail(f), a, k)
  ELSE IF Len(f) = 1 THEN <<>>
  ELSE LET c == f[2]
           uses == c \in {"c", "s", "d", "u", "x", "X", "p"}
       IN RefConv(c, NextArg(a, k)) \o RefOut(SubSeq(f, 3, Len(f)), a, IF uses THEN k + 1 ELSE k)

\* printf prints every argument as C specifies for its conversion: %d the
\* signed value, %u the unsigned value in decimal, %x and %p the value in
\* hex -- kernel_print_integer takes a long, so an unsigned argument with
\* the top bit set goes through the signed path.
RendersAsReference == done => out = RefOut(fmt, args, 1)
=============================================================================
