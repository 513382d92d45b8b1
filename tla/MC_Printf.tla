------------------------------ MODULE MC_Printf ------------------------------
(* printf on 8-bit words: every format of up to three characters over the *)
(* conversions and one ordinary character, with two arguments from the    *)
(* words at the edges of each digit count and of the sign bit.             *)
EXTENDS Printf

MCChars == {"a", "%", "d", "u", "x", "X", "c", "s", "p", "q"}
MCWords == {0, 1, 9, 10, 15, 16, 99, 100, 127, 128, 200, 255}
MCFormats == UNION {[1 .. n -> MCChars] : n \in 0 .. 3}
MCArgLists == [1 .. 2 -> MCWords]
=============================================================================
