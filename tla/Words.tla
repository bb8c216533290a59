------------------------------- MODULE Words -------------------------------
(***************************************************************************)
(* Unsigned machine words of kernel5 (uintptr_t and size_t) and the        *)
(* wrapping arithmetic the C code does on them.  W is 2^w, w the width of  *)
(* the word.  One addition or subtraction of two words leaves the range    *)
(* 0..W-1 by less than W, so a single fold is the whole of "modulo W".     *)
(***************************************************************************)
EXTENDS Integers

CONSTANT W    \* number of values of a word: 2^32 on i386, 2^64 on amd64

ASSUME WAssumption == W \in Nat \ {0}

Word == 0 .. (W - 1)

Add(a, b) == IF a + b < W THEN a + b ELSE a + b - W

Sub(a, b) == IF a >= b THEN a - b ELSE a - b + W
=============================================================================
