------------------------------ MODULE Convert ------------------------------
(***************************************************************************)
(* convert_number of src/kernel/console.c: the text of a number.  A text   *)
(* is a sequence of one-character strings.  The case of the hexadecimal    *)
(* digits is layout and left out.                                          *)
(***************************************************************************)
EXTENDS Words, Sequences, SequencesExt

CONSTANTS
    BUFFER      \* 255: what the buffers hold besides the null byte

\* A number n: the argument, its base, the pad character, the sign flag ("" for
\* none), the numbers before and after the dot, and the bits of the argument's type.

\* An int is extended with its sign to uintmax_t.
Value(n) == n.arg % W

Digit == <<"0", "1", "2", "3", "4", "5", "6", "7", "8", "9", "a", "b", "c", "d", "e", "f">>

\* The masks "number &= (char)-1" and so on are no-ops: the constants are
\* sign-extended.  So a number is negative when its type's sign bit or a bit
\* above it is set.
Negative(n) == n.signed /\ Value(n) >= 2 ^ (n.bits - 1)

Magnitude(n) == IF Negative(n) THEN Sub(0, Value(n)) ELSE Value(n)

\* Lowest digit first, as in the buffer "intermediate".
DigitsOf(magnitude, radix) ==
    LET from[m \in Word] == IF m = 0 THEN <<>>
                            ELSE <<Digit[(m % radix) + 1]>> \o from[m \div radix]
    IN  IF magnitude = 0 THEN <<"0">> ELSE from[magnitude]

\* The buffers have room for the digits of any number and a sign.
ASSUME BufferAssumption ==
    /\ BUFFER \in Nat
    /\ \A m \in Word, radix \in {8, 10, 16} : Len(DigitsOf(m, radix)) < BUFFER

SignOf(n) == IF Negative(n) THEN "-" ELSE n.sign

\* The sign follows the digits at once, unless there is room for zeros in the
\* width and in the precision.
\* Variant: only spaces ask for the sign first, room or not.
SignFirstSpaces(n, digits) == n.pad = " "

SignFirst(n, digits) == \/ Len(digits) >= n.width
                        \/ Len(digits) >= n.precision
                        \/ n.pad = " "

\* Otherwise it takes the place of the last zero; "+" stands for " " there.
LateSign(n) == IF Negative(n) THEN "-" ELSE "+"

InLastPlace(padded, sign) == [padded EXCEPT ![Len(padded)] = sign]

\* Variant: the buffer's size does not end the padding.
PaddedFreely(text, n) ==
    LET missing(w) == IF w > Len(text) THEN w - Len(text) ELSE 0
    IN  text \o [k \in 1 .. Max({missing(n.width), missing(n.precision)}) |-> n.pad]

Padded(text, n) ==
    LET missing(w) == IF w > Len(text) THEN Min({w, BUFFER}) - Len(text) ELSE 0
    IN  text \o [k \in 1 .. Max({missing(n.width), missing(n.precision)}) |-> n.pad]

convert_number(n) ==
    LET digits == DigitsOf(Magnitude(n), n.radix)
    IN  Reverse(IF SignOf(n) = "" THEN Padded(digits, n)
                ELSE IF SignFirst(n, digits) THEN Padded(Append(digits, SignOf(n)), n)
                ELSE InLastPlace(Padded(digits, n), LateSign(n)))

-----------------------------------------------------------------------------
(* What a reader makes of a text: leading spaces, a sign, digits.          *)

IsDigit(c, radix) == \E k \in 1 .. radix : Digit[k] = c

DigitValue(c) == (CHOOSE k \in DOMAIN Digit : Digit[k] = c) - 1

WithoutSpaces(text) ==
    LET first == Min({k \in DOMAIN text : text[k] # " "} \cup {Len(text) + 1})
    IN  SubSeq(text, first, Len(text))

\* The text reads as the number v.
Reads(text, v, radix) ==
    LET body == WithoutSpaces(text)
        signed == body # <<>> /\ Head(body) \in {"-", "+"}
        digits == IF signed THEN Tail(body) ELSE body
        read == FoldLeft(LAMBDA s, c : s * radix + DigitValue(c), 0, digits)
    IN  /\ digits # <<>>
        /\ \A k \in DOMAIN digits : IsDigit(digits[k], radix)
        /\ v = IF signed /\ Head(body) = "-" THEN 0 - read ELSE read

\* A sign and zeros, but no precision to make room for the sign: the sign ends
\* up between the zeros and the digits.
SignInside(n) ==
    LET digits == DigitsOf(Magnitude(n), n.radix)
    IN  /\ SignOf(n) # "" /\ n.pad = "0" /\ SignFirst(n, digits)
        /\ Len(digits) + 1 < Max({n.width, n.precision})
=============================================================================
