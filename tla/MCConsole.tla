----------------------------- MODULE MCConsole -----------------------------
(***************************************************************************)
(* Two processors on a screen of two lines of three cells.                 *)
(***************************************************************************)
EXTENDS Console

Text1(s) == [kind |-> "text", text |-> s, precision |-> 0]
Cut(s, n) == [kind |-> "text", text |-> s, precision |-> n]
Red == [kind |-> "color", color |-> 12]
Reset == [kind |-> "reset"]
Pad(c, n) == [kind |-> "pad", char |-> c, width |-> n]
Count == [kind |-> "count"]
Address(a, pad, sign, w, pr) ==
    [kind |-> "pointer", arg |-> a, pad |-> pad, sign |-> sign, width |-> w,
     precision |-> pr, bits |-> 6]

Num(arg, signed, radix, alternate, pad, sign, width, precision) ==
    [kind |-> "number", arg |-> arg, signed |-> signed, radix |-> radix,
     alternate |-> alternate, pad |-> pad, sign |-> sign, width |-> width,
     precision |-> precision, bits |-> 4]

\* "%d", "%u", "%#x" and "%o" of numbers of four bits, in every format.
Numbers ==
    {Num(v, TRUE, 10, FALSE, pad, sign, w, pr) :
        v \in {-8, -1, 0, 7}, pad \in {" ", "0"}, sign \in {"", " ", "+"},
        w \in {0, 2, 4}, pr \in {0, 3}}
    \cup {Num(v, FALSE, r, TRUE, pad, "", w, 0) :
        v \in {0, 15}, r \in {8, 10, 16}, pad \in {" ", "0"}, w \in {0, 1, 4}}

\* Text that turns lines, wraps, returns and overwrites; columns; colors.
Texts == {<<Text1(<<"a", "b", "\n">>)>>,
          <<Text1(<<"\r", "a">>), Red, Text1(<<"B">>), Reset, Text1(<<"\n", "\n">>)>>,
          <<Red, Cut(<<"B", "B", "B">>, 2), Reset, Pad("a", 4), Count>>,
          <<Text1(<<"a", "b", "c", "d", "\r", "\n", "e">>)>>}

\* A width of 1 becomes one below 0, so the longest the buffer holds; a flag for a
\* space fills with spaces, unless there is one for zeros.
Addresses == {<<Address(0, "0", "", 0, 0)>>, <<Text1(<<"a">>), Address(27, "0", "", 5, 0)>>}
    \cup {<<Address(27, f[1], f[2], w, pr)>> :
            f \in {<<"0", "">>, <<" ", " ">>, <<"0", " ">>, <<"0", "+">>, <<" ", "+">>},
            w \in {0, 1, 5}, pr \in {0, 4}}

\* One processor prints a number or a text, the other a number or a text and
\* then a text.
MCFormats == << <<Texts \cup Addresses \cup {<<n>> : n \in Numbers}>>,
                <<{<<Num(-7, TRUE, 10, FALSE, " ", "", 3, 0)>>,
                   <<Red, Cut(<<"B", "B", "B">>, 2), Reset, Pad("a", 4), Count>>}, Texts>> >>
=============================================================================
