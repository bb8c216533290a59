------------------------------ MODULE Console ------------------------------
(***************************************************************************)
(* src/kernel/console.c: putc, puts and printf on a text screen, called by *)
(* several processors.  A format is a sequence of directives; between two  *)
(* of them, and before and after lock_printf, processors interleave.       *)
(***************************************************************************)
EXTENDS Convert

CONSTANTS
    CPUs,       \* the processors that call printf
    Formats,    \* bound: what each processor may print with its first call, its
                \* second and so on; a format is a sequence of directives
    ROWS, COLS, \* 25 and 80
    POINTER     \* 2 * sizeof(void *), digits of a pointer

ASSUME ScreenAssumption == ROWS \in Nat \ {0} /\ COLS \in Nat \ {0}

\* What printf makes of a piece of its format, its flags, and an argument.
Directive ==
    [kind : {"text"}, text : Seq(STRING), precision : Nat]
    \cup [kind : {"color"}, color : Nat]
    \cup [kind : {"reset", "count"}]
    \cup [kind : {"pad"}, char : STRING, width : Nat]
    \cup [kind : {"pointer"}, arg : Word, pad : {" ", "0"}, sign : {"", " ", "+"},
          width : Word, precision : Word, bits : Nat]
    \cup [kind : {"number"}, arg : Int, signed : BOOLEAN, radix : {8, 10, 16},
          alternate : BOOLEAN, pad : {" ", "0"}, sign : {"", " ", "+"},
          width : Word, precision : Word, bits : Nat]

ASSUME FormatsAssumption ==
    /\ \A p \in CPUs : Formats[p] \in Seq(SUBSET Seq(Directive))
    /\ POINTER \in Nat

VARIABLES
    lock_printf,
    video,      \* the cursor, in cells from the start of the screen
    cells,      \* the screen: what each cell shows
    color,      \* attribute of the characters to come
    printed,    \* characters put since printf began
    converted,  \* the text convert_number left
    pc, todo,   \* where each processor is, and the directives it has left
    returned,   \* what printf last returned to each
    calls,      \* how often each has called
    output      \* history: every character put, by which call, and its color

vars == <<lock_printf, video, cells, color, printed, converted, pc, todo, returned, calls, output>>

End == ROWS * COLS

DefaultColor == 7

Blank == [color |-> 0, char |-> ""]

-----------------------------------------------------------------------------
(* putc.  A terminal is a record of cells and video.                       *)

\* Variant: the screen is scrolled by one line however far the cursor is below it.
LinesBelowOne(t) == IF t.video >= End THEN 1 ELSE 0

\* The loop that scrolls while the cursor is below the screen.
LinesBelow(t) == IF t.video >= End THEN ((t.video - End) \div COLS) + 1 ELSE 0

Scrolled(t) ==
    LET by == COLS * LinesBelow(t)
    IN  [cells |-> [k \in 0 .. (End - 1) |->
                      IF k + by < End THEN t.cells[k + by] ELSE Blank],
         video |-> t.video - by]

putc(t, c, attribute) ==
    IF c = "\r" THEN [t EXCEPT !.video = @ - (@ % COLS)]
    ELSE IF c = "\n" THEN [t EXCEPT !.video = @ - (@ % COLS) + COLS]
    ELSE LET s == Scrolled(t)
         IN  [cells |-> [s.cells EXCEPT ![s.video] = [color |-> attribute, char |-> c]],
              video |-> s.video + 1]

\* putc of each character of a text.
PutAll(t, text, attribute) == FoldLeft(LAMBDA s, c : putc(s, c, attribute), t, text)

\* A processor puts a text.
Put(p, text) ==
    LET t == PutAll([cells |-> cells, video |-> video], text, color)
    IN  /\ cells' = t.cells /\ video' = t.video
        /\ printed' = printed + Len(text)
        /\ output' = output \o [k \in DOMAIN text |->
                                  [call |-> <<p, calls[p]>>, char |-> text[k], color |-> color]]

Screen == <<cells, video, printed, output>>

-----------------------------------------------------------------------------
(* printf.                                                                 *)

Init == /\ lock_printf = 0
        /\ video = 0 /\ cells = [k \in 0 .. (End - 1) |-> Blank]
        /\ color = DefaultColor /\ printed = 0 /\ converted = <<>>
        /\ pc = [p \in CPUs |-> "idle"] /\ todo = [p \in CPUs |-> <<>>]
        /\ returned = [p \in CPUs |-> 0] /\ calls = [p \in CPUs |-> 0]
        /\ output = <<>>

Go(p, where) == pc' = [pc EXCEPT ![p] = where]

Call(p, format) ==
    /\ pc[p] = "idle"
    /\ todo' = [todo EXCEPT ![p] = format]
    /\ calls' = [calls EXCEPT ![p] = @ + 1]
    /\ Go(p, "lock")
    /\ UNCHANGED <<lock_printf, Screen, color, converted, returned>>

\* Variant: lock does not wait.
LockAtOnce(p) ==
    /\ pc[p] = "lock"
    /\ lock_printf' = 1 /\ printed' = 0
    /\ Go(p, "print")
    /\ UNCHANGED <<video, cells, output, color, converted, todo, returned, calls>>

Lock(p) ==
    /\ pc[p] = "lock" /\ lock_printf = 0
    /\ lock_printf' = 1 /\ printed' = 0
    /\ Go(p, "print")
    /\ UNCHANGED <<video, cells, output, color, converted, todo, returned, calls>>

At(p, kind) == pc[p] = "print" /\ todo[p] # <<>> /\ Head(todo[p]).kind = kind

Done(p) == todo' = [todo EXCEPT ![p] = Tail(@)]

\* A piece of the format, "%s", "%c" or "%%": the text up to its length or to
\* the precision, if that is not 0.
Text(p) ==
    /\ At(p, "text")
    /\ LET d == Head(todo[p])
       IN  Put(p, IF d.precision = 0 \/ d.precision >= Len(d.text) THEN d.text
                  ELSE SubSeq(d.text, 1, d.precision))
    /\ Done(p)
    /\ UNCHANGED <<lock_printf, color, converted, pc, returned, calls>>

\* "%[" and "%]".
SetColor(p) ==
    /\ At(p, "color")
    /\ color' = Head(todo[p]).color
    /\ Done(p)
    /\ UNCHANGED <<lock_printf, Screen, converted, pc, returned, calls>>

ResetColor(p) ==
    /\ At(p, "reset")
    /\ color' = DefaultColor
    /\ Done(p)
    /\ UNCHANGED <<lock_printf, Screen, converted, pc, returned, calls>>

\* "#" puts a prefix, and takes it off the width.
Prefix(n) == IF ~n.alternate \/ n.radix = 10 THEN <<>>
             ELSE IF n.radix = 8 THEN <<"0">> ELSE <<"0", "x">>

WithoutPrefix(n) == IF n.width > 1 THEN [n EXCEPT !.width = @ - Len(Prefix(n))] ELSE n

\* "%d", "%u", "%o", "%x": convert_number, and puts of what it left.
ConvertNumber(p) ==
    /\ At(p, "number")
    /\ LET n == Head(todo[p])
       IN  Put(p, Prefix(n)) /\ converted' = convert_number(WithoutPrefix(n))
    /\ Go(p, "puts")
    /\ UNCHANGED <<lock_printf, color, todo, returned, calls>>

\* "%p": "(nil)", or all digits of the address; a width counts "0x" too, and zeros
\* fill it unless a flag asks for spaces.
AddressOf(d) == [arg |-> d.arg, signed |-> FALSE, radix |-> 16, pad |-> d.pad,
                 sign |-> d.sign, width |-> IF d.width = 0 THEN POINTER ELSE Sub(d.width, 2),
                 precision |-> d.precision, bits |-> d.bits]

Pointer(p) ==
    /\ At(p, "pointer")
    /\ LET d == Head(todo[p])
       IN  IF d.arg = 0
           THEN /\ Put(p, <<"(", "n", "i", "l", ")">>)
                /\ Done(p)
                /\ UNCHANGED <<converted, pc>>
           ELSE /\ Put(p, <<"0", "x">>)
                /\ converted' = convert_number(AddressOf(d))
                /\ Go(p, "puts") /\ UNCHANGED todo
    /\ UNCHANGED <<lock_printf, color, returned, calls>>

PutConverted(p) ==
    /\ pc[p] = "puts"
    /\ Put(p, converted)
    /\ Done(p) /\ Go(p, "print")
    /\ UNCHANGED <<lock_printf, color, converted, returned, calls>>

\* "%P": pad with a character up to a column.
PadTo(p) ==
    /\ At(p, "pad")
    /\ LET d == Head(todo[p])
       IN  Put(p, [k \in 1 .. Max({0, d.width - printed}) |-> d.char])
    /\ Done(p)
    /\ UNCHANGED <<lock_printf, color, converted, pc, returned, calls>>

\* "%n", which stores "printed" for the caller.
CountSoFar(p) ==
    /\ At(p, "count")
    /\ returned' = [returned EXCEPT ![p] = printed]
    /\ Done(p)
    /\ UNCHANGED <<lock_printf, Screen, color, converted, pc, calls>>

Unlock(p) ==
    /\ pc[p] = "print" /\ todo[p] = <<>>
    /\ lock_printf' = 0
    /\ Go(p, "return")
    /\ UNCHANGED <<Screen, color, converted, todo, returned, calls>>

\* "printed" is read after the lock was released.
Return(p) ==
    /\ pc[p] = "return"
    /\ returned' = [returned EXCEPT ![p] = printed]
    /\ Go(p, "idle")
    /\ UNCHANGED <<lock_printf, Screen, color, converted, todo, calls>>

Next == \E p \in CPUs :
    \/ calls[p] < Len(Formats[p]) /\ \E format \in Formats[p][calls[p] + 1] : Call(p, format)
    \/ Lock(p) \/ Text(p) \/ SetColor(p) \/ ResetColor(p) \/ ConvertNumber(p) \/ Pointer(p)
    \/ PutConverted(p) \/ PadTo(p) \/ CountSoFar(p) \/ Unlock(p) \/ Return(p)

Spec == Init /\ [][Next]_vars

-----------------------------------------------------------------------------
\* Types; and the text of a number, whatever its width, fits the buffer.
TypeOK == /\ lock_printf \in {0, 1} /\ video \in Nat /\ printed \in Nat
          /\ DOMAIN cells = 0 .. (End - 1)
          /\ Len(converted) <= BUFFER
          /\ pc \in [CPUs -> {"idle", "lock", "print", "puts", "return"}]
          /\ calls \in [CPUs -> Nat]

\* A screen that never ends: where the next character goes, the line of the
\* last one, and what was put where.
Roll(t, o) ==
    IF o.char = "\r" THEN [t EXCEPT !.pos = @ - (@ % COLS)]
    ELSE IF o.char = "\n" THEN [t EXCEPT !.pos = @ - (@ % COLS) + COLS]
    ELSE [pos |-> t.pos + 1, line |-> t.pos \div COLS,
          at |-> [k \in DOMAIN t.at \cup {t.pos} |->
                    IF k = t.pos THEN [color |-> o.color, char |-> o.char] ELSE t.at[k]]]

Tape(chars) == FoldLeft(Roll, [pos |-> 0, line |-> 0, at |-> <<>>], chars)

\* The screen shows the last lines of everything printed, each character in
\* its place and its color, however lines wrap, return or are skipped; and the
\* cursor stands where the next character belongs.
ScreenShowsTail ==
    LET t == Tape(output)
        top == COLS * Max({0, t.line - (ROWS - 1)})
    IN  /\ video = t.pos - top
        /\ \A k \in 0 .. (End - 1) :
             cells[k] = IF top + k \in DOMAIN t.at THEN t.at[top + k] ELSE Blank

\* What one call of printf prints is not torn apart by another processor.
MessagesWhole ==
    \A j \in 2 .. Len(output) :
        output[j].call # output[j - 1].call =>
            \A i \in 1 .. (j - 1) : output[i].call # output[j].call

\* A number, or an address, in the shared buffer reads as the argument of the
\* directive that is about to print it, for every base, sign, width, precision and
\* pad character but the ones that put the sign inside.
NumbersReadBack ==
    \A p \in CPUs : pc[p] = "puts" =>
        LET d == Head(todo[p])
            n == IF d.kind = "pointer" THEN AddressOf(d) ELSE WithoutPrefix(d)
        IN  SignInside(n) \/ Reads(converted, n.arg, n.radix)
=============================================================================
