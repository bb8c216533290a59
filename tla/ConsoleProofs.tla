--------------------------- MODULE ConsoleProofs ---------------------------
(***************************************************************************)
(* What printf of several processors leaves on the screen, for any screen, *)
(* any number of processors and any formats.                               *)
(***************************************************************************)
EXTENDS Console, FiniteSetTheorems, SequenceTheorems, WellFoundedInduction, TLAPS

-----------------------------------------------------------------------------
(* Folding over a text, character by character.                            *)

Below == {p \in Nat \X Nat : p[1] < p[2]}

\* Induction: any set of numbers has a least one.
LEMMA LeastNat ==
    ASSUME NEW T, T \subseteq Nat, T # {}
    PROVE  \E n \in T : \A m \in T : n <= m
<1>1. Below = OpToRel(<, Nat)
  BY DEF OpToRel, Below
<1>2. PICK n \in T : \A m \in T : <<m, n>> \notin Below
  BY <1>1, NatLessThanWellFounded, WFMin
<1>3. ASSUME NEW m \in T PROVE n <= m
  <2>1. m \in Nat /\ n \in Nat /\ (m < n => <<m, n>> \in Below)
    BY DEF Below
  <2> QED BY <1>2, <2>1
<1> QED BY <1>3

LEMMA MaxOfInterval ==
    ASSUME NEW k \in Nat, k > 0
    PROVE  Max(1 .. k) = k /\ (1 .. k) \ {k} = 1 .. (k - 1)
<1>1. \A x \in 1 .. k : (\A y \in 1 .. k : x >= y) => x = k
  OBVIOUS
<1>2. k \in 1 .. k /\ \A y \in 1 .. k : k >= y
  OBVIOUS
<1> QED BY <1>1, <1>2 DEF Max

LEMMA MaxIsLast ==
    ASSUME NEW k \in Nat, NEW s \in SUBSET (1 .. (k + 1)), k + 1 \in s
    PROVE  Max(s) = k + 1 /\ s \ {k + 1} \in SUBSET (1 .. k)
<1>1. \A x \in s : (\A y \in s : x >= y) => x = k + 1
  OBVIOUS
<1>2. \A y \in s : k + 1 >= y
  OBVIOUS
<1>3. Max(s) = k + 1
  BY <1>1, <1>2 DEF Max
<1>4. s \ {k + 1} \in SUBSET (1 .. k)
  OBVIOUS
<1> QED BY <1>3, <1>4

EmptyTape == [pos |-> 0, line |-> 0, at |-> <<>>]

\* The two folds of Console: a history onto a tape, and a text onto a screen.
\* What each starts with, and what one character does.
From(w) == IF w.tape THEN EmptyTape ELSE w.screen

OneMore(w, t, o) == IF w.tape THEN Roll(t, o) ELSE putc(t, o, w.color)

Fold(w, o) == IF w.tape THEN Tape(o) ELSE PutAll(w.screen, o, w.color)

Onto(t, attribute) == [tape |-> FALSE, screen |-> t, color |-> attribute]

Pass(w, f, o, m) ==
    f = [s \in SUBSET (1 .. m) |->
           IF s = {} THEN From(w) ELSE OneMore(w, f[s \ {Max(s)}], o[Max(s)])]

LEMMA PassStep ==
    ASSUME NEW w, NEW o, NEW m \in Nat, NEW f, Pass(w, f, o, m)
    PROVE  \E g : Pass(w, g, o, m + 1)
<1> DEFINE g == [s \in SUBSET (1 .. (m + 1)) |->
                   IF m + 1 \in s THEN OneMore(w, f[s \ {m + 1}], o[m + 1]) ELSE f[s]]
<1>0. \A s \in SUBSET (1 .. (m + 1)) : m + 1 \notin s => s \in SUBSET (1 .. m)
  OBVIOUS
<1>1. ASSUME NEW s \in SUBSET (1 .. (m + 1))
      PROVE  g[s] = IF s = {} THEN From(w) ELSE OneMore(w, g[s \ {Max(s)}], o[Max(s)])
  <2>1. CASE m + 1 \in s
    <3>1. Max(s) = m + 1 /\ s \ {m + 1} \in SUBSET (1 .. m) /\ s # {}
      BY <2>1, MaxIsLast
    <3>2. g[s \ {m + 1}] = f[s \ {m + 1}]
      <4>1. m + 1 \notin s \ {m + 1} /\ s \ {m + 1} \in SUBSET (1 .. (m + 1))
        OBVIOUS
      <4> QED BY <4>1
    <3>3. g[s] = OneMore(w, f[s \ {m + 1}], o[m + 1])
      BY <2>1
    <3> HIDE DEF g
    <3> QED BY <3>1, <3>2, <3>3
  <2>2. CASE m + 1 \notin s
    <3>1. s \in SUBSET (1 .. m) /\ g[s] = f[s]
      BY <2>2, <1>0
    <3>2. f[s] = IF s = {} THEN From(w) ELSE OneMore(w, f[s \ {Max(s)}], o[Max(s)])
      BY <3>1 DEF Pass
    <3>3. g[s \ {Max(s)}] = f[s \ {Max(s)}]
      <4>1. m + 1 \notin s \ {Max(s)} /\ s \ {Max(s)} \in SUBSET (1 .. (m + 1))
        BY <2>2
      <4> QED BY <4>1
    <3> HIDE DEF g
    <3> QED BY <3>1, <3>2, <3>3
  <2> QED BY <2>1, <2>2
<1>2. Pass(w, g, o, m + 1)
  <2>1. g = [s \in SUBSET (1 .. (m + 1)) |-> g[s]]
    OBVIOUS
  <2> HIDE DEF g
  <2> QED BY <1>1, <2>1 DEF Pass
<1> QED BY <1>2

LEMMA PassExists ==
    ASSUME NEW w, NEW o, NEW n \in Nat
    PROVE  \E f : Pass(w, f, o, n)
<1> SUFFICES ASSUME ~\E f : Pass(w, f, o, n) PROVE FALSE
  OBVIOUS
<1> DEFINE T == {m \in Nat : ~\E f : Pass(w, f, o, m)}
<1>1. PICK m \in T : \A k \in T : m <= k
  <2>1. T \subseteq Nat /\ T # {}
    OBVIOUS
  <2> HIDE DEF T
  <2> QED BY <2>1, LeastNat
<1>2. m # 0
  <2>1. Pass(w, [s \in SUBSET (1 .. 0) |-> From(w)], o, 0)
    <3>1. SUBSET (1 .. 0) = {{}}
      OBVIOUS
    <3> QED BY <3>1 DEF Pass
  <2> QED BY <2>1
<1>3. m - 1 \in Nat /\ (m - 1) + 1 = m /\ m - 1 \notin T
  BY <1>1, <1>2
<1>4. PICK f : Pass(w, f, o, m - 1)
  BY <1>3
<1>5. \E g : Pass(w, g, o, m)
  BY <1>3, <1>4, PassStep
<1> QED BY <1>5

LEMMA FoldIsPass ==
    ASSUME NEW w, NEW o, NEW n \in Nat, DOMAIN o = 1 .. n
    PROVE  \E f : Pass(w, f, o, n) /\ Fold(w, o) = f[1 .. n]
<1>1. Fold(w, o) = (CHOOSE f : Pass(w, f, o, n))[1 .. n]
  <2>1. CASE w.tape
    BY <2>1 DEF Tape, FoldLeft, MapThenFoldSet, EmptyTape, Pass, Fold, From, OneMore
  <2>2. CASE ~w.tape
    BY <2>2 DEF PutAll, FoldLeft, MapThenFoldSet, Pass, Fold, From, OneMore
  <2> QED BY <2>1, <2>2
<1>2. Pass(w, CHOOSE f : Pass(w, f, o, n), o, n)
  BY PassExists
<1> QED BY <1>1, <1>2

\* Folding over no characters, and over one more.
LEMMA FoldNone ==
    ASSUME NEW w
    PROVE  Fold(w, <<>>) = From(w)
<1>1. PICK f : Pass(w, f, <<>>, 0) /\ Fold(w, <<>>) = f[1 .. 0]
  <2>1. DOMAIN <<>> = 1 .. 0
    OBVIOUS
  <2> QED BY <2>1, FoldIsPass
<1>2. 1 .. 0 = {}
  OBVIOUS
<1> QED BY <1>1, <1>2 DEF Pass

LEMMA FoldNext ==
    ASSUME NEW w, NEW S, NEW o \in Seq(S), NEW x \in S
    PROVE  Fold(w, Append(o, x)) = OneMore(w, Fold(w, o), x)
<1> DEFINE n == Len(o)
           a == Append(o, x)
<1>1. n \in Nat /\ DOMAIN o = 1 .. n /\ DOMAIN a = 1 .. (n + 1)
      /\ a[n + 1] = x /\ \A k \in 1 .. n : a[k] = o[k]
  BY AppendProperties, LenProperties
<1> HIDE DEF a
<1>3. PICK f : Pass(w, f, o, n) /\ Fold(w, o) = f[1 .. n]
  BY <1>1, FoldIsPass
<1>4. PICK g : Pass(w, g, a, n + 1) /\ Fold(w, a) = g[1 .. (n + 1)]
  <2>1. n + 1 \in Nat
    BY <1>1
  <2> QED BY <1>1, <2>1, FoldIsPass
<1> HIDE DEF n
<1>5. \A k \in 0 .. n : f[1 .. k] = g[1 .. k]
  <2> SUFFICES ASSUME ~\A k \in 0 .. n : f[1 .. k] = g[1 .. k] PROVE FALSE
    OBVIOUS
  <2> DEFINE T == {k \in 0 .. n : f[1 .. k] # g[1 .. k]}
  <2>1. PICK k \in T : \A j \in T : k <= j
    <3>1. T \subseteq Nat /\ T # {}
      OBVIOUS
    <3> HIDE DEF T
    <3> QED BY <3>1, LeastNat
  <2>2. k # 0
    <3>1. 1 .. 0 = {}
      OBVIOUS
    <3>2. f[{}] = From(w)
      BY <1>3, <1>1 DEF Pass
    <3>3. g[{}] = From(w)
      BY <1>4, <1>1 DEF Pass
    <3> QED BY <3>1, <3>2, <3>3
  <2>3. k \in 1 .. n /\ k - 1 \in 0 .. n /\ k - 1 \notin T
    BY <1>1, <2>1, <2>2
  <2>4. Max(1 .. k) = k /\ (1 .. k) \ {k} = 1 .. (k - 1) /\ 1 .. k # {}
    BY <2>3, MaxOfInterval
  <2>5. f[1 .. k] = OneMore(w, f[1 .. (k - 1)], o[k])
    <3>1. (1 .. k) \in SUBSET (1 .. n)
      BY <1>1, <2>3
    <3> QED BY <1>3, <2>4, <3>1 DEF Pass
  <2>6. g[1 .. k] = OneMore(w, g[1 .. (k - 1)], a[k])
    <3>1. (1 .. k) \in SUBSET (1 .. (n + 1))
      BY <1>1, <2>3
    <3> QED BY <1>4, <2>4, <3>1 DEF Pass
  <2>7. f[1 .. (k - 1)] = g[1 .. (k - 1)] /\ a[k] = o[k]
    BY <1>1, <2>3
  <2> QED BY <2>5, <2>6, <2>7
<1>6. g[1 .. (n + 1)] = OneMore(w, g[1 .. n], x)
  <2>1. n + 1 \in Nat /\ n + 1 > 0 /\ (n + 1) - 1 = n
    BY <1>1
  <2>2. Max(1 .. (n + 1)) = n + 1 /\ (1 .. (n + 1)) \ {n + 1} = 1 .. n
    BY <2>1, MaxOfInterval
  <2>3. 1 .. (n + 1) # {}
    BY <1>1
  <2>4. g[1 .. (n + 1)] = OneMore(w, g[(1 .. (n + 1)) \ {n + 1}], a[n + 1])
    BY <1>4, <2>2, <2>3 DEF Pass
  <2> QED BY <1>1, <2>2, <2>4
<1>7. Fold(w, a) = OneMore(w, Fold(w, o), x)
  <2>1. n \in 0 .. n
    BY <1>1
  <2> QED BY <1>3, <1>4, <1>5, <1>6, <2>1
<1> QED BY <1>7 DEF a

-----------------------------------------------------------------------------
(* Lines and columns.                                                      *)

LEMMA DivMod ==
    ASSUME NEW c \in Nat \ {0}, NEW x \in Nat
    PROVE  /\ x \div c \in Nat /\ x % c \in 0 .. (c - 1)
           /\ x = c * (x \div c) + (x % c)
<1>1. x \div c \in Int /\ x % c \in 0 .. (c - 1)
  OBVIOUS
<1>2. x = c * (x \div c) + (x % c)
  OBVIOUS
<1>3. x \div c >= 0
  OBVIOUS
<1> QED BY <1>1, <1>2, <1>3

\* What is used of products.
LEMMA Times ==
    ASSUME NEW c \in Nat \ {0}, NEW a \in Int, NEW b \in Int
    PROVE  /\ a < b => c * a + c <= c * b
           /\ a <= b => c * a <= c * b
           /\ c * (a + b) = c * a + c * b /\ c * (a - b) = c * a - c * b
           /\ c * (a + 1) = c * a + c
           /\ c * a \in Int
<1>1. c * (a + b) = c * a + c * b /\ c * (a - b) = c * a - c * b
  OBVIOUS
<1>2. c * (a + 1) = c * a + c /\ c * a \in Int
  OBVIOUS
<1>3. a <= b => c * a <= c * b
  OBVIOUS
<1>4. a < b => c * a + c <= c * b
  OBVIOUS
<1> QED BY <1>1, <1>2, <1>3, <1>4

LEMMA DivModUnique ==
    ASSUME NEW c \in Nat \ {0}, NEW x \in Nat, NEW q \in Nat, NEW r \in 0 .. (c - 1), x = c * q + r
    PROVE  x \div c = q /\ x % c = r
<1> DEFINE p == x \div c
           s == x % c
<1>1. p \in Nat /\ s \in 0 .. (c - 1) /\ x = c * p + s
  BY DivMod
<1> HIDE DEF p, s
<1>3. ~ p < q
  <2>1. p < q => c * p + c <= c * q
    BY <1>1, Times
  <2>2. c * p \in Int /\ c * q \in Int
    BY <1>1, Times
  <2> QED BY <1>1, <2>1, <2>2
<1>4. ~ q < p
  <2>1. q < p => c * q + c <= c * p
    BY <1>1, Times
  <2>2. c * p \in Int /\ c * q \in Int
    BY <1>1, Times
  <2> QED BY <1>1, <2>1, <2>2
<1>5. p = q
  BY <1>1, <1>3, <1>4
<1>6. s = r
  <2>1. c * q \in Int
    BY Times
  <2> QED BY <1>1, <1>5, <2>1
<1> QED BY <1>5, <1>6 DEF p, s

-----------------------------------------------------------------------------
(* One character on the screen and on the tape.                            *)

\* What a format may hold, and what printf writes of its own.
Char == STRING \cup {"", " ", "+", "-", "(", "n", "i", "l", ")", "x"}
               \cup {"0", "1", "2", "3", "4", "5", "6", "7", "8", "9", "a", "b", "c", "d", "e", "f"}

Cell == [color : Nat, char : Char]

IsScreen(s) == s \in [cells : [0 .. (End - 1) -> Cell], video : Nat]

IsTape(t) == /\ t = [pos |-> t.pos, line |-> t.line, at |-> t.at]
             /\ t.pos \in Nat /\ t.line \in Nat /\ COLS * t.line <= t.pos
             /\ DOMAIN t.at \subseteq 0 .. (COLS * (t.line + 1) - 1)
             /\ \A k \in DOMAIN t.at : t.at[k] \in Cell

\* The line of the tape that is at the top of the screen.
TopLine(line) == Max({0, line - (ROWS - 1)})

\* The screen shows the end of the tape.
Shows(s, t) ==
    /\ s.video = t.pos - COLS * TopLine(t.line)
    /\ \A k \in 0 .. (End - 1) :
         s.cells[k] = IF COLS * TopLine(t.line) + k \in DOMAIN t.at
                      THEN t.at[COLS * TopLine(t.line) + k] ELSE Blank

LEMMA MaxOfTwo ==
    ASSUME NEW a \in Int, NEW b \in Int
    PROVE  Max({a, b}) = IF a >= b THEN a ELSE b
<1> DEFINE m == IF a >= b THEN a ELSE b
<1>1. m \in {a, b} /\ \A y \in {a, b} : m >= y
  OBVIOUS
<1>2. \A x \in {a, b} : (\A y \in {a, b} : x >= y) => x = m
  OBVIOUS
<1> HIDE DEF m
<1>3. Max({a, b}) = m
  BY <1>1, <1>2 DEF Max
<1> QED BY <1>3 DEF m

LEMMA MinOfTwo ==
    ASSUME NEW a \in Int, NEW b \in Int
    PROVE  Min({a, b}) = IF a <= b THEN a ELSE b
<1> DEFINE m == IF a <= b THEN a ELSE b
<1>1. m \in {a, b} /\ \A y \in {a, b} : m <= y
  OBVIOUS
<1>2. \A x \in {a, b} : (\A y \in {a, b} : x <= y) => x = m
  OBVIOUS
<1> HIDE DEF m
<1>3. Min({a, b}) = m
  BY <1>1, <1>2 DEF Min
<1> QED BY <1>3 DEF m

LEMMA TopLineIs ==
    ASSUME NEW line \in Nat
    PROVE  /\ TopLine(line) \in Nat /\ TopLine(line) <= line
           /\ line > ROWS - 1 => TopLine(line) = line - (ROWS - 1)
           /\ line <= ROWS - 1 => TopLine(line) = 0
<1> DEFINE a == line - (ROWS - 1)
<1>1. a \in Int /\ a <= line
  BY ScreenAssumption
<1>2. Max({0, a}) = IF 0 >= a THEN 0 ELSE a
  BY <1>1, MaxOfTwo
<1> QED BY <1>1, <1>2, ScreenAssumption DEF TopLine

\* Where the cursor is, in lines and columns of the tape and of the screen.
LEMMA Place ==
    ASSUME NEW s, NEW t, IsScreen(s), IsTape(t), Shows(s, t)
    PROVE  LET q == t.pos \div COLS
               r == t.pos % COLS
               h == TopLine(t.line)
           IN  /\ q \in Nat /\ r \in 0 .. (COLS - 1) /\ t.pos = COLS * q + r
               /\ t.line <= q /\ h <= q
               /\ s.video = COLS * (q - h) + r
               /\ s.video \div COLS = q - h /\ s.video % COLS = r
<1> DEFINE q == t.pos \div COLS
           r == t.pos % COLS
           h == TopLine(t.line)
<1>1. q \in Nat /\ r \in 0 .. (COLS - 1) /\ t.pos = COLS * q + r
  BY DivMod, ScreenAssumption DEF IsTape
<1>2. h \in Nat /\ h <= t.line /\ t.line \in Nat
  BY TopLineIs DEF IsTape
<1>3. s.video = t.pos - COLS * h /\ COLS * t.line <= t.pos
  BY DEF Shows, IsTape
<1> HIDE DEF q, r, h
<1>4. t.line <= q
  <2>1. q < t.line => COLS * q + COLS <= COLS * t.line
    BY <1>1, <1>2, Times, ScreenAssumption
  <2>2. COLS * q \in Int /\ COLS * t.line \in Int
    BY <1>1, <1>2, Times, ScreenAssumption
  <2> QED BY <1>1, <1>2, <1>3, <2>1, <2>2, ScreenAssumption
<1>5. s.video = COLS * (q - h) + r
  <2>1. COLS * (q - h) = COLS * q - COLS * h /\ COLS * q \in Int /\ COLS * h \in Int
    BY <1>1, <1>2, Times, ScreenAssumption
  <2> QED BY <1>1, <1>3, <2>1
<1>6. q - h \in Nat /\ s.video \in Nat
  BY <1>1, <1>2, <1>4 DEF IsScreen
<1>7. s.video \div COLS = q - h /\ s.video % COLS = r
  BY <1>1, <1>5, <1>6, DivModUnique, ScreenAssumption
<1> QED BY <1>1, <1>2, <1>4, <1>5, <1>7 DEF q, r, h

\* How far a character scrolls the screen is how far the tape moves on.
LEMMA ScrollsToTape ==
    ASSUME NEW s, NEW t, IsScreen(s), IsTape(t), Shows(s, t)
    PROVE  LET q == t.pos \div COLS
           IN  /\ LinesBelow(s) = TopLine(q) - TopLine(t.line)
               /\ LinesBelow(s) \in Nat
               /\ q - TopLine(q) \in 0 .. (ROWS - 1)
<1> DEFINE q == t.pos \div COLS
           r == t.pos % COLS
           h == TopLine(t.line)
           g == TopLine(q)
<1>1. /\ q \in Nat /\ r \in 0 .. (COLS - 1)
      /\ t.line <= q /\ h <= q
      /\ s.video = COLS * (q - h) + r
  BY Place
<1>2. /\ t.line \in Nat /\ h \in Nat
      /\ t.line > ROWS - 1 => h = t.line - (ROWS - 1)
      /\ t.line <= ROWS - 1 => h = 0
  BY TopLineIs DEF IsTape
<1>3. /\ g \in Nat
      /\ q > ROWS - 1 => g = q - (ROWS - 1)
      /\ q <= ROWS - 1 => g = 0
  BY <1>1, TopLineIs
<1>4. s.video \in Nat
  BY DEF IsScreen
<1> HIDE DEF q, r, h, g
<1>5. End = COLS * ROWS /\ End \in Nat
  BY ScreenAssumption DEF End
<1>6. COLS * (q - h) \in Int
  BY <1>1, <1>2, Times, ScreenAssumption
<1>7. CASE q - h >= ROWS
  <2>1. COLS * ROWS <= COLS * (q - h)
    BY <1>1, <1>2, <1>7, Times, ScreenAssumption
  <2>2. s.video >= End
    BY <1>1, <1>4, <1>5, <1>6, <2>1
  <2>3. COLS * ((q - h) - ROWS) = COLS * (q - h) - COLS * ROWS
    BY <1>1, <1>2, Times, ScreenAssumption
  <2>4. s.video - End = COLS * ((q - h) - ROWS) + r /\ s.video - End \in Nat
    BY <1>1, <1>4, <1>5, <1>6, <2>2, <2>3
  <2>5. (q - h) - ROWS \in Nat
    BY <1>1, <1>2, <1>7, ScreenAssumption
  <2>6. (s.video - End) \div COLS = (q - h) - ROWS
    BY <1>1, <2>4, <2>5, DivModUnique, ScreenAssumption
  <2>7. LinesBelow(s) = ((q - h) - ROWS) + 1
    BY <2>2, <2>6 DEF LinesBelow
  <2>8. q > ROWS - 1
    BY <1>1, <1>2, <1>7, ScreenAssumption
  <2> QED BY <1>1, <1>2, <1>3, <1>7, <2>7, <2>8, ScreenAssumption DEF q, h, g
<1>8. CASE q - h < ROWS
  <2>1. COLS * (q - h) + COLS <= COLS * ROWS
    BY <1>1, <1>2, <1>8, Times, ScreenAssumption
  <2>2. s.video < End
    BY <1>1, <1>4, <1>5, <1>6, <2>1, ScreenAssumption
  <2>3. LinesBelow(s) = 0
    BY <1>4, <1>5, <2>2 DEF LinesBelow
  <2>4. g = h
    BY <1>1, <1>2, <1>3, <1>8, ScreenAssumption
  <2>5. q - g \in 0 .. (ROWS - 1) /\ g - h = 0
    BY <1>1, <1>2, <1>8, <2>4, ScreenAssumption
  <2> QED BY <2>3, <2>5 DEF q, h, g
<1> QED BY <1>1, <1>2, <1>7, <1>8, ScreenAssumption

LEMMA PutVisible ==
    ASSUME NEW s, NEW t, IsScreen(s), IsTape(t), Shows(s, t), NEW o,
           o.char \in Char, o.color \in Nat, o.char \notin {"\r", "\n"}
    PROVE  LET u == putc(s, o.char, o.color)
               v == Roll(t, o)
           IN  IsScreen(u) /\ IsTape(v) /\ Shows(u, v)
<1> DEFINE u == putc(s, o.char, o.color)
           v == Roll(t, o)
           new == [color |-> o.color, char |-> o.char]
           q == t.pos \div COLS
           r == t.pos % COLS
           h == TopLine(t.line)
           g == TopLine(q)
           by == COLS * LinesBelow(s)
           scrolled == [k \in 0 .. (End - 1) |->
                          IF k + by < End THEN s.cells[k + by] ELSE Blank]
<1>1. u = [cells |-> [scrolled EXCEPT ![s.video - by] = new], video |-> (s.video - by) + 1]
  BY DEF putc, Scrolled
<1>2. v = [pos |-> t.pos + 1, line |-> q,
           at |-> [k \in DOMAIN t.at \cup {t.pos} |-> IF k = t.pos THEN new ELSE t.at[k]]]
  BY DEF Roll
<1>3. v.at = [k \in DOMAIN t.at \cup {t.pos} |-> IF k = t.pos THEN new ELSE t.at[k]]
  BY <1>2
<1>4. new \in Cell /\ Blank \in Cell
  <2>1. new \in Cell
    BY DEF Cell
  <2>2. Blank \in Cell
    <3>1. "" \in Char
      BY DEF Char
    <3>2. 0 \in Nat
      OBVIOUS
    <3> QED BY <3>1, <3>2 DEF Cell, Blank
  <2> QED BY <2>1, <2>2
<1>5. /\ q \in Nat /\ r \in 0 .. (COLS - 1) /\ t.pos = COLS * q + r
      /\ t.line <= q /\ h <= q /\ s.video = COLS * (q - h) + r
  BY Place
<1>6. LinesBelow(s) = g - h /\ LinesBelow(s) \in Nat /\ q - g \in 0 .. (ROWS - 1)
  BY ScrollsToTape
<1>7. h \in Nat /\ g \in Nat /\ t.line \in Nat
  BY <1>5, TopLineIs DEF IsTape
<1>8. h > t.line - ROWS
  BY TopLineIs, ScreenAssumption DEF IsTape
<1> HIDE DEF u, v, q, r, h, g
<1>9. /\ COLS * (q - h) = COLS * q - COLS * h /\ by = COLS * g - COLS * h
      /\ COLS * q \in Int /\ COLS * h \in Int /\ COLS * g \in Int
  BY <1>5, <1>6, <1>7, Times, ScreenAssumption
<1>10. End = COLS * ROWS /\ End \in Nat /\ COLS \in Nat \ {0}
  BY ScreenAssumption DEF End
<1>11. by \in Nat
  BY <1>6, ScreenAssumption
<1>12. s.video - by = t.pos - COLS * g /\ s.video - by \in 0 .. (End - 1)
  <2>1. s.video - by = COLS * (q - g) + r
    <3>1. COLS * (q - g) = COLS * q - COLS * g
      BY <1>5, <1>7, Times, ScreenAssumption
    <3> QED BY <1>5, <1>9, <3>1
  <2>2. COLS * (q - g) + COLS <= COLS * ROWS /\ 0 <= COLS * (q - g)
    <3>1. q - g < ROWS /\ 0 <= q - g
      BY <1>6, ScreenAssumption
    <3>2. COLS * 0 = 0
      BY <1>10
    <3> QED BY <1>5, <1>6, <1>7, <3>1, <3>2, Times, ScreenAssumption
  <2>3. COLS * (q - g) \in Int
    BY <1>5, <1>7, Times, ScreenAssumption
  <2>4. s.video - by \in 0 .. (End - 1)
    BY <1>5, <1>10, <2>1, <2>2, <2>3
  <2>5. s.video - by = t.pos - COLS * g
    BY <1>5, <1>9
  <2> QED BY <2>4, <2>5
<1>13. \A k \in 0 .. (End - 1) : scrolled[k] \in Cell
  BY <1>4, <1>10, <1>11 DEF IsScreen
<1>14. IsScreen(u)
  <2>1. u.video = (s.video - by) + 1 /\ u.cells = [scrolled EXCEPT ![s.video - by] = new]
    BY <1>1
  <2>2. u.video \in Nat
    BY <1>10, <1>12, <2>1
  <2>3. u.cells \in [0 .. (End - 1) -> Cell]
    BY <1>4, <1>13, <2>1
  <2>4. u = [cells |-> u.cells, video |-> u.video]
    BY <1>1
  <2> QED BY <2>2, <2>3, <2>4 DEF IsScreen
<1>15. COLS * (t.line + 1) <= COLS * (q + 1) /\ COLS * (q + 1) = COLS * q + COLS
       /\ COLS * (t.line + 1) \in Int
  BY <1>5, <1>7, Times, ScreenAssumption
<1>16. IsTape(v)
  <2>1. v.pos = t.pos + 1 /\ v.line = q /\ t.pos \in Nat
    BY <1>2 DEF IsTape
  <2>2. COLS * v.line <= v.pos
    BY <1>5, <1>9, <2>1
  <2>3. DOMAIN v.at \subseteq 0 .. (COLS * (v.line + 1) - 1)
    <3>1. t.pos \in 0 .. (COLS * (q + 1) - 1)
      BY <1>5, <1>9, <1>10, <1>15, <2>1
    <3>2. DOMAIN t.at \subseteq 0 .. (COLS * (t.line + 1) - 1)
      BY DEF IsTape
    <3>3. 0 .. (COLS * (t.line + 1) - 1) \subseteq 0 .. (COLS * (q + 1) - 1)
      BY <1>9, <1>10, <1>15
    <3> QED BY <1>3, <2>1, <3>1, <3>2, <3>3
  <2>4. \A k \in DOMAIN v.at : v.at[k] \in Cell
    BY <1>3, <1>4 DEF IsTape
  <2>5. v = [pos |-> v.pos, line |-> v.line, at |-> v.at]
    BY <1>2
  <2> QED BY <1>5, <2>1, <2>2, <2>3, <2>4, <2>5 DEF IsTape
<1>17. Shows(u, v)
  <2>1. v.pos = t.pos + 1 /\ v.line = q /\ t.pos \in Nat
    BY <1>2 DEF IsTape
  <2>2. TopLine(v.line) = g
    BY <2>1 DEF g
  <2>3. u.video = v.pos - COLS * TopLine(v.line)
    BY <1>1, <1>9, <1>10, <1>12, <2>1, <2>2
  <2>4. ASSUME NEW k \in 0 .. (End - 1)
        PROVE  u.cells[k] = IF COLS * g + k \in DOMAIN v.at THEN v.at[COLS * g + k] ELSE Blank
    <3>1. u.cells[k] = IF k = s.video - by THEN new ELSE scrolled[k]
      BY <1>1
    <3>2. k = s.video - by <=> COLS * g + k = t.pos
      BY <1>9, <1>10, <1>12, <2>1
    <3>3. CASE k = s.video - by
      <4>1. COLS * g + k = t.pos
        BY <3>2, <3>3
      <4>2. v.at[t.pos] = new /\ t.pos \in DOMAIN v.at
        BY <1>3
      <4> QED BY <3>1, <3>3, <4>1, <4>2
    <3>4. CASE k # s.video - by
      <4> DEFINE m == COLS * g + k
      <4>1. m # t.pos
        BY <3>2, <3>4
      <4>2. (m \in DOMAIN v.at <=> m \in DOMAIN t.at) /\ (m \in DOMAIN t.at => v.at[m] = t.at[m])
        BY <1>3, <4>1
      <4>3. scrolled[k] = IF m \in DOMAIN t.at THEN t.at[m] ELSE Blank
        <5>1. CASE k + by < End
          <6>1. k + by \in 0 .. (End - 1) /\ COLS * h + (k + by) = m
            BY <1>9, <1>10, <1>11, <5>1
          <6>2. s.cells[k + by] = IF COLS * h + (k + by) \in DOMAIN t.at
                                  THEN t.at[COLS * h + (k + by)] ELSE Blank
            BY <6>1 DEF Shows, h
          <6>3. scrolled[k] = s.cells[k + by]
            BY <5>1
          <6> HIDE DEF scrolled, m, by
          <6> QED BY <6>1, <6>2, <6>3
        <5>2. CASE ~(k + by < End)
          <6>1. COLS * (t.line + 1) <= COLS * (h + ROWS)
            <7>1. t.line + 1 <= h + ROWS
              BY <1>7, <1>8, <1>10, ScreenAssumption
            <7> QED BY <1>7, <7>1, Times, ScreenAssumption
          <6>2. COLS * (h + ROWS) = COLS * h + COLS * ROWS
            BY <1>7, Times, ScreenAssumption
          <6>3. m >= COLS * (t.line + 1)
            BY <1>9, <1>10, <1>11, <1>15, <5>2, <6>1, <6>2
          <6>4. m \notin DOMAIN t.at
            BY <1>15, <6>3, <1>9 DEF IsTape
          <6>5. scrolled[k] = Blank
            BY <5>2
          <6> HIDE DEF scrolled, m, by
          <6> QED BY <6>4, <6>5
        <5> QED BY <5>1, <5>2
      <4> HIDE DEF scrolled, m, by
      <4> QED BY <3>1, <3>4, <4>2, <4>3 DEF m
    <3> QED BY <3>3, <3>4
  <2> QED BY <2>2, <2>3, <2>4 DEF Shows
<1> QED BY <1>14, <1>16, <1>17 DEF u, v

\* To the beginning of the line, and of the next.
LEMMA PutControl ==
    ASSUME NEW s, NEW t, IsScreen(s), IsTape(t), Shows(s, t), NEW o,
           o.char \in {"\r", "\n"}
    PROVE  LET u == putc(s, o.char, o.color)
               v == Roll(t, o)
           IN  IsScreen(u) /\ IsTape(v) /\ Shows(u, v)
<1> DEFINE u == putc(s, o.char, o.color)
           v == Roll(t, o)
           q == t.pos \div COLS
           r == t.pos % COLS
           h == TopLine(t.line)
<1>1. PICK down \in {0, COLS} : /\ u = [s EXCEPT !.video = @ - (@ % COLS) + down]
                                /\ v = [t EXCEPT !.pos = @ - (@ % COLS) + down]
  <2>1. CASE o.char = "\r"
    <3>1. /\ u = [s EXCEPT !.video = @ - (@ % COLS)]
          /\ v = [t EXCEPT !.pos = @ - (@ % COLS)]
      BY <2>1 DEF putc, Roll
    <3>2. /\ s.video - (s.video % COLS) + 0 = s.video - (s.video % COLS)
          /\ t.pos - (t.pos % COLS) + 0 = t.pos - (t.pos % COLS)
      BY ScreenAssumption DEF IsScreen, IsTape
    <3> QED BY <3>1, <3>2
  <2>2. CASE o.char = "\n"
    <3>1. "\n" # "\r"
      OBVIOUS
    <3> QED BY <2>2, <3>1 DEF putc, Roll
  <2> QED BY <2>1, <2>2
<1>2. /\ q \in Nat /\ r \in 0 .. (COLS - 1) /\ t.pos = COLS * q + r
      /\ t.line <= q /\ h <= q
      /\ s.video = COLS * (q - h) + r /\ s.video % COLS = r
  BY Place
<1>3. h \in Nat /\ t.line \in Nat
  BY TopLineIs DEF IsTape
<1>4. u = [cells |-> s.cells, video |-> s.video - r + down]
  BY <1>1, <1>2 DEF IsScreen
<1>5. v = [pos |-> t.pos - r + down, line |-> t.line, at |-> t.at]
  BY <1>1 DEF IsTape
<1> HIDE DEF u, v, q, r, h
<1>6. /\ COLS * q \in Int /\ COLS * h \in Int /\ COLS * (q - h) = COLS * q - COLS * h
      /\ COLS * t.line <= COLS * q /\ COLS * t.line \in Int
  BY <1>2, <1>3, Times, ScreenAssumption
<1>7. 0 <= COLS * (q - h)
  <2>1. COLS * 0 = 0 /\ 0 <= q - h
    BY <1>2, <1>3, ScreenAssumption
  <2> QED BY <1>2, <1>3, <2>1, Times, ScreenAssumption
<1>8. down \in Nat /\ 0 <= COLS * q
  <2>1. COLS * 0 = 0 /\ 0 <= q
    BY <1>2, ScreenAssumption
  <2> QED BY <1>1, <1>2, <2>1, Times, ScreenAssumption
<1>9. IsScreen(u)
  <2>1. s.video - r + down \in Nat
    BY <1>2, <1>6, <1>7, <1>8
  <2> QED BY <1>4, <2>1 DEF IsScreen
<1>10. IsTape(v)
  <2>1. t.pos - r + down \in Nat /\ COLS * t.line <= t.pos - r + down
    BY <1>2, <1>6, <1>8
  <2> QED BY <1>5, <2>1 DEF IsTape
<1>11. Shows(u, v)
  <2>1. u.video = v.pos - COLS * h /\ u.cells = s.cells /\ v.at = t.at /\ TopLine(v.line) = h
    BY <1>2, <1>4, <1>5, <1>6, <1>8 DEF h
  <2> QED BY <2>1 DEF Shows, h
<1> QED BY <1>9, <1>10, <1>11 DEF u, v

-----------------------------------------------------------------------------
(* A text on the screen and on the tape.                                   *)

Entry == [call : CPUs \X Nat, char : Char, color : Nat]

\* A text in the history, as Put writes it there.
Marked(id, text, attribute) ==
    [k \in DOMAIN text |-> [call |-> id, char |-> text[k], color |-> attribute]]

LEMMA SeqIs ==
    ASSUME NEW S, NEW n \in Nat, NEW f \in [1 .. n -> S]
    PROVE  f \in Seq(S) /\ Len(f) = n
OBVIOUS

LEMMA MarkedIs ==
    ASSUME NEW id \in CPUs \X Nat, NEW text \in Seq(Char), NEW attribute \in Nat
    PROVE  /\ Marked(id, text, attribute) \in Seq(Entry)
           /\ Len(Marked(id, text, attribute)) = Len(text)
           /\ \A k \in 1 .. Len(text) : Marked(id, text, attribute)[k] =
                [call |-> id, char |-> text[k], color |-> attribute]
<1>1. DOMAIN text = 1 .. Len(text) /\ Len(text) \in Nat
  BY LenProperties
<1>2. \A k \in 1 .. Len(text) : text[k] \in Char
  BY ElementOfSeq
<1>3. Marked(id, text, attribute) \in [1 .. Len(text) -> Entry]
  BY <1>1, <1>2 DEF Marked, Entry
<1>4. \A k \in 1 .. Len(text) : Marked(id, text, attribute)[k] =
                [call |-> id, char |-> text[k], color |-> attribute]
  BY <1>1 DEF Marked
<1> HIDE DEF Marked
<1> QED BY <1>1, <1>3, <1>4, SeqIs

LEMMA MarkedNext ==
    ASSUME NEW id \in CPUs \X Nat, NEW text \in Seq(Char), NEW attribute \in Nat,
           NEW c \in Char, NEW o \in Seq(Entry)
    PROVE  /\ [call |-> id, char |-> c, color |-> attribute] \in Entry
           /\ o \o Marked(id, text, attribute) \in Seq(Entry)
           /\ o \o Marked(id, Append(text, c), attribute) =
                Append(o \o Marked(id, text, attribute),
                       [call |-> id, char |-> c, color |-> attribute])
<1> DEFINE e == [call |-> id, char |-> c, color |-> attribute]
           m == Marked(id, text, attribute)
           longer == Append(text, c)
           n == Marked(id, longer, attribute)
<1>1. e \in Entry
  BY DEF Entry
<1>2. /\ longer \in Seq(Char) /\ Len(longer) = Len(text) + 1
      /\ \A k \in 1 .. Len(text) : longer[k] = text[k]
      /\ longer[Len(text) + 1] = c
      /\ Len(text) \in Nat
  BY AppendProperties, LenProperties
<1> HIDE DEF longer
<1>3. /\ m \in Seq(Entry) /\ Len(m) = Len(text)
      /\ \A k \in 1 .. Len(text) : m[k] = [call |-> id, char |-> text[k], color |-> attribute]
  <2> HIDE DEF e, n
  <2>1. /\ Marked(id, text, attribute) \in Seq(Entry)
        /\ Len(Marked(id, text, attribute)) = Len(text)
    BY MarkedIs
  <2>2. \A k \in 1 .. Len(text) : Marked(id, text, attribute)[k] =
          [call |-> id, char |-> text[k], color |-> attribute]
    BY MarkedIs
  <2> QED BY <2>1, <2>2 DEF m
<1>4. /\ n \in Seq(Entry) /\ Len(n) = Len(text) + 1
      /\ \A k \in 1 .. (Len(text) + 1) : n[k] =
           [call |-> id, char |-> longer[k], color |-> attribute]
  <2>1. longer \in Seq(Char)
    BY <1>2
  <2>2. /\ n \in Seq(Entry) /\ Len(n) = Len(longer)
        /\ \A k \in 1 .. Len(longer) : n[k] =
             [call |-> id, char |-> longer[k], color |-> attribute]
    BY <2>1, MarkedIs
  <2> HIDE DEF n
  <2> QED BY <1>2, <2>2
<1> HIDE DEF m, n
<1>5. n = Append(m, e)
  <2>1. /\ Append(m, e) \in Seq(Entry) /\ Len(Append(m, e)) = Len(m) + 1
        /\ \A k \in 1 .. Len(m) : Append(m, e)[k] = m[k]
        /\ Append(m, e)[Len(m) + 1] = e
    BY <1>1, <1>3, AppendProperties
  <2>2. ASSUME NEW k \in 1 .. Len(n) PROVE n[k] = Append(m, e)[k]
    <3>1. CASE k \in 1 .. Len(text)
      BY <1>2, <1>3, <1>4, <2>1, <3>1
    <3>2. CASE k = Len(text) + 1
      BY <1>2, <1>3, <1>4, <2>1, <3>2
    <3>3. k \in 1 .. Len(text) \/ k = Len(text) + 1
      <4>1. k \in 1 .. (Len(text) + 1)
        BY <1>4
      <4> QED BY <1>2, <4>1
    <3> QED BY <3>1, <3>2, <3>3
  <2> QED BY <1>3, <1>4, <2>1, <2>2, SeqEqual
<1>6. o \o m \in Seq(Entry)
  BY <1>3, ConcatProperties
<1>7. o \o n = Append(o \o m, e)
  <2>1. Append(m, e) = m \o <<e>> /\ Append(o \o m, e) = (o \o m) \o <<e>>
    BY <1>1, <1>3, <1>6, AppendIsConcat
  <2>2. <<e>> \in Seq(Entry)
    BY <1>1
  <2> QED BY <1>3, <1>5, <2>1, <2>2, ConcatAssociative
<1> QED BY <1>1, <1>6, <1>7 DEF m, n, longer

\* Any text.
LEMMA TextOnScreen ==
    ASSUME NEW s, IsScreen(s), NEW o \in Seq(Entry), IsTape(Tape(o)), Shows(s, Tape(o)),
           NEW id \in CPUs \X Nat, NEW attribute \in Nat, NEW text \in Seq(Char)
    PROVE  LET u == PutAll(s, text, attribute)
               w == o \o Marked(id, text, attribute)
           IN  IsScreen(u) /\ w \in Seq(Entry) /\ IsTape(Tape(w)) /\ Shows(u, Tape(w))
<1> DEFINE u(x) == PutAll(s, x, attribute)
           w(x) == o \o Marked(id, x, attribute)
           Good(x) == /\ IsScreen(u(x)) /\ w(x) \in Seq(Entry)
                      /\ IsTape(Tape(w(x))) /\ Shows(u(x), Tape(w(x)))
           Bad == {x \in Seq(Char) : ~Good(x)}
           T == {Len(x) : x \in Bad}
<1>1. Good(<<>>)
  <2>1. u(<<>>) = s
    <3>1. Fold(Onto(s, attribute), <<>>) = From(Onto(s, attribute))
      BY FoldNone
    <3> QED BY <3>1 DEF Fold, From, Onto
  <2>2. w(<<>>) = o
    <3>1. Marked(id, <<>>, attribute) = <<>>
      BY DEF Marked
    <3> QED BY <3>1, ConcatEmptySeq
  <2> HIDE DEF u, w
  <2> QED BY <2>1, <2>2
<1>2. ASSUME NEW x \in Seq(Char), NEW c \in Char, Good(x)
      PROVE  Good(Append(x, c))
  <2> DEFINE e == [call |-> id, char |-> c, color |-> attribute]
  <2>1. u(Append(x, c)) = putc(u(x), c, attribute)
    <3>1. Fold(Onto(s, attribute), Append(x, c)) =
            OneMore(Onto(s, attribute), Fold(Onto(s, attribute), x), c)
      BY FoldNext
    <3> QED BY <3>1 DEF Fold, OneMore, Onto
  <2>2. w(Append(x, c)) = Append(w(x), e) /\ e \in Entry
    BY MarkedNext
  <2>3. w(Append(x, c)) \in Seq(Entry)
    BY <1>2, <2>2, AppendProperties
  <2>4. Tape(w(Append(x, c))) = Roll(Tape(w(x)), e)
    <3> DEFINE h == [tape |-> TRUE]
    <3>1. w(x) \in Seq(Entry)
      BY <1>2
    <3> HIDE DEF w, e, h
    <3>2. Fold(h, Append(w(x), e)) = OneMore(h, Fold(h, w(x)), e)
      BY <2>2, <3>1, FoldNext
    <3> USE DEF h
    <3> QED BY <2>2, <3>2 DEF Fold, OneMore
  <2>5. e.char = c /\ e.color = attribute
    OBVIOUS
  <2>6. IsScreen(u(x)) /\ IsTape(Tape(w(x))) /\ Shows(u(x), Tape(w(x)))
    BY <1>2
  <2> HIDE DEF e, u, w
  <2> DEFINE p == putc(u(x), e.char, e.color)
             q == Roll(Tape(w(x)), e)
  <2>7. IsScreen(p) /\ IsTape(q) /\ Shows(p, q)
    <3>1. CASE e.char \in {"\r", "\n"}
      BY <2>6, <3>1, PutControl
    <3>2. CASE e.char \notin {"\r", "\n"}
      BY <2>5, <2>6, <3>2, PutVisible
    <3> QED BY <3>1, <3>2
  <2>8. p = u(Append(x, c)) /\ q = Tape(w(Append(x, c)))
    BY <2>1, <2>4, <2>5
  <2> HIDE DEF p, q
  <2> QED BY <2>3, <2>7, <2>8
<1> HIDE DEF Good
<1>3. Bad = {}
  <2> SUFFICES ASSUME Bad # {} PROVE FALSE
    OBVIOUS
  <2>1. T \subseteq Nat /\ T # {}
    <3>1. \A x \in Seq(Char) : Len(x) \in Nat
      BY LenProperties
    <3> QED BY <3>1
  <2>2. PICK n \in T : \A m \in T : n <= m
    <3> HIDE DEF T
    <3> QED BY <2>1, LeastNat
  <2>3. PICK x \in Bad : n = Len(x)
    BY <2>2
  <2>4. x # <<>>
    BY <1>1
  <2>5. PICK y \in Seq(Char), c \in Char : x = Append(y, c)
    BY <2>3, <2>4, SequenceEmptyOrAppend
  <2>6. Len(x) = Len(y) + 1 /\ Len(y) \in Nat
    BY <2>5, AppendProperties, LenProperties
  <2>7. Len(y) \notin T
    BY <2>2, <2>3, <2>6
  <2>8. Good(y)
    BY <2>7
  <2> QED BY <1>2, <2>3, <2>5, <2>8
<1>4. Good(text)
  BY <1>3
<1> QED BY <1>4 DEF Good

-----------------------------------------------------------------------------
(* The text of a number.                                                   *)

Radix == {8, 10, 16}

DigitsFrom(f, radix, top) ==
    f = [m \in 0 .. top |-> IF m = 0 THEN <<>>
                            ELSE <<Digit[(m % radix) + 1]>> \o f[m \div radix]]

LEMMA DigitIsChar ==
    ASSUME NEW k \in 1 .. 16
    PROVE  Digit[k] \in Char
<1>1. /\ "0" \in Char /\ "1" \in Char /\ "2" \in Char /\ "3" \in Char
      /\ "4" \in Char /\ "5" \in Char /\ "6" \in Char /\ "7" \in Char
      /\ "8" \in Char /\ "9" \in Char /\ "a" \in Char /\ "b" \in Char
      /\ "c" \in Char /\ "d" \in Char /\ "e" \in Char /\ "f" \in Char
  BY DEF Char
<1>2. Digit \in Seq(Char) /\ Len(Digit) = 16
  BY <1>1 DEF Digit
<1> QED BY <1>2, ElementOfSeq

LEMMA DigitsShrink ==
    ASSUME NEW m \in Nat, m > 0, NEW radix \in Radix
    PROVE  m \div radix \in 0 .. (m - 1) /\ (m % radix) + 1 \in 1 .. 16
<1>1. CASE radix = 8
  BY <1>1
<1>2. CASE radix = 10
  BY <1>2
<1>3. CASE radix = 16
  BY <1>3
<1> QED BY <1>1, <1>2, <1>3 DEF Radix

LEMMA DigitsFromExists ==
    ASSUME NEW radix \in Radix, NEW top \in Nat
    PROVE  \E f : DigitsFrom(f, radix, top)
<1> SUFFICES ASSUME ~\E f : DigitsFrom(f, radix, top) PROVE FALSE
  OBVIOUS
<1> DEFINE T == {k \in Nat : ~\E f : DigitsFrom(f, radix, k)}
<1>1. PICK k \in T : \A j \in T : k <= j
  <2>1. T \subseteq Nat /\ T # {}
    OBVIOUS
  <2> HIDE DEF T
  <2> QED BY <2>1, LeastNat
<1>2. k # 0
  <2>1. DigitsFrom([m \in 0 .. 0 |-> <<>>], radix, 0)
    BY DEF DigitsFrom
  <2> QED BY <2>1
<1>3. k - 1 \in Nat /\ k - 1 \notin T /\ k \in Nat /\ k > 0
  BY <1>1, <1>2
<1>4. PICK f : DigitsFrom(f, radix, k - 1)
  BY <1>3
<1> DEFINE More(g, m) == <<Digit[(m % radix) + 1]>> \o g[m \div radix]
           g == [m \in 0 .. k |-> IF m = k THEN More(f, m) ELSE f[m]]
<1>5. ASSUME NEW m \in 0 .. k
      PROVE  g[m] = IF m = 0 THEN <<>> ELSE More(g, m)
  <2>1. CASE m = 0
    <3>1. g[0] = f[0]
      BY <1>3
    <3>2. f[0] = <<>>
      BY <1>3, <1>4 DEF DigitsFrom
    <3> HIDE DEF g
    <3> QED BY <2>1, <3>1, <3>2
  <2>2. CASE m # 0
    <3>1. m \div radix \in 0 .. (m - 1)
      BY <1>3, <2>2, DigitsShrink
    <3>2. m \div radix \in 0 .. k /\ m \div radix # k /\ m \div radix \in 0 .. (k - 1)
      BY <1>3, <3>1
    <3>3. g[m \div radix] = f[m \div radix]
      BY <3>2
    <3>4. g[m] = More(f, m)
      <4>1. CASE m = k
        BY <4>1
      <4>2. CASE m # k
        <5>1. g[m] = f[m] /\ m \in 0 .. (k - 1)
          BY <1>3, <4>2
        <5>2. f[m] = More(f, m)
          BY <1>4, <2>2, <5>1 DEF DigitsFrom
        <5> HIDE DEF g, More
        <5> QED BY <5>1, <5>2
      <4> QED BY <4>1, <4>2
    <3>5. More(f, m) = More(g, m)
      <4> HIDE DEF g
      <4> QED BY <3>3
    <3> HIDE DEF g, More
    <3> QED BY <2>2, <3>4, <3>5
  <2> QED BY <2>1, <2>2
<1>6. DigitsFrom(g, radix, k)
  <2>1. g = [m \in 0 .. k |-> g[m]]
    OBVIOUS
  <2> HIDE DEF g
  <2> QED BY <1>5, <2>1 DEF DigitsFrom
<1> QED BY <1>1, <1>6

LEMMA DigitsAreText ==
    ASSUME NEW m \in Word, NEW radix \in Radix
    PROVE  DigitsOf(m, radix) \in Seq(Char)
<1> DEFINE from == CHOOSE f : DigitsFrom(f, radix, W - 1)
<1>1. DigitsOf(m, radix) = IF m = 0 THEN <<"0">> ELSE from[m]
  BY DEF DigitsOf, DigitsFrom, Word
<1>2. DigitsFrom(from, radix, W - 1)
  <2>1. W - 1 \in Nat
    BY WAssumption
  <2> QED BY <2>1, DigitsFromExists
<1> HIDE DEF from
<1>3. \A k \in Word : from[k] \in Seq(Char)
  <2> SUFFICES ASSUME ~\A k \in Word : from[k] \in Seq(Char) PROVE FALSE
    OBVIOUS
  <2> DEFINE T == {k \in Word : from[k] \notin Seq(Char)}
  <2>1. PICK k \in T : \A j \in T : k <= j
    <3>1. T \subseteq Nat /\ T # {}
      BY DEF Word
    <3> HIDE DEF T
    <3> QED BY <3>1, LeastNat
  <2>2. k \in 0 .. (W - 1) /\ k \in Nat
    BY <2>1 DEF Word
  <2>3. k # 0
    <3>1. from[0] = <<>>
      <4>1. 0 \in 0 .. (W - 1)
        BY WAssumption
      <4> QED BY <1>2, <4>1 DEF DigitsFrom
    <3>2. <<>> \in Seq(Char)
      OBVIOUS
    <3> QED BY <2>1, <3>1, <3>2
  <2>4. k \div radix \in 0 .. (k - 1) /\ (k % radix) + 1 \in 1 .. 16
    BY <2>2, <2>3, DigitsShrink
  <2>5. from[k \div radix] \in Seq(Char)
    <3>1. k \div radix \in Word
      <4> DEFINE q == k \div radix
      <4>1. q \in 0 .. (k - 1)
        BY <2>4
      <4> HIDE DEF q
      <4>2. q \in 0 .. (W - 1)
        BY <2>2, <4>1, WAssumption
      <4> QED BY <4>2 DEF Word, q
    <3>2. k \div radix \notin T
      BY <2>1, <2>2, <2>4
    <3> QED BY <3>1, <3>2
  <2>6. <<Digit[(k % radix) + 1]>> \in Seq(Char)
    <3> DEFINE d == Digit[(k % radix) + 1]
    <3>1. d \in Char
      BY <2>4, DigitIsChar
    <3> HIDE DEF d
    <3>2. <<d>> \in Seq(Char)
      BY <3>1
    <3> QED BY <3>2 DEF d
  <2>7. from[k] = <<Digit[(k % radix) + 1]>> \o from[k \div radix]
    BY <1>2, <2>2, <2>3 DEF DigitsFrom
  <2>8. from[k] \in Seq(Char)
    BY <2>5, <2>6, <2>7, ConcatProperties
  <2> QED BY <2>1, <2>8
<1>4. <<"0">> \in Seq(Char)
  <2> DEFINE zero == "0"
  <2>1. zero \in Char
    BY DEF Char
  <2> HIDE DEF zero
  <2>2. <<zero>> \in Seq(Char)
    BY <2>1
  <2> QED BY <2>2 DEF zero
<1> QED BY <1>1, <1>3, <1>4

LEMMA PaddedIs ==
    ASSUME NEW text \in Seq(Char), Len(text) <= BUFFER,
           NEW n, n.width \in Nat, n.precision \in Nat, n.pad \in Char
    PROVE  Padded(text, n) \in Seq(Char) /\ Len(Padded(text, n)) <= BUFFER
<1> DEFINE missing(w) == IF w > Len(text) THEN Min({w, BUFFER}) - Len(text) ELSE 0
           more == Max({missing(n.width), missing(n.precision)})
           zeros == [k \in 1 .. more |-> n.pad]
<1>1. Len(text) \in Nat /\ BUFFER \in Nat
  BY LenProperties, BufferAssumption
<1>2. ASSUME NEW w \in Nat PROVE missing(w) \in 0 .. (BUFFER - Len(text))
  <2>1. Min({w, BUFFER}) = IF w <= BUFFER THEN w ELSE BUFFER
    BY <1>1, MinOfTwo
  <2> QED BY <1>1, <2>1
<1>3. more \in 0 .. (BUFFER - Len(text))
  <2>1. missing(n.width) \in 0 .. (BUFFER - Len(text))
        /\ missing(n.precision) \in 0 .. (BUFFER - Len(text))
    BY <1>2
  <2> HIDE DEF missing
  <2> QED BY <1>1, <2>1, MaxOfTwo
<1>4. Padded(text, n) = text \o zeros
  BY DEF Padded
<1> HIDE DEF more
<1>5. zeros \in Seq(Char) /\ Len(zeros) = more
  <2>1. more \in Nat /\ zeros \in [1 .. more -> Char]
    BY <1>1, <1>3
  <2> HIDE DEF zeros
  <2> QED BY <2>1, SeqIs
<1> HIDE DEF zeros
<1>6. text \o zeros \in Seq(Char) /\ Len(text \o zeros) = Len(text) + more
  BY <1>5, ConcatProperties
<1> QED BY <1>1, <1>3, <1>4, <1>6

LEMMA ReverseIs ==
    ASSUME NEW S, NEW s \in Seq(S)
    PROVE  Reverse(s) \in Seq(S) /\ Len(Reverse(s)) = Len(s)
<1>1. Len(s) \in Nat
  BY LenProperties
<1>2. \A k \in 1 .. Len(s) : s[(Len(s) - k) + 1] \in S
  <2> TAKE k \in 1 .. Len(s)
  <2>1. (Len(s) - k) + 1 \in 1 .. Len(s)
    BY <1>1
  <2> QED BY <2>1, ElementOfSeq
<1>3. Reverse(s) \in [1 .. Len(s) -> S]
  BY <1>2 DEF Reverse
<1> QED BY <1>1, <1>3, SeqIs

IsNumber(n) == /\ n.arg \in Int /\ n.radix \in Radix /\ n.pad \in Char /\ n.sign \in Char
               /\ n.width \in Nat /\ n.precision \in Nat

\* The text of any number is as long as the buffer at most.
LEMMA NumbersFit ==
    ASSUME NEW n, IsNumber(n)
    PROVE  convert_number(n) \in Seq(Char) /\ Len(convert_number(n)) <= BUFFER
<1> DEFINE digits == DigitsOf(Magnitude(n), n.radix)
           text == IF SignOf(n) = "" THEN Padded(digits, n)
                   ELSE IF SignFirst(n, digits) THEN Padded(Append(digits, SignOf(n)), n)
                   ELSE InLastPlace(Padded(digits, n), LateSign(n))
<1>1. Magnitude(n) \in Word
  <2>1. Value(n) \in 0 .. (W - 1)
    BY WAssumption DEF Value, IsNumber
  <2> QED BY <2>1, WAssumption DEF Magnitude, Sub, Word
<1>2. digits \in Seq(Char) /\ Len(digits) < BUFFER /\ Len(digits) \in Nat
  <2>1. digits \in Seq(Char)
    BY <1>1, DigitsAreText DEF IsNumber
  <2>2. Len(digits) < BUFFER
    BY <1>1, BufferAssumption DEF IsNumber, Radix
  <2> HIDE DEF digits
  <2> QED BY <2>1, <2>2, LenProperties
<1>3. SignOf(n) \in Char /\ LateSign(n) \in Char
  <2>1. "-" \in Char /\ "+" \in Char
    BY DEF Char
  <2> QED BY <2>1 DEF SignOf, LateSign, IsNumber
<1>4. BUFFER \in Nat
  BY BufferAssumption
<1>5. convert_number(n) = Reverse(text)
  BY DEF convert_number
<1> HIDE DEF digits
<1>6. text \in Seq(Char) /\ Len(text) <= BUFFER
  <2>1. Padded(digits, n) \in Seq(Char) /\ Len(Padded(digits, n)) <= BUFFER
    BY <1>2, <1>4, PaddedIs DEF IsNumber
  <2>2. CASE SignOf(n) = ""
    BY <2>1, <2>2
  <2>3. CASE SignOf(n) # "" /\ SignFirst(n, digits)
    <3> DEFINE longer == Append(digits, SignOf(n))
    <3>1. longer \in Seq(Char) /\ Len(longer) = Len(digits) + 1
      BY <1>2, <1>3, AppendProperties
    <3> HIDE DEF longer
    <3>2. Padded(longer, n) \in Seq(Char) /\ Len(Padded(longer, n)) <= BUFFER
      <4>1. Len(longer) <= BUFFER
        BY <1>2, <1>4, <3>1
      <4>2. n.width \in Nat /\ n.precision \in Nat /\ n.pad \in Char
        BY DEF IsNumber
      <4> HIDE DEF text
      <4> QED BY <3>1, <4>1, <4>2, PaddedIs
    <3> QED BY <2>3, <3>2 DEF longer
  <2>4. CASE SignOf(n) # "" /\ ~SignFirst(n, digits)
    <3> DEFINE p == Padded(digits, n)
               e == InLastPlace(p, LateSign(n))
    <3>1. Len(p) \in Nat /\ p \in [1 .. Len(p) -> Char]
      BY <2>1, LenProperties
    <3> HIDE DEF p
    <3>2. e \in [1 .. Len(p) -> Char]
      BY <1>3, <3>1 DEF InLastPlace
    <3> HIDE DEF e
    <3>3. e \in Seq(Char) /\ Len(e) = Len(p)
      BY <3>1, <3>2, SeqIs
    <3> QED BY <2>1, <2>4, <3>3 DEF e, p
  <2> QED BY <2>2, <2>3, <2>4
<1> HIDE DEF text
<1> QED BY <1>5, <1>6, ReverseIs

-----------------------------------------------------------------------------
(* The invariant.                                                          *)

Inside == {"print", "puts"}
Outside == {"idle", "lock", "return"}

TypeInv ==
    /\ lock_printf \in {0, 1} /\ color \in Nat /\ printed \in Nat
    /\ converted \in Seq(Char) /\ Len(converted) <= BUFFER
    /\ pc \in [CPUs -> Inside \cup Outside]
    /\ todo \in [CPUs -> Seq(Directive)]
    /\ calls \in [CPUs -> Nat]
    /\ output \in Seq(Entry)

Terminal == [cells |-> cells, video |-> video]

Shown == IsScreen(Terminal) /\ IsTape(Tape(output)) /\ Shows(Terminal, Tape(output))

OneInside ==
    \A p \in CPUs : pc[p] \in Inside =>
        /\ lock_printf = 1
        /\ \A q \in CPUs : pc[q] \in Inside => p = q

\* The number left in the buffer is for a directive that is still to do.
Directed == \A p \in CPUs : pc[p] = "puts" => todo[p] # <<>>

\* Nothing printed is from a call to come.
Dated == \A k \in 1 .. Len(output) : output[k].call[2] <= calls[output[k].call[1]]

Own(p) == <<p, calls[p]>>

\* A call that waits for the lock has printed nothing, and what a call inside has
\* printed is the last of everything.
Begun(p) ==
    /\ pc[p] = "lock" => \A k \in 1 .. Len(output) : output[k].call # Own(p)
    /\ pc[p] \in Inside =>
         \A j, k \in 1 .. Len(output) :
             j <= k /\ output[j].call = Own(p) => output[k].call = Own(p)

ConsoleInv == /\ TypeInv /\ Shown /\ OneInside /\ Directed
              /\ Dated /\ (\A p \in CPUs : Begun(p)) /\ MessagesWhole

LEMMA InitHolds == Init => ConsoleInv
<1> SUFFICES ASSUME Init PROVE ConsoleInv
  OBVIOUS
<1>1. TypeInv
  <2>1. BUFFER \in Nat /\ <<>> \in Seq(Char) /\ <<>> \in Seq(Directive) /\ <<>> \in Seq(Entry)
        /\ Len(<<>>) = 0
    BY BufferAssumption
  <2> QED BY <2>1 DEF TypeInv, Init, Inside, Outside, DefaultColor
<1>2. output = <<>> /\ Len(output) = 0
  BY DEF Init
<1>3. Shown
  <2>1. Tape(output) = EmptyTape
    <3>1. Fold([tape |-> TRUE], <<>>) = From([tape |-> TRUE])
      BY FoldNone
    <3> QED BY <1>2, <3>1 DEF Fold, From
  <2>2. End \in Nat /\ ROWS \in Nat \ {0} /\ COLS \in Nat \ {0} /\ COLS * 0 = 0
    BY ScreenAssumption DEF End
  <2>3. Blank \in Cell
    <3>1. "" \in Char
      BY DEF Char
    <3> QED BY <3>1 DEF Cell, Blank
  <2>4. IsScreen(Terminal)
    BY <2>3 DEF IsScreen, Terminal, Init
  <2>5. EmptyTape.pos = 0 /\ EmptyTape.line = 0 /\ EmptyTape.at = <<>> /\ DOMAIN EmptyTape.at = {}
    BY DEF EmptyTape
  <2>6. IsTape(EmptyTape)
    <3>1. EmptyTape = [pos |-> EmptyTape.pos, line |-> EmptyTape.line, at |-> EmptyTape.at]
      BY DEF EmptyTape
    <3> QED BY <2>2, <2>5, <3>1 DEF IsTape
  <2>7. TopLine(0) = 0
    BY <2>2, TopLineIs
  <2>8. Terminal.video = 0 /\ \A k \in 0 .. (End - 1) : Terminal.cells[k] = Blank
    BY DEF Init, Terminal
  <2>9. Shows(Terminal, EmptyTape)
    BY <2>2, <2>5, <2>7, <2>8 DEF Shows
  <2> QED BY <2>1, <2>4, <2>6, <2>9 DEF Shown
<1>4. OneInside /\ Directed
  BY DEF OneInside, Directed, Inside, Init
<1>5. Dated /\ (\A p \in CPUs : Begun(p)) /\ MessagesWhole
  BY <1>2 DEF Dated, Begun, MessagesWhole
<1> QED BY <1>1, <1>3, <1>4, <1>5 DEF ConsoleInv

\* A processor puts a text, and stays inside.
LEMMA PutKeeps ==
    ASSUME ConsoleInv, NEW p \in CPUs, pc[p] \in Inside, NEW text \in Seq(Char), Put(p, text),
           calls' = calls, pc'[p] \in Inside, \A q \in CPUs : q # p => pc'[q] = pc[q]
    PROVE  /\ printed' \in Nat /\ output' \in Seq(Entry)
           /\ Shown' /\ Dated' /\ (\A q \in CPUs : Begun(q)') /\ MessagesWhole'
<1> DEFINE m == Marked(Own(p), text, color)
           n == Len(output)
<1>1. output \in Seq(Entry) /\ color \in Nat /\ printed \in Nat /\ Own(p) \in CPUs \X Nat
  BY DEF ConsoleInv, TypeInv, Own
<1>2. output' = output \o m
  BY DEF Put, Marked, Own
<1>3. m \in Seq(Entry) /\ Len(m) = Len(text) /\ \A k \in 1 .. Len(text) : m[k].call = Own(p)
  <2>1. m \in Seq(Entry) /\ Len(m) = Len(text)
    BY <1>1, MarkedIs
  <2>2. DOMAIN text = 1 .. Len(text)
    BY LenProperties
  <2>3. \A k \in 1 .. Len(text) : m[k].call = Own(p)
    BY <2>2 DEF Marked
  <2> QED BY <2>1, <2>3
<1>4. printed' \in Nat
  BY <1>1, LenProperties DEF Put
<1>5. output' \in Seq(Entry) /\ Shown'
  <2> DEFINE u == PutAll(Terminal, text, color)
  <2>1. IsScreen(u) /\ output' \in Seq(Entry) /\ IsTape(Tape(output')) /\ Shows(u, Tape(output'))
    BY <1>1, <1>2, TextOnScreen DEF ConsoleInv, Shown
  <2>2. cells' = u.cells /\ video' = u.video
    BY DEF Put, Terminal
  <2> HIDE DEF u
  <2>3. Terminal' = u
    BY <2>1, <2>2 DEF Terminal, IsScreen
  <2> QED BY <2>1, <2>3 DEF Shown
<1> HIDE DEF m
<1>6. /\ n \in Nat /\ Len(m) \in Nat /\ Len(output') = n + Len(m)
      /\ \A k \in 1 .. n : output'[k] = output[k]
      /\ \A k \in (n + 1) .. (n + Len(m)) : output'[k].call = Own(p)
  <2>1. n \in Nat /\ Len(m) \in Nat
    BY <1>1, <1>3, LenProperties
  <2>2. /\ Len(output') = n + Len(m)
        /\ \A k \in 1 .. (n + Len(m)) : output'[k] = IF k <= n THEN output[k] ELSE m[k - n]
    <3>1. m \in Seq(Entry)
      BY <1>3
    <3>2. /\ Len(output \o m) = Len(output) + Len(m)
          /\ \A k \in 1 .. (Len(output) + Len(m)) :
               (output \o m)[k] = IF k <= Len(output) THEN output[k] ELSE m[k - Len(output)]
      BY <1>1, <3>1, ConcatProperties
    <3> QED BY <1>2, <3>2
  <2>3. ASSUME NEW k \in (n + 1) .. (n + Len(m)) PROVE output'[k].call = Own(p)
    <3>1. k \in 1 .. (n + Len(m)) /\ ~(k <= n) /\ k - n \in 1 .. Len(text)
      BY <1>3, <2>1
    <3> QED BY <1>3, <2>2, <3>1
  <2> QED BY <2>1, <2>2, <2>3
<1> HIDE DEF n
<1>7. \A q : Own(q)' = Own(q)
  BY DEF Own
<1>8. \A k \in 1 .. Len(output') : k \in 1 .. n \/ k \in (n + 1) .. (n + Len(m))
  BY <1>6
<1>9. Dated'
  <2>1. Own(p)[1] = p /\ Own(p)[2] = calls[p] /\ calls[p] \in Nat
    BY DEF Own, ConsoleInv, TypeInv
  <2>2. ASSUME NEW k \in 1 .. Len(output')
        PROVE  output'[k].call[2] <= calls'[output'[k].call[1]]
    <3>1. CASE k \in 1 .. n
      <4>1. output[k].call[2] <= calls[output[k].call[1]]
        BY <3>1 DEF ConsoleInv, Dated, n
      <4> QED BY <1>6, <3>1, <4>1
    <3>2. CASE k \in (n + 1) .. (n + Len(m))
      BY <1>6, <2>1, <3>2
    <3> QED BY <1>8, <3>1, <3>2
  <2> QED BY <2>2 DEF Dated
<1>10. \A j, k \in 1 .. n : j <= k /\ output[j].call = Own(p) => output[k].call = Own(p)
  BY DEF ConsoleInv, Begun, n
<1>11. ASSUME NEW q \in CPUs PROVE Begun(q)'
  <2>1. CASE q = p
    <3>1. pc'[p] # "lock"
      BY DEF Inside
    <3>2. ASSUME NEW j \in 1 .. Len(output'), NEW k \in 1 .. Len(output'), j <= k,
                 output'[j].call = Own(p)
          PROVE  output'[k].call = Own(p)
      <4>1. CASE k \in (n + 1) .. (n + Len(m))
        BY <1>6, <4>1
      <4>2. CASE k \in 1 .. n
        <5>1. j \in 1 .. n
          BY <1>6, <3>2, <4>2
        <5> QED BY <1>6, <1>10, <3>2, <4>2, <5>1
      <4> QED BY <1>8, <4>1, <4>2
    <3> QED BY <1>7, <2>1, <3>1, <3>2 DEF Begun
  <2>2. CASE q # p
    <3>1. pc'[q] = pc[q] /\ pc[q] \notin Inside
      BY <2>2 DEF ConsoleInv, OneInside
    <3>2. Own(p) # Own(q)
      BY <2>2 DEF Own
    <3>3. pc[q] = "lock" => \A k \in 1 .. n : output[k].call # Own(q)
      BY DEF ConsoleInv, Begun, n
    <3>4. pc[q] = "lock" => \A k \in 1 .. Len(output') : output'[k].call # Own(q)
      BY <1>6, <1>8, <3>2, <3>3
    <3> QED BY <1>7, <3>1, <3>4 DEF Begun
  <2> QED BY <2>1, <2>2
<1>12. MessagesWhole'
  <2>1. ASSUME NEW j \in 2 .. Len(output'), output'[j].call # output'[j - 1].call,
               NEW i \in 1 .. (j - 1)
        PROVE  output'[i].call # output'[j].call
    <3>1. CASE j <= n
      <4>1. j \in 2 .. n /\ j \in 1 .. n /\ j - 1 \in 1 .. n /\ i \in 1 .. n
        BY <1>6, <3>1
      <4>2. output[j].call # output[j - 1].call => output[i].call # output[j].call
        BY <4>1 DEF ConsoleInv, MessagesWhole, n
      <4> QED BY <1>6, <2>1, <4>1, <4>2
    <3>2. CASE j = n + 1
      <4>1. n \in 1 .. n /\ i \in 1 .. n /\ i <= n /\ j - 1 = n /\ j \in (n + 1) .. (n + Len(m))
        BY <1>6, <3>2
      <4>2. output[n].call # Own(p)
        BY <1>6, <2>1, <4>1
      <4>3. output[i].call # Own(p)
        BY <1>10, <4>1, <4>2
      <4> QED BY <1>6, <4>1, <4>3
    <3>3. CASE j > n + 1
      <4>1. j \in (n + 1) .. (n + Len(m)) /\ j - 1 \in (n + 1) .. (n + Len(m))
        BY <1>6, <3>3
      <4> QED BY <1>6, <2>1, <4>1
    <3> QED BY <1>6, <3>1, <3>2, <3>3
  <2> QED BY <2>1 DEF MessagesWhole
<1> QED BY <1>4, <1>5, <1>9, <1>11, <1>12

\* A step that puts nothing: the processor stays where it is with the lock, gets
\* it, or is outside afterwards.
LEMMA SilentKeeps ==
    ASSUME ConsoleInv, NEW p \in CPUs, UNCHANGED <<cells, video, output>>,
           \A q \in CPUs : q # p => pc'[q] = pc[q] /\ calls'[q] = calls[q],
           \/ pc'[p] = "lock" /\ calls'[p] = calls[p] + 1
           \/ pc'[p] \in {"idle", "return"} /\ calls'[p] = calls[p]
           \/ pc'[p] \in Inside /\ pc[p] \in Inside \cup {"lock"} /\ calls'[p] = calls[p]
    PROVE  Shown' /\ Dated' /\ (\A q \in CPUs : Begun(q)') /\ MessagesWhole'
<1>1. output' = output /\ cells' = cells /\ video' = video
  OBVIOUS
<1>2. Shown'
  BY <1>1 DEF ConsoleInv, Shown, Terminal
<1>3. MessagesWhole'
  BY <1>1 DEF ConsoleInv, MessagesWhole
<1>4. \A q \in CPUs : calls[q] \in Nat
  BY DEF ConsoleInv, TypeInv
<1>5. \A k \in 1 .. Len(output) :
        /\ output[k].call \in CPUs \X Nat
        /\ output[k].call[1] \in CPUs /\ output[k].call[2] \in Nat
        /\ output[k].call[2] <= calls[output[k].call[1]]
  <2> TAKE k \in 1 .. Len(output)
  <2>1. output[k] \in Entry
    BY ElementOfSeq DEF ConsoleInv, TypeInv
  <2>2. output[k].call \in CPUs \X Nat
    BY <2>1 DEF Entry
  <2> QED BY <2>2 DEF ConsoleInv, Dated
<1>6. Dated'
  <2>1. ASSUME NEW k \in 1 .. Len(output)
        PROVE  output[k].call[2] <= calls'[output[k].call[1]]
    <3> DEFINE q == output[k].call[1]
               n == output[k].call[2]
    <3>1. q \in CPUs /\ n \in Nat /\ n <= calls[q]
      BY <1>5
    <3>2. calls[q] \in Nat /\ (calls'[q] = calls[q] \/ calls'[q] = calls[q] + 1)
      BY <3>1 DEF ConsoleInv, TypeInv
    <3> HIDE DEF q, n
    <3>3. n <= calls'[q]
      BY <3>1, <3>2
    <3> QED BY <3>3 DEF q, n
  <2> QED BY <1>1, <2>1 DEF Dated
<1>7. ASSUME NEW q \in CPUs PROVE Begun(q)'
  <2>1. CASE calls'[q] = calls[q]
    <3>1. Own(q)' = Own(q)
      BY <2>1 DEF Own
    <3>2. pc'[q] = "lock" => pc[q] = "lock"
      <4>1. calls[q] \in Nat
        BY <1>4
      <4> QED BY <2>1, <4>1 DEF Inside
    <3>3. pc'[q] \in Inside => pc[q] \in Inside \cup {"lock"}
      BY DEF Inside
    <3>4. Begun(q)
      BY DEF ConsoleInv
    <3> QED BY <1>1, <3>1, <3>2, <3>3, <3>4 DEF Begun, Inside
  <2>2. CASE calls'[q] # calls[q]
    <3>1. q = p /\ pc'[q] = "lock" /\ calls'[q] = calls[q] + 1
      BY <2>2
    <3>2. ASSUME NEW k \in 1 .. Len(output), output[k].call = <<q, calls[q] + 1>>
          PROVE  FALSE
      <4>1. output[k].call[1] = q /\ output[k].call[2] = calls[q] + 1
        BY <3>2
      <4>2. calls[q] + 1 <= calls[q] /\ calls[q] \in Nat
        BY <1>4, <1>5, <4>1
      <4> QED BY <4>2
    <3>3. Own(q)' = <<q, calls[q] + 1>>
      BY <3>1 DEF Own
    <3> QED BY <1>1, <3>1, <3>2, <3>3 DEF Begun, Inside
  <2> QED BY <2>1, <2>2
<1> QED BY <1>2, <1>3, <1>6, <1>7

\* Directives by their kind.
LEMMA DirectiveKinds ==
    ASSUME NEW d \in Directive
    PROVE  /\ d.kind = "text" => d.text \in Seq(STRING) /\ d.precision \in Nat
           /\ d.kind = "color" => d.color \in Nat
           /\ d.kind = "pad" => d.char \in STRING /\ d.width \in Nat
           /\ d.kind = "pointer" => /\ d.arg \in Word /\ d.width \in Word /\ d.precision \in Word
                                    /\ d.pad \in {" ", "0"} /\ d.sign \in {"", " ", "+"}
           /\ d.kind = "number" => /\ d.arg \in Int /\ d.radix \in {8, 10, 16}
                                   /\ d.pad \in {" ", "0"} /\ d.sign \in {"", " ", "+"}
                                   /\ d.width \in Word /\ d.precision \in Word
BY DEF Directive

LEMMA TextsOfFormats == Seq(STRING) \subseteq Seq(Char)
<1>1. STRING \subseteq Char
  BY DEF Char
<1> QED BY <1>1, SeqMonotonic

\* What a processor is at, and what is left after it.
LEMMA AtIs ==
    ASSUME TypeInv, NEW p \in CPUs, todo[p] # <<>>
    PROVE  Head(todo[p]) \in Directive /\ Tail(todo[p]) \in Seq(Directive)
<1>1. todo[p] \in Seq(Directive)
  BY DEF TypeInv
<1> QED BY <1>1, HeadTailProperties

\* Of the lock and the places, when nobody else moves.
LEMMA PlacesKeep ==
    ASSUME ConsoleInv, NEW p \in CPUs, NEW where, pc' = [pc EXCEPT ![p] = where],
           \/ where \in Inside /\ pc[p] \in Inside /\ lock_printf' = lock_printf
           \/ where \in Inside /\ lock_printf = 0 /\ lock_printf' = 1
           \/ where \notin Inside /\ pc[p] \in Inside /\ lock_printf' = 0
           \/ where \notin Inside /\ pc[p] \notin Inside /\ lock_printf' = lock_printf,
           \A q \in CPUs : q # p => todo'[q] = todo[q],
           where = "puts" => todo'[p] # <<>>
    PROVE  /\ OneInside' /\ Directed'
           /\ pc'[p] = where /\ \A q \in CPUs : q # p => pc'[q] = pc[q]
<1>1. pc'[p] = where /\ \A q \in CPUs : q # p => pc'[q] = pc[q]
  BY DEF ConsoleInv, TypeInv
<1>2. OneInside'
  BY <1>1 DEF ConsoleInv, OneInside
<1>3. Directed'
  BY <1>1 DEF ConsoleInv, Directed
<1> QED BY <1>1, <1>2, <1>3

\* A directive that puts a text: p stays inside.
LEMMA PutStep ==
    ASSUME ConsoleInv, NEW p \in CPUs, pc[p] \in Inside, NEW text \in Seq(Char), Put(p, text),
           NEW where \in Inside, pc' = [pc EXCEPT ![p] = where],
           UNCHANGED <<lock_printf, color, calls>>,
           converted' \in Seq(Char) /\ Len(converted') <= BUFFER,
           todo[p] # <<>>,
           (todo' = todo) \/ (where = "print" /\ Done(p))
    PROVE  ConsoleInv'
<1>1. TypeInv
  BY DEF ConsoleInv
<1>2. todo' \in [CPUs -> Seq(Directive)] /\ \A q \in CPUs : q # p => todo'[q] = todo[q]
  <2>1. CASE todo' = todo
    BY <1>1, <2>1 DEF TypeInv
  <2>2. CASE Done(p)
    BY <1>1, <2>2, AtIs DEF Done, TypeInv
  <2> QED BY <2>1, <2>2
<1>3. where = "puts" => todo'[p] # <<>>
  OBVIOUS
<1>4. OneInside' /\ Directed' /\ pc'[p] = where /\ \A q \in CPUs : q # p => pc'[q] = pc[q]
  BY <1>2, <1>3, PlacesKeep
<1>5. /\ printed' \in Nat /\ output' \in Seq(Entry)
      /\ Shown' /\ Dated' /\ (\A q \in CPUs : Begun(q)') /\ MessagesWhole'
  BY <1>4, PutKeeps
<1>6. pc' \in [CPUs -> Inside \cup Outside]
  BY <1>1 DEF TypeInv
<1>7. TypeInv'
  BY <1>1, <1>2, <1>5, <1>6 DEF TypeInv
<1> QED BY <1>4, <1>5, <1>7 DEF ConsoleInv

\* Any other step of p.
LEMMA SilentStep ==
    ASSUME ConsoleInv, NEW p \in CPUs, UNCHANGED <<cells, video, output, converted>>,
           NEW where \in Inside \cup Outside, pc' = [pc EXCEPT ![p] = where],
           \/ where \in Inside /\ pc[p] \in Inside /\ lock_printf' = lock_printf
           \/ where = "print" /\ pc[p] = "lock" /\ lock_printf = 0 /\ lock_printf' = 1
           \/ where = "return" /\ pc[p] \in Inside /\ lock_printf' = 0
           \/ where = "lock" /\ pc[p] = "idle" /\ lock_printf' = lock_printf
           \/ where = "idle" /\ pc[p] = "return" /\ lock_printf' = lock_printf,
           \/ where = "lock" /\ calls' = [calls EXCEPT ![p] = @ + 1]
           \/ where # "lock" /\ calls' = calls,
           color' \in Nat, printed' \in Nat,
           todo' \in [CPUs -> Seq(Directive)], \A q \in CPUs : q # p => todo'[q] = todo[q],
           where # "puts"
    PROVE  ConsoleInv'
<1>1. TypeInv
  BY DEF ConsoleInv
<1>3. OneInside' /\ Directed' /\ pc'[p] = where /\ \A q \in CPUs : q # p => pc'[q] = pc[q]
  <2>1. \/ where \in Inside /\ pc[p] \in Inside /\ lock_printf' = lock_printf
        \/ where \in Inside /\ lock_printf = 0 /\ lock_printf' = 1
        \/ where \notin Inside /\ pc[p] \in Inside /\ lock_printf' = 0
        \/ where \notin Inside /\ pc[p] \notin Inside /\ lock_printf' = lock_printf
    BY DEF Inside
  <2> QED BY <2>1, PlacesKeep
<1>4. /\ calls' \in [CPUs -> Nat]
      /\ \A q \in CPUs : q # p => calls'[q] = calls[q]
      /\ calls'[p] = IF where = "lock" THEN calls[p] + 1 ELSE calls[p]
  <2>1. calls \in [CPUs -> Nat]
    BY <1>1 DEF TypeInv
  <2>2. CASE where = "lock"
    BY <2>1, <2>2
  <2>3. CASE where # "lock"
    BY <2>1, <2>3
  <2> QED BY <2>2, <2>3
<1>5. Shown' /\ Dated' /\ (\A q \in CPUs : Begun(q)') /\ MessagesWhole'
  <2>1. \/ pc'[p] = "lock" /\ calls'[p] = calls[p] + 1
        \/ pc'[p] \in {"idle", "return"} /\ calls'[p] = calls[p]
        \/ pc'[p] \in Inside /\ pc[p] \in Inside \cup {"lock"} /\ calls'[p] = calls[p]
    BY <1>3, <1>4 DEF Inside
  <2> QED BY <1>3, <1>4, <2>1, SilentKeeps
<1>6. TypeInv'
  <2>1. lock_printf' \in {0, 1}
    BY <1>1 DEF TypeInv
  <2>2. pc' \in [CPUs -> Inside \cup Outside]
    BY <1>1 DEF TypeInv
  <2> QED BY <1>1, <1>4, <2>1, <2>2 DEF TypeInv
<1> QED BY <1>3, <1>5, <1>6 DEF ConsoleInv

LEMMA PieceIsText ==
    ASSUME NEW text \in Seq(Char), NEW n \in Nat, n < Len(text)
    PROVE  SubSeq(text, 1, n) \in Seq(Char)
<1>1. Len(text) \in Nat
  BY LenProperties
<1>2. \A k \in 1 .. n : text[k] \in Char
  <2> TAKE k \in 1 .. n
  <2>1. k \in 1 .. Len(text)
    BY <1>1
  <2> QED BY <2>1, ElementOfSeq
<1> QED BY <1>2, SubSeqProperties

LEMMA NumberAndPrefix ==
    ASSUME NEW n \in Directive, n.kind = "number"
    PROVE  Prefix(n) \in Seq(Char) /\ IsNumber(WithoutPrefix(n))
<1>1. "0" \in Char /\ "x" \in Char /\ "" \in Char /\ " " \in Char /\ "+" \in Char
  BY DEF Char
<1>2. /\ Prefix(n) \in {<<>>, <<"0">>, <<"0", "x">>}
  BY DEF Prefix
<1>3. <<>> \in Seq(Char) /\ <<"0">> \in Seq(Char) /\ <<"0", "x">> \in Seq(Char)
  <2> DEFINE zero == "0"
  <2> DEFINE ex == "x"
  <2>1. zero \in Char /\ ex \in Char
    BY <1>1
  <2> HIDE DEF zero, ex
  <2>2. <<>> \in Seq(Char)
    OBVIOUS
  <2>3. <<zero>> \in Seq(Char)
    BY <2>1
  <2>4. <<zero, ex>> \in Seq(Char)
    BY <2>1
  <2> QED BY <2>2, <2>3, <2>4, Zenon DEF zero, ex
<1>4. Len(Prefix(n)) \in 0 .. 2
  <2>1. Len(<<>>) = 0 /\ Len(<<"0">>) = 1 /\ Len(<<"0", "x">>) = 2
    OBVIOUS
  <2> QED BY <1>2, <2>1
<1>5. /\ n.arg \in Int /\ n.radix \in {8, 10, 16} /\ n.pad \in {" ", "0"}
      /\ n.sign \in {"", " ", "+"} /\ n.width \in Word /\ n.precision \in Word
  BY DirectiveKinds
<1>6. n.width \in Nat /\ n.precision \in Nat /\ n.pad \in Char /\ n.sign \in Char
  <2>1. n.width \in Nat /\ n.precision \in Nat
    <3>1. n.width \in Word /\ n.precision \in Word
      BY <1>5
    <3> QED BY <3>1, WAssumption DEF Word
  <2>2. n.pad \in {" ", "0"} /\ n.sign \in {"", " ", "+"}
    BY <1>5
  <2>3. n.pad \in Char /\ n.sign \in Char
    BY <1>1, <2>2, Zenon
  <2> QED BY <2>1, <2>3
<1> DEFINE m == WithoutPrefix(n)
<1>7. m.width \in Nat
  <2>1. CASE n.width > 1
    <3>1. m = [n EXCEPT !.width = @ - Len(Prefix(n))]
      BY <2>1 DEF WithoutPrefix
    <3>2. m.width = n.width - Len(Prefix(n))
      BY <3>1 DEF Directive
    <3> DEFINE k == Len(Prefix(n))
    <3> DEFINE w == n.width
    <3>3. k \in 0 .. 2 /\ w \in Nat /\ w > 1 /\ m.width = w - k
      BY <1>4, <1>6, <2>1, <3>2
    <3> HIDE DEF k, w, m
    <3> QED BY <3>3
  <2>2. CASE ~(n.width > 1)
    BY <1>6, <2>2 DEF WithoutPrefix
  <2> QED BY <2>1, <2>2
<1>8. m.arg = n.arg /\ m.radix = n.radix /\ m.pad = n.pad /\ m.sign = n.sign
      /\ m.precision = n.precision
  BY DEF WithoutPrefix, Directive
<1> HIDE DEF m
<1>9. IsNumber(m)
  BY <1>5, <1>6, <1>7, <1>8 DEF IsNumber, Radix
<1> QED BY <1>2, <1>3, <1>9 DEF m

LEMMA NextHolds == ConsoleInv /\ [Next]_vars => ConsoleInv'
<1> SUFFICES ASSUME ConsoleInv, [Next]_vars PROVE ConsoleInv'
  OBVIOUS
<1>0. TypeInv
  BY DEF ConsoleInv
<1>1. CASE UNCHANGED vars
  <2>1. UNCHANGED <<lock_printf, video, cells, color, printed, converted, pc, todo, calls, output>>
    BY <1>1 DEF vars
  <2> QED BY <2>1 DEF ConsoleInv, TypeInv, Shown, Terminal, OneInside, Directed, Dated, Begun,
                      Own, MessagesWhole
<1>2. ASSUME NEW p \in CPUs, calls[p] < Len(Formats[p]),
             NEW format \in Formats[p][calls[p] + 1], Call(p, format)
      PROVE  ConsoleInv'
  <2>1. format \in Seq(Directive)
    <3>1. Formats[p] \in Seq(SUBSET Seq(Directive)) /\ calls[p] \in Nat
      BY <1>0, FormatsAssumption DEF TypeInv
    <3>2. calls[p] + 1 \in 1 .. Len(Formats[p])
      <4>1. Len(Formats[p]) \in Nat
        BY <3>1, LenProperties
      <4> QED BY <1>2, <3>1, <4>1
    <3>3. Formats[p][calls[p] + 1] \in SUBSET Seq(Directive)
      BY <3>1, <3>2, ElementOfSeq
    <3> QED BY <3>3
  <2>2. color' \in Nat /\ printed' \in Nat
    BY <1>0, <1>2 DEF TypeInv, Call, Screen
  <2>3. todo' \in [CPUs -> Seq(Directive)] /\ \A q \in CPUs : q # p => todo'[q] = todo[q]
    BY <1>0, <1>2, <2>1 DEF Call, TypeInv
  <2>4. "lock" \in Outside
    BY DEF Outside
  <2> QED BY <1>2, <2>2, <2>3, <2>4, SilentStep DEF Call, Go, Screen
<1>3. ASSUME NEW p \in CPUs, Lock(p) PROVE ConsoleInv'
  <2>1. color' \in Nat /\ printed' \in Nat /\ todo' \in [CPUs -> Seq(Directive)] /\ todo' = todo
    BY <1>0, <1>3 DEF TypeInv, Lock
  <2>2. "print" \in Inside
    BY DEF Inside
  <2> QED BY <1>3, <2>1, <2>2, SilentStep DEF Lock, Go
<1>4. ASSUME NEW p \in CPUs, NEW kind, At(p, kind)
      PROVE  /\ pc[p] \in Inside /\ pc[p] = "print" /\ todo[p] # <<>>
             /\ Head(todo[p]) \in Directive /\ Head(todo[p]).kind = kind
             /\ pc = [pc EXCEPT ![p] = "print"]
             /\ Done(p) => /\ todo' \in [CPUs -> Seq(Directive)]
                           /\ \A q \in CPUs : q # p => todo'[q] = todo[q]
  <2>1. pc[p] \in Inside /\ pc[p] = "print" /\ todo[p] # <<>> /\ Head(todo[p]).kind = kind
    BY <1>4 DEF At, Inside
  <2>2. Head(todo[p]) \in Directive /\ Tail(todo[p]) \in Seq(Directive)
    BY <1>0, <2>1, AtIs
  <2>3. Done(p) => /\ todo' \in [CPUs -> Seq(Directive)]
                   /\ \A q \in CPUs : q # p => todo'[q] = todo[q]
    BY <1>0, <2>2 DEF Done, TypeInv
  <2>4. pc = [pc EXCEPT ![p] = "print"]
    BY <1>0, <2>1 DEF TypeInv
  <2> QED BY <2>1, <2>2, <2>3, <2>4
<1>5. "print" \in Inside /\ "puts" \in Inside
  BY DEF Inside
<1>6. converted \in Seq(Char) /\ Len(converted) <= BUFFER /\ color \in Nat /\ printed \in Nat
  BY <1>0 DEF TypeInv
<1>7. ASSUME NEW p \in CPUs, Text(p) PROVE ConsoleInv'
  <2> DEFINE d == Head(todo[p])
             text == IF d.precision = 0 \/ d.precision >= Len(d.text) THEN d.text
                     ELSE SubSeq(d.text, 1, d.precision)
  <2>1. At(p, "text") /\ Put(p, text) /\ Done(p)
        /\ UNCHANGED <<lock_printf, color, converted, pc, calls>>
    BY <1>7 DEF Text
  <2>2. d.text \in Seq(Char) /\ d.precision \in Nat
    <3>1. d \in Directive /\ d.kind = "text"
      BY <1>4, <2>1
    <3> HIDE DEF d
    <3>2. d.text \in Seq(STRING) /\ d.precision \in Nat
      BY <3>1, DirectiveKinds
    <3> QED BY <3>2, TextsOfFormats
  <2>3. text \in Seq(Char)
    <3> HIDE DEF d
    <3>1. Len(d.text) \in Nat
      BY <2>2, LenProperties
    <3> QED BY <2>2, <3>1, PieceIsText
  <2> HIDE DEF d, text
  <2> QED BY <1>4, <1>5, <1>6, <2>1, <2>3, PutStep
<1>8. ASSUME NEW p \in CPUs, SetColor(p) PROVE ConsoleInv'
  <2>1. color' \in Nat
    <3> DEFINE d == Head(todo[p])
    <3>1. d \in Directive /\ d.kind = "color" /\ color' = d.color
      BY <1>4, <1>8 DEF SetColor
    <3> HIDE DEF d
    <3>2. d.color \in Nat
      BY <3>1, DirectiveKinds
    <3> QED BY <3>1, <3>2
  <2> QED BY <1>4, <1>5, <1>6, <1>8, <2>1, SilentStep DEF SetColor, Screen
<1>9. ASSUME NEW p \in CPUs, ResetColor(p) PROVE ConsoleInv'
  <2>1. color' \in Nat
    BY <1>9 DEF ResetColor, DefaultColor
  <2> QED BY <1>4, <1>5, <1>6, <1>9, <2>1, SilentStep DEF ResetColor, Screen
<1>10. ASSUME NEW p \in CPUs, ConvertNumber(p) PROVE ConsoleInv'
  <2> DEFINE n == Head(todo[p])
             prefix == Prefix(n)
             m == WithoutPrefix(n)
  <2>1. At(p, "number") /\ Put(p, prefix) /\ converted' = convert_number(m)
        /\ pc' = [pc EXCEPT ![p] = "puts"] /\ UNCHANGED <<lock_printf, color, todo, calls>>
    BY <1>10 DEF ConvertNumber, Go
  <2>2. n \in Directive /\ n.kind = "number"
    BY <1>4, <2>1
  <2> HIDE DEF n
  <2>3. prefix \in Seq(Char) /\ IsNumber(m)
    BY <2>2, NumberAndPrefix
  <2>4. converted' \in Seq(Char) /\ Len(converted') <= BUFFER
    BY <2>1, <2>3, NumbersFit
  <2> HIDE DEF prefix, m
  <2> QED BY <1>4, <1>5, <2>1, <2>3, <2>4, PutStep
<1>11. ASSUME NEW p \in CPUs, Pointer(p) PROVE ConsoleInv'
  <2> DEFINE d == Head(todo[p])
             n == AddressOf(d)
             nil == <<"(", "n", "i", "l", ")">>
             prefix == <<"0", "x">>
  <2>1. /\ At(p, "pointer")
        /\ \/ Put(p, nil) /\ Done(p) /\ UNCHANGED <<converted, pc>>
           \/ /\ Put(p, prefix) /\ converted' = convert_number(n)
              /\ pc' = [pc EXCEPT ![p] = "puts"] /\ UNCHANGED todo
        /\ UNCHANGED <<lock_printf, color, calls>>
    BY <1>11 DEF Pointer, Go
  <2>2. d \in Directive /\ d.kind = "pointer"
    BY <1>4, <2>1
  <2> HIDE DEF d
  <2>3. nil \in Seq(Char) /\ prefix \in Seq(Char)
    <3>1. /\ "(" \in Char /\ "n" \in Char /\ "i" \in Char /\ "l" \in Char /\ ")" \in Char
          /\ "0" \in Char /\ "x" \in Char
      BY DEF Char
    <3> QED BY <3>1
  <2>4. IsNumber(n)
    <3>1. d.arg \in Word /\ d.width \in Word /\ d.precision \in Word
          /\ d.pad \in {" ", "0"} /\ d.sign \in {"", " ", "+"}
      BY <2>2, DirectiveKinds
    <3>2. \A v \in Word : v \in Int /\ v \in Nat /\ (v # 0 => Sub(v, 2) \in Nat)
      BY WAssumption DEF Word, Sub
    <3>3. d.arg \in Int /\ (IF d.width = 0 THEN POINTER ELSE Sub(d.width, 2)) \in Nat
          /\ d.precision \in Nat
      BY <3>1, <3>2, FormatsAssumption
    <3>4. d.pad \in Char /\ d.sign \in Char /\ 16 \in Radix
      BY <3>1 DEF Char, Radix
    <3> QED BY <3>3, <3>4 DEF IsNumber, AddressOf
  <2>5. convert_number(n) \in Seq(Char) /\ Len(convert_number(n)) <= BUFFER
    BY <2>4, NumbersFit
  <2> HIDE DEF n, nil, prefix
  <2>6. CASE Put(p, nil) /\ Done(p) /\ UNCHANGED <<converted, pc>>
    BY <1>4, <1>5, <1>6, <2>1, <2>3, <2>6, PutStep
  <2>7. CASE /\ Put(p, prefix) /\ converted' = convert_number(n)
             /\ pc' = [pc EXCEPT ![p] = "puts"] /\ UNCHANGED todo
    BY <1>4, <1>5, <2>1, <2>3, <2>5, <2>7, PutStep
  <2> QED BY <2>1, <2>6, <2>7
<1>12. ASSUME NEW p \in CPUs, PutConverted(p) PROVE ConsoleInv'
  <2>1. pc[p] = "puts" /\ todo[p] # <<>>
    BY <1>12 DEF PutConverted, ConsoleInv, Directed
  <2> QED BY <1>5, <1>6, <1>12, <2>1, PutStep DEF PutConverted, Go
<1>13. ASSUME NEW p \in CPUs, PadTo(p) PROVE ConsoleInv'
  <2> DEFINE d == Head(todo[p])
             n == Max({0, d.width - printed})
             text == [k \in 1 .. n |-> d.char]
  <2>1. At(p, "pad") /\ Put(p, text) /\ Done(p)
        /\ UNCHANGED <<lock_printf, color, converted, pc, calls>>
    BY <1>13 DEF PadTo
  <2>2. d \in Directive /\ d.kind = "pad"
    BY <1>4, <2>1
  <2> HIDE DEF d
  <2>3. d.width \in Nat /\ d.char \in Char
    BY <2>2, DirectiveKinds DEF Char
  <2>4. n \in Nat
    BY <1>6, <2>3, MaxOfTwo
  <2> HIDE DEF n
  <2>5. text \in Seq(Char)
    <3>1. text \in [1 .. n -> Char]
      BY <2>3
    <3> HIDE DEF text
    <3> QED BY <2>4, <3>1, SeqIs
  <2> HIDE DEF text
  <2> QED BY <1>4, <1>5, <1>6, <2>1, <2>5, PutStep
<1>14. ASSUME NEW p \in CPUs, CountSoFar(p) PROVE ConsoleInv'
  <2> QED BY <1>4, <1>5, <1>6, <1>14, SilentStep DEF CountSoFar, Screen
<1>15. ASSUME NEW p \in CPUs, Unlock(p) PROVE ConsoleInv'
  <2>1. todo' \in [CPUs -> Seq(Directive)] /\ todo' = todo
    BY <1>0, <1>15 DEF TypeInv, Unlock
  <2>2. "return" \in Outside
    BY DEF Outside
  <2> QED BY <1>5, <1>6, <1>15, <2>1, <2>2, SilentStep DEF Unlock, Go, Screen
<1>16. ASSUME NEW p \in CPUs, Return(p) PROVE ConsoleInv'
  <2>1. todo' \in [CPUs -> Seq(Directive)] /\ todo' = todo
    BY <1>0, <1>16 DEF TypeInv, Return
  <2>2. "idle" \in Outside
    BY DEF Outside
  <2> QED BY <1>6, <1>16, <2>1, <2>2, SilentStep DEF Return, Go, Screen
<1> QED BY <1>1, <1>2, <1>3, <1>7, <1>8, <1>9, <1>10, <1>11, <1>12, <1>13, <1>14, <1>15, <1>16
        DEF Next

-----------------------------------------------------------------------------
LEMMA AlwaysConsoleInv == Spec => []ConsoleInv
<1>1. Init => ConsoleInv
  BY InitHolds
<1>2. ConsoleInv /\ [Next]_vars => ConsoleInv'
  BY NextHolds
<1> QED BY <1>1, <1>2, PTL DEF Spec

LEMMA ImpliesTypes == ConsoleInv => TypeOK
<1> SUFFICES ASSUME ConsoleInv PROVE TypeOK
  OBVIOUS
<1>1. /\ lock_printf \in {0, 1} /\ printed \in Nat /\ Len(converted) <= BUFFER
      /\ pc \in [CPUs -> Inside \cup Outside] /\ calls \in [CPUs -> Nat]
  BY DEF ConsoleInv, TypeInv
<1>2. video \in Nat /\ DOMAIN cells = 0 .. (End - 1)
  BY DEF ConsoleInv, Shown, IsScreen, Terminal
<1>3. Inside \cup Outside = {"idle", "lock", "print", "puts", "return"}
  BY DEF Inside, Outside
<1> QED BY <1>1, <1>2, <1>3 DEF TypeOK

LEMMA ImpliesTail == ConsoleInv => ScreenShowsTail
<1> SUFFICES ASSUME ConsoleInv PROVE ScreenShowsTail
  OBVIOUS
<1>1. Shows(Terminal, Tape(output))
  BY DEF ConsoleInv, Shown
<1>2. Terminal.video = video /\ Terminal.cells = cells
  BY DEF Terminal
<1> QED BY <1>1, <1>2 DEF Shows, TopLine, ScreenShowsTail

\* The state of the console has its types; and whatever width, precision, pad
\* character and sign a format asks for, convert_number leaves a text that its
\* buffer holds.
THEOREM TypesHold == Spec => []TypeOK
<1>1. ConsoleInv => TypeOK
  BY ImpliesTypes
<1> QED BY <1>1, AlwaysConsoleInv, PTL

\* Whatever the processors print, and on a screen of any size, putc leaves on
\* the screen the last lines of it: every character in its place and color,
\* rows that wrapped, returned or were skipped as they would stand on paper
\* without an end; and the cursor is where the next character belongs.
THEOREM TailShown == Spec => []ScreenShowsTail
<1>1. ConsoleInv => ScreenShowsTail
  BY ImpliesTail
<1> QED BY <1>1, AlwaysConsoleInv, PTL

\* What one call of printf prints stands together: lock_printf is held from
\* its first character to its last, also while the shared buffers hold a
\* number, so no other processor's characters come between.
THEOREM MessagesKeptWhole == Spec => []MessagesWhole
<1>1. ConsoleInv => MessagesWhole
  BY DEF ConsoleInv
<1> QED BY <1>1, AlwaysConsoleInv, PTL
=============================================================================
