-------------------------- MODULE InterruptsProofs -------------------------
(***************************************************************************)
(* Interrupts, exceptions and system calls, for any devices, any           *)
(* exceptions and any number of each: the report shows the exception that  *)
(* occurred, system calls get their arguments, and code that was           *)
(* interrupted goes on as it was (ReportRight, ArgumentsArrive and         *)
(* ResumesRight of Interrupts).                                            *)
(***************************************************************************)
EXTENDS Interrupts, TLAPS

-----------------------------------------------------------------------------
(* Sequences, of whatever elements.                                        *)

\* s is a sequence, of whatever elements.
IsSeq(s) == s \in Seq({s[i] : i \in DOMAIN s})

\* What is a sequence of elements of some set is one.
LEMMA SeqIn ==
    ASSUME NEW S, NEW s, s \in Seq(S)
    PROVE  IsSeq(s)
<1> DEFINE R == {s[i] : i \in DOMAIN s}
<1>1. s \in [1 .. Len(s) -> R] /\ Len(s) \in Nat
  OBVIOUS
<1>2. s \in Seq(R)
  BY <1>1
<1> QED BY <1>2, Zenon DEF IsSeq

\* A function on 1 .. n is a sequence of n elements.
LEMMA Listed ==
    ASSUME NEW n \in Nat, NEW f, f = [i \in 1 .. n |-> f[i]]
    PROVE  IsSeq(f) /\ Len(f) = n
<1> DEFINE R == {f[i] : i \in 1 .. n}
<1>1. f \in [1 .. n -> R] /\ DOMAIN f = 1 .. n
  OBVIOUS
<1>2. f \in Seq(R)
  BY <1>1
<1> HIDE DEF R
<1>3. IsSeq(f)
  BY ONLY <1>2, SeqIn, Zenon
<1> QED BY <1>1, <1>2, <1>3

\* Two sequences have elements of one set.
LEMMA Common ==
    ASSUME NEW s, NEW t, IsSeq(s), IsSeq(t)
    PROVE  \E S : s \in Seq(S) /\ t \in Seq(S)
<1> DEFINE A == {s[i] : i \in DOMAIN s}
           B == {t[i] : i \in DOMAIN t}
<1>1. s \in Seq(A) /\ t \in Seq(B)
  BY DEF IsSeq
<1> HIDE DEF A, B
<1>2. s \in Seq(A \cup B)
  BY <1>1
<1>3. t \in Seq(A \cup B)
  BY <1>1
<1> QED BY <1>2, <1>3

\* Its length and its domain.
LEMMA SeqLength ==
    ASSUME NEW s, IsSeq(s)
    PROVE  Len(s) \in Nat /\ DOMAIN s = 1 .. Len(s)
  BY DEF IsSeq

\* Sequences with the same elements are the same.
LEMMA SeqSame ==
    ASSUME NEW s, NEW t, IsSeq(s), IsSeq(t), Len(s) = Len(t),
           \A i \in 1 .. Len(s) : s[i] = t[i]
    PROVE  s = t
<1>1. PICK S : s \in Seq(S) /\ t \in Seq(S)
  BY Common, Zenon
<1> QED BY <1>1

\* Length and elements of a concatenation.
LEMMA Joined ==
    ASSUME NEW s, NEW t, IsSeq(s), IsSeq(t)
    PROVE  /\ IsSeq(s \o t) /\ Len(s \o t) = Len(s) + Len(t)
           /\ \A i \in 1 .. Len(s) : (s \o t)[i] = s[i]
           /\ \A i \in 1 .. Len(t) : (s \o t)[Len(s) + i] = t[i]
<1>1. PICK S : s \in Seq(S) /\ t \in Seq(S)
  BY Common, Zenon
<1>2. s \o t \in Seq(S)
  BY <1>1
<1>3. IsSeq(s \o t)
  BY ONLY <1>2, SeqIn, Zenon
<1> QED BY <1>1, <1>3

\* u is s in front of t.
IsJoin(u, s, t) ==
    /\ IsSeq(u) /\ Len(u) = Len(s) + Len(t)
    /\ \A i \in 1 .. Len(s) : u[i] = s[i]
    /\ \A i \in 1 .. Len(t) : u[Len(s) + i] = t[i]

\* A concatenation joins its parts.
LEMMA Joins ==
    ASSUME NEW s, NEW t, NEW u, IsSeq(s), IsSeq(t), u = s \o t
    PROVE  IsJoin(u, s, t)
<1>1. IsJoin(s \o t, s, t)
  BY Joined DEF IsJoin
<1>2. PICK w : w = s \o t
  OBVIOUS
<1>3. IsJoin(w, s, t)
  BY ONLY <1>1, <1>2
<1>4. w = u
  BY ONLY <1>2, u = s \o t
<1> QED BY ONLY <1>3, <1>4, Zenon

\* What is left of a stack when n words are popped.
LEMMA Dropped ==
    ASSUME NEW s, NEW n \in Nat, IsSeq(s)
    PROVE  /\ IsSeq(Below(s, n))
           /\ n <= Len(s) => /\ Len(Below(s, n)) = Len(s) - n
                             /\ \A i \in 1 .. (Len(s) - n) : Below(s, n)[i] = s[n + i]
<1>1. PICK S : s \in Seq(S)
  BY DEF IsSeq
<1>2. Below(s, n) \in Seq(S)
  BY <1>1 DEF Below
<1>3. IsSeq(Below(s, n))
  BY ONLY <1>2, SeqIn, Zenon
<1> QED BY <1>1, <1>3 DEF Below

-----------------------------------------------------------------------------
(* The programs, written out.                                              *)

\* Main for one processor.
One ==
    << <<"outb", 32, 17>>, <<"outb", 160, 17>>, <<"outb", 33, 32>>,
       <<"outb", 161, 40>>, <<"outb", 33, 4>>, <<"outb", 161, 2>>, <<"outb", 33, 1>>,
       <<"outb", 161, 1>>, <<"outb", 33, 0>>, <<"outb", 161, 0>>,
       <<"lock", "version">>, <<"unlock">>, <<"unless", 3>>, <<"lock", "failed">>,
       <<"unlock">>, <<"forever">>, <<"ltr">>, <<"unless", 3>>, <<"lock", "failed">>,
       <<"unlock">>, <<"forever">>, <<"lock", "Mapping">>, <<"unlock">>,
       <<"unless", 3>>, <<"lock", "failed">>, <<"unlock">>, <<"forever">>,
       <<"lock", "Initializing">>, <<"unlock">>, <<"unless", 3>>, <<"lock", "failed">>,
       <<"unlock">>, <<"forever">>, <<"lock", "running">>, <<"unlock">>,
       <<"args", "memory_alloc">>, <<"int", "memory_alloc">>,
       <<"drop", "memory_alloc">>, <<"lock", "memory">>, <<"unlock">>,
       <<"args", "memory_free">>, <<"int", "memory_free">>, <<"drop", "memory_free">>,
       <<"lock", "freed">>, <<"unlock">>, <<"sti">>, <<"hlt">>, <<"wait">>,
       <<"jump", 2>> >>

\* Main for two processors.
Two ==
    << <<"outb", 32, 17>>, <<"outb", 160, 17>>, <<"outb", 33, 32>>,
       <<"outb", 161, 40>>, <<"outb", 33, 4>>, <<"outb", 161, 2>>, <<"outb", 33, 1>>,
       <<"outb", 161, 1>>, <<"outb", 33, 0>>, <<"outb", 161, 0>>,
       <<"lock", "version">>, <<"unlock">>, <<"unless", 3>>, <<"lock", "failed">>,
       <<"unlock">>, <<"forever">>, <<"ltr">>, <<"unless", 3>>, <<"lock", "failed">>,
       <<"unlock">>, <<"forever">>, <<"lock", "Mapping">>, <<"unlock">>,
       <<"unless", 3>>, <<"lock", "failed">>, <<"unlock">>, <<"forever">>,
       <<"lock", "Initializing">>, <<"unlock">>, <<"unless", 3>>, <<"lock", "failed">>,
       <<"unlock">>, <<"forever">>, <<"sti">>, <<"hlt">>, <<"wait">>, <<"hlt">>,
       <<"wait">>, <<"hlt">>, <<"wait">>, <<"unless", 3>>, <<"lock", "failed">>,
       <<"unlock">>, <<"forever">>, <<"hlt">>, <<"wait">>, <<"unless", 2>>, <<"hlt">>,
       <<"wait">>, <<"lock", "up">>, <<"unlock">>, <<"unless", 1>>, <<"forever">>,
       <<"cli">>, <<"lock", "running">>, <<"unlock">>, <<"args", "memory_alloc">>,
       <<"int", "memory_alloc">>, <<"drop", "memory_alloc">>, <<"lock", "memory">>,
       <<"unlock">>, <<"args", "memory_free">>, <<"int", "memory_free">>,
       <<"drop", "memory_free">>, <<"lock", "freed">>, <<"unlock">>, <<"sti">>,
       <<"hlt">>, <<"wait">>, <<"jump", 2>> >>

\* t is p from behind place m on, n operations of it.
Part(p, m, t, n) == IsSeq(t) /\ Len(t) = n /\ \A k \in 1 .. n : t[k] = p[m + k]

\* Parts that follow one another make one part.
LEMMA Parts ==
    ASSUME NEW p, NEW m \in Nat, NEW n \in Nat, NEW l \in Nat, NEW s, NEW t,
           Part(p, m, s, n), Part(p, m + n, t, l)
    PROVE  Part(p, m, s \o t, n + l)
<1>1. IsSeq(s) /\ IsSeq(t) /\ Len(s) = n /\ Len(t) = l
  BY DEF Part
<1>2. /\ IsSeq(s \o t) /\ Len(s \o t) = n + l
      /\ \A i \in 1 .. n : (s \o t)[i] = s[i]
      /\ \A i \in 1 .. l : (s \o t)[n + i] = t[i]
  BY <1>1, Joined
<1>3. ASSUME NEW k \in 1 .. (n + l) PROVE (s \o t)[k] = p[m + k]
  <2>1. CASE k <= n
    <3>1. k \in 1 .. n
      BY <2>1
    <3> QED BY <1>2, <3>1 DEF Part
  <2>2. CASE k > n
    <3>1. k - n \in 1 .. l /\ n + (k - n) = k /\ (m + n) + (k - n) = m + k
      BY <2>2
    <3>2. (s \o t)[k] = t[k - n] /\ t[k - n] = p[m + k]
      BY <1>2, <3>1 DEF Part
    <3> QED BY <3>2
  <2>3. k <= n \/ k > n
    OBVIOUS
  <2> QED BY ONLY <2>1, <2>2, <2>3, Zenon
<1> QED BY <1>2, <1>3 DEF Part

\* Tuples are sequences.
LEMMA Tuples ==
    /\ IsSeq(<<>>)
    /\ \A a : IsSeq(<<a>>)
    /\ \A a, b : IsSeq(<<a, b>>)
    /\ \A a, b, c : IsSeq(<<a, b, c>>)
    /\ \A a, b, c, d, e : IsSeq(<<a, b, c, d, e>>)
<1>0. IsSeq(<<>>)
  BY DEF IsSeq
<1>1. ASSUME NEW a PROVE IsSeq(<<a>>)
  <2>1. <<a>> \in Seq({a})
    OBVIOUS
  <2> QED BY ONLY <2>1, SeqIn, Zenon
<1>2. ASSUME NEW a, NEW b PROVE IsSeq(<<a, b>>)
  <2>1. <<a, b>> \in Seq({a, b})
    OBVIOUS
  <2> QED BY ONLY <2>1, SeqIn, Zenon
<1>3. ASSUME NEW a, NEW b, NEW c PROVE IsSeq(<<a, b, c>>)
  <2>1. <<a, b, c>> \in Seq({a, b, c})
    OBVIOUS
  <2> QED BY ONLY <2>1, SeqIn, Zenon
<1>4. ASSUME NEW a, NEW b, NEW c, NEW d, NEW e PROVE IsSeq(<<a, b, c, d, e>>)
  <2>1. <<a, b, c, d, e>> \in Seq({a, b, c, d, e})
    OBVIOUS
  <2> QED BY ONLY <2>1, SeqIn, Zenon
<1> QED BY <1>0, <1>1, <1>2, <1>3, <1>4

\* The writes of pic_init as operations.
Outbs == [i \in DOMAIN pic_init |-> <<"outb", pic_init[i][1], pic_init[i][2]>>]

\* They are ten.
LEMMA OutbsSeq == IsSeq(Outbs) /\ Len(Outbs) = 10
<1>1. DOMAIN pic_init = 1 .. 10
  BY DEF pic_init
<1>2. Outbs \in Seq({Outbs[i] : i \in 1 .. 10}) /\ Len(Outbs) = 10
  BY <1>1 DEF Outbs
<1> QED BY <1>2, SeqIn, Zenon

\* Main starts with them.
LEMMA OutbsOne == Part(One, 0, Outbs, 10)
  BY OutbsSeq DEF Part, One, Outbs, pic_init

\* It does with two processors, too.
LEMMA OutbsTwo == Part(Two, 0, Outbs, 10)
  BY OutbsSeq DEF Part, Two, Outbs, pic_init

\* Where the kernel may fail.
LEMMA FailsText ==
    ASSUME NEW p, NEW m \in Nat, p[m + 1] = <<"unless", 3>>, p[m + 2] = <<"lock", "failed">>,
           p[m + 3] = <<"unlock">>, p[m + 4] = <<"forever">>
    PROVE  Part(p, m, Fails, 4)
<1>1. PICK a, b, c : a = << <<"unless", 3>> >> /\ b = printf("failed") /\ c = Forever
  OBVIOUS
<1>2. IsSeq(a) /\ Len(a) = 1 /\ a[1] = p[m + 1]
  BY ONLY <1>1, Tuples, p[m + 1] = <<"unless", 3>>
<1>3. IsSeq(b) /\ Len(b) = 2 /\ b[1] = p[m + 2] /\ b[2] = p[m + 3]
  BY ONLY <1>1, Tuples, p[m + 2] = <<"lock", "failed">>, p[m + 3] = <<"unlock">> DEF printf
<1>4. IsSeq(c) /\ Len(c) = 1 /\ c[1] = p[m + 4]
  BY ONLY <1>1, Tuples, p[m + 4] = <<"forever">> DEF Forever
<1>5. Part(p, m, a, 1)
  BY ONLY <1>2 DEF Part
<1>6. Part(p, m + 1, b, 2)
  BY ONLY <1>3, m \in Nat DEF Part
<1>7. Part(p, m + 3, c, 1)
  BY ONLY <1>4, m \in Nat DEF Part
<1>8. m + 1 \in Nat /\ m + (1 + 2) = m + 3 /\ 1 + 2 = 3 /\ 3 + 1 = 4
        /\ 1 \in Nat /\ 2 \in Nat /\ 3 \in Nat
  OBVIOUS
<1>9. PICK d : d = a \o b
  OBVIOUS
<1>10. Part(p, m, d, 3)
  <2>1. Part(p, m, a \o b, 1 + 2)
    BY ONLY <1>5, <1>6, <1>8, m \in Nat, Parts
  <2> QED BY ONLY <1>8, <1>9, <2>1, Zenon
<1>11. Part(p, m, d \o c, 4)
  <2>1. Part(p, m, d \o c, 3 + 1)
    BY ONLY <1>7, <1>8, <1>10, m \in Nat, Parts
  <2> QED BY ONLY <1>8, <2>1
<1> QED BY ONLY <1>1, <1>9, <1>11 DEF Fails

\* With one processor.
LEMMA OneFails ==
    /\ Part(One, 12, Fails, 4)
    /\ Part(One, 17, Fails, 4)
    /\ Part(One, 23, Fails, 4)
    /\ Part(One, 29, Fails, 4)
<1>1. Part(One, 12, Fails, 4)
  <2>1. /\ One[12 + 1] = <<"unless", 3>> /\ One[12 + 2] = <<"lock", "failed">>
        /\ One[12 + 3] = <<"unlock">> /\ One[12 + 4] = <<"forever">> /\ 12 \in Nat
    BY DEF One
  <2> QED BY ONLY <2>1, FailsText
<1>2. Part(One, 17, Fails, 4)
  <2>1. /\ One[17 + 1] = <<"unless", 3>> /\ One[17 + 2] = <<"lock", "failed">>
        /\ One[17 + 3] = <<"unlock">> /\ One[17 + 4] = <<"forever">> /\ 17 \in Nat
    BY DEF One
  <2> QED BY ONLY <2>1, FailsText
<1>3. Part(One, 23, Fails, 4)
  <2>1. /\ One[23 + 1] = <<"unless", 3>> /\ One[23 + 2] = <<"lock", "failed">>
        /\ One[23 + 3] = <<"unlock">> /\ One[23 + 4] = <<"forever">> /\ 23 \in Nat
    BY DEF One
  <2> QED BY ONLY <2>1, FailsText
<1>4. Part(One, 29, Fails, 4)
  <2>1. /\ One[29 + 1] = <<"unless", 3>> /\ One[29 + 2] = <<"lock", "failed">>
        /\ One[29 + 3] = <<"unlock">> /\ One[29 + 4] = <<"forever">> /\ 29 \in Nat
    BY DEF One
  <2> QED BY ONLY <2>1, FailsText
<1> QED BY ONLY <1>1, <1>2, <1>3, <1>4

\* With two.
LEMMA TwoFails ==
    /\ Part(Two, 12, Fails, 4)
    /\ Part(Two, 17, Fails, 4)
    /\ Part(Two, 23, Fails, 4)
    /\ Part(Two, 29, Fails, 4)
    /\ Part(Two, 40, Fails, 4)
<1>1. Part(Two, 12, Fails, 4)
  <2>1. /\ Two[12 + 1] = <<"unless", 3>> /\ Two[12 + 2] = <<"lock", "failed">>
        /\ Two[12 + 3] = <<"unlock">> /\ Two[12 + 4] = <<"forever">> /\ 12 \in Nat
    BY DEF Two
  <2> QED BY ONLY <2>1, FailsText
<1>2. Part(Two, 17, Fails, 4)
  <2>1. /\ Two[17 + 1] = <<"unless", 3>> /\ Two[17 + 2] = <<"lock", "failed">>
        /\ Two[17 + 3] = <<"unlock">> /\ Two[17 + 4] = <<"forever">> /\ 17 \in Nat
    BY DEF Two
  <2> QED BY ONLY <2>1, FailsText
<1>3. Part(Two, 23, Fails, 4)
  <2>1. /\ Two[23 + 1] = <<"unless", 3>> /\ Two[23 + 2] = <<"lock", "failed">>
        /\ Two[23 + 3] = <<"unlock">> /\ Two[23 + 4] = <<"forever">> /\ 23 \in Nat
    BY DEF Two
  <2> QED BY ONLY <2>1, FailsText
<1>4. Part(Two, 29, Fails, 4)
  <2>1. /\ Two[29 + 1] = <<"unless", 3>> /\ Two[29 + 2] = <<"lock", "failed">>
        /\ Two[29 + 3] = <<"unlock">> /\ Two[29 + 4] = <<"forever">> /\ 29 \in Nat
    BY DEF Two
  <2> QED BY ONLY <2>1, FailsText
<1>5. Part(Two, 40, Fails, 4)
  <2>1. /\ Two[40 + 1] = <<"unless", 3>> /\ Two[40 + 2] = <<"lock", "failed">>
        /\ Two[40 + 3] = <<"unlock">> /\ Two[40 + 4] = <<"forever">> /\ 40 \in Nat
    BY DEF Two
  <2> QED BY ONLY <2>1, FailsText
<1> QED BY ONLY <1>1, <1>2, <1>3, <1>4, <1>5

\* smp_init is where Two has it.
LEMMA SmpText == Part(Two, 33, Smp, 21)
<1> DEFINE S1 == << <<"sti">> >>
           S2 == S1 \o Hlt
           S3 == S2 \o Hlt
           S4 == S3 \o Hlt
           S5 == S4 \o Fails
           S6 == S5 \o Hlt
           S7 == S6 \o << <<"unless", 2>> >>
           S8 == S7 \o Hlt
           S9 == S8 \o printf("up")
           S10 == S9 \o << <<"unless", 1>> >>
           S11 == S10 \o Forever
           S12 == S11 \o << <<"cli">> >>
<1>1. Part(Two, 33, S1, 1)
  BY Tuples DEF Part, Two, printf, Hlt, Call, Forever
<1>2. Part(Two, 34, Hlt, 2)
  BY Tuples DEF Part, Two, printf, Hlt, Call, Forever
<1>3. Part(Two, 33, S2, 3)
  <2> HIDE DEF S1
  <2> QED BY <1>1, <1>2, Parts
<1>4. Part(Two, 36, Hlt, 2)
  BY Tuples DEF Part, Two, printf, Hlt, Call, Forever
<1>5. Part(Two, 33, S3, 5)
  <2> HIDE DEF S2
  <2> QED BY <1>3, <1>4, Parts
<1>6. Part(Two, 38, Hlt, 2)
  BY Tuples DEF Part, Two, printf, Hlt, Call, Forever
<1>7. Part(Two, 33, S4, 7)
  <2> HIDE DEF S3
  <2> QED BY <1>5, <1>6, Parts
<1>8. Part(Two, 40, Fails, 4)
  BY TwoFails
<1>9. Part(Two, 33, S5, 11)
  <2> HIDE DEF S4
  <2> QED BY <1>7, <1>8, Parts
<1>10. Part(Two, 44, Hlt, 2)
  BY Tuples DEF Part, Two, printf, Hlt, Call, Forever
<1>11. Part(Two, 33, S6, 13)
  <2> HIDE DEF S5
  <2> QED BY <1>9, <1>10, Parts
<1>12. Part(Two, 46, << <<"unless", 2>> >>, 1)
  BY Tuples DEF Part, Two, printf, Hlt, Call, Forever
<1>13. Part(Two, 33, S7, 14)
  <2> HIDE DEF S6
  <2> QED BY <1>11, <1>12, Parts
<1>14. Part(Two, 47, Hlt, 2)
  BY Tuples DEF Part, Two, printf, Hlt, Call, Forever
<1>15. Part(Two, 33, S8, 16)
  <2> HIDE DEF S7
  <2> QED BY <1>13, <1>14, Parts
<1>16. Part(Two, 49, printf("up"), 2)
  BY Tuples DEF Part, Two, printf, Hlt, Call, Forever
<1>17. Part(Two, 33, S9, 18)
  <2> HIDE DEF S8
  <2> QED BY <1>15, <1>16, Parts
<1>18. Part(Two, 51, << <<"unless", 1>> >>, 1)
  BY Tuples DEF Part, Two, printf, Hlt, Call, Forever
<1>19. Part(Two, 33, S10, 19)
  <2> HIDE DEF S9
  <2> QED BY <1>17, <1>18, Parts
<1>20. Part(Two, 52, Forever, 1)
  BY Tuples DEF Part, Two, printf, Hlt, Call, Forever
<1>21. Part(Two, 33, S11, 20)
  <2> HIDE DEF S10
  <2> QED BY <1>19, <1>20, Parts
<1>22. Part(Two, 53, << <<"cli">> >>, 1)
  BY Tuples DEF Part, Two, printf, Hlt, Call, Forever
<1>23. Part(Two, 33, S12, 21)
  <2> HIDE DEF S11
  <2> QED BY <1>21, <1>22, Parts
<1> QED BY <1>23 DEF Smp

\* Main without another processor is One.
LEMMA MainOne == Part(One, 0, Main(FALSE), 49)
<1> DEFINE S1 == Outbs
           S2 == S1 \o printf("version")
           S3 == S2 \o Fails
           S4 == S3 \o << <<"ltr">> >>
           S5 == S4 \o Fails
           S6 == S5 \o printf("Mapping")
           S7 == S6 \o Fails
           S8 == S7 \o printf("Initializing")
           S9 == S8 \o Fails
           S10 == S9 \o <<>>
           S11 == S10 \o printf("running")
           S12 == S11 \o Call("memory_alloc")
           S13 == S12 \o printf("memory")
           S14 == S13 \o Call("memory_free")
           S15 == S14 \o printf("freed")
           S16 == S15 \o << <<"sti">> >>
           S17 == S16 \o Hlt
           S18 == S17 \o << <<"jump", 2>> >>
<1>1. Part(One, 0, S1, 10)
  BY OutbsOne DEF Part, One, printf, Hlt, Call, Forever
<1>2. Part(One, 10, printf("version"), 2)
  BY Tuples DEF Part, One, printf, Hlt, Call, Forever
<1>3. Part(One, 0, S2, 12)
  <2> HIDE DEF S1
  <2> QED BY <1>1, <1>2, Parts
<1>4. Part(One, 12, Fails, 4)
  BY OneFails
<1>5. Part(One, 0, S3, 16)
  <2> HIDE DEF S2
  <2> QED BY <1>3, <1>4, Parts
<1>6. Part(One, 16, << <<"ltr">> >>, 1)
  BY Tuples DEF Part, One, printf, Hlt, Call, Forever
<1>7. Part(One, 0, S4, 17)
  <2> HIDE DEF S3
  <2> QED BY <1>5, <1>6, Parts
<1>8. Part(One, 17, Fails, 4)
  BY OneFails
<1>9. Part(One, 0, S5, 21)
  <2> HIDE DEF S4
  <2> QED BY <1>7, <1>8, Parts
<1>10. Part(One, 21, printf("Mapping"), 2)
  BY Tuples DEF Part, One, printf, Hlt, Call, Forever
<1>11. Part(One, 0, S6, 23)
  <2> HIDE DEF S5
  <2> QED BY <1>9, <1>10, Parts
<1>12. Part(One, 23, Fails, 4)
  BY OneFails
<1>13. Part(One, 0, S7, 27)
  <2> HIDE DEF S6
  <2> QED BY <1>11, <1>12, Parts
<1>14. Part(One, 27, printf("Initializing"), 2)
  BY Tuples DEF Part, One, printf, Hlt, Call, Forever
<1>15. Part(One, 0, S8, 29)
  <2> HIDE DEF S7
  <2> QED BY <1>13, <1>14, Parts
<1>16. Part(One, 29, Fails, 4)
  BY OneFails
<1>17. Part(One, 0, S9, 33)
  <2> HIDE DEF S8
  <2> QED BY <1>15, <1>16, Parts
<1>18. Part(One, 33, <<>>, 0)
  BY Tuples DEF Part, One, printf, Hlt, Call, Forever
<1>19. Part(One, 0, S10, 33)
  <2> HIDE DEF S9
  <2> QED BY <1>17, <1>18, Parts
<1>20. Part(One, 33, printf("running"), 2)
  BY Tuples DEF Part, One, printf, Hlt, Call, Forever
<1>21. Part(One, 0, S11, 35)
  <2> HIDE DEF S10
  <2> QED BY <1>19, <1>20, Parts
<1>22. Part(One, 35, Call("memory_alloc"), 3)
  BY Tuples DEF Part, One, printf, Hlt, Call, Forever
<1>23. Part(One, 0, S12, 38)
  <2> HIDE DEF S11
  <2> QED BY <1>21, <1>22, Parts
<1>24. Part(One, 38, printf("memory"), 2)
  BY Tuples DEF Part, One, printf, Hlt, Call, Forever
<1>25. Part(One, 0, S13, 40)
  <2> HIDE DEF S12
  <2> QED BY <1>23, <1>24, Parts
<1>26. Part(One, 40, Call("memory_free"), 3)
  BY Tuples DEF Part, One, printf, Hlt, Call, Forever
<1>27. Part(One, 0, S14, 43)
  <2> HIDE DEF S13
  <2> QED BY <1>25, <1>26, Parts
<1>28. Part(One, 43, printf("freed"), 2)
  BY Tuples DEF Part, One, printf, Hlt, Call, Forever
<1>29. Part(One, 0, S15, 45)
  <2> HIDE DEF S14
  <2> QED BY <1>27, <1>28, Parts
<1>30. Part(One, 45, << <<"sti">> >>, 1)
  BY Tuples DEF Part, One, printf, Hlt, Call, Forever
<1>31. Part(One, 0, S16, 46)
  <2> HIDE DEF S15
  <2> QED BY <1>29, <1>30, Parts
<1>32. Part(One, 46, Hlt, 2)
  BY Tuples DEF Part, One, printf, Hlt, Call, Forever
<1>33. Part(One, 0, S17, 48)
  <2> HIDE DEF S16
  <2> QED BY <1>31, <1>32, Parts
<1>34. Part(One, 48, << <<"jump", 2>> >>, 1)
  BY Tuples DEF Part, One, printf, Hlt, Call, Forever
<1>35. Part(One, 0, S18, 49)
  <2> HIDE DEF S17
  <2> QED BY <1>33, <1>34, Parts
<1> QED BY <1>35 DEF Main, Outbs

\* Main with one is Two.
LEMMA MainTwo == Part(Two, 0, Main(TRUE), 70)
<1> DEFINE S1 == Outbs
           S2 == S1 \o printf("version")
           S3 == S2 \o Fails
           S4 == S3 \o << <<"ltr">> >>
           S5 == S4 \o Fails
           S6 == S5 \o printf("Mapping")
           S7 == S6 \o Fails
           S8 == S7 \o printf("Initializing")
           S9 == S8 \o Fails
           S10 == S9 \o Smp
           S11 == S10 \o printf("running")
           S12 == S11 \o Call("memory_alloc")
           S13 == S12 \o printf("memory")
           S14 == S13 \o Call("memory_free")
           S15 == S14 \o printf("freed")
           S16 == S15 \o << <<"sti">> >>
           S17 == S16 \o Hlt
           S18 == S17 \o << <<"jump", 2>> >>
<1>1. Part(Two, 0, S1, 10)
  BY OutbsTwo DEF Part, Two, printf, Hlt, Call, Forever
<1>2. Part(Two, 10, printf("version"), 2)
  BY Tuples DEF Part, Two, printf, Hlt, Call, Forever
<1>3. Part(Two, 0, S2, 12)
  <2> HIDE DEF S1
  <2> QED BY <1>1, <1>2, Parts
<1>4. Part(Two, 12, Fails, 4)
  BY TwoFails
<1>5. Part(Two, 0, S3, 16)
  <2> HIDE DEF S2
  <2> QED BY <1>3, <1>4, Parts
<1>6. Part(Two, 16, << <<"ltr">> >>, 1)
  BY Tuples DEF Part, Two, printf, Hlt, Call, Forever
<1>7. Part(Two, 0, S4, 17)
  <2> HIDE DEF S3
  <2> QED BY <1>5, <1>6, Parts
<1>8. Part(Two, 17, Fails, 4)
  BY TwoFails
<1>9. Part(Two, 0, S5, 21)
  <2> HIDE DEF S4
  <2> QED BY <1>7, <1>8, Parts
<1>10. Part(Two, 21, printf("Mapping"), 2)
  BY Tuples DEF Part, Two, printf, Hlt, Call, Forever
<1>11. Part(Two, 0, S6, 23)
  <2> HIDE DEF S5
  <2> QED BY <1>9, <1>10, Parts
<1>12. Part(Two, 23, Fails, 4)
  BY TwoFails
<1>13. Part(Two, 0, S7, 27)
  <2> HIDE DEF S6
  <2> QED BY <1>11, <1>12, Parts
<1>14. Part(Two, 27, printf("Initializing"), 2)
  BY Tuples DEF Part, Two, printf, Hlt, Call, Forever
<1>15. Part(Two, 0, S8, 29)
  <2> HIDE DEF S7
  <2> QED BY <1>13, <1>14, Parts
<1>16. Part(Two, 29, Fails, 4)
  BY TwoFails
<1>17. Part(Two, 0, S9, 33)
  <2> HIDE DEF S8
  <2> QED BY <1>15, <1>16, Parts
<1>18. Part(Two, 33, Smp, 21)
  BY SmpText
<1>19. Part(Two, 0, S10, 54)
  <2> HIDE DEF S9
  <2> QED BY <1>17, <1>18, Parts
<1>20. Part(Two, 54, printf("running"), 2)
  BY Tuples DEF Part, Two, printf, Hlt, Call, Forever
<1>21. Part(Two, 0, S11, 56)
  <2> HIDE DEF S10
  <2> QED BY <1>19, <1>20, Parts
<1>22. Part(Two, 56, Call("memory_alloc"), 3)
  BY Tuples DEF Part, Two, printf, Hlt, Call, Forever
<1>23. Part(Two, 0, S12, 59)
  <2> HIDE DEF S11
  <2> QED BY <1>21, <1>22, Parts
<1>24. Part(Two, 59, printf("memory"), 2)
  BY Tuples DEF Part, Two, printf, Hlt, Call, Forever
<1>25. Part(Two, 0, S13, 61)
  <2> HIDE DEF S12
  <2> QED BY <1>23, <1>24, Parts
<1>26. Part(Two, 61, Call("memory_free"), 3)
  BY Tuples DEF Part, Two, printf, Hlt, Call, Forever
<1>27. Part(Two, 0, S14, 64)
  <2> HIDE DEF S13
  <2> QED BY <1>25, <1>26, Parts
<1>28. Part(Two, 64, printf("freed"), 2)
  BY Tuples DEF Part, Two, printf, Hlt, Call, Forever
<1>29. Part(Two, 0, S15, 66)
  <2> HIDE DEF S14
  <2> QED BY <1>27, <1>28, Parts
<1>30. Part(Two, 66, << <<"sti">> >>, 1)
  BY Tuples DEF Part, Two, printf, Hlt, Call, Forever
<1>31. Part(Two, 0, S16, 67)
  <2> HIDE DEF S15
  <2> QED BY <1>29, <1>30, Parts
<1>32. Part(Two, 67, Hlt, 2)
  BY Tuples DEF Part, Two, printf, Hlt, Call, Forever
<1>33. Part(Two, 0, S17, 69)
  <2> HIDE DEF S16
  <2> QED BY <1>31, <1>32, Parts
<1>34. Part(Two, 69, << <<"jump", 2>> >>, 1)
  BY Tuples DEF Part, Two, printf, Hlt, Call, Forever
<1>35. Part(Two, 0, S18, 70)
  <2> HIDE DEF S17
  <2> QED BY <1>33, <1>34, Parts
<1> QED BY <1>35 DEF Main, Outbs

\* How long the programs are, where interrupts may be on, where the test calls begin.
Length == <<49, 70>>
Open == <<47 .. 49, (35 .. 54) \cup (68 .. 70)>>
Calls == <<36, 57>>

\* What kernel_entry has at its place k, with p processors.
Fits(op, k, p) ==
    /\ op[1] \in {"outb", "lock", "unlock", "ltr", "sti", "cli", "hlt", "wait", "unless", "jump",
                  "args", "int", "drop", "forever"}
    /\ op[1] = "outb" <=> k <= 10
    /\ op[1] = "outb" => op[2] = pic_init[k][1] /\ op[3] = pic_init[k][2]
    /\ op[1] = "lock" => op[2] # "exception"
    /\ op[1] = "args" <=> k \in {Calls[p], Calls[p] + 5}
    /\ op[1] = "int" <=> k \in {Calls[p] + 1, Calls[p] + 6}
    /\ op[1] \in {"args", "int"} =>
           op[2] = IF k < Calls[p] + 5 THEN "memory_alloc" ELSE "memory_free"
    /\ op[1] = "unless" => /\ op[2] \in 1 .. 3 /\ (k + 1) + op[2] \in 1 .. Length[p]
                           /\ (k + 1) + op[2] \notin {Calls[p] + 1, Calls[p] + 6}
                           /\ k \in Open[p] => (k + 1) + op[2] \in Open[p]
    /\ op[1] = "jump" => op[2] = 2 /\ k - 2 \in 1 .. Length[p] /\ k - 2 \in Open[p]
    /\ op[1] # "jump" => k + 1 \in 1 .. Length[p]
    /\ (k \in Open[p] /\ op[1] \notin {"cli", "jump"}) \/ op[1] = "sti" => k + 1 \in Open[p]

\* One fits its description.
LEMMA FitsOne == \A k \in 1 .. 49 : Fits(One[k], k, 1)
<1>1. ASSUME NEW k \in 1 .. 49 PROVE Fits(One[k], k, 1)
  BY DEF Fits, One, Length, Open, Calls, pic_init
<1> QED BY <1>1

\* Two fits it.
LEMMA FitsTwo == \A k \in 1 .. 70 : Fits(Two[k], k, 2)
<1>1. ASSUME NEW k \in 1 .. 70 PROVE Fits(Two[k], k, 2)
  BY DEF Fits, Two, Length, Open, Calls, pic_init
<1> QED BY <1>1
\* A part that starts at the first place has the same places.
LEMMA Whole ==
    ASSUME NEW p, NEW t, NEW n \in Nat, Part(p, 0, t, n)
    PROVE  IsSeq(t) /\ Len(t) = n /\ \A k \in 1 .. n : t[k] = p[k]
<1>1. ASSUME NEW k \in 1 .. n PROVE t[k] = p[k]
  <2>1. 0 + k = k
    OBVIOUS
  <2>2. t[k] = p[0 + k]
    BY ONLY Part(p, 0, t, n), k \in 1 .. n, Zenon DEF Part
  <2> QED BY ONLY <2>1, <2>2
<1> QED BY ONLY <1>1, Part(p, 0, t, n), Zenon DEF Part

\* No interrupt comes during pic_init or at an int $81.
LEMMA OpenPlaces ==
    ASSUME NEW p \in 1 .. 2, NEW k \in Open[p]
    PROVE  k \in 11 .. Length[p] /\ k \notin {Calls[p] + 1, Calls[p] + 6}
  BY DEF Open, Length, Calls

\* kernel_entry has at each place what its description says.
LEMMA KernelText ==
    ASSUME NEW p \in 1 .. 2, NEW k \in 1 .. Length[p]
    PROVE  Fits(kernel_entry[p][k], k, p) /\ Length[p] \in Nat
<1>1. CASE p = 1
  <2>1. kernel_entry[p] = Main(FALSE) /\ Length[p] = 49
    BY <1>1 DEF kernel_entry, Length
  <2>2. \A i \in 1 .. 49 : Main(FALSE)[i] = One[i]
    BY MainOne, Whole
  <2>3. k \in 1 .. 49
    BY <2>1
  <2>4. Main(FALSE)[k] = One[k] /\ Fits(One[k], k, 1)
    BY ONLY <2>2, <2>3, FitsOne, Zenon
  <2>5. Length[p] \in Nat
    BY ONLY <2>1
  <2> QED BY ONLY <1>1, <2>1, <2>4, <2>5, Zenon
<1>2. CASE p = 2
  <2>1. kernel_entry[p] = Main(TRUE) /\ Length[p] = 70
    BY <1>2 DEF kernel_entry, Length
  <2>2. \A i \in 1 .. 70 : Main(TRUE)[i] = Two[i]
    BY MainTwo, Whole
  <2>3. k \in 1 .. 70
    BY <2>1
  <2>4. Main(TRUE)[k] = Two[k] /\ Fits(Two[k], k, 2)
    BY ONLY <2>2, <2>3, FitsTwo, Zenon
  <2>5. Length[p] \in Nat
    BY ONLY <2>1
  <2> QED BY ONLY <1>2, <2>1, <2>4, <2>5, Zenon
<1> QED BY <1>1, <1>2

\* What isr_handler has at its place k for vector v.
Serves(op, k, n) ==
    /\ op[1] \in {"outb", "return"}
    /\ op[1] = "outb" => op[2] \in {32, 160} /\ op[3] = 32 /\ k + 1 \in 1 .. n

\* What it has there for an exception or an unknown vector.
Handles(op, k, n, v) ==
    /\ op[1] \in {"lock", "unlock", "halt"}
    /\ op[1] # "halt" => k + 1 \in 1 .. n
    /\ op[1] = "lock" /\ op[2] = "exception" => v < 32

\* s is a program of isr_handler for vector v.
HandlerText(v, s) ==
    /\ Len(s) \in Nat /\ Len(s) >= 1
    /\ \A k \in 1 .. Len(s) : IF v \in 32 .. 47 THEN Serves(s[k], k, Len(s))
                              ELSE Handles(s[k], k, Len(s), v)

\* The programs of isr_handler that print.
ExceptionText ==
    << <<"lock", "exception">>, <<"unlock">>, <<"lock", "rest">>, <<"unlock">>, <<"halt">> >>
PageFaultText == << <<"lock", "exception">>, <<"unlock">>, <<"lock", "CR2">>, <<"unlock">>,
                    <<"lock", "rest">>, <<"unlock">>, <<"halt">> >>
UnknownText == << <<"lock", "vector">>, <<"unlock">>, <<"halt">> >>

\* Every program of isr_handler is what these say.
LEMMA Handlers ==
    ASSUME NEW v \in (0 .. 47) \cup {NULL}
    PROVE  HandlerText(v, isr_handler(v))
<1>a. v \in Int /\ NULL = 57005
  BY DEF NULL
<1> DEFINE E1 == printf("exception") \o printf("rest")
           P1 == printf("exception") \o printf("CR2")
           P2 == P1 \o printf("rest")
<1>1. Part(ExceptionText, 0, E1 \o << <<"halt">> >>, 5)
  <2>1. /\ Part(ExceptionText, 0, printf("exception"), 2)
        /\ Part(ExceptionText, 2, printf("rest"), 2)
        /\ Part(ExceptionText, 4, << <<"halt">> >>, 1)
    BY Tuples DEF Part, ExceptionText, printf
  <2>2. Part(ExceptionText, 0, E1, 4)
    BY <2>1, Parts
  <2> HIDE DEF E1
  <2> QED BY <2>1, <2>2, Parts
<1>2. Part(PageFaultText, 0, P2 \o << <<"halt">> >>, 7)
  <2>1. /\ Part(PageFaultText, 0, printf("exception"), 2)
        /\ Part(PageFaultText, 2, printf("CR2"), 2)
        /\ Part(PageFaultText, 4, printf("rest"), 2)
        /\ Part(PageFaultText, 6, << <<"halt">> >>, 1)
    BY Tuples DEF Part, PageFaultText, printf
  <2>2. Part(PageFaultText, 0, P1, 4)
    BY <2>1, Parts
  <2> HIDE DEF P1
  <2>3. Part(PageFaultText, 0, P2, 6)
    BY <2>1, <2>2, Parts
  <2> HIDE DEF P2
  <2> QED BY <2>1, <2>3, Parts
<1>3. Part(UnknownText, 0, printf("vector") \o << <<"halt">> >>, 3)
  <2>1. /\ Part(UnknownText, 0, printf("vector"), 2)
        /\ Part(UnknownText, 2, << <<"halt">> >>, 1)
    BY Tuples DEF Part, UnknownText, printf
  <2> QED BY <2>1, Parts
<1>4. CASE v < 32 /\ v # 14
  <2>1. isr_handler(v) = E1 \o << <<"halt">> >>
    <3>1. isr_handler(v) = Exception
      BY ONLY <1>a, <1>4 DEF isr_handler
    <3>2. Exception = E1 \o << <<"halt">> >>
      BY ONLY DEF Exception
    <3> QED BY ONLY <3>1, <3>2, Zenon
  <2> HIDE DEF E1
  <2>2. PICK s : s = isr_handler(v)
    OBVIOUS
  <2>3. Len(s) = 5 /\ \A k \in 1 .. 5 : s[k] = ExceptionText[k]
    <3>1. Part(ExceptionText, 0, s, 5)
      BY ONLY <1>1, <2>1, <2>2, Zenon
    <3>2. 5 \in Nat
      OBVIOUS
    <3> QED BY ONLY <3>1, <3>2, Whole, Zenon
  <2>4. v \notin 32 .. 47
    BY ONLY <1>a, <1>4
  <2>5. HandlerText(v, s)
    BY ONLY <1>4, <2>3, <2>4 DEF ExceptionText, HandlerText, Handles
  <2> QED BY ONLY <2>2, <2>5, Zenon
<1>5. CASE v = 14
  <2>1. isr_handler(v) = P2 \o << <<"halt">> >>
    BY ONLY <1>5 DEF isr_handler, PageFault
  <2> HIDE DEF P2
  <2>2. PICK s : s = isr_handler(v)
    OBVIOUS
  <2>3. Len(s) = 7 /\ \A k \in 1 .. 7 : s[k] = PageFaultText[k]
    <3>1. Part(PageFaultText, 0, s, 7)
      BY ONLY <1>2, <2>1, <2>2, Zenon
    <3>2. 7 \in Nat
      OBVIOUS
    <3> QED BY ONLY <3>1, <3>2, Whole, Zenon
  <2>5. HandlerText(v, s)
    BY ONLY <1>5, <2>3 DEF PageFaultText, HandlerText, Handles
  <2> QED BY ONLY <2>2, <2>5, Zenon
<1>6. CASE v \in 32 .. 39
  BY <1>6 DEF isr_handler, First, HandlerText, Serves
<1>7. CASE v \in 40 .. 47
  BY <1>7 DEF isr_handler, Second, HandlerText, Serves
<1>8. CASE v = NULL
  <2>1. isr_handler(v) = printf("vector") \o << <<"halt">> >>
    BY ONLY <1>a, <1>8 DEF isr_handler, Unknown
  <2>2. PICK s : s = isr_handler(v)
    OBVIOUS
  <2>3. Len(s) = 3 /\ \A k \in 1 .. 3 : s[k] = UnknownText[k]
    <3>1. Part(UnknownText, 0, s, 3)
      BY ONLY <1>3, <2>1, <2>2, Zenon
    <3>2. 3 \in Nat
      OBVIOUS
    <3> QED BY ONLY <3>1, <3>2, Whole, Zenon
  <2>5. HandlerText(v, s)
    BY ONLY <1>a, <1>8, <2>3 DEF UnknownText, HandlerText, Handles
  <2> QED BY ONLY <2>2, <2>5, Zenon
<1> QED BY <1>4, <1>5, <1>6, <1>7, <1>8, <1>a

-----------------------------------------------------------------------------
(* What the processor reads from the table of idt_init.                    *)

\* The two builds.
Builds == {"amd64", "i386"}

\* g is the gate vector v is to have.
Reads(g, arch, v) ==
    /\ g.valid /\ (v # 81 => g.masks) /\ (v = 81 => ~g.masks)
    /\ g.stub = IF v = 81 THEN SYSTEM ELSE IF v \in Installed THEN v ELSE NULL
    /\ g.ist = IF arch = "i386" THEN 0 ELSE IF v = 81 THEN 7 ELSE 1

\* Stubs have different addresses in the kernel.
LEMMA Addresses ==
    ASSUME NEW s \in Stubs
    PROVE  /\ s \in Nat /\ Address(s) \in Nat /\ Address(s) < 20 * K64
           /\ \A t \in Stubs : Address(t) = Address(s) => t = s
  BY SMT DEF Stubs, Address, NULL, SYSTEM, K64

\* An address is put together from the halves a gate holds.
LEMMA Splits ==
    ASSUME NEW a \in Nat, a < 20 * K64
    PROVE  (a % K64) + K64 * ((a \div K64) % K64) = a /\ (a \div K64) \div K64 = 0
<1>0. K64 = 65536
  BY SMT DEF K64
<1>1. a \div K64 \in 0 .. 19 /\ (a % K64) + K64 * (a \div K64) = a
  BY <1>0, SMTT(20)
<1>2. PICK q \in 0 .. 19 : q = a \div K64
  BY <1>1
<1>3. q % K64 = q /\ q \div K64 = 0
  BY <1>0, <1>2, SMTT(20)
<1> QED BY <1>1, <1>2, <1>3, SMT

\* The code segment of a gate is the one of the build.
LEMMA Selected ==
    ASSUME NEW arch \in Builds
    PROVE  LET c == Entry(arch, 8)
           IN  /\ c.access \div 8 = CODE \div 8
               /\ (c.flags_and_limit_high \div 16) % 8 = IF arch = "amd64" THEN 2 ELSE 4
<1> DEFINE code == IF arch = "amd64" THEN 8 + 2 ELSE 8 + 4
           e == gdt_set_entry(0, GDT_LIMIT_FULL, CODE, code)
           front == << gdt_set_entry(0, 0, 0, 0), e,
           gdt_set_entry(0, GDT_LIMIT_FULL, DATA, 8 + 4),
           gdt_set_entry(0, GDT_LIMIT_FULL, CODE + RING_3, code),
           gdt_set_entry(0, GDT_LIMIT_FULL, DATA + RING_3, 8 + 4),
           gdt_set_entry(TssAddress, 8297 - 1, TSS, 0) >>
           back == IF arch = "amd64" THEN <<gdt_set_entry(0, (TssAddress \div K64) \div K64, 0, 0)>>
           ELSE <<>>
<1>1. gdt_init(arch) = front \o back
  BY DEF gdt_init
<1>2. \A a, b, c, d, f, g : /\ Len(<<a, b, c, d, f, g>>) = 6 /\ IsSeq(<<a, b, c, d, f, g>>)
                            /\ <<a, b, c, d, f, g>>[2] = b
  <2> TAKE a, b, c, d, f, g
  <2>1. <<a, b, c, d, f, g>> \in Seq({a, b, c, d, f, g})
    OBVIOUS
  <2> QED BY <2>1, SeqIn
<1>3. IsSeq(back)
  BY Tuples
<1>4. IsSeq(front) /\ Len(front) = 6 /\ front[2] = e
  <2> HIDE DEF e, code
  <2>1. PICK a, c, d, f, g : front = <<a, e, c, d, f, g>>
    OBVIOUS
  <2>2. IsSeq(<<a, e, c, d, f, g>>) /\ Len(<<a, e, c, d, f, g>>) = 6
          /\ <<a, e, c, d, f, g>>[2] = e
    BY ONLY <1>2
  <2> HIDE DEF front
  <2> QED BY ONLY <2>1, <2>2
<1>5. (front \o back)[2] = e
  <2> HIDE DEF e, front, back
  <2>1. PICK f, b, u : f = front /\ b = back /\ u = front \o back
    OBVIOUS
  <2>2. IsSeq(f) /\ IsSeq(b) /\ u = f \o b /\ Len(f) = 6 /\ f[2] = e
    BY ONLY <1>3, <1>4, <2>1, Zenon
  <2>3. \A i \in 1 .. Len(f) : u[i] = f[i]
    <3>1. IsJoin(u, f, b)
      BY ONLY <2>2, Joins
    <3> QED BY ONLY <3>1, Zenon DEF IsJoin
  <2>4. 2 \in 1 .. Len(f)
    BY <2>2
  <2>5. u[2] = e
    BY ONLY <2>2, <2>3, <2>4, Zenon
  <2> QED BY <2>1, <2>5
<1>6. Entry(arch, 8) = e
  BY <1>1, <1>5 DEF Entry
<1>7. e.access = CODE /\ e.flags_and_limit_high = 16 * code + 15
  BY DEF gdt_set_entry, GDT_LIMIT_FULL, K64
<1> QED BY <1>6, <1>7 DEF CODE, Builds

\* idt_set_entry and the processor agree on every gate.
LEMMA GateRight ==
    ASSUME NEW arch \in Builds, NEW v \in (0 .. 47) \cup {81}
    PROVE  Reads(Gate(arch, idt_init(arch, v)), arch, v)
<1> DEFINE s == IF v = 81 THEN SYSTEM ELSE IF v \in Installed THEN v ELSE NULL
           flags == IF v = 81 THEN CALL ELSE DUMMY
<1>1. idt_init(arch, v) = idt_set_entry(arch, Address(s), 8, flags)
  BY DEF idt_init, Table
<1>2. s \in Stubs
  BY DEF Stubs, SYSTEM
<1>3. Address(s) \in Nat /\ Address(s) < 20 * K64
  BY <1>2, Addresses
<1>4. PICK a : a = Address(s) /\ a \in Nat /\ a < 20 * K64
  BY <1>3
<1>5. PICK e : e = idt_set_entry(arch, a, 8, flags)
  OBVIOUS
<1>6. /\ e.selector = 8
      /\ e.offset_low + K64 * (IF arch = "amd64" THEN e.offset_mid + K64 * e.offset_high
                               ELSE e.offset_high) = a
  <2> HIDE DEF flags
  <2>1. (a % K64) + K64 * ((a \div K64) % K64) = a /\ (a \div K64) \div K64 = 0
    BY <1>4, Splits, SMT
  <2>2. a % K64 \in Nat /\ (a \div K64) % K64 \in Nat /\ K64 \in Nat
    BY <1>4, SMT DEF K64
  <2>3. ((a \div K64) % K64) + K64 * 0 = (a \div K64) % K64
    BY <2>2, SMT
  <2> QED BY ONLY <1>5, <2>1, <2>3, arch \in Builds, SMT DEF idt_set_entry, Builds
<1>7. /\ e.flags \div 32768 = 1 /\ ((e.flags \div 256) % 16 = 14) = (v # 81)
      /\ arch = "amd64" => e.flags % 8 = IF v = 81 THEN 7 ELSE 1
  BY <1>5, SMT DEF idt_set_entry, CALL, DUMMY, Builds
<1>8. PICK g : g = Gate(arch, e)
  OBVIOUS
<1> HIDE DEF s, flags
<1>9. g.stub = CHOOSE t \in Stubs : Address(t) = a
  BY <1>6, <1>8 DEF Gate
<1>10. g.stub = s
  BY <1>2, <1>4, <1>9, Addresses
<1>11. g.valid
  BY <1>6, <1>7, <1>8, Selected DEF Gate
<1>12. g.masks = (v # 81) /\ g.ist = IF arch = "i386" THEN 0 ELSE IF v = 81 THEN 7 ELSE 1
  BY <1>7, <1>8 DEF Gate, Builds
<1> QED BY <1>1, <1>4, <1>5, <1>8, <1>10, <1>11, <1>12 DEF Reads, s

\* The processor reads from the table what idt_init means.
LEMMA IdtRight ==
    ASSUME NEW arch \in Builds, NEW v \in (0 .. 47) \cup {81}
    PROVE  Reads(Idt[arch][v + 1], arch, v)
<1> DEFINE table == [n \in 1 .. 256 |-> Gate(arch, idt_init(arch, n - 1))]
<1>1. IsSeq(table) /\ Len(table) = 256
  <2>1. table = [n \in 1 .. 256 |-> table[n]]
    OBVIOUS
  <2> HIDE DEF table
  <2>2. PICK n, f : n = 256 /\ f = table
    OBVIOUS
  <2>3. n \in Nat /\ f = [i \in 1 .. n |-> f[i]]
    BY ONLY <2>1, <2>2
  <2>4. IsSeq(f) /\ Len(f) = n
    BY ONLY <2>3, Listed, Zenon
  <2> QED BY ONLY <2>2, <2>4
<1>2. v + 1 \in 1 .. 256 /\ (v + 1) - 1 = v
  OBVIOUS
<1>3. table[v + 1] = Gate(arch, idt_init(arch, v))
  BY <1>2
<1> HIDE DEF table
<1>4. (table \o <<>>)[v + 1] = table[v + 1]
  BY <1>1, <1>2, Tuples, Joined
<1>5. Idt[arch] = table \o <<>>
  BY DEF Idt, Gates, Builds, table
<1> QED BY <1>3, <1>4, <1>5, GateRight

-----------------------------------------------------------------------------
(* What the stubs push and pop.                                            *)

\* The registers in the words of a frame, last one pushed first, and their number.
Places ==
    [amd64 |-> <<"gs", "fs", "es", "ds", "r15", "r14", "r13", "r12", "r11", "r10", "r9", "r8",
                 "rbp", "rdi", "rsi", "rbx", "rdx", "rcx", "rax">>,
     i386 |-> <<"gs", "fs", "es", "ds", "ebp", "edi", "esi", "ebx", "edx", "ecx", "eax">>]

Depth == [amd64 |-> 19, i386 |-> 11]

\* The registers lie where Places has them.
LEMMA SavedPlaces ==
    ASSUME NEW arch \in Builds
    PROVE  /\ Len(Saved(arch)) = Depth[arch] - 4
                /\ DOMAIN Saved(arch) = 1 .. (Depth[arch] - 4)
           /\ \A i \in 1 .. (Depth[arch] - 4) :
                  Saved(arch)[((Depth[arch] - 4) - i) + 1] = Places[arch][4 + i]
           /\ \A i \in 1 .. 4 : Segments[i] = Places[arch][i]
           /\ Depth[arch] \in {19, 11}
<1>1. CASE arch = "amd64"
  BY <1>1 DEF Saved, Places, Segments, Depth
<1>2. CASE arch = "i386"
  BY <1>2 DEF Saved, Places, Segments, Depth
<1> QED BY <1>1, <1>2 DEF Builds

\* What isr_stub_common has pushed when it calls isr_handler.
LEMMA Pushes ==
    ASSUME NEW arch \in Builds, NEW regs, NEW s, IsSeq(s)
    PROVE  LET f == isr_stub_common(arch, regs, s)
           IN  /\ IsSeq(f) /\ Len(f) = Depth[arch] + Len(s)
               /\ \A i \in 1 .. Depth[arch] : f[i] = regs[Places[arch][i]]
               /\ \A i \in 1 .. Len(s) : f[Depth[arch] + i] = s[i]
<1>1. PICK n, d : n = Depth[arch] - 4 /\ d = Depth[arch]
  OBVIOUS
<1>n. n \in Nat /\ d = n + 4
  BY <1>1, SavedPlaces
<1> DEFINE A == [i \in 1 .. 4 |-> regs[Segments[i]]]
           B == [i \in DOMAIN Saved(arch) |-> regs[Saved(arch)[i]]]
           C == Reverse(B)
<1>2. IsSeq(A) /\ Len(A) = 4 /\ \A i \in 1 .. 4 : A[i] = regs[Places[arch][i]]
  <2>1. A = [i \in 1 .. 4 |-> A[i]] /\ \A i \in 1 .. 4 : A[i] = regs[Places[arch][i]]
    BY SavedPlaces
  <2> HIDE DEF A
  <2> QED BY <2>1, Listed
<1>3. B = [i \in 1 .. n |-> regs[Saved(arch)[i]]] /\ Len(B) = n
  BY <1>1, <1>n, SavedPlaces
<1>4. C = [i \in 1 .. n |-> B[(n - i) + 1]]
  <2>1. Reverse(B) = [i \in 1 .. Len(B) |-> B[(Len(B) - i) + 1]]
    <3> HIDE DEF B
    <3> QED BY DEF Reverse
  <2>2. Len(B) = n
    BY <1>3
  <2> HIDE DEF B
  <2> QED BY ONLY <2>1, <2>2, Zenon
<1>5. IsSeq(C) /\ Len(C) = n
  <2> HIDE DEF B, C
  <2>1. C = [i \in 1 .. n |-> C[i]]
    BY ONLY <1>4
  <2> QED BY ONLY <1>n, <2>1, Listed, Zenon
<1>6. ASSUME NEW i \in 1 .. n PROVE C[i] = regs[Places[arch][4 + i]]
  <2>1. C[i] = B[(n - i) + 1]
    <3> HIDE DEF B, C
    <3> QED BY <1>4
  <2>2. (n - i) + 1 \in 1 .. n
    BY <1>n
  <2>3. B[(n - i) + 1] = regs[Saved(arch)[(n - i) + 1]]
    <3> HIDE DEF C
    <3> QED BY <1>3, <2>2
  <2> QED BY <1>1, <2>1, <2>3, SavedPlaces
<1> HIDE DEF A, B, C
<1>7. PICK t : t = A \o C
  OBVIOUS
<1>8. /\ IsSeq(t) /\ Len(t) = 4 + n
      /\ \A i \in 1 .. 4 : t[i] = A[i]
      /\ \A i \in 1 .. n : t[4 + i] = C[i]
  <2>1. IsJoin(t, A, C)
    BY ONLY <1>2, <1>5, <1>7, Joins
  <2> QED BY ONLY <1>2, <1>5, <2>1 DEF IsJoin
<1>9. ASSUME NEW i \in 1 .. d PROVE t[i] = regs[Places[arch][i]]
  <2>1. CASE i \in 1 .. 4
    BY <1>2, <1>8, <2>1
  <2>2. CASE i > 4
    <3>1. PICK k : k \in 1 .. n /\ i = 4 + k
      <4>1. i - 4 \in 1 .. n /\ i = 4 + (i - 4)
        BY <1>n, <2>2
      <4> QED BY <4>1
    <3> QED BY <1>6, <1>8, <3>1
  <2> QED BY <2>1, <2>2
<1>10. isr_stub_common(arch, regs, s) = t \o s
  BY <1>7 DEF isr_stub_common, A, B, C
<1>11. /\ IsSeq(t \o s) /\ Len(t \o s) = (4 + n) + Len(s)
       /\ \A i \in 1 .. (4 + n) : (t \o s)[i] = t[i]
       /\ \A i \in 1 .. Len(s) : (t \o s)[(4 + n) + i] = s[i]
  BY <1>8, Joined
<1>12. 4 + n = Depth[arch]
  BY <1>1, <1>n
<1> QED BY <1>1, <1>9, <1>10, <1>11, <1>12

\* Every register is somewhere.
LEMMA RegisterPlaces ==
    ASSUME NEW arch \in Builds, NEW r \in Registers[arch]
    PROVE  \E i \in 1 .. Depth[arch] : Places[arch][i] = r
<1> DEFINE n == Depth[arch] - 4
<1>1. n \in Nat /\ Depth[arch] = n + 4
  BY SavedPlaces
<1>2. IsSeq(Saved(arch)) /\ IsSeq(Segments) /\ Len(Segments) = 4 /\ Len(Saved(arch)) = n
  <2>1. PICK a : a = Saved(arch)
    OBVIOUS
  <2>2. a = [i \in 1 .. n |-> a[i]]
    <3>1. CASE arch = "amd64"
      BY <2>1, <3>1 DEF Saved, Depth
    <3>2. CASE arch = "i386"
      BY <2>1, <3>2 DEF Saved, Depth
    <3> QED BY <3>1, <3>2 DEF Builds
  <2>3. IsSeq(a) /\ Len(a) = n
    <3> HIDE DEF n
    <3> QED BY ONLY <1>1, <2>2, Listed, Zenon
  <2>4. IsSeq(Segments) /\ Len(Segments) = 4
    <3>1. PICK b : b = Segments
      OBVIOUS
    <3>2. b = [i \in 1 .. 4 |-> b[i]] /\ 4 \in Nat
      BY <3>1 DEF Segments
    <3> QED BY ONLY <3>1, <3>2, Listed
  <2> QED BY ONLY <2>1, <2>3, <2>4
<1>3. r \in ToSet(Saved(arch) \o Segments)
  BY DEF Registers, Builds
<1>4. PICK u : u = Saved(arch) \o Segments
  OBVIOUS
<1>5. /\ IsSeq(u) /\ Len(u) = n + 4
      /\ \A i \in 1 .. n : u[i] = Saved(arch)[i]
      /\ \A i \in 1 .. 4 : u[n + i] = Segments[i]
  <2>1. PICK a : a = Saved(arch)
    OBVIOUS
  <2>2. IsSeq(a) /\ IsSeq(Segments) /\ u = a \o Segments /\ Len(a) = n
    BY ONLY <1>2, <1>4, <2>1
  <2>3. IsJoin(u, a, Segments)
    BY ONLY <2>2, Joins
  <2> QED BY ONLY <1>2, <2>1, <2>2, <2>3 DEF IsJoin
<1>6. PICK k \in 1 .. (n + 4) : u[k] = r
  BY <1>3, <1>4, <1>5, SeqLength DEF ToSet
<1>7. CASE k <= n
  <2>1. (n - k) + 1 \in 1 .. n /\ (n - ((n - k) + 1)) + 1 = k
    BY <1>1, <1>7
  <2>2. PICK i : i = (n - k) + 1
    OBVIOUS
  <2>3. i \in 1 .. n /\ 4 + i \in 1 .. Depth[arch] /\ (n - i) + 1 = k
    BY <1>1, <2>1, <2>2
  <2>4. Saved(arch)[k] = Places[arch][4 + i]
    BY <2>3, SavedPlaces
  <2>5. u[k] = Saved(arch)[k]
    BY <1>5, <1>7
  <2> QED BY <1>6, <2>3, <2>4, <2>5
<1>8. CASE k > n
  <2>1. PICK i \in 1 .. 4 : k = n + i
    <3>1. k - n \in 1 .. 4 /\ k = n + (k - n)
      BY <1>1, <1>8
    <3> QED BY <3>1
  <2>2. Segments[i] = Places[arch][i]
    BY SavedPlaces
  <2>3. i \in 1 .. Depth[arch]
    BY ONLY <1>1, i \in 1 .. 4
  <2>4. u[n + i] = Segments[i]
    BY ONLY <1>5, i \in 1 .. 4, Zenon
  <2> QED BY ONLY <1>6, <2>1, <2>2, <2>3, <2>4, Zenon
<1> QED BY <1>1, <1>7, <1>8

-----------------------------------------------------------------------------
(* The controllers.                                                        *)

\* A controller in any state, and both.
Controller == [expects : {"ready", "icw2", "icw3", "icw4"}, base : Nat, wired : Nat,
               four : BOOLEAN, imr : SUBSET Lines, irr : SUBSET Lines, isr : SUBSET Lines]

Controllers == [master : Controller, slave : Controller]

\* The controllers before write k of pic_init.
Before(q, k) ==
    /\ q.master.expects = <<"ready", "icw2", "icw2", "icw3", "icw3", "icw4", "icw4",
                            "ready", "ready", "ready", "ready">>[k]
    /\ q.slave.expects = <<"ready", "ready", "icw2", "icw2", "icw3", "icw3", "icw4",
                           "icw4", "ready", "ready", "ready">>[k]
    /\ (k > 1 => q.master.four) /\ (k > 2 => q.slave.four)
    /\ (k > 3 => q.master.base = 32) /\ (k > 4 => q.slave.base = 40)
    /\ (k > 5 => q.master.wired = 4) /\ (k > 6 => q.slave.wired = 2)

\* pic_init is done.
Programmed(q) == /\ q.master.base = 32 /\ q.slave.base = 40
                 /\ q.master.wired = 4 /\ q.slave.wired = 2
                 /\ q.master.expects = "ready" /\ q.slave.expects = "ready"
                 /\ q.master.four /\ q.slave.four

\* A write to the command port leaves a controller and adds no request.
LEMMA CommandKept ==
    ASSUME NEW p \in Controller, NEW v \in Nat
    PROVE  Command(p, v) \in Controller /\ Command(p, v).irr \subseteq p.irr
  BY DEF Command, Controller, Bit, Lines

\* A write to the data port does as well.
LEMMA DataKept ==
    ASSUME NEW p \in Controller, NEW v \in Nat
    PROVE  Data(p, v) \in Controller /\ Data(p, v).irr = p.irr
<1>1. Bits(v) \subseteq Lines
  BY DEF Bits
<1>2. v - (v % 8) \in Nat
  OBVIOUS
<1> QED BY <1>1, <1>2 DEF Data, Controller

\* The bits of the words pic_init and isr_handler write.
LEMMA BitsUsed ==
    /\ Bit(17, 4) /\ Bit(17, 0) /\ ~Bit(32, 4)
    /\ \A i \in Lines : Bit(4, i) <=> i = 2
  BY DEF Bit, Lines

\* outb leaves controllers and adds no request to the first.
LEMMA OutbKept ==
    ASSUME NEW q \in Controllers, NEW port, NEW v \in Nat
    PROVE  /\ outb(q, port, v) \in Controllers
           /\ outb(q, port, v).master.irr \subseteq q.master.irr
  BY CommandKept, DataKept DEF outb, Controllers

\* What the first initialisation word does.
LEMMA CommandMade ==
    ASSUME NEW p \in Controller
    PROVE  Command(p, 17).expects = "icw2" /\ Command(p, 17).four
  BY BitsUsed DEF Command, Controller

\* What the others do.
LEMMA DataMade ==
    ASSUME NEW p \in Controller, NEW v \in Nat
    PROVE  LET d == Data(p, v)
           IN  /\ d.four = p.four
               /\ p.expects = "icw2" =>
                      d.expects = "icw3" /\ d.base = v - (v % 8) /\ d.wired = p.wired
               /\ p.expects = "icw3" =>
                      /\ d.expects = IF p.four THEN "icw4" ELSE "ready"
                      /\ d.base = p.base /\ d.wired = v
               /\ p.expects = "icw4" =>
                      d.expects = "ready" /\ d.base = p.base /\ d.wired = p.wired
               /\ p.expects = "ready" =>
                      d.expects = "ready" /\ d.base = p.base /\ d.wired = p.wired
  BY DEF Data, Controller

\* Each write of pic_init brings the controllers one further.
LEMMA Programming ==
    ASSUME NEW q \in Controllers, NEW k \in 1 .. 10, Before(q, k)
    PROVE  Before(outb(q, pic_init[k][1], pic_init[k][2]), k + 1)
<1>1. PICK m \in Controller, s \in Controller : q = [master |-> m, slave |-> s]
  BY DEF Controllers
<1>2. /\ Command(m, 17).expects = "icw2" /\ Command(m, 17).four
      /\ Command(s, 17).expects = "icw2" /\ Command(s, 17).four
  BY ONLY <1>1, CommandMade
<1> DEFINE Good(p, v) ==
             LET d == Data(p, v)
             IN  /\ d.four = p.four
                 /\ p.expects = "icw2" =>
                        d.expects = "icw3" /\ d.base = v - (v % 8) /\ d.wired = p.wired
                 /\ p.expects = "icw3" =>
                        /\ d.expects = IF p.four THEN "icw4" ELSE "ready"
                        /\ d.base = p.base /\ d.wired = v
                 /\ p.expects = "icw4" =>
                        d.expects = "ready" /\ d.base = p.base /\ d.wired = p.wired
                 /\ p.expects = "ready" =>
                        d.expects = "ready" /\ d.base = p.base /\ d.wired = p.wired
<1>3. /\ Good(m, 32) /\ Good(m, 4) /\ Good(m, 1) /\ Good(m, 0)
      /\ Good(s, 40) /\ Good(s, 2) /\ Good(s, 1) /\ Good(s, 0)
  BY <1>1, DataMade
<1>4. CASE k = 1
  <2>1. outb(q, pic_init[k][1], pic_init[k][2]) = [master |-> Command(m, 17), slave |-> s]
    BY <1>1, <1>4 DEF outb, pic_init
  <2> QED BY ONLY Before(q, k), <1>1, <1>2, <1>4, <2>1 DEF Before
<1>5. CASE k = 2
  <2>1. outb(q, pic_init[k][1], pic_init[k][2]) = [master |-> m, slave |-> Command(s, 17)]
    BY <1>1, <1>5 DEF outb, pic_init
  <2> QED BY ONLY Before(q, k), <1>1, <1>2, <1>5, <2>1 DEF Before
<1>6. CASE k = 3
  <2>1. outb(q, pic_init[k][1], pic_init[k][2]) = [master |-> Data(m, 32), slave |-> s]
    BY <1>1, <1>6 DEF outb, pic_init
  <2> QED BY ONLY Before(q, k), <1>1, <1>3, <1>6, <2>1 DEF Before, Good
<1>7. CASE k = 4
  <2>1. outb(q, pic_init[k][1], pic_init[k][2]) = [master |-> m, slave |-> Data(s, 40)]
    BY <1>1, <1>7 DEF outb, pic_init
  <2> QED BY ONLY Before(q, k), <1>1, <1>3, <1>7, <2>1 DEF Before, Good
<1>8. CASE k = 5
  <2>1. outb(q, pic_init[k][1], pic_init[k][2]) = [master |-> Data(m, 4), slave |-> s]
    BY <1>1, <1>8 DEF outb, pic_init
  <2> QED BY ONLY Before(q, k), <1>1, <1>3, <1>8, <2>1 DEF Before, Good
<1>9. CASE k = 6
  <2>1. outb(q, pic_init[k][1], pic_init[k][2]) = [master |-> m, slave |-> Data(s, 2)]
    BY <1>1, <1>9 DEF outb, pic_init
  <2> QED BY ONLY Before(q, k), <1>1, <1>3, <1>9, <2>1 DEF Before, Good
<1>10. CASE k = 7
  <2>1. outb(q, pic_init[k][1], pic_init[k][2]) = [master |-> Data(m, 1), slave |-> s]
    BY <1>1, <1>10 DEF outb, pic_init
  <2> QED BY ONLY Before(q, k), <1>1, <1>3, <1>10, <2>1 DEF Before, Good
<1>11. CASE k = 8
  <2>1. outb(q, pic_init[k][1], pic_init[k][2]) = [master |-> m, slave |-> Data(s, 1)]
    BY <1>1, <1>11 DEF outb, pic_init
  <2> QED BY ONLY Before(q, k), <1>1, <1>3, <1>11, <2>1 DEF Before, Good
<1>12. CASE k = 9
  <2>1. outb(q, pic_init[k][1], pic_init[k][2]) = [master |-> Data(m, 0), slave |-> s]
    BY <1>1, <1>12 DEF outb, pic_init
  <2> QED BY ONLY Before(q, k), <1>1, <1>3, <1>12, <2>1 DEF Before, Good
<1>13. CASE k = 10
  <2>1. outb(q, pic_init[k][1], pic_init[k][2]) = [master |-> m, slave |-> Data(s, 0)]
    BY <1>1, <1>13 DEF outb, pic_init
  <2> QED BY ONLY Before(q, k), <1>1, <1>3, <1>13, <2>1 DEF Before, Good
<1> QED BY <1>4, <1>5, <1>6, <1>7, <1>8, <1>9, <1>10, <1>11, <1>12, <1>13

\* After the tenth they are programmed.
LEMMA WrittenAll ==
    ASSUME NEW q PROVE Before(q, 11) <=> Programmed(q)
  BY DEF Before, Programmed

\* An end of interrupt leaves them so.
LEMMA EndOfInterrupt ==
    ASSUME NEW q \in Controllers, NEW port \in {32, 160}, Programmed(q)
    PROVE  Programmed(outb(q, port, 32))
  BY BitsUsed DEF Programmed, Controllers, Controller, outb, Command

\* A request served leaves a controller programmed as it was.
LEMMA Served ==
    ASSUME NEW p \in Controller, NEW i \in Lines
    PROVE  LET s == Serve(p, i)
           IN  /\ s \in Controller /\ s.irr \subseteq p.irr
               /\ s.base = p.base /\ s.wired = p.wired
               /\ s.expects = p.expects /\ s.four = p.four
  BY DEF Serve, Controller

\* The processor acknowledges a request: the vector is one of the IRQs'.
LEMMA Acknowledged ==
    ASSUME NEW q \in Controllers, Programmed(q), 2 \notin q.master.irr,
           NEW i \in Pending(q)
    PROVE  LET a == Acknowledge(q, i)
           IN  /\ a.vector \in 32 .. 47
               /\ a.pics \in Controllers /\ Programmed(a.pics) /\ 2 \notin a.pics.master.irr
<1>1. i \in Requested(q) /\ i \in Lines
  BY DEF Pending, Asks, Requested, Controllers, Controller, Bits
<1>2. CASE i = 2
  <2>1. PICK j : j = CHOOSE k \in Asks(q.slave, q.slave.irr) : TRUE
    OBVIOUS
  <2>2. Asks(q.slave, q.slave.irr) # {}
    BY <1>1, <1>2 DEF Requested
  <2>3. j \in Asks(q.slave, q.slave.irr)
    BY <2>1, <2>2
  <2>4. j \in Lines
    BY <2>3 DEF Asks, Controllers, Controller
  <2>5. Bit(q.master.wired, i)
    BY <1>2, BitsUsed DEF Programmed, Lines
  <2>6. Acknowledge(q, i) = [vector |-> 40 + j,
              pics |-> [master |-> Serve(q.master, 2), slave |-> Serve(q.slave, j)]]
    BY <1>2, <2>1, <2>5 DEF Acknowledge, Programmed
  <2>7. PICK m \in Controller, s \in Controller : m = Serve(q.master, 2)
          /\ s = Serve(q.slave, j)
    BY <1>1, <1>2, <2>4, Served DEF Controllers
  <2>8. m.irr \subseteq q.master.irr /\ Programmed([master |-> m, slave |-> s])
    BY <1>1, <1>2, <2>4, <2>7, Served DEF Controllers, Programmed
  <2>9. 40 + j \in 32 .. 47
    BY <2>4 DEF Lines
  <2> QED BY <2>6, <2>7, <2>8, <2>9 DEF Controllers
<1>3. CASE i # 2
  <2>1. ~Bit(q.master.wired, i)
    BY <1>1, <1>3, BitsUsed DEF Programmed
  <2>2. Acknowledge(q, i) = [vector |-> 32 + i, pics |-> [q EXCEPT !.master = Serve(@, i)]]
    BY <2>1 DEF Acknowledge, Programmed
  <2>3. PICK m \in Controller : m = Serve(q.master, i)
    BY <1>1, Served DEF Controllers
  <2>4. PICK r : r = [q EXCEPT !.master = m]
    OBVIOUS
  <2>5. m.irr \subseteq q.master.irr /\ r \in Controllers /\ Programmed(r) /\ r.master = m
    BY <1>1, <2>3, <2>4, Served DEF Controllers, Programmed
  <2>6. 32 + i \in 32 .. 47
    BY <1>1 DEF Lines
  <2>7. Acknowledge(q, i) = [vector |-> 32 + i, pics |-> r]
    BY <2>2, <2>3, <2>4
  <2> QED BY <2>5, <2>6, <2>7
<1> QED BY <1>2, <1>3

\* Taking a request that is gone yields the vector of an IRQ, too.
LEMMA Disturbed ==
    ASSUME NEW q \in Controllers, Programmed(q), 2 \notin q.master.irr, NEW second \in BOOLEAN
    PROVE  LET a == Spurious(q, second)
           IN  /\ a.vector \in 32 .. 47
               /\ a.pics \in Controllers /\ Programmed(a.pics) /\ 2 \notin a.pics.master.irr
<1>1. PICK i : i = CHOOSE k \in Lines : Bit(q.master.wired, k)
  OBVIOUS
<1>2. 2 \in Lines /\ Bit(q.master.wired, 2)
  BY BitsUsed DEF Programmed, Lines
<1>3. i \in Lines
  BY <1>1, <1>2
<1>4. CASE second
  <2>1. Spurious(q, second) = [vector |-> 47, pics |-> [q EXCEPT !.master = Serve(@, i)]]
    BY <1>1, <1>4 DEF Spurious, Programmed
  <2>3. PICK m \in Controller : m = Serve(q.master, i)
    BY <1>3, Served DEF Controllers
  <2>4. PICK r : r = [q EXCEPT !.master = m]
    OBVIOUS
  <2>5. m.irr \subseteq q.master.irr /\ r \in Controllers /\ Programmed(r) /\ r.master = m
    BY <1>3, <2>3, <2>4, Served DEF Controllers, Programmed
  <2>7. Spurious(q, second) = [vector |-> 47, pics |-> r]
    BY <2>1, <2>3, <2>4
  <2> QED BY <2>5, <2>7
<1>5. CASE ~second
  <2>1. Spurious(q, second) = [vector |-> 39, pics |-> q]
    BY <1>5 DEF Spurious, Programmed
  <2> QED BY <2>1
<1> QED BY <1>4, <1>5

-----------------------------------------------------------------------------
(* The inductive invariant.                                                *)

\* The stacks.
Stacks == {"kernel", "ist1", "ist7"}

\* c is a state of the processor.
IsState(c) ==
    /\ c = [ip |-> c.ip, flags |-> c.flags, shadow |-> c.shadow, sp |-> c.sp, regs |-> c.regs]
    /\ c.ip = <<c.ip[1], c.ip[2]>>
    /\ c.flags \in BOOLEAN /\ c.shadow \in BOOLEAN /\ c.sp \in Stacks
    /\ c.regs = [r \in Registers[build] |-> c.regs[r]]

\* The types, so far as the proof needs them; nothing asks through line 2 itself.
Types ==
    /\ build \in Builds /\ processors \in 1 .. 2
    /\ IsState(cpu)
    /\ stack = [s \in Stacks |-> stack[s]] /\ \A s \in Stacks : IsSeq(stack[s])
    /\ pics \in Controllers /\ 2 \notin pics.master.irr
    /\ IsSeq(faults)

\* The processor is in kernel_entry.
InKernel(c) ==
    /\ IsState(c)
    /\ c.ip[1] = "kernel_entry" /\ c.ip[2] \in 1 .. Length[processors]
    /\ c.sp = "kernel"
    /\ c.flags => c.ip[2] \in Open[processors]

\* The function the test call at place k calls.
Meant(k) == IF k < Calls[processors] + 5 THEN "memory_alloc" ELSE "memory_free"

\* The arguments of this function lie in registers or on the stack, from here on.
Arguments(function, regs, s) ==
    IF build = "amd64"
    THEN /\ regs["rsi"] = Parameters(function)[1] /\ regs["rdx"] = Parameters(function)[2]
         /\ function = "memory_alloc" => regs["rcx"] = Parameters(function)[3]
    ELSE LET first == IF function = "memory_alloc" THEN 3 ELSE 2
             n == Len(Parameters(function))
         IN  Len(s) >= first + n - 1
           /\ \A i \in 1 .. n : s[first + i - 1] = Parameters(function)[i]

\* Registers and stack hold what the call of this function passes.
Passed(function, regs, s) ==
    /\ Arguments(function, regs, s)
    /\ Number(function) = IF build = "amd64" THEN regs["rdi"] ELSE s[1]

\* The kernel runs: pic_init is where it is, and arguments lie ready at an int $81.
Kernel ==
    /\ InKernel(cpu) /\ interrupted = <<>>
    /\ Before(pics, IF cpu.ip[2] <= 10 THEN cpu.ip[2] ELSE 11)
    /\ cpu.ip[2] \in {Calls[processors] + 1, Calls[processors] + 6} =>
           Passed(Meant(cpu.ip[2]), cpu.regs, stack["kernel"])

\* The words that vector v leaves on the stack of c, n words high.
Dump(f, v, code, c, n) ==
    LET d == Depth[build]
    IN  /\ IsSeq(f)
        /\ Len(f) >= d + IF build = "amd64" THEN 7 ELSE 5
        /\ \A i \in 1 .. d : f[i] = c.regs[Places[build][i]]
        /\ f[d + 1] = <<"num", v>> /\ f[d + 2] = code
        /\ f[d + 3] = <<"ip", c.ip>> /\ f[d + 4] = <<"cs">> /\ f[d + 5] = <<"if", c.flags>>
        /\ build = "amd64" => f[d + 6] = <<"sp", c.sp, n>> /\ f[d + 7] = <<"ss">>

\* It is in the stub of the system calls, for the test call at k, and returns to c.
System(k, c) ==
    /\ interrupted = <<c>> /\ InKernel(c) /\ c.ip[2] = k + 1 /\ c.flags = FALSE
    /\ cpu.ip[1] = "isr_stub_system" /\ cpu.ip[2] \in 1 .. 2
    /\ cpu.flags = FALSE
    /\ Programmed(pics)
    /\ cpu.ip[2] = 1 =>
           /\ cpu.regs[IF build = "amd64" THEN "rbx" ELSE "ebx"] = <<"entry", Meant(k)>>
           /\ Arguments(Meant(k), cpu.regs, Frame)
    /\ cpu.ip[2] = 2 => called = [function |-> Meant(k), parameters |-> Parameters(Meant(k))]
    /\ IF build = "amd64"
       THEN /\ Len(Frame) = 6 /\ Frame[2] = <<"ip", c.ip>> /\ Frame[4] = <<"if", FALSE>>
            /\ Frame[5] = <<"sp", "kernel", Len(stack["kernel"])>>
       ELSE /\ cpu.sp = "kernel"
            /\ iret = << <<"ip", c.ip>>, <<"cs">>, <<"if", FALSE>> >>

\* It serves IRQ v, and returns to c.
Serving(v, c) ==
    /\ interrupted = <<c>> /\ InKernel(c) /\ ~c.shadow /\ c.ip[2] \in Open[processors]
    /\ cpu.ip[1] = "isr_handler" /\ cpu.ip[2] \in 1 .. Len(isr_handler(v))
    /\ cpu.flags = FALSE
    /\ build = "i386" => cpu.sp = "kernel"
    /\ Programmed(pics)
    /\ Dump(Frame, v, <<"num", 0>>, c, Len(stack["kernel"]))

\* It deals with an exception that has occurred, and never returns.
Handling(v) ==
    /\ cpu.ip[1] = "isr_handler" /\ cpu.ip[2] \in 1 .. Len(isr_handler(v))
    /\ cpu.flags = FALSE
    /\ Field(build, Frame, "vector") = <<"num", v>>
    /\ v # NULL => \E i \in DOMAIN faults :
                      /\ faults[i].vector = v
                      /\ Field(build, Frame, "errorcode") = faults[i].errorcode
                      /\ Field(build, Frame, "ip") = faults[i].ip

\* memory_free says that an area is not valid, and never returns.
Refusing == cpu.ip[1] = "memory_free" /\ cpu.ip[2] \in 1 .. 3 /\ cpu.flags = FALSE

\* TR or a stack was garbage when a stub was to be entered.
Nowhere == cpu.ip = <<"lost", 0>> /\ cpu.flags = FALSE

\* The places that return or that handle.
InSystem ==
    \E k \in {Calls[processors] + 1, Calls[processors] + 6}, c \in ToSet(interrupted) :
        System(k, c)
InServing == \E v \in 32 .. 47, c \in ToSet(interrupted) : Serving(v, c)
InHandling == \E v \in (0 .. 31) \cup {NULL} : Handling(v)

\* The inductive invariant: the processor is at one of six kinds of places, and each
\* kind says what lies on the stack it would return over.
IInv == /\ Types
        /\ Kernel \/ InSystem \/ InServing \/ InHandling \/ Refusing \/ Nowhere
        /\ ReportRight

\* f has the words x and y, in a and b, then p, q and r, then those of t and of u.
Composed(f, x, y, a, b, p, q, r, t, u) ==
    /\ (a = <<x>> /\ b = <<y>>) \/ (a = <<x, y>> /\ b = <<>>)
    /\ IsSeq(t) /\ IsSeq(u)
    /\ f = a \o (((b \o <<p, q, r>>) \o t) \o u)

\* The words of such a frame, one by one.
LEMMA Words ==
    ASSUME NEW x, NEW y, NEW a, NEW b, NEW p, NEW q, NEW r, NEW t, NEW u, NEW f,
           Composed(f, x, y, a, b, p, q, r, t, u)
    PROVE  /\ IsSeq(f) /\ Len(f) = 5 + Len(t) + Len(u)
           /\ f[1] = x /\ f[2] = y /\ f[3] = p /\ f[4] = q /\ f[5] = r
           /\ \A i \in 1 .. Len(t) : f[5 + i] = t[i]
<1>0. /\ (a = <<x>> /\ b = <<y>>) \/ (a = <<x, y>> /\ b = <<>>)
      /\ IsSeq(t) /\ IsSeq(u)
      /\ f = a \o (((b \o <<p, q, r>>) \o t) \o u)
  BY DEF Composed
<1>1. IsSeq(a) /\ IsSeq(b) /\ IsSeq(<<p, q, r>>)
  BY <1>0, Tuples
<1>2. PICK three : three = <<p, q, r>>
  OBVIOUS
<1>3. IsSeq(three) /\ Len(three) = 3 /\ three[1] = p /\ three[2] = q /\ three[3] = r
  BY ONLY <1>1, <1>2
<1>4. PICK w : w = b \o three
  OBVIOUS
<1>5. IsJoin(w, b, three)
  BY ONLY <1>1, <1>3, <1>4, Joins
<1>6. PICK w2 : w2 = w \o t
  OBVIOUS
<1>7. IsJoin(w2, w, t)
  <2>1. IsSeq(w)
    BY ONLY <1>5 DEF IsJoin
  <2> QED BY ONLY <1>0, <2>1, <1>6, Joins
<1>8. PICK w3 : w3 = w2 \o u
  OBVIOUS
<1>9. IsJoin(w3, w2, u)
  <2>1. IsSeq(w2)
    BY ONLY <1>7 DEF IsJoin
  <2> QED BY ONLY <1>0, <2>1, <1>8, Joins
<1>10. IsJoin(f, a, w3)
  <2>1. IsSeq(w3) /\ f = a \o w3
    BY ONLY <1>0, <1>2, <1>4, <1>6, <1>8, <1>9 DEF IsJoin
  <2> QED BY ONLY <2>1, <1>1, Joins
<1>11. Len(t) \in Nat /\ Len(u) \in Nat
  BY <1>0, SeqLength
<1>12. CASE a = <<x>> /\ b = <<y>>
  <2>1. Len(a) = 1 /\ Len(b) = 1 /\ a[1] = x /\ b[1] = y
    BY ONLY <1>12
  <2>2. Len(w) = 4 /\ w[1] = y /\ w[2] = p /\ w[3] = q /\ w[4] = r
    BY ONLY <2>1, <1>3, <1>5 DEF IsJoin
  <2>3. /\ Len(w2) = 4 + Len(t) /\ w2[1] = y /\ w2[2] = p /\ w2[3] = q /\ w2[4] = r
        /\ \A i \in 1 .. Len(t) : w2[4 + i] = t[i]
    BY ONLY <2>2, <1>7, <1>11 DEF IsJoin
  <2>4. /\ Len(w3) = 4 + Len(t) + Len(u) /\ w3[1] = y /\ w3[2] = p /\ w3[3] = q /\ w3[4] = r
        /\ \A i \in 1 .. Len(t) : w3[4 + i] = t[i]
    BY ONLY <2>3, <1>9, <1>11 DEF IsJoin
  <2>5. /\ IsSeq(f) /\ Len(f) = 1 + Len(w3)
        /\ \A i \in 1 .. 1 : f[i] = a[i]
        /\ \A i \in 1 .. Len(w3) : f[1 + i] = w3[i]
    BY ONLY <2>1, <1>10 DEF IsJoin
  <2>6. ASSUME NEW i \in 1 .. Len(t) PROVE f[5 + i] = t[i]
    <3>1. 4 + i \in 1 .. Len(w3) /\ 1 + (4 + i) = 5 + i
      BY ONLY <2>4, <1>11, i \in 1 .. Len(t)
    <3>2. f[1 + (4 + i)] = w3[4 + i] /\ w3[4 + i] = t[i]
      BY ONLY <2>4, <2>5, <3>1, i \in 1 .. Len(t), Zenon
    <3> QED BY ONLY <3>1, <3>2
  <2>7. f[1] = x /\ f[2] = y /\ f[3] = p /\ f[4] = q /\ f[5] = r
    BY ONLY <2>1, <2>4, <2>5, <1>11
  <2> QED BY ONLY <2>4, <2>5, <2>6, <2>7, <1>11
<1>13. CASE a = <<x, y>> /\ b = <<>>
  <2>1. Len(a) = 2 /\ Len(b) = 0 /\ a[1] = x /\ a[2] = y
    BY ONLY <1>13
  <2>2. Len(w) = 3 /\ w[1] = p /\ w[2] = q /\ w[3] = r
    BY ONLY <2>1, <1>3, <1>5 DEF IsJoin
  <2>3. /\ Len(w2) = 3 + Len(t) /\ w2[1] = p /\ w2[2] = q /\ w2[3] = r
        /\ \A i \in 1 .. Len(t) : w2[3 + i] = t[i]
    BY ONLY <2>2, <1>7, <1>11 DEF IsJoin
  <2>4. /\ Len(w3) = 3 + Len(t) + Len(u) /\ w3[1] = p /\ w3[2] = q /\ w3[3] = r
        /\ \A i \in 1 .. Len(t) : w3[3 + i] = t[i]
    BY ONLY <2>3, <1>9, <1>11 DEF IsJoin
  <2>5. /\ IsSeq(f) /\ Len(f) = 2 + Len(w3)
        /\ \A i \in 1 .. 2 : f[i] = a[i]
        /\ \A i \in 1 .. Len(w3) : f[2 + i] = w3[i]
    BY ONLY <2>1, <1>10 DEF IsJoin
  <2>6. ASSUME NEW i \in 1 .. Len(t) PROVE f[5 + i] = t[i]
    <3>1. 3 + i \in 1 .. Len(w3) /\ 2 + (3 + i) = 5 + i
      BY ONLY <2>4, <1>11, i \in 1 .. Len(t)
    <3>2. f[2 + (3 + i)] = w3[3 + i] /\ w3[3 + i] = t[i]
      BY ONLY <2>4, <2>5, <3>1, i \in 1 .. Len(t), Zenon
    <3> QED BY ONLY <3>1, <3>2
  <2>7. f[1] = x /\ f[2] = y /\ f[3] = p /\ f[4] = q /\ f[5] = r
    BY ONLY <2>1, <2>4, <2>5, <1>11
  <2> QED BY ONLY <2>4, <2>5, <2>6, <2>7, <1>11
<1> QED BY ONLY <1>0, <1>12, <1>13, Zenon

-----------------------------------------------------------------------------
(* Entering a stub.                                                        *)

\* Exceptions the processor pushes an error code for.
Coded == {8, 10, 11, 12, 13, 14, 17}
\* The error code and the number a stub has for vector v.
Code(v) == IF v \in Coded THEN <<"num", 5>> ELSE <<"num", 0>>
Vector(v) == IF v \in Installed THEN v ELSE NULL

\* The processor has entered the stub of vector v, to return to ip.
Taken(v, ip) ==
    \E f, regs, sp :
        /\ sp \in Stacks /\ sp = IF build = "amd64" THEN "ist1" ELSE cpu.sp
        /\ regs = [r \in Registers[build] |-> regs[r]]
        /\ cpu' = [ip |-> <<"isr_handler", 1>>, flags |-> FALSE, shadow |-> FALSE, sp |-> sp,
                   regs |-> regs]
        /\ stack' = [stack EXCEPT ![sp] = f]
        /\ Dump(f, Vector(v), Code(v), [cpu EXCEPT !.ip = ip], Len(Frame))

\* The stack in use is a sequence.
LEMMA FrameSeq ==
    ASSUME Types
    PROVE  IsSeq(Frame) /\ cpu.sp \in Stacks
  BY DEF Types, IsState, Frame

\* The words the stub of v and the processor push.
LEMMA Pushing ==
    ASSUME Types, NEW v \in 0 .. 47, NEW ip, NEW error, NEW rest, NEW regs, NEW f,
           error = IF v \in Coded THEN << <<"num", 5>> >> ELSE <<>>, IsSeq(rest),
           f = isr_stub_common(build, cpu.regs, isr_stub(Vector(v)) \o (Pushed(error, ip) \o rest))
    PROVE  Dump(f, Vector(v), Code(v), [cpu EXCEPT !.ip = ip], Len(Frame))
<1> DEFINE c == [cpu EXCEPT !.ip = ip]
<1>1. PICK x, y, a, b : x = <<"num", Vector(v)>> /\ y = Code(v)
        /\ a = isr_stub(Vector(v)) /\ b = error
  OBVIOUS
<1>2. (a = <<x>> /\ b = <<y>>) \/ (a = <<x, y>> /\ b = <<>>)
  <2>1. CASE v \in Coded
    <3>1. Vector(v) = v
      BY <2>1 DEF Vector, Coded, Installed
    <3> QED BY <2>1, <3>1, <1>1 DEF Coded, isr_stub, Code
  <2>2. CASE v \notin Coded
    <3>1. Vector(v) \notin Coded
      BY <2>2 DEF Vector, Coded, NULL
    <3> QED BY <2>2, <3>1, <1>1 DEF Coded, isr_stub, Code
  <2> QED BY <2>1, <2>2
<1>3. PICK p, q, r, t : /\ p = <<"ip", ip>> /\ q = <<"cs">> /\ r = <<"if", cpu.flags>>
                        /\ t = IF build = "amd64" THEN << <<"sp", cpu.sp, Len(Frame)>>, <<"ss">> >>
                               ELSE <<>>
  OBVIOUS
<1>4. IsSeq(t) /\ (build = "amd64" => Len(t) = 2 /\ t[1] = <<"sp", cpu.sp, Len(Frame)>>
        /\ t[2] = <<"ss">>)
      /\ (build = "i386" => Len(t) = 0)
  BY <1>3, Tuples
<1>5. PICK s : s = a \o (((b \o <<p, q, r>>) \o t) \o rest)
  OBVIOUS
<1>6. /\ IsSeq(s) /\ Len(s) = 5 + Len(t) + Len(rest)
      /\ s[1] = x /\ s[2] = y /\ s[3] = p /\ s[4] = q /\ s[5] = r
      /\ \A i \in 1 .. Len(t) : s[5 + i] = t[i]
  <2>1. Composed(s, x, y, a, b, p, q, r, t, rest)
    BY ONLY <1>2, <1>4, <1>5, IsSeq(rest) DEF Composed
  <2> QED BY ONLY <2>1, Words
<1>7. f = isr_stub_common(build, cpu.regs, s)
  BY <1>1, <1>3, <1>5 DEF Pushed
<1>8. build \in Builds
  BY DEF Types
<1>9. /\ IsSeq(f) /\ Len(f) = Depth[build] + Len(s)
      /\ \A i \in 1 .. Depth[build] : f[i] = cpu.regs[Places[build][i]]
      /\ \A i \in 1 .. Len(s) : f[Depth[build] + i] = s[i]
  BY ONLY <1>6, <1>7, <1>8, Pushes
<1>10. c.ip = ip /\ c.flags = cpu.flags /\ c.sp = cpu.sp /\ c.regs = cpu.regs
  <2>1. cpu = [ip |-> cpu.ip, flags |-> cpu.flags, shadow |-> cpu.shadow, sp |-> cpu.sp,
               regs |-> cpu.regs]
    BY DEF Types, IsState
  <2> QED BY ONLY <2>1
<1>11. Len(rest) \in Nat /\ Depth[build] \in Nat
  <2>1. Depth[build] \in {19, 11}
    BY ONLY <1>8, SavedPlaces
  <2>2. Len(rest) \in Nat
    BY ONLY IsSeq(rest), SeqLength
  <2> QED BY ONLY <2>1, <2>2
<1>12. PICK d : d = Depth[build]
  OBVIOUS
<1>13. f[d + 1] = x /\ f[d + 2] = y /\ f[d + 3] = p /\ f[d + 4] = q /\ f[d + 5] = r
  <2>1. Len(t) \in Nat
    BY ONLY <1>4, SeqLength
  <2>2. Len(s) >= 5 /\ Len(s) \in Nat
    BY ONLY <1>6, <1>11, <2>1
  <2>3. \A i \in 1 .. Len(s) : f[d + i] = s[i]
    BY ONLY <1>9, <1>12
  <2>4. 1 \in 1 .. Len(s) /\ 2 \in 1 .. Len(s) /\ 3 \in 1 .. Len(s) /\ 4 \in 1 .. Len(s)
          /\ 5 \in 1 .. Len(s)
    BY ONLY <2>2
  <2> QED BY ONLY <1>6, <2>3, <2>4, Zenon
<1>14. build = "amd64" => f[d + 6] = t[1] /\ f[d + 7] = t[2]
  <2>1. SUFFICES ASSUME build = "amd64" PROVE f[d + 6] = t[1] /\ f[d + 7] = t[2]
    OBVIOUS
  <2>2. s[6] = t[1] /\ s[7] = t[2] /\ Len(s) >= 7
    <3>1. Len(t) = 2 /\ Len(s) = (5 + 2) + Len(rest)
      BY ONLY <1>4, <1>6, <2>1
    <3>2. s[5 + 1] = t[1] /\ s[5 + 2] = t[2]
      BY ONLY <1>6, <3>1
    <3> QED BY ONLY <1>11, <3>1, <3>2
  <2> QED BY ONLY <1>6, <1>9, <1>11, <1>12, <2>2
<1>15. Len(f) >= d + IF build = "amd64" THEN 7 ELSE 5
  BY ONLY <1>4, <1>6, <1>8, <1>9, <1>11, <1>12 DEF Builds
<1> QED BY ONLY <1>1, <1>3, <1>4, <1>9, <1>10, <1>12, <1>13, <1>14, <1>15 DEF Dump, c

\* An exception or IRQ enters its stub, or the processor is lost.
LEMMA Trapped ==
    ASSUME Types, NEW v \in 0 .. 47, NEW ip, NEW error,
           error = IF v \in Coded THEN << <<"num", 5>> >> ELSE <<>>,
           Deliver(v, error, ip)
    PROVE  /\ interrupted' = Append(interrupted, [cpu EXCEPT !.ip = ip])
           /\ Lost \/ Taken(v, ip)
<1>1. PICK gate : gate = Idt[build][v + 1]
  OBVIOUS
<1>2. gate.valid /\ gate.masks /\ gate.stub = Vector(v)
        /\ gate.ist = IF build = "i386" THEN 0 ELSE 1
  <2>1. Reads(gate, build, v)
    BY <1>1, IdtRight DEF Types
  <2>2. v # 81
    OBVIOUS
  <2> QED BY ONLY <2>1, <2>2 DEF Reads, Vector
<1>3. Vector(v) # SYSTEM
  BY DEF Vector, SYSTEM, NULL
<1>4. PICK sp : sp = IF gate.ist = 0 THEN cpu.sp ELSE tss_init[gate.ist]
  OBVIOUS
<1>5. sp \in Stacks /\ sp = IF build = "amd64" THEN "ist1" ELSE cpu.sp
  BY <1>2, <1>4, FrameSeq DEF tss_init, Types, Builds, Stacks
<1>6. PICK rest : rest = IF gate.ist = 0 THEN Frame ELSE <<>>
  OBVIOUS
<1>7. IsSeq(rest)
  BY <1>6, FrameSeq, Tuples
<1>8. PICK f : f = isr_stub_common(build, cpu.regs, isr_stub(Vector(v)) \o (Pushed(error, ip) \o rest))
  OBVIOUS
<1>9. Dump(f, Vector(v), Code(v), [cpu EXCEPT !.ip = ip], Len(Frame))
  BY <1>7, <1>8, Pushing
<1>10. PICK regs : regs = [r \in Registers[build] |->
                               IF r \in Scratch[build] THEN <<"junk">> ELSE cpu.regs[r]]
  OBVIOUS
<1>11. interrupted' = Append(interrupted, [cpu EXCEPT !.ip = ip])
  BY DEF Deliver
<1>12. CASE gate.ist # 0 /\ ~tss
  <2>1. Lost
    BY <1>1, <1>12 DEF Deliver
  <2> QED BY <1>11, <2>1
<1>13. CASE ~(gate.ist # 0 /\ ~tss)
  <2>1. /\ stack' = [stack EXCEPT ![sp] = f]
        /\ cpu' = [ip |-> <<"isr_handler", 1>>, flags |-> FALSE, shadow |-> FALSE,
                   sp |-> sp, regs |-> regs]
    BY <1>1, <1>2, <1>3, <1>4, <1>6, <1>8, <1>10, <1>13 DEF Deliver
  <2>2. regs = [r \in Registers[build] |-> regs[r]]
    BY <1>10
  <2>3. Taken(v, ip)
    BY ONLY <1>5, <1>9, <2>1, <2>2, Zenon DEF Taken
  <2> QED BY <1>11, <2>3
<1> QED BY <1>12, <1>13

-----------------------------------------------------------------------------
(* Where the processor is.                                                 *)

\* The fields isr_handler reads lie above the registers.
LEMMA Fields ==
    ASSUME Types, NEW f
    PROVE  /\ Field(build, f, "vector") = f[Depth[build] + 1]
           /\ Field(build, f, "errorcode") = f[Depth[build] + 2]
           /\ Field(build, f, "ip") = f[Depth[build] + 3]
  BY DEF Types, Builds, Field, cpu_state, Depth

\* The operation at each kind of place.
LEMMA AtKernel ==
    ASSUME Types, Kernel
    PROVE  Fits(Op, cpu.ip[2], processors) /\ cpu.ip[2] \in 1 .. Length[processors]
           /\ Length[processors] \in Nat /\ cpu.ip[1] = "kernel_entry"
<1>1. cpu.ip[1] = "kernel_entry" /\ cpu.ip[2] \in 1 .. Length[processors]
        /\ processors \in 1 .. 2
  BY DEF Types, Kernel, InKernel
<1>2. Op = kernel_entry[processors][cpu.ip[2]]
  BY <1>1 DEF Op, In
<1>3. PICK k : k = cpu.ip[2]
  OBVIOUS
<1>4. Fits(kernel_entry[processors][k], k, processors) /\ Length[processors] \in Nat
  BY ONLY <1>1, <1>3, KernelText
<1> QED BY ONLY <1>1, <1>2, <1>3, <1>4

\* In the stub of the system calls it is the call or the iret.
LEMMA AtSystem ==
    ASSUME Types, NEW k, NEW c, System(k, c)
    PROVE  Op[1] = IF cpu.ip[2] = 1 THEN "call" ELSE "iret"
  BY DEF System, Op, In, isr_stub_system

\* Where an IRQ is served it is one of those of isr_handler for it.
LEMMA AtServing ==
    ASSUME Types, NEW v \in 32 .. 47, NEW c, Serving(v, c)
    PROVE  Serves(Op, cpu.ip[2], Len(isr_handler(v))) /\ Len(isr_handler(v)) \in Nat
<1>1. Field(build, Frame, "vector")[2] = v
  BY Fields DEF Serving, Dump
<1>2. Op = isr_handler(v)[cpu.ip[2]]
  BY <1>1 DEF Op, In, Serving
<1>3. HandlerText(v, isr_handler(v))
  BY Handlers
<1> QED BY <1>2, <1>3 DEF HandlerText, Serving

\* Where an exception is handled it is one of those that print and stop.
LEMMA AtHandling ==
    ASSUME Types, NEW v \in (0 .. 31) \cup {NULL}, Handling(v)
    PROVE  Handles(Op, cpu.ip[2], Len(isr_handler(v)), v) /\ Len(isr_handler(v)) \in Nat
<1>1. Field(build, Frame, "vector")[2] = v
  BY DEF Handling
<1>2. Op = isr_handler(v)[cpu.ip[2]]
  BY <1>1 DEF Op, In, Handling
<1>3. HandlerText(v, isr_handler(v)) /\ v \notin 32 .. 47
  BY Handlers DEF NULL
<1> QED BY <1>2, <1>3 DEF HandlerText, Handling

\* Where memory_free refuses an area it prints and stops.
LEMMA AtRefusing ==
    ASSUME Refusing
    PROVE  /\ Op[1] = IF cpu.ip[2] = 1 THEN "lock" ELSE IF cpu.ip[2] = 2 THEN "unlock" ELSE "halt"
           /\ cpu.ip[2] = 1 => Op[2] = "invalid"
<1> DEFINE s == printf("invalid")
           t == << <<"halt">> >>
           u == s \o t
<1>1. cpu.ip[2] \in 1 .. 3 /\ Op = memory_free[cpu.ip[2]]
  BY DEF Refusing, Op, In
<1>2. memory_free = u
  BY ONLY DEF memory_free, s, t, u
<1>3. IsSeq(s) /\ Len(s) = 2 /\ s[1] = <<"lock", "invalid">> /\ s[2] = <<"unlock">>
  BY ONLY Tuples DEF printf
<1>4. IsSeq(t) /\ Len(t) = 1 /\ t[1] = <<"halt">>
  BY ONLY Tuples
<1>5. IsJoin(u, s, t)
  BY ONLY <1>3, <1>4, Joins
<1> HIDE DEF u, s, t
<1>6. u[1] = s[1] /\ u[2] = s[2] /\ u[2 + 1] = t[1] /\ 2 + 1 = 3
  BY ONLY <1>3, <1>4, <1>5 DEF IsJoin
<1>7. PICK k : k = cpu.ip[2]
  OBVIOUS
<1>8. Op = u[k] /\ k \in 1 .. 3
  BY ONLY <1>1, <1>2, <1>7
<1>9. u[1] = <<"lock", "invalid">> /\ u[2] = <<"unlock">> /\ u[3] = <<"halt">>
  BY ONLY <1>3, <1>4, <1>6
<1> QED BY ONLY <1>7, <1>8, <1>9

\* The kinds of places an operation is found at.
LEMMA Kinds ==
    ASSUME IInv
    PROVE  /\ Op[1] = "outb" => Kernel \/ InServing
           /\ Op[1] \in {"lock", "unlock"} => Kernel \/ InHandling \/ Refusing
           /\ Op[1] \in {"ltr", "sti", "cli", "hlt", "wait", "jump", "unless", "args", "int", "drop"} => Kernel
           /\ Op[1] \in {"call", "iret"} => InSystem
           /\ Op[1] = "return" => InServing
           /\ Op[1] = "halt" => InHandling \/ Refusing
<1>1. Types /\ (Kernel \/ InSystem \/ InServing \/ InHandling \/ Refusing \/ Nowhere)
  BY DEF IInv
<1>2. Kernel => Op[1] \in {"outb", "lock", "unlock", "ltr", "sti", "cli", "hlt", "wait", "unless", "jump",
                  "args", "int", "drop", "forever"}
  BY <1>1, AtKernel DEF Fits
<1>3. InSystem => Op[1] \in {"call", "iret"}
  BY <1>1, AtSystem DEF InSystem
<1>4. InServing => Op[1] \in {"outb", "return"}
  BY <1>1, AtServing DEF InServing, Serves
<1>5. InHandling => Op[1] \in {"lock", "unlock", "halt"}
  BY <1>1, AtHandling DEF InHandling, Handles
<1>6. Nowhere => Op[1] = "lost"
  BY DEF Nowhere, Op, In
<1>7. Refusing => Op[1] \in {"lock", "unlock", "halt"}
  BY AtRefusing
<1> QED BY ONLY <1>1, <1>2, <1>3, <1>4, <1>5, <1>6, <1>7

\* Going on by one place.
LEMMA Advance ==
    ASSUME Types, UNCHANGED machine, cpu' = Ahead
    PROVE  /\ IsState(cpu)' /\ cpu'.ip = <<cpu.ip[1], cpu.ip[2] + 1>>
           /\ cpu'.flags = cpu.flags /\ cpu'.sp = cpu.sp /\ cpu'.regs = cpu.regs
           /\ cpu'.shadow = FALSE
<1>1. /\ cpu = [ip |-> cpu.ip, flags |-> cpu.flags, shadow |-> cpu.shadow, sp |-> cpu.sp,
                regs |-> cpu.regs]
      /\ cpu.ip = <<cpu.ip[1], cpu.ip[2]>>
      /\ cpu.flags \in BOOLEAN /\ cpu.sp \in Stacks
      /\ cpu.regs = [r \in Registers[build] |-> cpu.regs[r]]
  BY DEF Types, IsState
<1>2. PICK a, b : cpu.ip = <<a, b>>
  BY <1>1
<1>3. [cpu.ip EXCEPT ![2] = cpu.ip[2] + 1] = <<a, b + 1>>
  BY ONLY <1>2
<1>4. cpu' = [ip |-> <<a, b + 1>>, flags |-> cpu.flags, shadow |-> FALSE, sp |-> cpu.sp,
              regs |-> cpu.regs]
  BY ONLY <1>1, <1>3, cpu' = Ahead DEF Ahead, Behind
<1>5. build' = build
  BY DEF machine
<1> QED BY ONLY <1>1, <1>2, <1>4, <1>5 DEF IsState

-----------------------------------------------------------------------------
(* The operations that only go on.                                         *)

\* The kernel goes on at place k.
LEMMA KernelMoves ==
    ASSUME Types, Kernel, UNCHANGED <<machine, interrupted, pics>>, cpu.ip[2] > 10,
           NEW k \in 11 .. Length[processors],
           k \notin {Calls[processors] + 1, Calls[processors] + 6},
           IsState(cpu)', cpu'.ip = <<"kernel_entry", k>>, cpu'.sp = "kernel",
           cpu'.flags => k \in Open[processors]
    PROVE  Kernel'
<1>1. cpu.ip[2] \in 1 .. Length[processors] /\ Length[processors] \in Nat
  BY AtKernel
<1>2. Before(pics, 11)
  BY <1>1 DEF Kernel
<1>3. k \in 1 .. Length[processors] /\ ~(k <= 10)
  BY <1>1
<1>4. processors' = processors /\ build' = build
  BY DEF machine
<1>5. InKernel(cpu)'
  BY <1>3, <1>4 DEF InKernel
<1>6. interrupted' = <<>>
  BY DEF Kernel
<1> QED BY <1>2, <1>3, <1>4, <1>5, <1>6 DEF Kernel

\* A handler goes on at place k.
LEMMA HandlingMoves ==
    ASSUME Types, NEW v, Handling(v), UNCHANGED <<machine, stack, faults>>,
           NEW k \in 1 .. Len(isr_handler(v)), cpu'.ip = <<"isr_handler", k>>,
           cpu'.flags = FALSE, cpu'.sp = cpu.sp
    PROVE  Handling(v)'
<1>1. Frame' = Frame /\ build' = build
  BY DEF Frame, machine
<1> QED BY <1>1 DEF Handling

\* Parts of the invariant that an action leaves alone.
LEMMA SameReport ==
    ASSUME ReportRight, UNCHANGED <<report, faults>>
    PROVE  ReportRight'
  BY DEF ReportRight

\* Types is kept with the processor, the stacks and the controllers.
LEMMA SameTypes ==
    ASSUME Types, UNCHANGED <<machine, faults>>, IsState(cpu)',
           pics' \in Controllers, 2 \notin pics'.master.irr,
           stack' = [s \in Stacks |-> stack'[s]], \A s \in Stacks : IsSeq(stack'[s])
    PROVE  Types'
  BY DEF Types, machine

\* Stacks nobody touches stay sequences.
LEMMA SameStacks ==
    ASSUME Types, UNCHANGED stack
    PROVE  stack' = [s \in Stacks |-> stack'[s]] /\ \A s \in Stacks : IsSeq(stack'[s])
  BY DEF Types

\* Controllers nobody touches stay controllers.
LEMMA SamePics ==
    ASSUME Types, UNCHANGED pics
    PROVE  pics' \in Controllers /\ 2 \notin pics'.master.irr
  BY DEF Types

\* One stack gets other words.
LEMMA StacksKept ==
    ASSUME Types, NEW t \in Stacks, NEW f, IsSeq(f), stack' = [stack EXCEPT ![t] = f]
    PROVE  stack' = [s \in Stacks |-> stack'[s]] /\ \A s \in Stacks : IsSeq(stack'[s])
  BY DEF Types

\* Outb: pic_init goes on, or an IRQ is acknowledged.
LEMMA OutbKeeps ==
    ASSUME IInv, Outb, UNCHANGED <<machine, faults>>
    PROVE  IInv'
<1>1. Types /\ ReportRight
  BY DEF IInv
<1>2. At("outb") /\ cpu' = Ahead /\ pics' = outb(pics, Op[2], Op[3])
        /\ UNCHANGED <<stack, report, interrupted>>
  BY DEF Outb, printing
<1>3. /\ IsState(cpu)' /\ cpu'.ip = <<cpu.ip[1], cpu.ip[2] + 1>>
      /\ cpu'.flags = cpu.flags /\ cpu'.sp = cpu.sp
  BY <1>1, <1>2, Advance
<1>4. pics \in Controllers /\ 2 \notin pics.master.irr
  BY <1>1 DEF Types
<1>5. CASE Kernel
  <2>1. PICK k : k = cpu.ip[2]
    OBVIOUS
  <2>2. /\ Fits(Op, k, processors) /\ k \in 1 .. Length[processors]
             /\ cpu.ip[1] = "kernel_entry"
        /\ Length[processors] \in Nat
    BY <1>1, <1>5, <2>1, AtKernel
  <2>3. k \in 1 .. 10 /\ Op[2] = pic_init[k][1] /\ Op[3] = pic_init[k][2]
    BY <1>2, <2>2 DEF Fits, At
  <2>4. pic_init[k][2] \in Nat
    BY <2>3 DEF pic_init
  <2>5. Before(pics, k) /\ cpu.sp = "kernel" /\ interrupted = <<>>
          /\ (cpu.flags => k \in Open[processors])
    BY <1>5, <2>1, <2>3 DEF Kernel, InKernel
  <2>6. pics' \in Controllers /\ 2 \notin pics'.master.irr /\ Before(pics', k + 1)
    BY ONLY <1>2, <1>4, <2>3, <2>4, <2>5, OutbKept, Programming
  <2>7. Types'
    BY <1>1, <1>2, <1>3, <2>6, SameTypes, SameStacks
  <2>8. processors' = processors
    BY DEF machine
  <2>9. k + 1 \in 1 .. Length[processors]
          /\ k + 1 \notin {Calls[processors] + 1, Calls[processors] + 6} /\ ~cpu.flags
    <3>1. k + 1 \in 1 .. Length[processors]
      BY <1>2, <2>2 DEF Fits, At
    <3>2. processors \in 1 .. 2
      BY <1>1 DEF Types
    <3> QED BY <2>3, <2>5, <3>1, <3>2, OpenPlaces DEF Calls
  <2>10. cpu'.ip = <<"kernel_entry", k + 1>>
    BY <1>3, <2>1, <2>2
  <2>11. InKernel(cpu)'
    BY <1>3, <2>5, <2>8, <2>9, <2>10 DEF InKernel
  <2>12. (IF k + 1 <= 10 THEN k + 1 ELSE 11) = k + 1
    BY <2>3
  <2>13. Kernel'
    BY <1>2, <2>5, <2>6, <2>8, <2>9, <2>10, <2>11, <2>12 DEF Kernel
  <2> QED BY <1>1, <1>2, <2>7, <2>13, SameReport DEF IInv
<1>6. CASE InServing
  <2>1. PICK v \in 32 .. 47, c \in ToSet(interrupted) : Serving(v, c)
    BY <1>6 DEF InServing
  <2>2. Serves(Op, cpu.ip[2], Len(isr_handler(v))) /\ Len(isr_handler(v)) \in Nat
    BY <1>1, <2>1, AtServing
  <2>3. Op[2] \in {32, 160} /\ Op[3] = 32 /\ cpu.ip[2] + 1 \in 1 .. Len(isr_handler(v))
    BY <1>2, <2>2 DEF Serves, At
  <2>4. Programmed(pics)
    BY <2>1 DEF Serving
  <2>5. pics' \in Controllers /\ 2 \notin pics'.master.irr /\ Programmed(pics')
    <3>1. 32 \in Nat
      OBVIOUS
    <3> QED BY ONLY <1>2, <1>4, <2>3, <2>4, <3>1, OutbKept, EndOfInterrupt
  <2>6. Types'
    BY <1>1, <1>2, <1>3, <2>5, SameTypes, SameStacks
  <2>7. Frame' = Frame /\ build' = build /\ processors' = processors
    BY <1>2, <1>3 DEF Frame, machine
  <2>8. InKernel(c)'
    BY <2>1, <2>7 DEF Serving, InKernel, IsState
  <2>9. Serving(v, c)'
    <3>1. Dump(Frame, v, <<"num", 0>>, c, Len(stack["kernel"]))'
      BY ONLY <1>2, <2>1, <2>7 DEF Serving, Dump
    <3>2. cpu'.ip[1] = "isr_handler" /\ cpu'.ip[2] = cpu.ip[2] + 1 /\ cpu'.flags = FALSE
      BY ONLY <1>3, <2>1 DEF Serving
    <3>3. /\ interrupted' = <<c>> /\ ~c.shadow /\ c.ip[2] \in Open[processors]'
          /\ build' = "i386" => cpu'.sp = "kernel"
      BY ONLY <1>2, <1>3, <2>1, <2>7 DEF Serving
    <3> QED BY ONLY <2>3, <2>5, <2>8, <3>1, <3>2, <3>3 DEF Serving
  <2>10. c \in ToSet(interrupted')
    BY <1>2
  <2>11. InServing'
    BY <2>9, <2>10 DEF InServing
  <2> QED BY <1>1, <1>2, <2>6, <2>11, SameReport DEF IInv
<1> QED BY <1>2, <1>5, <1>6, Kinds DEF At

\* Where the kernel is after an operation behind pic_init.
LEMMA Onward ==
    ASSUME Types, Kernel, Op[1] \notin {"outb", "jump", "args"}
    PROVE  /\ cpu.ip[2] > 10 /\ cpu.ip[1] = "kernel_entry" /\ cpu.sp = "kernel"
           /\ cpu.ip[2] + 1 \in 11 .. Length[processors]
           /\ cpu.ip[2] + 1 \notin {Calls[processors] + 1, Calls[processors] + 6}
           /\ (cpu.flags
                /\ Op[1] # "cli") \/ Op[1] = "sti" => cpu.ip[2] + 1 \in Open[processors]
<1>1. PICK k : k = cpu.ip[2]
  OBVIOUS
<1>2. /\ Fits(Op, k, processors) /\ k \in 1 .. Length[processors]
           /\ cpu.ip[1] = "kernel_entry"
      /\ Length[processors] \in Nat
  BY <1>1, AtKernel
<1>3. cpu.sp = "kernel" /\ (cpu.flags => k \in Open[processors])
  BY <1>1 DEF Kernel, InKernel
<1>4. k > 10 /\ k + 1 \in 11 .. Length[processors]
  BY <1>2 DEF Fits
<1>5. k \notin {Calls[processors], Calls[processors] + 5}
  BY <1>2 DEF Fits
<1>6. Calls[processors] \in Nat
  BY DEF Types, Calls
<1>7. k + 1 \notin {Calls[processors] + 1, Calls[processors] + 6}
  BY ONLY <1>2, <1>5, <1>6
<1>8. (cpu.flags /\ Op[1] # "cli") \/ Op[1] = "sti" => k + 1 \in Open[processors]
  BY <1>2, <1>3 DEF Fits
<1> QED BY ONLY <1>1, <1>2, <1>3, <1>4, <1>7, <1>8

\* kernel_entry goes on behind an operation that leaves the stack and the controllers alone.
LEMMA KernelGoesOn ==
    ASSUME IInv, Kernel, Op[1] \notin {"outb", "jump", "args", "sti"}, cpu' = Ahead,
           ReportRight',
           UNCHANGED <<machine, faults, interrupted, pics>>,
           stack' = [s \in Stacks |-> stack'[s]], \A s \in Stacks : IsSeq(stack'[s]),
           ~(cpu.flags /\ Op[1] = "cli")
    PROVE  IInv'
<1>1. Types
  BY DEF IInv
<1>2. PICK k : k = cpu.ip[2]
  OBVIOUS
<1>3. /\ k > 10 /\ cpu.ip[1] = "kernel_entry" /\ cpu.sp = "kernel"
      /\ k + 1 \in 11 .. Length[processors]
      /\ k + 1 \notin {Calls[processors] + 1, Calls[processors] + 6}
      /\ cpu.flags => k + 1 \in Open[processors]
  BY <1>1, <1>2, Onward
<1>4. /\ IsState(cpu)' /\ cpu'.ip = <<"kernel_entry", k + 1>>
      /\ cpu'.flags = cpu.flags /\ cpu'.sp = "kernel"
  BY <1>1, <1>2, <1>3, Advance
<1>5. Types'
  BY <1>1, <1>4, SameTypes, SamePics
<1>6. Kernel'
  BY <1>1, <1>2, <1>3, <1>4, KernelMoves
<1> QED BY <1>5, <1>6 DEF IInv

\* A handler of an exception goes on.
LEMMA HandlingGoesOn ==
    ASSUME IInv, InHandling, Op[1] # "halt", cpu' = Ahead, ReportRight',
           UNCHANGED <<machine, faults, stack, pics>>
    PROVE  IInv'
<1>1. Types
  BY DEF IInv
<1>2. PICK v \in (0 .. 31) \cup {NULL} : Handling(v)
  BY DEF InHandling
<1>3. cpu.ip[2] + 1 \in 1 .. Len(isr_handler(v))
  BY <1>1, <1>2, AtHandling DEF Handles
<1>4. /\ IsState(cpu)' /\ cpu'.ip = <<"isr_handler", cpu.ip[2] + 1>>
      /\ cpu'.flags = FALSE /\ cpu'.sp = cpu.sp
  BY <1>1, <1>2, Advance DEF Handling
<1>5. Types'
  BY <1>1, <1>4, SameTypes, SamePics, SameStacks
<1>6. Handling(v)'
  BY <1>1, <1>2, <1>3, <1>4, HandlingMoves
<1> QED BY <1>5, <1>6 DEF IInv, InHandling

\* memory_free goes on to its end.
LEMMA RefusingGoesOn ==
    ASSUME IInv, Refusing, Op[1] # "halt", cpu' = Ahead, ReportRight',
           UNCHANGED <<machine, faults, stack, pics>>
    PROVE  IInv'
<1>1. Types
  BY DEF IInv
<1>2. cpu.ip[1] = "memory_free" /\ cpu.ip[2] + 1 \in 1 .. 3 /\ cpu.flags = FALSE
  <2>1. PICK k, op : k = cpu.ip[2] /\ op = Op[1]
    OBVIOUS
  <2>2. k \in 1 .. 3 /\ cpu.ip[1] = "memory_free" /\ cpu.flags = FALSE
    BY <2>1 DEF Refusing
  <2>3. op = (IF k = 1 THEN "lock" ELSE IF k = 2 THEN "unlock" ELSE "halt") /\ op # "halt"
    BY <2>1, AtRefusing
  <2> QED BY ONLY <2>1, <2>2, <2>3
<1>3. IsState(cpu)' /\ cpu'.ip = <<cpu.ip[1], cpu.ip[2] + 1>> /\ cpu'.flags = cpu.flags
  BY <1>1, Advance
<1>4. Types'
  BY <1>1, <1>3, SameTypes, SamePics, SameStacks
<1>5. Refusing'
  BY ONLY <1>2, <1>3 DEF Refusing
<1> QED BY <1>4, <1>5 DEF IInv

\* Lock: the report shows the exception that is handled.
LEMMA LockKeeps ==
    ASSUME IInv, Lock, UNCHANGED <<machine, faults>>
    PROVE  IInv'
<1>1. Types /\ ReportRight
  BY DEF IInv
<1>2. /\ Op[1] = "lock" /\ cpu' = Ahead /\ UNCHANGED <<stack, pics, interrupted>>
      /\ report' = IF Op[2] = "exception"
                   THEN [n \in {"vector", "errorcode", "ip"} |-> Field(build, Frame, n)]
                   ELSE report
  BY DEF Lock, At
<1>3. CASE Kernel
  <2>1. Op[2] # "exception"
    BY <1>1, <1>2, <1>3, AtKernel DEF Fits
  <2>2. ReportRight'
    BY <1>1, <1>2, <2>1, SameReport
  <2> QED BY <1>1, <1>2, <1>3, <2>2, KernelGoesOn, SameStacks
<1>4. CASE InHandling
  <2>1. PICK v \in (0 .. 31) \cup {NULL} : Handling(v)
    BY <1>4 DEF InHandling
  <2>2. CASE Op[2] = "exception"
    <3>1. v < 32
      BY <1>1, <1>2, <2>1, <2>2, AtHandling DEF Handles
    <3>2. v # NULL
      BY <3>1 DEF NULL
    <3>3. /\ report'.vector = <<"num", v>>
          /\ report'.errorcode = Field(build, Frame, "errorcode")
          /\ report'.ip = Field(build, Frame, "ip")
      BY <1>2, <2>1, <2>2 DEF Handling
    <3>4. ReportRight'
      BY <2>1, <3>2, <3>3 DEF Handling, ReportRight
    <3> QED BY <1>2, <1>4, <3>4, HandlingGoesOn
  <2>3. CASE Op[2] # "exception"
    <3>1. ReportRight'
      BY <1>1, <1>2, <2>3, SameReport
    <3> QED BY <1>2, <1>4, <3>1, HandlingGoesOn
  <2> QED BY <2>2, <2>3
<1>5. CASE Refusing
  <2>1. Op[2] # "exception"
    BY <1>2, <1>5, AtRefusing DEF Refusing
  <2>2. ReportRight'
    BY <1>1, <1>2, <2>1, SameReport
  <2> QED BY <1>2, <1>5, <2>2, RefusingGoesOn
<1> QED BY <1>2, <1>3, <1>4, <1>5, Kinds

\* Unlock.
LEMMA UnlockKeeps ==
    ASSUME IInv, Unlock, UNCHANGED <<machine, faults>>
    PROVE  IInv'
<1>1. Types /\ ReportRight
  BY DEF IInv
<1>2. Op[1] = "unlock" /\ cpu' = Ahead /\ UNCHANGED <<stack, pics, interrupted, report>>
  BY DEF Unlock, At
<1>3. ReportRight'
  BY <1>1, <1>2, SameReport
<1>4. CASE Kernel
  BY <1>1, <1>2, <1>3, <1>4, KernelGoesOn, SameStacks
<1>5. CASE InHandling
  BY <1>2, <1>3, <1>5, HandlingGoesOn
<1>6. CASE Refusing
  BY <1>2, <1>3, <1>6, RefusingGoesOn
<1> QED BY <1>2, <1>4, <1>5, <1>6, Kinds

\* Ltr.
LEMMA LtrKeeps ==
    ASSUME IInv, Ltr, UNCHANGED <<machine, faults>>
    PROVE  IInv'
<1>1. Types /\ ReportRight
  BY DEF IInv
<1>2. Op[1] = "ltr" /\ cpu' = Ahead /\ UNCHANGED <<stack, pics, interrupted, report>>
  BY DEF Ltr, At, printing
<1>3. ReportRight'
  BY <1>1, <1>2, SameReport
<1>4. Kernel
  BY <1>2, Kinds
<1> QED BY <1>1, <1>2, <1>3, <1>4, KernelGoesOn, SameStacks

\* DropArgs.
LEMMA DropArgsKeeps ==
    ASSUME IInv, DropArgs, UNCHANGED <<machine, faults>>
    PROVE  IInv'
<1>1. Types /\ ReportRight
  BY DEF IInv
<1>2. PICK n \in {0, 3, 4} :
          /\ Op[1] = "drop" /\ cpu' = Ahead /\ UNCHANGED <<pics, interrupted, report>>
          /\ stack' = [stack EXCEPT ![cpu.sp] = Below(@, n)]
  BY DEF DropArgs, At, printing
<1>3. IsSeq(Below(Frame, n))
  BY <1>1, FrameSeq, Dropped
<1>4. stack' = [stack EXCEPT ![cpu.sp] = Below(Frame, n)]
  BY <1>2 DEF Frame
<1>5. stack' = [s \in Stacks |-> stack'[s]] /\ \A s \in Stacks : IsSeq(stack'[s])
  BY <1>1, <1>3, <1>4, FrameSeq, StacksKept
<1>6. ReportRight'
  BY <1>1, <1>2, SameReport
<1>7. Kernel
  BY <1>2, Kinds
<1> QED BY <1>1, <1>2, <1>5, <1>6, <1>7, KernelGoesOn

\* The processor one place further.
LEMMA AheadIs ==
    ASSUME Types
    PROVE  /\ cpu.flags \in BOOLEAN /\ cpu.sp \in Stacks
           /\ cpu.regs = [r \in Registers[build] |-> cpu.regs[r]]
           /\ Ahead = [ip |-> <<cpu.ip[1], cpu.ip[2] + 1>>, flags |-> cpu.flags,
                       shadow |-> FALSE, sp |-> cpu.sp, regs |-> cpu.regs]
<1>1. /\ cpu = [ip |-> cpu.ip, flags |-> cpu.flags, shadow |-> cpu.shadow, sp |-> cpu.sp,
                regs |-> cpu.regs]
      /\ cpu.ip = <<cpu.ip[1], cpu.ip[2]>>
      /\ cpu.flags \in BOOLEAN /\ cpu.sp \in Stacks
      /\ cpu.regs = [r \in Registers[build] |-> cpu.regs[r]]
  BY DEF Types, IsState
<1>2. PICK a, b : cpu.ip = <<a, b>>
  BY <1>1
<1>3. [cpu.ip EXCEPT ![2] = cpu.ip[2] + 1] = <<a, b + 1>>
  BY ONLY <1>2
<1>4. Ahead = [ip |-> <<a, b + 1>>, flags |-> cpu.flags, shadow |-> FALSE, sp |-> cpu.sp,
               regs |-> cpu.regs]
  <2>1. PICK i, f, h, s, g : cpu = [ip |-> i, flags |-> f, shadow |-> h, sp |-> s, regs |-> g]
    BY ONLY <1>1
  <2>2. PICK j : j = <<a, b + 1>>
    OBVIOUS
  <2>3. Behind = j
    BY ONLY <1>3, <2>2 DEF Behind
  <2>4. PICK x : x = Ahead
    OBVIOUS
  <2>5. x = [ip |-> j, flags |-> f, shadow |-> FALSE, sp |-> s, regs |-> g]
    BY ONLY <2>1, <2>3, <2>4 DEF Ahead
  <2>6. cpu.flags = f /\ cpu.sp = s /\ cpu.regs = g
    BY ONLY <2>1
  <2> QED BY ONLY <2>2, <2>4, <2>5, <2>6
<1> QED BY ONLY <1>1, <1>2, <1>4

\* A state of the processor by its parts.
LEMMA Placed ==
    ASSUME UNCHANGED machine, NEW a, NEW k, NEW fl \in BOOLEAN, NEW sh \in BOOLEAN,
           NEW s \in Stacks, NEW rs, rs = [r \in Registers[build] |-> rs[r]],
           cpu' = [ip |-> <<a, k>>, flags |-> fl, shadow |-> sh, sp |-> s, regs |-> rs]
    PROVE  /\ IsState(cpu)' /\ cpu'.ip = <<a, k>> /\ cpu'.ip[1] = a /\ cpu'.ip[2] = k
           /\ cpu'.flags = fl /\ cpu'.sp = s /\ cpu'.regs = rs /\ cpu'.shadow = sh
<1>1. build' = build
  BY DEF machine
<1> QED BY <1>1 DEF IsState

\* The kernel goes on with these flags.
LEMMA KernelGoes ==
    ASSUME IInv, Kernel, cpu.ip[2] > 10, NEW k \in 11 .. Length[processors],
           k \notin {Calls[processors] + 1, Calls[processors] + 6},
           NEW fl \in BOOLEAN, NEW sh \in BOOLEAN, fl => k \in Open[processors],
           cpu' = [ip |-> <<"kernel_entry", k>>, flags |-> fl, shadow |-> sh, sp |-> cpu.sp,
                   regs |-> cpu.regs],
           UNCHANGED <<machine, faults, interrupted, pics, stack, report>>
    PROVE  IInv'
<1>1. Types /\ ReportRight
  BY DEF IInv
<1>2. cpu.sp = "kernel" /\ cpu.sp \in Stacks
  BY DEF Kernel, InKernel, Stacks
<1>3. cpu.regs = [r \in Registers[build] |-> cpu.regs[r]]
  BY <1>1 DEF Types, IsState
<1>4. IsState(cpu)' /\ cpu'.ip = <<"kernel_entry", k>> /\ cpu'.flags = fl
        /\ cpu'.sp = "kernel"
  BY <1>2, <1>3, Placed
<1>5. Types'
  BY <1>1, <1>4, SameTypes, SamePics, SameStacks
<1>6. Kernel'
  BY <1>1, <1>4, KernelMoves
<1> QED BY <1>1, <1>5, <1>6, SameReport DEF IInv

\* Flags: interrupts are only switched on where the kernel is open to them.
LEMMA FlagsKeeps ==
    ASSUME IInv, Flags, UNCHANGED <<machine, faults>>
    PROVE  IInv'
<1>1. Types /\ ReportRight
  BY DEF IInv
<1>2. PICK op : op = Op[1]
  OBVIOUS
<1>3. /\ cpu' # cpu /\ UNCHANGED <<pics, interrupted, stack, report>>
      /\ op = "sti" => cpu' = [Ahead EXCEPT !.flags = TRUE, !.shadow = ~cpu.flags]
      /\ op = "cli" => cpu' = [Ahead EXCEPT !.flags = FALSE]
      /\ op = "hlt" => cpu' = Ahead
      /\ op = "jump" => cpu' = [Ahead EXCEPT !.ip[2] = cpu.ip[2] - Op[2]]
      /\ op = "halt" => cpu' = [cpu EXCEPT !.flags = FALSE]
      /\ op \in {"sti", "cli", "hlt", "jump", "halt"}
  BY <1>2 DEF Flags, At, printing
<1>4. PICK k : k = cpu.ip[2]
  OBVIOUS
<1>5. /\ cpu.flags \in BOOLEAN
      /\ Ahead = [ip |-> <<cpu.ip[1], k + 1>>, flags |-> cpu.flags,
                  shadow |-> FALSE, sp |-> cpu.sp, regs |-> cpu.regs]
  BY <1>1, <1>4, AheadIs
<1>6. op # "halt" => Kernel
  BY <1>2, <1>3, Kinds
<1>7. CASE op = "sti"
  <2>1. cpu' = [ip |-> <<"kernel_entry", k + 1>>, flags |-> TRUE, shadow |-> ~cpu.flags,
                sp |-> cpu.sp,
                regs |-> cpu.regs]
    BY <1>1, <1>2, <1>3, <1>5, <1>6, <1>7, AtKernel
  <2> QED BY <1>1, <1>2, <1>3, <1>4, <1>6, <1>7, <2>1, Onward, KernelGoes
<1>8. CASE op = "cli"
  <2>1. cpu' = [ip |-> <<"kernel_entry", k + 1>>, flags |-> FALSE, shadow |-> FALSE,
                sp |-> cpu.sp,
                regs |-> cpu.regs]
    BY <1>1, <1>2, <1>3, <1>5, <1>6, <1>8, AtKernel
  <2> QED BY <1>1, <1>2, <1>3, <1>4, <1>6, <1>8, <2>1, Onward, KernelGoes
<1>9. CASE op = "hlt"
  BY <1>1, <1>2, <1>3, <1>6, <1>9, SameReport, SameStacks, KernelGoesOn
<1>10. CASE op = "jump"
  <2>1. /\ Fits(Op, k, processors) /\ k \in 1 .. Length[processors]
             /\ cpu.ip[1] = "kernel_entry"
        /\ Length[processors] \in Nat /\ processors \in 1 .. 2
    BY <1>1, <1>4, <1>6, <1>10, AtKernel DEF Types
  <2>2. Op[2] = 2 /\ k > 10 /\ k - 2 \in Open[processors]
    BY <1>2, <1>10, <2>1 DEF Fits
  <2>3. cpu' = [ip |-> <<"kernel_entry", k - 2>>, flags |-> cpu.flags, shadow |-> FALSE,
                sp |-> cpu.sp,
                regs |-> cpu.regs]
    BY <1>3, <1>4, <1>5, <1>10, <2>1, <2>2
  <2>4. k - 2 \in 11 .. Length[processors]
          /\ k - 2 \notin {Calls[processors] + 1, Calls[processors] + 6}
    BY <2>1, <2>2, OpenPlaces
  <2> QED BY <1>3, <1>4, <1>5, <1>6, <1>10, <2>2, <2>3, <2>4, KernelGoes
<1>11. CASE op = "halt"
  <2>1. cpu.flags = FALSE
    BY <1>2, <1>11, Kinds DEF InHandling, Handling, Refusing
  <2>2. cpu = [ip |-> cpu.ip, flags |-> cpu.flags, shadow |-> cpu.shadow, sp |-> cpu.sp,
               regs |-> cpu.regs]
    BY <1>1 DEF Types, IsState
  <2>3. [cpu EXCEPT !.flags = FALSE] = cpu
    BY ONLY <2>1, <2>2
  <2> QED BY <1>3, <1>11, <2>3
<1> QED BY ONLY <1>3, <1>7, <1>8, <1>9, <1>10, <1>11

\* Branch.
LEMMA BranchKeeps ==
    ASSUME IInv, Branch, UNCHANGED <<machine, faults>>
    PROVE  IInv'
<1>1. Types /\ ReportRight
  BY DEF IInv
<1>2. PICK n \in {0, Op[2]} : /\ Op[1] = "unless"
                                   /\ UNCHANGED <<pics, interrupted, stack, report>>
                              /\ cpu' = [Ahead EXCEPT !.ip[2] = @ + n]
  BY DEF Branch, At, printing
<1>3. Kernel
  BY <1>2, Kinds
<1>4. PICK k : k = cpu.ip[2]
  OBVIOUS
<1>5. /\ Fits(Op, k, processors) /\ k \in 1 .. Length[processors]
           /\ cpu.ip[1] = "kernel_entry"
      /\ Length[processors] \in Nat /\ processors \in 1 .. 2
  BY <1>1, <1>3, <1>4, AtKernel DEF Types
<1>6. /\ k > 10 /\ k + 1 \in 11 .. Length[processors] /\ k + 1 \notin {Calls[processors] + 1, Calls[processors] + 6}
      /\ cpu.flags => k + 1 \in Open[processors]
  BY <1>1, <1>2, <1>3, <1>4, Onward
<1>7. PICK m : m = (k + 1) + n
  OBVIOUS
<1>8. /\ Op[2] \in 1 .. 3 /\ (k + 1) + Op[2] \in 1 .. Length[processors]
      /\ (k + 1) + Op[2] \notin {Calls[processors] + 1, Calls[processors] + 6}
      /\ cpu.flags => (k + 1) + Op[2] \in Open[processors]
  BY <1>2, <1>3, <1>4, <1>5 DEF Fits, Kernel, InKernel
<1>9. /\ m \in 11 .. Length[processors]
      /\ m \notin {Calls[processors] + 1, Calls[processors] + 6}
      /\ cpu.flags => m \in Open[processors]
  <2>1. CASE n = 0
    BY ONLY <1>5, <1>6, <1>7, <2>1
  <2>2. CASE n = Op[2]
    BY ONLY <1>5, <1>6, <1>7, <1>8, <2>2
  <2> QED BY ONLY <1>2, <2>1, <2>2
<1>10. /\ cpu.flags \in BOOLEAN
       /\ Ahead = [ip |-> <<"kernel_entry", k + 1>>, flags |-> cpu.flags,
                   shadow |-> FALSE, sp |-> cpu.sp, regs |-> cpu.regs]
  BY <1>1, <1>4, <1>5, AheadIs
<1>11. cpu' = [ip |-> <<"kernel_entry", m>>, flags |-> cpu.flags, shadow |-> FALSE,
               sp |-> cpu.sp,
               regs |-> cpu.regs]
  <2>1. PICK j, f, s, g : j = <<"kernel_entry", k + 1>> /\ f = cpu.flags /\ s = cpu.sp
          /\ g = cpu.regs
    OBVIOUS
  <2>2. Ahead = [ip |-> j, flags |-> f, shadow |-> FALSE, sp |-> s, regs |-> g]
    BY ONLY <1>10, <2>1
  <2>3. PICK i : i = [j EXCEPT ![2] = @ + n]
    OBVIOUS
  <2>4. i = <<"kernel_entry", m>>
    BY ONLY <1>7, <2>1, <2>3
  <2>5. cpu' = [ip |-> i, flags |-> f, shadow |-> FALSE, sp |-> s, regs |-> g]
    BY ONLY <1>2, <2>2, <2>3
  <2> QED BY ONLY <2>1, <2>4, <2>5
<1> QED BY <1>2, <1>3, <1>4, <1>6, <1>9, <1>10, <1>11, KernelGoes

-----------------------------------------------------------------------------
(* System calls.                                                           *)

\* Registers by their names.
LEMMA Named ==
    /\ {"rbx", "rcx", "rdx", "rsi", "rdi"} \subseteq Registers["amd64"]
    /\ "ebx" \in Registers["i386"]
<1>1. ASSUME NEW arch \in Builds, NEW i \in DOMAIN Saved(arch)
      PROVE  Saved(arch)[i] \in Registers[arch]
  <2>1. PICK a, b : a = Saved(arch) /\ b = Segments
    OBVIOUS
  <2>2. /\ Len(a) = Depth[arch] - 4 /\ DOMAIN a = 1 .. (Depth[arch] - 4)
             /\ Depth[arch] \in {19, 11}
    BY <2>1, SavedPlaces
  <2>3. a = [j \in 1 .. (Depth[arch] - 4) |-> a[j]]
    <3>1. CASE arch = "amd64"
      BY <2>1, <3>1 DEF Saved, Depth
    <3>2. CASE arch = "i386"
      BY <2>1, <3>2 DEF Saved, Depth
    <3> QED BY <3>1, <3>2 DEF Builds
  <2>4. b = [j \in 1 .. 4 |-> b[j]]
    BY <2>1 DEF Segments
  <2>5. PICK n : n = Depth[arch] - 4 /\ n \in Nat
    BY <2>2
  <2>6. IsSeq(a) /\ IsSeq(b)
    <3>1. 4 \in Nat
      OBVIOUS
    <3>2. a = [j \in 1 .. n |-> a[j]]
      BY ONLY <2>3, <2>5
    <3> QED BY ONLY <2>4, <2>5, <3>1, <3>2, Listed, Zenon
  <2>7. PICK u : u = a \o b
    OBVIOUS
  <2>8. IsJoin(u, a, b)
    BY ONLY <2>6, <2>7, Joins
  <2>9. i \in 1 .. Len(a) /\ Len(a) \in Nat /\ Len(b) \in Nat
    BY <2>1, <2>2, <2>6, SeqLength
  <2>10. u[i] = a[i] /\ i \in DOMAIN u
    BY <2>8, <2>9, SeqLength DEF IsJoin
  <2>11. Registers[arch] = ToSet(u)
    BY <2>1, <2>7 DEF Registers, Builds
  <2> QED BY <2>1, <2>10, <2>11 DEF ToSet
<1>2. "amd64" \in Builds /\ "i386" \in Builds
  BY DEF Builds
<1>3. /\ 2 \in DOMAIN Saved("amd64") /\ Saved("amd64")[2] = "rcx"
      /\ 3 \in DOMAIN Saved("amd64") /\ Saved("amd64")[3] = "rdx"
      /\ 4 \in DOMAIN Saved("amd64") /\ Saved("amd64")[4] = "rbx"
      /\ 5 \in DOMAIN Saved("amd64") /\ Saved("amd64")[5] = "rsi"
      /\ 6 \in DOMAIN Saved("amd64") /\ Saved("amd64")[6] = "rdi"
  BY DEF Saved
<1>4. 4 \in DOMAIN Saved("i386") /\ Saved("i386")[4] = "ebx"
  BY DEF Saved
<1> QED BY <1>1, <1>2, <1>3, <1>4

\* The words that pass the arguments on the stack, from which one on.
ArgsFrom(function) == IF function = "memory_alloc" THEN 3 ELSE 2

\* The words Args puts on the stack.
Put(function) ==
    IF function = "memory_alloc" THEN << Number(function), <<"result">> >> \o Parameters(function)
    ELSE <<Number(function)>> \o Parameters(function)

\* words pass the arguments of the function.
IsPut(words, function) ==
    LET ps == Parameters(function)
    IN  /\ IsSeq(words) /\ Len(words) = (ArgsFrom(function) + Len(ps)) - 1
        /\ words[1] = Number(function)
        /\ \A i \in 1 .. Len(ps) : words[(ArgsFrom(function) + i) - 1] = ps[i]

\* How many parameters the functions have.
LEMMA ParametersAre ==
    ASSUME NEW function \in {"memory_alloc", "memory_free"}
    PROVE  /\ IsSeq(Parameters(function))
           /\ Len(Parameters(function)) = IF function = "memory_alloc" THEN 3 ELSE 2
<1>1. \A a, b, c : IsSeq(<<a, b, c>>)
  <2>1. ASSUME NEW a, NEW b, NEW c PROVE <<a, b, c>> \in Seq({a, b, c})
    OBVIOUS
  <2> QED BY ONLY <2>1, SeqIn, Zenon
<1> QED BY <1>1, Tuples DEF Parameters

\* Put passes them.
LEMMA ArgumentWords ==
    ASSUME NEW function \in {"memory_alloc", "memory_free"}
    PROVE  IsPut(Put(function), function)
<1> DEFINE ps == Parameters(function)
           words == Put(function)
<1>1. IsSeq(ps) /\ Len(ps) \in {2, 3}
  BY ParametersAre
<1>2. CASE function = "memory_alloc"
  <2>1. PICK h : h = << Number(function), <<"result">> >>
    OBVIOUS
  <2>2. IsSeq(h) /\ Len(h) = 2 /\ h[1] = Number(function)
    BY <2>1, Tuples
  <2>3. IsJoin(words, h, ps)
    <3>1. words = h \o ps
      BY <1>2, <2>1 DEF Put
    <3> HIDE DEF words, ps
    <3> QED BY ONLY <1>1, <2>2, <3>1, Joins
  <2>4. ArgsFrom(function) = 3
    BY <1>2 DEF ArgsFrom
  <2> HIDE DEF words
  <2> QED BY ONLY <1>1, <2>2, <2>3, <2>4 DEF IsJoin, IsPut, words, ps
<1>3. CASE function = "memory_free"
  <2>1. PICK h : h = << Number(function) >>
    OBVIOUS
  <2>2. IsSeq(h) /\ Len(h) = 1 /\ h[1] = Number(function)
    BY <2>1, Tuples
  <2>3. IsJoin(words, h, ps)
    <3>1. words = h \o ps
      BY <1>3, <2>1 DEF Put
    <3> HIDE DEF words, ps
    <3> QED BY ONLY <1>1, <2>2, <3>1, Joins
  <2>4. ArgsFrom(function) = 2
    BY <1>3 DEF ArgsFrom
  <2> QED BY ONLY <1>1, <2>2, <2>3, <2>4 DEF IsJoin, IsPut, words, ps
<1> QED BY <1>2, <1>3

\* The words the processor pushes.
LEMMA PushedIs ==
    ASSUME Types, NEW ip, NEW w, w = Pushed(<<>>, ip)
    PROVE  /\ IsSeq(w) /\ w[1] = <<"ip", ip>> /\ w[2] = <<"cs">> /\ w[3] = <<"if", cpu.flags>>
           /\ build = "i386" => Len(w) = 3
           /\ build = "amd64" => Len(w) = 5 /\ w[4] = <<"sp", cpu.sp, Len(Frame)>>
<1>1. PICK p, q, r, t : /\ p = <<"ip", ip>> /\ q = <<"cs">> /\ r = <<"if", cpu.flags>>
                        /\ t = IF build = "amd64" THEN << <<"sp", cpu.sp, Len(Frame)>>, <<"ss">> >>
                               ELSE <<>>
  OBVIOUS
<1>2. /\ IsSeq(t) /\ (build = "amd64" => Len(t) = 2 /\ t[1] = <<"sp", cpu.sp, Len(Frame)>>)
      /\ (build = "i386" => Len(t) = 0)
  BY <1>1, Tuples
<1>3. PICK h, e : h = <<p, q, r>> /\ e = <<>>
  OBVIOUS
<1>4. IsSeq(h) /\ Len(h) = 3 /\ h[1] = p /\ h[2] = q /\ h[3] = r /\ IsSeq(e) /\ Len(e) = 0
  BY <1>3, Tuples
<1>5. PICK g : g = e \o h
  OBVIOUS
<1>6. IsJoin(g, e, h)
  BY ONLY <1>4, <1>5, Joins
<1>7. IsSeq(g) /\ Len(g) = 3 /\ g[1] = p /\ g[2] = q /\ g[3] = r
  BY ONLY <1>4, <1>6 DEF IsJoin
<1>8. IsJoin(w, g, t)
  <2>1. w = g \o t
    BY <1>1, <1>3, <1>5 DEF Pushed
  <2> QED BY ONLY <1>2, <1>7, <2>1, Joins
<1>9. IsSeq(w) /\ w[1] = p /\ w[2] = q /\ w[3] = r /\ Len(w) = 3 + Len(t)
  BY ONLY <1>7, <1>8 DEF IsJoin
<1>11. \A i \in 1 .. Len(t) : w[3 + i] = t[i]
  BY ONLY <1>7, <1>8 DEF IsJoin
<1>10. build = "amd64" => Len(w) = 5 /\ w[4] = t[1]
  <2>1. SUFFICES ASSUME build = "amd64" PROVE Len(w) = 5 /\ w[4] = t[1]
    OBVIOUS
  <2>4. Len(t) = 2
    BY ONLY <1>2, <2>1
  <2>2. 1 \in 1 .. Len(t) /\ Len(w) = 5
    BY ONLY <1>9, <2>4
  <2>3. w[3 + 1] = t[1]
    BY ONLY <1>11, <2>2, Zenon
  <2> QED BY ONLY <2>2, <2>3
<1> QED BY ONLY <1>1, <1>2, <1>9, <1>10

\* Args: the arguments lie ready.
LEMMA ArgsKeeps ==
    ASSUME IInv, Args, UNCHANGED <<machine, faults>>
    PROVE  IInv'
<1>1. Types /\ ReportRight
  BY DEF IInv
<1>2. Op[1] = "args" /\ Kernel
  <2>1. Op[1] = "args"
    BY DEF Args, At
  <2> QED BY <2>1, Kinds
<1>3. PICK k, f, ps, first : /\ k = cpu.ip[2] /\ f = Op[2] /\ ps = Parameters(f)
                             /\ first = ArgsFrom(f)
  OBVIOUS
<1>4. /\ Fits(Op, k, processors) /\ k \in 1 .. Length[processors]
           /\ cpu.ip[1] = "kernel_entry"
      /\ Length[processors] \in Nat
  BY <1>1, <1>2, <1>3, AtKernel
<1>5. processors \in 1 .. 2 /\ build \in Builds /\ processors' = processors /\ build' = build
  BY <1>1 DEF Types, machine
<1>6. /\ k \in {Calls[processors], Calls[processors] + 5} /\ k > 10
           /\ k + 1 \in 11 .. Length[processors]
      /\ f = IF k < Calls[processors] + 5 THEN "memory_alloc" ELSE "memory_free"
  BY <1>2, <1>3, <1>4 DEF Fits
<1>7. f = Meant(k + 1) /\ f \in {"memory_alloc", "memory_free"}
      /\ k + 1 \in {Calls[processors] + 1, Calls[processors] + 6}
  BY <1>5, <1>6 DEF Meant, Calls
<1>8. ~cpu.flags /\ cpu.sp = "kernel" /\ interrupted = <<>> /\ Before(pics, 11)
  <2>1. k \notin Open[processors]
    <3>1. k \in Open[processors] => k + 1 \in Open[processors]
      BY <1>2, <1>4 DEF Fits
    <3> QED BY <1>5, <1>7, <3>1, OpenPlaces
  <2> QED BY <1>2, <1>3, <1>6, <2>1 DEF Kernel, InKernel
<1>9. PICK loaded, words :
          /\ loaded = IF build = "amd64"
                      THEN [cpu.regs EXCEPT !["rdi"] = Number(f), !["rsi"] = ps[1],
                                            !["rdx"] = ps[2],
                                            !["rcx"] = IF Len(ps) = 3 THEN ps[3] ELSE @]
                      ELSE cpu.regs
          /\ words = IF build = "i386" /\ f = "memory_alloc"
                     THEN << Number(f), <<"result">> >> \o ps
                     ELSE IF f = "memory_free" THEN <<Number(f)>> \o ps ELSE <<>>
          /\ cpu' = [Ahead EXCEPT !.regs = loaded]
          /\ stack' = [stack EXCEPT ![cpu.sp] = words \o @]
          /\ UNCHANGED <<pics, interrupted, report>>
  BY <1>3 DEF Args, printing
<1>10. cpu.regs = [r \in Registers[build] |-> cpu.regs[r]] /\ cpu.sp \in Stacks
  BY <1>1 DEF Types, IsState
<1>11. loaded = [r \in Registers[build] |-> loaded[r]]
  BY ONLY <1>9, <1>10
<1>12. build = "amd64" => /\ loaded["rdi"] = Number(f) /\ loaded["rsi"] = ps[1]
                               /\ loaded["rdx"] = ps[2]
                          /\ Len(ps) = 3 => loaded["rcx"] = ps[3]
  <2>1. SUFFICES ASSUME build = "amd64"
                 PROVE  /\ loaded["rdi"] = Number(f) /\ loaded["rsi"] = ps[1]
                             /\ loaded["rdx"] = ps[2]
                        /\ Len(ps) = 3 => loaded["rcx"] = ps[3]
    OBVIOUS
  <2>2. PICK regs, D : /\ regs = cpu.regs /\ D = Registers[build]
                            /\ regs = [r \in D |-> regs[r]]
                       /\ {"rbx", "rcx", "rdx", "rsi", "rdi"} \subseteq D
    BY ONLY <1>10, <2>1, Named
  <2> QED BY ONLY <1>9, <2>1, <2>2
<1>13. cpu' = [ip |-> <<"kernel_entry", k + 1>>, flags |-> FALSE, shadow |-> FALSE,
               sp |-> cpu.sp,
               regs |-> loaded]
  <2>1. Ahead = [ip |-> <<"kernel_entry", k + 1>>, flags |-> cpu.flags, shadow |-> FALSE,
                 sp |-> cpu.sp,
                 regs |-> cpu.regs]
    BY <1>1, <1>3, <1>4, AheadIs
  <2>2. PICK i, s, g, fl : i = <<"kernel_entry", k + 1>> /\ s = cpu.sp /\ g = cpu.regs
          /\ fl = cpu.flags
    OBVIOUS
  <2>3. Ahead = [ip |-> i, flags |-> fl, shadow |-> FALSE, sp |-> s, regs |-> g]
    BY ONLY <2>1, <2>2
  <2>4. cpu' = [ip |-> i, flags |-> fl, shadow |-> FALSE, sp |-> s, regs |-> loaded]
    BY ONLY <1>9, <2>3
  <2>5. fl = FALSE
    BY <1>1, <1>8, <2>2 DEF Types, IsState
  <2> QED BY ONLY <2>2, <2>4, <2>5
<1>14. /\ IsState(cpu)' /\ cpu'.ip[1] = "kernel_entry" /\ cpu'.ip[2] = k + 1
       /\ cpu'.flags = FALSE /\ cpu'.sp = "kernel" /\ cpu'.regs = loaded
  BY <1>8, <1>10, <1>11, <1>13, Placed
<1>15. IsSeq(words) /\ (build = "i386" => IsPut(words, f))
  <2>1. IsPut(Put(f), f)
    BY ONLY <1>7, ArgumentWords
  <2>2. IsSeq(Put(f))
    BY ONLY <2>1 DEF IsPut
  <2>3. words = Put(f) \/ (words = <<>> /\ build = "amd64")
    BY ONLY <1>3, <1>5, <1>7, <1>9 DEF Builds, Put
  <2>4. IsSeq(<<>>)
    BY Tuples
  <2> QED BY ONLY <2>1, <2>2, <2>3, <2>4
<1>p. Len(ps) = (IF f = "memory_alloc" THEN 3 ELSE 2)
  BY ONLY <1>3, <1>7, ParametersAre
<1>16. PICK s : s = words \o Frame
  OBVIOUS
<1>17. IsJoin(s, words, Frame)
  <2>1. IsSeq(Frame)
    BY <1>1, FrameSeq
  <2> QED BY ONLY <1>15, <1>16, <2>1, Joins
<1>18. IsSeq(s) /\ stack' = [stack EXCEPT !["kernel"] = s]
  BY <1>8, <1>9, <1>16, <1>17 DEF Frame, IsJoin
<1>19. stack'["kernel"] = s
  BY <1>1, <1>18 DEF Types, Stacks
<1>20. Types'
  BY <1>1, <1>8, <1>9, <1>10, <1>14, <1>18, StacksKept, SameTypes, SamePics
<1>21. Arguments(f, loaded, s) /\ Number(f) = IF build = "amd64" THEN loaded["rdi"] ELSE s[1]
  <2>1. CASE build = "amd64"
    BY ONLY <1>3, <1>12, <1>p, <2>1 DEF Arguments
  <2>2. CASE build = "i386"
    <3>1. Len(Frame) \in Nat
      BY <1>1, FrameSeq, SeqLength
    <3>2. PICK n : n = Len(ps)
      OBVIOUS
    <3>3. /\ Len(words) = (first + n) - 1 /\ words[1] = Number(f)
          /\ \A i \in 1 .. n : words[(first + i) - 1] = ps[i]
      BY ONLY <1>3, <1>15, <2>2, <3>2 DEF IsPut
    <3>n. n \in {2, 3} /\ first \in {2, 3} /\ first = IF f = "memory_alloc" THEN 3 ELSE 2
      BY ONLY <1>3, <1>p, <3>2 DEF ArgsFrom
    <3>4. Len(s) >= (first + n) - 1 /\ \A i \in 1 .. ((first + n) - 1) : s[i] = words[i]
      BY ONLY <1>17, <3>1, <3>n, <3>3 DEF IsJoin
    <3>5. ASSUME NEW i \in 1 .. n PROVE s[(first + i) - 1] = ps[i]
      <4>1. (first + i) - 1 \in 1 .. ((first + n) - 1)
        BY ONLY <3>n, i \in 1 .. n
      <4> QED BY ONLY <3>3, <3>4, <4>1, i \in 1 .. n, Zenon
    <3>6. s[1] = Number(f)
      BY ONLY <3>n, <3>3, <3>4
    <3> QED BY ONLY <1>3, <2>2, <3>2, <3>n, <3>4, <3>5, <3>6 DEF Arguments
  <2> QED BY <1>5, <2>1, <2>2 DEF Builds
<1>22. Passed(Meant(cpu.ip[2]), cpu.regs, stack["kernel"])'
  <2>1. Meant(cpu.ip[2])' = f
    BY <1>5, <1>7, <1>14 DEF Meant
  <2> QED BY ONLY <1>5, <1>14, <1>19, <1>21, <2>1 DEF Passed, Arguments
<1>23. InKernel(cpu)'
  <2>1. k + 1 \in 1 .. Length[processors]
    BY <1>4, <1>6
  <2> QED BY ONLY <1>5, <1>14, <2>1 DEF InKernel
<1>24. Kernel'
  <2>1. ~(k + 1 <= 10) /\ interrupted' = <<>> /\ Before(pics', 11)
    BY <1>6, <1>8, <1>9
  <2> QED BY ONLY <1>14, <1>22, <1>23, <2>1 DEF Kernel
<1> QED BY <1>1, <1>9, <1>20, <1>24, SameReport DEF IInv

\* c is the processor with another place to go on at.
LEMMA Elsewhere ==
    ASSUME Types, NEW ip, NEW c, c = [cpu EXCEPT !.ip = ip]
    PROVE  /\ c = [ip |-> ip, flags |-> cpu.flags, shadow |-> cpu.shadow, sp |-> cpu.sp,
                   regs |-> cpu.regs]
           /\ c.ip = ip /\ c.flags = cpu.flags /\ c.shadow = cpu.shadow /\ c.sp = cpu.sp
           /\ c.regs = cpu.regs
           /\ (\E a, k : ip = <<a, k>>) => IsState(c)
<1>1. PICK i, f, h, s, g : cpu = [ip |-> i, flags |-> f, shadow |-> h, sp |-> s, regs |-> g]
  BY DEF Types, IsState
<1>2. c = [ip |-> ip, flags |-> f, shadow |-> h, sp |-> s, regs |-> g]
  BY ONLY <1>1, c = [cpu EXCEPT !.ip = ip]
<1>3. cpu.flags = f /\ cpu.shadow = h /\ cpu.sp = s /\ cpu.regs = g
  BY ONLY <1>1
<1>4. f \in BOOLEAN /\ h \in BOOLEAN /\ s \in Stacks /\ g = [r \in Registers[build] |-> g[r]]
  BY <1>3 DEF Types, IsState
<1> QED BY ONLY <1>2, <1>3, <1>4 DEF IsState

\* The processor is lost.
LEMMA LostKeeps ==
    ASSUME Types, Lost, UNCHANGED machine, IsSeq(faults'),
           pics' \in Controllers, 2 \notin pics'.master.irr, ReportRight'
    PROVE  IInv'
<1>1. PICK i, f, h, s, g : cpu = [ip |-> i, flags |-> f, shadow |-> h, sp |-> s, regs |-> g]
  BY DEF Types, IsState
<1>2. PICK j : j = <<"lost", 0>>
  OBVIOUS
<1>3. cpu' = [ip |-> j, flags |-> FALSE, shadow |-> h, sp |-> s, regs |-> g]
  BY ONLY <1>1, <1>2, Lost DEF Lost
<1>4. h \in BOOLEAN /\ s \in Stacks /\ g = [r \in Registers[build] |-> g[r]]
  BY <1>1 DEF Types, IsState
<1>5. build' = build /\ processors' = processors
  BY DEF machine
<1>6. IsState(cpu)' /\ cpu'.ip = <<"lost", 0>> /\ cpu'.flags = FALSE
  BY ONLY <1>2, <1>3, <1>4, <1>5 DEF IsState
<1>7. stack' = [t \in Stacks |-> stack'[t]] /\ \A t \in Stacks : IsSeq(stack'[t])
  BY SameStacks DEF Lost
<1>8. Types'
  BY <1>5, <1>6, <1>7 DEF Types
<1>9. Nowhere'
  BY <1>6 DEF Nowhere
<1> QED BY <1>8, <1>9 DEF IInv

\* IntSystem: the arguments lie where the function looks for them.
LEMMA IntSystemKeeps ==
    ASSUME IInv, IntSystem, UNCHANGED <<machine, faults>>
    PROVE  IInv'
<1>1. Types /\ ReportRight
  BY DEF IInv
<1>2. Op[1] = "int" /\ Kernel
  <2>1. Op[1] = "int"
    BY DEF IntSystem, At
  <2> QED BY <2>1, Kinds
<1>3. PICK k, f, c, gate : /\ k = cpu.ip[2] /\ f = Meant(k) /\ c = [cpu EXCEPT !.ip = Behind]
                           /\ gate = Idt[build][81 + 1]
  OBVIOUS
<1>4. /\ Fits(Op, k, processors) /\ k \in 1 .. Length[processors]
           /\ cpu.ip[1] = "kernel_entry"
      /\ Length[processors] \in Nat
  BY <1>1, <1>2, <1>3, AtKernel
<1>5. processors \in 1 .. 2 /\ build \in Builds /\ processors' = processors /\ build' = build
  BY <1>1 DEF Types, machine
<1>6. k \in {Calls[processors] + 1, Calls[processors] + 6} /\ k > 10
        /\ k + 1 \in 1 .. Length[processors]
  BY <1>2, <1>4 DEF Fits
<1>7. f \in {"memory_alloc", "memory_free"}
  BY <1>3 DEF Meant
<1>8. /\ cpu.flags = FALSE /\ cpu.sp = "kernel" /\ interrupted = <<>> /\ Programmed(pics)
      /\ Passed(f, cpu.regs, stack["kernel"])
  <2>1. k \notin Open[processors]
    BY <1>5, <1>6, OpenPlaces
  <2>2. cpu.flags \in BOOLEAN
    BY <1>1 DEF Types, IsState
  <2>3. Before(pics, 11)
    <3>1. Before(pics, IF k <= 10 THEN k ELSE 11)
      BY ONLY <1>2, <1>3, Zenon DEF Kernel
    <3>2. ~(k <= 10)
      BY ONLY <1>4, <1>6
    <3> QED BY ONLY <3>1, <3>2, Zenon
  <2> QED BY <1>2, <1>3, <1>6, <2>1, <2>2, <2>3, WrittenAll DEF Kernel, InKernel
<1>9. Behind = <<"kernel_entry", k + 1>>
  <2>1. PICK i : cpu.ip = i /\ i = <<"kernel_entry", k>>
    BY <1>1, <1>3, <1>4 DEF Types, IsState
  <2>2. PICK j : j = Behind
    OBVIOUS
  <2>3. j = <<"kernel_entry", k + 1>>
    BY ONLY <2>1, <2>2 DEF Behind
  <2> QED BY ONLY <2>2, <2>3
<1>10. InKernel(c) /\ c.ip = Behind /\ c.ip[2] = k + 1 /\ c.flags = FALSE
  <2>1. c.ip = Behind /\ c.flags = FALSE /\ c.sp = "kernel" /\ IsState(c)
    BY <1>1, <1>3, <1>8, <1>9, Elsewhere
  <2> QED BY <1>6, <1>9, <2>1 DEF InKernel
<1>11. Deliver(81, <<>>, Behind) /\ UNCHANGED <<pics, report>>
  BY DEF IntSystem, printing
<1>12. interrupted' = <<c>> /\ c \in ToSet(interrupted')
  <2>1. interrupted' = Append(interrupted, c)
    BY <1>3, <1>11 DEF Deliver
  <2>2. interrupted' = <<c>>
    BY ONLY <1>8, <2>1
  <2> QED BY ONLY <2>2 DEF ToSet
<1>13. ReportRight' /\ IsSeq(faults')
  BY <1>1, <1>11, SameReport DEF Types
<1>14. gate.valid /\ ~gate.masks /\ gate.stub = SYSTEM
         /\ gate.ist = IF build = "i386" THEN 0 ELSE 7
  <2>1. Reads(gate, build, 81)
    BY <1>3, <1>5, IdtRight
  <2> QED BY ONLY <2>1 DEF Reads
<1>15. PICK w : w = Pushed(<<>>, Behind)
  OBVIOUS
<1>16. /\ IsSeq(w) /\ w[1] = <<"ip", c.ip>> /\ w[2] = <<"cs">> /\ w[3] = <<"if", FALSE>>
       /\ build = "i386" => Len(w) = 3
       /\ build = "amd64" => Len(w) = 5 /\ w[4] = <<"sp", "kernel", Len(stack["kernel"])>>
  BY <1>1, <1>8, <1>10, <1>15, PushedIs DEF Frame
<1>17. pics' \in Controllers /\ 2 \notin pics'.master.irr /\ Programmed(pics')
  BY <1>1, <1>8, <1>11, SamePics
<1>18. IsSeq(Frame) /\ Frame = stack["kernel"]
         /\ cpu.regs = [r \in Registers[build] |-> cpu.regs[r]]
  BY <1>1, <1>8, FrameSeq DEF Frame, Types, IsState
<1>n. /\ Number("memory_alloc")[2] = 1 /\ Number("memory_free")[2] = 2
      /\ syscall_table[Number(f)[2] + 1] = f
  BY <1>7 DEF Number, syscall_table
<1>m. Meant(k)' = f /\ InKernel(c)'
  BY <1>3, <1>5, <1>10 DEF Meant, InKernel, IsState
<1>19. CASE gate.ist # 0 /\ ~tss
  <2>1. Lost
    BY <1>3, <1>11, <1>19 DEF Deliver
  <2> QED BY <1>1, <1>13, <1>17, <2>1, LostKeeps
<1>20. CASE ~(gate.ist # 0 /\ ~tss) /\ build = "amd64"
  <2>1. gate.ist = 7
    BY <1>14, <1>20
  <2>2. PICK regs, s : /\ s = <<cpu.regs["rbx"]>> \o (w \o <<>>)
                       /\ regs = [cpu.regs EXCEPT !["rbx"] =
                               <<"entry", syscall_table[cpu.regs["rdi"][2] + 1]>>]
    OBVIOUS
  <2>3. /\ stack' = [stack EXCEPT !["ist7"] = s]
        /\ cpu' = [ip |-> <<"isr_stub_system", 1>>, flags |-> FALSE, shadow |-> FALSE,
                   sp |-> "ist7", regs |-> regs]
    <3>1. tss_init[7] = "ist7"
      BY DEF tss_init
    <3>2. PICK e, x : /\ e = <<>> /\ x = "ist7" /\ s = <<cpu.regs["rbx"]>> \o (w \o e)
      BY ONLY <2>2
    <3>3. /\ stack' = [stack EXCEPT ![x] = s]
          /\ cpu' = [ip |-> <<"isr_stub_system", 1>>, flags |-> FALSE, shadow |-> FALSE,
                     sp |-> x, regs |-> regs]
      <4>1. PICK sp, words :
                /\ sp = IF gate.ist = 0 THEN cpu.sp ELSE tss_init[gate.ist]
                /\ words = Pushed(<<>>, Behind) \o IF gate.ist = 0 THEN Frame ELSE <<>>
        OBVIOUS
      <4>2. gate.ist # 0 /\ gate.stub = SYSTEM /\ gate.valid /\ tss
        BY ONLY <1>14, <1>20, <2>1
      <4>3. /\ stack' = [stack EXCEPT ![sp] = <<cpu.regs["rbx"]>> \o words]
            /\ cpu' = [ip |-> <<"isr_stub_system", 1>>, flags |-> FALSE, shadow |-> FALSE,
                       sp |-> sp, regs |-> [cpu.regs EXCEPT !["rbx"] =
                           <<"entry", syscall_table[cpu.regs["rdi"][2] + 1]>>]]
        BY ONLY <1>3, <1>8, <1>11, <1>20, <4>1, <4>2 DEF Deliver
      <4>4. sp = x
        BY ONLY <2>1, <3>1, <3>2, <4>1
      <4>5. words = w \o e
        BY ONLY <1>15, <2>1, <3>2, <4>1
      <4> QED BY ONLY <2>2, <3>2, <4>3, <4>4, <4>5
    <3> QED BY ONLY <3>2, <3>3
  <2>4. IsSeq(s) /\ Len(s) = 6 /\ s[2] = <<"ip", c.ip>> /\ s[4] = <<"if", FALSE>>
        /\ s[5] = <<"sp", "kernel", Len(stack["kernel"])>>
    <3>1. PICK e, a, v : e = <<>> /\ a = <<cpu.regs["rbx"]>> /\ v = w \o e
      OBVIOUS
    <3>2. IsSeq(e) /\ IsSeq(a) /\ Len(a) = 1 /\ Len(e) = 0
      BY <3>1, Tuples
    <3>3. IsSeq(w) /\ Len(w) = 5
      BY ONLY <1>16, <1>20
    <3>4. IsJoin(v, w, e)
      BY ONLY <3>1, <3>2, <3>3, Joins
    <3>5. IsSeq(v) /\ Len(v) = 5 /\ v[1] = w[1] /\ v[3] = w[3] /\ v[4] = w[4]
      BY ONLY <3>2, <3>3, <3>4 DEF IsJoin
    <3>6. IsJoin(s, a, v)
      <4>1. s = a \o v
        BY ONLY <2>2, <3>1
      <4> QED BY ONLY <3>2, <3>5, <4>1, Joins
    <3>7. IsSeq(s) /\ Len(s) = 6 /\ s[1 + 1] = v[1] /\ s[1 + 3] = v[3] /\ s[1 + 4] = v[4]
      BY ONLY <3>2, <3>5, <3>6 DEF IsJoin
    <3>8. s[2] = w[1] /\ s[4] = w[3] /\ s[5] = w[4]
      BY ONLY <3>5, <3>7
    <3> QED BY ONLY <1>16, <1>20, <3>7, <3>8, Zenon
  <2>5. /\ regs = [r \in Registers[build] |-> regs[r]]
        /\ regs["rbx"] = <<"entry", f>>
        /\ regs["rsi"] = cpu.regs["rsi"] /\ regs["rdx"] = cpu.regs["rdx"]
             /\ regs["rcx"] = cpu.regs["rcx"]
    <3>1. cpu.regs["rdi"] = Number(f)
      BY ONLY <1>8, <1>20 DEF Passed
    <3>2. PICK g, D, x : /\ g = cpu.regs /\ D = Registers[build] /\ x = <<"entry", f>>
                         /\ g = [r \in D |-> g[r]]
                              /\ {"rbx", "rcx", "rdx", "rsi", "rdi"} \subseteq D
      BY ONLY <1>18, <1>20, Named
    <3>3. regs = [g EXCEPT !["rbx"] = x]
      BY ONLY <1>n, <2>2, <3>1, <3>2
    <3> QED BY ONLY <3>2, <3>3
  <2>6. /\ IsState(cpu)' /\ cpu'.ip[1] = "isr_stub_system" /\ cpu'.ip[2] = 1
        /\ cpu'.flags = FALSE /\ cpu'.sp = "ist7" /\ cpu'.regs = regs
    <3>1. "ist7" \in Stacks
      BY DEF Stacks
    <3> QED BY <2>3, <2>5, <3>1, Placed
  <2>7. Types'
    <3>1. "ist7" \in Stacks
      BY DEF Stacks
    <3> QED BY <1>1, <1>17, <2>3, <2>4, <2>6, <3>1, SameTypes, StacksKept
  <2>8. Frame' = s /\ stack'["kernel"] = stack["kernel"]
    BY <1>1, <2>3, <2>6 DEF Frame, Types, Stacks
  <2>9. Arguments(f, cpu.regs, Frame)'
    BY ONLY <1>5, <1>8, <1>20, <2>5, <2>6 DEF Passed, Arguments
  <2>10. System(k, c)'
    <3>1. build' = "amd64" /\ cpu'.ip[2] # 2 /\ cpu'.ip[2] \in 1 .. 2
      BY ONLY <1>5, <1>20, <2>6
    <3>2. cpu'.regs["rbx"] = <<"entry", f>> /\ Arguments(f, cpu.regs, Frame)'
      BY ONLY <2>5, <2>6, <2>9
    <3>3. /\ Len(Frame') = 6 /\ Frame'[2] = <<"ip", c.ip>> /\ Frame'[4] = <<"if", FALSE>>
          /\ Frame'[5] = <<"sp", "kernel", Len(stack'["kernel"])>>
      BY ONLY <2>4, <2>8
    <3> QED BY ONLY <1>10, <1>12, <1>17, <1>m, <2>6, <3>1, <3>2, <3>3, Zenon DEF System
  <2>11. InSystem'
    BY ONLY <1>5, <1>6, <1>12, <2>10 DEF InSystem
  <2> QED BY <1>13, <2>7, <2>11 DEF IInv
<1>21. CASE build = "i386"
  <2>1. gate.ist = 0
    BY <1>14, <1>21
  <2>2. PICK regs, s, v : /\ v = w \o Frame
                          /\ s = <<cpu.regs["ebx"]>> \o Below(v, 4)
                          /\ regs = [cpu.regs EXCEPT !["ebx"] = <<"entry", syscall_table[v[4][2] + 1]>>]
    OBVIOUS
  <2>3. /\ stack' = [stack EXCEPT !["kernel"] = s]
        /\ iret' = SubSeq(v, 1, 3)
        /\ cpu' = [ip |-> <<"isr_stub_system", 1>>, flags |-> FALSE, shadow |-> FALSE,
                   sp |-> "kernel", regs |-> regs]
    BY <1>3, <1>8, <1>11, <1>14, <1>15, <1>21, <2>1, <2>2 DEF Deliver
  <2>4. PICK n, first : n = Len(Parameters(f)) /\ first = ArgsFrom(f)
    OBVIOUS
  <2>5. n \in {2, 3} /\ first = n
    BY ONLY <1>7, <2>4, ParametersAre DEF ArgsFrom
  <2>6. /\ Len(Frame) >= (first + n) - 1 /\ Number(f) = Frame[1]
        /\ \A i \in 1 .. n : Frame[(first + i) - 1] = Parameters(f)[i]
    BY ONLY <1>8, <1>18, <1>21, <2>4 DEF Passed, Arguments, ArgsFrom
  <2>7. /\ IsSeq(v) /\ Len(v) = 3 + Len(Frame) /\ Len(Frame) \in Nat
        /\ v[1] = w[1] /\ v[2] = w[2] /\ v[3] = w[3]
        /\ \A i \in 1 .. Len(Frame) : v[3 + i] = Frame[i]
    <3>1. Len(w) = 3
      BY ONLY <1>16, <1>21
    <3>2. IsJoin(v, w, Frame)
      BY ONLY <1>16, <1>18, <2>2, Joins
    <3> QED BY ONLY <1>18, <3>1, <3>2, SeqLength DEF IsJoin
  <2>8. v[4] = Number(f)
    <3>1. 1 \in 1 .. Len(Frame)
      BY ONLY <2>5, <2>6, <2>7
    <3>2. v[3 + 1] = Frame[1]
      BY ONLY <2>7, <3>1, Zenon
    <3> QED BY ONLY <2>6, <3>2
  <2>9. iret' = << <<"ip", c.ip>>, <<"cs">>, <<"if", FALSE>> >>
    <3>1. PICK p, q, r, m : p = <<"ip", c.ip>> /\ q = <<"cs">> /\ r = <<"if", FALSE>>
            /\ m = Len(Frame) /\ m \in Nat
      BY ONLY <2>7
    <3>2. Len(v) = 3 + m /\ v[1] = p /\ v[2] = q /\ v[3] = r
      BY ONLY <1>16, <2>7, <3>1
    <3>3. PICK S : v \in Seq(S)
      BY ONLY <2>7 DEF IsSeq
    <3>4. SubSeq(v, 1, 3) = <<p, q, r>>
      <4>1. PICK u : u = SubSeq(v, 1, 3)
        OBVIOUS
      <4>2. u = [i \in 1 .. 3 |-> v[i]]
        <5>1. 1 .. 3 \subseteq 1 .. Len(v)
          BY ONLY <3>1, <3>2
        <5> QED BY ONLY <3>2, <3>1, <3>3, <4>1, <5>1
      <4>3. u = <<p, q, r>>
        BY ONLY <3>2, <4>2
      <4> QED BY ONLY <4>1, <4>3
    <3> QED BY ONLY <2>3, <3>1, <3>4
  <2>10. PICK b : b = Below(v, 4)
    OBVIOUS
  <2>11. /\ IsSeq(b) /\ Len(b) = Len(Frame) - 1
         /\ \A i \in 1 .. (Len(Frame) - 1) : b[i] = v[4 + i]
    <3>1. 4 \in Nat /\ 4 <= Len(v) /\ Len(v) - 4 = Len(Frame) - 1
      BY ONLY <2>5, <2>6, <2>7
    <3>2. /\ IsSeq(b)
          /\ 4 <= Len(v) => /\ Len(b) = Len(v) - 4
                            /\ \A i \in 1 .. (Len(v) - 4) : b[i] = v[4 + i]
      BY ONLY <2>7, <2>10, <3>1, Dropped
    <3> QED BY ONLY <3>1, <3>2
  <2>12. /\ IsSeq(s) /\ Len(s) = Len(Frame)
         /\ \A i \in 1 .. (Len(Frame) - 1) : s[1 + i] = b[i]
    <3>1. PICK a : a = <<cpu.regs["ebx"]>>
      OBVIOUS
    <3>2. IsSeq(a) /\ Len(a) = 1
      BY <3>1, Tuples
    <3>3. IsJoin(s, a, b)
      <4>1. s = a \o b
        BY ONLY <2>2, <2>10, <3>1
      <4> QED BY ONLY <2>11, <3>2, <4>1, Joins
    <3> QED BY ONLY <2>7, <2>11, <3>2, <3>3 DEF IsJoin
  <2>13. ASSUME NEW i \in 1 .. n PROVE s[(first + i) - 1] = Parameters(f)[i]
    <3>1. PICK j : j = (first + i) - 2
      OBVIOUS
    <3>2. j \in 1 .. (Len(Frame) - 1) /\ 1 + j = (first + i) - 1
            /\ 4 + j = 3 + ((first + i) - 1)
          /\ (first + i) - 1 \in 1 .. Len(Frame)
      BY ONLY <2>5, <2>6, <2>7, <3>1, i \in 1 .. n
    <3>3. s[1 + j] = b[j] /\ b[j] = v[4 + j]
      BY ONLY <2>11, <2>12, <3>2, Zenon
    <3>4. v[3 + ((first + i) - 1)] = Frame[(first + i) - 1]
      BY ONLY <2>7, <3>2, Zenon
    <3>5. Frame[(first + i) - 1] = Parameters(f)[i]
      BY ONLY <2>6, i \in 1 .. n, Zenon
    <3> QED BY ONLY <3>2, <3>3, <3>4, <3>5
  <2>14. /\ regs = [r \in Registers[build] |-> regs[r]] /\ regs["ebx"] = <<"entry", f>>
    <3>1. PICK g, D, x : /\ g = cpu.regs /\ D = Registers[build] /\ x = <<"entry", f>>
                         /\ g = [r \in D |-> g[r]] /\ "ebx" \in D
      BY ONLY <1>18, <1>21, Named
    <3>2. regs = [g EXCEPT !["ebx"] = x]
      BY ONLY <1>n, <2>2, <2>8, <3>1
    <3> QED BY ONLY <3>1, <3>2
  <2>15. /\ IsState(cpu)' /\ cpu'.ip[1] = "isr_stub_system" /\ cpu'.ip[2] = 1
         /\ cpu'.flags = FALSE /\ cpu'.sp = "kernel" /\ cpu'.regs = regs
    <3>1. "kernel" \in Stacks
      BY DEF Stacks
    <3> QED BY <2>3, <2>14, <3>1, Placed
  <2>16. Types'
    <3>1. "kernel" \in Stacks
      BY DEF Stacks
    <3> QED BY <1>1, <1>17, <2>3, <2>12, <2>15, <3>1, SameTypes, StacksKept
  <2>17. Frame' = s
    BY <1>1, <2>3, <2>15 DEF Frame, Types, Stacks
  <2>18. Arguments(f, cpu.regs, Frame)'
    <3>1. Len(s) >= (first + n) - 1
      BY ONLY <2>6, <2>12
    <3> QED BY ONLY <1>5, <1>21, <2>4, <2>13, <2>17, <3>1 DEF Arguments, ArgsFrom
  <2>19. System(k, c)'
    BY ONLY <1>5, <1>10, <1>12, <1>17, <1>21, <1>m, <2>9, <2>14, <2>15, <2>17,
        <2>18 DEF System
  <2>20. InSystem'
    BY ONLY <1>5, <1>6, <1>12, <2>19 DEF InSystem
  <2> QED BY <1>13, <2>16, <2>20 DEF IInv
<1> QED BY <1>5, <1>19, <1>20, <1>21 DEF Builds

\* u is the n words of a stack from the m-th on.
IsSection(u, s, m, n) ==
    /\ IsSeq(s) /\ m \in Nat /\ n \in Nat /\ m >= 1 /\ (m + n) - 1 <= Len(s)
    /\ u = SubSeq(s, m, (m + n) - 1)

\* A part of a sequence.
LEMMA Section ==
    ASSUME NEW s, NEW m, NEW n, NEW u, IsSection(u, s, m, n)
    PROVE  IsSeq(u) /\ Len(u) = n /\ \A i \in 1 .. n : u[i] = s[(m + i) - 1]
<1> USE DEF IsSection
<1>1. PICK S : s \in Seq(S)
  BY DEF IsSeq
<1>2. u \in Seq(S)
  BY <1>1
<1>3. IsSeq(u)
  BY ONLY <1>2, SeqIn, Zenon
<1> QED BY <1>1, <1>3

\* A stack without its first word.
LEMMA Rest ==
    ASSUME NEW s, IsSeq(s), Len(s) > 0
    PROVE  IsSeq(Tail(s)) /\ Len(Tail(s)) = Len(s) - 1
             /\ \A i \in 1 .. Len(s) - 1 : Tail(s)[i] = s[i + 1]
<1>1. PICK S : s \in Seq(S)
  BY DEF IsSeq
<1>2. Tail(s) \in Seq(S)
  BY <1>1
<1>3. IsSeq(Tail(s))
  BY ONLY <1>2, SeqIn, Zenon
<1> QED BY <1>1, <1>3

\* CallFunction: the function gets what was passed.
LEMMA CallFunctionKeeps ==
    ASSUME IInv, CallFunction, UNCHANGED <<machine, faults>>
    PROVE  IInv'
<1>1. Types /\ ReportRight
  BY DEF IInv
<1>2. Op[1] = "call" /\ InSystem
  <2>1. Op[1] = "call"
    BY DEF CallFunction, At
  <2> QED BY <2>1, Kinds
<1>3. PICK k \in {Calls[processors] + 1, Calls[processors] + 6}, c \in ToSet(interrupted) :
          System(k, c)
  BY <1>2 DEF InSystem
<1>4. cpu.ip[2] = 1
  BY <1>1, <1>2, <1>3, AtSystem
<1>5. processors \in 1 .. 2 /\ build \in Builds /\ processors' = processors /\ build' = build
  BY <1>1 DEF Types, machine
<1>6. PICK f, n, first : f = Meant(k) /\ n = Len(Parameters(f)) /\ first = ArgsFrom(f)
  OBVIOUS
<1>7. f \in {"memory_alloc", "memory_free"}
  BY <1>6 DEF Meant
<1>8. n \in {2, 3} /\ first = n /\ (n = 3 <=> f = "memory_alloc") /\ IsSeq(Parameters(f))
  <2>1. IsSeq(Parameters(f)) /\ Len(Parameters(f)) = IF f = "memory_alloc" THEN 3 ELSE 2
    BY ONLY <1>7, ParametersAre
  <2>2. first = IF f = "memory_alloc" THEN 3 ELSE 2
    BY ONLY <1>6 DEF ArgsFrom
  <2> QED BY ONLY <1>6, <2>1, <2>2
<1>9. /\ cpu.regs[IF build = "amd64" THEN "rbx" ELSE "ebx"] = <<"entry", f>>
      /\ Arguments(f, cpu.regs, Frame)
  <2>1. /\ cpu.regs[IF build = "amd64" THEN "rbx" ELSE "ebx"] = <<"entry", Meant(k)>>
        /\ Arguments(Meant(k), cpu.regs, Frame)
    BY ONLY <1>3, <1>4, Zenon DEF System
  <2> QED BY ONLY <1>6, <2>1, Zenon
<1>10. PICK p, regs, s, l, from, ip :
           /\ called' = [function |-> f, parameters |-> p]
           /\ p = IF build = "amd64"
                  THEN [i \in 1 .. l |-> cpu.regs[<<"rsi", "rdx", "rcx">>[i]]]
                  ELSE SubSeq(Frame, from, (from + l) - 1)
           /\ l = n /\ (build = "i386" => from = first)
           /\ s = IF build = "i386" /\ f = "memory_alloc" THEN Tail(Frame) ELSE Frame
           /\ stack' = [stack EXCEPT ![cpu.sp] = s]
           /\ cpu' = [Ahead EXCEPT !.ip = ip, !.regs = regs]
           /\ ip \in {Behind, <<"memory_free", 1>>}
           /\ regs = [r \in Registers[build] |->
                         IF r \in Scratch[build] THEN <<"junk">> ELSE Ahead.regs[r]]
           /\ UNCHANGED <<iret, pics, tss, printing, interrupted>>
  <2>1. PICK function, hidden, from, m :
            /\ function = cpu.regs[IF build = "amd64" THEN "rbx" ELSE "ebx"][2]
            /\ hidden \in BOOLEAN /\ (hidden <=> build = "i386" /\ function = "memory_alloc")
            /\ from = IF hidden THEN 3 ELSE 2
            /\ m = Len(Parameters(function))
    <3>1. PICK hidden \in BOOLEAN : hidden <=> build = "i386" /\ f = "memory_alloc"
      OBVIOUS
    <3>2. cpu.regs[IF build = "amd64" THEN "rbx" ELSE "ebx"][2] = f
      BY ONLY <1>9
    <3> QED BY ONLY <3>1, <3>2
  <2>2. function = f /\ m = n
    BY ONLY <1>6, <1>9, <2>1
  <2>3. PICK p, s, l :
            /\ called' = [function |-> f, parameters |-> p]
            /\ p = IF build = "amd64"
                   THEN [i \in 1 .. l |-> cpu.regs[<<"rsi", "rdx", "rcx">>[i]]]
                   ELSE SubSeq(Frame, from, (from + l) - 1)
            /\ l = n
            /\ s = IF hidden THEN Tail(Frame) ELSE Frame
            /\ stack' = [stack EXCEPT ![cpu.sp] = s]
    <3> DEFINE fn == cpu.regs[IF build = "amd64" THEN "rbx" ELSE "ebx"][2]
               h == build = "i386" /\ fn = "memory_alloc"
               fr == IF h THEN 3 ELSE 2
               x == LET l == Len(Parameters(fn))
                    IN  IF build = "amd64"
                        THEN [i \in 1 .. l |-> cpu.regs[<<"rsi", "rdx", "rcx">>[i]]]
                        ELSE SubSeq(Frame, fr, fr + l - 1)
               y == IF h THEN Tail(Frame) ELSE Frame
    <3>a. called' = [function |-> fn, parameters |-> x]
      BY ONLY CallFunction, Zenon DEF CallFunction
    <3>b. stack' = [stack EXCEPT ![cpu.sp] = IF h THEN Tail(@) ELSE @]
      BY ONLY CallFunction, Zenon DEF CallFunction
    <3>2. fn = f /\ fr = from /\ (h <=> hidden) /\ y = IF hidden THEN Tail(Frame) ELSE Frame
      BY ONLY <2>1, <2>2 DEF fn, fr, h, y
    <3>3. PICK l : l = Len(Parameters(fn))
      OBVIOUS
    <3>5. l = n
      BY ONLY <1>6, <3>2, <3>3
    <3>6. x = IF build = "amd64"
              THEN [i \in 1 .. l |-> cpu.regs[<<"rsi", "rdx", "rcx">>[i]]]
              ELSE SubSeq(Frame, fr, (fr + l) - 1)
      BY ONLY <3>3 DEF x
    <3>4. stack' = [stack EXCEPT ![cpu.sp] = y]
      BY ONLY <3>b DEF Frame, y
    <3> HIDE DEF x, y, fr, h, fn
    <3> QED BY ONLY <3>a, <3>2, <3>4, <3>5, <3>6
  <2>4. PICK regs, ip : /\ cpu' = [Ahead EXCEPT !.ip = ip, !.regs = regs]
                        /\ ip \in {Behind, <<"memory_free", 1>>}
                        /\ regs = [r \in Registers[build] |->
                                  IF r \in Scratch[build] THEN <<"junk">> ELSE Ahead.regs[r]]
    BY ONLY CallFunction DEF CallFunction
  <2>5. build = "i386" => from = first
    BY ONLY <1>6, <1>7, <2>1, <2>2 DEF ArgsFrom
  <2>6. UNCHANGED <<iret, pics, tss, printing, interrupted>>
    BY DEF CallFunction
  <2> QED BY ONLY <1>5, <2>1, <2>2, <2>3, <2>4, <2>5, <2>6 DEF Builds
<1>11. IsSeq(Frame) /\ cpu.sp \in Stacks
  BY <1>1, FrameSeq
<1>12. p = Parameters(f)
  <2>1. CASE build = "amd64"
    <3>1. /\ cpu.regs["rsi"] = Parameters(f)[1] /\ cpu.regs["rdx"] = Parameters(f)[2]
          /\ n = 3 => cpu.regs["rcx"] = Parameters(f)[3]
      BY ONLY <1>8, <1>9, <2>1 DEF Arguments
    <3>2. p = [i \in 1 .. l |-> cpu.regs[<<"rsi", "rdx", "rcx">>[i]]] /\ n \in Nat /\ l = n
      BY ONLY <1>8, <1>10, <2>1
    <3>3. ASSUME NEW i \in 1 .. n PROVE p[i] = Parameters(f)[i]
      <4>1. p[i] = cpu.regs[<<"rsi", "rdx", "rcx">>[i]]
        BY ONLY <3>2, i \in 1 .. n
      <4>2. i = 1 \/ i = 2 \/ (i = 3 /\ n = 3)
        BY ONLY <1>8, i \in 1 .. n
      <4>3. << "rsi", "rdx", "rcx">>[1] = "rsi" /\ << "rsi", "rdx", "rcx">>[2] = "rdx"
              /\ << "rsi", "rdx", "rcx">>[3] = "rcx"
        OBVIOUS
      <4> QED BY ONLY <3>1, <4>1, <4>2, <4>3
    <3>4. p = [i \in 1 .. l |-> p[i]]
      BY ONLY <3>2
    <3>5. IsSeq(p) /\ Len(p) = n
      BY ONLY <3>2, <3>4, Listed
    <3> QED BY ONLY <1>6, <1>8, <3>3, <3>5, SeqSame
  <2>2. CASE build = "i386"
    <3>1. /\ Len(Frame) >= (first + n) - 1
          /\ \A i \in 1 .. n : Frame[(first + i) - 1] = Parameters(f)[i]
      BY ONLY <1>6, <1>9, <2>2 DEF Arguments, ArgsFrom
    <3>2. p = SubSeq(Frame, from, (from + l) - 1) /\ l = n /\ from = first
            /\ first \in Nat /\ n \in Nat /\ first >= 1
      BY ONLY <1>8, <1>10, <2>2
    <3>3. Len(Frame) \in Nat
      BY ONLY <1>11, SeqLength
    <3>4. IsSeq(p) /\ Len(p) = n /\ \A i \in 1 .. n : p[i] = Frame[(first + i) - 1]
      <4>1. (first + n) - 1 <= Len(Frame)
        BY ONLY <3>1, <3>2, <3>3
      <4>2. PICK w : w = Frame
        OBVIOUS
      <4>3. IsSeq(w) /\ (first + n) - 1 <= Len(w) /\ p = SubSeq(w, first, (first + n) - 1)
        BY ONLY <1>11, <3>2, <4>1, <4>2
      <4>4. IsSeq(p) /\ Len(p) = n /\ \A i \in 1 .. n : p[i] = w[(first + i) - 1]
        <5>1. IsSection(p, w, first, n)
          BY ONLY <3>2, <4>3 DEF IsSection
        <5> QED BY ONLY <5>1, Section
      <4> QED BY ONLY <4>2, <4>4
    <3> QED BY ONLY <1>6, <1>8, <3>1, <3>4, SeqSame
  <2> QED BY <1>5, <2>1, <2>2 DEF Builds
<1>13. regs = [r \in Registers[build] |-> regs[r]]
  BY ONLY <1>10
<1>14. IsSeq(s) /\ (build = "amd64" => s = Frame)
  <2>1. CASE build = "i386" /\ f = "memory_alloc"
    <3>1. Len(Frame) >= (first + n) - 1 /\ Len(Frame) \in Nat
      BY ONLY <1>6, <1>9, <1>11, <2>1, SeqLength DEF Arguments, ArgsFrom
    <3>2. Len(Frame) > 0
      BY ONLY <1>8, <3>1
    <3> QED BY ONLY <1>10, <1>11, <2>1, <3>2, Rest
  <2>2. CASE ~(build = "i386" /\ f = "memory_alloc")
    BY ONLY <1>10, <1>11, <2>2
  <2> QED BY ONLY <1>10, <2>1, <2>2
<1>15. PICK sp : sp = cpu.sp /\ sp \in Stacks
  BY ONLY <1>11
<1>16. cpu' = [ip |-> ip, flags |-> FALSE, shadow |-> FALSE, sp |-> sp, regs |-> regs]
         /\ Behind = <<"isr_stub_system", 2>>
  <2>1. Ahead = [ip |-> <<cpu.ip[1], cpu.ip[2] + 1>>, flags |-> cpu.flags, shadow |-> FALSE,
                 sp |-> cpu.sp, regs |-> cpu.regs]
    BY <1>1, AheadIs
  <2>2. PICK i, g, fl : i = <<cpu.ip[1], cpu.ip[2] + 1>> /\ g = cpu.regs /\ fl = cpu.flags
    OBVIOUS
  <2>3. Ahead = [ip |-> i, flags |-> fl, shadow |-> FALSE, sp |-> sp, regs |-> g]
    BY ONLY <1>15, <2>1, <2>2
  <2>4. cpu' = [ip |-> ip, flags |-> fl, shadow |-> FALSE, sp |-> sp, regs |-> regs]
    BY ONLY <1>10, <2>3
  <2>5. fl = FALSE /\ cpu.ip[1] = "isr_stub_system"
    BY ONLY <1>3, <2>2 DEF System
  <2>6. cpu.ip = <<cpu.ip[1], cpu.ip[2]>>
    BY <1>1 DEF Types, IsState
  <2>7. PICK x, y, z : cpu.ip = z /\ z = <<x, y>> /\ x = "isr_stub_system" /\ y = 1
    BY ONLY <1>4, <2>5, <2>6
  <2>8. Behind = <<"isr_stub_system", 2>>
    BY ONLY <2>7 DEF Behind
  <2> QED BY ONLY <2>4, <2>5, <2>8
<1>17. UNCHANGED <<pics, interrupted, report, iret>>
  BY ONLY <1>10 DEF printing
<1>18. /\ IsState(cpu)' /\ cpu'.ip = ip /\ cpu'.flags = FALSE /\ cpu'.sp = cpu.sp
       /\ cpu'.regs = regs
  <2>1. PICK a, m : ip = <<a, m>>
    BY ONLY <1>10, <1>16
  <2>2. cpu' = [ip |-> <<a, m>>, flags |-> FALSE, shadow |-> FALSE, sp |-> sp, regs |-> regs]
    BY ONLY <1>16, <2>1
  <2> QED BY ONLY <1>13, <1>15, <2>1, <2>2, UNCHANGED machine, Placed
<1>23. Types'
  BY <1>1, <1>10, <1>11, <1>14, <1>17, <1>18, StacksKept, SameTypes, SamePics
<1>24. CASE ip = <<"memory_free", 1>>
  <2>1. Refusing'
    BY ONLY <1>18, <1>24 DEF Refusing
  <2> QED BY <1>1, <1>17, <1>23, <2>1, SameReport DEF IInv
<1>25. CASE ip = Behind
  <2>1. cpu'.ip[1] = "isr_stub_system" /\ cpu'.ip[2] = 2 /\ cpu'.flags = FALSE
          /\ cpu'.sp = cpu.sp /\ cpu'.regs = regs
    BY ONLY <1>16, <1>18, <1>25
  <2>4. build = "amd64" => stack' = stack
    <3>1. stack = [t \in Stacks |-> stack[t]]
      BY <1>1 DEF Types
    <3> QED BY ONLY <1>10, <1>14, <3>1 DEF Frame
  <2>5. Meant(k)' = f /\ InKernel(c)'
    <3>1. InKernel(c)
      BY <1>3 DEF System
    <3> QED BY <1>5, <1>6, <3>1 DEF Meant, InKernel, IsState
  <2>6. System(k, c)'
    <3>1. /\ interrupted' = <<c>> /\ c.ip[2] = k + 1 /\ c.flags = FALSE
          /\ cpu'.ip[2] # 1 /\ cpu'.ip[2] \in 1 .. 2 /\ Programmed(pics')
      BY ONLY <1>3, <2>1, <1>17 DEF System
    <3>2. called' = [function |-> f, parameters |-> Parameters(f)]
      BY ONLY <1>10, <1>12
    <3>3. CASE build = "amd64"
      <4>1. Frame' = Frame /\ stack' = stack
        BY ONLY <2>1, <2>4, <3>3 DEF Frame
      <4>2. /\ Len(Frame) = 6 /\ Frame[2] = <<"ip", c.ip>> /\ Frame[4] = <<"if", FALSE>>
            /\ Frame[5] = <<"sp", "kernel", Len(stack["kernel"])>>
        BY ONLY <1>3, <3>3 DEF System
      <4>3. /\ Len(Frame') = 6 /\ Frame'[2] = <<"ip", c.ip>> /\ Frame'[4] = <<"if", FALSE>>
            /\ Frame'[5] = <<"sp", "kernel", Len(stack'["kernel"])>>
        BY ONLY <4>1, <4>2
      <4>4. build' = "amd64"
        BY ONLY <1>5, <3>3
      <4> QED BY ONLY <2>1, <2>5, <3>1, <3>2, <4>3, <4>4, Zenon DEF System
    <3>4. CASE build = "i386"
      <4>1. cpu.sp = "kernel" /\ iret = << <<"ip", c.ip>>, <<"cs">>, <<"if", FALSE>> >>
        BY ONLY <1>3, <3>4 DEF System
      <4>2. cpu'.sp = "kernel" /\ iret' = << <<"ip", c.ip>>, <<"cs">>, <<"if", FALSE>> >>
        BY ONLY <2>1, <1>17, <4>1
      <4>3. build' # "amd64"
        BY ONLY <1>5, <3>4
      <4> QED BY ONLY <2>1, <2>5, <3>1, <3>2, <4>2, <4>3, Zenon DEF System
    <3> QED BY <1>5, <3>3, <3>4 DEF Builds
  <2>7. InSystem'
    <3>1. c \in ToSet(interrupted') /\ k \in {Calls[processors'] + 1, Calls[processors'] + 6}
      BY ONLY <1>3, <1>5, <1>17
    <3> QED BY ONLY <2>6, <3>1 DEF InSystem
  <2> QED BY <1>1, <1>17, <1>23, <2>7, SameReport DEF IInv
<1> QED BY ONLY <1>10, <1>24, <1>25

-----------------------------------------------------------------------------
(* Returning.                                                              *)

\* The words iret is to find, to go on at c.
Left(words, c) ==
    /\ words[1] = <<"ip", c.ip>> /\ words[3] = <<"if", c.flags>>
    /\ build = "amd64" => words[4] = <<"sp", "kernel", Len(stack["kernel"])>>
    /\ build = "i386" => cpu.sp = "kernel" /\ IsSeq(words)

\* What iret does with them.
LEMMA IretIs ==
    ASSUME Types, NEW words, NEW regs, NEW c, Iret(words, regs), Left(words, c),
           interrupted = <<c>>
    PROVE  /\ cpu' = [ip |-> c.ip, flags |-> c.flags, shadow |-> FALSE, sp |-> "kernel",
                      regs |-> regs]
           /\ interrupted' = <<>>
           /\ stack' = [s \in Stacks |-> stack'[s]] /\ \A s \in Stacks : IsSeq(stack'[s])
<1>1. build \in Builds /\ "kernel" \in Stacks
  BY DEF Types, Stacks
<1>2. interrupted' = <<>>
  <2>1. interrupted' = Front(interrupted)
    BY DEF Iret
  <2> QED BY ONLY <2>1, interrupted = <<c>> DEF Front
<1>3. words[1][2] = c.ip /\ words[3][2] = c.flags
  BY DEF Left
<1>4. CASE build = "amd64"
  <2>1. PICK n : n = Len(stack["kernel"])
    OBVIOUS
  <2>2. words[4][2] = "kernel" /\ words[4][3] = n
    BY <1>4, <2>1 DEF Left
  <2>3. cpu' = [ip |-> c.ip, flags |-> c.flags, shadow |-> FALSE, sp |-> "kernel",
                regs |-> regs]
    BY <1>3, <1>4, <2>2 DEF Iret
  <2>4. stack' = [stack EXCEPT !["kernel"] = Below(@, Len(@) - n)]
    BY <1>4, <2>2 DEF Iret
  <2>5. PICK k : k = stack["kernel"]
    OBVIOUS
  <2>6. IsSeq(k) /\ n = Len(k)
    BY <1>1, <2>1, <2>5 DEF Types
  <2>7. n - n \in Nat
    BY ONLY <2>6, SeqLength
  <2>8. IsSeq(Below(k, n - n))
    BY ONLY <2>6, <2>7, Dropped
  <2>9. stack' = [stack EXCEPT !["kernel"] = Below(k, n - n)]
    BY ONLY <2>4, <2>5, <2>6
  <2> QED BY <1>1, <1>2, <2>3, <2>8, <2>9, StacksKept
<1>5. CASE build = "i386"
  <2>1. cpu.sp = "kernel" /\ IsSeq(words)
    BY <1>5 DEF Left
  <2>2. cpu' = [ip |-> c.ip, flags |-> c.flags, shadow |-> FALSE, sp |-> "kernel",
                regs |-> regs]
    BY <1>3, <1>5, <2>1 DEF Iret
  <2>3. IsSeq(Below(words, 3))
    BY <2>1, Dropped
  <2>4. stack' = [stack EXCEPT !["kernel"] = Below(words, 3)]
    BY <1>5, <2>1 DEF Iret
  <2> QED BY <1>1, <1>2, <2>2, <2>3, <2>4, StacksKept
<1> QED BY <1>1, <1>4, <1>5 DEF Builds

\* The kernel goes on at c.
LEMMA KernelResumes ==
    ASSUME IInv, NEW words, NEW regs, NEW c, Iret(words, regs), Left(words, c), InKernel(c),
           interrupted = <<c>>, Programmed(pics),
           c.ip[2] > 10, c.ip[2] \notin {Calls[processors] + 1, Calls[processors] + 6},
           regs = [r \in Registers[build] |-> regs[r]],
           UNCHANGED <<machine, faults, pics, report>>
    PROVE  /\ IInv'
           /\ cpu' = [ip |-> c.ip, flags |-> c.flags, shadow |-> FALSE, sp |-> "kernel",
                      regs |-> regs]
<1>1. Types /\ ReportRight
  BY DEF IInv
<1>2. PICK k, fl : k = c.ip[2] /\ fl = c.flags
  OBVIOUS
<1>3. c.ip = <<"kernel_entry", k>> /\ fl \in BOOLEAN /\ (fl => k \in Open[processors])
      /\ k \in 1 .. Length[processors]
  BY <1>2 DEF InKernel, IsState
<1>4. cpu' = [ip |-> c.ip, flags |-> c.flags, shadow |-> FALSE, sp |-> "kernel",
              regs |-> regs]
      /\ interrupted' = <<>>
      /\ stack' = [s \in Stacks |-> stack'[s]] /\ \A s \in Stacks : IsSeq(stack'[s])
  BY <1>1, IretIs
<1>5. cpu' = [ip |-> <<"kernel_entry", k>>, flags |-> fl, shadow |-> FALSE, sp |-> "kernel",
              regs |-> regs]
  BY ONLY <1>2, <1>3, <1>4
<1>6. "kernel" \in Stacks
  BY DEF Stacks
<1>7. /\ IsState(cpu)' /\ cpu'.ip[1] = "kernel_entry" /\ cpu'.ip[2] = k
      /\ cpu'.flags = fl /\ cpu'.sp = "kernel"
  BY <1>3, <1>5, <1>6, Placed
<1>8. processors' = processors /\ pics' = pics /\ processors \in 1 .. 2
  BY <1>1 DEF machine, Types
<1>9. Types'
  BY <1>1, <1>4, <1>7, SameTypes, SamePics
<1>10. InKernel(cpu)'
  BY ONLY <1>3, <1>7, <1>8 DEF InKernel
<1>11. Before(pics, 11)
  BY WrittenAll
<1>12. Kernel'
  <2>1. ~(k <= 10)
    BY ONLY <1>2, <1>3, c.ip[2] > 10
  <2>2. k \notin {Calls[processors] + 1, Calls[processors] + 6}
    BY <1>2
  <2> QED BY ONLY <1>4, <1>7, <1>8, <1>10, <1>11, <2>1, <2>2 DEF Kernel
<1> QED BY <1>1, <1>4, <1>9, <1>12, SameReport DEF IInv

\* ReturnSystem: the kernel goes on behind int $81.
LEMMA ReturnSystemKeeps ==
    ASSUME IInv, ReturnSystem, UNCHANGED <<machine, faults>>
    PROVE  IInv'
<1>1. Types /\ ReportRight
  BY DEF IInv
<1>2. Op[1] = "iret" /\ InSystem
  <2>1. Op[1] = "iret"
    BY DEF ReturnSystem, At
  <2> QED BY <2>1, Kinds
<1>3. PICK k \in {Calls[processors] + 1, Calls[processors] + 6}, c \in ToSet(interrupted) :
          System(k, c)
  BY <1>2 DEF InSystem
<1>4. /\ interrupted = <<c>> /\ InKernel(c) /\ c.ip[2] = k + 1 /\ c.flags = FALSE
      /\ Programmed(pics)
  BY ONLY <1>3 DEF System
<1>5. processors \in 1 .. 2 /\ build \in Builds
  BY <1>1 DEF Types
<1>6. c.ip[2] > 10 /\ c.ip[2] \notin {Calls[processors] + 1, Calls[processors] + 6}
  BY ONLY <1>3, <1>4, <1>5 DEF Calls
<1>7. UNCHANGED <<iret, pics, report>>
  BY DEF ReturnSystem, printing
<1>8. cpu.regs = [r \in Registers[build] |-> cpu.regs[r]] /\ IsSeq(Frame)
  BY <1>1, FrameSeq DEF Types, IsState
<1>9. CASE build = "amd64"
  <2>1. PICK words, regs : /\ words = Tail(Frame)
                           /\ regs = [cpu.regs EXCEPT !["rbx"] = Frame[1]]
    OBVIOUS
  <2>2. Iret(words, regs)
    BY <1>9, <2>1 DEF ReturnSystem
  <2>3. /\ Len(Frame) = 6 /\ Frame[2] = <<"ip", c.ip>> /\ Frame[4] = <<"if", FALSE>>
        /\ Frame[5] = <<"sp", "kernel", Len(stack["kernel"])>>
    BY ONLY <1>3, <1>9 DEF System
  <2>4. words[1] = Frame[1 + 1] /\ words[3] = Frame[3 + 1] /\ words[4] = Frame[4 + 1]
    <3>1. \A i \in 1 .. Len(Frame) - 1 : Tail(Frame)[i] = Frame[i + 1]
      <4>1. PICK s : s = Frame
        OBVIOUS
      <4>2. IsSeq(s) /\ Len(s) > 0
        <5>1. IsSeq(Frame) /\ Len(Frame) = 6
          BY ONLY <1>8, <2>3, Zenon
        <5>2. IsSeq(s) /\ Len(s) = 6
          BY ONLY <4>1, <5>1, Zenon
        <5> QED BY ONLY <5>2
      <4>3. \A i \in 1 .. Len(s) - 1 : Tail(s)[i] = s[i + 1]
        BY ONLY <4>2, Rest
      <4> QED BY ONLY <4>1, <4>3
    <3>2. 1 \in 1 .. Len(Frame) - 1 /\ 3 \in 1 .. Len(Frame) - 1 /\ 4 \in 1 .. Len(Frame) - 1
      BY ONLY <2>3
    <3> QED BY ONLY <2>1, <3>1, <3>2, Zenon
  <2>5. words[1] = Frame[2] /\ words[3] = Frame[4] /\ words[4] = Frame[5]
    BY ONLY <2>4
  <2>6. Left(words, c)
    <3>1. build # "i386"
      BY <1>9
    <3> QED BY ONLY <1>4, <2>3, <2>5, <3>1, Zenon DEF Left
  <2>7. regs = [r \in Registers[build] |-> regs[r]]
    BY ONLY <1>8, <2>1
  <2> QED BY <1>4, <1>6, <1>7, <2>2, <2>6, <2>7, KernelResumes
<1>10. CASE build = "i386"
  <2>1. PICK words, regs : /\ words = iret \o Frame
                           /\ regs = [cpu.regs EXCEPT !["ebx"] = Frame[1]]
    OBVIOUS
  <2>2. Iret(words, regs)
    BY <1>10, <2>1 DEF ReturnSystem
  <2>3. cpu.sp = "kernel" /\ iret = << <<"ip", c.ip>>, <<"cs">>, <<"if", FALSE>> >>
    BY ONLY <1>3, <1>10 DEF System
  <2>4. PICK p, q, r : p = <<"ip", c.ip>> /\ q = <<"cs">> /\ r = <<"if", FALSE>>
    OBVIOUS
  <2>5. iret = <<p, q, r>>
    BY ONLY <2>3, <2>4
  <2>6. IsSeq(iret) /\ Len(iret) = 3 /\ iret[1] = p /\ iret[3] = r
    BY ONLY <2>5, Tuples
  <2>7. IsJoin(words, iret, Frame)
    BY ONLY <1>8, <2>1, <2>6, Joins
  <2>8. IsSeq(words) /\ words[1] = p /\ words[3] = r
    BY ONLY <2>6, <2>7 DEF IsJoin
  <2>9. Left(words, c)
    <3>1. build # "amd64"
      BY <1>10
    <3> QED BY ONLY <1>4, <2>3, <2>4, <2>8, <3>1, Zenon DEF Left
  <2>10. regs = [x \in Registers[build] |-> regs[x]]
    BY ONLY <1>8, <2>1
  <2> QED BY <1>4, <1>6, <1>7, <2>2, <2>9, <2>10, KernelResumes
<1> QED BY <1>5, <1>9, <1>10 DEF Builds

\* isr_stub_common pops the registers from where it has pushed them.
LEMMA PopsMatch ==
    ASSUME NEW arch \in Builds, NEW u, u = Segments \o Restored(arch)
    PROVE  /\ Len(u) = Depth[arch] /\ DOMAIN u = 1 .. Depth[arch]
           /\ \A i \in 1 .. Depth[arch] : u[i] = Places[arch][i]
<1>1. PICK a, b, n : a = Segments /\ b = Restored(arch) /\ n = Depth[arch] - 4
  OBVIOUS
<1>2. n \in Nat /\ Depth[arch] = n + 4 /\ n \in {15, 7}
  BY <1>1, SavedPlaces
<1>3. a = [i \in 1 .. 4 |-> a[i]] /\ \A i \in 1 .. 4 : a[i] = Places[arch][i]
  <2>1. a = [i \in 1 .. 4 |-> a[i]]
    BY <1>1 DEF Segments
  <2> QED BY <1>1, <2>1, SavedPlaces
<1>4. b = [i \in 1 .. n |-> b[i]] /\ \A i \in 1 .. n : b[i] = Places[arch][4 + i]
  <2>1. CASE arch = "amd64"
    <3>1. n = 15
      BY <1>1, <2>1 DEF Depth
    <3>2. b = [i \in 1 .. 15 |-> b[i]]
      BY <1>1, <2>1 DEF Restored
    <3>3. PICK p : p = Places[arch]
      OBVIOUS
    <3>4. /\ b[1] = p[5] /\ b[2] = p[6] /\ b[3] = p[7] /\ b[4] = p[8] /\ b[5] = p[9]
          /\ b[6] = p[10] /\ b[7] = p[11] /\ b[8] = p[12] /\ b[9] = p[13] /\ b[10] = p[14]
          /\ b[11] = p[15] /\ b[12] = p[16] /\ b[13] = p[17] /\ b[14] = p[18]
          /\ b[15] = p[19]
      BY <1>1, <2>1, <3>3 DEF Restored, Places
    <3>5. \A i \in 1 .. 15 : b[i] = p[4 + i]
      BY ONLY <3>4
    <3> QED BY ONLY <3>1, <3>2, <3>3, <3>5
  <2>2. CASE arch = "i386"
    BY <1>1, <2>2 DEF Restored, Places, Depth
  <2> QED BY <2>1, <2>2 DEF Builds
<1>5. IsSeq(a) /\ Len(a) = 4 /\ IsSeq(b) /\ Len(b) = n
  <2>1. 4 \in Nat
    OBVIOUS
  <2> QED BY ONLY <1>2, <1>3, <1>4, <2>1, Listed
<1>6. IsJoin(u, a, b)
  <2>1. u = a \o b
    BY ONLY <1>1, u = Segments \o Restored(arch)
  <2> QED BY ONLY <1>5, <2>1, Joins
<1>7. /\ IsSeq(u) /\ Len(u) = 4 + n
      /\ \A i \in 1 .. 4 : u[i] = a[i]
      /\ \A i \in 1 .. n : u[4 + i] = b[i]
  BY ONLY <1>5, <1>6 DEF IsJoin
<1>8. ASSUME NEW i \in 1 .. Depth[arch] PROVE u[i] = Places[arch][i]
  <2>1. CASE i \in 1 .. 4
    BY <1>3, <1>7, <2>1
  <2>2. CASE i > 4
    <3>1. PICK k : k \in 1 .. n /\ i = 4 + k
      <4>1. i - 4 \in 1 .. n /\ i = 4 + (i - 4)
        BY ONLY <1>2, <2>2, i \in 1 .. Depth[arch]
      <4> QED BY <4>1
    <3>2. u[4 + k] = b[k] /\ b[k] = Places[arch][4 + k]
      BY ONLY <1>4, <1>7, <3>1, Zenon
    <3> QED BY ONLY <3>1, <3>2
  <2>3. i \in 1 .. 4 \/ i > 4
    BY ONLY <1>2, i \in 1 .. Depth[arch]
  <2> QED BY ONLY <2>1, <2>2, <2>3
<1>9. DOMAIN u = 1 .. Len(u)
  BY ONLY <1>7, SeqLength
<1> QED BY <1>2, <1>7, <1>8, <1>9

\* Return: every register, the flags and the stack are as they were.
LEMMA ReturnResumes ==
    ASSUME IInv, Return, UNCHANGED <<machine, faults>>
    PROVE  IInv' /\ Len(interrupted) = 1 /\ cpu' = Last(interrupted)
<1>1. Types /\ ReportRight
  BY DEF IInv
<1>2. Op[1] = "return" /\ InServing
  <2>1. Op[1] = "return"
    BY DEF Return, At
  <2> QED BY <2>1, Kinds
<1>3. PICK v \in 32 .. 47, c \in ToSet(interrupted) : Serving(v, c)
  BY <1>2 DEF InServing
<1>4. /\ interrupted = <<c>> /\ InKernel(c) /\ c.ip[2] \in Open[processors]
           /\ c.shadow = FALSE
      /\ Programmed(pics) /\ (build = "i386" => cpu.sp = "kernel")
      /\ Dump(Frame, v, <<"num", 0>>, c, Len(stack["kernel"]))
  <2>1. c.shadow \in BOOLEAN
    BY ONLY <1>3 DEF Serving, InKernel, IsState
  <2> QED BY ONLY <1>3, <2>1 DEF Serving
<1>5. processors \in 1 .. 2 /\ build \in Builds
  BY <1>1 DEF Types
<1>6. c.ip[2] > 10 /\ c.ip[2] \notin {Calls[processors] + 1, Calls[processors] + 6}
  <2>1. PICK k : k = c.ip[2]
    OBVIOUS
  <2>2. k \in Open[processors]
    BY ONLY <1>4, <2>1
  <2>3. k \in 11 .. Length[processors]
          /\ k \notin {Calls[processors] + 1, Calls[processors] + 6}
    BY ONLY <1>5, <2>2, OpenPlaces
  <2> QED BY ONLY <2>1, <2>3
<1>7. UNCHANGED <<iret, pics, report>>
  BY DEF Return, printing
<1>8. PICK u, d, f : u = Segments \o Restored(build) /\ d = Depth[build] /\ f = Frame
  OBVIOUS
<1>9. d \in {19, 11} /\ d \in Nat
  BY <1>5, <1>8, SavedPlaces
<1>10. /\ Len(u) = d /\ DOMAIN u = 1 .. d
       /\ \A i \in 1 .. d : u[i] = Places[build][i]
  BY ONLY <1>5, <1>8, PopsMatch
<1>11. PICK words, regs : /\ words = Below(f, d + 2)
                          /\ regs = [r \in Registers[build] |-> f[CHOOSE i \in DOMAIN u : u[i] = r]]
  OBVIOUS
<1>12. Iret(words, regs)
  <2>1. isr_stub_return(build, Frame) = [regs |-> regs, stack |-> words]
    BY ONLY <1>8, <1>10, <1>11 DEF isr_stub_return
  <2>2. Iret(isr_stub_return(build, Frame).stack, isr_stub_return(build, Frame).regs)
    BY ONLY Return DEF Return
  <2> QED BY ONLY <2>1, <2>2
<1>13. /\ IsSeq(f) /\ Len(f) >= d + IF build = "amd64" THEN 7 ELSE 5
       /\ \A i \in 1 .. d : f[i] = c.regs[Places[build][i]]
       /\ f[d + 3] = <<"ip", c.ip>> /\ f[d + 5] = <<"if", c.flags>>
       /\ build = "amd64" => f[d + 6] = <<"sp", c.sp, Len(stack["kernel"])>>
  BY ONLY <1>4, <1>8 DEF Dump
<1>14. c.sp = "kernel" /\ c.regs = [r \in Registers[build] |-> c.regs[r]]
       /\ c = [ip |-> c.ip, flags |-> c.flags, shadow |-> c.shadow, sp |-> c.sp,
               regs |-> c.regs]
  BY ONLY <1>4 DEF InKernel, IsState
<1>15. regs = c.regs
  <2>1. ASSUME NEW r \in Registers[build] PROVE regs[r] = c.regs[r]
    <3>1. \E i \in DOMAIN u : u[i] = r
      <4>1. PICK i \in 1 .. Depth[build] : Places[build][i] = r
        BY ONLY <1>5, r \in Registers[build], RegisterPlaces
      <4> QED BY ONLY <1>8, <1>10, <4>1
    <3>2. PICK i : i = CHOOSE j \in DOMAIN u : u[j] = r
      OBVIOUS
    <3>3. i \in DOMAIN u /\ u[i] = r
      BY ONLY <3>1, <3>2
    <3>4. regs[r] = f[i]
      BY ONLY <1>11, <3>2, r \in Registers[build]
    <3> QED BY ONLY <1>10, <1>13, <3>3, <3>4
  <2>2. regs = [r \in Registers[build] |-> regs[r]]
    BY ONLY <1>11
  <2> QED BY ONLY <1>14, <2>1, <2>2
<1>16. Left(words, c)
  <2>1. Len(f) \in Nat /\ d + 2 \in Nat /\ d + 2 <= Len(f)
    BY ONLY <1>9, <1>13, SeqLength
  <2>2. IsSeq(words) /\ \A i \in 1 .. (Len(f) - (d + 2)) : words[i] = f[(d + 2) + i]
    BY ONLY <1>11, <1>13, <2>1, Dropped
  <2>3. words[1] = f[(d + 2) + 1] /\ words[3] = f[(d + 2) + 3]
    <3>1. 1 \in 1 .. (Len(f) - (d + 2)) /\ 3 \in 1 .. (Len(f) - (d + 2))
      BY ONLY <1>9, <1>13, <2>1
    <3> QED BY ONLY <2>2, <3>1, Zenon
  <2>4. build = "amd64" => words[4] = f[(d + 2) + 4]
    <3>1. build = "amd64" => 4 \in 1 .. (Len(f) - (d + 2))
      BY ONLY <1>9, <1>13, <2>1
    <3> QED BY ONLY <2>2, <3>1, Zenon
  <2>5. (d + 2) + 1 = d + 3 /\ (d + 2) + 3 = d + 5 /\ (d + 2) + 4 = d + 6
    BY ONLY <1>9
  <2>6. words[1] = f[d + 3] /\ words[3] = f[d + 5] /\ (build = "amd64" => words[4] = f[d + 6])
    BY ONLY <2>3, <2>4, <2>5
  <2> QED BY ONLY <1>4, <1>13, <1>14, <2>2, <2>6 DEF Left
<1>17. /\ IInv'
       /\ cpu' = [ip |-> c.ip, flags |-> c.flags, shadow |-> FALSE, sp |-> "kernel",
                  regs |-> regs]
  <2>1. regs = [r \in Registers[build] |-> regs[r]]
    BY ONLY <1>14, <1>15
  <2> QED BY <1>4, <1>6, <1>7, <1>12, <1>16, <2>1, KernelResumes
<1>18. cpu' = c
  BY ONLY <1>4, <1>14, <1>15, <1>17
<1>19. Len(interrupted) = 1 /\ Last(interrupted) = c
  BY ONLY <1>4 DEF Last
<1> QED BY ONLY <1>17, <1>18, <1>19

-----------------------------------------------------------------------------
(* What comes from outside.                                                *)

\* Where the processor is depends on the controllers only so far as they are programmed.
LEMMA PhasesKept ==
    ASSUME IInv, UNCHANGED <<machine, cpu, stack, iret, interrupted, called, report, faults>>,
           pics' \in Controllers, 2 \notin pics'.master.irr,
           \A k : Before(pics, k) => Before(pics', k)
    PROVE  IInv'
<1>1. Types /\ ReportRight
  BY DEF IInv
<1>2. build' = build /\ processors' = processors /\ Frame' = Frame
  BY DEF machine, Frame
<1>3. Types'
  <2>1. IsState(cpu)'
    BY <1>1, <1>2 DEF Types, IsState
  <2> QED BY <1>1, <2>1, SameTypes, SameStacks
<1>4. Programmed(pics) => Programmed(pics')
  BY WrittenAll
<1>5. Kernel => Kernel'
  BY <1>2 DEF Kernel, InKernel, IsState, Meant, Passed, Arguments
<1>6. ASSUME NEW c, InKernel(c) PROVE InKernel(c)'
  BY <1>2, <1>6 DEF InKernel, IsState
<1>7. InSystem => InSystem'
  <2>1. SUFFICES ASSUME NEW k \in {Calls[processors] + 1, Calls[processors] + 6},
                        NEW c \in ToSet(interrupted), System(k, c)
                 PROVE  InSystem'
    BY DEF InSystem
  <2>2. System(k, c)'
    <3>1. Meant(k)' = Meant(k)
            /\ (Arguments(Meant(k), cpu.regs, Frame))' = Arguments(Meant(k), cpu.regs, Frame)
      BY <1>2 DEF Meant, Arguments
    <3> QED BY <1>2, <1>4, <1>6, <2>1, <3>1 DEF System
  <2> QED BY <1>2, <2>2 DEF InSystem
<1>8. InServing => InServing'
  <2>1. SUFFICES ASSUME NEW v \in 32 .. 47, NEW c \in ToSet(interrupted), Serving(v, c)
                 PROVE  InServing'
    BY DEF InServing
  <2>2. Serving(v, c)'
    BY <1>2, <1>4, <1>6, <2>1 DEF Serving, Dump
  <2> QED BY <2>2 DEF InServing
<1>9. InHandling => InHandling'
  BY <1>2 DEF InHandling, Handling
<1>10. (Nowhere => Nowhere') /\ (Refusing => Refusing')
  BY DEF Nowhere, Refusing
<1> QED BY <1>1, <1>3, <1>5, <1>7, <1>8, <1>9, <1>10, SameReport DEF IInv

\* The request of a line.
LEMMA RequestKeeps ==
    ASSUME IInv, NEW i \in 0 .. 15, i # 2, Request(i),
           UNCHANGED <<machine, cpu, stack, iret, interrupted, called, report, faults>>
    PROVE  IInv'
<1>1. pics \in Controllers /\ 2 \notin pics.master.irr
  BY DEF IInv, Types
<1>2. PICK m, s : pics = [master |-> m, slave |-> s] /\ m \in Controller /\ s \in Controller
  BY ONLY <1>1 DEF Controllers
<1>3. CASE i < 8
  <2>1. PICK irr : irr = m.irr \cup {i}
    OBVIOUS
  <2>2. pics' = [master |-> [m EXCEPT !.irr = irr], slave |-> s]
    BY ONLY <1>2, <1>3, <2>1, Request(i) DEF Request
  <2>3. irr \in SUBSET Lines /\ 2 \notin irr
    BY ONLY <1>1, <1>2, <1>3, <2>1, i \in 0 .. 15, i # 2 DEF Controller, Lines
  <2>4. PICK n : n = [m EXCEPT !.irr = irr]
    OBVIOUS
  <2>5. /\ n \in Controller /\ n.irr = irr
        /\ n.expects = m.expects /\ n.four = m.four /\ n.base = m.base /\ n.wired = m.wired
    BY ONLY <1>2, <2>3, <2>4 DEF Controller
  <2>6. pics' = [master |-> n, slave |-> s]
    BY ONLY <2>2, <2>4
  <2>7. pics' \in Controllers /\ 2 \notin pics'.master.irr
    BY ONLY <1>2, <2>3, <2>5, <2>6 DEF Controllers
  <2>8. ASSUME NEW k, Before(pics, k) PROVE Before(pics', k)
    BY ONLY <1>2, <2>5, <2>6, <2>8 DEF Before
  <2> QED BY <2>7, <2>8, PhasesKept
<1>4. CASE ~(i < 8)
  <2>1. PICK irr : irr = s.irr \cup {i - 8}
    OBVIOUS
  <2>2. pics' = [master |-> m, slave |-> [s EXCEPT !.irr = irr]]
    BY ONLY <1>2, <1>4, <2>1, Request(i) DEF Request
  <2>3. irr \in SUBSET Lines
    BY ONLY <1>2, <1>4, <2>1, i \in 0 .. 15 DEF Controller, Lines
  <2>4. PICK n : n = [s EXCEPT !.irr = irr]
    OBVIOUS
  <2>5. /\ n \in Controller /\ n.irr = irr
        /\ n.expects = s.expects /\ n.four = s.four /\ n.base = s.base /\ n.wired = s.wired
    BY ONLY <1>2, <2>3, <2>4 DEF Controller
  <2>6. pics' = [master |-> m, slave |-> n]
    BY ONLY <2>2, <2>4
  <2>7. pics' \in Controllers /\ 2 \notin pics'.master.irr
    BY ONLY <1>1, <1>2, <2>5, <2>6 DEF Controllers
  <2>8. ASSUME NEW k, Before(pics, k) PROVE Before(pics', k)
    BY ONLY <1>2, <2>5, <2>6, <2>8 DEF Before
  <2> QED BY <2>7, <2>8, PhasesKept
<1> QED BY <1>3, <1>4

\* Only the kernel is interrupted, at a place where it is open to that.
LEMMA Interruptible ==
    ASSUME IInv, Accepts
    PROVE  /\ Kernel /\ cpu.ip[1] = "kernel_entry" /\ cpu.ip[2] \in Open[processors]
           /\ cpu.flags = TRUE /\ cpu.shadow = FALSE /\ Programmed(pics)
           /\ \E m \in Open[processors] : Resume = <<"kernel_entry", m>>
                /\ m \in 1 .. Length[processors]
<1>1. Types
  BY DEF IInv
<1>2. cpu.flags = TRUE /\ cpu.shadow = FALSE
  BY <1>1 DEF Accepts, Types, IsState
<1>3. Kernel
  BY <1>2 DEF IInv, InSystem, InServing, InHandling, System, Serving, Handling, Refusing,
                Nowhere
<1>4. PICK k : k = cpu.ip[2]
  OBVIOUS
<1>5. /\ Fits(Op, k, processors) /\ k \in 1 .. Length[processors]
           /\ cpu.ip[1] = "kernel_entry"
      /\ processors \in 1 .. 2
  BY <1>1, <1>3, <1>4, AtKernel DEF Types
<1>6. k \in Open[processors]
  BY <1>2, <1>3, <1>4 DEF Kernel, InKernel
<1>7. k \in 11 .. Length[processors]
  BY <1>5, <1>6, OpenPlaces
<1>8. Programmed(pics)
  <2>1. Before(pics, IF k <= 10 THEN k ELSE 11)
    BY ONLY <1>3, <1>4, Zenon DEF Kernel
  <2>2. ~(k <= 10)
    BY ONLY <1>7
  <2>3. Before(pics, 11)
    BY ONLY <2>1, <2>2, Zenon
  <2> QED BY ONLY <2>3, WrittenAll
<1>9. CASE At("wait")
  <2>1. k + 1 \in Open[processors]
    BY <1>5, <1>6, <1>9 DEF Fits, At
  <2>2. k + 1 \in 1 .. Length[processors]
    BY <1>5, <1>9 DEF Fits, At
  <2>3. Resume = <<"kernel_entry", k + 1>>
    <3>1. PICK i : cpu.ip = i /\ i = <<"kernel_entry", k>>
      BY <1>1, <1>4, <1>5 DEF Types, IsState
    <3>2. PICK j : j = Behind
      OBVIOUS
    <3>3. j = <<"kernel_entry", k + 1>>
      BY ONLY <3>1, <3>2 DEF Behind
    <3> QED BY ONLY <1>9, <3>2, <3>3 DEF Resume
  <2> QED BY <1>2, <1>3, <1>4, <1>5, <1>6, <1>8, <2>1, <2>2, <2>3
<1>10. CASE ~At("wait")
  <2>1. Resume = <<"kernel_entry", k>>
    BY <1>1, <1>4, <1>5, <1>10 DEF Types, IsState, Resume
  <2> QED BY <1>2, <1>3, <1>4, <1>5, <1>6, <1>8, <2>1
<1> QED BY <1>9, <1>10

\* The stub of an IRQ is entered.
LEMMA DeliveryKeeps ==
    ASSUME IInv, Accepts, NEW v \in 32 .. 47, Deliver(v, <<>>, Resume), pics' \in Controllers,
           Programmed(pics'), 2 \notin pics'.master.irr, UNCHANGED <<machine, faults, report>>
    PROVE  IInv'
<1>1. Types /\ ReportRight
  BY DEF IInv
<1>2. /\ Kernel /\ cpu.ip[2] \in Open[processors] /\ cpu.flags = TRUE /\ cpu.shadow = FALSE
  BY Interruptible
<1>3. PICK m \in Open[processors] : Resume = <<"kernel_entry", m>>
        /\ m \in 1 .. Length[processors]
  BY Interruptible
<1>4. PICK c : c = [cpu EXCEPT !.ip = Resume]
  OBVIOUS
<1>5. /\ c.ip = <<"kernel_entry", m>> /\ c.flags = TRUE /\ c.shadow = FALSE /\ c.sp = cpu.sp
      /\ IsState(c)
  BY <1>1, <1>2, <1>3, <1>4, Elsewhere
<1>6. cpu.sp = "kernel" /\ interrupted = <<>>
  BY <1>2 DEF Kernel, InKernel
<1>7. InKernel(c) /\ c.shadow = FALSE /\ c.ip[2] \in Open[processors]
  BY <1>3, <1>5, <1>6 DEF InKernel
<1>8. build \in Builds /\ build' = build /\ processors' = processors
  BY <1>1 DEF Types, machine
<1>9. ReportRight' /\ IsSeq(faults')
  BY <1>1, SameReport DEF Types
<1>10. v \in 0 .. 47 /\ v \notin Coded /\ Vector(v) = v /\ Code(v) = <<"num", 0>>
  BY DEF Coded, Vector, Installed, Code
<1>11. interrupted' = Append(interrupted, c) /\ (Lost \/ Taken(v, Resume))
  <2>1. PICK error : error = <<>>
    OBVIOUS
  <2>2. error = IF v \in Coded THEN << <<"num", 5>> >> ELSE <<>>
    BY ONLY <1>10, <2>1
  <2>3. Deliver(v, error, Resume)
    BY <2>1
  <2> QED BY <1>1, <1>4, <1>10, <2>2, <2>3, Trapped
<1>12. CASE Lost
  BY <1>1, <1>9, <1>12, LostKeeps
<1>13. CASE Taken(v, Resume)
  <2>1. PICK f, regs, sp :
            /\ sp \in Stacks /\ sp = IF build = "amd64" THEN "ist1" ELSE cpu.sp
            /\ regs = [r \in Registers[build] |-> regs[r]]
            /\ cpu' = [ip |-> <<"isr_handler", 1>>, flags |-> FALSE, shadow |-> FALSE,
                       sp |-> sp,
                       regs |-> regs]
            /\ stack' = [stack EXCEPT ![sp] = f]
            /\ Dump(f, v, <<"num", 0>>, c, Len(Frame))
    BY ONLY <1>4, <1>10, <1>13 DEF Taken
  <2>2. /\ IsState(cpu)' /\ cpu'.ip[1] = "isr_handler" /\ cpu'.ip[2] = 1
        /\ cpu'.flags = FALSE /\ cpu'.sp = sp
    BY <2>1, Placed
  <2>3. IsSeq(f)
    BY ONLY <2>1 DEF Dump
  <2>4. Types'
    BY <1>1, <2>1, <2>2, <2>3, SameTypes, StacksKept
  <2>5. Frame' = f
    BY <1>1, <2>1, <2>2 DEF Frame, Types
  <2>6. Dump(f, v, <<"num", 0>>, c, Len(stack'["kernel"]))
    <3>1. CASE build = "amd64"
      <4>1. sp = "ist1"
        BY ONLY <2>1, <3>1
      <4>2. stack' = [stack EXCEPT !["ist1"] = f] /\ stack = [s \in Stacks |-> stack[s]]
        BY <1>1, <2>1, <4>1 DEF Types
      <4>3. stack'["kernel"] = stack["kernel"]
        BY ONLY <4>2 DEF Stacks
      <4>4. Frame = stack["kernel"]
        BY ONLY <1>6 DEF Frame
      <4> QED BY ONLY <2>1, <4>3, <4>4
    <3>2. CASE build # "amd64"
      BY ONLY <2>1, <3>2 DEF Dump
    <3> QED BY ONLY <3>1, <3>2
  <2>7. 1 \in 1 .. Len(isr_handler(v))
    <3>1. HandlerText(v, isr_handler(v))
      BY <1>10, Handlers
    <3> QED BY ONLY <3>1 DEF HandlerText
  <2>8. interrupted' = <<c>>
    BY ONLY <1>6, <1>11
  <2>9. InKernel(c)'
    BY ONLY <1>7, <1>8 DEF InKernel, IsState
  <2>10. build' = "i386" => cpu'.sp = "kernel"
    BY ONLY <1>6, <1>8, <2>1, <2>2
  <2>11. Dump(Frame, v, <<"num", 0>>, c, Len(stack["kernel"]))'
    BY ONLY <1>8, <2>5, <2>6 DEF Dump
  <2>12. Serving(v, c)'
    BY ONLY <1>7, <1>8, <2>2, <2>7, <2>8, <2>9, <2>10, <2>11, Programmed(pics') DEF Serving
  <2>13. InServing'
    <3>1. c \in ToSet(interrupted')
      BY ONLY <2>8 DEF ToSet
    <3> QED BY ONLY <2>12, <3>1, v \in 32 .. 47 DEF InServing
  <2> QED BY <1>9, <2>4, <2>13 DEF IInv
<1> QED BY <1>11, <1>12, <1>13

\* Irq.
LEMMA IrqKeeps ==
    ASSUME IInv, NEW i, Irq(i)
    PROVE  IInv'
<1>1. pics \in Controllers /\ 2 \notin pics.master.irr
  BY DEF IInv, Types
<1>2. /\ Accepts /\ i \in Pending(pics) /\ UNCHANGED <<machine, faults, report>>
      /\ pics' = Acknowledge(pics, i).pics
      /\ Deliver(Acknowledge(pics, i).vector, <<>>, Resume)
  BY DEF Irq, printing
<1>3. Programmed(pics)
  BY <1>2, Interruptible
<1>4. PICK a : a = Acknowledge(pics, i)
  OBVIOUS
<1>5. /\ a.vector \in 32 .. 47
      /\ a.pics \in Controllers /\ Programmed(a.pics) /\ 2 \notin a.pics.master.irr
  BY <1>1, <1>2, <1>3, <1>4, Acknowledged
<1> QED BY <1>2, <1>4, <1>5, DeliveryKeeps

\* SpuriousIrq.
LEMMA SpuriousKeeps ==
    ASSUME IInv, SpuriousIrq
    PROVE  IInv'
<1>1. pics \in Controllers /\ 2 \notin pics.master.irr
  BY DEF IInv, Types
<1>2. Accepts /\ UNCHANGED <<machine, faults, report>>
  BY DEF SpuriousIrq, printing
<1>3. Programmed(pics)
  BY <1>2, Interruptible
<1>4. PICK second \in BOOLEAN : /\ pics' = Spurious(pics, second).pics
                                /\ Deliver(Spurious(pics, second).vector, <<>>, Resume)
  BY DEF SpuriousIrq
<1>5. PICK a : a = Spurious(pics, second)
  OBVIOUS
<1>6. /\ a.vector \in 32 .. 47
      /\ a.pics \in Controllers /\ Programmed(a.pics) /\ 2 \notin a.pics.master.irr
  BY <1>1, <1>3, <1>5, Disturbed
<1> QED BY <1>2, <1>4, <1>5, <1>6, DeliveryKeeps

\* Fault: the frame shows the exception that has just occurred.
LEMMA FaultKeeps ==
    ASSUME IInv, NEW v \in 0 .. 31, Fault(v)
    PROVE  IInv'
<1>1. Types /\ ReportRight
  BY DEF IInv
<1>2. PICK code, error : code = Code(v)
        /\ error = IF v \in Coded THEN << <<"num", 5>> >> ELSE <<>>
  OBVIOUS
<1>3. PICK e : e = [vector |-> v, errorcode |-> code, ip |-> <<"ip", Resume>>,
                    lock |-> lock_printf, tss |-> tss]
  OBVIOUS
<1>4. /\ faults' = Append(faults, e)
      /\ UNCHANGED <<machine, pics, report>>
  BY <1>2, <1>3 DEF Fault, Code, Coded, printing
<1>5. Deliver(v, error, Resume)
  <2>1. CASE v \in Coded
    BY <1>2, <2>1 DEF Fault, Coded
  <2>2. CASE v \notin Coded
    BY <1>2, <2>2 DEF Fault, Coded
  <2> QED BY <2>1, <2>2
<1>6. PICK S, n : faults \in Seq(S) /\ n = Len(faults) + 1
  BY <1>1 DEF Types, IsSeq
<1>7. IsSeq(faults')
  <2>1. faults' \in Seq(S \cup {e})
    BY ONLY <1>4, <1>6
  <2> QED BY ONLY <2>1, SeqIn
<1>8. /\ DOMAIN faults' = 1 .. n /\ n \in DOMAIN faults' /\ faults'[n] = e
      /\ \A i \in DOMAIN faults : i \in DOMAIN faults' /\ faults'[i] = faults[i]
  BY ONLY <1>4, <1>6
<1>9. ReportRight'
  BY ONLY <1>1, <1>4, <1>8 DEF ReportRight
<1>10. pics' \in Controllers /\ 2 \notin pics'.master.irr
  BY <1>1, <1>4, SamePics
<1>11. PICK c : c = [cpu EXCEPT !.ip = Resume]
  OBVIOUS
<1>12. c.ip = Resume
  BY <1>1, <1>11, Elsewhere
<1>13. Lost \/ Taken(v, Resume)
  <2>1. v \in 0 .. 47 /\ error = IF v \in Coded THEN << <<"num", 5>> >> ELSE <<>>
    BY <1>2
  <2> QED BY ONLY <1>1, <1>5, <2>1, Trapped
<1>14. CASE Lost
  BY <1>1, <1>4, <1>7, <1>9, <1>10, <1>14, LostKeeps
<1>15. CASE Taken(v, Resume)
  <2>1. PICK f, regs, sp :
            /\ sp \in Stacks /\ sp = IF build = "amd64" THEN "ist1" ELSE cpu.sp
            /\ regs = [r \in Registers[build] |-> regs[r]]
            /\ cpu' = [ip |-> <<"isr_handler", 1>>, flags |-> FALSE, shadow |-> FALSE,
                       sp |-> sp,
                       regs |-> regs]
            /\ stack' = [stack EXCEPT ![sp] = f]
            /\ Dump(f, Vector(v), code, c, Len(Frame))
    BY ONLY <1>2, <1>11, <1>15 DEF Taken
  <2>2. /\ IsState(cpu)' /\ cpu'.ip[1] = "isr_handler" /\ cpu'.ip[2] = 1
        /\ cpu'.flags = FALSE /\ cpu'.sp = sp
    BY <1>4, <2>1, Placed
  <2>3. IsSeq(f) /\ f[Depth[build] + 1] = <<"num", Vector(v)>> /\ f[Depth[build] + 2] = code
        /\ f[Depth[build] + 3] = <<"ip", c.ip>>
    BY ONLY <2>1 DEF Dump
  <2>4. stack' = [s \in Stacks |-> stack'[s]] /\ \A s \in Stacks : IsSeq(stack'[s])
    BY <1>1, <2>1, <2>3, StacksKept
  <2>5. build' = build /\ Frame' = f
    BY <1>1, <1>4, <2>1, <2>2 DEF Frame, Types, machine
  <2>6. Types'
    BY ONLY <1>1, <1>4, <1>7, <1>10, <2>2, <2>4 DEF Types, machine
  <2>7. /\ Field(build, Frame, "vector")' = <<"num", Vector(v)>>
        /\ Field(build, Frame, "errorcode")' = code
        /\ Field(build, Frame, "ip")' = <<"ip", Resume>>
    <3>1. /\ Field(build, f, "vector") = f[Depth[build] + 1]
          /\ Field(build, f, "errorcode") = f[Depth[build] + 2]
          /\ Field(build, f, "ip") = f[Depth[build] + 3]
      BY <1>1, Fields
    <3> QED BY ONLY <1>12, <2>3, <2>5, <3>1
  <2>8. Vector(v) \in (0 .. 31) \cup {NULL} /\ (Vector(v) # NULL => Vector(v) = v)
    BY DEF Vector
  <2>9. 1 \in 1 .. Len(isr_handler(Vector(v)))
    <3>1. PICK w : w = Vector(v)
      OBVIOUS
    <3>2. w \in (0 .. 47) \cup {NULL}
      BY ONLY <2>8, <3>1
    <3>3. HandlerText(w, isr_handler(w))
      BY ONLY <3>2, Handlers
    <3> QED BY ONLY <3>1, <3>3 DEF HandlerText
  <2>10. e.vector = v /\ e.errorcode = code /\ e.ip = <<"ip", Resume>>
    BY ONLY <1>3
  <2>11. Handling(Vector(v))'
    <3>1. PICK w : w = Vector(v)
      OBVIOUS
    <3>2. w # NULL => \E i \in DOMAIN faults' :
                      /\ faults'[i].vector = w
                      /\ Field(build, Frame, "errorcode")' = faults'[i].errorcode
                      /\ Field(build, Frame, "ip")' = faults'[i].ip
      BY ONLY <1>8, <2>7, <2>8, <2>10, <3>1
    <3>3. 1 \in 1 .. Len(isr_handler(w)) /\ Field(build, Frame, "vector")' = <<"num", w>>
      BY ONLY <2>7, <2>9, <3>1
    <3>4. Handling(w)'
      BY ONLY <2>2, <3>2, <3>3 DEF Handling
    <3> QED BY ONLY <3>1, <3>4
  <2>12. InHandling'
    BY ONLY <2>8, <2>11 DEF InHandling
  <2> QED BY <1>9, <2>6, <2>12 DEF IInv
<1> QED BY <1>13, <1>14, <1>15

-----------------------------------------------------------------------------
(* The theorems.                                                           *)

\* The invariant holds in the first state.
LEMMA InitInvariance ==
    ASSUME Init
    PROVE  IInv
<1>1. /\ build \in Builds /\ processors \in 1 .. 2
      /\ cpu = [ip |-> <<"kernel_entry", 1>>, flags |-> FALSE, shadow |-> FALSE,
                sp |-> "kernel",
                regs |-> [r \in Registers[build] |-> <<"own", r>>]]
      /\ stack = [s \in Stacks |-> << <<"bottom">> >>]
      /\ pics = [master |-> Reset, slave |-> Reset]
      /\ faults = <<>> /\ interrupted = <<>>
      /\ report = [n \in {"vector", "errorcode", "ip"} |-> <<"none">>]
  BY DEF Init, Builds, Stacks
<1>2. PICK regs : regs = [r \in Registers[build] |-> <<"own", r>>]
  OBVIOUS
<1>3. IsState(cpu) /\ cpu.ip[1] = "kernel_entry" /\ cpu.ip[2] = 1 /\ cpu.sp = "kernel"
      /\ cpu.flags = FALSE
  <2>1. regs = [r \in Registers[build] |-> regs[r]]
    BY ONLY <1>2
  <2>2. PICK i : i = <<"kernel_entry", 1>>
    OBVIOUS
  <2>3. cpu = [ip |-> i, flags |-> FALSE, shadow |-> FALSE, sp |-> "kernel", regs |-> regs]
    BY ONLY <1>1, <1>2, <2>2
  <2> QED BY ONLY <2>1, <2>2, <2>3 DEF IsState, Stacks
<1>4. IsSeq(<< <<"bottom">> >>) /\ IsSeq(<<>>)
  BY Tuples
<1>5. stack = [s \in Stacks |-> stack[s]] /\ \A s \in Stacks : IsSeq(stack[s])
  BY ONLY <1>1, <1>4
<1>6. pics \in Controllers /\ 2 \notin pics.master.irr /\ Before(pics, 1)
  BY ONLY <1>1 DEF Controllers, Controller, Reset, Lines, Before
<1>7. Types
  BY ONLY <1>1, <1>3, <1>4, <1>5, <1>6 DEF Types
<1>8. Kernel
  <2>1. 1 \in 1 .. Length[processors]
          /\ 1 \notin {Calls[processors] + 1, Calls[processors] + 6}
    BY <1>1 DEF Length, Calls
  <2> QED BY ONLY <1>1, <1>3, <1>6, <2>1 DEF Kernel, InKernel
<1>9. ReportRight
  BY ONLY <1>1 DEF ReportRight
<1> QED BY <1>7, <1>8, <1>9 DEF IInv

\* No operation of the kernel, no interrupt and no exception breaks it.
LEMMA StepInvariance ==
    ASSUME IInv, [Next]_vars
    PROVE  IInv'
<1>1. CASE Step
  <2>1. UNCHANGED <<machine, faults>>
    BY <1>1 DEF Step
  <2>2. CASE Outb
    BY <2>1, <2>2, OutbKeeps
  <2>3. CASE Lock
    BY <2>1, <2>3, LockKeeps
  <2>4. CASE Unlock
    BY <2>1, <2>4, UnlockKeeps
  <2>5. CASE Ltr
    BY <2>1, <2>5, LtrKeeps
  <2>6. CASE Flags
    BY <2>1, <2>6, FlagsKeeps
  <2>7. CASE Branch
    BY <2>1, <2>7, BranchKeeps
  <2>8. CASE Args
    BY <2>1, <2>8, ArgsKeeps
  <2>9. CASE IntSystem
    BY <2>1, <2>9, IntSystemKeeps
  <2>10. CASE DropArgs
    BY <2>1, <2>10, DropArgsKeeps
  <2>11. CASE CallFunction
    BY <2>1, <2>11, CallFunctionKeeps
  <2>12. CASE ReturnSystem
    BY <2>1, <2>12, ReturnSystemKeeps
  <2>13. CASE Return
    BY <2>1, <2>13, ReturnResumes
  <2> QED BY <1>1, <2>2, <2>3, <2>4, <2>5, <2>6, <2>7, <2>8, <2>9, <2>10, <2>11, <2>12, <2>13
      DEF Step
<1>2. CASE Tick
  <2>1. 0 \in 0 .. 15 /\ 0 # 2 /\ Request(0)
    BY <1>2 DEF Tick
  <2>2. UNCHANGED <<machine, cpu, stack, iret, interrupted, called, report, faults>>
    BY <1>2 DEF Tick, printing
  <2> QED BY <2>1, <2>2, RequestKeeps
<1>3. ASSUME NEW i \in Devices, Raise(i) PROVE IInv'
  <2>1. i \in 0 .. 15 /\ i # 2 /\ Request(i)
    BY <1>3, LinesAssumption DEF Raise
  <2>2. UNCHANGED <<machine, cpu, stack, iret, interrupted, called, report, faults>>
    BY <1>3 DEF Raise, printing
  <2> QED BY <2>1, <2>2, RequestKeeps
<1>4. ASSUME NEW i \in Asking, Irq(i) PROVE IInv'
  BY <1>4, IrqKeeps
<1>5. CASE SpuriousIrq
  BY <1>5, SpuriousKeeps
<1>6. ASSUME NEW v \in Exceptions, Fault(v) PROVE IInv'
  BY <1>6, FaultKeeps, ExceptionsAssumption
<1>7. CASE UNCHANGED vars
  <2>1. UNCHANGED <<machine, cpu, stack, iret, interrupted, called, report, faults>>
          /\ pics' = pics
    BY <1>7 DEF vars, kernel, printing
  <2>2. pics' \in Controllers /\ 2 \notin pics'.master.irr
    BY <2>1 DEF IInv, Types
  <2>3. \A k : Before(pics, k) => Before(pics', k)
    BY <2>1
  <2> QED BY <2>1, <2>2, <2>3, PhasesKept
<1> QED BY <1>1, <1>2, <1>3, <1>4, <1>5, <1>6, <1>7 DEF Next

\* Wherever the processor is, from pic_init to the idle loop, the stack it would return over
\* holds what the stubs of isrs.S pushed for the code it returns to.
THEOREM Invariance == Spec => []IInv
<1>1. Init => IInv
  BY InitInvariance
<1>2. IInv /\ [Next]_vars => IInv'
  BY StepInvariance
<1> QED BY <1>1, <1>2, PTL DEF Spec

\* What isr_handler prints of an exception is its vector, error code and place, for any
\* exceptions at any points, through the gates of idt_init and the stubs of isrs.S.
THEOREM ReportIsRight == Spec => []ReportRight
<1>1. IInv => ReportRight
  BY DEF IInv
<1> QED BY <1>1, Invariance, PTL

\* Both system calls of kernel_entry reach their functions through syscall_table with every
\* argument in its parameter, on i386 and amd64, whatever interrupts and exceptions come.
THEOREM ArgumentsAreRight == Spec => []ArgumentsArrive
<1>1. ASSUME IInv, At("iret")
      PROVE  LET meant == kernel_entry[processors][Last(interrupted).ip[2] - 1][2]
             IN  called = [function |-> meant, parameters |-> Parameters(meant)]
  <2>1. Types /\ Op[1] = "iret" /\ processors \in 1 .. 2
    BY <1>1 DEF IInv, At, Types
  <2>2. InSystem
    BY <1>1, <2>1, Kinds
  <2>3. PICK k \in {Calls[processors] + 1, Calls[processors] + 6}, c \in ToSet(interrupted) :
            System(k, c)
    BY <2>2 DEF InSystem
  <2>4. interrupted = <<c>> /\ c.ip[2] = k + 1 /\ cpu.ip[2] \in 1 .. 2
    BY ONLY <2>3 DEF System
  <2>5. cpu.ip[2] = 2
    BY <2>1, <2>3, <2>4, AtSystem
  <2>6. called = [function |-> Meant(k), parameters |-> Parameters(Meant(k))]
    BY ONLY <2>3, <2>5 DEF System
  <2>7. k \in 1 .. Length[processors] /\ k \in Nat
    BY <2>1, <2>3 DEF Calls, Length
  <2>8. kernel_entry[processors][k][2] = Meant(k)
    <3>1. Fits(kernel_entry[processors][k], k, processors)
      BY <2>1, <2>7, KernelText
    <3> QED BY <2>3, <3>1 DEF Fits, Meant
  <2>9. Last(interrupted).ip[2] - 1 = k
    <3>1. Last(interrupted) = c
      BY ONLY <2>4 DEF Last
    <3> QED BY ONLY <2>4, <2>7, <3>1
  <2> QED BY ONLY <2>6, <2>8, <2>9
<1>2. IInv => ArgumentsArrive
  BY <1>1 DEF ArgumentsArrive
<1> QED BY <1>2, Invariance, PTL

\* Only the return of a stub makes the list of interrupted code shorter at a return.
LEMMA OnlyReturns ==
    ASSUME IInv, [Next]_vars, At("return"), Len(interrupted') < Len(interrupted)
    PROVE  Return /\ UNCHANGED <<machine, faults>>
<1>1. Op[1] = "return"
  BY DEF At
<1>2. InServing
  BY <1>1, Kinds
<1>3. PICK c : interrupted = <<c>> /\ cpu.flags = FALSE
  BY <1>2 DEF InServing, Serving
<1>4. ASSUME NEW v, NEW error, NEW ip, Deliver(v, error, ip) PROVE FALSE
  <2>1. PICK d : interrupted' = Append(interrupted, d)
    BY <1>4 DEF Deliver
  <2> QED BY ONLY <1>3, <2>1, Len(interrupted') < Len(interrupted)
<1>5. CASE Step
  BY <1>1, <1>5 DEF Step, At, Outb, Lock, Unlock, Ltr, Branch, Args, IntSystem, DropArgs,
                    CallFunction, ReturnSystem, Flags
<1>6. CASE Tick \/ (\E i \in Devices : Raise(i)) \/ UNCHANGED vars
  <2>1. interrupted' = interrupted
    BY <1>6 DEF Tick, Raise, vars, kernel
  <2> QED BY ONLY <1>3, <2>1, Len(interrupted') < Len(interrupted)
<1>7. CASE (\E i \in Asking : Irq(i)) \/ SpuriousIrq
  BY <1>3, <1>7 DEF Irq, SpuriousIrq, Accepts
<1>8. ASSUME NEW v \in Exceptions, Fault(v) PROVE FALSE
  BY <1>4, <1>8 DEF Fault
<1> QED BY <1>5, <1>6, <1>7, <1>8 DEF Next

\* When a stub returns from an IRQ, the interrupted code goes on at its place, on its stack,
\* with its flags and every register.
THEOREM ResumptionIsRight == Spec => ResumesRight
<1>1. IInv /\ [Next]_vars => [At("return") /\ Len(interrupted') < Len(interrupted) =>
                                  cpu' = Last(interrupted)]_vars
  BY OnlyReturns, ReturnResumes
<1> QED BY <1>1, Invariance, PTL DEF Spec, ResumesRight
=============================================================================
