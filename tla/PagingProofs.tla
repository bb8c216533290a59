---------------------------- MODULE PagingProofs ----------------------------
(***************************************************************************)
(* The page tables stay two trees, one of the boot code and one of the     *)
(* context, reached through one window, for any number of processors,      *)
(* tables of any size and any RAM.                                         *)
(***************************************************************************)
EXTENDS Paging, FiniteSetTheorems, TLAPS

-----------------------------------------------------------------------------
(* Numbers of pages.                                                       *)
LEMMA DivMod ==
    ASSUME NEW c \in Nat \ {0}, NEW x \in Nat
    PROVE  /\ x \div c \in Nat /\ x % c \in 0 .. (c - 1)
           /\ x = c * (x \div c) + (x % c)
<1>1. x \div c \in Int /\ x % c \in 0 .. (c - 1)
  OBVIOUS
<1>2. x = c * (x \div c) + (x % c)
  OBVIOUS
<1>3. x \div c >= 0
  OBVIOUS
<1> QED BY <1>1, <1>2, <1>3

\* What is used of products.
LEMMA Times ==
    ASSUME NEW c \in Nat \ {0}, NEW a \in Int, NEW b \in Int
    PROVE  /\ a < b => c * a + c <= c * b
           /\ a <= b => c * a <= c * b
           /\ c * (a + b) = c * a + c * b /\ c * (a - b) = c * a - c * b
           /\ c * (a + 1) = c * a + c
           /\ c * a \in Int
<1>1. c * (a + b) = c * a + c * b /\ c * (a - b) = c * a - c * b
  OBVIOUS
<1>2. c * (a + 1) = c * a + c /\ c * a \in Int
  OBVIOUS
<1>3. a <= b => c * a <= c * b
  OBVIOUS
<1>4. a < b => c * a + c <= c * b
  OBVIOUS
<1> QED BY <1>1, <1>2, <1>3, <1>4

LEMMA DivModUnique ==
    ASSUME NEW c \in Nat \ {0}, NEW x \in Nat, NEW q \in Nat, NEW r \in 0 .. (c - 1), x = c * q + r
    PROVE  x \div c = q /\ x % c = r
<1> DEFINE p == x \div c
           s == x % c
<1>1. p \in Nat /\ s \in 0 .. (c - 1) /\ x = c * p + s
  BY DivMod
<1> HIDE DEF p, s
<1>3. ~ p < q
  <2>1. p < q => c * p + c <= c * q
    BY <1>1, Times
  <2>2. c * p \in Int /\ c * q \in Int
    BY <1>1, Times
  <2> QED BY <1>1, <2>1, <2>2
<1>4. ~ q < p
  <2>1. q < p => c * q + c <= c * p
    BY <1>1, Times
  <2>2. c * p \in Int /\ c * q \in Int
    BY <1>1, Times
  <2> QED BY <1>1, <2>1, <2>2
<1>5. p = q
  BY <1>1, <1>3, <1>4
<1>6. s = r
  <2>1. c * q \in Int
    BY Times
  <2> QED BY <1>1, <1>5, <2>1
<1> QED BY <1>5, <1>6 DEF p, s

-----------------------------------------------------------------------------

LEMMA DivDiv ==
    ASSUME NEW b \in Nat \ {0}, NEW c \in Nat \ {0}, NEW x \in Nat
    PROVE  b * c \in Nat \ {0} /\ x \div (b * c) = (x \div b) \div c
<1> DEFINE q == x \div b
           r == x % b
           p == q \div c
           s == q % c
<1>1. q \in Nat /\ r \in 0 .. (b - 1) /\ x = b * q + r
  BY DivMod
<1>2. p \in Nat /\ s \in 0 .. (c - 1) /\ q = c * p + s
  BY <1>1, DivMod
<1> HIDE DEF q, r, p, s
<1>3. b * c \in Nat \ {0}
  <2>1. b * 0 + b <= b * c
    BY Times
  <2>2. b * 0 = 0 /\ b * c \in Int
    BY Times
  <2> QED BY <2>1, <2>2
<1>4. x = (b * c) * p + (b * s + r)
  <2>1. b * (c * p + s) = b * (c * p) + b * s
    <3>1. c * p \in Int
      BY <1>2, Times
    <3> QED BY <1>2, <3>1, Times
  <2>2. b * (c * p) = (b * c) * p
    BY <1>2
  <2>3. (b * c) * p \in Int /\ b * s \in Int
    BY <1>2, <1>3, Times
  <2> QED BY <1>1, <1>2, <2>1, <2>2, <2>3
<1>5. b * s + r \in 0 .. (b * c - 1)
  <2>1. b * s \in Int /\ b * c \in Int /\ b * 0 <= b * s /\ b * 0 = 0
    BY <1>2, Times
  <2>2. b * s + b <= b * c
    BY <1>2, Times
  <2> QED BY <1>1, <2>1, <2>2
<1> DEFINE bc == b * c
           rest == b * s + r
<1>6. bc \in Nat \ {0} /\ rest \in 0 .. (bc - 1) /\ x = bc * p + rest
  BY <1>3, <1>4, <1>5
<1> HIDE DEF bc, rest
<1>7. x \div bc = p
  BY <1>2, <1>6, DivModUnique
<1> QED BY <1>3, <1>7 DEF bc, p, q

LEMMA SpanIs ==
    /\ Span[1] = 1 /\ Span[2] = SIZE
    /\ \A l \in 1 .. 5 : Span[l] \in Nat \ {0}
    /\ \A l \in 1 .. 4 : Span[l + 1] = Span[l] * SIZE
<1>1. SIZE \in Nat \ {0}
  BY PagingAssumption
<1> DEFINE s2 == SIZE * SIZE
           s3 == s2 * SIZE
           s4 == s3 * SIZE
<1>2. s2 \in Nat \ {0}
  BY <1>1, DivDiv
<1> HIDE DEF s2
<1>3. s3 \in Nat \ {0}
  BY <1>1, <1>2, DivDiv
<1> HIDE DEF s3
<1>4. s4 \in Nat \ {0}
  BY <1>1, <1>3, DivDiv
<1>5. Span = <<1, SIZE, s2, s3, s4>>
  BY DEF Span, s2, s3, s4
<1>6. /\ Span[1] = 1 /\ Span[2] = SIZE /\ Span[3] = s2 /\ Span[4] = s3 /\ Span[5] = s4
  BY <1>5
<1>7. s2 = SIZE * SIZE /\ s3 = s2 * SIZE /\ s4 = s3 * SIZE /\ SIZE = 1 * SIZE
  BY <1>1 DEF s2, s3
<1> HIDE DEF s4
<1>8. ASSUME NEW l \in 1 .. 5 PROVE Span[l] \in Nat \ {0}
  <2>1. l = 1 \/ l = 2 \/ l = 3 \/ l = 4 \/ l = 5
    OBVIOUS
  <2> QED BY <1>1, <1>2, <1>3, <1>4, <1>6, <2>1
<1>9. ASSUME NEW l \in 1 .. 4 PROVE Span[l + 1] = Span[l] * SIZE
  <2>1. CASE l = 1
    BY <1>6, <1>7, <2>1
  <2>2. CASE l = 2
    BY <1>6, <1>7, <2>2
  <2>3. CASE l = 3
    BY <1>6, <1>7, <2>3
  <2>4. CASE l = 4
    BY <1>6, <1>7, <2>4
  <2> QED BY <2>1, <2>2, <2>3, <2>4
<1> QED BY <1>6, <1>8, <1>9

\* The part of a page's number that leads to its table of a level.
Part(page, l) == page \div Span[l + 1]

Slots == 0 .. LastSlot

LEMMA PartIs ==
    ASSUME NEW page \in Nat
    PROVE  /\ Part(page, 0) = page
           /\ \A l \in 0 .. 4 : Part(page, l) \in Nat
           /\ \A l \in 1 .. 4 : /\ Index(page, l) = Part(page, l - 1) % SIZE
                                /\ Part(page, l) = Part(page, l - 1) \div SIZE
                                /\ Index(page, l) \in Slots
                                /\ Part(page, l - 1) = Part(page, l) * SIZE + Index(page, l)
           /\ \A l \in 1 .. 4 : page < Span[l + 1] => Part(page, l) = 0
<1>1. SIZE \in Nat \ {0}
  BY PagingAssumption
<1>2. ASSUME NEW l \in 0 .. 4 PROVE Part(page, l) \in Nat
  <2>1. Span[l + 1] \in Nat \ {0}
    BY SpanIs
  <2> QED BY <2>1, DivMod DEF Part
<1>3. Part(page, 0) = page
  BY SpanIs DEF Part
<1>4. ASSUME NEW l \in 1 .. 4
      PROVE  /\ Index(page, l) = Part(page, l - 1) % SIZE
             /\ Part(page, l) = Part(page, l - 1) \div SIZE
             /\ Index(page, l) \in Slots
             /\ Part(page, l - 1) = Part(page, l) * SIZE + Index(page, l)
  <2> DEFINE p == Part(page, l - 1)
  <2>1. (l - 1) + 1 = l /\ l - 1 \in 0 .. 4
    OBVIOUS
  <2>2. p = page \div Span[l] /\ p \in Nat
    BY <1>2, <2>1 DEF Part
  <2>3. Index(page, l) = p % SIZE
    BY <2>2 DEF Index
  <2>4. Part(page, l) = p \div SIZE
    <3> DEFINE s == Span[l]
    <3>1. s \in Nat \ {0} /\ Span[l + 1] = s * SIZE
      BY SpanIs
    <3> HIDE DEF s
    <3>2. page \div (s * SIZE) = (page \div s) \div SIZE
      BY <1>1, <3>1, DivDiv
    <3> QED BY <2>2, <3>1, <3>2 DEF Part, s
  <2> HIDE DEF p
  <2>5. /\ p \div SIZE \in Nat /\ p % SIZE \in 0 .. (SIZE - 1)
        /\ p = SIZE * (p \div SIZE) + (p % SIZE)
    BY <1>1, <2>2, DivMod
  <2>6. SIZE * (p \div SIZE) = (p \div SIZE) * SIZE
    <3> DEFINE q == p \div SIZE
    <3>1. q \in Nat
      BY <2>5
    <3> HIDE DEF q
    <3>2. SIZE * q = q * SIZE
      BY <1>1, <3>1
    <3> QED BY <3>2 DEF q
  <2> QED BY <2>3, <2>4, <2>5, <2>6 DEF p, Slots, LastSlot
<1>5. ASSUME NEW l \in 1 .. 4, page < Span[l + 1] PROVE Part(page, l) = 0
  <2> DEFINE s == Span[l + 1]
  <2>1. s \in Nat \ {0}
    BY SpanIs
  <2>2. page < s
    BY <1>5
  <2> HIDE DEF s
  <2>3. page = s * 0 + page /\ page \in 0 .. (s - 1)
    BY <2>1, <2>2
  <2>4. page \div s = 0
    BY <2>1, <2>3, DivModUnique
  <2> QED BY <2>4 DEF s, Part
<1> QED BY <1>2, <1>3, <1>4, <1>5

\* A number below a table's part, and the slot, are found from where it leads.
LEMMA PartUnique ==
    ASSUME NEW a \in Nat, NEW b \in Nat, NEW j \in Slots, NEW k \in Slots,
           a * SIZE + j = b * SIZE + k
    PROVE  a = b /\ j = k
<1>1. SIZE \in Nat \ {0} /\ j \in 0 .. (SIZE - 1) /\ k \in 0 .. (SIZE - 1)
  BY PagingAssumption DEF Slots, LastSlot
<1> DEFINE x == a * SIZE + j
<1>2. x = SIZE * a + j /\ x = SIZE * b + k /\ x \in Nat
  <2>1. a * SIZE = SIZE * a /\ b * SIZE = SIZE * b
    BY <1>1
  <2>2. SIZE * a \in Nat
    BY <1>1
  <2> QED BY <1>1, <2>1, <2>2
<1> HIDE DEF x
<1> DEFINE c == SIZE
<1>a. c \in Nat \ {0} /\ j \in 0 .. (c - 1) /\ k \in 0 .. (c - 1)
  BY <1>1
<1>b. x \in Nat /\ x = c * a + j /\ x = c * b + k
  BY <1>2
<1> HIDE DEF c
<1>3. x \div c = a /\ x % c = j
  BY ONLY a \in Nat, <1>a, <1>b, DivModUnique
<1>4. x \div c = b /\ x % c = k
  BY ONLY b \in Nat, <1>a, <1>b, DivModUnique
<1> QED BY <1>3, <1>4

LEMMA BelowMultiple ==
    ASSUME NEW a \in Nat \ {0}
    PROVE  (a * SIZE - 1) \div SIZE = a - 1 /\ (a * SIZE - 1) % SIZE = SIZE - 1
<1>1. SIZE \in Nat \ {0}
  BY PagingAssumption
<1> DEFINE x == a * SIZE - 1
<1>2. x = SIZE * (a - 1) + (SIZE - 1) /\ x \in Nat
  <2>1. a * SIZE = SIZE * a
    BY <1>1
  <2>2. SIZE * (a - 1) = SIZE * a - SIZE * 1 /\ SIZE * 1 = SIZE
    BY <1>1, Times
  <2>3. SIZE * a \in Int /\ SIZE * 1 <= SIZE * a
    BY <1>1, Times
  <2> QED BY <1>1, <2>1, <2>2, <2>3
<1>3. a - 1 \in Nat /\ SIZE - 1 \in 0 .. (SIZE - 1)
  BY <1>1
<1> HIDE DEF x
<1>4. x \div SIZE = a - 1 /\ x % SIZE = SIZE - 1
  BY <1>1, <1>2, <1>3, DivModUnique
<1> QED BY <1>4 DEF x

Levels == {2, 4}

\* The last page of L levels of tables is the last of every table on the way;
\* the page before it is beside it.
LEMMA LastPages ==
    ASSUME NEW L \in Levels, NEW last, last = Span[L + 1] - 1
    PROVE  /\ last \in Nat /\ last - 1 \in Nat /\ LastSlot \in Slots /\ LastSlot - 1 \in Slots
           /\ \A l \in 1 .. L : Index(last, l) = LastSlot
           /\ Part(last - 1, 1) = Part(last, 1) /\ Index(last - 1, 1) = LastSlot - 1
           /\ Part(last, L) = 0
           /\ \A page \in Nat : page < last - 1 /\ Part(page, 1) = Part(last, 1) =>
                Index(page, 1) # LastSlot /\ Index(page, 1) # LastSlot - 1
<1>1. SIZE \in Nat \ {0} /\ SIZE >= 2 /\ LastSlot = SIZE - 1 /\ L + 1 \in 1 .. 5
      /\ L \in Nat /\ L <= 4 /\ L >= 2
  BY PagingAssumption DEF LastSlot, Levels
<1>2. Span[L + 1] \in Nat \ {0} /\ Span[L] \in Nat \ {0} /\ Span[L + 1] = Span[L] * SIZE
  <2>1. L \in 1 .. 4 /\ L \in 1 .. 5
    BY <1>1
  <2> QED BY <1>1, <2>1, SpanIs
<1>3. last \in Nat /\ last >= 1
  <2> DEFINE s == Span[L]
  <2>1. s \in Nat \ {0} /\ last = s * SIZE - 1
    BY <1>2
  <2> HIDE DEF s
  <2>2. SIZE * 1 <= SIZE * s /\ SIZE * 1 = SIZE /\ SIZE * s = s * SIZE /\ SIZE * s \in Int
    BY <1>1, <2>1, Times
  <2> QED BY <1>1, <2>1, <2>2
<1>4. ASSUME NEW l \in 0 .. 3, l < L, Part(last, l) = Span[L + 1 - l] - 1
      PROVE  Part(last, l + 1) = Span[L + 1 - (l + 1)] - 1 /\ Index(last, l + 1) = LastSlot
  <2> DEFINE k == L - l
             s == Span[k]
  <2>1. k \in 1 .. 4 /\ k \in 1 .. 5 /\ k + 1 = L + 1 - l /\ k = L + 1 - (l + 1)
    BY <1>1, <1>4
  <2> HIDE DEF k
  <2>2. s \in Nat \ {0} /\ Span[k + 1] = s * SIZE
    BY <2>1, SpanIs
  <2> HIDE DEF s
  <2>3. Part(last, l) = s * SIZE - 1
    BY <1>4, <2>1, <2>2
  <2>4. Part(last, l) \div SIZE = s - 1 /\ Part(last, l) % SIZE = SIZE - 1
    BY <2>2, <2>3, BelowMultiple
  <2>5. l + 1 \in 1 .. 4 /\ (l + 1) - 1 = l
    BY <1>4
  <2>6. Part(last, l + 1) = Part(last, l) \div SIZE /\ Index(last, l + 1) = Part(last, l) % SIZE
    BY <1>3, <2>5, PartIs
  <2> QED BY <1>1, <2>1, <2>4, <2>6 DEF s
<1>5. Part(last, 0) = Span[L + 1 - 0] - 1
  <2>1. Part(last, 0) = last
    BY <1>3, PartIs
  <2>2. L + 1 - 0 = L + 1
    BY <1>1
  <2> QED BY <2>1, <2>2
<1>6. Part(last, 1) = Span[L + 1 - 1] - 1 /\ Index(last, 1) = LastSlot
  BY <1>1, <1>4, <1>5
<1>7. Part(last, 2) = Span[L + 1 - 2] - 1 /\ Index(last, 2) = LastSlot
  BY <1>1, <1>4, <1>6
<1>8. L = 4 => Part(last, 3) = Span[L + 1 - 3] - 1 /\ Index(last, 3) = LastSlot
  BY <1>1, <1>4, <1>7
<1>9. L = 4 => Part(last, 4) = Span[L + 1 - 4] - 1 /\ Index(last, 4) = LastSlot
  BY <1>1, <1>4, <1>8
<1>10. ASSUME NEW l \in 1 .. L PROVE Index(last, l) = LastSlot
  <2>1. l = 1 \/ l = 2 \/ (L = 4 /\ (l = 3 \/ l = 4))
    BY DEF Levels
  <2> QED BY <1>6, <1>7, <1>8, <1>9, <2>1
<1>11. Part(last, L) = 0
  <2>1. L \in 1 .. 4
    BY <1>1
  <2>2. last < Span[L + 1]
    BY <1>2
  <2> QED BY <1>3, <2>1, <2>2, PartIs
<1>12. LastSlot \in Slots /\ LastSlot - 1 \in Slots
  BY <1>1 DEF Slots
<1> DEFINE a == Part(last, 1)
<1>13. last = a * SIZE + LastSlot /\ a \in Nat
  <2>1. 1 \in 0 .. 4 /\ 1 \in 1 .. 4 /\ 1 - 1 = 0
    OBVIOUS
  <2> QED BY <1>3, <1>6, <2>1, PartIs
<1>14. ASSUME NEW page \in Nat
       PROVE  Part(page, 1) \in Nat /\ Index(page, 1) \in Slots
              /\ page = Part(page, 1) * SIZE + Index(page, 1)
  <2>1. 1 \in 0 .. 4 /\ 1 \in 1 .. 4 /\ 1 - 1 = 0
    OBVIOUS
  <2> QED BY <2>1, PartIs
<1> HIDE DEF a
<1>15. Part(last - 1, 1) = a /\ Index(last - 1, 1) = LastSlot - 1
  <2> DEFINE b == Part(last - 1, 1)
             k == Index(last - 1, 1)
  <2>1. last - 1 \in Nat
    BY <1>3
  <2>2. b \in Nat /\ k \in Slots /\ last - 1 = b * SIZE + k
    BY <1>14, <2>1
  <2> HIDE DEF b, k
  <2>3. last - 1 = a * SIZE + (LastSlot - 1)
    <3>1. a * SIZE \in Int
      BY <1>1, <1>13
    <3> DEFINE c == a * SIZE
    <3>2. c \in Int /\ last = c + LastSlot
      BY <3>1, <1>13
    <3> HIDE DEF c
    <3>3. last - 1 = c + (LastSlot - 1)
      BY <1>1, <3>2
    <3> QED BY <3>3 DEF c
  <2>4. b = a /\ k = LastSlot - 1
    BY <1>12, <1>13, <2>2, <2>3, PartUnique
  <2> QED BY <2>4 DEF b, k
<1>16. ASSUME NEW page \in Nat, page < last - 1, Part(page, 1) = a
       PROVE  Index(page, 1) # LastSlot /\ Index(page, 1) # LastSlot - 1
  <2>1. page = a * SIZE + Index(page, 1)
    BY <1>14, <1>16
  <2> DEFINE c == a * SIZE
  <2>2. c \in Int
    BY <1>1, <1>13
  <2>3. page = c + Index(page, 1) /\ last = c + LastSlot
    BY <2>1, <1>13
  <2> HIDE DEF c
  <2>4. Index(page, 1) \in Slots
    BY <1>14
  <2> DEFINE i == Index(page, 1)
  <2>5. i \in 0 .. LastSlot /\ page = c + i
    BY <2>3, <2>4 DEF Slots
  <2> HIDE DEF i
  <2>6. i # LastSlot /\ i # LastSlot - 1
    BY <1>1, <1>3, <1>16, <2>2, <2>3, <2>5
  <2> QED BY <2>6 DEF i
<1> QED BY <1>3, <1>10, <1>11, <1>12, <1>15, <1>16 DEF a

-----------------------------------------------------------------------------
(* Trees of tables.                                                        *)

Entry == [frame : Nat, flags : SUBSET Flag]

Place == [level : Nat, part : Nat]

\* The place of the table that slot n of a table leads to.
Under(place, n) == [level |-> place.level - 1, part |-> place.part * SIZE + n]

LeadsTo(m, u, n, t) == Present(m[u][n]) /\ m[u][n].frame = t

\* The tables in DOMAIN place hang from the root, each by one entry, and each in
\* the place given: its level, and the part of the page numbers that lead to it.
Tree(m, L, root, place) ==
    /\ place \in [DOMAIN place -> Place] /\ DOMAIN place \subseteq DOMAIN m
    /\ root \in DOMAIN place /\ place[root] = [level |-> L, part |-> 0]
    /\ \A t \in DOMAIN place : place[t].level \in 1 .. L
    /\ \A t, u \in DOMAIN place : place[t] = place[u] => t = u
    /\ \A t \in DOMAIN place \ {root} : \E u \in DOMAIN place, n \in Slots :
         place[u].level > 1 /\ LeadsTo(m, u, n, t)
    /\ \A u \in DOMAIN place, n \in Slots : place[u].level > 1 /\ Present(m[u][n]) =>
         m[u][n].frame \in DOMAIN place /\ place[m[u][n].frame] = Under(place[u], n)

\* Only tables above the lowest level hold the tree together.
LEMMA TreeKept ==
    ASSUME NEW m, NEW k, NEW L, NEW root, NEW place, Tree(m, L, root, place),
           DOMAIN m \subseteq DOMAIN k,
           \A t \in DOMAIN place : place[t].level > 1 => k[t] = m[t]
    PROVE  Tree(k, L, root, place)
<1>1. \A t \in DOMAIN place \ {root} : \E u \in DOMAIN place, n \in Slots :
         place[u].level > 1 /\ LeadsTo(k, u, n, t)
  <2> TAKE t \in DOMAIN place \ {root}
  <2>1. PICK u \in DOMAIN place, n \in Slots : place[u].level > 1 /\ LeadsTo(m, u, n, t)
    BY DEF Tree
  <2> QED BY <2>1 DEF LeadsTo
<1>2. \A u \in DOMAIN place, n \in Slots : place[u].level > 1 /\ Present(k[u][n]) =>
         k[u][n].frame \in DOMAIN place /\ place[k[u][n].frame] = Under(place[u], n)
  BY DEF Tree
<1> QED BY <1>1, <1>2 DEF Tree

LEMMA TreeRoot ==
    ASSUME NEW m, NEW L \in Levels, NEW root \in DOMAIN m, \A n \in Slots : ~Present(m[root][n])
    PROVE  Tree(m, L, root, [t \in {root} |-> [level |-> L, part |-> 0]])
<1>1. L \in Nat /\ L >= 1
  BY DEF Levels
<1> QED BY <1>1 DEF Tree, Place, LeadsTo

\* Where a table that is not the root hangs.
LEMMA Parent ==
    ASSUME NEW m, NEW L, NEW root, NEW place, Tree(m, L, root, place),
           NEW t \in DOMAIN place, t # root
    PROVE  \E u \in DOMAIN place, n \in Slots :
             /\ place[u].level > 1 /\ LeadsTo(m, u, n, t)
             /\ place[t] = Under(place[u], n)
<1>1. PICK u \in DOMAIN place, n \in Slots : place[u].level > 1 /\ LeadsTo(m, u, n, t)
  BY DEF Tree
<1>2. place[t] = Under(place[u], n)
  BY <1>1 DEF Tree, LeadsTo
<1> QED BY <1>1, <1>2

LEMMA UnderUnique ==
    ASSUME NEW a \in Place, NEW b \in Place, NEW j \in Slots, NEW k \in Slots,
           Under(a, j) = Under(b, k)
    PROVE  a = b /\ j = k
<1>1. a.level - 1 = b.level - 1 /\ a.part * SIZE + j = b.part * SIZE + k
  BY DEF Under
<1>2. /\ a.level \in Nat /\ b.level \in Nat /\ a.part \in Nat /\ b.part \in Nat
      /\ a = [level |-> a.level, part |-> a.part] /\ b = [level |-> b.level, part |-> b.part]
  BY DEF Place
<1>3. a.part = b.part /\ j = k
  BY <1>1, <1>2, PartUnique
<1>4. a.level = b.level
  BY <1>1, <1>2
<1> QED BY <1>2, <1>3, <1>4

LEMMA UnderIsPlace ==
    ASSUME NEW a \in Place, a.level > 1, NEW n \in Slots
    PROVE  /\ Under(a, n) \in Place /\ Under(a, n).level = a.level - 1
           /\ Under(a, n).part = a.part * SIZE + n
<1>1. a.level \in Nat /\ a.part \in Nat
  BY DEF Place
<1>2. a.level - 1 \in Nat
  BY <1>1
<1>3. SIZE \in Nat /\ n \in Nat
  BY PagingAssumption DEF Slots
<1>4. a.part * SIZE + n \in Nat
  BY <1>1, <1>3
<1> QED BY <1>2, <1>4 DEF Under, Place

\* A new table, with nothing in it, hung where nothing was.
Grown(place, t, n, f) ==
    [u \in DOMAIN place \cup {f} |-> IF u = f THEN Under(place[t], n) ELSE place[u]]

LEMMA TreeGrows ==
    ASSUME NEW m, NEW k, NEW L \in Levels, NEW root, NEW place, Tree(m, L, root, place),
           DOMAIN m \subseteq DOMAIN k,
           NEW t \in DOMAIN place, place[t].level > 1, NEW n \in Slots, ~Present(m[t][n]),
           NEW f \in DOMAIN k, f \notin DOMAIN place, LeadsTo(k, t, n, f),
           \A j \in Slots : ~Present(k[f][j]),
           \A u \in DOMAIN place, j \in Slots :
             place[u].level > 1 /\ ~(u = t /\ j = n) => k[u][j] = m[u][j]
    PROVE  Tree(k, L, root, Grown(place, t, n, f))
<1> DEFINE old == DOMAIN place
           new == Grown(place, t, n, f)
<1>1. /\ place \in [old -> Place] /\ old \subseteq DOMAIN m
      /\ root \in old /\ place[root] = [level |-> L, part |-> 0]
      /\ \A u \in old : place[u].level \in 1 .. L
      /\ \A u, v \in old : place[u] = place[v] => u = v
  BY DEF Tree
<1>2. /\ DOMAIN new = old \cup {f} /\ new[f] = Under(place[t], n) /\ \A u \in old : new[u] = place[u]
      /\ new = [u \in DOMAIN new |-> new[u]]
  BY DEF Grown
<1>3. place[t] \in Place /\ t \in old
  BY <1>1
<1>4. Under(place[t], n) \in Place /\ Under(place[t], n).level = place[t].level - 1
  BY <1>3, UnderIsPlace
<1>5. \A u \in old : place[u] # Under(place[t], n)
  <2> SUFFICES ASSUME NEW u \in old, place[u] = Under(place[t], n) PROVE FALSE
    OBVIOUS
  <2>1. u # root
    <3>1. place[u].level = place[t].level - 1 /\ place[t].level \in 1 .. L
      BY <1>1, <1>4
    <3>2. place[root].level = L /\ L \in Nat
      BY <1>1 DEF Levels
    <3> QED BY <3>1, <3>2
  <2>2. PICK v \in old, j \in Slots :
          /\ place[v].level > 1 /\ LeadsTo(m, v, j, u) /\ place[u] = Under(place[v], j)
    BY <2>1, Parent
  <2>3. place[v] \in Place
    BY <1>1
  <2>4. place[v] = place[t] /\ j = n
    <3> DEFINE a == place[v]
               b == place[t]
    <3>1. a \in Place /\ b \in Place /\ Under(a, j) = Under(b, n)
      BY <1>3, <2>2, <2>3
    <3> HIDE DEF a, b
    <3>2. a = b /\ j = n
      BY <3>1, UnderUnique
    <3> QED BY <3>2 DEF a, b
  <2>5. v = t
    BY <1>1, <2>4
  <2> QED BY <2>2, <2>4, <2>5 DEF LeadsTo
<1>6. new \in [DOMAIN new -> Place] /\ DOMAIN new \subseteq DOMAIN k
  <2>1. \A u \in DOMAIN new : new[u] \in Place
    BY <1>1, <1>2, <1>4
  <2> HIDE DEF new
  <2> QED BY <1>1, <1>2, <2>1
<1>7. \A u \in DOMAIN new : new[u].level \in 1 .. L
  <2> TAKE u \in DOMAIN new
  <2>1. CASE u = f
    <3>1. place[t].level \in 1 .. L /\ place[t].level > 1 /\ L \in Nat
      BY <1>1 DEF Levels
    <3> QED BY <1>2, <1>4, <2>1, <3>1
  <2>2. CASE u # f
    BY <1>1, <1>2, <2>2
  <2> QED BY <2>1, <2>2
<1>8. \A u, v \in DOMAIN new : new[u] = new[v] => u = v
  BY <1>1, <1>2, <1>5
<1> HIDE DEF new
<1>9. \A v \in DOMAIN new \ {root} : \E u \in DOMAIN new, j \in Slots :
         new[u].level > 1 /\ LeadsTo(k, u, j, v)
  <2> TAKE v \in DOMAIN new \ {root}
  <2>1. CASE v = f
    BY <1>2, <2>1
  <2>2. CASE v # f
    <3>1. PICK u \in old, j \in Slots : place[u].level > 1 /\ LeadsTo(m, u, j, v)
      BY <1>2, <2>2 DEF Tree
    <3>2. ~(u = t /\ j = n)
      BY <3>1 DEF LeadsTo
    <3>3. k[u][j] = m[u][j]
      BY <3>1, <3>2
    <3>4. LeadsTo(k, u, j, v)
      BY <3>1, <3>3 DEF LeadsTo
    <3> QED BY <1>2, <3>1, <3>4
  <2> QED BY <2>1, <2>2
<1>10. \A u \in DOMAIN new, j \in Slots : new[u].level > 1 /\ Present(k[u][j]) =>
         k[u][j].frame \in DOMAIN new /\ new[k[u][j].frame] = Under(new[u], j)
  <2> TAKE u \in DOMAIN new, j \in Slots
  <2> SUFFICES ASSUME new[u].level > 1, Present(k[u][j])
               PROVE  k[u][j].frame \in DOMAIN new /\ new[k[u][j].frame] = Under(new[u], j)
    OBVIOUS
  <2>1. u # f /\ u \in old /\ new[u] = place[u]
    BY <1>2
  <2>2. CASE u = t /\ j = n
    BY <1>2, <2>1, <2>2 DEF LeadsTo
  <2>3. CASE ~(u = t /\ j = n)
    <3>1. k[u][j] = m[u][j]
      BY <2>1, <2>3
    <3>2. m[u][j].frame \in old /\ place[m[u][j].frame] = Under(place[u], j)
      BY <2>1, <3>1 DEF Tree
    <3> QED BY <1>2, <2>1, <3>1, <3>2
  <2> QED BY <2>2, <2>3
<1>11. root \in DOMAIN new /\ new[root] = [level |-> L, part |-> 0]
  BY <1>1, <1>2
<1>12. Tree(k, L, root, new)
  BY <1>6, <1>7, <1>8, <1>9, <1>10, <1>11 DEF Tree
<1> QED BY <1>12 DEF new

-----------------------------------------------------------------------------
(* What the processor finds in a tree.                                     *)

WalkIs(f, m, L, root, page) ==
    f = [l \in 1 .. L |-> Follow(m, IF l = L THEN [frame |-> root, flags |-> {"present"}]
                                    ELSE f[l + 1], Index(page, l))]

LEMMA WalkExists ==
    ASSUME NEW m, NEW L \in Levels, NEW root, NEW page
    PROVE  \E f : WalkIs(f, m, L, root, page)
<1> DEFINE e == [frame |-> root, flags |-> {"present"}]
           F(x, l) == Follow(m, x, Index(page, l))
<1>1. CASE L = 2
  <2> DEFINE f == [l \in 1 .. 2 |-> IF l = 2 THEN F(e, 2) ELSE F(F(e, 2), 1)]
  <2>1. \A l \in 1 .. 2 : f[l] = F(IF l = 2 THEN e ELSE f[l + 1], l)
    <3> TAKE l \in 1 .. 2
    <3>1. f[2] = F(e, 2) /\ f[1] = F(F(e, 2), 1)
      OBVIOUS
    <3> HIDE DEF f, e, F
    <3>2. CASE l = 1
      BY <3>1, <3>2
    <3>3. CASE l = 2
      BY <3>1, <3>3
    <3> QED BY <3>2, <3>3
  <2>2. f = [l \in 1 .. 2 |-> f[l]]
    OBVIOUS
  <2> HIDE DEF f
  <2>3. f = [l \in 1 .. 2 |-> F(IF l = 2 THEN e ELSE f[l + 1], l)]
    <3> HIDE DEF F
    <3> QED BY <2>1, <2>2
  <2>4. WalkIs(f, m, L, root, page)
    BY <1>1, <2>3 DEF WalkIs
  <2> QED BY <2>4
<1>2. CASE L = 4
  <2> DEFINE e3 == F(F(e, 4), 3)
             f == [l \in 1 .. 4 |-> IF l = 4 THEN F(e, 4) ELSE IF l = 3 THEN e3
                                    ELSE IF l = 2 THEN F(e3, 2) ELSE F(F(e3, 2), 1)]
  <2>1. \A l \in 1 .. 4 : f[l] = F(IF l = 4 THEN e ELSE f[l + 1], l)
    <3> TAKE l \in 1 .. 4
    <3>1. f[4] = F(e, 4) /\ f[3] = e3 /\ f[2] = F(e3, 2) /\ f[1] = F(F(e3, 2), 1)
      <4> HIDE DEF e3, F, e
      <4> QED OBVIOUS
    <3>2. e3 = F(F(e, 4), 3)
      OBVIOUS
    <3> HIDE DEF f, e, e3, F
    <3>3. CASE l = 1
      BY <3>1, <3>3
    <3>4. CASE l = 2
      BY <3>1, <3>4
    <3>5. CASE l = 3
      BY <3>1, <3>2, <3>5
    <3>6. CASE l = 4
      BY <3>1, <3>6
    <3> QED BY <3>3, <3>4, <3>5, <3>6
  <2>2. f = [l \in 1 .. 4 |-> f[l]]
    <3> HIDE DEF e3, F, e
    <3> QED OBVIOUS
  <2> HIDE DEF f
  <2>3. f = [l \in 1 .. 4 |-> F(IF l = 4 THEN e ELSE f[l + 1], l)]
    <3> HIDE DEF F
    <3> QED BY <2>1, <2>2
  <2>4. WalkIs(f, m, L, root, page)
    BY <1>2, <2>3 DEF WalkIs
  <2> QED BY <2>4
<1> QED BY <1>1, <1>2 DEF Levels

PlaceOf(page, l) == [level |-> l, part |-> Part(page, l)]

\* What a walk has found on a level: the entry of the table there, if there is one.
Finds(e, m, place, page, l) ==
    /\ \A t \in DOMAIN place : place[t] = PlaceOf(page, l) => e = m[t][Index(page, l)]
    /\ (\A t \in DOMAIN place : place[t] # PlaceOf(page, l)) => e = Absent

LEMMA PlaceNext ==
    ASSUME NEW page \in Nat, NEW l \in 1 .. 3
    PROVE  /\ PlaceOf(page, l) = Under(PlaceOf(page, l + 1), Index(page, l + 1))
           /\ PlaceOf(page, l + 1) \in Place /\ PlaceOf(page, l + 1).level > 1
           /\ Index(page, l + 1) \in Slots
<1>1. l + 1 \in 1 .. 4 /\ (l + 1) - 1 = l /\ l + 1 \in 0 .. 4
  OBVIOUS
<1>2. /\ Part(page, l) = Part(page, l + 1) * SIZE + Index(page, l + 1)
      /\ Part(page, l + 1) \in Nat /\ Index(page, l + 1) \in Slots
  BY <1>1, PartIs
<1> QED BY <1>1, <1>2 DEF PlaceOf, Under, Place

LEMMA WalkFinds ==
    ASSUME NEW m, NEW L \in Levels, NEW root, NEW place, Tree(m, L, root, place),
           NEW page \in Nat, page < Span[L + 1], NEW f, WalkIs(f, m, L, root, page)
    PROVE  Finds(f[1], m, place, page, 1)
<1>1. L \in 1 .. 4 /\ L \in Nat
  BY DEF Levels
<1>2. \A l \in 1 .. L : f[l] = Follow(m, IF l = L THEN [frame |-> root, flags |-> {"present"}]
                                         ELSE f[l + 1], Index(page, l))
  BY DEF WalkIs
<1>3. Finds(f[L], m, place, page, L)
  <2>1. Part(page, L) = 0
    BY <1>1, PartIs
  <2>2. PlaceOf(page, L) = place[root] /\ root \in DOMAIN place /\ root \in DOMAIN m
    BY <2>1 DEF Tree, PlaceOf
  <2>3. f[L] = m[root][Index(page, L)]
    BY <1>1, <1>2, <2>2 DEF Follow, Present
  <2>4. \A t \in DOMAIN place : place[t] = PlaceOf(page, L) => t = root
    BY <2>2 DEF Tree
  <2> QED BY <2>2, <2>3, <2>4 DEF Finds
<1>4. ASSUME NEW l \in 1 .. 3, l < L, Finds(f[l + 1], m, place, page, l + 1)
      PROVE  Finds(f[l], m, place, page, l)
  <2> DEFINE up == PlaceOf(page, l + 1)
             i == Index(page, l + 1)
  <2>1. PlaceOf(page, l) = Under(up, i) /\ up \in Place /\ up.level > 1 /\ i \in Slots
    BY PlaceNext
  <2>2. f[l] = Follow(m, f[l + 1], Index(page, l))
    BY <1>1, <1>2, <1>4
  <2>3. ASSUME NEW v \in DOMAIN place, place[v] = PlaceOf(page, l)
        PROVE  \E u \in DOMAIN place : place[u] = up /\ LeadsTo(m, u, i, v)
    <3>1. v # root
      <4>1. place[v].level = l /\ place[root].level = L
        BY <2>3 DEF PlaceOf, Tree
      <4> QED BY <1>4, <4>1
    <3>2. PICK u \in DOMAIN place, n \in Slots :
            place[u].level > 1 /\ LeadsTo(m, u, n, v) /\ place[v] = Under(place[u], n)
      BY <3>1, Parent
    <3> DEFINE a == place[u]
    <3>3. a \in Place /\ Under(a, n) = Under(up, i)
      BY <2>1, <2>3, <3>2 DEF Tree
    <3> HIDE DEF a, up, i
    <3>4. a = up /\ n = i
      BY <2>1, <3>3, UnderUnique
    <3> QED BY <3>2, <3>4 DEF a
  <2> HIDE DEF up, i
  <2>4. CASE \E t \in DOMAIN place : place[t] = up
    <3>1. PICK t \in DOMAIN place : place[t] = up
      BY <2>4
    <3>2. f[l + 1] = m[t][i]
      BY <1>4, <3>1 DEF Finds, up, i
    <3>3. CASE Present(m[t][i])
      <4> DEFINE c == m[t][i].frame
      <4>1. c \in DOMAIN place /\ place[c] = Under(up, i) /\ c \in DOMAIN m
        BY <2>1, <3>1, <3>3 DEF Tree
      <4>2. f[l] = m[c][Index(page, l)]
        BY <2>2, <3>2, <3>3, <4>1 DEF Follow
      <4> HIDE DEF c
      <4>3. \A v \in DOMAIN place : place[v] = PlaceOf(page, l) => v = c
        BY <2>1, <4>1 DEF Tree
      <4> QED BY <2>1, <4>1, <4>2, <4>3 DEF Finds
    <3>4. CASE ~Present(m[t][i])
      <4>1. f[l] = Absent
        BY <2>2, <3>2, <3>4 DEF Follow
      <4>2. \A v \in DOMAIN place : place[v] # PlaceOf(page, l)
        <5> SUFFICES ASSUME NEW v \in DOMAIN place, place[v] = PlaceOf(page, l) PROVE FALSE
          OBVIOUS
        <5>1. PICK u \in DOMAIN place : place[u] = up /\ LeadsTo(m, u, i, v)
          BY <2>3
        <5>2. u = t
          BY <3>1, <5>1 DEF Tree
        <5> QED BY <3>4, <5>1, <5>2 DEF LeadsTo
      <4> QED BY <4>1, <4>2 DEF Finds
    <3> QED BY <3>3, <3>4
  <2>5. CASE ~\E t \in DOMAIN place : place[t] = up
    <3>1. f[l + 1] = Absent
      BY <1>4, <2>5 DEF Finds, up
    <3>2. f[l] = Absent
      BY <2>2, <3>1 DEF Follow, Present, Absent
    <3>3. \A v \in DOMAIN place : place[v] # PlaceOf(page, l)
      BY <2>3, <2>5
    <3> QED BY <3>2, <3>3 DEF Finds
  <2> QED BY <2>4, <2>5
<1>5. CASE L = 2
  BY <1>3, <1>4, <1>5
<1>6. CASE L = 4
  <2>1. Finds(f[3], m, place, page, 3)
    BY <1>3, <1>4, <1>6
  <2>2. Finds(f[2], m, place, page, 2)
    BY <1>4, <1>6, <2>1
  <2> QED BY <1>4, <1>6, <2>2
<1> QED BY <1>5, <1>6 DEF Levels

\* The processor's walk ends at the entry of the tree's table for the page.
LEMMA EntryFound ==
    ASSUME NEW m, NEW root, NEW place, machine.levels \in Levels,
           Tree(m, machine.levels, root, place),
           NEW page \in Nat, page < Span[machine.levels + 1],
           ~(root = BootRoot /\ page < machine.boot)
    PROVE  Finds(EntryOf(m, root, page), m, place, page, 1)
<1> DEFINE entry == CHOOSE f : WalkIs(f, m, machine.levels, root, page)
<1>1. WalkIs(entry, m, machine.levels, root, page)
  BY WalkExists
<1>2. EntryOf(m, root, page) = entry[1]
  BY DEF EntryOf, WalkIs
<1> HIDE DEF entry
<1>3. Finds(entry[1], m, place, page, 1)
  BY <1>1, WalkFinds
<1> QED BY <1>2, <1>3

-----------------------------------------------------------------------------
(* The window.                                                             *)

LEMMA MachineIs ==
    ASSUME machine \in Machines
    PROVE  /\ machine.levels \in Levels /\ machine.ram \in Nat \ {0}
           /\ machine.boot \in Nat /\ machine.ram <= machine.boot
           /\ machine.boot + 2 <= Span[machine.levels + 1]
           /\ machine.ram + 2 <= Span[machine.levels + 1]
           /\ \A frame : Masked(frame) = frame
           /\ \A r \in machine.requests \cup {machine.first[n] : n \in DOMAIN machine.first} :
                /\ r \in Request /\ r.page < Span[machine.levels + 1] /\ "present" \in r.flags
                /\ r.page < machine.ram => r.frame = r.page
<1>1. /\ machine.levels \in Levels /\ machine.ram \in Nat \ {0}
      /\ machine.boot \in Nat /\ machine.ram <= machine.boot
      /\ machine.boot + 2 <= Span[machine.levels + 1]
      /\ \A r \in machine.requests \cup {machine.first[n] : n \in DOMAIN machine.first} :
           /\ r \in Request /\ r.page < Span[machine.levels + 1] /\ "present" \in r.flags
           /\ r.page < machine.ram => r.frame = r.page
  BY MachinesAssumption DEF Levels
<1>2. \A answer : cpuid_extended(answer) = 0
  BY DEF cpuid_extended, cpuid, cpuid_supported, Flipped, FlippedFlag
<1>3. KeptBits >= FrameBits(machine.levels)
  <2>1. CASE machine.levels = 2
    BY <2>1 DEF KeptBits, FrameBits
  <2>2. CASE machine.levels # 2
    <3>1. (76 - 0) % 64 = 12
      OBVIOUS
    <3> QED BY <1>2, <2>2, <3>1 DEF KeptBits, FrameBits
  <2> QED BY <2>1, <2>2
<1>4. machine.ram + 2 <= Span[machine.levels + 1]
  <2>1. machine.levels + 1 \in 1 .. 5
    BY <1>1 DEF Levels
  <2>2. Span[machine.levels + 1] \in Nat
    BY <2>1, SpanIs
  <2> QED BY <1>1, <2>2
<1> QED BY <1>1, <1>3, <1>4 DEF Masked

\* The table that the window's own entry lies in: the entry before it shows the
\* table itself.
WindowAt(m, place, w) ==
    w \in DOMAIN place /\ place[w] = PlaceOf(Window, 1) /\ LeadsTo(m, w, LastSlot - 1, w)

LEMMA WindowShows ==
    ASSUME machine \in Machines, NEW m, NEW root, NEW place,
           Tree(m, machine.levels, root, place), NEW w, WindowAt(m, place, w)
    PROVE  /\ Shows(m, root, InvalidatorPage) = w
           /\ Shows(m, root, Window) = IF Present(m[w][LastSlot]) THEN m[w][LastSlot].frame
                                       ELSE NoFrame
<1> DEFINE L == machine.levels
<1>1. L \in Levels /\ machine.boot \in Nat /\ machine.boot + 2 <= Span[L + 1]
  BY MachineIs
<1>2. Window = Span[L + 1] - 1 /\ InvalidatorPage = Window - 1
  BY DEF Window, InvalidatorPage
<1>3. /\ Window \in Nat /\ InvalidatorPage \in Nat /\ 1 \in 1 .. L
      /\ \A l \in 1 .. L : Index(Window, l) = LastSlot
      /\ Part(InvalidatorPage, 1) = Part(Window, 1)
      /\ Index(InvalidatorPage, 1) = LastSlot - 1
  <2>1. 1 \in 1 .. L
    BY <1>1 DEF Levels
  <2> QED BY <1>1, <1>2, <2>1, LastPages
<1>4. Window < Span[L + 1] /\ InvalidatorPage < Span[L + 1]
      /\ ~(Window < machine.boot) /\ ~(InvalidatorPage < machine.boot)
  <2>1. Span[L + 1] \in Nat
    <3>1. L + 1 \in 1 .. 5
      BY <1>1 DEF Levels
    <3> QED BY <3>1, SpanIs
  <2> QED BY <1>1, <1>2, <2>1
<1>5. Finds(EntryOf(m, root, Window), m, place, Window, 1)
  BY <1>1, <1>3, <1>4, EntryFound
<1>6. Finds(EntryOf(m, root, InvalidatorPage), m, place, InvalidatorPage, 1)
  BY <1>1, <1>3, <1>4, EntryFound
<1>7. PlaceOf(InvalidatorPage, 1) = PlaceOf(Window, 1)
  BY <1>3 DEF PlaceOf
<1>8. EntryOf(m, root, Window) = m[w][LastSlot]
  BY <1>3, <1>5 DEF Finds, WindowAt
<1>9. EntryOf(m, root, InvalidatorPage) = m[w][LastSlot - 1]
  BY <1>3, <1>6, <1>7 DEF Finds, WindowAt
<1> QED BY <1>8, <1>9 DEF Shows, WindowAt, LeadsTo

-----------------------------------------------------------------------------
(* The invariant.                                                          *)

Inside == {"point", "use", "unlock"}

TypeInv ==
    /\ machine \in Machines
    /\ mem \in [0 .. (machine.ram - 1) -> [Slots -> Entry]]
    /\ free \in SUBSET (1 .. (machine.ram - 1))
    /\ lock_paging \in {0, 1}
    /\ context \in Nat \cup {NoFrame}
    /\ cr3 \in [CPUs -> Nat \cup {NoFrame}]
    /\ tlb \in [CPUs -> Nat \cup {NoFrame}]
    /\ phase \in {"init", "context", "tables", "map", "running"}
    /\ mapped \in Nat
    /\ pc \in [CPUs -> {"idle", "lock", "stopped"} \cup Inside]
    /\ call \in [CPUs -> Request \cup {NoCall}]
    /\ at \in [CPUs -> [table : Nat, level : Nat]]

\* How far the boot processor is, alone until it switches.
Booted ==
    /\ phase # "running" => /\ cr3[BootCPU] = BootRoot
                            /\ \A p \in CPUs \ {BootCPU} : pc[p] = "idle"
    /\ phase = "running" => \A p \in CPUs : cr3[p] = context
    /\ phase \notin {"map", "running"} =>
         pc[BootCPU] \in {"idle", "stopped"} /\ call[BootCPU] = NoCall /\ mapped = 0
    /\ context = NoFrame <=> phase \in {"init", "context"}
    /\ mapped <= machine.ram
    /\ phase = "map" /\ pc[BootCPU] \in {"lock", "point", "use"} =>
         mapped = 0 \/ call[BootCPU].page = mapped - 1

Asked ==
    \A p \in CPUs : pc[p] \in {"lock"} \cup Inside =>
        /\ call[p] \in Request /\ call[p].page < InvalidatorPage /\ "present" \in call[p].flags
        /\ call[p].page < machine.ram => call[p].frame = call[p].page

OneInside ==
    \A p \in CPUs : pc[p] \in Inside =>
        lock_paging = 1 /\ \A q \in CPUs : pc[q] \in Inside => p = q

\* Each frame that memory_alloc gave is one table of one tree.
Trees(b, c) ==
    /\ Tree(mem, machine.levels, BootRoot, b)
    /\ context = NoFrame => DOMAIN c = {}
    /\ context # NoFrame => Tree(mem, machine.levels, context, c)
    /\ DOMAIN b \cap DOMAIN c = {} /\ DOMAIN b \cup DOMAIN c = DOMAIN mem \ free

\* Each tree has its window, once it is built.
Windows(b, c) ==
    /\ phase # "init" => \E w : WindowAt(mem, b, w)
    /\ phase \in {"map", "running"} => \E w : WindowAt(mem, c, w)

\* The table that boot is to hang the next one from is the last so far on the way
\* to the window, and empty.
LastOf(place, a) ==
    /\ a.table \in DOMAIN place /\ place[a.table] = PlaceOf(Window, a.level)
    /\ \A n \in Slots : ~Present(mem[a.table][n])

Building(b, c) ==
    /\ phase = "init" => LastOf(b, at[BootCPU])
    /\ phase = "tables" =>
         /\ LastOf(c, at[BootCPU]) /\ tlb[BootCPU] = at[BootCPU].table
         /\ \A t \in DOMAIN c : t # at[BootCPU].table => c[t].level > at[BootCPU].level

\* Each processor walks down to the table of its page, and its window is open on
\* the table it walks, in whichever tree it runs on.
Walking(b, c) ==
    \A p \in CPUs : pc[p] \in {"point", "use"} =>
        /\ at[p].table \in DOMAIN c /\ c[at[p].table] = PlaceOf(call[p].page, at[p].level)
        /\ pc[p] = "use" =>
             /\ tlb[p] = NoFrame
             /\ \E w : /\ WindowAt(mem, IF phase = "running" THEN c ELSE b, w)
                       /\ LeadsTo(mem, w, LastSlot, at[p].table)

\* The tree shows a page of RAM where it lies.
ShowsItself(c, page) ==
    \E t \in DOMAIN c : c[t] = PlaceOf(page, 1) /\ LeadsTo(mem, t, Index(page, 1), page)

\* The pages of RAM that the context shows so far.
ShownRAM ==
    {page \in 0 .. (machine.ram - 1) :
        \/ phase = "running"
        \/ phase = "map" /\ page < mapped
             /\ (pc[BootCPU] \in {"idle", "unlock"} \/ page # mapped - 1)}

Identity(c) == \A page \in ShownRAM : ShowsItself(c, page)

Located(b, c) ==
    Trees(b, c) /\ Windows(b, c) /\ Building(b, c) /\ Walking(b, c) /\ Identity(c)

PagingInv == TypeInv /\ Booted /\ Asked /\ OneInside /\ \E b, c : Located(b, c)

\* The tree a processor runs on.
LEMMA RunsOn ==
    ASSUME TypeInv, Booted, NEW b, NEW c, Located(b, c), NEW p \in CPUs,
           p = BootCPU \/ phase = "running", phase # "init"
    PROVE  /\ Tree(mem, machine.levels, cr3[p], IF phase = "running" THEN c ELSE b)
           /\ \E w : WindowAt(mem, IF phase = "running" THEN c ELSE b, w)
<1>1. CASE phase = "running"
  <2>1. cr3[p] = context /\ context # NoFrame
    BY <1>1 DEF Booted
  <2> QED BY <1>1, <2>1 DEF Located, Trees, Windows
<1>2. CASE phase # "running"
  <2>1. cr3[p] = BootRoot
    BY <1>2 DEF Booted
  <2> QED BY <1>2, <2>1 DEF Located, Trees, Windows
<1> QED BY <1>1, <1>2

LEMMA UsesItsTable == PagingInv => WindowShowsTable
<1> SUFFICES ASSUME PagingInv, NEW p \in CPUs, pc[p] = "use" PROVE Through(p) = at[p].table
  BY DEF WindowShowsTable
<1>1. TypeInv /\ Booted
  BY DEF PagingInv
<1>2. PICK b, c : Located(b, c)
  BY DEF PagingInv
<1> DEFINE place == IF phase = "running" THEN c ELSE b
<1>3. PICK w : WindowAt(mem, place, w) /\ LeadsTo(mem, w, LastSlot, at[p].table)
  BY <1>2 DEF Located, Walking
<1>4. tlb[p] = NoFrame
  BY <1>2 DEF Located, Walking
<1>5. (p = BootCPU \/ phase = "running") /\ phase # "init"
  BY <1>1, PagingAssumption DEF Booted
<1>6. Tree(mem, machine.levels, cr3[p], place)
  BY <1>1, <1>2, <1>5, RunsOn
<1> HIDE DEF place
<1>7. machine \in Machines
  BY <1>1 DEF TypeInv
<1>8. Shows(mem, cr3[p], Window) = at[p].table
  BY <1>3, <1>6, <1>7, WindowShows DEF LeadsTo
<1> QED BY <1>4, <1>8 DEF Through

LEMMA InitHolds == Init => PagingInv
<1> SUFFICES ASSUME Init PROVE PagingInv
  OBVIOUS
<1> DEFINE L == machine.levels
           e == [n \in Slots |-> Absent]
<1>1. machine \in Machines
  BY DEF Init
<1>2. L \in Levels /\ L \in Nat /\ machine.ram \in Nat \ {0}
  BY <1>1, MachineIs DEF Levels
<1>3. e \in [Slots -> Entry] /\ Garbage \in [Slots -> Entry] /\ Empty = e
      /\ \A n \in Slots : ~Present(e[n])
  BY DEF Entry, Garbage, Empty, Absent, Present, Slots, Flag
<1>4. TypeInv
  <2>1. mem \in [0 .. (machine.ram - 1) -> [Slots -> Entry]]
    BY <1>2, <1>3 DEF Init
  <2>2. free \in SUBSET (1 .. (machine.ram - 1)) /\ lock_paging \in {0, 1}
        /\ context \in Nat \cup {NoFrame} /\ mapped \in Nat
    BY DEF Init
  <2>3. cr3 \in [CPUs -> Nat \cup {NoFrame}] /\ tlb \in [CPUs -> Nat \cup {NoFrame}]
    BY DEF Init, BootRoot
  <2>4. at \in [CPUs -> [table : Nat, level : Nat]]
    BY <1>2 DEF Init, BootRoot
  <2>5. pc \in [CPUs -> {"idle", "lock", "stopped"} \cup Inside]
        /\ call \in [CPUs -> Request \cup {NoCall}]
        /\ phase \in {"init", "context", "tables", "map", "running"}
    BY DEF Init
  <2> QED BY <1>1, <2>1, <2>2, <2>3, <2>4, <2>5 DEF TypeInv
<1>5. Booted
  BY <1>2, PagingAssumption DEF Init, Booted
<1>6. Asked /\ OneInside
  BY DEF Init, Asked, OneInside, Inside
<1>7. PICK b : b = [t \in {BootRoot} |-> [level |-> L, part |-> 0]]
  OBVIOUS
<1>8. PICK c : c = [t \in {} |-> 0]
  OBVIOUS
<1>9. DOMAIN mem = 0 .. (machine.ram - 1) /\ BootRoot \in DOMAIN mem /\ mem[BootRoot] = e
  BY <1>2, <1>3 DEF Init, BootRoot
<1>10. Trees(b, c)
  <2>1. \A n \in Slots : ~Present(mem[BootRoot][n])
    BY <1>3, <1>9
  <2>2. Tree(mem, L, BootRoot, b)
    BY <1>2, <1>7, <1>9, <2>1, TreeRoot
  <2>3. context = NoFrame /\ DOMAIN c = {}
    BY <1>8 DEF Init
  <2>4. DOMAIN b \cap DOMAIN c = {} /\ DOMAIN b \cup DOMAIN c = DOMAIN mem \ free
    <3>1. free = 1 .. (machine.ram - 1) /\ DOMAIN b = {0}
      BY <1>7 DEF Init, BootRoot
    <3>2. (0 .. (machine.ram - 1)) \ (1 .. (machine.ram - 1)) = {0}
      BY <1>2
    <3> QED BY <1>9, <2>3, <3>1, <3>2
  <2> QED BY <2>2, <2>3, <2>4 DEF Trees
<1>11. Windows(b, c)
  BY DEF Init, Windows
<1>12. Building(b, c)
  <2>1. at[BootCPU] = [table |-> BootRoot, level |-> L]
    BY PagingAssumption DEF Init
  <2>2. Part(Window, L) = 0
    BY <1>2, LastPages DEF Window
  <2>3. BootRoot \in DOMAIN b /\ b[BootRoot] = PlaceOf(Window, L)
    BY <1>7, <2>2 DEF PlaceOf
  <2>4. phase = "init"
    BY DEF Init
  <2>5. LastOf(b, at[BootCPU])
    BY <1>3, <1>9, <2>1, <2>3 DEF LastOf
  <2> QED BY <2>4, <2>5 DEF Building
<1>13. Walking(b, c) /\ Identity(c)
  BY DEF Init, Walking, Identity, ShownRAM
<1> QED BY <1>4, <1>5, <1>6, <1>10, <1>11, <1>12, <1>13 DEF PagingInv, Located

-----------------------------------------------------------------------------
(* Frames and entries written.                                             *)

LEMMA NextFrameIs ==
    ASSUME TypeInv, free # {}
    PROVE  NextFrame \in free /\ NextFrame \in 1 .. (machine.ram - 1) /\ NextFrame \in DOMAIN mem
           /\ NextFrame \in Nat /\ NextFrame # BootRoot
<1>1. machine.ram \in Nat /\ free \subseteq 1 .. (machine.ram - 1)
      /\ DOMAIN mem = 0 .. (machine.ram - 1)
  BY MachineIs DEF TypeInv
<1>2. NextFrame \in free
  BY DEF NextFrame
<1> HIDE DEF NextFrame
<1> QED BY <1>1, <1>2 DEF BootRoot

LEMMA EntriesAre ==
    ASSUME TypeInv, NEW f \in Nat
    PROVE  /\ ToTable(f) \in Entry /\ Present(ToTable(f)) /\ ToTable(f).frame = f
           /\ ToWindow(f) \in Entry /\ Present(ToWindow(f)) /\ ToWindow(f).frame = f
           /\ Absent \in Entry /\ ~Present(Absent)
           /\ Empty \in [Slots -> Entry] /\ \A n \in Slots : Empty[n] = Absent
<1>1. Masked(f) = f
  BY MachineIs DEF TypeInv
<1>2. ToTable(f) \in Entry /\ Present(ToTable(f)) /\ ToTable(f).frame = f
  BY <1>1 DEF ToTable, Entry, Present, Flag
<1>3. ToWindow(f) \in Entry /\ Present(ToWindow(f)) /\ ToWindow(f).frame = f
  BY <1>1 DEF ToWindow, Entry, Present, Flag
<1>4. Absent \in Entry /\ ~Present(Absent)
  BY DEF Absent, Entry, Present
<1>5. Empty \in [Slots -> Entry] /\ \A n \in Slots : Empty[n] = Absent
  BY <1>4 DEF Empty, Slots
<1> QED BY <1>2, <1>3, <1>4, <1>5

LEMMA WriteIs ==
    ASSUME NEW F, NEW m \in [F -> [Slots -> Entry]], NEW t \in F, NEW n \in Slots, NEW e \in Entry,
           NEW k, k = Write(m, t, n, e)
    PROVE  /\ k \in [F -> [Slots -> Entry]] /\ k[t][n] = e
           /\ \A u \in F, j \in Slots : ~(u = t /\ j = n) => k[u][j] = m[u][j]
           /\ \A u \in F : u # t => k[u] = m[u]
<1>1. k = [m EXCEPT ![t] = [m[t] EXCEPT ![n] = e]]
  BY DEF Write
<1>2. [m[t] EXCEPT ![n] = e] \in [Slots -> Entry]
  OBVIOUS
<1>3. k \in [F -> [Slots -> Entry]]
  BY <1>1, <1>2
<1>4. k[t][n] = e
  BY <1>1
<1>5. \A u \in F : u # t => k[u] = m[u]
  BY <1>1
<1>6. \A j \in Slots : j # n => k[t][j] = m[t][j]
  BY <1>1
<1> QED BY <1>3, <1>4, <1>5, <1>6

\* The same, under one name.
Written(F, m, k, t, n, e) ==
    /\ k \in [F -> [Slots -> Entry]] /\ k[t][n] = e
    /\ \A u \in F, j \in Slots : ~(u = t /\ j = n) => k[u][j] = m[u][j]
    /\ \A u \in F : u # t => k[u] = m[u]

LEMMA IsWritten ==
    ASSUME NEW F, NEW m \in [F -> [Slots -> Entry]], NEW t \in F, NEW n \in Slots, NEW e \in Entry,
           NEW k, k = Write(m, t, n, e)
    PROVE  Written(F, m, k, t, n, e)
BY WriteIs DEF Written

LEMMA ClearIs ==
    ASSUME NEW F, NEW m \in [F -> [Slots -> Entry]], NEW f \in F, NEW e \in [Slots -> Entry],
           NEW k, k = [m EXCEPT ![f] = e]
    PROVE  /\ k \in [F -> [Slots -> Entry]] /\ k[f] = e
           /\ \A u \in F : u # f => k[u] = m[u]
OBVIOUS

-----------------------------------------------------------------------------
(* One processor inside.                                                   *)

LEMMA Onward ==
    ASSUME TypeInv, OneInside, NEW p \in CPUs, pc[p] \in Inside, NEW where \in Inside, Go(p, where),
           lock_paging' = lock_paging
    PROVE  OneInside'
<1>1. /\ pc'[p] = where /\ \A q \in CPUs : q # p => pc'[q] = pc[q]
  BY DEF Go, TypeInv
<1> QED BY <1>1 DEF OneInside

LEMMA Entering ==
    ASSUME TypeInv, OneInside, NEW p \in CPUs, lock_paging = 0, NEW where \in Inside, Go(p, where),
           lock_paging' = 1
    PROVE  OneInside'
<1>1. /\ pc'[p] = where /\ \A q \in CPUs : q # p => pc'[q] = pc[q]
  BY DEF Go, TypeInv
<1>2. \A q \in CPUs : pc[q] \notin Inside
  BY DEF OneInside
<1> QED BY <1>1, <1>2 DEF OneInside

LEMMA Leaving ==
    ASSUME TypeInv, OneInside, NEW p \in CPUs, pc[p] \in Inside, NEW where, where \notin Inside,
           Go(p, where)
    PROVE  OneInside'
<1>1. /\ pc'[p] = where /\ \A q \in CPUs : q # p => pc'[q] = pc[q]
  BY DEF Go, TypeInv
<1> QED BY <1>1 DEF OneInside

LEMMA StayingOut ==
    ASSUME TypeInv, OneInside, NEW p \in CPUs, NEW where, where \notin Inside,
           Go(p, where), lock_paging' = lock_paging
    PROVE  OneInside'
<1>1. /\ pc'[p] = where /\ \A q \in CPUs : q # p => pc'[q] = pc[q]
  BY DEF Go, TypeInv
<1> QED BY <1>1 DEF OneInside

-----------------------------------------------------------------------------
(* What a step leaves of the tree of the context.                          *)

\* The pages show what they showed: a tree grows into another, and in memory k the
\* entries of the lowest level are what they were, or not there yet.
Extends(c, d, k) ==
    /\ DOMAIN c \subseteq DOMAIN d /\ \A t \in DOMAIN c : d[t] = c[t]
    /\ \A t \in DOMAIN d, page \in Nat : page < InvalidatorPage /\ d[t] = PlaceOf(page, 1) =>
         k[t][Index(page, 1)] = IF t \in DOMAIN c THEN mem[t][Index(page, 1)] ELSE Absent

LEMMA BesideWindow ==
    ASSUME machine \in Machines
    PROVE  /\ LastSlot \in Slots /\ LastSlot - 1 \in Slots /\ Window \in Nat
           /\ \A l \in 1 .. machine.levels : Index(Window, l) = LastSlot
           /\ Part(Window, machine.levels) = 0
           /\ \A page \in Nat : page < machine.ram => page < InvalidatorPage
           /\ \A page \in Nat : page < InvalidatorPage => page < Span[machine.levels + 1]
           /\ \A page \in Nat : page < InvalidatorPage /\ PlaceOf(page, 1) = PlaceOf(Window, 1) =>
                Index(page, 1) # LastSlot /\ Index(page, 1) # LastSlot - 1
<1> DEFINE L == machine.levels
           s == Span[L + 1]
<1>1. L \in Levels /\ machine.ram \in Nat \ {0} /\ machine.ram + 2 <= s
  BY MachineIs
<1>2. Window = s - 1 /\ InvalidatorPage = Window - 1
  BY DEF Window, InvalidatorPage
<1>3. s \in Nat
  <2>1. L + 1 \in 1 .. 5
    BY <1>1 DEF Levels
  <2> QED BY <2>1, SpanIs
<1>4. /\ LastSlot \in Slots /\ LastSlot - 1 \in Slots /\ Window \in Nat
      /\ \A l \in 1 .. L : Index(Window, l) = LastSlot
      /\ Part(Window, L) = 0
      /\ \A page \in Nat : page < Window - 1 /\ Part(page, 1) = Part(Window, 1) =>
           Index(page, 1) # LastSlot /\ Index(page, 1) # LastSlot - 1
  BY <1>1, <1>2, LastPages
<1>5. \A page \in Nat : page < machine.ram => page < InvalidatorPage
  <2> HIDE DEF s, L
  <2> QED BY <1>1, <1>2, <1>3
<1>6. \A page \in Nat : page < InvalidatorPage => page < s
  <2> HIDE DEF s, L
  <2> QED BY <1>1, <1>2, <1>3
<1>7. ASSUME NEW page \in Nat, page < InvalidatorPage, PlaceOf(page, 1) = PlaceOf(Window, 1)
      PROVE  Index(page, 1) # LastSlot /\ Index(page, 1) # LastSlot - 1
  <2>1. Part(page, 1) = Part(Window, 1)
    BY <1>7 DEF PlaceOf
  <2> QED BY <1>2, <1>4, <1>7, <2>1
<1> QED BY <1>4, <1>5, <1>6, <1>7

LEMMA IndexIsSlot ==
    ASSUME NEW page \in Nat, NEW l \in 1 .. 4
    PROVE  Index(page, l) \in Slots
BY PartIs

LEMMA IdentityKept ==
    ASSUME TypeInv, NEW c, NEW d, NEW k, Identity(c), Extends(c, d, k), k = mem', machine' = machine,
           ShownRAM' \subseteq ShownRAM
    PROVE  Identity(d)'
<1> SUFFICES ASSUME NEW page \in ShownRAM' PROVE ShowsItself(d, page)'
  BY DEF Identity
<1>1. page \in ShownRAM /\ page \in Nat /\ page < machine.ram
  <2>1. page \in ShownRAM /\ page \in 0 .. (machine.ram - 1) /\ machine.ram \in Nat
    BY MachineIs DEF TypeInv, ShownRAM
  <2> QED BY <2>1
<1>2. PICK t \in DOMAIN c : c[t] = PlaceOf(page, 1) /\ LeadsTo(mem, t, Index(page, 1), page)
  BY <1>1 DEF Identity, ShowsItself
<1>3. page < InvalidatorPage
  BY <1>1, BesideWindow DEF TypeInv
<1>4. t \in DOMAIN d /\ d[t] = PlaceOf(page, 1)
  BY <1>2 DEF Extends
<1>5. k[t][Index(page, 1)] = mem[t][Index(page, 1)]
  BY <1>1, <1>2, <1>3, <1>4 DEF Extends
<1>6. LeadsTo(mem', t, Index(page, 1), page)
  BY <1>2, <1>5 DEF LeadsTo
<1> QED BY <1>4, <1>6 DEF ShowsItself

\* A write to a slot of a table of the lowest level, or of none.
LEMMA LowWrite ==
    ASSUME NEW F, NEW m \in [F -> [Slots -> Entry]], NEW t \in F, NEW n \in Slots, NEW e \in Entry,
           NEW k, k = Write(m, t, n, e), NEW L, NEW root, NEW place, Tree(m, L, root, place),
           t \in DOMAIN place => place[t].level = 1
    PROVE  Tree(k, L, root, place)
<1>1. k \in [F -> [Slots -> Entry]] /\ \A u \in F : u # t => k[u] = m[u]
  BY WriteIs
<1>2. \A u \in DOMAIN place : u \in F /\ (place[u].level > 1 => k[u] = m[u])
  BY <1>1 DEF Tree
<1> QED BY <1>1, <1>2, TreeKept

LEMMA InvalidatorWritten ==
    ASSUME TypeInv, NEW b, NEW c, Trees(b, c), NEW place \in {b, c}, NEW w,
           WindowAt(mem, place, w), NEW e \in Entry,
           NEW k, k = Write(mem, w, LastSlot, e)
    PROVE  /\ k \in [0 .. (machine.ram - 1) -> [Slots -> Entry]]
           /\ Tree(k, machine.levels, BootRoot, b)
           /\ context # NoFrame => Tree(k, machine.levels, context, c)
           /\ \A v : WindowAt(mem, b, v) => WindowAt(k, b, v)
           /\ \A v : WindowAt(mem, c, v) => WindowAt(k, c, v)
           /\ k[w][LastSlot] = e /\ (\A u \in DOMAIN mem : u # w => k[u] = mem[u])
           /\ Extends(c, c, k)
<1> DEFINE F == 0 .. (machine.ram - 1)
<1>1. mem \in [F -> [Slots -> Entry]] /\ machine \in Machines
  BY DEF TypeInv
<1>2. /\ LastSlot \in Slots /\ LastSlot - 1 \in Slots /\ LastSlot # LastSlot - 1
  <2>1. LastSlot \in Slots /\ LastSlot - 1 \in Slots
    BY <1>1, BesideWindow
  <2>2. LastSlot \in Int
    BY <2>1 DEF Slots
  <2> QED BY <2>1, <2>2
<1>3. DOMAIN b \subseteq F /\ DOMAIN c \subseteq F
  <2>1. DOMAIN mem = F
    BY <1>1
  <2> QED BY <2>1 DEF Trees
<1>4. w \in F /\ (w \in DOMAIN b => place = b) /\ (w \in DOMAIN c => place = c)
  BY <1>3 DEF WindowAt, Trees
<1> HIDE DEF F
<1>5. /\ k \in [F -> [Slots -> Entry]] /\ k[w][LastSlot] = e
      /\ \A u \in F, j \in Slots : ~(u = w /\ j = LastSlot) => k[u][j] = mem[u][j]
      /\ \A u \in F : u # w => k[u] = mem[u]
  <2>1. w \in F /\ mem \in [F -> [Slots -> Entry]] /\ LastSlot \in Slots
    BY <1>1, <1>2, <1>4
  <2>2. e \in Entry /\ k = Write(mem, w, LastSlot, e)
    OBVIOUS
  <2>3. PICK m, n : m = mem /\ n = LastSlot
    OBVIOUS
  <2>4. w \in F /\ m \in [F -> [Slots -> Entry]] /\ n \in Slots /\ k = Write(m, w, n, e)
    BY <2>1, <2>2, <2>3
  <2>5. /\ k \in [F -> [Slots -> Entry]] /\ k[w][n] = e
        /\ \A u \in F, j \in Slots : ~(u = w /\ j = n) => k[u][j] = m[u][j]
        /\ \A u \in F : u # w => k[u] = m[u]
    BY ONLY e \in Entry, <2>4, WriteIs
  <2> QED BY <2>3, <2>5
<1>6. place[w].level = 1
  BY DEF WindowAt, PlaceOf
<1>7. Tree(k, machine.levels, BootRoot, b)
  <2>1. w \in DOMAIN b => b[w].level = 1
    BY <1>4, <1>6
  <2>2. Tree(mem, machine.levels, BootRoot, b)
    BY DEF Trees
  <2> QED BY <1>1, <1>2, <1>4, <2>1, <2>2, LowWrite
<1>8. context # NoFrame => Tree(k, machine.levels, context, c)
  <2> SUFFICES ASSUME context # NoFrame PROVE Tree(k, machine.levels, context, c)
    OBVIOUS
  <2>1. w \in DOMAIN c => c[w].level = 1
    BY <1>4, <1>6
  <2>2. Tree(mem, machine.levels, context, c)
    BY DEF Trees
  <2> QED BY <1>1, <1>2, <1>4, <2>1, <2>2, LowWrite
<1>9. ASSUME NEW v \in F, LeadsTo(mem, v, LastSlot - 1, v) PROVE LeadsTo(k, v, LastSlot - 1, v)
  BY <1>2, <1>5, <1>9 DEF LeadsTo
<1>10. \A v : WindowAt(mem, b, v) => WindowAt(k, b, v)
  BY <1>3, <1>9 DEF WindowAt
<1>11. \A v : WindowAt(mem, c, v) => WindowAt(k, c, v)
  BY <1>3, <1>9 DEF WindowAt
<1>12. Extends(c, c, k)
  <2> SUFFICES ASSUME NEW t \in DOMAIN c, NEW page \in Nat, page < InvalidatorPage,
                      c[t] = PlaceOf(page, 1)
               PROVE  k[t][Index(page, 1)] = mem[t][Index(page, 1)]
    BY DEF Extends
  <2>1. Index(page, 1) \in Slots /\ t \in F
    <3>1. 1 \in 1 .. 4
      OBVIOUS
    <3> QED BY <1>3, <3>1, IndexIsSlot
  <2>2. ~(t = w /\ Index(page, 1) = LastSlot)
    <3> SUFFICES ASSUME t = w, Index(page, 1) = LastSlot PROVE FALSE
      OBVIOUS
    <3>1. PlaceOf(page, 1) = PlaceOf(Window, 1)
      BY <1>4 DEF WindowAt
    <3> QED BY <1>1, <3>1, BesideWindow
  <2> QED BY <1>5, <2>1, <2>2
<1>13. DOMAIN mem = F
  BY <1>1
<1> QED BY <1>5, <1>7, <1>8, <1>10, <1>11, <1>12, <1>13 DEF F

-----------------------------------------------------------------------------
(* The steps of paging_map.                                                *)

LEMMA InsideRuns ==
    ASSUME TypeInv, Booted, NEW p \in CPUs, pc[p] \in {"lock"} \cup Inside
    PROVE  (p = BootCPU \/ phase = "running") /\ phase \in {"map", "running"}
<1>1. pc[p] # "idle" /\ pc[p] # "stopped"
  BY DEF Inside
<1>2. p = BootCPU \/ phase = "running"
  BY <1>1 DEF Booted
<1>3. phase \in {"map", "running"}
  BY <1>1, <1>2 DEF Booted
<1> QED BY <1>2, <1>3

\* The table that *invalidator lies in, for a processor inside.
LEMMA InvalidatorOf ==
    ASSUME TypeInv, Booted, NEW b, NEW c, Located(b, c), NEW p \in CPUs,
           p = BootCPU \/ phase = "running", phase # "init",
           NEW place, place = IF phase = "running" THEN c ELSE b
    PROVE  /\ \E w : WindowAt(mem, place, w)
           /\ \A w : WindowAt(mem, place, w) =>
                /\ Shows(mem, cr3[p], InvalidatorPage) = w
                /\ Shows(mem, cr3[p], Window) = IF Present(mem[w][LastSlot])
                                                THEN mem[w][LastSlot].frame ELSE NoFrame
<1>1. Tree(mem, machine.levels, cr3[p], place) /\ \E w : WindowAt(mem, place, w)
  BY RunsOn
<1>2. machine \in Machines
  BY DEF TypeInv
<1> QED BY <1>1, <1>2, WindowShows

LEMMA PointKeeps ==
    ASSUME TypeInv, Booted, OneInside, NEW b, NEW c, Located(b, c), NEW p \in CPUs, Point(p)
    PROVE  Located(b, c)' /\ Extends(c, c, mem') /\ mem' \in [0 .. (machine.ram - 1) -> [Slots -> Entry]]
<1>1. (p = BootCPU \/ phase = "running") /\ phase \in {"map", "running"} /\ pc[p] = "point"
  BY InsideRuns DEF Point, Inside
<1> DEFINE place == IF phase = "running" THEN c ELSE b
           e == ToWindow(at[p].table)
<1>2. phase # "init" /\ place \in {b, c}
  BY <1>1
<1>3. PICK w : WindowAt(mem, place, w)
  BY <1>1, <1>2, InvalidatorOf
<1>4. Shows(mem, cr3[p], InvalidatorPage) = w
  BY <1>1, <1>2, <1>3, InvalidatorOf
<1>5. at[p].table \in Nat
  BY DEF TypeInv
<1>6. e \in Entry /\ Present(e) /\ e.frame = at[p].table
  BY <1>5, EntriesAre
<1> HIDE DEF e
<1>7. PICK k : k = Write(mem, w, LastSlot, e)
  OBVIOUS
<1>8. k = mem' /\ tlb' = [tlb EXCEPT ![p] = NoFrame]
  BY <1>4, <1>7 DEF Point, PointWindow, SetInvalidator, e
<1>9. Trees(b, c)
  BY DEF Located
<1> HIDE DEF place
<1>10. /\ k \in [0 .. (machine.ram - 1) -> [Slots -> Entry]]
       /\ Tree(k, machine.levels, BootRoot, b)
       /\ context # NoFrame => Tree(k, machine.levels, context, c)
       /\ \A v : WindowAt(mem, b, v) => WindowAt(k, b, v)
       /\ \A v : WindowAt(mem, c, v) => WindowAt(k, c, v)
       /\ k[w][LastSlot] = e
       /\ Extends(c, c, k)
  BY <1>2, <1>3, <1>6, <1>7, <1>9, InvalidatorWritten
<1>11. UNCHANGED <<machine, free, context, phase, mapped, call, at>> /\ Go(p, "use")
  BY DEF Point
<1>12. DOMAIN mem = DOMAIN k
  BY <1>10 DEF TypeInv
<1>13. Trees(b, c)'
  BY <1>8, <1>9, <1>10, <1>11, <1>12 DEF Trees
<1>14. Windows(b, c)'
  <2>1. Windows(b, c)
    BY DEF Located
  <2>2. \A v : WindowAt(mem, b, v) => WindowAt(mem, b, v)'
    BY <1>8, <1>10, <1>11 DEF WindowAt, PlaceOf, Part, Window
  <2>3. \A v : WindowAt(mem, c, v) => WindowAt(mem, c, v)'
    BY <1>8, <1>10, <1>11 DEF WindowAt, PlaceOf, Part, Window
  <2> QED BY <1>11, <2>1, <2>2, <2>3 DEF Windows
<1>15. Building(b, c)'
  BY <1>1, <1>11 DEF Building
<1>16. pc'[p] = "use" /\ \A q \in CPUs : q # p => pc'[q] = pc[q]
  BY <1>11 DEF Go, TypeInv
<1>17. Walking(b, c)'
  <2> SUFFICES ASSUME NEW q \in CPUs, pc'[q] \in {"point", "use"}
               PROVE  /\ at'[q].table \in DOMAIN c
                      /\ c[at'[q].table] = PlaceOf(call'[q].page, at'[q].level)
                      /\ pc'[q] = "use" =>
                           /\ tlb'[q] = NoFrame
                           /\ \E v : /\ WindowAt(mem, IF phase = "running" THEN c ELSE b, v)'
                                     /\ LeadsTo(mem', v, LastSlot, at'[q].table)
    BY DEF Walking
  <2>1. q = p
    BY <1>1, <1>16 DEF OneInside, Inside
  <2>2. at[p].table \in DOMAIN c /\ c[at[p].table] = PlaceOf(call[p].page, at[p].level)
    BY <1>1 DEF Located, Walking
  <2>3. tlb'[p] = NoFrame
    BY <1>8 DEF TypeInv
  <2>4. WindowAt(mem, IF phase = "running" THEN c ELSE b, w)'
    BY <1>3, <1>8, <1>10, <1>11 DEF place, WindowAt, PlaceOf, Part, Window
  <2>5. LeadsTo(mem', w, LastSlot, at'[p].table)
    BY <1>6, <1>8, <1>10, <1>11 DEF LeadsTo
  <2> QED BY <1>11, <2>1, <2>2, <2>3, <2>4, <2>5
<1>18. Identity(c)'
  <2>1. ShownRAM' \subseteq ShownRAM
    BY <1>1, <1>11, <1>16, PagingAssumption DEF ShownRAM
  <2>2. Identity(c)
    BY DEF Located
  <2> QED BY <1>8, <1>10, <1>11, <2>1, <2>2, IdentityKept
<1> QED BY <1>8, <1>10, <1>13, <1>14, <1>15, <1>17, <1>18 DEF Located

LEMMA SameWindow ==
    ASSUME NEW place, NEW w, WindowAt(mem, place, w), UNCHANGED <<machine, mem>>
    PROVE  WindowAt(mem, place, w)'
BY DEF WindowAt, PlaceOf, Part, Window

\* A step that leaves the memory alone.
LEMMA Quiet ==
    ASSUME TypeInv, NEW b, NEW c, Located(b, c), UNCHANGED <<machine, mem, free, context, phase>>,
           phase \in {"init", "tables"} => UNCHANGED <<at, tlb>>,
           Walking(b, c)', ShownRAM' \subseteq ShownRAM
    PROVE  Located(b, c)' /\ Extends(c, c, mem')
<1>1. Extends(c, c, mem')
  BY DEF Extends
<1>2. Trees(b, c)'
  BY DEF Located, Trees
<1>3. Windows(b, c)'
  BY SameWindow DEF Located, Windows
<1>4. Building(b, c)'
  BY DEF Located, Building, LastOf, PlaceOf, Part, Window
<1>5. Identity(c)'
  <2>1. Identity(c)
    BY DEF Located
  <2>2. PICK k : k = mem'
    OBVIOUS
  <2>3. Extends(c, c, k)
    BY <1>1, <2>2
  <2> QED BY <2>1, <2>2, <2>3, IdentityKept
<1> QED BY <1>1, <1>2, <1>3, <1>4, <1>5 DEF Located

\* Nobody but p walks when p is inside.
LEMMA WalkingOthers ==
    ASSUME TypeInv, OneInside, NEW b, NEW c, Located(b, c), NEW p \in CPUs,
           UNCHANGED <<machine, mem, phase>>, NEW where, Go(p, where),
           \A q \in CPUs : q # p => at'[q] = at[q] /\ tlb'[q] = tlb[q] /\ call'[q] = call[q],
           where \in {"point", "use"} => lock_paging = 0 \/ pc[p] \in Inside,
           where # "use",
           where = "point" => at'[p].table \in DOMAIN c
                              /\ c[at'[p].table] = PlaceOf(call'[p].page, at'[p].level)
    PROVE  Walking(b, c)'
<1> SUFFICES ASSUME NEW q \in CPUs, pc'[q] \in {"point", "use"}
             PROVE  /\ at'[q].table \in DOMAIN c
                    /\ c[at'[q].table] = PlaceOf(call'[q].page, at'[q].level)
                    /\ pc'[q] = "use" =>
                         /\ tlb'[q] = NoFrame
                         /\ \E v : /\ WindowAt(mem, IF phase = "running" THEN c ELSE b, v)'
                                   /\ LeadsTo(mem', v, LastSlot, at'[q].table)
  BY DEF Walking
<1>1. pc'[p] = where /\ \A r \in CPUs : r # p => pc'[r] = pc[r]
  BY DEF Go, TypeInv
<1>2. CASE q = p
  BY <1>1, <1>2
<1>3. CASE q # p
  <2>1. pc[q] \in {"point", "use"} /\ at'[q] = at[q] /\ tlb'[q] = tlb[q] /\ call'[q] = call[q]
    BY <1>1, <1>3
  <2>2. /\ at[q].table \in DOMAIN c /\ c[at[q].table] = PlaceOf(call[q].page, at[q].level)
        /\ pc[q] = "use" =>
             /\ tlb[q] = NoFrame
             /\ \E v : /\ WindowAt(mem, IF phase = "running" THEN c ELSE b, v)
                       /\ LeadsTo(mem, v, LastSlot, at[q].table)
    BY <2>1 DEF Located, Walking
  <2>3. \A v : WindowAt(mem, IF phase = "running" THEN c ELSE b, v)
               => WindowAt(mem, IF phase = "running" THEN c ELSE b, v)'
    BY DEF WindowAt, PlaceOf, Part, Window
  <2> QED BY <1>1, <1>3, <2>1, <2>2, <2>3
<1> QED BY <1>2, <1>3

LEMMA PlaceBelow ==
    ASSUME NEW page \in Nat, NEW l \in 2 .. 4
    PROVE  PlaceOf(page, l - 1) = Under(PlaceOf(page, l), Index(page, l))
<1>1. l - 1 \in 1 .. 3 /\ (l - 1) + 1 = l
  OBVIOUS
<1> QED BY <1>1, PlaceNext

\* Where a processor that uses its window is.
LEMMA AtTable ==
    ASSUME PagingInv, NEW b, NEW c, Located(b, c), NEW p \in CPUs, pc[p] = "use"
    PROVE  /\ Through(p) = at[p].table /\ at[p].table \in DOMAIN c
           /\ c[at[p].table] = PlaceOf(call[p].page, at[p].level)
           /\ c[at[p].table].level = at[p].level
           /\ at[p].level \in 1 .. machine.levels /\ at[p].level \in 1 .. 4
           /\ call[p].page \in Nat /\ call[p].page < InvalidatorPage
           /\ Number(p) \in Slots /\ Number(p) = Index(call[p].page, at[p].level)
           /\ Tree(mem, machine.levels, context, c)
           /\ DOMAIN c \subseteq DOMAIN mem /\ DOMAIN mem = 0 .. (machine.ram - 1)
<1>1. TypeInv /\ Booted /\ Asked
  BY DEF PagingInv
<1>2. Through(p) = at[p].table
  BY UsesItsTable DEF WindowShowsTable
<1>3. at[p].table \in DOMAIN c /\ c[at[p].table] = PlaceOf(call[p].page, at[p].level)
  BY DEF Located, Walking
<1>4. c[at[p].table].level = at[p].level
  BY <1>3 DEF PlaceOf
<1>5. phase \in {"map", "running"}
  BY <1>1, InsideRuns DEF Inside
<1>6. Tree(mem, machine.levels, context, c)
  BY <1>1, <1>5 DEF Located, Trees, Booted
<1>7. at[p].level \in 1 .. machine.levels
  BY <1>3, <1>4, <1>6 DEF Tree
<1>8. machine.levels \in {2, 4}
  BY <1>1, MachineIs DEF TypeInv, Levels
<1>9. at[p].level \in 1 .. 4
  BY <1>7, <1>8
<1>10. call[p].page \in Nat /\ call[p].page < InvalidatorPage
  BY <1>1 DEF Asked, Inside, Request
<1>11. Number(p) = Index(call[p].page, at[p].level)
  BY DEF Number
<1>12. Number(p) \in Slots
  BY <1>9, <1>10, <1>11, IndexIsSlot
<1>13. DOMAIN c \subseteq DOMAIN mem /\ DOMAIN mem = 0 .. (machine.ram - 1)
  BY <1>1, <1>6 DEF Tree, TypeInv
<1> QED BY <1>2, <1>3, <1>4, <1>6, <1>7, <1>9, <1>10, <1>11, <1>12, <1>13

LEMMA DescendKeeps ==
    ASSUME PagingInv, NEW b, NEW c, Located(b, c), NEW p \in CPUs, Descend(p)
    PROVE  /\ Located(b, c)' /\ Extends(c, c, mem')
           /\ at' \in [CPUs -> [table : Nat, level : Nat]] /\ tlb' \in [CPUs -> Nat \cup {NoFrame}]
<1>1. TypeInv /\ Booted /\ OneInside /\ pc[p] = "use"
  BY DEF PagingInv, Descend, Use
<1> DEFINE t == at[p].table
           l == at[p].level
           page == call[p].page
           f == mem[t][Number(p)].frame
<1>2. /\ Through(p) = t /\ t \in DOMAIN c /\ c[t] = PlaceOf(page, l) /\ c[t].level = l
      /\ l \in 1 .. 4 /\ page \in Nat /\ Number(p) \in Slots /\ Number(p) = Index(page, l)
      /\ Tree(mem, machine.levels, context, c)
      /\ DOMAIN c \subseteq DOMAIN mem /\ DOMAIN mem = 0 .. (machine.ram - 1)
  BY <1>1, AtTable
<1>3. l > 1 /\ Present(mem[t][Number(p)]) /\ Walk(p, f, l - 1)
  BY <1>2 DEF Descend
<1>4. f \in DOMAIN c /\ c[f] = Under(c[t], Number(p))
  BY <1>2, <1>3 DEF Tree
<1>5. c[f] = PlaceOf(page, l - 1)
  <2>1. l \in 2 .. 4
    BY <1>2, <1>3
  <2> QED BY <1>2, <1>4, <2>1, PlaceBelow
<1>6. f \in Nat /\ l - 1 \in Nat
  <2>1. f \in 0 .. (machine.ram - 1)
    BY <1>2, <1>4
  <2> HIDE DEF f
  <2>2. l - 1 \in Nat
    BY <1>2, <1>3
  <2> QED BY <2>1, <2>2
<1>7. at' = [at EXCEPT ![p] = [table |-> f, level |-> l - 1]]
  BY <1>3 DEF Walk
<1> HIDE DEF f, l
<1>8. at' \in [CPUs -> [table : Nat, level : Nat]]
  BY <1>1, <1>6, <1>7 DEF TypeInv
<1>9. at'[p].table = f /\ at'[p].level = l - 1 /\ \A q \in CPUs : q # p => at'[q] = at[q]
  BY <1>1, <1>7 DEF TypeInv
<1>10. tlb' = [tlb EXCEPT ![p] = t] /\ t \in Nat
  <2>1. t \in Nat
    BY <1>2
  <2> QED BY <1>2, <2>1 DEF Descend, Use
<1>11. UNCHANGED <<machine, mem, free, context, phase, mapped, call>> /\ Go(p, "point")
  BY DEF Descend
<1>12. Walking(b, c)'
  <2>1. \A q \in CPUs : q # p => at'[q] = at[q] /\ tlb'[q] = tlb[q] /\ call'[q] = call[q]
    BY <1>1, <1>9, <1>10, <1>11 DEF TypeInv
  <2>2. pc[p] \in Inside
    BY <1>1 DEF Inside
  <2> QED BY <1>1, <1>4, <1>5, <1>9, <1>11, <2>1, <2>2, WalkingOthers
<1>13. ShownRAM' \subseteq ShownRAM
  BY <1>1, <1>11, PagingAssumption DEF ShownRAM, Go, TypeInv
<1>14. phase \notin {"init", "tables"}
  BY <1>1, InsideRuns DEF Inside
<1>15. Located(b, c)' /\ Extends(c, c, mem')
  BY <1>1, <1>11, <1>12, <1>13, <1>14, Quiet
<1>16. tlb' \in [CPUs -> Nat \cup {NoFrame}]
  BY <1>1, <1>10 DEF TypeInv
<1> QED BY <1>8, <1>15, <1>16

LEMMA LockKeeps ==
    ASSUME PagingInv, NEW b, NEW c, Located(b, c), NEW p \in CPUs, Lock(p)
    PROVE  /\ Located(b, c)' /\ Extends(c, c, mem')
           /\ at' \in [CPUs -> [table : Nat, level : Nat]]
<1>1. TypeInv /\ Booted /\ OneInside /\ Asked
  BY DEF PagingInv
<1>2. pc[p] = "lock" /\ lock_paging = 0 /\ Walk(p, context, machine.levels) /\ Go(p, "point")
      /\ UNCHANGED <<machine, mem, free, context, phase, mapped, call, tlb>>
  BY DEF Lock
<1>3. phase \in {"map", "running"}
  BY <1>1, <1>2, InsideRuns
<1>4. Tree(mem, machine.levels, context, c) /\ context # NoFrame
  BY <1>1, <1>3 DEF Located, Trees, Booted
<1>5. machine \in Machines /\ machine.levels \in Levels
  BY <1>1, MachineIs DEF TypeInv
<1>6. machine.levels \in Nat /\ machine.levels \in 1 .. 4
  BY <1>5 DEF Levels
<1>7. call[p].page \in Nat /\ call[p].page < Span[machine.levels + 1]
  <2>1. call[p].page \in Nat /\ call[p].page < InvalidatorPage
    BY <1>1, <1>2 DEF Asked, Request
  <2> QED BY <1>5, <2>1, BesideWindow
<1>8. context \in DOMAIN c /\ c[context] = PlaceOf(call[p].page, machine.levels)
  <2>1. Part(call[p].page, machine.levels) = 0
    BY <1>6, <1>7, PartIs
  <2> QED BY <1>4, <2>1 DEF Tree, PlaceOf
<1>9. context \in Nat
  BY <1>1, <1>4 DEF TypeInv
<1>10. at' = [at EXCEPT ![p] = [table |-> context, level |-> machine.levels]]
  BY <1>2 DEF Walk
<1>11. at' \in [CPUs -> [table : Nat, level : Nat]]
  BY <1>1, <1>6, <1>9, <1>10 DEF TypeInv
<1>12. at'[p].table = context /\ at'[p].level = machine.levels
       /\ \A q \in CPUs : q # p => at'[q] = at[q]
  BY <1>1, <1>10 DEF TypeInv
<1>13. Walking(b, c)'
  <2>1. \A q \in CPUs : q # p => at'[q] = at[q] /\ tlb'[q] = tlb[q] /\ call'[q] = call[q]
    BY <1>2, <1>12
  <2> QED BY <1>1, <1>2, <1>8, <1>12, <2>1, WalkingOthers
<1>14. ShownRAM' \subseteq ShownRAM
  BY <1>1, <1>2, PagingAssumption DEF ShownRAM, Go, TypeInv
<1>15. Located(b, c)' /\ Extends(c, c, mem')
  BY <1>1, <1>2, <1>3, <1>13, <1>14, Quiet
<1> QED BY <1>11, <1>15

\* A processor that stops, or comes to no table of its own.
LEMMA HaltKeeps ==
    ASSUME TypeInv, OneInside, NEW b, NEW c, Located(b, c), NEW p \in CPUs,
           UNCHANGED <<machine, mem, free, context, phase>>,
           phase \in {"init", "tables"} => UNCHANGED <<at, tlb>>,
           \A q \in CPUs : q # p => at'[q] = at[q] /\ tlb'[q] = tlb[q] /\ call'[q] = call[q],
           NEW where, where \notin {"point", "use"}, Go(p, where),
           ShownRAM' \subseteq ShownRAM
    PROVE  Located(b, c)' /\ Extends(c, c, mem')
<1>1. Walking(b, c)'
  BY WalkingOthers
<1> QED BY <1>1, Quiet

LEMMA StopsKeep ==
    ASSUME PagingInv, NEW b, NEW c, Located(b, c), NEW p \in CPUs, OutOfMemory(p) \/ Unlock(p)
    PROVE  /\ Located(b, c)' /\ Extends(c, c, mem') /\ tlb' \in [CPUs -> Nat \cup {NoFrame}]
<1>1. TypeInv /\ Booted /\ OneInside
  BY DEF PagingInv
<1>2. UNCHANGED <<machine, mem, free, context, phase, mapped, call, at>> /\ pc[p] \in {"use", "unlock"}
  BY DEF OutOfMemory, Unlock, Use
<1>3. PICK where : where \notin Inside /\ Go(p, where) /\ (where = "idle" => pc[p] = "unlock")
  BY DEF OutOfMemory, Unlock, Inside
<1>4. phase \in {"map", "running"}
  BY <1>1, <1>2, InsideRuns DEF Inside
<1>5. tlb' = tlb \/ tlb' = [tlb EXCEPT ![p] = at[p].table]
  <2>1. CASE OutOfMemory(p)
    <3>1. pc[p] = "use"
      BY <2>1 DEF OutOfMemory, Use
    <3>2. Through(p) = at[p].table
      BY <3>1, AtTable
    <3> QED BY <2>1, <3>2 DEF OutOfMemory, Use
  <2>2. CASE Unlock(p)
    BY <2>2 DEF Unlock
  <2> QED BY <2>1, <2>2
<1>6. tlb' \in [CPUs -> Nat \cup {NoFrame}]
  <2>1. at[p].table \in Nat
    BY <1>1 DEF TypeInv
  <2> QED BY <1>1, <1>5, <2>1 DEF TypeInv
<1>7. \A q \in CPUs : q # p => at'[q] = at[q] /\ tlb'[q] = tlb[q] /\ call'[q] = call[q]
  BY <1>1, <1>2, <1>5 DEF TypeInv
<1>8. ShownRAM' \subseteq ShownRAM
  <2>1. pc'[p] = where /\ \A q \in CPUs : q # p => pc'[q] = pc[q]
    BY <1>1, <1>3 DEF Go, TypeInv
  <2> QED BY <1>2, <1>3, <2>1, PagingAssumption DEF ShownRAM, Inside
<1>9. Located(b, c)' /\ Extends(c, c, mem')
  BY <1>1, <1>2, <1>3, <1>4, <1>7, <1>8, HaltKeeps DEF Inside
<1> QED BY <1>6, <1>9

\* Calls.
LEMMA CallKeeps ==
    ASSUME PagingInv, NEW b, NEW c, Located(b, c), NEW p \in CPUs, NEW r, Enter(p, r),
           phase \in {"map", "running"}, pc[p] = "idle",
           UNCHANGED <<machine, mem, free, context, phase, at, tlb>>,
           ShownRAM' \subseteq ShownRAM
    PROVE  Located(b, c)' /\ Extends(c, c, mem')
<1>1. TypeInv /\ OneInside
  BY DEF PagingInv
<1>2. PICK where : where \in {"lock", "stopped"} /\ Go(p, where)
  BY DEF Enter
<1>3. \A q \in CPUs : q # p => at'[q] = at[q] /\ tlb'[q] = tlb[q] /\ call'[q] = call[q]
  BY <1>1 DEF Enter, TypeInv
<1> QED BY <1>1, <1>2, <1>3, HaltKeeps

LEMMA BootFailsKeeps ==
    ASSUME PagingInv, NEW b, NEW c, Located(b, c), BootFails
    PROVE  Located(b, c)' /\ Extends(c, c, mem')
<1>1. TypeInv /\ OneInside /\ Booted
  BY DEF PagingInv
<1>2. UNCHANGED <<machine, mem, free, context, phase, at, tlb, call>> /\ Go(BootCPU, "stopped")
      /\ phase \in {"init", "context", "tables"}
  BY DEF BootFails
<1>3. BootCPU \in CPUs
  BY PagingAssumption
<1>4. ShownRAM' \subseteq ShownRAM
  BY <1>2 DEF ShownRAM
<1>5. \A q \in CPUs : q # BootCPU => at'[q] = at[q] /\ tlb'[q] = tlb[q] /\ call'[q] = call[q]
  BY <1>2
<1>6. "stopped" \notin {"point", "use"}
  OBVIOUS
<1> QED BY <1>1, <1>2, <1>3, <1>4, <1>5, <1>6, HaltKeeps

LEMMA SwitchKeeps ==
    ASSUME PagingInv, NEW b, NEW c, Located(b, c), Switch
    PROVE  Located(b, c)' /\ Extends(c, c, mem')
<1>1. TypeInv /\ OneInside /\ Booted
  BY DEF PagingInv
<1>2. UNCHANGED <<machine, mem, free, context, pc, mapped>> /\ phase = "map" /\ phase' = "running"
      /\ pc[BootCPU] = "idle" /\ mapped = machine.ram
  BY DEF Switch, Booting
<1>3. Trees(b, c)'
  BY <1>2 DEF Located, Trees
<1>4. Windows(b, c)'
  BY <1>2, SameWindow DEF Located, Windows
<1>5. Building(b, c)'
  BY <1>2 DEF Building
<1>6. Walking(b, c)'
  <2>1. \A q \in CPUs : pc'[q] = "idle"
    BY <1>1, <1>2 DEF Booted
  <2> QED BY <2>1 DEF Walking
<1>7. PICK k : k = mem'
  OBVIOUS
<1>8. Extends(c, c, k)
  BY <1>2, <1>7 DEF Extends
<1>9. ShownRAM' \subseteq ShownRAM
  <2>1. machine.ram \in Nat
    BY <1>1, MachineIs DEF TypeInv
  <2> QED BY <1>2, <2>1 DEF ShownRAM
<1>10. Identity(c)'
  <2>1. Identity(c) /\ machine' = machine
    BY <1>2 DEF Located
  <2> QED BY <1>1, <1>7, <1>8, <1>9, <2>1, IdentityKept
<1> QED BY <1>3, <1>4, <1>5, <1>6, <1>7, <1>8, <1>10 DEF Located

\* A page of RAM lies where the kernel looks for it, when it is to be cleared there.
LEMMA ShowsRAM ==
    ASSUME PagingInv, NEW b, NEW c, Located(b, c), NEW p \in CPUs, pc[p] = "use",
           NEW f \in Nat, f < machine.ram
    PROVE  Shows(mem, cr3[p], f) = f
<1>1. TypeInv /\ Booted
  BY DEF PagingInv
<1>2. (p = BootCPU \/ phase = "running") /\ phase \in {"map", "running"}
  BY <1>1, InsideRuns DEF Inside
<1>3. CASE phase = "map"
  <2>1. cr3[p] = BootRoot
    BY <1>1, <1>2, <1>3 DEF Booted
  <2>2. EntryOf(mem, cr3[p], f) = ToTable(f)
    <3>1. f < machine.boot
      BY <1>1, MachineIs DEF TypeInv
    <3> QED BY <2>1, <3>1 DEF EntryOf
  <2>3. Present(ToTable(f)) /\ ToTable(f).frame = f
    BY <1>1, EntriesAre
  <2> QED BY <2>2, <2>3 DEF Shows
<1>4. CASE phase = "running"
  <2>1. cr3[p] = context /\ context # NoFrame
    BY <1>1, <1>4 DEF Booted
  <2>2. Trees(b, c)
    BY DEF Located
  <2>3. context # BootRoot
    BY <2>1, <2>2 DEF Trees, Tree
  <2>4. f \in ShownRAM
    BY <1>1, <1>4, MachineIs DEF TypeInv, ShownRAM
  <2>5. PICK t \in DOMAIN c : c[t] = PlaceOf(f, 1) /\ LeadsTo(mem, t, Index(f, 1), f)
    BY <2>4 DEF Located, Identity, ShowsItself
  <2>6. machine \in Machines /\ machine.levels \in Levels
    BY <1>1, MachineIs DEF TypeInv
  <2>7. f < Span[machine.levels + 1]
    BY <2>6, BesideWindow
  <2>8. Tree(mem, machine.levels, context, c)
    BY <2>1, <2>2 DEF Trees
  <2>9. Finds(EntryOf(mem, context, f), mem, c, f, 1)
    BY <2>3, <2>6, <2>7, <2>8, EntryFound
  <2>10. EntryOf(mem, context, f) = mem[t][Index(f, 1)]
    BY <2>5, <2>9 DEF Finds
  <2> QED BY <2>1, <2>5, <2>10 DEF Shows, LeadsTo
<1> QED BY <1>2, <1>3, <1>4

LEMMA AddTableKeeps ==
    ASSUME PagingInv, NEW b, NEW c, Located(b, c), NEW p \in CPUs, AddTable(p)
    PROVE  /\ \E d : Located(b, d)' /\ Extends(c, d, mem')
           /\ mem' \in [0 .. (machine.ram - 1) -> [Slots -> Entry]]
           /\ at' \in [CPUs -> [table : Nat, level : Nat]] /\ tlb' \in [CPUs -> Nat \cup {NoFrame}]
<1>1. TypeInv /\ Booted /\ OneInside /\ pc[p] = "use" /\ free # {}
  BY DEF PagingInv, AddTable, Use, TakeFrame
<1>0. PICK t, n : t = at[p].table /\ n = Number(p)
  OBVIOUS
<1> DEFINE l == at[p].level
           page == call[p].page
           F == 0 .. (machine.ram - 1)
<1>2. /\ Through(p) = t /\ t \in DOMAIN c /\ c[t] = PlaceOf(page, l) /\ c[t].level = l
      /\ l \in 1 .. 4 /\ page \in Nat /\ n \in Slots /\ n = Index(page, l)
      /\ Tree(mem, machine.levels, context, c)
      /\ DOMAIN c \subseteq DOMAIN mem /\ DOMAIN mem = F
  BY <1>0, <1>1, AtTable
<1>3. PICK f : f = NextFrame
  OBVIOUS
<1>4. f \in free /\ f \in F /\ f \in Nat /\ f < machine.ram
  <2>1. f \in free /\ f \in DOMAIN mem
    BY <1>1, <1>3, NextFrameIs
  <2>2. machine.ram \in Nat
    BY <1>1, MachineIs DEF TypeInv
  <2>3. f \in 0 .. (machine.ram - 1)
    BY <1>2, <2>1
  <2> QED BY <2>1, <2>2, <2>3
<1>5. l > 1 /\ ~Present(mem[t][n]) /\ free' = free \ {f}
  BY <1>0, <1>2, <1>3 DEF AddTable, TakeFrame
<1>6. Shows(mem, cr3[p], f) = f
  BY <1>1, <1>4, ShowsRAM
<1>7. Masked(f) = f
  BY <1>1, MachineIs DEF TypeInv
<1>8. PICK h : h = [mem EXCEPT ![f] = Empty]
  OBVIOUS
<1>9. PICK e : e = ToTable(f)
  OBVIOUS
<1>10. PICK k : k = Write(h, t, n, e)
  OBVIOUS
<1>11. k = mem'
  BY <1>0, <1>2, <1>3, <1>6, <1>8, <1>9, <1>10 DEF AddTable, ClearedAt
<1>12. /\ e \in Entry /\ Present(e) /\ e.frame = f
       /\ Empty \in [Slots -> Entry] /\ \A j \in Slots : Empty[j] = Absent
       /\ ~Present(Absent)
  BY <1>1, <1>4, <1>9, EntriesAre
<1>13. Trees(b, c)
  BY DEF Located
<1>14. f \notin DOMAIN b /\ f \notin DOMAIN c /\ t \notin DOMAIN b /\ f # t
  BY <1>2, <1>4, <1>13 DEF Trees
<1>15. mem \in [F -> [Slots -> Entry]]
  BY <1>1 DEF TypeInv
<1>16. t \in F
  BY <1>2
<1> HIDE DEF F, l, page
<1>17. /\ h \in [F -> [Slots -> Entry]] /\ h[f] = Empty
       /\ \A u \in F : u # f => h[u] = mem[u]
  BY <1>4, <1>8, <1>12, <1>15, ClearIs
<1>18. /\ k \in [F -> [Slots -> Entry]] /\ k[t][n] = e
       /\ \A u \in F, j \in Slots : ~(u = t /\ j = n) => k[u][j] = h[u][j]
       /\ \A u \in F : u # t => k[u] = h[u]
  <2>1. n \in Slots /\ t \in F /\ e \in Entry
    BY <1>2, <1>12, <1>16
  <2>2. h \in [F -> [Slots -> Entry]]
    BY <1>17
  <2> QED BY <1>10, <2>1, <2>2, WriteIs
<1>19. k[f] = Empty /\ \A u \in F : u # t /\ u # f => k[u] = mem[u]
  BY <1>4, <1>14, <1>17, <1>18
<1>20. PICK d : d = Grown(c, t, n, f)
  OBVIOUS
<1>21. DOMAIN d = DOMAIN c \cup {f} /\ d[f] = Under(c[t], n) /\ \A u \in DOMAIN c : d[u] = c[u]
  BY <1>14, <1>20 DEF Grown
<1>22. machine.levels \in Levels /\ machine \in Machines
  BY <1>1, MachineIs DEF TypeInv
<1>23. Tree(k, machine.levels, context, d)
  <2>1. LeadsTo(k, t, n, f)
    BY <1>12, <1>18 DEF LeadsTo
  <2>2. \A j \in Slots : ~Present(k[f][j])
    BY <1>12, <1>19
  <2>3. \A u \in DOMAIN c, j \in Slots : c[u].level > 1 /\ ~(u = t /\ j = n) => k[u][j] = mem[u][j]
    BY <1>2, <1>14, <1>17, <1>18
  <2>4. DOMAIN mem \subseteq DOMAIN k /\ f \in DOMAIN k
    BY <1>2, <1>4, <1>18
  <2>5. Tree(mem, machine.levels, context, c)
    BY <1>2
  <2>6. t \in DOMAIN c /\ c[t].level > 1 /\ n \in Slots /\ ~Present(mem[t][n]) /\ f \notin DOMAIN c
    BY <1>2, <1>5, <1>14
  <2>8. PICK m, L, root : m = mem /\ L = machine.levels /\ root = context
    OBVIOUS
  <2>9. Tree(m, L, root, c) /\ L \in Levels /\ DOMAIN m \subseteq DOMAIN k /\ ~Present(m[t][n])
    BY <1>22, <2>4, <2>5, <2>6, <2>8
  <2>10. \A u \in DOMAIN c, j \in Slots : c[u].level > 1 /\ ~(u = t /\ j = n) => k[u][j] = m[u][j]
    BY <2>3, <2>8
  <2>11. Tree(k, L, root, Grown(c, t, n, f))
    BY <2>1, <2>2, <2>4, <2>6, <2>9, <2>10, TreeGrows
  <2> QED BY <1>20, <2>8, <2>11
<1>24. Tree(k, machine.levels, BootRoot, b)
  <2>1. Tree(mem, machine.levels, BootRoot, b)
    BY <1>13 DEF Trees
  <2>2. DOMAIN b \subseteq F
    BY <1>2, <2>1 DEF Tree
  <2>3. \A u \in DOMAIN b : b[u].level > 1 => k[u] = mem[u]
    BY <1>14, <1>19, <2>2
  <2>4. DOMAIN mem \subseteq DOMAIN k
    BY <1>2, <1>18
  <2> QED BY <2>1, <2>3, <2>4, TreeKept
<1>25. UNCHANGED <<machine, context, phase, mapped, call>> /\ Go(p, "point")
  BY DEF AddTable
<1>26. context # NoFrame /\ phase \in {"map", "running"}
  BY <1>1, InsideRuns DEF Booted, Inside
<1>27. Trees(b, d)'
  <2>1. DOMAIN b \cap DOMAIN d = {} /\ DOMAIN b \cup DOMAIN d = DOMAIN k \ (free \ {f})
    <3>1. DOMAIN k = F
      BY <1>18
    <3> QED BY <1>2, <1>4, <1>13, <1>14, <1>21, <3>1 DEF Trees
  <2> QED BY <1>5, <1>11, <1>23, <1>24, <1>25, <1>26, <2>1 DEF Trees
<1>28. \A w : WindowAt(mem, b, w) => WindowAt(k, b, w)
  <2> SUFFICES ASSUME NEW w, WindowAt(mem, b, w) PROVE WindowAt(k, b, w)
    OBVIOUS
  <2>1. w \in F /\ w # t /\ w # f
    BY <1>2, <1>13, <1>14 DEF WindowAt, Trees, Tree
  <2> QED BY <1>19, <2>1 DEF WindowAt, LeadsTo
<1>29. \A w : WindowAt(mem, c, w) => WindowAt(k, d, w)
  <2> SUFFICES ASSUME NEW w, WindowAt(mem, c, w) PROVE WindowAt(k, d, w)
    OBVIOUS
  <2>1. w \in F /\ w # f /\ w \in DOMAIN c
    BY <1>2, <1>14 DEF WindowAt
  <2>2. w # t
    <3>1. c[w].level = 1
      BY DEF WindowAt, PlaceOf
    <3> QED BY <1>2, <1>5, <3>1
  <2> QED BY <1>19, <1>21, <2>1, <2>2 DEF WindowAt, LeadsTo
<1>30. Windows(b, d)'
  <2>1. Windows(b, c)
    BY DEF Located
  <2>2. \A w : WindowAt(mem, b, w) => WindowAt(mem, b, w)'
    BY <1>11, <1>25, <1>28 DEF WindowAt, PlaceOf, Part, Window
  <2>3. \A w : WindowAt(mem, c, w) => WindowAt(mem, d, w)'
    BY <1>11, <1>25, <1>29 DEF WindowAt, PlaceOf, Part, Window
  <2> QED BY <1>25, <2>1, <2>2, <2>3 DEF Windows
<1>31. Building(b, d)'
  BY <1>25, <1>26 DEF Building
<1>32. at' = [at EXCEPT ![p] = [table |-> f, level |-> l - 1]] /\ l - 1 \in Nat
  <2>1. at' = [at EXCEPT ![p] = [table |-> f, level |-> l - 1]]
    BY <1>3, <1>7 DEF AddTable, Walk, l
  <2> QED BY <1>2, <1>5, <2>1
<1>33. at' \in [CPUs -> [table : Nat, level : Nat]]
  BY <1>1, <1>4, <1>32 DEF TypeInv
<1>34. at'[p].table = f /\ at'[p].level = l - 1
  BY <1>1, <1>32 DEF TypeInv
<1>35. tlb' = [tlb EXCEPT ![p] = t] /\ t \in Nat
  <2>1. t \in Nat
    BY <1>16 DEF F
  <2> QED BY <1>2, <2>1 DEF AddTable, Use
<1>36. tlb' \in [CPUs -> Nat \cup {NoFrame}]
  BY <1>1, <1>35 DEF TypeInv
<1>37. pc'[p] = "point" /\ \A q \in CPUs : q # p => pc'[q] = pc[q]
  BY <1>1, <1>25 DEF Go, TypeInv
<1>38. Walking(b, d)'
  <2>1. \A q \in CPUs : pc'[q] \in {"point", "use"} => q = p
    BY <1>1, <1>37 DEF OneInside, Inside
  <2>2. d[f] = PlaceOf(page, l - 1)
    <3>1. l \in 2 .. 4
      BY <1>2, <1>5
    <3> QED BY <1>2, <1>21, <3>1, PlaceBelow
  <2>3. f \in DOMAIN d /\ call'[p].page = page
    BY <1>21, <1>25 DEF page
  <2> QED BY <1>34, <1>37, <2>1, <2>2, <2>3 DEF Walking
<1>39. Extends(c, d, k)
  <2> SUFFICES ASSUME NEW u \in DOMAIN d, NEW i \in Nat, i < InvalidatorPage, d[u] = PlaceOf(i, 1)
               PROVE  k[u][Index(i, 1)] = IF u \in DOMAIN c THEN mem[u][Index(i, 1)] ELSE Absent
    BY <1>21 DEF Extends
  <2>1. CASE u = f
    <3>1. 1 \in 1 .. 4
      OBVIOUS
    <3>2. Index(i, 1) \in Slots
      BY <3>1, IndexIsSlot
    <3> QED BY <1>12, <1>14, <1>19, <2>1, <3>2
  <2>2. CASE u # f
    <3>1. u \in DOMAIN c /\ u \in F /\ c[u] = PlaceOf(i, 1)
      BY <1>2, <1>21, <2>2
    <3>2. u # t
      <4>1. c[u].level = 1
        BY <3>1 DEF PlaceOf
      <4> QED BY <1>2, <1>5, <4>1
    <3> QED BY <1>19, <2>2, <3>1, <3>2
  <2> QED BY <2>1, <2>2
<1>40. Identity(d)'
  <2>1. ShownRAM' \subseteq ShownRAM
    BY <1>1, <1>25, <1>37, PagingAssumption DEF ShownRAM
  <2>2. Identity(c) /\ machine' = machine
    BY <1>25 DEF Located
  <2> QED BY <1>1, <1>11, <1>39, <2>1, <2>2, IdentityKept
<1>41. Located(b, d)'
  BY <1>27, <1>30, <1>31, <1>38, <1>40 DEF Located
<1> QED BY <1>11, <1>18, <1>33, <1>36, <1>39, <1>41 DEF F

LEMMA PageUnique ==
    ASSUME NEW i \in Nat, NEW j \in Nat, PlaceOf(i, 1) = PlaceOf(j, 1), Index(i, 1) = Index(j, 1)
    PROVE  i = j
<1>1. Part(i, 1) = Part(j, 1)
  BY DEF PlaceOf
<1>2. 1 \in 1 .. 4 /\ 1 - 1 = 0
  OBVIOUS
<1>3. i = Part(i, 1) * SIZE + Index(i, 1)
  BY <1>2, PartIs
<1>4. j = Part(j, 1) * SIZE + Index(j, 1)
  BY <1>2, PartIs
<1> QED BY <1>1, <1>3, <1>4

\* The entry that a call asks for, and the entries of the lowest level once it is there.
AskedEntry(r) == [frame |-> Masked(r.frame), flags |-> r.flags \ {"pat"}]

Sets(c, r, k) ==
    /\ \E t \in DOMAIN c : c[t] = PlaceOf(r.page, 1)
    /\ \A t \in DOMAIN c, page \in Nat : page < InvalidatorPage /\ c[t] = PlaceOf(page, 1) =>
         k[t][Index(page, 1)] = IF page = r.page THEN AskedEntry(r) ELSE mem[t][Index(page, 1)]

LEMMA SetEntryKeeps ==
    ASSUME PagingInv, NEW b, NEW c, Located(b, c), NEW p \in CPUs, SetEntry(p)
    PROVE  /\ Located(b, c)' /\ Sets(c, call[p], mem')
           /\ mem' \in [0 .. (machine.ram - 1) -> [Slots -> Entry]]
           /\ tlb' \in [CPUs -> Nat \cup {NoFrame}]
<1>1. TypeInv /\ Booted /\ OneInside /\ Asked /\ pc[p] = "use"
  BY DEF PagingInv, SetEntry, Use
<1>2. PICK t, n, r, page : t = at[p].table /\ n = Number(p) /\ r = call[p] /\ page = r.page
  OBVIOUS
<1> DEFINE F == 0 .. (machine.ram - 1)
<1>3. /\ Through(p) = t /\ t \in DOMAIN c /\ c[t] = PlaceOf(page, at[p].level)
      /\ page \in Nat /\ page < InvalidatorPage /\ n \in Slots /\ n = Index(page, at[p].level)
      /\ Tree(mem, machine.levels, context, c)
      /\ DOMAIN c \subseteq DOMAIN mem /\ DOMAIN mem = F
  BY <1>1, <1>2, AtTable
<1>4. at[p].level = 1 /\ c[t] = PlaceOf(page, 1) /\ n = Index(page, 1)
  BY <1>3 DEF SetEntry
<1>5. r \in Request /\ "present" \in r.flags /\ (page < machine.ram => r.frame = page)
  BY <1>1, <1>2 DEF Asked, Inside
<1>6. PICK e : e = AskedEntry(r)
  OBVIOUS
<1>7. e \in Entry /\ Present(e) /\ e.frame = r.frame
  <2>1. Masked(r.frame) = r.frame
    BY <1>1, MachineIs DEF TypeInv
  <2> QED BY <1>5, <1>6, <2>1 DEF AskedEntry, Request, Entry, Present, Flag
<1>8. (p = BootCPU \/ phase = "running") /\ phase \in {"map", "running"} /\ phase # "init"
  BY <1>1, InsideRuns DEF Inside
<1>9. PICK place : place = IF phase = "running" THEN c ELSE b
  OBVIOUS
<1>10. PICK L, x, ct : L = machine.levels /\ x = cr3[p] /\ ct = context
  OBVIOUS
<1>11. Tree(mem, L, x, place) /\ \E w : WindowAt(mem, place, w)
  BY <1>1, <1>8, <1>9, <1>10, RunsOn
<1>12. PICK w : WindowAt(mem, place, w)
  BY <1>11
<1>13. Trees(b, c)
  BY DEF Located
<1>14. Tree(mem, L, BootRoot, b) /\ Tree(mem, L, ct, c) /\ DOMAIN b \cap DOMAIN c = {}
       /\ DOMAIN b \subseteq F /\ DOMAIN c \subseteq F
  BY <1>3, <1>10, <1>13 DEF Trees, Tree
<1>15. w \in F /\ w \in DOMAIN place /\ place[w] = PlaceOf(Window, 1) /\ t \in F /\ t \notin DOMAIN b
  BY <1>3, <1>9, <1>12, <1>14 DEF WindowAt
<1>16. mem \in [F -> [Slots -> Entry]] /\ machine \in Machines
  BY <1>1 DEF TypeInv
<1>17. PICK m : m = mem
  OBVIOUS
<1>18. PICK h : h = Write(m, t, n, e)
  OBVIOUS
<1>19. PICK k : k = Write(h, w, LastSlot, Absent)
  OBVIOUS
<1>20. Absent \in Entry
  <2>1. 0 \in Nat
    OBVIOUS
  <2> QED BY <1>1, <2>1, EntriesAre
<1>21. LastSlot \in Slots /\ LastSlot - 1 \in Slots /\ LastSlot - 1 # LastSlot
  <2>1. LastSlot \in Slots /\ LastSlot - 1 \in Slots
    BY <1>16, BesideWindow
  <2>2. LastSlot \in Int
    BY <2>1 DEF Slots
  <2> QED BY <2>1, <2>2
<1>22. PICK G : G = F
  OBVIOUS
<1>23. m \in [G -> [Slots -> Entry]] /\ t \in G /\ w \in G
  BY <1>15, <1>16, <1>17, <1>22
<1>24. /\ h \in [G -> [Slots -> Entry]] /\ h[t][n] = e
       /\ \A u \in G, j \in Slots : ~(u = t /\ j = n) => h[u][j] = m[u][j]
  <2>1. n \in Slots /\ e \in Entry /\ t \in G
    BY <1>3, <1>7, <1>23
  <2>2. m \in [G -> [Slots -> Entry]]
    BY <1>23
  <2> QED BY <1>18, <2>1, <2>2, WriteIs
<1>25. /\ k \in [G -> [Slots -> Entry]] /\ k[w][LastSlot] = Absent
       /\ \A u \in G, j \in Slots : ~(u = w /\ j = LastSlot) => k[u][j] = h[u][j]
  <2>1. LastSlot \in Slots /\ w \in G
    BY <1>21, <1>23
  <2>2. h \in [G -> [Slots -> Entry]]
    BY <1>24
  <2> QED BY <1>19, <1>20, <2>1, <2>2, WriteIs
<1>26. Tree(h, L, BootRoot, b) /\ Tree(h, L, ct, c)
  <2>1. c[t].level = 1
    BY <1>4 DEF PlaceOf
  <2>2. Tree(m, L, BootRoot, b) /\ Tree(m, L, ct, c)
    BY <1>14, <1>17
  <2>3. Tree(h, L, BootRoot, b)
    BY <1>3, <1>7, <1>15, <1>18, <1>23, <2>2, LowWrite
  <2>4. Tree(h, L, ct, c)
    BY <1>3, <1>7, <1>18, <1>23, <2>1, <2>2, LowWrite
  <2> QED BY <2>3, <2>4
<1>27. ASSUME NEW y \in {b, c}, NEW v, WindowAt(mem, y, v) PROVE WindowAt(h, y, v)
  <2>1. v \in G /\ y[v] = PlaceOf(Window, 1) /\ v \in DOMAIN y
    BY <1>14, <1>22, <1>27 DEF WindowAt
  <2>2. ~(v = t /\ LastSlot - 1 = n)
    <3> SUFFICES ASSUME v = t, LastSlot - 1 = n PROVE FALSE
      OBVIOUS
    <3>1. y = c
      BY <1>15, <2>1
    <3>2. PlaceOf(page, 1) = PlaceOf(Window, 1)
      BY <1>4, <2>1, <3>1
    <3> QED BY <1>3, <1>4, <1>16, <3>2, BesideWindow
  <2>3. h[v][LastSlot - 1] = mem[v][LastSlot - 1]
    BY <1>17, <1>21, <1>24, <2>1, <2>2
  <2> QED BY <1>27, <2>3 DEF WindowAt, LeadsTo
<1>28. ASSUME NEW y \in {b, c}, NEW v, WindowAt(mem, y, v) PROVE WindowAt(k, y, v)
  <2>1. WindowAt(h, y, v)
    BY <1>27, <1>28
  <2>2. v \in G
    BY <1>14, <1>22, <1>28 DEF WindowAt
  <2>3. k[v][LastSlot - 1] = h[v][LastSlot - 1]
    BY <1>21, <1>25, <2>2
  <2> QED BY <2>1, <2>3 DEF WindowAt, LeadsTo
<1>29. Shows(h, x, InvalidatorPage) = w
  <2>1. WindowAt(h, place, w)
    BY <1>9, <1>12, <1>27
  <2>2. Tree(h, machine.levels, x, place)
    <3>1. CASE phase = "running"
      <4>1. x = ct /\ place = c
        BY <1>1, <1>9, <1>10, <3>1 DEF Booted
      <4> QED BY <1>10, <1>26, <4>1
    <3>2. CASE phase # "running"
      <4>1. x = BootRoot /\ place = b
        BY <1>1, <1>8, <1>9, <1>10, <3>2 DEF Booted
      <4> QED BY <1>10, <1>26, <4>1
    <3> QED BY <3>1, <3>2
  <2> QED BY <1>16, <2>1, <2>2, WindowShows
<1>30. k = mem'
  BY <1>2, <1>3, <1>6, <1>10, <1>17, <1>18, <1>19, <1>29 DEF SetEntry, SetInvalidator, AskedEntry
<1>31. Tree(k, L, BootRoot, b) /\ Tree(k, L, ct, c)
  <2>1. (w \in DOMAIN b => b[w].level = 1) /\ (w \in DOMAIN c => c[w].level = 1)
    BY <1>9, <1>14, <1>15 DEF PlaceOf
  <2>2. Tree(k, L, BootRoot, b)
    BY <1>19, <1>20, <1>21, <1>23, <1>24, <1>26, <2>1, LowWrite
  <2>3. Tree(k, L, ct, c)
    BY <1>19, <1>20, <1>21, <1>23, <1>24, <1>26, <2>1, LowWrite
  <2> QED BY <2>2, <2>3
<1>32. UNCHANGED <<machine, free, context, phase, mapped, call, at>> /\ Go(p, "unlock")
  BY DEF SetEntry
<1>33. DOMAIN k = DOMAIN mem
  BY <1>3, <1>22, <1>25
<1>34. Trees(b, c)'
  BY <1>10, <1>13, <1>30, <1>31, <1>32, <1>33 DEF Trees
<1>35. Windows(b, c)'
  <2>1. Windows(b, c)
    BY DEF Located
  <2>2. \A v : WindowAt(mem, b, v) => WindowAt(mem, b, v)'
    BY <1>28, <1>30, <1>32 DEF WindowAt, PlaceOf, Part, Window
  <2>3. \A v : WindowAt(mem, c, v) => WindowAt(mem, c, v)'
    BY <1>28, <1>30, <1>32 DEF WindowAt, PlaceOf, Part, Window
  <2> QED BY <1>32, <2>1, <2>2, <2>3 DEF Windows
<1>36. Building(b, c)'
  BY <1>8, <1>32 DEF Building
<1>37. pc'[p] = "unlock" /\ \A q \in CPUs : q # p => pc'[q] = pc[q]
  BY <1>1, <1>32 DEF Go, TypeInv
<1>38. Walking(b, c)'
  <2>1. \A q \in CPUs : pc'[q] \notin {"point", "use"}
    BY <1>1, <1>37 DEF OneInside, Inside
  <2> QED BY <2>1 DEF Walking
<1>39. ASSUME NEW u \in DOMAIN c, NEW i \in Nat, i < InvalidatorPage, c[u] = PlaceOf(i, 1)
       PROVE  k[u][Index(i, 1)] = IF i = page THEN e ELSE mem[u][Index(i, 1)]
  <2>1. u \in G /\ Index(i, 1) \in Slots
    <3>1. 1 \in 1 .. 4
      OBVIOUS
    <3> QED BY <1>14, <1>22, <3>1, IndexIsSlot
  <2>2. ~(u = w /\ Index(i, 1) = LastSlot)
    <3> SUFFICES ASSUME u = w, Index(i, 1) = LastSlot PROVE FALSE
      OBVIOUS
    <3>1. PlaceOf(i, 1) = PlaceOf(Window, 1)
      BY <1>9, <1>14, <1>15, <1>39
    <3> QED BY <1>16, <1>39, <3>1, BesideWindow
  <2>3. k[u][Index(i, 1)] = h[u][Index(i, 1)]
    BY <1>25, <2>1, <2>2
  <2>4. CASE i = page
    <3>1. u = t
      BY <1>3, <1>4, <1>14, <1>39, <2>4 DEF Tree
    <3> QED BY <1>4, <1>24, <2>3, <2>4, <3>1
  <2>5. CASE i # page
    <3>1. ~(u = t /\ Index(i, 1) = n)
      BY <1>3, <1>4, <1>39, <2>5, PageUnique
    <3> QED BY <1>17, <1>24, <2>1, <2>3, <2>5, <3>1
  <2> QED BY <2>4, <2>5
<1>40. Sets(c, r, k)
  BY <1>2, <1>3, <1>4, <1>6, <1>39 DEF Sets
<1>41. Identity(c)'
  <2> SUFFICES ASSUME NEW i \in ShownRAM' PROVE ShowsItself(c, i)'
    BY DEF Identity
  <2>1. i \in Nat /\ i < machine.ram /\ (i = page \/ i \in ShownRAM)
    <3>1. i \in 0 .. (machine.ram - 1) /\ machine.ram \in Nat
      BY <1>16, <1>32, MachineIs DEF ShownRAM
    <3>2. CASE phase = "map" /\ mapped = 0
      <4>1. phase' = "map" /\ mapped' = 0
        BY <1>32, <3>2
      <4>2. i < 0
        BY <4>1 DEF ShownRAM
      <4> QED BY <3>1, <4>2
    <3>3. CASE ~(phase = "map" /\ mapped = 0)
      <4>1. i = page \/ i \in ShownRAM
        BY <1>1, <1>2, <1>8, <1>32, <1>37, <3>1, <3>3 DEF ShownRAM, Booted
      <4> QED BY <3>1, <4>1
    <3> QED BY <3>2, <3>3
  <2>2. i < InvalidatorPage
    BY <1>16, <2>1, BesideWindow
  <2>3. CASE i = page
    <3>1. k[t][Index(i, 1)] = e
      BY <1>3, <1>4, <1>39, <2>1, <2>2, <2>3
    <3>2. LeadsTo(k, t, Index(i, 1), i)
      BY <1>5, <1>7, <2>1, <2>3, <3>1 DEF LeadsTo
    <3> QED BY <1>3, <1>4, <1>30, <2>3, <3>2 DEF ShowsItself
  <2>4. CASE i # page
    <3>1. PICK u \in DOMAIN c : c[u] = PlaceOf(i, 1) /\ LeadsTo(mem, u, Index(i, 1), i)
      BY <2>1, <2>4 DEF Located, Identity, ShowsItself
    <3>2. k[u][Index(i, 1)] = mem[u][Index(i, 1)]
      BY <1>39, <2>1, <2>2, <2>4, <3>1
    <3>3. LeadsTo(k, u, Index(i, 1), i)
      BY <3>1, <3>2 DEF LeadsTo
    <3> QED BY <1>30, <3>1, <3>3 DEF ShowsItself
  <2> QED BY <2>3, <2>4
<1>42. tlb' \in [CPUs -> Nat \cup {NoFrame}]
  <2>1. tlb' = [tlb EXCEPT ![p] = t] /\ t \in Nat
    BY <1>3, <1>15 DEF SetEntry, Use
  <2> QED BY <1>1, <2>1 DEF TypeInv
<1>43. Located(b, c)'
  BY <1>34, <1>35, <1>36, <1>38, <1>41 DEF Located
<1>44. mem' \in [F -> [Slots -> Entry]]
  BY <1>22, <1>25, <1>30
<1> QED BY <1>2, <1>30, <1>40, <1>42, <1>43, <1>44

-----------------------------------------------------------------------------
(* The steps of paging_init and paging_context.                            *)

LEMMA BootAlone ==
    ASSUME TypeInv, Booted, pc[BootCPU] = "idle", phase \in {"init", "context", "tables"},
           UNCHANGED <<pc, mapped>>, NEW b, NEW c, phase' # "running"
    PROVE  Walking(b, c)' /\ Identity(c)'
<1>1. \A q \in CPUs : pc'[q] = "idle"
  BY DEF Booted
<1>2. mapped' = 0
  BY DEF Booted
<1>3. ShownRAM' = {}
  <2> SUFFICES ASSUME NEW page \in ShownRAM' PROVE FALSE
    OBVIOUS
  <2>1. page \in Nat /\ page < 0
    BY <1>2 DEF ShownRAM
  <2> QED BY <2>1
<1> QED BY <1>1, <1>3 DEF Walking, Identity

LEMMA InitTableKeeps ==
    ASSUME PagingInv, NEW b, NEW c, Located(b, c), InitTable
    PROVE  /\ \E d : Located(d, c)'
           /\ mem' \in [0 .. (machine.ram - 1) -> [Slots -> Entry]]
           /\ at' \in [CPUs -> [table : Nat, level : Nat]]
<1>1. TypeInv /\ Booted /\ free # {} /\ phase = "init" /\ pc[BootCPU] = "idle"
      /\ at[BootCPU].level > 1 /\ BootCPU \in CPUs
  BY PagingAssumption DEF PagingInv, InitTable, TakeFrame, Booting
<1>2. PICK t, l, f, L, m : /\ t = at[BootCPU].table /\ l = at[BootCPU].level /\ f = NextFrame
                           /\ L = machine.levels /\ m = mem
  OBVIOUS
<1>3. PICK F : F = 0 .. (machine.ram - 1)
  OBVIOUS
<1>4. m \in [F -> [Slots -> Entry]] /\ machine \in Machines /\ L \in Levels /\ Masked(f) = f
  BY <1>1, <1>2, <1>3, MachineIs DEF TypeInv
<1>5. Trees(b, c) /\ LastOf(b, at[BootCPU])
  BY <1>1 DEF Located, Building
<1>6. Tree(m, L, BootRoot, b) /\ DOMAIN c = {} /\ DOMAIN b = F \ free /\ context = NoFrame
  BY <1>1, <1>2, <1>4, <1>5 DEF Trees, Booted
<1>7. t \in DOMAIN b /\ b[t] = PlaceOf(Window, l) /\ \A n \in Slots : ~Present(m[t][n])
  BY <1>2, <1>5 DEF LastOf
<1>8. b[t].level = l /\ t \in F
  BY <1>6, <1>7 DEF PlaceOf
<1>9. l \in 1 .. L /\ l \in 2 .. 4 /\ l > 1
  <2>1. l \in 1 .. L
    BY <1>6, <1>7, <1>8 DEF Tree
  <2>2. L = 2 \/ L = 4
    BY <1>4 DEF Levels
  <2> QED BY <1>1, <1>2, <2>1, <2>2
<1>10. f \in free /\ f \in F /\ f \in Nat /\ f \notin DOMAIN b /\ f # t
  BY <1>1, <1>2, <1>3, <1>6, <1>7, NextFrameIs
<1>11. PICK e : e = ToTable(f)
  OBVIOUS
<1>12. /\ e \in Entry /\ Present(e) /\ e.frame = f
       /\ Empty \in [Slots -> Entry] /\ \A n \in Slots : Empty[n] = Absent
       /\ ~Present(Absent)
  BY <1>1, <1>10, <1>11, EntriesAre
<1>13. PICK h : h = Write(m, t, LastSlot, e)
  OBVIOUS
<1>14. PICK k : k = [h EXCEPT ![f] = Empty]
  OBVIOUS
<1>15. k = mem' /\ free' = free \ {f}
  BY <1>2, <1>11, <1>13, <1>14 DEF InitTable, TakeFrame
<1>16. LastSlot \in Slots /\ Window \in Nat /\ Index(Window, l) = LastSlot
  BY <1>2, <1>4, <1>9, BesideWindow
<1>17. /\ h \in [F -> [Slots -> Entry]] /\ h[t][LastSlot] = e
       /\ \A u \in F, j \in Slots : ~(u = t /\ j = LastSlot) => h[u][j] = m[u][j]
  <2>1. m \in [F -> [Slots -> Entry]] /\ t \in F /\ LastSlot \in Slots /\ e \in Entry
    BY <1>4, <1>8, <1>12, <1>16
  <2> QED BY <1>13, <2>1, WriteIs
<1>18. k \in [F -> [Slots -> Entry]] /\ k[f] = Empty /\ \A u \in F : u # f => k[u] = h[u]
  BY <1>10, <1>12, <1>14, <1>17, ClearIs
<1>19. PICK d : d = Grown(b, t, LastSlot, f)
  OBVIOUS
<1>20. DOMAIN d = DOMAIN b \cup {f} /\ d[f] = Under(b[t], LastSlot) /\ \A u \in DOMAIN b : d[u] = b[u]
  BY <1>10, <1>19 DEF Grown
<1>21. Tree(k, L, BootRoot, d)
  <2>1. LeadsTo(k, t, LastSlot, f)
    BY <1>8, <1>10, <1>12, <1>17, <1>18 DEF LeadsTo
  <2>2. \A j \in Slots : ~Present(k[f][j])
    BY <1>12, <1>18
  <2>3. DOMAIN m \subseteq DOMAIN k /\ f \in DOMAIN k /\ DOMAIN b \subseteq F
    BY <1>4, <1>6, <1>10, <1>18
  <2>4. \A u \in DOMAIN b, j \in Slots :
           b[u].level > 1 /\ ~(u = t /\ j = LastSlot) => k[u][j] = m[u][j]
    BY <1>10, <1>17, <1>18, <2>3
  <2>5. t \in DOMAIN b /\ b[t].level > 1 /\ LastSlot \in Slots /\ ~Present(m[t][LastSlot])
    BY <1>7, <1>8, <1>9, <1>16
  <2>6. Tree(m, L, BootRoot, b) /\ L \in Levels /\ f \notin DOMAIN b
    BY <1>4, <1>6, <1>10
  <2>7. Tree(k, L, BootRoot, Grown(b, t, LastSlot, f))
    BY <2>1, <2>2, <2>3, <2>4, <2>5, <2>6, TreeGrows
  <2> QED BY <1>19, <2>7
<1>22. UNCHANGED <<machine, context, phase, mapped, pc, tlb>>
       /\ at' = [at EXCEPT ![BootCPU] = [table |-> f, level |-> l - 1]]
  BY <1>2 DEF InitTable, Walk
<1>23. Trees(d, c)'
  <2>1. DOMAIN d = DOMAIN k \ (free \ {f})
    BY <1>6, <1>10, <1>18, <1>20
  <2> QED BY <1>2, <1>6, <1>15, <1>21, <1>22, <2>1 DEF Trees
<1>24. at'[BootCPU] = [table |-> f, level |-> l - 1]
       /\ at' \in [CPUs -> [table : Nat, level : Nat]]
  <2>1. l - 1 \in Nat
    BY <1>9
  <2> QED BY <1>1, <1>10, <1>22, <2>1 DEF TypeInv
<1>25. Building(d, c)'
  <2>1. d[f] = PlaceOf(Window, l - 1)
    BY <1>7, <1>9, <1>16, <1>20, PlaceBelow
  <2>2. d[f] = PlaceOf(Window, l - 1)'
    BY <1>22, <2>1 DEF PlaceOf, Part, Window
  <2>3. LastOf(d, at[BootCPU])'
    BY <1>12, <1>15, <1>18, <1>20, <1>24, <2>2 DEF LastOf, PlaceOf, Part
  <2> QED BY <1>1, <1>22, <2>3 DEF Building
<1>26. Windows(d, c)'
  BY <1>1, <1>22 DEF Windows
<1>27. Walking(d, c)' /\ Identity(c)'
  BY <1>1, <1>22, BootAlone
<1>28. Located(d, c)'
  BY <1>23, <1>25, <1>26, <1>27 DEF Located
<1> QED BY <1>3, <1>15, <1>18, <1>24, <1>28

\* The table of the lowest level becomes the window.
LEMMA WindowMade ==
    ASSUME TypeInv, NEW t \in DOMAIN mem, NEW k, k = WindowEntries(mem, t)
    PROVE  /\ k \in [0 .. (machine.ram - 1) -> [Slots -> Entry]]
           /\ LeadsTo(k, t, LastSlot - 1, t)
           /\ \A u \in DOMAIN mem : u # t => k[u] = mem[u]
           /\ \A j \in Slots : j # LastSlot /\ j # LastSlot - 1 => k[t][j] = mem[t][j]
<1>1. PICK m, F : m = mem /\ F = 0 .. (machine.ram - 1)
  OBVIOUS
<1>2. m \in [F -> [Slots -> Entry]] /\ t \in F /\ t \in Nat /\ machine \in Machines
  BY <1>1 DEF TypeInv
<1>3. LastSlot \in Slots /\ LastSlot - 1 \in Slots /\ LastSlot - 1 # LastSlot
  <2>1. LastSlot \in Slots /\ LastSlot - 1 \in Slots
    BY <1>2, BesideWindow
  <2>2. LastSlot \in Int
    BY <2>1 DEF Slots
  <2> QED BY <2>1, <2>2
<1>4. PICK e, o, h : e = ToWindow(t) /\ o = ToWindow(0) /\ h = Write(m, t, LastSlot - 1, e)
  OBVIOUS
<1>5. e \in Entry /\ Present(e) /\ e.frame = t
  BY <1>2, <1>4, EntriesAre
<1>6. o \in Entry
  <2>1. 0 \in Nat
    OBVIOUS
  <2> QED BY <1>4, <2>1, EntriesAre
<1>7. k = Write(h, t, LastSlot, o)
  BY <1>1, <1>4 DEF WindowEntries
<1>8. /\ h \in [F -> [Slots -> Entry]] /\ h[t][LastSlot - 1] = e
      /\ \A u \in F, j \in Slots : ~(u = t /\ j = LastSlot - 1) => h[u][j] = m[u][j]
      /\ \A u \in F : u # t => h[u] = m[u]
  <2>1. PICK s : s = LastSlot - 1
    OBVIOUS
  <2>2. m \in [F -> [Slots -> Entry]]
    BY <1>2
  <2>3. t \in F /\ s \in Slots /\ e \in Entry
    BY <1>2, <1>3, <1>5, <2>1
  <2>4. h = Write(m, t, s, e)
    BY <1>4, <2>1
  <2>5. /\ h \in [F -> [Slots -> Entry]] /\ h[t][s] = e
        /\ \A u \in F, j \in Slots : ~(u = t /\ j = s) => h[u][j] = m[u][j]
        /\ \A u \in F : u # t => h[u] = m[u]
    BY <2>2, <2>3, <2>4, WriteIs
  <2> QED BY <2>1, <2>5
<1>9. /\ k \in [F -> [Slots -> Entry]]
      /\ \A u \in F, j \in Slots : ~(u = t /\ j = LastSlot) => k[u][j] = h[u][j]
      /\ \A u \in F : u # t => k[u] = h[u]
  <2>1. h \in [F -> [Slots -> Entry]]
    BY <1>8
  <2>2. t \in F /\ LastSlot \in Slots /\ o \in Entry
    BY <1>2, <1>3, <1>6
  <2> QED BY <1>7, <2>1, <2>2, WriteIs
<1>10. DOMAIN mem = F
  BY <1>1 DEF TypeInv
<1>11. LeadsTo(k, t, LastSlot - 1, t)
  BY <1>2, <1>3, <1>5, <1>8, <1>9 DEF LeadsTo
<1> QED BY <1>1, <1>2, <1>8, <1>9, <1>10, <1>11

LEMMA InitWindowKeeps ==
    ASSUME PagingInv, NEW b, NEW c, Located(b, c), InitWindow
    PROVE  Located(b, c)' /\ mem' \in [0 .. (machine.ram - 1) -> [Slots -> Entry]]
<1>1. TypeInv /\ Booted /\ phase = "init" /\ phase' = "context" /\ pc[BootCPU] = "idle"
      /\ at[BootCPU].level = 1 /\ UNCHANGED <<machine, context, mapped, pc, free>>
  BY DEF PagingInv, InitWindow, Booting
<1>2. PICK t, L : t = at[BootCPU].table /\ L = machine.levels
  OBVIOUS
<1>3. Trees(b, c) /\ LastOf(b, at[BootCPU])
  BY <1>1 DEF Located, Building
<1>4. t \in DOMAIN b /\ b[t] = PlaceOf(Window, 1) /\ Tree(mem, L, BootRoot, b) /\ t \in DOMAIN mem
      /\ context = NoFrame
  BY <1>1, <1>2, <1>3 DEF LastOf, Trees, Tree, Booted
<1>5. PICK k : k = WindowEntries(mem, t)
  OBVIOUS
<1>6. k = mem'
  BY <1>2, <1>5 DEF InitWindow
<1>7. /\ k \in [0 .. (machine.ram - 1) -> [Slots -> Entry]]
      /\ LeadsTo(k, t, LastSlot - 1, t)
      /\ \A u \in DOMAIN mem : u # t => k[u] = mem[u]
  BY <1>1, <1>4, <1>5, WindowMade
<1>8. DOMAIN k = DOMAIN mem
  BY <1>1, <1>7 DEF TypeInv
<1>9. Tree(k, L, BootRoot, b)
  <2>1. \A u \in DOMAIN b : b[u].level > 1 => k[u] = mem[u]
    BY <1>4, <1>7 DEF PlaceOf, Tree
  <2> QED BY <1>4, <1>8, <2>1, TreeKept
<1>10. Trees(b, c)'
  BY <1>1, <1>2, <1>3, <1>4, <1>6, <1>8, <1>9 DEF Trees
<1>11. WindowAt(mem, b, t)'
  BY <1>1, <1>4, <1>6, <1>7 DEF WindowAt, PlaceOf, Part, Window
<1>12. Windows(b, c)' /\ Building(b, c)'
  BY <1>1, <1>11 DEF Windows, Building
<1>13. Walking(b, c)' /\ Identity(c)'
  BY <1>1, BootAlone
<1> QED BY <1>6, <1>7, <1>10, <1>12, <1>13 DEF Located

\* The frames that stay what they were.
SameBut(F, m, k, changed) == \A u \in F \ changed : k[u] = m[u]

\* A frame cleared through the window of the boot code's tables.
LEMMA ClearsThrough ==
    ASSUME TypeInv, cr3[BootCPU] = BootRoot, BootCPU \in CPUs,
           NEW F, F = 0 .. (machine.ram - 1), NEW m \in [F -> [Slots -> Entry]],
           NEW b, Tree(m, machine.levels, BootRoot, b), NEW w, WindowAt(m, b, w),
           NEW f \in F, f \notin DOMAIN b, ClearThroughWindow(BootCPU, m, f),
           NEW k, k = mem'
    PROVE  /\ k \in [F -> [Slots -> Entry]] /\ k[f] = Empty
           /\ SameBut(F, m, k, {w, f})
           /\ Tree(k, machine.levels, BootRoot, b) /\ WindowAt(k, b, w)
           /\ tlb' = [tlb EXCEPT ![BootCPU] = f] /\ f \in Nat
<1>1. PICK e, h, L : e = ToWindow(f) /\ h = Write(m, w, LastSlot, e) /\ L = machine.levels
  OBVIOUS
<1>2. f \in Nat /\ DOMAIN m = F
  OBVIOUS
<1>3. /\ e \in Entry /\ Present(e) /\ e.frame = f
      /\ Empty \in [Slots -> Entry]
  BY <1>1, <1>2, EntriesAre
<1>4. w \in DOMAIN b /\ b[w] = PlaceOf(Window, 1) /\ w \in F /\ DOMAIN b \subseteq F
      /\ LeadsTo(m, w, LastSlot - 1, w)
  BY <1>2 DEF WindowAt, Tree
<1>5. machine \in Machines
  BY DEF TypeInv
<1>6. LastSlot \in Slots /\ LastSlot - 1 \in Slots /\ LastSlot - 1 # LastSlot
  <2>1. LastSlot \in Slots /\ LastSlot - 1 \in Slots
    BY <1>5, BesideWindow
  <2>2. LastSlot \in Int
    BY <2>1 DEF Slots
  <2> QED BY <2>1, <2>2
<1>7. Shows(m, BootRoot, InvalidatorPage) = w
  BY <1>5, WindowShows
<1>8. h = SetInvalidator(m, BootRoot, e)
  BY <1>1, <1>7 DEF SetInvalidator
<1>9. /\ h \in [F -> [Slots -> Entry]] /\ h[w][LastSlot] = e
      /\ \A u \in F, j \in Slots : ~(u = w /\ j = LastSlot) => h[u][j] = m[u][j]
      /\ \A u \in F : u # w => h[u] = m[u]
  <2>1. w \in F /\ LastSlot \in Slots /\ e \in Entry
    BY <1>3, <1>4, <1>6
  <2>2. h = Write(m, w, LastSlot, e)
    BY <1>1
  <2>3. m \in [F -> [Slots -> Entry]]
    OBVIOUS
  <2>4. PICK n : n = LastSlot
    OBVIOUS
  <2>5. w \in F /\ n \in Slots /\ e \in Entry
    BY <2>1, <2>4
  <2>6. h = Write(m, w, n, e)
    BY <2>2, <2>4
  <2>7. Written(F, m, h, w, n, e)
    BY ONLY <2>3, <2>5, <2>6, IsWritten
  <2> QED BY <2>4, <2>7 DEF Written
<1>10. Tree(h, L, BootRoot, b)
  <2>1. w \in DOMAIN b => b[w].level = 1
    BY <1>4 DEF PlaceOf
  <2>2. Tree(m, L, BootRoot, b)
    BY <1>1
  <2>3. w \in F /\ LastSlot \in Slots /\ e \in Entry /\ m \in [F -> [Slots -> Entry]]
    BY <1>3, <1>4, <1>6
  <2>4. PICK n : n = LastSlot
    OBVIOUS
  <2>5. w \in F /\ n \in Slots /\ e \in Entry /\ h = Write(m, w, n, e)
    BY <1>1, <2>3, <2>4
  <2>6. m \in [F -> [Slots -> Entry]]
    OBVIOUS
  <2> QED BY ONLY <2>1, <2>2, <2>5, <2>6, LowWrite
<1>11. WindowAt(h, b, w)
  <2>1. h[w][LastSlot - 1] = m[w][LastSlot - 1]
    BY <1>4, <1>6, <1>9
  <2> QED BY <1>4, <2>1 DEF WindowAt, LeadsTo
<1>12. Shows(h, BootRoot, Window) = f
  <2>1. Shows(h, BootRoot, Window) = IF Present(h[w][LastSlot]) THEN h[w][LastSlot].frame ELSE NoFrame
    BY <1>1, <1>5, <1>10, <1>11, WindowShows
  <2> QED BY <1>3, <1>9, <2>1
<1>13. k = [h EXCEPT ![f] = Empty] /\ tlb' = [tlb EXCEPT ![BootCPU] = f]
  BY <1>1, <1>8, <1>12 DEF ClearThroughWindow
<1>14. k \in [F -> [Slots -> Entry]] /\ k[f] = Empty /\ \A u \in F : u # f => k[u] = h[u]
  BY <1>3, <1>9, <1>13, ClearIs
<1>15. Tree(k, L, BootRoot, b)
  <2>1. DOMAIN h \subseteq DOMAIN k /\ \A u \in DOMAIN b : b[u].level > 1 => k[u] = h[u]
    BY <1>4, <1>9, <1>14
  <2> QED BY <1>10, <2>1, TreeKept
<1>16. WindowAt(k, b, w)
  BY <1>4, <1>11, <1>14 DEF WindowAt, LeadsTo
<1>17. SameBut(F, m, k, {w, f})
  BY <1>9, <1>14 DEF SameBut
<1> QED BY <1>1, <1>2, <1>13, <1>14, <1>15, <1>16, <1>17

LEMMA ContextRootKeeps ==
    ASSUME PagingInv, NEW b, NEW c, Located(b, c), ContextRoot
    PROVE  /\ \E d : Located(b, d)'
           /\ mem' \in [0 .. (machine.ram - 1) -> [Slots -> Entry]]
           /\ at' \in [CPUs -> [table : Nat, level : Nat]]
           /\ tlb' \in [CPUs -> Nat \cup {NoFrame}] /\ context' \in Nat
<1>1. TypeInv /\ Booted /\ free # {} /\ phase = "context" /\ phase' = "tables"
      /\ pc[BootCPU] = "idle" /\ BootCPU \in CPUs /\ UNCHANGED <<machine, mapped, pc>>
  BY PagingAssumption DEF PagingInv, ContextRoot, TakeFrame, Booting
<1>2. PICK f, L, m, F : /\ f = NextFrame /\ L = machine.levels /\ m = mem
                        /\ F = 0 .. (machine.ram - 1)
  OBVIOUS
<1>3. m \in [F -> [Slots -> Entry]] /\ machine \in Machines /\ L \in Levels /\ Masked(f) = f
  BY <1>1, <1>2, MachineIs DEF TypeInv
<1>4. Trees(b, c) /\ \E w : WindowAt(mem, b, w)
  BY <1>1 DEF Located, Windows
<1>5. PICK w : WindowAt(m, b, w)
  BY <1>2, <1>4
<1>6. Tree(m, machine.levels, BootRoot, b) /\ DOMAIN c = {} /\ DOMAIN b = F \ free
      /\ cr3[BootCPU] = BootRoot
  BY <1>1, <1>2, <1>3, <1>4 DEF Trees, Booted
<1>7. f \in free /\ f \in F /\ f \in Nat /\ f \notin DOMAIN b
  BY <1>1, <1>2, <1>6, NextFrameIs
<1>8. PICK k : k = mem'
  OBVIOUS
<1>9. ClearThroughWindow(BootCPU, m, f) /\ context' = f /\ free' = free \ {f}
      /\ at' = [at EXCEPT ![BootCPU] = [table |-> f, level |-> L]]
  BY <1>2, <1>3 DEF ContextRoot, TakeFrame, Walk
<1>10. /\ k \in [F -> [Slots -> Entry]] /\ k[f] = Empty
       /\ Tree(k, machine.levels, BootRoot, b) /\ WindowAt(k, b, w)
       /\ tlb' = [tlb EXCEPT ![BootCPU] = f]
  <2>1. F = 0 .. (machine.ram - 1) /\ f \in F /\ f \notin DOMAIN b
    BY <1>2, <1>7
  <2>2. TypeInv /\ cr3[BootCPU] = BootRoot /\ BootCPU \in CPUs
    BY <1>1, <1>6
  <2>3. m \in [F -> [Slots -> Entry]] /\ Tree(m, machine.levels, BootRoot, b) /\ WindowAt(m, b, w)
    BY <1>3, <1>5, <1>6
  <2>4. ClearThroughWindow(BootCPU, m, f)
    BY <1>9
  <2> QED BY <1>8, <2>1, <2>2, <2>3, <2>4, ClearsThrough
<1>11. \A j \in Slots : ~Present(k[f][j])
  BY <1>1, <1>7, <1>10, EntriesAre
<1>12. PICK d : d = [t \in {f} |-> [level |-> L, part |-> 0]]
  OBVIOUS
<1>13. Tree(k, L, f, d)
  <2>1. f \in DOMAIN k
    BY <1>7, <1>10
  <2> QED BY <1>3, <1>11, <1>12, <2>1, TreeRoot
<1>14. DOMAIN d = {f} /\ d[f] = [level |-> L, part |-> 0]
  BY <1>12
<1>15. Trees(b, d)'
  <2>1. f # NoFrame
    BY <1>7, PagingAssumption
  <2>2. DOMAIN b \cap DOMAIN d = {} /\ DOMAIN b \cup DOMAIN d = DOMAIN k \ (free \ {f})
    BY <1>6, <1>7, <1>10, <1>14
  <2> QED BY <1>1, <1>2, <1>8, <1>9, <1>10, <1>13, <2>1, <2>2 DEF Trees
<1>16. at'[BootCPU] = [table |-> f, level |-> L]
       /\ at' \in [CPUs -> [table : Nat, level : Nat]]
  <2>1. L \in Nat
    BY <1>3 DEF Levels
  <2> QED BY <1>1, <1>7, <1>9, <2>1 DEF TypeInv
<1>17. tlb' \in [CPUs -> Nat \cup {NoFrame}] /\ tlb'[BootCPU] = f
  BY <1>1, <1>7, <1>10 DEF TypeInv
<1>18. Building(b, d)'
  <2>1. Part(Window, machine.levels) = 0
    BY <1>3, BesideWindow
  <2>2. d[f] = PlaceOf(Window, L)
    BY <1>2, <1>14, <2>1 DEF PlaceOf
  <2>3. d[f] = PlaceOf(Window, L)'
    BY <1>1, <2>2 DEF PlaceOf, Part, Window
  <2>4. LastOf(d, at[BootCPU])'
    BY <1>8, <1>11, <1>14, <1>16, <2>3 DEF LastOf, PlaceOf, Part
  <2> QED BY <1>1, <1>14, <1>16, <1>17, <2>4 DEF Building
<1>19. Windows(b, d)'
  <2>1. WindowAt(mem, b, w)'
    BY <1>1, <1>8, <1>10 DEF WindowAt, PlaceOf, Part, Window
  <2> QED BY <1>1, <2>1 DEF Windows
<1>20. Walking(b, d)' /\ Identity(d)'
  BY <1>1, BootAlone
<1>21. Located(b, d)'
  BY <1>15, <1>18, <1>19, <1>20 DEF Located
<1> QED BY <1>2, <1>7, <1>8, <1>9, <1>10, <1>16, <1>17, <1>21

LEMMA ContextTableKeeps ==
    ASSUME PagingInv, NEW b, NEW c, Located(b, c), ContextTable
    PROVE  /\ \E d : Located(b, d)'
           /\ mem' \in [0 .. (machine.ram - 1) -> [Slots -> Entry]]
           /\ at' \in [CPUs -> [table : Nat, level : Nat]]
           /\ tlb' \in [CPUs -> Nat \cup {NoFrame}]
<1>1. TypeInv /\ Booted /\ free # {} /\ phase = "tables" /\ at[BootCPU].level > 1
      /\ pc[BootCPU] = "idle" /\ BootCPU \in CPUs
      /\ UNCHANGED <<machine, context, phase, mapped, pc>>
  BY PagingAssumption DEF PagingInv, ContextTable, TakeFrame, Booting
<1>2. PICK t, l, f, L, m, F, ct : /\ t = at[BootCPU].table /\ l = at[BootCPU].level
                                  /\ f = NextFrame /\ L = machine.levels /\ m = mem
                                  /\ F = 0 .. (machine.ram - 1) /\ ct = context
  OBVIOUS
<1>3. m \in [F -> [Slots -> Entry]] /\ machine \in Machines /\ L \in Levels /\ Masked(f) = f
  BY <1>1, <1>2, MachineIs DEF TypeInv
<1>4. /\ Trees(b, c) /\ (\E w : WindowAt(mem, b, w))
      /\ LastOf(c, at[BootCPU]) /\ tlb[BootCPU] = t
      /\ \A u \in DOMAIN c : u # t => c[u].level > l
  BY <1>1, <1>2 DEF Located, Windows, Building
<1>5. PICK w : WindowAt(m, b, w)
  BY <1>2, <1>4
<1>6. /\ Tree(m, L, BootRoot, b) /\ Tree(m, L, ct, c) /\ DOMAIN b \cap DOMAIN c = {}
      /\ DOMAIN b \cup DOMAIN c = F \ free /\ cr3[BootCPU] = BootRoot /\ ct # NoFrame
  <2>1. DOMAIN mem = F /\ phase # "running" /\ context # NoFrame
    BY <1>1, <1>2, <1>3 DEF Booted
  <2> QED BY <1>1, <1>2, <1>4, <2>1 DEF Trees, Booted
<1>7. t \in DOMAIN c /\ c[t] = PlaceOf(Window, l) /\ \A n \in Slots : ~Present(m[t][n])
  BY <1>2, <1>4 DEF LastOf
<1>8. c[t].level = l /\ t \in F /\ t \in Nat /\ w \in DOMAIN b /\ w \in F
  <2>1. t \in F
    BY <1>6, <1>7
  <2> QED BY <1>2, <1>5, <1>6, <1>7, <2>1 DEF PlaceOf, WindowAt
<1>9. l \in 1 .. L /\ l \in 2 .. 4 /\ l > 1
  <2>1. l \in 1 .. L
    BY <1>6, <1>7, <1>8 DEF Tree
  <2>2. L = 2 \/ L = 4
    BY <1>3 DEF Levels
  <2> QED BY <1>1, <1>2, <2>1, <2>2
<1>10. f \in free /\ f \in F /\ f \in Nat /\ f \notin DOMAIN b /\ f \notin DOMAIN c /\ f # t
  BY <1>1, <1>2, <1>6, <1>7, NextFrameIs
<1>11. PICK e : e = ToTable(f)
  OBVIOUS
<1>12. /\ e \in Entry /\ Present(e) /\ e.frame = f
       /\ \A n \in Slots : Empty[n] = Absent
       /\ ~Present(Absent)
  BY <1>1, <1>10, <1>11, EntriesAre
<1>13. PICK h, k : h = Write(m, t, LastSlot, e) /\ k = mem'
  OBVIOUS
<1>14. Through(BootCPU) = t
  BY <1>4, <1>8, PagingAssumption DEF Through
<1>15. ClearThroughWindow(BootCPU, h, f) /\ free' = free \ {f}
       /\ at' = [at EXCEPT ![BootCPU] = [table |-> f, level |-> l - 1]]
  BY <1>2, <1>11, <1>13, <1>14 DEF ContextTable, TakeFrame, Walk
<1>16. LastSlot \in Slots /\ Window \in Nat /\ Index(Window, l) = LastSlot
  BY <1>2, <1>3, <1>9, BesideWindow
<1>17. /\ h \in [F -> [Slots -> Entry]] /\ h[t][LastSlot] = e
       /\ \A u \in F, j \in Slots : ~(u = t /\ j = LastSlot) => h[u][j] = m[u][j]
       /\ \A u \in F : u # t => h[u] = m[u]
  <2>1. m \in [F -> [Slots -> Entry]] /\ t \in F /\ LastSlot \in Slots /\ e \in Entry
    BY <1>3, <1>8, <1>12, <1>16
  <2> QED BY <1>13, <2>1, WriteIs
<1>18. Tree(h, machine.levels, BootRoot, b) /\ WindowAt(h, b, w)
  <2>1. t \notin DOMAIN b /\ DOMAIN b \subseteq F
    BY <1>6, <1>7
  <2>2. DOMAIN m \subseteq DOMAIN h /\ \A u \in DOMAIN b : b[u].level > 1 => h[u] = m[u]
    BY <1>3, <1>17, <2>1
  <2>3. Tree(h, L, BootRoot, b)
    BY <1>6, <2>2, TreeKept
  <2>4. h[w] = m[w]
    BY <1>8, <1>17, <2>1
  <2> QED BY <1>2, <1>5, <2>3, <2>4 DEF WindowAt, LeadsTo
<1>19. /\ k \in [F -> [Slots -> Entry]] /\ k[f] = Empty
       /\ \A u \in F : u # w /\ u # f => k[u] = h[u]
       /\ Tree(k, machine.levels, BootRoot, b) /\ WindowAt(k, b, w)
       /\ tlb' = [tlb EXCEPT ![BootCPU] = f]
  <2>1. F = 0 .. (machine.ram - 1) /\ f \in F /\ f \notin DOMAIN b
    BY <1>2, <1>10
  <2>2. cr3[BootCPU] = BootRoot /\ BootCPU \in CPUs /\ TypeInv
    BY <1>1, <1>6
  <2>3. h \in [F -> [Slots -> Entry]]
    BY <1>17
  <2>4. ClearThroughWindow(BootCPU, h, f) /\ k = mem'
    BY <1>13, <1>15
  <2>5. Tree(h, machine.levels, BootRoot, b) /\ WindowAt(h, b, w)
    BY <1>18
  <2>6. /\ k \in [F -> [Slots -> Entry]] /\ k[f] = Empty
        /\ Tree(k, machine.levels, BootRoot, b) /\ WindowAt(k, b, w)
        /\ tlb' = [tlb EXCEPT ![BootCPU] = f]
    BY <2>1, <2>2, <2>3, <2>4, <2>5, ClearsThrough
  <2>7. SameBut(F, h, k, {w, f})
    BY <2>1, <2>2, <2>3, <2>4, <2>5, ClearsThrough
  <2> QED BY <2>6, <2>7 DEF SameBut
<1>20. PICK d : d = Grown(c, t, LastSlot, f)
  OBVIOUS
<1>21. DOMAIN d = DOMAIN c \cup {f} /\ d[f] = Under(c[t], LastSlot) /\ \A u \in DOMAIN c : d[u] = c[u]
  BY <1>10, <1>20 DEF Grown
<1>22. Tree(k, L, ct, d)
  <2>1. t # w
    BY <1>6, <1>7, <1>8
  <2>2. LeadsTo(k, t, LastSlot, f)
    BY <1>8, <1>10, <1>12, <1>17, <1>19, <2>1 DEF LeadsTo
  <2>3. \A j \in Slots : ~Present(k[f][j])
    BY <1>12, <1>19
  <2>4. DOMAIN m \subseteq DOMAIN k /\ f \in DOMAIN k /\ DOMAIN c \subseteq F
    BY <1>3, <1>6, <1>10, <1>19
  <2>5. \A u \in DOMAIN c, j \in Slots :
           c[u].level > 1 /\ ~(u = t /\ j = LastSlot) => k[u][j] = m[u][j]
    <3>1. \A u \in DOMAIN c : u \in F /\ u # w /\ u # f
      BY <1>6, <1>8, <1>10, <2>4
    <3> QED BY <1>17, <1>19, <3>1
  <2>6. t \in DOMAIN c /\ c[t].level > 1 /\ LastSlot \in Slots /\ ~Present(m[t][LastSlot])
    BY <1>7, <1>8, <1>9, <1>16
  <2>7. Tree(m, L, ct, c) /\ L \in Levels /\ f \notin DOMAIN c
    BY <1>3, <1>6, <1>10
  <2>8. Tree(k, L, ct, Grown(c, t, LastSlot, f))
    BY <2>2, <2>3, <2>4, <2>5, <2>6, <2>7, TreeGrows
  <2> QED BY <1>20, <2>8
<1>23. Trees(b, d)'
  <2>1. DOMAIN b \cap DOMAIN d = {} /\ DOMAIN b \cup DOMAIN d = DOMAIN k \ (free \ {f})
    BY <1>6, <1>10, <1>19, <1>21
  <2> QED BY <1>1, <1>2, <1>6, <1>13, <1>15, <1>19, <1>22, <2>1 DEF Trees
<1>24. at'[BootCPU] = [table |-> f, level |-> l - 1]
       /\ at' \in [CPUs -> [table : Nat, level : Nat]]
  <2>1. l - 1 \in Nat
    BY <1>9
  <2> QED BY <1>1, <1>10, <1>15, <2>1 DEF TypeInv
<1>25. tlb' \in [CPUs -> Nat \cup {NoFrame}] /\ tlb'[BootCPU] = f
  BY <1>1, <1>10, <1>19 DEF TypeInv
<1>26. Building(b, d)'
  <2>1. d[f] = PlaceOf(Window, l - 1)
    BY <1>7, <1>9, <1>16, <1>21, PlaceBelow
  <2>2. d[f] = PlaceOf(Window, l - 1)'
    BY <1>1, <2>1 DEF PlaceOf, Part, Window
  <2>3. LastOf(d, at[BootCPU])'
    BY <1>12, <1>13, <1>19, <1>21, <1>24, <2>2 DEF LastOf, PlaceOf, Part
  <2>4. \A u \in DOMAIN d : u # f => d[u].level > l - 1
    <3> SUFFICES ASSUME NEW u \in DOMAIN c PROVE c[u].level > l - 1
      BY <1>21
    <3>1. c[u].level \in 1 .. L /\ L \in Nat
      BY <1>3, <1>6 DEF Tree, Levels
    <3>2. c[u].level = l \/ c[u].level > l
      BY <1>4, <1>8
    <3> QED BY <1>9, <3>1, <3>2
  <2> QED BY <1>1, <1>24, <1>25, <2>3, <2>4 DEF Building
<1>27. Windows(b, d)'
  <2>1. WindowAt(mem, b, w)'
    BY <1>1, <1>13, <1>19 DEF WindowAt, PlaceOf, Part, Window
  <2> QED BY <1>1, <2>1 DEF Windows
<1>28. Walking(b, d)' /\ Identity(d)'
  BY <1>1, BootAlone
<1>29. Located(b, d)'
  BY <1>23, <1>26, <1>27, <1>28 DEF Located
<1> QED BY <1>2, <1>13, <1>19, <1>24, <1>25, <1>29

\* No page below the window is there yet when the first call comes.
Blank(c, k) ==
    \A t \in DOMAIN c, page \in Nat : page < InvalidatorPage /\ c[t] = PlaceOf(page, 1) =>
        ~Present(k[t][Index(page, 1)])

LEMMA ContextWindowKeeps ==
    ASSUME PagingInv, NEW b, NEW c, Located(b, c), ContextWindow
    PROVE  /\ Located(b, c)' /\ Blank(c, mem')
           /\ mem' \in [0 .. (machine.ram - 1) -> [Slots -> Entry]]
<1>1. TypeInv /\ Booted /\ phase = "tables" /\ phase' = "map" /\ at[BootCPU].level = 1
      /\ pc[BootCPU] = "idle" /\ BootCPU \in CPUs /\ UNCHANGED <<machine, context, mapped, pc, free>>
  BY PagingAssumption DEF PagingInv, ContextWindow, Booting
<1>2. PICK t, L, ct : t = at[BootCPU].table /\ L = machine.levels /\ ct = context
  OBVIOUS
<1>3. /\ Trees(b, c) /\ (\E w : WindowAt(mem, b, w))
      /\ LastOf(c, at[BootCPU]) /\ tlb[BootCPU] = t
      /\ \A u \in DOMAIN c : u # t => c[u].level > 1
  BY <1>1, <1>2 DEF Located, Windows, Building
<1>4. Tree(mem, L, BootRoot, b) /\ Tree(mem, L, ct, c) /\ DOMAIN b \cap DOMAIN c = {} /\ ct # NoFrame
  <2>1. context # NoFrame
    BY <1>1 DEF Booted
  <2> QED BY <1>2, <1>3, <2>1 DEF Trees
<1>5. t \in DOMAIN c /\ c[t] = PlaceOf(Window, 1) /\ t \in DOMAIN mem
      /\ \A n \in Slots : ~Present(mem[t][n])
  BY <1>1, <1>2, <1>3, <1>4 DEF LastOf, Tree
<1>6. PICK k : k = WindowEntries(mem, t)
  OBVIOUS
<1>7. t \in Nat
  <2>1. DOMAIN mem = 0 .. (machine.ram - 1)
    BY <1>1 DEF TypeInv
  <2> QED BY <1>5, <2>1
<1>8. k = mem'
  <2>1. Through(BootCPU) = t
    BY <1>3, <1>7, PagingAssumption DEF Through
  <2> QED BY <1>6, <2>1 DEF ContextWindow
<1>9. /\ k \in [0 .. (machine.ram - 1) -> [Slots -> Entry]]
      /\ LeadsTo(k, t, LastSlot - 1, t)
      /\ \A u \in DOMAIN mem : u # t => k[u] = mem[u]
      /\ \A j \in Slots : j # LastSlot /\ j # LastSlot - 1 => k[t][j] = mem[t][j]
  BY <1>1, <1>5, <1>6, WindowMade
<1>10. DOMAIN k = DOMAIN mem
  BY <1>1, <1>9 DEF TypeInv
<1>11. Tree(k, L, ct, c)
  <2>1. \A u \in DOMAIN c : c[u].level > 1 => k[u] = mem[u]
    BY <1>4, <1>5, <1>9 DEF PlaceOf, Tree
  <2> QED BY <1>4, <1>10, <2>1, TreeKept
<1>12. Tree(k, L, BootRoot, b)
  <2>1. \A u \in DOMAIN b : b[u].level > 1 => k[u] = mem[u]
    BY <1>4, <1>5, <1>9 DEF Tree
  <2> QED BY <1>4, <1>10, <2>1, TreeKept
<1>13. Trees(b, c)'
  BY <1>1, <1>2, <1>3, <1>4, <1>8, <1>10, <1>11, <1>12 DEF Trees
<1>14. WindowAt(mem, c, t)'
  BY <1>1, <1>5, <1>8, <1>9 DEF WindowAt, PlaceOf, Part, Window
<1>15. \E w : WindowAt(mem, b, w)'
  <2>1. PICK w : WindowAt(mem, b, w)
    BY <1>3
  <2>2. w # t /\ w \in DOMAIN mem
    BY <1>4, <1>5, <2>1 DEF WindowAt, Tree
  <2>3. k[w] = mem[w]
    BY <1>9, <2>2
  <2> QED BY <1>1, <1>8, <2>1, <2>3 DEF WindowAt, PlaceOf, Part, Window, LeadsTo
<1>16. Windows(b, c)' /\ Building(b, c)'
  BY <1>1, <1>14, <1>15 DEF Windows, Building
<1>17. Walking(b, c)' /\ Identity(c)'
  BY <1>1, BootAlone
<1>18. Blank(c, k)
  <2> SUFFICES ASSUME NEW u \in DOMAIN c, NEW page \in Nat, page < InvalidatorPage,
                      c[u] = PlaceOf(page, 1)
               PROVE  ~Present(k[u][Index(page, 1)])
    BY DEF Blank
  <2>1. u = t
    <3>1. c[u].level = 1
      BY DEF PlaceOf
    <3> QED BY <1>3, <3>1
  <2>2. 1 \in 1 .. 4
    OBVIOUS
  <2>3. Index(page, 1) \in Slots
    BY <2>2, IndexIsSlot
  <2>4. PlaceOf(page, 1) = PlaceOf(Window, 1) /\ machine \in Machines
    BY <1>1, <1>5, <2>1 DEF TypeInv
  <2>5. Index(page, 1) # LastSlot /\ Index(page, 1) # LastSlot - 1
    BY <2>4, BesideWindow
  <2> QED BY <1>5, <1>9, <2>1, <2>3, <2>5
<1> QED BY <1>8, <1>9, <1>13, <1>16, <1>17, <1>18 DEF Located

-----------------------------------------------------------------------------
(* The invariant is inductive.                                             *)

Where == {"idle", "lock", "stopped"} \cup Inside

LEMMA Went ==
    ASSUME TypeInv, NEW p \in CPUs, NEW where \in Where, Go(p, where)
    PROVE  /\ pc'[p] = where /\ (\A q \in CPUs : q # p => pc'[q] = pc[q])
           /\ pc' \in [CPUs -> Where]
BY DEF Go, TypeInv, Where

LEMMA StepTyped ==
    ASSUME TypeInv, NEW p \in CPUs, NEW where \in Where, Go(p, where),
           UNCHANGED <<machine, context, cr3, phase, mapped, call>>,
           mem' \in [0 .. (machine.ram - 1) -> [Slots -> Entry]], free' \subseteq free,
           lock_paging' \in {0, 1}, tlb' \in [CPUs -> Nat \cup {NoFrame}],
           at' \in [CPUs -> [table : Nat, level : Nat]]
    PROVE  TypeInv'
<1>1. pc' \in [CPUs -> Where]
  BY Went
<1>2. mem' \in [0 .. (machine'.ram - 1) -> [Slots -> Entry]]
  OBVIOUS
<1>3. free' \in SUBSET (1 .. (machine'.ram - 1))
  BY DEF TypeInv
<1>4. call' \in [CPUs -> Request \cup {NoCall}] /\ context' \in Nat \cup {NoFrame}
      /\ cr3' \in [CPUs -> Nat \cup {NoFrame}] /\ mapped' \in Nat
      /\ phase' \in {"init", "context", "tables", "map", "running"} /\ machine' \in Machines
  BY DEF TypeInv
<1> QED BY <1>1, <1>2, <1>3, <1>4 DEF TypeInv, Where

\* A processor in a call goes on.
LEMMA StepGoesOn ==
    ASSUME TypeInv, Booted, Asked, NEW p \in CPUs, pc[p] \in {"lock"} \cup Inside,
           NEW where \in Where \ {"lock"}, Go(p, where),
           where \in {"point", "use"} => pc[p] \in {"lock", "point", "use"},
           UNCHANGED <<machine, context, cr3, phase, mapped, call>>
    PROVE  Booted' /\ Asked'
<1>1. pc'[p] = where /\ \A q \in CPUs : q # p => pc'[q] = pc[q]
  BY Went
<1>2. (p = BootCPU \/ phase = "running") /\ phase \in {"map", "running"}
  BY InsideRuns
<1>3. Booted'
  BY <1>1, <1>2, PagingAssumption DEF Booted
<1>4. Asked'
  BY <1>1 DEF Asked, InvalidatorPage, Window
<1> QED BY <1>3, <1>4

LEMMA StepHolds ==
    ASSUME PagingInv, NEW p \in CPUs, Step(p)
    PROVE  PagingInv'
<1>1. TypeInv /\ Booted /\ Asked /\ OneInside
  BY DEF PagingInv
<1>2. PICK b, c : Located(b, c)
  BY DEF PagingInv
<1>3. machine \in Machines /\ mem \in [0 .. (machine.ram - 1) -> [Slots -> Entry]]
      /\ lock_paging \in {0, 1}
      /\ tlb \in [CPUs -> Nat \cup {NoFrame}] /\ at \in [CPUs -> [table : Nat, level : Nat]]
  BY <1>1 DEF TypeInv
<1>4. CASE Lock(p)
  <2>1. Located(b, c)' /\ at' \in [CPUs -> [table : Nat, level : Nat]]
    BY <1>2, <1>4, LockKeeps
  <2>2. /\ pc[p] = "lock" /\ Go(p, "point") /\ lock_paging = 0 /\ lock_paging' = 1
        /\ UNCHANGED <<machine, mem, free, context, cr3, tlb, phase, mapped, call>>
    BY <1>4 DEF Lock
  <2>3. "point" \in Where \ {"lock"} /\ "point" \in Where /\ "point" \in Inside
    BY DEF Where, Inside
  <2>4. TypeInv'
    BY <1>1, <1>3, <2>1, <2>2, <2>3, StepTyped
  <2>5. Booted' /\ Asked'
    BY <1>1, <2>2, <2>3, StepGoesOn
  <2>6. OneInside'
    BY <1>1, <2>2, <2>3, Entering
  <2> QED BY <2>1, <2>4, <2>5, <2>6 DEF PagingInv
<1>5. CASE Point(p)
  <2>1. Located(b, c)' /\ mem' \in [0 .. (machine.ram - 1) -> [Slots -> Entry]]
    BY <1>1, <1>2, <1>5, PointKeeps
  <2>2. /\ pc[p] = "point" /\ Go(p, "use") /\ tlb' = [tlb EXCEPT ![p] = NoFrame]
        /\ UNCHANGED <<machine, free, lock_paging, context, cr3, phase, mapped, call, at>>
    BY <1>5 DEF Point, PointWindow
  <2>3. "use" \in Where \ {"lock"} /\ "use" \in Where /\ "use" \in Inside /\ pc[p] \in Inside
    BY <2>2 DEF Where, Inside
  <2>4. tlb' \in [CPUs -> Nat \cup {NoFrame}]
    BY <1>3, <2>2
  <2>5. TypeInv'
    BY <1>1, <1>3, <2>1, <2>2, <2>3, <2>4, StepTyped
  <2>6. Booted' /\ Asked'
    BY <1>1, <2>2, <2>3, StepGoesOn
  <2>7. OneInside'
    BY <1>1, <2>2, <2>3, Onward
  <2> QED BY <2>1, <2>5, <2>6, <2>7 DEF PagingInv
<1>6. CASE Descend(p)
  <2>1. /\ Located(b, c)' /\ tlb' \in [CPUs -> Nat \cup {NoFrame}]
        /\ at' \in [CPUs -> [table : Nat, level : Nat]]
    BY <1>2, <1>6, DescendKeeps
  <2>2. /\ pc[p] = "use" /\ Go(p, "point")
        /\ UNCHANGED <<machine, mem, free, lock_paging, context, cr3, phase, mapped, call>>
    BY <1>6 DEF Descend, Use
  <2>3. "point" \in Where \ {"lock"} /\ "point" \in Where /\ "point" \in Inside /\ pc[p] \in Inside
    BY <2>2 DEF Where, Inside
  <2>4. TypeInv'
    BY <1>1, <1>3, <2>1, <2>2, <2>3, StepTyped
  <2>5. Booted' /\ Asked'
    BY <1>1, <2>2, <2>3, StepGoesOn
  <2>6. OneInside'
    BY <1>1, <2>2, <2>3, Onward
  <2> QED BY <2>1, <2>4, <2>5, <2>6 DEF PagingInv
<1>7. CASE AddTable(p)
  <2>1. /\ (\E d : Located(b, d)') /\ tlb' \in [CPUs -> Nat \cup {NoFrame}]
        /\ mem' \in [0 .. (machine.ram - 1) -> [Slots -> Entry]]
        /\ at' \in [CPUs -> [table : Nat, level : Nat]]
    BY <1>2, <1>7, AddTableKeeps
  <2>2. /\ pc[p] = "use" /\ Go(p, "point") /\ free' \subseteq free
        /\ UNCHANGED <<machine, lock_paging, context, cr3, phase, mapped, call>>
    BY <1>7 DEF AddTable, Use, TakeFrame
  <2>3. "point" \in Where \ {"lock"} /\ "point" \in Where /\ "point" \in Inside /\ pc[p] \in Inside
    BY <2>2 DEF Where, Inside
  <2>4. TypeInv'
    BY <1>1, <1>3, <2>1, <2>2, <2>3, StepTyped
  <2>5. Booted' /\ Asked'
    BY <1>1, <2>2, <2>3, StepGoesOn
  <2>6. OneInside'
    BY <1>1, <2>2, <2>3, Onward
  <2> QED BY <2>1, <2>4, <2>5, <2>6 DEF PagingInv
<1>8. CASE OutOfMemory(p)
  <2>1. Located(b, c)' /\ tlb' \in [CPUs -> Nat \cup {NoFrame}]
    BY <1>2, <1>8, StopsKeep
  <2>2. /\ pc[p] = "use" /\ Go(p, "stopped") /\ lock_paging' = 0
        /\ UNCHANGED <<machine, mem, free, context, cr3, phase, mapped, call, at>>
    BY <1>8 DEF OutOfMemory, Use
  <2>3. "stopped" \in Where \ {"lock"} /\ "stopped" \in Where /\ "stopped" \notin Inside /\ pc[p] \in Inside
    BY <2>2 DEF Where, Inside
  <2>4. TypeInv'
    BY <1>1, <1>3, <2>1, <2>2, <2>3, StepTyped
  <2>5. Booted' /\ Asked'
    BY <1>1, <2>2, <2>3, StepGoesOn
  <2>6. OneInside'
    BY <1>1, <2>2, <2>3, Leaving
  <2> QED BY <2>1, <2>4, <2>5, <2>6 DEF PagingInv
<1>9. CASE SetEntry(p)
  <2>1. /\ Located(b, c)' /\ tlb' \in [CPUs -> Nat \cup {NoFrame}]
        /\ mem' \in [0 .. (machine.ram - 1) -> [Slots -> Entry]]
    BY <1>2, <1>9, SetEntryKeeps
  <2>2. /\ pc[p] = "use" /\ Go(p, "unlock")
        /\ UNCHANGED <<machine, free, lock_paging, context, cr3, phase, mapped, call, at>>
    BY <1>9 DEF SetEntry, Use
  <2>3. "unlock" \in Where \ {"lock"} /\ "unlock" \in Where /\ "unlock" \in Inside /\ pc[p] \in Inside
    BY <2>2 DEF Where, Inside
  <2>4. TypeInv'
    BY <1>1, <1>3, <2>1, <2>2, <2>3, StepTyped
  <2>5. Booted' /\ Asked'
    BY <1>1, <2>2, <2>3, StepGoesOn
  <2>6. OneInside'
    BY <1>1, <2>2, <2>3, Onward
  <2> QED BY <2>1, <2>4, <2>5, <2>6 DEF PagingInv
<1>10. CASE Unlock(p)
  <2>1. Located(b, c)'
    BY <1>2, <1>10, StopsKeep
  <2>2. /\ pc[p] = "unlock" /\ Go(p, "idle") /\ lock_paging' = 0
        /\ UNCHANGED <<machine, mem, free, context, cr3, phase, mapped, call, at, tlb>>
    BY <1>10 DEF Unlock
  <2>3. "idle" \in Where \ {"lock"} /\ "idle" \in Where /\ "idle" \notin Inside /\ pc[p] \in Inside
    BY <2>2 DEF Where, Inside
  <2>4. TypeInv'
    BY <1>1, <1>3, <2>2, <2>3, StepTyped
  <2>5. Booted' /\ Asked'
    BY <1>1, <2>2, <2>3, StepGoesOn
  <2>6. OneInside'
    BY <1>1, <2>2, <2>3, Leaving
  <2> QED BY <2>1, <2>4, <2>5, <2>6 DEF PagingInv
<1> QED BY <1>4, <1>5, <1>6, <1>7, <1>8, <1>9, <1>10 DEF Step

\* While the kernel builds the tables nobody is in a call.
LEMMA NobodyCalls ==
    ASSUME TypeInv, Booted, phase \notin {"map", "running"}
    PROVE  \A p \in CPUs : pc[p] \in {"idle", "stopped"}
BY DEF Booted

LEMMA TablesHold ==
    ASSUME PagingInv, InitTable \/ InitWindow \/ ContextRoot \/ ContextTable \/ ContextWindow
    PROVE  PagingInv'
<1>1. TypeInv /\ Booted /\ Asked /\ OneInside
  BY DEF PagingInv
<1>2. PICK b, c : Located(b, c)
  BY DEF PagingInv
<1>3. (\E d, e : Located(d, e)')
  <2>1. CASE InitTable
    BY <1>2, <2>1, InitTableKeeps
  <2>2. CASE InitWindow
    BY <1>2, <2>2, InitWindowKeeps
  <2>3. CASE ContextRoot
    BY <1>2, <2>3, ContextRootKeeps
  <2>4. CASE ContextTable
    BY <1>2, <2>4, ContextTableKeeps
  <2>5. CASE ContextWindow
    BY <1>2, <2>5, ContextWindowKeeps
  <2> QED BY <2>1, <2>2, <2>3, <2>4, <2>5
<1>4. mem' \in [0 .. (machine.ram - 1) -> [Slots -> Entry]]
  <2>1. CASE InitTable
    BY <1>2, <2>1, InitTableKeeps
  <2>2. CASE InitWindow
    BY <1>2, <2>2, InitWindowKeeps
  <2>3. CASE ContextRoot
    BY <1>2, <2>3, ContextRootKeeps
  <2>4. CASE ContextTable
    BY <1>2, <2>4, ContextTableKeeps
  <2>5. CASE ContextWindow
    BY <1>2, <2>5, ContextWindowKeeps
  <2> QED BY <2>1, <2>2, <2>3, <2>4, <2>5
<1>5. at' \in [CPUs -> [table : Nat, level : Nat]] /\ tlb' \in [CPUs -> Nat \cup {NoFrame}]
  <2>1. CASE InitTable
    BY <1>1, <1>2, <2>1, InitTableKeeps DEF InitTable, TypeInv
  <2>2. CASE InitWindow
    BY <1>1, <2>2 DEF InitWindow, TypeInv
  <2>3. CASE ContextRoot
    BY <1>2, <2>3, ContextRootKeeps
  <2>4. CASE ContextTable
    BY <1>2, <2>4, ContextTableKeeps
  <2>5. CASE ContextWindow
    BY <1>1, <2>5 DEF ContextWindow, TypeInv
  <2> QED BY <2>1, <2>2, <2>3, <2>4, <2>5
<1>6. /\ phase \in {"init", "context", "tables"} /\ pc[BootCPU] = "idle"
      /\ UNCHANGED <<machine, cr3, mapped, pc, call>> /\ free' \subseteq free
  BY DEF InitTable, InitWindow, ContextRoot, ContextTable, ContextWindow, Booting, TakeFrame
<1>7. /\ phase' \in {"init", "context", "tables", "map"}
      /\ context' \in Nat \cup {NoFrame} /\ lock_paging' \in {0, 1}
      /\ context' = NoFrame <=> phase' \in {"init", "context"}
  <2>0. context \in Nat \cup {NoFrame} /\ lock_paging \in {0, 1}
        /\ (context = NoFrame <=> phase \in {"init", "context"})
    BY <1>1 DEF TypeInv, Booted
  <2>1. CASE InitTable
    BY <2>0, <2>1 DEF InitTable, Booting
  <2>2. CASE InitWindow
    BY <2>0, <2>2 DEF InitWindow, Booting
  <2>3. CASE ContextRoot
    <3>1. context' \in Nat
      BY <1>2, <2>3, ContextRootKeeps
    <3> QED BY <2>3, <3>1, PagingAssumption DEF ContextRoot, Booting
  <2>4. CASE ContextTable
    BY <2>0, <2>4 DEF ContextTable, Booting
  <2>5. CASE ContextWindow
    BY <2>0, <2>5 DEF ContextWindow, Booting
  <2> QED BY <2>1, <2>2, <2>3, <2>4, <2>5
<1>8. TypeInv'
  <2>1. mem' \in [0 .. (machine'.ram - 1) -> [Slots -> Entry]]
    BY <1>4, <1>6
  <2>2. free' \in SUBSET (1 .. (machine'.ram - 1))
    BY <1>1, <1>6 DEF TypeInv
  <2>3. /\ machine' \in Machines /\ cr3' \in [CPUs -> Nat \cup {NoFrame}] /\ mapped' \in Nat
        /\ pc' \in [CPUs -> {"idle", "lock", "stopped"} \cup Inside]
        /\ call' \in [CPUs -> Request \cup {NoCall}]
    BY <1>1, <1>6 DEF TypeInv
  <2> QED BY <1>5, <1>7, <2>1, <2>2, <2>3 DEF TypeInv
<1>9. \A p \in CPUs : pc'[p] \in {"idle", "stopped"}
  BY <1>1, <1>6, NobodyCalls
<1>10. Booted'
  BY <1>1, <1>6, <1>7 DEF Booted
<1>11. Asked' /\ OneInside'
  BY <1>9 DEF Asked, OneInside, Inside
<1> QED BY <1>3, <1>8, <1>10, <1>11 DEF PagingInv

LEMMA BootFailsHolds ==
    ASSUME PagingInv, BootFails
    PROVE  PagingInv'
<1>1. TypeInv /\ Booted /\ Asked /\ OneInside
  BY DEF PagingInv
<1>2. PICK b, c : Located(b, c)
  BY DEF PagingInv
<1>3. Located(b, c)'
  BY <1>2, BootFailsKeeps
<1>4. /\ phase \in {"init", "context", "tables"} /\ lock_paging' = 0 /\ Go(BootCPU, "stopped")
      /\ UNCHANGED <<machine, mem, free, context, cr3, tlb, phase, mapped, call, at>>
  BY DEF BootFails
<1>5. BootCPU \in CPUs /\ "stopped" \in Where
  BY PagingAssumption DEF Where
<1>6. pc'[BootCPU] = "stopped" /\ \A q \in CPUs : q # BootCPU => pc'[q] = pc[q]
  BY <1>1, <1>4, <1>5, Went
<1>7. TypeInv'
  <2>1. /\ mem' \in [0 .. (machine.ram - 1) -> [Slots -> Entry]] /\ free' \subseteq free
        /\ lock_paging' \in {0, 1} /\ tlb' \in [CPUs -> Nat \cup {NoFrame}]
        /\ at' \in [CPUs -> [table : Nat, level : Nat]]
    BY <1>1, <1>4 DEF TypeInv
  <2> QED BY <1>1, <1>4, <1>5, <2>1, StepTyped
<1>8. \A p \in CPUs : pc'[p] \in {"idle", "stopped"}
  BY <1>1, <1>4, <1>6, NobodyCalls
<1>9. Booted'
  BY <1>1, <1>4, <1>6 DEF Booted
<1>10. Asked' /\ OneInside'
  BY <1>8 DEF Asked, OneInside, Inside
<1> QED BY <1>3, <1>7, <1>9, <1>10 DEF PagingInv

LEMMA SwitchHolds ==
    ASSUME PagingInv, Switch
    PROVE  PagingInv'
<1>1. TypeInv /\ Booted /\ Asked /\ OneInside
  BY DEF PagingInv
<1>2. PICK b, c : Located(b, c)
  BY DEF PagingInv
<1>3. Located(b, c)'
  BY <1>2, SwitchKeeps
<1>4. /\ phase = "map" /\ phase' = "running" /\ pc[BootCPU] = "idle"
      /\ cr3' = [p \in CPUs |-> context] /\ tlb' = [tlb EXCEPT ![BootCPU] = NoFrame]
      /\ UNCHANGED <<machine, mem, free, lock_paging, context, mapped, pc, call, at>>
  BY DEF Switch, Booting
<1>5. TypeInv'
  <2>1. cr3' \in [CPUs -> Nat \cup {NoFrame}] /\ tlb' \in [CPUs -> Nat \cup {NoFrame}]
    BY <1>1, <1>4 DEF TypeInv
  <2> QED BY <1>1, <1>4, <2>1 DEF TypeInv
<1>6. \A p \in CPUs : pc'[p] = "idle"
  BY <1>1, <1>4 DEF Booted
<1>7. Booted'
  BY <1>1, <1>4, <1>6 DEF Booted
<1>8. Asked' /\ OneInside'
  BY <1>6 DEF Asked, OneInside, Inside
<1> QED BY <1>3, <1>5, <1>7, <1>8 DEF PagingInv

\* A call begins, for a page that its caller may ask for.
LEMMA EnterHolds ==
    ASSUME PagingInv, NEW p \in CPUs, NEW r, Enter(p, r), pc[p] = "idle", r \in Request,
           "present" \in r.flags, r.page < machine.ram => r.frame = r.page,
           UNCHANGED <<machine, mem, free, lock_paging, context, cr3, tlb, phase, at>>
    PROVE  /\ Asked' /\ OneInside' /\ (mapped' \in Nat => TypeInv')
           /\ call'[p] = r /\ pc'[p] \in {"lock", "stopped"}
           /\ \A q \in CPUs : q # p => pc'[q] = pc[q] /\ call'[q] = call[q]
<1>1. TypeInv /\ Asked /\ OneInside
  BY DEF PagingInv
<1>2. PICK where : /\ where = IF Reserved(r.page) THEN "stopped" ELSE "lock"
                   /\ Go(p, where)
  BY DEF Enter
<1>3. where \in Where /\ where \in {"lock", "stopped"} /\ where \notin Inside
  BY <1>2 DEF Where, Inside
<1>4. /\ pc'[p] = where /\ (\A q \in CPUs : q # p => pc'[q] = pc[q])
      /\ pc' \in [CPUs -> Where]
  BY <1>1, <1>2, <1>3, Went
<1>5. call' = [call EXCEPT ![p] = r]
  BY DEF Enter
<1>6. call' \in [CPUs -> Request \cup {NoCall}] /\ call'[p] = r
      /\ \A q \in CPUs : q # p => call'[q] = call[q]
  BY <1>1, <1>5 DEF TypeInv
<1>7. mapped' \in Nat => TypeInv'
  BY <1>1, <1>4, <1>6 DEF TypeInv, Where
<1>8. where = "lock" => r.page < InvalidatorPage
  <2>1. where = "lock" => ~(r.page >= InvalidatorPage)
    BY <1>2 DEF Reserved
  <2>2. InvalidatorPage \in Int /\ r.page \in Nat
    <3>1. Window \in Nat
      BY <1>1, BesideWindow DEF TypeInv
    <3> QED BY <3>1 DEF InvalidatorPage, Request
  <2> QED BY <2>1, <2>2
<1>9. Asked'
  <2>1. InvalidatorPage' = InvalidatorPage
    BY DEF InvalidatorPage, Window
  <2> SUFFICES ASSUME NEW q \in CPUs, pc'[q] \in {"lock"} \cup Inside
               PROVE  /\ call'[q] \in Request /\ call'[q].page < InvalidatorPage
                      /\ "present" \in call'[q].flags
                      /\ call'[q].page < machine.ram => call'[q].frame = call'[q].page
    BY <2>1 DEF Asked
  <2>2. CASE q = p
    BY <1>3, <1>4, <1>6, <1>8, <2>2
  <2>3. CASE q # p
    BY <1>1, <1>4, <1>6, <2>3 DEF Asked
  <2> QED BY <2>2, <2>3
<1>10. OneInside'
  BY <1>1, <1>2, <1>3, StayingOut
<1> QED BY <1>3, <1>4, <1>6, <1>7, <1>9, <1>10

LEMMA MapFirstHolds ==
    ASSUME PagingInv, MapFirst
    PROVE  PagingInv' /\ \A b, c : Located(b, c) => Extends(c, c, mem')
<1>1. TypeInv /\ Booted
  BY DEF PagingInv
<1>2. PICK r : r = machine.first[calls[BootCPU] + 1]
  OBVIOUS
<1>3. /\ phase = "map" /\ pc[BootCPU] = "idle" /\ mapped = 0 /\ Enter(BootCPU, r)
      /\ BootCPU \in CPUs /\ r \in {machine.first[n] : n \in DOMAIN machine.first}
      /\ UNCHANGED <<machine, mem, free, lock_paging, context, cr3, tlb, phase, mapped, at>>
  BY <1>2, PagingAssumption DEF MapFirst, Booting
<1>4. r \in Request /\ "present" \in r.flags /\ (r.page < machine.ram => r.frame = r.page)
  BY <1>1, <1>3, MachineIs DEF TypeInv
<1>5. /\ Asked' /\ OneInside' /\ TypeInv' /\ pc'[BootCPU] \in {"lock", "stopped"}
      /\ \A q \in CPUs : q # BootCPU => pc'[q] = pc[q] /\ call'[q] = call[q]
  <2>1. mapped' \in Nat
    BY <1>1, <1>3 DEF TypeInv
  <2> QED BY <1>3, <1>4, <2>1, EnterHolds
<1>6. Booted'
  BY <1>1, <1>3, <1>5 DEF Booted
<1>7. ShownRAM' \subseteq ShownRAM
  BY <1>3 DEF ShownRAM
<1>8. ASSUME NEW b, NEW c, Located(b, c) PROVE Located(b, c)' /\ Extends(c, c, mem')
  BY <1>3, <1>7, <1>8, CallKeeps
<1> QED BY <1>5, <1>6, <1>8 DEF PagingInv

LEMMA MapRAMHolds ==
    ASSUME PagingInv, MapRAM
    PROVE  PagingInv' /\ \A b, c : Located(b, c) => Extends(c, c, mem')
<1>1. TypeInv /\ Booted
  BY DEF PagingInv
<1>2. PICK r : r = [page |-> mapped, frame |-> mapped, flags |-> {"present", "write", "user"}]
  OBVIOUS
<1>3. /\ phase = "map" /\ pc[BootCPU] = "idle" /\ mapped < machine.ram /\ Enter(BootCPU, r)
      /\ mapped' = mapped + 1 /\ BootCPU \in CPUs
      /\ UNCHANGED <<machine, mem, free, lock_paging, context, cr3, tlb, phase, at>>
  BY <1>2, PagingAssumption DEF MapRAM, Booting
<1>4. mapped \in Nat /\ machine.ram \in Nat
  BY <1>1, MachineIs DEF TypeInv
<1>5. r \in Request /\ "present" \in r.flags /\ (r.page < machine.ram => r.frame = r.page)
      /\ r.page = mapped
  BY <1>2, <1>4 DEF Request, Flag
<1>6. /\ Asked' /\ OneInside' /\ TypeInv' /\ call'[BootCPU] = r /\ pc'[BootCPU] \in {"lock", "stopped"}
      /\ \A q \in CPUs : q # BootCPU => pc'[q] = pc[q] /\ call'[q] = call[q]
  <2>1. mapped' \in Nat
    BY <1>3, <1>4
  <2> QED BY <1>3, <1>5, <2>1, EnterHolds
<1>7. Booted'
  <2>1. mapped' <= machine.ram /\ mapped' - 1 = mapped
    BY <1>3, <1>4
  <2> QED BY <1>1, <1>3, <1>5, <1>6, <2>1 DEF Booted
<1>8. ShownRAM' \subseteq ShownRAM
  <2> SUFFICES ASSUME NEW page \in ShownRAM' PROVE page \in ShownRAM
    OBVIOUS
  <2>1. page \in 0 .. (machine.ram - 1) /\ page < mapped + 1 /\ page # (mapped + 1) - 1
    BY <1>3, <1>6 DEF ShownRAM
  <2>2. page < mapped
    BY <1>4, <2>1
  <2> QED BY <1>3, <2>1, <2>2 DEF ShownRAM
<1>9. ASSUME NEW b, NEW c, Located(b, c) PROVE Located(b, c)' /\ Extends(c, c, mem')
  BY <1>3, <1>8, <1>9, CallKeeps
<1> QED BY <1>6, <1>7, <1>9 DEF PagingInv

LEMMA CallHolds ==
    ASSUME PagingInv, NEW p \in CPUs, NEW r \in machine.requests, Call(p, r)
    PROVE  PagingInv' /\ \A b, c : Located(b, c) => Extends(c, c, mem')
<1>1. TypeInv /\ Booted
  BY DEF PagingInv
<1>2. /\ phase = "running" /\ pc[p] = "idle" /\ Enter(p, r)
      /\ UNCHANGED <<machine, mem, free, lock_paging, context, cr3, tlb, phase, mapped, at>>
  BY DEF Call
<1>3. r \in Request /\ "present" \in r.flags /\ (r.page < machine.ram => r.frame = r.page)
  BY <1>1, MachineIs DEF TypeInv
<1>4. Asked' /\ OneInside' /\ TypeInv'
  <2>1. mapped' \in Nat
    BY <1>1, <1>2 DEF TypeInv
  <2> QED BY <1>2, <1>3, <2>1, EnterHolds
<1>5. Booted'
  BY <1>1, <1>2 DEF Booted
<1>6. ShownRAM' \subseteq ShownRAM
  BY <1>2 DEF ShownRAM
<1>7. ASSUME NEW b, NEW c, Located(b, c) PROVE Located(b, c)' /\ Extends(c, c, mem')
  BY <1>2, <1>6, <1>7, CallKeeps
<1> QED BY <1>4, <1>5, <1>7 DEF PagingInv

LEMMA StutterHolds ==
    ASSUME PagingInv, UNCHANGED vars
    PROVE  PagingInv'
<1>1. UNCHANGED <<machine, mem, free, lock_paging, context, cr3, tlb, phase, mapped, pc, call, at>>
  BY DEF vars
<1>2. PICK b, c : Located(b, c)
  BY DEF PagingInv
<1>3. TypeInv /\ Booted /\ Asked /\ OneInside
  BY DEF PagingInv
<1>4. TypeInv' /\ Booted' /\ OneInside'
  BY <1>1, <1>3 DEF TypeInv, Booted, OneInside
<1>5. Asked'
  BY <1>1, <1>3 DEF Asked, InvalidatorPage, Window
<1>6. Walking(b, c)'
  <2>1. Walking(b, c)
    BY <1>2 DEF Located
  <2> QED BY <1>1, <2>1 DEF Walking, WindowAt, PlaceOf, Part, Window
<1>7. ShownRAM' \subseteq ShownRAM
  BY <1>1 DEF ShownRAM
<1>8. Located(b, c)'
  BY <1>1, <1>2, <1>3, <1>6, <1>7, Quiet
<1> QED BY <1>4, <1>5, <1>8 DEF PagingInv

LEMMA NextHolds == PagingInv /\ [Next]_vars => PagingInv'
<1> SUFFICES ASSUME PagingInv, [Next]_vars PROVE PagingInv'
  OBVIOUS
<1>1. CASE Boot
  BY <1>1, TablesHold, BootFailsHolds, MapFirstHolds, MapRAMHolds, SwitchHolds DEF Boot
<1>2. ASSUME NEW p \in CPUs, Step(p) PROVE PagingInv'
  BY <1>2, StepHolds
<1>3. ASSUME NEW p \in CPUs, NEW r \in machine.requests, Call(p, r) PROVE PagingInv'
  BY <1>3, CallHolds
<1>4. CASE UNCHANGED vars
  BY <1>4, StutterHolds
<1> QED BY <1>1, <1>2, <1>3, <1>4 DEF Next

\* A processor that uses the window reaches the table it is walking: not one that
\* another processor walks, and not one it cached before.
THEOREM TableSeen == Spec => []WindowShowsTable
<1>1. Spec => []PagingInv
  BY InitHolds, NextHolds, PTL DEF Spec
<1> QED BY <1>1, UsesItsTable, PTL

-----------------------------------------------------------------------------
(* The tables that are reached.                                            *)

ReachIs(f, L, root) ==
    f = [l \in 0 .. L |-> IF l = L THEN {<<0, root>>} ELSE Entries(f[l + 1])]

LEMMA ReachExists ==
    ASSUME NEW L \in Levels, NEW root
    PROVE  \E f : ReachIs(f, L, root)
<1> DEFINE E(x) == Entries(x)
           r == {<<0, root>>}
<1>1. CASE L = 2
  <2> DEFINE f == [l \in 0 .. 2 |-> IF l = 2 THEN r ELSE IF l = 1 THEN E(r) ELSE E(E(r))]
  <2>1. \A l \in 0 .. 2 : f[l] = IF l = 2 THEN r ELSE E(f[l + 1])
    <3> TAKE l \in 0 .. 2
    <3> HIDE DEF r, E
    <3>1. f[2] = r /\ f[1] = E(r) /\ f[0] = E(E(r))
      OBVIOUS
    <3> HIDE DEF f
    <3>2. CASE l = 0
      BY <3>1, <3>2
    <3>3. CASE l = 1
      BY <3>1, <3>3
    <3>4. CASE l = 2
      BY <3>1, <3>4
    <3> QED BY <3>2, <3>3, <3>4
  <2>2. f = [l \in 0 .. 2 |-> f[l]]
    <3> HIDE DEF r, E
    <3> QED OBVIOUS
  <2> HIDE DEF f
  <2>3. f = [l \in 0 .. 2 |-> IF l = 2 THEN r ELSE E(f[l + 1])]
    <3> HIDE DEF r, E
    <3> QED BY <2>1, <2>2
  <2>4. ReachIs(f, L, root)
    BY <1>1, <2>3 DEF ReachIs
  <2> QED BY <2>4
<1>2. CASE L = 4
  <2> DEFINE f == [l \in 0 .. 4 |-> IF l = 4 THEN r ELSE IF l = 3 THEN E(r)
                                    ELSE IF l = 2 THEN E(E(r)) ELSE IF l = 1 THEN E(E(E(r)))
                                    ELSE E(E(E(E(r))))]
  <2>1. \A l \in 0 .. 4 : f[l] = IF l = 4 THEN r ELSE E(f[l + 1])
    <3> TAKE l \in 0 .. 4
    <3> HIDE DEF r, E
    <3>1. /\ f[4] = r /\ f[3] = E(r) /\ f[2] = E(E(r)) /\ f[1] = E(E(E(r)))
          /\ f[0] = E(E(E(E(r))))
      OBVIOUS
    <3> HIDE DEF f
    <3>2. CASE l = 0
      BY <3>1, <3>2
    <3>3. CASE l = 1
      BY <3>1, <3>3
    <3>4. CASE l = 2
      BY <3>1, <3>4
    <3>5. CASE l = 3
      BY <3>1, <3>5
    <3>6. CASE l = 4
      BY <3>1, <3>6
    <3> QED BY <3>2, <3>3, <3>4, <3>5, <3>6
  <2>2. f = [l \in 0 .. 4 |-> f[l]]
    <3> HIDE DEF r, E
    <3> QED OBVIOUS
  <2> HIDE DEF f
  <2>3. f = [l \in 0 .. 4 |-> IF l = 4 THEN r ELSE E(f[l + 1])]
    <3> HIDE DEF r, E
    <3> QED BY <2>1, <2>2
  <2>4. ReachIs(f, L, root)
    BY <1>2, <2>3 DEF ReachIs
  <2> QED BY <2>4
<1> QED BY <1>1, <1>2 DEF Levels

LEMMA ReachedIs ==
    ASSUME machine.levels \in Levels, NEW root
    PROVE  /\ Reached(root)[machine.levels] = {<<0, root>>}
           /\ \A l \in 0 .. (machine.levels - 1) : Reached(root)[l] = Entries(Reached(root)[l + 1])
<1> DEFINE f == CHOOSE f : ReachIs(f, machine.levels, root)
<1>1. ReachIs(f, machine.levels, root)
  BY ReachExists
<1>2. Reached(root) = f
  BY DEF Reached, ReachIs
<1> HIDE DEF f
<1>3. machine.levels \in Nat
  BY DEF Levels
<1>4. f[machine.levels] = {<<0, root>>}
  BY <1>1, <1>3 DEF ReachIs
<1>5. \A l \in 0 .. (machine.levels - 1) : f[l] = Entries(f[l + 1])
  <2> TAKE l \in 0 .. (machine.levels - 1)
  <2>1. l \in 0 .. machine.levels /\ l # machine.levels
    BY <1>3
  <2> QED BY <1>1, <2>1 DEF ReachIs
<1> QED BY <1>2, <1>4, <1>5

LEMMA EntriesHas ==
    ASSUME NEW T, NEW x
    PROVE  x \in Entries(T) <=>
             \E u \in T, n \in Slots : /\ u[2] \in DOMAIN mem /\ Present(mem[u[2]][n])
                                       /\ x = <<u[1] * SIZE + n, mem[u[2]][n].frame>>
<1> DEFINE P(u) == {n \in 0 .. LastSlot : Present(mem[u[2]][n])}
           X(u, n) == <<u[1] * SIZE + n, mem[u[2]][n].frame>>
           S(u) == {X(u, n) : n \in P(u)}
           V == {u \in T : u[2] \in DOMAIN mem}
<1>1. Entries(T) = UNION {S(u) : u \in V}
  BY DEF Entries
<1> HIDE DEF S, V
<1>2. x \in Entries(T) <=> \E u \in V : x \in S(u)
  BY <1>1
<1> USE DEF S
<1> HIDE DEF P, X
<1>3. \A u : x \in S(u) <=> \E n \in P(u) : x = X(u, n)
  OBVIOUS
<1> QED BY <1>2, <1>3 DEF V, P, X, Slots

\* The tables of a level in a tree, as pairs.
Tabled(place, l) == {<<place[t].part, t>> : t \in {u \in DOMAIN place : place[u].level = l}}

LEMMA TabledHas ==
    ASSUME NEW place, NEW l, NEW x
    PROVE  x \in Tabled(place, l) <=>
             \E t \in DOMAIN place : place[t].level = l /\ x = <<place[t].part, t>>
BY DEF Tabled

LEMMA ReachedTree ==
    ASSUME machine.levels \in Levels, NEW root, NEW place, Tree(mem, machine.levels, root, place)
    PROVE  \A l \in 1 .. machine.levels : Reached(root)[l] = Tabled(place, l)
<1>1. PICK L, R : L = machine.levels /\ R = Reached(root)
  OBVIOUS
<1>2. R[L] = {<<0, root>>} /\ \A l \in 0 .. (L - 1) : R[l] = Entries(R[l + 1])
  BY <1>1, ReachedIs
<1>3. L \in Nat /\ (L = 2 \/ L = 4)
  BY <1>1 DEF Levels
<1>4. R[L] = Tabled(place, L)
  <2>1. ASSUME NEW t \in DOMAIN place, place[t].level = L PROVE t = root
    <3> SUFFICES ASSUME t # root PROVE FALSE
      OBVIOUS
    <3>1. PICK u \in DOMAIN place, n \in Slots : place[u].level > 1 /\ place[t] = Under(place[u], n)
      BY Parent
    <3>2. place[u].level \in 1 .. L /\ place[t].level = place[u].level - 1
      BY <1>1, <3>1 DEF Tree, Under
    <3> QED BY <1>3, <2>1, <3>2
  <2>2. root \in DOMAIN place /\ place[root].level = L /\ place[root].part = 0
    BY <1>1 DEF Tree
  <2>3. \A x : x \in Tabled(place, L) <=> x = <<0, root>>
    BY <2>1, <2>2, TabledHas
  <2> QED BY <1>2, <2>3
<1>5. ASSUME NEW l \in 1 .. 3, l < L, R[l + 1] = Tabled(place, l + 1)
      PROVE  R[l] = Tabled(place, l)
  <2>1. R[l] = Entries(Tabled(place, l + 1))
    <3>1. l \in 0 .. (L - 1)
      BY <1>3, <1>5
    <3> QED BY <1>2, <1>5, <3>1
  <2>2. ASSUME NEW x \in Entries(Tabled(place, l + 1)) PROVE x \in Tabled(place, l)
    <3>1. PICK u \in Tabled(place, l + 1), n \in Slots :
            /\ Present(mem[u[2]][n]) /\ x = <<u[1] * SIZE + n, mem[u[2]][n].frame>>
      BY EntriesHas
    <3>2. PICK t \in DOMAIN place : place[t].level = l + 1 /\ u = <<place[t].part, t>>
      BY <3>1, TabledHas
    <3>3. Present(mem[t][n]) /\ x = <<place[t].part * SIZE + n, mem[t][n].frame>> /\ place[t].level > 1
      BY <3>1, <3>2
    <3>4. PICK v : v = mem[t][n].frame
      OBVIOUS
    <3>5. v \in DOMAIN place /\ place[v] = Under(place[t], n)
      BY <3>3, <3>4 DEF Tree
    <3>6. place[v].level = l /\ place[v].part = place[t].part * SIZE + n
      BY <3>2, <3>5 DEF Under
    <3>7. x = <<place[v].part, v>>
      BY <3>3, <3>4, <3>6
    <3> QED BY <3>5, <3>6, <3>7, TabledHas
  <2>3. ASSUME NEW x \in Tabled(place, l) PROVE x \in Entries(Tabled(place, l + 1))
    <3>1. PICK v \in DOMAIN place : place[v].level = l /\ x = <<place[v].part, v>>
      BY <2>3, TabledHas
    <3>2. v # root
      <4>1. place[root].level = L
        BY <1>1 DEF Tree
      <4> QED BY <1>5, <3>1, <4>1
    <3>3. PICK t \in DOMAIN place, n \in Slots :
            place[t].level > 1 /\ LeadsTo(mem, t, n, v) /\ place[v] = Under(place[t], n)
      BY <3>2, Parent
    <3>4. place[t].level = l + 1 /\ place[v].part = place[t].part * SIZE + n /\ t \in DOMAIN mem
      <4>1. place[t].level \in 1 .. L /\ t \in DOMAIN mem
        BY <1>1 DEF Tree
      <4>2. place[v].level = place[t].level - 1 /\ place[v].part = place[t].part * SIZE + n
        BY <3>3 DEF Under
      <4> QED BY <1>3, <3>1, <4>1, <4>2
    <3>5. PICK u : u = <<place[t].part, t>>
      OBVIOUS
    <3>6. u \in Tabled(place, l + 1)
      BY <3>4, <3>5, TabledHas
    <3>7. u[1] = place[t].part /\ u[2] = t
      BY <3>5
    <3>8. Present(mem[u[2]][n]) /\ x = <<u[1] * SIZE + n, mem[u[2]][n].frame>> /\ u[2] \in DOMAIN mem
      BY <3>1, <3>3, <3>4, <3>7 DEF LeadsTo
    <3> QED BY <3>6, <3>8, EntriesHas
  <2> QED BY <2>1, <2>2, <2>3
<1>6. CASE L = 2
  <2>1. R[1] = Tabled(place, 1)
    BY <1>4, <1>5, <1>6
  <2>2. \A l \in 1 .. L : l = 1 \/ l = 2
    BY <1>6
  <2> QED BY <1>1, <1>4, <1>6, <2>1, <2>2
<1>7. CASE L = 4
  <2>1. R[3] = Tabled(place, 3)
    BY <1>4, <1>5, <1>7
  <2>2. R[2] = Tabled(place, 2)
    BY <1>5, <1>7, <2>1
  <2>3. R[1] = Tabled(place, 1)
    BY <1>5, <1>7, <2>2
  <2>4. \A l \in 1 .. L : l = 1 \/ l = 2 \/ l = 3 \/ l = 4
    BY <1>7
  <2> QED BY <1>1, <1>4, <1>7, <2>1, <2>2, <2>3, <2>4
<1> QED BY <1>3, <1>6, <1>7

LEMMA OwnsTables == PagingInv => TablesOwned
<1> SUFFICES ASSUME PagingInv PROVE TablesOwned
  OBVIOUS
<1>1. TypeInv /\ Booted
  BY DEF PagingInv
<1>2. PICK b, c : Located(b, c)
  BY DEF PagingInv
<1>3. Trees(b, c)
  BY <1>2 DEF Located
<1>4. machine.levels \in Levels /\ machine.levels \in Nat /\ machine.ram \in Nat
  BY <1>1, MachineIs DEF TypeInv, Levels
<1> DEFINE roots == {BootRoot} \cup ({context} \ {NoFrame})
           X(root, l, t) == <<root, l, t[1], t[2]>>
           S(root, l) == {X(root, l, t) : t \in Reached(root)[l]}
           tables == UNION {S(root, l) : root \in roots, l \in 1 .. machine.levels}
           held == {t[4] : t \in tables}
           own == DOMAIN b \cup DOMAIN c
           g == [t \in own |-> IF t \in DOMAIN b THEN <<BootRoot, b[t].level, b[t].part, t>>
                               ELSE <<context, c[t].level, c[t].part, t>>]
<1>a. TablePlaces = tables
  BY DEF TablePlaces
<1>5. \A x : x \in tables <=> \E root \in roots, l \in 1 .. machine.levels : x \in S(root, l)
  <2> HIDE DEF S, roots
  <2> QED OBVIOUS
<1>6. \A x, root, l : x \in S(root, l) <=> \E t \in Reached(root)[l] : x = X(root, l, t)
  <2> HIDE DEF X, roots
  <2> QED OBVIOUS
<1> HIDE DEF tables, S
<1>7. \A root \in roots : \E place \in {b, c} :
        /\ Tree(mem, machine.levels, root, place)
        /\ \A t \in DOMAIN place : g[t] = <<root, place[t].level, place[t].part, t>>
  <2>1. \A t \in DOMAIN b : g[t] = <<BootRoot, b[t].level, b[t].part, t>>
    OBVIOUS
  <2>2. \A t \in DOMAIN c : g[t] = <<context, c[t].level, c[t].part, t>>
    BY <1>3 DEF Trees
  <2> HIDE DEF g
  <2>3. ASSUME NEW root \in roots
        PROVE  \E place \in {b, c} :
                 /\ Tree(mem, machine.levels, root, place)
                 /\ \A t \in DOMAIN place : g[t] = <<root, place[t].level, place[t].part, t>>
    <3>1. CASE root = BootRoot
      <4>1. Tree(mem, machine.levels, root, b)
        BY <1>3, <3>1 DEF Trees
      <4> QED BY <2>1, <3>1, <4>1
    <3>2. CASE root = context /\ context # NoFrame
      <4>1. Tree(mem, machine.levels, root, c)
        BY <1>3, <3>2 DEF Trees
      <4> QED BY <2>2, <3>2, <4>1
    <3> QED BY <3>1, <3>2
  <2> QED BY <2>3
<1>8. ASSUME NEW x \in tables PROVE \E t \in own : x = g[t]
  <2>1. PICK root \in roots, l \in 1 .. machine.levels : x \in S(root, l)
    BY <1>5
  <2>2. PICK u \in Reached(root)[l] : x = X(root, l, u)
    BY <1>6, <2>1
  <2>3. PICK place \in {b, c} :
          /\ Tree(mem, machine.levels, root, place)
          /\ \A t \in DOMAIN place : g[t] = <<root, place[t].level, place[t].part, t>>
    BY <1>7
  <2>4. u \in Tabled(place, l)
    BY <1>4, <2>2, <2>3, ReachedTree
  <2>5. PICK t \in DOMAIN place : place[t].level = l /\ u = <<place[t].part, t>>
    BY <2>4, TabledHas
  <2>6. x = <<root, l, place[t].part, t>>
    BY <2>2, <2>5
  <2>7. t \in own
    BY <2>3
  <2> HIDE DEF g
  <2> QED BY <2>3, <2>5, <2>6, <2>7
<1>9. ASSUME NEW t \in own PROVE g[t] \in tables
  <2>1. PICK root, place : /\ root \in roots /\ t \in DOMAIN place
                           /\ Tree(mem, machine.levels, root, place)
                           /\ g[t] = <<root, place[t].level, place[t].part, t>>
    <3>1. CASE t \in DOMAIN b
      <4>1. g[t] = <<BootRoot, b[t].level, b[t].part, t>>
        BY <3>1
      <4> QED BY <1>3, <3>1, <4>1 DEF Trees
    <3>2. CASE t \notin DOMAIN b
      <4>1. g[t] = <<context, c[t].level, c[t].part, t>> /\ t \in DOMAIN c
        BY <3>2
      <4>2. context # NoFrame
        BY <1>3, <4>1 DEF Trees
      <4> QED BY <1>3, <4>1, <4>2 DEF Trees
    <3> QED BY <3>1, <3>2
  <2> HIDE DEF g, roots
  <2>2. PICK l, u : l = place[t].level /\ u = <<place[t].part, t>>
    OBVIOUS
  <2>3. u \in Tabled(place, l) /\ l \in 1 .. machine.levels
    BY <2>1, <2>2, TabledHas DEF Tree
  <2>4. u \in Reached(root)[l]
    BY <1>4, <2>1, <2>3, ReachedTree
  <2>5. g[t] = X(root, l, u)
    BY <2>1, <2>2
  <2> QED BY <1>5, <1>6, <2>1, <2>3, <2>4, <2>5
<1>10. \A t \in own : g[t][4] = t
  OBVIOUS
<1>11. g = [t \in own |-> g[t]]
  OBVIOUS
<1> HIDE DEF g
<1>12. held = own
  <2>1. ASSUME NEW x \in held PROVE x \in own
    <3>1. PICK y \in tables : x = y[4]
      OBVIOUS
    <3>2. PICK t \in own : y = g[t]
      BY <1>8
    <3> QED BY <1>10, <3>1, <3>2
  <2>2. ASSUME NEW t \in own PROVE t \in held
    <3>1. g[t] \in tables /\ g[t][4] = t
      BY <1>9, <1>10
    <3> QED BY <3>1
  <2> HIDE DEF held, own
  <2> QED BY <2>1, <2>2
<1>13. own = DOMAIN mem \ free
  BY <1>3 DEF Trees
<1>14. IsFiniteSet(own)
  <2>1. DOMAIN mem = 0 .. (machine.ram - 1)
    BY <1>1 DEF TypeInv
  <2>2. IsFiniteSet(0 .. (machine.ram - 1))
    <3>1. 0 \in Int /\ machine.ram - 1 \in Int
      BY <1>4
    <3> QED BY <3>1, FS_Interval
  <2>3. own \in SUBSET (0 .. (machine.ram - 1))
    BY <1>13, <2>1
  <2> HIDE DEF own
  <2> QED BY <2>2, <2>3, FS_Subset
<1> HIDE DEF own, held
<1>15. ExistsBijection(own, tables)
  <2>1. g \in [own -> tables]
    BY <1>9, <1>11
  <2>2. \A s, t \in own : g[s] = g[t] => s = t
    BY <1>10
  <2>3. \A x \in tables : \E t \in own : g[t] = x
    BY <1>8
  <2>4. PICK h, S1, T1 : h = g /\ S1 = own /\ T1 = tables
    OBVIOUS
  <2>5. h \in [S1 -> T1] /\ (\A s, t \in S1 : h[s] = h[t] => s = t) /\ \A x \in T1 : \E t \in S1 : h[t] = x
    BY <2>1, <2>2, <2>3, <2>4
  <2>6. h \in Injection(S1, T1)
    <3>1. IsInjective(h)
      BY <2>5 DEF IsInjective
    <3> QED BY <2>5, <3>1 DEF Injection
  <2>7. h \in Surjection(S1, T1)
    BY <2>5 DEF Surjection
  <2> QED BY <2>4, <2>6, <2>7 DEF ExistsBijection, Bijection
<1>16. Cardinality(tables) = Cardinality(own)
  BY <1>14, <1>15, FS_Bijection
<1>17. Cardinality(held) = Cardinality(tables) /\ held = DOMAIN mem \ free
  BY <1>12, <1>13, <1>16
<1>18. held = {x[4] : x \in TablePlaces}
  BY <1>a DEF held
<1> QED BY <1>a, <1>17, <1>18 DEF TablesOwned

\* Every frame taken from the allocator is one table, in one place of one tree: the
\* tables of the boot code and those of the context share none, and none is lost.
THEOREM FramesAreTables == Spec => []TablesOwned
<1>1. Spec => []PagingInv
  BY InitHolds, NextHolds, PTL DEF Spec
<1> QED BY <1>1, OwnsTables, PTL

-----------------------------------------------------------------------------
(* The pages that the context shows.                                       *)

\* No table lies beyond the address space.
LEMMA PartBound ==
    ASSUME NEW m, NEW L \in Levels, NEW root, NEW place, Tree(m, L, root, place)
    PROVE  \A t \in DOMAIN place : place[t].level = 1 => place[t].part < Span[L]
<1> DEFINE Bound(l) == \A t \in DOMAIN place : place[t].level = l => place[t].part < Span[L + 1 - l]
<1>1. L \in Nat /\ (L = 2 \/ L = 4) /\ SIZE \in Nat \ {0}
  BY PagingAssumption DEF Levels
<1>2. Bound(L)
  <2>1. ASSUME NEW t \in DOMAIN place, place[t].level = L PROVE t = root
    <3> SUFFICES ASSUME t # root PROVE FALSE
      OBVIOUS
    <3>1. PICK u \in DOMAIN place, n \in Slots : place[u].level > 1 /\ place[t] = Under(place[u], n)
      BY Parent
    <3>2. place[u].level \in 1 .. L /\ place[t].level = place[u].level - 1
      BY <1>1, <3>1 DEF Tree, Under
    <3> QED BY <1>1, <2>1, <3>2
  <2>2. place[root].part = 0
    BY DEF Tree
  <2>3. Span[L + 1 - L] = 1
    <3>1. L + 1 - L = 1
      BY <1>1
    <3> QED BY <3>1, SpanIs
  <2> QED BY <2>1, <2>2, <2>3
<1>3. ASSUME NEW l \in 1 .. 3, l < L, Bound(l + 1) PROVE Bound(l)
  <2> SUFFICES ASSUME NEW t \in DOMAIN place, place[t].level = l
               PROVE  place[t].part < Span[L + 1 - l]
    OBVIOUS
  <2>1. t # root
    <3>1. place[root].level = L
      BY DEF Tree
    <3> QED BY <1>3, <3>1
  <2>2. PICK u \in DOMAIN place, n \in Slots : place[u].level > 1 /\ place[t] = Under(place[u], n)
    BY <2>1, Parent
  <2>3. PICK q, i : q = place[u].part /\ i = L - l
    OBVIOUS
  <2>4. place[u] \in Place /\ place[u].level \in 1 .. L
    BY <2>2 DEF Tree
  <2>5. place[u].level = l + 1 /\ place[t].part = q * SIZE + n /\ q \in Nat
    BY <1>1, <2>2, <2>3, <2>4 DEF Under, Place
  <2>6. i \in 1 .. 4 /\ i \in 1 .. 5 /\ L + 1 - l = i + 1 /\ L + 1 - (l + 1) = i
    BY <1>1, <1>3, <2>3
  <2>7. PICK s : s = Span[i]
    OBVIOUS
  <2>8. s \in Nat \ {0} /\ Span[L + 1 - l] = s * SIZE
    BY <2>6, <2>7, SpanIs
  <2>9. q < s
    BY <1>3, <2>2, <2>3, <2>5, <2>6, <2>7
  <2>10. q * SIZE + n < s * SIZE
    <3>1. SIZE * q + SIZE <= SIZE * s /\ SIZE * q = q * SIZE /\ SIZE * s = s * SIZE
      BY <1>1, <2>5, <2>8, <2>9, Times
    <3>2. SIZE * q \in Int /\ SIZE * s \in Int
      BY <1>1, <2>5, <2>8, Times
    <3>3. n \in Int /\ n < SIZE
      BY <1>1 DEF Slots, LastSlot
    <3> QED BY <1>1, <3>1, <3>2, <3>3
  <2> QED BY <2>5, <2>8, <2>10
<1>4. Bound(1)
  <2> HIDE DEF Bound
  <2>1. CASE L = 2
    <3>1. Bound(1 + 1)
      BY <1>2, <2>1
    <3> QED BY <1>3, <2>1, <3>1
  <2>2. CASE L = 4
    <3>1. Bound(3 + 1)
      BY <1>2, <2>2
    <3>2. Bound(2 + 1)
      BY <1>3, <2>2, <3>1
    <3>3. Bound(1 + 1)
      BY <1>3, <2>2, <3>2
    <3> QED BY <1>3, <2>2, <3>3
  <2> QED BY <1>1, <2>1, <2>2
<1>5. L + 1 - 1 = L
  BY <1>1
<1> QED BY <1>4, <1>5

\* The page that slot n of a table of the lowest level shows.
InSlot(page, L, place, t, n) == /\ page \in Nat /\ page < Span[L + 1]
                                /\ place[t] = PlaceOf(page, 1) /\ Index(page, 1) = n

LEMMA PageOfSlot ==
    ASSUME NEW m, NEW L \in Levels, NEW root, NEW place, Tree(m, L, root, place),
           NEW t \in DOMAIN place, place[t].level = 1, NEW n \in Slots,
           NEW page, page = place[t].part * SIZE + n
    PROVE  InSlot(page, L, place, t, n)
<1>1. PICK q, s : q = place[t].part /\ s = Span[L]
  OBVIOUS
<1>2. place[t] = [level |-> 1, part |-> q] /\ q \in Nat
  <2>1. place[t] \in Place
    BY DEF Tree
  <2> QED BY <1>1, <2>1 DEF Place
<1>3. SIZE \in Nat \ {0} /\ n \in 0 .. (SIZE - 1)
  BY PagingAssumption DEF Slots, LastSlot
<1>4. s \in Nat \ {0} /\ Span[L + 1] = s * SIZE
  <2>1. L \in 1 .. 4 /\ L \in 1 .. 5
    BY DEF Levels
  <2> QED BY <1>1, <2>1, SpanIs
<1>5. q < s
  BY <1>1, PartBound
<1>6. SIZE * q \in Nat /\ SIZE * q = q * SIZE /\ SIZE * s = s * SIZE /\ SIZE * s \in Nat
      /\ SIZE * q + SIZE <= SIZE * s
  BY <1>2, <1>3, <1>4, <1>5, Times
<1>7. page = SIZE * q + n /\ page \in Nat /\ page < s * SIZE
  BY <1>1, <1>3, <1>6
<1>8. page \div SIZE = q /\ page % SIZE = n
  BY <1>2, <1>3, <1>7, DivModUnique
<1>9. Part(page, 0) = page /\ Index(page, 1) = Part(page, 0) % SIZE
      /\ Part(page, 1) = Part(page, 0) \div SIZE
  <2>1. 1 \in 1 .. 4 /\ 1 - 1 = 0
    OBVIOUS
  <2> QED BY <1>7, <2>1, PartIs
<1> QED BY <1>2, <1>4, <1>7, <1>8, <1>9 DEF PlaceOf, InSlot

\* What a map of pages is, when k holds the tables of the tree c.
IsMap(s, c, k) ==
    /\ s = [page \in DOMAIN s |-> s[page]]
    /\ \A page : page \in DOMAIN s <=>
         /\ page \in Nat /\ page < InvalidatorPage
         /\ \E t \in DOMAIN c : c[t] = PlaceOf(page, 1) /\ Present(k[t][Index(page, 1)])
    /\ \A page \in DOMAIN s, t \in DOMAIN c :
         c[t] = PlaceOf(page, 1) => s[page] = k[t][Index(page, 1)]

LEMMA ShownIs ==
    \A b, c : PagingInv /\ Located(b, c) /\ phase \in {"map", "running"} => IsMap(Shown, c, mem)
<1> SUFFICES ASSUME NEW b, NEW c, PagingInv, Located(b, c), phase \in {"map", "running"}
             PROVE  IsMap(Shown, c, mem)
  OBVIOUS
<1>1. TypeInv /\ Booted /\ machine \in Machines
  BY DEF PagingInv, TypeInv
<1>2. machine.levels \in Levels /\ machine.levels \in Nat /\ machine.ram \in Nat \ {0}
  BY <1>1, MachineIs DEF Levels
<1>3. context # NoFrame
  BY <1>1 DEF Booted
<1>4. Tree(mem, machine.levels, context, c) /\ context # BootRoot
  <2>1. Trees(b, c)
    BY DEF Located
  <2>2. Tree(mem, machine.levels, context, c) /\ Tree(mem, machine.levels, BootRoot, b)
    BY <1>3, <2>1 DEF Trees
  <2>3. context \in DOMAIN c /\ BootRoot \in DOMAIN b
    BY <2>2 DEF Tree
  <2> QED BY <2>1, <2>2, <2>3 DEF Trees
<1>5. PICK L, R : L = machine.levels /\ R = Reached(context)
  OBVIOUS
<1>6. R[0] = Entries(Tabled(c, 1))
  <2>1. 0 \in 0 .. (L - 1) /\ 1 \in 1 .. L /\ 0 + 1 = 1
    BY <1>2, <1>5 DEF Levels
  <2>2. R[0] = Entries(R[1])
    BY <1>2, <1>5, <2>1, ReachedIs
  <2>3. R[1] = Tabled(c, 1)
    BY <1>2, <1>4, <1>5, <2>1, ReachedTree
  <2> QED BY <2>2, <2>3
<1> DEFINE Leaf(page) == /\ page \in Nat /\ page < Span[L + 1]
                         /\ \E t \in DOMAIN c : /\ c[t] = PlaceOf(page, 1)
                                                /\ Present(mem[t][Index(page, 1)])
<1>7. \A page : (\E r \in R[0] : page = r[1]) <=> Leaf(page)
  <2> TAKE page
  <2>1. ASSUME NEW r \in R[0], page = r[1] PROVE Leaf(page)
    <3>1. PICK u \in Tabled(c, 1), n \in Slots :
            Present(mem[u[2]][n]) /\ r = <<u[1] * SIZE + n, mem[u[2]][n].frame>>
      BY <1>6, EntriesHas
    <3>2. PICK t \in DOMAIN c : c[t].level = 1 /\ u = <<c[t].part, t>>
      BY TabledHas
    <3>3. page = c[t].part * SIZE + n /\ Present(mem[t][n])
      BY <2>1, <3>1, <3>2
    <3>4. PICK m, x : m = mem /\ x = context
      OBVIOUS
    <3>5. L \in Levels /\ Tree(m, L, x, c)
      BY <1>2, <1>4, <1>5, <3>4
    <3>6. t \in DOMAIN c /\ n \in Slots /\ c[t].level = 1 /\ page = c[t].part * SIZE + n
      BY <3>2, <3>3
    <3>7. InSlot(page, L, c, t, n)
      BY ONLY <3>5, <3>6, PageOfSlot
    <3> QED BY <3>3, <3>7 DEF InSlot
  <2>2. ASSUME Leaf(page) PROVE \E r \in R[0] : page = r[1]
    <3>1. page \in Nat
      BY <2>2
    <3>2. PICK t \in DOMAIN c : c[t] = PlaceOf(page, 1) /\ Present(mem[t][Index(page, 1)])
      BY <2>2
    <3>3. PICK n : n = Index(page, 1)
      OBVIOUS
    <3>4. n \in Slots /\ page = c[t].part * SIZE + n /\ c[t].level = 1
      <4>1. 1 \in 1 .. 4 /\ 1 - 1 = 0
        OBVIOUS
      <4>2. page = Part(page, 1) * SIZE + n /\ n \in Slots
        BY <3>1, <3>3, <4>1, PartIs
      <4> QED BY <3>2, <4>2 DEF PlaceOf
    <3>5. PICK u : u = <<c[t].part, t>>
      OBVIOUS
    <3>6. u \in Tabled(c, 1) /\ u[1] = c[t].part /\ u[2] = t
      BY <3>4, <3>5, TabledHas
    <3>7. PICK r : r = <<u[1] * SIZE + n, mem[u[2]][n].frame>>
      OBVIOUS
    <3>8. u[2] \in DOMAIN mem /\ Present(mem[u[2]][n])
      BY <1>4, <3>2, <3>3, <3>6 DEF Tree
    <3>9. r \in R[0]
      BY <1>6, <3>4, <3>6, <3>7, <3>8, EntriesHas
    <3> QED BY <3>4, <3>6, <3>7, <3>9
  <2> HIDE DEF Leaf
  <2> QED BY <2>1, <2>2
<1> DEFINE pages == {r[1] : r \in R[0]} \ {InvalidatorPage, Window}
<1>8. Shown = [page \in pages |-> EntryOf(mem, context, page)]
  BY <1>5 DEF Shown
<1>9. \A page : page \in pages <=> Leaf(page) /\ page # InvalidatorPage /\ page # Window
  <2> HIDE DEF Leaf
  <2> QED BY <1>7
<1> HIDE DEF pages
<1>10. \A page \in Nat : page < Span[L + 1] /\ page # InvalidatorPage /\ page # Window
                           <=> page < InvalidatorPage
  <2>1. Window = Span[L + 1] - 1 /\ InvalidatorPage = Window - 1 /\ Window \in Nat
    BY <1>1, <1>5, BesideWindow DEF Window, InvalidatorPage
  <2>2. Span[L + 1] \in Nat
    <3>1. L + 1 \in 1 .. 5
      BY <1>2, <1>5 DEF Levels
    <3> QED BY <3>1, SpanIs
  <2>3. PICK s, w, i : s = Span[L + 1] /\ w = Window /\ i = InvalidatorPage
    OBVIOUS
  <2>4. s \in Nat /\ w \in Nat /\ w = s - 1 /\ i = w - 1
    BY <2>1, <2>2, <2>3
  <2>5. \A page \in Nat : page < s /\ page # i /\ page # w <=> page < i
    BY <2>4
  <2> QED BY <2>3, <2>5
<1>11. \A page : page \in DOMAIN Shown <=>
         /\ page \in Nat /\ page < InvalidatorPage
         /\ \E t \in DOMAIN c : c[t] = PlaceOf(page, 1) /\ Present(mem[t][Index(page, 1)])
  <2> TAKE page
  <2>1. page \in DOMAIN Shown <=> Leaf(page) /\ page # InvalidatorPage /\ page # Window
    BY <1>8, <1>9
  <2> QED BY <1>10, <2>1
<1>12. ASSUME NEW page \in DOMAIN Shown, NEW t \in DOMAIN c, c[t] = PlaceOf(page, 1)
       PROVE  Shown[page] = mem[t][Index(page, 1)]
  <2>1. Shown[page] = EntryOf(mem, context, page)
    BY <1>8
  <2>2. page \in Nat /\ page < Span[L + 1]
    BY <1>1, <1>5, <1>11, BesideWindow
  <2>3. Finds(EntryOf(mem, context, page), mem, c, page, 1)
    BY <1>2, <1>4, <1>5, <2>2, EntryFound
  <2> QED BY <1>12, <2>1, <2>3 DEF Finds
<1>13. Shown = [page \in DOMAIN Shown |-> Shown[page]]
  BY <1>8
<1> QED BY <1>11, <1>12, <1>13 DEF IsMap

LEMMA ShownIsNext ==
    (\A b, c : PagingInv /\ Located(b, c) /\ phase \in {"map", "running"} => IsMap(Shown, c, mem))'
BY ShownIs, PTL

LEMMA ShownNext ==
    ASSUME PagingInv', phase' \in {"map", "running"}, machine' = machine,
           NEW b, NEW c, Located(b, c)'
    PROVE  IsMap(Shown', c, mem')
<1>1. IsMap(Shown, c, mem)'
  BY ShownIsNext
<1>2. InvalidatorPage' = InvalidatorPage
  BY DEF InvalidatorPage, Window
<1> QED BY <1>1, <1>2 DEF IsMap

LEMMA SameMap ==
    ASSUME NEW c, NEW d, NEW k, Extends(c, d, k),
           NEW s, IsMap(s, c, mem), NEW u, IsMap(u, d, k)
    PROVE  u = s
<1>1. ~Present(Absent)
  BY DEF Present, Absent
<1>2. \A page : page \in DOMAIN u <=> page \in DOMAIN s
  <2> TAKE page
  <2>1. ASSUME page \in DOMAIN u PROVE page \in DOMAIN s
    <3>1. page \in Nat /\ page < InvalidatorPage
      BY <2>1 DEF IsMap
    <3>2. PICK t \in DOMAIN d : d[t] = PlaceOf(page, 1) /\ Present(k[t][Index(page, 1)])
      BY <2>1 DEF IsMap
    <3>3. k[t][Index(page, 1)] = IF t \in DOMAIN c THEN mem[t][Index(page, 1)] ELSE Absent
      BY <3>1, <3>2 DEF Extends
    <3>4. t \in DOMAIN c /\ Present(mem[t][Index(page, 1)])
      BY <1>1, <3>2, <3>3
    <3>5. c[t] = PlaceOf(page, 1)
      BY <3>2, <3>4 DEF Extends
    <3> QED BY <3>1, <3>4, <3>5 DEF IsMap
  <2>2. ASSUME page \in DOMAIN s PROVE page \in DOMAIN u
    <3>1. page \in Nat /\ page < InvalidatorPage
      BY <2>2 DEF IsMap
    <3>2. PICK t \in DOMAIN c : c[t] = PlaceOf(page, 1) /\ Present(mem[t][Index(page, 1)])
      BY <2>2 DEF IsMap
    <3>3. t \in DOMAIN d /\ d[t] = PlaceOf(page, 1)
      BY <3>2 DEF Extends
    <3>4. k[t][Index(page, 1)] = mem[t][Index(page, 1)]
      BY <3>1, <3>2, <3>3 DEF Extends
    <3> QED BY <3>1, <3>2, <3>3, <3>4 DEF IsMap
  <2> QED BY <2>1, <2>2
<1>3. ASSUME NEW page \in DOMAIN s PROVE u[page] = s[page]
  <2>1. page \in Nat /\ page < InvalidatorPage /\ page \in DOMAIN u
    BY <1>2, <1>3 DEF IsMap
  <2>2. PICK t \in DOMAIN c : c[t] = PlaceOf(page, 1)
    BY <1>3 DEF IsMap
  <2>3. t \in DOMAIN d /\ d[t] = PlaceOf(page, 1)
    BY <2>2 DEF Extends
  <2>4. k[t][Index(page, 1)] = mem[t][Index(page, 1)]
    BY <2>1, <2>2, <2>3 DEF Extends
  <2>5. u[page] = k[t][Index(page, 1)]
    BY <2>1, <2>3 DEF IsMap
  <2>6. s[page] = mem[t][Index(page, 1)]
    BY <1>3, <2>2 DEF IsMap
  <2> QED BY <2>4, <2>5, <2>6
<1>4. u = [page \in DOMAIN u |-> u[page]] /\ s = [page \in DOMAIN s |-> s[page]]
  BY DEF IsMap
<1> QED BY <1>2, <1>3, <1>4

\* The step that sets the entry changes the page asked for, and no other.
LEMMA OneSet ==
    ASSUME NEW c, NEW k, NEW r, Sets(c, r, k), r \in Request, r.page < InvalidatorPage,
           "present" \in r.flags, \A frame : Masked(frame) = frame,
           NEW s, IsMap(s, c, mem), NEW u, IsMap(u, c, k)
    PROVE  u = [page \in DOMAIN s \cup {r.page} |->
                  IF page = r.page THEN [frame |-> r.frame, flags |-> r.flags \ {"pat"}] ELSE s[page]]
<1>1. AskedEntry(r) = [frame |-> r.frame, flags |-> r.flags \ {"pat"}] /\ r.page \in Nat
  BY DEF AskedEntry, Request
<1>2. Present(AskedEntry(r))
  BY <1>1 DEF Present
<1>3. PICK e, i : e = AskedEntry(r) /\ i = r.page
  OBVIOUS
<1>4. PICK t0 \in DOMAIN c : c[t0] = PlaceOf(i, 1)
  BY <1>3 DEF Sets
<1>5. \A t \in DOMAIN c, page \in Nat : page < InvalidatorPage /\ c[t] = PlaceOf(page, 1) =>
        k[t][Index(page, 1)] = IF page = i THEN e ELSE mem[t][Index(page, 1)]
  BY <1>3 DEF Sets
<1>6. \A page : page \in DOMAIN u <=> page \in DOMAIN s \cup {i}
  <2> TAKE page
  <2>1. CASE page = i
    <3>1. i \in Nat /\ i < InvalidatorPage
      BY <1>1, <1>3
    <3>2. Present(k[t0][Index(i, 1)])
      BY <1>2, <1>3, <1>4, <1>5, <3>1
    <3> QED BY <1>4, <2>1, <3>1, <3>2 DEF IsMap
  <2>2. CASE page # i
    <3>1. page \in Nat /\ page < InvalidatorPage =>
            \A t \in DOMAIN c : c[t] = PlaceOf(page, 1) => k[t][Index(page, 1)] = mem[t][Index(page, 1)]
      BY <1>5, <2>2
    <3> QED BY <2>2, <3>1 DEF IsMap
  <2> QED BY <2>1, <2>2
<1>7. ASSUME NEW page \in DOMAIN u PROVE u[page] = IF page = i THEN e ELSE s[page]
  <2>1. page \in Nat /\ page < InvalidatorPage
    BY <1>7 DEF IsMap
  <2>2. PICK t \in DOMAIN c : c[t] = PlaceOf(page, 1)
    BY <1>7 DEF IsMap
  <2>3. u[page] = k[t][Index(page, 1)]
    BY <1>7, <2>2 DEF IsMap
  <2>4. k[t][Index(page, 1)] = IF page = i THEN e ELSE mem[t][Index(page, 1)]
    BY <1>5, <2>1, <2>2
  <2>5. page # i => s[page] = mem[t][Index(page, 1)]
    BY <1>6, <1>7, <2>2 DEF IsMap
  <2> QED BY <2>3, <2>4, <2>5
<1>8. u = [page \in DOMAIN u |-> u[page]]
  BY DEF IsMap
<1>9. DOMAIN u = DOMAIN s \cup {i}
  BY <1>6
<1>10. u = [page \in DOMAIN s \cup {i} |-> IF page = i THEN e ELSE s[page]]
  BY <1>7, <1>8, <1>9
<1> QED BY <1>1, <1>3, <1>10

LEMMA NonePresent ==
    ASSUME NEW c, NEW k, Blank(c, k), NEW u, IsMap(u, c, k)
    PROVE  u = <<>>
<1>1. \A page : page \notin DOMAIN u
  BY DEF Blank, IsMap
<1>2. u = [page \in {} |-> u[page]]
  BY <1>1 DEF IsMap
<1> QED BY <1>2

\* What the context shows, and what each processor waits for.
MapSeen == IF phase \in {"map", "running"} THEN Shown ELSE <<>>

Asks == [p \in CPUs |-> Waiting(p)]

LEMMA StillShown ==
    ASSUME PagingInv, PagingInv', phase \in {"map", "running"}, phase' \in {"map", "running"},
           machine' = machine, NEW b, NEW c, Located(b, c), NEW d, Located(b, d)', Extends(c, d, mem')
    PROVE  MapSeen' = MapSeen
<1>1. IsMap(Shown, c, mem)
  BY ShownIs
<1>2. IsMap(Shown', d, mem')
  BY ShownNext
<1>3. PICK k, s, u : k = mem' /\ s = Shown /\ u = Shown'
  OBVIOUS
<1>4. Extends(c, d, k) /\ IsMap(s, c, mem) /\ IsMap(u, d, k)
  BY <1>1, <1>2, <1>3
<1>5. u = s
  BY ONLY <1>4, SameMap
<1> QED BY <1>3, <1>5 DEF MapSeen

\* A call goes on, and neither asks nor answers.
LEMMA StillAsks ==
    ASSUME TypeInv, NEW p \in CPUs, pc[p] \in {"lock", "point", "use"},
           NEW where \in {"point", "use", "stopped"}, Go(p, where), call' = call
    PROVE  Asks' = Asks
<1>1. where \in Where
  BY DEF Where, Inside
<1>2. pc'[p] = where /\ \A q \in CPUs : q # p => pc'[q] = pc[q]
  BY <1>1, Went
<1>3. \A q \in CPUs : Waiting(q)' = Waiting(q)
  <2> TAKE q \in CPUs
  <2>1. CASE q = p
    BY <1>2, <2>1 DEF Waiting
  <2>2. CASE q # p
    BY <1>2, <2>2 DEF Waiting
  <2> QED BY <2>1, <2>2
<1> QED BY <1>3 DEF Asks

LEMMA SetEntryFulfils ==
    ASSUME PagingInv, PagingInv', NEW p \in CPUs, SetEntry(p)
    PROVE  Map!Fulfil(p)
<1>1. PICK b, c : Located(b, c)
  BY DEF PagingInv
<1>2. Located(b, c)' /\ Sets(c, call[p], mem')
  BY <1>1, SetEntryKeeps
<1>3. TypeInv /\ Booted /\ Asked /\ pc[p] = "use" /\ Go(p, "unlock")
      /\ UNCHANGED <<machine, phase, call>>
  BY DEF PagingInv, SetEntry, Use
<1>4. phase \in {"map", "running"} /\ phase' \in {"map", "running"} /\ machine \in Machines
  BY <1>3, InsideRuns DEF Inside, TypeInv
<1>5. PICK r, k, s, u : r = call[p] /\ k = mem' /\ s = Shown /\ u = Shown'
  OBVIOUS
<1>6. r \in Request /\ r.page < InvalidatorPage /\ "present" \in r.flags
  BY <1>3, <1>5 DEF Asked, Inside
<1>7. Sets(c, r, k) /\ IsMap(s, c, mem) /\ IsMap(u, c, k)
  <2>1. IsMap(Shown, c, mem)
    BY <1>1, <1>4, ShownIs
  <2>2. IsMap(Shown', c, mem')
    BY <1>2, <1>3, <1>4, ShownNext
  <2> QED BY <1>2, <1>5, <2>1, <2>2
<1>8. \A frame : Masked(frame) = frame
  BY <1>4, MachineIs
<1>9. u = [page \in DOMAIN s \cup {r.page} |->
             IF page = r.page THEN [frame |-> r.frame, flags |-> r.flags \ {"pat"}] ELSE s[page]]
  BY ONLY <1>6, <1>7, <1>8, OneSet
<1>10. MapSeen = s /\ MapSeen' = u
  BY <1>4, <1>5 DEF MapSeen
<1>11. Asks[p] = r /\ Asks' = [Asks EXCEPT ![p] = Map!Answered]
  <2>1. "unlock" \in Where
    BY DEF Where, Inside
  <2>2. pc'[p] = "unlock" /\ \A q \in CPUs : q # p => pc'[q] = pc[q]
    BY <1>3, <2>1, Went
  <2>3. Waiting(p) = r /\ Waiting(p)' = Map!Answered
    BY <1>3, <1>5, <2>2 DEF Waiting, Map!Answered
  <2>4. \A q \in CPUs : q # p => Waiting(q)' = Waiting(q)
    BY <1>3, <2>2 DEF Waiting
  <2>5. Asks' = [q \in CPUs |-> Waiting(q)']
    BY DEF Asks
  <2> QED BY <2>3, <2>4, <2>5 DEF Asks
<1>12. r \notin {NoCall, Map!Answered}
  BY <1>6, PagingAssumption DEF Map!Answered
<1> QED BY <1>9, <1>10, <1>11, <1>12 DEF Map!Fulfil, MapSeen, Asks

LEMMA EnterAsks ==
    ASSUME NEW p \in CPUs, NEW r \in Request, pc[p] = "idle", MapSeen' = MapSeen,
           \A q \in CPUs : q # p => pc'[q] = pc[q] /\ call'[q] = call[q],
           call'[p] = r, pc'[p] \in {"lock", "stopped"}
    PROVE  Map!Ask(p)
<1>1. MapSeen' = MapSeen
  OBVIOUS
<1>2. Waiting(p) = NoCall /\ Waiting(p)' = r
  BY DEF Waiting
<1>3. \A q \in CPUs : q # p => Waiting(q)' = Waiting(q)
  BY DEF Waiting
<1>4. r # NoCall
  BY PagingAssumption
<1>5. Asks[p] = NoCall /\ Asks'[p] = r /\ Asks' = [Asks EXCEPT ![p] = r]
  <2>1. Asks' = [q \in CPUs |-> Waiting(q)']
    BY DEF Asks
  <2> QED BY <1>2, <1>3, <2>1 DEF Asks
<1>6. Asks[p] = NoCall /\ Asks'[p] # NoCall /\ Asks' = [Asks EXCEPT ![p] = Asks'[p]]
  BY <1>4, <1>5
<1> QED BY <1>1, <1>6 DEF Map!Ask, MapSeen, Asks

LEMMA StepMaps ==
    ASSUME PagingInv, PagingInv', NEW p \in CPUs, Step(p)
    PROVE  \/ Map!Fulfil(p) \/ Map!Return(p)
           \/ MapSeen' = MapSeen /\ Asks' = Asks
<1>1. PICK b, c : Located(b, c)
  BY DEF PagingInv
<1>2. TypeInv /\ Booted /\ OneInside
  BY DEF PagingInv
<1>3. CASE SetEntry(p)
  BY <1>3, SetEntryFulfils
<1>4. /\ pc[p] \in {"lock"} \cup Inside
      /\ UNCHANGED <<machine, phase, call>>
  BY DEF Step, Lock, Point, Descend, AddTable, OutOfMemory, SetEntry, Unlock, Use, Inside
<1>5. phase \in {"map", "running"} /\ phase' \in {"map", "running"}
  BY <1>2, <1>4, InsideRuns
<1>6. ASSUME ~SetEntry(p) PROVE \E d : Located(b, d)' /\ Extends(c, d, mem')
  <2>1. CASE Lock(p)
    BY <1>1, <2>1, LockKeeps
  <2>2. CASE Point(p)
    BY <1>1, <1>2, <2>2, PointKeeps
  <2>3. CASE Descend(p)
    BY <1>1, <2>3, DescendKeeps
  <2>4. CASE AddTable(p)
    BY <1>1, <2>4, AddTableKeeps
  <2>5. CASE OutOfMemory(p) \/ Unlock(p)
    BY <1>1, <2>5, StopsKeep
  <2> QED BY <1>6, <2>1, <2>2, <2>3, <2>4, <2>5 DEF Step
<1>7. ASSUME ~SetEntry(p) PROVE MapSeen' = MapSeen
  <2>1. PICK d : Located(b, d)' /\ Extends(c, d, mem')
    BY <1>6, <1>7
  <2> QED BY <1>1, <1>4, <1>5, <2>1, StillShown
<1>8. CASE Lock(p) \/ Point(p) \/ Descend(p) \/ AddTable(p) \/ OutOfMemory(p)
  <2>1. /\ ~SetEntry(p) /\ pc[p] \in {"lock", "point", "use"}
        /\ \E where \in {"point", "use", "stopped"} : Go(p, where)
    <3>1. "point" \in Where /\ "use" \in Where /\ "stopped" \in Where /\ "unlock" \in Where
      BY DEF Where, Inside
    <3>2. pc[p] \in {"lock", "point", "use"} /\ \E where \in {"point", "use", "stopped"} : Go(p, where)
      BY <1>8 DEF Lock, Point, Descend, AddTable, OutOfMemory, Use
    <3>3. PICK where \in {"point", "use", "stopped"} : Go(p, where)
      BY <3>2
    <3>4. pc'[p] = where /\ (SetEntry(p) => pc'[p] = "unlock")
      BY <1>2, <3>1, <3>3, Went DEF SetEntry
    <3> QED BY <3>2, <3>4
  <2>2. Asks' = Asks
    BY <1>2, <1>4, <2>1, StillAsks
  <2> QED BY <1>7, <2>1, <2>2
<1>9. CASE Unlock(p)
  <2>1. pc[p] = "unlock" /\ Go(p, "idle") /\ "idle" \in Where
    BY <1>9 DEF Unlock, Where
  <2>2. pc'[p] = "idle" /\ \A q \in CPUs : q # p => pc'[q] = pc[q]
    BY <1>2, <2>1, Went
  <2>3. ~SetEntry(p)
    BY <2>1 DEF SetEntry, Use
  <2>4. MapSeen' = MapSeen
    BY <1>7, <2>3
  <2>5. Waiting(p) = Map!Answered /\ Waiting(p)' = NoCall
    BY <2>1, <2>2 DEF Waiting, Map!Answered
  <2>6. \A q \in CPUs : q # p => Waiting(q)' = Waiting(q)
    BY <1>4, <2>2 DEF Waiting
  <2>7. Asks[p] = Map!Answered /\ Asks' = [Asks EXCEPT ![p] = NoCall]
    <3>1. Asks' = [q \in CPUs |-> Waiting(q)']
      BY DEF Asks
    <3> QED BY <2>5, <2>6, <3>1 DEF Asks
  <2>8. Map!Return(p)
    BY <2>4, <2>7 DEF Map!Return, MapSeen, Asks
  <2> QED BY <2>8
<1> QED BY <1>3, <1>8, <1>9 DEF Step

LEMMA BootMaps ==
    ASSUME PagingInv, PagingInv', Boot
    PROVE  (\E p \in CPUs : Map!Ask(p)) \/ (MapSeen' = MapSeen /\ Asks' = Asks)
<1>1. PICK b, c : Located(b, c)
  BY DEF PagingInv
<1>2. TypeInv /\ Booted /\ BootCPU \in CPUs
  BY PagingAssumption DEF PagingInv
<1>3. CASE InitTable \/ InitWindow \/ ContextRoot \/ ContextTable
  <2>1. /\ phase \in {"init", "context", "tables"} /\ phase' \in {"context", "tables", "init"}
        /\ UNCHANGED <<pc, call>>
    BY <1>3 DEF InitTable, InitWindow, ContextRoot, ContextTable, Booting
  <2>2. MapSeen' = MapSeen
    BY <2>1 DEF MapSeen
  <2> QED BY <2>1, <2>2 DEF Asks, Waiting
<1>4. CASE ContextWindow
  <2>1. phase = "tables" /\ phase' = "map" /\ UNCHANGED <<pc, call, machine>>
    BY <1>4 DEF ContextWindow, Booting
  <2>2. Located(b, c)' /\ Blank(c, mem')
    BY <1>1, <1>4, ContextWindowKeeps
  <2>3. IsMap(Shown', c, mem')
    BY <2>1, <2>2, ShownNext
  <2>4. Shown' = <<>>
    <3>1. PICK k, u : k = mem' /\ u = Shown'
      OBVIOUS
    <3>2. Blank(c, k) /\ IsMap(u, c, k)
      BY <2>2, <2>3, <3>1
    <3>3. u = <<>>
      BY ONLY <3>2, NonePresent
    <3> QED BY <3>1, <3>3
  <2>5. MapSeen' = MapSeen
    BY <2>1, <2>4 DEF MapSeen
  <2> QED BY <2>1, <2>5 DEF Asks, Waiting
<1>5. CASE BootFails
  <2>1. /\ phase \in {"init", "context", "tables"} /\ phase' = phase /\ call' = call
        /\ pc[BootCPU] = "idle" /\ Go(BootCPU, "stopped") /\ "stopped" \in Where
    BY <1>5 DEF BootFails, Where
  <2>2. pc'[BootCPU] = "stopped" /\ \A q \in CPUs : q # BootCPU => pc'[q] = pc[q]
    BY <1>2, <2>1, Went
  <2>3. call[BootCPU] = NoCall
    BY <1>2, <2>1 DEF Booted
  <2>4. \A q \in CPUs : Waiting(q)' = Waiting(q)
    <3> TAKE q \in CPUs
    <3>1. CASE q = BootCPU
      BY <2>1, <2>2, <2>3, <3>1 DEF Waiting
    <3>2. CASE q # BootCPU
      BY <2>1, <2>2, <3>2 DEF Waiting
    <3> QED BY <3>1, <3>2
  <2> QED BY <2>1, <2>4 DEF MapSeen, Asks
<1>6. CASE MapRAM
  <2>1. PICK r : r = [page |-> mapped, frame |-> mapped, flags |-> {"present", "write", "user"}]
    OBVIOUS
  <2>2. /\ phase = "map" /\ pc[BootCPU] = "idle" /\ Enter(BootCPU, r) /\ mapped' = mapped + 1
        /\ mapped < machine.ram
        /\ UNCHANGED <<machine, mem, free, lock_paging, context, cr3, tlb, phase, at>>
    BY <1>6, <2>1 DEF MapRAM, Booting
  <2>3. mapped \in Nat
    BY <1>2 DEF TypeInv
  <2>4. r \in Request /\ "present" \in r.flags /\ (r.page < machine.ram => r.frame = r.page)
    BY <2>1, <2>3 DEF Request, Flag
  <2>5. /\ call'[BootCPU] = r /\ pc'[BootCPU] \in {"lock", "stopped"}
        /\ \A q \in CPUs : q # BootCPU => pc'[q] = pc[q] /\ call'[q] = call[q]
    BY <1>2, <2>2, <2>4, EnterHolds
  <2>6. ShownRAM' \subseteq ShownRAM
    <3> SUFFICES ASSUME NEW page \in ShownRAM' PROVE page \in ShownRAM
      OBVIOUS
    <3>1. page \in 0 .. (machine.ram - 1) /\ page < mapped + 1 /\ page # (mapped + 1) - 1
      BY <2>2, <2>5 DEF ShownRAM
    <3>2. page < mapped
      BY <2>3, <3>1
    <3> QED BY <2>2, <3>1, <3>2 DEF ShownRAM
  <2>7. /\ phase \in {"map", "running"} /\ BootCPU \in CPUs
        /\ UNCHANGED <<machine, mem, free, context, phase, at, tlb>>
    BY <1>2, <2>2
  <2>8. Located(b, c)' /\ Extends(c, c, mem')
    BY <1>1, <2>2, <2>6, <2>7, CallKeeps
  <2>9. MapSeen' = MapSeen
    BY <1>1, <2>7, <2>8, StillShown
  <2>10. PICK p \in CPUs : p = BootCPU
    BY <1>2
  <2>11. /\ r \in Request /\ pc[p] = "idle" /\ call'[p] = r /\ pc'[p] \in {"lock", "stopped"}
         /\ \A q \in CPUs : q # p => pc'[q] = pc[q] /\ call'[q] = call[q]
    BY <2>2, <2>4, <2>5, <2>10
  <2>12. Map!Ask(p)
    BY <2>9, <2>11, EnterAsks
  <2> QED BY <2>12
<1>7. CASE Switch
  <2>1. phase = "map" /\ phase' = "running" /\ UNCHANGED <<machine, pc, call>>
    BY <1>7 DEF Switch, Booting
  <2>2. Located(b, c)' /\ Extends(c, c, mem')
    BY <1>1, <1>7, SwitchKeeps
  <2>3. MapSeen' = MapSeen
    BY <1>1, <2>1, <2>2, StillShown
  <2> QED BY <2>1, <2>3 DEF Asks, Waiting
<1>8. CASE MapFirst
  <2>1. PICK r : r = machine.first[calls[BootCPU] + 1]
    OBVIOUS
  <2>2. /\ phase = "map" /\ pc[BootCPU] = "idle" /\ Enter(BootCPU, r)
        /\ r \in {machine.first[n] : n \in DOMAIN machine.first}
        /\ UNCHANGED <<machine, mem, free, lock_paging, context, cr3, tlb, phase, mapped, at>>
    BY <1>8, <2>1 DEF MapFirst, Booting
  <2>3. r \in Request /\ "present" \in r.flags /\ (r.page < machine.ram => r.frame = r.page)
    BY <1>2, <2>2, MachineIs DEF TypeInv
  <2>4. /\ call'[BootCPU] = r /\ pc'[BootCPU] \in {"lock", "stopped"}
        /\ \A q \in CPUs : q # BootCPU => pc'[q] = pc[q] /\ call'[q] = call[q]
    BY <1>2, <2>2, <2>3, EnterHolds
  <2>5. ShownRAM' \subseteq ShownRAM
    <3> SUFFICES ASSUME NEW page \in ShownRAM' PROVE page \in ShownRAM
      OBVIOUS
    <3> QED BY <2>2 DEF ShownRAM
  <2>6. /\ phase \in {"map", "running"} /\ BootCPU \in CPUs
        /\ UNCHANGED <<machine, mem, free, context, phase, at, tlb>>
    BY <1>2, <2>2
  <2>7. Located(b, c)' /\ Extends(c, c, mem')
    BY <1>1, <2>2, <2>5, <2>6, CallKeeps
  <2>8. MapSeen' = MapSeen
    BY <1>1, <2>6, <2>7, StillShown
  <2>9. PICK p \in CPUs : p = BootCPU
    BY <1>2
  <2>10. /\ r \in Request /\ pc[p] = "idle" /\ call'[p] = r /\ pc'[p] \in {"lock", "stopped"}
         /\ \A q \in CPUs : q # p => pc'[q] = pc[q] /\ call'[q] = call[q]
    BY <2>2, <2>3, <2>4, <2>9
  <2>11. Map!Ask(p)
    BY <2>8, <2>10, EnterAsks
  <2> QED BY <2>11
<1> QED BY <1>3, <1>4, <1>5, <1>6, <1>7, <1>8 DEF Boot

LEMMA CallMaps ==
    ASSUME PagingInv, PagingInv', NEW p \in CPUs, NEW r \in machine.requests, Call(p, r)
    PROVE  Map!Ask(p)
<1>1. PICK b, c : Located(b, c)
  BY DEF PagingInv
<1>2. TypeInv
  BY DEF PagingInv
<1>3. /\ phase = "running" /\ pc[p] = "idle" /\ Enter(p, r)
      /\ UNCHANGED <<machine, mem, free, lock_paging, context, cr3, tlb, phase, mapped, at>>
  BY DEF Call
<1>4. r \in Request /\ "present" \in r.flags /\ (r.page < machine.ram => r.frame = r.page)
  BY <1>2, MachineIs DEF TypeInv
<1>5. /\ call'[p] = r /\ pc'[p] \in {"lock", "stopped"}
      /\ \A q \in CPUs : q # p => pc'[q] = pc[q] /\ call'[q] = call[q]
  BY <1>3, <1>4, EnterHolds
<1>6. ShownRAM' \subseteq ShownRAM
  BY <1>3 DEF ShownRAM
<1>7. Located(b, c)' /\ Extends(c, c, mem')
  BY <1>1, <1>3, <1>6, CallKeeps
<1>8. MapSeen' = MapSeen
  BY <1>1, <1>3, <1>7, StillShown
<1> QED BY <1>3, <1>4, <1>5, <1>8, EnterAsks

LEMMA NextMaps == PagingInv /\ [Next]_vars => [Map!MapNext]_(Map!mapVars)
<1> SUFFICES ASSUME PagingInv, [Next]_vars PROVE [Map!MapNext]_(Map!mapVars)
  OBVIOUS
<1>1. PagingInv'
  BY NextHolds
<1>2. MapSeen' = MapSeen /\ Asks' = Asks => UNCHANGED Map!mapVars
  BY DEF MapSeen, Asks, Map!mapVars
<1>3. CASE Boot
  <2>1. (\E p \in CPUs : Map!Ask(p)) \/ (MapSeen' = MapSeen /\ Asks' = Asks)
    BY <1>1, <1>3, BootMaps
  <2> QED BY <1>2, <2>1 DEF Map!MapNext
<1>4. ASSUME NEW p \in CPUs, Step(p) PROVE [Map!MapNext]_(Map!mapVars)
  <2>1. \/ Map!Fulfil(p) \/ Map!Return(p)
        \/ MapSeen' = MapSeen /\ Asks' = Asks
    BY <1>1, <1>4, StepMaps
  <2> QED BY <1>2, <2>1 DEF Map!MapNext
<1>5. ASSUME NEW p \in CPUs, NEW r \in machine.requests, Call(p, r)
      PROVE  [Map!MapNext]_(Map!mapVars)
  <2>1. Map!Ask(p)
    BY <1>1, <1>5, CallMaps
  <2> QED BY <2>1 DEF Map!MapNext
<1>6. CASE UNCHANGED vars
  <2>1. /\ UNCHANGED <<machine, mem, free, lock_paging, context, cr3, tlb, phase, mapped, pc, call, at>>
    BY <1>6 DEF vars
  <2>2. Asks' = Asks
    BY <2>1 DEF Asks, Waiting
  <2>3. CASE phase \in {"map", "running"}
    <3>1. PICK b, c : Located(b, c)
      BY DEF PagingInv
    <3>2. TypeInv /\ Walking(b, c)
      BY <3>1 DEF PagingInv, Located
    <3>3. Walking(b, c)'
      BY <2>1, <3>2 DEF Walking, WindowAt, PlaceOf, Part, Window
    <3>4. ShownRAM' \subseteq ShownRAM
      BY <2>1 DEF ShownRAM
    <3>5. Located(b, c)' /\ Extends(c, c, mem')
      BY <2>1, <3>1, <3>2, <3>3, <3>4, Quiet
    <3>6. MapSeen' = MapSeen
      BY <1>1, <2>1, <2>3, <3>1, <3>5, StillShown
    <3> QED BY <1>2, <2>2, <3>6
  <2>4. CASE phase \notin {"map", "running"}
    <3>1. MapSeen' = MapSeen
      BY <2>1, <2>4 DEF MapSeen
    <3> QED BY <1>2, <2>2, <3>1
  <2> QED BY <2>3, <2>4
<1> QED BY <1>3, <1>4, <1>5, <1>6 DEF Next

\* paging_map keeps the promise of PageMap: the tables of the context, read as the
\* processor reads them, show what the calls asked for, each at once and no page but
\* the one asked for; the steps that build and add tables show nothing.
THEOREM PageMapImplemented == Spec => ImplementsPageMap
<1>1. Init => PagingInv /\ Map!MapInit
  <2> SUFFICES ASSUME Init PROVE Map!MapInit
    BY InitHolds
  <2>1. phase = "init" /\ \A p \in CPUs : pc[p] = "idle"
    BY DEF Init
  <2> QED BY <2>1 DEF Map!MapInit, Waiting
<1>2. PagingInv /\ [Next]_vars => PagingInv'
  BY NextHolds
<1>3. PagingInv /\ [Next]_vars => [Map!MapNext]_(Map!mapVars)
  BY NextMaps
<1> QED BY <1>1, <1>2, <1>3, PTL DEF Spec, ImplementsPageMap, Map!MapSpec
=============================================================================
