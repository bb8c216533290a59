--------------------------- MODULE MemoryProofs ----------------------------
(***************************************************************************)
(* Theorems about Memory, for every word size, overhead, boot layout and   *)
(* set of requests.                                                        *)
(*                                                                         *)
(* TypeCorrect holds of every caller.  Safety (NoOverlap, NoStaleHead)     *)
(* holds of callers that stay clear of the near fits; its invariant is     *)
(* Consistent(free, used), and the argument has two halves.  memory_alloc  *)
(* replaces a free block by pieces that lie within it (Carve).             *)
(* memory_free moves a block to list_free (Return) and then joins it with  *)
(* at most two neighbours, one at a time (Join).                           *)
(*                                                                         *)
(* The same callers get what Allocator promises (PromiseKept).  Two things *)
(* are kept by every call, beside Consistent: the bytes of the blocks that *)
(* may be freed are those of boot, and the blocks memory_init keeps for    *)
(* itself stay on list_used (Tiled).  Where no two free blocks touch at    *)
(* boot, none ever do (Merged).                                            *)
(*                                                                         *)
(* Where the addresses of the areas go up with the containers at boot      *)
(* (Ordered), they stay so; MemoryListProofs needs it.                     *)
(***************************************************************************)
EXTENDS Memory, TLAPS

-----------------------------------------------------------------------------
(* Words.                                                                  *)

\* The wrapping arithmetic stays within the word.
LEMMA WordArithmetic ==
    ASSUME NEW a \in Word, NEW b \in Word
    PROVE  Add(a, b) \in Word /\ Sub(a, b) \in Word
  BY WAssumption DEF Word, Add, Sub

\* What the search for an aligned address needs of the remainder.
LEMMA Remainder ==
    ASSUME NEW x \in Nat, NEW a \in Nat \ {0}
    PROVE  x % a \in 0 .. (a - 1) /\ x % a <= x
  OBVIOUS

LEMMA OverheadWord == OVERHEAD \in Word
  BY WAssumption, OverheadAssumption DEF Word

LEMMA NoAreaType == NoArea \in Area
<1>1. 0 \in Word
  BY WAssumption DEF Word
<1> QED BY <1>1 DEF NoArea, Area

\* The address memory_alloc proposes is a word, even where it wraps.
LEMMA StartWord ==
    ASSUME NEW c \in Container, NEW r \in Requests
    PROVE  Start(c, r) \in Word
<1>1. c.addr \in Word /\ r.align \in Word
  BY RequestsAssumption DEF Container
<1>2. CASE r.align = 0
  BY <1>1, <1>2 DEF Start
<1>3. CASE r.align # 0
  <2>1. r.align \in Nat \ {0} /\ r.align - 1 \in Word
    BY <1>1, <1>3, WAssumption DEF Word
  <2>2. Rounded(c, r) \in Word
    BY <1>1, <2>1, WordArithmetic DEF Rounded
  <2>3. Rounded(c, r) \in Nat
    BY <2>2, WAssumption DEF Word
  <2>4. Rounded(c, r) % r.align \in 0 .. (r.align - 1)
    BY <2>1, <2>3, Remainder
  <2>5. Rounded(c, r) % r.align <= Rounded(c, r)
    BY <2>1, <2>3, Remainder
  <2> QED BY <1>3, <2>1, <2>2, <2>3, <2>4, <2>5, WAssumption DEF Start, Word
<1> QED BY <1>2, <1>3

-----------------------------------------------------------------------------
(* Types.                                                                  *)

\* Splitting a container leaves containers, wherever it is split.
LEMMA SplitType ==
    ASSUME NEW c \in Container, NEW x \in Word
    PROVE  /\ HeadLower(c, x) \in Container
           /\ HeadUpper(c, x) \in Container
           /\ TailLower(c, x) \in Container
           /\ TailUpper(c, x) \in Container
<1>1. c.hdr \in Word /\ c.addr \in Word /\ c.size \in Word
  BY DEF Container
<1>2. HeadLower(c, x) \in Container
  BY DEF HeadLower, Container
<1>3. HeadUpper(c, x) \in Container
  BY <1>1, OverheadWord, WordArithmetic DEF HeadUpper, Container
<1>4. Sub(Sub(x, c.addr), OVERHEAD) \in Word
  BY <1>1, OverheadWord, WordArithmetic
<1>5. TailLower(c, x) \in Container
  BY <1>4 DEF TailLower, Container
<1>6. TailUpper(c, x) \in Container
  BY <1>1, OverheadWord, WordArithmetic DEF TailUpper, Container
<1> QED BY <1>2, <1>3, <1>5, <1>6

\* Merging two containers leaves a container.
LEMMA MergeType ==
    ASSUME NEW lower \in Container, NEW upper \in Container
    PROVE  Merge(lower, upper) \in Container
<1>1. Add(lower.size, Add(OVERHEAD, upper.size)) \in Word
  BY OverheadWord, WordArithmetic DEF Container
<1> QED BY <1>1 DEF Merge, Container

\* What memory_alloc does with the container it picks.
LEMMA AllocType ==
    ASSUME NEW c \in Container, NEW r \in Requests
    PROVE  Chosen(c, r) \in Container /\ Remains(c, r) \subseteq Container
<1>1. r.size \in Word /\ Start(c, r) \in Word
  BY StartWord, RequestsAssumption
<1>2. TailUpper(c, Start(c, r)) \in Container
  BY <1>1, SplitType
<1> QED BY <1>1, <1>2, SplitType DEF Chosen, Remains

\* What memory_free puts back.
LEMMA FreeType ==
    ASSUME free \subseteq Container, NEW c \in Container
    PROVE  Freed(c) \in Container /\ Stale(c) \subseteq Container
<1>1. Grown(c) \in Container
  <2>1. CASE Below(c) = {}
    BY <2>1 DEF Grown
  <2>2. CASE Below(c) # {}
    <3>1. PICK n \in Below(c) : n = CHOOSE m \in Below(c) : TRUE
      BY <2>2
    <3>2. n \in Container
      BY DEF Below, NextOf
    <3> QED BY <2>2, <3>1, <3>2, MergeType DEF Grown
  <2> QED BY <2>1, <2>2
<1>2. Freed(c) \in Container
  <2>1. CASE Above(c) = {}
    BY <1>1, <2>1 DEF Freed
  <2>2. CASE Above(c) # {}
    <3>1. PICK p \in Above(c) : p = CHOOSE m \in Above(c) : TRUE
      BY <2>2
    <3>2. p \in Container
      BY DEF Above, PrevOf
    <3> QED BY <1>1, <2>2, <3>1, <3>2, MergeType DEF Freed
  <2> QED BY <2>1, <2>2
<1>3. Stale(c) \subseteq Container
  BY <1>1 DEF Stale, Container
<1> QED BY <1>2, <1>3

\* Whatever the callers ask for and free, and however the unsigned arithmetic
\* wraps, the lists hold containers and memory_alloc returns an area.
THEOREM TypeCorrect == Spec => []TypeOK
<1>1. Init => TypeOK
  BY BootAssumption, NoAreaType DEF Init, TypeOK, Consistent
<1>2. TypeOK /\ [Next]_vars => TypeOK'
  <2> SUFFICES ASSUME TypeOK, [Next]_vars PROVE TypeOK'
    OBVIOUS
  <2>1. ASSUME NEW r \in Requests, Alloc(r) PROVE TypeOK'
    <3>1. PICK c \in free : /\ free' = (free \ {c}) \cup Remains(c, r)
                            /\ used' = used \cup {Chosen(c, r)}
                            /\ result' = AreaOf(Chosen(c, r))
      BY <2>1 DEF Alloc
    <3>2. Chosen(c, r) \in Container /\ Remains(c, r) \subseteq Container
      BY AllocType DEF TypeOK
    <3>3. AreaOf(Chosen(c, r)) \in Area
      BY <3>2 DEF AreaOf, Area, Container
    <3> QED BY <2>1, <3>1, <3>2, <3>3 DEF TypeOK, Alloc
  <2>2. ASSUME NEW r \in Requests, AllocFails(r) PROVE TypeOK'
    BY <2>2, NoAreaType DEF AllocFails, TypeOK
  <2>3. ASSUME NEW area \in CallerAreas, Free(area) PROVE TypeOK'
    <3>1. PICK c \in used :
            /\ used' = used \ {c}
            /\ free' = (free \ (Below(c) \cup Above(c))) \cup {Freed(c)} \cup Stale(c)
      BY <2>3 DEF Free
    <3>2. Freed(c) \in Container /\ Stale(c) \subseteq Container
      BY FreeType DEF TypeOK
    <3> QED BY <2>3, <3>1, <3>2 DEF TypeOK, Free
  <2>4. ASSUME NEW area \in CallerAreas, FreeInvalid(area) PROVE TypeOK'
    BY <2>4 DEF FreeInvalid, TypeOK
  <2>5. CASE UNCHANGED vars
    BY <2>5 DEF vars, TypeOK
  <2> QED BY <2>1, <2>2, <2>3, <2>4, <2>5 DEF Next
<1> QED BY <1>1, <1>2, PTL DEF Spec

-----------------------------------------------------------------------------
(* Splitting: the pieces lie within the block they come from.              *)

\* A free block as the lists keep it.
Sound(c) == /\ c \in Container
            /\ c.freeable
            /\ c.addr + c.size < W
            /\ Inline(c) => c.hdr + OVERHEAD = c.addr
            /\ Base(c) < c.addr + c.size

Within(p, c) == /\ Sound(p)
                /\ Base(c) <= Base(p)
                /\ p.addr + p.size <= c.addr + c.size

\* d begins where c begins, with the same header.
SameFront(d, c) == /\ d.hdr = c.hdr
                   /\ Inline(d) <=> Inline(c)
                   /\ Base(d) = Base(c)

\* The bytes of several blocks.
BytesOf(blocks) == UNION {Footprint(b) : b \in blocks}

LEMMA ContainerFields ==
    ASSUME NEW c \in Container
    PROVE  /\ c.hdr \in Nat /\ c.hdr < W
           /\ c.addr \in Nat /\ c.addr < W
           /\ c.size \in Nat /\ c.size < W
           /\ c.freeable \in BOOLEAN
           /\ c = [hdr |-> c.hdr, addr |-> c.addr, size |-> c.size,
                   freeable |-> c.freeable]
  BY WAssumption DEF Container, Word

\* A footprint starts at or below its area.
LEMMA BaseBelow ==
    ASSUME NEW c \in Container, Inline(c) => c.hdr + OVERHEAD = c.addr
    PROVE  /\ Base(c) \in Nat /\ Base(c) <= c.addr
           /\ Inline(c) => Base(c) = c.hdr /\ Base(c) = c.addr - OVERHEAD
           /\ ~Inline(c) => Base(c) = c.addr
<1>1. c.hdr \in Nat /\ c.addr \in Nat
  BY ContainerFields
<1>2. OVERHEAD \in Nat
  BY OverheadAssumption
<1> QED BY <1>1, <1>2 DEF Base

\* memory_split, [ size ][ ... ].
LEMMA SplitHead ==
    ASSUME NEW c, Sound(c), NEW s \in Nat, s > 0, s + OVERHEAD <= c.size
    PROVE  LET lower == HeadLower(c, s)  upper == HeadUpper(c, s)
           IN  /\ Within(lower, c) /\ Within(upper, c) /\ SameFront(lower, c)
               /\ lower.addr = c.addr /\ lower.size = s
               /\ Inline(upper) /\ Base(upper) = c.addr + s
               /\ upper.addr = c.addr + s + OVERHEAD
               /\ upper.addr + upper.size = c.addr + c.size
<1> DEFINE lower == HeadLower(c, s)
           upper == HeadUpper(c, s)
<1>1. c \in Container /\ c.freeable /\ c.addr + c.size < W
      /\ (Inline(c) => c.hdr + OVERHEAD = c.addr)
  BY DEF Sound
<1>2. c.hdr \in Nat /\ c.addr \in Nat /\ c.size \in Nat
  BY <1>1, ContainerFields
<1>3. s \in Word /\ OVERHEAD \in Nat \ {0} /\ W \in Nat
  BY <1>1, <1>2, WAssumption, OverheadAssumption DEF Word
<1>4. lower \in Container /\ upper \in Container
  BY <1>1, <1>3, SplitType
<1>5. lower.hdr = c.hdr /\ lower.addr = c.addr /\ lower.size = s /\ lower.freeable = c.freeable
  BY <1>1 DEF HeadLower, Container
<1>6. /\ upper.hdr = c.addr + s
      /\ upper.addr = c.addr + s + OVERHEAD
      /\ upper.size = c.size - s - OVERHEAD
      /\ upper.freeable
  BY <1>1, <1>2, <1>3 DEF HeadUpper, Add, Sub
<1> HIDE DEF lower, upper
<1>7. (Inline(lower) <=> Inline(c)) /\ Base(lower) = Base(c)
  BY <1>5 DEF Inline, Base
<1>8. Inline(upper) /\ Base(upper) = c.addr + s
  BY <1>1, <1>2, <1>3, <1>6 DEF Inline, Base, Add
<1>9. Base(c) \in Nat /\ Base(c) <= c.addr
  BY <1>1, BaseBelow
<1>10. Within(lower, c)
  BY <1>1, <1>2, <1>3, <1>4, <1>5, <1>7, <1>9 DEF Sound, Within
<1>11. Within(upper, c)
  BY <1>1, <1>2, <1>3, <1>4, <1>6, <1>8, <1>9 DEF Sound, Within
<1>12. SameFront(lower, c)
  BY <1>5, <1>7 DEF SameFront
<1> QED BY <1>2, <1>3, <1>5, <1>6, <1>8, <1>10, <1>11, <1>12 DEF lower, upper

\* memory_split, [ ... ][ size ].
LEMMA SplitTail ==
    ASSUME NEW c, Sound(c), NEW a \in Nat,
           c.addr + OVERHEAD <= a, a < c.addr + c.size,
           Inline(c) \/ c.addr + OVERHEAD < a
    PROVE  LET lower == TailLower(c, a)  upper == TailUpper(c, a)
           IN  /\ Within(lower, c) /\ Within(upper, c) /\ SameFront(lower, c)
               /\ lower.addr + lower.size = a - OVERHEAD
               /\ Inline(upper) /\ Base(upper) = a - OVERHEAD
               /\ upper.addr = a
               /\ upper.addr + upper.size = c.addr + c.size
<1> DEFINE lower == TailLower(c, a)
           upper == TailUpper(c, a)
<1>1. c \in Container /\ c.freeable /\ c.addr + c.size < W
      /\ (Inline(c) => c.hdr + OVERHEAD = c.addr)
  BY DEF Sound
<1>2. c.hdr \in Nat /\ c.addr \in Nat /\ c.size \in Nat
  BY <1>1, ContainerFields
<1>3. a \in Word /\ OVERHEAD \in Nat \ {0} /\ W \in Nat
  BY <1>1, <1>2, WAssumption, OverheadAssumption DEF Word
<1>4. lower \in Container /\ upper \in Container
  BY <1>1, <1>3, SplitType
<1>5. /\ lower.hdr = c.hdr /\ lower.addr = c.addr /\ lower.freeable = c.freeable
      /\ lower.size = Sub(Sub(a, c.addr), OVERHEAD)
  BY <1>1 DEF TailLower, Container
<1>6. lower.size = a - c.addr - OVERHEAD
  BY <1>2, <1>3, <1>5 DEF Sub
<1>7. /\ upper.hdr = a - OVERHEAD
      /\ upper.addr = a
      /\ upper.size = c.addr + c.size - a
      /\ upper.freeable
  BY <1>1, <1>2, <1>3, WAssumption DEF TailUpper, Add, Sub
<1> HIDE DEF lower, upper
<1>8. (Inline(lower) <=> Inline(c)) /\ Base(lower) = Base(c)
  BY <1>5 DEF Inline, Base
<1>9. Inline(upper) /\ Base(upper) = a - OVERHEAD
  BY <1>1, <1>2, <1>3, <1>7 DEF Inline, Base, Add
<1>10. Base(c) \in Nat /\ Base(c) <= c.addr
  BY <1>1, BaseBelow
<1>11. Base(lower) < lower.addr + lower.size
  BY <1>1, <1>2, <1>3, <1>5, <1>6, <1>8, OverheadAssumption, BaseBelow
<1>12. Within(lower, c)
  BY <1>1, <1>2, <1>3, <1>4, <1>5, <1>6, <1>8, <1>10, <1>11 DEF Sound, Within
<1>13. Within(upper, c)
  BY <1>1, <1>2, <1>3, <1>4, <1>7, <1>9, <1>10 DEF Sound, Within
<1>14. SameFront(lower, c)
  BY <1>5, <1>8 DEF SameFront
<1> QED BY <1>2, <1>3, <1>5, <1>6, <1>7, <1>9, <1>12, <1>13, <1>14 DEF lower, upper

\* Two ranges of bytes end to end are one.
LEMMA Span ==
    ASSUME NEW x \in Int, NEW y \in Int, NEW z \in Int, x <= y, y <= z
    PROVE  (x .. (y - 1)) \cup (y .. (z - 1)) = x .. (z - 1)
  OBVIOUS

\* Blocks that follow each other without a gap have the bytes of the whole.
LEMMA TwoTile ==
    ASSUME NEW c, NEW p, NEW q, Sound(c), Sound(p), Sound(q),
           Base(p) = Base(c), p.addr + p.size = Base(q),
           q.addr + q.size = c.addr + c.size
    PROVE  BytesOf({p, q}) = Footprint(c)
<1>1. /\ Base(c) \in Nat /\ Base(p) \in Nat /\ Base(q) \in Nat
      /\ p.addr \in Nat /\ p.size \in Nat /\ q.addr \in Nat /\ q.size \in Nat
      /\ c.addr \in Nat /\ c.size \in Nat
      /\ Base(p) < p.addr + p.size /\ Base(q) < q.addr + q.size
  BY ContainerFields, BaseBelow DEF Sound
<1>2. BytesOf({p, q}) = Footprint(p) \cup Footprint(q)
  BY DEF BytesOf
<1>3. /\ Footprint(p) = Base(c) .. (Base(q) - 1)
      /\ Footprint(q) = Base(q) .. (q.addr + q.size - 1)
  <2>1. p.addr + p.size - 1 = Base(q) - 1
    BY <1>1
  <2> QED BY <2>1, Zenon DEF Footprint
<1>4. c.addr + c.size \in Nat /\ Base(c) <= Base(q) /\ Base(q) <= c.addr + c.size
  BY <1>1
<1>5. Footprint(p) \cup Footprint(q) = Footprint(c)
  <2> DEFINE x == Base(c)
             y == Base(q)
             z == c.addr + c.size
  <2>1. (x .. (y - 1)) \cup (y .. (z - 1)) = x .. (z - 1)
    <3>1. x \in Int /\ y \in Int /\ z \in Int
      BY <1>1, <1>4
    <3> HIDE DEF x, y, z
    <3> QED BY <1>4, <3>1, Span DEF x, y, z
  <2>2. q.addr + q.size - 1 = z - 1 /\ c.addr + c.size - 1 = z - 1
    BY <1>1
  <2> QED BY <1>3, <2>1, <2>2, Zenon DEF Footprint
<1> QED BY <1>2, <1>5

-----------------------------------------------------------------------------
(* The invariant through memory_alloc.                                     *)

LEMMA WithinTransitive ==
    ASSUME NEW c, NEW d, NEW e, Sound(c), Within(d, c), Within(e, d)
    PROVE  Within(e, c)
<1>1. c \in Container /\ d \in Container /\ e \in Container
  BY DEF Within, Sound
<1>2. /\ c.addr \in Nat /\ c.size \in Nat /\ d.addr \in Nat /\ d.size \in Nat
      /\ e.addr \in Nat /\ e.size \in Nat
  BY <1>1, ContainerFields
<1>3. Base(c) \in Nat /\ Base(d) \in Nat /\ Base(e) \in Nat
  BY <1>1, BaseBelow DEF Within, Sound
<1> QED BY <1>2, <1>3 DEF Within

\* Blocks that may be freed, on either list, are sound.
LEMMA ConsistentSound ==
    ASSUME NEW f, NEW u, Consistent(f, u), NEW c \in f \cup u, c.freeable
    PROVE  Sound(c)
  BY DEF Consistent, Placed, Usable, Sound

\* A piece of a free block is apart from every other block, hence new.
LEMMA PieceApart ==
    ASSUME NEW f, NEW u, Consistent(f, u), NEW c \in f,
           NEW x \in (f \cup u) \ {c}, NEW p, Within(p, c)
    PROVE  p # x /\ Apart(p, x) /\ Apart(x, p)
<1>1. c.freeable /\ Sound(c) /\ Sound(p) /\ x \in Container
  BY ConsistentSound DEF Consistent, Usable, Within
<1>2. c \in Container /\ p \in Container
  BY <1>1 DEF Sound
<1>3. Apart(c, x)
  BY <1>1 DEF Consistent, AllApart
<1>4. /\ c.addr \in Nat /\ c.size \in Nat /\ p.addr \in Nat /\ p.size \in Nat
      /\ x.addr \in Nat /\ x.size \in Nat
  BY <1>1, <1>2, ContainerFields
<1>5. Base(c) \in Nat /\ Base(p) \in Nat /\ Base(x) \in Nat
  <2>1. Inline(x) => x.hdr + OVERHEAD = x.addr
    BY DEF Consistent, Placed
  <2> QED BY <1>1, <1>2, <2>1, BaseBelow DEF Sound
<1>6. Base(p) < p.addr + p.size /\ Base(c) <= Base(p)
      /\ p.addr + p.size <= c.addr + c.size
  BY DEF Within, Sound
<1> QED BY <1>3, <1>4, <1>5, <1>6 DEF Apart

\* A free block may be replaced by pieces of it, one of them handed out.
LEMMA Carve ==
    ASSUME NEW f, NEW u, Consistent(f, u), NEW c \in f,
           NEW ch, Within(ch, c), ch.size > 0,
           NEW R, \A d \in R : Within(d, c),
           ch \notin R, AllApart(R \cup {ch}),
           \/ \E d \in R : d.addr > ch.addr /\ d.addr >= c.addr
           \/ \E d \in f \ {c} : d.addr > ch.addr /\ d.addr > c.addr
    PROVE  Consistent((f \ {c}) \cup R, u \cup {ch})
<1> DEFINE f2 == (f \ {c}) \cup R
           u2 == u \cup {ch}
<1>1. \A p \in R \cup {ch} : Within(p, c) /\ Sound(p) /\ p \in Container /\ p.freeable
  BY DEF Within, Sound
<1>2. f2 \subseteq Container /\ u2 \subseteq Container
  BY <1>1 DEF Consistent
<1>3. f2 \cap u2 = {}
  <2>1. \A p \in R : p \notin u
    BY <1>1, PieceApart DEF Consistent
  <2>2. ch \notin f \ {c}
    BY <1>1, PieceApart
  <2> QED BY <2>1, <2>2 DEF Consistent
<1>4. Placed(f2 \cup u2)
  <2> SUFFICES ASSUME NEW x \in f2 \cup u2
               PROVE  /\ x.addr + x.size <= W
                      /\ x.freeable => x.addr + x.size < W
                      /\ Inline(x) => x.hdr + OVERHEAD = x.addr
    BY DEF Placed
  <2>2. CASE x \in R \cup {ch}
    <3>1. Sound(x) /\ x.addr \in Nat /\ x.size \in Nat
      BY <1>1, <2>2, ContainerFields
    <3> QED BY <3>1, WAssumption DEF Sound
  <2>3. CASE x \in f \cup u
    BY <2>3 DEF Placed, Consistent
  <2> QED BY <2>2, <2>3
<1>5. AllApart(f2 \cup u2)
  <2> SUFFICES ASSUME NEW x \in f2 \cup u2, NEW y \in f2 \cup u2, x # y,
                      x.freeable \/ y.freeable
               PROVE  Apart(x, y)
    BY DEF AllApart
  <2>1. CASE x \in R \cup {ch} /\ y \in R \cup {ch}
    BY <2>1 DEF AllApart
  <2>2. CASE x \notin R \cup {ch} /\ y \notin R \cup {ch}
    BY <2>2 DEF AllApart, Consistent
  <2>3. CASE x \in R \cup {ch} /\ y \notin R \cup {ch}
    <3>1. y \in (f \cup u) \ {c}
      BY <2>3 DEF Consistent
    <3> QED BY <1>1, <2>3, <3>1, PieceApart
  <2>4. CASE x \notin R \cup {ch} /\ y \in R \cup {ch}
    <3>1. x \in (f \cup u) \ {c}
      BY <2>4 DEF Consistent
    <3> QED BY <1>1, <2>4, <3>1, PieceApart
  <2> QED BY <2>1, <2>2, <2>3, <2>4
<1>6. Usable(f2, u2)
  BY <1>1 DEF Usable, Consistent, Sound
<1>7. RoomAbove(f2, u2)
  <2> SUFFICES ASSUME NEW x \in u2, x.freeable
               PROVE  \E d \in f2 : d.addr > x.addr
    BY DEF RoomAbove
  <2>1. CASE x = ch
    BY <2>1
  <2>2. CASE x \in u
    <3>1. PICK d \in f : d.addr > x.addr
      BY <2>2 DEF Consistent, RoomAbove
    <3>2. CASE d # c
      BY <3>1, <3>2
    <3>3. CASE d = c
      <4>1. PICK e \in f2 : e.addr >= c.addr
        <5>1. CASE \E e \in R : e.addr >= c.addr
          BY <5>1
        <5>2. CASE \E e \in f \ {c} : e.addr > c.addr
          <6>1. PICK e \in f \ {c} : e.addr > c.addr
            BY <5>2
          <6>2. e.addr \in Nat /\ c.addr \in Nat
            BY ContainerFields DEF Consistent
          <6> QED BY <6>1, <6>2
        <5> QED BY <5>1, <5>2
      <4>2. e.addr \in Nat /\ c.addr \in Nat /\ x.addr \in Nat
        BY <1>2, ContainerFields DEF Consistent
      <4> QED BY <3>1, <3>3, <4>1, <4>2
    <3> QED BY <3>2, <3>3
  <2> QED BY <2>1, <2>2
<1> QED BY <1>2, <1>3, <1>4, <1>5, <1>6, <1>7 DEF Consistent

\* Aligning does not wrap in a block that is no near fit.
LEMMA StartPosition ==
    ASSUME NEW c \in Container, NEW r \in Requests, r.align # 0,
           c.addr + r.align - 1 < W
    PROVE  /\ Skipped(c, r) \in 0 .. (r.align - 1)
           /\ Start(c, r) = c.addr + Skipped(c, r)
<1>1. c.addr \in Nat /\ r.align \in Nat \ {0}
  BY ContainerFields, RequestsAssumption, WAssumption DEF Word
<1>2. Rounded(c, r) = c.addr + (r.align - 1)
  BY <1>1 DEF Rounded, Add
<1>3. Rounded(c, r) \in Nat
  BY <1>1, <1>2
<1>4. Rounded(c, r) % r.align \in 0 .. (r.align - 1)
  BY <1>1, <1>3, Remainder
<1> QED BY <1>1, <1>2, <1>4 DEF Start, Skipped

\* A piece d of c beside the piece ch: it ends where c does or where ch begins,
\* and begins as c does or where ch ends.
Borders(d, ch, c) ==
    /\ d.addr + d.size \in {c.addr + c.size, Base(ch)}
    /\ SameFront(d, c) \/ Base(d) = ch.addr + ch.size

\* What each way of serving a request does to the container.  Every piece has
\* the header of the container or one in front of its area.
Carves(c, r) ==
    /\ Within(Chosen(c, r), c) /\ Chosen(c, r).size > 0
    /\ Chosen(c, r).addr = Start(c, r) /\ Chosen(c, r).size = r.size
    /\ \A d \in Remains(c, r) : Borders(d, Chosen(c, r), c)
    /\ \A d \in Remains(c, r) \cup {Chosen(c, r)} : SameFront(d, c) \/ Inline(d)
    /\ BytesOf(Remains(c, r) \cup {Chosen(c, r)}) = Footprint(c)
    /\ \A d \in Remains(c, r) : Within(d, c)
    /\ Chosen(c, r) \notin Remains(c, r)
    /\ AllApart(Remains(c, r) \cup {Chosen(c, r)})
    /\ \/ ExactFit(c, r)
       \/ \E d \in Remains(c, r) : d.addr > Chosen(c, r).addr /\ d.addr >= c.addr

\* Splitting once, at the start of the block.
LEMMA HeadCarves ==
    ASSUME NEW c, Sound(c), NEW r \in Requests, r.size > 0,
           r.size + OVERHEAD <= c.size, ~ExactFit(c, r), Start(c, r) = c.addr
    PROVE  Carves(c, r)
<1> DEFINE lower == HeadLower(c, r.size)
           upper == HeadUpper(c, r.size)
<1>1. Chosen(c, r) = lower /\ Remains(c, r) = {upper}
  BY DEF Chosen, Remains
<1>2. r.size \in Nat /\ c \in Container
  BY RequestsAssumption, WAssumption DEF Word, Sound
<1>3. /\ Within(lower, c) /\ Within(upper, c) /\ SameFront(lower, c)
      /\ lower.addr = c.addr /\ lower.size = r.size
      /\ Inline(upper) /\ Base(upper) = c.addr + r.size
      /\ upper.addr = c.addr + r.size + OVERHEAD
      /\ upper.addr + upper.size = c.addr + c.size
  BY <1>2, SplitHead
<1>4. c.addr \in Nat /\ OVERHEAD \in Nat \ {0}
  BY <1>2, ContainerFields, OverheadAssumption
<1> HIDE DEF lower, upper
<1>5. lower # upper /\ upper.addr > lower.addr
  BY <1>2, <1>3, <1>4
<1>6. Apart(lower, upper) /\ Apart(upper, lower)
  BY <1>2, <1>3, <1>4 DEF Apart
<1>7. upper.addr >= c.addr
  BY <1>2, <1>3, <1>4
<1>8. Borders(upper, lower, c)
  BY <1>3 DEF Borders
<1>9. BytesOf({upper} \cup {lower}) = Footprint(c)
  <2>1. Sound(lower) /\ Sound(upper) /\ {upper} \cup {lower} = {lower, upper}
    BY <1>3 DEF Within
  <2> QED BY <1>3, <2>1, TwoTile DEF SameFront
<1> QED BY <1>1, <1>3, <1>5, <1>6, <1>7, <1>8, <1>9 DEF Carves, AllApart

\* Splitting twice, inside the block.
LEMMA MiddleCarves ==
    ASSUME NEW c, Sound(c), NEW r \in Requests, r.size > 0,
           ~ExactFit(c, r), ~OnEdge(c, r),
           NEW k \in Nat, Start(c, r) = c.addr + k, k >= OVERHEAD,
           Inline(c) \/ k > OVERHEAD,
           k + r.size + OVERHEAD <= c.size
    PROVE  Carves(c, r)
<1> DEFINE a == c.addr + k
           lower == TailLower(c, a)
           tail  == TailUpper(c, a)
           mid   == HeadLower(tail, r.size)
           upper == HeadUpper(tail, r.size)
<1>1. Chosen(c, r) = mid /\ Remains(c, r) = {lower, upper}
  BY DEF Chosen, Remains, OnEdge
<1>2. /\ r.size \in Nat /\ c \in Container /\ OVERHEAD \in Nat \ {0}
      /\ c.addr \in Nat /\ c.size \in Nat
  <2>1. c \in Container
    BY DEF Sound
  <2> QED BY <2>1, ContainerFields, RequestsAssumption, WAssumption, OverheadAssumption DEF Word
<1>3. /\ a \in Nat /\ c.addr + OVERHEAD <= a /\ a < c.addr + c.size
      /\ Inline(c) \/ c.addr + OVERHEAD < a
  BY <1>2
<1>4. /\ Within(lower, c) /\ Within(tail, c) /\ SameFront(lower, c)
      /\ lower.addr + lower.size = a - OVERHEAD
      /\ Inline(tail) /\ Base(tail) = a - OVERHEAD
      /\ tail.addr = a
      /\ tail.addr + tail.size = c.addr + c.size
  BY <1>3, SplitTail
<1>5. tail \in Container /\ Sound(tail)
  BY <1>4 DEF Within, Sound
<1>6. tail.size \in Nat /\ tail.size >= r.size + OVERHEAD
  <2>1. tail.size \in Nat /\ tail.addr \in Nat
    BY <1>5, ContainerFields
  <2> HIDE DEF tail
  <2> QED BY <2>1, <1>2, <1>4
<1>7. /\ Within(mid, tail) /\ Within(upper, tail) /\ SameFront(mid, tail)
      /\ mid.addr = tail.addr /\ mid.size = r.size
      /\ Inline(upper) /\ Base(upper) = tail.addr + r.size
      /\ upper.addr = tail.addr + r.size + OVERHEAD
      /\ upper.addr + upper.size = tail.addr + tail.size
  <2>1. r.size + OVERHEAD <= tail.size
    BY <1>2, <1>6
  <2> HIDE DEF tail
  <2> QED BY <1>2, <1>5, <2>1, SplitHead
<1>8. Within(mid, c) /\ Within(upper, c)
  BY <1>4, <1>7, WithinTransitive
<1>9. /\ mid \in Container /\ upper \in Container /\ lower \in Container
      /\ Base(mid) \in Nat /\ Base(upper) \in Nat
  <2>1. /\ mid \in Container /\ upper \in Container /\ lower \in Container
        /\ Sound(mid) /\ Sound(upper)
    BY <1>4, <1>8 DEF Within, Sound
  <2> HIDE DEF mid, upper, lower
  <2> QED BY <2>1, BaseBelow DEF Sound
<1>10. /\ mid.addr = a /\ upper.addr = a + r.size + OVERHEAD
       /\ lower.addr + lower.size = a - OVERHEAD
       /\ Base(upper) = a + r.size /\ Base(mid) = a - OVERHEAD
       /\ mid.size = r.size /\ upper.addr + upper.size = c.addr + c.size
  BY <1>4, <1>7 DEF SameFront
<1>11. lower.addr \in Nat /\ lower.size \in Nat
  BY <1>9, ContainerFields
<1>16. BytesOf({lower, upper} \cup {mid}) = Footprint(c)
  <2> HIDE DEF lower, tail, mid, upper, a
  <2>1. Sound(lower) /\ Sound(tail) /\ Sound(mid) /\ Sound(upper)
    BY <1>4, <1>7 DEF Within
  <2>2. BytesOf({mid, upper}) = Footprint(tail)
    BY <1>4, <1>7, <2>1, TwoTile DEF SameFront
  <2>3. BytesOf({lower, tail}) = Footprint(c)
    BY <1>4, <2>1, TwoTile DEF SameFront
  <2> QED BY <2>2, <2>3 DEF BytesOf
<1> HIDE DEF lower, tail, mid, upper
<1>12. lower # mid /\ upper # mid /\ lower # upper
  BY <1>2, <1>3, <1>9, <1>10, <1>11
<1>13. /\ Apart(lower, mid) /\ Apart(mid, lower)
       /\ Apart(mid, upper) /\ Apart(upper, mid)
       /\ Apart(lower, upper) /\ Apart(upper, lower)
  BY <1>2, <1>3, <1>9, <1>10, <1>11 DEF Apart
<1>14. AllApart({lower, upper} \cup {mid})
  BY <1>13 DEF AllApart
<1>15. upper.addr > mid.addr /\ upper.addr >= c.addr
  BY <1>2, <1>3, <1>10
<1>17. Borders(lower, mid, c) /\ Borders(upper, mid, c)
  BY <1>4, <1>10 DEF Borders
<1>18. mid.addr = Start(c, r)
  BY <1>10
<1>19. SameFront(lower, c) /\ Inline(mid) /\ Inline(upper)
  BY <1>4, <1>7 DEF SameFront
<1> QED BY <1>1, <1>4, <1>8, <1>10, <1>12, <1>14, <1>15, <1>16, <1>17, <1>18, <1>19
        DEF Carves

\* How a request clear of the near fits is served: at the start of the block
\* or inside it, never at its end.
LEMMA ServeWays ==
    ASSUME NEW c, Sound(c), NEW r \in Requests, Serves(c, r),
           r.size > 0, r.size + OVERHEAD < W, ~NearFit(c, r), ~EmptyRest(c, r)
    PROVE  \/ ExactFit(c, r)
           \/ ~ExactFit(c, r) /\ Start(c, r) = c.addr /\ r.size + OVERHEAD <= c.size
           \/ /\ ~ExactFit(c, r) /\ r.align # 0 /\ ~OnEdge(c, r)
              /\ Start(c, r) \in Nat
              /\ c.addr + OVERHEAD <= Start(c, r)
              /\ Inline(c) \/ c.addr + OVERHEAD < Start(c, r)
              /\ Start(c, r) + r.size + OVERHEAD <= c.addr + c.size
<1>1. /\ r.size \in Nat /\ r.align \in Nat /\ c \in Container
      /\ OVERHEAD \in Nat \ {0} /\ W \in Nat
      /\ c.addr \in Nat /\ c.size \in Nat /\ c.addr + c.size < W
  <2>1. c \in Container /\ c.addr + c.size < W
    BY DEF Sound
  <2> QED BY <2>1, ContainerFields, RequestsAssumption, WAssumption, OverheadAssumption DEF Word
<1>2. CASE PlainFit(c, r)
  <2>1. r.size + OVERHEAD <= c.size
    BY <1>1, <1>2 DEF PlainFit, Add
  <2> QED BY <1>2, <2>1 DEF PlainFit, ExactFit, Start
<1>3. CASE ~ExactFit(c, r) /\ (EdgeFit(c, r) \/ MiddleFit(c, r))
  <2>1. r.align # 0 /\ c.size > r.size
    BY <1>3 DEF EdgeFit, MiddleFit
  <2>2. c.size >= r.align - 1 + 2 * OVERHEAD
    BY <1>1, <2>1 DEF NearFit
  <2>3. c.addr + r.align - 1 < W
    BY <1>1, <2>2
  <2>4. /\ Skipped(c, r) \in 0 .. (r.align - 1)
        /\ Start(c, r) = c.addr + Skipped(c, r)
    BY <1>1, <2>1, <2>3, StartPosition
  <2> DEFINE k == Skipped(c, r)
  <2>5. k \in Nat /\ k + 2 * OVERHEAD <= c.size
    BY <1>1, <2>1, <2>2, <2>4
  <2>6. Start(c, r) = c.addr + k
    BY <2>4
  <2> HIDE DEF k
  <2>7. /\ Sub(Sub(c.size, k), OVERHEAD) = c.size - k - OVERHEAD
        /\ Sub(Sub(c.size, k), 2 * OVERHEAD) = c.size - k - 2 * OVERHEAD
    BY <1>1, <2>5 DEF Sub
  <2>8. CASE EdgeFit(c, r)
    <3>1. c.size - k - OVERHEAD >= r.size
      BY <2>7, <2>8 DEF EdgeFit, k
    <3>2. Start(c, r) = c.addr
      <4> SUFFICES ASSUME Add(Start(c, r), r.size) = End(c) PROVE FALSE
        BY <2>8 DEF EdgeFit, OnEdge
      <4>1. End(c) = c.addr + c.size
        BY <1>1 DEF End, Add
      <4> QED BY <1>1, <2>1, <2>5, <2>6, <3>1, <4>1 DEF Add
    <3>3. r.size + OVERHEAD <= c.size
      BY <1>1, <2>5, <3>1
    <3> QED BY <1>3, <3>2, <3>3
  <2>9. CASE MiddleFit(c, r)
    <3>1. /\ ~OnEdge(c, r) /\ k >= OVERHEAD
          /\ c.size - k - 2 * OVERHEAD >= r.size
      BY <2>7, <2>9 DEF MiddleFit, k
    <3>2. Inline(c) \/ k > OVERHEAD
      BY <1>1, <2>5, <2>9, <3>1 DEF EmptyRest, k
    <3>3. /\ c.addr + OVERHEAD <= c.addr + k
          /\ k > OVERHEAD => c.addr + OVERHEAD < c.addr + k
          /\ c.addr + k + r.size + OVERHEAD <= c.addr + c.size
          /\ c.addr + k \in Nat
      BY <1>1, <2>5, <3>1
    <3> QED BY <1>3, <2>1, <2>6, <3>1, <3>2, <3>3
  <2> QED BY <1>3, <2>8, <2>9
<1> QED BY <1>2, <1>3 DEF Serves

\* A request clear of the near fits is served within the block it is served
\* from.
LEMMA ServeCarves ==
    ASSUME NEW c, Sound(c), NEW r \in Requests, Serves(c, r),
           r.size > 0, r.size + OVERHEAD < W, ~NearFit(c, r), ~EmptyRest(c, r)
    PROVE  Carves(c, r)
<1>1. /\ r.size \in Nat /\ c \in Container /\ OVERHEAD \in Nat \ {0}
      /\ c.addr \in Nat /\ c.size \in Nat
  <2>1. c \in Container
    BY DEF Sound
  <2> QED BY <2>1, ContainerFields, RequestsAssumption, WAssumption, OverheadAssumption DEF Word
<1>2. CASE ExactFit(c, r)
  <2>1. Chosen(c, r) = c /\ Remains(c, r) = {}
    BY <1>2 DEF Chosen, Remains
  <2>2. Base(c) \in Nat
    BY <1>1, BaseBelow DEF Sound
  <2>3. Within(c, c)
    BY <1>1, <2>2 DEF Within
  <2>4. c.size > 0
    BY <1>1, <1>2 DEF ExactFit
  <2>5. BytesOf({} \cup {c}) = Footprint(c)
    BY DEF BytesOf
  <2>6. SameFront(c, c)
    BY DEF SameFront
  <2> QED BY <1>2, <2>1, <2>3, <2>4, <2>5, <2>6 DEF Carves, AllApart, ExactFit
<1>3. CASE ~ExactFit(c, r) /\ Start(c, r) = c.addr /\ r.size + OVERHEAD <= c.size
  BY <1>3, HeadCarves
<1>4. CASE /\ ~ExactFit(c, r) /\ r.align # 0 /\ ~OnEdge(c, r)
           /\ Start(c, r) \in Nat
           /\ c.addr + OVERHEAD <= Start(c, r)
           /\ Inline(c) \/ c.addr + OVERHEAD < Start(c, r)
           /\ Start(c, r) + r.size + OVERHEAD <= c.addr + c.size
  <2>1. PICK k \in Nat : Start(c, r) = c.addr + k
    <3>1. PICK a : a = Start(c, r)
      OBVIOUS
    <3>2. a - c.addr \in Nat /\ a = c.addr + (a - c.addr)
      BY <1>1, <1>4, <3>1
    <3> QED BY <3>1, <3>2
  <2>2. k >= OVERHEAD /\ (Inline(c) \/ k > OVERHEAD) /\ k + r.size + OVERHEAD <= c.size
    BY <1>1, <1>4, <2>1
  <2> QED BY <1>4, <2>1, <2>2, MiddleCarves
<1> QED BY <1>2, <1>3, <1>4, ServeWays

\* Handing out a piece of the block the search has found.
LEMMA ServeConsistent ==
    ASSUME Consistent(free, used), NEW r \in Requests, Clear(r),
           NEW c \in free, FirstFit(c, r)
    PROVE  /\ Carves(c, r)
           /\ Consistent((free \ {c}) \cup Remains(c, r), used \cup {Chosen(c, r)})
<1>2. Sound(c)
  BY ConsistentSound DEF Consistent, Usable
<1>3. Carves(c, r)
  BY <1>2, ServeCarves DEF Clear, FirstFit
<1>4. CASE ~ExactFit(c, r)
  <2>1. \E d \in Remains(c, r) : d.addr > Chosen(c, r).addr /\ d.addr >= c.addr
    BY <1>3, <1>4 DEF Carves
  <2> QED BY <1>3, <2>1, Carve DEF Carves
<1>5. CASE ExactFit(c, r)
  <2>1. Chosen(c, r) = c
    BY <1>5 DEF Chosen
  <2>2. PICK d \in free : ~(d.addr <= c.addr)
    BY <1>5 DEF Clear, TakesTop, IsHead
  <2>3. c.addr \in Nat /\ d.addr \in Nat
    BY ContainerFields DEF Consistent
  <2>4. \E e \in free \ {c} : e.addr > Chosen(c, r).addr /\ e.addr > c.addr
    BY <2>1, <2>2, <2>3
  <2> QED BY <1>3, <2>4, Carve DEF Carves
<1> QED BY <1>3, <1>4, <1>5

LEMMA AllocConsistent ==
    ASSUME Consistent(free, used), NEW r \in Requests, Clear(r), Alloc(r)
    PROVE  Consistent(free', used')
  BY ServeConsistent DEF Alloc

-----------------------------------------------------------------------------
(* The invariant through memory_free.                                      *)

\* A block that may be freed moves to list_free.
LEMMA Return ==
    ASSUME NEW f, NEW u, Consistent(f, u), NEW c \in u, c.freeable
    PROVE  Consistent(f \cup {c}, u \ {c})
<1>1. (f \cup {c}) \cup (u \ {c}) = f \cup u
  OBVIOUS
<1>2. (f \cup {c}) \cap (u \ {c}) = {}
  BY DEF Consistent
<1>3. Usable(f \cup {c}, u \ {c})
  BY <1>1 DEF Consistent, Usable
<1>4. RoomAbove(f \cup {c}, u \ {c})
  BY DEF Consistent, RoomAbove
<1> QED BY <1>1, <1>2, <1>3, <1>4 DEF Consistent

\* Merging two free blocks that touch makes one block of their bytes.
LEMMA MergeSound ==
    ASSUME NEW lower, NEW upper, Sound(lower), Sound(upper),
           Inline(upper), End(lower) = upper.hdr
    PROVE  LET m == Merge(lower, upper)
           IN  /\ Sound(m) /\ SameFront(m, lower)
               /\ m.addr = lower.addr /\ Base(m) = Base(lower)
               /\ m.addr + m.size = upper.addr + upper.size
               /\ lower.addr + lower.size = Base(upper)
               /\ Base(upper) = upper.addr - OVERHEAD
<1> DEFINE m == Merge(lower, upper)
<1>1. lower \in Container /\ upper \in Container
  BY DEF Sound
<1>2. /\ lower.hdr \in Nat /\ lower.addr \in Nat /\ lower.size \in Nat
      /\ upper.hdr \in Nat /\ upper.addr \in Nat /\ upper.size \in Nat
      /\ OVERHEAD \in Nat \ {0} /\ W \in Nat
  BY <1>1, ContainerFields, OverheadAssumption, WAssumption
<1>3. /\ lower.addr + lower.size < W /\ upper.addr + upper.size < W
      /\ upper.hdr + OVERHEAD = upper.addr
  BY DEF Sound
<1>4. lower.addr + lower.size = upper.hdr
  BY <1>2, <1>3 DEF End, Add
<1>5. m \in Container
  BY <1>1, MergeType
<1>6. /\ m.hdr = lower.hdr /\ m.addr = lower.addr /\ m.freeable = lower.freeable
      /\ m.size = Add(lower.size, Add(OVERHEAD, upper.size))
  BY <1>1 DEF Merge, Container
<1>7. m.size = lower.size + OVERHEAD + upper.size
  BY <1>2, <1>3, <1>4, <1>6 DEF Add
<1> HIDE DEF m
<1>8. (Inline(m) <=> Inline(lower)) /\ Base(m) = Base(lower)
  BY <1>6 DEF Inline, Base
<1>9. Base(upper) = upper.hdr
  BY DEF Base
<1>10. m.addr + m.size = upper.addr + upper.size
  BY <1>2, <1>3, <1>4, <1>6, <1>7
<1>11. Base(lower) \in Nat /\ Base(lower) <= lower.addr
  BY <1>1, BaseBelow DEF Sound
<1>12. m.freeable /\ (Inline(m) => m.hdr + OVERHEAD = m.addr)
  BY <1>6, <1>8 DEF Sound
<1>13. Base(m) < m.addr + m.size
  BY <1>2, <1>3, <1>6, <1>7, <1>8, <1>11
<1>14. Sound(m)
  BY <1>3, <1>5, <1>10, <1>12, <1>13 DEF Sound
<1>15. SameFront(m, lower)
  BY <1>6, <1>8 DEF SameFront
<1> QED BY <1>2, <1>3, <1>4, <1>6, <1>8, <1>9, <1>10, <1>14, <1>15 DEF m

\* Joining two touching free blocks keeps the lists consistent.
LEMMA Join ==
    ASSUME NEW f, NEW u, Consistent(f, u), NEW lower \in f, NEW upper \in f,
           Inline(upper), End(lower) = upper.hdr
    PROVE  Consistent((f \ {lower, upper}) \cup {Merge(lower, upper)}, u)
<1> DEFINE m == Merge(lower, upper)
           f2 == (f \ {lower, upper}) \cup {m}
<1>1. Sound(lower) /\ Sound(upper)
  BY ConsistentSound DEF Consistent, Usable
<1>2. /\ Sound(m)
      /\ m.addr = lower.addr /\ Base(m) = Base(lower)
      /\ m.addr + m.size = upper.addr + upper.size
      /\ lower.addr + lower.size = Base(upper)
      /\ Base(upper) = upper.addr - OVERHEAD
  BY <1>1, MergeSound
<1> HIDE DEF m
<1>3. /\ lower \in Container /\ upper \in Container /\ m \in Container
      /\ lower.freeable /\ upper.freeable /\ m.freeable
  BY <1>1, <1>2 DEF Sound
<1>4. /\ lower.addr \in Nat /\ lower.size \in Nat
      /\ upper.addr \in Nat /\ upper.size \in Nat
      /\ m.addr \in Nat /\ m.size \in Nat /\ OVERHEAD \in Nat \ {0} /\ W \in Nat
  BY <1>3, ContainerFields, OverheadAssumption, WAssumption
<1>5. /\ Base(lower) \in Nat /\ Base(lower) < lower.addr + lower.size
      /\ Base(upper) \in Nat
  BY <1>1, <1>3, BaseBelow DEF Sound
<1>6. ASSUME NEW x \in (f \cup u) \ {lower, upper}
      PROVE  /\ Apart(m, x) /\ Apart(x, m) /\ m # x
             /\ x \in u /\ x.freeable /\ x.addr < upper.addr => x.addr < lower.addr
  <2>1. x \in Container /\ (Inline(x) => x.hdr + OVERHEAD = x.addr)
    BY DEF Consistent, Placed
  <2>2. /\ x.addr \in Nat /\ x.size \in Nat /\ Base(x) \in Nat
        /\ Base(x) <= x.addr
    BY <2>1, ContainerFields, BaseBelow
  <2>3. Base(x) < x.addr + x.size
    BY DEF Consistent, Usable
  <2>4. Apart(lower, x) /\ Apart(upper, x)
    BY <1>3 DEF Consistent, AllApart
  <2>5. /\ lower.addr + lower.size <= Base(x) \/ x.addr + x.size <= Base(lower)
        /\ upper.addr + upper.size <= Base(x) \/ x.addr + x.size <= Base(upper)
    BY <2>4 DEF Apart
  <2>6. m.addr + m.size <= Base(x) \/ x.addr + x.size <= Base(m)
    BY <1>2, <1>4, <1>5, <2>2, <2>3, <2>5
  <2>7. m # x
    BY <1>2, <1>4, <1>5, <2>2, <2>3, <2>6
  <2>8. ASSUME x \in u, x.freeable, x.addr < upper.addr PROVE x.addr < lower.addr
    <3>1. Base(lower) <= lower.addr
      BY <1>1, <1>3, BaseBelow DEF Sound
    <3>2. x.size > 0
      BY <2>8 DEF Consistent, Usable
    <3> QED BY <3>1, <3>2, <2>8, <1>2, <1>4, <1>5, <2>2, <2>3, <2>5
  <2> QED BY <2>6, <2>7, <2>8 DEF Apart
<1>7. lower \notin u /\ upper \notin u
  BY DEF Consistent
<1>8. f2 \subseteq Container /\ u \subseteq Container /\ f2 \cap u = {}
  <2>1. m \notin u
    BY <1>6, <1>7
  <2> QED BY <1>3, <2>1 DEF Consistent
<1>9. Placed(f2 \cup u)
  <2>1. m.addr + m.size < W /\ m.addr + m.size <= W
        /\ (Inline(m) => m.hdr + OVERHEAD = m.addr)
    BY <1>2, <1>4 DEF Sound
  <2> QED BY <2>1 DEF Placed, Consistent
<1>10. AllApart(f2 \cup u)
  <2> SUFFICES ASSUME NEW x \in f2 \cup u, NEW y \in f2 \cup u, x # y,
                      x.freeable \/ y.freeable
               PROVE  Apart(x, y)
    BY DEF AllApart
  <2>1. CASE x = m
    <3>1. y \in (f \cup u) \ {lower, upper}
      BY <1>7, <2>1
    <3> QED BY <1>6, <2>1, <3>1
  <2>2. CASE y = m
    <3>1. x \in (f \cup u) \ {lower, upper}
      BY <1>7, <2>2
    <3> QED BY <1>6, <2>2, <3>1
  <2>3. CASE x # m /\ y # m
    BY <2>3 DEF Consistent, AllApart
  <2> QED BY <2>1, <2>2, <2>3
<1>11. Usable(f2, u)
  <2>1. Base(m) < m.addr + m.size
    BY <1>2 DEF Sound
  <2> QED BY <1>3, <2>1 DEF Usable, Consistent
<1>12. RoomAbove(f2, u)
  <2> SUFFICES ASSUME NEW x \in u, x.freeable
               PROVE  \E d \in f2 : d.addr > x.addr
    BY DEF RoomAbove
  <2>1. PICK d \in f : d.addr > x.addr
    BY DEF Consistent, RoomAbove
  <2>2. CASE d \notin {lower, upper}
    BY <2>1, <2>2
  <2>3. CASE d = lower
    BY <1>2, <2>1, <2>3
  <2>4. CASE d = upper
    <3>1. x.addr \in Nat
      BY <1>8, ContainerFields
    <3>2. x.addr < lower.addr
      BY <1>4, <1>6, <1>7, <2>1, <2>4, <3>1
    <3> QED BY <1>2, <1>4, <3>1, <3>2
  <2> QED BY <2>2, <2>3, <2>4
<1> QED BY <1>8, <1>9, <1>10, <1>11, <1>12 DEF Consistent, m

\* With a free block above it, the freed block is not the first element.
LEMMA NotHead ==
    ASSUME Consistent(free, used), NEW c \in used, c.freeable
    PROVE  Stale(c) = {}
<1>1. PICK d \in free : d.addr > c.addr
  BY DEF Consistent, RoomAbove
<1>2. d.addr \in Nat /\ c.addr \in Nat
  BY ContainerFields DEF Consistent
<1> QED BY <1>1, <1>2 DEF Stale, IsHead

\* Two sound blocks that end at the same byte overlap, so they are the same.
LEMMA SameEnd ==
    ASSUME NEW f, NEW u, Consistent(f, u), NEW n \in f, NEW m \in f, End(n) = End(m)
    PROVE  n = m
<1> SUFFICES ASSUME n # m PROVE FALSE
  OBVIOUS
<1>1. Sound(n) /\ Sound(m) /\ n \in Container /\ m \in Container /\ n.freeable
  BY ConsistentSound DEF Consistent, Usable
<1>2. n.addr \in Nat /\ n.size \in Nat /\ m.addr \in Nat /\ m.size \in Nat /\ W \in Nat
  BY <1>1, ContainerFields, WAssumption
<1>3. n.addr + n.size = m.addr + m.size
  BY <1>1, <1>2 DEF Sound, End, Add
<1>4. /\ Base(n) \in Nat /\ Base(n) < n.addr + n.size
      /\ Base(m) \in Nat /\ Base(m) < m.addr + m.size
  BY <1>1, BaseBelow DEF Sound
<1>5. Apart(n, m)
  BY <1>1 DEF Consistent, AllApart
<1> QED BY <1>2, <1>3, <1>4, <1>5 DEF Apart

\* Two free blocks whose headers precede their areas have headers of their own.
LEMMA SameHeader ==
    ASSUME NEW f, NEW u, Consistent(f, u), NEW p \in f, NEW q \in f,
           Inline(p), Inline(q), p.hdr = q.hdr
    PROVE  p = q
<1> SUFFICES ASSUME p # q PROVE FALSE
  OBVIOUS
<1>1. Sound(p) /\ Sound(q) /\ p \in Container /\ q \in Container /\ p.freeable
  BY ConsistentSound DEF Consistent, Usable
<1>2. /\ p.hdr \in Nat /\ p.addr \in Nat /\ p.size \in Nat
      /\ q.hdr \in Nat /\ q.addr \in Nat /\ q.size \in Nat
      /\ OVERHEAD \in Nat \ {0}
  BY <1>1, ContainerFields, OverheadAssumption
<1>3. Base(p) = p.hdr /\ Base(q) = q.hdr
  BY DEF Base
<1>4. p.hdr + OVERHEAD = p.addr /\ q.hdr + OVERHEAD = q.addr
  BY <1>1 DEF Sound
<1>5. Apart(p, q)
  BY <1>1 DEF Consistent, AllApart
<1> QED BY <1>2, <1>3, <1>4, <1>5 DEF Apart

\* Taking a block back and merging it with its neighbours.
LEMMA FreedConsistent ==
    ASSUME Consistent(free, used), NEW c \in used, c.freeable
    PROVE  /\ Stale(c) = {}
           /\ Consistent((free \ (Below(c) \cup Above(c))) \cup {Freed(c)}, used \ {c})
<1>1. Stale(c) = {}
  BY NotHead
<1> DEFINE u == used \ {c}
           f1 == free \cup {c}
           f2 == (free \ Below(c)) \cup {Grown(c)}
<1>3. Consistent(f1, u) /\ c \notin free
  BY Return DEF Consistent
<1>4. c.addr \in Nat /\ \A x \in free : x.addr \in Nat
  BY ContainerFields DEF Consistent
<1>5. Consistent(f2, u) /\ Grown(c).addr <= c.addr
  <2>1. CASE Below(c) = {}
    BY <1>3, <1>4, <2>1 DEF Grown
  <2>2. CASE Below(c) # {}
    <3>1. PICK n \in Below(c) : n = CHOOSE m \in Below(c) : TRUE
      BY <2>2
    <3>2. n \in free /\ n.addr <= c.addr /\ Inline(c) /\ End(n) = c.hdr
      BY DEF Below, NextOf
    <3>3. \A m \in Below(c) : m = n
      BY <3>2, SameEnd DEF Below, NextOf
    <3>4. Below(c) = {n} /\ Grown(c) = Merge(n, c)
      BY <2>2, <3>1, <3>3 DEF Grown
    <3>5. Consistent((f1 \ {n, c}) \cup {Merge(n, c)}, u)
      BY <1>3, <3>2, Join
    <3>6. (f1 \ {n, c}) \cup {Merge(n, c)} = f2
      BY <1>3, <3>4
    <3>7. Merge(n, c).addr = n.addr
      BY <3>2 DEF Merge, Consistent, Container
    <3> QED BY <3>2, <3>4, <3>5, <3>6, <3>7
  <2> QED BY <2>1, <2>2
<1>6. Consistent((free \ (Below(c) \cup Above(c))) \cup {Freed(c)}, u)
  <2>1. CASE Above(c) = {}
    BY <1>5, <2>1 DEF Freed
  <2>2. CASE Above(c) # {}
    <3>1. PICK p \in Above(c) : p = CHOOSE m \in Above(c) : TRUE
      BY <2>2
    <3>2. /\ p \in free /\ p.addr > c.addr
          /\ Inline(p) /\ End(Grown(c)) = p.hdr
      BY DEF Above, PrevOf
    <3>3. \A q \in Above(c) : q = p
      BY <3>2, SameHeader DEF Above, PrevOf
    <3>4. Above(c) = {p} /\ Freed(c) = Merge(Grown(c), p)
      BY <2>2, <3>1, <3>3 DEF Freed
    <3>5. p \notin Below(c)
      BY <1>4, <3>2 DEF Below, NextOf
    <3>6. p \in f2 /\ Grown(c) \in f2
      BY <3>2, <3>5
    <3>7. Consistent((f2 \ {Grown(c), p}) \cup {Merge(Grown(c), p)}, u)
      BY <1>5, <3>2, <3>6, Join
    <3>8. Grown(c) \notin free \ Below(c)
      <4>1. CASE Below(c) = {}
        BY <1>3, <4>1 DEF Grown
      <4>2. CASE Below(c) # {}
        <5>1. PICK n \in Below(c) : n = CHOOSE m \in Below(c) : TRUE
          BY <4>2
        <5>2. n \in free /\ Inline(c) /\ End(n) = c.hdr /\ Grown(c) = Merge(n, c)
          BY <4>2, <5>1 DEF Below, NextOf, Grown
        <5>3. Sound(n) /\ Sound(c)
          BY <5>2, ConsistentSound DEF Consistent, Usable
        <5>4. Sound(Merge(n, c)) /\ End(Merge(n, c)) = End(c)
          <6>1. Sound(Merge(n, c)) /\ Merge(n, c).addr + Merge(n, c).size = c.addr + c.size
            BY <5>2, <5>3, MergeSound
          <6> QED BY <5>3, <6>1 DEF Sound, End, Add
        <5>5. Merge(n, c) \notin free
          BY <1>3, <5>4, <5>2, SameEnd
        <5> QED BY <5>2, <5>5
      <4> QED BY <4>1, <4>2
    <3>9. (f2 \ {Grown(c), p}) \cup {Merge(Grown(c), p)}
            = (free \ (Below(c) \cup Above(c))) \cup {Freed(c)}
      BY <3>4, <3>8
    <3> QED BY <3>7, <3>9
  <2> QED BY <2>1, <2>2
<1> QED BY <1>1, <1>6

LEMMA FreeConsistent ==
    ASSUME Consistent(free, used), NEW area, Free(area)
    PROVE  Consistent(free', used')
<1>1. PICK c \in used :
        /\ c.freeable
        /\ used' = used \ {c}
        /\ free' = (free \ (Below(c) \cup Above(c))) \cup {Freed(c)} \cup Stale(c)
  BY DEF Free
<1>2. free' = (free \ (Below(c) \cup Above(c))) \cup {Freed(c)}
  BY <1>1, FreedConsistent
<1> QED BY <1>1, <1>2, FreedConsistent

-----------------------------------------------------------------------------
(* Safety.                                                                 *)

LEMMA BootConsistent == Init => IInv
  BY BootAssumption, NoAreaType DEF Init, IInv, TypeOK, Consistent

LEMMA StepConsistent == IInv /\ [ClearNext]_vars => IInv'
<1> SUFFICES ASSUME IInv, [ClearNext]_vars PROVE IInv'
  OBVIOUS
<1>1. Consistent(free, used) /\ result \in Area /\ halted \in BOOLEAN
  BY DEF IInv, TypeOK
<1>2. ASSUME NEW r \in Requests, Clear(r), Alloc(r) PROVE IInv'
  <2>1. Consistent(free', used')
    BY <1>1, <1>2, AllocConsistent
  <2>2. PICK c \in free : result' = AreaOf(Chosen(c, r))
    BY <1>2 DEF Alloc
  <2>3. Chosen(c, r) \in Container
    BY <1>1, AllocType DEF Consistent
  <2>4. result' \in Area
    BY <2>2, <2>3 DEF AreaOf, Area, Container
  <2>5. halted' = halted
    BY <1>2 DEF Alloc
  <2>6. Consistent(free, used)'
    BY <2>1 DEF Consistent
  <2> QED BY <1>1, <2>1, <2>4, <2>5, <2>6 DEF IInv, TypeOK, Consistent
<1>3. ASSUME NEW r \in Requests, AllocFails(r) PROVE IInv'
  BY <1>1, <1>3, NoAreaType DEF AllocFails, IInv, TypeOK, Consistent
<1>4. ASSUME NEW area, Free(area) PROVE IInv'
  <2>1. Consistent(free', used')
    BY <1>1, <1>4, FreeConsistent
  <2>2. UNCHANGED <<result, halted>>
    BY <1>4 DEF Free
  <2> QED BY <1>1, <2>1, <2>2 DEF IInv, TypeOK, Consistent
<1>5. ASSUME NEW area, FreeInvalid(area) PROVE IInv'
  BY <1>1, <1>5 DEF FreeInvalid, IInv, TypeOK, Consistent
<1>6. CASE UNCHANGED vars
  BY <1>1, <1>6 DEF vars, IInv, TypeOK, Consistent
<1> QED BY <1>2, <1>3, <1>4, <1>5, <1>6 DEF ClearNext

\* Callers that stay clear of the near fits keep the allocator's invariant,
\* whatever the boot layout, the requests and the order of the calls.
THEOREM Invariance == ClearSpec => []IInv
<1>1. Init => IInv
  BY BootConsistent
<1>2. IInv /\ [ClearNext]_vars => IInv'
  BY StepConsistent
<1> QED BY <1>1, <1>2, PTL DEF ClearSpec

\* memory_alloc and memory_free never let two blocks overlap.
THEOREM BlocksNeverOverlap == ClearSpec => []NoOverlap
<1>1. IInv => NoOverlap
  BY DEF IInv, Consistent, NoOverlap
<1> QED BY <1>1, Invariance, PTL

\* memory_free never leaves the header it merged away as the first element
\* of list_free.
THEOREM NeverStaleHead == ClearSpec => []NoStaleHead
<1>1. IInv => NoStaleHead
  BY NotHead DEF IInv, NoStaleHead
<1> QED BY <1>1, Invariance, PTL

-----------------------------------------------------------------------------
(* What memory_free leaves.                                                *)

Freeable(blocks) == {b \in blocks : b.freeable}

\* Replacing blocks by others with the same bytes keeps the bytes of a set.
LEMMA Replace ==
    ASSUME NEW B, NEW A, NEW S, A \subseteq B, BytesOf(S) = BytesOf(A)
    PROVE  BytesOf((B \ A) \cup S) = BytesOf(B)
  BY DEF BytesOf

\* Where a sound block lies, in numbers.
LEMMA SoundFields ==
    ASSUME NEW c, Sound(c)
    PROVE  /\ c.hdr \in Nat /\ c.addr \in Nat /\ c.size \in Nat
           /\ Base(c) \in Nat /\ Base(c) <= c.addr
           /\ Base(c) < c.addr + c.size
           /\ End(c) = c.addr + c.size
           /\ Inline(c) => Base(c) = c.hdr /\ c.addr = c.hdr + OVERHEAD
<1>1. c \in Container /\ c.addr + c.size < W /\ (Inline(c) => c.hdr + OVERHEAD = c.addr)
  BY DEF Sound
<1>2. c.hdr \in Nat /\ c.addr \in Nat /\ c.size \in Nat
  BY <1>1, ContainerFields
<1>3. End(c) = c.addr + c.size
  BY <1>1 DEF End, Add
<1>4. Base(c) \in Nat /\ Base(c) <= c.addr /\ (Inline(c) => Base(c) = c.hdr)
  BY <1>1, BaseBelow
<1>5. Base(c) < c.addr + c.size
  BY DEF Sound
<1>6. Inline(c) => c.addr = c.hdr + OVERHEAD
  BY <1>1
<1> QED BY <1>2, <1>3, <1>4, <1>5, <1>6

\* The blocks of list_free are sound.
LEMMA FreeSound ==
    ASSUME NEW f, NEW u, Consistent(f, u), NEW c \in f
    PROVE  Sound(c) /\ c \in Container /\ c.freeable
  BY ConsistentSound DEF Consistent, Usable, Sound

\* Two blocks of list_free, in numbers.
LEMMA FreeApartFields ==
    ASSUME NEW f, NEW u, Consistent(f, u), NEW c \in f, NEW d \in f, c # d
    PROVE  c.addr + c.size <= Base(d) \/ d.addr + d.size <= Base(c)
<1>1. c.freeable
  BY FreeSound
<1> QED BY <1>1 DEF Consistent, AllApart, Apart

-----------------------------------------------------------------------------
(* Free blocks never touch.                                                *)

\* memory_alloc: what is left of a block touches nothing the block did not.
LEMMA CarveMerged ==
    ASSUME NEW f, NEW u, Consistent(f, u), Merged(f), NEW c \in f,
           NEW ch, Within(ch, c),
           NEW R, \A d \in R : Within(d, c) /\ Borders(d, ch, c)
    PROVE  Merged((f \ {c}) \cup R)
<1> SUFFICES ASSUME NEW x \in (f \ {c}) \cup R, NEW y \in (f \ {c}) \cup R,
                    Inline(y), End(x) = y.hdr
             PROVE  FALSE
  BY DEF Merged
<1>1. Sound(c) /\ Sound(ch) /\ Sound(x) /\ Sound(y)
  BY FreeSound DEF Within
<1>2. /\ c.addr \in Nat /\ c.size \in Nat /\ Base(c) \in Nat
      /\ Base(c) < c.addr + c.size /\ End(c) = c.addr + c.size
  BY <1>1, SoundFields
<1>3. /\ ch.addr \in Nat /\ ch.size \in Nat /\ Base(ch) \in Nat
      /\ Base(ch) < ch.addr + ch.size
      /\ Base(c) <= Base(ch) /\ ch.addr + ch.size <= c.addr + c.size
  BY <1>1, SoundFields DEF Within
<1>4. /\ x.addr \in Nat /\ x.size \in Nat /\ Base(x) \in Nat
      /\ Base(x) < x.addr + x.size /\ End(x) = x.addr + x.size
  BY <1>1, SoundFields
<1>5. /\ y.addr \in Nat /\ y.size \in Nat /\ Base(y) \in Nat
      /\ Base(y) < y.addr + y.size /\ Base(y) = y.hdr
  BY <1>1, SoundFields
<1>6. x.addr + x.size = Base(y)
  BY <1>4, <1>5
<1>7. CASE x \in f \ {c} /\ y \in f \ {c}
  BY <1>7 DEF Merged
<1>8. CASE x \in R /\ y \in R
  <2>1. /\ x.addr + x.size = c.addr + c.size \/ x.addr + x.size = Base(ch)
        /\ Base(c) <= Base(x)
    BY <1>8 DEF Borders, Within
  <2>2. Base(y) = Base(c) \/ Base(y) = ch.addr + ch.size
    BY <1>8 DEF Borders, SameFront
  <2>3. y.addr + y.size <= c.addr + c.size
    BY <1>8 DEF Within
  <2> QED BY <1>2, <1>3, <1>4, <1>5, <1>6, <2>1, <2>2, <2>3
<1>9. CASE x \in R /\ y \in f \ {c}
  <2>1. CASE x.addr + x.size = c.addr + c.size
    <3>1. End(c) = y.hdr
      BY <1>2, <1>4, <2>1
    <3> QED BY <1>9, <3>1 DEF Merged
  <2>2. CASE x.addr + x.size = Base(ch)
    <3>1. Base(c) <= Base(x)
      BY <1>9 DEF Within
    <3>2. c.addr + c.size <= Base(y) \/ y.addr + y.size <= Base(c)
      BY <1>9, FreeApartFields
    <3> QED BY <1>2, <1>3, <1>4, <1>5, <1>6, <2>2, <3>1, <3>2
  <2> QED BY <1>9, <2>1, <2>2 DEF Borders
<1>10. CASE x \in f \ {c} /\ y \in R
  <2>1. CASE SameFront(y, c)
    <3>1. Inline(c) /\ End(x) = c.hdr
      BY <2>1 DEF SameFront
    <3> QED BY <1>10, <3>1 DEF Merged
  <2>2. CASE Base(y) = ch.addr + ch.size
    <3>1. y.addr + y.size <= c.addr + c.size
      BY <1>10 DEF Within
    <3>2. x.addr + x.size <= Base(c) \/ c.addr + c.size <= Base(x)
      BY <1>10, FreeApartFields
    <3> QED BY <1>2, <1>3, <1>4, <1>5, <1>6, <2>2, <3>1, <3>2
  <2> QED BY <1>10, <2>1, <2>2 DEF Borders
<1> QED BY <1>7, <1>8, <1>9, <1>10

\* What memory_free joins: the block freed, at most one below it that it
\* touches and at most one above.
LEMMA FreedShape ==
    ASSUME Consistent(free, used), NEW c \in used, c.freeable
    PROVE  /\ Sound(c) /\ Sound(Grown(c)) /\ Sound(Freed(c))
           /\ \/ /\ Below(c) = {} /\ Grown(c) = c
              \/ \E n \in free : /\ Below(c) = {n} /\ SameFront(Grown(c), n)
                                 /\ BytesOf({n, c}) = Footprint(Grown(c))
           /\ Grown(c).addr + Grown(c).size = c.addr + c.size
           /\ SameFront(Freed(c), Grown(c))
           /\ \/ /\ Above(c) = {} /\ Freed(c) = Grown(c)
              \/ \E p \in free : /\ Above(c) = {p}
                                 /\ Freed(c).addr + Freed(c).size = p.addr + p.size
                                 /\ BytesOf({Grown(c), p}) = Footprint(Freed(c))
<1>1. Sound(c)
  BY ConsistentSound
<1>2. /\ Sound(Grown(c))
      /\ Grown(c).addr + Grown(c).size = c.addr + c.size
      /\ \/ /\ Below(c) = {} /\ Grown(c) = c
         \/ \E n \in free : /\ Below(c) = {n} /\ SameFront(Grown(c), n)
                            /\ BytesOf({n, c}) = Footprint(Grown(c))
  <2>1. CASE Below(c) = {}
    BY <1>1, <2>1 DEF Grown
  <2>2. CASE Below(c) # {}
    <3>1. PICK n \in Below(c) : n = CHOOSE m \in Below(c) : TRUE
      BY <2>2
    <3>2. n \in free /\ Inline(c) /\ End(n) = c.hdr
      BY DEF Below, NextOf
    <3>3. \A m \in Below(c) : m = n
      BY <3>2, SameEnd DEF Below, NextOf
    <3>4. Below(c) = {n} /\ Grown(c) = Merge(n, c)
      BY <2>2, <3>1, <3>3 DEF Grown
    <3>5. Sound(n)
      BY <3>2, FreeSound
    <3>6. /\ Sound(Grown(c)) /\ SameFront(Grown(c), n)
          /\ Grown(c).addr + Grown(c).size = c.addr + c.size
          /\ n.addr + n.size = Base(c)
      BY <1>1, <3>2, <3>4, <3>5, MergeSound
    <3>7. BytesOf({n, c}) = Footprint(Grown(c))
      BY <1>1, <3>5, <3>6, TwoTile DEF SameFront
    <3> QED BY <3>2, <3>4, <3>6, <3>7
  <2> QED BY <2>1, <2>2
<1>3. /\ Sound(Freed(c)) /\ SameFront(Freed(c), Grown(c))
      /\ \/ /\ Above(c) = {} /\ Freed(c) = Grown(c)
         \/ \E p \in free : /\ Above(c) = {p}
                            /\ Freed(c).addr + Freed(c).size = p.addr + p.size
                            /\ BytesOf({Grown(c), p}) = Footprint(Freed(c))
  <2>1. CASE Above(c) = {}
    BY <1>2, <2>1 DEF Freed, SameFront
  <2>2. CASE Above(c) # {}
    <3>1. PICK p \in Above(c) : p = CHOOSE m \in Above(c) : TRUE
      BY <2>2
    <3>2. p \in free /\ Inline(p) /\ End(Grown(c)) = p.hdr
      BY DEF Above, PrevOf
    <3>3. \A q \in Above(c) : q = p
      BY <3>2, SameHeader DEF Above, PrevOf
    <3>4. Above(c) = {p} /\ Freed(c) = Merge(Grown(c), p)
      BY <2>2, <3>1, <3>3 DEF Freed
    <3>5. Sound(p)
      BY <3>2, FreeSound
    <3>6. /\ Sound(Freed(c)) /\ SameFront(Freed(c), Grown(c))
          /\ Freed(c).addr + Freed(c).size = p.addr + p.size
          /\ Grown(c).addr + Grown(c).size = Base(p)
      BY <1>2, <3>2, <3>4, <3>5, MergeSound
    <3>7. BytesOf({Grown(c), p}) = Footprint(Freed(c))
      BY <1>2, <3>5, <3>6, TwoTile DEF SameFront
    <3> QED BY <3>2, <3>4, <3>6, <3>7
  <2> QED BY <2>1, <2>2
<1> QED BY <1>1, <1>2, <1>3

\* A free block that starts where c ends is the one above it.
LEMMA TouchesAbove ==
    ASSUME Consistent(free, used), NEW c \in used, c.freeable,
           NEW y \in free, Inline(y), y.hdr = c.addr + c.size
    PROVE  y \in PrevOf(c)
<1>1. Sound(c) /\ c.size > 0 /\ c \notin free
  BY ConsistentSound DEF Consistent, Usable
<1>2. /\ c.addr \in Nat /\ c.size \in Nat /\ Base(c) \in Nat /\ Base(c) <= c.addr
  BY <1>1, SoundFields
<1>3. /\ y.hdr \in Nat /\ y.addr \in Nat /\ y.size \in Nat /\ Base(y) = y.hdr
      /\ y.addr = y.hdr + OVERHEAD /\ OVERHEAD \in Nat
  BY FreeSound, SoundFields, OverheadAssumption
<1>4. y.addr > c.addr
  BY <1>1, <1>2, <1>3
<1>5. ASSUME NEW m \in free, m.addr > c.addr PROVE y.addr <= m.addr
  <2>1. Sound(m) /\ m.freeable
    BY FreeSound
  <2>2. /\ m.addr \in Nat /\ m.size \in Nat /\ Base(m) \in Nat /\ Base(m) <= m.addr
        /\ Base(m) < m.addr + m.size
    BY <2>1, SoundFields
  <2>3. c.addr + c.size <= Base(m) \/ m.addr + m.size <= Base(c)
    BY <1>1 DEF Consistent, AllApart, Apart
  <2>4. CASE m # y
    <3>1. y.addr + y.size <= Base(m) \/ m.addr + m.size <= Base(y)
      BY <2>4, FreeApartFields
    <3> QED BY <1>2, <1>3, <1>5, <2>2, <2>3, <3>1
  <2> QED BY <1>3, <2>4
<1> QED BY <1>4, <1>5 DEF PrevOf

\* A free block that ends where the header of c begins is the one below it.
LEMMA TouchesBelow ==
    ASSUME Consistent(free, used), NEW c \in used, c.freeable, Inline(c),
           NEW x \in free, x.addr + x.size = c.hdr
    PROVE  x \in NextOf(c)
<1>1. Sound(c) /\ c.size > 0 /\ c \notin free
  BY ConsistentSound DEF Consistent, Usable
<1>2. /\ c.hdr \in Nat /\ c.addr \in Nat /\ c.size \in Nat
      /\ Base(c) = c.hdr /\ c.hdr <= c.addr
  BY <1>1, SoundFields
<1>3. /\ x.addr \in Nat /\ x.size \in Nat /\ Base(x) \in Nat /\ Base(x) <= x.addr
  BY FreeSound, SoundFields
<1>4. x.addr <= c.addr
  BY <1>2, <1>3
<1>5. ASSUME NEW m \in free, m.addr <= c.addr PROVE m.addr <= x.addr
  <2>1. Sound(m) /\ m.freeable
    BY FreeSound
  <2>2. /\ m.addr \in Nat /\ m.size \in Nat /\ Base(m) \in Nat /\ Base(m) <= m.addr
        /\ Base(m) < m.addr + m.size
    BY <2>1, SoundFields
  <2>3. c.addr + c.size <= Base(m) \/ m.addr + m.size <= Base(c)
    BY <1>1 DEF Consistent, AllApart, Apart
  <2>4. CASE m # x
    <3>1. x.addr + x.size <= Base(m) \/ m.addr + m.size <= Base(x)
      BY <2>4, FreeApartFields
    <3> QED BY <1>1, <1>2, <1>3, <1>5, <2>2, <2>3, <3>1
  <2> QED BY <1>3, <2>4
<1> QED BY <1>4, <1>5 DEF NextOf

\* memory_free: the block put back touches no other.
LEMMA FreeMerged ==
    ASSUME Consistent(free, used), Merged(free), NEW c \in used, c.freeable
    PROVE  Merged((free \ (Below(c) \cup Above(c))) \cup {Freed(c)})
<1> DEFINE g == Freed(c)
           rest == free \ (Below(c) \cup Above(c))
<1> SUFFICES ASSUME NEW x \in rest \cup {g}, NEW y \in rest \cup {g},
                    Inline(y), End(x) = y.hdr
             PROVE  FALSE
  BY DEF Merged
<1>1. Sound(c) /\ Sound(Grown(c)) /\ Sound(g) /\ SameFront(g, Grown(c))
      /\ Grown(c).addr + Grown(c).size = c.addr + c.size
  BY FreedShape
<1>2. Sound(x) /\ Sound(y)
  BY <1>1, FreeSound
<1>3. /\ x.addr \in Nat /\ x.size \in Nat /\ Base(x) < x.addr + x.size
      /\ Base(x) \in Nat /\ End(x) = x.addr + x.size /\ Base(y) = y.hdr
  BY <1>2, SoundFields
<1>4. CASE x \in rest /\ y \in rest
  BY <1>4 DEF Merged
<1>5. CASE x = g /\ y = g
  BY <1>3, <1>5
<1>6. CASE x = g /\ y \in rest
  <2>1. CASE Above(c) = {} /\ g = Grown(c)
    <3>1. y.hdr = c.addr + c.size /\ End(Grown(c)) = y.hdr
      BY <1>1, <1>3, <1>6, <2>1
    <3>2. y \in PrevOf(c)
      BY <1>6, <3>1, TouchesAbove
    <3> QED BY <2>1, <3>1, <3>2 DEF Above
  <2>2. CASE \E p \in free : Above(c) = {p} /\ g.addr + g.size = p.addr + p.size
    <3>1. PICK p \in free : Above(c) = {p} /\ g.addr + g.size = p.addr + p.size
      BY <2>2
    <3>2. End(p) = p.addr + p.size
      BY FreeSound, SoundFields
    <3>3. End(p) = y.hdr
      BY <1>3, <1>6, <3>1, <3>2
    <3> QED BY <1>6, <3>3 DEF Merged
  <2> QED BY <2>1, <2>2, FreedShape
<1>7. CASE x \in rest /\ y = g
  <2>1. CASE Below(c) = {} /\ Grown(c) = c
    <3>1. Inline(c) /\ c.hdr = y.hdr
      BY <1>1, <1>7, <2>1 DEF SameFront
    <3>2. x \in NextOf(c)
      BY <1>3, <1>7, <3>1, TouchesBelow
    <3> QED BY <2>1, <3>1, <3>2 DEF Below
  <2>2. CASE \E n \in free : Below(c) = {n} /\ SameFront(Grown(c), n)
    <3>1. PICK n \in free : Below(c) = {n} /\ SameFront(Grown(c), n)
      BY <2>2
    <3>2. Inline(n) /\ End(x) = n.hdr
      BY <1>1, <1>7, <3>1 DEF SameFront
    <3> QED BY <1>7, <3>2 DEF Merged
  <2> QED BY <2>1, <2>2, FreedShape
<1> QED BY <1>4, <1>5, <1>6, <1>7

-----------------------------------------------------------------------------
(* What every call keeps.                                                  *)

\* The same bytes that may be handed out, and the same regions that may not.
SameBytes(B, C) == /\ BytesOf(Freeable(B)) = BytesOf(Freeable(C))
                   /\ B \ Freeable(B) = C \ Freeable(C)

\* They are those of boot, and memory_init's own containers keep their blocks.
Tiled(f, u) == /\ SameBytes(f \cup u, BootFree \cup BootUsed)
               /\ Freeable(BootUsed) \subseteq u

\* An area in use tells its block from every other.
LEMMA AreaOnce ==
    ASSUME NEW f, NEW u, Consistent(f, u), NEW c \in u, c.freeable,
           NEW d \in f \cup u, AreaOf(d) = AreaOf(c)
    PROVE  d = c
<1> SUFFICES ASSUME d # c PROVE FALSE
  OBVIOUS
<1>1. c \in Container /\ d \in Container /\ c.size > 0
  BY DEF Consistent, Usable
<1>2. d.addr = c.addr /\ d.size = c.size
  BY DEF AreaOf
<1>3. Base(c) <= c.addr /\ Base(d) <= d.addr /\ Base(c) \in Nat /\ Base(d) \in Nat
  BY <1>1, BaseBelow DEF Consistent, Placed
<1>4. c.addr \in Nat /\ c.size \in Nat
  BY <1>1, ContainerFields
<1>5. c.addr + c.size <= Base(d) \/ d.addr + d.size <= Base(c)
  BY DEF Consistent, AllApart, Apart
<1> QED BY <1>1, <1>2, <1>3, <1>4, <1>5

\* Blocks that may be freed, replaced by others that may be, with their bytes.
LEMMA ReplaceTiled ==
    ASSUME NEW B, NEW A, NEW S, A \subseteq B, BytesOf(S) = BytesOf(A),
           Freeable(A) = A, Freeable(S) = S
    PROVE  SameBytes((B \ A) \cup S, B)
<1> DEFINE now == (B \ A) \cup S
<1>1. Freeable(now) = (Freeable(B) \ A) \cup S
  BY DEF Freeable
<1>2. A \subseteq Freeable(B)
  BY DEF Freeable
<1>3. BytesOf(Freeable(now)) = BytesOf(Freeable(B))
  <2>1. BytesOf((Freeable(B) \ A) \cup S) = BytesOf(Freeable(B))
    BY <1>2, Replace
  <2> QED BY <1>1, <2>1
<1>4. now \ Freeable(now) = B \ Freeable(B)
  BY DEF Freeable
<1> QED BY <1>3, <1>4 DEF SameBytes

LEMMA AllocKeeps ==
    ASSUME Consistent(free, used), Tiled(free, used),
           NEW r \in Requests, Clear(r), Alloc(r)
    PROVE  Tiled(free', used')
<1>1. PICK c \in free : /\ FirstFit(c, r)
                        /\ free' = (free \ {c}) \cup Remains(c, r)
                        /\ used' = used \cup {Chosen(c, r)}
  BY DEF Alloc
<1>2. Sound(c) /\ c.freeable /\ c \notin used
  BY FreeSound DEF Consistent
<1>3. Carves(c, r)
  BY <1>1, <1>2, ServeCarves DEF Clear, FirstFit
<1> DEFINE S == Remains(c, r) \cup {Chosen(c, r)}
<1>5. free' \cup used' = ((free \cup used) \ {c}) \cup S
  BY <1>1, <1>2
<1>6. BytesOf(S) = BytesOf({c})
  BY <1>3 DEF Carves, BytesOf
<1>7. Freeable({c}) = {c} /\ Freeable(S) = S
  BY <1>2, <1>3 DEF Carves, Within, Sound, Freeable
<1>8. Tiled(free', used')
  <2> HIDE DEF S
  <2>1. {c} \subseteq free \cup used
    OBVIOUS
  <2>2. SameBytes(free' \cup used', free \cup used)
    BY <1>5, <1>6, <1>7, <2>1, ReplaceTiled
  <2>3. Freeable(BootUsed) \subseteq used'
    BY <1>1 DEF Tiled
  <2> QED BY <2>2, <2>3 DEF Tiled, SameBytes
<1> QED BY <1>8

\* No caller frees a block of memory_init's own.
LEMMA FreesOwn ==
    ASSUME Consistent(free, used), NEW area \in CallerAreas,
           NEW c \in used, AreaOf(c) = area, c.freeable
    PROVE  c \notin Freeable(BootUsed)
<1>1. c.size > 0
  BY DEF Consistent, Usable
<1>2. area # NoArea
  BY <1>1 DEF AreaOf, NoArea
<1>3. PICK d \in (free \cup used) \ Freeable(BootUsed) : AreaOf(d) = area
  BY <1>2 DEF CallerAreas, Freeable
<1>4. d = c
  BY <1>3, AreaOnce
<1> QED BY <1>3, <1>4

LEMMA FreeKeeps ==
    ASSUME Consistent(free, used), Tiled(free, used),
           NEW area \in CallerAreas, Free(area)
    PROVE  Tiled(free', used')
<1>1. PICK c \in used :
        /\ AreaOf(c) = area /\ c.freeable
        /\ used' = used \ {c}
        /\ free' = (free \ (Below(c) \cup Above(c))) \cup {Freed(c)} \cup Stale(c)
  BY DEF Free
<1>2. free' = (free \ (Below(c) \cup Above(c))) \cup {Freed(c)}
  BY <1>1, NotHead
<1> DEFINE A == Below(c) \cup Above(c) \cup {c}
<1>4. c \notin free /\ free \cap used = {}
  BY DEF Consistent
<1>5. Below(c) \subseteq free /\ Above(c) \subseteq free
  BY DEF Below, NextOf, Above, PrevOf
<1>6. free' \cup used' = ((free \cup used) \ A) \cup {Freed(c)}
  BY <1>1, <1>2, <1>4, <1>5
<1>7. BytesOf({Freed(c)}) = BytesOf(A)
  <2>1. BytesOf(Below(c) \cup {c}) = Footprint(Grown(c))
    <3>1. CASE Below(c) = {} /\ Grown(c) = c
      BY <3>1 DEF BytesOf
    <3>2. CASE \E n \in free : Below(c) = {n} /\ BytesOf({n, c}) = Footprint(Grown(c))
      BY <3>2 DEF BytesOf
    <3> QED BY <1>1, <3>1, <3>2, FreedShape
  <2>2. BytesOf(Above(c) \cup {Grown(c)}) = Footprint(Freed(c))
    <3>1. CASE Above(c) = {} /\ Freed(c) = Grown(c)
      BY <3>1 DEF BytesOf
    <3>2. CASE \E p \in free : /\ Above(c) = {p}
                               /\ BytesOf({Grown(c), p}) = Footprint(Freed(c))
      BY <3>2 DEF BytesOf
    <3> QED BY <1>1, <3>1, <3>2, FreedShape
  <2> QED BY <2>1, <2>2 DEF BytesOf
<1>8. Freeable(A) = A /\ Freeable({Freed(c)}) = {Freed(c)}
  <2>1. Freed(c).freeable
    BY <1>1, FreedShape DEF Sound
  <2>2. \A b \in A : b.freeable
    BY <1>1, <1>5, FreeSound
  <2> HIDE DEF A
  <2> QED BY <2>1, <2>2 DEF Freeable
<1>9. Tiled(free', used')
  <2>1. A \subseteq free \cup used
    BY <1>5
  <2> HIDE DEF A
  <2>2. SameBytes(free' \cup used', free \cup used)
    BY <1>6, <1>7, <1>8, <2>1, ReplaceTiled
  <2>3. Freeable(BootUsed) \subseteq used'
    BY <1>1, FreesOwn DEF Tiled
  <2> QED BY <2>2, <2>3 DEF Tiled, SameBytes
<1> QED BY <1>9

LEMMA StepKept ==
    IInv /\ Tiled(free, used) /\ [ClearNext]_vars => Tiled(free', used')
<1> SUFFICES ASSUME IInv, Tiled(free, used), [ClearNext]_vars
             PROVE  Tiled(free', used')
  OBVIOUS
<1>1. Consistent(free, used)
  BY DEF IInv
<1>2. ASSUME NEW r \in Requests, Clear(r), Alloc(r) PROVE Tiled(free', used')
  BY <1>1, <1>2, AllocKeeps
<1>3. ASSUME NEW r \in Requests, AllocFails(r) PROVE Tiled(free', used')
  BY <1>3 DEF AllocFails
<1>4. ASSUME NEW area \in CallerAreas, Free(area) PROVE Tiled(free', used')
  BY <1>1, <1>4, FreeKeeps
<1>5. ASSUME NEW area \in CallerAreas, FreeInvalid(area) PROVE Tiled(free', used')
  BY <1>5 DEF FreeInvalid
<1>6. CASE UNCHANGED vars
  BY <1>6 DEF vars
<1> QED BY <1>2, <1>3, <1>4, <1>5, <1>6 DEF ClearNext

LEMMA AlwaysKept == ClearSpec => [](IInv /\ Tiled(free, used))
<1>1. Init => IInv /\ Tiled(free, used)
  <2>1. Init => Tiled(free, used)
    BY DEF Init, Tiled, SameBytes, Freeable
  <2> QED BY <2>1, BootConsistent
<1>2. IInv /\ Tiled(free, used) /\ [ClearNext]_vars => (IInv /\ Tiled(free, used))'
  <2>1. IInv /\ Tiled(free, used) /\ [ClearNext]_vars => Tiled(free, used)'
    BY StepKept DEF Tiled, SameBytes, Freeable, BytesOf, Footprint, Base, Inline
  <2> QED BY <2>1, StepConsistent
<1> QED BY <1>1, <1>2, PTL DEF ClearSpec

LEMMA StepMerged ==
    IInv /\ Merged(free) /\ [ClearNext]_vars => Merged(free')
<1> SUFFICES ASSUME IInv, Merged(free), [ClearNext]_vars
             PROVE  Merged(free')
  OBVIOUS
<1>1. Consistent(free, used)
  BY DEF IInv
<1>2. ASSUME NEW r \in Requests, Clear(r), Alloc(r) PROVE Merged(free')
  <2>1. PICK c \in free : FirstFit(c, r) /\ free' = (free \ {c}) \cup Remains(c, r)
    BY <1>2 DEF Alloc
  <2>2. Carves(c, r)
    BY <1>1, <1>2, <2>1, FreeSound, ServeCarves DEF Clear, FirstFit
  <2> QED BY <1>1, <2>1, <2>2, CarveMerged DEF Carves
<1>3. ASSUME NEW r \in Requests, AllocFails(r) PROVE Merged(free')
  BY <1>3 DEF AllocFails
<1>4. ASSUME NEW area \in CallerAreas, Free(area) PROVE Merged(free')
  <2>1. PICK c \in used :
          /\ c.freeable
          /\ free' = (free \ (Below(c) \cup Above(c))) \cup {Freed(c)} \cup Stale(c)
    BY <1>4 DEF Free
  <2>2. free' = (free \ (Below(c) \cup Above(c))) \cup {Freed(c)}
    BY <1>1, <2>1, NotHead
  <2> QED BY <1>1, <2>1, <2>2, FreeMerged
<1>5. ASSUME NEW area \in CallerAreas, FreeInvalid(area) PROVE Merged(free')
  BY <1>5 DEF FreeInvalid
<1>6. CASE UNCHANGED vars
  BY <1>6 DEF vars
<1> QED BY <1>2, <1>3, <1>4, <1>5, <1>6 DEF ClearNext

\* memory_free merges with every neighbour it touches, and memory_alloc leaves
\* no two free blocks that touch: where memory_init left none, no request ever
\* fails for want of a merge.
THEOREM FreeBlocksCoalesced ==
    ASSUME Merged(BootFree)
    PROVE  ClearSpec => []Coalesced
<1>1. Init => IInv /\ Merged(free)
  BY BootConsistent DEF Init
<1>2. IInv /\ Merged(free) /\ [ClearNext]_vars => (IInv /\ Merged(free))'
  <2>1. IInv /\ Merged(free) /\ [ClearNext]_vars => Merged(free)'
    BY StepMerged DEF Merged, Inline, End
  <2> QED BY <2>1, StepConsistent
<1>3. Merged(free) => Coalesced
  BY DEF Coalesced
<1> QED BY <1>1, <1>2, <1>3, PTL DEF ClearSpec

\* No byte is lost and none appears, whatever is split and merged.
THEOREM BytesConserved == ClearSpec => []Conserved
<1>1. Tiled(free, used) => Conserved
  BY DEF Tiled, SameBytes, Conserved, Freeable, BytesOf
<1> QED BY <1>1, AlwaysKept, PTL

-----------------------------------------------------------------------------
(* The promise, step by step.                                              *)

\* The areas in use.
Live(u) == {AreaOf(b) : b \in Freeable(u)}

\* Rounding down to a multiple gives a multiple.
LEMMA Multiple ==
    ASSUME NEW x \in Int, NEW a \in Int, a > 0
    PROVE  (x - (x % a)) % a = 0
<1>1. x - (x % a) = a * (x \div a)
  BY Z3
<1>2. (a * (x \div a)) % a = 0
  BY Z3
<1> QED BY <1>1, <1>2

\* The address memory_alloc proposes is a multiple of the alignment.
LEMMA StartAligned ==
    ASSUME NEW c \in Container, NEW r \in Requests, r.align # 0
    PROVE  Start(c, r) % r.align = 0
<1> DEFINE x == Rounded(c, r)
           a == r.align
<1>1. x \in Int /\ a \in Int /\ a > 0
  <2>1. c.addr \in Word /\ r.align \in Word /\ r.align - 1 \in Word
    BY RequestsAssumption, WAssumption DEF Container, Word
  <2>2. Rounded(c, r) \in Word
    BY <2>1, WordArithmetic DEF Rounded
  <2> QED BY <2>1, <2>2, WAssumption DEF Word
<1>2. Start(c, r) = x - (x % a)
  BY DEF Start
<1>3. (x - (x % a)) % a = 0
  <2> HIDE DEF x, a
  <2> QED BY <1>1, Multiple
<1> QED BY <1>2, <1>3

\* The bytes of an area are bytes of its block.
LEMMA AreaInside ==
    ASSUME NEW c, Sound(c)
    PROVE  Promise!Bytes(AreaOf(c)) \subseteq Footprint(c)
<1>1. Base(c) \in Nat /\ Base(c) <= c.addr /\ c.addr \in Nat /\ c.size \in Nat
  BY SoundFields
<1> QED BY <1>1 DEF Promise!Bytes, AreaOf, Footprint

\* The areas of blocks that are apart have no byte in common.
LEMMA AreasApart ==
    ASSUME NEW c, NEW d, Sound(c), Sound(d), Apart(c, d)
    PROVE  Promise!Bytes(AreaOf(c)) \cap Promise!Bytes(AreaOf(d)) = {}
<1>1. Base(c) \in Nat /\ Base(c) <= c.addr /\ c.addr \in Nat /\ c.size \in Nat
  BY SoundFields
<1>2. Base(d) \in Nat /\ Base(d) <= d.addr /\ d.addr \in Nat /\ d.size \in Nat
  BY SoundFields
<1> QED BY <1>1, <1>2 DEF Apart, Promise!Bytes, AreaOf

\* memory_alloc returns what was asked for, and nobody owns it.
LEMMA AllocPromised ==
    ASSUME Consistent(free, used), Tiled(free, used),
           NEW r \in Requests, Clear(r), Alloc(r)
    PROVE  Promise!Allocate(r)
<1>1. PICK c \in free : /\ FirstFit(c, r)
                        /\ free' = (free \ {c}) \cup Remains(c, r)
                        /\ used' = used \cup {Chosen(c, r)}
                        /\ result' = AreaOf(Chosen(c, r))
  BY DEF Alloc
<1> DEFINE ch == Chosen(c, r)
<1>2. Sound(c) /\ c \in Container
  BY FreeSound
<1>3. Carves(c, r)
  BY <1>1, <1>2, ServeCarves DEF Clear, FirstFit
<1>4. Sound(ch) /\ ch.freeable /\ ch.addr = Start(c, r) /\ ch.size = r.size
  BY <1>3 DEF Carves, Within, Sound
<1>5. Promise!Meets(result', r)
  <2>1. result'.address = ch.addr /\ result'.size = ch.size
    BY <1>1 DEF AreaOf
  <2>2. r.align # 0 => result'.address % r.align = 0
    BY <1>2, <1>4, <2>1, StartAligned
  <2>3. ASSUME r.limit # 0 PROVE result'.address + result'.size <= r.limit
    <3>1. Add(ch.addr, ch.size) <= r.limit
      BY <1>1, <1>4, <2>3 DEF FirstFit, Serves, WithinLimit
    <3>2. ch.addr + ch.size < W
      BY <1>4 DEF Sound
    <3> QED BY <2>1, <3>1, <3>2 DEF Add
  <2> QED BY <1>4, <2>1, <2>2, <2>3 DEF Promise!Meets
<1>6. ch \in Freeable(free' \cup used')
  BY <1>1, <1>4 DEF Freeable
<1>7. Promise!Bytes(result') \subseteq BytesOf(Freeable(BootFree \cup BootUsed))
  <2>1. Tiled(free', used')
    BY AllocKeeps
  <2>2. Footprint(ch) \subseteq BytesOf(Freeable(free' \cup used'))
    BY <1>6 DEF BytesOf
  <2> QED BY <1>1, <1>4, <2>1, <2>2, AreaInside DEF Tiled, SameBytes
<1>8. ASSUME NEW b \in Live(used) PROVE Promise!Bytes(result') \cap Promise!Bytes(b) = {}
  <2>1. PICK d \in used : d.freeable /\ b = AreaOf(d)
    BY <1>8 DEF Live, Freeable
  <2>2. Sound(d)
    BY <2>1, ConsistentSound
  <2>3. d # c
    BY <2>1 DEF Consistent
  <2>4. Apart(ch, d)
    BY <1>3, <2>1, <2>3, PieceApart DEF Carves
  <2> QED BY <1>1, <1>4, <2>1, <2>2, <2>4, AreasApart
<1>9. Live(used') = Live(used) \cup {result'}
  BY <1>1, <1>4 DEF Live, Freeable
<1>10. halted' = halted
  BY DEF Alloc
<1> QED BY <1>5, <1>7, <1>8, <1>9, <1>10
        DEF Promise!Allocate, Live, Freeable, BytesOf

\* memory_free takes back the area it is given and no other.
LEMMA FreePromised ==
    ASSUME Consistent(free, used), Tiled(free, used),
           NEW area \in CallerAreas, Free(area)
    PROVE  area \in Live(used) /\ Promise!Release(area)
<1>1. PICK c \in used : AreaOf(c) = area /\ c.freeable /\ used' = used \ {c}
  BY DEF Free
<1>2. area \in Live(used)
  BY <1>1 DEF Live, Freeable
<1>3. area \notin Live(BootUsed)
  <2> SUFFICES ASSUME NEW h \in Freeable(BootUsed), AreaOf(h) = area PROVE FALSE
    BY DEF Live
  <2>1. h = c
    BY <1>1, AreaOnce DEF Tiled
  <2> QED BY <1>1, <2>1, FreesOwn
<1>4. Live(used') = Live(used) \ {area}
  <2>1. \A b \in used : b.freeable /\ AreaOf(b) = area => b = c
    BY <1>1, AreaOnce
  <2> QED BY <1>1, <2>1 DEF Live, Freeable
<1>5. UNCHANGED <<result, halted>>
  BY DEF Free
<1> QED BY <1>2, <1>3, <1>4, <1>5 DEF Promise!Release, Live, Freeable

LEMMA StepPromised ==
    IInv /\ Tiled(free, used) /\ [ClearNext]_vars => [Promise!ANext]_(Promise!avars)
<1> SUFFICES ASSUME IInv, Tiled(free, used), ClearNext
             PROVE  Promise!ANext
  <2>1. UNCHANGED vars => UNCHANGED Promise!avars
    BY DEF vars, Promise!avars
  <2> QED BY <2>1
<1>1. Consistent(free, used)
  BY DEF IInv
<1>2. ASSUME NEW r \in Requests, Clear(r), Alloc(r) PROVE Promise!ANext
  BY <1>1, <1>2, AllocPromised DEF Promise!ANext
<1>3. ASSUME NEW r \in Requests, AllocFails(r) PROVE Promise!ANext
  BY <1>3 DEF AllocFails, Promise!ANext, Promise!Refuse, Promise!Nothing, NoArea
<1>4. ASSUME NEW area \in CallerAreas, Free(area) PROVE Promise!ANext
  BY <1>1, <1>4, FreePromised DEF Promise!ANext, Live, Freeable
<1>5. ASSUME NEW area \in CallerAreas, FreeInvalid(area) PROVE Promise!ANext
  BY <1>5 DEF FreeInvalid, Promise!ANext, Promise!Reject
<1> QED BY <1>2, <1>3, <1>4, <1>5 DEF ClearNext

\* Under callers that stay clear of the near fits the memory manager implements
\* Allocator: whatever was split and merged before, memory_alloc returns an
\* area of the size, alignment and limit asked for, wholly in RAM, that nobody
\* owns, and memory_free takes back exactly the area it is given.
THEOREM PromiseKept == ClearSpec => KeepsPromise
<1>1. Init => Promise!AInit
  BY DEF Init, Promise!AInit, Promise!Nothing, NoArea
<1>2. IInv /\ Tiled(free, used) /\ [ClearNext]_vars => [Promise!ANext]_(Promise!avars)
  BY StepPromised
<1> QED BY <1>1, <1>2, AlwaysKept, PTL DEF ClearSpec, KeepsPromise, Promise!ASpec

-----------------------------------------------------------------------------
(* Containers keep addresses of their own.                                 *)

Headers(f, u) == /\ OwnHeaders(f \cup u)
                 /\ Hosted(f \cup u, Freeable(BootUsed))
                 /\ Freeable(BootUsed) \subseteq u

\* A container that lies in a block held is not within any free block.
LEMMA HostElsewhere ==
    ASSUME NEW f, NEW u, Consistent(f, u), Headers(f, u), NEW c \in f,
           NEW y \in f \cup u, ~Inline(y), NEW p, Within(p, c)
    PROVE  y.hdr # Base(p)
<1>1. PICK h \in Freeable(BootUsed) : y.hdr \in h.addr .. (h.addr + h.size - 1)
  BY DEF Headers, Hosted
<1>2. h \in (f \cup u) \ {c} /\ h.freeable
  BY DEF Headers, Freeable, Consistent
<1>3. Sound(h) /\ Sound(p) /\ Apart(p, h)
  BY <1>2, ConsistentSound, PieceApart DEF Within
<1>4. /\ h.addr \in Nat /\ h.size \in Nat /\ Base(h) \in Nat /\ Base(h) <= h.addr
      /\ p.addr \in Nat /\ p.size \in Nat /\ Base(p) \in Nat
      /\ Base(p) < p.addr + p.size
  BY <1>3, SoundFields
<1>5. h.addr <= y.hdr /\ y.hdr < h.addr + h.size
  BY <1>1, <1>4
<1> QED BY <1>3, <1>4, <1>5 DEF Apart

\* Splitting: a new container lies in the block it is split from.
LEMMA HeadersCarve ==
    ASSUME NEW f, NEW u, Consistent(f, u), Headers(f, u), NEW c \in f,
           NEW S, AllApart(S),
           \A p \in S : Within(p, c) /\ (SameFront(p, c) \/ Inline(p))
    PROVE  /\ OwnHeaders(((f \cup u) \ {c}) \cup S)
           /\ Hosted(((f \cup u) \ {c}) \cup S, Freeable(BootUsed))
<1> DEFINE B == (f \cup u) \ {c}
<1>1. ASSUME NEW x \in S, NEW y \in B, x.hdr = y.hdr PROVE FALSE
  <2>1. CASE SameFront(x, c)
    BY <1>1, <2>1 DEF SameFront, Headers, OwnHeaders
  <2>2. CASE Inline(x)
    <3>1. Sound(x) /\ Within(x, c) /\ Apart(x, y)
      BY <1>1, PieceApart DEF Within
    <3>2. /\ Base(x) = x.hdr /\ x.addr \in Nat /\ x.size \in Nat
          /\ Base(x) \in Nat /\ Base(x) < x.addr + x.size
      BY <2>2, <3>1, SoundFields
    <3>3. CASE Inline(y)
      <4>1. Base(y) = y.hdr /\ Base(y) < y.addr + y.size
        BY <3>3 DEF Base, Consistent, Usable
      <4>2. y.addr \in Nat /\ y.size \in Nat
        BY ContainerFields DEF Consistent
      <4> QED BY <1>1, <3>1, <3>2, <4>1, <4>2 DEF Apart
    <3>4. CASE ~Inline(y)
      BY <1>1, <3>1, <3>2, <3>4, HostElsewhere
    <3> QED BY <3>3, <3>4
  <2> QED BY <1>1, <2>1, <2>2
<1>2. ASSUME NEW x \in S, NEW y \in S, x.hdr = y.hdr, x # y, Inline(y) PROVE FALSE
  <2>1. Within(x, c) /\ Within(y, c) /\ Sound(x) /\ Sound(y)
    BY <1>2 DEF Within
  <2>2. /\ x.addr \in Nat /\ x.size \in Nat /\ Base(x) \in Nat
        /\ Base(x) < x.addr + x.size /\ (Inline(x) => Base(x) = x.hdr)
    BY <2>1, SoundFields
  <2>3. /\ y.addr \in Nat /\ y.size \in Nat /\ Base(y) \in Nat
        /\ Base(y) < y.addr + y.size /\ Base(y) = y.hdr
    BY <1>2, <2>1, SoundFields
  <2>4. CASE Inline(x)
    <3>1. Apart(x, y)
      BY <1>2, <2>1 DEF AllApart, Sound
    <3> QED BY <1>2, <2>2, <2>3, <2>4, <3>1 DEF Apart
  <2>5. CASE ~Inline(x)
    <3>1. ~Inline(c) /\ c.hdr = y.hdr
      BY <1>2, <2>5 DEF SameFront
    <3> QED BY <2>1, <2>3, <3>1, HostElsewhere
  <2> QED BY <2>4, <2>5
<1>3. ASSUME NEW x \in S, NEW y \in S, x.hdr = y.hdr, x # y PROVE FALSE
  <2>1. CASE Inline(x) \/ Inline(y)
    BY <1>2, <1>3, <2>1
  <2>2. CASE ~Inline(x) /\ ~Inline(y)
    <3>1. Base(x) = Base(y) /\ Sound(x) /\ Sound(y)
      BY <1>3, <2>2 DEF SameFront, Within
    <3>2. /\ x.addr \in Nat /\ x.size \in Nat /\ Base(x) \in Nat
          /\ Base(x) < x.addr + x.size
      BY <3>1, SoundFields
    <3>3. /\ y.addr \in Nat /\ y.size \in Nat /\ Base(y) \in Nat
          /\ Base(y) < y.addr + y.size
      BY <3>1, SoundFields
    <3>4. Apart(x, y)
      BY <1>3, <3>1 DEF AllApart, Sound
    <3> QED BY <3>1, <3>2, <3>3, <3>4 DEF Apart
  <2> QED BY <2>1, <2>2
<1>4. OwnHeaders(B \cup S)
  <2> SUFFICES ASSUME NEW x \in B \cup S, NEW y \in B \cup S, x.hdr = y.hdr
               PROVE  x = y
    BY DEF OwnHeaders
  <2>1. CASE x \in B /\ y \in B
    BY <2>1 DEF Headers, OwnHeaders
  <2>2. CASE x \in S /\ y \in B
    BY <1>1, <2>2
  <2>3. CASE x \in B /\ y \in S
    BY <1>1, <2>3
  <2>4. CASE x \in S /\ y \in S
    BY <1>3, <2>4
  <2> QED BY <2>1, <2>2, <2>3, <2>4
<1>5. Hosted(B \cup S, Freeable(BootUsed))
  <2> SUFFICES ASSUME NEW x \in B \cup S, ~Inline(x)
               PROVE  \E h \in Freeable(BootUsed) :
                        x.hdr \in h.addr .. (h.addr + h.size - 1)
    BY DEF Hosted
  <2>1. CASE x \in B
    BY <2>1 DEF Headers, Hosted
  <2>2. CASE x \in S
    <3>1. ~Inline(c) /\ x.hdr = c.hdr
      BY <2>2 DEF SameFront
    <3> QED BY <3>1 DEF Headers, Hosted
  <2> QED BY <2>1, <2>2
<1> QED BY <1>4, <1>5

\* Merging: the joined block keeps the container of the lowest.
LEMMA HeadersJoin ==
    ASSUME NEW B, OwnHeaders(B), Hosted(B, Freeable(BootUsed)),
           NEW A, A \subseteq B, NEW a \in A, NEW g, SameFront(g, a)
    PROVE  /\ OwnHeaders((B \ A) \cup {g})
           /\ Hosted((B \ A) \cup {g}, Freeable(BootUsed))
  BY DEF OwnHeaders, Hosted, SameFront

-----------------------------------------------------------------------------
(* The order of the blocks, as the lists have it.                          *)

\* The blocks of both lists, their containers and their addresses.
Layout(f, u) == Consistent(f, u) /\ Headers(f, u) /\ Ordered(f, u)

\* A block in numbers, on either list.
LEMMA BlockFields ==
    ASSUME NEW f, NEW u, Consistent(f, u), NEW y \in f \cup u
    PROVE  /\ y.hdr \in Nat /\ y.addr \in Nat /\ y.size \in Nat
           /\ y.addr + y.size <= W
           /\ Base(y) \in Nat /\ Base(y) <= y.addr /\ Base(y) < y.addr + y.size
           /\ Inline(y) => Base(y) = y.hdr /\ y.addr = y.hdr + OVERHEAD
           /\ ~Inline(y) => Base(y) = y.addr
<1>1. y \in Container /\ (Inline(y) => y.hdr + OVERHEAD = y.addr)
  BY DEF Consistent, Placed
<1>2. y.hdr \in Nat /\ y.addr \in Nat /\ y.size \in Nat
  BY <1>1, ContainerFields
<1>3. y.addr + y.size <= W /\ Base(y) < y.addr + y.size
  BY DEF Consistent, Placed, Usable
<1> QED BY <1>1, <1>2, <1>3, BaseBelow

\* Blocks that may be freed begin at addresses of their own.
LEMMA Distinct ==
    ASSUME NEW f, NEW u, Consistent(f, u), Ordered(f, u),
           NEW x \in f \cup u, NEW y \in f \cup u, x.freeable, y.freeable,
           x.addr = y.addr
    PROVE  x = y
<1> SUFFICES ASSUME x # y PROVE FALSE
  OBVIOUS
<1>1. Sound(x) /\ Sound(y)
  BY ConsistentSound
<1>2. /\ x.addr \in Nat /\ x.size \in Nat /\ Base(x) \in Nat /\ Base(x) <= x.addr
      /\ Base(x) < x.addr + x.size /\ End(x) = x.addr + x.size
  BY <1>1, SoundFields
<1>3. /\ y.addr \in Nat /\ y.size \in Nat /\ Base(y) \in Nat /\ Base(y) <= y.addr
      /\ Base(y) < y.addr + y.size /\ End(y) = y.addr + y.size
  BY <1>1, SoundFields
<1>4. x.addr + x.size <= Base(y) \/ y.addr + y.size <= Base(x)
  BY DEF Consistent, AllApart, Apart
<1>5. CASE x.addr + x.size <= Base(y)
  <2>1. Base(y) = y.addr /\ End(x) = y.addr
    BY <1>2, <1>3, <1>5
  <2>2. ~Inline(y)
    BY <1>1, <1>3, <2>1, OverheadAssumption, BlockFields
  <2> QED BY <2>1, <2>2 DEF Ordered
<1>6. CASE y.addr + y.size <= Base(x)
  <2>1. Base(x) = x.addr /\ End(y) = x.addr
    BY <1>2, <1>3, <1>6
  <2>2. ~Inline(x)
    BY <1>1, <1>2, <2>1, OverheadAssumption, BlockFields
  <2> QED BY <2>1, <2>2 DEF Ordered
<1> QED BY <1>4, <1>5, <1>6

\* A free block above c is above every piece of c.
LEMMA NoneBetween ==
    ASSUME NEW f, NEW u, Consistent(f, u), Ordered(f, u), NEW c \in f, NEW y \in f,
           y.addr > c.addr, NEW p, Within(p, c)
    PROVE  y.addr > p.addr
<1>1. Sound(c) /\ Sound(y) /\ Sound(p) /\ c.freeable /\ y.freeable
  BY FreeSound DEF Within
<1>2. /\ c.addr \in Nat /\ c.size \in Nat /\ Base(c) \in Nat /\ Base(c) <= c.addr
      /\ End(c) = c.addr + c.size
  BY <1>1, SoundFields
<1>3. /\ y.addr \in Nat /\ y.size \in Nat /\ Base(y) \in Nat /\ Base(y) <= y.addr
      /\ Base(y) < y.addr + y.size
  BY <1>1, SoundFields
<1>4. p.addr \in Nat /\ p.size \in Nat /\ p.addr + p.size <= c.addr + c.size
  BY <1>1, SoundFields DEF Within
<1>5. c.addr + c.size <= Base(y) \/ y.addr + y.size <= Base(c)
  BY <1>1, <1>2, <1>3, FreeApartFields
<1> SUFFICES ASSUME y.addr <= p.addr PROVE FALSE
  BY <1>3, <1>4
<1>6. Base(y) = y.addr /\ End(c) = y.addr
  BY <1>2, <1>3, <1>4, <1>5
<1>7. ~Inline(y)
  BY <1>3, <1>6, OverheadAssumption, BlockFields
<1> QED BY <1>1, <1>6, <1>7 DEF Ordered

\* Of two pieces of c the one with a header of its own lies behind the front.
LEMMA FrontFirst ==
    ASSUME NEW c, Sound(c), NEW l, Within(l, c), SameFront(l, c), l.addr = c.addr,
           NEW p, Within(p, c), Apart(l, p)
    PROVE  Base(c) < Base(p) /\ c.addr <= Base(p)
<1>1. Sound(l) /\ Sound(p) /\ Base(l) = Base(c) /\ Base(c) <= Base(p)
  BY DEF Within, SameFront
<1>2. /\ c.addr \in Nat /\ l.size \in Nat /\ Base(l) \in Nat /\ Base(l) < l.addr + l.size
      /\ p.addr \in Nat /\ p.size \in Nat /\ Base(p) \in Nat /\ Base(p) < p.addr + p.size
  BY <1>1, SoundFields
<1> QED BY <1>1, <1>2 DEF Apart

\* A piece behind the front has a header that no other block has.
LEMMA FreshHeader ==
    ASSUME NEW f, NEW u, Layout(f, u), NEW c \in f,
           NEW p, Within(p, c), Inline(p), Base(c) < Base(p)
    PROVE  p.hdr # 0 /\ \A y \in f \cup u : y.hdr # p.hdr
<1>0. Consistent(f, u) /\ Headers(f, u)
  BY DEF Layout
<1>1. Sound(c) /\ Sound(p)
  BY <1>0, FreeSound DEF Within
<1>2. /\ Base(c) \in Nat /\ Base(p) = p.hdr /\ Base(p) \in Nat
      /\ p.addr \in Nat /\ p.size \in Nat /\ Base(p) < p.addr + p.size
  BY <1>1, SoundFields
<1>3. ASSUME NEW y \in f \cup u, ~Inline(y) PROVE y.hdr # p.hdr
  BY <1>0, <1>2, <1>3, HostElsewhere
<1>4. ASSUME NEW y \in f \cup u, Inline(y) PROVE y.hdr # p.hdr
  <2>1. /\ y.addr \in Nat /\ y.size \in Nat /\ Base(y) \in Nat
        /\ Base(y) < y.addr + y.size /\ Base(y) = y.hdr
    BY <1>0, <1>4, BlockFields
  <2>2. CASE y = c
    BY <1>2, <2>1, <2>2
  <2>3. CASE y # c
    <3>1. Apart(p, y)
      BY <1>0, <2>3, PieceApart
    <3> QED BY <1>2, <2>1, <3>1 DEF Apart
  <2> QED BY <2>2, <2>3
<1> QED BY <1>2, <1>3, <1>4

LEMMA OrderedCarve ==
    ASSUME NEW f, NEW u, Consistent(f, u), Ordered(f, u), NEW c \in f,
           NEW ch, Within(ch, c), ch.size > 0,
           NEW R, \A d \in R : Within(d, c),
           \A d \in R \cup {ch} : SameFront(d, c) \/ Inline(d),
           AllApart(R \cup {ch})
    PROVE  Ordered((f \ {c}) \cup R, u \cup {ch})
<1> DEFINE S == R \cup {ch}
           all == ((f \cup u) \ {c}) \cup S
<1>0. Sound(c) /\ c.freeable /\ \A p \in S : Within(p, c) /\ Sound(p)
  BY FreeSound DEF Within
<1>1. /\ c.addr \in Nat /\ c.size \in Nat /\ Base(c) \in Nat /\ Base(c) <= c.addr
      /\ Base(c) < c.addr + c.size /\ End(c) = c.addr + c.size
  BY <1>0, SoundFields
<1>2. ASSUME NEW y \in (f \cup u) \ {c}, NEW p \in S
      PROVE  /\ p.addr \in Nat /\ p.size \in Nat /\ Base(p) \in Nat
             /\ Base(p) < p.addr + p.size /\ End(p) = p.addr + p.size
             /\ Base(p) <= p.addr
             /\ Base(c) <= Base(p) /\ p.addr + p.size <= c.addr + c.size
             /\ c.addr + c.size <= Base(y) \/ y.addr + y.size <= Base(c)
  <2>1. Sound(p) /\ Within(p, c)
    BY <1>0
  <2>2. Apart(c, y)
    BY <1>0 DEF Consistent, AllApart
  <2> QED BY <2>1, <2>2, SoundFields DEF Within, Apart
<1>3. ASSUME NEW x \in u, x.addr = ch.addr PROVE FALSE
  <2>1. x \in (f \cup u) \ {c} /\ x.size > 0
    BY DEF Consistent, Ordered
  <2>2. /\ x.addr \in Nat /\ x.size \in Nat /\ Base(x) \in Nat /\ Base(x) <= x.addr
    BY <2>1, BlockFields
  <2> QED BY <1>1, <1>2, <1>3, <2>1, <2>2
<1>4. ASSUME NEW x \in all, NEW y \in all, x.freeable, y.freeable, ~Inline(x),
             End(y) = x.addr
      PROVE  FALSE
  <2>1. CASE x \notin S /\ y \notin S
    BY <1>4, <2>1 DEF Ordered
  <2>2. CASE x \in S /\ y \notin S
    <3>1. SameFront(x, c)
      BY <1>4, <2>2
    <3>2. x.addr = Base(x) /\ c.addr = Base(c) /\ ~Inline(c)
      BY <1>0, <1>4, <3>1, <2>2 DEF SameFront, Base
    <3>3. End(y) = c.addr
      BY <1>4, <3>1, <3>2 DEF SameFront
    <3> QED BY <1>0, <1>4, <2>2, <3>2, <3>3 DEF Ordered
  <2>3. CASE x \notin S /\ y \in S
    <3>1. Base(x) = x.addr /\ x.addr \in Nat /\ x.size \in Nat /\ Base(x) < x.addr + x.size
      BY <1>4, <2>3, BlockFields
    <3>2. x \in (f \cup u) \ {c}
      BY <2>3
    <3>3. /\ y.addr \in Nat /\ y.size \in Nat /\ Base(y) \in Nat
          /\ Base(y) < y.addr + y.size /\ End(y) = y.addr + y.size
          /\ Base(c) <= Base(y) /\ y.addr + y.size <= c.addr + c.size
          /\ c.addr + c.size <= Base(x) \/ x.addr + x.size <= Base(c)
      BY <1>2, <2>3, <3>2
    <3>4. End(c) = x.addr
      BY <1>1, <1>4, <3>1, <3>3
    <3> QED BY <1>0, <1>4, <2>3, <3>4 DEF Ordered
  <2>4. CASE x \in S /\ y \in S
    <3>1. x.addr = Base(x) /\ Base(x) = Base(c)
      BY <1>0, <1>4, <2>4 DEF SameFront, Base
    <3>2. Sound(y) /\ Base(c) <= Base(y)
      BY <1>0, <2>4 DEF Within
    <3>3. Base(y) < End(y) /\ Base(y) \in Nat /\ End(y) \in Nat
      BY <3>2, SoundFields
    <3> QED BY <1>1, <1>4, <3>1, <3>2, <3>3
  <2> QED BY <2>1, <2>2, <2>3, <2>4
<1>5. \A x \in u \cup {ch} : x.size > 0
  BY DEF Ordered
<1>6. \A x, y \in u \cup {ch} : x.addr = y.addr => x = y
  BY <1>3 DEF Ordered
<1>7. ((f \ {c}) \cup R) \cup (u \cup {ch}) = all
  BY DEF Consistent
<1> HIDE DEF all
<1> QED BY <1>4, <1>5, <1>6, <1>7 DEF Ordered

\* memory_alloc keeps the layout.
LEMMA ServeLayout ==
    ASSUME Layout(free, used), NEW r \in Requests, Clear(r),
           NEW c \in free, FirstFit(c, r)
    PROVE  /\ Carves(c, r)
           /\ Layout((free \ {c}) \cup Remains(c, r), used \cup {Chosen(c, r)})
<1>0. Consistent(free, used) /\ Headers(free, used) /\ Ordered(free, used)
  BY DEF Layout
<1> DEFINE f == (free \ {c}) \cup Remains(c, r)
           u == used \cup {Chosen(c, r)}
           S == Remains(c, r) \cup {Chosen(c, r)}
<1>1. Carves(c, r) /\ Consistent(f, u)
  BY <1>0, ServeConsistent
<1>2. Ordered(f, u)
  BY <1>0, <1>1, OrderedCarve DEF Carves
<1>3. f \cup u = ((free \cup used) \ {c}) \cup S
  BY <1>0 DEF Consistent
<1>4. AllApart(S) /\ \A p \in S : Within(p, c) /\ (SameFront(p, c) \/ Inline(p))
  BY <1>1 DEF Carves
<1> HIDE DEF f, u, S
<1>5. OwnHeaders(f \cup u) /\ Hosted(f \cup u, Freeable(BootUsed))
  BY <1>0, <1>3, <1>4, HeadersCarve
<1>6. Freeable(BootUsed) \subseteq u
  BY <1>0 DEF Headers, u
<1> QED BY <1>1, <1>2, <1>5, <1>6 DEF Layout, Headers, f, u

\* memory_free keeps the layout.
LEMMA FreeLayout ==
    ASSUME Layout(free, used), NEW c \in used, c.freeable, c \notin Freeable(BootUsed)
    PROVE  Layout((free \ (Below(c) \cup Above(c))) \cup {Freed(c)}, used \ {c})
<1>0. Consistent(free, used) /\ Headers(free, used) /\ Ordered(free, used)
  BY DEF Layout
<1> DEFINE A == Below(c) \cup Above(c) \cup {c}
           g == Freed(c)
           f == (free \ (Below(c) \cup Above(c))) \cup {g}
           u == used \ {c}
<1>1. Consistent(f, u)
  BY <1>0, FreedConsistent
<1>2. Below(c) \subseteq free /\ Above(c) \subseteq free /\ A \subseteq free \cup used
  BY DEF Below, NextOf, Above, PrevOf
<1>3. f \cup u = ((free \cup used) \ A) \cup {g}
  BY <1>0, <1>2 DEF Consistent
<1>4. PICK a \in A : a.freeable /\ SameFront(g, a)
  <2>1. SameFront(g, Grown(c))
    BY <1>0, FreedShape
  <2>2. CASE Below(c) = {} /\ Grown(c) = c
    BY <2>1, <2>2
  <2>3. CASE \E n \in free : Below(c) = {n} /\ SameFront(Grown(c), n)
    <3>1. PICK n \in free : Below(c) = {n} /\ SameFront(Grown(c), n)
      BY <2>3
    <3> QED BY <1>0, <2>1, <3>1, FreeSound DEF SameFront
  <2> QED BY <1>0, <2>2, <2>3, FreedShape
<1>5. PICK b \in A : b.freeable /\ End(g) = End(b)
  <2>1. Sound(c) /\ Sound(Grown(c)) /\ Sound(g)
        /\ Grown(c).addr + Grown(c).size = c.addr + c.size
    BY <1>0, FreedShape
  <2>2. End(g) = g.addr + g.size /\ End(Grown(c)) = Grown(c).addr + Grown(c).size
        /\ End(c) = c.addr + c.size
    BY <2>1, SoundFields
  <2>3. CASE Above(c) = {} /\ g = Grown(c)
    BY <2>1, <2>2, <2>3
  <2>4. CASE \E p \in free : Above(c) = {p} /\ g.addr + g.size = p.addr + p.size
    <3>1. PICK p \in free : Above(c) = {p} /\ g.addr + g.size = p.addr + p.size
      BY <2>4
    <3>2. p.freeable /\ End(p) = p.addr + p.size
      BY <1>0, FreeSound, SoundFields
    <3> QED BY <2>2, <3>1, <3>2
  <2> QED BY <1>0, <2>3, <2>4, FreedShape
<1>6. g.addr = a.addr
  <2>1. Sound(g) /\ Sound(a)
    BY <1>0, <1>2, <1>4, FreedShape, ConsistentSound
  <2>2. Inline(g) => g.addr = g.hdr + OVERHEAD
    BY <2>1, SoundFields
  <2>3. Inline(a) => a.addr = a.hdr + OVERHEAD
    BY <2>1, SoundFields
  <2> QED BY <1>4, <2>2, <2>3 DEF SameFront, Base
<1> HIDE DEF A, g
<1>7. Ordered(f, u)
  <2> SUFFICES ASSUME NEW x \in (free \cup used) \cup {g}, NEW y \in (free \cup used) \cup {g},
                      x.freeable, y.freeable, ~Inline(x), End(y) = x.addr
               PROVE  FALSE
    BY <1>0 DEF Ordered
  <2>1. PICK z \in free \cup used : z.freeable /\ ~Inline(z) /\ z.addr = x.addr
    BY <1>2, <1>4, <1>6 DEF SameFront
  <2>2. PICK t \in free \cup used : t.freeable /\ End(t) = End(y)
    BY <1>2, <1>5
  <2> QED BY <1>0, <2>1, <2>2 DEF Ordered
<1> HIDE DEF f, u
<1>8. OwnHeaders(f \cup u) /\ Hosted(f \cup u, Freeable(BootUsed))
  BY <1>0, <1>2, <1>3, <1>4, HeadersJoin DEF Headers
<1>9. Freeable(BootUsed) \subseteq u
  BY <1>0 DEF Headers, u
<1> QED BY <1>1, <1>7, <1>8, <1>9 DEF Layout, Headers, f, u, g

\* d is a block of its own above c, with no free block between them.
Settles(d, c) ==
    /\ d \in Container /\ d.hdr # 0 /\ \A y \in free \cup used : y.hdr # d.hdr
    /\ d.addr > c.addr /\ \A y \in free : y.addr > c.addr => y.addr > d.addr

LEMMA PieceSettles ==
    ASSUME Layout(free, used), NEW c \in free, NEW d, Within(d, c), Inline(d),
           c.addr <= Base(d), Base(c) < Base(d)
    PROVE  Settles(d, c)
<1>0. Consistent(free, used) /\ Ordered(free, used)
  BY DEF Layout
<1>1. Sound(d) /\ Sound(c) /\ d \in Container
  BY <1>0, FreeSound DEF Within, Sound
<1>2. d.addr = d.hdr + OVERHEAD /\ Base(d) = d.hdr /\ d.hdr \in Nat /\ c.addr \in Nat
      /\ OVERHEAD \in Nat \ {0}
  BY <1>1, SoundFields, OverheadAssumption
<1>3. d.addr > c.addr
  BY <1>2
<1> QED BY <1>0, <1>1, <1>3, FreshHeader, NoneBetween DEF Settles

\* Where memory_alloc puts the pieces.
LEMMA ServePlaces ==
    ASSUME Layout(free, used), NEW r \in Requests, Clear(r),
           NEW c \in free, FirstFit(c, r)
    PROVE  /\ \A y \in used : y.addr # Chosen(c, r).addr
           /\ \/ ExactFit(c, r)
              \/ /\ ~ExactFit(c, r) /\ Start(c, r) = c.addr
                 /\ HeadLower(c, r.size) \in Container
                 /\ Settles(HeadUpper(c, r.size), c)
              \/ LET tail == TailUpper(c, Start(c, r))
                     rest == HeadUpper(tail, r.size)
                 IN  /\ ~ExactFit(c, r) /\ r.align # 0 /\ ~OnEdge(c, r)
                     /\ TailLower(c, Start(c, r)) \in Container
                     /\ HeadLower(tail, r.size) \in Container
                     /\ Settles(tail, c) /\ Settles(rest, c)
                     /\ rest.addr > tail.addr /\ rest.hdr # tail.hdr
<1>0. Consistent(free, used) /\ Headers(free, used) /\ Ordered(free, used)
  BY DEF Layout
<1>1. Sound(c)
  BY <1>0, FreeSound
<1>2. Carves(c, r)
  BY ServeLayout
<1>3. ASSUME NEW y \in used, y.addr = Chosen(c, r).addr PROVE FALSE
  <2> DEFINE p == Chosen(c, r)
  <2>1. Within(p, c) /\ p.size > 0 /\ y # c /\ y.size > 0
    BY <1>0, <1>2 DEF Carves, Consistent, Ordered
  <2> HIDE DEF p
  <2>2. Apart(p, y)
    BY <1>0, <2>1, PieceApart
  <2>3. /\ p.addr \in Nat /\ p.size \in Nat /\ Base(p) \in Nat /\ Base(p) <= p.addr
    BY <2>1, SoundFields DEF Within
  <2>4. /\ y.addr \in Nat /\ y.size \in Nat /\ Base(y) \in Nat /\ Base(y) <= y.addr
    BY <1>0, BlockFields
  <2>5. y.addr = p.addr
    BY <1>3 DEF p
  <2> QED BY <2>1, <2>2, <2>3, <2>4, <2>5 DEF Apart
<1>4. /\ r.size \in Nat /\ r.size > 0 /\ OVERHEAD \in Nat \ {0}
      /\ c.addr \in Nat /\ c.size \in Nat /\ Base(c) \in Nat /\ Base(c) <= c.addr
  BY <1>1, SoundFields, RequestsAssumption, WAssumption, OverheadAssumption DEF Word, Clear
<1>5. CASE ~ExactFit(c, r) /\ Start(c, r) = c.addr /\ r.size + OVERHEAD <= c.size
  <2> DEFINE upper == HeadUpper(c, r.size)
  <2>1. /\ Within(HeadLower(c, r.size), c) /\ Within(upper, c)
        /\ Inline(upper) /\ Base(upper) = c.addr + r.size
    BY <1>1, <1>4, <1>5, SplitHead
  <2>2. HeadLower(c, r.size) \in Container
    BY <2>1 DEF Within, Sound
  <2> HIDE DEF upper
  <2>3. c.addr <= Base(upper) /\ Base(c) < Base(upper)
    BY <1>4, <2>1
  <2>4. Settles(upper, c)
    BY <2>1, <2>3, PieceSettles
  <2> QED BY <1>3, <1>5, <2>2, <2>4 DEF upper
<1>6. CASE /\ ~ExactFit(c, r) /\ r.align # 0 /\ ~OnEdge(c, r)
           /\ Start(c, r) \in Nat
           /\ c.addr + OVERHEAD <= Start(c, r)
           /\ Inline(c) \/ c.addr + OVERHEAD < Start(c, r)
           /\ Start(c, r) + r.size + OVERHEAD <= c.addr + c.size
  <2> DEFINE a == Start(c, r)
             tail == TailUpper(c, a)
             mid == HeadLower(tail, r.size)
             rest == HeadUpper(tail, r.size)
  <2>1. a \in Nat /\ c.addr + OVERHEAD <= a /\ a < c.addr + c.size
        /\ (Inline(c) \/ c.addr + OVERHEAD < a)
        /\ a + r.size + OVERHEAD <= c.addr + c.size
    <3>1. a \in Nat /\ c.addr + OVERHEAD <= a /\ a + r.size + OVERHEAD <= c.addr + c.size
      BY <1>6
    <3> HIDE DEF a
    <3>2. a < c.addr + c.size
      BY <1>4, <3>1
    <3> QED BY <1>6, <3>1, <3>2 DEF a
  <2> HIDE DEF a
  <2>2. /\ Within(TailLower(c, a), c) /\ Within(tail, c)
        /\ Inline(tail) /\ Base(tail) = a - OVERHEAD /\ tail.addr = a
        /\ tail.addr + tail.size = c.addr + c.size
    BY <1>1, <2>1, SplitTail
  <2>3. TailLower(c, a) \in Container /\ Sound(tail)
    BY <2>2 DEF Within, Sound
  <2> HIDE DEF tail
  <2>4. tail.addr \in Nat /\ tail.size \in Nat /\ tail.hdr = Base(tail)
    BY <2>2, <2>3, SoundFields
  <2>5. r.size + OVERHEAD <= tail.size
    BY <1>4, <2>1, <2>2, <2>4
  <2>6. /\ Within(mid, tail) /\ Within(rest, tail)
        /\ Inline(rest) /\ Base(rest) = tail.addr + r.size
        /\ rest.addr = tail.addr + r.size + OVERHEAD
    BY <1>4, <2>3, <2>5, SplitHead
  <2>7. mid \in Container
    BY <2>6 DEF Within, Sound
  <2> HIDE DEF mid, rest
  <2>8. Within(rest, c)
    BY <1>1, <2>2, <2>6, WithinTransitive
  <2>9. c.addr <= Base(rest) /\ Base(c) < Base(rest)
        /\ rest.addr > tail.addr /\ rest.hdr # tail.hdr
    <3>1. rest.hdr = Base(rest)
      BY <2>6, SoundFields DEF Within
    <3> QED BY <1>4, <2>1, <2>2, <2>4, <2>6, <3>1
  <2>10. Settles(rest, c)
    BY <2>6, <2>8, <2>9, PieceSettles
  <2>11. Settles(tail, c)
    <3>1. c.addr <= Base(tail)
      BY <1>4, <2>1, <2>2
    <3>2. Base(c) < Base(tail)
      <4>1. CASE Inline(c)
        <5>1. c.addr = c.hdr + OVERHEAD /\ Base(c) = c.hdr /\ c.hdr \in Nat
          BY <1>1, <4>1, SoundFields
        <5> QED BY <1>4, <2>1, <2>2, <5>1
      <4>2. CASE ~Inline(c)
        <5>1. Base(c) = c.addr
          BY <4>2 DEF Base
        <5> QED BY <1>4, <2>1, <2>2, <4>2, <5>1
      <4> QED BY <4>1, <4>2
    <3> QED BY <2>2, <3>1, <3>2, PieceSettles
  <2>12. LET t == TailUpper(c, Start(c, r))
             e == HeadUpper(t, r.size)
         IN  /\ TailLower(c, Start(c, r)) \in Container
             /\ HeadLower(t, r.size) \in Container
             /\ Settles(t, c) /\ Settles(e, c)
             /\ e.addr > t.addr /\ e.hdr # t.hdr
    BY <2>3, <2>7, <2>9, <2>10, <2>11 DEF a, tail, mid, rest
  <2> QED BY <1>3, <1>6, <2>12
<1> QED BY <1>1, <1>3, <1>5, <1>6, ServeWays DEF Clear, FirstFit
=============================================================================
