---------------------------- MODULE MCMemoryInit ---------------------------
(***************************************************************************)
(* Memory maps of a machine of 64 addresses for MemoryInit: video memory   *)
(* at 12..15, the kernel at 20..25.                                        *)
(***************************************************************************)
EXTENDS MemoryInit

MCKernel == [address |-> 20, size |-> 6]
MCGraphics == [address |-> 12, size |-> 4]

RAMAt(a, b) == [address |-> a, length |-> b - a, type |-> 1]
ReservedAt(a, b) == [address |-> a, length |-> b - a, type |-> 2]

\* Places before, in, at the ends of and behind video memory and the kernel, and
\* all sound maps of two entries between them: entries that touch, that lie in,
\* reach into, contain or begin in one of the two, and reserved ones over RAM.
Places == {0, 8, 10, 11, 12, 14, 16, 18, 20, 23, 26, 44, 64}
Spans == {s \in Places \X Places : s[1] < s[2]}
Entries == {RAMAt(s[1], s[2]) : s \in Spans} \cup {ReservedAt(s[1], s[2]) : s \in Spans}
Pairs == {maps \in Entries \X Entries : Sound(maps)}

\* Low RAM below video memory, reaching into it, around it, or beginning in it.
Low == {RAMAt(0, 10), RAMAt(0, 12), RAMAt(0, 14), RAMAt(0, 19), RAMAt(13, 19)}

\* RAM that starts before the kernel and goes on after it, that starts with it
\* or in it, and that starts after it.
High == {RAMAt(16, 44), RAMAt(20, 44), RAMAt(22, 44), RAMAt(26, 44)}

Around == {<<>>, <<RAMAt(16, 23)>>, <<RAMAt(20, 25)>>, <<RAMAt(16, 20)>>}

\* Further RAM apart from the rest and touching it, and reserved regions.
Top == {<<>>, <<RAMAt(46, 58)>>, <<RAMAt(44, 58)>>, <<RAMAt(46, 58), ReservedAt(60, 64)>>,
        <<ReservedAt(50, 64)>>, <<RAMAt(46, 58), ReservedAt(44, 46)>>}

\* A reserved region, reported last, anywhere over a block of RAM below the
\* one that the containers come from.
ReservedMaps == {<<l, RAMAt(26, 38), RAMAt(42, 62), ReservedAt(a, b)>> :
                   l \in {RAMAt(0, 12), RAMAt(0, 19)},
                   a \in {24, 28, 29, 34}, b \in {36, 37, 40}}

MCMaps ==
    {maps \in {<<l, h>> \o t : l \in Low, h \in High, t \in Top}
               \cup {<<l>> \o a \o <<RAMAt(26, 44)>> \o t : l \in Low, a \in Around, t \in Top} :
        Sound(maps)}
    \cup ReservedMaps \cup Pairs
=============================================================================
