---------------------------- MODULE MCMemoryList ---------------------------
(***************************************************************************)
(* MCMemory's machine for the pointer model, with fewer requests.          *)
(***************************************************************************)
EXTENDS MemoryList

Block(h, a, s) == [hdr |-> h, addr |-> a, size |-> s, freeable |-> TRUE]
Fixed(h, a, s) == [hdr |-> h, addr |-> a, size |-> s, freeable |-> FALSE]

MCBootFree == {Block(4, 6, 10), Block(36, 38, 18)}
MCBootUsed == {Block(24, 26, 2), Block(28, 30, 2), Block(32, 34, 2),
               Fixed(26, 56, 8), Fixed(30, 16, 8), Fixed(34, 58, 4)}

Ask(s, l, a) == [size |-> s, limit |-> l, align |-> a]

MCRequests == {Ask(2, 0, 0), Ask(3, 12, 0), Ask(4, 0, 4)}
=============================================================================
