----------------------------- MODULE MCMemory ------------------------------
(***************************************************************************)
(* A machine of 64 addresses for Memory: RAM below the kernel, the kernel  *)
(* at 16..23, RAM above it up to 55 and a reserved region at the top.  The *)
(* lists are those memory_init leaves there: three small blocks, taken     *)
(* from the RAM above the kernel, hold the containers of the reserved      *)
(* regions, which are the kernel, the region at the top and video memory.  *)
(***************************************************************************)
EXTENDS Memory

Block(h, a, s) == [hdr |-> h, addr |-> a, size |-> s, freeable |-> TRUE]
Fixed(h, a, s) == [hdr |-> h, addr |-> a, size |-> s, freeable |-> FALSE]

MCBootFree == {Block(4, 6, 10), Block(36, 38, 18)}
MCBootUsed == {Block(24, 26, 2), Block(28, 30, 2), Block(32, 34, 2),
               Fixed(26, 56, 8), Fixed(30, 16, 8), Fixed(34, 58, 4)}

Ask(s, l, a) == [size |-> s, limit |-> l, align |-> a]

\* Plain and limited requests, one aligned to its own size as the kernel's
\* page tables are, one to three (not a power of two).
MCRequests == {Ask(1, 0, 0), Ask(4, 0, 0), Ask(3, 12, 0), Ask(4, 0, 4), Ask(4, 0, 3)}

\* A hole of five bytes, and an aligned request that fits it but for headers.
MCNearRequests == {Ask(5, 0, 0), Ask(4, 0, 4)}

\* Requests that use up the highest free block.
MCTopRequests == {Ask(6, 0, 0), Ask(10, 0, 2)}
=============================================================================
