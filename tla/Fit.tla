-------------------------------- MODULE Fit --------------------------------
(***************************************************************************)
(* Containers and the arithmetic of memory_alloc: which free container can *)
(* serve a request for "size" bytes below "limit", aligned on "align".     *)
(* Shared by the two models of the memory manager: Memory, where a list is *)
(* a set, and MemoryHeap, where it is pointers.                            *)
(***************************************************************************)
EXTENDS Words

CONSTANT OVERHEAD   \* MEMORY_OVERHEAD: bytes of a container and its area record

ASSUME OverheadAssumption == OVERHEAD \in Nat \ {0} /\ 2 * OVERHEAD < W

\* hdr is the address of the container itself, addr and size are its area.
Container == [hdr : Word, addr : Word, size : Word, freeable : BOOLEAN]

Area == [address : Word, size : Word]

NoArea == [address |-> 0, size |-> 0]

AreaOf(c) == [address |-> c.addr, size |-> c.size]

\* The container directly precedes its area; memory_init also makes
\* containers whose header lies in a block of its own.
Inline(c) == Add(c.hdr, OVERHEAD) = c.addr

End(c) == Add(c.addr, c.size)

-----------------------------------------------------------------------------
(* memory_alloc: which containers can serve a request.                     *)

\* The power-of-two branch and the modulo branch compute the same values.
Rounded(c, r) == Add(c.addr, r.align - 1)
Skipped(c, r) == r.align - 1 - (Rounded(c, r) % r.align)
Start(c, r)   == IF r.align = 0 THEN c.addr
                 ELSE Rounded(c, r) - (Rounded(c, r) % r.align)

\* Variant: the limit is taken for one of the area's start.
WithinLimitOfStart(c, r) == r.limit = 0 \/ Start(c, r) <= r.limit

WithinLimit(c, r) == r.limit = 0 \/ Add(Start(c, r), r.size) <= r.limit

OnEdge(c, r) == \/ Start(c, r) = c.addr
                \/ Add(Start(c, r), r.size) = End(c)

\* Variant: the header of the rest is not counted.
PlainFitNoHeader(c, r) == r.align = 0 /\ c.size >= r.size

PlainFit(c, r) == r.align = 0 /\ c.size >= Add(r.size, OVERHEAD)

ExactFit(c, r) == r.align # 0 /\ c.size = r.size /\ Start(c, r) = c.addr

EdgeFit(c, r) ==
    /\ r.align # 0 /\ c.size > r.size /\ OnEdge(c, r)
    /\ Sub(Sub(c.size, Skipped(c, r)), OVERHEAD) >= r.size

MiddleFit(c, r) ==
    /\ r.align # 0 /\ c.size > r.size /\ ~OnEdge(c, r)
    /\ Skipped(c, r) >= OVERHEAD
    /\ Sub(Sub(c.size, Skipped(c, r)), 2 * OVERHEAD) >= r.size

Serves(c, r) ==
    /\ WithinLimit(c, r)
    /\ PlainFit(c, r) \/ ExactFit(c, r) \/ EdgeFit(c, r) \/ MiddleFit(c, r)
=============================================================================
