------------------------------- MODULE Memory -------------------------------
(***************************************************************************)
(* The physical memory manager of kernel5, src/kernel/memory.c.            *)
(*                                                                         *)
(* The C code keeps every block of RAM in a container and every container  *)
(* on one of two lists, list_free and list_used, both sorted by descending *)
(* address.  Here a list is the set of its containers: the order is that   *)
(* of the addresses, "next" is the container just below and "prev" the one *)
(* just above.  The arithmetic is that of the code, unsigned and wrapping. *)
(* MemoryList models the pointers and is shown to implement this module.   *)
(*                                                                         *)
(* Each call runs under lock_memory from its first statement to its last   *)
(* access to a list, so each call is one action.                           *)
(***************************************************************************)
EXTENDS Fit, FiniteSets

CONSTANTS
    BootFree,   \* containers memory_init leaves on list_free
    BootUsed,   \* containers memory_init leaves on list_used
    Requests    \* the [size, limit, align] triples callers pass to memory_alloc

ASSUME RequestsAssumption ==
    Requests \subseteq [size : Word, limit : Word, align : Word]

VARIABLES
    free,       \* the containers on list_free
    used,       \* the containers on list_used
    result,     \* the area the last memory_alloc returned
    halted      \* a caller of memory_free has been stopped with cli; hlt

vars == <<free, used, result, halted>>

-----------------------------------------------------------------------------
(* memory_alloc: the container that serves a request.                      *)

\* The walk over list_free stops at the first container that serves.
FirstFit(c, r) ==
    /\ Serves(c, r)
    /\ \A d \in free : Serves(d, r) => d.addr <= c.addr

-----------------------------------------------------------------------------
(* memory_split, its two cases.                                            *)

\* [ size ][ ... ]: the container keeps the lower part.
HeadLower(c, size) == [c EXCEPT !.size = size]
HeadUpper(c, size) ==
    [hdr      |-> Add(c.addr, size),
     addr     |-> Add(Add(c.addr, size), OVERHEAD),
     size     |-> Sub(Sub(c.size, size), OVERHEAD),
     freeable |-> TRUE]

\* [ ... ][ size ]: a new container takes everything from address on.
\* Variant: the lower part keeps the header of the upper one.
TailLowerKeepsHeader(c, address) == [c EXCEPT !.size = Sub(address, c.addr)]
TailLower(c, address) ==
    [c EXCEPT !.size = Sub(Sub(address, c.addr), OVERHEAD)]
TailUpper(c, address) ==
    [hdr      |-> Sub(address, OVERHEAD),
     addr     |-> address,
     size     |-> Add(Sub(c.size, address), c.addr),
     freeable |-> TRUE]

\* The container handed out when c serves r, and what stays free of c.
Chosen(c, r) ==
    IF ExactFit(c, r) THEN c
    ELSE IF Start(c, r) = c.addr THEN HeadLower(c, r.size)
    ELSE IF OnEdge(c, r) THEN TailUpper(c, Start(c, r))
    ELSE HeadLower(TailUpper(c, Start(c, r)), r.size)

\* Variant: an empty rest is not put back.
RemainsDropsEmpty(c, r) ==
    IF ExactFit(c, r) THEN {}
    ELSE {d \in {HeadUpper(c, r.size)} : d.size > 0}

Remains(c, r) ==
    IF ExactFit(c, r) THEN {}
    ELSE IF Start(c, r) = c.addr THEN {HeadUpper(c, r.size)}
    ELSE IF OnEdge(c, r) THEN {TailLower(c, Start(c, r))}
    ELSE {TailLower(c, Start(c, r)),
          HeadUpper(TailUpper(c, Start(c, r)), r.size)}

-----------------------------------------------------------------------------
(* memory_free: merging with the neighbours on list_free.                  *)

\* container->next and container->prev once c is inserted.
NextOf(c) == {n \in free : /\ n.addr <= c.addr
                           /\ \A m \in free : m.addr <= c.addr => m.addr <= n.addr}
PrevOf(c) == {p \in free : /\ p.addr > c.addr
                           /\ \A m \in free : m.addr > c.addr => p.addr <= m.addr}

\* c becomes the first element of list_free.
IsHead(c) == \A p \in free : p.addr <= c.addr

\* lower takes over the bytes of upper, its header included.
\* Variant: the header of the upper block is lost.
MergeLosesHeader(lower, upper) == [lower EXCEPT !.size = Add(@, upper.size)]

Merge(lower, upper) ==
    [lower EXCEPT !.size = Add(@, Add(OVERHEAD, upper.size))]

Below(c) == {n \in NextOf(c) : Inline(c) /\ End(n) = c.hdr}

Grown(c) == IF Below(c) = {} THEN c ELSE Merge(CHOOSE n \in Below(c) : TRUE, c)

\* Variant: at most one neighbour is merged.
AboveUnlessBelow(c) == {p \in PrevOf(c) : /\ Below(c) = {} /\ Inline(p)
                                         /\ End(c) = p.hdr}

Above(c) == {p \in PrevOf(c) : Inline(p) /\ End(Grown(c)) = p.hdr}

Freed(c) == IF Above(c) = {} THEN Grown(c)
            ELSE Merge(Grown(c), CHOOSE p \in Above(c) : TRUE)

\* Merging with next does not advance list_free: a merged container that is
\* the first element stays there, with the size of the merged block.
Stale(c) == IF Below(c) # {} /\ IsHead(c)
            THEN {[c EXCEPT !.size = Grown(c).size]} ELSE {}

-----------------------------------------------------------------------------
Init == /\ free = BootFree
        /\ used = BootUsed
        /\ result = NoArea
        /\ halted = FALSE

Alloc(r) ==
    /\ \E c \in free :
         /\ FirstFit(c, r)
         /\ free' = (free \ {c}) \cup Remains(c, r)
         /\ used' = used \cup {Chosen(c, r)}
         /\ result' = AreaOf(Chosen(c, r))
    /\ UNCHANGED halted

AllocFails(r) ==
    /\ \A c \in free : ~Serves(c, r)
    /\ result' = NoArea
    /\ UNCHANGED <<free, used, halted>>

Free(area) ==
    /\ \E c \in used :
         /\ AreaOf(c) = area
         /\ c.freeable
         /\ used' = used \ {c}
         /\ free' = (free \ (Below(c) \cup Above(c))) \cup {Freed(c)} \cup Stale(c)
    /\ UNCHANGED <<result, halted>>

\* The area is not on list_used, or may not be freed: cli; hlt, for ever.
FreeInvalid(area) ==
    /\ \A c \in used : AreaOf(c) = area => ~c.freeable
    /\ halted' = TRUE
    /\ UNCHANGED <<free, used, result>>

\* What callers pass to memory_free: areas of used blocks, areas freed
\* already, and the empty area of a failed memory_alloc (kernel.c:143).  The
\* blocks that hold memory_init's own containers are known to no caller.
CallerAreas == {AreaOf(c) : c \in (free \cup used) \ {d \in BootUsed : d.freeable}}
               \cup {NoArea}

Next == \/ \E r \in Requests : Alloc(r) \/ AllocFails(r)
        \/ \E area \in CallerAreas : Free(area) \/ FreeInvalid(area)

Spec == Init /\ [][Next]_vars

-----------------------------------------------------------------------------
(* What the callers have to keep clear of.  The largest sizes wrap when the *)
(* header is added, and fit everywhere.  The aligned search computes       *)
(* "size - skipped_bytes - overhead" in unsigned words, which wraps when a *)
(* free block is larger than the request but smaller than the request with *)
(* its alignment gap and headers; and merging a block with the free block  *)
(* below it forgets list_free when the merged block is its first element,  *)
(* which takes an exact fit of the highest free block.  EmptyRest leaves a *)
(* free block without a byte, which is harmless but has no place in the    *)
(* order of the addresses; nor has an area for a request for nothing.      *)

NearFit(c, r) == /\ r.align # 0
                 /\ c.size > r.size
                 /\ c.size < r.align - 1 + 2 * OVERHEAD

TakesTop(c, r) == ExactFit(c, r) /\ IsHead(c)

EmptyRest(c, r) == MiddleFit(c, r) /\ ~Inline(c) /\ Skipped(c, r) = OVERHEAD

Clear(r) ==
    /\ r.size > 0
    /\ r.size + OVERHEAD < W
    /\ \A c \in free : ~NearFit(c, r) /\ ~TakesTop(c, r) /\ ~EmptyRest(c, r)

ClearNext == \/ \E r \in Requests : Clear(r) /\ (Alloc(r) \/ AllocFails(r))
             \/ \E area \in CallerAreas : Free(area) \/ FreeInvalid(area)

ClearSpec == Init /\ [][ClearNext]_vars

-----------------------------------------------------------------------------
(* Correctness.                                                            *)

\* The bytes of a block: its area, and its header where it precedes the area.
Base(c) == IF Inline(c) THEN c.hdr ELSE c.addr
Footprint(c) == Base(c) .. (c.addr + c.size - 1)

Apart(c, d) == c.addr + c.size <= Base(d) \/ d.addr + d.size <= Base(c)

\* No block runs past the end of the address space, and a header that
\* precedes its area does so without wrapping around.
Placed(blocks) == \A c \in blocks :
    /\ c.addr + c.size <= W
    /\ c.freeable => c.addr + c.size < W
    /\ Inline(c) => c.hdr + OVERHEAD = c.addr

\* Two blocks share no byte of their areas or headers, unless both are
\* regions the firmware reserved, which may overlap.
AllApart(blocks) ==
    \A c, d \in blocks : c # d /\ (c.freeable \/ d.freeable) => Apart(c, d)

\* list_free holds RAM only, an area in use is not empty, and no block is
\* empty, header and area together.
Usable(f, u) == /\ \A c \in f : c.freeable
                /\ \A c \in u : c.freeable => c.size > 0
                /\ \A c \in f \cup u : Base(c) < c.addr + c.size

\* Above every block that may be freed lies a free block.
RoomAbove(f, u) == \A c \in u : c.freeable => \E d \in f : d.addr > c.addr

Consistent(f, u) == /\ f \subseteq Container /\ u \subseteq Container
                    /\ f \cap u = {}
                    /\ Placed(f \cup u)
                    /\ AllApart(f \cup u)
                    /\ Usable(f, u)
                    /\ RoomAbove(f, u)

ASSUME BootAssumption == Consistent(BootFree, BootUsed)

\* No free block ends where another one begins.
Merged(f) == \A c, d \in f : Inline(d) => End(c) # d.hdr

\* Every block has a container of its own, which precedes its area or lies in
\* one of the blocks held.
OwnHeaders(blocks) == \A c, d \in blocks : c.hdr = d.hdr => c = d
Hosted(blocks, held) ==
    \A c \in blocks :
        Inline(c) \/ \E h \in held : c.hdr \in h.addr .. (h.addr + h.size - 1)

\* What the order of the addresses takes: areas in use are not empty and begin
\* at addresses of their own, and a block of RAM whose container lies elsewhere
\* does not begin where another block of RAM ends (memory_init makes such blocks
\* behind the kernel and behind reserved regions only).
Ordered(f, u) ==
    /\ \A c \in u : c.size > 0
    /\ \A c, d \in u : c.addr = d.addr => c = d
    /\ \A c, d \in f \cup u :
         c.freeable /\ d.freeable /\ ~Inline(c) => End(d) # c.addr

\* Every container, list and result is a value of its C type.
TypeOK == /\ free \subseteq Container
          /\ used \subseteq Container
          /\ result \in Area
          /\ halted \in BOOLEAN

\* memory_alloc hands out no byte twice, and no header lies in an area: the
\* blocks of list_free and list_used never overlap, however the calls split
\* and merge them.
NoOverlap == free \cap used = {} /\ AllApart(free \cup used)

\* The block memory_free puts back is never the first element of list_free,
\* so the merge with its neighbour below leaves no stale first element.
NoStaleHead == \A c \in used : c.freeable => Stale(c) = {}

\* The inductive invariant.
IInv == TypeOK /\ Consistent(free, used)

\* memory_free merges eagerly: where memory_init left no free block that ends
\* where another one begins, there is none, whatever the order of the calls.
Coalesced == Merged(free)

\* No byte is lost and none appears: splitting and merging keep the bytes
\* memory_init handed over, headers included.
Conserved == UNION {Footprint(c) : c \in free \cup used}
                = UNION {Footprint(c) : c \in BootFree \cup BootUsed}

\* "There is one list for allocated blocks and one list for free blocks": no
\* byte of an area handed out is in a free block as well.
UsedIsNotFree == \A c \in used, d \in free : c.freeable => Apart(c, d)

\* The free blocks themselves are disjoint: a merged block is one block.
FreeApart == AllApart(free)

-----------------------------------------------------------------------------
(* The allocator promised to the callers.                                  *)

Promise == INSTANCE Allocator WITH
    RAM  <- UNION {Footprint(c) : c \in {b \in BootFree \cup BootUsed : b.freeable}},
    Held <- {AreaOf(c) : c \in {b \in BootUsed : b.freeable}},
    live <- {AreaOf(c) : c \in {b \in used : b.freeable}}

\* Under callers that stay clear of the near fits, every memory_alloc returns
\* an area of the size, alignment and limit asked for that nobody owns, and
\* every memory_free takes back exactly the area it is given.  That includes
\* alignments that are no power of two, of which kernel5.tex says that the result
\* is "complete garbage": their branch (memory.c:377) rounds with the remainder.
KeepsPromise == Promise!ASpec
=============================================================================
