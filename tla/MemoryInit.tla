----------------------------- MODULE MemoryInit ----------------------------
(***************************************************************************)
(* memory_init: from the memory map of the boot loader to list_free and    *)
(* list_used.  One action per entry of the map, per block added for the    *)
(* kernel and for video memory, and per pair of a used and a free block    *)
(* that the overlap pass looks at.  It runs on the boot processor before   *)
(* any other, so nothing interleaves with it.                              *)
(***************************************************************************)
EXTENDS MemoryHeap

CONSTANTS
    Maps,       \* the memory maps: sequences of [address, length, type]
    Kernel,     \* [address, size] from kernel_area_begin to kernel_area_end
    Graphics,   \* [address, size] of video memory, 0xa0000 and 0x60000
    LowPage     \* 0x1000: RAM at address 0 starts after the first page

\* The kernel is loaded above video memory.
ASSUME KernelAssumption == /\ Graphics.address + Graphics.size <= Kernel.address
                           /\ Kernel.address + Kernel.size < W /\ Kernel.size > 0

VARIABLES
    map,        \* the memory map, constant
    heap,       \* list_free, list_used and the containers
    pc,         \* where memory_init is
    entry,      \* index of the next entry of the map
    u, f        \* the iterators "used" and "free" of the overlap pass

vars == <<map, heap, pc, entry, u, f>>

KernelEnd == Kernel.address + Kernel.size

Usable(m) == m.type = 1

-----------------------------------------------------------------------------
\* A container of its own block: memory_alloc(MEMORY_OVERHEAD, 0, 0), fields,
\* memory_move_from_to(container, NULL, list).
Described(h, addr, size, freeable, list) ==
    LET got == memory_alloc(h, [size |-> OVERHEAD, limit |-> 0, align |-> 0])
        at  == got.heap.node[got.at].addr
    IN  memory_move_from_to(Write(got.heap, at, Fresh(addr, size, freeable)),
                            at, "none", list)

\* memory_check_area stops the machine when that allocation fails.
CanDescribe(h) ==
    memory_alloc(h, [size |-> OVERHEAD, limit |-> 0, align |-> 0]).at # NULL

\* The fields of the map have 64 bits, so the end of an entry does not wrap.

\* The part of the entry above the kernel, when the entry contains it all.
SplitByKernel(m) == /\ m.address < Kernel.address
                    /\ m.address + m.length > KernelEnd

\* The kernel covers the entry.
InsideKernel(m) == /\ m.address >= Kernel.address /\ m.address < KernelEnd
                   /\ m.address + m.length <= KernelEnd

\* The rest of the entry once the kernel is cut out.
WithoutKernel(m) ==
    IF m.address >= Kernel.address /\ m.address < KernelEnd
    THEN [m EXCEPT !.length = Sub(@, KernelEnd - m.address), !.address = KernelEnd]
    ELSE IF m.address < Kernel.address /\ m.address + m.length > Kernel.address
    THEN [m EXCEPT !.length = Kernel.address - m.address]
    ELSE m

\* Variant: the address moves and the length stays.
WithoutLowPageKeepsLength(m) ==
    IF m.address = 0 THEN [m EXCEPT !.address = LowPage] ELSE m

\* "skip first 4 KiB".
WithoutLowPage(m) ==
    IF m.address = 0 THEN [m EXCEPT !.address = LowPage, !.length = Sub(@, LowPage)]
    ELSE m

\* A block of RAM describes itself in its first bytes.
AddRAM(h, m) ==
    memory_move_from_to(
        Write(h, m.address, Fresh(Add(m.address, OVERHEAD), Sub(m.length, OVERHEAD), TRUE)),
        m.address, "none", "free")

-----------------------------------------------------------------------------
(* memory_sort: a selection sort that swaps two containers by exchanging   *)
(* their links, and goes on from the old successor of the one it moved.    *)

\* The first of the highest containers from i on.
Highest(h, i) == LET s == Chain(h, i)
                 IN  s[CHOOSE k \in DOMAIN s :
                         /\ \A l \in DOMAIN s : ~Above(h, s[l], s[k])
                         /\ \A l \in 1 .. (k - 1) : Above(h, s[k], s[l])]

SwapLinks(h, list, i, c) ==
    LET a == IF h.node[c].prev # NULL THEN [h EXCEPT !.node[h.node[c].prev].next = i] ELSE h
        b == IF a.node[c].next # NULL THEN [a EXCEPT !.node[a.node[c].next].prev = i] ELSE a
        d == IF b.node[i].prev # NULL THEN [b EXCEPT !.node[b.node[i].prev].next = c] ELSE b
        e == IF d.node[i].next # NULL THEN [d EXCEPT !.node[d.node[i].next].prev = c] ELSE d
    IN  [e EXCEPT !.node[i].prev = e.node[c].prev, !.node[c].prev = e.node[i].prev,
                  !.node[i].next = e.node[c].next, !.node[c].next = e.node[i].next,
                  ![list] = IF @ = i THEN c ELSE @]

RECURSIVE SortFrom(_, _, _)
SortFrom(h, list, i) ==
    IF i = NULL THEN h
    ELSE LET c == Highest(h, i)
         IN  IF c = i THEN SortFrom(h, list, h.node[i].next)
             ELSE LET g == SwapLinks(h, list, i, c)
                  IN  SortFrom(g, list, g.node[c].next)

memory_sort(h, list) == SortFrom(h, list, h[list])

-----------------------------------------------------------------------------
Init == /\ map \in Maps
        /\ heap = [free |-> NULL, used |-> NULL, node |-> <<>>]
        /\ pc = "map" /\ entry = 1
        /\ u = NULL /\ f = NULL

Halt == pc' = "halted" /\ UNCHANGED <<map, heap, entry, u, f>>

SkipEntry ==
    /\ pc = "map" /\ entry <= Len(map)
    /\ InsideKernel(map[entry])
    /\ entry' = entry + 1
    /\ UNCHANGED <<map, heap, pc, u, f>>

TakeEntry ==
    /\ pc = "map" /\ entry <= Len(map)
    /\ LET m == map[entry]
           rest == WithoutKernel(m)
       IN  /\ ~InsideKernel(m)
           /\ IF SplitByKernel(m) /\ ~CanDescribe(heap)
              THEN Halt
              ELSE \E upper \in
                 {IF SplitByKernel(m)
                  THEN Described(heap, KernelEnd, m.address + m.length - KernelEnd,
                                 Usable(m), IF Usable(m) THEN "free" ELSE "used")
                  ELSE heap} :
                 IF ~Usable(m) /\ ~CanDescribe(upper)
                 THEN Halt
                 ELSE /\ heap' = IF Usable(m) THEN AddRAM(upper, WithoutLowPage(rest))
                                 ELSE Described(upper, rest.address, rest.length,
                                           FALSE, "used")
                      /\ entry' = entry + 1
                      /\ UNCHANGED <<map, pc, u, f>>

\* The used block for the kernel, then the one for video memory.
AddFixed(here, block, next) ==
    /\ pc = here
    /\ IF CanDescribe(heap)
       THEN /\ heap' = Described(heap, block.address, block.size, FALSE, "used")
            /\ pc' = next
            /\ UNCHANGED <<map, entry, u, f>>
       ELSE Halt

EndOfMap == /\ pc = "map" /\ entry > Len(map)
            /\ pc' = "kernel"
            /\ UNCHANGED <<map, heap, entry, u, f>>

AddKernel   == AddFixed("kernel", Kernel, "graphics")
AddGraphics == AddFixed("graphics", Graphics, "overlap")

StartOverlap == /\ pc = "overlap"
                /\ u' = heap.used /\ f' = heap.free /\ pc' = "pair"
                /\ UNCHANGED <<map, heap, entry>>

NextUsed == /\ pc = "pair" /\ f = NULL /\ u # NULL
            /\ u' = heap.node[u].next
            /\ f' = IF u' = NULL THEN NULL ELSE heap.free
            /\ UNCHANGED <<map, heap, pc, entry>>

\* Move on in list_free, from wherever the container now is.
NextFree(h) == /\ heap' = h
               /\ f' = h.node[f].next
               /\ UNCHANGED <<map, pc, entry, u>>

\* The used block lies apart from the free block, or covers it: both are left.
LeavePair ==
    /\ pc = "pair" /\ u # NULL /\ f # NULL
    /\ LET x == heap.node[f]  y == heap.node[u]
       IN  IF x.addr >= y.addr
           THEN x.addr >= Add(y.addr, y.size) \/ Add(x.addr, x.size) <= Add(y.addr, y.size)
           ELSE Add(x.addr, x.size) <= y.addr
    /\ NextFree(heap)

\* The used block covers the beginning of the free block.  The address is
\* moved first, so the size is then reduced by nothing.
MoveBeginning ==
    /\ pc = "pair" /\ u # NULL /\ f # NULL
    /\ LET x == heap.node[f]  y == heap.node[u]
           moved == Add(x.addr, Sub(Add(y.addr, y.size), x.addr))
       IN  /\ x.addr >= y.addr /\ x.addr < Add(y.addr, y.size)
           /\ Add(x.addr, x.size) > Add(y.addr, y.size)
           /\ NextFree([heap EXCEPT
                 !.node[f].addr = moved,
                 !.node[f].size = Sub(@, Sub(Add(y.addr, y.size), moved))])

\* Variant: the free block is cut where the used block ends.
TruncatedLate(h) == [h EXCEPT !.node[f].size =
                       Sub(@, Sub(Add(h.node[f].addr, @), End(At(h, u))))]

\* The used block covers the end of the free block, or lies inside it and the
\* part above becomes a free block of its own; the allocation for its
\* container may take the free block itself.
Truncated(h) == [h EXCEPT !.node[f].size =
                   Sub(@, Sub(Add(h.node[f].addr, @), h.node[u].addr))]

CutEnd ==
    /\ pc = "pair" /\ u # NULL /\ f # NULL
    /\ LET x == heap.node[f]  y == heap.node[u]
       IN  /\ x.addr < y.addr /\ Add(x.addr, x.size) > y.addr
           /\ Add(x.addr, x.size) <= Add(y.addr, y.size)
    /\ NextFree(Truncated(heap))

CutMiddle ==
    /\ pc = "pair" /\ u # NULL /\ f # NULL
    /\ LET x == heap.node[f]  y == heap.node[u]
       IN  /\ x.addr < y.addr /\ Add(x.addr, x.size) > y.addr
           /\ Add(x.addr, x.size) > Add(y.addr, y.size)
           /\ IF CanDescribe(heap)
              THEN LET got == memory_alloc(heap, [size |-> OVERHEAD, limit |-> 0, align |-> 0])
                       at == got.heap.node[got.at].addr
                       g == got.heap
                       end == Add(g.node[f].addr, g.node[f].size)
                       upper == Fresh(Add(y.addr, y.size),
                                      Sub(Sub(end, y.addr), y.size), TRUE)
                   IN  NextFree(Truncated(
                         memory_move_from_to(Write(g, at, upper), at, "none", "free")))
              ELSE Halt

Sort == /\ pc = "pair" /\ u = NULL
        /\ heap' = memory_sort(memory_sort(heap, "free"), "used")
        /\ pc' = "done"
        /\ UNCHANGED <<map, entry, u, f>>

Next == \/ SkipEntry \/ TakeEntry \/ EndOfMap \/ AddKernel \/ AddGraphics
        \/ StartOverlap \/ NextUsed \/ LeavePair \/ MoveBeginning \/ CutEnd
        \/ CutMiddle \/ Sort

Running == pc \notin {"done", "halted"}

\* The boot processor runs until memory_init returns or stops the machine: weak
\* fairness of Next, spelt out because a step that changes something is enabled
\* as long as Running (no list of a sound map has an element that follows
\* itself, by ListsWellLinked).
Fairness == []<>~Running \/ []<><<vars' # vars>>_vars

Spec == Init /\ [][Next]_vars /\ Fairness

-----------------------------------------------------------------------------
FreeBlocks == {At(heap, x) : x \in Range(Chain(heap, heap.free))}
UsedBlocks == {At(heap, x) : x \in Range(Chain(heap, heap.used))}

Sets == INSTANCE Memory WITH
    BootFree <- {}, BootUsed <- {}, Requests <- {},
    free <- FreeBlocks, used <- UsedBlocks, result <- NoArea, halted <- FALSE

Bytes(address, size) == address .. (address + size - 1)

\* What of the map is RAM: what is usable, less the kernel, video memory, the first
\* page and what the map reserves.
RAM == UNION {Bytes(map[i].address, map[i].length) : i \in {j \in DOMAIN map : Usable(map[j])}}
         \ (UNION {Bytes(map[i].address, map[i].length) : i \in {j \in DOMAIN map : ~Usable(map[j])}}
             \cup Bytes(Kernel.address, Kernel.size)
             \cup Bytes(Graphics.address, Graphics.size)
             \cup Bytes(0, LowPage))

TypeOK == /\ heap.free \in Word /\ heap.used \in Word
          /\ \A x \in DOMAIN heap.node : x \in Word /\ heap.node[x] \in Node
          /\ pc \in {"map", "kernel", "graphics", "overlap", "pair", "done", "halted"}
          /\ entry \in 1 .. (Len(map) + 1)
          /\ u \in DOMAIN heap.node \cup {NULL} /\ f \in DOMAIN heap.node \cup {NULL}

\* Two entries have no address in common.
Aside(d, e) == \/ d.address + d.length <= e.address
               \/ e.address + e.length <= d.address

\* What is left of an entry of RAM in front of the kernel, or of all of it.
Part(e) == WithoutLowPage(WithoutKernel(e))

\* The containers memory_init allocates until it is done with k entries, and
\* the bytes of a block that they take of it, with the header of what remains.
Containers(m, k) == Cardinality({i \in 1 .. k : ~Usable(m[i])})
                      + Cardinality({i \in 1 .. k : SplitByKernel(m[i])})
Spent(n) == OVERHEAD * (2 * n + 1)

\* All containers: two more are for the kernel and for video memory, and one
\* for RAM that video memory divides.
AllContainers(m) == Containers(m, Len(m)) + 3

\* Enough RAM above the kernel for all containers: memory_alloc takes the
\* highest block, so none comes from below once the entry is taken.
Ample(m, i) ==
    /\ Usable(m[i])
    /\ Max({KernelEnd, m[i].address}) + Spent(AllContainers(m)) <= m[i].address + m[i].length

\* No address is reported as RAM twice, no entry wraps, and what has to be left
\* out of an entry of RAM leaves the room for its header.
Sound(m) ==
    /\ \A i \in DOMAIN m : /\ m[i].length \in 1 .. (W - 1)
                           /\ m[i].address + m[i].length <= IF Usable(m[i]) THEN W - 1 ELSE W
    /\ \A i, j \in {k \in DOMAIN m : Usable(m[k])} : i # j => Aside(m[i], m[j])
    /\ \A i \in {j \in DOMAIN m : Usable(m[j]) /\ ~InsideKernel(m[j])} :
         /\ m[i].address < LowPage => m[i].address = 0 /\ m[i].length >= LowPage
         /\ Part(m[i]).length >= OVERHEAD

\* The maps for which memory_init does what it should: moreover no address is
\* mentioned twice, nothing reserved begins where video memory does, and no block
\* of RAM begins in video memory, neither as reported nor after containers have
\* been taken from its beginning.
Proper(m) ==
    /\ Sound(m)
    /\ \A i, j \in DOMAIN m : i # j => Aside(m[i], m[j])
    /\ \A i \in DOMAIN m : m[i].address = Graphics.address => Usable(m[i])
    /\ \A i \in {j \in DOMAIN m : Usable(m[j]) /\ ~InsideKernel(m[j])} :
         LET part == Part(m[i])
         IN  \/ Aside(part, [address |-> Graphics.address, length |-> Graphics.size])
             \/ part.address + Spent(AllContainers(m)) < Graphics.address
             \/ \E j \in DOMAIN m :
                  Ample(m, j) /\ part.address + Spent(Containers(m, j)) < Graphics.address

\* No entry of RAM ends where another one begins.
Separate(m) == \A i, j \in DOMAIN m :
    Usable(m[i]) /\ Usable(m[j]) => m[i].address + m[i].length # m[j].address

\* What memory_init leaves is what memory_alloc and memory_free start from:
\* blocks apart, headers before their areas or in the blocks made for them and
\* none at NULL, a free block above all others, and addresses that the lists can
\* be sorted by.  No two free blocks touch unless the map reports them so:
\* memory_init does not merge.
LeavesConsistent ==
    pc = "done" /\ Proper(map) =>
        /\ Sets!Consistent(FreeBlocks, UsedBlocks)
        /\ Sets!OwnHeaders(FreeBlocks \cup UsedBlocks)
        /\ Sets!Hosted(FreeBlocks \cup UsedBlocks, {b \in UsedBlocks : b.freeable})
        /\ Sets!Ordered(FreeBlocks, UsedBlocks)
        /\ NULL \notin DOMAIN heap.node
        /\ Separate(map) => Sets!Merged(FreeBlocks)

\* Every byte of RAM is in a block that can be handed out, or in the block of
\* a container, and no other byte is.
CoversRAM ==
    pc = "done" /\ Proper(map) =>
        UNION {Sets!Footprint(c) : c \in {b \in FreeBlocks \cup UsedBlocks : b.freeable}} = RAM

\* Both lists stay linked both ways, with every container on one of them and
\* none above the one before it, while the overlap pass inserts into the list it
\* walks and moves addresses in it without reordering: memory_sort, which breaks
\* the prev links of neighbours it swaps, finds nothing to swap.  Entries
\* that are reserved may overlap others.
ListsWellLinked ==
    LET onFree == Chain(heap, heap.free)  onUsed == Chain(heap, heap.used)
    IN  /\ TypeOK
        /\ Sound(map) =>
             /\ BothWays(heap, heap.free) /\ BothWays(heap, heap.used)
             /\ Range(onFree) \cap Range(onUsed) = {}
             /\ Range(onFree) \cup Range(onUsed) = DOMAIN heap.node
             /\ \A s \in {onFree, onUsed} : \A k \in 2 .. Len(s) : ~Above(heap, s[k], s[k - 1])

\* The overlap pass ends, whatever it inserts into the lists it walks.
Terminates == <>~Running
=============================================================================
