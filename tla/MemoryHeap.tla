----------------------------- MODULE MemoryHeap ----------------------------
(***************************************************************************)
(* The pointer code of src/kernel/memory.c: two doubly linked lists whose  *)
(* nodes lie in the memory they describe.  A heap is a record              *)
(*    free, used  the pointers list_free and list_used (0 is NULL),        *)
(*    node        the containers in memory, by the address of their header *)
(* and every operation is a function from heaps to heaps that follows the  *)
(* assignments of the C function of its name.                              *)
(***************************************************************************)
EXTENDS Fit, FiniteSets, SequencesExt

NULL == 0

Node == [addr : Word, size : Word, freeable : BOOLEAN, next : Word, prev : Word]

Fresh(addr, size, freeable) ==
    [addr |-> addr, size |-> size, freeable |-> freeable,
     next |-> NULL, prev |-> NULL]

\* The container at header x, as Memory and Fit see it.
At(h, x) == [hdr |-> x, addr |-> h.node[x].addr, size |-> h.node[x].size,
             freeable |-> h.node[x].freeable]

\* Writing a container into memory.
Write(h, x, n) == [h EXCEPT !.node = [y \in DOMAIN @ \cup {x} |->
                                        IF y = x THEN n ELSE @[y]]]

Erase(h, x) == [h EXCEPT !.node = [y \in DOMAIN @ \ {x} |-> @[y]]]

\* The container behind y, and none behind NULL.
After(h) == [y \in DOMAIN h.node \cup {NULL} |->
               IF y = NULL THEN NULL ELSE h.node[y].next]

\* The headers met by following next from x until NULL.  A walk that is longer
\* than there are containers has come back to one it has met, would never end,
\* and is cut there.
Chain(h, x) ==
    LET steps == Cardinality(DOMAIN h.node)
        met[k \in 1 .. steps] == IF k = 1 THEN x ELSE After(h)[met[k - 1]]
    IN  [k \in {j \in 1 .. steps : met[j] # NULL} |-> met[k]]

\* The first container on the walk from x that is one of "wanted", or NULL.
Find(h, x, wanted) ==
    LET s == Chain(h, x)
        hits == {k \in DOMAIN s : s[k] \in wanted}
    IN  IF hits = {} THEN NULL ELSE s[CHOOSE k \in hits : \A l \in hits : k <= l]

-----------------------------------------------------------------------------
\* Variant: prev->next is overwritten before it is read.
LinkAfterItself(h, prev, next) ==
    [h EXCEPT !.node[next].next = next, !.node[prev].next = next, !.node[next].prev = prev]

memory_link_prev_next(h, prev, next) ==
    LET after == h.node[prev].next
        g == IF after # NULL THEN [h EXCEPT !.node[after].prev = next] ELSE h
    IN  [g EXCEPT !.node[next].next = after,
                  !.node[prev].next = next,
                  !.node[next].prev = prev]

\* Variant: the prev link of the following element is forgotten.
LinkBeforeOneWay(h, next, prev) ==
    LET before == h.node[next].prev
        g == IF before # NULL THEN [h EXCEPT !.node[before].next = prev]
             ELSE IF h.free = next THEN [h EXCEPT !.free = prev]
             ELSE IF h.used = next THEN [h EXCEPT !.used = prev]
             ELSE h
    IN  [g EXCEPT !.node[prev].prev = before, !.node[prev].next = next]

memory_link_next_prev(h, next, prev) ==
    LET before == h.node[next].prev
        g == IF before # NULL THEN [h EXCEPT !.node[before].next = prev]
             ELSE IF h.free = next THEN [h EXCEPT !.free = prev]
             ELSE IF h.used = next THEN [h EXCEPT !.used = prev]
             ELSE h
    IN  [g EXCEPT !.node[prev].prev = before,
                  !.node[next].prev = prev,
                  !.node[prev].next = next]

\* The first half of memory_move_from_to: out of the list "from".
Unlink(h, c, from) ==
    LET x == h.node[c]
        f == IF from # "none" /\ h[from] = c THEN [h EXCEPT ![from] = x.next] ELSE h
        g == IF x.prev # NULL THEN [f EXCEPT !.node[x.prev].next = x.next] ELSE f
    IN  IF x.next # NULL THEN [g EXCEPT !.node[x.next].prev = x.prev] ELSE g

\* The second half: into the list "to", before the first element that is not
\* above it, or after the last element.
Insert(h, c, to) ==
    LET notAbove == {x \in DOMAIN h.node : h.node[x].addr <= h.node[c].addr}
        at == Find(h, h[to], notAbove)
    IN  IF h[to] = NULL
        THEN [h EXCEPT ![to] = c, !.node[c].next = NULL, !.node[c].prev = NULL]
        ELSE IF at = NULL
        THEN memory_link_prev_next(h, Last(Chain(h, h[to])), c)
        ELSE LET g == memory_link_next_prev(h, at, c)
             IN  IF g.node[c].prev = NULL THEN [g EXCEPT ![to] = c] ELSE g

memory_move_from_to(h, c, from, to) == Insert(Unlink(h, c, from), c, to)

\* The heap after the split and the header of the selected container.
memory_split(h, c, address, size) ==
    LET x == h.node[c]
    IN  IF address = x.addr
        THEN LET new == Add(address, size)
                 g == Write([h EXCEPT !.node[c].size = size], new,
                            Fresh(Add(new, OVERHEAD),
                                  Sub(Sub(x.size, size), OVERHEAD), TRUE))
             IN  [heap |-> memory_link_next_prev(g, c, new), at |-> c]
        ELSE LET new == Sub(address, OVERHEAD)
                 g == Write([h EXCEPT !.node[c].size =
                                Sub(Sub(address, x.addr), OVERHEAD)], new,
                            Fresh(address, Add(Sub(x.size, address), x.addr), TRUE))
             IN  [heap |-> memory_link_next_prev(g, c, new), at |-> new]

-----------------------------------------------------------------------------
\* memory_alloc between lock and unlock: the heap it leaves and the header of
\* the container it selects, NULL when none serves.
memory_alloc(h, r) ==
    LET c == Find(h, h.free, {x \in DOMAIN h.node : Serves(At(h, x), r)})
        Taken(s) == [heap |-> memory_move_from_to(s.heap, s.at, "free", "used"),
                     at |-> s.at]
    IN  IF c = NULL THEN [heap |-> h, at |-> NULL]
        ELSE IF ExactFit(At(h, c), r) THEN Taken([heap |-> h, at |-> c])
        ELSE LET start == Start(At(h, c), r)
                 once  == memory_split(h, c, start, r.size)
             IN  IF r.align = 0 \/ OnEdge(At(h, c), r) THEN Taken(once)
                 ELSE Taken(memory_split(once.heap, once.at, start, r.size))

\* The container memory_free finds for an area, NULL when none is in use.
Allocated(h, area) ==
    Find(h, h.used, {x \in DOMAIN h.node : AreaOf(At(h, x)) = area})

\* Variant: the merged container's old prev link stays.
MergeNextKeepsPrev(h, c) ==
    LET n == h.node[c].next  p == h.node[c].prev
        g == [h EXCEPT !.node[n].size = Add(@, Add(OVERHEAD, h.node[c].size))]
    IN  IF p # NULL THEN [g EXCEPT !.node[p].next = n] ELSE g

\* "try to merge with next container": the merged container's own header is
\* forgotten unless it is the first element, where list_free still finds it.
MergeNext(h, c) ==
    LET x == h.node[c]  n == x.next
        size == Add(h.node[n].size, Add(OVERHEAD, x.size))
        g == [h EXCEPT !.node[n].size = size, !.node[n].prev = x.prev,
                       !.node[c].size = size]
    IN  IF x.prev # NULL
        THEN Erase([g EXCEPT !.node[x.prev].next = n], c)
        ELSE g

\* Variant: the header of the upper block is lost.
MergePrevLosesHeader(h, c) ==
    LET p == h.node[c].prev  q == h.node[p].prev
        g == [h EXCEPT !.node[c].size = Add(@, h.node[p].size), !.node[c].prev = q]
    IN  Erase(IF q # NULL THEN [g EXCEPT !.node[q].next = c]
              ELSE [g EXCEPT !.free = c], p)

\* "try to merge with previous container".
MergePrev(h, c) ==
    LET p == h.node[c].prev  q == h.node[p].prev
        g == [h EXCEPT !.node[c].size = Add(@, Add(OVERHEAD, h.node[p].size)),
                       !.node[c].prev = q]
    IN  Erase(IF q # NULL THEN [g EXCEPT !.node[q].next = c]
              ELSE IF h.free = p THEN [g EXCEPT !.free = c]
              ELSE g, p)

JoinsNext(h, c) == LET n == h.node[c].next
                   IN  n # NULL /\ Inline(At(h, c)) /\ End(At(h, n)) = c

JoinsPrev(h, c) == LET p == h.node[c].prev
                   IN  p # NULL /\ Inline(At(h, p)) /\ End(At(h, c)) = p

\* memory_free of a container in use.
memory_free(h, c) ==
    LET moved == memory_move_from_to(h, c, "used", "free")
        joins == JoinsNext(moved, c)
        one   == IF joins THEN MergeNext(moved, c) ELSE moved
        at    == IF joins THEN moved.node[c].next ELSE c
    IN  IF JoinsPrev(one, at) THEN MergePrev(one, at) ELSE one

-----------------------------------------------------------------------------
(* Lists as memory_init leaves them, made of sets of containers.           *)

\* The headers of the highest and of the lowest block, or NULL.
TopOf(blocks) ==
    IF blocks = {} THEN NULL
    ELSE (CHOOSE c \in blocks : \A d \in blocks : d.addr <= c.addr).hdr
BottomOf(blocks) ==
    IF blocks = {} THEN NULL
    ELSE (CHOOSE c \in blocks : \A d \in blocks : d.addr >= c.addr).hdr

Linked(blocks) ==
    LET Of(x) == CHOOSE c \in blocks : c.hdr = x
    IN  [x \in {c.hdr : c \in blocks} |->
           [addr |-> Of(x).addr, size |-> Of(x).size, freeable |-> Of(x).freeable,
            next |-> TopOf({d \in blocks : d.addr < Of(x).addr}),
            prev |-> BottomOf({d \in blocks : d.addr > Of(x).addr})]]

\* The heap with the lists f and u.
HeapOf(f, u) ==
    LET onFree == Linked(f)  onUsed == Linked(u)
    IN  [free |-> TopOf(f), used |-> TopOf(u),
         node |-> [x \in DOMAIN onFree \cup DOMAIN onUsed |->
                     IF x \in DOMAIN onFree THEN onFree[x] ELSE onUsed[x]]]

Above(h, x, y) == h.node[x].addr > h.node[y].addr

\* The list from "first": prev undoes next, and nothing precedes the first
\* element or follows the last.
BothWays(h, first) ==
    LET s == Chain(h, first)
    IN  /\ s # <<>> => h.node[s[1]].prev = NULL /\ h.node[Last(s)].next = NULL
        /\ \A i \in 1 .. (Len(s) - 1) : h.node[s[i + 1]].prev = s[i]

\* So linked, with descending addresses.
DoublyLinked(h, first) ==
    LET s == Chain(h, first)
    IN  /\ BothWays(h, first)
        /\ \A i \in 1 .. (Len(s) - 1) : Above(h, s[i], s[i + 1])

\* Both lists, with every container on exactly one of them.
WellLinked(h) ==
    LET onFree == Range(Chain(h, h.free))  onUsed == Range(Chain(h, h.used))
    IN  /\ DoublyLinked(h, h.free) /\ DoublyLinked(h, h.used)
        /\ onFree \cap onUsed = {} /\ onFree \cup onUsed = DOMAIN h.node
=============================================================================
