----------------------------- MODULE MemoryList ----------------------------
(***************************************************************************)
(* memory_alloc and memory_free on the doubly linked lists, as MemoryHeap  *)
(* gives them, and the proof obligation that the lists implement the sets  *)
(* of Memory.                                                              *)
(***************************************************************************)
EXTENDS MemoryHeap

CONSTANTS BootFree, BootUsed, Requests

VARIABLES
    heap,       \* list_free, list_used and the containers in memory
    result,     \* the area the last memory_alloc returned
    halted      \* a caller of memory_free has been stopped

vars == <<heap, result, halted>>

FreeBlocks == {At(heap, x) : x \in Range(Chain(heap, heap.free))}
UsedBlocks == {At(heap, x) : x \in Range(Chain(heap, heap.used))}

\* The lists seen as sets.
Sets == INSTANCE Memory WITH free <- FreeBlocks, used <- UsedBlocks

ASSUME RequestsAssumption ==
    Requests \subseteq [size : Word, limit : Word, align : Word]

\* What memory_init leaves of the maps that are Proper (LeavesConsistent of
\* MemoryInit): two free blocks may touch.
ASSUME BootAssumption ==
    /\ Sets!Consistent(BootFree, BootUsed)
    /\ Sets!OwnHeaders(BootFree \cup BootUsed)
    /\ Sets!Hosted(BootFree \cup BootUsed, {b \in BootUsed : b.freeable})
    /\ Sets!Ordered(BootFree, BootUsed)
    /\ \A c \in BootFree \cup BootUsed : c.hdr # NULL

Init == /\ heap = HeapOf(BootFree, BootUsed)
        /\ result = NoArea
        /\ halted = FALSE

Alloc(r) ==
    LET got == memory_alloc(heap, r)
    IN  /\ heap' = got.heap
        /\ result' = IF got.at = NULL THEN NoArea ELSE AreaOf(At(got.heap, got.at))
        /\ UNCHANGED halted

Free(area) ==
    LET c == Allocated(heap, area)
    IN  /\ c # NULL /\ heap.node[c].freeable
        /\ heap' = memory_free(heap, c)
        /\ UNCHANGED <<result, halted>>

FreeInvalid(area) ==
    LET c == Allocated(heap, area)
    IN  /\ ~(c # NULL /\ heap.node[c].freeable)
        /\ halted' = TRUE
        /\ UNCHANGED <<heap, result>>

Next == \/ \E r \in Requests : Alloc(r)
        \/ \E area \in Sets!CallerAreas : Free(area) \/ FreeInvalid(area)

Spec == Init /\ [][Next]_vars

\* Callers that stay clear of the near fits, as Memory defines them.
ClearNext == \/ \E r \in Requests : Sets!Clear(r) /\ Alloc(r)
             \/ \E area \in Sets!CallerAreas : Free(area) \/ FreeInvalid(area)

ClearSpec == Init /\ [][ClearNext]_vars

-----------------------------------------------------------------------------
TypeOK == /\ heap.free \in Word /\ heap.used \in Word
          /\ DOMAIN heap.node \subseteq Word
          /\ \A x \in DOMAIN heap.node : heap.node[x] \in Node
          /\ result \in Area
          /\ halted \in BOOLEAN

\* Splitting, moving and merging keep both lists doubly linked and sorted;
\* every container is on exactly one of them and none is lost.
ListsWellLinked == TypeOK /\ WellLinked(heap)

\* memory_alloc and memory_free on the pointers do what Memory says of sets.
ImplementsSets == Sets!ClearSpec
=============================================================================
