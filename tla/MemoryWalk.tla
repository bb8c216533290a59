----------------------------- MODULE MemoryWalk ----------------------------
(***************************************************************************)
(* kernel_entry maps every area that memory_foreach reports, one page at a *)
(* time, before it turns on its own page tables.  memory_foreach walks the *)
(* lists through two static pointers and without lock_memory, while        *)
(* paging_map allocates page tables from those lists.                      *)
(***************************************************************************)
EXTENDS MemoryHeap

CONSTANTS
    Boots,      \* records of what memory_init leaves, the sets free and used, and
                \* of spans: bytes that one table of each level maps, top level
                \* first, without the level the context record points to
    PAGE,       \* 0x1000
    EarlyLimit, \* 0x1000000: the tables of paging_init lie below it
    Deadcode    \* 0xdeadc0de, which kernel_entry maps as a test

ASSUME WalkAssumption == /\ PAGE \in Nat \ {0, 1} /\ W % PAGE = 0 /\ W > 3 * PAGE
                         /\ Deadcode \in Word

VARIABLES
    boot,       \* the machine, constant
    heap,       \* list_free, list_used and the containers
    memory_last_element, memory_last_list,  \* the iterators, 0 for NULL
    element,    \* the area memory_foreach returned
    i, e,       \* the page to map next, and where the area ends
    tables,     \* page tables present: <<level, index>>
    pages,      \* pages mapped
    pc

vars == <<boot, heap, memory_last_element, memory_last_list, element, i, e,
          tables, pages, pc>>

Spans == boot.spans

PageOf(a) == a - (a % PAGE)

\* The last two pages hold paging's own window.
ReservedPage(v) == v >= W - 2 * PAGE

-----------------------------------------------------------------------------
\* What a sequence of requests makes of a heap; "ok" turns FALSE when one of
\* them fails.
Allocate(h, requests) ==
    LET One(s, r) == LET got == memory_alloc(s.heap, r)
                     IN  [heap |-> got.heap, ok |-> s.ok /\ got.at # NULL]
    IN  FoldLeft(One, [heap |-> h, ok |-> TRUE], requests)

TableRequest == [size |-> PAGE, limit |-> 0, align |-> PAGE]
EarlyRequest == [TableRequest EXCEPT !.limit = EarlyLimit]
ContextRequest == [size |-> 1, limit |-> 0, align |-> 0]

\* paging_init: one table of each level, for the window of the boot tables.
\* paging_context: the record, its top table, and one of each level again.
SetUpRequests ==
    [n \in DOMAIN Spans |-> EarlyRequest] \o <<ContextRequest, TableRequest>>
        \o [n \in DOMAIN Spans |-> TableRequest]

WindowTables == {<<l, (W - 1) \div Spans[l]>> : l \in DOMAIN Spans}

\* The tables on the way to page v that are not there yet.
Missing(v) == {<<l, v \div Spans[l]>> : l \in DOMAIN Spans} \ tables

WithTables(v) == Allocate(heap, [n \in 1 .. Cardinality(Missing(v)) |-> TableRequest])

\* paging_map: allocate what is missing, level by level, and set the entry.
paging_map(v) ==
    /\ heap' = WithTables(v).heap
    /\ tables' = tables \cup Missing(v)
    /\ pages' = pages \cup {PageOf(v)}

\* "Ran out of memory while mapping!", "Tried to map reserved address!".
MapFails(v) == ReservedPage(v) \/ ~WithTables(v).ok

-----------------------------------------------------------------------------
\* The iterators, which an empty area resets.
IteratorsOf(last) ==
    IF last = NoArea THEN [element |-> NULL, list |-> heap.free]
    ELSE [element |-> memory_last_element, list |-> memory_last_list]

\* Variant: the iterator is not moved past list_used.
PositionForever(last) ==
    LET at == IteratorsOf(last)
    IN  IF at.element # NULL THEN at
        ELSE IF at.list = heap.free THEN [element |-> heap.free, list |-> heap.used]
        ELSE [element |-> heap.used, list |-> heap.used]

\* Variant: the walk is over after list_free.
PositionFreeOnly(last) ==
    LET at == IteratorsOf(last)
    IN  IF at.element # NULL THEN at
        ELSE IF at.list = heap.free THEN [element |-> heap.free, list |-> NULL]
        ELSE [element |-> NULL, list |-> NULL]

\* memory_foreach(last): which list it goes on with, if any.
Position(last) ==
    LET at == IteratorsOf(last)
    IN  IF at.element # NULL THEN at
        ELSE IF at.list = heap.free THEN [element |-> heap.free, list |-> heap.used]
        ELSE IF at.list = heap.used THEN [element |-> heap.used, list |-> NULL]
        ELSE [element |-> NULL, list |-> at.list]

\* The area there, or {0, 0}: "no more areas".  Neither list is ever empty here.
Foreach(last) ==
    LET at == Position(last)
    IN  /\ memory_last_list' = at.list
        /\ IF at.element = NULL
           THEN element' = NoArea /\ memory_last_element' = NULL
           ELSE /\ element' = AreaOf(At(heap, at.element))
                /\ memory_last_element' = heap.node[at.element].next

-----------------------------------------------------------------------------
Init == /\ boot \in Boots
        /\ heap = HeapOf(boot.free, boot.used)
        /\ memory_last_element = NULL /\ memory_last_list = NULL
        /\ element = NoArea /\ i = 0 /\ e = 0
        /\ tables = {} /\ pages = {}
        /\ pc = "set up"

Hang == pc' = "hung" /\ UNCHANGED <<boot, heap, memory_last_element, memory_last_list,
                                    element, i, e, tables, pages>>

\* paging_init and paging_context.
SetUpPaging ==
    /\ pc = "set up"
    /\ LET got == Allocate(heap, SetUpRequests)
       IN  IF got.ok
           THEN /\ heap' = got.heap /\ tables' = WindowTables /\ pc' = "deadcode"
                /\ UNCHANGED <<boot, memory_last_element, memory_last_list, element,
                               i, e, pages>>
           ELSE Hang

\* The two mappings before the walk.
MapOne(here, v, next) ==
    /\ pc = here
    /\ IF MapFails(v) THEN Hang
       ELSE /\ paging_map(v) /\ pc' = next
            /\ UNCHANGED <<boot, memory_last_element, memory_last_list, element, i, e>>

MapDeadcode == MapOne("deadcode", Deadcode, "zero")
MapZero     == MapOne("zero", 0, "walk")

StartWalk ==
    /\ pc = "walk"
    /\ Foreach(NoArea)
    /\ pc' = "area"
    /\ UNCHANGED <<boot, heap, i, e, tables, pages>>

\* Variant: an area up to the end of the address space is not recognised.
WrappingEnd(area) == Add(area.address, area.size)

AreaEnd(area) ==
    LET end == Add(area.address, area.size)
    IN  IF end = 0 THEN Sub(end, 3 * PAGE) ELSE end

EnterArea ==
    /\ pc = "area" /\ element.address # 0 /\ element.size # 0
    /\ i' = PageOf(element.address) /\ e' = AreaEnd(element)
    /\ pc' = "pages"
    /\ UNCHANGED <<boot, heap, memory_last_element, memory_last_list, element, tables, pages>>

MapPage ==
    /\ pc = "pages" /\ i < e
    /\ IF MapFails(i) THEN Hang
       ELSE /\ paging_map(i) /\ i' = Add(i, PAGE)
            /\ UNCHANGED <<boot, memory_last_element, memory_last_list, element, e, pc>>

NextArea ==
    /\ pc = "pages" /\ i >= e
    /\ Foreach(element)
    /\ pc' = "area"
    /\ UNCHANGED <<boot, heap, i, e, tables, pages>>

\* paging_switch.
EndWalk ==
    /\ pc = "area" /\ (element.address = 0 \/ element.size = 0)
    /\ pc' = "switched"
    /\ UNCHANGED <<boot, heap, memory_last_element, memory_last_list, element, i, e,
                   tables, pages>>

Next == \/ SetUpPaging \/ MapDeadcode \/ MapZero
        \/ StartWalk \/ EnterArea \/ MapPage \/ NextArea \/ EndWalk

Running == pc \notin {"switched", "hung"}

\* Only the boot processor runs, with interrupts off: weak fairness of Next,
\* spelt out because a step that changes something is enabled while Running.
Fairness == []<>~Running \/ []<><<vars' # vars>>_vars

Spec == Init /\ [][Next]_vars /\ Fairness

-----------------------------------------------------------------------------
PagesOf(c) == {PageOf(a) : a \in {b \in c.addr .. (c.addr + c.size - 1) : b < W - 3 * PAGE}}

Blocks == {At(heap, x) : x \in Range(Chain(heap, heap.free)) \cup Range(Chain(heap, heap.used))}

\* Once the kernel runs on its own page tables it reaches every block and the
\* header of every block, those of the tables the walk itself allocated
\* included: a page that is not mapped would stop it at the next call of
\* memory_alloc.
AllMapped ==
    pc = "switched" =>
        \A c \in Blocks : /\ PagesOf(c) \subseteq pages
                          /\ PageOf(c.hdr) \in pages

\* The walk ends although it allocates from the lists it walks.
Terminates == <>~Running
=============================================================================
