------------------------------- MODULE Paging -------------------------------
(***************************************************************************)
(* Page tables: paging_init, paging_context, paging_map, paging_switch.    *)
(* arch/i386/paging.c has tables of two levels, arch/amd64/paging.c of     *)
(* four; otherwise they do the same.  A table is reached through a window, *)
(* the last page of the address space, whose own entry *invalidator is the *)
(* last one of the page before, and the processor caches it.               *)
(***************************************************************************)
EXTENDS Integers, FiniteSets, Sequences, FiniteSetsExt

CONSTANTS
    CPUs, BootCPU,
    SIZE,       \* entries of a table: 1024 or 512
    Machines,   \* records: levels; boot, the pages that the boot code's tables map (16
                \* MiB); ram, the number of frames, all among those; bits, of the
                \* addresses the processor has; what is asked for, page, frame
                \* and flags: first, before RAM is mapped, and requests, those of the
                \* callers once the kernel runs
    MaxCalls,   \* bound: calls of each processor once the kernel runs
    NoFrame, NoCall

Flag == {"present", "write", "user", "nocache", "pat"}

Request == [page : Nat, frame : Nat, flags : SUBSET Flag]

ASSUME PagingAssumption ==
    /\ BootCPU \in CPUs /\ SIZE \in Nat /\ SIZE >= 2
    /\ NoFrame \notin Nat /\ NoCall \notin Request

\* The pages below one entry of a table of each level, and below the whole of one
\* of the highest.
Span == <<1, SIZE, SIZE * SIZE, SIZE * SIZE * SIZE, SIZE * SIZE * SIZE * SIZE>>

\* Frames have numbers below 2 ^ FrameBits; those of i386 fill the word.
FrameBits(levels) == IF levels = 2 THEN 20 ELSE 24

Frames(levels) == 2 ^ FrameBits(levels)

\* RAM is what the boot code maps, and that ends below the last two pages; callers ask for frames there are, for pages to
\* be present, and map those of RAM to themselves.
ASSUME MachinesAssumption ==
    \A m \in Machines :
        /\ m.levels \in {2, 4}
        /\ m.ram \in Nat \ {0} /\ m.boot \in Nat /\ m.ram <= m.boot
        /\ m.boot + 2 <= Span[m.levels + 1]
        /\ \A r \in m.requests \cup {m.first[n] : n \in DOMAIN m.first} :
             /\ r \in Request /\ r.page < Span[m.levels + 1] /\ "present" \in r.flags
             /\ r.frame < Frames(m.levels) /\ (r.page < m.ram => r.frame = r.page)

VARIABLES
    machine,    \* constant
    mem,        \* the frames of RAM, as tables
    free,       \* the frames memory_alloc has to give
    lock_paging,
    context,    \* context->cr3
    cr3,        \* of each processor
    tlb,        \* the frame that each processor has cached for the window
    phase,      \* how far kernel_entry has come
    mapped,     \* pages of RAM that kernel_entry has mapped
    pc, call,   \* where each processor is in paging_map, and its arguments
    at,         \* the table each walks, and its level; the lowest is 1
    calls

vars == <<machine, mem, free, lock_paging, context, cr3, tlb, phase, mapped, pc, call, at, calls>>

-----------------------------------------------------------------------------
(* Tables.                                                                 *)

LastSlot == SIZE - 1

Window == Span[machine.levels + 1] - 1      \* 0xfffff000
InvalidatorPage == Window - 1               \* 0xffffe000

\* pml4i, pdpi, pdi, pti.
Index(page, level) == (page \div Span[level]) % SIZE

\* cpuid_check_support flips a flag of eflags that always reads 0, not the one that
\* tells of cpuid (21), and keeps the lowest byte of the difference as a bool: cpuid
\* answers with zeros.
FlippedFlag == 25
Flipped == IF FlippedFlag = 21 THEN 2 ^ FlippedFlag ELSE 0

\* Variant: it asks as the manuals say.
cpuid_found == TRUE
cpuid_supported == Flipped % 256 # 0

cpuid(answer) == IF cpuid_supported THEN answer ELSE 0
cpuid_extended(answer) == cpuid(answer)

\* paging_init of amd64: physical_mask has the 52 bits of an address that are left
\* when 76 - bits are shifted out (the processor takes a shift modulo 64), and
\* then those of a page are dropped.  That of i386 has all.
KeptBits == IF machine.levels = 2 THEN 20
            ELSE 52 - ((76 - cpuid_extended(machine.bits)) % 64)

Masked(frame) == IF KeptBits >= FrameBits(machine.levels) THEN frame ELSE frame % 2 ^ KeptBits

Absent == [frame |-> 0, flags |-> {}]
Present(entry) == "present" \in entry.flags

ToTable(frame) == [frame |-> Masked(frame), flags |-> {"present", "write", "user"}]
ToWindow(frame) == [frame |-> Masked(frame), flags |-> {"present", "nocache"}]

Empty == [n \in 0 .. LastSlot |-> Absent]

\* What a frame holds before it is a table.
Garbage == [n \in 0 .. LastSlot |-> [frame |-> 0, flags |-> {"present"}]]

\* The boot code's tables: they map the first 16 MiB to themselves.
BootRoot == 0

\* The entry n of the table that an entry shows.
Follow(m, entry, n) == IF Present(entry) /\ entry.frame \in DOMAIN m
                       THEN m[entry.frame][n] ELSE Absent

\* The processor's walk from a root: the entry it ends at, or Absent.
EntryOf(m, root, page) ==
    LET entry[l \in 1 .. machine.levels] ==
          Follow(m, IF l = machine.levels THEN [frame |-> root, flags |-> {"present"}]
                    ELSE entry[l + 1], Index(page, l))
    IN  IF root = BootRoot /\ page < machine.boot THEN ToTable(page) ELSE entry[1]

Shows(m, root, page) == LET e == EntryOf(m, root, page)
                        IN  IF Present(e) THEN e.frame ELSE NoFrame

Write(m, frame, n, entry) == [m EXCEPT ![frame][n] = entry]

SetInvalidator(m, root, entry) == Write(m, Shows(m, root, InvalidatorPage), LastSlot, entry)

\* What processor p reaches through the window.
Through(p) == IF tlb[p] # NoFrame THEN tlb[p] ELSE Shows(mem, cr3[p], Window)

\* *invalidator = frame; invlpg.
\* Variant: the processor keeps what it has cached.
PointWindowCached(p, frame) ==
    /\ Shows(mem, cr3[p], InvalidatorPage) \in DOMAIN mem
    /\ mem' = SetInvalidator(mem, cr3[p], ToWindow(frame))
    /\ UNCHANGED tlb

PointWindow(p, frame) ==
    /\ Shows(mem, cr3[p], InvalidatorPage) \in DOMAIN mem
    /\ mem' = SetInvalidator(mem, cr3[p], ToWindow(frame))
    /\ tlb' = [tlb EXCEPT ![p] = NoFrame]

\* The same, and memset of what the window now shows.
ClearThroughWindow(p, m, frame) ==
    LET pointed == SetInvalidator(m, cr3[p], ToWindow(frame))
        shown == Shows(pointed, cr3[p], Window)
    IN  /\ Shows(m, cr3[p], InvalidatorPage) \in DOMAIN m /\ shown \in DOMAIN m
        /\ mem' = [pointed EXCEPT ![shown] = Empty]
        /\ tlb' = [tlb EXCEPT ![p] = shown]

-----------------------------------------------------------------------------
(* memory_alloc of a page: which of the free frames it takes is left open.   *)

NextFrame == CHOOSE f \in free : TRUE

TakeFrame == free # {} /\ free' = free \ {NextFrame}

-----------------------------------------------------------------------------
Init == /\ machine \in Machines
        /\ mem = [f \in 0 .. (machine.ram - 1) |-> IF f = BootRoot THEN Empty ELSE Garbage]
        /\ free = 1 .. (machine.ram - 1)
        /\ lock_paging = 0 /\ context = NoFrame
        /\ cr3 = [p \in CPUs |-> IF p = BootCPU THEN BootRoot ELSE NoFrame]
        /\ tlb = [p \in CPUs |-> NoFrame]
        /\ phase = "init" /\ mapped = 0
        /\ pc = [p \in CPUs |-> "idle"] /\ call = [p \in CPUs |-> NoCall]
        /\ at = [p \in CPUs |-> [table |-> BootRoot, level |-> machine.levels]]
        /\ calls = [p \in CPUs |-> 0]

Go(p, where) == pc' = [pc EXCEPT ![p] = where]

Walk(p, table, level) == at' = [at EXCEPT ![p] = [table |-> table, level |-> level]]

Booting(where) == phase = where /\ pc[BootCPU] = "idle"

\* The table's entry before the last shows the table itself, the last nothing
\* yet: it is *invalidator.
WindowEntries(m, table) ==
    Write(Write(m, table, LastSlot - 1, ToWindow(table)), table, LastSlot, ToWindow(0))

\* paging_init: a table of each level for the last page, reached where it lies.
InitTable ==
    /\ Booting("init") /\ at[BootCPU].level > 1
    /\ TakeFrame
    /\ mem' = [Write(mem, at[BootCPU].table, LastSlot, ToTable(NextFrame)) EXCEPT ![NextFrame] = Empty]
    /\ Walk(BootCPU, NextFrame, at[BootCPU].level - 1)
    /\ UNCHANGED <<machine, lock_paging, context, cr3, tlb, phase, mapped, pc, call, calls>>

InitWindow ==
    /\ Booting("init") /\ at[BootCPU].level = 1
    /\ mem' = WindowEntries(mem, at[BootCPU].table)
    /\ phase' = "context"
    /\ UNCHANGED <<machine, free, lock_paging, context, cr3, tlb, mapped, pc, call, at, calls>>

\* paging_context: the top table, then one of each level for its last page,
\* each reached through the window.
ContextRoot ==
    /\ Booting("context") /\ TakeFrame
    /\ lock_paging = 0 /\ lock_paging' = 1
    /\ context' = Masked(NextFrame)
    /\ ClearThroughWindow(BootCPU, mem, NextFrame)
    /\ Walk(BootCPU, NextFrame, machine.levels)
    /\ phase' = "tables"
    /\ UNCHANGED <<machine, cr3, mapped, pc, call, calls>>

ContextTable ==
    /\ Booting("tables") /\ at[BootCPU].level > 1 /\ Through(BootCPU) \in DOMAIN mem
    /\ TakeFrame
    /\ ClearThroughWindow(BootCPU, Write(mem, Through(BootCPU), LastSlot, ToTable(NextFrame)),
                          NextFrame)
    /\ Walk(BootCPU, NextFrame, at[BootCPU].level - 1)
    /\ UNCHANGED <<machine, lock_paging, context, cr3, phase, mapped, pc, call, calls>>

ContextWindow ==
    /\ Booting("tables") /\ at[BootCPU].level = 1 /\ Through(BootCPU) \in DOMAIN mem
    /\ mem' = WindowEntries(mem, Through(BootCPU))
    /\ lock_paging' = 0
    /\ phase' = "map"
    /\ UNCHANGED <<machine, free, context, cr3, tlb, mapped, pc, call, at, calls>>

\* "Ran out of memory while initializing paging!" and "while mapping!".
BootFails ==
    /\ pc[BootCPU] = "idle" /\ free = {}
    /\ phase = "context" \/ (phase \in {"init", "tables"} /\ at[BootCPU].level > 1)
    /\ lock_paging' = 0
    /\ Go(BootCPU, "stopped")
    /\ UNCHANGED <<machine, mem, free, context, cr3, tlb, phase, mapped, call, at, calls>>

-----------------------------------------------------------------------------
(* paging_map.                                                             *)

Reserved(page) == page >= InvalidatorPage

Enter(p, r) == /\ call' = [call EXCEPT ![p] = r]
               /\ Go(p, IF Reserved(r.page) THEN "stopped" ELSE "lock")

\* kernel_entry tries two pages, then maps RAM to itself before it switches.
MapFirst ==
    /\ Booting("map") /\ mapped = 0 /\ calls[BootCPU] + 1 \in DOMAIN machine.first
    /\ Enter(BootCPU, machine.first[calls[BootCPU] + 1])
    /\ calls' = [calls EXCEPT ![BootCPU] = @ + 1]
    /\ UNCHANGED <<machine, mem, free, lock_paging, context, cr3, tlb, phase, mapped, at>>

MapRAM ==
    /\ Booting("map") /\ mapped < machine.ram /\ calls[BootCPU] = Len(machine.first)
    /\ Enter(BootCPU, [page |-> mapped, frame |-> mapped, flags |-> {"present", "write", "user"}])
    /\ mapped' = mapped + 1
    /\ UNCHANGED <<machine, mem, free, lock_paging, context, cr3, tlb, phase, at, calls>>

\* paging_switch, which empties the cache; the other processors start there.
Switch ==
    /\ Booting("map") /\ mapped = machine.ram
    /\ cr3' = [p \in CPUs |-> context]
    /\ tlb' = [tlb EXCEPT ![BootCPU] = NoFrame]
    /\ phase' = "running"
    /\ calls' = [calls EXCEPT ![BootCPU] = 0]
    /\ UNCHANGED <<machine, mem, free, lock_paging, context, mapped, pc, call, at>>

Call(p, r) ==
    /\ phase = "running" /\ pc[p] = "idle" /\ calls[p] < MaxCalls
    /\ Enter(p, r)
    /\ calls' = [calls EXCEPT ![p] = @ + 1]
    /\ UNCHANGED <<machine, mem, free, lock_paging, context, cr3, tlb, phase, mapped, at>>

\* Variant: lock does not wait.
LockAtOnce(p) ==
    /\ pc[p] = "lock"
    /\ lock_paging' = 1
    /\ Walk(p, context, machine.levels)
    /\ Go(p, "point")
    /\ UNCHANGED <<machine, mem, free, context, cr3, tlb, phase, mapped, call, calls>>

Lock(p) ==
    /\ pc[p] = "lock" /\ lock_paging = 0
    /\ lock_paging' = 1
    /\ Walk(p, context, machine.levels)
    /\ Go(p, "point")
    /\ UNCHANGED <<machine, mem, free, context, cr3, tlb, phase, mapped, call, calls>>

Point(p) ==
    /\ pc[p] = "point"
    /\ PointWindow(p, at[p].table)
    /\ Go(p, "use")
    /\ UNCHANGED <<machine, free, lock_paging, context, cr3, phase, mapped, call, at, calls>>

\* The processor uses the window, and caches what it shows.
Use(p) == /\ pc[p] = "use" /\ Through(p) \in DOMAIN mem
          /\ tlb' = [tlb EXCEPT ![p] = Through(p)]

Number(p) == Index(call[p].page, at[p].level)

Descend(p) ==
    /\ Use(p) /\ at[p].level > 1
    /\ Present(mem[Through(p)][Number(p)])
    /\ Walk(p, mem[Through(p)][Number(p)].frame, at[p].level - 1)
    /\ Go(p, "point")
    /\ UNCHANGED <<machine, mem, free, lock_paging, context, cr3, phase, mapped, call, calls>>

\* A new table is cleared where it lies, not through the window.
\* Variant: it is not cleared.
UnclearedAt(m, p, frame) == m

ClearedAt(m, p, frame) == [m EXCEPT ![Shows(m, cr3[p], frame)] = Empty]

AddTable(p) ==
    /\ Use(p) /\ at[p].level > 1
    /\ ~Present(mem[Through(p)][Number(p)])
    /\ TakeFrame
    /\ Shows(mem, cr3[p], NextFrame) \in DOMAIN mem
    /\ mem' = Write(ClearedAt(mem, p, NextFrame), Through(p), Number(p), ToTable(NextFrame))
    /\ Walk(p, Masked(NextFrame), at[p].level - 1)
    /\ Go(p, "point")
    /\ UNCHANGED <<machine, lock_paging, context, cr3, phase, mapped, call, calls>>

\* Variant: the lock is kept.
OutOfMemoryLocked(p) ==
    /\ Use(p) /\ at[p].level > 1
    /\ ~Present(mem[Through(p)][Number(p)]) /\ free = {}
    /\ Go(p, "stopped")
    /\ UNCHANGED <<machine, mem, free, lock_paging, context, cr3, phase, mapped, call, at, calls>>

\* "Ran out of memory while mapping!"
OutOfMemory(p) ==
    /\ Use(p) /\ at[p].level > 1
    /\ ~Present(mem[Through(p)][Number(p)]) /\ free = {}
    /\ lock_paging' = 0
    /\ Go(p, "stopped")
    /\ UNCHANGED <<machine, mem, free, context, cr3, phase, mapped, call, at, calls>>

\* Flags are cut to those of "& 0x0f7f"; then *invalidator = NULL.
SetEntry(p) ==
    /\ Use(p) /\ at[p].level = 1
    /\ LET entry == [frame |-> Masked(call[p].frame), flags |-> call[p].flags \ {"pat"}]
       IN  mem' = SetInvalidator(Write(mem, Through(p), Number(p), entry), cr3[p], Absent)
    /\ Go(p, "unlock")
    /\ UNCHANGED <<machine, free, lock_paging, context, cr3, phase, mapped, call, at, calls>>

Unlock(p) ==
    /\ pc[p] = "unlock"
    /\ lock_paging' = 0
    /\ Go(p, "idle")
    /\ UNCHANGED <<machine, mem, free, context, cr3, tlb, phase, mapped, call, at, calls>>

Boot == \/ InitTable \/ InitWindow \/ ContextRoot \/ ContextTable \/ ContextWindow
        \/ BootFails \/ MapFirst \/ MapRAM \/ Switch

Step(p) == \/ Lock(p) \/ Point(p) \/ Descend(p) \/ AddTable(p) \/ OutOfMemory(p)
           \/ SetEntry(p) \/ Unlock(p)

Next == Boot \/ \E p \in CPUs : Step(p) \/ \E r \in machine.requests : Call(p, r)

\* kernel_entry goes on, and so does a processor in a call.
Spec == Init /\ [][Next]_vars /\ WF_vars(Boot) /\ \A p \in CPUs : WF_vars(Step(p))

-----------------------------------------------------------------------------
\* One level further: what the entries of these tables lead to, each with the
\* part of the page number that leads there.
Entries(tables) ==
    UNION {{<<t[1] * SIZE + n, mem[t[2]][n].frame>> : n \in {k \in 0 .. LastSlot : Present(mem[t[2]][k])}} :
             t \in {u \in tables : u[2] \in DOMAIN mem}}

\* The tables of every level below a root and, as those of level 0, the frames
\* of the pages.
Reached(root) ==
    LET tables[l \in 0 .. machine.levels] ==
          IF l = machine.levels THEN {<<0, root>>} ELSE Entries(tables[l + 1])
    IN  tables

\* The page tables of the context, read as the processor reads them, implement
\* the abstract map: the steps that add tables change no page, whatever the
\* frames held, and the one that sets the entry changes the page asked for.
Shown == [page \in {r[1] : r \in Reached(context)[0]} \ {InvalidatorPage, Window} |->
            EntryOf(mem, context, page)]

Waiting(p) == IF pc[p] = "idle" THEN NoCall
              ELSE IF pc[p] = "unlock" THEN [page |-> 0, frame |-> 0, flags |-> {}] ELSE call[p]

Map == INSTANCE PageMap WITH
         None <- NoCall,
         mapping <- IF phase \in {"map", "running"} THEN Shown ELSE <<>>,
         request <- [p \in CPUs |-> Waiting(p)]

ImplementsPageMap == Map!MapSpec

\* A processor that uses the window reaches the table it is walking, not one
\* that another processor walks, nor one it cached before.
WindowShowsTable == \A p \in CPUs : pc[p] = "use" => Through(p) = at[p].table

\* The places of the trees that hold a table, each with its tree, its level, its
\* part and the table.
TablePlaces == UNION {{<<root, l, t[1], t[2]>> : t \in Reached(root)[l]} :
                        root \in {BootRoot} \cup ({context} \ {NoFrame}),
                        l \in 1 .. machine.levels}

\* Every frame taken from the allocator is one table of one tree: no table is
\* shared, lost or in two places.
TablesOwned ==
    LET held == {t[4] : t \in TablePlaces}
    IN  Cardinality(held) = Cardinality(TablePlaces) /\ held = DOMAIN mem \ free

\* Boot comes to its end, and every call returns or stops its processor.
Terminates == /\ <>(phase = "running" \/ pc[BootCPU] = "stopped")
              /\ \A p \in CPUs : pc[p] = "lock" ~> pc[p] \in {"idle", "stopped"}
=============================================================================
