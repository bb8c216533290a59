------------------------------- MODULE SmpBoot ------------------------------
(***************************************************************************)
(* Bringing up the application processors: smp_init on the boot processor, *)
(* the trampoline of src/smpinit at 0x8000 and kernel_entry_smp on the     *)
(* others.  All of them share the one page of startup data; interprocessor *)
(* interrupts take their time, and may be lost.                            *)
(***************************************************************************)
EXTENDS Naturals, Sequences, FiniteSets

CONSTANTS
    Boards,     \* what firmware left in memory: floats, the floating structures, each
                \* with the place it lies at (in units of its size, 16 bytes), whether
                \* its checksum is right, whether it leads to a table, and whether it
                \* asks for a default configuration instead; signature, of the table;
                \* local_apic, where it is; entries, the table's, each with the place
                \* it lies at (in bytes from the first)
    MaxLost     \* bound: startup interrupts that get lost, per processor

VARIABLES
    board,      \* the machine, constant
    pc,         \* where smp_init is
    offset,     \* what iterator points at, in bytes from the first entry
    entries,    \* how many entries were read
    cpu_index,  \* the next of smp_processors to fill; they count from 1
    mapped,     \* devices that paging_map has mapped
    smp_processor_count,
    smp_processors,     \* a sequence of [apic, boot, up]
    i,          \* index of the processor being started
    startup,    \* the startup data at 0x8000: [status, stack]
    stacks,     \* stacks allocated so far, numbered from 1
    ap,         \* what each processor but the boot one executes
    loaded,     \* the status each one has loaded to set SMP_RUNNING in it
    stackOf,    \* the stack each one runs on, 0 for none
    sipi,       \* how many startup interrupts are on their way to it
    lost        \* how many got lost

tableVars == <<offset, entries, cpu_index, mapped>>
listVars == <<smp_processor_count, smp_processors>>
startVars == <<i, stacks, startup>>
apVars  == <<ap, loaded, stackOf>>
ipiVars == <<sipi, lost>>
vars == <<board, pc, tableVars, listVars, startVars, apVars, ipiVars>>

\* What others do leaves all that smp_init alone uses.
bspVars == <<board, pc, tableVars, listVars, i, stacks>>

IsProcessor(e) == e.type = 0
Active(e) == IsProcessor(e) /\ "SMP_FLAG_ACTIVE" \in e.flags
Boot(e) == "SMP_FLAG_BOOT" \in e.flags

APsOf(b) == {b.entries[k].apic : k \in {l \in DOMAIN b.entries :
                                         IsProcessor(b.entries[l]) /\ ~Boot(b.entries[l])}}

AllIds == UNION {APsOf(b) : b \in Boards}

\* Firmware marks the processor it started, that one only, which is active if any is,
\* and gives each its own id.
ASSUME BoardsAssumption ==
    \A b \in Boards :
        LET cpus == {k \in DOMAIN b.entries : IsProcessor(b.entries[k])}
            active == {k \in cpus : Active(b.entries[k])}
        IN  /\ cpus # {} => \E k \in cpus : \A l \in cpus : Boot(b.entries[l]) <=> l = k
            /\ active # {} => \E k \in active : Boot(b.entries[k])
            /\ \A k, l \in cpus : b.entries[k].apic = b.entries[l].apic => k = l

\* sizeof(smp_config_processor_t), sizeof(smp_config_entry_t).
SizeOf(e) == IF IsProcessor(e) THEN 20 ELSE 8

\* The entries of a table follow one another.
InARow(t) == /\ Len(t) \in Nat /\ DOMAIN t = 1 .. Len(t)
             /\ \A k \in 1 .. Len(t) : t[k].at \in Nat
             /\ Len(t) > 0 => t[1].at = 0
             /\ \A k \in 1 .. (Len(t) - 1) : t[k + 1].at = t[k].at + SizeOf(t[k])
             /\ \A k, l \in 1 .. Len(t) : k < l => t[k].at < t[l].at

ASSUME TablesAssumption == \A b \in Boards : InARow(b.entries)

-----------------------------------------------------------------------------
(* The floating structure and the table it leads to.                       *)

NULL == [at |-> 0, valid |-> FALSE, table |-> FALSE, default |-> FALSE]

\* The first one, size bytes from start on.
smp_find_floating(start, size) ==
    LET found == {f \in board.floats : f.valid /\ f.at \in start .. (start + size \div 16 - 1)}
    IN  IF found = {} THEN NULL ELSE CHOOSE f \in found : \A g \in found : f.at <= g.at

\* The interrupt table, the last 1 KiB below 640 KiB and the BIOS.
floating == LET low == smp_find_floating(0, 1024)
                high == smp_find_floating(40896, 1024)
            IN  IF low # NULL THEN low
                ELSE IF high # NULL THEN high ELSE smp_find_floating(57344, 131072)

\* What lies inside an entry is none.
Unknown == [type |-> 5, apic |-> 0, flags |-> {}]

EntryAt == LET here == {k \in DOMAIN board.entries : board.entries[k].at = offset}
           IN  IF here = {} THEN Unknown ELSE board.entries[CHOOSE k \in here : TRUE]

-----------------------------------------------------------------------------
Init == /\ board \in Boards
        /\ pc = "find"
        /\ offset = 0 /\ entries = 0 /\ cpu_index = 1 /\ mapped = {}
        /\ smp_processor_count = 0
        /\ smp_processors = <<>>
        /\ i = 1
        /\ startup = [status |-> {}, stack |-> 0]
        /\ stacks = 0
        /\ ap = [a \in AllIds |-> "firmware"]
        /\ loaded = [a \in AllIds |-> {}]
        /\ stackOf = [a \in AllIds |-> 0]
        /\ sipi = [a \in AllIds |-> 0]
        /\ lost = [a \in AllIds |-> 0]

Goto(from, to) == pc = from /\ pc' = to

\* "SMP NOT SUPPORTED", "SMP SIGNATURE INVALID": while(1).
FindTable ==
    /\ pc = "find"
    /\ pc' = IF floating.table /\ ~floating.default /\ board.signature THEN "map" ELSE "hung"
    /\ UNCHANGED <<board, tableVars, listVars, startVars, apVars, ipiVars>>

\* paging_map, and local_apic_init writes to it.
MapLocalApic ==
    /\ Goto("map", "count")
    /\ mapped' = {board.local_apic}
    /\ UNCHANGED <<board, offset, entries, cpu_index, listVars, startVars, apVars, ipiVars>>

\* iterator++ or cpu++, after which the loop goes on or ends.
Advance(e) == offset' = offset + SizeOf(e) /\ entries' = entries + 1

\* The first pass.
CountEntry ==
    /\ pc = "count" /\ entries < Len(board.entries)
    /\ IF EntryAt.type > 4 THEN pc' = "hung" ELSE pc' = pc
    /\ Advance(EntryAt)
    /\ smp_processor_count' = IF Active(EntryAt) THEN smp_processor_count + 1
                              ELSE smp_processor_count
    /\ UNCHANGED <<board, cpu_index, mapped, smp_processors, startVars, apVars, ipiVars>>

\* An allocation of size 0 returns an area of size 0: it counts as a failure.
AllocProcessors ==
    /\ pc = "count" /\ entries = Len(board.entries)
    /\ pc' = IF smp_processor_count = 0 THEN "hung" ELSE "fill"
    /\ smp_processors' = [k \in 1 .. smp_processor_count |->
                            [apic |-> 0, boot |-> FALSE, up |-> FALSE]]
    /\ offset' = 0 /\ entries' = 0
    /\ UNCHANGED <<board, cpu_index, mapped, smp_processor_count, startVars, apVars, ipiVars>>

\* io->flags & 1.
IsIoApic(e) == e.type = 2 /\ "enabled" \in e.flags

\* The second pass.  Variant: it lists the disabled processors, too.
FillEntryAll ==
    /\ pc = "fill" /\ entries < Len(board.entries)
    /\ Advance(EntryAt)
    /\ IF IsProcessor(EntryAt)
       THEN /\ smp_processors' = [smp_processors EXCEPT ![cpu_index] =
                                    [apic |-> EntryAt.apic, boot |-> Boot(EntryAt),
                                     up |-> Boot(EntryAt)]]
            /\ cpu_index' = cpu_index + 1
       ELSE UNCHANGED <<smp_processors, cpu_index>>
    /\ mapped' = IF IsIoApic(EntryAt) THEN mapped \cup {EntryAt.apic} ELSE mapped
    /\ UNCHANGED <<board, pc, smp_processor_count, startVars, apVars, ipiVars>>

FillEntry ==
    /\ pc = "fill" /\ entries < Len(board.entries)
    /\ Advance(EntryAt)
    /\ IF Active(EntryAt)
       THEN /\ smp_processors' = [smp_processors EXCEPT ![cpu_index] =
                                    [apic |-> EntryAt.apic, boot |-> Boot(EntryAt),
                                     up |-> Boot(EntryAt)]]
            /\ cpu_index' = cpu_index + 1
       ELSE UNCHANGED <<smp_processors, cpu_index>>
    /\ mapped' = IF IsIoApic(EntryAt) THEN mapped \cup {EntryAt.apic} ELSE mapped
    /\ UNCHANGED <<board, pc, smp_processor_count, startVars, apVars, ipiVars>>

\* One processor is enough.
Filled ==
    /\ pc = "fill" /\ entries = Len(board.entries)
    /\ pc' = IF smp_processor_count = 1 THEN "done" ELSE "init"
    /\ UNCHANGED <<board, tableVars, listVars, startVars, apVars, ipiVars>>

\* paging_map stops with "Ran out of memory while mapping!", the allocation with
\* "Ran out of memory while initializing SMP!".
OutOfMemory ==
    /\ \/ pc = "map"
       \/ pc = "count" /\ entries = Len(board.entries)
       \/ pc = "fill" /\ entries < Len(board.entries) /\ IsIoApic(EntryAt)
    /\ pc' = "hung"
    /\ UNCHANGED <<board, tableVars, listVars, startVars, apVars, ipiVars>>

-----------------------------------------------------------------------------
(* Starting the others.                                                    *)

\* INIT to all processors but this one, then its end; hlt waits for the timer.
SendInit ==
    /\ pc = "init" /\ pc' = "next"
    /\ ap' = [a \in AllIds |-> IF a \in APsOf(board) THEN "wait for SIPI" ELSE ap[a]]
    /\ UNCHANGED <<board, tableVars, listVars, startVars, loaded, stackOf, ipiVars>>

SkipBoot ==
    /\ pc = "next" /\ i <= smp_processor_count
    /\ smp_processors[i].boot
    /\ i' = i + 1
    /\ UNCHANGED <<board, pc, tableVars, listVars, stacks, startup, apVars, ipiVars>>

AllStarted ==
    /\ i > smp_processor_count /\ Goto("next", "done")
    /\ UNCHANGED <<board, tableVars, listVars, startVars, apVars, ipiVars>>

\* Variant: one stack for all.
PrepareOnce ==
    /\ pc = "next" /\ i <= smp_processor_count
    /\ ~smp_processors[i].boot
    /\ stacks' = 1 /\ startup' = [status |-> {}, stack |-> 1]
    /\ pc' = "send"
    /\ UNCHANGED <<board, tableVars, listVars, i, apVars, ipiVars>>

\* Copy the trampoline, clear the status, and give it a stack of its own.
Prepare ==
    /\ pc = "next" /\ i <= smp_processor_count
    /\ ~smp_processors[i].boot
    /\ stacks' = stacks + 1
    /\ startup' = [status |-> {}, stack |-> stacks']
    /\ pc' = "send"
    /\ UNCHANGED <<board, tableVars, listVars, i, apVars, ipiVars>>

\* "Ran out of memory while initializing SMP!".
PrepareFails ==
    /\ pc = "next" /\ i <= smp_processor_count
    /\ ~smp_processors[i].boot
    /\ startup' = [startup EXCEPT !.status = {}]
    /\ pc' = "hung"
    /\ UNCHANGED <<board, tableVars, listVars, i, stacks, apVars, ipiVars>>

Sipi(from, to) ==
    /\ Goto(from, to)
    /\ sipi' = [sipi EXCEPT ![smp_processors[i].apic] = @ + 1]
    /\ UNCHANGED <<board, tableVars, listVars, startVars, apVars, lost>>

Send == Sipi("send", "check")

Seen == /\ Goto("check", "wait")
        /\ UNCHANGED <<board, tableVars, listVars, startVars, apVars, ipiVars>>

\* Variant: no second startup interrupt.
CheckOnce == Seen

\* After a hlt: a second startup interrupt unless the first one shows.
Check == IF "SMP_STARTING" \in startup.status THEN Seen
         ELSE Sipi("check", "wait")

\* Variant: the boot processor goes on when the trampoline has begun.
WaitStarting ==
    /\ pc = "wait" /\ startup.status # {}
    /\ smp_processors' = [smp_processors EXCEPT ![i].up = TRUE]
    /\ i' = i + 1 /\ pc' = "next"
    /\ UNCHANGED <<board, tableVars, smp_processor_count, stacks, startup, apVars, ipiVars>>

\* while (!(startup_data->status & SMP_RUNNING)).
WaitRunning ==
    /\ pc = "wait" /\ "SMP_RUNNING" \in startup.status
    /\ smp_processors' = [smp_processors EXCEPT ![i].up = TRUE]
    /\ i' = i + 1 /\ pc' = "next"
    /\ UNCHANGED <<board, tableVars, smp_processor_count, stacks, startup, apVars, ipiVars>>

BSP == \/ FindTable \/ MapLocalApic \/ CountEntry \/ AllocProcessors \/ FillEntry \/ Filled
       \/ OutOfMemory \/ SendInit \/ SkipBoot \/ AllStarted \/ Prepare \/ PrepareFails
       \/ Send \/ Check \/ WaitRunning

-----------------------------------------------------------------------------
\* A startup interrupt arrives; a processor that runs already ignores it.
Deliver(a) ==
    /\ sipi[a] > 0 /\ sipi' = [sipi EXCEPT ![a] = @ - 1]
    /\ ap' = [ap EXCEPT ![a] = IF @ = "wait for SIPI" THEN "trampoline" ELSE @]
    /\ UNCHANGED <<bspVars, startup, loaded, stackOf, lost>>

Lose(a) ==
    /\ sipi[a] > 0 /\ sipi' = [sipi EXCEPT ![a] = @ - 1]
    /\ lost[a] < MaxLost /\ lost' = [lost EXCEPT ![a] = @ + 1]
    /\ UNCHANGED <<bspVars, startup, apVars>>

\* movb $1, (smp_initializer_status).
Starting(a) ==
    /\ ap[a] = "trampoline" /\ ap' = [ap EXCEPT ![a] = "protected mode"]
    /\ startup' = [startup EXCEPT !.status = {"SMP_STARTING"}]
    /\ UNCHANGED <<bspVars, loaded, stackOf, ipiVars>>

\* movl (smp_initializer_stack), %esp, and on to kernel_entry_smp.
TakeStack(a) ==
    /\ ap[a] = "protected mode" /\ ap' = [ap EXCEPT ![a] = "kernel_entry_smp"]
    /\ stackOf' = [stackOf EXCEPT ![a] = startup.stack]
    /\ UNCHANGED <<bspVars, startup, loaded, ipiVars>>

\* startup_data->status |= SMP_RUNNING, a load and a store.
LoadStatus(a) ==
    /\ ap[a] = "kernel_entry_smp" /\ ap' = [ap EXCEPT ![a] = "or"]
    /\ loaded' = [loaded EXCEPT ![a] = startup.status]
    /\ UNCHANGED <<bspVars, startup, stackOf, ipiVars>>

StoreStatus(a) ==
    /\ ap[a] = "or" /\ ap' = [ap EXCEPT ![a] = "running"]
    /\ startup' = [startup EXCEPT !.status = loaded[a] \cup {"SMP_RUNNING"}]
    /\ UNCHANGED <<bspVars, loaded, stackOf, ipiVars>>

APStep(a) == Starting(a) \/ TakeStack(a) \/ LoadStatus(a) \/ StoreStatus(a)

Next == BSP \/ \E a \in AllIds : APStep(a) \/ Deliver(a) \/ Lose(a)

\* Every processor executes; an interrupt sent arrives or is lost.
Fairness == /\ WF_vars(BSP)
            /\ \A a \in AllIds : WF_vars(APStep(a)) /\ WF_vars(Deliver(a))

Spec == Init /\ [][Next]_vars /\ Fairness

-----------------------------------------------------------------------------
InTrampoline(a) == ap[a] \in {"trampoline", "protected mode", "kernel_entry_smp", "or"}

\* The startup page is shared by all: the word that holds the stack is rewritten
\* only when no processor still executes the trampoline or has its status to
\* set, however late its interrupt arrived and whether or not it was sent twice.
\* (The status, which both sides write, and the copy of the code are not meant.)
TrampolineStable ==
    [][startup'.stack # startup.stack => \A a \in AllIds : ~InTrampoline(a)]_vars

\* No two processors run on one stack, and none on what is not a stack.
OwnStack ==
    \A a, b \in AllIds :
        /\ stackOf[a] = 0 => ap[a] \notin {"kernel_entry_smp", "or", "running"}
        /\ a # b /\ stackOf[a] # 0 => stackOf[a] # stackOf[b]

\* A processor marked up runs the kernel, and no other is left half started
\* when smp_init returns.
UpIsRunning ==
    /\ \A k \in DOMAIN smp_processors :
         smp_processors[k].up /\ ~smp_processors[k].boot => ap[smp_processors[k].apic] = "running"
    /\ pc = "done" => \A k \in DOMAIN smp_processors : smp_processors[k].up

Listed == {k \in DOMAIN board.entries : Active(board.entries[k])}

\* Whatever lies between them in the table, the processors that are started are
\* those that it lists as active, all of them and in that order, each written inside
\* the array that the first pass counted.  The devices that smp_init and the kernel
\* talk to from then on are mapped: the local APIC and every IO APIC in use.
TableRead ==
    pc \notin {"find", "map", "count", "fill", "hung"} =>
        /\ cpu_index = Len(smp_processors) + 1
        /\ \E nth \in [DOMAIN smp_processors -> Listed] :
             /\ \A k, l \in DOMAIN nth : k < l => nth[k] < nth[l]
             /\ \A e \in Listed : \E k \in DOMAIN nth : nth[k] = e
             /\ \A k \in DOMAIN nth : smp_processors[k].apic = board.entries[nth[k]].apic
        /\ mapped = {board.local_apic} \cup
             {board.entries[k].apic : k \in {l \in DOMAIN board.entries :
                                               IsIoApic(board.entries[l])}}

\* smp_init returns or gives up with a message, although one startup interrupt
\* of every processor may be lost.
Terminates == <>(pc \in {"done", "hung"})
=============================================================================
