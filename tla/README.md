# kernel5: a TLA+ development

kernel5 is a small kernel for i386 and amd64 (`src/src/kernel`, headers in `src/inc`). The
modules here model what its code does, the runs model-check them on small machines, and
the proofs establish for every machine the main facts about the memory manager, its lock, the
start of the processors, the threads and their lists, the console, paging, interrupts and
system calls. Paths below are those of the kernel's own tree (`memory.c` is
`src/kernel/memory.c`).

## Inventory

| part | state | operations | what makes it correct |
|---|---|---|---|
| memory manager, `memory.c` | `list_free`, `list_used`: doubly linked lists of containers that lie in the memory they describe; `lock_memory` | `memory_alloc`, `memory_free`, `memory_init`, `memory_sort`, `memory_foreach`, `memory_information` | no byte is handed out twice or lost; blocks merge; the lists stay linked and sorted |
| spin lock, `lock.c` | a word per lock | `lock`, `unlock`; `locked`, `lock_wait`, `locked_increment`/`_decrement` (no callers) | one holder; every holder releases |
| starting processors, `smp.c`, `smpinit/`, `kernel_entry_smp` | `smp_processors`, the startup page at 0x8000 | two passes over the MP table, INIT, startup interrupts, the trampoline | each active processor started once, on its own stack; the boot processor comes to an end |
| memory walk, `kernel_entry` + `memory_foreach` | two static iterators | map every area while page tables are allocated | every area mapped |
| threads, `thread.c`, `help/list.h` | lists `threads` and `processes`, `thread_pid`, `lock_thread` | `thread_create`, `thread_destroy`, `thread_schedule` | lists hold the live threads in order of creation; all or nothing on failure; a process goes with its last thread; lock released |
| paging, `paging.c`, `arch/*/paging.c` | page table trees, `lock_paging` | `paging_context`, `paging_map`, `paging_switch` | what is mapped is what was asked |
| console, `console.c` | cursor, color, `lock_printf` | `putc`, `printf` | cursor stays on screen; numbers print as they are |
| interrupts, `isr.c`, `arch/*/isrs.S`, `kernel_entry` | the stacks, the processor's registers, the controllers' masks and requests | stubs, `isr_handler`, the end of an interrupt | interrupted code goes on unharmed; every request is served; exceptions are reported as they are |
| system calls, `syscall.c`, `arch/*/syscall.c` | `syscall_table`, on i386 `isr_stub_system_iret` | `int $81` through registers or two stacks | the function meant gets the arguments meant |
| descriptor tables, `gdt.c`, `idt.c`, `tss.c` | tables filled once | `gdt_init`, `idt_init`, `tss_init` and their loads | the processor reads out of the fields what was put in |
| PIC and ports, `pic.c`, `io.c` | registers of two 8259 | `pic_init`, `outb` | lines arrive at vectors 32 to 47 |
| CPUID, `cpuid.c` | the standard and extended limits | `cpuid`, `cpuid_extended` | support is recognised |
| strings, `boot.S`, link scripts, `tools/nukeinit.c` | | | not modelled, see below |

Parts meet in these ways: everything that needs memory calls `memory_alloc`/`memory_free`,
under its own lock if it has one (`lock_thread` and `lock_paging` are taken before
`lock_memory`, and that before `lock_printf`); the boot processor and the others share the
startup page, the APIC and, later, every lock; `memory_foreach` reads the lists without the
lock. `thread_create` has no caller yet; concurrency is that of processors and of interrupts.
There is no persistence. The hard parts are unsigned arithmetic at block boundaries, long
sequences of allocations and frees, pointers rewritten in place, lists changed while they are
walked, what is read after a lock was released, processors that answer late or never,
interrupts between any two instructions, and a lock that is kept on a path that fails.
`PROJECT.json` lists each hazard at its line.

## Modules

| module | models | how |
|---|---|---|
| `Words` | `size_t`, `uintptr_t` | numbers modulo `W` |
| `Fit` | the conditions of `memory_alloc` | which container serves a request, in wrapping arithmetic |
| `Allocator` | what the memory manager promises | the abstract specification: areas in use are apart and go back once |
| `Memory` | `memory_alloc`, `memory_free` | a list is the set of its containers; a call is one action |
| `MemoryProofs` | | theorems about `Memory` |
| `MemoryHeap` | the pointer code | each C function as a function on a heap: `list_free`, `list_used`, containers by address |
| `MemoryList` | `memory_alloc`, `memory_free` on pointers | refines `Memory` |
| `MemoryListProofs` | | theorems about `MemoryList` |
| `MemoryInit` | `memory_init` | one action per entry of the memory map, per added block, per pair of the overlap pass; its result must satisfy what `Memory` and `MemoryList` assume of their initial lists |
| `MemoryWalk` | `memory_foreach`, the loop of `kernel_entry`, what `paging_*` allocate | one action per page mapped; the iterators, `i` and `e` are variables |
| `PageMap` | what `paging_map` promises | the abstract specification: one page changes, before the call returns |
| `Paging` | `paging_init`, `paging_context`, `paging_map`, `paging_switch` of i386 and amd64 | the tables themselves in RAM, read as the processor reads them; the window, `*invalidator` and its cached translation; a call of `paging_map` is a step per table |
| `PagingProofs` | | theorems about `Paging` |
| `Convert` | `convert_number` | a function from a number and its format to a text, and what a reader makes of the text |
| `Console` | `putc`, `puts`, `printf`, `lock_printf` | one action per directive of a format, of several processors at once |
| `ConsoleProofs` | | theorems about `Console` |
| `MemorySmp` | processors in the memory manager | a call taken apart: lock, walk, change, unlock, read of the result |
| `MemorySmpProofs` | | theorems about `MemorySmp` |
| `SmpBoot` | `smp_find_floating`, `smp_init`, trampoline, `kernel_entry_smp` | both passes over the table, entry by entry; then boot processor, other processors and interrupts interleave |
| `SmpBootProofs` | | theorems about `SmpBoot` |
| `DLList` | `help/list.h` | each macro as a function on a heap with two lists |
| `ThreadTable` | what `thread.c` promises | the abstract specification: a thread has one process from start to end, and a place in line from after its start to before its end |
| `Threads` | `thread_create`, `thread_destroy`, `thread_schedule` | several processors in any order; a call is a step per allocation, list operation, lock and unlock; any allocation may fail; a header overwritten by a node may lead the memory manager astray |
| `ThreadsProofs` | | theorems about `Threads` |
| `Descriptors` | `gdt.c`, `idt.c`, `tss.c` | entries as their fields, and what the processor reads out of them |
| `Pic` | `pic.c`, `outb` | the writes of the kernel, and two 8259 that answer to them |
| `Stubs` | `isrs.S` | the words each stub pushes and pops |
| `Interrupts` | `kernel_entry` from `pic_init` to the idle loop or to where it stops, `isr_handler`, the two system calls | a program of the operations that interrupts can tell apart, with a branch wherever something may be missing; the processor executes one a step, and takes an interrupt or exception before any |
| `InterruptsProofs` | | theorems about `Interrupts` |
| `MC*` | | the instances TLC checks |

`Memory` is the centre: `MemoryList` shows that the pointers implement its sets, `MemoryInit`
that the boot code establishes its assumption `Consistent(BootFree, BootUsed)`, `MemorySmp` that
a call may count as one action, `Allocator` is what clients rely on (`SmpBoot` takes from it
that every stack is a new one, `Paging` that a page table is a frame nobody else has).
`MemoryWalk` counts the tables that `Paging` builds, and shows that the whole RAM gets mapped;
`Paging` starts its callers with that done. `Threads` takes `memory_alloc` as `Allocator`
promises it, until a header has been overwritten. `Interrupts` composes `Descriptors`, `Pic` and
`Stubs`: a gate is used as `idt_init` wrote it, a vector is what `pic_init` told the
controllers, and `isr_handler` sees the words the stub has left.

Operators marked "Variant:" are plausible mistakes. They are used nowhere in the
specifications; putting one in place of the operator after it must break the property
that `PROJECT.json` names, which shows that the property depends on that code.

### Correspondence

A container is `[hdr, addr, size, freeable]`: the address of the `memory_container_t`, its
`area->address` and `area->size`. `OVERHEAD` is `MEMORY_OVERHEAD`. In `Memory`, `next` and
`prev` are the neighbours in the order of addresses; in `MemoryHeap` they are fields. In
`Paging` an address is a page number, an entry is `[frame, flags]`, a table has `SIZE` entries,
and levels are numbered from the lowest (1, `pt`) up; `machine.levels` is 2 for i386, 4 for
amd64. `Masked` is `& physical_mask`, whose width `KeptBits` derives from the answers of `cpuid`
as the code gets them. What the boot tables map (`machine.boot` pages; `boot.S:26` maps the
first 16 MiB) is given by `EntryOf`, everything else is read from the tables. A format of
`printf` is a sequence of directives instead of characters; a text is a sequence of
one-character strings, because what `Reads` says is about them. `output` is a history of
everything put, which nothing in the model reads. The two branches of `memory_alloc` for
power-of-two and other alignments compute the same numbers and are one operator, `Start`. To
free an empty area is `FreeInvalid` of `Memory`: `memory_free` stops the machine, as it does for
any area that is not on `list_used`. In `Paging`, `NextFrame` leaves open which of the free
frames `memory_alloc` gives. In `Threads` an area is named by its kind and the address of the
thread or process it is for, and a node of a list by the area it lies in. In `Interrupts` a word
on a stack says where it comes from (`<<"num", 14>>`, `<<"own", "ebx">>`), so a register or an
argument that ends up in the wrong place is seen; what depends on the amount of memory or on
another processor, whether an initialiser finds what it needs, whether `memory_alloc` had room,
is a choice there (`Branch`, `CallFunction`). `memory_sort` and the walks over lists are single
steps where nothing can change the list meanwhile. Message texts are left out.

### Callers that keep clear

Three flaws of `memory.c`, below, corrupt the lists. What holds in spite of them is stated for
callers that do not run into them: `Clear(r)` excludes requests whose size wraps when the header
is added (`memory.c:336`), that nearly fit an aligned hole (`NearFit`), or that take the highest
free block exactly (`TakesTop`). It also excludes two harmless kinds that leave or make an empty
block, which has no place in the order of addresses: requests for nothing, and those that leave
an empty rest (`EmptyRest`). `ClearSpec` is `Spec` with that restriction. `NearFit`, `TakesTop`
and `EmptyRest` concern aligned requests only; what `Clear` says of the size it asks of every
request. `TypeOK` is proved without the restriction.

Other modules are restricted in the same open way.

- `Threads`. `Spec` lets callers destroy threads in any order; the theorems about `OneInside` and
  `AreasOwned` are about it. `OrderlySpec`, which the run and the other theorems are about, has
  callers whose call of `thread_destroy` gets the lock only while its thread is not the first of
  several on its list, and does not end a process that is (`Orderly`): there `list.h:106` sets
  `start` to 0 and loses the others. The code has no such guard; it is a restriction of the callers.
  Either way nodes are longer than their areas (`thread.c:47`, `89`), so the first
  `HELP_DLLIST_ADD` overwrites the header of the next block. From then on a call of the memory
  manager, or a write to a node that has been freed, may work or do anything else; where it does
  anything else the behaviour ends (`manager = "astray"`), and the properties say what holds
  until then.
- `MemoryInit`. `CoversRAM` and `LeavesConsistent` are about maps that are `Proper`: no address
  is mentioned twice and no entry wraps; RAM that begins in the first page begins at 0 and does
  not end in it, and what the kernel leaves of an entry has room for a header; nothing reserved
  begins where video memory does (the two containers would not be in order); and no RAM begins
  in video memory, neither as reported nor after containers have been taken from its beginning
  (`memory.c:716-717`, see below). RAM reported as two touching entries is `Proper`,
  but stays two blocks: `memory_init` merges nothing. `LeavesConsistent` therefore claims
  `Merged` of `Separate` maps only. `ListsWellLinked` needs `Sound` maps, in which reserved
  entries may overlap others. `Terminates` is about all maps of the run.
- `Paging`. RAM lies within what the boot tables map. Once the kernel runs, callers map RAM only
  to itself, as the kernel does; new tables are cleared at that address.
- RAM above what the boot tables map. `doc/kernel5.tex:111` says that `memory_init` may crash
  with a page fault when a memory area starts at a high enough address: it writes a header
  there. `MemoryInit` does not model that fault, nor `Paging` the one of a new table there.
- `Console`. `NumbersReadBack` leaves out zero-padded formats with a sign and no precision
  (`SignInside`): there the code prints `00-42` for `%05d` of -42.

## Runs

| run | question | instance |
|---|---|---|
| `memory_clear` | do blocks stay apart, merge completely and lose no byte; do the lists keep the promise of `Allocator`? | 64 addresses, two free blocks around the kernel and small blocks of boot containers; five kinds of request: plain, limited, aligned to a power of two and to three |
| `memory_list` | do the pointers implement the sets, with both lists linked and sorted? | the same machine with three requests |
| `memory_init` | does boot hand over exactly the RAM, in lists that `Memory` may start from; does the overlap pass end and keep the lists linked? | 17,260 memory maps: all `Sound` pairs of entries, RAM or reserved, between 13 places before, in, at the ends of and behind video memory and the kernel, touching ones included; and maps of three to five entries, 24 of them with reserved regions over RAM. 3,816 are `Proper`, 91 of those with RAM entries that touch |
| `memory_walk` | is every block mapped, and does the walk end, though it allocates from the lists it walks? | 72 machines of 64 pages, i386 with one level of tables and amd64 with three, from too little RAM for the tables to plenty |
| `memory_smp` | can processors disturb each other, or lock each other out? | two processors, two areas each, 32 addresses |
| `smp_boot` | is the table read right, and every processor in it started properly when interrupts are late or lost? | ten boards: floating structures in each of the three places, several, broken ones; tables with disabled processors, IO APICs and other entries between up to four processors; one lost interrupt for each |
| `paging` | do the tables show what was mapped; does each processor reach the table it means to; is a table ever lost, or the lock? | boot, with the two pages it tries first, then two processors with two calls each; 16 pages with 2 levels, 256 with 4; from no RAM for the first table to enough for all but the last; devices in tables of their own and shared ones, one page beside the window, the frames of the local and the IO APIC |
| `console` | are messages and numbers right when two processors print; does the screen show the end of it all? | a screen of two lines of three cells; texts that wrap, return, skip lines and scroll; 180 formats of numbers of four bits in every base, sign, width, precision and padding, and 32 of addresses with every flag that `%p` knows |
| `threads` | does one processor at a time touch lists and counts, does nothing leak when an allocation fails, is the lock given back, do the lists keep the promise of `ThreadTable`? | two processors that create, find and destroy as `OrderlySpec` lets them, memory for three threads in two processes, every allocation may fail |
| `interrupts` | does interrupted code go on unharmed, is every request served, every exception reported, do system calls get their arguments, and does the kernel get to its idle loop, or to one of the places where it stops? | both builds, one processor and two; the timer, the first and last line of the second controller with two requests between them, one request that is gone when acknowledged; one exception of vector 2, 14 or 17, before any operation |
| `memory_near`, `memory_top` | disagreements, below | the smallest machine that shows each |

The bounds are small because the hazards are local: a merge involves three neighbours, a fit one
hole, the overlap pass two blocks. Two free blocks that are cut into up to six areas reach every
case of splitting and merging in every order, first and last element of both lists included; 64
addresses are enough for one alignment gap, its headers and an area. The word size is part of
the model, so wrapping is explored rather than assumed away. Tables of four entries have a
first, a last, one for the window and one to share; two calls let one processor reuse what the
other's first call built, or run out of memory after it. In `console` the buffer holds `BUFFER`
= 6 characters, so that widths reach it. Three threads give a list a first, a middle and a last
element; a second process is made and dropped while the first stays. In `interrupts` handlers
run with interrupts disabled, so one request that waits while another is served is all that
nesting there is; an exception in a handler comes on top. The vectors 2 and 14 differ in the
error code, 17 has one and is not a page fault.

### Disagreements found

- `memory_near`: at `memory.c:416` an unsigned subtraction wraps, and an aligned request that
  nearly fits is given bytes of its neighbour.
- `memory_top`: at `memory.c:489-502` a merge forgets `list_free` when the freed block is its
  first element; the next allocations come from a block that no longer exists.

More have no run of their own: a property leaves them out by name, or little depends on them.

- `memory.c:336`: `size + MEMORY_OVERHEAD` wraps for the largest sizes; such a request is served
  from the first block, and its area covers what is free and what is in use. `Clear` leaves such
  sizes out.
- `doc/kernel5.tex:112` lists as a known bug that an alignment that is no power of 2 makes
  `memory_alloc` return "complete garbage". `memory.c:377` rounds up with a remainder for such an
  alignment, and the area is aligned, of the size asked for, and of one free block: `memory_clear`
  asks with an alignment of three, and `KeepsPromise` holds. The document is out of date.
- `memory.c:716-717` moves the address of a free block and then subtracts a difference that it
  has just made 0, so the end of the block moves along with its start, over what is no RAM. It
  happens on maps that mention no address twice, when RAM begins in video memory; `Proper` leaves
  those out.
- `list.h:106` clears `start` when the first of several elements is removed; `thread_schedule`
  (`thread.c:177`) then finds nobody. `Orderly` leaves that out.
- `thread.c:47` asks for the size of a pointer where a node needs three, so `next` and `prev` lie
  over the header of the next block: the memory manager may go astray.
- `memory.c:402`: a request at the right edge of a block is refused, though the comment at 399
  provides for it.
- `memory_init` never merges: RAM that the map reports as two touching entries stays two blocks,
  and an area as large as both is refused.
- `kernel.c:134-143` frees the area of its test call without a look at it: when there was no
  room the area is empty, and `memory_free` stops the machine. `Boots` counts it as one of the
  places where the kernel stops. The others are: no memory map (`kernel.c:77-82`), no memory for
  the stacks of the task state segment (`tss.c:36-40`, `47-51`), for tables, or for the
  processors (`smp.c:141-145`, `272-276`), and a processor that never gets to `SMP_RUNNING`
  (`smp.c:295`).
- `memory.c:98` recognises the end of the first list by comparing `list_used` with a copy made
  when the walk began. If no used block lies above RAM (the memory map lists no ROM there), the
  tables `paging_map` allocates become its first element, and the walk ends without the used
  blocks. The machines of `memory_walk` have such a ROM.
- `kernel.c:103` takes any area of size 0 for the end of the walk: where the kernel ends at an
  address such that the gap before the first page table holds exactly two headers, an empty free
  block is left there, and the blocks after it are not mapped. The machines of `memory_walk` are
  chosen without such a gap.
- `arch/amd64/cpuid.c` flips flag 25 of the flags register instead of 21, and returns the
  difference as a `bool` of one byte, in which it is 0: CPUID is never found, and `cpuid`
  answers zeros. `arch/amd64/paging.c:47` shifts by `76 - bits` where `64 - bits` is meant; with
  0 bits the processor takes the shift modulo 64, and the mask keeps 52 bits, which is right by
  accident. With an answer of 36 bits every frame from 16 MiB on would lose its address: the
  second mutant of `ImplementsPageMap`.
- `thread.c:49-98`: `thread_create` returns `NULL` without `unlock`; every later call spins.
  `LockFreed` of `Threads` excepts it.
- An exception inside `printf` waits for the lock its own processor holds (`isr.c:34`); one
  before `tss_load` on amd64 has no stack to go to (`kernel.c:86`). `FaultsReported` excepts
  both. Vectors 0, 9 and 15 are not installed and are reported as `0xdead`.
- `apic.c:32` gives the local APIC the vector 0x5f for requests that are gone, which has no
  handler that returns.
- A system call beyond the table calls through the code bytes of `syscall_invalid`
  (`arch/amd64/isrs.S:163`). On i386 `memory_alloc` writes its result where the caller's `ebx`
  points, and `isr_stub_system_iret` serves one call at a time.
- `smp.c:285` tests whether a processor has started, but a table whose boot processor has no
  boot flag makes the boot processor wait for itself.
- A character above 0x7f overwrites its own attribute (`console.c:238`). The masks `(char)-1`
  and `(short)-1` of `console.c:55` are sign-extended and cut nothing.
- `memory_sort` orders by address where its comment (`memory.c:119`) says by size.

## Fairness

`Memory`, `MemoryList` are safety specifications: nothing forces a caller to call. `MemoryInit`,
`MemoryWalk`, `Boot` of `Paging` and the boot processor of `SmpBoot` run until they return: weak
fairness. The other processors of `SmpBoot` execute, and an interrupt that is sent arrives
unless it is one of the `MaxLost` lost ones; the timer, at 250 Hz, ends every `hlt`. In
`MemorySmp` a processor goes on with a call it has begun; a spin lock is not fair, so no
processor is promised the lock, only that whoever has it gives it back (`LockFreed`). In
`Paging` the calls are bounded by `MaxCalls`, so a processor that spins gets the lock once the
others are done, and weak fairness of its steps is enough: `Terminates` fails only if somebody
keeps the lock. `Console` is a safety specification. In `Threads` a processor goes on with a
call it has begun, until the memory manager has gone astray, and nothing makes it call;
`LockFreed` excepts that case and a failed `thread_create`. In `OrderlySpec` a call of
`thread_destroy` that is not `Orderly` waits until it is. In `Interrupts` the processor
executes and the timer ticks; a line that asks again and again gets through (strong fairness of
each line), because a processor that has interrupts enabled takes the first line that asks, and
the timer, whose line comes first, leaves time between two ticks: the kernel does something
before the next one (`rested`). Devices and exceptions are under no fairness. `IrqsServed`
leaves out the timer's own line, which asks again at once, and holds until an exception occurs
or the kernel stops with interrupts off; `Boots` ends in the idle loop, in one of the places
where the code stops, or with an exception.

## Proofs

### Memory

`MemoryProofs` proves, for every word size, overhead, boot layout and set of requests:

- `TypeCorrect`: `Spec => []TypeOK`, for any caller.
- `Invariance`: `ClearSpec => []IInv`. `NoOverlap` alone is not inductive: that a split stays
  inside its block needs `Placed` (no block runs past the address space, headers precede
  areas without wrapping), a merge needs `Usable` (which blocks carry a header), and that the
  merged block is not the first element needs `RoomAbove`, a free block above every block
  that may be freed. `IInv` is the conjunction.
- `BlocksNeverOverlap`, `NeverStaleHead`: what follows from it.

The argument has two halves. `Carve` says that replacing a free block by pieces that lie in it
and are apart keeps `Consistent`; `ServeCarves` shows that what `memory_alloc` does is such a
carving, case by case of the fit (`HeadCarves`, `MiddleCarves`). `Return` says the same of
moving a block from used to free, and `Join` of merging two neighbours; `FreeConsistent`
applies them to `memory_free`.

A second part adds to `IInv` that free blocks are merged, if those of the boot lists are
(`Merged(BootFree)`, an assumption of the theorem), and that all bytes are accounted for
(`Kept`). It proves `FreeBlocksCoalesced` (`Coalesced`), `BytesConserved` (`Conserved`) and
`PromiseKept`: `ClearSpec` implements `Allocator`, a call mapping to the `Alloc` or `Free` of
the same area, or to a stutter when it changes nothing a client sees.

The assumptions are those of the constants: `WAssumption`, `OverheadAssumption`,
`RequestsAssumption` and `BootAssumption`; run `memory_init` checks the last of what the boot code
builds from `Proper` maps, and `Merged` of what it builds from those that are `Separate`.

A third part follows the order of the addresses through both operations (`Layout`), for the
lists below.

### The lists of the memory manager

`MemoryListProofs` proves of the pointer code, for every boot layout that meets
`BootAssumption`, every set of requests, and callers that are `Clear`:

- `ListsStayLinked` (`ListsWellLinked`): both lists stay linked both ways, sorted by descending
  addresses, and every container is on exactly one of them.
- `SetsImplemented` (`ImplementsSets`): `MemoryList` implements `Memory`, call by call.
- `PointersKeepPromise`: so it keeps the promise of `Allocator` (by `PromiseKept`).

Neither half of the invariant, `ListInv`, is inductive alone. `Lists` says by addresses what a
list is (`IsList`): the first container is the highest of its set, `next` of each is the highest
below it, `prev` the lowest above it. So nothing has to be said of positions, and what a call
changes is said for the few containers whose neighbours change (`ListWith`, `ListWithout`).
`Layout` says of the sets what the first half cannot: `Consistent` and `Ordered` of `Memory`,
that containers have headers of their own, and that a new header written into a block lies on no
other (`Hosted`).

A walk is a recursive function cut after as many steps as there are containers. `WalkFinds`
shows that on a list the cut takes nothing away: the numbers of the containers met go up to the
number of elements, by a least counterexample. `Finds` then says that a search returns the
highest wanted container, which is what `FirstFit` of `Memory` chooses. The pointer operations
follow, one lemma for each: `LinksPrevNext`, `LinksNextPrev`, `Unlinks`, `PutsIn`, together
`Moves`; `Splits`; `MergesNext`, `MergesPrev`. `AllocServes` composes them for the three fits
(`TakeWhole`, `TakeHead`, `TakeMiddle`), `FreeReturns` for the two merges. The crux of
`memory_free` is `Adjacent`: the code joins with the neighbour in the list, `Memory` with the
neighbour in memory. They are the same where addresses of areas ascend with the blocks, which a
block of RAM whose container lies elsewhere could break; `Ordered` excludes that.

`BootAssumption` of `MemoryList` is `Consistent` (blocks apart, headers where they belong, a
free block above all that may be freed), `OwnHeaders` (containers have headers of their own),
`Hosted` (a header that does not precede its area lies in a block made for it), `Ordered` (areas
in use are not empty and at addresses of their own; a block of RAM whose container lies
elsewhere is never right behind another) and that no header is at 0 (`memory.c:620` skips the
first page). Run `memory_init` checks each of them of what the boot code builds from `Proper`
maps (`LeavesConsistent`). Free blocks may touch: nothing here needs them merged.

### Lock and processors

`MemorySmpProofs` proves `LockExcludes`, that one processor is inside `memory_alloc` or
`memory_free` at a time, for any number of processors and any caller, and `ClearExclusive`: no
two processors hold areas that share a byte (`Exclusive`). A call is several steps, so the
invariant `SmpInv` ties what a processor remembers between them (the container it has found, the
area it will return) to what the lists hold, as long as it has the lock (`Found`), and every
area a processor holds to its own used container (`Claimed`). `PlainExclusive` is `Exclusive`
for callers whose requests are all `Plain`: without an alignment, not for nothing, and of a size
that does not wrap with the header. A limit is allowed. `Plain` is said of a request alone,
where `Clear` looks at what is free, and it is what the callers in the kernel that ask for no
alignment do; the other flaws need an alignment. `BootHeaders` says that containers in the boot
lists have addresses of their own.

`SmpBootProofs` proves, for every board, any number of processors and any number of lost or
late interrupts, `WholeTableRead` (`TableRead`), `StacksOwned` (`OwnStack`), `UpRuns`
(`UpIsRunning`) and `StackStaysInPlace` (`TrampolineStable`). The invariant `BootInv` has four
parts: types; how far the pass over the table has come and what the array holds of it
(`Table`); which processor the boot processor is starting, and what may be on its way to it
(`Start`); whose stack each allocated one is (`Stacks`). The assumptions are that a board has
one table that matches its structures (`BoardsAssumption`) and that its entries follow each
other (`TablesAssumption`).

### Threads

Everything here is about the time before the memory manager has gone astray: a step `Astray`
changes nothing but `manager`, and no step follows. `ThreadsProofs` proves `Exclusion`
(`OneInside`) for any number of processors, any memory and any order of calls: a processor moves
inside, leaves, or enters when the word is 0 (`Onward`, `Leaving`, `Entering`), and each action
is one of the three. `NothingLeaks` (`AreasOwned`) says that every area out of `memory_alloc`
belongs to exactly one live thread or process or to the call that is about to give it back, and
that `threads` of a process counts its threads. Its invariant `AreasInv` says of each point of
each call which areas it has in its hands (`Working`), apart from those of the others (`Held`).

Its second half proves `ListsKept` (`ListsHold`) and `TableImplemented` (`ImplementsTable`) of
`OrderlySpec`. A heap of nodes is said to link a sequence, `Linked(heap, list, s)`: `start` and
`end`, `next` and `prev` of each node are what `s` says. `ADD` links the sequence with the node
appended, `REMOVE` the sequence without it, provided it is not the first of several
(`list.h:106`); a walk of a linked list finds the sequence (`WalkFinds`). `ListsInv` adds to
`AreasInv` that each list links the threads or processes alive (`Chained`), that threads in line
are set up (`Filled`), and that a call of `thread_destroy` that was `Orderly` when it took the
lock still is when it gets to each of the two nodes (`InOrder`). Each action then starts a
thread, puts it in line, takes it out, ends it, or leaves the abstract table as it is.
`NodesAssumption` says that the memory has finitely many nodes, and that `Steps`, the bound on a
walk, is not below their number.

### Console

`ConsoleProofs` proves, for a screen of any size, any number of processors and any formats:

- `TailShown` (`ScreenShowsTail`). Both sides are folds over characters: `Tape` over everything
  printed, `PutAll` over one text. `FoldNext` says what one character more does to a fold, by
  the recursion that defines it; `Shows(s, t)` says that a screen shows the end of a tape. A
  character keeps it: `PutVisible`, with the screen scrolled as many lines as the cursor is
  below it (`ScrollsToTape`), and `PutControl`; a least text that broke it would break it with
  its last character (`TextOnScreen`).
- `MessagesKeptWhole` (`MessagesWhole`). The invariant needs that one call is inside the lock
  (`OneInside`), that a call that waits has printed nothing and what the one inside has printed
  is the end of the history (`Begun`), and that no mark is from a call to come (`Dated`).
- `TypesHold` (`TypeOK`): the text `convert_number` leaves fits the buffer (`NumbersFit`), given
  that the digits of any word and a sign do (`BufferAssumption`: 22 octal digits, 255 places).

### Paging

`PagingProofs` proves, for tables of any size with two or four levels, any amount of RAM within
what the boot tables map, which leaves the last two pages free, whichever free frames
`memory_alloc` gives, and any number of processors and calls:

- `TableSeen` (`WindowShowsTable`): a processor that uses the window reaches the table it walks.
- `FramesAreTables` (`TablesOwned`): the frames taken from the allocator are the tables of the two
  trees, each in one place.
- `PageMapImplemented` (`ImplementsPageMap`): a call maps to `Ask`, `Fulfil` (`SetEntry`) and
  `Return`; boot and the steps that add tables are stutters.

None of them is inductive, for what the processor finds depends on what every earlier step wrote
into RAM. `PagingInv` names two functions, `b` for the tables of the boot code and `c` for those
of the context, that give each table its place: its level, and the part of the page numbers that
lead to it. `Tree` says that the entries in RAM and the places agree, and that no two tables
have the same place; so a walk from the root ends at the entry of the table whose place is that
of the page (`EntryFound`), by a recursion over two or four levels that is unfolded. Further
parts of it: each tree has a table whose entry before the last shows the table itself
(`Windows`), which is why changing `*invalidator` moves the window and nothing else
(`WindowShows`, `InvalidatorWritten`); the table under construction is the last on the way to
the window, and empty (`Building`); a processor in `paging_map` is at the table for its page,
its window open on it (`Walking`), and alone there (`OneInside`); and RAM mapped so far is
mapped to itself (`Identity`), without which the `memset` of a new table would clear another
frame. The functions `b` and `c` are not variables: each action is shown to keep them, or, when
it takes a frame, to grow one of them by it (`TreeGrows`).

What a step leaves visible is one of three: `Extends` (nothing a page shows changes), `Sets` (one
page does), `Blank` (nothing is there yet, when the context is complete). `ShownIs` reads the
map of pages off the places, and `SameMap`, `OneSet` and `NonePresent` compare two of them.

Assumed are `PagingAssumption`, and `MachinesAssumption`: callers ask for frames that an address
can name, for pages to be present, and map pages of RAM to themselves, as every call of
`paging_map` does (`kernel.c:94`, `kernel.c:95`, `kernel.c:115`, `smp.c:105`, `smp.c:203`; the
page that `kernel.c:94` tries, `0xdeadc`, is taken to lie above RAM).

### Interrupts

`InterruptsProofs` proves, for i386 and amd64, one processor and two, any devices, any exceptions
at any points, and any number of requests:

- `ReportIsRight` (`ReportRight`): what `isr_handler` prints is the vector, error code and place
  of an exception that occurred.
- `ArgumentsAreRight` (`ArgumentsArrive`): both system calls get their arguments.
- `ResumptionIsRight` (`ResumesRight`): code that an IRQ has interrupted goes on with every
  register, its flags and its stack. It is an action property; the two from which it follows are
  the invariant before the step and what `iret` does with the words it finds.

None is inductive, for the words that a stub pops were pushed many steps before, by itself and
by the processor, and other operations have run in between. `Invariance` proves `IInv`: the
processor is at one of six kinds of places, and each kind says what lies on the stack it would
return over.

| kind | the processor is | what is known |
|---|---|---|
| `Kernel` | in `kernel_entry` | `pic_init` is as far as the place says; at an `int $81` number and arguments lie ready (`Passed`) |
| `InSystem` | in `isr_stub_system` | the place behind the `int $81` lies below (amd64) or in `isr_stub_system_iret` (i386); the function's arguments are where it looks for them, or have arrived |
| `InServing` | in `isr_handler` for an IRQ | every register, the number and what the processor pushed of the code it interrupted, word by word (`Dump`) |
| `InHandling` | in `isr_handler` for an exception | the fields it reads are those of an exception that occurred |
| `Refusing` | in `memory_free`, which refuses an empty area | it prints and halts, and returns nowhere |
| `Nowhere` | lost: TR or a stack was garbage | it executes nothing more |

Each operation then leads from one kind to one kind, and an IRQ or exception into one of the
last three. The lemmas this rests on are about the parts. `Handlers` and `FitsOne`, `FitsTwo`
say which operation each program has at each place (`Fits`), and with it that interrupts are on
only behind `pic_init` and away from an `int $81` (`OpenPlaces`). `IdtRight` says that for every
vector the processor reads from the table the gate `idt_init` means, with the address put
together from its halves (`Splits`). `SavedPlaces` and `RegisterPlaces` say where the stubs
leave each register. `Programming` says what each of the ten writes of `pic_init` makes of the
controllers, and `Acknowledged` that they then give vectors 32 to 47 only.

Sequences of words of different kinds have no set of values to draw from, so `IsSeq(s)` says
that `s` is one of its own elements, and `Joined`, `Dropped` and `Parts` say what a
concatenation holds. `ExceptionsAssumption` says that exceptions have vectors below 32, as the
processor's have.

### What stays with TLC

- Liveness (`LockFreed`, `Terminates` and the others under "Fairness") and `ENABLED`, which the
  prover does not handle.
- What recursive definitions compute: the library's theorems of induction take an operator as a
  parameter, which the provers cannot instantiate. A least counterexample (`LeastNat` of
  `ConsoleProofs` and its like) does the same by hand; `WalkFinds` is proved that way.
- `NumbersReadBack` of `Console`: digits are read back by a second recursion.
- `MemoryInit` (`LeavesConsistent`, `CoversRAM`, `ListsWellLinked`): `memory_sort` swaps
  containers by exchanging their links and goes on from one of them; it is a recursive operator
  on heaps, which the provers reject, and that it ends with a sorted list is an induction. That
  every `Proper` map leads to lists that meet `BootAssumption` is therefore checked for the maps
  of the run, not proved.
- `AllMapped` of `MemoryWalk`: it holds of machines with enough RAM behind each block for the
  tables, and which these are is a matter of counting them; the instances are chosen so.
- `Boots`, `IrqsServed` and `FaultsReported` of `Interrupts`, which are liveness properties.

## Plan

1. Proofs: `AllMapped` of `MemoryWalk`, with `i` and `e` below what is mapped, once the machines
   with enough RAM for the tables are described by a formula; that the heap `memory_sort` leaves
   is sorted, with the swaps as a fold in place of the recursive operator.
2. RAM above what the boot tables map, and the cache of pages other than the window, in
   `Paging`; the nodes of `DLList` laid over the headers of `MemoryHeap` (`thread.c:47`), so
   that what a harmed header leads to is computed rather than left open.

## Not modelled

- `string.c`: `memset` and `memcpy` are part of the actions that call them; the others have no
  caller.
- `boot.S`, `arch/*/boot.S`, link scripts, makefiles: a straight line into `kernel_entry`.
- `tools/nukeinit.c`: a sequential program for the host that writes the image of a directory; no
  part of the kernel reads it.
- The registers of the timer and of the local APIC: they appear as the ticks and messages they
  cause. `inb` and the lock operations without callers.
- System calls that nobody makes (a number beyond the table).
