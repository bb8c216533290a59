---------------------------- MODULE MCMemoryWalk ---------------------------
(***************************************************************************)
(* Machines of 1024 addresses and 64 pages for MemoryWalk: low RAM after   *)
(* the first page, video memory at 112..143, the kernel from 144 on, RAM   *)
(* after the kernel with the boot containers at its start, and the ROM.     *)
(***************************************************************************)
EXTENDS MemoryWalk

Block(h, a, s) == [hdr |-> h, addr |-> a, size |-> s, freeable |-> TRUE]
Reserved(h, a, s) == [hdr |-> h, addr |-> a, size |-> s, freeable |-> FALSE]

\* RAM from the end of the kernel: three blocks that hold a container each.
Holders(k) == {Block(k, k + 1, 1), Block(k + 2, k + 3, 1), Block(k + 4, k + 5, 1)}

Low(size) == Block(16, 17, size)
Main(k, end) == Block(k + 6, k + 7, end - (k + 7))

KernelAndVideo(k) == {Reserved(k + 1, 144, k - 144), Reserved(k + 3, 112, 32)}

WithRom(k, low, end, rom, size, spans) ==
    [free |-> {Low(low), Main(k, end)}, spans |-> spans,
     used |-> Holders(k) \cup KernelAndVideo(k) \cup {Reserved(k + 5, rom, size)}]

\* One level of tables below the directory on i386, three below the PML4 on amd64.
I386  == <<256>>
AMD64 == <<512, 256, 128>>

\* On i386 the ROM ends where the address space does; on amd64 it is below
\* 4 GiB, and nothing above it.  The smallest machines run out of memory in
\* paging_context, in kernel_entry and in the walk.
MCBoots ==
    {WithRom(178, low, 200 + 37 * n, 960, 64, I386) : low \in {40, 95}, n \in 0 .. 19}
    \cup {WithRom(178, low, 200 + 37 * n, 800, 32, AMD64) : low \in {40, 95}, n \in 0 .. 15}
=============================================================================
