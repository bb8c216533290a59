------------------------------- MODULE Stubs -------------------------------
(***************************************************************************)
(* The interrupt stubs of both builds: what they push before isr_handler   *)
(* runs, where isr_handler looks for it, and what they pop afterwards.  A  *)
(* stack is the sequence of its words, the last one pushed first; a word   *)
(* is a tuple whose first element tells what it is.                        *)
(***************************************************************************)
EXTENDS Naturals, Sequences, SequencesExt, Functions

\* What is left of a stack when n words are popped.
Below(stack, n) == SubSeq(stack, n + 1, Len(stack))

Saved(arch) ==
    IF arch = "amd64"
    THEN <<"rax", "rcx", "rdx", "rbx", "rsi", "rdi", "rbp", "r8", "r9", "r10", "r11", "r12",
           "r13", "r14", "r15">>
    ELSE <<"eax", "ecx", "edx", "ebx", "esi", "edi", "ebp">>

Segments == <<"gs", "fs", "es", "ds">>

Registers == [amd64 |-> ToSet(Saved("amd64") \o Segments),
              i386 |-> ToSet(Saved("i386") \o Segments)]

\* Registers a C function may change.
Scratch == [amd64 |-> {"rax", "rcx", "rdx", "rsi", "rdi", "r8", "r9", "r10", "r11"},
            i386 |-> {"eax", "ecx", "edx"}]

\* Variant: the stub of vector 17 pushes a zero as well.
isr_stub_short(nr) ==
    IF nr \in {8, 10, 11, 12, 13, 14} THEN << <<"num", nr>> >>
    ELSE << <<"num", nr>>, <<"num", 0>> >>

\* isr_stub, isr_stub_error and isr_named_stub: the number, on top of a zero unless
\* the processor has pushed an error code.
isr_stub(nr) ==
    IF nr \in {8, 10, 11, 12, 13, 14, 17} THEN << <<"num", nr>> >>
    ELSE << <<"num", nr>>, <<"num", 0>> >>

\* isr_stub_common up to the call.
isr_stub_common(arch, regs, stack) ==
    [i \in 1 .. 4 |-> regs[Segments[i]]]
    \o Reverse([i \in DOMAIN Saved(arch) |-> regs[Saved(arch)[i]]]) \o stack

\* cpu_state_t: the words isr_handler reads, by their place in the structure.
cpu_state ==
    [amd64 |-> [vector |-> 20, errorcode |-> 21, ip |-> 22],
     i386 |-> [vector |-> 12, errorcode |-> 13, ip |-> 14]]

Field(arch, frame, name) == frame[cpu_state[arch][name]]

\* The pops of isr_stub_common after the call.
Restored(arch) ==
    IF arch = "amd64"
    THEN <<"r15", "r14", "r13", "r12", "r11", "r10", "r9", "r8", "rbp", "rdi", "rsi", "rbx",
           "rdx", "rcx", "rax">>
    ELSE <<"ebp", "edi", "esi", "ebx", "edx", "ecx", "eax">>

\* The registers, and the words left for iret, after them.
isr_stub_return(arch, stack) ==
    LET places == Segments \o Restored(arch)
    IN  [regs |-> [r \in Registers[arch] |->
                      stack[CHOOSE i \in DOMAIN places : places[i] = r]],
         stack |-> Below(stack, Len(places) + 2)]
=============================================================================
