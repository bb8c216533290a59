----------------------------- MODULE Interrupts -----------------------------
(***************************************************************************)
(* Interrupts, exceptions and system calls of the boot processor, from the *)
(* first write of pic_init to the idle loop of kernel_entry: descriptor    *)
(* tables, controllers, stubs, isr_handler and the code they interrupt.    *)
(* The code is a program of the few operations that matter to interrupts;  *)
(* every operation is one step, and an interrupt may come before each.     *)
(***************************************************************************)
EXTENDS Descriptors, Pic, Stubs

CONSTANTS
    Devices,        \* lines that devices may raise, of 0 .. 15, besides the timer
    Raises,         \* bound: requests of theirs
    Noises,         \* bound: requests that are gone when they are acknowledged
    Exceptions,     \* vectors of the exceptions and NMIs that may occur
    Faults          \* bound: occurrences

ASSUME LinesAssumption == Devices \subseteq 1 .. 15 /\ 2 \notin Devices
ASSUME ExceptionsAssumption == Exceptions \subseteq 0 .. 31
ASSUME BoundsAssumption == Raises \in Nat /\ Noises \in Nat /\ Faults \in Nat

VARIABLES
    build,          \* amd64 or i386
    processors,     \* how many of them smp_init finds, 1 or 2
    cpu,            \* [ip, flags, shadow, regs, sp]: where the processor is
    stack,          \* the words on each stack
    iret,           \* isr_stub_system_iret of i386
    pics,           \* the controllers
    tss,            \* whether the task register is loaded
    lock_printf,
    report,         \* what isr_handler has said of an exception
    rested,         \* whether the kernel has done something since the last tick
    raised, noise, faults,      \* what has occurred: two counts, a sequence
    \* history: the state of the processor at each interrupt not yet returned from,
    \* and the last function called by isr_stub_system with its arguments
    interrupted, called

machine == <<build, processors>>
printing == <<lock_printf, report>>
kernel == <<cpu, stack, iret, pics, tss, printing, interrupted, called>>
vars == <<machine, kernel, rested, raised, noise, faults>>

-----------------------------------------------------------------------------
\* The programs.

\* printf holds its lock from its first statement to its last.
printf(what) == << <<"lock", what>>, <<"unlock">> >>

\* One hlt: until it is executed an interrupt returns to it, then behind it.
Hlt == << <<"hlt">>, <<"wait">> >>

\* while (1).
Forever == << <<"forever">> >>

\* Something is missing or memory has run out: a message, and while (1).
Fails == << <<"unless", 3>> >> \o printf("failed") \o Forever

\* smp_init with one more processor: sti, an INIT message in two parts, a stack for
\* the processor, a startup message, a second one unless the processor has started,
\* and a loop that ends when it runs, if it does.
Smp ==
    << <<"sti">> >> \o Hlt \o Hlt \o Hlt \o Fails \o Hlt \o << <<"unless", 2>> >> \o Hlt
    \o printf("up") \o << <<"unless", 1>> >> \o Forever \o << <<"cli">> >>

\* The two test calls: registers or words on the stack, int $81, the words dropped.
Call(function) ==
    << <<"args", function>>, <<"int", function>>, <<"drop", function>> >>

\* What may fail is the memory map, memory_init and on amd64 tss_init; paging_init;
\* mapping the memory; and what smp_init does before it looks at the count.
Main(two) ==
    [i \in DOMAIN pic_init |-> <<"outb", pic_init[i][1], pic_init[i][2]>>]
    \o printf("version") \o Fails \o << <<"ltr">> >> \o Fails
    \o printf("Mapping") \o Fails \o printf("Initializing") \o Fails
    \o (IF two THEN Smp ELSE <<>>)
    \o printf("running") \o Call("memory_alloc") \o printf("memory")
    \o Call("memory_free") \o printf("freed") \o << <<"sti">> >> \o Hlt
    \o << <<"jump", 2>> >>

\* kernel_entry with one processor and with two.
kernel_entry == <<Main(FALSE), Main(TRUE)>>

Frame == stack[cpu.sp]

\* What isr_handler does with an exception (a page fault has one message more), with
\* an IRQ of either controller, and with any other vector.
Exception == printf("exception") \o printf("rest") \o << <<"halt">> >>
PageFault == printf("exception") \o printf("CR2") \o printf("rest") \o << <<"halt">> >>
First == << <<"outb", 32, 32>>, <<"return">> >>
Second == << <<"outb", 160, 32>>, <<"outb", 32, 32>>, <<"return">> >>
Unknown == printf("vector") \o << <<"halt">> >>

\* Variants: the limit of the second controller's lines one too high; an IRQ handler
\* that prints, as a line of isr_handler does that is commented out.
isr_handler_off(vector) ==
    CASE vector < 32               -> IF vector = 14 THEN PageFault ELSE Exception
      [] vector \in 32 .. 40       -> First
      [] vector \in 41 .. 47       -> Second
      [] OTHER                     -> Unknown

isr_handler_talks(vector) ==
    CASE vector < 32               -> IF vector = 14 THEN PageFault ELSE Exception
      [] vector \in 32 .. 39       -> printf("IRQ") \o First
      [] vector \in 40 .. 47       -> printf("IRQ") \o Second
      [] OTHER                     -> Unknown

isr_handler(vector) ==
    CASE vector < 32               -> IF vector = 14 THEN PageFault ELSE Exception
      [] vector \in 32 .. 39       -> First
      [] vector \in 40 .. 47       -> Second
      [] OTHER                     -> Unknown

isr_stub_system == << <<"call">>, <<"iret">> >>

\* memory_free with an area that nobody has allocated.
memory_free == printf("invalid") \o << <<"halt">> >>

In(code) == cpu.ip[1] = code

\* The operation the processor is at, and the place behind it.
Op ==
    CASE In("kernel_entry")    -> kernel_entry[processors][cpu.ip[2]]
      [] In("isr_handler")     -> isr_handler(Field(build, Frame, "vector")[2])[cpu.ip[2]]
      [] In("isr_stub_system") -> isr_stub_system[cpu.ip[2]]
      [] In("memory_free")     -> memory_free[cpu.ip[2]]
      [] OTHER                 -> <<"lost">>

At(op) == Op[1] = op
Behind == [cpu.ip EXCEPT ![2] = @ + 1]
Ahead == [cpu EXCEPT !.ip = Behind, !.shadow = FALSE]

-----------------------------------------------------------------------------
\* Entering a stub.

\* The address iret finds: a hlt that was under way is over.
Resume == IF At("wait") THEN Behind ELSE cpu.ip

\* Words of the processor: the place, the code segment and the flags, on amd64 the
\* stack as well.
Pushed(error, ip) ==
    error \o << <<"ip", ip>>, <<"cs">>, <<"if", cpu.flags>> >>
    \o IF build = "amd64" THEN << <<"sp", cpu.sp, Len(Frame)>>, <<"ss">> >> ELSE <<>>

\* tss_init: the two stacks the gates name (it may fail, as Main says).
tss_init == [n \in {1, 7} |-> IF n = 7 THEN "ist7" ELSE "ist1"]

\* Variant: no entry for number 0.
syscall_table_shifted == <<"memory_alloc", "memory_free", "syscall_invalid">>

\* The functions by their numbers, from 0; nobody passes another number.
syscall_table == <<"syscall_invalid", "memory_alloc", "memory_free">>

\* The processor loads TR or the stack of a gate from garbage.
Lost ==
    /\ cpu' = [cpu EXCEPT !.ip = <<"lost", 0>>, !.flags = FALSE]
    /\ UNCHANGED <<stack, iret>>

\* What the processor reads from the table idt_load names.
Gates(arch) == [n \in 1 .. 256 |-> Gate(arch, idt_init(arch, n - 1))] \o <<>>

Idt == [amd64 |-> Gates("amd64"), i386 |-> Gates("i386")]

\* Vector v, with the error code the processor pushes, if any, to return to ip: a
\* stub runs up to its call.  isr_stub_system picks the function by its number; rbx
\* is saved, ebx takes the place of the number, and on i386 what iret needs moves
\* from the stack to one static place.
Deliver(v, error, ip) ==
    LET gate  == Idt[build][v + 1]
        sp    == IF gate.ist = 0 THEN cpu.sp ELSE tss_init[gate.ist]
        words == Pushed(error, ip) \o IF gate.ist = 0 THEN Frame ELSE <<>>
        flags == cpu.flags /\ ~gate.masks
        onto(s) == [stack EXCEPT ![sp] = s]
    IN  /\ interrupted' = Append(interrupted, [cpu EXCEPT !.ip = ip])
        /\ IF ~gate.valid \/ (gate.ist # 0 /\ ~tss) THEN Lost
           ELSE IF gate.stub # SYSTEM
           THEN /\ stack' = onto(isr_stub_common(build, cpu.regs,
                                                 isr_stub(gate.stub) \o words))
                /\ cpu' = [ip |-> <<"isr_handler", 1>>, flags |-> flags, shadow |-> FALSE,
                           sp |-> sp, regs |-> [r \in Registers[build] |->
                               IF r \in Scratch[build] THEN <<"junk">> ELSE cpu.regs[r]]]
                /\ UNCHANGED iret
           ELSE IF build = "amd64"
           THEN /\ stack' = onto(<<cpu.regs["rbx"]>> \o words)
                /\ cpu' = [ip |-> <<"isr_stub_system", 1>>, flags |-> flags,
                           shadow |-> FALSE, sp |-> sp, regs |-> [cpu.regs EXCEPT !["rbx"] =
                               <<"entry", syscall_table[cpu.regs["rdi"][2] + 1]>>]]
                /\ UNCHANGED iret
           ELSE /\ stack' = onto(<<cpu.regs["ebx"]>> \o Below(words, 4))
                /\ iret' = SubSeq(words, 1, 3)
                /\ cpu' = [ip |-> <<"isr_stub_system", 1>>, flags |-> flags,
                           shadow |-> FALSE, sp |-> sp, regs |-> [cpu.regs EXCEPT !["ebx"] =
                               <<"entry", syscall_table[words[4][2] + 1]>>]]

\* iret with these words on the stack.
Iret(words, regs) ==
    /\ cpu' = [ip |-> words[1][2], flags |-> words[3][2], shadow |-> FALSE, regs |-> regs,
               sp |-> IF build = "amd64" THEN words[4][2] ELSE cpu.sp]
    /\ stack' = IF build = "amd64"
                THEN [stack EXCEPT ![words[4][2]] = Below(@, Len(@) - words[4][3])]
                ELSE [stack EXCEPT ![cpu.sp] = Below(words, 3)]
    /\ interrupted' = Front(interrupted)

-----------------------------------------------------------------------------
\* The operations.

Outb ==
    /\ At("outb")
    /\ pics' = outb(pics, Op[2], Op[3])
    /\ cpu' = Ahead
    /\ UNCHANGED <<stack, iret, tss, printing, interrupted, called>>

\* lock(&lock_printf), and what the exception handler's first message tells.
Lock ==
    /\ At("lock")
    /\ ~lock_printf
    /\ lock_printf' = TRUE
    /\ report' = IF Op[2] = "exception"
                 THEN [n \in {"vector", "errorcode", "ip"} |-> Field(build, Frame, n)]
                 ELSE report
    /\ cpu' = Ahead
    /\ UNCHANGED <<stack, iret, pics, tss, interrupted, called>>

Unlock ==
    /\ At("unlock")
    /\ lock_printf' = FALSE
    /\ cpu' = Ahead
    /\ UNCHANGED <<stack, iret, pics, tss, report, interrupted, called>>

\* tss_load, when the descriptor has the segment's address.
Ltr ==
    /\ At("ltr")
    /\ tss' = (TssBase(build) = [low |-> TssAddress, high |-> 0])
    /\ cpu' = Ahead
    /\ UNCHANGED <<stack, iret, pics, printing, interrupted, called>>

\* sti, which lets one more operation pass, cli and hlt; jump closes the idle loop.
Flags ==
    /\ cpu' = CASE At("sti")  -> [Ahead EXCEPT !.flags = TRUE, !.shadow = ~cpu.flags]
                [] At("cli")  -> [Ahead EXCEPT !.flags = FALSE]
                [] At("hlt")  -> Ahead
                [] At("jump") -> [Ahead EXCEPT !.ip[2] = cpu.ip[2] - Op[2]]
                [] At("halt") -> [cpu EXCEPT !.flags = FALSE]
                [] OTHER      -> cpu
    /\ cpu' # cpu
    /\ UNCHANGED <<stack, iret, pics, tss, printing, interrupted, called>>

\* What has to be there is there or not: Op[2] operations are left out or not.
Branch ==
    /\ At("unless")
    /\ \E skipped \in {0, Op[2]} : cpu' = [Ahead EXCEPT !.ip[2] = @ + skipped]
    /\ UNCHANGED <<stack, iret, pics, tss, printing, interrupted, called>>

\* What the two calls pass, in the order of the parameters; reserved takes the
\* number on amd64.
Parameters(function) ==
    IF function = "memory_alloc" THEN << <<"size">>, <<"limit">>, <<"align">> >>
    ELSE << <<"address">>, <<"size">> >>

Number(function) == <<"num", IF function = "memory_alloc" THEN 1 ELSE 2>>

\* syscall_memory_alloc and syscall_memory_free up to int $81.
Args ==
    /\ At("args")
    /\ LET ps == Parameters(Op[2])
           loaded == IF build = "amd64"
                     THEN [cpu.regs EXCEPT !["rdi"] = Number(Op[2]), !["rsi"] = ps[1],
                                           !["rdx"] = ps[2],
                                           !["rcx"] = IF Len(ps) = 3 THEN ps[3] ELSE @]
                     ELSE cpu.regs
           words == IF build = "i386" /\ Op[2] = "memory_alloc"
                    THEN << Number(Op[2]), <<"result">> >> \o ps
                    ELSE IF Op[2] = "memory_free" THEN <<Number(Op[2])>> \o ps ELSE <<>>
       IN  /\ cpu' = [Ahead EXCEPT !.regs = loaded]
           /\ stack' = [stack EXCEPT ![cpu.sp] = words \o @]
    /\ UNCHANGED <<iret, pics, tss, printing, interrupted, called>>

IntSystem ==
    /\ At("int")
    /\ Deliver(81, <<>>, Behind)
    /\ UNCHANGED <<pics, tss, printing, called>>

\* Variant: as many words dropped as were pushed.
DropAll ==
    /\ At("drop")
    /\ cpu' = Ahead
    /\ stack' = [stack EXCEPT ![cpu.sp] =
           Below(@, IF Op[2] = "memory_free" THEN 3 ELSE IF build = "i386" THEN 5 ELSE 0)]
    /\ UNCHANGED <<iret, pics, tss, printing, interrupted, called>>

\* add $0x10 or the three pops behind int $81.
DropArgs ==
    /\ At("drop")
    /\ cpu' = Ahead
    /\ stack' = [stack EXCEPT ![cpu.sp] =
           Below(@, IF Op[2] = "memory_free" THEN 3 ELSE IF build = "i386" THEN 4 ELSE 0)]
    /\ UNCHANGED <<iret, pics, tss, printing, interrupted, called>>

\* The stub calls the function of the table, a C function: it finds its arguments
\* in registers or on the stack, behind reserved and, where it returns a structure
\* through memory, behind the address of that, which it pops.  memory_free gets the
\* area memory_alloc gave; that is empty when there was no room, and it never returns.
CallFunction ==
    /\ At("call")
    /\ LET function == cpu.regs[IF build = "amd64" THEN "rbx" ELSE "ebx"][2]
           hidden == build = "i386" /\ function = "memory_alloc"
           first == IF hidden THEN 3 ELSE 2
       IN  /\ called' = [function |-> function,
                         parameters |->
                             LET n == Len(Parameters(function))
                             IN  IF build = "amd64"
                                 THEN [i \in 1 .. n |->
                                           cpu.regs[<<"rsi", "rdx", "rcx">>[i]]]
                                 ELSE SubSeq(Frame, first, first + n - 1)]
           /\ stack' = [stack EXCEPT ![cpu.sp] = IF hidden THEN Tail(@) ELSE @]
           /\ \E ip \in {Behind} \cup IF function = "memory_free"
                                    THEN {<<"memory_free", 1>>} ELSE {} :
                  cpu' = [Ahead EXCEPT !.ip = ip, !.regs = [r \in Registers[build] |->
                              IF r \in Scratch[build] THEN <<"junk">> ELSE @[r]]]
    /\ UNCHANGED <<iret, pics, tss, printing, interrupted>>

\* isr_stub_system behind the call.
ReturnSystem ==
    /\ At("iret")
    /\ IF build = "amd64" THEN Iret(Tail(Frame), [cpu.regs EXCEPT !["rbx"] = Frame[1]])
       ELSE Iret(iret \o Frame, [cpu.regs EXCEPT !["ebx"] = Frame[1]])
    /\ UNCHANGED <<iret, pics, tss, printing, called>>

\* isr_stub_common behind the call.
Return ==
    /\ At("return")
    /\ LET left == isr_stub_return(build, Frame) IN Iret(left.stack, left.regs)
    /\ UNCHANGED <<iret, pics, tss, printing, called>>

Step ==
    /\ \/ Outb \/ Lock \/ Unlock \/ Ltr \/ Flags \/ Branch \/ Args \/ IntSystem \/ DropArgs
       \/ CallFunction \/ ReturnSystem \/ Return
    /\ rested' = (rested \/ ~In("isr_handler"))
    /\ UNCHANGED <<machine, raised, noise, faults>>

-----------------------------------------------------------------------------
\* What comes from outside.

Request(i) ==
    pics' = IF i < 8 THEN [pics EXCEPT !.master.irr = @ \cup {i}]
            ELSE [pics EXCEPT !.slave.irr = @ \cup {i - 8}]

\* The timer pic_init starts ticks again and again, but not before the handler of
\* the last tick has returned and the code it interrupted has gone on.  Nothing is
\* served any more after an exception, so requests after it are left out.
Tick ==
    /\ faults = <<>>
    /\ pics.slave.imr = {} /\ pics.master.expects = "ready"
    /\ 0 \notin pics.master.irr /\ ~In("isr_handler")
    /\ rested \/ At("wait") \/ At("forever")
    /\ rested' = FALSE
    /\ Request(0)
    /\ UNCHANGED <<machine, cpu, stack, iret, tss, printing, interrupted, called,
                   raised, noise, faults>>

Raise(i) ==
    /\ faults = <<>>
    /\ raised < Raises
    /\ raised' = raised + 1
    /\ Request(i)
    /\ UNCHANGED <<machine, cpu, stack, iret, tss, printing, interrupted, called,
                   rested, noise, faults>>

Accepts == cpu.flags /\ ~cpu.shadow

\* The processor takes the request of line i of the first controller.
Irq(i) ==
    /\ Accepts
    /\ i \in Pending(pics)
    /\ LET a == Acknowledge(pics, i) IN pics' = a.pics /\ Deliver(a.vector, <<>>, Resume)
    /\ UNCHANGED <<machine, tss, printing, called, rested, raised, noise, faults>>

\* It takes a request that is gone.
SpuriousIrq ==
    /\ Accepts
    /\ noise < Noises
    /\ noise' = noise + 1
    /\ \E second \in BOOLEAN :
           /\ pics.master.isr = {}
           /\ second => pics.slave.isr = {} /\ Pending(pics) \cap {0, 1, 2} = {}
           /\ LET a == Spurious(pics, second)
              IN  pics' = a.pics /\ Deliver(a.vector, <<>>, Resume)
    /\ UNCHANGED <<machine, tss, printing, called, rested, raised, faults>>

\* Exception v at the operation the processor is at; some have an error code.
Fault(v) ==
    LET code == IF v \in {8, 10, 11, 12, 13, 14, 17} THEN <<"num", 5>> ELSE <<"num", 0>>
    IN  /\ Len(faults) < Faults
        /\ ~In("lost") /\ ~At("halt")
        /\ faults' = Append(faults, [vector |-> v, errorcode |-> code,
                                     ip |-> <<"ip", Resume>>, lock |-> lock_printf,
                                     tss |-> tss])
        /\ Deliver(v, IF code[2] = 0 THEN <<>> ELSE <<code>>, Resume)
        /\ UNCHANGED <<machine, pics, tss, printing, called, rested, raised, noise>>

\* Lines of the first controller anything asks through.
Asking == {0} \cup {IF i < 8 THEN i ELSE 2 : i \in Devices}

Next ==
    \/ Step
    \/ Tick
    \/ \E i \in Devices : Raise(i)
    \/ \E i \in Asking : Irq(i)
    \/ SpuriousIrq
    \/ \E v \in Exceptions : Fault(v)

Init ==
    /\ build \in {"amd64", "i386"} /\ processors \in 1 .. 2
    /\ cpu = [ip |-> <<"kernel_entry", 1>>, flags |-> FALSE, shadow |-> FALSE,
              sp |-> "kernel", regs |-> [r \in Registers[build] |-> <<"own", r>>]]
    /\ stack = [s \in {"kernel", "ist1", "ist7"} |-> << <<"bottom">> >>]
    /\ iret = << <<"num", 0>>, <<"num", 0>>, <<"num", 0>> >>
    /\ pics = [master |-> Reset, slave |-> Reset]
    /\ tss = FALSE /\ lock_printf = FALSE
    /\ report = [n \in {"vector", "errorcode", "ip"} |-> <<"none">>]
    /\ rested = FALSE /\ raised = 0 /\ noise = 0 /\ faults = <<>>
    /\ interrupted = <<>> /\ called = [function |-> "none", parameters |-> <<>>]

\* The processor runs, the timer ticks, and a line that asks again and again gets
\* through: the timer, whose line comes first, leaves time between its ticks.
Spec ==
    /\ Init /\ [][Next]_vars
    /\ WF_vars(Step) /\ WF_vars(Tick)
    /\ \A i \in Asking : SF_vars(Irq(i))

-----------------------------------------------------------------------------
\* Properties.

Idle == In("kernel_entry") /\ cpu.ip[2] > Len(kernel_entry[processors]) - 3

\* The first message of isr_handler shows the exception that occurred, its error
\* code and the place it occurred at, whatever was on the stacks.
ReportRight ==
    report.ip # <<"none">> =>
        \E i \in DOMAIN faults : /\ report.vector = <<"num", faults[i].vector>>
                                 /\ report.errorcode = faults[i].errorcode
                                 /\ report.ip = faults[i].ip

\* A system call reaches the function the caller means, and every argument arrives
\* in the parameter it is meant for, through registers or over two stacks.
ArgumentsArrive ==
    At("iret") => LET meant == kernel_entry[processors][Last(interrupted).ip[2] - 1][2]
                  IN  called = [function |-> meant, parameters |-> Parameters(meant)]

\* Code that was interrupted goes on at the place, with the flags, the stack and the
\* registers it was interrupted with.
ResumesRight ==
    [][At("return") /\ Len(interrupted') < Len(interrupted) =>
          cpu' = Last(interrupted)]_vars

\* kernel_entry has found something missing or no memory left, and goes no further.
Stopped == At("forever") \/ In("memory_free")

\* The kernel gets to its idle loop unless it stops with a message (or waits for a
\* processor that never runs), or an exception occurs: with the stack back it
\* started with and its values in the registers that no function may change.
Boots ==
    <>(\/ faults # <<>> \/ Stopped
       \/ /\ Idle /\ stack["kernel"] = << <<"bottom">> >> /\ cpu.sp = "kernel"
          /\ \A r \in Registers[build] \ Scratch[build] :
                 (build = "amd64" \/ r = "ebp") => cpu.regs[r] = <<"own", r>>)

\* Again and again no request besides the timer's is left unserved, however the timer
\* and the two controllers' priorities interfere, unless an exception occurs or the
\* kernel stops with interrupts off.
IrqsServed ==
    []<>(\/ faults # <<>> \/ (Stopped /\ ~cpu.flags)
         \/ (pics.master.irr \subseteq {0} /\ pics.slave.irr = {}))

\* An exception with a handler is reported, unless it occurs before tss_load on
\* amd64, or while printf holds its lock.
FaultsReported ==
    (\E i \in DOMAIN faults : /\ faults[i].vector \in Installed /\ ~faults[i].lock
                              /\ build = "i386" \/ faults[i].tss)
        ~> report.ip # <<"none">>
=============================================================================
