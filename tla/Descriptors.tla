---------------------------- MODULE Descriptors ----------------------------
(***************************************************************************)
(* The descriptor tables of both builds: how idt_set_entry and             *)
(* gdt_set_entry spread an entry over fields, and how the processor puts   *)
(* the fields together again.  Flags and sizes have their real values;     *)
(* addresses lie below 2^31, where link/ puts the kernel.                  *)
(***************************************************************************)
EXTENDS Naturals, Sequences

K64 == 65536

\* Entry points of the stubs and the address of the task state segment; any
\* addresses beyond the first 64 KiB would do.
NULL == 57005       \* isr_stub_null pushes 0xdead
SYSTEM == 81
Stubs == (0 .. 47) \cup {NULL, SYSTEM}
Address(stub) == 1114112 + IF stub = NULL THEN 0 ELSE 1500 * (stub + 1)
TssAddress == 1253376

idt_set_entry(arch, offset, selector, flags) ==
    IF arch = "amd64"
    THEN [offset_low |-> offset % K64, offset_mid |-> (offset \div K64) % K64,
          offset_high |-> (offset \div K64) \div K64, selector |-> selector, flags |-> flags]
    ELSE [offset_low |-> offset % K64, offset_high |-> (offset \div K64) % K64,
          selector |-> selector, flags |-> flags - (flags % 256)]

\* Flags of the gates: present interrupt gates on stack 1, for the system calls a
\* trap gate on stack 7 that ring 3 may use.
DUMMY == 36353      \* 0x8e01
CALL == 61191       \* 0xef07

Installed == {1, 2, 3, 4, 5, 6, 7, 8, 10, 11, 12, 13, 14, 16, 17, 18, 19} \cup (32 .. 47)

\* Entry v of a table with these handlers, others with the dummy.
Table(arch, v, handlers, flags) ==
    IF v = 81 THEN idt_set_entry(arch, Address(SYSTEM), 8, CALL)
    ELSE idt_set_entry(arch, Address(IF v \in handlers THEN v ELSE NULL), 8, flags)

\* Variants: IRQs through trap gates; no handler for one exception.
idt_init_trap(arch, v) == Table(arch, v, Installed, DUMMY + 256)
idt_init_hole(arch, v) == Table(arch, v, Installed \ {17}, DUMMY)

idt_init(arch, v) == Table(arch, v, Installed, DUMMY)

gdt_set_entry(base, limit, access, flags) ==
    [limit_low |-> limit % K64, base_low |-> base % K64, base_middle |-> (base \div K64) % 256,
     access |-> access, flags_and_limit_high |-> 16 * flags + ((limit \div K64) % 16),
     base_high |-> (base \div K64) \div 256]

GDT_LIMIT_FULL == 1048575       \* the 20 bits of it an entry has room for
CODE == 128 + 16 + 8 + 2        \* present, segment, executable, readable
DATA == 128 + 16 + 2            \* present, segment, writable
RING_3 == 96
TSS == 128 + 9

\* The table: null, code and data of ring 0 and ring 3, the task state segment
\* (two entries on amd64).
gdt_init(arch) ==
    LET code == IF arch = "amd64" THEN 8 + 2 ELSE 8 + 4      \* granular, long mode or 32 bit
    IN  << gdt_set_entry(0, 0, 0, 0),
           gdt_set_entry(0, GDT_LIMIT_FULL, CODE, code),
           gdt_set_entry(0, GDT_LIMIT_FULL, DATA, 8 + 4),
           gdt_set_entry(0, GDT_LIMIT_FULL, CODE + RING_3, code),
           gdt_set_entry(0, GDT_LIMIT_FULL, DATA + RING_3, 8 + 4),
           gdt_set_entry(TssAddress, 8297 - 1, TSS, 0) >>
        \o IF arch = "amd64" THEN <<gdt_set_entry(0, (TssAddress \div K64) \div K64, 0, 0)>>
           ELSE <<>>

-----------------------------------------------------------------------------
\* What the processor makes of a gate and of the entry its selector names.
Entry(arch, selector) == gdt_init(arch)[(selector \div 8) + 1]

Gate(arch, e) ==
    [stub |-> CHOOSE s \in Stubs :
                  Address(s) = e.offset_low
                      + K64 * (IF arch = "amd64" THEN e.offset_mid + K64 * e.offset_high
                               ELSE e.offset_high),
     masks |-> (e.flags \div 256) % 16 = 14,        \* an interrupt gate
     ist |-> IF arch = "amd64" THEN e.flags % 8 ELSE 0,
     valid |-> /\ e.flags \div 32768 = 1
               /\ LET c == Entry(arch, e.selector)
                  IN  /\ c.access \div 8 = CODE \div 8
                      /\ (c.flags_and_limit_high \div 16) % 8 = IF arch = "amd64" THEN 2 ELSE 4]

\* The base of the segment ltr loads.
TssBase(arch) ==
    LET e == gdt_init(arch)[6]
    IN  [low |-> e.base_low + K64 * (e.base_middle + 256 * e.base_high),
         high |-> IF arch = "amd64"
                  THEN gdt_init(arch)[7].limit_low + K64 * gdt_init(arch)[7].base_low ELSE 0]
=============================================================================
