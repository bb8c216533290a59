------------------------------ MODULE MCPaging ------------------------------
(***************************************************************************)
(* Tables of four entries: 16 pages with two levels of tables, 256 with    *)
(* four.                                                                   *)
(***************************************************************************)
EXTENDS Paging

MMIO == {"present", "write", "nocache"}

Ask(page, frame, flags) == [page |-> page, frame |-> frame, flags |-> flags]

\* The registers of the processors, which lie high, and of others: pages with a
\* table of their own or a shared one, one beside the window; RAM once more, at the
\* place where the kernel has it; and a reserved page.
LocalApic == 1043968    \* 0xfee00000
IoApic == 1043456       \* 0xfec00000

Requests32 == {Ask(9, LocalApic, MMIO), Ask(10, IoApic, MMIO \cup {"pat"}), Ask(13, 12, MMIO),
               Ask(2, 2, {"present"}), Ask(14, 9, MMIO)}

Requests64 == {Ask(200, LocalApic, MMIO), Ask(201, IoApic, MMIO \cup {"pat"}),
               Ask(253, 2 ^ 23 + 5, MMIO)}

\* One page far from RAM, and the first.
First(page) == <<Ask(page, 74560, {"present"}), Ask(0, 0, {"present"})>>

Machine32(ram) == [levels |-> 2, boot |-> 10, ram |-> ram, bits |-> 32, first |-> First(12),
                    requests |-> Requests32]
Machine64(ram) == [levels |-> 4, boot |-> 24, ram |-> ram, bits |-> 36, first |-> First(100),
                    requests |-> Requests64]

\* From too little RAM to plenty.
MCMachines == {Machine32(ram) : ram \in {1, 2, 3, 5, 6, 8}}
                \cup {Machine64(ram) : ram \in {3, 6, 12, 17, 20}}
=============================================================================
