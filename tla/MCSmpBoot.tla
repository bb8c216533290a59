----------------------------- MODULE MCSmpBoot -----------------------------
(***************************************************************************)
(* Boards for SmpBoot: one to four processors, one disabled, the boot      *)
(* processor first or not, other entries between them, floating structures *)
(* in each of the places and more than one, and what makes smp_init give   *)
(* up.                                                                     *)
(***************************************************************************)
EXTENDS SmpBoot, SequencesExt

Active1 == {"SMP_FLAG_ACTIVE"}
Boot1 == {"SMP_FLAG_ACTIVE", "SMP_FLAG_BOOT"}

Cpu(id, flags) == [type |-> 0, apic |-> id, flags |-> flags]
IoApic(id, flags) == [type |-> 2, apic |-> id, flags |-> flags]
Other(type) == [type |-> type, apic |-> 0, flags |-> {}]

Float(at) == [at |-> at, valid |-> TRUE, table |-> TRUE, default |-> FALSE]

\* In the interrupt table, below 640 KiB (first and last), in the BIOS (last), and in
\* front of all of them, where nothing looks for one.
Low == Float(63)
High == Float(40896)
Highest == Float(40959)
Bios == Float(65535)
Elsewhere == Float(40895)

\* One entry behind the other.
Laid(table) ==
    [k \in DOMAIN table |->
        [at |-> FoldLeft(LAMBDA sum, e : sum + SizeOf(e), 0, SubSeq(table, 1, k - 1))]
            @@ table[k]]

Board(floats, table) ==
    [floats |-> floats, signature |-> TRUE, local_apic |-> 100, entries |-> Laid(table)]

Pair == <<Cpu(0, Boot1), Cpu(1, Active1)>>

MCBoards == {
    Board({Elsewhere, [Bios EXCEPT !.valid = FALSE]}, Pair),
    Board({[Low EXCEPT !.table = FALSE], Bios}, Pair),
    Board({[High EXCEPT !.default = TRUE]}, Pair),
    [Board({Bios}, Pair) EXCEPT !.signature = FALSE],
    Board({Bios}, <<Cpu(0, {"SMP_FLAG_BOOT"})>>),
    Board({Bios}, <<Cpu(0, Boot1), Other(5)>>),
    Board({Low}, <<Cpu(0, Boot1), Other(1), Cpu(1, {})>>),
    Board({[High EXCEPT !.valid = FALSE], Highest, [Bios EXCEPT !.table = FALSE]},
          <<Cpu(0, Boot1), Cpu(1, Active1), Other(4)>>),
    Board({Bios}, <<Cpu(1, Active1), Cpu(0, Boot1), IoApic(101, {}), Cpu(2, {}),
                    Cpu(3, Active1), IoApic(102, {"enabled"}), Other(3)>>),
    Board({High}, <<Cpu(0, Boot1), Other(1), IoApic(101, {"enabled"}), Cpu(1, Active1),
                    Cpu(2, Active1), Cpu(3, Active1)>>)}
=============================================================================
