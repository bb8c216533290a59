---------------------------- MODULE SmpBootProofs ---------------------------
(***************************************************************************)
(* The processors are started one at a time, whatever table the firmware   *)
(* left, however many processors it lists and however many startup         *)
(* interrupts are lost or late.                                            *)
(*                                                                         *)
(* The invariant has two halves.  Table: the walk stands at the beginning  *)
(* of an entry, the processors counted are those of the entries behind it, *)
(* and those filled in are the active ones among them, in order.  Start:   *)
(* the only processor on its way through the trampoline, or with an        *)
(* interrupt on its way that it would follow, is the one smp_init waits    *)
(* for (Target), and only that one may own the newest stack.               *)
(***************************************************************************)
EXTENDS SmpBoot, FiniteSetTheorems, TLAPS

Apics == {0} \cup UNION {{b.entries[k].apic : k \in DOMAIN b.entries} : b \in Boards}

Processor == [apic : Apics, boot : BOOLEAN, up : BOOLEAN]

Reading == {"find", "map", "count", "fill"}
Waiting == {"check", "wait"}
Starts == {"init", "next", "send", "done"} \cup Waiting

\* Every variable has a value of its kind.
TypeInv ==
    /\ board \in Boards
    /\ pc \in Reading \cup Starts \cup {"hung"}
    /\ offset \in Nat /\ entries \in Nat /\ cpu_index \in Nat /\ smp_processor_count \in Nat
    /\ \A k \in DOMAIN smp_processors : smp_processors[k] \in Processor
    /\ i \in Nat \ {0} /\ stacks \in Nat
    /\ startup \in [status : SUBSET {"SMP_STARTING", "SMP_RUNNING"}, stack : Nat]
    /\ DOMAIN ap = AllIds
    /\ stackOf \in [AllIds -> Nat] /\ sipi \in [AllIds -> Nat]
    /\ loaded \in [AllIds -> SUBSET {"SMP_STARTING", "SMP_RUNNING"}]

-----------------------------------------------------------------------------
(* Reading the table.                                                      *)

\* The first n entries of a table: the active processors and the IO APICs in use.
ActiveTo(t, n) == {k \in 1 .. n : Active(t[k])}
IoApicsTo(t, n) == {t[k].apic : k \in {l \in 1 .. n : IsIoApic(t[l])}}

\* The first c of "processors" are the active ones of the first n entries, in order.
Listing(t, n, processors, c) ==
    \E nth \in [1 .. c -> ActiveTo(t, n)] :
        /\ \A k, l \in 1 .. c : k < l => nth[k] < nth[l]
        /\ \A e \in ActiveTo(t, n) : \E k \in 1 .. c : nth[k] = e
        /\ \A k \in 1 .. c : /\ processors[k].apic = t[nth[k]].apic
                             /\ processors[k].boot = Boot(t[nth[k]])

\* The walk stands at the beginning of the next entry.
AtEntry == /\ entries <= Len(board.entries)
           /\ entries < Len(board.entries) => offset = board.entries[entries + 1].at

All == Len(board.entries)

Table ==
    /\ pc \in {"find", "map"} => entries = 0 /\ offset = 0 /\ smp_processor_count = 0
    /\ pc \in {"find", "map", "count"} => cpu_index = 1 /\ smp_processors = <<>>
    /\ pc \in {"count", "fill"} => AtEntry
    /\ pc = "count" => /\ smp_processor_count = Cardinality(ActiveTo(board.entries, entries))
                       /\ mapped = {board.local_apic}
    /\ pc \in Starts \cup {"fill"} =>
         /\ smp_processor_count = Cardinality(ActiveTo(board.entries, All))
         /\ smp_processor_count > 0
         /\ smp_processors \in [1 .. smp_processor_count -> Processor]
         /\ Listing(board.entries, IF pc = "fill" THEN entries ELSE All,
                    smp_processors, cpu_index - 1)
    /\ pc = "fill" => /\ cpu_index = Cardinality(ActiveTo(board.entries, entries)) + 1
                      /\ mapped = {board.local_apic} \cup IoApicsTo(board.entries, entries)
    /\ pc \in Starts => /\ cpu_index = smp_processor_count + 1
                        /\ mapped = {board.local_apic} \cup IoApicsTo(board.entries, All)

-----------------------------------------------------------------------------
(* Starting the processors.                                                *)

\* The one smp_init waits for.
Target == smp_processors[i].apic

Start ==
    /\ pc \in Reading \cup {"init"} =>
         /\ i = 1 /\ stacks = 0
         /\ \A a \in AllIds : ap[a] = "firmware" /\ sipi[a] = 0 /\ stackOf[a] = 0
    /\ pc \in {"send"} \cup Waiting => i <= smp_processor_count /\ stacks > 0
    /\ \A a \in AllIds : InTrampoline(a) => pc \in Waiting /\ a = Target
    /\ \A a \in AllIds : sipi[a] > 0 => \/ ap[a] = "running"
                                        \/ pc \in Waiting /\ a = Target
    /\ pc \in {"send"} \cup Waiting /\ "SMP_RUNNING" \in startup.status =>
         Target \in AllIds /\ ap[Target] = "running"
    /\ \A k \in DOMAIN smp_processors :
         /\ smp_processors[k].up /\ ~smp_processors[k].boot =>
              /\ smp_processors[k].apic \in AllIds
              /\ ap[smp_processors[k].apic] = "running"
         /\ smp_processors[k].boot => smp_processors[k].up
    /\ pc \in {"next", "send"} \cup Waiting =>
         \A k \in 1 .. (i - 1) : k <= smp_processor_count => smp_processors[k].up
    /\ pc = "done" => \A k \in DOMAIN smp_processors : smp_processors[k].up

Stacks ==
    /\ startup.stack = stacks
    /\ \A a \in AllIds : stackOf[a] <= stacks
    /\ pc \in {"send"} \cup Waiting =>
         \A a \in AllIds : stackOf[a] = stacks =>
             a = Target /\ ap[a] \in {"kernel_entry_smp", "or", "running"}
    /\ OwnStack

BootInv == TypeInv /\ Table /\ Start /\ Stacks

-----------------------------------------------------------------------------
(* Tables and lists, entry by entry.                                       *)

\* One entry more is one active processor more, or none.
LEMMA ActiveStep ==
    ASSUME NEW t, NEW n \in Nat
    PROVE  /\ IsFiniteSet(ActiveTo(t, n)) /\ Cardinality(ActiveTo(t, n)) \in Nat
           /\ Active(t[n + 1]) =>
                /\ ActiveTo(t, n + 1) = ActiveTo(t, n) \cup {n + 1}
                /\ Cardinality(ActiveTo(t, n + 1)) = Cardinality(ActiveTo(t, n)) + 1
           /\ ~Active(t[n + 1]) => ActiveTo(t, n + 1) = ActiveTo(t, n)
<1>1. IsFiniteSet(ActiveTo(t, n))
  <2>1. IsFiniteSet(1 .. n)
    BY FS_Interval
  <2> QED BY <2>1, FS_Subset DEF ActiveTo
<1>2. 1 .. (n + 1) = (1 .. n) \cup {n + 1}
  OBVIOUS
<1>3. n + 1 \notin ActiveTo(t, n)
  BY DEF ActiveTo
<1>4. ASSUME Active(t[n + 1])
      PROVE  ActiveTo(t, n + 1) = ActiveTo(t, n) \cup {n + 1}
  BY <1>2, <1>4 DEF ActiveTo
<1>5. ASSUME ~Active(t[n + 1]) PROVE ActiveTo(t, n + 1) = ActiveTo(t, n)
  BY <1>2, <1>5 DEF ActiveTo
<1>6. ASSUME Active(t[n + 1])
      PROVE  Cardinality(ActiveTo(t, n + 1)) = Cardinality(ActiveTo(t, n)) + 1
  BY <1>1, <1>3, <1>4, <1>6, FS_AddElement
<1> QED BY <1>1, <1>4, <1>5, <1>6, FS_CardinalityType

\* There is room for it among those of the whole table.
LEMMA ActiveRoom ==
    ASSUME NEW t, NEW n \in Nat, NEW m \in Nat, n < m, Active(t[n + 1])
    PROVE  Cardinality(ActiveTo(t, n)) + 1 <= Cardinality(ActiveTo(t, m))
<1>1. ActiveTo(t, n + 1) \subseteq ActiveTo(t, m)
  BY DEF ActiveTo
<1>2. Cardinality(ActiveTo(t, n + 1)) <= Cardinality(ActiveTo(t, m))
  BY <1>1, ActiveStep, FS_Subset
<1> QED BY <1>2, ActiveStep

LEMMA NoneActive ==
    ASSUME NEW t
    PROVE  Cardinality(ActiveTo(t, 0)) = 0 /\ ActiveTo(t, 0) = {} /\ IoApicsTo(t, 0) = {}
<1>1. 1 .. 0 = {}
  OBVIOUS
<1>2. ActiveTo(t, 0) = {} /\ IoApicsTo(t, 0) = {}
  BY <1>1 DEF ActiveTo, IoApicsTo
<1> QED BY <1>2, FS_EmptySet

LEMMA IoApicsStep ==
    ASSUME NEW t, NEW n \in Nat
    PROVE  IoApicsTo(t, n + 1) = IF IsIoApic(t[n + 1])
                                 THEN IoApicsTo(t, n) \cup {t[n + 1].apic}
                                 ELSE IoApicsTo(t, n)
<1>1. 1 .. (n + 1) = (1 .. n) \cup {n + 1}
  OBVIOUS
<1> QED BY <1>1 DEF IoApicsTo

\* An empty list for no entries.
LEMMA ListingNone ==
    ASSUME NEW t, NEW processors
    PROVE  Listing(t, 0, processors, 0)
<1>1. 1 .. 0 = {} /\ ActiveTo(t, 0) = {}
  BY NoneActive
<1> DEFINE nth == [k \in 1 .. 0 |-> 0]
<1>2. nth \in [1 .. 0 -> ActiveTo(t, 0)]
  BY <1>1
<1> QED BY <1>1, <1>2 DEF Listing

\* The next active processor goes behind those before it.
LEMMA ListingStep ==
    ASSUME NEW t, NEW n \in Nat, NEW c \in Nat, NEW old, NEW new,
           Listing(t, n, old, c), Active(t[n + 1]),
           \A k \in 1 .. c : new[k] = old[k],
           new[c + 1].apic = t[n + 1].apic, new[c + 1].boot = Boot(t[n + 1])
    PROVE  Listing(t, n + 1, new, c + 1)
<1>1. PICK nth \in [1 .. c -> ActiveTo(t, n)] :
        /\ \A k, l \in 1 .. c : k < l => nth[k] < nth[l]
        /\ \A e \in ActiveTo(t, n) : \E k \in 1 .. c : nth[k] = e
        /\ \A k \in 1 .. c : /\ old[k].apic = t[nth[k]].apic
                             /\ old[k].boot = Boot(t[nth[k]])
  BY DEF Listing
<1>2. ActiveTo(t, n + 1) = ActiveTo(t, n) \cup {n + 1}
  BY ActiveStep
<1> DEFINE now == [k \in 1 .. (c + 1) |-> IF k = c + 1 THEN n + 1 ELSE nth[k]]
<1>3. /\ \A k \in 1 .. c : /\ k \in 1 .. (c + 1) /\ k # c + 1
                           /\ now[k] = nth[k] /\ nth[k] \in ActiveTo(t, n)
      /\ c + 1 \in 1 .. (c + 1) /\ now[c + 1] = n + 1
  OBVIOUS
<1>4. \A k \in 1 .. (c + 1) : k = c + 1 \/ k \in 1 .. c
  OBVIOUS
<1>5. now \in [1 .. (c + 1) -> ActiveTo(t, n + 1)]
  BY <1>2
<1> HIDE DEF now
<1>6. \A e \in ActiveTo(t, n) : e \in 1 .. n
  BY DEF ActiveTo
<1>7. \A k, l \in 1 .. (c + 1) : k < l => now[k] < now[l]
  <2> SUFFICES ASSUME NEW k \in 1 .. (c + 1), NEW l \in 1 .. (c + 1), k < l
               PROVE  now[k] < now[l]
    OBVIOUS
  <2>1. k \in 1 .. c
    OBVIOUS
  <2>2. CASE l = c + 1
    <3>1. now[k] \in 1 .. n /\ now[l] = n + 1
      BY <1>3, <1>6, <2>1, <2>2
    <3> QED BY <3>1
  <2>3. CASE l \in 1 .. c
    BY <1>1, <1>3, <2>1, <2>3
  <2> QED BY <1>4, <2>2, <2>3
<1>8. \A e \in ActiveTo(t, n + 1) : \E k \in 1 .. (c + 1) : now[k] = e
  BY <1>1, <1>2, <1>3
<1>9. ASSUME NEW k \in 1 .. (c + 1)
      PROVE  new[k].apic = t[now[k]].apic /\ new[k].boot = Boot(t[now[k]])
  <2>1. CASE k = c + 1
    BY <1>3, <2>1
  <2>2. CASE k \in 1 .. c
    BY <1>1, <1>3, <2>2
  <2> QED BY <1>4, <2>1, <2>2
<1> QED BY <1>5, <1>7, <1>8, <1>9 DEF Listing

\* Other entries leave the list as it is, and so does what changes only "up".
LEMMA ListingAlike ==
    ASSUME NEW t, NEW n, NEW m, NEW c, NEW old, NEW new,
           Listing(t, n, old, c), ActiveTo(t, m) = ActiveTo(t, n),
           \A k \in 1 .. c : new[k].apic = old[k].apic /\ new[k].boot = old[k].boot
    PROVE  Listing(t, m, new, c)
<1>1. PICK nth \in [1 .. c -> ActiveTo(t, n)] :
        /\ \A k, l \in 1 .. c : k < l => nth[k] < nth[l]
        /\ \A e \in ActiveTo(t, n) : \E k \in 1 .. c : nth[k] = e
        /\ \A k \in 1 .. c : /\ old[k].apic = t[nth[k]].apic
                             /\ old[k].boot = Boot(t[nth[k]])
  BY DEF Listing
<1>2. nth \in [1 .. c -> ActiveTo(t, m)] /\ \A k, l \in 1 .. c : k < l => nth[k] < nth[l]
  BY <1>1
<1>3. \A e \in ActiveTo(t, m) : \E k \in 1 .. c : nth[k] = e
  BY <1>1
<1>4. \A k \in 1 .. c : /\ new[k].apic = t[nth[k]].apic
                         /\ new[k].boot = Boot(t[nth[k]])
  BY <1>1
<1> QED BY <1>2, <1>3, <1>4 DEF Listing

-----------------------------------------------------------------------------
(* The two passes over the table.                                          *)

ReadInv == TypeInv /\ Table

LEMMA TableLaid ==
    ASSUME TypeInv
    PROVE  /\ InARow(board.entries) /\ All \in Nat /\ DOMAIN board.entries = 1 .. All
           /\ \A k \in 1 .. All : board.entries[k].apic \in Apics
<1>1. InARow(board.entries) /\ board \in Boards
  BY TablesAssumption DEF TypeInv
<1>2. All \in Nat /\ DOMAIN board.entries = 1 .. All
  BY <1>1 DEF InARow, All
<1> QED BY <1>1, <1>2 DEF Apics

\* The walk reads the entry that firmware put there.
LEMMA EntryHere ==
    ASSUME TypeInv, AtEntry, entries < All
    PROVE  entries + 1 \in 1 .. All /\ EntryAt = board.entries[entries + 1]
<1>1. entries + 1 \in 1 .. All
  BY TableLaid DEF TypeInv
<1>2. offset = board.entries[entries + 1].at
  BY DEF AtEntry, All
<1>3. ASSUME NEW k \in 1 .. All, board.entries[k].at = offset PROVE k = entries + 1
  <2>1. /\ k \in 1 .. Len(board.entries) /\ entries + 1 \in 1 .. Len(board.entries)
        /\ k \in Nat /\ entries + 1 \in Nat
    BY <1>1, TableLaid DEF All
  <2>2. /\ k < entries + 1 => board.entries[k].at < board.entries[entries + 1].at
        /\ entries + 1 < k => board.entries[entries + 1].at < board.entries[k].at
        /\ board.entries[k].at \in Nat
    BY <2>1, TableLaid DEF InARow
  <2> HIDE DEF All
  <2> QED BY <1>2, <1>3, <2>1, <2>2
<1>4. {k \in DOMAIN board.entries : board.entries[k].at = offset} = {entries + 1}
  BY <1>1, <1>2, <1>3, TableLaid
<1> QED BY <1>1, <1>4 DEF EntryAt

\* And stands behind it then.
LEMMA EntryAfter ==
    ASSUME TypeInv, AtEntry, entries < All, Advance(EntryAt), board' = board
    PROVE  /\ entries' = entries + 1 /\ entries' \in Nat /\ offset' \in Nat
           /\ AtEntry'
<1>1. entries + 1 \in 1 .. All /\ EntryAt = board.entries[entries + 1]
  BY EntryHere
<1>2. entries' = entries + 1 /\ offset' = offset + SizeOf(board.entries[entries + 1])
  BY <1>1 DEF Advance
<1>3. SizeOf(board.entries[entries + 1]) \in Nat /\ offset \in Nat /\ entries \in Nat
  BY DEF SizeOf, TypeInv
<1>4. All \in Nat /\ entries + 1 <= All
  BY <1>1, TableLaid
<1>5. offset = board.entries[entries + 1].at
  BY DEF AtEntry, All
<1>6. ASSUME entries + 1 < All PROVE offset' = board.entries[entries + 1 + 1].at
  <2>1. entries + 1 \in 1 .. (All - 1)
    BY <1>3, <1>4, <1>6
  <2>2. board.entries[entries + 1 + 1].at
          = board.entries[entries + 1].at + SizeOf(board.entries[entries + 1])
    BY <2>1, TableLaid DEF InARow, All
  <2> QED BY <1>2, <1>5, <2>2
<1>7. AtEntry'
  BY <1>2, <1>4, <1>6 DEF AtEntry, All
<1> QED BY <1>2, <1>3, <1>7

\* What the walk leaves alone keeps its type.
RestTyped == /\ i \in Nat \ {0} /\ stacks \in Nat
             /\ startup \in [status : SUBSET {"SMP_STARTING", "SMP_RUNNING"}, stack : Nat]
             /\ DOMAIN ap = AllIds
             /\ stackOf \in [AllIds -> Nat] /\ sipi \in [AllIds -> Nat]
             /\ loaded \in [AllIds -> SUBSET {"SMP_STARTING", "SMP_RUNNING"}]

LEMMA RestStays ==
    ASSUME TypeInv, UNCHANGED <<startVars, apVars, ipiVars>>
    PROVE  RestTyped'
  BY DEF TypeInv, RestTyped, startVars, apVars, ipiVars

LEMMA FindTableRead ==
    ASSUME ReadInv, FindTable
    PROVE  ReadInv'
<1>1. RestTyped'
  BY RestStays DEF ReadInv, FindTable
<1>2. /\ pc = "find" /\ pc' \in {"map", "hung"}
      /\ UNCHANGED <<board, offset, entries, cpu_index, mapped>>
      /\ UNCHANGED <<smp_processor_count, smp_processors>>
  BY DEF FindTable, tableVars, listVars
<1>3. TypeInv'
  BY <1>1, <1>2 DEF ReadInv, TypeInv, RestTyped, Reading
<1>4. Table'
  BY <1>2 DEF ReadInv, Table, Starts, Waiting
<1> QED BY <1>3, <1>4 DEF ReadInv

LEMMA MapLocalApicRead ==
    ASSUME ReadInv, MapLocalApic
    PROVE  ReadInv'
<1>1. RestTyped'
  BY RestStays DEF ReadInv, MapLocalApic
<1>2. /\ pc = "map" /\ pc' = "count" /\ mapped' = {board.local_apic}
      /\ UNCHANGED <<board, offset, entries, cpu_index>>
      /\ UNCHANGED <<smp_processor_count, smp_processors>>
  BY DEF MapLocalApic, Goto, listVars
<1>3. TypeInv'
  BY <1>1, <1>2 DEF ReadInv, TypeInv, RestTyped, Reading
<1>4. entries = 0 /\ offset = 0 /\ smp_processor_count = 0
  BY <1>2 DEF ReadInv, Table
<1>5. AtEntry'
  <2>1. InARow(board.entries) /\ 0 + 1 = 1
    BY TableLaid DEF ReadInv
  <2> QED BY <1>2, <1>4, <2>1 DEF AtEntry, InARow
<1>6. smp_processor_count' = Cardinality(ActiveTo(board.entries, entries)')
  BY <1>2, <1>4, NoneActive
<1>7. Table'
  BY <1>2, <1>5, <1>6 DEF ReadInv, Table, Starts, Waiting, ActiveTo
<1> QED BY <1>3, <1>7 DEF ReadInv

LEMMA CountEntryRead ==
    ASSUME ReadInv, CountEntry
    PROVE  ReadInv'
<1>1. RestTyped'
  BY RestStays DEF ReadInv, CountEntry
<1> DEFINE t == board.entries
<1>2. /\ pc = "count" /\ pc' \in {"count", "hung"} /\ entries < All
      /\ Advance(EntryAt) /\ AtEntry
      /\ smp_processor_count' = IF Active(EntryAt) THEN smp_processor_count + 1
                                ELSE smp_processor_count
      /\ UNCHANGED <<board, cpu_index, mapped, smp_processors>>
  BY DEF CountEntry, ReadInv, Table, All
<1>3. EntryAt = t[entries + 1]
  BY <1>2, EntryHere DEF ReadInv
<1>4. entries' = entries + 1 /\ entries' \in Nat /\ offset' \in Nat /\ AtEntry'
  BY <1>2, EntryAfter DEF ReadInv
<1>5. smp_processor_count \in Nat /\ entries \in Nat
  BY DEF ReadInv, TypeInv
<1>6. smp_processor_count' \in Nat
  BY <1>2, <1>5
<1>7. TypeInv'
  BY <1>1, <1>2, <1>4, <1>6 DEF ReadInv, TypeInv, RestTyped, Reading
<1>8. smp_processor_count' = Cardinality(ActiveTo(t, entries + 1))
  <2>1. smp_processor_count = Cardinality(ActiveTo(t, entries))
    BY <1>2 DEF ReadInv, Table
  <2>2. CASE Active(t[entries + 1])
    BY <1>2, <1>3, <1>5, <2>1, <2>2, ActiveStep
  <2>3. CASE ~Active(t[entries + 1])
    BY <1>2, <1>3, <1>5, <2>1, <2>3, ActiveStep
  <2> QED BY <2>2, <2>3
<1>9. Table'
  BY <1>2, <1>4, <1>8 DEF ReadInv, Table, Starts, Waiting
<1> QED BY <1>7, <1>9 DEF ReadInv

LEMMA AllocProcessorsRead ==
    ASSUME ReadInv, AllocProcessors
    PROVE  ReadInv'
<1>1. RestTyped'
  BY RestStays DEF ReadInv, AllocProcessors
<1>2. /\ pc = "count" /\ entries = All
      /\ pc' = IF smp_processor_count = 0 THEN "hung" ELSE "fill"
      /\ smp_processors' = [k \in 1 .. smp_processor_count |->
                              [apic |-> 0, boot |-> FALSE, up |-> FALSE]]
      /\ offset' = 0 /\ entries' = 0
      /\ UNCHANGED <<board, cpu_index, mapped, smp_processor_count>>
  BY DEF AllocProcessors, All
<1>3. [apic |-> 0, boot |-> FALSE, up |-> FALSE] \in Processor
  BY DEF Processor, Apics
<1>4. smp_processors' \in [1 .. smp_processor_count -> Processor]
  BY <1>2, <1>3
<1>5. TypeInv'
  BY <1>1, <1>2, <1>4 DEF ReadInv, TypeInv, RestTyped, Reading
<1>6. AtEntry'
  <2>1. InARow(board.entries) /\ 0 + 1 = 1
    BY TableLaid DEF ReadInv
  <2> QED BY <1>2, <2>1 DEF AtEntry, InARow
<1>7. /\ cpu_index = 1 /\ mapped = {board.local_apic}
      /\ smp_processor_count = Cardinality(ActiveTo(board.entries, All))
      /\ smp_processor_count \in Nat
  BY <1>2 DEF ReadInv, Table, TypeInv
<1>8. CASE pc' = "hung"
  BY <1>5, <1>8 DEF ReadInv, Table, Starts, Waiting
<1>9. CASE pc' = "fill" /\ smp_processor_count # 0
  <2>1. Listing(board.entries, 0, smp_processors', cpu_index - 1)
    BY <1>7, ListingNone
  <2>2. /\ cpu_index = Cardinality(ActiveTo(board.entries, 0)) + 1
        /\ mapped = {board.local_apic} \cup IoApicsTo(board.entries, 0)
    BY <1>7, NoneActive
  <2>3. smp_processor_count > 0
    BY <1>7, <1>9
  <2>4. Table'
    BY <1>2, <1>4, <1>6, <1>7, <1>9, <2>1, <2>2, <2>3 DEF Table, Starts, Waiting, All
  <2> QED BY <1>5, <2>4 DEF ReadInv
<1> QED BY <1>2, <1>8, <1>9

LEMMA FillEntryRead ==
    ASSUME ReadInv, FillEntry
    PROVE  ReadInv'
<1>1. RestTyped'
  BY RestStays DEF ReadInv, FillEntry
<1> DEFINE t == board.entries
           e == t[entries + 1]
           c == Cardinality(ActiveTo(t, entries))
<1>2. /\ pc = "fill" /\ pc' = "fill" /\ entries < All /\ Advance(EntryAt) /\ AtEntry
      /\ UNCHANGED <<board, smp_processor_count>>
  BY DEF FillEntry, ReadInv, Table, All
<1>3. EntryAt = e /\ entries + 1 \in 1 .. All /\ e.apic \in Apics /\ All \in Nat
  BY <1>2, EntryHere, TableLaid DEF ReadInv
<1>4. /\ Active(e) =>
           /\ smp_processors' = [smp_processors EXCEPT ![cpu_index] =
                                   [apic |-> e.apic, boot |-> Boot(e), up |-> Boot(e)]]
           /\ cpu_index' = cpu_index + 1
      /\ ~Active(e) => smp_processors' = smp_processors /\ cpu_index' = cpu_index
      /\ IsIoApic(e) => mapped' = mapped \cup {e.apic}
      /\ ~IsIoApic(e) => mapped' = mapped
  BY <1>3 DEF FillEntry
<1>5. entries' = entries + 1 /\ entries' \in Nat /\ offset' \in Nat /\ AtEntry'
  BY <1>2, EntryAfter DEF ReadInv
<1>6. /\ smp_processor_count = Cardinality(ActiveTo(t, All)) /\ smp_processor_count > 0
      /\ smp_processor_count \in Nat /\ entries \in Nat
      /\ smp_processors \in [1 .. smp_processor_count -> Processor]
      /\ Listing(t, entries, smp_processors, cpu_index - 1)
      /\ cpu_index = c + 1 /\ mapped = {board.local_apic} \cup IoApicsTo(t, entries)
  BY <1>2 DEF ReadInv, Table, TypeInv
<1>7. c \in Nat
  BY <1>6, ActiveStep
<1>8. mapped' = {board.local_apic} \cup IoApicsTo(t, entries + 1)
  BY <1>4, <1>6, IoApicsStep
<1> HIDE DEF c
<1>9. /\ smp_processors' \in [1 .. smp_processor_count -> Processor]
      /\ cpu_index' = Cardinality(ActiveTo(t, entries + 1)) + 1
      /\ Listing(t, entries + 1, smp_processors', cpu_index' - 1)
  <2>1. CASE Active(e)
    <3>1. c + 1 <= smp_processor_count
      BY <1>2, <1>3, <1>6, <2>1, ActiveRoom DEF c
    <3>2. c + 1 \in 1 .. smp_processor_count
      BY <1>6, <1>7, <3>1
    <3>3. [apic |-> e.apic, boot |-> Boot(e), up |-> Boot(e)] \in Processor
      BY <1>3 DEF Processor, Boot
    <3>4. smp_processors' = [smp_processors EXCEPT ![c + 1] =
                               [apic |-> e.apic, boot |-> Boot(e), up |-> Boot(e)]]
      BY <1>4, <1>6, <2>1
    <3>5. smp_processors' \in [1 .. smp_processor_count -> Processor]
      BY <1>6, <3>2, <3>3, <3>4
    <3>6. smp_processors'[c + 1] = [apic |-> e.apic, boot |-> Boot(e), up |-> Boot(e)]
      BY <1>6, <3>2, <3>4
    <3>7. \A k \in 1 .. c : smp_processors'[k] = smp_processors[k]
      BY <1>6, <1>7, <3>1, <3>4
    <3>8. cpu_index - 1 = c /\ cpu_index' = (c + 1) + 1 /\ cpu_index' - 1 = c + 1
      BY <1>4, <1>6, <1>7, <2>1
    <3>9. Listing(t, entries + 1, smp_processors', c + 1)
      <4>1. Listing(t, entries, smp_processors, c)
        BY <1>6, <3>8
      <4>2. smp_processors'[c + 1].apic = e.apic /\ smp_processors'[c + 1].boot = Boot(e)
        BY <3>6
      <4> QED BY <1>6, <1>7, <2>1, <3>7, <4>1, <4>2, ListingStep
    <3>10. Cardinality(ActiveTo(t, entries + 1)) = c + 1
      BY <1>6, <2>1, ActiveStep DEF c
    <3> QED BY <3>5, <3>8, <3>9, <3>10
  <2>2. CASE ~Active(e)
    <3>1. ActiveTo(t, entries + 1) = ActiveTo(t, entries)
      BY <1>6, <2>2, ActiveStep
    <3>2. smp_processors' = smp_processors /\ cpu_index' = cpu_index
      BY <1>4, <2>2
    <3>3. Listing(t, entries + 1, smp_processors, cpu_index - 1)
      BY <1>6, <3>1, ListingAlike
    <3> QED BY <1>6, <3>1, <3>2, <3>3 DEF c
  <2> QED BY <2>1, <2>2
<1>10. cpu_index' \in Nat
  <2>1. Cardinality(ActiveTo(t, entries + 1)) \in Nat
    BY <1>5, ActiveStep
  <2> QED BY <1>9, <2>1
<1>11. TypeInv'
  <2>1. \A k \in DOMAIN smp_processors' : smp_processors'[k] \in Processor
    BY <1>9
  <2> QED BY <1>1, <1>2, <1>5, <1>6, <1>10, <2>1 DEF ReadInv, TypeInv, RestTyped, Reading
<1>12. Table'
  BY <1>2, <1>5, <1>6, <1>8, <1>9 DEF Table, Starts, Waiting, All
<1> QED BY <1>11, <1>12 DEF ReadInv

LEMMA FilledRead ==
    ASSUME ReadInv, Filled
    PROVE  ReadInv'
<1>1. RestTyped'
  BY RestStays DEF ReadInv, Filled
<1>2. /\ pc = "fill" /\ pc' \in {"done", "init"} /\ entries = All
      /\ UNCHANGED <<board, offset, entries, cpu_index, mapped>>
      /\ UNCHANGED <<smp_processor_count, smp_processors>>
  BY DEF Filled, tableVars, listVars, All
<1>3. TypeInv'
  BY <1>1, <1>2 DEF ReadInv, TypeInv, RestTyped, Starts
<1>4. /\ smp_processor_count = Cardinality(ActiveTo(board.entries, All))
      /\ smp_processor_count > 0
      /\ smp_processors \in [1 .. smp_processor_count -> Processor]
      /\ Listing(board.entries, All, smp_processors, cpu_index - 1)
      /\ cpu_index = smp_processor_count + 1
      /\ mapped = {board.local_apic} \cup IoApicsTo(board.entries, All)
  BY <1>2 DEF ReadInv, Table
<1>5. All' = All
  BY <1>2 DEF All
<1>6. Table'
  BY <1>2, <1>4, <1>5 DEF Table, Starts, Waiting
<1> QED BY <1>3, <1>6 DEF ReadInv

\* What starts the processors finds the table read, and leaves it.
LEMMA HungRead ==
    ASSUME ReadInv, pc' = "hung", UNCHANGED <<board, tableVars, listVars>>, RestTyped'
    PROVE  ReadInv'
<1>1. /\ UNCHANGED <<board, offset, entries, cpu_index, mapped>>
      /\ UNCHANGED <<smp_processor_count, smp_processors>>
  BY DEF tableVars, listVars
<1>2. TypeInv'
  BY <1>1 DEF ReadInv, TypeInv, RestTyped
<1>3. Table'
  BY DEF Table, Starts, Waiting
<1> QED BY <1>2, <1>3 DEF ReadInv

LEMMA OutOfMemoryRead ==
    ASSUME ReadInv, OutOfMemory
    PROVE  ReadInv'
<1>1. RestTyped'
  BY RestStays DEF ReadInv, OutOfMemory
<1> QED BY <1>1, HungRead DEF OutOfMemory

LEMMA LaterRead ==
    ASSUME ReadInv, pc \in Starts, pc' \in Starts,
           UNCHANGED <<board, tableVars, smp_processor_count>>, RestTyped',
           smp_processors' \in [1 .. smp_processor_count -> Processor],
           \A k \in 1 .. smp_processor_count :
               /\ smp_processors'[k].apic = smp_processors[k].apic
               /\ smp_processors'[k].boot = smp_processors[k].boot
    PROVE  ReadInv'
<1>1. UNCHANGED <<board, offset, entries, cpu_index, mapped, smp_processor_count>>
  BY DEF tableVars
<1>2. TypeInv'
  BY <1>1 DEF ReadInv, TypeInv, RestTyped
<1>3. /\ smp_processor_count = Cardinality(ActiveTo(board.entries, All))
      /\ smp_processor_count > 0 /\ smp_processor_count \in Nat
      /\ Listing(board.entries, All, smp_processors, cpu_index - 1)
      /\ cpu_index = smp_processor_count + 1
      /\ mapped = {board.local_apic} \cup IoApicsTo(board.entries, All)
  BY DEF ReadInv, Table, TypeInv, Starts, Waiting
<1>4. cpu_index - 1 = smp_processor_count
  BY <1>3
<1>5. Listing(board.entries, All, smp_processors', cpu_index - 1)
  BY <1>3, <1>4, ListingAlike
<1>6. All' = All
  BY <1>1 DEF All
<1>7. Table'
  BY <1>1, <1>3, <1>5, <1>6 DEF Table, Starts, Waiting
<1> QED BY <1>2, <1>7 DEF ReadInv

\* What the other processors and their interrupts do.
LEMMA OthersRead ==
    ASSUME ReadInv, UNCHANGED bspVars, RestTyped'
    PROVE  ReadInv'
<1>1. /\ UNCHANGED <<board, pc, offset, entries, cpu_index, mapped>>
      /\ UNCHANGED <<smp_processor_count, smp_processors>>
  BY DEF bspVars, tableVars, listVars
<1>2. TypeInv'
  BY <1>1 DEF ReadInv, TypeInv, RestTyped
<1>3. Table'
  BY <1>1 DEF ReadInv, Table, AtEntry, All
<1> QED BY <1>2, <1>3 DEF ReadInv

-----------------------------------------------------------------------------
(* Starting the processors: the list stays as the table has it.            *)

\* Each processor of the list is one of the board, and listed once.
LEMMA ListedAPs ==
    ASSUME ReadInv, pc \in Starts
    PROVE  /\ smp_processor_count \in Nat \ {0}
           /\ smp_processors \in [1 .. smp_processor_count -> Processor]
           /\ DOMAIN smp_processors = 1 .. smp_processor_count
           /\ \A k \in 1 .. smp_processor_count :
                ~smp_processors[k].boot => smp_processors[k].apic \in AllIds
           /\ \A k, l \in 1 .. smp_processor_count :
                smp_processors[k].apic = smp_processors[l].apic => k = l
<1> DEFINE t == board.entries
           c == smp_processor_count
<1>1. /\ c > 0 /\ c \in Nat /\ cpu_index - 1 = c
      /\ smp_processors \in [1 .. c -> Processor]
      /\ Listing(t, All, smp_processors, cpu_index - 1)
  BY DEF ReadInv, Table, TypeInv, Starts, Waiting
<1>2. PICK nth \in [1 .. c -> ActiveTo(t, All)] :
        /\ \A k, l \in 1 .. c : k < l => nth[k] < nth[l]
        /\ \A k \in 1 .. c : /\ smp_processors[k].apic = t[nth[k]].apic
                             /\ smp_processors[k].boot = Boot(t[nth[k]])
  BY <1>1 DEF Listing
<1>3. \A e \in ActiveTo(t, All) : e \in DOMAIN t /\ e \in Nat /\ IsProcessor(t[e])
  BY TableLaid DEF ActiveTo, Active, ReadInv
<1>4. ASSUME NEW k \in 1 .. c, ~smp_processors[k].boot
      PROVE  smp_processors[k].apic \in AllIds
  <2>1. nth[k] \in DOMAIN t /\ IsProcessor(t[nth[k]]) /\ ~Boot(t[nth[k]])
    BY <1>2, <1>3, <1>4
  <2>2. smp_processors[k].apic \in APsOf(board)
    BY <1>2, <2>1 DEF APsOf
  <2> QED BY <2>2 DEF AllIds, ReadInv, TypeInv
<1>5. ASSUME NEW k \in 1 .. c, NEW l \in 1 .. c,
             smp_processors[k].apic = smp_processors[l].apic
      PROVE  k = l
  <2>1. /\ nth[k] \in DOMAIN t /\ IsProcessor(t[nth[k]])
        /\ nth[l] \in DOMAIN t /\ IsProcessor(t[nth[l]])
        /\ nth[k] \in Nat /\ nth[l] \in Nat
    BY <1>2, <1>3
  <2>2. t[nth[k]].apic = t[nth[l]].apic
    BY <1>2, <1>5
  <2>3. nth[k] = nth[l]
    BY <2>1, <2>2, BoardsAssumption DEF ReadInv, TypeInv
  <2>4. ~(k < l) /\ ~(l < k)
    BY <1>2, <2>1, <2>3
  <2> QED BY <2>4
<1> QED BY <1>1, <1>4, <1>5

\* Nothing of the list changes.
LEMMA SameListRead ==
    ASSUME ReadInv, pc \in Starts, pc' \in Starts,
           UNCHANGED <<board, tableVars, listVars>>, RestTyped'
    PROVE  ReadInv'
<1>1. UNCHANGED <<smp_processor_count, smp_processors>>
  BY DEF listVars
<1> QED BY <1>1, ListedAPs, LaterRead

LEMMA SendInitRead ==
    ASSUME ReadInv, SendInit
    PROVE  ReadInv'
<1>1. RestTyped'
  BY DEF ReadInv, TypeInv, RestTyped, SendInit, startVars, ipiVars
<1> QED BY <1>1, SameListRead DEF SendInit, Starts

LEMMA SkipBootRead ==
    ASSUME ReadInv, SkipBoot
    PROVE  ReadInv'
<1>1. RestTyped'
  BY DEF ReadInv, TypeInv, RestTyped, SkipBoot, apVars, ipiVars
<1> QED BY <1>1, SameListRead DEF SkipBoot, Starts

LEMMA AllStartedRead ==
    ASSUME ReadInv, AllStarted
    PROVE  ReadInv'
<1>1. RestTyped'
  BY RestStays DEF ReadInv, AllStarted
<1> QED BY <1>1, SameListRead DEF AllStarted, Goto, Starts

LEMMA PrepareRead ==
    ASSUME ReadInv, Prepare
    PROVE  ReadInv'
<1>1. stacks' \in Nat /\ startup' = [status |-> {}, stack |-> stacks']
  BY DEF ReadInv, TypeInv, Prepare
<1>2. RestTyped'
  BY <1>1 DEF ReadInv, TypeInv, RestTyped, Prepare, apVars, ipiVars
<1> QED BY <1>2, SameListRead DEF Prepare, Starts

LEMMA PrepareFailsRead ==
    ASSUME ReadInv, PrepareFails
    PROVE  ReadInv'
<1>1. startup' \in [status : SUBSET {"SMP_STARTING", "SMP_RUNNING"}, stack : Nat]
  BY DEF ReadInv, TypeInv, PrepareFails
<1>2. RestTyped'
  BY <1>1 DEF ReadInv, TypeInv, RestTyped, PrepareFails, apVars, ipiVars
<1> QED BY <1>2, HungRead DEF PrepareFails

LEMMA SipiRead ==
    ASSUME ReadInv, NEW from \in Starts, NEW to \in Starts, Sipi(from, to)
    PROVE  ReadInv'
<1>1. sipi' \in [AllIds -> Nat]
  <2>1. sipi \in [AllIds -> Nat] /\ \A a \in AllIds : sipi[a] + 1 \in Nat
    BY DEF ReadInv, TypeInv
  <2>2. sipi' = [sipi EXCEPT ![smp_processors[i].apic] = sipi[smp_processors[i].apic] + 1]
    BY DEF Sipi
  <2> QED BY <2>1, <2>2
<1>2. RestTyped'
  BY <1>1 DEF ReadInv, TypeInv, RestTyped, Sipi, startVars, apVars
<1> QED BY <1>2, SameListRead DEF Sipi, Goto

LEMMA SeenRead ==
    ASSUME ReadInv, Seen
    PROVE  ReadInv'
<1>1. RestTyped'
  BY RestStays DEF ReadInv, Seen
<1> QED BY <1>1, SameListRead DEF Seen, Goto, Starts, Waiting

LEMMA WaitRunningRead ==
    ASSUME ReadInv, WaitRunning
    PROVE  ReadInv'
<1>1. i' \in Nat \ {0}
  BY DEF ReadInv, TypeInv, WaitRunning
<1>2. RestTyped'
  BY <1>1 DEF ReadInv, TypeInv, RestTyped, WaitRunning, apVars, ipiVars
<1>3. /\ smp_processors \in [1 .. smp_processor_count -> Processor]
      /\ smp_processors' = [smp_processors EXCEPT ![i].up = TRUE]
  BY ListedAPs DEF WaitRunning, Starts, Waiting
<1>4. /\ smp_processors' \in [1 .. smp_processor_count -> Processor]
      /\ \A k \in 1 .. smp_processor_count :
           /\ smp_processors'[k].apic = smp_processors[k].apic
           /\ smp_processors'[k].boot = smp_processors[k].boot
  BY <1>3 DEF Processor
<1> QED BY <1>2, <1>4, LaterRead DEF WaitRunning, Starts, Waiting

LEMMA APRead ==
    ASSUME ReadInv, NEW a \in AllIds, APStep(a) \/ Deliver(a) \/ Lose(a)
    PROVE  ReadInv'
<1> USE DEF ReadInv, TypeInv, RestTyped
<1>1. CASE Starting(a)
  <2>1. startup' \in [status : SUBSET {"SMP_STARTING", "SMP_RUNNING"}, stack : Nat]
    BY <1>1 DEF Starting
  <2>2. RestTyped' /\ UNCHANGED bspVars
    BY <1>1, <2>1 DEF Starting, bspVars, ipiVars
  <2> QED BY <2>2, OthersRead
<1>2. CASE TakeStack(a)
  <2>1. stackOf' \in [AllIds -> Nat]
    BY <1>2 DEF TakeStack
  <2>2. RestTyped' /\ UNCHANGED bspVars
    BY <1>2, <2>1 DEF TakeStack, bspVars, ipiVars
  <2> QED BY <2>2, OthersRead
<1>3. CASE LoadStatus(a)
  <2>1. loaded' \in [AllIds -> SUBSET {"SMP_STARTING", "SMP_RUNNING"}]
    BY <1>3 DEF LoadStatus
  <2>2. RestTyped' /\ UNCHANGED bspVars
    BY <1>3, <2>1 DEF LoadStatus, bspVars, ipiVars
  <2> QED BY <2>2, OthersRead
<1>4. CASE StoreStatus(a)
  <2>1. startup' \in [status : SUBSET {"SMP_STARTING", "SMP_RUNNING"}, stack : Nat]
    BY <1>4 DEF StoreStatus
  <2>2. RestTyped' /\ UNCHANGED bspVars
    BY <1>4, <2>1 DEF StoreStatus, bspVars, ipiVars
  <2> QED BY <2>2, OthersRead
<1>5. CASE Deliver(a)
  <2>1. sipi' \in [AllIds -> Nat]
    <3>1. sipi[a] \in Nat /\ sipi[a] > 0 /\ sipi' = [sipi EXCEPT ![a] = sipi[a] - 1]
      BY <1>5 DEF Deliver
    <3>2. sipi[a] - 1 \in Nat
      BY <3>1
    <3> QED BY <3>1, <3>2
  <2>2. RestTyped' /\ UNCHANGED bspVars
    BY <1>5, <2>1 DEF Deliver, bspVars
  <2> QED BY <2>2, OthersRead
<1>6. CASE Lose(a)
  <2>1. sipi' \in [AllIds -> Nat]
    BY <1>6 DEF Lose
  <2>2. RestTyped' /\ UNCHANGED bspVars
    BY <1>6, <2>1 DEF Lose, bspVars, apVars
  <2> QED BY <2>2, OthersRead
<1> QED BY <1>1, <1>2, <1>3, <1>4, <1>5, <1>6 DEF APStep

-----------------------------------------------------------------------------
(* Starting the processors: one at a time, each on a stack of its own.     *)

\* smp_init has started none yet.
LEMMA ReadingStarts ==
    ASSUME BootInv, ReadInv', UNCHANGED <<startVars, apVars, ipiVars>>,
           pc \in Reading, pc' \in Reading \cup {"init", "hung", "done"},
           \A k \in DOMAIN smp_processors' :
               smp_processors'[k].up <=> smp_processors'[k].boot,
           pc' = "done" => \A k \in DOMAIN smp_processors' : smp_processors'[k].up
    PROVE  BootInv'
<1>1. UNCHANGED <<i, stacks, startup, ap, loaded, stackOf, sipi, lost>>
  BY DEF startVars, apVars, ipiVars
<1>2. /\ i = 1 /\ stacks = 0
      /\ \A a \in AllIds : ap[a] = "firmware" /\ sipi[a] = 0 /\ stackOf[a] = 0
  BY DEF BootInv, Start
<1>3. ASSUME NEW a \in AllIds
      PROVE  ~InTrampoline(a) /\ ~InTrampoline(a)' /\ ~(sipi'[a] > 0)
  <2>1. ap[a] = "firmware" /\ ap'[a] = "firmware" /\ sipi'[a] = 0
    BY <1>1, <1>2
  <2>2. ~(sipi'[a] > 0)
    BY <2>1
  <2> QED BY <2>1, <2>2 DEF InTrampoline
<1>4. pc' \notin {"next", "send"} \cup Waiting /\ pc \notin {"send"} \cup Waiting
  BY DEF Reading, Waiting
<1>5. Start'
  BY <1>1, <1>2, <1>3, <1>4 DEF Start
<1>6. Stacks'
  BY <1>1, <1>4 DEF BootInv, Stacks, OwnStack
<1> QED BY <1>5, <1>6 DEF BootInv, ReadInv

\* In particular those of the list that are up.
LEMMA ReadingUp ==
    ASSUME BootInv, pc \in Reading \cup {"init"}
    PROVE  \A k \in DOMAIN smp_processors : smp_processors[k].up <=> smp_processors[k].boot
<1>1. \A a \in AllIds : ap[a] = "firmware"
  BY DEF BootInv, Start
<1>2. \A k \in DOMAIN smp_processors : smp_processors[k].up => smp_processors[k].boot
  BY <1>1 DEF BootInv, Start
<1>3. \A k \in DOMAIN smp_processors : smp_processors[k].boot => smp_processors[k].up
  BY DEF BootInv, Start
<1>4. \A k \in DOMAIN smp_processors :
        smp_processors[k].up \in BOOLEAN /\ smp_processors[k].boot \in BOOLEAN
  BY DEF BootInv, TypeInv, Processor
<1> QED BY <1>2, <1>3, <1>4

\* The two passes over the table.
LEMMA ReadingSteps ==
    ASSUME BootInv,
           \/ FindTable \/ MapLocalApic \/ CountEntry \/ AllocProcessors \/ OutOfMemory
    PROVE  BootInv'
<1> USE DEF Reading
<1>1. ReadInv /\ BootInv
  BY DEF BootInv, ReadInv
<1>2. CASE FindTable
  <2>1. /\ pc = "find" /\ pc' \in {"map", "hung"} /\ smp_processors' = smp_processors
        /\ UNCHANGED <<startVars, apVars, ipiVars>>
    BY <1>2 DEF FindTable, listVars
  <2> QED BY <1>1, <1>2, <2>1, FindTableRead, ReadingUp, ReadingStarts
<1>3. CASE MapLocalApic
  <2>1. /\ pc = "map" /\ pc' = "count" /\ smp_processors' = smp_processors
        /\ UNCHANGED <<startVars, apVars, ipiVars>>
    BY <1>3 DEF MapLocalApic, Goto, listVars
  <2> QED BY <1>1, <1>3, <2>1, MapLocalApicRead, ReadingUp, ReadingStarts
<1>4. CASE CountEntry
  <2>1. /\ pc = "count" /\ pc' \in {"count", "hung"} /\ smp_processors' = smp_processors
        /\ UNCHANGED <<startVars, apVars, ipiVars>>
    BY <1>4 DEF CountEntry
  <2> QED BY <1>1, <1>4, <2>1, CountEntryRead, ReadingUp, ReadingStarts
<1>5. CASE AllocProcessors
  <2>1. /\ pc = "count" /\ pc' \in {"fill", "hung"}
        /\ UNCHANGED <<startVars, apVars, ipiVars>>
        /\ \A k \in DOMAIN smp_processors' : ~smp_processors'[k].up /\ ~smp_processors'[k].boot
    BY <1>5 DEF AllocProcessors
  <2> QED BY <1>1, <1>5, <2>1, AllocProcessorsRead, ReadingStarts
<1>6. CASE OutOfMemory
  <2>1. /\ pc \in Reading /\ pc' = "hung" /\ smp_processors' = smp_processors
        /\ UNCHANGED <<startVars, apVars, ipiVars>>
    BY <1>6 DEF OutOfMemory, listVars
  <2> QED BY <1>1, <1>6, <2>1, OutOfMemoryRead, ReadingUp, ReadingStarts
<1> QED BY <1>2, <1>3, <1>4, <1>5, <1>6

LEMMA FillEntryStep ==
    ASSUME BootInv, FillEntry
    PROVE  BootInv'
<1>1. ReadInv /\ ReadInv'
  BY FillEntryRead DEF BootInv, ReadInv
<1>2. /\ pc = "fill" /\ pc' = "fill" /\ pc \in Reading
      /\ UNCHANGED <<startVars, apVars, ipiVars>>
  BY DEF FillEntry, Reading
<1>3. \A k \in DOMAIN smp_processors : smp_processors[k].up <=> smp_processors[k].boot
  BY <1>2, ReadingUp
<1>4. /\ Active(EntryAt) =>
           smp_processors' = [smp_processors EXCEPT ![cpu_index] =
                                [apic |-> EntryAt.apic, boot |-> Boot(EntryAt),
                                 up |-> Boot(EntryAt)]]
      /\ ~Active(EntryAt) => smp_processors' = smp_processors
  BY DEF FillEntry
<1>5. \A k \in DOMAIN smp_processors' : smp_processors'[k].up <=> smp_processors'[k].boot
  <2>1. CASE Active(EntryAt)
    <3> SUFFICES ASSUME NEW k \in DOMAIN smp_processors'
                 PROVE  smp_processors'[k].up <=> smp_processors'[k].boot
      OBVIOUS
    <3>1. k \in DOMAIN smp_processors
      BY <1>4, <2>1
    <3>2. CASE k = cpu_index
      <4>1. smp_processors'[k] = [apic |-> EntryAt.apic, boot |-> Boot(EntryAt),
                                  up |-> Boot(EntryAt)]
        BY <1>4, <2>1, <3>1, <3>2
      <4> QED BY <4>1
    <3>3. CASE k # cpu_index
      <4>1. smp_processors'[k] = smp_processors[k]
        BY <1>4, <2>1, <3>1, <3>3
      <4> QED BY <1>3, <3>1, <4>1
    <3> QED BY <3>2, <3>3
  <2>2. CASE ~Active(EntryAt)
    BY <1>3, <1>4, <2>2
  <2> QED BY <2>1, <2>2
<1> QED BY <1>1, <1>2, <1>5, ReadingStarts

\* One processor is the boot processor: that was not left out.
LEMMA FilledStep ==
    ASSUME BootInv, Filled
    PROVE  BootInv'
<1>1. ReadInv /\ ReadInv'
  BY FilledRead DEF BootInv, ReadInv
<1>2. /\ pc = "fill" /\ pc \in Reading /\ entries = All
      /\ pc' \in {"init", "done"} /\ (pc' = "done" => smp_processor_count = 1)
      /\ UNCHANGED <<smp_processor_count, smp_processors>>
      /\ UNCHANGED <<startVars, apVars, ipiVars>>
  BY DEF Filled, Reading, listVars, All
<1>3. \A k \in DOMAIN smp_processors : smp_processors[k].up <=> smp_processors[k].boot
  BY <1>2, ReadingUp
<1>4. ASSUME smp_processor_count = 1
      PROVE  \A k \in DOMAIN smp_processors : smp_processors[k].up
  <2> DEFINE t == board.entries
  <2>1. /\ smp_processors \in [1 .. 1 -> Processor] /\ cpu_index' - 1 = 1
        /\ Listing(t, All, smp_processors, 1)
    <3>1. /\ smp_processor_count' = 1 /\ pc' \in Starts /\ pc' # "fill" /\ board' = board
          /\ smp_processors' = smp_processors
      BY <1>2, <1>4 DEF Starts, Filled
    <3>2. All' = All
      BY <3>1 DEF All
    <3>3. /\ smp_processors' \in [1 .. 1 -> Processor] /\ cpu_index' = 1 + 1
          /\ Listing(t, All, smp_processors', cpu_index' - 1)
      BY <1>1, <3>1, <3>2 DEF ReadInv, Table
    <3>4. cpu_index' - 1 = 1
      BY <3>3
    <3> QED BY <3>1, <3>3, <3>4
  <2>2. PICK nth \in [1 .. 1 -> ActiveTo(t, All)] :
          /\ \A e \in ActiveTo(t, All) : \E k \in 1 .. 1 : nth[k] = e
          /\ \A k \in 1 .. 1 : smp_processors[k].boot = Boot(t[nth[k]])
    BY <2>1 DEF Listing
  <2>3. nth[1] \in ActiveTo(t, All) /\ 1 \in 1 .. 1 /\ \A k \in 1 .. 1 : k = 1
    BY <2>2
  <2>4. PICK e \in ActiveTo(t, All) : Boot(t[e])
    <3>1. nth[1] \in DOMAIN t /\ Active(t[nth[1]]) /\ IsProcessor(t[nth[1]])
      BY <1>1, <2>3, TableLaid DEF ActiveTo, Active, ReadInv
    <3>2. \E e \in DOMAIN t : Active(t[e]) /\ Boot(t[e])
      BY <1>1, <3>1, BoardsAssumption DEF ReadInv, TypeInv
    <3> QED BY <1>1, <3>2, TableLaid DEF ActiveTo, ReadInv
  <2>5. nth[1] = e
    BY <2>2, <2>3, <2>4
  <2>6. smp_processors[1].boot
    BY <2>2, <2>3, <2>4, <2>5
  <2> QED BY <1>3, <2>1, <2>3, <2>6
<1> QED BY <1>1, <1>2, <1>3, <1>4, ReadingStarts

\* Outside the trampoline only "running" matters.
LEMMA NoneOnTheWay ==
    ASSUME BootInv, pc \notin Waiting
    PROVE  \A a \in AllIds : ~InTrampoline(a) /\ (sipi[a] > 0 => ap[a] = "running")
  BY DEF BootInv, Start

LEMMA SendInitStep ==
    ASSUME BootInv, SendInit
    PROVE  BootInv'
<1>1. ReadInv'
  BY SendInitRead DEF BootInv, ReadInv
<1>2. /\ pc = "init" /\ pc' = "next" /\ pc' \notin {"send"} \cup Waiting
      /\ UNCHANGED <<smp_processor_count, smp_processors>>
      /\ UNCHANGED <<i, stacks, startup, loaded, stackOf, sipi, lost>>
      /\ ap' = [a \in AllIds |-> IF a \in APsOf(board) THEN "wait for SIPI" ELSE ap[a]]
  BY DEF SendInit, listVars, startVars, ipiVars, Waiting
<1>3. /\ i = 1 /\ stacks = 0
      /\ \A a \in AllIds : ap[a] = "firmware" /\ sipi[a] = 0 /\ stackOf[a] = 0
  BY <1>2 DEF BootInv, Start
<1>4. \A a \in AllIds : ap'[a] \in {"wait for SIPI", "firmware"}
  BY <1>2, <1>3
<1>5. \A k \in DOMAIN smp_processors : smp_processors[k].up <=> smp_processors[k].boot
  BY <1>2, ReadingUp
<1>6. \A a \in AllIds : ~(sipi'[a] > 0)
  <2>1. \A a \in AllIds : sipi'[a] = 0
    BY <1>2, <1>3
  <2> QED BY <2>1
<1>7. Start'
  <2>1. \A a \in AllIds : ~InTrampoline(a)'
    BY <1>4 DEF InTrampoline
  <2>2. \A k \in 1 .. (i' - 1) : k <= smp_processor_count' => smp_processors'[k].up
    <3>1. i' - 1 = 0
      <4>1. i = 1
        BY <1>3
      <4>2. i' = i
        BY <1>2
      <4> QED BY <4>1, <4>2
    <3>2. 1 .. (i' - 1) = {}
      BY <3>1
    <3> QED BY <3>2
  <2>3. pc' \notin Reading \cup {"init"} /\ pc' # "done"
    BY <1>2 DEF Reading
  <2>4. \A k \in DOMAIN smp_processors' :
         /\ smp_processors'[k].up /\ ~smp_processors'[k].boot =>
              /\ smp_processors'[k].apic \in AllIds
              /\ ap'[smp_processors'[k].apic] = "running"
         /\ smp_processors'[k].boot => smp_processors'[k].up
    BY <1>2, <1>5
  <2> QED BY <1>2, <1>6, <2>1, <2>2, <2>3, <2>4 DEF Start
<1>8. Stacks'
  <2>1. OwnStack'
    BY <1>2, <1>3, <1>4 DEF OwnStack
  <2>2. startup'.stack = stacks' /\ \A a \in AllIds : stackOf'[a] <= stacks'
    BY <1>2 DEF BootInv, Stacks
  <2> QED BY <1>2, <2>1, <2>2 DEF Stacks
<1> QED BY <1>1, <1>7, <1>8 DEF BootInv, ReadInv

\* What changes neither the processors nor their stacks.
LEMMA QuietStep ==
    ASSUME BootInv, ReadInv', UNCHANGED <<stacks, ap, loaded, stackOf, sipi>>,
           startup'.stack = startup.stack, "SMP_RUNNING" \in startup'.status =>
                                               "SMP_RUNNING" \in startup.status,
           smp_processors' = smp_processors, smp_processor_count' = smp_processor_count,
           pc \in Starts \ {"init"},
           \/ i' = i /\ pc = "check" /\ pc' = "wait"
           \/ i' = i /\ pc' = "hung" /\ pc \notin Waiting
           \/ pc' \in {"next", "done"} /\ pc \notin Waiting,
           pc' = "next" =>
               \A k \in 1 .. (i' - 1) : k <= smp_processor_count => smp_processors[k].up,
           pc' = "done" => \A k \in DOMAIN smp_processors : smp_processors[k].up
    PROVE  BootInv'
<1> USE DEF Waiting
<1>1. pc' \notin Reading \cup {"init"} /\ pc' # "send" /\ (pc' \in Waiting => pc = "check")
  BY DEF Reading
<1>2. \A a \in AllIds : InTrampoline(a)' <=> InTrampoline(a)
  BY DEF InTrampoline
<1>3. pc' \in Waiting => Target' = Target /\ i' = i
  BY <1>1 DEF Target
<1>4. Start'
  <2>1. \A a \in AllIds : InTrampoline(a)' => pc' \in Waiting /\ a = Target'
    BY <1>2, <1>3, NoneOnTheWay DEF BootInv, Start
  <2>2. \A a \in AllIds : sipi'[a] > 0 => \/ ap'[a] = "running"
                                          \/ pc' \in Waiting /\ a = Target'
    BY <1>3, NoneOnTheWay DEF BootInv, Start
  <2>3. pc' \in Waiting => i' <= smp_processor_count' /\ stacks' > 0
    BY <1>1, <1>3 DEF BootInv, Start
  <2>4. pc' \in Waiting /\ "SMP_RUNNING" \in startup'.status =>
          Target' \in AllIds /\ ap'[Target'] = "running"
    BY <1>1, <1>3 DEF BootInv, Start
  <2>5. \A k \in DOMAIN smp_processors' :
         /\ smp_processors'[k].up /\ ~smp_processors'[k].boot =>
              /\ smp_processors'[k].apic \in AllIds
              /\ ap'[smp_processors'[k].apic] = "running"
         /\ smp_processors'[k].boot => smp_processors'[k].up
    BY DEF BootInv, Start
  <2>6. pc' \in {"next"} \cup Waiting =>
          \A k \in 1 .. (i' - 1) : k <= smp_processor_count' => smp_processors'[k].up
    BY <1>1, <1>3 DEF BootInv, Start
  <2> QED BY <1>1, <2>1, <2>2, <2>3, <2>4, <2>5, <2>6 DEF Start
<1>5. Stacks'
  <2>1. OwnStack'
    BY DEF BootInv, Stacks, OwnStack
  <2>2. pc' \in Waiting =>
         \A a \in AllIds : stackOf'[a] = stacks' =>
             a = Target' /\ ap'[a] \in {"kernel_entry_smp", "or", "running"}
    BY <1>1, <1>3 DEF BootInv, Stacks
  <2> QED BY <1>1, <2>1, <2>2 DEF BootInv, Stacks
<1> QED BY <1>4, <1>5 DEF BootInv, ReadInv

\* Going past the boot processor, giving up, seeing the processor, and the end.
LEMMA QuietSteps ==
    ASSUME BootInv, SkipBoot \/ AllStarted \/ PrepareFails \/ Seen
    PROVE  BootInv'
<1> USE DEF Starts, Waiting
<1>1. ReadInv /\ BootInv
  BY DEF BootInv, ReadInv
<1>2. CASE SkipBoot
  <2>1. ReadInv' /\ pc = "next"
    BY <1>1, <1>2, SkipBootRead DEF SkipBoot
  <2>2. /\ UNCHANGED <<stacks, startup, ap, loaded, stackOf, sipi>> /\ pc' = "next"
        /\ smp_processors' = smp_processors /\ smp_processor_count' = smp_processor_count
        /\ i' = i + 1 /\ i <= smp_processor_count /\ smp_processors[i].boot
    BY <1>2 DEF SkipBoot, apVars, ipiVars, listVars
  <2>3. /\ smp_processor_count \in Nat /\ DOMAIN smp_processors = 1 .. smp_processor_count
        /\ i \in Nat \ {0}
    BY <1>1, <2>1, ListedAPs DEF ReadInv, TypeInv
  <2>4. smp_processors[i].up
    BY <2>2, <2>3 DEF BootInv, Start
  <2>5. \A k \in 1 .. (i' - 1) : k <= smp_processor_count => smp_processors[k].up
    <3>1. \A k \in 1 .. (i - 1) : k <= smp_processor_count => smp_processors[k].up
      BY <2>1 DEF BootInv, Start
    <3>2. \A k \in 1 .. (i' - 1) : k \in 1 .. (i - 1) \/ k = i
      BY <2>2, <2>3
    <3> QED BY <2>4, <3>1, <3>2
  <2> QED BY <2>1, <2>2, <2>5, QuietStep
<1>3. CASE AllStarted
  <2>1. ReadInv' /\ pc = "next"
    BY <1>1, <1>3, AllStartedRead DEF AllStarted, Goto
  <2>2. /\ UNCHANGED <<stacks, startup, ap, loaded, stackOf, sipi>> /\ pc' = "done"
        /\ smp_processors' = smp_processors /\ smp_processor_count' = smp_processor_count
        /\ i > smp_processor_count
    BY <1>3 DEF AllStarted, Goto, apVars, ipiVars, listVars, startVars
  <2>3. /\ smp_processor_count \in Nat /\ DOMAIN smp_processors = 1 .. smp_processor_count
        /\ i \in Nat \ {0}
    BY <1>1, <2>1, ListedAPs DEF ReadInv, TypeInv
  <2>4. \A k \in 1 .. (i - 1) : k <= smp_processor_count => smp_processors[k].up
    BY <2>1 DEF BootInv, Start
  <2>5. \A k \in 1 .. smp_processor_count : k \in 1 .. (i - 1) /\ k <= smp_processor_count
    BY <2>2, <2>3
  <2> QED BY <2>1, <2>2, <2>3, <2>4, <2>5, QuietStep
<1>4. CASE PrepareFails
  <2>1. ReadInv' /\ pc = "next"
    BY <1>1, <1>4, PrepareFailsRead DEF PrepareFails
  <2>2. /\ UNCHANGED <<i, stacks, ap, loaded, stackOf, sipi>> /\ pc' = "hung"
        /\ smp_processors' = smp_processors /\ smp_processor_count' = smp_processor_count
        /\ startup' = [startup EXCEPT !.status = {}]
    BY <1>4 DEF PrepareFails, apVars, ipiVars, listVars
  <2>3. startup'.stack = startup.stack /\ startup'.status = {}
    BY <2>2 DEF BootInv, TypeInv
  <2> QED BY <2>1, <2>2, <2>3, QuietStep
<1>5. CASE Seen
  <2>1. ReadInv' /\ pc = "check"
    BY <1>1, <1>5, SeenRead DEF Seen, Goto
  <2>2. /\ UNCHANGED <<i, stacks, startup, ap, loaded, stackOf, sipi>> /\ pc' = "wait"
        /\ smp_processors' = smp_processors /\ smp_processor_count' = smp_processor_count
    BY <1>5 DEF Seen, Goto, apVars, ipiVars, listVars, startVars
  <2> QED BY <2>1, <2>2, QuietStep
<1> QED BY <1>2, <1>3, <1>4, <1>5

\* A new stack is nobody's, and a cleared status is nobody's claim.
LEMMA PrepareStep ==
    ASSUME BootInv, Prepare
    PROVE  BootInv'
<1>1. ReadInv'
  BY PrepareRead DEF BootInv, ReadInv
<1>2. /\ pc = "next" /\ pc' = "send" /\ i' = i /\ i <= smp_processor_count
      /\ UNCHANGED <<smp_processor_count, smp_processors, ap, loaded, stackOf, sipi>>
      /\ stacks' = stacks + 1 /\ startup' = [status |-> {}, stack |-> stacks']
  BY DEF Prepare, listVars, apVars, ipiVars
<1>3. /\ pc \notin Waiting /\ pc' \notin Waiting
      /\ pc' \notin Reading \cup {"init"} /\ pc' # "done"
  BY <1>2 DEF Waiting, Reading
<1>4. stacks \in Nat /\ stackOf \in [AllIds -> Nat]
  BY DEF BootInv, TypeInv
<1>5. startup'.status = {} /\ startup'.stack = stacks' /\ stacks' > 0
  BY <1>2, <1>4
<1>6. ASSUME NEW a \in AllIds PROVE stackOf'[a] <= stacks' /\ stackOf'[a] # stacks'
  <2>1. stackOf[a] <= stacks /\ stackOf[a] \in Nat /\ stackOf'[a] = stackOf[a]
    BY <1>2, <1>4 DEF BootInv, Stacks
  <2> QED BY <1>2, <1>4, <2>1
<1>7. Start'
  <2>1. \A a \in AllIds : ~InTrampoline(a)' /\ (sipi'[a] > 0 => ap'[a] = "running")
    BY <1>2, <1>3, NoneOnTheWay DEF InTrampoline
  <2>2. \A k \in 1 .. (i' - 1) : k <= smp_processor_count' => smp_processors'[k].up
    BY <1>2 DEF BootInv, Start
  <2>3. \A k \in DOMAIN smp_processors' :
         /\ smp_processors'[k].up /\ ~smp_processors'[k].boot =>
              /\ smp_processors'[k].apic \in AllIds
              /\ ap'[smp_processors'[k].apic] = "running"
         /\ smp_processors'[k].boot => smp_processors'[k].up
    BY <1>2 DEF BootInv, Start
  <2> QED BY <1>2, <1>3, <1>5, <2>1, <2>2, <2>3 DEF Start
<1>8. Stacks'
  <2>1. OwnStack'
    BY <1>2 DEF BootInv, Stacks, OwnStack
  <2> QED BY <1>5, <1>6, <2>1 DEF Stacks
<1> QED BY <1>1, <1>7, <1>8 DEF BootInv, ReadInv

\* An interrupt goes to the one that is waited for.
LEMMA SipiStep ==
    ASSUME BootInv, \/ Sipi("send", "check")
                    \/ Sipi("check", "wait")
    PROVE  BootInv'
<1>1. ReadInv'
  <2>1. "send" \in Starts /\ "check" \in Starts /\ "wait" \in Starts /\ ReadInv
    BY DEF BootInv, ReadInv, Starts, Waiting
  <2> QED BY <2>1, SipiRead
<1>2. /\ pc \in {"send", "check"} /\ pc' \in Waiting /\ i' = i
      /\ UNCHANGED <<smp_processor_count, smp_processors, ap, loaded, stackOf>>
      /\ UNCHANGED <<stacks, startup>>
      /\ sipi' = [sipi EXCEPT ![Target] = sipi[Target] + 1]
  BY DEF Sipi, Goto, listVars, startVars, apVars, Waiting, Target
<1>3. pc' \notin Reading \cup {"init"} /\ pc' # "done" /\ pc \in {"send"} \cup Waiting
  BY <1>2 DEF Waiting, Reading
<1>4. Target' = Target
  BY <1>2 DEF Target
<1>5. Start'
  <2>1. \A a \in AllIds : InTrampoline(a)' => pc' \in Waiting /\ a = Target'
    BY <1>2, <1>4 DEF InTrampoline, BootInv, Start
  <2>2. ASSUME NEW a \in AllIds, sipi'[a] > 0
        PROVE  \/ ap'[a] = "running"
               \/ pc' \in Waiting /\ a = Target'
    <3>1. CASE a = Target
      BY <1>2, <1>4, <3>1
    <3>2. CASE a # Target
      <4>1. DOMAIN sipi = AllIds
        BY DEF BootInv, TypeInv
      <4>2. sipi'[a] = sipi[a]
        BY <1>2, <3>2, <4>1
      <4>3. sipi[a] > 0
        BY <2>2, <4>2
      <4>4. ap[a] = "running"
        BY <3>2, <4>3 DEF BootInv, Start
      <4> QED BY <1>2, <4>4
    <3> QED BY <3>1, <3>2
  <2>3. \A k \in 1 .. (i' - 1) : k <= smp_processor_count' => smp_processors'[k].up
    BY <1>2, <1>3 DEF BootInv, Start
  <2>4. \A k \in DOMAIN smp_processors' :
         /\ smp_processors'[k].up /\ ~smp_processors'[k].boot =>
              /\ smp_processors'[k].apic \in AllIds
              /\ ap'[smp_processors'[k].apic] = "running"
         /\ smp_processors'[k].boot => smp_processors'[k].up
    BY <1>2 DEF BootInv, Start
  <2>5. "SMP_RUNNING" \in startup'.status => Target' \in AllIds /\ ap'[Target'] = "running"
    BY <1>2, <1>3, <1>4 DEF BootInv, Start
  <2>6. i' <= smp_processor_count' /\ stacks' > 0
    BY <1>2, <1>3 DEF BootInv, Start
  <2> QED BY <1>3, <2>1, <2>2, <2>3, <2>4, <2>5, <2>6 DEF Start
<1>6. Stacks'
  <2>1. OwnStack'
    BY <1>2 DEF BootInv, Stacks, OwnStack
  <2>2. \A a \in AllIds : stackOf'[a] = stacks' =>
             a = Target' /\ ap'[a] \in {"kernel_entry_smp", "or", "running"}
    BY <1>2, <1>3, <1>4 DEF BootInv, Stacks
  <2>3. startup'.stack = stacks' /\ \A a \in AllIds : stackOf'[a] <= stacks'
    BY <1>2 DEF BootInv, Stacks
  <2> QED BY <2>1, <2>2, <2>3 DEF Stacks
<1> QED BY <1>1, <1>5, <1>6 DEF BootInv, ReadInv

\* The one that was waited for runs; nobody is on the way any more.
LEMMA WaitRunningStep ==
    ASSUME BootInv, WaitRunning
    PROVE  BootInv'
<1>1. ReadInv /\ ReadInv'
  BY WaitRunningRead DEF BootInv, ReadInv
<1>2. /\ pc = "wait" /\ pc' = "next" /\ i' = i + 1 /\ "SMP_RUNNING" \in startup.status
      /\ UNCHANGED <<smp_processor_count, ap, loaded, stackOf, sipi, stacks, startup>>
      /\ smp_processors' = [smp_processors EXCEPT ![i].up = TRUE]
  BY DEF WaitRunning, apVars, ipiVars
<1>3. /\ pc \in Waiting /\ pc \in Starts /\ pc' \notin {"send"} \cup Waiting
      /\ pc' \notin Reading \cup {"init"} /\ pc' # "done"
  BY <1>2 DEF Waiting, Reading, Starts
<1>4. Target \in AllIds /\ ap[Target] = "running"
  BY <1>2, <1>3 DEF BootInv, Start
<1>5. /\ smp_processor_count \in Nat /\ i \in Nat \ {0}
      /\ smp_processors \in [1 .. smp_processor_count -> Processor]
      /\ i <= smp_processor_count
  BY <1>1, <1>3, ListedAPs DEF BootInv, TypeInv, Start
<1>6. i \in 1 .. smp_processor_count
  BY <1>5
<1>7. \A k \in 1 .. smp_processor_count :
        /\ smp_processors'[k].apic = smp_processors[k].apic
        /\ smp_processors'[k].boot = smp_processors[k].boot
        /\ smp_processors'[k].up = (IF k = i THEN TRUE ELSE smp_processors[k].up)
  BY <1>2, <1>5 DEF Processor
<1>8. DOMAIN smp_processors' = 1 .. smp_processor_count
      /\ DOMAIN smp_processors = 1 .. smp_processor_count
  BY <1>2, <1>5
<1>9. Start'
  <2>1. ASSUME NEW a \in AllIds PROVE ~InTrampoline(a)' /\ (sipi'[a] > 0 => ap'[a] = "running")
    <3>1. ~InTrampoline(a)
      BY <1>4 DEF BootInv, Start, InTrampoline
    <3>2. sipi[a] > 0 => ap[a] = "running"
      BY <1>4 DEF BootInv, Start
    <3> QED BY <1>2, <3>1, <3>2 DEF InTrampoline
  <2>2. \A k \in 1 .. (i' - 1) : k <= smp_processor_count' => smp_processors'[k].up
    <3>1. \A k \in 1 .. (i - 1) : k <= smp_processor_count => smp_processors[k].up
      BY <1>3 DEF BootInv, Start
    <3>2. \A k \in 1 .. (i' - 1) : k \in 1 .. (i - 1) \/ k = i
      BY <1>2, <1>5
    <3>3. \A k \in 1 .. (i' - 1) : k <= smp_processor_count => k \in 1 .. smp_processor_count
      BY <1>2, <1>5
    <3>4. smp_processors'[i].up
      BY <1>6, <1>7
    <3>5. \A k \in 1 .. smp_processor_count : smp_processors[k].up => smp_processors'[k].up
      BY <1>7
    <3> QED BY <1>2, <3>1, <3>2, <3>3, <3>4, <3>5
  <2>3. ASSUME NEW k \in DOMAIN smp_processors'
        PROVE  /\ smp_processors'[k].up /\ ~smp_processors'[k].boot =>
                    /\ smp_processors'[k].apic \in AllIds
                    /\ ap'[smp_processors'[k].apic] = "running"
               /\ smp_processors'[k].boot => smp_processors'[k].up
    <3>1. CASE k = i
      BY <1>2, <1>4, <1>6, <1>7, <3>1 DEF Target
    <3>2. CASE k # i
      BY <1>2, <1>7, <1>8, <3>2 DEF BootInv, Start
    <3> QED BY <3>1, <3>2
  <2> QED BY <1>3, <2>1, <2>2, <2>3 DEF Start
<1>10. Stacks'
  <2>1. OwnStack'
    BY <1>2 DEF BootInv, Stacks, OwnStack
  <2> QED BY <1>2, <1>3, <2>1 DEF BootInv, Stacks
<1> QED BY <1>1, <1>9, <1>10 DEF BootInv, ReadInv

-----------------------------------------------------------------------------
(* What the other processors do.                                           *)

\* They leave everything to smp_init but what Start says of themselves.
LEMMA OthersStart ==
    ASSUME BootInv, UNCHANGED bspVars, pc \notin Reading \cup {"init"},
           \A a \in AllIds : InTrampoline(a)' =>
               InTrampoline(a) \/ (sipi[a] > 0 /\ ap[a] # "running"),
           \A a \in AllIds : ap[a] = "running" => ap'[a] = "running",
           \A a \in AllIds : sipi'[a] > 0 => sipi[a] > 0,
           "SMP_RUNNING" \in startup'.status =>
               \/ "SMP_RUNNING" \in startup.status
               \/ Target \in AllIds /\ ap'[Target] = "running"
    PROVE  Start'
<1>1. UNCHANGED <<pc, i, stacks, smp_processor_count, smp_processors>>
  BY DEF bspVars, listVars
<1>2. Target' = Target
  BY <1>1 DEF Target
<1>3. \A a \in AllIds : InTrampoline(a)' => pc' \in Waiting /\ a = Target'
  BY <1>1, <1>2 DEF BootInv, Start
<1>4. \A a \in AllIds : sipi'[a] > 0 => \/ ap'[a] = "running"
                                        \/ pc' \in Waiting /\ a = Target'
  BY <1>1, <1>2 DEF BootInv, Start
<1>5. \A k \in DOMAIN smp_processors' :
         /\ smp_processors'[k].up /\ ~smp_processors'[k].boot =>
              /\ smp_processors'[k].apic \in AllIds
              /\ ap'[smp_processors'[k].apic] = "running"
         /\ smp_processors'[k].boot => smp_processors'[k].up
  BY <1>1 DEF BootInv, Start
<1>6. pc' \in {"send"} \cup Waiting /\ "SMP_RUNNING" \in startup'.status =>
        Target' \in AllIds /\ ap'[Target'] = "running"
  BY <1>1, <1>2 DEF BootInv, Start
<1>7. pc' \in {"next", "send"} \cup Waiting =>
        \A k \in 1 .. (i' - 1) : k <= smp_processor_count' => smp_processors'[k].up
  BY <1>1 DEF BootInv, Start
<1>8. /\ pc' \in {"send"} \cup Waiting => i' <= smp_processor_count' /\ stacks' > 0
      /\ pc' = "done" => \A k \in DOMAIN smp_processors' : smp_processors'[k].up
  BY <1>1 DEF BootInv, Start
<1> QED BY <1>1, <1>3, <1>4, <1>5, <1>6, <1>7, <1>8 DEF Start

\* And keep the stacks they have.
LEMMA OthersStacks ==
    ASSUME BootInv, UNCHANGED bspVars, startup'.stack = startup.stack,
           stackOf' = stackOf,
           \A a \in AllIds : ap[a] \in {"kernel_entry_smp", "or", "running"} <=>
                             ap'[a] \in {"kernel_entry_smp", "or", "running"}
    PROVE  Stacks'
<1>1. UNCHANGED <<pc, i, stacks, smp_processors>>
  BY DEF bspVars, listVars
<1>2. Target' = Target
  BY <1>1 DEF Target
<1>3. OwnStack'
  BY DEF BootInv, Stacks, OwnStack
<1> QED BY <1>1, <1>2, <1>3 DEF BootInv, Stacks

\* Who is in the trampoline is the one that is waited for.
LEMMA OnTheWay ==
    ASSUME BootInv, NEW a \in AllIds,
           InTrampoline(a) \/ (sipi[a] > 0 /\ ap[a] # "running")
    PROVE  /\ pc \in Waiting /\ pc \notin Reading \cup {"init"} /\ a = Target
           /\ stacks > 0
<1>1. pc \in Waiting /\ a = Target
  BY DEF BootInv, Start
<1>2. pc \notin Reading \cup {"init"}
  BY <1>1 DEF Waiting, Reading
<1> QED BY <1>1, <1>2 DEF BootInv, Start

LEMMA StartingStep ==
    ASSUME BootInv, NEW a \in AllIds, Starting(a)
    PROVE  BootInv'
<1>1. ReadInv'
  BY APRead DEF BootInv, ReadInv, APStep
<1>2. /\ ap[a] = "trampoline" /\ ap' = [ap EXCEPT ![a] = "protected mode"]
      /\ DOMAIN ap = AllIds /\ UNCHANGED bspVars /\ UNCHANGED <<stackOf, sipi>>
      /\ startup' = [startup EXCEPT !.status = {"SMP_STARTING"}]
  BY DEF Starting, ipiVars, BootInv, TypeInv
<1>3. startup'.status = {"SMP_STARTING"} /\ startup'.stack = startup.stack
  BY <1>2 DEF BootInv, TypeInv
<1>4. InTrampoline(a)
  BY <1>2 DEF InTrampoline
<1>5. \A b \in AllIds : b # a => ap'[b] = ap[b]
  BY <1>2
<1>6. ap'[a] = "protected mode"
  BY <1>2
<1>7. \A b \in AllIds : InTrampoline(b)' => InTrampoline(b)
  BY <1>4, <1>5 DEF InTrampoline
<1>8. Start'
  <2>1. pc \notin Reading \cup {"init"}
    BY <1>4, OnTheWay DEF InTrampoline
  <2>2. \A b \in AllIds : ap[b] = "running" => ap'[b] = "running"
    BY <1>2, <1>5
  <2>3. "SMP_RUNNING" \notin startup'.status /\ \A b \in AllIds : sipi'[b] > 0 => sipi[b] > 0
    BY <1>2, <1>3
  <2> QED BY <1>2, <1>7, <2>1, <2>2, <2>3, OthersStart DEF InTrampoline
<1>9. Stacks'
  BY <1>2, <1>3, <1>5, <1>6, OthersStacks
<1> QED BY <1>1, <1>8, <1>9 DEF BootInv, ReadInv

\* The stack that it finds is the newest, which no other has taken.
LEMMA TakeStackStep ==
    ASSUME BootInv, NEW a \in AllIds, TakeStack(a)
    PROVE  BootInv'
<1>1. ReadInv'
  BY APRead DEF BootInv, ReadInv, APStep
<1>2. /\ ap[a] = "protected mode" /\ ap' = [ap EXCEPT ![a] = "kernel_entry_smp"]
      /\ DOMAIN ap = AllIds /\ UNCHANGED bspVars /\ UNCHANGED <<startup, sipi>>
      /\ stackOf' = [stackOf EXCEPT ![a] = startup.stack] /\ stackOf \in [AllIds -> Nat]
  BY DEF TakeStack, ipiVars, BootInv, TypeInv
<1>3. InTrampoline(a)
  BY <1>2 DEF InTrampoline
<1>4. \A b \in AllIds : b # a => ap'[b] = ap[b] /\ stackOf'[b] = stackOf[b]
  BY <1>2
<1>5. ap'[a] = "kernel_entry_smp" /\ stackOf'[a] = startup.stack
  BY <1>2
<1>6. \A b \in AllIds : InTrampoline(b)' => InTrampoline(b)
  BY <1>3, <1>4 DEF InTrampoline
<1>7. Start'
  <2>1. pc \notin Reading \cup {"init"}
    BY <1>3, OnTheWay DEF InTrampoline
  <2>2. \A b \in AllIds : ap[b] = "running" => ap'[b] = "running"
    BY <1>2, <1>4
  <2>3. \A b \in AllIds : sipi'[b] > 0 => sipi[b] > 0
    BY <1>2
  <2> QED BY <1>2, <1>6, <2>1, <2>2, <2>3, OthersStart DEF InTrampoline
<1>8. pc \in Waiting /\ a = Target /\ stacks > 0 /\ stacks \in Nat /\ startup.stack = stacks
  <2>1. pc \in Waiting /\ a = Target /\ stacks > 0
    BY <1>3, OnTheWay DEF InTrampoline
  <2> QED BY <2>1 DEF BootInv, TypeInv, Stacks
<1>9. \A b \in AllIds : b # a => stackOf[b] # stacks
  BY <1>8 DEF BootInv, Stacks
<1>10. Stacks'
  <2>1. UNCHANGED <<pc, i, stacks, smp_processors>> /\ Target' = Target
    BY <1>2 DEF bspVars, listVars, Target
  <2>2. \A b \in AllIds : stackOf'[b] <= stacks'
    <3>1. \A b \in AllIds : stackOf[b] <= stacks
      BY DEF BootInv, Stacks
    <3> QED BY <1>4, <1>5, <1>8, <2>1, <3>1
  <2>3. \A b \in AllIds : stackOf'[b] = stacks' =>
             b = Target' /\ ap'[b] \in {"kernel_entry_smp", "or", "running"}
    BY <1>4, <1>5, <1>8, <1>9, <2>1
  <2>4. OwnStack'
    <3> SUFFICES ASSUME NEW b \in AllIds, NEW c \in AllIds
                 PROVE  /\ stackOf'[b] = 0 =>
                             ap'[b] \notin {"kernel_entry_smp", "or", "running"}
                        /\ b # c /\ stackOf'[b] # 0 => stackOf'[b] # stackOf'[c]
      BY DEF OwnStack
    <3>1. stackOf'[a] = stacks /\ stackOf'[a] # 0
      BY <1>5, <1>8
    <3>2. \A d \in AllIds : d # a => stackOf'[d] # stacks /\ stackOf'[d] = stackOf[d]
      BY <1>4, <1>9
    <3>3. OwnStack
      BY DEF BootInv, Stacks
    <3>4. stackOf'[b] = 0 => ap'[b] \notin {"kernel_entry_smp", "or", "running"}
      BY <1>4, <3>1, <3>2, <3>3 DEF OwnStack
    <3>5. ASSUME b # c, stackOf'[b] # 0 PROVE stackOf'[b] # stackOf'[c]
      <4>1. CASE b = a
        BY <3>1, <3>2, <3>5, <4>1
      <4>2. CASE c = a
        BY <3>1, <3>2, <3>5, <4>2
      <4>3. CASE b # a /\ c # a
        BY <3>2, <3>3, <3>5, <4>3 DEF OwnStack
      <4> QED BY <4>1, <4>2, <4>3
    <3> QED BY <3>4, <3>5
  <2>5. startup'.stack = stacks'
    BY <1>2, <1>8, <2>1
  <2> QED BY <2>1, <2>2, <2>3, <2>4, <2>5 DEF Stacks
<1> QED BY <1>1, <1>7, <1>10 DEF BootInv, ReadInv

\* Setting SMP_RUNNING, in two steps: nobody else writes the status in between.
LEMMA StatusSteps ==
    ASSUME BootInv, NEW a \in AllIds, LoadStatus(a) \/ StoreStatus(a)
    PROVE  BootInv'
<1>1. ReadInv'
  BY APRead DEF BootInv, ReadInv, APStep
<1>2. CASE LoadStatus(a)
  <2>1. /\ ap[a] = "kernel_entry_smp" /\ ap' = [ap EXCEPT ![a] = "or"]
        /\ DOMAIN ap = AllIds /\ UNCHANGED bspVars /\ UNCHANGED <<startup, stackOf, sipi>>
    BY <1>2 DEF LoadStatus, ipiVars, BootInv, TypeInv
  <2>2. InTrampoline(a)
    BY <2>1 DEF InTrampoline
  <2>3. \A b \in AllIds : b # a => ap'[b] = ap[b]
    BY <2>1
  <2>4. ap'[a] = "or"
    BY <2>1
  <2>5. \A b \in AllIds : InTrampoline(b)' => InTrampoline(b)
    BY <2>2, <2>3 DEF InTrampoline
  <2>6. Start'
    <3>1. pc \notin Reading \cup {"init"}
      BY <2>2, OnTheWay DEF InTrampoline
    <3>2. \A b \in AllIds : ap[b] = "running" => ap'[b] = "running"
      BY <2>1, <2>3
    <3>3. \A b \in AllIds : sipi'[b] > 0 => sipi[b] > 0
      BY <2>1
    <3> QED BY <2>1, <2>5, <3>1, <3>2, <3>3, OthersStart DEF InTrampoline
  <2>7. Stacks'
    BY <2>1, <2>3, <2>4, OthersStacks
  <2> QED BY <1>1, <2>6, <2>7 DEF BootInv, ReadInv
<1>3. CASE StoreStatus(a)
  <2>1. /\ ap[a] = "or" /\ ap' = [ap EXCEPT ![a] = "running"]
        /\ DOMAIN ap = AllIds /\ UNCHANGED bspVars /\ UNCHANGED <<stackOf, sipi>>
        /\ startup' = [startup EXCEPT !.status = loaded[a] \cup {"SMP_RUNNING"}]
    BY <1>3 DEF StoreStatus, ipiVars, BootInv, TypeInv
  <2>2. startup'.stack = startup.stack
    BY <2>1 DEF BootInv, TypeInv
  <2>3. InTrampoline(a)
    BY <2>1 DEF InTrampoline
  <2>4. \A b \in AllIds : b # a => ap'[b] = ap[b]
    BY <2>1
  <2>5. ap'[a] = "running"
    BY <2>1
  <2>6. \A b \in AllIds : InTrampoline(b)' => InTrampoline(b)
    BY <2>3, <2>4, <2>5 DEF InTrampoline
  <2>7. Start'
    <3>1. pc \notin Reading \cup {"init"} /\ Target = a
      BY <2>3, OnTheWay DEF InTrampoline
    <3>2. \A b \in AllIds : ap[b] = "running" => ap'[b] = "running"
      BY <2>4, <2>5
    <3>3. \A b \in AllIds : sipi'[b] > 0 => sipi[b] > 0
      BY <2>1
    <3> QED BY <2>1, <2>5, <2>6, <3>1, <3>2, <3>3, OthersStart DEF InTrampoline
  <2>8. Stacks'
    BY <2>1, <2>2, <2>4, <2>5, OthersStacks
  <2> QED BY <1>1, <2>7, <2>8 DEF BootInv, ReadInv
<1> QED BY <1>2, <1>3

\* An interrupt arrives, or is lost.
LEMMA IpiSteps ==
    ASSUME BootInv, NEW a \in AllIds, Deliver(a) \/ Lose(a)
    PROVE  BootInv'
<1>1. ReadInv'
  BY APRead DEF BootInv, ReadInv
<1>2. /\ sipi[a] > 0 /\ sipi[a] \in Nat /\ sipi' = [sipi EXCEPT ![a] = sipi[a] - 1]
      /\ DOMAIN sipi = AllIds /\ DOMAIN ap = AllIds
      /\ UNCHANGED bspVars /\ UNCHANGED <<startup, stackOf>>
  BY DEF Deliver, Lose, apVars, BootInv, TypeInv
<1>3. \A b \in AllIds : sipi'[b] > 0 => sipi[b] > 0
  BY <1>2
<1>4. pc \notin Reading \cup {"init"}
  <2>1. ASSUME pc \in Reading \cup {"init"} PROVE FALSE
    <3>1. sipi[a] = 0
      BY <2>1 DEF BootInv, Start
    <3> QED BY <1>2, <3>1
  <2> QED BY <2>1
<1>5. ap' = ap \/ ap' = [ap EXCEPT ![a] = IF ap[a] = "wait for SIPI" THEN "trampoline"
                                          ELSE ap[a]]
  BY DEF Deliver, Lose, apVars
<1>6. \A b \in AllIds : \/ ap'[b] = ap[b]
                        \/ b = a /\ ap[b] = "wait for SIPI" /\ ap'[b] = "trampoline"
  BY <1>2, <1>5
<1>7. \A b \in AllIds : InTrampoline(b)' =>
        InTrampoline(b) \/ (sipi[b] > 0 /\ ap[b] # "running")
  BY <1>2, <1>6 DEF InTrampoline
<1>8. \A b \in AllIds : ap[b] = "running" => ap'[b] = "running"
  BY <1>6
<1>9. Start'
  BY <1>2, <1>3, <1>4, <1>7, <1>8, OthersStart DEF InTrampoline
<1>10. Stacks'
  <2>1. \A b \in AllIds : ap[b] \in {"kernel_entry_smp", "or", "running"} <=>
                          ap'[b] \in {"kernel_entry_smp", "or", "running"}
    BY <1>6
  <2> QED BY <1>2, <2>1, OthersStacks
<1> QED BY <1>1, <1>9, <1>10 DEF BootInv, ReadInv

-----------------------------------------------------------------------------
(* Every step, and what follows.                                           *)

LEMMA BootStarts ==
    ASSUME Init
    PROVE  BootInv
<1>1. /\ board \in Boards /\ pc = "find" /\ offset = 0 /\ entries = 0 /\ cpu_index = 1
      /\ smp_processor_count = 0 /\ smp_processors = <<>> /\ i = 1
      /\ startup = [status |-> {}, stack |-> 0] /\ stacks = 0
      /\ ap = [a \in AllIds |-> "firmware"] /\ loaded = [a \in AllIds |-> {}]
      /\ stackOf = [a \in AllIds |-> 0] /\ sipi = [a \in AllIds |-> 0]
  BY DEF Init
<1>2. DOMAIN smp_processors = {}
  BY <1>1
<1>3. TypeInv
  BY <1>1, <1>2 DEF TypeInv, Reading
<1>4. Table
  BY <1>1 DEF Table, Starts, Waiting
<1>5. pc \in Reading /\ pc # "done" /\ pc \notin {"next", "send"} \cup Waiting
  BY <1>1 DEF Reading, Waiting
<1>6. \A a \in AllIds : ap[a] = "firmware" /\ sipi[a] = 0 /\ stackOf[a] = 0
  BY <1>1
<1>7. Start
  <2>1. ASSUME NEW a \in AllIds PROVE ~InTrampoline(a) /\ ~(sipi[a] > 0)
    <3>1. ~InTrampoline(a)
      BY <1>6 DEF InTrampoline
    <3>2. sipi[a] = 0
      BY <1>6
    <3>3. ~(sipi[a] > 0)
      BY <3>2
    <3> QED BY <3>1, <3>3
  <2> QED BY <1>1, <1>2, <1>5, <1>6, <2>1 DEF Start
<1>8. Stacks
  <2>1. OwnStack
    BY <1>6 DEF OwnStack
  <2>2. startup.stack = stacks /\ \A a \in AllIds : stackOf[a] <= stacks
    BY <1>1, <1>6
  <2> QED BY <1>5, <2>1, <2>2 DEF Stacks
<1> QED BY <1>3, <1>4, <1>7, <1>8 DEF BootInv

LEMMA BootSteps ==
    ASSUME BootInv, [Next]_vars
    PROVE  BootInv'
<1>1. ASSUME FindTable \/ MapLocalApic \/ CountEntry \/ AllocProcessors \/ OutOfMemory
      PROVE  BootInv'
  BY <1>1, ReadingSteps
<1>2. ASSUME FillEntry PROVE BootInv'
  BY <1>2, FillEntryStep
<1>3. ASSUME Filled PROVE BootInv'
  BY <1>3, FilledStep
<1>4. ASSUME SendInit PROVE BootInv'
  BY <1>4, SendInitStep
<1>5. ASSUME SkipBoot \/ AllStarted \/ PrepareFails PROVE BootInv'
  BY <1>5, QuietSteps
<1>6. ASSUME Prepare PROVE BootInv'
  BY <1>6, PrepareStep
<1>7. ASSUME Send PROVE BootInv'
  BY <1>7, SipiStep DEF Send
<1>8. ASSUME Check PROVE BootInv'
  <2>1. Seen \/ Sipi("check", "wait")
    BY <1>8 DEF Check
  <2> QED BY <2>1, QuietSteps, SipiStep
<1>9. ASSUME WaitRunning PROVE BootInv'
  BY <1>9, WaitRunningStep
<1>10. ASSUME NEW a \in AllIds, APStep(a) PROVE BootInv'
  BY <1>10, StartingStep, TakeStackStep, StatusSteps DEF APStep
<1>11. ASSUME NEW a \in AllIds, Deliver(a) \/ Lose(a) PROVE BootInv'
  BY <1>11, IpiSteps
<1>12. ASSUME UNCHANGED vars PROVE BootInv'
  <2>1. /\ UNCHANGED <<board, pc, offset, entries, cpu_index, mapped>>
        /\ UNCHANGED <<smp_processor_count, smp_processors, i, startup, stacks>>
        /\ UNCHANGED <<ap, loaded, stackOf, sipi>>
    BY <1>12 DEF vars, tableVars, listVars, startVars, apVars, ipiVars
  <2>2. TypeInv'
    BY <2>1 DEF BootInv, TypeInv
  <2>3. Table'
    BY <2>1 DEF BootInv, Table, AtEntry, All
  <2>4. Start'
    BY <2>1 DEF BootInv, Start, InTrampoline, Target
  <2>5. Stacks'
    BY <2>1 DEF BootInv, Stacks, OwnStack, Target
  <2> QED BY <2>2, <2>3, <2>4, <2>5 DEF BootInv
<1> QED BY <1>1, <1>2, <1>3, <1>4, <1>5, <1>6, <1>7, <1>8, <1>9, <1>10, <1>11, <1>12
        DEF Next, BSP

\* From the first instruction of smp_init to the last.
THEOREM BootInvariant == Spec => []BootInv
<1>1. Init => BootInv
  BY BootStarts
<1>2. BootInv /\ [Next]_vars => BootInv'
  BY BootSteps
<1> QED BY <1>1, <1>2, PTL DEF Spec

\* No two processors ever run on one stack, and none on what is not a stack, however
\* many there are and however late their interrupts are (smp_init, trampoline).
THEOREM StacksOwned == Spec => []OwnStack
<1>1. BootInv => OwnStack
  BY DEF BootInv, Stacks
<1> QED BY <1>1, BootInvariant, PTL

\* What smp_init has marked as up runs the kernel, and when it returns, that are all
\* the active processors of the table: the boot processor was not left out either.
THEOREM UpRuns == Spec => []UpIsRunning
<1>1. BootInv => UpIsRunning
  BY DEF BootInv, Start, UpIsRunning
<1> QED BY <1>1, BootInvariant, PTL

LEMMA TableIsRead ==
    ASSUME BootInv
    PROVE  TableRead
<1> SUFFICES ASSUME pc \notin {"find", "map", "count", "fill", "hung"} PROVE TableRead
  BY DEF TableRead
<1> DEFINE t == board.entries
           c == smp_processor_count
<1>1. ReadInv /\ pc \in Starts /\ pc # "fill"
  BY DEF BootInv, ReadInv, TypeInv, Reading
<1>2. /\ c \in Nat /\ smp_processors \in [1 .. c -> Processor]
      /\ DOMAIN smp_processors = 1 .. c
  BY <1>1, ListedAPs
<1>3. /\ cpu_index = c + 1 /\ mapped = {board.local_apic} \cup IoApicsTo(t, All)
      /\ Listing(t, All, smp_processors, cpu_index - 1)
  BY <1>1 DEF ReadInv, Table
<1>4. Listing(t, All, smp_processors, c)
  <2>1. cpu_index - 1 = c
    BY <1>2, <1>3
  <2> QED BY <1>3, <2>1
<1>5. Len(smp_processors) = c
  <2>1. smp_processors \in Seq(Processor)
    BY <1>2
  <2> QED BY <1>2, <2>1
<1>6. ActiveTo(t, All) = Listed
  BY <1>1, TableLaid DEF ActiveTo, Listed, ReadInv
<1>7. IoApicsTo(t, All) = {t[k].apic : k \in {l \in DOMAIN t : IsIoApic(t[l])}}
  BY <1>1, TableLaid DEF IoApicsTo, ReadInv
<1>8. PICK nth \in [1 .. c -> ActiveTo(t, All)] :
        /\ \A k, l \in 1 .. c : k < l => nth[k] < nth[l]
        /\ \A e \in ActiveTo(t, All) : \E k \in 1 .. c : nth[k] = e
        /\ \A k \in 1 .. c : smp_processors[k].apic = t[nth[k]].apic
  BY <1>4 DEF Listing
<1>9. DOMAIN nth = DOMAIN smp_processors /\ nth \in [DOMAIN smp_processors -> Listed]
  BY <1>2, <1>6, <1>8
<1>10. /\ \A k, l \in DOMAIN nth : k < l => nth[k] < nth[l]
       /\ \A e \in Listed : \E k \in DOMAIN nth : nth[k] = e
       /\ \A k \in DOMAIN nth : smp_processors[k].apic = t[nth[k]].apic
  BY <1>2, <1>6, <1>8, <1>9
<1> QED BY <1>3, <1>5, <1>7, <1>9, <1>10 DEF TableRead

\* Both passes over the table agree: the processors that are started are the active
\* ones of the table, all of them and in its order, each inside the array that was
\* allocated for as many as the first pass counted.
THEOREM WholeTableRead == Spec => []TableRead
BY BootInvariant, TableIsRead, PTL

\* The stack in the startup data never changes under a processor that has yet to
\* take it.
THEOREM StackStaysInPlace == Spec => TrampolineStable
<1>1. ASSUME BootInv, [Next]_vars, startup'.stack # startup.stack,
             NEW a \in AllIds
      PROVE  ~InTrampoline(a)
  <2>1. CASE Prepare
    <3>1. pc \notin Waiting
      BY <2>1 DEF Prepare, Waiting
    <3> QED BY <1>1, <3>1, NoneOnTheWay
  <2>2. CASE ~Prepare
    <3>1. startup \in [status : SUBSET {"SMP_STARTING", "SMP_RUNNING"}, stack : Nat]
      BY <1>1 DEF BootInv, TypeInv
    <3>2. ASSUME startup' = startup PROVE FALSE
      BY <1>1, <3>2
    <3>3. ASSUME NEW s, startup' = [startup EXCEPT !.status = s] PROVE FALSE
      BY <1>1, <3>1, <3>3
    <3>4. ASSUME BSP PROVE FALSE
      <4>1. startup' = startup \/ PrepareFails
        BY <2>2, <3>4 DEF BSP, FindTable, MapLocalApic, CountEntry, AllocProcessors,
           FillEntry, Filled, OutOfMemory, SendInit, SkipBoot, AllStarted, Send, Check,
           Sipi, Seen, WaitRunning, startVars
      <4> QED BY <3>2, <3>3, <4>1 DEF PrepareFails
    <3>5. ASSUME NEW b \in AllIds, APStep(b) \/ Deliver(b) \/ Lose(b) PROVE FALSE
      BY <3>2, <3>3, <3>5 DEF APStep, Starting, TakeStack, LoadStatus, StoreStatus,
         Deliver, Lose
    <3>6. ASSUME UNCHANGED vars PROVE FALSE
      BY <3>2, <3>6 DEF vars, startVars
    <3> QED BY <1>1, <3>4, <3>5, <3>6 DEF Next
  <2> QED BY <2>1, <2>2
<1>2. BootInv /\ [Next]_vars =>
        [startup'.stack # startup.stack => \A a \in AllIds : ~InTrampoline(a)]_vars
  BY <1>1
<1> QED BY <1>2, BootInvariant, PTL DEF Spec, TrampolineStable
=============================================================================
