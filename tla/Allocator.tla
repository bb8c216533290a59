----------------------------- MODULE Allocator -----------------------------
(***************************************************************************)
(* What memory_alloc and memory_free promise their callers, with no lists, *)
(* no headers and no splitting: areas of RAM, each owned by at most one    *)
(* caller at a time.                                                       *)
(***************************************************************************)
EXTENDS Integers

CONSTANTS
    RAM,        \* addresses of the bytes that can be handed out
    Held,       \* areas in use from boot on
    Requests    \* the [size, limit, align] triples callers pass

VARIABLES
    live,       \* the areas handed out and not freed
    result,     \* what the last memory_alloc returned
    halted      \* a caller freed something it did not own

avars == <<live, result, halted>>

Nothing == [address |-> 0, size |-> 0]

Bytes(a) == a.address .. (a.address + a.size - 1)

\* The area meets the request: the size, the alignment and the limit.
Meets(a, r) == /\ a.size = r.size
               /\ r.align # 0 => a.address % r.align = 0
               /\ r.limit # 0 => a.address + a.size <= r.limit

AInit == live = Held /\ result = Nothing /\ halted = FALSE

\* An area nobody owns, wholly in RAM.
Allocate(r) ==
    /\ Meets(result', r)
    /\ Bytes(result') \subseteq RAM
    /\ \A b \in live : Bytes(result') \cap Bytes(b) = {}
    /\ live' = live \cup {result'}
    /\ UNCHANGED halted

\* The promise says nothing on when memory is exhausted: fragmentation may
\* refuse a request that the sum of the free bytes would satisfy.
Refuse == result' = Nothing /\ UNCHANGED <<live, halted>>

Release(a) == /\ a \in live \ Held
              /\ live' = live \ {a}
              /\ UNCHANGED <<result, halted>>

\* A caller that frees what it does not own is stopped; nothing else changes.
Reject == halted' = TRUE /\ UNCHANGED <<live, result>>

ANext == \/ \E r \in Requests : Allocate(r)
         \/ Refuse
         \/ \E a \in live : Release(a)
         \/ Reject

ASpec == AInit /\ [][ANext]_avars
=============================================================================
