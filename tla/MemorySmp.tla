------------------------------ MODULE MemorySmp -----------------------------
(***************************************************************************)
(* Several processors in memory_alloc and memory_free at once.  Memory     *)
(* makes a call one action; here it is taken apart where the code can be   *)
(* interleaved: taking lock_memory, the walk over a list, the change of    *)
(* the lists, the release, and the read of the selected container, which   *)
(* memory_alloc does after the release.  What each call returns is in      *)
(* "owned"; Memory's "result" is not used.                                 *)
(***************************************************************************)
EXTENDS Memory

CONSTANTS
    CPUs,       \* the processors that call the memory manager
    MaxOwned    \* bound: areas a processor holds at once

\* Containers are told apart by their addresses, and those that lie in blocks of
\* their own stay there.
ASSUME BootHeaders ==
    /\ OwnHeaders(BootFree \cup BootUsed)
    /\ Hosted(BootFree \cup BootUsed, {b \in BootUsed : b.freeable})

VARIABLES
    lock_memory,    \* 0 or 1
    pc,             \* where each processor is
    call,           \* what it asked for: a request or an area to free
    at,             \* its "container", "selected": a header, 0 for NULL
    owned           \* the areas it has been given and not freed

smpVars == <<lock_memory, pc, call, at, owned>>
allVars == <<vars, smpVars>>

At(h) == {b \in free \cup used : b.hdr = h}

SmpInit == /\ Init
           /\ lock_memory = 0
           /\ pc = [c \in CPUs |-> "idle"]
           /\ call = [c \in CPUs |-> NoArea]
           /\ at = [c \in CPUs |-> 0]
           /\ owned = [c \in CPUs |-> {}]

Go(c, where) == pc' = [pc EXCEPT ![c] = where]

\* A processor calls memory_alloc for itself.
CallAlloc(c, r) ==
    /\ pc[c] = "idle" /\ Cardinality(owned[c]) < MaxOwned
    /\ Go(c, "lock alloc")
    /\ call' = [call EXCEPT ![c] = r]
    /\ UNCHANGED <<vars, lock_memory, at, owned>>

\* A processor frees an area of its own, or the empty area of a failed
\* memory_alloc, as kernel_entry does.
CallFree(c, area) ==
    /\ pc[c] = "idle"
    /\ Go(c, "lock free")
    /\ call' = [call EXCEPT ![c] = area]
    /\ owned' = [owned EXCEPT ![c] = @ \ {area}]
    /\ UNCHANGED <<vars, lock_memory, at>>

\* Variant: test and set are not one instruction.
AcquireUnlocked(c) ==
    /\ pc[c] \in {"lock alloc", "lock free"}
    /\ lock_memory' = 1
    /\ Go(c, IF pc[c] = "lock alloc" THEN "search" ELSE "find")
    /\ UNCHANGED <<vars, call, at, owned>>

\* lock(&lock_memory): lock cmpxchg until it was 0.
Acquire(c) ==
    /\ pc[c] \in {"lock alloc", "lock free"}
    /\ lock_memory = 0 /\ lock_memory' = 1
    /\ Go(c, IF pc[c] = "lock alloc" THEN "search" ELSE "find")
    /\ UNCHANGED <<vars, call, at, owned>>

\* memory_alloc's walk over list_free.
Search(c) ==
    /\ pc[c] = "search"
    /\ \/ \E b \in free : /\ FirstFit(b, call[c])
                          /\ at' = [at EXCEPT ![c] = b.hdr]
                          /\ Go(c, "take")
       \/ /\ \A b \in free : ~Serves(b, call[c])
          /\ at' = [at EXCEPT ![c] = 0]
          /\ Go(c, "unlock")
    /\ UNCHANGED <<vars, lock_memory, call, owned>>

\* memory_split and memory_move_from_to.
Take(c) ==
    /\ pc[c] = "take"
    /\ \E b \in At(at[c]) :
         /\ free' = (free \ {b}) \cup Remains(b, call[c])
         /\ used' = used \cup {Chosen(b, call[c])}
         /\ at' = [at EXCEPT ![c] = Chosen(b, call[c]).hdr]
    /\ Go(c, "unlock")
    /\ UNCHANGED <<result, halted, lock_memory, call, owned>>

\* memory_free's walk over list_used.
Find(c) ==
    /\ pc[c] = "find"
    /\ \/ \E b \in used : /\ AreaOf(b) = call[c] /\ b.freeable
                          /\ at' = [at EXCEPT ![c] = b.hdr]
                          /\ Go(c, "give back")
       \/ /\ \A b \in used : AreaOf(b) = call[c] => ~b.freeable
          /\ at' = [at EXCEPT ![c] = 0]
          /\ Go(c, "refuse")
    /\ UNCHANGED <<vars, lock_memory, call, owned>>

\* memory_move_from_to and the merges.
GiveBack(c) ==
    /\ pc[c] = "give back"
    /\ \E b \in At(at[c]) :
         /\ used' = used \ {b}
         /\ free' = (free \ (Below(b) \cup Above(b))) \cup {Freed(b)} \cup Stale(b)
    /\ at' = [at EXCEPT ![c] = 0]
    /\ Go(c, "unlock")
    /\ UNCHANGED <<result, halted, lock_memory, call, owned>>

Unlock(c) ==
    /\ pc[c] = "unlock"
    /\ lock_memory' = 0
    /\ Go(c, IF at[c] = 0 THEN "idle" ELSE "read")
    /\ UNCHANGED <<vars, call, at, owned>>

\* Variant: the processor stops before it releases the lock.
RefuseLocked(c) ==
    /\ pc[c] = "refuse"
    /\ halted' = TRUE /\ Go(c, "stopped")
    /\ UNCHANGED <<free, used, result, lock_memory, call, at, owned>>

\* "Attempted to free invalid area!": unlock, print, cli, hlt.
Refuse(c) ==
    /\ pc[c] = "refuse"
    /\ lock_memory' = 0
    /\ halted' = TRUE /\ Go(c, "stopped")
    /\ UNCHANGED <<free, used, result, call, at, owned>>

\* "return { selected->area->address, selected->area->size }", after unlock.
Read(c) ==
    /\ pc[c] = "read"
    /\ \E b \in At(at[c]) : owned' = [owned EXCEPT ![c] = @ \cup {AreaOf(b)}]
    /\ at' = [at EXCEPT ![c] = 0]
    /\ Go(c, "idle")
    /\ UNCHANGED <<vars, lock_memory, call>>

Step(c) == \/ Acquire(c) \/ Search(c) \/ Take(c) \/ Find(c) \/ GiveBack(c)
           \/ Unlock(c) \/ Refuse(c) \/ Read(c)

SmpNext == \E c \in CPUs : \/ \E r \in Requests : CallAlloc(c, r)
                           \/ \E area \in owned[c] \cup {NoArea} : CallFree(c, area)
                           \/ Step(c)

\* A processor goes on with a call it has begun; nothing makes it call, and
\* nothing makes the spin lock fair.
SmpSpec == SmpInit /\ [][SmpNext]_allVars /\ \A c \in CPUs : WF_allVars(Step(c))

-----------------------------------------------------------------------------
\* What a processor has been given: what it holds and what it has selected and
\* not read yet.
Selected(c) == IF pc[c] = "read" \/ (pc[c] = "unlock" /\ at[c] # 0)
               THEN {AreaOf(b) : b \in At(at[c])} ELSE {}

Given(c) == owned[c] \cup Selected(c)

Disjoint(a, b) == \/ a.address + a.size <= b.address
                  \/ b.address + b.size <= a.address

\* Processors never share memory, however their calls interleave, and a
\* container selected under the lock is still in use, and still the caller's,
\* when memory_alloc reads it after the release.
Exclusive ==
    /\ IInv
    /\ \A c \in CPUs :
         /\ \A area \in Given(c) : \E b \in used : AreaOf(b) = area /\ b.freeable
         /\ pc[c] = "read" => Selected(c) # {}
         /\ \A d \in CPUs \ {c} : \A a \in Given(c), b \in Given(d) : Disjoint(a, b)

\* Whoever takes the lock releases it, also when it is stopped for freeing an
\* invalid area or gets no memory: the other processors are never locked out.
LockFreed == lock_memory = 1 ~> lock_memory = 0
=============================================================================
