------------------------------- MODULE Threads ------------------------------
(***************************************************************************)
(* thread_create and thread_destroy of thread.c, called by several         *)
(* processors.  Both take lock_thread, and thread_create gives it up while *)
(* it fills in the thread.  A thread, and its node on the list "threads",  *)
(* is named by the address of its area, a process likewise; its stack and  *)
(* its registers are areas of their own.                                   *)
(*                                                                         *)
(* The nodes of thread_create are longer than the areas it asks for (the   *)
(* sizeof of a node is that of a pointer): "prev" and "next" lie behind    *)
(* the area, where memory_alloc has the header of the next block, and the  *)
(* first HELP_DLLIST_ADD overwrites it.  From then on a call of            *)
(* memory_alloc or memory_free may work or do anything else; where it does *)
(* anything else, behaviours end here (Astray).  What is said of the lists *)
(* and the areas is said of the time before.                               *)
(***************************************************************************)
EXTENDS DLList, FiniteSets, SequencesExt

CONSTANTS
    CPUs,           \* the processors that manage threads
    ThreadAreas,    \* addresses memory_alloc may return for a thread_t
    ProcessAreas    \* and for a process_t

ASSUME AreasAssumption == /\ Nodes = ThreadAreas \cup ProcessAreas
                          /\ ThreadAreas \cap ProcessAreas = {}

VARIABLES
    lock_thread,    \* 0 or 1
    heap,           \* the lists "threads" and "processes", and the nodes' links
    parent,         \* of each thread
    filled,         \* the threads whose registers have been set up
    count,          \* "threads" of each process
    allocated,      \* what memory_alloc has given away: <<kind, address of the owner>>
    pc,             \* where each processor is
    thread,         \* the thread it creates or destroys
    process,        \* the process it creates one in, NULL for a new one
    handles,        \* the threads somebody may still destroy
    running,        \* the thread a processor creates another one for, NULL if none
    failed,         \* history: thread_create has returned NULL
    manager         \* the memory manager: its headers are "sound" or "harmed", or
                    \* it has gone "astray"

locals == <<pc, thread, process>>
vars == <<lock_thread, heap, parent, filled, count, allocated, locals, handles, running,
          failed, manager>>

Init == /\ lock_thread = 0
        /\ heap = [threads |-> [start |-> NULL, end |-> NULL],
                   processes |-> [start |-> NULL, end |-> NULL],
                   next |-> [n \in Nodes |-> NULL],
                   prev |-> [n \in Nodes |-> NULL]]
        /\ parent = [t \in ThreadAreas |-> NULL]
        /\ filled = {}
        /\ count = [p \in ProcessAreas |-> 0]
        /\ allocated = {}
        /\ pc = [c \in CPUs |-> "idle"]
        /\ thread = [c \in CPUs |-> NULL]
        /\ process = [c \in CPUs |-> NULL]
        /\ handles = {}
        /\ running = [c \in CPUs |-> NULL]
        /\ failed = FALSE
        /\ manager = "sound"

Go(c, from, to) == pc[c] = from /\ pc' = [pc EXCEPT ![c] = to]

\* The areas of a thread, in the order thread_create asks for them.
Parts == {"thread", "stack", "cpu"}

-----------------------------------------------------------------------------
\* thread_create(entry, parent, context): for a new process, or for the one of
\* the thread that calls, which lives as long as the call.
CallCreate(c) ==
    /\ Go(c, "idle", "lock create")
    /\ \/ /\ process' = [process EXCEPT ![c] = NULL]
          /\ UNCHANGED <<handles, running>>
       \/ \E t \in handles : /\ process' = [process EXCEPT ![c] = parent[t]]
                             /\ running' = [running EXCEPT ![c] = t]
                             /\ handles' = handles \ {t}
    /\ UNCHANGED <<lock_thread, heap, parent, filled, count, allocated, thread, failed, manager>>

\* thread_destroy(thread, free_context): once for each thread.
CallDestroy(c) ==
    /\ Go(c, "idle", "lock destroy")
    /\ \E t \in handles : /\ thread' = [thread EXCEPT ![c] = t]
                          /\ handles' = handles \ {t}
    /\ UNCHANGED <<lock_thread, heap, parent, filled, count, allocated, process,
                   running, failed, manager>>

\* thread_schedule(current) finds the node of a thread, and does nothing with it.
CallSchedule(c) ==
    /\ Go(c, "idle", "lock schedule")
    /\ \E t \in handles : /\ running' = [running EXCEPT ![c] = t]
                          /\ handles' = handles \ {t}
    /\ UNCHANGED <<lock_thread, heap, parent, filled, count, allocated, thread, process,
                   failed, manager>>

UnlockSchedule(c) ==
    /\ Go(c, "unlock schedule", "idle")
    /\ lock_thread' = 0
    /\ handles' = handles \cup {running[c]}
    /\ running' = [running EXCEPT ![c] = NULL]
    /\ UNCHANGED <<heap, parent, filled, count, allocated, thread, process, failed, manager>>

\* Variant: the lock is tested and set in two steps.
AcquireAnyway(c) ==
    /\ lock_thread' = 1
    /\ \/ Go(c, "lock create", "alloc thread")
       \/ Go(c, "lock add", "add")
       \/ Go(c, "lock schedule", "unlock schedule")
       \/ Go(c, "lock destroy", "unlink")
    /\ UNCHANGED <<heap, parent, filled, count, allocated, thread, process, handles,
                   running,
                   failed, manager>>

\* lock(&lock_thread).
Acquire(c) ==
    /\ lock_thread = 0 /\ lock_thread' = 1
    /\ \/ Go(c, "lock create", "alloc thread")
       \/ Go(c, "lock add", "add")
       \/ Go(c, "lock schedule", "unlock schedule")
       \/ Go(c, "lock destroy", "unlink")
    /\ UNCHANGED <<heap, parent, filled, count, allocated, thread, process, handles,
                   running, failed, manager>>

\* "return thread" to the caller; the thread that called goes on.
Return(c) == /\ running' = [running EXCEPT ![c] = NULL]
             /\ thread' = [thread EXCEPT ![c] = NULL]
             /\ process' = [process EXCEPT ![c] = NULL]

\* memory_alloc serves a request from the first block that fits.  Addresses are
\* only compared for equality: the lowest one stands for all.
Lowest(kind, areas) == {a \in areas : /\ <<kind, a>> \notin allocated
                                     /\ \A b \in areas : b < a => <<kind, b>> \in allocated}

AllocThread(c) ==
    /\ Go(c, "alloc thread", "alloc stack")
    /\ \E t \in Lowest("thread", ThreadAreas) :
         /\ thread' = [thread EXCEPT ![c] = t]
         /\ allocated' = allocated \cup {<<"thread", t>>}
    /\ UNCHANGED <<lock_thread, heap, parent, filled, count, process, handles, running,
                   failed, manager>>

AllocPart(c, part, from, to) ==
    /\ Go(c, from, to)
    /\ allocated' = allocated \cup {<<part, thread[c]>>}
    /\ UNCHANGED <<lock_thread, heap, parent, filled, count, thread, process, handles,
                   running, failed, manager>>

\* With a parent there is no process to allocate.
AllocProcess(c) ==
    /\ Go(c, "alloc process", "count")
    /\ IF process[c] # NULL THEN UNCHANGED <<allocated, process, count, heap, manager>>
       ELSE \E p \in Lowest("process", ProcessAreas) :
              /\ allocated' = allocated \cup {<<"process", p>>}
              /\ process' = [process EXCEPT ![c] = p]
              /\ count' = [count EXCEPT ![p] = 0]
              /\ heap' = HELP_DLLIST_ADD(heap, "processes", p)
              /\ manager' = "harmed"
    /\ UNCHANGED <<lock_thread, parent, filled, thread, handles, running, failed>>

\* Variant: the stack is not given back when the registers get no memory.
FailKeepingStack(c) ==
    /\ \/ pc[c] \in {"alloc thread", "alloc stack", "alloc cpu"}
       \/ pc[c] = "alloc process" /\ process[c] = NULL
    /\ pc' = [pc EXCEPT ![c] = "idle"]
    /\ allocated' = {a \in allocated : a[2] = thread[c] => a[1] \notin Parts \ {"stack"}}
    /\ failed' = TRUE
    /\ Return(c)
    /\ handles' = IF running[c] = NULL THEN handles ELSE handles \cup {running[c]}
    /\ UNCHANGED <<lock_thread, heap, parent, filled, count, manager>>

\* memory_alloc returns an area of size 0: what has been allocated is freed,
\* and NULL returned, with the lock held.
Fail(c) ==
    /\ \/ pc[c] \in {"alloc thread", "alloc stack", "alloc cpu"}
       \/ pc[c] = "alloc process" /\ process[c] = NULL
    /\ pc' = [pc EXCEPT ![c] = "idle"]
    /\ allocated' = {a \in allocated : a[2] = thread[c] => a[1] \notin Parts}
    /\ failed' = TRUE
    /\ Return(c)
    /\ handles' = IF running[c] = NULL THEN handles ELSE handles \cup {running[c]}
    /\ UNCHANGED <<lock_thread, heap, parent, filled, count, manager>>

\* thread->parent = process, process->threads++, unlock.
Count(c) ==
    /\ Go(c, "count", "fill")
    /\ parent' = [parent EXCEPT ![thread[c]] = process[c]]
    /\ count' = [count EXCEPT ![process[c]] = @ + 1]
    /\ lock_thread' = 0
    /\ UNCHANGED <<heap, filled, allocated, thread, process, handles, running, failed, manager>>

\* memset(thread->cpu), the registers, the context; without the lock.
Fill(c) ==
    /\ Go(c, "fill", "lock add")
    /\ filled' = filled \cup {thread[c]}
    /\ UNCHANGED <<lock_thread, heap, parent, count, allocated, thread, process,
                   handles, running, failed, manager>>

AddThread(c) ==
    /\ Go(c, "add", "unlock create")
    /\ heap' = HELP_DLLIST_ADD(heap, "threads", thread[c])
    /\ manager' = "harmed"
    /\ UNCHANGED <<lock_thread, parent, filled, count, allocated, thread, process,
                   handles, running, failed>>

\* Variant: the lock is kept.
UnlockCreateNot(c) ==
    /\ Go(c, "unlock create", "idle")
    /\ UNCHANGED lock_thread
    /\ handles' = handles \cup {thread[c]}
                    \cup IF running[c] = NULL THEN {} ELSE {running[c]}
    /\ Return(c)
    /\ UNCHANGED <<heap, parent, filled, count, allocated, failed, manager>>

UnlockCreate(c) ==
    /\ Go(c, "unlock create", "idle")
    /\ lock_thread' = 0
    /\ handles' = handles \cup {thread[c]}
                    \cup IF running[c] = NULL THEN {} ELSE {running[c]}
    /\ Return(c)
    /\ UNCHANGED <<heap, parent, filled, count, allocated, failed, manager>>

-----------------------------------------------------------------------------
Unlink(c) ==
    /\ Go(c, "unlink", "discount")
    /\ heap' = HELP_DLLIST_REMOVE(heap, "threads", thread[c])
    /\ UNCHANGED <<lock_thread, parent, filled, count, allocated, thread, process,
                   handles, running, failed, manager>>

Discount(c) ==
    /\ Go(c, "discount", "drop")
    /\ count' = [count EXCEPT ![parent[thread[c]]] = @ - 1]
    /\ UNCHANGED <<lock_thread, heap, parent, filled, allocated, thread, process,
                   handles, running, failed, manager>>

\* What an area holds when it is free does not matter.
Cleared(h, n) == [h EXCEPT !.next = [@ EXCEPT ![n] = NULL], !.prev = [@ EXCEPT ![n] = NULL]]

\* memory_free stops a processor that frees what is not allocated.
Free(c, area, from, to) ==
    /\ Go(c, from, IF area \in allocated THEN to ELSE "stopped")
    /\ allocated' = allocated \ {area}

\* The process goes with its last thread.
Drop(c) ==
    /\ pc[c] = "drop"
    /\ LET p == parent[thread[c]]
       IN  IF count[p] = 0
           THEN /\ Free(c, <<"process", p>>, "drop", "unlock destroy")
                /\ heap' = Cleared(HELP_DLLIST_REMOVE(heap, "processes", p), p)
           ELSE Go(c, "drop", "unlock destroy") /\ UNCHANGED <<allocated, heap>>
    /\ UNCHANGED <<lock_thread, parent, filled, count, thread, process, handles,
                   running, failed, manager>>

UnlockDestroy(c) ==
    /\ Go(c, "unlock destroy", "free cpu")
    /\ lock_thread' = 0
    /\ UNCHANGED <<heap, parent, filled, count, allocated, thread, process, handles,
                   running, failed, manager>>

FreePart(c, part, from, to) ==
    /\ Free(c, <<part, thread[c]>>, from, to)
    /\ UNCHANGED <<lock_thread, heap, parent, filled, count, thread, process,
                   handles, running, failed, manager>>

FreeThread(c) ==
    /\ Free(c, <<"thread", thread[c]>>, "free thread", "idle")
    /\ heap' = Cleared(heap, thread[c])
    /\ parent' = [parent EXCEPT ![thread[c]] = NULL]
    /\ filled' = filled \ {thread[c]}
    /\ Return(c)
    /\ UNCHANGED <<lock_thread, count, handles, failed, manager>>

\* Where a processor calls memory_alloc or memory_free.
CallsManager(c) ==
    \/ pc[c] \in {"alloc thread", "alloc stack", "alloc cpu",
                 "free cpu", "free stack", "free thread"}
    \/ pc[c] = "alloc process" /\ process[c] = NULL
    \/ pc[c] = "drop" /\ count[parent[thread[c]]] = 0

\* Where HELP_DLLIST_ADD writes "next" of an element that has been freed.
WritesFreed(c) == /\ pc[c] = "add" /\ heap.threads.end # NULL
                  /\ <<"thread", heap.threads.end>> \notin allocated

\* The call follows a header that a node lies over, or the write hits an area
\* that somebody else has been given meanwhile.
Astray(c) ==
    /\ manager = "harmed"
    /\ CallsManager(c) \/ WritesFreed(c)
    /\ manager' = "astray"
    /\ UNCHANGED <<lock_thread, heap, parent, filled, count, allocated, pc, thread,
                   process, handles, running, failed>>

Call(c) == /\ manager # "astray"
           /\ CallCreate(c) \/ CallDestroy(c) \/ CallSchedule(c)

Step(c) == /\ manager # "astray"
           /\ \/ Acquire(c)
              \/ AllocThread(c) \/ AllocPart(c, "stack", "alloc stack", "alloc cpu")
              \/ AllocPart(c, "cpu", "alloc cpu", "alloc process")
              \/ AllocProcess(c) \/ Fail(c) \/ Count(c) \/ Fill(c) \/ AddThread(c)
              \/ UnlockCreate(c) \/ UnlockSchedule(c)
              \/ Unlink(c) \/ Discount(c) \/ Drop(c) \/ UnlockDestroy(c)
              \/ FreePart(c, "cpu", "free cpu", "free stack")
              \/ FreePart(c, "stack", "free stack", "free thread") \/ FreeThread(c)
              \/ Astray(c)

Next == \E c \in CPUs : Call(c) \/ Step(c)

\* A processor goes on with a call it has begun; nothing makes it call.
Spec == Init /\ [][Next]_vars /\ \A c \in CPUs : WF_vars(Step(c))

\* Removing the first of several elements makes list.h forget the others:
\* callers none of whose threads gets to be destroyed while it, or the process it
\* ends, is the first of several.
OnlyFirst(l, n) == Len(Walk(heap, l)) > 1 => heap[l].start # n

Orderly(t) == /\ OnlyFirst("threads", t)
              /\ count[parent[t]] = 1 => OnlyFirst("processes", parent[t])

OrderlyStep(c) == Step(c) /\ (pc[c] = "lock destroy" => Orderly(thread[c]))

OrderlyNext == \E c \in CPUs : Call(c) \/ OrderlyStep(c)

OrderlySpec == Init /\ [][OrderlyNext]_vars /\ \A c \in CPUs : WF_vars(OrderlyStep(c))

-----------------------------------------------------------------------------
\* Where a processor holds lock_thread.
Critical == {"alloc thread", "alloc stack", "alloc cpu", "alloc process", "count",
             "add", "unlock create", "unlink", "discount", "drop", "unlock destroy",
             "unlock schedule"}

\* At most one processor is between a lock and its unlock, and the word says so.
OneInside == \A c \in CPUs : pc[c] \in Critical =>
                 lock_thread = 1 /\ \A d \in CPUs : pc[d] \in Critical => c = d

\* A thread that is being made, or taken apart, by a processor at one of "places".
At(t, places) == \E c \in CPUs : thread[c] = t /\ pc[c] \in places

Uncounted == {"alloc stack", "alloc cpu", "alloc process", "count",
              "drop", "unlock destroy", "free cpu", "free stack", "free thread"}

\* The threads that a process counts.
Alive == {t \in ThreadAreas : <<"thread", t>> \in allocated /\ ~At(t, Uncounted)}

ThreadsOf(p) == {t \in Alive : parent[t] = p}

\* A process in the making, or about to be dropped, has no threads.
Passing(p) == \E c \in CPUs : \/ pc[c] = "count" /\ process[c] = p
                              \/ pc[c] = "drop" /\ parent[thread[c]] = p

\* The areas a thread owns: all three, unless it is being made or taken apart.
Owns(t) ==
    IF At(t, {"alloc stack", "free thread"}) THEN {"thread"}
    ELSE IF At(t, {"alloc cpu", "free stack"}) THEN {"thread", "stack"}
    ELSE Parts

\* Every area belongs to a thread or a process and is freed with it, on every
\* path of thread_create that fails as well: nothing leaks, nothing is freed
\* twice, and no processor is stopped for freeing what is not its own.  A process
\* counts its threads right meanwhile, those that are not on the list yet, too.
AreasOwned ==
    /\ \A a \in allocated : <<IF a[1] = "process" THEN "process" ELSE "thread", a[2]>> \in allocated
    /\ \A t \in ThreadAreas : <<"thread", t>> \in allocated =>
         {a[1] : a \in {b \in allocated : b[2] = t}} = Owns(t)
    /\ \A p \in ProcessAreas : <<"process", p>> \in allocated <=> ThreadsOf(p) # {} \/ Passing(p)
    /\ \A p \in ProcessAreas :
         <<"process", p>> \in allocated => count[p] = Cardinality(ThreadsOf(p))
    /\ \A c \in CPUs : pc[c] # "stopped"

\* Where callers are Orderly, both lists are linked both ways and hold what is
\* alive: every process, and every thread but the ones a processor still fills in
\* or has unlinked.  What is on the list of threads can be scheduled: its
\* registers have been set up.
ListsHold ==
    /\ WellLinked(heap, "threads") /\ WellLinked(heap, "processes")
    /\ ToSet(Walk(heap, "threads")) =
         {t \in Alive : ~At(t, {"fill", "lock add", "add", "discount"})}
    /\ ToSet(Walk(heap, "processes")) = {p \in ProcessAreas : <<"process", p>> \in allocated}
    /\ ToSet(Walk(heap, "threads")) \subseteq filled

\* The lock is given back, unless thread_create has failed (that path returns
\* NULL with the lock held, and all later calls wait for ever) or the memory
\* manager does not return.
LockFreed == lock_thread = 1 ~> lock_thread = 0 \/ failed \/ manager = "astray"

Table == INSTANCE ThreadTable WITH
    Threads <- ThreadAreas, Processes <- ProcessAreas, None <- NULL,
    process <- [t \in ThreadAreas |-> IF t \in Alive THEN parent[t] ELSE NULL],
    line <- Walk(heap, "threads"),
    left <- {t \in Alive : At(t, {"discount"})}

\* Where callers are Orderly, thread.c keeps the promise of ThreadTable: a thread
\* is put in line behind those before it, at most once, ends only after it has
\* been in line and has left it, and stays in its process meanwhile.
ImplementsTable == Table!TableSpec
=============================================================================
