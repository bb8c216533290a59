---------------------------- MODULE ThreadsProofs ---------------------------
(***************************************************************************)
(* thread.c, for any number of processors and any memory.  lock_thread     *)
(* excludes (OneInside of Threads).  Every area taken from memory_alloc is *)
(* the part of one thread or process that is listed or still in the hands  *)
(* of a call, so none leaks and none is shared (AreasOwned of Threads).    *)
(* Where callers are Orderly, both lists stay linked in both directions    *)
(* and hold what is alive (ListsHold of Threads), and with them thread.c   *)
(* implements ThreadTable.  All of this is said of the time before the     *)
(* memory manager goes astray.                                             *)
(***************************************************************************)
EXTENDS Threads, FiniteSetTheorems, SequenceTheorems, WellFoundedInduction, TLAPS

\* Where no processor can be on its way from a lock to its unlock.
Outside == {"idle", "lock create", "lock destroy", "lock schedule", "lock add", "fill",
            "free cpu", "free stack", "free thread", "stopped"}

\* OneInside is inductive once each processor is known to be somewhere.
Inside == pc \in [CPUs -> Critical \cup Outside] /\ OneInside

LEMMA Apart == Critical \cap Outside = {}
BY DEF Critical, Outside

LEMMA Moved ==
    ASSUME Inside, NEW c \in CPUs, NEW to \in Critical \cup Outside,
           pc' = [pc EXCEPT ![c] = to]
    PROVE  /\ pc' \in [CPUs -> Critical \cup Outside]
           /\ pc'[c] = to
           /\ \A d \in CPUs \ {c} : pc'[d] = pc[d]
BY DEF Inside

\* A processor that goes on outside, or from inside to inside, lets nobody else in.
LEMMA Onward ==
    ASSUME Inside, NEW c \in CPUs, NEW to \in Critical \cup Outside,
           pc' = [pc EXCEPT ![c] = to],
           to \in Critical => pc[c] \in Critical,
           lock_thread' = lock_thread
    PROVE  Inside'
BY Moved DEF Inside, OneInside

\* A processor that unlocks is the one that was inside, and leaves.
LEMMA Leaving ==
    ASSUME Inside, NEW c \in CPUs, NEW to \in Outside, pc[c] \in Critical,
           pc' = [pc EXCEPT ![c] = to]
    PROVE  Inside'
BY Moved, Apart DEF Inside, OneInside

\* A processor that finds the lock free finds nobody inside.
LEMMA Entering ==
    ASSUME Inside, NEW c \in CPUs, NEW to \in Critical,
           pc' = [pc EXCEPT ![c] = to],
           lock_thread = 0, lock_thread' = 1
    PROVE  Inside'
BY Moved DEF Inside, OneInside

LEMMA InsideInit == Init => Inside
BY DEF Init, Inside, OneInside, Critical, Outside

LEMMA InsideStep ==
    ASSUME Inside, NEW c \in CPUs, Step(c)
    PROVE  Inside'
<1>1. CASE Acquire(c)
  BY <1>1, Entering DEF Acquire, Go, Critical
<1>2. CASE AllocThread(c)
  BY <1>2, Onward DEF AllocThread, Go, Critical, Outside
<1>3. CASE AllocPart(c, "stack", "alloc stack", "alloc cpu")
  BY <1>3, Onward DEF AllocPart, Go, Critical, Outside
<1>4. CASE AllocPart(c, "cpu", "alloc cpu", "alloc process")
  BY <1>4, Onward DEF AllocPart, Go, Critical, Outside
<1>5. CASE AllocProcess(c)
  BY <1>5, Onward DEF AllocProcess, Go, Critical, Outside
<1>6. CASE Fail(c)
  BY <1>6, Onward DEF Fail, Critical, Outside
<1>7. CASE Count(c)
  BY <1>7, Leaving DEF Count, Go, Critical, Outside
<1>8. CASE Fill(c)
  BY <1>8, Onward DEF Fill, Go, Critical, Outside
<1>9. CASE AddThread(c)
  BY <1>9, Onward DEF AddThread, Go, Critical, Outside
<1>10. CASE UnlockCreate(c)
  BY <1>10, Leaving DEF UnlockCreate, Go, Critical, Outside
<1>11. CASE UnlockSchedule(c)
  BY <1>11, Leaving DEF UnlockSchedule, Go, Critical, Outside
<1>12. CASE Unlink(c)
  BY <1>12, Onward DEF Unlink, Go, Critical, Outside
<1>13. CASE Discount(c)
  BY <1>13, Onward DEF Discount, Go, Critical, Outside
<1>14. CASE Drop(c)
  <2>1. \E to \in {"unlock destroy", "stopped"} : pc' = [pc EXCEPT ![c] = to]
    BY <1>14 DEF Drop, Free, Go
  <2>2. pc[c] = "drop" /\ lock_thread' = lock_thread
    BY <1>14 DEF Drop
  <2>3. QED
    BY <2>1, <2>2, Onward DEF Critical, Outside
<1>15. CASE UnlockDestroy(c)
  BY <1>15, Leaving DEF UnlockDestroy, Go, Critical, Outside
<1>16. CASE FreePart(c, "cpu", "free cpu", "free stack")
  BY <1>16, Onward DEF FreePart, Free, Go, Critical, Outside
<1>17. CASE FreePart(c, "stack", "free stack", "free thread")
  BY <1>17, Onward DEF FreePart, Free, Go, Critical, Outside
<1>18. CASE FreeThread(c)
  BY <1>18, Onward DEF FreeThread, Free, Go, Critical, Outside
<1>19. CASE Astray(c)
  BY <1>19 DEF Astray, Inside, OneInside
<1>20. QED
  BY <1>1, <1>2, <1>3, <1>4, <1>5, <1>6, <1>7, <1>8, <1>9, <1>10, <1>11, <1>12,
     <1>13, <1>14, <1>15, <1>16, <1>17, <1>18, <1>19 DEF Step

LEMMA InsideNext == Inside /\ [Next]_vars => Inside'
<1> SUFFICES ASSUME Inside, [Next]_vars
             PROVE  Inside'
  OBVIOUS
<1>1. CASE UNCHANGED vars
  BY <1>1 DEF vars, locals, Inside, OneInside
<1>2. ASSUME NEW c \in CPUs, CallCreate(c)
      PROVE  Inside'
  BY <1>2, Onward DEF CallCreate, Go, Critical, Outside
<1>3. ASSUME NEW c \in CPUs, CallDestroy(c)
      PROVE  Inside'
  BY <1>3, Onward DEF CallDestroy, Go, Critical, Outside
<1>4. ASSUME NEW c \in CPUs, CallSchedule(c)
      PROVE  Inside'
  BY <1>4, Onward DEF CallSchedule, Go, Critical, Outside
<1>5. QED
  BY <1>1, <1>2, <1>3, <1>4, InsideStep DEF Next, Call

\* Whatever fails, and whoever waits: at most one processor is between lock and
\* unlock of thread.c, so lists and counts are touched by one at a time.
THEOREM Exclusion == Spec => []OneInside
<1>1. Init => Inside
  BY InsideInit
<1>2. Inside /\ [Next]_vars => Inside'
  BY InsideNext
<1>3. Inside => OneInside
  BY DEF Inside
<1>4. QED
  BY <1>1, <1>2, <1>3, PTL DEF Spec

-----------------------------------------------------------------------------
(* Whose the areas are.  A thread is named in one place only: among the    *)
(* handles, or by one processor that works on it, or runs it meanwhile.    *)

Empty == {"idle", "lock create", "alloc thread", "lock schedule", "unlock schedule"}
Early == {"lock create", "alloc thread", "alloc stack", "alloc cpu", "alloc process"}
Late == {"count", "fill", "lock add", "add", "unlock create"}
Scheduling == {"lock schedule", "unlock schedule"}
Destroying == {"lock destroy", "unlink", "discount", "drop", "unlock destroy", "free cpu",
               "free stack", "free thread"}

NoStack == {"alloc stack", "free thread"}
NoCpu == {"alloc stack", "alloc cpu", "free stack", "free thread"}

\* Every variable has a value of its kind; no processor is stopped.
Typed ==
    /\ pc \in [CPUs -> {"idle"} \cup Early \cup Late \cup Scheduling \cup Destroying]
    /\ thread \in [CPUs -> ThreadAreas \cup {NULL}]
    /\ running \in [CPUs -> ThreadAreas \cup {NULL}]
    /\ process \in [CPUs -> ProcessAreas \cup {NULL}]
    /\ handles \subseteq ThreadAreas
    /\ parent \in [ThreadAreas -> ProcessAreas \cup {NULL}]
    /\ count \in [ProcessAreas -> Int]
    /\ allocated \subseteq (Parts \X ThreadAreas) \cup ({"process"} \X ProcessAreas)

\* What a processor has, where it is.
Working(c) ==
    /\ thread[c] = NULL <=> pc[c] \in Empty
    /\ pc[c] \in {"idle"} \cup Destroying => running[c] = NULL
    /\ pc[c] \in Scheduling => running[c] # NULL
    /\ pc[c] \in Early => /\ running[c] = NULL => process[c] = NULL
                          /\ running[c] # NULL => process[c] = parent[running[c]]
    /\ pc[c] = "count" => process[c] \in ProcessAreas
    /\ pc[c] = "drop" => parent[thread[c]] \in ProcessAreas

Held ==
    /\ \A t \in handles : <<"thread", t>> \in allocated
    /\ \A c \in CPUs :
         /\ thread[c] # NULL => <<"thread", thread[c]>> \in allocated
         /\ running[c] # NULL => <<"thread", running[c]>> \in allocated
         /\ thread[c] \notin handles /\ running[c] \notin handles
    /\ \A c, d \in CPUs :
         /\ running[c] # NULL => running[c] # thread[d]
         /\ thread[c] # NULL /\ thread[c] = thread[d] => c = d
         /\ running[c] # NULL /\ running[c] = running[d] => c = d

\* Both other areas come after that of the thread, and go before it.
Owned ==
    \A t \in ThreadAreas :
        /\ <<"stack", t>> \in allocated <=> <<"thread", t>> \in allocated /\ ~At(t, NoStack)
        /\ <<"cpu", t>> \in allocated <=> <<"thread", t>> \in allocated /\ ~At(t, NoCpu)

\* A process is there for its threads, and knows how many.
Counted ==
    /\ IsFiniteSet(Alive)
    /\ \A t \in Alive : parent[t] \in ProcessAreas
    /\ \A p \in ProcessAreas :
         /\ <<"process", p>> \in allocated <=> ThreadsOf(p) # {} \/ Passing(p)
         /\ <<"process", p>> \in allocated => count[p] = Cardinality(ThreadsOf(p))

AreasInv == /\ Inside /\ Typed /\ (\A c \in CPUs : Working(c)) /\ Held /\ Owned
            /\ Counted

\* What processor c may do with the threads: keep the one it works on, take one of
\* the handles or a new one, and leave behind one that is whole or gone.
Handover(c) ==
    /\ \A d \in CPUs : d # c => /\ pc'[d] = pc[d] /\ thread'[d] = thread[d]
                                /\ running'[d] = running[d] /\ process'[d] = process[d]
    /\ handles' \subseteq handles \cup {thread[c], running[c]}
    /\ thread'[c] \notin handles' /\ running'[c] \notin handles'
    /\ thread'[c] # NULL =>
         /\ thread'[c] = thread[c] \/ thread'[c] \in handles
              \/ <<"thread", thread'[c]>> \notin allocated
         /\ <<"thread", thread'[c]>> \in allocated'
         /\ <<"stack", thread'[c]>> \in allocated' <=> pc'[c] \notin NoStack
         /\ <<"cpu", thread'[c]>> \in allocated' <=> pc'[c] \notin NoCpu
    /\ running'[c] # NULL => /\ running'[c] = running[c] \/ running'[c] \in handles
                             /\ running'[c] # thread'[c]
    /\ \A t \in ThreadAreas \ {thread[c], thread'[c]} :
         /\ parent'[t] = parent[t]
         /\ \A part \in Parts : <<part, t>> \in allocated' <=> <<part, t>> \in allocated
    /\ thread[c] # NULL /\ thread'[c] # thread[c] =>
         /\ <<"stack", thread[c]>> \in allocated' <=> <<"thread", thread[c]>> \in allocated'
         /\ <<"cpu", thread[c]>> \in allocated' <=> <<"thread", thread[c]>> \in allocated'
         /\ thread[c] \in handles' => <<"thread", thread[c]>> \in allocated'

\* Others keep what they have.
LEMMA OthersKeep ==
    ASSUME AreasInv, NEW c \in CPUs, Handover(c), Typed'
    PROVE  /\ \A d \in CPUs \ {c} :
                /\ thread[d] # NULL => thread[d] \notin {thread[c], thread'[c]}
                /\ running[d] # NULL => running[d] \notin {thread[c], thread'[c]}
           /\ \A t \in handles' : t # thread[c] => t \notin {thread[c], thread'[c]}
           /\ running'[c] # NULL => running'[c] \notin {thread[c], thread'[c]}
<1>1. Held /\ Typed
  BY DEF AreasInv
<1>2. \A t \in handles : t # NULL
  BY <1>1, NodesAssumption, AreasAssumption DEF Typed
<1>3. ASSUME NEW d \in CPUs \ {c}, thread[d] # NULL
      PROVE  thread[d] \notin {thread[c], thread'[c]}
  <2>1. thread[d] # thread[c]
    BY <1>1, <1>3 DEF Held
  <2>2. thread[d] # thread'[c]
    <3>1. thread[d] \notin handles /\ <<"thread", thread[d]>> \in allocated
      BY <1>1, <1>3 DEF Held
    <3> QED BY <1>3, <2>1, <3>1 DEF Handover
  <2> QED BY <2>1, <2>2
<1>4. ASSUME NEW d \in CPUs \ {c}, running[d] # NULL
      PROVE  running[d] \notin {thread[c], thread'[c]}
  <2>1. running[d] # thread[c]
    BY <1>1, <1>4 DEF Held
  <2>2. running[d] # thread'[c]
    <3>1. running[d] \notin handles /\ <<"thread", running[d]>> \in allocated
      BY <1>1, <1>4 DEF Held
    <3> QED BY <1>4, <2>1, <3>1 DEF Handover
  <2> QED BY <2>1, <2>2
<1>5. \A t \in handles' : t # thread[c] => t \notin {thread[c], thread'[c]}
  BY DEF Handover
<1>6. running'[c] # NULL => running'[c] \notin {thread[c], thread'[c]}
  <2>1. running'[c] # NULL => /\ running'[c] = running[c] \/ running'[c] \in handles
                              /\ running'[c] # thread'[c]
    BY DEF Handover
  <2>2. /\ running[c] # NULL => running[c] # thread[c]
        /\ \A t \in handles : t # thread[c]
    BY <1>1 DEF Held
  <2> QED BY <2>1, <2>2
<1> QED BY <1>3, <1>4, <1>5, <1>6

LEMMA HeldKept ==
    ASSUME AreasInv, NEW c \in CPUs, Handover(c), Typed'
    PROVE  Held'
<1>1. Held /\ Typed
  BY DEF AreasInv
<1>2. /\ \A t \in handles : t # NULL
      /\ handles' \subseteq ThreadAreas /\ NULL \notin ThreadAreas
      /\ \A d \in CPUs : /\ thread[d] \in ThreadAreas \cup {NULL}
                         /\ running[d] \in ThreadAreas \cup {NULL}
                         /\ running'[d] \in ThreadAreas \cup {NULL}
  BY <1>1, NodesAssumption, AreasAssumption DEF Typed
<1>3. /\ \A d \in CPUs : d # c => /\ thread'[d] = thread[d] /\ running'[d] = running[d]
      /\ \A t \in ThreadAreas \ {thread[c], thread'[c]} :
           <<"thread", t>> \in allocated' <=> <<"thread", t>> \in allocated
  BY DEF Handover, Parts
<1>4. ASSUME NEW t \in handles' PROVE <<"thread", t>> \in allocated'
  <2>1. CASE t = thread[c]
    BY <1>2, <2>1 DEF Handover
  <2>2. CASE t # thread[c]
    <3>1. t \notin {thread[c], thread'[c]} /\ t \in ThreadAreas
      BY <1>2, <2>2, OthersKeep
    <3>2. t \in handles \/ t = running[c]
      BY <2>2 DEF Handover
    <3>3. <<"thread", t>> \in allocated
      BY <1>1, <1>2, <3>1, <3>2 DEF Held
    <3> QED BY <1>3, <3>1, <3>3
  <2> QED BY <2>1, <2>2
<1>5. ASSUME NEW d \in CPUs
      PROVE  /\ thread'[d] # NULL => <<"thread", thread'[d]>> \in allocated'
             /\ running'[d] # NULL => <<"thread", running'[d]>> \in allocated'
             /\ thread'[d] \notin handles' /\ running'[d] \notin handles'
  <2>1. CASE d = c
    <3>1. ASSUME running'[c] # NULL PROVE <<"thread", running'[c]>> \in allocated'
      <4>1. running'[c] \notin {thread[c], thread'[c]} /\ running'[c] \in ThreadAreas
        BY <1>2, <3>1, OthersKeep
      <4>2. <<"thread", running'[c]>> \in allocated
        BY <1>1, <3>1 DEF Handover, Held
      <4> QED BY <1>3, <4>1, <4>2
    <3> QED BY <2>1, <3>1 DEF Handover
  <2>2. CASE d # c
    <3>1. /\ thread[d] # NULL => thread[d] \in ThreadAreas \ {thread[c], thread'[c]}
          /\ running[d] # NULL => running[d] \in ThreadAreas \ {thread[c], thread'[c]}
      BY <1>2, <2>2, OthersKeep
    <3>2. /\ thread[d] # NULL => <<"thread", thread[d]>> \in allocated
          /\ running[d] # NULL => <<"thread", running[d]>> \in allocated
          /\ thread[d] \notin handles /\ running[d] \notin handles
      BY <1>1 DEF Held
    <3>3. thread'[d] = thread[d] /\ running'[d] = running[d]
      BY <1>3, <2>2
    <3>4. thread[d] \notin handles'
      <4>1. thread[d] # NULL => thread[d] # running[c]
        BY <1>1 DEF Held
      <4> QED BY <1>2, <3>1, <3>2, <4>1 DEF Handover
    <3>5. running[d] \notin handles'
      <4>1. running[d] # NULL => running[d] # running[c]
        BY <1>1, <2>2 DEF Held
      <4> QED BY <1>2, <3>1, <3>2, <4>1 DEF Handover
    <3> QED BY <1>3, <3>1, <3>2, <3>3, <3>4, <3>5
  <2> QED BY <2>1, <2>2
<1>6. ASSUME NEW d \in CPUs, NEW e \in CPUs
      PROVE  /\ running'[d] # NULL => running'[d] # thread'[e]
             /\ thread'[d] # NULL /\ thread'[d] = thread'[e] => d = e
             /\ running'[d] # NULL /\ running'[d] = running'[e] => d = e
  <2>1. CASE d # c /\ e # c
    BY <1>1, <1>3, <2>1 DEF Held
  <2>2. CASE d = c /\ e = c
    BY <2>2 DEF Handover
  <2>3. CASE d = c /\ e # c
    <3>1. running'[c] # NULL => running'[c] = running[c] \/ running'[c] \in handles
      BY DEF Handover
    <3>2. running'[c] # NULL => running'[c] # thread[e] /\ running'[c] # running[e]
      BY <1>1, <2>3, <3>1 DEF Held
    <3>3. thread[e] # NULL => thread[e] # thread'[c]
      BY <2>3, OthersKeep
    <3> QED BY <1>3, <2>3, <3>2, <3>3
  <2>4. CASE d # c /\ e = c
    <3>1. running'[c] # NULL => running'[c] = running[c] \/ running'[c] \in handles
      BY DEF Handover
    <3>2. running[d] # NULL => running[d] # thread'[c]
      BY <2>4, OthersKeep
    <3>3. running[d] # NULL => running[d] # running'[c]
      BY <1>1, <2>4, <3>1 DEF Held
    <3>4. thread[d] # NULL => thread[d] # thread'[c]
      BY <2>4, OthersKeep
    <3> QED BY <1>3, <2>4, <3>2, <3>3, <3>4
  <2> QED BY <2>1, <2>2, <2>3, <2>4
<1> QED BY <1>4, <1>5, <1>6 DEF Held

\* Where a thread is after the step.
LEMMA AtStep ==
    ASSUME AreasInv, NEW c \in CPUs, Handover(c), Typed', NEW t \in ThreadAreas, NEW S
    PROVE  /\ t \notin {thread[c], thread'[c]} =>
                ((\E d \in CPUs : thread'[d] = t /\ pc'[d] \in S) <=> At(t, S))
           /\ t = thread'[c] =>
                ((\E d \in CPUs : thread'[d] = t /\ pc'[d] \in S) <=> pc'[c] \in S)
           /\ t = thread[c] => (At(t, S) <=> pc[c] \in S)
           /\ t = thread[c] /\ t # thread'[c] =>
                ~(\E d \in CPUs : thread'[d] = t /\ pc'[d] \in S)
<1>1. Held /\ Held' /\ t # NULL
  BY HeldKept, NodesAssumption, AreasAssumption DEF AreasInv
<1>2. \A d \in CPUs : d # c => thread'[d] = thread[d] /\ pc'[d] = pc[d]
  BY DEF Handover
<1>3. \A d \in CPUs : t = thread[c] /\ thread[d] = t => d = c
  BY <1>1 DEF Held
<1>4. \A d \in CPUs : t = thread'[c] /\ thread'[d] = t => d = c
  BY <1>1 DEF Held
<1> QED BY <1>2, <1>3, <1>4 DEF At

LEMMA OwnedKept ==
    ASSUME AreasInv, NEW c \in CPUs, Handover(c), Typed'
    PROVE  Owned'
<1> DEFINE Now(t, S) == \E d \in CPUs : thread'[d] = t /\ pc'[d] \in S
<1> SUFFICES ASSUME NEW t \in ThreadAreas
             PROVE  /\ <<"stack", t>> \in allocated' <=>
                         <<"thread", t>> \in allocated' /\ ~Now(t, NoStack)
                    /\ <<"cpu", t>> \in allocated' <=>
                         <<"thread", t>> \in allocated' /\ ~Now(t, NoCpu)
  BY DEF Owned, At
<1>0. t # NULL
  BY NodesAssumption, AreasAssumption
<1>1. CASE t = thread'[c]
  <2>1. (Now(t, NoStack) <=> pc'[c] \in NoStack) /\ (Now(t, NoCpu) <=> pc'[c] \in NoCpu)
    BY <1>1, AtStep
  <2> HIDE DEF Now
  <2> QED BY <1>0, <1>1, <2>1 DEF Handover
<1>2. CASE t = thread[c] /\ t # thread'[c]
  <2>1. ~Now(t, NoStack) /\ ~Now(t, NoCpu)
    BY <1>2, AtStep
  <2> HIDE DEF Now
  <2> QED BY <1>0, <1>2, <2>1 DEF Handover
<1>3. CASE t \notin {thread[c], thread'[c]}
  <2>1. (Now(t, NoStack) <=> At(t, NoStack)) /\ (Now(t, NoCpu) <=> At(t, NoCpu))
    BY <1>3, AtStep
  <2> HIDE DEF Now
  <2>2. \A part \in Parts : <<part, t>> \in allocated' <=> <<part, t>> \in allocated
    BY <1>3 DEF Handover
  <2> QED BY <2>1, <2>2 DEF AreasInv, Owned, Parts
<1> QED BY <1>1, <1>2, <1>3

LEMMA WorkingKept ==
    ASSUME AreasInv, NEW c \in CPUs, Handover(c), Typed', Working(c)', NEW d \in CPUs
    PROVE  Working(d)'
<1>1. CASE d = c
  BY <1>1 DEF Working
<1>2. CASE d # c
  <2>1. /\ pc'[d] = pc[d] /\ thread'[d] = thread[d] /\ running'[d] = running[d]
        /\ process'[d] = process[d]
    BY <1>2 DEF Handover
  <2>2. /\ thread[d] \in ThreadAreas \cup {NULL} /\ running[d] \in ThreadAreas \cup {NULL}
        /\ Working(d)
    BY DEF AreasInv, Typed
  <2>3. /\ thread[d] # NULL => parent'[thread[d]] = parent[thread[d]]
        /\ running[d] # NULL => parent'[running[d]] = parent[running[d]]
    <3>1. /\ thread[d] # NULL => thread[d] \in ThreadAreas \ {thread[c], thread'[c]}
          /\ running[d] # NULL => running[d] \in ThreadAreas \ {thread[c], thread'[c]}
      BY <1>2, <2>2, OthersKeep
    <3> QED BY <3>1 DEF Handover
  <2>4. pc[d] = "drop" => thread[d] # NULL
    BY <2>2 DEF Working, Empty
  <2> QED BY <2>1, <2>2, <2>3, <2>4 DEF Working
<1> QED BY <1>1, <1>2

\* The areas of the thread that a processor works on.
LEMMA PartsNow ==
    ASSUME AreasInv, NEW c \in CPUs, thread[c] # NULL
    PROVE  /\ thread[c] \in ThreadAreas /\ <<"thread", thread[c]>> \in allocated
           /\ <<"stack", thread[c]>> \in allocated <=> pc[c] \notin NoStack
           /\ <<"cpu", thread[c]>> \in allocated <=> pc[c] \notin NoCpu
           /\ thread[c] \in Alive <=> pc[c] \notin Uncounted
<1>1. thread[c] \in ThreadAreas /\ <<"thread", thread[c]>> \in allocated
  BY DEF AreasInv, Typed, Held
<1>2. \A d \in CPUs : thread[d] = thread[c] => d = c
  BY DEF AreasInv, Held
<1>3. ASSUME NEW S PROVE At(thread[c], S) <=> pc[c] \in S
  BY <1>2 DEF At
<1>4. /\ At(thread[c], NoStack) <=> pc[c] \in NoStack
      /\ At(thread[c], NoCpu) <=> pc[c] \in NoCpu
      /\ At(thread[c], Uncounted) <=> pc[c] \in Uncounted
  BY <1>3
<1>5. /\ <<"stack", thread[c]>> \in allocated <=> ~At(thread[c], NoStack)
      /\ <<"cpu", thread[c]>> \in allocated <=> ~At(thread[c], NoCpu)
  BY <1>1 DEF AreasInv, Owned
<1>6. thread[c] \in Alive <=> ~At(thread[c], Uncounted)
  BY <1>1 DEF Alive
<1> QED BY <1>1, <1>4, <1>5, <1>6

\* A thread that nobody works on is whole.
LEMMA Whole ==
    ASSUME AreasInv, NEW t \in ThreadAreas, <<"thread", t>> \in allocated,
           \A c \in CPUs : thread[c] # t
    PROVE  /\ <<"stack", t>> \in allocated /\ <<"cpu", t>> \in allocated
           /\ t \in Alive /\ parent[t] \in ProcessAreas
<1>1. ~At(t, NoStack) /\ ~At(t, NoCpu) /\ ~At(t, Uncounted)
  BY DEF At
<1>2. <<"stack", t>> \in allocated /\ <<"cpu", t>> \in allocated
  BY <1>1 DEF AreasInv, Owned
<1>3. t \in Alive
  BY <1>1 DEF Alive
<1> QED BY <1>2, <1>3 DEF AreasInv, Counted

LEMMA HandlesWhole ==
    ASSUME AreasInv, NEW t \in handles
    PROVE  /\ t \in ThreadAreas /\ t # NULL /\ <<"thread", t>> \in allocated
           /\ <<"stack", t>> \in allocated /\ <<"cpu", t>> \in allocated
           /\ t \in Alive /\ parent[t] \in ProcessAreas
           /\ \A c \in CPUs : thread[c] # t /\ running[c] # t
<1>1. t \in ThreadAreas /\ t # NULL
  BY NodesAssumption, AreasAssumption DEF AreasInv, Typed
<1>2. <<"thread", t>> \in allocated /\ \A c \in CPUs : thread[c] # t /\ running[c] # t
  BY DEF AreasInv, Held
<1> QED BY <1>1, <1>2, Whole

\* So is the one that waits for its call of thread_create, or is running.
LEMMA RunningWhole ==
    ASSUME AreasInv, NEW c \in CPUs, running[c] # NULL
    PROVE  /\ running[c] \in ThreadAreas /\ <<"thread", running[c]>> \in allocated
           /\ running[c] \in Alive /\ parent[running[c]] \in ProcessAreas
           /\ \A d \in CPUs : thread[d] # running[c]
<1>1. running[c] \in ThreadAreas
  BY DEF AreasInv, Typed
<1>2. <<"thread", running[c]>> \in allocated /\ \A d \in CPUs : thread[d] # running[c]
  BY DEF AreasInv, Held
<1> QED BY <1>1, <1>2, Whole

\* Which threads count after the step.
LEMMA AliveStep ==
    ASSUME AreasInv, NEW c \in CPUs, Handover(c), Typed', NEW t \in ThreadAreas
    PROVE  /\ t \notin {thread[c], thread'[c]} => (t \in Alive' <=> t \in Alive)
           /\ t = thread'[c] => (t \in Alive' <=> pc'[c] \notin Uncounted)
           /\ t = thread[c] /\ t # thread'[c] =>
                (t \in Alive' <=> <<"thread", t>> \in allocated')
<1> DEFINE Now(S) == \E d \in CPUs : thread'[d] = t /\ pc'[d] \in S
<1>1. t \in Alive' <=> <<"thread", t>> \in allocated' /\ ~Now(Uncounted)
  BY DEF Alive, At, Uncounted
<1>2. t \in Alive <=> <<"thread", t>> \in allocated /\ ~At(t, Uncounted)
  BY DEF Alive
<1>3. /\ t \notin {thread[c], thread'[c]} => (Now(Uncounted) <=> At(t, Uncounted))
      /\ t = thread'[c] => (Now(Uncounted) <=> pc'[c] \in Uncounted)
      /\ t = thread[c] /\ t # thread'[c] => ~Now(Uncounted)
  BY AtStep
<1> HIDE DEF Now
<1>4. /\ t \notin {thread[c], thread'[c]} =>
           (<<"thread", t>> \in allocated' <=> <<"thread", t>> \in allocated)
      /\ t = thread'[c] => <<"thread", t>> \in allocated'
  BY NodesAssumption, AreasAssumption DEF Handover, Parts
<1> QED BY <1>1, <1>2, <1>3, <1>4

\* Inside the lock a process is in the making, or about to be dropped, by one only.
PassedBy(c, p) == \/ pc[c] = "count" /\ process[c] = p
                  \/ pc[c] = "drop" /\ parent[thread[c]] = p

LEMMA PassingStep ==
    ASSUME AreasInv, NEW c \in CPUs, Handover(c), Typed', NEW p
    PROVE  /\ pc[c] \in Critical => /\ Passing(p) <=> PassedBy(c, p)
                                    /\ Passing(p)' <=> PassedBy(c, p)'
           /\ pc[c] \notin {"count", "drop"} /\ pc'[c] \notin {"count", "drop"} =>
                (Passing(p)' <=> Passing(p))
<1>1. ASSUME NEW d \in CPUs, d # c PROVE PassedBy(d, p)' <=> PassedBy(d, p)
  <2>1. pc'[d] = pc[d] /\ thread'[d] = thread[d] /\ process'[d] = process[d]
    BY <1>1 DEF Handover
  <2>2. pc[d] = "drop" => thread[d] # NULL /\ thread[d] \in ThreadAreas
    BY DEF AreasInv, Working, Empty, Typed
  <2>3. pc[d] = "drop" => parent'[thread[d]] = parent[thread[d]]
    <3>1. pc[d] = "drop" => thread[d] \in ThreadAreas \ {thread[c], thread'[c]}
      BY <1>1, <2>2, OthersKeep
    <3> QED BY <3>1 DEF Handover
  <2> QED BY <2>1, <2>3 DEF PassedBy
<1>2. ASSUME pc[c] \in Critical, NEW d \in CPUs, d # c PROVE ~PassedBy(d, p)
  <2>1. pc[d] \notin Critical
    BY <1>2 DEF AreasInv, Inside, OneInside
  <2> QED BY <2>1 DEF PassedBy, Critical
<1>3. /\ Passing(p) <=> \E d \in CPUs : PassedBy(d, p)
      /\ Passing(p)' <=> \E d \in CPUs : PassedBy(d, p)'
  BY DEF Passing, PassedBy
<1>4. pc[c] \notin {"count", "drop"} /\ pc'[c] \notin {"count", "drop"} =>
        ~PassedBy(c, p) /\ ~PassedBy(c, p)'
  BY DEF PassedBy
<1>5. pc[c] \in Critical => /\ Passing(p) <=> PassedBy(c, p)
                            /\ Passing(p)' <=> PassedBy(c, p)'
  BY <1>1, <1>2, <1>3
<1> QED BY <1>1, <1>3, <1>4, <1>5

\* What leaves threads, processes and counts as they are.
LEMMA CountedKept ==
    ASSUME AreasInv, Alive' = Alive, \A t \in Alive : parent'[t] = parent[t],
           count' = count,
           \A p \in ProcessAreas : <<"process", p>> \in allocated' <=>
                                   <<"process", p>> \in allocated,
           \A p \in ProcessAreas : Passing(p)' <=> Passing(p)
    PROVE  Counted'
<1>1. ASSUME NEW p PROVE ThreadsOf(p)' = ThreadsOf(p)
  BY DEF ThreadsOf
<1>2. Counted
  BY DEF AreasInv
<1>3. \A t \in Alive' : parent'[t] \in ProcessAreas
  BY <1>2 DEF Counted
<1>4. IsFiniteSet(Alive')
  BY <1>2 DEF Counted
<1>5. ASSUME NEW p \in ProcessAreas
      PROVE  /\ <<"process", p>> \in allocated' <=> ThreadsOf(p)' # {} \/ Passing(p)'
             /\ <<"process", p>> \in allocated' =>
                  count'[p] = Cardinality(ThreadsOf(p)')
  BY <1>1, <1>2 DEF Counted
<1> QED BY <1>3, <1>4, <1>5 DEF Counted

LEMMA Stays ==
    ASSUME AreasInv, NEW c \in CPUs, NEW to, pc' = [pc EXCEPT ![c] = to],
           UNCHANGED <<thread, running, handles>>,
           \A d \in CPUs : d # c => process'[d] = process[d],
           \A t \in ThreadAreas : t # thread[c] =>
               /\ parent'[t] = parent[t]
               /\ \A part \in Parts : <<part, t>> \in allocated' <=> <<part, t>> \in allocated,
           thread[c] # NULL =>
               /\ <<"thread", thread[c]>> \in allocated'
               /\ <<"stack", thread[c]>> \in allocated' <=> to \notin NoStack
               /\ <<"cpu", thread[c]>> \in allocated' <=> to \notin NoCpu
    PROVE  Handover(c) /\ pc'[c] = to
<1>1. pc'[c] = to /\ \A d \in CPUs : d # c => pc'[d] = pc[d]
  BY DEF AreasInv, Typed
<1>2. /\ thread[c] \notin handles /\ running[c] \notin handles
      /\ running[c] # NULL => running[c] # thread[c]
  BY DEF AreasInv, Held
<1> QED BY <1>1, <1>2 DEF Handover

LEMMA Settle ==
    ASSUME AreasInv, NEW c \in CPUs, Handover(c), Typed', Working(c)', Inside', Counted'
    PROVE  AreasInv'
BY HeldKept, OwnedKept, WorkingKept DEF AreasInv

LEMMA AliveSame ==
    ASSUME AreasInv, NEW c \in CPUs, Handover(c), Typed', thread'[c] = thread[c],
           thread[c] # NULL => (pc'[c] \in Uncounted <=> pc[c] \in Uncounted)
    PROVE  Alive' = Alive
<1>1. ASSUME NEW t \in ThreadAreas PROVE t \in Alive' <=> t \in Alive
  <2>1. CASE t = thread[c]
    <3>1. t # NULL
      BY NodesAssumption, AreasAssumption
    <3> QED BY <2>1, <3>1, AliveStep, PartsNow
  <2>2. CASE t # thread[c]
    BY <2>2, AliveStep
  <2> QED BY <2>1, <2>2
<1>2. Alive \subseteq ThreadAreas /\ Alive' \subseteq ThreadAreas
  BY DEF Alive
<1> QED BY <1>1, <1>2

Places == {"idle"} \cup Early \cup Late \cup Scheduling \cup Destroying

\* From one place to the next, with the same thread in hand.
Smooth(from, to) ==
    /\ to \in Places /\ {from, to} \cap {"count", "drop"} = {}
    /\ from \in Empty <=> to \in Empty
    /\ to \in {"idle"} \cup Destroying => from \in {"idle"} \cup Destroying
    /\ to \in Scheduling => from \in Scheduling
    /\ to \in Early => from \in Early
    /\ from \notin Empty => (to \in Uncounted <=> from \in Uncounted)

LEMMA SmoothStep ==
    ASSUME AreasInv, Inside', NEW c \in CPUs, NEW to, Smooth(pc[c], to),
           pc' = [pc EXCEPT ![c] = to],
           UNCHANGED <<thread, running, handles, process, parent, count>>,
           allocated' \subseteq (Parts \X ThreadAreas) \cup ({"process"} \X ProcessAreas),
           \A p \in ProcessAreas : <<"process", p>> \in allocated' <=>
                                   <<"process", p>> \in allocated,
           \A t \in ThreadAreas : t # thread[c] =>
               \A part \in Parts : <<part, t>> \in allocated' <=> <<part, t>> \in allocated,
           thread[c] # NULL =>
               /\ <<"thread", thread[c]>> \in allocated'
               /\ <<"stack", thread[c]>> \in allocated' <=> to \notin NoStack
               /\ <<"cpu", thread[c]>> \in allocated' <=> to \notin NoCpu
    PROVE  AreasInv'
<1>1. Handover(c) /\ pc'[c] = to
  BY Stays
<1>2. Typed'
  BY DEF AreasInv, Typed, Smooth, Places
<1>3. Working(c)'
  BY <1>1 DEF AreasInv, Working, Smooth
<1>4. Alive' = Alive
  <2>1. thread[c] # NULL => (pc'[c] \in Uncounted <=> pc[c] \in Uncounted)
    BY <1>1 DEF AreasInv, Working, Smooth
  <2> QED BY <1>1, <1>2, <2>1, AliveSame
<1>5. \A p \in ProcessAreas : Passing(p)' <=> Passing(p)
  <2>1. pc[c] \notin {"count", "drop"} /\ pc'[c] \notin {"count", "drop"}
    BY <1>1 DEF Smooth
  <2> QED BY <1>1, <1>2, <2>1, PassingStep DEF Passing, PassedBy
<1>6. Counted'
  BY <1>4, <1>5, CountedKept DEF Passing
<1> QED BY <1>1, <1>2, <1>3, <1>6, Settle

\* As long as no area changes hands.
LEMMA MovingOn ==
    ASSUME AreasInv, Inside', NEW c \in CPUs, NEW to, Smooth(pc[c], to),
           to \in NoStack <=> pc[c] \in NoStack, to \in NoCpu <=> pc[c] \in NoCpu,
           pc' = [pc EXCEPT ![c] = to],
           UNCHANGED <<thread, running, handles, process, parent, count, allocated>>
    PROVE  AreasInv'
<1>1. thread[c] # NULL =>
        /\ <<"thread", thread[c]>> \in allocated'
        /\ <<"stack", thread[c]>> \in allocated' <=> to \notin NoStack
        /\ <<"cpu", thread[c]>> \in allocated' <=> to \notin NoCpu
  BY PartsNow
<1>2. allocated' \subseteq (Parts \X ThreadAreas) \cup ({"process"} \X ProcessAreas)
  BY DEF AreasInv, Typed
<1> QED BY <1>1, <1>2, SmoothStep

LEMMA SmoothPairs ==
    /\ Smooth("lock create", "alloc thread") /\ Smooth("lock add", "add")
    /\ Smooth("lock schedule", "unlock schedule") /\ Smooth("lock destroy", "unlink")
    /\ Smooth("alloc stack", "alloc cpu") /\ Smooth("alloc cpu", "alloc process")
    /\ Smooth("fill", "lock add") /\ Smooth("add", "unlock create")
    /\ Smooth("unlink", "discount") /\ Smooth("unlock destroy", "free cpu")
    /\ Smooth("free cpu", "free stack") /\ Smooth("free stack", "free thread")
BY DEF Smooth, Places, Empty, Early, Late, Scheduling, Destroying, Uncounted

\* Locking, filling in, linking and unlinking.
LEMMA MovingSteps ==
    ASSUME AreasInv, Inside', NEW c \in CPUs,
           Acquire(c) \/ Fill(c) \/ AddThread(c) \/ Unlink(c) \/ UnlockDestroy(c)
    PROVE  AreasInv'
<1>1. UNCHANGED <<thread, running, handles, process, parent, count, allocated>>
  BY DEF Acquire, Fill, AddThread, Unlink, UnlockDestroy
<1>2. \E to : /\ pc' = [pc EXCEPT ![c] = to]
              /\ <<pc[c], to>> \in {<<"lock create", "alloc thread">>, <<"lock add", "add">>,
                   <<"lock schedule", "unlock schedule">>, <<"lock destroy", "unlink">>,
                   <<"fill", "lock add">>, <<"add", "unlock create">>,
                   <<"unlink", "discount">>, <<"unlock destroy", "free cpu">>}
  BY DEF Acquire, Fill, AddThread, Unlink, UnlockDestroy, Go
<1>3. PICK to : /\ pc' = [pc EXCEPT ![c] = to] /\ Smooth(pc[c], to)
                /\ pc[c] \notin NoCpu /\ to \notin NoCpu
                /\ pc[c] \notin NoStack /\ to \notin NoStack
  BY <1>2, SmoothPairs DEF NoCpu, NoStack
<1> QED BY <1>1, <1>3, MovingOn

\* The stack and the registers: one area more.
LEMMA AllocPartStep ==
    ASSUME AreasInv, Inside', NEW c \in CPUs,
           NEW part, NEW from, NEW to, AllocPart(c, part, from, to),
           <<part, from, to>> \in {<<"stack", "alloc stack", "alloc cpu">>,
                                   <<"cpu", "alloc cpu", "alloc process">>}
    PROVE  AreasInv'
<1>1. /\ pc[c] = from /\ pc' = [pc EXCEPT ![c] = to]
      /\ allocated' = allocated \cup {<<part, thread[c]>>}
      /\ UNCHANGED <<thread, running, handles, process, parent, count>>
  BY DEF AllocPart, Go
<1>2. thread[c] # NULL
  BY <1>1 DEF AreasInv, Working, Empty
<1>3. thread[c] \in ThreadAreas /\ part \in Parts /\ part # "process" /\ Smooth(from, to)
  <2>1. part \in Parts /\ part # "process"
    BY DEF Parts
  <2>2. Smooth(from, to)
    BY SmoothPairs
  <2> QED BY <1>2, <2>1, <2>2, PartsNow
<1>4. allocated' \subseteq (Parts \X ThreadAreas) \cup ({"process"} \X ProcessAreas)
  <2>1. <<part, thread[c]>> \in Parts \X ThreadAreas
    BY <1>3
  <2> QED BY <1>1, <2>1 DEF AreasInv, Typed
<1>5. \A p \in ProcessAreas : <<"process", p>> \in allocated' <=>
                              <<"process", p>> \in allocated
  BY <1>1, <1>3
<1>6. \A t \in ThreadAreas : t # thread[c] =>
         \A x \in Parts : <<x, t>> \in allocated' <=> <<x, t>> \in allocated
  BY <1>1
<1>7. /\ <<"thread", thread[c]>> \in allocated'
      /\ <<"stack", thread[c]>> \in allocated' <=> to \notin NoStack
      /\ <<"cpu", thread[c]>> \in allocated' <=> to \notin NoCpu
  BY <1>1, <1>2, PartsNow DEF NoStack, NoCpu
<1> QED BY <1>1, <1>3, <1>4, <1>5, <1>6, <1>7, SmoothStep

\* And one area less: the one that is freed is there, and no processor is stopped.
LEMMA FreePartStep ==
    ASSUME AreasInv, Inside', NEW c \in CPUs,
           NEW part, NEW from, NEW to, FreePart(c, part, from, to),
           <<part, from, to>> \in {<<"cpu", "free cpu", "free stack">>,
                                   <<"stack", "free stack", "free thread">>}
    PROVE  AreasInv'
<1>1. /\ pc[c] = from /\ allocated' = allocated \ {<<part, thread[c]>>}
      /\ UNCHANGED <<thread, running, handles, process, parent, count>>
  BY DEF FreePart, Free, Go
<1>2. thread[c] # NULL
  BY <1>1 DEF AreasInv, Working, Empty
<1>3. <<part, thread[c]>> \in allocated
  BY <1>1, <1>2, PartsNow DEF NoStack, NoCpu
<1>4. pc' = [pc EXCEPT ![c] = to]
  BY <1>3 DEF FreePart, Free, Go
<1>5. thread[c] \in ThreadAreas /\ part \in Parts /\ part # "process" /\ Smooth(from, to)
  BY <1>2, PartsNow, SmoothPairs DEF Parts
<1>6. allocated' \subseteq (Parts \X ThreadAreas) \cup ({"process"} \X ProcessAreas)
  BY <1>1 DEF AreasInv, Typed
<1>7. \A p \in ProcessAreas : <<"process", p>> \in allocated' <=>
                              <<"process", p>> \in allocated
  BY <1>1, <1>5
<1>8. \A t \in ThreadAreas : t # thread[c] =>
         \A x \in Parts : <<x, t>> \in allocated' <=> <<x, t>> \in allocated
  BY <1>1
<1>9. /\ <<"thread", thread[c]>> \in allocated'
      /\ <<"stack", thread[c]>> \in allocated' <=> to \notin NoStack
      /\ <<"cpu", thread[c]>> \in allocated' <=> to \notin NoCpu
  BY <1>1, <1>2, PartsNow DEF NoStack, NoCpu
<1> QED BY <1>1, <1>4, <1>5, <1>6, <1>7, <1>8, <1>9, SmoothStep

-----------------------------------------------------------------------------
(* Taking a thread, and leaving it.                                        *)

LEMMA AliveKept ==
    ASSUME AreasInv, NEW c \in CPUs, Handover(c), Typed',
           thread[c] # NULL /\ thread[c] # thread'[c] =>
               (pc[c] \notin Uncounted <=> <<"thread", thread[c]>> \in allocated'),
           thread'[c] # NULL /\ thread[c] # thread'[c] =>
               (thread'[c] \in Alive <=> pc'[c] \notin Uncounted),
           thread[c] # NULL /\ thread[c] = thread'[c] =>
               (pc'[c] \in Uncounted <=> pc[c] \in Uncounted)
    PROVE  Alive' = Alive
<1>1. ASSUME NEW t \in ThreadAreas PROVE t \in Alive' <=> t \in Alive
  <2>0. t # NULL
    BY NodesAssumption, AreasAssumption
  <2>1. CASE t = thread[c]
    BY <2>0, <2>1, AliveStep, PartsNow
  <2>2. CASE t # thread[c]
    BY <2>0, <2>2, AliveStep
  <2> QED BY <2>1, <2>2
<1>2. Alive \subseteq ThreadAreas /\ Alive' \subseteq ThreadAreas
  BY DEF Alive
<1> QED BY <1>1, <1>2

\* What neither makes nor drops a process.
LEMMA SettleKept ==
    ASSUME AreasInv, Inside', NEW c \in CPUs, Handover(c), Typed', Working(c)',
           Alive' = Alive, \A t \in Alive : parent'[t] = parent[t], count' = count,
           \A p \in ProcessAreas : <<"process", p>> \in allocated' <=>
                                   <<"process", p>> \in allocated,
           pc[c] \notin {"count", "drop"}, pc'[c] \notin {"count", "drop"}
    PROVE  AreasInv'
<1>1. \A p \in ProcessAreas : Passing(p)' <=> Passing(p)
  BY PassingStep DEF Passing, PassedBy
<1>2. Counted'
  BY <1>1, CountedKept DEF Passing
<1> QED BY <1>2, Settle

\* Nothing is allocated or freed: the thread goes from hand to hand.
LEMMA HandStep ==
    ASSUME AreasInv, Inside', NEW c \in CPUs, NEW to \in Places,
           {pc[c], to} \cap {"count", "drop"} = {},
           pc' = [pc EXCEPT ![c] = to],
           NEW th \in ThreadAreas \cup {NULL}, thread' = [thread EXCEPT ![c] = th],
           NEW ru \in ThreadAreas \cup {NULL}, running' = [running EXCEPT ![c] = ru],
           NEW pr \in ProcessAreas \cup {NULL}, process' = [process EXCEPT ![c] = pr],
           UNCHANGED <<parent, count, allocated>>,
           handles' \subseteq (handles \cup {thread[c], running[c]}) \cap ThreadAreas,
           th \notin handles', ru \notin handles',
           th # NULL => /\ th = thread[c] \/ th \in handles
                        /\ to \notin Uncounted,
           ru # NULL => (ru = running[c] \/ ru \in handles) /\ ru # th,
           thread[c] # NULL => pc[c] \notin Uncounted,
           Working(c)'
    PROVE  AreasInv'
<1>1. /\ pc'[c] = to /\ thread'[c] = th /\ running'[c] = ru
      /\ \A d \in CPUs : d # c => /\ pc'[d] = pc[d] /\ thread'[d] = thread[d]
                                  /\ running'[d] = running[d] /\ process'[d] = process[d]
  BY DEF AreasInv, Typed
<1>2. Typed'
  BY DEF AreasInv, Typed, Places
<1>3. NoStack \subseteq Uncounted /\ NoCpu \subseteq Uncounted
  BY DEF NoStack, NoCpu, Uncounted
<1>4. ASSUME th # NULL
      PROVE  /\ <<"thread", th>> \in allocated /\ th \in Alive
             /\ <<"stack", th>> \in allocated /\ <<"cpu", th>> \in allocated
  <2>1. CASE th = thread[c]
    BY <1>3, <1>4, <2>1, PartsNow
  <2>2. CASE th \in handles
    BY <2>2, HandlesWhole
  <2> QED BY <1>4, <2>1, <2>2
<1>5. thread[c] # NULL =>
        /\ <<"thread", thread[c]>> \in allocated
        /\ <<"stack", thread[c]>> \in allocated /\ <<"cpu", thread[c]>> \in allocated
  BY <1>3, PartsNow
<1>6. Handover(c)
  <2>1. th # NULL => to \notin NoStack /\ to \notin NoCpu
    BY <1>3
  <2> QED BY <1>1, <1>4, <1>5, <2>1 DEF Handover
<1>7. Alive' = Alive
  BY <1>1, <1>2, <1>4, <1>5, <1>6, AliveKept
<1> QED BY <1>1, <1>2, <1>6, <1>7, SettleKept

LEMMA Idle ==
    ASSUME AreasInv, NEW c \in CPUs
    PROVE  /\ pc[c] \in Empty => thread[c] = NULL
           /\ pc[c] = "idle" => running[c] = NULL
           /\ thread = [thread EXCEPT ![c] = thread[c]]
           /\ running = [running EXCEPT ![c] = running[c]]
           /\ process = [process EXCEPT ![c] = process[c]]
           /\ thread[c] \in ThreadAreas \cup {NULL} /\ running[c] \in ThreadAreas \cup {NULL}
           /\ process[c] \in ProcessAreas \cup {NULL}
           /\ NULL \notin handles /\ NULL \notin ThreadAreas /\ handles \subseteq ThreadAreas
           /\ thread[c] \notin handles /\ running[c] \notin handles
           /\ running[c] # NULL => running[c] # thread[c]
           /\ Working(c)
<1>1. Working(c)
  BY DEF AreasInv
<1>2. pc[c] \in Empty => thread[c] = NULL
  BY <1>1 DEF Working
<1>3. pc[c] = "idle" => running[c] = NULL
  BY <1>1 DEF Working
<1>4. /\ thread = [thread EXCEPT ![c] = thread[c]]
      /\ running = [running EXCEPT ![c] = running[c]]
      /\ process = [process EXCEPT ![c] = process[c]]
      /\ thread[c] \in ThreadAreas \cup {NULL} /\ running[c] \in ThreadAreas \cup {NULL}
      /\ process[c] \in ProcessAreas \cup {NULL}
  BY DEF AreasInv, Typed
<1>5. NULL \notin handles /\ NULL \notin ThreadAreas /\ handles \subseteq ThreadAreas
  BY NodesAssumption, AreasAssumption DEF AreasInv, Typed
<1>6. /\ thread[c] \notin handles /\ running[c] \notin handles
      /\ running[c] # NULL => running[c] # thread[c]
  BY DEF AreasInv, Held
<1> QED BY <1>1, <1>2, <1>3, <1>4, <1>5, <1>6

LEMMA CallCreateStep ==
    ASSUME AreasInv, Inside', NEW c \in CPUs, CallCreate(c)
    PROVE  AreasInv'
<1>1. /\ pc[c] = "idle" /\ pc' = [pc EXCEPT ![c] = "lock create"]
      /\ UNCHANGED <<parent, count, allocated, thread>>
  BY DEF CallCreate, Go
<1>2. thread[c] = NULL /\ running[c] = NULL /\ pc[c] \notin Uncounted
  BY <1>1, Idle DEF Empty, Uncounted
<1>3. /\ "lock create" \in Places /\ "lock create" \notin Uncounted
      /\ {pc[c], "lock create"} \cap {"count", "drop"} = {}
  BY <1>1 DEF Places, Early, Uncounted
<1>4. pc'[c] = "lock create"
  BY <1>1 DEF AreasInv, Typed
<1>5. CASE process' = [process EXCEPT ![c] = NULL] /\ UNCHANGED <<handles, running>>
  <2>1. process'[c] = NULL /\ running'[c] = NULL /\ thread'[c] = NULL
    BY <1>1, <1>2, <1>5 DEF AreasInv, Typed
  <2>2. Working(c)'
    BY <1>4, <2>1 DEF Working, Empty, Destroying, Scheduling
  <2>3. /\ thread' = [thread EXCEPT ![c] = NULL] /\ running' = [running EXCEPT ![c] = NULL]
        /\ handles' = handles /\ NULL \notin handles /\ handles \subseteq ThreadAreas
    BY <1>1, <1>2, <1>5, Idle
  <2> QED BY <1>1, <1>2, <1>3, <1>5, <2>2, <2>3, HandStep
<1>6. ASSUME NEW t \in handles, process' = [process EXCEPT ![c] = parent[t]],
             running' = [running EXCEPT ![c] = t], handles' = handles \ {t}
      PROVE  AreasInv'
  <2>1. t \in ThreadAreas /\ t # NULL /\ parent[t] \in ProcessAreas
    BY HandlesWhole
  <2>2. process'[c] = parent[t] /\ running'[c] = t /\ thread'[c] = NULL
    BY <1>1, <1>2, <1>6 DEF AreasInv, Typed
  <2>3. Working(c)'
    BY <1>1, <1>4, <2>1, <2>2 DEF Working, Empty, Destroying, Scheduling
  <2>4. /\ thread' = [thread EXCEPT ![c] = NULL]
        /\ NULL \notin handles /\ handles \subseteq ThreadAreas
    BY <1>1, <1>2, Idle
  <2> QED BY <1>1, <1>2, <1>3, <1>6, <2>1, <2>3, <2>4, HandStep
<1> QED BY <1>5, <1>6 DEF CallCreate

LEMMA CallDestroyStep ==
    ASSUME AreasInv, Inside', NEW c \in CPUs, CallDestroy(c)
    PROVE  AreasInv'
<1>1. /\ pc[c] = "idle" /\ pc' = [pc EXCEPT ![c] = "lock destroy"]
      /\ UNCHANGED <<parent, count, allocated, process, running>>
  BY DEF CallDestroy, Go
<1>2. thread[c] = NULL /\ running[c] = NULL /\ pc[c] \notin Uncounted
  BY <1>1, Idle DEF Empty, Uncounted
<1>3. /\ "lock destroy" \in Places /\ "lock destroy" \notin Uncounted
      /\ {pc[c], "lock destroy"} \cap {"count", "drop"} = {}
  BY <1>1 DEF Places, Destroying, Uncounted
<1>4. PICK t \in handles : thread' = [thread EXCEPT ![c] = t] /\ handles' = handles \ {t}
  BY DEF CallDestroy
<1>5. t \in ThreadAreas /\ t # NULL
  BY HandlesWhole
<1>6. pc'[c] = "lock destroy" /\ thread'[c] = t /\ running'[c] = NULL
  BY <1>1, <1>2, <1>4 DEF AreasInv, Typed
<1>7. Working(c)'
  BY <1>5, <1>6 DEF Working, Empty, Early, Scheduling
<1>8. /\ running' = [running EXCEPT ![c] = NULL] /\ process' = [process EXCEPT ![c] = process[c]]
      /\ process[c] \in ProcessAreas \cup {NULL}
      /\ NULL \notin handles /\ handles \subseteq ThreadAreas
  BY <1>1, <1>2, Idle
<1> QED BY <1>1, <1>2, <1>3, <1>4, <1>5, <1>7, <1>8, HandStep

LEMMA ScheduleSteps ==
    ASSUME AreasInv, Inside', NEW c \in CPUs, CallSchedule(c) \/ UnlockSchedule(c)
    PROVE  AreasInv'
<1>0. UNCHANGED <<parent, count, allocated, process, thread>>
  BY DEF CallSchedule, UnlockSchedule
<1>1. CASE CallSchedule(c)
  <2>1. pc[c] = "idle" /\ pc' = [pc EXCEPT ![c] = "lock schedule"]
    BY <1>1 DEF CallSchedule, Go
  <2>2. thread[c] = NULL /\ pc[c] \notin Uncounted
    BY <2>1, Idle DEF Empty, Uncounted
  <2>3. /\ "lock schedule" \in Places
        /\ {pc[c], "lock schedule"} \cap {"count", "drop"} = {}
    BY <2>1 DEF Places, Scheduling
  <2>4. PICK t \in handles : running' = [running EXCEPT ![c] = t] /\ handles' = handles \ {t}
    BY <1>1 DEF CallSchedule
  <2>5. t \in ThreadAreas /\ t # NULL
    BY HandlesWhole
  <2>6. pc'[c] = "lock schedule" /\ running'[c] = t /\ thread'[c] = NULL
    BY <1>0, <2>1, <2>2, <2>4 DEF AreasInv, Typed
  <2>7. Working(c)'
    BY <2>5, <2>6 DEF Working, Empty, Early, Destroying
  <2>8. /\ thread' = [thread EXCEPT ![c] = NULL] /\ process' = [process EXCEPT ![c] = process[c]]
        /\ process[c] \in ProcessAreas \cup {NULL}
        /\ NULL \notin handles /\ handles \subseteq ThreadAreas
    BY <1>0, <2>2, Idle
  <2> QED BY <1>0, <2>1, <2>2, <2>3, <2>4, <2>5, <2>7, <2>8, HandStep
<1>2. CASE UnlockSchedule(c)
  <2>1. /\ pc[c] = "unlock schedule" /\ pc' = [pc EXCEPT ![c] = "idle"]
        /\ handles' = handles \cup {running[c]} /\ running' = [running EXCEPT ![c] = NULL]
    BY <1>2 DEF UnlockSchedule, Go
  <2>2. thread[c] = NULL /\ running[c] # NULL /\ pc[c] \notin Uncounted
    BY <2>1, Idle DEF Empty, Uncounted, Working, Scheduling
  <2>3. "idle" \in Places /\ {pc[c], "idle"} \cap {"count", "drop"} = {}
    BY <2>1 DEF Places
  <2>4. pc'[c] = "idle" /\ running'[c] = NULL /\ thread'[c] = NULL
    BY <1>0, <2>1, <2>2 DEF AreasInv, Typed
  <2>5. Working(c)'
    BY <2>4 DEF Working, Empty, Early, Scheduling
  <2>6. /\ thread' = [thread EXCEPT ![c] = NULL] /\ process' = [process EXCEPT ![c] = process[c]]
        /\ process[c] \in ProcessAreas \cup {NULL} /\ running[c] \in ThreadAreas
        /\ NULL \notin handles /\ handles \subseteq ThreadAreas
    BY <1>0, <2>2, Idle
  <2>7. /\ handles' \subseteq (handles \cup {thread[c], running[c]}) \cap ThreadAreas
        /\ NULL \notin handles'
    BY <2>1, <2>2, <2>6
  <2>8. NULL \in ThreadAreas \cup {NULL}
    OBVIOUS
  <2> QED BY <1>0, <2>1, <2>2, <2>3, <2>5, <2>6, <2>7, <2>8, HandStep
<1> QED BY <1>1, <1>2

LEMMA UnlockCreateStep ==
    ASSUME AreasInv, Inside', NEW c \in CPUs, UnlockCreate(c)
    PROVE  AreasInv'
<1>1. /\ pc[c] = "unlock create" /\ pc' = [pc EXCEPT ![c] = "idle"]
      /\ UNCHANGED <<parent, count, allocated>>
      /\ thread' = [thread EXCEPT ![c] = NULL] /\ running' = [running EXCEPT ![c] = NULL]
      /\ process' = [process EXCEPT ![c] = NULL]
      /\ handles' = handles \cup {thread[c]}
                      \cup IF running[c] = NULL THEN {} ELSE {running[c]}
  BY DEF UnlockCreate, Go, Return
<1>2. thread[c] # NULL /\ pc[c] \notin Uncounted
  BY <1>1, Idle DEF Working, Empty, Uncounted
<1>3. "idle" \in Places /\ {pc[c], "idle"} \cap {"count", "drop"} = {}
  BY <1>1 DEF Places
<1>4. pc'[c] = "idle" /\ running'[c] = NULL /\ thread'[c] = NULL
  BY <1>1 DEF AreasInv, Typed
<1>5. Working(c)'
  BY <1>4 DEF Working, Empty, Early, Scheduling
<1>6. /\ handles' \subseteq (handles \cup {thread[c], running[c]}) \cap ThreadAreas
      /\ NULL \notin handles'
  BY <1>1, <1>2, Idle
<1> QED BY <1>1, <1>2, <1>3, <1>5, <1>6, HandStep

-----------------------------------------------------------------------------
(* Threads come and go.                                                    *)

\* A new thread is nobody's: its area was free.
LEMMA AllocThreadStep ==
    ASSUME AreasInv, Inside', NEW c \in CPUs, AllocThread(c)
    PROVE  AreasInv'
<1>1. /\ pc[c] = "alloc thread" /\ pc' = [pc EXCEPT ![c] = "alloc stack"]
      /\ UNCHANGED <<parent, count, process, handles, running>>
  BY DEF AllocThread, Go
<1>2. PICK t \in ThreadAreas : /\ <<"thread", t>> \notin allocated
                               /\ thread' = [thread EXCEPT ![c] = t]
                               /\ allocated' = allocated \cup {<<"thread", t>>}
  BY DEF AllocThread, Lowest
<1>3. /\ thread[c] = NULL /\ t # NULL /\ t \notin handles
      /\ running[c] # NULL => running[c] # t
  <2>1. thread[c] = NULL
    BY <1>1, Idle DEF Empty
  <2>2. t # NULL
    BY NodesAssumption, AreasAssumption
  <2>3. t \notin handles /\ (running[c] # NULL => running[c] # t)
    BY <1>2 DEF AreasInv, Held
  <2> QED BY <2>1, <2>2, <2>3
<1>4. /\ pc'[c] = "alloc stack" /\ thread'[c] = t /\ running'[c] = running[c]
      /\ process'[c] = process[c]
      /\ \A d \in CPUs : d # c => /\ pc'[d] = pc[d] /\ thread'[d] = thread[d]
                                  /\ running'[d] = running[d] /\ process'[d] = process[d]
  BY <1>1, <1>2 DEF AreasInv, Typed
<1>5. <<"stack", t>> \notin allocated /\ <<"cpu", t>> \notin allocated
  BY <1>2 DEF AreasInv, Owned
<1>6. Typed'
  <2>1. <<"thread", t>> \in Parts \X ThreadAreas
    BY DEF Parts
  <2>2. "alloc stack" \in Places
    BY DEF Places, Early
  <2> QED BY <1>1, <1>2, <2>1, <2>2 DEF AreasInv, Typed, Places
<1>7. Handover(c)
  <2>1. /\ <<"thread", t>> \in allocated'
        /\ <<"stack", t>> \notin allocated' /\ <<"cpu", t>> \notin allocated'
    BY <1>2, <1>5
  <2>2. \A u \in ThreadAreas \ {thread[c], t} :
          \A part \in Parts : <<part, u>> \in allocated' <=> <<part, u>> \in allocated
    BY <1>2
  <2>3. running[c] \notin handles
    BY Idle
  <2>4. pc'[c] \in NoStack /\ pc'[c] \in NoCpu
    BY <1>4 DEF NoStack, NoCpu
  <2>5. \A u \in ThreadAreas \ {thread[c], thread'[c]} :
          /\ parent'[u] = parent[u]
          /\ \A part \in Parts : <<part, u>> \in allocated' <=> <<part, u>> \in allocated
    BY <1>1, <1>4, <2>2
  <2>6. /\ handles' \subseteq handles \cup {thread[c], running[c]}
        /\ thread'[c] \notin handles' /\ running'[c] \notin handles'
    BY <1>1, <1>3, <1>4, <2>3
  <2>7. running'[c] # NULL => running'[c] = running[c] /\ running'[c] # thread'[c]
    BY <1>3, <1>4
  <2> QED BY <1>2, <1>3, <1>4, <2>1, <2>4, <2>5, <2>6, <2>7 DEF Handover
<1>8. Working(c)'
  <2>1. running'[c] = NULL => process'[c] = NULL
    BY <1>1, <1>4, Idle DEF Working, Early
  <2>2. running'[c] # NULL => process'[c] = parent'[running'[c]]
    BY <1>1, <1>4, Idle DEF Working, Early
  <2> QED BY <1>3, <1>4, <2>1, <2>2 DEF Working, Empty, Destroying, Scheduling
<1>9. Alive' = Alive
  <2>1. t \notin Alive
    BY <1>2 DEF Alive
  <2> QED BY <1>3, <1>4, <1>6, <1>7, <2>1, AliveKept DEF Uncounted
<1>10. \A p \in ProcessAreas : <<"process", p>> \in allocated' <=>
                               <<"process", p>> \in allocated
  BY <1>2
<1> QED BY <1>1, <1>4, <1>6, <1>7, <1>8, <1>9, <1>10, SettleKept

\* A failure gives back what the thread had so far, and nothing else.
LEMMA FailStep ==
    ASSUME AreasInv, Inside', NEW c \in CPUs, Fail(c)
    PROVE  AreasInv'
<1>1. /\ pc[c] \in {"alloc thread", "alloc stack", "alloc cpu", "alloc process"}
      /\ pc' = [pc EXCEPT ![c] = "idle"] /\ UNCHANGED <<parent, count>>
      /\ thread' = [thread EXCEPT ![c] = NULL] /\ running' = [running EXCEPT ![c] = NULL]
      /\ process' = [process EXCEPT ![c] = NULL]
      /\ allocated' = {a \in allocated : a[2] = thread[c] => a[1] \notin Parts}
      /\ running[c] = NULL => handles' = handles
      /\ running[c] # NULL => handles' = handles \cup {running[c]}
  BY DEF Fail, Return
<1>2. /\ pc'[c] = "idle" /\ running'[c] = NULL /\ thread'[c] = NULL
      /\ \A d \in CPUs : d # c => /\ pc'[d] = pc[d] /\ thread'[d] = thread[d]
                                  /\ running'[d] = running[d] /\ process'[d] = process[d]
  BY <1>1 DEF AreasInv, Typed
<1>3. /\ NULL \notin handles' /\ handles' \subseteq ThreadAreas
      /\ thread[c] \notin handles'
      /\ handles' \subseteq handles \cup {thread[c], running[c]}
  BY <1>1, Idle
<1>4. /\ \A part \in Parts : <<part, thread[c]>> \notin allocated'
      /\ \A t : t # thread[c] =>
           \A part \in Parts : <<part, t>> \in allocated' <=> <<part, t>> \in allocated
      /\ \A p : <<"process", p>> \in allocated' <=> <<"process", p>> \in allocated
  <2>1. "process" \notin Parts
    BY DEF Parts
  <2> QED BY <1>1, <2>1
<1>5. Typed'
  BY <1>1, <1>3 DEF AreasInv, Typed
<1>6. Handover(c)
  BY <1>1, <1>2, <1>3, <1>4 DEF Handover, Parts
<1>7. Working(c)'
  BY <1>2 DEF Working, Empty, Early, Scheduling
<1>8. Alive' = Alive
  <2>1. thread[c] # NULL => pc[c] \in Uncounted
    BY <1>1, Idle DEF Empty, Uncounted
  <2>2. <<"thread", thread[c]>> \notin allocated'
    BY <1>4 DEF Parts
  <2> QED BY <1>2, <1>5, <1>6, <2>1, <2>2, AliveKept
<1> QED BY <1>1, <1>2, <1>4, <1>5, <1>6, <1>7, <1>8, SettleKept

\* The last area of a thread.
LEMMA FreeThreadStep ==
    ASSUME AreasInv, Inside', NEW c \in CPUs, FreeThread(c)
    PROVE  AreasInv'
<1>1. /\ pc[c] = "free thread" /\ allocated' = allocated \ {<<"thread", thread[c]>>}
      /\ parent' = [parent EXCEPT ![thread[c]] = NULL] /\ UNCHANGED <<count, handles>>
      /\ thread' = [thread EXCEPT ![c] = NULL] /\ running' = [running EXCEPT ![c] = NULL]
      /\ process' = [process EXCEPT ![c] = NULL]
  BY DEF FreeThread, Free, Go, Return
<1>2. /\ thread[c] # NULL /\ thread[c] \in ThreadAreas /\ <<"thread", thread[c]>> \in allocated
      /\ <<"stack", thread[c]>> \notin allocated /\ <<"cpu", thread[c]>> \notin allocated
      /\ thread[c] \notin Alive /\ pc[c] \in Uncounted
  <2>1. thread[c] # NULL /\ pc[c] \in NoStack /\ pc[c] \in NoCpu /\ pc[c] \in Uncounted
    BY <1>1, Idle DEF Working, Empty, NoStack, NoCpu, Uncounted
  <2> QED BY <2>1, PartsNow
<1>3. pc' = [pc EXCEPT ![c] = "idle"]
  BY <1>2 DEF FreeThread, Free, Go
<1>4. /\ pc'[c] = "idle" /\ running'[c] = NULL /\ thread'[c] = NULL
      /\ \A d \in CPUs : d # c => /\ pc'[d] = pc[d] /\ thread'[d] = thread[d]
                                  /\ running'[d] = running[d] /\ process'[d] = process[d]
  BY <1>1, <1>3 DEF AreasInv, Typed
<1>5. NULL \notin handles /\ thread[c] \notin handles
  BY Idle
<1>6. /\ \A part \in Parts : <<part, thread[c]>> \notin allocated'
      /\ \A t : t # thread[c] =>
           \A part \in Parts : <<part, t>> \in allocated' <=> <<part, t>> \in allocated
      /\ \A p : <<"process", p>> \in allocated' <=> <<"process", p>> \in allocated
  BY <1>1, <1>2 DEF Parts
<1>7. \A t \in ThreadAreas : t # thread[c] => parent'[t] = parent[t]
  BY <1>1 DEF AreasInv, Typed
<1>8. Typed'
  BY <1>1, <1>3 DEF AreasInv, Typed
<1>9. Handover(c)
  <2>1. \A t \in ThreadAreas \ {thread[c], thread'[c]} :
          /\ parent'[t] = parent[t]
          /\ \A part \in Parts : <<part, t>> \in allocated' <=> <<part, t>> \in allocated
    BY <1>6, <1>7
  <2>2. /\ <<"thread", thread[c]>> \notin allocated' /\ <<"stack", thread[c]>> \notin allocated'
        /\ <<"cpu", thread[c]>> \notin allocated'
    BY <1>6 DEF Parts
  <2>3. /\ handles' \subseteq handles \cup {thread[c], running[c]}
        /\ thread'[c] \notin handles' /\ running'[c] \notin handles'
        /\ thread[c] \notin handles'
    <3>1. handles' = handles
      BY <1>1
    <3> QED BY <1>4, <1>5, <3>1
  <2> QED BY <1>4, <2>1, <2>2, <2>3 DEF Handover
<1>10. Working(c)'
  BY <1>4 DEF Working, Empty, Early, Scheduling
<1>11. Alive' = Alive
  <2>1. <<"thread", thread[c]>> \notin allocated'
    BY <1>6 DEF Parts
  <2> QED BY <1>2, <1>4, <1>8, <1>9, <2>1, AliveKept
<1>12. \A t \in Alive : parent'[t] = parent[t]
  BY <1>2, <1>7 DEF Alive
<1> QED BY <1>1, <1>4, <1>6, <1>8, <1>9, <1>10, <1>11, <1>12, SettleKept

-----------------------------------------------------------------------------
(* Processes come and go, under the lock.                                  *)

\* Inside the lock there is no other process in the making, or to be dropped.
LEMMA PassingInside ==
    ASSUME AreasInv, NEW c \in CPUs, Handover(c), Typed', pc[c] \in Critical, NEW p
    PROVE  /\ Passing(p) <=> PassedBy(c, p)
           /\ Passing(p)' <=> PassedBy(c, p)'
BY PassingStep

LEMMA ThreadsFinite ==
    ASSUME AreasInv, NEW p
    PROVE  IsFiniteSet(ThreadsOf(p)) /\ Cardinality(ThreadsOf(p)) \in Nat
<1>1. IsFiniteSet(Alive) /\ ThreadsOf(p) \subseteq Alive
  BY DEF AreasInv, Counted, ThreadsOf
<1>2. IsFiniteSet(ThreadsOf(p))
  BY <1>1, FS_Subset
<1> QED BY <1>2, FS_CardinalityType

\* The process of the thread that calls is there already; a new one has no threads.
LEMMA AllocProcessStep ==
    ASSUME AreasInv, Inside', NEW c \in CPUs, AllocProcess(c)
    PROVE  AreasInv'
<1>1. /\ pc[c] = "alloc process" /\ pc' = [pc EXCEPT ![c] = "count"]
      /\ UNCHANGED <<parent, thread, handles, running>>
  BY DEF AllocProcess, Go
<1>2. PICK p \in ProcessAreas :
        /\ process'[c] = p /\ process' \in [CPUs -> ProcessAreas \cup {NULL}]
        /\ \A d \in CPUs : d # c => process'[d] = process[d]
        /\ allocated' = allocated \cup {<<"process", p>>}
        /\ count' \in [ProcessAreas -> Int]
        /\ \A q \in ProcessAreas : q # p => count'[q] = count[q]
        /\ count'[p] = Cardinality(ThreadsOf(p))
  <2>1. CASE process[c] # NULL
    <3>1. UNCHANGED <<allocated, process, count>>
      BY <2>1 DEF AllocProcess
    <3>2. running[c] # NULL /\ process[c] = parent[running[c]]
      BY <1>1, <2>1, Idle DEF Working, Early
    <3>3. running[c] \in ThreadsOf(process[c]) /\ process[c] \in ProcessAreas
      BY <3>2, RunningWhole DEF ThreadsOf
    <3>4. /\ <<"process", process[c]>> \in allocated
          /\ count[process[c]] = Cardinality(ThreadsOf(process[c]))
      BY <3>3 DEF AreasInv, Counted
    <3>5. allocated = allocated \cup {<<"process", process[c]>>}
      BY <3>4
    <3>6. /\ process \in [CPUs -> ProcessAreas \cup {NULL}]
          /\ count \in [ProcessAreas -> Int]
      BY DEF AreasInv, Typed
    <3> QED BY <3>1, <3>3, <3>4, <3>5, <3>6
  <2>2. CASE process[c] = NULL
    <3>1. PICK p \in ProcessAreas :
            /\ <<"process", p>> \notin allocated
            /\ allocated' = allocated \cup {<<"process", p>>}
            /\ process' = [process EXCEPT ![c] = p]
            /\ count' = [count EXCEPT ![p] = 0]
      BY <2>2 DEF AllocProcess, Lowest
    <3>2. ThreadsOf(p) = {}
      BY <3>1 DEF AreasInv, Counted
    <3>3. Cardinality(ThreadsOf(p)) = 0
      BY <3>2, FS_EmptySet
    <3>4. /\ process \in [CPUs -> ProcessAreas \cup {NULL}]
          /\ count \in [ProcessAreas -> Int]
      BY DEF AreasInv, Typed
    <3>5. /\ process'[c] = p /\ process' \in [CPUs -> ProcessAreas \cup {NULL}]
          /\ \A d \in CPUs : d # c => process'[d] = process[d]
      BY <3>1, <3>4
    <3>6. /\ count' \in [ProcessAreas -> Int] /\ count'[p] = 0
          /\ \A q \in ProcessAreas : q # p => count'[q] = count[q]
      BY <3>1, <3>4
    <3> QED BY <3>1, <3>3, <3>5, <3>6
  <2> QED BY <2>1, <2>2
<1>3. thread[c] # NULL /\ pc[c] \in Critical
  BY <1>1, Idle DEF Working, Empty, Critical
<1>4. \A t : \A part \in Parts : <<part, t>> \in allocated' <=> <<part, t>> \in allocated
  BY <1>2 DEF Parts
<1>5. Handover(c) /\ pc'[c] = "count"
  <2>1. thread[c] # NULL =>
          /\ <<"thread", thread[c]>> \in allocated'
          /\ <<"stack", thread[c]>> \in allocated' <=> "count" \notin NoStack
          /\ <<"cpu", thread[c]>> \in allocated' <=> "count" \notin NoCpu
    BY <1>1, <1>4, PartsNow DEF Parts, NoStack, NoCpu
  <2> QED BY <1>1, <1>2, <1>4, <2>1, Stays
<1>6. Typed'
  <2>1. "count" \in Places /\ <<"process", p>> \in {"process"} \X ProcessAreas
    BY DEF Places, Late
  <2> QED BY <1>1, <1>2, <2>1 DEF AreasInv, Typed, Places
<1>7. Working(c)'
  BY <1>1, <1>2, <1>3, <1>5 DEF Working, Empty, Early, Destroying, Scheduling
<1>8. Alive' = Alive
  BY <1>1, <1>5, <1>6, AliveSame DEF Uncounted
<1>9. ASSUME NEW q PROVE ThreadsOf(q)' = ThreadsOf(q)
  BY <1>1, <1>8 DEF ThreadsOf
<1>10. ASSUME NEW q \in ProcessAreas
       PROVE  /\ <<"process", q>> \in allocated' <=> ThreadsOf(q)' # {} \/ Passing(q)'
              /\ <<"process", q>> \in allocated' =>
                   count'[q] = Cardinality(ThreadsOf(q)')
  <2>1. ~Passing(q) /\ (Passing(q)' <=> q = p)
    <3>1. (Passing(q) <=> PassedBy(c, q)) /\ (Passing(q)' <=> PassedBy(c, q)')
      BY <1>3, <1>5, <1>6, PassingInside
    <3>2. ~PassedBy(c, q) /\ (PassedBy(c, q)' <=> q = p)
      BY <1>1, <1>2, <1>5 DEF PassedBy
    <3> QED BY <3>1, <3>2
  <2>2. /\ <<"process", q>> \in allocated <=> ThreadsOf(q) # {} \/ Passing(q)
        /\ <<"process", q>> \in allocated => count[q] = Cardinality(ThreadsOf(q))
    BY DEF AreasInv, Counted
  <2>3. <<"process", q>> \in allocated' <=> <<"process", q>> \in allocated \/ q = p
    BY <1>2
  <2> QED BY <1>2, <1>9, <2>1, <2>2, <2>3 DEF Passing
<1>11. Counted'
  <2>1. IsFiniteSet(Alive') /\ \A t \in Alive' : parent'[t] \in ProcessAreas
    BY <1>1, <1>8 DEF AreasInv, Counted
  <2> QED BY <1>10, <2>1 DEF Counted
<1> QED BY <1>5, <1>6, <1>7, <1>11, Settle

\* The thread joins its process, and is counted.
LEMMA CountStep ==
    ASSUME AreasInv, Inside', NEW c \in CPUs, Count(c)
    PROVE  AreasInv'
<1>0. pc[c] = "count"
  BY DEF Count, Go
<1>2. PICK t \in ThreadAreas, p \in ProcessAreas :
        /\ t = thread[c] /\ p = process[c]
        /\ t # NULL /\ t \notin Alive /\ pc[c] \in Critical /\ <<"thread", t>> \in allocated
  <2>1. /\ thread[c] # NULL /\ pc[c] \in Uncounted /\ pc[c] \in Critical
        /\ process[c] \in ProcessAreas
    BY <1>0, Idle DEF Working, Empty, Critical, Uncounted
  <2> QED BY <2>1, PartsNow
<1>1. /\ pc[c] = "count" /\ pc' = [pc EXCEPT ![c] = "fill"]
      /\ UNCHANGED <<thread, handles, running, process, allocated>>
      /\ parent' = [parent EXCEPT ![t] = p] /\ count' = [count EXCEPT ![p] = count[p] + 1]
  BY <1>2 DEF Count, Go
<1>3. /\ parent' \in [ThreadAreas -> ProcessAreas \cup {NULL}] /\ parent'[t] = p
      /\ \A u \in ThreadAreas : u # t => parent'[u] = parent[u]
  BY <1>1, <1>2 DEF AreasInv, Typed
<1>4. /\ count' \in [ProcessAreas -> Int] /\ count'[p] = count[p] + 1
      /\ \A q \in ProcessAreas : q # p => count'[q] = count[q]
  BY <1>1, <1>2 DEF AreasInv, Typed
<1>5. Handover(c) /\ pc'[c] = "fill"
  <2>1. t # NULL =>
          /\ <<"thread", t>> \in allocated'
          /\ <<"stack", t>> \in allocated' <=> "fill" \notin NoStack
          /\ <<"cpu", t>> \in allocated' <=> "fill" \notin NoCpu
    BY <1>1, <1>2, PartsNow DEF NoStack, NoCpu
  <2> QED BY <1>1, <1>2, <1>3, <2>1, Stays
<1>6. Typed'
  <2>1. "fill" \in Places
    BY DEF Places, Late
  <2> QED BY <1>1, <1>3, <1>4, <2>1 DEF AreasInv, Typed, Places
<1>7. Working(c)'
  BY <1>1, <1>2, <1>5 DEF Working, Empty, Early, Destroying, Scheduling
<1>8. Alive' = Alive \cup {t}
  <2>1. ASSUME NEW u \in ThreadAreas PROVE u \in Alive' <=> u \in Alive \/ u = t
    <3>1. thread'[c] = t /\ pc'[c] \notin Uncounted
      BY <1>1, <1>2, <1>5 DEF Uncounted
    <3>2. CASE u = t
      BY <1>5, <1>6, <3>1, <3>2, AliveStep
    <3>3. CASE u # t
      BY <1>2, <1>5, <1>6, <3>1, <3>3, AliveStep
    <3> QED BY <3>2, <3>3
  <2>2. Alive \subseteq ThreadAreas /\ Alive' \subseteq ThreadAreas
    BY DEF Alive
  <2> QED BY <1>2, <2>1, <2>2
<1>9. /\ ThreadsOf(p)' = ThreadsOf(p) \cup {t} /\ t \notin ThreadsOf(p)
      /\ \A q : q # p => ThreadsOf(q)' = ThreadsOf(q)
  <2>1. Alive \subseteq ThreadAreas
    BY DEF Alive
  <2> QED BY <1>2, <1>3, <1>8, <2>1 DEF ThreadsOf
<1>10. Cardinality(ThreadsOf(p)') = Cardinality(ThreadsOf(p)) + 1
  BY <1>9, ThreadsFinite, FS_AddElement
<1>11. ASSUME NEW q \in ProcessAreas
       PROVE  /\ <<"process", q>> \in allocated' <=> ThreadsOf(q)' # {} \/ Passing(q)'
              /\ <<"process", q>> \in allocated' =>
                   count'[q] = Cardinality(ThreadsOf(q)')
  <2>1. (Passing(q) <=> q = p) /\ ~Passing(q)'
    <3>1. (Passing(q) <=> PassedBy(c, q)) /\ (Passing(q)' <=> PassedBy(c, q)')
      BY <1>2, <1>5, <1>6, PassingInside
    <3>2. (PassedBy(c, q) <=> q = p) /\ ~PassedBy(c, q)'
      BY <1>1, <1>2, <1>5 DEF PassedBy
    <3> QED BY <3>1, <3>2
  <2>2. /\ <<"process", q>> \in allocated <=> ThreadsOf(q) # {} \/ Passing(q)
        /\ <<"process", q>> \in allocated => count[q] = Cardinality(ThreadsOf(q))
    BY DEF AreasInv, Counted
  <2>3. CASE q = p
    <3>1. ThreadsOf(q)' # {}
      BY <1>9, <2>3
    <3>2. <<"process", q>> \in allocated /\ count'[q] = Cardinality(ThreadsOf(q)')
      BY <1>4, <1>10, <2>1, <2>2, <2>3
    <3> QED BY <1>1, <3>1, <3>2
  <2>4. CASE q # p
    <3>1. ThreadsOf(q)' = ThreadsOf(q) /\ count'[q] = count[q]
      BY <1>4, <1>9, <2>4
    <3> QED BY <1>1, <2>1, <2>2, <2>4, <3>1 DEF Passing
  <2> QED BY <2>3, <2>4
<1>12. Counted'
  <2>1. IsFiniteSet(Alive')
    BY <1>8, FS_AddElement DEF AreasInv, Counted
  <2>2. \A u \in Alive' : parent'[u] \in ProcessAreas
    BY <1>2, <1>3, <1>8 DEF AreasInv, Counted, Alive
  <2> QED BY <1>11, <2>1, <2>2 DEF Counted
<1> QED BY <1>5, <1>6, <1>7, <1>12, Settle

\* A thread that is off the list counts no more.
LEMMA DiscountStep ==
    ASSUME AreasInv, Inside', NEW c \in CPUs, Discount(c)
    PROVE  AreasInv'
<1>0. pc[c] = "discount"
  BY DEF Discount, Go
<1>1. PICK t \in ThreadAreas, p \in ProcessAreas :
        /\ t = thread[c] /\ p = parent[t]
        /\ t # NULL /\ t \in Alive /\ pc[c] \in Critical /\ <<"thread", t>> \in allocated
  <2>1. thread[c] # NULL /\ pc[c] \notin Uncounted /\ pc[c] \in Critical
    BY <1>0, Idle DEF Working, Empty, Critical, Uncounted
  <2>2. thread[c] \in Alive /\ thread[c] \in ThreadAreas /\ <<"thread", thread[c]>> \in allocated
    BY <2>1, PartsNow
  <2>3. parent[thread[c]] \in ProcessAreas
    BY <2>2 DEF AreasInv, Counted
  <2> QED BY <2>1, <2>2, <2>3
<1>2. /\ pc' = [pc EXCEPT ![c] = "drop"]
      /\ UNCHANGED <<thread, handles, running, process, allocated, parent>>
      /\ count' = [count EXCEPT ![p] = count[p] - 1]
  BY <1>1 DEF Discount, Go
<1>3. /\ count' \in [ProcessAreas -> Int] /\ count'[p] = count[p] - 1
      /\ \A q \in ProcessAreas : q # p => count'[q] = count[q]
  BY <1>1, <1>2 DEF AreasInv, Typed
<1>4. Handover(c) /\ pc'[c] = "drop"
  <2>1. t # NULL =>
          /\ <<"thread", t>> \in allocated'
          /\ <<"stack", t>> \in allocated' <=> "drop" \notin NoStack
          /\ <<"cpu", t>> \in allocated' <=> "drop" \notin NoCpu
    BY <1>0, <1>1, <1>2, PartsNow DEF NoStack, NoCpu
  <2> QED BY <1>1, <1>2, <2>1, Stays
<1>5. Typed'
  <2>1. "drop" \in Places
    BY DEF Places, Destroying
  <2> QED BY <1>2, <1>3, <2>1 DEF AreasInv, Typed, Places
<1>6. Working(c)'
  <2>1. running[c] = NULL
    BY <1>0, Idle DEF Working, Destroying
  <2> QED BY <1>1, <1>2, <1>4, <2>1 DEF Working, Empty, Early, Scheduling
<1>7. Alive' = Alive \ {t}
  <2>1. ASSUME NEW u \in ThreadAreas PROVE u \in Alive' <=> u \in Alive /\ u # t
    <3>1. thread'[c] = t /\ pc'[c] \in Uncounted
      BY <1>1, <1>2, <1>4 DEF Uncounted
    <3>2. CASE u = t
      BY <1>4, <1>5, <3>1, <3>2, AliveStep
    <3>3. CASE u # t
      BY <1>1, <1>4, <1>5, <3>1, <3>3, AliveStep
    <3> QED BY <3>2, <3>3
  <2>2. Alive \subseteq ThreadAreas /\ Alive' \subseteq ThreadAreas
    BY DEF Alive
  <2> QED BY <2>1, <2>2
<1>8. /\ ThreadsOf(p)' = ThreadsOf(p) \ {t} /\ t \in ThreadsOf(p)
      /\ \A q : q # p => ThreadsOf(q)' = ThreadsOf(q)
  BY <1>1, <1>2, <1>7 DEF ThreadsOf
<1>9. Cardinality(ThreadsOf(p)') = Cardinality(ThreadsOf(p)) - 1
  BY <1>8, ThreadsFinite, FS_RemoveElement
<1>10. ASSUME NEW q \in ProcessAreas
       PROVE  /\ <<"process", q>> \in allocated' <=> ThreadsOf(q)' # {} \/ Passing(q)'
              /\ <<"process", q>> \in allocated' =>
                   count'[q] = Cardinality(ThreadsOf(q)')
  <2>1. ~Passing(q) /\ (Passing(q)' <=> q = p)
    <3>1. (Passing(q) <=> PassedBy(c, q)) /\ (Passing(q)' <=> PassedBy(c, q)')
      BY <1>1, <1>4, <1>5, PassingInside
    <3>2. ~PassedBy(c, q) /\ (PassedBy(c, q)' <=> q = p)
      BY <1>0, <1>1, <1>2, <1>4 DEF PassedBy
    <3> QED BY <3>1, <3>2
  <2>2. /\ <<"process", q>> \in allocated <=> ThreadsOf(q) # {} \/ Passing(q)
        /\ <<"process", q>> \in allocated => count[q] = Cardinality(ThreadsOf(q))
    BY DEF AreasInv, Counted
  <2>3. CASE q = p
    <3>1. <<"process", q>> \in allocated /\ count'[q] = Cardinality(ThreadsOf(q)')
      BY <1>3, <1>8, <1>9, <2>2, <2>3
    <3> QED BY <1>2, <2>1, <2>3, <3>1
  <2>4. CASE q # p
    <3>1. ThreadsOf(q)' = ThreadsOf(q) /\ count'[q] = count[q]
      BY <1>3, <1>8, <2>4
    <3> QED BY <1>2, <2>1, <2>2, <2>4, <3>1
  <2> QED BY <2>3, <2>4
<1>11. Counted'
  <2>1. IsFiniteSet(Alive')
    BY <1>7, FS_Subset DEF AreasInv, Counted
  <2>2. \A u \in Alive' : parent'[u] \in ProcessAreas
    BY <1>2, <1>7 DEF AreasInv, Counted
  <2> QED BY <1>10, <2>1, <2>2 DEF Counted
<1> QED BY <1>4, <1>5, <1>6, <1>11, Settle

\* The process goes when its count says so, and then only: the area is there, and no
\* thread is in it.
LEMMA DropStep ==
    ASSUME AreasInv, Inside', NEW c \in CPUs, Drop(c)
    PROVE  AreasInv'
<1>0. pc[c] = "drop"
  BY DEF Drop
<1>1. PICK t \in ThreadAreas, p \in ProcessAreas :
        /\ t = thread[c] /\ p = parent[t]
        /\ t # NULL /\ pc[c] \in Critical /\ <<"thread", t>> \in allocated
  <2>1. thread[c] # NULL /\ pc[c] \in Critical /\ parent[thread[c]] \in ProcessAreas
    BY <1>0, Idle DEF Working, Empty, Critical
  <2>2. thread[c] \in ThreadAreas /\ <<"thread", thread[c]>> \in allocated
    BY <2>1, PartsNow
  <2> QED BY <2>1, <2>2
<1>2. \A q : Passing(q) <=> q = p
  <2> TAKE q
  <2>1. ASSUME NEW d \in CPUs, PassedBy(d, q) PROVE d = c
    BY <1>1, <2>1 DEF AreasInv, Inside, OneInside, PassedBy, Critical
  <2>2. PassedBy(c, q) <=> q = p
    BY <1>0, <1>1 DEF PassedBy
  <2> QED BY <2>1, <2>2 DEF Passing, PassedBy
<1>3. <<"process", p>> \in allocated /\ count[p] = Cardinality(ThreadsOf(p))
  BY <1>2 DEF AreasInv, Counted
<1>4. count[p] = 0 <=> ThreadsOf(p) = {}
  BY <1>3, ThreadsFinite, FS_EmptySet
<1>5. /\ pc' = [pc EXCEPT ![c] = "unlock destroy"]
      /\ UNCHANGED <<thread, handles, running, process, parent, count>>
      /\ count[p] = 0 => allocated' = allocated \ {<<"process", p>>}
      /\ count[p] # 0 => allocated' = allocated
  BY <1>1, <1>3 DEF Drop, Free, Go
<1>6. /\ \A u : \A part \in Parts : <<part, u>> \in allocated' <=> <<part, u>> \in allocated
      /\ allocated' \subseteq allocated
      /\ \A q : q # p => (<<"process", q>> \in allocated' <=> <<"process", q>> \in allocated)
      /\ <<"process", p>> \in allocated' <=> ThreadsOf(p) # {}
  <2>1. "process" \notin Parts
    BY DEF Parts
  <2> QED BY <1>3, <1>4, <1>5, <2>1
<1>7. Handover(c) /\ pc'[c] = "unlock destroy"
  <2>1. t # NULL =>
          /\ <<"thread", t>> \in allocated'
          /\ <<"stack", t>> \in allocated' <=> "unlock destroy" \notin NoStack
          /\ <<"cpu", t>> \in allocated' <=> "unlock destroy" \notin NoCpu
    BY <1>0, <1>1, <1>6, PartsNow DEF NoStack, NoCpu, Parts
  <2> QED BY <1>1, <1>5, <1>6, <2>1, Stays
<1>8. Typed'
  <2>1. "unlock destroy" \in Places
    BY DEF Places, Destroying
  <2> QED BY <1>5, <1>6, <2>1 DEF AreasInv, Typed, Places
<1>9. Working(c)'
  <2>1. running[c] = NULL
    BY <1>0, Idle DEF Working, Destroying
  <2> QED BY <1>1, <1>5, <1>7, <2>1 DEF Working, Empty, Early, Scheduling
<1>10. Alive' = Alive
  BY <1>0, <1>5, <1>7, <1>8, AliveSame DEF Uncounted
<1>11. \A q : ThreadsOf(q)' = ThreadsOf(q)
  BY <1>5, <1>10 DEF ThreadsOf
<1>12. ASSUME NEW q \in ProcessAreas
       PROVE  /\ <<"process", q>> \in allocated' <=> ThreadsOf(q)' # {} \/ Passing(q)'
              /\ <<"process", q>> \in allocated' =>
                   count'[q] = Cardinality(ThreadsOf(q)')
  <2>1. ~Passing(q)'
    <3>1. Passing(q)' <=> PassedBy(c, q)'
      BY <1>1, <1>7, <1>8, PassingInside
    <3>2. ~PassedBy(c, q)'
      BY <1>7 DEF PassedBy
    <3> QED BY <3>1, <3>2
  <2>2. /\ <<"process", q>> \in allocated <=> ThreadsOf(q) # {} \/ q = p
        /\ <<"process", q>> \in allocated => count[q] = Cardinality(ThreadsOf(q))
    BY <1>2 DEF AreasInv, Counted
  <2>3. ThreadsOf(q)' = ThreadsOf(q) /\ count'[q] = count[q]
    BY <1>5, <1>11
  <2>4. <<"process", q>> \in allocated' <=> ThreadsOf(q) # {}
    BY <1>6, <2>2
  <2> QED BY <2>1, <2>2, <2>3, <2>4
<1>13. Counted'
  <2>1. IsFiniteSet(Alive') /\ \A u \in Alive' : parent'[u] \in ProcessAreas
    BY <1>5, <1>10 DEF AreasInv, Counted
  <2> QED BY <1>12, <2>1 DEF Counted
<1> QED BY <1>7, <1>8, <1>9, <1>13, Settle

-----------------------------------------------------------------------------
(* Every step, and what follows.                                           *)

LEMMA AreasStart == Init => AreasInv
<1> SUFFICES ASSUME Init PROVE AreasInv
  OBVIOUS
<1>1. /\ parent = [t \in ThreadAreas |-> NULL] /\ count = [p \in ProcessAreas |-> 0]
      /\ allocated = {} /\ handles = {} /\ pc = [c \in CPUs |-> "idle"]
      /\ thread = [c \in CPUs |-> NULL] /\ process = [c \in CPUs |-> NULL]
      /\ running = [c \in CPUs |-> NULL]
  BY DEF Init
<1>2. Inside
  BY InsideInit
<1>3. Typed
  BY <1>1 DEF Typed
<1>4. \A c \in CPUs : pc[c] = "idle" /\ thread[c] = NULL /\ running[c] = NULL
  BY <1>1
<1>5. \A c \in CPUs : Working(c)
  BY <1>4 DEF Working, Empty, Scheduling, Early
<1>6. Held
  BY <1>1, <1>4 DEF Held
<1>7. Owned
  BY <1>1 DEF Owned
<1>8. Alive = {} /\ \A p : ThreadsOf(p) = {} /\ ~Passing(p)
  BY <1>1, <1>4 DEF Alive, ThreadsOf, Passing
<1>9. Counted
  BY <1>1, <1>8, FS_EmptySet DEF Counted
<1> QED BY <1>2, <1>3, <1>5, <1>6, <1>7, <1>9 DEF AreasInv

LEMMA AreasUnchanged ==
    ASSUME AreasInv, Inside',
           UNCHANGED <<parent, count, allocated, pc, thread, process, handles, running>>
    PROVE  AreasInv'
<1>1. Typed' /\ Held' /\ \A c \in CPUs : Working(c)'
  BY DEF AreasInv, Typed, Held, Working
<1>2. Owned'
  BY DEF AreasInv, Owned, At
<1>3. Alive' = Alive /\ \A p : Passing(p)' <=> Passing(p)
  BY DEF Alive, At, Passing
<1>4. Counted'
  BY <1>3, CountedKept DEF Passing
<1> QED BY <1>1, <1>2, <1>4 DEF AreasInv

LEMMA AreasNext ==
    ASSUME AreasInv, [Next]_vars
    PROVE  AreasInv'
<1>0. Inside'
  BY InsideNext DEF AreasInv
<1>1. ASSUME NEW c \in CPUs, CallCreate(c) \/ CallDestroy(c) \/ CallSchedule(c)
      PROVE  AreasInv'
  BY <1>0, <1>1, CallCreateStep, CallDestroyStep, ScheduleSteps
<1>2. ASSUME NEW c \in CPUs, Step(c)
      PROVE  AreasInv'
  <2>1. CASE Acquire(c) \/ Fill(c) \/ AddThread(c) \/ Unlink(c) \/ UnlockDestroy(c)
    BY <1>0, <2>1, MovingSteps
  <2>2. CASE AllocThread(c) \/ Fail(c) \/ FreeThread(c)
    BY <1>0, <2>2, AllocThreadStep, FailStep, FreeThreadStep
  <2>3. CASE AllocPart(c, "stack", "alloc stack", "alloc cpu")
    BY <1>0, <2>3, AllocPartStep
  <2>4. CASE AllocPart(c, "cpu", "alloc cpu", "alloc process")
    BY <1>0, <2>4, AllocPartStep
  <2>5. CASE FreePart(c, "cpu", "free cpu", "free stack")
    BY <1>0, <2>5, FreePartStep
  <2>6. CASE FreePart(c, "stack", "free stack", "free thread")
    BY <1>0, <2>6, FreePartStep
  <2>7. CASE AllocProcess(c) \/ Count(c) \/ Discount(c) \/ Drop(c)
    BY <1>0, <2>7, AllocProcessStep, CountStep, DiscountStep, DropStep
  <2>8. CASE UnlockCreate(c) \/ UnlockSchedule(c)
    BY <1>0, <2>8, UnlockCreateStep, ScheduleSteps
  <2>9. CASE Astray(c)
    <3>1. UNCHANGED <<parent, count, allocated, pc, thread, process, handles, running>>
      BY <2>9 DEF Astray
    <3> QED BY <1>0, <3>1, AreasUnchanged
  <2> QED BY <1>2, <2>1, <2>2, <2>3, <2>4, <2>5, <2>6, <2>7, <2>8, <2>9 DEF Step
<1>3. CASE UNCHANGED vars
  <2>1. UNCHANGED <<parent, count, allocated, pc, thread, process, handles, running>>
    BY <1>3 DEF vars, locals
  <2> QED BY <1>0, <2>1, AreasUnchanged
<1> QED BY <1>1, <1>2, <1>3 DEF Next, Call
LEMMA AreasFollow ==
    ASSUME AreasInv
    PROVE  AreasOwned
<1>1. ASSUME NEW a \in allocated
      PROVE  <<IF a[1] = "process" THEN "process" ELSE "thread", a[2]>> \in allocated
  <2>1. CASE a \in {"process"} \X ProcessAreas
    BY <1>1, <2>1
  <2>2. CASE a \in Parts \X ThreadAreas
    <3>1. PICK part \in Parts, t \in ThreadAreas : a = <<part, t>>
      BY <2>2
    <3>2. part \in {"thread", "stack", "cpu"}
      BY DEF Parts
    <3>3. <<"thread", t>> \in allocated
      BY <1>1, <3>1, <3>2 DEF AreasInv, Owned
    <3> QED BY <3>1, <3>2, <3>3
  <2> QED BY <2>1, <2>2 DEF AreasInv, Typed
<1>2. ASSUME NEW t \in ThreadAreas, <<"thread", t>> \in allocated
      PROVE  {a[1] : a \in {b \in allocated : b[2] = t}} = Owns(t)
  <2>1. {a[1] : a \in {b \in allocated : b[2] = t}} = {part \in Parts : <<part, t>> \in allocated}
    <3>1. ASSUME NEW a \in allocated, a[2] = t
          PROVE  a[1] \in Parts /\ <<a[1], t>> \in allocated
      <4>1. a \notin {"process"} \X ProcessAreas
        BY <3>1, AreasAssumption
      <4> QED BY <3>1, <4>1 DEF AreasInv, Typed
    <3>2. ASSUME NEW part \in Parts, <<part, t>> \in allocated
          PROVE  part \in {a[1] : a \in {b \in allocated : b[2] = t}}
      <4>1. <<part, t>>[1] = part /\ <<part, t>>[2] = t
        OBVIOUS
      <4> QED BY <3>2, <4>1
    <3> QED BY <3>1, <3>2
  <2>2. /\ <<"stack", t>> \in allocated <=> ~At(t, NoStack)
        /\ <<"cpu", t>> \in allocated <=> ~At(t, NoCpu)
    BY <1>2 DEF AreasInv, Owned
  <2>3. {part \in Parts : <<part, t>> \in allocated}
          = {"thread"} \cup (IF At(t, NoStack) THEN {} ELSE {"stack"})
                       \cup (IF At(t, NoCpu) THEN {} ELSE {"cpu"})
    BY <1>2, <2>2 DEF Parts
  <2>4. /\ At(t, NoCpu) <=> At(t, NoStack) \/ At(t, {"alloc cpu", "free stack"})
        /\ NoStack = {"alloc stack", "free thread"}
    BY DEF At, NoCpu, NoStack
  <2>5. CASE At(t, NoStack)
    BY <2>1, <2>3, <2>4, <2>5 DEF Owns
  <2>6. CASE ~At(t, NoStack) /\ At(t, NoCpu)
    BY <2>1, <2>3, <2>4, <2>6 DEF Owns
  <2>7. CASE ~At(t, NoStack) /\ ~At(t, NoCpu)
    BY <2>1, <2>3, <2>4, <2>7 DEF Owns, Parts
  <2> QED BY <2>5, <2>6, <2>7
<1>3. \A p \in ProcessAreas :
        /\ <<"process", p>> \in allocated <=> ThreadsOf(p) # {} \/ Passing(p)
        /\ <<"process", p>> \in allocated => count[p] = Cardinality(ThreadsOf(p))
  BY DEF AreasInv, Counted
<1>4. \A c \in CPUs : pc[c] # "stopped"
  BY DEF AreasInv, Typed, Early, Late, Scheduling, Destroying
<1> QED BY <1>1, <1>2, <1>3, <1>4 DEF AreasOwned

\* However many processors create and destroy threads, and wherever thread_create
\* fails: every area belongs to a thread or a process that is there, goes with it,
\* is freed once, and each process counts its threads.
THEOREM NothingLeaks == Spec => []AreasOwned
<1>1. AreasInv /\ [Next]_vars => AreasInv'
  BY AreasNext
<1>2. AreasInv => AreasOwned
  BY AreasFollow
<1> QED BY <1>1, <1>2, AreasStart, PTL DEF Spec

-----------------------------------------------------------------------------
(* What a walk finds.                                                      *)

Below == {p \in Nat \X Nat : p[1] < p[2]}

LEMMA BelowWellFounded == IsWellFoundedOn(Below, Nat)
<1>1. Below = OpToRel(<, Nat)
  BY DEF OpToRel, Below
<1> QED BY <1>1, NatLessThanWellFounded

\* Induction: any set of numbers has a least one.
LEMMA LeastNat ==
    ASSUME NEW T, T \subseteq Nat, T # {}
    PROVE  \E n \in T : \A m \in T : n <= m
<1>1. PICK n \in T : \A m \in T : <<m, n>> \notin Below
  BY BelowWellFounded, WFMin
<1>2. ASSUME NEW m \in T PROVE n <= m
  <2>1. m \in Nat /\ n \in Nat /\ (m < n => <<m, n>> \in Below)
    BY DEF Below
  <2> QED BY <1>1, <2>1
<1> QED BY <1>2

\* The nodes of list l of a heap are those of s, in that order, linked both ways.
Linked(h, l, s) ==
    /\ s \in Seq(Nodes)
    /\ \A i, j \in 1 .. Len(s) : s[i] = s[j] => i = j
    /\ Len(s) = 0 => h[l].start = NULL /\ h[l].end = NULL
    /\ Len(s) > 0 => /\ h[l].start = s[1] /\ h.prev[s[1]] = NULL
                     /\ h[l].end = s[Len(s)] /\ h.next[s[Len(s)]] = NULL
    /\ \A i \in 1 .. (Len(s) - 1) : h.next[s[i]] = s[i + 1] /\ h.prev[s[i + 1]] = s[i]

LEMMA NotTooLong ==
    ASSUME NEW s \in Seq(Nodes), \A i, j \in 1 .. Len(s) : s[i] = s[j] => i = j
    PROVE  Len(s) <= Steps
<1>1. s \in Injection(1 .. Len(s), Nodes)
  <2>1. s \in [1 .. Len(s) -> Nodes] /\ DOMAIN s = 1 .. Len(s)
    BY LenProperties
  <2>2. IsInjective(s)
    BY <2>1 DEF IsInjective
  <2> QED BY <2>1, <2>2 DEF Injection
<1>2. Cardinality(1 .. Len(s)) <= Cardinality(Nodes)
  BY <1>1, FS_Injection, NodesAssumption
<1>3. Len(s) \in Nat /\ Cardinality(1 .. Len(s)) = Len(s)
  <2>1. Len(s) \in Nat
    BY LenProperties
  <2>2. Cardinality(1 .. Len(s)) = IF 1 > Len(s) THEN 0 ELSE Len(s) - 1 + 1
    BY <2>1, FS_Interval
  <2> QED BY <2>1, <2>2
<1>4. Cardinality(Nodes) \in Nat
  BY NodesAssumption, FS_CardinalityType
<1> QED BY <1>2, <1>3, <1>4, NodesAssumption

\* The node behind n, and none behind NULL.
After(h) == [n \in Nodes \cup {NULL} |-> IF n = NULL THEN NULL ELSE h.next[n]]

\* The k-th node a walk meets.
Met(s, k) == IF k <= Len(s) THEN s[k] ELSE NULL

LEMMA MetFirst ==
    ASSUME NEW h, NEW l, NEW s, Linked(h, l, s)
    PROVE  Met(s, 1) = h[l].start
<1>1. Len(s) \in Nat
  BY LenProperties DEF Linked
<1> QED BY <1>1 DEF Met, Linked

LEMMA MetNext ==
    ASSUME NEW h, NEW l, NEW s, Linked(h, l, s), NEW k \in Nat, k > 1
    PROVE  Met(s, k) = After(h)[Met(s, k - 1)]
<1>0. Len(s) \in Nat /\ \A i \in 1 .. Len(s) : s[i] \in Nodes /\ s[i] # NULL
  BY LenProperties, ElementOfSeq, NodesAssumption DEF Linked
<1>1. /\ \A n \in Nodes : n # NULL => After(h)[n] = h.next[n]
      /\ After(h)[NULL] = NULL
  BY DEF After
<1>2. CASE k <= Len(s)
  <2>1. k - 1 \in 1 .. (Len(s) - 1) /\ k - 1 \in 1 .. Len(s) /\ (k - 1) + 1 = k
    BY <1>0, <1>2
  <2>2. h.next[s[k - 1]] = s[(k - 1) + 1]
    BY <2>1 DEF Linked
  <2>3. Met(s, k) = s[k] /\ Met(s, k - 1) = s[k - 1]
    BY <1>0, <1>2 DEF Met
  <2> QED BY <1>0, <1>1, <2>1, <2>2, <2>3
<1>3. CASE k = Len(s) + 1
  <2>1. Met(s, k) = NULL /\ Met(s, k - 1) = s[Len(s)] /\ Len(s) \in 1 .. Len(s)
    BY <1>0, <1>3 DEF Met
  <2>2. h.next[s[Len(s)]] = NULL
    BY <1>0, <1>3 DEF Linked
  <2> QED BY <1>0, <1>1, <2>1, <2>2
<1>4. CASE k > Len(s) + 1
  <2>1. Met(s, k) = NULL /\ Met(s, k - 1) = NULL
    BY <1>0, <1>4 DEF Met
  <2> QED BY <1>1, <2>1
<1> QED BY <1>0, <1>2, <1>3, <1>4

\* A walk finds the nodes of the list.
LEMMA WalkFinds ==
    ASSUME NEW h, NEW l, NEW s, Linked(h, l, s)
    PROVE  Walk(h, l) = s
<1> DEFINE Further(f, k) == IF k = 1 THEN h[l].start ELSE After(h)[f[k - 1]]
           met == [k \in 1 .. Steps |-> Met(s, k)]
           node == CHOOSE f : f = [k \in 1 .. Steps |-> Further(f, k)]
<1>1. Steps \in Nat
  BY NodesAssumption
<1>2. met = [k \in 1 .. Steps |-> Further(met, k)]
  <2> SUFFICES ASSUME NEW k \in 1 .. Steps PROVE Met(s, k) = Further(met, k)
    OBVIOUS
  <2>1. CASE k = 1
    BY <2>1, MetFirst
  <2>2. CASE k # 1
    <3>1. met[k - 1] = Met(s, k - 1) /\ k \in Nat /\ k > 1
      BY <1>1, <2>2
    <3> HIDE DEF met
    <3> QED BY <2>2, <3>1, MetNext
  <2> QED BY <2>1, <2>2
<1>3. node = [k \in 1 .. Steps |-> Further(node, k)]
  <2> HIDE DEF met
  <2> QED BY <1>2
<1> HIDE DEF node
<1>4. ASSUME NEW k \in 1 .. Steps, \A m \in 1 .. Steps : m < k => node[m] = met[m]
      PROVE  node[k] = met[k]
  <2>1. node[k] = Further(node, k) /\ met[k] = Further(met, k)
    <3> HIDE DEF met, Further
    <3> QED BY <1>2, <1>3
  <2>2. k # 1 => node[k - 1] = met[k - 1]
    BY <1>1, <1>4
  <2> HIDE DEF met
  <2> QED BY <2>1, <2>2
<1>5. \A k \in 1 .. Steps : node[k] = met[k]
  <2> DEFINE Wrong == {k \in 1 .. Steps : node[k] # met[k]}
  <2> SUFFICES ASSUME Wrong # {} PROVE FALSE
    OBVIOUS
  <2>1. PICK k \in Wrong : \A m \in Wrong : k <= m
    <3>1. Wrong \subseteq Nat
      BY <1>1
    <3> HIDE DEF Wrong
    <3> QED BY <3>1, LeastNat
  <2>2. \A m \in 1 .. Steps : m < k => node[m] = met[m]
    BY <1>1, <2>1
  <2> QED BY <1>4, <2>1, <2>2
<1>6. /\ s \in Seq(Nodes) /\ Len(s) <= Steps /\ Len(s) \in Nat /\ DOMAIN s = 1 .. Len(s)
      /\ s = [k \in 1 .. Len(s) |-> s[k]]
      /\ \A k \in 1 .. Len(s) : s[k] # NULL
  BY NotTooLong, LenProperties, ElementOfSeq, NodesAssumption DEF Linked
<1>7. {j \in 1 .. Steps : node[j] # NULL} = 1 .. Len(s)
  <2>1. \A j \in 1 .. Steps : node[j] # NULL <=> j <= Len(s)
    BY <1>5, <1>6 DEF Met
  <2> QED BY <1>1, <1>6, <2>1
<1>8. \A k \in 1 .. Len(s) : node[k] = s[k]
  BY <1>1, <1>5, <1>6 DEF Met
<1>9. Walk(h, l) = [k \in {j \in 1 .. Steps : node[j] # NULL} |-> node[k]]
  BY DEF Walk, node, After
<1> QED BY <1>6, <1>7, <1>8, <1>9
-----------------------------------------------------------------------------
(* What the macros of list.h do to the nodes of a list.                    *)

Lists == {"threads", "processes"}

Ends == [start : Nodes \cup {NULL}, end : Nodes \cup {NULL}]

Heap == [threads : Ends, processes : Ends,
         next : [Nodes -> Nodes \cup {NULL}], prev : [Nodes -> Nodes \cup {NULL}]]

LEMMA AddEffect ==
    ASSUME NEW h \in Heap, NEW l \in Lists, NEW n \in Nodes, n # h[l].end,
           NEW g, g = HELP_DLLIST_ADD(h, l, n)
    PROVE  /\ g \in Heap
           /\ g[l].end = n
           /\ h[l].end = NULL => g[l].start = n
           /\ h[l].end # NULL => g[l].start = h[l].start
           /\ \A m \in Lists : m # l => g[m] = h[m]
           /\ g.prev[n] = h[l].end /\ g.next[n] = NULL
           /\ h[l].end # NULL => g.next[h[l].end] = n
           /\ \A x \in Nodes : x # n => g.prev[x] = h.prev[x]
           /\ \A x \in Nodes : x # n /\ x # h[l].end => g.next[x] = h.next[x]
<1>1. CASE l = "threads"
  <2>1. h.threads \in Ends /\ h["threads"] = h.threads
    BY DEF Heap
  <2>2. g = [threads |-> [start |-> IF h.threads.end = NULL THEN n ELSE h.threads.start,
                          end |-> n],
             processes |-> h.processes,
             next |-> IF h.threads.end = NULL THEN [h.next EXCEPT ![n] = NULL]
                      ELSE [h.next EXCEPT ![h.threads.end] = n, ![n] = NULL],
             prev |-> [h.prev EXCEPT ![n] = h.threads.end]]
    BY <1>1, <2>1 DEF HELP_DLLIST_ADD, Heap
  <2>3. CASE h.threads.end = NULL
    BY <1>1, <2>1, <2>2, <2>3 DEF Heap, Ends, Lists
  <2>4. CASE h.threads.end # NULL
    BY <1>1, <2>1, <2>2, <2>4 DEF Heap, Ends, Lists
  <2> QED BY <2>3, <2>4
<1>2. CASE l = "processes"
  <2>1. h.processes \in Ends /\ h["processes"] = h.processes
    BY DEF Heap
  <2>2. g = [threads |-> h.threads,
             processes |-> [start |-> IF h.processes.end = NULL THEN n
                                      ELSE h.processes.start,
                            end |-> n],
             next |-> IF h.processes.end = NULL THEN [h.next EXCEPT ![n] = NULL]
                      ELSE [h.next EXCEPT ![h.processes.end] = n, ![n] = NULL],
             prev |-> [h.prev EXCEPT ![n] = h.processes.end]]
    BY <1>2, <2>1 DEF HELP_DLLIST_ADD, Heap
  <2>3. CASE h.processes.end = NULL
    BY <1>2, <2>1, <2>2, <2>3 DEF Heap, Ends, Lists
  <2>4. CASE h.processes.end # NULL
    BY <1>2, <2>1, <2>2, <2>4 DEF Heap, Ends, Lists
  <2> QED BY <2>3, <2>4
<1> QED BY <1>1, <1>2 DEF Lists

\* A list that is left alone stays.
LEMMA StillLinked ==
    ASSUME NEW h, NEW g, NEW l, NEW s, Linked(h, l, s), g[l] = h[l],
           \A i \in 1 .. Len(s) : g.next[s[i]] = h.next[s[i]] /\ g.prev[s[i]] = h.prev[s[i]]
    PROVE  Linked(g, l, s)
<1>1. s \in Seq(Nodes) /\ Len(s) \in Nat
  BY LenProperties DEF Linked
<1>2. ASSUME NEW i \in 1 .. (Len(s) - 1)
      PROVE  g.next[s[i]] = s[i + 1] /\ g.prev[s[i + 1]] = s[i]
  <2>1. i \in 1 .. Len(s) /\ i + 1 \in 1 .. Len(s)
    BY <1>1
  <2> QED BY <2>1 DEF Linked
<1>3. Len(s) > 0 => g.prev[s[1]] = NULL /\ g.next[s[Len(s)]] = NULL
  <2>1. Len(s) > 0 => 1 \in 1 .. Len(s) /\ Len(s) \in 1 .. Len(s)
    BY <1>1
  <2> QED BY <2>1 DEF Linked
<1> QED BY <1>1, <1>2, <1>3 DEF Linked

LEMMA AddLinked ==
    ASSUME NEW h \in Heap, NEW l \in Lists, NEW s, Linked(h, l, s),
           NEW n \in Nodes, \A i \in 1 .. Len(s) : s[i] # n
    PROVE  /\ HELP_DLLIST_ADD(h, l, n) \in Heap
           /\ Linked(HELP_DLLIST_ADD(h, l, n), l, Append(s, n))
           /\ \A m \in Lists : \A r :
                /\ m # l /\ Linked(h, m, r)
                /\ \A i \in 1 .. Len(r) : r[i] # n
                /\ \A i \in 1 .. Len(r), j \in 1 .. Len(s) : r[i] # s[j]
                => Linked(HELP_DLLIST_ADD(h, l, n), m, r)
<1> DEFINE g == HELP_DLLIST_ADD(h, l, n)
           a == Append(s, n)
<1>0. /\ s \in Seq(Nodes) /\ Len(s) \in Nat
      /\ \A i \in 1 .. Len(s) : s[i] \in Nodes /\ s[i] # NULL
  BY LenProperties, ElementOfSeq, NodesAssumption DEF Linked
<1>1. /\ Len(s) = 0 => h[l].end = NULL
      /\ Len(s) > 0 => h[l].end = s[Len(s)] /\ h[l].end # NULL
      /\ h[l].end # n
  <2>1. n # NULL
    BY NodesAssumption
  <2> QED BY <1>0, <2>1 DEF Linked
<1>2. /\ g \in Heap
      /\ g[l].end = n
      /\ h[l].end = NULL => g[l].start = n
      /\ h[l].end # NULL => g[l].start = h[l].start
      /\ \A m \in Lists : m # l => g[m] = h[m]
      /\ g.prev[n] = h[l].end /\ g.next[n] = NULL
      /\ h[l].end # NULL => g.next[h[l].end] = n
      /\ \A x \in Nodes : x # n => g.prev[x] = h.prev[x]
      /\ \A x \in Nodes : x # n /\ x # h[l].end => g.next[x] = h.next[x]
  <2> HIDE DEF g
  <2>1. g = HELP_DLLIST_ADD(h, l, n)
    BY DEF g
  <2> QED BY <1>1, <2>1, AddEffect
<1> HIDE DEF g
<1>3. /\ a \in Seq(Nodes) /\ Len(a) = Len(s) + 1 /\ a[Len(s) + 1] = n
      /\ \A i \in 1 .. Len(s) : a[i] = s[i]
  BY <1>0, AppendProperties
<1> HIDE DEF a
<1>4. Linked(g, l, a)
  <2>1. ASSUME NEW i \in 1 .. Len(a), NEW j \in 1 .. Len(a), a[i] = a[j] PROVE i = j
    BY <1>0, <1>3, <2>1 DEF Linked
  <2>2. g[l].start = a[1] /\ g.prev[a[1]] = NULL
    <3>1. CASE Len(s) = 0
      BY <1>1, <1>2, <1>3, <3>1
    <3>2. CASE Len(s) > 0
      <4>1. a[1] = s[1] /\ s[1] \in Nodes /\ s[1] # n
        BY <1>0, <1>3, <3>2
      <4> QED BY <1>1, <1>2, <3>2, <4>1 DEF Linked
    <3> QED BY <1>0, <3>1, <3>2
  <2>3. g[l].end = a[Len(a)] /\ g.next[a[Len(a)]] = NULL
    BY <1>2, <1>3
  <2>4. ASSUME NEW i \in 1 .. (Len(a) - 1)
        PROVE  g.next[a[i]] = a[i + 1] /\ g.prev[a[i + 1]] = a[i]
    <3>1. CASE i = Len(s)
      BY <1>0, <1>1, <1>2, <1>3, <3>1
    <3>2. CASE i < Len(s)
      <4>1. /\ a[i] = s[i] /\ a[i + 1] = s[i + 1] /\ i \in 1 .. (Len(s) - 1)
            /\ i \in 1 .. Len(s) /\ i + 1 \in 1 .. Len(s) /\ Len(s) \in 1 .. Len(s)
        BY <1>0, <1>3, <3>2
      <4>2. s[i] # s[Len(s)]
        BY <3>2, <4>1 DEF Linked
      <4>3. h.next[s[i]] = s[i + 1] /\ h.prev[s[i + 1]] = s[i]
        BY <4>1 DEF Linked
      <4> QED BY <1>0, <1>1, <1>2, <4>1, <4>2, <4>3
    <3> QED BY <1>0, <1>3, <3>1, <3>2
  <2>5. Len(a) # 0
    BY <1>0, <1>3
  <2> QED BY <1>3, <2>1, <2>2, <2>3, <2>4, <2>5 DEF Linked
<1>5. ASSUME NEW m \in Lists, NEW r, m # l, Linked(h, m, r),
             \A i \in 1 .. Len(r) : r[i] # n,
             \A i \in 1 .. Len(r), j \in 1 .. Len(s) : r[i] # s[j]
      PROVE  Linked(g, m, r)
  <2>1. \A i \in 1 .. Len(r) : r[i] \in Nodes
    BY <1>5, ElementOfSeq DEF Linked
  <2>2. \A i \in 1 .. Len(r) : r[i] # h[l].end
    <3>1. CASE Len(s) = 0
      BY <1>1, <2>1, <3>1, NodesAssumption
    <3>2. CASE Len(s) > 0
      BY <1>0, <1>1, <1>5, <3>2
    <3> QED BY <1>0, <3>1, <3>2
  <2> QED BY <1>2, <1>5, <2>1, <2>2, StillLinked
<1> QED BY <1>2, <1>4, <1>5 DEF g, a

\* The walk finds a node of the list, and nothing else.
LEMMA FindFinds ==
    ASSUME NEW h, NEW l, NEW s, Linked(h, l, s), NEW k \in 1 .. Len(s)
    PROVE  HELP_DLLIST_FIND(h, l, s[k]) = s[k] /\ s[k] \in Nodes /\ s[k] # NULL
<1>1. Walk(h, l) = s /\ DOMAIN s = 1 .. Len(s)
  <2>1. Walk(h, l) = s
    BY WalkFinds
  <2>2. s \in Seq(Nodes)
    BY DEF Linked
  <2> QED BY <2>1, <2>2, LenProperties
<1>2. s[k] \in Nodes
  BY ElementOfSeq DEF Linked
<1> QED BY <1>1, <1>2, NodesAssumption DEF HELP_DLLIST_FIND

LEMMA RemoveEffect ==
    ASSUME NEW h \in Heap, NEW l \in Lists, NEW n \in Nodes,
           HELP_DLLIST_FIND(h, l, n) = n,
           NEW g, g = HELP_DLLIST_REMOVE(h, l, n)
    PROVE  /\ g \in Heap
           /\ h[l].start = n => g[l].start = NULL
           /\ h[l].start # n => g[l].start = h[l].start
           /\ h[l].end = n => g[l].end = h.prev[n]
           /\ h[l].end # n => g[l].end = h[l].end
           /\ \A m \in Lists : m # l => g[m] = h[m]
           /\ h.prev[n] # NULL => g.next = [h.next EXCEPT ![h.prev[n]] = h.next[n]]
           /\ h.prev[n] = NULL => g.next = h.next
           /\ h.next[n] # NULL => g.prev = [h.prev EXCEPT ![h.next[n]] = h.prev[n]]
           /\ h.next[n] = NULL => g.prev = h.prev
<1> DEFINE before == h.prev[n]
           after == h.next[n]
<1>0. before \in Nodes \cup {NULL} /\ after \in Nodes \cup {NULL} /\ n # NULL
  BY NodesAssumption DEF Heap
<1>1. g = [h EXCEPT ![l] = [start |-> IF @.start = n THEN NULL ELSE @.start,
                            end |-> IF @.end = n THEN before ELSE @.end],
                    !.next = IF before = NULL THEN @ ELSE [@ EXCEPT ![before] = after],
                    !.prev = IF after = NULL THEN @ ELSE [@ EXCEPT ![after] = before]]
  BY <1>0 DEF HELP_DLLIST_REMOVE
<1> HIDE DEF before, after
<1> DEFINE next == IF before = NULL THEN h.next ELSE [h.next EXCEPT ![before] = after]
           prev == IF after = NULL THEN h.prev ELSE [h.prev EXCEPT ![after] = before]
<1>2. /\ next \in [Nodes -> Nodes \cup {NULL}] /\ prev \in [Nodes -> Nodes \cup {NULL}]
      /\ before # NULL => next = [h.next EXCEPT ![before] = after]
      /\ before = NULL => next = h.next
      /\ after # NULL => prev = [h.prev EXCEPT ![after] = before]
      /\ after = NULL => prev = h.prev
  BY <1>0 DEF Heap
<1>3. CASE l = "threads"
  <2>1. h.threads \in Ends /\ h["threads"] = h.threads
    BY DEF Heap
  <2>2. g = [threads |-> [start |-> IF h.threads.start = n THEN NULL ELSE h.threads.start,
                          end |-> IF h.threads.end = n THEN before ELSE h.threads.end],
             processes |-> h.processes, next |-> next, prev |-> prev]
    BY <1>1, <1>3, <2>1 DEF Heap
  <2> HIDE DEF next, prev
  <2>3. /\ g.next = next /\ g.prev = prev /\ g["processes"] = h["processes"]
        /\ g["threads"] = [start |-> IF h.threads.start = n THEN NULL ELSE h.threads.start,
                           end |-> IF h.threads.end = n THEN before ELSE h.threads.end]
    BY <2>2 DEF Heap
  <2>4. g \in Heap
    BY <1>0, <1>2, <2>1, <2>2 DEF Heap, Ends
  <2>5. \A m \in Lists : m # l => m = "processes"
    BY <1>3 DEF Lists
  <2> QED BY <1>2, <1>3, <2>1, <2>3, <2>4, <2>5 DEF before, after
<1>4. CASE l = "processes"
  <2>1. h.processes \in Ends /\ h["processes"] = h.processes
    BY DEF Heap
  <2>2. g = [threads |-> h.threads,
             processes |-> [start |-> IF h.processes.start = n THEN NULL
                                      ELSE h.processes.start,
                            end |-> IF h.processes.end = n THEN before
                                    ELSE h.processes.end],
             next |-> next, prev |-> prev]
    BY <1>1, <1>4, <2>1 DEF Heap
  <2> HIDE DEF next, prev
  <2>3. /\ g.next = next /\ g.prev = prev /\ g["threads"] = h["threads"]
        /\ g["processes"] = [start |-> IF h.processes.start = n THEN NULL
                                       ELSE h.processes.start,
                             end |-> IF h.processes.end = n THEN before
                                     ELSE h.processes.end]
    BY <2>2 DEF Heap
  <2>4. g \in Heap
    BY <1>0, <1>2, <2>1, <2>2 DEF Heap, Ends
  <2>5. \A m \in Lists : m # l => m = "threads"
    BY <1>4 DEF Lists
  <2> QED BY <1>2, <1>4, <2>1, <2>3, <2>4, <2>5 DEF before, after
<1> QED BY <1>3, <1>4 DEF Lists

LEMMA Shorter ==
    ASSUME NEW s \in Seq(Nodes), NEW k \in 1 .. Len(s)
    PROVE  /\ RemoveAt(s, k) \in Seq(Nodes) /\ Len(RemoveAt(s, k)) = Len(s) - 1
           /\ \A i \in 1 .. (k - 1) : RemoveAt(s, k)[i] = s[i]
           /\ \A i \in k .. (Len(s) - 1) : RemoveAt(s, k)[i] = s[i + 1]
<1> DEFINE low == SubSeq(s, 1, k - 1)
           high == SubSeq(s, k + 1, Len(s))
<1>1. Len(s) \in Nat /\ \A i \in 1 .. Len(s) : s[i] \in Nodes
  BY LenProperties, ElementOfSeq
<1>2. low \in Seq(Nodes) /\ Len(low) = k - 1 /\ \A i \in 1 .. (k - 1) : low[i] = s[i]
  <2>1. \A i \in 1 .. (k - 1) : s[i] \in Nodes
    BY <1>1
  <2>2. k - 1 \in Int /\ (k - 1) - 1 + 1 = k - 1 /\ (1 <= k - 1 \/ k - 1 = 0)
    BY <1>1
  <2>3. /\ low \in Seq(Nodes) /\ Len(low) = IF 1 <= k - 1 THEN (k - 1) - 1 + 1 ELSE 0
        /\ \A i \in 1 .. ((k - 1) - 1 + 1) : low[i] = s[1 + i - 1]
    BY <2>1, <2>2, SubSeqProperties
  <2>4. \A i \in 1 .. (k - 1) : 1 + i - 1 = i
    OBVIOUS
  <2> HIDE DEF low
  <2> QED BY <2>2, <2>3, <2>4
<1>3. /\ high \in Seq(Nodes) /\ Len(high) = Len(s) - k
      /\ \A i \in 1 .. (Len(s) - k) : high[i] = s[k + i]
  <2>1. \A i \in (k + 1) .. Len(s) : s[i] \in Nodes
    BY <1>1
  <2>2. k + 1 \in Int /\ Len(s) - (k + 1) + 1 = Len(s) - k
    BY <1>1
  <2>3. /\ high \in Seq(Nodes)
        /\ Len(high) = IF k + 1 <= Len(s) THEN Len(s) - (k + 1) + 1 ELSE 0
        /\ \A i \in 1 .. (Len(s) - (k + 1) + 1) : high[i] = s[(k + 1) + i - 1]
    BY <1>1, <2>1, <2>2, SubSeqProperties
  <2> HIDE DEF high
  <2>4. Len(high) = Len(s) - k
    <3>1. CASE k + 1 <= Len(s)
      BY <2>2, <2>3, <3>1
    <3>2. CASE ~(k + 1 <= Len(s))
      <4>1. Len(high) = 0
        BY <2>3, <3>2
      <4>2. Len(s) - k = 0
        BY <1>1, <3>2
      <4> QED BY <4>1, <4>2
    <3> QED BY <3>1, <3>2
  <2>5. ASSUME NEW i \in 1 .. (Len(s) - k) PROVE high[i] = s[k + i]
    <3>1. (k + 1) + i - 1 = k + i
      BY <1>1
    <3> QED BY <2>2, <2>3, <3>1
  <2> QED BY <2>3, <2>4, <2>5
<1>4. RemoveAt(s, k) = low \o high
  BY DEF RemoveAt
<1> HIDE DEF low, high
<1>5. /\ low \o high \in Seq(Nodes) /\ Len(low \o high) = Len(low) + Len(high)
      /\ \A i \in 1 .. Len(low) + Len(high) :
           (low \o high)[i] = IF i <= Len(low) THEN low[i] ELSE high[i - Len(low)]
  BY <1>2, <1>3, ConcatProperties
<1>6. Len(low) + Len(high) = Len(s) - 1
  BY <1>1, <1>2, <1>3
<1>7. ASSUME NEW i \in 1 .. (k - 1) PROVE (low \o high)[i] = s[i]
  BY <1>1, <1>2, <1>5, <1>6, <1>7
<1>8. ASSUME NEW i \in k .. (Len(s) - 1) PROVE (low \o high)[i] = s[i + 1]
  <2>1. /\ i - (k - 1) \in 1 .. (Len(s) - k) /\ k + (i - (k - 1)) = i + 1
        /\ i \in 1 .. (Len(s) - 1) /\ ~(i <= k - 1)
    BY <1>1
  <2>2. (low \o high)[i] = high[i - (k - 1)]
    BY <1>2, <1>5, <1>6, <2>1
  <2> QED BY <1>3, <2>1, <2>2
<1> QED BY <1>4, <1>5, <1>6, <1>7, <1>8

\* A node that is not the first of several is taken out, and nothing else.
LEMMA RemoveLinked ==
    ASSUME NEW h \in Heap, NEW l \in Lists, NEW s, Linked(h, l, s),
           NEW k \in 1 .. Len(s), Len(s) > 1 => k # 1
    PROVE  /\ HELP_DLLIST_REMOVE(h, l, s[k]) \in Heap
           /\ Linked(HELP_DLLIST_REMOVE(h, l, s[k]), l, RemoveAt(s, k))
           /\ \A m \in Lists : \A r :
                /\ m # l /\ Linked(h, m, r)
                /\ \A i \in 1 .. Len(r), j \in 1 .. Len(s) : r[i] # s[j]
                => Linked(HELP_DLLIST_REMOVE(h, l, s[k]), m, r)
<1> DEFINE n == s[k]
           g == HELP_DLLIST_REMOVE(h, l, n)
           a == RemoveAt(s, k)
<1>0. /\ s \in Seq(Nodes) /\ Len(s) \in Nat
      /\ \A i \in 1 .. Len(s) : s[i] \in Nodes /\ s[i] # NULL
      /\ \A i, j \in 1 .. Len(s) : s[i] = s[j] => i = j
  BY LenProperties, ElementOfSeq, NodesAssumption DEF Linked
<1>1. HELP_DLLIST_FIND(h, l, n) = n /\ n \in Nodes
  BY FindFinds
<1>2. /\ k = 1 => h.prev[n] = NULL
      /\ k > 1 => h.prev[n] = s[k - 1] /\ k - 1 \in 1 .. Len(s)
      /\ k = Len(s) => h.next[n] = NULL
      /\ k < Len(s) => h.next[n] = s[k + 1] /\ k + 1 \in 1 .. Len(s)
  <2>1. k > 1 => /\ k - 1 \in 1 .. (Len(s) - 1) /\ (k - 1) + 1 = k
                 /\ k - 1 \in 1 .. Len(s)
    BY <1>0
  <2>2. k < Len(s) => k \in 1 .. (Len(s) - 1) /\ k + 1 \in 1 .. Len(s)
    BY <1>0
  <2>3. k > 1 => h.prev[s[k]] = s[k - 1]
    BY <2>1 DEF Linked
  <2>4. k < Len(s) => h.next[s[k]] = s[k + 1]
    BY <2>2 DEF Linked
  <2>5. Len(s) > 0
    BY <1>0
  <2> QED BY <2>1, <2>2, <2>3, <2>4, <2>5 DEF Linked
<1>3. /\ h[l].start = s[1] /\ h[l].end = s[Len(s)]
      /\ h[l].start = n <=> k = 1
      /\ h[l].end = n <=> k = Len(s)
  <2>1. Len(s) > 0 /\ 1 \in 1 .. Len(s) /\ Len(s) \in 1 .. Len(s)
    BY <1>0
  <2> QED BY <1>0, <2>1 DEF Linked
<1>4. /\ g \in Heap
      /\ h[l].start = n => g[l].start = NULL
      /\ h[l].start # n => g[l].start = h[l].start
      /\ h[l].end = n => g[l].end = h.prev[n]
      /\ h[l].end # n => g[l].end = h[l].end
      /\ \A m \in Lists : m # l => g[m] = h[m]
      /\ h.prev[n] # NULL => g.next = [h.next EXCEPT ![h.prev[n]] = h.next[n]]
      /\ h.prev[n] = NULL => g.next = h.next
      /\ h.next[n] # NULL => g.prev = [h.prev EXCEPT ![h.next[n]] = h.prev[n]]
      /\ h.next[n] = NULL => g.prev = h.prev
  <2> HIDE DEF n
  <2> QED BY <1>1, RemoveEffect
<1> HIDE DEF g
<1>5. /\ a \in Seq(Nodes) /\ Len(a) = Len(s) - 1
      /\ \A i \in 1 .. (k - 1) : a[i] = s[i]
      /\ \A i \in k .. (Len(s) - 1) : a[i] = s[i + 1]
  BY <1>0, Shorter
<1> HIDE DEF a
<1>6. /\ \A x \in Nodes : (k > 1 => x # s[k - 1]) => g.next[x] = h.next[x]
      /\ \A x \in Nodes : (k < Len(s) => x # s[k + 1]) => g.prev[x] = h.prev[x]
      /\ k > 1 => g.next[s[k - 1]] = h.next[n]
      /\ k < Len(s) => g.prev[s[k + 1]] = h.prev[n]
  <2>1. h.next \in [Nodes -> Nodes \cup {NULL}] /\ h.prev \in [Nodes -> Nodes \cup {NULL}]
    BY DEF Heap
  <2> HIDE DEF n
  <2>2. CASE k > 1
    <3>1. h.prev[n] = s[k - 1] /\ s[k - 1] # NULL /\ s[k - 1] \in Nodes
      BY <1>0, <1>2, <2>2
    <3>2. g.next = [h.next EXCEPT ![s[k - 1]] = h.next[n]]
      BY <1>4, <3>1
    <3> QED BY <1>0, <1>2, <1>4, <2>1, <2>2, <3>1, <3>2
  <2>3. CASE ~(k > 1)
    <3>1. h.prev[n] = NULL /\ g.next = h.next
      BY <1>0, <1>2, <1>4, <2>3
    <3> QED BY <1>0, <1>2, <1>4, <2>1, <2>3, <3>1
  <2> QED BY <2>2, <2>3
<1>7. Linked(g, l, a)
  <2>1. ASSUME NEW i \in 1 .. Len(a)
        PROVE  \/ i < k /\ a[i] = s[i] /\ i \in 1 .. Len(s)
               \/ i >= k /\ a[i] = s[i + 1] /\ i + 1 \in 1 .. Len(s)
    <3>1. CASE i < k
      <4>1. i \in 1 .. (k - 1) /\ i \in 1 .. Len(s)
        BY <1>0, <1>5, <3>1
      <4> QED BY <1>5, <3>1, <4>1
    <3>2. CASE i >= k
      <4>1. i \in k .. (Len(s) - 1) /\ i + 1 \in 1 .. Len(s)
        BY <1>0, <1>5, <3>2
      <4> QED BY <1>5, <3>2, <4>1
    <3> QED BY <1>0, <1>5, <3>1, <3>2
  <2>2. ASSUME NEW i \in 1 .. Len(a), NEW j \in 1 .. Len(a), a[i] = a[j] PROVE i = j
    <3> DEFINE from(x) == IF x < k THEN x ELSE x + 1
    <3>1. /\ from(i) \in 1 .. Len(s) /\ a[i] = s[from(i)]
          /\ from(j) \in 1 .. Len(s) /\ a[j] = s[from(j)]
      BY <2>1
    <3>2. from(i) = from(j)
      <4> HIDE DEF from
      <4> QED BY <1>0, <2>2, <3>1
    <3> QED BY <3>2
  <2>3. CASE ~(Len(s) > 1)
    <3>1. k = 1 /\ k = Len(s) /\ Len(a) = 0
      BY <1>0, <1>5, <2>3
    <3>2. g[l].start = NULL /\ g[l].end = NULL
      BY <1>2, <1>3, <1>4, <3>1
    <3> QED BY <1>5, <3>1, <3>2 DEF Linked
  <2>4. CASE Len(s) > 1
    <3>1. k > 1 /\ Len(a) > 0 /\ Len(a) \in Nat
      BY <1>0, <1>5, <2>4
    <3>2. g[l].start = a[1] /\ g.prev[a[1]] = NULL
      <4>1. a[1] = s[1] /\ 1 \in 1 .. Len(s)
        BY <1>0, <1>5, <3>1
      <4>2. k < Len(s) => s[1] # s[k + 1]
        BY <1>0, <1>2, <3>1
      <4>3. g[l].start = s[1] /\ h.prev[s[1]] = NULL
        BY <1>0, <1>3, <1>4, <3>1 DEF Linked
      <4> QED BY <1>0, <1>6, <4>1, <4>2, <4>3
    <3>3. g[l].end = a[Len(a)] /\ g.next[a[Len(a)]] = NULL
      <4>1. CASE k = Len(s)
        <5>1. a[Len(a)] = s[k - 1]
          BY <1>0, <1>5, <3>1, <4>1
        <5> QED BY <1>2, <1>3, <1>4, <1>6, <3>1, <4>1, <5>1
      <4>2. CASE k < Len(s)
        <5>1. Len(a) \in k .. (Len(s) - 1) /\ Len(a) + 1 = Len(s) /\ Len(s) \in 1 .. Len(s)
          BY <1>0, <1>5, <4>2
        <5>2. a[Len(a)] = s[Len(s)]
          BY <1>5, <5>1
        <5>3. s[Len(s)] # s[k - 1]
          BY <1>0, <1>2, <3>1, <4>2, <5>1
        <5>4. h.next[s[Len(s)]] = NULL
          BY <1>0, <2>4 DEF Linked
        <5> QED BY <1>0, <1>3, <1>4, <1>6, <4>2, <5>1, <5>2, <5>3, <5>4
      <4> QED BY <1>0, <4>1, <4>2
    <3>4. ASSUME NEW i \in 1 .. (Len(a) - 1)
          PROVE  g.next[a[i]] = a[i + 1] /\ g.prev[a[i + 1]] = a[i]
      <4>0. i \in Nat /\ i >= 1 /\ i + 1 <= Len(s) - 1
        BY <1>0, <1>5
      <4>1. CASE i + 1 < k
        <5>1. /\ a[i] = s[i] /\ a[i + 1] = s[i + 1] /\ i \in 1 .. (Len(s) - 1)
              /\ i \in 1 .. Len(s) /\ i + 1 \in 1 .. Len(s)
          BY <1>0, <1>5, <4>0, <4>1
        <5>2. s[i] # s[k - 1] /\ (k < Len(s) => s[i + 1] # s[k + 1])
          BY <1>0, <1>2, <3>1, <4>0, <4>1, <5>1
        <5>3. h.next[s[i]] = s[i + 1] /\ h.prev[s[i + 1]] = s[i]
          BY <5>1 DEF Linked
        <5> QED BY <1>0, <1>6, <5>1, <5>2, <5>3
      <4>2. CASE i + 1 = k
        <5>1. i = k - 1 /\ a[i] = s[k - 1] /\ a[i + 1] = s[k + 1] /\ k < Len(s)
          <6>1. /\ i = k - 1 /\ k < Len(s) /\ i \in 1 .. (k - 1)
                /\ i + 1 \in k .. (Len(s) - 1) /\ (i + 1) + 1 = k + 1
            BY <1>0, <4>0, <4>2
          <6>2. a[i] = s[i] /\ a[i + 1] = s[(i + 1) + 1]
            BY <1>5, <6>1
          <6> QED BY <6>1, <6>2
        <5>2. h.next[n] = s[k + 1] /\ h.prev[n] = s[k - 1]
          BY <1>2, <3>1, <5>1
        <5> HIDE DEF n
        <5> QED BY <1>6, <3>1, <5>1, <5>2
      <4>3. CASE i + 1 > k
        <5>1. /\ a[i] = s[i + 1] /\ a[i + 1] = s[(i + 1) + 1]
              /\ i + 1 \in 1 .. (Len(s) - 1)
              /\ i + 1 \in 1 .. Len(s) /\ (i + 1) + 1 \in 1 .. Len(s)
          <6>1. /\ i \in k .. (Len(s) - 1) /\ i + 1 \in k .. (Len(s) - 1)
                /\ i + 1 \in 1 .. (Len(s) - 1)
                /\ i + 1 \in 1 .. Len(s) /\ (i + 1) + 1 \in 1 .. Len(s)
            BY <1>0, <4>0, <4>3
          <6> QED BY <1>5, <6>1
        <5>2. s[i + 1] # s[k - 1] /\ (k < Len(s) => s[(i + 1) + 1] # s[k + 1])
          <6>1. i + 1 # k - 1 /\ (i + 1) + 1 # k + 1 /\ k - 1 \in 1 .. Len(s)
            BY <1>0, <3>1, <4>0, <4>3
          <6>2. k < Len(s) => k + 1 \in 1 .. Len(s)
            BY <1>0
          <6> QED BY <1>0, <5>1, <6>1, <6>2
        <5>3. h.next[s[i + 1]] = s[(i + 1) + 1] /\ h.prev[s[(i + 1) + 1]] = s[i + 1]
          BY <5>1 DEF Linked
        <5> QED BY <1>0, <1>6, <5>1, <5>2, <5>3
      <4> QED BY <1>0, <4>0, <4>1, <4>2, <4>3
    <3> QED BY <1>5, <2>2, <3>1, <3>2, <3>3, <3>4 DEF Linked
  <2> QED BY <2>3, <2>4
<1>8. ASSUME NEW m \in Lists, NEW r, m # l, Linked(h, m, r),
             \A i \in 1 .. Len(r), j \in 1 .. Len(s) : r[i] # s[j]
      PROVE  Linked(g, m, r)
  <2>1. \A i \in 1 .. Len(r) : r[i] \in Nodes
    BY <1>8, ElementOfSeq DEF Linked
  <2>2. \A i \in 1 .. Len(r) : /\ k > 1 => r[i] # s[k - 1]
                               /\ k < Len(s) => r[i] # s[k + 1]
    BY <1>2, <1>8
  <2>3. g[m] = h[m]
    BY <1>4, <1>8
  <2> QED BY <1>6, <1>8, <2>1, <2>2, <2>3, StillLinked
<1> QED BY <1>4, <1>7, <1>8 DEF g, a

\* Nor does clearing an area that is on no list.
LEMMA ClearedLinked ==
    ASSUME NEW h \in Heap, NEW n \in Nodes
    PROVE  /\ Cleared(h, n) \in Heap
           /\ \A l \in Lists : \A s :
                /\ Linked(h, l, s)
                /\ \A i \in 1 .. Len(s) : s[i] # n
                => Linked(Cleared(h, n), l, s)
<1> DEFINE g == Cleared(h, n)
<1>1. /\ g = [threads |-> h.threads, processes |-> h.processes,
              next |-> [h.next EXCEPT ![n] = NULL], prev |-> [h.prev EXCEPT ![n] = NULL]]
      /\ h.next \in [Nodes -> Nodes \cup {NULL}] /\ h.prev \in [Nodes -> Nodes \cup {NULL}]
      /\ h.threads \in Ends /\ h.processes \in Ends
  <2>1. /\ h = [threads |-> h.threads, processes |-> h.processes,
                next |-> h.next, prev |-> h.prev]
        /\ h.next \in [Nodes -> Nodes \cup {NULL}]
        /\ h.prev \in [Nodes -> Nodes \cup {NULL}]
        /\ h.threads \in Ends /\ h.processes \in Ends
    BY DEF Heap
  <2>2. g = [h EXCEPT !.next = [@ EXCEPT ![n] = NULL], !.prev = [@ EXCEPT ![n] = NULL]]
    BY DEF Cleared
  <2> QED BY <2>1, <2>2
<1> HIDE DEF g
<1>2. /\ g \in Heap /\ g["threads"] = h["threads"] /\ g["processes"] = h["processes"]
      /\ \A x \in Nodes : x # n => g.next[x] = h.next[x] /\ g.prev[x] = h.prev[x]
  BY <1>1 DEF Heap
<1>3. ASSUME NEW l \in Lists, NEW s, Linked(h, l, s), \A i \in 1 .. Len(s) : s[i] # n
      PROVE  Linked(g, l, s)
  <2>1. \A i \in 1 .. Len(s) : s[i] \in Nodes
    BY <1>3, ElementOfSeq DEF Linked
  <2>2. g[l] = h[l]
    BY <1>2 DEF Lists
  <2> QED BY <1>2, <1>3, <2>1, <2>2, StillLinked
<1> QED BY <1>2, <1>3 DEF g
-----------------------------------------------------------------------------
(* The invariant.                                                          *)

Line == Walk(heap, "threads")
Queue == Walk(heap, "processes")

\* Where a thread that is alive is not on the list.
Unlined == Uncounted \cup {"fill", "lock add", "add", "discount"}

\* A thread that nobody is about to make or take apart at one of "places".
Out(t, places) == <<"thread", t>> \in allocated /\ ~At(t, places)

Lined == {t \in ThreadAreas : Out(t, Unlined)}
Existing == {p \in ProcessAreas : <<"process", p>> \in allocated}

Members(s) == {s[i] : i \in 1 .. Len(s)}

Chained == /\ heap \in Heap
           /\ Linked(heap, "threads", Line) /\ Members(Line) = Lined
           /\ Linked(heap, "processes", Queue) /\ Members(Queue) = Existing

Filled == /\ Lined \subseteq filled
          /\ \A c \in CPUs : pc[c] \in {"lock add", "add"} => thread[c] \in filled

NotFirst(s, n) == Len(s) > 1 => s[1] # n

\* A call that was Orderly when it took the lock is so until it takes thread and
\* process out of the lists.
InOrder(c) ==
    /\ pc[c] = "unlink" => NotFirst(Line, thread[c])
    /\ pc[c] \in {"unlink", "discount"} =>
         (count[parent[thread[c]]] = 1 => NotFirst(Queue, parent[thread[c]]))
    /\ pc[c] = "drop" =>
         (count[parent[thread[c]]] = 0 => NotFirst(Queue, parent[thread[c]]))

ListsInv == AreasInv /\ Chained /\ Filled /\ \A c \in CPUs : InOrder(c)

LEMMA AliveIsOut == Alive = {t \in ThreadAreas : Out(t, Uncounted)}
BY DEF Alive, Out

\* From the nodes the heap has now to the invariant.
LEMMA ChainedNow ==
    ASSUME NEW s, NEW r, heap' \in Heap,
           Linked(heap', "threads", s), Members(s) = Lined',
           Linked(heap', "processes", r), Members(r) = Existing'
    PROVE  Chained' /\ Line' = s /\ Queue' = r
<1>1. Walk(heap', "threads") = s /\ Walk(heap', "processes") = r
  BY WalkFinds
<1>2. Line' = s /\ Queue' = r
  BY <1>1 DEF Line, Queue
<1>3. /\ Linked(heap, "threads", Line)' <=> Linked(heap', "threads", Line')
      /\ Linked(heap, "processes", Queue)' <=> Linked(heap', "processes", Queue')
  BY DEF Linked
<1>4. Members(Line)' = Members(Line') /\ Members(Queue)' = Members(Queue')
  BY DEF Members
<1>5. (heap \in Heap)' <=> heap' \in Heap
  BY DEF Heap, Ends
<1> QED BY <1>2, <1>3, <1>4, <1>5 DEF Chained

\* What a step of processor c leaves alone.
Alone(c) ==
    /\ \A d \in CPUs : d # c => pc'[d] = pc[d] /\ thread'[d] = thread[d]
    /\ \A t \in ThreadAreas : t \notin {thread[c], thread'[c]} =>
         (<<"thread", t>> \in allocated' <=> <<"thread", t>> \in allocated)

LEMMA OutStep ==
    ASSUME AreasInv, AreasInv', NEW c \in CPUs, Alone(c), NEW t \in ThreadAreas, NEW S,
           NEW now, now <=> <<"thread", t>> \in allocated' /\
                              ~(\E d \in CPUs : thread'[d] = t /\ pc'[d] \in S)
    PROVE  /\ t \notin {thread[c], thread'[c]} => (now <=> Out(t, S))
           /\ t = thread[c] => (Out(t, S) <=> pc[c] \notin S)
           /\ t = thread'[c] => (now <=> pc'[c] \notin S)
           /\ t = thread[c] /\ t # thread'[c] => (now <=> <<"thread", t>> \in allocated')
           /\ t = thread'[c] /\ t # thread[c] =>
                (Out(t, S) <=> <<"thread", t>> \in allocated)
<1>0. Held /\ Held'
  BY DEF AreasInv
<1>1. /\ \A d \in CPUs : d # c => pc'[d] = pc[d] /\ thread'[d] = thread[d]
      /\ t # NULL
  BY NodesAssumption, AreasAssumption DEF Alone
<1>2. ASSUME NEW d \in CPUs PROVE t = thread[c] /\ thread[d] = t => d = c
  BY <1>0, <1>1 DEF Held
<1>3. ASSUME NEW d \in CPUs PROVE t = thread'[c] /\ thread'[d] = t => d = c
  BY <1>0, <1>1 DEF Held
<1>4. t = thread[c] => <<"thread", t>> \in allocated
  BY <1>0, <1>1 DEF Held
<1>5. t = thread'[c] => <<"thread", t>> \in allocated'
  BY <1>0, <1>1 DEF Held
<1>6. t \notin {thread[c], thread'[c]} =>
        (<<"thread", t>> \in allocated' <=> <<"thread", t>> \in allocated)
  BY DEF Alone
<1> QED BY <1>1, <1>2, <1>3, <1>4, <1>5, <1>6 DEF Out, At

\* A step that neither lines up a thread nor takes one out.
Same(c, S) ==
    /\ thread[c] # NULL /\ thread'[c] = thread[c] => (pc'[c] \in S <=> pc[c] \in S)
    /\ thread[c] # NULL /\ thread'[c] # thread[c] =>
         (<<"thread", thread[c]>> \in allocated' <=> pc[c] \notin S)
    /\ thread'[c] # NULL /\ thread'[c] # thread[c] =>
         (<<"thread", thread'[c]>> \in allocated <=> pc'[c] \notin S)

LEMMA LinedStep ==
    ASSUME AreasInv, AreasInv', NEW c \in CPUs, Alone(c)
    PROVE  /\ Same(c, Unlined) => Lined' = Lined
           /\ Same(c, Uncounted) => Alive' = Alive
           /\ \A t \in ThreadAreas : t \notin {thread[c], thread'[c]} =>
                (t \in Lined' <=> t \in Lined) /\ (t \in Alive' <=> t \in Alive)
           /\ thread[c] # NULL => /\ thread[c] \in Lined <=> pc[c] \notin Unlined
                                  /\ thread[c] \in Alive <=> pc[c] \notin Uncounted
           /\ thread'[c] # NULL => /\ thread'[c] \in Lined' <=> pc'[c] \notin Unlined
                                   /\ thread'[c] \in Alive' <=> pc'[c] \notin Uncounted
<1> DEFINE Now(t, S) == /\ <<"thread", t>> \in allocated'
                        /\ ~(\E d \in CPUs : thread'[d] = t /\ pc'[d] \in S)
<1>1. /\ Lined' = {t \in ThreadAreas : Now(t, Unlined)}
      /\ Alive' = {t \in ThreadAreas : Now(t, Uncounted)}
  BY DEF Lined, Alive, Out, At, Unlined, Uncounted
<1>2. /\ Lined = {t \in ThreadAreas : Out(t, Unlined)}
      /\ Alive = {t \in ThreadAreas : Out(t, Uncounted)}
  BY AliveIsOut DEF Lined
<1>3. ASSUME NEW t \in ThreadAreas, NEW S
      PROVE  /\ t \notin {thread[c], thread'[c]} => (Now(t, S) <=> Out(t, S))
             /\ t = thread[c] => (Out(t, S) <=> pc[c] \notin S)
             /\ t = thread'[c] => (Now(t, S) <=> pc'[c] \notin S)
             /\ t = thread[c] /\ t # thread'[c] =>
                  (Now(t, S) <=> <<"thread", t>> \in allocated')
             /\ t = thread'[c] /\ t # thread[c] =>
                  (Out(t, S) <=> <<"thread", t>> \in allocated)
  BY OutStep
<1> HIDE DEF Now
<1>4. ASSUME NEW t \in ThreadAreas, NEW S, Same(c, S) PROVE Now(t, S) <=> Out(t, S)
  <2>1. t # NULL
    BY NodesAssumption, AreasAssumption
  <2>2. CASE t \notin {thread[c], thread'[c]}
    BY <1>3, <2>2
  <2>3. CASE t = thread[c] /\ t = thread'[c]
    <3>1. pc'[c] \in S <=> pc[c] \in S
      BY <1>4, <2>1, <2>3 DEF Same
    <3> QED BY <1>3, <2>3, <3>1
  <2>4. CASE t = thread[c] /\ t # thread'[c]
    <3>1. <<"thread", t>> \in allocated' <=> pc[c] \notin S
      BY <1>4, <2>1, <2>4 DEF Same
    <3> QED BY <1>3, <2>4, <3>1
  <2>5. CASE t # thread[c] /\ t = thread'[c]
    <3>1. <<"thread", t>> \in allocated <=> pc'[c] \notin S
      BY <1>4, <2>1, <2>5 DEF Same
    <3> QED BY <1>3, <2>5, <3>1
  <2> QED BY <2>2, <2>3, <2>4, <2>5
<1>5. /\ thread[c] \in ThreadAreas \cup {NULL}
      /\ thread'[c] \in ThreadAreas \cup {NULL}
  BY DEF AreasInv, Typed
<1>6. /\ Same(c, Unlined) => Lined' = Lined
      /\ Same(c, Uncounted) => Alive' = Alive
  BY <1>1, <1>2, <1>4
<1> QED BY <1>1, <1>2, <1>3, <1>5, <1>6

-----------------------------------------------------------------------------
(* Steps that leave the lists alone.                                       *)

Quiet(c) ==
    /\ Alone(c) /\ heap' = heap
    /\ Same(c, Unlined)
    /\ \A p : <<"process", p>> \in allocated' <=> <<"process", p>> \in allocated
    /\ filled \subseteq filled'
    /\ pc'[c] \in {"lock add", "add"} => thread'[c] \in filled'
    /\ pc[c] \in Critical \/ pc'[c] \in Critical \/ UNCHANGED <<count, parent>>

LEMMA FilledGrows ==
    ASSUME Filled, NEW c \in CPUs, Alone(c),
           filled \subseteq filled', Lined' \subseteq filled',
           pc'[c] \in {"lock add", "add"} => thread'[c] \in filled'
    PROVE  Filled'
<1>1. ASSUME NEW d \in CPUs, pc'[d] \in {"lock add", "add"} PROVE thread'[d] \in filled'
  <2>1. CASE d = c
    BY <1>1, <2>1
  <2>2. CASE d # c
    BY <1>1, <2>2 DEF Filled, Alone
  <2> QED BY <2>1, <2>2
<1> QED BY <1>1 DEF Filled

\* While a processor is between lock and unlock the others keep its promises.
LEMMA OthersInOrder ==
    ASSUME ListsInv, AreasInv', NEW c \in CPUs, Alone(c), NEW d \in CPUs, d # c,
           \/ pc[c] \in Critical \/ pc'[c] \in Critical
           \/ /\ Line' = Line /\ Queue' = Queue /\ count' = count
              /\ \A t \in ThreadAreas : t # thread[c] => parent'[t] = parent[t]
    PROVE  InOrder(d)'
<1>1. pc'[d] = pc[d] /\ thread'[d] = thread[d]
  BY DEF Alone
<1>2. CASE pc[d] \notin {"unlink", "discount", "drop"}
  BY <1>1, <1>2 DEF InOrder
<1>3. CASE pc[d] \in {"unlink", "discount", "drop"}
  <2>1. pc[d] \in Critical /\ pc[d] \notin Empty
    BY <1>3 DEF Critical, Empty
  <2>2. pc[c] \notin Critical /\ pc'[c] \notin Critical
    <3>1. pc[c] \notin Critical
      BY <2>1 DEF ListsInv, AreasInv, Inside, OneInside
    <3>2. pc'[c] \notin Critical
      BY <1>1, <2>1 DEF AreasInv, Inside, OneInside
    <3> QED BY <3>1, <3>2
  <2>3. thread[d] \in ThreadAreas /\ thread[d] # thread[c]
    <3>1. AreasInv
      BY DEF ListsInv
    <3>2. thread[d] # NULL
      BY <2>1, <3>1, Idle DEF Working
    <3>3. thread[d] \in ThreadAreas
      BY <3>1, <3>2, PartsNow
    <3>4. thread[d] # thread[c]
      BY <3>1, <3>2 DEF AreasInv, Held
    <3> QED BY <3>3, <3>4
  <2>4. parent'[thread'[d]] = parent[thread[d]]
    BY <1>1, <2>2, <2>3
  <2>5. InOrder(d)
    BY DEF ListsInv
  <2> QED BY <1>1, <2>2, <2>4, <2>5 DEF InOrder
<1> QED BY <1>2, <1>3

LEMMA QuietKept ==
    ASSUME ListsInv, AreasInv', NEW c \in CPUs, Quiet(c)
    PROVE  /\ Line' = Line /\ Queue' = Queue
           /\ InOrder(c)' => ListsInv'
           /\ pc'[c] \notin {"unlink", "discount", "drop"} => ListsInv'
<1>1. AreasInv /\ Chained /\ Filled
  BY DEF ListsInv
<1>2. Lined' = Lined /\ Existing' = Existing
  <2>1. Lined' = Lined
    BY <1>1, LinedStep DEF Quiet
  <2>2. Existing' = Existing
    BY DEF Quiet, Existing
  <2> QED BY <2>1, <2>2
<1>3. Chained' /\ Line' = Line /\ Queue' = Queue
  <2>1. heap' = heap
    BY DEF Quiet
  <2> QED BY <1>1, <1>2, <2>1, ChainedNow DEF Chained
<1>4. Filled'
  BY <1>1, <1>2, FilledGrows DEF Filled, Quiet
<1>5. ASSUME NEW d \in CPUs, d # c PROVE InOrder(d)'
  BY <1>3, <1>5, OthersInOrder DEF Quiet
<1>6. pc'[c] \notin {"unlink", "discount", "drop"} => InOrder(c)'
  BY DEF InOrder
<1>7. InOrder(c)' => \A d \in CPUs : InOrder(d)'
  BY <1>5
<1>8. (AreasInv /\ Chained /\ Filled /\ \A d \in CPUs : InOrder(d))'
        => ListsInv'
  BY DEF ListsInv
<1> QED BY <1>3, <1>4, <1>6, <1>7, <1>8

\* A processor that goes on with the thread it has, or without one.
LEMMA Going ==
    ASSUME AreasInv, NEW c \in CPUs, NEW to, pc' = [pc EXCEPT ![c] = to], thread' = thread,
           \A t \in ThreadAreas : t # thread[c] =>
               (<<"thread", t>> \in allocated' <=> <<"thread", t>> \in allocated)
    PROVE  /\ Alone(c) /\ pc'[c] = to
           /\ \A S : thread[c] = NULL \/ (to \in S <=> pc[c] \in S) => Same(c, S)
<1>1. pc'[c] = to /\ \A d \in CPUs : d # c => pc'[d] = pc[d]
  BY DEF AreasInv, Typed
<1> QED BY <1>1 DEF Alone, Same

LEMMA Goes ==
    ASSUME AreasInv, NEW c \in CPUs, NEW from, NEW to, Go(c, from, to)
    PROVE  pc[c] = from /\ pc'[c] = to
BY DEF AreasInv, Typed, Go

LEMMA Acquires ==
    ASSUME AreasInv, NEW c \in CPUs, Acquire(c)
    PROVE  \/ pc[c] = "lock create" /\ pc'[c] = "alloc thread"
           \/ pc[c] = "lock add" /\ pc'[c] = "add"
           \/ pc[c] = "lock schedule" /\ pc'[c] = "unlock schedule"
           \/ pc[c] = "lock destroy" /\ pc'[c] = "unlink"
<1>1. CASE Go(c, "lock create", "alloc thread")
  BY <1>1, Goes
<1>2. CASE Go(c, "lock add", "add")
  BY <1>2, Goes
<1>3. CASE Go(c, "lock schedule", "unlock schedule")
  BY <1>3, Goes
<1>4. CASE Go(c, "lock destroy", "unlink")
  BY <1>4, Goes
<1> QED BY <1>1, <1>2, <1>3, <1>4 DEF Acquire

\* Many steps change nothing but where the processor is, and what it alone looks at.
LEMMA QuietMoves ==
    ASSUME AreasInv, Filled, NEW c \in CPUs,
           \/ CallCreate(c) \/ CallSchedule(c) \/ Acquire(c) \/ Count(c) \/ Fill(c)
           \/ UnlockSchedule(c) \/ Discount(c) \/ UnlockDestroy(c)
    PROVE  /\ Quiet(c)
           /\ ~Count(c) /\ ~Discount(c) => Same(c, Uncounted) /\ parent' = parent
<1>1. PICK to : pc' = [pc EXCEPT ![c] = to]
  BY DEF CallCreate, CallSchedule, Acquire, Count, Fill, UnlockSchedule, Discount,
         UnlockDestroy, Go
<1>2. UNCHANGED <<thread, heap, allocated>>
  BY DEF CallCreate, CallSchedule, Acquire, Count, Fill, UnlockSchedule, Discount,
         UnlockDestroy
<1>3. /\ Alone(c) /\ pc'[c] = to
      /\ \A S : thread[c] = NULL \/ (to \in S <=> pc[c] \in S) => Same(c, S)
  BY <1>1, <1>2, Going
<1>4. pc[c] \in Empty => thread[c] = NULL
  BY Idle
<1>5. Same(c, Unlined) /\ (~Count(c) /\ ~Discount(c) => Same(c, Uncounted))
  <2>1. CASE CallCreate(c) \/ CallSchedule(c) \/ UnlockSchedule(c)
    <3>1. pc[c] \in Empty
      BY <2>1 DEF CallCreate, CallSchedule, UnlockSchedule, Go, Empty
    <3> QED BY <1>3, <1>4, <3>1
  <2>2. CASE Acquire(c)
    <3>1. CASE pc[c] \in Empty
      BY <1>3, <1>4, <3>1
    <3>2. CASE pc[c] = "lock add" /\ pc'[c] = "add"
      BY <1>3, <3>2 DEF Unlined, Uncounted
    <3>3. CASE pc[c] = "lock destroy" /\ pc'[c] = "unlink"
      BY <1>3, <3>3 DEF Unlined, Uncounted
    <3>4. "lock create" \in Empty /\ "lock schedule" \in Empty
      BY DEF Empty
    <3> QED BY <2>2, <3>1, <3>2, <3>3, <3>4, Acquires
  <2>3. CASE Count(c)
    <3>1. pc[c] = "count" /\ pc'[c] = "fill"
      BY <2>3, Goes DEF Count
    <3> QED BY <1>3, <2>3, <3>1 DEF Unlined, Uncounted
  <2>4. CASE Fill(c)
    <3>1. pc[c] = "fill" /\ pc'[c] = "lock add"
      BY <2>4, Goes DEF Fill
    <3> QED BY <1>3, <3>1 DEF Unlined, Uncounted
  <2>5. CASE Discount(c)
    <3>1. pc[c] = "discount" /\ pc'[c] = "drop"
      BY <2>5, Goes DEF Discount
    <3> QED BY <1>3, <2>5, <3>1 DEF Unlined, Uncounted
  <2>6. CASE UnlockDestroy(c)
    <3>1. pc[c] = "unlock destroy" /\ pc'[c] = "free cpu"
      BY <2>6, Goes DEF UnlockDestroy
    <3> QED BY <1>3, <3>1 DEF Unlined, Uncounted
  <2> QED BY <2>1, <2>2, <2>3, <2>4, <2>5, <2>6
<1>6. ~Count(c) /\ ~Discount(c) => parent' = parent
  BY DEF CallCreate, CallSchedule, Acquire, Fill, UnlockSchedule, UnlockDestroy
<1>7. /\ filled \subseteq filled'
      /\ pc'[c] \in {"lock add", "add"} => thread'[c] \in filled'
  <2>1. filled \subseteq filled'
    BY DEF CallCreate, CallSchedule, Acquire, Count, Fill, UnlockSchedule, Discount,
           UnlockDestroy
  <2>2. CASE Acquire(c)
    <3>1. pc'[c] \in {"lock add", "add"} => pc[c] = "lock add"
      BY <2>2, Acquires
    <3> QED BY <1>2, <2>1, <3>1 DEF Filled
  <2>3. CASE Fill(c)
    BY <1>2, <2>1, <2>3 DEF Fill
  <2>4. CASE ~Acquire(c) /\ ~Fill(c)
    <3>1. pc'[c] \in {"lock create", "lock schedule", "fill", "idle", "drop", "free cpu"}
      BY <2>4, Goes DEF CallCreate, CallSchedule, Count, UnlockSchedule, Discount,
                        UnlockDestroy
    <3> QED BY <2>1, <3>1
  <2> QED BY <2>2, <2>3, <2>4
<1>8. pc[c] \in Critical \/ pc'[c] \in Critical \/ UNCHANGED <<count, parent>>
  <2>1. CASE Acquire(c) \/ CallCreate(c) \/ CallSchedule(c) \/ Fill(c)
    BY <2>1 DEF Acquire, CallCreate, CallSchedule, Fill
  <2>2. CASE Count(c) \/ UnlockSchedule(c) \/ Discount(c) \/ UnlockDestroy(c)
    BY <2>2 DEF Count, UnlockSchedule, Discount, UnlockDestroy, Go, Critical
  <2> QED BY <2>1, <2>2
<1> QED BY <1>2, <1>3, <1>5, <1>6, <1>7, <1>8 DEF Quiet

\* So do those that take or give back an area of a thread, or the thread itself.
LEMMA QuietParts ==
    ASSUME AreasInv, AreasInv', NEW c \in CPUs, NEW part \in {"stack", "cpu"},
           NEW from, NEW to,
           from \in Uncounted, to \in Uncounted, from \in Unlined, to \in Unlined,
           to \notin {"lock add", "add"},
           AllocPart(c, part, from, to) \/ FreePart(c, part, from, to)
    PROVE  Quiet(c) /\ Same(c, Uncounted) /\ parent' = parent
<1>1. UNCHANGED <<thread, heap, filled, count, parent>>
  BY DEF AllocPart, FreePart
<1>2. pc' = [pc EXCEPT ![c] = to] /\ pc[c] = from
  <2>1. CASE AllocPart(c, part, from, to)
    BY <2>1 DEF AllocPart, Go
  <2>2. CASE FreePart(c, part, from, to)
    <3>1. /\ pc[c] = from
          /\ \/ pc' = [pc EXCEPT ![c] = to]
             \/ pc' = [pc EXCEPT ![c] = "stopped"]
      BY <2>2 DEF FreePart, Free, Go
    <3>2. pc'[c] # "stopped"
      BY DEF AreasInv, Typed, Early, Late, Scheduling, Destroying
    <3>3. pc' = [pc EXCEPT ![c] = "stopped"] => pc'[c] = "stopped"
      BY DEF AreasInv, Typed
    <3> QED BY <3>1, <3>2, <3>3
  <2> QED BY <2>1, <2>2
<1>3. \A kind, n : kind # part =>
        (<<kind, n>> \in allocated' <=> <<kind, n>> \in allocated)
  BY DEF AllocPart, FreePart, Free
<1>4. /\ \A t : <<"thread", t>> \in allocated' <=> <<"thread", t>> \in allocated
      /\ \A p : <<"process", p>> \in allocated' <=> <<"process", p>> \in allocated
  BY <1>3
<1>5. /\ Alone(c) /\ pc'[c] = to
      /\ \A S : thread[c] = NULL \/ (to \in S <=> pc[c] \in S) => Same(c, S)
  BY <1>1, <1>2, <1>4, Going
<1> QED BY <1>1, <1>2, <1>4, <1>5 DEF Quiet

\* A processor that takes up a thread, or lets go of one.
LEMMA Handing ==
    ASSUME AreasInv, NEW c \in CPUs, NEW to, pc' = [pc EXCEPT ![c] = to],
           NEW t, thread' = [thread EXCEPT ![c] = t],
           \A u \in ThreadAreas : u \notin {thread[c], t} =>
               (<<"thread", u>> \in allocated' <=> <<"thread", u>> \in allocated)
    PROVE  /\ Alone(c) /\ pc'[c] = to /\ thread'[c] = t
           /\ \A S : /\ thread[c] = NULL \/ t = NULL
                     /\ t # NULL => (<<"thread", t>> \in allocated <=> to \notin S)
                     /\ thread[c] # NULL =>
                          (<<"thread", thread[c]>> \in allocated' <=> pc[c] \notin S)
                     => Same(c, S)
<1>1. pc'[c] = to /\ \A d \in CPUs : d # c => pc'[d] = pc[d]
  BY DEF AreasInv, Typed
<1>2. thread'[c] = t /\ \A d \in CPUs : d # c => thread'[d] = thread[d]
  BY DEF AreasInv, Typed
<1> QED BY <1>1, <1>2 DEF Alone, Same

LEMMA QuietHands ==
    ASSUME AreasInv, NEW c \in CPUs,
           CallDestroy(c) \/ AllocThread(c) \/ Fail(c) \/ UnlockCreate(c)
    PROVE  /\ Quiet(c) /\ Same(c, Uncounted) /\ parent' = parent
           /\ pc'[c] \in {"lock destroy", "alloc stack", "idle"}
<1>0. UNCHANGED <<heap, filled, count, parent>>
  BY DEF CallDestroy, AllocThread, Fail, UnlockCreate
<1>1. /\ thread[c] # NULL => <<"thread", thread[c]>> \in allocated
      /\ pc[c] \in Empty <=> thread[c] = NULL
  BY Idle, PartsNow DEF Working
<1>2. CASE CallDestroy(c)
  <2>1. PICK t \in handles : thread' = [thread EXCEPT ![c] = t]
    BY <1>2 DEF CallDestroy
  <2>2. pc[c] = "idle" /\ pc' = [pc EXCEPT ![c] = "lock destroy"] /\ allocated' = allocated
    BY <1>2 DEF CallDestroy, Go
  <2>3. thread[c] = NULL /\ <<"thread", t>> \in allocated
    BY <1>1, <2>2, HandlesWhole DEF Empty
  <2>4. /\ Alone(c) /\ pc'[c] = "lock destroy" /\ thread'[c] = t
        /\ \A S : "lock destroy" \notin S => Same(c, S)
    BY <2>1, <2>2, <2>3, Handing
  <2> QED BY <1>0, <2>2, <2>4 DEF Quiet, Unlined, Uncounted
<1>3. CASE AllocThread(c)
  <2>1. PICK t \in ThreadAreas : /\ thread' = [thread EXCEPT ![c] = t]
                                 /\ <<"thread", t>> \notin allocated
                                 /\ allocated' = allocated \cup {<<"thread", t>>}
    BY <1>3 DEF AllocThread, Lowest
  <2>2. pc[c] = "alloc thread" /\ pc' = [pc EXCEPT ![c] = "alloc stack"]
    BY <1>3 DEF AllocThread, Go
  <2>3. thread[c] = NULL
    BY <1>1, <2>2 DEF Empty
  <2>4. \A kind, n : <<kind, n>> # <<"thread", t>> =>
          (<<kind, n>> \in allocated' <=> <<kind, n>> \in allocated)
    BY <2>1
  <2>5. /\ Alone(c) /\ pc'[c] = "alloc stack" /\ thread'[c] = t
        /\ \A S : "alloc stack" \in S => Same(c, S)
    BY <2>1, <2>2, <2>3, <2>4, Handing
  <2>6. \A p : <<"process", p>> \in allocated' <=> <<"process", p>> \in allocated
    BY <2>4
  <2> QED BY <1>0, <2>2, <2>5, <2>6 DEF Quiet, Unlined, Uncounted, Critical
<1>4. CASE Fail(c)
  <2>1. /\ thread' = [thread EXCEPT ![c] = NULL] /\ pc' = [pc EXCEPT ![c] = "idle"]
        /\ allocated' = {a \in allocated : a[2] = thread[c] => a[1] \notin Parts}
    BY <1>4 DEF Fail, Return
  <2>2. pc[c] \in {"alloc thread", "alloc stack", "alloc cpu", "alloc process"}
    BY <1>4 DEF Fail
  <2>3. /\ \A u : u # thread[c] =>
             (<<"thread", u>> \in allocated' <=> <<"thread", u>> \in allocated)
        /\ <<"thread", thread[c]>> \notin allocated'
        /\ \A p : <<"process", p>> \in allocated' <=> <<"process", p>> \in allocated
    <3>1. \A kind, n :
            <<kind, n>> \in allocated'
              <=> <<kind, n>> \in allocated /\ (n = thread[c] => kind \notin Parts)
      BY <2>1
    <3> QED BY <3>1 DEF Parts
  <2>4. /\ Alone(c) /\ pc'[c] = "idle" /\ thread'[c] = NULL
        /\ \A S : thread[c] = NULL \/ pc[c] \in S => Same(c, S)
    BY <2>1, <2>3, Handing
  <2>5. /\ thread[c] = NULL \/ pc[c] \in Unlined
        /\ thread[c] = NULL \/ pc[c] \in Uncounted
    BY <1>1, <2>2 DEF Empty, Unlined, Uncounted
  <2> QED BY <1>0, <2>2, <2>3, <2>4, <2>5 DEF Quiet, Critical
<1>5. CASE UnlockCreate(c)
  <2>1. /\ thread' = [thread EXCEPT ![c] = NULL] /\ pc' = [pc EXCEPT ![c] = "idle"]
        /\ allocated' = allocated /\ pc[c] = "unlock create"
    BY <1>5 DEF UnlockCreate, Return, Go
  <2>2. thread[c] # NULL
    BY <1>1, <2>1 DEF Empty
  <2>3. /\ Alone(c) /\ pc'[c] = "idle" /\ thread'[c] = NULL
        /\ \A S : "unlock create" \notin S => Same(c, S)
    BY <1>1, <2>1, <2>2, Handing
  <2> QED BY <1>0, <2>1, <2>3 DEF Quiet, Unlined, Uncounted
<1> QED BY <1>2, <1>3, <1>4, <1>5

\* Who destroys a thread promises that list.h will not lose others with it.
LEMMA AcquireKept ==
    ASSUME ListsInv, AreasInv', NEW c \in CPUs, Acquire(c),
           pc[c] = "lock destroy" => Orderly(thread[c])
    PROVE  ListsInv'
<1>1. AreasInv /\ Filled /\ Chained
  BY DEF ListsInv
<1>2. Quiet(c)
  BY <1>1, QuietMoves
<1>3. Line' = Line /\ Queue' = Queue
  BY <1>2, QuietKept
<1>4. CASE pc'[c] = "unlink"
  <2>1. Orderly(thread[c])
    BY <1>1, <1>4, Acquires
  <2>2. \A n : /\ OnlyFirst("threads", n) => NotFirst(Line, n)
               /\ OnlyFirst("processes", n) => NotFirst(Queue, n)
    <3>1. Len(Line) \in Nat /\ Len(Queue) \in Nat
      BY <1>1, LenProperties DEF Chained, Linked
    <3>2. /\ Len(Line) > 0 => heap["threads"].start = Line[1]
          /\ Len(Queue) > 0 => heap["processes"].start = Queue[1]
      BY <1>1 DEF Chained, Linked
    <3> QED BY ONLY <3>1, <3>2 DEF OnlyFirst, NotFirst, Line, Queue
  <2>3. /\ NotFirst(Line, thread[c])
        /\ count[parent[thread[c]]] = 1 => NotFirst(Queue, parent[thread[c]])
    BY <2>1, <2>2 DEF Orderly
  <2>4. UNCHANGED <<count, parent, thread>>
    BY DEF Acquire
  <2>5. InOrder(c)'
    BY <1>3, <1>4, <2>3, <2>4 DEF InOrder, NotFirst
  <2> QED BY <1>2, <2>5, QuietKept
<1>5. CASE pc'[c] # "unlink"
  <2>1. pc'[c] \notin {"unlink", "discount", "drop"}
    BY <1>1, <1>5, Acquires
  <2> QED BY <1>2, <2>1, QuietKept
<1> QED BY <1>4, <1>5

LEMMA DiscountKept ==
    ASSUME ListsInv, AreasInv', NEW c \in CPUs, Discount(c)
    PROVE  ListsInv'
<1>1. AreasInv /\ Filled /\ InOrder(c)
  BY DEF ListsInv
<1>2. Quiet(c)
  BY <1>1, QuietMoves
<1>3. Queue' = Queue
  BY <1>2, QuietKept
<1>4. pc[c] = "discount" /\ pc'[c] = "drop"
  BY <1>1, Goes DEF Discount
<1>5. parent[thread[c]] \in ProcessAreas
  <2>1. thread[c] # NULL
    BY <1>1, <1>4, Idle DEF Working, Empty
  <2>2. thread[c] \in Alive
    BY <1>1, <1>4, <2>1, PartsNow DEF Uncounted
  <2> QED BY <1>1, <2>2 DEF AreasInv, Counted
<1>6. /\ UNCHANGED <<parent, thread>>
      /\ count'[parent[thread[c]]] = count[parent[thread[c]]] - 1
      /\ count[parent[thread[c]]] \in Int
  BY <1>1, <1>5 DEF Discount, AreasInv, Typed
<1>7. count'[parent[thread[c]]] = 0 => NotFirst(Queue, parent[thread[c]])
  <2>1. count'[parent[thread[c]]] = 0 => count[parent[thread[c]]] = 1
    BY <1>6
  <2> QED BY <1>1, <1>4, <2>1 DEF InOrder
<1>8. InOrder(c)'
  BY <1>3, <1>4, <1>6, <1>7 DEF InOrder, NotFirst
<1> QED BY <1>2, <1>8, QuietKept

-----------------------------------------------------------------------------
(* Steps that change a list.                                               *)

\* What such a step has to show: it is alone, and what is on the lists then.
LEMMA ChangedKept ==
    ASSUME ListsInv, AreasInv', NEW c \in CPUs, Alone(c), Chained', Filled',
           pc[c] \in Critical, InOrder(c)'
    PROVE  ListsInv'
<1>1. \A d \in CPUs : d # c => InOrder(d)'
  BY OthersInOrder
<1>2. (AreasInv /\ Chained /\ Filled /\ \A d \in CPUs : InOrder(d))' => ListsInv'
  BY DEF ListsInv
<1> QED BY <1>1, <1>2

\* No node is on both lists.
LEMMA ListsApart ==
    ASSUME ListsInv
    PROVE  /\ \A i \in 1 .. Len(Line) : Line[i] \in Lined /\ Line[i] \in ThreadAreas
           /\ \A i \in 1 .. Len(Queue) : Queue[i] \in Existing /\ Queue[i] \in ProcessAreas
           /\ \A i \in 1 .. Len(Line), j \in 1 .. Len(Queue) : Line[i] # Queue[j]
           /\ \A t \in Lined : \E i \in 1 .. Len(Line) : Line[i] = t
           /\ \A p \in Existing : \E i \in 1 .. Len(Queue) : Queue[i] = p
<1>1. Members(Line) = Lined /\ Members(Queue) = Existing
  BY DEF ListsInv, Chained
<1>2. \A i \in 1 .. Len(Line) : Line[i] \in Lined
  BY <1>1 DEF Members
<1>3. \A i \in 1 .. Len(Queue) : Queue[i] \in Existing
  BY <1>1 DEF Members
<1>4. /\ \A t \in Lined : \E i \in 1 .. Len(Line) : Line[i] = t
      /\ \A p \in Existing : \E i \in 1 .. Len(Queue) : Queue[i] = p
  BY <1>1 DEF Members
<1>5. /\ \A i \in 1 .. Len(Line) : Line[i] \in ThreadAreas
      /\ \A i \in 1 .. Len(Queue) : Queue[i] \in ProcessAreas
  BY <1>2, <1>3 DEF Lined, Existing
<1>6. \A i \in 1 .. Len(Line), j \in 1 .. Len(Queue) : Line[i] # Queue[j]
  BY <1>5, AreasAssumption
<1> QED BY <1>2, <1>3, <1>4, <1>5, <1>6

LEMMA AppendMembers ==
    ASSUME NEW S, NEW s \in Seq(S), NEW n \in S
    PROVE  Members(Append(s, n)) = Members(s) \cup {n}
<1>1. /\ Len(s) \in Nat /\ Len(Append(s, n)) = Len(s) + 1
      /\ \A i \in 1 .. Len(s) : Append(s, n)[i] = s[i]
      /\ Append(s, n)[Len(s) + 1] = n
  BY AppendProperties, LenProperties
<1> QED BY <1>1 DEF Members

LEMMA RemoveMembers ==
    ASSUME NEW s \in Seq(Nodes), \A i, j \in 1 .. Len(s) : s[i] = s[j] => i = j,
           NEW k \in 1 .. Len(s)
    PROVE  Members(RemoveAt(s, k)) = Members(s) \ {s[k]}
<1> DEFINE r == RemoveAt(s, k)
<1>1. /\ Len(s) \in Nat /\ Len(r) = Len(s) - 1
      /\ \A i \in 1 .. (k - 1) : r[i] = s[i]
      /\ \A i \in k .. (Len(s) - 1) : r[i] = s[i + 1]
  BY Shorter, LenProperties
<1> HIDE DEF r
<1>2. ASSUME NEW i \in 1 .. Len(r) PROVE r[i] \in Members(s) \ {s[k]}
  <2>1. CASE i < k
    <3>1. r[i] = s[i] /\ i \in 1 .. Len(s) /\ i # k
      BY <1>1, <2>1
    <3> QED BY <3>1 DEF Members
  <2>2. CASE i >= k
    <3>1. r[i] = s[i + 1] /\ i + 1 \in 1 .. Len(s) /\ i + 1 # k
      BY <1>1, <2>2
    <3> QED BY <3>1 DEF Members
  <2> QED BY <2>1, <2>2
<1>3. ASSUME NEW i \in 1 .. Len(s), i # k PROVE \E j \in 1 .. Len(r) : r[j] = s[i]
  <2>1. CASE i < k
    <3>1. r[i] = s[i] /\ i \in 1 .. Len(r)
      BY <1>1, <2>1
    <3> QED BY <3>1
  <2>2. CASE i > k
    <3>1. i - 1 \in k .. (Len(s) - 1) /\ i - 1 \in 1 .. Len(r) /\ (i - 1) + 1 = i
      BY <1>1, <2>2
    <3>2. r[i - 1] = s[i]
      BY <1>1, <3>1
    <3> QED BY <3>1, <3>2
  <2> QED BY <1>3, <2>1, <2>2
<1>4. Members(r) = Members(s) \ {s[k]}
  BY <1>2, <1>3 DEF Members
<1> QED BY <1>4 DEF r

LEMMA AddThreadKept ==
    ASSUME ListsInv, AreasInv', NEW c \in CPUs, AddThread(c)
    PROVE  /\ ListsInv' /\ Alone(c)
           /\ thread[c] \in ThreadAreas /\ thread[c] \notin Lined
           /\ Line' = Append(Line, thread[c])
           /\ Same(c, Uncounted) /\ parent' = parent
<1> DEFINE n == thread[c]
<1>1. AreasInv /\ Chained /\ Filled
  BY DEF ListsInv
<1>2. /\ UNCHANGED <<thread, allocated, filled, parent>>
      /\ heap' = HELP_DLLIST_ADD(heap, "threads", n)
      /\ pc' = [pc EXCEPT ![c] = "unlock create"] /\ pc[c] = "add"
  BY DEF AddThread, Go
<1>3. /\ Alone(c) /\ pc'[c] = "unlock create" /\ thread'[c] = n
      /\ \A S : thread[c] = NULL \/ ("unlock create" \in S <=> pc[c] \in S) => Same(c, S)
  BY <1>1, <1>2, Going
<1>4. n # NULL /\ n \in ThreadAreas /\ n \in filled
  <2>1. n # NULL
    BY <1>1, <1>2, Idle DEF Working, Empty
  <2>2. n \in ThreadAreas
    BY <1>1, <2>1, PartsNow
  <2>3. n \in filled
    BY <1>1, <1>2 DEF Filled
  <2> QED BY <2>1, <2>2, <2>3
<1> HIDE DEF n
<1>5. Lined' = Lined \cup {n} /\ n \notin Lined
  <2>1. /\ \A t \in ThreadAreas : t # n => (t \in Lined' <=> t \in Lined)
        /\ n \in Lined <=> pc[c] \notin Unlined
        /\ n \in Lined' <=> pc'[c] \notin Unlined
    BY <1>1, <1>3, <1>4, LinedStep DEF n
  <2>2. n \notin Lined /\ n \in Lined'
    BY <1>2, <1>3, <2>1 DEF Unlined, Uncounted
  <2>3. Lined \subseteq ThreadAreas /\ Lined' \subseteq ThreadAreas
    BY DEF Lined
  <2> QED BY <1>4, <2>1, <2>2, <2>3
<1>6. Existing' = Existing
  BY <1>2 DEF Existing
<1>7. /\ Chained' /\ Line' = Append(Line, n)
  <2>1. /\ heap \in Heap
        /\ Linked(heap, "threads", Line) /\ Linked(heap, "processes", Queue)
        /\ Line \in Seq(Nodes) /\ n \in Nodes
        /\ "threads" \in Lists /\ "processes" \in Lists
        /\ "threads" # "processes"
    BY <1>1, <1>4, AreasAssumption DEF Chained, Linked, Lists
  <2>2. /\ \A i \in 1 .. Len(Line) : Line[i] # n
        /\ \A i \in 1 .. Len(Queue) : Queue[i] # n
        /\ \A i \in 1 .. Len(Queue), j \in 1 .. Len(Line) : Queue[i] # Line[j]
    <3>1. /\ \A i \in 1 .. Len(Line) : Line[i] \in Lined
          /\ \A i \in 1 .. Len(Queue) : Queue[i] \in ProcessAreas
          /\ \A i \in 1 .. Len(Line), j \in 1 .. Len(Queue) : Line[i] # Queue[j]
      BY ListsApart
    <3>2. n \notin ProcessAreas
      BY <1>4, AreasAssumption
    <3> QED BY <1>5, <3>1, <3>2
  <2>3. heap' \in Heap /\ Linked(heap', "threads", Append(Line, n))
    BY <1>2, <2>1, <2>2, AddLinked
  <2>4. Linked(heap', "processes", Queue)
    BY <1>2, <2>1, <2>2, AddLinked
  <2>5. Members(Append(Line, n)) = Lined'
    BY <1>1, <1>5, <2>1, AppendMembers DEF Chained
  <2>6. Members(Queue) = Existing'
    BY <1>1, <1>6 DEF Chained
  <2> QED BY <2>3, <2>4, <2>5, <2>6, ChainedNow
<1>8. Filled'
  <2>1. Lined' \subseteq filled' /\ filled \subseteq filled'
    BY <1>1, <1>2, <1>4, <1>5 DEF Filled
  <2>2. pc'[c] \notin {"lock add", "add"}
    BY <1>3
  <2> QED BY <1>1, <1>3, <2>1, <2>2, FilledGrows
<1>9. ListsInv'
  <2>1. InOrder(c)'
    BY <1>3 DEF InOrder
  <2>2. pc[c] \in Critical
    BY <1>2 DEF Critical
  <2> QED BY <1>3, <1>7, <1>8, <2>1, <2>2, ChangedKept
<1>10. Same(c, Uncounted)
  <2>1. "unlock create" \notin Uncounted /\ "add" \notin Uncounted
    BY DEF Uncounted
  <2> QED BY <1>2, <1>3, <2>1
<1> QED BY <1>2, <1>3, <1>4, <1>5, <1>7, <1>9, <1>10 DEF n

LEMMA UnlinkKept ==
    ASSUME ListsInv, AreasInv', NEW c \in CPUs, Unlink(c)
    PROVE  /\ ListsInv' /\ Alone(c)
           /\ \E k \in 1 .. Len(Line) : /\ Line[k] = thread[c]
                                        /\ Line' = RemoveAt(Line, k)
           /\ thread[c] \in ThreadAreas
           /\ Same(c, Uncounted) /\ parent' = parent
<1> DEFINE n == thread[c]
<1>1. AreasInv /\ Chained /\ Filled /\ InOrder(c)
  BY DEF ListsInv
<1>2. /\ UNCHANGED <<thread, allocated, filled, parent, count>>
      /\ heap' = HELP_DLLIST_REMOVE(heap, "threads", n)
      /\ pc' = [pc EXCEPT ![c] = "discount"] /\ pc[c] = "unlink"
  BY DEF Unlink, Go
<1>3. /\ Alone(c) /\ pc'[c] = "discount" /\ thread'[c] = n
      /\ \A S : thread[c] = NULL \/ ("discount" \in S <=> pc[c] \in S) => Same(c, S)
  BY <1>1, <1>2, Going
<1>4. n # NULL /\ n \in ThreadAreas
  <2>1. n # NULL
    BY <1>1, <1>2, Idle DEF Working, Empty
  <2>2. n \in ThreadAreas
    BY <1>1, <2>1, PartsNow
  <2> QED BY <2>1, <2>2
<1> HIDE DEF n
<1>5. Lined' = Lined \ {n} /\ n \in Lined
  <2>1. /\ \A t \in ThreadAreas : t # n => (t \in Lined' <=> t \in Lined)
        /\ n \in Lined <=> pc[c] \notin Unlined
        /\ n \in Lined' <=> pc'[c] \notin Unlined
    BY <1>1, <1>3, <1>4, LinedStep DEF n
  <2>2. n \in Lined /\ n \notin Lined'
    BY <1>2, <1>3, <2>1 DEF Unlined, Uncounted
  <2>3. Lined \subseteq ThreadAreas /\ Lined' \subseteq ThreadAreas
    BY DEF Lined
  <2> QED BY <1>4, <2>1, <2>2, <2>3
<1>6. Existing' = Existing
  BY <1>2 DEF Existing
<1>7. PICK k \in 1 .. Len(Line) : Line[k] = n
  BY <1>5, ListsApart
<1>8. Chained' /\ Line' = RemoveAt(Line, k) /\ Queue' = Queue
  <2>1. /\ heap \in Heap
        /\ Linked(heap, "threads", Line) /\ Linked(heap, "processes", Queue)
        /\ Line \in Seq(Nodes) /\ "threads" \in Lists /\ "processes" \in Lists
        /\ "threads" # "processes"
        /\ \A i, j \in 1 .. Len(Line) : Line[i] = Line[j] => i = j
    BY <1>1 DEF Chained, Linked, Lists
  <2>2. \A i \in 1 .. Len(Queue), j \in 1 .. Len(Line) : Queue[i] # Line[j]
    BY ListsApart
  <2>3. Len(Line) > 1 => k # 1
    BY <1>1, <1>2, <1>7 DEF InOrder, NotFirst, n
  <2>4. heap' \in Heap /\ Linked(heap', "threads", RemoveAt(Line, k))
    BY <1>2, <1>7, <2>1, <2>3, RemoveLinked
  <2>5. Linked(heap', "processes", Queue)
    BY <1>2, <1>7, <2>1, <2>2, <2>3, RemoveLinked
  <2>6. Members(RemoveAt(Line, k)) = Lined'
    BY <1>1, <1>5, <1>7, <2>1, RemoveMembers DEF Chained
  <2>7. Members(Queue) = Existing'
    BY <1>1, <1>6 DEF Chained
  <2> QED BY <2>4, <2>5, <2>6, <2>7, ChainedNow
<1>9. Filled'
  <2>1. Lined' \subseteq filled' /\ filled \subseteq filled'
    BY <1>1, <1>2, <1>5 DEF Filled
  <2>2. pc'[c] \notin {"lock add", "add"}
    BY <1>3
  <2> QED BY <1>1, <1>3, <2>1, <2>2, FilledGrows
<1>10. ListsInv'
  <2>1. InOrder(c)'
    BY <1>1, <1>2, <1>3, <1>8 DEF InOrder, NotFirst, n
  <2>2. pc[c] \in Critical
    BY <1>2 DEF Critical
  <2> QED BY <1>3, <1>8, <1>9, <2>1, <2>2, ChangedKept
<1>11. Same(c, Uncounted)
  <2>1. "discount" \notin Uncounted /\ "unlink" \notin Uncounted
    BY DEF Uncounted
  <2> QED BY <1>2, <1>3, <2>1
<1> QED BY <1>2, <1>3, <1>4, <1>7, <1>8, <1>10, <1>11 DEF n

LEMMA AllocProcessKept ==
    ASSUME ListsInv, AreasInv', NEW c \in CPUs, AllocProcess(c)
    PROVE  /\ ListsInv' /\ Alone(c) /\ Line' = Line
           /\ Same(c, Uncounted) /\ parent' = parent
<1>1. AreasInv /\ Chained /\ Filled
  BY DEF ListsInv
<1>2. /\ UNCHANGED <<thread, filled, parent>>
      /\ pc' = [pc EXCEPT ![c] = "count"] /\ pc[c] = "alloc process"
  BY DEF AllocProcess, Go
<1>3. \A t : <<"thread", t>> \in allocated' <=> <<"thread", t>> \in allocated
  <2>1. allocated' = allocated \/ \E p : allocated' = allocated \cup {<<"process", p>>}
    BY DEF AllocProcess
  <2> QED BY <2>1
<1>4. /\ Alone(c) /\ pc'[c] = "count" /\ thread'[c] = thread[c]
      /\ \A S : thread[c] = NULL \/ ("count" \in S <=> pc[c] \in S) => Same(c, S)
  BY <1>1, <1>2, <1>3, Going
<1>5. Same(c, Unlined) /\ Same(c, Uncounted)
  <2>1. /\ "count" \in Unlined /\ "alloc process" \in Unlined
        /\ "count" \in Uncounted /\ "alloc process" \in Uncounted
    BY DEF Unlined, Uncounted
  <2> QED BY <1>2, <1>4, <2>1
<1>6. pc[c] \in Critical
  BY <1>2 DEF Critical
<1>7. CASE process[c] # NULL
  <2>1. heap' = heap /\ allocated' = allocated
    BY <1>7 DEF AllocProcess
  <2>2. Quiet(c)
    BY <1>2, <1>4, <1>5, <1>6, <2>1 DEF Quiet
  <2> QED BY <1>2, <1>4, <1>5, <2>2, QuietKept
<1>8. CASE process[c] = NULL
  <2>1. PICK p \in ProcessAreas : /\ <<"process", p>> \notin allocated
                                  /\ allocated' = allocated \cup {<<"process", p>>}
                                  /\ heap' = HELP_DLLIST_ADD(heap, "processes", p)
    BY <1>8 DEF AllocProcess, Lowest
  <2>2. Existing' = Existing \cup {p} /\ p \notin Existing
    BY <2>1 DEF Existing
  <2>3. Lined' = Lined
    BY <1>1, <1>4, <1>5, LinedStep
  <2>4. Chained' /\ Line' = Line
    <3>1. /\ heap \in Heap
          /\ Linked(heap, "threads", Line) /\ Linked(heap, "processes", Queue)
          /\ Queue \in Seq(Nodes) /\ p \in Nodes
        /\ "threads" \in Lists /\ "processes" \in Lists
          /\ "threads" # "processes"
      BY <1>1, AreasAssumption DEF Chained, Linked, Lists
    <3>2. /\ \A i \in 1 .. Len(Queue) : Queue[i] # p
          /\ \A i \in 1 .. Len(Line) : Line[i] # p
          /\ \A i \in 1 .. Len(Line), j \in 1 .. Len(Queue) : Line[i] # Queue[j]
      <4>1. /\ \A i \in 1 .. Len(Queue) : Queue[i] \in Existing
            /\ \A i \in 1 .. Len(Line) : Line[i] \in ThreadAreas
            /\ \A i \in 1 .. Len(Line), j \in 1 .. Len(Queue) : Line[i] # Queue[j]
        BY ListsApart
      <4>2. p \notin ThreadAreas
        BY AreasAssumption
      <4> QED BY <2>2, <4>1, <4>2
    <3>3. heap' \in Heap /\ Linked(heap', "processes", Append(Queue, p))
      BY <2>1, <3>1, <3>2, AddLinked
    <3>4. Linked(heap', "threads", Line)
      BY <2>1, <3>1, <3>2, AddLinked
    <3>5. Members(Append(Queue, p)) = Existing'
      BY <1>1, <2>2, <3>1, AppendMembers DEF Chained
    <3>6. Members(Line) = Lined'
      BY <1>1, <2>3 DEF Chained
    <3> QED BY <3>3, <3>4, <3>5, <3>6, ChainedNow
  <2>5. Filled'
    <3>1. Lined' \subseteq filled' /\ filled \subseteq filled'
      BY <1>1, <1>2, <2>3 DEF Filled
    <3>2. pc'[c] \notin {"lock add", "add"}
      BY <1>4
    <3> QED BY <1>1, <1>4, <3>1, <3>2, FilledGrows
  <2>6. InOrder(c)'
    BY <1>4 DEF InOrder
  <2> QED BY <1>2, <1>4, <1>5, <1>6, <2>4, <2>5, <2>6, ChangedKept
<1> QED BY <1>7, <1>8

LEMMA DropKept ==
    ASSUME ListsInv, AreasInv', NEW c \in CPUs, Drop(c)
    PROVE  /\ ListsInv' /\ Alone(c) /\ Line' = Line
           /\ Same(c, Uncounted) /\ parent' = parent
<1> DEFINE p == parent[thread[c]]
<1>1. AreasInv /\ Chained /\ Filled /\ InOrder(c)
  BY DEF ListsInv
<1>2. UNCHANGED <<thread, filled, parent>> /\ pc[c] = "drop"
  BY DEF Drop
<1>3. pc' = [pc EXCEPT ![c] = "unlock destroy"]
  <2>1. \/ pc' = [pc EXCEPT ![c] = "unlock destroy"]
        \/ pc' = [pc EXCEPT ![c] = "stopped"]
    BY DEF Drop, Free, Go
  <2>2. pc'[c] # "stopped"
    BY DEF AreasInv, Typed, Early, Late, Scheduling, Destroying
  <2>3. pc' = [pc EXCEPT ![c] = "stopped"] => pc'[c] = "stopped"
    BY DEF AreasInv, Typed
  <2> QED BY <2>1, <2>2, <2>3
<1>4. \A t : <<"thread", t>> \in allocated' <=> <<"thread", t>> \in allocated
  <2>1. allocated' = allocated \/ allocated' = allocated \ {<<"process", p>>}
    BY DEF Drop, Free
  <2> QED BY <2>1
<1>5. /\ Alone(c) /\ pc'[c] = "unlock destroy" /\ thread'[c] = thread[c]
      /\ \A S : thread[c] = NULL \/ ("unlock destroy" \in S <=> pc[c] \in S) => Same(c, S)
  BY <1>1, <1>2, <1>3, <1>4, Going
<1>6. Same(c, Unlined) /\ Same(c, Uncounted)
  <2>1. /\ "drop" \in Unlined /\ "unlock destroy" \in Unlined
        /\ "drop" \in Uncounted /\ "unlock destroy" \in Uncounted
    BY DEF Unlined, Uncounted
  <2> QED BY <1>2, <1>5, <2>1
<1>7. pc[c] \in Critical
  BY <1>2 DEF Critical
<1>8. CASE count[p] # 0
  <2>1. heap' = heap /\ allocated' = allocated
    BY <1>8 DEF Drop
  <2>2. Quiet(c)
    BY <1>2, <1>5, <1>6, <1>7, <2>1 DEF Quiet
  <2> QED BY <1>2, <1>5, <1>6, <2>2, QuietKept
<1>9. CASE count[p] = 0
  <2>1. p \in ProcessAreas
    BY <1>1, <1>2, Idle DEF Working
  <2>2. /\ <<"process", p>> \in allocated /\ allocated' = allocated \ {<<"process", p>>}
        /\ heap' = Cleared(HELP_DLLIST_REMOVE(heap, "processes", p), p)
    <3>1. /\ Free(c, <<"process", p>>, "drop", "unlock destroy")
          /\ heap' = Cleared(HELP_DLLIST_REMOVE(heap, "processes", p), p)
      BY <1>9 DEF Drop
    <3>2. /\ Go(c, "drop", IF <<"process", p>> \in allocated THEN "unlock destroy"
                                                             ELSE "stopped")
          /\ allocated' = allocated \ {<<"process", p>>}
      BY <3>1 DEF Free
    <3>3. <<"process", p>> \notin allocated => pc'[c] = "stopped"
      BY <1>1, <3>2, Goes
    <3> HIDE DEF p
    <3> QED BY <1>5, <3>1, <3>2, <3>3
  <2> HIDE DEF p
  <2>3. Existing' = Existing \ {p} /\ p \in Existing
    BY <2>1, <2>2 DEF Existing
  <2>4. Lined' = Lined
    BY <1>1, <1>5, <1>6, LinedStep
  <2>5. PICK k \in 1 .. Len(Queue) : Queue[k] = p
    BY <2>3, ListsApart
  <2>6. Chained' /\ Line' = Line
    <3> DEFINE g == HELP_DLLIST_REMOVE(heap, "processes", p)
    <3>1. /\ heap \in Heap
          /\ Linked(heap, "threads", Line) /\ Linked(heap, "processes", Queue)
          /\ Queue \in Seq(Nodes) /\ p \in Nodes
        /\ "threads" \in Lists /\ "processes" \in Lists
          /\ "threads" # "processes"
          /\ \A i, j \in 1 .. Len(Queue) : Queue[i] = Queue[j] => i = j
      BY <1>1, <2>1, AreasAssumption DEF Chained, Linked, Lists
    <3>2. /\ \A i \in 1 .. Len(Line), j \in 1 .. Len(Queue) : Line[i] # Queue[j]
          /\ \A i \in 1 .. Len(Line) : Line[i] # p
      <4>1. /\ \A i \in 1 .. Len(Line) : Line[i] \in ThreadAreas
            /\ \A i \in 1 .. Len(Line), j \in 1 .. Len(Queue) : Line[i] # Queue[j]
        BY ListsApart
      <4> QED BY <2>1, <4>1, AreasAssumption
    <3>3. Len(Queue) > 1 => k # 1
      BY <1>1, <1>2, <1>9, <2>5 DEF InOrder, NotFirst, p
    <3>4. g \in Heap /\ Linked(g, "processes", RemoveAt(Queue, k))
      BY <2>5, <3>1, <3>3, RemoveLinked
    <3>5. Linked(g, "threads", Line)
      BY <2>5, <3>1, <3>2, <3>3, RemoveLinked
    <3>6. Members(RemoveAt(Queue, k)) = Existing'
      BY <1>1, <2>3, <2>5, <3>1, RemoveMembers DEF Chained
    <3>7. \A i \in 1 .. Len(RemoveAt(Queue, k)) : RemoveAt(Queue, k)[i] # p
      BY <2>3, <3>6 DEF Members
    <3>8. heap' = Cleared(g, p)
      BY <2>2
    <3> HIDE DEF g
    <3>9. /\ heap' \in Heap /\ Linked(heap', "processes", RemoveAt(Queue, k))
          /\ Linked(heap', "threads", Line)
      BY <3>1, <3>2, <3>4, <3>5, <3>7, <3>8, ClearedLinked
    <3>10. Members(Line) = Lined'
      BY <1>1, <2>4 DEF Chained
    <3> QED BY <3>6, <3>9, <3>10, ChainedNow
  <2>7. Filled'
    <3>1. Lined' \subseteq filled' /\ filled \subseteq filled'
      BY <1>1, <1>2, <2>4 DEF Filled
    <3>2. pc'[c] \notin {"lock add", "add"}
      BY <1>5
    <3> QED BY <1>1, <1>5, <3>1, <3>2, FilledGrows
  <2>8. InOrder(c)'
    BY <1>5 DEF InOrder
  <2> QED BY <1>2, <1>5, <1>6, <1>7, <2>6, <2>7, <2>8, ChangedKept
<1> QED BY <1>8, <1>9

LEMMA FreeThreadKept ==
    ASSUME ListsInv, AreasInv', NEW c \in CPUs, FreeThread(c)
    PROVE  /\ ListsInv' /\ Alone(c) /\ Line' = Line
           /\ Same(c, Uncounted)
           /\ thread[c] \in ThreadAreas /\ thread[c] \notin Alive
           /\ \A t \in ThreadAreas : t # thread[c] => parent'[t] = parent[t]
<1> DEFINE n == thread[c]
<1>1. AreasInv /\ Chained /\ Filled
  BY DEF ListsInv
<1>2. /\ thread' = [thread EXCEPT ![c] = NULL] /\ pc[c] = "free thread"
      /\ count' = count /\ filled' = filled \ {n}
      /\ parent' = [parent EXCEPT ![n] = NULL]
      /\ heap' = Cleared(heap, n)
      /\ allocated' = allocated \ {<<"thread", n>>}
  BY DEF FreeThread, Free, Return, Go
<1>3. pc' = [pc EXCEPT ![c] = "idle"]
  <2>1. pc' = [pc EXCEPT ![c] = "idle"] \/ pc' = [pc EXCEPT ![c] = "stopped"]
    BY DEF FreeThread, Free, Go
  <2>2. pc'[c] # "stopped"
    BY DEF AreasInv, Typed, Early, Late, Scheduling, Destroying
  <2>3. pc' = [pc EXCEPT ![c] = "stopped"] => pc'[c] = "stopped"
    BY DEF AreasInv, Typed
  <2> QED BY <2>1, <2>2, <2>3
<1>4. /\ n # NULL /\ n \in ThreadAreas /\ n \in Nodes /\ n \notin Alive
      /\ <<"thread", n>> \in allocated
  <2>1. n # NULL
    BY <1>1, <1>2, Idle DEF Working, Empty
  <2>2. n \in ThreadAreas /\ <<"thread", n>> \in allocated /\ n \notin Alive
    BY <1>1, <1>2, <2>1, PartsNow DEF Uncounted
  <2> QED BY <2>1, <2>2, AreasAssumption
<1> HIDE DEF n
<1>5. \A kind, m : <<kind, m>> # <<"thread", n>> =>
          (<<kind, m>> \in allocated' <=> <<kind, m>> \in allocated)
  BY <1>2
<1>6. /\ Alone(c) /\ pc'[c] = "idle" /\ thread'[c] = NULL
      /\ \A S : pc[c] \in S => Same(c, S)
  <2>1. <<"thread", n>> \notin allocated'
    BY <1>2
  <2>2. \A u \in ThreadAreas : u \notin {n, NULL} =>
          (<<"thread", u>> \in allocated' <=> <<"thread", u>> \in allocated)
    BY <1>5
  <2> QED BY <1>1, <1>2, <1>3, <2>1, <2>2, Handing DEF n
<1>7. Same(c, Unlined) /\ Same(c, Uncounted)
  <2>1. pc[c] \in Unlined /\ pc[c] \in Uncounted
    BY <1>2 DEF Unlined, Uncounted
  <2> QED BY <1>6, <2>1
<1>8. Lined' = Lined /\ n \notin Lined /\ Existing' = Existing
  <2>1. Lined' = Lined
    BY <1>1, <1>6, <1>7, LinedStep
  <2>2. n \notin Lined
    <3>1. n \in Lined <=> pc[c] \notin Unlined
      BY <1>1, <1>4, <1>6, LinedStep DEF n
    <3> QED BY <1>2, <3>1 DEF Unlined, Uncounted
  <2>3. Existing' = Existing
    <3>1. \A p : <<"process", p>> \in allocated' <=> <<"process", p>> \in allocated
      BY <1>5
    <3> QED BY <3>1 DEF Existing
  <2> QED BY <2>1, <2>2, <2>3
<1>9. Chained' /\ Line' = Line /\ Queue' = Queue
  <2>1. /\ heap \in Heap
        /\ Linked(heap, "threads", Line) /\ Linked(heap, "processes", Queue)
        /\ "threads" \in Lists /\ "processes" \in Lists
    BY <1>1 DEF Chained, Lists
  <2>2. /\ \A i \in 1 .. Len(Line) : Line[i] # n
        /\ \A i \in 1 .. Len(Queue) : Queue[i] # n
    <3>1. /\ \A i \in 1 .. Len(Line) : Line[i] \in Lined
          /\ \A i \in 1 .. Len(Queue) : Queue[i] \in ProcessAreas
      BY ListsApart
    <3>2. n \notin ProcessAreas
      BY <1>4, AreasAssumption
    <3> QED BY <1>8, <3>1, <3>2
  <2>3. /\ heap' \in Heap
        /\ Linked(heap', "threads", Line) /\ Linked(heap', "processes", Queue)
    BY <1>2, <1>4, <2>1, <2>2, ClearedLinked
  <2>4. Members(Line) = Lined' /\ Members(Queue) = Existing'
    BY <1>1, <1>8 DEF Chained
  <2> QED BY <2>3, <2>4, ChainedNow
<1>10. \A t \in ThreadAreas : t # n => parent'[t] = parent[t]
  BY <1>1, <1>2 DEF AreasInv, Typed
<1>11. Filled'
  <2>1. Lined' \subseteq filled'
    BY <1>1, <1>2, <1>8 DEF Filled
  <2>2. ASSUME NEW d \in CPUs, pc'[d] \in {"lock add", "add"} PROVE thread'[d] \in filled'
    <3>1. d # c
      BY <1>6, <2>2
    <3>2. pc'[d] = pc[d] /\ thread'[d] = thread[d]
      BY <1>6, <3>1 DEF Alone
    <3>3. thread[d] \in filled
      BY <1>1, <2>2, <3>2 DEF Filled
    <3>4. thread[d] # n
      BY <1>1, <1>4, <3>1 DEF AreasInv, Held, n
    <3>5. filled' = filled \ {n}
      BY <1>2
    <3> QED BY <3>2, <3>3, <3>4, <3>5
  <2> QED BY <2>1, <2>2 DEF Filled
<1>12. ListsInv'
  <2>1. InOrder(c)'
    BY <1>6 DEF InOrder
  <2>2. ASSUME NEW d \in CPUs, d # c PROVE InOrder(d)'
    BY <1>2, <1>6, <1>9, <1>10, <2>2, OthersInOrder DEF n
  <2>3. \A d \in CPUs : InOrder(d)'
    BY <2>1, <2>2
  <2>4. (AreasInv /\ Chained /\ Filled /\ \A d \in CPUs : InOrder(d))' => ListsInv'
    BY DEF ListsInv
  <2> QED BY <1>9, <1>11, <2>3, <2>4
<1> QED BY <1>4, <1>6, <1>7, <1>9, <1>10, <1>12 DEF n

LEMMA PartsKept ==
    ASSUME ListsInv, AreasInv', NEW c \in CPUs,
           \/ AllocPart(c, "stack", "alloc stack", "alloc cpu")
           \/ AllocPart(c, "cpu", "alloc cpu", "alloc process")
           \/ FreePart(c, "cpu", "free cpu", "free stack")
           \/ FreePart(c, "stack", "free stack", "free thread")
    PROVE  ListsInv' /\ Line' = Line /\ Alone(c) /\ Same(c, Uncounted) /\ parent' = parent
<1>1. AreasInv
  BY DEF ListsInv
<1>2. /\ "alloc stack" \in Uncounted /\ "alloc cpu" \in Uncounted
      /\ "alloc process" \in Uncounted /\ "free cpu" \in Uncounted
      /\ "free stack" \in Uncounted /\ "free thread" \in Uncounted
      /\ \A place \in Uncounted : place \in Unlined /\ place \notin {"lock add", "add"}
  BY DEF Uncounted, Unlined
<1>3. Quiet(c) /\ Same(c, Uncounted) /\ parent' = parent
  <2>1. CASE AllocPart(c, "stack", "alloc stack", "alloc cpu")
    BY <1>1, <1>2, <2>1, QuietParts
  <2>2. CASE AllocPart(c, "cpu", "alloc cpu", "alloc process")
    BY <1>1, <1>2, <2>2, QuietParts
  <2>3. CASE FreePart(c, "cpu", "free cpu", "free stack")
    BY <1>1, <1>2, <2>3, QuietParts
  <2>4. CASE FreePart(c, "stack", "free stack", "free thread")
    BY <1>1, <1>2, <2>4, QuietParts
  <2> QED BY <2>1, <2>2, <2>3, <2>4
<1>4. pc'[c] \notin {"unlink", "discount", "drop"}
  <2>1. /\ pc' \in [CPUs -> {"idle"} \cup Early \cup Late \cup Scheduling \cup Destroying]
        /\ \E to \in {"alloc cpu", "alloc process", "free stack", "free thread",
                      "stopped"} : Go(c, pc[c], to)
    BY DEF AllocPart, FreePart, Free, Go, AreasInv, Typed
  <2> QED BY <1>1, <2>1, Goes
<1> QED BY <1>3, <1>4, QuietKept DEF Quiet
-----------------------------------------------------------------------------
(* Every step, and what follows.                                           *)

LEMMA ListsStart == Init => ListsInv
<1> SUFFICES ASSUME Init PROVE ListsInv
  OBVIOUS
<1>1. /\ heap = [threads |-> [start |-> NULL, end |-> NULL],
                 processes |-> [start |-> NULL, end |-> NULL],
                 next |-> [n \in Nodes |-> NULL], prev |-> [n \in Nodes |-> NULL]]
      /\ allocated = {} /\ pc = [c \in CPUs |-> "idle"]
  BY DEF Init
<1>2. heap \in Heap /\ \A l \in Lists : Linked(heap, l, <<>>)
  <2>1. heap \in Heap
    BY <1>1 DEF Heap, Ends
  <2>2. ASSUME NEW l \in Lists PROVE Linked(heap, l, <<>>)
    <3>1. heap[l].start = NULL /\ heap[l].end = NULL
      BY <1>1 DEF Lists
    <3> QED BY <3>1 DEF Linked
  <2> QED BY <2>1, <2>2
<1>3. Line = <<>> /\ Queue = <<>>
  BY <1>2, WalkFinds DEF Line, Queue, Lists
<1>4. Lined = {} /\ Existing = {} /\ Members(<<>>) = {}
  BY <1>1 DEF Lined, Out, Existing, Members
<1>5. Chained
  BY <1>2, <1>3, <1>4 DEF Chained, Lists
<1>6. \A c \in CPUs : pc[c] = "idle"
  BY <1>1
<1>7. Filled
  BY <1>4, <1>6 DEF Filled
<1>8. \A c \in CPUs : InOrder(c)
  BY <1>6 DEF InOrder
<1> QED BY <1>5, <1>7, <1>8, AreasStart DEF ListsInv

LEMMA ListsUnchanged ==
    ASSUME ListsInv, AreasInv',
           UNCHANGED <<heap, parent, filled, count, allocated, pc, thread>>
    PROVE  ListsInv'
<1>1. Chained'
  BY DEF ListsInv, Chained, Linked, Line, Queue, Members, Lined, Existing, Out, At
<1>2. Filled'
  BY DEF ListsInv, Filled, Lined, Out, At
<1>3. Line' = Line /\ Queue' = Queue
  BY DEF Line, Queue
<1>4. \A c \in CPUs : InOrder(c)'
  BY <1>3 DEF ListsInv, InOrder, NotFirst
<1> QED BY <1>1, <1>2, <1>4 DEF ListsInv

\* The steps of orderly callers are among those of all callers.
LEMMA OrderlySteps == [OrderlyNext]_vars => [Next]_vars
BY DEF OrderlyNext, OrderlyStep, Next

LEMMA ListsNext ==
    ASSUME ListsInv, [OrderlyNext]_vars
    PROVE  ListsInv'
<1>0. AreasInv /\ Filled /\ AreasInv'
  BY OrderlySteps, AreasNext DEF ListsInv
<1>1. ASSUME NEW c \in CPUs,
             \/ CallCreate(c) \/ CallSchedule(c) \/ Count(c) \/ Fill(c)
             \/ UnlockSchedule(c) \/ UnlockDestroy(c)
      PROVE  ListsInv'
  <2>1. Quiet(c)
    BY <1>0, <1>1, QuietMoves
  <2>2. pc'[c] \in {"lock create", "lock schedule", "fill", "lock add", "idle", "free cpu"}
    BY <1>0, <1>1, Goes DEF CallCreate, CallSchedule, Count, Fill, UnlockSchedule,
                            UnlockDestroy
  <2> QED BY <1>0, <2>1, <2>2, QuietKept
<1>2. ASSUME NEW c \in CPUs, CallDestroy(c) \/ AllocThread(c) \/ Fail(c) \/ UnlockCreate(c)
      PROVE  ListsInv'
  <2>1. Quiet(c) /\ pc'[c] \in {"lock destroy", "alloc stack", "idle"}
    BY <1>0, <1>2, QuietHands
  <2> QED BY <1>0, <2>1, QuietKept
<1>3. ASSUME NEW c \in CPUs,
             \/ AllocPart(c, "stack", "alloc stack", "alloc cpu")
             \/ AllocPart(c, "cpu", "alloc cpu", "alloc process")
             \/ FreePart(c, "cpu", "free cpu", "free stack")
             \/ FreePart(c, "stack", "free stack", "free thread")
      PROVE  ListsInv'
  BY <1>0, <1>3, PartsKept
<1>4. ASSUME NEW c \in CPUs, Step(c), pc[c] = "lock destroy" => Orderly(thread[c])
      PROVE  ListsInv'
  <2>1. CASE Astray(c)
    <3>1. UNCHANGED <<heap, parent, filled, count, allocated, pc, thread>>
      BY <2>1 DEF Astray
    <3> QED BY <1>0, <3>1, ListsUnchanged
  <2> QED BY <1>0, <1>1, <1>2, <1>3, <1>4, <2>1, AcquireKept, DiscountKept, AddThreadKept,
             UnlinkKept, AllocProcessKept, DropKept, FreeThreadKept DEF Step
<1>5. CASE UNCHANGED vars
  <2>1. UNCHANGED <<heap, parent, filled, count, allocated, pc, thread>>
    BY <1>5 DEF vars, locals
  <2> QED BY <1>0, <2>1, ListsUnchanged
<1> QED BY <1>1, <1>2, <1>4, <1>5 DEF OrderlyNext, OrderlyStep, Call

LEMMA ListsFollow ==
    ASSUME ListsInv
    PROVE  ListsHold
<1>1. Chained /\ Filled
  BY DEF ListsInv
<1>2. ASSUME NEW l \in Lists, NEW s, Linked(heap, l, s)
      PROVE  WellLinked(heap, l) /\ ToSet(Walk(heap, l)) = Members(s)
  <2>0. Walk(heap, l) = s /\ s \in Seq(Nodes)
    <3>1. Walk(heap, l) = s
      BY <1>2, WalkFinds
    <3>2. s \in Seq(Nodes)
      BY <1>2 DEF Linked
    <3> QED BY <3>1, <3>2
  <2>1. /\ Walk(heap, l) = s /\ Len(s) \in Nat /\ DOMAIN s = 1 .. Len(s)
        /\ (s = <<>> <=> Len(s) = 0)
    <3>1. Len(s) \in Nat /\ DOMAIN s = 1 .. Len(s)
      BY <2>0, LenProperties
    <3>2. s = <<>> <=> Len(s) = 0
      BY <2>0, EmptySeq
    <3> QED BY <2>0, <3>1, <3>2
  <2>2. /\ \A j, k \in DOMAIN s : s[j] = s[k] => j = k
        /\ heap[l].end = IF s = <<>> THEN NULL ELSE s[Len(s)]
        /\ s # <<>> => heap.next[s[Len(s)]] = NULL
    BY <1>2, <2>1 DEF Linked
  <2>3. ASSUME NEW k \in DOMAIN s
        PROVE  heap.prev[s[k]] = IF k = 1 THEN NULL ELSE s[k - 1]
    <3>1. CASE k = 1
      BY <1>2, <2>1, <2>3, <3>1 DEF Linked
    <3>2. CASE k # 1
      <4>1. k - 1 \in 1 .. (Len(s) - 1) /\ (k - 1) + 1 = k
        BY <2>1, <2>3, <3>2
      <4>2. heap.prev[s[(k - 1) + 1]] = s[k - 1]
        BY <1>2, <4>1 DEF Linked
      <4> QED BY <3>2, <4>1, <4>2
    <3> QED BY <3>1, <3>2
  <2>4. ToSet(s) = Members(s)
    BY <2>1 DEF ToSet, Members
  <2> QED BY <2>1, <2>2, <2>3, <2>4 DEF WellLinked
<1>3. /\ WellLinked(heap, "threads") /\ ToSet(Walk(heap, "threads")) = Lined
      /\ WellLinked(heap, "processes") /\ ToSet(Walk(heap, "processes")) = Existing
  BY <1>1, <1>2 DEF Chained, Lists
<1>4. Lined = {t \in Alive : ~At(t, {"fill", "lock add", "add", "discount"})}
  BY DEF Lined, Alive, Out, At, Unlined
<1> QED BY <1>1, <1>3, <1>4 DEF ListsHold, Existing, Filled

\* However many processors create, schedule and destroy threads, as long as none
\* removes the first of several elements: both lists of thread.c are linked both
\* ways and hold what is alive, and every thread in line has its registers.
THEOREM ListsKept == OrderlySpec => []ListsHold
<1>1. ListsInv /\ [OrderlyNext]_vars => ListsInv'
  BY ListsNext
<1>2. ListsInv => ListsHold
  BY ListsFollow
<1> QED BY <1>1, <1>2, ListsStart, PTL DEF OrderlySpec

-----------------------------------------------------------------------------
(* The promise of ThreadTable.                                             *)

Belongs == [t \in ThreadAreas |-> IF t \in Alive THEN parent[t] ELSE NULL]

\* What belongs to whom changes with Alive and with parent only.
LEMMA BelongsKept ==
    ASSUME AreasInv, AreasInv', NEW c \in CPUs, Alone(c), Same(c, Uncounted),
           \A t \in Alive : parent'[t] = parent[t]
    PROVE  Belongs' = Belongs
<1>1. Alive' = Alive
  BY LinedStep
<1>2. \A t \in ThreadAreas : (IF t \in Alive THEN parent'[t] ELSE NULL)
                               = (IF t \in Alive THEN parent[t] ELSE NULL)
  OBVIOUS
<1> QED BY <1>1, <1>2 DEF Belongs

\* The threads that are alive and out of the line again.
Left == {t \in Alive : At(t, {"discount"})}

\* They change with the processor that is at "discount" only.
LEMMA LeftStep ==
    ASSUME AreasInv, AreasInv', NEW c \in CPUs, Alone(c)
    PROVE  /\ \A t \in ThreadAreas : t \notin {thread[c], thread'[c]} =>
                (t \in Left' <=> t \in Left)
           /\ thread[c] # NULL => /\ thread[c] \in Left <=> pc[c] = "discount"
                                  /\ thread'[c] # thread[c] => thread[c] \notin Left'
           /\ thread'[c] # NULL => /\ thread'[c] \in Left' <=> pc'[c] = "discount"
                                   /\ thread'[c] # thread[c] => thread'[c] \notin Left
<1> DEFINE Now(t, S) == /\ <<"thread", t>> \in allocated'
                        /\ ~(\E d \in CPUs : thread'[d] = t /\ pc'[d] \in S)
           D == {"discount"}
<1>1. Left' = {t \in ThreadAreas : Now(t, Uncounted) /\ ~Now(t, D)}
  BY DEF Left, Alive, At, Uncounted
<1>2. Left = {t \in ThreadAreas : Out(t, Uncounted) /\ ~Out(t, D)}
  BY DEF Left, Alive, At, Out
<1>3. ASSUME NEW t \in ThreadAreas, NEW S
      PROVE  /\ t \notin {thread[c], thread'[c]} => (Now(t, S) <=> Out(t, S))
             /\ t = thread[c] => (Out(t, S) <=> pc[c] \notin S)
             /\ t = thread'[c] => (Now(t, S) <=> pc'[c] \notin S)
             /\ t = thread[c] /\ t # thread'[c] =>
                  (Now(t, S) <=> <<"thread", t>> \in allocated')
             /\ t = thread'[c] /\ t # thread[c] =>
                  (Out(t, S) <=> <<"thread", t>> \in allocated)
  BY OutStep
<1>4. /\ thread[c] \in ThreadAreas \cup {NULL}
      /\ thread'[c] \in ThreadAreas \cup {NULL}
  BY DEF AreasInv, Typed
<1>5. "discount" \notin Uncounted /\ \A x : x \in D <=> x = "discount"
  BY DEF Uncounted
<1> HIDE DEF Now, D
<1>6. \A t \in ThreadAreas : t \notin {thread[c], thread'[c]} =>
        (t \in Left' <=> t \in Left)
  BY <1>1, <1>2, <1>3
<1>7. ASSUME thread[c] # NULL
      PROVE  /\ thread[c] \in Left <=> pc[c] = "discount"
             /\ thread'[c] # thread[c] => thread[c] \notin Left'
  BY <1>1, <1>2, <1>3, <1>4, <1>5, <1>7
<1>8. ASSUME thread'[c] # NULL
      PROVE  /\ thread'[c] \in Left' <=> pc'[c] = "discount"
             /\ thread'[c] # thread[c] => thread'[c] \notin Left
  BY <1>1, <1>2, <1>3, <1>4, <1>5, <1>8
<1> QED BY <1>6, <1>7, <1>8

LEMMA LeftKept ==
    ASSUME AreasInv, AreasInv', NEW c \in CPUs, Alone(c),
           pc[c] # "discount", pc'[c] # "discount"
    PROVE  Left' = Left
<1>1. Left \subseteq ThreadAreas /\ Left' \subseteq ThreadAreas /\ NULL \notin ThreadAreas
  BY NodesAssumption, AreasAssumption DEF Left, Alive
<1>2. ASSUME NEW t \in ThreadAreas PROVE t \in Left' <=> t \in Left
  <2>1. CASE t \notin {thread[c], thread'[c]}
    BY <2>1, LeftStep
  <2>2. CASE t = thread[c]
    BY <1>1, <2>2, LeftStep
  <2>3. CASE t = thread'[c]
    BY <1>1, <2>3, LeftStep
  <2> QED BY <2>1, <2>2, <2>3
<1> QED BY <1>1, <1>2

\* The line and the processes of the threads, as ThreadTable has them.
Stutters == Belongs' = Belongs /\ Line' = Line /\ Left' = Left

LEMMA QuietStutters ==
    ASSUME ListsInv, AreasInv', NEW c \in CPUs, Quiet(c),
           Same(c, Uncounted), parent' = parent,
           pc[c] # "discount", pc'[c] # "discount"
    PROVE  Stutters
<1>1. AreasInv /\ Alone(c)
  BY DEF ListsInv, Quiet
<1>2. Line' = Line
  BY QuietKept
<1>3. Belongs' = Belongs
  BY <1>1, BelongsKept
<1>4. Left' = Left
  BY <1>1, LeftKept
<1> QED BY <1>2, <1>3, <1>4 DEF Stutters

\* All but two steps neither lead to "discount" nor away from it.
LEMMA NotDiscount ==
    ASSUME AreasInv, NEW c \in CPUs,
           \/ CallCreate(c) \/ CallDestroy(c) \/ CallSchedule(c) \/ Acquire(c) \/ Fill(c)
           \/ UnlockSchedule(c) \/ UnlockDestroy(c) \/ AllocThread(c) \/ Fail(c)
           \/ UnlockCreate(c) \/ AddThread(c) \/ Count(c) \/ AllocProcess(c) \/ Drop(c)
           \/ FreeThread(c)
           \/ AllocPart(c, "stack", "alloc stack", "alloc cpu")
           \/ AllocPart(c, "cpu", "alloc cpu", "alloc process")
           \/ FreePart(c, "cpu", "free cpu", "free stack")
           \/ FreePart(c, "stack", "free stack", "free thread")
    PROVE  pc[c] # "discount" /\ pc'[c] # "discount"
<1>1. \A to : pc' = [pc EXCEPT ![c] = to] => pc'[c] = to
  BY DEF AreasInv, Typed
<1>2. CASE CallCreate(c) \/ CallDestroy(c) \/ CallSchedule(c) \/ Fill(c) \/ UnlockSchedule(c)
           \/ UnlockDestroy(c)
  BY <1>1, <1>2 DEF CallCreate, CallDestroy, CallSchedule, Fill, UnlockSchedule,
                    UnlockDestroy, Go
<1>3. CASE Acquire(c)
  BY <1>3, Acquires
<1>4. CASE AllocThread(c) \/ Fail(c) \/ UnlockCreate(c) \/ AddThread(c) \/ Count(c)
           \/ AllocProcess(c)
  BY <1>1, <1>4 DEF AllocThread, Fail, UnlockCreate, AddThread, Count, AllocProcess, Go
<1>5. CASE Drop(c) \/ FreeThread(c)
  BY <1>1, <1>5 DEF Drop, FreeThread, Free, Go
<1>6. CASE \/ AllocPart(c, "stack", "alloc stack", "alloc cpu")
           \/ AllocPart(c, "cpu", "alloc cpu", "alloc process")
           \/ FreePart(c, "cpu", "free cpu", "free stack")
           \/ FreePart(c, "stack", "free stack", "free thread")
  BY <1>1, <1>6 DEF AllocPart, FreePart, Free, Go
<1> QED BY <1>2, <1>3, <1>4, <1>5, <1>6

LEMMA CountStarts ==
    ASSUME ListsInv, AreasInv', NEW c \in CPUs, Count(c)
    PROVE  /\ thread[c] \in ThreadAreas /\ Belongs[thread[c]] = NULL
           /\ \E p \in ProcessAreas : Belongs' = [Belongs EXCEPT ![thread[c]] = p]
           /\ Line' = Line /\ Left' = Left
<1> DEFINE n == thread[c]
<1>1. AreasInv /\ Filled
  BY DEF ListsInv
<1>2. Quiet(c)
  BY <1>1, QuietMoves
<1>3. Line' = Line
  BY <1>2, QuietKept
<1>4. pc[c] = "count" /\ pc'[c] = "fill" /\ thread' = thread
  BY <1>1, Goes DEF Count
<1>5. n # NULL /\ n \in ThreadAreas /\ process[c] \in ProcessAreas
  <2>1. n # NULL /\ process[c] \in ProcessAreas
    BY <1>1, <1>4, Idle DEF Working, Empty
  <2> QED BY <1>1, <2>1, PartsNow
<1>6. /\ \A t \in ThreadAreas : t # n => (t \in Alive' <=> t \in Alive)
      /\ n \notin Alive /\ n \in Alive'
  <2>1. /\ \A t \in ThreadAreas : t \notin {thread[c], thread'[c]} =>
             (t \in Alive' <=> t \in Alive)
        /\ thread[c] \in Alive <=> pc[c] \notin Uncounted
        /\ thread'[c] \in Alive' <=> pc'[c] \notin Uncounted
    BY <1>1, <1>2, <1>4, <1>5, LinedStep DEF Quiet
  <2> QED BY <1>4, <2>1 DEF Uncounted
<1>7. /\ parent'[n] = process[c]
      /\ \A t \in ThreadAreas : t # n => parent'[t] = parent[t]
  BY <1>1, <1>5 DEF Count, AreasInv, Typed
<1> HIDE DEF n
<1>8. Belongs[n] = NULL
  BY <1>5, <1>6 DEF Belongs
<1>9. Belongs' = [Belongs EXCEPT ![n] = process[c]]
  <2>1. ASSUME NEW t \in ThreadAreas
        PROVE  (IF t \in Alive' THEN parent'[t] ELSE NULL)
                 = IF t = n THEN process[c] ELSE IF t \in Alive THEN parent[t] ELSE NULL
    <3>1. CASE t = n
      BY <1>6, <1>7, <3>1
    <3>2. CASE t # n
      BY <1>6, <1>7, <3>2
    <3> QED BY <3>1, <3>2
  <2>2. Belongs' = [t \in ThreadAreas |-> IF t \in Alive' THEN parent'[t] ELSE NULL]
    BY DEF Belongs
  <2>3. [Belongs EXCEPT ![n] = process[c]]
          = [t \in ThreadAreas |-> IF t = n THEN process[c]
                                   ELSE IF t \in Alive THEN parent[t] ELSE NULL]
    BY <1>5 DEF Belongs
  <2> QED BY <2>1, <2>2, <2>3
<1>10. Left' = Left
  BY <1>1, <1>2, NotDiscount, LeftKept DEF Quiet
<1> QED BY <1>3, <1>5, <1>8, <1>9, <1>10 DEF n

LEMMA DiscountEnds ==
    ASSUME ListsInv, AreasInv', NEW c \in CPUs, Discount(c)
    PROVE  /\ thread[c] \in ThreadAreas
           /\ thread[c] \in Left /\ Left' = Left \ {thread[c]}
           /\ Belongs' = [Belongs EXCEPT ![thread[c]] = NULL]
           /\ Line' = Line
<1> DEFINE n == thread[c]
<1>1. AreasInv /\ Filled
  BY DEF ListsInv
<1>2. Quiet(c)
  BY <1>1, QuietMoves
<1>3. Line' = Line
  BY <1>2, QuietKept
<1>4. pc[c] = "discount" /\ pc'[c] = "drop" /\ thread' = thread /\ parent' = parent
  BY <1>1, Goes DEF Discount
<1>5. n # NULL /\ n \in ThreadAreas
  <2>1. n # NULL
    BY <1>1, <1>4, Idle DEF Working, Empty
  <2> QED BY <1>1, <2>1, PartsNow
<1>6. /\ \A t \in ThreadAreas : t # n => (t \in Alive' <=> t \in Alive)
      /\ n \in Alive /\ n \notin Alive' /\ n \notin Lined
  <2>1. /\ \A t \in ThreadAreas : t \notin {thread[c], thread'[c]} =>
             (t \in Alive' <=> t \in Alive)
        /\ thread[c] \in Alive <=> pc[c] \notin Uncounted
        /\ thread[c] \in Lined <=> pc[c] \notin Unlined
        /\ thread'[c] \in Alive' <=> pc'[c] \notin Uncounted
    BY <1>1, <1>2, <1>4, <1>5, LinedStep DEF Quiet
  <2> QED BY <1>4, <2>1 DEF Uncounted, Unlined
<1> HIDE DEF n
<1>7. n \in Left /\ Left' = Left \ {n}
  <2>1. Alone(c)
    BY <1>2 DEF Quiet
  <2>2. /\ \A t \in ThreadAreas : t # n => (t \in Left' <=> t \in Left)
        /\ n \in Left /\ n \notin Left'
    BY <1>1, <1>4, <1>5, <2>1, LeftStep DEF n
  <2>3. Left \subseteq ThreadAreas /\ Left' \subseteq ThreadAreas
    BY DEF Left, Alive
  <2> QED BY <2>2, <2>3
<1>8. Belongs' = [Belongs EXCEPT ![n] = NULL]
  <2>1. ASSUME NEW t \in ThreadAreas
        PROVE  (IF t \in Alive' THEN parent[t] ELSE NULL)
                 = IF t = n THEN NULL ELSE IF t \in Alive THEN parent[t] ELSE NULL
    BY <1>6
  <2>2. Belongs' = [t \in ThreadAreas |-> IF t \in Alive' THEN parent[t] ELSE NULL]
    BY <1>4 DEF Belongs
  <2>3. [Belongs EXCEPT ![n] = NULL]
          = [t \in ThreadAreas |-> IF t = n THEN NULL
                                   ELSE IF t \in Alive THEN parent[t] ELSE NULL]
    BY <1>5 DEF Belongs
  <2> QED BY <2>1, <2>2, <2>3
<1> QED BY <1>3, <1>5, <1>6, <1>7, <1>8 DEF n

\* Whether a thread is in line, as ThreadTable asks for it.
LEMMA InLine ==
    ASSUME ListsInv
    PROVE  /\ Line \in Seq(Nodes) /\ DOMAIN Line = 1 .. Len(Line)
           /\ \A t : t \notin Lined => ~Contains(Line, t)
           /\ \A t \in Alive : Belongs[t] # NULL
<1>1. Line \in Seq(Nodes)
  BY DEF ListsInv, Chained, Linked
<1>2. DOMAIN Line = 1 .. Len(Line) /\ Len(Line) \in Nat
  BY <1>1, LenProperties
<1>3. \A t : t \notin Lined => ~Contains(Line, t)
  <2>1. \A i \in 1 .. Len(Line) : Line[i] \in Lined
    BY ListsApart
  <2> QED BY <1>2, <2>1 DEF Contains
<1>4. ASSUME NEW t \in Alive PROVE Belongs[t] # NULL
  <2>1. t \in ThreadAreas /\ t \in Alive
    BY DEF Alive
  <2>2. parent[t] \in ProcessAreas
    BY <2>1 DEF ListsInv, AreasInv, Counted
  <2> QED BY <2>1, <2>2, NodesAssumption, AreasAssumption DEF Belongs
<1> QED BY <1>1, <1>2, <1>3, <1>4

\* Every step of thread.c for orderly callers is one of ThreadTable, or none.
LEMMA TableStep ==
    ASSUME ListsInv, [OrderlyNext]_vars
    PROVE  [Table!TableNext]_(Table!tableVars)
<1>0. AreasInv /\ Filled /\ AreasInv'
  BY OrderlySteps, AreasNext DEF ListsInv
<1>1. Stutters => UNCHANGED Table!tableVars
  BY DEF Stutters, Belongs, Line, Left, Table!tableVars
<1>2. ASSUME NEW t \in ThreadAreas, Belongs[t] = NULL, Line' = Line, Left' = Left,
             \E p \in ProcessAreas : Belongs' = [Belongs EXCEPT ![t] = p]
      PROVE  Table!Start(t)
  BY <1>2 DEF Table!Start, Belongs, Line, Left
<1>3. ASSUME NEW t \in ThreadAreas, Belongs[t] # NULL, ~Contains(Line, t), t \notin Left,
             Line' = Append(Line, t), Belongs' = Belongs, Left' = Left
      PROVE  Table!LineUp(t)
  <2>1. ~Table!Contains(Line, t)
    BY <1>3 DEF Contains, Table!Contains
  <2> QED BY <1>3, <2>1 DEF Table!LineUp, Belongs, Line, Left
<1>4. ASSUME NEW t \in ThreadAreas, Belongs' = Belongs, Left' = Left \cup {t},
             \E k \in DOMAIN Line : Line[k] = t /\ Line' = RemoveAt(Line, k)
      PROVE  Table!StepOut(t)
  <2>1. \A k : Table!RemoveAt(Line, k) = RemoveAt(Line, k)
    BY DEF RemoveAt, Table!RemoveAt
  <2> QED BY <1>4, <2>1 DEF Table!StepOut, Belongs, Line, Left
<1>5. ASSUME NEW t \in ThreadAreas, t \in Left, Left' = Left \ {t},
             Belongs' = [Belongs EXCEPT ![t] = NULL], Line' = Line
      PROVE  Table!End(t)
  BY <1>5 DEF Table!End, Belongs, Line, Left
<1>6. ASSUME NEW c \in CPUs, Count(c)
      PROVE  Table!TableNext
  <2>1. PICK t \in ThreadAreas :
          /\ Belongs[t] = NULL /\ Line' = Line /\ Left' = Left
          /\ \E p \in ProcessAreas : Belongs' = [Belongs EXCEPT ![t] = p]
    BY <1>0, <1>6, CountStarts
  <2>2. Table!Start(t)
    BY <1>2, <2>1
  <2> QED BY <2>2 DEF Table!TableNext
<1>7. ASSUME NEW c \in CPUs, AddThread(c)
      PROVE  Table!TableNext
  <2>1. PICK t \in ThreadAreas : /\ t = thread[c] /\ ~Contains(Line, t)
                                 /\ Line' = Append(Line, t)
    BY <1>0, <1>7, AddThreadKept, InLine
  <2>2. Belongs' = Belongs
    BY <1>0, <1>7, AddThreadKept, BelongsKept
  <2>3. Belongs[t] # NULL
    <3>1. pc[c] = "add"
      BY <1>7 DEF AddThread, Go
    <3>2. t \in Alive
      BY <1>0, <2>1, <3>1, PartsNow, NodesAssumption, AreasAssumption DEF Uncounted
    <3> QED BY <3>2, InLine
  <2>4. t \notin Left /\ Left' = Left
    <3>1. pc[c] # "discount" /\ pc'[c] # "discount" /\ Alone(c)
      BY <1>0, <1>7, NotDiscount, AddThreadKept
    <3>2. thread[c] # NULL
      BY <2>1, NodesAssumption, AreasAssumption
    <3> QED BY <1>0, <2>1, <3>1, <3>2, LeftStep, LeftKept
  <2>5. Table!LineUp(t)
    BY <1>3, <2>1, <2>2, <2>3, <2>4
  <2> QED BY <2>5 DEF Table!TableNext
<1>8. ASSUME NEW c \in CPUs, Unlink(c)
      PROVE  Table!TableNext
  <2>1. PICK t \in ThreadAreas :
          /\ t = thread[c]
          /\ \E k \in DOMAIN Line : Line[k] = t /\ Line' = RemoveAt(Line, k)
    BY <1>0, <1>8, UnlinkKept, InLine
  <2>2. Belongs' = Belongs
    BY <1>0, <1>8, UnlinkKept, BelongsKept
  <2>3. Left' = Left \cup {t}
    <3>1. Alone(c) /\ pc'[c] = "discount" /\ thread'[c] = t
      BY <1>0, <1>8, <2>1, Goes, UnlinkKept DEF Unlink
    <3>2. t # NULL
      BY NodesAssumption, AreasAssumption
    <3>3. \A u \in ThreadAreas : u \in Left' <=> u \in Left \/ u = t
      BY <1>0, <2>1, <3>1, <3>2, LeftStep
    <3>4. Left \subseteq ThreadAreas /\ Left' \subseteq ThreadAreas
      BY DEF Left, Alive
    <3> QED BY <3>3, <3>4
  <2>4. Table!StepOut(t)
    BY <1>4, <2>1, <2>2, <2>3
  <2> QED BY <2>4 DEF Table!TableNext
<1>9. ASSUME NEW c \in CPUs, Discount(c)
      PROVE  Table!TableNext
  <2>1. PICK t \in ThreadAreas :
          /\ t \in Left /\ Left' = Left \ {t}
          /\ Belongs' = [Belongs EXCEPT ![t] = NULL] /\ Line' = Line
    BY <1>0, <1>9, DiscountEnds
  <2>2. Table!End(t)
    BY <1>5, <2>1
  <2> QED BY <2>2 DEF Table!TableNext
<1>10. ASSUME NEW c \in CPUs,
              \/ CallCreate(c) \/ CallSchedule(c) \/ Acquire(c) \/ Fill(c)
              \/ UnlockSchedule(c) \/ UnlockDestroy(c)
       PROVE  Stutters
  <2>1. Quiet(c) /\ (~Count(c) /\ ~Discount(c) => Same(c, Uncounted) /\ parent' = parent)
    BY <1>0, <1>10, QuietMoves
  <2>2. ~Count(c) /\ ~Discount(c)
    <3>1. pc[c] \in {"idle", "lock create", "lock add", "lock schedule", "lock destroy",
                     "fill", "unlock schedule", "unlock destroy"}
      BY <1>0, <1>10, Acquires DEF CallCreate, CallSchedule, Fill, UnlockSchedule,
                                   UnlockDestroy, Go
    <3> QED BY <3>1 DEF Count, Discount, Go
  <2> QED BY <1>0, <1>10, <2>1, <2>2, QuietStutters, NotDiscount
<1>11. ASSUME NEW c \in CPUs, CallDestroy(c) \/ AllocThread(c) \/ Fail(c) \/ UnlockCreate(c)
       PROVE  Stutters
  BY <1>0, <1>11, QuietHands, QuietStutters, NotDiscount
<1>12. ASSUME NEW c \in CPUs,
              \/ AllocPart(c, "stack", "alloc stack", "alloc cpu")
              \/ AllocPart(c, "cpu", "alloc cpu", "alloc process")
              \/ FreePart(c, "cpu", "free cpu", "free stack")
              \/ FreePart(c, "stack", "free stack", "free thread")
       PROVE  Stutters
  <2>1. pc[c] # "discount" /\ pc'[c] # "discount"
    BY <1>0, <1>12, NotDiscount
  <2> QED BY <1>0, <1>12, <2>1, PartsKept, BelongsKept, LeftKept DEF Stutters
<1>13. ASSUME NEW c \in CPUs, AllocProcess(c) \/ Drop(c)
       PROVE  Stutters
  <2>1. Line' = Line /\ Alone(c) /\ Same(c, Uncounted) /\ parent' = parent
    BY <1>0, <1>13, AllocProcessKept, DropKept
  <2>2. pc[c] # "discount" /\ pc'[c] # "discount"
    BY <1>0, <1>13, NotDiscount
  <2> QED BY <1>0, <2>1, <2>2, BelongsKept, LeftKept DEF Stutters
<1>14. ASSUME NEW c \in CPUs, FreeThread(c)
       PROVE  Stutters
  <2>1. /\ Line' = Line /\ Alone(c) /\ Same(c, Uncounted) /\ thread[c] \notin Alive
        /\ \A t \in ThreadAreas : t # thread[c] => parent'[t] = parent[t]
    BY <1>0, <1>14, FreeThreadKept
  <2>2. \A t \in Alive : parent'[t] = parent[t]
    BY <2>1 DEF Alive
  <2>3. pc[c] # "discount" /\ pc'[c] # "discount"
    BY <1>0, <1>14, NotDiscount
  <2> QED BY <1>0, <2>1, <2>2, <2>3, BelongsKept, LeftKept DEF Stutters
<1>15. ASSUME UNCHANGED <<heap, parent, allocated, pc, thread>>
       PROVE  Stutters
  BY <1>15 DEF Stutters, Belongs, Line, Left, Alive, At
<1>16. ASSUME NEW c \in CPUs, Astray(c)
       PROVE  Stutters
  BY <1>15, <1>16 DEF Astray
<1>17. CASE UNCHANGED vars
  BY <1>1, <1>15, <1>17 DEF vars, locals
<1>18. ASSUME NEW c \in CPUs, Step(c) PROVE Stutters \/ Table!TableNext
  BY <1>6, <1>7, <1>8, <1>9, <1>10, <1>11, <1>12, <1>13, <1>14, <1>16, <1>18 DEF Step
<1> QED BY <1>1, <1>10, <1>11, <1>17, <1>18 DEF OrderlyNext, OrderlyStep, Call

LEMMA TableStart == Init => Table!TableInit
<1> SUFFICES ASSUME Init PROVE Table!TableInit
  OBVIOUS
<1>1. Chained /\ allocated = {}
  BY ListsStart DEF ListsInv, Init
<1>2. Lined = {} /\ Alive = {}
  BY <1>1 DEF Lined, Out, Alive
<1>3. Line = <<>>
  <2>1. Line \in Seq(Nodes) /\ Members(Line) = {}
    BY <1>1, <1>2 DEF Chained, Linked
  <2>2. Len(Line) \in Nat /\ (Line # <<>> => Len(Line) \in Nat \ {0})
    BY <2>1, LenProperties, EmptySeq
  <2>3. Len(Line) > 0 => Line[1] \in Members(Line)
    BY <2>2 DEF Members
  <2> QED BY <2>1, <2>2, <2>3
<1>4. Belongs = [t \in ThreadAreas |-> NULL]
  BY <1>2 DEF Belongs
<1>5. Left = {}
  BY <1>2 DEF Left
<1> QED BY <1>3, <1>4, <1>5 DEF Table!TableInit, Belongs, Line, Left

\* thread.c implements ThreadTable, whatever the number of processors, as long as
\* none removes the first of several elements: a thread is of one process from
\* its start to its end, gets in line at most once, has been in line and left it
\* when it ends, and the line is first come, first served.
THEOREM TableImplemented == OrderlySpec => ImplementsTable
<1>1. Init => ListsInv /\ Table!TableInit
  BY ListsStart, TableStart
<1>2. ListsInv /\ [OrderlyNext]_vars => ListsInv'
  BY ListsNext
<1>3. ListsInv /\ [OrderlyNext]_vars => [Table!TableNext]_(Table!tableVars)
  BY TableStep
<1> QED BY <1>1, <1>2, <1>3, PTL DEF OrderlySpec, ImplementsTable, Table!TableSpec
=============================================================================

