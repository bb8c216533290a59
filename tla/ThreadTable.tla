----------------------------- MODULE ThreadTable ----------------------------
(***************************************************************************)
(* What thread.c promises: a thread belongs to one process from its start  *)
(* to its end, waits in line once, after its start, and has left the line  *)
(* when it ends; the line is first come, first served, which is what       *)
(* thread_schedule is to follow.  That a thread which has started ever     *)
(* gets in line is not promised here.                                      *)
(***************************************************************************)
EXTENDS Naturals, Sequences, SequencesExt

CONSTANTS
    Threads,    \* all there may ever be
    Processes,
    None        \* no process, and none of Processes

VARIABLES
    process,    \* the process of each thread, None for a thread that is not alive
    line,       \* the threads that may be scheduled, in order
    left        \* those that are alive and have left the line

tableVars == <<process, line, left>>

TableInit == /\ process = [t \in Threads |-> None]
             /\ line = <<>>
             /\ left = {}

Start(t) == /\ process[t] = None
            /\ \E p \in Processes : process' = [process EXCEPT ![t] = p]
            /\ UNCHANGED <<line, left>>

LineUp(t) == /\ process[t] # None /\ ~Contains(line, t) /\ t \notin left
             /\ line' = Append(line, t)
             /\ UNCHANGED <<process, left>>

StepOut(t) == /\ \E k \in DOMAIN line : line[k] = t /\ line' = RemoveAt(line, k)
              /\ left' = left \cup {t}
              /\ UNCHANGED process

End(t) == /\ t \in left
          /\ process' = [process EXCEPT ![t] = None]
          /\ left' = left \ {t}
          /\ UNCHANGED line

TableNext == \E t \in Threads : Start(t) \/ LineUp(t) \/ StepOut(t) \/ End(t)

TableSpec == TableInit /\ [][TableNext]_tableVars
=============================================================================
