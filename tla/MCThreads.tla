------------------------------ MODULE MCThreads -----------------------------
(***************************************************************************)
(* Two processors, memory for three threads in two processes.              *)
(***************************************************************************)
EXTENDS Threads

CONSTANTS cpu1, cpu2

MCCPUs == {cpu1, cpu2}
MCThreadAreas == 1 .. 3
MCProcessAreas == 4 .. 5
MCNodes == MCThreadAreas \cup MCProcessAreas
=============================================================================
