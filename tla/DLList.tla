------------------------------- MODULE DLList -------------------------------
(***************************************************************************)
(* help/list.h: a doubly linked list of nodes that lie in memory.  A heap  *)
(* has a field [start, end] for every list, and "next" and "prev" for      *)
(* every node.  "data" of a node is the area it lies in, so a node and     *)
(* what it stands for have the same name here.                             *)
(***************************************************************************)
EXTENDS Naturals, Sequences, FiniteSets

CONSTANTS
    Nodes,      \* all addresses a node may have
    Steps       \* how far a walk is followed: no list is longer, memory is finite

NULL == 0

ASSUME NodesAssumption == /\ NULL \notin Nodes
                          /\ Steps \in Nat
                          /\ IsFiniteSet(Nodes) /\ Cardinality(Nodes) <= Steps

\* The elements a walk along "next" visits from "start", until it meets NULL.
Walk(h, l) ==
    LET after == [n \in Nodes \cup {NULL} |-> IF n = NULL THEN NULL ELSE h.next[n]]
        node[k \in 1 .. Steps] == IF k = 1 THEN h[l].start ELSE after[node[k - 1]]
    IN  [k \in {j \in 1 .. Steps : node[j] # NULL} |-> node[k]]

\* Variant: the link back is forgotten.
ADD_forward(h, l, n) ==
    [h EXCEPT ![l] = [start |-> IF @.end = NULL THEN n ELSE @.start, end |-> n],
              !.next = IF h[l].end = NULL THEN [@ EXCEPT ![n] = NULL]
                       ELSE [@ EXCEPT ![h[l].end] = n, ![n] = NULL]]

\* Variant: before the first element.
ADD_front(h, l, n) ==
    [h EXCEPT ![l] = [start |-> n, end |-> IF @.end = NULL THEN n ELSE @.end],
              !.next = [@ EXCEPT ![n] = h[l].start],
              !.prev = IF h[l].start = NULL THEN [@ EXCEPT ![n] = NULL]
                       ELSE [@ EXCEPT ![h[l].start] = n, ![n] = NULL]]

\* Behind the last element.
HELP_DLLIST_ADD(h, l, n) ==
    [h EXCEPT ![l] = [start |-> IF @.end = NULL THEN n ELSE @.start, end |-> n],
              !.next = IF h[l].end = NULL THEN [@ EXCEPT ![n] = NULL]
                       ELSE [@ EXCEPT ![h[l].end] = n, ![n] = NULL],
              !.prev = [@ EXCEPT ![n] = h[l].end]]

\* The walk reads "data" of the node at NULL before it
\* stops there, which is a read of address 0, and harmless.
HELP_DLLIST_FIND(h, l, d) ==
    IF \E k \in DOMAIN Walk(h, l) : Walk(h, l)[k] = d THEN d ELSE NULL

\* Without its first element a list has no start, though
\* others may follow.
HELP_DLLIST_REMOVE(h, l, n) ==
    IF HELP_DLLIST_FIND(h, l, n) = NULL THEN h
    ELSE LET before == h.prev[n]  after == h.next[n]
         IN  [h EXCEPT ![l] = [start |-> IF @.start = n THEN NULL ELSE @.start,
                               end |-> IF @.end = n THEN before ELSE @.end],
                       !.next = IF before = NULL THEN @ ELSE [@ EXCEPT ![before] = after],
                       !.prev = IF after = NULL THEN @ ELSE [@ EXCEPT ![after] = before]]

-----------------------------------------------------------------------------
\* A list whose links agree: no element twice, "prev" is "next" backwards, and
\* "end" is the last.
WellLinked(h, l) ==
    LET w == Walk(h, l)
    IN  /\ \A j, k \in DOMAIN w : w[j] = w[k] => j = k
        /\ \A k \in DOMAIN w : h.prev[w[k]] = IF k = 1 THEN NULL ELSE w[k - 1]
        /\ h[l].end = IF w = <<>> THEN NULL ELSE w[Len(w)]
        /\ w # <<>> => h.next[w[Len(w)]] = NULL
=============================================================================
