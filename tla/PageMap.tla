------------------------------ MODULE PageMap ------------------------------
(***************************************************************************)
(* What paging_map promises: a call makes one page show the frame asked    *)
(* for, at once, before it returns, and changes no other page.             *)
(***************************************************************************)
EXTENDS Naturals

CONSTANTS
    CPUs,       \* the processors that call
    None        \* no request

VARIABLES
    mapping,    \* the pages mapped, with the frame each shows and its flags
    request     \* what each processor waits for, "answered" before it returns

mapVars == <<mapping, request>>

Answered == [page |-> 0, frame |-> 0, flags |-> {}]

MapInit == /\ mapping = <<>>
           /\ request = [p \in CPUs |-> None]

Ask(p) == /\ request[p] = None
          /\ request'[p] # None
          /\ request' = [request EXCEPT ![p] = request'[p]]
          /\ UNCHANGED mapping

Fulfil(p) ==
    /\ request[p] \notin {None, Answered}
    /\ request' = [request EXCEPT ![p] = Answered]
    /\ LET r == request[p]
       IN  mapping' = [page \in DOMAIN mapping \cup {r.page} |->
                         IF page = r.page THEN [frame |-> r.frame, flags |-> r.flags \ {"pat"}]
                         ELSE mapping[page]]

Return(p) == /\ request[p] = Answered
             /\ request' = [request EXCEPT ![p] = None]
             /\ UNCHANGED mapping

MapNext == \E p \in CPUs : Ask(p) \/ Fulfil(p) \/ Return(p)

MapSpec == MapInit /\ [][MapNext]_mapVars
=============================================================================
