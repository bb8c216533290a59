----------------------------- MODULE MCMemorySmp ----------------------------
(***************************************************************************)
(* Two processors on a machine of 32 addresses: two blocks of RAM, one of  *)
(* them too small for the larger request.                                  *)
(***************************************************************************)
EXTENDS MemorySmp

CONSTANTS p1, p2

Block(h, a, s) == [hdr |-> h, addr |-> a, size |-> s, freeable |-> TRUE]
Fixed(h, a, s) == [hdr |-> h, addr |-> a, size |-> s, freeable |-> FALSE]

MCBootFree == {Block(1, 2, 5), Block(14, 15, 8)}
MCBootUsed == {Block(12, 13, 1), Fixed(13, 7, 5)}

MCRequests == {[size |-> 2, limit |-> 0, align |-> 0],
               [size |-> 3, limit |-> 6, align |-> 0]}

MCCPUs == {p1, p2}
=============================================================================
