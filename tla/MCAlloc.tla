------------------------------- MODULE MCAlloc -------------------------------
(***************************************************************************)
(* A small arena across the 16/32-bit boundary, an unaligned base, and     *)
(* blocks of 5 slots, the smallest for which the 0.7 threshold reserves    *)
(* enough; so a second and a third block are needed after a few splits.    *)
(***************************************************************************)
EXTENDS Alloc

CONSTANTS
  MaxLive,  \* bound: regions held at once
  MaxOps    \* bound: calls of alloc() and free()

VARIABLE ops \* calls made

MCRequests ==
  {[sz |-> 3, al |-> 2, low |-> FALSE],
   [sz |-> 2, al |-> 4, low |-> FALSE],
   [sz |-> 1, al |-> 2, low |-> TRUE],
   [sz |-> 0, al |-> 2, low |-> FALSE]}

MCNext ==
  /\ Next
  /\ Cardinality(live') <= MaxLive
  /\ ops < MaxOps /\ ops' = ops + 1

MCInit == Init /\ ops = 0

MCSpec == MCInit /\ [][MCNext]_<<vars, ops>>
=============================================================================
