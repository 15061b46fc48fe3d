-------------------------------- MODULE MCFat --------------------------------
(***************************************************************************)
(* A medium of eight clusters with a file of three of them, out of order   *)
(* and with FAT entries that cross a sector, a directory of two, and a     *)
(* root directory of two.                                                  *)
(***************************************************************************)
EXTENDS Fat

MCFiles ==
  {[kind |-> "root", chain |-> <<>>,        size |-> 0],
   [kind |-> "dir",  chain |-> <<3, 8>>,    size |-> 0],
   [kind |-> "file", chain |-> <<5, 2, 4>>, size |-> 3 * Cs - 1]}

(* Reads from a cluster's beginning, and reads within a cluster.           *)
SomeReads ==
  {[sz |-> n, off |-> o] :
     n \in {1, Cs, Cs + 1, 3 * Cs - 1}, o \in {0, Cs, 2 * Cs}}
  \cup {[sz |-> Cs - 1, off |-> o] : o \in {1, Cs + 1}}
  \cup {[sz |-> 0, off |-> o] : o \in {0, 2 * Cs}}

(* A read that begins within a cluster and ends in another.                *)
CrossingReads == {[sz |-> Cs, off |-> 1]}

Image(clust, rank) ==
  [clust |-> clust, rank |-> rank, buf |-> [i \in Lines |-> 0]]

(* What alloc() hands out: zeros, or left-over bytes that name no sector.  *)
Left == {Image([i \in Lines |-> 0], [i \in Lines |-> 0]),
         Image([i \in Lines |-> -1], [i \in Lines |-> 255 - 7 * i]),
         Image([i \in Lines |-> -1], [i \in Lines |-> i % 2])}
==============================================================================
