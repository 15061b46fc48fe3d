---------------------------- MODULE MCBiosDisk ----------------------------
(***************************************************************************)
(* A disk of two heads with two sectors to a track, and a read that goes   *)
(* from one cylinder and head to the next.  One device on the master, one  *)
(* on the slave.                                                           *)
(***************************************************************************)
EXTENDS BiosDisk

MCReads == {[from |-> 3, n |-> 2]}
===========================================================================
