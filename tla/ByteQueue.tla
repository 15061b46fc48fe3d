------------------------------ MODULE ByteQueue ------------------------------
(***************************************************************************)
(* What a fifo_t promises the two contexts that share it: a queue of at    *)
(* most Cap bytes.  A byte offered to a full queue is lost and counted; no *)
(* other byte is lost, and bytes leave in the order they came.             *)
(***************************************************************************)
EXTENDS Naturals, Sequences

CONSTANTS Bytes, Cap

VARIABLES
  q,     \* the bytes held, oldest first
  out,   \* the byte taken last
  lost   \* how many were refused

qVars == <<q, out, lost>>

QInit == q = <<>> /\ out \in Bytes /\ lost = 0

Put(b) == Len(q) < Cap /\ q' = Append(q, b) /\ UNCHANGED <<out, lost>>

Refuse == Len(q) = Cap /\ lost' = lost + 1 /\ UNCHANGED <<q, out>>

Take == q # <<>> /\ out' = Head(q) /\ q' = Tail(q) /\ UNCHANGED lost

Discard == q # <<>> /\ q' = Tail(q) /\ UNCHANGED <<out, lost>>

QNext == (\E b \in Bytes : Put(b)) \/ Refuse \/ Take \/ Discard

QSpec == QInit /\ [][QNext]_qVars
=============================================================================
