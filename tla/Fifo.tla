-------------------------------- MODULE Fifo --------------------------------
(***************************************************************************)
(* The ring buffer of data/fifo.c: the index arithmetic of one fifo_t of   *)
(* Depth bytes.  head and tail are volatile and shared by the main context *)
(* and an interrupt handler without a lock, and fifo_getused and           *)
(* fifo_getfree load each of them twice, once to compare and once to       *)
(* subtract; so the operators below take both samples of the index the     *)
(* other context may move.  size_t wraps at Word.                          *)
(***************************************************************************)
EXTENDS Integers

CONSTANTS
  Depth,  \* fifo->size
  Word    \* 2^32, the modulus of size_t

ASSUME FifoAssumption ==
  /\ Depth \in Nat /\ Depth > 1
  /\ Word \in Nat /\ Word > 2 * Depth

Slots == 0 .. Depth - 1

(* An index between its increment and its wrap may equal Depth. *)
Index == 0 .. Depth

Minus(x, y) == IF x >= y THEN x - y ELSE x - y + Word

WrappedLate(x) == IF x > Depth THEN 0 ELSE x \* mutant: off by one

Wrapped(x) == IF x >= Depth THEN 0 ELSE x

(* fifo_getused: head, with the tail compared and the tail subtracted. *)
GetUsed(h, t0, t1) ==
  IF h <= t0 THEN Minus(t1, h) ELSE Minus(Depth, Minus(h, t1))

GetFreeAll(h0, h1, t) == \* mutant: the gap between tail and head is used
  IF h0 <= t THEN Minus(Depth, Minus(t, h1)) ELSE Minus(h1, t)

(* fifo_getfree: the head compared and the head subtracted, with tail. *)
GetFree(h0, h1, t) ==
  IF h0 <= t THEN Minus(Depth, Minus(t, h1)) - 1
             ELSE Minus(Minus(h1, t), 1)

Stored(b, t, x) == [b EXCEPT ![t] = x]

(* What is really in the ring. *)
Held(h, t) == IF Wrapped(h) <= Wrapped(t) THEN Wrapped(t) - Wrapped(h)
              ELSE Depth - (Wrapped(h) - Wrapped(t))

(* The slot of the i-th of these bytes, and all of them, oldest first. *)
Cell(h, i) ==
  LET s == Wrapped(h) + i - 1 IN IF s < Depth THEN s ELSE s - Depth

Queued(b, h, t) == [i \in 1 .. Held(h, t) |-> b[Cell(h, i)]]
=============================================================================
