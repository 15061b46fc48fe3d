-------------------------------- MODULE Heap --------------------------------
(***************************************************************************)
(* What alloc() and free() of mm/alloc.c promise their callers, with no    *)
(* table of entries: a set of live regions, each inside the arena and the  *)
(* memory range it was asked for, and no two sharing a byte.  The          *)
(* allocator may also take regions for itself (its own entry blocks):      *)
(* those are never handed out and never come back.                         *)
(***************************************************************************)
EXTENDS Integers

CONSTANTS
  ArenaLo, ArenaHi, \* the arena is [ArenaLo, ArenaHi)
  BlockBytes,       \* size of a block of the allocator
  Low,              \* 0x10000, first byte of the 32-bit range
  Requests          \* what callers may ask for: [sz, al, low]

VARIABLES
  live,             \* regions callers hold: [addr, size, req]
  kept,             \* regions the allocator took for itself: [addr, size]
  halted            \* panic() has been called

heapVars == <<live, kept, halted>>

Disjoint(r, s) == r.addr + r.size <= s.addr \/ s.addr + s.size <= r.addr

InArena(r) == ArenaLo <= r.addr /\ r.addr + r.size <= ArenaHi

(* A region where nothing is: the only thing a caller may be given. *)
Fresh(r, taken) == InArena(r) /\ \A s \in taken : Disjoint(r, s)

(* The request's memory range and alignment (alloc.h, ALLOC_FLAG_...). *)
Suits(r) ==
  /\ r.size = r.req.sz
  /\ r.addr % r.req.al = 0
  /\ IF r.req.low THEN r.addr + r.size <= Low ELSE r.addr >= Low

Places(q) == {[addr |-> a, size |-> q.sz, req |-> q] : a \in ArenaLo .. ArenaHi}

HeapInit == live = {} /\ kept = {} /\ halted = FALSE

(* A region for a caller, and perhaps a block for the allocator itself. *)
Grant ==
  /\ ~halted
  /\ \E K \in {{}} \cup {{[addr |-> a, size |-> BlockBytes]} : a \in ArenaLo .. ArenaHi} :
       /\ \A b \in K : Fresh(b, live \cup kept)
       /\ kept' = kept \cup K
  /\ \E q \in Requests : \E r \in Places(q) :
       /\ Fresh(r, live \cup kept') /\ Suits(r)
       /\ live' = live \cup {r}
  /\ UNCHANGED halted

Release ==
  /\ ~halted
  /\ \E r \in live : live' = live \ {r}
  /\ UNCHANGED <<kept, halted>>

Halt ==
  /\ ~halted /\ halted' = TRUE
  /\ UNCHANGED <<live, kept>>

HeapNext == Grant \/ Release \/ Halt

HeapSpec == HeapInit /\ [][HeapNext]_heapVars
=============================================================================
