-------------------------------- MODULE Alloc --------------------------------
(***************************************************************************)
(* The heap of the second stage: mm/alloc.c.                               *)
(*                                                                         *)
(* The allocator keeps one table of entries, stored in a chain of blocks   *)
(* of BlockSz slots; the slots of the chain are one function here, in      *)
(* chain order.  A slot holds an entry describing a used or a free region, *)
(* or is empty (ALLOCENT_FLAG_VALID clear).  Further blocks are allocated  *)
(* from the heap itself, in the middle of an allocation.                   *)
(*                                                                         *)
(* alloc() and free() run in the main context only, never in a handler, so *)
(* each is one step.  `live' is the ledger of the callers: what they were  *)
(* given and have not freed.                                               *)
(***************************************************************************)
EXTENDS Integers, FiniteSets, Sequences

CONSTANTS
  BlockSz,     \* ALLOC_BLOCK_SZ
  BlockBytes,  \* sizeof(alloc_block_t)
  Base, Size,  \* arguments of alloc_init
  MinAlign,    \* MIN_ALIGN
  Low,         \* 0x10000
  Top,         \* 0xFFFFFFFF
  Requests,    \* [sz, al, low]: size, alignment, ALLOC_FLAG_16B
  Strays       \* addresses free() may be called with by mistake

ASSUME AllocAssumption ==
  /\ BlockSz \in Nat /\ BlockSz >= 5
  /\ {BlockBytes, MinAlign} \subseteq Nat \ {0}
  /\ Strays \subseteq Nat
  /\ {Base, Size, Low, Top} \subseteq Nat
  /\ Low <= Top
  /\ Base + MinAlign + BlockBytes < Base + Size
  /\ Requests \subseteq [sz : Nat, al : Nat \ {0}, low : BOOLEAN]

VARIABLES
  slots,       \* the entry table
  blocks,      \* addresses of the blocks of the chain
  live,        \* callers' ledger: [addr, size, req]
  panicked     \* "no", or why panic() was called

vars == <<slots, blocks, live, panicked>>

------------------------------------------------------------------------------
Empty == [flag |-> "empty", addr |-> 0, size |-> 0]
FreeEnt(a, s) == [flag |-> "free", addr |-> a, size |-> s]
UsedEnt(a, s) == [flag |-> "used", addr |-> a, size |-> s]

RoundUp(x, al) == IF x % al = 0 THEN x ELSE x + (al - (x % al))

Later(x, y) == IF x < y THEN y ELSE x
Sooner(x, y) == IF x < y THEN x ELSE y

Valid(t) == {i \in DOMAIN t : t[i].flag # "empty"}
FreeIn(t) == {i \in DOMAIN t : t[i].flag = "free"}
UsedIn(t) == {i \in DOMAIN t : t[i].flag = "used"}
EmptyIn(t) == DOMAIN t \ Valid(t)

End(e) == e.addr + e.size

(* The arena left by alloc_init after it has placed the first block.       *)
FirstBlock == RoundUp(Base, MinAlign)
ArenaLo == FirstBlock + BlockBytes
ArenaHi == Base + Size

Range16 == [lo |-> 0, hi |-> Low - 1]    \* hi is used as an exclusive bound
Range32 == [lo |-> Low, hi |-> Top]

RangeOf(r) == IF r.low THEN Range16 ELSE Range32

------------------------------------------------------------------------------
(* _add_alloc: the entry goes to the first empty slot of the chain. *)
AddAlloc(t, e) ==
  LET i == CHOOSE i \in EmptyIn(t) : \A j \in EmptyIn(t) : i <= j
  IN  [t EXCEPT ![i] = e]

(* _find_free, the search: where request r would start in the free entry e *)
(* and whether it fits there.                                              *)
StartUnclamped(e, r) == RoundUp(e.addr, r.al) \* mutant: range not enforced

Start(e, r) == RoundUp(Later(e.addr, RangeOf(r).lo), r.al)

FitsWrapped(e, r) == \* mutant: no check for start beyond end
  r.sz <= (Sooner(End(e), RangeOf(r).hi) - Start(e, r)) % (2 ^ 16)

Fits(e, r) ==
  /\ Start(e, r) <= Sooner(End(e), RangeOf(r).hi)
  /\ r.sz <= Sooner(End(e), RangeOf(r).hi) - Start(e, r)

Candidates(t, r) == {i \in FreeIn(t) : Fits(t[i], r)}

(* The smallest candidate; among equals the first one met. *)
Best(t, r) ==
  CHOOSE i \in Candidates(t, r) : \A j \in Candidates(t, r) :
    t[i].size < t[j].size \/ (t[i].size = t[j].size /\ i <= j)

(* _find_free, the carving of [at, at + sz) out of free entry i. *)
Trim(t, i, at) ==
  IF t[i].addr = at THEN t
  ELSE LET u == AddAlloc(t, FreeEnt(t[i].addr, at - t[i].addr))
       IN  [u EXCEPT ![i] = FreeEnt(at, End(t[i]) - at)]

ClaimWhole(t, i, sz) == \* mutant: the rest of the entry is not cut off
  AddAlloc(t, UsedEnt(t[i].addr, sz))

Claim(t, i, sz) ==
  IF t[i].size = sz THEN [t EXCEPT ![i] = UsedEnt(t[i].addr, sz)]
  ELSE AddAlloc([t EXCEPT ![i] = FreeEnt(t[i].addr + sz, t[i].size - sz)],
                UsedEnt(t[i].addr, sz))

Carve(t, i, at, sz) == Claim(Trim(t, i, at), i, sz)

SlotsNeeded(t, i, at, sz) ==
  (IF t[i].addr = at THEN 0 ELSE 1) + (IF End(t[i]) - at = sz THEN 0 ELSE 1)

(* What _find_free does with table t when it adds no block. *)
Attempt(t, r) ==
  LET i == Best(t, r)
      at == Start(t[i], r)
  IN  IF Candidates(t, r) = {}
        THEN [res |-> "no memory", addr |-> 0, slots |-> t]
      ELSE IF Cardinality(EmptyIn(t)) < SlotsNeeded(t, i, at, r.sz)
        THEN [res |-> "no entries", addr |-> 0, slots |-> t]
      ELSE [res |-> "ok", addr |-> at, slots |-> Carve(t, i, at, r.sz)]

ScarceLate(t) == Cardinality(EmptyIn(t)) < 2 \* mutant: threshold too low

(* The free slots are fewer than ALLOC_BLOCK_SZ * 0.7. *)
Scarce(t) == 10 * Cardinality(EmptyIn(t)) < 7 * BlockSz

BlockRequest == [sz |-> BlockBytes, al |-> MinAlign, low |-> FALSE]

ExtendNone(t) == t \* mutant: the new block is not linked to the chain

(* memset of the new block and _add_alloc_block: its slots end the chain. *)
Extend(t) ==
  [i \in 1 .. (Cardinality(DOMAIN t) + BlockSz) |->
     IF i \in DOMAIN t THEN t[i] ELSE Empty]

(* The nested allocation of a block, when it is due, with the table it     *)
(* leaves behind; the search then starts again on that table.              *)
Grown ==
  IF Scarce(slots) THEN Attempt(slots, BlockRequest)
                   ELSE [res |-> "ok", addr |-> 0, slots |-> slots]

Searched == IF Scarce(slots) THEN Extend(Grown.slots) ELSE Grown.slots

------------------------------------------------------------------------------
Init ==
  /\ slots = [i \in 1 .. BlockSz |->
                IF i = 1 THEN FreeEnt(ArenaLo, ArenaHi - ArenaLo) ELSE Empty]
  /\ blocks = <<FirstBlock>>
  /\ live = {}
  /\ panicked = "no"

AllocOkStale(r) == \* mutant: no second search after the nested allocation
  /\ panicked = "no" /\ r.sz > 0
  /\ Grown.res = "ok" /\ Candidates(slots, r) # {}
  /\ LET i == Best(slots, r)
         at == Start(slots[i], r)
     IN  /\ slots' = Carve(Searched, i, at, r.sz)
         /\ live' = live \cup {[addr |-> at, size |-> r.sz, req |-> r]}
  /\ blocks' = IF Scarce(slots) THEN Append(blocks, Grown.addr) ELSE blocks
  /\ UNCHANGED panicked

AllocOk(r) ==
  /\ panicked = "no" /\ r.sz > 0
  /\ Grown.res = "ok"
  /\ LET a == Attempt(Searched, r)
     IN  /\ a.res = "ok"
         /\ slots' = a.slots
         /\ live' = live \cup {[addr |-> a.addr, size |-> r.sz, req |-> r]}
  /\ blocks' = IF Scarce(slots) THEN Append(blocks, Grown.addr) ELSE blocks
  /\ UNCHANGED panicked

AllocZero(r) ==
  /\ panicked = "no" /\ r.sz = 0
  /\ panicked' = "zero bytes"
  /\ UNCHANGED <<slots, blocks, live>>

(* alloc() never returns NULL: a failed search, its own or the nested      *)
(* one's, panics.                                                          *)
AllocFails(r) ==
  /\ panicked = "no" /\ r.sz > 0
  /\ LET a == IF Grown.res = "ok" THEN Attempt(Searched, r) ELSE Grown
     IN  a.res # "ok" /\ panicked' = a.res
  /\ UNCHANGED <<slots, blocks, live>>

(* _do_free: the entry of this address, the free entry that ends at it,    *)
(* and the closest free entry above it.                                    *)
Matches(t, a) == {i \in UsedIn(t) : t[i].addr = a}
BeforeAny(t, a) == {i \in FreeIn(t) : End(t[i]) <= a} \* mutant: not adjacent

Before(t, a) == {i \in FreeIn(t) : End(t[i]) = a}
After(t, a) == {i \in FreeIn(t) : t[i].addr > a}

First(S) == CHOOSE i \in S : \A j \in S : i <= j
Farthest(t, S) == CHOOSE i \in S : \A j \in S : t[i].addr >= t[j].addr \* mutant

Nearest(t, S) == CHOOSE i \in S : \A j \in S : t[i].addr <= t[j].addr

JoinPreLosing(t, i) == \* mutant: the preceding entry is dropped, not joined
  LET before == Before(t, t[i].addr)
  IN  [j \in DOMAIN t |-> IF j \in before THEN Empty ELSE t[j]]

JoinPre(t, i) ==
  IF Before(t, t[i].addr) = {} THEN t
  ELSE LET p == First(Before(t, t[i].addr))
       IN  [t EXCEPT ![i] = UsedEnt(t[p].addr, t[p].size + t[i].size),
                     ![p] = Empty]

JoinPost(t, i, above) ==
  IF above = {} THEN t
  ELSE LET q == Nearest(t, above)
       IN  IF End(t[i]) # t[q].addr THEN t
           ELSE [t EXCEPT ![i] = UsedEnt(t[i].addr, t[i].size + t[q].size),
                          ![q] = Empty]

Released(t, i) ==
  LET u == JoinPost(JoinPre(t, i), i, After(t, t[i].addr))
  IN  [u EXCEPT ![i] = FreeEnt(u[i].addr, u[i].size)]

Free(a) ==
  /\ panicked = "no"
  /\ Matches(slots, a) # {}
  /\ slots' = Released(slots, First(Matches(slots, a)))
  /\ live' = {r \in live : r.addr # a}
  /\ UNCHANGED <<blocks, panicked>>

(* free() of an address nobody holds, a second free() for one. *)
FreeStray(a) ==
  /\ panicked = "no"
  /\ Matches(slots, a) = {}
  /\ panicked' = "bad free"
  /\ UNCHANGED <<slots, blocks, live>>

Next ==
  \/ \E r \in Requests : AllocOk(r) \/ AllocZero(r) \/ AllocFails(r)
  \/ \E a \in {r.addr : r \in live} : Free(a)
  \/ \E a \in Strays : FreeStray(a)

Spec == Init /\ [][Next]_vars

------------------------------------------------------------------------------
(***************************************************************************)
(* Properties.                                                             *)
(***************************************************************************)
Entry == [flag : {"empty", "free", "used"}, addr : Nat, size : Nat]

(* Type invariant: the chain always has BlockSz slots per block. *)
TypeOK ==
  /\ blocks \in Seq(Nat) /\ blocks # <<>>
  /\ slots \in [1 .. BlockSz * Len(blocks) -> Entry]
  /\ live \subseteq [addr : Nat, size : Nat, req : Requests]
  /\ panicked \in {"no", "zero bytes", "no memory", "no entries", "bad free"}

(* Splitting and joining entries (_find_free 156-178, _do_free 251-261)    *)
(* neither loses nor duplicates a byte: no two entries overlap ...         *)
Apart(e, f) == End(e) <= f.addr \/ End(f) <= e.addr

Separate(t) == \A i, j \in Valid(t) : i # j => Apart(t[i], t[j])

NoOverlap == Separate(slots)

(* ... none is void or leaves the arena ...                                *)
Inside(t) ==
  \A i \in Valid(t) :
    t[i].size > 0 /\ ArenaLo <= t[i].addr /\ End(t[i]) <= ArenaHi

InArena == Inside(slots)

(* ... and each byte of the arena is in one.                               *)
Covers(t) ==
  \A x \in ArenaLo .. ArenaHi - 1 :
    \E i \in Valid(t) : t[i].addr <= x /\ x < End(t[i])

Covered == Covers(slots)

(* free() joins a region with both free neighbours: memory handed back is  *)
(* never left in two adjacent pieces (_do_free 251-259).                   *)
Merged(t) == \A i, j \in FreeIn(t) : End(t[i]) # t[j].addr

Coalesced == Merged(slots)

(* The used entries are exactly the regions callers hold and the blocks of *)
(* the entry table itself, after any nested allocation of a block and any  *)
(* order of frees (_find_free 137-148, _do_free).                          *)
LedgerExact ==
  {[addr |-> slots[i].addr, size |-> slots[i].size] : i \in UsedIn(slots)}
    = {[addr |-> r.addr, size |-> r.size] : r \in live}
      \cup {[addr |-> blocks[k], size |-> BlockBytes] : k \in 2 .. Len(blocks)}

(* The reserve of slots kept by the 0.7 threshold is enough for a split, a *)
(* nested block and the split after it: _add_alloc never runs out          *)
(* (alloc.c:56, 137).                                                      *)
SlotsSuffice == panicked # "no entries"

(* A region handed out lies in the range and at the alignment asked for,   *)
(* whatever the free entry it was cut from (_find_free 101-111).           *)
Placed ==
  \A r \in live :
    /\ r.addr % r.req.al = 0 /\ r.size = r.req.sz
    /\ IF r.req.low THEN End(r) <= Low ELSE r.addr >= Low

(* alloc() and free() implement the heap of module Heap.                   *)
KeptBlocks ==
  {[addr |-> blocks[k], size |-> BlockBytes] : k \in 2 .. Len(blocks)}

H == INSTANCE Heap WITH kept <- KeptBlocks, halted <- panicked # "no"

ImplementsHeap == H!HeapSpec
=============================================================================
