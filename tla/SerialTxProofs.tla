--------------------------- MODULE SerialTxProofs ---------------------------
(***************************************************************************)
(* Proofs about the transmit path, for every depth of the ring, length of  *)
(* a call and speed of the UART that leaves it a step per byte.            *)
(***************************************************************************)
EXTENDS SerialTx, TLAPS

USE FifoAssumption, TxAssumption

LEMMA HeldType ==
  ASSUME NEW h \in Index, NEW t \in Slots
  PROVE  Held(h, t) \in Slots
BY DEF Held, Wrapped, Index, Slots

------------------------------------------------------------------------------
(* The inductive invariant.                                                *)
Room == Depth - 1 - Held(head, tail)

(* The room a write has found is there: fifo_getfree overstates only when  *)
(* head wraps between its loads, and head is then below tail and does not  *)
(* wrap again before tail moves, so the check in fifo_write is exact.      *)
Writing ==
  /\ level = Held(head, tail)
  /\ IF pc \in {"check", "check2", "put", "wrap"} THEN wr > 0 ELSE wr = 0
  /\ pc \notin {"put", "wrap"} => k = 0
  /\ pc = "free2" /\ h0 <= tail => head <= tail
  /\ pc = "check" => wr <= Room \/ head <= tail
  /\ pc = "check2" => wr <= Room \/ (h0 <= tail /\ head <= tail)
  /\ pc = "put" => k < wr /\ wr - k <= Room
  /\ pc = "wrap" => k < wr /\ wr - k - 1 <= Room

(* A transmit interrupt that is about to be taken is one byte time ahead   *)
(* of the next; so when it has emptied the ring between the increment of   *)
(* tail and its wrap, no other comes before the wrap.                      *)
Spaced ==
  /\ edge /\ thrInt => lull = 0
  /\ tail = Depth /\ head = 0 => lull < Gap /\ ~thrInt

IInv == TypeOK /\ Writing /\ Spaced

LEMMA InitIInv == Init => IInv
<1> SUFFICES ASSUME Init PROVE IInv
  OBVIOUS
<1>1. /\ thr \in BOOLEAN /\ thrInt \in BOOLEAN /\ rxInt \in BOOLEAN
      /\ edge \in BOOLEAN /\ ~edge /\ ~thrInt
  BY DEF Init
<1>2. /\ head = 0 /\ tail = 0 /\ level = 0 /\ pc = "idle" /\ todo = 0
      /\ wr = 0 /\ k = 0 /\ h0 = 0 /\ lull = Gap
  BY DEF Init
<1> QED BY <1>1, <1>2 DEF IInv, TypeOK, Writing, Spaced, Places, Held, Wrapped,
             Slots, Index

------------------------------------------------------------------------------
(* The interrupt side. *)

(* A byte taken from a ring that is not empty: head moves on by one, and   *)
(* does not pass tail.                                                     *)
LEMMA FeedExact ==
  ASSUME NEW h \in Slots, NEW t \in Index, GetUsed(h, t, t) >= 1,
         ~(t = Depth /\ h = 0)
  PROVE  /\ Wrapped(h + 1) \in Slots
         /\ Held(Wrapped(h + 1), t) = Held(h, t) - 1
         /\ t \in Slots /\ h <= t => Wrapped(h + 1) <= t
BY DEF GetUsed, Held, Minus, Wrapped, Index, Slots

LEMMA UartStep ==
  ASSUME IInv, Emptied \/ Arrived \/ ServeRx
  PROVE  IInv'
<1> USE DEF IInv, TypeOK, Writing, Spaced, Room, ring, uart, locals, Line
<1>1. CASE Emptied
  <2>1. /\ thr' \in BOOLEAN /\ thrInt' \in BOOLEAN /\ edge' \in BOOLEAN
    <3>1. thr' = FALSE /\ thrInt' = TRUE /\ edge' = (edge \/ ~Line)
      BY <1>1 DEF Emptied
    <3> HIDE DEF IInv, Line
    <3> QED BY <3>1, Zenon
  <2>2. lull = Gap /\ lull' = 0 /\ UNCHANGED <<ring, rxInt, pc, locals>>
    BY <1>1 DEF Emptied
  <2> QED BY <2>1, <2>2
<1>2. CASE Arrived
  BY <1>2 DEF Arrived
<1>3. CASE ServeRx
  BY <1>3 DEF ServeRx
<1> QED BY <1>1, <1>2, <1>3

LEMMA ServeTxStep ==
  ASSUME IInv, ServeTx
  PROVE  IInv'
<1> USE DEF IInv
<1>0. /\ head \in Slots /\ tail \in Index /\ ~(tail = Depth /\ head = 0)
      /\ lull = 0 /\ lull' = lull /\ edge' = FALSE /\ pc' = pc
      /\ UNCHANGED <<rxInt, locals>> /\ thrInt' = FALSE
  BY DEF ServeTx, Feed, TypeOK, Spaced
<1>1. CASE ~(Used >= 1)
  <2>1. UNCHANGED <<ring, thr>>
    BY <1>1 DEF ServeTx
  <2> QED BY <1>0, <2>1, ZenonT(60) DEF TypeOK, Writing, Spaced, Room, ring, locals
<1>2. CASE Used >= 1
  <2>1. /\ head' = Wrapped(head + 1) /\ level' = level - 1 /\ tail' = tail
        /\ thr' = TRUE
    BY <1>2 DEF ServeTx, Feed
  <2>2. /\ head' \in Slots /\ Held(head', tail) = Held(head, tail) - 1
        /\ tail \in Slots /\ head <= tail => head' <= tail
    BY <1>0, <1>2, <2>1, FeedExact DEF Used
  <2>3. Held(head, tail) \in Int
    BY <1>0 DEF Held, Wrapped, Slots, Index
  <2>4. thr' \in BOOLEAN /\ thrInt' \in BOOLEAN /\ edge' \in BOOLEAN
    BY <1>0, <2>1, Zenon
  <2>5. TypeOK'
    BY <1>0, <2>1, <2>2, <2>4 DEF TypeOK, locals
  <2>6. Writing'
    BY <1>0, <2>1, <2>2, <2>3 DEF Writing, TypeOK, Room, locals, Slots, Index
  <2>7. Spaced'
    BY <1>0 DEF Spaced
  <2> QED BY <2>5, <2>6, <2>7
<1> QED BY <1>1, <1>2

------------------------------------------------------------------------------
(* The main context. *)
LEMMA IdleStep ==
  ASSUME IInv, Elsewhere \/ \E n \in 1 .. MaxWrite : Call(n)
  PROVE  IInv'
<1> USE DEF IInv, TypeOK, Writing, Spaced, Room, Places, Step, Fewer, ring,
            uart, locals
<1>1. CASE Elsewhere
  BY <1>1 DEF Elsewhere
<1>2. ASSUME NEW n \in 1 .. MaxWrite, Call(n) PROVE IInv'
  BY <1>2 DEF Call
<1> QED BY <1>1, <1>2

LEMMA SampleStep ==
  ASSUME IInv, Free \/ Check
  PROVE  IInv'
BY DEF Free, Check, IInv, TypeOK, Writing, Spaced, Room, Places, Step, Fewer,
       ring, uart, locals

(* What fifo_getfree returns is the room there is, unless head has wrapped *)
(* between its loads.                                                      *)
LEMMA FreeBounds ==
  ASSUME NEW a \in Slots, NEW h \in Slots, NEW t \in Slots,
         a <= t => h <= t
  PROVE  /\ GetFree(a, h, t) \in Nat
         /\ GetFree(a, h, t) <= Depth - 1 - Held(h, t) \/ (a > t /\ h <= t)
BY DEF GetFree, Held, Minus, Wrapped, Slots

LEMMA Free2Step ==
  ASSUME IInv, Free2
  PROVE  IInv'
<1> USE DEF IInv
<1>1. /\ pc = "free2" /\ h0 \in Slots /\ head \in Slots /\ tail \in Slots
      /\ h0 <= tail => head <= tail
  BY DEF Free2, Step, TypeOK, Writing, Slots, Index
<1> DEFINE g == GetFree(h0, head, tail)
<1>2. g \in Nat /\ (g <= Room \/ head <= tail)
  BY <1>1, FreeBounds DEF Room
<1>3. /\ wr' = Fewer(g, todo)
      /\ IF wr' = 0 THEN Step("free2", "lsr") ELSE Step("free2", "check")
      /\ h0' = 0 /\ UNCHANGED <<ring, uart, todo, k>>
  BY DEF Free2
<1>4. Held(head, tail) \in Int
  BY <1>1 DEF Held, Wrapped, Slots
<1> HIDE DEF g
<1> QED BY <1>1, <1>2, <1>3, <1>4 DEF TypeOK, Writing, Spaced, Room, Places,
             Step, Fewer, ring, uart, Slots, Index

LEMMA Check2Step ==
  ASSUME IInv, Check2
  PROVE  IInv'
<1> USE DEF IInv
<1>1. /\ pc = "check2" /\ h0 \in Slots /\ head \in Slots /\ tail \in Slots
      /\ wr <= Room \/ (h0 <= tail /\ head <= tail)
  BY DEF Check2, Step, TypeOK, Writing, Slots, Index
<1>2. CASE GetFree(h0, head, tail) < wr
  BY <1>1, <1>2 DEF Check2, TypeOK, Writing, Spaced, Room, Places, Step,
                    Fewer, ring, uart, Slots, Index
<1>3. CASE ~(GetFree(h0, head, tail) < wr)
  <2>1. Held(head, tail) \in Int /\ wr \in Nat
    BY <1>1 DEF Held, Wrapped, Slots, TypeOK
  <2>2. wr <= Room
    <3>1. CASE h0 <= tail /\ head <= tail
      BY <1>1, <1>3, <2>1, <3>1, FreeBounds DEF Room, Slots
    <3> QED BY <1>1, <3>1
  <2>3. Step("check2", "put") /\ h0' = 0 /\ UNCHANGED <<ring, uart, todo, wr, k>>
    BY <1>3 DEF Check2
  <2> QED BY <1>1, <2>1, <2>2, <2>3 DEF TypeOK, Writing, Spaced, Room, Places,
               Step, Fewer, ring, uart, Slots, Index
<1> QED BY <1>2, <1>3

(* A byte is put where there is room for it. *)
LEMMA PutExact ==
  ASSUME NEW h \in Slots, NEW t \in Slots, Held(h, t) < Depth - 1
  PROVE  /\ t + 1 \in Index /\ ~(t + 1 = Depth /\ h = 0)
         /\ Held(h, t + 1) = Held(h, t) + 1
BY DEF Held, Wrapped, Index, Slots

LEMMA PutStep ==
  ASSUME IInv, Put
  PROVE  IInv'
<1> USE DEF IInv
<1>1. /\ pc = "put" /\ head \in Slots /\ tail \in Slots
      /\ k < wr /\ wr - k <= Room /\ level = Held(head, tail)
      /\ wr \in Nat /\ k \in Nat
  BY DEF Put, Step, TypeOK, Writing, Slots, Index
<1>2. Held(head, tail) \in Int
  BY <1>1 DEF Held, Wrapped, Slots
<1>3. /\ tail + 1 \in Index /\ ~(tail + 1 = Depth /\ head = 0)
      /\ Held(head, tail + 1) = Held(head, tail) + 1
  BY <1>1, <1>2, PutExact DEF Room
<1>4. /\ Step("put", "wrap") /\ tail' = tail + 1 /\ level' = level + 1
      /\ UNCHANGED <<head, uart, locals>>
  BY DEF Put
<1> QED BY <1>1, <1>2, <1>3, <1>4 DEF TypeOK, Writing, Spaced, Room, Places,
             Step, Fewer, uart, locals, Slots, Index

LEMMA WrapStep ==
  ASSUME IInv, Wrap
  PROVE  IInv'
<1> USE DEF IInv
<1>1. /\ pc = "wrap" /\ head \in Slots /\ tail \in Index
      /\ k < wr /\ wr - k - 1 <= Room /\ level = Held(head, tail)
      /\ wr \in 0 .. todo /\ todo \in 0 .. MaxWrite /\ k \in 0 .. MaxWrite
  BY DEF Wrap, Step, TypeOK, Writing
<1>2. Wrapped(tail) \in Slots /\ Held(head, Wrapped(tail)) = Held(head, tail)
  BY <1>1 DEF Held, Wrapped, Slots, Index
<1>3. /\ tail' = Wrapped(tail) /\ UNCHANGED <<head, level, uart, h0>>
      /\ IF k + 1 < wr
           THEN Step("wrap", "put") /\ k' = k + 1 /\ UNCHANGED <<todo, wr>>
           ELSE Step("wrap", "lsr") /\ k' = 0 /\ todo' = todo - wr /\ wr' = 0
  BY DEF Wrap
<1> QED BY <1>1, <1>2, <1>3 DEF TypeOK, Writing, Spaced, Room, Places, Step,
             Fewer, uart, Slots, Index

LEMMA KickStep ==
  ASSUME IInv, Kick
  PROVE  IInv'
<1> USE DEF IInv
<1>1. /\ pc = "lsr" /\ edge = FALSE /\ head \in Slots /\ tail \in Slots
      /\ pc' \in {"free", "idle"} /\ lull' = Fewer(Gap, lull + 1)
      /\ UNCHANGED <<rxInt, edge, locals>>
  BY DEF Kick, Step, TypeOK, Slots, Index
<1>2. CASE ~(~thr /\ Used >= 1)
  BY <1>1, <1>2 DEF Kick, TypeOK, Writing, Spaced, Room, Places, Fewer, ring,
                    locals, Slots
<1>3. CASE ~thr /\ Used >= 1
  <2>1. /\ head' = Wrapped(head + 1) /\ level' = level - 1 /\ tail' = tail
        /\ thr' = TRUE /\ thrInt' = FALSE
    BY <1>3 DEF Kick, Feed
  <2>2. head' \in Slots /\ Held(head', tail) = Held(head, tail) - 1
    BY <1>1, <1>3, <2>1, FeedExact DEF Used, Slots, Index
  <2>3. thr' \in BOOLEAN /\ thrInt' \in BOOLEAN /\ edge' \in BOOLEAN
    BY <1>1, <2>1, Zenon
  <2>4. thrInt' = FALSE /\ edge' = FALSE /\ todo' = todo /\ wr' = wr
        /\ k' = k /\ h0' = h0 /\ rxInt' = rxInt
    BY <1>1, <2>1 DEF locals
  <2>5. TypeOK'
    BY <1>1, <2>1, <2>2, <2>3, <2>4 DEF TypeOK, Places, Fewer, Slots, Index
  <2>6. Writing'
    BY <1>1, <2>1, <2>2, <2>4 DEF TypeOK, Writing, Room, Slots, Index
  <2>7. Spaced'
    BY <1>1, <2>1, <2>4 DEF Spaced, Slots
  <2> QED BY <2>5, <2>6, <2>7
<1> QED BY <1>2, <1>3

------------------------------------------------------------------------------
LEMMA NextIInv == IInv /\ [Next]_vars => IInv'
<1> SUFFICES ASSUME IInv, [Next]_vars PROVE IInv'
  OBVIOUS
<1>1. CASE UNCHANGED vars
  BY <1>1 DEF vars, ring, uart, locals, IInv, TypeOK, Writing, Spaced, Room
<1>2. CASE WriteLoop
  BY <1>2, SampleStep, Free2Step, Check2Step, PutStep, WrapStep, KickStep
     DEF WriteLoop
<1>3. CASE Handler
  BY <1>3, UartStep, ServeTxStep DEF Handler
<1>4. CASE Elsewhere \/ \E n \in 1 .. MaxWrite : Call(n)
  BY <1>4, IdleStep
<1>5. CASE Emptied \/ Arrived
  BY <1>5, UartStep
<1> QED BY <1>1, <1>2, <1>3, <1>4, <1>5 DEF Next

LEMMA Invariance == Spec => []IInv
<1>1. IInv /\ [Next]_vars => IInv'
  BY NextIInv
<1> QED BY <1>1, InitIInv, PTL DEF Spec

(* serial.c:203-247: no index of the transmit path leaves the buffer.      *)
THEOREM TypeCorrect == Spec => []TypeOK
<1>1. IInv => TypeOK
  BY DEF IInv
<1> QED BY <1>1, Invariance, PTL

(* serial.c:214-222: whatever the handler does to head while fifo_getfree  *)
(* samples it, no byte that has not been sent is overwritten, and the      *)
(* indices always tell how many there are.                                 *)
THEOREM NeverOverwritten == Spec => []NoOverwrite
<1>1. IInv => NoOverwrite
  BY HeldType DEF IInv, TypeOK, Writing, NoOverwrite, Held, Wrapped, Slots, Index
<1> QED BY <1>1, Invariance, PTL

------------------------------------------------------------------------------
(* No byte is left behind. *)
LEMMA UsedNone ==
  ASSUME NEW h \in Slots, NEW t \in Slots, ~(GetUsed(h, t, t) >= 1)
  PROVE  Held(h, t) = 0
BY DEF GetUsed, Held, Minus, Wrapped, Slots

(* When no write is under way, bytes left in the ring have a transmitter   *)
(* that is busy or asks for them.                                          *)
Fed == pc = "idle" /\ level > 0 => thr \/ thrInt

LEMMA FedInit == Init => Fed
BY DEF Init, Fed

(* The interrupt side keeps asking until it finds the ring empty. *)
LEMMA FedUart ==
  ASSUME IInv, Fed, Emptied \/ Arrived \/ Handler
  PROVE  Fed'
<1>1. CASE Emptied
  <2>1. thrInt' = TRUE
    BY <1>1 DEF Emptied
  <2> QED BY <2>1, Zenon DEF Fed
<1>2. CASE Arrived \/ ServeRx
  <2>1. pc' = pc /\ level' = level /\ thr' = thr /\ thrInt' = thrInt
    BY <1>2 DEF Arrived, ServeRx, ring, locals
  <2> QED BY <2>1, Zenon DEF Fed
<1>3. CASE ServeTx
  <2>1. CASE Used >= 1
    <3>1. thr' = TRUE
      BY <1>3, <2>1 DEF ServeTx, Feed
    <3> QED BY <3>1, Zenon DEF Fed
  <2>2. CASE ~(Used >= 1)
    <3>1. level' = level /\ pc' = pc
      BY <1>3, <2>2 DEF ServeTx, ring
    <3>2. pc = "idle" => level = 0
      BY <2>2, UsedNone DEF IInv, TypeOK, Writing, Used, Slots, Index
    <3> QED BY <3>1, <3>2 DEF Fed
  <2> QED BY <2>1, <2>2
<1> QED BY <1>1, <1>2, <1>3 DEF Handler

(* The main context returns only past the test that feeds an idle          *)
(* transmitter.                                                            *)
LEMMA FedMain ==
  ASSUME IInv, Fed, WriteLoop \/ Elsewhere \/ \E n \in 1 .. MaxWrite : Call(n)
  PROVE  Fed'
<1>1. CASE Kick
  <2>1. CASE ~thr /\ Used >= 1
    <3>1. thr' = TRUE
      BY <1>1, <2>1 DEF Kick, Feed
    <3> QED BY <3>1, Zenon DEF Fed
  <2>2. CASE thr
    <3>1. thr' = thr
      BY <1>1, <2>2 DEF Kick
    <3> QED BY <2>2, <3>1, Zenon DEF Fed
  <2>3. CASE ~thr /\ ~(Used >= 1)
    <3>1. level' = level
      BY <1>1, <2>3 DEF Kick, ring
    <3>2. level = 0
      BY <1>1, <2>3, UsedNone
         DEF IInv, TypeOK, Writing, Used, Kick, Step, Slots, Index
    <3> QED BY <3>1, <3>2 DEF Fed
  <2> QED BY <2>1, <2>2, <2>3
<1>2. CASE Free \/ Free2 \/ Check \/ Check2 \/ Put \/ Wrap
  <2>1. pc' # "idle"
    BY <1>2 DEF Free, Free2, Check, Check2, Put, Wrap, Step
  <2> QED BY <2>1 DEF Fed
<1>3. CASE Elsewhere
  <2>1. pc' = pc /\ level' = level /\ thr' = thr /\ thrInt' = thrInt
    BY <1>3 DEF Elsewhere, Step, ring, uart
  <2> QED BY <2>1, Zenon DEF Fed
<1>4. ASSUME NEW n \in 1 .. MaxWrite, Call(n) PROVE Fed'
  BY <1>4 DEF Call, Step, Fed
<1> QED BY <1>1, <1>2, <1>3, <1>4 DEF WriteLoop

LEMMA FedInvariance == Spec => []Fed
<1>1. IInv /\ Fed /\ [Next]_vars => Fed'
  <2> SUFFICES ASSUME IInv, Fed, [Next]_vars PROVE Fed'
    OBVIOUS
  <2>1. CASE UNCHANGED vars
    <3>1. pc' = pc /\ level' = level /\ thr' = thr /\ thrInt' = thrInt
      BY <2>1 DEF vars, ring, uart
    <3> QED BY <3>1, Zenon DEF Fed
  <2>2. CASE Next
    BY <2>2, FedUart, FedMain DEF Next
  <2> QED BY <2>1, <2>2
<1> QED BY <1>1, FedInit, Invariance, PTL DEF Spec

(* What raises the line raises the edge, and what takes the edge clears a  *)
(* reason; both are left only where the receive reason is served first.    *)
LEMMA SeenStep ==
  ASSUME [Next]_vars, ~Unseen, Unseen'
  PROVE  ServeRx /\ thrInt
<1>1. CASE Emptied \/ Arrived
  <2>1. edge' = (edge \/ ~Line)
    BY <1>1 DEF Emptied, Arrived
  <2> QED BY <2>1, Zenon DEF Unseen
<1>2. CASE ServeRx
  <2>1. thrInt' = thrInt /\ rxInt' = FALSE
    BY <1>2 DEF ServeRx
  <2> QED BY <1>2, <2>1, Zenon DEF Unseen, Line
<1>3. CASE ServeTx
  <2>1. rxInt' = rxInt /\ ~rxInt /\ thrInt' = FALSE
    BY <1>3 DEF ServeTx, Feed
  <2> QED BY <2>1, Zenon DEF Unseen, Line
<1>4. CASE UNCHANGED uart
  <2>1. thrInt' = thrInt /\ rxInt' = rxInt /\ edge' = edge
    BY <1>4 DEF uart
  <2> QED BY <2>1, Zenon DEF Unseen, Line
<1>5. CASE Kick
  <2>1. rxInt' = rxInt /\ edge' = edge /\ (thrInt' = thrInt \/ thrInt' = FALSE)
    BY <1>5 DEF Kick, Feed
  <2> QED BY <2>1, Zenon DEF Unseen, Line
<1>6. UNCHANGED vars \/ WriteLoop \/ Elsewhere \/ (\E n \in 1 .. MaxWrite : Call(n))
        => UNCHANGED uart \/ Kick
  BY DEF vars, WriteLoop, Elsewhere, Call, Free, Free2, Check, Check2, Put, Wrap
<1> QED BY <1>1, <1>2, <1>3, <1>4, <1>5, <1>6 DEF Next, Handler

(* serial.c:224-229, 385: once a write has returned, bytes left in the     *)
(* ring are not forgotten: the transmitter is sending, or its interrupt is *)
(* one the controller has seen.  That ends only where a receive interrupt  *)
(* is served while the transmitter's is pending; the line then stays high, *)
(* and the bytes wait for the next write.                                  *)
THEOREM NeverStalls == Spec => NoStall
<1>1. Fed => (pc = "idle" /\ level > 0 /\ ~Unseen => thr \/ (thrInt /\ edge))
  BY Zenon DEF Fed, Unseen, Line
<1>2. [Next]_vars => [~Unseen /\ Unseen' => ServeRx /\ thrInt]_vars
  BY SeenStep
<1> QED BY <1>1, <1>2, FedInvariance, PTL DEF Spec, NoStall
=============================================================================
