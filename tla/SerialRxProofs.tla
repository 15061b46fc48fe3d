--------------------------- MODULE SerialRxProofs ---------------------------
(***************************************************************************)
(* Proofs about the ring and the receive path, for every depth of it.      *)
(***************************************************************************)
EXTENDS SerialRx, TLAPS

USE FifoAssumption

------------------------------------------------------------------------------
(***************************************************************************)
(* The index arithmetic of data/fifo.c: what the two counting functions    *)
(* return, and that storing a byte at tail appends it to the bytes queued  *)
(* and moving head drops the oldest.                                       *)
(***************************************************************************)
LEMMA FreeExact ==
  ASSUME NEW h \in Index, NEW t \in Slots
  PROVE  GetFree(h, h, t) = Depth - 1 - Held(h, t)
BY DEF GetFree, Held, Minus, Wrapped, Index, Slots

LEMMA UsedBounded ==
  ASSUME NEW h \in Slots, NEW a \in Slots, NEW t \in Slots
  PROVE  GetUsed(h, a, t) \in Nat
BY DEF GetUsed, Minus, Slots

(* A sample that the tail has not wrapped since is exact; one that it has  *)
(* overstates, and then tail is below head.                                *)
LEMMA UsedExact ==
  ASSUME NEW h \in Slots, NEW a \in Slots, NEW t \in Slots,
         h > a => h > t,
         ~(h <= a /\ h > t)
  PROVE  GetUsed(h, a, t) = Held(h, t)
BY DEF GetUsed, Held, Minus, Wrapped, Slots

LEMMA HeldType ==
  ASSUME NEW h \in Index, NEW t \in Slots
  PROVE  Held(h, t) \in Slots
BY DEF Held, Wrapped, Index, Slots

------------------------------------------------------------------------------
(* Writing one byte where fifo_getfree found room. *)
LEMMA FilledExact ==
  ASSUME NEW h \in Index, NEW t \in Slots, GetFree(h, h, t) >= 1
  PROVE  /\ Wrapped(t + 1) \in Slots
         /\ Held(h, Wrapped(t + 1)) = Held(h, t) + 1
         /\ h \in Slots /\ h > t => h > Wrapped(t + 1)
BY DEF GetFree, Held, Minus, Wrapped, Index, Slots

LEMMA CellType ==
  ASSUME NEW h \in Index, NEW t \in Slots, NEW i \in 1 .. Held(h, t)
  PROVE  Cell(h, i) \in Slots /\ Cell(h, i) # t
BY DEF Cell, Held, Wrapped, Index, Slots

LEMMA CellNext ==
  ASSUME NEW h \in Index, NEW t \in Slots
  PROVE  Cell(h, Held(h, t) + 1) = t
BY DEF Cell, Held, Wrapped, Index, Slots

LEMMA QueuedType ==
  ASSUME NEW B, NEW b \in [Slots -> B], NEW h \in Index, NEW t \in Slots
  PROVE  Queued(b, h, t) \in Seq(B) /\ Len(Queued(b, h, t)) = Held(h, t)
<1>1. Held(h, t) \in Nat
  BY HeldType DEF Slots
<1>2. \A i \in 1 .. Held(h, t) : b[Cell(h, i)] \in B
  BY CellType
<1>3. Queued(b, h, t) \in [1 .. Held(h, t) -> B]
  BY <1>2 DEF Queued
<1> QED BY <1>1, <1>3

LEMMA FilledAppends ==
  ASSUME NEW B, NEW b \in [Slots -> B], NEW h \in Index, NEW t \in Slots,
         NEW x \in B, GetFree(h, h, t) >= 1
  PROVE  Queued(Stored(b, t, x), h, Wrapped(t + 1))
           = Append(Queued(b, h, t), x)
<1> DEFINE n == Held(h, t)
           c == Stored(b, t, x)
           Q == Queued(b, h, t)
           R == Queued(c, h, Wrapped(t + 1))
<1>1. n \in Nat /\ Held(h, Wrapped(t + 1)) = n + 1 /\ Wrapped(t + 1) \in Slots
  BY HeldType, FilledExact DEF Slots
<1>2. Q \in Seq(B) /\ Len(Q) = n /\ c \in [Slots -> B]
  <2>1. Q \in Seq(B) /\ Len(Q) = n
    BY QueuedType
  <2>2. c \in [Slots -> B]
    BY DEF Stored
  <2> QED BY <2>1, <2>2
<1>3. R = [i \in 1 .. n + 1 |-> c[Cell(h, i)]]
  BY <1>1 DEF Queued
<1>4. \A i \in 1 .. n : c[Cell(h, i)] = Q[i]
  BY CellType DEF Queued, Stored
<1>5. c[Cell(h, n + 1)] = x
  BY CellNext DEF Stored
<1> HIDE DEF n, c, Q, R
<1>6. R \in Seq(B) /\ Len(R) = n + 1
  BY <1>1, <1>2, QueuedType DEF R, n
<1>7. Append(Q, x) \in Seq(B) /\ Len(Append(Q, x)) = n + 1
  BY <1>2
<1>8. \A i \in 1 .. n + 1 : R[i] = Append(Q, x)[i]
  BY <1>1, <1>2, <1>3, <1>4, <1>5
<1>9. R = Append(Q, x)
  BY <1>6, <1>7, <1>8
<1> QED BY <1>9 DEF R, Q, c

LEMMA TakenFirst ==
  ASSUME NEW B, NEW b \in [Slots -> B], NEW h \in Slots, NEW t \in Slots,
         Held(h, t) > 0
  PROVE  /\ Queued(b, h, t) # <<>>
         /\ Head(Queued(b, h, t)) = b[h]
         /\ Queued(b, h + 1, t) = Tail(Queued(b, h, t))
<1> DEFINE n == Held(h, t)
           Q == Queued(b, h, t)
           R == Queued(b, h + 1, t)
<1>1. /\ n \in Nat /\ n > 0 /\ Held(h + 1, t) = n - 1
      /\ h \in Index /\ h + 1 \in Index
  BY HeldType DEF Held, Wrapped, Index, Slots
<1>2. Q \in Seq(B) /\ Len(Q) = n /\ R \in Seq(B) /\ Len(R) = n - 1
  <2>1. Q \in Seq(B) /\ Len(Q) = n
    BY <1>1, QueuedType, ZenonT(60)
  <2> DEFINE after == h + 1
  <2>2. after \in Index /\ Held(after, t) = n - 1
    BY <1>1
  <2> HIDE DEF after
  <2>3. Queued(b, after, t) \in Seq(B) /\ Len(Queued(b, after, t)) = n - 1
    BY <2>2, QueuedType
  <2> QED BY <2>1, <2>3 DEF after
<1>3. Cell(h, 1) = h
  BY DEF Cell, Wrapped, Slots
<1>4. \A i \in 1 .. n - 1 : Cell(h + 1, i) = Cell(h, i + 1)
  BY DEF Cell, Held, Wrapped, Slots
<1>5. /\ \A i \in 1 .. n : Q[i] = b[Cell(h, i)]
      /\ \A i \in 1 .. n - 1 : R[i] = b[Cell(h + 1, i)]
  BY <1>1 DEF Queued
<1> HIDE DEF n, Q, R
<1>6. Q # <<>> /\ Head(Q) = b[h]
  BY <1>1, <1>2, <1>3, <1>5
<1>7. Tail(Q) \in Seq(B) /\ Len(Tail(Q)) = n - 1
  BY <1>1, <1>2, <1>6
<1>8. \A i \in 1 .. n - 1 : R[i] = Tail(Q)[i]
  <2> TAKE i \in 1 .. n - 1
  <2>1. i + 1 \in 1 .. n
    BY <1>1
  <2>2. R[i] = Q[i + 1]
    BY <2>1, <1>4, <1>5
  <2>3. Tail(Q)[i] = Q[i + 1]
    BY <1>1, <1>2, <1>6, <2>1
  <2> QED BY <2>2, <2>3
<1>9. R = Tail(Q)
  BY <1>2, <1>7, <1>8
<1> QED BY <1>6, <1>9 DEF Q, R

LEMMA WrapKeeps ==
  ASSUME NEW b, NEW h \in Index, NEW t \in Slots
  PROVE  Queued(b, Wrapped(h), t) = Queued(b, h, t)
<1>1. Wrapped(Wrapped(h)) = Wrapped(h)
  BY DEF Wrapped, Index
<1> QED BY <1>1 DEF Queued, Held, Cell

------------------------------------------------------------------------------
(***************************************************************************)
(* The steps of the receive path.                                          *)
(***************************************************************************)
USE SerialAssumption

LEMMA FlowType ==
  ASSUME NEW h, NEW t, HandlerFlow(h, t),
         rts \in BOOLEAN, mcrVal \in BOOLEAN
  PROVE  rts' \in BOOLEAN /\ mcrVal' \in BOOLEAN
<1> DEFINE on == GetUsed(h, t, t) < FifoLow
<1>1. on \in BOOLEAN
  OBVIOUS
<1>2. (rts' = on /\ mcrVal' = on) \/ UNCHANGED uart
  BY DEF HandlerFlow
<1> HIDE DEF on
<1> QED BY <1>1, <1>2 DEF uart

(* The arrival of a byte leaves every sample and every reservation of the  *)
(* main context valid: tail only moves into the free part of the ring.     *)
LEMMA ArriveStep ==
  ASSUME IInv, NEW b \in Bytes, Arrive(b)
  PROVE  IInv'
<1> USE DEF IInv
<1>a. rts' \in BOOLEAN /\ mcrVal' \in BOOLEAN
  BY FlowType DEF TypeOK, Arrive
<1>b. /\ head' = head /\ UNCHANGED <<inStatus, call, tmp, out, pc>>
      /\ \/ tail' = tail /\ buf' = buf
         \/ /\ tail' = Wrapped(tail + 1) /\ buf' = Stored(buf, tail, b)
            /\ GetFree(head, head, tail) >= 1
  <2>1. GetFree(head, head, tail) \in Int
    <3>1. head \in Index /\ tail \in Slots
      BY DEF TypeOK
    <3> HIDE DEF IInv
    <3>2. Held(head, tail) \in Int
      BY <3>1, HeldType DEF Slots
    <3> QED BY <3>1, <3>2, FreeExact
  <2> HIDE DEF IInv
  <2>2. IF GetFree(head, head, tail) < 1 THEN UNCHANGED ring
          ELSE /\ tail' = Wrapped(tail + 1) /\ head' = head
               /\ buf' = Stored(buf, tail, b)
    BY DEF Arrive
  <2>3. UNCHANGED <<inStatus, call, tmp, out, pc>>
    BY DEF Arrive
  <2> QED BY <2>1, <2>2, <2>3 DEF ring
<1>c. /\ status' \subseteq Errs /\ lost' \in Nat /\ lull' \in 0 .. Gap
  <2>1. status \subseteq Errs /\ lost \in Nat
    BY DEF TypeOK
  <2>2. status' = status \cup {"overrun"} \/ status' = status
    BY DEF Arrive
  <2>3. (lost' = lost + 1 \/ lost' = lost) /\ lull' = 0
    BY DEF Arrive
  <2>4. status' \subseteq Errs
    BY <2>1, <2>2, Zenon DEF Errs
  <2> HIDE DEF IInv
  <2> QED BY <2>1, <2>3, <2>4
<1>d. /\ tail' \in Slots /\ Held(head, tail) <= Held(head, tail')
      /\ head \in Slots /\ head > tail => head > tail'
  <2>1. Held(head, tail) \in Slots /\ head \in Index /\ tail \in Slots
    BY HeldType DEF TypeOK
  <2> HIDE DEF IInv
  <2>2. CASE tail' = tail
    BY <2>1, <2>2 DEF Slots
  <2>3. CASE tail' = Wrapped(tail + 1) /\ GetFree(head, head, tail) >= 1
    BY <2>1, <2>3, <1>b, FilledExact DEF Slots
  <2> QED BY <1>b, <2>2, <2>3
<1>1. TypeOK'
  <2>1. TypeOK /\ buf' \in [Slots -> Bytes]
    BY <1>b DEF TypeOK, Stored
  <2> HIDE DEF IInv
  <2> QED BY <1>a, <1>b, <1>c, <1>d, <2>1 DEF TypeOK, call, tmp
<1>2. Reading'
  <2>1. Held(head, tail) \in Slots /\ Held(head, tail') \in Slots
    BY <1>d, HeldType DEF TypeOK
  <2>2. /\ pc' = pc /\ rd' = rd /\ k' = k /\ t0' = t0 /\ slot' = slot
        /\ rd \in Nat /\ k \in Nat
    BY <1>b DEF tmp, TypeOK
  <2>3. pc \in {"query2", "check", "check2"} => head \in Slots
    BY DEF TypeOK, Index, Slots
  <2> HIDE DEF IInv
  <2>4. Reading BY DEF IInv
  <2> QED BY <1>b, <1>d, <2>1, <2>2, <2>3, <2>4 DEF Reading, Slots
<1>3. Counting'
  BY DEF Counting, Arrive, call, tmp
<1> QED BY <1>1, <1>2, <1>3

LEMMA LineErrorStep ==
  ASSUME IInv, NEW e \in Errs, LineError(e)
  PROVE  IInv'
BY DEF IInv, TypeOK, Reading, Counting, LineError, Errs, Held, ring, uart, call, tmp

(* One step of the main context, by what it does to the read loop. *)
LEMMA SampleStep ==
  ASSUME IInv, Query \/ Check \/ FlowCompare
  PROVE  IInv'
<1> USE DEF IInv, TypeOK, Reading, Counting, Taking, Flowing, Places, Step,
            ring, errors, uart, call, tmp, Min2, Slots
<1>1. CASE Query
  BY <1>1 DEF Query
<1>2. CASE Check
  BY <1>2, HeldType DEF Check, Held, Wrapped, Index
<1>3. CASE FlowCompare
  BY <1>3 DEF FlowCompare
<1> QED BY <1>1, <1>2, <1>3

LEMMA FlowStep ==
  ASSUME IInv, FlowEnter \/ FlowDecide \/ FlowOut \/ FlowStore
  PROVE  IInv'
<1> USE DEF IInv, TypeOK, Reading, Counting, Taking, Flowing, Places, Step,
            ring, errors, uart, call, tmp, Min2
<1>1. CASE FlowEnter
  BY <1>1 DEF FlowEnter
<1>2. CASE FlowDecide
  <2> DEFINE room == GetUsed(head, t0, tail) < FifoLow
  <2>1. room \in BOOLEAN
    OBVIOUS
  <2>2. new' = room /\ t0' = 0 /\ Step("flow2", "flow3")
        /\ UNCHANGED <<ring, errors, uart, call, rd, k, slot, flags, out, lost>>
    BY <1>2 DEF FlowDecide
  <2> HIDE DEF room
  <2> QED BY <2>1, <2>2 DEF Slots
<1>3. CASE FlowOut
  BY <1>3 DEF FlowOut
<1>4. CASE FlowStore
  BY <1>4 DEF FlowStore
<1> QED BY <1>1, <1>2, <1>3, <1>4

LEMMA EndStep ==
  ASSUME IInv,
         \/ Continue \/ \E b \in BOOLEAN : Leave(b)
         \/ FinLoad("fin", "fin2") \/ FinStore("fin2", "fin3", "overrun")
         \/ FinLoad("fin3", "fin4") \/ FinStore("fin4", "done", "framing")
  PROVE  IInv'
<1> USE DEF IInv, TypeOK, Reading, Counting, Taking, Flowing, Places, Step,
            ring, errors, uart, call, tmp, Min2
<1>1. CASE Continue
  BY <1>1 DEF Continue
<1>2. CASE \E b \in BOOLEAN : Leave(b)
  BY <1>2 DEF Leave
<1>3. CASE FinLoad("fin", "fin2") \/ FinLoad("fin3", "fin4")
  BY <1>3 DEF FinLoad
<1>4. ASSUME NEW e, \/ FinStore("fin2", "fin3", e)
                   \/ FinStore("fin4", "done", e)
      PROVE  IInv'
  <2>1. status' \subseteq Errs /\ flags' = {} /\ inStatus' \in BOOLEAN
    <3>1. flags \subseteq Errs /\ status \subseteq Errs /\ inStatus \in BOOLEAN
      OBVIOUS
    <3>2. \/ inStatus' = TRUE /\ status' = flags \ {e}
          \/ inStatus' = inStatus /\ status' = status
      BY <1>4 DEF FinStore
    <3>3. flags' = {}
      BY <1>4 DEF FinStore
    <3> HIDE DEF IInv
    <3> QED BY <3>1, <3>2, <3>3
  <2>2. pc \in {"fin2", "fin4"} /\ pc' \in {"fin3", "done"}
        /\ lull' = Min2(Gap, lull + 1)
        /\ UNCHANGED <<ring, uart, call, rd, k, t0, slot, new, out, lost>>
    BY <1>4 DEF FinStore
  <2> QED BY <2>1, <2>2
<1> QED BY <1>1, <1>2, <1>3, <1>4

LEMMA CallStep ==
  ASSUME IInv, \/ \E n \in 1 .. MaxWant, d \in BOOLEAN : Call(n, d)
               \/ Return \/ Advance
  PROVE  IInv'
<1> USE DEF IInv, TypeOK, Reading, Counting, Taking, Flowing, Places, Step,
            ring, errors, uart, call, tmp, Min2
<1>1. ASSUME NEW n \in 1 .. MaxWant, NEW d \in BOOLEAN, Call(n, d) PROVE IInv'
  BY <1>1 DEF Call
<1>2. CASE Return
  <2>0. pc' = "idle" /\ keep' = FALSE /\ want' = 0 /\ got' = 0 /\ moved' = 0
        /\ lull' \in 0 .. Gap
        /\ UNCHANGED <<ring, errors, uart, tmp, out, lost>>
    BY <1>2 DEF Return
  <2>x. keep' \in BOOLEAN
    BY <2>0, Zenon
  <2>1. TypeOK'
    BY <1>2, <2>0, <2>x DEF Return, Slots
  <2>2. Reading' /\ Counting'
    BY <1>2 DEF Return
  <2> QED BY <2>1, <2>2
<1>3. CASE Advance
  BY <1>3 DEF Advance, Slots
<1> QED BY <1>1, <1>2, <1>3

LEMMA ByteStep ==
  ASSUME IInv, TakeByte \/ Load \/ Wrap
  PROVE  IInv'
<1> USE DEF IInv, TypeOK, Reading, Counting, Taking, Flowing, Places, Step,
            ring, errors, uart, call, tmp, Min2
<1>1. CASE TakeByte
  BY <1>1 DEF TakeByte, Held, Wrapped, Index, Slots
<1>2. CASE Load
  BY <1>2 DEF Load, Index, Slots
<1>3. CASE Wrap
  BY <1>3 DEF Wrap, Held, Wrapped, Index, Slots
<1> QED BY <1>1, <1>2, <1>3

LEMMA UsedStep ==
  ASSUME IInv, Query2 \/ Check2
  PROVE  IInv'
<1> USE DEF IInv, TypeOK, Reading, Counting, Taking, Flowing, Places, Step,
            ring, errors, uart, call, tmp, Min2
<1>1. head \in Slots /\ GetUsed(head, t0, tail) \in Nat
      /\ Held(head, tail) \in Slots
  <2>1. head \in Slots /\ t0 \in Slots /\ tail \in Slots /\ head \in Index
    BY DEF Query2, Check2, Index, Slots
  <2> HIDE DEF IInv
  <2> QED BY <2>1, UsedBounded, HeldType
<1>2. \/ GetUsed(head, t0, tail) = Held(head, tail)
      \/ head > tail /\ head <= t0
  <2>1. (head > t0 => head > tail) /\ t0 \in Slots /\ tail \in Slots
    BY DEF Query2, Check2
  <2> HIDE DEF IInv
  <2> QED BY <1>1, <2>1, UsedExact DEF Slots
<1>3. CASE Query2
  BY <1>1, <1>2, <1>3, SMTT(60) DEF Query2, Slots
<1>4. CASE Check2
  <2>1. TypeOK'
    BY <1>4 DEF Check2, Slots
  <2>2. Counting'
    BY <1>4 DEF Check2
  <2>3. pc' = "take" => rd' - k' <= Held(head', tail')
    BY <1>1, <1>2, <1>4 DEF Check2, Slots
  <2>4. Reading'
    <3>1. pc' \in {"take", "flow"}
      BY <1>4 DEF Check2
    <3> QED BY <2>3, <3>1
  <2> QED BY <2>1, <2>2, <2>4
<1> QED BY <1>3, <1>4

LEMMA MainStep ==
  ASSUME IInv, Main
  PROVE  IInv'
BY SampleStep, FlowStep, EndStep, CallStep, ByteStep, UsedStep DEF Main, ReadLoop

LEMMA InitIInv == Init => IInv
<1> SUFFICES ASSUME Init PROVE IInv
  OBVIOUS
<1>1. inStatus \in BOOLEAN /\ rts \in BOOLEAN /\ mcrVal \in BOOLEAN
      /\ keep \in BOOLEAN /\ new \in BOOLEAN
  BY Zenon DEF Init
<1>2. TypeOK
  BY <1>1 DEF Init, TypeOK, Places, Errs, Slots, Index
<1>3. Reading /\ Counting
  BY DEF Init, Reading, Counting, Taking, Flowing
<1> QED BY <1>2, <1>3 DEF IInv

LEMMA NextIInv == IInv /\ [Next]_vars => IInv'
<1> SUFFICES ASSUME IInv, [Next]_vars PROVE IInv'
  OBVIOUS
<1>1. CASE Main
  BY <1>1, MainStep
<1>2. CASE Interrupts
  BY <1>2, ArriveStep, LineErrorStep DEF Interrupts, Errs
<1>3. CASE UNCHANGED vars
  BY <1>3 DEF vars, ring, errors, uart, call, tmp, IInv, TypeOK, Reading,
     Counting, Held
<1> QED BY <1>1, <1>2, <1>3 DEF Next

(* Whatever the order in which bytes arrive between the accesses of a read *)
(* call, the main context never has more reserved than the ring holds, and *)
(* every index stays in the buffer.                                        *)
THEOREM Invariance == Spec => []IInv
<1> QED BY InitIInv, NextIInv, PTL DEF Spec

(* serial.c:315-326, fifo.c:38-59: no access leaves the buffer.            *)
THEOREM TypeCorrect == Spec => []TypeOK
<1>1. IInv => TypeOK
  BY DEF IInv
<1> QED BY <1>1, Invariance, PTL

(* serial.c:315-321: the bytes a call goes on to take are in the ring.     *)
THEOREM ReadingSafe == Spec => []Reading
<1>1. IInv => Reading
  BY DEF IInv
<1> QED BY <1>1, Invariance, PTL

------------------------------------------------------------------------------
(***************************************************************************)
(* The receive ring is a bounded queue.  Moving head is where a byte       *)
(* leaves it and moving tail where one enters it; every other step of      *)
(* either context leaves the queue and the byte taken last as they were.   *)
(***************************************************************************)
LEMMA RingTyped ==
  ASSUME IInv
  PROVE  /\ buf \in [Slots -> Bytes] /\ head \in Index /\ tail \in Slots
         /\ slot \in Slots
BY DEF IInv, TypeOK

LEMMA ArriveQueues ==
  ASSUME IInv, NEW b \in Bytes, Arrive(b)
  PROVE  Queue!QNext
<1>1. /\ buf \in [Slots -> Bytes] /\ head \in Index /\ tail \in Slots
      /\ slot \in Slots /\ Held(head, tail) \in Slots
      /\ GetFree(head, head, tail) = Depth - 1 - Held(head, tail)
  BY RingTyped, HeldType, FreeExact
<1>2. head' = head /\ pc' = pc /\ keep' = keep /\ slot' = slot /\ out' = out
  BY DEF Arrive, ring, call, tmp
<1>3. Len(Queued(buf, head, tail)) = Held(head, tail)
  <2>1. PICK b0 \in [Slots -> Bytes], h \in Index, t \in Slots :
          b0 = buf /\ h = head /\ t = tail
    BY <1>1
  <2>2. Len(Queued(b0, h, t)) = Held(h, t)
    BY QueuedType, SMTT(60)
  <2> QED BY <2>1, <2>2
<1>4. CASE GetFree(head, head, tail) < 1
  <2>1. buf' = buf /\ tail' = tail /\ lost' = lost + 1
    BY <1>4 DEF Arrive, ring
  <2>2. Held(head, tail) = Depth - 1
    BY <1>1, <1>4 DEF Slots
  <2>3. Queue!Refuse
    BY <1>2, <1>3, <2>1, <2>2 DEF Queue!Refuse, LastTaken
  <2> QED BY <2>3 DEF Queue!QNext
<1>5. CASE GetFree(head, head, tail) >= 1
  <2>1. /\ buf' = Stored(buf, tail, b) /\ tail' = Wrapped(tail + 1)
        /\ lost' = lost
    BY <1>1, <1>5 DEF Arrive, Slots
  <2>2. Queued(buf', head', tail') = Append(Queued(buf, head, tail), b)
    <3>1. Queued(buf', head, tail') = Append(Queued(buf, head, tail), b)
      BY <1>1, <1>5, <2>1, FilledAppends
    <3> QED BY <1>2, <2>1, <3>1
  <2>3. LastTaken' = LastTaken
    <3>1. CASE pc = "load"
      <4>1. head = slot + 1
        BY <3>1 DEF IInv, Reading
      <4>2. slot # tail
        BY <1>1, <1>5, <4>1 DEF Held, Wrapped, Slots
      <4> QED BY <1>1, <1>2, <2>1, <4>2 DEF LastTaken, Stored
    <3>2. CASE pc # "load"
      BY <1>2, <3>2 DEF LastTaken
    <3> QED BY <3>1, <3>2
  <2>4. Len(Queued(buf, head, tail)) < Depth - 1
    BY <1>1, <1>3, <1>5 DEF Slots
  <2>5. Queue!Put(b)
    BY <2>1, <2>2, <2>3, <2>4 DEF Queue!Put
  <2> QED BY <2>5 DEF Queue!QNext
<1> QED BY <1>1, <1>4, <1>5 DEF Slots

LEMMA TakeQueues ==
  ASSUME IInv, TakeByte
  PROVE  Queue!QNext
<1>1. /\ buf \in [Slots -> Bytes] /\ head \in Slots /\ tail \in Slots
      /\ 0 < Held(head, tail)
  <2>1. /\ pc = "take" /\ rd - k <= Held(head, tail) /\ k < rd
        /\ rd \in Nat /\ k \in Nat
    BY DEF TakeByte, Step, IInv, TypeOK, Reading, Counting, Taking
  <2>2. head \in Slots /\ tail \in Slots /\ Held(head, tail) \in Slots
    BY <2>1, RingTyped, HeldType DEF IInv, TypeOK, Index, Slots
  <2> QED BY <2>1, <2>2, RingTyped DEF Slots
<1>2. /\ pc = "take" /\ pc' = "load" /\ slot' = head /\ head' = head + 1
      /\ UNCHANGED <<buf, tail, keep, out, lost>>
  BY DEF TakeByte, Step
<1>3. /\ Queued(buf, head, tail) # <<>>
      /\ Head(Queued(buf, head, tail)) = buf[head]
      /\ Queued(buf', head', tail') = Tail(Queued(buf, head, tail))
  BY <1>1, <1>2, TakenFirst
<1>4. CASE keep
  <2>1. LastTaken' = Head(Queued(buf, head, tail))
    BY <1>2, <1>3, <1>4 DEF LastTaken
  <2> QED BY <1>2, <1>3, <2>1 DEF Queue!QNext, Queue!Take
<1>5. CASE ~keep
  <2>1. LastTaken' = LastTaken
    BY <1>2, <1>5 DEF LastTaken
  <2> QED BY <1>2, <1>3, <2>1 DEF Queue!QNext, Queue!Discard
<1> QED BY <1>4, <1>5

(* A step that moves neither index, and does not begin or end a load. *)
LEMMA IdleQueues ==
  ASSUME UNCHANGED <<ring, slot, keep, out, lost>>,
         (pc = "load") = (pc' = "load")
  PROVE  UNCHANGED Queue!qVars
BY DEF ring, LastTaken, Queue!qVars

LEMMA LoadQueues ==
  ASSUME IInv, Load \/ Wrap
  PROVE  UNCHANGED Queue!qVars
<1>1. CASE Load
  <2>1. /\ UNCHANGED <<buf, head, tail, lost>> /\ pc = "load" /\ pc' = "wrap"
        /\ out' = (IF keep THEN buf[slot] ELSE out)
    BY <1>1 DEF Load, Step, ring
  <2>2. LastTaken' = LastTaken
    BY <2>1 DEF LastTaken
  <2> QED BY <2>1, <2>2 DEF Queue!qVars
<1>2. CASE Wrap
  <2>1. /\ UNCHANGED <<buf, tail, lost, slot, out>> /\ head' = Wrapped(head)
        /\ pc = "wrap" /\ pc' # "load"
    BY <1>2 DEF Wrap, Step
  <2>2. Queued(buf', head', tail') = Queued(buf, head, tail)
    BY <2>1, RingTyped, WrapKeeps
  <2>3. LastTaken' = LastTaken
    BY <2>1 DEF LastTaken
  <2> QED BY <2>1, <2>2, <2>3 DEF Queue!qVars
<1> QED BY <1>1, <1>2

LEMMA CallQueues ==
  ASSUME \/ \E n \in 1 .. MaxWant, d \in BOOLEAN : Call(n, d)
         \/ Return
  PROVE  UNCHANGED Queue!qVars
<1>1. /\ UNCHANGED <<ring, out, lost>>
      /\ pc # "load" /\ pc' # "load"
  BY DEF Call, Return, Step
<1>2. LastTaken' = LastTaken
  BY <1>1 DEF LastTaken
<1> QED BY <1>1, <1>2 DEF ring, Queue!qVars

LEMMA OtherQueues ==
  ASSUME \/ Query \/ Query2 \/ Check \/ Check2
         \/ FlowEnter \/ FlowCompare \/ FlowDecide \/ FlowOut \/ FlowStore
         \/ Advance \/ Continue \/ \E b \in BOOLEAN : Leave(b)
         \/ FinLoad("fin", "fin2") \/ FinStore("fin2", "fin3", "overrun")
         \/ FinLoad("fin3", "fin4") \/ FinStore("fin4", "done", "framing")
         \/ \E e \in {"overrun", "framing"} : LineError(e)
         \/ UNCHANGED vars
  PROVE  UNCHANGED Queue!qVars
<1>1. CASE Query \/ Query2 \/ Check \/ Check2
  BY <1>1, IdleQueues DEF Query, Query2, Check, Check2, Step, call, tmp
<1>2. CASE FlowEnter \/ FlowCompare \/ FlowDecide \/ FlowOut \/ FlowStore
  BY <1>2, IdleQueues
     DEF FlowEnter, FlowCompare, FlowDecide, FlowOut, FlowStore, Step, call, tmp
<1>3. CASE Advance \/ Continue \/ \E b \in BOOLEAN : Leave(b)
  BY <1>3, IdleQueues DEF Advance, Continue, Leave, Step, call, tmp
<1>4. CASE FinLoad("fin", "fin2") \/ FinLoad("fin3", "fin4")
  BY <1>4, IdleQueues DEF FinLoad, Step, call, tmp
<1>5. CASE \/ FinStore("fin2", "fin3", "overrun")
           \/ FinStore("fin4", "done", "framing")
  BY <1>5, IdleQueues DEF FinStore, Step, call, tmp
<1>6. CASE (\E e \in {"overrun", "framing"} : LineError(e)) \/ UNCHANGED vars
  BY <1>6, IdleQueues DEF LineError, vars, call, tmp
<1> QED BY <1>1, <1>2, <1>3, <1>4, <1>5, <1>6

(* data/fifo.c under _serial_read and _serial_int_handler: every byte the  *)
(* handler accepted leaves once, in order, whatever the interleaving.      *)
THEOREM Refinement == Spec => ImplementsQueue
<1>1. Init => Queue!QInit
  <2> SUFFICES ASSUME Init PROVE Queue!QInit
    OBVIOUS
  <2>1. buf \in [Slots -> Bytes] /\ head = 0 /\ tail = 0 /\ pc = "idle"
        /\ out \in Bytes /\ lost = 0
    BY DEF Init
  <2>2. 0 \in Index /\ 0 \in Slots /\ Held(0, 0) = 0
    BY DEF Index, Slots, Held, Wrapped
  <2>3. Queued(buf, 0, 0) \in Seq(Bytes) /\ Len(Queued(buf, 0, 0)) = 0
    BY <2>1, <2>2, QueuedType
  <2>4. Queued(buf, head, tail) = <<>>
    BY <2>1, <2>3
  <2> QED BY <2>1, <2>4 DEF Queue!QInit, LastTaken
<1>2. IInv /\ [Next]_vars => [Queue!QNext]_(Queue!qVars)
  <2> SUFFICES ASSUME IInv, [Next]_vars
               PROVE  Queue!QNext \/ UNCHANGED Queue!qVars
    OBVIOUS
  <2>1. CASE Main
    BY <2>1, TakeQueues, LoadQueues, CallQueues, OtherQueues DEF Main, ReadLoop
  <2>2. CASE Interrupts
    BY <2>2, ArriveQueues, OtherQueues DEF Interrupts
  <2>3. CASE UNCHANGED vars
    BY <2>3, OtherQueues
  <2> QED BY <2>1, <2>2, <2>3 DEF Next
<1> QED BY <1>1, <1>2, Invariance, PTL DEF Spec, ImplementsQueue, Queue!QSpec

------------------------------------------------------------------------------
(***************************************************************************)
(* Flow control.  The main context may raise RTS on a sample that has gone *)
(* stale, but what it did not see is at most the one byte that can arrive  *)
(* before its next step, and the next arrival brings the handler, which    *)
(* looks again.                                                            *)
(***************************************************************************)
Fill == Held(head, tail)

Sampled == pc = "flow2" => (head > t0 => head > tail)

(* Outside the two steps of the main context that write the register and   *)
(* its shadow, they agree, and RTS is on only when there is room to spare. *)
Shadow == pc # "flow4" => rts = mcrVal /\ (rts => Fill <= FifoLow + 1)

Decided == pc = "flow3" /\ new => Fill <= FifoLow /\ (Fill = FifoLow => lull = 0)

Raising ==
  pc = "flow4" /\ new =>
    /\ rts
    /\ \/ ~mcrVal /\ Fill <= FifoLow
       \/ lull = 0 /\ Fill <= FifoLow + 1

Lowering == pc = "flow4" /\ ~new => ~rts

Throttled == Sampled /\ Shadow /\ Decided /\ Raising /\ Lowering /\ lost = 0

(* A quarter of the ring is kept free: at least three bytes from a depth   *)
(* of 12 on.                                                               *)
LEMMA LowBounds ==
  ASSUME Depth >= 12
  PROVE  FifoLow \in Nat /\ 0 < FifoLow /\ FifoLow + 1 < Depth - 1
BY DEF FifoLow

LEMMA FillType == ASSUME IInv PROVE Fill \in Nat /\ Fill < Depth
<1>1. head \in Index /\ tail \in Slots
  BY DEF IInv, TypeOK
<1> QED BY <1>1, HeldType DEF Fill, Slots

LEMMA FlowInit == ASSUME Init, Depth >= 12 PROVE Throttled
<1>1. pc = "idle" /\ lost = 0 /\ head = 0 /\ tail = 0 /\ rts = mcrVal
  BY DEF Init
<1>2. Fill <= FifoLow + 1
  BY <1>1, LowBounds DEF Fill, Held, Wrapped
<1> QED BY <1>1, <1>2 DEF Throttled, Sampled, Shadow, Decided, Raising, Lowering

(* What the handler finds is exact, and RTS says afterwards what it found. *)
LEMMA ArriveFlow ==
  ASSUME FlowControl, Honours, Gap > 0, Depth >= 12,
         IInv, Throttled, NEW b \in Bytes, Arrive(b)
  PROVE  Throttled'
<1>1. /\ rts /\ lull = Gap /\ lull' = 0 /\ pc' = pc /\ t0' = t0 /\ new' = new
      /\ head' = head /\ HandlerFlow(head, tail')
  BY DEF Arrive, ring, tmp
<1>2. /\ head \in Index /\ tail \in Slots /\ Fill \in Nat /\ Fill < Depth
      /\ FifoLow \in Nat /\ 0 < FifoLow /\ FifoLow + 1 < Depth - 1
      /\ pc = "flow2" => head \in Slots /\ t0 \in Slots
  BY FillType, LowBounds DEF IInv, TypeOK, Index, Slots
<1>3. pc = "flow4" => new /\ ~mcrVal /\ Fill <= FifoLow
  <2>1. lull # 0
    BY <1>1
  <2> QED BY <1>1, <2>1, Zenon DEF Throttled, Raising, Lowering
<1>4. pc # "flow4" => mcrVal /\ Fill <= FifoLow + 1
  BY <1>1, Zenon DEF Throttled, Shadow
<1>5. GetFree(head, head, tail) >= 1 /\ Fill <= FifoLow + 1
  <2>1. Fill <= FifoLow + 1
    BY <1>2, <1>3, <1>4
  <2> QED BY <1>2, <2>1, FreeExact DEF Fill
<1>6. tail' = Wrapped(tail + 1) /\ lost' = lost
  <2>1. ~(GetFree(head, head, tail) < 1)
    <3>1. GetFree(head, head, tail) \in Int
      BY <1>2, FreeExact DEF Fill
    <3> QED BY <1>5, <3>1
  <2> QED BY <2>1 DEF Arrive
<1>7. /\ tail' \in Slots /\ Fill' = Fill + 1
      /\ head \in Slots /\ head > tail => head > tail'
  BY <1>1, <1>2, <1>5, <1>6, FilledExact DEF Fill
<1>8. GetUsed(head, tail', tail') = Fill'
  <2>1. PICK h \in Index : h = head
    BY <1>2
  <2>2. PICK t \in Slots : t = tail'
    BY <1>7
  <2>3. GetUsed(h, t, t) = Held(h, t)
    BY DEF GetUsed, Held, Minus, Wrapped, Index, Slots
  <2> QED BY <1>1, <2>1, <2>2, <2>3 DEF Fill
<1> DEFINE on == Fill' < FifoLow
<1>9. IF on = mcrVal THEN UNCHANGED uart ELSE rts' = on /\ mcrVal' = on
  BY <1>1, <1>8 DEF HandlerFlow
<1>10. Sampled'
  BY <1>1, <1>2, <1>7 DEF Throttled, Sampled
<1>11. CASE pc = "flow4"
  <2>1. Fill' <= FifoLow + 1
    BY <1>2, <1>3, <1>7, <1>11
  <2>2. rts'
    <3>1. on \in BOOLEAN
      OBVIOUS
    <3> HIDE DEF on
    <3>2. CASE on
      <4>1. rts' = on
        BY <1>3, <1>9, <1>11, <3>2, Zenon
      <4> QED BY <3>2, <4>1, Zenon
    <3>3. CASE ~on
      <4>1. mcrVal \in BOOLEAN
        BY DEF IInv, TypeOK
      <4>2. on = mcrVal
        BY <1>3, <1>11, <3>1, <3>3, <4>1, Zenon
      <4>3. rts' = rts
        BY <1>9, <4>2 DEF uart
      <4> QED BY <1>1, <4>3, Zenon
    <3> QED BY <3>2, <3>3
  <2>3. pc' = "flow4" /\ new' /\ lost' = 0 /\ lull' = 0
    BY <1>1, <1>3, <1>6, <1>11 DEF Throttled
  <2> QED BY <1>10, <2>1, <2>2, <2>3
          DEF Throttled, Shadow, Decided, Raising, Lowering
<1>12. CASE pc # "flow4"
  <2>1. rts' = mcrVal' /\ (rts' => Fill' < FifoLow)
    <3>1. on \in BOOLEAN /\ mcrVal \in BOOLEAN /\ rts = mcrVal
      BY <1>12 DEF IInv, TypeOK, Throttled, Shadow
    <3>2. Fill' < FifoLow <=> on
      OBVIOUS
    <3> HIDE DEF on
    <3>3. CASE on = mcrVal
      <4>1. rts' = rts /\ mcrVal' = mcrVal
        BY <1>9, <3>3 DEF uart
      <4>2. on
        BY <1>4, <1>12, <3>3, Zenon
      <4> QED BY <3>1, <3>2, <4>1, <4>2, Zenon
    <3>4. CASE on # mcrVal
      BY <1>9, <3>2, <3>4, Zenon
    <3> QED BY <3>3, <3>4
  <2>2. pc' # "flow4" /\ lost' = 0
    BY <1>1, <1>6, <1>12 DEF Throttled
  <2>3. rts' => Fill' <= FifoLow + 1
    <3>1. Fill' \in Nat
      BY <1>2, <1>7
    <3>2. Fill' < FifoLow => Fill' <= FifoLow + 1
      BY <1>2, <3>1
    <3> QED BY <2>1, <3>2, Zenon
  <2>4. Decided'
    <3>1. pc = "flow3" /\ new => Fill < FifoLow
      BY <1>1, <1>2 DEF Throttled, Decided
    <3> QED BY <1>1, <1>2, <1>7, <3>1 DEF Decided
  <2> QED BY <1>10, <2>1, <2>2, <2>3, <2>4
          DEF Throttled, Shadow, Raising, Lowering
<1> QED BY <1>11, <1>12

(* The main context: taking a byte only makes room.                        *)
LEMMA ReadFlow ==
  ASSUME IInv, Throttled, Depth >= 12,
         \/ \E n \in 1 .. MaxWant, d \in BOOLEAN : Call(n, d)
         \/ Query \/ Query2 \/ Check \/ Check2 \/ TakeByte \/ Load \/ Wrap
         \/ FlowEnter \/ Advance \/ Continue \/ \E b \in BOOLEAN : Leave(b)
         \/ FinLoad("fin", "fin2") \/ FinStore("fin2", "fin3", "overrun")
         \/ FinLoad("fin3", "fin4") \/ FinStore("fin4", "done", "framing")
         \/ Return
  PROVE  Throttled'
<1>1. /\ pc \notin {"flow1", "flow2", "flow3", "flow4"}
      /\ pc' \notin {"flow2", "flow3", "flow4"}
      /\ rts' = rts /\ mcrVal' = mcrVal /\ lost' = lost
  BY DEF Call, Query, Query2, Check, Check2, TakeByte, Load, Wrap, FlowEnter,
         Advance, Continue, Leave, FinLoad, FinStore, Return, Step, uart
<1>2. Fill' <= Fill /\ Fill' \in Nat
  <2>0. head \in Index /\ tail \in Slots /\ Fill \in Nat /\ Fill < Depth
    BY FillType DEF IInv, TypeOK
  <2>1. CASE TakeByte
    <3>1. head \in Slots /\ head' = head + 1 /\ tail' = tail /\ 0 < Fill
      <4>1. /\ pc = "take" /\ rd - k <= Fill /\ k < rd
            /\ rd \in Nat /\ k \in Nat
        BY <2>1 DEF TakeByte, Step, IInv, TypeOK, Reading, Counting, Taking, Fill
      <4> QED BY <2>0, <2>1, <4>1 DEF TakeByte, IInv, TypeOK, Index, Slots
    <3> QED BY <2>0, <3>1 DEF Fill, Held, Wrapped, Slots
  <2>2. CASE Wrap
    <3>1. head' = Wrapped(head) /\ tail' = tail
      BY <2>2 DEF Wrap
    <3> QED BY <2>0, <3>1 DEF Fill, Held, Wrapped, Index, Slots
  <2>3. CASE ~TakeByte /\ ~Wrap
    <3>1. head' = head /\ tail' = tail
      BY <2>3 DEF Call, Query, Query2, Check, Check2, Load, FlowEnter, Advance,
                  Continue, Leave, FinLoad, FinStore, Return, ring
    <3> QED BY <2>0, <3>1 DEF Fill
  <2> QED BY <2>1, <2>2, <2>3
<1>3. rts = mcrVal /\ lost = 0 /\ (rts => Fill <= FifoLow + 1)
  BY <1>1 DEF Throttled, Shadow
<1>4. Fill <= FifoLow + 1 => Fill' <= FifoLow + 1
  BY <1>2, FillType, LowBounds
<1> QED BY <1>1, <1>3, <1>4, Zenon
        DEF Throttled, Sampled, Shadow, Decided, Raising, Lowering

LEMMA DecideFlow ==
  ASSUME IInv, Throttled, Depth >= 12, FlowCompare \/ FlowDecide
  PROVE  Throttled'
<1>0. /\ head \in Slots /\ tail \in Slots /\ t0 \in Slots
      /\ Fill \in Nat /\ Fill < Depth
      /\ FifoLow \in Nat /\ FifoLow + 1 < Depth - 1
  BY FillType, LowBounds, SMTT(60) DEF FlowCompare, FlowDecide, Step, IInv, TypeOK, Index, Slots
<1>1. /\ pc # "flow4" /\ pc' # "flow4" /\ lost' = lost /\ lost = 0
      /\ rts' = rts /\ mcrVal' = mcrVal /\ head' = head /\ tail' = tail
      /\ Fill' = Fill
  BY DEF FlowCompare, FlowDecide, Step, ring, uart, Fill, Throttled
<1>2. Shadow' /\ Raising' /\ Lowering'
  BY <1>1, Zenon DEF Throttled, Shadow, Raising, Lowering
<1>3. CASE FlowCompare
  <2>1. pc' = "flow2" /\ t0' = tail
    BY <1>3 DEF FlowCompare, Step
  <2> QED BY <1>1, <1>2, <2>1 DEF Throttled, Sampled, Decided
<1>4. CASE FlowDecide
  <2>1. /\ pc = "flow2" /\ pc' = "flow3"
        /\ new' = (GetUsed(head, t0, tail) < FifoLow)
    BY <1>4 DEF FlowDecide, Step
  <2>2. GetUsed(head, t0, tail) < FifoLow => Fill < FifoLow
    <3>1. head > t0 => head > tail
      BY <2>1 DEF Throttled, Sampled
    <3>2. CASE head <= t0 /\ head > tail
      <4>1. GetUsed(head, t0, tail) = tail - head + Word
        BY <1>0, <3>2 DEF GetUsed, Minus, Slots
      <4> QED BY <1>0, <4>1 DEF Slots
    <3>3. CASE ~(head <= t0 /\ head > tail)
      BY <1>0, <3>1, <3>3, UsedExact DEF Fill
    <3> QED BY <3>2, <3>3
  <2>3. Decided'
    <3>1. new' => Fill < FifoLow
      BY <2>1, <2>2, Zenon
    <3>2. Fill < FifoLow => Fill <= FifoLow /\ Fill # FifoLow
      BY <1>0
    <3> QED BY <1>1, <3>1, <3>2, Zenon DEF Decided
  <2> QED BY <1>1, <1>2, <2>1, <2>3 DEF Throttled, Sampled
<1> QED BY <1>3, <1>4

LEMMA WriteFlow ==
  ASSUME IInv, Throttled, Depth >= 12, FlowOut \/ FlowStore
  PROVE  Throttled'
<1>0. /\ Fill \in Nat /\ FifoLow \in Nat
      /\ rts \in BOOLEAN /\ mcrVal \in BOOLEAN /\ new \in BOOLEAN
  BY FillType, LowBounds DEF IInv, TypeOK
<1>1. Fill' = Fill /\ new' = new /\ lost' = 0 /\ pc' \notin {"flow2", "flow3"}
  BY DEF FlowOut, FlowStore, Step, ring, tmp, Fill, Throttled
<1>2. Sampled' /\ Decided'
  BY <1>1 DEF Sampled, Decided
<1>3. CASE FlowOut
  <2>1. rts = mcrVal /\ (rts => Fill <= FifoLow + 1) /\ mcrVal' = mcrVal
    BY <1>3 DEF FlowOut, Step, Throttled, Shadow
  <2>2. CASE new = mcrVal
    <3>1. pc' = "advance" /\ rts' = rts
      BY <1>3, <2>2 DEF FlowOut, Step
    <3> QED BY <1>1, <1>2, <2>1, <3>1 DEF Throttled, Shadow, Raising, Lowering
  <2>3. CASE new # mcrVal
    <3>1. pc = "flow3" /\ pc' = "flow4" /\ rts' = new
      BY <1>3, <2>3 DEF FlowOut, Step
    <3>2. new => ~mcrVal /\ Fill <= FifoLow
      BY <1>0, <2>3, <3>1, Zenon DEF Throttled, Decided
    <3>3. Raising' /\ Lowering'
      BY <1>1, <2>1, <3>1, <3>2, Zenon DEF Raising, Lowering
    <3> QED BY <1>1, <1>2, <3>1, <3>3 DEF Throttled, Shadow
  <2> QED BY <2>2, <2>3
<1>4. CASE FlowStore
  <2>1. pc = "flow4" /\ pc' = "advance" /\ mcrVal' = new /\ rts' = rts
    BY <1>4 DEF FlowStore, Step
  <2>2. rts = new
    <3>1. (new => rts) /\ (~new => ~rts)
      BY <2>1 DEF Throttled, Raising, Lowering
    <3>2. CASE new
      <4>1. new = TRUE /\ rts = TRUE
        BY <1>0, <3>1, <3>2
      <4> QED BY <4>1
    <3>3. CASE ~new
      <4>1. new = FALSE /\ rts = FALSE
        BY <1>0, <3>1, <3>3
      <4> QED BY <4>1
    <3> QED BY <3>2, <3>3
  <2>3. rts => Fill <= FifoLow + 1
    <3>1. Fill <= FifoLow => Fill <= FifoLow + 1
      BY <1>0
    <3> QED BY <2>1, <2>2, <3>1, Zenon DEF Throttled, Raising
  <2> QED BY <1>1, <1>2, <2>1, <2>2, <2>3
          DEF Throttled, Shadow, Raising, Lowering
<1> QED BY <1>3, <1>4

LEMMA FlowInvariant ==
  ASSUME FlowControl, Honours, Gap > 0, Depth >= 12
  PROVE  IInv /\ Throttled /\ [Next]_vars => Throttled'
<1> SUFFICES ASSUME IInv, Throttled, [Next]_vars PROVE Throttled'
  OBVIOUS
<1>1. CASE Main
  BY <1>1, ReadFlow, DecideFlow, WriteFlow DEF Main, ReadLoop
<1>2. ASSUME NEW b \in Bytes, Arrive(b) PROVE Throttled'
  BY <1>2, ArriveFlow
<1>3. CASE (\E e \in {"overrun", "framing"} : LineError(e)) \/ UNCHANGED vars
  BY <1>3 DEF LineError, vars, ring, uart, call, tmp, Fill, Throttled, Sampled,
              Shadow, Decided, Raising, Lowering
<1> QED BY <1>1, <1>2, <1>3 DEF Next, Interrupts

(* serial.c:253-297, 400: with flow control on, a ring that is not tiny    *)
(* (the source makes none below 16) and a main context that makes a step   *)
(* in a byte time, a sender that stops while RTS is off loses nothing, for *)
(* every depth and whatever the two writers of the register interleave.    *)
THEOREM FlowLosesNothing ==
  ASSUME FlowControl, Gap > 0, Depth >= 12
  PROVE  Spec => []NoOverrun
<1>1. CASE Honours
  <2>1. Init => Throttled
    BY FlowInit
  <2>2. IInv /\ Throttled /\ [Next]_vars => Throttled'
    BY <1>1, FlowInvariant
  <2>3. Throttled => NoOverrun
    BY DEF Throttled, NoOverrun
  <2> QED BY <2>1, <2>2, <2>3, Invariance, PTL DEF Spec
<1>2. CASE ~Honours
  <2>1. Init => NoOverrun
    BY <1>2 DEF NoOverrun
  <2>2. NoOverrun /\ [Next]_vars => NoOverrun'
    BY <1>2 DEF NoOverrun
  <2> QED BY <2>1, <2>2, PTL DEF Spec
<1> QED BY <1>1, <1>2
=============================================================================
