------------------------------ MODULE SerialTx ------------------------------
(***************************************************************************)
(* The transmit side of io/serial.c on one port: _serial_write puts bytes  *)
(* in txfifo and starts the transmitter, _serial_int_handler feeds it from *)
(* there, and between them stands an edge-triggered interrupt controller.  *)
(*                                                                         *)
(* Only where bytes are matters here, not what they are.  As in SerialRx   *)
(* the handler is one step, and the main context is cut at each access to  *)
(* head, which the handler moves.  Interrupts are on, and one that can be  *)
(* taken is taken before the main context goes on; so nothing moves head   *)
(* while the main context itself feeds an idle transmitter, one step here. *)
(***************************************************************************)
EXTENDS Fifo

CONSTANTS
  MaxWrite, \* bound: bytes of one call
  Gap       \* main steps that surely fit in one byte time, one at least

ASSUME TxAssumption == MaxWrite \in Nat \ {0} /\ Gap \in Nat \ {0}

VARIABLES
  head, tail,    \* txfifo
  level,         \* bytes put in the ring and not taken out
  thr,           \* the transmitter's holding register is full
  thrInt, rxInt, \* the UART's reasons to interrupt, not yet cleared
  edge,          \* the controller has seen the interrupt line rise
  pc,            \* where the main context is
  todo,          \* sz - i
  wr, k,         \* wr_sz, and the bytes fifo_write has done
  h0,            \* the head a fifo_getfree has compared
  lull           \* main steps since the register last emptied, up to Gap

ring == <<head, tail, level>>
uart == <<thr, thrInt, rxInt, edge>>
locals == <<todo, wr, k, h0>>
vars == <<ring, uart, pc, locals, lull>>

Line == thrInt \/ rxInt
Used == GetUsed(head, tail, tail)
Fewer(x, y) == IF x < y THEN x ELSE y

------------------------------------------------------------------------------
(* The UART: the holding register empties into the shift register, or a    *)
(* byte has arrived.                                                       *)
Emptied ==
  /\ thr /\ thr' = FALSE /\ thrInt' = TRUE
  /\ lull = Gap /\ lull' = 0
  /\ edge' = (edge \/ ~Line)
  /\ UNCHANGED <<ring, rxInt, pc, locals>>

Arrived ==
  /\ ~rxInt /\ rxInt' = TRUE
  /\ edge' = (edge \/ ~Line)
  /\ UNCHANGED <<ring, thr, thrInt, pc, locals, lull>>

(* A byte goes from the ring to the holding register. *)
Feed ==
  /\ head' = Wrapped(head + 1) /\ level' = level - 1 /\ UNCHANGED tail
  /\ thr' = TRUE /\ thrInt' = FALSE

(* _serial_int_handler serves one reason, the one the UART ranks first.    *)
ServeRx ==
  /\ edge /\ rxInt
  /\ edge' = FALSE /\ rxInt' = FALSE
  /\ UNCHANGED <<ring, thr, thrInt, pc, locals, lull>>

ServeTx ==
  /\ edge /\ ~rxInt /\ thrInt
  /\ edge' = FALSE
  /\ IF Used >= 1 THEN Feed ELSE thrInt' = FALSE /\ UNCHANGED <<ring, thr>>
  /\ UNCHANGED <<rxInt, pc, locals, lull>>

------------------------------------------------------------------------------
Step(from, to) ==
  /\ ~edge /\ pc = from /\ pc' = to
  /\ lull' = Fewer(Gap, lull + 1)

(* _serial_write, from the output functions. *)
Call(n) ==
  /\ Step("idle", "free")
  /\ todo' = n
  /\ UNCHANGED <<ring, uart, wr, k, h0>>

(* The main context does something else. *)
Elsewhere ==
  /\ Step("idle", "idle") /\ UNCHANGED <<ring, uart, locals>>

(* wr_sz = fifo_getfree(): compare, then subtract; at most what is left.   *)
Free ==
  /\ Step("free", "free2") /\ h0' = head
  /\ UNCHANGED <<ring, uart, todo, wr, k>>

Free2 ==
  /\ wr' = Fewer(GetFree(h0, head, tail), todo)
  /\ IF wr' = 0 THEN Step("free2", "lsr") ELSE Step("free2", "check")
  /\ h0' = 0
  /\ UNCHANGED <<ring, uart, todo, k>>

(* fifo_write(wr_sz): fifo_getfree again; its -1 is not looked at.         *)
Check ==
  /\ Step("check", "check2") /\ h0' = head
  /\ UNCHANGED <<ring, uart, todo, wr, k>>

Check2Trusting == \* mutant: fifo_write relies on the caller's fifo_getfree
  /\ Step("check2", "put") /\ h0' = 0
  /\ UNCHANGED <<ring, uart, todo, wr, k>>

Check2 ==
  /\ h0' = 0
  /\ IF GetFree(h0, head, tail) < wr
       THEN Step("check2", "lsr")
            /\ todo' = todo - wr /\ wr' = 0
       ELSE Step("check2", "put") /\ UNCHANGED <<todo, wr>>
  /\ UNCHANGED <<ring, uart, k>>

(* _fifo_write_byte: tail is stored, then wrapped; after the last, i moves.*)
Put ==
  /\ Step("put", "wrap")
  /\ tail' = tail + 1 /\ level' = level + 1
  /\ UNCHANGED <<head, uart, locals>>

Wrap ==
  /\ tail' = Wrapped(tail)
  /\ IF k + 1 < wr
       THEN Step("wrap", "put") /\ k' = k + 1 /\ UNCHANGED <<todo, wr>>
       ELSE Step("wrap", "lsr") /\ k' = 0 /\ todo' = todo - wr /\ wr' = 0
  /\ UNCHANGED <<head, level, uart, h0>>

(* An idle transmitter is fed here: its interrupt has been and gone.       *)
KickNever == \* mutant: the transmitter is left to the handler
  /\ IF todo > 0 THEN Step("lsr", "free") ELSE Step("lsr", "idle")
  /\ UNCHANGED <<ring, uart, locals>>

Kick ==
  /\ IF todo > 0 THEN Step("lsr", "free") ELSE Step("lsr", "idle")
  /\ IF ~thr /\ Used >= 1 THEN Feed ELSE UNCHANGED <<ring, thr, thrInt>>
  /\ UNCHANGED <<rxInt, edge, locals>>

------------------------------------------------------------------------------
Init ==
  /\ head = 0 /\ tail = 0 /\ level = 0
  /\ thr = FALSE /\ thrInt = FALSE /\ rxInt = FALSE /\ edge = FALSE
  /\ pc = "idle" /\ todo = 0 /\ wr = 0 /\ k = 0 /\ h0 = 0
  /\ lull = Gap

WriteLoop == Free \/ Free2 \/ Check \/ Check2 \/ Put \/ Wrap \/ Kick

Handler == ServeRx \/ ServeTx

Next ==
  \/ WriteLoop \/ Elsewhere \/ \E n \in 1 .. MaxWrite : Call(n)
  \/ Handler \/ Emptied \/ Arrived

Spec == Init /\ [][Next]_vars

(* Bytes go out, interrupts are taken, and the main context runs when it   *)
(* has the processor, however often it is interrupted.                     *)
FairSpec ==
  Spec /\ WF_vars(Emptied) /\ WF_vars(Handler) /\ SF_vars(WriteLoop)

------------------------------------------------------------------------------
Places == {"idle", "free", "free2", "check", "check2", "put", "wrap", "lsr"}

(* Types; tail may equal Depth only before its wrap, head never does.      *)
TypeOK ==
  /\ head \in Slots /\ tail \in Index /\ (tail = Depth => pc = "wrap")
  /\ level \in Int /\ thr \in BOOLEAN /\ thrInt \in BOOLEAN
  /\ rxInt \in BOOLEAN /\ edge \in BOOLEAN
  /\ pc \in Places
  /\ todo \in 0 .. MaxWrite /\ wr \in 0 .. todo /\ k \in 0 .. MaxWrite
  /\ h0 \in Slots /\ lull \in 0 .. Gap

(* serial.c:214-222: the handler may wrap head between the two loads of    *)
(* fifo_getfree and make it overstate the room; nothing that has not been  *)
(* sent is overwritten all the same, and the indices tell what is held.    *)
NoOverwrite == level \in 0 .. Depth - 1 /\ level = Held(head, tail)

(* The line is high and the controller, which has seen it rise before,     *)
(* will see nothing of the reason that keeps it there.                     *)
Unseen == Line /\ ~edge

(* serial.c:224-229, 385: when a write has returned, bytes left in the     *)
(* ring will be asked for: the transmitter is busy, or its interrupt is on *)
(* its way.  One thing only can part the two: a receive interrupt that is  *)
(* served while the transmitter's is pending, which then stays unseen.     *)
NoStall ==
  /\ [](pc = "idle" /\ level > 0 /\ ~Unseen => thr \/ (thrInt /\ edge))
  /\ [][~Unseen /\ Unseen' => ServeRx /\ thrInt]_vars

(* serial.c:213-231: a write that waits for room in the ring returns, even *)
(* when the handler has left the line high and no edge will come.          *)
WriteReturns == pc # "idle" ~> pc = "idle"
=============================================================================
