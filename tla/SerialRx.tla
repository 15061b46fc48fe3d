------------------------------ MODULE SerialRx ------------------------------
(***************************************************************************)
(* The receive side of io/serial.c on one port, with receive interrupts:   *)
(* _serial_int_handler puts each arriving byte in rxfifo, _serial_read     *)
(* takes bytes out, and both run _serial_rx_flowcontrol.                   *)
(*                                                                         *)
(* The handler runs with interrupts off and is one step.  The main context *)
(* may be interrupted between any two accesses to what they share, so      *)
(* _serial_read, fifo_getused, fifo_read and _serial_rx_flowcontrol are    *)
(* cut there; the order inside fifo_read (head stored before the byte is   *)
(* loaded) is the one gcc -Os gives this source.                           *)
(*                                                                         *)
(* A local that is dead is set to 0.                                       *)
(*                                                                         *)
(* All callers pass a timeout, so reads with interrupts off panic          *)
(* (serial.c:303) and the polled path (328-349) is never taken.            *)
(***************************************************************************)
EXTENDS Fifo, Sequences

CONSTANTS
  Bytes,        \* values of a byte
  MaxWant,      \* bound: bytes asked for in one call
  FlowControl,  \* SERIAL_CFG_FLOWCTRL_RTS set in cfg
  Honours,      \* the sender stops while RTS is off
  Gap           \* main steps that surely fit in one byte time

ASSUME SerialAssumption ==
  /\ MaxWant \in Nat \ {0} /\ Bytes # {} /\ Gap \in Nat
  /\ FlowControl \in BOOLEAN /\ Honours \in BOOLEAN

VARIABLES
  buf, head, tail,  \* rxfifo
  status,           \* sdata->status: subset of {"overrun", "framing"}
  inStatus,         \* in->status; both error flags are bit 0
  rts, mcrVal,      \* RTS in the modem control register, and its shadow
  pc,               \* where the main context is
  want, keep, got,  \* the call: sz, data # NULL, and i
  moved,            \* bytes the call has really taken from the ring
  rd, k,            \* rd_sz, and the bytes fifo_read has done
  t0,               \* the tail a fifo_getused has compared
  slot,             \* where fifo_read will load its byte from
  new,              \* new_mcr
  flags,            \* status as loaded by the code that clears it
  out,              \* the last byte stored in data
  lost,             \* bytes the full ring has refused
  lull              \* main steps since the last byte, up to Gap

ring == <<buf, head, tail>>
uart == <<rts, mcrVal>>
errors == <<status, inStatus>>
call == <<want, keep, got, moved>>
tmp == <<rd, k, t0, slot, new, flags>>
vars == <<ring, errors, uart, call, tmp, out, lost, pc, lull>>

Min2(x, y) == IF x < y THEN x ELSE y

FifoLowLate == Depth - 1 \* mutant: no room left for the bytes under way

FifoLow == Depth - (Depth \div 4)

------------------------------------------------------------------------------
(* The interrupt: a byte arrives and the handler runs before the main      *)
(* context goes on.                                                        *)
HandlerFlow(h, t) ==
  IF ~FlowControl THEN UNCHANGED uart
  ELSE LET on == GetUsed(h, t, t) < FifoLow
       IN  IF on = mcrVal THEN UNCHANGED uart
           ELSE rts' = on /\ mcrVal' = on

Arrive(b) ==
  /\ Honours => rts
  /\ lull = Gap /\ lull' = 0
  /\ IF GetFree(head, head, tail) < 1
       THEN /\ status' = status \cup {"overrun"} /\ lost' = lost + 1
            /\ UNCHANGED ring
       ELSE /\ buf' = Stored(buf, tail, b)
            /\ tail' = Wrapped(tail + 1)
            /\ UNCHANGED <<head, status, lost>>
  /\ HandlerFlow(head, tail')
  /\ UNCHANGED <<inStatus, call, tmp, out, pc>>

(* A receiver line status interrupt: the UART saw an overrun or a framing  *)
(* error.                                                                  *)
LineError(e) ==
  /\ status' = status \cup {e}
  /\ UNCHANGED <<ring, inStatus, uart, call, tmp, out, lost, pc, lull>>

------------------------------------------------------------------------------
Step(from, to) ==
  /\ pc = from /\ pc' = to
  /\ lull' = Min2(Gap, lull + 1)

(* _serial_read, called by the protocols. *)
Call(n, d) ==
  /\ Step("idle", "query")
  /\ want' = n /\ keep' = d /\ got' = 0 /\ moved' = 0
  /\ UNCHANGED <<ring, errors, uart, tmp, out, lost>>

(* rd_sz = fifo_getused(): compare, ... *)
Query ==
  /\ Step("query", "query2") /\ t0' = tail
  /\ UNCHANGED <<ring, errors, uart, call, rd, k, slot, new, flags, out, lost>>

(* ... subtract; at most what is still wanted. *)
Query2 ==
  /\ rd' = Min2(GetUsed(head, t0, tail), want - got)
  /\ IF rd' = 0 THEN Step("query2", "errors") ELSE Step("query2", "check")
  /\ t0' = 0
  /\ UNCHANGED <<ring, errors, uart, call, k, slot, new, flags, out, lost>>

(* fifo_read(rd_sz): fifo_getused again; -1 is ignored by the caller. *)
Check ==
  /\ Step("check", "check2") /\ t0' = tail
  /\ UNCHANGED <<ring, errors, uart, call, rd, k, slot, new, flags, out, lost>>

Check2Trusting == \* mutant: fifo_read relies on the caller's fifo_getused
  /\ Step("check2", "take") /\ t0' = 0
  /\ UNCHANGED <<ring, errors, uart, call, rd, k, slot, new, flags, out, lost>>

Check2 ==
  /\ IF GetUsed(head, t0, tail) < rd THEN Step("check2", "flow")
                                     ELSE Step("check2", "take")
  /\ t0' = 0
  /\ UNCHANGED <<ring, errors, uart, call, rd, k, slot, new, flags, out, lost>>

(* _fifo_read_byte: head is stored, the byte loaded, head wrapped. *)
TakeByte ==
  /\ Step("take", "load")
  /\ slot' = head /\ head' = head + 1 /\ moved' = moved + 1
  /\ UNCHANGED <<buf, tail, errors, uart, want, keep, got, rd, k, t0, new,
                 flags, out, lost>>

Load ==
  /\ Step("load", "wrap")
  /\ out' = IF keep THEN buf[slot] ELSE out
  /\ slot' = 0
  /\ UNCHANGED <<ring, errors, uart, call, rd, k, t0, new, flags, lost>>

Wrap ==
  /\ k' = k + 1 /\ head' = Wrapped(head)
  /\ IF k' < rd THEN Step("wrap", "take") ELSE Step("wrap", "flow")
  /\ UNCHANGED <<buf, tail, errors, uart, call, rd, t0, slot, new, flags, out,
                 lost>>

(* _serial_rx_flowcontrol: the fill level is sampled twice, the register   *)
(* written if its shadow differs, the shadow stored; then i += rd_sz.      *)
FlowEnterNever == \* mutant: flow control is left to the handler
  /\ Step("flow", "advance")
  /\ UNCHANGED <<ring, errors, uart, call, tmp, out, lost>>

FlowEnter ==
  /\ IF FlowControl THEN Step("flow", "flow1") ELSE Step("flow", "advance")
  /\ UNCHANGED <<ring, errors, uart, call, tmp, out, lost>>

FlowCompare ==
  /\ Step("flow1", "flow2") /\ t0' = tail
  /\ UNCHANGED <<ring, errors, uart, call, rd, k, slot, new, flags, out, lost>>

FlowDecide ==
  /\ Step("flow2", "flow3")
  /\ new' = (GetUsed(head, t0, tail) < FifoLow) /\ t0' = 0
  /\ UNCHANGED <<ring, errors, uart, call, rd, k, slot, flags, out, lost>>

FlowOut ==
  /\ IF new = mcrVal THEN Step("flow3", "advance") /\ UNCHANGED rts
                     ELSE Step("flow3", "flow4") /\ rts' = new
  /\ UNCHANGED <<ring, errors, mcrVal, call, tmp, out, lost>>

FlowStore ==
  /\ Step("flow4", "advance") /\ mcrVal' = new
  /\ UNCHANGED <<ring, errors, rts, call, tmp, out, lost>>

Advance ==
  /\ Step("advance", "errors")
  /\ got' = got + rd /\ rd' = 0 /\ k' = 0 /\ new' = TRUE
  /\ UNCHANGED <<ring, errors, uart, want, keep, moved, t0, slot, flags, out,
                 lost>>

(* The loop's exits: an error while data is wanted, the timeout, i = sz.   *)
Continue ==
  /\ ~(keep /\ status # {}) /\ got < want
  /\ Step("errors", "query")
  /\ UNCHANGED <<ring, errors, uart, call, tmp, out, lost>>

Leave(timedOut) ==
  /\ (keep /\ status # {}) \/ got >= want \/ timedOut
  /\ Step("errors", "fin")
  /\ UNCHANGED <<ring, errors, uart, call, tmp, out, lost>>

(* The error flags are reported and cleared, each by a load and a store of *)
(* the whole status byte.                                                  *)
FinLoad(from, to) ==
  /\ Step(from, to) /\ flags' = status
  /\ UNCHANGED <<ring, errors, uart, call, rd, k, t0, slot, new, out, lost>>

FinStore(from, to, e) ==
  /\ Step(from, to)
  /\ IF e \in flags THEN inStatus' = TRUE /\ status' = flags \ {e}
                    ELSE UNCHANGED errors
  /\ flags' = {}
  /\ UNCHANGED <<ring, uart, call, rd, k, t0, slot, new, out, lost>>

Return ==
  /\ Step("done", "idle")
  /\ want' = 0 /\ keep' = FALSE /\ got' = 0 /\ moved' = 0
  /\ UNCHANGED <<ring, errors, uart, tmp, out, lost>>

------------------------------------------------------------------------------
Init ==
  /\ buf \in [Slots -> Bytes] /\ head = 0 /\ tail = 0
  /\ status = {} /\ inStatus = FALSE
  /\ rts = TRUE /\ mcrVal = TRUE
  /\ pc = "idle" /\ want = 0 /\ keep = FALSE /\ got = 0 /\ moved = 0
  /\ rd = 0 /\ k = 0 /\ t0 = 0 /\ slot = 0 /\ new = TRUE /\ flags = {}
  /\ out \in Bytes /\ lost = 0 /\ lull = Gap

ReadLoop ==
  \/ Query \/ Query2 \/ Check \/ Check2 \/ TakeByte \/ Load \/ Wrap
  \/ FlowEnter \/ FlowCompare \/ FlowDecide \/ FlowOut \/ FlowStore
  \/ Advance \/ Continue \/ \E b \in BOOLEAN : Leave(b)
  \/ FinLoad("fin", "fin2") \/ FinStore("fin2", "fin3", "overrun")
  \/ FinLoad("fin3", "fin4") \/ FinStore("fin4", "done", "framing")
  \/ Return

Main == ReadLoop \/ \E n \in 1 .. MaxWant, d \in BOOLEAN : Call(n, d)

Interrupts ==
  \/ \E b \in Bytes : Arrive(b)
  \/ \E e \in {"overrun", "framing"} : LineError(e)

Next == Main \/ Interrupts

Spec == Init /\ [][Next]_vars

------------------------------------------------------------------------------
(***************************************************************************)
(* Properties.                                                             *)
(***************************************************************************)
Places ==
  {"idle", "query", "query2", "check", "check2", "take", "load", "wrap",
   "flow", "flow1", "flow2", "flow3", "flow4", "advance", "errors",
   "fin", "fin2", "fin3", "fin4", "done"}

Errs == {"overrun", "framing"}

(* Type invariant: the handler never meets tail between its increment and  *)
(* its wrap, the main context may leave head there.                        *)
TypeOK ==
  /\ buf \in [Slots -> Bytes] /\ tail \in Slots
  /\ head \in Index /\ (head = Depth => pc \in {"load", "wrap"})
  /\ status \subseteq Errs /\ flags \subseteq Errs
  /\ inStatus \in BOOLEAN /\ rts \in BOOLEAN /\ mcrVal \in BOOLEAN
  /\ keep \in BOOLEAN /\ new \in BOOLEAN
  /\ pc \in Places
  /\ want \in 0 .. MaxWant /\ got \in 0 .. want /\ moved \in 0 .. want
  /\ rd \in 0 .. MaxWant /\ k \in 0 .. MaxWant
  /\ t0 \in Slots /\ slot \in Slots
  /\ out \in Bytes /\ lost \in Nat /\ lull \in 0 .. Gap

(* What makes the races of the read loop harmless (an inductive            *)
(* invariant with TypeOK).  While rd bytes are still to be taken, either   *)
(* the ring holds them, or a wrapped sample overstated them; but then tail *)
(* is below head, where it cannot wrap again, and the second fifo_getused  *)
(* is exact.                                                               *)
Reading ==
  /\ pc \in {"query2", "check2"} => (head > t0 => head > tail)
  /\ pc = "check" => rd <= Held(head, tail) \/ head > tail
  /\ pc = "check2" => rd <= Held(head, tail) \/ (head > tail /\ head > t0)
  /\ pc = "take" => rd - k <= Held(head, tail)
  /\ pc \in {"load", "wrap"} => rd - k - 1 <= Held(head, tail)
  /\ pc = "load" => head = slot + 1

Taking == {"take", "load", "wrap"}
Flowing == {"flow", "flow1", "flow2", "flow3", "flow4", "advance"}

(* How i, rd_sz and the loop counter of fifo_read relate. *)
Counting ==
  /\ pc \in {"check", "check2"} \cup Taking \cup Flowing =>
       0 < rd /\ got + rd <= want
  /\ pc \in Taking => k < rd
  /\ pc \notin Taking \cup Flowing => k = 0 /\ moved <= got
  /\ pc = "take" => moved <= got + k
  /\ pc \in {"load", "wrap"} => moved <= got + k + 1
  /\ pc \in Flowing => moved <= got + rd

IInv == TypeOK /\ Reading /\ Counting

(* The byte taken last: one whose slot is given up counts as taken before  *)
(* it is loaded.                                                           *)
LastTaken == IF pc = "load" /\ keep THEN buf[slot] ELSE out

Queue == INSTANCE ByteQueue WITH
  Cap <- Depth - 1, q <- Queued(buf, head, tail), out <- LastTaken

(* However the handler cuts into fifo_getused and fifo_read, the ring is a *)
(* bounded queue: a stale or wrapped sample never makes the reader pass    *)
(* the tail, and a slot given up before its byte is loaded is not reused.  *)
ImplementsQueue == Queue!QSpec

(* A byte is refused only when the ring is full (serial.c:400); so with    *)
(* flow control on, a sender that stops while RTS is off loses nothing,    *)
(* although the main context may raise RTS on a stale sample.              *)
NoOverrun == Honours => lost = 0

(* RTS taken away is given back while the program keeps reading: no order  *)
(* of the two writers of mcr_val leaves the line stopped for good.         *)
ThrottleReleased == ~rts ~> rts
=============================================================================
