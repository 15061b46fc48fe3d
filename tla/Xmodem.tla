------------------------------- MODULE Xmodem -------------------------------
(***************************************************************************)
(* A file loaded over XMODEM: the receiver of storage/protocol/xmodem.c    *)
(* (_xmodem_rx, _xmodem_rx_packet) into the buffer of protocol_file_init,  *)
(* an external sender, and the serial line between them, which may damage  *)
(* or lose a packet and lose a reply.                                      *)
(*                                                                         *)
(* Sizes and offsets count 128-byte units; the unit at offset u of the     *)
(* file has the value u + 1, and 0 is anything else.  A packet travels     *)
(* whole; the receiver takes its header, its data and its checksum in      *)
(* three reads, and what it leaves of a packet it reads as the next one.   *)
(* The complement is taken to tell a damaged block number from a good one, *)
(* and the 8-bit sum damaged data; nothing guards the prefix.              *)
(*                                                                         *)
(* The sender answers each reply, in order, within the 5 s the receiver    *)
(* waits, and is itself more patient than that: it sends nothing unasked.  *)
(***************************************************************************)
EXTENDS Integers, Sequences

CONSTANTS
  N,       \* blocks of the file
  Start,   \* Start[i]: offset of block i; Start[N + 1]: length of the file
  Numbers, \* 256: block numbers are bytes
  Caps,    \* sizes the receive buffer may have
  DrainMax \* units that arrive in the 25 ms of the drain

ASSUME XmodemAssumption ==
  /\ N \in Nat \ {0} /\ Numbers \in Nat /\ Numbers > 2
  /\ Start \in [1 .. N + 1 -> Nat] /\ Start[1] = 0
  /\ \A i, j \in 1 .. N + 1 : i < j => Start[i] < Start[j]
  /\ Caps \subseteq Nat /\ DrainMax \in Nat

VARIABLES
  at,       \* sender: block sent last or next, N + 1 for EOT
  line,     \* packets under way to the receiver
  replies,  \* replies under way to the sender
  pc,       \* where the receiver is
  cap, buf, \* filedata->buff_sz and the buffer
  blockSz, lastBlock, currOff,  \* fields of xmodem_params_t
  pkt,      \* the packet being read
  ret       \* result of _xmodem_rx_packet

sender == <<at>>
params == <<blockSz, lastBlock, currOff>>
file == <<cap, buf>>
vars == <<sender, line, replies, pc, file, params, pkt, ret>>

Total == Start[N + 1]
Size(i) == Start[i + 1] - Start[i]

(* SOH announces 128 bytes, STX 1024.  A sender that uses both sends the   *)
(* long blocks first and the rest of the file in short ones.               *)
ASSUME SenderAssumption ==
  /\ \A i \in 1 .. N : Size(i) \in {1, 8}
  /\ \A i, j \in 1 .. N : i <= j => Size(j) <= Size(i)

(* What the line did to a packet, one thing to each: it may have ...        *)
Hurts ==
  {"no",
   "lost",  \* ... lost it;
   "head",  \* spoilt its header: no prefix, or a number and complement that differ;
   "eot",   \* made it begin with EOT (a lost first byte of block 4 is enough);
   "size",  \* turned SOH into STX or back: nothing in the header tells;
   "data",  \* changed or lost bytes of its data;
   "cut",   \* overrun the UART, or spoilt a stop bit, in its data;
   "sum"}   \* changed or lost its checksum
Sizes == {1, 8}
Packet(i, h) ==
  [kind |-> IF i <= N THEN "block" ELSE "eot", i |-> i, hurt |-> h]
Junk(i) == [kind |-> "junk", i |-> i, hurt |-> "no"] \* some rest of packet i
None == [kind |-> "none", i |-> 0, hurt |-> "no"]

(* A read that stops inside a packet leaves its rest on the line.  What is *)
(* left after k whole packets, and perhaps some of the next one; after     *)
(* any number; after a single byte.                                        *)
Cut(l) ==
  IF l = <<>> \/ Head(l).kind = "eot" THEN l ELSE <<Junk(Head(l).i)>> \o Tail(l)

RestsAfter(l, k) ==
  LET rest == SubSeq(l, k + 1, Len(l)) IN {rest, Cut(rest)}

Rests(l) == UNION {RestsAfter(l, k) : k \in 0 .. Len(l)}

Bitten(l) ==
  IF l # <<>> /\ Head(l).kind = "eot" THEN {l, Tail(l)} ELSE {l, Cut(l)}

------------------------------------------------------------------------------
(* The sender: ACK moves it to the next block, NAK repeats the last one.   *)
Moved(reply) == IF reply = "ack" THEN at + 1 ELSE at

Answer(h) ==
  /\ replies # <<>> /\ at <= N + 1
  /\ replies' = Tail(replies)
  /\ at' = Moved(Head(replies))
  /\ at' > N => h \in {"no", "lost", "head"}
  /\ line' = IF h # "lost" /\ at' <= N + 1 THEN Append(line, Packet(at', h))
                                          ELSE line
  /\ UNCHANGED <<pc, file, params, pkt, ret>>

LoseReply ==
  /\ replies # <<>> /\ replies' = Tail(replies)
  /\ UNCHANGED <<sender, line, pc, file, params, pkt, ret>>

------------------------------------------------------------------------------
(* _xmodem_rx_packet: the header.  Nothing within the timeout, the sender  *)
(* having nothing to answer or being gone ...                              *)
Silent == replies = <<>> \/ at > N + 1

HeaderTimeout ==
  /\ pc = "header" /\ line = <<>> /\ Silent
  /\ ret' = "timeout" /\ pc' = "drain"
  /\ UNCHANGED <<sender, line, replies, file, params, pkt>>

(* ... a first byte that is EOT, whatever comes with it ...                *)
MayBeEot(p) ==
  \/ p.kind = "eot" /\ p.hurt # "head"
  \/ p.kind = "block" /\ p.hurt = "eot"
  \/ p.kind = "junk"

HeaderEot ==
  /\ pc = "header" /\ line # <<>>
  /\ MayBeEot(Head(line))
  /\ ret' = "eot" /\ pc' = "drain" /\ line' = Tail(line)
  /\ UNCHANGED <<sender, replies, file, params, pkt>>

(* ... no header, or one whose prefix or complement is wrong: by then a    *)
(* good prefix may have set block_sz.  The rest is still to come: what is  *)
(* left of the line when a header has been taken from it.                  *)
Headless(l) ==
  (IF Head(l).kind = "eot" THEN {} ELSE {Cut(l)})
    \cup (IF Head(l).kind = "block" THEN {} ELSE {Tail(l), Cut(Tail(l))})

HeaderBad ==
  /\ pc = "header" /\ line # <<>>
  /\ Head(line).hurt = "head" \/ Head(line).kind = "junk"
  /\ ret' = "error" /\ pc' = "drain"
  /\ line' \in Headless(line)
  /\ \/ UNCHANGED blockSz
     \/ (Head(line).kind # "eot" \/ Len(line) > 1) /\ blockSz' \in Sizes
  /\ UNCHANGED <<sender, replies, file, lastBlock, currOff, pkt>>

(* The headers that are taken for good: that of a packet, announcing its   *)
(* own size or the other one, and anything at all among left-over bytes.   *)
Block(i) == i % Numbers

Announced(p) == IF p.hurt = "size" THEN 9 - Size(p.i) ELSE Size(p.i)

Headers(p) ==
  CASE p.kind = "junk" -> [block : 0 .. Numbers - 1, size : Sizes]
    [] p.kind = "block" /\ p.hurt \notin {"head", "eot"} ->
         {[block |-> Block(p.i), size |-> Announced(p)]}
    [] OTHER -> {}

(* A block that is neither the last one nor the next ...                   *)
NextBlockUnwrapped == lastBlock + 1 \* mutant: not truncated to a byte

NextBlock == (lastBlock + 1) % Numbers

HeaderUnexpected(h) ==
  /\ h.block \notin {lastBlock, NextBlock}
  /\ blockSz' = h.size
  /\ ret' = "error" /\ pc' = "drain" /\ line' \in Headless(line)
  /\ UNCHANGED <<lastBlock, currOff, pkt>>

(* ... or a good one: a block sent again is read again, in its place, if   *)
(* its header says its size.                                               *)
RewoundNever(h) == currOff \* mutant: a repeated block is appended

Rewound(h) ==
  IF currOff # 0 /\ h.block = lastBlock THEN currOff - h.size ELSE currOff

TooLargeEarly(h) == currOff + h.size > cap \* mutant: tested before rewinding

TooLargeByOne(h) == Rewound(h) + h.size > cap + 1 \* mutant: off by one

TooLarge(h) == Rewound(h) + h.size \notin 0 .. cap \* the sum is cast to size_t

HeaderGood(h) ==
  /\ h.block \in {lastBlock, NextBlock}
  /\ blockSz' = h.size /\ currOff' = Rewound(h)
  /\ IF TooLarge(h)
       THEN /\ ret' = "fatal" /\ pc' = "drain"
            /\ line' \in Headless(line) /\ UNCHANGED pkt
       ELSE /\ pc' = "data" /\ pkt' = Head(line)
            /\ line' = Tail(line) /\ UNCHANGED ret
  /\ UNCHANGED lastBlock

HeaderRead ==
  /\ pc = "header" /\ line # <<>>
  /\ \E h \in Headers(Head(line)) : HeaderUnexpected(h) \/ HeaderGood(h)
  /\ UNCHANGED <<sender, replies, file>>

(* The data goes to the buffer at once, good or bad: `good' units arrive   *)
(* well, those up to `dirty' are written with something else.              *)
GoodUnits ==
  CASE pkt.kind = "junk" -> {0}
    [] pkt.hurt = "size" -> {1}
    [] pkt.hurt \in {"data", "cut"} -> 0 .. blockSz - 1
    [] OTHER -> {blockSz}

Stores(good, dirty) ==
  buf' = [u \in DOMAIN buf |->
            IF u \notin currOff .. currOff + dirty - 1 THEN buf[u]
            ELSE IF u - currOff < good THEN Start[pkt.i] + (u - currOff) + 1
            ELSE 0]

(* All that was announced is read.  Of a block that announces too little   *)
(* some is left; where bytes are missing, what follows makes up for them.  *)
DataRead ==
  /\ pkt.hurt # "cut" /\ pc' = "sum" /\ UNCHANGED ret
  /\ CASE pkt.kind = "junk" -> line' \in Rests(<<pkt>> \o line)
       [] pkt.hurt = "size" /\ blockSz < Size(pkt.i) -> line' = <<Junk(pkt.i)>> \o line
       [] pkt.hurt = "size" /\ blockSz > Size(pkt.i) -> line # <<>> /\ line' \in Rests(line)
       [] pkt.hurt = "data" -> line' \in Rests(line)
       [] OTHER -> UNCHANGED line

(* An error of the line ends the read early (serial.c:351), and the rest   *)
(* of the packet is still to come; or there is no more to read.            *)
DataCut ==
  /\ pkt.hurt = "cut"
  /\ pc' = "drain" /\ ret' = "error" /\ line' = <<Junk(pkt.i)>> \o line

DataTimeout ==
  /\ Silent
  /\ pkt.kind = "junk" \/ pkt.hurt = "data" \/ (pkt.hurt = "size" /\ blockSz > Size(pkt.i))
  /\ pc' = "drain" /\ ret' = "error" /\ line' = <<>>

ReadData(good, dirty) ==
  /\ pc = "data" /\ good \in GoodUnits /\ dirty \in good .. blockSz
  /\ Stores(good, dirty)
  /\ \/ DataRead /\ dirty = blockSz
     \/ DataCut /\ dirty <= good + 1
     \/ DataTimeout /\ dirty \in {good, good + 1, blockSz}
  /\ UNCHANGED <<sender, replies, cap, params, pkt>>

(* The checksum of misread data is a byte of whatever follows.             *)
CheckSum ==
  /\ pc = "sum"
  /\ IF pkt.kind = "block" /\ pkt.hurt = "no"
       THEN /\ currOff' = currOff + blockSz /\ lastBlock' = Block(pkt.i)
            /\ ret' = "ok" /\ pc' = "reply" /\ UNCHANGED line
       ELSE /\ UNCHANGED <<currOff, lastBlock>>
            /\ ret' = "error" /\ pc' = "drain" /\ line' \in Bitten(line)
  /\ pkt' = None
  /\ UNCHANGED <<sender, replies, file, blockSz>>

------------------------------------------------------------------------------
(* _xmodem_rx: what is left of a packet is read and dropped, at most       *)
(* 4 * block_sz bytes, which is none before the first good header, and for *)
(* at most 25 ms.                                                          *)
Brief(p) ==
  \/ p.i > N /\ blockSz > 0
  \/ p.i <= N /\ Size(p.i) <= DrainMax /\ Size(p.i) <= 4 * blockSz

Drain ==
  /\ pc = "drain" /\ pc' = "reply" /\ pkt' = None
  /\ \E k \in 0 .. Len(line) :
       /\ line' \in RestsAfter(line, k)
       /\ blockSz = 0 => line' = line
       /\ \A j \in 1 .. k : line[j].kind = "junk" \/ Brief(line[j])
       /\ k = 0 /\ line # <<>> => ~Brief(Head(line))
  /\ UNCHANGED <<sender, replies, file, params, ret>>

(* The start character of XMODEM, sent on a timeout before the first       *)
(* block, is NAK too.                                                      *)
AnswerOfAlways == "ack" \* mutant: errors are acknowledged

AnswerOf == IF ret \in {"ok", "eot"} THEN "ack" ELSE "nak"

Reply ==
  /\ pc = "reply"
  /\ replies' = IF ret = "fatal" THEN replies ELSE Append(replies, AnswerOf)
  /\ pc' = CASE ret = "eot" -> "done" [] ret = "fatal" -> "failed"
             [] OTHER -> "header"
  /\ ret' = "ok"
  /\ UNCHANGED <<sender, line, file, params, pkt>>

------------------------------------------------------------------------------
Init ==
  /\ at = 1 /\ line = <<>> /\ replies = <<"nak">>
  /\ pc = "header" /\ pkt = None /\ ret = "ok"
  /\ cap \in Caps /\ buf = [u \in 0 .. cap - 1 |-> 0]
  /\ blockSz = 0 /\ lastBlock = 0 /\ currOff = 0

Receiver ==
  \/ HeaderTimeout \/ HeaderEot \/ HeaderBad \/ HeaderRead
  \/ \E good, dirty \in 0 .. blockSz : ReadData(good, dirty)
  \/ CheckSum \/ Drain \/ Reply

Sender == \E h \in Hurts : Answer(h)

Next == Receiver \/ Sender \/ LoseReply

Spec == Init /\ [][Next]_vars

------------------------------------------------------------------------------
(***************************************************************************)
(* Properties.                                                             *)
(***************************************************************************)

(* Type invariant.  The offset may leave the buffer below, by a repeated   *)
(* block whose header announces more than it has (xmodem.c:206), but not   *)
(* above.                                                                  *)
TypeOK ==
  /\ at \in 1 .. N + 2 /\ replies \in Seq({"ack", "nak"})
  /\ pc \in {"header", "data", "sum", "drain", "reply", "done", "failed"}
  /\ cap \in Caps /\ buf \in [0 .. cap - 1 -> 0 .. Total]
  /\ currOff \in -16 .. cap /\ lastBlock \in 0 .. Numbers - 1
  /\ blockSz \in Sizes \cup {0}
  /\ (pc \in {"data", "sum"} => currOff + blockSz \in 0 .. cap)
  /\ ret \in {"ok", "eot", "error", "fatal", "timeout"}

(* The block being read goes into the buffer (xmodem.c:209, 214).          *)
InBuffer == currOff >= 0

(* The first n blocks of the file are in the buffer, and nothing else.     *)
Stored(n) ==
  /\ currOff = Start[n + 1] /\ lastBlock = Block(n)
  /\ \A u \in 0 .. currOff - 1 : buf[u] = u + 1

(* Block numbers are one byte and replies may be lost, yet the two sides   *)
(* never differ by more than the block under way, and one that has been    *)
(* acknowledged is in the buffer, in its place (xmodem.c:193-226).         *)
InStep ==
  pc = "header" =>
    \E n \in 0 .. N : Stored(n) /\ at \in {n, n + 1}

(* A transfer that ends with EOT has delivered the file.                   *)
Intact ==
  pc = "done" => currOff = Total /\ \A u \in 0 .. Total - 1 : buf[u] = u + 1

(* A transfer is given up only for a file that does not fit; a block that  *)
(* is sent again when the buffer is full does fit (xmodem.c:203-212).      *)
FailsOnlyTooLarge == pc = "failed" => Total > cap

(* With no retry limit (xmodem.c:285), the receiver asks again until the   *)
(* line lets a packet and an answer through.                               *)
Completes == <>(pc \in {"done", "failed"})

(* xmodem.c:205: a block that is sent again is re-read, where it was.      *)
ReadInPlace == pc = "sum" => currOff = Start[pkt.i]
=============================================================================
