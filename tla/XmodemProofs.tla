---------------------------- MODULE XmodemProofs ----------------------------
(***************************************************************************)
(* Proofs about the XMODEM receiver, for every file, block numbering and   *)
(* buffer, and any number of faults.  For as long as nothing worse has     *)
(* happened than the receiver is written for, no block is read outside the *)
(* buffer, only a file that does not fit is given up, the two sides are    *)
(* never more than a block apart and the file arrives whole.               *)
(***************************************************************************)
EXTENDS MCXmodem, TLAPS

------------------------------------------------------------------------------
Packets == {p \in [kind : {"block", "eot", "junk"}, i : 1 .. N + 1, hurt : Hurts] :
              /\ p.kind = "eot" <=> p.i = N + 1
              /\ p.kind = "junk" => p.hurt = "no"}

Reading == pc \in {"data", "sum"}

Abandoned == pc = "failed" \/ (ret = "fatal" /\ pc \in {"drain", "reply"})

(* What is being read ends in the buffer; a block is as long as it says.   *)
Fitting ==
  /\ currOff + blockSz \in 0 .. cap
  /\ pkt \in Packets /\ pkt.kind # "eot"
  /\ pkt.kind = "block" => blockSz = Announced(pkt)

Typed ==
  /\ at \in 1 .. N + 2 /\ replies \in Seq({"ack", "nak"})
  /\ line \in Seq(Packets)
  /\ pc \in {"header", "data", "sum", "drain", "reply", "done", "failed"}
  /\ cap \in Caps /\ buf \in [0 .. cap - 1 -> 0 .. Total]
  /\ lastBlock \in 0 .. Numbers - 1 /\ blockSz \in Sizes \cup {0}
  /\ ret \in {"ok", "eot", "error", "fatal", "timeout"}
  /\ currOff \in -16 .. cap /\ (Abandoned \/ -8 <= currOff)
  /\ Reading => Fitting

------------------------------------------------------------------------------
LEMMA Offsets ==
  /\ Total \in Nat /\ N \in Nat /\ N > 0
  /\ \A i \in 1 .. N + 1 : Start[i] \in Nat /\ Start[i] <= Total
  /\ \A i, j \in 1 .. N + 1 : i <= j => Start[i] <= Start[j]
  /\ \A i \in 1 .. N : /\ Size(i) \in {1, 8} /\ Start[i] + Size(i) = Start[i + 1]
                       /\ Start[i] < Start[i + 1]
<1>1. /\ N \in Nat /\ N > 0 /\ Start \in [1 .. N + 1 -> Nat]
      /\ \A i, j \in 1 .. N + 1 : i < j => Start[i] < Start[j]
  BY XmodemAssumption
<1>2. \A i, j \in 1 .. N + 1 : i <= j => Start[i] <= Start[j]
  <2> TAKE i, j \in 1 .. N + 1
  <2>1. Start[i] \in Nat /\ Start[j] \in Nat /\ (i = j \/ i < j \/ j < i)
    BY <1>1
  <2> QED BY <1>1, <2>1
<1>3. N + 1 \in 1 .. N + 1 /\ \A i \in 1 .. N : i + 1 \in 1 .. N + 1 /\ i \in 1 .. N + 1
  BY <1>1
<1>4. \A i \in 1 .. N + 1 : Start[i] \in Nat /\ Start[i] <= Total
  BY <1>1, <1>2, <1>3 DEF Total
<1>5. \A i \in 1 .. N : Size(i) \in {1, 8} /\ Start[i] + Size(i) = Start[i + 1]
  BY <1>1, <1>3, SenderAssumption DEF Size
<1> QED BY <1>1, <1>2, <1>3, <1>4, <1>5 DEF Total

LEMMA Division ==
  ASSUME NEW a \in Int, NEW k \in Nat \ {0}
  PROVE  a = (a \div k) * k + (a % k) /\ a \div k \in Int /\ a % k \in 0 .. k - 1
OBVIOUS

LEMMA Distributes ==
  ASSUME NEW a \in Int, NEW b \in Int, NEW k \in Int
  PROVE  (a - b) * k = a * k - b * k /\ (a + 1) * k = a * k + k
OBVIOUS

(* There is only one remainder. *)
LEMMA Remainder ==
  ASSUME NEW k \in Nat \ {0}, NEW q \in Int, NEW r \in 0 .. k - 1,
         NEW a \in Int, a = q * k + r
  PROVE  a % k = r
<1> DEFINE d == a \div k
           s == a % k
<1>1. d \in Int /\ s \in 0 .. k - 1 /\ a = d * k + s
  BY Division
<1> HIDE DEF d, s
<1>2. (q - d) * k = s - r
  <2>1. (q - d) * k = q * k - d * k
    BY <1>1, Distributes
  <2>2. q * k \in Int /\ d * k \in Int
    BY <1>1
  <2> QED BY <1>1, <2>1, <2>2
<1>3. q - d \in Int
  BY <1>1
<1>4. CASE q - d >= 1
  BY <1>1, <1>2, <1>3, <1>4
<1>5. CASE q - d <= -1
  BY <1>1, <1>2, <1>3, <1>5
<1>6. CASE q - d = 0
  BY <1>1, <1>2, <1>6 DEF s
<1> QED BY <1>3, <1>4, <1>5, <1>6

LEMMA NextRemainder ==
  ASSUME NEW k \in Nat, k > 2, NEW x \in Int
  PROVE  /\ x % k \in 0 .. k - 1
         /\ (x + 1) % k = ((x % k) + 1) % k /\ (x + 1) % k # x % k
<1> DEFINE d == x \div k
           r == x % k
<1>1. d \in Int /\ r \in 0 .. k - 1 /\ x = d * k + r
  BY Division
<1> HIDE DEF d, r
<1>2. CASE r + 1 < k
  <2>1. r + 1 \in 0 .. k - 1 /\ x + 1 = d * k + (r + 1) /\ r + 1 = 0 * k + (r + 1)
    <3>1. d * k \in Int
      BY <1>1
    <3> QED BY <1>1, <1>2, <3>1
  <2>2. (x + 1) % k = r + 1 /\ (r + 1) % k = r + 1
    BY <1>1, <2>1, Remainder
  <2> QED BY <1>1, <2>2 DEF r
<1>3. CASE r + 1 = k
  <2>1. x + 1 = (d + 1) * k + 0 /\ r + 1 = 1 * k + 0 /\ 0 \in 0 .. k - 1
    <3>1. d * k \in Int /\ (d + 1) * k = d * k + k
      BY <1>1, Distributes
    <3> QED BY <1>1, <1>3, <3>1
  <2>2. (x + 1) % k = 0 /\ (r + 1) % k = 0
    BY <1>1, <2>1, Remainder
  <2> QED BY <1>1, <1>3, <2>2 DEF r
<1> QED BY <1>1, <1>2, <1>3

LEMMA Numbered ==
  /\ \A i \in Int : Block(i) \in 0 .. Numbers - 1
  /\ \A i \in Int : Block(i + 1) = (Block(i) + 1) % Numbers
  /\ \A i \in Int : Block(i + 1) # Block(i)
<1>1. Numbers \in Nat /\ Numbers > 2
  BY XmodemAssumption
<1> QED BY <1>1, NextRemainder DEF Block

------------------------------------------------------------------------------
(* The line, and what a read may leave of it.                              *)
LEMMA CutTyped ==
  ASSUME NEW l \in Seq(Packets)
  PROVE  Cut(l) \in Seq(Packets)
<1>1. CASE l = <<>> \/ Head(l).kind = "eot"
  BY <1>1 DEF Cut
<1>2. CASE l # <<>> /\ Head(l).kind # "eot"
  <2>1. Head(l) \in Packets /\ Tail(l) \in Seq(Packets)
    BY <1>2
  <2> DEFINE q == Junk(Head(l).i)
  <2>2. q \in Packets
    BY <1>2, <2>1 DEF Packets, Junk, Hurts
  <2> HIDE DEF q
  <2>3. <<q>> \o Tail(l) \in Seq(Packets)
    BY <2>1, <2>2
  <2> QED BY <1>2, <2>3 DEF Cut, q
<1> QED BY <1>1, <1>2

LEMMA RestsTyped ==
  ASSUME NEW l \in Seq(Packets)
  PROVE  /\ \A k \in 0 .. Len(l) : RestsAfter(l, k) \subseteq Seq(Packets)
         /\ Rests(l) \subseteq Seq(Packets)
<1>1. ASSUME NEW k \in 0 .. Len(l) PROVE RestsAfter(l, k) \subseteq Seq(Packets)
  <2>1. Len(l) \in Nat /\ k \in Nat /\ k <= Len(l)
    OBVIOUS
  <2>2. SubSeq(l, k + 1, Len(l)) \in Seq(Packets)
    BY <2>1, SMTT(60)
  <2> QED BY <2>2, CutTyped DEF RestsAfter
<1>2. Rests(l) \subseteq Seq(Packets)
  BY <1>1 DEF Rests
<1> QED BY <1>1, <1>2

LEMMA HeadTyped ==
  ASSUME NEW l \in Seq(Packets), l # <<>>
  PROVE  /\ Head(l) \in Packets /\ Tail(l) \in Seq(Packets)
         /\ Headless(l) \subseteq Seq(Packets)
<1>1. Head(l) \in Packets /\ Tail(l) \in Seq(Packets)
  OBVIOUS
<1> QED BY <1>1, CutTyped DEF Headless

LEMMA BittenTyped ==
  ASSUME NEW l \in Seq(Packets)
  PROVE  Bitten(l) \subseteq Seq(Packets)
BY HeadTyped, CutTyped DEF Bitten

LEMMA NothingLeft ==
  Cut(<<>>) = <<>> /\ Rests(<<>>) = {<<>>} /\ Bitten(<<>>) = {<<>>}
<1>1. Cut(<<>>) = <<>>
  BY DEF Cut
<1>2. RestsAfter(<<>>, 0) = {<<>>} /\ 0 .. Len(<<>>) = {0}
  <2>1. SubSeq(<<>>, 0 + 1, Len(<<>>)) = <<>> /\ Len(<<>>) = 0
    OBVIOUS
  <2>2. RestsAfter(<<>>, 0) = {<<>>}
    BY <1>1, <2>1, Zenon DEF RestsAfter
  <2> QED BY <2>1, <2>2
<1> QED BY <1>1, <1>2 DEF Rests, Bitten

LEMMA HeadersTyped ==
  ASSUME NEW p \in Packets
  PROVE  /\ Headers(p) \subseteq [block : 0 .. Numbers - 1, size : Sizes]
         /\ Headers(p) # {} => p.kind # "eot"
         /\ p.kind = "block" => p.i \in 1 .. N /\ Announced(p) \in Sizes
         /\ p.kind = "block" => \A h \in Headers(p) :
               h.block = Block(p.i) /\ h.size = Announced(p) /\ p.hurt \notin {"head", "eot"}
<1>1. p.kind \in {"block", "eot", "junk"} /\ p.i \in 1 .. N + 1 /\ (p.kind # "eot" => p.i # N + 1)
  BY DEF Packets
<1>2. p.kind = "block" => p.i \in 1 .. N /\ Announced(p) \in Sizes
  <2>1. p.kind = "block" => p.i \in 1 .. N
    BY <1>1, Offsets
  <2>2. p.kind = "block" => Size(p.i) \in {1, 8}
    BY <2>1, Offsets
  <2> QED BY <2>1, <2>2 DEF Announced, Sizes
<1>3. p.kind = "block" => Block(p.i) \in 0 .. Numbers - 1
  BY <1>2, Numbered
<1> QED BY <1>1, <1>2, <1>3 DEF Headers

------------------------------------------------------------------------------
(* Types: whatever the line does.                                          *)
LEMMA InitTyped == Init => Typed
<1> SUFFICES ASSUME Init PROVE Typed
  OBVIOUS
<1>1. N \in Nat /\ N > 0 /\ Total \in Nat /\ cap \in Nat /\ Numbers \in Nat /\ Numbers > 2
  BY Offsets, XmodemAssumption DEF Init
<1>2. buf \in [0 .. cap - 1 -> 0 .. Total]
  BY <1>1 DEF Init
<1>3. replies \in Seq({"ack", "nak"}) /\ line \in Seq(Packets)
  BY DEF Init
<1> QED BY <1>1, <1>2, <1>3 DEF Init, Typed, Reading, Sizes

(* A step that leaves the offset alone and no block half read.             *)
LEMMA StepTyped ==
  ASSUME Typed, UNCHANGED <<cap, lastBlock, currOff>>, at' \in 1 .. N + 2,
         pc' \in {"header", "drain", "reply", "done", "failed"},
         Abandoned => Abandoned',
         ret' \in {"ok", "eot", "error", "fatal", "timeout"},
         replies' \in Seq({"ack", "nak"}), line' \in Seq(Packets),
         buf' \in [0 .. cap - 1 -> 0 .. Total], blockSz' \in Sizes \cup {0}
  PROVE  Typed'
BY DEF Typed, Reading

LEMMA HeaderTyped ==
  ASSUME Typed, HeaderRead
  PROVE  Typed'
<1>1. /\ pc = "header" /\ line # <<>> /\ line \in Seq(Packets) /\ ~Abandoned
      /\ UNCHANGED <<at, replies, cap, buf>>
  BY DEF HeaderRead, sender, file, Typed, Abandoned
<1>2. PICK h \in Headers(Head(line)) : HeaderUnexpected(h) \/ HeaderGood(h)
  BY DEF HeaderRead
<1>3. /\ Head(line) \in Packets /\ Tail(line) \in Seq(Packets)
      /\ Headless(line) \subseteq Seq(Packets)
  BY <1>1, HeadTyped
<1>4. h.size \in Sizes /\ Head(line).kind # "eot"
      /\ (Head(line).kind = "block" => h.size = Announced(Head(line)))
  BY <1>2, <1>3, HeadersTyped
<1>5. CASE HeaderUnexpected(h)
  <2>1. /\ UNCHANGED <<cap, lastBlock, currOff>> /\ at' = at /\ pc' = "drain" /\ ret' = "error"
        /\ replies' = replies /\ buf' = buf /\ line' \in Seq(Packets)
        /\ blockSz' \in Sizes \cup {0}
    BY <1>1, <1>3, <1>4, <1>5 DEF HeaderUnexpected
  <2> QED BY <1>1, <2>1, StepTyped DEF Typed
<1>6. CASE HeaderGood(h)
  <2>1. /\ cap \in Nat /\ currOff \in Int /\ -8 <= currOff /\ currOff <= cap
        /\ h.size \in {1, 8}
    BY <1>1, <1>4, XmodemAssumption DEF Typed, Sizes
  <2> DEFINE r == Rewound(h)
  <2>2. r = currOff \/ r = currOff - h.size
    BY DEF Rewound
  <2>3. /\ blockSz' = h.size /\ currOff' = r /\ lastBlock' = lastBlock
        /\ \/ /\ r + h.size \notin 0 .. cap /\ ret' = "fatal" /\ pc' = "drain"
              /\ line' \in Headless(line)
           \/ /\ r + h.size \in 0 .. cap /\ pc' = "data" /\ ret' = ret
              /\ pkt' = Head(line) /\ line' = Tail(line)
    BY <1>6 DEF HeaderGood, TooLarge
  <2> HIDE DEF r
  <2>4. r \in -16 .. cap
    BY <2>1, <2>2
  <2>5. CASE pc' = "drain" /\ ret' = "fatal" /\ line' \in Headless(line)
    BY <1>1, <1>3, <1>4, <2>3, <2>4, <2>5 DEF Typed, Reading, Abandoned
  <2>6. CASE /\ r + h.size \in 0 .. cap /\ pc' = "data" /\ ret' = ret
             /\ pkt' = Head(line) /\ line' = Tail(line)
    <3>1. -8 <= r
      BY <2>1, <2>2, <2>6
    <3>2. Fitting'
      <4>1. pkt'.kind = "block" => blockSz' = Announced(pkt)'
        BY <1>4, <2>3, <2>6 DEF Announced
      <4> QED BY <1>1, <1>3, <1>4, <2>3, <2>6, <4>1 DEF Fitting, Packets
    <3> QED BY <1>1, <1>3, <1>4, <2>3, <2>4, <2>6, <3>1, <3>2 DEF Typed
  <2> QED BY <2>3, <2>5, <2>6
<1> QED BY <1>2, <1>5, <1>6

(* No more of the file is stored than the packet has.                      *)
LEMMA StoresTyped ==
  ASSUME Typed, pc = "data", NEW good \in GoodUnits, NEW dirty \in good .. blockSz,
         Stores(good, dirty)
  PROVE  buf' \in [0 .. cap - 1 -> 0 .. Total]
<1>1. /\ Fitting /\ currOff \in Int /\ buf \in [0 .. cap - 1 -> 0 .. Total]
      /\ blockSz \in Nat
  BY DEF Typed, Reading, Sizes
<1>2. Total \in Nat
  BY Offsets
<1>3. \A u \in Int : u - currOff >= 0 /\ u - currOff < good
        => Start[pkt.i] + (u - currOff) + 1 \in 0 .. Total
  <2>1. CASE pkt.kind = "block"
    <3>1. pkt.i \in 1 .. N /\ pkt.i \in 1 .. N + 1 /\ pkt.i + 1 \in 1 .. N + 1
      BY <1>1, <2>1, HeadersTyped, Offsets DEF Fitting
    <3>2. /\ Start[pkt.i] \in Nat /\ Start[pkt.i] + Size(pkt.i) <= Total
          /\ Size(pkt.i) \in {1, 8}
      BY <3>1, Offsets
    <3>3. good \in Nat /\ good <= Size(pkt.i)
      BY <1>1, <2>1, <3>2 DEF GoodUnits, Fitting, Announced
    <3>4. PICK a \in Nat, s \in Nat : a = Start[pkt.i] /\ s = Size(pkt.i)
      BY <3>2
    <3>5. \A u \in Int : u - currOff >= 0 /\ u - currOff < good
            => a + (u - currOff) + 1 \in 0 .. Total
      BY <1>1, <1>2, <3>2, <3>3, <3>4
    <3> QED BY <3>4, <3>5
  <2>2. CASE pkt.kind = "junk"
    <3>1. good = 0
      BY <1>1, <2>2 DEF GoodUnits, Fitting, Packets
    <3> QED BY <1>1, <3>1
  <2>3. pkt.kind \in {"block", "junk"}
    BY <1>1 DEF Fitting, Packets
  <2> QED BY <2>1, <2>2, <2>3, Zenon
<1>4. good \in Int /\ dirty \in Int
  BY <1>1 DEF GoodUnits
<1>5. buf' = [u \in 0 .. cap - 1 |->
            IF u \notin currOff .. currOff + dirty - 1 THEN buf[u]
            ELSE IF u - currOff < good THEN Start[pkt.i] + (u - currOff) + 1
            ELSE 0]
  BY <1>1 DEF Stores
<1>6. ASSUME NEW u \in 0 .. cap - 1
      PROVE  (IF u \notin currOff .. currOff + dirty - 1 THEN buf[u]
              ELSE IF u - currOff < good THEN Start[pkt.i] + (u - currOff) + 1
              ELSE 0) \in 0 .. Total
  <2>1. u \in currOff .. currOff + dirty - 1 => u - currOff >= 0
    BY <1>1, <1>4
  <2>2. /\ buf[u] \in 0 .. Total /\ 0 \in 0 .. Total /\ u \in Int
    BY <1>1, <1>2
  <2>3. (u \in currOff .. currOff + dirty - 1 /\ u - currOff < good)
          => Start[pkt.i] + (u - currOff) + 1 \in 0 .. Total
    BY <1>3, <2>1, <2>2
  <2> QED BY <2>2, <2>3
<1> QED BY <1>5, <1>6

LEMMA ReadDataTyped ==
  ASSUME Typed, NEW good \in 0 .. blockSz, NEW dirty \in 0 .. blockSz, ReadData(good, dirty)
  PROVE  Typed'
<1>1. /\ pc = "data" /\ good \in GoodUnits /\ dirty \in good .. blockSz
      /\ Stores(good, dirty) /\ (DataRead \/ DataCut \/ DataTimeout)
      /\ UNCHANGED <<at, replies, cap, blockSz, lastBlock, currOff, pkt>>
  BY DEF ReadData, sender, params
<1>2. buf' \in [0 .. cap - 1 -> 0 .. Total]
  BY <1>1, StoresTyped
<1>3. Fitting /\ line \in Seq(Packets) /\ pkt \in Packets /\ ~Abandoned
  BY <1>1 DEF Typed, Reading, Fitting, Abandoned
<1>4. <<Junk(pkt.i)>> \o line \in Seq(Packets) /\ <<pkt>> \o line \in Seq(Packets)
  <2>1. Junk(pkt.i) \in Packets
    BY <1>3 DEF Fitting, Packets, Junk, Hurts
  <2> QED BY <1>3, <2>1
<1>5. line' \in Seq(Packets)
  <2>1. <<>> \in Seq(Packets)
    OBVIOUS
  <2>2. Rests(line) \subseteq Seq(Packets) /\ Rests(<<pkt>> \o line) \subseteq Seq(Packets)
    BY <1>3, <1>4, RestsTyped
  <2> QED BY <1>1, <1>3, <1>4, <2>1, <2>2 DEF DataRead, DataCut, DataTimeout
<1>6. CASE DataRead
  <2>1. pc' = "sum" /\ ret' = ret
    BY <1>6 DEF DataRead
  <2>2. Fitting'
    BY <1>1, <1>3 DEF Fitting, Announced
  <2> QED BY <1>1, <1>2, <1>3, <1>5, <2>1, <2>2 DEF Typed
<1>7. CASE DataCut \/ DataTimeout
  <2>1. pc' = "drain" /\ ret' = "error"
    BY <1>7 DEF DataCut, DataTimeout
  <2> QED BY <1>1, <1>2, <1>3, <1>5, <2>1, StepTyped DEF Typed
<1> QED BY <1>1, <1>6, <1>7

LEMMA CheckSumTyped ==
  ASSUME Typed, CheckSum
  PROVE  Typed'
<1>1. /\ pc = "sum" /\ UNCHANGED <<at, replies, cap, buf, blockSz>> /\ ~Abandoned
      /\ line \in Seq(Packets) /\ Fitting
  BY DEF CheckSum, sender, file, Typed, Abandoned, Reading
<1>2. CASE pkt.kind = "block" /\ pkt.hurt = "no"
  <2>1. /\ currOff' = currOff + blockSz /\ lastBlock' = Block(pkt.i)
        /\ ret' = "ok" /\ pc' = "reply" /\ line' = line
    BY <1>2 DEF CheckSum
  <2>2. pkt.i \in 1 .. N
    BY <1>1, <1>2, HeadersTyped DEF Fitting
  <2>3. lastBlock' \in 0 .. Numbers - 1
    BY <2>1, <2>2, Numbered
  <2>4. currOff' \in 0 .. cap /\ cap \in Nat
    BY <1>1, <2>1, XmodemAssumption DEF Fitting, Typed
  <2>5. currOff' \in -16 .. cap' /\ -8 <= currOff'
    BY <1>1, <2>4
  <2> QED BY <1>1, <2>1, <2>3, <2>5 DEF Typed, Reading
<1>3. CASE ~(pkt.kind = "block" /\ pkt.hurt = "no")
  <2>1. /\ UNCHANGED <<currOff, lastBlock>> /\ ret' = "error" /\ pc' = "drain"
        /\ line' \in Bitten(line)
    BY <1>3 DEF CheckSum
  <2>2. line' \in Seq(Packets)
    BY <1>1, <2>1, BittenTyped
  <2> QED BY <1>1, <2>1, <2>2, StepTyped DEF Typed
<1> QED BY <1>2, <1>3

LEMMA OtherTyped ==
  ASSUME Typed, HeaderTimeout \/ HeaderEot \/ HeaderBad \/ Drain \/ Reply \/ LoseReply
  PROVE  Typed'
<1>1. /\ line \in Seq(Packets) /\ replies \in Seq({"ack", "nak"})
      /\ at \in 1 .. N + 2 /\ cap' = cap /\ at' = at /\ buf' = buf
      /\ lastBlock' = lastBlock /\ currOff' = currOff
      /\ buf \in [0 .. cap - 1 -> 0 .. Total] /\ blockSz \in Sizes \cup {0}
      /\ ret \in {"ok", "eot", "error", "fatal", "timeout"}
  BY DEF Typed, HeaderTimeout, HeaderEot, HeaderBad, Drain, Reply, LoseReply,
     sender, file, params
<1>2. CASE HeaderTimeout \/ HeaderEot \/ HeaderBad
  <2>1. pc = "header" /\ pc' = "drain" /\ replies' = replies
        /\ ret' \in {"timeout", "eot", "error"} /\ ~Abandoned
    BY <1>2 DEF HeaderTimeout, HeaderEot, HeaderBad, Abandoned
  <2>2. line' \in Seq(Packets)
    BY <1>1, <1>2, HeadTyped DEF HeaderTimeout, HeaderEot, HeaderBad
  <2>3. blockSz' \in Sizes \cup {0}
    BY <1>1, <1>2 DEF HeaderTimeout, HeaderEot, HeaderBad, params
  <2> QED BY <1>1, <2>1, <2>2, <2>3, StepTyped
<1>3. CASE Drain
  <2>1. line' \in Seq(Packets)
    BY <1>1, <1>3, RestsTyped DEF Drain
  <2>2. pc' = "reply" /\ pc = "drain" /\ ret' = ret /\ replies' = replies /\ blockSz' = blockSz
    BY <1>3 DEF Drain, params
  <2> QED BY <1>1, <2>1, <2>2, StepTyped DEF Abandoned
<1>4. CASE Reply
  <2>1. AnswerOf \in {"ack", "nak"}
    BY DEF AnswerOf
  <2>2. replies' \in Seq({"ack", "nak"})
    BY <1>1, <1>4, <2>1 DEF Reply
  <2>3. /\ pc = "reply" /\ pc' \in {"done", "failed", "header"} /\ ret' = "ok"
        /\ (ret = "fatal" => pc' = "failed") /\ line' = line /\ blockSz' = blockSz
    BY <1>4 DEF Reply, params
  <2> QED BY <1>1, <2>2, <2>3, StepTyped DEF Abandoned
<1>5. CASE LoseReply
  <2>1. replies' \in Seq({"ack", "nak"})
    BY <1>1, <1>5 DEF LoseReply
  <2>2. UNCHANGED <<line, pc, ret, pkt, blockSz>>
    BY <1>5 DEF LoseReply, params
  <2>3. Fitting => Fitting'
    BY <1>1, <2>2 DEF Fitting, Announced
  <2> QED BY <1>1, <2>1, <2>2, <2>3 DEF Typed, Reading, Abandoned
<1> QED BY <1>2, <1>3, <1>4, <1>5

LEMMA AnswerTyped ==
  ASSUME Typed, NEW h \in Hurts, Answer(h)
  PROVE  Typed'
<1>1. /\ replies # <<>> /\ at <= N + 1 /\ replies' = Tail(replies)
      /\ at' = at \/ at' = at + 1
      /\ line' = line \/ (at' <= N + 1 /\ line' = Append(line, Packet(at', h)))
      /\ UNCHANGED <<pc, cap, buf, pkt, ret, blockSz, lastBlock, currOff>>
  BY DEF Answer, Moved, file, params
<1>2. at \in 1 .. N + 2 /\ N \in Nat /\ line \in Seq(Packets) /\ replies \in Seq({"ack", "nak"})
  BY Offsets DEF Typed
<1>3. at' \in 1 .. N + 2
  BY <1>1, <1>2
<1>4. at' <= N + 1 => Packet(at', h) \in Packets
  BY <1>2, <1>3 DEF Packet, Packets
<1>5. line' \in Seq(Packets)
  <2> DEFINE p == Packet(at', h)
  <2>1. line' = line \/ (p \in Packets /\ line' = Append(line, p))
    BY <1>1, <1>4
  <2> HIDE DEF p
  <2> QED BY <1>2, <2>1
<1>6. replies' \in Seq({"ack", "nak"})
  BY <1>1, <1>2
<1>7. Fitting => Fitting'
  BY <1>1 DEF Fitting, Announced
<1> QED BY <1>1, <1>3, <1>5, <1>6, <1>7 DEF Typed, Reading, Abandoned

LEMMA NextTyped == Typed /\ [Next]_vars => Typed'
<1> SUFFICES ASSUME Typed, [Next]_vars PROVE Typed'
  OBVIOUS
<1>1. CASE UNCHANGED vars
  <2>1. UNCHANGED <<at, line, replies, pc, cap, buf, blockSz, lastBlock, currOff, pkt, ret>>
    BY <1>1 DEF vars, sender, file, params
  <2>2. Fitting => Fitting'
    BY <2>1 DEF Fitting, Announced
  <2> QED BY <2>1, <2>2 DEF Typed, Reading, Abandoned
<1>2. CASE Next
  BY <1>2, HeaderTyped, ReadDataTyped, CheckSumTyped, OtherTyped, AnswerTyped
     DEF Next, Receiver, Sender
<1> QED BY <1>1, <1>2

------------------------------------------------------------------------------
(* For as long as the damage is mild.                                      *)
Prefix(k) == \A u \in 0 .. k - 1 : buf[u] = u + 1

(* The two sides with n blocks stored. *)
Common(n) ==
  /\ at \in {n, n + 1} /\ at # 0 /\ lastBlock = Block(n)
  /\ Prefix(currOff)

(* Damage to the packet under way is of the mild kind. *)
HurtMildly(n, h) ==
  /\ h \in Hurts \ {"eot", "lost"}
  /\ h = "head" => /\ blockSz # 0
                   /\ at <= N => Size(at) <= DrainMax /\ Size(at) <= 4
  /\ h \in {"data", "cut", "size", "sum"} => at <= N /\ at = n + 1
  /\ h = "cut" => Size(at) <= DrainMax
  /\ h = "size" => Size(at) = 1 /\ currOff + 8 <= cap

(* Waiting for a packet: it, the reply that asks for it, or neither is     *)
(* under way, and nothing else.                                            *)
Waiting(n) ==
  /\ pc = "header" /\ currOff = Start[n + 1]
  /\ \/ line = <<>> /\ replies = <<>>
     \/ line = <<>> /\ replies = <<"nak">>
     \/ line = <<>> /\ replies = <<"ack">> /\ at = n
     \/ replies = <<>> /\ \E h \in Hurts : line = <<Packet(at, h)>> /\ HurtMildly(n, h)

Quiet == line = <<>> /\ replies = <<>>

InBlock(n) ==
  /\ Reading /\ Quiet
  /\ at <= N /\ currOff = Start[at]
  /\ \E h \in {"no", "data", "cut", "size", "sum"} : pkt = Packet(at, h) /\ HurtMildly(n, h)
  /\ pc = "sum" /\ pkt.hurt = "no" => Prefix(currOff + blockSz)

Draining(n) ==
  /\ pc = "drain" /\ currOff = Start[n + 1] /\ replies = <<>>
  /\ ret \in {"timeout", "error", "eot"} /\ (ret = "eot" => n = N)
  /\ \/ line = <<>>
     \/ at <= N /\ line = <<Junk(at)>> /\ Brief(Junk(at))

Replying(n) ==
  /\ pc = "reply" /\ currOff = Start[n + 1] /\ Quiet
  /\ ret \in {"ok", "timeout", "error", "eot"}
  /\ (ret = "eot" => n = N) /\ (ret = "ok" => at = n)

GivenUp == Abandoned /\ currOff \in Nat /\ Total > cap

Finished == pc = "done" /\ currOff = Total /\ Prefix(Total)

Phase(n) == Waiting(n) \/ InBlock(n) \/ Draining(n) \/ Replying(n)

MildInv ==
  harsh \/ GivenUp \/ Finished \/ \E n \in 0 .. N : Common(n) /\ Phase(n)

------------------------------------------------------------------------------
(* Each phase leads to another: the receiver's steps with n blocks stored. *)
LEMMA Sides ==
  ASSUME NEW n \in 0 .. N, Common(n)
  PROVE  /\ n \in Nat /\ n <= N /\ at \in Nat /\ at <= N + 1 /\ n + 1 \in 1 .. N + 1
         /\ Start[n + 1] \in Nat /\ N \in Nat
BY Offsets DEF Common

LEMMA PacketIs ==
  ASSUME NEW i, NEW h
  PROVE  /\ Packet(i, h).i = i /\ Packet(i, h).hurt = h
         /\ Packet(i, h).kind = IF i <= N THEN "block" ELSE "eot"
         /\ Junk(i).i = i
BY DEF Packet, Junk

LEMMA WaitingEnds ==
  ASSUME Typed, NEW n \in 0 .. N, Common(n), Waiting(n),
         HeaderTimeout \/ HeaderEot \/ HeaderBad
  PROVE  Common(n)' /\ Draining(n)'
<1>0. n \in Nat /\ n <= N /\ at \in Nat /\ at <= N + 1 /\ N \in Nat
  BY Sides
<1>1. /\ at' = at /\ replies' = replies /\ buf' = buf /\ lastBlock' = lastBlock
      /\ currOff' = currOff /\ pc' = "drain"
  BY DEF HeaderTimeout, HeaderEot, HeaderBad, sender, file, params
<1>2. Common(n)'
  BY <1>1 DEF Common, Prefix
<1>3. CASE HeaderTimeout
  <2>1. line' = <<>> /\ replies' = <<>> /\ ret' = "timeout"
    BY <1>0, <1>3 DEF HeaderTimeout, Silent
  <2> QED BY <1>1, <1>2, <2>1 DEF Waiting, Draining
<1>4. CASE line # <<>>
  <2>1. PICK h \in Hurts : line = <<Packet(at, h)>> /\ HurtMildly(n, h)
    BY <1>4 DEF Waiting
  <2>2. Head(line) = Packet(at, h) /\ Tail(line) = <<>> /\ replies = <<>>
    BY <1>4, <2>1 DEF Waiting
  <2>3. h # "eot" /\ (at <= N \/ at = N + 1)
    BY <1>0, <2>1 DEF HurtMildly
  <2>4. CASE HeaderEot
    <3>1. MayBeEot(Packet(at, h)) /\ line' = <<>> /\ ret' = "eot"
      BY <2>2, <2>4 DEF HeaderEot
    <3>2. at = N + 1
      BY <2>3, <3>1, PacketIs DEF MayBeEot
    <3>3. n = N
      BY <1>0, <3>2 DEF Common
    <3> QED BY <1>1, <1>2, <2>2, <3>1, <3>3 DEF Waiting, Draining
  <2>5. CASE HeaderBad
    <3>1. h = "head" /\ ret' = "error"
      BY <2>2, <2>3, <2>5, PacketIs DEF HeaderBad
    <3>2. CASE at <= N
      <4>1. /\ Packet(at, h).kind = "block" /\ Packet(at, h).i = at
            /\ at \in 1 .. N /\ Size(at) \in {1, 8}
        BY <1>0, <3>2, PacketIs, Offsets DEF Common
      <4>2. Cut(line) = <<Junk(at)>> \o <<>>
        BY <1>4, <2>2, <4>1 DEF Cut
      <4>3. line' = <<Junk(at)>>
        BY <2>2, <2>5, <4>1, <4>2 DEF HeaderBad, Headless
      <4>4. blockSz' \in {1, 8}
        BY <2>1, <2>5, <3>1 DEF HeaderBad, HurtMildly, Typed, Sizes
      <4>5. Size(at) <= DrainMax /\ Size(at) <= 4 * blockSz'
        BY <2>1, <3>1, <3>2, <4>1, <4>4 DEF HurtMildly
      <4>6. Brief(Junk(at))'
        BY <1>1, <3>2, <4>5, PacketIs DEF Brief, Size, Junk
      <4> QED BY <1>1, <1>2, <2>2, <3>1, <3>2, <4>3, <4>6 DEF Waiting, Draining
    <3>3. CASE at = N + 1
      <4>1. Packet(at, h).kind = "eot"
        BY <1>0, <3>3, PacketIs
      <4>2. line' = <<>>
        BY <2>2, <2>5, <4>1, NothingLeft DEF HeaderBad, Headless
      <4> QED BY <1>1, <1>2, <2>2, <3>1, <4>2 DEF Waiting, Draining
    <3> QED BY <2>3, <3>2, <3>3
  <2> QED BY <1>4, <2>4, <2>5 DEF HeaderTimeout
<1>5. HeaderTimeout \/ line # <<>>
  BY DEF HeaderEot, HeaderBad
<1> QED BY <1>3, <1>4, <1>5

(* The header that is read is that of the block due, or of the one stored  *)
(* last sent again, and is mistaken for another one only where that fits.  *)
LEMMA WaitingReads ==
  ASSUME NEW n \in 0 .. N, Common(n), Waiting(n), line # <<>>,
         line \in Seq(Packets), NEW hd \in Headers(Head(line))
  PROVE  /\ at \in 1 .. N /\ replies = <<>> /\ Tail(line) = <<>>
         /\ \E h \in {"no", "data", "cut", "size", "sum"} :
               Head(line) = Packet(at, h) /\ HurtMildly(n, h)
         /\ hd.block \in {lastBlock, NextBlock} /\ Rewound(hd) = Start[at]
         /\ TooLarge(hd) => Start[at] + Size(at) \notin 0 .. cap
<1>0. /\ n \in Nat /\ n <= N /\ at \in Nat /\ at <= N + 1 /\ n + 1 \in 1 .. N + 1
      /\ Start[n + 1] \in Nat /\ N \in Nat /\ N > 0 /\ lastBlock = Block(n)
      /\ currOff = Start[n + 1] /\ at \in {n, n + 1}
  BY Sides, Offsets DEF Common, Waiting
<1>1. PICK h \in Hurts : line = <<Packet(at, h)>> /\ HurtMildly(n, h)
  BY DEF Waiting
<1>2. Head(line) = Packet(at, h) /\ Tail(line) = <<>> /\ replies = <<>>
  BY <1>1 DEF Waiting
<1>3. Head(line) \in Packets
  OBVIOUS
<1>4. Packet(at, h).kind = "block" /\ at <= N
  <2>1. Packet(at, h).kind # "eot"
    BY <1>2, <1>3, HeadersTyped
  <2> QED BY <2>1, PacketIs
<1>5. /\ hd.block = Block(at) /\ hd.size = Announced(Packet(at, h))
      /\ h \in {"no", "data", "cut", "size", "sum"}
  <2>1. /\ hd.block = Block(Packet(at, h).i) /\ hd.size = Announced(Packet(at, h))
        /\ Packet(at, h).hurt \notin {"head", "eot"}
    BY <1>2, <1>3, <1>4, HeadersTyped
  <2> QED BY <1>1, <2>1, PacketIs DEF HurtMildly, Hurts
<1>6. at \in 1 .. N
  BY <1>0, <1>4 DEF Common
<1>7. Size(at) \in {1, 8} /\ hd.size = (IF h = "size" THEN 9 - Size(at) ELSE Size(at))
  BY <1>5, <1>6, PacketIs, Offsets DEF Announced
<1>8. CASE at = n + 1
  <2>1. Block(at) = NextBlock /\ Block(at) # lastBlock
    BY <1>0, <1>8, Numbered DEF NextBlock
  <2>2. Rewound(hd) = Start[at]
    BY <1>0, <1>5, <1>8, <2>1 DEF Rewound
  <2>3. h = "size" => ~TooLarge(hd)
    <3>1. h = "size" => hd.size = 8 /\ Start[at] + 8 <= cap
      BY <1>0, <1>1, <1>7, <1>8 DEF HurtMildly
    <3>2. h = "size" => Start[at] + 8 \in 0 .. cap
      BY <1>0, <1>8, <3>1
    <3> QED BY <2>2, <3>1, <3>2 DEF TooLarge
  <2>4. h # "size" => (TooLarge(hd) => Start[at] + Size(at) \notin 0 .. cap)
    BY <1>7, <2>2 DEF TooLarge
  <2> QED BY <1>1, <1>2, <1>5, <1>6, <2>1, <2>2, <2>3, <2>4
<1>9. CASE at = n
  <2>1. /\ Start[n] + Size(n) = Start[n + 1] /\ Start[n] < Start[n + 1]
        /\ Start[n] \in Nat /\ Size(n) \in Nat
    BY <1>6, <1>9, Offsets
  <2>2. h # "size"
    BY <1>0, <1>1, <1>9 DEF HurtMildly
  <2>3. Rewound(hd) = Start[at]
    BY <1>0, <1>5, <1>7, <1>9, <2>1, <2>2 DEF Rewound
  <2>4. TooLarge(hd) => Start[at] + Size(at) \notin 0 .. cap
    BY <1>7, <2>2, <2>3 DEF TooLarge
  <2> QED BY <1>0, <1>1, <1>2, <1>5, <1>6, <1>9, <2>3, <2>4
<1> QED BY <1>0, <1>8, <1>9

LEMMA WaitingGood ==
  ASSUME Typed, NEW n \in 0 .. N, Common(n), Waiting(n), HeaderRead
  PROVE  GivenUp' \/ (Common(n)' /\ InBlock(n)')
<1>0. line # <<>> /\ line \in Seq(Packets)
  BY DEF HeaderRead, Typed
<1>1. PICK hd \in Headers(Head(line)) : HeaderUnexpected(hd) \/ HeaderGood(hd)
  BY DEF HeaderRead
<1>2. /\ at \in 1 .. N /\ replies = <<>> /\ Tail(line) = <<>>
      /\ hd.block \in {lastBlock, NextBlock} /\ Rewound(hd) = Start[at]
      /\ TooLarge(hd) => Start[at] + Size(at) \notin 0 .. cap
  BY <1>0, WaitingReads
<1>3. PICK h \in {"no", "data", "cut", "size", "sum"} :
        Head(line) = Packet(at, h) /\ HurtMildly(n, h)
  BY <1>0, WaitingReads
<1>4. /\ at' = at /\ replies' = replies /\ buf' = buf /\ cap' = cap /\ lastBlock' = lastBlock
      /\ currOff' = Start[at]
      /\ \/ TooLarge(hd) /\ ret' = "fatal" /\ pc' = "drain"
         \/ pc' = "data" /\ pkt' = Head(line) /\ line' = Tail(line)
  BY <1>1, <1>2 DEF HeaderRead, HeaderUnexpected, HeaderGood, sender, file
<1>5. /\ n \in Nat /\ at \in Nat /\ at \in {n, n + 1} /\ currOff = Start[n + 1]
      /\ Start[at] \in Nat /\ Start[at] <= Start[n + 1] /\ Start[n + 1] \in Nat
      /\ Start[at] + Size(at) = Start[at + 1] /\ Start[at + 1] <= Total /\ Total \in Nat
      /\ Start[at + 1] \in Nat
  <2>1. at \in {n, n + 1} /\ n \in Nat /\ N \in Nat
    BY Sides DEF Common
  <2>2. n + 1 \in 1 .. N + 1 /\ at \in 1 .. N + 1 /\ at <= n + 1 /\ at + 1 \in 1 .. N + 1
    BY <1>2, <2>1
  <2> QED BY <1>2, <2>1, <2>2, Offsets DEF Waiting
<1>6. CASE TooLarge(hd) /\ ret' = "fatal" /\ pc' = "drain"
  <2>1. Start[at + 1] \notin 0 .. cap /\ cap \in Nat
    BY <1>2, <1>5, <1>6, XmodemAssumption DEF Typed
  <2>2. Total > cap
    BY <1>5, <2>1
  <2> QED BY <1>4, <1>5, <1>6, <2>2 DEF GivenUp, Abandoned, Total
<1>7. CASE pc' = "data" /\ pkt' = Head(line) /\ line' = Tail(line)
  <2>1. Prefix(currOff)'
    <3>1. \A u \in 0 .. Start[at] - 1 : u \in 0 .. Start[n + 1] - 1
      BY <1>5
    <3> QED BY <1>4, <1>5, <3>1 DEF Common, Prefix
  <2>2. Common(n)'
    BY <1>4, <2>1 DEF Common
  <2>3. line' = <<>> /\ replies' = <<>> /\ pkt' = Packet(at', h)
    BY <1>2, <1>3, <1>4, <1>7
  <2>4. HurtMildly(n, h)' \/ h = "no"
    <3>1. CASE h = "size"
      <4>1. currOff' = currOff
        BY <1>3, <1>4, <1>5, <3>1 DEF HurtMildly
      <4> QED BY <1>3, <1>4, <3>1, <4>1 DEF HurtMildly, Size
    <3>2. CASE h \in {"data", "cut", "sum"}
      BY <1>3, <1>4, <3>2 DEF HurtMildly, Size
    <3> QED BY <1>3, <3>1, <3>2
  <2>5. HurtMildly(n, h)'
    BY <2>4 DEF HurtMildly, Hurts
  <2> QED BY <1>2, <1>4, <1>7, <2>2, <2>3, <2>5 DEF InBlock, Reading, Quiet
<1> QED BY <1>4, <1>6, <1>7

(* Where a block is read, and that it fits in the buffer. *)
LEMMA InBlockFits ==
  ASSUME Typed, NEW n \in 0 .. N, Common(n), InBlock(n)
  PROVE  /\ at \in 1 .. N /\ n \in Nat /\ at \in Nat /\ at \in {n, n + 1}
         /\ Start[at] \in Nat /\ blockSz \in {1, 8} /\ Size(at) \in {1, 8}
         /\ currOff = Start[at] /\ pkt.i = at /\ pkt.kind = "block"
         /\ blockSz = (IF pkt.hurt = "size" THEN 9 - Size(at) ELSE Size(at))
         /\ Start[at] + Size(at) = Start[at + 1] /\ Start[at] + blockSz <= cap
         /\ cap \in Nat /\ buf \in [0 .. cap - 1 -> 0 .. Total]
         /\ (pkt.hurt # "no" => at = n + 1) /\ (pkt.hurt = "size" => Size(at) = 1)
<1>1. /\ at \in 1 .. N /\ n \in Nat /\ at \in Nat /\ at \in {n, n + 1}
      /\ currOff = Start[at]
  BY Sides DEF InBlock, Common
<1>2. PICK h \in {"no", "data", "cut", "size", "sum"} : pkt = Packet(at, h) /\ HurtMildly(n, h)
  BY DEF InBlock
<1>3. pkt.i = at /\ pkt.hurt = h /\ pkt.kind = "block"
  BY <1>1, <1>2, PacketIs
<1>4. Fitting /\ cap \in Nat /\ buf \in [0 .. cap - 1 -> 0 .. Total]
  BY XmodemAssumption DEF Typed, InBlock
<1>5. /\ Start[at] \in Nat /\ Size(at) \in {1, 8} /\ Start[at] + Size(at) = Start[at + 1]
  BY <1>1, Offsets
<1>6. blockSz = (IF pkt.hurt = "size" THEN 9 - Size(at) ELSE Size(at))
  BY <1>3, <1>4 DEF Fitting, Announced
<1>7. Start[at] + blockSz <= cap
  BY <1>1, <1>4, <1>5, <1>6 DEF Fitting
<1>8. (pkt.hurt # "no" => at = n + 1) /\ (pkt.hurt = "size" => Size(at) = 1)
  BY <1>2, <1>3 DEF HurtMildly
<1> QED BY <1>1, <1>3, <1>4, <1>5, <1>6, <1>7, <1>8

LEMMA InBlockRoom ==
  ASSUME Typed, NEW n \in 0 .. N, Common(n), InBlock(n)
  PROVE  currOff \in Nat /\ blockSz \in Nat /\ cap \in Nat /\ currOff + blockSz <= cap
<1>1. currOff \in Nat
  <2>1. currOff = Start[at] /\ Start[at] \in Nat
    BY InBlockFits
  <2> QED BY <2>1
<1>2. cap \in Nat /\ currOff + blockSz \in 0 .. cap /\ blockSz \in Nat
  BY XmodemAssumption DEF Typed, InBlock, Fitting, Sizes
<1> QED BY <1>1, <1>2

LEMMA InBlockReads ==
  ASSUME Typed, NEW n \in 0 .. N, Common(n), InBlock(n),
         NEW good \in 0 .. blockSz, NEW dirty \in 0 .. blockSz, ReadData(good, dirty)
  PROVE  Common(n)' /\ (InBlock(n)' \/ Draining(n)')
<1>1. /\ at \in 1 .. N /\ n \in Nat /\ at \in Nat /\ at \in {n, n + 1}
      /\ Start[at] \in Nat /\ blockSz \in {1, 8} /\ Size(at) \in {1, 8}
      /\ currOff = Start[at] /\ pkt.i = at /\ pkt.kind = "block"
      /\ blockSz = (IF pkt.hurt = "size" THEN 9 - Size(at) ELSE Size(at))
      /\ Start[at] + blockSz <= cap /\ cap \in Nat
      /\ buf \in [0 .. cap - 1 -> 0 .. Total]
      /\ (pkt.hurt # "no" => at = n + 1) /\ (pkt.hurt = "size" => Size(at) = 1)
  BY InBlockFits
<1>2. /\ at' = at /\ replies' = replies /\ cap' = cap /\ blockSz' = blockSz
      /\ lastBlock' = lastBlock /\ currOff' = currOff /\ pkt' = pkt
      /\ good \in GoodUnits /\ dirty \in good .. blockSz /\ Stores(good, dirty)
      /\ (DataRead /\ dirty = blockSz) \/ DataCut \/ DataTimeout
  BY DEF ReadData, sender, params
<1>3. PICK h \in {"no", "data", "cut", "size", "sum"} : pkt = Packet(at, h) /\ HurtMildly(n, h)
  BY DEF InBlock
<1>4. pkt.hurt = h /\ line = <<>> /\ replies = <<>> /\ at <= N
  BY <1>3, PacketIs DEF InBlock, Quiet
<1>5. buf' = [u \in 0 .. cap - 1 |->
               IF u \notin currOff .. currOff + dirty - 1 THEN buf[u]
               ELSE IF u - currOff < good THEN Start[at] + (u - currOff) + 1
               ELSE 0]
  BY <1>1, <1>2 DEF Stores
<1>6. \A u \in 0 .. currOff - 1 : buf'[u] = u + 1
  <2> TAKE u \in 0 .. currOff - 1
  <2>0. currOff \in Nat /\ blockSz \in Nat /\ cap \in Nat /\ currOff + blockSz <= cap
    BY InBlockRoom
  <2>1. u \in Int /\ 0 <= u /\ u < currOff
    BY <2>0
  <2>2. u \in 0 .. cap - 1
    BY <2>0, <2>1
  <2>3. u \notin currOff .. currOff + dirty - 1
    BY <2>0, <2>1
  <2>4. buf'[u] = buf[u]
    BY <1>5, <2>2, <2>3
  <2> QED BY <2>4 DEF Common, Prefix
<1>7. PICK m \in Int : m = currOff + blockSz /\ m = (currOff + blockSz)'
  BY <1>1, <1>2
<1>8. good = blockSz /\ dirty = blockSz => \A u \in 0 .. m - 1 : buf'[u] = u + 1
  <2> SUFFICES ASSUME good = blockSz, dirty = blockSz, NEW u \in 0 .. m - 1
               PROVE  buf'[u] = u + 1
    OBVIOUS
  <2>1. CASE u <= currOff - 1
    BY <1>1, <1>6, <2>1
  <2>2. CASE u >= currOff
    <3>0. currOff \in Nat /\ blockSz \in Nat /\ cap \in Nat /\ currOff + blockSz <= cap
      BY InBlockRoom
    <3>1. /\ u \in 0 .. cap - 1 /\ u \in currOff .. currOff + dirty - 1
          /\ u - currOff < good
      BY <1>7, <2>2, <3>0
    <3>2. buf'[u] = Start[at] + (u - currOff) + 1
      BY <1>5, <3>1
    <3> QED BY <1>1, <3>1, <3>2, SMTT(60)
  <2> QED BY <1>1, <2>1, <2>2
<1>9. Common(n)'
  BY <1>2, <1>6 DEF Common, Prefix
<1>10. CASE DataRead /\ dirty = blockSz
  <2>1. pc' = "sum" /\ h # "cut"
    BY <1>4, <1>10 DEF DataRead
  <2>2. h # "size"
    BY <1>1, <1>4, <1>10 DEF DataRead
  <2>3. line' = <<>>
    BY <1>1, <1>3, <1>4, <1>10, <2>1, <2>2, NothingLeft DEF DataRead
  <2>4. pkt'.hurt = "no" => Prefix(currOff + blockSz)'
    <3>1. h = "no" => good = blockSz
      BY <1>1, <1>2, <1>4 DEF GoodUnits
    <3>2. pkt'.hurt = h /\ dirty = blockSz
      BY <1>2, <1>4, <1>10
    <3>3. h = "no" => \A u \in 0 .. m - 1 : buf'[u] = u + 1
      BY <1>8, <3>1, <3>2, Zenon
    <3> QED BY <1>7, <3>2, <3>3 DEF Prefix
  <2>5. HurtMildly(n, h)'
    BY <1>2, <1>3 DEF HurtMildly, Size
  <2> QED BY <1>1, <1>2, <1>3, <1>4, <1>9, <2>1, <2>3, <2>4, <2>5 DEF InBlock, Reading, Quiet
<1>11. CASE DataCut
  <2>1. h = "cut" /\ pc' = "drain" /\ ret' = "error" /\ line' = <<Junk(at)>> \o <<>>
    BY <1>1, <1>4, <1>11 DEF DataCut
  <2>2. line' = <<Junk(at)>>
    BY <2>1
  <2>3. Size(at) <= DrainMax /\ Size(at) <= 4 * blockSz'
    BY <1>1, <1>2, <1>3, <1>4, <2>1 DEF HurtMildly
  <2>4. Brief(Junk(at))'
    BY <1>2, <1>4, <2>3, PacketIs DEF Brief, Size, Junk
  <2>5. currOff' = Start[n + 1]
    BY <1>1, <1>2, <1>4, <2>1
  <2> QED BY <1>2, <1>4, <1>9, <2>1, <2>2, <2>4, <2>5 DEF Draining
<1>12. CASE DataTimeout
  <2>1. pc' = "drain" /\ ret' = "error" /\ line' = <<>> /\ h # "no"
    BY <1>1, <1>4, <1>12 DEF DataTimeout
  <2>2. currOff' = Start[n + 1]
    BY <1>1, <1>2, <1>4, <2>1
  <2> QED BY <1>2, <1>4, <1>9, <2>1, <2>2 DEF Draining
<1> QED BY <1>2, <1>10, <1>11, <1>12

LEMMA InBlockEnds ==
  ASSUME Typed, NEW n \in 0 .. N, Common(n), InBlock(n), CheckSum
  PROVE  \E k \in 0 .. N : Common(k)' /\ (Draining(k)' \/ Replying(k)')
<1>1. /\ at \in 1 .. N /\ n \in Nat /\ at \in Nat /\ at \in {n, n + 1}
      /\ currOff = Start[at] /\ pkt.i = at /\ pkt.kind = "block"
      /\ blockSz = (IF pkt.hurt = "size" THEN 9 - Size(at) ELSE Size(at))
      /\ Start[at] + Size(at) = Start[at + 1]
      /\ (pkt.hurt # "no" => at = n + 1)
  BY InBlockFits
<1>2. /\ pc = "sum" /\ at' = at /\ line' = <<>> /\ replies' = <<>> /\ buf' = buf
      /\ blockSz' = blockSz
  <2>1. line = <<>> /\ replies = <<>>
    BY DEF InBlock, Quiet
  <2> QED BY <2>1, NothingLeft DEF CheckSum, sender, file
<1>3. CASE pkt.hurt = "no"
  <2>1. /\ currOff' = Start[at + 1] /\ lastBlock' = Block(at)
        /\ ret' = "ok" /\ pc' = "reply"
    BY <1>1, <1>3 DEF CheckSum
  <2>2. Prefix(currOff + blockSz)
    BY <1>2, <1>3 DEF InBlock
  <2>3. PICK k \in 0 .. N : k = at
    BY <1>1
  <2>4. currOff + blockSz = currOff'
    BY <1>1, <1>3, <2>1
  <2>5. Common(k)'
    BY <1>1, <1>2, <2>1, <2>2, <2>3, <2>4 DEF Common, Prefix
  <2>6. Replying(k)'
    BY <1>2, <2>1, <2>3, Offsets DEF Replying, Quiet
  <2> QED BY <2>5, <2>6
<1>4. CASE pkt.hurt # "no"
  <2>1. /\ currOff' = currOff /\ lastBlock' = lastBlock
        /\ ret' = "error" /\ pc' = "drain"
    BY <1>4 DEF CheckSum
  <2>2. Common(n)' /\ Draining(n)'
    BY <1>1, <1>2, <1>4, <2>1 DEF Common, Prefix, Draining
  <2> QED BY <2>2
<1> QED BY <1>3, <1>4

LEMMA DrainingEnds ==
  ASSUME NEW n \in 0 .. N, Common(n), Draining(n), Drain
  PROVE  Common(n)' /\ Replying(n)'
<1>1. /\ at' = at /\ replies' = <<>> /\ buf' = buf
      /\ lastBlock' = lastBlock /\ currOff' = currOff /\ ret' = ret /\ pc' = "reply"
  BY DEF Drain, Draining, sender, file, params
<1>2. line' = <<>>
  <2>1. PICK k \in 0 .. Len(line) :
          /\ k = 0 /\ line # <<>> => ~Brief(Head(line))
          /\ line' \in RestsAfter(line, k)
    BY DEF Drain
  <2>2. SubSeq(line, k + 1, Len(line)) = <<>>
    <3>1. CASE line = <<>>
      BY <3>1
    <3>2. CASE line = <<Junk(at)>> /\ Brief(Junk(at))
      <4>1. Len(line) = 1 /\ Head(line) = Junk(at) /\ line # <<>>
        BY <3>2
      <4>2. k = 1
        BY <2>1, <3>2, <4>1
      <4> QED BY <4>1, <4>2
    <3> QED BY <3>1, <3>2 DEF Draining
  <2> QED BY <2>1, <2>2, NothingLeft DEF RestsAfter
<1> QED BY <1>1, <1>2 DEF Common, Prefix, Draining, Replying, Quiet

LEMMA ReplyingEnds ==
  ASSUME NEW n \in 0 .. N, Common(n), Replying(n), Reply
  PROVE  Finished' \/ (Common(n)' /\ Waiting(n)')
<1>1. /\ at' = at /\ line' = <<>> /\ buf' = buf
      /\ lastBlock' = lastBlock /\ currOff' = currOff
      /\ replies' = <<AnswerOf>>
      /\ pc' = IF ret = "eot" THEN "done" ELSE "header"
  BY DEF Reply, Replying, Quiet, sender, file, params
<1>2. CASE ret = "eot"
  BY <1>1, <1>2 DEF Replying, Common, Prefix, Finished, Total
<1>3. CASE ret # "eot"
  <2>1. AnswerOf = "nak" \/ (AnswerOf = "ack" /\ at = n)
    BY <1>3 DEF AnswerOf, Replying
  <2> QED BY <1>1, <1>3, <2>1 DEF Replying, Common, Prefix, Waiting
<1> QED BY <1>2, <1>3

LEMMA AnswerWaits ==
  ASSUME NEW n \in 0 .. N, Common(n), Phase(n), NEW h \in Hurts,
         Answer(h), Mild(h)
  PROVE  Common(n)' /\ Waiting(n)'
<1>0. /\ n \in Nat /\ n <= N /\ at \in Nat /\ N \in Nat /\ n + 1 \in 1 .. N + 1
      /\ at \in {n, n + 1} /\ at # 0 /\ Start[n + 1] \in Nat
  BY Sides DEF Common
<1>1. Waiting(n) /\ line = <<>> /\ replies # <<>>
  BY DEF Answer, Phase, Waiting, InBlock, Draining, Replying, Quiet
<1>2. replies = <<"nak">> \/ (replies = <<"ack">> /\ at = n)
  BY <1>1 DEF Waiting
<1>3. /\ replies' = <<>> /\ at' = Moved(Head(replies))
      /\ line' = <<>> \/ (h # "lost" /\ line' = <<Packet(at', h)>>)
      /\ pc' = pc /\ buf' = buf /\ cap' = cap /\ blockSz' = blockSz /\ lastBlock' = lastBlock
      /\ currOff' = currOff
  <2>1. Tail(replies) = <<>>
    <3>1. Tail(<<"nak">>) = <<>> /\ Tail(<<"ack">>) = <<>>
      OBVIOUS
    <3> QED BY <1>2, <3>1
  <2>2. Append(line, Packet(at', h)) = <<Packet(at', h)>>
    <3> DEFINE p == Packet(at', h)
    <3>1. <<>> \in Seq({p}) /\ p \in {p}
      OBVIOUS
    <3> HIDE DEF p
    <3>2. Append(<<>>, p) = <<p>>
      BY <3>1
    <3> QED BY <1>1, <3>2 DEF p
  <2> QED BY <1>1, <2>1, <2>2 DEF Answer, file, params
<1>4. at' \in {n, n + 1} /\ at' # 0 /\ at' \in Nat
  BY <1>0, <1>2, <1>3 DEF Moved
<1>5. h # "lost" => HurtMildly(n, h)'
  <2>1. currOff = Start[n + 1]
    BY <1>1 DEF Waiting
  <2>2. at' <= N /\ at' = n => ~(Start[n + 1] < Start[at' + 1])
    BY <1>0
  <2>3. h \in {"data", "cut", "size", "sum"} => at' <= N /\ at' = n + 1
    BY <1>3, <1>4, <2>1, <2>2 DEF Mild
  <2>4. /\ h # "eot"
        /\ h = "head" => blockSz # 0 /\ (at' <= N => Size(at') <= DrainMax /\ Size(at') <= 4)
        /\ h = "cut" => Size(at') <= DrainMax
        /\ h = "size" => Size(at') = 1 /\ currOff + 8 <= cap
    BY <1>3 DEF Mild
  <2> QED BY <1>3, <2>3, <2>4 DEF HurtMildly, Size
<1>6. Common(n)'
  BY <1>3, <1>4 DEF Common, Prefix
<1> QED BY <1>1, <1>3, <1>5, <1>6 DEF Waiting

LEMMA LostWaits ==
  ASSUME NEW n \in 0 .. N, Common(n), Phase(n), LoseReply
  PROVE  Common(n)' /\ Waiting(n)'
<1>1. Waiting(n) /\ line = <<>> /\ replies # <<>>
  BY DEF LoseReply, Phase, Waiting, InBlock, Draining, Replying, Quiet
<1>2. replies' = <<>>
  BY <1>1 DEF LoseReply, Waiting
<1> QED BY <1>1, <1>2 DEF LoseReply, sender, file, params, Common, Prefix, Waiting

------------------------------------------------------------------------------
(* Under the bounds of MCXmodem, which add faults and harsh to the model.  *)
LEMMA MCSteps ==
  ASSUME [MCNext]_<<vars, faults, harsh>>
  PROVE  /\ [Next]_vars
         /\ \/ UNCHANGED harsh /\ (Receiver \/ LoseReply \/ UNCHANGED vars)
            \/ \E h \in Hurts : Answer(h) /\ harsh' = (harsh \/ ~Mild(h))
BY KindsAssumption DEF MCNext, MCReceiver, MCAnswer, MCLose, Fin, Next, Sender

LEMMA InitMild == MCInit => Typed /\ MildInv
<1> SUFFICES ASSUME MCInit PROVE Typed /\ MildInv
  OBVIOUS
<1>1. Typed
  BY InitTyped DEF MCInit
<1>2. /\ at = 1 /\ line = <<>> /\ replies = <<"nak">> /\ pc = "header"
      /\ blockSz = 0 /\ lastBlock = 0 /\ currOff = 0
  BY DEF MCInit, Init
<1>3. Start[1] = 0 /\ Block(0) = 0 /\ 0 \in 0 .. N
  BY XmodemAssumption DEF Block
<1>4. Common(0) /\ Waiting(0)
  BY <1>2, <1>3 DEF Common, Prefix, Waiting
<1> QED BY <1>1, <1>3, <1>4 DEF MildInv, Phase

LEMMA ReceiverMild ==
  ASSUME Typed, NEW n \in 0 .. N, Common(n), Phase(n), Receiver
  PROVE  GivenUp' \/ Finished' \/ \E k \in 0 .. N : Common(k)' /\ Phase(k)'
<1>1. CASE Waiting(n)
  <2>1. CASE HeaderTimeout \/ HeaderEot \/ HeaderBad
    BY <1>1, <2>1, WaitingEnds DEF Phase
  <2>2. CASE HeaderRead
    BY <1>1, <2>2, WaitingGood DEF Phase
  <2>3. pc = "header"
    BY <1>1 DEF Waiting
  <2> QED BY <2>1, <2>2, <2>3 DEF Receiver, ReadData, CheckSum, Drain, Reply
<1>2. CASE InBlock(n)
  <2>1. ASSUME NEW good \in 0 .. blockSz, NEW dirty \in 0 .. blockSz, ReadData(good, dirty)
        PROVE  Common(n)' /\ (InBlock(n)' \/ Draining(n)')
    BY <1>2, <2>1, InBlockReads
  <2>2. CASE CheckSum
    BY <1>2, <2>2, InBlockEnds DEF Phase
  <2>3. Reading
    BY <1>2 DEF InBlock
  <2> QED BY <2>1, <2>2, <2>3 DEF Phase, Reading, Receiver, HeaderTimeout, HeaderEot,
             HeaderBad, HeaderRead, Drain, Reply
<1>3. CASE Draining(n)
  <2>1. CASE Drain
    BY <1>3, <2>1, DrainingEnds DEF Phase
  <2>2. pc = "drain"
    BY <1>3 DEF Draining
  <2> QED BY <2>1, <2>2 DEF Receiver, HeaderTimeout, HeaderEot, HeaderBad,
             HeaderRead, ReadData, CheckSum, Reply
<1>4. CASE Replying(n)
  <2>1. CASE Reply
    BY <1>4, <2>1, ReplyingEnds DEF Phase
  <2>2. pc = "reply"
    BY <1>4 DEF Replying
  <2> QED BY <2>1, <2>2 DEF Receiver, HeaderTimeout, HeaderEot, HeaderBad,
             HeaderRead, ReadData, CheckSum, Drain
<1> QED BY <1>1, <1>2, <1>3, <1>4 DEF Phase

LEMMA NextMild ==
  Typed /\ MildInv /\ [MCNext]_<<vars, faults, harsh>> => Typed' /\ MildInv'
<1> SUFFICES ASSUME Typed, MildInv, [MCNext]_<<vars, faults, harsh>>
             PROVE  Typed' /\ MildInv'
  OBVIOUS
<1>1. Typed'
  BY MCSteps, NextTyped
<1>2. harsh => MildInv'
  BY MCSteps DEF MildInv
<1>3. ASSUME GivenUp PROVE MildInv'
  <2>1. CASE Receiver
    <3>1. pc = "failed" \/ (pc \in {"drain", "reply"} /\ ret = "fatal")
      BY <1>3 DEF GivenUp, Abandoned
    <3>2. Drain \/ Reply
      BY <2>1, <3>1 DEF Receiver, HeaderTimeout, HeaderEot, HeaderBad,
         HeaderRead, ReadData, CheckSum
    <3>3. cap' = cap /\ currOff' = currOff /\ Abandoned'
      BY <3>1, <3>2 DEF Abandoned, Drain, Reply, file, params
    <3>4. GivenUp'
      BY <1>3, <3>3 DEF GivenUp
    <3> QED BY <3>4 DEF MildInv
  <2>2. CASE pc' = pc /\ ret' = ret /\ cap' = cap /\ currOff' = currOff
    BY <1>3, <2>2 DEF GivenUp, Abandoned, MildInv
  <2> QED BY <2>1, <2>2, MCSteps DEF LoseReply, vars, Answer, file, params
<1>4. ASSUME Finished PROVE MildInv'
  <2>1. ~Receiver
    BY <1>4 DEF Finished, Receiver, HeaderTimeout, HeaderEot, HeaderBad,
       HeaderRead, ReadData, CheckSum, Drain, Reply
  <2>2. pc' = pc /\ currOff' = currOff /\ buf' = buf
    BY <2>1, MCSteps DEF LoseReply, vars, Answer, file, params
  <2>3. Finished'
    BY <1>4, <2>2 DEF Finished, Prefix
  <2> QED BY <2>3 DEF MildInv
<1>5. ASSUME NEW n \in 0 .. N, Common(n), Phase(n)
      PROVE  MildInv'
  <2>1. CASE Receiver
    BY <1>5, <2>1, ReceiverMild DEF MildInv
  <2>2. CASE LoseReply
    BY <1>5, <2>2, LostWaits DEF MildInv, Phase
  <2>3. CASE UNCHANGED vars
    <3>1. UNCHANGED <<at, line, replies, pc, cap, buf, blockSz, lastBlock, currOff, pkt, ret>>
      BY <2>3 DEF vars, sender, file, params
    <3>2. \A h \in Hurts : HurtMildly(n, h) => HurtMildly(n, h)'
      BY <3>1 DEF HurtMildly, Size
    <3>3. Common(n)' /\ (Waiting(n) => Waiting(n)')
      BY <1>5, <3>1, <3>2 DEF Common, Prefix, Waiting
    <3>4. InBlock(n) => InBlock(n)'
      BY <3>1, <3>2 DEF InBlock, Reading, Quiet, Prefix, Hurts
    <3>5. (Draining(n) => Draining(n)') /\ (Replying(n) => Replying(n)')
      BY <3>1 DEF Draining, Brief, Replying, Quiet, Size
    <3> QED BY <1>5, <3>3, <3>4, <3>5 DEF MildInv, Phase
  <2>4. ASSUME NEW h \in Hurts, Answer(h), harsh' = (harsh \/ ~Mild(h))
        PROVE  MildInv'
    <3>1. CASE Mild(h)
      BY <1>5, <2>4, <3>1, AnswerWaits DEF MildInv, Phase
    <3>2. CASE ~Mild(h)
      BY <2>4, <3>2 DEF MildInv
    <3> QED BY <3>1, <3>2
  <2> QED BY <2>1, <2>2, <2>3, <2>4, MCSteps
<1> QED BY <1>1, <1>2, <1>3, <1>4, <1>5 DEF MildInv

THEOREM MildInvariance == MCSpec => [](Typed /\ MildInv)
BY InitMild, NextMild, PTL DEF MCSpec

(* Whatever the line does, even where left-over bytes are read as headers  *)
(* and a header announces the wrong size, the values keep their types and  *)
(* a block is never read past the end of the buffer; and while the damage  *)
(* is mild, however often replies are lost and blocks repeated and stepped *)
(* back over, none is read below its beginning (xmodem.c:203-217).         *)
THEOREM TypeCorrect == MCSpec => []MildTypeOK
<1>1. ASSUME Typed, MildInv PROVE MildTypeOK
  <2>1. TypeOK
    BY <1>1 DEF Typed, TypeOK, Reading, Fitting
  <2>2. harsh \/ currOff >= 0
    <3>1. ASSUME NEW n \in 0 .. N, Common(n), Phase(n) PROVE currOff >= 0
      <4>1. n + 1 \in 1 .. N + 1 /\ at \in Nat /\ N \in Nat
        BY <3>1, Sides
      <4>2. InBlock(n) => at \in 1 .. N + 1
        BY <3>1, <4>1 DEF Common, InBlock
      <4> QED BY <3>1, <4>1, <4>2, Offsets DEF Phase, Waiting, InBlock, Draining, Replying
    <3>2. Finished => currOff >= 0
      BY Offsets DEF Finished
    <3> QED BY <1>1, <3>1, <3>2 DEF MildInv, GivenUp
  <2> QED BY <2>1, <2>2 DEF MildTypeOK, InBuffer
<1> QED BY <1>1, MildInvariance, PTL

(* While the damage is mild the receiver gives up no file that fits, not   *)
(* even one that fills the buffer and whose last block is repeated         *)
(* (xmodem.c:203-212).                                                     *)
THEOREM OnlyTooLarge == MCSpec => []MildFails
<1>1. MildInv => MildFails
  BY DEF MildInv, MildFails, FailsOnlyTooLarge, GivenUp, Finished,
     Phase, Waiting, InBlock, Reading, Draining, Replying
<1> QED BY <1>1, MildInvariance, PTL

(* While the damage is mild - packets lost, short ones spoilt in header or *)
(* data, any with a wrong checksum, short ones taken for long ones where   *)
(* that fits - sender and receiver are never more than the block under way *)
(* apart, and what has been acknowledged is in the buffer, in its place    *)
(* (xmodem.c:193-226): for every file, every modulus of the block numbers  *)
(* and any number of faults.                                               *)
THEOREM StaysInStep == MCSpec => []MildInStep
<1>1. ASSUME MildInv PROVE MildInStep
  <2>1. SUFFICES ASSUME ~harsh, pc = "header"
                 PROVE  \E n \in 0 .. N : Stored(n) /\ at \in {n, n + 1}
    BY DEF MildInStep, InStep
  <2>2. PICK n \in 0 .. N : Common(n) /\ Phase(n)
    BY <1>1, <2>1 DEF MildInv, GivenUp, Finished, Abandoned
  <2>3. currOff = Start[n + 1]
    BY <2>1, <2>2 DEF Phase, Waiting, InBlock, Reading, Draining, Replying
  <2> QED BY <2>2, <2>3 DEF Stored, Common, Prefix
<1> QED BY <1>1, MildInvariance, PTL

(* A transfer that mild damage leaves to be ended by EOT has delivered the *)
(* file, all of it and nothing else (xmodem.c:160, 313).                   *)
THEOREM ArrivesIntact == MCSpec => []MildIntact
<1>1. MildInv => MildIntact
  BY DEF MildInv, MildIntact, Intact, GivenUp, Abandoned, Finished, Prefix,
     Phase, Waiting, InBlock, Reading, Draining, Replying
<1> QED BY <1>1, MildInvariance, PTL
=============================================================================
