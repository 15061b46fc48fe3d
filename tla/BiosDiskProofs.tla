--------------------------- MODULE BiosDiskProofs ---------------------------
(***************************************************************************)
(* Proofs about interrupts and BIOS calls, for every set of devices, width *)
(* of the tick counter, geometry and choice of reads and delays.           *)
(***************************************************************************)
EXTENDS BiosDisk, TLAPS

USE PlatformAssumption

------------------------------------------------------------------------------
(* The inductive invariant: who owns the machine at each place of the main *)
(* context.  It says more than the properties do of the moments at which   *)
(* the processor takes no interrupts, when the masks are in `saved' only.  *)
Running == Ready \cup Delaying \cup {"time", "serial", "sector", "try", "answer", "call"}
Between == {"remap", "enter", "exit"}
InCall  == {"enter", "bios", "exit"}

Machine(m, i, b) == mode = m /\ iflag = i /\ base = b

Owned ==
  /\ pc \in Running \cup Between \cup {"entry", "bios"}
  /\ pc = "entry" => Machine("prot", FALSE, "bios") /\ imr = wanted
  /\ pc \in Running => Machine("prot", TRUE, "lboot") /\ imr = wanted
  /\ pc \in Between => Machine("prot", FALSE, "none") /\ saved = wanted
  /\ pc = "bios" => Machine("real", TRUE, "bios") /\ imr = wanted
  /\ pc \in InCall => int_en = TRUE
  /\ pc \in InCall \cup {"call"} => after \in {"answer", "try"}

Quiet == isr = {} /\ panicked = FALSE /\ irr \subseteq Irqs

IInv == Owned /\ Quiet

USE DEF Running, Between, InCall, Machine, Ready, Delaying

LEMMA InitIInv == Init => IInv
BY DEF Init, IInv, Owned, Quiet, Irqs

------------------------------------------------------------------------------
(* The dispatch of an interrupt with nothing in service before. *)

(* The end of interrupt takes back all that was put in service. *)
LEMMA EoiClears ==
  ASSUME NEW i \in Irqs
  PROVE  pic_eoi({} \cup Taken(i), Reported(i)) = {}
<1>0. Irqs \subseteq 0 .. 15 /\ 2 \notin Irqs
  BY DEF Irqs, Timer
<1>1. CASE Spurious(i)
  BY <1>0, <1>1 DEF pic_eoi, Taken, Reported, Foremost, Rank, Master
<1>2. CASE ~Spurious(i)
  BY <1>0, <1>2 DEF pic_eoi, Taken, Reported, Foremost, Rank, Master, Bits
<1> QED BY <1>1, <1>2

(* With LBoot's offsets every input has a vector of its own, and none that *)
(* belongs to an exception.                                                *)
LEMMA VectorInRange ==
  ASSUME NEW i \in Irqs, base = "lboot"
  PROVE  /\ Reported(i) \in 0 .. 15
         /\ Vector(Reported(i)) = 32 + Reported(i)
         /\ Vector(Reported(i)) \in 32 .. 47
<1>1. Reported(i) \in 0 .. 15
  BY DEF Irqs, Timer, Reported
<1> QED BY <1>1 DEF Vector

LEMMA InterruptQuiet ==
  ASSUME NEW i \in Irqs, Interrupt(i), Quiet, base = "lboot"
  PROVE  Quiet'
<1>1. Vector(Reported(i)) - 32 = Reported(i) /\ Vector(Reported(i)) \in 32 .. 47
  BY VectorInRange
<1>2. isr' = {}
  BY <1>1, EoiClears DEF Interrupt, Quiet
<1>3. panicked' = FALSE
  <2> DEFINE v == Vector(Reported(i))
  <2>1. Handled(v)
    BY DEF Interrupt
  <2>2. ~(v < 32 \/ v >= 48)
    BY <1>1
  <2>3. panicked' = panicked \/ panicked' = (v < 32 \/ v >= 48)
    BY <2>1 DEF Handled
  <2> HIDE DEF v
  <2> QED BY <2>2, <2>3, Zenon DEF Quiet
<1> QED BY <1>2, <1>3 DEF Interrupt, Quiet

------------------------------------------------------------------------------
(* The steps. *)
LEMMA HandlerStep ==
  ASSUME IInv, Handler PROVE IInv'
<1>1. PICK i \in Irqs : Interrupt(i)
  BY DEF Handler
<1>2. base = "lboot" /\ pc \in Running
  BY <1>1 DEF IInv, Owned, Interrupt
<1>3. Quiet'
  BY <1>1, <1>2, InterruptQuiet DEF IInv
<1>4. Owned'
  BY <1>1, <1>2 DEF Handler, Wake, Interrupt, IInv, Owned, calling
<1> QED BY <1>3, <1>4 DEF IInv

LEMMA BiosHandlerStep ==
  ASSUME IInv, BiosHandler PROVE IInv'
BY DEF IInv, Owned, Quiet, BiosHandler, BiosInterrupt, calling

LEMMA DeviceStep ==
  ASSUME IInv, Period \/ Device PROVE IInv'
BY ZenonT(60) DEF IInv, Owned, Quiet, Period, Device, Tick, Rise, Fall, Irqs, pic, calling

LEMMA BootStep ==
  ASSUME IInv, Boot PROVE IInv'
BY DEF IInv, Owned, Quiet, Boot, InitPic, InitIsr, time_init, SerialInt, Icw1, Remap,
       interrupt_register, interrupt_enable, calling, Irqs

LEMMA CallStep ==
  ASSUME IInv, bios_call \/ Bios PROVE IInv'
BY DEF IInv, Owned, Quiet, bios_call, Bios, Call, Enter, Exit, Leave, Icw1, Remap, Irqs

LEMMA ReadStep ==
  ASSUME IInv, Sector \/ Try \/ Answer \/ IsPast \/ Hlt PROVE IInv'
BY DEF IInv, Owned, Quiet, Sector, Try, Answer, IsPast, Hlt, machine, pic, calling

LEMMA AskStep ==
  ASSUME IInv, Ask PROVE IInv'
BY DEF IInv, Owned, Quiet, Ask, SetMask, TimeDelay, Read, interrupt_enable,
       interrupt_disable, machine, pic, calling, Com1

LEMMA NextIInv == IInv /\ [Next]_vars => IInv'
<1> SUFFICES ASSUME IInv, [Next]_vars PROVE IInv'
  OBVIOUS
<1>1. CASE Step
  BY <1>1, BootStep, CallStep, ReadStep DEF Step
<1>2. CASE Bios \/ Ask \/ Handler \/ BiosHandler \/ Period \/ Device
  BY <1>2, CallStep, AskStep, HandlerStep, BiosHandlerStep, DeviceStep
<1>3. CASE UNCHANGED vars
  BY <1>3 DEF IInv, Owned, Quiet, vars, machine, pic, calling
<1> QED BY <1>1, <1>2, <1>3 DEF Next

THEOREM Invariant == Spec => []IInv
<1> QED BY InitIInv, NextIInv, PTL DEF Spec

------------------------------------------------------------------------------
(* For every set of devices: whenever interrupts are on, the controllers'  *)
(* offsets are those of the interrupt table in use, nothing is left in     *)
(* service, and no interrupt was ever taken for an exception (bios.c:8-20, *)
(* interrupts.c:80-119).                                                   *)
THEOREM AlwaysRightVector == Spec => []RightVector
<1>1. IInv => RightVector
  BY DEF IInv, Owned, Quiet, RightVector
<1> QED BY <1>1, Invariant, PTL

(* Whatever the devices do during it, a BIOS call returns to a machine     *)
(* with the masks the program had set and with interrupts on               *)
(* (bios.c:7-21, pic.c:5-24).                                              *)
THEOREM CallsTransparent == Spec => []CallTransparent
<1>1. IInv => CallTransparent
  BY DEF IInv, Owned, CallTransparent
<1> QED BY <1>1, Invariant, PTL

------------------------------------------------------------------------------
(* Reads.  Cylinder, head and sector name the block they are made from, as *)
(* long as the cylinder fits its byte.                                     *)
LEMMA Division ==
  ASSUME NEW a \in Nat, NEW b \in Nat \ {0}
  PROVE  /\ a = (a \div b) * b + (a % b)
         /\ a \div b \in Nat /\ a % b \in 0 .. b - 1
OBVIOUS

LEMMA QuotientBelow ==
  ASSUME NEW a \in Nat, NEW b \in Nat \ {0}, NEW c \in Nat, a < c * b
  PROVE  a \div b < c
BY Division

LEMMA ChsExact ==
  ASSUME NEW off \in Nat, off < 256 * NHeads * SectorsPerTrack
  PROVE  Linear(Chs(off)) = off
<1> DEFINE track == off \div SectorsPerTrack
           rest == off % SectorsPerTrack
           cyl == track \div NHeads
           head == track % NHeads
<1>1. SectorsPerTrack \in Nat \ {0} /\ NHeads \in Nat \ {0}
  BY DiskAssumption
<1>2. Linear(Chs(off)) = ((cyl % 256) * NHeads + head) * SectorsPerTrack + (rest + 1) - 1
  BY DEF Linear, Chs
<1>3. off = track * SectorsPerTrack + rest /\ track \in Nat /\ rest \in Nat
  BY <1>1, Division
<1>4. track < 256 * NHeads
  BY <1>1, QuotientBelow, 256 * NHeads \in Nat
<1>5. track \in Nat
  BY <1>3
<1> HIDE DEF track, rest
<1>6. track = cyl * NHeads + head /\ cyl \in Nat /\ head \in Nat
  BY <1>1, <1>5, Division
<1>7. cyl < 256
  BY <1>1, <1>4, <1>5, QuotientBelow
<1> HIDE DEF cyl, head
<1>8. cyl % 256 = cyl
  BY <1>6, <1>7
<1>9. Linear(Chs(off)) = track * SectorsPerTrack + (rest + 1) - 1
  BY <1>2, <1>6, <1>8
<1>10. track * SectorsPerTrack \in Nat
  BY <1>1, <1>5
<1> QED BY <1>3, <1>9, <1>10

(* The counts of attempts, failures and resets go together at each place   *)
(* of _floppy_read_sector, and the sectors before pos have been read.      *)
Sectors ==
  \A p \in 0 .. pos - 1 : buff[p] = want.from + p

Counts(a, r, lo, hi) == attempts = a /\ resets = r /\ bad \in lo .. hi

Under == {"sector", "try", "answer", "call", "enter", "bios", "exit"}

Asked(a) == after = a /\ pc \in {"call", "enter", "bios"}
Back(a)  == after = a /\ pc = "exit"

ReadInv ==
  /\ pc \in Under => /\ want \in Reads /\ pos \in Nat /\ pos <= want.n
                     /\ DOMAIN buff = 0 .. want.n - 1 /\ Sectors
  /\ pc \in Under \ {"sector"} => pos < want.n
  /\ pc = "try" => Counts(4 - bad, bad, 0, 3)
  /\ Asked("answer") => Counts(3 - bad, bad, 0, 2)
  /\ Back("answer") \/ pc = "answer" =>
       /\ cf \in BOOLEAN
       /\ cf => Counts(4 - bad, bad - 1, 1, 3)
       /\ ~cf => Counts(3 - bad, bad, 0, 2) /\ buff[pos] = want.from + pos
  /\ Asked("try") => Counts(4 - bad, bad - 1, 1, 3)
  /\ Back("try") => Counts(4 - bad, bad, 1, 3)
  /\ pc = "read" => IF ret = 0 THEN pos = want.n /\ pos \in Nat /\ Sectors
                    ELSE pos < want.n /\ bad = 3

LEMMA InitReadInv == Init => ReadInv
BY DEF Init, ReadInv, Under, Asked, Back

USE DEF Under, Asked, Back, Counts

LEMMA ReadElsewhere ==
  ASSUME IInv, ReadInv,
         \/ UNCHANGED vars
         \/ Handler \/ BiosHandler \/ Period \/ Device
         \/ Boot \/ IsPast \/ Hlt \/ SetMask \/ \E ms \in Delays : TimeDelay(ms)
  PROVE  ReadInv'
<1>1. CASE UNCHANGED vars
  BY <1>1 DEF ReadInv, Sectors, vars, calling, reading
<1>2. CASE BiosHandler \/ Period \/ Device
  BY <1>2 DEF ReadInv, Sectors, BiosHandler, Period, Device, calling, reading
<1>3. CASE Handler
  BY <1>3 DEF ReadInv, Sectors, Handler, Wake, calling, reading
<1>4. CASE Boot
  BY <1>4 DEF ReadInv, Sectors, Boot, InitPic, InitIsr, time_init, SerialInt, reading
<1>5. CASE IsPast \/ Hlt
  BY <1>5 DEF ReadInv, Sectors, IsPast, Hlt, calling, reading
<1>6. CASE SetMask \/ \E ms \in Delays : TimeDelay(ms)
  BY <1>6 DEF ReadInv, SetMask, TimeDelay
<1> QED BY <1>1, <1>2, <1>3, <1>4, <1>5, <1>6

LEMMA ReadBegins ==
  ASSUME NEW r \in Reads, Read(r)
  PROVE  ReadInv'
<1>1. r.n \in Nat
  BY DiskAssumption
<1> QED BY <1>1 DEF Read, ReadInv, Sectors

LEMMA ReadLoop ==
  ASSUME IInv, ReadInv, Sector \/ Try \/ Answer
  PROVE  ReadInv'
<1>0. want \in Reads => want.n \in Nat /\ want.from \in Nat
  BY DiskAssumption
<1>1. CASE Sector
  BY <1>0, <1>1 DEF ReadInv, Sectors, Sector
<1>2. CASE Try
  BY <1>0, <1>2 DEF ReadInv, Sectors, Try
<1>3. CASE Answer
  BY <1>0, <1>3 DEF ReadInv, Sectors, Answer
<1> QED BY <1>1, <1>2, <1>3

LEMMA ReadCall ==
  ASSUME IInv, ReadInv, bios_call \/ Bios
  PROVE  ReadInv'
<1>0. pc \in Under => want.n \in Nat /\ want.from \in Nat /\ pos \in Nat
  BY DiskAssumption DEF ReadInv
<1>1. CASE Call \/ Enter
  BY <1>0, <1>1 DEF ReadInv, Sectors, Call, Enter, reading, IInv, Owned
<1>2. CASE Exit
  BY <1>0, <1>2 DEF ReadInv, Sectors, Exit, reading, IInv, Owned
<1>3. ASSUME NEW fails \in BOOLEAN, Leave(fails) PROVE ReadInv'
  <2>1. /\ pc = "bios" /\ pc' = "exit" /\ cf' = fails /\ after' = after
        /\ want' = want /\ pos' = pos /\ attempts' = attempts /\ ret' = ret
        /\ after \in {"answer", "try"}
    BY <1>3 DEF Leave, IInv, Owned
  <2>2. CASE after = "answer" /\ fails
    BY <1>0, <1>3, <2>1, <2>2 DEF ReadInv, Sectors, Leave, Done
  <2>3. CASE after = "answer" /\ ~fails
    <3>1. /\ want.from + pos \in Nat
          /\ want.from + pos < 256 * NHeads * SectorsPerTrack
      BY <1>0, <2>1, DiskAssumption, SMTT(60) DEF ReadInv
    <3>2. buff' = [buff EXCEPT ![pos] = want.from + pos]
      BY <1>3, <2>3, <3>1, ChsExact DEF Leave, Done
    <3>3. bad' = bad /\ resets' = resets
      BY <1>3, <2>3 DEF Leave, Done
    <3>4. pos \in DOMAIN buff /\ DOMAIN buff = 0 .. want.n - 1
      BY <1>0, <2>1 DEF ReadInv
    <3>5. Sectors' /\ buff'[pos] = want.from + pos /\ DOMAIN buff' = DOMAIN buff
      BY <1>0, <2>1, <3>2, <3>4 DEF ReadInv, Sectors
    <3> QED BY <1>0, <2>1, <2>3, <3>3, <3>4, <3>5 DEF ReadInv
  <2>4. CASE after = "try"
    BY <1>0, <1>3, <2>1, <2>4 DEF ReadInv, Sectors, Leave, Done
  <2> QED BY <2>1, <2>2, <2>3, <2>4
<1> QED BY <1>1, <1>2, <1>3 DEF bios_call, Bios

LEMMA NextReadInv == IInv /\ ReadInv /\ [Next]_vars => ReadInv'
<1> SUFFICES ASSUME IInv, ReadInv, [Next]_vars PROVE ReadInv'
  OBVIOUS
<1>1. CASE Step
  BY <1>1, ReadElsewhere, ReadLoop, ReadCall DEF Step
<1>2. CASE Ask
  BY <1>2, ReadElsewhere, ReadBegins DEF Ask
<1>3. CASE Bios \/ Handler \/ BiosHandler \/ Period \/ Device \/ UNCHANGED vars
  BY <1>3, ReadElsewhere, ReadCall
<1> QED BY <1>1, <1>2, <1>3 DEF Next

(* For every geometry and every read within 256 cylinders: a read that     *)
(* succeeds delivers the sectors asked for, each in its place; one that    *)
(* fails has failed three times at a sector; and a sector is tried again   *)
(* only after a reset (storage/bios.c:48-146).                             *)
THEOREM ReadsRight == Spec => []ReadOutcome
<1>1. ReadInv => ReadOutcome
  <2> SUFFICES ASSUME ReadInv PROVE ReadOutcome
    OBVIOUS
  <2>1. CASE pc = "read"
    BY <2>1 DEF ReadInv, ReadOutcome, Sectors
  <2>2. CASE pc # "read"
    BY <2>2 DEF ReadInv, ReadOutcome
  <2> QED BY <2>1, <2>2
<1>2. Spec => []ReadInv
  BY InitReadInv, NextReadInv, Invariant, PTL DEF Spec
<1> QED BY <1>1, <1>2, PTL

------------------------------------------------------------------------------
(* Delays.  While a period is yet to go by, the ticks counted since the    *)
(* deadline was set, and one that waits to be, are at most one more than   *)
(* the periods that have: that one was waiting at the beginning.           *)
Pending == IF Timer \in irr THEN 1 ELSE 0

DelayInv ==
  /\ ticks \in Nat /\ end \in Nat /\ wait \in Nat /\ elapsed \in Nat
  /\ pc \in Delaying /\ calm /\ elapsed < wait =>
       ticks + wait + Pending <= end + elapsed + 1 /\ end + 2 < TickMod
  /\ NeverEarly

LEMMA InitDelayInv == Init => DelayInv
BY DEF Init, DelayInv, NeverEarly

(* Only the timer's interrupt counts, and it takes its edge with it. *)
LEMMA InterruptTicks ==
  ASSUME NEW i \in Irqs, Interrupt(i), base = "lboot", ticks \in Nat
  PROVE  /\ irr' \subseteq irr
         /\ \/ ticks' = ticks
            \/ ticks' = (ticks + 1) % TickMod /\ Timer \in irr /\ Timer \notin irr'
<1>1. Vector(Reported(i)) = 32 + Reported(i) /\ Reported(i) \in 0 .. 15
  BY VectorInRange
<1>2. irr' = irr \ {i} /\ i \in irr
  BY DEF Interrupt, Deliverable, Foremost
<1>3. \/ ticks' = ticks
      \/ ticks' = (ticks + 1) % TickMod /\ Reported(i) = 0
  BY <1>1 DEF Interrupt, Handled, _pit_handler, Timer
<1>4. Reported(i) = 0 => i = Timer
  BY DEF Reported, Timer
<1> QED BY <1>2, <1>3, <1>4

(* A number is its own remainder when it is below the modulus.             *)
LEMMA SmallMod ==
  ASSUME NEW n \in Nat, n < TickMod
  PROVE  n % TickMod = n
BY PlatformAssumption

LEMMA DelayHandler ==
  ASSUME IInv, DelayInv, Handler
  PROVE  DelayInv'
<1>1. PICK i \in Irqs : Interrupt(i)
  BY DEF Handler
<1>2. base = "lboot"
  BY <1>1 DEF IInv, Owned, Interrupt
<1>3. /\ irr' \subseteq irr
      /\ \/ ticks' = ticks
         \/ ticks' = (ticks + 1) % TickMod /\ Timer \in irr /\ Timer \notin irr'
  BY <1>1, <1>2, InterruptTicks DEF DelayInv
<1>4. ticks' \in Nat
  BY <1>3 DEF DelayInv
<1>5. /\ UNCHANGED <<end, wait, elapsed, calm>>
      /\ pc' \in Delaying <=> pc \in Delaying
      /\ pc' = "slept" <=> pc = "slept"
  BY DEF Handler, Wake, delay, Delaying
<1>6. ASSUME pc \in Delaying, calm, elapsed < wait
      PROVE  ticks' + wait + Pending' <= end + elapsed + 1 /\ end + 2 < TickMod
  <2>1. CASE ticks' = ticks
    BY <1>3, <1>6, <2>1 DEF DelayInv, Pending
  <2>2. CASE ticks' = (ticks + 1) % TickMod /\ Timer \in irr /\ Timer \notin irr'
    <3>1. ticks + wait + 1 <= end + elapsed + 1 /\ end + 2 < TickMod /\ Pending' = 0
      BY <1>6, <2>2 DEF DelayInv, Pending
    <3>2. ticks + 1 \in Nat /\ ticks + 1 < TickMod
      BY <1>6, <3>1 DEF DelayInv
    <3>3. (ticks + 1) % TickMod = ticks + 1
      BY <3>2, SmallMod
    <3>4. ticks' = ticks + 1
      BY <2>2, <3>3
    <3> QED BY <3>1, <3>4 DEF DelayInv
  <2> QED BY <1>3, <2>1, <2>2
<1> QED BY <1>4, <1>5, <1>6 DEF DelayInv, NeverEarly, delay

LEMMA DelayPeriod ==
  ASSUME IInv, DelayInv, Period
  PROVE  DelayInv'
<1>1. /\ UNCHANGED <<pc, ticks, end, wait, calm>>
      /\ irr' = irr \cup {Timer}
      /\ elapsed' = IF pc \in Delaying /\ elapsed < wait THEN elapsed + 1 ELSE elapsed
  BY DEF Period, Tick
<1> QED BY <1>1 DEF DelayInv, NeverEarly, Pending

LEMMA DelayBegins ==
  ASSUME IInv, DelayInv, NEW ms \in Delays, TimeDelay(ms)
  PROVE  DelayInv'
<1>1. ms \in Nat /\ ticks \in Nat
  BY DiskAssumption DEF DelayInv
<1>2. /\ ticks' = ticks /\ irr' = irr /\ pc' = "check"
      /\ end' = (ticks + ms) % TickMod /\ calm' = (ticks + ms + 2 < TickMod)
      /\ wait' = ms /\ elapsed' = 0
  BY DEF TimeDelay, time_offset, machine, pic
<1>3. (ticks + ms) % TickMod \in Nat
  BY <1>1
<1>4. ticks + ms + 2 < TickMod => (ticks + ms) % TickMod = ticks + ms
  BY <1>1
<1>5. calm' => end' = ticks + ms /\ end' + 2 < TickMod
  BY <1>1, <1>2, <1>4
<1> QED BY <1>1, <1>2, <1>3, <1>5 DEF DelayInv, NeverEarly, Pending

LEMMA DelayTest ==
  ASSUME IInv, DelayInv, IsPast \/ Hlt
  PROVE  DelayInv'
BY DEF DelayInv, NeverEarly, Pending, IsPast, Hlt, time_ispast, machine, pic, delay

(* The other steps leave a delay alone, or there is none. *)
LEMMA DelayElsewhere ==
  ASSUME IInv, DelayInv,
         \/ UNCHANGED vars \/ BiosHandler \/ Device \/ Boot \/ bios_call \/ Bios
         \/ Sector \/ Try \/ Answer \/ SetMask \/ \E r \in Reads : Read(r)
  PROVE  DelayInv'
<1>1. CASE UNCHANGED vars
  BY <1>1 DEF DelayInv, NeverEarly, Pending, vars, machine, pic, delay
<1>2. CASE BiosHandler
  <2>1. pc = "bios"
    BY <1>2 DEF BiosHandler, BiosInterrupt, IInv, Owned
  <2> QED BY <1>2, <2>1 DEF DelayInv, NeverEarly, BiosHandler, BiosInterrupt, delay
<1>3. CASE Device
  <2>1. UNCHANGED <<pc, ticks, end, wait, calm, elapsed>>
    BY <1>3 DEF Device, Rise, Fall, delay
  <2>2. Timer \in irr' <=> Timer \in irr
    BY <1>3 DEF Device, Rise, Fall, pic, Timer
  <2> QED BY <2>1, <2>2 DEF DelayInv, NeverEarly, Pending
<1>4. CASE Boot
  BY <1>4 DEF DelayInv, NeverEarly, Boot, InitPic, InitIsr, time_init, SerialInt, delay
<1>5. CASE bios_call \/ Bios
  BY <1>5 DEF DelayInv, NeverEarly, bios_call, Bios, Call, Enter, Exit, Leave, delay,
              IInv, Owned
<1>6. CASE Sector \/ Try \/ Answer
  BY <1>6 DEF DelayInv, NeverEarly, Sector, Try, Answer, machine, delay
<1>7. CASE SetMask \/ \E r \in Reads : Read(r)
  BY <1>7 DEF DelayInv, NeverEarly, SetMask, Read, NoDelay, machine
<1> QED BY <1>1, <1>2, <1>3, <1>4, <1>5, <1>6, <1>7

LEMMA NextDelayInv == IInv /\ DelayInv /\ [Next]_vars => DelayInv'
<1> SUFFICES ASSUME IInv, DelayInv, [Next]_vars PROVE DelayInv'
  OBVIOUS
<1>1. CASE Step
  BY <1>1, DelayTest, DelayElsewhere DEF Step
<1>2. CASE Ask
  BY <1>2, DelayBegins, DelayElsewhere DEF Ask
<1>3. CASE Handler \/ Period
  BY <1>3, DelayHandler, DelayPeriod
<1>4. CASE Bios \/ BiosHandler \/ Device \/ UNCHANGED vars
  BY <1>4, DelayElsewhere
<1> QED BY <1>1, <1>2, <1>3, <1>4 DEF Next

(* For every width of the counter and every delay: unless the counter      *)
(* wraps before its deadline, time_delay returns at most one period early  *)
(* (time.c:33-55), whatever interrupts are late or held back.              *)
THEOREM DelaysLongEnough == Spec => []NeverEarly
<1>1. DelayInv => NeverEarly
  BY DEF DelayInv
<1>2. Spec => []DelayInv
  BY InitDelayInv, NextDelayInv, Invariant, PTL DEF Spec
<1> QED BY <1>1, <1>2, PTL
=============================================================================
