------------------------------ MODULE BiosDisk ------------------------------
(***************************************************************************)
(* The main context on top of Platform: the start of cstart, time_delay    *)
(* (time/time.c), and floppy reads (storage/bios.c) through bios_call      *)
(* (bios/bios.c, bios_asm.s).  A call goes to real mode and back with the  *)
(* controllers initialised twice; interrupts may come at any moment at     *)
(* which the processor takes them.                                         *)
(*                                                                         *)
(* A sector's contents are its number on the disk.  The BIOS is outside:   *)
(* it reads the sector at the cylinder, head and sector it is given, or    *)
(* answers with the carry flag.                                            *)
(***************************************************************************)
EXTENDS Platform

CONSTANTS
  SectorsPerTrack, NHeads, \* the geometry: 18 and 2
  Reads,                   \* reads asked for: [from |-> first sector, n |-> count]
  Delays                   \* arguments of time_delay

ASSUME DiskAssumption ==
  /\ {SectorsPerTrack, NHeads} \subseteq Nat \ {0}
  /\ \A r \in Reads : /\ r \in [from : Nat, n : Nat]
                     /\ r.from + r.n <= 256 * NHeads * SectorsPerTrack
  /\ Delays \subseteq Nat

VARIABLES
  pc,       \* where the main context is
  saved,    \* m_mask and s_mask of pic_remap
  int_en,   \* of bios_call
  after,    \* where bios_call returns to
  end,      \* of time_delay
  want,     \* the read under way: a member of Reads
  pos,      \* sectors read so far
  attempts, \* of _floppy_read_sector
  cf,       \* carry flag of the last call
  buff,     \* position -> the sector it holds, -1 for none
  ret,      \* what _read returned: 0 or -1
  wanted,   \* masks as the program has set them
  wait,     \* of the delay under way: its length,
  elapsed,  \* timer periods that have gone by,
  calm,     \* the counter will not wrap in it,
  paced,    \* and its loop has tested the time in this period
  bad,      \* failed attempts at this sector,
  resets    \* and resets of the drive

calling == <<saved, int_en, after>>
delay == <<end, wait, elapsed, calm>>
reading == <<want, pos, attempts, cf, buff, ret, bad, resets>>
vars == <<machine, pc, calling, wanted, delay, paced, reading>>

(* What the locals are worth outside their functions. *)
NoDelay == end' = 0 /\ wait' = 0 /\ elapsed' = 0 /\ calm' = FALSE
NoRead ==
  /\ want' = [from |-> 0, n |-> 0] /\ pos' = 0 /\ attempts' = 0 /\ cf' = FALSE
  /\ buff' = <<>> /\ ret' = 0 /\ bad' = 0 /\ resets' = 0

Ready == {"idle", "slept", "read"}
Delaying == {"check", "halt", "halted"}

------------------------------------------------------------------------------
(* cstart is entered with interrupts off and the controllers as the BIOS   *)
(* left them.                                                              *)
Init ==
  /\ mode = "prot" /\ iflag = FALSE /\ base = "bios"
  /\ line = {} /\ irr = {} /\ isr = {} /\ imr \in SUBSET Irqs
  /\ handler = {} /\ ticks = 0 /\ panicked = FALSE
  /\ pc = "entry" /\ saved = {} /\ int_en = FALSE /\ after = "idle"
  /\ wanted = imr
  /\ end = 0 /\ wait = 0 /\ elapsed = 0 /\ calm = FALSE /\ paced = TRUE
  /\ want = [from |-> 0, n |-> 0] /\ pos = 0 /\ attempts = 0 /\ cf = FALSE
  /\ buff = <<>> /\ ret = 0 /\ bad = 0 /\ resets = 0

(* interrupts_init, cut inside pic_remap, and time_init; then serial_init  *)
(* as far as its interrupt goes.                                           *)
InitPic ==
  /\ pc = "entry" /\ pc' = "remap"
  /\ saved' = imr /\ Icw1
  /\ UNCHANGED <<mode, iflag, line, handler, ticks, panicked, int_en, after, wanted>>

InitIsr ==
  /\ pc = "remap" /\ pc' = "time"
  /\ Remap("lboot", saved) /\ handler' = {} /\ iflag' = TRUE
  /\ UNCHANGED <<mode, line, ticks, panicked, calling, wanted>>

time_init ==
  /\ pc = "time" /\ pc' = "serial"
  /\ ticks' = 0 /\ interrupt_register(Timer) /\ interrupt_enable(Timer)
  /\ wanted' = wanted \ {Timer}
  /\ UNCHANGED <<mode, iflag, line, panicked, calling>>

SerialInt ==
  /\ pc = "serial" /\ pc' = "idle"
  /\ interrupt_register(Com1) /\ interrupt_enable(Com1)
  /\ wanted' = wanted \ {Com1}
  /\ UNCHANGED <<mode, iflag, line, ticks, panicked, calling>>

Boot == (InitPic \/ InitIsr \/ time_init \/ SerialInt) /\ UNCHANGED <<delay, reading>>

(* A driver masks or unmasks its interrupt. *)
SetMask ==
  /\ pc \in Ready /\ pc' = "idle"
  /\ \/ interrupt_enable(Com1) /\ wanted' = wanted \ {Com1}
     \/ interrupt_disable(Com1) /\ wanted' = wanted \cup {Com1}
  /\ NoDelay /\ NoRead
  /\ UNCHANGED <<mode, iflag, line, handler, ticks, panicked, calling>>

------------------------------------------------------------------------------
(* time_delay: the deadline, then a test and a halt until one is past it.  *)
TimeDelay(ms) ==
  /\ pc \in Ready /\ iflag /\ pc' = "check"
  /\ end' = time_offset(ms) /\ calm' = (ticks + ms + 2 < TickMod)
  /\ wait' = ms /\ elapsed' = 0 /\ NoRead
  /\ UNCHANGED <<machine, calling, wanted>>

IsPast ==
  /\ pc = "check"
  /\ pc' = IF time_ispast(end) THEN "slept" ELSE "halt"
  /\ UNCHANGED <<machine, calling, wanted, delay, reading>>

Hlt ==
  /\ pc = "halt" /\ pc' = "halted"
  /\ UNCHANGED <<machine, calling, wanted, delay, reading>>

------------------------------------------------------------------------------
(* _read: one sector after another. *)
Read(r) ==
  /\ pc \in Ready /\ pc' = "sector"
  /\ want' = r /\ pos' = 0 /\ buff' = [p \in 0 .. r.n - 1 |-> -1]
  /\ UNCHANGED <<attempts, cf, ret, bad, resets>>
  /\ NoDelay
  /\ UNCHANGED <<machine, calling, wanted>>

Sector ==
  /\ pc = "sector"
  /\ IF pos < want.n
       THEN pc' = "try" /\ attempts' = 4 /\ bad' = 0 /\ resets' = 0 /\ UNCHANGED ret
       ELSE pc' = "read" /\ ret' = 0 /\ UNCHANGED <<attempts, bad, resets>>
  /\ UNCHANGED <<machine, calling, wanted, delay, want, pos, cf, buff>>

(* while(--attempts) *)
Try ==
  /\ pc = "try" /\ attempts' = attempts - 1
  /\ IF attempts' = 0 THEN pc' = "read" /\ ret' = -1 /\ UNCHANGED after
     ELSE pc' = "call" /\ after' = "answer" /\ UNCHANGED ret
  /\ UNCHANGED <<machine, saved, int_en, wanted, delay, want, pos, cf, buff, bad, resets>>

(* The answer: the next sector, or _floppy_reset and another try. *)
AnswerNoReset == \* mutant: tried again without a reset
  /\ pc = "answer"
  /\ IF cf THEN pc' = "try" /\ UNCHANGED <<after, pos>>
     ELSE pc' = "sector" /\ pos' = pos + 1 /\ UNCHANGED after
  /\ UNCHANGED <<machine, saved, int_en, wanted, delay, want, attempts, cf, buff, ret, bad, resets>>

Answer ==
  /\ pc = "answer"
  /\ IF cf THEN pc' = "call" /\ after' = "try" /\ UNCHANGED pos
     ELSE pc' = "sector" /\ pos' = pos + 1 /\ UNCHANGED after
  /\ UNCHANGED <<machine, saved, int_en, wanted, delay, want, attempts, cf, buff, ret, bad, resets>>

------------------------------------------------------------------------------
(* The parameters of the call: cylinder, head and sector from the offset,  *)
(* with the cylinder in a byte.                                            *)
Chs(off) ==
  LET track == off \div SectorsPerTrack
  IN  [c |-> (track \div NHeads) % 256, h |-> track % NHeads,
       s |-> (off % SectorsPerTrack) + 1]

(* What the BIOS makes of them. *)
Linear(x) == (x.c * NHeads + x.h) * SectorsPerTrack + x.s - 1

(* bios_call up to the second half of its first pic_remap. *)
CallNoCli == \* mutant: interrupts are left as they are
  /\ pc = "call" /\ pc' = "enter"
  /\ int_en' = iflag /\ UNCHANGED iflag
  /\ saved' = imr /\ Icw1
  /\ UNCHANGED <<mode, line, handler, ticks, panicked, after, wanted, delay, reading>>

Call ==
  /\ pc = "call" /\ pc' = "enter"
  /\ int_en' = iflag /\ iflag' = FALSE
  /\ saved' = imr /\ Icw1
  /\ UNCHANGED <<mode, line, handler, ticks, panicked, after, wanted, delay, reading>>

(* Its second half, and bios_call_asm as far as the INT instruction. *)
Enter ==
  /\ pc = "enter" /\ pc' = "bios"
  /\ Remap("bios", saved) /\ mode' = "real" /\ iflag' = TRUE /\ saved' = {}
  /\ UNCHANGED <<line, handler, ticks, panicked, int_en, after, wanted, delay, reading>>

(* The BIOS has done what was asked: a reset, or a read of one sector. *)
Done(fails) ==
  IF after = "answer"
  THEN /\ bad' = IF fails THEN bad + 1 ELSE bad
       /\ buff' = IF fails THEN buff
                  ELSE [buff EXCEPT ![pos] = Linear(Chs(want.from + pos))]
       /\ UNCHANGED resets
  ELSE resets' = resets + 1 /\ UNCHANGED <<bad, buff>>

(* Back in protected mode, up to the middle of the second pic_remap. *)
Leave(fails) ==
  /\ pc = "bios" /\ pc' = "exit"
  /\ cf' = fails /\ Done(fails)
  /\ iflag' = FALSE /\ mode' = "prot"
  /\ saved' = imr /\ Icw1
  /\ UNCHANGED <<line, handler, ticks, panicked, int_en, after, wanted, delay>>
  /\ UNCHANGED <<want, pos, attempts, ret>>

Exit ==
  /\ pc = "exit" /\ pc' = after
  /\ Remap("lboot", saved) /\ iflag' = int_en /\ saved' = {}
  /\ UNCHANGED <<mode, line, handler, ticks, panicked, int_en, after, wanted, delay, reading>>

bios_call == Call \/ Enter \/ Exit

------------------------------------------------------------------------------
(* Interrupts and devices.  A period of the timer is thousands of          *)
(* instructions, and the loop of time_delay is a few: unless it is halted, *)
(* it tests the time in each.                                              *)
Wake == pc' = IF pc = "halted" THEN "check" ELSE pc

Handler ==
  /\ \E i \in Irqs : Interrupt(i)
  /\ Wake
  /\ UNCHANGED <<calling, wanted, delay, paced, reading>>

BiosHandler ==
  /\ \E i \in Irqs : BiosInterrupt(i)
  /\ UNCHANGED <<pc, calling, wanted, delay, paced, reading>>

Period ==
  /\ pc \in {"check", "halt"} => paced
  /\ Tick /\ paced' = (pc \notin Delaying)
  /\ elapsed' = IF pc \in Delaying /\ elapsed < wait THEN elapsed + 1 ELSE elapsed
  /\ UNCHANGED <<pc, calling, wanted, end, wait, calm, reading>>

Device ==
  /\ \E d \in Devices : Rise(d) \/ Fall(d)
  /\ UNCHANGED <<pc, calling, wanted, delay, paced, reading>>

(* What the main context does of itself, and what it is asked to do. *)
Step ==
  /\ Boot \/ IsPast \/ Hlt \/ Sector \/ Try \/ Answer \/ bios_call
  /\ paced' = (paced \/ pc = "check")

Bios == (\E fails \in BOOLEAN : Leave(fails)) /\ UNCHANGED paced

Ask ==
  /\ \/ SetMask
     \/ \E ms \in Delays : TimeDelay(ms)
     \/ \E r \in Reads : Read(r)
  /\ paced' = TRUE

Next == ~panicked /\ (Step \/ Bios \/ Ask \/ Handler \/ BiosHandler \/ Period \/ Device)

Fairness ==
  /\ WF_vars(~panicked /\ Step)
  /\ WF_vars(~panicked /\ Bios)
  /\ WF_vars(~panicked /\ Handler)
  /\ WF_vars(~panicked /\ Period)

Spec == Init /\ [][Next]_vars
FairSpec == Spec /\ Fairness

------------------------------------------------------------------------------
(* bios.c:8-20, bios_asm.s:66-117: whenever the processor takes            *)
(* interrupts, the controllers' offsets belong to the table it uses, so    *)
(* that no interrupt is taken for an exception or for another device's,    *)
(* and none is left in service to hold back the others.                    *)
RightVector ==
  /\ iflag => base = (IF mode = "real" THEN "bios" ELSE "lboot") /\ isr = {}
  /\ ~panicked

(* bios.c:7-21, pic.c:5-24: the caller of a BIOS call finds the machine as *)
(* it was, interrupts on and each masked or not as the program set it,     *)
(* whatever came in meanwhile.                                             *)
CallTransparent ==
  pc \in Ready \cup Delaying \cup {"sector", "try", "answer"} =>
    mode = "prot" /\ base = "lboot" /\ iflag /\ imr = wanted

(* time.c:33-55: a delay is never short by more than the period it began   *)
(* in, unless its deadline lies beyond the wrap of the counter.            *)
NeverEarly == pc = "slept" /\ calm => elapsed >= wait - 1

(* storage/bios.c:48-146: a read that succeeds has every sector asked for  *)
(* in its place, one that fails has failed three times at a sector, and    *)
(* before each attempt but the first the drive was reset once.             *)
ReadOutcome ==
  /\ pc = "read" => IF ret = 0 THEN \A p \in 0 .. want.n - 1 : buff[p] = want.from + p
                    ELSE pos < want.n /\ bad = 3
  /\ pc = "bios" /\ after = "answer" => bad = resets

(* time.c:45-55, storage/bios.c:67-89: a delay and a read end, whatever    *)
(* the devices do and however often the medium fails.                      *)
OpReturns == pc = "sector" \/ (pc = "check" /\ calm) ~> pc \in Ready
=============================================================================
