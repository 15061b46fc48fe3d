------------------------------ MODULE Platform ------------------------------
(***************************************************************************)
(* The machine under LBoot: the processor's mode and interrupt flag, the   *)
(* two 8259 controllers as src/intr/pic.c programs them, the dispatch of   *)
(* interrupts in src/intr/interrupts.c, and the tick counter of            *)
(* src/time/time.c.  The module has the state and its steps; what the main *)
(* context does with them is in BiosDisk.                                  *)
(*                                                                         *)
(* An input is named by its IRQ number.  The controllers are               *)
(* edge-triggered: a rising edge is latched in irr, and a line that stays  *)
(* high is not seen again.  Initialising a controller (ICW1) forgets the   *)
(* latched edges, the requests in service and the masks.                   *)
(***************************************************************************)
EXTENDS Integers

CONSTANTS
  Devices, \* IRQ numbers of the devices that interrupt, beside the timer
  TickMod  \* the tick counter is a number modulo this (2^32 in the code)

Timer == 0
Com1  == 4
Irqs  == Devices \cup {Timer}

ASSUME PlatformAssumption ==
  /\ Devices \subseteq (1 .. 15) \ {2}
  /\ TickMod \in Nat \ {0}

VARIABLES
  mode,    \* "prot" or "real", with the interrupt table that belongs to it
  iflag,   \* IF of EFLAGS
  base,    \* whose vector offsets the controllers use: "bios", "lboot", or
           \* "none" while they are being initialised
  line,    \* devices that hold their line high
  irr,     \* edges latched
  isr,     \* in service; 2 stands for the slave in the master's register
  imr,     \* masks
  handler, \* int_ids with a handler: _isr_handlers
  ticks,   \* _current_ticks
  panicked \* an exception nobody handles

pic == <<base, irr, isr, imr>>
machine == <<mode, iflag, pic, line, handler, ticks, panicked>>

------------------------------------------------------------------------------
(* Lower inputs first; the slave stands where input 2 of the master does.  *)
Master == 0 .. 7
Rank(i) == IF i \in Master THEN 16 * i ELSE 32 + (i - 8)
Foremost(S) == {i \in S : \A j \in S : Rank(i) <= Rank(j)}

Deliverable ==
  Foremost({i \in irr \ imr : \A s \in isr : Rank(i) < Rank(s)})

Bits(i) == IF i \in Master THEN {i} ELSE {2, i}

(* A device whose line has fallen by the time it is acknowledged is        *)
(* reported as input 7 of its controller, with nothing in service there.   *)
Spurious(i) == i # Timer /\ i \notin line
Reported(i) == IF ~Spurious(i) THEN i ELSE IF i \in Master THEN 7 ELSE 15
Taken(i) ==
  IF ~Spurious(i) THEN Bits(i) ELSE IF i \in Master THEN {} ELSE {2}

Vector(i) ==
  IF base = "lboot" THEN 32 + i
  ELSE IF i \in Master THEN 8 + i ELSE 112 + (i - 8)

------------------------------------------------------------------------------
(* pic_eoi: the foremost bit in service of the slave, if the interrupt was *)
(* its, and of the master.                                                 *)
pic_eoi(s, i) ==
  s \ (Foremost(s \cap Master)
         \cup IF i >= 8 THEN Foremost(s \ Master) ELSE {})

(* The handlers registered: the timer's counts, a device's takes away the  *)
(* cause.                                                                  *)
_pit_handler(t) == (t + 1) % TickMod

Handled(v) ==
  IF v \in handler
  THEN /\ ticks' = IF v = 32 + Timer THEN _pit_handler(ticks) ELSE ticks
       /\ line' = line \ {v - 32}
       /\ UNCHANGED panicked
  ELSE panicked' = (v < 32 \/ v >= 48) /\ UNCHANGED <<ticks, line>>

(* interrupt_wrapper, entered through an interrupt gate: the handler if    *)
(* there is one, a panic for an exception without, and the EOI.            *)
Interrupt(i) ==
  /\ iflag /\ mode = "prot" /\ i \in Deliverable
  /\ Handled(Vector(Reported(i)))
  /\ irr' = irr \ {i}
  /\ isr' = IF Vector(Reported(i)) \in 32 .. 47
              THEN pic_eoi(isr \cup Taken(i), Vector(Reported(i)) - 32)
              ELSE isr \cup Taken(i)
  /\ UNCHANGED <<mode, iflag, base, imr, handler>>

(* The BIOS serves an interrupt in real mode: it knows no UART, so the     *)
(* line of a device stays as it is, and it ends the interrupt.             *)
BiosInterrupt(i) ==
  /\ iflag /\ mode = "real" /\ i \in Deliverable
  /\ irr' = irr \ {i}
  /\ UNCHANGED <<mode, iflag, base, isr, imr, line, handler, ticks, panicked>>

------------------------------------------------------------------------------
(* The devices.  A line rises once until it has fallen.                    *)
Tick ==
  /\ irr' = irr \cup {Timer}
  /\ UNCHANGED <<mode, iflag, base, isr, imr, line, handler, ticks, panicked>>

Rise(d) ==
  /\ d \in Devices \ line
  /\ line' = line \cup {d} /\ irr' = irr \cup {d}
  /\ UNCHANGED <<mode, iflag, base, isr, imr, handler, ticks, panicked>>

(* Its cause goes away without the handler, as when the main context       *)
(* writes to the UART what the handler would have sent.                    *)
Fall(d) ==
  /\ d \in line
  /\ line' = line \ {d}
  /\ UNCHANGED <<mode, iflag, pic, handler, ticks, panicked>>

------------------------------------------------------------------------------
(* pic_remap in two steps, between which edges still arrive: the masks are *)
(* read and the controllers initialised, then they get their offsets and   *)
(* their masks back.                                                       *)
Icw1 == base' = "none" /\ irr' = {} /\ isr' = {} /\ imr' = {}

RemapMasked(b, masks) == \* mutant: every mask set
  base' = b /\ imr' = Irqs /\ UNCHANGED <<irr, isr>>

Remap(b, masks) == base' = b /\ imr' = masks /\ UNCHANGED <<irr, isr>>

interrupt_enable(i)   == imr' = imr \ {i} /\ UNCHANGED <<base, irr, isr>>
interrupt_disable(i)  == imr' = imr \cup {i} /\ UNCHANGED <<base, irr, isr>>
interrupt_register(i) == handler' = handler \cup {32 + i}

(* time_offset and time_ispast: a deadline is a tick number.               *)
time_offset(ms) == (ticks + ms) % TickMod

IspastSoon(end) == end <= ticks + 1 \* mutant: one tick early

IspastAt(end) == end = ticks \* mutant: past only at the tick itself

time_ispast(end) == end <= ticks
=============================================================================
