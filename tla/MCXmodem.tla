------------------------------ MODULE MCXmodem ------------------------------
(***************************************************************************)
(* A file of four blocks, one of 1024 bytes and three of 128, block        *)
(* numbers modulo 3 so that they wrap, a line of 115200 baud, and a        *)
(* bounded number of faults, in every order, none after a harsh one.       *)
(***************************************************************************)
EXTENDS Xmodem

CONSTANTS
  Kinds,      \* what the line may do to a packet in this run
  MaxFaults,  \* bound: packets damaged or lost and replies lost
  MaxQueue    \* bound: packets, and replies, under way at once

ASSUME KindsAssumption == Kinds \subseteq Hurts

VARIABLES
  faults,  \* packets damaged or lost and replies lost so far
  harsh    \* damage has been done that the receiver does not recover from

MCStart == <<0, 8, 9, 10, 11>>

(* The damage the receiver recovers from.  Of a spoilt packet the rest     *)
(* must be gone with the drain, which is none before the first good        *)
(* header; damage to a block already stored moves the offset back once too *)
(* often; and a short block taken for a long one must seem to fit.         *)
Mild(h) ==
  LET i == Moved(Head(replies))
      new == i <= N /\ currOff < Start[i + 1]
  IN  /\ h # "eot"
      /\ h = "head" => /\ blockSz # 0
                       /\ i <= N => Size(i) <= DrainMax /\ Size(i) <= 4
      /\ h \in {"data", "sum"} => new
      /\ h = "cut" => new /\ Size(i) <= DrainMax
      /\ h = "size" => new /\ Size(i) = 1 /\ currOff + 8 <= cap

MCAnswer ==
  \E h \in Kinds :
    /\ Answer(h)
    /\ harsh' = (harsh \/ ~Mild(h))
    /\ h # "no" => faults < MaxFaults /\ ~harsh
    /\ faults' = IF h = "no" THEN faults ELSE faults + 1
    /\ Len(line') <= MaxQueue

MCLose ==
  /\ LoseReply
  /\ faults < MaxFaults /\ ~harsh /\ faults' = faults + 1 /\ UNCHANGED harsh

Fin ==
  /\ pc \in {"done", "failed"} \/ MaxQueue \in {Len(line), Len(replies)}
  /\ UNCHANGED <<vars, faults, harsh>>

MCReceiver ==
  Receiver /\ UNCHANGED <<faults, harsh>> /\ Len(replies') <= MaxQueue

MCNext == MCReceiver \/ MCAnswer \/ MCLose \/ Fin

MCInit == Init /\ faults = 0 /\ harsh = FALSE

(* The receive loop runs, and the sender answers what reaches it.          *)
MCSpec ==
  /\ MCInit
  /\ [][MCNext]_<<vars, faults, harsh>>
  /\ WF_<<vars, faults, harsh>>(MCReceiver)
  /\ WF_<<vars, faults, harsh>>(MCAnswer)

(* The type invariant; and no block is read to a place below the buffer,   *)
(* for as long as nothing worse has happened than the receiver is written  *)
(* for (xmodem.c:203-217).                                                 *)
MildTypeOK == TypeOK /\ (harsh \/ InBuffer)

(* InStep, Intact, FailsOnlyTooLarge and Completes of Xmodem, for as long  *)
(* as nothing worse has happened either (xmodem.c:173-226).                *)
MildInStep == harsh \/ InStep

MildIntact == harsh \/ Intact

MildFails == harsh \/ FailsOnlyTooLarge

MildCompletes == <>(harsh \/ pc \in {"done", "failed"})
=============================================================================
