----------------------------- MODULE MCSerialRx -----------------------------
(***************************************************************************)
(* SerialRx with a bounded number of bytes that arrive or are lost.        *)
(***************************************************************************)
EXTENDS SerialRx

CONSTANT MaxLost \* bound: bytes refused by a full ring

MCNext == Next /\ lost' <= MaxLost

MCSpec == Init /\ [][MCNext]_vars

(* Line errors play no part in flow control.  The main context goes on    *)
(* while the handler lets it, and comes back to the port after each call   *)
(* (the protocols' receive loops); it is not known to be given any byte.   *)
FlowNext == Main \/ \E b \in Bytes : Arrive(b)

FlowSpec == Init /\ [][FlowNext]_vars /\ WF_vars(ReadLoop) /\ WF_vars(Main)
=============================================================================
