----------------------------- MODULE MCSerialTx -----------------------------
(***************************************************************************)
(* SerialTx on a ring of four bytes, with calls that need more room than   *)
(* there ever is, and any number of calls and interrupts.                  *)
(***************************************************************************)
EXTENDS SerialTx

(* One byte more than the ring could take at once, and one for the UART.   *)
MCMaxWrite == Depth + 1
=============================================================================
