--------------------------- MODULE MCRecordLayer ---------------------------
(* RecordLayer for TLC: a server's peer through an initial handshake and   *)
(* two renegotiations, three records per set of parameters.  A state with  *)
(* all records used can be left by StopRetransmission.                     *)
EXTENDS RecordLayer
=============================================================================
