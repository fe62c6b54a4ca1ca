------------------------------ MODULE MCMmStream ------------------------------
(* Values of the constants of MmStream for TLC.                              *)
EXTENDS MmStream

(* A start may fail at every step after which all buffers are accounted for. *)
CoreFaults == {"acquire", "get_bufs", "reqbufs", "timeout", "streamon"}

(* With the first buffer refused, too.                                       *)
LiveFaults == CoreFaults \cup {"reg_qbuf"}
=============================================================================
