------------------------------ MODULE MCMmJpeg ------------------------------
(* MmJpeg for TLC: how much each client asks for.                           *)
EXTENDS MmJpeg

OneEach   == [c \in {0, 1} |-> 1]
TwoAndOne == [c \in {0, 1} |-> 2 - c]
NoJobs    == [c \in {0} |-> 0]
ManyStops == [c \in {0} |-> 11]
=============================================================================
