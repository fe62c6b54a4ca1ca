----------------------------- MODULE MCPostProc -----------------------------
(* PostProc for TLC: the kinds of pictures the HAL takes.                   *)
EXTENDS PostProc

Kind(passes, regular, pics) == [passes |-> passes, regular |-> regular, pics |-> pics]

(* A regular capture straight to the encoder, a burst of two that is        *)
(* reprocessed once, and a regular capture that is reprocessed twice.       *)
Kinds == {Kind(0, TRUE, 1), Kind(1, FALSE, 2), Kind(2, TRUE, 1)}
=============================================================================
