------------------------- MODULE MCHalStateMachine -------------------------
(* An instance of HalStateMachine for TLC: the calls of camera_device_ops, *)
(* without those that only dual cameras and closing use.                   *)
EXTENDS HalStateMachine

AllCalls == DeviceCalls \ {<<"PREPARE_PREVIEW">>, <<"RELEASE">>}
=============================================================================
