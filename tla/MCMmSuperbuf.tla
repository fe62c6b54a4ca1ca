---------------------------- MODULE MCMmSuperbuf ----------------------------
(* Instances of MmSuperbuf for TLC: contents of metadata frames and the     *)
(* control calls each run lets the HAL make.                                *)
EXTENDS MmSuperbuf

Plain == [prep |-> "none", range |-> NoRange, divert |-> 0,
          crop1x |-> FALSE, settled |-> FALSE]
Prepared(p) == [Plain EXCEPT !.prep = p]

PlainOnly == {Plain}
MetaTwice == {<<Meta, 2>>}
MetaCaptures ==
    {Plain, Prepared("future"),
     [prep |-> "done", range |-> [min |-> 1, max |-> 2, skip |-> 1], divert |-> 2,
      crop1x |-> FALSE, settled |-> FALSE]}
MetaZoom1x == {Plain, [Plain EXCEPT !.crop1x = TRUE]}

NoCalls == {}
Requests == {Req(1, 0), FlushCmd(2)}
LiveModes == {Req(1, 0), FlushCmd(0), Notify("continuous"),
              General("zoom1x", TRUE), Cmd("START_ZSL")}
Captures == {Req(2, 3), Cancel, General("bracketing", TRUE), Cmd("STOP_ZSL")}
=============================================================================
