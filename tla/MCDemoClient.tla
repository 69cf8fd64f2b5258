---------------------------- MODULE MCDemoClient ----------------------------
(* Instances of DemoClient for TLC.                                         *)
EXTENDS DemoClient, TLC

CONSTANTS sam, fay, c1, c2

TwoSlots == {c1, c2}
=============================================================================
