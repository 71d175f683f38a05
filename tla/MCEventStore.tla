---------------------------- MODULE MCEventStore ----------------------------
(* An instance of EventStore for TLC: one old event, from 1 to 3, so that    *)
(* the clock passes before, at and between its dates and after.              *)
EXTENDS EventStore, TLC

CONSTANTS d1
FromOne == d1 :> 1
ToThree == d1 :> 3
=============================================================================
