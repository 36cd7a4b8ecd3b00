-------------------------------- MODULE MCPower --------------------------------
(***************************************************************************)
(* Power for TLC.  The times are scaled: a fade of 1 step instead of 30,   *)
(* and the times before it in the proportions that the properties need.    *)
(***************************************************************************)
EXTENDS Power

MCLcd   == {"lcd"}
MCTimes == {8, 9}
MCChoices == {[sleepTimeout |-> 8, lightSleep |-> FALSE], [sleepTimeout |-> 9, lightSleep |-> TRUE]}
================================================================================
