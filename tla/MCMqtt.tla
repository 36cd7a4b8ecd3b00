-------------------------------- MODULE MCMqtt --------------------------------
(***************************************************************************)
(* Mqtt for TLC: two labels, which may be of one topic or of two, and      *)
(* settings of which one pair is right.                                    *)
(***************************************************************************)
EXTENDS Mqtt

MCGood    == {<<"b", "right">>}
MCDefault == <<"b", "wrong">>
================================================================================
