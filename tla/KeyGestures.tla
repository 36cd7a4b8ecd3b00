----------------------------- MODULE KeyGestures -----------------------------
(***************************************************************************)
(* What a keypad promises to the user interface, key by key: a Press, then *)
(* any number of Repeats and at most one Long, then a Release; a Short     *)
(* follows the Release of a press that was not Long, and only that.        *)
(* (KeyPressAbstract.hpp, KeyEvent::Type; Wiki/JsonConfig.md:22.)          *)
(***************************************************************************)
EXTENDS Sequences

CONSTANT Keys

VARIABLES
  phase,          (* per key: "up", "down", or "held" once Long was sent   *)
  out,            (* per key, the events of the last step                  *)
  lost            (* keys of which a movement has been lost                *)

gvars == <<phase, out, lost>>

Phases == {"up", "down", "held"}

Outputs == {<< >>, <<"Press">>, <<"Repeat">>, <<"Long">>, <<"Repeat", "Long">>,
            <<"Release">>, <<"Release", "Short">>}

Init ==
  /\ phase = [k \in Keys |-> "up"]
  /\ out = [k \in Keys |-> << >>]
  /\ lost = {}

(* One key's events in a step, and the phase it is in afterwards.          *)
Gesture(p, q, events) ==
  \/ q = p /\ events = << >>
  \/ p = "up" /\ q = "down" /\ events = <<"Press">>
  \/ p # "up" /\ q = p /\ events = <<"Repeat">>
  \/ p = "down" /\ q = "held" /\ events \in {<<"Long">>, <<"Repeat", "Long">>}
  \/ p # "up" /\ q = "up" /\ events = <<"Release">>
  \/ p = "down" /\ q = "up" /\ events = <<"Release", "Short">>

(* When movements of a key are lost, the Release seen may be the end of a  *)
(* later, shorter press than the one that was Long.                        *)
LossyGesture(p, q, events) ==
  \/ Gesture(p, q, events)
  \/ p = "held" /\ q = "up" /\ events = <<"Release", "Short">>

Step ==
  /\ phase' \in [Keys -> Phases]
  /\ out' \in [Keys -> Outputs]
  /\ \A k \in Keys \ lost : Gesture(phase[k], phase'[k], out'[k])
  /\ \A k \in lost : LossyGesture(phase[k], phase'[k], out'[k])
  /\ lost \subseteq lost' /\ lost' \subseteq Keys

(* The remote is switched off: the keys are forgotten.                     *)
Restart ==
  /\ phase' = [k \in Keys |-> "up"]
  /\ out' = [k \in Keys |-> << >>]
  /\ UNCHANGED lost

Next == Step \/ Restart

Spec == Init /\ [][Next]_gvars
=============================================================================
