----------------------------- MODULE CommandRelay -----------------------------
(***************************************************************************)
(* What the configuration promises about keys and buttons: the command     *)
(* that a page maps to a key and a press type, or gives to a widget, is    *)
(* the one sent; the keys that a page of the scene overrides act in all of *)
(* them (Wiki/Scenes.md:107); infrared commands leave in the order of the  *)
(* key presses, each once.  A command may be lost, when there is no room   *)
(* or no connection for it, or by a restart.                               *)
(***************************************************************************)
EXTENDS CommandFiles

VARIABLES
  scene,          (* the scene in the tab view, or Nothing                 *)
  tab,            (* which of its pages                                    *)
  queue,          (* infrared commands on their way, oldest first          *)
  used,           (* the key event or the button of the last step          *)
  out             (* what left the remote in the last step                 *)

rvars == <<scene, tab, queue, used, out>>

Init == scene = Nothing /\ tab = 1 /\ queue = << >> /\ used = Nothing /\ out = Nothing

WantedFrom(i, k, t) == Meant[PagesOf[scene][i]][ButtonMaps[PagesOf[scene][i]][k][t]]

(* The pages of the scene that override a key and have something for it.   *)
Overriding(k, t) ==
  {i \in 1..Len(PagesOf[scene]) : k \in OverrideKeys[scene][i] /\ WantedFrom(i, k, t) # Nothing}

(* The page whose command is wanted.                                       *)
Wanted(k, t) ==
  IF Overriding(k, t) # {} THEN {i \in Overriding(k, t) : \A j \in Overriding(k, t) : i <= j}
  ELSE {tab} \cap (1..Len(PagesOf[scene]))

Order(m) ==
  /\ m # Nothing
  /\ \/ m[1] = "IR" /\ queue' = Append(queue, m) /\ out' = Nothing
     \/ m[1] = "MQTT" /\ out' = m /\ UNCHANGED queue
  /\ UNCHANGED <<scene, tab>>

PressKey(k, t) ==
  /\ scene # Nothing
  /\ \E i \in Wanted(k, t) : Order(WantedFrom(i, k, t))
  /\ used' = <<k, t>>

PressButton(n) ==
  /\ scene # Nothing /\ tab \in 1..Len(PagesOf[scene])
  /\ Order(Meant[PagesOf[scene][tab]][n])
  /\ used' = <<"button", n>>

Emit ==
  /\ queue # << >>
  /\ out' \in {Head(queue), Nothing}
  /\ queue' = Tail(queue)
  /\ used' = Nothing
  /\ UNCHANGED <<scene, tab>>

(* Nothing comes of a key or a button.                                     *)
Lose ==
  /\ used' \in (Keys \X Types) \cup ({"button"} \X Names)
  /\ out' = Nothing
  /\ UNCHANGED <<scene, tab, queue>>

(* Another page or scene is shown, or there is a restart.                  *)
Quiet ==
  /\ used' = Nothing /\ out' = Nothing
  /\ queue' \in {queue, << >>}
  /\ scene' \in Scenes \cup {Nothing}
  /\ tab' \in Nat

Next == \/ \E k \in Keys, t \in Types : PressKey(k, t)
        \/ \E n \in Names : PressButton(n)
        \/ Emit \/ Lose \/ Quiet

Spec == Init /\ [][Next]_rvars
===============================================================================
