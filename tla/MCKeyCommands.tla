---------------------------- MODULE MCKeyCommands ----------------------------
(***************************************************************************)
(* KeyCommands for TLC: a page with an infrared and a published command,   *)
(* a page with a delay, a protocol that cannot be sent and a malformed     *)
(* code, and scenes with one and with both of them, overriding or not.     *)
(***************************************************************************)
EXTENDS KeyCommands

Mapped(m) == [t \in Types |-> IF t \in DOMAIN m THEN m[t] ELSE Nothing]

Entry(mode, protocol, data) == [mode |-> mode, protocol |-> protocol, data |-> data]

MCKeys   == {"Up", "Aux1"}
MCPages  == {"tv", "amp"}
MCNames  == {"up", "state", "wait", "odd", "gone"}
MCScenes == {"movie", "music"}

MCProtocols == {"NEC", "PUB", "DELAY", "MWM", "none"}
MCCodes     == {"c1", "c2", "bad"}

MCButtonMaps ==
  [tv |-> [Up |-> Mapped([Press |-> "up", Repeat |-> "up"]), Aux1 |-> Mapped([Long |-> "gone"])],
   amp |-> [Up |-> Mapped([Press |-> "wait", Short |-> "wait"]), Aux1 |-> Mapped([Press |-> "state"])]]

(* One key with two commands, as in "Short" and "Long".                    *)
MixedButtonMaps ==
  [MCButtonMaps EXCEPT !["amp"] =
     [Up |-> Mapped([Long |-> "odd", Short |-> "wait"]), Aux1 |-> Mapped([Press |-> "state"])]]

MCCommandFile ==
  [tv |-> [up |-> Entry("IR", "NEC", <<"c1", "c2">>), state |-> Nothing, wait |-> Nothing,
           odd |-> Entry("IR", "NEC", <<"bad">>), gone |-> Nothing],
   amp |-> [up |-> Nothing, state |-> Entry("MQTT", "PUB", <<"c1", "c2">>),
            wait |-> Entry("IR", "DELAY", <<"c1">>), odd |-> Entry("IR", "MWM", <<"c2">>),
            gone |-> Entry("NONE", "none", << >>)]]

MCMalformed == {<<"IR", "NEC", "bad">>}

MCWidgets == [tv |-> {{"up"}, {"odd"}, {"up", "gone"}}, amp |-> {{"odd"}, {"odd", "gone"}}]

MCPagesOf == [movie |-> <<"tv", "amp">>, music |-> <<"amp", "tv">>]

MCOverrideKeys == [movie |-> <<{}, {"Up"}>>, music |-> <<{"Up"}, {"Up", "Aux1"}>>]
==============================================================================
