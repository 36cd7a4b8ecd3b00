------------------------------ MODULE KeyCommands ------------------------------
(***************************************************************************)
(* From a key or a button on the screen to what leaves the remote: the     *)
(* handlers that JsonPage builds for its keys and widgets, the overrides   *)
(* that JsonHomeScreen takes out of them, Commands::sendCommand, and the   *)
(* infrared transceiver behind it.                                         *)
(*                                                                         *)
(* The multimaps of handlers are sets: a page has at most one handler per  *)
(* key and press type, and those of several pages are told apart, and      *)
(* searched, by the page.  Which scene is shown is a matter of Scenes; any *)
(* may be opened here at any time, or restored.                            *)
(***************************************************************************)
EXTENDS IRTransceiver

VARIABLES
  scene,          (* mLastScene                                            *)
  tab,            (* the current tab of mTabView, from 1                   *)
  keyHandlers,    (* per page of the scene, mKeyHandlers                   *)
  overrides,      (* mOverrideKeyHandlers                                  *)
  learner,        (* the IR Receiver page is open                          *)
  used            (* history: the key event or the button of the last step *)

view == <<scene, tab, keyHandlers, overrides>>
vars == <<irvars, view, learner, used>>

(* The structure that the constructor passes on from one press type to the *)
(* next, as it is after each of them.                                      *)
AfterPress(p, k)   == getCommand(p, ButtonMaps[p][k]["Press"], Empty)
AfterRelease(p, k) == getCommand(p, ButtonMaps[p][k]["Release"], AfterPress(p, k))
AfterRepeat(p, k)  == getCommand(p, ButtonMaps[p][k]["Repeat"], AfterRelease(p, k))
AfterLong(p, k)    == getCommand(p, ButtonMaps[p][k]["Long"], AfterRepeat(p, k))
AfterShort(p, k)   == getCommand(p, ButtonMaps[p][k]["Short"], AfterLong(p, k))

After(p, k, t) == CASE t = "Press" -> AfterPress(p, k)
                    [] t = "Release" -> AfterRelease(p, k)
                    [] t = "Repeat" -> AfterRepeat(p, k)
                    [] t = "Long" -> AfterLong(p, k)
                    [] t = "Short" -> AfterShort(p, k)

(* What JsonPage puts into mKeyHandlers.                                   *)
Handlers ==
  [p \in Pages |->
     {[key |-> h[1], type |-> h[2], command |-> After(p, h[1], h[2])] :
        h \in {g \in Keys \X Types : /\ ButtonMaps[p][g[1]][g[2]] # Nothing
                                     /\ After(p, g[1], g[2]).mode # "NONE"}}]

(* A button without a command is not made; color buttons and number pads   *)
(* are made only with all of theirs.                                       *)
Resolves(p, n) == getCommand(p, n, Empty).mode # "NONE"
Buttons == [p \in Pages |-> UNION {w \in Widgets[p] : \A n \in w : Resolves(p, n)}]

(* What getKeyOverrides leaves with the pages, and what it takes.          *)
Kept == [s \in Scenes |->
  [i \in 1..Len(PagesOf[s]) |-> {h \in Handlers[PagesOf[s][i]] : h.key \notin OverrideKeys[s][i]}]]

Overridden == [s \in Scenes |->
  UNION {{[page |-> i, handler |-> h] :
            h \in {g \in Handlers[PagesOf[s][i]] : g.key \in OverrideKeys[s][i]}} :
         i \in 1..Len(PagesOf[s])}]

KCTypeOK ==
  /\ IRTypeOK
  /\ scene \in Scenes \cup {Nothing}
  /\ tab \in Nat \ {0}
  /\ keyHandlers = IF scene = Nothing THEN << >> ELSE Kept[scene]
  /\ overrides = IF scene = Nothing THEN {} ELSE Overridden[scene]
  /\ learner \in BOOLEAN
  /\ used \in (Keys \X Types) \cup ({"button"} \X Names) \cup {Nothing}

NoScene == scene' = Nothing /\ tab' = 1 /\ keyHandlers' = << >> /\ overrides' = {}

Init ==
  /\ IRInit
  /\ scene = Nothing /\ tab = 1 /\ keyHandlers = << >> /\ overrides = {}
  /\ learner = FALSE
  /\ used = Nothing

-------------------------------------------------------------------------------
(* Scenes and tabs                                                         *)

Show(s) ==
  /\ scene' = s
  /\ keyHandlers' = Kept[s]
  /\ overrides' = Overridden[s]

OpenScene(s) ==
  /\ loop = "free" /\ scene # s
  /\ Show(s)
  /\ tab' = 1
  /\ out' = Nothing
  /\ UNCHANGED <<buffer, task, command, loop, priority, preSend, isRxEnabled, receiver, learner>>

CloseScene ==
  /\ loop = "free" /\ scene # Nothing
  /\ NoScene
  /\ out' = Nothing
  /\ UNCHANGED <<buffer, task, command, loop, priority, preSend, isRxEnabled, receiver, learner>>

ChangeTab(i) ==
  /\ loop = "free"
  /\ tab' = i
  /\ out' = Nothing
  /\ UNCHANGED <<buffer, task, command, loop, priority, preSend, isRxEnabled, receiver, scene,
                 keyHandlers, overrides, learner>>

-------------------------------------------------------------------------------
(* Keys and buttons                                                        *)

(* A published message gets lost without a connection.                     *)
sendCommand(cs) ==
  LET m == MessageOf(cs) IN
  CASE m = Nothing -> UNCHANGED buffer /\ out' = Nothing
    [] m # Nothing /\ m[1] = "IR" -> sendBackground(m) /\ out' = Nothing
    [] m # Nothing /\ m[1] = "MQTT" -> UNCHANGED buffer /\ out' \in {m, Nothing}

(* The handlers for an event in the override map.                          *)
Found(k, t) == {o \in overrides : o.handler.key = k /\ o.handler.type = t}

(* Mutant: the page that is shown comes first.                             *)
HandlerPageFirst(k, t) ==
  IF tab \in DOMAIN keyHandlers /\ \E h \in keyHandlers[tab] : h.key = k /\ h.type = t
  THEN {h \in keyHandlers[tab] : h.key = k /\ h.type = t}
  ELSE {o.handler : o \in {o \in Found(k, t) : \A q \in Found(k, t) : o.page <= q.page}}

(* The one that handles it: overrides first, then the page that is shown.  *)
Handler(k, t) ==
  IF Found(k, t) # {}
  THEN {o.handler : o \in {o \in Found(k, t) : \A q \in Found(k, t) : o.page <= q.page}}
  ELSE IF tab \in DOMAIN keyHandlers
  THEN {h \in keyHandlers[tab] : h.key = k /\ h.type = t}
  ELSE {}

KeyEvent(k, t) ==
  /\ loop = "free"
  /\ \E h \in Handler(k, t) : sendCommand(h.command)
  /\ used' = <<k, t>>
  /\ UNCHANGED <<task, command, loop, priority, preSend, isRxEnabled, receiver, view, learner>>

PressButton(n) ==
  /\ loop = "free" /\ scene # Nothing /\ ~learner
  /\ tab \in DOMAIN keyHandlers /\ n \in Buttons[PagesOf[scene][tab]]
  /\ sendCommand(getCommand(PagesOf[scene][tab], n, Empty))
  /\ used' = <<"button", n>>
  /\ UNCHANGED <<task, command, loop, priority, preSend, isRxEnabled, receiver, view, learner>>

-------------------------------------------------------------------------------
(* The IR Receiver page. All screens process keys, so its keys reach it    *)
(* only if the scene has nothing for them.                                 *)

OpenLearner ==
  /\ loop = "free" /\ ~learner
  /\ learner' = TRUE
  /\ out' = Nothing
  /\ UNCHANGED <<buffer, task, command, loop, priority, preSend, isRxEnabled, receiver, view>>

CloseLearner == learner /\ disableRx /\ learner' = FALSE /\ UNCHANGED view

LearnerKey(k, action) ==
  /\ learner /\ Handler(k, "Press") = {}
  /\ action
  /\ UNCHANGED <<view, learner>>

LearnerButton(action) == learner /\ action /\ UNCHANGED <<view, learner>>

LoopGoesOn == (Sent \/ Calibrated) /\ UNCHANGED <<view, learner>>

Poll == loopHandleRx /\ UNCHANGED <<view, learner>>

-------------------------------------------------------------------------------

SenderStep == Sender /\ UNCHANGED <<view, learner>>

(* A restart, by power or by an exception, after which a scene may be      *)
(* restored.                                                               *)
Restart ==
  /\ buffer' = << >> /\ task' = "receive" /\ command' = Nothing /\ loop' = "free"
  /\ priority' = [t \in Tasks |-> IF t = "loop" THEN "low" ELSE "max"]
  /\ preSend' = "low" /\ isRxEnabled' = FALSE /\ receiver' = "off"
  /\ out' = Nothing
  /\ learner' = FALSE
  /\ \/ NoScene
     \/ \E s \in Scenes : Show(s) /\ tab' \in 1..(Len(PagesOf[s]) + 1)

Abort == task = "receive" /\ buffer # << >> /\ Head(buffer) \in Malformed /\ Restart

-------------------------------------------------------------------------------

Navigate == \/ \E s \in Scenes : OpenScene(s)
            \/ CloseScene
            \/ \E i \in DOMAIN keyHandlers : ChangeTab(i)

Use == \/ \E k \in Keys, t \in Types : KeyEvent(k, t)
       \/ \E n \in Names : PressButton(n)

Learner == \/ OpenLearner \/ CloseLearner
           \/ LearnerKey("Aux1", Send)
           \/ LearnerKey("Aux2", enableRx)
           \/ LearnerKey("Aux3", disableRx)
           \/ LearnerKey("Aux4", Calibrate)
           \/ LearnerButton(enableRx)
           \/ LearnerButton(disableRx)
           \/ LoopGoesOn \/ Poll

Unused == used' = Nothing

Next == \/ Use
        \/ (Navigate \/ Learner \/ SenderStep \/ Restart \/ Abort) /\ Unused

Spec == Init /\ [][Next]_vars

(* The sending task has the highest priority, a transmission ends, and the *)
(* loop polls the receiver in every turn, however many keys are pressed.   *)
FairSpec ==
  /\ Spec
  /\ WF_vars((SenderStep \/ Abort) /\ Unused)
  /\ WF_vars(LoopGoesOn /\ Unused)
  /\ SF_vars(Poll /\ Unused)

-------------------------------------------------------------------------------
(* Properties                                                              *)

(* What is on its way: the command the task has, and those behind it.      *)
Pending == IF command = Nothing THEN buffer ELSE <<command>> \o buffer

(* A key and a press type send the command the page maps to them, wherever *)
(* the override map is searched first; infrared commands leave in order    *)
(* and once (JsonPage.cpp 49-77, 238-269; IRTransceiver.cpp 41-129). Holds *)
(* for pages that keep to one command per key.                             *)
Relay == INSTANCE CommandRelay WITH queue <- Pending

KeepsToFiles == Relay!Spec

OneCommandPerKey ==
  \A p \in Pages, k \in Keys, t \in Types, u \in Types :
    ButtonMaps[p][k][t] # Nothing /\ ButtonMaps[p][k][u] # Nothing
      => ButtonMaps[p][k][t] = ButtonMaps[p][k][u]

(* A command that is in the buffer does not stay there: the task comes     *)
(* back for it after each transmission, delay and rest (41-116).           *)
BufferEmpties == \A n \in 1..MaxBuffer : Len(buffer) = n ~> Len(buffer) # n

(* A receiver that a transmission has paused listens again, or is switched *)
(* off: most protocols return before the call that resumes it (149-315),   *)
(* and what restarts it is that the main loop polls it (461).              *)
ReceiverComesBack == receiver = "paused" ~> receiver # "paused"

(* Infrared goes on: the task sends what is waiting, and the receiver      *)
(* listens again.                                                          *)
InfraredGoesOn == BufferEmpties /\ ReceiverComesBack

(* "the second element is the combination of press type (Press, Release,   *)
(* Repeat, Long or Short) and the command name from the JSON commands      *)
(* file" (Wiki/Pages.md).                                                  *)
HandlersMatch ==
  scene # Nothing =>
    \A i \in 1..Len(PagesOf[scene]) :
      \A h \in keyHandlers[i] \cup {o.handler : o \in {q \in overrides : q.page = i}} :
        MessageOf(h.command) = Meant[PagesOf[scene][i]][ButtonMaps[PagesOf[scene][i]][h.key][h.type]]
================================================================================
