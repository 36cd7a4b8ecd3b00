--------------------------- MODULE MCUserInterface ---------------------------
(***************************************************************************)
(* The user interface for TLC: the home screen with its scenes (Scenes),   *)
(* the devices that get the keys it leaves (Devices), the pages of the     *)
(* settings (SettingsPages), the tasks that share LVGL (LvglTasks), the    *)
(* elements and their objects (Elements) and the schemas that what is read *)
(* is held against (JsonSchema).                                           *)
(* "part" says which of them is looked at, while the others rest.          *)
(***************************************************************************)
EXTENDS MCScenes, Devices, SettingsPages, LvglTasks, JsonSchema, Elements

VARIABLE part

A(t) == [type |-> t, base |-> TRUE, data |-> TRUE]
MCBindings ==
  [tele |-> [Press |-> A("HttpAction"), Release |-> [A("IRAction") EXCEPT !.data = FALSE]],
   amp  |-> [Release |-> A("IRAction"), Short |-> A("Toggle")]]
MCOffered == [imu |-> 0..1, lcd |-> {0, 5}, timeout |-> {10, 20}]
MCDefault == [imu |-> 1, lcd |-> 9, timeout |-> 30]
MCKeySize == [ip |-> 2, name |-> 4, data |-> 4]
MCTypeSize == [string |-> 6]

all == <<vars, devVars, pageVars, taskVars, schemaVars, elemVars, part>>

Scene(X)  == part = "scenes" /\ X /\ UNCHANGED <<devVars, pageVars, taskVars, schemaVars, elemVars, part>>
Listed(X) == part = "devices" /\ X /\ UNCHANGED <<vars, pageVars, taskVars, schemaVars, elemVars, part>>
Paged(X)  == part = "pages" /\ X /\ UNCHANGED <<vars, devVars, taskVars, schemaVars, elemVars, part>>
Shared(X) == part = "tasks" /\ X /\ UNCHANGED <<vars, devVars, pageVars, schemaVars, elemVars, part>>
Compiled(X) == part = "schemas" /\ X /\ UNCHANGED <<vars, devVars, pageVars, taskVars, elemVars, part>>
Drawn(X)  == part = "elements" /\ X /\ UNCHANGED <<vars, devVars, pageVars, taskVars, schemaVars, part>>

MCInit ==
  /\ Init /\ DevInit /\ PagesInit /\ TasksInit /\ SchemaInit /\ ElementsInit
  /\ part \in {"scenes", "devices", "pages", "tasks", "schemas", "elements"}
  /\ part # "devices" => disk = [f \in DeviceFiles |-> "good"]

MCNext == Scene(Next) \/ Listed(DevNext) \/ Paged(PagesNext) \/ Shared(TasksNext)
          \/ Compiled(SchemaNext) \/ Drawn(ElementsNext)
MCSpec == MCInit /\ [][MCNext]_all /\ WF_all(Shared(MainLoopTasks /\ ~undefined))
=============================================================================
