------------------------------ MODULE Devices ------------------------------
(***************************************************************************)
(* The active devices: the list that keys are offered to, in its order     *)
(* (ActiveDevices.cpp), the pages that change it (ActiveDeviceList.cpp,    *)
(* AddDevice.cpp), the file it is kept in (ActiveDeviceConfig.cpp), and    *)
(* the devices: the Roku compiled in and the ones that files describe      *)
(* (RokuHttp.cpp, JsonDevice.cpp, KeyAction.cpp, ActionFactory.cpp).  All  *)
(* of it runs in the main loop.  One key stands for the keyboard.          *)
(***************************************************************************)
EXTENDS Naturals, Sequences, SequencesExt, FiniteSets, FiniteSetsExt

CONSTANTS Bindings,     \* for a device file, the actions of the key by event type
          MaxDevices    \* bound: the length of the list
ASSUME DevicesAssumption ==
  /\ MaxDevices \in Nat \ {0}
  /\ IsFiniteSet(DOMAIN Bindings) /\ "roku" \notin DOMAIN Bindings   \* it has no file

VARIABLES devices,      \* mDevices: objects, and what each of them is
          file,         \* activeDevices.json
          disk,         \* the device files
          run,          \* the remote is up, off, or fails at every start
          listPage,     \* the page on top: none, the list, or the offer of devices
          stroke,       \* the key: down, and where in the list it was acted on
          wanted,       \* the list as the user left it, while nothing was harmed
          harm          \* a file was changed, or a save was cut off or garbled
devVars == <<devices, file, disk, run, listPage, stroke, wanted, harm>>

DeviceFiles == DOMAIN Bindings
EventTypes == {"Press", "Short", "Release"}
NoPage == [kind |-> "none", items |-> << >>, selected |-> 0]
NoStroke == [down |-> FALSE, acted |-> {}]
Whats(list) == [i \in DOMAIN list |-> list[i].what]
Numbered(whats, numbers) == [i \in DOMAIN whats |-> [obj |-> numbers[i], what |-> whats[i]]]

DevInit ==
  /\ devices = << >> /\ file = << >> /\ run = "off" /\ listPage = NoPage
  /\ disk \in [DeviceFiles -> {"good", "broken"}]
  /\ stroke = NoStroke /\ wanted = << >> /\ harm = FALSE

-----------------------------------------------------------------------------
(* Devices from files.  A file that is missing, is no object with a name,   *)
(* or has an infrared code that is not a number ends in an exception.       *)
ActionTypes == {"IRAction", "HttpAction"}
createAction(a) ==    \* the error of ActionFactory
  IF ~a.base THEN "InvalidActionJson"
  ELSE IF a.type \notin ActionTypes THEN "UnknownActionType"
  ELSE IF ~a.data THEN "InvalidActionData" ELSE "None"
mActions(f) == {t \in DOMAIN Bindings[f] : createAction(Bindings[f][t]) = "None"}
Throws(state) == state \in {"broken", "absent"}
isValid(f) == disk[f] = "good"         \* not too big

-----------------------------------------------------------------------------
(* The file of the list *)
Entry(what, ok) == [what |-> what, ok |-> ok]
Entries(whats) == [i \in DOMAIN whats |-> Entry(whats[i], TRUE)]
\* The path of a device file is read from a string that is gone: it may be another
Garbled(list) ==
  {[Entries(Whats(list)) EXCEPT ![i].ok = FALSE] :
      i \in {k \in DOMAIN list : list[k].what \in DeviceFiles}}

PowerOff ==
  /\ run' = "off" /\ devices' = << >> /\ listPage' = NoPage /\ stroke' = NoStroke

\* The list has changed: the handler of the file runs first, then the page's
Saved(list, page) ==
  /\ \/ /\ devices' = list /\ listPage' = page /\ UNCHANGED run
        /\ stroke' = [stroke EXCEPT !.acted = {}]
        /\ \/ file' = Entries(Whats(list)) /\ UNCHANGED harm
           \/ ~harm /\ harm' = TRUE /\ file' \in Garbled(list)
     \/ /\ ~harm /\ harm' = TRUE /\ file' = << >>      \* emptied before it is written
        /\ PowerOff
  /\ wanted' = IF harm' THEN << >> ELSE Whats(list)
  /\ UNCHANGED disk

Restorable == {i \in DOMAIN file : file[i].what = "roku" \/ isValid(file[i].what)}

\* The places of a list in their order
InOrder(places) ==
  {order \in [1..Cardinality(places) -> places] :
     \A i, j \in DOMAIN order : i < j => order[i] < order[j]}
loadDevices(order) == [i \in DOMAIN order |-> [obj |-> i, what |-> file[order[i]].what]]

restoreFromConfig ==  \* an exception restarts the remote, which meets it again
  /\ run = "off"
  /\ IF \E i \in DOMAIN file : file[i].what \in DeviceFiles /\ (~file[i].ok \/ Throws(disk[file[i].what]))
       THEN run' = "stuck" /\ UNCHANGED devices
       ELSE run' = "up" /\ \E order \in InOrder(Restorable) : devices' = loadDevices(order)
  /\ UNCHANGED <<file, disk, listPage, stroke, wanted, harm>>

Restart == run = "up" /\ PowerOff /\ UNCHANGED <<file, disk, wanted, harm>>

-----------------------------------------------------------------------------
(* The list of the active devices *)
Items(list) == [i \in DOMAIN list |-> [item |-> i, dev |-> list[i]]]
ListOf(list) == [kind |-> "list", items |-> Items(list), selected |-> 0]
MovedTo(s, i, priority) == InsertAt(RemoveAt(s, i), priority + 1, s[i])
At(d) == SelectInSeq(devices, LAMBDA e : e = d)            \* the first one
ItemAt(k) == SelectInSeq(listPage.items, LAMBDA it : it.item = k)
selectedDevice == listPage.items[ItemAt(listPage.selected)].dev

PushActiveDeviceList ==
  /\ run = "up" /\ listPage = NoPage /\ listPage' = ListOf(devices)
  /\ UNCHANGED <<devices, file, disk, run, stroke, wanted, harm>>

SelectItem(i) ==      \* one item at a time; a second touch takes it back
  /\ listPage.kind = "list" /\ i \in DOMAIN listPage.items
  /\ LET k == listPage.items[i].item
     IN listPage' = [listPage EXCEPT !.selected = IF @ = k THEN 0 ELSE k]
  /\ UNCHANGED <<devices, file, disk, run, stroke, wanted, harm>>

\* Seeded fault: the item stays where it is at the end of the list
SetPriorityKeepingItem(priority) ==
  /\ priority < Len(devices)
  /\ Saved(MovedTo(devices, At(selectedDevice), priority),
           IF priority = Len(devices) - 1 THEN listPage
           ELSE [listPage EXCEPT !.items = MovedTo(@, ItemAt(listPage.selected), priority)])

setDevicePriority(priority) ==
  /\ priority < Len(devices)
  /\ Saved(MovedTo(devices, At(selectedDevice), priority),
           [listPage EXCEPT !.items = MovedTo(@, ItemAt(listPage.selected), priority)])

Priorities ==         \* top, up, down and bottom; below zero nothing is done
  {0, Len(devices) - 1} \cup {At(selectedDevice)} \cup
  (IF At(selectedDevice) > 1 THEN {At(selectedDevice) - 2} ELSE {})
MoveSelected ==
  /\ listPage.kind = "list" /\ listPage.selected # 0
  /\ \E priority \in Priorities : setDevicePriority(priority)

RefreshDeviceList(list) == ListOf(list)

removeDevice ==
  /\ listPage.kind = "list" /\ listPage.selected # 0
  /\ \E list \in {RemoveAt(devices, At(selectedDevice))} :
       Saved(list, RefreshDeviceList(list))

-----------------------------------------------------------------------------
(* The offer of devices: new objects, until one of them is added *)
FreshFor(whats) == Numbered(whats, [i \in DOMAIN whats |-> Len(devices) + i])
Offer(whats) == [kind |-> "add", items |-> Items(FreshFor(whats)), selected |-> 0]

AddJsonDevice ==      \* every file of the directory is tried
  /\ run = "up" /\ listPage = NoPage
  /\ IF \E f \in DeviceFiles : disk[f] = "broken" THEN PowerOff
     ELSE /\ \E whats \in SetToSeqs({f \in DeviceFiles : isValid(f)}) : listPage' = Offer(whats)
          /\ UNCHANGED <<devices, run, stroke>>
  /\ UNCHANGED <<file, disk, wanted, harm>>

AddCompileTimeDevice ==
  /\ run = "up" /\ listPage = NoPage
  /\ listPage' = Offer(<<"roku">>)
  /\ UNCHANGED <<devices, file, disk, run, stroke, wanted, harm>>

OnAddButtonClicked(i) ==
  /\ listPage.kind = "add" /\ i \in DOMAIN listPage.items /\ Len(devices) < MaxDevices
  /\ Saved(<<listPage.items[i].dev>> \o devices, listPage)

\* The objects have no order: they are numbered anew when the page no longer
\* holds any, so that numbers beyond the length of the list are free.
Renumbered(list) ==
  Numbered(Whats(list), [i \in DOMAIN list |-> Min({k \in DOMAIN list : list[k] = list[i]})])
ClosePage ==
  /\ run = "up" /\ listPage # NoPage /\ listPage' = NoPage
  /\ devices' = Renumbered(devices)
  /\ UNCHANGED <<file, disk, run, stroke, wanted, harm>>

-----------------------------------------------------------------------------
(* Keys *)
HandleKeyEvent(d, type) ==
  IF d.what = "roku" THEN type = "Press" ELSE mActions(d.what) # {}
\* Whether something is sent; the HTTP client may not be ready
execute(d, type) ==
  IF d.what = "roku" THEN BOOLEAN
  ELSE IF type \notin mActions(d.what) THEN {FALSE}
  ELSE IF Bindings[d.what][type].type = "HttpAction" THEN BOOLEAN ELSE {TRUE}

handleKeyEvent(type) ==
  /\ run = "up"
  /\ IF type = "Press" THEN ~stroke.down ELSE stroke.down
  /\ LET i == SelectInSeq(devices, LAMBDA d : HandleKeyEvent(d, type))
     IN \E sent \in IF i = 0 THEN {FALSE} ELSE execute(devices[i], type) :
          LET acted == stroke.acted \cup (IF sent THEN {i} ELSE {})
          IN stroke' = IF type = "Release" /\ Cardinality(acted) < 2 THEN NoStroke
                       ELSE [down |-> TRUE, acted |-> acted]
  /\ UNCHANGED <<devices, file, disk, run, listPage, wanted, harm>>

Ftp(f) ==             \* a device file is replaced or removed
  /\ run = "up"
  /\ \E state \in {"good", "big", "broken", "absent"} \ {disk[f]} :
       /\ state = "good" \/ ~harm
       /\ harm' = (harm \/ state # "good") /\ disk' = [disk EXCEPT ![f] = state]
  /\ wanted' = IF harm' THEN << >> ELSE wanted
  /\ UNCHANGED <<devices, file, run, listPage, stroke>>

DevNext ==
  \/ restoreFromConfig \/ Restart \/ PushActiveDeviceList \/ MoveSelected \/ removeDevice
  \/ AddJsonDevice \/ AddCompileTimeDevice \/ ClosePage
  \/ \E i \in 1..MaxDevices : SelectItem(i) \/ OnAddButtonClicked(i)
  \/ \E type \in EventTypes : handleKeyEvent(type)
  \/ \E f \in DeviceFiles : Ftp(f)
DevSpec == DevInit /\ [][DevNext]_devVars

-----------------------------------------------------------------------------
DevicesTypeOK ==
  /\ run \in {"off", "up", "stuck"} /\ harm \in BOOLEAN
  /\ Len(devices) <= MaxDevices /\ Len(file) <= MaxDevices
  /\ \A i \in DOMAIN devices : devices[i].what \in DeviceFiles \cup {"roku"}
  /\ disk \in [DeviceFiles -> {"good", "big", "broken", "absent"}]
  /\ listPage.kind \in {"none", "list", "add"}
  /\ run # "up" => devices = << >> /\ listPage = NoPage

\* Through every restart the list is the one the user left, unless a device file
\* was touched, its path was garbled, or the power went while the list was saved.
LosesNothing ==
  ~harm => run # "stuck" /\ (run = "up" => Whats(devices) = wanted)

\* The items are not built again when one is moved, and stay in the order of the
\* devices, while no object is in the list twice.
Twins == \E i, j \in DOMAIN devices : i < j /\ devices[i] = devices[j]
PageOrder ==
  listPage.kind = "list" /\ ~Twins => [i \in DOMAIN listPage.items |-> listPage.items[i].dev] = devices

\* The selection the buttons work on is an item of the list that is shown, and its
\* device is an active one.
SelectionAlive ==
  listPage.kind = "list" /\ listPage.selected # 0 =>
    ItemAt(listPage.selected) # 0 /\ At(selectedDevice) # 0

\* The events of one stroke of a key are acted on by one device, unless the list
\* changes in between or the Roku, which takes the press only, is above.
StrokeKept ==
  Cardinality(stroke.acted) > 1 => \E i \in stroke.acted : devices[i].what = "roku"

\* The devices are those the user chose, now and after a restart, in the order the page
\* shows, and one of them acts on a stroke.
DevicesFollow ==
  DevicesTypeOK /\ LosesNothing /\ PageOrder /\ SelectionAlive /\ StrokeKept
============================================================================
