------------------------------- MODULE Keypad -------------------------------
(***************************************************************************)
(* The keyboard of hardware revision 1: a matrix of keys that the library  *)
(* Keypad scans at most every 10 ms (Keypad.cpp, Key.cpp), keeping the     *)
(* keys that are down on a short list, and keyboardScan                    *)
(* (HardwareRev1.cpp), which turns changes on the list into events.  What  *)
(* is off the list is not heard.  One timer, restarted by every press,     *)
(* says of all keys whether they are held.                                 *)
(***************************************************************************)
EXTENDS Integers, Sequences, FiniteSets

CONSTANTS MapSize,      \* rows times columns; a key's code is its place in the matrix
          Fitted,       \* the codes that have a key
          ListMax,      \* 10
          HoldTime,     \* 500 ms
          MaxWait       \* bound: the longest time between two scans
ASSUME KeypadAssumption ==
  /\ {MapSize, ListMax, HoldTime, MaxWait} \subseteq Nat /\ Fitted \subseteq 0..(MapSize - 1)

VARIABLES contacts,     \* the codes whose key is down
          key,          \* the list
          holdAge,      \* of holdTimer, cut off above HoldTime
          told,         \* per code, the events of the last step
          still         \* history: scans since a key moved, up to Rested
keypadVars == <<contacts, key, holdAge, told, still>>

KeyStates == {"IDLE", "PRESSED", "HOLD", "RELEASED"}
NoKey == [kcode |-> -1, kstate |-> "IDLE", stateChanged |-> FALSE]
Rested == 4             \* scans a key needs to leave the list and come back
Silent == [k \in Fitted |-> << >>]

KeypadInit ==
  /\ contacts = {} /\ key = [i \in 1..ListMax |-> NoKey] /\ holdAge = HoldTime + 1 /\ told = Silent
  /\ still = 0

-----------------------------------------------------------------------------
(* The list *)
transitionTo(k, state) == [k EXCEPT !.kstate = state, !.stateChanged = TRUE]

nextKeyState(k, closed, age) ==
  CASE k.kstate = "IDLE" /\ closed -> transitionTo(k, "PRESSED")
    [] k.kstate = "PRESSED" /\ age > HoldTime -> transitionTo(k, "HOLD")
    [] k.kstate = "PRESSED" /\ age <= HoldTime /\ ~closed -> transitionTo(k, "RELEASED")
    [] k.kstate = "HOLD" /\ ~closed -> transitionTo(k, "RELEASED")
    [] k.kstate = "RELEASED" -> transitionTo(k, "IDLE")
    [] OTHER -> [k EXCEPT !.stateChanged = FALSE]

Slots(list, code) == {i \in 1..ListMax : list[i].kcode = code}
First(slots) == CHOOSE i \in slots : \A j \in slots : i <= j

AddKey(s, code) ==
  IF code \notin contacts \/ Slots(s.list, -1) = {} THEN s
  ELSE [list |-> [s.list EXCEPT ![First(Slots(s.list, -1))] =
                    nextKeyState([NoKey EXCEPT !.kcode = code], TRUE, 0)],
        age |-> 0]
MoveOn(s, code) ==
  [s EXCEPT !.list = [i \in 1..ListMax |->
     IF s.list[i].kcode = code THEN nextKeyState(s.list[i], code \in contacts, s.age) ELSE s.list[i]]]
Visit(s, code) == IF Slots(s.list, code) # {} THEN MoveOn(s, code) ELSE AddKey(s, code)

\* Seeded fault: what has just become idle stays for another scan
WithoutOldIdle(list) ==
  [i \in 1..ListMax |->
     IF list[i].kstate = "IDLE" /\ ~list[i].stateChanged THEN NoKey ELSE list[i]]

WithoutIdle(list) == [i \in 1..ListMax |-> IF list[i].kstate = "IDLE" THEN NoKey ELSE list[i]]

updateList(age) ==    \* row by row
  LET pass[n \in 0..MapSize] ==
        IF n = 0 THEN [list |-> WithoutIdle(key), age |-> age] ELSE Visit(pass[n - 1], n - 1)
  IN  pass[MapSize]

-----------------------------------------------------------------------------
Heard(list, code) ==
  LET changed(state) == \E i \in 1..ListMax :
        list[i].kcode = code /\ list[i].stateChanged /\ list[i].kstate = state
  IN  IF changed("PRESSED") THEN <<"Press">> ELSE IF changed("RELEASED") THEN <<"Release">> ELSE << >>

HeldFor(dt) == IF holdAge + dt > HoldTime THEN HoldTime + 1 ELSE holdAge + dt
keyboardScan(dt) ==   \* getKeys, dt after the last time
  \E s \in {updateList(HeldFor(dt))} :
    /\ key' = s.list /\ holdAge' = s.age
    /\ told' = [k \in Fitted |-> Heard(s.list, k)]
    /\ still' = IF still < Rested THEN still + 1 ELSE still
    /\ UNCHANGED contacts

Press(k) == contacts' = contacts \cup {k} /\ still' = 0 /\ UNCHANGED <<key, holdAge, told>>
LetGo(k) == contacts' = contacts \ {k} /\ still' = 0 /\ UNCHANGED <<key, holdAge, told>>
KeypadRestart ==      \* after a deep sleep, perhaps with a key that is down
  /\ key' = [i \in 1..ListMax |-> NoKey] /\ holdAge' = HoldTime + 1 /\ told' = Silent
  /\ still' = 0 /\ UNCHANGED contacts

KeypadScan == \E dt \in 0..MaxWait : keyboardScan(dt)
KeypadNext == KeypadScan \/ KeypadRestart \/ \E k \in Fitted : Press(k) \/ LetGo(k)
KeypadSpec == KeypadInit /\ [][KeypadNext]_keypadVars

-----------------------------------------------------------------------------
\* A key is on the list at most once, and what is not on it is idle.
KeypadTypeOK ==
  /\ contacts \subseteq Fitted /\ holdAge \in 0..(HoldTime + 1)
  /\ key \in [1..ListMax -> [kcode : Fitted \cup {-1}, kstate : KeyStates, stateChanged : BOOLEAN]]
  /\ \A i, j \in 1..ListMax : key[i].kcode = key[j].kcode /\ i # j => key[i].kcode = -1
  /\ \A i \in 1..ListMax : key[i].kcode = -1 => key[i] = NoKey

\* The events of a key are those of KeyGestures, though without Long and Short: a
\* Press and a Release take turns, whatever happens to the list in between.
DownOnList(k) == \E i \in Slots(key, k) : key[i].kstate \in {"PRESSED", "HOLD"}
Plain == INSTANCE KeyGestures WITH
  Keys <- Fitted, phase <- [k \in Fitted |-> IF DownOnList(k) THEN "down" ELSE "up"],
  out <- told, lost <- {}
KeypadMeetsGestures == Plain!Spec

\* Once the keys have rested for four scans, those that are down are on the list, had
\* their Press and will have their Release, unless more are down than it has places;
\* and all the others have had their Release.
ListCatchesUp ==
  still = Rested =>
    /\ \A k \in Fitted : DownOnList(k) => k \in contacts
    /\ Cardinality(contacts) <= ListMax => \A k \in contacts : DownOnList(k)

\* The list keeps up with the keys, and the user interface hears of them as of any other
\* keyboard: by a Press and a Release in turn (HardwareRev1.cpp:63-84).
KeypadFollows == [](KeypadTypeOK /\ ListCatchesUp) /\ KeypadMeetsGestures
=============================================================================
