----------------------------- MODULE KeyboardRev5 -----------------------------
(***************************************************************************)
(* The keyboard of hardware revision 5 (lib/rev5HalImpl/HardwareRev5.cpp): *)
(* a controller chip (TCA8418) queues the movements of the keys, and       *)
(* keyboardScan, called by the main loop, reads one of them per call and   *)
(* turns the state of every key into Press, Repeat, Long, Release and      *)
(* Short events.  A key is timed from the scan that read its movement, not *)
(* from the movement; the loop may be late by any amount.                  *)
(*                                                                         *)
(* Times are ages, in units in which LongPress stands for 500 ms and       *)
(* RepeatGap for 200 ms, and are cut off where no test can see them.       *)
(*                                                                         *)
(* Definitions introduced by "Mutant" are plausible mistakes in the one    *)
(* that follows them; no action uses them.                                 *)
(***************************************************************************)
EXTENDS Naturals, Sequences

CONSTANTS
  Keys,
  FifoSize,       (* events the controller keeps: 10 in the TCA8418        *)
  LongPress,      (* 500 ms                                                *)
  RepeatGap,      (* 200 ms                                                *)
  MaxDelay        (* bound: the longest time between two scans             *)

ASSUME KeyboardAssumption ==
  /\ FifoSize \in Nat
  /\ LongPress \in Nat /\ RepeatGap \in Nat /\ RepeatGap < LongPress
  /\ MaxDelay \in Nat

VARIABLES
  down,           (* the keys that are physically down                     *)
  fifo,           (* the controller's event queue                          *)
  isPressed,      (* keyState::isPressed                                   *)
  wasPressed,     (* keyState::wasPressed                                  *)
  longSent,       (* keyState::longSent                                    *)
  held,           (* age of keyState::firstPressedTime                     *)
  quiet,          (* age of keyState::lastRepeatedTime                     *)
  out,            (* per key, the events the last step handed to the UI    *)
  lost            (* history: the keys of which the controller has lost a  *)
                  (* movement                                              *)

states == <<isPressed, wasPressed, longSent, held, quiet>>
vars   == <<down, fifo, isPressed, wasPressed, longSent, held, quiet, out,
            lost>>

Event     == [key : Keys, press : BOOLEAN]
Silence   == [k \in Keys |-> << >>]
Aged(age, dt, limit) == IF age + dt > limit THEN limit + 1 ELSE age + dt

TypeOK ==
  /\ down \subseteq Keys
  /\ fifo \in Seq(Event) /\ Len(fifo) <= FifoSize
  /\ isPressed \in [Keys -> BOOLEAN]
  /\ wasPressed \in [Keys -> BOOLEAN]
  /\ longSent \in [Keys -> BOOLEAN]
  /\ held \in [Keys -> 0..(LongPress + 1)]
  /\ quiet \in [Keys -> 0..(RepeatGap + 1)]
  /\ out \in [Keys -> Seq({"Press", "Repeat", "Long", "Release", "Short"})]
  /\ lost \subseteq Keys

Fresh ==
  /\ isPressed = [k \in Keys |-> FALSE]
  /\ wasPressed = [k \in Keys |-> FALSE]
  /\ longSent = [k \in Keys |-> FALSE]
  /\ held = [k \in Keys |-> LongPress + 1]
  /\ quiet = [k \in Keys |-> RepeatGap + 1]
  /\ out = Silence

Init ==
  /\ down = {}
  /\ fifo = << >>
  /\ lost = {}
  /\ Fresh

-------------------------------------------------------------------------------
(* The controller: a key moves, and the movement is queued                 *)
Moved(k) == IF k \in down THEN down \ {k} ELSE down \cup {k}

KeyMoves(k) ==
  /\ Len(fifo) < FifoSize
  /\ down' = Moved(k)
  /\ fifo' = Append(fifo, [key |-> k, press |-> k \notin down])
  /\ out' = Silence
  /\ UNCHANGED <<states, lost>>

(* The queue is full; the overflow interrupt is not enabled.               *)
Overrun(k) ==
  /\ Len(fifo) >= FifoSize
  /\ down' = Moved(k)
  /\ lost' = lost \cup {k}
  /\ out' = Silence
  /\ UNCHANGED <<fifo, states>>

-------------------------------------------------------------------------------
(* keyboardScan                                                            *)

(* Mutant: a Long at every scan.                                           *)
EventsNotOnce(was, now, long, age, still) ==
  IF now /\ ~was THEN <<"Press">>
  ELSE IF was /\ ~now
  THEN IF age < LongPress THEN <<"Release", "Short">> ELSE <<"Release">>
  ELSE IF ~now THEN << >>
  ELSE IF age >= LongPress
  THEN IF still > RepeatGap THEN <<"Repeat", "Long">> ELSE <<"Long">>
  ELSE IF still > RepeatGap THEN <<"Repeat">> ELSE << >>

(* What one key sends: a change of state, or the passing of time.          *)
Events(was, now, long, age, still) ==
  IF now /\ ~was THEN <<"Press">>
  ELSE IF was /\ ~now
  THEN IF age < LongPress THEN <<"Release", "Short">> ELSE <<"Release">>
  ELSE IF ~now THEN << >>
  ELSE IF age >= LongPress /\ ~long
  THEN IF still > RepeatGap THEN <<"Repeat", "Long">> ELSE <<"Long">>
  ELSE IF still > RepeatGap THEN <<"Repeat">> ELSE << >>

Sends(events, type) == \E i \in 1..Len(events) : events[i] = type

(* Mutant: longSent is not reset by the next press.                        *)
LongSentForever(k, events) == longSent[k] \/ Sends(events, "Long")

LongSentAfter(k, events) ==
  ~Sends(events, "Press") /\ (longSent[k] \/ Sends(events, "Long"))

Reads(k) == fifo # << >> /\ Head(fifo).key = k

(* Mutant: the release does not reset isPressed.                           *)
PressedOnly(k) == IF Reads(k) THEN isPressed[k] \/ Head(fifo).press ELSE isPressed[k]

PressedAfter(k) == IF Reads(k) THEN Head(fifo).press ELSE isPressed[k]

Begins(k) == Reads(k) /\ Head(fifo).press

AgeAfter(k, dt)   == IF Begins(k) THEN 0 ELSE Aged(held[k], dt, LongPress)
StillAfter(k, dt) == IF Begins(k) THEN 0 ELSE Aged(quiet[k], dt, RepeatGap)

Sent(k, dt) == Events(wasPressed[k], PressedAfter(k), longSent[k],
                      AgeAfter(k, dt), StillAfter(k, dt))

Scan(dt) ==
  /\ fifo' = IF fifo = << >> THEN fifo ELSE Tail(fifo)
  /\ isPressed' = [k \in Keys |-> PressedAfter(k)]
  /\ wasPressed' = [k \in Keys |-> PressedAfter(k)]
  /\ longSent' = [k \in Keys |-> LongSentAfter(k, Sent(k, dt))]
  /\ held' = [k \in Keys |-> AgeAfter(k, dt)]
  /\ quiet' = [k \in Keys |-> IF Sends(Sent(k, dt), "Repeat") THEN 0
                              ELSE StillAfter(k, dt)]
  /\ out' = [k \in Keys |-> Sent(k, dt)]
  /\ UNCHANGED <<down, lost>>

-------------------------------------------------------------------------------
(* Deep sleep and restart: the key states are lost; the controller stays   *)
(* powered, and setupKeyboard flushes its queue unless a key woke us.      *)
Restart(byKey) ==
  /\ isPressed' = [k \in Keys |-> FALSE]
  /\ wasPressed' = [k \in Keys |-> FALSE]
  /\ longSent' = [k \in Keys |-> FALSE]
  /\ held' = [k \in Keys |-> LongPress + 1]
  /\ quiet' = [k \in Keys |-> RepeatGap + 1]
  /\ out' = Silence
  /\ fifo' = IF byKey THEN fifo ELSE << >>
  /\ UNCHANGED <<down, lost>>

Next ==
  \/ \E k \in Keys : KeyMoves(k) \/ Overrun(k)
  \/ \E dt \in 0..MaxDelay : Scan(dt)
  \/ \E byKey \in BOOLEAN : Restart(byKey)

Spec == Init /\ [][Next]_vars

(* The main loop calls keyboardScan for ever.                              *)
FairSpec == Spec /\ WF_vars(\E dt \in 0..MaxDelay : Scan(dt))

-------------------------------------------------------------------------------
(* Properties                                                              *)

(* No key gets stuck: if none of its movements was lost, a key the scanner *)
(* takes for pressed, or will, is down, or its release is queued behind;   *)
(* otherwise it would repeat, and keep the remote awake, until it is       *)
(* pressed again (235-256).                                                *)
Undone(k, i) ==
  \/ k \in down
  \/ \E j \in (i + 1)..Len(fifo) : fifo[j].key = k /\ ~fifo[j].press

NoStuckKey == \A k \in Keys \ lost :
  /\ isPressed[k] => Undone(k, 0)
  /\ \A i \in 1..Len(fifo) : fifo[i].key = k /\ fifo[i].press => Undone(k, i)

(* A key that stays up is eventually taken for released, unless one of its *)
(* movements was lost (206-256).                                           *)
ReleaseIsSeen ==
  \A k \in Keys : <>[](k \notin down \cup lost) => <>[](~isPressed[k])

(* Seen from the user interface the keys behave as KeyGestures says; a key *)
(* of which movements were lost may add a Short to a Long, but still sends *)
(* no two Presses, and no two Longs, before its Release (280-323).         *)
Gestures == INSTANCE KeyGestures
  WITH phase <- [k \in Keys |-> IF ~wasPressed[k] THEN "up"
                                ELSE IF longSent[k] THEN "held" ELSE "down"]
MeetsGestures == Gestures!Spec
=============================================================================
