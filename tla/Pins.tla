--------------------------------- MODULE Pins ---------------------------------
(***************************************************************************)
(* The pins of the controller through a start, a sleep and both ways to    *)
(* wake up: lib/esp32HalImpl/HardwareRevX.cpp (initIO, init, enterSleep,   *)
(* lightSleepWakeReint), what the two boards add to it, the start of the   *)
(* display and the interrupt of the motion sensor.                         *)
(*                                                                         *)
(* These functions are straight lines of writes to hardware, and what can  *)
(* be wrong with them is their order.  So a function is a script, a        *)
(* sequence of operations, and a step of the controller carries out the    *)
(* first one; keys, movement and settings come in between.  A held pad     *)
(* keeps its output whatever is written to it until it is released; a deep *)
(* sleep ends in a reset, which loses everything but the holds.            *)
(***************************************************************************)
EXTENDS Naturals, Sequences

Boards == {"rev1", "rev5", "rev5_3661"}
Rev5   == Boards \ {"rev1"}
Pins   == {"LCD_EN", "LCD_BL", "GPIO3", "ACC_INT", "TCA_INT", "SD_EN", "SW"}
PadLevels  == {"H", "L", "Z"}
SleepModes == {"DEEP_SLEEP", "LIGHT_DEEP_SLEEP", "LIGHT_SLEEP_WAKE_ON_CHG"}
Reasons    == {"RESET", "IMU", "KEYPAD", "CHARGER", "TIMER"}
Free == "free"

VARIABLES
  board,          (* OMOTE_HARDWARE_REV5, OMOTE_KEYBRD_3661                *)
  cpu,            (* "on", "light" or "deep"                               *)
  script,         (* the operations that are still to be carried out       *)
  pin,            (* mode and output register of each pin                  *)
  hold,           (* what a held pad shows, or Free                        *)
  deepHold,       (* gpio_deep_sleep_hold_en                               *)
  sources,        (* what may end the sleep                                *)
  sleepMode,      (* the argument of enterSleep                            *)
  wakeReason,     (* mWakeupReason                                         *)
  wakeupByIMU,    (* mWakeupByIMUEnabled                                   *)
  imu,            (* the sensor's registers: whether movement interrupts,  *)
                  (* the polarity, and the latched interrupt               *)
  key,            (* a key is down (rev1), or unread events (rev5)         *)
  moved           (* history: the remote was moved since it went to sleep  *)

pinVars == <<board, cpu, script, pin, hold, deepHold, sources, sleepMode,
             wakeReason, wakeupByIMU, imu, key, moved>>

Off(b) == IF b = "rev5_3661" THEN "L" ELSE "H"   \* LCD_BL_OFF

(* What the pad of p shows. *)
Drives(x) == CASE x.mode = "out"  -> x.level
               [] x.mode = "up"   -> "H"
               [] x.mode = "down" -> "L"
               [] x.mode = "in"   -> "Z"
               [] x.mode = "pwm"  -> Off(board)
Pad(p) == IF hold[p] # Free THEN hold[p] ELSE Drives(pin[p])
AtReset == [p \in Pins |-> [mode |-> "in", level |-> "L"]]

(* The lines that wake the controller. *)
AccLine == IF imu.latched = imu.activeLow THEN "L" ELSE "H"
KeyLine == CASE board = "rev1" -> IF key /\ Pad("SW") = "H" THEN "H" ELSE "L"
             [] board \in Rev5 -> IF key THEN "L" ELSE "H"

PinsTypeOK ==
  /\ board \in Boards
  /\ cpu \in {"on", "light", "deep"}
  /\ pin \in [Pins -> [mode : {"in", "out", "up", "down", "pwm"}, level : {"H", "L"}]]
  /\ hold \in [Pins -> PadLevels \cup {Free}]
  /\ deepHold \in BOOLEAN
  /\ sources \subseteq {"ANY_HIGH", "ANY_LOW", "EXT0", "TIMER"}
  /\ sleepMode \in SleepModes
  /\ wakeReason \in Reasons
  /\ wakeupByIMU \in BOOLEAN
  /\ imu \in [enabled : BOOLEAN, activeLow : BOOLEAN, latched : BOOLEAN]
  /\ key \in BOOLEAN
  /\ moved \in BOOLEAN
-----------------------------------------------------------------------------
(* The scripts. *)
PinMode(p, mode) == <<"mode", p, mode>>
Write(p, level)  == <<"write", p, level>>
Hold(p)          == <<"hold", p>>
Release(p)       == <<"release", p>>
ClearInterrupt   == <<"clear">>
SleepNow(kind)   == <<"sleep", kind>>
Only(condition, ops) == IF condition THEN ops ELSE << >>

InitIOX(b) ==
     << PinMode("LCD_EN", "out"), Write("LCD_EN", "H"),
        PinMode("LCD_BL", "out"), Write("LCD_BL", Off(b)),
        PinMode("ACC_INT", "in"),
        Release("LCD_EN"), Release("ACC_INT") >>
  \o Only(b \in Rev5, <<Release("TCA_INT"), Release("SD_EN")>>)
  \o << Release(IF b = "rev5_3661" THEN "GPIO3" ELSE "LCD_BL"), <<"deepHoldOff">> >>

InitIORev1 == <<PinMode("SW", "out"), Release("SW")>>
InitIORev5 == <<PinMode("SD_EN", "out"), Write("SD_EN", "H"), PinMode("TCA_INT", "in")>>

InitIO(b) == InitIOX(b) \o IF b = "rev1" THEN InitIORev1 ELSE InitIORev5

(* Display's constructor, and reInit. *)
SetupBacklight == <<PinMode("LCD_BL", "pwm")>>
DisplayStart(b) ==
     << PinMode("LCD_EN", "out"), Write("LCD_EN", "H"),
        Write("LCD_BL", Off(b)), PinMode("LCD_BL", "out") >>
  \o SetupBacklight
  \o Only(b = "rev1", <<Write("LCD_EN", "H"), Write("LCD_EN", "L"), Write("LCD_EN", "H")>>)
  \o << Write("LCD_EN", "L") >>

(* SetupIMU clears the interrupt and leaves its configuration.             *)
(* Unread keys are thrown away unless one of them caused the start.        *)
SetupIMU == <<ClearInterrupt>>
SetupKeyboard(b) == Only(b \in Rev5, <<PinMode("TCA_INT", "in"), <<"flush">> >>)
Boot(b) == InitIO(b) \o DisplayStart(b) \o SetupIMU \o SetupKeyboard(b)

SleepDisplayPins(b) == Only(b \in Rev5, <<PinMode("SD_EN", "up")>>)

SwitchDisplayOff(b) ==
     << PinMode("LCD_EN", "up") >>
  \o IF b = "rev5_3661"
     THEN <<PinMode("LCD_BL", "down"), PinMode("GPIO3", "up"), Hold("GPIO3")>>
     ELSE <<PinMode("LCD_BL", "up"), Hold("LCD_BL")>>

ConfigPinsForSleepInterrupts(b) ==
  Only(b = "rev1", <<PinMode("SW", "out"), Write("SW", "H"), Hold("SW")>>)

ConfigIMUInterrupts == << <<"imuConfig">>, <<"imuPolarity">> >>
EnableWakeupByPin(b) == <<"enable", IF b = "rev1" THEN "ANY_HIGH" ELSE "ANY_LOW">>

(* Mutant: cleared before the interrupts are set up, not after.            *)
MutantClearsOnce == <<ClearInterrupt>> \o ConfigIMUInterrupts
ConfigureIMU == <<ClearInterrupt>> \o ConfigIMUInterrupts \o <<ClearInterrupt>>

EnterSleep(b, mode) ==
     ConfigureIMU
  \o SleepDisplayPins(b)
  \o SwitchDisplayOff(b)
  \o ConfigPinsForSleepInterrupts(b)
  \o << Hold("LCD_EN"), Hold("ACC_INT") >>
  \o Only(b \in Rev5, <<Hold("TCA_INT"), Hold("SD_EN")>>)
  \o << <<"deepHoldOn">>, <<"disableAll">>, EnableWakeupByPin(b) >>
  \o IF mode = "DEEP_SLEEP" THEN <<SleepNow("deep")>>
     ELSE Only(mode = "LIGHT_SLEEP_WAKE_ON_CHG", << <<"enable", "EXT0">> >>)
          \o << <<"enable", "TIMER">>, SleepNow("light") >>

(* Mutant: the holds are released on the way from light to deep sleep.     *)
MutantReleasesBeforeDeep(b, mode, reason) ==
  IF reason = "TIMER" /\ mode = "LIGHT_DEEP_SLEEP"
  THEN << <<"deepHoldOff">>, <<"disableAll">>, EnableWakeupByPin(b), SleepNow("deep") >>
  ELSE << <<"deepHoldOff">> >> \o InitIO(b) \o DisplayStart(b) \o SetupIMU
LightSleepWakeReint(b, mode, reason) ==
  IF reason = "TIMER" /\ mode = "LIGHT_DEEP_SLEEP"
  THEN << <<"disableAll">>, EnableWakeupByPin(b), SleepNow("deep") >>
  ELSE << <<"deepHoldOff">> >> \o InitIO(b) \o DisplayStart(b) \o SetupIMU
-----------------------------------------------------------------------------
PinsInit ==
  /\ board \in Boards
  /\ cpu = "on"
  /\ script = Boot(board)
  /\ pin = AtReset
  /\ hold = [p \in Pins |-> Free]
  /\ deepHold = FALSE
  /\ sources = {}
  /\ sleepMode = "DEEP_SLEEP"
  /\ wakeReason = "RESET"
  /\ wakeupByIMU \in BOOLEAN
  /\ imu = [enabled |-> FALSE, activeLow |-> FALSE, latched |-> FALSE]
  /\ key = FALSE
  /\ moved = FALSE

Awake == cpu = "on" /\ script = << >>

(* The first operation of the script. *)
Carried(op) ==
  /\ pin' = CASE op[1] = "mode"  -> [pin EXCEPT ![op[2]].mode = op[3]]
              [] op[1] = "write" -> [pin EXCEPT ![op[2]].level = op[3]]
              [] OTHER -> pin
  /\ hold' = CASE op[1] = "hold"    -> [hold EXCEPT ![op[2]] = Pad(op[2])]
               [] op[1] = "release" -> [hold EXCEPT ![op[2]] = Free]
               [] OTHER -> hold
  /\ deepHold' = CASE op[1] = "deepHoldOn"  -> TRUE
                   [] op[1] = "deepHoldOff" -> FALSE
                   [] OTHER -> deepHold
  /\ sources' = CASE op[1] = "disableAll" -> {}
                  [] op[1] = "enable"     -> sources \cup {op[2]}
                  [] OTHER -> sources
  /\ imu' = CASE op[1] = "clear"       -> [imu EXCEPT !.latched = FALSE]
              [] op[1] = "imuConfig"   -> [imu EXCEPT !.enabled = wakeupByIMU]
              [] op[1] = "imuPolarity" -> [imu EXCEPT !.activeLow = board \in Rev5]
              [] OTHER -> imu
  /\ key' = (key /\ ~(op[1] = "flush" /\ wakeReason # "KEYPAD"))

Work ==
  /\ cpu = "on"
  /\ script # << >>
  /\ Head(script)[1] # "sleep"
  /\ Carried(Head(script))
  /\ script' = Tail(script)
  /\ UNCHANGED <<board, cpu, sleepMode, wakeReason, wakeupByIMU, moved>>

(* A deep sleep is not returned from: what was to follow is forgotten. *)
FallAsleep ==
  /\ cpu = "on"
  /\ script # << >>
  /\ Head(script)[1] = "sleep"
  /\ cpu' = Head(script)[2]
  /\ script' = << >>
  /\ pin' = IF cpu' = "deep" THEN AtReset ELSE pin
  /\ hold' = IF cpu' = "deep" /\ ~deepHold THEN [p \in Pins |-> Free] ELSE hold
  /\ UNCHANGED <<board, deepHold, sources, sleepMode, wakeReason, wakeupByIMU,
                 imu, key, moved>>

(* getWakeReason: the sensor's bit counts as movement when it is alone. *)
Active(line) == IF line = "H" THEN "ANY_HIGH" \in sources ELSE "ANY_LOW" \in sources
Signal(reason) ==
  CASE reason = "KEYPAD"  -> Active(KeyLine)
    [] reason = "IMU"     -> Active(AccLine) /\ ~Active(KeyLine)
    [] reason = "CHARGER" -> "EXT0" \in sources
    [] reason = "TIMER"   -> "TIMER" \in sources
    [] OTHER -> FALSE

WakeUp(reason) ==
  /\ cpu # "on"
  /\ Signal(reason)
  /\ cpu' = "on"
  /\ wakeReason' = reason
  /\ script' = IF cpu = "deep" THEN Boot(board)
               ELSE LightSleepWakeReint(board, sleepMode, reason)
  /\ UNCHANGED <<board, pin, hold, deepHold, sources, sleepMode, wakeupByIMU,
                 imu, key, moved>>

(* From outside.  On rev5 a key's release is an event, too. *)
GoToSleep ==
  /\ Awake
  /\ sleepMode' \in SleepModes
  /\ script' = EnterSleep(board, sleepMode')
  /\ moved' = FALSE
  /\ UNCHANGED <<board, cpu, pin, hold, deepHold, sources, wakeReason, wakeupByIMU,
                 imu, key>>

SetWakeupByIMU ==
  /\ Awake
  /\ wakeupByIMU' = ~wakeupByIMU
  /\ UNCHANGED <<board, cpu, script, pin, hold, deepHold, sources, sleepMode,
                 wakeReason, imu, key, moved>>

UseKey ==
  /\ \/ key' = TRUE
     \/ key' = FALSE /\ (board = "rev1" \/ Awake)
  /\ UNCHANGED <<board, cpu, script, pin, hold, deepHold, sources, sleepMode,
                 wakeReason, wakeupByIMU, imu, moved>>

Move ==
  /\ moved' = TRUE
  /\ imu' = [imu EXCEPT !.latched = @ \/ imu.enabled]
  /\ UNCHANGED <<board, cpu, script, pin, hold, deepHold, sources, sleepMode,
                 wakeReason, wakeupByIMU, key>>

PinsNext ==
  \/ Work
  \/ FallAsleep
  \/ \E reason \in Reasons : WakeUp(reason)
  \/ GoToSleep
  \/ SetWakeupByIMU
  \/ UseKey
  \/ Move

PinsSpec == PinsInit /\ [][PinsNext]_pinVars
PinsFairSpec == /\ PinsSpec
                /\ WF_pinVars(Work \/ FallAsleep)
                /\ WF_pinVars(\E reason \in Reasons : WakeUp(reason))
-----------------------------------------------------------------------------
(* While the controller sleeps, however it got there, the panel is switched *)
(* off and its backlight dark: what a deep sleep does not keep is held.     *)
DarkAsleep ==
  cpu # "on" => /\ Pad("LCD_EN") = "H"
                /\ IF board = "rev5_3661" THEN Pad("LCD_BL") # "H" ELSE Pad("LCD_BL") = "H"

(* After a sleep every hold is released, and the panel is on again.         *)
ReadyForUse ==
  Awake => /\ \A p \in Pins : hold[p] = Free
           /\ ~deepHold
           /\ Pad("LCD_EN") = "L"

(* The panel is switched on by the display's own start only: taking the     *)
(* pins over from a sleep must not switch it on for a moment before.        *)
NoFlash ==
  [][wakeReason # "RESET" /\ Pad("LCD_EN") # "L" /\ (Pad("LCD_EN") = "L")'
       => Head(script) = Write("LCD_EN", "L")]_pinVars

(* The reason that is reported is one there was, and movement wakes the     *)
(* remote only when the setting says so.                                    *)
WokenForCause ==
  [][cpu # "on" /\ cpu' = "on" =>
       /\ wakeReason' = "IMU" => moved /\ wakeupByIMU
       /\ wakeReason' = "KEYPAD" => key]_pinVars

(* A key that stays down wakes the remote from any sleep.                   *)
KeyWakesUp == cpu # "on" /\ key ~> cpu = "on" \/ ~key

(* The panel follows the sleeps of the controller: dark during each of     *)
(* them, not switched on by the way into the program, and free and on      *)
(* afterwards.                                                             *)
PanelFollows == [](PinsTypeOK /\ DarkAsleep /\ ReadyForUse) /\ NoFlash

(* Each wake-up has the cause it reports, and a key is a cause that is     *)
(* never missed, whatever moves between the steps of falling asleep.       *)
WakesForCause == WokenForCause /\ KeyWakesUp
=============================================================================
