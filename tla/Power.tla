--------------------------------- MODULE Power ---------------------------------
(***************************************************************************)
(* When the remote goes to sleep and how it comes back                     *)
(* (lib/esp32HalImpl/HardwareRevX.cpp, loopHandler, enterSleep,            *)
(* lightSleepWakeReint, init), with the screen light of Backlight.         *)
(*                                                                         *)
(* One unit of time is one step of a fade.  The main loop runs             *)
(* loopHandler again and again; synchronising with servers, drawing and    *)
(* the like may keep it busy for up to MaxLate units between two passes of *)
(* its timed part, which may be far longer than the screen takes to dim:   *)
(* connecting to the MQTT broker alone blocks for a second and more.       *)
(*                                                                         *)
(* Definitions introduced by "Mutant" are plausible mistakes in the one    *)
(* that follows them; no action uses them.                                 *)
(***************************************************************************)
EXTENDS Backlight

CONSTANTS
  Timeouts,       (* the sleep timeouts on offer                           *)
  DefaultTimeout, (* SLEEP_TIMEOUT                                         *)
  Choices,        (* bound: the settings that the user tries out           *)
  DimAt,          (* 750 ms                                                *)
  TestEvery,      (* 20 passes                                             *)
  LowTests,       (* 4 tests                                               *)
  MaxLate         (* bound: the longest time between two passes            *)

Settings == [sleepTimeout : Timeouts, lightSleep : BOOLEAN]

ASSUME PowerAssumption ==
  /\ Lights = {"lcd"}
  /\ Timeouts \subseteq Nat \ {0}
  /\ DefaultTimeout \in Timeouts
  /\ Choices \subseteq Settings
  /\ DimAt \in Nat
  /\ DimAt > FadeSteps                     \* 750 ms and 300 ms
  /\ \A t \in Timeouts : t >= 2 * DimAt   \* 10 s are the shortest
  /\ TestEvery \in Nat \ {0}
  /\ LowTests \in Nat \ {0}
  /\ MaxLate \in Nat \ {0}

VARIABLES
  mode,           (* running, or the kind of sleep                         *)
  standbyTimer,   (* mStandbyTimer                                         *)
  late,           (* the time since mIMUTaskTimer                          *)
  secCount,       (* secCount of loopHandler                               *)
  lowBattTimer,   (* lowBattTimer of loopHandler                           *)
  inScene,        (* mInScene, set by the home screen                      *)
  settings,       (* mSleepTimeout, mLightSleepEnabled                     *)
  unsaved,        (* a settings page is open and has changed something     *)
  flash,          (* what saveSettings wrote                               *)
  batteryLow,     (* the battery is below 3450 mV                          *)
  idle,           (* history: the time since the last sign of use, or,     *)
                  (* when that was a touch, since the pass before it;      *)
                  (* it is counted up to armed                             *)
  armed,          (* history: the timeout the timer was last set to        *)
  prompt,         (* history: no pass since then came later than Slack     *)
  inTheWay        (* history: the screen was asked to dim while a fade was *)
                  (* under way, which swallowed the request                *)

kept  == <<settings, unsaved, flash>>
pvars == <<mode, standbyTimer, late, secCount, lowBattTimer, inScene, settings, unsaved,
           flash, batteryLow, idle, armed, prompt>>
vars  == <<bvars, pvars, inTheWay>>

Defaults  == [sleepTimeout |-> DefaultTimeout, lightSleep |-> FALSE]
NeverSaved == [alreadySetUp |-> FALSE, values |-> Defaults]

(* How late two passes may be for a fade to fit between dimming and sleep. *)
Slack == (DimAt - FadeSteps - 1) \div 2

PowerTypeOK ==
  /\ LightTypeOK
  /\ mode \in {"on", "light", "deep"}
  /\ standbyTimer \in Nat
  /\ late \in 0..MaxLate
  /\ secCount \in 0..TestEvery
  /\ lowBattTimer \in 0..LowTests
  /\ inScene \in BOOLEAN
  /\ settings \in Settings
  /\ unsaved \in BOOLEAN
  /\ flash \in [alreadySetUp : BOOLEAN, values : Settings]
  /\ batteryLow \in BOOLEAN
  /\ idle \in Nat
  /\ armed \in Timeouts
  /\ prompt \in BOOLEAN
  /\ inTheWay \in BOOLEAN

PowerInit ==
  /\ LightInit
  /\ mode = "on"
  /\ standbyTimer = DefaultTimeout
  /\ late = 0
  /\ secCount = TestEvery
  /\ lowBattTimer = 0
  /\ inScene = FALSE
  /\ settings = Defaults
  /\ unsaved = FALSE
  /\ flash = NeverSaved
  /\ batteryLow \in BOOLEAN
  /\ idle = 0
  /\ armed = DefaultTimeout
  /\ prompt = TRUE
  /\ inTheWay = FALSE

-------------------------------------------------------------------------------
(* Use                                                                     *)

Armed == /\ standbyTimer' = settings.sleepTimeout
         /\ armed' = settings.sleepTimeout

(* A touch is reported when LVGL polls the panel, between two passes, and  *)
(* may move the slider of the Display Settings page.                       *)
Touch ==
  /\ mode = "on"
  /\ Armed
  /\ idle' = late
  /\ prompt' = (late <= Slack)
  /\ UNCHANGED bvars \/ \E b \in Levels : SetDayBrightness("lcd", b)
  /\ UNCHANGED <<mode, late, secCount, lowBattTimer, inScene, kept, batteryLow, inTheWay>>

(* The System Settings page, and its destructor.                           *)
Set(values) ==
  /\ mode = "on"
  /\ settings' = values
  /\ unsaved' = TRUE
  /\ UNCHANGED <<bvars, mode, standbyTimer, late, secCount, lowBattTimer, inScene, flash,
                 batteryLow, idle, armed, prompt, inTheWay>>

(* Mutant: the flag that tells a restart to read the values is not written.*)
SaveUnmarked ==
  /\ mode = "on" /\ unsaved
  /\ flash' = [flash EXCEPT !.values = settings]
  /\ unsaved' = FALSE
  /\ UNCHANGED <<bvars, mode, standbyTimer, late, secCount, lowBattTimer, inScene, settings,
                 batteryLow, idle, armed, prompt, inTheWay>>

SaveSettings ==
  /\ mode = "on" /\ unsaved
  /\ flash' = [alreadySetUp |-> TRUE, values |-> settings]
  /\ unsaved' = FALSE
  /\ UNCHANGED <<bvars, mode, standbyTimer, late, secCount, lowBattTimer, inScene, settings,
                 batteryLow, idle, armed, prompt, inTheWay>>

SetInScene(b) ==
  /\ mode = "on"
  /\ inScene' = b
  /\ UNCHANGED <<bvars, mode, standbyTimer, late, secCount, lowBattTimer, kept, batteryLow,
                 idle, armed, prompt, inTheWay>>

(* The battery runs low, or is charged.                                    *)
Battery ==
  /\ batteryLow' = ~batteryLow
  /\ UNCHANGED <<bvars, mode, standbyTimer, late, secCount, lowBattTimer, inScene, kept,
                 idle, armed, prompt, inTheWay>>

-------------------------------------------------------------------------------
(* The main loop                                                           *)

FadesMove == IF \E c \in Lights : Fading(c) THEN \E c \in Lights : FadeTask(c)
                                            ELSE UNCHANGED bvars

(* A unit of time: a fade takes a step; the loop is in one pass or between *)
(* two of them.                                                            *)
Tick ==
  /\ mode = "on" /\ late < MaxLate
  /\ late' = late + 1
  /\ idle' = IF idle < armed THEN idle + 1 ELSE idle
  /\ prompt' = (prompt /\ late < Slack)
  /\ FadesMove
  /\ UNCHANGED <<mode, standbyTimer, secCount, lowBattTimer, inScene, kept, batteryLow, armed,
                 inTheWay>>

(* Mutant: only when it is about to sleep.                                 *)
DimsLate == standbyTimer = 0

Dims == standbyTimer < DimAt

(* Each time round, also when the timed part is not due yet.               *)
Dim ==
  /\ mode = "on"
  /\ IF Dims THEN Sleep ELSE Wake
  /\ inTheWay' = (Dims /\ Fading("lcd"))
  /\ UNCHANGED pvars

(* Mutant: the time that has passed is counted twice.                      *)
TimerAfterTwice(active) ==
  IF active THEN settings.sleepTimeout
  ELSE IF standbyTimer > 2 * late THEN standbyTimer - 2 * late ELSE 0

TimerAfter(active) ==
  IF active THEN settings.sleepTimeout
  ELSE IF standbyTimer > late THEN standbyTimer - late ELSE 0

TestDue == secCount + 1 >= TestEvery

(* Mutant: only tests count as time.                                       *)
LowBattAfterReset == IF TestDue /\ batteryLow THEN lowBattTimer + 1 ELSE 0

LowBattAfter == IF ~TestDue THEN lowBattTimer
                ELSE IF batteryLow THEN lowBattTimer + 1 ELSE 0

LightSleepAllowed == inScene /\ settings.lightSleep

(* What the timed part ends in.                                            *)
ModeAfter(timer, low) ==
  IF TestDue /\ timer = 0 THEN IF LightSleepAllowed THEN "light" ELSE "deep"
  ELSE IF low >= LowTests THEN "deep" ELSE "on"

(* The light sensor is looked at in each pass; without one, only once.     *)
LightScan ==
  IF HasSensor THEN UNCHANGED bvars \/ \E light \in Ambient : Sense(light)
  ELSE IF firstData THEN Sense("dusk") ELSE UNCHANGED bvars

(* The timed part.  The light has been asked to follow the timer before,   *)
(* in the same round.  active: the accelerometer, or a key.                *)
Pass(active) ==
  /\ mode = "on" /\ late > 0
  /\ (isAsleep <=> Dims)
  /\ standbyTimer' = TimerAfter(active)
  /\ secCount' = IF TestDue THEN 0 ELSE secCount + 1
  /\ lowBattTimer' = LowBattAfter
  /\ mode' = ModeAfter(standbyTimer', lowBattTimer')
  /\ late' = 0
  /\ IF active THEN idle' = 0 /\ armed' = settings.sleepTimeout /\ prompt' = TRUE
               ELSE UNCHANGED <<idle, armed, prompt>>
  /\ LightScan
  /\ UNCHANGED <<inScene, kept, batteryLow, inTheWay>>

-------------------------------------------------------------------------------
(* Asleep                                                                  *)

(* The light sleep ends by its timer, and the remote goes on to a deep one.*)
LightSleepExpires ==
  /\ mode = "light"
  /\ mode' = "deep"
  /\ UNCHANGED <<bvars, standbyTimer, late, secCount, lowBattTimer, inScene, kept, batteryLow,
                 idle, armed, prompt, inTheWay>>

(* A key, the accelerometer or the charger ends it: lightSleepWakeReint,   *)
(* and the rest of the pass, which goes on with the voltage read before.   *)
WakeFromLight ==
  /\ mode = "light"
  /\ mode' = IF lowBattTimer >= LowTests THEN "deep" ELSE "on"
  /\ ReInit
  /\ Armed
  /\ idle' = 0
  /\ prompt' = TRUE
  /\ late' = 0
  /\ secCount' = TestEvery
  /\ inTheWay' = FALSE
  /\ UNCHANGED <<lowBattTimer, inScene, kept, batteryLow>>

Restored == IF flash.alreadySetUp THEN flash.values ELSE Defaults

(* A deep sleep ends in a restart; only the flash has kept anything.       *)
WakeFromDeep ==
  /\ mode = "deep"
  /\ mode' = "on"
  /\ Reboot
  /\ settings' = Restored
  /\ standbyTimer' = Restored.sleepTimeout
  /\ armed' = Restored.sleepTimeout
  /\ idle' = 0
  /\ prompt' = TRUE
  /\ late' = 0
  /\ secCount' = TestEvery
  /\ lowBattTimer' = 0
  /\ inScene' \in BOOLEAN
  /\ unsaved' = FALSE
  /\ inTheWay' = FALSE
  /\ UNCHANGED <<flash, batteryLow>>

-------------------------------------------------------------------------------

Use == Touch \/ Pass(TRUE) \/ WakeFromLight \/ WakeFromDeep

PowerNext ==
  \/ Use
  \/ \E values \in Choices : Set(values)
  \/ SaveSettings
  \/ \E b \in BOOLEAN : SetInScene(b)
  \/ Battery
  \/ Tick
  \/ Dim
  \/ Pass(FALSE)
  \/ LightSleepExpires

PowerSpec == PowerInit /\ [][PowerNext]_vars

(* Time passes, the loop runs, and the timer of a light sleep expires.     *)
FairPowerSpec ==
  /\ PowerSpec
  /\ WF_vars(Tick)
  /\ WF_vars(Dim)
  /\ WF_vars(Pass(TRUE) \/ Pass(FALSE))
  /\ WF_vars(LightSleepExpires)

-------------------------------------------------------------------------------
(* Properties                                                              *)

(* The remote does not sleep while it is used, however late the loop:      *)
(* when it sleeps for another reason than its battery, the timeout has     *)
(* passed since the last use, but for the time between two passes, which   *)
(* is charged in full to a touch that fell into it (120-124, 470-480).     *)
NotWhileUsed == mode # "on" /\ lowBattTimer < LowTests => idle >= armed

(* The screen is dark, and no fade left to be frozen, when a light sleep   *)
(* begins: dimming was asked for 750 ms before, and a fade takes 300.      *)
(* Only two things can undo it.  A pass later than Slack, 220 ms, leaves   *)
(* no time for the fade; and a fade that the light sensor has begun at the *)
(* wrong moment swallows the request to dim.  Then a fade frozen by the    *)
(* sleep goes on after it and swallows reInit's request for light          *)
(* (463, 397, display.cpp:335).                                            *)
DarkInLightSleep == mode = "light" =>
  \/ ~Fading("lcd") /\ level["lcd"] = 0
  \/ ~prompt
  \/ HasSensor /\ inTheWay

(* Once no settings page has changes left to save, the settings in force   *)
(* are those that a restart would bring back (218-237, 414-436).           *)
SettingsKept == mode # "deep" /\ ~unsaved => settings = Restored

(* A remote left alone ends up in deep sleep, also by way of a light sleep *)
(* (512-524, 372-378).                                                     *)
LeftAloneSleepsDeep == <>[][~Use]_vars => <>[](mode = "deep")

(* Under a battery that stays low the remote stops whatever is done with   *)
(* it, again after each restart (527-539).                                 *)
LowBatteryStops == <>[]batteryLow => []<>(mode = "deep")

(* The battery is spared: a remote left alone ends in deep sleep, and one  *)
(* whose battery stays low stops whatever is done with it.                 *)
BatterySpared == LeftAloneSleepsDeep /\ LowBatteryStops
=============================================================================
