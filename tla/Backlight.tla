------------------------------- MODULE Backlight -------------------------------
(***************************************************************************)
(* The backlights of the screen and of the keypad                          *)
(* (lib/esp32HalImpl/display/display.cpp) and the light sensor that drives *)
(* them (lib/rev5HalImpl/HardwareRev5.cpp, updateBacklightMode).           *)
(*                                                                         *)
(* Every change of brightness is carried out by a fade task, at most one   *)
(* per light, that is given its target when it is created.  A request made *)
(* while the light's task exists is dropped: the main loop finds the task  *)
(* handle set, or, in the task's last moments, the mutex taken.  Both have *)
(* the same effect, so one variable stands for handle and mutex.           *)
(*                                                                         *)
(* Definitions introduced by "Mutant" are plausible mistakes in the one    *)
(* that follows them; no action uses them.                                 *)
(***************************************************************************)
EXTENDS Integers

CONSTANTS
  Lights,         (* {"lcd"} on revision 1, {"lcd", "kbd"} on revision 5   *)
  Driven,         (* lights whose setCurrent...Brightness does something   *)
  HasSensor,      (* a light sensor, and night settings: OMOTE_KEYBRD_3661 *)
  MaxLevel,       (* 255                                                   *)
  FadeSteps       (* 30                                                    *)

ASSUME BacklightAssumption ==
  /\ "lcd" \in Driven /\ Driven \subseteq Lights
  /\ HasSensor \in BOOLEAN
  /\ MaxLevel \in Nat \ {0}
  /\ FadeSteps \in Nat \ {0}

Levels == 0..MaxLevel
Dark   == [c \in Lights |-> 0]

VARIABLES
  isAsleep,       (* mIsAsleep                                             *)
  isDay,          (* mIsDay                                                *)
  day,            (* mLcdDayBrightness, mKbdDayBrightness                  *)
  night,          (* mLcdNightBrightness, mKbdNightBrightness              *)
  level,          (* mLcdBrightness, mKbdBrightness                        *)
  fade,           (* per light, the task's arguments and steps, or NoFade  *)
  sensorDay,      (* backlight_mode_is_day                                 *)
  firstData       (* firstData of HardwareRevX::updateBacklightMode        *)

bvars  == <<isAsleep, isDay, day, night, level, fade, sensorDay, firstData>>
NoFade == [start |-> 0, target |-> 0, steps |-> 0, done |-> 0]
Fade   == [start : Levels, target : Levels, steps : {FadeSteps}, done : 0..FadeSteps]
Fading(c) == fade[c] # NoFade

LightTypeOK ==
  /\ isAsleep \in BOOLEAN
  /\ isDay \in BOOLEAN
  /\ day \in [Lights -> Levels]
  /\ night \in [Lights -> Levels]
  /\ level \in [Lights -> Levels]
  /\ \A c \in Lights : Fading(c) => fade[c] \in Fade /\ fade[c].done <= fade[c].steps
  /\ sensorDay \in BOOLEAN
  /\ firstData \in BOOLEAN

LightInit ==
  /\ isAsleep = FALSE
  /\ isDay = TRUE
  /\ day \in [Lights -> Levels] /\ day["lcd"] > 0         \* initBrightnessLevels
  /\ night \in [Lights -> Levels] /\ night["lcd"] > 0
  /\ level = Dark
  /\ fade = [c \in Lights |-> NoFade]
  /\ sensorDay = TRUE
  /\ firstData = TRUE

-------------------------------------------------------------------------------
(* startLcdFade and startKbdFade, after the other members have changed     *)

Setting(c) == IF isDay THEN day[c] ELSE night[c]

Target(c) == IF isAsleep THEN 0 ELSE Setting(c)

(* No caller asks for an instant change.                                   *)
Started(c) ==
  IF Fading(c) \/ level'[c] = Target(c)' THEN fade[c]
  ELSE [start |-> level'[c], target |-> Target(c)', steps |-> FadeSteps, done |-> 0]

StartFades == fade' = [c \in Lights |-> Started(c)]

Wake ==
  /\ isAsleep
  /\ isAsleep' = FALSE
  /\ UNCHANGED <<isDay, day, night, level, sensorDay, firstData>>
  /\ StartFades

Sleep ==
  /\ ~isAsleep
  /\ isAsleep' = TRUE
  /\ UNCHANGED <<isDay, day, night, level, sensorDay, firstData>>
  /\ StartFades

(* setLcdDayBrightness and setKbdDayBrightness; the night setters are      *)
(* empty without a sensor.                                                 *)
SetDayBrightness(c, b) ==
  /\ day' = [day EXCEPT ![c] = b]
  /\ UNCHANGED <<isAsleep, isDay, night, level, sensorDay, firstData>>
  /\ fade' = [fade EXCEPT ![c] = Started(c)]

SetNightBrightness(c, b) ==
  /\ HasSensor
  /\ night' = [night EXCEPT ![c] = b]
  /\ UNCHANGED <<isAsleep, isDay, day, level, sensorDay, firstData>>
  /\ fade' = [fade EXCEPT ![c] = Started(c)]

(* Mutant: judged by the mode.                                             *)
NeedsUpdateByMode(d) == d # isDay

(* setDayMode(d): whether there is anything to update is judged by the     *)
(* level of the screen, and mIsDay changes only if there is.               *)
NeedsUpdate(d) == level["lcd"] # (IF d THEN day["lcd"] ELSE night["lcd"])

(* updateBacklightMode, with hysteresis: dark means a level below 16,      *)
(* bright one above 40.                                                    *)
Ambient == {"dark", "dusk", "bright"}
DayAfter(light) == IF sensorDay THEN light # "dark" ELSE light = "bright"

(* New data of the light sensor; without one there is data once, to start  *)
(* the first fade.                                                         *)
Sense(light) ==
  /\ HasSensor \/ firstData
  /\ sensorDay' = IF HasSensor THEN DayAfter(light) ELSE sensorDay
  /\ firstData' = FALSE
  /\ LET updates == HasSensor /\ NeedsUpdate(sensorDay') IN
     /\ isDay' = IF updates THEN sensorDay' ELSE isDay
     /\ UNCHANGED <<isAsleep, day, night, level>>
     /\ IF updates \/ firstData THEN StartFades ELSE UNCHANGED fade

(* The end of a light sleep: reInit.                                       *)
ReInit ==
  /\ isAsleep' = FALSE
  /\ level' = Dark
  /\ UNCHANGED <<isDay, day, night, sensorDay, firstData>>
  /\ StartFades

(* Deep sleep, and the start after it: what was saved is initialised, no   *)
(* less than 10 for the screen.                                            *)
Reboot ==
  /\ isAsleep' = FALSE
  /\ isDay' = TRUE
  /\ day' \in [Lights -> Levels] /\ day'["lcd"] > 0
  /\ night' \in [Lights -> Levels] /\ night'["lcd"] > 0
  /\ level' = Dark
  /\ fade' = [c \in Lights |-> NoFade]
  /\ sensorDay' = TRUE
  /\ firstData' = TRUE

-------------------------------------------------------------------------------
(* fadeLcdImpl and fadeKbdImpl                                             *)

(* Mutant: not held at the target.                                         *)
BrightnessUnbounded(f) ==
  f.start + ((f.target - f.start) * (f.done + 1)) \div f.steps

(* The brightness after the next step, never beyond the target.            *)
Brightness(f) ==
  IF f.done + 1 >= f.steps THEN f.target
  ELSE f.start + ((f.target - f.start) * (f.done + 1)) \div f.steps

FadeStep(c) ==
  /\ Fading(c)
  /\ fade[c].done = 0 \/ level[c] # fade[c].target
  /\ level' = IF c \in Driven THEN [level EXCEPT ![c] = Brightness(fade[c])] ELSE level
  /\ fade' = IF fade[c].done < fade[c].steps
             THEN [fade EXCEPT ![c].done = @ + 1] ELSE fade
  /\ UNCHANGED <<isAsleep, isDay, day, night, sensorDay, firstData>>

FadeEnds(c) ==
  /\ Fading(c) /\ fade[c].done > 0 /\ level[c] = fade[c].target
  /\ fade' = [fade EXCEPT ![c] = NoFade]
  /\ UNCHANGED <<isAsleep, isDay, day, night, level, sensorDay, firstData>>

MainLoop ==
  \/ Wake
  \/ Sleep
  \/ \E c \in Lights, b \in Levels : SetDayBrightness(c, b) \/ SetNightBrightness(c, b)
  \/ \E light \in Ambient : Sense(light)
  \/ ReInit
  \/ Reboot

FadeTask(c) == FadeStep(c) \/ FadeEnds(c)

LightNext == MainLoop \/ \E c \in Lights : FadeTask(c)

LightSpec == LightInit /\ [][LightNext]_bvars

(* The fade tasks have a higher priority than the main loop, and the       *)
(* sensor has new data every 50 ms, in steady light too.                   *)
SteadyLight == \E light \in Ambient : Sense(light) /\ sensorDay' = sensorDay

LightFairSpec ==
  /\ LightSpec
  /\ \A c \in Lights : WF_bvars(FadeTask(c))
  /\ WF_bvars(SteadyLight)

-------------------------------------------------------------------------------
(* Properties                                                              *)

(* A fade never takes a light beyond the two settings it leads from and    *)
(* to, so it ends, also when a light sleep has reset the level under it    *)
(* (371-380).                                                              *)
FadeStaysBetween == \A c \in Lights : Fading(c) =>
  \/ level[c] = 0
  \/ level[c] \in fade[c].start..fade[c].target
  \/ level[c] \in fade[c].target..fade[c].start

(* What the user set for the light outside.                                *)
Wanted(c) == IF sensorDay THEN day[c] ELSE night[c]

(* While the remote stays awake, is not restarted and nothing is changed,  *)
(* light c ends up, and stays, at its setting: no dropped request leaves   *)
(* it dark (335, 195-203).                                                 *)
Settles(c) ==
  /\ <>[]~isAsleep
  /\ <>[][~ReInit /\ ~Reboot /\ UNCHANGED <<day, night, sensorDay>>]_bvars
  => \E b \in Levels : <>[](Wanted(c) = b /\ level[c] = b)

LcdSettles == Settles("lcd")

(* Every fade task ends (380), unless light sleeps keep resetting the      *)
(* level it has reached.                                                   *)
FadesEnd == <>[][~ReInit]_bvars => \A c \in Lights : Fading(c) ~> ~Fading(c)

(* The light of the screen comes to rest where the user wants it: each     *)
(* fade ends, and requests that were dropped during one are made up for by *)
(* the sensor (197, 335-380).                                              *)
LightSettles == LcdSettles /\ FadesEnd
=============================================================================
