----------------------------- MODULE Power_proofs -----------------------------
(***************************************************************************)
(* NotWhileUsed and SettingsKept, the types, and the course of the fades,  *)
(* for every choice of the timeouts and of the other constants.            *)
(***************************************************************************)
EXTENDS Power, TLAPS

(* What the two proofs need of the types.                                  *)
TimersTyped ==
  /\ mode \in {"on", "light", "deep"}
  /\ standbyTimer \in Nat
  /\ late \in 0..MaxLate
  /\ lowBattTimer \in Nat
  /\ settings \in Settings
  /\ flash \in [alreadySetUp : BOOLEAN, values : Settings]
  /\ idle \in Nat
  /\ armed \in Timeouts
  /\ prompt \in BOOLEAN
  /\ inTheWay \in BOOLEAN

(* What the timer has left and what has passed since the last use add up   *)
(* to the timeout, as long as that has not passed.                         *)
Covered(t, i, a, l) == i >= a \/ t + i >= a + l

TimerCovered == mode = "on" => Covered(standbyTimer, idle, armed, late)

PowerInv == TimersTyped /\ TimerCovered /\ NotWhileUsed /\ SettingsKept

LEMMA TimesAreNumbers == \A t \in Timeouts : t \in Nat
  BY PowerAssumption

(* The arithmetic, for the numbers before and after a step alike: the      *)
(* timer is set, a unit of time passes, a pass takes the time l off it.    *)
LEMMA FreshIsCovered ==
  ASSUME NEW a \in Nat, NEW l \in Nat
  PROVE  Covered(a, l, a, l) /\ Covered(a, 0, a, 0)
  BY DEF Covered

LEMMA TickIsCovered ==
  ASSUME NEW t \in Nat, NEW i \in Nat, NEW a \in Nat, NEW l \in Nat, Covered(t, i, a, l)
  PROVE  Covered(t, IF i < a THEN i + 1 ELSE i, a, l + 1)
  BY DEF Covered

LEMMA PassIsCovered ==
  ASSUME NEW t \in Nat, NEW i \in Nat, NEW a \in Nat, NEW l \in Nat, Covered(t, i, a, l)
  PROVE  Covered(IF t > l THEN t - l ELSE 0, i, a, 0)
  BY DEF Covered

LEMMA StoppedIsCovered ==
  ASSUME NEW i \in Nat, NEW a \in Nat, Covered(0, i, a, 0)
  PROVE  i >= a
  BY DEF Covered

LEMMA NotBoth ==
  ASSUME NEW n \in Nat, NEW m \in Nat, n < m
  PROVE  ~(n >= m)
  OBVIOUS

LEMMA RestoredIsTyped ==
  ASSUME flash \in [alreadySetUp : BOOLEAN, values : Settings]
  PROVE  Restored \in Settings
  BY PowerAssumption DEF Restored, Defaults, Settings

LEMMA InitPowerInv == PowerInit => PowerInv
<1> SUFFICES ASSUME PowerInit  PROVE PowerInv
  OBVIOUS
<1>1. DefaultTimeout \in Timeouts /\ DefaultTimeout \in Nat /\ 0 \in 0..MaxLate
  BY PowerAssumption, TimesAreNumbers
<1>2. TimersTyped
  BY <1>1 DEF PowerInit, TimersTyped, NeverSaved, Defaults, Settings
<1>3. TimerCovered
  BY <1>1, FreshIsCovered DEF PowerInit, TimerCovered
<1>4. NotWhileUsed /\ SettingsKept
  BY DEF PowerInit, NotWhileUsed, SettingsKept, Restored, NeverSaved
<1> QED  BY <1>2, <1>3, <1>4 DEF PowerInv

LEMMA ArmedKeeps ==
  ASSUME TimersTyped, Armed
  PROVE  /\ standbyTimer' \in Nat /\ armed' \in Timeouts
         /\ standbyTimer' = armed'
  BY TimesAreNumbers DEF TimersTyped, Armed, Settings

LEMMA PassKeeps ==
  ASSUME PowerInv, NEW active \in BOOLEAN, Pass(active)
  PROVE  PowerInv'
<1>1. TimersTyped /\ TimerCovered /\ mode = "on"
  BY DEF PowerInv, Pass
<1>2. /\ standbyTimer' \in Nat /\ late' = 0 /\ idle' \in Nat /\ armed' \in Timeouts
      /\ prompt' \in BOOLEAN /\ inTheWay' \in BOOLEAN
  <2>1. standbyTimer' = TimerAfter(active) /\ late' = 0
    BY DEF Pass
  <2>2. TimerAfter(active) \in Nat
    BY <1>1, TimesAreNumbers DEF TimerAfter, TimersTyped, Settings
  <2>3. /\ idle' \in Nat /\ armed' \in Timeouts
        /\ prompt' \in BOOLEAN /\ inTheWay' \in BOOLEAN
    <3>1. CASE active
      BY <1>1, <3>1 DEF Pass, TimersTyped, Settings
    <3>2. CASE ~active
      BY <1>1, <3>2 DEF Pass, TimersTyped
    <3> QED BY <3>1, <3>2
  <2> QED BY <2>1, <2>2, <2>3
<1>0. lowBattTimer' \in Nat
  BY <1>1 DEF Pass, LowBattAfter, TimersTyped
<1>3. mode' \in {"on", "light", "deep"}
      /\ (mode' # "on" => standbyTimer' = 0 \/ lowBattTimer' >= LowTests)
  BY DEF Pass, ModeAfter
<1>4. UNCHANGED <<settings, unsaved, flash>>
  BY DEF Pass, kept
<1>5. Covered(standbyTimer', idle', armed', 0)
  <2>0. armed' \in Nat
    BY <1>2, TimesAreNumbers
  <2>1. CASE active
    <3>1. standbyTimer' = armed' /\ idle' = 0
      BY <2>1 DEF Pass, TimerAfter
    <3> QED BY <2>0, <3>1, FreshIsCovered
  <2>2. CASE ~active
    <3>1. Covered(TimerAfter(active), idle, armed, 0)
      <4>1. Covered(standbyTimer, idle, armed, late)
        BY <1>1 DEF TimerCovered
      <4>2. TimerAfter(active) = IF standbyTimer > late THEN standbyTimer - late ELSE 0
        BY <2>2 DEF TimerAfter
      <4>3. standbyTimer \in Nat /\ late \in Nat /\ idle \in Nat /\ armed \in Nat
        BY <1>1, TimesAreNumbers, PowerAssumption DEF TimersTyped
      <4> QED BY <4>1, <4>2, <4>3, PassIsCovered
    <3>2. standbyTimer' = TimerAfter(active) /\ idle' = idle /\ armed' = armed
      BY <2>2 DEF Pass
    <3> QED BY <3>1, <3>2
  <2> QED BY <2>1, <2>2
<1>6. TimersTyped'
  BY <1>0, <1>1, <1>2, <1>3, <1>4, PowerAssumption DEF TimersTyped
<1>7. TimerCovered'
  BY <1>2, <1>5 DEF TimerCovered
<1>8. NotWhileUsed'
  <2> SUFFICES ASSUME mode' # "on", lowBattTimer' < LowTests
               PROVE  idle' >= armed'
    BY DEF NotWhileUsed
  <2>1. standbyTimer' = 0
    <3>2. mode' = ModeAfter(standbyTimer', lowBattTimer')
      BY DEF Pass
    <3>3. ~(lowBattTimer' >= LowTests) => standbyTimer' = 0
      BY <3>2 DEF ModeAfter
    <3>4. LowTests \in Nat
      BY PowerAssumption
    <3> QED BY <1>0, <3>3, <3>4, NotBoth
  <2>2. idle' \in Nat /\ armed' \in Nat
    BY <1>2, TimesAreNumbers
  <2> QED BY <1>5, <2>1, <2>2, StoppedIsCovered
<1>9. SettingsKept'
  BY <1>1, <1>4 DEF PowerInv, SettingsKept, Restored
<1> QED BY <1>6, <1>7, <1>8, <1>9 DEF PowerInv

LEMMA TouchKeeps ==
  ASSUME PowerInv, Touch
  PROVE  PowerInv'
<1>1. /\ Armed /\ UNCHANGED <<mode, late, lowBattTimer, settings, unsaved, flash, inTheWay>>
      /\ mode = "on" /\ idle' = late /\ prompt' = (late <= Slack)
  BY DEF Touch, kept
<1>2. TimersTyped
  BY DEF PowerInv
<1>3. late \in Nat /\ armed' \in Nat /\ standbyTimer' = armed'
  BY <1>1, <1>2, ArmedKeeps, TimesAreNumbers, PowerAssumption DEF TimersTyped
<1>4. TimersTyped'
  BY <1>1, <1>2, <1>3, ArmedKeeps DEF TimersTyped
<1>5. TimerCovered'
  BY <1>1, <1>3, FreshIsCovered DEF TimerCovered
<1>6. NotWhileUsed'
  BY <1>1 DEF NotWhileUsed
<1>7. SettingsKept'
  BY <1>1 DEF PowerInv, SettingsKept, Restored
<1> QED BY <1>4, <1>5, <1>6, <1>7 DEF PowerInv

LEMMA TickKeeps ==
  ASSUME PowerInv, Tick
  PROVE  PowerInv'
<1>1. /\ mode = "on" /\ late < MaxLate /\ late' = late + 1
      /\ idle' = IF idle < armed THEN idle + 1 ELSE idle
      /\ prompt' \in BOOLEAN
      /\ UNCHANGED <<mode, standbyTimer, lowBattTimer, settings, unsaved, flash, armed, inTheWay>>
  BY DEF Tick, kept, PowerInv, TimersTyped
<1>2. TimersTyped /\ TimerCovered
  BY DEF PowerInv
<1>3. /\ standbyTimer \in Nat /\ idle \in Nat /\ armed \in Nat /\ late \in Nat /\ MaxLate \in Nat
      /\ late \in 0..MaxLate
  BY <1>2, TimesAreNumbers, PowerAssumption DEF TimersTyped
<1>4. late + 1 \in 0..MaxLate /\ idle' \in Nat
  BY <1>1, <1>3
<1>5. TimersTyped'
  BY <1>1, <1>2, <1>4 DEF TimersTyped
<1>6. TimerCovered'
  BY <1>1, <1>2, <1>3, TickIsCovered DEF TimerCovered
<1>7. NotWhileUsed' /\ SettingsKept'
  BY <1>1 DEF PowerInv, NotWhileUsed, SettingsKept, Restored
<1> QED BY <1>5, <1>6, <1>7 DEF PowerInv

(* Steps that leave the timer, the settings and the way of sleeping alone. *)
LEMMA OthersKeep ==
  ASSUME PowerInv,
         UNCHANGED <<mode, standbyTimer, late, lowBattTimer, settings, unsaved, flash, idle, armed,
                     prompt>>,
         inTheWay' \in BOOLEAN
  PROVE  PowerInv'
  BY DEF PowerInv, TimersTyped, TimerCovered, NotWhileUsed, SettingsKept, Restored

LEMMA SettingsPageKeeps ==
  ASSUME PowerInv, SaveSettings \/ \E values \in Choices : Set(values)
  PROVE  PowerInv'
<1>1. /\ UNCHANGED <<mode, standbyTimer, late, lowBattTimer, idle, armed, prompt, inTheWay>>
      /\ mode = "on"
  BY DEF SaveSettings, Set
<1>2. TimersTyped'
  <2>1. TimersTyped
    BY DEF PowerInv
  <2>2. settings' \in Settings /\ flash' \in [alreadySetUp : BOOLEAN, values : Settings]
    <3>1. CASE SaveSettings
      BY <2>1, <3>1 DEF SaveSettings, TimersTyped
    <3>2. CASE \E values \in Choices : Set(values)
      BY <2>1, <3>2, PowerAssumption DEF Set, TimersTyped
    <3> QED BY <3>1, <3>2
  <2> QED BY <1>1, <2>1, <2>2 DEF TimersTyped
<1>3. TimerCovered' /\ NotWhileUsed'
  BY <1>1 DEF PowerInv, TimerCovered, NotWhileUsed
<1>4. SettingsKept'
  BY DEF PowerInv, SettingsKept, Restored, SaveSettings, Set
<1> QED BY <1>2, <1>3, <1>4 DEF PowerInv

LEMMA LightSleepKeeps ==
  ASSUME PowerInv, LightSleepExpires \/ WakeFromLight
  PROVE  PowerInv'
<1>1. CASE LightSleepExpires
  <2>1. /\ mode = "light" /\ mode' = "deep"
        /\ UNCHANGED <<standbyTimer, late, lowBattTimer, settings, unsaved, flash, idle, armed,
                       prompt, inTheWay>>
    BY <1>1 DEF LightSleepExpires, kept
  <2> QED BY <2>1 DEF PowerInv, TimersTyped, TimerCovered, NotWhileUsed, SettingsKept
<1>2. CASE WakeFromLight
  <2>1. /\ Armed /\ late' = 0 /\ idle' = 0 /\ prompt' = TRUE /\ inTheWay' = FALSE
        /\ mode = "light"
        /\ UNCHANGED <<lowBattTimer, settings, unsaved, flash>>
        /\ mode' = IF lowBattTimer >= LowTests THEN "deep" ELSE "on"
    BY <1>2 DEF WakeFromLight, kept
  <2>2. TimersTyped
    BY DEF PowerInv
  <2>3. late' \in 0..MaxLate
    BY <2>1, PowerAssumption
  <2>4. TimersTyped'
    BY <2>1, <2>2, <2>3, ArmedKeeps DEF TimersTyped
  <2>5. TimerCovered'
    BY <2>2, <2>1, ArmedKeeps, TimesAreNumbers, FreshIsCovered DEF TimerCovered
  <2>6. NotWhileUsed'
    <3>1. lowBattTimer \in Nat /\ LowTests \in Nat
      BY <2>2, PowerAssumption DEF TimersTyped
    <3>2. lowBattTimer < LowTests => mode' = "on"
      BY <2>1, <3>1
    <3> QED BY <2>1, <3>2 DEF NotWhileUsed
  <2>7. SettingsKept'
    BY <2>1 DEF PowerInv, SettingsKept, Restored
  <2> QED BY <2>4, <2>5, <2>6, <2>7 DEF PowerInv
<1> QED BY <1>1, <1>2

LEMMA RestartKeeps ==
  ASSUME PowerInv, WakeFromDeep
  PROVE  PowerInv'
<1>1. /\ mode' = "on" /\ settings' = Restored /\ standbyTimer' = Restored.sleepTimeout
      /\ armed' = Restored.sleepTimeout /\ idle' = 0 /\ late' = 0 /\ lowBattTimer' = 0
      /\ flash' = flash /\ prompt' = TRUE /\ inTheWay' = FALSE
  BY DEF WakeFromDeep
<1>2. Restored \in Settings /\ Restored.sleepTimeout \in Timeouts
  BY RestoredIsTyped DEF PowerInv, TimersTyped, Settings
<1>3. Restored.sleepTimeout \in Nat
  BY <1>2, TimesAreNumbers
<1>4. TimersTyped'
  <2>1. lowBattTimer' \in Nat /\ late' \in 0..MaxLate /\ idle' \in Nat
    BY <1>1, PowerAssumption
  <2>2. flash' \in [alreadySetUp : BOOLEAN, values : Settings]
    BY <1>1 DEF PowerInv, TimersTyped
  <2> QED  BY <1>1, <1>2, <1>3, <2>1, <2>2 DEF TimersTyped
<1>5. TimerCovered'
  BY <1>1, <1>3, FreshIsCovered DEF TimerCovered
<1>6. NotWhileUsed' /\ SettingsKept'
  BY <1>1 DEF NotWhileUsed, SettingsKept, Restored
<1> QED BY <1>4, <1>5, <1>6 DEF PowerInv

LEMMA StepKeepsPowerInv == PowerInv /\ [PowerNext]_vars => PowerInv'
<1> SUFFICES ASSUME PowerInv, [PowerNext]_vars
             PROVE  PowerInv'
  OBVIOUS
<1>1. CASE Touch
  BY <1>1, TouchKeeps
<1>2. CASE \E active \in BOOLEAN : Pass(active)
  BY <1>2, PassKeeps
<1>3. CASE LightSleepExpires \/ WakeFromLight
  BY <1>3, LightSleepKeeps
<1>4. CASE WakeFromDeep
  BY <1>4, RestartKeeps
<1>5. CASE SaveSettings \/ \E values \in Choices : Set(values)
  BY <1>5, SettingsPageKeeps
<1>6. CASE \E b \in BOOLEAN : SetInScene(b)
  BY <1>6, OthersKeep DEF SetInScene, kept, PowerInv, TimersTyped
<1>7. CASE Battery
  BY <1>7, OthersKeep DEF Battery, kept, PowerInv, TimersTyped
<1>8. CASE Tick
  BY <1>8, TickKeeps
<1>9. CASE Dim
  BY <1>9, OthersKeep DEF Dim, pvars, PowerInv, TimersTyped
<1>10. CASE UNCHANGED vars
  BY <1>10, OthersKeep DEF vars, pvars, PowerInv, TimersTyped
<1> QED BY <1>1, <1>2, <1>3, <1>4, <1>5, <1>6, <1>7, <1>8, <1>9, <1>10 DEF PowerNext, Use

-------------------------------------------------------------------------------

(* Whatever the timeouts and however late the loop, the remote sleeps only *)
(* when the timeout has passed since the last use, or for its battery.     *)
THEOREM SleepsOnlyWhenIdle == PowerSpec => []NotWhileUsed
<1>1. PowerInv => NotWhileUsed
  BY DEF PowerInv
<1> QED BY InitPowerInv, StepKeepsPowerInv, <1>1, PTL DEF PowerSpec

(* With no settings page open that has changed something, the settings in  *)
(* force are those that a restart would bring back.                        *)
THEOREM SettingsAreKept == PowerSpec => []SettingsKept
<1>1. PowerInv => SettingsKept
  BY DEF PowerInv
<1> QED BY InitPowerInv, StepKeepsPowerInv, <1>1, PTL DEF PowerSpec
-------------------------------------------------------------------------------
(* The light.  A fade that runs has the length of all fades.               *)
LightTypes == LightTypeOK /\ fade \in [Lights -> Fade \cup {NoFade}]

LightInv == LightTypes /\ FadeStaysBetween

LEMMA NumbersOfTheLight ==
  /\ FadeSteps \in Nat \ {0} /\ MaxLevel \in Nat /\ "lcd" \in Lights
  /\ NoFade.steps = 0 /\ NoFade \notin Fade /\ Dark \in [Lights -> Levels]
<1>1. FadeSteps \in Nat \ {0} /\ MaxLevel \in Nat /\ "lcd" \in Lights
  BY BacklightAssumption
<1>2. NoFade.steps = 0
  BY DEF NoFade
<1>3. NoFade \notin Fade
  BY <1>1, <1>2 DEF Fade
<1>4. Dark \in [Lights -> Levels]
  BY <1>1 DEF Dark, Levels
<1> QED  BY <1>1, <1>2, <1>3, <1>4

(* A part of the way lies on the way, upwards and downwards.               *)
LEMMA PartOfTheWay ==
  ASSUME NEW s \in Nat, NEW t \in Nat, NEW n \in Nat, NEW k \in 0..n, n # 0
  PROVE  LET b == s + ((t - s) * k) \div n IN b \in s..t \/ b \in t..s
<1> DEFINE d == t - s
           q == (d * k) \div n
<1>1. d \in Int /\ d * k \in Int /\ q \in Int
  OBVIOUS
<1>2. \A x \in Int : n * (x \div n) <= x /\ x < n * (x \div n) + n
  OBVIOUS
<1>3. CASE d >= 0
  <2>1. 0 <= d * k /\ d * k <= d * n
    BY <1>3, SMTT(30)
  <2>2. 0 <= q /\ q <= d
    <3>1. n * q <= d * k /\ d * k < n * q + n
      BY <1>1, <1>2
    <3> HIDE DEF q, d
    <3>2. n * q <= n * d
      BY <1>1, <1>3, <2>1, <3>1, SMTT(30)
    <3>3. 0 < n * (q + 1)
      BY <1>1, <2>1, <3>1, SMTT(30)
    <3> QED  BY <1>1, <1>3, <3>2, <3>3, SMTT(30)
  <2> QED  BY <1>1, <2>2
<1>4. CASE d < 0
  <2>1. d * k <= 0 /\ d * n <= d * k
    BY <1>4, SMTT(30)
  <2>2. q <= 0 /\ d <= q
    <3>1. n * q <= d * k /\ d * k < n * q + n
      BY <1>1, <1>2
    <3> HIDE DEF q, d
    <3>2. n * q <= 0
      BY <1>1, <2>1, <3>1, SMTT(30)
    <3>3. n * d < n * (q + 1)
      BY <1>1, <2>1, <3>1, SMTT(30)
    <3> QED  BY <1>1, <1>4, <3>2, <3>3, SMTT(30)
  <2> QED  BY <1>1, <2>2
<1> QED  BY <1>1, <1>3, <1>4

(* What starts fades, without a change of level other than to dark.        *)
LEMMA StartingKeeps ==
  ASSUME LightInv, isAsleep' \in BOOLEAN, isDay' \in BOOLEAN, sensorDay' \in BOOLEAN,
         firstData' \in BOOLEAN, day' \in [Lights -> Levels], night' \in [Lights -> Levels],
         level' = level \/ level' = Dark,
         fade' \in [Lights -> Fade \cup {NoFade}],
         \A c \in Lights : fade'[c] = fade[c] \/ fade'[c] = Started(c)
  PROVE  LightInv'
<1>1. level' \in [Lights -> Levels]
  BY NumbersOfTheLight DEF LightInv, LightTypes, LightTypeOK
<1>2. ASSUME NEW c \in Lights, fade'[c] # NoFade
      PROVE  /\ fade'[c].done <= fade'[c].steps
             /\ \/ level'[c] = 0
                \/ level'[c] \in fade'[c].start..fade'[c].target
                \/ level'[c] \in fade'[c].target..fade'[c].start
  <2>1. CASE fade'[c] = fade[c]
    <3>1. /\ fade[c].done <= fade[c].steps
          /\ \/ level[c] = 0
             \/ level[c] \in fade[c].start..fade[c].target
             \/ level[c] \in fade[c].target..fade[c].start
      BY <1>2, <2>1 DEF LightInv, LightTypes, LightTypeOK, FadeStaysBetween, Fading
    <3>2. level'[c] = level[c] \/ level'[c] = 0
      BY DEF Dark
    <3> QED  BY <2>1, <3>1, <3>2
  <2>2. CASE fade'[c] # fade[c]
    <3>1. fade'[c] = [start |-> level'[c], target |-> Target(c)', steps |-> FadeSteps, done |-> 0]
      BY <2>2 DEF Started
    <3>2. fade'[c] \in Fade
      BY <1>2
    <3>3. /\ fade'[c].start = level'[c] /\ fade'[c].done = 0 /\ fade'[c].steps = FadeSteps
          /\ fade'[c].start \in Levels /\ fade'[c].target \in Levels
      BY <3>1, <3>2 DEF Fade
    <3> QED  BY <3>3, NumbersOfTheLight DEF Levels
  <2> QED  BY <2>1, <2>2
<1>3. LightTypes'
  BY <1>1, <1>2 DEF LightTypes, LightTypeOK, Fading
<1>4. FadeStaysBetween'
  BY <1>2 DEF FadeStaysBetween, Fading
<1> QED  BY <1>3, <1>4 DEF LightInv

LEMMA StartedIsTyped ==
  ASSUME LightInv, NEW c \in Lights, isAsleep' \in BOOLEAN, isDay' \in BOOLEAN,
         day' \in [Lights -> Levels], night' \in [Lights -> Levels],
         level' \in [Lights -> Levels]
  PROVE  Started(c) \in Fade \cup {NoFade}
<1>1. Target(c)' \in Levels
  BY NumbersOfTheLight DEF Target, Setting, Levels
<1>2. [start |-> level'[c], target |-> Target(c)', steps |-> FadeSteps, done |-> 0] \in Fade
  BY <1>1, NumbersOfTheLight DEF Fade
<1> QED  BY <1>2 DEF Started, LightInv, LightTypes

LEMMA FadeTaskKeeps ==
  ASSUME LightInv, NEW c \in Lights, FadeTask(c)
  PROVE  LightInv'
<1>1. /\ fade[c] \in Fade /\ fade \in [Lights -> Fade \cup {NoFade}]
      /\ fade[c].done <= fade[c].steps /\ level \in [Lights -> Levels]
  BY DEF FadeTask, FadeStep, FadeEnds, Fading, LightInv, LightTypes, LightTypeOK
<1>2. UNCHANGED <<isAsleep, isDay, day, night, sensorDay, firstData>>
  BY DEF FadeTask, FadeStep, FadeEnds
<1> DEFINE f == fade[c]
<1>3. /\ f.start \in Levels /\ f.target \in Levels /\ f.steps = FadeSteps
      /\ f.done \in 0..FadeSteps
  BY <1>1 DEF Fade
<1>4. CASE FadeStep(c)
  <2>1. Brightness(f) \in f.start..f.target \/ Brightness(f) \in f.target..f.start
    <3>1. CASE f.done + 1 >= f.steps
      BY <1>3, <3>1, NumbersOfTheLight DEF Brightness, Levels
    <3>2. CASE ~(f.done + 1 >= f.steps)
      <4>1. /\ f.start \in Nat /\ f.target \in Nat /\ f.steps \in Nat /\ f.steps # 0
            /\ f.done + 1 \in 0..f.steps
        BY <1>3, <3>2, NumbersOfTheLight DEF Levels
      <4>2. Brightness(f) = f.start + ((f.target - f.start) * (f.done + 1)) \div f.steps
        BY <3>2 DEF Brightness
      <4> HIDE DEF f
      <4> QED  BY <4>1, <4>2, PartOfTheWay
    <3> QED  BY <3>1, <3>2
  <2>2. Brightness(f) \in Levels
    BY <1>3, <2>1, NumbersOfTheLight DEF Levels
  <2>3. /\ level' = IF c \in Driven THEN [level EXCEPT ![c] = Brightness(f)] ELSE level
        /\ fade' = IF f.done < f.steps THEN [fade EXCEPT ![c].done = f.done + 1] ELSE fade
    BY <1>4 DEF FadeStep
  <2>4. level' \in [Lights -> Levels] /\ \A e \in Lights : e # c => level'[e] = level[e]
    BY <1>1, <2>2, <2>3
  <2>5. /\ fade' \in [Lights -> Fade \cup {NoFade}]
        /\ \A e \in Lights : e # c => fade'[e] = fade[e]
        /\ fade'[c] \in Fade /\ fade'[c].start = f.start /\ fade'[c].target = f.target
        /\ fade'[c].steps = f.steps /\ fade'[c].done <= f.steps
    <3>1. CASE f.done < f.steps
      <4>1. fade' = [fade EXCEPT ![c] = [fade[c] EXCEPT !.done = f.done + 1]]
        BY <1>1, <2>3, <3>1
      <4>2. [fade[c] EXCEPT !.done = f.done + 1] =
              [start |-> f.start, target |-> f.target, steps |-> f.steps, done |-> f.done + 1]
        BY <1>1 DEF Fade
      <4>3. f.done + 1 \in 0..FadeSteps /\ f.done + 1 <= f.steps
        BY <1>3, <3>1, NumbersOfTheLight
      <4>4. [start |-> f.start, target |-> f.target, steps |-> f.steps, done |-> f.done + 1] \in Fade
        BY <1>3, <4>3 DEF Fade
      <4> QED  BY <1>1, <4>1, <4>2, <4>3, <4>4
    <3>2. CASE ~(f.done < f.steps)
      BY <1>1, <2>3, <3>2
    <3> QED  BY <3>1, <3>2
  <2>6. \/ level'[c] = 0
        \/ level'[c] \in fade'[c].start..fade'[c].target
        \/ level'[c] \in fade'[c].target..fade'[c].start
    <3>1. CASE c \in Driven
      BY <1>1, <2>1, <2>3, <2>5, <3>1
    <3>2. CASE c \notin Driven
      <4>1. Fading(c)
        BY <1>4 DEF FadeStep
      <4> QED  BY <2>3, <2>5, <3>2, <4>1 DEF LightInv, FadeStaysBetween
    <3> QED  BY <3>1, <3>2
  <2>7. LightTypes'
    BY <1>2, <2>4, <2>5 DEF LightInv, LightTypes, LightTypeOK, Fading
  <2>8. FadeStaysBetween'
    BY <2>4, <2>5, <2>6 DEF LightInv, FadeStaysBetween, Fading
  <2> QED  BY <2>7, <2>8 DEF LightInv
<1>5. CASE FadeEnds(c)
  <2>1. fade' = [fade EXCEPT ![c] = NoFade] /\ level' = level
    BY <1>5 DEF FadeEnds
  <2>2. fade' \in [Lights -> Fade \cup {NoFade}] /\ fade'[c] = NoFade
        /\ \A e \in Lights : e # c => fade'[e] = fade[e]
    BY <1>1, <2>1
  <2> QED  BY <1>2, <2>1, <2>2 DEF LightInv, LightTypes, LightTypeOK, FadeStaysBetween, Fading
<1> QED  BY <1>4, <1>5 DEF FadeTask

LEMMA MainLoopKeeps ==
  ASSUME LightInv, MainLoop
  PROVE  LightInv'
<1>1. /\ isAsleep \in BOOLEAN /\ isDay \in BOOLEAN /\ sensorDay \in BOOLEAN
      /\ firstData \in BOOLEAN /\ day \in [Lights -> Levels] /\ night \in [Lights -> Levels]
      /\ level \in [Lights -> Levels] /\ fade \in [Lights -> Fade \cup {NoFade}]
  BY DEF LightInv, LightTypes, LightTypeOK
<1>2. ASSUME isAsleep' \in BOOLEAN, isDay' \in BOOLEAN, sensorDay' \in BOOLEAN,
             firstData' \in BOOLEAN, day' = day, night' = night,
             level' = level \/ level' = Dark, StartFades
      PROVE  LightInv'
  <2>1. level' \in [Lights -> Levels] /\ day' \in [Lights -> Levels] /\ night' \in [Lights -> Levels]
    BY <1>1, <1>2, NumbersOfTheLight
  <2>2. \A c \in Lights : Started(c) \in Fade \cup {NoFade}
    BY <1>2, <2>1, StartedIsTyped
  <2>3. fade' \in [Lights -> Fade \cup {NoFade}] /\ \A c \in Lights : fade'[c] = Started(c)
    BY <1>2, <2>2 DEF StartFades
  <2> QED  BY <1>2, <2>1, <2>3, StartingKeeps
<1>3. CASE Wake \/ Sleep
  BY <1>1, <1>2, <1>3 DEF Wake, Sleep
<1>4. CASE ReInit
  BY <1>1, <1>2, <1>4 DEF ReInit
<1>5. ASSUME NEW light \in Ambient, Sense(light)
      PROVE  LightInv'
  <2>1. /\ sensorDay' \in BOOLEAN /\ firstData' = FALSE /\ isDay' \in BOOLEAN
        /\ UNCHANGED <<isAsleep, day, night, level>>
        /\ StartFades \/ UNCHANGED fade
    BY <1>1, <1>5 DEF Sense, DayAfter
  <2>2. CASE StartFades
    BY <1>1, <1>2, <2>1, <2>2
  <2>3. CASE UNCHANGED fade
    BY <1>1, <2>1, <2>3, StartingKeeps
  <2> QED  BY <2>1, <2>2, <2>3
<1>6. ASSUME NEW c \in Lights, NEW b \in Levels, SetDayBrightness(c, b) \/ SetNightBrightness(c, b)
      PROVE  LightInv'
  <2>1. /\ day' \in [Lights -> Levels] /\ night' \in [Lights -> Levels]
        /\ UNCHANGED <<isAsleep, isDay, level, sensorDay, firstData>>
        /\ fade' = [fade EXCEPT ![c] = Started(c)]
    BY <1>1, <1>6 DEF SetDayBrightness, SetNightBrightness
  <2>2. Started(c) \in Fade \cup {NoFade}
    BY <1>1, <2>1, StartedIsTyped
  <2>3. /\ fade' \in [Lights -> Fade \cup {NoFade}] /\ fade'[c] = Started(c)
        /\ \A e \in Lights : e # c => fade'[e] = fade[e]
    BY <1>1, <2>1, <2>2
  <2> QED  BY <1>1, <2>1, <2>3, StartingKeeps
<1>7. CASE Reboot
  <2>1. /\ isAsleep' = FALSE /\ isDay' = TRUE /\ sensorDay' = TRUE /\ firstData' = TRUE
        /\ day' \in [Lights -> Levels] /\ night' \in [Lights -> Levels] /\ level' = Dark
        /\ fade' = [c \in Lights |-> NoFade]
    BY <1>7 DEF Reboot
  <2>2. \A c \in Lights : fade'[c] = NoFade
    BY <2>1
  <2> QED
    BY <2>1, <2>2, NumbersOfTheLight DEF LightInv, LightTypes, LightTypeOK, FadeStaysBetween, Fading
<1> QED  BY <1>3, <1>4, <1>5, <1>6, <1>7 DEF MainLoop

LEMMA LightInitInv == LightInit => LightInv
<1> SUFFICES ASSUME LightInit  PROVE LightInv
  OBVIOUS
<1>1. /\ isAsleep = FALSE /\ isDay = TRUE /\ sensorDay = TRUE /\ firstData = TRUE
      /\ day \in [Lights -> Levels] /\ night \in [Lights -> Levels] /\ level = Dark
      /\ fade = [c \in Lights |-> NoFade]
  BY DEF LightInit
<1>2. \A c \in Lights : fade[c] = NoFade
  BY <1>1
<1> QED
  BY <1>1, <1>2, NumbersOfTheLight DEF LightInv, LightTypes, LightTypeOK, FadeStaysBetween, Fading

LEMMA LightRestsKeeps == LightInv /\ UNCHANGED bvars => LightInv'
BY DEF bvars, LightInv, LightTypes, LightTypeOK, FadeStaysBetween, Fading

(* Whatever the brightnesses and the number of steps, no fade takes a      *)
(* light beyond the settings it leads from and to (display.cpp:364-381).   *)
THEOREM FadesStayBetween == LightSpec => [](LightTypeOK /\ FadeStaysBetween)
<1>1. LightInv /\ [LightNext]_bvars => LightInv'
  BY MainLoopKeeps, FadeTaskKeeps, LightRestsKeeps DEF LightNext
<1>2. LightInv => LightTypeOK /\ FadeStaysBetween
  BY DEF LightInv, LightTypes
<1> QED  BY LightInitInv, <1>1, <1>2, PTL DEF LightSpec
-------------------------------------------------------------------------------
(* The types of the composition.  A low battery stops the remote in the    *)
(* pass that counts the last test, so the counter never goes beyond.       *)
CountersTyped ==
  /\ secCount \in 0..TestEvery
  /\ lowBattTimer \in 0..LowTests
  /\ mode = "on" => lowBattTimer < LowTests
  /\ inScene \in BOOLEAN
  /\ unsaved \in BOOLEAN
  /\ batteryLow \in BOOLEAN

TypesInv == PowerInv /\ LightInv /\ CountersTyped

LEMMA CountsUpTo ==
  ASSUME NEW n \in Nat \ {0}, NEW k \in 0..n
  PROVE  /\ k + 1 >= n \/ k + 1 \in 0..n
         /\ k < n => k + 1 \in 0..n
         /\ 0 \in 0..n /\ 0 < n /\ n \in 0..n
         /\ k < n <=> ~(k >= n)
  OBVIOUS

LEMMA StepKeepsLight == ASSUME LightInv, [PowerNext]_vars  PROVE LightInv'
<1>1. CASE UNCHANGED bvars
  BY <1>1, LightRestsKeeps
<1>2. CASE MainLoop
  BY <1>2, MainLoopKeeps
<1>3. CASE \E c \in Lights : FadeTask(c)
  BY <1>3, FadeTaskKeeps
<1>4. Touch => UNCHANGED bvars \/ MainLoop
  BY PowerAssumption DEF Touch, MainLoop
<1>5. \A active \in BOOLEAN : Pass(active) => UNCHANGED bvars \/ MainLoop
  BY DEF Pass, LightScan, MainLoop, Ambient
<1>6. WakeFromLight \/ WakeFromDeep \/ Dim => MainLoop
  BY DEF WakeFromLight, WakeFromDeep, Dim, MainLoop
<1>7. Tick => UNCHANGED bvars \/ \E c \in Lights : FadeTask(c)
  BY DEF Tick, FadesMove
<1>8. (\E values \in Choices : Set(values)) \/ SaveSettings \/ (\E b \in BOOLEAN : SetInScene(b))
        \/ Battery \/ LightSleepExpires \/ UNCHANGED vars => UNCHANGED bvars
  BY DEF Set, SaveSettings, SetInScene, Battery, LightSleepExpires, vars
<1> QED  BY <1>1, <1>2, <1>3, <1>4, <1>5, <1>6, <1>7, <1>8 DEF PowerNext, Use

LEMMA StepKeepsCounters ==
  ASSUME CountersTyped, PowerInv, [PowerNext]_vars
  PROVE  CountersTyped'
<1>0. /\ secCount \in 0..TestEvery /\ lowBattTimer \in 0..LowTests
      /\ inScene \in BOOLEAN /\ unsaved \in BOOLEAN /\ batteryLow \in BOOLEAN
      /\ TestEvery \in Nat \ {0} /\ LowTests \in Nat \ {0}
  BY PowerAssumption DEF CountersTyped
<1>1. ASSUME NEW active \in BOOLEAN, Pass(active)
      PROVE  CountersTyped'
  <2>1. /\ mode = "on" /\ UNCHANGED <<inScene, unsaved, batteryLow>>
        /\ secCount' = IF TestDue THEN 0 ELSE secCount + 1
        /\ lowBattTimer' = LowBattAfter
        /\ mode' = ModeAfter(standbyTimer', lowBattTimer')
    BY <1>1 DEF Pass, kept
  <2>2. secCount' \in 0..TestEvery
    BY <1>0, <2>1, CountsUpTo DEF TestDue
  <2>3. lowBattTimer < LowTests
    BY <2>1 DEF CountersTyped
  <2>4. LowBattAfter \in 0..LowTests
    BY <1>0, <2>3, CountsUpTo DEF LowBattAfter
  <2>5. LowBattAfter >= LowTests \/ LowBattAfter < LowTests
    BY <2>4, <1>0, CountsUpTo
  <2>6. mode' = "on" => lowBattTimer' < LowTests
    BY <2>1, <2>5 DEF ModeAfter
  <2> QED  BY <1>0, <2>1, <2>2, <2>4, <2>6 DEF CountersTyped
<1>2. CASE WakeFromLight
  <2>1. /\ secCount' = TestEvery /\ UNCHANGED <<lowBattTimer, inScene, unsaved, batteryLow>>
        /\ mode' = IF lowBattTimer >= LowTests THEN "deep" ELSE "on"
    BY <1>2 DEF WakeFromLight, kept
  <2> QED  BY <1>0, <2>1, CountsUpTo DEF CountersTyped
<1>3. CASE WakeFromDeep
  <2>1. /\ secCount' = TestEvery /\ lowBattTimer' = 0 /\ inScene' \in BOOLEAN
        /\ unsaved' = FALSE /\ UNCHANGED batteryLow
    BY <1>3 DEF WakeFromDeep
  <2> QED  BY <1>0, <2>1, CountsUpTo DEF CountersTyped
<1>4. CASE Touch \/ Tick \/ Dim \/ UNCHANGED vars
  <2>1. UNCHANGED <<mode, secCount, lowBattTimer, inScene, unsaved, batteryLow>>
    BY <1>4 DEF Touch, Tick, Dim, vars, pvars, kept
  <2> QED  BY <2>1 DEF CountersTyped
<1>5. CASE (\E values \in Choices : Set(values)) \/ SaveSettings
  <2>1. UNCHANGED <<mode, secCount, lowBattTimer, inScene, batteryLow>> /\ unsaved' \in BOOLEAN
    BY <1>5 DEF Set, SaveSettings
  <2> QED  BY <2>1 DEF CountersTyped
<1>6. CASE (\E b \in BOOLEAN : SetInScene(b)) \/ Battery
  <2>1. /\ UNCHANGED <<mode, secCount, lowBattTimer, unsaved>>
        /\ inScene' \in BOOLEAN /\ batteryLow' \in BOOLEAN
    BY <1>0, <1>6 DEF SetInScene, Battery, kept
  <2> QED  BY <2>1 DEF CountersTyped
<1>7. CASE LightSleepExpires
  <2>1. /\ mode' = "deep"
        /\ UNCHANGED <<secCount, lowBattTimer, inScene, unsaved, batteryLow>>
    BY <1>7 DEF LightSleepExpires, kept
  <2> QED  BY <2>1 DEF CountersTyped
<1> QED  BY <1>1, <1>2, <1>3, <1>4, <1>5, <1>6, <1>7 DEF PowerNext, Use

LEMMA InitTypes == PowerInit => TypesInv
<1> SUFFICES ASSUME PowerInit  PROVE TypesInv
  OBVIOUS
<1>1. /\ secCount = TestEvery /\ lowBattTimer = 0 /\ inScene \in BOOLEAN /\ unsaved \in BOOLEAN
      /\ batteryLow \in BOOLEAN
  BY DEF PowerInit
<1>2. TestEvery \in 0..TestEvery /\ 0 \in 0..LowTests /\ 0 < LowTests
  BY PowerAssumption
<1>3. CountersTyped
  BY <1>1, <1>2 DEF CountersTyped
<1> QED  BY <1>3, InitPowerInv, LightInitInv DEF PowerInit, TypesInv

LEMMA StepKeepsTypes == TypesInv /\ [PowerNext]_vars => TypesInv'
BY StepKeepsPowerInv, StepKeepsLight, StepKeepsCounters DEF TypesInv

(* The types of the composition of the main loop's timers and the light.   *)
THEOREM PowerTypes == PowerSpec => []PowerTypeOK
<1>1. TypesInv => PowerTypeOK
  BY DEF TypesInv, PowerInv, TimersTyped, LightInv, LightTypes, CountersTyped, PowerTypeOK
<1> QED  BY InitTypes, StepKeepsTypes, <1>1, PTL DEF PowerSpec
-------------------------------------------------------------------------------
(* The screen is dark before a light sleep, whatever the passes of the     *)
(* loop, unless one since the timer was set last came later than Slack or  *)
(* the light sensor came in between.                                       *)

(* What fade f of a screen at level v still takes to end; reInit may have  *)
(* taken the level from one that had arrived.                              *)
Rest(f, v) == FadeSteps - f.done + (IF f.done = FadeSteps /\ v # f.target THEN 2 ELSE 1)

(* With t on the timer and l on the clock a fade ends before the timer is  *)
(* down to DimAt, or leads to darkness before it is down to zero.          *)
EndsBeforeDim(t, l, f, v) == f # NoFade => t - l + 1 >= DimAt + Rest(f, v)

EndsBeforeSleep(t, l, f, v) ==
  IF f # NoFade THEN f.target = 0 /\ t - l >= Rest(f, v) ELSE v = 0

(* a: the screen is asleep; w: a fade was in the way when it was to dim.   *)
(* A request to dim comes late by no more than Slack, a request to wake    *)
(* before the next pass, and without a sensor no fade is ever in the way.  *)
InTime(t, l, a, f, v, w) ==
  /\ l <= Slack
  /\ ~a => t + Slack >= DimAt
  /\ a /\ t >= DimAt => t \in Timeouts
  /\ ~HasSensor /\ ~(a /\ t < DimAt) => EndsBeforeDim(t, l, f, v)
  /\ a /\ t < DimAt /\ ~(HasSensor /\ w) => EndsBeforeSleep(t, l, f, v)

DarkInv ==
  /\ mode = "on" /\ prompt =>
       InTime(standbyTimer, late, isAsleep, fade["lcd"], level["lcd"], inTheWay)
  /\ mode = "on" /\ firstData /\ ~HasSensor => standbyTimer \in Timeouts
  /\ DarkInLightSleep

(* The fade that a request for tgt leaves.                                 *)
FadeTo(f, v, tgt) ==
  IF f # NoFade \/ v = tgt THEN f
  ELSE [start |-> v, target |-> tgt, steps |-> FadeSteps, done |-> 0]

LEMMA Numbers ==
  /\ MaxLate \in Nat \ {0} /\ DimAt \in Nat /\ FadeSteps \in Nat \ {0}
  /\ Timeouts \subseteq Nat /\ Lights = {"lcd"} /\ Driven = {"lcd"}
BY PowerAssumption, BacklightAssumption

LEMMA SlackFits == Slack \in Nat /\ 2 * Slack + FadeSteps + 1 <= DimAt
<1>1. DimAt \in Nat /\ FadeSteps \in Nat /\ DimAt > FadeSteps
  BY PowerAssumption, Numbers
<1> QED  BY <1>1 DEF Slack

LEMMA LongTimeouts == \A t \in Timeouts : t \in Nat /\ t >= 2 * DimAt
BY PowerAssumption, Numbers

LEMMA RestIsShort ==
  ASSUME NEW f \in Fade, NEW v
  PROVE  f.done \in 0..FadeSteps /\ Rest(f, v) \in 1..FadeSteps + 1
<1>1. f.done \in 0..FadeSteps
  BY DEF Fade
<1> QED  BY <1>1, Numbers DEF Rest

(* There is plenty of time, as when the timer has just been set.           *)
LEMMA PlentyInTime ==
  ASSUME NEW t \in Nat, NEW l \in Nat, l <= Slack, t - l >= 2 * DimAt - Slack,
         NEW a \in BOOLEAN, a => t \in Timeouts, NEW f \in Fade \cup {NoFade}, NEW v, NEW w
  PROVE  InTime(t, l, a, f, v, w)
<1>1. t >= DimAt /\ t + Slack >= DimAt /\ ~(t < DimAt)
  BY SlackFits, Numbers
<1>2. EndsBeforeDim(t, l, f, v)
  <2>1. ASSUME f \in Fade  PROVE t - l + 1 >= DimAt + Rest(f, v)
    <3>1. Rest(f, v) \in Nat /\ Rest(f, v) <= FadeSteps + 1
      BY <2>1, RestIsShort, Numbers
    <3> QED  BY <3>1, SlackFits, Numbers
  <2> QED  BY <2>1 DEF EndsBeforeDim
<1> QED  BY <1>1, <1>2 DEF InTime

LEMMA ArmedInTime ==
  ASSUME NEW t \in Timeouts, NEW l \in Nat, l <= Slack,
         NEW a \in BOOLEAN, NEW f \in Fade \cup {NoFade}, NEW v, NEW w
  PROVE  InTime(t, l, a, f, v, w)
<1>1. t \in Nat /\ t - l >= 2 * DimAt - Slack
  BY LongTimeouts, SlackFits, Numbers
<1> QED  BY <1>1, PlentyInTime

(* Sleep, which the main loop asks for when the timer is below DimAt.      *)
LEMMA SleepInTime ==
  ASSUME NEW t \in Nat, NEW l \in Nat, NEW f \in Fade \cup {NoFade}, NEW v, NEW w,
         InTime(t, l, FALSE, f, v, w), t < DimAt
  PROVE  InTime(t, l, TRUE, FadeTo(f, v, 0), v, f # NoFade)
<1>1. l <= Slack /\ t + Slack >= DimAt /\ ~(t >= DimAt)
  BY Numbers DEF InTime
<1> SUFFICES ASSUME ~(HasSensor /\ f # NoFade)
             PROVE  EndsBeforeSleep(t, l, FadeTo(f, v, 0), v)
  BY <1>1 DEF InTime
<1>2. f = NoFade
  <2> SUFFICES ASSUME f \in Fade, f # NoFade  PROVE FALSE
    OBVIOUS
  <2>1. t - l + 1 >= DimAt + Rest(f, v)
    BY DEF InTime, EndsBeforeDim
  <2> QED  BY <2>1, RestIsShort, Numbers
<1>3. CASE v = 0
  BY <1>2, <1>3 DEF EndsBeforeSleep, FadeTo
<1>4. CASE v # 0
  <2> DEFINE g == [start |-> v, target |-> 0, steps |-> FadeSteps, done |-> 0]
  <2>1. FadeTo(f, v, 0) = g
    BY <1>2, <1>4 DEF FadeTo
  <2>2. g.done = 0 /\ g.target = 0 /\ 0 # FadeSteps /\ g # NoFade
    BY Numbers DEF NoFade
  <2> HIDE DEF g
  <2>3. Rest(g, v) = FadeSteps + 1
    BY <2>2, Numbers DEF Rest
  <2>4. t - l >= Rest(g, v)
    BY <1>1, <2>3, SlackFits, Numbers
  <2> QED  BY <2>1, <2>2, <2>4 DEF EndsBeforeSleep
<1> QED  BY <1>3, <1>4

(* A unit of time, in which the fade comes nearer to its end, or ends.     *)
LEMMA TickInTime ==
  ASSUME NEW t \in Nat, NEW l \in Nat, NEW a \in BOOLEAN, NEW f \in Fade \cup {NoFade},
         NEW v, NEW w, InTime(t, l, a, f, v, w), l < Slack,
         NEW g \in Fade \cup {NoFade}, NEW x,
         \/ g = NoFade /\ x = v /\ (f # NoFade => v = f.target)
         \/ f # NoFade /\ g # NoFade /\ g.target = f.target /\ Rest(g, x) = Rest(f, v) - 1
  PROVE  InTime(t, l + 1, a, g, x, w)
<1>1. l + 1 <= Slack
  BY SlackFits
<1>2. EndsBeforeDim(t, l, f, v) => EndsBeforeDim(t, l + 1, g, x)
  <2> SUFFICES ASSUME EndsBeforeDim(t, l, f, v), g # NoFade
               PROVE  t - (l + 1) + 1 >= DimAt + Rest(g, x)
    BY DEF EndsBeforeDim
  <2>1. t - l + 1 >= DimAt + Rest(f, v) /\ f \in Fade /\ Rest(g, x) = Rest(f, v) - 1
    BY DEF EndsBeforeDim
  <2>2. Rest(f, v) \in Nat
    BY <2>1, RestIsShort, Numbers
  <2> QED  BY <2>1, <2>2, Numbers
<1>3. EndsBeforeSleep(t, l, f, v) => EndsBeforeSleep(t, l + 1, g, x)
  <2> SUFFICES ASSUME EndsBeforeSleep(t, l, f, v)
               PROVE  EndsBeforeSleep(t, l + 1, g, x)
    OBVIOUS
  <2>1. CASE g = NoFade
    BY <2>1 DEF EndsBeforeSleep
  <2>2. CASE g # NoFade
    <3>1. t - l >= Rest(f, v) /\ f \in Fade /\ Rest(g, x) = Rest(f, v) - 1 /\ g.target = 0
      BY <2>2 DEF EndsBeforeSleep
    <3>2. Rest(f, v) \in Nat
      BY <3>1, RestIsShort, Numbers
    <3>3. t - (l + 1) >= Rest(g, x)
      BY <3>1, <3>2
    <3> QED  BY <2>2, <3>1, <3>3 DEF EndsBeforeSleep
  <2> QED  BY <2>1, <2>2
<1> QED  BY <1>1, <1>2, <1>3 DEF InTime

Elapsed(t, l) == IF t > l THEN t - l ELSE 0

(* A pass without use takes the time on the clock off the timer; with a    *)
(* sensor it may leave a request for light.  If the timer is down to zero  *)
(* the screen is dark.                                                     *)
LEMMA PassInTime ==
  ASSUME NEW t \in Nat, NEW l \in Nat, NEW a \in BOOLEAN, NEW f \in Fade \cup {NoFade},
         NEW v, NEW w, InTime(t, l, a, f, v, w), a <=> t < DimAt,
         NEW g, g = f \/ (HasSensor /\ \E tgt : (a => tgt = 0) /\ g = FadeTo(f, v, tgt))
  PROVE  /\ InTime(Elapsed(t, l), 0, a, g, v, w)
         /\ Elapsed(t, l) = 0 /\ ~(HasSensor /\ w) => g = NoFade /\ v = 0
<1> DEFINE u == Elapsed(t, l)
<1>0. l <= Slack /\ Slack < DimAt /\ Slack \in Nat /\ DimAt \in Nat
  BY SlackFits, Numbers DEF InTime
<1>1. u \in Nat /\ u <= t /\ (t > l => u = t - l)
  BY DEF Elapsed
<1>2. CASE ~a
  <2>1. t >= DimAt /\ u = t - l /\ u + Slack >= DimAt /\ u > 0
    BY <1>0, <1>1, <1>2
  <2>2. ~HasSensor => EndsBeforeDim(u, 0, g, v)
    <3>1. ~HasSensor => EndsBeforeDim(t, l, g, v)
      BY <1>2 DEF InTime
    <3>2. u - 0 + 1 = t - l + 1
      BY <2>1
    <3> HIDE DEF u
    <3> QED  BY <3>1, <3>2 DEF EndsBeforeDim
  <2> HIDE DEF u
  <2>3. InTime(u, 0, a, g, v, w)
    BY <1>0, <1>2, <2>1, <2>2 DEF InTime
  <2>4. u # 0
    BY <2>1
  <2> QED  BY <2>3, <2>4 DEF u
<1>3. CASE a
  <2>1. t < DimAt /\ u < DimAt /\ ~(u >= DimAt)
    BY <1>0, <1>1, <1>3
  <2>2. ~(HasSensor /\ w) => EndsBeforeSleep(t, l, f, v)
    BY <1>3, <2>1 DEF InTime
  <2>3. ~(HasSensor /\ w) => g = f
    BY <1>3, <2>2 DEF EndsBeforeSleep, FadeTo
  <2>4. ~(HasSensor /\ w) /\ f # NoFade => u = t - l /\ u > 0 /\ f.target = 0 /\ u - 0 >= Rest(f, v)
    <3> SUFFICES ASSUME ~(HasSensor /\ w), f # NoFade
                 PROVE  u = t - l /\ u > 0 /\ f.target = 0 /\ u - 0 >= Rest(f, v)
      OBVIOUS
    <3>1. f.target = 0 /\ t - l >= Rest(f, v) /\ Rest(f, v) \in Nat /\ Rest(f, v) >= 1
      BY <2>2, RestIsShort, Numbers DEF EndsBeforeSleep
    <3>2. t > l
      BY <3>1
    <3> QED  BY <1>1, <3>1, <3>2
  <2> HIDE DEF u
  <2>5. ~(HasSensor /\ w) => EndsBeforeSleep(u, 0, g, v)
    BY <2>2, <2>3, <2>4 DEF EndsBeforeSleep
  <2>6. InTime(u, 0, a, g, v, w)
    BY <1>0, <1>3, <2>1, <2>5 DEF InTime
  <2>7. u = 0 /\ ~(HasSensor /\ w) => g = NoFade /\ v = 0
    <3>1. u = 0 => ~(u > 0)
      BY <1>1
    <3> QED  BY <2>2, <2>3, <2>4, <3>1 DEF EndsBeforeSleep
  <2> QED  BY <2>6, <2>7 DEF u
<1> QED  BY <1>2, <1>3
-------------------------------------------------------------------------------

LEMMA InitDark == ASSUME PowerInit  PROVE DarkInv
<1>1. /\ mode = "on" /\ standbyTimer = DefaultTimeout /\ late = 0 /\ isAsleep = FALSE
      /\ fade["lcd"] = NoFade
  BY Numbers DEF PowerInit, LightInit
<1>2. DefaultTimeout \in Timeouts /\ 0 \in Nat /\ 0 <= Slack
  BY PowerAssumption, SlackFits
<1>3. InTime(DefaultTimeout, 0, FALSE, NoFade, level["lcd"], inTheWay)
  BY <1>2, ArmedInTime
<1> QED  BY <1>1, <1>2, <1>3 DEF DarkInv, DarkInLightSleep

(* What is typed, for short.                                               *)
LEMMA ScreenIsTyped ==
  ASSUME TypesInv
  PROVE  /\ standbyTimer \in Nat /\ late \in 0..MaxLate /\ late \in Nat
         /\ settings.sleepTimeout \in Timeouts
         /\ isAsleep \in BOOLEAN /\ firstData \in BOOLEAN /\ prompt \in BOOLEAN
         /\ inTheWay \in BOOLEAN
         /\ fade \in [Lights -> Fade \cup {NoFade}] /\ level \in [Lights -> Levels]
         /\ "lcd" \in Lights /\ fade["lcd"] \in Fade \cup {NoFade}
<1>1. /\ standbyTimer \in Nat /\ late \in 0..MaxLate /\ settings \in Settings
      /\ isAsleep \in BOOLEAN /\ firstData \in BOOLEAN /\ prompt \in BOOLEAN
      /\ inTheWay \in BOOLEAN
      /\ fade \in [Lights -> Fade \cup {NoFade}] /\ level \in [Lights -> Levels]
  BY DEF TypesInv, PowerInv, TimersTyped, LightInv, LightTypes, LightTypeOK
<1>2. "lcd" \in Lights /\ late \in Nat
  BY <1>1, Numbers
<1> QED  BY <1>1, <1>2 DEF Settings

LEMMA NextScreenIsTyped ==
  ASSUME TypesInv'
  PROVE  late' \in Nat /\ isAsleep' \in BOOLEAN /\ fade'["lcd"] \in Fade \cup {NoFade}
<1>1. /\ late' \in 0..MaxLate /\ isAsleep' \in BOOLEAN /\ fade' \in [Lights -> Fade \cup {NoFade}]
  BY DEF TypesInv, PowerInv, TimersTyped, LightInv, LightTypes, LightTypeOK
<1> QED  BY <1>1, Numbers

(* The screen's part of StartFades.                                        *)
LEMMA RequestOfTheScreen ==
  ASSUME TypesInv, StartFades
  PROVE  fade'["lcd"] = FadeTo(fade["lcd"], level'["lcd"], Target("lcd")')
<1>1. "lcd" \in Lights
  BY Numbers
<1>2. fade'["lcd"] = Started("lcd")
  BY <1>1 DEF StartFades
<1> QED  BY <1>2 DEF Started, FadeTo, Fading

(* The timer has just been set, by a touch, by a pass that saw a use, or   *)
(* at the end of a sleep.                                                  *)
LEMMA ArmingKeepsDark ==
  ASSUME TypesInv', standbyTimer' \in Timeouts, mode' # "light", prompt' => late' <= Slack
  PROVE  DarkInv'
<1>1. /\ late' \in Nat /\ isAsleep' \in BOOLEAN /\ fade'["lcd"] \in Fade \cup {NoFade}
  BY NextScreenIsTyped
<1>2. prompt' => InTime(standbyTimer', late', isAsleep', fade'["lcd"], level'["lcd"], inTheWay')
  BY <1>1, ArmedInTime
<1> QED  BY <1>2 DEF DarkInv, DarkInLightSleep

LEMMA UseKeepsDark ==
  ASSUME TypesInv, TypesInv', Use
  PROVE  DarkInv'
<1>1. CASE Touch
  <2>1. /\ standbyTimer' = settings.sleepTimeout /\ mode' = "on" /\ late' = late
        /\ prompt' = (late <= Slack)
    BY <1>1 DEF Touch, Armed
  <2> QED  BY <2>1, ScreenIsTyped, ArmingKeepsDark
<1>2. CASE Pass(TRUE)
  <2>1. /\ standbyTimer' = settings.sleepTimeout /\ late' = 0
        /\ mode' = ModeAfter(standbyTimer', lowBattTimer')
    BY <1>2 DEF Pass, TimerAfter
  <2>2. standbyTimer' \in Timeouts /\ standbyTimer' # 0
    BY <2>1, ScreenIsTyped, PowerAssumption
  <2>3. mode' # "light"
    BY <2>1, <2>2 DEF ModeAfter
  <2> QED  BY <2>1, <2>2, <2>3, SlackFits, ArmingKeepsDark
<1>3. CASE WakeFromLight
  <2>1. standbyTimer' = settings.sleepTimeout /\ late' = 0 /\ mode' # "light"
    BY <1>3 DEF WakeFromLight, Armed
  <2> QED  BY <2>1, ScreenIsTyped, SlackFits, ArmingKeepsDark
<1>4. CASE WakeFromDeep
  <2>1. standbyTimer' = Restored.sleepTimeout /\ late' = 0 /\ mode' # "light"
    BY <1>4 DEF WakeFromDeep
  <2>2. Restored.sleepTimeout \in Timeouts
    BY RestoredIsTyped DEF TypesInv, PowerInv, TimersTyped, Settings
  <2> QED  BY <2>1, <2>2, SlackFits, ArmingKeepsDark
<1> QED  BY <1>1, <1>2, <1>3, <1>4 DEF Use

LEMMA DimKeepsDark ==
  ASSUME TypesInv, TypesInv', DarkInv, Dim
  PROVE  DarkInv'
<1>1. /\ mode = "on" /\ mode' = "on" /\ UNCHANGED <<standbyTimer, late, prompt>>
      /\ inTheWay' = (Dims /\ Fading("lcd"))
  BY DEF Dim, pvars
<1>2. UNCHANGED firstData
  BY DEF Dim, Sleep, Wake
<1>3. ASSUME prompt
      PROVE  InTime(standbyTimer, late, isAsleep', fade'["lcd"], level'["lcd"], inTheWay')
  <2>1. InTime(standbyTimer, late, isAsleep, fade["lcd"], level["lcd"], inTheWay)
    BY <1>1, <1>3 DEF DarkInv
  <2>2. CASE Dims /\ Sleep
    <3>1. isAsleep = FALSE /\ isAsleep' = TRUE /\ UNCHANGED level /\ StartFades
      BY <2>2, ScreenIsTyped DEF Sleep
    <3>2. Target("lcd")' = 0
      BY <3>1 DEF Target
    <3>3. fade'["lcd"] = FadeTo(fade["lcd"], level["lcd"], 0)
      BY <3>1, <3>2, RequestOfTheScreen
    <3>4. InTime(standbyTimer, late, TRUE, FadeTo(fade["lcd"], level["lcd"], 0), level["lcd"],
                 fade["lcd"] # NoFade)
      BY <2>1, <2>2, <3>1, ScreenIsTyped, SleepInTime DEF Dims
    <3>5. inTheWay' = (fade["lcd"] # NoFade)
      BY <1>1, <2>2 DEF Fading
    <3> QED  BY <3>1, <3>3, <3>4, <3>5
  <2>3. CASE ~Dims /\ Wake
    <3>1. isAsleep = TRUE
      BY <2>3, ScreenIsTyped DEF Wake
    <3>2. standbyTimer >= DimAt /\ late <= Slack
      BY <2>1, <2>3, ScreenIsTyped, Numbers DEF Dims, InTime
    <3>3. standbyTimer \in Timeouts
      BY <2>1, <3>1, <3>2 DEF InTime
    <3>4. late \in Nat /\ isAsleep' \in BOOLEAN /\ fade'["lcd"] \in Fade \cup {NoFade}
      BY ScreenIsTyped, NextScreenIsTyped
    <3> QED  BY <3>2, <3>3, <3>4, ArmedInTime
  <2> QED  BY <2>2, <2>3 DEF Dim
<1> QED  BY <1>1, <1>2, <1>3 DEF DarkInv, DarkInLightSleep

LEMMA TickKeepsDark ==
  ASSUME TypesInv, TypesInv', DarkInv, Tick
  PROVE  DarkInv'
<1> DEFINE f == fade["lcd"]
           v == level["lcd"]
           g == fade'["lcd"]
           x == level'["lcd"]
<1>1. /\ mode = "on" /\ mode' = "on" /\ standbyTimer' = standbyTimer /\ late' = late + 1
      /\ prompt' = (prompt /\ late < Slack) /\ FadesMove /\ UNCHANGED inTheWay
  BY DEF Tick
<1>2. UNCHANGED <<isAsleep, firstData>>
  BY <1>1 DEF FadesMove, FadeTask, FadeStep, FadeEnds, bvars
<1>3. /\ f \in Fade \cup {NoFade} /\ g \in Fade \cup {NoFade} /\ "lcd" \in Lights
      /\ fade \in [Lights -> Fade \cup {NoFade}] /\ level \in [Lights -> Levels]
      /\ Lights = {"lcd"} /\ Driven = {"lcd"}
  BY ScreenIsTyped, NextScreenIsTyped, Numbers
<1>4. \/ g = NoFade /\ x = v /\ (f # NoFade => v = f.target)
      \/ f # NoFade /\ g # NoFade /\ g.target = f.target /\ Rest(g, x) = Rest(f, v) - 1
  <2>1. CASE ~Fading("lcd")
    <3>1. UNCHANGED <<fade, level>>
      BY <1>1, <1>3, <2>1 DEF FadesMove, bvars
    <3> QED  BY <2>1, <3>1 DEF Fading
  <2>2. CASE Fading("lcd") /\ FadeEnds("lcd")
    BY <1>3, <2>2 DEF FadeEnds, Fading
  <2>3. CASE Fading("lcd") /\ FadeStep("lcd")
    <3>1. /\ f \in Fade /\ f # NoFade /\ f.steps = FadeSteps /\ f.done \in Nat
          /\ f.done <= FadeSteps
      BY <1>3, <2>3, Numbers DEF Fading, Fade
    <3>2. x = Brightness(f) /\ (f.done = 0 \/ v # f.target)
      BY <1>3, <2>3 DEF FadeStep
    <3>3. CASE f.done < FadeSteps
      <4>1. g = [f EXCEPT !.done = f.done + 1]
        BY <1>3, <2>3, <3>1, <3>3 DEF FadeStep
      <4>2. [f EXCEPT !.done = f.done + 1] =
              [start |-> f.start, target |-> f.target, steps |-> f.steps, done |-> f.done + 1]
        BY <3>1 DEF Fade
      <4>3. g.target = f.target /\ g.done = f.done + 1
        BY <4>1, <4>2
      <4>4. f.done + 1 = FadeSteps => x = f.target
        BY <3>1, <3>2, Numbers DEF Brightness
      <4>5. g # NoFade
        BY <3>1, <4>3 DEF NoFade
      <4>6. Rest(f, v) = FadeSteps - f.done + 1
        BY <3>1, <3>3, Numbers DEF Rest
      <4>7. Rest(g, x) = FadeSteps - (f.done + 1) + 1
        BY <4>3, <4>4 DEF Rest
      <4> HIDE DEF f, v, g, x
      <4>8. Rest(g, x) = Rest(f, v) - 1
        BY <3>1, <4>6, <4>7, Numbers
      <4> QED  BY <3>1, <4>3, <4>5, <4>8
    <3>4. CASE f.done = FadeSteps
      <4>1. fade' = fade
        BY <3>1, <3>4, <2>3 DEF FadeStep
      <4>2. x = f.target
        BY <3>1, <3>2, <3>4, Numbers DEF Brightness
      <4>3. v # f.target
        BY <3>2, <3>4, Numbers
      <4>4. Rest(f, v) = FadeSteps - f.done + 2 /\ Rest(f, x) = FadeSteps - f.done + 1
        BY <3>4, <4>2, <4>3 DEF Rest
      <4>5. Rest(f, x) = Rest(f, v) - 1
        BY <3>1, <4>4, Numbers
      <4> QED  BY <3>1, <4>1, <4>5
    <3> QED  BY <3>1, <3>3, <3>4, Numbers
  <2> QED  BY <1>1, <1>3, <2>1, <2>2, <2>3 DEF FadesMove, FadeTask
<1> HIDE DEF f, v, g, x
<1>5. prompt' => InTime(standbyTimer, late + 1, isAsleep, g, x, inTheWay)
  <2> SUFFICES ASSUME prompt'  PROVE InTime(standbyTimer, late + 1, isAsleep, g, x, inTheWay)
    OBVIOUS
  <2>1. late < Slack /\ InTime(standbyTimer, late, isAsleep, f, v, inTheWay)
    BY <1>1 DEF DarkInv, f, v
  <2>2. standbyTimer \in Nat /\ late \in Nat /\ isAsleep \in BOOLEAN
    BY ScreenIsTyped
  <2> QED  BY <1>3, <1>4, <2>1, <2>2, TickInTime
<1> QED  BY <1>1, <1>2, <1>5 DEF DarkInv, DarkInLightSleep, g, x

LEMMA PassKeepsDark ==
  ASSUME TypesInv, TypesInv', DarkInv, Pass(FALSE)
  PROVE  DarkInv'
<1> DEFINE f == fade["lcd"]
           v == level["lcd"]
           u == Elapsed(standbyTimer, late)
<1>1. /\ mode = "on" /\ (isAsleep <=> standbyTimer < DimAt)
      /\ standbyTimer' = u /\ late' = 0 /\ LightScan
      /\ mode' = ModeAfter(standbyTimer', lowBattTimer') /\ UNCHANGED <<prompt, inTheWay>>
  BY DEF Pass, Dims, TimerAfter, Elapsed
<1>2. /\ UNCHANGED <<isAsleep, level>>
      /\ ~HasSensor => firstData' = FALSE
      /\ \/ fade' = fade
         \/ (HasSensor \/ firstData) /\ fade'["lcd"] = FadeTo(f, v, Target("lcd")')
  <2>1. ASSUME NEW light \in Ambient, Sense(light)
        PROVE  /\ UNCHANGED <<isAsleep, level>> /\ firstData' = FALSE
               /\ \/ fade' = fade
                  \/ (HasSensor \/ firstData) /\ fade'["lcd"] = FadeTo(f, v, Target("lcd")')
    <3>1. /\ UNCHANGED <<isAsleep, level>> /\ firstData' = FALSE
          /\ HasSensor \/ firstData
          /\ StartFades \/ UNCHANGED fade
      BY <2>1 DEF Sense
    <3> QED  BY <3>1, RequestOfTheScreen
  <2>2. "dusk" \in Ambient
    BY DEF Ambient
  <2>3. CASE UNCHANGED bvars /\ (HasSensor \/ ~firstData)
    BY <2>3, ScreenIsTyped DEF bvars
  <2> QED  BY <1>1, <2>1, <2>2, <2>3 DEF LightScan
<1>3. isAsleep => Target("lcd")' = 0
  BY <1>2 DEF Target
<1>4. /\ standbyTimer \in Nat /\ late \in Nat /\ isAsleep \in BOOLEAN /\ f \in Fade \cup {NoFade}
      /\ fade'["lcd"] \in Fade \cup {NoFade}
  BY ScreenIsTyped, NextScreenIsTyped
<1>5. PICK g \in Fade \cup {NoFade} : g = fade'["lcd"]
  BY <1>4
<1> HIDE DEF f, v, u
<1>6. ASSUME prompt
      PROVE  /\ InTime(u, 0, isAsleep, g, v, inTheWay)
             /\ u = 0 /\ ~(HasSensor /\ inTheWay) => g = NoFade /\ v = 0
  <2>1. InTime(standbyTimer, late, isAsleep, f, v, inTheWay)
    BY <1>1, <1>6 DEF DarkInv, f, v
  <2>2. CASE fade' = fade \/ HasSensor
    <3>1. g = f \/ (HasSensor /\ \E tgt : (isAsleep => tgt = 0) /\ g = FadeTo(f, v, tgt))
      BY <1>2, <1>3, <1>5, <2>2 DEF f
    <3> QED  BY <1>1, <1>4, <2>1, <3>1, PassInTime DEF u
  <2>3. CASE firstData /\ ~HasSensor
    <3>1. standbyTimer \in Timeouts /\ late <= Slack
      BY <1>1, <2>1, <2>3 DEF DarkInv, InTime
    <3>2. standbyTimer >= 2 * DimAt /\ Slack \in Nat /\ Slack < DimAt
      BY <3>1, LongTimeouts, SlackFits, Numbers
    <3>3. /\ u \in Nat /\ u - 0 >= 2 * DimAt - Slack /\ u # 0 /\ ~isAsleep
      BY <1>1, <1>4, <3>1, <3>2, Numbers DEF u, Elapsed
    <3>4. InTime(u, 0, isAsleep, g, v, inTheWay)
      BY <1>4, <3>2, <3>3, PlentyInTime
    <3> QED  BY <3>3, <3>4
  <2> QED  BY <1>2, <2>2, <2>3
<1>7. InTime(standbyTimer', late', isAsleep', fade'["lcd"], level'["lcd"], inTheWay') \/ ~prompt'
  BY <1>1, <1>2, <1>5, <1>6 DEF v
<1>8. DarkInLightSleep'
  <2>1. mode' = "light" => u = 0
    BY <1>1 DEF ModeAfter
  <2> QED  BY <1>1, <1>2, <1>5, <1>6, <2>1 DEF DarkInLightSleep, Fading, v
<1> QED  BY <1>2, <1>7, <1>8 DEF DarkInv

(* Steps that leave the timer and the screen alone.                        *)
LEMMA RestKeepsDark ==
  ASSUME DarkInv,
         UNCHANGED <<standbyTimer, late, isAsleep, fade, level, firstData, prompt, inTheWay>>,
         UNCHANGED mode \/ mode' = "deep"
  PROVE  DarkInv'
BY DEF DarkInv, DarkInLightSleep, Fading

(* With and without a light sensor, whatever the user does and however     *)
(* late the loop: the screen is dark and no fade is left to be frozen when *)
(* a light sleep begins, unless a pass since the timer was set last came   *)
(* later than Slack, or a fade that the sensor had begun swallowed the     *)
(* request to dim (HardwareRevX.cpp:463, 512-524).                         *)
THEOREM DarkBeforeLightSleep == PowerSpec => []DarkInLightSleep
<1> DEFINE Inv == TypesInv /\ DarkInv
<1>1. PowerInit => Inv
  BY InitTypes, InitDark
<1>2. Inv /\ [PowerNext]_vars => Inv'
  <2> SUFFICES ASSUME Inv, [PowerNext]_vars
               PROVE  Inv'
    OBVIOUS
  <2>1. TypesInv'
    BY StepKeepsTypes
  <2>2. CASE Use
    BY <2>1, <2>2, UseKeepsDark
  <2>3. CASE Pass(FALSE)
    BY <2>1, <2>3, PassKeepsDark
  <2>4. CASE Tick
    BY <2>1, <2>4, TickKeepsDark
  <2>5. CASE Dim
    BY <2>1, <2>5, DimKeepsDark
  <2>6. CASE \/ (\E values \in Choices : Set(values)) \/ SaveSettings
             \/ (\E b \in BOOLEAN : SetInScene(b)) \/ Battery \/ UNCHANGED vars
    <3>1. UNCHANGED <<mode, standbyTimer, late, isAsleep, fade, level, firstData, prompt, inTheWay>>
      BY <2>6 DEF Set, SaveSettings, SetInScene, Battery, vars, bvars, pvars
    <3> QED  BY <2>1, <3>1, RestKeepsDark
  <2>7. CASE LightSleepExpires
    <3>1. /\ mode' = "deep"
          /\ UNCHANGED <<standbyTimer, late, isAsleep, fade, level, firstData, prompt, inTheWay>>
      BY <2>7 DEF LightSleepExpires, bvars
    <3> QED  BY <2>1, <3>1, RestKeepsDark
  <2> QED  BY <2>2, <2>3, <2>4, <2>5, <2>6, <2>7 DEF PowerNext
<1>3. Inv => DarkInLightSleep
  BY DEF DarkInv
<1> HIDE DEF Inv
<1> QED  BY <1>1, <1>2, <1>3, PTL DEF PowerSpec
=============================================================================
