---------------------------- MODULE LearnBattery ----------------------------
(***************************************************************************)
(* Learning the curve of the battery: a test that charges or discharges it *)
(* for hours and measures it between light sleeps (LearnBattery.cpp), and  *)
(* the curves and the mode it keeps in the flash (BatteryRevX.cpp).        *)
(*                                                                         *)
(* The unit of time is a call of onTimer.  Voltage and charger are read    *)
(* anew each time and may say anything.  Only the number of points of a    *)
(* curve is kept; BatteryGauge has what is read from one.                  *)
(***************************************************************************)
EXTENDS Integers

CONSTANTS Modulus,          \* of an unsigned long
          Period,           \* 600000 ms
          RelaxTime,        \* 120000 ms
          Slack,            \* 5000 ms
          Delay,            \* 50 calls
          RelaxCalls,       \* 6000 calls
          LowFor,           \* 300 calls
          Least, Full,      \* 10, and maxBatCalVals
          UserTimeouts, Borrowed
ASSUME LearnAssumption ==
  /\ {Modulus, Slack, Delay, RelaxCalls} \subseteq Nat \ {0}
  /\ Period \in Slack..Modulus /\ Period + Delay < Modulus /\ RelaxTime \in 1..(Modulus - 1)
  /\ LowFor \in Nat \ {0} /\ Least \in Nat \ {0} /\ Full \in Nat /\ Least < Full
  /\ Borrowed \notin UserTimeouts /\ 0 \notin UserTimeouts

VARIABLES test,         \* mState, or "closed"
          calMode, stored,      \* in the flash
          loaded,       \* mCalValues
          points,       \* mSocVals
          wakeReason, wakeCount, mvLowCount,    \* outlive the page
          left,         \* expectedWakeTime, from now
          mOrigSleepTime, sleepTimeout, userTimeout,
          hibernates,   \* of the fuel gauge
          sleeping,     \* in enterSleep
          said,         \* the end of the log on the page
          since, hurried    \* history: calls since the last point; a key came too late
curves  == <<calMode, stored, loaded>>
timing  == <<wakeReason, wakeCount, left, since, hurried>>
borrows == <<mOrigSleepTime, sleepTimeout, hibernates>>
calVars == <<test, curves, points, mvLowCount, timing, borrows, userTimeout, sleeping, said>>

Curves == {"charge", "discharge"}
Awake == [on |-> FALSE, charger |-> FALSE, for |-> 0, rearm |-> FALSE]
Idle == test = "IDLE"
Up == test # "closed" /\ ~sleeping.on
Later(n) == IF since + n > Modulus THEN Modulus ELSE since + n     \* bound: since
Forgotten ==          \* what is always set before it is read again
  /\ wakeReason' = "TIMER" /\ wakeCount' = Delay /\ left' = 0 /\ since' = 0 /\ hurried' = FALSE

-----------------------------------------------------------------------------
(* Curves *)
saveLinearisationData(curve, n) ==
  stored' = IF n < Full THEN [stored EXCEPT ![curve] = n] ELSE stored

loadLinearisationData(curve) ==
  IF curve \in Curves /\ stored[curve] > Least /\ stored[curve] < Full THEN stored[curve] ELSE 0

setCalMode(curve) ==
  /\ Idle /\ calMode' = curve /\ loaded' = loadLinearisationData(curve)
  /\ UNCHANGED <<test, stored, points, mvLowCount, timing, borrows, userTimeout, sleeping, said>>

-----------------------------------------------------------------------------
(* The page *)
CalInit ==
  /\ test = "closed" /\ calMode = "direct" /\ stored = [c \in Curves |-> 0] /\ loaded = 0
  /\ points = 0 /\ wakeReason = "TIMER" /\ wakeCount = Delay /\ mvLowCount = 0 /\ left = 0
  /\ mOrigSleepTime = 0 /\ userTimeout \in UserTimeouts /\ sleepTimeout = userTimeout
  /\ hibernates = TRUE /\ sleeping = Awake /\ said = "" /\ since = 0 /\ hurried = FALSE

OpenLearnPage ==
  /\ test = "closed" /\ test' = "IDLE"
  /\ UNCHANGED <<curves, points, mvLowCount, timing, borrows, userTimeout, sleeping, said>>

Discarded == test' = "closed" /\ points' = 0 /\ mOrigSleepTime' = 0 /\ said' = "" /\ Forgotten

CloseLearnPage ==
  /\ Up /\ Discarded /\ hibernates' = TRUE
  /\ sleepTimeout' = IF mOrigSleepTime # 0 THEN mOrigSleepTime ELSE sleepTimeout
  /\ UNCHANGED <<curves, mvLowCount, userTimeout, sleeping>>

ChangeTimeout ==      \* on the page of the system settings
  /\ test = "closed" /\ userTimeout' \in UserTimeouts /\ sleepTimeout' = userTimeout'
  /\ UNCHANGED <<test, curves, points, mvLowCount, timing, mOrigSleepTime, hibernates, sleeping, said>>

StartCharge ==        \* the charger is out and the battery low
  /\ Idle /\ calMode = "charge"
  /\ said' = "" /\ test' = "WAIT_CHG" /\ points' = 0
  /\ UNCHANGED <<curves, mvLowCount, timing, borrows, userTimeout, sleeping>>

StartDischarge ==     \* the charger is out
  /\ Idle /\ calMode = "discharge"
  /\ mOrigSleepTime' = sleepTimeout /\ sleepTimeout' = Borrowed
  /\ said' = "" /\ test' = "WAIT_DISCHG" /\ points' = 0
  /\ UNCHANGED <<curves, mvLowCount, timing, hibernates, userTimeout, sleeping>>

\* With the log and, after a discharge, the timeout
setCalComplete(words) ==
  /\ test' = "IDLE" /\ said' = words /\ hibernates' = TRUE /\ Forgotten /\ UNCHANGED sleeping
  /\ sleepTimeout' = IF calMode = "discharge" THEN mOrigSleepTime ELSE sleepTimeout

-----------------------------------------------------------------------------
(* onTimer, by the state it is called in *)
Enough == points > Least
Saving(curve, n) ==
  IF Enough THEN saveLinearisationData(curve, n) /\ points' = n /\ setCalComplete("saved")
            ELSE UNCHANGED <<stored, points>> /\ setCalComplete("cancelled")

enterSleep(charger, duration, rearm) ==
  sleeping' = [on |-> TRUE, charger |-> charger, for |-> duration, rearm |-> rearm]

Counts == wakeCount' = IF wakeCount < -1 THEN wakeCount ELSE wakeCount - 1    \* bound: -2

WaitCharge ==         \* the charger is in
  /\ Up /\ test = "WAIT_CHG" /\ test' = "MEASURE_CHG" /\ hibernates' = FALSE /\ Forgotten
  /\ UNCHANGED <<curves, points, mvLowCount, mOrigSleepTime, sleepTimeout, userTimeout, sleeping, said>>

CountDown ==
  /\ Up /\ wakeCount # 0
  /\ <<test, wakeReason>> \in {<<"MEASURE_CHG", "TIMER">>, <<"MEASURE_CHG", "KEYPAD">>,
                             <<"MEASURE_DISCHG", "KEYPAD">>}
  /\ Counts /\ left' = (left - 1) % Modulus /\ since' = Later(1)
  /\ UNCHANGED <<test, curves, points, wakeReason, mvLowCount, borrows, userTimeout, sleeping, said, hurried>>

MeasureCharge ==
  /\ Up /\ test = "MEASURE_CHG" /\ wakeReason = "TIMER" /\ wakeCount = 0
  /\ points' = points + 1
  /\ IF points + 1 < Full
       THEN /\ left' = Period /\ enterSleep(FALSE, Period, TRUE)
            /\ Counts /\ since' = 0 /\ hurried' = FALSE
            /\ UNCHANGED <<test, wakeReason, sleepTimeout, hibernates, said>>
       ELSE setCalComplete("cancelled")
  /\ UNCHANGED <<curves, mvLowCount, mOrigSleepTime, userTimeout>>

\* The charger has stopped: the last measurements are combined with this one
ChargeDone ==
  /\ Up /\ test = "MEASURE_CHG" /\ wakeReason = "CHARGER"
  /\ \/ Saving("charge", points - 1)
     \/ UNCHANGED <<stored, points>> /\ setCalComplete("cancelled")      \* the battery is not full
  /\ UNCHANGED <<calMode, loaded, mvLowCount, mOrigSleepTime, userTimeout>>

\* Seeded fault: a period is started anew
SleepRemAnew == Period

sleepRem == (left - Slack) % Modulus
\* After a key or a movement
SleepAgain ==
  /\ Up /\ test \in {"MEASURE_CHG", "MEASURE_DISCHG"} /\ wakeReason = "KEYPAD" /\ wakeCount = 0
  /\ hurried' = (hurried \/ left \notin Slack..Period)
  /\ IF sleepRem > 0
       THEN enterSleep(test = "MEASURE_DISCHG", sleepRem, TRUE) /\ Counts /\ UNCHANGED wakeReason
       ELSE wakeReason' = "TIMER" /\ wakeCount' = Delay /\ UNCHANGED sleeping
  /\ UNCHANGED <<test, curves, points, mvLowCount, left, since, borrows, userTimeout, said>>

StartRelax ==
  /\ Up /\ test = "WAIT_DISCHG" /\ test' = "RELAX" /\ hibernates' = FALSE /\ wakeCount' = Delay
  /\ UNCHANGED <<curves, points, mvLowCount, wakeReason, left, since, hurried, mOrigSleepTime,
                 sleepTimeout, userTimeout, sleeping, said>>

RelaxAwake ==         \* the voltage is low for a number of calls, or it is not
  /\ Up /\ test = "RELAX" /\ wakeCount # 0
  /\ mvLowCount' \in {0, IF mvLowCount < LowFor THEN mvLowCount + 1 ELSE LowFor}
  /\ IF mvLowCount' = LowFor THEN Saving("discharge", points)
     ELSE Counts /\ UNCHANGED <<test, stored, points, wakeReason, left, since, hurried, sleepTimeout,
                                hibernates, sleeping, said>>
  /\ UNCHANGED <<calMode, loaded, mOrigSleepTime, userTimeout>>

RelaxAsleep ==
  /\ Up /\ test = "RELAX" /\ wakeCount = 0
  /\ Counts /\ test' = "MEASURE_DISCHG" /\ left' = RelaxTime /\ enterSleep(TRUE, RelaxTime, FALSE)
  /\ UNCHANGED <<curves, points, mvLowCount, wakeReason, since, hurried, borrows, userTimeout, said>>

MeasureDischarge ==
  /\ Up /\ test = "MEASURE_DISCHG" /\ wakeReason = "TIMER"
  /\ IF points < Full
       THEN /\ points' = points + 1 /\ test' = "RELAX" /\ wakeCount' = RelaxCalls
            /\ left' = 0 /\ since' = 0
            /\ UNCHANGED <<wakeReason, hurried, sleepTimeout, hibernates, sleeping, said>>
       ELSE setCalComplete("cancelled") /\ UNCHANGED points
  /\ UNCHANGED <<curves, mvLowCount, mOrigSleepTime, userTimeout>>

ChargerBreaksIn ==
  /\ Up /\ test = "MEASURE_DISCHG" /\ wakeReason = "CHARGER" /\ setCalComplete("cancelled")
  /\ UNCHANGED <<curves, points, mvLowCount, mOrigSleepTime, userTimeout>>

onTimer ==
  \/ WaitCharge \/ CountDown \/ MeasureCharge \/ ChargeDone \/ SleepAgain
  \/ StartRelax \/ RelaxAwake \/ RelaxAsleep \/ MeasureDischarge \/ ChargerBreaksIn

-----------------------------------------------------------------------------
(* Asleep *)
Spans(reason) == CASE reason = "TIMER" -> {sleeping.for}
                   [] reason = "KEYPAD" -> 0..(sleeping.for - 1)
                   [] OTHER -> 0..sleeping.for
\* Seeded fault: the delay is not set anew
WakeUnarmed(reason) ==
  /\ sleeping.on /\ sleeping' = Awake /\ wakeReason' = reason /\ UNCHANGED wakeCount
  /\ \E spent \in Spans(reason) : left' = (left - spent) % Modulus /\ since' = Later(spent)
  /\ UNCHANGED <<test, curves, points, mvLowCount, hurried, borrows, userTimeout, said>>

lightSleepWakeReint(reason) ==
  /\ sleeping.on /\ sleeping' = Awake /\ wakeReason' = reason
  /\ wakeCount' = IF sleeping.rearm THEN Delay ELSE wakeCount
  /\ \E spent \in Spans(reason) : left' = (left - spent) % Modulus /\ since' = Later(spent)
  /\ UNCHANGED <<test, curves, points, mvLowCount, hurried, borrows, userTimeout, said>>

PowerFails ==         \* or a deep sleep
  /\ Discarded /\ loaded' = loadLinearisationData(calMode) /\ mvLowCount' = 0
  /\ sleepTimeout' = userTimeout /\ hibernates' = TRUE /\ sleeping' = Awake
  /\ UNCHANGED <<calMode, stored, userTimeout>>

KeyWakes == lightSleepWakeReint("KEYPAD")
SleepEnds == \E reason \in {"TIMER", "CHARGER"} : lightSleepWakeReint(reason)
CalNext ==
  \/ OpenLearnPage \/ CloseLearnPage \/ ChangeTimeout \/ StartCharge \/ StartDischarge
  \/ \E mode \in Curves \cup {"direct"} : setCalMode(mode)
  \/ onTimer \/ KeyWakes \/ SleepEnds \/ PowerFails

CalSpec == CalInit /\ [][CalNext]_calVars /\ WF_calVars(onTimer) /\ WF_calVars(SleepEnds)

-----------------------------------------------------------------------------
CalTypeOK ==
  /\ test \in {"closed", "IDLE", "WAIT_CHG", "MEASURE_CHG", "WAIT_DISCHG", "RELAX", "MEASURE_DISCHG"}
  /\ calMode \in Curves \cup {"direct"} /\ loaded \in 0..(Full - 1)
  /\ stored \in [Curves -> 0..(Full - 1)] /\ points \in 0..Full
  /\ wakeReason \in {"TIMER", "CHARGER", "KEYPAD"} /\ mvLowCount \in 0..LowFor
  /\ wakeCount \in -2..(IF RelaxCalls > Delay THEN RelaxCalls ELSE Delay)
  /\ left \in 0..(Modulus - 1) /\ since \in 0..Modulus /\ hurried \in BOOLEAN
  /\ sleepTimeout \in UserTimeouts \cup {Borrowed} /\ hibernates \in BOOLEAN
  /\ sleeping.for \in 0..(Modulus - 1)

\* The long timeout that a discharge test borrows ends with it, on whichever way, and the
\* fuel gauge hibernates again with the end of every test (83-86, 302, 329, 335, 354-357).
BorrowedBack ==
  /\ sleepTimeout # userTimeout => test \in {"WAIT_DISCHG", "RELAX", "MEASURE_DISCHG"}
  /\ ~hibernates => test \in {"MEASURE_CHG", "RELAX", "MEASURE_DISCHG"}

\* What the page calls saved is in the flash and will be used, but for curves of the one
\* size that is too long to be written and the one that is too short to be read.
SavedIsUsable ==
  [][said' = "saved" /\ test \notin {"closed", "IDLE"} /\ test' = "IDLE" =>
       \/ stored'[calMode] = points' /\ points' > Least
       \/ points' \in {Least, Full}]_calVars

\* The points of a charge are one period apart, give or take the delays around a sleep,
\* unless a key came when less was left than those take: then the sleep is one of days.
EvenlySpaced ==
  [][test = "MEASURE_CHG" /\ points' = points + 1 /\ points > 0 /\ ~hurried =>
       since \in (Period + Delay - Slack)..(Period + Delay)]_calVars

\* A test comes to an end when no key disturbs it any more, whatever the battery does,
\* unless it waits for the charger, or a key has come while the battery was relaxing.
TestEnds ==
  <>[][~KeyWakes]_calVars =>
     []<>(\/ test \in {"closed", "IDLE", "WAIT_CHG"}
          \/ test = "MEASURE_DISCHG" /\ wakeReason = "KEYPAD")

\* "if woken by key or IMU go back to sleep after delay" (338)
GoesBackToSleep ==
  test \in {"MEASURE_CHG", "MEASURE_DISCHG"} /\ wakeReason = "KEYPAD" /\ ~sleeping.on =>
    wakeCount \in 0..Delay

\* A test leaves no trace but its curve: what it borrowed is given back on every way out,
\* what it calls saved can be used, and the points of a charge are evenly spaced, over
\* light sleeps and wake-ups of every kind.
TestIsSound == []BorrowedBack /\ SavedIsUsable /\ EvenlySpaced
=============================================================================
