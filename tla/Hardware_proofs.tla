--------------------------- MODULE Hardware_proofs ----------------------------
(***************************************************************************)
(* Theorems about the parts of the remote.  The battery, for any times and *)
(* sizes: what a test of the curve borrows is given back and what it calls *)
(* saved is usable, and for any curve the percentage that is shown is one. *)
(* The keyboard of revision 5, for any keys, queue size, thresholds and    *)
(* delays: no key of which the controller has not lost a movement gets stuck, *)
(* and the events of every key follow the protocol of KeyGestures.  The    *)
(* keypad of revision 1, for any matrix and length of its list: the list   *)
(* catches up with the keys, and their events are gestures too.            *)
(***************************************************************************)
EXTENDS LearnBattery, BatteryGauge, KeyboardRev5, Keypad, FiniteSetTheorems, WellFoundedInduction,
        TLAPS

(* A non-empty set of natural numbers has a least element.                 *)
LEMMA LeastElement ==
  ASSUME NEW T, T \subseteq Nat, T # {}
  PROVE  \E i \in T : \A j \in T : i <= j
<1> DEFINE R == OpToRel(<, Nat)
<1>1. \E i \in T : \A j \in T : <<j, i>> \notin R
  <2> HIDE DEF R
  <2>1. IsWellFoundedOn(R, Nat)
    BY NatLessThanWellFounded DEF R
  <2> QED  BY <2>1, WFMin
<1>2. \A i, j \in Nat : <<j, i>> \notin R => i <= j
  <2>1. ASSUME NEW i \in Nat, NEW j \in Nat, j < i  PROVE <<j, i>> \in R
    BY <2>1 DEF OpToRel
  <2> HIDE DEF R
  <2> QED  BY <2>1
<1> HIDE DEF R
<1> QED  BY <1>1, <1>2

(***************************************************************************)
(* Learning.                                                               *)
(***************************************************************************)
Charging    == {"WAIT_CHG", "MEASURE_CHG"}
Discharging == {"WAIT_DISCHG", "RELAX", "MEASURE_DISCHG"}

(* A test runs in the mode it was started in, with room for its points.    *)
TestFitsMode ==
  /\ test \in {"closed", "IDLE"} \cup Charging \cup Discharging
  /\ calMode \in Curves \cup {"direct"} /\ points \in 0..Full /\ stored \in [Curves -> Nat]
  /\ test \in Charging => calMode = "charge" /\ points < Full
  /\ test \in Discharging => calMode = "discharge"

(* The timeout to be given back is the user's, from the first test on      *)
(* until the page is closed.                                               *)
Remembered ==
  /\ userTimeout \in UserTimeouts
  /\ mOrigSleepTime \in {0, userTimeout}
  /\ test \in Discharging => mOrigSleepTime = userTimeout
  /\ test = "closed" => mOrigSleepTime = 0

LearnInv == TestFitsMode /\ Remembered /\ BorrowedBack

LEMMA LearnInitEstablishes == CalInit => LearnInv
<1> SUFFICES ASSUME CalInit  PROVE LearnInv
  OBVIOUS
<1>1. 0 \in 0..Full
  BY LearnAssumption
<1>2. stored \in [Curves -> Nat]
  <2>1. stored = [c \in Curves |-> 0]
    BY DEF CalInit
  <2> QED  BY <2>1
<1> QED
  BY <1>1, <1>2 DEF CalInit, LearnInv, TestFitsMode, Remembered, BorrowedBack, Charging, Discharging

(* Most steps of a test only count and measure.                            *)
LEMMA WithinTheTest ==
  ASSUME LearnInv,
         UNCHANGED <<test, calMode, stored, points, mOrigSleepTime, sleepTimeout, userTimeout,
                     hibernates>>
  PROVE  LearnInv'
BY DEF LearnInv, TestFitsMode, Remembered, BorrowedBack

(* On the page, outside of a test.                                         *)
LEMMA PageKeeps ==
  ASSUME LearnInv,
         \/ OpenLearnPage \/ CloseLearnPage \/ ChangeTimeout \/ StartCharge \/ StartDischarge
         \/ PowerFails \/ \E mode \in Curves \cup {"direct"} : setCalMode(mode)
  PROVE  LearnInv'
<1>0. 0 \in 0..Full /\ 0 < Full /\ 0 \notin UserTimeouts
  BY LearnAssumption
<1> USE DEF LearnInv, TestFitsMode, Remembered, BorrowedBack, Charging, Discharging
<1>1. CASE OpenLearnPage
  BY <1>1 DEF OpenLearnPage, curves, borrows
<1>2. CASE CloseLearnPage
  <2>1. /\ test' = "closed" /\ points' = 0 /\ mOrigSleepTime' = 0 /\ hibernates' = TRUE
        /\ UNCHANGED <<calMode, stored, userTimeout>>
        /\ sleepTimeout' = IF mOrigSleepTime # 0 THEN mOrigSleepTime ELSE sleepTimeout
    BY <1>2 DEF CloseLearnPage, Discarded, curves
  <2>2. sleepTimeout' = userTimeout
    BY <1>0, <2>1
  <2> QED  BY <1>0, <2>1, <2>2
<1>3. CASE ChangeTimeout
  BY <1>3 DEF ChangeTimeout, curves
<1>4. CASE StartCharge
  <2>1. /\ test = "IDLE" /\ test' = "WAIT_CHG" /\ calMode = "charge" /\ points' = 0
        /\ UNCHANGED <<calMode, stored, mOrigSleepTime, sleepTimeout, userTimeout, hibernates>>
    BY <1>4 DEF StartCharge, Idle, curves, borrows
  <2> QED  BY <1>0, <2>1
<1>5. CASE StartDischarge
  <2>1. /\ test = "IDLE" /\ test' = "WAIT_DISCHG" /\ calMode = "discharge" /\ points' = 0
        /\ mOrigSleepTime' = sleepTimeout
        /\ UNCHANGED <<calMode, stored, userTimeout, hibernates>>
    BY <1>5 DEF StartDischarge, Idle, curves
  <2>2. sleepTimeout = userTimeout
    BY <2>1
  <2> QED  BY <1>0, <2>1, <2>2
<1>6. CASE PowerFails
  <2>1. /\ test' = "closed" /\ points' = 0 /\ mOrigSleepTime' = 0 /\ hibernates' = TRUE
        /\ sleepTimeout' = userTimeout /\ UNCHANGED <<calMode, stored, userTimeout>>
    BY <1>6 DEF PowerFails, Discarded
  <2> QED  BY <1>0, <2>1
<1>7. ASSUME NEW mode \in Curves \cup {"direct"}, setCalMode(mode)  PROVE LearnInv'
  BY <1>7 DEF setCalMode, Idle, borrows
<1> QED  BY <1>1, <1>2, <1>3, <1>4, <1>5, <1>6, <1>7

(* Every end of a test gives back what it borrowed.                        *)
LEMMA EndGivesBack ==
  ASSUME LearnInv, NEW words, setCalComplete(words), test \in Charging \cup Discharging,
         points' \in 0..Full, stored' \in [Curves -> Nat],
         UNCHANGED <<calMode, mOrigSleepTime, userTimeout>>
  PROVE  LearnInv'
BY DEF LearnInv, TestFitsMode, Remembered, BorrowedBack, Charging, Discharging, setCalComplete

LEMMA SavingKeeps ==
  ASSUME LearnInv, NEW curve \in Curves, NEW n \in 0..Full, Saving(curve, n),
         test \in Charging \cup Discharging,
         UNCHANGED <<calMode, mOrigSleepTime, userTimeout>>
  PROVE  LearnInv'
<1>1. n \in Nat /\ points \in 0..Full /\ stored \in [Curves -> Nat]
  BY LearnAssumption DEF LearnInv, TestFitsMode
<1>2. CASE Enough
  <2>1. stored' \in [Curves -> Nat] /\ points' \in 0..Full /\ setCalComplete("saved")
    BY <1>1, <1>2 DEF Saving, saveLinearisationData
  <2> QED  BY <2>1, EndGivesBack
<1>3. CASE ~Enough
  <2>1. stored' \in [Curves -> Nat] /\ points' \in 0..Full /\ setCalComplete("cancelled")
    BY <1>1, <1>3 DEF Saving
  <2> QED  BY <2>1, EndGivesBack
<1> QED  BY <1>2, <1>3

LEMMA TimerKeeps ==
  ASSUME LearnInv, onTimer
  PROVE  LearnInv'
<1>1. /\ points \in 0..Full /\ stored \in [Curves -> Nat]
      /\ test \in Charging => points < Full
  BY DEF LearnInv, TestFitsMode
<1>2. CASE WaitCharge
  BY <1>2 DEF WaitCharge, curves, LearnInv, TestFitsMode, Remembered, BorrowedBack, Charging,
     Discharging
<1>3. CASE CountDown \/ SleepAgain
  BY <1>3, WithinTheTest DEF CountDown, SleepAgain, curves, borrows
<1>4. CASE MeasureCharge
  <2>1. /\ test = "MEASURE_CHG" /\ points' = points + 1
        /\ UNCHANGED <<calMode, stored, mOrigSleepTime, userTimeout>>
    BY <1>4 DEF MeasureCharge, curves
  <2>2. points' \in 0..Full
    BY <1>1, <2>1, LearnAssumption DEF Charging
  <2>3. CASE points + 1 < Full
    <3>1. UNCHANGED <<test, sleepTimeout, hibernates>>
      BY <1>4, <2>3 DEF MeasureCharge
    <3> QED  BY <2>1, <2>2, <2>3, <3>1
             DEF LearnInv, TestFitsMode, Remembered, BorrowedBack, Charging, Discharging
  <2>4. CASE ~(points + 1 < Full)
    <3>1. setCalComplete("cancelled")
      BY <1>4, <2>4 DEF MeasureCharge
    <3> QED  BY <1>1, <2>1, <2>2, <3>1, EndGivesBack DEF Charging
  <2> QED  BY <2>3, <2>4
<1>5. CASE ChargeDone
  <2>1. test = "MEASURE_CHG" /\ UNCHANGED <<calMode, mOrigSleepTime, userTimeout>>
    BY <1>5 DEF ChargeDone
  <2>2. CASE Saving("charge", points - 1)
    <3>1. CASE points = 0
      <4>1. ~Enough
        BY <3>1, LearnAssumption DEF Enough
      <4>2. UNCHANGED <<stored, points>> /\ setCalComplete("cancelled")
        BY <2>2, <4>1 DEF Saving
      <4> QED  BY <1>1, <2>1, <4>2, EndGivesBack DEF Charging
    <3>2. CASE points # 0
      <4>1. points - 1 \in 0..Full /\ "charge" \in Curves
        BY <1>1, <3>2, LearnAssumption DEF Curves
      <4> QED  BY <2>1, <2>2, <4>1, SavingKeeps DEF Charging
    <3> QED  BY <3>1, <3>2
  <2>3. CASE UNCHANGED <<stored, points>> /\ setCalComplete("cancelled")
    BY <1>1, <2>1, <2>3, EndGivesBack DEF Charging
  <2> QED  BY <1>5, <2>2, <2>3 DEF ChargeDone
<1>6. CASE StartRelax
  BY <1>6 DEF StartRelax, curves, LearnInv, TestFitsMode, Remembered, BorrowedBack, Charging,
     Discharging
<1>7. CASE RelaxAwake
  <2>1. test = "RELAX" /\ UNCHANGED <<calMode, mOrigSleepTime, userTimeout>>
    BY <1>7 DEF RelaxAwake
  <2>2. CASE mvLowCount' = LowFor
    <3>1. Saving("discharge", points) /\ "discharge" \in Curves
      BY <1>7, <2>2 DEF RelaxAwake, Curves
    <3> QED  BY <1>1, <2>1, <3>1, SavingKeeps DEF Discharging
  <2>3. CASE mvLowCount' # LowFor
    <3>1. UNCHANGED <<test, stored, points, sleepTimeout, hibernates>>
      BY <1>7, <2>3 DEF RelaxAwake
    <3> QED  BY <2>1, <3>1, WithinTheTest
  <2> QED  BY <2>2, <2>3
<1>8. CASE RelaxAsleep
  BY <1>8 DEF RelaxAsleep, curves, borrows, LearnInv, TestFitsMode, Remembered, BorrowedBack,
     Charging, Discharging
<1>9. CASE MeasureDischarge
  <2>1. test = "MEASURE_DISCHG" /\ UNCHANGED <<calMode, stored, mOrigSleepTime, userTimeout>>
    BY <1>9 DEF MeasureDischarge, curves
  <2>2. CASE points < Full
    <3>1. points' = points + 1 /\ test' = "RELAX" /\ UNCHANGED <<sleepTimeout, hibernates>>
      BY <1>9, <2>2 DEF MeasureDischarge
    <3>2. points' \in 0..Full
      BY <1>1, <2>2, <3>1, LearnAssumption
    <3> QED  BY <2>1, <3>1, <3>2
             DEF LearnInv, TestFitsMode, Remembered, BorrowedBack, Charging, Discharging
  <2>3. CASE ~(points < Full)
    <3>1. setCalComplete("cancelled") /\ UNCHANGED points
      BY <1>9, <2>3 DEF MeasureDischarge
    <3> QED  BY <1>1, <2>1, <3>1, EndGivesBack DEF Discharging
  <2> QED  BY <2>2, <2>3
<1>10. CASE ChargerBreaksIn
  <2>1. /\ test = "MEASURE_DISCHG" /\ setCalComplete("cancelled")
        /\ UNCHANGED <<calMode, stored, points, mOrigSleepTime, userTimeout>>
    BY <1>10 DEF ChargerBreaksIn, curves
  <2> QED  BY <1>1, <2>1, EndGivesBack DEF Discharging
<1> QED
  BY <1>2, <1>3, <1>4, <1>5, <1>6, <1>7, <1>8, <1>9, <1>10 DEF onTimer

LEMMA LearnStepKeeps == LearnInv /\ [CalNext]_calVars => LearnInv'
<1> SUFFICES ASSUME LearnInv, [CalNext]_calVars  PROVE LearnInv'
  OBVIOUS
<1>1. CASE UNCHANGED calVars
  BY <1>1, WithinTheTest DEF calVars, curves, borrows
<1>2. CASE KeyWakes \/ SleepEnds
  BY <1>2, WithinTheTest DEF KeyWakes, SleepEnds, lightSleepWakeReint, curves, borrows
<1> QED  BY <1>1, <1>2, PageKeeps, TimerKeeps DEF CalNext

(* For any timeouts, periods and sizes, the long timeout of a discharge    *)
(* test ends with it on every way, and the fuel gauge hibernates again     *)
(* (LearnBattery.cpp:83-86, 302, 329, 335, 354-357).                       *)
LEMMA TimeoutIsGivenBack == CalSpec => []BorrowedBack
<1>1. CalSpec => []LearnInv
  BY LearnInitEstablishes, LearnStepKeeps, PTL DEF CalSpec
<1>2. LearnInv => BorrowedBack
  BY DEF LearnInv
<1> QED  BY <1>1, <1>2, PTL

(* A test ends as saved only by saving.                                    *)
LEMMA SavedBySaving ==
  ASSUME LearnInv, [CalNext]_calVars,
         said' = "saved", test \notin {"closed", "IDLE"}, test' = "IDLE"
  PROVE  \/ stored'[calMode] = points' /\ points' > Least
         \/ points' \in {Least, Full}
<1>1. /\ points \in 0..Full /\ stored \in [Curves -> Nat] /\ calMode \in Curves \cup {"direct"}
      /\ test \in Charging => calMode = "charge" /\ points < Full
      /\ test \in Discharging => calMode = "discharge"
  BY DEF LearnInv, TestFitsMode
<1>2. \/ test = "MEASURE_CHG" /\ Saving("charge", points - 1)
      \/ test = "RELAX" /\ Saving("discharge", points)
  <2>1. ~UNCHANGED calVars
    BY DEF calVars
  <2>2. ~(KeyWakes \/ SleepEnds)
    BY DEF KeyWakes, SleepEnds, lightSleepWakeReint
  <2>3. ~(OpenLearnPage \/ CloseLearnPage \/ ChangeTimeout \/ StartCharge \/ StartDischarge
            \/ PowerFails \/ \E mode \in Curves \cup {"direct"} : setCalMode(mode))
    BY DEF OpenLearnPage, CloseLearnPage, ChangeTimeout, StartCharge, StartDischarge, PowerFails,
       setCalMode, Idle, Discarded
  <2>4. onTimer
    BY <2>1, <2>2, <2>3 DEF CalNext
  <2>5. ~(WaitCharge \/ CountDown \/ SleepAgain \/ StartRelax \/ RelaxAsleep)
    BY DEF WaitCharge, CountDown, SleepAgain, StartRelax, RelaxAsleep
  <2>6. ~(MeasureCharge \/ MeasureDischarge \/ ChargerBreaksIn)
    BY DEF MeasureCharge, MeasureDischarge, ChargerBreaksIn, setCalComplete
  <2>7. CASE ChargeDone
    BY <2>7 DEF ChargeDone, setCalComplete
  <2>8. CASE RelaxAwake
    BY <2>8 DEF RelaxAwake
  <2> QED  BY <2>4, <2>5, <2>6, <2>7, <2>8 DEF onTimer
<1>3. ASSUME NEW curve \in Curves, NEW n \in Int, Saving(curve, n),
             calMode = curve, n \in {points - 1, points}
      PROVE  \/ stored'[calMode] = points' /\ points' > Least
             \/ points' \in {Least, Full}
  <2>1. Enough
    <3>1. said' = "cancelled" => FALSE
      OBVIOUS
    <3> QED  BY <1>3, <3>1 DEF Saving, setCalComplete
  <2>2. points' = n /\ saveLinearisationData(curve, n)
    BY <1>3, <2>1 DEF Saving
  <2>3. points > Least
    BY <2>1 DEF Enough
  <2>4. n >= Least /\ n <= Full
    BY <1>1, <1>3, <2>3, LearnAssumption
  <2>5. CASE n < Full
    <3>1. stored'[curve] = n
      BY <1>1, <1>3, <2>2, <2>5 DEF saveLinearisationData
    <3> QED  BY <1>3, <2>2, <2>4, <3>1, LearnAssumption
  <2>6. CASE n = Full
    BY <2>2, <2>6
  <2> QED  BY <1>3, <2>4, <2>5, <2>6, LearnAssumption
<1>4. {"charge", "discharge"} = Curves /\ points \in Int /\ points - 1 \in Int
  BY <1>1, LearnAssumption DEF Curves
<1>5. CASE test = "MEASURE_CHG" /\ Saving("charge", points - 1)
  BY <1>1, <1>3, <1>4, <1>5 DEF Charging
<1>6. CASE test = "RELAX" /\ Saving("discharge", points)
  BY <1>1, <1>3, <1>4, <1>6 DEF Discharging
<1> QED  BY <1>2, <1>5, <1>6
(* What the page calls saved is written and will be loaded, but for the    *)
(* one length that is too long to be written, and the one that is too      *)
(* short to be read (LearnBattery.cpp:243-250, 290-301, BatteryRevX.cpp:   *)
(* 46-58, 76-104).                                                         *)
LEMMA SavedCurvesAreUsable == CalSpec => SavedIsUsable
<1>1. LearnInv /\ [CalNext]_calVars =>
        [said' = "saved" /\ test \notin {"closed", "IDLE"} /\ test' = "IDLE" =>
           \/ stored'[calMode] = points' /\ points' > Least
           \/ points' \in {Least, Full}]_calVars
  BY SavedBySaving
<1>2. CalSpec => []LearnInv
  BY LearnInitEstablishes, LearnStepKeeps, PTL DEF CalSpec
<1> QED  BY <1>1, <1>2, PTL DEF CalSpec, SavedIsUsable

-------------------------------------------------------------------------------
(* The types, and the distance of the points of a charge.                  *)
Most == IF RelaxCalls > Delay THEN RelaxCalls ELSE Delay

Sleeping == [on : BOOLEAN, charger : BOOLEAN, for : 0..(Modulus - 1), rearm : BOOLEAN]

LearnTypes ==
  /\ test \in {"closed", "IDLE"} \cup Charging \cup Discharging
  /\ calMode \in Curves \cup {"direct"} /\ loaded \in 0..(Full - 1)
  /\ stored \in [Curves -> 0..(Full - 1)] /\ points \in 0..Full
  /\ wakeReason \in {"TIMER", "CHARGER", "KEYPAD"} /\ mvLowCount \in 0..LowFor
  /\ wakeCount \in -2..Most
  /\ left \in 0..(Modulus - 1) /\ since \in 0..Modulus /\ hurried \in BOOLEAN
  /\ sleepTimeout \in UserTimeouts \cup {Borrowed} /\ hibernates \in BOOLEAN
  /\ sleeping \in Sleeping

(* Since the last point of a charge has passed what is not left of the     *)
(* period.  While the calls before the next measurement are counted, the   *)
(* whole of it has, up to the slack; while those before the next sleep     *)
(* are, the time left may have gone below zero, and so beyond the period.  *)
Asleep == sleeping.rearm /\ since + left = Period /\ sleeping.for \in {left, left - Slack}
Due    == since + wakeCount \in (Period + Delay - Slack)..(Period + Delay)
Again  == since + left = Period \/ left + Delay >= Modulus + wakeCount

Underway == test = "MEASURE_CHG" /\ points > 0 /\ ~hurried

OnSchedule ==
  /\ test = "WAIT_CHG" => points = 0
  /\ Underway /\ sleeping.on => Asleep
  /\ Underway /\ ~sleeping.on /\ wakeReason = "TIMER" => wakeCount \in 0..Delay /\ Due
  /\ Underway /\ ~sleeping.on /\ wakeReason = "KEYPAD" => wakeCount \in 0..Delay /\ Again

LEMMA LearnNumbers ==
  /\ Modulus \in Nat \ {0} /\ Slack \in Nat \ {0} /\ Delay \in Nat \ {0} /\ RelaxCalls \in Nat \ {0}
  /\ Period \in Nat /\ Slack <= Period /\ Period + Delay < Modulus /\ RelaxTime \in 1..(Modulus - 1)
  /\ LowFor \in Nat \ {0} /\ Least \in Nat \ {0} /\ Full \in Nat /\ Least < Full
  /\ Most \in Nat /\ Delay <= Most /\ RelaxCalls <= Most
BY LearnAssumption DEF Most

LEMMA Wraps ==
  ASSUME NEW x \in Int
  PROVE  /\ x % Modulus \in 0..(Modulus - 1)
         /\ x \in 0..(Modulus - 1) => x % Modulus = x
<1>1. \A n \in Nat \ {0} : /\ x % n \in 0..(n - 1)
                           /\ x \in 0..(n - 1) => x % n = x
  BY SMTT(30)
<1> QED  BY <1>1, LearnNumbers

LEMMA CountsDown ==
  ASSUME NEW c \in -2..Most
  PROVE  (IF c < -1 THEN c ELSE c - 1) \in -2..Most
BY LearnNumbers

LEMMA LaterIsTyped ==
  ASSUME NEW n \in Nat, NEW s \in 0..Modulus
  PROVE  (IF s + n > Modulus THEN Modulus ELSE s + n) \in 0..Modulus
BY LearnNumbers

(* The members that are always set before they are read again.             *)
LEMMA ForgottenIsTyped ==
  ASSUME Forgotten
  PROVE  /\ wakeReason' = "TIMER" /\ wakeCount' \in -2..Most /\ wakeCount' = Delay
         /\ left' \in 0..(Modulus - 1) /\ since' \in 0..Modulus /\ hurried' \in BOOLEAN
<1>1. Delay \in -2..Most /\ 0 \in 0..(Modulus - 1) /\ 0 \in 0..Modulus
  BY LearnNumbers
<1> QED  BY <1>1 DEF Forgotten

LEMMA LearnInitTyped == CalInit => LearnTypes /\ OnSchedule
<1> SUFFICES ASSUME CalInit  PROVE LearnTypes /\ OnSchedule
  OBVIOUS
<1>1. /\ 0 \in 0..(Full - 1) /\ 0 \in 0..Full /\ 0 \in 0..LowFor /\ Delay \in -2..Most
      /\ 0 \in 0..(Modulus - 1) /\ 0 \in 0..Modulus
  BY LearnNumbers
<1>2. stored \in [Curves -> 0..(Full - 1)]
  <2>1. stored = [c \in Curves |-> 0]
    BY DEF CalInit
  <2> QED  BY <1>1, <2>1
<1>3. sleeping \in Sleeping
  BY <1>1 DEF CalInit, Awake, Sleeping
<1> QED  BY <1>1, <1>2, <1>3 DEF CalInit, LearnTypes, OnSchedule, Underway

LEMMA LoadedIsTyped ==
  ASSUME stored \in [Curves -> 0..(Full - 1)], NEW c \in Curves \cup {"direct"}
  PROVE  loadLinearisationData(c) \in 0..(Full - 1)
<1>1. 0 \in 0..(Full - 1)
  BY LearnNumbers
<1> QED  BY <1>1 DEF loadLinearisationData

LEMMA PageIsTyped ==
  ASSUME LearnInv, LearnTypes, OnSchedule,
         \/ OpenLearnPage \/ CloseLearnPage \/ ChangeTimeout \/ StartCharge \/ StartDischarge
         \/ PowerFails \/ \E mode \in Curves \cup {"direct"} : setCalMode(mode)
  PROVE  LearnTypes' /\ OnSchedule'
<1>0. 0 \in 0..Full /\ 0 \in 0..LowFor
  BY LearnNumbers
<1>1. CASE OpenLearnPage
  BY <1>1 DEF OpenLearnPage, curves, timing, borrows, LearnTypes, OnSchedule, Underway
<1>2. CASE CloseLearnPage \/ PowerFails
  <2>1. Discarded /\ UNCHANGED <<calMode, stored, userTimeout>> /\ hibernates' = TRUE
    BY <1>2 DEF CloseLearnPage, PowerFails, curves
  <2>2. loaded' \in 0..(Full - 1) /\ mvLowCount' \in 0..LowFor /\ sleeping' \in Sleeping
    <3>1. CASE CloseLearnPage
      BY <3>1 DEF CloseLearnPage, curves, LearnTypes
    <3>2. CASE PowerFails
      <4>1. loaded' \in 0..(Full - 1)
        BY <3>2, LoadedIsTyped DEF PowerFails, LearnTypes
      <4>2. 0 \in 0..(Modulus - 1)
        BY LearnNumbers
      <4> QED  BY <1>0, <3>2, <4>1, <4>2 DEF PowerFails, Awake, Sleeping
    <3> QED  BY <1>2, <3>1, <3>2
  <2>3. sleepTimeout' \in UserTimeouts \cup {Borrowed}
    BY <1>2 DEF CloseLearnPage, PowerFails, LearnInv, Remembered, LearnTypes
  <2> QED
    BY <1>0, <2>1, <2>2, <2>3, ForgottenIsTyped DEF Discarded, LearnTypes, OnSchedule, Underway
<1>3. CASE ChangeTimeout
  BY <1>3 DEF ChangeTimeout, curves, timing, LearnTypes, OnSchedule, Underway
<1>4. CASE StartCharge \/ StartDischarge
  BY <1>0, <1>4 DEF StartCharge, StartDischarge, curves, timing, borrows, LearnTypes, OnSchedule,
     Underway, Charging, Discharging
<1>5. ASSUME NEW mode \in Curves \cup {"direct"}, setCalMode(mode)
      PROVE  LearnTypes' /\ OnSchedule'
  <2>1. loaded' \in 0..(Full - 1)
    BY <1>5, LoadedIsTyped DEF setCalMode, LearnTypes
  <2> QED  BY <1>5, <2>1 DEF setCalMode, Idle, timing, borrows, LearnTypes, OnSchedule, Underway
<1> QED  BY <1>1, <1>2, <1>3, <1>4, <1>5

LEMMA EndIsTyped ==
  ASSUME LearnInv, LearnTypes, NEW words, setCalComplete(words),
         points' \in 0..Full, stored' \in [Curves -> 0..(Full - 1)], mvLowCount' \in 0..LowFor,
         test \in Charging \cup Discharging, UNCHANGED <<calMode, loaded>>
  PROVE  LearnTypes' /\ OnSchedule'
<1>1. sleepTimeout' \in UserTimeouts \cup {Borrowed}
  BY DEF setCalComplete, LearnInv, TestFitsMode, Remembered, LearnTypes
<1> QED
  BY <1>1, ForgottenIsTyped DEF setCalComplete, LearnTypes, OnSchedule, Underway

LEMMA SavingIsTyped ==
  ASSUME LearnInv, LearnTypes, NEW curve \in Curves, NEW n \in Int, n \in {points, points - 1},
         Saving(curve, n), mvLowCount' \in 0..LowFor,
         test \in Charging \cup Discharging, UNCHANGED <<calMode, loaded>>
  PROVE  LearnTypes' /\ OnSchedule'
<1>1. points \in 0..Full /\ stored \in [Curves -> 0..(Full - 1)]
  BY DEF LearnTypes
<1>2. CASE Enough
  <2>1. n \in 0..Full /\ (n < Full => n \in 0..(Full - 1))
    BY <1>1, <1>2, LearnNumbers DEF Enough
  <2>2. stored' \in [Curves -> 0..(Full - 1)] /\ points' \in 0..Full /\ setCalComplete("saved")
    BY <1>1, <1>2, <2>1 DEF Saving, saveLinearisationData
  <2> QED  BY <2>2, EndIsTyped
<1>3. CASE ~Enough
  BY <1>1, <1>3, EndIsTyped DEF Saving
<1> QED  BY <1>2, <1>3

LEMMA CountDownIsTyped ==
  ASSUME LearnTypes, OnSchedule, CountDown
  PROVE  LearnTypes' /\ OnSchedule'
<1>1. /\ wakeCount \in -2..Most /\ left \in 0..(Modulus - 1) /\ since \in 0..Modulus
      /\ wakeCount # 0 /\ test \in {"MEASURE_CHG", "MEASURE_DISCHG"} /\ ~sleeping.on
  BY DEF LearnTypes, CountDown, Up
<1>2. /\ wakeCount' = IF wakeCount < -1 THEN wakeCount ELSE wakeCount - 1
      /\ left' = (left - 1) % Modulus
      /\ since' = IF since + 1 > Modulus THEN Modulus ELSE since + 1
      /\ UNCHANGED <<test, calMode, stored, loaded, points, wakeReason, mvLowCount, sleepTimeout,
                     hibernates, sleeping, hurried>>
  BY DEF CountDown, Counts, Later, curves, borrows
<1>3. wakeCount' \in -2..Most /\ left' \in 0..(Modulus - 1) /\ since' \in 0..Modulus
  <2>1. (left - 1) % Modulus \in 0..(Modulus - 1)
    BY <1>1, Wraps, LearnNumbers
  <2> QED  BY <1>1, <1>2, <2>1, CountsDown, LaterIsTyped
<1>4. ASSUME wakeCount \in 0..Delay
      PROVE  wakeCount - 1 \in 0..Delay /\ wakeCount' = wakeCount - 1
  <2>1. ~(wakeCount < -1) /\ wakeCount - 1 \in 0..Delay
    BY <1>1, <1>4, LearnNumbers
  <2> QED  BY <1>2, <2>1
<1>5. ASSUME Underway, wakeReason = "TIMER"
      PROVE  wakeCount' \in 0..Delay /\ Due'
  <2>1. wakeCount \in 0..Delay /\ since + wakeCount \in (Period + Delay - Slack)..(Period + Delay)
    BY <1>1, <1>5 DEF OnSchedule, Due
  <2>2. /\ ~(since + 1 > Modulus)
        /\ (since + 1) + (wakeCount - 1) \in (Period + Delay - Slack)..(Period + Delay)
    BY <1>1, <2>1, LearnNumbers
  <2> QED  BY <1>2, <1>4, <2>1, <2>2 DEF Due
<1>6. ASSUME Underway, wakeReason = "KEYPAD"
      PROVE  wakeCount' \in 0..Delay /\ Again'
  <2>1. wakeCount \in 0..Delay /\ (since + left = Period \/ left + Delay >= Modulus + wakeCount)
    BY <1>1, <1>6 DEF OnSchedule, Again
  <2>2. CASE left = 0
    <3>1. (left - 1) % Modulus = Modulus - 1
      <4>1. \A n \in Nat \ {0} : (0 - 1) % n = n - 1
        BY SMTT(30)
      <4> QED  BY <2>2, <4>1, LearnNumbers
    <3>2. (Modulus - 1) + Delay >= Modulus + (wakeCount - 1)
      BY <2>1, LearnNumbers
    <3> QED  BY <1>2, <1>4, <2>1, <3>1, <3>2 DEF Again
  <2>3. CASE left # 0
    <3>1. (left - 1) % Modulus = left - 1
      BY <1>1, <2>3, Wraps, LearnNumbers
    <3>2. CASE since + left = Period
      <4>1. ~(since + 1 > Modulus) /\ (since + 1) + (left - 1) = Period
        BY <1>1, <3>2, LearnNumbers
      <4> QED  BY <1>2, <1>4, <2>1, <3>1, <4>1 DEF Again
    <3>3. CASE left + Delay >= Modulus + wakeCount
      <4>1. (left - 1) + Delay >= Modulus + (wakeCount - 1)
        BY <1>1, <2>1, <3>3, LearnNumbers
      <4> QED  BY <1>2, <1>4, <2>1, <3>1, <4>1 DEF Again
    <3> QED  BY <2>1, <3>2, <3>3
  <2> QED  BY <2>2, <2>3
<1>7. LearnTypes'
  BY <1>2, <1>3 DEF LearnTypes
<1> QED  BY <1>1, <1>2, <1>5, <1>6, <1>7 DEF OnSchedule, Underway

LEMMA SleepAgainIsTyped ==
  ASSUME LearnTypes, OnSchedule, SleepAgain
  PROVE  LearnTypes' /\ OnSchedule'
<1> DEFINE rem == (left - Slack) % Modulus
<1>1. /\ wakeCount = 0 /\ wakeReason = "KEYPAD" /\ ~sleeping.on
      /\ left \in 0..(Modulus - 1) /\ since \in 0..Modulus
  BY DEF LearnTypes, SleepAgain, Up
<1>2. UNCHANGED <<test, calMode, stored, loaded, points, mvLowCount, sleepTimeout, hibernates, left,
                  since>>
  BY DEF SleepAgain, curves, borrows
<1>3. rem \in 0..(Modulus - 1) /\ sleepRem = rem
  BY <1>1, Wraps, LearnNumbers DEF sleepRem
<1>4. hurried' = (hurried \/ left \notin Slack..Period)
  BY DEF SleepAgain
<1>5. ASSUME Underway'
      PROVE  Underway /\ since + left = Period /\ rem = left - Slack
  <2>1. ~hurried /\ left \in Slack..Period /\ Underway
    BY <1>2, <1>4, <1>5 DEF Underway
  <2>2. since + left = Period
    BY <1>1, <2>1, LearnNumbers DEF OnSchedule, Again
  <2>3. rem = left - Slack
    BY <1>1, <2>1, Wraps, LearnNumbers
  <2> QED  BY <2>1, <2>2, <2>3
<1> HIDE DEF rem
<1>6. CASE rem > 0
  <2>1. /\ enterSleep(test = "MEASURE_DISCHG", rem, TRUE) /\ UNCHANGED wakeReason
        /\ wakeCount' = IF wakeCount < -1 THEN wakeCount ELSE wakeCount - 1
    BY <1>3, <1>6 DEF SleepAgain, Counts
  <2>2. sleeping' \in Sleeping /\ sleeping'.on /\ sleeping'.rearm /\ sleeping'.for = rem
    BY <1>3, <2>1 DEF enterSleep, Sleeping
  <2>3. wakeCount' \in -2..Most
    BY <2>1, CountsDown DEF LearnTypes
  <2>4. LearnTypes'
    BY <1>2, <1>4, <2>1, <2>2, <2>3 DEF LearnTypes
  <2>5. Underway' => Asleep'
    BY <1>2, <1>5, <2>2 DEF Asleep
  <2> QED  BY <1>2, <2>2, <2>4, <2>5 DEF OnSchedule
<1>7. CASE ~(rem > 0)
  <2>1. wakeReason' = "TIMER" /\ wakeCount' = Delay /\ UNCHANGED sleeping
    BY <1>3, <1>7 DEF SleepAgain
  <2>2. Delay \in -2..Most /\ Delay \in 0..Delay
    BY LearnNumbers
  <2>3. LearnTypes'
    BY <1>2, <1>4, <2>1, <2>2 DEF LearnTypes
  <2>4. ASSUME Underway'  PROVE Due'
    <3>1. since + left = Period /\ rem = left - Slack
      BY <1>5, <2>4
    <3>2. since + Delay \in (Period + Delay - Slack)..(Period + Delay)
      BY <1>1, <1>3, <1>7, <3>1, LearnNumbers
    <3> QED  BY <1>2, <2>1, <3>2 DEF Due
  <2> QED  BY <1>1, <1>2, <2>1, <2>2, <2>3, <2>4 DEF OnSchedule
<1> QED  BY <1>6, <1>7

LEMMA MeasureIsTyped ==
  ASSUME LearnInv, LearnTypes, OnSchedule, MeasureCharge \/ MeasureDischarge
  PROVE  LearnTypes' /\ OnSchedule'
<1>1. points \in 0..Full /\ stored \in [Curves -> 0..(Full - 1)] /\ wakeCount \in -2..Most
      /\ (test = "MEASURE_CHG" => points < Full)
  BY DEF LearnTypes, LearnInv, TestFitsMode, Charging
<1>2. CASE MeasureCharge
  <2>1. /\ test = "MEASURE_CHG" /\ points' = points + 1 /\ wakeCount = 0
        /\ UNCHANGED <<calMode, stored, loaded, mvLowCount>>
    BY <1>2 DEF MeasureCharge, curves
  <2>2. points + 1 \in 0..Full
    BY <1>1, <2>1, LearnNumbers
  <2>3. CASE points + 1 < Full
    <3>1. /\ left' = Period /\ enterSleep(FALSE, Period, TRUE) /\ since' = 0 /\ hurried' = FALSE
          /\ wakeCount' = IF wakeCount < -1 THEN wakeCount ELSE wakeCount - 1
          /\ UNCHANGED <<test, wakeReason, sleepTimeout, hibernates>>
      BY <1>2, <2>3 DEF MeasureCharge, Counts
    <3>2. Period \in 0..(Modulus - 1) /\ 0 \in 0..Modulus /\ 0 + Period = Period
      BY LearnNumbers
    <3>3. /\ sleeping' \in Sleeping /\ sleeping'.on /\ sleeping'.rearm /\ sleeping'.for = Period
      BY <3>1, <3>2 DEF enterSleep, Sleeping
    <3>4. wakeCount' \in -2..Most
      BY <1>1, <3>1, CountsDown
    <3>5. LearnTypes'
      BY <2>1, <2>2, <3>1, <3>2, <3>3, <3>4 DEF LearnTypes
    <3>6. Asleep'
      BY <3>1, <3>2, <3>3 DEF Asleep
    <3> QED  BY <2>1, <3>1, <3>3, <3>5, <3>6 DEF OnSchedule
  <2>4. CASE ~(points + 1 < Full)
    <3>1. setCalComplete("cancelled")
      BY <1>2, <2>4 DEF MeasureCharge
    <3> QED  BY <1>1, <2>1, <2>2, <3>1, EndIsTyped DEF Charging, LearnTypes
  <2> QED  BY <2>3, <2>4
<1>3. CASE MeasureDischarge
  <2>1. test = "MEASURE_DISCHG" /\ UNCHANGED <<calMode, stored, loaded, mvLowCount>>
    BY <1>3 DEF MeasureDischarge, curves
  <2>2. CASE points < Full
    <3>1. /\ points' = points + 1 /\ test' = "RELAX" /\ wakeCount' = RelaxCalls
          /\ left' = 0 /\ since' = 0
          /\ UNCHANGED <<wakeReason, hurried, sleepTimeout, hibernates, sleeping>>
      BY <1>3, <2>2 DEF MeasureDischarge
    <3>2. /\ points + 1 \in 0..Full /\ RelaxCalls \in -2..Most /\ 0 \in 0..(Modulus - 1)
          /\ 0 \in 0..Modulus
      BY <1>1, <2>2, LearnNumbers
    <3> QED  BY <2>1, <3>1, <3>2 DEF LearnTypes, OnSchedule, Underway, Discharging
  <2>3. CASE ~(points < Full)
    <3>1. setCalComplete("cancelled") /\ UNCHANGED points
      BY <1>3, <2>3 DEF MeasureDischarge
    <3> QED  BY <1>1, <2>1, <3>1, EndIsTyped DEF Discharging, LearnTypes
  <2> QED  BY <2>2, <2>3
<1> QED  BY <1>2, <1>3

LEMMA RelaxIsTyped ==
  ASSUME LearnInv, LearnTypes, OnSchedule, StartRelax \/ RelaxAwake \/ RelaxAsleep
  PROVE  LearnTypes' /\ OnSchedule'
<1>1. CASE StartRelax
  <2>1. Delay \in -2..Most
    BY LearnNumbers
  <2> QED
    BY <1>1, <2>1 DEF StartRelax, curves, LearnTypes, OnSchedule, Underway, Discharging
<1>2. CASE RelaxAwake
  <2>1. test = "RELAX" /\ UNCHANGED <<calMode, loaded>>
        /\ mvLowCount' \in {0, IF mvLowCount < LowFor THEN mvLowCount + 1 ELSE LowFor}
    BY <1>2 DEF RelaxAwake
  <2>2. mvLowCount' \in 0..LowFor
    <3>1. 0 \in 0..LowFor /\ (IF mvLowCount < LowFor THEN mvLowCount + 1 ELSE LowFor) \in 0..LowFor
      BY LearnNumbers DEF LearnTypes
    <3> QED  BY <2>1, <3>1
  <2>3. CASE mvLowCount' = LowFor
    <3>1. Saving("discharge", points) /\ "discharge" \in Curves
      BY <1>2, <2>3 DEF RelaxAwake, Curves
    <3>2. points \in Int
      BY LearnNumbers DEF LearnTypes
    <3> QED  BY <2>1, <2>2, <3>1, <3>2, SavingIsTyped DEF Discharging
  <2>4. CASE mvLowCount' # LowFor
    <3>1. /\ UNCHANGED <<test, stored, points, wakeReason, left, since, hurried, sleepTimeout,
                         hibernates, sleeping>>
          /\ wakeCount' = IF wakeCount < -1 THEN wakeCount ELSE wakeCount - 1
      BY <1>2, <2>4 DEF RelaxAwake, Counts
    <3>2. wakeCount' \in -2..Most
      BY <3>1, CountsDown DEF LearnTypes
    <3> QED  BY <2>1, <2>2, <3>1, <3>2 DEF LearnTypes, OnSchedule, Underway
  <2> QED  BY <2>3, <2>4
<1>3. CASE RelaxAsleep
  <2>1. /\ test' = "MEASURE_DISCHG" /\ left' = RelaxTime /\ enterSleep(TRUE, RelaxTime, FALSE)
        /\ wakeCount' = IF wakeCount < -1 THEN wakeCount ELSE wakeCount - 1
        /\ UNCHANGED <<calMode, stored, loaded, points, mvLowCount, wakeReason, since, hurried,
                       sleepTimeout, hibernates>>
    BY <1>3 DEF RelaxAsleep, Counts, curves, borrows
  <2>2. RelaxTime \in 0..(Modulus - 1)
    BY LearnNumbers
  <2>3. sleeping' \in Sleeping
    BY <2>1, <2>2 DEF enterSleep, Sleeping
  <2>4. wakeCount' \in -2..Most
    BY <2>1, CountsDown DEF LearnTypes
  <2> QED  BY <2>1, <2>2, <2>3, <2>4 DEF LearnTypes, OnSchedule, Underway, Discharging
<1> QED  BY <1>1, <1>2, <1>3

LEMMA TimerIsTyped ==
  ASSUME LearnInv, LearnTypes, OnSchedule, onTimer
  PROVE  LearnTypes' /\ OnSchedule'
<1>1. points \in 0..Full /\ stored \in [Curves -> 0..(Full - 1)] /\ mvLowCount \in 0..LowFor
  BY DEF LearnTypes
<1>2. CASE WaitCharge
  <2>1. /\ test = "WAIT_CHG" /\ test' = "MEASURE_CHG" /\ hibernates' = FALSE /\ Forgotten
        /\ UNCHANGED <<calMode, stored, loaded, points, mvLowCount, sleepTimeout, sleeping>>
    BY <1>2 DEF WaitCharge, curves
  <2>2. LearnTypes'
    BY <2>1, ForgottenIsTyped DEF LearnTypes, Charging
  <2>3. ~(points' > 0)
    BY <2>1 DEF OnSchedule
  <2> QED  BY <2>1, <2>2, <2>3 DEF OnSchedule, Underway
<1>3. CASE ChargeDone
  <2>1. test = "MEASURE_CHG" /\ UNCHANGED <<calMode, loaded, mvLowCount>>
    BY <1>3 DEF ChargeDone
  <2>2. CASE Saving("charge", points - 1)
    <3>1. points - 1 \in Int /\ "charge" \in Curves
      BY <1>1, LearnNumbers DEF Curves
    <3> QED  BY <1>1, <2>1, <2>2, <3>1, SavingIsTyped DEF Charging
  <2>3. CASE UNCHANGED <<stored, points>> /\ setCalComplete("cancelled")
    BY <1>1, <2>1, <2>3, EndIsTyped DEF Charging
  <2> QED  BY <1>3, <2>2, <2>3 DEF ChargeDone
<1>4. CASE ChargerBreaksIn
  <2>1. /\ test = "MEASURE_DISCHG" /\ setCalComplete("cancelled")
        /\ UNCHANGED <<calMode, stored, loaded, points, mvLowCount>>
    BY <1>4 DEF ChargerBreaksIn, curves
  <2> QED  BY <1>1, <2>1, EndIsTyped DEF Discharging
<1> QED
  BY <1>2, <1>3, <1>4, CountDownIsTyped, SleepAgainIsTyped, MeasureIsTyped, RelaxIsTyped DEF onTimer

LEMMA WakingIsTyped ==
  ASSUME LearnTypes, OnSchedule, KeyWakes \/ SleepEnds
  PROVE  LearnTypes' /\ OnSchedule'
<1>1. PICK reason \in {"TIMER", "CHARGER", "KEYPAD"} : lightSleepWakeReint(reason)
  BY DEF KeyWakes, SleepEnds
<1>2. /\ sleeping.on /\ sleeping' = Awake /\ wakeReason' = reason
      /\ wakeCount' = IF sleeping.rearm THEN Delay ELSE wakeCount
      /\ UNCHANGED <<test, calMode, stored, loaded, points, mvLowCount, hurried, sleepTimeout,
                     hibernates>>
  BY <1>1 DEF lightSleepWakeReint, curves, borrows
<1>3. PICK spent \in Spans(reason) : left' = (left - spent) % Modulus /\ since' = Later(spent)
  BY <1>1 DEF lightSleepWakeReint
<1>4. /\ left \in 0..(Modulus - 1) /\ since \in 0..Modulus /\ sleeping.for \in 0..(Modulus - 1)
      /\ wakeCount \in -2..Most
  BY DEF LearnTypes, Sleeping
<1>5. spent \in Nat /\ spent <= sleeping.for /\ (reason = "TIMER" => spent = sleeping.for)
  <2>1. CASE reason = "TIMER"
    BY <1>3, <1>4, <2>1, LearnNumbers DEF Spans
  <2>2. CASE reason = "KEYPAD"
    <3>1. spent \in 0..(sleeping.for - 1)
      BY <1>3, <2>2 DEF Spans
    <3> QED  BY <1>4, <2>2, <3>1, LearnNumbers
  <2>3. CASE reason = "CHARGER"
    <3>1. spent \in 0..sleeping.for
      BY <1>3, <2>3 DEF Spans
    <3> QED  BY <1>4, <2>3, <3>1, LearnNumbers
  <2> QED  BY <2>1, <2>2, <2>3
<1>6. since' = IF since + spent > Modulus THEN Modulus ELSE since + spent
  BY <1>3 DEF Later
<1>7. left' \in 0..(Modulus - 1) /\ since' \in 0..Modulus
  <2>1. (left - spent) % Modulus \in 0..(Modulus - 1)
    BY <1>4, <1>5, Wraps, LearnNumbers
  <2> QED  BY <1>3, <1>4, <1>5, <1>6, <2>1, LaterIsTyped
<1>8. Delay \in -2..Most /\ 0 \in 0..(Modulus - 1) /\ Awake.on = FALSE
  BY LearnNumbers DEF Awake
<1>9. sleeping' \in Sleeping
  BY <1>2, <1>8 DEF Awake, Sleeping
<1>10. LearnTypes'
  BY <1>2, <1>4, <1>7, <1>8, <1>9 DEF LearnTypes
<1>11. ASSUME Underway'
       PROVE  /\ wakeCount' = Delay /\ since + left = Period /\ since' = since + spent
              /\ sleeping.for \in {left, left - Slack}
  <2>1. Asleep
    BY <1>2, <1>11 DEF Underway, OnSchedule
  <2>2. ~(since + spent > Modulus)
    BY <1>4, <1>5, <2>1, LearnNumbers DEF Asleep
  <2> QED  BY <1>2, <1>6, <2>1, <2>2 DEF Asleep
<1>12. ASSUME Underway', reason = "TIMER"  PROVE Due'
  <2>1. (since + spent) + Delay \in (Period + Delay - Slack)..(Period + Delay)
    BY <1>4, <1>5, <1>11, <1>12, LearnNumbers
  <2> QED  BY <1>11, <1>12, <2>1 DEF Due
<1>13. ASSUME Underway', reason = "KEYPAD"  PROVE Again'
  <2>1. left - spent \in 0..(Modulus - 1) /\ (since + spent) + (left - spent) = Period
    BY <1>4, <1>5, <1>11, <1>13, LearnNumbers
  <2>2. left' = left - spent
    BY <1>3, <2>1, Wraps, LearnNumbers
  <2> QED  BY <1>11, <1>13, <2>1, <2>2 DEF Again
<1>14. Delay \in 0..Delay
  BY LearnNumbers
<1>15. test' = "WAIT_CHG" => points' = 0
  BY <1>2 DEF OnSchedule
<1> QED  BY <1>2, <1>8, <1>10, <1>11, <1>12, <1>13, <1>14, <1>15 DEF OnSchedule

ScheduleInv == LearnInv /\ LearnTypes /\ OnSchedule

LEMMA ScheduleStepKeeps == ScheduleInv /\ [CalNext]_calVars => ScheduleInv'
<1> SUFFICES ASSUME ScheduleInv, [CalNext]_calVars  PROVE ScheduleInv'
  OBVIOUS
<1>1. LearnInv'
  BY LearnStepKeeps DEF ScheduleInv
<1>2. CASE UNCHANGED calVars
  BY <1>1, <1>2 DEF calVars, curves, timing, borrows, ScheduleInv, LearnTypes, OnSchedule, Underway,
     Asleep, Due, Again
<1>3. CASE CalNext
  BY <1>1, <1>3, PageIsTyped, TimerIsTyped, WakingIsTyped DEF CalNext, ScheduleInv
<1> QED  BY <1>2, <1>3

(* The types of a test and of what it keeps.                               *)
LEMMA LearningTypes == CalSpec => []CalTypeOK
<1>1. CalSpec => []ScheduleInv
  BY LearnInitEstablishes, LearnInitTyped, ScheduleStepKeeps, PTL DEF CalSpec, ScheduleInv
<1>2. ScheduleInv => CalTypeOK
  BY DEF ScheduleInv, LearnTypes, CalTypeOK, Sleeping, Most, Charging, Discharging
<1> QED  BY <1>1, <1>2, PTL

(* For any period, slack and delay, the points of a charge are a period    *)
(* apart unless a key came too late, and however often one came before     *)
(* (LearnBattery.cpp:176-232).                                             *)
LEMMA PointsAreEven == CalSpec => EvenlySpaced
<1>1. CalSpec => []ScheduleInv
  BY LearnInitEstablishes, LearnInitTyped, ScheduleStepKeeps, PTL DEF CalSpec, ScheduleInv
<1> DEFINE Even == test = "MEASURE_CHG" /\ points' = points + 1 /\ points > 0 /\ ~hurried =>
                     since \in (Period + Delay - Slack)..(Period + Delay)
<1>2. ScheduleInv /\ [CalNext]_calVars => [Even]_calVars
  <2> SUFFICES ASSUME ScheduleInv, [CalNext]_calVars, test = "MEASURE_CHG", points' = points + 1,
                      points > 0, ~hurried
               PROVE  UNCHANGED calVars \/ since \in (Period + Delay - Slack)..(Period + Delay)
    OBVIOUS
  <2>1. points \in Nat /\ points' # points /\ points' # 0 /\ points' # points - 1
    BY LearnNumbers DEF ScheduleInv, LearnTypes
  <2>2. MeasureCharge \/ UNCHANGED calVars
    BY <2>1 DEF CalNext, OpenLearnPage, CloseLearnPage, PowerFails, Discarded, ChangeTimeout,
       StartCharge, StartDischarge, Idle, setCalMode, onTimer, WaitCharge, CountDown, ChargeDone,
       Saving, SleepAgain, StartRelax, RelaxAwake, RelaxAsleep, MeasureDischarge, ChargerBreaksIn,
       KeyWakes, SleepEnds, lightSleepWakeReint
  <2>3. CASE MeasureCharge
    <3>1. ~sleeping.on /\ wakeReason = "TIMER" /\ wakeCount = 0
      BY <2>3 DEF MeasureCharge, Up
    <3>2. since + wakeCount \in (Period + Delay - Slack)..(Period + Delay) /\ since \in 0..Modulus
      BY <3>1 DEF ScheduleInv, LearnTypes, OnSchedule, Underway, Due
    <3> QED  BY <3>1, <3>2, LearnNumbers
  <2> QED  BY <2>2, <2>3
<1> HIDE DEF Even
<1>3. CalSpec => [][Even]_calVars
  BY <1>1, <1>2, PTL DEF CalSpec
<1> QED  BY <1>3 DEF Even, EvenlySpaced

(* A test leaves no trace but its curve: what it borrowed is given back on *)
(* every way out, what it calls saved can be used, and the points of a     *)
(* charge are evenly spaced (LearnBattery.cpp:83-86, 176-357).             *)
THEOREM TestLeavesOnlyItsCurve == CalSpec => TestIsSound
BY TimeoutIsGivenBack, SavedCurvesAreUsable, PointsAreEven, PTL DEF TestIsSound

(***************************************************************************)
(* The gauge.                                                              *)
(***************************************************************************)
CurveTypes == mCalValues \in LoadedCurves \cup {<< >>} /\ rawSoc \in 0..MaxRaw

(* Between the ends of a curve there is a first segment that rises above   *)
(* the raw value.                                                          *)
LEMMA FirstRise ==
  ASSUME NEW n \in Nat \ {0, 1}, NEW cal \in [1..n -> 0..MaxRaw], NEW raw \in 0..MaxRaw,
         Len(cal) = n, raw < cal[n]
  PROVE  \E x \in 1..(n - 1) : Rises(cal, raw, x) /\ \A j \in 1..(x - 1) : ~Rises(cal, raw, j)
<1> DEFINE T == {i \in 1..(n - 1) : Rises(cal, raw, i)}
<1>1. n - 1 \in 1..(n - 1) /\ (n - 1) + 1 = n
  OBVIOUS
<1>2. Rises(cal, raw, n - 1)
  BY <1>1 DEF Rises
<1>3. T \subseteq Nat /\ T # {}
  BY <1>1, <1>2
<1>4. PICK x \in T : \A y \in T : x <= y
  BY <1>3, LeastElement
<1>5. \A y \in T : ~(y < x)
  BY <1>3, <1>4
<1>6. x \in 1..(n - 1) /\ Rises(cal, raw, x) /\ \A j \in 1..(x - 1) : ~Rises(cal, raw, j)
  <2>1. \A j \in 1..(x - 1) : j \in 1..(n - 1) /\ j < x
    OBVIOUS
  <2> QED  BY <1>5, <2>1
<1> QED  BY <1>6

(* Between the ends of a curve there is a first segment that rises above   *)
(* the raw value, and it starts at or below it.                            *)
LEMMA SegmentHolds ==
  ASSUME NEW n \in Nat \ {0, 1}, NEW cal \in [1..n -> 0..MaxRaw], NEW raw \in 0..MaxRaw,
         Len(cal) = n, cal[1] < raw, raw < cal[n]
  PROVE  LET i == Segment(cal, raw)
         IN  i \in 1..(n - 1) /\ cal[i] <= raw /\ raw < cal[i + 1]
<1>1. n - 1 \in 1..(n - 1) /\ (n - 1) + 1 = n
  OBVIOUS
<1>6. \E x \in 1..(n - 1) : Rises(cal, raw, x) /\ \A j \in 1..(x - 1) : ~Rises(cal, raw, j)
  BY FirstRise
<1> DEFINE s == Segment(cal, raw)
<1>7. s \in 1..(n - 1) /\ Rises(cal, raw, s) /\ \A j \in 1..(s - 1) : ~Rises(cal, raw, j)
  BY <1>6 DEF Segment
<1> HIDE DEF s
<1>8. raw < cal[s + 1]
  BY <1>7 DEF Rises
<1>9. cal[s] <= raw
  <2>1. CASE s = 1
    BY <1>1, <2>1
  <2>2. CASE s # 1
    <3>1. s - 1 \in 1..(s - 1) /\ s - 1 \in 1..(n - 1) /\ (s - 1) + 1 = s /\ s \in 1..n
      BY <1>7, <2>2
    <3>2. ~(raw < cal[s])
      BY <1>7, <3>1 DEF Rises
    <3>3. cal[s] \in 0..MaxRaw
      BY <3>1
    <3> QED  BY <3>2, <3>3, GaugeAssumption
  <2> QED  BY <2>1, <2>2
<1> QED  BY <1>7, <1>8, <1>9 DEF s

(* Part of a hundred: what lies in segment i of m, from its start on.      *)
LEMMA PartOfHundred ==
  ASSUME NEW m \in Nat \ {0}, NEW i \in 1..m, NEW d \in Nat \ {0}, NEW k \in 0..d
  PROVE  (100 * ((i - 1) * d + k)) \div (m * d) \in 0..100
<1> DEFINE whole == m * d
           part  == (i - 1) * d + k
<1>1. whole \in Nat \ {0}
  BY SMTT(30)
<1>2. part \in Nat
  BY SMTT(30)
<1>3. part <= whole
  <2>1. (i - 1) * d + d = i * d
    BY SMTT(30)
  <2>2. i * d <= m * d
    BY SMTT(30)
  <2> QED  BY <2>1, <2>2, SMTT(30)
<1> HIDE DEF whole, part
<1>4. 100 * part <= 100 * whole /\ 100 * part \in Nat
  BY <1>1, <1>2, <1>3
<1>5. \A a \in Nat, b \in Nat \ {0} : a <= 100 * b => a \div b \in 0..100
  BY SMTT(30)
<1> QED  BY <1>1, <1>4, <1>5 DEF whole, part

LEMMA PercentageOfCurve ==
  ASSUME CurveTypes, NEW direct \in 0..200, NEW raw \in 0..MaxRaw
  PROVE  getPercentage(mCalValues, raw, direct) \in 0..100
<1>1. CASE mCalValues = << >>
  BY <1>1 DEF getPercentage, getDirectSOC
<1>2. CASE mCalValues # << >> /\ mCalValues \in LoadedCurves
  <2>1. PICK n \in CurveLengths : mCalValues \in [1..n -> 0..MaxRaw]
    BY <1>2 DEF LoadedCurves
  <2>2. n \in Nat \ {0, 1} /\ Len(mCalValues) = n
    BY <2>1, GaugeAssumption
  <2>3. CASE raw <= mCalValues[1] \/ raw >= mCalValues[Len(mCalValues)]
    BY <1>2, <2>3 DEF getPercentage
  <2>4. CASE ~(raw <= mCalValues[1]) /\ ~(raw >= mCalValues[Len(mCalValues)])
    <3> DEFINE i == Segment(mCalValues, raw)
               d == mCalValues[i + 1] - mCalValues[i]
               k == raw - mCalValues[i]
    <3>1. mCalValues[1] \in 0..MaxRaw /\ mCalValues[n] \in 0..MaxRaw
      BY <2>1, <2>2
    <3>2. mCalValues[1] < raw /\ raw < mCalValues[n]
      BY <2>2, <2>4, <3>1, GaugeAssumption DEF CurveTypes
    <3>3. i \in 1..(n - 1) /\ mCalValues[i] <= raw /\ raw < mCalValues[i + 1]
      BY <2>1, <2>2, <3>2, SegmentHolds DEF CurveTypes
    <3> HIDE DEF i
    <3>4. mCalValues[i] \in 0..MaxRaw /\ mCalValues[i + 1] \in 0..MaxRaw
      BY <2>1, <2>2, <3>3
    <3>5. d \in Nat \ {0} /\ k \in 0..d
      BY <3>3, <3>4, GaugeAssumption DEF CurveTypes
    <3>6. PICK m \in Nat \ {0} : m = n - 1
      BY <2>2
    <3>7. Interpolated(mCalValues, raw, i) = (100 * ((i - 1) * d + k)) \div (m * d)
      BY <2>2, <3>6 DEF Interpolated
    <3>8. Interpolated(mCalValues, raw, i) \in 0..100
      <4> HIDE DEF d, k
      <4>1. i \in 1..m
        BY <3>3, <3>6
      <4>2. (100 * ((i - 1) * d + k)) \div (m * d) \in 0..100
        BY <3>5, <4>1, PartOfHundred
      <4> QED  BY <3>7, <4>2
    <3>9. getPercentage(mCalValues, raw, direct) = Interpolated(mCalValues, raw, i)
      BY <1>2, <2>4 DEF getPercentage, i
    <3> QED  BY <3>8, <3>9
  <2> QED  BY <2>3, <2>4
<1> QED  BY <1>1, <1>2 DEF CurveTypes

(* Whatever curve is loaded, one that falls in places too, and whatever    *)
(* the gauge reads, a percentage is shown (BatteryRevX.cpp:10-44).         *)
LEMMA PercentageIsShown == GaugeSpec => []PercentageInRange
<1>1. GaugeInit => CurveTypes
  BY DEF GaugeInit, CurveTypes
<1>2. CurveTypes /\ [GaugeNext]_gaugeVars => CurveTypes'
  BY DEF CurveTypes, GaugeNext, gaugeVars, Drifts, Plugs, StatusBarOnTimer
<1>3. CurveTypes => PercentageInRange
  BY PercentageOfCurve DEF CurveTypes, PercentageInRange
<1> QED  BY <1>1, <1>2, <1>3, PTL DEF GaugeSpec

(* Whatever the percentage, the bar drops the sign of a charger or of USB  *)
(* at its first look after the plug was pulled, as long as the battery is  *)
(* not so low that only the colour changes (StatusBar.cpp:78-90).          *)
LEMMA PlugIsForgotten == GaugeSpec => []NoStalePlug
<1>1. GaugeInit => NoStalePlug
  BY DEF GaugeInit, NoStalePlug
<1>2. NoStalePlug /\ [GaugeNext]_gaugeVars => NoStalePlug'
  <2> SUFFICES ASSUME NoStalePlug, [GaugeNext]_gaugeVars  PROVE NoStalePlug'
    OBVIOUS
  <2>1. CASE Drifts \/ Plugs \/ UNCHANGED gaugeVars
    BY <2>1 DEF Drifts, Plugs, gaugeVars, NoStalePlug
  <2>2. CASE StatusBarOnTimer
    <3>1. PICK percent : battLabel' = Label(percent)
                         /\ readings' = [plugged |-> plugged, percent |-> percent]
      BY <2>2 DEF StatusBarOnTimer
    <3>2. CASE plugged # "none" \/ percent < Red
      BY <3>1, <3>2 DEF NoStalePlug
    <3>3. CASE plugged = "none" /\ ~(percent < Red)
      <4>1. battLabel'.symbol = Bucket(percent)
        BY <3>1, <3>3 DEF Label
      <4>2. Bucket(percent) \notin {"charge", "usb"}
        BY DEF Bucket
      <4> QED  BY <4>1, <4>2 DEF NoStalePlug
    <3> QED  BY <3>2, <3>3
  <2> QED  BY <2>1, <2>2 DEF GaugeNext
<1> QED  BY <1>1, <1>2, PTL DEF GaugeSpec

(* Quotients are ordered as their fractions are.                           *)
LEMMA QuotientsOrdered ==
  ASSUME NEW a \in Nat, NEW b \in Nat \ {0}, NEW c \in Nat, NEW e \in Nat \ {0},
         a * e <= c * b
  PROVE  a \div b <= c \div e
<1>1. PICK q \in Nat : q = a \div b /\ q * b <= a
  BY SMTT(30)
<1>2. (q * b) * e <= a * e
  BY <1>1, SMTT(30)
<1>3. (q * e) * b <= c * b
  BY <1>1, <1>2, SMTT(30)
<1>4. q * e <= c
  BY <1>1, <1>3, SMTT(30)
<1>5. q <= c \div e
  BY <1>1, <1>4, SMTT(30)
<1> QED  BY <1>1, <1>5

(* A part of one segment shows at most what the end of the segment does,   *)
(* and at least what its start does.                                       *)
LEMMA PartsOfSegments ==
  ASSUME NEW m \in Nat \ {0}, NEW i \in Nat \ {0}, NEW d \in Nat \ {0}, NEW k \in 0..d
  PROVE  LET part == (100 * ((i - 1) * d + k)) \div (m * d)
         IN  (100 * (i - 1)) \div m <= part /\ part <= (100 * i) \div m
<1> DEFINE a == 100 * ((i - 1) * d + k)
           b == m * d
           s == 100 * (i - 1)
           t == 100 * i
<1>1. a \in Nat /\ b \in Nat \ {0} /\ s \in Nat /\ t \in Nat
  BY SMTT(30)
<1>2. s * d <= a /\ a <= t * d
  BY SMTT(30)
<1>3. s * b = (s * d) * m /\ t * b = (t * d) * m
  BY SMTT(30)
<1> HIDE DEF a, s, t
<1>4. (s * d) * m <= a * m /\ a * m <= (t * d) * m
  BY <1>1, <1>2, SMTT(30)
<1>5. s * b <= a * m /\ a * m <= t * b
  BY <1>3, <1>4
<1> HIDE DEF b
<1>6. s \div m <= a \div b /\ a \div b <= t \div m
  BY <1>1, <1>5, QuotientsOrdered
<1> QED  BY <1>6 DEF a, b, s, t

(* Further on in one segment is not less.                                  *)
LEMMA FurtherOn ==
  ASSUME NEW m \in Nat \ {0}, NEW i \in Nat \ {0}, NEW d \in Nat \ {0},
         NEW k \in 0..d, NEW l \in 0..d, k <= l
  PROVE  (100 * ((i - 1) * d + k)) \div (m * d) <= (100 * ((i - 1) * d + l)) \div (m * d)
<1> DEFINE a == 100 * ((i - 1) * d + k)
           c == 100 * ((i - 1) * d + l)
           b == m * d
<1>1. a \in Nat /\ c \in Nat /\ b \in Nat \ {0} /\ a <= c
  BY SMTT(30)
<1> HIDE DEF a, b, c
<1>2. a * b <= c * b
  BY <1>1, SMTT(30)
<1>3. a \div b <= c \div b
  BY <1>1, <1>2, QuotientsOrdered
<1> QED  BY <1>3 DEF a, b, c

(* Further on is not in an earlier segment.                                *)
LEMMA SegmentsOrdered ==
  ASSUME NEW n \in Nat \ {0, 1}, NEW cal \in [1..n -> 0..MaxRaw], Len(cal) = n,
         NEW raw \in 0..MaxRaw, NEW more \in 0..MaxRaw, raw <= more,
         cal[1] < raw, raw < cal[n], cal[1] < more, more < cal[n]
  PROVE  Segment(cal, raw) <= Segment(cal, more)
<1> DEFINE i == Segment(cal, raw)
           j == Segment(cal, more)
<1>1. \E x \in 1..(n - 1) : Rises(cal, raw, x) /\ \A y \in 1..(x - 1) : ~Rises(cal, raw, y)
  BY FirstRise
<1>2. i \in 1..(n - 1) /\ \A y \in 1..(i - 1) : ~Rises(cal, raw, y)
  BY <1>1 DEF Segment
<1>3. j \in 1..(n - 1) /\ more < cal[j + 1]
  BY SegmentHolds
<1> HIDE DEF i, j
<1>4. j + 1 \in 1..n /\ cal[j + 1] \in 0..MaxRaw
  BY <1>3
<1>5. Rises(cal, raw, j)
  BY <1>3, <1>4, GaugeAssumption DEF Rises
<1>6. j \notin 1..(i - 1)
  BY <1>2, <1>5
<1> QED  BY <1>2, <1>3, <1>6 DEF i, j

(* What lies further on a curve, however it falls and rises, shows no less.*)
LEMMA InterpolatedMonotone ==
  ASSUME NEW n \in Nat \ {0, 1}, NEW cal \in [1..n -> 0..MaxRaw], Len(cal) = n,
         NEW raw \in 0..MaxRaw, NEW more \in 0..MaxRaw, raw <= more,
         cal[1] < raw, raw < cal[n], cal[1] < more, more < cal[n]
  PROVE  Interpolated(cal, raw, Segment(cal, raw)) <= Interpolated(cal, more, Segment(cal, more))
<1> DEFINE i == Segment(cal, raw)
           j == Segment(cal, more)
           d == cal[i + 1] - cal[i]
           e == cal[j + 1] - cal[j]
           k == raw - cal[i]
           l == more - cal[j]
<1>1. /\ i \in 1..(n - 1) /\ cal[i] <= raw /\ raw < cal[i + 1]
      /\ j \in 1..(n - 1) /\ cal[j] <= more /\ more < cal[j + 1]
  BY SegmentHolds
<1>2. i <= j
  BY SegmentsOrdered
<1> HIDE DEF i, j
<1>3. /\ cal[i] \in 0..MaxRaw /\ cal[i + 1] \in 0..MaxRaw
      /\ cal[j] \in 0..MaxRaw /\ cal[j + 1] \in 0..MaxRaw
  BY <1>1
<1>4. d \in Nat \ {0} /\ k \in 0..d /\ e \in Nat \ {0} /\ l \in 0..e
  <2>1. ASSUME NEW low \in 0..MaxRaw, NEW high \in 0..MaxRaw, NEW r \in 0..MaxRaw,
               low <= r, r < high
        PROVE  high - low \in Nat \ {0} /\ r - low \in 0..(high - low)
    BY <2>1, GaugeAssumption
  <2> QED  BY <1>1, <1>3, <2>1, Zenon
<1>5. PICK m \in Nat \ {0} : m = n - 1
  OBVIOUS
<1>6. /\ Interpolated(cal, raw, i) = (100 * ((i - 1) * d + k)) \div (m * d)
      /\ Interpolated(cal, more, j) = (100 * ((j - 1) * e + l)) \div (m * e)
  BY <1>5 DEF Interpolated
<1>7. i \in Nat \ {0} /\ j \in Nat \ {0}
  BY <1>1
<1>8. CASE i = j
  <2>1. d = e /\ k <= l
    <3>1. cal[i] = cal[j] /\ cal[i + 1] = cal[j + 1]
      BY <1>8
    <3>2. cal[i] \in Int /\ raw \in Int /\ more \in Int
      BY <1>3, GaugeAssumption
    <3> QED  BY <3>1, <3>2
  <2> HIDE DEF d, e, k, l
  <2>2. k \in 0..d /\ l \in 0..d
    BY <1>4, <2>1
  <2>3. (100 * ((i - 1) * d + k)) \div (m * d) <= (100 * ((i - 1) * d + l)) \div (m * d)
    BY <1>4, <1>7, <2>1, <2>2, FurtherOn
  <2> QED  BY <1>6, <1>8, <2>1, <2>3 DEF i, j
<1>9. CASE i < j
  <2> HIDE DEF d, e, k, l
  <2> DEFINE less   == (100 * ((i - 1) * d + k)) \div (m * d)
             edge   == (100 * i) \div m
             start  == (100 * (j - 1)) \div m
             bigger == (100 * ((j - 1) * e + l)) \div (m * e)
  <2>1. less <= edge
    BY <1>4, <1>7, PartsOfSegments
  <2>2. start <= bigger
    BY <1>4, <1>7, PartsOfSegments
  <2>3. edge <= start
    <3>1. 100 * i \in Nat /\ 100 * (j - 1) \in Nat /\ 100 * i <= 100 * (j - 1)
      BY <1>7, <1>9
    <3>2. \A a, c \in Nat : a <= c => a * m <= c * m
      BY SMTT(30)
    <3>3. (100 * i) * m <= (100 * (j - 1)) * m
      BY <3>1, <3>2
    <3> QED  BY <3>1, <3>3, QuotientsOrdered
  <2>4. less \in Int /\ edge \in Int /\ start \in Int /\ bigger \in Int
    <3>1. m * d \in Nat \ {0} /\ m * e \in Nat \ {0}
      BY <1>4, SMTT(30)
    <3>2. 100 * ((i - 1) * d + k) \in Int /\ 100 * ((j - 1) * e + l) \in Int
      BY <1>4, <1>7, SMTT(30)
    <3>3. \A a \in Int, b \in Nat \ {0} : a \div b \in Int
      BY SMTT(30)
    <3> QED  BY <1>7, <3>1, <3>2, <3>3
  <2> HIDE DEF less, edge, start, bigger
  <2>5. less <= bigger
    BY <2>1, <2>2, <2>3, <2>4
  <2> QED  BY <1>6, <2>5 DEF less, bigger, i, j
<1> QED  BY <1>1, <1>2, <1>8, <1>9

LEMMA GrowsWithTheCharge == CurveTypes => PercentageMonotone
<1> SUFFICES ASSUME CurveTypes, mCalValues # << >>, NEW raw \in 0..rawSoc
             PROVE  getPercentage(mCalValues, raw, 0) <= getPercentage(mCalValues, rawSoc, 0)
  BY DEF PercentageMonotone
<1>1. raw \in 0..MaxRaw /\ rawSoc \in 0..MaxRaw /\ raw <= rawSoc
  BY GaugeAssumption DEF CurveTypes
<1>2. PICK n \in CurveLengths : mCalValues \in [1..n -> 0..MaxRaw]
  BY DEF CurveTypes, LoadedCurves
<1>3. n \in Nat \ {0, 1} /\ Len(mCalValues) = n
  BY <1>2, GaugeAssumption
<1>4. mCalValues[1] \in 0..MaxRaw /\ mCalValues[n] \in 0..MaxRaw
  BY <1>2, <1>3
<1>5. ASSUME NEW r \in 0..MaxRaw  PROVE getPercentage(mCalValues, r, 0) \in 0..100
  <2>1. 0 \in 0..200
    OBVIOUS
  <2> QED  BY <1>5, <2>1, PercentageOfCurve
<1>6. CASE raw <= mCalValues[1]
  <2>1. getPercentage(mCalValues, raw, 0) = 0
    BY <1>6 DEF getPercentage
  <2>2. \A y \in 0..100 : 0 <= y
    OBVIOUS
  <2> QED  BY <1>1, <1>5, <2>1, <2>2, Zenon
<1>7. CASE rawSoc >= mCalValues[n] /\ ~(rawSoc <= mCalValues[1])
  <2>1. getPercentage(mCalValues, rawSoc, 0) = 100
    BY <1>3, <1>7 DEF getPercentage
  <2>2. \A x \in 0..100 : x <= 100
    OBVIOUS
  <2> QED  BY <1>1, <1>5, <2>1, <2>2, Zenon
<1>8. CASE ~(raw <= mCalValues[1]) /\ ~(rawSoc >= mCalValues[n])
  <2>1. /\ mCalValues[1] < raw /\ raw < mCalValues[n]
        /\ mCalValues[1] < rawSoc /\ rawSoc < mCalValues[n]
    BY <1>1, <1>4, <1>8, GaugeAssumption
  <2>2. /\ getPercentage(mCalValues, raw, 0)
             = Interpolated(mCalValues, raw, Segment(mCalValues, raw))
        /\ getPercentage(mCalValues, rawSoc, 0)
             = Interpolated(mCalValues, rawSoc, Segment(mCalValues, rawSoc))
    BY <1>1, <1>3, <1>4, <2>1, GaugeAssumption DEF getPercentage
  <2> QED  BY <1>1, <1>2, <1>3, <2>1, <2>2, InterpolatedMonotone
<1> QED
  BY <1>1, <1>4, <1>6, <1>7, <1>8, GaugeAssumption

(* Whatever curve is loaded, one that falls in places too, and whatever    *)
(* the gauge reads, a percentage is shown, a fuller battery never shows    *)
(* less, and the sign of a plug goes with it (BatteryRevX.cpp:10-44,       *)
(* StatusBar.cpp:78-90).                                                   *)
THEOREM GaugeIsTruthful == GaugeSpec => []GaugeTruthful
<1>1. GaugeInit => CurveTypes
  BY DEF GaugeInit, CurveTypes
<1>2. CurveTypes /\ [GaugeNext]_gaugeVars => CurveTypes'
  BY DEF CurveTypes, GaugeNext, gaugeVars, Drifts, Plugs, StatusBarOnTimer
<1>3. PercentageInRange /\ PercentageMonotone /\ NoStalePlug => GaugeTruthful
  BY DEF GaugeTruthful
<1> QED
  BY <1>1, <1>2, <1>3, PercentageIsShown, GrowsWithTheCharge, PlugIsForgotten, PTL DEF GaugeSpec

-------------------------------------------------------------------------------
(***************************************************************************)
(* The keyboard of revision 5.                                             *)
(***************************************************************************)

Types == {"Press", "Repeat", "Long", "Release", "Short"}

Outcomes == {<< >>, <<"Press">>, <<"Repeat">>, <<"Long">>, <<"Repeat", "Long">>,
             <<"Release">>, <<"Release", "Short">>}

LEMMA WhatIsSent ==
  ASSUME NEW s
  PROVE  /\ ~Sends(<< >>, s)
         /\ \A a : Sends(<<a>>, s) <=> a = s
         /\ \A a, b : Sends(<<a, b>>, s) <=> a = s \/ b = s
  BY DEF Sends

-------------------------------------------------------------------------------
(* Type correctness                                                        *)

LEMMA AgedType ==
  ASSUME NEW limit \in Nat, NEW age \in 0..(limit + 1), NEW dt \in Nat
  PROVE  Aged(age, dt, limit) \in 0..(limit + 1)
  BY DEF Aged

LEMMA OutcomesType == Outcomes \subseteq Seq(Types)
  <1>1. << >> \in Seq(Types)
    OBVIOUS
  <1>2. \A a \in Types : <<a>> \in Seq(Types)
    OBVIOUS
  <1>3. \A a, b \in Types : <<a, b>> \in Seq(Types)
    OBVIOUS
  <1>4. /\ "Press" \in Types /\ "Repeat" \in Types /\ "Long" \in Types
        /\ "Release" \in Types /\ "Short" \in Types
    BY DEF Types
  <1> HIDE DEF Types
  <1> QED
    BY <1>1, <1>2, <1>3, <1>4, Zenon DEF Outcomes

LEMMA SentOutcome == \A k, dt : Sent(k, dt) \in Outcomes
  BY Zenon DEF Sent, Events, Outcomes

LEMMA TypeInit == Init => TypeOK
  BY KeyboardAssumption DEF Init, Fresh, TypeOK, Silence, Event

LEMMA TypeKeyMoves ==
  ASSUME TypeOK, NEW k \in Keys, KeyMoves(k)
  PROVE  TypeOK'
  <1>1. [key |-> k, press |-> k \notin down] \in Event
    BY DEF Event
  <1> DEFINE e == [key |-> k, press |-> k \notin down]
  <1>2. fifo' = Append(fifo, e) /\ Len(fifo) < FifoSize
    BY DEF KeyMoves
  <1> HIDE DEF e
  <1>3. fifo' \in Seq(Event) /\ Len(fifo') <= FifoSize
    BY <1>1, <1>2, KeyboardAssumption DEF TypeOK, e
  <1>4. down' \subseteq Keys
    BY DEF KeyMoves, Moved, TypeOK
  <1>5. out' \in [Keys -> Seq(Types)]
    BY DEF KeyMoves, Silence, Types
  <1> QED
    BY <1>3, <1>4, <1>5 DEF TypeOK, KeyMoves, states, Types

LEMMA TypeOverrun ==
  ASSUME TypeOK, NEW k \in Keys, Overrun(k)
  PROVE  TypeOK'
  <1>1. down' \subseteq Keys /\ lost' \subseteq Keys
    BY DEF Overrun, Moved, TypeOK
  <1>2. out' \in [Keys -> Seq(Types)]
    BY DEF Overrun, Silence, Types
  <1> QED
    BY <1>1, <1>2 DEF TypeOK, Overrun, states, Types

LEMMA TypeRestart ==
  ASSUME TypeOK, NEW byKey \in BOOLEAN, Restart(byKey)
  PROVE  TypeOK'
  <1>1. fifo' \in Seq(Event) /\ Len(fifo') <= FifoSize
    BY KeyboardAssumption DEF TypeOK, Restart
  <1>2. out' \in [Keys -> Seq(Types)]
    BY DEF Restart, Silence, Types
  <1> QED
    BY <1>1, <1>2, KeyboardAssumption DEF TypeOK, Restart, Types

LEMMA TypeScan ==
  ASSUME TypeOK, NEW dt \in 0..MaxDelay, Scan(dt)
  PROVE  TypeOK'
  <1>1. fifo' \in Seq(Event) /\ Len(fifo') <= FifoSize
    BY KeyboardAssumption DEF TypeOK, Scan
  <1>2. \A k \in Keys : PressedAfter(k) \in BOOLEAN
    <2>1. CASE fifo = << >>
      BY <2>1 DEF PressedAfter, Reads, TypeOK
    <2>2. CASE fifo # << >>
      <3>1. Head(fifo) \in Event
        BY <2>2 DEF TypeOK
      <3> QED
        BY <3>1 DEF PressedAfter, Reads, TypeOK, Event
    <2> QED
      BY <2>1, <2>2
  <1>3. isPressed' \in [Keys -> BOOLEAN] /\ wasPressed' \in [Keys -> BOOLEAN]
    BY <1>2, Zenon DEF Scan
  <1>4. longSent' \in [Keys -> BOOLEAN]
    BY DEF Scan, LongSentAfter, TypeOK
  <1>5. \A k \in Keys : AgeAfter(k, dt) \in 0..(LongPress + 1)
    <2>1. \A k \in Keys : Aged(held[k], dt, LongPress) \in 0..(LongPress + 1)
      <3>1. dt \in Nat /\ LongPress \in Nat
        BY KeyboardAssumption
      <3>2. \A k \in Keys : held[k] \in 0..(LongPress + 1)
        BY DEF TypeOK
      <3> QED
        BY <3>1, <3>2, AgedType
    <2>2. 0 \in 0..(LongPress + 1)
      BY KeyboardAssumption
    <2> QED
      BY <2>1, <2>2, Zenon DEF AgeAfter
  <1>6. \A k \in Keys : StillAfter(k, dt) \in 0..(RepeatGap + 1)
    <2>1. \A k \in Keys : Aged(quiet[k], dt, RepeatGap) \in 0..(RepeatGap + 1)
      <3>1. dt \in Nat /\ RepeatGap \in Nat
        BY KeyboardAssumption
      <3>2. \A k \in Keys : quiet[k] \in 0..(RepeatGap + 1)
        BY DEF TypeOK
      <3> QED
        BY <3>1, <3>2, AgedType
    <2>2. 0 \in 0..(RepeatGap + 1)
      BY KeyboardAssumption
    <2> QED
      BY <2>1, <2>2, Zenon DEF StillAfter
  <1>7. held' \in [Keys -> 0..(LongPress + 1)]
    BY <1>5 DEF Scan
  <1>8. quiet' \in [Keys -> 0..(RepeatGap + 1)]
    BY <1>6, KeyboardAssumption DEF Scan
  <1>9. out' \in [Keys -> Seq(Types)]
    BY SentOutcome, OutcomesType, Zenon DEF Scan
  <1> QED
    BY <1>1, <1>3, <1>4, <1>7, <1>8, <1>9 DEF TypeOK, Scan, Types

-------------------------------------------------------------------------------
(* No key gets stuck.  The movements of a key that loses none alternate,   *)
(* in the queue and between the scanner and the queue; this is what the    *)
(* argument for the gestures needs, and it follows step by step from       *)
(* NoStuckKey: a key that is pressed again was released, and that release  *)
(* was queued.                                                             *)

Lifted(k, i, j) ==
  \E m \in (i + 1)..(j - 1) : fifo[m].key = k /\ ~fifo[m].press

Alternate == \A k \in Keys \ lost : \A j \in 1..Len(fifo) :
  fifo[j].key = k /\ fifo[j].press =>
    /\ isPressed[k] => Lifted(k, 0, j)
    /\ \A i \in 1..(j - 1) : fifo[i].key = k /\ fifo[i].press => Lifted(k, i, j)

LEMMA StuckKeyMoves ==
  ASSUME TypeOK, NoStuckKey, Alternate, NEW k \in Keys, KeyMoves(k)
  PROVE  NoStuckKey' /\ Alternate'
  <1> DEFINE n == Len(fifo)
  <1>0. /\ n \in Nat /\ n' = n + 1 /\ isPressed' = isPressed /\ lost' = lost
        /\ \A i \in 1..n : fifo'[i] = fifo[i]
        /\ fifo'[n + 1].key = k
        /\ fifo'[n + 1].press <=> k \notin down
    <2> DEFINE e == [key |-> k, press |-> k \notin down]
    <2>1. e.key = k /\ (e.press <=> k \notin down) /\ e \in Event
      BY DEF Event
    <2>2. fifo' = Append(fifo, e) /\ fifo \in Seq(Event) /\ isPressed' = isPressed
         /\ lost' = lost
      BY DEF KeyMoves, TypeOK, states
    <2> HIDE DEF e
    <2>3. /\ n \in Nat /\ n' = n + 1 /\ fifo'[n + 1] = e
          /\ \A i \in 1..n : fifo'[i] = fifo[i]
      BY <2>1, <2>2
    <2> QED
      BY <2>1, <2>2, <2>3
  <1>1. down' = IF k \in down THEN down \ {k} ELSE down \cup {k}
    BY DEF KeyMoves, Moved
  <1> HIDE DEF n
  <1>2. ASSUME NEW c \in Keys, NEW i \in 0..n, Undone(c, i)
        PROVE  Undone(c, i)'
    <2>1. CASE c \in down /\ c # k
      BY <2>1, <1>1 DEF Undone
    <2>2. CASE c \in down /\ c = k
      BY <2>2, <1>0 DEF Undone, n
    <2>3. CASE c \notin down
      BY <2>3, <1>2, <1>0 DEF Undone, n
    <2> QED
      BY <2>1, <2>2, <2>3
  <1>3. NoStuckKey'
    <2>1. ASSUME NEW c \in Keys \ lost, isPressed'[c]
          PROVE  Undone(c, 0)'
      BY <2>1, <1>0, <1>2 DEF NoStuckKey
    <2>2. ASSUME NEW c \in Keys \ lost, NEW i \in 1..n', fifo'[i].key = c, fifo'[i].press
          PROVE  Undone(c, i)'
      <3>1. CASE i \in 1..n
        BY <2>2, <3>1, <1>0, <1>2 DEF NoStuckKey, n
      <3>2. CASE i = n + 1
        BY <2>2, <3>2, <1>0, <1>1 DEF Undone
      <3> QED
        BY <3>1, <3>2, <1>0
    <2> QED
      BY <2>1, <2>2, <1>0 DEF NoStuckKey, n
  <1>4. Alternate'
    <2> SUFFICES ASSUME NEW c \in Keys \ lost, NEW j \in 1..n',
                        fifo'[j].key = c, fifo'[j].press
                 PROVE  /\ isPressed'[c] => Lifted(c, 0, j)'
                        /\ \A i \in 1..(j - 1) :
                             fifo'[i].key = c /\ fifo'[i].press => Lifted(c, i, j)'
      BY <1>0 DEF Alternate, n
    <2>1. CASE j \in 1..n
      BY <2>1, <1>0 DEF Alternate, Lifted, n
    <2>2. CASE j = n + 1
      <3>1. c = k /\ c \notin down
        BY <2>2, <1>0
      <3>2. isPressed[c] => Lifted(c, 0, n + 1)
        BY <3>1, <1>0 DEF NoStuckKey, Undone, Lifted, n
      <3>3. \A i \in 1..n : fifo[i].key = c /\ fifo[i].press => Lifted(c, i, n + 1)
        BY <3>1, <1>0 DEF NoStuckKey, Undone, Lifted, n
      <3> QED
        BY <2>2, <3>2, <3>3, <1>0 DEF Lifted
    <2> QED
      BY <2>1, <2>2, <1>0
  <1> QED
    BY <1>3, <1>4

(* A movement that is lost touches no other key.                           *)
LEMMA StuckOverrun ==
  ASSUME TypeOK, NoStuckKey, Alternate, NEW k \in Keys, Overrun(k)
  PROVE  NoStuckKey' /\ Alternate'
  <1>1. /\ fifo' = fifo /\ isPressed' = isPressed /\ lost' = lost \cup {k}
        /\ \A c \in Keys \ {k} : c \in down' <=> c \in down
    BY DEF Overrun, states, Moved
  <1>2. ASSUME NEW c \in Keys \ lost', NEW i \in 0..Len(fifo), Undone(c, i)
        PROVE  Undone(c, i)'
    BY <1>1, <1>2 DEF Undone
  <1>3. Len(fifo) \in Nat
    BY DEF TypeOK
  <1> QED
    BY <1>1, <1>2, <1>3 DEF NoStuckKey, Alternate, Lifted

LEMMA StuckRestart ==
  ASSUME TypeOK, NoStuckKey, Alternate, NEW byKey \in BOOLEAN, Restart(byKey)
  PROVE  NoStuckKey' /\ Alternate'
  <1>1. CASE byKey
    BY <1>1 DEF Restart, NoStuckKey, Alternate, Undone, Lifted
  <1>2. CASE ~byKey
    BY <1>2 DEF Restart, NoStuckKey, Alternate
  <1> QED
    BY <1>1, <1>2

LEMMA StuckScan ==
  ASSUME TypeOK, NoStuckKey, Alternate, NEW dt \in 0..MaxDelay, Scan(dt)
  PROVE  NoStuckKey' /\ Alternate'
  <1>0. /\ fifo \in Seq(Event) /\ isPressed \in [Keys -> BOOLEAN]
        /\ down' = down /\ lost' = lost /\ isPressed' = [k \in Keys |-> PressedAfter(k)]
        /\ fifo' = IF fifo = << >> THEN fifo ELSE Tail(fifo)
    BY DEF Scan, TypeOK
  <1>1. CASE fifo = << >>
    <2>1. fifo' = fifo /\ \A k \in Keys : isPressed'[k] = isPressed[k]
      BY <1>0, <1>1 DEF PressedAfter, Reads
    <2> QED
      BY <2>1, <1>0, <1>1 DEF NoStuckKey, Alternate, Undone
  <1>2. CASE fifo # << >>
    <2> DEFINE n == Len(fifo)
    <2>1. n \in Nat /\ n > 0 /\ Len(fifo') = n - 1
          /\ \A i \in 1..(n - 1) : fifo'[i] = fifo[i + 1]
      BY <1>0, <1>2
    <2>2. \A k \in Keys : isPressed'[k] =
            IF fifo[1].key = k THEN fifo[1].press ELSE isPressed[k]
      BY <1>0, <1>2 DEF PressedAfter, Reads
    <2> HIDE DEF n
    <2>3. ASSUME NEW k \in Keys, NEW i \in 0..(n - 1), Undone(k, i + 1)
          PROVE  Undone(k, i)'
      <3>1. CASE k \in down
        BY <3>1, <1>0 DEF Undone
      <3>2. ASSUME NEW j \in (i + 2)..n, fifo[j].key = k, ~fifo[j].press
            PROVE  Undone(k, i)'
        <4>1. j - 1 \in (i + 1)..(n - 1) /\ fifo'[j - 1] = fifo[j]
          BY <2>1
        <4> QED
          BY <3>2, <4>1, <2>1 DEF Undone
      <3> QED
        BY <3>1, <3>2, <2>3 DEF Undone, n
    <2>4. ASSUME NEW k \in Keys, NEW i \in 0..(n - 1), NEW j \in 1..(n - 1),
                 Lifted(k, i + 1, j + 1)
          PROVE  Lifted(k, i, j)'
      <3>1. PICK m \in (i + 2)..j : fifo[m].key = k /\ ~fifo[m].press
        BY <2>4 DEF Lifted
      <3>2. m - 1 \in (i + 1)..(j - 1) /\ fifo'[m - 1] = fifo[m]
        BY <2>1
      <3> QED
        BY <3>1, <3>2 DEF Lifted
    <2>5. NoStuckKey'
      <3>1. ASSUME NEW k \in Keys \ lost, isPressed'[k]
            PROVE  Undone(k, 0)'
        <4>1. CASE fifo[1].key = k
          BY <3>1, <4>1, <2>1, <2>2, <2>3 DEF NoStuckKey, n
        <4>2. CASE fifo[1].key # k
          <5>1. Undone(k, 0)
            BY <3>1, <4>2, <2>2 DEF NoStuckKey
          <5>2. Undone(k, 1)
            BY <5>1, <4>2, <2>1 DEF Undone, n
          <5> QED
            BY <5>2, <2>1, <2>3
        <4> QED
          BY <4>1, <4>2
      <3>2. ASSUME NEW k \in Keys \ lost, NEW i \in 1..(n - 1),
                   fifo'[i].key = k, fifo'[i].press
            PROVE  Undone(k, i)'
        BY <3>2, <2>1, <2>3 DEF NoStuckKey, n
      <3> QED
        BY <3>1, <3>2, <2>1, <1>0 DEF NoStuckKey
    <2>6. Alternate'
      <3> SUFFICES ASSUME NEW k \in Keys \ lost, NEW j \in 1..(n - 1),
                          fifo'[j].key = k, fifo'[j].press
                   PROVE  /\ isPressed'[k] => Lifted(k, 0, j)'
                          /\ \A i \in 1..(j - 1) :
                               fifo'[i].key = k /\ fifo'[i].press => Lifted(k, i, j)'
        BY <2>1, <1>0 DEF Alternate
      <3>1. j + 1 \in 1..n /\ fifo[j + 1].key = k /\ fifo[j + 1].press
        BY <2>1
      <3>2. ASSUME isPressed'[k]
            PROVE  Lifted(k, 0, j)'
        <4>1. Lifted(k, 1, j + 1)
          <5>1. CASE fifo[1].key = k
            BY <3>1, <3>2, <5>1, <2>1, <2>2 DEF Alternate, n
          <5>2. CASE fifo[1].key # k
            <6>1. Lifted(k, 0, j + 1)
              BY <3>1, <3>2, <5>2, <2>2 DEF Alternate, n
            <6> QED
              BY <6>1, <5>2, <2>1 DEF Lifted
          <5> QED
            BY <5>1, <5>2
        <4>2. k \in Keys /\ 0 \in 0..(n - 1)
          BY <2>1
        <4> QED
          BY <4>1, <4>2, <2>4
      <3>3. ASSUME NEW i \in 1..(j - 1), fifo'[i].key = k, fifo'[i].press
            PROVE  Lifted(k, i, j)'
        <4>1. i + 1 \in 1..j /\ fifo[i + 1].key = k /\ fifo[i + 1].press
          BY <3>3, <2>1
        <4>2. Lifted(k, i + 1, j + 1)
          BY <3>1, <4>1, <2>1 DEF Alternate, n
        <4>3. i \in 0..(n - 1)
          BY <2>1
        <4> QED
          BY <4>2, <4>3, <2>4
      <3> QED
        BY <3>2, <3>3
    <2> QED
      BY <2>5, <2>6
  <1> QED
    BY <1>1, <1>2

(* A key that loses no movement never gets stuck, however late the loop    *)
(* is.                                                                     *)
THEOREM KeysDoNotStick == Spec => [](TypeOK /\ NoStuckKey /\ Alternate)
  <1>1. Init => TypeOK /\ NoStuckKey /\ Alternate
    BY TypeInit DEF Init, Fresh, NoStuckKey, Alternate
  <1>2. TypeOK /\ NoStuckKey /\ Alternate /\ [Next]_vars
          => (TypeOK /\ NoStuckKey /\ Alternate)'
    <2> SUFFICES ASSUME TypeOK, NoStuckKey, Alternate, [Next]_vars
                 PROVE  (TypeOK /\ NoStuckKey /\ Alternate)'
      OBVIOUS
    <2>1. CASE \E k \in Keys : KeyMoves(k) \/ Overrun(k)
      BY <2>1, TypeKeyMoves, StuckKeyMoves, TypeOverrun, StuckOverrun
    <2>2. CASE \E dt \in 0..MaxDelay : Scan(dt)
      BY <2>2, TypeScan, StuckScan
    <2>3. CASE \E byKey \in BOOLEAN : Restart(byKey)
      BY <2>3, TypeRestart, StuckRestart
    <2>4. CASE UNCHANGED vars
      BY <2>4 DEF vars, TypeOK, NoStuckKey, Alternate, Undone, Lifted
    <2> QED
      BY <2>1, <2>2, <2>3, <2>4 DEF Next
  <1> QED
    BY <1>1, <1>2, PTL DEF Spec

-------------------------------------------------------------------------------
(* The gestures.  A key that was sent a Long is old enough that its        *)
(* Release is not followed by a Short; that holds as long as no press is   *)
(* read while the key is taken for pressed, which is what Alternate says.  *)

TimesAgree ==
  /\ wasPressed = isPressed
  /\ \A k \in Keys \ lost : isPressed[k] /\ longSent[k] => held[k] >= LongPress

LEMMA NoPressWhilePressed ==
  ASSUME TypeOK, Alternate, NEW k \in Keys \ lost, Begins(k)
  PROVE  PressedAfter(k) /\ ~isPressed[k]
  <1>1. fifo \in Seq(Event) /\ fifo # << >> /\ fifo[1].key = k /\ fifo[1].press
    BY DEF Begins, Reads, TypeOK
  <1>2. 1 \in 1..Len(fifo)
    BY <1>1
  <1>3. ~Lifted(k, 0, 1)
    BY DEF Lifted
  <1>4. ~isPressed[k]
    BY <1>1, <1>2, <1>3 DEF Alternate
  <1> QED
    BY <1>4, <1>1 DEF PressedAfter, Reads

(* What the scan sends for a key, case by case.                            *)
LEMMA SentCases ==
  ASSUME TypeOK, Alternate, TimesAgree, NEW k \in Keys, NEW dt \in 0..MaxDelay
  PROVE
    /\ PressedAfter(k) /\ ~isPressed[k] => Sent(k, dt) = <<"Press">>
    /\ ~PressedAfter(k) /\ ~isPressed[k] => Sent(k, dt) = << >>
    /\ ~PressedAfter(k) /\ isPressed[k] =>
         \/ Sent(k, dt) = <<"Release">>
         \/ (~longSent[k] \/ k \in lost) /\ Sent(k, dt) = <<"Release", "Short">>
    /\ PressedAfter(k) /\ isPressed[k] =>
         \/ Sent(k, dt) \in {<< >>, <<"Repeat">>}
         \/ /\ ~longSent[k] /\ AgeAfter(k, dt) >= LongPress
            /\ Sent(k, dt) \in {<<"Long">>, <<"Repeat", "Long">>}
  <1>1. PressedAfter(k) /\ ~isPressed[k] => Sent(k, dt) = <<"Press">>
    BY Zenon DEF Sent, Events, TimesAgree
  <1>2. ~PressedAfter(k) /\ ~isPressed[k] => Sent(k, dt) = << >>
    BY Zenon DEF Sent, Events, TimesAgree
  <1>3. ASSUME ~PressedAfter(k), isPressed[k]
        PROVE  \/ Sent(k, dt) = <<"Release">>
               \/ (~longSent[k] \/ k \in lost) /\ Sent(k, dt) = <<"Release", "Short">>
    <2>1. Sent(k, dt) = IF AgeAfter(k, dt) < LongPress THEN <<"Release", "Short">>
                        ELSE <<"Release">>
      BY <1>3, Zenon DEF Sent, Events, TimesAgree
    <2>2. k \notin lost => ~Begins(k)
      BY <1>3, NoPressWhilePressed
    <2>3. k \notin lost /\ longSent[k] => held[k] >= LongPress
      BY <1>3 DEF TimesAgree
    <2>4. dt \in Nat /\ LongPress \in Nat /\ held[k] \in Nat
      BY KeyboardAssumption DEF TypeOK
    <2>5. k \notin lost /\ longSent[k] => ~(AgeAfter(k, dt) < LongPress)
      BY <2>2, <2>3, <2>4 DEF AgeAfter, Aged
    <2> QED
      BY <2>1, <2>5, Zenon
  <1>4. ASSUME PressedAfter(k), isPressed[k]
        PROVE  \/ Sent(k, dt) \in {<< >>, <<"Repeat">>}
               \/ /\ ~longSent[k] /\ AgeAfter(k, dt) >= LongPress
                  /\ Sent(k, dt) \in {<<"Long">>, <<"Repeat", "Long">>}
    BY <1>4, Zenon DEF Sent, Events, TimesAgree
  <1> QED
    BY <1>1, <1>2, <1>3, <1>4

LEMMA LongSentCases ==
  ASSUME NEW k \in Keys, NEW e
  PROVE  /\ e = <<"Press">> => (LongSentAfter(k, e) <=> FALSE)
         /\ e \in {<< >>, <<"Repeat">>} => (LongSentAfter(k, e) <=> longSent[k])
         /\ e \in {<<"Long">>, <<"Repeat", "Long">>} => LongSentAfter(k, e)
  <1>1. /\ Sends(<<"Press">>, "Press")
        /\ ~Sends(<< >>, "Press") /\ ~Sends(<< >>, "Long")
        /\ ~Sends(<<"Repeat">>, "Press") /\ ~Sends(<<"Repeat">>, "Long")
        /\ ~Sends(<<"Long">>, "Press") /\ Sends(<<"Long">>, "Long")
        /\ ~Sends(<<"Repeat", "Long">>, "Press") /\ Sends(<<"Repeat", "Long">>, "Long")
    BY WhatIsSent
  <1> QED
    BY <1>1, Zenon DEF LongSentAfter

LEMMA TimesScan ==
  ASSUME TypeOK, Alternate, TimesAgree, NEW dt \in 0..MaxDelay, Scan(dt)
  PROVE  TimesAgree'
  <1>1. wasPressed' = isPressed' /\ lost' = lost
    BY DEF Scan
  <1>2. ASSUME NEW k \in Keys \ lost, isPressed'[k], longSent'[k]
        PROVE  held'[k] >= LongPress
    <2>1. /\ PressedAfter(k) /\ LongSentAfter(k, Sent(k, dt))
          /\ held'[k] = AgeAfter(k, dt)
      BY <1>2 DEF Scan
    <2>2. isPressed[k]
      BY <2>1, SentCases, LongSentCases
    <2>3. CASE longSent[k]
      <3>1. ~Begins(k) /\ held[k] >= LongPress
        BY <2>2, <2>3, NoPressWhilePressed DEF TimesAgree
      <3>2. dt \in Nat /\ LongPress \in Nat /\ held[k] \in Nat
        BY KeyboardAssumption DEF TypeOK
      <3> QED
        BY <2>1, <3>1, <3>2 DEF AgeAfter, Aged
    <2>4. CASE ~longSent[k]
      BY <2>1, <2>2, <2>4, SentCases, LongSentCases
    <2> QED
      BY <2>3, <2>4
  <1> QED
    BY <1>1, <1>2 DEF TimesAgree

Phase == [k \in Keys |-> IF ~wasPressed[k] THEN "up"
                         ELSE IF longSent[k] THEN "held" ELSE "down"]

LEMMA PhaseType == TypeOK => Phase \in [Keys -> Gestures!Phases]
  BY DEF Phase, Gestures!Phases

LEMMA ScanIsGestures ==
  ASSUME TypeOK, Alternate, TimesAgree, TypeOK', NEW dt \in 0..MaxDelay, Scan(dt)
  PROVE  Gestures!Step
  <1>1. Phase' \in [Keys -> Gestures!Phases]
    BY DEF Phase, Gestures!Phases
  <1>2. out' \in [Keys -> Gestures!Outputs]
    BY SentOutcome, Zenon DEF Scan, Gestures!Outputs, Outcomes
  <1>3. ASSUME NEW k \in Keys
        PROVE  IF k \in lost THEN Gestures!LossyGesture(Phase[k], Phase'[k], out'[k])
               ELSE Gestures!Gesture(Phase[k], Phase'[k], out'[k])
    <2> DEFINE e == Sent(k, dt)
    <2>1. /\ out'[k] = e
          /\ wasPressed'[k] <=> PressedAfter(k)
          /\ longSent'[k] <=> LongSentAfter(k, e)
          /\ wasPressed[k] <=> isPressed[k]
      BY Zenon DEF Scan, TimesAgree
    <2>2. /\ Phase[k] = IF ~wasPressed[k] THEN "up"
                        ELSE IF longSent[k] THEN "held" ELSE "down"
          /\ Phase'[k] = IF ~wasPressed'[k] THEN "up"
                         ELSE IF longSent'[k] THEN "held" ELSE "down"
      BY DEF Phase
    <2>3. CASE PressedAfter(k) /\ ~isPressed[k]
      <3>1. e = <<"Press">> /\ Phase[k] = "up" /\ Phase'[k] = "down"
        BY <2>1, <2>2, <2>3, SentCases, LongSentCases, Zenon
      <3> QED
        BY <3>1, <2>1, Zenon DEF Gestures!LossyGesture, Gestures!Gesture
    <2>4. CASE ~PressedAfter(k) /\ ~isPressed[k]
      <3>1. e = << >> /\ Phase[k] = "up" /\ Phase'[k] = "up"
        BY <2>1, <2>2, <2>4, SentCases, Zenon
      <3> QED
        BY <3>1, <2>1, Zenon DEF Gestures!LossyGesture, Gestures!Gesture
    <2>5. CASE ~PressedAfter(k) /\ isPressed[k]
      <3>1. Phase[k] # "up" /\ Phase'[k] = "up"
        BY <2>1, <2>2, <2>5
      <3>2. CASE e = <<"Release">>
        BY <3>1, <3>2, <2>1, Zenon DEF Gestures!LossyGesture, Gestures!Gesture
      <3>3. CASE ~longSent[k] /\ e = <<"Release", "Short">>
        <4>1. Phase[k] = "down"
          BY <2>1, <2>2, <2>5, <3>3
        <4> QED
          BY <3>1, <3>3, <4>1, <2>1, Zenon DEF Gestures!LossyGesture, Gestures!Gesture
      <3>4. CASE longSent[k] /\ k \in lost /\ e = <<"Release", "Short">>
        <4>1. Phase[k] = "held"
          BY <2>1, <2>2, <2>5, <3>4
        <4> QED
          BY <3>1, <3>4, <4>1, <2>1, Zenon DEF Gestures!LossyGesture
      <3> QED
        BY <3>2, <3>3, <3>4, <2>5, SentCases
    <2>6. CASE PressedAfter(k) /\ isPressed[k]
      <3>1. CASE e \in {<< >>, <<"Repeat">>}
        <4>1. Phase[k] # "up" /\ Phase'[k] = Phase[k]
          BY <2>1, <2>2, <2>6, <3>1, LongSentCases
        <4> QED
          BY <3>1, <4>1, <2>1, Zenon DEF Gestures!LossyGesture, Gestures!Gesture
      <3>2. CASE ~longSent[k] /\ e \in {<<"Long">>, <<"Repeat", "Long">>}
        <4>1. Phase[k] = "down" /\ Phase'[k] = "held"
          BY <2>1, <2>2, <2>6, <3>2, LongSentCases
        <4> QED
          BY <3>2, <4>1, <2>1, Zenon DEF Gestures!LossyGesture, Gestures!Gesture
      <3> QED
        BY <3>1, <3>2, <2>6, SentCases
    <2> QED
      BY <2>3, <2>4, <2>5, <2>6
  <1> QED
    <2>1. lost' = lost /\ lost \subseteq Keys
      BY DEF Scan, TypeOK
    <2> QED
      BY <1>1, <1>2, <1>3, <2>1 DEF Gestures!Step, Phase

(* The scanner implements KeyGestures: one Press, then Repeats and at most *)
(* one Long, then one Release, and a Short exactly after a press that was  *)
(* not Long, except for keys of which a movement was lost.                 *)
THEOREM KeysMeetGestures == Spec => MeetsGestures
  <1>1. Init => TimesAgree
    BY DEF Init, Fresh, TimesAgree
  <1>2. TypeOK /\ Alternate /\ TimesAgree /\ [Next]_vars => TimesAgree'
    <2> SUFFICES ASSUME TypeOK, Alternate, TimesAgree, [Next]_vars
                 PROVE  TimesAgree'
      OBVIOUS
    <2>1. CASE \E k \in Keys : KeyMoves(k) \/ Overrun(k)
      BY <2>1 DEF KeyMoves, Overrun, states, TimesAgree
    <2>2. CASE \E dt \in 0..MaxDelay : Scan(dt)
      BY <2>2, TimesScan
    <2>3. CASE \E byKey \in BOOLEAN : Restart(byKey)
      BY <2>3 DEF Restart, TimesAgree
    <2>4. CASE UNCHANGED vars
      BY <2>4 DEF vars, TimesAgree
    <2> QED
      BY <2>1, <2>2, <2>3, <2>4 DEF Next
  <1>3. Init => Gestures!Init
    BY DEF Init, Fresh, Silence, Gestures!Init
  <1>4. TypeOK /\ Alternate /\ TimesAgree /\ TypeOK' /\ [Next]_vars
          => [Gestures!Next]_(Gestures!gvars)
    <2> SUFFICES ASSUME TypeOK, Alternate, TimesAgree, TypeOK', [Next]_vars
                 PROVE  [Gestures!Next]_(Gestures!gvars)
      OBVIOUS
    <2>1. ASSUME NEW k \in Keys, KeyMoves(k) \/ Overrun(k)
          PROVE  Gestures!Step
      <3>1. /\ Phase' = Phase /\ out' = [c \in Keys |-> << >>]
            /\ lost' \in {lost, lost \cup {k}} /\ lost \subseteq Keys
        BY <2>1 DEF KeyMoves, Overrun, states, Silence, Phase, TypeOK
      <3>2. out' \in [Keys -> Gestures!Outputs]
        BY <3>1 DEF Gestures!Outputs
      <3>3. \A c \in Keys : Gestures!Gesture(Phase[c], Phase'[c], out'[c])
        BY <3>1, Zenon DEF Gestures!Gesture
      <3>4. \A c \in lost : Gestures!LossyGesture(Phase[c], Phase'[c], out'[c])
        BY <3>1, <3>3 DEF Gestures!LossyGesture
      <3> QED
        BY <3>1, <3>2, <3>3, <3>4, PhaseType DEF Gestures!Step, Phase
    <2>2. CASE \E dt \in 0..MaxDelay : Scan(dt)
      BY <2>2, ScanIsGestures DEF Gestures!Next
    <2>3. CASE \E byKey \in BOOLEAN : Restart(byKey)
      BY <2>3 DEF Restart, Silence, Gestures!Next, Gestures!Restart
    <2>4. CASE UNCHANGED vars
      BY <2>4 DEF vars, Gestures!gvars
    <2> QED
      BY <2>1, <2>2, <2>3, <2>4 DEF Next, Gestures!Next
  <1>5. Spec => []TypeOK /\ []Alternate
    BY KeysDoNotStick, PTL
  <1> QED
    BY <1>1, <1>2, <1>3, <1>4, <1>5, PTL DEF Spec, MeetsGestures, Gestures!Spec
-------------------------------------------------------------------------------
(***************************************************************************)
(* The keypad of revision 1.                                               *)
(***************************************************************************)
KeyRecords == [kcode : Fitted \cup {-1}, kstate : KeyStates, stateChanged : BOOLEAN]
Ages       == 0..(HoldTime + 1)
NewKey(c)  == [kcode |-> c, kstate |-> "PRESSED", stateChanged |-> TRUE]

ProperList(l) ==
  /\ l \in [1..ListMax -> KeyRecords]
  /\ \A i, j \in 1..ListMax : l[i].kcode = l[j].kcode /\ i # j => l[i].kcode = -1
  /\ \A i \in 1..ListMax : l[i].kcode = -1 => l[i] = NoKey

(* A place of the list l becomes k when the first n keys of the matrix     *)
(* have been visited.                                                      *)
Visited(l, i, k, n) ==
  \/ l[i].kcode = -1 /\ k = NoKey
  \/ l[i].kcode = -1 /\ \E c \in contacts : c < n /\ Slots(l, c) = {} /\ k = NewKey(c)
  \/ l[i].kcode >= n /\ k = l[i]
  \/ l[i].kcode \in 0..(n - 1) /\ \E a \in Ages : k = nextKeyState(l[i], l[i].kcode \in contacts, a)

VisitedAll(l, s, n) ==
  /\ s \in [list : [1..ListMax -> KeyRecords], age : Ages] /\ ProperList(s.list)
  /\ \A i \in 1..ListMax : Visited(l, i, s.list[i], n)
  /\ \A c \in contacts : c < n => Slots(s.list, c) # {} \/ Slots(s.list, -1) = {}

LEMMA KeyRecordFacts ==
  ASSUME KeypadAssumption
  PROVE  /\ MapSize \in Nat /\ ListMax \in Nat /\ HoldTime \in Nat /\ MaxWait \in Nat
         /\ Fitted \subseteq 0..(MapSize - 1) /\ Fitted \subseteq Nat /\ -1 \notin Fitted
         /\ NoKey \in KeyRecords /\ NoKey.kcode = -1
         /\ \A c \in Fitted : NewKey(c) \in KeyRecords /\ NewKey(c).kcode = c
         /\ \A k \in KeyRecords : k.kcode \in Fitted \cup {-1} /\ k.kstate \in KeyStates
<1>1. /\ MapSize \in Nat /\ ListMax \in Nat /\ HoldTime \in Nat /\ MaxWait \in Nat
      /\ Fitted \subseteq 0..(MapSize - 1)
  BY DEF KeypadAssumption
<1>2. Fitted \subseteq Nat /\ -1 \notin Fitted
  BY <1>1
<1>3. NoKey \in KeyRecords /\ NoKey.kcode = -1
  BY DEF NoKey, KeyRecords, KeyStates
<1>4. \A c \in Fitted : NewKey(c) \in KeyRecords /\ NewKey(c).kcode = c
  BY DEF NewKey, KeyRecords, KeyStates
<1>5. \A k \in KeyRecords : k.kcode \in Fitted \cup {-1} /\ k.kstate \in KeyStates
  BY DEF KeyRecords
<1> QED  BY <1>1, <1>2, <1>3, <1>4, <1>5

LEMMA Transitions ==
  ASSUME NEW k \in KeyRecords, NEW st \in KeyStates
  PROVE  /\ transitionTo(k, st) \in KeyRecords /\ transitionTo(k, st).kcode = k.kcode
         /\ transitionTo(k, st).kstate = st /\ transitionTo(k, st).stateChanged = TRUE
<1>1. /\ k.kcode \in Fitted \cup {-1} /\ k.stateChanged \in BOOLEAN
      /\ k = [kcode |-> k.kcode, kstate |-> k.kstate, stateChanged |-> k.stateChanged]
  BY DEF KeyRecords
<1> QED  BY <1>1 DEF transitionTo, KeyRecords

(* What a scan makes of a key that is on the list.                         *)
Goes(k, closed, r) ==
  /\ k.kstate = "PRESSED" => \/ r.kstate = "PRESSED" /\ closed = TRUE /\ r.stateChanged = FALSE
                             \/ r.kstate = "HOLD"
                             \/ r.kstate = "RELEASED" /\ closed = FALSE /\ r.stateChanged = TRUE
  /\ k.kstate = "HOLD" => \/ r.kstate = "HOLD" /\ closed = TRUE
                          \/ r.kstate = "RELEASED" /\ closed = FALSE /\ r.stateChanged = TRUE
  /\ k.kstate = "RELEASED" => r.kstate = "IDLE"

LEMMA NextStates ==
  ASSUME KeypadAssumption, NEW k \in KeyRecords, NEW closed \in BOOLEAN, NEW a \in Ages
  PROVE  /\ nextKeyState(k, closed, a) \in KeyRecords /\ nextKeyState(k, closed, a).kcode = k.kcode
         /\ Goes(k, closed, nextKeyState(k, closed, a))
<1> DEFINE r == nextKeyState(k, closed, a)
<1>1. /\ k.kcode \in Fitted \cup {-1} /\ k.kstate \in KeyStates /\ k.stateChanged \in BOOLEAN
      /\ k = [kcode |-> k.kcode, kstate |-> k.kstate, stateChanged |-> k.stateChanged]
  BY DEF KeyRecords
<1>2. HoldTime \in Nat /\ a \in Int
  BY KeyRecordFacts DEF Ages
<1>3. \A st \in KeyStates : /\ transitionTo(k, st) \in KeyRecords /\ transitionTo(k, st).kcode = k.kcode
                            /\ transitionTo(k, st).kstate = st /\ transitionTo(k, st).stateChanged = TRUE
  BY Transitions
<1>4. /\ [k EXCEPT !.stateChanged = FALSE] \in KeyRecords
      /\ [k EXCEPT !.stateChanged = FALSE].kcode = k.kcode
      /\ [k EXCEPT !.stateChanged = FALSE].kstate = k.kstate
      /\ [k EXCEPT !.stateChanged = FALSE].stateChanged = FALSE
  BY <1>1 DEF KeyRecords
<1> SUFFICES r \in KeyRecords /\ r.kcode = k.kcode /\ Goes(k, closed, r)
  OBVIOUS
<1>5. CASE k.kstate = "IDLE"
  <2>1. r \in {transitionTo(k, "PRESSED"), [k EXCEPT !.stateChanged = FALSE]}
    BY <1>5 DEF nextKeyState
  <2> QED  BY <1>3, <1>4, <1>5, <2>1 DEF KeyStates, Goes
<1>6. CASE k.kstate = "PRESSED"
  <2>1. CASE a > HoldTime
    <3>1. r = transitionTo(k, "HOLD")
      BY <1>2, <1>6, <2>1 DEF nextKeyState
    <3> QED  BY <1>3, <1>6, <3>1 DEF KeyStates, Goes
  <2>2. CASE a <= HoldTime /\ closed = FALSE
    <3>1. r = transitionTo(k, "RELEASED")
      BY <1>2, <1>6, <2>2 DEF nextKeyState
    <3> QED  BY <1>3, <1>6, <2>2, <3>1 DEF KeyStates, Goes
  <2>3. CASE a <= HoldTime /\ closed = TRUE
    <3>1. r = [k EXCEPT !.stateChanged = FALSE]
      BY <1>2, <1>6, <2>3 DEF nextKeyState
    <3> QED  BY <1>4, <1>6, <2>3, <3>1 DEF Goes
  <2>4. closed = TRUE \/ closed = FALSE
    OBVIOUS
  <2>5. a > HoldTime \/ a <= HoldTime
    BY <1>2
  <2> QED  BY <2>1, <2>2, <2>3, <2>4, <2>5, Zenon
<1>7. CASE k.kstate = "HOLD"
  <2>1. CASE closed = FALSE
    <3>1. r = transitionTo(k, "RELEASED")
      BY <1>7, <2>1 DEF nextKeyState
    <3> QED  BY <1>3, <1>7, <2>1, <3>1 DEF KeyStates, Goes
  <2>2. CASE closed = TRUE
    <3>1. r = [k EXCEPT !.stateChanged = FALSE]
      BY <1>7, <2>2 DEF nextKeyState
    <3> QED  BY <1>4, <1>7, <2>2, <3>1 DEF Goes
  <2> QED  BY <2>1, <2>2
<1>8. CASE k.kstate = "RELEASED"
  <2>1. r = transitionTo(k, "IDLE")
    BY <1>8 DEF nextKeyState
  <2> QED  BY <1>3, <1>8, <2>1 DEF KeyStates, Goes
<1> QED  BY <1>1, <1>5, <1>6, <1>7, <1>8 DEF KeyStates

LEMMA CodeStays ==
  ASSUME KeypadAssumption, NEW k \in KeyRecords, NEW code, NEW a \in Ages
  PROVE  nextKeyState(k, code \in contacts, a).kcode = k.kcode
<1> DEFINE closed == code \in contacts
<1>1. closed \in BOOLEAN
  OBVIOUS
<1> HIDE DEF closed
<1>2. nextKeyState(k, closed, a).kcode = k.kcode
  BY <1>1, NextStates
<1> QED  BY <1>2 DEF closed

LEMMA AddedKey ==
  ASSUME KeypadAssumption, NEW c \in Fitted
  PROVE  nextKeyState([NoKey EXCEPT !.kcode = c], TRUE, 0) = NewKey(c)
<1> DEFINE k == [NoKey EXCEPT !.kcode = c]
<1>1. k.kcode = c /\ k.kstate = "IDLE" /\ k \in KeyRecords
  BY DEF NoKey, KeyRecords, KeyStates
<1> HIDE DEF k
<1>2. nextKeyState(k, TRUE, 0) = transitionTo(k, "PRESSED")
  BY <1>1 DEF nextKeyState
<1>3. transitionTo(k, "PRESSED") = NewKey(c)
  <2> DEFINE r == transitionTo(k, "PRESSED")
  <2>1. r \in KeyRecords /\ r.kcode = c /\ r.kstate = "PRESSED" /\ r.stateChanged = TRUE
    BY <1>1, Transitions DEF KeyStates
  <2> HIDE DEF r
  <2>2. r = [kcode |-> r.kcode, kstate |-> r.kstate, stateChanged |-> r.stateChanged]
    BY <2>1 DEF KeyRecords
  <2>3. r = NewKey(c)
    BY <2>1, <2>2 DEF NewKey
  <2> QED  BY <2>3 DEF r
<1> QED  BY <1>2, <1>3 DEF k

(* The place AddKey takes.                                                 *)
LEMMA FirstIsThere ==
  ASSUME KeypadAssumption, NEW l, NEW code, Slots(l, code) # {}
  PROVE  First(Slots(l, code)) \in 1..ListMax /\ l[First(Slots(l, code))].kcode = code
<1>1. Slots(l, code) \subseteq Nat
  BY KeyRecordFacts DEF Slots
<1>2. PICK i \in Slots(l, code) : \A j \in Slots(l, code) : i <= j
  BY <1>1, LeastElement
<1>3. First(Slots(l, code)) \in Slots(l, code)
  BY <1>2 DEF First
<1> QED  BY <1>3 DEF Slots

-------------------------------------------------------------------------------
(* One key of the matrix more: one that is on the list ...                 *)
LEMMA MoveOnKeeps ==
  ASSUME KeypadAssumption, contacts \subseteq Fitted, NEW l, ProperList(l), NEW s, NEW n \in Nat,
         VisitedAll(l, s, n), Slots(s.list, n) # {}
  PROVE  VisitedAll(l, MoveOn(s, n), n + 1)
<1> DEFINE t == MoveOn(s, n)
<1> DEFINE new(i) == nextKeyState(s.list[i], n \in contacts, s.age)
<1>1. /\ s.list \in [1..ListMax -> KeyRecords] /\ s.age \in Ages /\ l \in [1..ListMax -> KeyRecords]
      /\ s = [list |-> s.list, age |-> s.age]
  BY DEF VisitedAll, ProperList
<1>2. \A i \in 1..ListMax : new(i) \in KeyRecords /\ new(i).kcode = s.list[i].kcode
  <2> DEFINE closed == n \in contacts
  <2>1. closed \in BOOLEAN
    OBVIOUS
  <2>2. \A i \in 1..ListMax : new(i) = nextKeyState(s.list[i], closed, s.age)
    OBVIOUS
  <2> HIDE DEF new, closed
  <2> QED  BY <1>1, <2>1, <2>2, NextStates
<1> HIDE DEF new
<1>3. /\ t.list = [i \in 1..ListMax |-> IF s.list[i].kcode = n THEN new(i) ELSE s.list[i]]
      /\ t = [list |-> t.list, age |-> s.age] /\ t.age = s.age
  <2> DEFINE after == [i \in 1..ListMax |-> IF s.list[i].kcode = n THEN new(i) ELSE s.list[i]]
  <2>1. t = [s EXCEPT !.list = after]
    BY DEF MoveOn, new
  <2> HIDE DEF after, t
  <2>2. t = [list |-> after, age |-> s.age]
    BY <1>1, <2>1
  <2> QED  BY <2>2 DEF after
<1> HIDE DEF t
<1>4. \A i \in 1..ListMax : t.list[i] = IF s.list[i].kcode = n THEN new(i) ELSE s.list[i]
  BY <1>3
<1>5. t.list \in [1..ListMax -> KeyRecords] /\ \A i \in 1..ListMax : t.list[i].kcode = s.list[i].kcode
  BY <1>1, <1>2, <1>3, <1>4
<1>6. ProperList(t.list)
  <2>1. ProperList(s.list)
    BY DEF VisitedAll
  <2>2. \A i \in 1..ListMax : t.list[i].kcode = -1 => t.list[i] = NoKey
    BY <1>4, <1>5, <2>1 DEF ProperList
  <2> QED  BY <1>5, <2>1, <2>2 DEF ProperList
<1>7. \A i \in 1..ListMax : Visited(l, i, t.list[i], n + 1)
  <2> SUFFICES ASSUME NEW i \in 1..ListMax  PROVE Visited(l, i, t.list[i], n + 1)
    OBVIOUS
  <2>1. Visited(l, i, s.list[i], n)
    BY DEF VisitedAll
  <2>2. l[i] \in KeyRecords /\ l[i].kcode \in Nat \cup {-1} /\ contacts \subseteq Nat
    BY <1>1, KeyRecordFacts
  <2>3. CASE l[i].kcode = -1 /\ s.list[i] = NoKey
    BY <1>4, <2>3, KeyRecordFacts DEF Visited
  <2>4. CASE l[i].kcode = -1 /\ \E c \in contacts : c < n /\ Slots(l, c) = {} /\ s.list[i] = NewKey(c)
    <3>1. PICK c \in contacts : c < n /\ Slots(l, c) = {} /\ s.list[i] = NewKey(c)
      BY <2>4
    <3>2. t.list[i] = NewKey(c) /\ c < n + 1
      BY <1>4, <2>2, <3>1, KeyRecordFacts
    <3> QED  BY <2>4, <3>1, <3>2 DEF Visited
  <2>5. CASE l[i].kcode >= n /\ s.list[i] = l[i]
    <3>1. CASE l[i].kcode = n
      <4>1. t.list[i] = nextKeyState(l[i], l[i].kcode \in contacts, s.age)
        BY <1>4, <2>5, <3>1 DEF new
      <4>2. l[i].kcode \in 0..((n + 1) - 1)
        BY <3>1
      <4> QED  BY <1>1, <4>1, <4>2 DEF Visited
    <3>2. CASE l[i].kcode # n
      BY <1>4, <2>2, <2>5, <3>2 DEF Visited
    <3> QED  BY <3>1, <3>2
  <2>6. CASE /\ l[i].kcode \in 0..(n - 1)
             /\ \E a \in Ages : s.list[i] = nextKeyState(l[i], l[i].kcode \in contacts, a)
    <3>1. s.list[i].kcode = l[i].kcode
      <4>1. PICK a \in Ages : s.list[i] = nextKeyState(l[i], l[i].kcode \in contacts, a)
        BY <2>6
      <4>2. nextKeyState(l[i], l[i].kcode \in contacts, a).kcode = l[i].kcode
        BY <2>2, CodeStays
      <4> QED  BY <4>1, <4>2, Zenon
    <3>2. t.list[i] = s.list[i] /\ l[i].kcode \in 0..((n + 1) - 1)
      BY <1>4, <2>6, <3>1
    <3> QED  BY <2>6, <3>2 DEF Visited
  <2> QED  BY <2>1, <2>3, <2>4, <2>5, <2>6 DEF Visited
<1>8. \A c : Slots(t.list, c) = Slots(s.list, c)
  BY <1>5 DEF Slots
<1>9. \A c \in contacts : c < n + 1 => Slots(t.list, c) # {} \/ Slots(t.list, -1) = {}
  <2>1. \A c \in contacts : c < n => Slots(s.list, c) # {} \/ Slots(s.list, -1) = {}
    BY DEF VisitedAll
  <2>2. \A c \in contacts : c < n + 1 => c < n \/ c = n
    BY KeyRecordFacts
  <2> QED  BY <1>8, <2>1, <2>2
<1>10. t \in [list : [1..ListMax -> KeyRecords], age : Ages]
  BY <1>1, <1>3, <1>5
<1>11. VisitedAll(l, t, n + 1)
  BY <1>6, <1>7, <1>9, <1>10 DEF VisitedAll
<1> QED  BY <1>11 DEF t

(* ... and one that is not.                                                *)
LEMMA AddKeyKeeps ==
  ASSUME KeypadAssumption, contacts \subseteq Fitted, NEW l, ProperList(l), NEW s, NEW n \in Nat,
         VisitedAll(l, s, n), Slots(s.list, n) = {}
  PROVE  VisitedAll(l, AddKey(s, n), n + 1)
<1>1. /\ s.list \in [1..ListMax -> KeyRecords] /\ s.age \in Ages /\ l \in [1..ListMax -> KeyRecords]
      /\ s = [list |-> s.list, age |-> s.age] /\ ProperList(s.list)
      /\ \A i \in 1..ListMax : s.list[i].kcode # n
  BY DEF VisitedAll, ProperList, Slots
<1>2. contacts \subseteq Nat /\ \A i \in 1..ListMax : l[i] \in KeyRecords /\ l[i].kcode \in Nat \cup {-1}
  BY <1>1, KeyRecordFacts
<1>3. \A i \in 1..ListMax : Visited(l, i, s.list[i], n + 1) /\ l[i].kcode # n
  <2> SUFFICES ASSUME NEW i \in 1..ListMax  PROVE Visited(l, i, s.list[i], n + 1) /\ l[i].kcode # n
    OBVIOUS
  <2>1. Visited(l, i, s.list[i], n)
    BY DEF VisitedAll
  <2>2. CASE l[i].kcode = -1 /\ s.list[i] = NoKey
    BY <2>2 DEF Visited
  <2>3. CASE l[i].kcode = -1 /\ \E c \in contacts : c < n /\ Slots(l, c) = {} /\ s.list[i] = NewKey(c)
    <3>1. PICK c \in contacts : c < n /\ Slots(l, c) = {} /\ s.list[i] = NewKey(c)
      BY <2>3
    <3>2. c < n + 1
      BY <1>2, <3>1
    <3> QED  BY <2>3, <3>1, <3>2 DEF Visited
  <2>4. CASE l[i].kcode >= n /\ s.list[i] = l[i]
    BY <1>1, <1>2, <2>4 DEF Visited
  <2>5. CASE /\ l[i].kcode \in 0..(n - 1)
             /\ \E a \in Ages : s.list[i] = nextKeyState(l[i], l[i].kcode \in contacts, a)
    <3>1. l[i].kcode \in 0..((n + 1) - 1) /\ l[i].kcode # n
      BY <2>5
    <3> QED  BY <2>5, <3>1 DEF Visited
  <2> QED  BY <2>1, <2>2, <2>3, <2>4, <2>5 DEF Visited
<1>4. \A c \in contacts : c < n => Slots(s.list, c) # {} \/ Slots(s.list, -1) = {}
  BY DEF VisitedAll
<1>5. \A c \in contacts : c < n + 1 => c < n \/ c = n
  BY <1>2
<1>6. CASE n \notin contacts \/ Slots(s.list, -1) = {}
  <2>1. AddKey(s, n) = s
    BY <1>6 DEF AddKey
  <2>2. \A c \in contacts : c < n + 1 => Slots(s.list, c) # {} \/ Slots(s.list, -1) = {}
    BY <1>4, <1>5, <1>6
  <2> QED  BY <1>1, <1>3, <2>1, <2>2 DEF VisitedAll
<1>7. CASE n \in contacts /\ Slots(s.list, -1) # {}
  <2> DEFINE f == First(Slots(s.list, -1))
  <2> DEFINE t == AddKey(s, n)
  <2>1. f \in 1..ListMax /\ s.list[f].kcode = -1
    BY <1>7, FirstIsThere
  <2>2. n \in Fitted /\ NewKey(n) \in KeyRecords /\ NewKey(n).kcode = n
    BY <1>7, KeyRecordFacts
  <2>3. t = [list |-> [s.list EXCEPT ![f] = NewKey(n)], age |-> 0]
    BY <1>7, <2>2, AddedKey DEF AddKey
  <2> HIDE DEF f, t
  <2>4. /\ t.list \in [1..ListMax -> KeyRecords] /\ t.age \in Ages
        /\ \A i \in 1..ListMax : t.list[i] = IF i = f THEN NewKey(n) ELSE s.list[i]
    BY <1>1, <2>1, <2>2, <2>3, KeyRecordFacts DEF Ages
  <2>5. ProperList(t.list)
    <3>1. ASSUME NEW i \in 1..ListMax, NEW j \in 1..ListMax, i # j, t.list[i].kcode = t.list[j].kcode
          PROVE  t.list[i].kcode = -1
      BY <1>1, <2>1, <2>2, <2>4, <3>1 DEF ProperList
    <3>2. ASSUME NEW i \in 1..ListMax, t.list[i].kcode = -1  PROVE t.list[i] = NoKey
      <4>1. i # f
        BY <2>2, <2>4, <3>2, KeyRecordFacts
      <4> QED  BY <1>1, <2>4, <3>2, <4>1 DEF ProperList
    <3> QED  BY <2>4, <3>1, <3>2 DEF ProperList
  <2>6. l[f].kcode = -1
    <3>1. Visited(l, f, s.list[f], n)
      BY <2>1 DEF VisitedAll
    <3>2. l[f] \in KeyRecords /\ \A a \in Ages : nextKeyState(l[f], l[f].kcode \in contacts, a).kcode = l[f].kcode
      BY <1>2, <2>1, CodeStays
    <3> QED  BY <2>1, <3>1, <3>2 DEF Visited
  <2>7. Slots(l, n) = {}
    BY <1>3 DEF Slots
  <2>8. \A i \in 1..ListMax : Visited(l, i, t.list[i], n + 1)
    <3>1. Visited(l, f, t.list[f], n + 1)
      <4>1. n < n + 1 /\ t.list[f] = NewKey(n)
        BY <2>1, <2>4
      <4> QED  BY <1>7, <2>6, <2>7, <4>1 DEF Visited
    <3> QED  BY <1>3, <2>4, <3>1
  <2>9. \A c \in contacts : c < n + 1 => Slots(t.list, c) # {} \/ Slots(t.list, -1) = {}
    <3>1. f \in Slots(t.list, n)
      BY <2>1, <2>2, <2>4 DEF Slots
    <3>2. ASSUME NEW c \in contacts, c < n  PROVE Slots(t.list, c) # {}
      <4>1. PICK i \in 1..ListMax : s.list[i].kcode = c
        BY <1>4, <1>7, <3>2 DEF Slots
      <4>2. i # f
        BY <1>2, <2>1, <4>1
      <4>3. i \in Slots(t.list, c)
        BY <2>4, <4>1, <4>2 DEF Slots
      <4> QED  BY <4>3
    <3> QED  BY <1>5, <3>1, <3>2
  <2>10. t \in [list : [1..ListMax -> KeyRecords], age : Ages]
    BY <2>3, <2>4
  <2>11. VisitedAll(l, t, n + 1)
    BY <2>5, <2>8, <2>9, <2>10 DEF VisitedAll
  <2> QED  BY <2>11 DEF t
<1> QED  BY <1>6, <1>7

-------------------------------------------------------------------------------
(* The whole matrix.  updateList chooses a function that is defined from   *)
(* its own values; there is one, and what it ends in has all keys visited. *)
Passes(age, m, g) ==
  g = [n \in 0..m |-> IF n = 0 THEN [list |-> WithoutIdle(key), age |-> age] ELSE Visit(g[n - 1], n - 1)]

LEMMA APassExists ==
  ASSUME NEW age, NEW m \in Nat
  PROVE  \E g : Passes(age, m, g)
<1> DEFINE Missing == {n \in Nat : ~ \E g : Passes(age, n, g)}
<1> SUFFICES Missing = {}
  OBVIOUS
<1>1. SUFFICES ASSUME Missing # {}  PROVE FALSE
  OBVIOUS
<1>2. PICK n \in Missing : \A j \in Missing : n <= j
  <2>1. Missing \subseteq Nat
    OBVIOUS
  <2> HIDE DEF Missing
  <2> QED  BY <1>1, <2>1, LeastElement
<1>3. CASE n = 0
  <2> DEFINE g == [k \in 0..0 |-> [list |-> WithoutIdle(key), age |-> age]]
  <2>1. g = [k \in 0..0 |-> IF k = 0 THEN [list |-> WithoutIdle(key), age |-> age] ELSE Visit(g[k - 1], k - 1)]
    OBVIOUS
  <2>2. Passes(age, 0, g)
    BY <2>1 DEF Passes
  <2> QED  BY <1>3, <2>2
<1>4. CASE n # 0
  <2>1. n \in Nat /\ n - 1 \in Nat /\ n - 1 \notin Missing
    BY <1>2, <1>4
  <2>2. PICK g : Passes(age, n - 1, g)
    BY <2>1
  <2> DEFINE h == [k \in 0..n |-> IF k = n THEN Visit(g[n - 1], n - 1) ELSE g[k]]
  <2>3. ASSUME NEW k \in 0..n
        PROVE  h[k] = IF k = 0 THEN [list |-> WithoutIdle(key), age |-> age] ELSE Visit(h[k - 1], k - 1)
    <3>1. CASE k = n
      <4>1. h[n] = Visit(g[n - 1], n - 1) /\ h[n - 1] = g[n - 1]
        BY <2>1
      <4> HIDE DEF h
      <4> QED  BY <1>4, <3>1, <4>1
    <3>2. CASE k # n
      <4>1. k \in 0..(n - 1) /\ (k # 0 => k - 1 \in 0..n /\ k - 1 # n)
        BY <2>1, <3>2
      <4>2. h[k] = g[k] /\ (k # 0 => h[k - 1] = g[k - 1])
        BY <3>2, <4>1
      <4>3. g[k] = IF k = 0 THEN [list |-> WithoutIdle(key), age |-> age] ELSE Visit(g[k - 1], k - 1)
        BY <2>2, <4>1 DEF Passes
      <4> HIDE DEF h
      <4> QED  BY <4>2, <4>3
    <3> QED  BY <3>1, <3>2
  <2>4. DOMAIN h = 0..n /\ h = [k \in 0..n |-> h[k]]
    OBVIOUS
  <2> HIDE DEF h
  <2>5. Passes(age, n, h)
    BY <2>3, <2>4 DEF Passes
  <2> QED  BY <1>2, <2>5
<1> QED  BY <1>3, <1>4

LEMMA WithoutIdleFacts ==
  ASSUME KeypadAssumption, ProperList(key)
  PROVE  /\ ProperList(WithoutIdle(key))
         /\ \A i \in 1..ListMax :
              \/ WithoutIdle(key)[i] = NoKey /\ key[i].kstate = "IDLE"
              \/ WithoutIdle(key)[i] = key[i] /\ key[i].kstate # "IDLE" /\ key[i].kcode \in Fitted
<1> DEFINE l == WithoutIdle(key)
<1>1. \A i \in 1..ListMax : l[i] = IF key[i].kstate = "IDLE" THEN NoKey ELSE key[i]
  BY DEF WithoutIdle
<1>2. l \in [1..ListMax -> KeyRecords]
  BY KeyRecordFacts DEF WithoutIdle, ProperList
<1> HIDE DEF l
<1>3. NoKey.kcode = -1 /\ NoKey.kstate = "IDLE"
  BY DEF NoKey
<1>4. \A i \in 1..ListMax : key[i].kstate # "IDLE" => key[i].kcode \in Fitted
  BY <1>3, KeyRecordFacts DEF ProperList
<1>5. ProperList(l)
  BY <1>1, <1>2, <1>3 DEF ProperList
<1> QED  BY <1>1, <1>4, <1>5 DEF l

LEMMA AllAreVisited ==
  ASSUME KeypadAssumption, contacts \subseteq Fitted, ProperList(key), NEW age \in Ages
  PROVE  VisitedAll(WithoutIdle(key), updateList(age), MapSize)
<1> DEFINE l == WithoutIdle(key)
<1> DEFINE pass == CHOOSE g : Passes(age, MapSize, g)
<1>1. updateList(age) = pass[MapSize]
  BY DEF updateList, Passes
<1>2. Passes(age, MapSize, pass)
  BY APassExists, KeyRecordFacts
<1>3. ProperList(l) /\ l \in [1..ListMax -> KeyRecords]
  BY WithoutIdleFacts DEF ProperList
<1> HIDE DEF pass, l
<1>4. pass[0] = [list |-> l, age |-> age]
  BY <1>2, KeyRecordFacts DEF Passes, l
<1>5. \A n \in 0..MapSize : n # 0 => pass[n] = Visit(pass[n - 1], n - 1)
  BY <1>2, KeyRecordFacts DEF Passes
<1>6. VisitedAll(l, pass[0], 0)
  <2>1. pass[0].list = l /\ pass[0] \in [list : [1..ListMax -> KeyRecords], age : Ages]
    BY <1>3, <1>4
  <2>2. \A i \in 1..ListMax : Visited(l, i, l[i], 0)
    <3>1. \A i \in 1..ListMax : l[i].kcode >= 0 \/ (l[i].kcode = -1 /\ l[i] = NoKey)
      <4>1. \A i \in 1..ListMax : l[i] \in KeyRecords /\ (l[i].kcode = -1 => l[i] = NoKey)
        BY <1>3 DEF ProperList
      <4>2. \A k \in KeyRecords : k.kcode \in Nat \/ k.kcode = -1
        BY KeyRecordFacts
      <4>3. \A i \in 1..ListMax : l[i].kcode \in Nat \/ l[i].kcode = -1
        BY <4>1, <4>2
      <4> QED  BY <4>1, <4>3
    <3> QED  BY <3>1 DEF Visited
  <2>3. \A c \in contacts : ~(c < 0)
    BY KeyRecordFacts
  <2> QED  BY <1>3, <2>1, <2>2, <2>3 DEF VisitedAll
<1> DEFINE Wrong == {n \in 0..MapSize : ~VisitedAll(l, pass[n], n)}
<1>7. Wrong = {}
  <2>1. SUFFICES ASSUME Wrong # {}  PROVE FALSE
    OBVIOUS
  <2>2. PICK n \in Wrong : \A j \in Wrong : n <= j
    <3>1. Wrong \subseteq Nat
      BY KeyRecordFacts
    <3> HIDE DEF Wrong
    <3> QED  BY <2>1, <3>1, LeastElement
  <2>3. n # 0
    BY <1>6
  <2>4. n \in 0..MapSize /\ n - 1 \in Nat /\ (n - 1) + 1 = n /\ VisitedAll(l, pass[n - 1], n - 1)
    BY <2>2, <2>3, KeyRecordFacts
  <2>5. VisitedAll(l, Visit(pass[n - 1], n - 1), n)
    <3>1. CASE Slots(pass[n - 1].list, n - 1) # {}
      <4>1. VisitedAll(l, MoveOn(pass[n - 1], n - 1), (n - 1) + 1)
        BY <1>3, <2>4, <3>1, MoveOnKeeps
      <4> QED  BY <2>4, <3>1, <4>1 DEF Visit
    <3>2. CASE Slots(pass[n - 1].list, n - 1) = {}
      <4>1. VisitedAll(l, AddKey(pass[n - 1], n - 1), (n - 1) + 1)
        BY <1>3, <2>4, <3>2, AddKeyKeeps
      <4> QED  BY <2>4, <3>2, <4>1 DEF Visit
    <3> QED  BY <3>1, <3>2
  <2> QED  BY <1>5, <2>2, <2>3, <2>4, <2>5
<1>8. VisitedAll(l, pass[MapSize], MapSize)
  BY <1>7, KeyRecordFacts
<1> QED  BY <1>1, <1>8 DEF l

-------------------------------------------------------------------------------
(* What a scan makes of the list, place by place.                          *)
Advances(i) ==
  LET l == WithoutIdle(key) IN
  \/ l[i] = NoKey /\ key'[i] = NoKey
  \/ l[i] = NoKey /\ \E c \in contacts : Slots(l, c) = {} /\ key'[i] = NewKey(c)
  \/ /\ l[i] = key[i] /\ key[i].kstate # "IDLE" /\ key[i].kcode \in Fitted
     /\ \E a \in Ages : key'[i] = nextKeyState(key[i], key[i].kcode \in contacts, a)

LEMMA ScanFacts ==
  ASSUME KeypadAssumption, contacts \subseteq Fitted, ProperList(key), holdAge \in Ages, KeypadScan
  PROVE  /\ ProperList(key') /\ holdAge' \in Ages
         /\ told' = [k \in Fitted |-> Heard(key', k)]
         /\ still' = IF still < Rested THEN still + 1 ELSE still
         /\ contacts' = contacts
         /\ \A i \in 1..ListMax : Advances(i)
         /\ \A c \in contacts : Slots(key', c) # {} \/ Slots(key', -1) = {}
<1> DEFINE l == WithoutIdle(key)
<1>1. PICK dt \in 0..MaxWait : keyboardScan(dt)
  BY DEF KeypadScan
<1>2. HeldFor(dt) \in Ages
  <2>1. HoldTime \in Nat /\ MaxWait \in Nat /\ holdAge \in Nat /\ dt \in Nat
    BY KeyRecordFacts DEF Ages
  <2> QED  BY <2>1 DEF HeldFor, Ages
<1> DEFINE s == updateList(HeldFor(dt))
<1>3. VisitedAll(l, s, MapSize)
  BY <1>2, AllAreVisited
<1>4. /\ key' = s.list /\ holdAge' = s.age /\ told' = [k \in Fitted |-> Heard(s.list, k)]
      /\ still' = IF still < Rested THEN still + 1 ELSE still
      /\ contacts' = contacts
  BY <1>1 DEF keyboardScan
<1> HIDE DEF s
<1>5. ProperList(key') /\ holdAge' \in Ages
  BY <1>3, <1>4 DEF VisitedAll
<1>6. \A c \in contacts : Slots(key', c) # {} \/ Slots(key', -1) = {}
  <2>1. \A c \in contacts : c < MapSize
    BY KeyRecordFacts
  <2> QED  BY <1>3, <1>4, <2>1 DEF VisitedAll
<1>7. \A i \in 1..ListMax : Advances(i)
  <2> SUFFICES ASSUME NEW i \in 1..ListMax  PROVE Advances(i)
    OBVIOUS
  <2>1. Visited(l, i, key'[i], MapSize)
    BY <1>3, <1>4 DEF VisitedAll
  <2>2. \/ l[i] = NoKey /\ key[i].kstate = "IDLE"
        \/ l[i] = key[i] /\ key[i].kstate # "IDLE" /\ key[i].kcode \in Fitted
    BY WithoutIdleFacts
  <2> HIDE DEF l
  <2>3. CASE l[i] = NoKey
    <3>1. l[i].kcode = -1 /\ ~(l[i].kcode >= MapSize) /\ ~(l[i].kcode \in 0..(MapSize - 1))
      BY <2>3, KeyRecordFacts
    <3>2. \/ key'[i] = NoKey
          \/ \E c \in contacts : Slots(l, c) = {} /\ key'[i] = NewKey(c)
      BY <2>1, <3>1 DEF Visited
    <3> QED  BY <2>3, <3>2 DEF Advances, l
  <2>4. CASE l[i] = key[i] /\ key[i].kstate # "IDLE" /\ key[i].kcode \in Fitted
    <3>1. key[i].kcode # -1 /\ ~(key[i].kcode >= MapSize)
      <4> DEFINE c == key[i].kcode
      <4>1. c \in Nat /\ c < MapSize
        <5>1. c \in Fitted
          BY <2>4
        <5> HIDE DEF c
        <5> QED  BY <5>1, KeyRecordFacts
      <4> HIDE DEF c
      <4>2. c # -1 /\ ~(c >= MapSize)
        BY <4>1, KeyRecordFacts
      <4> QED  BY <4>2 DEF c
    <3>2. \E a \in Ages : key'[i] = nextKeyState(key[i], key[i].kcode \in contacts, a)
      BY <2>1, <2>4, <3>1 DEF Visited
    <3> QED  BY <2>4, <3>2 DEF Advances, l
  <2> QED  BY <2>2, <2>3, <2>4
<1> QED  BY <1>4, <1>5, <1>6, <1>7

-------------------------------------------------------------------------------
(* The states in which a key can be that has been as it is for so many     *)
(* scans; a key that is let go has left the list after the fourth.         *)
MayBe(scans, closed) ==
  IF scans = 0 THEN KeyStates
  ELSE IF scans = 1 THEN IF closed THEN {"IDLE", "PRESSED", "HOLD"} ELSE {"IDLE", "HOLD", "RELEASED"}
  ELSE IF closed THEN {"PRESSED", "HOLD"}
  ELSE IF scans = 2 THEN {"IDLE", "RELEASED"} ELSE IF scans = 3 THEN {"IDLE"} ELSE {}

OnTheirWay ==
  \A i \in 1..ListMax : key[i].kcode \in Fitted => key[i].kstate \in MayBe(still, key[i].kcode \in contacts)
AllHeard ==
  still = Rested /\ Cardinality(contacts) <= ListMax => \A c \in contacts : Slots(key, c) # {}

KeypadInv ==
  /\ contacts \subseteq Fitted /\ ProperList(key) /\ holdAge \in Ages /\ still \in 0..Rested
  /\ OnTheirWay /\ AllHeard

LEMMA EmptyList ==
  ASSUME KeypadAssumption, key = [i \in 1..ListMax |-> NoKey], still = 0
  PROVE  ProperList(key) /\ OnTheirWay /\ AllHeard /\ still \in 0..Rested
<1>1. \A i \in 1..ListMax : key[i] = NoKey
  OBVIOUS
<1>2. ProperList(key)
  BY <1>1, KeyRecordFacts DEF ProperList
<1>3. OnTheirWay
  BY <1>1, KeyRecordFacts DEF OnTheirWay
<1> QED  BY <1>2, <1>3 DEF AllHeard, Rested

LEMMA EmptyListNext ==
  ASSUME KeypadAssumption, key' = [i \in 1..ListMax |-> NoKey], still' = 0
  PROVE  ProperList(key') /\ OnTheirWay' /\ AllHeard' /\ (still \in 0..Rested)'
<1>1. \A i \in 1..ListMax : key'[i] = NoKey
  OBVIOUS
<1>2. ProperList(key')
  BY <1>1, KeyRecordFacts DEF ProperList
<1>3. OnTheirWay'
  BY <1>1, KeyRecordFacts DEF OnTheirWay
<1> QED  BY <1>2, <1>3 DEF AllHeard, Rested

LEMMA FingersKeep ==
  ASSUME KeypadAssumption, KeypadInv, NEW k \in Fitted, Press(k) \/ LetGo(k)
  PROVE  KeypadInv'
<1>1. /\ contacts' \subseteq Fitted /\ key' = key /\ holdAge' = holdAge /\ still' = 0
  BY DEF KeypadInv, Press, LetGo
<1>2. \A i \in 1..ListMax : key[i] \in KeyRecords
  BY DEF KeypadInv, ProperList
<1>3. OnTheirWay'
  BY <1>1, <1>2, KeyRecordFacts DEF OnTheirWay, MayBe
<1> QED  BY <1>1, <1>3 DEF KeypadInv, AllHeard, Rested

LEMMA OnTheirWayGoesOn ==
  ASSUME KeypadAssumption, KeypadInv, KeypadScan
  PROVE  OnTheirWay'
<1> SUFFICES ASSUME NEW i \in 1..ListMax, key'[i].kcode \in Fitted
             PROVE  key'[i].kstate \in MayBe(still', key'[i].kcode \in contacts)
  BY ScanFacts DEF KeypadInv, OnTheirWay
<1>1. /\ still \in 0..4 /\ still' = (IF still < 4 THEN still + 1 ELSE still) /\ Advances(i)
      /\ contacts \subseteq Fitted /\ key[i] \in KeyRecords
  BY ScanFacts DEF KeypadInv, Rested, ProperList
<1>2. still' \in 1..4
  BY <1>1
<1>3. CASE \E c \in contacts : key'[i] = NewKey(c)
  <2>1. key'[i].kcode \in contacts /\ key'[i].kstate = "PRESSED"
    BY <1>3 DEF NewKey
  <2> QED  BY <1>2, <2>1 DEF MayBe
<1>4. CASE /\ key[i].kstate # "IDLE" /\ key[i].kcode \in Fitted
           /\ \E a \in Ages : key'[i] = nextKeyState(key[i], key[i].kcode \in contacts, a)
  <2> DEFINE closed == key[i].kcode \in contacts
  <2>1. PICK a \in Ages : key'[i] = nextKeyState(key[i], closed, a)
    BY <1>4
  <2>2. closed \in BOOLEAN
    OBVIOUS
  <2>3. key[i].kstate \in MayBe(still, closed)
    BY <1>4 DEF KeypadInv, OnTheirWay
  <2>4. key'[i].kcode = key[i].kcode
    <3>1. nextKeyState(key[i], closed, a).kcode = key[i].kcode
      BY <1>1, CodeStays
    <3> HIDE DEF closed
    <3> QED  BY <2>1, <3>1
  <2>5. /\ key[i].kstate = "PRESSED" =>
              key'[i].kstate = "HOLD" \/ key'[i].kstate = IF closed THEN "PRESSED" ELSE "RELEASED"
        /\ key[i].kstate = "HOLD" => key'[i].kstate = IF closed THEN "HOLD" ELSE "RELEASED"
        /\ key[i].kstate = "RELEASED" => key'[i].kstate = "IDLE"
    <3> HIDE DEF closed
    <3>1. Goes(key[i], closed, key'[i])
      BY <1>1, <2>1, <2>2, NextStates
    <3> QED  BY <2>2, <3>1 DEF Goes
  <2>6. key[i].kstate \in {"PRESSED", "HOLD", "RELEASED"}
    BY <1>1, <1>4, KeyRecordFacts DEF KeyStates
  <2>7. key'[i].kstate \in MayBe(still', closed)
    <3> HIDE DEF closed
    <3>1. CASE closed
      BY <1>1, <2>3, <2>5, <2>6, <3>1 DEF MayBe
    <3>2. CASE ~closed
      BY <1>1, <2>3, <2>5, <2>6, <3>2 DEF MayBe
    <3> QED  BY <3>1, <3>2
  <2> QED  BY <2>4, <2>7
<1>5. key'[i] # NoKey
  BY KeyRecordFacts
<1> QED  BY <1>1, <1>3, <1>4, <1>5 DEF Advances

(* A list without free places and without a key that is up has all keys    *)
(* that are down, unless these are too many.                               *)
LEMMA FullList ==
  ASSUME KeypadAssumption, NEW closed, closed \subseteq Fitted, NEW l, ProperList(l), Slots(l, -1) = {},
         \A i \in 1..ListMax : l[i].kcode \in Fitted => l[i].kcode \in closed,
         Cardinality(closed) <= ListMax, NEW c \in closed
  PROVE  Slots(l, c) # {}
<1> SUFFICES ASSUME Slots(l, c) = {}  PROVE FALSE
  OBVIOUS
<1> DEFINE place == [i \in 1..ListMax |-> l[i].kcode]
<1>1. \A i \in 1..ListMax : l[i].kcode \in Fitted /\ l[i].kcode # c
  BY KeyRecordFacts DEF Slots, ProperList
<1>2. place \in [1..ListMax -> closed \ {c}]
  BY <1>1
<1>3. IsFiniteSet(closed) /\ Cardinality(closed) \in Nat
  <2>1. IsFiniteSet(0..(MapSize - 1))
    BY KeyRecordFacts, FS_Interval
  <2>2. IsFiniteSet(closed)
    BY <2>1, KeyRecordFacts, FS_Subset
  <2> QED  BY <2>2, FS_CardinalityType
<1>4. IsFiniteSet(closed \ {c}) /\ Cardinality(closed \ {c}) = Cardinality(closed) - 1
  BY <1>3, FS_RemoveElement
<1>5. IsFiniteSet(1..ListMax) /\ Cardinality(1..ListMax) = ListMax
  BY KeyRecordFacts, FS_Interval
<1>6. Cardinality(closed \ {c}) < Cardinality(1..ListMax)
  BY <1>3, <1>4, <1>5, KeyRecordFacts
<1>7. \E i, j \in 1..ListMax : i # j /\ place[i] = place[j]
  <2> HIDE DEF place
  <2> QED  BY <1>2, <1>4, <1>5, <1>6, FS_PigeonHole
<1>8. PICK i, j \in 1..ListMax : i # j /\ l[i].kcode = l[j].kcode
  BY <1>7
<1>9. l[i].kcode = -1
  BY <1>8 DEF ProperList
<1> QED  BY <1>1, <1>9, KeyRecordFacts

LEMMA ScanKeeps ==
  ASSUME KeypadAssumption, KeypadInv, KeypadScan
  PROVE  KeypadInv'
<1>1. /\ contacts' \subseteq Fitted /\ ProperList(key') /\ holdAge' \in Ages /\ contacts' = contacts
      /\ \A c \in contacts : Slots(key', c) # {} \/ Slots(key', -1) = {}
  BY ScanFacts DEF KeypadInv
<1>2. still' \in 0..Rested
  BY ScanFacts DEF KeypadInv, Rested
<1>3. OnTheirWay'
  BY OnTheirWayGoesOn
<1>4. AllHeard'
  <2> SUFFICES ASSUME still' = Rested, Cardinality(contacts') <= ListMax, NEW c \in contacts'
               PROVE  Slots(key', c) # {}
    BY DEF AllHeard, Slots
  <2>1. \A i \in 1..ListMax : key'[i].kcode \in Fitted => key'[i].kcode \in contacts'
    BY <1>3 DEF OnTheirWay, MayBe, Rested
  <2> QED  BY <1>1, <2>1, FullList
<1> QED  BY <1>1, <1>2, <1>3, <1>4 DEF KeypadInv

LEMMA KeypadStepKeeps ==
  ASSUME KeypadAssumption, KeypadInv, [KeypadNext]_keypadVars
  PROVE  KeypadInv'
<1>1. CASE KeypadScan
  BY <1>1, ScanKeeps
<1>2. CASE KeypadRestart
  <2>1. /\ contacts' = contacts /\ holdAge' \in Ages /\ contacts \subseteq Fitted
        /\ key' = [i \in 1..ListMax |-> NoKey] /\ still' = 0
    BY <1>2, KeyRecordFacts DEF KeypadRestart, KeypadInv, Ages
  <2> QED  BY <2>1, EmptyListNext DEF KeypadInv
<1>3. CASE \E k \in Fitted : Press(k) \/ LetGo(k)
  BY <1>3, FingersKeep
<1>4. CASE UNCHANGED keypadVars
  BY <1>4 DEF keypadVars, KeypadInv, OnTheirWay, AllHeard, Slots
<1> QED  BY <1>1, <1>2, <1>3, <1>4 DEF KeypadNext

LEMMA KeypadBegins ==
  ASSUME KeypadAssumption, KeypadInit
  PROVE  KeypadInv
<1>1. /\ contacts \subseteq Fitted /\ holdAge \in Ages
      /\ key = [i \in 1..ListMax |-> NoKey] /\ still = 0
  BY KeyRecordFacts DEF KeypadInit, Ages
<1> QED  BY <1>1, EmptyList DEF KeypadInv

LEMMA KeypadInvSuffices ==
  ASSUME KeypadAssumption, KeypadInv
  PROVE  KeypadTypeOK /\ ListCatchesUp
<1>1. KeypadTypeOK
  BY DEF KeypadInv, KeypadTypeOK, ProperList, KeyRecords, Ages
<1>2. ASSUME still = Rested, NEW k \in Fitted, DownOnList(k)  PROVE k \in contacts
  <2>1. PICK i \in 1..ListMax : key[i].kcode = k
    BY <1>2 DEF DownOnList, Slots
  <2> QED  BY <1>2, <2>1 DEF KeypadInv, OnTheirWay, MayBe, Rested
<1>3. ASSUME still = Rested, Cardinality(contacts) <= ListMax, NEW k \in contacts  PROVE DownOnList(k)
  <2>1. PICK i \in Slots(key, k) : TRUE
    BY <1>3 DEF KeypadInv, AllHeard
  <2>2. i \in 1..ListMax /\ key[i].kcode = k /\ k \in Fitted
    BY <1>3, <2>1 DEF Slots, KeypadInv
  <2>3. key[i].kstate \in {"PRESSED", "HOLD"}
    BY <1>3, <2>2 DEF KeypadInv, OnTheirWay, MayBe, Rested
  <2> QED  BY <2>1, <2>3 DEF DownOnList
<1> QED  BY <1>1, <1>2, <1>3 DEF ListCatchesUp

-------------------------------------------------------------------------------
(* The gestures. *)
KeyPhase == [k \in Fitted |-> IF DownOnList(k) THEN "down" ELSE "up"]

(* A key has one place on the list, if any.                                *)
LEMMA OnePlace ==
  ASSUME KeypadAssumption, NEW l, ProperList(l), NEW i \in 1..ListMax, NEW k \in Fitted, l[i].kcode = k
  PROVE  /\ \A j \in 1..ListMax : l[j].kcode = k => j = i
         /\ l[i].kstate \notin {"PRESSED", "RELEASED"} \/ l[i].stateChanged = FALSE => Heard(l, k) = << >>
         /\ l[i].kstate = "PRESSED" /\ l[i].stateChanged = TRUE => Heard(l, k) = <<"Press">>
         /\ l[i].kstate = "RELEASED" /\ l[i].stateChanged = TRUE => Heard(l, k) = <<"Release">>
<1>1. \A j \in 1..ListMax : l[j].kcode = k => j = i
  BY KeyRecordFacts DEF ProperList
<1> DEFINE changed(state) == \E j \in 1..ListMax : l[j].kcode = k /\ l[j].stateChanged /\ l[j].kstate = state
<1>2. \A state : changed(state) <=> l[i].stateChanged /\ l[i].kstate = state
  BY <1>1
<1>3. Heard(l, k) = IF changed("PRESSED") THEN <<"Press">> ELSE IF changed("RELEASED") THEN <<"Release">> ELSE << >>
  BY DEF Heard
<1> HIDE DEF changed
<1>4. l[i].stateChanged \in BOOLEAN
  BY DEF ProperList, KeyRecords
<1> QED  BY <1>1, <1>2, <1>3, <1>4

LEMMA NotOnList ==
  ASSUME NEW l, NEW k, Slots(l, k) = {}
  PROVE  Heard(l, k) = << >>
BY DEF Heard, Slots

LEMMA ScanIsPlainGestures ==
  ASSUME KeypadAssumption, KeypadInv, KeypadScan
  PROVE  Plain!Step
<1>1. /\ ProperList(key) /\ ProperList(key') /\ contacts \subseteq Fitted
      /\ told' = [k \in Fitted |-> Heard(key', k)] /\ \A i \in 1..ListMax : Advances(i)
  BY ScanFacts DEF KeypadInv
<1>2. \A i \in 1..ListMax : key[i] \in KeyRecords /\ key'[i] \in KeyRecords
  BY <1>1 DEF ProperList
<1>3. ASSUME NEW k \in Fitted
      PROVE  \/ Heard(key', k) = << >> /\ (DownOnList(k)' <=> DownOnList(k))
             \/ Heard(key', k) = <<"Press">> /\ ~DownOnList(k) /\ DownOnList(k)'
             \/ Heard(key', k) = <<"Release">> /\ DownOnList(k) /\ ~DownOnList(k)'
  <2>1. CASE \E i \in 1..ListMax : key[i].kcode = k /\ key[i].kstate # "IDLE"
    <3>1. PICK i \in 1..ListMax : key[i].kcode = k /\ key[i].kstate # "IDLE"
      BY <2>1
    <3> DEFINE closed == k \in contacts
    <3>2. PICK a \in Ages : key'[i] = nextKeyState(key[i], closed, a)
      <4>1. WithoutIdle(key)[i] # NoKey
        <5>1. NoKey.kcode # k
          BY KeyRecordFacts
        <5> QED  BY <1>1, <3>1, <5>1, WithoutIdleFacts
      <4> QED  BY <1>1, <3>1, <4>1 DEF Advances
    <3>3. closed \in BOOLEAN
      OBVIOUS
    <3> HIDE DEF closed
    <3>4. /\ key'[i].kcode = k
          /\ key[i].kstate = "PRESSED" => \/ key'[i].kstate = "PRESSED" /\ key'[i].stateChanged = FALSE
                                          \/ key'[i].kstate = "HOLD"
                                          \/ key'[i].kstate = "RELEASED" /\ key'[i].stateChanged = TRUE
          /\ key[i].kstate = "HOLD" => \/ key'[i].kstate = "HOLD"
                                       \/ key'[i].kstate = "RELEASED" /\ key'[i].stateChanged = TRUE
          /\ key[i].kstate = "RELEASED" => key'[i].kstate = "IDLE"
      <4>1. key'[i].kcode = k
        BY <1>2, <3>1, <3>2, <3>3, NextStates
      <4>2. Goes(key[i], closed, key'[i])
        BY <1>2, <3>2, <3>3, NextStates
      <4> QED  BY <4>1, <4>2 DEF Goes
    <3>5. /\ DownOnList(k) <=> key[i].kstate \in {"PRESSED", "HOLD"}
          /\ DownOnList(k)' <=> key'[i].kstate \in {"PRESSED", "HOLD"}
      <4>1. \A j \in 1..ListMax : key[j].kcode = k <=> j = i
        BY <1>1, <3>1, OnePlace
      <4>2. \A j \in 1..ListMax : key'[j].kcode = k <=> j = i
        BY <1>1, <3>4, OnePlace
      <4>3. DownOnList(k) <=> key[i].kstate \in {"PRESSED", "HOLD"}
        BY <4>1 DEF DownOnList, Slots
      <4>4. DownOnList(k)' <=> key'[i].kstate \in {"PRESSED", "HOLD"}
        BY <4>2 DEF DownOnList, Slots
      <4> QED  BY <4>3, <4>4
    <3>6. key[i].kstate \in {"PRESSED", "HOLD", "RELEASED"}
      BY <1>2, <3>1, KeyRecordFacts DEF KeyStates
    <3>7. /\ key'[i].kstate \notin {"PRESSED", "RELEASED"} \/ key'[i].stateChanged = FALSE => Heard(key', k) = << >>
          /\ key'[i].kstate = "RELEASED" /\ key'[i].stateChanged = TRUE => Heard(key', k) = <<"Release">>
      BY <1>1, <3>4, OnePlace
    <3> QED  BY <3>4, <3>5, <3>6, <3>7
  <2>2. CASE \A i \in 1..ListMax : key[i].kcode = k => key[i].kstate = "IDLE"
    <3>1. ~DownOnList(k)
      BY <2>2 DEF DownOnList, Slots
    <3>2. \A i \in 1..ListMax : key'[i].kcode = k => key'[i] = NewKey(k)
      <4> SUFFICES ASSUME NEW i \in 1..ListMax, key'[i].kcode = k  PROVE key'[i] = NewKey(k)
        OBVIOUS
      <4>1. key'[i] # NoKey
        BY KeyRecordFacts
      <4>2. CASE \E c \in contacts : key'[i] = NewKey(c)
        <5>1. PICK c \in contacts : key'[i] = NewKey(c)
          BY <4>2
        <5>2. c = k
          BY <1>1, <5>1, KeyRecordFacts
        <5> QED  BY <5>1, <5>2
      <4>3. CASE /\ key[i].kstate # "IDLE"
                 /\ \E a \in Ages : key'[i] = nextKeyState(key[i], key[i].kcode \in contacts, a)
        <5>1. PICK a \in Ages : key'[i] = nextKeyState(key[i], key[i].kcode \in contacts, a)
          BY <4>3
        <5>2. key'[i].kcode = key[i].kcode
          BY <1>2, <5>1, CodeStays
        <5> QED  BY <2>2, <4>3, <5>2
      <4> QED  BY <1>1, <4>1, <4>2, <4>3 DEF Advances
    <3>3. CASE \E i \in 1..ListMax : key'[i].kcode = k
      <4>1. PICK i \in 1..ListMax : key'[i].kcode = k
        BY <3>3
      <4>2. key'[i].kstate = "PRESSED" /\ key'[i].stateChanged = TRUE
        BY <3>2, <4>1 DEF NewKey
      <4>3. Heard(key', k) = <<"Press">>
        BY <1>1, <4>1, <4>2, OnePlace
      <4>4. DownOnList(k)'
        BY <4>1, <4>2 DEF DownOnList, Slots
      <4> QED  BY <3>1, <4>3, <4>4
    <3>4. CASE \A i \in 1..ListMax : key'[i].kcode # k
      <4>1. Heard(key', k) = << >>
        BY <3>4, NotOnList DEF Slots
      <4>2. ~DownOnList(k)'
        BY <3>4 DEF DownOnList, Slots
      <4> QED  BY <3>1, <4>1, <4>2
    <3> QED  BY <3>3, <3>4
  <2> QED  BY <2>1, <2>2
<1>4. \A k \in Fitted : Plain!Gesture(KeyPhase[k], KeyPhase'[k], told'[k])
  <2> SUFFICES ASSUME NEW k \in Fitted  PROVE Plain!Gesture(KeyPhase[k], KeyPhase'[k], told'[k])
    OBVIOUS
  <2>1. /\ KeyPhase[k] = (IF DownOnList(k) THEN "down" ELSE "up")
        /\ KeyPhase'[k] = (IF DownOnList(k)' THEN "down" ELSE "up")
        /\ told'[k] = Heard(key', k)
    BY <1>1 DEF KeyPhase
  <2>2. CASE Heard(key', k) = << >> /\ (DownOnList(k)' <=> DownOnList(k))
    BY <2>1, <2>2, Zenon DEF Plain!Gesture
  <2>3. CASE Heard(key', k) = <<"Press">> /\ ~DownOnList(k) /\ DownOnList(k)'
    BY <2>1, <2>3, Zenon DEF Plain!Gesture
  <2>4. CASE Heard(key', k) = <<"Release">> /\ DownOnList(k) /\ ~DownOnList(k)'
    <3>1. KeyPhase[k] = "down" /\ KeyPhase'[k] = "up" /\ told'[k] = <<"Release">>
      BY <2>1, <2>4, Zenon
    <3>2. KeyPhase[k] # "up"
      BY <3>1
    <3> QED  BY <3>1, <3>2, Zenon DEF Plain!Gesture
  <2> QED  BY <1>3, <2>2, <2>3, <2>4
<1>5. KeyPhase' \in [Fitted -> Plain!Phases]
  BY DEF KeyPhase, Plain!Phases
<1>6. told' \in [Fitted -> Plain!Outputs]
  <2>1. \A k \in Fitted : Heard(key', k) \in Plain!Outputs
    BY <1>3, Zenon DEF Plain!Outputs
  <2> QED  BY <1>1, <2>1
<1> QED  BY <1>4, <1>5, <1>6 DEF Plain!Step, KeyPhase

(* For any matrix, length of the list and delays: once the keys have       *)
(* rested, the list has those that are down, if they fit, and no other;    *)
(* and what is heard of each key is KeyGestures, a Press and a Release in  *)
(* turn (Keypad.cpp 60-152, HardwareRev1.cpp 63-84).                       *)
THEOREM KeypadFollowsKeys == KeypadSpec => KeypadFollows
<1>1. KeypadSpec => []KeypadInv
  BY KeypadAssumption, KeypadBegins, KeypadStepKeeps, PTL DEF KeypadSpec
<1>2. KeypadInv => KeypadTypeOK /\ ListCatchesUp
  BY KeypadAssumption, KeypadInvSuffices
<1>3. KeypadInit => Plain!Init
  <2> SUFFICES ASSUME KeypadInit  PROVE Plain!Init
    OBVIOUS
  <2>1. \A k \in Fitted : ~DownOnList(k)
    BY KeypadAssumption, KeyRecordFacts DEF KeypadInit, DownOnList, Slots
  <2> QED  BY <2>1 DEF KeypadInit, Silent, Plain!Init
<1>4. KeypadInv /\ [KeypadNext]_keypadVars => [Plain!Next]_(Plain!gvars)
  <2> SUFFICES ASSUME KeypadInv, [KeypadNext]_keypadVars  PROVE [Plain!Next]_(Plain!gvars)
    OBVIOUS
  <2>1. CASE KeypadScan
    BY <2>1, KeypadAssumption, ScanIsPlainGestures DEF Plain!Next
  <2>2. CASE KeypadRestart
    <3>1. \A k \in Fitted : ~DownOnList(k)'
      BY <2>2, KeypadAssumption, KeyRecordFacts DEF KeypadRestart, DownOnList, Slots
    <3> QED  BY <2>2, <3>1 DEF KeypadRestart, Silent, Plain!Next, Plain!Restart
  <2>3. CASE \E k \in Fitted : Press(k) \/ LetGo(k)
    BY <2>3 DEF Press, LetGo, Plain!gvars, DownOnList, Slots
  <2>4. CASE UNCHANGED keypadVars
    BY <2>4 DEF keypadVars, Plain!gvars, DownOnList, Slots
  <2> QED  BY <2>1, <2>2, <2>3, <2>4 DEF KeypadNext
<1> QED
  BY <1>1, <1>2, <1>3, <1>4, PTL DEF KeypadSpec, KeypadFollows, KeypadMeetsGestures, Plain!Spec
===============================================================================
