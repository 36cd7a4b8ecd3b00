------------------------------ MODULE MCHardware ------------------------------
(***************************************************************************)
(* What the remote is made of, for TLC: the keyboards of both revisions,   *)
(* the light of the screen (which the keypad's follows), the tests that    *)
(* learn the battery, and what is read from it.  They share no variable,   *)
(* and each is looked at for itself while the others rest; "part" says     *)
(* which.  A unit of time of KeyboardRev5 is 200 ms or so, and a scan may  *)
(* be late enough to jump over both thresholds at once; the Keypad has     *)
(* three keys and a list of two.                                           *)
(***************************************************************************)
EXTENDS KeyboardRev5, Keypad, Backlight, LearnBattery, BatteryGauge

VARIABLE part

MCLcd == {"lcd"}

all == <<vars, keypadVars, bvars, calVars, gaugeVars, part>>

Rev5(X)  == part = "rev5" /\ X /\ UNCHANGED <<keypadVars, bvars, calVars, gaugeVars, part>>
Rev1(X)  == part = "rev1" /\ X /\ UNCHANGED <<vars, bvars, calVars, gaugeVars, part>>
Light(X) == part = "light" /\ X /\ UNCHANGED <<vars, keypadVars, calVars, gaugeVars, part>>
Testing(X) == part = "test" /\ X /\ UNCHANGED <<vars, keypadVars, bvars, gaugeVars, part>>
Gauge(X) == part = "gauge" /\ X /\ UNCHANGED <<vars, keypadVars, bvars, calVars, part>>

\* A screen that is on
LightRests ==
  /\ isAsleep = FALSE /\ isDay = TRUE /\ sensorDay = TRUE /\ firstData = FALSE
  /\ day = [c \in Lights |-> 1] /\ night = day /\ level = day
  /\ fade = [c \in Lights |-> NoFade]

MCInit ==
  /\ Init /\ KeypadInit /\ CalInit /\ GaugeInit
  /\ part \in {"rev5", "rev1", "light", "test", "gauge"}
  /\ IF part = "light" THEN LightInit ELSE LightRests
  /\ part # "gauge" => mCalValues = << >> /\ rawSoc = 0
  /\ part # "test" => userTimeout = CHOOSE t \in UserTimeouts : TRUE

MCNext ==
  \/ Rev5(Next) \/ Rev1(KeypadNext)
  \/ Light(LightNext) \/ Testing(CalNext) \/ Gauge(GaugeNext)

MCSpec ==
  /\ MCInit /\ [][MCNext]_all
  /\ WF_all(Rev5(\E dt \in 0..MaxDelay : Scan(dt)))
  /\ \A c \in Lights : WF_all(Light(FadeTask(c)))
  /\ WF_all(Light(SteadyLight))
  /\ WF_all(Testing(onTimer)) /\ WF_all(Testing(SleepEnds))

TestsSpec == MCSpec /\ part = "test"
=============================================================================
