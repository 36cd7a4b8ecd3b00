---------------------------- MODULE BatteryGauge ----------------------------
(***************************************************************************)
(* What is read from the battery: the percentage, directly or by a learned *)
(* curve (BatteryRevX.cpp, BatteryRev5.cpp), and the symbol and the text   *)
(* that the bar at the top makes of it every 100 ms (StatusBar.cpp).       *)
(***************************************************************************)
EXTENDS Integers, Sequences

CONSTANTS MaxRaw,       \* of the register of the gauge
          CurveLengths, \* of the curves that are loaded
          Red           \* RED_SOC_THRESH
ASSUME GaugeAssumption ==
  MaxRaw \in Nat /\ CurveLengths \subseteq Nat \ {0, 1} /\ Red \in Nat

VARIABLES mCalValues,   \* a curve, or none
          rawSoc, directSOC,
          plugged,      \* "none", "charger" or "usb"
          battLabel,    \* mTopBarBatteryLabel: the symbol, and whether it is red
          genLabel,     \* mTopBarGeneralLabel: what it shows, and whether it is red
          readings      \* history: what the labels were made of
gaugeVars == <<mCalValues, rawSoc, directSOC, plugged, battLabel, genLabel, readings>>

LoadedCurves == UNION {[1..n -> 0..MaxRaw] : n \in CurveLengths}

-----------------------------------------------------------------------------
Rises(cal, raw, i) == i \in 1..(Len(cal) - 1) /\ raw < cal[i + 1]
Segment(cal, raw) == CHOOSE i \in 1..(Len(cal) - 1) :
  Rises(cal, raw, i) /\ \A j \in 1..(i - 1) : ~Rises(cal, raw, j)

\* Seeded fault: the way to the end of the segment is taken for that from its start
InterpolatedBack(cal, raw, i) ==
  (100 * ((i - 1) * (cal[i + 1] - cal[i]) + (cal[i + 1] - raw))) \div
    ((Len(cal) - 1) * (cal[i + 1] - cal[i]))

\* In parts of a hundred, cut off; the rounding of floats is left out
Interpolated(cal, raw, i) ==
  (100 * ((i - 1) * (cal[i + 1] - cal[i]) + (raw - cal[i]))) \div
    ((Len(cal) - 1) * (cal[i + 1] - cal[i]))

getDirectSOC(soc) == IF soc > 100 THEN 100 ELSE soc

getPercentage(cal, raw, direct) ==
  IF cal = << >> THEN getDirectSOC(direct)
  ELSE IF raw <= cal[1] THEN 0
  ELSE IF raw >= cal[Len(cal)] THEN 100
  ELSE Interpolated(cal, raw, Segment(cal, raw))

-----------------------------------------------------------------------------
GaugeInit ==
  /\ mCalValues \in LoadedCurves \cup {<< >>} /\ rawSoc \in 0..MaxRaw /\ directSOC = 50
  /\ plugged = "none" /\ battLabel = [symbol |-> "full", red |-> FALSE]
  /\ genLabel = [shows |-> "percent", of |-> 0, red |-> FALSE]
  /\ readings = [plugged |-> "none", percent |-> 100]

Drifts ==             \* the battery is used or charged
  /\ rawSoc' \in 0..MaxRaw
  /\ directSOC' \in IF mCalValues = << >> THEN {0, Red, 50, 99, 101} ELSE {directSOC}
  /\ UNCHANGED <<mCalValues, plugged, battLabel, genLabel, readings>>

Plugs ==
  /\ plugged' \in {"none", "charger", "usb"} \ {plugged}
  /\ UNCHANGED <<mCalValues, rawSoc, directSOC, battLabel, genLabel, readings>>

Bucket(percent) == CASE percent < 13 -> "empty" [] percent < 38 -> "1" [] percent < 63 -> "2"
                     [] percent < 88 -> "3" [] OTHER -> "full"

Label(percent) ==
  IF plugged = "charger" THEN [battLabel EXCEPT !.symbol = "charge"]
  ELSE IF plugged = "usb" THEN [battLabel EXCEPT !.symbol = "usb"]
  ELSE IF percent < Red THEN [battLabel EXCEPT !.red = TRUE]
  ELSE [symbol |-> Bucket(percent), red |-> FALSE]

StatusBarOnTimer ==
  \E percent \in {getPercentage(mCalValues, rawSoc, directSOC)} :
    /\ battLabel' = Label(percent)
    /\ \/ genLabel' = [shows |-> "time", of |-> 0, red |-> FALSE]      \* as the clock is set up
       \/ genLabel' = [shows |-> "percent", of |-> percent, red |-> percent < Red]
    /\ readings' = [plugged |-> plugged, percent |-> percent]
    /\ UNCHANGED <<mCalValues, rawSoc, directSOC, plugged>>

GaugeNext == Drifts \/ Plugs \/ StatusBarOnTimer
GaugeSpec == GaugeInit /\ [][GaugeNext]_gaugeVars

-----------------------------------------------------------------------------
\* Whatever the curve, one that falls in places too, a percentage is shown (10-44).
PercentageInRange ==
  \A direct \in 0..200 : getPercentage(mCalValues, rawSoc, direct) \in 0..100

\* A fuller battery never shows less, whatever curve is loaded (29-36).
PercentageMonotone ==
  mCalValues # << >> =>
    \A raw \in 0..rawSoc :
      getPercentage(mCalValues, raw, 0) <= getPercentage(mCalValues, rawSoc, 0)

\* Once it is unplugged no symbol of a charger or of USB stays, unless the battery is
\* so low that only the colour is changed (78-90).
NoStalePlug ==
  readings.plugged = "none" /\ battLabel.symbol \in {"charge", "usb"} => readings.percent < Red

\* What the bar shows is true of the battery: a percentage that grows with its charge,
\* and no sign of a charger that is gone.
GaugeTruthful == PercentageInRange /\ PercentageMonotone /\ NoStalePlug
=============================================================================
