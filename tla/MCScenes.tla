------------------------------- MODULE MCScenes -------------------------------
(***************************************************************************)
(* Scenes for TLC: two scenes with both sequences, one without an exit     *)
(* sequence, two pages without sequences and a file that does not parse.   *)
(***************************************************************************)
EXTENDS Scenes, SequencesExt

CONSTANTS tv, bluray, cast, heating, images, broken,
          tvOn, tvOff, brOn, brOff, ampOff, castOn, volUp, heatUp

(* Every scene with sequences has an entry sequence, as the shipped data.  *)
MCFiles     == {tv, bluray, cast, heating, images, broken}
MCReadable  == MCFiles \ {broken}
MCSequenced == {tv, bluray, cast}
MCCommands  == {tvOn, tvOff, brOn, brOff, ampOff, castOn, volUp, heatUp}
MCStart == [f \in MCFiles |-> CASE f = tv -> <<tvOn>>
                                [] f = bluray -> <<brOn, tvOn>>
                                [] f = cast -> <<castOn, tvOn>>
                                [] OTHER -> << >>]
MCExit  == [f \in MCFiles |-> CASE f = tv -> <<tvOff, ampOff>>
                                [] f = bluray -> <<brOff, ampOff>>
                                [] OTHER -> << >>]

MCKeys == {"Power", "TV", "VolUp"}
MCSceneKey == [ev \in KeyEvents |->
  IF ev.key = "TV" /\ ev.type = "Press" THEN tv
  ELSE IF ev.key = "TV" /\ ev.type = "Long" THEN heating
  ELSE NoFile]

(* Volume is on the amplifier's tab and overrides the other one.           *)
Page(key, type, c) ==
  [ev \in KeyEvents |-> IF ev.key = key /\ ev.type = type THEN c ELSE NoCommand]
MCPageMap == [f \in Files |->
  IF f = heating
  THEN <<Page("VolUp", "Press", heatUp), Page("VolUp", "Long", heatUp)>>
  ELSE <<Page("VolUp", "Press", heatUp), Page("VolUp", "Press", volUp)>>]
MCOverrideKeys == [f \in Files |-> <<{}, IF f = heating THEN {} ELSE {"VolUp"}>>]

-------------------------------------------------------------------------------
(* Wiki/Scenes.md:41 "If selected when a different scene is still active   *)
(* the exit sequence for the old scene will be sent".                      *)
OldSceneIsExited ==
  [][\A f, g \in Files :
       f \in Sequenced /\ lastScene' = f /\ lastScene # f /\ active = g /\ f # g
       => IsPrefix(ExitCommands[g], sent')]_vars
=============================================================================
