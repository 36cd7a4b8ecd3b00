---------------------------- MODULE SceneContract ----------------------------
(***************************************************************************)
(* What the scene screen promises its user (Wiki/Scenes.md, "Scene         *)
(* Entry/Exit"): at most one scene is active; entering a scene with        *)
(* sequences sends the exit sequence of the scene it replaces and then its *)
(* own entry sequence, unless it is the active scene; cancelling sends the *)
(* exit sequence; pages without sequences and the home screen send nothing *)
(* and leave the active scene as it is.  All of this from power-on to the  *)
(* first deep sleep; what one leaves of the promise is not much.           *)
(***************************************************************************)
EXTENDS Sequences

CONSTANTS
  Files,          (* scene definition files                                *)
  Sequenced,      (* the files that define an entry or an exit sequence    *)
  StartCommands,  (* the entry sequence of each file                       *)
  ExitCommands,   (* the exit sequence of each file                        *)
  Commands,       (* what a key can send                                   *)
  NoFile          (* no scene                                              *)

VARIABLES
  active,         (* the active scene                                      *)
  sent,           (* the commands the last step sent, in order             *)
  slept           (* there was a deep sleep since power-on                 *)

cvars == <<active, sent, slept>>

ExitSequence(f) == IF f = NoFile THEN << >> ELSE ExitCommands[f]

Init == active = NoFile /\ sent = << >> /\ slept = FALSE

(* A scene with sequences is selected.                                     *)
Enter(f) ==
  /\ sent' = IF f = active THEN << >>
             ELSE ExitSequence(active) \o StartCommands[f]
  /\ active' = f
  /\ UNCHANGED slept

(* A page without sequences, the home screen, a key nobody handles.        *)
Browse == sent' = << >> /\ UNCHANGED <<active, slept>>

(* A key handled by the page or by an override.                            *)
Send(c) == sent' = <<c>> /\ UNCHANGED <<active, slept>>

Cancel ==
  /\ sent' = ExitSequence(active)
  /\ active' = NoFile
  /\ UNCHANGED slept

PowerLoss == active' = NoFile /\ sent' = << >> /\ slept' = FALSE

(* Nothing is promised any more.                                           *)
AfterDeepSleep == slept' = TRUE

Next ==
  \/ \E f \in Sequenced : Enter(f)
  \/ Browse
  \/ \E c \in Commands : Send(c)
  \/ Cancel
  \/ PowerLoss
  \/ AfterDeepSleep

Spec == Init /\ [][Next]_cvars
=============================================================================
