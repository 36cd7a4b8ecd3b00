-------------------------------- MODULE Scenes --------------------------------
(***************************************************************************)
(* The home screen of the JSON user interface: scenes, their entry and     *)
(* exit sequences, the key dispatch, and what survives a deep sleep        *)
(* (lib/JsonConfigUI/screen/JsonHomeScreen.cpp, lib/LVGL++/page/TabView).  *)
(*                                                                         *)
(* Everything runs on the main loop, so each callback is one action; what  *)
(* makes it hard is the history: four variables remember pieces of "the    *)
(* scene we are in", pages without sequences come and go on top of it, and *)
(* a deep sleep wipes the RAM but keeps RtcLastState.                      *)
(*                                                                         *)
(* Definitions introduced by "Mutant" are plausible mistakes in the one    *)
(* that follows them; no action uses them.  They show that the properties  *)
(* can fail.                                                               *)
(***************************************************************************)
EXTENDS Naturals, Sequences

CONSTANTS
  Files,          (* scene files named by Scenes.json                      *)
  Readable,       (* those that parse (GetDocument)                        *)
  Sequenced,      (* those with a Start- or ExitCommandSequence array      *)
  StartCommands,  (* per file, the entry commands that getCommand resolves *)
  ExitCommands,   (* per file, the exit commands that getCommand resolves  *)
  Commands,       (* commands                                              *)
  Keys,           (* physical keys; "Power" is one of them                 *)
  SceneKey,       (* the file a key event selects (BindToKey), or NoFile   *)
  PageMap,        (* per file and tab, the command of each key event       *)
  OverrideKeys,   (* per file and tab, the keys it overrides               *)
  NoFile,         (* the empty file name                                   *)
  NoCommand       (* no handler                                            *)

PressTypes == {"Press", "Short", "Long", "Repeat", "Release"}
KeyEvents  == [key : Keys, type : PressTypes]
TabsOf(f)  == 1..Len(PageMap[f])

ASSUME SceneAssumption ==
  /\ NoFile \notin Files
  /\ NoCommand \notin Commands
  /\ Readable \subseteq Files
  /\ Sequenced \subseteq Readable
  /\ StartCommands \in [Files -> Seq(Commands)]
  /\ ExitCommands \in [Files -> Seq(Commands)]
  /\ \A f \in Files \ Sequenced : StartCommands[f] = << >> /\ ExitCommands[f] = << >>
  /\ SceneKey \in [KeyEvents -> Files \cup {NoFile}]
  /\ PageMap \in [Files -> Seq([KeyEvents -> Commands \cup {NoCommand}])]
  /\ OverrideKeys \in [Files -> Seq(SUBSET Keys)]
  /\ \A f \in Files : Len(PageMap[f]) = Len(OverrideKeys[f])

VARIABLES
  lastScene,      (* mLastScene: the file in mTabView                      *)
  lastStartSeq,   (* mLastStartSeq: whose entry sequence was sent last     *)
  savedExitSeq,   (* mSavedExitSeq: whose exit sequence is loaded          *)
  exitCommands,   (* mExitCommands: that sequence                          *)
  tabShown,       (* mTabView is visible and mList hidden                  *)
  tab,            (* mTabView->GetCurrentTabIdx() + 1                      *)
  inScene,        (* HardwareAbstract::mInScene                            *)
  rtc,            (* RtcLastState                                          *)
  sent,           (* what the last step handed to Commands::sendCommand    *)
  active,         (* history: the scene the manual calls active, the last  *)
                  (* one with sequences that was selected, not cancelled   *)
  slept           (* history: there was a deep sleep since power-on        *)

memory  == <<lastScene, lastStartSeq, savedExitSeq, exitCommands>>
history == <<active, slept>>
vars    == <<lastScene, lastStartSeq, savedExitSeq, exitCommands, tabShown, tab,
             inScene, rtc, sent, active, slept>>

NoRtc == [valid |-> FALSE, scene |-> NoFile, tab |-> 1]

TypeOK ==
  /\ lastScene \in Files \cup {NoFile}
  /\ lastStartSeq \in Files \cup {NoFile}
  /\ savedExitSeq \in Files \cup {NoFile}
  /\ exitCommands \in Seq(Commands)
  /\ tabShown \in BOOLEAN
  /\ tab \in Nat
  /\ inScene \in BOOLEAN
  /\ rtc \in [valid : BOOLEAN, scene : Files \cup {NoFile}, tab : Nat]
  /\ sent \in Seq(Commands)
  /\ active \in Files \cup {NoFile}
  /\ slept \in BOOLEAN

Init ==
  /\ lastScene = NoFile
  /\ lastStartSeq = NoFile
  /\ savedExitSeq = NoFile
  /\ exitCommands = << >>
  /\ tabShown = FALSE
  /\ tab = 1
  /\ inScene = FALSE
  /\ rtc = NoRtc
  /\ sent = << >>
  /\ active = NoFile
  /\ slept = FALSE

-------------------------------------------------------------------------------
(* displayScenePage(f, FALSE) and displayScenePage(f, TRUE), over given    *)
(* values of the four members: the members after it, and the commands sent *)

(* Mutants: a page without sequences leaves the scene; a scene does not.   *)
LeavesForPages(f, mExit, mSaved)  == mExit # << >> /\ mSaved # f
LeavesOnlyPages(f, mExit, mSaved) == mExit # << >> /\ mSaved # f /\ f \notin Sequenced

(* The old scene is left when the new one has sequences of its own.        *)
LeavesOld(f, mExit, mSaved) == mExit # << >> /\ mSaved # f /\ f \in Sequenced

Entered(f, mExit, mSaved, mStart, restore) ==
  LET leaves == LeavesOld(f, mExit, mSaved)
      kept   == IF leaves THEN << >> ELSE mExit
      starts == mStart # f /\ ~restore /\ StartCommands[f] # << >>
      loads  == kept = << >> /\ ExitCommands[f] # << >>
  IN [sent  |-> (IF leaves THEN mExit ELSE << >>) \o
                (IF starts THEN StartCommands[f] ELSE << >>),
      start |-> IF starts THEN f ELSE mStart,
      exit  |-> IF loads THEN ExitCommands[f] ELSE kept,
      saved |-> IF loads THEN f ELSE IF leaves THEN NoFile ELSE mSaved]

(* A file is brought up from the list or by its key.                       *)
Display(f) ==
  \/ /\ f \notin Readable                                 \* file error
     /\ sent' = << >>
     /\ UNCHANGED <<memory, tabShown, tab, inScene, rtc, history>>
  \/ /\ f \in Readable /\ lastScene = f                   \* no scene change
     /\ sent' = << >>
     /\ tabShown' = TRUE
     /\ UNCHANGED <<memory, tab, inScene, rtc, history>>
  \/ /\ f \in Readable /\ lastScene # f
     /\ LET e == Entered(f, exitCommands, savedExitSeq, lastStartSeq, FALSE)
        IN /\ sent' = e.sent
           /\ lastStartSeq' = e.start
           /\ exitCommands' = e.exit
           /\ savedExitSeq' = e.saved
     /\ lastScene' = f
     /\ tab' = 1
     /\ rtc' = [valid |-> TRUE, scene |-> f, tab |-> 1]
     /\ inScene' = TRUE
     /\ tabShown' = TRUE
     /\ active' = IF f \in Sequenced THEN f ELSE active
     /\ UNCHANGED slept

(* The list is touched; it can be while it is the visible one.             *)
SelectFromList(f) == ~tabShown /\ Display(f)

(* GoToSceneSelection: the left side of the status bar, a short power key. *)
GoToSceneSelection ==
  /\ tabShown' = FALSE
  /\ sent' = << >>
  /\ UNCHANGED <<memory, tab, inScene, rtc, history>>

(* The long power key: sendExitSequence, clearScene, and home.             *)
CancelScene ==
  /\ sent' = exitCommands
  /\ exitCommands' = << >>
  /\ savedExitSeq' = NoFile
  /\ lastScene' = NoFile
  /\ lastStartSeq' = NoFile
  /\ tab' = 1
  /\ rtc' = [rtc EXCEPT !.valid = FALSE]
  /\ inScene' = FALSE
  /\ tabShown' = FALSE
  /\ active' = NoFile
  /\ UNCHANGED slept

(* The user changes tab (LV_EVENT_VALUE_CHANGED -> OnTabChangeEvent).      *)
ChangeTab(i) ==
  /\ tabShown
  /\ i \in TabsOf(lastScene) \ {tab}
  /\ tab' = i
  /\ rtc' = [rtc EXCEPT !.tab = i]
  /\ sent' = << >>
  /\ UNCHANGED <<memory, tabShown, inScene, history>>

-------------------------------------------------------------------------------
(* Key dispatch                                                            *)

(* mOverrideKeyHandlers of scene f: the first tab that overrides the key   *)
(* and maps the event wins, and an overridden key leaves its page's map.   *)
OverrideTabs(f, ev) ==
  {i \in TabsOf(f) : ev.key \in OverrideKeys[f][i] /\ PageMap[f][i][ev] # NoCommand}

OverrideCommand(f, ev) ==
  IF f = NoFile \/ OverrideTabs(f, ev) = {} THEN NoCommand
  ELSE LET i == CHOOSE i \in OverrideTabs(f, ev) :
                  \A j \in OverrideTabs(f, ev) : i <= j
       IN PageMap[f][i][ev]

(* TabView::KeyEvent -> the page of the current tab, visible or not.       *)
PageCommand(f, i, ev) ==
  IF f = NoFile THEN NoCommand
  ELSE IF i \notin TabsOf(f) \/ ev.key \in OverrideKeys[f][i] THEN NoCommand
  ELSE PageMap[f][i][ev]

HandledCommand(ev) ==
  IF OverrideCommand(lastScene, ev) # NoCommand THEN OverrideCommand(lastScene, ev)
  ELSE PageCommand(lastScene, tab, ev)

Dispatched(ev) ==
  IF HandledCommand(ev) = NoCommand THEN << >> ELSE <<HandledCommand(ev)>>

(* OnKeyEvent: the power key, then scene keys, overrides, the page.        *)
KeyEvent(ev) ==
  LET power == ev.key = "Power" IN
  \/ power /\ ev.type = "Press" /\ sent' = << >>
     /\ UNCHANGED <<memory, tabShown, tab, inScene, rtc, history>>
  \/ power /\ ev.type = "Long" /\ CancelScene
  \/ power /\ ev.type = "Short" /\ GoToSceneSelection
  \/ /\ ~(power /\ ev.type \in {"Press", "Long", "Short"})
     /\ \/ SceneKey[ev] # NoFile /\ Display(SceneKey[ev])
        \/ /\ SceneKey[ev] = NoFile
           /\ sent' = Dispatched(ev)
           /\ UNCHANGED <<memory, tabShown, tab, inScene, rtc, history>>

-------------------------------------------------------------------------------
(* Sleep. A light sleep keeps the RAM and changes nothing here.            *)

(* Mutant: the restored scene is entered as if the user had selected it.   *)
EnteredOnWake(f) == Entered(f, << >>, NoFile, NoFile, FALSE)

Restored(f) == Entered(f, << >>, NoFile, NoFile, TRUE)

(* Deep sleep and the reboot that ends it: the constructor starts from     *)
(* empty members and restores the scene RtcLastState names.                *)
DeepSleepWake ==
  LET f == rtc.scene
      e == Restored(f)
  IN /\ slept' = TRUE
     /\ IF rtc.valid /\ f \in Readable
        THEN /\ lastScene' = f
             /\ lastStartSeq' = e.start
             /\ exitCommands' = e.exit
             /\ savedExitSeq' = e.saved
             /\ tabShown' = TRUE
             /\ tab' = rtc.tab
             /\ inScene' = TRUE
             /\ sent' = e.sent
             /\ UNCHANGED <<rtc, active>>
        ELSE /\ lastScene' = NoFile
             /\ lastStartSeq' = NoFile
             /\ savedExitSeq' = NoFile
             /\ exitCommands' = << >>
             /\ tabShown' = FALSE
             /\ tab' = 1
             /\ inScene' = FALSE
             /\ sent' = << >>
             /\ UNCHANGED <<rtc, active>>

(* The battery is removed, or the processor is reset: no signature.        *)
PowerLoss ==
  /\ lastScene' = NoFile
  /\ lastStartSeq' = NoFile
  /\ savedExitSeq' = NoFile
  /\ exitCommands' = << >>
  /\ tabShown' = FALSE
  /\ tab' = 1
  /\ inScene' = FALSE
  /\ rtc' = NoRtc
  /\ sent' = << >>
  /\ active' = NoFile
  /\ slept' = FALSE

UserStep ==
  \/ \E f \in Files : SelectFromList(f)
  \/ GoToSceneSelection
  \/ \E f \in Files : \E i \in TabsOf(f) : lastScene = f /\ ChangeTab(i)
  \/ \E ev \in KeyEvents : KeyEvent(ev)

Next == UserStep \/ PowerLoss \/ DeepSleepWake

Spec == Init /\ [][Next]_vars

-------------------------------------------------------------------------------
(* Properties                                                              *)

(* The exit commands that are loaded belong to the active scene, whatever  *)
(* pages, sleeps and file errors came in between: the remote never         *)
(* switches off the appliances of a scene that has already been left       *)
(* (JsonHomeScreen.cpp:146-149, 205-218, 300-305).                         *)
ExitBelongsToActive ==
  /\ savedExitSeq \in {NoFile, active}
  /\ exitCommands = IF savedExitSeq = NoFile THEN << >> ELSE ExitCommands[savedExitSeq]

(* What a deep sleep would restore is what is in the tab view now, page    *)
(* and tab, and a cancelled scene is not restored (128, 260, 318, 228-231) *)
RtcMatchesScreen ==
  /\ rtc.valid <=> lastScene # NoFile
  /\ rtc.valid => rtc.scene = lastScene /\ rtc.tab = tab

(* The power logic is told to use light sleep exactly while a scene page   *)
(* exists, also when it comes from a restore (226, 231, 261).              *)
LightSleepOnlyInScene == inScene <=> lastScene # NoFile

(* An entry sequence in progress is that of the active scene: the scene    *)
(* whose entry is remembered is never one that was replaced (190-203).     *)
(* It needs every scene with sequences to have an entry sequence.          *)
StartBelongsToActive == lastStartSeq \in {NoFile, active}

(* Waking from a deep sleep sends nothing and shows the same page and tab: *)
(* only a user switches appliances on (190: !restoreScene, 222-226).       *)
WakeIsSilent ==
  [][DeepSleepWake => sent' = << >> /\ lastScene' = lastScene /\ tab' = tab]_vars

(* Every scene with sequences has an entry sequence: the condition under    *)
(* which the promise below is kept.                                        *)
EntriesDefined == \A f \in Sequenced : StartCommands[f] # << >>

(* The members that remember the scene agree with each other, with the RTC *)
(* memory and with the flag for the sleep, over any history of pages,      *)
(* keys, deep sleeps and losses of power (92-110, 146-203, 226-261).       *)
MembersAgree ==
  /\ TypeOK
  /\ ExitBelongsToActive
  /\ RtcMatchesScreen
  /\ LightSleepOnlyInScene
  /\ EntriesDefined => StartBelongsToActive

(* The manual's promise about entry and exit sequences and key commands,   *)
(* Wiki/Scenes.md:33-41, as a specification this one implements from each  *)
(* power-on to the first deep sleep after it.                              *)
Contract == INSTANCE SceneContract
MeetsContract == Contract!Spec
=============================================================================
