-------------------------- MODULE Interface_proofs --------------------------
(***************************************************************************)
(* Theorems about the user interface.  Scenes: its invariants for every set *)
(* of files, commands, keys and maps, and, if every scene with sequences   *)
(* has an entry sequence, that it implements SceneContract.  Devices: for  *)
(* every set of device files, the list is what the user made of it, on the *)
(* screen and in the file.  Elements: for any keyboards, nothing calls an  *)
(* element that is gone, and what can be seen has heard OnShow.  Settings: *)
(* for whatever the pages offer, a restart brings back what is in force,   *)
(* and no save that is cut off one that never was.  Tasks: for a queue of *)
(* any size, what two tasks ask of an element settles, and what they use   *)
(* is there unless it went from beneath them.  Schemas: for keys and types *)
(* of any lengths, a schema is as long as was counted and takes what was   *)
(* asked for.                                                              *)
(***************************************************************************)
EXTENDS Scenes, Devices, Elements, SettingsPages, LvglTasks, JsonSchema,
        WellFoundedInduction, SequenceTheorems, FiniteSetTheorems, TLAPS

(* What connects the pieces of memory to each other: a scene in the tab    *)
(* view is the active one, a loaded exit sequence is not empty, and no     *)
(* scene means the first tab and a home screen.                            *)
Strengthening ==
  /\ lastScene \in Readable \cup {NoFile}
  /\ lastScene \in Sequenced => lastScene = active
  /\ savedExitSeq # NoFile => exitCommands # << >>
  /\ lastScene = NoFile => tab = 1 /\ tabShown = FALSE

IInv ==
  /\ TypeOK
  /\ ExitBelongsToActive
  /\ RtcMatchesScreen
  /\ LightSleepOnlyInScene
  /\ Strengthening

-------------------------------------------------------------------------------
(* A non-empty set of natural numbers has a least element.                 *)
LEMMA LeastElement ==
  ASSUME NEW T, T \subseteq Nat, T # {}
  PROVE  \E i \in T : \A j \in T : i <= j
<1> DEFINE R == OpToRel(<, Nat)
<1>1. \E i \in T : \A j \in T : <<j, i>> \notin R
  <2> HIDE DEF R
  <2>1. IsWellFoundedOn(R, Nat)
    BY NatLessThanWellFounded DEF R
  <2> QED  BY <2>1, WFMin
<1>2. \A i, j \in Nat : <<j, i>> \notin R => i <= j
  <2>1. ASSUME NEW i \in Nat, NEW j \in Nat, j < i  PROVE <<j, i>> \in R
    BY <2>1 DEF OpToRel
  <2> HIDE DEF R
  <2> QED  BY <2>1
<1> HIDE DEF R
<1> QED  BY <1>1, <1>2

(* The command a key event finds is a command, or there is none.           *)
LEMMA HandledType ==
  ASSUME NEW ev \in KeyEvents, TypeOK
  PROVE  HandledCommand(ev) \in Commands \cup {NoCommand}
<1> USE SceneAssumption
<1>1. ASSUME NEW f \in Files, NEW i \in TabsOf(f)
      PROVE  PageMap[f][i][ev] \in Commands \cup {NoCommand}
  <2>1. PageMap[f] \in Seq([KeyEvents -> Commands \cup {NoCommand}])
    OBVIOUS
  <2>2. PageMap[f][i] \in [KeyEvents -> Commands \cup {NoCommand}]
    BY <1>1, <2>1 DEF TabsOf
  <2> QED  BY <2>2
<1>2. ASSUME NEW f \in Files, OverrideTabs(f, ev) # {}
      PROVE  OverrideCommand(f, ev) \in Commands \cup {NoCommand}
  <2> DEFINE T == OverrideTabs(f, ev)
             least == CHOOSE i \in T : \A j \in T : i <= j
  <2>1. T \subseteq TabsOf(f) /\ T \subseteq Nat
    BY DEF OverrideTabs, TabsOf
  <2>2. \E i \in T : \A j \in T : i <= j
    BY <1>2, <2>1, LeastElement
  <2>3. least \in T
    BY <2>2
  <2>4. PageMap[f][least][ev] \in Commands \cup {NoCommand}
    BY <1>1, <2>1, <2>3
  <2> QED  BY <1>2, <2>4 DEF OverrideCommand
<1>3. OverrideCommand(lastScene, ev) \in Commands \cup {NoCommand}
  BY <1>2 DEF TypeOK, OverrideCommand
<1>4. PageCommand(lastScene, tab, ev) \in Commands \cup {NoCommand}
  BY <1>1 DEF TypeOK, PageCommand
<1> QED  BY <1>3, <1>4 DEF HandledCommand

(* The members keep their types.                                           *)
LEMMA EnteredType ==
  ASSUME NEW f \in Files,
         NEW mExit \in Seq(Commands),
         NEW mSaved \in Files \cup {NoFile},
         NEW mStart \in Files \cup {NoFile},
         NEW restore \in BOOLEAN
  PROVE  LET e == Entered(f, mExit, mSaved, mStart, restore)
         IN /\ e.sent \in Seq(Commands)
            /\ e.start \in Files \cup {NoFile}
            /\ e.exit \in Seq(Commands)
            /\ e.saved \in Files \cup {NoFile}
<1>1. StartCommands[f] \in Seq(Commands) /\ ExitCommands[f] \in Seq(Commands)
  BY SceneAssumption
<1>2. << >> \in Seq(Commands)
  BY EmptySeq
<1>3. \A s, t \in Seq(Commands) : s \o t \in Seq(Commands)
  BY ConcatProperties
<1> DEFINE leaves == LeavesOld(f, mExit, mSaved)
           starts == mStart # f /\ ~restore /\ StartCommands[f] # << >>
           left   == IF leaves THEN mExit ELSE << >>
           begun  == IF starts THEN StartCommands[f] ELSE << >>
<1>4. left \o begun \in Seq(Commands)
  <2>1. left \in Seq(Commands) /\ begun \in Seq(Commands)
    BY <1>1, <1>2
  <2> QED  BY <2>1, <1>3
<1> QED  BY <1>1, <1>2, <1>4 DEF Entered

-------------------------------------------------------------------------------
(* One lemma per action: it preserves the inductive invariant.             *)

LEMMA DisplayPreserves ==
  ASSUME IInv, NEW f \in Files, Display(f)
  PROVE  IInv'
<1> USE SceneAssumption DEF IInv
<1>1. CASE f \notin Readable \/ lastScene = f
  <2>1. /\ sent' = << >>
        /\ UNCHANGED <<memory, tab, inScene, rtc, history>>
        /\ tabShown' \in {tabShown, TRUE}
        /\ lastScene = NoFile => tabShown' = tabShown
    BY <1>1 DEF Display
  <2>2. sent' \in Seq(Commands) /\ tabShown' \in BOOLEAN
    BY <2>1, EmptySeq DEF TypeOK
  <2> QED
    BY <2>1, <2>2 DEF memory, history, TypeOK, ExitBelongsToActive, RtcMatchesScreen,
       LightSleepOnlyInScene, Strengthening
<1>2. CASE f \in Readable /\ lastScene # f
  <2> DEFINE e == Entered(f, exitCommands, savedExitSeq, lastStartSeq, FALSE)
  <2>1. /\ sent' = e.sent
        /\ lastStartSeq' = e.start
        /\ exitCommands' = e.exit
        /\ savedExitSeq' = e.saved
        /\ lastScene' = f
        /\ tab' = 1
        /\ rtc' = [valid |-> TRUE, scene |-> f, tab |-> 1]
        /\ inScene' = TRUE
        /\ tabShown' = TRUE
        /\ active' = IF f \in Sequenced THEN f ELSE active
        /\ slept' = slept
    BY <1>2 DEF Display
  <2>2. TypeOK'
    BY <2>1, EnteredType DEF TypeOK
  <2>3. ExitBelongsToActive' /\ (savedExitSeq # NoFile => exitCommands # << >>)'
    <3> DEFINE leaves == LeavesOld(f, exitCommands, savedExitSeq)
               kept   == IF leaves THEN << >> ELSE exitCommands
               loads  == kept = << >> /\ ExitCommands[f] # << >>
    <3>1. /\ exitCommands' = IF loads THEN ExitCommands[f] ELSE kept
          /\ savedExitSeq' = IF loads THEN f
                             ELSE IF leaves THEN NoFile ELSE savedExitSeq
      BY <2>1 DEF Entered
    <3>2. CASE f \in Sequenced
      BY <2>1, <3>1, <3>2 DEF LeavesOld, ExitBelongsToActive, Strengthening
    <3>3. CASE f \notin Sequenced
      BY <2>1, <3>1, <3>3 DEF LeavesOld, ExitBelongsToActive, Strengthening
    <3> QED  BY <3>2, <3>3
  <2> QED
    BY <1>2, <2>1, <2>2, <2>3 DEF RtcMatchesScreen, LightSleepOnlyInScene, Strengthening
<1> QED  BY <1>1, <1>2

LEMMA GoToSceneSelectionPreserves ==
  ASSUME IInv, GoToSceneSelection
  PROVE  IInv'
<1>1. << >> \in Seq(Commands)
  BY EmptySeq
<1> QED
  BY <1>1 DEF IInv, GoToSceneSelection, memory, history, TypeOK, ExitBelongsToActive,
     RtcMatchesScreen, LightSleepOnlyInScene, Strengthening

LEMMA CancelScenePreserves ==
  ASSUME IInv, CancelScene
  PROVE  IInv'
<1>1. << >> \in Seq(Commands)
  BY EmptySeq
<1>2. NoFile \notin Sequenced
  BY SceneAssumption
<1>3. TypeOK'
  BY <1>1 DEF IInv, CancelScene, TypeOK
<1>4. rtc'.valid = FALSE
  BY DEF IInv, CancelScene, TypeOK
<1> QED
  BY <1>2, <1>3, <1>4 DEF IInv, CancelScene, ExitBelongsToActive,
     RtcMatchesScreen, LightSleepOnlyInScene, Strengthening

LEMMA ChangeTabPreserves ==
  ASSUME IInv, NEW f \in Files, NEW i \in TabsOf(f), lastScene = f, ChangeTab(i)
  PROVE  IInv'
<1>1. << >> \in Seq(Commands)
  BY EmptySeq
<1>2. f # NoFile /\ i \in Nat
  BY SceneAssumption DEF TabsOf
<1>3. rtc' = [rtc EXCEPT !.tab = i] /\ rtc'.tab = i /\ rtc'.valid = rtc.valid
      /\ rtc'.scene = rtc.scene
  BY DEF ChangeTab, IInv, TypeOK
<1> QED
  BY <1>1, <1>2, <1>3 DEF IInv, ChangeTab, memory, history, TypeOK, ExitBelongsToActive,
     RtcMatchesScreen, LightSleepOnlyInScene, Strengthening

LEMMA KeyEventPreserves ==
  ASSUME IInv, NEW ev \in KeyEvents, KeyEvent(ev)
  PROVE  IInv'
<1>1. CASE UNCHANGED <<memory, tabShown, tab, inScene, rtc, history>>
           /\ sent' \in {<< >>, Dispatched(ev)}
  <2>1. HandledCommand(ev) \in Commands \cup {NoCommand}
    BY HandledType DEF IInv
  <2>2. sent' \in Seq(Commands)
    <3>1. << >> \in Seq(Commands)
      BY EmptySeq
    <3>2. HandledCommand(ev) # NoCommand => <<HandledCommand(ev)>> \in Seq(Commands)
      BY <2>1
    <3> QED  BY <1>1, <3>1, <3>2 DEF Dispatched
  <2> QED
    BY <1>1, <2>2 DEF IInv, memory, history, TypeOK, ExitBelongsToActive, RtcMatchesScreen,
       LightSleepOnlyInScene, Strengthening
<1>2. CASE CancelScene
  BY <1>2, CancelScenePreserves
<1>3. CASE GoToSceneSelection
  BY <1>3, GoToSceneSelectionPreserves
<1>4. CASE SceneKey[ev] # NoFile /\ Display(SceneKey[ev])
  <2>1. SceneKey[ev] \in Files
    BY <1>4, SceneAssumption
  <2> QED  BY <1>4, <2>1, DisplayPreserves
<1> QED  BY <1>1, <1>2, <1>3, <1>4 DEF KeyEvent

LEMMA DeepSleepWakePreserves ==
  ASSUME IInv, DeepSleepWake
  PROVE  IInv'
<1> USE SceneAssumption DEF IInv
<1> DEFINE f == rtc.scene
           e == Restored(f)
<1>1. CASE rtc.valid /\ f \in Readable
  <2>1. f \in Files /\ f = lastScene /\ rtc.tab = tab
    BY <1>1 DEF RtcMatchesScreen
  <2>2. /\ lastScene' = f
        /\ lastStartSeq' = e.start
        /\ exitCommands' = e.exit
        /\ savedExitSeq' = e.saved
        /\ tabShown' = TRUE
        /\ tab' = rtc.tab
        /\ inScene' = TRUE
        /\ sent' = e.sent
        /\ slept' = TRUE
        /\ UNCHANGED <<rtc, active>>
    BY <1>1 DEF DeepSleepWake
  <2>3. /\ e.exit = ExitCommands[f]
        /\ e.saved = IF ExitCommands[f] # << >> THEN f ELSE NoFile
    BY DEF Restored, Entered, LeavesOld
  <2>4. TypeOK'
    <3>1. << >> \in Seq(Commands)
      BY EmptySeq
    <3> QED  BY <2>1, <2>2, <3>1, EnteredType DEF TypeOK, Restored
  <2>5. ExitBelongsToActive' /\ (savedExitSeq # NoFile => exitCommands # << >>)'
    BY <2>1, <2>2, <2>3 DEF ExitBelongsToActive, Strengthening
  <2> QED
    BY <1>1, <2>1, <2>2, <2>4, <2>5 DEF RtcMatchesScreen, LightSleepOnlyInScene, Strengthening
<1>2. CASE ~(rtc.valid /\ f \in Readable)
  <2>1. ~rtc.valid
    BY <1>2 DEF RtcMatchesScreen, Strengthening
  <2>2. << >> \in Seq(Commands)
    BY EmptySeq
  <2> QED
    BY <1>2, <2>1, <2>2 DEF DeepSleepWake, TypeOK, ExitBelongsToActive, RtcMatchesScreen,
       LightSleepOnlyInScene, Strengthening
<1> QED  BY <1>1, <1>2

LEMMA PowerLossPreserves ==
  ASSUME IInv, PowerLoss
  PROVE  IInv'
<1>1. << >> \in Seq(Commands)
  BY EmptySeq
<1> QED
  BY <1>1, SceneAssumption DEF IInv, PowerLoss, NoRtc, TypeOK, ExitBelongsToActive,
     RtcMatchesScreen, LightSleepOnlyInScene, Strengthening

-------------------------------------------------------------------------------
LEMMA InitEstablishes == Init => IInv
<1>1. Init => TypeOK /\ rtc.valid = FALSE
  <2>1. << >> \in Seq(Commands)
    BY EmptySeq
  <2>2. /\ NoRtc \in [valid : BOOLEAN, scene : Files \cup {NoFile}, tab : Nat]
        /\ NoRtc.valid = FALSE
    BY DEF NoRtc
  <2> SUFFICES ASSUME Init  PROVE TypeOK /\ rtc.valid = FALSE
    OBVIOUS
  <2>3. rtc = NoRtc
    BY DEF Init
  <2>4. rtc \in [valid : BOOLEAN, scene : Files \cup {NoFile}, tab : Nat]
    BY <2>2, <2>3
  <2>5. rtc.valid = FALSE
    BY <2>2, <2>3
  <2> HIDE DEF NoRtc
  <2> QED  BY <2>1, <2>4, <2>5 DEF Init, TypeOK
<1>2. NoFile \notin Sequenced
  BY SceneAssumption
<1> QED
  BY <1>1, <1>2 DEF Init, IInv, ExitBelongsToActive,
     RtcMatchesScreen, LightSleepOnlyInScene, Strengthening

LEMMA StepPreserves == IInv /\ [Next]_vars => IInv'
<1> SUFFICES ASSUME IInv, [Next]_vars  PROVE IInv'
  OBVIOUS
<1>1. CASE \E f \in Files : SelectFromList(f)
  BY <1>1, DisplayPreserves DEF SelectFromList
<1>2. CASE GoToSceneSelection
  BY <1>2, GoToSceneSelectionPreserves
<1>3. CASE \E f \in Files : \E i \in TabsOf(f) : lastScene = f /\ ChangeTab(i)
  BY <1>3, ChangeTabPreserves
<1>4. CASE \E ev \in KeyEvents : KeyEvent(ev)
  BY <1>4, KeyEventPreserves
<1>5. CASE PowerLoss
  BY <1>5, PowerLossPreserves
<1>6. CASE DeepSleepWake
  BY <1>6, DeepSleepWakePreserves
<1>7. CASE UNCHANGED vars
  BY <1>7 DEF vars, IInv, TypeOK, ExitBelongsToActive, RtcMatchesScreen,
     LightSleepOnlyInScene, Strengthening
<1> QED  BY <1>1, <1>2, <1>3, <1>4, <1>5, <1>6, <1>7 DEF Next, UserStep

(* If every scene with sequences has an entry sequence, the remembered     *)
(* entry is that of the active scene: no scene is taken for entered after  *)
(* another one has replaced it.                                            *)
LEMMA StartInitially == Init => StartBelongsToActive
BY DEF Init, StartBelongsToActive

LEMMA StartPreserved ==
  ASSUME EntriesDefined, IInv, StartBelongsToActive, [Next]_vars
  PROVE  StartBelongsToActive'
<1>1. ASSUME NEW f \in Files, Display(f)
      PROVE  StartBelongsToActive'
  <2>1. CASE f \notin Readable \/ lastScene = f
    BY <1>1, <2>1 DEF Display, memory, history, StartBelongsToActive
  <2>2. CASE f \in Readable /\ lastScene # f
    <3>1. /\ lastStartSeq' = Entered(f, exitCommands, savedExitSeq, lastStartSeq, FALSE).start
          /\ active' = IF f \in Sequenced THEN f ELSE active
      BY <1>1, <2>2 DEF Display
    <3>2. lastStartSeq' = IF lastStartSeq # f /\ StartCommands[f] # << >>
                          THEN f ELSE lastStartSeq
      BY <3>1 DEF Entered
    <3> QED
      BY <3>1, <3>2, SceneAssumption DEF StartBelongsToActive, EntriesDefined
  <2> QED  BY <2>1, <2>2
<1>2. CASE \E f \in Files : SelectFromList(f)
  BY <1>1, <1>2 DEF SelectFromList
<1>3. CASE \E ev \in KeyEvents : KeyEvent(ev)
  BY <1>1, <1>3, SceneAssumption
     DEF KeyEvent, CancelScene, GoToSceneSelection, memory, history, StartBelongsToActive
<1>4. CASE GoToSceneSelection \/ PowerLoss \/ UNCHANGED vars
           \/ \E f \in Files : \E i \in TabsOf(f) : lastScene = f /\ ChangeTab(i)
  BY <1>4 DEF GoToSceneSelection, PowerLoss, ChangeTab, memory, history, vars, StartBelongsToActive
<1>5. CASE DeepSleepWake
  <2>1. Restored(rtc.scene).start = NoFile
    BY DEF Restored, Entered
  <2> QED  BY <1>5, <2>1 DEF DeepSleepWake, StartBelongsToActive
<1> QED  BY <1>2, <1>3, <1>4, <1>5 DEF Next, UserStep

(* In every reachable state, deep sleeps included, the loaded exit         *)
(* sequence is that of the active scene, the sleep record agrees with the  *)
(* screen, light sleep is chosen exactly in a scene page, and, when every  *)
(* scene with sequences has an entry, the remembered entry is that of the  *)
(* active scene (JsonHomeScreen.cpp:92-187).                               *)
THEOREM SceneInvariant == Spec => []MembersAgree
<1> DEFINE Ind == IInv /\ (EntriesDefined => StartBelongsToActive)
<1>1. Init => Ind
  BY InitEstablishes, StartInitially
<1>2. Ind /\ [Next]_vars => Ind'
  <2> SUFFICES ASSUME Ind, [Next]_vars  PROVE Ind'
    OBVIOUS
  <2>1. IInv'
    BY StepPreserves
  <2>2. EntriesDefined' <=> EntriesDefined
    BY DEF EntriesDefined
  <2>3. EntriesDefined => StartBelongsToActive'
    BY StartPreserved
  <2> QED  BY <2>1, <2>2, <2>3
<1>3. Ind => MembersAgree
  BY DEF IInv, MembersAgree
<1> QED  BY <1>1, <1>2, <1>3, PTL DEF Spec

(* Waking from a deep sleep sends no command and shows the page and the    *)
(* tab that were shown when the remote fell asleep.                        *)
THEOREM WakeSendsNothing == Spec => WakeIsSilent
<1> DEFINE Silent == DeepSleepWake => sent' = << >> /\ lastScene' = lastScene /\ tab' = tab
<1>1. IInv /\ [Next]_vars => [Silent]_vars
  <2> SUFFICES ASSUME IInv, DeepSleepWake
               PROVE  sent' = << >> /\ lastScene' = lastScene /\ tab' = tab
    OBVIOUS
  <2>1. CASE rtc.valid /\ rtc.scene \in Readable
    <3>1. Restored(rtc.scene).sent = << >> \o << >>
      BY DEF Restored, Entered, LeavesOld
    <3>2. << >> \o << >> = << >>
      BY EmptySeq, ConcatEmptySeq
    <3> QED
      BY <2>1, <3>1, <3>2 DEF DeepSleepWake, IInv, RtcMatchesScreen
  <2>2. CASE ~(rtc.valid /\ rtc.scene \in Readable)
    BY <2>2 DEF DeepSleepWake, IInv, RtcMatchesScreen, Strengthening
  <2> QED  BY <2>1, <2>2
<1>2. Spec => []IInv
  BY InitEstablishes, StepPreserves, PTL DEF Spec
<1> QED  BY <1>1, <1>2, PTL DEF Spec, WakeIsSilent

-------------------------------------------------------------------------------
(* Implementation of SceneContract                                         *)

(* While the RAM is kept, the memory is complete: the entry sent last and  *)
(* the exit sequence loaded are exactly those of the active scene.         *)
MemoryComplete ==
  /\ lastStartSeq = active
  /\ exitCommands = Contract!ExitSequence(active)

CInv == IInv /\ (slept \/ MemoryComplete)

Remembers == IInv /\ MemoryComplete

LEMMA DisplayMeetsContract ==
  ASSUME EntriesDefined, Remembers, NEW f \in Files, Display(f)
  PROVE  /\ MemoryComplete'
         /\ \/ Contract!Browse
            \/ f \in Sequenced /\ Contract!Enter(f)
<1> USE SceneAssumption DEF Remembers
<1>1. CASE f \notin Readable \/ lastScene = f
  BY <1>1 DEF Display, memory, history, MemoryComplete, Contract!ExitSequence, Contract!Browse
<1>2. CASE f \in Readable /\ lastScene # f
  <2> DEFINE leaves == LeavesOld(f, exitCommands, savedExitSeq)
             kept   == IF leaves THEN << >> ELSE exitCommands
             loads  == kept = << >> /\ ExitCommands[f] # << >>
             starts == lastStartSeq # f /\ StartCommands[f] # << >>
  <2>1. /\ sent' = (IF leaves THEN exitCommands ELSE << >>) \o
                   (IF starts THEN StartCommands[f] ELSE << >>)
        /\ lastStartSeq' = IF starts THEN f ELSE lastStartSeq
        /\ exitCommands' = IF loads THEN ExitCommands[f] ELSE kept
        /\ active' = IF f \in Sequenced THEN f ELSE active
        /\ slept' = slept
    BY <1>2 DEF Display, Entered
  <2>2. << >> \o << >> = << >>
    BY EmptySeq, ConcatEmptySeq
  <2>3. CASE f \notin Sequenced
    <3>1. ~leaves /\ ~starts /\ ~loads
      BY <2>3 DEF LeavesOld
    <3> QED
      BY <2>1, <2>2, <2>3, <3>1 DEF MemoryComplete, Contract!ExitSequence, Contract!Browse
  <2>4. CASE f \in Sequenced /\ f = active
    <3>1. ~leaves /\ ~starts
      BY <2>4 DEF LeavesOld, MemoryComplete, IInv, ExitBelongsToActive
    <3>2. exitCommands' = ExitCommands[f]
      BY <2>1, <2>4, <3>1 DEF MemoryComplete, Contract!ExitSequence
    <3> QED
      BY <2>1, <2>2, <2>4, <3>1, <3>2
         DEF MemoryComplete, Contract!ExitSequence, Contract!Enter
  <2>5. CASE f \in Sequenced /\ f # active
    <3>1. starts /\ f # NoFile
      BY <2>5 DEF MemoryComplete, EntriesDefined
    <3>2. leaves <=> exitCommands # << >>
      BY <2>5, <3>1 DEF LeavesOld, IInv, ExitBelongsToActive
    <3>3. exitCommands' = ExitCommands[f]
      BY <2>1, <3>2
    <3>4. sent' = exitCommands \o StartCommands[f]
      BY <2>1, <3>1, <3>2
    <3> QED
      BY <2>1, <2>5, <3>1, <3>3, <3>4
         DEF MemoryComplete, Contract!ExitSequence, Contract!Enter
  <2> QED  BY <2>3, <2>4, <2>5
<1> QED  BY <1>1, <1>2

LEMMA OthersMeetContract ==
  ASSUME Remembers
  PROVE  /\ CancelScene => MemoryComplete' /\ Contract!Cancel
         /\ GoToSceneSelection => MemoryComplete' /\ Contract!Browse
         /\ \A i : ChangeTab(i) => MemoryComplete' /\ Contract!Browse
BY DEF Remembers, MemoryComplete, CancelScene, GoToSceneSelection, ChangeTab, memory,
   history, Contract!ExitSequence, Contract!Cancel, Contract!Browse

LEMMA KeyEventMeetsContract ==
  ASSUME EntriesDefined, Remembers, NEW ev \in KeyEvents, KeyEvent(ev)
  PROVE  MemoryComplete' /\ [Contract!Next]_Contract!cvars
<1>1. CASE UNCHANGED <<memory, tabShown, tab, inScene, rtc, history>>
           /\ sent' \in {<< >>, Dispatched(ev)}
  <2>1. HandledCommand(ev) \in Commands \cup {NoCommand}
    BY HandledType DEF Remembers, IInv
  <2>2. Contract!Browse \/ \E c \in Commands : Contract!Send(c)
    BY <1>1, <2>1 DEF Dispatched, history, Contract!Browse, Contract!Send
  <2> QED
    BY <1>1, <2>2 DEF Remembers, MemoryComplete, memory, history, Contract!ExitSequence, Contract!Next
<1>2. CASE CancelScene \/ GoToSceneSelection
  BY <1>2, OthersMeetContract DEF Contract!Next
<1>3. CASE SceneKey[ev] # NoFile /\ Display(SceneKey[ev])
  <2>1. SceneKey[ev] \in Files
    BY <1>3, SceneAssumption
  <2> QED  BY <1>3, <2>1, DisplayMeetsContract DEF Contract!Next
<1> QED  BY <1>1, <1>2, <1>3 DEF KeyEvent

(* From each power-on to the first deep sleep after it, for every set of   *)
(* scenes that all have an entry sequence, the screen sends what the       *)
(* manual promises (Wiki/Scenes.md:33-41).                                 *)
THEOREM MeetsSceneContract ==
  ASSUME EntriesDefined
  PROVE  Spec => MeetsContract
<1>1. Init => MemoryComplete /\ Contract!Init
  BY DEF Init, MemoryComplete, Contract!ExitSequence, Contract!Init
<1>2. Remembers /\ [UserStep]_vars => MemoryComplete' /\ [Contract!Next]_Contract!cvars
  <2> SUFFICES ASSUME Remembers, [UserStep]_vars
               PROVE  MemoryComplete' /\ [Contract!Next]_Contract!cvars
    OBVIOUS
  <2>1. CASE \E f \in Files : SelectFromList(f)
    BY <2>1, DisplayMeetsContract DEF SelectFromList, Contract!Next
  <2>2. CASE \E ev \in KeyEvents : KeyEvent(ev)
    BY <2>2, KeyEventMeetsContract
  <2>3. CASE GoToSceneSelection
             \/ \E f \in Files : \E i \in TabsOf(f) : lastScene = f /\ ChangeTab(i)
    BY <2>3, OthersMeetContract DEF Contract!Next
  <2>4. CASE UNCHANGED vars
    BY <2>4 DEF Remembers, MemoryComplete, vars, Contract!ExitSequence, Contract!cvars
  <2> QED  BY <2>1, <2>2, <2>3, <2>4 DEF UserStep
<1>3. [UserStep]_vars => slept' = slept
  <2>1. \A f : Display(f) => slept' = slept
    BY DEF Display, history
  <2> QED
    BY <2>1 DEF UserStep, SelectFromList, GoToSceneSelection, CancelScene, ChangeTab,
       KeyEvent, history, vars
<1>4. CInv /\ [Next]_vars => (slept \/ MemoryComplete)' /\ [Contract!Next]_Contract!cvars
  <2> SUFFICES ASSUME CInv, [Next]_vars
               PROVE  (slept \/ MemoryComplete)' /\ [Contract!Next]_Contract!cvars
    OBVIOUS
  <2>1. CASE PowerLoss
    BY <2>1 DEF PowerLoss, MemoryComplete, Contract!ExitSequence, Contract!PowerLoss,
       Contract!Next
  <2>2. CASE DeepSleepWake
    BY <2>2 DEF DeepSleepWake, Contract!AfterDeepSleep, Contract!Next
  <2>3. CASE [UserStep]_vars /\ slept
    <3>1. slept' = TRUE
      BY <2>3, <1>3 DEF CInv, IInv, TypeOK
    <3> QED  BY <3>1 DEF Contract!AfterDeepSleep, Contract!Next
  <2>4. CASE [UserStep]_vars /\ ~slept
    BY <2>4, <1>2 DEF CInv, Remembers
  <2> QED  BY <2>1, <2>2, <2>3, <2>4 DEF Next
<1>5. CInv /\ [Next]_vars => CInv'
  BY <1>4, StepPreserves DEF CInv
<1>6. Init => CInv
  BY <1>1, InitEstablishes DEF CInv
<1> QED  BY <1>1, <1>4, <1>5, <1>6, PTL DEF Spec, MeetsContract, Contract!Spec

-------------------------------------------------------------------------------
(* The active devices.                                                     *)

Known  == DeviceFiles \cup {"roku"}
Device == [obj : Nat, what : Known]
Item   == [item : Nat, dev : Device]
PageOf == [kind : {"none", "list", "add"}, items : Seq(Item), selected : Nat]

DeviceTypes ==
  /\ run \in {"off", "up", "stuck"} /\ harm \in BOOLEAN
  /\ devices \in Seq(Device) /\ Len(devices) <= MaxDevices
  /\ file \in Seq([what : Known, ok : BOOLEAN]) /\ Len(file) <= MaxDevices
  /\ wanted \in Seq(Known)
  /\ disk \in [DeviceFiles -> {"good", "big", "broken", "absent"}]
  /\ listPage \in PageOf
  /\ stroke \in [down : BOOLEAN, acted : SUBSET Nat]
  /\ run # "up" => devices = << >> /\ listPage = NoPage

(* The page of the list has an item for each device, under a number of its *)
(* own, works on active devices only, and shows them in their order.       *)
Shows(pg, list) ==
  /\ Len(pg.items) = Len(list)
  /\ \A k, l \in DOMAIN pg.items : pg.items[k].item = pg.items[l].item => k = l
  /\ \A k \in DOMAIN pg.items : \E i \in DOMAIN list : pg.items[k].dev = list[i]
  /\ pg.selected # 0 => \E k \in DOMAIN pg.items : pg.items[k].item = pg.selected
NoTwins(list) == \A i, j \in DOMAIN list : list[i] = list[j] => i = j
InItsOrder(pg, list) ==
  NoTwins(list) => \A k \in DOMAIN list : pg.items[k].dev = list[k]
ItemsAreDevices ==
  listPage.kind = "list" => Shows(listPage, devices) /\ InItsOrder(listPage, devices)

(* Numbers beyond the list are free when a page is opened.                 *)
NumbersAreLow ==
  listPage = NoPage => \A i \in DOMAIN devices : devices[i].obj <= Len(devices)

(* As long as nothing was harmed, the file has what is wanted, and each of *)
(* it can be restored.                                                     *)
Restores(what) == what = "roku" \/ disk[what] = "good"
NothingHarmed ==
  ~harm =>
    /\ run # "stuck"
    /\ file = Entries(wanted)
    /\ \A i \in DOMAIN wanted : Restores(wanted[i])
    /\ run = "up" => Whats(devices) = wanted
    /\ listPage.kind = "add" =>
          \A k \in DOMAIN listPage.items : Restores(listPage.items[k].dev.what)

(* The device that gets the key when no Roku takes it.                     *)
Acts(d) == d.what # "roku" /\ mActions(d.what) # {}
IsFirst(i, S) == i \in S /\ \A j \in S : i <= j
OneActs ==
  \A i \in stroke.acted :
    /\ i \in DOMAIN devices
    /\ devices[i].what # "roku" => IsFirst(i, {k \in DOMAIN devices : Acts(devices[k])})

DevicesInv ==
  DeviceTypes /\ ItemsAreDevices /\ NumbersAreLow /\ NothingHarmed /\ OneActs

-------------------------------------------------------------------------------
(* Lemmas about lists.                                                     *)

(* The first place where a test holds.                                     *)
LEMMA MinProperties ==
  ASSUME NEW T, T \subseteq Nat, T # {}
  PROVE  Min(T) \in T /\ \A j \in T : Min(T) <= j
BY LeastElement DEF Min

LEMMA AtProperties ==
  ASSUME NEW S, devices \in Seq(S), NEW d
  PROVE  LET T == {i \in DOMAIN devices : devices[i] = d}
         IN  IF T = {} THEN At(d) = 0 ELSE IsFirst(At(d), T)
<1>1. DOMAIN devices = 1..Len(devices) /\ Len(devices) \in Nat
  BY LenProperties
<1>2. At(d) = LET I == {i \in 1..Len(devices) : devices[i] = d}
              IN  IF I # {} THEN Min(I) ELSE 0
  BY DEF At, SelectInSeq
<1> DEFINE T == {i \in DOMAIN devices : devices[i] = d}
<1>3. T \subseteq Nat /\ At(d) = IF T # {} THEN Min(T) ELSE 0
  BY <1>1, <1>2
<1> HIDE DEF T
<1>4. T # {} => Min(T) \in T /\ \A j \in T : Min(T) <= j
  BY <1>3, MinProperties
<1>5. IF T = {} THEN At(d) = 0 ELSE IsFirst(At(d), T)
  BY <1>3, <1>4 DEF IsFirst
<1> QED  BY <1>5 DEF T

LEMMA ItemAtProperties ==
  ASSUME NEW S, listPage.items \in Seq(S), NEW n
  PROVE  LET T == {k \in DOMAIN listPage.items : listPage.items[k].item = n}
         IN  IF T = {} THEN ItemAt(n) = 0 ELSE IsFirst(ItemAt(n), T)
<1>1. DOMAIN listPage.items = 1..Len(listPage.items) /\ Len(listPage.items) \in Nat
  BY LenProperties
<1>2. ItemAt(n) = LET I == {k \in 1..Len(listPage.items) : listPage.items[k].item = n}
                  IN  IF I # {} THEN Min(I) ELSE 0
  BY DEF ItemAt, SelectInSeq
<1> DEFINE T == {k \in DOMAIN listPage.items : listPage.items[k].item = n}
<1>3. T \subseteq Nat /\ ItemAt(n) = IF T # {} THEN Min(T) ELSE 0
  BY <1>1, <1>2
<1> HIDE DEF T
<1>4. T # {} => Min(T) \in T /\ \A j \in T : Min(T) <= j
  BY <1>3, MinProperties
<1>5. IF T = {} THEN ItemAt(n) = 0 ELSE IsFirst(ItemAt(n), T)
  BY <1>3, <1>4 DEF IsFirst
<1> QED  BY <1>5 DEF T

(* Where the k-th of a list comes from, one of which was moved from i.     *)
From(k, i, priority) ==
  IF k = priority + 1 THEN i
  ELSE LET r == IF k <= priority THEN k ELSE k - 1 IN IF r < i THEN r ELSE r + 1

LEMMA RemoveAtProperties ==
  ASSUME NEW S, NEW s \in Seq(S), NEW i \in 1..Len(s)
  PROVE  /\ RemoveAt(s, i) \in Seq(S)
         /\ Len(RemoveAt(s, i)) = Len(s) - 1
         /\ \A k \in 1..(Len(s) - 1) : RemoveAt(s, i)[k] = s[IF k < i THEN k ELSE k + 1]
<1>1. Len(s) \in Nat /\ \A k \in 1..Len(s) : s[k] \in S
  BY LenProperties, ElementOfSeq
<1> DEFINE a == SubSeq(s, 1, i - 1)
           b == SubSeq(s, i + 1, Len(s))
<1>2. a \in Seq(S) /\ Len(a) = i - 1 /\ \A k \in 1..(i - 1) : a[k] = s[k]
  <2>1. \A k \in 1..(i - 1) : s[k] \in S
    BY <1>1
  <2>2. /\ a \in Seq(S) /\ Len(a) = (IF 1 <= i - 1 THEN i - 1 - 1 + 1 ELSE 0)
        /\ \A k \in 1..(i - 1 - 1 + 1) : a[k] = s[1 + k - 1]
    BY <1>1, <2>1, SubSeqProperties
  <2> QED  BY <2>2, <1>1
<1>3. b \in Seq(S) /\ Len(b) = Len(s) - i /\ \A k \in 1..(Len(s) - i) : b[k] = s[i + k]
  <2>1. \A k \in (i + 1)..Len(s) : s[k] \in S
    BY <1>1
  <2>2. /\ b \in Seq(S) /\ Len(b) = (IF i + 1 <= Len(s) THEN Len(s) - (i + 1) + 1 ELSE 0)
        /\ \A k \in 1..(Len(s) - (i + 1) + 1) : b[k] = s[i + 1 + k - 1]
    BY <1>1, <2>1, SubSeqProperties
  <2> QED  BY <2>2, <1>1
<1>4. RemoveAt(s, i) = a \o b
  BY DEF RemoveAt
<1> HIDE DEF a, b
<1>5. /\ a \o b \in Seq(S) /\ Len(a \o b) = Len(a) + Len(b)
      /\ \A k \in 1..(Len(a) + Len(b)) : (a \o b)[k] = IF k <= Len(a) THEN a[k] ELSE b[k - Len(a)]
  BY <1>2, <1>3, ConcatProperties
<1>6. ASSUME NEW k \in 1..(Len(s) - 1)
      PROVE  (a \o b)[k] = s[IF k < i THEN k ELSE k + 1]
  <2>1. CASE k < i
    BY <2>1, <1>1, <1>2, <1>3, <1>5
  <2>2. CASE k >= i
    <3>1. (a \o b)[k] = b[k - (i - 1)] /\ k - (i - 1) \in 1..(Len(s) - i)
      BY <2>2, <1>1, <1>2, <1>3, <1>5
    <3>2. b[k - (i - 1)] = s[i + (k - (i - 1))]
      BY <3>1, <1>3
    <3>3. i + (k - (i - 1)) = k + 1
      BY <1>1
    <3> QED  BY <3>1, <3>2, <3>3, <2>2
  <2>3. k < i \/ k >= i
    BY <1>1
  <2> QED  BY <2>1, <2>2, <2>3
<1> QED  BY <1>1, <1>2, <1>3, <1>4, <1>5, <1>6

WithInserted(t, s, i, e) ==
  /\ Len(t) = Len(s) + 1
  /\ \A k \in 1..(Len(s) + 1) : t[k] = IF k = i THEN e ELSE IF k < i THEN s[k] ELSE s[k - 1]
LEMMA InsertAtProperties ==
  ASSUME NEW S, NEW s \in Seq(S), NEW i \in 1..(Len(s) + 1), NEW e \in S
  PROVE  InsertAt(s, i, e) \in Seq(S) /\ WithInserted(InsertAt(s, i, e), s, i, e)
<1>1. Len(s) \in Nat /\ \A k \in 1..Len(s) : s[k] \in S
  BY LenProperties, ElementOfSeq
<1> DEFINE a == SubSeq(s, 1, i - 1)
           b == SubSeq(s, i, Len(s))
           ae == a \o <<e>>
<1>2. a \in Seq(S) /\ Len(a) = i - 1 /\ \A k \in 1..(i - 1) : a[k] = s[k]
  <2>1. \A k \in 1..(i - 1) : s[k] \in S
    BY <1>1
  <2>2. /\ a \in Seq(S) /\ Len(a) = (IF 1 <= i - 1 THEN i - 1 - 1 + 1 ELSE 0)
        /\ \A k \in 1..(i - 1 - 1 + 1) : a[k] = s[1 + k - 1]
    BY <1>1, <2>1, SubSeqProperties
  <2> QED  BY <2>2, <1>1
<1>3. b \in Seq(S) /\ Len(b) = Len(s) - i + 1 /\ \A k \in 1..(Len(s) - i + 1) : b[k] = s[i + k - 1]
  <2>1. \A k \in i..Len(s) : s[k] \in S
    BY <1>1
  <2>2. /\ b \in Seq(S) /\ Len(b) = (IF i <= Len(s) THEN Len(s) - i + 1 ELSE 0)
        /\ \A k \in 1..(Len(s) - i + 1) : b[k] = s[i + k - 1]
    BY <1>1, <2>1, SubSeqProperties
  <2> QED  BY <2>2, <1>1
<1>4. InsertAt(s, i, e) = ae \o b
  BY DEF InsertAt
<1>5. /\ ae \in Seq(S) /\ Len(ae) = i
      /\ \A k \in 1..i : ae[k] = IF k = i THEN e ELSE s[k]
  <2> HIDE DEF a
  <2>1. <<e>> \in Seq(S) /\ Len(<<e>>) = 1 /\ <<e>>[1] = e
    OBVIOUS
  <2>2. /\ ae \in Seq(S) /\ Len(ae) = Len(a) + 1
        /\ \A k \in 1..(Len(a) + 1) : ae[k] = IF k <= Len(a) THEN a[k] ELSE <<e>>[k - Len(a)]
    BY <1>2, <2>1, ConcatProperties
  <2> HIDE DEF ae
  <2> QED  BY <1>1, <1>2, <2>1, <2>2
<1> HIDE DEF a, b, ae
<1>6. /\ ae \o b \in Seq(S) /\ Len(ae \o b) = Len(ae) + Len(b)
      /\ \A k \in 1..(Len(ae) + Len(b)) :
           (ae \o b)[k] = IF k <= Len(ae) THEN ae[k] ELSE b[k - Len(ae)]
  BY <1>5, <1>3, ConcatProperties
<1>7. ASSUME NEW k \in 1..(Len(s) + 1)
      PROVE  (ae \o b)[k] = IF k = i THEN e ELSE IF k < i THEN s[k] ELSE s[k - 1]
  <2>1. CASE k <= i
    BY <2>1, <1>1, <1>3, <1>5, <1>6
  <2>2. CASE k > i
    <3>1. (ae \o b)[k] = b[k - i] /\ k - i \in 1..(Len(s) - i + 1)
      BY <2>2, <1>1, <1>3, <1>5, <1>6
    <3>2. b[k - i] = s[i + (k - i) - 1]
      BY <3>1, <1>3
    <3>3. i + (k - i) - 1 = k - 1
      BY <1>1
    <3> QED  BY <3>1, <3>2, <3>3, <2>2
  <2>3. k <= i \/ k > i
    BY <1>1
  <2> QED  BY <2>1, <2>2, <2>3
<1>8. ae \o b \in Seq(S) /\ Len(ae \o b) = Len(s) + 1
  BY <1>1, <1>3, <1>5, <1>6
<1> QED  BY <1>4, <1>7, <1>8 DEF WithInserted

Moves(S, s, i, priority) ==
  /\ MovedTo(s, i, priority) \in Seq(S)
  /\ Len(MovedTo(s, i, priority)) = Len(s)
  /\ \A k \in 1..Len(s) : /\ From(k, i, priority) \in 1..Len(s)
                          /\ MovedTo(s, i, priority)[k] = s[From(k, i, priority)]
LEMMA MovedToProperties ==
  ASSUME NEW S, NEW s \in Seq(S), NEW i \in 1..Len(s), NEW priority \in 0..(Len(s) - 1)
  PROVE  Moves(S, s, i, priority)
<1>1. Len(s) \in Nat /\ \A k \in 1..Len(s) : s[k] \in S
  BY LenProperties, ElementOfSeq
<1> DEFINE r == RemoveAt(s, i)
<1>2. /\ r \in Seq(S) /\ Len(r) = Len(s) - 1
      /\ \A k \in 1..(Len(s) - 1) : r[k] = s[IF k < i THEN k ELSE k + 1]
  BY RemoveAtProperties
<1>3. MovedTo(s, i, priority) = InsertAt(r, priority + 1, s[i])
  BY DEF MovedTo
<1> HIDE DEF r
<1>4. /\ InsertAt(r, priority + 1, s[i]) \in Seq(S)
      /\ Len(InsertAt(r, priority + 1, s[i])) = Len(r) + 1
      /\ \A k \in 1..(Len(r) + 1) : InsertAt(r, priority + 1, s[i])[k] =
           IF k = priority + 1 THEN s[i] ELSE IF k < priority + 1 THEN r[k] ELSE r[k - 1]
  <2> DEFINE p == priority + 1
             e == s[i]
  <2>1. p \in 1..(Len(r) + 1) /\ e \in S
    BY <1>1, <1>2
  <2> HIDE DEF p, e
  <2>2. InsertAt(r, p, e) \in Seq(S) /\ WithInserted(InsertAt(r, p, e), r, p, e)
    BY <1>2, <2>1, InsertAtProperties
  <2> QED  BY <2>2 DEF p, e, WithInserted
<1>5. ASSUME NEW k \in 1..Len(s)
      PROVE  /\ From(k, i, priority) \in 1..Len(s)
             /\ MovedTo(s, i, priority)[k] = s[From(k, i, priority)]
  <2>1. CASE k = priority + 1
    BY <2>1, <1>1, <1>2, <1>3, <1>4 DEF From
  <2>2. CASE k < priority + 1
    <3>1. MovedTo(s, i, priority)[k] = r[k] /\ k \in 1..(Len(s) - 1)
      BY <2>2, <1>1, <1>2, <1>3, <1>4
    <3>2. r[k] = s[IF k < i THEN k ELSE k + 1]
      BY <3>1, <1>2
    <3>3. From(k, i, priority) = IF k < i THEN k ELSE k + 1
      BY <2>2, <1>1 DEF From
    <3> QED  BY <3>1, <3>2, <3>3, <1>1
  <2>3. CASE k > priority + 1
    <3>1. MovedTo(s, i, priority)[k] = r[k - 1] /\ k - 1 \in 1..(Len(s) - 1)
      BY <2>3, <1>1, <1>2, <1>3, <1>4
    <3>2. r[k - 1] = s[IF k - 1 < i THEN k - 1 ELSE k]
      BY <3>1, <1>2
    <3>3. From(k, i, priority) = IF k - 1 < i THEN k - 1 ELSE k
      BY <2>3, <1>1 DEF From
    <3> QED  BY <3>1, <3>2, <3>3, <1>1
  <2> QED  BY <2>1, <2>2, <2>3, <1>1
<1> QED  BY <1>2, <1>3, <1>4, <1>5, <1>1 DEF Moves

(* Nothing is lost by moving, and nothing doubled.                         *)
Permutes(n, i, priority) ==
  /\ \A k, l \in 1..n : From(k, i, priority) = From(l, i, priority) => k = l
  /\ \A j \in 1..n : \E k \in 1..n : From(k, i, priority) = j
LEMMA FromPermutes ==
  ASSUME NEW n \in Nat, NEW i \in 1..n, NEW priority \in 0..(n - 1)
  PROVE  Permutes(n, i, priority)
<1>1. \A k, l \in 1..n : From(k, i, priority) = From(l, i, priority) => k = l
  BY DEF From
<1>2. ASSUME NEW j \in 1..n
      PROVE  \E k \in 1..n : From(k, i, priority) = j
  <2> DEFINE r == IF j < i THEN j ELSE j - 1
  <2>1. CASE j = i
    <3>1. From(priority + 1, i, priority) = j /\ priority + 1 \in 1..n
      BY <2>1 DEF From
    <3> QED  BY <3>1
  <2>2. CASE j # i /\ r <= priority
    <3>1. From(r, i, priority) = j /\ r \in 1..n
      BY <2>2 DEF From
    <3> QED  BY <3>1
  <2>3. CASE j # i /\ r > priority
    <3>1. From(r + 1, i, priority) = j /\ r + 1 \in 1..n
      BY <2>3 DEF From
    <3> QED  BY <3>1
  <2>4. r <= priority \/ r > priority
    OBVIOUS
  <2> QED  BY <2>1, <2>2, <2>3, <2>4
<1> QED  BY <1>1, <1>2 DEF Permutes

-------------------------------------------------------------------------------
(* What follows a change of the list.                                      *)
LEMMA WhatsProperties ==
  ASSUME NEW list \in Seq(Device)
  PROVE  /\ Whats(list) \in Seq(Known) /\ Len(Whats(list)) = Len(list)
         /\ DOMAIN Whats(list) = DOMAIN list
         /\ \A i \in DOMAIN list : Whats(list)[i] = list[i].what
<1>1. Len(list) \in Nat /\ DOMAIN list = 1..Len(list) /\ \A i \in 1..Len(list) : list[i] \in Device
  BY LenProperties, ElementOfSeq
<1>2. \A i \in 1..Len(list) : list[i].what \in Known
  BY <1>1 DEF Device
<1>3. Whats(list) = [i \in 1..Len(list) |-> list[i].what]
  BY <1>1 DEF Whats
<1>4. [i \in 1..Len(list) |-> list[i].what] \in Seq(Known)
  BY <1>1, <1>2, IsASeq
<1> QED  BY <1>1, <1>3, <1>4, LenProperties

EntryOf == [what : Known, ok : BOOLEAN]
LEMMA EntriesProperties ==
  ASSUME NEW whats \in Seq(Known)
  PROVE  /\ Entries(whats) \in Seq(EntryOf) /\ Len(Entries(whats)) = Len(whats)
         /\ DOMAIN Entries(whats) = DOMAIN whats
         /\ \A i \in DOMAIN whats : Entries(whats)[i] = [what |-> whats[i], ok |-> TRUE]
<1>1. Len(whats) \in Nat /\ DOMAIN whats = 1..Len(whats) /\ \A i \in 1..Len(whats) : whats[i] \in Known
  BY LenProperties, ElementOfSeq
<1> DEFINE e(i) == Entry(whats[i], TRUE)
<1>2. \A i \in 1..Len(whats) : e(i) \in EntryOf
  BY <1>1 DEF EntryOf, Entry
<1>3. Entries(whats) = [i \in 1..Len(whats) |-> e(i)]
  BY <1>1 DEF Entries
<1>4. [i \in 1..Len(whats) |-> e(i)] \in Seq(EntryOf)
  <2> HIDE DEF e
  <2> QED  BY <1>1, <1>2, IsASeq
<1>5. Len([i \in 1..Len(whats) |-> e(i)]) = Len(whats)
  BY <1>1, <1>4, LenProperties
<1> QED  BY <1>1, <1>3, <1>4, <1>5 DEF Entry

LEMMA GarbledProperties ==
  ASSUME NEW list \in Seq(Device), NEW f \in Garbled(list)
  PROVE  f \in Seq(EntryOf) /\ Len(f) = Len(list)
<1>1. PICK i \in DOMAIN list : f = [Entries(Whats(list)) EXCEPT ![i].ok = FALSE]
  BY DEF Garbled
<1> DEFINE e == Entries(Whats(list))
<1>2. e \in Seq(EntryOf) /\ Len(e) = Len(list) /\ i \in 1..Len(e)
  BY WhatsProperties, EntriesProperties, LenProperties
<1>3. f = [e EXCEPT ![i] = [e[i] EXCEPT !.ok = FALSE]]
  BY <1>1
<1> HIDE DEF e
<1>4. [e[i] EXCEPT !.ok = FALSE] \in EntryOf
  <2>1. e[i] \in EntryOf
    BY <1>2, ElementOfSeq
  <2> QED  BY <2>1 DEF EntryOf
<1> QED  BY <1>2, <1>3, <1>4, ExceptSeq

LEMMA SavedKeeps ==
  ASSUME DevicesInv, run = "up",
         NEW list \in Seq(Device), Len(list) <= MaxDevices,
         ~harm => \A i \in DOMAIN list : Restores(list[i].what),
         NEW pg \in PageOf, pg.kind # "none",
         pg.kind = "list" => Shows(pg, list) /\ InItsOrder(pg, list),
         ~harm /\ pg.kind = "add" =>
           \A k \in DOMAIN pg.items : Restores(pg.items[k].dev.what),
         Saved(list, pg)
  PROVE  DevicesInv'
<1>w. /\ Whats(list) \in Seq(Known) /\ Len(Whats(list)) = Len(list)
      /\ DOMAIN Whats(list) = DOMAIN list
      /\ \A i \in DOMAIN list : Whats(list)[i] = list[i].what
  BY WhatsProperties
<1>e. Entries(Whats(list)) \in Seq(EntryOf) /\ Len(Entries(Whats(list))) = Len(list)
  BY <1>w, EntriesProperties
<1>t. /\ harm \in BOOLEAN /\ disk' = disk
      /\ disk \in [DeviceFiles -> {"good", "big", "broken", "absent"}]
      /\ stroke \in [down : BOOLEAN, acted : SUBSET Nat]
      /\ wanted' = IF harm' THEN << >> ELSE Whats(list)
      /\ MaxDevices \in Nat /\ << >> \in Seq(Known) /\ << >> \in Seq(Device)
  BY DevicesAssumption DEF DevicesInv, DeviceTypes, Saved
<1>1. CASE /\ devices' = list /\ listPage' = pg /\ run' = run
           /\ stroke' = [stroke EXCEPT !.acted = {}]
           /\ \/ file' = Entries(Whats(list)) /\ harm' = harm
              \/ ~harm /\ harm' = TRUE /\ file' \in Garbled(list)
  <2>1. file' \in Seq(EntryOf) /\ Len(file') = Len(list) /\ harm' \in BOOLEAN
    BY <1>1, <1>e, <1>t, GarbledProperties
  <2>2. DeviceTypes'
    BY <1>1, <1>w, <1>t, <2>1 DEF DeviceTypes, EntryOf
  <2>3. ItemsAreDevices'
    BY <1>1 DEF ItemsAreDevices, Shows, InItsOrder, NoTwins
  <2>4. NumbersAreLow'
    BY <1>1 DEF NumbersAreLow, NoPage
  <2>5. NothingHarmed'
    <3>1. SUFFICES ASSUME ~harm'  PROVE NothingHarmed!2'
      BY DEF NothingHarmed
    <3>2. ~harm /\ file' = Entries(Whats(list)) /\ wanted' = Whats(list)
      BY <3>1, <1>1, <1>t
    <3> QED  BY <3>2, <1>1, <1>w, <1>t DEF Restores
  <2>6. OneActs'
    BY <1>1, <1>t DEF OneActs
  <2> QED  BY <2>2, <2>3, <2>4, <2>5, <2>6 DEF DevicesInv
<1>2. CASE ~harm /\ harm' = TRUE /\ file' = << >> /\ PowerOff
  <2>1. DeviceTypes'
    BY <1>2, <1>t DEF DeviceTypes, PowerOff, NoPage, NoStroke, PageOf
  <2>2. ItemsAreDevices' /\ NumbersAreLow' /\ NothingHarmed' /\ OneActs'
    BY <1>2, <1>t DEF ItemsAreDevices, NumbersAreLow, NothingHarmed, OneActs, PowerOff, NoPage,
                      NoStroke
  <2> QED  BY <2>1, <2>2 DEF DevicesInv
<1> QED  BY <1>1, <1>2 DEF Saved

-------------------------------------------------------------------------------
(* Starting.                                                               *)
LEMMA FirstNumbers ==
  ASSUME NEW n \in Nat
  PROVE  IsFiniteSet(1..n) /\ Cardinality(1..n) = n
BY FS_Interval

LEMMA InOrderIsIdentity ==
  ASSUME NEW n \in Nat, NEW order \in InOrder(1..n)
  PROVE  order = [i \in 1..n |-> i]
<1>1. /\ order \in [1..n -> 1..n]
      /\ \A i, j \in 1..n : i < j => order[i] < order[j]
  <2>1. Cardinality(1..n) = n
    BY FS_Interval
  <2> QED  BY <2>1 DEF InOrder
<1>2. \A i \in 1..n : order[i] >= i
  <2> DEFINE B == {i \in 1..n : order[i] < i}
  <2>1. SUFFICES ASSUME B # {}  PROVE FALSE
    BY <1>1
  <2>2. PICK i \in B : \A j \in B : i <= j
    <3>1. B \subseteq Nat
      OBVIOUS
    <3> HIDE DEF B
    <3> QED  BY <2>1, <3>1, LeastElement
  <2>3. i \in 1..n /\ order[i] < i /\ order[i] \in 1..n
    BY <1>1
  <2>4. i - 1 \in 1..n /\ i - 1 \notin B
    BY <2>2, <2>3
  <2>5. order[i - 1] < order[i] /\ order[i - 1] >= i - 1 /\ order[i - 1] \in 1..n
    BY <1>1, <2>3, <2>4
  <2> QED  BY <2>3, <2>5
<1>3. \A i \in 1..n : order[i] <= i
  <2> DEFINE B == {m \in 0..(n - 1) : order[n - m] > n - m}
  <2>1. SUFFICES ASSUME B # {}  PROVE FALSE
    <3>1. ASSUME NEW i \in 1..n, B = {}  PROVE order[i] <= i
      <4>1. n - i \in 0..(n - 1) /\ n - (n - i) = i
        OBVIOUS
      <4>2. ~(order[n - (n - i)] > n - (n - i))
        BY <3>1, <4>1
      <4> QED  BY <4>1, <4>2, <1>1
    <3> QED  BY <3>1
  <2>2. PICK m \in B : \A k \in B : m <= k
    <3>1. B \subseteq Nat
      OBVIOUS
    <3> HIDE DEF B
    <3> QED  BY <2>1, <3>1, LeastElement
  <2> DEFINE i == n - m
  <2>3. i \in 1..n /\ order[i] > i /\ order[i] \in 1..n
    BY <1>1
  <2>4. m # 0 /\ m - 1 \in 0..(n - 1) /\ n - (m - 1) = i + 1 /\ i + 1 \in 1..n
    BY <2>3
  <2>5. m - 1 \notin B
    BY <2>2, <2>4
  <2>6. order[i + 1] <= i + 1 /\ order[i] < order[i + 1] /\ order[i + 1] \in 1..n
    BY <1>1, <2>3, <2>4, <2>5
  <2> HIDE DEF i
  <2> QED  BY <2>3, <2>6
<1> QED  BY <1>1, <1>2, <1>3

LEMMA RestoreKeeps == DevicesInv /\ restoreFromConfig => DevicesInv'
<1> SUFFICES ASSUME DevicesInv, restoreFromConfig  PROVE DevicesInv'
  OBVIOUS
<1>1. /\ run = "off" /\ devices = << >> /\ listPage = NoPage
      /\ UNCHANGED <<file, disk, listPage, stroke, wanted, harm>>
  BY DEF DevicesInv, DeviceTypes, restoreFromConfig
<1>2. /\ file \in Seq(EntryOf) /\ Len(file) <= MaxDevices /\ wanted \in Seq(Known)
      /\ Len(file) \in Nat /\ DOMAIN file = 1..Len(file)
      /\ \A i \in 1..Len(file) : file[i].what \in Known
      /\ MaxDevices \in Nat /\ disk \in [DeviceFiles -> {"good", "big", "broken", "absent"}]
  <2>1. file \in Seq(EntryOf) /\ Len(file) <= MaxDevices /\ wanted \in Seq(Known)
    BY DEF DevicesInv, DeviceTypes, EntryOf
  <2>2. Len(file) \in Nat /\ DOMAIN file = 1..Len(file) /\ \A i \in 1..Len(file) : file[i] \in EntryOf
    BY <2>1, LenProperties, ElementOfSeq
  <2> QED  BY <2>1, <2>2, DevicesAssumption DEF DevicesInv, DeviceTypes, EntryOf
<1>3. ~harm => /\ DOMAIN file = DOMAIN wanted /\ Len(file) = Len(wanted)
               /\ \A i \in DOMAIN file : /\ file[i].ok /\ file[i].what = wanted[i]
                                         /\ Restores(file[i].what)
  <2>1. SUFFICES ASSUME ~harm
                 PROVE  /\ DOMAIN file = DOMAIN wanted /\ Len(file) = Len(wanted)
                        /\ \A i \in DOMAIN file : /\ file[i].ok /\ file[i].what = wanted[i]
                                                  /\ Restores(file[i].what)
    OBVIOUS
  <2>2. file = Entries(wanted) /\ \A i \in DOMAIN wanted : Restores(wanted[i])
    BY <2>1 DEF DevicesInv, NothingHarmed
  <2>3. /\ Len(Entries(wanted)) = Len(wanted) /\ DOMAIN Entries(wanted) = DOMAIN wanted
        /\ \A i \in DOMAIN wanted : Entries(wanted)[i] = [what |-> wanted[i], ok |-> TRUE]
    BY <1>2, EntriesProperties
  <2> QED  BY <2>2, <2>3
<1>4. listPage'.kind = "none"
  BY <1>1 DEF NoPage
<1>5. CASE run' = "stuck" /\ devices' = devices
           /\ \E i \in DOMAIN file : file[i].what \in DeviceFiles
                                     /\ (~file[i].ok \/ Throws(disk[file[i].what]))
  <2>1. harm
    BY <1>3, <1>5, DevicesAssumption DEF Restores, Throws, DeviceFiles
  <2>2. DeviceTypes'
    BY <1>1, <1>5 DEF DevicesInv, DeviceTypes
  <2> QED  BY <1>1, <1>4, <1>5, <2>1, <2>2 DEF DevicesInv, ItemsAreDevices, NumbersAreLow, NothingHarmed,
                                         OneActs
<1>6. CASE run' = "up" /\ \E order \in InOrder(Restorable) : devices' = loadDevices(order)
  <2>1. PICK order \in InOrder(Restorable) : devices' = loadDevices(order)
    BY <1>6
  <2> DEFINE n == Cardinality(Restorable)
  <2>2. n \in Nat /\ n <= Len(file)
    <3>1. IsFiniteSet(1..Len(file)) /\ Cardinality(1..Len(file)) = Len(file)
      BY <1>2, FirstNumbers
    <3>2. Restorable \subseteq 1..Len(file)
      BY <1>2 DEF Restorable
    <3> QED  BY <1>2, <3>1, <3>2, FS_Subset, FS_CardinalityType
  <2>3. order \in [1..n -> Restorable] /\ DOMAIN order = 1..n
    BY DEF InOrder
  <2> HIDE DEF n
  <2>4. \A i \in 1..n : file[order[i]].what \in Known
    BY <1>2, <2>3 DEF Restorable
  <2> DEFINE d(i) == [obj |-> i, what |-> file[order[i]].what]
  <2>5. devices' = [i \in 1..n |-> d(i)]
    BY <2>1, <2>3 DEF loadDevices
  <2>6. \A i \in 1..n : d(i) \in Device /\ d(i).obj = i /\ d(i).what = file[order[i]].what
    BY <2>2, <2>4 DEF Device
  <2> HIDE DEF d
  <2>7. devices' \in Seq(Device) /\ Len(devices') = n /\ DOMAIN devices' = 1..n
    BY <2>2, <2>5, <2>6, IsASeq, LenProperties
  <2>8. DeviceTypes'
    BY <1>1, <1>2, <1>6, <2>2, <2>7 DEF DevicesInv, DeviceTypes
  <2>9. NumbersAreLow'
    BY <2>2, <2>5, <2>6, <2>7 DEF NumbersAreLow
  <2>10. NothingHarmed'
    <3>1. SUFFICES ASSUME ~harm  PROVE Whats(devices') = wanted
      BY <1>1, <1>4, <1>6 DEF DevicesInv, NothingHarmed, Restores
    <3>2. Restorable = 1..Len(file)
      BY <1>2, <1>3, <3>1 DEF Restorable, Restores, isValid
    <3>3. n = Len(file) /\ order = [i \in 1..n |-> i]
      <4>1. Cardinality(1..Len(file)) = Len(file)
        BY <1>2, FirstNumbers
      <4>2. n = Len(file)
        BY <3>2, <4>1 DEF n
      <4> QED  BY <1>2, <3>2, <4>2, InOrderIsIdentity
    <3>4. \A i \in 1..n : devices'[i].what = wanted[i]
      BY <1>2, <1>3, <2>5, <2>6, <3>1, <3>3
    <3>5. /\ Whats(devices') \in Seq(Known) /\ Len(Whats(devices')) = n
          /\ \A i \in 1..n : Whats(devices')[i] = wanted[i]
      BY <2>7, <3>4, WhatsProperties
    <3> QED  BY <1>2, <1>3, <3>1, <3>3, <3>5, SeqEqual
  <2>11. ItemsAreDevices' /\ OneActs'
    BY <1>1, <1>4 DEF DevicesInv, ItemsAreDevices, OneActs
  <2> QED  BY <2>8, <2>9, <2>10, <2>11 DEF DevicesInv
<1> QED  BY <1>5, <1>6 DEF restoreFromConfig

-------------------------------------------------------------------------------
(* The page of the list.                                                   *)
LEMMA ItemsProperties ==
  ASSUME NEW list \in Seq(Device)
  PROVE  /\ Items(list) \in Seq(Item) /\ Len(Items(list)) = Len(list)
         /\ DOMAIN Items(list) = DOMAIN list /\ DOMAIN list = 1..Len(list) /\ Len(list) \in Nat
         /\ \A i \in DOMAIN list : Items(list)[i].item = i /\ Items(list)[i].dev = list[i]
<1>1. Len(list) \in Nat /\ DOMAIN list = 1..Len(list) /\ \A i \in 1..Len(list) : list[i] \in Device
  BY LenProperties, ElementOfSeq
<1> DEFINE e(i) == [item |-> i, dev |-> list[i]]
<1>2. \A i \in 1..Len(list) : e(i) \in Item /\ e(i).item = i /\ e(i).dev = list[i]
  BY <1>1 DEF Item
<1>3. Items(list) = [i \in 1..Len(list) |-> e(i)]
  BY <1>1 DEF Items
<1> HIDE DEF e
<1>4. [i \in 1..Len(list) |-> e(i)] \in Seq(Item)
  BY <1>1, <1>2, IsASeq
<1>5. Len([i \in 1..Len(list) |-> e(i)]) = Len(list)
  BY <1>1, <1>4, LenProperties
<1> QED  BY <1>1, <1>2, <1>3, <1>4, <1>5

LEMMA ListOfProperties ==
  ASSUME NEW list \in Seq(Device)
  PROVE  /\ ListOf(list) \in PageOf /\ ListOf(list).kind = "list"
         /\ Shows(ListOf(list), list) /\ InItsOrder(ListOf(list), list)
<1>1. /\ Items(list) \in Seq(Item) /\ Len(Items(list)) = Len(list)
      /\ DOMAIN Items(list) = DOMAIN list /\ DOMAIN list = 1..Len(list) /\ Len(list) \in Nat
      /\ \A i \in DOMAIN list : Items(list)[i].item = i /\ Items(list)[i].dev = list[i]
  BY ItemsProperties
<1> DEFINE pg == ListOf(list)
<1>2. pg \in PageOf /\ pg.kind = "list" /\ pg.items = Items(list) /\ pg.selected = 0
  BY <1>1 DEF ListOf, PageOf
<1> HIDE DEF pg
<1>3. Shows(pg, list) /\ InItsOrder(pg, list)
  BY <1>1, <1>2 DEF Shows, InItsOrder
<1> QED  BY <1>2, <1>3 DEF pg

LEMMA PushKeeps == DevicesInv /\ PushActiveDeviceList => DevicesInv'
<1> SUFFICES ASSUME DevicesInv, PushActiveDeviceList  PROVE DevicesInv'
  OBVIOUS
<1>1. /\ devices \in Seq(Device) /\ run = "up" /\ listPage' = ListOf(devices)
      /\ UNCHANGED <<devices, file, disk, run, stroke, wanted, harm>>
  BY DEF DevicesInv, DeviceTypes, PushActiveDeviceList
<1>2. /\ listPage' \in PageOf /\ listPage'.kind = "list"
      /\ Shows(listPage', devices) /\ InItsOrder(listPage', devices)
  BY <1>1, ListOfProperties
<1>3. DeviceTypes'
  BY <1>1, <1>2 DEF DevicesInv, DeviceTypes
<1>4. ItemsAreDevices'
  BY <1>1, <1>2 DEF ItemsAreDevices, Shows, InItsOrder, NoTwins
<1>5. NumbersAreLow' /\ NothingHarmed' /\ OneActs'
  BY <1>1, <1>2 DEF DevicesInv, NumbersAreLow, NoPage, NothingHarmed, Restores, OneActs
<1> QED  BY <1>3, <1>4, <1>5 DEF DevicesInv

LEMMA SelectKeeps ==
  ASSUME DevicesInv, NEW i \in 1..MaxDevices, SelectItem(i)
  PROVE  DevicesInv'
<1> DEFINE k == listPage.items[i].item
           sel == IF listPage.selected = k THEN 0 ELSE k
<1>1. /\ listPage.kind = "list" /\ i \in DOMAIN listPage.items
      /\ listPage' = [listPage EXCEPT !.selected = sel]
      /\ UNCHANGED <<devices, file, disk, run, stroke, wanted, harm>>
  BY DEF SelectItem
<1>2. listPage \in PageOf /\ k \in Nat
  <2>1. listPage \in PageOf /\ listPage.items \in Seq(Item)
    BY DEF DevicesInv, DeviceTypes, PageOf
  <2>2. i \in 1..Len(listPage.items)
    BY <1>1, <2>1, LenProperties
  <2>3. listPage.items[i] \in Item
    BY <2>1, <2>2, ElementOfSeq
  <2> QED  BY <2>1, <2>3 DEF Item
<1>3. sel \in Nat /\ (sel # 0 => sel = listPage.items[i].item)
  BY <1>2
<1> HIDE DEF k, sel
<1>4. /\ listPage' \in PageOf /\ listPage'.kind = "list" /\ listPage'.items = listPage.items
      /\ listPage'.selected = sel
  <2>1. /\ listPage = [kind |-> "list", items |-> listPage.items, selected |-> listPage.selected]
        /\ listPage.items \in Seq(Item)
    BY <1>1, <1>2 DEF PageOf
  <2>2. listPage' = [kind |-> "list", items |-> listPage.items, selected |-> sel]
    BY <1>1, <2>1
  <2> QED  BY <1>3, <2>1, <2>2 DEF PageOf
<1>5. DeviceTypes'
  BY <1>1, <1>4 DEF DevicesInv, DeviceTypes, NoPage
<1>6. ItemsAreDevices'
  <2>1. Shows(listPage, devices) /\ InItsOrder(listPage, devices)
    BY <1>1 DEF DevicesInv, ItemsAreDevices
  <2>2. Shows(listPage', devices')
    BY <1>1, <1>3, <1>4, <2>1 DEF Shows
  <2>3. InItsOrder(listPage', devices')
    BY <1>1, <1>4, <2>1 DEF InItsOrder, NoTwins
  <2> QED  BY <2>2, <2>3 DEF ItemsAreDevices, Shows, InItsOrder, NoTwins
<1>7. NumbersAreLow' /\ NothingHarmed' /\ OneActs'
  BY <1>1, <1>4 DEF DevicesInv, NumbersAreLow, NoPage, NothingHarmed, Restores, OneActs
<1> QED  BY <1>5, <1>6, <1>7 DEF DevicesInv

(* The item and the device that the buttons of the page work on.           *)
LEMMA SelectedProperties ==
  ASSUME DevicesInv, listPage.kind = "list", listPage.selected # 0
  PROVE  /\ DOMAIN devices = 1..Len(devices) /\ DOMAIN listPage.items = 1..Len(devices)
         /\ Len(devices) \in Nat \ {0}
         /\ ItemAt(listPage.selected) \in 1..Len(devices)
         /\ listPage.items[ItemAt(listPage.selected)].dev = selectedDevice
         /\ At(selectedDevice) \in 1..Len(devices)
         /\ devices[At(selectedDevice)] = selectedDevice
<1>1. /\ devices \in Seq(Device) /\ listPage.items \in Seq(Item)
      /\ Shows(listPage, devices)
  BY DEF DevicesInv, DeviceTypes, PageOf, ItemsAreDevices
<1>2. /\ DOMAIN devices = 1..Len(devices) /\ DOMAIN listPage.items = 1..Len(devices)
      /\ Len(devices) \in Nat
  BY <1>1, LenProperties DEF Shows
<1> DEFINE T == {k \in DOMAIN listPage.items : listPage.items[k].item = listPage.selected}
           t == ItemAt(listPage.selected)
<1>3. t \in 1..Len(devices)
  <2>1. IF T = {} THEN t = 0 ELSE IsFirst(t, T)
    BY <1>1, ItemAtProperties
  <2>2. T # {}
    BY <1>1 DEF Shows
  <2> QED  BY <1>2, <2>1, <2>2 DEF IsFirst
<1> HIDE DEF t
<1>4. listPage.items[t].dev = selectedDevice
  BY DEF selectedDevice, t
<1>5. PICK i \in DOMAIN devices : devices[i] = selectedDevice
  BY <1>1, <1>2, <1>3, <1>4 DEF Shows
<1> DEFINE D == {j \in DOMAIN devices : devices[j] = selectedDevice}
<1>6. At(selectedDevice) \in 1..Len(devices) /\ devices[At(selectedDevice)] = selectedDevice
  <2>1. IF D = {} THEN At(selectedDevice) = 0 ELSE IsFirst(At(selectedDevice), D)
    BY <1>1, AtProperties
  <2>2. D # {}
    BY <1>5
  <2> QED  BY <1>2, <2>1, <2>2 DEF IsFirst
<1>7. Len(devices) # 0
  BY <1>2, <1>3
<1> QED  BY <1>2, <1>3, <1>4, <1>6, <1>7 DEF t

(* While nothing was harmed, all active devices can be restored.           *)
LEMMA DevicesRestore ==
  ASSUME DevicesInv, run = "up", ~harm
  PROVE  \A i \in DOMAIN devices : Restores(devices[i].what)
<1>1. devices \in Seq(Device) /\ Whats(devices) = wanted /\ \A i \in DOMAIN wanted : Restores(wanted[i])
  BY DEF DevicesInv, DeviceTypes, NothingHarmed
<1>2. DOMAIN Whats(devices) = DOMAIN devices /\ \A i \in DOMAIN devices : Whats(devices)[i] = devices[i].what
  BY <1>1, WhatsProperties
<1> QED  BY <1>1, <1>2

LEMMA MoveKeeps == DevicesInv /\ MoveSelected => DevicesInv'
<1> SUFFICES ASSUME DevicesInv, MoveSelected  PROVE DevicesInv'
  OBVIOUS
<1>1. listPage.kind = "list" /\ listPage.selected # 0
  BY DEF MoveSelected
<1>2. PICK priority \in Priorities : setDevicePriority(priority)
  BY DEF MoveSelected
<1> DEFINE n == Len(devices)
           a == At(selectedDevice)
           t == ItemAt(listPage.selected)
<1>3. /\ DOMAIN devices = 1..n /\ DOMAIN listPage.items = 1..n /\ n \in Nat \ {0}
      /\ t \in 1..n /\ a \in 1..n
      /\ listPage.items[t].dev = devices[a]
  BY <1>1, SelectedProperties
<1>4. priority < n /\ Saved(MovedTo(devices, a, priority),
                            [listPage EXCEPT !.items = MovedTo(@, t, priority)])
  BY <1>2 DEF setDevicePriority
<1>5. priority \in 0..(n - 1)
  <2>1. priority \in {0, n - 1} \cup {a} \cup (IF a > 1 THEN {a - 2} ELSE {})
    BY <1>2 DEF Priorities
  <2> HIDE DEF n, a, t
  <2> QED  BY <1>3, <1>4, <2>1
<1>6. /\ devices \in Seq(Device) /\ n <= MaxDevices /\ run = "up"
      /\ listPage \in PageOf /\ listPage.items \in Seq(Item) /\ Len(listPage.items) = n
      /\ Shows(listPage, devices) /\ InItsOrder(listPage, devices)
  BY <1>1 DEF DevicesInv, DeviceTypes, PageOf, ItemsAreDevices, NoPage, Shows
<1> HIDE DEF n, a, t
<1> DEFINE list == MovedTo(devices, a, priority)
           items == MovedTo(listPage.items, t, priority)
           pg == [listPage EXCEPT !.items = items]
<1>7. /\ list \in Seq(Device) /\ Len(list) = n
      /\ \A k \in 1..n : From(k, a, priority) \in 1..n /\ list[k] = devices[From(k, a, priority)]
  <2> HIDE DEF list
  <2>1. a \in 1..Len(devices) /\ priority \in 0..(Len(devices) - 1)
    BY <1>3, <1>5 DEF n
  <2>2. Moves(Device, devices, a, priority)
    BY <1>6, <2>1, MovedToProperties
  <2> QED  BY <2>2 DEF Moves, list, n
<1>8. /\ items \in Seq(Item) /\ Len(items) = n
      /\ \A k \in 1..n : From(k, t, priority) \in 1..n /\ items[k] = listPage.items[From(k, t, priority)]
  <2> DEFINE q == listPage.items
  <2>1. q \in Seq(Item) /\ t \in 1..Len(q) /\ priority \in 0..(Len(q) - 1) /\ Len(q) = n
    BY <1>3, <1>5, <1>6
  <2> HIDE DEF q
  <2>2. Moves(Item, q, t, priority)
    BY <2>1, MovedToProperties
  <2> QED  BY <2>1, <2>2 DEF Moves, q
<1>9. DOMAIN list = 1..n /\ DOMAIN items = 1..n
  BY <1>7, <1>8, LenProperties
<1> HIDE DEF list, items
<1>10. /\ pg \in PageOf /\ pg.kind = "list" /\ pg.items = items
       /\ pg.selected = listPage.selected
  BY <1>1, <1>6, <1>8 DEF PageOf
<1> HIDE DEF pg
<1>11. /\ \A k, l \in 1..n : From(k, a, priority) = From(l, a, priority) => k = l
       /\ \A j \in 1..n : \E k \in 1..n : From(k, a, priority) = j
       /\ \A k, l \in 1..n : From(k, t, priority) = From(l, t, priority) => k = l
       /\ \A j \in 1..n : \E k \in 1..n : From(k, t, priority) = j
  <2>1. Permutes(n, a, priority) /\ Permutes(n, t, priority)
    BY <1>3, <1>5, FromPermutes
  <2> QED  BY <2>1 DEF Permutes
<1>s. /\ \A k, l \in 1..n : listPage.items[k].item = listPage.items[l].item => k = l
      /\ \A k \in 1..n : \E i \in 1..n : listPage.items[k].dev = devices[i]
      /\ \E k \in 1..n : listPage.items[k].item = listPage.selected
  <2>1. Shows(listPage, devices)
    BY <1>6
  <2> QED  BY <1>1, <1>3, <2>1 DEF Shows
<1>12. Shows(pg, list)
  <2>1. ASSUME NEW k \in 1..n, NEW l \in 1..n, items[k].item = items[l].item  PROVE k = l
    <3> DEFINE x == From(k, t, priority)
               y == From(l, t, priority)
    <3>1. x \in 1..n /\ y \in 1..n /\ items[k] = listPage.items[x] /\ items[l] = listPage.items[y]
      BY <1>8
    <3>2. x = y
      <4> HIDE DEF x, y
      <4> QED  BY <1>s, <2>1, <3>1
    <3> QED  BY <1>11, <3>2
  <2>2. ASSUME NEW k \in 1..n  PROVE \E i \in 1..n : items[k].dev = list[i]
    <3>1. PICK j \in 1..n : items[k].dev = devices[j]
      <4> DEFINE x == From(k, t, priority)
      <4>1. x \in 1..n /\ items[k] = listPage.items[x]
        BY <1>8
      <4> HIDE DEF x
      <4> QED  BY <1>s, <4>1
    <3>2. PICK i \in 1..n : From(i, a, priority) = j
      BY <1>11
    <3> QED  BY <1>7, <3>1, <3>2
  <2>3. \E k \in 1..n : items[k].item = listPage.selected
    <3>1. PICK j \in 1..n : listPage.items[j].item = listPage.selected
      BY <1>s
    <3>2. PICK k \in 1..n : From(k, t, priority) = j
      BY <1>11
    <3> QED  BY <1>8, <3>1, <3>2
  <2>4. /\ Len(items) = n /\ Len(list) = n /\ DOMAIN items = 1..n /\ DOMAIN list = 1..n
        /\ pg.selected = listPage.selected
    BY <1>7, <1>8, <1>9, <1>10
  <2>5. /\ Len(items) = Len(list)
        /\ \A k, l \in DOMAIN items : items[k].item = items[l].item => k = l
        /\ \A k \in DOMAIN items : \E i \in DOMAIN list : items[k].dev = list[i]
        /\ \E k \in DOMAIN items : items[k].item = pg.selected
    BY <2>1, <2>2, <2>3, <2>4
  <2> QED  BY <1>10, <2>5 DEF Shows
<1>13. InItsOrder(pg, list)
  <2>1. SUFFICES ASSUME NoTwins(list), NEW k \in 1..n  PROVE items[k].dev = list[k]
    BY <1>9, <1>10 DEF InItsOrder
  <2>2. NoTwins(devices)
    <3>1. SUFFICES ASSUME NEW i \in 1..n, NEW j \in 1..n, devices[i] = devices[j]  PROVE i = j
      BY <1>3 DEF NoTwins
    <3>2. PICK x \in 1..n, y \in 1..n : From(x, a, priority) = i /\ From(y, a, priority) = j
      BY <1>11
    <3>3. x = y
      BY <1>7, <1>9, <2>1, <3>1, <3>2 DEF NoTwins
    <3> QED  BY <3>2, <3>3
  <2>3. \A x \in 1..n : listPage.items[x].dev = devices[x]
    BY <1>3, <1>6, <2>2 DEF InItsOrder
  <2>4. t = a
    BY <1>3, <2>2, <2>3 DEF NoTwins
  <2> QED  BY <1>7, <1>8, <2>3, <2>4
<1>14. ~harm => \A i \in DOMAIN list : Restores(list[i].what)
  BY <1>3, <1>6, <1>7, <1>9, DevicesRestore
<1>15. Saved(list, pg)
  BY <1>4 DEF list, items, pg
<1> QED  BY <1>6, <1>7, <1>10, <1>12, <1>13, <1>14, <1>15, SavedKeeps

LEMMA RemoveKeeps == DevicesInv /\ removeDevice => DevicesInv'
<1> SUFFICES ASSUME DevicesInv, removeDevice  PROVE DevicesInv'
  OBVIOUS
<1> DEFINE list == RemoveAt(devices, At(selectedDevice))
           pg == ListOf(list)
<1>1. listPage.kind = "list" /\ listPage.selected # 0 /\ Saved(list, pg)
  BY DEF removeDevice, RefreshDeviceList
<1>2. /\ devices \in Seq(Device) /\ Len(devices) <= MaxDevices /\ run = "up" /\ MaxDevices \in Nat
      /\ DOMAIN devices = 1..Len(devices) /\ Len(devices) \in Nat
      /\ At(selectedDevice) \in 1..Len(devices)
  BY <1>1, SelectedProperties, DevicesAssumption DEF DevicesInv, DeviceTypes, NoPage
<1>3. /\ list \in Seq(Device) /\ Len(list) = Len(devices) - 1
      /\ \A k \in 1..(Len(devices) - 1) :
            list[k] = devices[IF k < At(selectedDevice) THEN k ELSE k + 1]
  BY <1>2, RemoveAtProperties
<1> HIDE DEF list
<1>4. DOMAIN list = 1..(Len(devices) - 1)
  BY <1>3, LenProperties
<1>5. /\ pg \in PageOf /\ pg.kind = "list"
      /\ Shows(pg, list) /\ InItsOrder(pg, list)
  BY <1>3, ListOfProperties
<1> HIDE DEF pg
<1>6. ~harm => \A i \in DOMAIN list : Restores(list[i].what)
  <2>1. ASSUME NEW i \in DOMAIN list  PROVE \E j \in DOMAIN devices : list[i] = devices[j]
    <3>1. CASE i < At(selectedDevice)
      BY <1>2, <1>3, <1>4, <2>1, <3>1
    <3>2. CASE ~(i < At(selectedDevice))
      <4>1. i + 1 \in DOMAIN devices
        BY <1>2, <1>4
      <4>2. list[i] = devices[i + 1]
        BY <1>2, <1>3, <1>4, <3>2
      <4> QED  BY <4>1, <4>2
    <3> QED  BY <3>1, <3>2
  <2> QED  BY <1>2, <2>1, DevicesRestore
<1>7. Len(list) <= MaxDevices
  BY <1>2, <1>3
<1> QED  BY <1>1, <1>2, <1>3, <1>5, <1>6, <1>7, SavedKeeps

-------------------------------------------------------------------------------
(* The offer of devices, and the end of a page.                            *)
LEMMA OfferProperties ==
  ASSUME devices \in Seq(Device), NEW whats \in Seq(Known)
  PROVE  /\ Offer(whats) \in PageOf /\ Offer(whats).kind = "add"
         /\ \A k \in DOMAIN Offer(whats).items :
               k \in DOMAIN whats /\ Offer(whats).items[k].dev.what = whats[k]
<1>1. /\ Len(whats) \in Nat /\ DOMAIN whats = 1..Len(whats) /\ \A i \in 1..Len(whats) : whats[i] \in Known
      /\ Len(devices) \in Nat
  BY LenProperties, ElementOfSeq
<1> DEFINE d(i) == [obj |-> Len(devices) + i, what |-> whats[i]]
           list == [i \in 1..Len(whats) |-> d(i)]
<1>2. \A i \in 1..Len(whats) : d(i) \in Device /\ d(i).what = whats[i]
  BY <1>1 DEF Device
<1>3. FreshFor(whats) = list
  BY <1>1 DEF FreshFor, Numbered
<1> HIDE DEF d
<1>4. list \in Seq(Device) /\ DOMAIN list = 1..Len(whats) /\ \A i \in DOMAIN list : list[i].what = whats[i]
  BY <1>1, <1>2, IsASeq
<1> HIDE DEF list
<1>5. /\ Items(list) \in Seq(Item) /\ DOMAIN Items(list) = DOMAIN list
      /\ \A i \in DOMAIN list : Items(list)[i].dev = list[i]
  BY <1>4, ItemsProperties
<1>6. /\ Offer(whats) = [kind |-> "add", items |-> Items(list), selected |-> 0]
  BY <1>3 DEF Offer
<1> QED  BY <1>1, <1>4, <1>5, <1>6 DEF PageOf

LEMMA OffersKeep ==
  ASSUME DevicesInv, run = "up", NEW whats \in Seq(Known), listPage' = Offer(whats),
         ~harm => \A k \in DOMAIN whats : Restores(whats[k]),
         UNCHANGED <<devices, file, disk, run, stroke, wanted, harm>>
  PROVE  DevicesInv'
<1>1. /\ listPage' \in PageOf /\ listPage'.kind = "add"
      /\ \A k \in DOMAIN listPage'.items : k \in DOMAIN whats /\ listPage'.items[k].dev.what = whats[k]
  BY OfferProperties DEF DevicesInv, DeviceTypes
<1>2. DeviceTypes'
  BY <1>1 DEF DevicesInv, DeviceTypes
<1>3. ItemsAreDevices' /\ NumbersAreLow' /\ OneActs'
  BY <1>1 DEF DevicesInv, ItemsAreDevices, NumbersAreLow, NoPage, OneActs
<1>4. NothingHarmed'
  BY <1>1 DEF DevicesInv, NothingHarmed, Restores
<1> QED  BY <1>2, <1>3, <1>4 DEF DevicesInv

LEMMA Empty ==
  /\ << >> \in Seq(Device) /\ << >> \in Seq(EntryOf) /\ << >> \in Seq(Known)
  /\ NoPage \in PageOf /\ NoStroke \in [down : BOOLEAN, acted : SUBSET Nat]
  /\ MaxDevices \in Nat /\ Len(<< >>) = 0
BY DevicesAssumption DEF NoPage, NoStroke, PageOf

LEMMA PowerOffKeeps ==
  DevicesInv /\ PowerOff /\ UNCHANGED <<file, disk, wanted, harm>> => DevicesInv'
<1> SUFFICES ASSUME DevicesInv, PowerOff, UNCHANGED <<file, disk, wanted, harm>>
             PROVE  DevicesInv'
  OBVIOUS
<1>1. DeviceTypes'
  BY Empty DEF DevicesInv, DeviceTypes, PowerOff
<1>2. ItemsAreDevices' /\ NumbersAreLow' /\ OneActs'
  BY DEF ItemsAreDevices, NumbersAreLow, OneActs, PowerOff, NoPage, NoStroke
<1>3. NothingHarmed'
  BY DEF DevicesInv, NothingHarmed, PowerOff, NoPage, Restores
<1> QED  BY <1>1, <1>2, <1>3 DEF DevicesInv

LEMMA AddPagesKeep == DevicesInv /\ (AddJsonDevice \/ AddCompileTimeDevice) => DevicesInv'
<1> SUFFICES ASSUME DevicesInv, AddJsonDevice \/ AddCompileTimeDevice  PROVE DevicesInv'
  OBVIOUS
<1>1. CASE PowerOff /\ UNCHANGED <<file, disk, wanted, harm>>
  BY <1>1, PowerOffKeeps
<1>2. CASE AddJsonDevice /\ ~PowerOff
  <2> DEFINE S == {f \in DeviceFiles : isValid(f)}
  <2>1. PICK whats \in SetToSeqs(S) : listPage' = Offer(whats)
    BY <1>2 DEF AddJsonDevice
  <2>2. Cardinality(S) \in Nat
    <3>1. IsFiniteSet(DeviceFiles) /\ S \subseteq DeviceFiles
      BY DevicesAssumption DEF DeviceFiles
    <3> HIDE DEF S
    <3> QED  BY <3>1, FS_Subset, FS_CardinalityType
  <2>3. whats \in [1..Cardinality(S) -> S]
    BY <2>1 DEF SetToSeqs
  <2>4. /\ whats \in Seq(Known) /\ DOMAIN whats = 1..Cardinality(S)
        /\ \A k \in DOMAIN whats : Restores(whats[k])
    <3>1. \A k \in 1..Cardinality(S) : whats[k] \in Known /\ Restores(whats[k])
      BY <2>3 DEF Known, Restores, isValid
    <3>2. whats = [k \in 1..Cardinality(S) |-> whats[k]]
      BY <2>3
    <3>3. [k \in 1..Cardinality(S) |-> whats[k]] \in Seq(Known)
      <4> HIDE DEF S
      <4> QED  BY <2>2, <3>1, IsASeq
    <3> QED  BY <2>3, <3>1, <3>2, <3>3
  <2>5. run = "up" /\ UNCHANGED <<devices, file, disk, run, stroke, wanted, harm>>
    BY <1>2 DEF AddJsonDevice
  <2> HIDE DEF S
  <2> QED  BY <2>1, <2>4, <2>5, OffersKeep
<1>3. CASE AddCompileTimeDevice
  <2>1. <<"roku">> \in Seq(Known) /\ \A k \in DOMAIN <<"roku">> : Restores(<<"roku">>[k])
    BY DEF Known, Restores
  <2>2. /\ run = "up" /\ listPage' = Offer(<<"roku">>)
        /\ UNCHANGED <<devices, file, disk, run, stroke, wanted, harm>>
    BY <1>3 DEF AddCompileTimeDevice
  <2> QED  BY <2>1, <2>2, OffersKeep
<1> QED  BY <1>1, <1>2, <1>3 DEF AddJsonDevice

LEMMA AddKeeps ==
  ASSUME DevicesInv, NEW i \in 1..MaxDevices, OnAddButtonClicked(i)
  PROVE  DevicesInv'
<1> DEFINE d == listPage.items[i].dev
           list == <<d>> \o devices
<1>1. /\ listPage.kind = "add" /\ i \in DOMAIN listPage.items /\ Len(devices) < MaxDevices
      /\ Saved(list, listPage) /\ run = "up"
      /\ devices \in Seq(Device) /\ listPage \in PageOf /\ listPage.items \in Seq(Item)
  BY DEF OnAddButtonClicked, DevicesInv, DeviceTypes, NoPage, PageOf
<1>2. d \in Device /\ Len(devices) \in Nat /\ DOMAIN devices = 1..Len(devices) /\ MaxDevices \in Nat
  <2>1. i \in 1..Len(listPage.items)
    BY <1>1, LenProperties
  <2>2. listPage.items[i] \in Item
    BY <1>1, <2>1, ElementOfSeq
  <2> QED  BY <1>1, <2>2, LenProperties, DevicesAssumption DEF Item
<1>3. ~harm => Restores(d.what)
  BY <1>1 DEF DevicesInv, NothingHarmed
<1> HIDE DEF d
<1>4. /\ list \in Seq(Device) /\ Len(list) = Len(devices) + 1
      /\ list[1] = d /\ \A k \in 1..Len(devices) : list[k + 1] = devices[k]
  <2>1. <<d>> \in Seq(Device) /\ Len(<<d>>) = 1 /\ <<d>>[1] = d
    BY <1>2
  <2>2. /\ list \in Seq(Device) /\ Len(list) = 1 + Len(devices)
        /\ \A k \in 1..(1 + Len(devices)) :
              list[k] = IF k <= 1 THEN <<d>>[k] ELSE devices[k - 1]
    BY <1>1, <2>1, ConcatProperties
  <2> HIDE DEF list
  <2> QED  BY <1>2, <2>1, <2>2
<1> HIDE DEF list
<1>5. ~harm => \A k \in DOMAIN list : Restores(list[k].what)
  <2>1. SUFFICES ASSUME ~harm, NEW k \in DOMAIN list  PROVE Restores(list[k].what)
    OBVIOUS
  <2>2. k \in 1..(Len(devices) + 1)
    BY <1>4, LenProperties
  <2>3. CASE k = 1
    BY <2>1, <2>3, <1>3, <1>4
  <2>4. CASE k # 1
    <3>1. k - 1 \in DOMAIN devices /\ list[k] = devices[k - 1]
      BY <1>2, <1>4, <2>2, <2>4
    <3> QED  BY <1>1, <2>1, <3>1, DevicesRestore
  <2> QED  BY <2>3, <2>4
<1>6. Len(list) <= MaxDevices
  BY <1>1, <1>2, <1>4
<1>7. ~harm => \A k \in DOMAIN listPage.items : Restores(listPage.items[k].dev.what)
  BY <1>1 DEF DevicesInv, NothingHarmed
<1> QED  BY <1>1, <1>4, <1>5, <1>6, <1>7, SavedKeeps

LEMMA CloseKeeps == DevicesInv /\ ClosePage => DevicesInv'
<1> SUFFICES ASSUME DevicesInv, ClosePage  PROVE DevicesInv'
  OBVIOUS
<1>1. /\ run = "up" /\ listPage' = NoPage /\ devices' = Renumbered(devices)
      /\ UNCHANGED <<file, disk, run, stroke, wanted, harm>>
      /\ devices \in Seq(Device) /\ Len(devices) <= MaxDevices
  BY DEF DevicesInv, DeviceTypes, ClosePage
<1>2. /\ Len(devices) \in Nat /\ DOMAIN devices = 1..Len(devices)
      /\ \A i \in 1..Len(devices) : devices[i] \in Device
  BY <1>1, LenProperties, ElementOfSeq
<1>3. ASSUME NEW i \in 1..Len(devices)
      PROVE  Min({k \in 1..Len(devices) : devices[k] = devices[i]}) \in 1..Len(devices)
  <2> DEFINE T == {k \in 1..Len(devices) : devices[k] = devices[i]}
  <2>1. T \subseteq Nat /\ T # {} /\ T \subseteq 1..Len(devices)
    OBVIOUS
  <2> HIDE DEF T
  <2>2. Min(T) \in T
    BY <2>1, MinProperties
  <2> QED  BY <2>1, <2>2 DEF T
<1> DEFINE d(i) == [obj |-> Min({k \in 1..Len(devices) : devices[k] = devices[i]}),
                    what |-> devices[i].what]
<1>4. \A i \in 1..Len(devices) : /\ d(i) \in Device /\ d(i).what = devices[i].what
                                /\ d(i).obj <= Len(devices)
  BY <1>2, <1>3 DEF Device
<1>5. devices' = [i \in 1..Len(devices) |-> d(i)]
  BY <1>1, <1>2 DEF Renumbered, Numbered, Whats
<1> HIDE DEF d
<1>6. /\ devices' \in Seq(Device) /\ Len(devices') = Len(devices) /\ DOMAIN devices' = DOMAIN devices
      /\ \A i \in DOMAIN devices : /\ devices'[i].what = devices[i].what
                                   /\ devices'[i].obj <= Len(devices)
  BY <1>2, <1>4, <1>5, IsASeq, LenProperties
<1>7. DeviceTypes'
  BY <1>1, <1>6 DEF DevicesInv, DeviceTypes, NoPage, PageOf
<1>8. NumbersAreLow' /\ ItemsAreDevices'
  BY <1>1, <1>6 DEF NumbersAreLow, ItemsAreDevices, NoPage
<1>9. NothingHarmed'
  <2>1. Whats(devices') = Whats(devices)
    BY <1>6 DEF Whats
  <2> QED  BY <1>1, <2>1 DEF DevicesInv, NothingHarmed, Restores, NoPage
<1>10. OneActs'
  <2>1. {k \in DOMAIN devices' : Acts(devices'[k])} = {k \in DOMAIN devices : Acts(devices[k])}
    BY <1>6 DEF Acts
  <2> QED  BY <1>1, <1>6, <2>1 DEF DevicesInv, OneActs
<1> QED  BY <1>7, <1>8, <1>9, <1>10 DEF DevicesInv

-------------------------------------------------------------------------------
(* Keys and files.                                                         *)
LEMMA KeyKeeps ==
  ASSUME DevicesInv, NEW type \in EventTypes, handleKeyEvent(type)
  PROVE  DevicesInv'
<1> DEFINE i == SelectInSeq(devices, LAMBDA d : HandleKeyEvent(d, type))
           T == {k \in DOMAIN devices : HandleKeyEvent(devices[k], type)}
           A == {k \in DOMAIN devices : Acts(devices[k])}
<1>1. /\ UNCHANGED <<devices, file, disk, run, listPage, wanted, harm>>
      /\ devices \in Seq(Device) /\ stroke \in [down : BOOLEAN, acted : SUBSET Nat]
      /\ DOMAIN devices = 1..Len(devices) /\ Len(devices) \in Nat
  BY LenProperties DEF DevicesInv, DeviceTypes, handleKeyEvent
<1>2. IF T = {} THEN i = 0 ELSE IsFirst(i, T)
  <2>1. i = LET I == {k \in 1..Len(devices) : HandleKeyEvent(devices[k], type)}
            IN  IF I # {} THEN Min(I) ELSE 0
    BY DEF SelectInSeq
  <2>2. T \subseteq Nat /\ i = IF T # {} THEN Min(T) ELSE 0
    BY <1>1, <2>1
  <2> HIDE DEF T, i
  <2>3. T # {} => Min(T) \in T /\ \A j \in T : Min(T) <= j
    BY <2>2, MinProperties
  <2> QED  BY <2>2, <2>3 DEF IsFirst
<1>3. PICK does \in IF i = 0 THEN {FALSE} ELSE execute(devices[i], type) :
        stroke' = IF type = "Release"
                     /\ Cardinality(stroke.acted \cup (IF does THEN {i} ELSE {})) < 2
                  THEN NoStroke
                  ELSE [down |-> TRUE, acted |-> stroke.acted \cup (IF does THEN {i} ELSE {})]
  BY DEF handleKeyEvent
<1> HIDE DEF i
<1>4. does => /\ i \in DOMAIN devices
              /\ devices[i].what # "roku" => IsFirst(i, A)
  <2>1. SUFFICES ASSUME does
                 PROVE  i \in DOMAIN devices /\ (devices[i].what # "roku" => IsFirst(i, A))
    OBVIOUS
  <2>2. i # 0 /\ IsFirst(i, T)
    BY <1>2, <1>3, <2>1
  <2>3. \A k \in A : k \in T
    BY DEF Acts, HandleKeyEvent
  <2>4. i \in DOMAIN devices /\ (devices[i].what # "roku" => i \in A)
    BY <2>2 DEF IsFirst, HandleKeyEvent, Acts
  <2> QED  BY <2>2, <2>3, <2>4 DEF IsFirst
<1>5. OneActs
  BY DEF DevicesInv
<1>6. stroke' \in [down : BOOLEAN, acted : SUBSET Nat] /\ OneActs'
  <2>1. CASE stroke' = NoStroke
    BY <2>1 DEF NoStroke, OneActs
  <2>2. CASE stroke' = [down |-> TRUE, acted |-> stroke.acted \cup (IF does THEN {i} ELSE {})]
    <3>1. stroke'.down = TRUE /\ stroke'.acted = stroke.acted \cup (IF does THEN {i} ELSE {})
      BY <2>2
    <3>2. stroke'.acted \subseteq Nat
      BY <1>1, <1>4, <3>1
    <3>3. stroke' \in [down : BOOLEAN, acted : SUBSET Nat]
      BY <2>2, <3>1, <3>2
    <3>4. OneActs'
      BY <1>1, <1>4, <1>5, <3>1 DEF OneActs
    <3> QED  BY <3>3, <3>4
  <2> QED  BY <1>3, <2>1, <2>2
<1>7. DeviceTypes'
  BY <1>1, <1>6 DEF DevicesInv, DeviceTypes
<1>8. ItemsAreDevices' /\ NumbersAreLow' /\ NothingHarmed'
  BY <1>1 DEF DevicesInv, ItemsAreDevices, Shows, InItsOrder, NoTwins, NumbersAreLow, NothingHarmed,
              Restores
<1> QED  BY <1>6, <1>7, <1>8 DEF DevicesInv

LEMMA FtpKeeps ==
  ASSUME DevicesInv, NEW f \in DeviceFiles, Ftp(f)
  PROVE  DevicesInv'
<1>1. PICK state \in {"good", "big", "broken", "absent"} :
        /\ state = "good" \/ ~harm
        /\ harm' = (harm \/ state # "good") /\ disk' = [disk EXCEPT ![f] = state]
  BY DEF Ftp
<1>2. /\ wanted' = IF harm' THEN << >> ELSE wanted
      /\ UNCHANGED <<devices, file, run, listPage, stroke>>
  BY DEF Ftp
<1>3. harm' \in BOOLEAN /\ wanted' \in Seq(Known)
  BY <1>1, <1>2 DEF DevicesInv, DeviceTypes
<1>4. DeviceTypes'
  BY <1>1, <1>2, <1>3 DEF DevicesInv, DeviceTypes
<1>5. NothingHarmed'
  <2>1. SUFFICES ASSUME ~harm'  PROVE NothingHarmed'
    BY DEF NothingHarmed
  <2>2. ~harm /\ wanted' = wanted /\ disk' = [disk EXCEPT ![f] = "good"]
    BY <1>1, <1>2, <2>1
  <2>3. \A what : Restores(what) => Restores(what)'
    BY <2>2 DEF DevicesInv, DeviceTypes, Restores
  <2> QED  BY <1>2, <2>2, <2>3 DEF DevicesInv, NothingHarmed
<1>6. ItemsAreDevices' /\ NumbersAreLow' /\ OneActs'
  BY <1>2 DEF DevicesInv, ItemsAreDevices, Shows, InItsOrder, NoTwins, NumbersAreLow, OneActs
<1> QED  BY <1>4, <1>5, <1>6 DEF DevicesInv

-------------------------------------------------------------------------------
LEMMA DevicesInit == DevInit => DevicesInv
<1> SUFFICES ASSUME DevInit  PROVE DevicesInv
  OBVIOUS
<1>1. DeviceTypes
  <2>1. disk \in [DeviceFiles -> {"good", "big", "broken", "absent"}]
    BY DEF DevInit
  <2>2. /\ devices \in Seq(Device) /\ Len(devices) <= MaxDevices
        /\ file \in Seq(EntryOf) /\ Len(file) <= MaxDevices /\ wanted \in Seq(Known)
        /\ listPage \in PageOf /\ stroke \in [down : BOOLEAN, acted : SUBSET Nat]
    BY Empty DEF DevInit
  <2>3. run = "off" /\ harm = FALSE /\ devices = << >> /\ listPage = NoPage
    BY DEF DevInit
  <2> QED  BY <2>1, <2>2, <2>3 DEF DeviceTypes, EntryOf
<1>2. Entries(<< >>) = << >>
  BY DEF Entries
<1> QED  BY <1>1, <1>2 DEF DevInit, DevicesInv, ItemsAreDevices, NumbersAreLow, NothingHarmed, OneActs,
                           NoPage, NoStroke

LEMMA DevicesStep == DevicesInv /\ [DevNext]_devVars => DevicesInv'
<1> SUFFICES ASSUME DevicesInv, [DevNext]_devVars  PROVE DevicesInv'
  OBVIOUS
<1>1. CASE restoreFromConfig  BY <1>1, RestoreKeeps
<1>2. CASE Restart            BY <1>2, PowerOffKeeps DEF Restart
<1>3. CASE PushActiveDeviceList  BY <1>3, PushKeeps
<1>4. CASE MoveSelected       BY <1>4, MoveKeeps
<1>5. CASE removeDevice       BY <1>5, RemoveKeeps
<1>6. CASE AddJsonDevice \/ AddCompileTimeDevice  BY <1>6, AddPagesKeep
<1>7. CASE ClosePage          BY <1>7, CloseKeeps
<1>8. CASE \E i \in 1..MaxDevices : SelectItem(i) \/ OnAddButtonClicked(i)
  BY <1>8, SelectKeeps, AddKeeps
<1>9. CASE \E type \in EventTypes : handleKeyEvent(type)
  BY <1>9, KeyKeeps
<1>10. CASE \E f \in DeviceFiles : Ftp(f)
  BY <1>10, FtpKeeps
<1>11. CASE UNCHANGED devVars
  BY <1>11 DEF devVars, DevicesInv, DeviceTypes, ItemsAreDevices, Shows, InItsOrder, NoTwins,
               NumbersAreLow, NothingHarmed, Restores, OneActs
<1> QED
  BY <1>1, <1>2, <1>3, <1>4, <1>5, <1>6, <1>7, <1>8, <1>9, <1>10, <1>11 DEF DevNext

LEMMA DevicesInvImplies == DevicesInv => DevicesFollow
<1> SUFFICES ASSUME DevicesInv  PROVE DevicesFollow
  OBVIOUS
<1>1. devices \in Seq(Device) /\ DOMAIN devices = 1..Len(devices) /\ Len(devices) \in Nat
  BY LenProperties DEF DevicesInv, DeviceTypes
<1>2. DevicesTypeOK
  <2>1. \A i \in DOMAIN devices : devices[i].what \in DeviceFiles \cup {"roku"}
    <3>1. \A i \in 1..Len(devices) : devices[i] \in Device
      BY <1>1, ElementOfSeq
    <3> QED  BY <1>1, <3>1 DEF Device, Known
  <2> QED  BY <2>1 DEF DevicesInv, DeviceTypes, DevicesTypeOK, PageOf
<1>3. LosesNothing
  BY DEF DevicesInv, NothingHarmed, LosesNothing
<1>4. PageOrder
  <2>1. SUFFICES ASSUME listPage.kind = "list", ~Twins
                 PROVE  [k \in DOMAIN listPage.items |-> listPage.items[k].dev] = devices
    BY DEF PageOrder
  <2>2. NoTwins(devices)
    BY <1>1, <2>1 DEF Twins, NoTwins
  <2>3. /\ listPage.items \in Seq(Item) /\ Len(listPage.items) = Len(devices)
        /\ \A k \in DOMAIN devices : listPage.items[k].dev = devices[k]
    BY <2>1, <2>2 DEF DevicesInv, DeviceTypes, PageOf, ItemsAreDevices, Shows, InItsOrder
  <2>4. DOMAIN listPage.items = 1..Len(devices)
    BY <2>3, LenProperties
  <2>5. devices = [k \in 1..Len(devices) |-> devices[k]]
    BY <1>1, LenProperties
  <2> QED  BY <1>1, <2>3, <2>4, <2>5
<1>5. SelectionAlive
  <2>1. SUFFICES ASSUME listPage.kind = "list", listPage.selected # 0
                 PROVE  ItemAt(listPage.selected) # 0 /\ At(selectedDevice) # 0
    BY DEF SelectionAlive
  <2> QED  BY <1>1, <2>1, SelectedProperties
<1>6. StrokeKept
  <2>1. SUFFICES ASSUME \A i \in stroke.acted : devices[i].what # "roku"
                 PROVE  ~(Cardinality(stroke.acted) > 1)
    BY DEF StrokeKept
  <2>2. \A i, j \in stroke.acted : i = j
    <3>1. SUFFICES ASSUME NEW i \in stroke.acted, NEW j \in stroke.acted  PROVE i = j
      OBVIOUS
    <3>2. i \in 1..Len(devices) /\ j \in 1..Len(devices) /\ i <= j /\ j <= i
      BY <1>1, <2>1 DEF DevicesInv, OneActs, IsFirst
    <3> QED  BY <1>1, <3>2
  <2>3. CASE stroke.acted = {}
    BY <2>3, FS_EmptySet
  <2>4. CASE stroke.acted # {}
    <3>1. PICK i : stroke.acted = {i}
      BY <2>2, <2>4
    <3>2. Cardinality({i}) = 1
      BY FS_Singleton
    <3> QED  BY <3>1, <3>2
  <2> QED  BY <2>3, <2>4
<1> QED  BY <1>2, <1>3, <1>4, <1>5, <1>6 DEF DevicesFollow

(* For any device files, and lists of any length: the devices are those the *)
(* user chose, now and after a restart, in the order the page shows        *)
(* (ActiveDevices.cpp, ActiveDeviceList.cpp), its selection is always an   *)
(* active device, and a stroke of a key is acted on by one of them.        *)
THEOREM ListIsTheUsers == DevSpec => []DevicesFollow
BY DevicesInit, DevicesStep, DevicesInvImplies, PTL DEF DevSpec

-------------------------------------------------------------------------------
(***************************************************************************)
(* Elements.                                                               *)
(***************************************************************************)

(* The tree, element by element.                                           *)
Named == {"List", "TabView", "TabA", "PageA", "SliderA", "TabB", "PageB", "PageS", "ItemS",
          "ExitS", "PageW", "TextW", "ExitW"}
LEMMA ElemsAre ==
  /\ DOMAIN ParentIn = Named
  /\ Elems = Screens \cup Named \cup Keyboards
  /\ \A k \in Keyboards : k \notin Screens \cup Named \cup {"dying Settings", "dying Wifi", Nobody}
BY ElementsAssumption DEF ParentIn, Named, Elems

LEMMA UpIs ==
  /\ Up("Home") = "Home" /\ Up("Settings") = "Settings" /\ Up("Wifi") = "Wifi"
  /\ Up("List") = "Home" /\ Up("TabView") = "Home" /\ Up("TabA") = "TabView"
  /\ Up("PageA") = "TabA" /\ Up("SliderA") = "PageA" /\ Up("TabB") = "TabView"
  /\ Up("PageB") = "TabB" /\ Up("PageS") = "Settings" /\ Up("ItemS") = "PageS"
  /\ Up("ExitS") = "Settings" /\ Up("PageW") = "Wifi" /\ Up("TextW") = "PageW"
  /\ Up("ExitW") = "Wifi"
  /\ \A k \in Keyboards : Up(k) = "PageW"
<1>1. \A e \in Named : e \notin Keyboards /\ e \notin Screens
  BY ElemsAre DEF Named, Screens
<1>2. \A e \in Named : Up(e) = ParentIn[e]
  BY <1>1 DEF Up, ParentOf
<1>3. \A e \in Screens : Up(e) = e
  BY DEF Up
<1>4. \A k \in Keyboards : Up(k) = "PageW"
  BY ElemsAre DEF Up, ParentOf
<1>5. /\ ParentIn["List"] = "Home" /\ ParentIn["TabView"] = "Home" /\ ParentIn["TabA"] = "TabView"
      /\ ParentIn["PageA"] = "TabA" /\ ParentIn["SliderA"] = "PageA" /\ ParentIn["TabB"] = "TabView"
      /\ ParentIn["PageB"] = "TabB" /\ ParentIn["PageS"] = "Settings" /\ ParentIn["ItemS"] = "PageS"
      /\ ParentIn["ExitS"] = "Settings" /\ ParentIn["PageW"] = "Wifi" /\ ParentIn["TextW"] = "PageW"
      /\ ParentIn["ExitW"] = "Wifi"
  BY DEF ParentIn
<1> QED  BY <1>2, <1>3, <1>4, <1>5 DEF Named, Screens


(* The screen an element is in: no element is more than four levels deep.  *)
Root(e) == Up(Up(Up(Up(e))))
LEMMA UpStays ==
  /\ \A e \in Elems : Up(e) \in Elems /\ Up(e) \notin Keyboards
  /\ \A e \in Elems : Up(e) = "TabView" => e \in {"TabA", "TabB"}
  /\ \A e \in Elems : Up(e) = "Home" => e \in {"Home", "List", "TabView"}
<1>1. \A k \in Keyboards : Up(k) = "PageW"
  BY UpIs
<1>2. \A e \in Screens : Up(e) = e
  BY UpIs DEF Screens
<1>3. \A e \in Named : Up(e) \in Elems /\ Up(e) \notin Keyboards
  BY UpIs, ElemsAre DEF Named, Screens
<1>4. \A e \in Screens : e \in Elems /\ e \notin Keyboards
  BY ElemsAre
<1>5. "PageW" \in Elems /\ "PageW" \notin Keyboards
  BY ElemsAre DEF Named
<1>6. \A e \in Named : Up(e) = "TabView" => e \in {"TabA", "TabB"}
  BY UpIs DEF Named
<1>7. \A e \in Named : Up(e) = "Home" => e \in {"Home", "List", "TabView"}
  BY UpIs DEF Named
<1>8. \A e \in Screens : e # "TabView"
  BY DEF Screens
<1> QED  BY <1>1, <1>2, <1>3, <1>4, <1>5, <1>6, <1>7, <1>8, ElemsAre

LEMMA RootIs ==
  /\ \A e \in Elems : Root(e) \in Screens /\ Up(Root(e)) = Root(e)
  /\ Screens \subseteq Elems
<1>1. \A e \in Screens : Up(e) = e
  BY UpIs DEF Screens
<1>2. \A e \in Named : Root(e) \in Screens
  BY UpIs DEF Named, Screens, Root
<1>3. \A e \in Keyboards : Root(e) \in Screens
  BY UpIs DEF Screens, Root
<1>4. \A e \in Screens : Root(e) \in Screens
  BY <1>1 DEF Root
<1> QED  BY <1>1, <1>2, <1>3, <1>4, ElemsAre

(* Ancestors.                                                              *)
LEMMA AboveFacts ==
  ASSUME NEW c \in Elems, NEW d \in Above(c)
  PROVE  /\ c \in Above(c) /\ d \in Elems /\ Above(d) \subseteq Above(c) /\ Up(d) \in Above(c)
         /\ Root(d) = Root(c) /\ Root(c) \in Above(c)
         /\ d \in Keyboards => d = c
         /\ d \in Screens => d = Root(c)
<1> DEFINE c1 == Up(c)
           c2 == Up(c1)
           c3 == Up(c2)
           c4 == Up(c3)
<1>1. Root(c) = c4 /\ Above(c) = {c, c1, c2, c3, c4}
  BY DEF Root, Above
<1>2. c1 \in Elems /\ c2 \in Elems /\ c3 \in Elems /\ c4 \in Elems
  BY UpStays
<1>3. c1 \notin Keyboards /\ c2 \notin Keyboards /\ c3 \notin Keyboards /\ c4 \notin Keyboards
  BY UpStays, <1>2
<1>4. Up(c4) = c4
  BY <1>1, RootIs
<1>5. /\ Above(c1) = {c1, c2, c3, c4} /\ Above(c2) = {c2, c3, c4} /\ Above(c3) = {c3, c4}
      /\ Above(c4) = {c4}
      /\ Root(c1) = c4 /\ Root(c2) = c4 /\ Root(c3) = c4 /\ Root(c4) = c4
  BY <1>4 DEF Above, Root
<1>6. d = c \/ d = c1 \/ d = c2 \/ d = c3 \/ d = c4
  BY <1>1
<1>7. d \in Screens => Up(d) = d
  BY UpIs DEF Screens
<1>8. Up(c) = c1 /\ Up(c1) = c2 /\ Up(c2) = c3 /\ Up(c3) = c4
  OBVIOUS
<1> HIDE DEF c1, c2, c3, c4
<1>9. d \in Screens => d = c4
  BY <1>4, <1>6, <1>7, <1>8
<1>10. d \in Elems /\ Above(d) \subseteq Above(c) /\ Root(d) = c4 /\ (d \in Keyboards => d = c)
  BY <1>1, <1>2, <1>3, <1>5, <1>6
<1>11. Up(d) \in Above(c)
  BY <1>1, <1>4, <1>6, <1>8
<1> QED  BY <1>1, <1>9, <1>10, <1>11

(* Whatever is in the home screen is in its list, or in its tab view.      *)
LEMMA HomeHas ==
  ASSUME NEW c \in Elems, Root(c) = "Home"
  PROVE  c = "Home" \/ "List" \in Above(c) \/ "TabView" \in Above(c)
<1> DEFINE c1 == Up(c)
           c2 == Up(c1)
           c3 == Up(c2)
           c4 == Up(c3)
<1>1. Root(c) = c4 /\ Above(c) = {c, c1, c2, c3, c4}
  BY DEF Root, Above
<1>2. c1 \in Elems /\ c2 \in Elems /\ c3 \in Elems /\ c4 \in Elems
  BY UpStays
<1>3. Up(c) = c1 /\ Up(c1) = c2 /\ Up(c2) = c3 /\ Up(c3) = c4
  OBVIOUS
<1> HIDE DEF c1, c2, c3, c4
<1>4. /\ c3 \in {"Home", "List", "TabView"}
      /\ c3 = "Home" => c2 \in {"Home", "List", "TabView"}
      /\ c2 = "Home" => c1 \in {"Home", "List", "TabView"}
      /\ c1 = "Home" => c \in {"Home", "List", "TabView"}
  BY <1>1, <1>2, <1>3, UpStays
<1> QED  BY <1>1, <1>4

(* A tab lies in the tab view of the home screen.                          *)
LEMMA TabsAre ==
  /\ DOMAIN Tabs = 1..2 /\ Tabs[1] = "TabA" /\ Tabs[2] = "TabB"
  /\ \A i \in 1..2 : Tabs[i] \in Elems /\ Above(Tabs[i]) = {Tabs[i], "TabView", "Home"}
  /\ Above("TabView") = {"TabView", "Home"} /\ Above("List") = {"List", "Home"}
  /\ {"TabView", "List", "Home", "Settings", "Wifi", "PageW"} \subseteq Elems
<1>1. DOMAIN Tabs = 1..2 /\ Tabs[1] = "TabA" /\ Tabs[2] = "TabB"
  BY DEF Tabs
<1>2. /\ Above("TabA") = {"TabA", "TabView", "Home"} /\ Above("TabB") = {"TabB", "TabView", "Home"}
      /\ Above("TabView") = {"TabView", "Home"} /\ Above("List") = {"List", "Home"}
  BY UpIs DEF Above
<1>3. {"TabA", "TabB", "TabView", "List", "Home", "Settings", "Wifi", "PageW"} \subseteq Elems
  BY ElemsAre DEF Screens, Named
<1> QED  BY <1>1, <1>2, <1>3

LEMMA InATab ==
  ASSUME NEW i \in 1..2, NEW c \in Below(Tabs[i])
  PROVE  Above(c) \subseteq Below(Tabs[i]) \cup {"TabView", "Home"}
<1> DEFINE c1 == Up(c)
           c2 == Up(c1)
           c3 == Up(c2)
           c4 == Up(c3)
           t == Tabs[i]
<1>1. Above(c) = {c, c1, c2, c3, c4} /\ t \in Above(c) /\ c \in Elems
  BY DEF Above, Below
<1>2. c1 \in Elems /\ c2 \in Elems /\ c3 \in Elems /\ c4 \in Elems /\ Up(c4) = c4
  BY <1>1, UpStays, RootIs DEF Root
<1>3. Up(c) = c1 /\ Up(c1) = c2 /\ Up(c2) = c3 /\ Up(c3) = c4
  OBVIOUS
<1>4. Up(t) = "TabView" /\ Up("TabView") = "Home" /\ Up("Home") = "Home"
  BY TabsAre, UpIs
<1>5. /\ Above(c1) = {c1, c2, c3, c4} /\ Above(c2) = {c2, c3, c4} /\ Above(c3) = {c3, c4}
      /\ Above(c4) = {c4}
  BY <1>2 DEF Above
<1> HIDE DEF c1, c2, c3, c4, t
<1>6. ASSUME NEW d \in Above(c), t \notin Above(d)  PROVE d \in {"TabView", "Home"}
  BY <1>6, <1>1, <1>2, <1>3, <1>4, <1>5
<1>7. \A d \in Above(c) : d \in Elems
  BY <1>1, <1>2
<1> QED  BY <1>6, <1>7 DEF Below, t

-------------------------------------------------------------------------------
(* The screens that are open, one above the other.                         *)
OnlyHome == <<"Home">>
WithSettings == <<"Home", "Settings">>
WithWifi == <<"Home", "Settings", "Wifi">>

(* What each variable can be: the wrappers are those of the open screens,  *)
(* and of the list and the tab view one is to be seen.                     *)
ElementTypes ==
  /\ alive \subseteq Elems /\ handled \subseteq alive /\ alive \subseteq objects
  /\ objects \subseteq alive \cup {"dying Settings", "dying Wifi"}
  /\ screenStack \in {OnlyHome, WithSettings, WithWifi} /\ loaded = Last(screenStack)
  /\ "Home" \in alive
  /\ "Settings" \in alive <=> screenStack # OnlyHome
  /\ "Wifi" \in alive <=> screenStack = WithWifi
  /\ "Wifi" \in alive => "PageW" \in alive
  /\ leaving \in {Nobody, "dying Settings", "dying Wifi"} \cup Screens
  /\ leaving # Nobody => leaving \in objects
  /\ concealed \in {{"List"}, {"TabView"}} /\ shownTab \in 1..2
  /\ mPasswordGetter \in Keyboards \cup {Nobody}

ParentsLive == \A e \in alive : Above(e) \subseteq alive
MovedLive   == /\ Keyboards \cap alive = {mPasswordGetter} \ {Nobody}
               /\ DOMAIN moves \subseteq alive \cap Keyboards /\ resting \subseteq DOMAIN moves

ElementsInv == ElementTypes /\ ParentsLive /\ MovedLive /\ SeenHasHeard

LEMMA StackFacts ==
  /\ Last(OnlyHome) = "Home" /\ Last(WithSettings) = "Settings" /\ Last(WithWifi) = "Wifi"
  /\ Front(WithSettings) = OnlyHome /\ Front(WithWifi) = WithSettings
  /\ Append(OnlyHome, "Settings") = WithSettings /\ Append(WithSettings, "Wifi") = WithWifi
  /\ ToSet(OnlyHome) = {"Home"} /\ ToSet(WithSettings) = {"Home", "Settings"}
  /\ ToSet(WithWifi) = {"Home", "Settings", "Wifi"}
  /\ OnlyHome # WithSettings /\ OnlyHome # WithWifi /\ WithSettings # WithWifi
<1>1. /\ OnlyHome \in Seq(Screens) /\ Len(OnlyHome) = 1 /\ OnlyHome[1] = "Home"
      /\ WithSettings \in Seq(Screens) /\ Len(WithSettings) = 2
      /\ WithSettings[1] = "Home" /\ WithSettings[2] = "Settings"
      /\ WithWifi \in Seq(Screens) /\ Len(WithWifi) = 3
      /\ WithWifi[1] = "Home" /\ WithWifi[2] = "Settings" /\ WithWifi[3] = "Wifi"
  BY DEF OnlyHome, WithSettings, WithWifi, Screens
<1>2. /\ Last(OnlyHome) = "Home" /\ Last(WithSettings) = "Settings" /\ Last(WithWifi) = "Wifi"
  BY <1>1 DEF Last
<1>3. Front(WithSettings) = OnlyHome
  <2> DEFINE f == SubSeq(WithSettings, 1, 1)
  <2>1. f \in Seq(Screens) /\ Len(f) = 1 /\ f[1] = "Home"
    <3>1. \A i \in 1..1 : WithSettings[i] \in Screens
      BY <1>1 DEF Screens
    <3> QED  BY <3>1, <1>1, SubSeqProperties
  <2> HIDE DEF f
  <2>2. f = OnlyHome
    BY <2>1, <1>1, SeqEqual
  <2> QED  BY <2>2, <1>1 DEF Front, f
<1>4. Front(WithWifi) = WithSettings
  <2> DEFINE f == SubSeq(WithWifi, 1, 2)
  <2>1. f \in Seq(Screens) /\ Len(f) = 2 /\ f[1] = "Home" /\ f[2] = "Settings"
    <3>1. \A i \in 1..2 : WithWifi[i] \in Screens
      BY <1>1 DEF Screens
    <3>2. /\ f \in Seq(Screens) /\ Len(f) = 2 /\ \A i \in 1..2 : f[i] = WithWifi[1 + i - 1]
      BY <3>1, SubSeqProperties
    <3>3. f[1] = WithWifi[1] /\ f[2] = WithWifi[2]
      BY <3>2
    <3> QED  BY <3>2, <3>3, <1>1
  <2> HIDE DEF f
  <2>2. f = WithSettings
    BY <2>1, <1>1, SeqEqual
  <2> QED  BY <2>2, <1>1 DEF Front, f
<1>5. Append(OnlyHome, "Settings") = WithSettings /\ Append(WithSettings, "Wifi") = WithWifi
  <2> DEFINE f == Append(OnlyHome, "Settings")
             g == Append(WithSettings, "Wifi")
  <2>1. "Settings" \in Screens /\ "Wifi" \in Screens
    BY DEF Screens
  <2>2. /\ f \in Seq(Screens) /\ Len(f) = 2 /\ f[1] = "Home" /\ f[2] = "Settings"
        /\ g \in Seq(Screens) /\ Len(g) = 3 /\ g[1] = "Home" /\ g[2] = "Settings" /\ g[3] = "Wifi"
    <3>a. ASSUME NEW s \in Seq(Screens), NEW e \in Screens
          PROVE  /\ Append(s, e) \in Seq(Screens) /\ Len(Append(s, e)) = Len(s) + 1
                 /\ Append(s, e)[Len(s) + 1] = e /\ \A i \in 1..Len(s) : Append(s, e)[i] = s[i]
      BY AppendProperties
    <3>1. /\ f \in Seq(Screens) /\ Len(f) = Len(OnlyHome) + 1 /\ f[Len(OnlyHome) + 1] = "Settings"
          /\ \A i \in 1..Len(OnlyHome) : f[i] = OnlyHome[i]
      BY <1>1, <2>1, <3>a
    <3>2. /\ g \in Seq(Screens) /\ Len(g) = Len(WithSettings) + 1 /\ g[Len(WithSettings) + 1] = "Wifi"
          /\ \A i \in 1..Len(WithSettings) : g[i] = WithSettings[i]
      BY <1>1, <2>1, <3>a
    <3> HIDE DEF f, g
    <3>3. f[1] = "Home" /\ g[1] = "Home" /\ g[2] = "Settings"
      BY <3>1, <3>2, <1>1
    <3> QED  BY <3>1, <3>2, <3>3, <1>1
  <2> HIDE DEF f, g
  <2>3. f = WithSettings
    BY <1>1, <2>2, SeqEqual
  <2>4. g = WithWifi
    BY <1>1, <2>2, SeqEqual
  <2> QED  BY <2>3, <2>4 DEF f, g
<1>6. DOMAIN OnlyHome = 1..1 /\ DOMAIN WithSettings = 1..2 /\ DOMAIN WithWifi = 1..3
  BY <1>1
<1>7. ToSet(OnlyHome) = {"Home"} /\ ToSet(WithSettings) = {"Home", "Settings"}
  BY <1>1, <1>6 DEF ToSet
<1>8. ToSet(WithWifi) = {"Home", "Settings", "Wifi"}
  BY <1>1, <1>6 DEF ToSet
<1> QED  BY <1>1, <1>2, <1>3, <1>4, <1>5, <1>7, <1>8

(* What the property says of the types follows.                            *)
LEMMA TypesFollow == ElementsInv => ElementsSafe
<1> SUFFICES ASSUME ElementsInv  PROVE ElementsSafe
  OBVIOUS
<1>1. objects \subseteq alive \cup {DyingOf[s] : s \in DOMAIN DyingOf}
  <2>1. /\ "Settings" \in DOMAIN DyingOf /\ DyingOf["Settings"] = "dying Settings"
        /\ "Wifi" \in DOMAIN DyingOf /\ DyingOf["Wifi"] = "dying Wifi"
    BY DEF DyingOf
  <2>2. {"dying Settings", "dying Wifi"} \subseteq {DyingOf[s] : s \in DOMAIN DyingOf}
    BY <2>1
  <2> QED  BY <2>2 DEF ElementsInv, ElementTypes
<1>2. ToSet(screenStack) \subseteq alive
  BY StackFacts DEF ElementsInv, ElementTypes
<1>3. ElementsTypeOK
  BY <1>1, <1>2 DEF ElementsTypeOK, ElementsInv, ElementTypes, ParentsLive, MovedLive
<1> QED
  BY <1>3 DEF ElementsSafe, ElementsInv, ElementTypes, MovedLive, EventsFindTheirElement, TransitionSafe,
              AnimationsFindTheirElement

(* An element can be seen if nothing above it is hidden or another tab's,  *)
(* and its screen is on the panel.                                         *)
Seen(c, hidden, current, shown) ==
  /\ Above(c) \cap hidden = {}
  /\ \A i \in 1..2 : Tabs[i] \in Above(c) => current = i
  /\ Root(c) \in shown
LEMMA SeenIs ==
  ASSUME NEW c \in Elems
  PROVE  /\ IsVisible(c) <=> Seen(c, concealed, shownTab, {loaded, leaving})
         /\ IsVisible(c)' <=> Seen(c, concealed', shownTab', {loaded', leaving'})
<1>1. /\ \A s \in Screens \cap Above(c) : s = Root(c)
      /\ Root(c) \in Screens \cap Above(c)
  <2>1. c \in Above(c)
    BY DEF Above
  <2> QED  BY <2>1, AboveFacts, RootIs
<1>2. DOMAIN Tabs = 1..2
  BY TabsAre
<1>3. (\E s \in Screens \cap Above(c) : s \in {loaded, leaving}) <=> Root(c) \in {loaded, leaving}
  BY <1>1
<1>4. (\E s \in Screens \cap Above(c) : s \in {loaded', leaving'}) <=> Root(c) \in {loaded', leaving'}
  BY <1>1
<1>5. (\A i \in DOMAIN Tabs : Tabs[i] \in Above(c) => shownTab = i)
      <=> \A i \in 1..2 : Tabs[i] \in Above(c) => shownTab = i
  BY <1>2
<1>6. (\A i \in DOMAIN Tabs : Tabs[i] \in Above(c) => shownTab' = i)
      <=> \A i \in 1..2 : Tabs[i] \in Above(c) => shownTab' = i
  BY <1>2
<1>7. IsVisible(c) <=> /\ Above(c) \cap concealed = {}
                       /\ \A i \in DOMAIN Tabs : Tabs[i] \in Above(c) => shownTab = i
                       /\ \E s \in Screens \cap Above(c) : s \in {loaded, leaving}
  BY DEF IsVisible
<1>8. IsVisible(c)' <=> /\ Above(c) \cap concealed' = {}
                        /\ \A i \in DOMAIN Tabs : Tabs[i] \in Above(c) => shownTab' = i
                        /\ \E s \in Screens \cap Above(c) : s \in {loaded', leaving'}
  BY DEF IsVisible
<1>9. IsVisible(c) <=> Seen(c, concealed, shownTab, {loaded, leaving})
  BY <1>3, <1>5, <1>7, Zenon DEF Seen
<1>10. IsVisible(c)' <=> Seen(c, concealed', shownTab', {loaded', leaving'})
  BY <1>4, <1>6, <1>8, Zenon DEF Seen
<1> QED  BY <1>9, <1>10

(* OnShow reaches everything below that can be seen afterwards, except in  *)
(* the settings' list.                                                     *)
Exempt == Below("PageS") \ {"PageS"}
LEMMA OnShowReaches ==
  ASSUME NEW e, NEW c \in Below(e), c \in alive', IsVisible(c)', c \notin Exempt
  PROVE  c \in OnShow(e)'
<1>1. c \in Elems /\ e \in Above(c)
  BY DEF Below
<1>2. SUFFICES ASSUME NEW d \in (Above(c) \cap Below(e)) \ {e}  PROVE PassesOnShow(ParentOf(d), d)'
  BY DEF OnShow
<1>3. d \in Elems /\ e \in Above(d) /\ d # e /\ d \in Above(c)
  BY <1>2 DEF Below
<1>4. d \notin Screens
  <2>1. ASSUME d \in Screens  PROVE FALSE
    <3>1. d = Root(d)
      BY <1>3, <2>1, AboveFacts DEF Above
    <3>2. Up(d) = d
      BY <2>1, UpIs DEF Screens
    <3> QED  BY <3>2, <1>3 DEF Above
  <2> QED  BY <2>1
<1>5. ParentOf(d) = Up(d) /\ Up(d) \in Above(c)
  BY <1>1, <1>3, <1>4, AboveFacts DEF Up
<1>6. Up(d) \notin concealed'
  BY <1>1, <1>5, SeenIs DEF Seen
<1>7. ASSUME Up(d) = "TabView"  PROVE d = Tabs[shownTab']
  <2>1. d \in {"TabA", "TabB"}
    BY <1>3, <1>7, UpStays
  <2>2. PICK i \in 1..2 : d = Tabs[i]
    BY <2>1, TabsAre
  <2>3. shownTab' = i
    BY <1>1, <1>3, <2>2, SeenIs DEF Seen
  <2> QED  BY <2>2, <2>3
<1>8. ASSUME Up(d) = "PageS"  PROVE FALSE
  <2>1. "PageS" \in Above(c)
    BY <1>5, <1>8
  <2>2. Up("PageS") = "Settings" /\ d # "PageS"
    BY <1>8, UpIs
  <2>3. c # "PageS"
    <3>1. ASSUME c = "PageS"  PROVE FALSE
      <4>1. Above(c) = {"PageS", "Settings"}
        BY <3>1, UpIs DEF Above
      <4>2. d = "Settings"
        BY <4>1, <1>3, <2>2
      <4> QED  BY <4>2, <1>4 DEF Screens
    <3> QED  BY <3>1
  <2> QED  BY <2>1, <2>3, <1>1 DEF Exempt, Below
<1> QED  BY <1>5, <1>6, <1>7, <1>8 DEF PassesOnShow

(* The screens of some elements, and what is below some.                   *)
LEMMA RootsAre ==
  /\ Root("Home") = "Home" /\ Root("Settings") = "Settings" /\ Root("Wifi") = "Wifi"
  /\ Root("PageW") = "Wifi" /\ Root("TabView") = "Home" /\ Root("List") = "Home"
  /\ \A k \in Keyboards : Root(k) = "Wifi"
BY UpIs DEF Root

LEMMA BelowFacts ==
  /\ \A e : \A c \in Below(e) : c \in Elems /\ e \in Above(c)
  /\ \A s \in Screens : \A c \in Elems : c \in Below(s) <=> Root(c) = s
  /\ \A c \in Below("TabView") : Root(c) = "Home" /\ c # "Home" /\ c \notin Keyboards
  /\ \A i \in 1..2 : \A c \in Below(Tabs[i]) : c \in Below("TabView")
  /\ \A k \in Keyboards : Below(k) = {k}
<1>1. \A e : \A c \in Elems : c \in Below(e) <=> e \in Above(c)
  BY DEF Below
<1>2. \A e : Below(e) \subseteq Elems
  BY DEF Below
<1>3. ASSUME NEW s \in Screens, NEW c \in Elems  PROVE c \in Below(s) <=> Root(c) = s
  <2>1. c \in Above(c)
    BY DEF Above
  <2> QED  BY <1>1, <1>3, <2>1, AboveFacts
<1>4. ASSUME NEW c \in Below("TabView")  PROVE Root(c) = "Home" /\ c # "Home" /\ c \notin Keyboards
  <2>1. c \in Elems /\ "TabView" \in Above(c)
    BY <1>1, <1>2
  <2>2. Root(c) = "Home"
    BY <2>1, AboveFacts, RootsAre
  <2>3. c # "Home"
    <3>1. Above("Home") = {"Home"}
      BY UpIs DEF Above
    <3> QED  BY <3>1, <2>1
  <2>4. c \notin Keyboards
    BY <2>2, RootsAre
  <2> QED  BY <2>2, <2>3, <2>4
<1>5. ASSUME NEW i \in 1..2, NEW c \in Below(Tabs[i])  PROVE c \in Below("TabView")
  <2>1. c \in Elems /\ Tabs[i] \in Above(c)
    BY <1>1, <1>2
  <2>2. "TabView" \in Above(Tabs[i])
    BY TabsAre
  <2> QED  BY <1>1, <2>1, <2>2, AboveFacts
<1>6. ASSUME NEW k \in Keyboards  PROVE Below(k) = {k}
  <2>1. k \in Elems /\ k \in Above(k)
    BY ElemsAre DEF Above
  <2>2. \A c \in Elems : k \in Above(c) => k = c
    BY AboveFacts
  <2> QED  BY <1>1, <1>2, <2>1, <2>2
<1> QED  BY <1>1, <1>2, <1>3, <1>4, <1>5, <1>6

(* What could be seen has heard OnShow; what is new to be seen hears it.   *)
LEMMA HeardStays ==
  ASSUME SeenHasHeard, NEW those, Told(those),
         \A c \in alive' : IsVisible(c)' /\ c \notin Exempt =>
                             c \in those \/ (c \in alive /\ IsVisible(c))
  PROVE  SeenHasHeard'
<1>1. \A c : c \in Visible <=> c \in alive /\ IsVisible(c)
  BY DEF Visible
<1>2. \A c : c \in Visible' <=> c \in alive' /\ IsVisible(c)'
  BY DEF Visible
<1>3. \A c \in Visible : c \notin Exempt => c \in heard
  BY DEF SeenHasHeard, Exempt
<1>4. heard' = (heard \cup those) \cap Visible'
  BY DEF Told
<1>5. \A c \in Visible' : c \notin Exempt => c \in heard'
  BY <1>1, <1>2, <1>3, <1>4
<1> QED  BY <1>5 DEF SeenHasHeard, Exempt

LEMMA NothingNew ==
  ASSUME ElementsInv, alive' \subseteq alive, UNCHANGED <<concealed, shownTab, loaded, leaving>>
  PROVE  /\ \A c \in alive' : IsVisible(c)' => c \in alive /\ IsVisible(c)
         /\ heard' = heard => SeenHasHeard'
<1>1. \A c \in alive' : c \in Elems /\ c \in alive
  BY DEF ElementsInv, ElementTypes
<1>2. \A c \in alive' : IsVisible(c)' => c \in alive /\ IsVisible(c)
  BY <1>1, SeenIs
<1>3. ASSUME heard' = heard  PROVE SeenHasHeard'
  <2>1. \A c : c \in Visible => c \in Exempt \/ c \in heard
    BY DEF SeenHasHeard, Exempt, ElementsInv
  <2>2. \A c : c \in Visible' => c \in Visible
    BY <1>2 DEF Visible
  <2>3. \A c : c \in Visible' => c \in Exempt \/ c \in heard'
    BY <1>3, <2>1, <2>2
  <2> QED  BY <2>3 DEF SeenHasHeard, Exempt
<1> QED  BY <1>2, <1>3

LEMMA ElementsBegin == ElementsInit => ElementsInv
<1> SUFFICES ASSUME ElementsInit  PROVE ElementsInv
  OBVIOUS
<1>1. /\ alive = {"Home", "List", "TabView"} /\ objects = alive /\ handled = alive \ {"List"}
      /\ concealed = {"TabView"} /\ shownTab = 1 /\ screenStack = OnlyHome /\ loaded = "Home"
      /\ leaving = Nobody /\ mPasswordGetter = Nobody /\ DOMAIN moves = {} /\ resting = {}
      /\ heard = {"Home", "List"}
  BY DEF ElementsInit, OnlyHome
<1>2. ElementTypes
  BY <1>1, TabsAre, StackFacts DEF ElementTypes
<1>3. Above("Home") = {"Home"} /\ Above("List") = {"List", "Home"} /\ Above("TabView") = {"TabView", "Home"}
  BY UpIs DEF Above
<1>4. ParentsLive
  BY <1>1, <1>3 DEF ParentsLive
<1>5. MovedLive
  <2>1. "Home" \notin Keyboards /\ "List" \notin Keyboards /\ "TabView" \notin Keyboards
    BY ElemsAre DEF Screens, Named
  <2> QED  BY <1>1, <2>1 DEF MovedLive
<1>6. ~IsVisible("TabView")
  BY <1>1, <1>3, TabsAre, SeenIs DEF Seen
<1>7. SeenHasHeard
  BY <1>1, <1>6 DEF SeenHasHeard, Visible
<1> QED  BY <1>2, <1>4, <1>5, <1>7 DEF ElementsInv

(* What the home screen's tab view and list do.                            *)
LEMMA DisplayKeeps ==
  ASSUME ElementsInv, NEW tabs \in 1..2, DisplayScenePage(tabs)  PROVE ElementsInv'
<1> DEFINE gone == Below("TabView")
           made == {"TabView"} \cup AddTabs(tabs)
<1>1. /\ alive' = (alive \ gone) \cup made /\ objects' = (objects \ gone) \cup made
      /\ handled' = (handled \ gone) \cup made
      /\ concealed' = {"List"} /\ shownTab' = 1 /\ UNCHANGED <<popUps, typing>>
      /\ Told(OnShow("TabView")') /\ loaded = "Home" /\ leaving = Nobody
  BY DEF DisplayScenePage, Touchable
<1>2. /\ \A c \in gone : Root(c) = "Home" /\ c # "Home" /\ c \notin Keyboards /\ c \in Elems
      /\ "TabView" \in gone
  BY BelowFacts, TabsAre DEF Below
<1>3. \A c \in made : c = "TabView" \/ \E i \in 1..2 : c \in Below(Tabs[i])
  BY DEF AddTabs
<1>4. made \subseteq gone
  BY <1>2, <1>3, BelowFacts
<1>5. UNCHANGED <<screenStack, loaded, leaving, mPasswordGetter, moves, resting>>
  BY <1>1 DEF popUps, typing
<1>6. "dying Settings" \notin Elems /\ "dying Wifi" \notin Elems /\ Nobody \notin Elems
  BY ElemsAre DEF Screens, Named, Nobody
<1> HIDE DEF gone, made
<1>7. ElementTypes'
  <2>1. \A c \in {"Home", "Settings", "Wifi", "PageW"} : c \in alive' <=> c \in alive
    <3>1. \A c \in {"Home", "Settings", "Wifi", "PageW"} : c \notin gone
      BY <1>2, RootsAre
    <3> QED  BY <3>1, <1>1, <1>4
  <2>2. /\ alive' \subseteq Elems /\ handled' \subseteq alive' /\ alive' \subseteq objects'
        /\ objects' \subseteq alive' \cup {"dying Settings", "dying Wifi"}
    BY <1>1, <1>2, <1>4 DEF ElementsInv, ElementTypes
  <2>3. /\ screenStack \in {OnlyHome, WithSettings, WithWifi} /\ loaded = Last(screenStack)
        /\ "Home" \in alive /\ ("Settings" \in alive <=> screenStack # OnlyHome)
        /\ ("Wifi" \in alive <=> screenStack = WithWifi) /\ ("Wifi" \in alive => "PageW" \in alive)
        /\ mPasswordGetter \in Keyboards \cup {Nobody}
    BY DEF ElementsInv, ElementTypes
  <2>4. loaded' = Last(screenStack')
    BY <1>5, <2>3
  <2>5. /\ "Home" \in alive' /\ ("Settings" \in alive' <=> screenStack' # OnlyHome)
        /\ ("Wifi" \in alive' <=> screenStack' = WithWifi) /\ ("Wifi" \in alive' => "PageW" \in alive')
    BY <1>5, <2>1, <2>3
  <2>6. leaving' = Nobody /\ shownTab' \in 1..2 /\ concealed' = {"List"}
    BY <1>1, <1>5
  <2> QED  BY <1>5, <2>2, <2>3, <2>4, <2>5, <2>6 DEF ElementTypes
<1>8. ParentsLive'
  <2>1. ASSUME NEW c \in alive \ gone, NEW d \in Above(c)  PROVE d \in alive'
    <3>1. c \in Elems /\ d \in alive
      BY <2>1 DEF ElementsInv, ElementTypes, ParentsLive
    <3>2. d \notin gone
      <4>1. ASSUME d \in gone  PROVE FALSE
        <5>1. "TabView" \in Above(d)
          BY <4>1, BelowFacts DEF gone
        <5>2. "TabView" \in Above(c)
          BY <3>1, <2>1, <5>1, AboveFacts
        <5> QED  BY <5>2, <3>1, <2>1 DEF gone, Below
      <4> QED  BY <4>1
    <3> QED  BY <3>1, <3>2, <1>1
  <2>2. ASSUME NEW c \in made, NEW d \in Above(c)  PROVE d \in alive'
    <3>1. "Home" \in alive' /\ "TabView" \in made
      BY <1>7 DEF ElementTypes, made
    <3>2. CASE c = "TabView"
      BY <3>1, <3>2, <2>2, TabsAre, <1>1
    <3>3. CASE c # "TabView"
      <4>1. PICK i \in 1..tabs : c \in Below(Tabs[i])
        BY <3>3, <2>2 DEF made, AddTabs
      <4>2. d \in Below(Tabs[i]) \cup {"TabView", "Home"}
        BY <4>1, <2>2, InATab
      <4>3. Below(Tabs[i]) \subseteq made
        BY DEF made, AddTabs
      <4> QED  BY <4>2, <4>3, <3>1, <1>1
    <3> QED  BY <3>2, <3>3
  <2> QED  BY <2>1, <2>2, <1>1 DEF ParentsLive
<1>9. MovedLive'
  <2>1. \A k \in Keyboards : k \in alive => k \in alive'
    BY <1>1, <1>2
  <2>2. \A k \in DOMAIN moves : k \in alive /\ k \in Keyboards
    BY DEF ElementsInv, MovedLive
  <2>4. \A k \in DOMAIN moves : k \in alive' /\ k \in Keyboards
    BY <2>1, <2>2
  <2>5. Keyboards \cap alive' = {mPasswordGetter} \ {Nobody}
    <3>1. \A k \in Keyboards : k \in alive' <=> k \in alive
      BY <1>1, <1>2, <1>4
    <3> QED  BY <3>1 DEF ElementsInv, MovedLive
  <2> QED  BY <2>4, <2>5, <1>5 DEF ElementsInv, MovedLive
<1>10. SeenHasHeard'
  <2>1. ASSUME NEW c \in alive', IsVisible(c)', c \notin Exempt
        PROVE  c \in OnShow("TabView")' \/ (c \in alive /\ IsVisible(c))
    <3>1. c \in Elems /\ Root(c) = "Home" /\ "List" \notin Above(c)
      <4>1. c \in Elems
        BY <2>1, <1>7 DEF ElementTypes
      <4>2. Root(c) \in {"Home", Nobody} /\ Above(c) \cap {"List"} = {}
        BY <4>1, <2>1, <1>1, <1>5, SeenIs DEF Seen
      <4>3. Root(c) # Nobody
        BY <4>1, RootIs, <1>6
      <4> QED  BY <4>1, <4>2, <4>3
    <3>2. CASE c = "Home"
      <4>1. Above("Home") = {"Home"}
        BY UpIs DEF Above
      <4>2. Seen("Home", concealed, shownTab, {loaded, leaving})
        <5>1. \A i \in 1..2 : Tabs[i] # "Home"
          BY TabsAre
        <5>2. "Home" \notin concealed
          <6>1. concealed = {"List"} \/ concealed = {"TabView"}
            BY DEF ElementsInv, ElementTypes
          <6> QED  BY <6>1
        <5> QED  BY <4>1, <5>1, <5>2, <1>1, RootsAre DEF Seen
      <4> QED  BY <3>1, <3>2, <4>2, SeenIs DEF ElementsInv, ElementTypes
    <3>3. CASE "TabView" \in Above(c)
      <4>1. c \in Below("TabView")
        BY <3>1, <3>3 DEF Below
      <4> QED  BY <4>1, <2>1, OnShowReaches
    <3> QED  BY <3>1, <3>2, <3>3, HomeHas
  <2> QED  BY <2>1, <1>1, HeardStays DEF ElementsInv
<1> QED  BY <1>7, <1>8, <1>9, <1>10 DEF ElementsInv

(* One of the two is hidden and the other one is shown.                    *)
LEMMA SwapKeeps ==
  ASSUME ElementsInv, NEW b \in {"List", "TabView"}, loaded = "Home", leaving = Nobody,
         concealed' = {"List", "TabView"} \ {b}, Told(Show(b)),
         UNCHANGED <<alive, objects, handled, shownTab, popUps, typing>>
  PROVE  ElementsInv'
<1>1. UNCHANGED <<alive, objects, handled, shownTab, screenStack, loaded, leaving, mPasswordGetter,
                  moves, resting>>
  BY DEF popUps, typing
<1>2. concealed' \in {{"List"}, {"TabView"}} /\ b \notin concealed'
  OBVIOUS
<1>3. ElementTypes' /\ ParentsLive' /\ MovedLive'
  BY <1>1, <1>2 DEF ElementsInv, ElementTypes, ParentsLive, MovedLive
<1>4. SeenHasHeard'
  <2>1. ASSUME NEW c \in alive', IsVisible(c)', c \notin Exempt, ~(c \in alive /\ IsVisible(c))
        PROVE  c \in Show(b)
    <3>1. c \in Elems /\ c \in alive
      BY <2>1, <1>1 DEF ElementsInv, ElementTypes
    <3>2. Seen(c, concealed', shownTab', {loaded', leaving'}) /\ ~Seen(c, concealed, shownTab, {loaded, leaving})
      BY <3>1, <2>1, SeenIs
    <3>3. ~(Above(c) \cap concealed = {}) /\ Above(c) \cap concealed' = {}
      BY <3>2, <1>1 DEF Seen
    <3>4. concealed = {b} /\ b \in Above(c)
      BY <3>3 DEF ElementsInv, ElementTypes
    <3>5. c \in Below(b)
      BY <3>1, <3>4 DEF Below
    <3>6. c \in OnShow(b)'
      BY <3>5, <2>1, OnShowReaches
    <3> QED  BY <3>4, <3>6 DEF Show
  <2> QED  BY <2>1, HeardStays DEF ElementsInv
<1> QED  BY <1>3, <1>4 DEF ElementsInv

LEMMA TabChangeKeeps ==
  ASSUME ElementsInv, NEW i \in 1..2, HandleTabChange(i)  PROVE ElementsInv'
<1>1. /\ shownTab' = i /\ Told(OnShow(Tabs[i])')
      /\ UNCHANGED <<alive, objects, handled, concealed, screenStack, loaded, leaving, mPasswordGetter,
                     moves, resting>>
  BY DEF HandleTabChange, popUps, typing
<1>2. ElementTypes' /\ ParentsLive' /\ MovedLive'
  BY <1>1 DEF ElementsInv, ElementTypes, ParentsLive, MovedLive
<1>3. SeenHasHeard'
  <2>1. ASSUME NEW c \in alive', IsVisible(c)', c \notin Exempt, ~(c \in alive /\ IsVisible(c))
        PROVE  c \in OnShow(Tabs[i])'
    <3>1. c \in Elems /\ c \in alive
      BY <2>1, <1>1 DEF ElementsInv, ElementTypes
    <3>2. Seen(c, concealed', shownTab', {loaded', leaving'}) /\ ~Seen(c, concealed, shownTab, {loaded, leaving})
      BY <3>1, <2>1, SeenIs
    <3>3. PICK j \in 1..2 : Tabs[j] \in Above(c) /\ shownTab # j
      BY <3>2, <1>1 DEF Seen
    <3>4. i = j
      BY <3>2, <3>3, <1>1 DEF Seen
    <3>5. c \in Below(Tabs[i])
      BY <3>1, <3>3, <3>4 DEF Below
    <3> QED  BY <3>5, <2>1, OnShowReaches
  <2> QED  BY <2>1, <1>1, HeardStays DEF ElementsInv
<1> QED  BY <1>2, <1>3 DEF ElementsInv

(* Pop-ups come and go.                                                    *)
LEMMA PushPopUpKeeps ==
  ASSUME ElementsInv, NEW s \in {"Settings", "Wifi"}, PushPopUp(s)  PROVE ElementsInv'
<1> DEFINE made == Below(s) \ Keyboards
<1>1. /\ alive' = alive \cup made /\ objects' = objects \cup made /\ handled' = handled \cup made
      /\ screenStack' = Append(screenStack, s) /\ loaded' = s /\ leaving' = loaded
      /\ UNCHANGED <<concealed, shownTab, mPasswordGetter, moves, resting>> /\ Told(OnShow(s)')
  BY DEF PushPopUp, Wrap, LoadScreen, typing
<1>2. /\ \/ s = "Settings" /\ loaded = "Home" /\ screenStack = OnlyHome
         \/ s = "Wifi" /\ loaded = "Settings" /\ screenStack = WithSettings
      /\ loaded \in alive /\ loaded \in Screens
  <2>1. (s = "Settings" /\ loaded = "Home") \/ (s = "Wifi" /\ loaded = "Settings")
    BY DEF PushPopUp, Touchable
  <2>2. screenStack \in {OnlyHome, WithSettings, WithWifi} /\ loaded = Last(screenStack)
    BY DEF ElementsInv, ElementTypes
  <2>3. (s = "Settings" /\ screenStack = OnlyHome) \/ (s = "Wifi" /\ screenStack = WithSettings)
    BY <2>1, <2>2, StackFacts
  <2>4. "Home" \in alive /\ (screenStack # OnlyHome => "Settings" \in alive)
    BY DEF ElementsInv, ElementTypes
  <2> QED  BY <2>1, <2>3, <2>4, StackFacts DEF Screens
<1>3. /\ s \in Screens /\ \A c \in made : c \in Elems /\ Root(c) = s /\ c \notin Keyboards
      /\ \A c \in Elems : Root(c) = s /\ c \notin Keyboards => c \in made
  <2>1. s \in Screens
    BY DEF Screens
  <2>2. made \subseteq Elems
    BY DEF Below
  <2> QED  BY <2>1, <2>2, BelowFacts
<1> HIDE DEF made
<1>4. ElementTypes'
  <2>1. /\ alive' \subseteq Elems /\ handled' \subseteq alive' /\ alive' \subseteq objects'
        /\ objects' \subseteq alive' \cup {"dying Settings", "dying Wifi"}
    BY <1>1, <1>3 DEF ElementsInv, ElementTypes
  <2>2. /\ screenStack' \in {OnlyHome, WithSettings, WithWifi} /\ loaded' = Last(screenStack')
        /\ s = "Settings" => screenStack' = WithSettings
        /\ s = "Wifi" => screenStack' = WithWifi
    BY <1>1, <1>2, StackFacts
  <2>3. /\ "Home" \in Elems /\ "Settings" \in Elems /\ "Wifi" \in Elems /\ "PageW" \in Elems
        /\ \A c \in {"Home", "Settings", "Wifi", "PageW"} : c \notin Keyboards
    BY ElemsAre DEF Screens, Named
  <2>4. s \in alive' /\ (s = "Wifi" => "PageW" \in alive') /\ (s = "Settings" => "Wifi" \notin made)
    BY <1>1, <1>3, <2>3, RootsAre
  <2>5. /\ "Home" \in alive /\ ("Settings" \in alive <=> screenStack # OnlyHome)
        /\ ("Wifi" \in alive <=> screenStack = WithWifi)
    BY DEF ElementsInv, ElementTypes
  <2>6. /\ "Home" \in alive' /\ "Settings" \in alive' /\ ("Wifi" \in alive' <=> screenStack' = WithWifi)
        /\ ("Wifi" \in alive' => "PageW" \in alive') /\ screenStack' # OnlyHome
    BY <1>1, <1>2, <2>2, <2>4, <2>5, StackFacts
  <2>7. leaving' \in Screens /\ leaving' \in objects'
    BY <1>1, <1>2, <2>1
  <2>8. /\ concealed' \in {{"List"}, {"TabView"}} /\ shownTab' \in 1..2
        /\ mPasswordGetter' \in Keyboards \cup {Nobody}
    BY <1>1 DEF ElementsInv, ElementTypes
  <2> QED  BY <2>1, <2>2, <2>6, <2>7, <2>8 DEF ElementTypes
<1>5. ParentsLive'
  <2>1. ASSUME NEW c \in made, NEW d \in Above(c)  PROVE d \in alive'
    <3>1. d \in Elems /\ Root(d) = s
      BY <1>3, <2>1, AboveFacts
    <3>2. d \notin Keyboards
      BY <1>3, <2>1, AboveFacts
    <3> QED  BY <3>1, <3>2, <1>3, <1>1
  <2> QED  BY <2>1, <1>1 DEF ParentsLive, ElementsInv
<1>6. MovedLive'
  <2>1. Keyboards \cap alive' = Keyboards \cap alive
    BY <1>1, <1>3
  <2> QED  BY <2>1, <1>1 DEF ElementsInv, MovedLive
<1>7. SeenHasHeard'
  <2>1. ASSUME NEW c \in alive', IsVisible(c)', c \notin Exempt, ~(c \in alive /\ IsVisible(c))
        PROVE  c \in OnShow(s)'
    <3>1. c \in Elems /\ Seen(c, concealed', shownTab', {loaded', leaving'})
      BY <2>1, <1>4, SeenIs DEF ElementTypes
    <3>2. Root(c) = s
      <4>1. ASSUME Root(c) # s  PROVE FALSE
        <5>1. c \in alive /\ Root(c) = loaded
          BY <4>1, <3>1, <2>1, <1>1, <1>3 DEF Seen
        <5>2. Seen(c, concealed, shownTab, {loaded, leaving})
          BY <5>1, <3>1, <1>1 DEF Seen
        <5> QED  BY <5>1, <5>2, <3>1, <2>1, SeenIs
      <4> QED  BY <4>1
    <3>3. c \in Below(s)
      BY <3>1, <3>2, <1>3, BelowFacts
    <3> QED  BY <3>3, <2>1, OnShowReaches
  <2> QED  BY <2>1, <1>1, HeardStays DEF ElementsInv
<1> QED  BY <1>4, <1>5, <1>6, <1>7 DEF ElementsInv

LEMMA PopKeeps ==
  ASSUME ElementsInv, NEW s \in {"Settings", "Wifi"}, PopScreen(s)  PROVE ElementsInv'
<1> DEFINE gone == Below(s)
<1>1. /\ alive' = alive \ gone /\ handled' = handled \ gone
      /\ objects' = (objects \ gone) \cup {DyingOf[s]}
      /\ DOMAIN moves' = DOMAIN moves \ gone /\ resting' = resting \ gone
      /\ screenStack' = Front(screenStack) /\ loaded' = Last(Front(screenStack))
      /\ leaving' = DyingOf[s] /\ mPasswordGetter' = Nobody
      /\ UNCHANGED <<concealed, shownTab>> /\ Told(OnShow(Last(screenStack))')
      /\ s = Last(screenStack) /\ loaded = s
  BY DEF PopScreen, LoadScreen, RemoveElement, DeleteObject, StopLvglEventHandler, StopAnimations,
         Touchable
<1>2. /\ DyingOf[s] \in {"dying Settings", "dying Wifi"}
      /\ "dying Settings" \notin Screens /\ "dying Wifi" \notin Screens
  <2>1. DyingOf["Settings"] = "dying Settings" /\ DyingOf["Wifi"] = "dying Wifi"
    BY DEF DyingOf
  <2> QED  BY <2>1 DEF Screens
<1>3. /\ s = "Settings" => screenStack = WithSettings /\ screenStack' = OnlyHome /\ loaded' = "Home"
      /\ s = "Wifi" => screenStack = WithWifi /\ screenStack' = WithSettings /\ loaded' = "Settings"
      /\ loaded' \in Screens /\ loaded' = Last(screenStack')
  <2>1. screenStack \in {OnlyHome, WithSettings, WithWifi}
    BY DEF ElementsInv, ElementTypes
  <2>2. (s = "Settings" /\ screenStack = WithSettings) \/ (s = "Wifi" /\ screenStack = WithWifi)
    BY <2>1, <1>1, StackFacts
  <2>3. /\ s = "Settings" => screenStack' = OnlyHome /\ loaded' = "Home"
        /\ s = "Wifi" => screenStack' = WithSettings /\ loaded' = "Settings"
    BY <2>2, <1>1, StackFacts
  <2> QED  BY <2>2, <2>3, <1>1, StackFacts DEF Screens
<1>4. s \in Screens /\ \A c \in Elems : c \in gone <=> Root(c) = s
  BY BelowFacts DEF Screens
<1> HIDE DEF gone
<1>5. ElementTypes'
  <2>1. /\ alive' \subseteq Elems /\ handled' \subseteq alive' /\ alive' \subseteq objects'
        /\ objects' \subseteq alive' \cup {"dying Settings", "dying Wifi"}
    BY <1>1, <1>2 DEF ElementsInv, ElementTypes
  <2>2. /\ "Home" \in Elems /\ "Settings" \in Elems /\ "Wifi" \in Elems
    BY ElemsAre DEF Screens
  <2>3. /\ "Home" \in alive' /\ "Home" \in alive
        /\ s = "Settings" => "Settings" \notin alive' /\ ("Wifi" \in alive' <=> "Wifi" \in alive)
        /\ s = "Wifi" => "Wifi" \notin alive' /\ ("Settings" \in alive' <=> "Settings" \in alive)
    BY <1>1, <1>4, <2>2, RootsAre DEF ElementsInv, ElementTypes
  <2>4. /\ ("Settings" \in alive <=> screenStack # OnlyHome) /\ ("Wifi" \in alive <=> screenStack = WithWifi)
    BY DEF ElementsInv, ElementTypes
  <2>5. /\ ("Settings" \in alive' <=> screenStack' # OnlyHome) /\ "Wifi" \notin alive'
        /\ screenStack' \in {OnlyHome, WithSettings} /\ screenStack' # WithWifi
    BY <2>3, <2>4, <1>3, StackFacts
  <2>6. leaving' \in {"dying Settings", "dying Wifi"} /\ leaving' \in objects'
    BY <1>1, <1>2
  <2>7. /\ concealed' \in {{"List"}, {"TabView"}} /\ shownTab' \in 1..2
        /\ mPasswordGetter' \in Keyboards \cup {Nobody}
    BY <1>1 DEF ElementsInv, ElementTypes
  <2> QED  BY <2>1, <2>3, <2>5, <2>6, <2>7, <1>3 DEF ElementTypes
<1>6. ParentsLive'
  <2>1. ASSUME NEW c \in alive', NEW d \in Above(c)  PROVE d \in alive'
    <3>1. c \in alive /\ c \in Elems /\ d \in alive
      BY <2>1, <1>1 DEF ElementsInv, ElementTypes, ParentsLive
    <3>2. Root(d) = Root(c) /\ d \in Elems
      BY <2>1, <3>1, AboveFacts
    <3> QED  BY <2>1, <3>1, <3>2, <1>1, <1>4
  <2> QED  BY <2>1 DEF ParentsLive
<1>7. MovedLive'
  <2>1. ASSUME NEW c \in Keyboards, c \in alive'  PROVE FALSE
    <3>1. c \in alive /\ c \in Elems /\ Root(c) # s
      BY <2>1, <1>1, <1>4 DEF ElementsInv, ElementTypes
    <3>2. "Wifi" \in Above(c) /\ Root(c) = "Wifi"
      BY <2>1, UpIs, RootsAre DEF Above
    <3>3. "Wifi" \in alive
      BY <3>1, <3>2 DEF ElementsInv, ParentsLive
    <3>4. s = "Wifi"
      BY <3>3, <1>1, StackFacts DEF ElementsInv, ElementTypes
    <3> QED  BY <3>1, <3>2, <3>4
  <2> QED  BY <2>1, <1>1 DEF ElementsInv, MovedLive
<1>8. SeenHasHeard'
  <2>1. ASSUME NEW c \in alive', IsVisible(c)', c \notin Exempt
        PROVE  c \in OnShow(Last(screenStack))'
    <3>1. c \in Elems /\ Seen(c, concealed', shownTab', {loaded', leaving'})
      BY <2>1, <1>5, SeenIs DEF ElementTypes
    <3>2. Root(c) = loaded'
      BY <3>1, <1>1, <1>2, RootIs DEF Seen
    <3>3. c \in Below(loaded')
      BY <3>1, <3>2, <1>3, BelowFacts
    <3>4. PICK e \in Screens : e = loaded' /\ e = Last(screenStack')
      BY <1>3
    <3>5. c \in OnShow(e)'
      BY <3>3, <3>4, <2>1, OnShowReaches
    <3> QED  BY <3>4, <3>5 DEF OnShow
  <2> QED  BY <2>1, <1>1, HeardStays DEF ElementsInv
<1> QED  BY <1>5, <1>6, <1>7, <1>8 DEF ElementsInv

LEMMA TransitionKeeps == ASSUME ElementsInv, TransitionEnds PROVE ElementsInv'
<1>1. /\ leaving' = Nobody /\ Told({})
      /\ UNCHANGED <<alive, objects, handled, concealed, shownTab, screenStack, loaded, mPasswordGetter,
                     moves, resting>>
  BY DEF TransitionEnds, typing
<1>2. ElementTypes' /\ ParentsLive' /\ MovedLive'
  BY <1>1 DEF ElementsInv, ElementTypes, ParentsLive, MovedLive
<1>3. SeenHasHeard'
  <2>1. ASSUME NEW c \in alive', IsVisible(c)'  PROVE c \in alive /\ IsVisible(c)
    <3>1. c \in Elems /\ c \in alive
      BY <2>1, <1>1 DEF ElementsInv, ElementTypes
    <3>2. Nobody \notin Screens
      BY DEF Nobody, Screens
    <3>3. Seen(c, concealed', shownTab', {loaded', leaving'})
      BY <3>1, <2>1, SeenIs
    <3>4. Seen(c, concealed, shownTab, {loaded, leaving})
      BY <3>1, <3>2, <3>3, <1>1, RootIs DEF Seen
    <3> QED  BY <3>1, <3>4, SeenIs
  <2> QED  BY <2>1, <1>1, HeardStays DEF ElementsInv
<1> QED  BY <1>2, <1>3 DEF ElementsInv

LEMMA DeletionKeeps ==
  ASSUME ElementsInv, NEW o \in {"dying Settings", "dying Wifi"}, DeletionDue(o)  PROVE ElementsInv'
<1>1. /\ objects' = objects \ {o} /\ handled' = handled \ {o} /\ heard' = heard /\ leaving = Nobody
      /\ UNCHANGED <<alive, concealed, shownTab, screenStack, loaded, leaving, mPasswordGetter, moves,
                     resting>>
  BY DEF DeletionDue, popUps, typing
<1>2. o \notin alive
  BY ElemsAre DEF ElementsInv, ElementTypes, Screens, Named
<1>3. ElementTypes' /\ ParentsLive' /\ MovedLive'
  BY <1>1, <1>2 DEF ElementsInv, ElementTypes, ParentsLive, MovedLive
<1>4. SeenHasHeard'
  BY <1>1, NothingNew
<1> QED  BY <1>3, <1>4 DEF ElementsInv

(* Keyboards come, turn around and go.                                     *)
LEMMA OpenKeeps ==
  ASSUME ElementsInv, NEW k \in Keyboards, OpenKeyboard(k)  PROVE ElementsInv'
<1> DEFINE those == IF IsVisible("PageW") THEN OnShow(k)' ELSE {}
<1>1. /\ alive' = alive \cup {k} /\ objects' = objects \cup {k} /\ handled' = handled \cup {k}
      /\ DOMAIN moves' = DOMAIN moves \cup {k} /\ mPasswordGetter' = k /\ Told(those)
      /\ UNCHANGED <<concealed, shownTab, screenStack, loaded, leaving, resting>>
      /\ loaded = "Wifi" /\ mPasswordGetter = Nobody
  BY DEF OpenKeyboard, Wrap, Touchable, popUps
<1>2. /\ k \in Elems /\ k \notin {"Home", "Settings", "Wifi", "PageW"}
      /\ Above(k) = {k, "PageW", "Wifi"} /\ Above("PageW") = {"PageW", "Wifi"} /\ "PageW" \in Elems
  <2>1. k \in Elems /\ k \notin Screens \cup Named /\ "PageW" \in Named /\ "PageW" \in Elems
    BY ElemsAre DEF Named
  <2>2. k \notin {"Home", "Settings", "Wifi", "PageW"}
    BY <2>1 DEF Screens
  <2>3. Up(k) = "PageW" /\ Up("PageW") = "Wifi" /\ Up("Wifi") = "Wifi"
    BY UpIs
  <2>4. Above(k) = {k, "PageW", "Wifi"} /\ Above("PageW") = {"PageW", "Wifi"}
    BY <2>3 DEF Above
  <2> QED  BY <2>1, <2>2, <2>4
<1>3. "Wifi" \in alive /\ "PageW" \in alive
  <2>1. screenStack \in {OnlyHome, WithSettings, WithWifi} /\ loaded = Last(screenStack)
    BY DEF ElementsInv, ElementTypes
  <2>2. screenStack = WithWifi
    BY <2>1, <1>1, StackFacts
  <2> QED  BY <2>2 DEF ElementsInv, ElementTypes
<1> HIDE DEF those
<1>4. ElementTypes'
  BY <1>1, <1>2 DEF ElementsInv, ElementTypes
<1>5. ParentsLive'
  BY <1>1, <1>2, <1>3 DEF ElementsInv, ParentsLive
<1>6. MovedLive'
  BY <1>1, ElementsAssumption DEF ElementsInv, MovedLive
<1>7. SeenHasHeard'
  <2>1. ASSUME NEW c \in alive', IsVisible(c)', c \notin Exempt, ~(c \in alive /\ IsVisible(c))
        PROVE  c \in those
    <3>1. c \in Elems /\ Seen(c, concealed', shownTab', {loaded', leaving'})
      BY <2>1, <1>4, SeenIs DEF ElementTypes
    <3>2. Seen(c, concealed, shownTab, {loaded, leaving})
      BY <3>1, <1>1
    <3>3. c = k
      BY <3>1, <3>2, <2>1, <1>1, SeenIs
    <3>4. IsVisible("PageW")
      <4>1. Root("PageW") = Root(k)
        BY RootsAre
      <4>2. Seen("PageW", concealed, shownTab, {loaded, leaving})
        BY <3>2, <3>3, <4>1, <1>2 DEF Seen
      <4> QED  BY <4>2, <1>2, SeenIs
    <3>5. c \in OnShow(k)'
      <4>1. c \in Below(k)
        BY <3>3, BelowFacts
      <4> QED  BY <4>1, <2>1, OnShowReaches
    <3> QED  BY <3>4, <3>5 DEF those
  <2> QED  BY <2>1, <1>1, HeardStays DEF ElementsInv
<1> QED  BY <1>4, <1>5, <1>6, <1>7 DEF ElementsInv

LEMMA AnimateKeeps == ASSUME ElementsInv, AnimateOut PROVE ElementsInv'
<1>1. /\ DOMAIN moves' = DOMAIN moves /\ resting' \subseteq resting /\ heard' = heard
      /\ UNCHANGED <<alive, objects, handled, concealed, shownTab, screenStack, loaded, leaving,
                     mPasswordGetter>>
  BY DEF AnimateOut, popUps
<1>2. ElementTypes' /\ ParentsLive' /\ MovedLive'
  BY <1>1 DEF ElementsInv, ElementTypes, ParentsLive, MovedLive
<1>3. SeenHasHeard'
  BY <1>1, NothingNew
<1> QED  BY <1>2, <1>3 DEF ElementsInv

LEMMA EndKeeps ==
  ASSUME ElementsInv, NEW k \in Keyboards, AnimationEnds(k)  PROVE ElementsInv'
<1> DEFINE m == mPasswordGetter
<1>1. /\ Told({}) /\ UNCHANGED <<concealed, shownTab, screenStack, loaded, leaving>>
      /\ k \in DOMAIN moves
  BY DEF AnimationEnds, popUps
<1>2. CASE moves[k].handler
  <2>1. m \in Keyboards /\ m \in alive /\ m \in Elems /\ Below(m) = {m}
    BY <1>1, BelowFacts DEF ElementsInv, ElementTypes, MovedLive
  <2>2. /\ alive' = alive \ {m} /\ objects' = objects \ {m} /\ handled' = handled \ {m}
        /\ DOMAIN moves' = DOMAIN moves \ {m} /\ resting' = resting \ {m}
        /\ mPasswordGetter' = Nobody
    BY <1>2, <2>1 DEF AnimationEnds, RemoveElement, DeleteObject, StopLvglEventHandler,
                           StopAnimations
  <2>3. /\ m # Nobody /\ m \notin {"Home", "Settings", "Wifi", "PageW", "dying Settings", "dying Wifi"}
        /\ leaving # m
    BY <2>1, ElementsAssumption, ElemsAre DEF Screens, Named, ElementsInv, ElementTypes, Nobody
  <2>4. ElementTypes'
    BY <1>1, <2>2, <2>3 DEF ElementsInv, ElementTypes
  <2>5. ParentsLive'
    <3>1. ASSUME NEW c \in alive', NEW d \in Above(c)  PROVE d \in alive'
      <4>1. c \in alive /\ c \in Elems /\ d \in alive /\ c # m
        BY <3>1, <2>2 DEF ElementsInv, ElementTypes, ParentsLive
      <4>2. d # m
        BY <4>1, <3>1, <2>1, AboveFacts
      <4> QED  BY <4>1, <4>2, <2>2
    <3> QED  BY <3>1 DEF ParentsLive
  <2>6. MovedLive'
    BY <1>1, <2>2, <2>3 DEF ElementsInv, MovedLive
  <2>7. SeenHasHeard'
    <3>1. alive' \subseteq alive
      BY <2>2
    <3>2. \A c \in alive' : IsVisible(c)' => c \in alive /\ IsVisible(c)
      BY <3>1, <1>1, NothingNew
    <3> QED  BY <3>2, <1>1, HeardStays DEF ElementsInv
  <2> QED  BY <2>4, <2>5, <2>6, <2>7 DEF ElementsInv
<1>3. CASE ~moves[k].handler
  <2>1. /\ UNCHANGED <<alive, objects, handled, moves>> /\ resting' = resting \cup {k}
        /\ mPasswordGetter' = m
    BY <1>3 DEF AnimationEnds
  <2>2. ElementTypes' /\ ParentsLive' /\ MovedLive'
    BY <1>1, <2>1 DEF ElementsInv, ElementTypes, ParentsLive, MovedLive
  <2>3. SeenHasHeard'
    <3>1. \A c \in alive' : IsVisible(c)' => c \in alive /\ IsVisible(c)
      BY <2>1, <1>1, NothingNew
    <3> QED  BY <3>1, <1>1, HeardStays DEF ElementsInv
  <2> QED  BY <2>2, <2>3 DEF ElementsInv
<1> QED  BY <1>2, <1>3

LEMMA ElementsStepKeeps == ElementsInv /\ [ElementsNext]_elemVars => ElementsInv'
<1> SUFFICES ASSUME ElementsInv, [ElementsNext]_elemVars  PROVE ElementsInv'
  OBVIOUS
<1>1. DOMAIN Tabs = 1..2
  BY TabsAre
<1>2. /\ DOMAIN DyingOf = {"Settings", "Wifi"}
      /\ \A s \in {"Settings", "Wifi"} : DyingOf[s] \in {"dying Settings", "dying Wifi"}
  BY DEF DyingOf
<1>3. ASSUME NEW tabs \in DOMAIN Tabs, DisplayScenePage(tabs)  PROVE ElementsInv'
  BY <1>1, <1>3, DisplayKeeps
<1>4. ASSUME ComeBack \/ ShowList  PROVE ElementsInv'
  <2>1. CASE ComeBack
    <3>1. /\ loaded = "Home" /\ leaving = Nobody /\ concealed' = {"List", "TabView"} \ {"TabView"}
          /\ Told(Show("TabView")) /\ UNCHANGED <<alive, objects, handled, shownTab, popUps, typing>>
      BY <2>1 DEF ComeBack, Touchable
    <3> QED  BY <3>1, SwapKeeps
  <2>2. CASE ShowList
    <3>1. /\ loaded = "Home" /\ leaving = Nobody /\ concealed' = {"List", "TabView"} \ {"List"}
          /\ Told(Show("List")) /\ UNCHANGED <<alive, objects, handled, shownTab, popUps, typing>>
      BY <2>2 DEF ShowList, Touchable
    <3> QED  BY <3>1, SwapKeeps
  <2> QED  BY <2>1, <2>2, <1>4
<1>5. ASSUME NEW i \in DOMAIN Tabs, HandleTabChange(i)  PROVE ElementsInv'
  BY <1>1, <1>5, TabChangeKeeps
<1>6. ASSUME NEW s \in DOMAIN DyingOf, PushPopUp(s)  PROVE ElementsInv'
  BY <1>2, <1>6, PushPopUpKeeps
<1>7. ASSUME NEW s \in DOMAIN DyingOf, PopScreen(s)  PROVE ElementsInv'
  BY <1>2, <1>7, PopKeeps
<1>8. ASSUME NEW s \in DOMAIN DyingOf, DeletionDue(DyingOf[s])  PROVE ElementsInv'
  BY <1>2, <1>8, DeletionKeeps
<1>9. ASSUME TransitionEnds  PROVE ElementsInv'
  BY <1>9, TransitionKeeps
<1>10. ASSUME NEW k \in Keyboards, OpenKeyboard(k)  PROVE ElementsInv'
  BY <1>10, OpenKeeps
<1>11. ASSUME NEW k \in Keyboards, AnimationEnds(k)  PROVE ElementsInv'
  BY <1>11, EndKeeps
<1>12. ASSUME AnimateOut  PROVE ElementsInv'
  BY <1>12, AnimateKeeps
<1>13. ASSUME UNCHANGED elemVars  PROVE ElementsInv'
  <2>1. /\ UNCHANGED <<alive, objects, handled, concealed, shownTab, screenStack, loaded, leaving,
                       mPasswordGetter, moves, resting>>
        /\ heard' = heard
    BY <1>13 DEF elemVars
  <2>2. ElementTypes' /\ ParentsLive' /\ MovedLive'
    BY <2>1 DEF ElementsInv, ElementTypes, ParentsLive, MovedLive
  <2>3. SeenHasHeard'
    BY <2>1, NothingNew
  <2> QED  BY <2>2, <2>3 DEF ElementsInv
<1> QED
  BY <1>3, <1>4, <1>5, <1>6, <1>7, <1>8, <1>9, <1>10, <1>11, <1>12, <1>13 DEF ElementsNext

(* For any keyboards on the way in and out, however screens, tabs and      *)
(* pop-ups follow each other: events, transitions and animations meet live *)
(* elements, and whatever can be seen has been told that it is shown.      *)
THEOREM ElementsAreSafe == ElementsSpec => []ElementsSafe
<1>1. ElementsSpec => []ElementsInv
  BY ElementsBegin, ElementsStepKeeps, PTL DEF ElementsSpec
<1> QED  BY <1>1, TypesFollow, PTL
-------------------------------------------------------------------------------
(***************************************************************************)
(* The settings.                                                           *)
(***************************************************************************)
AtHome    == <<"home">>
AtList    == <<"home", "settings">>
AtPage(p) == <<"home", "settings", p>>

(* What a setting can be: what its page offers, what a restart makes of    *)
(* nothing, or the default.                                                *)
PageValues(k) == Offered[k] \cup {0, Usable(k, 0), Default[k]}
PageTypes ==
  /\ \/ mScreens \in {<< >>, AtHome, AtList} /\ mSaveRequired = FALSE
     \/ \E p \in Pages : mScreens = AtPage(p)
  /\ mSaveRequired \in BOOLEAN /\ alreadySetUp \in BOOLEAN
  /\ DOMAIN settings = DOMAIN Offered /\ DOMAIN nvs = DOMAIN Offered
  /\ \A k \in DOMAIN Offered : settings[k] \in PageValues(k) /\ nvs[k] \in PageValues(k)
  /\ mCurrentLogLevels \in [LogModules -> LogLevels]
  /\ logFile = {} \/ \E f \in [LogModules -> LogLevels] : logFile = {f}

(* Only the page that is open and was used differs from the flash.         *)
SettingsAgree == \A k \in DOMAIN Offered : RestoredSettings[k] = Usable(k, settings[k])
LogsAgree     == mCurrentLogLevels = LogsRestored
OnlyOnePageDiffers ==
  /\ \/ Off \/ SettingsAgree
     \/ mSaveRequired /\ \E p \in Pages \ {"logging"} : mScreens = AtPage(p)
  /\ \/ Off \/ LogsAgree
     \/ mSaveRequired /\ mScreens = AtPage("logging")

PagesInv == PageTypes /\ OnlyOnePageDiffers

LEMMA UsableFacts ==
  ASSUME SettingsAssumption, NEW k, NEW v
  PROVE  /\ Usable(k, Usable(k, v)) = Usable(k, v)
         /\ Usable(k, v) \in {v, Usable(k, 0), Default[k]}
<1>1. CASE k = "lcd"
  <2>1. CASE v < Darkest
    BY <1>1, <2>1 DEF Usable, SettingsAssumption
  <2>2. CASE ~(v < Darkest)
    BY <1>1, <2>2 DEF Usable
  <2> QED  BY <2>1, <2>2
<1>2. CASE k = "timeout"
  BY <1>2 DEF Usable
<1>3. CASE k # "lcd" /\ k # "timeout"
  BY <1>3 DEF Usable
<1> QED  BY <1>1, <1>2, <1>3

LEMMA PageStackFacts ==
  /\ Last(AtHome) = "home" /\ Last(AtList) = "settings"
  /\ Len(<< >>) = 0 /\ Len(AtHome) = 1 /\ Len(AtList) = 2
  /\ Append(AtHome, "settings") = AtList /\ Front(AtList) = AtHome
  /\ AtHome # << >> /\ AtList # << >> /\ AtHome # AtList
  /\ \A p \in Pages : /\ Last(AtPage(p)) = p /\ Len(AtPage(p)) = 3 /\ AtPage(p)[1] = "home"
                      /\ Append(AtList, p) = AtPage(p) /\ Front(AtPage(p)) = AtList
                      /\ AtPage(p) # << >> /\ AtPage(p) # AtHome /\ AtPage(p) # AtList
  /\ AtHome[1] = "home" /\ AtList[1] = "home"
  /\ ~(Len(<< >>) > 1) /\ ~(Len(AtHome) > 1)
  /\ Len(AtHome) <= 3 /\ Len(AtList) <= 3 /\ \A p \in Pages : Len(AtPage(p)) <= 3
<1> DEFINE Names == {"home", "settings"} \cup Pages
<1>1. /\ AtHome \in Seq(Names) /\ Len(AtHome) = 1 /\ AtHome[1] = "home"
      /\ AtList \in Seq(Names) /\ Len(AtList) = 2 /\ AtList[1] = "home" /\ AtList[2] = "settings"
  BY DEF AtHome, AtList
<1>2. ASSUME NEW p \in Pages
      PROVE  /\ AtPage(p) \in Seq(Names) /\ Len(AtPage(p)) = 3
             /\ AtPage(p)[1] = "home" /\ AtPage(p)[2] = "settings" /\ AtPage(p)[3] = p
  BY DEF AtPage
<1> HIDE DEF Names
<1>3. Pages \subseteq Names /\ "home" \in Names /\ "settings" \in Names
  BY DEF Names
<1>4. ASSUME NEW s \in Seq(Names), NEW e \in Names
      PROVE  /\ Append(s, e) \in Seq(Names) /\ Len(Append(s, e)) = Len(s) + 1
             /\ Append(s, e)[Len(s) + 1] = e /\ \A i \in 1..Len(s) : Append(s, e)[i] = s[i]
  BY AppendProperties
<1>5. ASSUME NEW s \in Seq(Names), NEW t \in Seq(Names), Len(t) = Len(s) + 1,
             \A i \in 1..Len(s) : t[i] = s[i]
      PROVE  Front(t) = s /\ Append(s, t[Len(t)]) = t /\ Last(t) = t[Len(t)]
  <2> DEFINE f == SubSeq(t, 1, Len(s))
  <2>1. \A i \in 1..Len(t) : t[i] \in Names
    BY <1>5, ElementOfSeq
  <2>2. Len(s) \in Nat /\ \A i \in 1..Len(s) : t[i] \in Names
    BY <1>5, <2>1, LenProperties
  <2>3. f \in Seq(Names) /\ Len(f) = Len(s) /\ \A i \in 1..Len(s) : f[i] = t[i]
    BY <2>2, SubSeqProperties
  <2> HIDE DEF f
  <2>4. f = s
    BY <1>5, <2>2, <2>3, SeqEqual
  <2>5. Front(t) = s
    BY <1>5, <2>2, <2>4 DEF Front, f
  <2>6. t[Len(t)] \in Names /\ Len(t) \in 1..Len(t)
    BY <1>5, <2>1, <2>2
  <2> DEFINE a == Append(s, t[Len(t)])
  <2>7. a \in Seq(Names) /\ Len(a) = Len(t) /\ a[Len(t)] = t[Len(t)] /\ \A i \in 1..Len(s) : a[i] = t[i]
    BY <1>4, <1>5, <2>6
  <2> HIDE DEF a
  <2>8. \A i \in 1..Len(t) : a[i] = t[i]
    BY <2>2, <2>7, <1>5
  <2>9. a = t
    BY <2>7, <2>8, <1>5, SeqEqual
  <2> QED  BY <2>5, <2>9 DEF a, Last
<1>6. Front(AtList) = AtHome /\ Append(AtHome, "settings") = AtList /\ Last(AtList) = "settings"
  <2>1. Len(AtList) = Len(AtHome) + 1 /\ \A i \in 1..Len(AtHome) : AtList[i] = AtHome[i]
    BY <1>1
  <2>2. AtList[Len(AtList)] = "settings"
    BY <1>1
  <2> QED  BY <1>1, <1>5, <2>1, <2>2
<1>7. ASSUME NEW p \in Pages
      PROVE  Front(AtPage(p)) = AtList /\ Append(AtList, p) = AtPage(p) /\ Last(AtPage(p)) = p
  <2>1. Len(AtPage(p)) = Len(AtList) + 1 /\ \A i \in 1..Len(AtList) : AtPage(p)[i] = AtList[i]
    BY <1>1, <1>2
  <2>2. AtPage(p)[Len(AtPage(p))] = p
    BY <1>2
  <2> QED  BY <1>1, <1>2, <1>5, <2>1, <2>2
<1>8. Last(AtHome) = "home"
  BY <1>1 DEF Last
<1>9. /\ ~(Len(<< >>) > 1) /\ ~(Len(AtHome) > 1) /\ Len(AtHome) <= 3 /\ Len(AtList) <= 3
      /\ \A p \in Pages : Len(AtPage(p)) <= 3
  <2>1. ~(Len(<< >>) > 1)
    OBVIOUS
  <2>2. ~(Len(AtHome) > 1) /\ Len(AtHome) <= 3
    <3>1. Len(AtHome) = 1
      BY <1>1
    <3> QED  BY <3>1
  <2>3. Len(AtList) <= 3
    <3>1. Len(AtList) = 2
      BY <1>1
    <3> QED  BY <3>1
  <2>4. ASSUME NEW p \in Pages  PROVE Len(AtPage(p)) <= 3
    <3>1. Len(AtPage(p)) = 3
      BY <1>2
    <3> QED  BY <3>1
  <2> QED  BY <2>1, <2>2, <2>3, <2>4
<1> QED  BY <1>1, <1>2, <1>6, <1>7, <1>8, <1>9

LEMMA PagesBegin == SettingsAssumption /\ PagesInit => PagesInv
<1> SUFFICES ASSUME SettingsAssumption, PagesInit  PROVE PagesInv
  OBVIOUS
<1>1. PageTypes
  BY DEF PagesInit, PageTypes, PageValues, SettingsAssumption, AllWarn, Unreadable
<1>2. OnlyOnePageDiffers
  BY DEF PagesInit, OnlyOnePageDiffers, Off
<1> QED  BY <1>1, <1>2 DEF PagesInv

(* A step on the screen only.                                              *)
LEMMA ScreensMove ==
  ASSUME PagesInv, UNCHANGED <<settings, nvs, alreadySetUp, mCurrentLogLevels, logFile>>,
         mSaveRequired' = FALSE, mScreens' = << >> \/ (SettingsAgree /\ LogsAgree),
         mScreens' \in {<< >>, AtHome, AtList} \/ \E p \in Pages : mScreens' = AtPage(p)
  PROVE  PagesInv'
<1>1. PageTypes'
  BY DEF PagesInv, PageTypes, PageValues
<1>2. OnlyOnePageDiffers'
  BY DEF OnlyOnePageDiffers, SettingsAgree, LogsAgree, Off, RestoredSettings, LogsRestored
<1> QED  BY <1>1, <1>2 DEF PagesInv

LEMMA RestoreSettingsKeeps ==
  ASSUME SettingsAssumption, PagesInv, restorePreferences  PROVE PagesInv'
<1>1. /\ mScreens' = AtHome /\ settings' = RestoredSettings /\ mCurrentLogLevels' = LogsRestored
      /\ UNCHANGED <<mSaveRequired, nvs, alreadySetUp, logFile>> /\ Off
  BY DEF restorePreferences, AtHome
<1>2. mSaveRequired = FALSE
  BY <1>1, PageStackFacts DEF PagesInv, PageTypes, Off
<1>3. DOMAIN settings' = DOMAIN Offered /\ \A k \in DOMAIN Offered : settings'[k] \in PageValues(k)
  <2>1. ASSUME NEW k \in DOMAIN Offered  PROVE settings'[k] \in PageValues(k)
    <3>1. PICK v \in PageValues(k) : settings'[k] = Usable(k, v)
      BY <1>1 DEF RestoredSettings, PagesInv, PageTypes, PageValues
    <3> QED  BY <3>1, UsableFacts DEF PageValues
  <2> QED  BY <2>1, <1>1 DEF RestoredSettings
<1>4. LogsRestored \in [LogModules -> LogLevels]
  BY DEF LogsRestored, AllWarn, Unreadable, PagesInv, PageTypes, SettingsAssumption
<1>5. PageTypes'
  BY <1>1, <1>2, <1>3, <1>4 DEF PagesInv, PageTypes, PageValues
<1>6. SettingsAgree'
  <2>1. RestoredSettings' = RestoredSettings
    BY <1>1 DEF RestoredSettings
  <2>2. ASSUME NEW k \in DOMAIN Offered  PROVE RestoredSettings[k] = Usable(k, RestoredSettings[k])
    BY UsableFacts DEF RestoredSettings
  <2> QED  BY <1>1, <2>1, <2>2 DEF SettingsAgree
<1>7. LogsAgree'
  BY <1>1 DEF LogsAgree, LogsRestored
<1> QED  BY <1>5, <1>6, <1>7 DEF PagesInv, OnlyOnePageDiffers

LEMMA ScreenStepsKeep ==
  ASSUME PagesInv, PowerLost \/ PushSettingsList \/ \E pg \in Pages : PushPage(pg)
  PROVE  PagesInv'
<1>1. CASE PowerLost
  BY <1>1, ScreensMove DEF PowerLost, PowerGoes
<1>2. CASE PushSettingsList
  <2>1. /\ mScreens = AtHome /\ mScreens' = AtList
        /\ UNCHANGED <<mSaveRequired, settings, nvs, alreadySetUp, mCurrentLogLevels, logFile>>
    BY <1>2, PageStackFacts DEF PushSettingsList, pushPopUp, AtHome
  <2>2. mSaveRequired = FALSE /\ SettingsAgree /\ LogsAgree
    BY <2>1, PageStackFacts DEF PagesInv, PageTypes, OnlyOnePageDiffers, Off
  <2> QED  BY <2>1, <2>2, ScreensMove
<1>3. CASE \E pg \in Pages : PushPage(pg)
  <2>0. PICK pg \in Pages : PushPage(pg)
    BY <1>3
  <2>1. /\ mScreens = AtList /\ mScreens' = AtPage(pg)
        /\ UNCHANGED <<mSaveRequired, settings, nvs, alreadySetUp, mCurrentLogLevels, logFile>>
    BY <2>0, PageStackFacts DEF PushPage, pushPopUp, AtList
  <2>2. mSaveRequired = FALSE /\ SettingsAgree /\ LogsAgree
    BY <2>1, PageStackFacts DEF PagesInv, PageTypes, OnlyOnePageDiffers, Off
  <2> QED  BY <2>1, <2>2, ScreensMove
<1> QED  BY <1>1, <1>2, <1>3

(* What is open when a setting is changed is its page.                     *)
LEMMA OpenPage ==
  ASSUME PagesInv, ~Off, Last(mScreens) \in Pages
  PROVE  mScreens = AtPage(Last(mScreens))
BY PageStackFacts DEF PagesInv, PageTypes, Off, Pages

LEMMA SetKeeps ==
  ASSUME PagesInv, NEW k \in DOMAIN Offered, NEW v \in Offered[k],
         ChangeDisplay(k, v) \/ ChangeSystem(k, v)
  PROVE  PagesInv'
<1>1. /\ ~Off /\ Last(mScreens) \in Pages \ {"logging"} /\ Set(k, v)
  BY DEF ChangeDisplay, ChangeSystem, Pages
<1>2. mScreens = AtPage(Last(mScreens)) /\ AtPage(Last(mScreens)) # AtPage("logging")
  BY <1>1, OpenPage, PageStackFacts DEF Pages
<1>3. /\ settings' = [settings EXCEPT ![k] = v] /\ mSaveRequired' = TRUE
      /\ UNCHANGED <<mScreens, nvs, alreadySetUp, mCurrentLogLevels, logFile>>
  BY <1>1 DEF Set
<1>4. PageTypes'
  BY <1>1, <1>2, <1>3 DEF PagesInv, PageTypes, PageValues
<1>5. LogsAgree'
  BY <1>1, <1>2, <1>3 DEF PagesInv, OnlyOnePageDiffers, LogsAgree, LogsRestored
<1>6. \E p \in Pages \ {"logging"} : mScreens' = AtPage(p)
  BY <1>1, <1>2, <1>3
<1> QED  BY <1>3, <1>4, <1>5, <1>6 DEF PagesInv, OnlyOnePageDiffers

LEMMA LevelKeeps ==
  ASSUME PagesInv, NEW m \in LogModules, NEW level \in LogLevels, setLogLevel(m, level)
  PROVE  PagesInv'
<1>1. /\ ~Off /\ Last(mScreens) = "logging"
      /\ mCurrentLogLevels' = [mCurrentLogLevels EXCEPT ![m] = level] /\ mSaveRequired' = TRUE
      /\ UNCHANGED <<mScreens, settings, nvs, alreadySetUp, logFile>>
  BY DEF setLogLevel
<1>2. mScreens = AtPage("logging") /\ \A p \in Pages \ {"logging"} : mScreens # AtPage(p)
  BY <1>1, OpenPage, PageStackFacts DEF Pages
<1>3. PageTypes'
  <2>1. mCurrentLogLevels' \in [LogModules -> LogLevels]
    BY <1>1 DEF PagesInv, PageTypes
  <2>2. mScreens' = AtPage("logging") /\ "logging" \in Pages
    BY <1>1, <1>2 DEF Pages
  <2> QED  BY <1>1, <2>1, <2>2 DEF PagesInv, PageTypes, PageValues
<1>4. SettingsAgree'
  BY <1>1, <1>2 DEF PagesInv, OnlyOnePageDiffers, SettingsAgree, RestoredSettings
<1> QED  BY <1>1, <1>2, <1>3, <1>4 DEF PagesInv, OnlyOnePageDiffers

(* What a save does to the flash, however far it gets.                     *)
Harmless ==
  /\ \A k \in DOMAIN Offered : RestoredSettings'[k] \in {RestoredSettings[k], Usable(k, settings[k])}
  /\ LogsRestored' \in {LogsRestored, mCurrentLogLevels, AllWarn}

LEMMA FlashStays ==
  ASSUME UNCHANGED <<nvs, alreadySetUp>>  PROVE RestoredSettings' = RestoredSettings
BY DEF RestoredSettings

LEMMA LogsStay ==
  ASSUME UNCHANGED logFile  PROVE LogsRestored' = LogsRestored
BY DEF LogsRestored

LEMMA SavesSettings ==
  ASSUME SettingsAssumption, PagesInv, NEW n \in 0..Complete, saveSettings(n)
  PROVE  /\ DOMAIN nvs' = DOMAIN Offered /\ alreadySetUp' \in BOOLEAN /\ logFile' = logFile
         /\ \A k \in DOMAIN Offered : nvs'[k] \in PageValues(k)
         /\ \A k \in DOMAIN Offered : RestoredSettings'[k] \in {RestoredSettings[k], Usable(k, settings[k])}
         /\ n = Complete => \A k \in DOMAIN Offered : RestoredSettings'[k] = Usable(k, settings[k])
<1>1. /\ nvs' = [k \in DOMAIN Offered |-> IF Position[k] <= n THEN settings[k] ELSE nvs[k]]
      /\ alreadySetUp' = (alreadySetUp \/ n = Complete) /\ logFile' = logFile
  BY DEF saveSettings
<1>2. alreadySetUp \in BOOLEAN /\ \A k \in DOMAIN Offered : settings[k] \in PageValues(k) /\ nvs[k] \in PageValues(k)
  BY DEF PagesInv, PageTypes
<1>3. \A k \in DOMAIN Offered : Position[k] \in 1..5
  BY DEF SettingsAssumption, Position
<1>4. DOMAIN nvs' = DOMAIN Offered
  BY <1>1
<1>5. ASSUME NEW k \in DOMAIN Offered
      PROVE  /\ nvs'[k] \in PageValues(k) /\ nvs'[k] \in {settings[k], nvs[k]}
             /\ n = Complete => nvs'[k] = settings[k]
  BY <1>1, <1>2, <1>3 DEF Complete
<1>6. ASSUME NEW k \in DOMAIN Offered
      PROVE  /\ RestoredSettings'[k] \in {RestoredSettings[k], Usable(k, settings[k])}
             /\ n = Complete => RestoredSettings'[k] = Usable(k, settings[k])
  <2>1. /\ RestoredSettings[k] = Usable(k, IF alreadySetUp THEN nvs[k] ELSE Default[k])
        /\ RestoredSettings'[k] = Usable(k, IF alreadySetUp' THEN nvs'[k] ELSE Default[k])
    BY DEF RestoredSettings
  <2>2. CASE n = Complete
    <3>1. alreadySetUp' /\ nvs'[k] = settings[k]
      BY <1>1, <1>5, <2>2
    <3> QED  BY <2>1, <3>1
  <2>3. CASE n # Complete /\ alreadySetUp
    <3>1. alreadySetUp'
      BY <1>1, <2>3
    <3> QED  BY <1>5, <2>1, <2>3, <3>1
  <2>4. CASE n # Complete /\ ~alreadySetUp
    <3>1. ~alreadySetUp'
      BY <1>1, <2>4
    <3> QED  BY <2>1, <2>4, <3>1
  <2> QED  BY <2>2, <2>3, <2>4
<1> QED  BY <1>1, <1>2, <1>4, <1>5, <1>6

LEMMA SavesLogs ==
  ASSUME PagesInv, NEW n \in 0..Complete, saveLogSettings(n)
  PROVE  /\ UNCHANGED <<nvs, alreadySetUp>>
         /\ logFile' = {} \/ \E f \in [LogModules -> LogLevels] : logFile' = {f}
         /\ LogsRestored' \in {LogsRestored, mCurrentLogLevels, AllWarn}
         /\ n = Complete => LogsRestored' = mCurrentLogLevels
<1>1. /\ UNCHANGED <<nvs, alreadySetUp>>
      /\ logFile' = IF n = Complete THEN {mCurrentLogLevels} ELSE IF n = 0 THEN logFile ELSE Unreadable
  BY DEF saveLogSettings
<1>2. mCurrentLogLevels \in [LogModules -> LogLevels]
  BY DEF PagesInv, PageTypes
<1>3. CASE n = Complete
  BY <1>1, <1>2, <1>3 DEF LogsRestored, Unreadable
<1>4. CASE n # Complete /\ n = 0
  BY <1>1, <1>4 DEF LogsRestored, PagesInv, PageTypes
<1>5. CASE n # Complete /\ n # 0
  BY <1>1, <1>5 DEF LogsRestored, Unreadable
<1> QED  BY <1>1, <1>3, <1>4, <1>5

LEMMA ExitKeeps ==
  ASSUME SettingsAssumption, PagesInv, Exit  PROVE PagesInv' /\ Harmless
<1>1. PICK n \in 0..Complete :
        /\ Destroy(Last(mScreens), n)
        /\ IF n = Complete THEN popScreen ELSE mSaveRequired /\ PowerGoes
  BY DEF Exit
<1>2. UNCHANGED <<settings, mCurrentLogLevels>> /\ Len(mScreens) > 1
  BY DEF Exit
<1>3. CASE ~mSaveRequired
  <2>1. UNCHANGED <<nvs, alreadySetUp, logFile>> /\ mScreens' = Front(mScreens) /\ mSaveRequired' = FALSE
    BY <1>1, <1>3 DEF Destroy, popScreen
  <2>2. mScreens = AtList \/ \E p \in Pages : mScreens = AtPage(p)
    <3>1. mScreens = << >> \/ mScreens = AtHome \/ mScreens = AtList \/ \E p \in Pages : mScreens = AtPage(p)
      BY DEF PagesInv, PageTypes
    <3>2. ~(Len(<< >>) > 1) /\ ~(Len(AtHome) > 1)
      BY PageStackFacts
    <3> QED  BY <3>1, <3>2, <1>2, Zenon
  <2>3. mScreens' \in {<< >>, AtHome, AtList} /\ SettingsAgree /\ LogsAgree
    BY <1>3, <2>1, <2>2, PageStackFacts DEF PagesInv, OnlyOnePageDiffers, Off
  <2>4. PagesInv'
    BY <1>2, <2>1, <2>3, ScreensMove
  <2> QED  BY <2>1, <2>4, FlashStays, LogsStay DEF Harmless
<1>4. CASE mSaveRequired
  <2>1. PICK p \in Pages : mScreens = AtPage(p)
    BY <1>4 DEF PagesInv, PageTypes
  <2>2. Last(mScreens) = p /\ Front(mScreens) = AtList
    BY <2>1, PageStackFacts
  <2>3. /\ mSaveRequired' = FALSE
        /\ n = Complete => mScreens' = AtList
        /\ n # Complete => mScreens' = << >>
    BY <1>1, <2>2 DEF popScreen, PowerGoes
  <2>4. CASE p = "logging"
    <3>1. saveLogSettings(n)
      BY <1>1, <1>4, <2>2, <2>4 DEF Destroy
    <3>2. SettingsAgree
      BY <2>1, <2>4, PageStackFacts DEF PagesInv, OnlyOnePageDiffers, Off, Pages
    <3>3. SettingsAgree' /\ Harmless
      BY <1>2, <3>1, <3>2, SavesLogs, FlashStays DEF SettingsAgree, Harmless
    <3>4. n = Complete => LogsAgree'
      BY <1>2, <3>1, SavesLogs DEF LogsAgree
    <3>5. PageTypes'
      BY <1>2, <2>3, <3>1, SavesLogs DEF PagesInv, PageTypes, PageValues
    <3>6. OnlyOnePageDiffers'
      BY <2>3, <3>3, <3>4 DEF OnlyOnePageDiffers, Off
    <3> QED  BY <3>3, <3>5, <3>6 DEF PagesInv
  <2>5. CASE p # "logging"
    <3>1. saveSettings(n)
      BY <1>1, <1>4, <2>2, <2>5 DEF Destroy
    <3>2. LogsAgree
      BY <2>1, <2>5, PageStackFacts DEF PagesInv, OnlyOnePageDiffers, Off, Pages
    <3>3. LogsAgree' /\ Harmless
      BY <1>2, <3>1, <3>2, SavesSettings, LogsStay DEF LogsAgree, Harmless
    <3>4. n = Complete => SettingsAgree'
      BY <1>2, <3>1, SavesSettings DEF SettingsAgree
    <3>5. PageTypes'
      BY <1>2, <2>3, <3>1, SavesSettings DEF PagesInv, PageTypes, PageValues
    <3>6. OnlyOnePageDiffers'
      BY <2>3, <3>3, <3>4 DEF OnlyOnePageDiffers, Off
    <3> QED  BY <3>3, <3>5, <3>6 DEF PagesInv
  <2> QED  BY <2>4, <2>5
<1> QED  BY <1>3, <1>4 DEF PagesInv, PageTypes

LEMMA PagesStepKeeps ==
  SettingsAssumption /\ PagesInv /\ [PagesNext]_pageVars => PagesInv' /\ (Harmless \/ UNCHANGED pageVars)
<1> SUFFICES ASSUME SettingsAssumption, PagesInv, [PagesNext]_pageVars
             PROVE  PagesInv' /\ (Harmless \/ UNCHANGED pageVars)
  OBVIOUS
<1>1. ASSUME UNCHANGED <<nvs, alreadySetUp, logFile>>  PROVE Harmless
  BY <1>1, FlashStays, LogsStay DEF Harmless
<1>2. CASE restorePreferences
  <2>1. UNCHANGED <<nvs, alreadySetUp, logFile>>
    BY <1>2 DEF restorePreferences
  <2> QED  BY <1>1, <1>2, <2>1, RestoreSettingsKeeps
<1>3. CASE PowerLost \/ PushSettingsList \/ \E pg \in Pages : PushPage(pg)
  <2>1. UNCHANGED <<nvs, alreadySetUp, logFile>>
    BY <1>3 DEF PowerLost, PushSettingsList, PushPage
  <2> QED  BY <1>1, <1>3, <2>1, ScreenStepsKeep
<1>4. CASE Exit
  BY <1>4, ExitKeeps
<1>5. ASSUME NEW k \in DOMAIN Offered, NEW v \in Offered[k], ChangeDisplay(k, v) \/ ChangeSystem(k, v)
      PROVE  PagesInv' /\ Harmless
  <2>1. UNCHANGED <<nvs, alreadySetUp, logFile>>
    BY <1>5 DEF ChangeDisplay, ChangeSystem, Set
  <2> QED  BY <1>1, <1>5, <2>1, SetKeeps
<1>6. ASSUME NEW m \in LogModules, NEW level \in LogLevels, setLogLevel(m, level)
      PROVE  PagesInv' /\ Harmless
  <2>1. UNCHANGED <<nvs, alreadySetUp, logFile>>
    BY <1>6 DEF setLogLevel
  <2> QED  BY <1>1, <1>6, <2>1, LevelKeeps
<1>7. CASE UNCHANGED pageVars
  <2>1. UNCHANGED <<mScreens, mSaveRequired, settings, nvs, alreadySetUp, mCurrentLogLevels, logFile>>
    BY <1>7 DEF pageVars
  <2>2. PageTypes'
    BY <2>1 DEF PagesInv, PageTypes, PageValues
  <2>3. OnlyOnePageDiffers'
    BY <2>1 DEF PagesInv, OnlyOnePageDiffers, Off, SettingsAgree, LogsAgree, RestoredSettings, LogsRestored
  <2> QED  BY <1>7, <2>2, <2>3 DEF PagesInv
<1> QED  BY <1>2, <1>3, <1>4, <1>5, <1>6, <1>7 DEF PagesNext

LEMMA PagesPromise == SettingsAssumption /\ PagesInv => PagesTypeOK /\ ChangesSaved
<1> SUFFICES ASSUME SettingsAssumption, PagesInv  PROVE PagesTypeOK /\ ChangesSaved
  OBVIOUS
<1>1. ~Off => mScreens[1] = "home" /\ Len(mScreens) <= 3
  <2>1. mScreens = << >> \/ mScreens = AtHome \/ mScreens = AtList \/ \E p \in Pages : mScreens = AtPage(p)
    BY DEF PagesInv, PageTypes
  <2>2. AtHome[1] = "home" /\ AtList[1] = "home" /\ Len(AtHome) <= 3 /\ Len(AtList) <= 3
    BY PageStackFacts
  <2>3. \A p \in Pages : AtPage(p)[1] = "home" /\ Len(AtPage(p)) <= 3
    BY PageStackFacts
  <2> QED  BY <2>1, <2>2, <2>3, Zenon DEF Off
<1>2. logFile \subseteq [LogModules -> LogLevels]
  BY DEF PagesInv, PageTypes
<1>3. PagesTypeOK
  BY <1>1, <1>2 DEF PagesTypeOK, PagesInv, PageTypes, PageValues
<1>4. ChangesSaved
  BY DEF ChangesSaved, PagesInv, OnlyOnePageDiffers, SettingsAgree, LogsAgree
<1> QED  BY <1>3, <1>4

(* Whatever the pages offer and wherever the power goes: what a page       *)
(* changed is there after a restart once the page is closed, and a save    *)
(* that was cut off brings back nothing the user never saw.                *)
THEOREM ChangesSurvive == PagesSpec => SettingsSurvive
<1>1. PagesInit => PagesInv
  BY PagesBegin, SettingsAssumption
<1>2. PagesInv /\ [PagesNext]_pageVars => PagesInv'
  BY PagesStepKeeps, SettingsAssumption
<1>3. PagesInv => PagesTypeOK /\ ChangesSaved
  BY PagesPromise, SettingsAssumption
<1>4. PagesInv /\ [PagesNext]_pageVars =>
        [/\ \A k \in DOMAIN Offered : RestoredSettings'[k] \in {RestoredSettings[k], Usable(k, settings[k])}
         /\ LogsRestored' \in {LogsRestored, mCurrentLogLevels, AllWarn}]_pageVars
  BY PagesStepKeeps, SettingsAssumption DEF Harmless
<1> QED  BY <1>1, <1>2, <1>3, <1>4, PTL DEF PagesSpec, SettingsSurvive, CutSavesAreHarmless
-------------------------------------------------------------------------------
(***************************************************************************)
(* The tasks that share LVGL.                                              *)
(***************************************************************************)
Tasks == [value : Heights, orphan : BOOLEAN]
TaskTypes ==
  /\ loop \in {"idle", "timers", "between", "queue"} /\ taken \in 0..TasksPerRefresh
  /\ mLvglTasks \in Seq(Tasks) /\ Len(mLvglTasks) <= MaxTasks
  /\ height \in Heights /\ asked \in Heights /\ waited \in Heights
  /\ page \in BOOLEAN /\ overtook \in BOOLEAN /\ beneath \in BOOLEAN /\ undefined \in BOOLEAN

(* What waits for an element that is gone is never the last change of one  *)
(* that is there; of one that is there the last that waits is the last     *)
(* that had to, and running it ends with what SettlesOn says.              *)
AllOrphans == \A i \in 1..Len(mLvglTasks) : mLvglTasks[i].orphan = TRUE
LastIs(tasks, value) == tasks[Len(tasks)].orphan = TRUE \/ tasks[Len(tasks)].value = value
Settled == IF overtook = TRUE THEN waited ELSE asked
QueueLeads ==
  undefined = FALSE =>
    IF page = FALSE THEN AllOrphans
    ELSE IF mLvglTasks = << >> THEN height = Settled
    ELSE LastIs(mLvglTasks, waited) /\ LastIs(mLvglTasks, Settled)

(* The page is registered only while it is open, and what dangles does so  *)
(* since something went from beneath its user.                             *)
HandlersStand ==
  /\ mFunctionHandlers \subseteq {"scan", "status"} /\ (page = FALSE => mFunctionHandlers = {})
  /\ inside \in {"none", "socket", "scan", "status"}
  /\ node \in BOOLEAN /\ owner \in BOOLEAN
  /\ inside \in {"none", "socket"} => node = TRUE /\ owner = TRUE
  /\ inside \in {"scan", "status"} /\ owner = TRUE => page = TRUE
  /\ node = FALSE \/ owner = FALSE \/ undefined = TRUE => beneath = TRUE
OrphansMean == beneath = TRUE \/ \A i \in 1..Len(mLvglTasks) : mLvglTasks[i].orphan = FALSE
TasksInv == TaskTypes /\ QueueLeads /\ HandlersStand /\ OrphansMean

LEMMA TasksBegin == TasksAssumption /\ TasksInit => TasksInv
<1> SUFFICES ASSUME TasksAssumption, TasksInit  PROVE TasksInv
  OBVIOUS
<1>1. mLvglTasks \in Seq(Tasks) /\ Len(mLvglTasks) = 0
  BY DEF TasksInit
<1>2. FirstHeight \in Heights
  BY DEF TasksAssumption, FirstHeight
<1>3. TaskTypes
  <2>1. Len(mLvglTasks) <= MaxTasks /\ taken \in 0..TasksPerRefresh
    BY <1>1 DEF TasksInit, TasksAssumption
  <2> QED  BY <1>1, <1>2, <2>1 DEF TaskTypes, TasksInit
<1>4. QueueLeads
  BY <1>1 DEF QueueLeads, AllOrphans, Settled, TasksInit
<1>5. HandlersStand /\ OrphansMean
  BY <1>1 DEF HandlersStand, OrphansMean, TasksInit
<1> QED  BY <1>3, <1>4, <1>5 DEF TasksInv

LEMMA LoopStepKeeps ==
  ASSUME TasksAssumption, TasksInv, loopHandler \/ TimersDone
  PROVE  TasksInv'
<1>1. LoopOnly /\ loop' \in {"timers", "between"}
  BY DEF loopHandler, TimersDone
<1> USE DEF TasksInv, LoopOnly, elementVars, eventVars
<1>2. TaskTypes'
  BY <1>1 DEF TaskTypes
<1>3. QueueLeads'
  BY <1>1 DEF QueueLeads, AllOrphans, LastIs, Settled
<1>4. HandlersStand' /\ OrphansMean'
  BY <1>1 DEF HandlersStand, OrphansMean
<1> QED  BY <1>2, <1>3, <1>4

LEMMA RunFirstKeeps ==
  ASSUME TasksAssumption, TasksInv, mLvglTasks # << >>, taken # TasksPerRefresh, RunFirst, QueueOnly
  PROVE  TasksInv'
<1> DEFINE task == Head(mLvglTasks)
<1>1. /\ loop' = "queue" /\ taken' = taken + 1 /\ mLvglTasks' = Tail(mLvglTasks)
      /\ height' = task.value /\ undefined' = (undefined \/ task.orphan)
      /\ UNCHANGED <<page, asked, waited, overtook, mFunctionHandlers, inside, node, owner, beneath>>
  BY DEF RunFirst, QueueOnly, eventVars
<1>2. /\ mLvglTasks \in Seq(Tasks) /\ Len(mLvglTasks) \in Nat /\ Len(mLvglTasks) <= MaxTasks
      /\ undefined \in BOOLEAN
  BY LenProperties DEF TasksInv, TaskTypes
<1>3. /\ task \in Tasks /\ task = mLvglTasks[1]
      /\ mLvglTasks' \in Seq(Tasks) /\ Len(mLvglTasks') = Len(mLvglTasks) - 1
      /\ \A i \in 1..Len(mLvglTasks') : mLvglTasks'[i] = mLvglTasks[i + 1]
  BY <1>1, <1>2, HeadTailProperties
<1>4. task.value \in Heights /\ task.orphan \in BOOLEAN
  BY <1>3 DEF Tasks
<1>5. Len(mLvglTasks) \in 1..Len(mLvglTasks) /\ 1 \in 1..Len(mLvglTasks)
  BY <1>2, EmptySeq, LenProperties
<1> HIDE DEF task
<1>6. TaskTypes'
  <2>1. taken' \in 0..TasksPerRefresh
    BY <1>1 DEF TasksInv, TaskTypes, TasksAssumption
  <2>2. Len(mLvglTasks') <= MaxTasks /\ undefined' \in BOOLEAN
    BY <1>1, <1>2, <1>3 DEF TasksAssumption
  <2> QED  BY <1>1, <1>3, <1>4, <2>1, <2>2 DEF TasksInv, TaskTypes
<1>7. ASSUME undefined' = FALSE
      PROVE  undefined = FALSE /\ task.orphan = FALSE
  BY <1>1, <1>2, <1>4, <1>7, Zenon
<1>8. ASSUME undefined' = FALSE, page' = TRUE
      PROVE  IF mLvglTasks' = << >> THEN height' = Settled'
             ELSE LastIs(mLvglTasks', waited') /\ LastIs(mLvglTasks', Settled')
  <2>1. Settled' = Settled
    BY <1>1 DEF Settled
  <2>2. LastIs(mLvglTasks, waited) /\ LastIs(mLvglTasks, Settled) /\ Settled' = Settled
    <3>1. undefined = FALSE /\ page = TRUE /\ QueueLeads
      BY <1>1, <1>7, <1>8 DEF TasksInv
    <3>2. LastIs(mLvglTasks, waited) /\ LastIs(mLvglTasks, Settled)
      BY <3>1, Zenon DEF QueueLeads
    <3> QED  BY <2>1, <3>2
  <2>3. CASE mLvglTasks' = << >>
    <3>1. Len(mLvglTasks) = 1
      BY <1>2, <1>3, <2>3
    <3> QED  BY <1>1, <1>3, <1>7, <1>8, <2>2, <2>3, <3>1 DEF LastIs
  <2>4. CASE mLvglTasks' # << >>
    <3>1. Len(mLvglTasks') \in 1..Len(mLvglTasks')
      BY <1>3, <2>4, LenProperties, EmptySeq
    <3>2. mLvglTasks'[Len(mLvglTasks')] = mLvglTasks[Len(mLvglTasks)]
      BY <1>2, <1>3, <3>1
    <3> QED  BY <1>1, <2>2, <2>4, <3>2 DEF LastIs
  <2> QED  BY <2>3, <2>4
<1>9. QueueLeads'
  <2>1. ASSUME undefined' = FALSE, page' = FALSE  PROVE AllOrphans'
    BY <1>1, <1>2, <1>3, <1>7, <2>1 DEF TasksInv, QueueLeads, AllOrphans
  <2>2. page' \in BOOLEAN
    BY <1>1 DEF TasksInv, TaskTypes
  <2> QED  BY <1>8, <2>1, <2>2 DEF QueueLeads
<1>10. OrphansMean'
  BY <1>1, <1>2, <1>3 DEF TasksInv, OrphansMean
<1>11. undefined' = TRUE => beneath' = TRUE
  <2>1. undefined' = TRUE => undefined = TRUE \/ task.orphan = TRUE
    BY <1>1, <1>2, <1>4, Zenon
  <2>2. task.orphan = TRUE => beneath = TRUE
    BY <1>3, <1>5 DEF TasksInv, OrphansMean
  <2> QED  BY <1>1, <2>1, <2>2 DEF TasksInv, HandlersStand
<1>12. HandlersStand'
  BY <1>1, <1>11 DEF TasksInv, HandlersStand
<1> QED  BY <1>6, <1>9, <1>10, <1>12 DEF TasksInv

LEMMA QueueStepKeeps ==
  ASSUME TasksAssumption, TasksInv, HandleQueuedTasks
  PROVE  TasksInv'
<1>1. CASE mLvglTasks = << >> \/ taken = TasksPerRefresh
  <2>1. loop' = "idle" /\ taken' = 0 /\ UNCHANGED <<mLvglTasks, height, undefined>> /\ QueueOnly
    BY <1>1 DEF HandleQueuedTasks
  <2> USE DEF TasksInv, QueueOnly, eventVars
  <2>2. TaskTypes'
    BY <2>1 DEF TaskTypes, TasksAssumption
  <2>3. QueueLeads'
    BY <2>1 DEF QueueLeads, AllOrphans, LastIs, Settled
  <2>4. HandlersStand' /\ OrphansMean'
    BY <2>1 DEF HandlersStand, OrphansMean
  <2> QED  BY <2>2, <2>3, <2>4
<1>2. CASE ~(mLvglTasks = << >> \/ taken = TasksPerRefresh)
  BY <1>2, RunFirstKeeps DEF HandleQueuedTasks
<1> QED  BY <1>1, <1>2

LEMMA OpenKeepsTasks ==
  ASSUME TasksAssumption, TasksInv, OpenWifi
  PROVE  TasksInv'
<1>1. /\ page = FALSE /\ page' = TRUE /\ mFunctionHandlers' = {"scan"}
      /\ height' = FirstHeight /\ asked' = FirstHeight /\ waited' = FirstHeight /\ overtook' = FALSE
      /\ UNCHANGED <<loop, taken, mLvglTasks, inside, node, owner, beneath, undefined>>
  BY DEF OpenWifi, eventVars, TasksInv, TaskTypes
<1>2. FirstHeight \in Heights
  BY DEF TasksAssumption, FirstHeight
<1>3. TaskTypes'
  BY <1>1, <1>2 DEF TasksInv, TaskTypes
<1>4. undefined' = FALSE => AllOrphans'
  BY <1>1 DEF TasksInv, QueueLeads, AllOrphans
<1>5. \A v : undefined' = FALSE /\ mLvglTasks' # << >> => LastIs(mLvglTasks', v)
  <2>1. mLvglTasks' # << >> => Len(mLvglTasks') \in 1..Len(mLvglTasks')
    BY <1>3, LenProperties, EmptySeq DEF TaskTypes
  <2> QED  BY <1>4, <2>1 DEF AllOrphans, LastIs
<1>6. QueueLeads'
  BY <1>1, <1>5 DEF QueueLeads, Settled
<1>7. HandlersStand' /\ OrphansMean'
  BY <1>1 DEF TasksInv, HandlersStand, OrphansMean
<1> QED  BY <1>3, <1>6, <1>7 DEF TasksInv

LEMMA CloseKeepsTasks ==
  ASSUME TasksAssumption, TasksInv, CloseWifi
  PROVE  TasksInv'
<1>1. /\ page' = FALSE
      /\ mFunctionHandlers' = mFunctionHandlers \ {"scan", "status"}
      /\ node' = (node /\ ~ErasedAt({"scan", "status"} \cap mFunctionHandlers))
      /\ owner' = (owner /\ inside \notin {"scan", "status"})
      /\ beneath' = (beneath \/ inside \in {"scan", "status"} \/ mLvglTasks # << >>)
      /\ UNCHANGED <<loop, taken, height, asked, waited, overtook, inside, undefined>>
  BY DEF CloseWifi, unregister, elementVars
<1>2. mLvglTasks' = [i \in DOMAIN mLvglTasks |-> [mLvglTasks[i] EXCEPT !.orphan = TRUE]]
  BY DEF CloseWifi, DestroyElement
<1>3. mLvglTasks \in Seq(Tasks) /\ DOMAIN mLvglTasks = 1..Len(mLvglTasks) /\ Len(mLvglTasks) \in Nat
  BY LenProperties DEF TasksInv, TaskTypes
<1>4. \A i \in 1..Len(mLvglTasks) : mLvglTasks[i] \in Tasks
  BY <1>3, ElementOfSeq
<1>5. \A i \in 1..Len(mLvglTasks) : [mLvglTasks[i] EXCEPT !.orphan = TRUE] \in Tasks
  BY <1>4 DEF Tasks
<1>6. mLvglTasks' = [i \in 1..Len(mLvglTasks) |-> [mLvglTasks[i] EXCEPT !.orphan = TRUE]]
  BY <1>2, <1>3
<1>7. mLvglTasks' \in Seq(Tasks)
  BY <1>3, <1>5, <1>6, IsASeq
<1>8. Len(mLvglTasks') = Len(mLvglTasks)
  BY <1>3, <1>6, <1>7, LenProperties
<1>9. AllOrphans'
  BY <1>4, <1>6, <1>8 DEF AllOrphans, Tasks
<1>10. node' \in BOOLEAN /\ owner' \in BOOLEAN /\ beneath' \in BOOLEAN
  BY <1>1
<1>11. TaskTypes' /\ QueueLeads'
  BY <1>1, <1>7, <1>8, <1>9, <1>10 DEF TasksInv, TaskTypes, QueueLeads
<1>12. /\ inside \in {"none", "socket"} => ~ErasedAt({"scan", "status"} \cap mFunctionHandlers)
       /\ inside \in {"none", "socket", "scan", "status"} /\ node \in BOOLEAN /\ owner \in BOOLEAN
  BY DEF ErasedAt, TasksInv, HandlersStand
<1>13. inside \in {"none", "socket"} => node' = TRUE /\ owner' = TRUE
  BY <1>1, <1>12 DEF TasksInv, HandlersStand
<1>14. inside \in {"scan", "status"} \/ mLvglTasks # << >> => beneath' = TRUE
  BY <1>1
<1>15. undefined = TRUE => beneath' = TRUE
  BY <1>1 DEF TasksInv, HandlersStand
<1>16. HandlersStand'
  BY <1>1, <1>10, <1>12, <1>13, <1>14, <1>15 DEF TasksInv, HandlersStand
<1>17. OrphansMean'
  <2>1. CASE mLvglTasks = << >>
    BY <2>1, <1>3, <1>8 DEF OrphansMean
  <2>2. CASE mLvglTasks # << >>
    BY <2>2, <1>14 DEF OrphansMean
  <2> QED  BY <2>1, <2>2
<1> QED  BY <1>11, <1>16, <1>17 DEF TasksInv

LEMMA StatusKeepsTasks ==
  ASSUME TasksAssumption, TasksInv, StartHandlingStatusUpdates
  PROVE  TasksInv'
<1>1. /\ page = TRUE /\ mFunctionHandlers' = mFunctionHandlers \cup {"status"}
      /\ node' = (node /\ ~ErasedAt({"status"} \cap mFunctionHandlers))
      /\ beneath' = (beneath \/ inside = "status")
      /\ UNCHANGED <<loop, taken, mLvglTasks, page, height, asked, waited, overtook, inside, owner, undefined>>
  BY DEF StartHandlingStatusUpdates, elementVars, TasksInv, TaskTypes
<1>2. node' \in BOOLEAN /\ beneath' \in BOOLEAN
  BY <1>1
<1>3. TaskTypes' /\ QueueLeads'
  BY <1>1, <1>2 DEF TasksInv, TaskTypes, QueueLeads, AllOrphans, LastIs, Settled
<1>4. /\ node = FALSE => beneath = TRUE
      /\ node = TRUE /\ node' = FALSE => inside = "status"
  BY <1>1 DEF ErasedAt, TasksInv, HandlersStand
<1>5. inside \in {"none", "socket"} => node' = TRUE
  BY <1>1 DEF ErasedAt, TasksInv, HandlersStand
<1>6. beneath = TRUE \/ inside = "status" => beneath' = TRUE
  BY <1>1
<1>7. HandlersStand'
  BY <1>1, <1>2, <1>4, <1>5, <1>6 DEF TasksInv, HandlersStand
<1>8. OrphansMean'
  BY <1>1, <1>6 DEF TasksInv, OrphansMean
<1> QED  BY <1>3, <1>7, <1>8 DEF TasksInv

(* A request, from whichever task, of an element that is there keeps what  *)
(* the queue leads to.                                                     *)
LEMMA RequestKeeps ==
  ASSUME TasksAssumption, TaskTypes, OrphansMean, NEW value \in Heights, NEW lockIsMine \in BOOLEAN,
         SetHeight(value, lockIsMine), UNCHANGED <<loop, taken, page, beneath>>, undefined' \in BOOLEAN
  PROVE  /\ TaskTypes' /\ OrphansMean'
         /\ page = TRUE /\ QueueLeads /\ undefined = FALSE => QueueLeads'
<1>1. asked' = value
  BY DEF SetHeight
<1>2. CASE lockIsMine \/ loop \in {"idle", "between"}
  <2>1. height' = value /\ overtook' = (mLvglTasks # << >>) /\ UNCHANGED <<mLvglTasks, waited>>
    BY <1>2 DEF SetHeight, AttemptNow
  <2>2. overtook' \in BOOLEAN
    BY <2>1
  <2>3. TaskTypes'
    BY <1>1, <2>1, <2>2 DEF TaskTypes
  <2>4. /\ mLvglTasks = << >> => Settled' = value
        /\ mLvglTasks # << >> => Settled' = waited
    BY <1>1, <2>1 DEF Settled
  <2>5. page = TRUE /\ QueueLeads /\ undefined = FALSE => QueueLeads'
    BY <2>1, <2>4 DEF QueueLeads
  <2> QED  BY <2>1, <2>3, <2>5 DEF OrphansMean
<1>3. CASE ~(lockIsMine \/ loop \in {"idle", "between"})
  <2> DEFINE task == [value |-> value, orphan |-> FALSE]
  <2>1. /\ Len(mLvglTasks) < MaxTasks /\ mLvglTasks' = Append(mLvglTasks, task)
        /\ waited' = value /\ overtook' = FALSE /\ UNCHANGED height
    BY <1>3 DEF SetHeight, AttemptNow
  <2>2. task \in Tasks /\ task.value = value /\ task.orphan = FALSE
    BY DEF Tasks
  <2>3. mLvglTasks \in Seq(Tasks) /\ Len(mLvglTasks) \in Nat
    BY LenProperties DEF TaskTypes
  <2> HIDE DEF task
  <2>4. /\ mLvglTasks' \in Seq(Tasks) /\ Len(mLvglTasks') = Len(mLvglTasks) + 1
        /\ mLvglTasks'[Len(mLvglTasks) + 1] = task
        /\ \A i \in 1..Len(mLvglTasks) : mLvglTasks'[i] = mLvglTasks[i]
    BY <2>1, <2>2, <2>3, AppendProperties
  <2>5. Len(mLvglTasks') <= MaxTasks
    BY <2>1, <2>3, <2>4 DEF TasksAssumption
  <2>6. TaskTypes'
    BY <1>1, <2>1, <2>4, <2>5 DEF TaskTypes
  <2>7. mLvglTasks' # << >>
    BY <2>3, <2>4
  <2>8. Settled' = value /\ LastIs(mLvglTasks', value)
    BY <1>1, <2>1, <2>2, <2>4 DEF Settled, LastIs
  <2>9. page = TRUE => QueueLeads'
    BY <2>1, <2>7, <2>8 DEF QueueLeads
  <2>10. OrphansMean'
    <3>1. ASSUME NEW i \in 1..Len(mLvglTasks'), i # Len(mLvglTasks) + 1  PROVE i \in 1..Len(mLvglTasks)
      BY <3>1, <2>3, <2>4
    <3> QED  BY <3>1, <2>2, <2>4 DEF OrphansMean
  <2> QED  BY <2>6, <2>9, <2>10
<1> QED  BY <1>2, <1>3

LEMMA ResizeKeepsTasks ==
  ASSUME TasksAssumption, TasksInv, undefined = FALSE, NEW value \in Heights, ResizedByLoop(value)
  PROVE  TasksInv'
<1>1. /\ page = TRUE /\ SetHeight(value, TRUE)
      /\ UNCHANGED <<loop, taken, page, mFunctionHandlers, inside, node, owner, beneath, undefined>>
  BY DEF ResizedByLoop, eventVars, TasksInv, TaskTypes
<1>2. TaskTypes' /\ OrphansMean' /\ QueueLeads'
  <2>1. undefined' \in BOOLEAN
    BY <1>1
  <2> QED  BY <1>1, <2>1, RequestKeeps DEF TasksInv
<1>3. HandlersStand'
  BY <1>1 DEF TasksInv, HandlersStand
<1> QED  BY <1>2, <1>3 DEF TasksInv

LEMMA ScanKeepsTasks ==
  ASSUME TasksAssumption, TasksInv, undefined = FALSE, NEW value \in Heights, ScanComplete(value)
  PROVE  TasksInv'
<1>1. /\ inside = "scan" /\ SetHeight(value, FALSE) /\ undefined' = (undefined \/ ~owner)
      /\ UNCHANGED <<loop, taken, page, mFunctionHandlers, beneath, inside, node, owner>>
  BY DEF ScanComplete, Rest, eventVars
<1>2. undefined' \in BOOLEAN /\ owner \in BOOLEAN /\ (undefined' = TRUE <=> owner = FALSE)
  BY <1>1 DEF TasksInv, HandlersStand
<1>3. HandlersStand'
  BY <1>1, <1>2 DEF TasksInv, HandlersStand
<1>4. TaskTypes' /\ OrphansMean' /\ (page = TRUE => QueueLeads')
  BY <1>1, <1>2, RequestKeeps DEF TasksInv
<1>5. CASE owner = TRUE
  BY <1>1, <1>3, <1>4, <1>5 DEF TasksInv, HandlersStand
<1>6. CASE owner = FALSE
  BY <1>2, <1>3, <1>4, <1>6 DEF TasksInv, QueueLeads
<1> QED  BY <1>2, <1>5, <1>6

LEMMA EventStepKeeps ==
  ASSUME TasksAssumption, TasksInv, undefined = FALSE, notify \/ NextHandler \/ HandlerReturns
  PROVE  TasksInv'
<1>1. /\ UNCHANGED <<loop, taken, page, mFunctionHandlers, beneath, mLvglTasks, height, asked, waited, overtook>>
      /\ ~HandlerReturns => undefined' = undefined
      /\ HandlerReturns => undefined' = (undefined \/ ~node \/ ~owner)
  BY DEF notify, NextHandler, HandlerReturns, Rest, elementVars
<1>2. /\ node \in BOOLEAN /\ owner \in BOOLEAN /\ undefined' \in BOOLEAN
      /\ undefined' = TRUE => node = FALSE \/ owner = FALSE
  BY <1>1 DEF TasksInv, HandlersStand
<1>3. TaskTypes' /\ OrphansMean'
  BY <1>1, <1>2 DEF TasksInv, TaskTypes, OrphansMean
<1>4. QueueLeads'
  BY <1>1 DEF TasksInv, QueueLeads, AllOrphans, LastIs, Settled
<1>5. ASSUME NEW handler \in {"socket", "scan", "status"}, Calls(handler),
             handler = "socket" \/ handler \in mFunctionHandlers
      PROVE  inside' = handler /\ node' = TRUE /\ owner' = TRUE /\ (handler # "socket" => page = TRUE)
  <2>1. handler # "socket" => page = TRUE
    BY <1>5 DEF TasksInv, HandlersStand, TaskTypes
  <2>2. (page \/ handler = "socket") = TRUE
    BY <2>1
  <2> QED  BY <1>5, <2>1, <2>2 DEF Calls
<1>6. CASE notify
  <2>1. \E handler \in {"socket", "scan"} : Calls(handler) /\ (handler = "socket" \/ handler \in mFunctionHandlers)
    BY <1>6 DEF notify
  <2>2. PICK handler \in {"socket", "scan"} : inside' = handler /\ node' = TRUE /\ owner' = TRUE
                                               /\ (handler # "socket" => page = TRUE)
    BY <2>1, <1>5
  <2>3. HandlersStand'
    BY <1>1, <1>2, <2>2 DEF TasksInv, HandlersStand
  <2> QED  BY <1>3, <1>4, <2>3 DEF TasksInv
<1>7. CASE NextHandler
  <2>1. \/ inside' = "status" /\ node' = TRUE /\ owner' = TRUE /\ page = TRUE
        \/ inside' = "none" /\ node' = TRUE /\ owner' = TRUE
    BY <1>5, <1>7 DEF NextHandler, TasksInv, HandlersStand
  <2>2. HandlersStand'
    BY <1>1, <1>2, <2>1 DEF TasksInv, HandlersStand
  <2> QED  BY <1>3, <1>4, <2>2 DEF TasksInv
<1>8. CASE HandlerReturns
  <2>1. inside' = "none" /\ node' = TRUE /\ owner' = TRUE
    BY <1>8 DEF HandlerReturns
  <2>2. HandlersStand'
    BY <1>1, <1>2, <2>1 DEF TasksInv, HandlersStand
  <2> QED  BY <1>3, <1>4, <2>2 DEF TasksInv
<1> QED  BY <1>6, <1>7, <1>8

LEMMA TasksPromise == TasksInv => TasksSafe
<1> SUFFICES ASSUME TasksInv  PROVE TasksSafe
  OBVIOUS
<1>1. TasksTypeOK
  BY DEF TasksInv, TaskTypes, HandlersStand, TasksTypeOK
<1>2. SettlesOn
  BY DEF TasksInv, TaskTypes, QueueLeads, SettlesOn, Settled
<1>3. GoneOnlyFromBeneath
  <2>1. DOMAIN mLvglTasks = 1..Len(mLvglTasks)
    BY LenProperties DEF TasksInv, TaskTypes
  <2> QED  BY <2>1 DEF TasksInv, TaskTypes, HandlersStand, OrphansMean, GoneOnlyFromBeneath, Dangling
<1> QED  BY <1>1, <1>2, <1>3 DEF TasksSafe

(* For a queue and a refresh of any size: an element that is there ends    *)
(* with the last request, or with the last one that waited if later ones   *)
(* were granted before it; and what a handler or a postponed change uses   *)
(* is there unless it went from beneath it.                                *)
THEOREM TasksAreSafe == TasksSpec => []TasksSafe
<1>1. TasksInit => TasksInv
  BY TasksBegin, TasksAssumption
<1>2. TasksInv /\ [TasksNext]_taskVars => TasksInv'
  <2> SUFFICES ASSUME TasksInv, [TasksNext]_taskVars  PROVE TasksInv'
    OBVIOUS
  <2>1. CASE UNCHANGED taskVars
    <3> USE <2>1 DEF taskVars, elementVars, eventVars, TasksInv
    <3>1. TaskTypes' /\ QueueLeads'
      BY DEF TaskTypes, QueueLeads, AllOrphans, LastIs, Settled
    <3>2. HandlersStand' /\ OrphansMean'
      BY DEF HandlersStand, OrphansMean
    <3> QED  BY <3>1, <3>2
  <2>2. CASE TasksNext
    <3>1. undefined = FALSE
      BY <2>2 DEF TasksNext, TasksInv, TaskTypes
    <3> QED  BY <2>2, <3>1, TasksAssumption, LoopStepKeeps, QueueStepKeeps, OpenKeepsTasks, CloseKeepsTasks,
                StatusKeepsTasks, ResizeKeepsTasks, ScanKeepsTasks, EventStepKeeps
             DEF TasksNext, MainLoopTasks
  <2> QED  BY <2>1, <2>2
<1>3. TasksInv => TasksSafe
  BY TasksPromise
<1> QED  BY <1>1, <1>2, <1>3, PTL DEF TasksSpec

-------------------------------------------------------------------------------
(***************************************************************************)
(* The schemas.                                                            *)
(***************************************************************************)

(* The sums of a sequence of numbers, from which Total takes the last.     *)
Sums(sizes, m, f) == f = [n \in 0..m |-> IF n = 0 THEN 0 ELSE f[n - 1] + sizes[n]]

LEMMA SumsExist ==
  ASSUME NEW sizes, NEW m \in Nat
  PROVE  \E f : Sums(sizes, m, f)
<1> DEFINE Missing == {n \in Nat : ~ \E f : Sums(sizes, n, f)}
<1> SUFFICES Missing = {}
  OBVIOUS
<1>1. SUFFICES ASSUME Missing # {}  PROVE FALSE
  OBVIOUS
<1>2. PICK n \in Missing : \A j \in Missing : n <= j
  <2>1. Missing \subseteq Nat
    OBVIOUS
  <2> HIDE DEF Missing
  <2> QED  BY <1>1, <2>1, LeastElement
<1>3. CASE n = 0
  <2> DEFINE f == [k \in 0..0 |-> 0]
  <2>1. f = [k \in 0..0 |-> IF k = 0 THEN 0 ELSE f[k - 1] + sizes[k]]
    OBVIOUS
  <2>2. Sums(sizes, 0, f)
    BY <2>1 DEF Sums
  <2> QED  BY <1>3, <2>2
<1>4. CASE n # 0
  <2>1. n \in Nat /\ n - 1 \in Nat /\ n - 1 \notin Missing
    BY <1>2, <1>4
  <2>2. PICK g : Sums(sizes, n - 1, g)
    BY <2>1
  <2> DEFINE h == [k \in 0..n |-> IF k = n THEN g[n - 1] + sizes[n] ELSE g[k]]
  <2>3. ASSUME NEW k \in 0..n
        PROVE  h[k] = IF k = 0 THEN 0 ELSE h[k - 1] + sizes[k]
    <3>1. CASE k = n
      <4>1. h[n] = g[n - 1] + sizes[n] /\ h[n - 1] = g[n - 1]
        BY <2>1
      <4> HIDE DEF h
      <4> QED  BY <1>4, <3>1, <4>1
    <3>2. CASE k # n
      <4>1. k \in 0..(n - 1) /\ (k # 0 => k - 1 \in 0..n /\ k - 1 # n)
        BY <2>1, <3>2
      <4>2. h[k] = g[k] /\ (k # 0 => h[k - 1] = g[k - 1])
        BY <3>2, <4>1
      <4>3. g[k] = IF k = 0 THEN 0 ELSE g[k - 1] + sizes[k]
        BY <2>2, <4>1 DEF Sums
      <4> HIDE DEF h
      <4> QED  BY <4>2, <4>3
    <3> QED  BY <3>1, <3>2
  <2>4. DOMAIN h = 0..n /\ h = [k \in 0..n |-> h[k]]
    OBVIOUS
  <2> HIDE DEF h
  <2>5. Sums(sizes, n, h)
    BY <2>3, <2>4 DEF Sums
  <2> QED  BY <1>2, <2>5
<1> QED  BY <1>3, <1>4

AlikeOn(K, f, g) == \A k \in K : f[k] = g[k]

(* Sums of sequences that begin alike are alike.                           *)
LEMMA SumsAgree ==
  ASSUME NEW s, NEW t, NEW m \in Nat, NEW n \in Nat, m <= n, AlikeOn(1..m, s, t),
         NEW f, Sums(s, m, f), NEW g, Sums(t, n, g)
  PROVE  AlikeOn(0..m, f, g)
<1> USE DEF AlikeOn
<1> DEFINE Wrong == {k \in 0..m : f[k] # g[k]}
<1>1. SUFFICES ASSUME Wrong # {}  PROVE FALSE
  OBVIOUS
<1>2. PICK k \in Wrong : \A j \in Wrong : k <= j
  <2>1. Wrong \subseteq Nat
    OBVIOUS
  <2> HIDE DEF Wrong
  <2> QED  BY <1>1, <2>1, LeastElement
<1>3. k \in 0..m /\ k \in 0..n /\ f[k] # g[k]
  BY <1>2
<1>4. /\ f[k] = IF k = 0 THEN 0 ELSE f[k - 1] + s[k]
      /\ g[k] = IF k = 0 THEN 0 ELSE g[k - 1] + t[k]
  BY <1>3 DEF Sums
<1>5. k # 0 => k \in 1..m /\ k - 1 \in 0..m /\ k - 1 \notin Wrong
  BY <1>2, <1>3
<1>6. k # 0 => f[k - 1] = g[k - 1] /\ s[k] = t[k]
  BY <1>5
<1> HIDE DEF Wrong
<1> QED  BY <1>3, <1>4, <1>6

LEMMA TotalIs ==
  ASSUME NEW sizes \in Seq(Nat)
  PROVE  \E f : Sums(sizes, Len(sizes), f) /\ Total(sizes) = f[Len(sizes)]
<1> DEFINE f == CHOOSE f : Sums(sizes, Len(sizes), f)
<1>1. Len(sizes) \in Nat
  OBVIOUS
<1>2. Sums(sizes, Len(sizes), f)
  BY <1>1, SumsExist
<1>3. Total(sizes) = f[Len(sizes)]
  BY DEF Total, Sums
<1> HIDE DEF f
<1> QED  BY <1>2, <1>3

LEMMA TotalOfNone == Total(<< >>) = 0
<1>1. << >> \in Seq(Nat) /\ Len(<< >>) = 0
  OBVIOUS
<1>2. PICK f : Sums(<< >>, 0, f) /\ Total(<< >>) = f[0]
  BY <1>1, TotalIs
<1> QED  BY <1>2 DEF Sums

LEMMA TotalOfMore ==
  ASSUME NEW sizes \in Seq(Nat), NEW x \in Nat
  PROVE  Total(Append(sizes, x)) = Total(sizes) + x
<1> DEFINE n == Len(sizes)  more == Append(sizes, x)
<1>1. /\ n \in Nat /\ Len(more) = n + 1 /\ more \in Seq(Nat) /\ more[n + 1] = x
      /\ \A i \in 1..n : sizes[i] = more[i]
  OBVIOUS
<1>2. PICK f : Sums(sizes, n, f) /\ Total(sizes) = f[n]
  BY TotalIs
<1>3. PICK g : Sums(more, n + 1, g) /\ Total(more) = g[n + 1]
  BY <1>1, TotalIs
<1> HIDE DEF more, n
<1>4. f[n] = g[n]
  <2>1. n + 1 \in Nat /\ n <= n + 1 /\ n \in 0..n /\ AlikeOn(1..n, sizes, more)
    BY <1>1 DEF AlikeOn
  <2>2. AlikeOn(0..n, f, g)
    BY <1>1, <1>2, <1>3, <2>1, SumsAgree
  <2> QED  BY <2>1, <2>2 DEF AlikeOn
<1>5. g[n + 1] = g[n] + x
  BY <1>1, <1>3 DEF Sums
<1>6. Total(more) = Total(sizes) + x
  BY <1>2, <1>3, <1>4, <1>5
<1> QED  BY <1>6 DEF more

LEMMA TotalIsNat ==
  ASSUME NEW sizes \in Seq(Nat)
  PROVE  Total(sizes) \in Nat
<1>1. PICK f : Sums(sizes, Len(sizes), f) /\ Total(sizes) = f[Len(sizes)]
  BY TotalIs
<1> DEFINE Wrong == {k \in 0..Len(sizes) : f[k] \notin Nat}
<1>2. SUFFICES ASSUME Wrong # {}  PROVE FALSE
  BY <1>1
<1>3. PICK k \in Wrong : \A j \in Wrong : k <= j
  <2>1. Wrong \subseteq Nat
    OBVIOUS
  <2> HIDE DEF Wrong
  <2> QED  BY <1>2, <2>1, LeastElement
<1>4. k \in 0..Len(sizes) /\ f[k] \notin Nat
  BY <1>3
<1>5. f[k] = IF k = 0 THEN 0 ELSE f[k - 1] + sizes[k]
  BY <1>1, <1>4 DEF Sums
<1>6. k # 0 => k - 1 \in 0..Len(sizes) /\ k - 1 \notin Wrong /\ sizes[k] \in Nat
  BY <1>3, <1>4
<1>7. k # 0 => f[k - 1] \in Nat /\ sizes[k] \in Nat
  BY <1>6
<1> HIDE DEF Wrong
<1> QED  BY <1>4, <1>5, <1>7

LEMMA TotalOfThree ==
  ASSUME NEW a \in Nat, NEW b \in Nat, NEW c \in Nat
  PROVE  Total(<<a, b, c>>) = a + b + c
<1>1. /\ << >> \in Seq(Nat) /\ <<a>> \in Seq(Nat) /\ <<a, b>> \in Seq(Nat)
      /\ <<a>> = Append(<< >>, a) /\ <<a, b>> = Append(<<a>>, b)
      /\ <<a, b, c>> = Append(<<a, b>>, c)
  OBVIOUS
<1>2. Total(<<a>>) = a
  <2>1. Total(<<a>>) = Total(<< >>) + a
    BY <1>1, TotalOfMore
  <2> QED  BY <2>1, TotalOfNone
<1>3. Total(<<a, b>>) = a + b
  BY <1>1, <1>2, TotalOfMore
<1>4. Total(<<a, b, c>>) = Total(<<a, b>>) + c
  BY <1>1, TotalOfMore
<1> QED  BY <1>3, <1>4

LEMMA TotalOfFour ==
  ASSUME NEW a \in Nat, NEW b \in Nat, NEW c \in Nat, NEW d \in Nat
  PROVE  Total(<<a, b, c, d>>) = a + b + c + d
<1>1. <<a, b, c>> \in Seq(Nat) /\ <<a, b, c, d>> = Append(<<a, b, c>>, d)
  OBVIOUS
<1> QED  BY <1>1, TotalOfThree, TotalOfMore

LEMMA TotalOfFive ==
  ASSUME NEW a \in Nat, NEW b \in Nat, NEW c \in Nat, NEW d \in Nat, NEW e \in Nat
  PROVE  Total(<<a, b, c, d, e>>) = a + b + c + d + e
<1>1. <<a, b, c, d>> \in Seq(Nat) /\ <<a, b, c, d, e>> = Append(<<a, b, c, d>>, e)
  OBVIOUS
<1>2. Total(<<a, b, c, d, e>>) = Total(<<a, b, c, d>>) + e
  BY <1>1, TotalOfMore
<1> QED  BY <1>2, TotalOfFour

(* What may be asked of a member and what is stored for it: a type, or one *)
(* of the schemas that are nested, as a pair.                              *)
Scalars == {<<TypeText(t), [kind |-> t, requested |-> << >>]>> : t \in SchemaTypes}
SchemaMembers(nests) ==
  [key : SchemaKeys, value : {p[1] : p \in Scalars \cup nests}, required : BOOLEAN]
SchemaRequests(nests) ==
  [key : SchemaKeys, required : BOOLEAN, want : {p[2] : p \in Scalars \cup nests}]
Nesting(nests) == \A p \in nests : p[1].kind = "nested" /\ p[1].is.size \in Nat

(* The text of a member, counted. *)
RequiredSize(member, isFirst) ==
  IF ~member.required THEN 0
  ELSE LiteralSize[Opening(isFirst)] + KeySize[member.key] + LiteralSize.Quote
PropertySize(member, isFirst) ==
  LiteralSize[Opening(isFirst)] + KeySize[member.key]
    + IF member.value.kind = "nested" THEN LiteralSize.NestedOpen + member.value.is.size
      ELSE LiteralSize.MemberType + TypeSize[member.value.is] + LiteralSize.EndMemberType
TextSize(parts) == Total([j \in DOMAIN parts |-> PartSize(parts[j])])

LEMMA LiteralFacts ==
  /\ LiteralSize["Quote"] = 1 /\ LiteralSize["CommaQuote"] = 2
  /\ LiteralSize.Quote = 1 /\ LiteralSize.MemberType = 11
  /\ LiteralSize.NestedOpen = 2 /\ LiteralSize.EndMemberType = 2
  /\ LiteralSize.Beginning = 29 /\ LiteralSize.PostRequired = 16 /\ LiteralSize.End = 2
  /\ \A b \in BOOLEAN : LiteralSize[Opening(b)] \in Nat
<1>1. LiteralSize["Quote"] = 1 /\ LiteralSize["CommaQuote"] = 2
  BY DEF LiteralSize
<1>2. \A b \in BOOLEAN : Opening(b) = "Quote" \/ Opening(b) = "CommaQuote"
  BY DEF Opening
<1>3. \A b \in BOOLEAN : LiteralSize[Opening(b)] \in Nat
  BY <1>1, <1>2
<1> QED  BY <1>1, <1>3 DEF LiteralSize

LEMMA PartSizes ==
  /\ \A x : PartSize(Lit(x)) = LiteralSize[x]
  /\ \A k : PartSize(KeyText(k)) = KeySize[k]
  /\ \A v : v.kind = "type" => PartSize(v) = TypeSize[v.is]
  /\ \A v : v.kind = "nested" => PartSize(v) = v.is.size
  BY DEF PartSize, Lit, KeyText

LEMMA MemberFacts ==
  ASSUME SchemaAssumption, NEW nests, Nesting(nests), NEW m \in SchemaMembers(nests)
  PROVE  /\ m.key \in SchemaKeys /\ m.required \in BOOLEAN /\ KeySize[m.key] \in Nat
         /\ \/ /\ m.value.kind = "type" /\ m.value.is \in SchemaTypes
               /\ TypeSize[m.value.is] \in Nat
            \/ /\ m.value.kind = "nested" /\ m.value.is.size \in Nat
               /\ \E p \in nests : m.value = p[1]
<1>1. /\ m.key \in SchemaKeys /\ m.required \in BOOLEAN
      /\ \E p \in Scalars \cup nests : m.value = p[1]
  BY DEF SchemaMembers
<1>2. PICK p \in Scalars \cup nests : m.value = p[1]
  BY <1>1
<1>3. CASE p \in Scalars
  <2>1. PICK t \in SchemaTypes : p = <<TypeText(t), [kind |-> t, requested |-> << >>]>>
    BY <1>3 DEF Scalars
  <2>2. m.value.kind = "type" /\ m.value.is = t
    BY <1>2, <2>1 DEF TypeText
  <2> QED  BY <1>1, <2>2 DEF SchemaAssumption, SchemaKeys, SchemaTypes
<1>4. CASE p \in nests
  BY <1>1, <1>2, <1>4 DEF Nesting, SchemaAssumption, SchemaKeys
<1> QED  BY <1>2, <1>3, <1>4

(* What is written for a member is as long as what is counted.             *)
LEMMA RequiredText ==
  ASSUME SchemaAssumption, NEW nests, Nesting(nests), NEW m \in SchemaMembers(nests),
         NEW b \in BOOLEAN
  PROVE  /\ m.required => TextSize(<<Lit(Opening(b)), KeyText(m.key), Lit("Quote")>>)
                            = RequiredSize(m, b)
         /\ ~m.required => TextSize(<< >>) = RequiredSize(m, b)
         /\ RequiredSize(m, b) \in Nat
<1> DEFINE parts == <<Lit(Opening(b)), KeyText(m.key), Lit("Quote")>>
<1>1. LiteralSize[Opening(b)] \in Nat /\ KeySize[m.key] \in Nat /\ LiteralSize["Quote"] = 1
  BY MemberFacts, LiteralFacts
<1>2. [j \in DOMAIN parts |-> PartSize(parts[j])]
        = <<LiteralSize[Opening(b)], KeySize[m.key], 1>>
  <2>1. /\ PartSize(Lit(Opening(b))) = LiteralSize[Opening(b)]
        /\ PartSize(KeyText(m.key)) = KeySize[m.key] /\ PartSize(Lit("Quote")) = 1
    BY <1>1, PartSizes
  <2>2. [j \in DOMAIN parts |-> PartSize(parts[j])]
          = <<PartSize(Lit(Opening(b))), PartSize(KeyText(m.key)), PartSize(Lit("Quote"))>>
    OBVIOUS
  <2> QED  BY <2>1, <2>2
<1>3. TextSize(parts) = LiteralSize[Opening(b)] + KeySize[m.key] + 1
  BY <1>1, <1>2, TotalOfThree DEF TextSize
<1>4. TextSize(<< >>) = 0
  <2>1. [j \in DOMAIN << >> |-> PartSize(<< >>[j])] = << >>
    OBVIOUS
  <2> QED  BY <2>1, TotalOfNone DEF TextSize
<1> QED  BY <1>1, <1>3, <1>4, MemberFacts DEF RequiredSize

LEMMA PropertyText ==
  ASSUME SchemaAssumption, NEW nests, Nesting(nests), NEW m \in SchemaMembers(nests),
         NEW b \in BOOLEAN
  PROVE  /\ m.value.kind = "nested" =>
              TextSize(<<Lit(Opening(b)), KeyText(m.key), Lit("NestedOpen"), m.value>>)
                = PropertySize(m, b)
         /\ m.value.kind # "nested" =>
              TextSize(<<Lit(Opening(b)), KeyText(m.key), Lit("MemberType"), m.value,
                         Lit("EndMemberType")>>) = PropertySize(m, b)
         /\ PropertySize(m, b) \in Nat
<1> DEFINE nested == <<Lit(Opening(b)), KeyText(m.key), Lit("NestedOpen"), m.value>>
           scalar == <<Lit(Opening(b)), KeyText(m.key), Lit("MemberType"), m.value,
                       Lit("EndMemberType")>>
           o == LiteralSize[Opening(b)]
           k == KeySize[m.key]
<1>1. o \in Nat /\ k \in Nat
  BY MemberFacts, LiteralFacts
<1>2. /\ PartSize(Lit(Opening(b))) = o /\ PartSize(KeyText(m.key)) = k
      /\ PartSize(Lit("NestedOpen")) = 2 /\ PartSize(Lit("MemberType")) = 11
      /\ PartSize(Lit("EndMemberType")) = 2
  BY PartSizes, LiteralFacts
<1>3. CASE m.value.kind = "nested"
  <2>1. PartSize(m.value) = m.value.is.size /\ m.value.is.size \in Nat
    BY <1>3, PartSizes, MemberFacts
  <2>2. [j \in DOMAIN nested |-> PartSize(nested[j])] = <<o, k, 2, m.value.is.size>>
    <3>1. [j \in DOMAIN nested |-> PartSize(nested[j])]
            = <<PartSize(Lit(Opening(b))), PartSize(KeyText(m.key)),
                PartSize(Lit("NestedOpen")), PartSize(m.value)>>
      OBVIOUS
    <3> QED  BY <1>2, <2>1, <3>1
  <2>3. TextSize(nested) = o + k + 2 + m.value.is.size
    BY <1>1, <2>1, <2>2, TotalOfFour DEF TextSize
  <2>4. PropertySize(m, b) = o + k + (2 + m.value.is.size)
    BY <1>3, LiteralFacts DEF PropertySize
  <2> HIDE DEF nested, o, k
  <2>5. TextSize(nested) = PropertySize(m, b) /\ PropertySize(m, b) \in Nat
    BY <1>1, <2>1, <2>3, <2>4
  <2> QED  BY <1>3, <2>5 DEF nested
<1>4. CASE m.value.kind # "nested"
  <2>1. PartSize(m.value) = TypeSize[m.value.is] /\ TypeSize[m.value.is] \in Nat
    BY <1>4, PartSizes, MemberFacts
  <2>2. [j \in DOMAIN scalar |-> PartSize(scalar[j])] = <<o, k, 11, TypeSize[m.value.is], 2>>
    <3>1. [j \in DOMAIN scalar |-> PartSize(scalar[j])]
            = <<PartSize(Lit(Opening(b))), PartSize(KeyText(m.key)),
                PartSize(Lit("MemberType")), PartSize(m.value), PartSize(Lit("EndMemberType"))>>
      OBVIOUS
    <3> QED  BY <1>2, <2>1, <3>1
  <2>3. TextSize(scalar) = o + k + 11 + TypeSize[m.value.is] + 2
    <3>1. TextSize(scalar) = Total(<<o, k, 11, TypeSize[m.value.is], 2>>)
      BY <2>2 DEF TextSize
    <3> DEFINE t == TypeSize[m.value.is]
    <3>2. t \in Nat /\ 11 \in Nat /\ 2 \in Nat
      BY <2>1
    <3> HIDE DEF scalar, o, k, t
    <3>3. Total(<<o, k, 11, t, 2>>) = o + k + 11 + t + 2
      BY <1>1, <3>2, TotalOfFive
    <3> QED  BY <3>1, <3>3 DEF t
  <2>4. PropertySize(m, b) = o + k + (11 + TypeSize[m.value.is] + 2)
    BY <1>4, LiteralFacts DEF PropertySize
  <2> HIDE DEF scalar, o, k
  <2>5. TextSize(scalar) = PropertySize(m, b) /\ PropertySize(m, b) \in Nat
    BY <1>1, <2>1, <2>3, <2>4
  <2> QED  BY <1>4, <2>5 DEF scalar
<1> QED  BY <1>3, <1>4

RequiredSizes(members) ==
  [i \in DOMAIN members |-> RequiredSize(members[i], NoneBefore(members, i))]
PropertySizes(members) == [i \in DOMAIN members |-> PropertySize(members[i], i = 1)]

LEMMA RequiredListFacts ==
  ASSUME SchemaAssumption, NEW nests, Nesting(nests), NEW ms \in Seq(SchemaMembers(nests))
  PROVE  /\ RequiredSizes(ms) \in Seq(Nat) /\ Len(RequiredSizes(ms)) = Len(ms)
         /\ ListSize(RequiredList(ms)) = Total(RequiredSizes(ms))
         /\ CalculateRequiredListSize(ms) = Total(RequiredSizes(ms))
<1>1. \A i \in DOMAIN ms : ms[i] \in SchemaMembers(nests) /\ NoneBefore(ms, i) \in BOOLEAN
  BY DEF NoneBefore
<1>2. \A i \in DOMAIN ms : RequiredSizes(ms)[i] \in Nat
  BY <1>1, RequiredText DEF RequiredSizes
<1>3. DOMAIN RequiredSizes(ms) = 1..Len(ms) /\ DOMAIN ms = 1..Len(ms) /\ Len(ms) \in Nat
  BY DEF RequiredSizes
<1>4. RequiredSizes(ms) \in Seq(Nat) /\ Len(RequiredSizes(ms)) = Len(ms)
  <2>1. RequiredSizes(ms) = [i \in 1..Len(ms) |-> RequiredSizes(ms)[i]]
    BY <1>3 DEF RequiredSizes
  <2> QED  BY <1>2, <1>3, <2>1, IsASeq
<1>5. \A i \in DOMAIN ms : TextSize(RequiredList(ms)[i]) = RequiredSizes(ms)[i]
  <2> SUFFICES ASSUME NEW i \in DOMAIN ms
               PROVE  TextSize(RequiredList(ms)[i]) = RequiredSize(ms[i], NoneBefore(ms, i))
    BY DEF RequiredSizes
  <2>1. RequiredList(ms)[i]
          = IF ~ms[i].required THEN << >>
            ELSE <<Lit(Opening(NoneBefore(ms, i))), KeyText(ms[i].key), Lit("Quote")>>
    BY DEF RequiredList
  <2> DEFINE first == NoneBefore(ms, i)
  <2>2. first \in BOOLEAN /\ ms[i] \in SchemaMembers(nests)
    BY <1>1
  <2> HIDE DEF first
  <2>3. /\ ms[i].required => TextSize(<<Lit(Opening(first)), KeyText(ms[i].key), Lit("Quote")>>)
                               = RequiredSize(ms[i], first)
        /\ ~ms[i].required => TextSize(<< >>) = RequiredSize(ms[i], first)
    BY <2>2, RequiredText
  <2> QED  BY <2>1, <2>3 DEF first
<1>6. ListSize(RequiredList(ms)) = Total(RequiredSizes(ms))
  <2>1. ListSize(RequiredList(ms))
          = Total([i \in DOMAIN RequiredList(ms) |-> TextSize(RequiredList(ms)[i])])
    BY DEF ListSize, TextSize
  <2>2. DOMAIN RequiredList(ms) = DOMAIN ms
    BY DEF RequiredList
  <2>3. [i \in DOMAIN ms |-> TextSize(RequiredList(ms)[i])] = [i \in DOMAIN ms |-> RequiredSizes(ms)[i]]
    BY <1>5
  <2>4. [i \in DOMAIN ms |-> RequiredSizes(ms)[i]] = RequiredSizes(ms)
    BY DEF RequiredSizes
  <2> QED  BY <2>1, <2>2, <2>3, <2>4
<1>7. CalculateRequiredListSize(ms) = Total(RequiredSizes(ms))
  BY DEF CalculateRequiredListSize, RequiredSizes, RequiredSize
<1> QED  BY <1>4, <1>6, <1>7

LEMMA PropertyListFacts ==
  ASSUME SchemaAssumption, NEW nests, Nesting(nests), NEW ms \in Seq(SchemaMembers(nests))
  PROVE  /\ PropertySizes(ms) \in Seq(Nat) /\ Len(PropertySizes(ms)) = Len(ms)
         /\ ListSize(PropertyList(ms)) = Total(PropertySizes(ms))
         /\ (\A i \in DOMAIN ms : ms[i].value.kind = "type") =>
              CalculateTypeObjectSize(ms) = Total(PropertySizes(ms))
<1>1. \A i \in DOMAIN ms : ms[i] \in SchemaMembers(nests) /\ (i = 1) \in BOOLEAN
  OBVIOUS
<1>2. \A i \in DOMAIN ms : PropertySizes(ms)[i] \in Nat
  BY <1>1, PropertyText DEF PropertySizes
<1>3. DOMAIN PropertySizes(ms) = 1..Len(ms) /\ DOMAIN ms = 1..Len(ms) /\ Len(ms) \in Nat
  BY DEF PropertySizes
<1>4. PropertySizes(ms) \in Seq(Nat) /\ Len(PropertySizes(ms)) = Len(ms)
  <2>1. PropertySizes(ms) = [i \in 1..Len(ms) |-> PropertySizes(ms)[i]]
    BY <1>3 DEF PropertySizes
  <2> QED  BY <1>2, <1>3, <2>1, IsASeq
<1>5. \A i \in DOMAIN ms : TextSize(PropertyList(ms)[i]) = PropertySizes(ms)[i]
  <2> SUFFICES ASSUME NEW i \in DOMAIN ms
               PROVE  TextSize(PropertyList(ms)[i]) = PropertySize(ms[i], i = 1)
    BY DEF PropertySizes
  <2> DEFINE first == i = 1
  <2>1. PropertyList(ms)[i]
          = IF ms[i].value.kind = "nested"
            THEN <<Lit(Opening(first)), KeyText(ms[i].key), Lit("NestedOpen"), ms[i].value>>
            ELSE <<Lit(Opening(first)), KeyText(ms[i].key), Lit("MemberType"), ms[i].value,
                   Lit("EndMemberType")>>
    BY DEF PropertyList
  <2>2. first \in BOOLEAN /\ ms[i] \in SchemaMembers(nests)
    BY <1>1
  <2> HIDE DEF first
  <2>3. /\ ms[i].value.kind = "nested" =>
             TextSize(<<Lit(Opening(first)), KeyText(ms[i].key), Lit("NestedOpen"), ms[i].value>>)
               = PropertySize(ms[i], first)
        /\ ms[i].value.kind # "nested" =>
             TextSize(<<Lit(Opening(first)), KeyText(ms[i].key), Lit("MemberType"), ms[i].value,
                        Lit("EndMemberType")>>) = PropertySize(ms[i], first)
    BY <2>2, PropertyText
  <2> QED  BY <2>1, <2>3 DEF first
<1>6. ListSize(PropertyList(ms)) = Total(PropertySizes(ms))
  <2>1. ListSize(PropertyList(ms))
          = Total([i \in DOMAIN PropertyList(ms) |-> TextSize(PropertyList(ms)[i])])
    BY DEF ListSize, TextSize
  <2>2. DOMAIN PropertyList(ms) = DOMAIN ms
    BY DEF PropertyList
  <2>3. [i \in DOMAIN ms |-> TextSize(PropertyList(ms)[i])] = [i \in DOMAIN ms |-> PropertySizes(ms)[i]]
    BY <1>5
  <2>4. [i \in DOMAIN ms |-> PropertySizes(ms)[i]] = PropertySizes(ms)
    BY DEF PropertySizes
  <2> QED  BY <2>1, <2>2, <2>3, <2>4
<1>7. ASSUME \A i \in DOMAIN ms : ms[i].value.kind = "type"
      PROVE  CalculateTypeObjectSize(ms) = Total(PropertySizes(ms))
  <2> DEFINE counted(i) == LiteralSize[Opening(i = 1)] + KeySize[ms[i].key] + LiteralSize.MemberType
                             + TypeSize[ms[i].value.is] + LiteralSize.EndMemberType
  <2>1. \A i \in DOMAIN ms : counted(i) = PropertySize(ms[i], i = 1)
    <3> SUFFICES ASSUME NEW i \in DOMAIN ms  PROVE counted(i) = PropertySize(ms[i], i = 1)
      OBVIOUS
    <3>1. ms[i].value.kind = "type" /\ ms[i] \in SchemaMembers(nests) /\ (i = 1) \in BOOLEAN
      BY <1>1, <1>7
    <3>2. /\ LiteralSize[Opening(i = 1)] \in Nat /\ KeySize[ms[i].key] \in Nat
          /\ TypeSize[ms[i].value.is] \in Nat
      BY <3>1, MemberFacts, LiteralFacts
    <3> DEFINE o == LiteralSize[Opening(i = 1)]  k == KeySize[ms[i].key]
               t == TypeSize[ms[i].value.is]
    <3>3. counted(i) = o + k + 11 + t + 2
      BY LiteralFacts
    <3>4. PropertySize(ms[i], i = 1) = o + k + (11 + t + 2)
      BY <3>1, LiteralFacts DEF PropertySize
    <3>5. o \in Nat /\ k \in Nat /\ t \in Nat
      BY <3>2
    <3> HIDE DEF counted, o, k, t
    <3>6. o + k + 11 + t + 2 = o + k + (11 + t + 2)
      BY <3>5
    <3> QED  BY <3>3, <3>4, <3>6
  <2>2. CalculateTypeObjectSize(ms) = Total([i \in DOMAIN ms |-> counted(i)])
    BY DEF CalculateTypeObjectSize
  <2> HIDE DEF counted
  <2>3. [i \in DOMAIN ms |-> counted(i)] = PropertySizes(ms)
    BY <2>1 DEF PropertySizes
  <2> QED  BY <2>2, <2>3
<1> QED  BY <1>4, <1>6, <1>7

LEMMA OneLonger ==
  ASSUME NEW s \in Seq(Nat), NEW t \in Seq(Nat), NEW x \in Nat, Len(t) = Len(s) + 1,
         t[Len(s) + 1] = x, \A i \in 1..Len(s) : t[i] = s[i]
  PROVE  t = Append(s, x)
<1>1. /\ Append(s, x) \in Seq(Nat) /\ Len(Append(s, x)) = Len(s) + 1
      /\ Append(s, x)[Len(s) + 1] = x /\ \A i \in 1..Len(s) : Append(s, x)[i] = s[i]
  OBVIOUS
<1>2. \A i \in 1..(Len(s) + 1) : i \in 1..Len(s) \/ i = Len(s) + 1
  OBVIOUS
<1>3. \A i \in 1..Len(t) : t[i] = Append(s, x)[i]
  BY <1>1, <1>2
<1> QED  BY <1>1, <1>3, SeqEqual

(* With one member more. *)
LEMMA ListsGrow ==
  ASSUME SchemaAssumption, NEW nests, Nesting(nests), NEW ms \in Seq(SchemaMembers(nests)),
         NEW m \in SchemaMembers(nests)
  PROVE  /\ RequiredSizes(Append(ms, m))
              = Append(RequiredSizes(ms), RequiredSize(m, \A j \in DOMAIN ms : ~ms[j].required))
         /\ PropertySizes(Append(ms, m))
              = Append(PropertySizes(ms), PropertySize(m, ms = << >>))
<1> DEFINE n == Len(ms)  more == Append(ms, m)
<1>1. /\ n \in Nat /\ DOMAIN ms = 1..n /\ DOMAIN more = 1..(n + 1) /\ more[n + 1] = m
      /\ \A i \in 1..n : more[i] = ms[i]
      /\ ms = << >> <=> n + 1 = 1
  OBVIOUS
<1>2. /\ RequiredSizes(ms) \in Seq(Nat) /\ Len(RequiredSizes(ms)) = n
      /\ PropertySizes(ms) \in Seq(Nat) /\ Len(PropertySizes(ms)) = n
      /\ RequiredSizes(more) \in Seq(Nat) /\ Len(RequiredSizes(more)) = n + 1
      /\ PropertySizes(more) \in Seq(Nat) /\ Len(PropertySizes(more)) = n + 1
  <2>1. more \in Seq(SchemaMembers(nests)) /\ Len(more) = n + 1
    OBVIOUS
  <2> HIDE DEF more
  <2> QED  BY <2>1, RequiredListFacts, PropertyListFacts
<1> HIDE DEF n, more
<1>3. \A i \in 1..n : NoneBefore(more, i) = NoneBefore(ms, i)
  <2> SUFFICES ASSUME NEW i \in 1..n  PROVE NoneBefore(more, i) = NoneBefore(ms, i)
    OBVIOUS
  <2>1. \A j \in 1..(i - 1) : j \in 1..n /\ more[j] = ms[j]
    BY <1>1
  <2> QED  BY <2>1 DEF NoneBefore
<1>4. NoneBefore(more, n + 1) = (\A j \in DOMAIN ms : ~ms[j].required)
  <2>1. (n + 1) - 1 = n /\ \A j \in 1..n : more[j] = ms[j]
    BY <1>1
  <2> QED  BY <1>1, <2>1 DEF NoneBefore
<1>5. RequiredSizes(more)
        = Append(RequiredSizes(ms), RequiredSize(m, \A j \in DOMAIN ms : ~ms[j].required))
  <2> DEFINE none == \A j \in DOMAIN ms : ~ms[j].required
  <2>1. \A i \in 1..n : RequiredSizes(more)[i] = RequiredSizes(ms)[i]
    BY <1>1, <1>3 DEF RequiredSizes
  <2>2. RequiredSizes(more)[n + 1] = RequiredSize(m, none)
    <3>1. n + 1 \in DOMAIN more
      BY <1>1
    <3>2. RequiredSizes(more)[n + 1] = RequiredSize(more[n + 1], NoneBefore(more, n + 1))
      BY <3>1 DEF RequiredSizes
    <3> QED  BY <1>1, <1>4, <3>2
  <2>3. none \in BOOLEAN
    OBVIOUS
  <2> HIDE DEF none
  <2>4. RequiredSize(m, none) \in Nat
    BY <2>3, RequiredText
  <2>5. RequiredSizes(more) = Append(RequiredSizes(ms), RequiredSize(m, none))
    BY <1>2, <2>1, <2>2, <2>4, OneLonger
  <2> QED  BY <2>5 DEF none
<1>6. PropertySizes(more) = Append(PropertySizes(ms), PropertySize(m, ms = << >>))
  <2> DEFINE first == ms = << >>
  <2>1. \A i \in 1..n : PropertySizes(more)[i] = PropertySizes(ms)[i]
    BY <1>1 DEF PropertySizes
  <2>2. PropertySizes(more)[n + 1] = PropertySize(m, first)
    <3>1. n + 1 \in DOMAIN more /\ (n + 1 = 1) = first
      BY <1>1
    <3>2. PropertySizes(more)[n + 1] = PropertySize(more[n + 1], n + 1 = 1)
      BY <3>1 DEF PropertySizes
    <3> QED  BY <1>1, <3>1, <3>2
  <2>3. first \in BOOLEAN
    OBVIOUS
  <2> HIDE DEF first
  <2>4. PropertySize(m, first) \in Nat
    BY <2>3, PropertyText
  <2>5. PropertySizes(more) = Append(PropertySizes(ms), PropertySize(m, first))
    BY <1>2, <2>1, <2>2, <2>4, OneLonger
  <2> QED  BY <2>5 DEF first
<1> QED  BY <1>5, <1>6 DEF more

(* A text has the two lists between its fixed parts.                       *)
LEMMA TextFacts ==
  ASSUME SchemaAssumption, NEW nests, Nesting(nests), NEW ms \in Seq(SchemaMembers(nests))
  PROVE  /\ Total(RequiredSizes(ms)) \in Nat /\ Total(PropertySizes(ms)) \in Nat
         /\ SizeOf(Build(ms)) = BaseSize + Total(RequiredSizes(ms)) + Total(PropertySizes(ms))
         /\ SizeOf(Build(ms)) \in Nat
<1> DEFINE r == Total(RequiredSizes(ms))  p == Total(PropertySizes(ms))
<1>1. /\ r \in Nat /\ p \in Nat
      /\ ListSize(RequiredList(ms)) = r /\ ListSize(PropertyList(ms)) = p
  BY RequiredListFacts, PropertyListFacts, TotalIsNat
<1>2. Build(ms).required = RequiredList(ms) /\ Build(ms).properties = PropertyList(ms)
  BY DEF Build
<1> HIDE DEF r, p
<1>3. SizeOf(Build(ms)) = 29 + r + 16 + p + 2 /\ BaseSize = 29 + 16 + 2
  BY <1>1, <1>2, LiteralFacts DEF SizeOf, BaseSize
<1>4. SizeOf(Build(ms)) = BaseSize + r + p /\ SizeOf(Build(ms)) \in Nat
  BY <1>1, <1>3
<1> QED  BY <1>1, <1>4 DEF r, p

LEMMA TextGrows ==
  ASSUME SchemaAssumption, NEW nests, Nesting(nests), NEW ms \in Seq(SchemaMembers(nests)),
         NEW m \in SchemaMembers(nests)
  PROVE  SizeOf(Build(Append(ms, m)))
           = SizeOf(Build(ms)) + RequiredSize(m, \A j \in DOMAIN ms : ~ms[j].required)
                               + PropertySize(m, ms = << >>)
<1> DEFINE r == Total(RequiredSizes(ms))  p == Total(PropertySizes(ms))
           none == \A j \in DOMAIN ms : ~ms[j].required
           first == ms = << >>
           more == Append(ms, m)
<1>1. /\ r \in Nat /\ p \in Nat /\ SizeOf(Build(ms)) = BaseSize + r + p
      /\ RequiredSizes(ms) \in Seq(Nat) /\ PropertySizes(ms) \in Seq(Nat)
  BY TextFacts, RequiredListFacts, PropertyListFacts
<1>2. none \in BOOLEAN /\ first \in BOOLEAN /\ more \in Seq(SchemaMembers(nests))
  OBVIOUS
<1>3. /\ RequiredSizes(more) = Append(RequiredSizes(ms), RequiredSize(m, none))
      /\ PropertySizes(more) = Append(PropertySizes(ms), PropertySize(m, first))
  BY ListsGrow
<1> HIDE DEF none, first, more
<1>4. RequiredSize(m, none) \in Nat /\ PropertySize(m, first) \in Nat
  BY <1>2, RequiredText, PropertyText
<1>5. /\ Total(RequiredSizes(more)) = r + RequiredSize(m, none)
      /\ Total(PropertySizes(more)) = p + PropertySize(m, first)
  BY <1>1, <1>3, <1>4, TotalOfMore
<1>6. SizeOf(Build(more)) = BaseSize + Total(RequiredSizes(more)) + Total(PropertySizes(more))
  BY <1>2, TextFacts
<1> HIDE DEF r, p
<1>7. BaseSize \in Nat
  BY LiteralFacts DEF BaseSize
<1>8. SizeOf(Build(more)) = SizeOf(Build(ms)) + RequiredSize(m, none) + PropertySize(m, first)
  BY <1>1, <1>4, <1>5, <1>6, <1>7
<1> QED  BY <1>8 DEF none, first, more

(* A builder, what it was asked for, and what may be nested in it. *)
Nests(kept) ==
  IF kept = << >> THEN {}
  ELSE {<<Nested(Build(kept[1].members), kept[1].N),
          [kind |-> "object", requested |-> kept[2]]>>}
Builder(s, r, nests) ==
  /\ s.members \in Seq(SchemaMembers(nests)) /\ r \in Seq(SchemaRequests(nests))
  /\ Len(r) = Len(s.members)
  /\ \A i \in DOMAIN r :
       /\ r[i].key = s.members[i].key /\ r[i].required = s.members[i].required
       /\ <<s.members[i].value, r[i].want>> \in Scalars \cup nests
  /\ s.RequiredCount \in Nat
  /\ s.RequiredCount = 0 <=> \A i \in DOMAIN s.members : ~s.members[i].required
  /\ s.N = SizeOf(Build(s.members))

(* The builder that is kept has no other in it.                            *)
SchemaInv ==
  /\ inner # << >> => Builder(inner[1], inner[2], {})
  /\ Builder(schema, requested, Nests(inner))

LEMMA NestsFacts ==
  ASSUME SchemaAssumption, NEW kept, kept # << >> => Builder(kept[1], kept[2], {})
  PROVE  Nesting(Nests(kept))
<1>1. CASE kept = << >>
  BY <1>1 DEF Nesting, Nests
<1>2. CASE kept # << >>
  <2>1. Nesting({})
    BY DEF Nesting
  <2>2. /\ kept[1].members \in Seq(SchemaMembers({}))
        /\ kept[1].N = SizeOf(Build(kept[1].members))
    BY <1>2 DEF Builder
  <2>3. kept[1].N \in Nat
    BY <2>1, <2>2, TextFacts
  <2> DEFINE pair == <<Nested(Build(kept[1].members), kept[1].N),
                       [kind |-> "object", requested |-> kept[2]]>>
  <2>4. pair[1].kind = "nested" /\ pair[1].is.size \in Nat
    BY <2>3 DEF Nested
  <2>5. Nests(kept) = {pair}
    BY <1>2 DEF Nests
  <2> HIDE DEF pair
  <2> QED  BY <2>4, <2>5 DEF Nesting
<1> QED  BY <1>1, <1>2

LEMMA NewBuilder ==
  ASSUME SchemaAssumption, NEW nests, Nesting(nests)
  PROVE  Builder(ObjectSchema, << >>, nests)
<1>1. /\ << >> \in Seq(SchemaMembers(nests)) /\ << >> \in Seq(SchemaRequests(nests))
      /\ DOMAIN << >> = {}
  OBVIOUS
<1>2. RequiredSizes(<< >>) = << >> /\ PropertySizes(<< >>) = << >>
  BY DEF RequiredSizes, PropertySizes
<1>3. BaseSize \in Nat
  BY LiteralFacts DEF BaseSize
<1>4. SizeOf(Build(<< >>)) = BaseSize
  <2>1. SizeOf(Build(<< >>)) = BaseSize + Total(RequiredSizes(<< >>)) + Total(PropertySizes(<< >>))
    BY <1>1, TextFacts
  <2> QED  BY <1>2, <1>3, <2>1, TotalOfNone
<1>5. /\ ObjectSchema.members = << >> /\ ObjectSchema.N = BaseSize
      /\ ObjectSchema.RequiredCount = 0
  BY DEF ObjectSchema
<1> QED  BY <1>1, <1>4, <1>5 DEF Builder

LEMMA MemberKeeps ==
  ASSUME SchemaAssumption, NEW nests, Nesting(nests), Builder(schema, requested, nests),
         NEW key \in SchemaKeys, NEW value, NEW required \in BOOLEAN, NEW want,
         <<value, want>> \in Scalars \cup nests, Add(key, value, required, want)
  PROVE  Builder(schema', requested', nests)
<1> DEFINE m == [key |-> key, value |-> value, required |-> required]
           r == [key |-> key, required |-> required, want |-> want]
           ms == schema.members
<1>1. m \in SchemaMembers(nests) /\ r \in SchemaRequests(nests)
  <2>1. <<value, want>>[1] = value /\ <<value, want>>[2] = want
    OBVIOUS
  <2>2. /\ value \in {p[1] : p \in Scalars \cup nests}
        /\ want \in {p[2] : p \in Scalars \cup nests}
    BY <2>1
  <2> QED  BY <2>2 DEF SchemaMembers, SchemaRequests
<1>2. /\ schema'.members = Append(ms, m)
      /\ schema'.N = schema.N + ReqDelta(key, required) + PropDelta(key, value)
      /\ schema'.RequiredCount = schema.RequiredCount + IF required THEN 1 ELSE 0
      /\ requested' = Append(requested, r)
  BY DEF Add
<1>3. /\ m.key = key /\ m.value = value /\ m.required = required
      /\ r.key = key /\ r.want = want /\ r.required = required
  OBVIOUS
<1> HIDE DEF m, r, ms
<1>4. /\ ms \in Seq(SchemaMembers(nests)) /\ requested \in Seq(SchemaRequests(nests))
      /\ Len(requested) = Len(ms) /\ schema.N = SizeOf(Build(ms))
      /\ schema.RequiredCount \in Nat
      /\ schema.RequiredCount = 0 <=> \A i \in DOMAIN ms : ~ms[i].required
      /\ \A i \in DOMAIN requested :
           /\ requested[i].key = ms[i].key /\ requested[i].required = ms[i].required
           /\ <<ms[i].value, requested[i].want>> \in Scalars \cup nests
  BY DEF Builder, ms
<1> DEFINE n == Len(ms)
<1>5. /\ Append(ms, m) \in Seq(SchemaMembers(nests))
      /\ Append(requested, r) \in Seq(SchemaRequests(nests))
      /\ Len(Append(ms, m)) = n + 1 /\ Len(Append(requested, r)) = n + 1
      /\ Append(ms, m)[n + 1] = m /\ Append(requested, r)[n + 1] = r
      /\ \A i \in 1..n : Append(ms, m)[i] = ms[i] /\ Append(requested, r)[i] = requested[i]
      /\ DOMAIN Append(ms, m) = 1..(n + 1) /\ DOMAIN Append(requested, r) = 1..(n + 1)
      /\ DOMAIN ms = 1..n /\ DOMAIN requested = 1..n /\ n \in Nat
  BY <1>1, <1>4, AppendProperties
<1> HIDE DEF n
<1>6. \A i \in 1..(n + 1) : i \in 1..n \/ i = n + 1
  BY <1>5
<1>7. ASSUME NEW i \in DOMAIN requested'
      PROVE  /\ requested'[i].key = schema'.members[i].key
             /\ requested'[i].required = schema'.members[i].required
             /\ <<schema'.members[i].value, requested'[i].want>> \in Scalars \cup nests
  <2>1. CASE i \in 1..n
    <3>1. schema'.members[i] = ms[i] /\ requested'[i] = requested[i] /\ i \in DOMAIN requested
      BY <1>2, <1>5, <2>1
    <3> QED  BY <1>4, <3>1
  <2>2. CASE i = n + 1
    <3>1. schema'.members[i] = m /\ requested'[i] = r
      BY <1>2, <1>5, <2>2
    <3> QED  BY <1>3, <3>1
  <2> QED  BY <1>2, <1>5, <1>6, <1>7, <2>1, <2>2
<1>8. /\ schema'.RequiredCount \in Nat
      /\ schema'.RequiredCount = 0 <=> \A i \in DOMAIN schema'.members : ~schema'.members[i].required
  <2>1. (\A i \in DOMAIN Append(ms, m) : ~Append(ms, m)[i].required)
          <=> (\A i \in DOMAIN ms : ~ms[i].required) /\ ~required
    BY <1>3, <1>5, <1>6
  <2> QED  BY <1>2, <1>4, <2>1
<1>9. schema'.N = SizeOf(Build(Append(ms, m)))
  <2> DEFINE none == \A j \in DOMAIN ms : ~ms[j].required
             first == ms = << >>
  <2>1. SizeOf(Build(Append(ms, m)))
          = SizeOf(Build(ms)) + RequiredSize(m, none) + PropertySize(m, first)
    BY <1>1, <1>4, TextGrows
  <2>2. ReqDelta(key, required) = RequiredSize(m, none)
    <3>1. (schema.RequiredCount = 0) = none
      BY <1>4
    <3> QED  BY <1>3, <3>1 DEF ReqDelta, RequiredSize
  <2>3. PropDelta(key, value) = PropertySize(m, first)
    BY <1>3 DEF PropDelta, PropertySize, ms
  <2> QED  BY <1>2, <1>4, <2>1, <2>2, <2>3
<1> QED  BY <1>2, <1>5, <1>7, <1>8, <1>9 DEF Builder

LEMMA SchemaInvInit == SchemaAssumption /\ SchemaInit => SchemaInv
<1> SUFFICES ASSUME SchemaAssumption, SchemaInit  PROVE SchemaInv
  OBVIOUS
<1>1. inner = << >> /\ schema = ObjectSchema /\ requested = << >>
  BY DEF SchemaInit
<1>2. Nesting(Nests(inner))
  BY <1>1, NestsFacts
<1>3. Builder(ObjectSchema, << >>, Nests(inner))
  BY <1>2, NewBuilder
<1> QED  BY <1>1, <1>3 DEF SchemaInv

LEMMA SchemaInvStep ==
  ASSUME SchemaAssumption, SchemaInv, [SchemaNext]_schemaVars
  PROVE  SchemaInv'
<1>1. Nesting(Nests(inner))
  BY NestsFacts DEF SchemaInv
<1>2. ASSUME NEW key \in SchemaKeys, NEW value, NEW required \in BOOLEAN, NEW want,
             <<value, want>> \in Scalars \cup Nests(inner), Add(key, value, required, want)
      PROVE  SchemaInv'
  <2>1. inner' = inner
    BY <1>2 DEF Add
  <2>2. Builder(schema', requested', Nests(inner))
    BY <1>1, <1>2, MemberKeeps DEF SchemaInv
  <2> QED  BY <2>1, <2>2 DEF SchemaInv
<1>3. ASSUME NEW key \in SchemaKeys, NEW type \in SchemaTypes, NEW required \in BOOLEAN,
             AddScalar(key, type, required)
      PROVE  SchemaInv'
  <2>1. <<TypeText(type), [kind |-> type, requested |-> << >>]>> \in Scalars \cup Nests(inner)
    BY DEF Scalars
  <2> QED  BY <1>2, <1>3, <2>1 DEF AddScalar
<1>4. ASSUME NEW key \in SchemaKeys, NEW required \in BOOLEAN, AddNested(key, required)
      PROVE  SchemaInv'
  <2>1. <<Nested(Build(inner[1].members), inner[1].N),
          [kind |-> "object", requested |-> inner[2]]>> \in Scalars \cup Nests(inner)
    BY <1>4 DEF AddNested, Nests
  <2> QED  BY <1>2, <1>4, <2>1 DEF AddNested
<1>5. ASSUME Keep  PROVE SchemaInv'
  <2>1. /\ inner = << >> /\ inner' = <<schema, requested>>
        /\ schema' = ObjectSchema /\ requested' = << >>
    BY <1>5 DEF Keep
  <2>2. Builder(schema, requested, {})
    BY <2>1 DEF SchemaInv, Nests
  <2>3. inner'[1] = schema /\ inner'[2] = requested
    BY <2>1
  <2>4. Builder(inner'[1], inner'[2], {})
    BY <2>2, <2>3
  <2>5. Nesting(Nests(inner'))
    BY <2>4, NestsFacts
  <2>6. Builder(schema', requested', Nests(inner'))
    BY <2>1, <2>5, NewBuilder
  <2> QED  BY <2>4, <2>6 DEF SchemaInv
<1>6. ASSUME UNCHANGED schemaVars  PROVE SchemaInv'
  BY <1>6 DEF schemaVars, SchemaInv
<1> QED  BY <1>3, <1>4, <1>5, <1>6 DEF SchemaNext

LEMMA SizesAreExact == SchemaAssumption /\ SchemaInv => SizeIsExact
<1> SUFFICES ASSUME SchemaAssumption, SchemaInv  PROVE SizeIsExact
  OBVIOUS
<1> DEFINE ms == schema.members
<1>1. /\ Nesting(Nests(inner)) /\ ms \in Seq(SchemaMembers(Nests(inner)))
      /\ schema.N = SizeOf(Build(ms))
  BY NestsFacts DEF SchemaInv, Builder
<1>2. SizeOf(Build(ms)) = BaseSize + Total(RequiredSizes(ms)) + Total(PropertySizes(ms))
  BY <1>1, TextFacts
<1>3. /\ CalculateRequiredListSize(ms) = Total(RequiredSizes(ms))
      /\ (\A i \in DOMAIN ms : ms[i].value.kind = "type") =>
           CalculateTypeObjectSize(ms) = Total(PropertySizes(ms))
  BY <1>1, RequiredListFacts, PropertyListFacts
<1> QED  BY <1>1, <1>2, <1>3 DEF SizeIsExact

(* What a member asks of the value for its key, in the text and as it was  *)
(* asked for.                                                              *)
LEMMA TextParts ==
  ASSUME NEW ms, NEW i \in DOMAIN ms
  PROVE  /\ DOMAIN Build(ms).required = DOMAIN ms /\ DOMAIN Build(ms).properties = DOMAIN ms
         /\ Build(ms).required[i] # << >> <=> ms[i].required
         /\ ms[i].required => /\ Build(ms).required[i][1] = Lit(Opening(NoneBefore(ms, i)))
                              /\ Build(ms).required[i][2].is = ms[i].key
         /\ Build(ms).properties[i] # << >>
         /\ Build(ms).properties[i][1] = Lit(Opening(i = 1))
         /\ Build(ms).properties[i][2].is = ms[i].key
         /\ Build(ms).properties[i][4] = ms[i].value
<1>1. Build(ms).required = RequiredList(ms) /\ Build(ms).properties = PropertyList(ms)
  BY DEF Build
<1>2. /\ RequiredList(ms)[i] # << >> <=> ms[i].required
      /\ ms[i].required => /\ RequiredList(ms)[i][1] = Lit(Opening(NoneBefore(ms, i)))
                           /\ RequiredList(ms)[i][2] = KeyText(ms[i].key)
  BY DEF RequiredList
<1>3. /\ PropertyList(ms)[i] # << >>
      /\ PropertyList(ms)[i][1] = Lit(Opening(i = 1))
      /\ PropertyList(ms)[i][2] = KeyText(ms[i].key)
      /\ PropertyList(ms)[i][4] = ms[i].value
  BY DEF PropertyList
<1>4. DOMAIN RequiredList(ms) = DOMAIN ms /\ DOMAIN PropertyList(ms) = DOMAIN ms
  BY DEF RequiredList, PropertyList
<1> QED  BY <1>1, <1>2, <1>3, <1>4 DEF KeyText

(* What is written for the members is separated as it has to be.           *)
LEMMA TextIsSeparated ==
  ASSUME NEW nests, NEW ms \in Seq(SchemaMembers(nests))
  PROVE  ParsesFlat(Build(ms))
<1>1. DOMAIN ms = 1..Len(ms) /\ Len(ms) \in Nat
  OBVIOUS
<1>2. Separated(Build(ms).required)
  <2> DEFINE list == Build(ms).required
  <2> SUFFICES ASSUME NEW i \in DOMAIN list, list[i] # << >>
               PROVE  list[i][1] = Lit(Opening(\A j \in 1..(i - 1) : list[j] = << >>))
    BY DEF Separated
  <2>1. DOMAIN list = DOMAIN ms
    BY DEF Build, RequiredList
  <2>2. i \in DOMAIN ms /\ \A j \in 1..(i - 1) : j \in DOMAIN ms
    BY <1>1, <2>1
  <2>3. \A j \in DOMAIN ms : list[j] # << >> <=> ms[j].required
    BY TextParts
  <2>4. list[i][1] = Lit(Opening(NoneBefore(ms, i)))
    BY <2>2, <2>3, TextParts
  <2> HIDE DEF list
  <2>5. (\A j \in 1..(i - 1) : list[j] = << >>) = NoneBefore(ms, i)
    BY <2>2, <2>3 DEF NoneBefore
  <2> QED  BY <2>4, <2>5
<1>3. Separated(Build(ms).properties)
  <2> DEFINE list == Build(ms).properties
  <2> SUFFICES ASSUME NEW i \in DOMAIN list, list[i] # << >>
               PROVE  list[i][1] = Lit(Opening(\A j \in 1..(i - 1) : list[j] = << >>))
    BY DEF Separated
  <2>1. DOMAIN list = DOMAIN ms
    BY DEF Build, PropertyList
  <2>2. i \in 1..Len(ms) /\ i \in DOMAIN ms /\ \A j \in 1..(i - 1) : j \in DOMAIN ms
    BY <1>1, <2>1
  <2>3. \A j \in DOMAIN ms : list[j] # << >>
    BY TextParts
  <2>4. list[i][1] = Lit(Opening(i = 1))
    BY <2>2, TextParts
  <2> HIDE DEF list
  <2>5. (\A j \in 1..(i - 1) : list[j] = << >>) = (i = 1)
    <3>1. CASE i = 1
      <4>1. \A j \in 1..(i - 1) : list[j] = << >>
        BY <3>1
      <4> QED  BY <3>1, <4>1
    <3>2. CASE i # 1
      <4>1. 1 \in 1..(i - 1) /\ list[1] # << >>
        BY <1>1, <2>2, <2>3, <3>2
      <4> QED  BY <3>2, <4>1
    <3> QED  BY <3>1, <3>2
  <2> QED  BY <2>4, <2>5
<1> QED  BY <1>2, <1>3 DEF ParsesFlat

LEMMA TextParses ==
  ASSUME SchemaAssumption, SchemaInv
  PROVE  Parses(Build(schema.members))
<1> DEFINE ms == schema.members
<1>1. ms \in Seq(SchemaMembers(Nests(inner))) /\ Nesting(Nests(inner))
  BY NestsFacts DEF SchemaInv, Builder
<1>2. ParsesFlat(Build(ms))
  BY <1>1, TextIsSeparated
<1>3. ASSUME NEW i \in DOMAIN ms, ms[i].value.kind = "nested"
      PROVE  ParsesFlat(ms[i].value.is.text)
  <2>1. ms[i] \in SchemaMembers(Nests(inner))
    BY <1>1
  <2>2. PICK p \in Scalars \cup Nests(inner) : ms[i].value = p[1]
    BY <2>1 DEF SchemaMembers
  <2>3. p \notin Scalars
    BY <1>3, <2>2 DEF Scalars, TypeText
  <2>4. inner # << >> /\ ms[i].value = Nested(Build(inner[1].members), inner[1].N)
    BY <2>2, <2>3 DEF Nests
  <2>5. inner[1].members \in Seq(SchemaMembers({}))
    BY <2>4 DEF SchemaInv, Builder
  <2>6. ms[i].value.is.text = Build(inner[1].members)
    BY <2>4 DEF Nested
  <2> QED  BY <2>5, <2>6, TextIsSeparated
<1>4. ASSUME NEW i \in DOMAIN Build(ms).properties, Build(ms).properties[i][4].kind = "nested"
      PROVE  ParsesFlat(Build(ms).properties[i][4].is.text)
  <2>1. i \in DOMAIN ms
    BY <1>4 DEF Build, PropertyList
  <2>2. Build(ms).properties[i][4] = ms[i].value
    BY <2>1, TextParts
  <2> QED  BY <1>3, <1>4, <2>1, <2>2
<1> QED  BY <1>2, <1>4 DEF Parses

(* One member of a builder without nested schemas.                         *)
LEMMA FlatIsTaken ==
  ASSUME NEW s, NEW r, Builder(s, r, {}), NEW v
  PROVE  AcceptsFlat(Build(s.members), v) <=> WantedFlat(r, v)
<1> DEFINE ms == s.members  made == Build(ms)
<1>1. /\ DOMAIN r = DOMAIN ms
      /\ \A i \in DOMAIN ms : /\ r[i].key = ms[i].key /\ r[i].required = ms[i].required
                              /\ <<ms[i].value, r[i].want>> \in Scalars
  <2>1. ms \in Seq(SchemaMembers({})) /\ r \in Seq(SchemaRequests({})) /\ Len(r) = Len(ms)
    BY DEF Builder
  <2>2. DOMAIN r = DOMAIN ms
    BY <2>1
  <2> QED  BY <2>2 DEF Builder
<1>2. ASSUME NEW i \in DOMAIN ms
      PROVE  /\ ms[i].value.kind = "type" /\ ms[i].value.is = r[i].want.kind
             /\ r[i].want.requested = << >>
  <2>1. PICK t \in SchemaTypes : <<ms[i].value, r[i].want>>
                                   = <<TypeText(t), [kind |-> t, requested |-> << >>]>>
    BY <1>1 DEF Scalars
  <2>2. ms[i].value = TypeText(t) /\ r[i].want = [kind |-> t, requested |-> << >>]
    BY <2>1
  <2> QED  BY <2>2 DEF TypeText
<1>3. /\ DOMAIN made.required = DOMAIN ms /\ DOMAIN made.properties = DOMAIN ms
      /\ \A i \in DOMAIN ms :
           /\ made.required[i] # << >> <=> ms[i].required
           /\ ms[i].required => made.required[i][2].is = ms[i].key
           /\ made.properties[i][2].is = ms[i].key
           /\ made.properties[i][4] = ms[i].value
  <2>1. DOMAIN made.required = DOMAIN ms /\ DOMAIN made.properties = DOMAIN ms
    BY DEF Build, RequiredList, PropertyList
  <2> HIDE DEF ms
  <2> QED  BY <2>1, TextParts
<1> HIDE DEF ms, made
<1>4. AcceptsFlat(made, v) <=>
        /\ v.kind = "object"
        /\ \A i \in DOMAIN ms :
             /\ ms[i].required => v.of[ms[i].key].kind # "absent"
             /\ \/ v.of[ms[i].key].kind = "absent"
                \/ v.of[ms[i].key].kind = ms[i].value.is
  BY <1>2, <1>3 DEF AcceptsFlat, HasRequired, FitsType, Given
<1>5. WantedFlat(r, v) <=>
        /\ v.kind = "object"
        /\ \A i \in DOMAIN ms :
             IF v.of[ms[i].key].kind = "absent" THEN ~ms[i].required
             ELSE v.of[ms[i].key].kind = ms[i].value.is
  BY <1>1, <1>2 DEF WantedFlat
<1> QED  BY <1>4, <1>5 DEF made, ms

LEMMA WhatIsAskedIsTaken ==
  ASSUME SchemaInv, NEW v
  PROVE  Accepts(Build(schema.members), v) <=> Wanted(requested, v)
<1> DEFINE ms == schema.members  made == Build(ms)
<1>1. /\ DOMAIN requested = DOMAIN ms
      /\ \A i \in DOMAIN ms :
           /\ requested[i].key = ms[i].key /\ requested[i].required = ms[i].required
           /\ <<ms[i].value, requested[i].want>> \in Scalars \cup Nests(inner)
  <2>1. /\ ms \in Seq(SchemaMembers(Nests(inner))) /\ Len(requested) = Len(ms)
        /\ requested \in Seq(SchemaRequests(Nests(inner)))
    BY DEF SchemaInv, Builder
  <2>2. DOMAIN requested = DOMAIN ms
    BY <2>1
  <2> QED  BY <2>2 DEF SchemaInv, Builder
<1> DEFINE suits(i, x) == \/ ms[i].value.kind = "type" /\ x.kind = ms[i].value.is
                          \/ ms[i].value.kind = "nested" /\ AcceptsFlat(ms[i].value.is.text, x)
           sought(i, x) == /\ x.kind = requested[i].want.kind
                           /\ x.kind = "object" => WantedFlat(requested[i].want.requested, x)
<1>2. ASSUME NEW i \in DOMAIN ms, NEW x
      PROVE  suits(i, x) <=> sought(i, x)
  <2>1. CASE <<ms[i].value, requested[i].want>> \in Scalars
    <3>1. PICK t \in SchemaTypes : <<ms[i].value, requested[i].want>>
                                     = <<TypeText(t), [kind |-> t, requested |-> << >>]>>
      BY <2>1 DEF Scalars
    <3>2. ms[i].value = TypeText(t) /\ requested[i].want = [kind |-> t, requested |-> << >>]
      BY <3>1
    <3>3. /\ ms[i].value.kind = "type" /\ ms[i].value.is = t
          /\ requested[i].want.kind = t /\ requested[i].want.requested = << >>
      BY <3>2 DEF TypeText
    <3>4. x.kind = "object" => WantedFlat(<< >>, x)
      BY DEF WantedFlat
    <3> QED  BY <3>3, <3>4
  <2>2. CASE <<ms[i].value, requested[i].want>> \in Nests(inner)
    <3>1. /\ inner # << >> /\ ms[i].value = Nested(Build(inner[1].members), inner[1].N)
          /\ requested[i].want = [kind |-> "object", requested |-> inner[2]]
      BY <2>2 DEF Nests
    <3>2. /\ ms[i].value.kind = "nested" /\ ms[i].value.is.text = Build(inner[1].members)
          /\ requested[i].want.kind = "object" /\ requested[i].want.requested = inner[2]
      BY <3>1 DEF Nested
    <3>3. AcceptsFlat(Build(inner[1].members), x) <=> WantedFlat(inner[2], x)
      BY <3>1, FlatIsTaken DEF SchemaInv
    <3>4. WantedFlat(inner[2], x) => x.kind = "object"
      BY DEF WantedFlat
    <3> QED  BY <3>2, <3>3, <3>4
  <2> QED  BY <1>1, <2>1, <2>2
<1>3. /\ DOMAIN made.required = DOMAIN ms /\ DOMAIN made.properties = DOMAIN ms
      /\ \A i \in DOMAIN ms :
           /\ made.required[i] # << >> <=> ms[i].required
           /\ ms[i].required => made.required[i][2].is = ms[i].key
           /\ made.properties[i][2].is = ms[i].key
           /\ made.properties[i][4] = ms[i].value
  <2>1. DOMAIN made.required = DOMAIN ms /\ DOMAIN made.properties = DOMAIN ms
    BY DEF Build, RequiredList, PropertyList
  <2> HIDE DEF ms
  <2> QED  BY <2>1, TextParts
<1> HIDE DEF made
<1>4. Accepts(made, v) <=>
        /\ v.kind = "object"
        /\ \A i \in DOMAIN ms :
             /\ ms[i].required => v.of[ms[i].key].kind # "absent"
             /\ v.of[ms[i].key].kind = "absent" \/ suits(i, v.of[ms[i].key])
  <2> HIDE DEF ms
  <2> QED  BY <1>3 DEF Accepts, HasRequired, FitsType, Given
<1>5. Wanted(requested, v) <=>
        /\ v.kind = "object"
        /\ \A i \in DOMAIN ms :
             IF v.of[ms[i].key].kind = "absent" THEN ~ms[i].required
             ELSE sought(i, v.of[ms[i].key])
  <2> DEFINE x(i) == v.of[requested[i].key]
  <2>1. WantedFlat(requested, v) <=>
          /\ v.kind = "object"
          /\ \A i \in DOMAIN requested : IF x(i).kind = "absent" THEN ~requested[i].required
                                       ELSE x(i).kind = requested[i].want.kind
    BY DEF WantedFlat
  <2>2. Wanted(requested, v) <=>
          /\ WantedFlat(requested, v)
          /\ \A i \in DOMAIN requested :
               x(i).kind = "object" => WantedFlat(requested[i].want.requested, x(i))
    BY DEF Wanted
  <2>3. \A i \in DOMAIN ms : /\ x(i) = v.of[ms[i].key]
                             /\ requested[i].required = ms[i].required
    BY <1>1
  <2> HIDE DEF ms, x
  <2> QED  BY <1>1, <2>1, <2>2, <2>3
<1>6. \A i \in DOMAIN ms : suits(i, v.of[ms[i].key]) <=> sought(i, v.of[ms[i].key])
  BY <1>2
<1> HIDE DEF ms, suits, sought
<1>7. Accepts(made, v) <=> Wanted(requested, v)
  BY <1>4, <1>5, <1>6
<1> QED  BY <1>7 DEF made, ms

(* The size that is counted on while a schema is put together, over any    *)
(* keys and types, is that of the text that Build writes, whatever the     *)
(* lengths, and the text takes what was asked for and nothing else.        *)
THEOREM SchemasAreExact == SchemaSpec => []SchemaIsExact
<1>1. SchemaInit => SchemaInv
  BY SchemaAssumption, SchemaInvInit
<1>2. SchemaInv /\ [SchemaNext]_schemaVars => SchemaInv'
  BY SchemaAssumption, SchemaInvStep
<1>3. SchemaInv => SchemaIsExact
  <2> SUFFICES ASSUME SchemaInv  PROVE SchemaIsExact
    OBVIOUS
  <2>1. SizeIsExact
    BY SchemaAssumption, SizesAreExact
  <2> DEFINE made == Build(schema.members)
  <2>2. Parses(made)
    BY SchemaAssumption, TextParses
  <2>3. \A v \in Values : Accepts(made, v) <=> Wanted(requested, v)
    BY WhatIsAskedIsTaken
  <2> HIDE DEF made
  <2>4. ASSUME NEW v \in Values
        PROVE  \E sought \in {Wanted(requested, v)} :
                 (IsValidSecondaryData(made, v) <=> sought) /\ (IsJsonValid(made, v) <=> sought)
    BY <2>2, <2>3 DEF IsValidSecondaryData, IsJsonValid
  <2>5. TakesWhatWasAsked
    BY <2>4 DEF TakesWhatWasAsked, made
  <2> QED  BY <2>1, <2>5 DEF SchemaIsExact
<1> QED  BY <1>1, <1>2, <1>3, PTL DEF SchemaSpec
=============================================================================
