------------------------------- MODULE Elements -------------------------------
(***************************************************************************)
(* The elements of the user interface (LVGL++): each wraps an object of    *)
(* LVGL and owns the elements it contains.  A wrapper and its object have  *)
(* lives of their own: the object of a screen that goes outlives its       *)
(* wrapper by the transition, events and animations of LVGL call wrappers, *)
(* and OnShow goes down the tree as each class forwards it.                *)
(*                                                                         *)
(* The tree is that of a home screen with its list and its tabs, the       *)
(* settings above it and the Wi-Fi page above those, where a keyboard      *)
(* slides in for the password (WifiSettings.cpp).                          *)
(***************************************************************************)
EXTENDS Naturals, Sequences, SequencesExt

CONSTANT Keyboards        (* bound: with two, a second one could open      *)

Screens  == {"Home", "Settings", "Wifi"}
ParentIn ==
  [List |-> "Home", TabView |-> "Home", TabA |-> "TabView", PageA |-> "TabA",
   SliderA |-> "PageA", TabB |-> "TabView", PageB |-> "TabB",
   PageS |-> "Settings", ItemS |-> "PageS", ExitS |-> "Settings",
   PageW |-> "Wifi", TextW |-> "PageW", ExitW |-> "Wifi"]
Elems    == Screens \cup DOMAIN ParentIn \cup Keyboards
Tabs     == <<"TabA", "TabB">>
DyingOf  == [Settings |-> "dying Settings", Wifi |-> "dying Wifi"]
Nobody   == "nobody"

ASSUME ElementsAssumption ==
  Keyboards \cap (Screens \cup DOMAIN ParentIn \cup {"dying Settings", "dying Wifi", Nobody}) = {}

ParentOf(e) == IF e \in Keyboards THEN "PageW" ELSE ParentIn[e]
Up(e)    == IF e \in Screens THEN e ELSE ParentOf(e)
Above(e) == {e, Up(e), Up(Up(e)), Up(Up(Up(e))), Up(Up(Up(Up(e))))}
Below(e) == {c \in Elems : e \in Above(c)}

VARIABLES
  alive,          (* the wrappers                                          *)
  objects,        (* the objects of LVGL, those that are to be deleted too *)
  handled,        (* those whose events call a wrapper                     *)
  concealed,      (* those with LV_OBJ_FLAG_HIDDEN                         *)
  shownTab,       (* the position of the current tab                       *)
  screenStack,
  loaded,         (* LVGL's active screen                                  *)
  leaving,        (* and the object of the one a transition leads away from*)
  mPasswordGetter,
  moves,          (* the animations: to the inside or not, with a handler  *)
                  (* for their end or not                                  *)
  resting,        (* the keyboards whose animation has ended               *)
  heard           (* history: the visible ones that have heard OnShow since*)
                  (* they became visible                                   *)

elemVars == <<alive, objects, handled, concealed, shownTab, screenStack, loaded,
              leaving, mPasswordGetter, moves, resting, heard>>
popUps   == <<screenStack, loaded, leaving>>
typing   == <<mPasswordGetter, moves, resting>>
-----------------------------------------------------------------------------
IsVisible(e) == /\ Above(e) \cap concealed = {}
                /\ \A i \in DOMAIN Tabs : Tabs[i] \in Above(e) => shownTab = i
                /\ \E s \in Screens \cap Above(e) : s \in {loaded, leaving}
Visible == {e \in alive : IsVisible(e)}

(* Whether parent tells child that it was shown: the tab view only its     *)
(* current tab, the settings' list nobody.                                 *)
PassesOnShow(parent, child) ==
  CASE parent = "TabView" -> child = Tabs[shownTab]
    [] parent = "PageS"   -> FALSE
    [] OTHER              -> parent \notin concealed

OnShow(e) == {c \in Below(e) \cap alive :
                \A d \in (Above(c) \cap Below(e)) \ {e} : PassesOnShow(ParentOf(d), d)}
Show(e)   == IF e \in concealed THEN OnShow(e)' ELSE {}

(* The end of a step, in which those have heard OnShow.                    *)
Told(those) == heard' = (heard \cup those) \cap Visible'

(* A wrapper takes the events of its object.                               *)
Wrap(those) == /\ alive'   = alive \cup those
               /\ objects' = objects \cup those
               /\ handled' = handled \cup those

(* ~UIElement: the object goes at once with all that it contains or, if it *)
(* is kept alive, later; then the contained elements go.                   *)
RemoveElement(e) == alive' = alive \ Below(e)

DeleteObject(e, keep) ==
  objects' = (objects \ Below(e)) \cup IF keep THEN {DyingOf[e]} ELSE {}

StopLvglEventHandler(e, keep) == handled' = handled \ Below(e)

(* Mutant: what is destroyed goes on moving.                               *)
MutantGoesOn(e) == resting' = resting \ Below(e) /\ UNCHANGED moves
StopAnimations(e) == /\ moves' = [k \in DOMAIN moves \ Below(e) |-> moves[k]]
                     /\ resting' = resting \ Below(e)
-----------------------------------------------------------------------------
ElementsInit ==
  /\ alive = {"Home", "List", "TabView"}
  /\ objects = alive
  /\ handled = alive \ {"List"}
  /\ concealed = {"TabView"}
  /\ shownTab = 1
  /\ screenStack = <<"Home">> /\ loaded = "Home" /\ leaving = Nobody
  /\ mPasswordGetter = Nobody /\ moves = << >> /\ resting = {}
  /\ heard = {"Home", "List"}

(* LVGL takes no input while a screen slides in.                           *)
Touchable(screen) == loaded = screen /\ leaving = Nobody
-----------------------------------------------------------------------------
(* clearScene, and AddTab for one or two tabs while they are hidden; then  *)
(* the list makes room for them.                                           *)
AddTabs(n) == UNION {Below(Tabs[i]) : i \in 1..n}
DisplayScenePage(tabs) ==
  /\ Touchable("Home")
  /\ \E gone \in {Below("TabView")}, made \in {{"TabView"} \cup AddTabs(tabs)} :
       /\ alive'   = (alive \ gone) \cup made
       /\ objects' = (objects \ gone) \cup made
       /\ handled' = (handled \ gone) \cup made
  /\ concealed' = {"List"}
  /\ shownTab' = 1
  /\ UNCHANGED <<popUps, typing>>
  /\ Told(OnShow("TabView")')

(* The same scene again.                                                   *)
ComeBack ==
  /\ Touchable("Home") /\ "TabA" \in alive
  /\ concealed' = {"List"}
  /\ UNCHANGED <<alive, objects, handled, shownTab, popUps, typing>>
  /\ Told(Show("TabView"))

ShowList ==
  /\ Touchable("Home")
  /\ concealed' = {"TabView"}
  /\ UNCHANGED <<alive, objects, handled, shownTab, popUps, typing>>
  /\ Told(Show("List"))

(* HandleTabChange, after a swipe.                                         *)
HandleTabChange(i) ==
  /\ Touchable("Home") /\ "TabView" \notin concealed
  /\ Tabs[i] \in alive /\ i # shownTab
  /\ shownTab' = i
  /\ UNCHANGED <<alive, objects, handled, concealed, popUps, typing>>
  /\ Told(OnShow(Tabs[i])')
-----------------------------------------------------------------------------
LoadScreen(s, from) == loaded' = s /\ leaving' = from

(* pushPopUp, from the status bar or the settings.                         *)
PushPopUp(s) ==
  /\ \/ s = "Settings" /\ Touchable("Home")
     \/ s = "Wifi" /\ Touchable("Settings")
  /\ Wrap(Below(s) \ Keyboards)
  /\ screenStack' = Append(screenStack, s)
  /\ LoadScreen(s, loaded)
  /\ UNCHANGED <<concealed, shownTab, typing>>
  /\ Told(OnShow(s)')

(* popScreen, from the button of the pop-up, which goes with it; the object *)
(* is kept alive for the transition.                                       *)
PopScreen(s) ==
  /\ Touchable(s) /\ s = Last(screenStack)
  /\ screenStack' = Front(screenStack)
  /\ LoadScreen(Last(Front(screenStack)), DyingOf[s])
  /\ RemoveElement(s) /\ DeleteObject(s, TRUE)
  /\ StopLvglEventHandler(s, TRUE) /\ StopAnimations(s)
  /\ mPasswordGetter' = Nobody
  /\ UNCHANGED <<concealed, shownTab>>
  /\ Told(OnShow(Last(screenStack))')

(* LVGL's: the transition ends, and 500 ms later the object is deleted.    *)
TransitionEnds ==
  /\ leaving # Nobody
  /\ leaving' = Nobody
  /\ UNCHANGED <<alive, objects, handled, concealed, shownTab, screenStack, loaded, typing>>
  /\ Told({})
DeletionDue(o) ==
  /\ o \in objects /\ leaving = Nobody
  /\ objects' = objects \ {o}
  /\ handled' = handled \ {o}
  /\ UNCHANGED <<alive, concealed, shownTab, popUps, typing, heard>>
-----------------------------------------------------------------------------
(* OpenPasswordKeyboard, from a network of the list: the page has one      *)
(* keyboard at most.                                                       *)
OpenKeyboard(k) ==
  /\ Touchable("Wifi") /\ mPasswordGetter = Nobody /\ k \notin alive
  /\ Wrap({k})
  /\ moves' = [x \in DOMAIN moves \cup {k} |->
                 IF x = k THEN [inside |-> TRUE, handler |-> FALSE] ELSE moves[x]]
  /\ mPasswordGetter' = k
  /\ UNCHANGED <<concealed, shownTab, popUps, resting>>
  /\ Told(IF IsVisible("PageW") THEN OnShow(k)' ELSE {})

(* Ready or cancel, at any moment of its animation and again while it      *)
(* slides out: AnimateOut turns it around.                                 *)
AnimateOut ==
  /\ Touchable("Wifi") /\ mPasswordGetter # Nobody
  /\ moves' = [moves EXCEPT ![mPasswordGetter] = [inside |-> ~@.inside, handler |-> TRUE]]
  /\ resting' = resting \ {mPasswordGetter}
  /\ UNCHANGED <<alive, objects, handled, concealed, shownTab, popUps,
                 mPasswordGetter, heard>>

(* AnimatorImpl with the last value; the handler, once there is one,       *)
(* removes the keyboard, and with it the animation.                        *)
AnimationEnds(k) ==
  /\ k \in DOMAIN moves \ resting
  /\ IF moves[k].handler
     THEN /\ RemoveElement(mPasswordGetter)
          /\ DeleteObject(mPasswordGetter, FALSE)
          /\ StopLvglEventHandler(mPasswordGetter, FALSE)
          /\ StopAnimations(mPasswordGetter)
          /\ mPasswordGetter' = Nobody
     ELSE resting' = resting \cup {k} /\ UNCHANGED <<alive, objects, handled, moves, mPasswordGetter>>
  /\ UNCHANGED <<concealed, shownTab, popUps>>
  /\ Told({})
-----------------------------------------------------------------------------
ElementsNext ==
  \/ \E tabs \in DOMAIN Tabs : DisplayScenePage(tabs)
  \/ ComeBack \/ ShowList
  \/ \E i \in DOMAIN Tabs : HandleTabChange(i)
  \/ \E s \in DOMAIN DyingOf : PushPopUp(s) \/ PopScreen(s) \/ DeletionDue(DyingOf[s])
  \/ TransitionEnds
  \/ \E k \in Keyboards : OpenKeyboard(k) \/ AnimationEnds(k)
  \/ AnimateOut

ElementsSpec == ElementsInit /\ [][ElementsNext]_elemVars
-----------------------------------------------------------------------------
(* The type of the state; a wrapper has its object and its parent, and the *)
(* page holds the only keyboard there is.                                  *)
ElementsTypeOK ==
  /\ alive \subseteq Elems /\ handled \subseteq objects
  /\ alive \subseteq objects
  /\ objects \subseteq alive \cup {DyingOf[s] : s \in DOMAIN DyingOf}
  /\ \A e \in alive : Above(e) \subseteq alive
  /\ Keyboards \cap alive = {mPasswordGetter} \ {Nobody}
  /\ resting \subseteq DOMAIN moves
  /\ loaded = Last(screenStack) /\ ToSet(screenStack) \subseteq alive

(* No event reaches a wrapper that is gone, also not from a screen that is *)
(* kept for its transition.                                                *)
EventsFindTheirElement == handled \subseteq alive

(* A transition never leads away from an object that was deleted.          *)
TransitionSafe == leaving # Nobody => leaving \in objects

(* What can be seen has heard OnShow since it can, whatever tab, pop-up or *)
(* page it is in; only what the settings' list contains is not told.       *)
SeenHasHeard == Visible \ (Below("PageS") \ {"PageS"}) \subseteq heard

(* No animation moves a keyboard that is gone.                             *)
AnimationsFindTheirElement == DOMAIN moves \subseteq alive

(* Neither an event, nor a transition, nor an animation meets an element   *)
(* that is gone, and what can be seen was told so.                         *)
ElementsSafe ==
  /\ ElementsTypeOK /\ SeenHasHeard
  /\ EventsFindTheirElement /\ TransitionSafe /\ AnimationsFindTheirElement
=============================================================================
