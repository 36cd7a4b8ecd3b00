----------------------------- MODULE LvglTasks -----------------------------
(***************************************************************************)
(* LVGL belongs to the main loop, and the task of the Wi-Fi events reaches *)
(* its elements too: a change that finds the lock taken is postponed       *)
(* (LvglResourceManager.hpp, UIElement.cpp), and the page of the Wi-Fi     *)
(* settings hears of a scan and of the connection through notifications    *)
(* (Notification.hpp, WifiSettings.cpp), while the main loop may close it. *)
(* One element of the page stands for all.  What MQTT publishes is handled *)
(* by the main loop itself, and is in Mqtt.                                *)
(***************************************************************************)
EXTENDS Naturals, Sequences, FiniteSets

CONSTANTS TasksPerRefresh,
          Heights,      \* values of one attribute of one element
          MaxTasks      \* bound: of the queue
ASSUME TasksAssumption == {TasksPerRefresh, MaxTasks} \subseteq Nat \ {0} /\ Heights # {}

VARIABLES loop,         \* the main loop: with the lock in "timers" or "queue", or without
          taken,        \* the tasks it has run in this refresh
          mLvglTasks,
          page,         \* the Wi-Fi page is open
          height,       \* of its element
          asked,        \* history: the last request, the last that had to wait,
          waited,
          overtook,     \* and whether the last one was granted while others waited
          mFunctionHandlers,    \* the notifications it is registered with
          inside,       \* the handler the event task is in: the socket's or the page's
          node,         \* whether the place in the map where it stands is there,
          owner,        \* and the page whose handler it is
          beneath,      \* history: something went from under that task, or a change that waited
          undefined     \* an object was used that is gone
elementVars == <<height, asked, waited, overtook>>
eventVars == <<inside, node, owner>>
taskVars == <<loop, taken, mLvglTasks, page, elementVars, mFunctionHandlers, eventVars, beneath, undefined>>

FirstHeight == CHOOSE h \in Heights : TRUE

TasksInit ==
  /\ loop = "idle" /\ taken = 0 /\ mLvglTasks = << >>
  /\ page = FALSE /\ mFunctionHandlers = {}
  /\ height = FirstHeight /\ asked = FirstHeight /\ waited = FirstHeight /\ overtook = FALSE
  /\ inside = "none" /\ node = TRUE /\ owner = TRUE /\ beneath = FALSE /\ undefined = FALSE

-----------------------------------------------------------------------------
(* The loop *)
LoopOnly == UNCHANGED <<taken, mLvglTasks, page, elementVars, mFunctionHandlers, eventVars, beneath, undefined>>
loopHandler == loop = "idle" /\ loop' = "timers" /\ LoopOnly    \* the timers, with the lock
TimersDone == loop = "timers" /\ loop' = "between" /\ LoopOnly

RunFirst ==
  /\ loop' = "queue" /\ taken' = taken + 1 /\ mLvglTasks' = Tail(mLvglTasks)
  /\ height' = Head(mLvglTasks).value
  /\ undefined' = (undefined \/ Head(mLvglTasks).orphan)
QueueOnly == UNCHANGED <<page, asked, waited, overtook, mFunctionHandlers, eventVars, beneath>>

\* Seeded fault: the tasks of all refreshes are counted together
HandleQueuedAllTime ==
  /\ loop \in {"queue", "between"}
  /\ IF mLvglTasks = << >> \/ taken = TasksPerRefresh
       THEN loop' = "idle" /\ UNCHANGED <<taken, mLvglTasks, height, undefined>>
       ELSE RunFirst
  /\ QueueOnly

HandleQueuedTasks ==  \* with the lock, one by one; others append without it
  /\ loop \in {"queue", "between"}
  /\ IF mLvglTasks = << >> \/ taken = TasksPerRefresh
       THEN loop' = "idle" /\ taken' = 0 /\ UNCHANGED <<mLvglTasks, height, undefined>>
       ELSE RunFirst
  /\ QueueOnly

-----------------------------------------------------------------------------
(* An element, and its page *)
AttemptNow(value, lockIsMine) ==      \* what is postponed points to the element
  IF lockIsMine \/ loop \in {"idle", "between"}
  THEN /\ height' = value /\ overtook' = (mLvglTasks # << >>) /\ UNCHANGED <<mLvglTasks, waited>>
  ELSE /\ Len(mLvglTasks) < MaxTasks
       /\ mLvglTasks' = Append(mLvglTasks, [value |-> value, orphan |-> FALSE])
       /\ waited' = value /\ overtook' = FALSE /\ UNCHANGED height

SetHeight(value, lockIsMine) == AttemptNow(value, lockIsMine) /\ asked' = value

OpenWifi ==
  /\ loop = "timers" /\ ~page /\ page' = TRUE /\ mFunctionHandlers' = {"scan"}
  /\ height' = FirstHeight /\ asked' = FirstHeight /\ waited' = FirstHeight /\ overtook' = FALSE
  /\ UNCHANGED <<loop, taken, mLvglTasks, eventVars, beneath, undefined>>

ResizedByLoop(value) ==       \* the lock is recursive
  /\ loop = "timers" /\ page /\ SetHeight(value, TRUE)
  /\ UNCHANGED <<loop, taken, page, mFunctionHandlers, eventVars, beneath, undefined>>

\* The places of these handlers in the map go, also where the event task stands.
ErasedAt(handlers) == inside \in handlers /\ node
\* Seeded fault: a handler that goes stays registered
StaysRegistered(handlers) == UNCHANGED <<mFunctionHandlers, node>>
unregister(handlers) ==
  /\ mFunctionHandlers' = mFunctionHandlers \ handlers
  /\ node' = (node /\ ~ErasedAt(handlers \cap mFunctionHandlers))

StartHandlingStatusUpdates ==         \* again for each password that is entered
  /\ loop = "timers" /\ page
  /\ mFunctionHandlers' = mFunctionHandlers \cup {"status"}
  /\ node' = (node /\ ~ErasedAt({"status"} \cap mFunctionHandlers))
  /\ beneath' = (beneath \/ inside = "status")
  /\ UNCHANGED <<loop, taken, mLvglTasks, page, elementVars, inside, owner, undefined>>

DestroyElement ==     \* what was postponed for it stays in the queue
  mLvglTasks' = [i \in DOMAIN mLvglTasks |-> [mLvglTasks[i] EXCEPT !.orphan = TRUE]]
CloseWifi ==
  /\ loop = "timers" /\ page /\ page' = FALSE
  /\ unregister({"scan", "status"}) /\ DestroyElement
  /\ owner' = (owner /\ inside \notin {"scan", "status"})
  /\ beneath' = (beneath \/ inside \in {"scan", "status"} \/ mLvglTasks # << >>)
  /\ UNCHANGED <<loop, taken, elementVars, inside, undefined>>

-----------------------------------------------------------------------------
(* The event task, one handler after the other *)
Calls(handler) == inside' = handler /\ node' = TRUE /\ owner' = (page \/ handler = "socket")
Rest == UNCHANGED <<loop, taken, page, mFunctionHandlers, beneath>>

notify ==
  /\ inside = "none"
  /\ \/ Calls("socket")
     \/ "scan" \in mFunctionHandlers /\ Calls("scan")
  /\ Rest /\ UNCHANGED <<mLvglTasks, elementVars, undefined>>

NextHandler ==        \* after the socket's, which was registered first
  /\ inside = "socket"
  /\ IF "status" \in mFunctionHandlers THEN Calls("status") ELSE inside' = "none" /\ UNCHANGED <<node, owner>>
  /\ Rest /\ UNCHANGED <<mLvglTasks, elementVars, undefined>>

ScanComplete(value) ==        \* for each network
  /\ inside = "scan" /\ SetHeight(value, FALSE)
  /\ undefined' = (undefined \/ ~owner)
  /\ Rest /\ UNCHANGED eventVars

HandlerReturns ==     \* that of the status waits for the lock to set a text
  /\ \/ inside = "scan"
     \/ inside = "status" /\ loop \in {"idle", "between"}
  /\ undefined' = (undefined \/ ~node \/ ~owner)
  /\ inside' = "none" /\ node' = TRUE /\ owner' = TRUE
  /\ Rest /\ UNCHANGED <<mLvglTasks, elementVars>>

MainLoopTasks == loopHandler \/ TimersDone \/ HandleQueuedTasks
TasksNext ==
  /\ ~undefined
  /\ \/ MainLoopTasks \/ OpenWifi \/ StartHandlingStatusUpdates \/ CloseWifi
     \/ notify \/ NextHandler \/ HandlerReturns
     \/ \E value \in Heights : ScanComplete(value) \/ ResizedByLoop(value)
TasksSpec == TasksInit /\ [][TasksNext]_taskVars /\ WF_taskVars(MainLoopTasks /\ ~undefined)

-----------------------------------------------------------------------------
TasksTypeOK ==
  /\ loop \in {"idle", "timers", "between", "queue"} /\ taken \in 0..TasksPerRefresh
  /\ Len(mLvglTasks) <= MaxTasks /\ {height, asked, waited} \subseteq Heights
  /\ mFunctionHandlers \subseteq {"scan", "status"}
  /\ inside \in {"none", "socket", "scan", "status"}

\* An element that is there ends with what was asked last, from whichever task; but a
\* request that finds the lock while others wait is granted before them, and then it ends
\* with the last of those that waited, whatever was asked after it.
SettlesOn == page /\ mLvglTasks = << >> /\ ~undefined => height = IF overtook THEN waited ELSE asked

\* A handler or a postponed change meets what is gone only if it went from under it: when
\* the page was closed with the task in its handler or with changes in the queue, or the
\* handler was replaced while it ran.  None begins for a page that is closed.
Dangling == ~node \/ ~owner \/ \E i \in DOMAIN mLvglTasks : mLvglTasks[i].orphan
GoneOnlyFromBeneath == undefined \/ Dangling => beneath

\* What the two tasks do to an element settles as their requests say, and a page that is
\* closed is left alone but by those it was closed under.
TasksSafe == TasksTypeOK /\ SettlesOn /\ GoneOnlyFromBeneath

\* What is postponed is done, however many refreshes it takes.
EveryTaskRuns == mLvglTasks # << >> ~> loop = "queue" \/ undefined
=============================================================================
