# OMOTE firmware: a TLA+ verification project

OMOTE is the firmware of an open-hardware universal remote control: an ESP32
with a colour screen, a key matrix, an infrared LED, Wi-Fi and a battery. This
directory holds TLA+ models of its logic, the TLC configurations that check
them, and proofs that TLAPS checks. Paths below are relative to
`src/Platformio/` unless they start with `Wiki/` (`src/Platformio/Wiki/`).

Most bugs in this code are not in what one function computes but in what
happens between two of them: the main loop and a fade task, a key and the scan
that reads it, a scene and the deep sleep in the middle of it, a request and
the task that executes it. The models are about that. Each keeps all of the
control flow of the code it covers and reduces the data to what its properties
can tell apart.

Sections: 1 inventory, 2 plan, 3 modules and code, 4 runs and what they show,
5 fairness, 6 proofs, 7 what is only model-checked and what is not modelled.

## 1. Inventory

The firmware runs one main loop (`src/OmoteSetup.hpp`): `setup` initialises the
hardware, Wi-Fi and the user interface; `loop` calls the hardware's
`loopHandler` and then LVGL. Around it run FreeRTOS tasks (backlight fades, IR
transmission, HTTP workers, the web-socket client) and callbacks from the
Wi-Fi and MQTT libraries. The same user interface is built for a PC, where
`lib/SimulatorHalImpl` takes the place of the hardware.

| Part | State | Operations | What makes it hard | What makes it correct |
|---|---|---|---|---|
| Scene home screen (`lib/JsonConfigUI/screen`) | current, entered and exit-loaded scene, exit commands, tab, RTC memory | select, cancel, home, tab, keys, deep-sleep restore | long histories; four members for one idea; RAM lost and RTC memory kept | entry and exit sequences are sent once, for the right scene; a wake-up is silent |
| Keys to commands (`lib/JsonConfigUI/page`, `Command.cpp`) | a command per key and press type, overrides per scene | build from JSON, override, look up, send | one structure reused over the press types; several pages may override a key | what is sent is what the pages say |
| Infrared (`lib/esp32HalImpl/ir`, `IrLearner.cpp`) | message buffer, sending task, receiver, priorities | sendBackground, send, enableRx, calibrate | task and main loop transmit; most protocols return before the receiver is resumed; a full buffer | commands leave in order and once; the receiver listens again |
| HTTP client (`lib/esp32HalImpl/wifiHandler/Esp32HttpClient.cpp`, `HAL/.../HttpTypes.cpp`) | two queues, flag, tasks, futures | executeAsync, initialize, shutdown, workers, get, callbacks | condition variable with notifications outside the lock, fixed-time shutdown | own answer, once; no lost wake-up; queued requests are answered |
| Simulator's HTTP client (`CurlHttpClient.cpp`) | one queue of weak pointers, threads | the same interface, destructor | a promise that ends with the call that made it | each request sent once; the destructor ends |
| HTTP exchange (both clients) | collected headers and pieces, response | perform, callbacks, redirections, timeouts | an answer that breaks off after its status line | success is reported for an answer that earned it |
| Keyboard rev 5 (`lib/rev5HalImpl`) | controller FIFO, per-key state | scan, restart | one event per scan, late loop, FIFO overflow | no stuck key; the press protocol |
| Keypad rev 1 (`lib/Keypad`, `lib/rev1HalImpl`) | the library's list of ten keys, one hold timer | scan, restart | a list that is full; keys that lose their place | press and release take turns; what is down gets heard |
| Display (`lib/esp32HalImpl/display`) | level, targets, day mode, fade tasks | wake, sleep, brightness, day mode | a fade task and the main loop share the level through a try-lock | screen lit while awake, dark before a sleep |
| Pins (`HardwareRevX.cpp`, `HardwareRev1.cpp`, `HardwareRev5.cpp`, `LIS3DH_IMU.cpp`) | pin modes, holds, wake-up sources | start, enterSleep, both ways to wake up | the order of writes around a sleep; latched interrupts | panel dark asleep and ready awake; it wakes for a cause |
| Power (`lib/esp32HalImpl/HardwareRevX.cpp`) | standby timer, in-scene flag, saved settings, wake-up reason | loop, sleep, wake, save, restore | light and deep sleep, battery, timers | sleeps when idle, never while used; settings survive |
| Battery learning (`LearnBattery.cpp`, `BatteryRevX.cpp`) | state of a test, counters that outlive the page, curves in flash | start, timer, sleeps, close | hours-long sequence with sleeps, unsigned times, a borrowed setting | the test ends, keeps a usable curve and gives back what it borrowed |
| Battery gauge (`BatteryRevX.cpp`, `StatusBar.cpp`) | curve, labels | percentage, status bar | curves that need not rise; labels that are changed in part | a percentage, monotone in the charge; no stale plug |
| Wi-Fi station (`wifihandler.cpp`, `WifiSettings.cpp`) | credentials, attempt, status, registrations | begin, events, connect, scan, page | events of an earlier attempt in the middle of `connect`; handlers registered twice | the page tells the truth; what is stored has been tried; it comes back |
| NTP and FTP (`wifihandler.cpp`, their pages) | on/off, servers, files, library pointers | sync in each round, save, restore | a server ended by a lost connection; a string the library still points to | services follow switch and connection; files follow the pages |
| MQTT (`wifihandler.cpp`, `MqttSettings.cpp`, `observerHandles.cpp`) | client, subscriptions, ids of texts, settings, what is saved of them | bind, unbind, mqttSync, Connect/Save, enable, restore | connections that break unnoticed, labels sharing a topic, two stores | the broker is asked for what is on the screen; labels are current; only settings that worked are saved |
| Simulator's MQTT (`wifiHandlerSim.cpp`) | client struct, subscriptions, file | the same interface through MQTT-C | reconnection through a pointer to a dead struct | what is subscribed is what the labels were bound to; entered settings are kept |
| Web socket (`lib/esp32HalImpl/wifiHandler/esp32WebSocket.cpp`, simulator's) | client handle, partial message | connect, events, parts | socket task against main loop, messages that stop half-way | messages complete, once and in order |
| Home Assistant API (`lib/HomeAssistantApi`) | sessions, request ids, message queue, auth | add session, process, clean up | responses from the socket task, reconnect | requests in order, to a server that took the token; each session gets its own answers |
| Devices and actions (`lib/Device`, `lib/Action`) | active devices, saved configuration | add, move, restore, remove, key events | save after each change, restore filters, items that a refresh destroys | nothing is lost by a restart; a stroke stays with its device |
| Settings pages (`lib/BasicUI/page`, `ScreenManager.cpp`) | stacked screens, settings, log file | push, pop, change, save, restore | power going while something is written | changes are there after a restart; a cut save harms nothing else |
| LVGL tasks, notifications (`LvglResourceManager`, `Notification.hpp`) | task queue, handler list | attempt now or later, run, register, notify | the event task touches elements; a page closed meanwhile | changes settle as they were asked for; a closed page is left alone but by what it was closed under |
| Elements (`lib/LVGL++`) | wrappers, LVGL objects, animations, screen stack | construct, delete, show, push, pop, animate | two lives per element; delayed deletion; callbacks that destroy their owner | events and animations find a live wrapper; what is visible has been told |
| JSON schemas (`lib/RapidJsonUtility`, `lib/Action/Validation`) | builder: members, size | Require, Optional, Build, validate | a size counted apart from the text | size and text agree to the character; the schema takes what was asked for |
| Queues of the simulator, `BackgroundThread`, `poller` | ring indices, locks, handles | push, pop, start, stop | edges | used by nothing, see section 7 |
| Widgets, layout, drawing, logging | LVGL objects, text | drawing, formatting | little beyond LVGL itself | not modelled, see section 7 |

Interaction is by calls from the main loop, except for: the fade, IR, HTTP and
web-socket tasks (shared state and queues), the Wi-Fi event task (callbacks and
`Notification`), the RTC memory and the flash (what a restart finds), and the
pads, whose holds survive a deep sleep. MQTT messages are received by the main
loop itself, in `mqttSync`.

## 2. Plan

The behaviour a user notices first was modelled first, and all of the plan is
done: the scene home screen; the HTTP client; the keyboard of revision 5; the
backlights; power and settings, composed with the backlights; MQTT; from keys to
commands and infrared; Wi-Fi with NTP and FTP; active devices; Home Assistant
over its web socket; the battery's tests and gauge; the settings pages, the
elements and the tasks of LVGL; the pins; the simulator's HTTP and MQTT; the
matrix keypad as a second implementation of `KeyGestures`; JSON schemas.

Abstract specifications, and what implements them:

| Abstract | Promises | Implemented by |
|---|---|---|
| `SceneContract` | the manual's entry and exit sequences | `Scenes` (checked, proved) |
| `RequestService` | a request is answered once, with its own answer | `HttpPool` (checked, proved) |
| `KeyGestures` | the order of Press, Repeat, Long, Release, Short | `KeyboardRev5`, and `Keypad` without Long and Short (both checked, proved) |
| `CommandRelay` | the commands the pages name, in order and once | `KeyCommands` (checked, proved) |

What could follow: the parts listed as left out in section 7.

## 3. Modules and code

Each base module translates one part of the code; a module with the suffix
`_proofs` holds the theorems of a part or of several that are of one kind, the one
with the prefix `MC` its instance for TLC
and, where there are findings, the statements of the repository that the code
does not keep. Definitions introduced by "Mutant" or "Seeded fault" in a comment
are mistakes that the properties catch; no action uses them.

Parts that are of one kind and do not act on each other are checked in one run.
The MC module of such a run conjoins them with a variable `part` that says which
part moves, while the others rest in an initial state: MCUserInterface (Scenes,
Devices, SettingsPages, LvglTasks, JsonSchema, Elements), MCHttpPool (HttpPool,
CurlHttpClient, HttpExchange, Pins), MCHardware (KeyboardRev5, Keypad, Backlight,
LearnBattery, BatteryGauge), MCWifi (WifiStation, WifiServices for FTP and for
NTP, SimWifi) and MCHomeAssist (HomeAssistApi, HomeAssistMessages). Parts that do
act on each other are composed in the base modules: Power with Backlight,
KeyCommands with IRTransceiver and CommandFiles.

### Scenes (contract: SceneContract)

| TLA+ | Code |
|---|---|
| `lastScene`, `lastStartSeq`, `savedExitSeq`, `exitCommands` | the four members of `JsonHomeScreen` with these names |
| `tabShown`, `tab` | which of `mList` and `mTabView` is visible; the tab's index plus one |
| `rtc` | `RtcLastState`, in memory that a deep sleep keeps |
| `sent` | what the last step gave to `Commands::sendCommand` |
| `active` | history: the active scene in the sense of `Wiki/Scenes.md` |
| `slept` | history: there was a deep sleep since power-on |
| `Display`, `Entered`, `LeavesOld` | `displayScenePage`: leave the old scene, send the entry sequence, load the exit sequence |
| `KeyEvent` | `OnKeyEvent`: power key, scene keys, overrides, then the page of the current tab |
| `CancelScene`, `GoToSceneSelection`, `ChangeTab` | long and short power key, tab change |
| `DeepSleepWake`, `PowerLoss` | the constructor with and without a valid `RtcLastState` |

A light sleep keeps the RAM and so is no action here. Every callback runs on
the main loop and is one action. `SceneContract` is what `Wiki/Scenes.md`
promises: an entry sequence on the way in, an exit sequence on the way out, and
nothing sent otherwise but the command of a key. The home screen keeps it from
each power-on to the first deep sleep after it; from then on `slept` lets the
contract do anything, because of what `scenes_after_sleep` shows.

### HttpPool (contract: RequestService), CurlHttpClient, HttpExchange

`executeAsync` is two steps, `Push` under the lock and `NotifyOne` after it;
a worker tests, waits, leaves, takes and fulfils in separate steps;
`initialize` and `shutdown` take as many steps as they have points at which
others can run. `worker[w]` and `caller[r]` are program counters. The request
itself is one step that ends in a value: `executeSyncRequest` returns an error
or a timeout as a response too. A request is identified with its promise and
its future; `answer[r]` is the request whose response future `r` received.

`CurlHttpClient` is the simulator's: an action is a critical section of
`mQueueMutex`. `call[c]` and `thread[t]` are program counters; `result[c]` is what
the future holds, which is "broken" once the only strong pointer is gone.

`HttpExchange` is what both take as one step. The server answers line by line
and piece by piece, redirects, or falls silent; `collected` is `HttpEventData` or
the two members of the simulator's response under construction, and `side` says
which of the two clients it is.

### Pins

Functions that write to pins are scripts, sequences of operations; a step of
the controller carries out the first, and keys, movement and the charger come
in between. `hold` is what a held pad shows, `imu` the sensor's registers with its
latched interrupt. `Boot`, `LightSleepWakeReint` and the sleep are built from the same
pieces as in the code, per board.

### KeyboardRev5, Keypad (contract: KeyGestures)

`KeyMoves` queues a movement in the controller chip, `Overrun` loses one,
`Scan(dt)` is one call of `keyboardScan` after `dt` units, `Restart(byKey)` is a
deep sleep with the loss of the key states, after which `setupKeyboard` flushes
the chip's queue unless a key caused the wake-up. `Scan` reads one movement and
then walks over all keys, as the code does. `held` and `quiet` are the ages of
the two time stamps, cut off just above the threshold they are compared with.
`lost` remembers the keys of which the controller dropped a movement; what is
promised of the other keys is more than what is promised of these.

`Keypad` is the library's list (`key`) as `getKeys` and `keyboardScan` use it:
`KeypadScan` updates the list key by key in the matrix's order and sends the events
of the changed places; `holdAge` is the one timer of all keys.

### Backlight, Power (extends Backlight)

One action per function that changes a brightness (`Wake`, `Sleep`,
`SetDayBrightness`, `SetNightBrightness`, `Sense`, `ReInit`, `Reboot`), each
ending in `StartFades` where the code calls `startFade`; a fade task is the
record `fade[c]` with its arguments and the number of its steps, and moves by
`FadeStep` and `FadeEnds`. The step of the code is a float difference added to
a float; the model computes the position after *n* steps as an integer. The
code's try-lock fails only while the fade task exists, as does the test of the
handle, so one variable stands for both.

`Pass` is the timed part of `loopHandler` as far as it is about sleep: timer,
test counter, low-battery counter, and what it ends in. `Dim` is line 463, which
runs each time round, also when the timed part is not due; the guard of `Pass`
says that it came before in the same round. `Tick` is a unit of time, in which
a fade takes one step. `Touch` and `Set` are the user interface. The composition
is by extension: `Dim` is `Sleep` or `Wake` of `Backlight`, waking from a light
sleep is its `ReInit`, from a deep sleep its `Reboot`, and the light sensor is
its `Sense`. `idle` and `armed` are history variables: the time since the last
use, and the timeout that was in force then. `flash` is what the preferences hold.
Two more history variables serve `DarkInLightSleep`: `prompt`, no pass since the
timer was armed was later than `Slack` (about 220 ms), and `inTheWay`, a fade was
under way when the screen was asked to dim.

### LearnBattery, BatteryGauge

The unit of time is a call of `onTimer`, and voltage and charger may read
anything. `wakeCount`, `wakeReason` and `mvLowCount` are the statics that outlive
the page; `left` is `expectedWakeTime` from now, modulo the width of an unsigned
long; `sleeping` is a call of `enterSleep` with what may end it. `KeyWakes` and
`SleepEnds` are the ways back, `PowerFails` keeps the flash (`stored`, `calMode`).
`BatteryGauge` has the percentage (`getPercentage` with the segment found by the
code's loop) and `StatusBarOnTimer`, which changes labels only in part.

### Mqtt, SimWifi

| TLA+ | Code |
|---|---|
| `bound` | `Subscriptions`, from the id of a label to its topic |
| `client`, `session`, `subs` | what the client library believes; what the broker has |
| `elapsed`, `force` | the time since `mOldTime`; `mForceReconnect` |
| `enabled`, `broker`, `account`, `saveOnConnect` | `mMqttEnabled`, `mMqttBroker`, the three members of the account, `mMqttSaveOnConnect` |
| `server` | what the pointer that `setServer` keeps points to |
| `file`, `preference` | `MQTT_CONFIG_FILE`; `enabled` in the preferences |
| `AddLabel`, `ClosePage` | `JsonPage::addLabel` and the page's destructor, which bind and unbind |
| `Receive`, `Notice`, `ConnectFails`, `ConnectSucceeds` | the ways one call of `mqttSync` can go |
| `mqttSetBroker`, `SetAccount`, `enableMqtt`, `Reconnect` | the MQTT Settings page |
| `LightSleep`, `Restart` | Wi-Fi off and `mForceReconnect`; the constructor and `mqttRestoreCredentials` |

The broker is external: it keeps the last message of a topic, as it does for
retained messages, and gives it to whoever subscribes; a session may end without
the client's knowledge. `PubSubClient` keeps the pointer it is given, and
`mqttSetBroker` assigns the string it points into; whether the old text, the new
one or nothing is left there is a choice of the build and so nondeterministic.
The port is not modelled: `setupMqttBroker` passes 1883 whatever was entered.

`SimWifi` is the same interface over MQTT-C: `client` has its error, its queue of
packets and whether the struct given to `mqtt_init_reconnect` was ever set up; a
reconnection that the library starts by itself reads a struct on a stack that is
gone, and so may reach any broker, none, or end the program. Its settings are saved as
it connects, and the result of the write is ignored: the file may be written, left
as it was, or emptied and cut off; `failed` is the history of that.

### KeyCommands (extends IRTransceiver and CommandFiles; contract: CommandRelay)

`CommandFiles` is the data: what the pages map to keys and press types, what
their command files say, which keys they override. `getCommand` keeps what the
code does to the structure it is given, and `MessageOf` what is left of it when it
is sent: mode, protocol and the first string of the data, which for infrared is
the code and for MQTT the topic.

| TLA+ | Code |
|---|---|
| `AfterPress` ... `AfterShort`, `Handlers` | the structure that `JsonPage` passes on from one press type to the next, and what it puts into `mKeyHandlers` |
| `Kept`, `Overridden` | what `getKeyOverrides` leaves with a page and what `displayScenePage` puts into `mOverrideKeyHandlers` |
| `Handler` | the home screen's override map, then the page of the current tab |
| `Buttons` | buttons, colour buttons and number pads that are made at all |
| `buffer`, `command`, `task` | the message buffer; the command and the place of `IRSendTask` |
| `Receive`, `Skip`, `Transmit`, `Rest` | one turn of the task: take and pause, a delay or nothing to do, the end of `send`, 50 ms |
| `Send`, `Sent`, `Calibrate`, `Calibrated` | the same functions called by the main loop from the IR Receiver page, which takes its time while the task goes on |
| `receiver`, `loopHandleRx` | whether the receiver is off, listening or paused; `decode`, in each turn of the loop |
| `priority`, `preSend` | the tasks' priorities and the member in which both keep the one to go back to |

Which scene is shown is `Scenes`' matter; here any scene may be opened at any
time. `Keys` are those that the home screen leaves to the pages. The library's
`decode` is external: the constructor asks for a save buffer, with which it
starts a receiver that has stopped again.

### WifiStation, WifiServices

The main loop goes through `connect` line by line (`main`), and the event task's
`WiFiEvent` may come between any two lines. `library` is the external Wi-Fi
library: the driver's link, the pair of the last `WiFi.begin`, autoReconnect, the
status it reports. `registered` counts the registrations of the callback, up to
`Many`: an event is handled as many times. `attempt`, `saved`, `connected` and `flag`
are the handler's members and preferences; `page` and `keyboard` are the Wi-Fi page.

`WifiServices` has `ftpSync` and `nptSync` as the main loop calls them, the pages
that change the members at once and save on closing, and files that are emptied
before they are written (`writing`). `asking` is what the pointer reads that was
given to the SNTP client: the page rewrites the string it points into.

### HomeAssistApi, HomeAssistMessages

| TLA+ | Code |
|---|---|
| `net`, `client`, `isConnected` | the clients of the web-socket library, also those that the handle no longer names; `mClient`; `mIsConnected` |
| `connection`, `auth`, `sessions`, `nextId`, `queue` | the members of `Api` and of its response handler |
| `loop` | the main loop in `Process`, between two statements of which a client's task may run |
| `retryDue`, `authDue` | whether five, and three, seconds have passed |
| `ClientTask`, `Opens`, `Reopening` | the library's task, which calls the handlers; connections that open |
| `leftover`, `MayLeave`, `Appended` | `mIncomingMessage` with a message that the loss of a connection cut off, and what comes later, also on another connection, appended to it and unheard |
| `chunks`, `mIncomingMessage`, `mPartialProcessingFailed` | `IProcessMessage` with its buffer, and the members of the sockets |
| `listPage`, `later` | `DeviceList` and the tasks it has given to `LvglResourceManager` |

### Devices, SettingsPages

`devices` is the list of objects; two entries may be the same object. `file` and
`disk` are `activeDevices.json` and the device files, which a user may change, cut
short or delete over FTP (`Ftp`). `listPage.items` are the page's own items, which
a move and a refresh treat apart from the list. `wanted` is a history variable:
the list as the user left it.

`SettingsPages` has the stack of screens (`mScreens`), the settings in force, the
flash and the log file; saving takes a prefix of its writes when the power goes.

### LvglTasks, Elements, JsonSchema

`loop` says where the main loop holds LVGL's lock; a change of another task finds
it and is postponed to `mLvglTasks`, of which `TasksPerRefresh` are done at once.
`inside` is the handler that the event task runs, `node` and `owner` whether the
place in the map where it stands and the page it belongs to are still there.
`asked`, `waited` and `overtook` are the history of the requests, `beneath` that of
what was removed under the task or a postponed change. A use of something gone sets
`undefined`, after which the model has nothing to say.

`Elements` has, per element, the wrapper (`alive`), the object (`objects`, with a
dying copy for the screens that are deleted after their transition), the event
handler (`handled`) and whether it has been told that it is shown (`heard`). `moves`
are the animations of the keyboard; `AnimationEnds` may run the handler that
destroys the animation it is called from. `OpenKeyboard` is refused while there is
a keyboard, as in `OpenPasswordKeyboard`.

`JsonSchema` is a pure algorithm as a state machine: a builder gets a member per
step. A text is, member by member, a sequence of the constants of the code, keys, types
and arrays with nested texts, and only sizes matter; a schema that is nested has no
other in it, as in `HttpAction`, the only one that nests.

## 4. Runs

Each run takes at most about three and a half minutes on two cores.

| Run | Question | Bounds, and why they are enough |
|---|---|---|
| `user_interface` | Scenes: do the members, the RTC memory and the light-sleep flag agree, is a wake-up silent, is the manual's contract kept until a deep sleep (`MembersAgree`, `WakeIsSilent`, `MeetsContract`)? Does the list of devices survive its pages, files and restarts, and does a stroke stay with its device (`DevicesFollow`)? Are settings there after a restart, and a cut save harmless (`SettingsSurvive`)? Do the changes of two tasks settle as they were asked for, and is a closed page left alone (`TasksSafe`), and is each change done at last (`EveryTaskRuns`)? Do events and animations find their element, and has what is visible been told (`ElementsSafe`)? Are the sizes of schemas exact (`SchemaIsExact`)? | Six scene files: two with both sequences, one without an exit sequence, two pages without sequences, one that does not parse; three keys, two tabs: each pair of kinds can follow each other. Three devices, so that a moved item has neighbours on both sides. Two settings pages and the logging page with two modules and levels. Two tasks per refresh and three in the queue, so that one refresh does not empty it. Two keyboards, so that a second one could open. Three members in a schema: the first, the last and one in between. |
| `scenes_after_sleep` | Is the old scene's exit sequence sent after a deep sleep? No. | the same |
| `http_pool` | `PoolSafe`: pairing, own answers, at most once, no lost wake-up; `ServiceSpec`: the abstract service is implemented. `CurlSafe`: the simulator's client. `ClientsGoOn`: answers come, workers and the simulator's destructor end. `ResponseIsHonest`: the exchange. `PanelFollows`, `WakesForCause`: the pins | Two requests, three tasks of which two are wanted: a failed `initialize` can be tried again while its first task is still there, and two requests compete for workers that sleep, leave or are busy. Two calls and two threads for the simulator. One header name, twice; two pieces; one redirection; two exchanges in a row, so that something can be left from the first. Three boards. |
| `simulator_future` | Does `get` return the response in the simulator? Not when `executeAsync` returns first. | the same |
| `hardware` | `NoStuckKey`, `MeetsGestures`, `ReleaseIsSeen`: keyboard 5, with and without lost movements; `KeypadFollows`: keypad 1; `FadeStaysBetween`, `LightSettles`: lights with a sensor; `TestIsSound`, `TestEnds`, `GaugeTruthful`: battery | Two keys, a queue of two, thresholds of 2 and 1 and a scan late by up to 2 units: one scan can jump over both thresholds, and a press, a release or both can be lost. A keypad of four places with three keys and a list of two: the list is full with a key left over. Levels 0 to 3 and fades of 2 steps: rising, falling, and reset under way. Times of a test that wrap around; curves of 2 and 3 points, rising or not, over 4 readings. |
| `calibration_key` | Does a test that was woken by a key go back to sleep? Not from the sleep in which the battery relaxes. | the same |
| `power` | `NotWhileUsed`: it sleeps only when idle; `DarkInLightSleep`; `SettingsKept`; `BatterySpared`: left alone it ends in deep sleep, and a low battery stops it | a fade of 1 step, dimmed 4 units before timeouts of 8 and 9, passes late by up to 6, which is longer than from dimming to sleep and far longer than what the fade leaves; a light sensor; a test every second pass, stopped by the second low one |
| `mqtt` | `MqttSafe`: subscriptions, labels, saved settings; `LabelsFollow`: labels catch up | two labels and two topics: both of one topic, or one each; one broker whose address can be lost, a right and a wrong account; an attempt is due at once; one message of a topic on its way besides those a subscription brings |
| `commands` | `KeepsToFiles`: is the command that is sent the one the pages say, in order and once; `InfraredGoesOn`: does the buffer empty, does the receiver listen again? | Two pages and two scenes with both in either order, one overriding a key in one page and the other in both; commands for NEC (sent), a delay, MWM (which `send` has no case for), one with a malformed code, a published one, one of no known mode and one that is missing; room for two in the buffer, so that order, a full buffer and losing one behind a delay happen. The IR Receiver page is open or not, enabling, sending and calibrating in between. |
| `mixed_commands` | Does each press type of a key send its own command? No. | the same, with another map for one page |
| `wifi` | `StationTruthful`: status, page, stored credentials; `ServicesSafe`: the clock's server, and the files of FTP and NTP; `ConnectionsRecover`: outcomes are shown, the network comes back, FTP and NTP follow their settings; `SimFollows`: the simulator's MQTT | Two networks with two passwords, of which one each is right; one event that waits and one that `connect` finds; two registrations, which differ from one. Two accounts, servers and labels; a retry after one unit. Two brokers besides the default, so that a failed save leaves an older one; two packets in the queue. |
| `home_assistant` | `ApiSafe`: connection, authentication, sessions; `MessagesSafe`: parts become messages; `HomeAssistGoesOn`: the connection comes up and starts a session, and a list of devices comes to be shown, as it was sent | One fault (which may be at any point, also inside a message) with one client and two sessions, or two clients and one session; three messages in parts of one token with buffers of 2 and 4: a message that fits, one that does not, and one that is cut off |

Properties are conjunctions of named parts, each with its comment in the module;
a mutant of the code breaks each property. In `power` the proportions matter. The
code dims 750 ms before the timeout and fades for about 310 ms: what is left, twice
the lateness of a pass, is `Slack`, about 220 ms. The loop may be later than that
(connecting to the MQTT broker alone blocks it for a second, `wifihandler.cpp:266-271`),
and the run lets it. `DarkInLightSleep` says when a light sleep may begin with the
screen lit or fading: only after such a pass since the timer was last armed, or, on a
board with a light sensor, when a fade of the sensor was under way as the screen was to
be dimmed. Both happen, and neither exception can be dropped: TLC finds a
counterexample without the one as without the other.

`CHECK_DEADLOCK FALSE` is given where a part really may stop: in `http_pool` a
client that was shut down with every request answered, and the exchange after
its last one; in `user_interface` a schema that is complete, a broken file that
fails every start, and the tasks after something undefined was used; in
`home_assistant` the messages, when the last has arrived. Elsewhere TLC finds no deadlock.

### Where the code differs from its documentation, or from itself

- Scenes (`scenes_after_sleep`): `RtcLastState` keeps the file on the screen and
  not the scene behind it. After a deep sleep on a page without sequences the
  scene that was active is forgotten, and the next scene does not send its exit
  sequence.
- Simulator (`simulator_future`): `get` is documented to return the response
  (`HttpTypes.hpp:111`), but the queue keeps a weak pointer to the promise and the
  only strong one ends with `executeAsync`.
- Keys (`mixed_commands`): `Wiki/Pages.md:59` maps each press type of a key to a
  command. With different commands for the press types of one key, the later
  ones send the data of the first (`JsonPage.cpp:54`, `Command.cpp:33`). The pages
  that come with the firmware use one command per key (`VolUp` for `Press` and
  for `Repeat`), which is what `KeepsToFiles` and its proof assume.
- Battery test (`calibration_key`): `LearnBattery.cpp:338` says that a test woken
  by a key goes back to sleep after a delay. The sleep in which the battery
  relaxes begins with the counter of that delay at -1, and it never meets zero.

### Seen while modelling, and not checked by a run

Scenes and power

- A scene with an exit sequence and no entry sequence does not become the scene
  whose entry was sent last, so going back to the one before skips its entry
  sequence (the theorems assume `EntriesDefined` for this reason).
- Keys go to all screens from the bottom up, so a scene below a pop-up acts on
  them; a key that nobody handles is offered twice to a pop-up's page.
- After a pass that comes more than about 220 ms late, or when the light sensor
  starts a fade at the moment of dimming, a light sleep begins before the screen is
  dark and freezes the fade; after the wake-up it goes on, swallows `reInit`'s
  request for light, and without a sensor the screen can stay dark until its
  brightness is next set (`HardwareRevX.cpp:463`, `display.cpp:335`).
- A request made during a fade is dropped (`display.cpp:335`). With a light sensor the
  next data put the screen right; without one an awake remote can stay dark. The
  keypad's light is put right only if the screen's has to be.
- At a cold start the panel's supply is on for a moment, and after a deep sleep
  that of the SD card, as a hold ends before the pin is set up; `NoFlash` speaks
  of the panel and of starts after a sleep.

HTTP, Wi-Fi and MQTT

- Nothing calls `checkAndInvoke`, so a callback registered on a future never runs.
- `shutdown` of the HTTP client waits a fixed time and not for its tasks.
- The simulator ignores libcurl's result, so an answer that stops after a 2xx
  status line is reported as success; the remote drops the body of an answer in
  chunks (`Esp32HttpClient.cpp:199`); headers of a redirection stay in the response.
  Of repeated headers one client keeps the last and the other the first. Actions
  send any method but POST, PUT and DELETE as GET. Default headers are never sent.
- `mqttRestoreCredentials` returns before it reads the preference when no broker
  settings are saved, so MQTT that was switched on, with no connection made
  since, is off after a restart. `mqttSaveCredentials` saves `mMqttBroker`, also if
  the connection was made to the address before it (for this reason
  `SavedAccountWorks` speaks of the account alone).
- After the Wi-Fi page was opened the library does not try again by itself until
  the next `connect`. Choosing the network already joined leaves the page at
  "Attempting". A "refused" event of an earlier attempt disconnects a newer one.
  By a race the pair stored can be one that has not been tried
  (`SavedVerified` says which).
- FTP credentials changed while the server runs apply when it is next started.
- In the simulator, labels bound before the connection are never subscribed, and
  after a failed socket `mqttSync` does not try again. Its `mqttSaveCredentials`
  ignores whether the file was written and drops the wish to save
  (`wifiHandlerSim.cpp:218-220`), so that after a failed write the next start comes
  up with an earlier broker or none; the remote's keeps the wish.

Home Assistant

- A second client is made when the connection opens between the test in `Process`
  and `connect`'s; the first goes on calling the same handlers.
- Sessions started on a lost connection are not started again, and never leave
  the map. `Light`'s message handler has expired before it is used.
- A list small enough for one document is walked, but the page is not told that it
  is complete. After a message that was cut off, documents are not heard until a
  message of the missing length ends it. A lost connection does not clear the text
  (`esp32WebSocket.cpp:105`, `125-130`): `auth_required` and `auth_ok` of the next one
  are appended to it, and the remote stays unauthenticated until it is restarted
  or the lengths happen to agree (`ComesUp` and `SessionStarted` name this case).
- The map of sessions is used by two tasks without a lock; this and the page that
  queued tasks point to are data races that the model leaves out, see section 7.

Battery and keys

- A new curve is used only after its mode was chosen again, or a restart; a curve
  of exactly 100 points is called saved and refused; a charge curve of few
  measurements is stored and never loaded.
- Revision 1 sends neither Short, Long nor Repeat, so commands for these press
  types never run there. Its eleventh key is not heard.
- The IR Receiver page's Samsung36 returns from `send` before the main loop's
  priority is restored, and `mPreSendPriority` is one member for two tasks. A
  malformed code in a command file throws in `IRSendTask`, where nobody catches
  it; a published command with one string of data is read past its end.
- `JsonHomeScreen.cpp:229` leaves a file name of 100 bytes or more without a
  terminator.

User interface

- The same device added twice is one object in the list twice, and moving the
  second to the top moves the first. A saved device file that is missing makes
  every start fail; one that is too big is left out and lost at the next save. A
  device above may handle the press of a key and another one its release.
- A change that finds the lock free is made before those that wait, and then the
  last of these undoes it: the element ends with the older request (`SettlesOn` says
  so). Postponed changes may point at elements that are gone. A page closed while its
  handler runs in the event task is used after its end, and `notify` goes on from a
  place of the map that closing the page, or entering a second password while the
  status is told, has erased (`GoneOnlyFromBeneath` says that nothing else does this).
- `OnShow` reaches hidden children of hidden elements, overrides of it on screens
  are never called, and `OnHide` reaches only direct children.

## 5. Fairness

Only liveness properties use it. No user, network or fault is obliged to do
anything, except where this is said.

- HTTP clients: weak fairness of each worker's and thread's steps, of `NotifyOne`,
  `NotifyAll`, and of the simulator's destructor. Tasks are scheduled preemptively,
  requests have a timeout, and `executeAsync` and `shutdown` do not stop half-way. A
  condition variable may wake without reason.
- Pins: weak fairness of the controller, which carries out the next operation,
  falls asleep, and wakes when a line asks for it.
- Keyboards: weak fairness of `Scan`; the main loop calls it for ever.
- Backlights: weak fairness of the fade tasks, which have a higher priority
  than the main loop, and of `SteadyLight`, new sensor data that does not change
  the mode, which arrive every 50 ms. `LcdSettles` assumes what it says: that
  from some time on nobody changes a setting, restarts, or puts the remote to
  sleep.
- Battery test: weak fairness of `onTimer`, a timer of LVGL, and of `SleepEnds`, a
  timer of the processor.
- Power: weak fairness of `Tick` (time passes), `Dim` and `Pass` (the loop runs)
  and `LightSleepExpires`.
- MQTT: weak fairness of time and of `mqttSync`, which the main loop calls each
  time round; strong fairness of `ConnectSucceeds`, an assumption on the
  network: an attempt with the right settings that is repeated for ever succeeds
  at last. `LabelsFollow` assumes that Wi-Fi and the settings stay right and that
  from some time on nothing is published and no page opened.
- Keys to commands: weak fairness of the sending task, which has the highest
  priority and whose waits are bounded, and of the ends of the main loop's own
  transmissions; strong fairness of `Poll`: each turn of the loop calls
  `loopHandleRx`, however often a key pauses the receiver again.
- Wi-Fi: weak fairness of the main loop, the event task and the end of an attempt;
  strong fairness of `Join` and `Address`, an assumption on the network: a right
  pair that is tried again and again gets in and gets its address. Strong fairness
  of what `ftpSync` and `nptSync` do, as each turn of the loop calls them however
  often the switch moves in between; weak fairness of `Write` and time.
- Home Assistant: weak fairness of the API's loop, its timers, the clients' tasks
  and reopening, and of Wi-Fi coming back; strong fairness of `Opens`, an assumption
  on the server. The faults are bounded by `MaxFaults`.
- User interface: weak fairness of the main loop's tasks while nothing
  `undefined` was used.

## 6. Proofs

Theorems hold for every value of the constants that meets the module's
assumption; TLC evaluates these assumptions in each run. Properties are stated
there and in the runs under the same names.

- `Interface_proofs`, scenes. `SceneInvariant`: `MembersAgree`, that is the types,
  `ExitBelongsToActive`, `RtcMatchesScreen`, `LightSleepOnlyInScene`, and
  `StartBelongsToActive` under `EntriesDefined`, without which it is false
  (section 4). They are not inductive alone: the loaded exit sequence must be
  known to be non-empty exactly when it belongs to somebody, and the scene in the
  tab view to be readable, since a deep sleep reads the file again.
  `WakeSendsNothing` is an action property from the invariant.
  `MeetsSceneContract`: under `EntriesDefined`, each step is a step of
  `SceneContract` or a stutter.
- `Http_proofs`, on the remote. `PoolIsSafe`: types, `QueuesPaired`, `OwnAnswer`, `OnlyOnce`,
  `NoLostWakeup`. The strengthening says where each request is (its caller's
  program counter, the queue, a worker's hands, answered) and that it is in one
  place; and the length of the queue never exceeds the workers on their way plus
  the notifications to come, by counting, action by action: each leaf is a lemma
  on the cardinality of a set that gains or loses one element.
  `PoolImplementsService`: the refinement, with the queue and the workers' hands
  as `waiting` and `underway`.
- `Http_proofs`, in the simulator and in one exchange. `CurlIsSafe`: each request reaches the server at most once
  and as it was asked, all of them before the destructor is through, and no
  queued request is forgotten by sleeping threads, again by counting.
  `ResponsesAreHonest`: what was collected belongs to the answer under way, so
  success means an answer of success to this request, whole on the remote.
- `Hardware_proofs`, keyboard. `KeysDoNotStick`: the queued movements of a key
  alternate and the last one agrees with the key, or with what the scanner will
  take it for if there is none; this is inductive for the keys that lost no
  movement. `KeysMeetGestures`: the refinement of `KeyGestures`, with the phase
  of a key read off `wasPressed` and `longSent`.
- `Hardware_proofs`, keypad. `KeypadFollowsKeys`: the refinement of `KeyGestures` and the list's
  catching up. The scan is a recursive function over the matrix. That it exists, and that
  all that was visited before a key is as it should be when the key's turn comes
  (`VisitedAll`, kept by `MoveOnKeeps` and `AddKeyKeeps`), is proved by the least number
  that would be an exception. So a scan means, place by place, one of three things
  (`Advances`), and each scan in which no key moves narrows what a key can be (`MayBe`)
  until after four only keys that are down are on the list; if one of them were missing
  there, all places would be taken by fewer keys (`FullList`, by the pigeonhole principle).
- `Power_proofs`. `FadesStayBetween`: a fade's level lies between its ends, which
  needs that the division of the code's step is monotone in the step's number.
  `PowerTypes`. `SleepsOnlyWhenIdle`: the timer, the idle time and the
  allowance for one pass together always cover the timeout in force plus the
  time not yet charged, `standbyTimer + idle + MaxLate >= armed + late`; with the
  timer at zero that is the property. `SettingsAreKept`: with nothing unsaved, the
  settings are what a restart would read. `DarkBeforeLightSleep`, for any lateness and
  with and without a light sensor: as long as no pass was later than `Slack`, the
  request to dim comes with at least `DimAt - Slack` on the timer, without a sensor
  every fade before it has ended by then (`EndsBeforeDim`), and the fade to dark ends
  before the timer does (`EndsBeforeSleep`), as twice `Slack` and a fade fit into
  `DimAt` (`SlackFits`). The assumptions on the constants are that a fade is shorter
  than `DimAt` (300 and 750 ms) and that timeouts are twice as long (10 s at least).
- `Hardware_proofs`, battery. `TestLeavesOnlyItsCurve`: what was borrowed is given back, a
  curve called saved is in the flash and of a size that will be read (but for two
  sizes at the edges, section 4), and the points of a charge are evenly spaced
  unless a key came too late. The schedule is the invariant: what is left
  of a sleep, of the delay after it and of the period add up to the next point.
  `GaugeIsTruthful`: a percentage, for any curve; monotone in the charge, for any curve,
  because the segment found is the first that rises above the reading, and
  each segment's values lie between its own parts of a hundred.
- `Mqtt_proofs`. `MqttInvariant`: `MqttSafe`. A session implies a client that knows
  of it, and what is on its way to a label ends in what was last published; an
  account that is saved has connected; MQTT that is off stays off.
- `KeyCommands_proofs`. `TypesHold`: among the types, that the handlers on hand
  are those of the scene that is shown, and that the task holds a command just
  when it is busy with one. `CommandsAreThePages`: with `OneCommandPerKey`, each step
  is a step of `CommandRelay` or a stutter. The argument has two parts. What a
  page builds: getting a command on top of itself leaves mode, protocol and first
  string as they were (`GetAgain`), so the structure shared by the press types
  means the same to each (`SharedStructure`). What happens to it: the command in the
  task's hands and the buffer behind it are one queue, which grows at the end,
  shrinks at the front and does not change when the task takes one
  (`PendingGrows`, `PendingLeaves`, `PendingTaken`).
- `HomeAssist_proofs`. `ApiIsSafe`, for any bounds, that is any number of clients,
  sessions and faults: requests go out once (`HandedOnce`), with rising ids, to a
  server that took the token, unless a handle was lost before, and the loop meets no
  hole in the map. The invariant: what was sent belongs to a session that has
  given its request away (`SentIsGiven`), no server has seen the id of a session
  that is still to be started (`SeenIsOld`), a message that names a session names
  one that is there (`NamesAreReal`), only a server that took the token says so
  (`SaysWhatItIs`), and while no handle was lost what is connected is the client on
  hand (`OneHandle`).
- `HomeAssist_proofs`, messages. `MessagesAreSafe`, for any messages, any division into
  events and chunks, any heap, and the remote and the simulator: what is handled as a
  message is one, in order and once, all of them are until one is cut off or does not
  fit, and the progress a page is told stays within the message. The invariant
  (`SoundChunks`): what the reader has taken is the beginning of one message, all that is
  held is of the length in work, and no message is complete in the buffer. So a chunk
  that completes a message completes its own, with its last unit
  (`CompleteAtTheEnd`), whatever was left from a message that was cut off. Until then
  (`InStep`) what is held is exactly what came of the message on the wire, on one of
  the two ways, and the parser stops only where the buffer gets short
  (`InStepIsParsed`). What an event may do is stated once (`Brings`).
- `Wifi_proofs`. `SimulatorFollows`, for any topics, brokers and length of the
  client's queue: what is queued for the broker, folded over what the session has,
  is what the labels are bound to, whatever connections were lost and made again
  in between. The fold is written without recursion (`Taken`: the last packet about a
  topic decides), with lemmas for one more packet at the end of the queue and one
  less at its head. Settings that were entered are in the file once there is nothing
  left to save, unless the last save was not written in full.
- `Interface_proofs`, devices. `ListIsTheUsers`, for any device files: the types,
  `LosesNothing`, `PageOrder`, `SelectionAlive` and `StrokeKept`. The strengthening:
  while a page shows the list, its items are the devices in the list's order
  (`Shows`, `InItsOrder`), objects have the numbers of a list and an offer's are
  above them, without a cut save every saved device can be restored and the list is
  what the user wanted (`NothingHarmed`), and a stroke was acted on by one device
  or by a Roku above it (`OneActs`). The lemmas are about sequences of which one
  element is removed, inserted or moved, and about `InOrder`: the places of a set in
  increasing order are unique, so a restart brings back one list.
- `Interface_proofs`, elements. `ElementsAreSafe`, for any number of keyboards that could
  be opened: events, transitions and animations find their element, the Wi-Fi page holds
  the only keyboard there is, and what is visible has heard that it is. Elements are a tree (`Up`, `Above`, `Root`, with lemmas on who is above
  whom), and the invariant says of it: the open screens are the home screen
  alone or below the settings or the Wi-Fi page, and which elements are alive,
  hidden or leaving follows from that (`ElementTypes`); an object lives as long as
  what it is in (`ParentsLive`); what an animation moves, and what its end is told to, is
  there (`MovedLive`); and what is visible in an open screen has heard it, because a
  telling reaches everything that is not hidden (`SeenHasHeard`, `OnShowReaches`).
- `Interface_proofs`, settings. `ChangesSurvive`, for any pages and offers: a
  restart brings back what is in force, but for the one page that is open and has
  changes (`OnlyOnePageDiffers`), for which the stack of screens must be one of
  the five there can be. Making a value usable twice changes nothing (`UsableFacts`), and
  a save that was cut leaves each value as it was before or after.
- `Interface_proofs`, tasks. `TasksAreSafe`, for any lengths and values. The
  strengthening: once a page is closed, everything queued for it is an orphan, and
  while it is open the queue, or the element if nothing is queued, ends in
  what `SettlesOn` says (`QueueLeads`); the page is registered only while it is open,
  and a handler that runs has its page unless that was closed under it
  (`HandlersStand`); what waits is no orphan before something went (`OrphansMean`).
- `Interface_proofs`, schemas. `SchemasAreExact`, for any keys, types and lengths and any
  number of members: the size that is counted is that of the text, and the text takes what
  was asked for. The invariant says of the builder at hand and of the one that is kept
  what it was asked for, that its count of required members is zero when none is, and that its N
  is the size of its text (`Builder`); what is kept has nothing nested in it. The
  step is that a text with one member more is longer by what `addScalar` or `addNested` counts
  (`TextGrows`), which needs that a sum over a sequence is what it should be (`SumsExist`,
  `SumsAgree`, `TotalOfMore`). That a text takes what was asked for is shown member by member,
  for any value, first for schemas without others in them (`FlatIsTaken`).
- `Wifi_proofs`, station. `StationIsTruthful`, for any networks and any number of events
  that wait. The strengthening: networks are joined only with a good pair
  (`JoinedAreGood`); outside `connect` a pair that is to be stored is the one the driver
  was told last (`AttemptIsDrivers`), so only the race that `SavedVerified` names can store
  another; the page has heard of the attempt whose outcome it
  shows (`PageHasHeard`); and `connected` agrees with the status.
- `Wifi_proofs`, services. `ServicesAreSafe`, for any accounts, servers and labels:
  only a page that is open with changes may differ from its file or from the clock, and
  a file is being written only then (`OnlyChangedPageDiffers`).

## 7. What is only model-checked, and what is not modelled

Only model-checked: all liveness (fairness is beyond the prover); `ListWhole`, which is
true while there is one query, and which needs an induction over the list (its entities are those
of its chunks, one after the other), beyond the prover too; and `Pins`, which has no parameters, so that the run
visits all of its states and a theorem would say nothing more.

Not modelled: the simulator's queues, `BackgroundThread` and `poller`, which
nothing uses (`SimulatorMPMCQueue` could not even be instantiated: it declares
members it never initialises); widgets, layout and drawing, which have little
state beyond what LVGL keeps; logging; the drivers of display and touch panel,
which are input and output; Home Assistant's own user interface beyond its list
of devices, as `OmoteSetup.hpp` leaves it commented out.

Within the modelled parts these are left out: contents of pages, labels and
fades of the user interface (Scenes); URLs and the texts of headers
(HttpExchange); signals that are received, and sending them again from the IR
Receiver page, which the home screen gives no power key (KeyCommands); the codes
of the keys and the light sensor's filter (KeyboardRev5, Backlight); pins that are only
driven low while asleep (Pins); event listeners and single-key queries of the
keypad's library, which the firmware never calls (Keypad); the registers of the
fuel gauge and the rounding of floats (BatteryGauge); `OnHide`, sizes and styles
(Elements); looking up an action by its name, which nothing calls (Devices); the
pretended Wi-Fi of the simulator (SimWifi); the bytes of a map or a queue that two
tasks use at once without a lock (HomeAssistApi, LvglTasks): there a handler or a
message is taken as one step; a write that fails although the power stays on
(`LoggingInterface.cpp:43` ignores it; SettingsPages has the power loss only); that the
handler of the keyboard's animation destroys itself while it runs and then uses its
captured `this` (`WifiSettings.cpp:53-57`), which is taken as harmless (Elements); that
`~JsonPage` frees the subject of a text before the label that shows it goes
(`JsonPage.cpp:80-86`), which is LVGL's to bear (Mqtt).
