--------------------------- MODULE SettingsPages ---------------------------
(***************************************************************************)
(* The settings: the screens that are stacked to change them               *)
(* (ScreenManager.cpp, PopUpScreen.cpp, SettingsPage.cpp), what the pages  *)
(* change at once and save when they are closed (DisplaySettings.cpp,      *)
(* SystemSettings.cpp, LoggingSettings.cpp), and where they are kept       *)
(* (HardwareRevX.cpp, LoggingInterface.cpp).  All of it runs in the main   *)
(* loop; the power may go at any time, also while something is written.    *)
(***************************************************************************)
EXTENDS Naturals, Sequences, SequencesExt

CONSTANTS Offered,      \* per setting, what its page offers; one of each page at least
          Default,      \* per setting, the value in the code; 0 is nothing's default
          Darkest,      \* the least a screen is lit
          LogModules, LogLevels, Warning

\* The order in which they are written
Position == [imu |-> 1, lightSleep |-> 2, lcd |-> 3, kbd |-> 4, timeout |-> 5]

ASSUME SettingsAssumption ==
  /\ DOMAIN Offered \subseteq DOMAIN Position
  /\ DOMAIN Offered = DOMAIN Default /\ "lcd" \in DOMAIN Offered /\ "timeout" \in DOMAIN Offered
  /\ Darkest \in Nat \ {0} /\ Warning \in LogLevels

VARIABLES mScreens,     \* the pages, from the home screen up; none while there is no power
          mSaveRequired,        \* of the page on top
          settings,     \* in force
          nvs, alreadySetUp,    \* the flash
          mCurrentLogLevels,
          logFile       \* what it holds, if it can be read
pageVars == <<mScreens, mSaveRequired, settings, nvs, alreadySetUp, mCurrentLogLevels, logFile>>

Pages == {"display", "system", "logging"}
AllWarn == [m \in LogModules |-> Warning]
Unreadable == {}
Off == mScreens = << >>

-----------------------------------------------------------------------------
(* Starting *)
Usable(k, v) ==
  CASE k = "lcd" /\ v < Darkest -> Darkest
    [] k = "timeout" /\ v = 0 -> Default[k]
    [] OTHER -> v
RestoredSettings ==
  [k \in DOMAIN Offered |-> Usable(k, IF alreadySetUp THEN nvs[k] ELSE Default[k])]
LogsRestored == IF logFile = Unreadable THEN AllWarn ELSE CHOOSE f \in logFile : TRUE

PagesInit ==          \* what was never written reads as 0
  /\ mScreens = << >> /\ mSaveRequired = FALSE /\ settings = Default
  /\ nvs = [k \in DOMAIN Offered |-> 0] /\ alreadySetUp = FALSE
  /\ mCurrentLogLevels = AllWarn /\ logFile = Unreadable

restorePreferences ==
  /\ Off /\ mScreens' = <<"home">>
  /\ settings' = RestoredSettings /\ mCurrentLogLevels' = LogsRestored
  /\ UNCHANGED <<mSaveRequired, nvs, alreadySetUp, logFile>>

PowerGoes == mScreens' = << >> /\ mSaveRequired' = FALSE
PowerLost == ~Off /\ PowerGoes /\ UNCHANGED <<settings, nvs, alreadySetUp, mCurrentLogLevels, logFile>>

-----------------------------------------------------------------------------
(* Pages *)
pushPopUp(page) == mScreens' = Append(mScreens, page)

PushSettingsList ==   \* from the bar of the home screen
  /\ mScreens = <<"home">> /\ pushPopUp("settings")
  /\ UNCHANGED <<mSaveRequired, settings, nvs, alreadySetUp, mCurrentLogLevels, logFile>>
PushPage(page) ==
  /\ mScreens = <<"home", "settings">> /\ pushPopUp(page)
  /\ UNCHANGED <<mSaveRequired, settings, nvs, alreadySetUp, mCurrentLogLevels, logFile>>

Set(k, v) ==          \* in force at once
  /\ settings' = [settings EXCEPT ![k] = v] /\ mSaveRequired' = TRUE
  /\ UNCHANGED <<mScreens, nvs, alreadySetUp, mCurrentLogLevels, logFile>>
ChangeDisplay(k, v) == ~Off /\ Last(mScreens) = "display" /\ k \in {"lcd", "kbd"} /\ Set(k, v)
ChangeSystem(k, v) == ~Off /\ Last(mScreens) = "system" /\ k \notin {"lcd", "kbd"} /\ Set(k, v)

setLogLevel(m, level) ==
  /\ ~Off /\ Last(mScreens) = "logging"
  /\ mCurrentLogLevels' = [mCurrentLogLevels EXCEPT ![m] = level] /\ mSaveRequired' = TRUE
  /\ UNCHANGED <<mScreens, settings, nvs, alreadySetUp, logFile>>

\* The first n values are written; at last the mark that there are any
Complete == 6
\* Seeded fault: the mark is written first
MarkFirst(n) ==
  /\ nvs' = [k \in DOMAIN Offered |-> IF Position[k] < n THEN settings[k] ELSE nvs[k]]
  /\ alreadySetUp' = (alreadySetUp \/ n > 0) /\ UNCHANGED logFile

saveSettings(n) ==
  /\ nvs' = [k \in DOMAIN Offered |-> IF Position[k] <= n THEN settings[k] ELSE nvs[k]]
  /\ alreadySetUp' = (alreadySetUp \/ n = Complete) /\ UNCHANGED logFile

saveLogSettings(n) ==       \* the file is emptied before it is written
  /\ logFile' = IF n = Complete THEN {mCurrentLogLevels} ELSE IF n = 0 THEN logFile ELSE Unreadable
  /\ UNCHANGED <<nvs, alreadySetUp>>

Destroy(page, n) ==   \* its destructor
  IF ~mSaveRequired THEN UNCHANGED <<nvs, alreadySetUp, logFile>>
  ELSE IF page = "logging" THEN saveLogSettings(n) ELSE saveSettings(n)

popScreen == mScreens' = Front(mScreens) /\ mSaveRequired' = FALSE
Exit ==               \* the button of the pop-up; the power may go while it saves
  /\ Len(mScreens) > 1
  /\ \E n \in 0..Complete :
       /\ Destroy(Last(mScreens), n)
       /\ IF n = Complete THEN popScreen ELSE mSaveRequired /\ PowerGoes
  /\ UNCHANGED <<settings, mCurrentLogLevels>>

PagesNext ==
  \/ restorePreferences \/ PowerLost \/ PushSettingsList \/ Exit
  \/ \E page \in Pages : PushPage(page)
  \/ \E k \in DOMAIN Offered : \E v \in Offered[k] : ChangeDisplay(k, v) \/ ChangeSystem(k, v)
  \/ \E m \in LogModules, level \in LogLevels : setLogLevel(m, level)
PagesSpec == PagesInit /\ [][PagesNext]_pageVars

-----------------------------------------------------------------------------
PagesTypeOK ==
  /\ ~Off => mScreens[1] = "home" /\ Len(mScreens) <= 3
  /\ mSaveRequired \in BOOLEAN /\ alreadySetUp \in BOOLEAN
  /\ \A k \in DOMAIN Offered : {settings[k], nvs[k]} \subseteq Offered[k] \cup {0, Usable(k, 0), Default[k]}
  /\ mCurrentLogLevels \in [LogModules -> LogLevels]
  /\ logFile \subseteq [LogModules -> LogLevels]

\* While the remote is on and no page with changes is open, a restart brings back what
\* is in force, also after a save that was cut off and the restart that followed it.
ChangesSaved ==
  ~Off /\ ~mSaveRequired =>
    /\ \A k \in DOMAIN Offered : RestoredSettings[k] = Usable(k, settings[k])
    /\ mCurrentLogLevels = LogsRestored

\* Nothing changes what a restart would bring back of a setting but to the value in
\* force, and no cut save brings back a value the user never saw: of the first one
\* nothing counts, and the log file's loss makes every module warn.
CutSavesAreHarmless ==
  [][/\ \A k \in DOMAIN Offered : RestoredSettings'[k] \in {RestoredSettings[k], Usable(k, settings[k])}
     /\ LogsRestored' \in {LogsRestored, mCurrentLogLevels, AllWarn}]_pageVars

\* What the pages change survives: in force, in the flash and in the log file, wherever
\* the power goes.
SettingsSurvive == [](PagesTypeOK /\ ChangesSaved) /\ CutSavesAreHarmless
=============================================================================
