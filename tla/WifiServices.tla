----------------------------- MODULE WifiServices ------------------------------
(***************************************************************************)
(* The FTP server and the NTP client of the Wi-Fi handler                  *)
(* (wifihandler.cpp 350-502, wifihandler.hpp 47-75, ftp.cpp), with their   *)
(* settings pages (lib/BasicUI/page/FtpSettings.cpp, NtpSettings.cpp).     *)
(*                                                                         *)
(* Everything runs in the main loop.  A page changes the members as the    *)
(* user goes along and saves them when it is closed; a file is emptied     *)
(* before it is written, and the power may fail between.  The connection   *)
(* comes and goes as it likes (WifiStation says how).                      *)
(*                                                                         *)
(* The SNTP library is external: it keeps the pointer it is given, so what *)
(* it asks follows the string, or is lost when the string moves.           *)
(*                                                                         *)
(* Definitions introduced by "Mutant" are plausible mistakes in the one    *)
(* that follows them; no action uses them.                                 *)
(***************************************************************************)
EXTENDS Naturals

CONSTANTS
  Accounts,       (* mDNS name, user and password of the FTP server        *)
  Servers,        (* server and time zone of NTP                           *)
  DefaultAccount,
  DefaultServer,
  Nothing,        (* no file, nothing running                              *)
  Torn,           (* what is left of a file or a string                    *)
  Retry           (* MQTT_RETRY, in the units of elapsed                   *)

Ftp  == [on : BOOLEAN, account : Accounts]
Ntp  == [on : BOOLEAN, server : Servers]

ASSUME ServicesAssumption ==
  /\ DefaultAccount \in Accounts /\ DefaultServer \in Servers
  /\ \A v \in {Nothing, Torn} :
       v \notin Accounts \cup Servers \cup {"ftp", "ntp"} /\ v \notin Ftp /\ v \notin Ntp
  /\ Retry \in Nat

VARIABLES
  wifi,      (* WiFi.isConnected()                                         *)
  ftp,       (* mFtpEnabled and mmDNSName, mFtpUser, mFtpPassword          *)
  serving,   (* mFtpInitialised, and the account the server began with     *)
  force,     (* mFtpForceConnect                                           *)
  elapsed,   (* millis() - mOldFtpTime                                     *)
  ntp,       (* mNtpEnabled and mNtpServer, mNtpTimeZone                   *)
  started,   (* mNtpInitialised                                            *)
  asking,    (* what the pointer given to the SNTP client reads            *)
  zone,      (* TZ in the environment                                      *)
  ftpFile, ntpFile,
  screen,    (* the page on the screen                                     *)
  dirty,     (* its mSaveReqrd                                             *)
  writing,   (* a file has been emptied and not been written yet           *)
  unsaved    (* the pages whose last file could not be opened              *)

ftpVars == <<ftp, serving, force, elapsed, ftpFile>>
ntpVars == <<ntp, started, asking, zone, ntpFile>>
uiVars  == <<screen, dirty, writing, unsaved>>
sVars   == <<wifi, ftpVars, ntpVars, uiVars>>

ServicesTypeOK ==
  /\ wifi \in BOOLEAN
  /\ ftp \in Ftp
  /\ serving \in Accounts \cup {Nothing}
  /\ force \in BOOLEAN
  /\ elapsed \in 0..(Retry + 1)
  /\ ntp \in Ntp
  /\ started \in BOOLEAN
  /\ asking \in Servers \cup {Nothing, Torn}
  /\ zone \in Servers \cup {Nothing}
  /\ ftpFile \in Ftp \cup {Nothing, Torn}
  /\ ntpFile \in Ntp \cup {Nothing, Torn}
  /\ screen \in {Nothing, "ftp", "ntp"}
  /\ dirty \in BOOLEAN
  /\ writing \in BOOLEAN
  /\ unsaved \in SUBSET {"ftp", "ntp"}

(* ftpRestoreCredentials and ntpRestoreCredentials.                        *)
Restored(file, default) == IF file \in {Nothing, Torn} THEN default ELSE file

FtpDefault == [on |-> FALSE, account |-> DefaultAccount]
NtpDefault == [on |-> FALSE, server |-> DefaultServer]

(* HardwareRevX::init.                                                     *)
Fresh ==
  /\ wifi = FALSE
  /\ serving = Nothing /\ force = TRUE /\ elapsed = Retry
  /\ started = FALSE /\ asking = Nothing
  /\ screen = Nothing /\ dirty = FALSE /\ writing = FALSE /\ unsaved = {}

SInit ==
  /\ Fresh
  /\ ftpFile = Nothing /\ ntpFile = Nothing
  /\ ftp = FtpDefault /\ ntp = NtpDefault
  /\ zone = DefaultServer

Idle == ~writing

-------------------------------------------------------------------------------
(* In each round of the main loop                                          *)

FtpBegin ==
  /\ Idle /\ ftp.on /\ wifi /\ serving = Nothing /\ (elapsed > Retry \/ force)
  /\ force' = FALSE /\ elapsed' = 0
  /\ serving' = ftp.account
  /\ UNCHANGED <<wifi, ftp, ftpFile, ntpVars, uiVars>>

FtpEnd ==
  /\ Idle /\ ~(ftp.on /\ wifi) /\ serving # Nothing
  /\ serving' = Nothing
  /\ UNCHANGED <<wifi, ftp, force, elapsed, ftpFile, ntpVars, uiVars>>

ftpSync == FtpBegin \/ FtpEnd

nptSync ==
  /\ Idle /\ ~started /\ ntp.on /\ wifi
  /\ started' = TRUE
  /\ asking' = ntp.server
  /\ UNCHANGED <<wifi, ftpVars, ntp, zone, ntpFile, uiVars>>

-------------------------------------------------------------------------------
(* The pages                                                               *)

OpenSettings(p) ==
  /\ Idle /\ screen = Nothing
  /\ screen' = p /\ dirty' = FALSE
  /\ UNCHANGED <<wifi, ftpVars, ntpVars, writing, unsaved>>

enableFtp(b) ==
  /\ Idle /\ screen = "ftp"
  /\ ftp' = [ftp EXCEPT !.on = b]
  /\ force' = (force \/ b)
  /\ dirty' = TRUE
  /\ UNCHANGED <<wifi, serving, elapsed, ftpFile, ntpVars, screen, writing, unsaved>>

(* ftpSetUser, ftpSetPassword, mDNSSetName from the keyboard.              *)
ftpSetAccount(a) ==
  /\ Idle /\ screen = "ftp"
  /\ ftp' = [ftp EXCEPT !.account = a]
  /\ dirty' = TRUE
  /\ UNCHANGED <<wifi, serving, force, elapsed, ftpFile, ntpVars, screen, writing, unsaved>>

enableNtp(b) ==
  /\ Idle /\ screen = "ntp"
  /\ ntp' = [ntp EXCEPT !.on = b]
  /\ dirty' = TRUE
  /\ UNCHANGED <<wifi, ftpVars, started, asking, zone, ntpFile, screen, writing, unsaved>>

(* ntpntpSetServer, ntpSetTimeZone.  The client's pointer sees the new string *)
(* or is left behind by it.                                                *)
ntpSetServer(s) ==
  /\ Idle /\ screen = "ntp"
  /\ ntp' = [ntp EXCEPT !.server = s]
  /\ asking' \in IF asking = Nothing THEN {Nothing} ELSE {asking, s, Torn}
  /\ dirty' = TRUE
  /\ UNCHANGED <<wifi, ftpVars, started, zone, ntpFile, screen, writing, unsaved>>

CloseUnchanged ==
  /\ Idle /\ screen # Nothing /\ ~dirty
  /\ screen' = Nothing
  /\ UNCHANGED <<wifi, ftpVars, ntpVars, dirty, writing, unsaved>>

(* The destructor of a page with changes opens the file and empties it.   *)
EmptyFile ==
  /\ Idle /\ screen # Nothing /\ dirty
  /\ writing' = TRUE
  /\ IF screen = "ftp" THEN ftpFile' = Torn /\ UNCHANGED ntpFile
                       ELSE ntpFile' = Torn /\ UNCHANGED ftpFile
  /\ UNCHANGED <<wifi, ftp, serving, force, elapsed, ntp, started, asking, zone, screen,
                 dirty, unsaved>>

(* Mutant: the client asks on with the pointer it has.                     *)
SetupNtpZone == zone' = ntp.server /\ started' = FALSE /\ UNCHANGED asking

setupNtp == zone' = ntp.server /\ started' = FALSE /\ asking' = Nothing

(* The file cannot be opened.                                              *)
CloseUnsaved ==
  /\ Idle /\ screen # Nothing /\ dirty
  /\ IF screen = "ntp" THEN setupNtp ELSE UNCHANGED <<zone, started, asking>>
  /\ screen' = Nothing /\ dirty' = FALSE /\ unsaved' = unsaved \cup {screen}
  /\ UNCHANGED <<wifi, ftpVars, ntp, ntpFile, writing>>

CloseFtp ==
  /\ writing /\ screen = "ftp"
  /\ ftpFile' = ftp
  /\ screen' = Nothing /\ writing' = FALSE /\ dirty' = FALSE /\ unsaved' = unsaved \ {screen}
  /\ UNCHANGED <<wifi, ftp, serving, force, elapsed, ntpVars>>

CloseNtp ==
  /\ writing /\ screen = "ntp"
  /\ ntpFile' = ntp
  /\ setupNtp
  /\ screen' = Nothing /\ writing' = FALSE /\ dirty' = FALSE /\ unsaved' = unsaved \ {screen}
  /\ UNCHANGED <<wifi, ftpVars, ntp>>

-------------------------------------------------------------------------------

Tick ==
  /\ elapsed <= Retry
  /\ elapsed' = elapsed + 1
  /\ UNCHANGED <<wifi, ftp, serving, force, ftpFile, ntpVars, uiVars>>

WifiChanges ==
  /\ wifi' = ~wifi
  /\ UNCHANGED <<ftpVars, ntpVars, uiVars>>

(* A restart, at any moment.                                               *)
SRestart ==
  /\ wifi' = FALSE
  /\ ftp' = Restored(ftpFile, FtpDefault)
  /\ serving' = Nothing /\ force' = TRUE /\ elapsed' = Retry
  /\ ntp' = Restored(ntpFile, NtpDefault)
  /\ started' = FALSE /\ asking' = Nothing /\ zone' = ntp'.server
  /\ screen' = Nothing /\ dirty' = FALSE /\ writing' = FALSE /\ unsaved' = {}
  /\ UNCHANGED <<ftpFile, ntpFile>>

Pages == \/ \E p \in {"ftp", "ntp"} : OpenSettings(p)
         \/ \E b \in BOOLEAN : enableFtp(b) \/ enableNtp(b)
         \/ \E a \in Accounts : ftpSetAccount(a)
         \/ \E s \in Servers : ntpSetServer(s)
         \/ CloseUnchanged \/ CloseUnsaved \/ EmptyFile

Write == CloseFtp \/ CloseNtp

SNext == ftpSync \/ nptSync \/ Pages \/ Write \/ Tick \/ WifiChanges \/ SRestart

(* The main loop runs, and calls the three functions in every round.       *)
SFairness == SF_sVars(FtpBegin) /\ SF_sVars(FtpEnd) /\ SF_sVars(nptSync)
             /\ WF_sVars(Write) /\ WF_sVars(Tick)

SSpec == SInit /\ [][SNext]_sVars /\ SFairness

-------------------------------------------------------------------------------
(* Properties                                                              *)

(* Away from its page the clock is asked from the server on record and from*)
(* no other, and from none once NTP is off, although the library holds on  *)
(* to a string that the page rewrites (401-422, NtpSettings.cpp 81-85).    *)
ClockHonest ==
  screen # "ntp" => /\ asking \in {Nothing, ntp.server}
                    /\ asking # Nothing => ntp.on
                    /\ zone = ntp.server

(* A restart brings back the settings the pages were closed with, unless   *)
(* the power fails while they are written (450-502, 350-399).              *)
FilesFollow ==
  screen = Nothing /\ ~writing =>
    /\ "ftp" \notin unsaved => Restored(ftpFile, FtpDefault) = ftp
    /\ "ntp" \notin unsaved => Restored(ntpFile, NtpDefault) = ntp

(* What the two services were set to on their pages is what they keep and  *)
(* what the clock is asked from.                                           *)
ServicesSafe == ServicesTypeOK /\ ClockHonest /\ FilesFollow

(* The server comes to run while it is switched on and there is a          *)
(* connection, and to be ended otherwise, however often it has been        *)
(* switched and the connection has broken (424-448).                       *)
FtpFollows ==
  /\ <>[](wifi /\ ftp.on) => <>[](serving # Nothing)
  /\ <>[]~(wifi /\ ftp.on) => <>[](serving = Nothing)

(* NTP that is on gets its time, after any change of the settings, once    *)
(* there is a connection (411-422).                                        *)
NtpFollows == <>[](wifi /\ ntp.on /\ screen = Nothing) => <>[](asking = ntp.server)

(* FTP and NTP come to run and to end as the connection and their settings *)
(* have it.                                                                *)
ServicesFollow == FtpFollows /\ NtpFollows
================================================================================
