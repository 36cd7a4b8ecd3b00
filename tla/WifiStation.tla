------------------------------ MODULE WifiStation ------------------------------
(***************************************************************************)
(* The Wi-Fi station: wifihandler.cpp 36-166 with the page Wi-Fi Settings  *)
(* (lib/BasicUI/page/WifiSettings.cpp).                                    *)
(*                                                                         *)
(* Two tasks meet here.  The main loop opens the page, has the user type a *)
(* password and starts attempts, one line at a time.  The event task calls *)
(* WiFiEvent for one event after the other; it has the higher priority, so *)
(* a call of it may come between any two lines of the main loop, and runs  *)
(* to its end.                                                             *)
(*                                                                         *)
(* The Wi-Fi library is external: an attempt to join a network ends in an  *)
(* event, its status changes when an event is handled, just before the     *)
(* callbacks, and while autoReconnect is set it tries a lost network again *)
(* by itself.  An attempt takes longer than the lines that follow its      *)
(* start.  begin registers the callback again at each wake-up; how often   *)
(* is counted up to Many.                                                  *)
(*                                                                         *)
(* Definitions introduced by "Mutant" are plausible mistakes in the one    *)
(* that follows them; no action uses them.                                 *)
(***************************************************************************)
EXTENDS Naturals, Sequences

CONSTANTS
  Ssids,
  Passwords,
  Good,       (* the pairs with which a network lets the remote in         *)
  Typed,      (* bound: the pairs a user enters                            *)
  None,       (* the empty string, and no pair                             *)
  MaxEvents,  (* bound: events waiting when the library adds one; connect  *)
              (* may find one more                                         *)
  Many        (* bound: registrations of the callback that are told apart  *)

ASSUME WifiAssumption ==
  /\ Good \subseteq Ssids \X Passwords
  /\ Typed \subseteq Ssids \X Passwords
  /\ None \notin Ssids \cup Passwords \cup {"scan", "attempting", "connected", "failed"}
  /\ MaxEvents \in Nat
  /\ Many \in Nat \ {0}

VARIABLES
  link,        (* the driver: "none", "trying", "joined", "addressed"      *)
  config,      (* the pair of the last WiFi.begin                          *)
  auto,        (* autoReconnect                                            *)
  scanning,
  status,      (* WiFi.status()                                            *)
  events,      (* events not handled yet                                   *)
  registered,  (* registrations of the callback                            *)
  flag,        (* mIsConnectionAttempt                                     *)
  attempt,     (* mConnectionAttemptSSID and mConnectionAttemptPassword    *)
  saved,       (* SSID and password in the preferences                     *)
  connected,   (* mCurrentStatus.isConnected                               *)
  main,        (* where the main loop is in connect, and with which pair   *)
  page,        (* the page: its text, its list, whether it hears of status *)
  keyboard     (* the network a password is being typed for                *)

library == <<link, config, auto, scanning, status>>
handler == <<flag, attempt, saved, connected>>
ui      == <<page, keyboard>>
vars    == <<library, events, registered, handler, main, ui>>

NoPair  == <<None, None>>
Pairs   == (Ssids \cup {None}) \X (Passwords \cup {None})
Closed  == [text |-> None, listed |-> FALSE, hears |-> FALSE]
Resting == [at |-> "rest", pair |-> NoPair, user |-> FALSE]

Event(kind, with) == [kind |-> kind, with |-> with]

StationTypeOK ==
  /\ link \in {"none", "trying", "joined", "addressed"}
  /\ config \in Pairs
  /\ auto \in BOOLEAN /\ scanning \in BOOLEAN
  /\ status \in {"idle", "up", "failed", "lost"}
  /\ events \in Seq([kind : {"joined", "address", "refused", "lost", "left", "scanned"},
                     with : Pairs])
  /\ registered \in 1..Many
  /\ flag \in BOOLEAN
  /\ attempt \in Pairs /\ saved \in Pairs
  /\ connected \in BOOLEAN
  /\ main \in [at : {"rest", "flag", "password", "ssid", "begin", "text"},
               pair : Pairs, user : BOOLEAN]
  /\ page \in [text : {None, "scan", "attempting", "connected", "failed"},
               listed : BOOLEAN, hears : BOOLEAN]
  /\ keyboard \in Ssids \cup {None}

(* Where begin leaves the main loop: in connect, if a pair is stored.      *)
Begun(p) == IF p[1] = None THEN Resting ELSE [at |-> "password", pair |-> p, user |-> FALSE]

Init ==
  /\ saved \in {<<p[1], p[2]>> : p \in Good} \cup {NoPair}
  /\ link = "none" /\ config = NoPair /\ auto = TRUE /\ scanning = FALSE /\ status = "lost"
  /\ events = << >> /\ registered = 1
  /\ flag = FALSE /\ attempt = NoPair /\ connected = FALSE
  /\ main = Begun(saved)
  /\ page = Closed /\ keyboard = None

-------------------------------------------------------------------------------
(* The main loop                                                           *)

(* connect, and the callback of the keyboard around it: one step is one    *)
(* line, and At(here, there) is the move from one to the next.             *)
At(here, there) == main.at = here /\ main' = [main EXCEPT !.at = there]

saveCredentialsOnConnect ==
  /\ At("flag", "password")
  /\ flag' = TRUE
  /\ UNCHANGED <<library, events, registered, attempt, saved, connected, ui>>

ConnectPassword ==
  /\ At("password", "ssid")
  /\ attempt' = [attempt EXCEPT ![2] = main.pair[2]]
  /\ UNCHANGED <<library, events, registered, flag, saved, connected, ui>>

ConnectSsid ==
  /\ main.at = "ssid"
  /\ main' = [main EXCEPT !.at = "begin", !.pair = NoPair]
  /\ attempt' = [attempt EXCEPT ![1] = main.pair[1]]
  /\ UNCHANGED <<library, events, registered, flag, saved, connected, ui>>

(* What the driver says when a connection, or an attempt, is given up.     *)
Left(l) == IF l = "none" THEN << >> ELSE <<Event("left", NoPair)>>

(* WiFi.begin with what the members say by now: nothing is done without a  *)
(* name, nor for the network the station is in already.                    *)
WiFiBegin ==
  /\ IF attempt[1] = None \/ (attempt = config /\ link = "addressed")
     THEN UNCHANGED <<link, config, events>>
     ELSE /\ link' = "trying"
          /\ config' = attempt
          /\ events' = events \o Left(link)
  /\ UNCHANGED <<auto, scanning, status>>

ConnectBegin ==
  /\ main.at = "begin"
  /\ Len(events) <= MaxEvents + 1
  /\ main' = IF main.user THEN [main EXCEPT !.at = "text"] ELSE Resting
  /\ WiFiBegin
  /\ UNCHANGED <<registered, handler, ui>>

(* The text, StartHandlingStatusUpdates, and the keyboard goes.            *)
StartHandlingStatusUpdates ==
  /\ main.at = "text"
  /\ main' = Resting
  /\ page' = [page EXCEPT !.text = "attempting", !.hears = TRUE]
  /\ keyboard' = None
  /\ UNCHANGED <<library, events, registered, handler>>

scan == auto' = FALSE /\ scanning' = TRUE

OpenPage ==
  /\ main = Resting /\ page = Closed
  /\ page' = [Closed EXCEPT !.text = "scan"]
  /\ scan
  /\ UNCHANGED <<link, config, status, events, registered, handler, main, keyboard>>

ClosePage ==
  /\ main = Resting /\ page # Closed
  /\ page' = Closed /\ keyboard' = None
  /\ UNCHANGED <<library, events, registered, handler, main>>

OpenPasswordKeyboard(s) ==
  /\ main = Resting /\ page.listed /\ keyboard = None
  /\ keyboard' = s
  /\ UNCHANGED <<library, events, registered, handler, main, page>>

(* An empty password only lets the keyboard go.                            *)
PasswordTyped(p) ==
  /\ main = Resting /\ keyboard # None
  /\ p = None \/ <<keyboard, p>> \in Typed
  /\ IF p = None
     THEN keyboard' = None /\ UNCHANGED main
     ELSE main' = [at |-> "flag", pair |-> <<keyboard, p>>, user |-> TRUE] /\ UNCHANGED keyboard
  /\ UNCHANGED <<library, events, registered, handler, page>>

-------------------------------------------------------------------------------
(* The event task: WiFiEvent                                               *)

StatusAfter(e) ==
  CASE e.kind = "joined"           -> "idle"
    [] e.kind = "address"          -> "up"
    [] e.kind = "refused"          -> "failed"
    [] e.kind \in {"lost", "left"} -> "lost"
    [] e.kind = "scanned"          -> status

(* The library tries a lost network again before it calls back.            *)
LinkAfter(e) ==
  IF e.kind \in {"lost", "refused"} /\ auto /\ link = "none" THEN "trying" ELSE link

(* Mutant: no matter whether the user asked for it.                        *)
StoreAnyCredentials ==
  /\ saved' = attempt /\ attempt' = NoPair /\ flag' = FALSE

StoreCredentials ==
  IF flag
  THEN saved' = attempt /\ attempt' = NoPair /\ flag' = FALSE
  ELSE UNCHANGED <<saved, attempt, flag>>

(* mStatusUpdate->notify: the page is told if it has a handler.            *)
Notify(text) == page' = IF page.hears THEN [page EXCEPT !.text = text] ELSE page

UpdateStatus ==
  /\ connected' = (status' = "up")
  /\ Notify(IF status' = "up" THEN "connected" ELSE "failed")

(* WiFi.disconnect() in a callback that finds the attempt failed.          *)
GiveUpIfFailed(l) ==
  IF status' = "failed"
  THEN link' = "none" /\ events' = Tail(events) \o Left(l)
  ELSE link' = l /\ events' = Tail(events)

HandleStation ==
  /\ events # << >>
  /\ LET e == Head(events) IN
       /\ e.kind # "scanned"
       /\ status' = StatusAfter(e)
       /\ IF e.kind = "joined" THEN StoreCredentials /\ auto' = TRUE
                               ELSE UNCHANGED <<saved, attempt, flag, auto>>
       /\ UpdateStatus
       /\ GiveUpIfFailed(LinkAfter(e))
  /\ UNCHANGED <<config, scanning, registered, main, keyboard>>

(* Each registration adds the networks to the page, and asks a station     *)
(* that is not connected to try again, which ends the attempt before.      *)
Listed == IF page = Closed THEN page ELSE [page EXCEPT !.text = "scan", !.listed = TRUE]

NoneFound == IF page = Closed THEN page ELSE [page EXCEPT !.text = "scan"]

Reconnects == status # "up" /\ config # NoPair

HandleScanDone ==
  /\ events # << >> /\ Head(events).kind = "scanned"
  /\ page' \in {Listed, NoneFound}
  /\ IF Reconnects
     THEN /\ link' = IF status = "failed" THEN "none" ELSE "trying"
          /\ events' = Tail(events) \o Left(link)
                       \o (IF status = "failed" \/ registered > 1 THEN Left("trying") ELSE << >>)
     ELSE UNCHANGED link /\ events' = Tail(events)
  /\ UNCHANGED <<config, auto, scanning, status, registered, handler, main, keyboard>>

-------------------------------------------------------------------------------
(* The library                                                             *)

Room == Len(events) <= MaxEvents

Happens(l, e) ==
  /\ Room
  /\ link' = l
  /\ events' = Append(events, e)
  /\ UNCHANGED <<config, auto, scanning, status, registered, handler, main, ui>>

Join    == /\ link = "trying" /\ config \in Good /\ main.at # "text"
           /\ Happens("joined", Event("joined", config))
Address == link = "joined" /\ Happens("addressed", Event("address", config))
Refuse  == /\ link = "trying" /\ main.at # "text"
           /\ \E k \in {"refused", "lost"} : Happens("none", Event(k, NoPair))
Lose    == link \in {"joined", "addressed"} /\ Happens("none", Event("lost", NoPair))

ScanDone ==
  /\ scanning /\ Room
  /\ scanning' = FALSE
  /\ events' = Append(events, Event("scanned", NoPair))
  /\ UNCHANGED <<link, config, auto, status, registered, handler, main, ui>>

(* Mutant: the radio comes back without an attempt.                        *)
LightSleepWithout ==
  /\ main = Resting /\ Room
  /\ link' = "none" /\ scanning' = FALSE
  /\ events' = Append(events, Event("left", NoPair))
  /\ registered' = IF registered < Many THEN registered + 1 ELSE Many
  /\ UNCHANGED <<config, auto, status, handler, main, ui>>

(* A light sleep: the radio goes off, and the wake-up calls begin.         *)
LightSleep ==
  /\ main = Resting /\ Room
  /\ link' = "none" /\ scanning' = FALSE
  /\ events' = Append(events, Event("left", NoPair))
  /\ registered' = IF registered < Many THEN registered + 1 ELSE Many
  /\ main' = Begun(saved)
  /\ UNCHANGED <<config, auto, status, handler, ui>>

Started ==
  /\ link' = "none" /\ config' = NoPair /\ auto' = TRUE /\ scanning' = FALSE /\ status' = "lost"
  /\ events' = << >> /\ registered' = 1
  /\ flag' = FALSE /\ attempt' = NoPair /\ connected' = FALSE
  /\ main' = Begun(saved')
  /\ page' = Closed /\ keyboard' = None

Restart == UNCHANGED saved /\ Started

(* The password is written before the name: the power may fail between.    *)
PowerLossWhileStoring ==
  /\ events # << >> /\ Head(events).kind = "joined" /\ flag
  /\ saved' = [saved EXCEPT ![2] = attempt[2]]
  /\ Started

-------------------------------------------------------------------------------

MainLoop == \/ saveCredentialsOnConnect \/ ConnectPassword \/ ConnectSsid \/ ConnectBegin
            \/ StartHandlingStatusUpdates

User == \/ OpenPage \/ ClosePage
        \/ \E s \in Ssids : OpenPasswordKeyboard(s)
        \/ \E p \in Passwords \cup {None} : PasswordTyped(p)

WiFiEvent == HandleStation \/ HandleScanDone

Library == Join \/ Address \/ Refuse \/ Lose \/ ScanDone

Next == \/ MainLoop \/ User \/ WiFiEvent \/ Library
        \/ LightSleep \/ Restart \/ PowerLossWhileStoring

Spec == Init /\ [][Next]_vars

(* Both tasks run; an attempt ends; one that is made again and again with  *)
(* the right pair succeeds and gets an address.                            *)
Fairness ==
  /\ WF_vars(MainLoop) /\ WF_vars(WiFiEvent)
  /\ WF_vars(Join \/ Refuse) /\ SF_vars(Join) /\ SF_vars(Address)

FairSpec == Spec /\ Fairness

-------------------------------------------------------------------------------
(* Properties                                                              *)

(* What the rest of the program is told of the connection is what the      *)
(* library says, after any order of events, scans and sleeps (57, 64, 89). *)
StatusFollows == connected <=> status = "up"

(* The stored pair changes only into one that has just been let in, however*)
(* many attempts have failed and whatever sleeps and scans came between -  *)
(* except when the event of an earlier attempt is handled while connect is *)
(* under way or after it, or the power fails between the two writes        *)
(* (103-120).                                                              *)
Overtaken == main.at \in {"password", "ssid", "begin"} \/ Head(events).with # config

SavedVerified ==
  [][saved' # saved => saved' \in Good \/ Overtaken \/ PowerLossWhileStoring]_vars

(* A page that says "Connected to" is right (WifiSettings.cpp 61-69).      *)
PageTruthful == page.text = "connected" => connected

(* A page that says "Attempting Connection" while the station is being let *)
(* in does not keep saying so (WifiSettings.cpp 44-48, 61-69).             *)
OutcomeShown ==
  (page.text = "attempting" /\ page.hears /\ link = "joined") ~> page.text # "attempting"

(* A remote that is left alone where its network answers, with a pair      *)
(* stored that works, is connected again and again after its light sleeps, *)
(* although a failed attempt or a scan has ended the library's own retries *)
(* (122-149, HardwareRevX.cpp 387).          *)
ComesBack ==
  ([]<><<LightSleep>>_vars /\ <>[](saved \in Good) /\ <>[][~(User \/ Restart \/ Refuse \/ Lose)]_vars)
    => []<>connected

(* What is said of the connection is true, on the page too, and only a     *)
(* pair that let the remote in is stored, however events, attempts, scans  *)
(* and sleeps are interleaved.                                             *)
StationTruthful == [](StationTypeOK /\ StatusFollows /\ PageTruthful) /\ SavedVerified

(* Nothing waits for ever: a page for the outcome of its attempt, and the  *)
(* remote for its network.                                                 *)
StationRecovers == OutcomeShown /\ ComesBack
================================================================================
