---------------------------------- MODULE Mqtt ----------------------------------
(***************************************************************************)
(* The MQTT side of the Wi-Fi handler                                      *)
(* (lib/esp32HalImpl/wifiHandler/wifihandler.cpp 172-348): labels on a     *)
(* page are bound to topics, and one client, looked after by the main      *)
(* loop, keeps them up to date.                                            *)
(*                                                                         *)
(* The broker and the TCP connection are external.  A session is what the  *)
(* broker has; it may end without the client's knowledge, and then takes   *)
(* its subscriptions with it.  The broker keeps the last message of a      *)
(* topic and sends it to whoever subscribes.  The messages of a topic      *)
(* arrive in order.  A message has all the fields the labels ask for.      *)
(*                                                                         *)
(* Everything but the broker runs in the main loop's task, one action at a *)
(* time.  The time since the last attempt is counted in units of which     *)
(* Retry make a minute.                                                    *)
(*                                                                         *)
(* Definitions introduced by "Mutant" are plausible mistakes in the one    *)
(* that follows them; no action uses them.                                 *)
(***************************************************************************)
EXTENDS Naturals, Sequences, FiniteSets

CONSTANTS
  Labels,    (* the ids given to labels bound to a topic                   *)
  Topics,
  Values,    (* what a message of a topic says                             *)
  Brokers,   (* addresses                                                  *)
  Accounts,  (* user, password and client id                               *)
  Good,      (* the pairs of both with which a connection succeeds         *)
  Default,   (* the settings the members start with                        *)
  Nothing,   (* no topic, no text, no file                                 *)
  Retry,     (* MQTT_RETRY                                                 *)
  MaxInbox   (* bound: messages of a topic on their way                    *)

ASSUME MqttAssumption ==
  /\ Good \subseteq Brokers \X Accounts
  /\ Default \in Brokers \X Accounts
  /\ Nothing \notin Topics \cup Values \cup Brokers \cup (Brokers \X Accounts)
  /\ IsFiniteSet(Labels)
  /\ Retry \in Nat
  /\ MaxInbox \in Nat \ {0}

VARIABLES
  wifi,           (* WiFi.isConnected()                                    *)
  bound,          (* Subscriptions: the topic of each label                *)
  text,           (* what the label shows                                  *)
  client,         (* mMqttClient.connected()                               *)
  session,        (* the broker has a session with the client              *)
  subs,           (* the subscriptions in it                               *)
  inbox,          (* messages on their way to the client                   *)
  current,        (* the last message of each topic                        *)
  elapsed,        (* millis() - mOldTime                                   *)
  force,          (* mForceReconnect                                       *)
  saveOnConnect,  (* mMqttSaveOnConnect                                    *)
  enabled,        (* mMqttEnabled                                          *)
  broker,         (* mMqttBroker                                           *)
  account,        (* mMqttUser, mMqttPassword, mMqttClientName             *)
  server,         (* what the pointer kept by setServer points to          *)
  file,           (* MQTT_CONFIG_FILE                                      *)
  preference      (* "enabled" of MqttSettings in the preferences          *)

labels   == <<bound, text>>
link     == <<client, session, subs, inbox>>
settings == <<enabled, broker, account, server, preference>>
vars     == <<wifi, labels, link, current, elapsed, force, saveOnConnect, settings, file>>

MqttTypeOK ==
  /\ wifi \in BOOLEAN
  /\ bound \in [Labels -> Topics \cup {Nothing}]
  /\ text \in [Labels -> Values \cup {Nothing}]
  /\ client \in BOOLEAN
  /\ session \in BOOLEAN
  /\ subs \in SUBSET Topics
  /\ inbox \in [Topics -> Seq(Values)]
  /\ current \in [Topics -> Values]
  /\ elapsed \in 0..(Retry + 1)
  /\ force \in BOOLEAN
  /\ saveOnConnect \in BOOLEAN
  /\ enabled \in BOOLEAN
  /\ broker \in Brokers
  /\ account \in Accounts
  /\ server \in Brokers \cup {Nothing}
  /\ file \in (Brokers \X Accounts) \cup {Nothing}
  /\ preference \in BOOLEAN

Bound(t) == {l \in Labels : bound[l] = t}

NoMessages == [t \in Topics |-> << >>]

(* The members after a start: mqttRestoreCredentials returns before it     *)
(* reads the preference when there is no file.                             *)
Settings(f) == IF f = Nothing THEN Default ELSE f

Started ==
  /\ bound' = [l \in Labels |-> Nothing]
  /\ text' = [l \in Labels |-> Nothing]
  /\ wifi' = FALSE
  /\ client' = FALSE /\ session' = FALSE /\ subs' = {} /\ inbox' = NoMessages
  /\ elapsed' = Retry
  /\ force' = FALSE
  /\ saveOnConnect' = FALSE
  /\ broker' = Settings(file)[1] /\ server' = Settings(file)[1]
  /\ account' = Settings(file)[2]

Init ==
  /\ bound = [l \in Labels |-> Nothing]
  /\ text = [l \in Labels |-> Nothing]
  /\ wifi = FALSE
  /\ client = FALSE /\ session = FALSE /\ subs = {} /\ inbox = NoMessages
  /\ current \in [Topics -> Values]
  /\ elapsed = Retry
  /\ force = FALSE
  /\ saveOnConnect = FALSE
  /\ broker = Default[1] /\ server = Default[1]
  /\ account = Default[2]
  /\ enabled = FALSE /\ preference = FALSE
  /\ file = Nothing

-------------------------------------------------------------------------------
(* Pages                                                                   *)

(* A SUBSCRIBE is sent if the client thinks it is connected, and reaches   *)
(* the broker if it is.                                                    *)
mqttBindTextEvent(l, t) ==
  /\ bound' = [bound EXCEPT ![l] = t]
  /\ IF client /\ session
     THEN /\ subs' = subs \cup {t}
          /\ inbox' = [inbox EXCEPT ![t] = Append(@, current[t])]
     ELSE UNCHANGED <<subs, inbox>>

RegisterText(l) == text' = [text EXCEPT ![l] = Nothing]

DeleteTexts(ls) == text' = [l \in Labels |-> IF l \in ls THEN Nothing ELSE text[l]]

AddLabel(l, t) ==
  /\ bound[l] = Nothing
  /\ Len(inbox[t]) < MaxInbox
  /\ RegisterText(l)
  /\ mqttBindTextEvent(l, t)
  /\ UNCHANGED <<wifi, client, session, current, elapsed, force, saveOnConnect, settings, file>>

(* The topics that lose their last label.                                  *)
Unbound(ls) == {t \in Topics : Bound(t) # {} /\ Bound(t) \subseteq ls}

mqttUnBindTextEvents(ls) ==
  /\ bound' = [l \in Labels |-> IF l \in ls THEN Nothing ELSE bound[l]]
  /\ subs' = IF client THEN subs \ Unbound(ls) ELSE subs

(* A page is closed, and takes its labels with it.                         *)
ClosePage(ls) ==
  /\ ls # {} /\ \A l \in ls : bound[l] # Nothing
  /\ mqttUnBindTextEvents(ls)
  /\ DeleteTexts(ls)
  /\ UNCHANGED <<wifi, client, session, inbox, current, elapsed, force, saveOnConnect, settings,
                 file>>

-------------------------------------------------------------------------------
(* mqttSync, once in each round of the main loop                           *)

(* Mutant: only the first label of the topic is told.                      *)
TextFirst(t, v) ==
  [text EXCEPT ![CHOOSE l \in Labels : Bound(t) # {} => l \in Bound(t)] = v]

TextAfter(t, v) == [l \in Labels |-> IF bound[l] = t THEN v ELSE text[l]]

(* loop() reads a message, and publish_cb shows it.                        *)
Receive(t) ==
  /\ client /\ inbox[t] # << >>
  /\ text' = TextAfter(t, Head(inbox[t]))
  /\ inbox' = [inbox EXCEPT ![t] = Tail(@)]
  /\ UNCHANGED <<wifi, bound, client, session, subs, current, elapsed, force, saveOnConnect,
                 settings, file>>

(* loop() finds the connection gone, or it was known to be.                *)
NotConnected == ~client \/ ~session

(* Mutant: the time since the last attempt is not looked at.               *)
DueForced == force /\ wifi /\ enabled

Due == (elapsed > Retry \/ force) /\ wifi /\ enabled

Notice ==
  /\ client /\ ~session /\ ~Due
  /\ client' = FALSE
  /\ inbox' = NoMessages
  /\ UNCHANGED <<wifi, labels, session, subs, current, elapsed, force, saveOnConnect, settings,
                 file>>

Attempted == Due /\ NotConnected /\ force' = FALSE /\ elapsed' = 0

ConnectFails ==
  /\ Attempted
  /\ client' = FALSE
  /\ inbox' = NoMessages
  /\ UNCHANGED <<wifi, labels, session, subs, current, saveOnConnect, settings, file>>

(* The topics asked for when a connection has been made.                   *)
Subscribed == {t \in Topics : Bound(t) # {}}

(* The file may not be written.                                            *)
mqttSaveCredentials ==
  \/ file' = <<broker, account>> /\ saveOnConnect' = FALSE
  \/ UNCHANGED <<file, saveOnConnect>>

(* One SUBSCRIBE per label, so one message per label.                      *)
ConnectSucceeds ==
  /\ Attempted
  /\ <<server, account>> \in Good
  /\ client' = TRUE /\ session' = TRUE
  /\ subs' = Subscribed
  /\ inbox' = [t \in Topics |-> IF t \in Subscribed
                                THEN [i \in 1..Cardinality(Bound(t)) |-> current[t]] ELSE << >>]
  /\ IF saveOnConnect THEN mqttSaveCredentials ELSE UNCHANGED <<file, saveOnConnect>>
  /\ UNCHANGED <<wifi, labels, current, settings>>

-------------------------------------------------------------------------------
(* The MQTT Settings page                                                  *)

(* The string may be overwritten where it is, or be freed, with whatever   *)
(* is left behind the pointer of the client.                               *)
mqttSetBroker(b) ==
  /\ broker' = b
  /\ server' \in {server, b, Nothing}
  /\ UNCHANGED <<wifi, labels, link, current, elapsed, force, saveOnConnect, enabled, account,
                 preference, file>>

SetAccount(a) ==
  /\ account' = a
  /\ UNCHANGED <<wifi, labels, link, current, elapsed, force, saveOnConnect, enabled, broker,
                 server, preference, file>>

enableMqtt(b) ==
  /\ enabled' = b
  /\ preference' = b
  /\ UNCHANGED <<wifi, labels, link, current, elapsed, force, saveOnConnect, broker, account,
                 server, file>>

setupMqttBroker ==
  /\ client' = FALSE /\ session' = FALSE /\ subs' = {} /\ inbox' = NoMessages
  /\ server' = broker
  /\ elapsed' = Retry

(* The "Connect/Save" button.                                              *)
Reconnect ==
  /\ saveOnConnect' = TRUE
  /\ setupMqttBroker
  /\ UNCHANGED <<wifi, labels, current, force, enabled, broker, account, preference, file>>

-------------------------------------------------------------------------------
(* The world                                                               *)

Publish(t, v) ==
  /\ Len(inbox[t]) < MaxInbox
  /\ current' = [current EXCEPT ![t] = v]
  /\ inbox' = IF t \in subs THEN [inbox EXCEPT ![t] = Append(@, v)] ELSE inbox
  /\ UNCHANGED <<wifi, labels, client, session, subs, elapsed, force, saveOnConnect, settings,
                 file>>

Tick ==
  /\ elapsed <= Retry
  /\ elapsed' = elapsed + 1
  /\ UNCHANGED <<wifi, labels, link, current, force, saveOnConnect, settings, file>>

SessionEnds == session' = FALSE /\ subs' = {}

Drop ==
  /\ session
  /\ SessionEnds
  /\ UNCHANGED <<wifi, labels, client, inbox, current, elapsed, force, saveOnConnect, settings,
                 file>>

WifiUp ==
  /\ ~wifi
  /\ wifi' = TRUE
  /\ UNCHANGED <<labels, link, current, elapsed, force, saveOnConnect, settings, file>>

WifiDown ==
  /\ wifi' = FALSE
  /\ SessionEnds
  /\ UNCHANGED <<labels, client, inbox, current, elapsed, force, saveOnConnect, settings, file>>

(* A light sleep: Wi-Fi is switched off, and lightSleepWakeReint asks for  *)
(* a connection.                                                           *)
LightSleep ==
  /\ wifi' = FALSE
  /\ SessionEnds
  /\ force' = TRUE
  /\ elapsed' \in elapsed..(Retry + 1)
  /\ UNCHANGED <<labels, client, inbox, current, saveOnConnect, settings, file>>

EnabledAfterStart == file # Nothing /\ preference

(* A deep sleep, or a loss of power.                                       *)
Restart ==
  /\ Started
  /\ enabled' = EnabledAfterStart
  /\ UNCHANGED <<current, preference, file>>

-------------------------------------------------------------------------------

Sync == (\E t \in Topics : Receive(t)) \/ Notice \/ ConnectFails \/ ConnectSucceeds

Page == \/ \E l \in Labels, t \in Topics : AddLabel(l, t)
        \/ \E ls \in SUBSET Labels : ClosePage(ls)

SettingsPage == \/ \E b \in Brokers : mqttSetBroker(b)
                \/ \E a \in Accounts : SetAccount(a)
                \/ \E b \in BOOLEAN : enableMqtt(b)
                \/ Reconnect

World == \/ \E t \in Topics, v \in Values : Publish(t, v)
         \/ Tick \/ Drop \/ WifiUp \/ WifiDown \/ LightSleep \/ Restart

Next == Sync \/ Page \/ SettingsPage \/ World

Spec == Init /\ [][Next]_vars

(* The main loop runs, and a connection that is tried again and again is   *)
(* made if the settings are right.                                         *)
FairSpec ==
  /\ Spec
  /\ WF_vars(Tick)
  /\ \A t \in Topics : WF_vars(Receive(t))
  /\ WF_vars(Notice \/ ConnectFails)
  /\ SF_vars(ConnectSucceeds)

-------------------------------------------------------------------------------
(* Properties                                                              *)

(* In a session the broker has been asked for the topics of the labels on  *)
(* the screen, and for no other, however often the page and the connection *)
(* have come and gone (185-205, 282-287).                                  *)
SubscriptionsFollow == session => subs = Subscribed

(* A label that has nothing more to come shows what was last published,    *)
(* also if that was while the client was away (218-232).                   *)
LabelsCurrent ==
  session => \A l \in Labels : bound[l] # Nothing /\ inbox[bound[l]] = << >>
                                  => text[l] = current[bound[l]]

(* The account in the file is one with which a connection has been made    *)
(* (280-281, 313).                                                         *)
SavedAccountWorks == file # Nothing => \E b \in Brokers : <<b, file[2]>> \in Good

(* MQTT that has been switched off is not switched on by a restart         *)
(* (314-320, 343-346).                                                     *)
StaysOff == ~preference => ~enabled

(* However pages, connections, sleeps, restarts and settings follow each   *)
(* other, the broker is asked for what the screen shows, the labels miss   *)
(* nothing, and the settings kept are those that worked.                   *)
MqttSafe ==
  /\ MqttTypeOK
  /\ SubscriptionsFollow /\ LabelsCurrent
  /\ SavedAccountWorks /\ StaysOff

(* While Wi-Fi and the settings are right, MQTT is enabled and nothing     *)
(* happens to the connection, the labels come to show what was last        *)
(* published (262-290).                                                    *)
Disturbed == \/ Reconnect \/ Drop
             \/ \E t \in Topics, v \in Values : Publish(t, v)
             \/ \E l \in Labels, t \in Topics : AddLabel(l, t)

LabelsFollow ==
  (<>[](wifi /\ enabled /\ <<server, account>> \in Good) /\ <>[][~Disturbed]_vars)
    => <>[](\A l \in Labels : bound[l] # Nothing => text[l] = current[bound[l]])
=================================================================================
