-------------------------------- MODULE SimWifi --------------------------------
(***************************************************************************)
(* MQTT in the simulator (wifiHandlerSim.cpp), with the MQTT-C client as   *)
(* the code uses it.  The labels of the pages bind and unbind topics, the  *)
(* settings page connects again, the main loop calls mqttSync, and the     *)
(* broker drops connections.  Every connection is a clean session: what    *)
(* was subscribed to in an earlier one is gone.                            *)
(*                                                                         *)
(* init_mqtt leaves the client a pointer to a struct on its own stack, so  *)
(* each reconnection that MQTT-C starts by itself reads a struct that no   *)
(* longer exists: it may reach any broker, none, or end the program.       *)
(***************************************************************************)
EXTENDS Naturals, Sequences, FiniteSets

CONSTANTS
  Topics,        \* topics that labels listen to
  Labels,        \* ids of observer handles; each label has one of its own
  Brokers,       \* what the settings page can enter: host, port, user, password, id
  DefaultBroker, \* what the class starts with
  NoFile,        \* the settings have never been saved
  CutOff,        \* a file that was emptied and not written in full: it does not parse
  MaxQueued      \* bound: packets that wait for the next mqtt_sync
ASSUME SimAssumption ==
  MaxQueued \in Nat /\ {NoFile, CutOff} \intersect (Brokers \union {DefaultBroker}) = {}

VARIABLES
  settings,       \* mMqttBroker, and the port, user, password and id entered with it
  mMqttSaveOnConnect,
  mMqttConnected,
  configFile,     \* MQTT_CONFIG_FILE
  failed,         \* history: the last save of this run was not written in full
  Subscriptions,  \* the multimap, as a set of pairs <<topic, label>>
  client,         \* mMqttClient: [set up, in error, connection lost, queue of packets]
  session,        \* topics the broker sends on this connection
  heard,          \* history: labels whose SUBSCRIBE was taken on this connection
  text,           \* what each label shows: the topic it came from
  alive           \* the program runs

simVars == <<settings, mMqttSaveOnConnect, mMqttConnected, configFile, failed, Subscriptions,
             client, session, heard, text, alive>>

TopicsOf(bound) == {s[1] : s \in bound}

(***************************************************************************)
(* MQTT-C: a packet is taken only by a client that is in no error; the     *)
(* queue goes out in its order when the client is synchronised.            *)
(***************************************************************************)
NewClient == [ready |-> FALSE, error |-> TRUE, lost |-> FALSE, queue |-> << >>]

Queued(c, packet) == IF c.error THEN c ELSE [c EXCEPT !.queue = Append(@, packet)]

Wanted(packets, t) == {k \in DOMAIN packets : packets[k] = <<"subscribe", t>>}
GivenUp(packets, t) == {k \in DOMAIN packets : packets[k] = <<"unsubscribe", t>>}

\* the broker takes the packets in their order: the last word on a topic counts
Taken(topics, packets) ==
  {t \in Topics : \/ t \in topics /\ GivenUp(packets, t) = {}
                  \/ \E k \in Wanted(packets, t) : \A j \in GivenUp(packets, t) : j < k}

AfterQueue == Taken(session, client.queue)

(***************************************************************************)
(* mqttSaveCredentials does not look at what WriteDocumentToFile returns:  *)
(* the settings are written, or the file is not opened and stays as it     *)
(* was, or it is emptied and not written in full.  The wish to save is     *)
(* dropped each time.                                                      *)
(***************************************************************************)
mqttSaveCredentials(s) ==
  LET Saved(file, bad) == [s EXCEPT !.file = file, !.failed = bad, !.save = FALSE]
  IN IF s.save THEN {Saved(s.settings, FALSE), Saved(s.file, TRUE), Saved(CutOff, TRUE)} ELSE {s}

(***************************************************************************)
(* reconnect_mqtt_cb with a socket: a clean session, the packet CONNECT in *)
(* an empty queue, and, before the broker has answered, the settings       *)
(* saved.  Without a socket it returns, leaving the client in its error.   *)
(***************************************************************************)
reconnect_mqtt_cb(s, opens) ==
  IF opens
  THEN mqttSaveCredentials(
         [s EXCEPT !.client = [ready |-> TRUE, error |-> FALSE, lost |-> FALSE,
                               queue |-> <<<<"connect">>>>],
                   !.session = {}, !.heard = {}, !.connected = TRUE])
  ELSE {[s EXCEPT !.client = [NewClient EXCEPT !.ready = s.client.ready]]}

(***************************************************************************)
(* mqtt_sync: a client in error calls the callback first, with the struct  *)
(* that is gone; otherwise the queue goes out, or the loss shows.          *)
(***************************************************************************)
mqtt_sync(s) ==
  IF s.client.error
  THEN IF s.client.ready
       THEN {[s EXCEPT !.alive = FALSE]} \union UNION {reconnect_mqtt_cb(s, o) : o \in BOOLEAN}
       ELSE {s}
  ELSE IF s.client.lost
       THEN {[s EXCEPT !.client.error = TRUE, !.session = {}]}
       ELSE {[s EXCEPT !.session = Taken(s.session, s.client.queue),
                       !.client.queue = << >>]}

\* stop_mqtt says DISCONNECT and sends it
stop_mqtt(s) ==
  mqtt_sync([s EXCEPT !.connected = FALSE, !.client = Queued(@, <<"disconnect">>)])

\* init_mqtt starts over with a new client, whose callback it calls itself
init_mqtt(s) ==
  IF s.alive
  THEN UNION {reconnect_mqtt_cb([s EXCEPT !.client = [NewClient EXCEPT !.ready = TRUE]], o)
                : o \in BOOLEAN}
  ELSE {s}

setupMqttBroker(s) == UNION {init_mqtt(t) : t \in stop_mqtt(s)}

Now(wanted, save) ==
  [settings |-> wanted, save |-> save, connected |-> mMqttConnected, file |-> configFile,
   failed |-> failed, client |-> client, session |-> session, heard |-> heard, alive |-> TRUE]

Becomes(s) ==
  /\ settings' = s.settings /\ mMqttSaveOnConnect' = s.save /\ mMqttConnected' = s.connected
  /\ configFile' = s.file /\ failed' = s.failed /\ client' = s.client
  /\ session' = s.session /\ heard' = s.heard /\ alive' = s.alive

(***************************************************************************)
(* begin: restoreCredentials takes what the file has, if it can be opened  *)
(* and parses, then the broker is connected to.  (The switch "enabled" is  *)
(* saved with the settings; this class never asks it, so it is left out.)  *)
(***************************************************************************)
restoreCredentials(file) ==
  IF file \in {NoFile, CutOff} THEN DefaultBroker ELSE file

SimStart(file) ==
  [settings |-> restoreCredentials(file), save |-> FALSE, connected |-> FALSE, file |-> file,
   failed |-> FALSE, client |-> NewClient, session |-> {}, heard |-> {}, alive |-> TRUE]

SimInit ==
  \E s \in setupMqttBroker(SimStart(NoFile)) :
    /\ settings = s.settings /\ mMqttSaveOnConnect = s.save /\ mMqttConnected = s.connected
    /\ configFile = s.file /\ failed = s.failed /\ client = s.client
    /\ session = s.session /\ heard = s.heard /\ alive = s.alive
    /\ Subscriptions = {} /\ text = [l \in Labels |-> "initial"]

\* the program is ended, or has ended itself, and is started again
begin ==
  /\ \E s \in setupMqttBroker(SimStart(configFile)) : Becomes(s)
  /\ Subscriptions' = {} /\ text' = [l \in Labels |-> "initial"]

Restless == UNCHANGED <<Subscriptions, text>>

\* the button Connect of the MQTT page: all fields, the wish to keep them, the connection
ConnectButton(b) ==
  /\ alive
  /\ \E s \in setupMqttBroker(Now(b, TRUE)) : Becomes(s)
  /\ Restless

(***************************************************************************)
(* The labels.  A label that is bound while there is no connection is not  *)
(* subscribed to later; the last label of a topic ends the subscription.   *)
(***************************************************************************)
QueueRoom == Len(client.queue) < MaxQueued

mqttBindTextEvent(label, topic) ==
  /\ alive /\ QueueRoom /\ label \notin {s[2] : s \in Subscriptions}
  /\ client' = IF mMqttConnected THEN Queued(client, <<"subscribe", topic>>) ELSE client
  /\ heard' = IF mMqttConnected /\ ~client.error THEN heard \union {label} ELSE heard
  /\ Subscriptions' = Subscriptions \union {<<topic, label>>}
  /\ UNCHANGED <<settings, mMqttSaveOnConnect, mMqttConnected, configFile, failed, session, text,
                 alive>>

\* a plausible slip: the entry is erased before the entries of its topic are counted
ErasedFirst(label) ==
  /\ alive /\ QueueRoom
  /\ \E s \in Subscriptions :
       /\ s[2] = label
       /\ client' = IF Cardinality({r \in Subscriptions \ {s} : r[1] = s[1]}) = 1
                    THEN Queued(client, <<"unsubscribe", s[1]>>) ELSE client
       /\ Subscriptions' = Subscriptions \ {s}
  /\ heard' = heard \ {label} /\ text' = [text EXCEPT ![label] = "initial"]
  /\ UNCHANGED <<settings, mMqttSaveOnConnect, mMqttConnected, configFile, failed, session, alive>>

mqttUnBindTextEvent(label) ==
  /\ alive /\ QueueRoom
  /\ \E s \in Subscriptions :
       /\ s[2] = label
       /\ client' = IF Cardinality({r \in Subscriptions : r[1] = s[1]}) = 1
                    THEN Queued(client, <<"unsubscribe", s[1]>>) ELSE client
       /\ Subscriptions' = Subscriptions \ {s}
  /\ heard' = heard \ {label} /\ text' = [text EXCEPT ![label] = "initial"]
  /\ UNCHANGED <<settings, mMqttSaveOnConnect, mMqttConnected, configFile, failed, session, alive>>

\* the main loop, while a connection was set up
mqttSync ==
  /\ alive /\ mMqttConnected
  /\ \E s \in mqtt_sync(Now(settings, mMqttSaveOnConnect)) : Becomes(s)
  /\ Restless

(***************************************************************************)
(* publish_cb, called from mqtt_sync: what does not parse is dropped, a    *)
(* field that is no text ends the program, a text is set in every label    *)
(* that listens to the topic.                                              *)
(***************************************************************************)
publish_cb(topic, payload) ==
  /\ alive /\ mMqttConnected /\ ~client.error /\ ~client.lost /\ topic \in session
  /\ CASE payload = "text" ->
            /\ text' = [l \in Labels |-> IF <<topic, l>> \in Subscriptions THEN topic ELSE text[l]]
            /\ UNCHANGED alive
       [] payload = "number" /\ topic \in TopicsOf(Subscriptions) ->
            alive' = FALSE /\ UNCHANGED text
       [] OTHER -> UNCHANGED <<alive, text>>
  /\ UNCHANGED <<settings, mMqttSaveOnConnect, mMqttConnected, configFile, failed, Subscriptions,
                 client, session, heard>>

\* the broker refuses the CONNECT or the connection breaks; the next mqtt_sync finds out
BreakOff ==
  /\ alive /\ ~client.error /\ ~client.lost
  /\ client' = [client EXCEPT !.lost = TRUE]
  /\ UNCHANGED <<settings, mMqttSaveOnConnect, mMqttConnected, configFile, failed, Subscriptions,
                 session, heard, text, alive>>

SimNext ==
  \/ begin \/ mqttSync \/ BreakOff
  \/ \E b \in Brokers : ConnectButton(b)
  \/ \E l \in Labels : (\E t \in Topics : mqttBindTextEvent(l, t)) \/ mqttUnBindTextEvent(l)
  \/ \E t \in Topics, p \in {"text", "number", "no json"} : publish_cb(t, p)

SimSpec == SimInit /\ [][SimNext]_simVars

(***************************************************************************)
(* Properties                                                              *)
(***************************************************************************)
\* types of the variables of wifiHandlerSim
Settings == Brokers \union {DefaultBroker}

SimTypeOK ==
  /\ settings \in Settings /\ configFile \in Settings \union {NoFile, CutOff}
  /\ mMqttSaveOnConnect \in BOOLEAN /\ mMqttConnected \in BOOLEAN /\ alive \in BOOLEAN
  /\ failed \in BOOLEAN /\ Subscriptions \subseteq Topics \X Labels /\ session \subseteq Topics
  /\ heard \subseteq Labels /\ text \in [Labels -> Topics \union {"initial"}]
  /\ client.ready \in BOOLEAN /\ client.error \in BOOLEAN /\ client.lost \in BOOLEAN
  /\ Len(client.queue) <= MaxQueued + 1

\* While a connection lasts, once the queued packets are out the broker sends exactly what is
\* wanted: each topic that a label asked for on this connection and still listens to, and no
\* topic without a label (mqttBindTextEvent and mqttUnBindTextEvent share one multimap, and two
\* labels may listen to one topic).
SessionFollowsLabels ==
  alive /\ mMqttConnected /\ ~client.error =>
    /\ TopicsOf({s \in Subscriptions : s[2] \in heard}) \subseteq AfterQueue
    /\ AfterQueue \subseteq TopicsOf(Subscriptions)

\* When there is nothing left to save, starting the program again gives the broker that was
\* entered last, unless the last save of this run was not written in full: after that the
\* program, which has dropped its wish to save, comes back with an earlier broker.
EnteredBrokerKept ==
  alive /\ ~mMqttSaveOnConnect /\ ~failed => restoreCredentials(configFile) = settings

\* Over lost connections, reconnections through a dead pointer, writes that fail, and
\* restarts, the broker sends what the labels listen to, and the settings kept are the ones
\* entered.
SimFollows == SimTypeOK /\ SessionFollowsLabels /\ EnteredBrokerKept
================================================================================
