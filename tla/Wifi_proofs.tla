------------------------------ MODULE Wifi_proofs ------------------------------
(***************************************************************************)
(* Theorems about the connections.  MQTT in the simulator, for any topics, *)
(* labels and brokers: over reconnections through a dead pointer, the      *)
(* broker sends what the labels listen to, and settings are kept.  The     *)
(* station, for any networks and passwords: what is said of the connection *)
(* is true, and a pair that is stored was let in.  The services, for any   *)
(* accounts and servers: they keep what their pages were closed with.      *)
(***************************************************************************)
EXTENDS WifiStation, WifiServices, SimWifi, SequenceTheorems, FiniteSetTheorems, TLAPS

Packets == {<<"connect">>, <<"disconnect">>} \cup ({"subscribe", "unsubscribe"} \X Topics)
Links   == [ready : BOOLEAN, error : BOOLEAN, lost : BOOLEAN, queue : Seq(Packets)]

(* The members that a function called on the way takes and gives back.     *)
Members == [settings : Settings, save : BOOLEAN, connected : BOOLEAN,
            file : Settings \cup {NoFile, CutOff}, failed : BOOLEAN, client : Links, session : SUBSET Topics,
            heard : SUBSET Labels, alive : BOOLEAN]

SimTypes ==
  /\ settings \in Settings /\ configFile \in Settings \cup {NoFile, CutOff}
  /\ failed \in BOOLEAN
  /\ mMqttSaveOnConnect \in BOOLEAN /\ mMqttConnected \in BOOLEAN /\ alive \in BOOLEAN
  /\ Subscriptions \in SUBSET (Topics \X Labels) /\ IsFiniteSet(Subscriptions)
  /\ session \in SUBSET Topics /\ heard \in SUBSET Labels
  /\ text \in [Labels -> Topics \cup {"initial"}]
  /\ client \in Links /\ Len(client.queue) <= MaxQueued + 1

SimInv == SimTypes /\ SessionFollowsLabels /\ EnteredBrokerKept

-------------------------------------------------------------------------------
(* What the broker makes of a queue with one more packet.                  *)
LEMMA TakenAppend ==
  ASSUME NEW topics \in SUBSET Topics, NEW q \in Seq(Packets), NEW p \in Packets
  PROVE  /\ Append(q, p) \in Seq(Packets) /\ Len(Append(q, p)) = Len(q) + 1
         /\ \A t \in Topics : p = <<"subscribe", t>> => Taken(topics, Append(q, p)) = Taken(topics, q) \cup {t}
         /\ \A t \in Topics : p = <<"unsubscribe", t>> => Taken(topics, Append(q, p)) = Taken(topics, q) \ {t}
<1> DEFINE r == Append(q, p)
           n == Len(q)
<1>1. /\ r \in Seq(Packets) /\ Len(r) = n + 1 /\ n \in Nat
      /\ DOMAIN q = 1..n /\ DOMAIN r = 1..(n + 1)
      /\ \A k \in 1..n : r[k] = q[k]
      /\ r[n + 1] = p
  BY AppendProperties, LenProperties
<1> HIDE DEF r, n
<1>2. ASSUME NEW t \in Topics
      PROVE  /\ Wanted(r, t) = Wanted(q, t) \cup (IF p = <<"subscribe", t>> THEN {n + 1} ELSE {})
             /\ GivenUp(r, t) = GivenUp(q, t) \cup (IF p = <<"unsubscribe", t>> THEN {n + 1} ELSE {})
             /\ \A k \in Wanted(q, t) \cup GivenUp(q, t) : k \in Nat /\ k < n + 1
  <2>1. \A k \in DOMAIN r : k \in DOMAIN q \/ k = n + 1
    BY <1>1
  <2>2. n + 1 \notin DOMAIN q /\ n + 1 \in DOMAIN r /\ DOMAIN q \subseteq DOMAIN r
    BY <1>1
  <2>3. Wanted(r, t) = Wanted(q, t) \cup (IF p = <<"subscribe", t>> THEN {n + 1} ELSE {})
    BY <1>1, <2>1, <2>2 DEF Wanted
  <2>4. GivenUp(r, t) = GivenUp(q, t) \cup (IF p = <<"unsubscribe", t>> THEN {n + 1} ELSE {})
    BY <1>1, <2>1, <2>2 DEF GivenUp
  <2>5. \A k \in Wanted(q, t) \cup GivenUp(q, t) : k \in Nat /\ k < n + 1
    BY <1>1 DEF Wanted, GivenUp
  <2> QED
    BY <2>3, <2>4, <2>5
<1>3. ASSUME NEW t \in Topics, p = <<"subscribe", t>>
      PROVE  Taken(topics, r) = Taken(topics, q) \cup {t}
  <2>1. \A u \in Topics : u # t => p # <<"subscribe", u>> /\ p # <<"unsubscribe", u>>
    BY <1>3
  <2>2. p # <<"unsubscribe", t>>
    BY <1>3
  <2>3. t \in Taken(topics, r)
    BY <1>1, <1>2, <1>3, <2>2 DEF Taken
  <2>4. \A u \in Topics : u # t => (u \in Taken(topics, r) <=> u \in Taken(topics, q))
    BY <1>2, <2>1 DEF Taken
  <2>5. Taken(topics, r) \subseteq Topics /\ Taken(topics, q) \subseteq Topics
    BY DEF Taken
  <2> QED
    BY <2>3, <2>4, <2>5
<1>4. ASSUME NEW t \in Topics, p = <<"unsubscribe", t>>
      PROVE  Taken(topics, r) = Taken(topics, q) \ {t}
  <2>1. \A u \in Topics : u # t => p # <<"subscribe", u>> /\ p # <<"unsubscribe", u>>
    BY <1>4
  <2>2. p # <<"subscribe", t>>
    BY <1>4
  <2>3. t \notin Taken(topics, r)
    BY <1>1, <1>2, <1>4, <2>2 DEF Taken
  <2>4. \A u \in Topics : u # t => (u \in Taken(topics, r) <=> u \in Taken(topics, q))
    BY <1>2, <2>1 DEF Taken
  <2>5. Taken(topics, r) \subseteq Topics /\ Taken(topics, q) \subseteq Topics
    BY DEF Taken
  <2> QED
    BY <2>3, <2>4, <2>5
<1> QED
  BY <1>1, <1>3, <1>4 DEF r, n

(* An empty queue, and the one a connection begins with.                   *)
LEMMA TakenAtFirst ==
  ASSUME NEW topics \in SUBSET Topics
  PROVE  /\ << >> \in Seq(Packets) /\ Len(<< >>) = 0 /\ Taken(topics, << >>) = topics
         /\ <<<<"connect">>>> \in Seq(Packets) /\ Len(<<<<"connect">>>>) = 1
         /\ Taken(topics, <<<<"connect">>>>) = topics
<1>1. << >> \in Seq(Packets) /\ Len(<< >>) = 0 /\ DOMAIN << >> = {}
  OBVIOUS
<1>2. \A t \in Topics : Wanted(<< >>, t) = {} /\ GivenUp(<< >>, t) = {}
  BY <1>1 DEF Wanted, GivenUp
<1>3. Taken(topics, << >>) = topics
  BY <1>2 DEF Taken
<1> DEFINE q == <<<<"connect">>>>
<1>4. q \in Seq(Packets) /\ Len(q) = 1 /\ DOMAIN q = {1} /\ q[1] = <<"connect">>
  BY DEF Packets
<1>5. \A t \in Topics : <<"connect">> # <<"subscribe", t>> /\ <<"connect">> # <<"unsubscribe", t>>
  OBVIOUS
<1> HIDE DEF q
<1>6. \A t \in Topics : Wanted(q, t) = {} /\ GivenUp(q, t) = {}
  BY <1>4, <1>5 DEF Wanted, GivenUp
<1>7. Taken(topics, q) = topics
  BY <1>6 DEF Taken
<1> QED
  BY <1>1, <1>3, <1>4, <1>7 DEF q
-------------------------------------------------------------------------------
(* What becomes of the settings and of the session on a way through the    *)
(* functions.                                                              *)
Keeps(s, r) ==
  /\ r.settings = s.settings
  /\ \/ r.save = s.save /\ r.file = s.file /\ r.failed = s.failed
     \/ ~r.save /\ (r.failed \/ r.file = r.settings)

Anew(r) == r.heard = {} /\ Taken(r.session, r.client.queue) = {}

LEMMA KeepsTwice ==
  ASSUME NEW s \in Members, NEW r \in Members, NEW t \in Members, Keeps(s, r), Keeps(r, t)
  PROVE  Keeps(s, t)
BY DEF Keeps, Members

LEMMA ClientsToBegin ==
  /\ NewClient \in Links /\ NewClient.error /\ Len(NewClient.queue) = 0
  /\ \A b \in BOOLEAN : LET c == [NewClient EXCEPT !.ready = b]
                        IN c \in Links /\ c.error /\ Len(c.queue) = 0
  /\ LET c == [ready |-> TRUE, error |-> FALSE, lost |-> FALSE, queue |-> <<<<"connect">>>>]
     IN c \in Links /\ Len(c.queue) = 1 /\ Taken({}, c.queue) = {}
<1>1. << >> \in Seq(Packets) /\ Len(<< >>) = 0 /\ <<<<"connect">>>> \in Seq(Packets)
      /\ Len(<<<<"connect">>>>) = 1 /\ Taken({}, <<<<"connect">>>>) = {}
  BY TakenAtFirst
<1>2. NewClient \in Links /\ NewClient.error /\ NewClient.queue = << >>
  BY <1>1 DEF NewClient, Links
<1>3. ASSUME NEW b \in BOOLEAN
      PROVE  LET c == [NewClient EXCEPT !.ready = b] IN c \in Links /\ c.error /\ c.queue = << >>
  BY <1>2 DEF Links
<1>4. LET c == [ready |-> TRUE, error |-> FALSE, lost |-> FALSE, queue |-> <<<<"connect">>>>]
      IN c \in Links /\ c.queue = <<<<"connect">>>>
  BY <1>1 DEF Links
<1> QED
  BY <1>1, <1>2, <1>3, <1>4

(* A save that is tried drops the wish, however it ends.                   *)
LEMMA SaveKeeps ==
  ASSUME NEW s \in Members, NEW r \in mqttSaveCredentials(s)
  PROVE  /\ r \in Members /\ Keeps(s, r) /\ r.alive = s.alive /\ r.client = s.client
         /\ r.heard = s.heard /\ r.session = s.session
<1>1. CASE ~s.save
  <2>1. r = s
    BY <1>1 DEF mqttSaveCredentials
  <2> QED
    BY <2>1 DEF Keeps
<1>2. CASE s.save
  <2>1. PICK file \in Settings \cup {NoFile, CutOff}, bad \in BOOLEAN :
          /\ r = [s EXCEPT !.file = file, !.failed = bad, !.save = FALSE]
          /\ bad \/ file = s.settings
    BY <1>2 DEF mqttSaveCredentials, Members
  <2> QED
    BY <2>1 DEF Members, Keeps
<1> QED
  BY <1>1, <1>2 DEF Members

LEMMA ReconnectKeeps ==
  ASSUME NEW s \in Members, NEW opens \in BOOLEAN, NEW r \in reconnect_mqtt_cb(s, opens)
  PROVE  /\ r \in Members /\ Keeps(s, r) /\ r.alive = s.alive
         /\ r.client.error \/ Anew(r)
         /\ \A n \in Nat : Len(r.client.queue) <= n + 1
<1>1. CASE opens
  <2> DEFINE c == [ready |-> TRUE, error |-> FALSE, lost |-> FALSE, queue |-> <<<<"connect">>>>]
             u == [s EXCEPT !.client = c, !.session = {}, !.heard = {}, !.connected = TRUE]
  <2>1. c \in Links /\ Len(c.queue) = 1 /\ Taken({}, c.queue) = {}
    BY ClientsToBegin
  <2>2. r \in mqttSaveCredentials(u)
    BY <1>1 DEF reconnect_mqtt_cb
  <2> HIDE DEF c
  <2>3. /\ u \in Members /\ Keeps(s, u) /\ u.client = c /\ u.session = {} /\ u.heard = {}
        /\ u.alive = s.alive
    BY <2>1 DEF Members, Keeps
  <2> HIDE DEF u
  <2>4. /\ r \in Members /\ Keeps(u, r) /\ r.alive = s.alive /\ r.client = c
        /\ r.heard = {} /\ r.session = {}
    BY <2>2, <2>3, SaveKeeps
  <2>5. Keeps(s, r)
    BY <2>3, <2>4, KeepsTwice
  <2>6. Len(r.client.queue) = 1
    BY <2>1, <2>4
  <2>7. \A n \in Nat : Len(r.client.queue) <= n + 1
    BY <2>6
  <2> QED
    BY <2>1, <2>4, <2>5, <2>7 DEF Anew
<1>2. CASE ~opens
  <2> DEFINE c == [NewClient EXCEPT !.ready = s.client.ready]
  <2>1. s.client.ready \in BOOLEAN
    BY DEF Members, Links
  <2>2. c \in Links /\ c.error /\ Len(c.queue) = 0
    BY <2>1, ClientsToBegin
  <2>3. r = [s EXCEPT !.client = c]
    BY <1>2 DEF reconnect_mqtt_cb
  <2> HIDE DEF c
  <2> QED
    BY <2>2, <2>3 DEF Members, Keeps
<1> QED
  BY <1>1, <1>2

LEMMA Syncs ==
  ASSUME NEW s \in Members, NEW r \in mqtt_sync(s), NEW n \in Nat, Len(s.client.queue) <= n + 1
  PROVE  /\ r \in Members /\ Keeps(s, r) /\ Len(r.client.queue) <= n + 1
         /\ s.alive /\ ~r.alive => s.client.error /\ r.client = s.client
         /\ \/ ~r.alive \/ r.client.error \/ Anew(r)
            \/ /\ r.heard = s.heard /\ r.connected = s.connected /\ ~s.client.error
               /\ Taken(r.session, r.client.queue) = Taken(s.session, s.client.queue)
<1>1. CASE r = [s EXCEPT !.alive = FALSE] /\ s.client.error
  BY <1>1 DEF Members, Keeps
<1>2. CASE \E o \in BOOLEAN : r \in reconnect_mqtt_cb(s, o)
  BY <1>2, ReconnectKeeps
<1>3. CASE r = s /\ s.client.error
  BY <1>3 DEF Keeps
<1>4. CASE r = [s EXCEPT !.client.error = TRUE, !.session = {}]
  <2> DEFINE c == [s.client EXCEPT !.error = TRUE]
  <2>1. c \in Links /\ c.error /\ c.queue = s.client.queue
    BY DEF Members, Links
  <2>2. r = [s EXCEPT !.client = c, !.session = {}]
    BY <1>4 DEF Members
  <2> HIDE DEF c
  <2> QED
    BY <2>1, <2>2 DEF Members, Keeps
<1>5. CASE /\ ~s.client.error
           /\ r = [s EXCEPT !.session = Taken(s.session, s.client.queue), !.client.queue = << >>]
  <2> DEFINE c == [s.client EXCEPT !.queue = << >>]
             t == Taken(s.session, s.client.queue)
  <2>1. t \in SUBSET Topics
    BY DEF Taken
  <2>2. << >> \in Seq(Packets) /\ Len(<< >>) = 0 /\ Taken(t, << >>) = t
    BY <2>1, TakenAtFirst
  <2>3. c \in Links /\ c.error = s.client.error /\ c.queue = << >>
    BY <2>2 DEF Members, Links
  <2>4. r = [s EXCEPT !.client = c, !.session = t]
    BY <1>5 DEF Members
  <2> HIDE DEF c, t
  <2>5. /\ r \in Members /\ r.client = c /\ r.session = t /\ r.heard = s.heard
        /\ r.connected = s.connected /\ Keeps(s, r)
    BY <2>1, <2>3, <2>4 DEF Members, Keeps
  <2> QED
    BY <1>5, <2>2, <2>3, <2>5 DEF t
<1> QED
  BY <1>1, <1>2, <1>3, <1>4, <1>5 DEF mqtt_sync

(* The way of the settings page and of the start: all outcomes begin a new *)
(* session, or have none.                                                  *)
LEMMA SetupBegins ==
  ASSUME NEW s \in Members, s.alive, NEW r \in setupMqttBroker(s),
         NEW n \in Nat, Len(s.client.queue) <= n + 1
  PROVE  /\ r \in Members /\ Keeps(s, r) /\ Len(r.client.queue) <= n + 1
         /\ ~r.alive \/ r.client.error \/ Anew(r)
<1> DEFINE q == Queued(s.client, <<"disconnect">>)
           d == [s EXCEPT !.connected = FALSE, !.client = Queued(@, <<"disconnect">>)]
<1>1. s.client \in Links /\ <<"disconnect">> \in Packets
  BY DEF Members, Packets
<1>2. /\ q \in Links /\ Len(q.queue) <= (n + 1) + 1 /\ q.error = s.client.error
      /\ s.client.error => q = s.client
  <2>1. CASE s.client.error
    <3>1. q = s.client
      BY <2>1 DEF Queued
    <3>2. s.client.queue \in Seq(Packets)
      BY <1>1 DEF Links
    <3>3. Len(s.client.queue) \in Nat
      BY <3>2, LenProperties
    <3>4. Len(s.client.queue) <= (n + 1) + 1
      BY <3>3
    <3> QED
      BY <1>1, <3>1, <3>4
  <2>2. CASE ~s.client.error
    <3>1. q = [s.client EXCEPT !.queue = Append(s.client.queue, <<"disconnect">>)]
      BY <2>2 DEF Queued
    <3>2. /\ s.client.queue \in Seq(Packets) /\ Append(s.client.queue, <<"disconnect">>) \in Seq(Packets)
          /\ Len(Append(s.client.queue, <<"disconnect">>)) = Len(s.client.queue) + 1
          /\ Len(s.client.queue) \in Nat
      BY <1>1, AppendProperties, LenProperties DEF Links
    <3>3. q \in Links /\ q.queue = Append(s.client.queue, <<"disconnect">>) /\ q.error = s.client.error
      BY <1>1, <3>1, <3>2 DEF Links
    <3>4. Len(s.client.queue) + 1 <= (n + 1) + 1
      BY <3>2
    <3> HIDE DEF q
    <3> QED
      BY <2>2, <3>2, <3>3, <3>4
  <2> QED
    BY <2>1, <2>2
<1>3. d \in Members /\ d.client = q /\ Keeps(s, d) /\ d.alive
  <2>1. d = [s EXCEPT !.connected = FALSE, !.client = q]
    OBVIOUS
  <2> HIDE DEF q, d
  <2> QED
    BY <1>2, <2>1 DEF Members, Keeps
<1>4. PICK t \in mqtt_sync(d) : r \in init_mqtt(t)
  BY DEF setupMqttBroker, stop_mqtt
<1> HIDE DEF q, d
<1>5. t \in Members /\ Keeps(d, t) /\ (~t.alive => d.client.error /\ t.client = d.client)
  <2>1. n + 1 \in Nat
    OBVIOUS
  <2> QED
    BY <1>2, <1>3, <1>4, <2>1, Syncs
<1>6. CASE ~t.alive
  <2>1. r = t
    BY <1>4, <1>6 DEF init_mqtt
  <2>2. r.client = s.client
    BY <1>2, <1>3, <1>5, <1>6, <2>1
  <2> QED
    BY <1>3, <1>5, <1>6, <2>1, <2>2, KeepsTwice
<1>7. CASE t.alive
  <2> DEFINE c == [NewClient EXCEPT !.ready = TRUE]
             u == [t EXCEPT !.client = c]
  <2>1. c \in Links
    BY ClientsToBegin
  <2>2. PICK o \in BOOLEAN : r \in reconnect_mqtt_cb(u, o)
    BY <1>4, <1>7 DEF init_mqtt
  <2> HIDE DEF c
  <2>3. u \in Members /\ Keeps(t, u)
    BY <1>5, <2>1 DEF Members, Keeps
  <2> HIDE DEF u
  <2>4. /\ r \in Members /\ Keeps(u, r) /\ (r.client.error \/ Anew(r)) /\ Len(r.client.queue) <= n + 1
    BY <2>2, <2>3, ReconnectKeeps
  <2>5. Keeps(s, r)
    BY <1>3, <1>5, <2>3, <2>4, KeepsTwice
  <2> QED
    BY <2>4, <2>5
<1> QED
  BY <1>6, <1>7 DEF Members

-------------------------------------------------------------------------------
(* The steps.                                                              *)
Follows ==
  /\ TopicsOf({s \in Subscriptions : s[2] \in heard}) \subseteq AfterQueue
  /\ AfterQueue \subseteq TopicsOf(Subscriptions)

LEMMA BecomesPreserves ==
  ASSUME SimAssumption, NEW t \in Members, NEW s \in Members, Keeps(t, s), Becomes(s),
         ~t.save /\ ~t.failed => restoreCredentials(t.file) = t.settings,
         Len(s.client.queue) <= MaxQueued + 1,
         ~s.alive \/ s.client.error \/ Anew(s) \/ Follows',
         Subscriptions' \in SUBSET (Topics \X Labels), IsFiniteSet(Subscriptions'),
         text' \in [Labels -> Topics \cup {"initial"}]
  PROVE  SimInv'
<1>1. /\ settings' = s.settings /\ mMqttSaveOnConnect' = s.save /\ mMqttConnected' = s.connected
      /\ configFile' = s.file /\ failed' = s.failed /\ client' = s.client
      /\ session' = s.session /\ heard' = s.heard /\ alive' = s.alive
  BY DEF Becomes
<1>2. SimTypes'
  BY <1>1 DEF SimTypes, Members
<1>3. EnteredBrokerKept'
  <2>1. ASSUME ~s.save, ~s.failed PROVE restoreCredentials(s.file) = s.settings
    <3>1. CASE s.file = s.settings
      <4>1. s.file \in Settings
        BY <3>1 DEF Members
      <4> QED
        BY <3>1, <4>1 DEF restoreCredentials, SimAssumption, Settings
    <3>2. CASE s.save = t.save /\ s.file = t.file /\ s.failed = t.failed
      BY <2>1, <3>2 DEF Keeps
    <3> QED
      BY <2>1, <3>1, <3>2 DEF Keeps
  <2> QED
    BY <1>1, <2>1 DEF EnteredBrokerKept
<1>4. SessionFollowsLabels'
  <2>1. CASE Anew(s)
    <3>1. heard' = {} /\ AfterQueue' = {}
      BY <1>1, <2>1 DEF Anew, AfterQueue
    <3> QED
      BY <3>1 DEF SessionFollowsLabels, TopicsOf
  <2>2. CASE ~s.alive \/ s.client.error
    BY <1>1, <2>2 DEF SessionFollowsLabels
  <2>3. CASE Follows'
    BY <2>3 DEF SessionFollowsLabels, Follows
  <2> QED
    BY <2>1, <2>2, <2>3
<1> QED
  BY <1>2, <1>3, <1>4 DEF SimInv

LEMMA NowIsMember ==
  ASSUME SimInv, NEW w \in Settings, NEW save \in BOOLEAN
  PROVE  Now(w, save) \in Members
BY DEF Now, Members, SimInv, SimTypes

LEMMA StartIsMember ==
  ASSUME SimAssumption, NEW file \in Settings \cup {NoFile, CutOff}
  PROVE  /\ SimStart(file) \in Members /\ restoreCredentials(file) = SimStart(file).settings
         /\ SimStart(file).file = file /\ Len(SimStart(file).client.queue) = 0 /\ SimStart(file).alive
<1>1. restoreCredentials(file) \in Settings
  BY DEF restoreCredentials, Settings
<1>2. NewClient \in Links /\ Len(NewClient.queue) = 0
  BY ClientsToBegin
<1> HIDE DEF NewClient
<1> QED
  BY <1>1, <1>2 DEF SimStart, Members

LEMMA BeginPreserves == ASSUME SimAssumption, SimInv, begin PROVE SimInv'
<1> DEFINE t == SimStart(configFile)
<1>1. PICK s \in setupMqttBroker(t) : Becomes(s)
  BY DEF begin
<1>2. t \in Members /\ restoreCredentials(t.file) = t.settings /\ Len(t.client.queue) = 0 /\ t.alive
  BY StartIsMember DEF SimInv, SimTypes
<1> HIDE DEF t
<1>3. s \in Members /\ Keeps(t, s) /\ Len(s.client.queue) <= 0 + 1
      /\ (~s.alive \/ s.client.error \/ Anew(s))
  <2>1. 0 \in Nat /\ Len(t.client.queue) <= 0 + 1
    BY <1>2
  <2> QED
    BY <1>1, <1>2, <2>1, SetupBegins
<1>4. s.client.queue \in Seq(Packets) /\ MaxQueued \in Nat
  BY <1>3 DEF Members, Links, SimAssumption
<1>5. Len(s.client.queue) <= MaxQueued + 1
  BY <1>3, <1>4, LenProperties
<1>6. /\ Subscriptions' \in SUBSET (Topics \X Labels) /\ IsFiniteSet(Subscriptions')
      /\ text' \in [Labels -> Topics \cup {"initial"}]
  BY FS_EmptySet DEF begin
<1> QED
  BY <1>1, <1>2, <1>3, <1>5, <1>6, BecomesPreserves

LEMMA ConnectButtonPreserves ==
  ASSUME SimAssumption, SimInv, NEW b \in Brokers, ConnectButton(b) PROVE SimInv'
<1> DEFINE t == Now(b, TRUE)
<1>1. PICK s \in setupMqttBroker(t) : Becomes(s)
  BY DEF ConnectButton
<1>2. t \in Members /\ t.save /\ t.client = client /\ t.alive
  BY NowIsMember DEF Now, Settings
<1>3. Len(client.queue) <= MaxQueued + 1 /\ MaxQueued \in Nat
  BY DEF SimInv, SimTypes, SimAssumption
<1> HIDE DEF t
<1>4. s \in Members /\ Keeps(t, s) /\ Len(s.client.queue) <= MaxQueued + 1
      /\ (~s.alive \/ s.client.error \/ Anew(s))
  BY <1>1, <1>2, <1>3, SetupBegins
<1>5. UNCHANGED <<Subscriptions, text>>
  BY DEF ConnectButton, Restless
<1> QED
  BY <1>1, <1>2, <1>4, <1>5, BecomesPreserves DEF SimInv, SimTypes

LEMMA SyncPreserves == ASSUME SimAssumption, SimInv, mqttSync PROVE SimInv'
<1> DEFINE t == Now(settings, mMqttSaveOnConnect)
<1>1. PICK s \in mqtt_sync(t) : Becomes(s)
  BY DEF mqttSync
<1>2. /\ t \in Members /\ t.client = client /\ t.heard = heard /\ t.session = session
      /\ t.connected = mMqttConnected /\ t.alive
      /\ ~t.save /\ ~t.failed => restoreCredentials(t.file) = t.settings
  BY NowIsMember DEF Now, SimInv, SimTypes, EnteredBrokerKept, mqttSync
<1>3. Len(client.queue) <= MaxQueued + 1 /\ MaxQueued \in Nat
  BY DEF SimInv, SimTypes, SimAssumption
<1>4. UNCHANGED <<Subscriptions, text>> /\ alive /\ mMqttConnected
  BY DEF mqttSync, Restless
<1> HIDE DEF t
<1>5. /\ s \in Members /\ Keeps(t, s) /\ Len(s.client.queue) <= MaxQueued + 1
      /\ \/ ~s.alive \/ s.client.error \/ Anew(s)
         \/ /\ s.heard = t.heard /\ s.connected = t.connected /\ ~t.client.error
            /\ Taken(s.session, s.client.queue) = Taken(t.session, t.client.queue)
  BY <1>1, <1>2, <1>3, Syncs
<1>6. ~s.alive \/ s.client.error \/ Anew(s) \/ Follows'
  <2> SUFFICES ASSUME s.heard = t.heard, ~t.client.error,
                      Taken(s.session, s.client.queue) = Taken(t.session, t.client.queue)
               PROVE  Follows'
    BY <1>5
  <2>1. Follows
    BY <1>2, <1>4 DEF SimInv, SessionFollowsLabels, Follows
  <2>2. heard' = heard /\ AfterQueue' = AfterQueue
    BY <1>1, <1>2 DEF Becomes, AfterQueue
  <2> QED
    BY <1>4, <2>1, <2>2 DEF Follows, TopicsOf
<1> QED
  BY <1>1, <1>2, <1>4, <1>5, <1>6, BecomesPreserves DEF SimInv, SimTypes

LEMMA OneMorePair ==
  ASSUME SimInv, NEW l \in Labels, NEW t \in Topics
  PROVE  /\ IsFiniteSet(Subscriptions \cup {<<t, l>>})
         /\ Subscriptions \cup {<<t, l>>} \in SUBSET (Topics \X Labels)
         /\ TopicsOf(Subscriptions \cup {<<t, l>>}) = TopicsOf(Subscriptions) \cup {t}
<1>1. IsFiniteSet(Subscriptions) /\ Subscriptions \in SUBSET (Topics \X Labels)
  BY DEF SimInv, SimTypes
<1>2. IsFiniteSet(Subscriptions \cup {<<t, l>>})
  BY <1>1, FS_AddElement
<1>3. Subscriptions \cup {<<t, l>>} \in SUBSET (Topics \X Labels)
  BY <1>1
<1>4. TopicsOf(Subscriptions \cup {<<t, l>>}) = TopicsOf(Subscriptions) \cup {<<t, l>>[1]}
  BY DEF TopicsOf
<1> QED
  BY <1>2, <1>3, <1>4

LEMMA BindPreserves ==
  ASSUME SimAssumption, SimInv, NEW l \in Labels, NEW t \in Topics, mqttBindTextEvent(l, t)
  PROVE  SimInv'
<1> USE DEF SimInv
<1> DEFINE p == <<"subscribe", t>>
<1>1. /\ client' = IF mMqttConnected THEN Queued(client, p) ELSE client
      /\ heard' = IF mMqttConnected /\ ~client.error THEN heard \cup {l} ELSE heard
      /\ Subscriptions' = Subscriptions \cup {<<t, l>>}
      /\ UNCHANGED <<settings, mMqttSaveOnConnect, mMqttConnected, configFile, failed, session, text, alive>>
      /\ Len(client.queue) < MaxQueued
  BY DEF mqttBindTextEvent, QueueRoom
<1>2. /\ client \in Links /\ client.queue \in Seq(Packets) /\ p \in Packets /\ session \in SUBSET Topics
      /\ MaxQueued \in Nat /\ Len(client.queue) \in Nat
  BY LenProperties DEF SimTypes, Links, Packets, SimAssumption
<1> DEFINE q == Append(client.queue, p)
<1>3. q \in Seq(Packets) /\ Len(q) = Len(client.queue) + 1 /\ Taken(session, q) = Taken(session, client.queue) \cup {t}
  BY <1>2, TakenAppend
<1>4. CASE mMqttConnected /\ ~client.error
  <2>1. client' = [client EXCEPT !.queue = q] /\ heard' = heard \cup {l}
    BY <1>1, <1>4 DEF Queued
  <2> HIDE DEF q, p
  <2>2. client' \in Links /\ client'.queue = q /\ client'.error = client.error
    BY <1>2, <1>3, <2>1 DEF Links
  <2>3. SimTypes'
    <3>1. Len(client'.queue) <= MaxQueued + 1
      BY <1>1, <1>2, <1>3, <2>2
    <3>2. IsFiniteSet(Subscriptions') /\ Subscriptions' \in SUBSET (Topics \X Labels)
      BY <1>1, OneMorePair
    <3> QED
      BY <1>1, <2>1, <2>2, <3>1, <3>2 DEF SimTypes
  <2>4. SessionFollowsLabels'
    <3>1. alive => Follows
      BY <1>4 DEF SessionFollowsLabels, Follows
    <3>2. AfterQueue' = AfterQueue \cup {t}
      BY <1>1, <1>3, <2>2 DEF AfterQueue
    <3>3. TopicsOf(Subscriptions)' = TopicsOf(Subscriptions) \cup {t}
      <4>1. TopicsOf(Subscriptions)' = TopicsOf(Subscriptions')
        BY DEF TopicsOf
      <4> QED
        BY <1>1, <4>1, OneMorePair
    <3>4. ASSUME NEW s \in Subscriptions', s[2] \in heard' PROVE s[1] = t \/ (s \in Subscriptions /\ s[2] \in heard)
                                                              \/ (s \in Subscriptions /\ s[2] = l)
      BY <1>1, <2>1, <3>4
    <3>5. \A s \in Subscriptions : s[2] # l
      BY DEF mqttBindTextEvent
    <3> QED
      BY <1>1, <3>1, <3>2, <3>3, <3>4, <3>5 DEF SessionFollowsLabels, Follows, TopicsOf
  <2> QED
    BY <1>1, <2>3, <2>4 DEF EnteredBrokerKept
<1>5. CASE ~(mMqttConnected /\ ~client.error)
  <2>1. client' = client /\ heard' = heard
    BY <1>1, <1>5 DEF Queued
  <2>2. IsFiniteSet(Subscriptions') /\ Subscriptions' \in SUBSET (Topics \X Labels)
    BY <1>1, OneMorePair
  <2> QED
    BY <1>1, <1>5, <2>1, <2>2 DEF SimTypes, SessionFollowsLabels, EnteredBrokerKept
<1> QED
  BY <1>4, <1>5

LEMMA UnBindPreserves ==
  ASSUME SimAssumption, SimInv, NEW l \in Labels, mqttUnBindTextEvent(l)
  PROVE  SimInv'
<1> USE DEF SimInv
<1>1. PICK s \in Subscriptions :
        /\ s[2] = l
        /\ client' = IF Cardinality({r \in Subscriptions : r[1] = s[1]}) = 1
                     THEN Queued(client, <<"unsubscribe", s[1]>>) ELSE client
        /\ Subscriptions' = Subscriptions \ {s}
  BY DEF mqttUnBindTextEvent
<1> DEFINE t == s[1]
           p == <<"unsubscribe", t>>
           alone == Cardinality({r \in Subscriptions : r[1] = t}) = 1
           q == Append(client.queue, p)
<1>2. /\ heard' = heard \ {l} /\ text' = [text EXCEPT ![l] = "initial"]
      /\ UNCHANGED <<settings, mMqttSaveOnConnect, mMqttConnected, configFile, failed, session, alive>>
      /\ Len(client.queue) < MaxQueued
  BY DEF mqttUnBindTextEvent, QueueRoom
<1>3. /\ client \in Links /\ client.queue \in Seq(Packets) /\ p \in Packets /\ session \in SUBSET Topics
      /\ MaxQueued \in Nat /\ Len(client.queue) \in Nat /\ t \in Topics
  BY LenProperties DEF SimTypes, Links, Packets, SimAssumption
<1>4. q \in Seq(Packets) /\ Len(q) = Len(client.queue) + 1 /\ Taken(session, q) = Taken(session, client.queue) \ {t}
  BY <1>3, TakenAppend
<1>5. alone <=> \A r \in Subscriptions : r[1] = t => r = s
  <2> DEFINE others == {r \in Subscriptions : r[1] = t}
  <2>1. IsFiniteSet(others) /\ s \in others
    BY FS_Subset DEF SimTypes
  <2>2. Cardinality(others) = 1 <=> \E x : others = {x}
    BY <2>1, FS_Singleton
  <2> QED
    BY <2>1, <2>2
<1>6. /\ client' \in Links /\ client'.error = client.error
      /\ client'.queue = IF alone /\ ~client.error THEN q ELSE client.queue
  <2>1. CASE alone /\ ~client.error
    <3>1. client' = [client EXCEPT !.queue = q]
      BY <1>1, <2>1 DEF Queued
    <3> HIDE DEF q, p, t
    <3> QED
      BY <1>3, <1>4, <2>1, <3>1 DEF Links
  <2>2. CASE ~(alone /\ ~client.error)
    <3>1. client' = client
      BY <1>1, <2>2 DEF Queued
    <3> QED
      BY <1>3, <2>2, <3>1
  <2> QED
    BY <2>1, <2>2
<1> HIDE DEF q, alone
<1>7. SimTypes'
  <2>1. Len(client'.queue) <= MaxQueued + 1
    BY <1>2, <1>3, <1>4, <1>6
  <2>2. IsFiniteSet(Subscriptions') /\ Subscriptions' \in SUBSET (Topics \X Labels)
    BY <1>1, FS_RemoveElement DEF SimTypes
  <2>3. text' \in [Labels -> Topics \cup {"initial"}]
    BY <1>2 DEF SimTypes
  <2> QED
    BY <1>2, <1>6, <2>1, <2>2, <2>3 DEF SimTypes
<1>8. SessionFollowsLabels'
  <2> SUFFICES ASSUME alive, mMqttConnected, ~client.error PROVE Follows'
    BY <1>2, <1>6 DEF SessionFollowsLabels, Follows
  <2>1. Follows
    BY DEF SessionFollowsLabels, Follows
  <2>2. AfterQueue' = IF alone THEN AfterQueue \ {t} ELSE AfterQueue
    BY <1>2, <1>4, <1>6 DEF AfterQueue
  <2>3. TopicsOf(Subscriptions)' = IF alone THEN TopicsOf(Subscriptions) \ {t} ELSE TopicsOf(Subscriptions)
    BY <1>1, <1>5 DEF TopicsOf
  <2>4. ASSUME NEW r \in Subscriptions', r[2] \in heard'
        PROVE  r \in Subscriptions /\ r[2] \in heard /\ (alone => r[1] # t)
    BY <1>1, <1>2, <1>5, <2>4
  <2> QED
    BY <2>1, <2>2, <2>3, <2>4 DEF Follows, TopicsOf
<1> QED
  BY <1>2, <1>7, <1>8 DEF EnteredBrokerKept

LEMMA PublishedPreserves ==
  ASSUME SimInv, NEW t \in Topics, NEW p, publish_cb(t, p)
  PROVE  SimInv'
<1>1. /\ UNCHANGED <<settings, mMqttSaveOnConnect, mMqttConnected, configFile, failed, Subscriptions,
                     client, session, heard>>
      /\ alive' = alive \/ alive' = FALSE
      /\ text' = text \/ text' = [l \in Labels |-> IF <<t, l>> \in Subscriptions THEN t ELSE text[l]]
  BY DEF publish_cb
<1>2. text' \in [Labels -> Topics \cup {"initial"}]
  BY <1>1 DEF SimInv, SimTypes
<1>3. AfterQueue' = AfterQueue
  BY <1>1 DEF AfterQueue
<1>4. SimTypes'
  <2>1. alive' \in BOOLEAN
    BY <1>1 DEF SimInv, SimTypes
  <2> QED
    BY <1>1, <1>2, <2>1 DEF SimInv, SimTypes
<1>5. alive' => alive
  BY <1>1
<1> QED
  BY <1>1, <1>3, <1>4, <1>5 DEF SimInv, SessionFollowsLabels, EnteredBrokerKept, TopicsOf

LEMMA BreakOffPreserves == ASSUME SimInv, BreakOff PROVE SimInv'
<1>1. client' \in Links /\ client'.queue = client.queue /\ client'.error = client.error
  BY DEF BreakOff, SimInv, SimTypes, Links
<1>2. AfterQueue' = AfterQueue
  BY <1>1 DEF AfterQueue, BreakOff
<1> QED
  BY <1>1, <1>2 DEF BreakOff, SimInv, SimTypes, SessionFollowsLabels, EnteredBrokerKept, TopicsOf

LEMMA SimBegins == SimAssumption /\ SimInit => SimInv
<1> SUFFICES ASSUME SimAssumption, SimInit PROVE SimInv
  OBVIOUS
<1> DEFINE t == SimStart(NoFile)
<1>1. PICK s \in setupMqttBroker(t) :
        /\ settings = s.settings /\ mMqttSaveOnConnect = s.save /\ mMqttConnected = s.connected
        /\ configFile = s.file /\ failed = s.failed /\ client = s.client
        /\ session = s.session /\ heard = s.heard /\ alive = s.alive
        /\ Subscriptions = {} /\ text = [l \in Labels |-> "initial"]
  BY DEF SimInit
<1>2. t \in Members /\ restoreCredentials(t.file) = t.settings /\ Len(t.client.queue) = 0 /\ t.alive /\ ~t.save
  BY StartIsMember DEF SimStart
<1> HIDE DEF t
<1>3. s \in Members /\ Keeps(t, s) /\ Len(s.client.queue) <= 0 + 1
      /\ (~s.alive \/ s.client.error \/ Anew(s))
  <2>1. 0 \in Nat /\ Len(t.client.queue) <= 0 + 1
    BY <1>2
  <2> QED
    BY <1>1, <1>2, <2>1, SetupBegins
<1>4. s.client.queue \in Seq(Packets) /\ MaxQueued \in Nat
  BY <1>3 DEF Members, Links, SimAssumption
<1>5. Len(s.client.queue) <= MaxQueued + 1
  BY <1>3, <1>4, LenProperties
<1>6. SimTypes
  BY <1>1, <1>3, <1>5, FS_EmptySet DEF SimTypes, Members
<1>7. EnteredBrokerKept
  <2>1. settings = s.settings /\ failed = s.failed /\ configFile = s.file
    BY <1>1
  <2>2. s.file = s.settings /\ s.settings \in Settings => restoreCredentials(s.file) = s.settings
    BY DEF restoreCredentials, SimAssumption, Settings
  <2>3. s.settings = t.settings /\ (s.file = t.file \/ s.failed \/ s.file = s.settings)
    BY <1>3 DEF Keeps
  <2>4. s.failed \/ restoreCredentials(s.file) = s.settings
    BY <1>2, <1>3, <2>2, <2>3 DEF Members
  <2> QED
    BY <2>1, <2>4 DEF EnteredBrokerKept
<1>8. SessionFollowsLabels
  BY <1>1, <1>3 DEF SessionFollowsLabels, Anew, AfterQueue, TopicsOf
<1> QED
  BY <1>6, <1>7, <1>8 DEF SimInv

(* Over lost connections, reconnections through a dead pointer, writes     *)
(* that fail, and restarts, the broker sends what the labels listen to,    *)
(* and the settings kept are the ones entered, unless the last save was    *)
(* not written in full (wifiHandlerSim.cpp).                               *)
THEOREM SimulatorFollows == SimSpec => []SimFollows
<1>1. SimInv => SimFollows
  BY DEF SimInv, SimTypes, SimFollows, SimTypeOK, Links
<1>2. SimAssumption /\ SimInv /\ [SimNext]_simVars => SimInv'
  <2> SUFFICES ASSUME SimAssumption, SimInv, [SimNext]_simVars PROVE SimInv'
    OBVIOUS
  <2>1. CASE SimNext
    BY <2>1, BeginPreserves, SyncPreserves, BreakOffPreserves, ConnectButtonPreserves, BindPreserves,
       UnBindPreserves, PublishedPreserves DEF SimNext
  <2>2. CASE UNCHANGED simVars
    BY <2>2 DEF simVars, SimInv, SimTypes, SessionFollowsLabels, EnteredBrokerKept, AfterQueue, TopicsOf
  <2> QED
    BY <2>1, <2>2
<1> QED
  BY SimAssumption, SimBegins, <1>1, <1>2, PTL DEF SimSpec
-------------------------------------------------------------------------------
(***************************************************************************)
(* The station.                                                            *)
(***************************************************************************)
Events == [kind : {"joined", "address", "refused", "lost", "left", "scanned"}, with : Pairs]

(* Only a network that let the remote in says so.                          *)
JoinedAreGood == \A k \in 1..Len(events) : events[k].kind = "joined" => events[k].with \in Good

(* Outside of connect, the pair that is to be stored is the one the driver *)
(* was told last; in it, there is always a name.                           *)
InConnect == {"password", "ssid", "begin"}
AttemptIsDrivers ==
  /\ flag = TRUE /\ main.at \notin InConnect => attempt = config
  /\ flag = TRUE /\ main.at = "begin" => attempt[1] # None
  /\ main.at \in {"flag", "password", "ssid"} => main.pair[1] # None

PageHasHeard == page.text = "connected" => page.hears = TRUE /\ connected = TRUE

StationInv ==
  /\ StationTypeOK /\ JoinedAreGood /\ AttemptIsDrivers /\ PageHasHeard
  /\ connected = TRUE <=> status = "up"

LEMMA PairFacts ==
  ASSUME WifiAssumption
  PROVE  /\ NoPair \in Pairs /\ Good \subseteq Pairs
         /\ \A p \in Pairs : p[1] \in Ssids \cup {None} /\ p[2] \in Passwords \cup {None}
         /\ \A p, q \in Pairs : [p EXCEPT ![1] = q[1]] \in Pairs /\ [p EXCEPT ![2] = q[2]] \in Pairs
         /\ \A p, q \in Pairs : [p EXCEPT ![1] = q[1]][1] = q[1]
BY DEF WifiAssumption, Pairs, NoPair

LEMMA EventFacts ==
  ASSUME WifiAssumption
  PROVE  /\ \A l : Left(l) \in Seq(Events) /\ \A k \in 1..Len(Left(l)) : Left(l)[k].kind # "joined"
         /\ \A k \in {"joined", "address", "refused", "lost", "left", "scanned"}, p \in Pairs :
              Event(k, p) \in Events /\ Event(k, p).kind = k /\ Event(k, p).with = p
<1>1. \A k \in {"joined", "address", "refused", "lost", "left", "scanned"}, p \in Pairs :
        Event(k, p) \in Events /\ Event(k, p).kind = k /\ Event(k, p).with = p
  BY DEF Event, Events
<1>2. ASSUME NEW l
      PROVE  Left(l) \in Seq(Events) /\ \A k \in 1..Len(Left(l)) : Left(l)[k].kind # "joined"
  <2>1. Event("left", NoPair) \in Events /\ Event("left", NoPair).kind = "left"
    BY <1>1, PairFacts
  <2>2. CASE l = "none"
    BY <2>2 DEF Left
  <2>3. CASE l # "none"
    <3>1. Left(l) = <<Event("left", NoPair)>>
      BY <2>3 DEF Left
    <3>2. Len(Left(l)) = 1 /\ Left(l)[1] = Event("left", NoPair) /\ Left(l) \in Seq(Events)
      BY <2>1, <3>1
    <3> QED  BY <2>1, <3>2
  <2> QED  BY <2>2, <2>3
<1> QED  BY <1>1, <1>2

(* The events that wait, with a further one, without the first, or with    *)
(* those of a connection that is given up.                                 *)
Waiting(es) == es \in Seq(Events) /\ \A k \in 1..Len(es) : es[k].kind = "joined" => es[k].with \in Good

LEMMA WaitingAppend ==
  ASSUME NEW es, Waiting(es), NEW e \in Events, e.kind = "joined" => e.with \in Good
  PROVE  Waiting(Append(es, e))
<1>1. es \in Seq(Events) /\ Len(es) \in Nat
  BY LenProperties DEF Waiting
<1>2. /\ Append(es, e) \in Seq(Events) /\ Len(Append(es, e)) = Len(es) + 1
      /\ \A i \in 1..Len(es) : Append(es, e)[i] = es[i]
      /\ Append(es, e)[Len(es) + 1] = e
  BY <1>1, AppendProperties
<1>3. ASSUME NEW k \in 1..Len(Append(es, e)), Append(es, e)[k].kind = "joined"
      PROVE  Append(es, e)[k].with \in Good
  <2>1. CASE k \in 1..Len(es)
    BY <1>2, <1>3, <2>1 DEF Waiting
  <2>2. CASE k = Len(es) + 1
    BY <1>2, <1>3, <2>2
  <2> QED  BY <1>1, <1>2, <2>1, <2>2
<1> QED  BY <1>2, <1>3 DEF Waiting

LEMMA WaitingTail ==
  ASSUME NEW es, Waiting(es), es # << >>
  PROVE  Waiting(Tail(es)) /\ Head(es) \in Events /\ (Head(es).kind = "joined" => Head(es).with \in Good)
<1>1. es \in Seq(Events) /\ Len(es) \in Nat
  BY LenProperties DEF Waiting
<1>2. /\ Tail(es) \in Seq(Events) /\ Len(Tail(es)) = Len(es) - 1
      /\ \A i \in 1..Len(Tail(es)) : Tail(es)[i] = es[i + 1]
      /\ Head(es) \in Events /\ Head(es) = es[1]
  BY <1>1, HeadTailProperties
<1>3. ASSUME NEW k \in 1..Len(Tail(es)), Tail(es)[k].kind = "joined"  PROVE Tail(es)[k].with \in Good
  <2>1. k + 1 \in 1..Len(es)
    BY <1>1, <1>2
  <2> QED  BY <1>2, <1>3, <2>1 DEF Waiting
<1>4. 1 \in 1..Len(es)
  BY <1>1
<1> QED  BY <1>2, <1>3, <1>4 DEF Waiting

LEMMA WaitingLeft ==
  ASSUME WifiAssumption, NEW es, Waiting(es), NEW l
  PROVE  Waiting(es \o Left(l))
<1>1. es \in Seq(Events) /\ Left(l) \in Seq(Events) /\ Len(es) \in Nat /\ Len(Left(l)) \in Nat
  BY EventFacts, LenProperties DEF Waiting
<1>2. /\ es \o Left(l) \in Seq(Events) /\ Len(es \o Left(l)) = Len(es) + Len(Left(l))
      /\ \A i \in 1..Len(es) : (es \o Left(l))[i] = es[i]
      /\ \A i \in 1..Len(Left(l)) : (es \o Left(l))[Len(es) + i] = Left(l)[i]
  BY <1>1, ConcatProperties, Z3
<1>3. ASSUME NEW k \in 1..Len(es \o Left(l)), (es \o Left(l))[k].kind = "joined"
      PROVE  (es \o Left(l))[k].with \in Good
  <2>1. CASE k \in 1..Len(es)
    BY <1>2, <1>3, <2>1 DEF Waiting
  <2>2. CASE k \notin 1..Len(es)
    <3>1. k - Len(es) \in 1..Len(Left(l)) /\ Len(es) + (k - Len(es)) = k
      BY <1>1, <1>2, <2>2
    <3>2. (es \o Left(l))[k] = Left(l)[k - Len(es)]
      BY <1>2, <3>1
    <3> QED  BY <1>3, <3>1, <3>2, EventFacts
  <2> QED  BY <2>1, <2>2
<1> QED  BY <1>2, <1>3 DEF Waiting

LEMMA WaitingIs == Waiting(events) <=> events \in Seq(Events) /\ JoinedAreGood
BY DEF Waiting, JoinedAreGood

(* What begin leaves behind: connect at its first line, or nothing.        *)
Mains == [at : {"rest", "flag", "password", "ssid", "begin", "text"}, pair : Pairs, user : BOOLEAN]
LEMMA BegunFacts ==
  ASSUME WifiAssumption, NEW p \in Pairs
  PROVE  /\ Begun(p) \in Mains /\ Begun(p).at \in {"rest", "password"}
         /\ Begun(p).at = "password" => Begun(p).pair[1] # None
BY PairFacts DEF Begun, Resting, Mains

LEMMA StationBegins == WifiAssumption /\ Init => StationInv
<1> SUFFICES ASSUME WifiAssumption, Init  PROVE StationInv
  OBVIOUS
<1>1. saved \in Pairs
  <2>1. \A p \in Good : <<p[1], p[2]>> \in Pairs
    BY DEF WifiAssumption, Pairs
  <2> QED  BY <2>1, PairFacts DEF Init
<1>2. main \in Mains /\ main.at \in {"rest", "password"} /\ (main.at = "password" => main.pair[1] # None)
  BY <1>1, BegunFacts DEF Init
<1>3. events \in Seq(Events) /\ JoinedAreGood
  BY DEF Init, JoinedAreGood
<1>4. registered \in 1..Many
  BY DEF Init, WifiAssumption
<1>5. page \in [text : {None, "scan", "attempting", "connected", "failed"}, listed : BOOLEAN, hears : BOOLEAN]
  BY DEF Init, Closed
<1>6. StationTypeOK
  BY <1>1, <1>2, <1>3, <1>4, <1>5, PairFacts DEF StationTypeOK, Init, Events, Mains
<1>7. AttemptIsDrivers
  BY <1>2 DEF AttemptIsDrivers, Init, InConnect
<1>8. PageHasHeard
  <2>1. page.text = "connected" => page.hears = TRUE /\ connected = TRUE
    BY DEF Init, Closed, WifiAssumption
  <2> QED  BY <2>1 DEF PageHasHeard
<1> QED  BY <1>3, <1>6, <1>7, <1>8 DEF StationInv, Init

(* What a step of connect touches: where it is, and one member.            *)
LEMMA ConnectStepKeeps ==
  ASSUME WifiAssumption, StationInv, saveCredentialsOnConnect \/ ConnectPassword \/ ConnectSsid
  PROVE  StationInv'
<1>1. /\ UNCHANGED <<link, config, auto, scanning, status, events, registered, saved, connected, page, keyboard>>
      /\ main \in Mains /\ attempt \in Pairs /\ flag \in BOOLEAN
  BY DEF saveCredentialsOnConnect, ConnectPassword, ConnectSsid, library, ui, StationInv, StationTypeOK, Mains
<1>2. JoinedAreGood' /\ PageHasHeard' /\ (connected' = TRUE <=> status' = "up")
  BY <1>1 DEF StationInv, JoinedAreGood, PageHasHeard
<1>3. ASSUME main' \in Mains, attempt' \in Pairs, flag' \in BOOLEAN, AttemptIsDrivers'
      PROVE  StationInv'
  <2>1. StationTypeOK'
    BY <1>1, <1>3 DEF StationInv, StationTypeOK, Mains
  <2> QED  BY <1>2, <1>3, <2>1 DEF StationInv
<1>4. CASE saveCredentialsOnConnect
  <2>1. /\ main.at = "flag" /\ main' = [main EXCEPT !.at = "password"] /\ flag' = TRUE /\ attempt' = attempt
    BY <1>4 DEF saveCredentialsOnConnect, At
  <2>2. main' \in Mains /\ main'.at = "password" /\ main'.pair = main.pair
    BY <1>1, <2>1 DEF Mains
  <2>3. AttemptIsDrivers'
    BY <2>1, <2>2 DEF StationInv, AttemptIsDrivers, InConnect
  <2> QED  BY <1>1, <1>3, <2>1, <2>2, <2>3
<1>5. CASE ConnectPassword
  <2>1. /\ main.at = "password" /\ main' = [main EXCEPT !.at = "ssid"] /\ flag' = flag
        /\ attempt' = [attempt EXCEPT ![2] = main.pair[2]]
    BY <1>5 DEF ConnectPassword, At
  <2>2. main' \in Mains /\ main'.at = "ssid" /\ main'.pair = main.pair /\ main.pair \in Pairs
    BY <1>1, <2>1 DEF Mains
  <2>3. attempt' \in Pairs
    BY <1>1, <2>1, <2>2, PairFacts
  <2>4. AttemptIsDrivers'
    BY <2>1, <2>2 DEF StationInv, AttemptIsDrivers, InConnect
  <2> QED  BY <1>1, <1>3, <2>1, <2>2, <2>3, <2>4
<1>6. CASE ConnectSsid
  <2>1. /\ main.at = "ssid" /\ main' = [main EXCEPT !.at = "begin", !.pair = NoPair] /\ flag' = flag
        /\ attempt' = [attempt EXCEPT ![1] = main.pair[1]]
    BY <1>6 DEF ConnectSsid
  <2>2. main' \in Mains /\ main'.at = "begin" /\ main.pair \in Pairs
    BY <1>1, <2>1, PairFacts DEF Mains
  <2>3. attempt' \in Pairs /\ attempt'[1] = main.pair[1]
    BY <1>1, <2>1, <2>2, PairFacts
  <2>4. main.pair[1] # None
    BY <2>1 DEF StationInv, AttemptIsDrivers
  <2>5. AttemptIsDrivers'
    BY <2>2, <2>3, <2>4 DEF AttemptIsDrivers, InConnect
  <2> QED  BY <1>1, <1>3, <2>1, <2>2, <2>3, <2>5
<1> QED  BY <1>4, <1>5, <1>6

LEMMA BeginKeeps ==
  ASSUME WifiAssumption, StationInv, ConnectBegin
  PROVE  StationInv'
<1>1. /\ main.at = "begin" /\ main' = (IF main.user THEN [main EXCEPT !.at = "text"] ELSE Resting)
      /\ UNCHANGED <<registered, flag, attempt, saved, connected, page, keyboard, auto, scanning, status>>
  BY DEF ConnectBegin, WiFiBegin, handler, ui
<1>2. main' \in Mains /\ main'.at \in {"text", "rest"}
  BY <1>1, PairFacts DEF StationInv, StationTypeOK, Mains, Resting
<1>3. \/ UNCHANGED <<link, config, events>> /\ (attempt[1] = None \/ attempt = config)
      \/ link' = "trying" /\ config' = attempt /\ events' = events \o Left(link)
  BY DEF ConnectBegin, WiFiBegin
<1>4. Waiting(events')
  <2>1. events \in Seq(Events)
    BY DEF StationInv, StationTypeOK, Events
  <2>2. Waiting(events)
    BY <2>1, WaitingIs DEF StationInv
  <2> QED  BY <1>3, <2>2, WaitingLeft
<1>5. events' \in Seq(Events) /\ JoinedAreGood'
  BY <1>4 DEF Waiting, JoinedAreGood
<1>6. link' \in {"none", "trying", "joined", "addressed"} /\ config' \in Pairs
  BY <1>3 DEF StationInv, StationTypeOK
<1>7. StationTypeOK'
  BY <1>1, <1>2, <1>5, <1>6 DEF StationInv, StationTypeOK, Events, Mains
<1>8. AttemptIsDrivers'
  <2>1. flag = TRUE => attempt = config'
    BY <1>1, <1>3 DEF StationInv, AttemptIsDrivers
  <2> QED  BY <1>1, <1>2, <2>1 DEF AttemptIsDrivers, InConnect
<1>9. PageHasHeard' /\ (connected' = TRUE <=> status' = "up")
  BY <1>1 DEF StationInv, PageHasHeard
<1> QED  BY <1>5, <1>7, <1>8, <1>9 DEF StationInv

Screens == [text : {None, "scan", "attempting", "connected", "failed"}, listed : BOOLEAN, hears : BOOLEAN]

LEMMA UserStepKeeps ==
  ASSUME WifiAssumption, StationInv, StartHandlingStatusUpdates \/ User
  PROVE  StationInv'
<1>1. UNCHANGED <<link, config, status, events, registered, flag, attempt, saved, connected>>
  BY DEF StartHandlingStatusUpdates, User, OpenPage, ClosePage, OpenPasswordKeyboard, PasswordTyped, library, handler
<1>2. JoinedAreGood' /\ (connected' = TRUE <=> status' = "up")
  BY <1>1 DEF StationInv, JoinedAreGood
<1>3. /\ page \in Screens /\ keyboard \in Ssids \cup {None} /\ main \in Mains /\ auto \in BOOLEAN /\ scanning \in BOOLEAN
      /\ Closed \in Screens /\ Closed.text = None /\ Resting \in Mains /\ Resting.at = "rest"
  BY PairFacts DEF StationInv, StationTypeOK, Screens, Mains, Closed, Resting
<1>4. ASSUME main' \in Mains, main'.at \notin InConnect, main'.at = "flag" => main'.pair[1] # None,
             main.at \notin InConnect, page' \in Screens, PageHasHeard', keyboard' \in Ssids \cup {None},
             auto' \in BOOLEAN, scanning' \in BOOLEAN
      PROVE  StationInv'
  <2>1. StationTypeOK'
    BY <1>1, <1>4 DEF StationInv, StationTypeOK, Mains, Screens
  <2>2. AttemptIsDrivers'
    BY <1>1, <1>4 DEF StationInv, AttemptIsDrivers, InConnect
  <2> QED  BY <1>2, <1>4, <2>1, <2>2 DEF StationInv
<1>5. CASE StartHandlingStatusUpdates
  <2>1. /\ main.at = "text" /\ main' = Resting /\ page' = [page EXCEPT !.text = "attempting", !.hears = TRUE]
        /\ keyboard' = None /\ UNCHANGED <<auto, scanning>>
    BY <1>5 DEF StartHandlingStatusUpdates, library
  <2>2. page' \in Screens /\ page'.text = "attempting"
    BY <1>3, <2>1 DEF Screens
  <2>3. PageHasHeard'
    BY <2>2 DEF PageHasHeard
  <2> QED  BY <1>3, <1>4, <2>1, <2>2, <2>3 DEF InConnect
<1>6. CASE OpenPage
  <2>1. main = Resting /\ main' = main /\ keyboard' = keyboard /\ auto' = FALSE /\ scanning' = TRUE
        /\ page' = [Closed EXCEPT !.text = "scan"]
    BY <1>6 DEF OpenPage, scan
  <2>2. page' \in Screens /\ page'.text = "scan"
    BY <1>3, <2>1 DEF Screens
  <2>3. PageHasHeard'
    BY <2>2 DEF PageHasHeard
  <2> QED  BY <1>3, <1>4, <2>1, <2>2, <2>3 DEF InConnect
<1>7. CASE ClosePage
  <2>1. main = Resting /\ main' = main /\ keyboard' = None /\ UNCHANGED <<auto, scanning>> /\ page' = Closed
    BY <1>7 DEF ClosePage, library
  <2>2. PageHasHeard'
    BY <1>3, <2>1 DEF PageHasHeard, WifiAssumption
  <2> QED  BY <1>3, <1>4, <2>1, <2>2 DEF InConnect
<1>8. ASSUME NEW s \in Ssids, OpenPasswordKeyboard(s)  PROVE StationInv'
  <2>1. main = Resting /\ main' = main /\ keyboard' = s /\ UNCHANGED <<auto, scanning>> /\ page' = page
    BY <1>8 DEF OpenPasswordKeyboard, library
  <2>2. PageHasHeard'
    BY <1>1, <2>1 DEF StationInv, PageHasHeard
  <2> QED  BY <1>3, <1>4, <2>1, <2>2 DEF InConnect
<1>9. ASSUME NEW p \in Passwords \cup {None}, PasswordTyped(p)  PROVE StationInv'
  <2>1. /\ main = Resting /\ keyboard # None /\ (p = None \/ <<keyboard, p>> \in Typed)
        /\ \/ p = None /\ keyboard' = None /\ main' = main
           \/ p # None /\ main' = [at |-> "flag", pair |-> <<keyboard, p>>, user |-> TRUE] /\ keyboard' = keyboard
        /\ UNCHANGED <<auto, scanning, page>>
    BY <1>9 DEF PasswordTyped, library
  <2>2. PageHasHeard'
    BY <1>1, <2>1 DEF StationInv, PageHasHeard
  <2>3. main' \in Mains /\ main'.at \in {"rest", "flag"} /\ (main'.at = "flag" => main'.pair[1] # None)
    <3>1. keyboard \in Ssids
      BY <1>3, <2>1
    <3>2. <<keyboard, p>> \in Pairs /\ <<keyboard, p>>[1] = keyboard
      BY <3>1 DEF Pairs
    <3>3. /\ [at |-> "flag", pair |-> <<keyboard, p>>, user |-> TRUE] \in Mains
          /\ [at |-> "flag", pair |-> <<keyboard, p>>, user |-> TRUE].at = "flag"
          /\ [at |-> "flag", pair |-> <<keyboard, p>>, user |-> TRUE].pair = <<keyboard, p>>
      BY <3>2 DEF Mains
    <3>4. CASE main' = main
      BY <1>3, <2>1, <3>4
    <3>5. CASE main' = [at |-> "flag", pair |-> <<keyboard, p>>, user |-> TRUE]
      BY <2>1, <3>2, <3>3, <3>5
    <3> QED  BY <2>1, <3>4, <3>5
  <2> QED  BY <1>3, <1>4, <2>1, <2>2, <2>3 DEF InConnect
<1> QED  BY <1>5, <1>6, <1>7, <1>8, <1>9 DEF User

(* An event is handled.                                                    *)
LEMMA EventsAre == StationInv => Waiting(events) /\ events \in Seq(Events)
<1> SUFFICES ASSUME StationInv  PROVE Waiting(events) /\ events \in Seq(Events)
  OBVIOUS
<1>1. events \in Seq(Events)
  BY DEF StationInv, StationTypeOK, Events
<1> QED  BY <1>1, WaitingIs DEF StationInv

LEMMA StoreFacts ==
  ASSUME StationInv, WifiAssumption, StoreCredentials \/ UNCHANGED <<saved, attempt, flag>>
  PROVE  /\ saved' \in Pairs /\ attempt' \in Pairs /\ flag' \in BOOLEAN
         /\ flag' = TRUE => flag = TRUE /\ attempt' = attempt
         /\ saved' # saved => flag = TRUE /\ saved' = attempt
<1>1. saved \in Pairs /\ attempt \in Pairs /\ flag \in BOOLEAN /\ NoPair \in Pairs
  BY PairFacts DEF StationInv, StationTypeOK
<1>2. CASE StoreCredentials /\ flag = TRUE
  BY <1>1, <1>2 DEF StoreCredentials
<1>3. CASE UNCHANGED <<saved, attempt, flag>>
  BY <1>1, <1>3
<1>4. CASE StoreCredentials /\ flag = FALSE
  BY <1>1, <1>3, <1>4 DEF StoreCredentials
<1> QED  BY <1>1, <1>2, <1>3, <1>4

LEMMA StationEventKeeps ==
  ASSUME WifiAssumption, StationInv, HandleStation
  PROVE  /\ StationInv'
         /\ saved' # saved => saved' \in Good \/ Overtaken
<1> DEFINE e == Head(events)
<1>1. /\ events # << >> /\ e.kind # "scanned" /\ status' = StatusAfter(e)
      /\ UpdateStatus /\ GiveUpIfFailed(LinkAfter(e))
      /\ UNCHANGED <<config, scanning, registered, main, keyboard>>
  BY DEF HandleStation
<1>2. /\ e.kind = "joined" => StoreCredentials /\ auto' = TRUE
      /\ e.kind # "joined" => UNCHANGED <<saved, attempt, flag, auto>>
  BY DEF HandleStation
<1>3. /\ Waiting(Tail(events)) /\ e \in Events /\ (e.kind = "joined" => e.with \in Good)
  BY <1>1, EventsAre, WaitingTail
<1>4. /\ saved' \in Pairs /\ attempt' \in Pairs /\ flag' \in BOOLEAN
      /\ flag' = TRUE => flag = TRUE /\ attempt' = attempt
      /\ saved' # saved => flag = TRUE /\ saved' = attempt
  BY <1>2, StoreFacts
<1>5. auto' \in BOOLEAN
  BY <1>2 DEF StationInv, StationTypeOK
<1>6. status' \in {"idle", "up", "failed", "lost"}
  <2>1. e.kind \in {"joined", "address", "refused", "lost", "left"}
    BY <1>1, <1>3 DEF Events
  <2> QED  BY <1>1, <2>1 DEF StatusAfter
<1>7. LinkAfter(e) \in {"none", "trying", "joined", "addressed"}
  BY DEF LinkAfter, StationInv, StationTypeOK
<1>8. link' \in {"none", "trying", "joined", "addressed"} /\ Waiting(events')
  <2>1. \/ link' = "none" /\ events' = Tail(events) \o Left(LinkAfter(e))
        \/ link' = LinkAfter(e) /\ events' = Tail(events)
    BY <1>1 DEF GiveUpIfFailed
  <2> QED  BY <1>3, <1>7, <2>1, WaitingLeft
<1> HIDE DEF e
<1>9. events' \in Seq(Events) /\ JoinedAreGood'
  BY <1>8 DEF Waiting, JoinedAreGood
<1>10. connected' \in BOOLEAN /\ (connected' = TRUE <=> status' = "up")
  BY <1>1 DEF UpdateStatus
<1>11. page' \in Screens /\ PageHasHeard'
  <2>1. page \in Screens
    BY DEF StationInv, StationTypeOK, Screens
  <2>2. page' = IF page.hears THEN [page EXCEPT !.text = IF status' = "up" THEN "connected" ELSE "failed"] ELSE page
    BY <1>1 DEF UpdateStatus, Notify
  <2>3. CASE page.hears = TRUE /\ status' = "up"
    <3>1. page' = [page EXCEPT !.text = "connected"]
      BY <2>2, <2>3
    <3> QED  BY <1>10, <2>1, <2>3, <3>1 DEF Screens, PageHasHeard
  <2>4. CASE page.hears = TRUE /\ status' # "up"
    <3>1. page' = [page EXCEPT !.text = "failed"]
      BY <2>2, <2>4
    <3> QED  BY <2>1, <3>1 DEF Screens, PageHasHeard
  <2>5. CASE page.hears = FALSE
    <3>1. page' = page
      BY <2>2, <2>5
    <3>2. page.text # "connected"
      BY <2>5 DEF StationInv, PageHasHeard
    <3> QED  BY <2>1, <3>1, <3>2 DEF PageHasHeard
  <2>6. page.hears \in BOOLEAN
    BY <2>1 DEF Screens
  <2> QED  BY <2>3, <2>4, <2>5, <2>6
<1>12. StationTypeOK'
  BY <1>1, <1>4, <1>5, <1>6, <1>8, <1>9, <1>10, <1>11 DEF StationInv, StationTypeOK, Events, Screens
<1>13. AttemptIsDrivers'
  BY <1>1, <1>4 DEF StationInv, AttemptIsDrivers
<1>14. StationInv'
  BY <1>9, <1>10, <1>11, <1>12, <1>13 DEF StationInv
<1>15. ASSUME saved' # saved, ~Overtaken  PROVE saved' \in Good
  <2>1. main.at \notin InConnect /\ e.with = config
    BY <1>15 DEF Overtaken, InConnect, e
  <2>2. e.kind = "joined"
    BY <1>2, <1>15
  <2>3. saved' = attempt /\ attempt = config
    BY <1>4, <1>15, <2>1 DEF StationInv, AttemptIsDrivers
  <2> QED  BY <1>3, <2>1, <2>2, <2>3
<1> QED  BY <1>14, <1>15

LEMMA ScanEventKeeps ==
  ASSUME WifiAssumption, StationInv, HandleScanDone
  PROVE  StationInv'
<1>1. /\ events # << >> /\ page' \in {Listed, NoneFound}
      /\ UNCHANGED <<config, auto, scanning, status, registered, flag, attempt, saved, connected, main, keyboard>>
  BY DEF HandleScanDone, handler
<1>2. Waiting(Tail(events))
  BY <1>1, EventsAre, WaitingTail
<1>3. link' \in {"none", "trying", "joined", "addressed"} /\ Waiting(events')
  <2>1. CASE Reconnects
    <3>1. /\ link' \in {"none", "trying"}
          /\ \/ events' = (Tail(events) \o Left(link)) \o Left("trying")
             \/ events' = (Tail(events) \o Left(link)) \o << >>
      BY <2>1 DEF HandleScanDone
    <3>2. Waiting(Tail(events) \o Left(link)) /\ Waiting((Tail(events) \o Left(link)) \o Left("trying"))
      BY <1>2, WaitingLeft
    <3>3. Left("none") = << >>
      BY DEF Left
    <3>4. Waiting((Tail(events) \o Left(link)) \o << >>)
      BY <3>2, <3>3, WaitingLeft
    <3> QED  BY <3>1, <3>2, <3>4
  <2>2. CASE ~Reconnects
    BY <1>2, <2>2 DEF HandleScanDone, StationInv, StationTypeOK
  <2> QED  BY <2>1, <2>2
<1>4. events' \in Seq(Events) /\ JoinedAreGood'
  BY <1>3 DEF Waiting, JoinedAreGood
<1>5. page' \in Screens /\ PageHasHeard'
  <2>1. page \in Screens
    BY DEF StationInv, StationTypeOK, Screens
  <2>2. \/ page' = page \/ page' = [page EXCEPT !.text = "scan", !.listed = TRUE] \/ page' = [page EXCEPT !.text = "scan"]
    BY <1>1 DEF Listed, NoneFound
  <2>3. CASE page' = page
    BY <1>1, <2>1, <2>3 DEF StationInv, PageHasHeard
  <2>4. CASE page' # page
    <3>1. page' \in Screens /\ page'.text = "scan"
      BY <2>1, <2>2, <2>4 DEF Screens
    <3> QED  BY <3>1 DEF PageHasHeard
  <2> QED  BY <2>3, <2>4
<1>6. StationTypeOK'
  BY <1>1, <1>3, <1>4, <1>5 DEF StationInv, StationTypeOK, Events, Screens
<1>7. AttemptIsDrivers' /\ (connected' = TRUE <=> status' = "up")
  BY <1>1 DEF StationInv, AttemptIsDrivers
<1> QED  BY <1>4, <1>5, <1>6, <1>7 DEF StationInv

(* The library says what it did.                                           *)
LEMMA LibraryKeeps ==
  ASSUME WifiAssumption, StationInv, Library
  PROVE  StationInv'
<1>1. /\ UNCHANGED <<config, auto, status, registered, flag, attempt, saved, connected, main, page, keyboard>>
      /\ scanning' \in BOOLEAN /\ link' \in {"none", "trying", "joined", "addressed"}
  BY DEF Library, Join, Address, Refuse, Lose, ScanDone, Happens, handler, ui, StationInv, StationTypeOK
<1>2. config \in Pairs /\ NoPair \in Pairs
  BY PairFacts DEF StationInv, StationTypeOK
<1>3. \E e \in Events : events' = Append(events, e) /\ (e.kind = "joined" => e.with \in Good)
  <2>1. CASE Join
    <3>1. Event("joined", config) \in Events /\ Event("joined", config).with = config
      BY <1>2, EventFacts
    <3> QED  BY <2>1, <3>1 DEF Join, Happens
  <2>2. CASE Address
    <3>1. Event("address", config) \in Events /\ Event("address", config).kind = "address"
      BY <1>2, EventFacts
    <3> QED  BY <2>2, <3>1 DEF Address, Happens
  <2>3. CASE Refuse
    <3>1. PICK k \in {"refused", "lost"} : events' = Append(events, Event(k, NoPair))
      BY <2>3 DEF Refuse, Happens
    <3>2. Event(k, NoPair) \in Events /\ Event(k, NoPair).kind = k
      BY <1>2, EventFacts
    <3> QED  BY <3>1, <3>2
  <2>4. CASE Lose
    <3>1. Event("lost", NoPair) \in Events /\ Event("lost", NoPair).kind = "lost"
      BY <1>2, EventFacts
    <3> QED  BY <2>4, <3>1 DEF Lose, Happens
  <2>5. CASE ScanDone
    <3>1. Event("scanned", NoPair) \in Events /\ Event("scanned", NoPair).kind = "scanned"
      BY <1>2, EventFacts
    <3> QED  BY <2>5, <3>1 DEF ScanDone
  <2> QED  BY <2>1, <2>2, <2>3, <2>4, <2>5 DEF Library
<1>4. Waiting(events')
  BY <1>3, EventsAre, WaitingAppend
<1>5. events' \in Seq(Events) /\ JoinedAreGood'
  BY <1>4 DEF Waiting, JoinedAreGood
<1>6. StationTypeOK'
  BY <1>1, <1>5 DEF StationInv, StationTypeOK, Events
<1>7. AttemptIsDrivers' /\ PageHasHeard' /\ (connected' = TRUE <=> status' = "up")
  BY <1>1 DEF StationInv, AttemptIsDrivers, PageHasHeard
<1> QED  BY <1>5, <1>6, <1>7 DEF StationInv

LEMMA SleepKeeps ==
  ASSUME WifiAssumption, StationInv, LightSleep
  PROVE  StationInv'
<1>1. /\ main = Resting /\ link' = "none" /\ scanning' = FALSE /\ events' = Append(events, Event("left", NoPair))
      /\ registered' = (IF registered < Many THEN registered + 1 ELSE Many) /\ main' = Begun(saved)
      /\ UNCHANGED <<config, auto, status, flag, attempt, saved, connected, page, keyboard>>
  BY DEF LightSleep, handler, ui
<1>2. Waiting(events')
  <2>1. Event("left", NoPair) \in Events /\ Event("left", NoPair).kind = "left"
    BY EventFacts, PairFacts
  <2> QED  BY <1>1, <2>1, EventsAre, WaitingAppend
<1>3. events' \in Seq(Events) /\ JoinedAreGood'
  BY <1>2 DEF Waiting, JoinedAreGood
<1>4. registered' \in 1..Many
  BY <1>1 DEF StationInv, StationTypeOK, WifiAssumption
<1>5. main' \in Mains /\ main'.at \in {"rest", "password"} /\ (main'.at = "password" => main'.pair[1] # None)
  BY <1>1, BegunFacts DEF StationInv, StationTypeOK
<1>6. StationTypeOK'
  BY <1>1, <1>3, <1>4, <1>5 DEF StationInv, StationTypeOK, Events, Mains
<1>7. AttemptIsDrivers'
  BY <1>1, <1>5 DEF StationInv, AttemptIsDrivers, InConnect, Resting
<1>8. PageHasHeard' /\ (connected' = TRUE <=> status' = "up")
  BY <1>1 DEF StationInv, PageHasHeard
<1> QED  BY <1>3, <1>6, <1>7, <1>8 DEF StationInv

LEMMA RestartKeeps ==
  ASSUME WifiAssumption, StationInv, Restart \/ PowerLossWhileStoring
  PROVE  StationInv'
<1>1. Started /\ saved' \in Pairs
  <2>1. saved \in Pairs /\ attempt \in Pairs
    BY DEF StationInv, StationTypeOK
  <2> QED  BY <2>1, PairFacts DEF Restart, PowerLossWhileStoring
<1>2. main' \in Mains /\ main'.at \in {"rest", "password"} /\ (main'.at = "password" => main'.pair[1] # None)
  BY <1>1, BegunFacts DEF Started
<1>3. events' \in Seq(Events) /\ JoinedAreGood'
  BY <1>1 DEF Started, JoinedAreGood
<1>4. registered' \in 1..Many
  BY <1>1 DEF Started, WifiAssumption
<1>5. page' \in Screens /\ PageHasHeard'
  BY <1>1 DEF Started, Closed, Screens, PageHasHeard, WifiAssumption
<1>6. StationTypeOK'
  BY <1>1, <1>2, <1>3, <1>4, <1>5, PairFacts DEF Started, StationTypeOK, Events, Mains, Screens
<1>7. AttemptIsDrivers'
  BY <1>1, <1>2 DEF Started, AttemptIsDrivers, InConnect
<1> QED  BY <1>1, <1>3, <1>5, <1>6, <1>7 DEF Started, StationInv

LEMMA StationStepKeeps ==
  ASSUME WifiAssumption, StationInv, [Next]_vars
  PROVE  /\ StationInv'
         /\ saved' # saved => saved' \in Good \/ Overtaken \/ PowerLossWhileStoring
<1>1. CASE MainLoop \/ User
  <2>1. StationInv'
    BY <1>1, ConnectStepKeeps, BeginKeeps, UserStepKeeps DEF MainLoop
  <2>2. saved' = saved
    BY <1>1 DEF MainLoop, saveCredentialsOnConnect, ConnectPassword, ConnectSsid, ConnectBegin,
        StartHandlingStatusUpdates, User, OpenPage, ClosePage, OpenPasswordKeyboard, PasswordTyped, handler
  <2> QED  BY <2>1, <2>2
<1>2. CASE HandleStation
  BY <1>2, StationEventKeeps
<1>3. CASE HandleScanDone \/ Library \/ LightSleep
  <2>1. StationInv'
    BY <1>3, ScanEventKeeps, LibraryKeeps, SleepKeeps
  <2>2. saved' = saved
    BY <1>3 DEF HandleScanDone, Library, Join, Address, Refuse, Lose, ScanDone, Happens, LightSleep, handler
  <2> QED  BY <2>1, <2>2
<1>4. CASE Restart \/ PowerLossWhileStoring
  BY <1>4, RestartKeeps DEF Restart
<1>5. CASE UNCHANGED vars
  <2>1. /\ UNCHANGED <<link, config, auto, scanning, status, events, registered, flag, attempt, saved, connected>>
        /\ UNCHANGED <<main, page, keyboard>>
    BY <1>5 DEF vars, library, handler, ui
  <2>2. StationTypeOK'
    BY <2>1 DEF StationInv, StationTypeOK
  <2>3. JoinedAreGood' /\ AttemptIsDrivers' /\ PageHasHeard' /\ (connected' = TRUE <=> status' = "up")
    BY <2>1 DEF StationInv, JoinedAreGood, AttemptIsDrivers, PageHasHeard
  <2> QED  BY <2>1, <2>2, <2>3 DEF StationInv
<1> QED  BY <1>1, <1>2, <1>3, <1>4, <1>5 DEF Next, WiFiEvent

(* For any networks, pairs and numbers of events: what is said of the      *)
(* connection is true, on the page too, and only a pair that has just let  *)
(* the remote in is stored, but for the race the module names              *)
(* (wifihandler.cpp 54-120).                                               *)
THEOREM StationIsTruthful == Spec => StationTruthful
<1>1. Init => StationInv
  BY StationBegins, WifiAssumption
<1>2. StationInv /\ [Next]_vars => StationInv'
  BY StationStepKeeps, WifiAssumption
<1>3. StationInv => StationTypeOK /\ StatusFollows /\ PageTruthful
  BY DEF StationInv, StationTypeOK, StatusFollows, PageTruthful, PageHasHeard
<1>4. StationInv /\ [Next]_vars =>
        [saved' # saved => saved' \in Good \/ Overtaken \/ PowerLossWhileStoring]_vars
  BY StationStepKeeps, WifiAssumption
<1> QED  BY <1>1, <1>2, <1>3, <1>4, PTL DEF Spec, StationTruthful, SavedVerified
-------------------------------------------------------------------------------
(***************************************************************************)
(* The services.                                                           *)
(***************************************************************************)
(* Only a page with changes differs from its file, and from what the clock *)
(* is asked from.                                                          *)
AsOnRecord ==
  /\ asking \in {Nothing, ntp.server}
  /\ asking # Nothing => ntp.on = TRUE
  /\ zone = ntp.server
FtpFileFollows == "ftp" \notin unsaved => Restored(ftpFile, FtpDefault) = ftp
NtpFileFollows == "ntp" \notin unsaved => Restored(ntpFile, NtpDefault) = ntp
OnlyChangedPageDiffers ==
  /\ screen # "ntp" \/ dirty = FALSE => AsOnRecord /\ NtpFileFollows
  /\ screen # "ftp" \/ dirty = FALSE => FtpFileFollows
  /\ writing = TRUE => dirty = TRUE /\ screen # Nothing

ServicesInv == ServicesTypeOK /\ OnlyChangedPageDiffers

LEMMA RecordFacts ==
  ASSUME ServicesAssumption
  PROVE  /\ FtpDefault \in Ftp /\ NtpDefault \in Ntp /\ FtpDefault.on = FALSE /\ NtpDefault.server = DefaultServer
         /\ Nothing # "ftp" /\ Nothing # "ntp"
         /\ \A f \in Ftp : f.account \in Accounts /\ f.on \in BOOLEAN /\ Restored(f, FtpDefault) = f
         /\ \A n \in Ntp : n.server \in Servers /\ n.on \in BOOLEAN /\ Restored(n, NtpDefault) = n
         /\ \A f \in Ftp, b \in BOOLEAN : [f EXCEPT !.on = b] \in Ftp
         /\ \A f \in Ftp, a \in Accounts : [f EXCEPT !.account = a] \in Ftp
         /\ \A n \in Ntp, b \in BOOLEAN : [n EXCEPT !.on = b] \in Ntp
         /\ \A n \in Ntp, s \in Servers : [n EXCEPT !.server = s] \in Ntp
<1>1. FtpDefault \in Ftp /\ NtpDefault \in Ntp /\ FtpDefault.on = FALSE /\ NtpDefault.server = DefaultServer
  BY DEF ServicesAssumption, FtpDefault, NtpDefault, Ftp, Ntp
<1>2. /\ Nothing # "ftp" /\ Nothing # "ntp"
      /\ Nothing \notin Ftp /\ Torn \notin Ftp /\ Nothing \notin Ntp /\ Torn \notin Ntp
  BY DEF ServicesAssumption
<1>3. \A f \in Ftp : f.account \in Accounts /\ f.on \in BOOLEAN
  BY DEF Ftp
<1>4. \A n \in Ntp : n.server \in Servers /\ n.on \in BOOLEAN
  BY DEF Ntp
<1>5. (\A f \in Ftp : Restored(f, FtpDefault) = f) /\ (\A n \in Ntp : Restored(n, NtpDefault) = n)
  BY <1>2 DEF Restored
<1>6. (\A f \in Ftp, b \in BOOLEAN : [f EXCEPT !.on = b] \in Ftp) /\ (\A f \in Ftp, a \in Accounts : [f EXCEPT !.account = a] \in Ftp)
  BY DEF Ftp
<1>7. (\A n \in Ntp, b \in BOOLEAN : [n EXCEPT !.on = b] \in Ntp) /\ (\A n \in Ntp, s \in Servers : [n EXCEPT !.server = s] \in Ntp)
  BY DEF Ntp
<1> QED  BY <1>1, <1>2, <1>3, <1>4, <1>5, <1>6, <1>7

LEMMA ServicesBegin == ServicesAssumption /\ SInit => ServicesInv
<1> SUFFICES ASSUME ServicesAssumption, SInit  PROVE ServicesInv
  OBVIOUS
<1>1. ServicesTypeOK
  <2>1. 0..(Retry + 1) = 0..(Retry + 1) /\ Retry \in 0..(Retry + 1)
    BY DEF ServicesAssumption
  <2> QED  BY <2>1, RecordFacts DEF ServicesTypeOK, SInit, Fresh, ServicesAssumption
<1>2. OnlyChangedPageDiffers
  BY RecordFacts DEF OnlyChangedPageDiffers, AsOnRecord, FtpFileFollows, NtpFileFollows, Restored, SInit, Fresh
<1> QED  BY <1>1, <1>2 DEF ServicesInv

(* The main loop's round, the connection and the time.                     *)
LEMMA RoundKeeps ==
  ASSUME ServicesAssumption, ServicesInv, ftpSync \/ nptSync \/ Tick \/ WifiChanges
  PROVE  ServicesInv'
<1>1. UNCHANGED <<ftp, ntp, zone, ftpFile, ntpFile, screen, dirty, writing, unsaved>>
  BY DEF ftpSync, FtpBegin, FtpEnd, nptSync, Tick, WifiChanges, ftpVars, ntpVars, uiVars
<1>2. /\ wifi' \in BOOLEAN /\ serving' \in Accounts \cup {Nothing} /\ force' \in BOOLEAN
      /\ started' \in BOOLEAN
  <2>1. ftp.account \in Accounts
    BY RecordFacts DEF ServicesInv, ServicesTypeOK
  <2> QED  BY <2>1 DEF ftpSync, FtpBegin, FtpEnd, nptSync, Tick, WifiChanges, ftpVars, ntpVars, ServicesInv, ServicesTypeOK
<1>3. elapsed' \in 0..(Retry + 1)
  BY DEF ftpSync, FtpBegin, FtpEnd, nptSync, Tick, WifiChanges, ftpVars, ServicesInv, ServicesTypeOK, ServicesAssumption
<1>4. asking' = asking \/ (asking' = ntp.server /\ ntp.on)
  BY DEF ftpSync, FtpBegin, FtpEnd, nptSync, Tick, WifiChanges, ntpVars
<1>5. ntp.server \in Servers /\ ntp.on \in BOOLEAN
  BY RecordFacts DEF ServicesInv, ServicesTypeOK
<1>6. ServicesTypeOK'
  BY <1>1, <1>2, <1>3, <1>4, <1>5 DEF ServicesInv, ServicesTypeOK
<1>7. OnlyChangedPageDiffers'
  BY <1>1, <1>4, <1>5 DEF ServicesInv, OnlyChangedPageDiffers, AsOnRecord, FtpFileFollows, NtpFileFollows
<1> QED  BY <1>6, <1>7 DEF ServicesInv

(* What the user changes on a page.                                        *)
LEMMA PageKeeps ==
  ASSUME ServicesAssumption, ServicesInv, Pages
  PROVE  ServicesInv'
<1> USE DEF ServicesInv, ServicesTypeOK, ftpVars, ntpVars
<1>1. /\ ftp \in Ftp /\ ntp \in Ntp /\ Nothing # "ftp" /\ Nothing # "ntp" /\ dirty \in BOOLEAN /\ writing \in BOOLEAN
      /\ screen \in {Nothing, "ftp", "ntp"}
  BY RecordFacts
<1>2. ASSUME NEW p \in {"ftp", "ntp"}, OpenSettings(p)  PROVE ServicesInv'
  <2>1. UNCHANGED <<wifi, ftp, serving, force, elapsed, ftpFile, ntp, started, asking, zone, ntpFile, writing, unsaved>>
    BY <1>2 DEF OpenSettings
  <2>2. screen = Nothing /\ screen' = p /\ dirty' = FALSE /\ writing = FALSE
    BY <1>1, <1>2 DEF OpenSettings, Idle
  <2>3. AsOnRecord' /\ FtpFileFollows' /\ NtpFileFollows'
    BY <1>1, <2>1, <2>2 DEF OnlyChangedPageDiffers, AsOnRecord, FtpFileFollows, NtpFileFollows
  <2> QED  BY <2>1, <2>2, <2>3 DEF OnlyChangedPageDiffers
<1>3. ASSUME NEW b \in BOOLEAN, NEW a \in Accounts, enableFtp(b) \/ ftpSetAccount(a)  PROVE ServicesInv'
  <2>1. /\ UNCHANGED <<wifi, serving, elapsed, ftpFile, ntp, started, asking, zone, ntpFile, screen, writing, unsaved>>
        /\ screen = "ftp" /\ dirty' = TRUE /\ writing = FALSE /\ force' \in BOOLEAN
    BY <1>1, <1>3 DEF enableFtp, ftpSetAccount, Idle
  <2>2. ftp' \in Ftp
    BY <1>1, <1>3, RecordFacts DEF enableFtp, ftpSetAccount
  <2>3. AsOnRecord' /\ NtpFileFollows'
    BY <2>1 DEF OnlyChangedPageDiffers, AsOnRecord, NtpFileFollows
  <2> QED  BY <2>1, <2>2, <2>3 DEF OnlyChangedPageDiffers
<1>4. ASSUME NEW b \in BOOLEAN, NEW s \in Servers, enableNtp(b) \/ ntpSetServer(s)  PROVE ServicesInv'
  <2>1. /\ UNCHANGED <<wifi, ftp, serving, force, elapsed, ftpFile, started, zone, ntpFile, screen, writing, unsaved>>
        /\ screen = "ntp" /\ dirty' = TRUE /\ writing = FALSE
    BY <1>1, <1>4 DEF enableNtp, ntpSetServer, Idle
  <2>2. ntp' \in Ntp
    BY <1>1, <1>4, RecordFacts DEF enableNtp, ntpSetServer
  <2>3. asking' \in Servers \cup {Nothing, Torn}
    BY <1>4 DEF enableNtp, ntpSetServer
  <2>4. FtpFileFollows'
    BY <2>1 DEF OnlyChangedPageDiffers, FtpFileFollows
  <2> QED  BY <2>1, <2>2, <2>3, <2>4 DEF OnlyChangedPageDiffers
<1>5. CASE CloseUnchanged
  <2>1. UNCHANGED <<wifi, ftp, serving, force, elapsed, ftpFile, ntp, started, asking, zone, ntpFile, dirty, writing, unsaved>>
    BY <1>5 DEF CloseUnchanged
  <2>2. screen' = Nothing /\ dirty = FALSE /\ writing = FALSE
    BY <1>1, <1>5 DEF CloseUnchanged, Idle
  <2>3. AsOnRecord' /\ FtpFileFollows' /\ NtpFileFollows'
    BY <2>1, <2>2 DEF OnlyChangedPageDiffers, AsOnRecord, FtpFileFollows, NtpFileFollows
  <2> QED  BY <2>1, <2>2, <2>3 DEF OnlyChangedPageDiffers
<1>6. CASE CloseUnsaved
  <2>1. /\ UNCHANGED <<wifi, ftp, serving, force, elapsed, ftpFile, ntp, ntpFile, writing>>
        /\ screen \in {"ftp", "ntp"} /\ screen' = Nothing /\ dirty' = FALSE /\ writing = FALSE
        /\ unsaved' = unsaved \cup {screen}
    BY <1>1, <1>6 DEF CloseUnsaved, Idle
  <2>2. CASE screen = "ntp"
    <3>1. zone' = ntp.server /\ started' = FALSE /\ asking' = Nothing
      BY <1>6, <2>2 DEF CloseUnsaved, setupNtp
    <3>2. AsOnRecord' /\ FtpFileFollows' /\ NtpFileFollows'
      BY <2>1, <2>2, <3>1 DEF OnlyChangedPageDiffers, AsOnRecord, FtpFileFollows, NtpFileFollows
    <3>3. zone' \in Servers \cup {Nothing}
      BY <1>1, <3>1, RecordFacts
    <3>4. OnlyChangedPageDiffers'
      BY <2>1, <3>2 DEF OnlyChangedPageDiffers
    <3>5. ServicesTypeOK'
      BY <2>1, <3>1, <3>3
    <3> QED  BY <3>4, <3>5
  <2>3. CASE screen = "ftp"
    <3>1. UNCHANGED <<zone, started, asking>>
      BY <1>6, <2>3 DEF CloseUnsaved
    <3>2. AsOnRecord' /\ FtpFileFollows' /\ NtpFileFollows'
      BY <2>1, <2>3, <3>1 DEF OnlyChangedPageDiffers, AsOnRecord, FtpFileFollows, NtpFileFollows
    <3>3. OnlyChangedPageDiffers'
      BY <2>1, <3>2 DEF OnlyChangedPageDiffers
    <3>4. ServicesTypeOK'
      BY <2>1, <3>1
    <3> QED  BY <3>3, <3>4
  <2> QED  BY <2>1, <2>2, <2>3
<1>7. CASE EmptyFile
  <2>1. /\ UNCHANGED <<wifi, ftp, serving, force, elapsed, ntp, started, asking, zone, screen, dirty, unsaved>>
        /\ screen \in {"ftp", "ntp"} /\ dirty = TRUE /\ writing' = TRUE
    BY <1>1, <1>7 DEF EmptyFile
  <2>2. \/ screen = "ftp" /\ ftpFile' = Torn /\ ntpFile' = ntpFile
        \/ screen # "ftp" /\ ntpFile' = Torn /\ ftpFile' = ftpFile
    BY <1>7 DEF EmptyFile
  <2>3. /\ screen # "ntp" => AsOnRecord' /\ NtpFileFollows'
        /\ screen # "ftp" => FtpFileFollows'
    BY <2>1, <2>2 DEF OnlyChangedPageDiffers, AsOnRecord, FtpFileFollows, NtpFileFollows
  <2> QED  BY <1>1, <2>1, <2>2, <2>3 DEF OnlyChangedPageDiffers
<1>8. Accounts # {} /\ Servers # {}
  BY DEF ServicesAssumption
<1> QED  BY <1>2, <1>3, <1>4, <1>5, <1>6, <1>7, <1>8 DEF Pages

LEMMA WriteKeeps ==
  ASSUME ServicesAssumption, ServicesInv, Write
  PROVE  ServicesInv'
<1> USE DEF ServicesInv, ServicesTypeOK, ftpVars, ntpVars
<1>1. ftp \in Ftp /\ ntp \in Ntp /\ Nothing # "ftp" /\ Nothing # "ntp" /\ ntp.server \in Servers
  BY RecordFacts
<1>2. Restored(ftp, FtpDefault) = ftp /\ Restored(ntp, NtpDefault) = ntp
  BY <1>1, RecordFacts
<1>3. CASE CloseFtp
  <2>1. /\ UNCHANGED <<wifi, ftp, serving, force, elapsed, ntp, started, asking, zone, ntpFile>>
        /\ screen = "ftp" /\ ftpFile' = ftp
        /\ screen' = Nothing /\ writing' = FALSE /\ dirty' = FALSE /\ unsaved' = unsaved \ {"ftp"}
    BY <1>3 DEF CloseFtp
  <2>2. AsOnRecord' /\ FtpFileFollows' /\ NtpFileFollows'
    BY <1>2, <2>1 DEF OnlyChangedPageDiffers, AsOnRecord, FtpFileFollows, NtpFileFollows
  <2> QED  BY <2>1, <2>2 DEF OnlyChangedPageDiffers
<1>4. CASE CloseNtp
  <2>1. /\ UNCHANGED <<wifi, ftp, serving, force, elapsed, ftpFile, ntp>>
        /\ screen = "ntp" /\ ntpFile' = ntp /\ zone' = ntp.server /\ started' = FALSE /\ asking' = Nothing
        /\ screen' = Nothing /\ writing' = FALSE /\ dirty' = FALSE /\ unsaved' = unsaved \ {"ntp"}
    BY <1>4 DEF CloseNtp, setupNtp
  <2>2. AsOnRecord' /\ FtpFileFollows' /\ NtpFileFollows'
    BY <1>2, <2>1 DEF OnlyChangedPageDiffers, AsOnRecord, FtpFileFollows, NtpFileFollows
  <2> QED  BY <1>1, <2>1, <2>2 DEF OnlyChangedPageDiffers
<1> QED  BY <1>3, <1>4 DEF Write

LEMMA ServicesRestart ==
  ASSUME ServicesAssumption, ServicesInv, SRestart
  PROVE  ServicesInv'
<1>1. /\ ftp' = Restored(ftpFile, FtpDefault) /\ ntp' = Restored(ntpFile, NtpDefault) /\ zone' = ntp'.server
      /\ wifi' = FALSE /\ serving' = Nothing /\ force' = TRUE /\ elapsed' = Retry
      /\ started' = FALSE /\ asking' = Nothing
      /\ screen' = Nothing /\ dirty' = FALSE /\ writing' = FALSE /\ unsaved' = {}
      /\ UNCHANGED <<ftpFile, ntpFile>>
  BY DEF SRestart
<1>2. ftp' \in Ftp /\ ntp' \in Ntp
  BY <1>1, RecordFacts DEF Restored, ServicesInv, ServicesTypeOK
<1>3. ntp'.server \in Servers /\ Retry \in 0..(Retry + 1)
  BY <1>2, RecordFacts DEF ServicesAssumption
<1>4. ServicesTypeOK'
  BY <1>1, <1>2, <1>3 DEF ServicesInv, ServicesTypeOK
<1>5. OnlyChangedPageDiffers'
  BY <1>1 DEF OnlyChangedPageDiffers, AsOnRecord, FtpFileFollows, NtpFileFollows
<1> QED  BY <1>4, <1>5 DEF ServicesInv

(* For any accounts, servers and time to wait: away from its page the      *)
(* clock is asked from the server on record or from none, and what a page  *)
(* was closed with is what a restart reads (wifihandler.cpp 350-502).      *)
THEOREM ServicesAreSafe == SSpec => []ServicesSafe
<1>1. SInit => ServicesInv
  BY ServicesBegin, ServicesAssumption
<1>2. ServicesInv /\ [SNext]_sVars => ServicesInv'
  <2> SUFFICES ASSUME ServicesInv, [SNext]_sVars  PROVE ServicesInv'
    OBVIOUS
  <2>1. CASE UNCHANGED sVars
    BY <2>1 DEF sVars, ftpVars, ntpVars, uiVars, ServicesInv, ServicesTypeOK, OnlyChangedPageDiffers, AsOnRecord,
                FtpFileFollows, NtpFileFollows
  <2> QED  BY <2>1, ServicesAssumption, RoundKeeps, PageKeeps, WriteKeeps, ServicesRestart DEF SNext
<1>3. ServicesInv => ServicesSafe
  <2>1. Nothing # "ftp" /\ Nothing # "ntp"
    BY RecordFacts, ServicesAssumption
  <2> QED  BY <2>1 DEF ServicesInv, ServicesSafe, OnlyChangedPageDiffers, AsOnRecord, FtpFileFollows, NtpFileFollows,
                       ClockHonest, FilesFollow
<1> QED  BY <1>1, <1>2, <1>3, PTL DEF SSpec
================================================================================
