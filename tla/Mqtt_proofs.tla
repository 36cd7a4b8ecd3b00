------------------------------ MODULE Mqtt_proofs ------------------------------
(***************************************************************************)
(* Theorems about Mqtt, for any labels, topics, settings and times: the    *)
(* broker's subscriptions are those of the labels on the screen, and a     *)
(* label that has nothing more to come is up to date.                      *)
(***************************************************************************)
EXTENDS Mqtt, SequenceTheorems, FiniteSetTheorems, TLAPS

SessionIsKnown == session => client

(* What is on its way to a label ends in what was last published.          *)
UpToDate(l) ==
  bound[l] # Nothing =>
    IF inbox[bound[l]] = << >> THEN text[l] = current[bound[l]]
    ELSE inbox[bound[l]][Len(inbox[bound[l]])] = current[bound[l]]

AllUpToDate == session => \A l \in Labels : UpToDate(l)

IInv ==
  /\ MqttTypeOK
  /\ SessionIsKnown
  /\ SubscriptionsFollow
  /\ AllUpToDate
  /\ SavedAccountWorks
  /\ StaysOff

-------------------------------------------------------------------------------
(* The last element of a queue, after each of the things done to a queue.  *)
LEMMA LastOfAppend ==
  ASSUME NEW S, NEW s \in Seq(S), NEW e \in S
  PROVE  /\ Append(s, e) \in Seq(S) /\ Append(s, e) # << >>
         /\ Append(s, e)[Len(Append(s, e))] = e
<1>1. Len(s) \in Nat
  BY LenProperties
<1>2. /\ Append(s, e) \in Seq(S) /\ Append(s, e) # << >>
      /\ Len(Append(s, e)) = Len(s) + 1 /\ Append(s, e)[Len(s) + 1] = e
  BY AppendProperties
<1> QED
  BY <1>1, <1>2

LEMMA LastOfTail ==
  ASSUME NEW S, NEW s \in Seq(S), s # << >>
  PROVE  /\ Tail(s) \in Seq(S) /\ Head(s) \in S
         /\ Tail(s) = << >> => Head(s) = s[Len(s)]
         /\ Tail(s) # << >> => Tail(s)[Len(Tail(s))] = s[Len(s)]
<1>1. Len(s) \in Nat /\ Len(s) # 0
  BY EmptySeq, LenProperties
<1>2. /\ Tail(s) \in Seq(S) /\ Head(s) = s[1] /\ Head(s) \in S
      /\ Len(Tail(s)) = Len(s) - 1
      /\ \A i \in 1..Len(Tail(s)) : Tail(s)[i] = s[i + 1]
  BY <1>1, HeadTailProperties, ElementOfSeq
<1>3. Tail(s) = << >> <=> Len(Tail(s)) = 0
  BY <1>2, EmptySeq
<1> QED
  BY <1>1, <1>2, <1>3

LEMMA LastOfCopies ==
  ASSUME NEW S, NEW n \in Nat, n # 0, NEW e \in S
  PROVE  LET s == [i \in 1..n |-> e]
         IN s \in Seq(S) /\ s # << >> /\ s[Len(s)] = e
<1> DEFINE s == [i \in 1..n |-> e]
<1>1. s \in Seq(S) /\ Len(s) = n
  BY IsASeq, LenProperties
<1>2. s # << >> /\ s[n] = e
  BY <1>1, EmptySeq
<1> QED
  BY <1>1, <1>2

(* Nothing is on its way from a topic without labels.                      *)
LEMMA BoundFinite ==
  ASSUME MqttAssumption, NEW t
  PROVE  /\ Cardinality(Bound(t)) \in Nat
         /\ Bound(t) # {} => Cardinality(Bound(t)) # 0
BY FS_Subset, FS_CardinalityType, FS_EmptySet DEF MqttAssumption, Bound

-------------------------------------------------------------------------------
LEMMA InitIInv == MqttAssumption /\ Init => IInv
<1> SUFFICES ASSUME MqttAssumption, Init PROVE IInv
  OBVIOUS
<1>1. Default[1] \in Brokers /\ Default[2] \in Accounts
  BY DEF MqttAssumption
<1>2. << >> \in Seq(Values)
  BY EmptySeq
<1>3. Retry \in 0..(Retry + 1)
  BY DEF MqttAssumption
<1>4. NoMessages \in [Topics -> Seq(Values)]
  BY <1>2 DEF NoMessages
<1>5. MqttTypeOK
  BY <1>1, <1>3, <1>4 DEF Init, MqttTypeOK, MqttAssumption, NoMessages
<1> QED
  BY <1>5 DEF Init, IInv, SessionIsKnown, SubscriptionsFollow, AllUpToDate, SavedAccountWorks,
              StaysOff

(* Without a session there is nothing to keep up to date.                  *)
LEMMA SessionEndsPreserves ==
  ASSUME IInv, MqttTypeOK', ~session', UNCHANGED <<file, preference, enabled>>
  PROVE  IInv'
BY DEF IInv, SessionIsKnown, SubscriptionsFollow, AllUpToDate, SavedAccountWorks, StaysOff

(* Steps that leave labels and connection alone.                           *)
LEMMA UntouchedLink ==
  ASSUME IInv, MqttTypeOK', UNCHANGED <<labels, link, current, file>>, StaysOff'
  PROVE  IInv'
BY DEF IInv, labels, link, SessionIsKnown, SubscriptionsFollow, Subscribed, Bound, AllUpToDate,
       UpToDate, SavedAccountWorks

LEMMA BindPreserves ==
  ASSUME MqttAssumption, IInv, NEW l \in Labels, NEW t \in Topics, AddLabel(l, t)
  PROVE  IInv'
<1> USE DEF IInv, AddLabel, mqttBindTextEvent, RegisterText
<1>1. inbox[t] \in Seq(Values) /\ current[t] \in Values
  BY DEF MqttTypeOK
<1>2. t # Nothing
  BY DEF MqttAssumption
<1> DEFINE q == Append(inbox[t], current[t])
<1>3. q \in Seq(Values) /\ q # << >> /\ q[Len(q)] = current[t]
  BY <1>1, LastOfAppend
<1>4. MqttTypeOK'
  <2>1. /\ bound' \in [Labels -> Topics \cup {Nothing}]
        /\ text' \in [Labels -> Values \cup {Nothing}]
    BY DEF MqttTypeOK
  <2>2. subs' \in SUBSET Topics
    BY DEF MqttTypeOK
  <2>3. inbox' \in [Topics -> Seq(Values)]
    BY <1>3 DEF MqttTypeOK
  <2> QED
    BY <2>1, <2>2, <2>3 DEF MqttTypeOK, settings
<1>5. SessionIsKnown' /\ SavedAccountWorks' /\ StaysOff'
  BY DEF SessionIsKnown, SavedAccountWorks, StaysOff, settings
<1>6. ASSUME session PROVE SubscriptionsFollow' /\ AllUpToDate'
  <2>1. client /\ subs' = subs \cup {t} /\ inbox' = [inbox EXCEPT ![t] = q]
    BY <1>6 DEF SessionIsKnown
  <2>2. Bound(t)' # {} /\ \A u \in Topics \ {t} : Bound(u)' = Bound(u)
    BY DEF Bound, MqttTypeOK, MqttAssumption
  <2>3. SubscriptionsFollow'
    BY <1>6, <2>1, <2>2 DEF SubscriptionsFollow, Subscribed
  <2>4. ASSUME NEW k \in Labels PROVE UpToDate(k)'
    <3>1. CASE bound'[k] = t
      <4>1. inbox'[t] = q /\ current' = current
        BY <2>1 DEF MqttTypeOK
      <4> QED
        BY <3>1, <4>1, <1>3 DEF UpToDate
    <3>2. CASE bound'[k] # t
      <4>1. k # l /\ bound'[k] = bound[k] /\ text'[k] = text[k]
        BY <3>2 DEF MqttTypeOK
      <4>2. bound[k] # Nothing => inbox'[bound[k]] = inbox[bound[k]]
        BY <4>1, <3>2, <2>1 DEF MqttTypeOK
      <4> QED
        BY <4>1, <4>2, <1>6 DEF UpToDate, AllUpToDate
    <3> QED
      BY <3>1, <3>2
  <2> QED
    BY <2>3, <2>4 DEF AllUpToDate
<1> QED
  BY <1>4, <1>5, <1>6 DEF SubscriptionsFollow, AllUpToDate

LEMMA ClosePreserves ==
  ASSUME MqttAssumption, IInv, NEW ls \in SUBSET Labels, ClosePage(ls)
  PROVE  IInv'
<1> USE DEF IInv, ClosePage, mqttUnBindTextEvents, DeleteTexts
<1>1. MqttTypeOK'
  BY DEF MqttTypeOK, settings
<1>2. SessionIsKnown' /\ SavedAccountWorks' /\ StaysOff'
  BY DEF SessionIsKnown, SavedAccountWorks, StaysOff, settings
<1>3. SubscriptionsFollow'
  <2>1. \A t \in Topics : Bound(t)' = Bound(t) \ ls
    BY DEF Bound, MqttTypeOK, MqttAssumption
  <2>2. \A t \in Topics : Bound(t)' # {} <=> Bound(t) # {} /\ t \notin Unbound(ls)
    BY <2>1 DEF Unbound
  <2>3. Subscribed' = Subscribed \ Unbound(ls)
    BY <2>2 DEF Subscribed
  <2> QED
    BY <2>3 DEF SubscriptionsFollow, SessionIsKnown
<1>4. ASSUME session, NEW k \in Labels PROVE UpToDate(k)'
  <2>1. bound'[k] # Nothing => bound'[k] = bound[k] /\ text'[k] = text[k]
    BY DEF MqttTypeOK
  <2> QED
    BY <1>4, <2>1 DEF AllUpToDate, UpToDate
<1> QED
  BY <1>1, <1>2, <1>3, <1>4 DEF AllUpToDate

LEMMA ReceivePreserves ==
  ASSUME MqttAssumption, IInv, NEW t \in Topics, Receive(t)
  PROVE  IInv'
<1> USE DEF IInv, Receive
<1> DEFINE q == inbox[t]
<1>1. q \in Seq(Values) /\ q # << >>
  BY DEF MqttTypeOK
<1>2. /\ Tail(q) \in Seq(Values) /\ Head(q) \in Values
      /\ Tail(q) = << >> => Head(q) = q[Len(q)]
      /\ Tail(q) # << >> => Tail(q)[Len(Tail(q))] = q[Len(q)]
  BY <1>1, LastOfTail
<1>3. MqttTypeOK'
  BY <1>2 DEF MqttTypeOK, TextAfter, settings
<1>4. SessionIsKnown' /\ SavedAccountWorks' /\ StaysOff' /\ SubscriptionsFollow'
  BY DEF SessionIsKnown, SavedAccountWorks, StaysOff, SubscriptionsFollow, Subscribed, Bound,
         settings
<1>5. ASSUME session, NEW k \in Labels PROVE UpToDate(k)'
  <2>1. UpToDate(k)
    BY <1>5 DEF AllUpToDate
  <2>2. CASE bound[k] = t
    <3>1. text'[k] = Head(q) /\ inbox'[t] = Tail(q) /\ bound'[k] = t /\ current' = current
      BY <2>2 DEF TextAfter, MqttTypeOK
    <3>2. q[Len(q)] = current[t]
      BY <2>1, <2>2, <1>1 DEF UpToDate, MqttAssumption
    <3> QED
      BY <3>1, <3>2, <1>2 DEF UpToDate
  <2>3. CASE bound[k] # t
    <3>1. text'[k] = text[k] /\ bound'[k] = bound[k] /\ current' = current
      BY <2>3 DEF TextAfter
    <3>2. bound[k] # Nothing => inbox'[bound[k]] = inbox[bound[k]]
      BY <2>3 DEF MqttTypeOK
    <3> QED
      BY <3>1, <3>2, <2>1 DEF UpToDate
  <2> QED
    BY <2>2, <2>3
<1> QED
  BY <1>3, <1>4, <1>5 DEF AllUpToDate

LEMMA ConnectPreserves ==
  ASSUME MqttAssumption, IInv, ConnectSucceeds
  PROVE  IInv'
<1> USE DEF IInv, ConnectSucceeds, mqttSaveCredentials
<1> DEFINE copies(t) == [i \in 1..Cardinality(Bound(t)) |-> current[t]]
<1>1. ASSUME NEW t \in Subscribed
      PROVE  copies(t) \in Seq(Values) /\ copies(t) # << >>
             /\ copies(t)[Len(copies(t))] = current[t]
  <2>1. current[t] \in Values
    BY DEF MqttTypeOK, Subscribed
  <2>2. Cardinality(Bound(t)) \in Nat /\ Cardinality(Bound(t)) # 0
    BY BoundFinite DEF Subscribed
  <2> QED
    BY <2>1, <2>2, LastOfCopies
<1>2. inbox' \in [Topics -> Seq(Values)]
  BY <1>1, EmptySeq
<1>3. file' \in (Brokers \X Accounts) \cup {Nothing} /\ saveOnConnect' \in BOOLEAN
  <2>1. file \in (Brokers \X Accounts) \cup {Nothing} /\ saveOnConnect \in BOOLEAN
        /\ <<broker, account>> \in Brokers \X Accounts
    BY DEF MqttTypeOK
  <2> QED
    BY <2>1
<1>4. /\ UNCHANGED <<wifi, labels, current, settings>>
      /\ client' = TRUE /\ session' = TRUE /\ elapsed' = 0 /\ force' = FALSE
      /\ subs' = Subscribed /\ subs' \in SUBSET Topics
  BY DEF Attempted, Subscribed
<1>5. MqttTypeOK'
  <2>1. 0 \in 0..(Retry + 1)
    BY DEF MqttAssumption
  <2> QED
    BY <1>2, <1>3, <1>4, <2>1 DEF MqttTypeOK, labels, settings
<1>6. SessionIsKnown' /\ SubscriptionsFollow' /\ StaysOff'
  BY <1>4 DEF SessionIsKnown, SubscriptionsFollow, Subscribed, Bound, StaysOff, labels, settings
<1>7. SavedAccountWorks'
  <2>1. CASE file' = file
    BY <2>1 DEF SavedAccountWorks
  <2>2. CASE file' = <<broker, account>>
    BY <2>2 DEF SavedAccountWorks
  <2> QED
    BY <2>1, <2>2
<1>8. ASSUME NEW k \in Labels, bound'[k] # Nothing PROVE UpToDate(k)'
  <2>1. bound'[k] = bound[k] /\ bound[k] \in Topics /\ k \in Bound(bound[k])
    BY <1>8, <1>4 DEF labels, Bound, MqttTypeOK
  <2>2. bound[k] \in Subscribed
    BY <2>1 DEF Subscribed
  <2>3. inbox'[bound[k]] = copies(bound[k])
    BY <2>1, <2>2
  <2>4. /\ inbox'[bound'[k]] # << >>
        /\ inbox'[bound'[k]][Len(inbox'[bound'[k]])] = current[bound'[k]]
    BY <2>1, <2>2, <2>3, <1>1
  <2> QED
    BY <2>4, <1>4 DEF UpToDate
<1>9. AllUpToDate'
  BY <1>8 DEF AllUpToDate, UpToDate
<1> QED
  BY <1>5, <1>6, <1>7, <1>9

LEMMA PublishPreserves ==
  ASSUME MqttAssumption, IInv, NEW t \in Topics, NEW v \in Values, Publish(t, v)
  PROVE  IInv'
<1> USE DEF IInv, Publish
<1> DEFINE q == Append(inbox[t], v)
<1>1. q \in Seq(Values) /\ q # << >> /\ q[Len(q)] = v
  <2>1. inbox[t] \in Seq(Values)
    BY DEF MqttTypeOK
  <2> QED
    BY <2>1, LastOfAppend
<1>2. MqttTypeOK'
  BY <1>1 DEF MqttTypeOK, labels, settings
<1>3. SessionIsKnown' /\ SavedAccountWorks' /\ StaysOff' /\ SubscriptionsFollow'
  BY DEF SessionIsKnown, SavedAccountWorks, StaysOff, SubscriptionsFollow, Subscribed, Bound,
         labels, settings
<1>4. ASSUME session, NEW k \in Labels PROVE UpToDate(k)'
  <2>1. UpToDate(k) /\ bound' = bound /\ text' = text
    BY <1>4 DEF AllUpToDate, labels
  <2>2. CASE bound[k] = t
    <3>1. t \in subs
      BY <2>2, <1>4 DEF SubscriptionsFollow, Subscribed, Bound
    <3>2. inbox'[t] = q /\ current'[t] = v
      BY <3>1 DEF MqttTypeOK
    <3> QED
      BY <2>1, <2>2, <3>2, <1>1 DEF UpToDate
  <2>3. CASE bound[k] # t
    <3>1. bound[k] # Nothing => bound[k] \in Topics
      BY DEF MqttTypeOK
    <3>2. bound[k] # Nothing => inbox'[bound[k]] = inbox[bound[k]]
                                /\ current'[bound[k]] = current[bound[k]]
      BY <2>3, <3>1 DEF MqttTypeOK
    <3> QED
      BY <2>1, <3>2 DEF UpToDate
  <2> QED
    BY <2>2, <2>3
<1> QED
  BY <1>2, <1>3, <1>4 DEF AllUpToDate

-------------------------------------------------------------------------------
(* Types                                                                   *)

LEMMA RestartTypes == ASSUME MqttAssumption, IInv, Restart PROVE IInv'
<1> USE DEF IInv, Restart, Started
<1>1. Settings(file)[1] \in Brokers /\ Settings(file)[2] \in Accounts
  BY DEF Settings, MqttAssumption, MqttTypeOK
<1>2. NoMessages \in [Topics -> Seq(Values)]
  BY EmptySeq DEF NoMessages
<1>3. Retry \in 0..(Retry + 1)
  BY DEF MqttAssumption
<1>4. EnabledAfterStart \in BOOLEAN
  BY DEF EnabledAfterStart, MqttTypeOK
<1>5. MqttTypeOK'
  BY <1>1, <1>2, <1>3, <1>4 DEF MqttTypeOK
<1> QED
  BY <1>5 DEF SessionIsKnown, SubscriptionsFollow, AllUpToDate, SavedAccountWorks, StaysOff,
              EnabledAfterStart

LEMMA ReconnectPreserves == ASSUME MqttAssumption, IInv, Reconnect PROVE IInv'
<1> USE DEF IInv, Reconnect, setupMqttBroker
<1>1. NoMessages \in [Topics -> Seq(Values)]
  BY EmptySeq DEF NoMessages
<1>2. Retry \in 0..(Retry + 1)
  BY DEF MqttAssumption
<1>3. MqttTypeOK'
  BY <1>1, <1>2 DEF MqttTypeOK, labels
<1> QED
  BY <1>3, SessionEndsPreserves

(* The loop finds the connection gone.                                     *)
LEMMA NoticePreserves == ASSUME MqttAssumption, IInv, Notice \/ ConnectFails PROVE IInv'
<1> USE DEF IInv
<1>1. NoMessages \in [Topics -> Seq(Values)]
  BY EmptySeq DEF NoMessages
<1>2. 0 \in 0..(Retry + 1)
  BY DEF MqttAssumption
<1>3. MqttTypeOK'
  BY <1>1, <1>2 DEF MqttTypeOK, Notice, ConnectFails, Attempted, labels, settings
<1>4. ~session'
  BY DEF Notice, ConnectFails, Attempted, NotConnected, SessionIsKnown
<1> QED
  BY <1>3, <1>4, SessionEndsPreserves DEF Notice, ConnectFails, settings

LEMMA LostPreserves == ASSUME MqttAssumption, IInv, Drop \/ WifiDown \/ LightSleep PROVE IInv'
<1> USE DEF IInv
<1>1. elapsed' \in 0..(Retry + 1)
  <2>1. elapsed \in 0..(Retry + 1) /\ Retry \in Nat
    BY DEF MqttTypeOK, MqttAssumption
  <2>2. elapsed..(Retry + 1) \subseteq 0..(Retry + 1)
    BY <2>1
  <2>3. elapsed' = elapsed \/ elapsed' \in elapsed..(Retry + 1)
    BY DEF Drop, WifiDown, LightSleep
  <2> QED
    BY <2>1, <2>2, <2>3
<1>2. /\ UNCHANGED <<labels, client, inbox, current, saveOnConnect, settings, file>>
      /\ session' = FALSE /\ subs' = {}
      /\ wifi' \in BOOLEAN /\ force' \in BOOLEAN
  BY DEF Drop, WifiDown, LightSleep, SessionEnds, MqttTypeOK
<1>3. MqttTypeOK'
  BY <1>1, <1>2 DEF MqttTypeOK, labels, settings
<1> QED
  BY <1>2, <1>3, SessionEndsPreserves DEF settings

LEMMA SettingsPreserve ==
  ASSUME MqttAssumption, IInv,
         \/ \E b \in Brokers : mqttSetBroker(b)
         \/ \E a \in Accounts : SetAccount(a)
         \/ \E b \in BOOLEAN : enableMqtt(b)
  PROVE  IInv'
<1> USE DEF IInv
<1>1. /\ UNCHANGED <<wifi, labels, link, current, elapsed, force, saveOnConnect, file>>
      /\ broker' \in Brokers /\ account' \in Accounts /\ server' \in Brokers \cup {Nothing}
      /\ enabled' \in BOOLEAN /\ preference' \in BOOLEAN
  BY DEF MqttTypeOK, mqttSetBroker, SetAccount, enableMqtt
<1>2. MqttTypeOK'
  BY <1>1 DEF MqttTypeOK, labels, link
<1>3. StaysOff'
  BY DEF StaysOff, mqttSetBroker, SetAccount, enableMqtt
<1> QED
  BY <1>1, <1>2, <1>3, UntouchedLink

LEMMA WaitingPreserves == ASSUME MqttAssumption, IInv, Tick \/ WifiUp PROVE IInv'
<1> USE DEF IInv
<1>1. elapsed' \in 0..(Retry + 1)
  BY DEF MqttTypeOK, MqttAssumption, Tick, WifiUp
<1>2. MqttTypeOK'
  BY <1>1 DEF MqttTypeOK, Tick, WifiUp, labels, link, settings
<1> QED
  BY <1>2, UntouchedLink DEF Tick, WifiUp, StaysOff, settings

-------------------------------------------------------------------------------
LEMMA NextIInv == MqttAssumption /\ IInv /\ [Next]_vars => IInv'
<1> SUFFICES ASSUME MqttAssumption, IInv, [Next]_vars PROVE IInv'
  OBVIOUS
<1>1. CASE Sync
  BY <1>1, ReceivePreserves, NoticePreserves, ConnectPreserves DEF Sync
<1>2. CASE Page
  BY <1>2, BindPreserves, ClosePreserves DEF Page
<1>3. CASE SettingsPage
  BY <1>3, SettingsPreserve, ReconnectPreserves DEF SettingsPage
<1>4. CASE World
  BY <1>4, PublishPreserves, WaitingPreserves, LostPreserves, RestartTypes DEF World
<1>5. CASE UNCHANGED vars
  <2>1. MqttTypeOK' /\ StaysOff'
    BY <1>5 DEF IInv, MqttTypeOK, StaysOff, vars, labels, link, settings
  <2> QED
    BY <1>5, <2>1, UntouchedLink DEF vars
<1> QED
  BY <1>1, <1>2, <1>3, <1>4, <1>5 DEF Next

(* Whatever the order in which pages open and close, connections break and *)
(* are made again, and the settings change: in a session the broker knows  *)
(* the topics of the labels on the screen and no other, a label with no    *)
(* message on its way shows what was last published, only settings that    *)
(* made a connection are kept, and a restart does not switch on what was   *)
(* switched off (wifihandler.cpp:235-360).                                 *)
THEOREM MqttInvariant == Spec => []MqttSafe
<1>1. IInv => MqttSafe
  <2>1. IInv => LabelsCurrent
    BY DEF IInv, AllUpToDate, UpToDate, LabelsCurrent
  <2> QED  BY <2>1 DEF IInv, MqttSafe
<1> QED
  BY <1>1, InitIInv, NextIInv, MqttAssumption, PTL DEF Spec
================================================================================
