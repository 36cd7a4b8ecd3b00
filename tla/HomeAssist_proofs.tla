--------------------------- MODULE HomeAssist_proofs ---------------------------
(***************************************************************************)
(* Theorems about Home Assistant.  The connection, for any heap, sessions, *)
(* losses and events: requests go out once, in the order of their ids, to  *)
(* a server that took the token, and no hole is met in the map.  Messages, *)
(* for any lengths, division into events and heap: they are handled whole, *)
(* in order and once.                                                      *)
(***************************************************************************)
EXTENDS HomeAssistApi, HomeAssistMessages, SequenceTheorems, FiniteSetTheorems, WellFoundedInduction,
        TLAPS

Kinds    == {"watch", "command", "query"}
Received == [type : {"auth_required", "auth_ok", "auth_invalid", "result", "event"},
             id : 0..MaxSessions]
Handles  == [state : {"free", "opening", "open", "closed"},
             server : {"none", "asked", "authed", "refused"},
             inbox : Seq(Received), last : 0..MaxSessions]
Sessions == [kind : Kinds, request : BOOLEAN, running : BOOLEAN, listener : BOOLEAN]
Pasts    == [leaked : BOOLEAN, refused : BOOLEAN, reused : BOOLEAN, hole : BOOLEAN,
             unheard : BOOLEAN, sent : [Ids -> Nat]]

SessionsTyped ==
  /\ nextId \in 1..MaxSessions + 1 /\ DOMAIN sessions \subseteq 0..nextId-1
  /\ \A i \in DOMAIN sessions :
       sessions[i] # NoSession => sessions[i] \in Sessions /\ i # 0

ApiTypes ==
  /\ room \in Rooms /\ wifiUp \in BOOLEAN /\ token \in BOOLEAN /\ faults \in 0..MaxFaults
  /\ client \in 0..room.clients /\ isConnected \in BOOLEAN
  /\ net \in [Clients -> Handles] /\ queue \in Seq(Received) /\ past \in Pasts
  /\ connection \in {"Initializing", "Connected", "Disconnected"} /\ auth \in {"none", "new", "sent"}
  /\ retryDue \in BOOLEAN /\ authDue \in BOOLEAN
  /\ loop \in {"construct", "idle", "attempt", "start", "messages"}

Real(i) == i \in DOMAIN sessions /\ sessions[i] # NoSession

(* What was sent belongs to a session that has given its request away.     *)
SentIsGiven == \A i \in Ids : past.sent[i] # 0 => past.sent[i] = 1 /\ Real(i) /\ ~sessions[i].request

(* A server has seen no id of a session that is still to be started.       *)
SeenIsOld == \A c \in Clients : net[c].last < nextId /\ \A i \in ToStart : net[c].last < i

(* A message that names a session names one that is there.                 *)
Named(message) == message.id # 0 => Real(message.id)
NamesAreReal ==
  /\ \A k \in DOMAIN queue : Named(queue[k])
  /\ \A c \in Clients : \A k \in DOMAIN net[c].inbox : Named(net[c].inbox[k])

(* The loop that starts sessions comes after the one that cleans up, and   *)
(* messages are read while there are any.                                  *)
LoopIsReady ==
  /\ loop = "start" => \A i \in DOMAIN sessions : Real(i)
  /\ loop = "messages" => queue # << >>

(* Only a server that took the token has said so.                          *)
SaysWhatItIs ==
  \A c \in Clients : \A k \in DOMAIN net[c].inbox :
    net[c].inbox[k].type = "auth_ok" => net[c].server = "authed"

(* A token that is refused opens nothing.                                  *)
StaysOut == ~token => /\ connection # "Connected"
                      /\ \A c \in Clients : net[c].server # "authed"
                      /\ \A i \in Ids : past.sent[i] = 0

(* While no handle was lost, what is connected is the client on hand.      *)
OneHandle ==
  ~past.leaked =>
    /\ \A c \in Clients : c # client => net[c] = Free
    /\ isConnected <=> client # 0 /\ net[client].state = "open"
    /\ connection = "Connected" => isConnected /\ net[client].server = "authed"

Rest == /\ SentIsGiven /\ SeenIsOld /\ NamesAreReal /\ SaysWhatItIs /\ StaysOut
        /\ ~past.hole /\ ~past.reused
ApiInv ==
  /\ ApiTypes /\ SessionsTyped /\ LoopIsReady /\ Rest
  /\ OneHandle /\ (past.refused => past.leaked)

-------------------------------------------------------------------------------
(* The bounds of a behaviour.                                              *)
LEMMA RoomFacts ==
  ASSUME ApiAssumption, room \in Rooms
  PROVE  /\ room.clients \in Nat \ {0} /\ MaxSessions \in Nat /\ MaxFaults \in Nat
         /\ \A i \in Ids : room.kinds[i] \in Kinds
<1>1. room.clients \in Nat \ {0} /\ room.kinds \in Seq(Kinds) /\ MaxFaults \in Nat
  BY DEF ApiAssumption, Kinds
<1> QED
  BY <1>1, LenProperties, ElementOfSeq DEF MaxSessions, Ids

LEMMA RoomStays ==
  ASSUME room' = room
  PROVE  /\ Clients' = Clients /\ Handles' = Handles /\ Received' = Received /\ Pasts' = Pasts
         /\ Ids' = Ids /\ MaxSessions' = MaxSessions
BY DEF Clients, Handles, Received, Pasts, Ids, MaxSessions

LEMMA NobodyIsReal == NoSession.kind = "none" /\ ~NoSession.request /\ NoSession \notin Sessions
BY DEF NoSession, AddedSession, Sessions, Kinds

LEMMA StartedAreReal ==
  ASSUME MaxSessions \in Nat, SessionsTyped, NEW i \in ToStart
  PROVE  Real(i) /\ i \in Ids /\ i < nextId /\ sessions[i].request
<1>1. Real(i) /\ sessions[i].request
  BY NobodyIsReal DEF ToStart, Real
<1> QED
  BY <1>1 DEF Real, SessionsTyped, Ids

LEMMA HandlesToBegin ==
  ASSUME MaxSessions \in Nat
  PROVE  /\ << >> \in Seq(Received)
         /\ Free \in Handles /\ Opening \in Handles
         /\ Free.inbox = << >> /\ Free.server = "none" /\ Free.last = 0 /\ Free.state = "free"
         /\ Opening = [state |-> "opening", server |-> "none", inbox |-> << >>, last |-> 0]
<1>1. << >> \in Seq(Received) /\ 0 \in 0..MaxSessions
  BY EmptySeq
<1>2. Opening = [state |-> "opening", server |-> "none", inbox |-> << >>, last |-> 0]
  BY DEF Free, Opening
<1>3. Free \in Handles
  BY <1>1 DEF Free, Handles
<1>4. Opening \in Handles
  BY <1>1, <1>2 DEF Handles
<1> QED
  BY <1>1, <1>2, <1>3, <1>4 DEF Free

-------------------------------------------------------------------------------
(* What most steps make of a client: it forgets, or hears what is no news. *)
Follows(h, g) ==
  /\ g.last \in {0, h.last} /\ (g.server = "authed" => token)
  /\ \A k \in DOMAIN g.inbox : Named(g.inbox[k]) /\ (g.inbox[k].type = "auth_ok" => g.server = "authed")

LEMMA StaysTheSame ==
  ASSUME ApiInv, NEW c \in Clients PROVE Follows(net[c], net[c])
BY DEF Follows, ApiInv, Rest, StaysOut, NamesAreReal, SaysWhatItIs, ApiTypes

LEMMA Begins ==
  ASSUME NEW h, NEW g, g.inbox = << >>, g.server = "none", g.last = 0
  PROVE  Follows(h, g)
BY DEF Follows

(* A step that leaves the sessions be.                                     *)
Unmoved(i) ==
  /\ Real(i)' <=> Real(i)
  /\ Real(i) => /\ sessions'[i].request = sessions[i].request
                /\ sessions'[i].running = sessions[i].running

LEMMA QuietStep ==
  ASSUME ApiAssumption, ApiInv, ApiTypes', SessionsTyped', UNCHANGED <<room, token, nextId>>,
         \A i : Unmoved(i), \A c \in Clients : Follows(net[c], net'[c]),
         \A k \in DOMAIN queue' : Named(queue'[k]),
         connection' = "Connected" => connection = "Connected" \/ token,
         past'.sent = past.sent, past'.hole = past.hole, past'.reused = past.reused
  PROVE  Rest'
<1> USE DEF ApiInv, Rest
<1>0. room.clients \in Nat \ {0} /\ MaxSessions \in Nat
  BY RoomFacts DEF ApiTypes
<1>1. Clients' = Clients /\ Ids' = Ids
  BY DEF Clients, Ids, MaxSessions
<1>2. SentIsGiven'
  BY <1>1 DEF SentIsGiven, Unmoved
<1>3. ASSUME NEW i \in ToStart' PROVE i \in ToStart
  <2>1. Real(i)' /\ sessions'[i].request /\ ~sessions'[i].running
    BY <1>3, NobodyIsReal DEF ToStart, Real
  <2> QED
    BY <2>1 DEF Unmoved, Real, ToStart
<1>4. SeenIsOld'
  <2>1. \A c \in Clients : net[c].last \in Nat /\ net'[c].last \in {0, net[c].last}
    BY <1>0 DEF ApiTypes, Handles, Follows
  <2>2. \A i \in ToStart : i \in Nat \ {0}
    BY StartedAreReal, <1>0 DEF Ids
  <2>3. nextId \in Nat \ {0}
    BY <1>0 DEF SessionsTyped
  <2> QED
    BY <1>1, <1>3, <2>1, <2>2, <2>3 DEF SeenIsOld
<1>5. \A m : Named(m) => Named(m)'
  BY DEF Named, Unmoved
<1>6. NamesAreReal'
  BY <1>1, <1>5 DEF NamesAreReal, Named, Follows, Unmoved
<1>7. SaysWhatItIs'
  BY <1>1 DEF SaysWhatItIs, Follows
<1>8. StaysOut'
  BY <1>1 DEF StaysOut, Follows
<1> QED
  BY <1>2, <1>4, <1>6, <1>7, <1>8

(* With the sessions as they are, not even those can be named that were    *)
(* not there.                                                              *)
LEMMA StillStep ==
  ASSUME ApiAssumption, ApiInv, ApiTypes', UNCHANGED <<room, token, nextId, sessions>>,
         \A c \in Clients : Follows(net[c], net'[c]),
         \A k \in DOMAIN queue' : Named(queue'[k]),
         connection' = "Connected" => connection = "Connected" \/ token,
         past'.sent = past.sent, past'.hole = past.hole, past'.reused = past.reused,
         loop' = "start" => loop = "start", loop' = "messages" => queue' # << >>
  PROVE  SessionsTyped' /\ LoopIsReady' /\ Rest'
<1>1. SessionsTyped' /\ \A i : Unmoved(i)
  BY DEF ApiInv, SessionsTyped, Unmoved, Real, NoSession, AddedSession, Sessions, MaxSessions
<1>2. LoopIsReady'
  BY DEF ApiInv, LoopIsReady, Real
<1> QED
  BY <1>1, <1>2, QuietStep
-------------------------------------------------------------------------------
(* A new client is made in the heap that the last one left.                *)
LEMMA ConnectKeeps ==
  ASSUME ApiAssumption, ApiInv, NEW up \in BOOLEAN, connect(up)
  PROVE  /\ net' \in [Clients -> Handles] /\ client' \in 0..room.clients /\ past' \in Pasts
         /\ past' = [past EXCEPT !.leaked = past'.leaked] /\ (past.leaked => past'.leaked)
         /\ \A c \in Clients : Follows(net[c], net'[c])
         /\ ~past'.leaked => /\ \A c \in Clients : c # client' => net'[c] = Free
                             /\ isConnected <=> client' # 0 /\ net'[client'].state = "open"
                             /\ isConnected => client' = client /\ net' = net
<1> USE DEF ApiInv
<1>0. /\ room.clients \in Nat \ {0} /\ MaxSessions \in Nat
      /\ net \in [Clients -> Handles] /\ client \in 0..room.clients /\ past \in Pasts
      /\ isConnected \in BOOLEAN
  BY RoomFacts DEF ApiTypes
<1> DEFINE made == IF up THEN {c \in FreeClients : \A d \in FreeClients : c <= d} ELSE {}
<1>1. /\ net' = [c \in Clients |-> IF c \in made THEN Opening ELSE Stopped[c]]
      /\ client' = IF ~up THEN Kept ELSE IF made = {} THEN 0 ELSE CHOOSE c \in made : TRUE
      /\ past' = [past EXCEPT !.leaked = @ \/ (up /\ Kept # 0)]
      /\ isConnected' = isConnected
  BY DEF connect
<1>2. /\ made \subseteq FreeClients /\ FreeClients \subseteq Clients
      /\ \A c, d \in made : c = d
  BY <1>0 DEF FreeClients, Clients
<1>3. /\ Stopped \in [Clients -> Handles] /\ Kept \in 0..room.clients
      /\ \A c \in Clients : Stopped[c] = net[c] \/ Stopped[c] = Free
  <2>1. CASE Dropped
    <3>1. Kept = 0 /\ Stopped = [net EXCEPT ![client] = Free]
      BY <2>1 DEF Stopped, Kept
    <3>2. Free \in Handles
      BY <1>0, HandlesToBegin
    <3>3. Stopped \in [Clients -> Handles]
      BY <3>1, <3>2, <1>0
    <3> QED
      BY <3>1, <3>2, <3>3, <1>0
  <2>2. CASE ~Dropped
    BY <2>2, <1>0 DEF Stopped, Kept
  <2> QED
    BY <2>1, <2>2
<1>4. made # {} => client' \in made /\ client' \in Clients /\ made = {client'}
  <2>1. ASSUME made # {} PROVE client' \in made
    <3>1. up
      BY <2>1
    <3> QED
      BY <1>1, <2>1, <3>1
  <2> QED
    BY <1>2, <2>1
<1>5. client' \in 0..room.clients
  BY <1>0, <1>1, <1>2, <1>3, <1>4 DEF Clients
<1>6. net' \in [Clients -> Handles]
  BY <1>1, <1>3, <1>0, HandlesToBegin
<1>7. past' \in Pasts /\ past' = [past EXCEPT !.leaked = past'.leaked] /\ (past.leaked => past'.leaked)
  BY <1>0, <1>1 DEF Pasts
<1>8. ASSUME NEW c \in Clients PROVE Follows(net[c], net'[c])
  <2>1. CASE c \in made
    BY <2>1, <1>1, <1>0, HandlesToBegin, Begins
  <2>2. CASE c \notin made /\ Stopped[c] = Free
    BY <2>2, <1>1, <1>0, HandlesToBegin, Begins
  <2>3. CASE c \notin made /\ Stopped[c] = net[c]
    BY <2>3, <1>1, StaysTheSame
  <2> QED
    BY <1>3, <2>1, <2>2, <2>3
<1>9. ASSUME ~past'.leaked
      PROVE  /\ \A c \in Clients : c # client' => net'[c] = Free
             /\ isConnected <=> client' # 0 /\ net'[client'].state = "open"
             /\ isConnected => client' = client /\ net' = net
  <2>1. ~past.leaked /\ (up => Kept = 0)
    BY <1>0, <1>1, <1>9 DEF Pasts
  <2>2. /\ \A c \in Clients : c # client => net[c] = Free
        /\ isConnected <=> client # 0 /\ net[client].state = "open"
    BY <2>1 DEF OneHandle
  <2>3. CASE ~up
    <3>1. net' = Stopped /\ client' = Kept
      BY <1>1, <1>3, <2>3
    <3> QED
      BY <2>2, <3>1, <1>0 DEF Kept, Stopped, Dropped, Clients
  <2>4. CASE up
    <3>1. Kept = 0 /\ ~isConnected /\ (\A c \in Clients : Stopped[c] = Free)
      BY <2>1, <2>2, <2>4, <1>0 DEF Kept, Stopped, Dropped, Clients
    <3>2. \A c \in Clients : net'[c] = IF c \in made THEN Opening ELSE Free
      BY <1>1, <3>1
    <3>3. made = {} => client' = 0
      BY <1>1, <2>4
    <3> QED
      BY <3>1, <3>2, <3>3, <1>0, <1>4, HandlesToBegin DEF Clients
  <2> QED
    BY <2>3, <2>4
<1> QED
  BY <1>5, <1>6, <1>7, <1>8, <1>9
(* Where nothing is said to it, a queue names what it named.               *)
LEMMA QueueAsItWas ==
  ASSUME ApiInv, queue' = queue
  PROVE  \A k \in DOMAIN queue' : Named(queue'[k])
BY DEF ApiInv, Rest, NamesAreReal

LEMMA AttemptConnectionKeeps ==
  ASSUME ApiAssumption, ApiInv, AttemptConnection,
         UNCHANGED <<connection, sessions, nextId, queue, envVars>>, loop' = "idle"
  PROVE  ApiInv'
<1> USE DEF ApiInv
<1>0. connect(wifiUp) /\ wifiUp \in BOOLEAN /\ UNCHANGED isConnected
  BY DEF AttemptConnection, connect, ApiTypes
<1>1. /\ net' \in [Clients -> Handles] /\ client' \in 0..room.clients /\ past' \in Pasts
      /\ past' = [past EXCEPT !.leaked = past'.leaked] /\ (past.leaked => past'.leaked)
      /\ \A c \in Clients : Follows(net[c], net'[c])
      /\ ~past'.leaked => /\ \A c \in Clients : c # client' => net'[c] = Free
                          /\ isConnected <=> client' # 0 /\ net'[client'].state = "open"
                          /\ isConnected => client' = client /\ net' = net
  BY <1>0, ConnectKeeps
<1>2. /\ past'.sent = past.sent /\ past'.hole = past.hole /\ past'.reused = past.reused
      /\ past'.refused = past.refused
  BY <1>1 DEF ApiTypes, Pasts
<1>3. ApiTypes'
  BY <1>0, <1>1 DEF ApiTypes, AttemptConnection, envVars, Handles, Received, Pasts, Clients, Ids, MaxSessions
<1>4. SessionsTyped' /\ LoopIsReady' /\ Rest'
  BY <1>1, <1>2, <1>3, StillStep, QueueAsItWas DEF envVars
<1>5. OneHandle' /\ (past'.refused => past'.leaked)
  BY <1>0, <1>1, <1>2 DEF OneHandle, Clients, envVars
<1> QED
  BY <1>3, <1>4, <1>5

LEMMA ConstructKeeps == ASSUME ApiAssumption, ApiInv, Construct PROVE ApiInv'
BY AttemptConnectionKeeps DEF Construct

(* Steps that change no piece the invariant is about.                      *)
LEMMA NothingMoves ==
  ASSUME ApiAssumption, ApiInv, ApiTypes',
         UNCHANGED <<room, token, socketVars, connection, sessions, nextId, queue, past>>,
         loop' = loop \/ loop' \in {"idle", "attempt"}
  PROVE  ApiInv'
<1>1. \A c \in Clients : Follows(net[c], net'[c])
  BY StaysTheSame DEF socketVars
<1>2. loop' = "messages" => queue' # << >>
  BY DEF ApiInv, LoopIsReady
<1>3. SessionsTyped' /\ LoopIsReady' /\ Rest'
  BY <1>1, <1>2, StillStep, QueueAsItWas DEF ApiInv
<1> QED
  BY <1>3 DEF ApiInv, OneHandle, socketVars, Clients

LEMMA AttemptKeeps == ASSUME ApiAssumption, ApiInv, Attempt PROVE ApiInv'
<1>1. CASE connection = "Connected" \/ ~retryDue
  <2>1. ApiTypes'
    BY <1>1 DEF Attempt, ApiInv, ApiTypes, socketVars, timeVars, envVars, Clients, Handles, Received,
                Pasts, Ids, MaxSessions
  <2> QED
    BY <1>1, <2>1, NothingMoves DEF Attempt, envVars
<1>2. CASE ~(connection = "Connected" \/ ~retryDue)
  BY <1>2, AttemptConnectionKeeps DEF Attempt
<1> QED
  BY <1>1, <1>2

LEMMA WifiStatusKeeps == ASSUME ApiAssumption, ApiInv, WifiStatus PROVE ApiInv'
<1> USE DEF ApiInv
<1>0. connect(TRUE) /\ UNCHANGED isConnected
  BY DEF WifiStatus, connect
<1>1. /\ net' \in [Clients -> Handles] /\ client' \in 0..room.clients /\ past' \in Pasts
      /\ past' = [past EXCEPT !.leaked = past'.leaked] /\ (past.leaked => past'.leaked)
      /\ \A c \in Clients : Follows(net[c], net'[c])
      /\ ~past'.leaked => /\ \A c \in Clients : c # client' => net'[c] = Free
                          /\ isConnected <=> client' # 0 /\ net'[client'].state = "open"
                          /\ isConnected => client' = client /\ net' = net
  BY <1>0, ConnectKeeps
<1>2. /\ past'.sent = past.sent /\ past'.hole = past.hole /\ past'.reused = past.reused
      /\ past'.refused = past.refused
  BY <1>1 DEF ApiTypes, Pasts
<1>3. ApiTypes'
  <2>1. faults' \in 0..MaxFaults /\ wifiUp' = TRUE
    BY DEF WifiStatus, ApiTypes, ApiAssumption
  <2> QED
    BY <1>0, <1>1, <2>1 DEF WifiStatus, ApiTypes, apiVars, timeVars, Handles, Received, Pasts, Clients, Ids,
                       MaxSessions
<1>4. SessionsTyped' /\ LoopIsReady' /\ Rest'
  <2>1. UNCHANGED <<room, token, connection, sessions, nextId, queue, loop>>
    BY DEF WifiStatus, apiVars
  <2> QED
    BY <1>1, <1>2, <1>3, <2>1, StillStep, QueueAsItWas DEF LoopIsReady
<1>5. OneHandle' /\ (past'.refused => past'.leaked)
  <2>1. UNCHANGED <<room, connection>>
    BY DEF WifiStatus, apiVars
  <2> QED
    BY <1>0, <1>1, <1>2, <2>1 DEF OneHandle, Clients
<1> QED
  BY <1>3, <1>4, <1>5

LEMMA WifiLostKeeps == ASSUME ApiAssumption, ApiInv, WifiLost PROVE ApiInv'
<1>1. ApiTypes'
  <2>1. faults' \in 0..MaxFaults /\ wifiUp' = FALSE
    BY DEF WifiLost, ApiInv, ApiTypes, ApiAssumption
  <2> QED
    BY <2>1, RoomStays DEF WifiLost, ApiInv, ApiTypes, socketVars, apiVars, timeVars
<1> QED
  BY <1>1, NothingMoves DEF WifiLost, apiVars

LEMMA ElapseKeeps == ASSUME ApiAssumption, ApiInv, Elapse PROVE ApiInv'
<1>1. ApiTypes'
  <2>1. retryDue' \in BOOLEAN /\ authDue' \in BOOLEAN
    BY DEF Elapse, ApiInv, ApiTypes
  <2> QED
    BY <2>1, RoomStays DEF Elapse, ApiInv, ApiTypes, socketVars, apiVars, envVars
<1> QED
  BY <1>1, NothingMoves DEF Elapse, apiVars, envVars
-------------------------------------------------------------------------------
(* The clients' own steps.                                                 *)
LEMMA OneClientMoves ==
  ASSUME ApiInv, NEW c \in Clients, NEW g \in Handles, Follows(net[c], g), net' = [net EXCEPT ![c] = g]
  PROVE  /\ net' \in [Clients -> Handles] /\ \A d \in Clients : Follows(net[d], net'[d])
         /\ net'[c] = g /\ \A d \in Clients : d # c => net'[d] = net[d]
<1>1. net \in [Clients -> Handles]
  BY DEF ApiInv, ApiTypes
<1>2. /\ net' \in [Clients -> Handles]
      /\ net'[c] = g /\ \A d \in Clients : d # c => net'[d] = net[d]
  BY <1>1
<1> QED
  BY <1>2, StaysTheSame

(* The past, but for the messages that nobody heard.                       *)
PastStays == past' \in Pasts /\ past' = [past EXCEPT !.unheard = past'.unheard]

LEMMA PastAsItWas == ASSUME ApiInv, past' = past PROVE PastStays
BY DEF PastStays, Pasts, ApiInv, ApiTypes

LEMMA PastStaysMeans ==
  ASSUME ApiInv, PastStays
  PROVE  /\ past'.sent = past.sent /\ past'.hole = past.hole /\ past'.reused = past.reused
         /\ past'.refused = past.refused /\ past'.leaked = past.leaked
BY DEF PastStays, Pasts, ApiInv, ApiTypes

LEMMA ClientStep ==
  ASSUME ApiAssumption, ApiInv, NEW c \in Clients, NEW g \in Handles, Follows(net[c], g),
         net' = [net EXCEPT ![c] = g], net[c].state # "free",
         UNCHANGED <<room, token, wifiUp, client, auth, sessions, nextId, queue, retryDue, loop>>, PastStays,
         faults' \in 0..MaxFaults, authDue' \in BOOLEAN, isConnected' \in BOOLEAN,
         \/ g.state # "open" /\ ~isConnected' /\ connection' = "Disconnected"
         \/ /\ connection' = connection
            /\ \/ net[c].state = "open" /\ g.state = "open" /\ isConnected' = isConnected
                  /\ (net[c].server = "authed" => g.server = "authed")
               \/ net[c].state # "open" /\ g.state = "open" /\ isConnected'
               \/ net[c].state # "open" /\ g.state # "open" /\ isConnected' = isConnected
  PROVE  ApiInv'
<1> USE DEF ApiInv
<1>1. /\ net' \in [Clients -> Handles] /\ \A d \in Clients : Follows(net[d], net'[d])
      /\ net'[c] = g /\ \A d \in Clients : d # c => net'[d] = net[d]
  BY OneClientMoves
<1>0. /\ past'.sent = past.sent /\ past'.hole = past.hole /\ past'.reused = past.reused
      /\ past'.refused = past.refused /\ past'.leaked = past.leaked
  BY PastStaysMeans
<1>2. ApiTypes'
  BY <1>1, RoomStays DEF ApiTypes, PastStays
<1>3. SessionsTyped' /\ LoopIsReady' /\ Rest'
  BY <1>0, <1>1, <1>2, StillStep, QueueAsItWas DEF LoopIsReady
<1>4. 0 \notin Clients /\ Free.state = "free"
  BY DEF Clients, Free
<1>5. OneHandle'
  <2>1. ~past.leaked => c = client
    BY <1>4 DEF OneHandle
  <2> QED
    BY <1>0, <1>1, <1>4, <2>1, RoomStays DEF OneHandle
<1> QED
  BY <1>0, <1>2, <1>3, <1>5

LEMMA ClosedHandle ==
  ASSUME MaxSessions \in Nat, NEW h
  PROVE  LET g == [Free EXCEPT !.state = "closed"]
         IN g \in Handles /\ Follows(h, g) /\ g.state = "closed"
<1> DEFINE g == [Free EXCEPT !.state = "closed"]
<1>1. g = [state |-> "closed", server |-> "none", inbox |-> << >>, last |-> 0]
  BY DEF Free
<1>2. g \in Handles
  BY <1>1, HandlesToBegin DEF Handles
<1> QED
  BY <1>1, <1>2, Begins

LEMMA SocketClosedKeeps ==
  ASSUME ApiAssumption, ApiInv, NEW c \in Clients, SocketClosed(c) PROVE ApiInv'
<1> DEFINE g == [Free EXCEPT !.state = "closed"]
<1>1. g \in Handles /\ Follows(net[c], g) /\ g.state = "closed"
  BY ClosedHandle, RoomFacts DEF ApiInv, ApiTypes
<1>2. faults' \in 0..MaxFaults
  BY DEF SocketClosed, ApiInv, ApiTypes, ApiAssumption
<1>3. authDue' \in BOOLEAN
  BY DEF SocketClosed, Disconnected, timeVars, ApiInv, ApiTypes
<1> HIDE DEF g
<1>4. net' = [net EXCEPT ![c] = g] /\ net[c].state # "free"
  BY DEF SocketClosed, g
<1> QED
  BY <1>1, <1>2, <1>3, <1>4, PastAsItWas, ClientStep DEF SocketClosed, Disconnected, timeVars

LEMMA ServerTimeoutKeeps ==
  ASSUME ApiAssumption, ApiInv, NEW c \in Clients, ServerTimeout(c) PROVE ApiInv'
<1> DEFINE g == [Free EXCEPT !.state = "closed"]
<1>1. g \in Handles /\ Follows(net[c], g) /\ g.state = "closed"
  BY ClosedHandle, RoomFacts DEF ApiInv, ApiTypes
<1>2. faults' \in 0..MaxFaults
  BY DEF ServerTimeout, ApiInv, ApiTypes
<1>3. authDue' \in BOOLEAN
  BY DEF ServerTimeout, Disconnected, timeVars, ApiInv, ApiTypes
<1> HIDE DEF g
<1>4. net' = [net EXCEPT ![c] = g] /\ net[c].state # "free"
  BY DEF ServerTimeout, g
<1> QED
  BY <1>1, <1>2, <1>3, <1>4, PastAsItWas, ClientStep DEF ServerTimeout, Disconnected, timeVars

LEMMA ReopeningKeeps ==
  ASSUME ApiAssumption, ApiInv, NEW c \in Clients, Reopening(c) PROVE ApiInv'
<1> DEFINE g == [net[c] EXCEPT !.state = "opening"]
<1>1. net[c] \in Handles /\ net[c].state = "closed"
  BY DEF Reopening, ApiInv, ApiTypes
<1>2. g \in Handles /\ g.state = "opening" /\ g.inbox = net[c].inbox /\ g.last = net[c].last
      /\ g.server = net[c].server
  BY <1>1 DEF Handles
<1>3. Follows(net[c], g)
  BY <1>2, StaysTheSame DEF Follows
<1>4. faults' \in 0..MaxFaults /\ authDue' \in BOOLEAN /\ isConnected' \in BOOLEAN
  BY DEF Reopening, timeVars, envVars, ApiInv, ApiTypes
<1>5. net' = [net EXCEPT ![c] = g]
  BY DEF Reopening
<1> HIDE DEF g
<1> QED
  BY <1>1, <1>2, <1>3, <1>4, <1>5, PastAsItWas, ClientStep DEF Reopening, apiVars, timeVars, envVars

LEMMA OpenHandle ==
  ASSUME MaxSessions \in Nat, NEW h \in Handles, NEW q \in Seq(Received)
  PROVE  [h EXCEPT !.state = "open", !.server = "asked", !.inbox = q, !.last = 0] \in Handles
<1>1. [h EXCEPT !.state = "open"] \in Handles
  BY DEF Handles
<1>2. \A g \in Handles : [g EXCEPT !.server = "asked"] \in Handles
  BY DEF Handles
<1>3. \A g \in Handles : [g EXCEPT !.inbox = q] \in Handles
  BY DEF Handles
<1>4. \A g \in Handles : [g EXCEPT !.last = 0] \in Handles
  BY DEF Handles
<1>5. [[[[h EXCEPT !.state = "open"] EXCEPT !.server = "asked"] EXCEPT !.inbox = q] EXCEPT !.last = 0]
      \in Handles
  BY <1>1, <1>2, <1>3, <1>4
<1> QED
  BY <1>5

LEMMA OpenedKeeps ==
  ASSUME ApiAssumption, ApiInv, NEW c \in Clients, Opened(c) PROVE ApiInv'
<1> DEFINE g == [net[c] EXCEPT !.state = "open", !.server = "asked",
                               !.inbox = <<Message("auth_required", 0)>>, !.last = 0]
<1>1. net[c] \in Handles /\ net[c].state = "opening" /\ MaxSessions \in Nat
  BY RoomFacts DEF Opened, ApiInv, ApiTypes
<1>2. /\ g.state = "open" /\ g.inbox = <<Message("auth_required", 0)>> /\ g.last = 0
      /\ g.server = "asked"
  BY <1>1 DEF Handles
<1>3. Message("auth_required", 0) \in Received
  BY <1>1 DEF Message, Received
<1>4. g \in Handles
  <2>1. <<Message("auth_required", 0)>> \in Seq(Received)
    BY <1>3
  <2> QED
    BY <1>1, <2>1, OpenHandle
<1>5. Follows(net[c], g)
  BY <1>2 DEF Follows, Named, Message
<1>6. faults' \in 0..MaxFaults /\ authDue' = FALSE /\ isConnected' = TRUE
  BY DEF Opened, envVars, ApiInv, ApiTypes
<1>7. net' = [net EXCEPT ![c] = g]
  BY DEF Opened
<1> HIDE DEF g
<1> QED
  BY <1>1, <1>2, <1>4, <1>5, <1>6, <1>7, PastAsItWas, ClientStep DEF Opened, apiVars, envVars

LEMMA ServerEventKeeps ==
  ASSUME ApiAssumption, ApiInv, NEW c \in Clients, ServerEvent(c) PROVE ApiInv'
<1>1. PICK i \in Watched(net[c]) : net' = [net EXCEPT ![c].inbox = Append(@, Message("event", i))]
  BY DEF ServerEvent
<1> DEFINE g == [net[c] EXCEPT !.inbox = Append(@, Message("event", i))]
<1>2. net[c] \in Handles /\ net[c].state = "open" /\ MaxSessions \in Nat
  BY RoomFacts DEF ServerEvent, ApiInv, ApiTypes
<1>3. /\ g.state = "open" /\ g.inbox = Append(net[c].inbox, Message("event", i))
      /\ g.last = net[c].last /\ g.server = net[c].server
  BY <1>2 DEF Handles
<1>4. Real(i) /\ i \in Ids
  <2>1. i \in DOMAIN sessions /\ sessions[i].kind = "watch"
    BY DEF Watched
  <2>2. sessions[i] # NoSession
    BY <2>1, NobodyIsReal
  <2> QED
    BY <1>2, <2>1, <2>2 DEF Real, ApiInv, SessionsTyped, Ids
<1>5. Message("event", i) \in Received /\ Message("event", i).id = i /\ Message("event", i).type = "event"
  BY <1>2, <1>4 DEF Message, Received, Ids
<1>6. /\ g.inbox \in Seq(Received) /\ Len(g.inbox) = Len(net[c].inbox) + 1
      /\ \A k \in 1..Len(net[c].inbox) : g.inbox[k] = net[c].inbox[k]
      /\ g.inbox[Len(net[c].inbox) + 1] = Message("event", i)
      /\ DOMAIN net[c].inbox = 1..Len(net[c].inbox) /\ DOMAIN g.inbox = 1..Len(g.inbox)
  BY <1>2, <1>3, <1>5, AppendProperties, LenProperties DEF Handles
<1>7. g \in Handles
  BY <1>2, <1>3, <1>6 DEF Handles
<1>8. Follows(net[c], g)
  <2>1. Named(Message("event", i))
    BY <1>4, <1>5 DEF Named
  <2>2. \A k \in DOMAIN g.inbox : k \in DOMAIN net[c].inbox \/ k = Len(net[c].inbox) + 1
    BY <1>2, <1>6, LenProperties DEF Handles
  <2> QED
    BY <1>3, <1>5, <1>6, <2>1, <2>2, StaysTheSame DEF Follows
<1>9. faults' \in 0..MaxFaults
  BY DEF ServerEvent, ApiInv, ApiTypes, ApiAssumption
<1>10. net' = [net EXCEPT ![c] = g] /\ authDue' \in BOOLEAN /\ isConnected' \in BOOLEAN
  BY <1>1 DEF ServerEvent, timeVars, ApiInv, ApiTypes
<1> HIDE DEF g
<1> QED
  BY <1>2, <1>3, <1>7, <1>8, <1>9, <1>10, PastAsItWas, ClientStep DEF ServerEvent, apiVars, timeVars
-------------------------------------------------------------------------------
(* A message is appended to what a client has to say.                      *)
LEMMA OneMore ==
  ASSUME NEW s \in Seq(Received), NEW m \in Received
  PROVE  /\ Append(s, m) \in Seq(Received) /\ DOMAIN s = 1..Len(s) /\ Len(s) \in Nat
         /\ DOMAIN Append(s, m) = 1..(Len(s) + 1)
         /\ Append(s, m)[Len(s) + 1] = m /\ \A k \in 1..Len(s) : Append(s, m)[k] = s[k]
BY AppendProperties, LenProperties

LEMMA OneLess ==
  ASSUME NEW s \in Seq(Received), s # << >>
  PROVE  /\ Tail(s) \in Seq(Received) /\ Head(s) \in Received /\ 1 \in DOMAIN s /\ Head(s) = s[1]
         /\ \A k \in DOMAIN Tail(s) : k + 1 \in DOMAIN s /\ Tail(s)[k] = s[k + 1]
<1>1. Len(s) \in Nat /\ Len(s) # 0 /\ DOMAIN s = 1..Len(s)
  BY EmptySeq, LenProperties
<1>2. /\ Tail(s) \in Seq(Received) /\ Head(s) = s[1] /\ Len(Tail(s)) = Len(s) - 1
      /\ \A i \in 1..Len(Tail(s)) : Tail(s)[i] = s[i + 1]
  BY <1>1, HeadTailProperties
<1>3. DOMAIN Tail(s) = 1..Len(Tail(s))
  BY <1>2, LenProperties
<1> QED
  BY <1>1, <1>2, <1>3, ElementOfSeq

(* What the server answers to a token.                                     *)
LEMMA TokenIsAnswered ==
  ASSUME MaxSessions \in Nat, NEW h, NEW g \in Handles, Follows(h, g), NEW a, a = AnswerToken(g)
  PROVE  /\ a \in Handles /\ a.state = g.state /\ Follows(h, a)
         /\ g.server = "authed" => a.server = "authed"
<1>1. \A type \in {"auth_ok", "auth_invalid", "result"} :
        Message(type, 0) \in Received /\ Message(type, 0).id = 0 /\ Message(type, 0).type = type
  BY DEF Message, Received
<1>2. ASSUME NEW type \in {"auth_ok", "auth_invalid", "result"}
      PROVE  /\ Says(g, type) \in Handles /\ Says(g, type).state = g.state
             /\ Says(g, type).last = g.last /\ Says(g, type).server = g.server
             /\ \A k \in DOMAIN Says(g, type).inbox :
                  \/ Says(g, type).inbox[k] = Message(type, 0)
                  \/ k \in DOMAIN g.inbox /\ Says(g, type).inbox[k] = g.inbox[k]
  <2>1. g.inbox \in Seq(Received) /\ Message(type, 0) \in Received
    BY <1>1 DEF Handles
  <2>2. Says(g, type).inbox = Append(g.inbox, Message(type, 0))
    BY DEF Says, Handles
  <2>3. Says(g, type) \in Handles
    BY <2>1, OneMore DEF Says, Handles
  <2>4. /\ Says(g, type).state = g.state /\ Says(g, type).last = g.last
        /\ Says(g, type).server = g.server
    BY DEF Says, Handles
  <2>5. \A k \in DOMAIN Append(g.inbox, Message(type, 0)) : k \in DOMAIN g.inbox \/ k = Len(g.inbox) + 1
    BY <2>1, OneMore
  <2> QED
    BY <2>1, <2>2, <2>3, <2>4, <2>5, OneMore
<1>3. CASE g.server = "asked" /\ token
  <2>1. a = [Says(g, "auth_ok") EXCEPT !.server = "authed"]
    BY <1>3 DEF AnswerToken
  <2>2. /\ a \in Handles /\ a.state = g.state /\ a.last = g.last /\ a.server = "authed"
        /\ a.inbox = Says(g, "auth_ok").inbox
    BY <2>1, <1>2 DEF Handles
  <2> QED
    BY <1>3, <2>2, <1>1, <1>2 DEF Follows, Named
<1>4. CASE g.server = "asked" /\ ~token
  <2>1. a = [Says(g, "auth_invalid") EXCEPT !.server = "refused"]
    BY <1>4 DEF AnswerToken
  <2>2. /\ a \in Handles /\ a.state = g.state /\ a.last = g.last /\ a.server = "refused"
        /\ a.inbox = Says(g, "auth_invalid").inbox
    BY <2>1, <1>2 DEF Handles
  <2> QED
    BY <1>4, <2>2, <1>1, <1>2 DEF Follows, Named
<1>5. CASE g.server # "asked"
  <2>1. a = Says(g, "result")
    BY <1>5 DEF AnswerToken
  <2> QED
    BY <2>1, <1>1, <1>2 DEF Follows, Named
<1> QED
  BY <1>3, <1>4, <1>5
LEMMA SendAuthKeeps ==
  ASSUME ApiAssumption, ApiInv, NEW n \in [Clients -> Handles], net' = SendAuth(n),
         \A d \in Clients : Follows(net[d], n[d])
  PROVE  /\ net' \in [Clients -> Handles]
         /\ \A d \in Clients : /\ Follows(net[d], net'[d]) /\ net'[d].state = n[d].state
                               /\ n[d].server = "authed" => net'[d].server = "authed"
                               /\ d # client => net'[d] = n[d]
<1>0. MaxSessions \in Nat /\ room.clients \in Nat \ {0} /\ client \in 0..room.clients
  BY RoomFacts DEF ApiInv, ApiTypes
<1>1. CASE ~Reaches(n)
  BY <1>1 DEF SendAuth
<1>2. CASE Reaches(n)
  <2> DEFINE a == AnswerToken(n[client])
  <2>1. client \in Clients
    BY <1>0, <1>2 DEF Reaches, Clients
  <2>2. net' = [n EXCEPT ![client] = a]
    BY <1>2 DEF SendAuth
  <2>3. /\ a \in Handles /\ a.state = n[client].state /\ Follows(net[client], a)
        /\ n[client].server = "authed" => a.server = "authed"
    BY <1>0, <2>1, TokenIsAnswered
  <2> HIDE DEF a
  <2> QED
    BY <2>1, <2>2, <2>3
<1> QED
  BY <1>1, <1>2

(* What is appended to the text that is left is gone, and changes nothing  *)
(* else.                                                                   *)
LEMMA AppendedKeeps ==
  ASSUME ApiAssumption, ApiInv, NEW c \in Clients, Appended(c) PROVE ApiInv'
<1> USE DEF ApiInv
<1> DEFINE h == net[c]
           g == [h EXCEPT !.inbox = Tail(@)]
<1>0. /\ MaxSessions \in Nat /\ net \in [Clients -> Handles] /\ h \in Handles
      /\ h.state = "open" /\ h.inbox # << >>
  BY RoomFacts DEF Appended, ApiTypes
<1>1. /\ Tail(h.inbox) \in Seq(Received)
      /\ \A k \in DOMAIN Tail(h.inbox) : k + 1 \in DOMAIN h.inbox /\ Tail(h.inbox)[k] = h.inbox[k + 1]
  BY <1>0, OneLess DEF Handles
<1>2. /\ g \in Handles /\ g.state = "open" /\ g.server = h.server /\ g.last = h.last
      /\ g.inbox = Tail(h.inbox)
  BY <1>0, <1>1 DEF Handles
<1>3. Follows(h, g)
  BY <1>1, <1>2, StaysTheSame DEF Follows
<1>4. net' = [net EXCEPT ![c] = g]
  BY DEF Appended
<1>5. PastStays
  <2>1. past' = [past EXCEPT !.unheard = TRUE]
    BY DEF Appended
  <2> QED
    BY <2>1 DEF PastStays, Pasts, ApiTypes
<1>6. faults' \in 0..MaxFaults /\ authDue' \in BOOLEAN /\ isConnected' \in BOOLEAN
  BY DEF Appended, timeVars, envVars, ApiTypes
<1> HIDE DEF g
<1> QED
  BY <1>0, <1>2, <1>3, <1>4, <1>5, <1>6, ClientStep DEF Appended, apiVars, timeVars, envVars

LEMMA ProcessResponseDocKeeps ==
  ASSUME ApiAssumption, ApiInv, NEW c \in Clients, ProcessResponseDoc(c) PROVE ApiInv'
<1> USE DEF ApiInv
<1> DEFINE h == net[c]
           message == Head(h.inbox)
           g == [h EXCEPT !.inbox = Tail(@)]
           n == [net EXCEPT ![c].inbox = Tail(@)]
           forAuth == auth # "none" /\ message.type \in {"auth_required", "auth_ok", "auth_invalid"}
<1>0. /\ MaxSessions \in Nat /\ net \in [Clients -> Handles] /\ h \in Handles
      /\ h.state = "open" /\ h.inbox # << >> /\ queue \in Seq(Received)
  BY RoomFacts DEF ProcessResponseDoc, ApiTypes
<1>1. /\ Tail(h.inbox) \in Seq(Received) /\ message \in Received /\ 1 \in DOMAIN h.inbox
      /\ message = h.inbox[1]
      /\ \A k \in DOMAIN Tail(h.inbox) : k + 1 \in DOMAIN h.inbox /\ Tail(h.inbox)[k] = h.inbox[k + 1]
  BY <1>0, OneLess DEF Handles
<1>2. Named(message) /\ (message.type = "auth_ok" => h.server = "authed")
  BY <1>1 DEF Rest, NamesAreReal, SaysWhatItIs
<1>3. /\ g \in Handles /\ g.state = "open" /\ g.server = h.server /\ g.last = h.last
      /\ g.inbox = Tail(h.inbox)
  BY <1>0, <1>1 DEF Handles
<1>4. Follows(h, g)
  BY <1>1, <1>3, StaysTheSame DEF Follows
<1>5. n = [net EXCEPT ![c] = g] /\ n \in [Clients -> Handles] /\ \A d \in Clients : Follows(net[d], n[d])
  BY <1>0, <1>3, <1>4, StaysTheSame
<1>6. /\ sessions' = IF message.id = 0 THEN sessions ELSE Looked(message.id)
      /\ IF forAuth THEN PreProcessMessage(n, message) /\ UNCHANGED queue
         ELSE /\ net' = n /\ UNCHANGED <<auth, connection>>
              /\ queue' = IF Redirected(message) THEN queue ELSE Append(queue, message)
      /\ UNCHANGED <<client, isConnected, nextId, timeVars, envVars, loop, past>>
  BY DEF ProcessResponseDoc
<1>7. sessions' = sessions
  BY <1>2, <1>6 DEF Named, Real, Looked
<1> HIDE DEF n, message, g
<1>8. /\ net' \in [Clients -> Handles]
      /\ \A d \in Clients : /\ Follows(net[d], net'[d]) /\ net'[d].state = n[d].state
                            /\ n[d].server = "authed" => net'[d].server = "authed"
                            /\ d # client => net'[d] = n[d]
  <2>1. CASE net' = n
    BY <2>1, <1>5
  <2>2. CASE net' = SendAuth(n)
    BY <2>2, <1>5, SendAuthKeeps
  <2> QED
    BY <1>6, <2>1, <2>2 DEF PreProcessMessage
<1>9. \A d \in Clients : net'[d].state = net[d].state /\ (net[d].server = "authed" => net'[d].server = "authed")
  BY <1>0, <1>3, <1>5, <1>8
<1>10. /\ auth' \in {"none", "new", "sent"}
       /\ connection' # connection => connection' = "Connected" /\ message.type = "auth_ok"
  <2>1. auth \in {"none", "new", "sent"}
    BY DEF ApiTypes
  <2>2. CASE ~forAuth
    <3>1. auth' = auth /\ connection' = connection
      BY <2>2, <1>6
    <3> QED
      BY <2>1, <3>1
  <2>3. CASE forAuth /\ message.type = "auth_required"
    <3>1. PreProcessMessage(n, message)
      BY <2>3, <1>6
    <3> QED
      BY <2>3, <3>1 DEF PreProcessMessage
  <2>4. CASE forAuth /\ message.type = "auth_ok"
    BY <2>4, <1>6 DEF PreProcessMessage
  <2>5. CASE forAuth /\ message.type \notin {"auth_required", "auth_ok"}
    <3>1. PreProcessMessage(n, message)
      BY <2>5, <1>6
    <3> QED
      BY <2>1, <2>5, <3>1 DEF PreProcessMessage
  <2> QED
    BY <2>2, <2>3, <2>4, <2>5
<1>11. queue' \in Seq(Received) /\ (\A k \in DOMAIN queue' : Named(queue'[k])) /\ (queue # << >> => queue' # << >>)
  <2>1. CASE queue' = queue
    BY <2>1, <1>0, QueueAsItWas
  <2>2. CASE queue' = Append(queue, message)
    <3>1. /\ queue' \in Seq(Received) /\ DOMAIN queue = 1..Len(queue) /\ Len(queue) \in Nat
          /\ DOMAIN queue' = 1..(Len(queue) + 1)
          /\ queue'[Len(queue) + 1] = message /\ \A k \in 1..Len(queue) : queue'[k] = queue[k]
      BY <2>2, <1>0, <1>1, OneMore
    <3>2. \A k \in DOMAIN queue' : k \in DOMAIN queue \/ k = Len(queue) + 1
      BY <3>1
    <3>3. queue' # << >>
      BY <3>1, EmptySeq, LenProperties
    <3> QED
      BY <3>1, <3>2, <3>3, <1>2 DEF Rest, NamesAreReal
  <2> QED
    BY <1>6, <2>1, <2>2
<1>12. ApiTypes'
  BY <1>6, <1>8, <1>10, <1>11, RoomStays DEF ApiTypes, timeVars, envVars
<1>13. connection' = "Connected" => connection = "Connected" \/ token
  BY <1>2, <1>10 DEF Rest, StaysOut
<1>14. SessionsTyped' /\ LoopIsReady' /\ Rest'
  BY <1>6, <1>7, <1>8, <1>11, <1>12, <1>13, StillStep DEF envVars, LoopIsReady
<1>15. OneHandle'
  <2>1. ~past.leaked => c = client
    BY <1>0, HandlesToBegin DEF OneHandle
  <2>2. 0 \notin Clients
    BY DEF Clients
  <2>3. \A d \in Clients : d # client /\ d # c => net'[d] = net[d]
    BY <1>0, <1>5, <1>8
  <2>4. ASSUME ~past.leaked PROVE connection' = "Connected" => isConnected /\ net'[client].server = "authed"
    <3>1. isConnected /\ client \in Clients
      BY <2>1, <2>2, <2>4, <1>0 DEF OneHandle
    <3>2. CASE connection' = connection
      BY <3>1, <3>2, <2>4, <1>9 DEF OneHandle
    <3>3. CASE message.type = "auth_ok"
      BY <3>1, <3>3, <2>1, <2>4, <1>2, <1>9
    <3> QED
      BY <3>2, <3>3, <1>10
  <2>5. ~past.leaked => client \in Clients
    BY <2>1
  <2> QED
    BY <2>1, <2>2, <2>3, <2>4, <2>5, <1>6, <1>9, RoomStays DEF OneHandle, envVars
<1> QED
  BY <1>6, <1>12, <1>14, <1>15
-------------------------------------------------------------------------------
(* The main loop and its sessions.                                         *)
LEMMA OneHandleStays ==
  ASSUME ApiInv, UNCHANGED <<room, client, isConnected, connection, past>>,
         \A d \in Clients : /\ net'[d].state = net[d].state
                            /\ net[d].server = "authed" => net'[d].server = "authed"
                            /\ d # client => net'[d] = net[d]
  PROVE  OneHandle'
<1>1. 0 \notin Clients /\ (client # 0 => client \in Clients)
  BY DEF Clients, ApiInv, ApiTypes
<1> QED
  BY <1>1, RoomStays DEF OneHandle, ApiInv

LEMMA ProcessKeeps == ASSUME ApiAssumption, ApiInv, Process PROVE ApiInv'
<1> USE DEF ApiInv
<1>0. /\ net \in [Clients -> Handles]
      /\ UNCHANGED <<client, isConnected, leftover, connection, nextId, queue, timeVars, envVars, past>>
  BY DEF Process, ApiTypes
<1>1. CASE ~isConnected
  <2>1. loop' = "attempt" /\ UNCHANGED <<net, auth, sessions>>
    BY <1>1 DEF Process
  <2>2. ApiTypes'
    BY <1>0, <2>1, RoomStays DEF ApiTypes, timeVars, envVars
  <2> QED
    BY <1>0, <2>1, <2>2, NothingMoves DEF socketVars, envVars
<1>2. CASE isConnected
  <2>1. /\ loop' = "start" /\ sessions' = Cleaned
        /\ (net' = SendAuth(net) /\ auth' = "sent") \/ UNCHANGED <<net, auth>>
    BY <1>2 DEF Process
  <2>2. /\ net' \in [Clients -> Handles]
        /\ \A d \in Clients : /\ Follows(net[d], net'[d]) /\ net'[d].state = net[d].state
                              /\ net[d].server = "authed" => net'[d].server = "authed"
                              /\ d # client => net'[d] = net[d]
    <3>1. CASE net' = net
      BY <3>1, <1>0, StaysTheSame
    <3>2. CASE net' = SendAuth(net)
      BY <3>2, <1>0, StaysTheSame, SendAuthKeeps
    <3> QED
      BY <2>1, <3>1, <3>2
  <2>3. ApiTypes'
    <3>1. auth' \in {"none", "new", "sent"}
      BY <2>1 DEF ApiTypes
    <3> QED
      BY <1>0, <2>1, <2>2, <3>1, RoomStays DEF ApiTypes, timeVars, envVars
  <2>4. /\ DOMAIN sessions' = {k \in DOMAIN sessions : sessions[k] # NoSession}
        /\ \A i \in DOMAIN sessions' : sessions'[i] = sessions[i]
    BY <2>1 DEF Cleaned
  <2>5. NoSession' = NoSession
    BY DEF NoSession, AddedSession
  <2>6. SessionsTyped' /\ LoopIsReady' /\ \A i : Unmoved(i)
    <3>1. \A i : Real(i)' <=> Real(i)
      BY <2>4, <2>5 DEF Real
    <3>2. LoopIsReady'
      BY <2>1, <2>4, <2>5 DEF LoopIsReady, Real
    <3>3. \A i : Unmoved(i)
      BY <2>4, <3>1 DEF Unmoved, Real
    <3>4. SessionsTyped'
      BY <1>0, <2>4, <2>5, RoomStays DEF SessionsTyped, envVars, Sessions, Kinds
    <3> QED
      BY <3>2, <3>3, <3>4
  <2>7. Rest'
    BY <1>0, <2>2, <2>3, <2>6, QuietStep, QueueAsItWas DEF envVars
  <2>8. OneHandle'
    BY <1>0, <2>2, OneHandleStays DEF envVars
  <2> QED
    BY <1>0, <2>3, <2>6, <2>7, <2>8
<1> QED
  BY <1>1, <1>2

LEMMA ProcessMessageKeeps == ASSUME ApiAssumption, ApiInv, ProcessMessage PROVE ApiInv'
<1> USE DEF ApiInv
<1> DEFINE id == Head(queue).id
<1>0. /\ queue \in Seq(Received) /\ queue # << >> /\ MaxSessions \in Nat
      /\ UNCHANGED <<socketVars, connection, auth, nextId, timeVars, envVars, past>>
      /\ queue' = Tail(queue) /\ sessions' = Looked(id)
      /\ loop' # "idle" => loop' = "messages" /\ queue' # << >>
  <2>1. queue \in Seq(Received) /\ queue # << >> /\ MaxSessions \in Nat
    BY RoomFacts DEF ProcessMessage, LoopIsReady, ApiTypes
  <2> QED
    BY <2>1 DEF ProcessMessage
<1>1. /\ Tail(queue) \in Seq(Received) /\ 1 \in DOMAIN queue /\ Head(queue) = queue[1]
      /\ \A k \in DOMAIN Tail(queue) : k + 1 \in DOMAIN queue /\ Tail(queue)[k] = queue[k + 1]
  BY <1>0, OneLess
<1>2. Named(Head(queue)) /\ \A k \in DOMAIN queue' : Named(queue'[k])
  BY <1>0, <1>1 DEF Rest, NamesAreReal
<1>3. id \in DOMAIN sessions \/ id = 0
  BY <1>2 DEF Named, Real
<1>4. /\ DOMAIN sessions' = DOMAIN sessions \cup {id}
      /\ \A i \in DOMAIN sessions : sessions'[i] = sessions[i]
      /\ id \notin DOMAIN sessions => sessions'[id] = NoSession
  <2>1. CASE id \in DOMAIN sessions
    BY <2>1, <1>0 DEF Looked
  <2>2. CASE id \notin DOMAIN sessions
    BY <2>2, <1>0 DEF Looked
  <2> QED
    BY <2>1, <2>2
<1>5. NoSession' = NoSession
  BY DEF NoSession, AddedSession
<1>6. SessionsTyped' /\ LoopIsReady' /\ \A i : Unmoved(i)
  <2>1. \A i : Unmoved(i)
    BY <1>4, <1>5 DEF Unmoved, Real
  <2>2. SessionsTyped'
    BY <1>0, <1>3, <1>4, <1>5, RoomStays DEF SessionsTyped, envVars, Sessions, Kinds
  <2>3. LoopIsReady'
    BY <1>0 DEF LoopIsReady
  <2> QED
    BY <2>1, <2>2, <2>3
<1>7. ApiTypes'
  BY <1>0, <1>1, RoomStays DEF ApiTypes, timeVars, envVars, socketVars
<1>8. Rest'
  BY <1>0, <1>2, <1>6, <1>7, StaysTheSame, QuietStep DEF envVars, socketVars
<1>9. OneHandle'
  BY <1>0, OneHandleStays DEF envVars, socketVars
<1> QED
  BY <1>0, <1>6, <1>7, <1>8, <1>9

LEMMA CloseSessionPageKeeps ==
  ASSUME ApiAssumption, ApiInv, NEW j \in Ids, CloseSessionPage(j) PROVE ApiInv'
<1> USE DEF ApiInv
<1>0. /\ j \in DOMAIN sessions /\ sessions' = [sessions EXCEPT ![j].listener = FALSE] /\ loop = "idle"
      /\ UNCHANGED <<socketVars, connection, auth, nextId, queue, timeVars, envVars, loop, past>>
  BY DEF CloseSessionPage
<1>1. sessions[j].listener /\ sessions[j] \in Sessions
  BY <1>0, NobodyIsReal DEF CloseSessionPage, SessionsTyped, NoSession, AddedSession
<1>2. /\ DOMAIN sessions' = DOMAIN sessions /\ \A i \in DOMAIN sessions : i # j => sessions'[i] = sessions[i]
      /\ sessions'[j] \in Sessions /\ sessions'[j].request = sessions[j].request
      /\ sessions'[j].running = sessions[j].running
  BY <1>0, <1>1 DEF Sessions
<1>3. NoSession' = NoSession /\ sessions'[j] # NoSession /\ sessions[j] # NoSession
  <2>1. NoSession' = NoSession
    BY DEF NoSession, AddedSession
  <2> QED
    BY <2>1, <1>1, <1>2, NobodyIsReal
<1>4. SessionsTyped' /\ LoopIsReady' /\ \A i : Unmoved(i)
  <2>1. \A i : Unmoved(i)
    BY <1>0, <1>2, <1>3 DEF Unmoved, Real
  <2>2. SessionsTyped'
    BY <1>0, <1>2, <1>3, RoomStays DEF SessionsTyped, envVars, Sessions, Kinds
  <2>3. LoopIsReady'
    BY <1>0 DEF LoopIsReady
  <2> QED
    BY <2>1, <2>2, <2>3
<1>5. ApiTypes'
  BY <1>0, RoomStays DEF ApiTypes, timeVars, envVars, socketVars
<1>6. Rest'
  BY <1>0, <1>4, <1>5, StaysTheSame, QueueAsItWas, QuietStep DEF envVars, socketVars
<1>7. OneHandle'
  BY <1>0, OneHandleStays DEF envVars, socketVars
<1> QED
  BY <1>0, <1>4, <1>5, <1>6, <1>7
LEMMA AddSessionKeeps == ASSUME ApiAssumption, ApiInv, AddSession PROVE ApiInv'
<1> USE DEF ApiInv
<1> DEFINE added == AddedSession(room.kinds[nextId])
<1>0. /\ MaxSessions \in Nat /\ nextId \in 1..MaxSessions /\ nextId' = nextId + 1 /\ loop = "idle"
      /\ UNCHANGED <<socketVars, connection, auth, queue, timeVars, envVars, loop, past>>
      /\ DOMAIN sessions \subseteq 0..nextId-1
  BY RoomFacts DEF AddSession, SessionsTyped, ApiTypes
<1>1. /\ DOMAIN sessions' = DOMAIN sessions \cup {nextId}
      /\ \A i \in DOMAIN sessions : sessions'[i] = sessions[i]
      /\ sessions'[nextId] = added
  BY <1>0 DEF AddSession
<1>2. added \in Sessions /\ added # NoSession /\ NoSession' = NoSession
  <2>1. room.kinds[nextId] \in Kinds
    BY <1>0, RoomFacts DEF ApiTypes, Ids
  <2>2. added \in Sessions
    BY <2>1 DEF AddedSession, Sessions
  <2>3. NoSession' = NoSession
    BY DEF NoSession, AddedSession
  <2> QED
    BY <2>2, <2>3, NobodyIsReal
<1> HIDE DEF added
<1>3. SessionsTyped' /\ LoopIsReady'
  <2>1. SessionsTyped'
    BY <1>0, <1>1, <1>2, RoomStays DEF SessionsTyped, envVars, Sessions, Kinds
  <2>2. LoopIsReady'
    BY <1>0 DEF LoopIsReady
  <2> QED
    BY <2>1, <2>2
<1>4. ApiTypes'
  BY <1>0, RoomStays DEF ApiTypes, timeVars, envVars, socketVars
<1>5. \A i : Real(i) => Real(i)' /\ sessions'[i] = sessions[i]
  BY <1>1, <1>2 DEF Real
<1>6. SentIsGiven'
  BY <1>0, <1>5, RoomStays DEF Rest, SentIsGiven, envVars
<1>7. SeenIsOld'
  <2>1. \A c \in Clients : net[c].last \in Nat
    BY <1>0 DEF ApiTypes, Handles
  <2>2. ASSUME NEW i \in ToStart' PROVE i \in ToStart \/ i = nextId
    BY <1>1 DEF ToStart
  <2> QED
    BY <1>0, <2>1, <2>2, RoomStays DEF Rest, SeenIsOld, envVars, socketVars
<1>8. NamesAreReal'
  BY <1>0, <1>5, RoomStays DEF Rest, NamesAreReal, Named, envVars, socketVars
<1>9. SaysWhatItIs' /\ StaysOut' /\ OneHandle'
  BY <1>0, RoomStays DEF Rest, SaysWhatItIs, StaysOut, OneHandle, envVars, socketVars
<1> QED
  BY <1>0, <1>3, <1>4, <1>6, <1>7, <1>8, <1>9 DEF Rest

(* What the server answers to requests.                                    *)
LEMMA RequestsAreAnswered ==
  ASSUME MaxSessions \in Nat, SessionsTyped, NEW h \in Handles, NEW ids \in InOrder(ToStart),
         NEW a, a = AnswerRequests(h, ids)
  PROVE  /\ a \in Handles /\ a.state = h.state /\ a.server = h.server
         /\ a.last = h.last \/ a.last \in ToStart
         /\ \A k \in DOMAIN a.inbox :
              \/ k \in DOMAIN h.inbox /\ a.inbox[k] = h.inbox[k]
              \/ a.inbox[k].type = "result" /\ a.inbox[k].id \in ToStart
<1> DEFINE m == Cardinality(ToStart)
<1>1. ToStart \subseteq Ids /\ m \in Nat
  <2>1. ToStart \subseteq Ids
    BY StartedAreReal
  <2>2. IsFiniteSet(Ids)
    BY FS_Interval DEF Ids
  <2> QED
    BY <2>1, <2>2, FS_Subset, FS_CardinalityType
<1>2. ids \in [1..m -> ToStart]
  BY DEF InOrder
<1>3. ids \in Seq(ToStart) /\ Len(ids) = m /\ DOMAIN ids = 1..m
  <2> HIDE DEF m
  <2>1. ids \in Seq(ToStart)
    BY <1>1, <1>2, IsASeq
  <2> QED
    BY <1>1, <1>2, <2>1, LenProperties
<1>4. CASE h.server # "authed" \/ ids = << >>
  BY <1>4 DEF AnswerRequests
<1>5. CASE h.server = "authed" /\ ids # << >>
  <2> DEFINE results == [k \in DOMAIN ids |-> Message("result", ids[k])]
             s == h.inbox \o results
  <2>1. \A i \in Ids : Message("result", i) \in Received /\ Message("result", i).type = "result"
                       /\ Message("result", i).id = i
    BY DEF Message, Received, Ids
  <2>2. ids[Len(ids)] \in ToStart
    <3>1. Len(ids) # 0
      BY <1>3, <1>5, EmptySeq
    <3> HIDE DEF m
    <3> QED
      BY <1>1, <1>2, <1>3, <3>1
  <2>3. results \in Seq(Received) /\ Len(results) = m
    <3> HIDE DEF m
    <3>1. results \in [1..m -> Received]
      BY <1>1, <1>2, <1>3, <2>1
    <3>2. results \in Seq(Received)
      BY <1>1, <3>1, IsASeq
    <3> QED
      BY <1>1, <3>1, <3>2, LenProperties
  <2>4. h.inbox \in Seq(Received) /\ DOMAIN h.inbox = 1..Len(h.inbox) /\ Len(h.inbox) \in Nat
    BY LenProperties DEF Handles
  <2>5. /\ s \in Seq(Received) /\ DOMAIN s = 1..(Len(h.inbox) + m)
        /\ \A k \in 1..(Len(h.inbox) + m) :
             s[k] = IF k <= Len(h.inbox) THEN h.inbox[k] ELSE results[k - Len(h.inbox)]
    <3> HIDE DEF m, results
    <3>1. s \in Seq(Received) /\ Len(s) = Len(h.inbox) + m
      BY <2>3, <2>4, ConcatProperties
    <3> QED
      BY <2>3, <2>4, <3>1, ConcatProperties, LenProperties
  <2>6. a = [h EXCEPT !.inbox = s, !.last = ids[Len(ids)]]
    BY <1>5 DEF AnswerRequests
  <2>7. ids[Len(ids)] \in 0..MaxSessions
    <3>1. \A i \in Ids : i \in 0..MaxSessions
      BY DEF Ids
    <3> QED
      BY <1>1, <2>2, <3>1
  <2>8. /\ a \in Handles /\ a.state = h.state /\ a.server = h.server /\ a.last = ids[Len(ids)]
        /\ a.inbox = s
    <3> HIDE DEF s
    <3> QED
      BY <2>5, <2>6, <2>7 DEF Handles
  <2>9. ASSUME NEW k \in 1..(Len(h.inbox) + m), ~(k <= Len(h.inbox))
        PROVE  s[k].type = "result" /\ s[k].id \in ToStart
    <3>1. k - Len(h.inbox) \in 1..m
      BY <1>1, <2>4, <2>9
    <3>2. s[k] = Message("result", ids[k - Len(h.inbox)]) /\ ids[k - Len(h.inbox)] \in ToStart
      BY <1>2, <1>3, <2>5, <2>9, <3>1
    <3> QED
      BY <1>1, <2>1, <3>2
  <2>10. \A k \in 1..(Len(h.inbox) + m) : k <= Len(h.inbox) => k \in DOMAIN h.inbox /\ s[k] = h.inbox[k]
    BY <1>1, <2>4, <2>5
  <2> HIDE DEF s, m, results
  <2> QED
    BY <2>2, <2>5, <2>8, <2>9, <2>10
<1> QED
  BY <1>4, <1>5
LEMMA ProcessSessionsKeeps == ASSUME ApiAssumption, ApiInv, ProcessSessions PROVE ApiInv'
<1> USE DEF ApiInv
<1>0. /\ MaxSessions \in Nat /\ net \in [Clients -> Handles] /\ past \in Pasts /\ loop = "start"
      /\ UNCHANGED <<client, isConnected, connection, auth, nextId, queue, timeVars, envVars>>
      /\ loop' # "idle" => loop' = "messages" /\ queue # << >>
  <2>1. MaxSessions \in Nat /\ net \in [Clients -> Handles] /\ past \in Pasts
    BY RoomFacts DEF ApiTypes
  <2> QED
    BY <2>1 DEF ProcessSessions
<1> DEFINE on == connection = "Connected"
<1>1. /\ past' = [past EXCEPT
             !.hole = @ \/ (on /\ \E i \in DOMAIN sessions : sessions[i] = NoSession),
             !.refused = @ \/ (on /\ ToStart # {} /\ Reaches(net) /\ net[client].server # "authed"),
             !.reused = @ \/ (on /\ Reaches(net) /\ \E i \in ToStart : i <= net[client].last),
             !.sent = [i \in Ids |-> IF on /\ i \in ToStart THEN @[i] + 1 ELSE @[i]]]
      /\ IF on THEN /\ \E ids \in InOrder(ToStart) : net' = StartedIn(net, ids)
                    /\ sessions' = [i \in DOMAIN sessions |->
                         IF i \in ToStart THEN GetStartRequest([sessions[i] EXCEPT !.running = TRUE])
                                          ELSE sessions[i]]
               ELSE UNCHANGED <<net, sessions>>
  BY DEF ProcessSessions
<1>2. \A i \in DOMAIN sessions : Real(i)
  BY <1>0 DEF LoopIsReady
<1>3. \A i \in ToStart : Real(i) /\ i \in Ids /\ i < nextId /\ sessions[i].request
  BY <1>0, StartedAreReal
<1>4. client \in Clients \/ ~Reaches(net)
  BY DEF Reaches, ApiTypes, Clients
<1>5. ~on \/ ~Reaches(net) \/ \A i \in ToStart : ~(i <= net[client].last)
  BY <1>0, <1>3, <1>4 DEF Rest, SeenIsOld, Ids, Handles
<1>6. /\ past' \in Pasts /\ past'.leaked = past.leaked /\ past'.hole = FALSE /\ past'.reused = FALSE
      /\ past'.sent = [i \in Ids |-> IF on /\ i \in ToStart THEN past.sent[i] + 1 ELSE past.sent[i]]
      /\ past'.refused => past.refused \/ (on /\ Reaches(net) /\ net[client].server # "authed")
  <2>1. past.hole = FALSE /\ past.reused = FALSE
    BY <1>0 DEF Rest, Pasts
  <2>2. ~\E i \in DOMAIN sessions : sessions[i] = NoSession
    BY <1>2 DEF Real
  <2>3. past.sent \in [Ids -> Nat]
    BY <1>0 DEF Pasts
  <2> DEFINE sent == [i \in Ids |-> IF on /\ i \in ToStart THEN past.sent[i] + 1 ELSE past.sent[i]]
  <2>4. sent \in [Ids -> Nat]
    BY <2>3
  <2> HIDE DEF sent
  <2>5. PICK refused \in BOOLEAN :
          /\ past' = [past EXCEPT !.hole = FALSE, !.refused = refused, !.reused = FALSE, !.sent = sent]
          /\ refused => past.refused \/ (on /\ Reaches(net) /\ net[client].server # "authed")
    BY <1>1, <1>5, <2>1, <2>2, <1>0 DEF sent, Pasts
  <2>6. /\ past' \in Pasts /\ past'.leaked = past.leaked /\ past'.hole = FALSE /\ past'.reused = FALSE
        /\ past'.sent = sent /\ past'.refused = refused
    BY <1>0, <2>4, <2>5 DEF Pasts
  <2> QED
    BY <2>5, <2>6 DEF sent
<1>7. /\ net' \in [Clients -> Handles]
      /\ \A c \in Clients :
           /\ net'[c].state = net[c].state /\ net'[c].server = net[c].server
           /\ net'[c].last = net[c].last \/ (on /\ net'[c].last \in ToStart)
           /\ \A k \in DOMAIN net'[c].inbox :
                \/ k \in DOMAIN net[c].inbox /\ net'[c].inbox[k] = net[c].inbox[k]
                \/ net'[c].inbox[k].type = "result" /\ net'[c].inbox[k].id \in ToStart
           /\ c # client => net'[c] = net[c]
  <2>1. CASE net' = net
    BY <2>1, <1>0
  <2>2. CASE net' # net
    <3>1. on /\ Reaches(net)
      BY <1>1, <2>2 DEF StartedIn
    <3>2. PICK ids \in InOrder(ToStart) : net' = [net EXCEPT ![client] = AnswerRequests(@, ids)]
      BY <1>1, <3>1 DEF StartedIn
    <3> DEFINE a == AnswerRequests(net[client], ids)
    <3>3. client \in Clients
      BY <1>4, <3>1
    <3>4. /\ a \in Handles /\ a.state = net[client].state /\ a.server = net[client].server
          /\ a.last = net[client].last \/ a.last \in ToStart
          /\ \A k \in DOMAIN a.inbox :
               \/ k \in DOMAIN net[client].inbox /\ a.inbox[k] = net[client].inbox[k]
               \/ a.inbox[k].type = "result" /\ a.inbox[k].id \in ToStart
      BY <1>0, <3>3, RequestsAreAnswered
    <3>5. net' = [net EXCEPT ![client] = a]
      BY <3>2
    <3> HIDE DEF a
    <3> QED
      BY <1>0, <3>1, <3>3, <3>4, <3>5
  <2> QED
    BY <2>1, <2>2
<1>8. /\ DOMAIN sessions' = DOMAIN sessions
      /\ \A i \in DOMAIN sessions :
           /\ ~on \/ i \notin ToStart => sessions'[i] = sessions[i]
           /\ on /\ i \in ToStart => /\ sessions'[i] \in Sessions
                                     /\ ~sessions'[i].request /\ sessions'[i].running
  <2>1. CASE ~on
    BY <2>1, <1>1
  <2>2. CASE on
    <3>1. sessions' = [i \in DOMAIN sessions |->
                         IF i \in ToStart THEN GetStartRequest([sessions[i] EXCEPT !.running = TRUE])
                                          ELSE sessions[i]]
      BY <1>1, <2>2
    <3>2. ASSUME NEW i \in ToStart
          PROVE  LET s == GetStartRequest([sessions[i] EXCEPT !.running = TRUE])
                 IN s \in Sessions /\ ~s.request /\ s.running
      <4>1. sessions[i] \in Sessions
        BY <1>3 DEF SessionsTyped, Real
      <4> QED
        BY <4>1 DEF GetStartRequest, Sessions
    <3> QED
      BY <2>2, <3>1, <3>2
  <2> QED
    BY <2>1, <2>2
<1>9. NoSession' = NoSession /\ Sessions' = Sessions
  BY DEF NoSession, AddedSession, Sessions, Kinds
<1>10. \A i : Real(i)' <=> Real(i)
  BY <1>8, <1>9, NobodyIsReal DEF Real, ToStart
<1>11. SessionsTyped' /\ LoopIsReady'
  <2>1. SessionsTyped'
    BY <1>0, <1>3, <1>8, <1>9, RoomStays DEF SessionsTyped, envVars, Ids
  <2>2. LoopIsReady'
    BY <1>0 DEF LoopIsReady
  <2> QED
    BY <2>1, <2>2
<1>12. ApiTypes'
  BY <1>0, <1>6, <1>7, RoomStays DEF ApiTypes, timeVars, envVars
<1>13. SentIsGiven'
  <2>1. ASSUME NEW i \in Ids, past'.sent[i] # 0
        PROVE  past'.sent[i] = 1 /\ Real(i) /\ ~sessions'[i].request
    <3>1. past.sent[i] \in Nat
      BY <1>0 DEF Pasts
    <3>2. CASE on /\ i \in ToStart
      <4>1. past.sent[i] = 0
        BY <1>3, <3>2 DEF Rest, SentIsGiven
      <4> QED
        BY <1>3, <1>6, <1>8, <3>2, <4>1 DEF Real
    <3>3. CASE ~(on /\ i \in ToStart)
      <4>1. past'.sent[i] = past.sent[i]
        BY <1>6, <3>3
      <4> QED
        BY <2>1, <1>8, <3>3, <4>1 DEF Rest, SentIsGiven, Real
    <3> QED
      BY <3>2, <3>3
  <2> QED
    BY <1>0, <1>10, <2>1, RoomStays DEF SentIsGiven, envVars
<1>14. SeenIsOld'
  <2>1. on => ToStart' = {}
    BY <1>8 DEF ToStart
  <2>2. ~on => ToStart' = ToStart
    BY <1>1 DEF ToStart
  <2> QED
    BY <1>0, <1>3, <1>7, <2>1, <2>2, RoomStays DEF Rest, SeenIsOld, envVars
<1>15. NamesAreReal'
  BY <1>0, <1>3, <1>7, <1>10, RoomStays DEF Rest, NamesAreReal, Named, envVars
<1>16. SaysWhatItIs'
  BY <1>0, <1>7, RoomStays DEF Rest, SaysWhatItIs, envVars
<1>17. StaysOut'
  BY <1>0, <1>6, <1>7, RoomStays DEF Rest, StaysOut, envVars
<1>18. OneHandle' /\ (past'.refused => past'.leaked)
  BY <1>0, <1>4, <1>6, <1>7, RoomStays DEF OneHandle, envVars, Reaches
<1> QED
  BY <1>6, <1>11, <1>12, <1>13, <1>14, <1>15, <1>16, <1>17, <1>18 DEF Rest

-------------------------------------------------------------------------------
LEMMA ApiBegins == ApiAssumption /\ ApiInit => ApiInv
<1> SUFFICES ASSUME ApiAssumption, ApiInit PROVE ApiInv
  OBVIOUS
<1>1. MaxSessions \in Nat /\ room.clients \in Nat \ {0} /\ MaxFaults \in Nat /\ room \in Rooms
  BY RoomFacts DEF ApiInit
<1>2. Free \in Handles /\ Free.inbox = << >> /\ Free.server = "none" /\ Free.last = 0
  BY <1>1, HandlesToBegin
<1>3. ApiTypes
  <2>1. past \in Pasts
    BY DEF ApiInit, Pasts
  <2>2. queue \in Seq(Received)
    BY HandlesToBegin, <1>1 DEF ApiInit
  <2>3. net \in [Clients -> Handles]
    BY <1>2 DEF ApiInit
  <2>4. faults \in 0..MaxFaults /\ client \in 0..room.clients
    BY <1>1 DEF ApiInit
  <2>5. wifiUp \in BOOLEAN /\ token \in BOOLEAN /\ isConnected \in BOOLEAN
    BY DEF ApiInit
  <2> QED
    BY <1>1, <2>1, <2>2, <2>3, <2>4, <2>5 DEF ApiInit, ApiTypes
<1>4. DOMAIN sessions = {} /\ ToStart = {}
  BY DEF ApiInit, ToStart
<1>5. SessionsTyped /\ LoopIsReady
  BY <1>1, <1>4 DEF ApiInit, SessionsTyped, LoopIsReady
<1>6. Rest
  BY <1>1, <1>2, <1>4 DEF ApiInit, Rest, SentIsGiven, SeenIsOld, NamesAreReal, SaysWhatItIs, StaysOut
<1>7. OneHandle /\ ~past.refused
  BY DEF ApiInit, OneHandle
<1> QED
  BY <1>3, <1>5, <1>6, <1>7 DEF ApiInv

LEMMA ApiStepKeeps == ApiAssumption /\ ApiInv /\ [HaNext]_haVars => ApiInv'
<1> SUFFICES ASSUME ApiAssumption, ApiInv, [HaNext]_haVars PROVE ApiInv'
  OBVIOUS
<1>1. CASE ApiLoop
  BY <1>1, ConstructKeeps, ProcessKeeps, AttemptKeeps, ProcessSessionsKeeps, ProcessMessageKeeps
     DEF ApiLoop
<1>2. CASE Page
  BY <1>2, AddSessionKeeps, CloseSessionPageKeeps DEF Page
<1>3. CASE Faults
  BY <1>3, WifiLostKeeps, SocketClosedKeeps, ServerEventKeeps DEF Faults
<1>4. CASE Opens
  BY <1>4, OpenedKeeps DEF Opens
<1>5. CASE WifiStatus
  BY <1>5, WifiStatusKeeps
<1>6. CASE Elapse
  BY <1>6, ElapseKeeps
<1>7. CASE \E c \in Clients : ClientTask(c) \/ Reopening(c)
  BY <1>7, ProcessResponseDocKeeps, AppendedKeeps, ServerTimeoutKeeps, ReopeningKeeps DEF ClientTask
<1>8. CASE UNCHANGED haVars
  <2>1. UNCHANGED <<room, wifiUp, token, faults, retryDue, authDue, auth, socketVars, connection, sessions,
                    nextId, queue, loop, past>>
    BY <1>8 DEF haVars, apiVars, timeVars, envVars
  <2>2. ApiTypes'
    BY <2>1, RoomStays DEF ApiInv, ApiTypes, socketVars
  <2> QED
    BY <2>1, <2>2, NothingMoves
<1> QED
  BY <1>1, <1>2, <1>3, <1>4, <1>5, <1>6, <1>7, <1>8 DEF HaNext

(* Text is left or not, whatever goes on.                                  *)
LEMMA LeftoverIsText ==
  ASSUME leftover \in BOOLEAN, [HaNext]_haVars PROVE leftover' \in BOOLEAN
<1>1. \A c : MayLeave(c) => leftover' \in BOOLEAN
  BY DEF MayLeave
<1>2. \A up : connect(up) => leftover' \in BOOLEAN
  BY <1>1 DEF connect
<1>3. CASE ApiLoop
  BY <1>2, <1>3 DEF ApiLoop, Construct, Process, Attempt, ProcessSessions, ProcessMessage,
                    AttemptConnection, socketVars
<1>4. CASE Page \/ Elapse \/ WifiLost
  BY <1>4 DEF Page, AddSession, CloseSessionPage, Elapse, WifiLost, socketVars
<1>5. CASE Opens \/ WifiStatus
  BY <1>2, <1>5 DEF Opens, Opened, WifiStatus
<1>6. CASE \E c \in Clients : SocketClosed(c) \/ ServerEvent(c) \/ Reopening(c)
  BY <1>1, <1>6 DEF SocketClosed, ServerEvent, Reopening
<1>7. CASE \E c \in Clients : ClientTask(c)
  BY <1>7 DEF ClientTask, ProcessResponseDoc, Appended, ServerTimeout
<1>8. CASE UNCHANGED haVars
  BY <1>8 DEF haVars, socketVars
<1> QED
  BY <1>3, <1>4, <1>5, <1>6, <1>7, <1>8 DEF HaNext, Faults

(* Over connections that are lost, refused and made again, requests go out *)
(* once, in the order of their ids, to a server that took the token, and   *)
(* the loop never meets a hole in the map (Api.cpp, AuthSession.hpp,       *)
(* ResponseHandler.cpp, esp32WebSocket.cpp).                               *)
THEOREM ApiIsSafe == HaSpec => []ApiSafe
<1>1. ApiInv /\ leftover \in BOOLEAN => ApiSafe
  <2> SUFFICES ASSUME ApiInv, leftover \in BOOLEAN PROVE ApiSafe
    OBVIOUS
  <2>1. ApiTypeOK
    <3>1. ASSUME NEW c \in Clients
          PROVE  /\ net[c].state \in {"free", "opening", "open", "closed"}
                 /\ net[c].server \in {"none", "asked", "authed", "refused"}
                 /\ net[c].last \in 0..MaxSessions
                 /\ \A k \in DOMAIN net[c].inbox : net[c].inbox[k].id \in 0..MaxSessions
      <4>1. net[c] \in Handles
        BY DEF ApiInv, ApiTypes
      <4>2. \A k \in DOMAIN net[c].inbox : net[c].inbox[k] \in Received
        BY <4>1, ElementOfSeq, LenProperties DEF Handles
      <4> QED
        BY <4>1, <4>2 DEF Handles, Received
    <3> QED
      BY <3>1 DEF ApiTypeOK, ApiInv, ApiTypes, SessionsTyped
  <2>2. NoHole /\ IdsIncrease /\ AskedWhenAuthed
    BY DEF ApiInv, Rest, NoHole, IdsIncrease, AskedWhenAuthed
  <2>3. HandedOnce /\ RefusedStaysOut
    BY DEF ApiInv, Rest, SentIsGiven, StaysOut, HandedOnce, RefusedStaysOut
  <2> QED
    BY <2>1, <2>2, <2>3 DEF ApiSafe
<1>2. HaSpec => []ApiInv
  BY ApiAssumption, ApiBegins, ApiStepKeeps, PTL DEF HaSpec
<1>3. HaSpec => [](leftover \in BOOLEAN)
  <2>1. ApiInit => leftover \in BOOLEAN
    BY DEF ApiInit
  <2>2. leftover \in BOOLEAN /\ [HaNext]_haVars => (leftover \in BOOLEAN)'
    BY LeftoverIsText
  <2> QED
    BY <2>1, <2>2, PTL DEF HaSpec
<1> QED
  BY <1>1, <1>2, <1>3, PTL

(* A non-empty set of natural numbers has a least element.                 *)
LEMMA LeastElement ==
  ASSUME NEW T, T \subseteq Nat, T # {}
  PROVE  \E i \in T : \A j \in T : i <= j
<1> DEFINE R == OpToRel(<, Nat)
<1>1. \E i \in T : \A j \in T : <<j, i>> \notin R
  <2> HIDE DEF R
  <2>1. IsWellFoundedOn(R, Nat)
    BY NatLessThanWellFounded DEF R
  <2> QED  BY <2>1, WFMin
<1>2. \A i, j \in Nat : <<j, i>> \notin R => i <= j
  <2>1. ASSUME NEW i \in Nat, NEW j \in Nat, j < i  PROVE <<j, i>> \in R
    BY <2>1 DEF OpToRel
  <2> HIDE DEF R
  <2> QED  BY <2>1
<1> HIDE DEF R
<1> QED  BY <1>1, <1>2

(***************************************************************************)
(* The messages.  A unit is a token at its place in its message, and a run *)
(* is what the reader has read after some units of the buffer.             *)
(***************************************************************************)
Units == {u \in (DOMAIN Messages) \X Nat : u[2] \in 1..Length(u[1])}
ChunkStates == [total : Nat, offset : Nat, buffer : Seq(Units), max : BufferSizes \cup {0}, reader : Seq(Units)]
Run(c, n) == c.reader \o SubSeq(c.buffer, 1, n)

(* What the reader has and what is in the buffer are of messages of the    *)
(* length that is in work; what was read is the beginning of one of them,  *)
(* and no message is complete in the buffer.                               *)
Contiguous(units) == \A k \in 1..Len(units) : units[k] = <<units[1][1], k>>
OfLength(units, n) == \A k \in 1..Len(units) : Length(units[k][1]) = n
SoundChunks(c) ==
  /\ c \in ChunkStates
  /\ c.offset = Len(c.reader)
  /\ c.total = 0 => c.reader = << >> /\ c.buffer = << >>
  /\ OfLength(c.reader, c.total) /\ OfLength(c.buffer, c.total)
  /\ Contiguous(c.reader)
  /\ \A n \in 0..Len(c.buffer) : ~Complete(c, n)

Heards == [docs : Seq(Nat), parsed : Seq(Nat), cut : Nat, overrun : BOOLEAN]
Pages(stored) == [open : BOOLEAN, stored : {stored}, percent : Nat, shown : BOOLEAN]
Tasks == [kind : {"percent", "finished", "error"}, at : Nat, of : Nat]
MsgTypes ==
  /\ simulator \in BOOLEAN /\ mPartialProcessingFailed \in BOOLEAN /\ mProcessor \in BOOLEAN
  /\ wire \in [msg : 1..Len(Messages) + 1, off : Nat, big : BOOLEAN]
  /\ wire.off # 0 => wire.msg \in DOMAIN Messages /\ wire.off < Length(wire.msg)
  /\ mIncomingMessage \in Seq(Units)
  /\ listPage \in Pages(listPage.stored)
  /\ (mProcessor => listPage.open)
  /\ later \in Seq(Tasks)
  /\ heard \in Heards

(* What was handled came before the message on the wire, in order, and once.*)
Ordered(s) == \A j, k \in 1..Len(s) : j < k => s[j] < s[k]
Before(s, m) == \A k \in 1..Len(s) : s[k] \in 1..(m - 1)
HeardOnce(h, m) ==
  /\ Ordered(h.docs) /\ Ordered(h.parsed) /\ Before(h.docs, m) /\ Before(h.parsed, m)
  /\ h.cut \in 0..(m - 1)
  /\ \A k \in 1..Len(h.docs) : h.docs[k] # h.cut
  /\ \A k \in 1..Len(h.parsed) : h.parsed[k] # h.cut
  /\ \A j \in 1..Len(h.docs), k \in 1..Len(h.parsed) : h.docs[j] # h.parsed[k]

(* Until a message is cut off or a chunk does not fit, what is held is the *)
(* beginning of the message on the wire, on one of the two ways.           *)
AllHeard(h, m) ==
  \A i \in 1..(m - 1) : \/ \E k \in 1..Len(h.docs) : h.docs[k] = i
                        \/ \E k \in 1..Len(h.parsed) : h.parsed[k] = i
Held(w, incoming, c, failed) ==
  IF w.off = 0 THEN incoming = << >> /\ c.total = 0
  ELSE IF ~w.big THEN incoming = Part(w.msg, 0, w.off) /\ c.total = 0
  ELSE /\ incoming = << >> /\ c.total = Length(w.msg) /\ ~failed
       /\ c.reader \o c.buffer = Part(w.msg, 0, w.off)
InStep ==
  heard.cut = 0 /\ ~heard.overrun =>
    AllHeard(heard, wire.msg) /\ Held(wire, mIncomingMessage, chunks, mPartialProcessingFailed)

NoFurther(tasks) == \A k \in 1..Len(tasks) : tasks[k].at <= tasks[k].of
MessagesInv ==
  MsgTypes /\ SoundChunks(chunks) /\ HeardOnce(heard, wire.msg) /\ InStep /\ NoFurther(later)

LEMMA MessageFacts ==
         /\ Len(Messages) \in Nat /\ DOMAIN Messages = 1..Len(Messages)
         /\ \A m \in DOMAIN Messages :
              /\ Messages[m].query \in BOOLEAN /\ Length(m) \in Nat \ {0}
              /\ Messages[m].tokens \in Seq({"id", "entity", "other"})
         /\ BufferSizes \cup {0} \subseteq Nat /\ PartSize \in Nat \ {0}
<1> DEFINE Tokens == Seq({"id", "entity", "other"})
<1>1. Messages \in Seq([query : BOOLEAN, tokens : Tokens \ {<< >>}])
  BY MessagesAssumption DEF MessagesAssumption
<1>2. \A t \in Tokens : t # << >> => Len(t) \in Nat \ {0}
  BY EmptySeq
<1> HIDE DEF Tokens
<1>3. Len(Messages) \in Nat /\ DOMAIN Messages = 1..Len(Messages)
  BY <1>1, LenProperties
<1>4. ASSUME NEW m \in DOMAIN Messages
      PROVE  Messages[m].query \in BOOLEAN /\ Length(m) \in Nat \ {0} /\ Messages[m].tokens \in Tokens
  <2>1. Messages[m] \in [query : BOOLEAN, tokens : Tokens \ {<< >>}]
    BY <1>1, <1>3, ElementOfSeq
  <2> QED  BY <2>1, <1>2 DEF Length
<1> QED  BY <1>3, <1>4, MessagesAssumption DEF MessagesAssumption, Tokens

(* A part of a message.                                                    *)
LEMMA PartFacts ==
  ASSUME NEW m \in DOMAIN Messages, NEW from \in Nat, NEW to \in Nat,
         from <= to, to <= Length(m)
  PROVE  /\ Part(m, from, to) \in Seq(Units) /\ Len(Part(m, from, to)) = to - from
         /\ \A k \in 1..(to - from) : Part(m, from, to)[k] = <<m, from + k>>
<1> DEFINE n == to - from
           p == [k \in 1..n |-> <<m, from + k>>]
<1>1. n \in Nat /\ Length(m) \in Nat /\ \A k \in 1..n : from + k \in 1..Length(m)
  BY MessageFacts
<1>2. \A k \in 1..n : <<m, from + k>> \in Units
  BY <1>1 DEF Units
<1>3. p \in [1..n -> Units]
  BY <1>2
<1>4. Part(m, from, to) = p /\ \A k \in 1..n : p[k] = <<m, from + k>>
  BY DEF Part
<1> HIDE DEF p, n
<1>5. p \in Seq(Units) /\ Len(p) = n
  BY <1>1, <1>3
<1> QED  BY <1>4, <1>5 DEF n

LEMMA WholePart ==
  ASSUME NEW m \in DOMAIN Messages
  PROVE  /\ Part(m, 0, Length(m)) \in Seq(Units) /\ Len(Part(m, 0, Length(m))) = Length(m)
         /\ \A k \in 1..Length(m) : Part(m, 0, Length(m))[k] = <<m, k>>
<1> DEFINE n == Length(m)
<1>1. n \in Nat /\ n <= Length(m) /\ 0 \in Nat /\ 0 <= n
  BY MessageFacts
<1> HIDE DEF n
<1> DEFINE p == Part(m, 0, n)
<1>2. p \in Seq(Units) /\ Len(p) = n - 0 /\ \A k \in 1..(n - 0) : p[k] = <<m, 0 + k>>
  BY <1>1, PartFacts
<1> HIDE DEF p
<1>3. Len(p) = n /\ \A k \in 1..n : p[k] = <<m, k>>
  BY <1>1, <1>2
<1> QED  BY <1>2, <1>3 DEF p, n

LEMMA RunFacts ==
  ASSUME NEW s \in Seq(Units), NEW t \in Seq(Units), NEW n \in 0..Len(t)
  PROVE  /\ s \o SubSeq(t, 1, n) \in Seq(Units)
         /\ Len(s \o SubSeq(t, 1, n)) = Len(s) + n
         /\ \A i \in 1..Len(s) : (s \o SubSeq(t, 1, n))[i] = s[i]
         /\ \A i \in 1..n : (s \o SubSeq(t, 1, n))[Len(s) + i] = t[i]
<1>1. Len(s) \in Nat /\ Len(t) \in Nat /\ \A i \in 1..Len(t) : t[i] \in Units
  BY LenProperties, ElementOfSeq
<1> DEFINE p == SubSeq(t, 1, n)
<1>2. p \in Seq(Units) /\ Len(p) = n /\ \A i \in 1..n : p[i] = t[i]
  BY <1>1, SubSeqProperties
<1> HIDE DEF p
<1>3. /\ s \o p \in Seq(Units) /\ Len(s \o p) = Len(s) + n
      /\ \A i \in 1..Len(s) + n : (s \o p)[i] = IF i <= Len(s) THEN s[i] ELSE p[i - Len(s)]
  BY <1>2, ConcatProperties
<1>4. \A i \in 1..Len(s) : (s \o p)[i] = s[i]
  BY <1>1, <1>3
<1>5. ASSUME NEW i \in 1..n  PROVE (s \o p)[Len(s) + i] = t[i]
  <2>1. Len(s) + i \in 1..Len(s) + n /\ ~(Len(s) + i <= Len(s)) /\ (Len(s) + i) - Len(s) = i
    BY <1>1
  <2> QED  BY <1>2, <1>3, <2>1
<1> QED  BY <1>3, <1>4, <1>5 DEF p

(* Whole is to be the parts of a message, from its first to its last.      *)
LEMMA WholeIs ==
  ASSUME NEW s \in Seq(Units)
  PROVE  Whole(s) <=> \E x \in DOMAIN Messages :
                        Len(s) = Length(x) /\ \A i \in 1..Len(s) : s[i] = <<x, i>>
<1>1. Len(s) \in Nat /\ \A i \in 1..Len(s) : s[i] \in Units
  BY LenProperties, ElementOfSeq
<1>2. ASSUME Whole(s)
      PROVE  \E x \in DOMAIN Messages : Len(s) = Length(x) /\ \A i \in 1..Len(s) : s[i] = <<x, i>>
  <2> DEFINE x == s[1][1]
  <2>1. s # << >> /\ s = Part(x, 0, Length(x))
    BY <1>2 DEF Whole
  <2>2. Len(s) \in Nat \ {0}
    BY <2>1, EmptySeq
  <2>3. x \in DOMAIN Messages
    BY <1>1, <2>2 DEF Units
  <2> HIDE DEF x
  <2>4. Length(x) \in Nat
    BY <2>3, MessageFacts
  <2>5. Len(s) = Length(x) /\ \A k \in 1..Length(x) : s[k] = <<x, k>>
    BY <2>1, <2>3, WholePart
  <2> QED  BY <2>3, <2>5
<1>3. ASSUME NEW x \in DOMAIN Messages, Len(s) = Length(x), \A i \in 1..Len(s) : s[i] = <<x, i>>
      PROVE  Whole(s)
  <2>1. Length(x) \in Nat \ {0}
    BY MessageFacts
  <2>2. s # << >> /\ s[1] = <<x, 1>>
    BY <1>3, <2>1, EmptySeq
  <2> DEFINE p == Part(x, 0, Length(x))
  <2>3. p \in Seq(Units) /\ Len(p) = Length(x) /\ \A k \in 1..Length(x) : p[k] = <<x, k>>
    BY WholePart
  <2> HIDE DEF p
  <2>4. Len(p) = Len(s) /\ \A k \in 1..Len(s) : s[k] = p[k]
    BY <1>3, <2>3
  <2>5. s = p
    BY <2>3, <2>4, SeqEqual
  <2>6. s[1][1] = x
    BY <2>2
  <2> QED  BY <2>2, <2>5, <2>6 DEF Whole, p
<1> QED  BY <1>2, <1>3

LEMMA RunIs ==
  ASSUME NEW c \in ChunkStates, NEW n \in 0..Len(c.buffer)
  PROVE  /\ Run(c, n) \in Seq(Units) /\ Len(Run(c, n)) = Len(c.reader) + n
         /\ \A i \in 1..Len(c.reader) : Run(c, n)[i] = c.reader[i]
         /\ \A i \in 1..n : Run(c, n)[Len(c.reader) + i] = c.buffer[i]
         /\ Complete(c, n) <=> Whole(Run(c, n))
<1>1. c.reader \in Seq(Units) /\ c.buffer \in Seq(Units)
  BY DEF ChunkStates
<1> QED  BY <1>1, RunFacts DEF Run, Complete

LEMMA CompleteIs ==
  ASSUME NEW c \in ChunkStates, NEW n \in 0..Len(c.buffer)
  PROVE  Complete(c, n) <=> \E x \in DOMAIN Messages :
           /\ Len(c.reader) + n = Length(x)
           /\ \A i \in 1..Len(c.reader) : c.reader[i] = <<x, i>>
           /\ \A i \in 1..n : c.buffer[i] = <<x, Len(c.reader) + i>>
<1> DEFINE l == Len(c.reader)
           r == Run(c, n)
<1>1. l \in Nat /\ n \in Nat
  BY LenProperties DEF ChunkStates
<1>2. /\ r \in Seq(Units) /\ Len(r) = l + n
      /\ \A i \in 1..l : r[i] = c.reader[i]
      /\ \A i \in 1..n : r[l + i] = c.buffer[i]
      /\ Complete(c, n) <=> Whole(r)
  BY RunIs
<1> HIDE DEF r, l
<1>3. Whole(r) <=> \E x \in DOMAIN Messages : Len(r) = Length(x) /\ \A i \in 1..Len(r) : r[i] = <<x, i>>
  BY <1>2, WholeIs
<1>4. \A x : (\A i \in 1..Len(r) : r[i] = <<x, i>>)
             <=> (\A i \in 1..l : c.reader[i] = <<x, i>>) /\ (\A i \in 1..n : c.buffer[i] = <<x, l + i>>)
  <2> TAKE x
  <2>1. ASSUME \A i \in 1..Len(r) : r[i] = <<x, i>>
        PROVE  (\A i \in 1..l : c.reader[i] = <<x, i>>) /\ (\A i \in 1..n : c.buffer[i] = <<x, l + i>>)
    <3>1. \A i \in 1..l : i \in 1..Len(r)
      BY <1>1, <1>2
    <3>2. \A i \in 1..n : l + i \in 1..Len(r)
      BY <1>1, <1>2
    <3> QED  BY <1>2, <2>1, <3>1, <3>2
  <2>2. ASSUME \A i \in 1..l : c.reader[i] = <<x, i>>, \A i \in 1..n : c.buffer[i] = <<x, l + i>>,
               NEW i \in 1..Len(r)
        PROVE  r[i] = <<x, i>>
    <3>1. CASE i <= l
      <4>1. i \in 1..l
        BY <1>1, <1>2, <3>1
      <4> QED  BY <1>2, <2>2, <4>1
    <3>2. CASE ~(i <= l)
      <4>1. i - l \in 1..n /\ l + (i - l) = i
        BY <1>1, <1>2, <3>2
      <4>2. r[l + (i - l)] = c.buffer[i - l] /\ c.buffer[i - l] = <<x, l + (i - l)>>
        BY <1>2, <2>2, <4>1
      <4> QED  BY <4>1, <4>2
    <3> QED  BY <3>1, <3>2
  <2> QED  BY <2>1, <2>2
<1> QED  BY <1>2, <1>3, <1>4 DEF l

(* A chunk is added to the buffer.                                         *)
Adds(full, c, m, from, to) == full = [c EXCEPT !.buffer = @ \o Part(m, from, to)]
HasAdded(full, c, m, from, to) ==
  /\ full \in ChunkStates /\ full.total = c.total /\ full.offset = c.offset
  /\ full.reader = c.reader /\ full.max = c.max
  /\ Len(full.buffer) = Len(c.buffer) + (to - from)
  /\ \A i \in 1..Len(c.buffer) : full.buffer[i] = c.buffer[i]
  /\ \A i \in 1..(to - from) : full.buffer[Len(c.buffer) + i] = <<m, from + i>>
LEMMA Added ==
  ASSUME NEW c \in ChunkStates, NEW m \in DOMAIN Messages,
         NEW from \in Nat, NEW to \in Nat, from < to, to <= Length(m),
         NEW full, Adds(full, c, m, from, to)
  PROVE  HasAdded(full, c, m, from, to)
<1> DEFINE p == Part(m, from, to)
           b == c.buffer \o p
           l == Len(c.buffer)
           d == to - from
<1>0. from <= to
  OBVIOUS
<1>1. p \in Seq(Units) /\ Len(p) = d /\ \A k \in 1..d : p[k] = <<m, from + k>>
  BY <1>0, PartFacts
<1>2. c.buffer \in Seq(Units) /\ l \in Nat /\ d \in Nat
  BY LenProperties DEF ChunkStates
<1>3. full = [c EXCEPT !.buffer = b]
  BY DEF Adds
<1> HIDE DEF p, d
<1>4. /\ b \in Seq(Units) /\ Len(b) = l + d
      /\ \A i \in 1..l + d : b[i] = IF i <= l THEN c.buffer[i] ELSE p[i - l]
  <2>1. /\ b \in Seq(Units) /\ Len(b) = Len(c.buffer) + Len(p)
        /\ \A i \in 1..Len(c.buffer) + Len(p) :
             b[i] = IF i <= Len(c.buffer) THEN c.buffer[i] ELSE p[i - Len(c.buffer)]
    BY <1>1, <1>2, ConcatProperties
  <2> HIDE DEF b
  <2> QED  BY <1>1, <2>1
<1> HIDE DEF b, l
<1>5. /\ full \in ChunkStates /\ full.total = c.total /\ full.offset = c.offset
      /\ full.reader = c.reader /\ full.max = c.max /\ full.buffer = b
  BY <1>3, <1>4 DEF ChunkStates
<1>6. \A i \in 1..l : b[i] = c.buffer[i]
  BY <1>2, <1>4
<1>7. ASSUME NEW i \in 1..d  PROVE b[l + i] = <<m, from + i>>
  <2>1. l + i \in 1..l + d /\ ~(l + i <= l) /\ (l + i) - l = i
    BY <1>2
  <2> QED  BY <1>1, <1>4, <2>1
<1> QED  BY <1>4, <1>5, <1>6, <1>7 DEF HasAdded, l, d

(* What a chunk completes is its own message, with its last unit.          *)
LEMMA CompleteAtTheEnd ==
  ASSUME NEW c, SoundChunks(c), NEW m \in DOMAIN Messages,
         NEW from \in Nat, NEW to \in Nat, from < to, to <= Length(m),
         NEW full, Adds(full, c, m, from, to),
         NEW n \in 0..Len(full.buffer), Complete(full, n)
  PROVE  to = Length(m) /\ n = Len(full.buffer) /\ full.offset + Len(full.buffer) = Length(m)
<1> DEFINE r == Len(c.reader)
           l == Len(c.buffer)
<1>1. c \in ChunkStates /\ r \in Nat /\ l \in Nat /\ c.offset = r /\ Length(m) \in Nat
  BY MessageFacts, LenProperties DEF SoundChunks, ChunkStates
<1>2. /\ full \in ChunkStates /\ full.offset = r /\ full.reader = c.reader
      /\ Len(full.buffer) = l + (to - from)
      /\ \A i \in 1..l : full.buffer[i] = c.buffer[i]
      /\ \A i \in 1..(to - from) : full.buffer[l + i] = <<m, from + i>>
  <2>1. HasAdded(full, c, m, from, to)
    BY <1>1, Added
  <2> QED  BY <1>1, <2>1 DEF HasAdded
<1> HIDE DEF l
<1>3. PICK x \in DOMAIN Messages :
           /\ Len(full.reader) + n = Length(x)
           /\ \A i \in 1..Len(full.reader) : full.reader[i] = <<x, i>>
           /\ \A i \in 1..n : full.buffer[i] = <<x, Len(full.reader) + i>>
  BY <1>2, CompleteIs
<1>4. /\ r + n = Length(x) /\ \A i \in 1..r : c.reader[i] = <<x, i>>
      /\ \A i \in 1..n : full.buffer[i] = <<x, r + i>>
  BY <1>2, <1>3
<1>5. n > l
  <2> SUFFICES ASSUME ~(n > l)  PROVE FALSE
    OBVIOUS
  <2>1. n \in 0..l /\ \A i \in 1..n : i \in 1..l
    BY <1>1, <1>2
  <2>2. \A i \in 1..n : c.buffer[i] = <<x, r + i>>
    BY <1>2, <1>4, <2>1
  <2>3. Complete(c, n)
    BY <1>1, <1>4, <2>1, <2>2, CompleteIs DEF l
  <2> QED  BY <2>1, <2>3 DEF SoundChunks, l
<1> HIDE DEF r
<1>6. x = m /\ r + l = from
  <2>1. l + 1 \in 1..n /\ 1 \in 1..(to - from)
    BY <1>1, <1>2, <1>5
  <2>2. full.buffer[l + 1] = <<x, r + (l + 1)>> /\ full.buffer[l + 1] = <<m, from + 1>>
    BY <1>2, <1>4, <2>1
  <2>3. x = m /\ r + (l + 1) = from + 1
    BY <2>2
  <2> QED  BY <1>1, <2>3
<1>7. n <= l + (to - from) /\ n \in Nat
  BY <1>1, <1>2
<1> QED  BY <1>1, <1>2, <1>4, <1>6, <1>7

(* Where nothing stops the parser, one unit continues the other.           *)
LEMMA ReadIsContiguous ==
  ASSUME NEW c \in ChunkStates, c.offset = Len(c.reader),
         Contiguous(c.reader), OfLength(c.reader, c.total), OfLength(c.buffer, c.total),
         NEW k \in Parsed(c)
  PROVE  /\ k \in 0..Len(c.buffer) /\ Contiguous(Run(c, k)) /\ OfLength(Run(c, k), c.total)
         /\ (c.total # 0 => c.offset + k <= c.total)
<1> DEFINE l == Len(c.reader)
           u == Run(c, k)
<1>1. /\ k \in 0..Len(c.buffer) /\ k \in Nat /\ l \in Nat /\ Len(c.buffer) \in Nat
      /\ c.total \in Nat
      /\ \A j \in 0..(k-1) : ~Stops(c, j)
  BY LenProperties DEF Parsed, ChunkStates
<1>2. /\ u \in Seq(Units) /\ Len(u) = l + k
      /\ \A i \in 1..l : u[i] = c.reader[i]
      /\ \A i \in 1..k : u[l + i] = c.buffer[i]
  BY <1>1, RunIs
<1> HIDE DEF u
<1>3. \A i \in 1..l + k : u[i] \in Units
  BY <1>2, ElementOfSeq
<1>4. ASSUME NEW i \in 1..k  PROVE IF l + i = 1 THEN u[l + i][2] = 1
                                   ELSE u[l + i] = <<u[l + i - 1][1], u[l + i - 1][2] + 1>>
  <2>1. i - 1 \in 0..(k - 1) /\ (i - 1) + 1 = i
    BY <1>1
  <2>2. Continues(c, i)
    BY <1>1, <2>1 DEF Stops
  <2>3. i > 1 => i - 1 \in 1..k /\ l + (i - 1) = l + i - 1
    BY <1>1
  <2>4. i = 1 /\ l # 0 => c.reader # << >> /\ Last(c.reader) = c.reader[l] /\ l \in 1..l /\ l + i - 1 = l
    BY <1>1, EmptySeq DEF Last
  <2>5. i = 1 \/ i > 1
    BY <1>1
  <2>6. u[l + i] = c.buffer[i]
    BY <1>2
  <2>7. CASE i > 1
    <3>1. u[l + i - 1] = c.buffer[i - 1]
      BY <1>2, <2>3, <2>7
    <3>2. l + i # 1 /\ l + i - 1 # 0
      BY <1>1, <2>7
    <3>3. c.buffer[i] = <<c.buffer[i - 1][1], c.buffer[i - 1][2] + 1>>
      BY <2>2, <2>7, <3>2 DEF Continues
    <3> QED  BY <2>6, <3>1, <3>2, <3>3
  <2>8. CASE i = 1
    <3>1. CASE l = 0
      <4>1. c.buffer[i][2] = 1
        BY <2>2, <2>8, <3>1 DEF Continues
      <4> QED  BY <2>6, <2>8, <3>1, <4>1
    <3>2. CASE l # 0
      <4>1. u[l + i - 1] = c.reader[l]
        BY <1>2, <2>4, <2>8, <3>2
      <4>2. c.buffer[i] = <<c.reader[l][1], c.reader[l][2] + 1>>
        BY <1>1, <2>2, <2>4, <2>8, <3>2 DEF Continues
      <4>3. l + i # 1
        BY <1>1, <2>8, <3>2
      <4> QED  BY <2>6, <4>1, <4>2, <4>3
    <3> QED  BY <3>1, <3>2
  <2> QED  BY <2>5, <2>7, <2>8
<1>5. Contiguous(u)
  <2> DEFINE bad == {i \in 1..l + k : u[i] # <<u[1][1], i>>}
  <2> SUFFICES ASSUME bad # {}  PROVE FALSE
    BY <1>2 DEF Contiguous
  <2>1. PICK i \in bad : \A j \in bad : i <= j
    <3>1. bad \subseteq Nat
      BY <1>1
    <3> HIDE DEF bad
    <3> QED  BY <3>1, LeastElement
  <2>2. i \in 1..l + k /\ i \in Nat /\ u[i] # <<u[1][1], i>>
    BY <1>1, <2>1
  <2>3. \A j \in 1..l + k : j < i => u[j] = <<u[1][1], j>>
    BY <1>1, <2>1
  <2>4. ~(i <= l)
    <3> SUFFICES ASSUME i <= l  PROVE FALSE
      OBVIOUS
    <3>1. i \in 1..l /\ 1 \in 1..l
      BY <1>1, <2>2
    <3>2. u[i] = c.reader[i] /\ u[1] = c.reader[1] /\ c.reader[i] = <<c.reader[1][1], i>>
      BY <1>2, <3>1 DEF Contiguous
    <3> QED  BY <2>2, <3>2
  <2>5. i - l \in 1..k /\ l + (i - l) = i
    BY <1>1, <2>2, <2>4
  <2>6. IF i = 1 THEN u[i][2] = 1 ELSE u[i] = <<u[i - 1][1], u[i - 1][2] + 1>>
    <3> DEFINE j == i - l
    <3>1. j \in 1..k /\ l + j = i
      BY <2>5
    <3> HIDE DEF j
    <3> QED  BY <1>4, <3>1
  <2>7. CASE i = 1
    <3>1. u[1] \in Units /\ u[1][2] = 1
      BY <1>3, <2>2, <2>6, <2>7
    <3> QED  BY <2>2, <2>7, <3>1 DEF Units
  <2>8. CASE i # 1
    <3>1. i - 1 \in 1..l + k /\ i - 1 < i /\ (i - 1) + 1 = i
      BY <1>1, <2>2, <2>8
    <3>2. u[i - 1] = <<u[1][1], i - 1>>
      BY <2>3, <3>1
    <3> QED  BY <2>2, <2>6, <2>8, <3>1, <3>2
  <2> QED  BY <2>7, <2>8
<1>6. OfLength(u, c.total)
  <2> SUFFICES ASSUME NEW i \in 1..l + k  PROVE Length(u[i][1]) = c.total
    BY <1>2 DEF OfLength
  <2>1. CASE i <= l
    <3>1. i \in 1..l
      BY <1>1, <2>1
    <3> QED  BY <1>2, <3>1 DEF OfLength
  <2>2. CASE ~(i <= l)
    <3>1. i - l \in 1..k /\ l + (i - l) = i /\ i - l \in 1..Len(c.buffer)
      BY <1>1, <2>2
    <3>2. u[l + (i - l)] = c.buffer[i - l]
      BY <1>2, <3>1
    <3> QED  BY <3>1, <3>2 DEF OfLength
  <2> QED  BY <2>1, <2>2
<1>7. ASSUME c.total # 0  PROVE c.offset + k <= c.total
  <2>1. CASE l + k = 0
    BY <1>1, <2>1
  <2>2. CASE l + k # 0
    <3> DEFINE e == l + k
    <3>1. e \in 1..l + k /\ e \in 1..Len(u)
      BY <1>1, <1>2, <2>2
    <3>2. u[e] \in Units /\ u[e] = <<u[1][1], e>> /\ Length(u[e][1]) = c.total
      BY <1>3, <1>5, <1>6, <3>1 DEF Contiguous, OfLength
    <3> HIDE DEF e
    <3>3. e \in 1..c.total
      BY <3>2 DEF Units
    <3> QED  BY <1>1, <3>3 DEF e
  <2> QED  BY <2>1, <2>2
<1> QED  BY <1>1, <1>5, <1>6, <1>7 DEF u

(* A message is begun, or one is in work.                                  *)
BegunFrom(c, d, l) ==
  /\ c.reader = d.reader /\ c.buffer = d.buffer
  /\ c.total = (IF d.total = 0 THEN l ELSE d.total)
LEMMA BegunIsSound ==
  ASSUME NEW d, SoundChunks(d), NEW max \in BufferSizes \cup {0}, NEW l \in Nat \ {0},
         NEW c, c = ChunksBegun([d EXCEPT !.max = max], l)
  PROVE  SoundChunks(c) /\ BegunFrom(c, d, l)
<1>1. d \in ChunkStates
  BY DEF SoundChunks
<1>2. /\ c \in ChunkStates /\ c.reader = d.reader /\ c.buffer = d.buffer /\ c.offset = d.offset
      /\ c.total = (IF d.total = 0 THEN l ELSE d.total) /\ c.total # 0
  <2>1. [d EXCEPT !.max = max] \in ChunkStates
    BY <1>1 DEF ChunkStates
  <2>2. << >> \in Seq(Units)
    BY EmptySeq
  <2>3. CASE d.total = 0
    <3>1. d.reader = << >> /\ c = [[d EXCEPT !.max = max] EXCEPT !.total = l, !.reader = << >>]
      BY <1>1, <2>3 DEF SoundChunks, ChunksBegun, ChunkStates
    <3> QED  BY <1>1, <2>2, <2>3, <3>1 DEF ChunkStates
  <2>4. CASE d.total # 0
    <3>1. c = [d EXCEPT !.max = max]
      BY <1>1, <2>4 DEF ChunksBegun, ChunkStates
    <3> QED  BY <1>1, <2>4, <3>1 DEF ChunkStates
  <2> QED  BY <2>3, <2>4
<1>3. \A n : Complete(c, n) <=> Complete(d, n)
  BY <1>2 DEF Complete
<1>4. /\ OfLength(c.reader, c.total) /\ OfLength(c.buffer, c.total)
  <2>1. CASE d.total = 0
    <3>1. c.reader = << >> /\ c.buffer = << >>
      BY <1>2, <2>1 DEF SoundChunks
    <3>2. 1..Len(<< >>) = {}
      BY EmptySeq
    <3> QED  BY <3>1, <3>2 DEF OfLength
  <2>2. CASE d.total # 0
    BY <1>2, <2>2 DEF SoundChunks, OfLength
  <2> QED  BY <2>1, <2>2
<1>5. c.offset = Len(c.reader) /\ Contiguous(c.reader) /\ \A n \in 0..Len(c.buffer) : ~Complete(c, n)
  BY <1>2, <1>3 DEF SoundChunks
<1> QED  BY <1>2, <1>4, <1>5 DEF SoundChunks, BegunFrom

LEMMA NothingInWork ==
  ASSUME NEW max \in BufferSizes \cup {0}
  PROVE  /\ SoundChunks([NoChunks EXCEPT !.max = max])
         /\ [NoChunks EXCEPT !.max = max].total = 0
<1> DEFINE c == [NoChunks EXCEPT !.max = max]
<1>1. << >> \in Seq(Units) /\ Len(<< >>) = 0
  BY EmptySeq
<1>2. c = [total |-> 0, offset |-> 0, buffer |-> << >>, max |-> max, reader |-> << >>]
  BY DEF NoChunks
<1> HIDE DEF c
<1>3. c \in ChunkStates /\ c.reader = << >> /\ c.buffer = << >> /\ c.offset = 0 /\ c.total = 0
  BY <1>1, <1>2 DEF ChunkStates
<1>4. Len(c.reader) = 0 /\ Len(c.buffer) = 0
  BY <1>1, <1>3
<1>5. ASSUME NEW n \in 0..Len(c.buffer), Complete(c, n)  PROVE FALSE
  <2>1. n = 0
    BY <1>4
  <2>2. PICK x \in DOMAIN Messages : Len(c.reader) + n = Length(x)
    BY <1>3, <1>5, CompleteIs
  <2>3. Length(x) # 0
    BY MessageFacts
  <2> QED  BY <1>4, <2>1, <2>2, <2>3
<1> QED
  BY <1>3, <1>4, <1>5 DEF SoundChunks, OfLength, Contiguous, c

(* A chunk is parsed, as far as there are units it may parse.              *)
LEMMA AddedIsFit ==
  ASSUME NEW c, SoundChunks(c), NEW m \in DOMAIN Messages, c.total = Length(m),
         NEW from \in Nat, NEW to \in Nat, from < to, to <= Length(m),
         NEW full, Adds(full, c, m, from, to)
  PROVE  /\ full \in ChunkStates /\ full.offset = Len(full.reader) /\ Contiguous(full.reader)
         /\ OfLength(full.reader, full.total) /\ OfLength(full.buffer, full.total)
         /\ full.total = Length(m) /\ full.total # 0
<1>1. c \in ChunkStates /\ Length(m) # 0 /\ Len(c.buffer) \in Nat
  BY MessageFacts, LenProperties DEF SoundChunks, ChunkStates
<1>2. HasAdded(full, c, m, from, to)
  BY <1>1, Added
<1>3. ASSUME NEW i \in 1..Len(full.buffer)  PROVE Length(full.buffer[i][1]) = c.total
  <2> DEFINE l == Len(c.buffer)
             j == i - l
  <2>1. CASE i <= l
    <3>1. i \in 1..l
      BY <1>1, <1>2, <2>1
    <3> QED  BY <1>2, <3>1 DEF HasAdded, SoundChunks, OfLength
  <2>2. CASE ~(i <= l)
    <3>1. j \in 1..(to - from) /\ l + j = i
      BY <1>1, <1>2, <2>2 DEF HasAdded
    <3> HIDE DEF j
    <3>2. full.buffer[l + j] = <<m, from + j>>
      BY <1>2, <3>1 DEF HasAdded
    <3> QED  BY <3>1, <3>2
  <2> QED  BY <2>1, <2>2
<1> QED  BY <1>1, <1>2, <1>3 DEF HasAdded, SoundChunks, OfLength

(* What is left over from a chunk waits for the next one.                  *)
Leaves(s, full, k) ==
  s = [full EXCEPT !.buffer = SubSeq(@, k + 1, Len(@)), !.offset = @ + k,
                   !.reader = @ \o SubSeq(full.buffer, 1, k)]
Waits(s, full, m) ==
  /\ SoundChunks(s) /\ s.total = Length(m)
  /\ s.reader \o s.buffer = full.reader \o full.buffer
LEMMA WaitingIsSound ==
  ASSUME NEW c, SoundChunks(c), NEW m \in DOMAIN Messages, c.total = Length(m),
         NEW from \in Nat, NEW to \in Nat, from < to, to <= Length(m),
         NEW full, Adds(full, c, m, from, to), NEW k \in Parsed(full), ~Complete(full, k),
         IsChunkBufferToSmall(full, Len(full.buffer) - k),
         NEW s, Leaves(s, full, k)
  PROVE  Waits(s, full, m)
<1> DEFINE b == Len(full.buffer)
           l == Len(full.reader)
<1>1. /\ full \in ChunkStates /\ full.offset = l /\ Contiguous(full.reader)
      /\ OfLength(full.reader, full.total) /\ OfLength(full.buffer, full.total)
      /\ full.total = Length(m) /\ full.total # 0
  BY AddedIsFit
<1>2. k \in 0..b /\ Contiguous(Run(full, k)) /\ OfLength(Run(full, k), full.total)
  BY <1>1, ReadIsContiguous
<1>3. /\ full.buffer \in Seq(Units) /\ full.reader \in Seq(Units) /\ b \in Nat /\ l \in Nat /\ k \in Nat
      /\ full.offset \in Nat /\ full.total \in Nat
  BY <1>1, <1>2, LenProperties DEF ChunkStates
<1>4. /\ Run(full, k) \in Seq(Units) /\ Len(Run(full, k)) = l + k
      /\ \A i \in 1..l : Run(full, k)[i] = full.reader[i]
      /\ \A i \in 1..k : Run(full, k)[l + i] = full.buffer[i]
  BY <1>1, <1>2, RunIs
<1>0. Len(full.buffer) = b /\ Len(full.reader) = l
  OBVIOUS
<1> DEFINE rest == SubSeq(full.buffer, k + 1, b)
<1>6. s = [full EXCEPT !.buffer = rest, !.offset = full.offset + k, !.reader = Run(full, k)]
  BY DEF Run, Leaves
<1> HIDE DEF b, l
<1>5. rest \in Seq(Units) /\ Len(rest) = b - k /\ \A i \in 1..b - k : rest[i] = full.buffer[k + i]
  <2>1. k + 1 \in Int /\ b \in Int /\ \A i \in k + 1..b : full.buffer[i] \in Units
    BY <1>0, <1>3, ElementOfSeq
  <2>2. /\ rest \in Seq(Units) /\ Len(rest) = (IF k + 1 <= b THEN b - (k + 1) + 1 ELSE 0)
        /\ \A i \in 1..b - (k + 1) + 1 : rest[i] = full.buffer[(k + 1) + i - 1]
    BY <2>1, SubSeqProperties
  <2> HIDE DEF rest
  <2>3. b - (k + 1) + 1 = b - k /\ \A i \in 1..b - k : (k + 1) + i - 1 = k + i
    BY <1>2, <1>3
  <2> QED  BY <1>2, <1>3, <2>2, <2>3
<1> HIDE DEF rest
<1>7. /\ s \in ChunkStates /\ s.buffer = rest /\ s.reader = Run(full, k) /\ s.offset = l + k
      /\ s.total = full.total /\ s.max = full.max
  <2>1. full.offset + k \in Nat
    BY <1>3
  <2> QED  BY <1>1, <1>4, <1>5, <1>6, <2>1 DEF ChunkStates
<1>8. OfLength(s.buffer, s.total)
  <2>1. ASSUME NEW i \in 1..b - k  PROVE k + i \in 1..b /\ rest[i] = full.buffer[k + i]
    BY <1>2, <1>3, <1>5
  <2>2. \A i \in 1..b : Length(full.buffer[i][1]) = full.total
    BY <1>0, <1>1 DEF OfLength
  <2>3. Len(s.buffer) = b - k
    BY <1>5, <1>7
  <2> QED  BY <1>7, <2>1, <2>2, <2>3 DEF OfLength
<1>9. ASSUME NEW n \in 0..Len(s.buffer), Complete(s, n)  PROVE FALSE
  <2>1. n \in Nat /\ n \in 0..b - k /\ k + n \in 0..b
    BY <1>2, <1>3, <1>5, <1>7
  <2>2. PICK x \in DOMAIN Messages : /\ Len(s.reader) + n = Length(x)
                                     /\ \A i \in 1..Len(s.reader) : s.reader[i] = <<x, i>>
                                     /\ \A i \in 1..n : s.buffer[i] = <<x, Len(s.reader) + i>>
    BY <1>7, <1>9, CompleteIs
  <2>3. /\ l + (k + n) = Length(x) /\ (\A i \in 1..l + k : s.reader[i] = <<x, i>>)
        /\ \A i \in 1..n : s.buffer[i] = <<x, (l + k) + i>>
    <3>1. Len(s.reader) = l + k
      BY <1>4, <1>7
    <3>2. l + (k + n) = (l + k) + n
      BY <1>3, <2>1
    <3> QED  BY <2>2, <3>1, <3>2
  <2>4. \A i \in 1..l : full.reader[i] = <<x, i>>
    <3>1. \A i \in 1..l : i \in 1..l + k
      BY <1>3
    <3> QED  BY <1>4, <1>7, <2>3, <3>1
  <2>5. ASSUME NEW i \in 1..k + n  PROVE full.buffer[i] = <<x, l + i>>
    <3>1. CASE i <= k
      <4>1. i \in 1..k /\ l + i \in 1..l + k
        BY <1>3, <3>1
      <4> QED  BY <1>4, <1>7, <2>3, <4>1
    <3>2. CASE ~(i <= k)
      <4> DEFINE j == i - k
      <4>1. j \in 1..n /\ j \in 1..b - k /\ k + j = i /\ (l + k) + j = l + i
        BY <1>3, <2>1, <3>2
      <4> HIDE DEF j
      <4>2. rest[j] = full.buffer[i] /\ rest[j] = <<x, l + i>>
        BY <1>5, <1>7, <2>3, <4>1
      <4> QED  BY <4>2
    <3> QED  BY <3>1, <3>2
  <2>6. Complete(full, k + n)
    <3> DEFINE t == k + n
    <3>1. t \in 0..Len(full.buffer) /\ t = k + n
      BY <1>0, <2>1
    <3> HIDE DEF t
    <3>2. /\ Len(full.reader) + t = Length(x) /\ \A i \in 1..Len(full.reader) : full.reader[i] = <<x, i>>
          /\ \A i \in 1..t : full.buffer[i] = <<x, Len(full.reader) + i>>
      BY <1>0, <2>3, <2>4, <2>5, <3>1
    <3>3. Complete(full, t)
      BY <1>1, <3>1, <3>2, CompleteIs
    <3> QED  BY <3>1, <3>3
  <2>7. k + n = b /\ full.offset + b = Length(m)
    BY <1>0, <2>1, <2>6, CompleteAtTheEnd
  <2>8. n # 0
    BY <1>3, <2>6
  <2>9. b - k # 0 /\ full.offset + b = full.total
    BY <1>1, <1>3, <2>1, <2>7, <2>8
  <2> QED  BY <1>0, <2>9 DEF IsChunkBufferToSmall
<1>10. SoundChunks(s)
  <2>1. s.offset = Len(s.reader) /\ s.total # 0
    BY <1>1, <1>4, <1>7
  <2> QED  BY <1>2, <1>7, <1>8, <1>9, <2>1 DEF SoundChunks
<1>11. Run(full, k) \o rest = full.reader \o full.buffer
  <2> DEFINE first == SubSeq(full.buffer, 1, k)
  <2>1. first \in Seq(Units)
    <3>1. \A i \in 1..k : full.buffer[i] \in Units
      BY <1>0, <1>2, <1>3, ElementOfSeq
    <3> QED  BY <1>3, <3>1, SubSeqProperties
  <2>2. first \o rest = SubSeq(full.buffer, 1, b)
    <3>1. 1 \in 1..b + 1 /\ k \in 1 - 1..b /\ b \in k..b
      BY <1>2, <1>3
    <3> QED  BY <1>0, <1>3, <3>1, ConcatAdjacentSubSeq DEF rest, first
  <2>3. SubSeq(full.buffer, 1, b) = full.buffer
    BY <1>0, <1>3, SubSeqFull
  <2> HIDE DEF first
  <2>4. (full.reader \o first) \o rest = full.reader \o (first \o rest)
    <3>1. \A p, q, r \in Seq(Units) : (p \o q) \o r = p \o (q \o r)
      BY ConcatAssociative
    <3> QED  BY <1>3, <1>5, <2>1, <3>1, Zenon
  <2>5. Run(full, k) = full.reader \o first
    BY DEF Run, first
  <2> QED  BY <2>2, <2>3, <2>4, <2>5
<1> QED  BY <1>1, <1>7, <1>10, <1>11 DEF Waits

(* What becomes of a chunk.                                                *)
Outcome(r, full, m, to) ==
  /\ SoundChunks(r.state) /\ r.result \in {"finished", "waiting", "error"}
  /\ r.at \in Nat /\ r.at <= Length(m)
  /\ (r.result = "finished" => to = Length(m) /\ r.state.total = 0)
  /\ (r.result = "waiting" => /\ r.state.total = Length(m)
                              /\ r.state.reader \o r.state.buffer = full.reader \o full.buffer)
LEMMA ChunkOutcome ==
  ASSUME NEW c, SoundChunks(c), NEW m \in DOMAIN Messages, c.total = Length(m),
         NEW from \in Nat, NEW to \in Nat, from < to, to <= Length(m),
         NEW full, Adds(full, c, m, from, to), NEW k \in Parsed(full)
  PROVE  /\ Outcome(ProcessChunk(full, k), full, m, to)
         /\ (ProcessChunk(full, k).result = "finished" <=> Complete(full, k))
         /\ (ProcessChunk(full, k).result = "waiting"
               <=> ~Complete(full, k) /\ IsChunkBufferToSmall(full, Len(full.buffer) - k))
<1> DEFINE r == ProcessChunk(full, k)
           read == SubSeq(full.buffer, 1, k)
           at == full.offset + k
           s == [full EXCEPT !.buffer = SubSeq(@, k + 1, Len(@)), !.offset = @ + k, !.reader = @ \o read]
           ended == EndChunkProcessing(full)
<1>1. /\ full \in ChunkStates /\ full.offset = Len(full.reader) /\ Contiguous(full.reader)
      /\ OfLength(full.reader, full.total) /\ OfLength(full.buffer, full.total)
      /\ full.total = Length(m) /\ full.total # 0
  BY AddedIsFit
<1>2. k \in 0..Len(full.buffer) /\ full.offset + k <= full.total
  BY <1>1, ReadIsContiguous
<1>3. at \in Nat /\ at <= Length(m)
  BY <1>1, <1>2 DEF ChunkStates
<1>4. SoundChunks(ended) /\ ended.total = 0
  <2>1. full.max \in BufferSizes \cup {0}
    BY <1>1 DEF ChunkStates
  <2> QED  BY <2>1, NothingInWork DEF EndChunkProcessing
<1>5. CASE Complete(full, k)
  <2>1. r = [state |-> ended, result |-> "finished", read |-> read, at |-> at]
    BY <1>5 DEF ProcessChunk
  <2>2. to = Length(m)
    BY <1>2, <1>5, CompleteAtTheEnd
  <2> HIDE DEF r, ended, at, read
  <2>3. r.state = ended /\ r.result = "finished" /\ r.at = at
    BY <2>1
  <2> QED  BY <1>3, <1>4, <1>5, <2>2, <2>3 DEF Outcome, r
<1>6. CASE ~Complete(full, k) /\ IsChunkBufferToSmall(full, Len(full.buffer) - k)
  <2>1. r = [state |-> s, result |-> "waiting", read |-> read, at |-> at]
    BY <1>6 DEF ProcessChunk
  <2>2. Leaves(s, full, k)
    BY DEF Leaves
  <2> HIDE DEF r, s, at, read
  <2>3. Waits(s, full, m)
    BY <1>6, <2>2, WaitingIsSound
  <2>4. r.state = s /\ r.result = "waiting" /\ r.at = at
    BY <2>1
  <2> QED  BY <1>3, <1>6, <2>3, <2>4 DEF Outcome, Waits, r
<1>7. CASE ~Complete(full, k) /\ ~IsChunkBufferToSmall(full, Len(full.buffer) - k)
  <2>1. r = [state |-> ended, result |-> "error", read |-> read, at |-> at]
    BY <1>7 DEF ProcessChunk
  <2> HIDE DEF r, ended, at, read
  <2>2. r.state = ended /\ r.result = "error" /\ r.at = at
    BY <2>1
  <2> QED  BY <1>3, <1>4, <1>7, <2>2 DEF Outcome, r
<1> QED  BY <1>5, <1>6, <1>7

(* One part follows the other.                                             *)
LEMMA PartJoins ==
  ASSUME NEW m \in DOMAIN Messages, NEW from \in Nat, NEW to \in Nat, from <= to, to <= Length(m)
  PROVE  Part(m, 0, from) \o Part(m, from, to) = Part(m, 0, to)
<1> DEFINE a == Part(m, 0, from)
           b == Part(m, from, to)
           c == Part(m, 0, to)
<1>0. Length(m) \in Nat /\ 0 \in Nat /\ 0 <= from /\ 0 <= to /\ from <= Length(m)
  BY MessageFacts
<1>1. a \in Seq(Units) /\ Len(a) = from - 0 /\ \A k \in 1..(from - 0) : a[k] = <<m, 0 + k>>
  BY <1>0, PartFacts
<1>2. b \in Seq(Units) /\ Len(b) = to - from /\ \A k \in 1..(to - from) : b[k] = <<m, from + k>>
  BY PartFacts
<1>3. c \in Seq(Units) /\ Len(c) = to - 0 /\ \A k \in 1..(to - 0) : c[k] = <<m, 0 + k>>
  BY <1>0, PartFacts
<1> HIDE DEF a, b, c
<1>4. /\ a \o b \in Seq(Units) /\ Len(a \o b) = Len(a) + Len(b)
      /\ \A i \in 1..Len(a) + Len(b) : (a \o b)[i] = IF i <= Len(a) THEN a[i] ELSE b[i - Len(a)]
  BY <1>1, <1>2, ConcatProperties
<1>5. Len(a) = from /\ Len(a \o b) = to /\ Len(c) = to /\ \A k \in 1..to : c[k] = <<m, k>>
  BY <1>1, <1>2, <1>3, <1>4
<1>6. ASSUME NEW i \in 1..to  PROVE (a \o b)[i] = c[i]
  <2>1. CASE i <= from
    <3>1. i \in 1..from - 0 /\ i \in 1..Len(a) + Len(b)
      BY <1>1, <1>2, <2>1
    <3>2. a[i] = <<m, i>>
      BY <1>1, <3>1
    <3> QED  BY <1>4, <1>5, <2>1, <3>1, <3>2
  <2>2. CASE ~(i <= from)
    <3> DEFINE j == i - from
    <3>1. j \in 1..(to - from) /\ from + j = i /\ i \in 1..Len(a) + Len(b)
      BY <1>1, <1>2, <2>2
    <3>2. (a \o b)[i] = b[j]
      BY <1>4, <1>5, <2>2, <3>1
    <3> HIDE DEF j
    <3>3. b[j] = <<m, i>>
      BY <1>2, <3>1
    <3> QED  BY <1>5, <3>2, <3>3
  <2> QED  BY <2>1, <2>2
<1>7. a \o b = c
  BY <1>3, <1>4, <1>5, <1>6, SeqEqual
<1> QED  BY <1>7 DEF a, b, c

(* A message that is held from its beginning is parsed to its end, and no  *)
(* unit of it is refused.                                                  *)
LEMMA InStepIsParsed ==
  ASSUME NEW c, SoundChunks(c), NEW m \in DOMAIN Messages, c.total = Length(m),
         NEW from \in Nat, NEW to \in Nat, from < to, to <= Length(m),
         c.reader \o c.buffer = Part(m, 0, from),
         NEW full, Adds(full, c, m, from, to), NEW k \in Parsed(full)
  PROVE  /\ full.reader \o full.buffer = Part(m, 0, to)
         /\ ProcessChunk(full, k).result # "error"
         /\ (to = Length(m) => ProcessChunk(full, k).result = "finished")
<1> DEFINE l == Len(full.reader)
           b == Len(full.buffer)
           p == Part(m, 0, to)
           r == ProcessChunk(full, k)
<1>1. /\ full \in ChunkStates /\ full.offset = l /\ Contiguous(full.reader)
      /\ OfLength(full.reader, full.total) /\ OfLength(full.buffer, full.total)
      /\ full.total = Length(m) /\ full.total # 0
  BY AddedIsFit
<1>2. k \in 0..b /\ Stops(full, k) /\ k \in Nat
  BY DEF Parsed
<1>3. /\ full.buffer \in Seq(Units) /\ full.reader \in Seq(Units) /\ b \in Nat /\ l \in Nat
      /\ c.buffer \in Seq(Units) /\ c.reader \in Seq(Units) /\ Length(m) \in Nat \ {0}
  BY <1>1, LenProperties, MessageFacts DEF ChunkStates, SoundChunks
<1>4. full.reader \o full.buffer = p
  <2>1. full.reader = c.reader /\ full.buffer = c.buffer \o Part(m, from, to)
    BY DEF Adds, SoundChunks, ChunkStates
  <2>2. from <= to /\ Part(m, from, to) \in Seq(Units)
    BY PartFacts
  <2>3. \A x, y, z \in Seq(Units) : (x \o y) \o z = x \o (y \o z)
    BY ConcatAssociative
  <2>4. c.reader \o (c.buffer \o Part(m, from, to)) = (c.reader \o c.buffer) \o Part(m, from, to)
    BY <1>3, <2>2, <2>3, Zenon
  <2>5. Part(m, 0, from) \o Part(m, from, to) = p
    BY <2>2, PartJoins
  <2> QED  BY <2>1, <2>4, <2>5
<1>5. Len(p) = to /\ \A i \in 1..to : p[i] = <<m, i>>
  <2>1. 0 \in Nat /\ 0 <= to
    OBVIOUS
  <2>2. Len(p) = to - 0 /\ \A i \in 1..(to - 0) : p[i] = <<m, 0 + i>>
    BY <2>1, PartFacts
  <2> HIDE DEF p
  <2> QED  BY <2>2
<1>0. l = Len(full.reader) /\ b = Len(full.buffer)
  OBVIOUS
<1> HIDE DEF p, l, b
<1>6. /\ Len(p) = l + b
      /\ \A i \in 1..l + b : p[i] = IF i <= l THEN full.reader[i] ELSE full.buffer[i - l]
  <2> DEFINE q == full.reader \o full.buffer
  <2>1. /\ Len(q) = Len(full.reader) + Len(full.buffer)
        /\ \A i \in 1..Len(full.reader) + Len(full.buffer) :
             q[i] = IF i <= Len(full.reader) THEN full.reader[i] ELSE full.buffer[i - Len(full.reader)]
    BY <1>3, ConcatProperties
  <2> QED  BY <1>0, <1>4, <2>1
<1>7. l + b = to
  BY <1>5, <1>6
<1>8. \A i \in 1..l : full.reader[i] = <<m, i>>
  <2> TAKE i \in 1..l
  <2>1. i \in 1..l + b /\ i <= l /\ i \in 1..to
    BY <1>3, <1>7
  <2> QED  BY <1>5, <1>6, <2>1
<1>9. \A i \in 1..b : full.buffer[i] = <<m, l + i>>
  <2> TAKE i \in 1..b
  <2> DEFINE j == l + i
  <2>1. j \in 1..l + b /\ ~(j <= l) /\ j \in 1..to /\ j - l = i
    BY <1>3, <1>7
  <2> HIDE DEF j
  <2>2. full.buffer[i] = <<m, j>>
    BY <1>5, <1>6, <2>1
  <2> QED  BY <2>2 DEF j
<1>10. /\ (r.result = "finished" <=> Complete(full, k))
       /\ (r.result = "waiting" <=> ~Complete(full, k) /\ IsChunkBufferToSmall(full, b - k))
       /\ r.result \in {"finished", "waiting", "error"}
  BY <1>0, ChunkOutcome DEF Outcome
<1>11. r.result # "error"
  <2> SUFFICES ASSUME ~Complete(full, k), ~IsChunkBufferToSmall(full, b - k)  PROVE FALSE
    BY <1>10
  <2>1. ~Continues(full, k + 1) /\ b - k # 0
    BY <1>0, <1>2 DEF Stops, IsChunkBufferToSmall
  <2> DEFINE n == k + 1
  <2>2. n \in 1..b /\ n \in Nat /\ l + n = l + k + 1 /\ (n > 1 <=> k # 0) /\ n - 1 = k /\ l + n - 1 = l + k
    BY <1>2, <1>3, <2>1
  <2>3. full.buffer[n] = <<m, l + n>>
    BY <1>9, <2>2
  <2>4. k # 0 => full.buffer[k] = <<m, l + k>>
    <3>1. k # 0 => k \in 1..b
      BY <1>2, <1>3
    <3> QED  BY <1>9, <3>1
  <2>5. k = 0 /\ l # 0 => Last(full.reader) = <<m, l>>
    BY <1>0, <1>3, <1>8 DEF Last
  <2>6. ~Continues(full, n)
    BY <2>1
  <2> HIDE DEF n
  <2>7. CASE l + k = 0
    <3>1. full.buffer[n][2] = 1
      BY <1>2, <1>3, <2>2, <2>3, <2>7
    <3> QED  BY <1>0, <2>2, <2>6, <2>7, <3>1 DEF Continues
  <2>8. CASE l + k # 0
    <3> DEFINE prior == IF n > 1 THEN full.buffer[n - 1] ELSE Last(full.reader)
    <3>1. prior = <<m, l + k>>
      <4>1. CASE k # 0
        BY <2>2, <2>4, <4>1
      <4>2. CASE k = 0
        BY <1>3, <2>2, <2>5, <2>8, <4>2
      <4> QED  BY <4>1, <4>2
    <3> HIDE DEF prior
    <3>2. full.buffer[n] = <<prior[1], prior[2] + 1>>
      BY <2>2, <2>3, <3>1
    <3> QED  BY <1>0, <2>2, <2>6, <2>8, <3>2 DEF Continues, prior
  <2> QED  BY <2>7, <2>8
<1>12. ASSUME to = Length(m)  PROVE r.result = "finished"
  <2> SUFFICES ASSUME ~Complete(full, k), IsChunkBufferToSmall(full, b - k)  PROVE FALSE
    BY <1>10, <1>11
  <2>1. full.offset + b = full.total
    BY <1>1, <1>7, <1>12
  <2>2. b = k
    BY <1>0, <1>2, <1>3, <2>1 DEF IsChunkBufferToSmall
  <2>3. Len(full.reader) + k = Length(m)
    BY <1>0, <1>7, <1>12, <2>2
  <2>4. Complete(full, k)
    <3>1. \A i \in 1..Len(full.reader) : full.reader[i] = <<m, i>>
      BY <1>0, <1>8
    <3>2. \A i \in 1..k : full.buffer[i] = <<m, Len(full.reader) + i>>
      BY <1>0, <1>9, <2>2
    <3>3. k \in 0..Len(full.buffer)
      BY <1>0, <1>2
    <3> QED  BY <1>1, <2>3, <3>1, <3>2, <3>3, CompleteIs
  <2> QED  BY <2>4
<1> QED  BY <1>4, <1>11, <1>12 DEF p

(***************************************************************************)
(* What was heard.                                                         *)
(***************************************************************************)
LEMMA OneMoreHeard ==
  ASSUME NEW s \in Seq(Nat), NEW m \in Nat \ {0}, Ordered(s), Before(s, m)
  PROVE  /\ Append(s, m) \in Seq(Nat) /\ Ordered(Append(s, m)) /\ Before(Append(s, m), m + 1)
         /\ Before(s, m + 1)
         /\ Len(Append(s, m)) = Len(s) + 1 /\ Len(s) \in Nat
         /\ \A k \in 1..Len(s) : Append(s, m)[k] = s[k] /\ s[k] \in 1..(m - 1)
         /\ Append(s, m)[Len(s) + 1] = m
<1> DEFINE t == Append(s, m)
           l == Len(s)
<1>1. /\ t \in Seq(Nat) /\ Len(t) = l + 1 /\ l \in Nat
      /\ \A k \in 1..l : t[k] = s[k]
      /\ t[l + 1] = m
  BY AppendProperties, LenProperties
<1>2. \A k \in 1..l : s[k] \in 1..(m - 1)
  BY DEF Before
<1>3. \A j, k \in 1..l : j < k => s[j] < s[k]
  BY DEF Ordered
<1> HIDE DEF t, l
<1>4. \A k \in 1..Len(t) : k \in 1..l \/ k = l + 1
  BY <1>1
<1>5. Before(t, m + 1)
  BY <1>1, <1>2, <1>4 DEF Before
<1>6. ASSUME NEW j \in 1..Len(t), NEW k \in 1..Len(t), j < k  PROVE t[j] < t[k]
  <2>1. j \in 1..l
    BY <1>1, <1>6
  <2>2. CASE k \in 1..l
    BY <1>1, <1>3, <1>6, <2>1, <2>2
  <2>3. CASE k = l + 1
    BY <1>1, <1>2, <2>1, <2>3
  <2> QED  BY <1>4, <2>2, <2>3
<1>7. Ordered(t)
  BY <1>6 DEF Ordered
<1>8. Before(s, m + 1)
  BY <1>2 DEF Before, l
<1> QED  BY <1>1, <1>2, <1>5, <1>7, <1>8 DEF t, l

(* A message is over, whether it was handled or not.                       *)
LEMMA HeardGoesOn ==
  ASSUME NEW h \in Heards, NEW m \in Nat \ {0}, HeardOnce(h, m)
  PROVE  HeardOnce(h, m + 1)
<1>1. h.docs \in Seq(Nat) /\ h.parsed \in Seq(Nat)
  BY DEF Heards
<1>2. Ordered(h.docs) /\ Before(h.docs, m) /\ Ordered(h.parsed) /\ Before(h.parsed, m)
  BY DEF HeardOnce
<1>3. Before(h.docs, m + 1) /\ Before(h.parsed, m + 1)
  BY <1>1, <1>2, OneMoreHeard
<1>4. h.cut \in 0..((m + 1) - 1)
  BY DEF HeardOnce
<1> QED  BY <1>3, <1>4 DEF HeardOnce

LEMMA DocIsHeard ==
  ASSUME NEW h \in Heards, NEW m \in Nat \ {0}, HeardOnce(h, m),
         NEW g, g = [h EXCEPT !.docs = Append(@, m)]
  PROVE  /\ g \in Heards /\ HeardOnce(g, m + 1) /\ g.cut = h.cut /\ g.overrun = h.overrun
         /\ (AllHeard(h, m) => AllHeard(g, m + 1))
<1> DEFINE l == Len(h.docs)
<1>1. h.docs \in Seq(Nat) /\ h.parsed \in Seq(Nat)
  BY DEF Heards
<1>2. /\ Ordered(h.docs) /\ Before(h.docs, m) /\ Ordered(h.parsed) /\ Before(h.parsed, m)
      /\ h.cut \in 0..(m - 1)
      /\ \A k \in 1..l : h.docs[k] # h.cut
      /\ \A k \in 1..Len(h.parsed) : h.parsed[k] # h.cut
      /\ \A j \in 1..l, k \in 1..Len(h.parsed) : h.docs[j] # h.parsed[k]
  BY DEF HeardOnce
<1> DEFINE t == Append(h.docs, m)
<1>3. /\ t \in Seq(Nat) /\ Ordered(t) /\ Before(t, m + 1) /\ Len(t) = l + 1 /\ l \in Nat
      /\ \A k \in 1..l : t[k] = h.docs[k] /\ h.docs[k] \in 1..(m - 1)
      /\ t[l + 1] = m
  BY <1>1, <1>2, OneMoreHeard
<1>4. Before(h.parsed, m + 1) /\ \A k \in 1..Len(h.parsed) : h.parsed[k] \in 1..(m - 1)
  BY <1>1, <1>2, OneMoreHeard
<1>5. g \in Heards /\ g.docs = t /\ g.parsed = h.parsed /\ g.cut = h.cut /\ g.overrun = h.overrun
  BY <1>3 DEF Heards
<1> HIDE DEF t, l
<1>6. \A k \in 1..Len(t) : k \in 1..l \/ k = l + 1
  BY <1>3
<1>7. \A k \in 1..Len(t) : t[k] # h.cut
  BY <1>2, <1>3, <1>6
<1>8. \A j \in 1..Len(t), k \in 1..Len(h.parsed) : t[j] # h.parsed[k]
  BY <1>2, <1>3, <1>4, <1>6
<1>9. h.cut \in 0..((m + 1) - 1)
  BY <1>2
<1>10. HeardOnce(g, m + 1)
  <2>1. g.cut \in 0..((m + 1) - 1) /\ Before(g.docs, m + 1) /\ Before(g.parsed, m + 1)
    BY <1>3, <1>4, <1>5, <1>9
  <2>2. Ordered(g.docs) /\ Ordered(g.parsed)
    BY <1>2, <1>3, <1>5
  <2>3. /\ \A k \in 1..Len(g.docs) : g.docs[k] # g.cut
        /\ \A k \in 1..Len(g.parsed) : g.parsed[k] # g.cut
    BY <1>2, <1>5, <1>7
  <2>4. \A j \in 1..Len(g.docs), k \in 1..Len(g.parsed) : g.docs[j] # g.parsed[k]
    BY <1>5, <1>8
  <2> QED  BY <2>1, <2>2, <2>3, <2>4 DEF HeardOnce
<1>11. ASSUME AllHeard(h, m)  PROVE AllHeard(g, m + 1)
  <2> SUFFICES ASSUME NEW i \in 1..((m + 1) - 1)
               PROVE  \/ \E k \in 1..Len(g.docs) : g.docs[k] = i
                      \/ \E k \in 1..Len(g.parsed) : g.parsed[k] = i
    BY DEF AllHeard
  <2>1. i = m \/ i \in 1..(m - 1)
    OBVIOUS
  <2>2. l + 1 \in 1..Len(t) /\ \A k \in 1..l : k \in 1..Len(t)
    BY <1>3
  <2>3. CASE i = m
    BY <1>3, <1>5, <2>2, <2>3
  <2>4. CASE i \in 1..(m - 1)
    <3>1. \/ \E k \in 1..l : h.docs[k] = i
          \/ \E k \in 1..Len(h.parsed) : h.parsed[k] = i
      BY <1>11, <2>4 DEF AllHeard, l
    <3> QED  BY <1>3, <1>5, <2>2, <3>1
  <2> QED  BY <2>1, <2>3, <2>4
<1> QED  BY <1>5, <1>10, <1>11

LEMMA ParsedIsHeard ==
  ASSUME NEW h \in Heards, NEW m \in Nat \ {0}, HeardOnce(h, m),
         NEW g, g = [h EXCEPT !.parsed = Append(@, m)]
  PROVE  /\ g \in Heards /\ HeardOnce(g, m + 1) /\ g.cut = h.cut /\ g.overrun = h.overrun
         /\ (AllHeard(h, m) => AllHeard(g, m + 1))
<1> DEFINE l == Len(h.parsed)
<1>1. h.docs \in Seq(Nat) /\ h.parsed \in Seq(Nat)
  BY DEF Heards
<1>2. /\ Ordered(h.docs) /\ Before(h.docs, m) /\ Ordered(h.parsed) /\ Before(h.parsed, m)
      /\ h.cut \in 0..(m - 1)
      /\ \A k \in 1..Len(h.docs) : h.docs[k] # h.cut
      /\ \A k \in 1..l : h.parsed[k] # h.cut
      /\ \A j \in 1..Len(h.docs), k \in 1..l : h.docs[j] # h.parsed[k]
  BY DEF HeardOnce
<1> DEFINE t == Append(h.parsed, m)
<1>3. /\ t \in Seq(Nat) /\ Ordered(t) /\ Before(t, m + 1) /\ Len(t) = l + 1 /\ l \in Nat
      /\ \A k \in 1..l : t[k] = h.parsed[k] /\ h.parsed[k] \in 1..(m - 1)
      /\ t[l + 1] = m
  BY <1>1, <1>2, OneMoreHeard
<1>4. Before(h.docs, m + 1) /\ \A k \in 1..Len(h.docs) : h.docs[k] \in 1..(m - 1)
  BY <1>1, <1>2, OneMoreHeard
<1>5. g \in Heards /\ g.parsed = t /\ g.docs = h.docs /\ g.cut = h.cut /\ g.overrun = h.overrun
  BY <1>3 DEF Heards
<1> HIDE DEF t, l
<1>6. \A k \in 1..Len(t) : k \in 1..l \/ k = l + 1
  BY <1>3
<1>7. \A k \in 1..Len(t) : t[k] # h.cut
  BY <1>2, <1>3, <1>6
<1>8. ASSUME NEW j \in 1..Len(h.docs), NEW k \in 1..Len(t)  PROVE h.docs[j] # t[k]
  <2>1. CASE k \in 1..l
    BY <1>2, <1>3, <2>1
  <2>2. CASE k = l + 1
    BY <1>3, <1>4, <2>2
  <2> QED  BY <1>6, <2>1, <2>2
<1>9. h.cut \in 0..((m + 1) - 1)
  BY <1>2
<1>10. HeardOnce(g, m + 1)
  <2>1. g.cut \in 0..((m + 1) - 1) /\ Before(g.docs, m + 1) /\ Before(g.parsed, m + 1)
    BY <1>3, <1>4, <1>5, <1>9
  <2>2. Ordered(g.docs) /\ Ordered(g.parsed)
    BY <1>2, <1>3, <1>5
  <2>3. /\ \A k \in 1..Len(g.docs) : g.docs[k] # g.cut
        /\ \A k \in 1..Len(g.parsed) : g.parsed[k] # g.cut
    BY <1>2, <1>5, <1>7
  <2>4. \A j \in 1..Len(g.docs), k \in 1..Len(g.parsed) : g.docs[j] # g.parsed[k]
    BY <1>5, <1>8
  <2> QED  BY <2>1, <2>2, <2>3, <2>4 DEF HeardOnce
<1>11. ASSUME AllHeard(h, m)  PROVE AllHeard(g, m + 1)
  <2> SUFFICES ASSUME NEW i \in 1..((m + 1) - 1)
               PROVE  \/ \E k \in 1..Len(g.docs) : g.docs[k] = i
                      \/ \E k \in 1..Len(g.parsed) : g.parsed[k] = i
    BY DEF AllHeard
  <2>1. i = m \/ i \in 1..(m - 1)
    OBVIOUS
  <2>2. l + 1 \in 1..Len(t) /\ \A k \in 1..l : k \in 1..Len(t)
    BY <1>3
  <2>3. CASE i = m
    BY <1>3, <1>5, <2>2, <2>3
  <2>4. CASE i \in 1..(m - 1)
    <3>1. \/ \E k \in 1..Len(h.docs) : h.docs[k] = i
          \/ \E k \in 1..l : h.parsed[k] = i
      BY <1>11, <2>4 DEF AllHeard, l
    <3> QED  BY <1>3, <1>5, <2>2, <3>1
  <2> QED  BY <2>1, <2>3, <2>4
<1> QED  BY <1>5, <1>10, <1>11

(***************************************************************************)
(* The data of an event.                                                   *)
(***************************************************************************)
OnlyStored(q) == q \in Pages(q.stored) /\ q.open = listPage.open
LEMMA StoringIsTyped ==
  ASSUME listPage \in Pages(listPage.stored), NEW read
  PROVE  OnlyStored(StoreEntities(read)) /\ OnlyStored(listPage)
<1> DEFINE e == listPage.stored \o Entities(read)
<1>1. StoreEntities(read) = [listPage EXCEPT !.stored = e]
  BY DEF StoreEntities
<1> HIDE DEF e
<1> QED  BY <1>1 DEF OnlyStored, Pages

AsDoc(m) == [heard EXCEPT !.docs = Append(@, m)]
AsParsed(m) == [heard EXCEPT !.parsed = Append(@, m)]

(* What is gathered is handled when it is the whole message.               *)
GatherOutcome(m, from, to) ==
  /\ mIncomingMessage' \in Seq(Units) /\ OnlyStored(listPage')
  /\ heard' = heard \/ (to = Length(m) /\ heard' = AsDoc(m))
  /\ mIncomingMessage = Part(m, 0, from) =>
       IF to = Length(m) THEN mIncomingMessage' = << >> /\ heard' = AsDoc(m)
       ELSE mIncomingMessage' = Part(m, 0, to)
LEMMA GatheredOutcome ==
  ASSUME MsgTypes, NEW m \in DOMAIN Messages,
         NEW from \in Nat, NEW to \in Nat, from < to, to <= Length(m),
         Gathered(mIncomingMessage \o Part(m, from, to), m)
  PROVE  GatherOutcome(m, from, to)
<1> DEFINE p == Part(m, from, to)
           u == mIncomingMessage \o p
           l == Len(mIncomingMessage)
<1>1. from <= to /\ Length(m) \in Nat \ {0}
  BY MessageFacts
<1>2. p \in Seq(Units) /\ Len(p) = to - from /\ \A k \in 1..(to - from) : p[k] = <<m, from + k>>
  BY <1>1, PartFacts
<1>3. mIncomingMessage \in Seq(Units) /\ l \in Nat
  BY LenProperties DEF MsgTypes
<1>4. /\ u \in Seq(Units) /\ Len(u) = l + Len(p)
      /\ \A i \in 1..l + Len(p) : u[i] = IF i <= l THEN mIncomingMessage[i] ELSE p[i - l]
  BY <1>2, <1>3, ConcatProperties
<1>5. /\ mIncomingMessage' = IF Len(u) = Length(m) THEN << >> ELSE u
      /\ IF Len(u) = Length(m) /\ Whole(u) THEN ProcessResponse(u) ELSE UNCHANGED <<listPage, heard>>
  BY DEF Gathered
<1>6. listPage \in Pages(listPage.stored)
  BY DEF MsgTypes
<1>7. ASSUME mIncomingMessage = Part(m, 0, from)  PROVE u = Part(m, 0, to)
  BY <1>1, <1>7, PartJoins
<1> HIDE DEF u, p, l
<1>8. ASSUME Whole(u), Len(u) = Length(m)  PROVE to = Length(m) /\ u[1][1] = m
  <2>1. PICK x \in DOMAIN Messages : Len(u) = Length(x) /\ \A i \in 1..Len(u) : u[i] = <<x, i>>
    BY <1>4, <1>8, WholeIs
  <2> DEFINE e == Len(u)
  <2>2. e \in 1..l + Len(p) /\ ~(e <= l) /\ e - l = to - from /\ to - from \in 1..(to - from) /\ 1 \in 1..Len(u)
    BY <1>2, <1>3, <1>4
  <2>3. u[e] = p[to - from] /\ u[e] = <<x, e>> /\ u[1] = <<x, 1>>
    BY <1>4, <2>1, <2>2
  <2>4. p[to - from] = <<m, from + (to - from)>>
    BY <1>2, <2>2
  <2>5. e = Length(m)
    BY <1>8
  <2> HIDE DEF e
  <2>6. <<x, e>> = <<m, from + (to - from)>>
    BY <2>3, <2>4
  <2>7. x = m /\ e = from + (to - from)
    BY <2>6
  <2> QED  BY <2>3, <2>5, <2>7
<1>9. CASE Len(u) = Length(m) /\ Whole(u)
  <2>1. to = Length(m) /\ u[1][1] = m /\ ProcessResponse(u)
    BY <1>5, <1>8, <1>9
  <2>2. /\ listPage' = (IF Messages[m].query /\ listPage.open THEN StoreEntities(u) ELSE listPage)
        /\ heard' = AsDoc(m)
    BY <2>1 DEF ProcessResponse, AsDoc
  <2>3. OnlyStored(listPage')
    BY <1>6, <2>2, StoringIsTyped
  <2>4. mIncomingMessage' = << >> /\ << >> \in Seq(Units)
    BY <1>5, <1>9, EmptySeq
  <2> QED  BY <2>1, <2>2, <2>3, <2>4 DEF GatherOutcome
<1>10. CASE ~(Len(u) = Length(m) /\ Whole(u))
  <2>1. listPage' = listPage /\ heard' = heard /\ OnlyStored(listPage')
    BY <1>5, <1>6, <1>10, StoringIsTyped
  <2>2. mIncomingMessage' \in Seq(Units)
    BY <1>4, <1>5, EmptySeq
  <2>3. ASSUME mIncomingMessage = Part(m, 0, from)
        PROVE  to # Length(m) /\ mIncomingMessage' = Part(m, 0, to)
    <3>1. u = Part(m, 0, to)
      BY <1>7, <2>3
    <3>2. CASE to = Length(m)
      <4>1. /\ Len(u) = Length(m) /\ \A k \in 1..Length(m) : u[k] = <<m, k>>
        BY <3>1, <3>2, WholePart
      <4>2. Whole(u)
        BY <1>4, <4>1, WholeIs
      <4> QED  BY <1>10, <4>1, <4>2
    <3>3. CASE to # Length(m)
      <4>1. 0 \in Nat /\ 0 <= to
        OBVIOUS
      <4>2. Len(u) = to - 0
        BY <3>1, <4>1, PartFacts
      <4> QED  BY <1>5, <3>1, <3>3, <4>2
    <3> QED  BY <3>2, <3>3
  <2> QED  BY <2>1, <2>2, <2>3 DEF GatherOutcome
<1> QED  BY <1>9, <1>10

(* What is parsed goes on as it came, or is forgotten.                     *)
ParseOutcome(m, from, to) ==
  /\ SoundChunks(chunks') /\ mPartialProcessingFailed' \in BOOLEAN
  /\ OnlyStored(listPage') /\ mProcessor' \in BOOLEAN /\ (mProcessor' => listPage'.open)
  /\ later' \in Seq(Tasks) /\ NoFurther(later')
  /\ \/ heard' = heard
     \/ heard' = [heard EXCEPT !.overrun = TRUE]
     \/ to = Length(m) /\ heard' = AsParsed(m)
  /\ chunks.total \in {0, Length(m)} /\ chunks.reader \o chunks.buffer = Part(m, 0, from) =>
       \/ heard'.overrun
       \/ to = Length(m) /\ chunks'.total = 0 /\ heard' = AsParsed(m)
       \/ /\ to # Length(m) /\ chunks'.total = Length(m) /\ ~mPartialProcessingFailed'
          /\ chunks'.reader \o chunks'.buffer = Part(m, 0, to)
LEMMA RefusedOutcome ==
  ASSUME MsgTypes, SoundChunks(chunks), NoFurther(later), NEW m \in DOMAIN Messages,
         NEW from \in Nat, NEW to \in Nat, from < to, to <= Length(m),
         NEW max \in BufferSizes \cup {0}, NEW c, c = ChunksBegun([chunks EXCEPT !.max = max], Length(m)),
         ChunkRefused(c, Part(m, from, to), m)
  PROVE  ParseOutcome(m, from, to)
<1>1. /\ SoundChunks(c) /\ c.total = (IF chunks.total = 0 THEN Length(m) ELSE chunks.total)
  BY BegunIsSound, MessageFacts DEF BegunFrom
<1>2. PICK why \in Refused(c, Part(m, from, to), Length(m)) :
        /\ chunks' = c /\ mPartialProcessingFailed' = TRUE
        /\ heard' = [heard EXCEPT !.overrun = @ \/ why = "memory"]
        /\ UNCHANGED <<mProcessor, listPage, later>>
  BY DEF ChunkRefused
<1>3. OnlyStored(listPage') /\ mProcessor' \in BOOLEAN /\ (mProcessor' => listPage'.open)
      /\ later' \in Seq(Tasks) /\ NoFurther(later')
  BY <1>2, StoringIsTyped DEF MsgTypes
<1>4. heard \in Heards
  BY DEF MsgTypes
<1>5. CASE why = "memory"
  <2>1. heard' = [heard EXCEPT !.overrun = TRUE] /\ heard'.overrun
    BY <1>2, <1>4, <1>5 DEF Heards
  <2> QED  BY <1>1, <1>2, <1>3, <2>1 DEF ParseOutcome
<1>6. CASE why # "memory"
  <2>1. heard' = heard
    BY <1>2, <1>4, <1>6 DEF Heards
  <2>2. c.total # Length(m)
    BY <1>2, <1>6 DEF Refused
  <2>3. chunks.total \notin {0, Length(m)}
    BY <1>1, <2>2
  <2> QED  BY <1>1, <1>2, <1>3, <2>1, <2>3 DEF ParseOutcome
<1> QED  BY <1>5, <1>6

LEMMA ReportsAreTyped ==
  ASSUME MsgTypes, NoFurther(later), NEW m \in DOMAIN Messages, NEW r,
         r.at \in Nat, r.at <= Length(m), r.result \in {"finished", "waiting", "error"}
  PROVE  LET l == later \o Progress(r, m) \o Reported(r, m)
         IN l \in Seq(Tasks) /\ NoFurther(l)
<1> DEFINE a == later \o Progress(r, m)
           b == Progress(r, m)
           d == Reported(r, m)
           task(kind) == [kind |-> kind, at |-> r.at, of |-> Length(m)]
<1>1. Length(m) \in Nat
  BY MessageFacts
<1>2. \A kind \in {"percent", "finished", "error"} :
        task(kind) \in Tasks /\ task(kind).at = r.at /\ task(kind).of = Length(m)
  BY <1>1 DEF Tasks
<1>3. ASSUME NEW s, s = << >> \/ \E kind \in {"percent", "finished", "error"} : s = <<task(kind)>>
      PROVE  s \in Seq(Tasks) /\ NoFurther(s)
  <2>1. CASE s = << >>
    <3>1. s \in Seq(Tasks) /\ Len(s) = 0
      BY <2>1, EmptySeq
    <3> QED  BY <3>1 DEF NoFurther
  <2>2. CASE s # << >>
    <3>1. PICK kind \in {"percent", "finished", "error"} : s = <<task(kind)>>
      BY <1>3, <2>2
    <3> DEFINE t == task(kind)
    <3>2. t \in Tasks /\ t.at <= t.of /\ s = <<t>>
      BY <1>2, <3>1
    <3> HIDE DEF t
    <3>3. s \in Seq(Tasks) /\ Len(s) = 1 /\ s[1] = t
      BY <3>2
    <3> QED  BY <3>2, <3>3 DEF NoFurther
  <2> QED  BY <2>1, <2>2
<1>4. b \in Seq(Tasks) /\ NoFurther(b)
  <2>1. b = << >> \/ b = <<task("percent")>>
    BY DEF Progress
  <2> HIDE DEF b, task
  <2> QED  BY <1>3, <2>1
<1>5. d \in Seq(Tasks) /\ NoFurther(d)
  <2>1. d = << >> \/ (r.result \in {"finished", "error"} /\ d = <<task(r.result)>>)
    BY DEF Reported
  <2> HIDE DEF d, task
  <2> QED  BY <1>3, <2>1
<1>6. ASSUME NEW s \in Seq(Tasks), NEW t \in Seq(Tasks), NoFurther(s), NoFurther(t)
      PROVE  s \o t \in Seq(Tasks) /\ NoFurther(s \o t)
  <2>1. /\ s \o t \in Seq(Tasks) /\ Len(s \o t) = Len(s) + Len(t)
        /\ \A i \in 1..Len(s) + Len(t) : (s \o t)[i] = IF i <= Len(s) THEN s[i] ELSE t[i - Len(s)]
    BY ConcatProperties
  <2>2. Len(s) \in Nat /\ Len(t) \in Nat
    BY LenProperties
  <2>3. ASSUME NEW i \in 1..Len(s \o t)  PROVE (s \o t)[i].at <= (s \o t)[i].of
    <3>1. CASE i <= Len(s)
      <4>1. i \in 1..Len(s) /\ (s \o t)[i] = s[i]
        BY <2>1, <2>2, <3>1
      <4> QED  BY <1>6, <4>1 DEF NoFurther
    <3>2. CASE ~(i <= Len(s))
      <4> DEFINE j == i - Len(s)
      <4>1. j \in 1..Len(t) /\ (s \o t)[i] = t[j]
        BY <2>1, <2>2, <3>2
      <4> HIDE DEF j
      <4> QED  BY <1>6, <4>1 DEF NoFurther
    <3> QED  BY <3>1, <3>2
  <2> QED  BY <2>1, <2>3 DEF NoFurther
<1> HIDE DEF b, d
<1>7. later \o b \in Seq(Tasks) /\ NoFurther(later \o b)
  BY <1>4, <1>6 DEF MsgTypes
<1>8. (later \o b) \o d \in Seq(Tasks) /\ NoFurther((later \o b) \o d)
  BY <1>5, <1>6, <1>7
<1> QED  BY <1>8 DEF b, d

LEMMA ChunkParsedOutcome ==
  ASSUME MsgTypes, SoundChunks(chunks), NoFurther(later), NEW m \in DOMAIN Messages,
         NEW from \in Nat, NEW to \in Nat, from < to, to <= Length(m),
         NEW max \in BufferSizes \cup {0}, NEW c, c = ChunksBegun([chunks EXCEPT !.max = max], Length(m)),
         c.total = Length(m), NEW full, Adds(full, c, m, from, to), ChunkParsed(full, m)
  PROVE  ParseOutcome(m, from, to)
<1>1. /\ SoundChunks(c) /\ c.total = (IF chunks.total = 0 THEN Length(m) ELSE chunks.total)
      /\ c.reader = chunks.reader /\ c.buffer = chunks.buffer
  BY BegunIsSound, MessageFacts DEF BegunFrom
<1>2. PICK k \in Parsed(full) : \E r \in {ProcessChunk(full, k)} :
       /\ chunks' = r.state
       /\ mPartialProcessingFailed' = (r.result = "error")
       /\ listPage' = IF Handed(r.read) THEN StoreEntities(r.read) ELSE listPage
       /\ mProcessor' = Forwards(r.read)
       /\ later' = IF Handed(r.read) THEN later \o Progress(r, m) \o Reported(r, m) ELSE later
       /\ heard' = IF r.result = "finished" THEN [heard EXCEPT !.parsed = Append(@, m)] ELSE heard
  BY DEF ChunkParsed
<1> DEFINE r == ProcessChunk(full, k)
<1>3. Outcome(r, full, m, to)
  BY <1>1, ChunkOutcome
<1>4. ASSUME chunks.total \in {0, Length(m)}, chunks.reader \o chunks.buffer = Part(m, 0, from)
      PROVE  /\ full.reader \o full.buffer = Part(m, 0, to) /\ r.result # "error"
             /\ (to = Length(m) => r.result = "finished")
  <2>1. c.reader \o c.buffer = Part(m, 0, from)
    BY <1>1, <1>4
  <2> QED  BY <1>1, <2>1, InStepIsParsed
<1> HIDE DEF r
<1>5. /\ chunks' = r.state /\ mPartialProcessingFailed' = (r.result = "error")
      /\ listPage' = (IF Handed(r.read) THEN StoreEntities(r.read) ELSE listPage)
      /\ mProcessor' = Forwards(r.read)
      /\ later' = (IF Handed(r.read) THEN later \o Progress(r, m) \o Reported(r, m) ELSE later)
      /\ heard' = (IF r.result = "finished" THEN AsParsed(m) ELSE heard)
  BY <1>2 DEF r, AsParsed
<1>6. OnlyStored(listPage')
  BY <1>5, StoringIsTyped DEF MsgTypes
<1>7. mProcessor' \in BOOLEAN /\ (mProcessor' => listPage'.open)
  <2>1. Forwards(r.read) \in BOOLEAN /\ (Forwards(r.read) => listPage.open)
    BY DEF Forwards, MsgTypes
  <2> QED  BY <1>5, <1>6, <2>1 DEF OnlyStored
<1>8. later' \in Seq(Tasks) /\ NoFurther(later')
  <2>1. CASE Handed(r.read)
    <3>1. LET l == later \o Progress(r, m) \o Reported(r, m) IN l \in Seq(Tasks) /\ NoFurther(l)
      BY <1>3, ReportsAreTyped DEF Outcome
    <3> QED  BY <1>5, <2>1, <3>1
  <2>2. CASE ~Handed(r.read)
    BY <1>5, <2>2 DEF MsgTypes
  <2> QED  BY <2>1, <2>2
<1>9. SoundChunks(chunks') /\ mPartialProcessingFailed' \in BOOLEAN
  BY <1>3, <1>5 DEF Outcome
<1>10. heard' = heard \/ (to = Length(m) /\ heard' = AsParsed(m))
  BY <1>3, <1>5 DEF Outcome
<1>11. ASSUME chunks.total \in {0, Length(m)}, chunks.reader \o chunks.buffer = Part(m, 0, from)
       PROVE  \/ to = Length(m) /\ chunks'.total = 0 /\ heard' = AsParsed(m)
              \/ /\ to # Length(m) /\ chunks'.total = Length(m) /\ ~mPartialProcessingFailed'
                 /\ chunks'.reader \o chunks'.buffer = Part(m, 0, to)
  <2>1. CASE to = Length(m)
    BY <1>3, <1>4, <1>5, <1>11, <2>1 DEF Outcome
  <2>2. CASE to # Length(m)
    <3>1. r.result = "waiting"
      BY <1>3, <1>4, <1>11, <2>2 DEF Outcome
    <3> QED  BY <1>3, <1>4, <1>5, <1>11, <2>2, <3>1 DEF Outcome
  <2> QED  BY <2>1, <2>2
<1> QED  BY <1>6, <1>7, <1>8, <1>9, <1>10, <1>11 DEF ParseOutcome

LEMMA PartialOutcome ==
  ASSUME MsgTypes, SoundChunks(chunks), NoFurther(later), NEW m \in DOMAIN Messages,
         NEW from \in Nat, NEW to \in Nat, from < to, to <= Length(m),
         NEW start, Partial(m, Part(m, from, to), start)
  PROVE  ParseOutcome(m, from, to)
<1> DEFINE p == Part(m, from, to)
<1>1. PICK max \in IF start THEN BufferSizes ELSE {chunks.max} :
        \E c \in {ChunksBegun([chunks EXCEPT !.max = max], Length(m))} :
          \/ ChunkRefused(c, p, m)
          \/ /\ Refused(c, p, Length(m)) = {}
             /\ \E full \in {[c EXCEPT !.buffer = @ \o p]} : ChunkParsed(full, m)
  BY DEF Partial
<1>2. max \in BufferSizes \cup {0}
  BY <1>1 DEF SoundChunks, ChunkStates
<1> DEFINE c == ChunksBegun([chunks EXCEPT !.max = max], Length(m))
           full == [c EXCEPT !.buffer = @ \o p]
<1>3. CASE ChunkRefused(c, p, m)
  BY <1>2, <1>3, RefusedOutcome
<1>4. CASE Refused(c, p, Length(m)) = {} /\ ChunkParsed(full, m)
  <2>1. c.total = Length(m)
    BY <1>4 DEF Refused
  <2>2. Adds(full, c, m, from, to)
    BY DEF Adds
  <2> QED  BY <1>2, <1>4, <2>1, <2>2, ChunkParsedOutcome
<1> QED  BY <1>1, <1>3, <1>4

LEMMA MinOfTwo ==
  ASSUME NEW a \in Nat, NEW b \in Nat
  PROVE  Min({a, b}) = IF a <= b THEN a ELSE b
<1> DEFINE c == IF a <= b THEN a ELSE b
<1>1. c \in {a, b} /\ \A y \in {a, b} : c <= y
  OBVIOUS
<1>2. \A x \in {a, b} : (\A y \in {a, b} : x <= y) => x = c
  OBVIOUS
<1> HIDE DEF c
<1>3. (CHOOSE x \in {a, b} : \A y \in {a, b} : x <= y) = c
  BY <1>1, <1>2
<1> QED  BY <1>3 DEF Min, c

(* The event brings the message on the wire from one token to another.     *)
NextMessage(m) == \E big \in BOOLEAN : wire' = [msg |-> m + 1, off |-> 0, big |-> big]
StepNow(m, to) == StepOf(m, wire.off = 0, wire.off = 0 /\ to = Length(m))
Brings(m, to) ==
  /\ m = wire.msg /\ m \in DOMAIN Messages /\ to \in Nat /\ wire.off < to /\ to <= Length(m)
  /\ IF to < Length(m) THEN wire' = [wire EXCEPT !.off = to] ELSE NextMessage(m)
  /\ simulator' = simulator
  /\ \/ /\ StepNow(m, to) = "Append" /\ GatherOutcome(m, wire.off, to)
        /\ UNCHANGED <<chunks, mProcessor, later>> /\ mPartialProcessingFailed' \in BOOLEAN
     \/ /\ StepNow(m, to) = "Partial" /\ ParseOutcome(m, wire.off, to)
        /\ mIncomingMessage' \in {mIncomingMessage, << >>}
     \/ /\ StepNow(m, to) \notin {"Append", "Partial"}
        /\ UNCHANGED <<mIncomingMessage, chunks, mProcessor, listPage, later, heard>>
        /\ mPartialProcessingFailed' \in BOOLEAN
LEMMA DataEventBrings == MessagesInv /\ DataEvent => \E m, to : Brings(m, to)
<1> SUFFICES ASSUME MessagesInv, DataEvent  PROVE \E m, to : Brings(m, to)
  OBVIOUS
<1> DEFINE m == wire.msg
           from == wire.off
           to == Min({from + PartSize, Length(m)})
           p == Part(m, from, to)
           start == from = 0
           whole == start /\ to = Length(m)
           step == StepOf(m, start, whole)
           started == IF start THEN FALSE ELSE mPartialProcessingFailed
           A == /\ Gathered(mIncomingMessage \o p, m)
                /\ mPartialProcessingFailed' = started
                /\ UNCHANGED <<chunks, mProcessor, later>>
           B == Partial(m, p, start) /\ UNCHANGED mIncomingMessage
           C == Partial(m, p, start) /\ mIncomingMessage' = << >>
           D == /\ mPartialProcessingFailed' = started
                /\ UNCHANGED <<mIncomingMessage, chunks, mProcessor, listPage, later, heard>>
           x == Len(mIncomingMessage) # Length(m)
           y == Len(mIncomingMessage) = Length(m)
           W == IF to < Length(m) THEN wire' = [wire EXCEPT !.off = to] ELSE NextMessage(m)
<1>1. MsgTypes /\ SoundChunks(chunks) /\ NoFurther(later)
  BY DEF MessagesInv
<1>2. m \in DOMAIN Messages /\ simulator' = simulator
  BY DEF DataEvent
<1>3. /\ CASE step = "Append" -> A
           [] step = "Partial" /\ x -> B
           [] step = "Partial" /\ y -> C
           [] OTHER -> D
      /\ W
  BY DEF DataEvent, NextMessage
<1>4. from \in Nat /\ Length(m) \in Nat /\ from < Length(m) /\ PartSize \in Nat \ {0}
  BY <1>1, <1>2, MessageFacts DEF MsgTypes
<1>5. to \in Nat /\ from < to /\ to <= Length(m)
  <2>1. from + PartSize \in Nat
    BY <1>4
  <2>2. to = (IF from + PartSize <= Length(m) THEN from + PartSize ELSE Length(m))
    BY <1>4, <2>1, MinOfTwo
  <2> HIDE DEF to
  <2> QED  BY <1>4, <2>2
<1>6. started \in BOOLEAN
  BY <1>1 DEF MsgTypes
<1>7. /\ A => GatherOutcome(m, from, to) /\ mPartialProcessingFailed' \in BOOLEAN
                                         /\ UNCHANGED <<chunks, mProcessor, later>>
      /\ (B \/ C) => ParseOutcome(m, from, to) /\ mIncomingMessage' \in {mIncomingMessage, << >>}
      /\ D => /\ UNCHANGED <<mIncomingMessage, chunks, mProcessor, listPage, later, heard>>
              /\ mPartialProcessingFailed' \in BOOLEAN
  <2> HIDE DEF to, m, from, started
  <2>1. ASSUME A  PROVE GatherOutcome(m, from, to) /\ mPartialProcessingFailed' \in BOOLEAN
                        /\ UNCHANGED <<chunks, mProcessor, later>>
    BY <1>1, <1>2, <1>4, <1>5, <1>6, <2>1, GatheredOutcome
  <2>2. ASSUME B \/ C  PROVE ParseOutcome(m, from, to) /\ mIncomingMessage' \in {mIncomingMessage, << >>}
    <3>1. Partial(m, p, start)
      BY <2>2
    <3>2. ParseOutcome(m, from, to)
      BY <1>1, <1>2, <1>4, <1>5, <3>1, PartialOutcome
    <3> QED  BY <2>2, <3>2
  <2>3. ASSUME D  PROVE /\ UNCHANGED <<mIncomingMessage, chunks, mProcessor, listPage, later, heard>>
                        /\ mPartialProcessingFailed' \in BOOLEAN
    BY <1>6, <2>3
  <2> QED  BY <2>1, <2>2, <2>3
<1>8. x \/ y
  OBVIOUS
<1>9. step = StepNow(m, to)
  BY DEF StepNow
<1>10. W
  BY <1>3
<1>11. \/ step = "Append" /\ A
       \/ step = "Partial" /\ (B \/ C)
       \/ step \notin {"Append", "Partial"} /\ D
  <2> HIDE DEF step, A, B, C, D, x, y, W
  <2> QED  BY <1>3, <1>8
<1> HIDE DEF A, B, C, D, step, x, y, to
<1>12. Brings(m, to)
  BY <1>2, <1>5, <1>7, <1>9, <1>10, <1>11 DEF Brings
<1> QED  BY <1>12

(* What the event leaves of what was heard.                                *)
LEMMA BringsHeard ==
  ASSUME NEW m, NEW to, Brings(m, to), MessagesInv
  PROVE  /\ MsgTypes' /\ SoundChunks(chunks') /\ NoFurther(later') /\ HeardOnce(heard', wire'.msg)
         /\ heard'.cut = heard.cut
         /\ (~heard'.overrun => ~heard.overrun)
<1>1. /\ MsgTypes /\ SoundChunks(chunks) /\ NoFurther(later) /\ HeardOnce(heard, m) /\ heard \in Heards
      /\ m = wire.msg /\ m \in DOMAIN Messages /\ to \in Nat /\ wire.off < to /\ to <= Length(m)
  BY DEF MessagesInv, MsgTypes, Brings
<1>2. m \in Nat \ {0} /\ m \in 1..Len(Messages) /\ Len(Messages) \in Nat /\ Length(m) \in Nat
  BY <1>1, MessageFacts
<1>3. /\ SoundChunks(chunks') /\ NoFurther(later') /\ later' \in Seq(Tasks) /\ OnlyStored(listPage')
      /\ mIncomingMessage' \in Seq(Units) /\ mPartialProcessingFailed' \in BOOLEAN
      /\ mProcessor' \in BOOLEAN /\ (mProcessor' => listPage'.open) /\ simulator' \in BOOLEAN
  <2>1. listPage \in Pages(listPage.stored) /\ mIncomingMessage \in Seq(Units) /\ << >> \in Seq(Units)
        /\ later \in Seq(Tasks) /\ mProcessor \in BOOLEAN /\ (mProcessor => listPage.open)
        /\ simulator \in BOOLEAN
    BY <1>1, EmptySeq DEF MsgTypes
  <2>2. OnlyStored(listPage)
    BY <2>1, StoringIsTyped
  <2>3. simulator' \in BOOLEAN
    BY <2>1 DEF Brings
  <2>4. CASE /\ GatherOutcome(m, wire.off, to)
             /\ UNCHANGED <<chunks, mProcessor, later>> /\ mPartialProcessingFailed' \in BOOLEAN
    BY <1>1, <2>1, <2>3, <2>4 DEF GatherOutcome, OnlyStored
  <2>5. CASE ParseOutcome(m, wire.off, to) /\ mIncomingMessage' \in {mIncomingMessage, << >>}
    BY <2>1, <2>3, <2>5 DEF ParseOutcome
  <2>6. CASE /\ UNCHANGED <<mIncomingMessage, chunks, mProcessor, listPage, later, heard>>
             /\ mPartialProcessingFailed' \in BOOLEAN
    BY <1>1, <2>1, <2>2, <2>3, <2>6
  <2> QED  BY <2>4, <2>5, <2>6 DEF Brings
<1>4. \/ heard' = heard
      \/ heard' = [heard EXCEPT !.overrun = TRUE]
      \/ to = Length(m) /\ heard' = AsDoc(m)
      \/ to = Length(m) /\ heard' = AsParsed(m)
  BY DEF Brings, GatherOutcome, ParseOutcome
<1>5. wire \in [msg : 1..Len(Messages) + 1, off : Nat, big : BOOLEAN]
  BY <1>1 DEF MsgTypes
<1>6. /\ heard' \in Heards /\ heard'.cut = heard.cut /\ (~heard'.overrun => ~heard.overrun)
      /\ HeardOnce(heard', m + 1) /\ (to < Length(m) => HeardOnce(heard', m))
  <2>1. CASE heard' = heard
    BY <1>1, <1>2, <2>1, HeardGoesOn
  <2>2. CASE heard' = [heard EXCEPT !.overrun = TRUE]
    <3>1. /\ heard' \in Heards /\ heard'.docs = heard.docs /\ heard'.parsed = heard.parsed
          /\ heard'.cut = heard.cut /\ heard'.overrun
      BY <1>1, <2>2 DEF Heards
    <3>2. HeardOnce(heard', m)
      BY <1>1, <3>1 DEF HeardOnce
    <3> QED  BY <1>2, <3>1, <3>2, HeardGoesOn
  <2>3. CASE to = Length(m) /\ heard' = AsDoc(m)
    <3>1. ~(to < Length(m))
      BY <1>2, <2>3
    <3> QED  BY <1>1, <1>2, <2>3, <3>1, DocIsHeard DEF AsDoc
  <2>4. CASE to = Length(m) /\ heard' = AsParsed(m)
    <3>1. ~(to < Length(m))
      BY <1>2, <2>4
    <3> QED  BY <1>1, <1>2, <2>4, <3>1, ParsedIsHeard DEF AsParsed
  <2> QED  BY <1>4, <2>1, <2>2, <2>3, <2>4
<1>7. /\ wire' \in [msg : 1..Len(Messages) + 1, off : Nat, big : BOOLEAN]
      /\ (wire'.off # 0 => wire'.msg \in DOMAIN Messages /\ wire'.off < Length(wire'.msg))
      /\ HeardOnce(heard', wire'.msg)
  <2>1. CASE to < Length(m)
    <3>1. wire' = [wire EXCEPT !.off = to]
      BY <2>1 DEF Brings
    <3>2. wire' \in [msg : 1..Len(Messages) + 1, off : Nat, big : BOOLEAN] /\ wire'.msg = m /\ wire'.off = to
      BY <1>1, <1>5, <3>1
    <3> QED  BY <1>1, <1>6, <2>1, <3>2
  <2>2. CASE ~(to < Length(m))
    <3>1. PICK big \in BOOLEAN : wire' = [msg |-> m + 1, off |-> 0, big |-> big]
      BY <2>2 DEF Brings, NextMessage
    <3>2. m + 1 \in 1..Len(Messages) + 1
      BY <1>2
    <3>3. wire'.msg = m + 1 /\ wire'.off = 0
      BY <3>1
    <3> QED  BY <1>6, <3>1, <3>2, <3>3
  <2> QED  BY <2>1, <2>2
<1>8. listPage' \in Pages(listPage'.stored)
  BY <1>3 DEF OnlyStored
<1> QED  BY <1>3, <1>6, <1>7, <1>8 DEF MsgTypes

(* What is in step stays so.                                               *)
LEMMA BringsInStep ==
  ASSUME NEW m, NEW to, Brings(m, to), MessagesInv
  PROVE  InStep'
<1> SUFFICES ASSUME heard'.cut = 0, ~heard'.overrun
             PROVE  /\ AllHeard(heard', wire'.msg)
                    /\ Held(wire', mIncomingMessage', chunks', mPartialProcessingFailed')
  BY DEF InStep
<1>1. /\ MsgTypes /\ SoundChunks(chunks) /\ HeardOnce(heard, m) /\ heard \in Heards
      /\ m = wire.msg /\ m \in DOMAIN Messages /\ to \in Nat /\ wire.off < to /\ to <= Length(m)
      /\ wire.off \in Nat /\ wire.big \in BOOLEAN
      /\ wire \in [msg : 1..Len(Messages) + 1, off : Nat, big : BOOLEAN]
  BY DEF MessagesInv, MsgTypes, Brings
<1>2. m \in Nat \ {0} /\ Length(m) \in Nat \ {0}
  BY <1>1, MessageFacts
<1>3. AllHeard(heard, m) /\ Held(wire, mIncomingMessage, chunks, mPartialProcessingFailed)
  <2>1. heard.cut = 0 /\ ~heard.overrun
    BY BringsHeard
  <2> QED  BY <1>1, <2>1 DEF MessagesInv, InStep
<1>4. << >> \in Seq(Units) /\ Len(<< >>) = 0 /\ << >> \o << >> = << >>
  BY EmptySeq, ConcatEmptySeq
<1>5. Part(m, 0, 0) = << >>
  <2>1. 0 \in Nat /\ 0 <= 0 /\ 0 <= Length(m)
    BY <1>2
  <2>2. Part(m, 0, 0) \in Seq(Units) /\ Len(Part(m, 0, 0)) = 0 - 0
    BY <1>1, <2>1, PartFacts
  <2> QED  BY <2>2, EmptySeq
<1>6. \/ /\ StepNow(m, to) = "Append" /\ mIncomingMessage = Part(m, 0, wire.off) /\ chunks.total = 0
         /\ to = Length(m) \/ ~wire.big
      \/ /\ StepNow(m, to) = "Partial" /\ wire.big /\ mIncomingMessage = << >>
         /\ chunks.total \in {0, Length(m)} /\ chunks.reader \o chunks.buffer = Part(m, 0, wire.off)
  <2>1. CASE wire.off = 0
    <3>1. mIncomingMessage = << >> /\ chunks.total = 0 /\ mIncomingMessage = Part(m, 0, wire.off)
      BY <1>3, <1>5, <2>1 DEF Held
    <3>2. chunks.reader \o chunks.buffer = Part(m, 0, wire.off)
      BY <1>1, <1>4, <1>5, <2>1, <3>1 DEF SoundChunks
    <3>3. \/ StepNow(m, to) = "Append" /\ (to = Length(m) \/ ~wire.big)
          \/ StepNow(m, to) = "Partial" /\ wire.big
      BY <2>1, <3>1 DEF StepNow, StepOf, NextStep, inMemory
    <3> QED  BY <3>1, <3>2, <3>3
  <2>2. CASE wire.off # 0 /\ ~wire.big
    <3>1. mIncomingMessage = Part(m, 0, wire.off) /\ chunks.total = 0
      BY <1>1, <1>3, <2>2 DEF Held
    <3>2. mIncomingMessage # << >>
      <4>1. 0 \in Nat /\ 0 <= wire.off /\ wire.off <= Length(m)
        BY <1>1, <1>2
      <4> DEFINE n == wire.off
      <4>2. n \in Nat /\ 0 <= n /\ n <= Length(m) /\ n # 0
        BY <1>1, <2>2, <4>1
      <4>3. mIncomingMessage = Part(m, 0, n)
        BY <3>1
      <4> HIDE DEF n
      <4>4. Len(mIncomingMessage) = n - 0
        BY <1>1, <4>2, <4>3, PartFacts
      <4> QED  BY <1>4, <4>2, <4>4
    <3>3. StepNow(m, to) = "Append"
      BY <2>2, <3>2 DEF StepNow, StepOf, NextStep, inMemory
    <3> QED  BY <2>2, <3>1, <3>3
  <2>3. CASE wire.off # 0 /\ wire.big
    <3>1. /\ mIncomingMessage = << >> /\ chunks.total = Length(m) /\ ~mPartialProcessingFailed
          /\ chunks.reader \o chunks.buffer = Part(m, 0, wire.off)
      BY <1>1, <1>3, <2>3 DEF Held
    <3>2. StepNow(m, to) = "Partial"
      BY <2>3, <3>1 DEF StepNow, StepOf, NextStep, inMemory
    <3> QED  BY <2>3, <3>1, <3>2
  <2> QED  BY <1>1, <2>1, <2>2, <2>3
<1>7. CASE to = Length(m)
  <2>1. wire'.off = 0 /\ wire'.msg = m + 1
    <3>1. PICK big \in BOOLEAN : wire' = [msg |-> m + 1, off |-> 0, big |-> big]
      BY <1>2, <1>7 DEF Brings, NextMessage
    <3> QED  BY <3>1
  <2>2. mIncomingMessage' = << >> /\ chunks'.total = 0 /\ heard' \in {AsDoc(m), AsParsed(m)}
    <3>1. CASE StepNow(m, to) = "Append" /\ mIncomingMessage = Part(m, 0, wire.off) /\ chunks.total = 0
      BY <1>7, <3>1 DEF Brings, GatherOutcome
    <3>2. CASE /\ StepNow(m, to) = "Partial" /\ mIncomingMessage = << >>
               /\ chunks.total \in {0, Length(m)} /\ chunks.reader \o chunks.buffer = Part(m, 0, wire.off)
      BY <1>7, <3>2 DEF Brings, ParseOutcome
    <3> QED  BY <1>6, <3>1, <3>2
  <2>3. AllHeard(heard', m + 1)
    BY <1>1, <1>2, <1>3, <2>2, DocIsHeard, ParsedIsHeard DEF AsDoc, AsParsed
  <2> QED  BY <2>1, <2>2, <2>3 DEF Held
<1>8. CASE to # Length(m)
  <2>1. wire'.off = to /\ wire'.msg = m /\ wire'.big = wire.big /\ to # 0
    <3>1. to < Length(m) /\ to # 0
      BY <1>1, <1>2, <1>8
    <3>2. wire' = [wire EXCEPT !.off = to]
      BY <3>1 DEF Brings
    <3> QED  BY <1>1, <3>1, <3>2
  <2>2. heard' = heard
    <3>1. heard' # [heard EXCEPT !.overrun = TRUE]
      BY <1>1 DEF Heards
    <3> QED  BY <1>8, <3>1 DEF Brings, GatherOutcome, ParseOutcome
  <2>3. CASE StepNow(m, to) = "Append" /\ mIncomingMessage = Part(m, 0, wire.off) /\ chunks.total = 0 /\ ~wire.big
    <3>1. mIncomingMessage' = Part(m, 0, to) /\ chunks'.total = 0
      BY <1>8, <2>3 DEF Brings, GatherOutcome
    <3> QED  BY <1>3, <2>1, <2>2, <2>3, <3>1 DEF Held
  <2>4. CASE /\ StepNow(m, to) = "Partial" /\ wire.big /\ mIncomingMessage = << >>
             /\ chunks.total \in {0, Length(m)} /\ chunks.reader \o chunks.buffer = Part(m, 0, wire.off)
    <3>1. /\ mIncomingMessage' = << >> /\ chunks'.total = Length(m) /\ ~mPartialProcessingFailed'
          /\ chunks'.reader \o chunks'.buffer = Part(m, 0, to)
      BY <1>8, <2>4 DEF Brings, ParseOutcome
    <3> QED  BY <1>3, <2>1, <2>2, <2>4, <3>1 DEF Held
  <2> QED  BY <1>6, <1>8, <2>3, <2>4
<1> QED  BY <1>7, <1>8

LEMMA DataEventKeepsMessages == MessagesInv /\ DataEvent => MessagesInv'
<1> SUFFICES ASSUME MessagesInv, DataEvent  PROVE MessagesInv'
  OBVIOUS
<1>1. PICK m, to : Brings(m, to)
  BY DataEventBrings
<1>2. /\ MsgTypes' /\ SoundChunks(chunks') /\ NoFurther(later') /\ HeardOnce(heard', wire'.msg)
  BY <1>1, BringsHeard
<1>3. InStep'
  BY <1>1, BringsInStep
<1> QED  BY <1>2, <1>3 DEF MessagesInv

LEMMA NothingMore ==
  ASSUME MessagesInv, UNCHANGED <<simulator, wire, mIncomingMessage, chunks, heard, mPartialProcessingFailed>>,
         mProcessor' \in BOOLEAN, mProcessor' => listPage'.open, listPage' \in Pages(listPage'.stored),
         later' \in Seq(Tasks), NoFurther(later')
  PROVE  MessagesInv'
<1>1. MsgTypes'
  BY DEF MessagesInv, MsgTypes
<1>2. InStep'
  BY DEF MessagesInv, InStep
<1> QED  BY <1>1, <1>2 DEF MessagesInv

LEMMA ConnectionLostKeeps == MessagesInv /\ ConnectionLost => MessagesInv'
<1> SUFFICES ASSUME MessagesInv, ConnectionLost  PROVE MessagesInv'
  OBVIOUS
<1> DEFINE m == wire.msg
<1>1. /\ MsgTypes /\ HeardOnce(heard, m) /\ heard \in Heards /\ heard.cut = 0
      /\ m \in DOMAIN Messages /\ heard' = [heard EXCEPT !.cut = m]
      /\ UNCHANGED <<simulator, mIncomingMessage, mPartialProcessingFailed, chunks, mProcessor, listPage, later>>
  BY DEF MessagesInv, MsgTypes, ConnectionLost
<1>2. m \in Nat \ {0} /\ m \in 1..Len(Messages) /\ Len(Messages) \in Nat
  BY <1>1, MessageFacts
<1>3. PICK big \in BOOLEAN : wire' = [msg |-> m + 1, off |-> 0, big |-> big]
  BY DEF ConnectionLost
<1>4. /\ wire' \in [msg : 1..Len(Messages) + 1, off : Nat, big : BOOLEAN]
      /\ wire'.msg = m + 1 /\ wire'.off = 0
  BY <1>2, <1>3
<1>5. /\ heard' \in Heards /\ heard'.cut = m /\ heard'.docs = heard.docs /\ heard'.parsed = heard.parsed
  BY <1>1, <1>2 DEF Heards
<1> HIDE DEF m
<1>6. MsgTypes'
  <2>1. listPage' \in Pages(listPage'.stored) /\ (mProcessor' => listPage'.open)
    BY <1>1 DEF MsgTypes
  <2> QED  BY <1>1, <1>4, <1>5, <2>1 DEF MsgTypes
<1>7. HeardOnce(heard', m + 1)
  <2>1. HeardOnce(heard, m + 1)
    BY <1>1, <1>2, HeardGoesOn
  <2>2. /\ \A k \in 1..Len(heard.docs) : heard.docs[k] # m
        /\ \A k \in 1..Len(heard.parsed) : heard.parsed[k] # m
    <3>1. Before(heard.docs, m) /\ Before(heard.parsed, m)
      BY <1>1 DEF HeardOnce
    <3> QED  BY <1>2, <3>1 DEF Before
  <2>3. m \in 0..((m + 1) - 1)
    BY <1>2
  <2> QED  BY <1>5, <2>1, <2>2, <2>3 DEF HeardOnce
<1>8. InStep'
  BY <1>2, <1>5 DEF InStep
<1>9. SoundChunks(chunks') /\ NoFurther(later')
  BY <1>1 DEF MessagesInv
<1> QED  BY <1>4, <1>6, <1>7, <1>8, <1>9 DEF MessagesInv

LEMMA MaxOfSome ==
  ASSUME NEW n \in Nat, NEW S, S \subseteq 1..n, S # {}
  PROVE  Max(S) \in S
<1> DEFINE T == {n - i : i \in S}
<1>1. T \subseteq Nat /\ T # {}
  <2>1. \A i \in S : n - i \in Nat
    OBVIOUS
  <2> QED  BY <2>1
<1>2. PICK t \in T : \A u \in T : t <= u
  <2> HIDE DEF T
  <2> QED  BY <1>1, LeastElement
<1>3. PICK i \in S : t = n - i
  BY <1>2
<1>4. \A j \in S : i >= j
  <2> TAKE j \in S
  <2>1. n - j \in T
    OBVIOUS
  <2>2. n - i <= n - j
    BY <1>2, <1>3, <2>1
  <2> QED  BY <2>2
<1>5. (CHOOSE x \in S : \A y \in S : x >= y) \in S
  BY <1>4
<1> QED  BY <1>5 DEF Max

LEMMA RunLaterKeeps == MessagesInv /\ RunLater => MessagesInv'
<1> SUFFICES ASSUME MessagesInv, RunLater  PROVE MessagesInv'
  OBVIOUS
<1> DEFINE l == Len(later)
           n == Min({TasksPerRefresh, l})
           percents == {k \in 1..n : later[k].kind = "percent"}
           rest == SubSeq(later, n + 1, l)
           shown == listPage.shown \/ (listPage.open /\ \E k \in 1..n : later[k].kind = "finished")
           at == IF listPage.open /\ percents # {} THEN later[Max(percents)].at ELSE listPage.percent
<1>1. MsgTypes /\ NoFurther(later) /\ later \in Seq(Tasks) /\ listPage \in Pages(listPage.stored)
  BY DEF MessagesInv, MsgTypes
<1>2. l \in Nat /\ \A k \in 1..l : later[k] \in Tasks
  BY <1>1, LenProperties, ElementOfSeq
<1>3. /\ later' = rest
      /\ listPage' = [listPage EXCEPT !.percent = at, !.shown = shown]
      /\ UNCHANGED <<simulator, wire, mIncomingMessage, mPartialProcessingFailed, chunks, mProcessor, heard>>
  BY DEF RunLater
<1>4. n \in 0..l
  <2>1. n = (IF 5 <= l THEN 5 ELSE l)
    BY <1>2, MinOfTwo DEF TasksPerRefresh
  <2> HIDE DEF n
  <2> QED  BY <1>2, <2>1
<1>0. l = Len(later)
  OBVIOUS
<1> HIDE DEF n, l
<1>5. rest \in Seq(Tasks) /\ Len(rest) = l - n /\ \A i \in 1..l - n : rest[i] = later[n + i]
  <2>1. n + 1 \in Int /\ l \in Int /\ \A i \in n + 1..l : later[i] \in Tasks
    BY <1>2, <1>4
  <2>2. /\ rest \in Seq(Tasks) /\ Len(rest) = (IF n + 1 <= l THEN l - (n + 1) + 1 ELSE 0)
        /\ \A i \in 1..l - (n + 1) + 1 : rest[i] = later[(n + 1) + i - 1]
    BY <2>1, SubSeqProperties
  <2> HIDE DEF rest
  <2>3. l - (n + 1) + 1 = l - n /\ \A i \in 1..l - n : (n + 1) + i - 1 = n + i
    BY <1>2, <1>4
  <2> QED  BY <1>2, <1>4, <2>2, <2>3
<1>6. NoFurther(rest)
  <2>1. \A i \in 1..l - n : n + i \in 1..l
    BY <1>2, <1>4
  <2> QED  BY <1>0, <1>1, <1>5, <2>1 DEF NoFurther
<1>7. at \in Nat
  <2>1. CASE listPage.open /\ percents # {}
    <3>1. n \in Nat /\ percents \subseteq 1..n
      BY <1>2, <1>4
    <3>2. Max(percents) \in 1..n
      <4> HIDE DEF percents
      <4> QED  BY <2>1, <3>1, MaxOfSome
    <3>3. Max(percents) \in 1..l
      BY <1>2, <1>4, <3>2
    <3> HIDE DEF percents
    <3> QED  BY <1>2, <2>1, <3>3 DEF Tasks
  <2>2. CASE ~(listPage.open /\ percents # {})
    BY <1>1, <2>2 DEF Pages
  <2> QED  BY <2>1, <2>2
<1>8. shown \in BOOLEAN
  BY <1>1 DEF Pages
<1> HIDE DEF rest, shown, at
<1>9. listPage' \in Pages(listPage'.stored) /\ listPage'.open = listPage.open
  BY <1>1, <1>3, <1>7, <1>8 DEF Pages
<1>10. mProcessor' \in BOOLEAN /\ (mProcessor' => listPage'.open)
  BY <1>1, <1>3, <1>9 DEF MsgTypes
<1> QED  BY <1>3, <1>5, <1>6, <1>9, <1>10, NothingMore

LEMMA CloseListKeeps == MessagesInv /\ CloseList => MessagesInv'
<1> SUFFICES ASSUME MessagesInv, CloseList  PROVE MessagesInv'
  OBVIOUS
<1>1. MsgTypes /\ NoFurther(later) /\ later \in Seq(Tasks) /\ listPage \in Pages(listPage.stored)
  BY DEF MessagesInv, MsgTypes
<1>2. listPage' \in Pages(listPage'.stored) /\ mProcessor' = FALSE
  BY <1>1 DEF CloseList, Pages
<1> QED  BY <1>1, <1>2, NothingMore DEF CloseList

LEMMA MessagesBegin == MsgInit => MessagesInv
<1> SUFFICES ASSUME MsgInit  PROVE MessagesInv
  OBVIOUS
<1>1. /\ << >> \in Seq(Units) /\ << >> \in Seq(Nat) /\ << >> \in Seq(Tasks) /\ Len(<< >>) = 0
  BY EmptySeq
<1>2. Len(Messages) \in Nat /\ 0 \in BufferSizes \cup {0}
  BY MessageFacts
<1>3. PICK w \in [msg : {1}, off : {0}, big : BOOLEAN] : wire = w
  BY DEF MsgInit
<1>4. wire \in [msg : 1..Len(Messages) + 1, off : Nat, big : BOOLEAN] /\ wire.msg = 1 /\ wire.off = 0
  BY <1>2, <1>3
<1>5. MsgTypes
  <2>1. heard \in Heards
    BY <1>1 DEF MsgInit, Heards
  <2>2. listPage \in Pages(listPage.stored)
    BY DEF MsgInit, Pages
  <2> QED  BY <1>1, <1>4, <2>1, <2>2 DEF MsgInit, MsgTypes
<1>6. SoundChunks(chunks) /\ chunks.total = 0
  <2>1. chunks = [NoChunks EXCEPT !.max = 0]
    BY DEF MsgInit, NoChunks
  <2> QED  BY <1>2, <2>1, NothingInWork
<1>7. heard.docs = << >> /\ heard.parsed = << >> /\ heard.cut = 0
  BY DEF MsgInit
<1>8. HeardOnce(heard, wire.msg)
  <2>1. Len(heard.docs) = 0 /\ Len(heard.parsed) = 0
    BY <1>1, <1>7
  <2> QED  BY <1>4, <1>7, <2>1 DEF HeardOnce, Ordered, Before
<1>9. InStep
  <2>1. AllHeard(heard, wire.msg)
    BY <1>4 DEF AllHeard
  <2>2. Held(wire, mIncomingMessage, chunks, mPartialProcessingFailed)
    BY <1>4, <1>6 DEF MsgInit, Held
  <2> QED  BY <2>1, <2>2 DEF InStep
<1>10. NoFurther(later)
  BY <1>1 DEF MsgInit, NoFurther
<1> QED  BY <1>5, <1>6, <1>8, <1>9, <1>10 DEF MessagesInv

LEMMA MessagesStep == MessagesInv /\ [MsgNext]_msgVars => MessagesInv'
<1> SUFFICES ASSUME MessagesInv, [MsgNext]_msgVars  PROVE MessagesInv'
  OBVIOUS
<1>1. CASE DataEvent
  BY <1>1, DataEventKeepsMessages
<1>2. CASE ConnectionLost
  BY <1>2, ConnectionLostKeeps
<1>3. CASE RunLater
  BY <1>3, RunLaterKeeps
<1>4. CASE CloseList
  BY <1>4, CloseListKeeps
<1>5. CASE UNCHANGED msgVars
  <2>1. /\ UNCHANGED <<simulator, wire, mIncomingMessage, chunks, heard, mPartialProcessingFailed>>
        /\ UNCHANGED <<mProcessor, listPage, later>>
    BY <1>5 DEF msgVars
  <2>2. /\ mProcessor \in BOOLEAN /\ (mProcessor => listPage.open) /\ listPage \in Pages(listPage.stored)
        /\ later \in Seq(Tasks) /\ NoFurther(later)
    BY DEF MessagesInv, MsgTypes
  <2>3. /\ mProcessor' \in BOOLEAN /\ (mProcessor' => listPage'.open) /\ listPage' \in Pages(listPage'.stored)
        /\ later' \in Seq(Tasks) /\ NoFurther(later')
    BY <2>1, <2>2
  <2> QED  BY <2>1, <2>3, NothingMore
<1> QED  BY <1>1, <1>2, <1>3, <1>4, <1>5 DEF MsgNext

LEMMA MessagesInvIsSafe == MessagesInv => MessagesSafe
<1> SUFFICES ASSUME MessagesInv  PROVE MessagesSafe
  OBVIOUS
<1>1. /\ MsgTypes /\ SoundChunks(chunks) /\ HeardOnce(heard, wire.msg) /\ NoFurther(later)
      /\ heard.docs \in Seq(Nat) /\ heard.parsed \in Seq(Nat)
  BY DEF MessagesInv, MsgTypes, Heards
<1>2. /\ DOMAIN heard.docs = 1..Len(heard.docs) /\ DOMAIN heard.parsed = 1..Len(heard.parsed)
      /\ DOMAIN later = 1..Len(later)
  BY <1>1, LenProperties DEF MsgTypes
<1>3. MessagesTypeOK
  <2>1. chunks \in ChunkStates /\ Len(chunks.reader) \in Nat /\ chunks.total \in Nat
        /\ chunks.offset = Len(chunks.reader)
    BY <1>1, LenProperties DEF SoundChunks, ChunkStates
  <2>2. chunks.offset \in 0..chunks.total
    <3>1. CASE chunks.offset = 0
      BY <2>1, <3>1
    <3>2. CASE chunks.offset # 0
      <4> DEFINE e == Len(chunks.reader)
      <4>1. e \in 1..e
        BY <2>1, <3>2
      <4>2. chunks.reader \in Seq(Units)
        BY <2>1 DEF ChunkStates
      <4>3. chunks.reader[e] \in Units /\ chunks.reader[e] = <<chunks.reader[1][1], e>>
            /\ Length(chunks.reader[e][1]) = chunks.total
        BY <1>1, <4>1, <4>2, ElementOfSeq DEF SoundChunks, Contiguous, OfLength
      <4> HIDE DEF e
      <4>4. e \in 1..chunks.total
        BY <4>3 DEF Units
      <4> QED  BY <2>1, <4>4 DEF e
    <3> QED  BY <3>1, <3>2
  <2>3. wire.off \in 0..(IF wire.msg \in DOMAIN Messages THEN Length(wire.msg) - 1 ELSE 0)
    BY <1>1, MessageFacts DEF MsgTypes
  <2>4. chunks.max \in BufferSizes \cup {0}
    BY <2>1 DEF ChunkStates
  <2>5. /\ listPage.open \in BOOLEAN /\ listPage.shown \in BOOLEAN /\ listPage.percent \in Nat
        /\ (mProcessor => listPage.open) /\ simulator \in BOOLEAN /\ mPartialProcessingFailed \in BOOLEAN
        /\ wire.msg \in 1..Len(Messages) + 1 /\ wire.big \in BOOLEAN
    BY <1>1 DEF MsgTypes, Pages
  <2> QED  BY <2>1, <2>2, <2>3, <2>4, <2>5 DEF MessagesTypeOK
<1>4. WholeOnly
  <2>1. ASSUME NEW s \in {heard.docs, heard.parsed}
        PROVE  /\ \A j, k \in DOMAIN s : j < k => s[j] < s[k]
               /\ heard.cut \notin ToSet(s)
    <3>1. DOMAIN s = 1..Len(s) /\ Ordered(s) /\ \A k \in 1..Len(s) : s[k] # heard.cut
      BY <1>1, <1>2 DEF HeardOnce
    <3> QED  BY <3>1 DEF Ordered, ToSet
  <2>2. ToSet(heard.docs) \cap ToSet(heard.parsed) = {}
    <3>1. \A j \in DOMAIN heard.docs, k \in DOMAIN heard.parsed : heard.docs[j] # heard.parsed[k]
      BY <1>1, <1>2 DEF HeardOnce
    <3> QED  BY <3>1 DEF ToSet
  <2> QED  BY <2>1, <2>2 DEF WholeOnly
<1>5. AllHandled
  <2> SUFFICES ASSUME heard.cut = 0, ~heard.overrun, NEW m \in 1..(wire.msg - 1)
               PROVE  m \in ToSet(heard.docs) \cup ToSet(heard.parsed)
    BY DEF AllHandled
  <2>1. \/ \E k \in 1..Len(heard.docs) : heard.docs[k] = m
        \/ \E k \in 1..Len(heard.parsed) : heard.parsed[k] = m
    BY DEF MessagesInv, InStep, AllHeard
  <2> QED  BY <1>2, <2>1 DEF ToSet
<1>6. PercentOK
  BY <1>1, <1>2 DEF NoFurther, PercentOK
<1> QED  BY <1>3, <1>4, <1>5, <1>6 DEF MessagesSafe

(* However messages are divided, whatever the heap was and wherever a      *)
(* connection is lost, what is handled is a whole message, in order and    *)
(* once; until one is cut off or does not fit every message is handled,    *)
(* and no progress goes beyond its message (esp32WebSocket.cpp,            *)
(* webSocketSimulator.cpp, IProcessMessage.cpp, ChunkForwarder.cpp).       *)
THEOREM MessagesAreSafe == MsgSpec => []MessagesSafe
<1>1. MsgSpec => []MessagesInv
  BY MessagesBegin, MessagesStep, PTL DEF MsgSpec
<1> QED
  BY <1>1, MessagesInvIsSafe, PTL
================================================================================
