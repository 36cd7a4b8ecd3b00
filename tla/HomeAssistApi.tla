--------------------------- MODULE HomeAssistApi ---------------------------
(***************************************************************************)
(* The connection to Home Assistant: the Api that the main loop calls      *)
(* (Api.cpp, AuthSession.hpp, Session.cpp, ResponseHandler.cpp) over the   *)
(* client handles of the remote's web socket (esp32WebSocket.cpp).  A      *)
(* client, the network and the server are external: a client opens, hands  *)
(* messages to its own task, is closed, and opens again by itself.         *)
(* Handles that connect() replaces while they are still open are not       *)
(* destroyed by the code and go on calling the same handlers here.         *)
(***************************************************************************)
EXTENDS Naturals, Sequences, FiniteSets

CONSTANTS Rooms,        \* bounds: client handles that fit into the heap, and the
                        \* kinds of the sessions that are added, in order
          MaxFaults     \* bound: losses of Wi-Fi and connections, and events
ASSUME ApiAssumption ==
  /\ MaxFaults \in Nat
  /\ \A r \in Rooms : r.clients \in Nat \ {0} /\ r.kinds \in Seq({"watch", "command", "query"})

VARIABLES room,          \* the bounds of this behaviour, one of Rooms
          wifiUp, token,   \* Wi-Fi is up; the server takes the access token
          net,           \* the clients, each with the server's end of it
          client,        \* the handle, 0 for nullptr
          isConnected,   \* mIsConnected
          leftover,      \* mIncomingMessage has the text of a message that was cut off
          connection,        \* mConnectionStatus
          auth,          \* mAuthSession: none, or one that is new or sent
          retryDue,      \* five seconds have passed since mLastConnectRetry
          authDue,       \* three seconds have passed since mConnectionTime
          sessions,      \* mSessions
          nextId,        \* mNextRequestId
          queue,         \* mIncomingMessageQueue
          loop,          \* where the main loop is
          faults,        \* what has gone wrong so far, up to MaxFaults
          past           \* what happened, for the properties
socketVars == <<net, client, isConnected, leftover>>
apiVars == <<connection, auth, sessions, nextId, queue>>
timeVars == <<retryDue, authDue>>
envVars == <<room, wifiUp, token, faults>>
haVars == <<socketVars, apiVars, timeVars, envVars, loop, past>>

Clients == 1..room.clients
MaxSessions == Len(room.kinds)
Ids == 1..MaxSessions
Message(type, id) == [type |-> type, id |-> id]
Free == [state |-> "free", server |-> "none", inbox |-> << >>, last |-> 0]
Opening == [Free EXCEPT !.state = "opening"]
AddedSession(kind) ==   \* Light's handler has expired by the time it is used
  [kind |-> kind, request |-> TRUE, running |-> FALSE,
   listener |-> kind = "query"]
NoSession == [AddedSession("none") EXCEPT !.request = FALSE]

ApiInit ==
  /\ room \in Rooms
  /\ wifiUp \in BOOLEAN /\ token \in BOOLEAN /\ faults = 0
  /\ net = [c \in Clients |-> Free] /\ client = 0 /\ isConnected = FALSE /\ leftover = FALSE
  /\ connection = "Initializing" /\ auth = "none" /\ sessions = << >> /\ nextId = 1
  /\ queue = << >> /\ retryDue = FALSE /\ authDue = FALSE /\ loop = "construct"
  /\ past = [leaked |-> FALSE, refused |-> FALSE, reused |-> FALSE,
             hole |-> FALSE, unheard |-> FALSE, sent |-> [i \in Ids |-> 0]]

-----------------------------------------------------------------------------
(* The server's side of a client *)
Says(c, type) == [c EXCEPT !.inbox = Append(@, Message(type, 0))]
AnswerToken(c) ==
  CASE c.server = "asked" /\ token  -> [Says(c, "auth_ok") EXCEPT !.server = "authed"]
    [] c.server = "asked" /\ ~token -> [Says(c, "auth_invalid") EXCEPT !.server = "refused"]
    [] OTHER -> Says(c, "result")
AnswerRequests(c, ids) ==   \* nobody answers without having taken the token
  IF c.server # "authed" \/ ids = << >> THEN c
  ELSE [c EXCEPT !.inbox = @ \o [k \in DOMAIN ids |-> Message("result", ids[k])],
                 !.last = ids[Len(ids)]]

\* sendMessage: an open client takes the message, any other one fails
Reaches(n) == isConnected /\ client # 0 /\ n[client].state = "open"

\* A client that goes while it receives a message may leave what came of it in
\* mIncomingMessage, which nothing empties when the next client connects.
MayLeave(c) == leftover' \in IF net[c].inbox = << >> THEN {leftover} ELSE {leftover, TRUE}

Watched(c) == {i \in DOMAIN sessions : sessions[i].kind = "watch" /\ i <= c.last}

-----------------------------------------------------------------------------
(* connect, called by the main loop and by the handler of Wi-Fi's status *)
Dropped == client # 0 /\ ~isConnected          \* stopped and destroyed first
Kept == IF Dropped THEN 0 ELSE client
Stopped == IF Dropped THEN [net EXCEPT ![client] = Free] ELSE net
FreeClients == {c \in Clients : Stopped[c].state = "free"}

connect(up) ==         \* a client is made when Wi-Fi is up and the heap has room
  LET made == IF up THEN {c \in FreeClients : \A d \in FreeClients : c <= d} ELSE {}
  IN /\ net' = [c \in Clients |-> IF c \in made THEN Opening ELSE Stopped[c]]
     /\ client' = IF ~up THEN Kept ELSE IF made = {} THEN 0 ELSE CHOOSE c \in made : TRUE
     /\ past' = [past EXCEPT !.leaked = @ \/ (up /\ Kept # 0)]
     /\ IF Dropped THEN MayLeave(client) ELSE UNCHANGED leftover
     /\ UNCHANGED isConnected

AttemptConnection ==  \* a session that has sent its answer is replaced
  /\ retryDue' = FALSE /\ connect(wifiUp) /\ auth' = "new"
  /\ UNCHANGED authDue

Construct ==
  /\ loop = "construct" /\ loop' = "idle"
  /\ AttemptConnection
  /\ UNCHANGED <<connection, sessions, nextId, queue, envVars>>

-----------------------------------------------------------------------------
(* The main loop *)
Attempt ==            \* Process found the socket not connected
  /\ loop = "attempt" /\ loop' = "idle"
  /\ UNCHANGED <<connection, sessions, nextId, queue, envVars>>
  /\ IF connection = "Connected" \/ ~retryDue
       THEN UNCHANGED <<socketVars, auth, timeVars, past>>
       ELSE AttemptConnection

SendAuth(n) == IF Reaches(n) THEN [n EXCEPT ![client] = AnswerToken(@)] ELSE n
\* Seeded fault: sessions that nobody listens to are cleaned up, started or not
CleanUpUnheard == [i \in {k \in DOMAIN sessions : sessions[k].listener} |-> sessions[i]]

Cleaned == [i \in {k \in DOMAIN sessions : sessions[k] # NoSession} |-> sessions[i]]

Process ==            \* with CleanUpSessions
  /\ loop = "idle"
  /\ IF ~isConnected
       THEN loop' = "attempt" /\ UNCHANGED <<net, auth, sessions>>
       ELSE /\ loop' = "start" /\ sessions' = Cleaned
            /\ IF auth = "new" /\ authDue
                 THEN net' = SendAuth(net) /\ auth' = "sent"
                 ELSE UNCHANGED <<net, auth>>
  /\ UNCHANGED <<client, isConnected, leftover, connection, nextId, queue, timeVars, envVars, past>>

ToStart == {i \in DOMAIN sessions : ~sessions[i].running /\ sessions[i].request}
\* The requests are sent in the order of their ids
InOrder(ids) == {q \in [1..Cardinality(ids) -> ids] : \A j, k \in DOMAIN q : j < k => q[j] < q[k]}
StartedIn(n, ids) == IF Reaches(n) THEN [n EXCEPT ![client] = AnswerRequests(@, ids)] ELSE n
\* Seeded fault: the request is kept, to start the session again
KeepStartRequest(s) == [s EXCEPT !.running = ~isConnected]

GetStartRequest(s) == [s EXCEPT !.request = FALSE]

ProcessSessions ==
  /\ loop = "start" /\ loop' = IF queue = << >> THEN "idle" ELSE "messages"
  /\ past' = [past EXCEPT !.hole = @ \/ (connection = "Connected" /\ \E i \in DOMAIN sessions : sessions[i] = NoSession),
                          !.refused = @ \/ (connection = "Connected" /\ ToStart # {} /\ Reaches(net)
                                            /\ net[client].server # "authed"),
                          !.reused = @ \/ (connection = "Connected" /\ Reaches(net)
                                           /\ \E i \in ToStart : i <= net[client].last),
                          !.sent = [i \in Ids |-> IF connection = "Connected" /\ i \in ToStart THEN @[i] + 1 ELSE @[i]]]
  /\ IF connection = "Connected"
       THEN /\ \E ids \in InOrder(ToStart) : net' = StartedIn(net, ids)
            /\ sessions' = [i \in DOMAIN sessions |->
                 IF i \in ToStart THEN GetStartRequest([sessions[i] EXCEPT !.running = TRUE])
                                  ELSE sessions[i]]
       ELSE UNCHANGED <<net, sessions>>
  /\ UNCHANGED <<client, isConnected, leftover, connection, auth, nextId, queue, timeVars, envVars>>

Looked(id) == IF id \in DOMAIN sessions THEN sessions      \* mSessions[id]
              ELSE [i \in DOMAIN sessions \cup {id} |-> IF i = id THEN NoSession ELSE sessions[i]]

\* One turn of ProcessMessages, and its early return.  A session that is complete
\* is only marked so: nothing reads the mark, and the session stays in the map.
ProcessMessage ==
  /\ loop = "messages"
  /\ queue' = Tail(queue) /\ sessions' = Looked(Head(queue).id)
  /\ loop' = IF sessions'[Head(queue).id] = NoSession \/ queue' = << >> THEN "idle" ELSE loop
  /\ UNCHANGED <<socketVars, connection, auth, nextId, timeVars, envVars, past>>

AddSession ==         \* the UI runs in the main loop too
  /\ loop = "idle" /\ nextId <= MaxSessions
  /\ nextId' = nextId + 1
  /\ sessions' = [i \in DOMAIN sessions \cup {nextId} |->
                    IF i = nextId THEN AddedSession(room.kinds[nextId]) ELSE sessions[i]]
  /\ UNCHANGED <<socketVars, connection, auth, queue, timeVars, envVars, loop, past>>

CloseSessionPage(i) ==       \* the list of devices, the only listener, is closed
  /\ loop = "idle" /\ i \in DOMAIN sessions /\ sessions[i].listener
  /\ sessions' = [sessions EXCEPT ![i].listener = FALSE]
  /\ UNCHANGED <<socketVars, connection, auth, nextId, queue, timeVars, envVars, loop, past>>

-----------------------------------------------------------------------------
(* The task of a client: its events, in order *)
Opened(c) ==
  /\ net[c].state = "opening" /\ wifiUp
  /\ net' = [net EXCEPT ![c] = [@ EXCEPT !.state = "open", !.server = "asked",
                                         !.inbox = <<Message("auth_required", 0)>>, !.last = 0]]
  /\ authDue' = FALSE /\ isConnected' = TRUE
  /\ UNCHANGED <<client, leftover, apiVars, retryDue, envVars, loop, past>>

Disconnected ==
  /\ connection' = "Disconnected" /\ isConnected' = FALSE
  /\ UNCHANGED <<client, auth, sessions, nextId, queue, timeVars, room, wifiUp, token, loop, past>>

SocketClosed(c) ==          \* lost, or it could not be opened
  /\ net[c].state \in {"open", "opening"} /\ faults < MaxFaults /\ faults' = faults + 1
  /\ net' = [net EXCEPT ![c] = [Free EXCEPT !.state = "closed"]] /\ MayLeave(c)
  /\ Disconnected

\* What takes ten seconds finds the messages that came before handled
Quiet == queue = << >> /\ \A c \in Clients : net[c].inbox = << >>

ServerTimeout(c) ==   \* the server waits for the authentication, not for ever
  /\ net[c].state = "open" /\ net[c].server \in {"asked", "refused"} /\ Quiet
  /\ net' = [net EXCEPT ![c] = [Free EXCEPT !.state = "closed"]]
  /\ Disconnected /\ UNCHANGED <<leftover, faults>>

\* A client tries again by itself after ten seconds.  The main loop's own retry,
\* after five, has replaced its handle by then.
Reopening(c) ==
  /\ net[c].state = "closed" /\ wifiUp /\ Quiet
  /\ c = client => isConnected \/ connection = "Connected"
  /\ net' = [net EXCEPT ![c].state = "opening"]
  /\ UNCHANGED <<client, isConnected, leftover, apiVars, timeVars, envVars, loop, past>>

ServerEvent(c) ==     \* the entity of a subscription changes
  /\ net[c].state = "open" /\ faults < MaxFaults /\ faults' = faults + 1
  /\ \E i \in Watched(net[c]) : net' = [net EXCEPT ![c].inbox = Append(@, Message("event", i))]
  /\ UNCHANGED <<client, isConnected, leftover, apiVars, timeVars, room, wifiUp, token, loop, past>>

\* What comes is appended to the text that is left, and not heard.  Only a message in
\* several events can find the lengths equal on the way, and then the text is dropped.
Appended(c) ==
  /\ net[c].state = "open" /\ net[c].inbox # << >> /\ leftover
  /\ net' = [net EXCEPT ![c].inbox = Tail(@)] /\ leftover' \in BOOLEAN
  /\ past' = [past EXCEPT !.unheard = TRUE]
  /\ UNCHANGED <<client, isConnected, apiVars, timeVars, envVars, loop>>

IsPreferringChunkProcessing(s) == s.listener
Redirected(message) ==
  message.id # 0 /\ IsPreferringChunkProcessing(Looked(message.id)[message.id])

PreProcessMessage(n, message) ==    \* n is the network without the message
  CASE message.type = "auth_required" ->
         net' = SendAuth(n) /\ auth' = "sent" /\ UNCHANGED connection
    [] message.type = "auth_ok" ->
         net' = n /\ auth' = "none" /\ connection' = "Connected"
    [] OTHER -> net' = n /\ UNCHANGED <<auth, connection>>

ProcessResponseDoc(c) ==
  /\ net[c].state = "open" /\ net[c].inbox # << >> /\ ~leftover
  /\ LET message == Head(net[c].inbox)
         n == [net EXCEPT ![c].inbox = Tail(@)]
         forAuth == auth # "none" /\ message.type \in {"auth_required", "auth_ok", "auth_invalid"}
     IN /\ sessions' = IF message.id = 0 THEN sessions ELSE Looked(message.id)
        /\ IF forAuth THEN PreProcessMessage(n, message) /\ UNCHANGED queue
           ELSE /\ net' = n /\ UNCHANGED <<auth, connection>>
                /\ queue' = IF Redirected(message) THEN queue ELSE Append(queue, message)
  /\ UNCHANGED <<client, isConnected, leftover, nextId, timeVars, envVars, loop, past>>

-----------------------------------------------------------------------------
(* Wi-Fi and time *)
WifiStatus ==         \* every status that says connected opens a client
  /\ loop # "construct" /\ (wifiUp => faults < MaxFaults)
  /\ faults' = IF wifiUp THEN faults + 1 ELSE faults
  /\ wifiUp' = TRUE /\ connect(TRUE) /\ UNCHANGED <<room, token, apiVars, timeVars, loop>>

WifiLost ==
  /\ wifiUp /\ faults < MaxFaults /\ faults' = faults + 1
  /\ wifiUp' = FALSE
  /\ UNCHANGED <<room, token, socketVars, apiVars, timeVars, loop, past>>

Elapse ==             \* the times matter only while Process reads them
  /\ \/ ~isConnected /\ ~retryDue /\ retryDue' = TRUE /\ UNCHANGED authDue
     \/ isConnected /\ auth = "new" /\ ~authDue /\ authDue' = TRUE /\ UNCHANGED retryDue
  /\ UNCHANGED <<socketVars, apiVars, envVars, loop, past>>

ApiLoop == Construct \/ Process \/ Attempt \/ ProcessSessions \/ ProcessMessage
Page == AddSession \/ (\E i \in Ids : CloseSessionPage(i))
ClientTask(c) == ProcessResponseDoc(c) \/ Appended(c) \/ ServerTimeout(c)
Opens == \E c \in Clients : Opened(c)
Faults == WifiLost \/ \E c \in Clients : SocketClosed(c) \/ ServerEvent(c)
HaNext == \/ ApiLoop \/ Page \/ Faults \/ Opens \/ WifiStatus \/ Elapse
          \/ \E c \in Clients : ClientTask(c) \/ Reopening(c)
HaSpec ==
  /\ ApiInit /\ [][HaNext]_haVars
  /\ WF_haVars(ApiLoop) /\ WF_haVars(Elapse) /\ WF_haVars(WifiStatus /\ ~wifiUp)
  /\ WF_haVars(\E c \in Clients : ClientTask(c)) /\ SF_haVars(Opens)
  /\ WF_haVars(\E c \in Clients : Reopening(c))

-----------------------------------------------------------------------------
ApiTypeOK ==
  /\ wifiUp \in BOOLEAN /\ token \in BOOLEAN /\ faults \in 0..MaxFaults
  /\ client \in 0..room.clients /\ isConnected \in BOOLEAN /\ leftover \in BOOLEAN
  /\ \A c \in Clients :
       /\ net[c].state \in {"free", "opening", "open", "closed"}
       /\ net[c].server \in {"none", "asked", "authed", "refused"}
       /\ net[c].last \in 0..MaxSessions
       /\ \A k \in DOMAIN net[c].inbox : net[c].inbox[k].id \in 0..MaxSessions
  /\ connection \in {"Initializing", "Connected", "Disconnected"} /\ auth \in {"none", "new", "sent"}
  /\ retryDue \in BOOLEAN /\ authDue \in BOOLEAN /\ nextId \in 1..MaxSessions + 1
  /\ DOMAIN sessions \in SUBSET (0..nextId - 1)
  /\ loop \in {"construct", "idle", "attempt", "start", "messages"}

\* The loop that starts the sessions dereferences every entry of the map: an
\* id that was only looked up (Api.cpp:98) is gone before it gets there.
NoHole == ~past.hole

\* While one client is used at a time, a request only goes to a server that
\* has taken the token; after a handle was lost it may go to another one.
AskedWhenAuthed == past.refused => past.leaked

\* On a connection the ids of the requests increase, which the server demands.
IdsIncrease == ~past.reused

\* A request is handed to the socket at most once, however often connections
\* are lost and made again: a light is never toggled twice for one key.
HandedOnce == \A i \in Ids : past.sent[i] <= 1

Ready == /\ client # 0 /\ net[client].state = "open" /\ net[client].server = "authed"
         /\ isConnected /\ connection = "Connected"

\* What is not made good: a handle was lost, or a message was not heard because the text
\* of one that was cut off was still there.
Hindered == past.leaked \/ past.unheard

\* With the right token the remote ends up authenticated on the client it sends
\* to, whatever was lost before, unless it was hindered.
ComesUp == token => <>[](Ready \/ Hindered)

\* Every session that was added is started in the end, unless that was hindered.
SessionStarted == token => []<>(Hindered \/ \A i \in 1..nextId-1 : past.sent[i] = 1)

\* With a token that is refused nothing is ever asked of the server.
RefusedStaysOut == ~token => \A i \in Ids : past.sent[i] = 0

\* Over connections that are lost, refused and made again, requests go out once, in the
\* order of their ids, to a server that took the token, and the loop never meets a hole
\* in the map.
ApiSafe ==
  ApiTypeOK /\ NoHole /\ AskedWhenAuthed /\ IdsIncrease /\ HandedOnce /\ RefusedStaysOut

\* With the right token the connection comes up and every session is started, over lost
\* Wi-Fi and connections, as long as no message was cut off and no handle lost.
ApiComesUp == ComesUp /\ SessionStarted
============================================================================
