------------------------ MODULE HomeAssistMessages ------------------------
(***************************************************************************)
(* What becomes of the data that comes over the web socket: the events of  *)
(* the client library, each with a part of a message, are gathered into a  *)
(* document or parsed part by part (esp32WebSocket.cpp, and                *)
(* webSocketSimulator.cpp in the simulator), by IProcessMessage.cpp and    *)
(* ChunkForwarder.cpp, and the list of devices (DeviceList.cpp) shows the  *)
(* entities the parser finds.  A message is a sequence of tokens, and one  *)
(* token stands for its bytes; the parser fails where a token of another   *)
(* message follows.                                                        *)
(***************************************************************************)
EXTENDS Naturals, Sequences, SequencesExt, FiniteSetsExt

CONSTANTS Messages,     \* what the server sends: [query, tokens], in order
          PartSize,     \* tokens in one event, and in a chunk of the simulator
          BufferSizes   \* a tenth of the heap, whenever it is looked at
ASSUME MessagesAssumption ==
  /\ Messages \in Seq([query : BOOLEAN, tokens : Seq({"id", "entity", "other"}) \ {<< >>}])
  /\ PartSize \in Nat \ {0} /\ BufferSizes \subseteq Nat \ {0}

VARIABLES simulator,     \* which of the two sockets it is
          wire,          \* the message being received and how much of it came
          mIncomingMessage, mPartialProcessingFailed,
          chunks,        \* IProcessMessage: total, offset, buffer, max, and what
                         \* the reader has taken since it was begun
          mProcessor,    \* the forwarder has the page's processor
          listPage,      \* DeviceList
          later,         \* its tasks in LvglResourceManager's queue
          heard          \* the messages handled, for the properties
msgVars == <<simulator, wire, mIncomingMessage, mPartialProcessingFailed, chunks,
             mProcessor, listPage, later, heard>>

Length(m) == Len(Messages[m].tokens)
Part(m, from, to) == [k \in 1..(to - from) |-> <<m, from + k>>]
Token(u) == Messages[u[1]].tokens[u[2]]
Whole(units) == units # << >> /\ units = Part(units[1][1], 0, Length(units[1][1]))
Entities(units) == SelectSeq(units, LAMBDA u : Token(u) = "entity")
NoChunks == [total |-> 0, offset |-> 0, buffer |-> << >>, max |-> 0, reader |-> << >>]

MsgInit ==
  /\ simulator \in BOOLEAN /\ wire \in [msg : {1}, off : {0}, big : BOOLEAN]
  /\ mIncomingMessage = << >> /\ mPartialProcessingFailed = FALSE
  /\ chunks = NoChunks /\ mProcessor = FALSE
  /\ listPage = [open |-> TRUE, stored |-> << >>, percent |-> 0, shown |-> FALSE]
  /\ later = << >>
  /\ heard = [docs |-> << >>, parsed |-> << >>, cut |-> 0, overrun |-> FALSE]

-----------------------------------------------------------------------------
(* IProcessMessage::ProcessChunk: the new state, its result and the units   *)
(* the parser has handed on                                                 *)
ChunksBegun(c, total) == IF c.total = 0 THEN [c EXCEPT !.total = total, !.reader = << >>] ELSE c

\* Seeded fault: the last chunk of a message is like any other
IsChunkBufferToSmallAlways(c, b) == b = 0 \/ 2 * b < c.max

IsChunkBufferToSmall(c, b) ==     \* with b units left
  \/ b = 0
  \/ 2 * b < c.max /\ c.offset + Len(c.buffer) # c.total

\* The parser takes a unit when it continues what it has read
Continues(c, k) ==
  LET u == c.buffer[k] n == Len(c.reader) + k - 1
      prior == IF k > 1 THEN c.buffer[k-1] ELSE Last(c.reader)
  IN IF n = 0 THEN u[2] = 1 ELSE u = <<prior[1], prior[2] + 1>>
Complete(c, k) ==     \* after k units of the buffer
  LET read == c.reader \o SubSeq(c.buffer, 1, k) IN Whole(read)
Stops(c, k) == \/ Complete(c, k)
               \/ IsChunkBufferToSmall(c, Len(c.buffer) - k)
               \/ ~Continues(c, k + 1)
Parsed(c) == {k \in 0..Len(c.buffer) : Stops(c, k) /\ \A j \in 0..(k-1) : ~Stops(c, j)}

EndChunkProcessing(c) == [NoChunks EXCEPT !.max = c.max]

Refused(c, part, total) ==    \* and the message in work stays in work
  IF c.total # total THEN {"size"}
  ELSE IF Len(c.buffer) + Len(part) > c.max THEN {"memory"} ELSE {}
ProcessChunk(c, k) ==         \* with k units parsed
  LET read == SubSeq(c.buffer, 1, k)
      result(what, state) == [state |-> state, result |-> what, read |-> read, at |-> c.offset + k]
  IN IF Complete(c, k) THEN result("finished", EndChunkProcessing(c))
     ELSE IF IsChunkBufferToSmall(c, Len(c.buffer) - k)
     THEN result("waiting", [c EXCEPT !.buffer = SubSeq(@, k + 1, Len(@)), !.offset = @ + k,
                                      !.reader = @ \o read])
     ELSE result("error", EndChunkProcessing(c))

-----------------------------------------------------------------------------
(* What the parser hands on goes to the page's processor, if the page is    *)
(* open and the id of the message was that of its query                     *)
Forwards(read) ==     \* Uint after the key "id" chooses the processor
  mProcessor \/ \E k \in DOMAIN read : Token(read[k]) = "id" /\ Messages[read[k][1]].query /\ listPage.open
Handed(read) ==       \* a weak pointer: every other token is passed on while the page is there
  Forwards(read) /\ listPage.open
Progress(r, m) ==
  IF r.read = << >> THEN << >> ELSE <<[kind |-> "percent", at |-> r.at, of |-> Length(m)]>>
Reported(r, m) == IF r.result \in {"finished", "error"} THEN <<[kind |-> r.result, at |-> r.at, of |-> Length(m)]>> ELSE << >>
StoreEntities(read) == [listPage EXCEPT !.stored = @ \o Entities(read)]

ChunkRefused(c, part, m) ==
  \E why \in Refused(c, part, Length(m)) :
    /\ chunks' = c /\ mPartialProcessingFailed' = TRUE
    /\ heard' = [heard EXCEPT !.overrun = @ \/ why = "memory"]
    /\ UNCHANGED <<mProcessor, listPage, later>>

ChunkParsed(c, m) ==
  \E k \in Parsed(c) : \E r \in {ProcessChunk(c, k)} :
       /\ chunks' = r.state
       /\ mPartialProcessingFailed' = (r.result = "error")
       /\ listPage' = IF Handed(r.read) THEN StoreEntities(r.read) ELSE listPage
       /\ mProcessor' = Forwards(r.read)
       /\ later' = IF Handed(r.read) THEN later \o Progress(r, m) \o Reported(r, m) ELSE later
       /\ heard' = IF r.result = "finished" THEN [heard EXCEPT !.parsed = Append(@, m)] ELSE heard

Partial(m, part, start) ==
  \E max \in IF start THEN BufferSizes ELSE {chunks.max} :
    \E c \in {ChunksBegun([chunks EXCEPT !.max = max], Length(m))} :
      \/ ChunkRefused(c, part, m)
      \/ /\ Refused(c, part, Length(m)) = {}
         /\ \E full \in {[c EXCEPT !.buffer = @ \o part]} : ChunkParsed(full, m)

-----------------------------------------------------------------------------
(* esp32WebSocket::proccessEventData *)
inMemory(m) == ~wire.big
NextStep(m, start, whole) ==
  LET gathering == mIncomingMessage # << >>
  IN IF whole /\ ~gathering THEN "Append"
     ELSE IF start /\ ~whole THEN (IF inMemory(m) THEN "Append" ELSE "Partial")
     ELSE IF ~start /\ ~gathering /\ ~mPartialProcessingFailed THEN "Partial"
     ELSE IF gathering THEN "Append" ELSE "Drop"
\* The simulator has the whole message, and goes on after a chunk that failed
StepOf(m, start, whole) ==
  IF ~simulator THEN NextStep(m, start, whole) ELSE IF inMemory(m) THEN "Append" ELSE "Partial"
\* A document: an answer the open page prefers in chunks is walked through, but
\* only the parser of chunks tells its processor that it is done.
ProcessResponse(units) ==
  LET m == units[1][1]
      walked == Messages[m].query /\ listPage.open
  IN /\ listPage' = IF walked THEN StoreEntities(units) ELSE listPage
     /\ heard' = [heard EXCEPT !.docs = Append(@, m)]

Gathered(units, m) ==     \* processStoredMessage when the length is that of m
  /\ mIncomingMessage' = IF Len(units) = Length(m) THEN << >> ELSE units
  /\ IF Len(units) = Length(m) /\ Whole(units) THEN ProcessResponse(units)
     ELSE UNCHANGED <<listPage, heard>>

DataEvent ==
  /\ wire.msg \in DOMAIN Messages
  /\ LET m == wire.msg
         to == Min({wire.off + PartSize, Length(m)})
         part == Part(m, wire.off, to)
         start == wire.off = 0
         whole == start /\ to = Length(m)
         step == StepOf(m, start, whole)
         started == IF start THEN FALSE ELSE mPartialProcessingFailed
     IN /\ CASE step = "Append" ->
                  /\ Gathered(mIncomingMessage \o part, m)
                  /\ mPartialProcessingFailed' = started
                  /\ UNCHANGED <<chunks, mProcessor, later>>
             [] step = "Partial" /\ Len(mIncomingMessage) # Length(m) ->
                  Partial(m, part, start) /\ UNCHANGED mIncomingMessage
             [] step = "Partial" /\ Len(mIncomingMessage) = Length(m) ->
                  Partial(m, part, start) /\ mIncomingMessage' = << >>
             [] OTHER ->
                  /\ mPartialProcessingFailed' = started
                  /\ UNCHANGED <<mIncomingMessage, chunks, mProcessor, listPage, later, heard>>
        /\ IF to < Length(m) THEN wire' = [wire EXCEPT !.off = to]
           ELSE \E big \in BOOLEAN : wire' = [msg |-> m + 1, off |-> 0, big |-> big]
  /\ UNCHANGED simulator

ConnectionLost ==     \* the rest of the message never comes
  /\ ~simulator /\ wire.off > 0 /\ heard.cut = 0
  /\ \E big \in BOOLEAN : wire' = [msg |-> wire.msg + 1, off |-> 0, big |-> big]
  /\ heard' = [heard EXCEPT !.cut = wire.msg]
  /\ UNCHANGED <<simulator, mIncomingMessage, mPartialProcessingFailed, chunks, mProcessor, listPage, later>>

-----------------------------------------------------------------------------
(* The page *)
TasksPerRefresh == 5
RunLater ==           \* LvglResourceManager::HandleQueuedTasks
  /\ later # << >>
  /\ LET n == Min({TasksPerRefresh, Len(later)})
         percents == {k \in 1..n : later[k].kind = "percent"}
     IN /\ later' = SubSeq(later, n + 1, Len(later))
        /\ listPage' = [listPage EXCEPT
             !.percent = IF listPage.open /\ percents # {} THEN later[Max(percents)].at ELSE @,
             !.shown = @ \/ (listPage.open /\ \E k \in 1..n : later[k].kind = "finished")]
  /\ UNCHANGED <<simulator, wire, mIncomingMessage, mPartialProcessingFailed, chunks, mProcessor, heard>>

CloseList ==          \* its processor goes with it
  /\ listPage.open
  /\ listPage' = [listPage EXCEPT !.open = FALSE] /\ mProcessor' = FALSE
  /\ UNCHANGED <<simulator, wire, mIncomingMessage, mPartialProcessingFailed, chunks, later, heard>>

MsgNext == DataEvent \/ ConnectionLost \/ RunLater \/ CloseList
MsgSpec == MsgInit /\ [][MsgNext]_msgVars /\ WF_msgVars(DataEvent) /\ WF_msgVars(RunLater)

-----------------------------------------------------------------------------
MessagesTypeOK ==
  /\ simulator \in BOOLEAN /\ mPartialProcessingFailed \in BOOLEAN
  /\ wire.msg \in 1..Len(Messages) + 1 /\ wire.big \in BOOLEAN
  /\ wire.off \in 0..(IF wire.msg \in DOMAIN Messages THEN Length(wire.msg) - 1 ELSE 0)
  /\ chunks.total \in Nat /\ chunks.offset \in 0..chunks.total
  /\ chunks.max \in BufferSizes \cup {0}
  /\ listPage.open \in BOOLEAN /\ listPage.shown \in BOOLEAN /\ listPage.percent \in Nat
  /\ mProcessor => listPage.open

\* What is handled as a message is one that came whole, each of them at most
\* once and in order: the rest of a message that was cut off is never taken for
\* a part of another one.
WholeOnly ==
  /\ \A s \in {heard.docs, heard.parsed} :
       /\ \A j, k \in DOMAIN s : j < k => s[j] < s[k]
       /\ heard.cut \notin ToSet(s)
  /\ ToSet(heard.docs) \cap ToSet(heard.parsed) = {}

\* Until a message is cut off or a chunk does not fit, every message is handled,
\* whatever the heap was: as a document or by the parser of chunks.
AllHandled ==
  (heard.cut = 0 /\ ~heard.overrun) =>
    \A m \in 1..(wire.msg - 1) : m \in ToSet(heard.docs) \cup ToSet(heard.parsed)

\* The progress the page is told never goes beyond the message.
PercentOK == \A k \in DOMAIN later : later[k].at <= later[k].of

\* The list that is shown is the whole list, unless a message was cut off or did
\* not fit before.
ListWhole ==
  listPage.shown /\ heard.cut = 0 /\ ~heard.overrun =>
    \E m \in ToSet(heard.parsed) : listPage.stored = Entities(Part(m, 0, Length(m)))

\* An answer that was parsed in chunks is shown, if the page stays open.
ListShown ==
  (\E m \in ToSet(heard.parsed) : Messages[m].query) ~> (listPage.shown \/ ~listPage.open)

\* What is handled is whole, in order, once, and all of it, and progress stays
\* within its message.
MessagesSafe == MessagesTypeOK /\ WholeOnly /\ AllHandled /\ PercentOK

\* What is shown is the list as the server sent it, and it comes to be shown.
ListArrives == []ListWhole /\ ListShown
============================================================================
