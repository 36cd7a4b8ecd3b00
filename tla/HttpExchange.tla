------------------------------ MODULE HttpExchange ------------------------------
(***************************************************************************)
(* One request on the wire: executeSyncRequest and its callbacks, of the   *)
(* remote (Esp32HttpClient.cpp, on esp_http_client) and of the simulator   *)
(* (CurlHttpClient.cpp, on libcurl).  HttpPool and CurlHttpClient take     *)
(* this as one step; here the server answers line by line and piece by     *)
(* piece, sends the client elsewhere, or falls silent until the timeout.   *)
(*                                                                         *)
(* The two differ: the remote follows redirections, goes by the library's  *)
(* error, keeps the last of repeated headers and drops a body that comes   *)
(* in chunks; the simulator follows none, goes by the status line alone,   *)
(* keeps the first header and the whole body.                              *)
(***************************************************************************)
EXTENDS Integers, Sequences

CONSTANTS
  HeaderNames,
  Statuses,      \* that the server answers with; 302 points elsewhere
  NoResponse,    \* nothing has been answered yet
  NoRequest,     \* the server has no request to answer
  MaxHeaders, MaxPieces,  \* bounds: of one answer
  MaxRedirects,  \* bound: the library's own, 10 by default
  MaxExchanges   \* bound: requests, one after the other

VARIABLES
  side,          \* which of the two clients this is
  phase,         \* "idle", "sent", "head", "body", "over"
  wire,          \* the request, until the server has read it
  said,          \* history: the answer that the server is giving
  collected,     \* HttpEventData, or response_headers and response_body
  response,      \* the HttpResponse
  redirects,     \* redirections so far
  done           \* exchanges so far

exVars == <<side, phase, wire, said, collected, response, redirects, done>>

(***************************************************************************)
(* The requests: a key of the Roku, and the HTTP actions of the JSON       *)
(* files, which know three methods and take every other one for GET.       *)
(***************************************************************************)
sendKeyPress == [method |-> "POST", body |-> ""]

ActionMethod(text) == IF text \in {"POST", "PUT", "DELETE"} THEN text ELSE "GET"

HttpActions == {[method |-> ActionMethod(text), body |-> b] :
                  text \in {"POST", "PUT", "DELETE", "PATCH"}, b \in {"", "text"}}

\* getAsync, postAsync, putAsync and deleteAsync (default headers are kept, and sent by nobody)
Convenience == {[method |-> m, body |-> ""] : m \in {"GET", "DELETE"}}
                 \union {[method |-> m, body |-> "text"] : m \in {"POST", "PUT"}}

HttpRequests == HttpActions \union Convenience \union {sendKeyPress}

\* what esp_http_client is told: a body only when there is one
methodToEspMethod(request) == [verb |-> request.method, body |-> request.body]

\* libcurl sends the body of a POST or PUT, and does not look at that of a GET or DELETE
CurlMethod(request) ==
  [verb |-> request.method, body |-> IF request.method \in {"POST", "PUT"} THEN request.body ELSE ""]

Wire(request) ==
  IF side = "remote" THEN methodToEspMethod(request) ELSE CurlMethod(request)

-----------------------------------------------------------------------------
(* The callbacks *)
Empty  == [headers |-> << >>, body |-> << >>]
Silent == [code |-> 0, headers |-> 0, chunked |-> FALSE, body |-> << >>, whole |-> FALSE]

Put(map, name, value) == [n \in DOMAIN map \union {name} |-> IF n = name THEN value ELSE map[n]]

\* HTTP_EVENT_ON_HEADER assigns, HeaderCallback emplaces
ParseHeader(map, name, value) ==
  IF side = "simulator" /\ name \in DOMAIN map THEN map ELSE Put(map, name, value)

\* HTTP_EVENT_ON_DATA, and WriteCallback
AppendData(body, piece) ==
  IF side = "remote" /\ said.chunked THEN body ELSE Append(body, piece)

(***************************************************************************)
(* The response, when the library has returned with or without an error.   *)
(***************************************************************************)
Success(code) == code \in 200 .. 299

Failed == [code |-> -1, body |-> << >>, headers |-> << >>, success |-> FALSE, error |-> TRUE]

Answered == [code |-> said.code, body |-> collected.body, headers |-> collected.headers,
             success |-> Success(said.code), error |-> FALSE]

Response(ok) == IF side = "remote" /\ ~ok THEN Failed ELSE Answered

-----------------------------------------------------------------------------
ExInit ==
  /\ side \in {"remote", "simulator"}
  /\ phase = "idle" /\ wire = NoRequest /\ said = Silent /\ collected = Empty
  /\ response = NoResponse /\ redirects = 0 /\ done = 0

Begins(next) ==
  /\ phase = "idle" /\ done < MaxExchanges
  /\ phase' = next /\ done' = done + 1 /\ said' = Silent /\ redirects' = 0
  /\ UNCHANGED side

\* the library cannot be set up: nothing is sent
InitFails ==
  /\ Begins("over") /\ response' = Failed /\ collected' = Empty /\ UNCHANGED wire

\* a plausible slip: what was collected is kept from one request to the next
PerformUncleared(request) ==
  /\ Begins("sent") /\ wire' = Wire(request) /\ response' = NoResponse /\ UNCHANGED collected

PerformRequest(request) ==
  /\ Begins("sent") /\ wire' = Wire(request) /\ response' = NoResponse /\ collected' = Empty

StatusLine(code, chunked) ==
  /\ phase = "sent" /\ phase' = "head" /\ wire' = NoRequest
  /\ said' = [Silent EXCEPT !.code = code, !.chunked = chunked]
  /\ UNCHANGED <<side, collected, response, redirects, done>>

\* values and pieces are told apart by their place
HeaderLine(name) ==
  /\ phase = "head" /\ said.headers < MaxHeaders
  /\ said' = [said EXCEPT !.headers = @ + 1]
  /\ collected' = [collected EXCEPT !.headers = ParseHeader(@, name, said.headers + 1)]
  /\ UNCHANGED <<side, phase, wire, response, redirects, done>>

Data ==
  /\ phase \in {"head", "body"} /\ Len(said.body) < MaxPieces
  /\ LET piece == Len(said.body) + 1 IN
       /\ said' = [said EXCEPT !.body = Append(@, piece)]
       /\ collected' = [collected EXCEPT !.body = AppendData(@, piece)]
  /\ phase' = "body"
  /\ UNCHANGED <<side, wire, response, redirects, done>>

\* esp_http_client goes where the answer points, with the same user_data
PointsElsewhere == side = "remote" /\ said.code = 302

Redirect ==
  /\ PointsElsewhere /\ phase \in {"head", "body"} /\ redirects < MaxRedirects
  /\ redirects' = redirects + 1 /\ phase' = "sent" /\ said' = Silent
  /\ UNCHANGED <<side, wire, collected, response, done>>

\* perform has returned
Return(ok) ==
  /\ phase' = "over" /\ response' = Response(ok) /\ wire' = NoRequest
  /\ said' = [said EXCEPT !.whole = ok]
  /\ UNCHANGED <<side, collected, redirects, done>>

Complete == phase \in {"head", "body"} /\ ~PointsElsewhere /\ Return(TRUE)

\* the timeout, a refused or broken connection, too many redirections
BreakDown == phase \in {"sent", "head", "body"} /\ Return(FALSE)

\* the worker takes its next request
TakeNext ==
  /\ phase = "over" /\ phase' = "idle"
  /\ UNCHANGED <<side, wire, said, collected, response, redirects, done>>

ExNext ==
  \/ InitFails \/ Data \/ Redirect \/ Complete \/ BreakDown \/ TakeNext
  \/ \E r \in HttpRequests : PerformRequest(r)
  \/ \E code \in Statuses, chunked \in BOOLEAN : StatusLine(code, chunked)
  \/ \E name \in HeaderNames : HeaderLine(name)

ExSpec == ExInit /\ [][ExNext]_exVars

-----------------------------------------------------------------------------
(* Properties *)

\* A response that says it succeeded was given with a status of success in the answer to this
\* very request, not to the redirection before it or to an earlier request; on the remote it is
\* also whole (the error of esp_http_client_perform is looked at before the status).
SuccessIsEarned ==
  phase = "over" /\ response.success => Success(said.code) /\ (side = "remote" => said.whole)

\* Unless it was redirected or came in chunks, the body of a successful response is what the
\* server sent for this request, all its pieces in order and nothing left of another request.
BodyIsTheServers ==
  phase = "over" /\ response.success /\ redirects = 0 /\ ~(side = "remote" /\ said.chunked)
    => response.body = said.body

\* Whatever the servers do, what a response says of success and the body it holds come
\* from the answer to its own request.
ResponseIsHonest == SuccessIsEarned /\ BodyIsTheServers
===============================================================================
