---------------------------- MODULE CurlHttpClient ----------------------------
(***************************************************************************)
(* The HTTP client of the simulator (CurlHttpClient.cpp): the interface of *)
(* HttpPool, with threads instead of tasks, one queue instead of two, and  *)
(* a destructor that joins the threads.  The queue keeps a weak pointer to *)
(* the promise, and executeAsync the only strong one, which ends with the  *)
(* call: from then on nobody can set the value, and the future is broken.  *)
(* A critical section of mQueueMutex is an action; libcurl is external.    *)
(***************************************************************************)
EXTENDS Naturals, Sequences, FiniteSets

CONSTANTS Calls,        \* of executeAsync
          Methods,      \* that the callers use
          Threads       \* mWorkerThreads
ASSUME CurlAssumption == IsFiniteSet(Calls) /\ IsFiniteSet(Threads) /\ Threads # {}

VARIABLES call,         \* per call: where it is
          asked,        \* per call: its request, once it is made
          mRequestQueue,
          thread,       \* per thread: where it is and for which call
          result,       \* per call: what its future holds
          seen,         \* history: what the server was sent, per call
          owner         \* of the client: "open", "flagged", "joining", "closed"
curlVars == <<call, asked, mRequestQueue, thread, result, seen, owner>>

mShutdownRequested == owner # "open"
In(places) == {t \in Threads : thread[t].at \in places}
Idle == [at |-> "check"]
Go(t, state) == thread' = [thread EXCEPT ![t] = state]

CurlInit ==             \* the constructor starts the threads
  /\ call = [c \in Calls |-> "new"] /\ asked = [c \in Calls |-> << >>]
  /\ mRequestQueue = << >> /\ thread = [t \in Threads |-> Idle]
  /\ result = [c \in Calls |-> "pending"] /\ seen = [c \in Calls |-> << >>]
  /\ owner = "open"

-----------------------------------------------------------------------------
(* A request, from the call to the wire *)
Bodies == {"", "text"}
Asks ==                 \* getAsync, postAsync, putAsync, deleteAsync
  [method : Methods, body : {""}] \cup [method : Methods \cap {"POST", "PUT"}, body : Bodies]

SetupMethodOptions(request) ==
  [verb |-> request.method,
   fields |-> IF request.method = "POST" \/ request.body # "" THEN request.body ELSE "unset"]

\* libcurl sends a POST of unknown length in chunks, after asking the server whether to go on
OnTheWire(options) ==
  [verb |-> options.verb,
   body |-> IF options.fields # "unset" THEN options.fields
            ELSE IF options.verb = "POST" THEN "chunked" ELSE ""]

-----------------------------------------------------------------------------
(* executeAsync *)
ExecuteAsync(c, request) ==
  /\ owner = "open" /\ call[c] = "new"
  /\ call' = [call EXCEPT ![c] = "queued"] /\ asked' = [asked EXCEPT ![c] = request]
  /\ mRequestQueue' = Append(mRequestQueue, c)
  /\ UNCHANGED <<thread, result, seen, owner>>

\* Seeded fault: it notifies when the queue was empty before
WakeFirst(c) ==
  /\ call[c] = "queued" /\ call' = [call EXCEPT ![c] = "notified"]
  /\ IF In({"waiting"}) = {} \/ Len(mRequestQueue) # 1 THEN UNCHANGED thread
     ELSE \E t \in In({"waiting"}) : Go(t, Idle)
  /\ UNCHANGED <<asked, mRequestQueue, result, seen, owner>>

WakeOne(c) ==           \* notify_one
  /\ call[c] = "queued" /\ call' = [call EXCEPT ![c] = "notified"]
  /\ IF In({"waiting"}) = {} THEN UNCHANGED thread
     ELSE \E t \in In({"waiting"}) : Go(t, Idle)
  /\ UNCHANGED <<asked, mRequestQueue, result, seen, owner>>

HoldsPromise(c) == \E t \in In({"setting"}) : thread[t].call = c
ReturnFuture(c) ==      \* and the strong pointer ends
  /\ call[c] = "notified" /\ call' = [call EXCEPT ![c] = "returned"]
  /\ result' = IF result[c] = "pending" /\ ~HoldsPromise(c)
                 THEN [result EXCEPT ![c] = "broken"] ELSE result
  /\ UNCHANGED <<asked, mRequestQueue, thread, seen, owner>>

-----------------------------------------------------------------------------
(* workerThread *)
Sleep(t) ==
  /\ thread[t].at = "check" /\ mRequestQueue = << >> /\ ~mShutdownRequested
  /\ Go(t, [at |-> "waiting"]) /\ UNCHANGED <<call, asked, mRequestQueue, result, seen, owner>>

Quit(t) ==
  /\ thread[t].at = "check" /\ mRequestQueue = << >> /\ mShutdownRequested
  /\ Go(t, [at |-> "done"]) /\ UNCHANGED <<call, asked, mRequestQueue, result, seen, owner>>

TakeRequest(t) ==
  /\ thread[t].at = "check" /\ mRequestQueue # << >>
  /\ Go(t, [at |-> "performing", call |-> Head(mRequestQueue)])
  /\ mRequestQueue' = Tail(mRequestQueue) /\ UNCHANGED <<call, asked, result, seen, owner>>

ExecuteSyncRequest(t) ==        \* outside the lock; ends by its timeout at the latest
  /\ thread[t].at = "performing"
  /\ seen' = [seen EXCEPT ![thread[t].call] =
                Append(@, OnTheWire(SetupMethodOptions(asked[thread[t].call])))]
  /\ Go(t, [thread[t] EXCEPT !.at = "answered"])
  /\ UNCHANGED <<call, asked, mRequestQueue, result, owner>>

LockPromise(t) ==
  /\ thread[t].at = "answered"
  /\ Go(t, IF call[thread[t].call] = "returned" THEN Idle ELSE [thread[t] EXCEPT !.at = "setting"])
  /\ UNCHANGED <<call, asked, mRequestQueue, result, seen, owner>>

SetValue(t) ==
  /\ thread[t].at = "setting"
  /\ result' = [result EXCEPT ![thread[t].call] = "answer"] /\ Go(t, Idle)
  /\ UNCHANGED <<call, asked, mRequestQueue, seen, owner>>

WokenForNothing(t) ==
  /\ thread[t].at = "waiting" /\ Go(t, Idle)
  /\ UNCHANGED <<call, asked, mRequestQueue, result, seen, owner>>

-----------------------------------------------------------------------------
(* The destructor, when the last owner lets go of the client *)
ShutDown ==
  /\ owner = "open" /\ \A c \in Calls : call[c] \in {"new", "returned"}
  /\ owner' = "flagged" /\ UNCHANGED <<call, asked, mRequestQueue, thread, result, seen>>

WakeAll ==
  /\ owner = "flagged" /\ owner' = "joining"
  /\ thread' = [t \in Threads |-> IF thread[t].at = "waiting" THEN Idle ELSE thread[t]]
  /\ UNCHANGED <<call, asked, mRequestQueue, result, seen>>

Join ==
  /\ owner = "joining" /\ In({"done"}) = Threads
  /\ owner' = "closed" /\ UNCHANGED <<call, asked, mRequestQueue, thread, result, seen>>

CallStep(c) == WakeOne(c) \/ ReturnFuture(c)
ThreadStep(t) ==
  \/ Sleep(t) \/ Quit(t) \/ TakeRequest(t)
  \/ ExecuteSyncRequest(t) \/ LockPromise(t) \/ SetValue(t)
CurlNext ==
  \/ \E c \in Calls : CallStep(c) \/ \E request \in Asks : ExecuteAsync(c, request)
  \/ \E t \in Threads : ThreadStep(t) \/ WokenForNothing(t)
  \/ ShutDown \/ WakeAll \/ Join
CurlSpec == CurlInit /\ [][CurlNext]_curlVars

-----------------------------------------------------------------------------
\* The server sees what was asked, at most once per call, with a length it knows in
\* advance; and once the client is gone, it has seen every request that was queued
\* (CurlHttpClient.cpp:161-172, 251-263).
ServerSeesEachOnce ==
  \A c \in Calls :
    /\ \/ seen[c] = << >>
       \/ seen[c] = <<[verb |-> asked[c].method, body |-> asked[c].body]>>
    /\ owner = "closed" /\ call[c] # "new" => seen[c] # << >>

\* While a thread waits on the condition variable, every queued request has a thread on
\* its way to the queue or a notification to come, and no thread waits through the
\* shutdown (81-85, 141-145, 161).
NoThreadForgotten ==
  In({"waiting"}) # {} =>
    /\ Len(mRequestQueue) <= Cardinality(In({"check"})) + Cardinality({c \in Calls : call[c] = "queued"})
    /\ owner \in {"open", "flagged"}

\* The destructor comes to its end: threads that were woken serve what is queued, and
\* are joined (145-152).
DestructorEnds == owner = "flagged" ~> owner = "closed"

\* HttpTypes.hpp:111-113, of get(): "Block and get the response (synchronous) ... @return
\* The response when ready".
GetReturnsResponse == \A c \in Calls : result[c] # "broken"

\* However calls, threads and the destructor take turns, every request is sent once and
\* as it was asked, and no thread is left waiting (78-88, 140-192).
CurlSafe == ServerSeesEachOnce /\ NoThreadForgotten
=============================================================================
