------------------------------- MODULE HttpPool -------------------------------
(***************************************************************************)
(* The asynchronous HTTP client of the device                              *)
(* (lib/esp32HalImpl/wifiHandler/Esp32HttpClient.cpp) and the futures it   *)
(* hands out (lib/HAL/Hardware/wifi/http/HttpTypes.cpp).                   *)
(*                                                                         *)
(* executeAsync pushes the request and its promise on two parallel queues  *)
(* under queue_mutex_ and notifies after unlocking; worker tasks wait on a *)
(* condition variable, pop both queues, execute outside the lock and       *)
(* fulfil the promise.  A critical section of queue_mutex_ is one action;  *)
(* the notifications, which are outside it, are actions of their own.      *)
(* A request and its promise carry the same name: the pairing is what has  *)
(* to be shown, so the queues and the workers keep them apart.             *)
(*                                                                         *)
(* Definitions introduced by "Mutant" are plausible mistakes in the one    *)
(* that follows them; no action uses them.                                 *)
(***************************************************************************)
EXTENDS Naturals, Sequences, FiniteSets

CONSTANTS
  Requests,       (* calls of executeAsync                                 *)
  Workers,        (* tasks xTaskCreate can create: the bound on how often  *)
                  (* initialize can be tried                               *)
  NumTasks,       (* num_tasks_                                            *)
  NoAnswer        (* the future is not ready                               *)

ASSUME PoolAssumption ==
  /\ IsFiniteSet(Workers)
  /\ IsFiniteSet(Requests)
  /\ NumTasks \in Nat
  /\ NoAnswer \notin Requests

VARIABLES
  requestQueue,   (* request_queue_                                        *)
  promiseQueue,   (* promise_queue_                                        *)
  shutdownFlag,   (* shutdown_requested_                                   *)
  initialized,    (* initialized_                                          *)
  caller,         (* where each executeAsync call is                       *)
  worker,         (* where each worker task is                             *)
  held,           (* the request and promise a worker has popped           *)
  control,        (* where initialize or shutdown is                       *)
  created,        (* loop counter of initialize                            *)
  answer,         (* per future: NoAnswer or the request answered          *)
  taken,          (* futures whose get() has consumed the value            *)
  callbacks,      (* futures with a callback registered                    *)
  invoked         (* futures whose callback has been called                *)

vars == <<requestQueue, promiseQueue, shutdownFlag, initialized, caller, worker,
          held, control, created, answer, taken, callbacks, invoked>>
futures == <<taken, callbacks, invoked>>

Alive(w)   == worker[w] \in {"check", "waiting", "executing"}
At(state)  == {w \in Workers : worker[w] = state}
Unnotified == {r \in Requests : caller[r] = "pushed"}

TypeOK ==
  /\ requestQueue \in Seq(Requests)
  /\ promiseQueue \in Seq(Requests)
  /\ shutdownFlag \in BOOLEAN
  /\ initialized \in BOOLEAN
  /\ caller \in [Requests -> {"new", "pushed", "returned"}]
  /\ worker \in [Workers -> {"off", "check", "waiting", "executing", "done"}]
  /\ held \in [Workers -> [request : Requests \cup {NoAnswer},
                           promise : Requests \cup {NoAnswer}]]
  /\ control \in {"idle", "creating", "failed", "stopping", "delay"}
  /\ created \in 0..NumTasks
  /\ answer \in [Requests -> Requests \cup {NoAnswer}]
  /\ taken \subseteq Requests
  /\ callbacks \subseteq Requests
  /\ invoked \subseteq Requests

Nothing == [request |-> NoAnswer, promise |-> NoAnswer]

Init ==
  /\ requestQueue = << >>
  /\ promiseQueue = << >>
  /\ shutdownFlag = FALSE
  /\ initialized = FALSE
  /\ caller = [r \in Requests |-> "new"]
  /\ worker = [w \in Workers |-> "off"]
  /\ held = [w \in Workers |-> Nothing]
  /\ control = "idle"
  /\ created = 0
  /\ answer = [r \in Requests |-> NoAnswer]
  /\ taken = {}
  /\ callbacks = {}
  /\ invoked = {}

-------------------------------------------------------------------------------
(* Callers                                                                 *)

(* Mutant: the newest request is served first.                             *)
PushFront(r) ==
  /\ caller[r] = "new"
  /\ requestQueue' = <<r>> \o requestQueue
  /\ promiseQueue' = <<r>> \o promiseQueue
  /\ caller' = [caller EXCEPT ![r] = "pushed"]
  /\ UNCHANGED <<shutdownFlag, initialized, worker, held, control, created,
                 answer, futures>>

(* executeAsync, under the lock: no test of isReady() or of the flag.      *)
Push(r) ==
  /\ caller[r] = "new"
  /\ requestQueue' = Append(requestQueue, r)
  /\ promiseQueue' = Append(promiseQueue, r)
  /\ caller' = [caller EXCEPT ![r] = "pushed"]
  /\ UNCHANGED <<shutdownFlag, initialized, worker, held, control, created,
                 answer, futures>>

(* Mutant: only the first request in the queue is notified.                *)
NotifyFirstOnly(r) ==
  /\ caller[r] = "pushed"
  /\ caller' = [caller EXCEPT ![r] = "returned"]
  /\ \/ (At("waiting") = {} \/ Len(requestQueue) > 1) /\ UNCHANGED worker
     \/ /\ Len(requestQueue) <= 1
        /\ \E w \in At("waiting") : worker' = [worker EXCEPT ![w] = "check"]
  /\ UNCHANGED <<requestQueue, promiseQueue, shutdownFlag, initialized, held,
                 control, created, answer, futures>>

(* notify_one wakes some waiting worker, or nobody.                        *)
NotifyOne(r) ==
  /\ caller[r] = "pushed"
  /\ caller' = [caller EXCEPT ![r] = "returned"]
  /\ \/ At("waiting") = {} /\ UNCHANGED worker
     \/ \E w \in At("waiting") : worker' = [worker EXCEPT ![w] = "check"]
  /\ UNCHANGED <<requestQueue, promiseQueue, shutdownFlag, initialized, held,
                 control, created, answer, futures>>

(* onReturnCode, onOtherReturnCode, always: the callback is stored.        *)
OnReturnCode(r) ==
  /\ caller[r] = "returned"
  /\ r \notin callbacks
  /\ callbacks' = callbacks \cup {r}
  /\ UNCHANGED <<requestQueue, promiseQueue, shutdownFlag, initialized, caller,
                 worker, held, control, created, answer, taken, invoked>>

(* get() returns once the value is there, and leaves the future invalid.   *)
Get(r) ==
  /\ caller[r] = "returned"
  /\ answer[r] # NoAnswer /\ r \notin taken
  /\ taken' = taken \cup {r}
  /\ UNCHANGED <<requestQueue, promiseQueue, shutdownFlag, initialized, caller,
                 worker, held, control, created, answer, callbacks, invoked>>

-------------------------------------------------------------------------------
(* Workers: workerTaskImpl                                                 *)

(* The predicate of wait() fails: the lock is released and the task waits. *)
Wait(w) ==
  /\ worker[w] = "check"
  /\ requestQueue = << >> /\ ~shutdownFlag
  /\ worker' = [worker EXCEPT ![w] = "waiting"]
  /\ UNCHANGED <<requestQueue, promiseQueue, shutdownFlag, initialized, caller,
                 held, control, created, answer, futures>>

(* Shut down and nothing left to do: the loop ends, the task deletes itself. *)
Leave(w) ==
  /\ worker[w] = "check"
  /\ requestQueue = << >> /\ shutdownFlag
  /\ worker' = [worker EXCEPT ![w] = "done"]
  /\ UNCHANGED <<requestQueue, promiseQueue, shutdownFlag, initialized, caller,
                 held, control, created, answer, futures>>

(* A request and a promise are popped under the lock, and the lock freed.  *)
Take(w) ==
  /\ worker[w] = "check"
  /\ requestQueue # << >>
  /\ held' = [held EXCEPT ![w] = [request |-> Head(requestQueue),
                                  promise |-> Head(promiseQueue)]]
  /\ requestQueue' = Tail(requestQueue)
  /\ promiseQueue' = Tail(promiseQueue)
  /\ worker' = [worker EXCEPT ![w] = "executing"]
  /\ UNCHANGED <<shutdownFlag, initialized, caller, control, created, answer, futures>>

(* executeSyncRequest returns (an answer, an error or its timeout), and    *)
(* the promise gets the value.                                             *)
Fulfil(w) ==
  /\ worker[w] = "executing"
  /\ answer' = [answer EXCEPT ![held[w].promise] = held[w].request]
  /\ held' = [held EXCEPT ![w] = Nothing]
  /\ worker' = [worker EXCEPT ![w] = "check"]
  /\ UNCHANGED <<requestQueue, promiseQueue, shutdownFlag, initialized, caller,
                 control, created, futures>>

(* A condition variable may wake a task without a notification.            *)
Spurious(w) ==
  /\ worker[w] = "waiting"
  /\ worker' = [worker EXCEPT ![w] = "check"]
  /\ UNCHANGED <<requestQueue, promiseQueue, shutdownFlag, initialized, caller,
                 held, control, created, answer, futures>>

-------------------------------------------------------------------------------
(* initialize and shutdown, called by the owner                            *)

Initialize ==
  /\ control = "idle" /\ ~initialized
  /\ Cardinality(At("off")) >= NumTasks                   \* bound: Workers
  /\ control' = "creating"
  /\ created' = 0
  /\ UNCHANGED <<requestQueue, promiseQueue, shutdownFlag, initialized, caller,
                 worker, held, answer, futures>>

(* xTaskCreate: the task runs at once, or there is no memory for it.       *)
CreateWorker ==
  /\ control = "creating" /\ created < NumTasks
  /\ \/ \E w \in At("off") :
          /\ worker' = [worker EXCEPT ![w] = "check"]
          /\ created' = created + 1
          /\ UNCHANGED control
     \/ control' = "failed" /\ UNCHANGED <<worker, created>>
  /\ UNCHANGED <<requestQueue, promiseQueue, shutdownFlag, initialized, caller,
                 held, answer, futures>>

FinishInitialize ==
  /\ control = "creating" /\ created = NumTasks
  /\ initialized' = TRUE
  /\ control' = "idle"
  /\ UNCHANGED <<requestQueue, promiseQueue, shutdownFlag, caller, worker, held,
                 created, answer, futures>>

(* shutdown(), called by initialize on failure or by the owner: the flag   *)
(* under the lock, notify_all, and a delay of 100 ms per task.             *)
RequestShutdown ==
  /\ control \in {"idle", "failed"}
  /\ shutdownFlag' = TRUE
  /\ control' = "stopping"
  /\ UNCHANGED <<requestQueue, promiseQueue, initialized, caller, worker, held,
                 created, answer, futures>>

(* Mutant: one task is woken, as for a request.                            *)
NotifyAllWakesOne ==
  /\ control = "stopping"
  /\ \/ At("waiting") = {} /\ UNCHANGED worker
     \/ \E w \in At("waiting") : worker' = [worker EXCEPT ![w] = "check"]
  /\ control' = "delay"
  /\ UNCHANGED <<requestQueue, promiseQueue, shutdownFlag, initialized, caller,
                 held, created, answer, futures>>

NotifyAll ==
  /\ control = "stopping"
  /\ worker' = [w \in Workers |-> IF worker[w] = "waiting" THEN "check" ELSE worker[w]]
  /\ control' = "delay"
  /\ UNCHANGED <<requestQueue, promiseQueue, shutdownFlag, initialized, caller,
                 held, created, answer, futures>>

ShutdownReturns ==
  /\ control = "delay"
  /\ control' = "idle"
  /\ UNCHANGED <<requestQueue, promiseQueue, shutdownFlag, initialized, caller,
                 worker, held, created, answer, futures>>

CallerStep(r) == Push(r) \/ NotifyOne(r) \/ OnReturnCode(r) \/ Get(r)
WorkerStep(w) == Wait(w) \/ Leave(w) \/ Take(w) \/ Fulfil(w)
ControlStep ==
  Initialize \/ CreateWorker \/ FinishInitialize \/ RequestShutdown \/ NotifyAll
  \/ ShutdownReturns

Next ==
  \/ \E r \in Requests : CallerStep(r)
  \/ \E w \in Workers : WorkerStep(w) \/ Spurious(w)
  \/ ControlStep

Spec == Init /\ [][Next]_vars

(* The tasks are scheduled preemptively and executeSyncRequest ends by its *)
(* timeout, so a worker that can step does; executeAsync and shutdown      *)
(* finish once begun.  Nobody is obliged to call anything.                 *)
Fairness ==
  /\ \A w \in Workers : WF_vars(WorkerStep(w))
  /\ \A r \in Requests : WF_vars(NotifyOne(r))
  /\ WF_vars(NotifyAll)

FairSpec == Spec /\ Fairness

-------------------------------------------------------------------------------
(* Properties                                                              *)

(* The two queues stay in step, and what a worker popped from them belongs *)
(* together (Esp32HttpClient.cpp:29-30, 158-161).                          *)
QueuesPaired ==
  /\ promiseQueue = requestQueue
  /\ \A w \in Workers : held[w].promise = held[w].request

(* Nobody receives the answer to somebody else's request (158-167).        *)
OwnAnswer == \A r \in Requests : answer[r] \in {NoAnswer, r}

(* A request is in one place: in the queue once, with one worker, or       *)
(* answered; so its promise is fulfilled at most once, which std::promise  *)
(* insists on (set_value throws the second time).                          *)
OnlyOnce ==
  /\ \A i, j \in 1..Len(promiseQueue) : promiseQueue[i] = promiseQueue[j] => i = j
  /\ \A w \in Workers : worker[w] = "executing" =>
       /\ answer[held[w].promise] = NoAnswer
       /\ \A i \in 1..Len(promiseQueue) : promiseQueue[i] # held[w].promise
       /\ \A v \in At("executing") : held[v].promise = held[w].promise => v = w
  /\ \A i \in 1..Len(promiseQueue) : answer[promiseQueue[i]] = NoAnswer

(* No lost wake-up: while a worker sleeps on the condition variable, every *)
(* queued request has a worker on its way to the queue or a notification   *)
(* that is still to come, although both are sent after the mutex is free   *)
(* (28-33, 145-147); and no worker sleeps through a shutdown (115-119).    *)
NoLostWakeup ==
  At("waiting") # {} =>
    /\ Len(requestQueue) <= Cardinality(At("check")) + Cardinality(Unnotified)
    /\ shutdownFlag => control = "stopping"

(* A request that is queued while a worker task exists is answered, also   *)
(* when the client is being shut down (149-151).                           *)
InQueue(r) == \E i \in 1..Len(requestQueue) : requestQueue[i] = r
QueuedIsAnswered ==
  \A r \in Requests :
    InQueue(r) /\ (\E w \in Workers : Alive(w)) ~> answer[r] = r

(* Every worker ends after a shutdown.                                     *)
WorkersEnd == \A w \in Workers : shutdownFlag /\ Alive(w) ~> worker[w] = "done"

(* The pool implements the service.                                        *)
Service == INSTANCE RequestService
             WITH waiting  <- requestQueue,
                  underway <- {held[w].request : w \in At("executing")}
ServiceSpec == Service!Spec

(* Whatever the callers, tasks and notifications do in between, requests   *)
(* and promises stay together, each promise is fulfilled once and with its *)
(* own answer, and no worker sleeps while it is needed (23-37, 115-167).   *)
PoolSafe == TypeOK /\ QueuesPaired /\ OwnAnswer /\ OnlyOnce /\ NoLostWakeup

(* What is queued is answered as long as there is a worker, also during a  *)
(* shutdown, and after a shutdown every worker ends (140-170).             *)
PoolServes == QueuedIsAnswered /\ WorkersEnd
=============================================================================
