----------------------------- MODULE Http_proofs ------------------------------
(***************************************************************************)
(* Theorems about the HTTP clients.  The pool, for any number of requests, *)
(* worker tasks and initialisations: answers reach the right future, once; *)
(* no wake-up is lost; the pool implements RequestService.  The simulator's *)
(* client, for any calls and threads: the server sees every request once, and *)
(* no thread is forgotten.  One exchange, for any headers, statuses and    *)
(* bounds, on either client: success is earned, and the body is the server's. *)
(***************************************************************************)
EXTENDS HttpPool, CurlHttpClient, HttpExchange, SequenceTheorems, FiniteSetTheorems, TLAPS

-------------------------------------------------------------------------------
(***************************************************************************)
(* The pool.                                                               *)
(***************************************************************************)

(* A worker holds a request exactly while it executes it.                  *)
HeldWhileExecuting ==
  \A w \in Workers :
    IF worker[w] = "executing" THEN held[w].request \in Requests
                               ELSE held[w] = Nothing

(* A call that has not been made yet has left no trace.                    *)
NewIsNowhere ==
  \A r \in Requests : caller[r] = "new" =>
    /\ answer[r] = NoAnswer
    /\ \A i \in 1..Len(requestQueue) : requestQueue[i] # r
    /\ \A w \in Workers : held[w].request # r

PoolInv ==
  /\ TypeOK
  /\ QueuesPaired
  /\ OwnAnswer
  /\ HeldWhileExecuting
  /\ NewIsNowhere
  /\ OnlyOnce

queued == <<requestQueue, promiseQueue>>

-------------------------------------------------------------------------------
(* Most steps leave the requests where they are.                           *)
LEMMA UntouchedRequests ==
  ASSUME PoolInv, TypeOK', UNCHANGED <<queued, held, answer>>,
         \A w \in Workers : worker'[w] = "executing" <=> worker[w] = "executing",
         \A r \in Requests : caller'[r] = "new" => caller[r] = "new"
  PROVE  PoolInv'
BY DEF PoolInv, queued, QueuesPaired, OwnAnswer, HeldWhileExecuting, NewIsNowhere, OnlyOnce, At

LEMMA PushPreserves ==
  ASSUME PoolInv, NEW r \in Requests, Push(r)
  PROVE  PoolInv'
<1> USE DEF PoolInv
<1> DEFINE n == Len(requestQueue)
<1>1. /\ requestQueue' \in Seq(Requests) /\ promiseQueue' \in Seq(Requests)
      /\ n \in Nat /\ Len(requestQueue') = n + 1
      /\ \A i \in 1..n : requestQueue'[i] = requestQueue[i]
      /\ requestQueue'[n + 1] = r
      /\ promiseQueue' = requestQueue'
  BY AppendProperties, LenProperties DEF Push, TypeOK, QueuesPaired
<1>2. /\ caller[r] = "new"
      /\ caller' = [caller EXCEPT ![r] = "pushed"]
      /\ UNCHANGED <<shutdownFlag, initialized, worker, held, control, created,
                     answer, futures>>
  BY DEF Push
<1>3. TypeOK'
  BY <1>1, <1>2 DEF TypeOK, futures
<1>4. QueuesPaired' /\ OwnAnswer' /\ HeldWhileExecuting'
  BY <1>1, <1>2 DEF QueuesPaired, OwnAnswer, HeldWhileExecuting
<1>5. NewIsNowhere'
  <2> SUFFICES ASSUME NEW q \in Requests, caller'[q] = "new"
               PROVE  /\ answer'[q] = NoAnswer
                      /\ \A i \in 1..Len(requestQueue') : requestQueue'[i] # q
                      /\ \A w \in Workers : held'[w].request # q
    BY DEF NewIsNowhere
  <2>1. q # r /\ caller[q] = "new"
    BY <1>2 DEF TypeOK
  <2> QED  BY <1>1, <1>2, <2>1 DEF NewIsNowhere
<1>6. OnlyOnce'
  <2>1. /\ answer[r] = NoAnswer
        /\ \A i \in 1..n : requestQueue[i] # r
        /\ \A w \in Workers : held[w].request # r
    BY <1>2 DEF NewIsNowhere
  <2>2. \A i \in 1..(n + 1) : i \in 1..n \/ i = n + 1
    BY <1>1
  <2> HIDE DEF n
  <2>3. \A i, j \in 1..Len(promiseQueue') : promiseQueue'[i] = promiseQueue'[j] => i = j
    BY <1>1, <2>1, <2>2 DEF OnlyOnce, QueuesPaired, n
  <2>4. \A w \in Workers : worker'[w] = "executing" =>
       /\ answer'[held'[w].promise] = NoAnswer
       /\ \A i \in 1..Len(promiseQueue') : promiseQueue'[i] # held'[w].promise
       /\ \A v \in At("executing")' : held'[v].promise = held'[w].promise => v = w
    BY <1>1, <1>2, <2>1, <2>2 DEF OnlyOnce, QueuesPaired, n, At
  <2>5. \A i \in 1..Len(promiseQueue') : answer'[promiseQueue'[i]] = NoAnswer
    BY <1>1, <1>2, <2>1, <2>2 DEF OnlyOnce, QueuesPaired, n
  <2> QED  BY <2>3, <2>4, <2>5 DEF OnlyOnce
<1> QED  BY <1>3, <1>4, <1>5, <1>6

LEMMA TakePreserves ==
  ASSUME PoolInv, NEW w \in Workers, Take(w)
  PROVE  PoolInv'
<1> USE DEF PoolInv
<1> DEFINE n == Len(requestQueue)
           first == Head(requestQueue)
<1>1. /\ requestQueue # << >> /\ requestQueue \in Seq(Requests)
      /\ promiseQueue = requestQueue
      /\ n \in Nat \ {0}
      /\ first = requestQueue[1] /\ first \in Requests
  BY LenProperties, EmptySeq, HeadTailProperties DEF Take, TypeOK, QueuesPaired
<1>2. /\ requestQueue' = Tail(requestQueue) /\ promiseQueue' = requestQueue'
      /\ requestQueue' \in Seq(Requests)
      /\ Len(requestQueue') = n - 1
      /\ \A i \in 1..(n - 1) : requestQueue'[i] = requestQueue[i + 1]
  BY <1>1, HeadTailProperties DEF Take
<1>3. /\ worker[w] = "check"
      /\ worker' = [worker EXCEPT ![w] = "executing"]
      /\ held' = [held EXCEPT ![w] = [request |-> first, promise |-> first]]
      /\ UNCHANGED <<shutdownFlag, initialized, caller, control, created, answer, futures>>
  BY <1>1 DEF Take
<1>4. /\ held'[w].request = first /\ held'[w].promise = first
      /\ worker'[w] = "executing"
      /\ \A v \in Workers \ {w} : held'[v] = held[v] /\ worker'[v] = worker[v]
  BY <1>3 DEF TypeOK
<1>5. TypeOK'
  <2>1. [request |-> first, promise |-> first]
          \in [request : Requests \cup {NoAnswer}, promise : Requests \cup {NoAnswer}]
    BY <1>1
  <2> QED  BY <1>2, <1>3, <2>1 DEF TypeOK, futures
<1>6. QueuesPaired' /\ OwnAnswer' /\ HeldWhileExecuting'
  BY <1>1, <1>2, <1>3, <1>4 DEF QueuesPaired, OwnAnswer, HeldWhileExecuting
<1> HIDE DEF n, first
<1>7. \A i \in 1..(n - 1) : i \in 1..n /\ i + 1 \in 1..n /\ i + 1 # 1
  BY <1>1
<1>8. 1 \in 1..n
  BY <1>1
<1>9. NewIsNowhere'
  BY <1>1, <1>2, <1>3, <1>4, <1>7, <1>8 DEF NewIsNowhere, n
<1>10. OnlyOnce'
  <2>1. \A i, j \in 1..n : requestQueue[i] = requestQueue[j] => i = j
    BY <1>1 DEF OnlyOnce, n
  <2>2. \A i, j \in 1..(n - 1) : requestQueue'[i] = requestQueue'[j] => i = j
    <3> SUFFICES ASSUME NEW i \in 1..(n - 1), NEW j \in 1..(n - 1),
                        requestQueue'[i] = requestQueue'[j]
                 PROVE  i = j
      OBVIOUS
    <3>1. i + 1 = j + 1
      BY <1>2, <1>7, <2>1
    <3> QED  BY <3>1, <1>1
  <2>3. \A i \in 1..(n - 1) : answer[requestQueue'[i]] = NoAnswer /\ requestQueue'[i] # first
    BY <1>1, <1>2, <1>7, <1>8, <2>1 DEF OnlyOnce, n
  <2>4. /\ answer[first] = NoAnswer
        /\ \A v \in Workers : worker[v] = "executing" => held[v].promise # first
    BY <1>1, <1>8 DEF OnlyOnce, n
  <2>5. \A v \in Workers : worker'[v] = "executing" =>
       /\ answer'[held'[v].promise] = NoAnswer
       /\ \A i \in 1..(n - 1) : requestQueue'[i] # held'[v].promise
       /\ \A u \in At("executing")' : held'[u].promise = held'[v].promise => u = v
    <3> SUFFICES ASSUME NEW v \in Workers, worker'[v] = "executing"
                 PROVE  /\ answer'[held'[v].promise] = NoAnswer
                        /\ \A i \in 1..(n - 1) : requestQueue'[i] # held'[v].promise
                        /\ \A u \in At("executing")' : held'[u].promise = held'[v].promise => u = v
      OBVIOUS
    <3>1. CASE v = w
      BY <1>3, <1>4, <2>3, <2>4, <3>1 DEF At
    <3>2. CASE v # w
      BY <1>1, <1>2, <1>3, <1>4, <1>7, <2>4, <3>2 DEF At, OnlyOnce, n
    <3> QED  BY <3>1, <3>2
  <2>6. promiseQueue' = requestQueue' /\ Len(promiseQueue') = n - 1
    BY <1>2
  <2>7. \A i \in 1..Len(promiseQueue') : answer'[promiseQueue'[i]] = NoAnswer
    BY <1>3, <2>3, <2>6
  <2>8. \A i, j \in 1..Len(promiseQueue') : promiseQueue'[i] = promiseQueue'[j] => i = j
    BY <2>2, <2>6
  <2>9. \A v \in Workers : worker'[v] = "executing" =>
       /\ answer'[held'[v].promise] = NoAnswer
       /\ \A i \in 1..Len(promiseQueue') : promiseQueue'[i] # held'[v].promise
       /\ \A u \in At("executing")' : held'[u].promise = held'[v].promise => u = v
    BY <2>5, <2>6
  <2> QED  BY <2>7, <2>8, <2>9 DEF OnlyOnce
<1> QED  BY <1>5, <1>6, <1>9, <1>10

LEMMA FulfilPreserves ==
  ASSUME PoolInv, NEW w \in Workers, Fulfil(w)
  PROVE  PoolInv'
<1> USE DEF PoolInv
<1> DEFINE r == held[w].request
<1>1. /\ worker[w] = "executing"
      /\ r \in Requests /\ held[w].promise = r
      /\ answer' = [answer EXCEPT ![r] = r]
      /\ held' = [held EXCEPT ![w] = Nothing]
      /\ worker' = [worker EXCEPT ![w] = "check"]
      /\ UNCHANGED <<queued, shutdownFlag, initialized, caller, control, created, futures>>
  BY DEF Fulfil, HeldWhileExecuting, QueuesPaired, queued
<1>2. /\ held'[w] = Nothing /\ worker'[w] = "check"
      /\ \A v \in Workers \ {w} : held'[v] = held[v] /\ worker'[v] = worker[v]
      /\ answer'[r] = r
      /\ \A q \in Requests \ {r} : answer'[q] = answer[q]
  BY <1>1 DEF TypeOK
<1>3. Nothing.request = NoAnswer /\ Nothing.promise = NoAnswer
      /\ Nothing \in [request : Requests \cup {NoAnswer}, promise : Requests \cup {NoAnswer}]
  BY DEF Nothing
<1>4. TypeOK'
  BY <1>1, <1>3 DEF TypeOK, futures, queued
<1>5. NoAnswer \notin Requests
  BY PoolAssumption
<1>6. QueuesPaired' /\ OwnAnswer' /\ HeldWhileExecuting'
  BY <1>1, <1>2, <1>3 DEF QueuesPaired, OwnAnswer, HeldWhileExecuting, queued
<1>7. NewIsNowhere'
  BY <1>1, <1>2, <1>3, <1>5 DEF NewIsNowhere, queued
<1>8. OnlyOnce'
  <2>1. \A i \in 1..Len(promiseQueue) : promiseQueue[i] \in Requests \ {r}
    BY <1>1, ElementOfSeq DEF OnlyOnce, TypeOK
  <2>2. \A v \in Workers : worker'[v] = "executing" =>
          /\ v # w /\ held[v].promise \in Requests \ {r}
          /\ held'[v] = held[v] /\ worker[v] = "executing"
    BY <1>1, <1>2 DEF OnlyOnce, At, HeldWhileExecuting, QueuesPaired
  <2>3. \A i, j \in 1..Len(promiseQueue') : promiseQueue'[i] = promiseQueue'[j] => i = j
    BY <1>1 DEF OnlyOnce, queued
  <2>4. \A i \in 1..Len(promiseQueue') : answer'[promiseQueue'[i]] = NoAnswer
    BY <1>1, <1>2, <2>1 DEF OnlyOnce, queued
  <2>5. \A v \in Workers : worker'[v] = "executing" =>
          /\ answer'[held'[v].promise] = NoAnswer
          /\ \A i \in 1..Len(promiseQueue') : promiseQueue'[i] # held'[v].promise
    BY <1>1, <1>2, <2>2 DEF OnlyOnce, queued
  <2>6. \A v, u \in Workers :
          worker'[v] = "executing" /\ worker'[u] = "executing"
          /\ held'[u].promise = held'[v].promise => u = v
    BY <2>2 DEF OnlyOnce, At
  <2>7. \A v \in Workers : worker'[v] = "executing" =>
          \A u \in At("executing")' : held'[u].promise = held'[v].promise => u = v
    BY <2>6 DEF At
  <2> QED  BY <2>3, <2>4, <2>5, <2>7 DEF OnlyOnce
<1> QED  BY <1>4, <1>6, <1>7, <1>8

-------------------------------------------------------------------------------
LEMMA PoolInitEstablishes == Init => PoolInv
<1>1. << >> \in Seq(Requests) /\ Len(<< >>) = 0
  BY EmptySeq
<1>2. /\ Nothing \in [request : Requests \cup {NoAnswer}, promise : Requests \cup {NoAnswer}]
      /\ Nothing.request = NoAnswer /\ Nothing.promise = NoAnswer
  BY DEF Nothing
<1> SUFFICES ASSUME Init  PROVE PoolInv
  OBVIOUS
<1>3. TypeOK
  <2> HIDE DEF Nothing
  <2>1. held \in [Workers -> [request : Requests \cup {NoAnswer},
                            promise : Requests \cup {NoAnswer}]]
    BY <1>2 DEF Init
  <2>2. created \in 0..NumTasks
    BY PoolAssumption DEF Init
  <2> QED  BY <1>1, <2>1, <2>2 DEF Init, TypeOK
<1> QED
  BY <1>1, <1>2, <1>3, PoolAssumption DEF Init, PoolInv, QueuesPaired, OwnAnswer, HeldWhileExecuting,
     NewIsNowhere, OnlyOnce, At

LEMMA CallerPreserves ==
  ASSUME PoolInv, NEW r \in Requests, CallerStep(r)
  PROVE  PoolInv'
<1>1. CASE Push(r)
  BY <1>1, PushPreserves
<1>2. CASE NotifyOne(r)
  <2>1. TypeOK'
    BY <1>2 DEF PoolInv, TypeOK, NotifyOne, At, futures
  <2>2. \A w \in Workers : worker'[w] = "executing" <=> worker[w] = "executing"
    BY <1>2 DEF PoolInv, TypeOK, NotifyOne, At
  <2>3. \A q \in Requests : caller'[q] = "new" => caller[q] = "new"
    BY <1>2 DEF PoolInv, TypeOK, NotifyOne
  <2> QED  BY <1>2, <2>1, <2>2, <2>3, UntouchedRequests DEF NotifyOne, queued
<1>3. CASE OnReturnCode(r) \/ Get(r)
  <2>1. TypeOK'
    BY <1>3 DEF PoolInv, TypeOK, OnReturnCode, Get
  <2> QED  BY <1>3, <2>1, UntouchedRequests DEF OnReturnCode, Get, queued
<1> QED  BY <1>1, <1>2, <1>3 DEF CallerStep

LEMMA WorkerPreserves ==
  ASSUME PoolInv, NEW w \in Workers, WorkerStep(w) \/ Spurious(w)
  PROVE  PoolInv'
<1>1. CASE Take(w)
  BY <1>1, TakePreserves
<1>2. CASE Fulfil(w)
  BY <1>2, FulfilPreserves
<1>3. CASE Wait(w) \/ Leave(w) \/ Spurious(w)
  <2>1. TypeOK'
    BY <1>3 DEF PoolInv, TypeOK, Wait, Leave, Spurious, futures
  <2>2. \A v \in Workers : worker'[v] = "executing" <=> worker[v] = "executing"
    BY <1>3 DEF PoolInv, TypeOK, Wait, Leave, Spurious
  <2> QED  BY <1>3, <2>1, <2>2, UntouchedRequests DEF Wait, Leave, Spurious, queued
<1> QED  BY <1>1, <1>2, <1>3 DEF WorkerStep

LEMMA ControlPreserves ==
  ASSUME PoolInv, ControlStep
  PROVE  PoolInv'
<1>1. TypeOK'
  <2>1. CASE Initialize
    BY <2>1, PoolAssumption DEF PoolInv, TypeOK, Initialize, futures
  <2>2. CASE CreateWorker
    BY <2>2, PoolAssumption DEF PoolInv, TypeOK, CreateWorker, At, futures
  <2>3. CASE FinishInitialize \/ RequestShutdown \/ ShutdownReturns
    BY <2>3 DEF PoolInv, TypeOK, FinishInitialize, RequestShutdown, ShutdownReturns, futures
  <2>4. CASE NotifyAll
    BY <2>4 DEF PoolInv, TypeOK, NotifyAll, futures
  <2> QED  BY <2>1, <2>2, <2>3, <2>4 DEF ControlStep
<1>2. \A w \in Workers : worker'[w] = "executing" <=> worker[w] = "executing"
  <2>1. CASE CreateWorker
    BY <2>1 DEF PoolInv, TypeOK, CreateWorker, At
  <2>2. CASE ~CreateWorker
    BY <2>2 DEF PoolInv, TypeOK, ControlStep, Initialize, FinishInitialize, RequestShutdown,
       ShutdownReturns, NotifyAll
  <2> QED  BY <2>1, <2>2
<1>3. UNCHANGED <<queued, held, answer, caller>>
  BY DEF ControlStep, Initialize, CreateWorker, FinishInitialize, RequestShutdown,
     ShutdownReturns, NotifyAll, queued
<1> QED  BY <1>1, <1>2, <1>3, UntouchedRequests

LEMMA PoolStepPreserves == PoolInv /\ [Next]_vars => PoolInv'
<1> SUFFICES ASSUME PoolInv, [Next]_vars  PROVE PoolInv'
  OBVIOUS
<1>1. CASE UNCHANGED vars
  BY <1>1 DEF vars, futures, PoolInv, TypeOK, QueuesPaired, OwnAnswer, HeldWhileExecuting,
     NewIsNowhere, OnlyOnce, At
<1> QED  BY <1>1, CallerPreserves, WorkerPreserves, ControlPreserves DEF Next

(* For any number of callers and tasks, the queues stay in step, nobody    *)
(* receives the answer to another request, and no promise is fulfilled     *)
(* twice (Esp32HttpClient.cpp:23-37, 140-167).                             *)
THEOREM PoolInvariant == Spec => [](TypeOK /\ QueuesPaired /\ OwnAnswer /\ OnlyOnce)
<1>1. Spec => []PoolInv
  BY PoolInitEstablishes, PoolStepPreserves, PTL DEF Spec
<1>2. PoolInv => TypeOK /\ QueuesPaired /\ OwnAnswer /\ OnlyOnce
  BY DEF PoolInv
<1> QED  BY <1>1, <1>2, PTL

-------------------------------------------------------------------------------
(* No lost wake-up                                                         *)

(* Counting the workers in a state and the notifications to come.          *)
LEMMA CountsType ==
  ASSUME TypeOK, NEW state
  PROVE  /\ IsFiniteSet(At(state)) /\ Cardinality(At(state)) \in Nat
         /\ IsFiniteSet(Unnotified) /\ Cardinality(Unnotified) \in Nat
         /\ Len(requestQueue) \in Nat
<1>1. At(state) \in SUBSET Workers /\ Unnotified \in SUBSET Requests
  BY DEF At, Unnotified
<1>2. IsFiniteSet(At(state)) /\ IsFiniteSet(Unnotified)
  BY <1>1, PoolAssumption, FS_Subset
<1> QED  BY <1>2, FS_CardinalityType, LenProperties DEF TypeOK

(* A worker that starts to look at the queue counts for one.               *)
LEMMA CheckingGrows ==
  ASSUME TypeOK, NEW w \in Workers, worker[w] # "check",
         worker' = [worker EXCEPT ![w] = "check"]
  PROVE  Cardinality(At("check")') = Cardinality(At("check")) + 1
<1>1. IsFiniteSet(At("check"))
  BY CountsType
<1>2. w \notin At("check") /\ At("check")' = At("check") \cup {w}
  BY DEF TypeOK, At
<1> QED  BY <1>1, <1>2, FS_AddElement

LEMMA CallerKeepsWakeup ==
  ASSUME TypeOK, TypeOK', NoLostWakeup, NEW r \in Requests, CallerStep(r)
  PROVE  NoLostWakeup'
<1>1. /\ IsFiniteSet(Unnotified) /\ Cardinality(Unnotified) \in Nat
      /\ Cardinality(At("check")) \in Nat /\ Len(requestQueue) \in Nat
  BY CountsType
<1>2. CASE Push(r)
  <2>1. r \notin Unnotified /\ Unnotified' = Unnotified \cup {r}
    BY <1>2 DEF Push, Unnotified, TypeOK
  <2>2. Cardinality(Unnotified') = Cardinality(Unnotified) + 1
    BY <1>1, <2>1, FS_AddElement
  <2>3. Len(requestQueue') = Len(requestQueue) + 1
    BY <1>2, AppendProperties DEF Push, TypeOK
  <2>4. At("waiting")' = At("waiting") /\ At("check")' = At("check")
        /\ UNCHANGED <<shutdownFlag, control>>
    BY <1>2 DEF Push, At
  <2> QED  BY <1>1, <2>2, <2>3, <2>4 DEF NoLostWakeup
<1>3. CASE NotifyOne(r)
  <2>1. r \in Unnotified /\ Unnotified' = Unnotified \ {r}
    BY <1>3 DEF NotifyOne, Unnotified, TypeOK
  <2>2. Cardinality(Unnotified') = Cardinality(Unnotified) - 1
    BY <1>1, <2>1, FS_RemoveElement
  <2>3. CASE At("waiting") = {} /\ UNCHANGED worker
    BY <2>3 DEF NoLostWakeup, At
  <2>4. CASE \E w \in At("waiting") : worker' = [worker EXCEPT ![w] = "check"]
    <3>1. PICK w \in At("waiting") : worker' = [worker EXCEPT ![w] = "check"]
      BY <2>4
    <3>2. w \in Workers /\ worker[w] = "waiting"
      BY DEF At
    <3>3. Cardinality(At("check")') = Cardinality(At("check")) + 1
      BY <3>1, <3>2, CheckingGrows
    <3>4. At("waiting") # {} /\ UNCHANGED <<requestQueue, shutdownFlag, control>>
      BY <1>3, <3>1 DEF NotifyOne
    <3> QED  BY <1>1, <2>2, <3>3, <3>4 DEF NoLostWakeup
  <2> QED  BY <1>3, <2>3, <2>4 DEF NotifyOne
<1>4. CASE OnReturnCode(r) \/ Get(r)
  BY <1>4 DEF OnReturnCode, Get, NoLostWakeup, At, Unnotified
<1> QED  BY <1>2, <1>3, <1>4 DEF CallerStep

LEMMA WorkerKeepsWakeup ==
  ASSUME TypeOK, TypeOK', NoLostWakeup, NEW w \in Workers, WorkerStep(w) \/ Spurious(w)
  PROVE  NoLostWakeup'
<1>1. /\ Cardinality(Unnotified) \in Nat
      /\ Cardinality(At("check")) \in Nat /\ Len(requestQueue) \in Nat
      /\ Cardinality(At("check")') \in Nat
  <2>1. Cardinality(At("check")') \in Nat
    <3>1. At("check")' \in SUBSET Workers
      BY DEF At
    <3> QED  BY <3>1, PoolAssumption, FS_Subset, FS_CardinalityType
  <2> QED  BY <2>1, CountsType
<1>2. Unnotified' = Unnotified /\ UNCHANGED <<shutdownFlag, control>>
  BY DEF WorkerStep, Wait, Leave, Take, Fulfil, Spurious, Unnotified
<1>3. CASE Wait(w)
  <2>1. Len(requestQueue') = 0 /\ ~shutdownFlag
    BY <1>3, EmptySeq DEF Wait
  <2> QED  BY <1>1, <1>2, <2>1 DEF NoLostWakeup
<1>4. CASE Leave(w)
  <2>1. Len(requestQueue') = 0
    BY <1>4, EmptySeq DEF Leave
  <2>2. At("waiting")' \subseteq At("waiting")
    BY <1>4 DEF Leave, At, TypeOK
  <2> QED  BY <1>1, <1>2, <2>1, <2>2 DEF NoLostWakeup
<1>5. CASE Take(w)
  <2>1. Len(requestQueue') = Len(requestQueue) - 1
    BY <1>5, HeadTailProperties DEF Take, TypeOK
  <2>2. Cardinality(At("check")') = Cardinality(At("check")) - 1
    <3>1. worker[w] = "check" /\ worker' = [worker EXCEPT ![w] = "executing"]
      BY <1>5 DEF Take
    <3>2. w \in At("check") /\ At("check")' = At("check") \ {w}
      BY <3>1 DEF TypeOK, At
    <3> QED  BY <3>2, CountsType, FS_RemoveElement
  <2>3. At("waiting")' \subseteq At("waiting")
    BY <1>5 DEF Take, At, TypeOK
  <2> QED  BY <1>1, <1>2, <2>1, <2>2, <2>3 DEF NoLostWakeup
<1>6. CASE Fulfil(w) \/ Spurious(w)
  <2>1. Cardinality(At("check")') = Cardinality(At("check")) + 1
    BY <1>6, CheckingGrows DEF Fulfil, Spurious
  <2>2. At("waiting")' \subseteq At("waiting") /\ requestQueue' = requestQueue
    BY <1>6 DEF Fulfil, Spurious, At, TypeOK
  <2> QED  BY <1>1, <1>2, <2>1, <2>2 DEF NoLostWakeup
<1> QED  BY <1>3, <1>4, <1>5, <1>6 DEF WorkerStep

LEMMA ControlKeepsWakeup ==
  ASSUME TypeOK, TypeOK', NoLostWakeup, ControlStep
  PROVE  NoLostWakeup'
<1>1. /\ Cardinality(Unnotified) \in Nat
      /\ Cardinality(At("check")) \in Nat /\ Len(requestQueue) \in Nat
  BY CountsType
<1>2. Unnotified' = Unnotified /\ UNCHANGED requestQueue
  BY DEF ControlStep, Initialize, CreateWorker, FinishInitialize, RequestShutdown,
     NotifyAll, ShutdownReturns, Unnotified
<1>3. CASE CreateWorker
  <2>1. CASE \E w \in At("off") : worker' = [worker EXCEPT ![w] = "check"]
    <3>1. PICK w \in At("off") : worker' = [worker EXCEPT ![w] = "check"]
      BY <2>1
    <3>2. w \in Workers /\ worker[w] = "off"
      BY DEF At
    <3>3. Cardinality(At("check")') = Cardinality(At("check")) + 1
      BY <3>1, <3>2, CheckingGrows
    <3>4. At("waiting")' \subseteq At("waiting")
      BY <3>1, <3>2 DEF At, TypeOK
    <3>5. control = "creating" /\ UNCHANGED shutdownFlag
      BY <1>3 DEF CreateWorker
    <3> QED  BY <1>1, <1>2, <3>3, <3>4, <3>5 DEF NoLostWakeup
  <2>2. CASE UNCHANGED worker
    BY <1>2, <1>3, <2>2 DEF CreateWorker, NoLostWakeup, At
  <2> QED  BY <1>3, <2>1, <2>2 DEF CreateWorker
<1>4. CASE NotifyAll
  <2>1. At("waiting")' = {}
    BY <1>4 DEF NotifyAll, At
  <2> QED  BY <2>1 DEF NoLostWakeup
<1>5. CASE Initialize \/ FinishInitialize \/ RequestShutdown \/ ShutdownReturns
  BY <1>2, <1>5 DEF Initialize, FinishInitialize, RequestShutdown, ShutdownReturns,
     NoLostWakeup, At
<1> QED  BY <1>3, <1>4, <1>5 DEF ControlStep

(* However many workers sleep, every queued request has a worker or a      *)
(* notification on its way, and no worker sleeps through a shutdown: the   *)
(* notifications may stay outside the mutex (28-33, 115-119, 145-147).     *)
THEOREM WakeupsAreNotLost == Spec => []NoLostWakeup
<1>1. Init => NoLostWakeup
  <2>1. Init => At("waiting") = {}
    BY DEF Init, At
  <2> QED  BY <2>1 DEF NoLostWakeup
<1>2. TypeOK /\ TypeOK' /\ NoLostWakeup /\ [Next]_vars => NoLostWakeup'
  <2> SUFFICES ASSUME TypeOK, TypeOK', NoLostWakeup, [Next]_vars  PROVE NoLostWakeup'
    OBVIOUS
  <2>1. CASE UNCHANGED vars
    BY <2>1 DEF vars, futures, NoLostWakeup, At, Unnotified
  <2> QED
    BY <2>1, CallerKeepsWakeup, WorkerKeepsWakeup, ControlKeepsWakeup DEF Next
<1>3. Spec => []TypeOK
  BY PoolInvariant, PTL
<1> QED  BY <1>1, <1>2, <1>3, PTL DEF Spec

(* Both together: requests and promises stay together, each promise is     *)
(* fulfilled once and with its own answer, and no worker sleeps while it   *)
(* is needed (Esp32HttpClient.cpp:23-37, 115-167).                         *)
THEOREM PoolIsSafe == Spec => []PoolSafe
<1>1. TypeOK /\ QueuesPaired /\ OwnAnswer /\ OnlyOnce /\ NoLostWakeup => PoolSafe
  BY DEF PoolSafe
<1> QED  BY <1>1, PoolInvariant, WakeupsAreNotLost, PTL

-------------------------------------------------------------------------------
(* Refinement                                                              *)

underway == {held[w].request : w \in At("executing")}

LEMMA PushIsHandOver ==
  ASSUME PoolInv, NEW r \in Requests, Push(r)
  PROVE  Service!HandOver(r)
<1>1. ~Service!InQueue(r) /\ answer[r] = NoAnswer /\ r \notin underway
  BY DEF PoolInv, NewIsNowhere, Push, Service!InQueue, underway, At
<1>2. underway' = underway
  BY DEF Push, underway, At
<1> QED  BY <1>1, <1>2 DEF Push, Service!HandOver, underway

LEMMA TakeIsTakeUp ==
  ASSUME PoolInv, NEW w \in Workers, Take(w)
  PROVE  Service!TakeUp
<1>1. /\ At("executing")' = At("executing") \cup {w} /\ w \notin At("executing")
      /\ held'[w].request = Head(requestQueue)
      /\ \A v \in At("executing") : held'[v] = held[v]
  BY DEF PoolInv, TypeOK, Take, At
<1>2. underway' = underway \cup {Head(requestQueue)}
  BY <1>1 DEF underway
<1> QED  BY <1>2 DEF Take, Service!TakeUp, underway

LEMMA FulfilIsAnswer ==
  ASSUME PoolInv, NEW w \in Workers, Fulfil(w)
  PROVE  \E r \in Requests : Service!Answer(r)
<1> DEFINE r == held[w].request
<1>1. /\ w \in At("executing") /\ r \in Requests /\ held[w].promise = r
      /\ \A v \in At("executing") : held[v].promise = held[v].request
      /\ \A v \in At("executing") : held[v].promise = r => v = w
  BY DEF PoolInv, HeldWhileExecuting, QueuesPaired, OnlyOnce, Fulfil, At
<1>2. /\ At("executing")' = At("executing") \ {w}
      /\ \A v \in At("executing")' : held'[v] = held[v]
  BY DEF PoolInv, TypeOK, Fulfil, At
<1>3. underway' = underway \ {r} /\ r \in underway
  BY <1>1, <1>2 DEF underway
<1>4. answer' = [answer EXCEPT ![r] = r] /\ UNCHANGED requestQueue
  BY <1>1 DEF Fulfil
<1> HIDE DEF r
<1> QED  BY <1>1, <1>3, <1>4 DEF Service!Answer, underway

LEMMA OthersStutter ==
  ASSUME UNCHANGED <<requestQueue, answer, held>>, At("executing")' = At("executing")
  PROVE  UNCHANGED Service!svars
BY DEF Service!svars

(* The pool executes every request once, in the order of arrival, and      *)
(* answers it in its own future, for any number of workers.                *)
THEOREM PoolImplementsService == Spec => ServiceSpec
<1>1. Init => Service!Init
  <2>1. Init => At("executing") = {}
    BY DEF Init, At
  <2> QED  BY <2>1 DEF Init, Service!Init
<1>2. PoolInv /\ [Next]_vars => [Service!Next]_Service!svars
  <2> SUFFICES ASSUME PoolInv, [Next]_vars  PROVE [Service!Next]_Service!svars
    OBVIOUS
  <2>1. ASSUME NEW r \in Requests, CallerStep(r)  PROVE [Service!Next]_Service!svars
    <3>1. CASE Push(r)
      BY <3>1, PushIsHandOver DEF Service!Next
    <3>2. CASE NotifyOne(r) \/ OnReturnCode(r) \/ Get(r)
      <4>1. At("executing")' = At("executing")
        BY <3>2 DEF PoolInv, TypeOK, NotifyOne, OnReturnCode, Get, At
      <4> QED  BY <3>2, <4>1, OthersStutter DEF NotifyOne, OnReturnCode, Get
    <3> QED  BY <2>1, <3>1, <3>2 DEF CallerStep
  <2>2. ASSUME NEW w \in Workers, WorkerStep(w) \/ Spurious(w)
        PROVE  [Service!Next]_Service!svars
    <3>1. CASE Take(w)
      BY <3>1, TakeIsTakeUp DEF Service!Next
    <3>2. CASE Fulfil(w)
      BY <3>2, FulfilIsAnswer DEF Service!Next
    <3>3. CASE Wait(w) \/ Leave(w) \/ Spurious(w)
      <4>1. At("executing")' = At("executing")
        BY <3>3 DEF PoolInv, TypeOK, Wait, Leave, Spurious, At
      <4> QED  BY <3>3, <4>1, OthersStutter DEF Wait, Leave, Spurious
    <3> QED  BY <2>2, <3>1, <3>2, <3>3 DEF WorkerStep
  <2>3. CASE ControlStep
    <3>1. At("executing")' = At("executing")
      <4>1. CASE CreateWorker
        BY <4>1 DEF PoolInv, TypeOK, CreateWorker, At
      <4>2. CASE ~CreateWorker
        BY <2>3, <4>2 DEF PoolInv, TypeOK, ControlStep, Initialize, FinishInitialize,
           RequestShutdown, NotifyAll, ShutdownReturns, At
      <4> QED  BY <4>1, <4>2
    <3>2. UNCHANGED <<requestQueue, answer, held>>
      BY <2>3 DEF ControlStep, Initialize, CreateWorker, FinishInitialize,
         RequestShutdown, NotifyAll, ShutdownReturns
    <3> QED  BY <3>1, <3>2, OthersStutter
  <2>4. CASE UNCHANGED vars
    BY <2>4, OthersStutter DEF vars, At
  <2> QED  BY <2>1, <2>2, <2>3, <2>4 DEF Next
<1>3. Spec => []PoolInv
  BY PoolInitEstablishes, PoolStepPreserves, PTL DEF Spec
<1> QED  BY <1>1, <1>2, <1>3, PTL DEF Spec, ServiceSpec, Service!Spec

-------------------------------------------------------------------------------
(***************************************************************************)
(* The client of the simulator.                                            *)
(***************************************************************************)
Holding == {"performing", "answered", "setting"}
Places  == [at : {"check", "waiting", "done"}] \cup [at : Holding, call : Calls]

CurlTypes ==
  /\ call \in [Calls -> {"new", "queued", "notified", "returned"}]
  /\ asked \in [Calls -> Asks \cup {<< >>}]
  /\ \A c \in Calls : call[c] # "new" => asked[c] \in Asks
  /\ mRequestQueue \in Seq(Calls)
  /\ thread \in [Threads -> Places]
  /\ DOMAIN seen = Calls /\ DOMAIN result = Calls
  /\ owner \in {"open", "flagged", "joining", "closed"}

Queued(c) == \E i \in 1..Len(mRequestQueue) : mRequestQueue[i] = c
Performs(t, c) == thread[t].at = "performing" /\ thread[t].call = c

(* A call has one place: in the queue, or with one thread.                 *)
OnePlace ==
  /\ \A i, j \in 1..Len(mRequestQueue) : mRequestQueue[i] = mRequestQueue[j] => i = j
  /\ \A t, u \in Threads, c \in Calls : Performs(t, c) /\ Performs(u, c) => t = u
  /\ \A t \in Threads, c \in Calls : Performs(t, c) => ~Queued(c)

Sent(c) == <<[verb |-> asked[c].method, body |-> asked[c].body]>>

(* The server has been sent a call when it is past the queue and the wire. *)
Stages ==
  \A c \in Calls :
    /\ seen[c] = << >> \/ seen[c] = Sent(c)
    /\ call[c] = "new" => seen[c] = << >> /\ ~Queued(c) /\ \A t \in Threads : ~Performs(t, c)
    /\ call[c] # "new" =>
         (seen[c] = << >> <=> Queued(c) \/ \E t \in Threads : Performs(t, c))

(* Threads end with an empty queue, to which nothing more is added.        *)
EndsServed ==
  /\ (\E t \in Threads : thread[t].at = "done") => mRequestQueue = << >> /\ owner # "open"
  /\ owner = "closed" => \A t \in Threads : thread[t].at = "done"

CurlInv == CurlTypes /\ OnePlace /\ Stages /\ EndsServed

-------------------------------------------------------------------------------
(* What the wire carries is what was asked.                                *)
LEMMA WireIsFaithful ==
  ASSUME NEW r \in Asks
  PROVE  OnTheWire(SetupMethodOptions(r)) = [verb |-> r.method, body |-> r.body]
<1> DEFINE m == r.method
           b == r.body
<1>3. b \in {"", "text"}
  BY DEF Asks, Bodies
<1>4. PICK o : o = SetupMethodOptions(r)
  OBVIOUS
<1>5. CASE m = "POST" \/ b # ""
  <2>1. o = [verb |-> m, fields |-> b]
    BY <1>4, <1>5 DEF SetupMethodOptions
  <2>2. o.verb = m /\ o.fields = b /\ b # "unset"
    BY <1>3, <2>1
  <2> QED  BY <1>3, <1>4, <2>2 DEF OnTheWire
<1>6. CASE m # "POST" /\ b = ""
  <2>1. o = [verb |-> m, fields |-> "unset"]
    BY <1>3, <1>4, <1>6 DEF SetupMethodOptions
  <2>2. o.verb = m /\ o.fields = "unset"
    BY <2>1
  <2> QED  BY <1>3, <1>4, <1>6, <2>2 DEF OnTheWire
<1> QED  BY <1>5, <1>6

LEMMA PlacesAre ==
  /\ Idle \in Places /\ [at |-> "waiting"] \in Places /\ [at |-> "done"] \in Places
  /\ \A c \in Calls, a \in Holding : [at |-> a, call |-> c] \in Places
  /\ \A p \in Places, a \in Holding :
       p.at \in Holding => [p EXCEPT !.at = a] = [at |-> a, call |-> p.call] /\ p.call \in Calls
BY DEF Places, Holding, Idle

LEMMA CurlInitEstablishes == CurlInit => CurlInv
<1> SUFFICES ASSUME CurlInit  PROVE CurlInv
  OBVIOUS
<1>1. Len(mRequestQueue) = 0 /\ mRequestQueue \in Seq(Calls)
  BY EmptySeq DEF CurlInit
<1>2. \A c \in Calls : ~Queued(c)
  BY <1>1 DEF Queued
<1>3. thread \in [Threads -> Places] /\ \A t \in Threads : thread[t].at = "check"
  BY PlacesAre DEF CurlInit, Idle
<1>4. CurlTypes
  BY <1>1, <1>3 DEF CurlInit, CurlTypes
<1> QED
  BY <1>1, <1>2, <1>3, <1>4 DEF CurlInit, CurlInv, OnePlace, Stages, EndsServed, Performs

(* Most steps leave the requests where they are.                           *)
LEMMA UntouchedCalls ==
  ASSUME CurlInv, CurlTypes', UNCHANGED <<asked, mRequestQueue, seen>>,
         \A c \in Calls : call'[c] = "new" <=> call[c] = "new",
         \A t \in Threads, c \in Calls : Performs(t, c)' <=> Performs(t, c),
         \A t \in Threads : thread'[t].at = "done" <=> thread[t].at = "done",
         owner = "open" \/ owner' # "open",
         owner' = "closed" => owner = "closed"
  PROVE  CurlInv'
<1>1. \A c \in Calls : Queued(c)' <=> Queued(c)
  BY DEF Queued
<1>2. OnePlace'
  BY <1>1 DEF CurlInv, OnePlace
<1>3. Stages'
  BY <1>1 DEF CurlInv, Stages, Sent
<1>4. EndsServed'
  BY DEF CurlInv, EndsServed
<1> QED  BY <1>2, <1>3, <1>4 DEF CurlInv

LEMMA ExecuteKeepsCurl ==
  ASSUME CurlInv, NEW c \in Calls, NEW request \in Asks, ExecuteAsync(c, request)
  PROVE  CurlInv'
<1> USE DEF CurlInv
<1> DEFINE n == Len(mRequestQueue)
<1>1. /\ mRequestQueue' \in Seq(Calls) /\ n \in Nat /\ Len(mRequestQueue') = n + 1
      /\ \A i \in 1..n : mRequestQueue'[i] = mRequestQueue[i]
      /\ mRequestQueue'[n + 1] = c
  BY AppendProperties, LenProperties DEF ExecuteAsync, CurlTypes
<1>2. /\ owner = "open" /\ call[c] = "new"
      /\ call' = [call EXCEPT ![c] = "queued"] /\ asked' = [asked EXCEPT ![c] = request]
      /\ UNCHANGED <<thread, result, seen, owner>>
  BY DEF ExecuteAsync
<1>3. CurlTypes'
  BY <1>1, <1>2 DEF CurlTypes
<1>4. 1..(n + 1) = 1..n \cup {n + 1}
  BY <1>1
<1>5. ~Queued(c) /\ seen[c] = << >> /\ \A t \in Threads : ~Performs(t, c)
  BY <1>2 DEF Stages
<1> HIDE DEF n
<1>6. \A d \in Calls : Queued(d)' <=> Queued(d) \/ d = c
  BY <1>1, <1>4 DEF Queued, n
<1>7. \A t \in Threads, d \in Calls : Performs(t, d)' <=> Performs(t, d)
  BY <1>2 DEF Performs
<1>8. OnePlace'
  <2>1. \A i \in 1..n : mRequestQueue[i] # c
    BY <1>5 DEF Queued, n
  <2>2. \A i, j \in 1..(n + 1) : mRequestQueue'[i] = mRequestQueue'[j] => i = j
    BY <1>1, <1>4, <2>1 DEF OnePlace, n
  <2> QED  BY <1>1, <1>5, <1>6, <1>7, <2>2 DEF OnePlace
<1>9. Stages'
  <2> SUFFICES ASSUME NEW d \in Calls
               PROVE  /\ seen'[d] = << >> \/ seen'[d] = Sent(d)'
                      /\ call'[d] = "new" => /\ seen'[d] = << >> /\ ~Queued(d)'
                                             /\ \A t \in Threads : ~Performs(t, d)'
                      /\ call'[d] # "new" =>
                           (seen'[d] = << >> <=> Queued(d)' \/ \E t \in Threads : Performs(t, d)')
    BY DEF Stages
  <2>1. CASE d = c
    BY <1>2, <1>5, <1>6, <2>1 DEF CurlTypes
  <2>2. CASE d # c
    BY <1>2, <1>6, <1>7, <2>2 DEF Stages, Sent, CurlTypes
  <2> QED  BY <2>1, <2>2
<1>10. EndsServed'
  BY <1>2 DEF EndsServed
<1> QED  BY <1>3, <1>8, <1>9, <1>10

LEMMA TakeKeepsCurl ==
  ASSUME CurlInv, NEW t \in Threads, TakeRequest(t)
  PROVE  CurlInv'
<1> USE DEF CurlInv
<1> DEFINE n == Len(mRequestQueue)
           first == Head(mRequestQueue)
<1>1. /\ n \in Nat \ {0} /\ first = mRequestQueue[1] /\ first \in Calls
      /\ mRequestQueue' \in Seq(Calls) /\ Len(mRequestQueue') = n - 1
      /\ \A i \in 1..(n - 1) : mRequestQueue'[i] = mRequestQueue[i + 1]
  BY LenProperties, EmptySeq, HeadTailProperties DEF TakeRequest, CurlTypes
<1>2. /\ thread[t].at = "check" /\ mRequestQueue # << >>
      /\ thread' = [thread EXCEPT ![t] = [at |-> "performing", call |-> first]]
      /\ UNCHANGED <<call, asked, result, seen, owner>>
  BY DEF TakeRequest, Go
<1> HIDE DEF n, first
<1>3. CurlTypes'
  <2>1. [at |-> "performing", call |-> first] \in Places
    BY <1>1, PlacesAre DEF Holding
  <2> QED  BY <1>1, <1>2, <2>1 DEF CurlTypes
<1>4. \A u \in Threads : u # t => thread'[u] = thread[u]
  BY <1>2 DEF CurlTypes
<1>5. thread'[t].at = "performing" /\ thread'[t].call = first
  BY <1>2 DEF CurlTypes
<1>6. /\ 1 \in 1..n
      /\ \A i \in 1..(n - 1) : i + 1 \in 1..n /\ i + 1 # 1
      /\ \A i \in 1..n : i = 1 \/ (i - 1 \in 1..(n - 1) /\ (i - 1) + 1 = i)
  BY <1>1
<1>7. \A c \in Calls : Queued(c)' <=> Queued(c) /\ c # first
  <2> SUFFICES ASSUME NEW c \in Calls  PROVE Queued(c)' <=> Queued(c) /\ c # first
    OBVIOUS
  <2>1. Queued(c)' => Queued(c) /\ c # first
    BY <1>1, <1>6 DEF Queued, OnePlace, n
  <2>2. ASSUME NEW i \in 1..n, mRequestQueue[i] = c, c # first  PROVE Queued(c)'
    <3>1. i # 1
      BY <1>1, <2>2
    <3>2. i - 1 \in 1..(n - 1) /\ mRequestQueue'[i - 1] = mRequestQueue[(i - 1) + 1]
      BY <1>1, <1>6, <3>1
    <3>3. mRequestQueue'[i - 1] = c
      BY <1>6, <2>2, <3>1, <3>2
    <3> QED  BY <1>1, <3>2, <3>3 DEF Queued
  <2> QED  BY <2>1, <2>2 DEF Queued, n
<1>8. \A c \in Calls : Queued(c) => \A u \in Threads : ~Performs(u, c)
  BY DEF OnePlace
<1>9. Queued(first)
  BY <1>1, <1>6 DEF Queued, n
<1>10. \A u \in Threads, c \in Calls :
         Performs(u, c)' <=> Performs(u, c) \/ (u = t /\ c = first)
  BY <1>2, <1>4, <1>5 DEF Performs
<1>11. OnePlace'
  <2>1. \A i, j \in 1..(n - 1) : mRequestQueue'[i] = mRequestQueue'[j] => i = j
    <3> SUFFICES ASSUME NEW i \in 1..(n - 1), NEW j \in 1..(n - 1),
                        mRequestQueue'[i] = mRequestQueue'[j]
                 PROVE  i = j
      OBVIOUS
    <3>1. i + 1 = j + 1
      BY <1>1, <1>6 DEF OnePlace, n
    <3> QED  BY <3>1, <1>1
  <2> QED  BY <1>1, <1>7, <1>8, <1>9, <1>10, <2>1 DEF OnePlace
<1>12. Stages'
  BY <1>1, <1>2, <1>7, <1>9, <1>10 DEF Stages, Sent
<1>13. EndsServed'
  BY <1>2, <1>4, <1>5 DEF EndsServed
<1> QED  BY <1>3, <1>11, <1>12, <1>13

LEMMA SyncKeepsCurl ==
  ASSUME CurlInv, NEW t \in Threads, ExecuteSyncRequest(t)
  PROVE  CurlInv'
<1> USE DEF CurlInv
<1>0. thread[t].call \in Calls
  BY PlacesAre DEF ExecuteSyncRequest, CurlTypes, Holding
<1> PICK c \in Calls : c = thread[t].call
  BY <1>0
<1>1. /\ thread[t] \in Places /\ thread[t].at = "performing" /\ c \in Calls
      /\ thread' = [thread EXCEPT ![t] = [at |-> "answered", call |-> c]]
      /\ UNCHANGED <<call, asked, mRequestQueue, result, owner>>
  BY PlacesAre DEF ExecuteSyncRequest, Go, CurlTypes, Holding
<1>2. Performs(t, c) /\ ~Queued(c) /\ call[c] # "new" /\ asked[c] \in Asks /\ seen[c] = << >>
  BY <1>1 DEF Performs, OnePlace, Stages, CurlTypes
<1>3. seen' = [seen EXCEPT ![c] = Append(<< >>, [verb |-> asked[c].method, body |-> asked[c].body])]
  BY <1>2, WireIsFaithful DEF ExecuteSyncRequest
<1>4. seen'[c] = Sent(c) /\ Sent(c) # << >> /\ \A d \in Calls : d # c => seen'[d] = seen[d]
  BY <1>1, <1>3 DEF CurlTypes, Sent
<1>5. CurlTypes'
  <2>1. [at |-> "answered", call |-> c] \in Places
    BY <1>1, PlacesAre DEF Holding
  <2> QED  BY <1>1, <1>3, <2>1 DEF CurlTypes
<1>6. thread'[t].at = "answered" /\ \A u \in Threads : u # t => thread'[u] = thread[u]
  BY <1>1 DEF CurlTypes
<1>7. \A u \in Threads, d \in Calls : Performs(u, d)' <=> Performs(u, d) /\ u # t
  BY <1>6 DEF Performs
<1>8. \A d \in Calls : Queued(d)' <=> Queued(d)
  BY <1>1 DEF Queued
<1>9. OnePlace'
  BY <1>1, <1>7, <1>8 DEF OnePlace
<1>10. Stages'
  <2> SUFFICES ASSUME NEW d \in Calls
               PROVE  /\ seen'[d] = << >> \/ seen'[d] = Sent(d)'
                      /\ call'[d] = "new" => /\ seen'[d] = << >> /\ ~Queued(d)'
                                             /\ \A u \in Threads : ~Performs(u, d)'
                      /\ call'[d] # "new" =>
                           (seen'[d] = << >> <=> Queued(d)' \/ \E u \in Threads : Performs(u, d)')
    BY DEF Stages
  <2>1. Sent(d)' = Sent(d)
    BY <1>1 DEF Sent
  <2>2. CASE d = c
    <3>1. \A u \in Threads : ~Performs(u, c)'
      BY <1>1, <1>2, <1>7 DEF OnePlace
    <3> QED  BY <1>1, <1>2, <1>4, <1>8, <2>1, <2>2, <3>1
  <2>3. CASE d # c
    <3>1. ~Performs(t, d)
      BY <1>1, <2>3 DEF Performs
    <3>2. \A u \in Threads : Performs(u, d)' <=> Performs(u, d)
      BY <1>7, <3>1
    <3> QED  BY <1>1, <1>4, <1>8, <2>1, <2>3, <3>2 DEF Stages
  <2> QED  BY <2>2, <2>3
<1>11. EndsServed'
  BY <1>1, <1>6 DEF EndsServed
<1> QED  BY <1>5, <1>9, <1>10, <1>11
(* A thread that waits, wakes, sets a value or ends, alone.                *)
LEMMA ThreadMoves ==
  ASSUME CurlInv, NEW t \in Threads, NEW p \in Places, Go(t, p),
         p.at # "performing", thread[t].at # "performing",
         p.at = "done" <=> thread[t].at = "done"
  PROVE  /\ thread' \in [Threads -> Places]
         /\ \A u \in Threads, c \in Calls : Performs(u, c)' <=> Performs(u, c)
         /\ \A u \in Threads : thread'[u].at = "done" <=> thread[u].at = "done"
<1>1. thread \in [Threads -> Places]
  BY DEF CurlInv, CurlTypes
<1>2. thread'[t] = p /\ \A u \in Threads : u # t => thread'[u] = thread[u]
  BY <1>1 DEF Go
<1> QED  BY <1>1, <1>2 DEF Performs, Go

LEMMA CallsKeepCurl ==
  ASSUME CurlInv, NEW c \in Calls, CallStep(c)
  PROVE  CurlInv'
<1>1. /\ call[c] \in {"queued", "notified"}
      /\ call' \in [Calls -> {"new", "queued", "notified", "returned"}]
      /\ \A d \in Calls : call'[d] = "new" <=> call[d] = "new"
      /\ UNCHANGED <<asked, mRequestQueue, seen, owner>>
      /\ DOMAIN result' = Calls
  BY DEF CallStep, WakeOne, ReturnFuture, CurlInv, CurlTypes
<1>2. CASE UNCHANGED thread
  <2>1. CurlTypes'
    BY <1>1, <1>2 DEF CurlInv, CurlTypes
  <2> QED  BY <1>1, <1>2, <2>1, UntouchedCalls DEF Performs
<1>3. CASE \E t \in In({"waiting"}) : Go(t, Idle)
  <2>1. PICK t \in Threads : thread[t].at = "waiting" /\ Go(t, Idle)
    BY <1>3 DEF In
  <2>2. /\ thread' \in [Threads -> Places]
        /\ \A u \in Threads, d \in Calls : Performs(u, d)' <=> Performs(u, d)
        /\ \A u \in Threads : thread'[u].at = "done" <=> thread[u].at = "done"
    <3>1. Idle \in Places /\ Idle.at = "check"
      BY PlacesAre DEF Idle
    <3> QED  BY <2>1, <3>1, ThreadMoves
  <2>3. CurlTypes'
    BY <1>1, <2>2 DEF CurlInv, CurlTypes
  <2> QED  BY <1>1, <2>2, <2>3, UntouchedCalls
<1> QED  BY <1>2, <1>3 DEF CallStep, WakeOne, ReturnFuture

LEMMA OtherThreadStepsKeepCurl ==
  ASSUME CurlInv, NEW t \in Threads,
         Sleep(t) \/ LockPromise(t) \/ SetValue(t) \/ WokenForNothing(t)
  PROVE  CurlInv'
<1>1. /\ UNCHANGED <<call, asked, mRequestQueue, seen, owner>>
      /\ DOMAIN result' = Calls
  BY DEF Sleep, LockPromise, SetValue, WokenForNothing, CurlInv, CurlTypes
<1>2. thread[t] \in Places
  BY DEF CurlInv, CurlTypes
<1>3. \E p \in Places : Go(t, p) /\ p.at \notin {"performing", "done"}
  <2>1. Idle.at = "check" /\ [at |-> "waiting"].at = "waiting"
    BY DEF Idle
  <2>2. thread[t].at = "answered" =>
          LET p == [thread[t] EXCEPT !.at = "setting"] IN p \in Places /\ p.at = "setting"
    <3>1. thread[t].at = "answered" =>
            /\ [thread[t] EXCEPT !.at = "setting"] = [at |-> "setting", call |-> thread[t].call]
            /\ thread[t].call \in Calls
      BY <1>2, PlacesAre DEF Holding
    <3> QED  BY <3>1, PlacesAre DEF Holding
  <2> QED
    BY <2>1, <2>2, PlacesAre DEF Sleep, LockPromise, SetValue, WokenForNothing
<1>4. thread[t].at \notin {"performing", "done"}
  BY DEF Sleep, LockPromise, SetValue, WokenForNothing
<1>5. /\ thread' \in [Threads -> Places]
      /\ \A u \in Threads, d \in Calls : Performs(u, d)' <=> Performs(u, d)
      /\ \A u \in Threads : thread'[u].at = "done" <=> thread[u].at = "done"
  BY <1>3, <1>4, ThreadMoves
<1>6. CurlTypes'
  BY <1>1, <1>5 DEF CurlInv, CurlTypes
<1> QED  BY <1>1, <1>5, <1>6, UntouchedCalls

LEMMA QuitKeepsCurl ==
  ASSUME CurlInv, NEW t \in Threads, Quit(t)
  PROVE  CurlInv'
<1> USE DEF CurlInv
<1>1. /\ thread[t].at = "check" /\ mRequestQueue = << >> /\ owner # "open"
      /\ thread' = [thread EXCEPT ![t] = [at |-> "done"]]
      /\ UNCHANGED <<call, asked, mRequestQueue, result, seen, owner>>
  BY DEF Quit, Go, mShutdownRequested
<1>2. CurlTypes'
  BY <1>1, PlacesAre DEF CurlTypes
<1>3. thread'[t].at = "done" /\ \A u \in Threads : u # t => thread'[u] = thread[u]
  BY <1>1 DEF CurlTypes
<1>4. \A u \in Threads, c \in Calls : Performs(u, c)' <=> Performs(u, c)
  BY <1>1, <1>3 DEF Performs
<1>5. \A c \in Calls : Queued(c)' <=> Queued(c)
  BY <1>1 DEF Queued
<1>6. OnePlace'
  BY <1>1, <1>4, <1>5 DEF OnePlace
<1>7. Stages'
  BY <1>1, <1>4, <1>5 DEF Stages, Sent
<1>8. EndsServed'
  BY <1>1, <1>3 DEF EndsServed
<1> QED  BY <1>2, <1>6, <1>7, <1>8

LEMMA OwnerKeepsCurl ==
  ASSUME CurlInv, ShutDown \/ WakeAll \/ Join
  PROVE  CurlInv'
<1>1. CASE ShutDown
  <2>1. UNCHANGED <<call, asked, mRequestQueue, seen, thread, result>> /\ owner' = "flagged"
    BY <1>1 DEF ShutDown
  <2>2. CurlTypes'
    BY <2>1 DEF CurlInv, CurlTypes
  <2> QED  BY <2>1, <2>2, UntouchedCalls DEF Performs
<1>2. CASE WakeAll
  <2>1. UNCHANGED <<call, asked, mRequestQueue, seen, result>> /\ owner' = "joining"
        /\ owner = "flagged"
        /\ thread' = [t \in Threads |-> IF thread[t].at = "waiting" THEN Idle ELSE thread[t]]
    BY <1>2 DEF WakeAll
  <2>2. /\ thread' \in [Threads -> Places]
        /\ \A u \in Threads : IF thread[u].at = "waiting" THEN thread'[u] = Idle
                                                         ELSE thread'[u] = thread[u]
    BY <2>1, PlacesAre DEF CurlInv, CurlTypes
  <2>3. Idle.at = "check"
    BY DEF Idle
  <2>4. CurlTypes'
    BY <2>1, <2>2 DEF CurlInv, CurlTypes
  <2>5. \A u \in Threads, d \in Calls : Performs(u, d)' <=> Performs(u, d)
    BY <2>2, <2>3 DEF Performs
  <2>6. \A u \in Threads : thread'[u].at = "done" <=> thread[u].at = "done"
    BY <2>2, <2>3
  <2> QED  BY <2>1, <2>4, <2>5, <2>6, UntouchedCalls
<1>3. CASE Join
  <2>1. /\ UNCHANGED <<call, asked, mRequestQueue, seen, result, thread>>
        /\ owner = "joining" /\ owner' = "closed"
        /\ \A t \in Threads : thread[t].at = "done"
    BY <1>3 DEF Join, In
  <2>2. CurlTypes'
    BY <2>1 DEF CurlInv, CurlTypes
  <2>3. \A c \in Calls : Queued(c)' <=> Queued(c)
    BY <2>1 DEF Queued
  <2>4. \A u \in Threads, d \in Calls : Performs(u, d)' <=> Performs(u, d)
    BY <2>1 DEF Performs
  <2>5. OnePlace'
    BY <2>1, <2>3, <2>4 DEF CurlInv, OnePlace
  <2>6. Stages'
    BY <2>1, <2>3, <2>4 DEF CurlInv, Stages, Sent
  <2>7. EndsServed'
    BY <2>1 DEF CurlInv, EndsServed
  <2> QED  BY <2>2, <2>5, <2>6, <2>7 DEF CurlInv
<1> QED  BY <1>1, <1>2, <1>3

LEMMA CurlStepKeeps == CurlInv /\ [CurlNext]_curlVars => CurlInv'
<1> SUFFICES ASSUME CurlInv, [CurlNext]_curlVars  PROVE CurlInv'
  OBVIOUS
<1>1. CASE UNCHANGED curlVars
  <2>1. UNCHANGED <<call, asked, mRequestQueue, thread, result, seen, owner>>
    BY <1>1 DEF curlVars
  <2>2. CurlTypes'
    BY <2>1 DEF CurlInv, CurlTypes
  <2> QED  BY <2>1, <2>2, UntouchedCalls DEF Performs
<1>2. ASSUME NEW c \in Calls, CallStep(c)  PROVE CurlInv'
  BY <1>2, CallsKeepCurl
<1>3. ASSUME NEW c \in Calls, NEW request \in Asks, ExecuteAsync(c, request)  PROVE CurlInv'
  BY <1>3, ExecuteKeepsCurl
<1>4. ASSUME NEW t \in Threads, ThreadStep(t) \/ WokenForNothing(t)  PROVE CurlInv'
  BY <1>4, TakeKeepsCurl, SyncKeepsCurl, QuitKeepsCurl, OtherThreadStepsKeepCurl
     DEF ThreadStep
<1>5. CASE ShutDown \/ WakeAll \/ Join
  BY <1>5, OwnerKeepsCurl
<1> QED  BY <1>1, <1>2, <1>3, <1>4, <1>5 DEF CurlNext

(* For any calls and threads, the server sees what was asked, at most once *)
(* per call, and once the client is gone it has seen every request that    *)
(* was queued (CurlHttpClient.cpp:78-88, 140-153, 157-192, 245-274).       *)
LEMMA CurlSendsOnce == CurlSpec => []ServerSeesEachOnce
<1>1. CurlSpec => []CurlInv
  BY CurlInitEstablishes, CurlStepKeeps, PTL DEF CurlSpec
<1>2. CurlInv => ServerSeesEachOnce
  <2> SUFFICES ASSUME CurlInv, NEW c \in Calls
               PROVE  /\ seen[c] = << >> \/ seen[c] = Sent(c)
                      /\ owner = "closed" /\ call[c] # "new" => seen[c] # << >>
    BY DEF ServerSeesEachOnce, Sent
  <2>1. ASSUME owner = "closed"
        PROVE  ~Queued(c) /\ \A t \in Threads : ~Performs(t, c)
    <3>1. \A t \in Threads : thread[t].at = "done"
      BY <2>1 DEF CurlInv, EndsServed
    <3>2. mRequestQueue = << >>
      BY <3>1, CurlAssumption DEF CurlInv, EndsServed
    <3> QED  BY <3>1, <3>2, EmptySeq DEF Queued, Performs
  <2> QED  BY <2>1 DEF CurlInv, Stages
<1> QED  BY <1>1, <1>2, PTL
-------------------------------------------------------------------------------
(* No thread is forgotten.                                                 *)
Checking == In({"check"})
Unwoken  == {c \in Calls : call[c] = "queued"}

LEMMA CurlCounts ==
  ASSUME CurlTypes
  PROVE  /\ IsFiniteSet(Checking) /\ Cardinality(Checking) \in Nat
         /\ IsFiniteSet(Unwoken) /\ Cardinality(Unwoken) \in Nat
         /\ Len(mRequestQueue) \in Nat
<1>1. Checking \in SUBSET Threads /\ Unwoken \in SUBSET Calls
  BY DEF Checking, In, Unwoken
<1>2. IsFiniteSet(Checking) /\ IsFiniteSet(Unwoken)
  BY <1>1, CurlAssumption, FS_Subset
<1> QED  BY <1>2, FS_CardinalityType, LenProperties DEF CurlTypes

(* A thread that goes to look at the queue counts for one.                 *)
LEMMA LookingGrows ==
  ASSUME CurlTypes, NEW t \in Threads, thread[t].at # "check", Go(t, Idle)
  PROVE  /\ Cardinality(Checking') = Cardinality(Checking) + 1
         /\ In({"waiting"})' \subseteq In({"waiting"})
<1>1. t \notin Checking /\ Checking' = Checking \cup {t}
  BY DEF Checking, In, Go, Idle, CurlTypes
<1>2. In({"waiting"})' \subseteq In({"waiting"})
  BY DEF In, Go, Idle, CurlTypes
<1> QED  BY <1>1, <1>2, CurlCounts, FS_AddElement

LEMMA CallsForgetNone ==
  ASSUME CurlTypes, NoThreadForgotten, NEW c \in Calls,
         CallStep(c) \/ \E request \in Asks : ExecuteAsync(c, request)
  PROVE  NoThreadForgotten'
<1>1. /\ IsFiniteSet(Unwoken) /\ Cardinality(Unwoken) \in Nat
      /\ Cardinality(Checking) \in Nat /\ Len(mRequestQueue) \in Nat
  BY CurlCounts
<1> USE DEF NoThreadForgotten
<1>2. CASE \E request \in Asks : ExecuteAsync(c, request)
  <2>1. /\ UNCHANGED <<thread, owner>> /\ mRequestQueue' = Append(mRequestQueue, c)
        /\ call[c] = "new" /\ call' = [call EXCEPT ![c] = "queued"]
    BY <1>2 DEF ExecuteAsync
  <2>2. c \notin Unwoken /\ Unwoken' = Unwoken \cup {c}
    BY <2>1 DEF Unwoken, CurlTypes
  <2>3. Cardinality(Unwoken') = Cardinality(Unwoken) + 1
    BY <1>1, <2>2, FS_AddElement
  <2>4. Len(mRequestQueue') = Len(mRequestQueue) + 1
    BY <2>1, AppendProperties DEF CurlTypes
  <2>5. In({"waiting"})' = In({"waiting"}) /\ Checking' = Checking
    BY <2>1 DEF In, Checking
  <2> QED  BY <1>1, <2>1, <2>3, <2>4, <2>5 DEF Checking, Unwoken
<1>3. CASE WakeOne(c)
  <2>1. call[c] = "queued" /\ call' = [call EXCEPT ![c] = "notified"]
        /\ UNCHANGED <<mRequestQueue, owner>>
    BY <1>3 DEF WakeOne
  <2>2. c \in Unwoken /\ Unwoken' = Unwoken \ {c}
    BY <2>1 DEF Unwoken, CurlTypes
  <2>3. Cardinality(Unwoken') = Cardinality(Unwoken) - 1
    BY <1>1, <2>2, FS_RemoveElement
  <2>4. CASE In({"waiting"}) = {} /\ UNCHANGED thread
    BY <2>4 DEF In
  <2>5. CASE \E t \in In({"waiting"}) : Go(t, Idle)
    <3>1. PICK t \in In({"waiting"}) : Go(t, Idle)
      BY <2>5
    <3>2. t \in Threads /\ thread[t].at = "waiting"
      BY DEF In
    <3>3. Cardinality(Checking') = Cardinality(Checking) + 1
      BY <3>1, <3>2, LookingGrows
    <3> QED  BY <1>1, <2>1, <2>3, <3>1, <3>3 DEF Checking, Unwoken
  <2> QED  BY <1>3, <2>4, <2>5 DEF WakeOne
<1>4. CASE ReturnFuture(c)
  <2>1. UNCHANGED <<mRequestQueue, thread, owner>>
        /\ call[c] = "notified" /\ call' = [call EXCEPT ![c] = "returned"]
    BY <1>4 DEF ReturnFuture
  <2>2. Unwoken' = Unwoken
    BY <2>1 DEF Unwoken, CurlTypes
  <2> QED  BY <2>1, <2>2 DEF In, Unwoken
<1> QED  BY <1>2, <1>3, <1>4 DEF CallStep

LEMMA ThreadsForgetNone ==
  ASSUME CurlTypes, CurlTypes', NoThreadForgotten, NEW t \in Threads,
         ThreadStep(t) \/ WokenForNothing(t)
  PROVE  NoThreadForgotten'
<1>0. /\ In({"waiting"}) # {} =>
           /\ Len(mRequestQueue) <= Cardinality(Checking) + Cardinality(Unwoken)
           /\ owner \in {"open", "flagged"}
      /\ (In({"waiting"})' # {} =>
            /\ Len(mRequestQueue') <= Cardinality(Checking') + Cardinality(Unwoken')
            /\ owner' \in {"open", "flagged"}) => NoThreadForgotten'
  BY DEF NoThreadForgotten, Checking, Unwoken
<1>1. /\ Cardinality(Unwoken) \in Nat /\ IsFiniteSet(Checking)
      /\ Cardinality(Checking) \in Nat /\ Len(mRequestQueue) \in Nat
      /\ Cardinality(Checking') \in Nat
  <2>1. Checking' \in SUBSET Threads
    BY DEF Checking, In
  <2>2. Cardinality(Checking') \in Nat
    BY <2>1, CurlAssumption, FS_Subset, FS_CardinalityType
  <2> QED  BY <2>2, CurlCounts
<1>2. Unwoken' = Unwoken /\ UNCHANGED owner
  BY DEF ThreadStep, Sleep, Quit, TakeRequest, ExecuteSyncRequest, LockPromise, SetValue,
     WokenForNothing, Unwoken
<1>3. CASE Sleep(t)
  <2>1. Len(mRequestQueue') = 0 /\ owner = "open"
    BY <1>3, EmptySeq DEF Sleep, mShutdownRequested
  <2> QED  BY <1>0, <1>1, <1>2, <2>1
<1>4. CASE Quit(t)
  <2>1. Len(mRequestQueue') = 0
    BY <1>4, EmptySeq DEF Quit
  <2>2. In({"waiting"})' \subseteq In({"waiting"})
    BY <1>4 DEF Quit, Go, In, CurlTypes
  <2> QED  BY <1>0, <1>1, <1>2, <2>1, <2>2
<1>5. CASE TakeRequest(t)
  <2>1. Len(mRequestQueue') = Len(mRequestQueue) - 1
    BY <1>5, HeadTailProperties DEF TakeRequest, CurlTypes
  <2>2. /\ thread[t].at = "check"
        /\ thread' = [thread EXCEPT ![t] = [at |-> "performing", call |-> Head(mRequestQueue)]]
    BY <1>5 DEF TakeRequest, Go
  <2>3. t \in Checking /\ Checking' = Checking \ {t}
    BY <2>2 DEF Checking, In, CurlTypes
  <2>4. Cardinality(Checking') = Cardinality(Checking) - 1
    BY <1>1, <2>3, FS_RemoveElement
  <2>5. In({"waiting"})' \subseteq In({"waiting"})
    BY <2>2 DEF In, CurlTypes
  <2> QED  BY <1>0, <1>1, <1>2, <2>1, <2>4, <2>5
<1>6. CASE ExecuteSyncRequest(t) \/ (LockPromise(t) /\ ~Go(t, Idle))
  <2>1. /\ mRequestQueue' = mRequestQueue /\ thread[t].at \notin {"check", "waiting"}
        /\ \E a \in {"answered", "setting"} : Go(t, [thread[t] EXCEPT !.at = a])
    BY <1>6 DEF ExecuteSyncRequest, LockPromise
  <2>2. PICK a \in {"answered", "setting"} : Go(t, [thread[t] EXCEPT !.at = a])
    BY <2>1
  <2>3. thread[t].at \in Holding
    BY <1>6 DEF ExecuteSyncRequest, LockPromise, Holding
  <2>4. [thread[t] EXCEPT !.at = a] = [at |-> a, call |-> thread[t].call]
    BY <2>3, PlacesAre DEF CurlTypes, Holding
  <2>5. thread' = [thread EXCEPT ![t] = [at |-> a, call |-> thread[t].call]]
    BY <2>2, <2>4 DEF Go
  <2>6. In({"waiting"})' = In({"waiting"}) /\ Checking' = Checking
    BY <2>1, <2>5 DEF In, Checking, CurlTypes
  <2> QED  BY <1>0, <1>2, <2>1, <2>6
<1>7. CASE thread[t].at # "check" /\ Go(t, Idle) /\ UNCHANGED mRequestQueue
  <2>1. /\ Cardinality(Checking') = Cardinality(Checking) + 1
        /\ In({"waiting"})' \subseteq In({"waiting"})
    BY <1>7, LookingGrows
  <2> QED  BY <1>0, <1>1, <1>2, <1>7, <2>1
<1>8. SetValue(t) \/ WokenForNothing(t) \/ (LockPromise(t) /\ Go(t, Idle))
        => thread[t].at # "check" /\ Go(t, Idle) /\ UNCHANGED mRequestQueue
  BY DEF SetValue, WokenForNothing, LockPromise
<1> QED  BY <1>3, <1>4, <1>5, <1>6, <1>7, <1>8 DEF ThreadStep

LEMMA OwnerForgetsNone ==
  ASSUME CurlTypes, NoThreadForgotten, ShutDown \/ WakeAll \/ Join
  PROVE  NoThreadForgotten'
<1>1. CASE ShutDown
  BY <1>1 DEF ShutDown, NoThreadForgotten, In
<1>2. CASE WakeAll
  <2>1. thread' = [t \in Threads |-> IF thread[t].at = "waiting" THEN Idle ELSE thread[t]]
    BY <1>2 DEF WakeAll
  <2>2. In({"waiting"})' = {}
    BY <2>1 DEF In, Idle
  <2> QED  BY <2>2 DEF NoThreadForgotten
<1>3. CASE Join
  <2>1. In({"waiting"})' = {}
    BY <1>3 DEF Join, In
  <2> QED  BY <2>1 DEF NoThreadForgotten
<1> QED  BY <1>1, <1>2, <1>3

(* However many threads wait, every queued request has a thread or a       *)
(* notification on its way, and no thread waits through the shutdown: the  *)
(* notifications may stay outside the mutex (81-85, 141-145, 161).         *)
LEMMA CurlForgetsNoThread == CurlSpec => []NoThreadForgotten
<1>1. CurlInit => NoThreadForgotten
  <2>1. CurlInit => In({"waiting"}) = {}
    BY DEF CurlInit, In, Idle
  <2> QED  BY <2>1 DEF NoThreadForgotten
<1>2. CurlTypes /\ CurlTypes' /\ NoThreadForgotten /\ [CurlNext]_curlVars => NoThreadForgotten'
  <2> SUFFICES ASSUME CurlTypes, CurlTypes', NoThreadForgotten, [CurlNext]_curlVars
               PROVE  NoThreadForgotten'
    OBVIOUS
  <2>1. CASE UNCHANGED curlVars
    BY <2>1 DEF curlVars, NoThreadForgotten, In
  <2>2. ASSUME NEW c \in Calls, CallStep(c) \/ \E request \in Asks : ExecuteAsync(c, request)
        PROVE  NoThreadForgotten'
    BY <2>2, CallsForgetNone
  <2>3. ASSUME NEW t \in Threads, ThreadStep(t) \/ WokenForNothing(t)  PROVE NoThreadForgotten'
    BY <2>3, ThreadsForgetNone
  <2>4. CASE ShutDown \/ WakeAll \/ Join
    BY <2>4, OwnerForgetsNone
  <2> QED  BY <2>1, <2>2, <2>3, <2>4 DEF CurlNext
<1>3. CurlSpec => []CurlTypes
  <2>1. CurlSpec => []CurlInv
    BY CurlInitEstablishes, CurlStepKeeps, PTL DEF CurlSpec
  <2>2. CurlInv => CurlTypes
    BY DEF CurlInv
  <2> QED  BY <2>1, <2>2, PTL
<1> QED  BY <1>1, <1>2, <1>3, PTL DEF CurlSpec
(* For any calls and threads, the server sees what was asked, at most once *)
(* per call and always before the client is gone, and no thread is left    *)
(* waiting (CurlHttpClient.cpp:78-88, 140-192, 245-274).                   *)
THEOREM CurlIsSafe == CurlSpec => []CurlSafe
<1>1. ServerSeesEachOnce /\ NoThreadForgotten => CurlSafe
  BY DEF CurlSafe
<1> QED  BY <1>1, CurlSendsOnce, CurlForgetsNoThread, PTL

(***************************************************************************)
(* One exchange, on either client.                                         *)
(***************************************************************************)
ExTypes ==
  /\ side \in {"remote", "simulator"} /\ redirects \in Nat
  /\ said = [code |-> said.code, headers |-> said.headers, chunked |-> said.chunked,
             body |-> said.body, whole |-> said.whole]
  /\ collected = [headers |-> collected.headers, body |-> collected.body]

(* Until the first redirection, what was collected is what was said.       *)
CollectsWhatIsSaid ==
  /\ phase = "sent" => said = Silent /\ (redirects = 0 => collected.body = << >>)
  /\ phase \in {"head", "body"} =>
       (redirects = 0 /\ ~(side = "remote" /\ said.chunked) => collected.body = said.body)

ExInv == ExTypes /\ CollectsWhatIsSaid /\ SuccessIsEarned /\ BodyIsTheServers

LEMMA ExInitEstablishes == ExInit => ExInv
BY DEF ExInit, ExInv, ExTypes, CollectsWhatIsSaid, SuccessIsEarned, BodyIsTheServers, Silent, Empty

LEMMA BeginningKeeps ==
  ASSUME ExInv, InitFails \/ \E request \in HttpRequests : PerformRequest(request)
  PROVE  ExInv'
<1>1. /\ said' = Silent /\ redirects' = 0 /\ side' = side /\ collected' = Empty
      /\ phase' = "sent" \/ (phase' = "over" /\ response' = Failed)
  BY DEF InitFails, PerformRequest, Begins
<1>2. ExTypes' /\ CollectsWhatIsSaid'
  BY <1>1 DEF ExInv, ExTypes, CollectsWhatIsSaid, Silent, Empty
<1>3. ~(phase' = "over" /\ response'.success)
  BY <1>1 DEF Failed
<1> QED  BY <1>2, <1>3 DEF ExInv, SuccessIsEarned, BodyIsTheServers

LEMMA AnsweringKeeps ==
  ASSUME ExInv,
         \/ \E code \in Statuses, chunked \in BOOLEAN : StatusLine(code, chunked)
         \/ \E name \in HeaderNames : HeaderLine(name)
         \/ Data \/ Redirect
  PROVE  ExInv'
<1>1. phase' # "over" /\ side' = side
  BY DEF StatusLine, HeaderLine, Data, Redirect
<1>2. CASE \E code \in Statuses, chunked \in BOOLEAN : StatusLine(code, chunked)
  <2>1. PICK code \in Statuses, chunked \in BOOLEAN : StatusLine(code, chunked)
    BY <1>2
  <2>2. /\ phase = "sent" /\ phase' = "head" /\ UNCHANGED <<collected, redirects>>
        /\ said' = [Silent EXCEPT !.code = code, !.chunked = chunked]
    BY <2>1 DEF StatusLine
  <2>3. said' = [code |-> code, headers |-> 0, chunked |-> chunked, body |-> << >>, whole |-> FALSE]
    BY <2>2 DEF Silent
  <2>4. ExTypes' /\ said'.body = << >>
    <3>1. /\ said'.code = code /\ said'.headers = 0 /\ said'.chunked = chunked
          /\ said'.body = << >> /\ said'.whole = FALSE
      BY <2>3, Zenon
    <3>2. said' = [code |-> said'.code, headers |-> said'.headers, chunked |-> said'.chunked,
                   body |-> said'.body, whole |-> said'.whole]
      BY <2>3, <3>1, Zenon
    <3> QED  BY <1>1, <2>2, <3>1, <3>2 DEF ExInv, ExTypes
  <2>5. CollectsWhatIsSaid'
    BY <2>2, <2>4 DEF ExInv, CollectsWhatIsSaid
  <2> QED  BY <1>1, <2>4, <2>5 DEF ExInv, SuccessIsEarned, BodyIsTheServers
<1>3. CASE \E name \in HeaderNames : HeaderLine(name)
  <2>1. PICK name \in HeaderNames : HeaderLine(name)
    BY <1>3
  <2>2. /\ phase = "head" /\ phase' = "head" /\ redirects' = redirects
        /\ \E h : said' = [said EXCEPT !.headers = h]
        /\ \E h : collected' = [collected EXCEPT !.headers = h]
    BY <2>1 DEF HeaderLine
  <2>3. ExTypes' /\ said'.body = said.body /\ said'.chunked = said.chunked
        /\ collected'.body = collected.body
    BY <1>1, <2>2 DEF ExInv, ExTypes
  <2> QED  BY <1>1, <2>2, <2>3
           DEF ExInv, CollectsWhatIsSaid, SuccessIsEarned, BodyIsTheServers
<1>4. CASE Data
  <2> DEFINE piece == Len(said.body) + 1
  <2>1. /\ phase \in {"head", "body"} /\ phase' = "body" /\ redirects' = redirects
        /\ said' = [said EXCEPT !.body = Append(said.body, piece)]
        /\ collected' = [collected EXCEPT !.body = AppendData(collected.body, piece)]
    BY <1>4 DEF Data
  <2> HIDE DEF piece
  <2>2. /\ ExTypes' /\ said'.chunked = said.chunked
        /\ said'.body = Append(said.body, piece)
        /\ collected'.body = AppendData(collected.body, piece)
    BY <1>1, <2>1 DEF ExInv, ExTypes
  <2> QED  BY <1>1, <2>1, <2>2
           DEF ExInv, CollectsWhatIsSaid, SuccessIsEarned, BodyIsTheServers, AppendData
<1>5. CASE Redirect
  <2>1. /\ phase' = "sent" /\ said' = Silent /\ redirects' = redirects + 1
        /\ collected' = collected
    BY <1>5 DEF Redirect
  <2>2. redirects' \in Nat /\ redirects' # 0
    BY <2>1 DEF ExInv, ExTypes
  <2> QED  BY <1>1, <2>1, <2>2
           DEF ExInv, ExTypes, CollectsWhatIsSaid, SuccessIsEarned, BodyIsTheServers, Silent
<1> QED  BY <1>2, <1>3, <1>4, <1>5

LEMMA ReturningKeeps ==
  ASSUME ExInv, NEW ok \in BOOLEAN, Return(ok),
         phase = "sent" => ~ok, phase \in {"sent", "head", "body"}
  PROVE  ExInv'
<1>1. /\ phase' = "over" /\ response' = Response(ok) /\ UNCHANGED <<side, collected, redirects>>
      /\ said' = [said EXCEPT !.whole = ok]
  BY DEF Return
<1>2. /\ ExTypes' /\ said'.code = said.code /\ said'.whole = ok
      /\ said'.body = said.body /\ said'.chunked = said.chunked
  BY <1>1 DEF ExInv, ExTypes
<1>3. CASE side = "remote" /\ ~ok
  <2>1. ~response'.success
    BY <1>1, <1>3 DEF Response, Failed
  <2> QED  BY <1>1, <1>2, <2>1
           DEF ExInv, CollectsWhatIsSaid, SuccessIsEarned, BodyIsTheServers
<1>4. CASE ~(side = "remote" /\ ~ok)
  <2>1. response' = Answered
    BY <1>1, <1>4 DEF Response
  <2>2. response'.success <=> Success(said.code)
    BY <2>1 DEF Answered
  <2>3. response'.body = collected.body
    BY <2>1 DEF Answered
  <2>4. SuccessIsEarned'
    BY <1>1, <1>2, <1>4, <2>2 DEF SuccessIsEarned, Success
  <2>5. ~Success(0)
    BY DEF Success
  <2>6. phase = "sent" => ~response'.success
    BY <2>2, <2>5 DEF ExInv, CollectsWhatIsSaid, Silent
  <2>7. BodyIsTheServers'
    BY <1>1, <1>2, <2>3, <2>6 DEF ExInv, CollectsWhatIsSaid, BodyIsTheServers
  <2> QED  BY <1>1, <1>2, <2>4, <2>7 DEF ExInv, CollectsWhatIsSaid
<1> QED  BY <1>3, <1>4

LEMMA ExStepKeeps == ExInv /\ [ExNext]_exVars => ExInv'
<1> SUFFICES ASSUME ExInv, [ExNext]_exVars  PROVE ExInv'
  OBVIOUS
<1>1. CASE UNCHANGED exVars
  BY <1>1 DEF exVars, ExInv, ExTypes, CollectsWhatIsSaid, SuccessIsEarned, BodyIsTheServers
<1>2. CASE TakeNext
  BY <1>2 DEF TakeNext, ExInv, ExTypes, CollectsWhatIsSaid, SuccessIsEarned, BodyIsTheServers
<1>3. CASE Complete \/ BreakDown
  BY <1>3, ReturningKeeps DEF Complete, BreakDown
<1> QED  BY <1>1, <1>2, <1>3, BeginningKeeps, AnsweringKeeps DEF ExNext

(* Whatever the server answers, and wherever it breaks off or points, a    *)
(* response that says it succeeded was earned by the answer to this very   *)
(* request, on the remote by a whole one, and its body, unless it was      *)
(* redirected or came in chunks to the remote, is what the server sent for *)
(* this request (Esp32HttpClient.cpp:194-266, CurlHttpClient.cpp:207-242). *)
THEOREM ResponsesAreHonest == ExSpec => []ResponseIsHonest
<1>1. ExSpec => []ExInv
  BY ExInitEstablishes, ExStepKeeps, PTL DEF ExSpec
<1>2. ExInv => ResponseIsHonest
  BY DEF ExInv, ResponseIsHonest
<1> QED  BY <1>1, <1>2, PTL
===============================================================================
