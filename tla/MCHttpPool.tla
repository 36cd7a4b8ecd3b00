------------------------------ MODULE MCHttpPool ------------------------------
(***************************************************************************)
(* Four modules for TLC that are looked at one at a time: HttpPool, where  *)
(* three workers let initialize fail after one task and be tried again     *)
(* with two, the simulator's CurlHttpClient, the single request of         *)
(* HttpExchange, and the pins of the controller.  "part" says which.       *)
(***************************************************************************)
EXTENDS HttpPool, CurlHttpClient, HttpExchange, Pins

VARIABLE part

all == <<vars, curlVars, exVars, pinVars, part>>
Pool(X) == part = "device" /\ X /\ UNCHANGED <<curlVars, exVars, pinVars, part>>
Curl(X) == part = "simulator" /\ X /\ UNCHANGED <<vars, exVars, pinVars, part>>
Gpio(X) == part = "pins" /\ X /\ UNCHANGED <<vars, curlVars, exVars, part>>
Exchange(X) == part = "exchange" /\ X /\ UNCHANGED <<vars, curlVars, pinVars, part>>

(* The others look at one board only. *)
MCInit ==
  /\ Init /\ CurlInit /\ ExInit /\ PinsInit
  /\ part \in {"device", "simulator", "pins", "exchange"}
  /\ part # "exchange" => side = "remote"
  /\ part # "pins" => board = "rev1" /\ ~wakeupByIMU
MCNext == Pool(Next) \/ Curl(CurlNext) \/ Gpio(PinsNext) \/ Exchange(ExNext)
MCSpec == MCInit /\ [][MCNext]_all

(* Besides the fairness of HttpPool: threads run, a call returns, the      *)
(* destructor goes on; the controller works and is woken.                  *)
MCFairSpec ==
  /\ MCSpec
  /\ \A w \in Workers : WF_all(Pool(WorkerStep(w)))
  /\ \A r \in Requests : WF_all(Pool(NotifyOne(r)))
  /\ WF_all(Pool(NotifyAll))
  /\ \A t \in Threads : WF_all(Curl(ThreadStep(t)))
  /\ WF_all(Curl(WakeAll \/ Join))
  /\ WF_all(Gpio(Work \/ FallAsleep \/ \E reason \in Reasons : WakeUp(reason)))

(* Nobody waits for ever at the clients: on the device a request that was   *)
(* queued is answered and workers that were told to end do, and in the     *)
(* simulator the destructor gets past its threads.                         *)
ClientsGoOn == PoolServes /\ DestructorEnds

SimulatorSpec == MCSpec /\ part = "simulator"
=============================================================================
