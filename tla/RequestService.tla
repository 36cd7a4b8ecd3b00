---------------------------- MODULE RequestService ----------------------------
(***************************************************************************)
(* What an asynchronous HTTP client promises (HttpClientInterface.hpp):    *)
(* a request that is handed over is taken up in the order of arrival,      *)
(* executed once, and its future receives the answer to that very request. *)
(***************************************************************************)
EXTENDS Naturals, Sequences

CONSTANTS Requests, NoAnswer

VARIABLES
  waiting,        (* requests handed over and not taken up, oldest first   *)
  underway,       (* requests being executed                               *)
  answer          (* per future, the request its answer belongs to         *)

svars == <<waiting, underway, answer>>

Init ==
  /\ waiting = << >>
  /\ underway = {}
  /\ answer = [r \in Requests |-> NoAnswer]

InQueue(r) == \E i \in 1..Len(waiting) : waiting[i] = r

HandOver(r) ==
  /\ ~InQueue(r) /\ r \notin underway /\ answer[r] = NoAnswer
  /\ waiting' = Append(waiting, r)
  /\ UNCHANGED <<underway, answer>>

TakeUp ==
  /\ waiting # << >>
  /\ underway' = underway \cup {Head(waiting)}
  /\ waiting' = Tail(waiting)
  /\ UNCHANGED answer

Answer(r) ==
  /\ r \in underway
  /\ underway' = underway \ {r}
  /\ answer' = [answer EXCEPT ![r] = r]
  /\ UNCHANGED waiting

Next == TakeUp \/ \E r \in Requests : HandOver(r) \/ Answer(r)

Spec == Init /\ [][Next]_svars
=============================================================================
