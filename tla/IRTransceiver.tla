----------------------------- MODULE IRTransceiver -----------------------------
(***************************************************************************)
(* The infrared transceiver (lib/esp32HalImpl/ir): a message buffer, the   *)
(* task that empties it, and the receiver, which a transmission pauses.    *)
(* The main loop transmits too, from the IR Receiver page, without going   *)
(* through the buffer.                                                     *)
(*                                                                         *)
(* A transmission has a beginning and an end; the steps of the two tasks   *)
(* interleave in between.  A code that std::stoull and its kind refuse     *)
(* ends in an exception that nobody catches.                               *)
(***************************************************************************)
EXTENDS CommandFiles

CONSTANTS
  Known,          (* the protocols in IRInterface::protocol                *)
  Returning,      (* those for which send returns from its switch          *)
  Dropping,       (* those for which it has no case and comes to its end   *)
  Malformed,      (* the commands with a code that makes std::stoull throw *)
  MaxBuffer       (* room in the message buffer                            *)

Commands == {"IR"} \X Known \X Codes

ASSUME TransceiverAssumption ==
  /\ Known \subseteq Protocols
  /\ Returning \cup Dropping \cup {"DELAY"} \subseteq Known
  /\ "DELAY" \notin Returning \cup Dropping /\ Returning \cap Dropping = {}
  /\ Malformed \subseteq Commands
  /\ MaxBuffer \in Nat

VARIABLES
  buffer,         (* IRSendHandle                                          *)
  task,           (* where IRSendTask is                                   *)
  command,        (* the command it has taken                              *)
  loop,           (* the main loop is "free" or in "send" or "calibrate"   *)
  priority,       (* of the two tasks                                      *)
  preSend,        (* mPreSendPriority, which they share                    *)
  isRxEnabled,    (* mIsRxEnabled                                          *)
  receiver,       (* what the receiver is doing                            *)
  out             (* what left the remote in the last step                 *)

irvars == <<buffer, task, command, loop, priority, preSend, isRxEnabled, receiver, out>>

Tasks      == {"loop", "sender"}
Priorities == {"low", "max"}

IRTypeOK ==
  /\ buffer \in Seq(Commands)
  /\ Len(buffer) <= MaxBuffer
  /\ task \in {"receive", "wait", "send", "rest"}
  /\ command \in Commands \cup {Nothing}
  /\ (command # Nothing) <=> (task \in {"wait", "send"})
  /\ loop \in {"free", "send", "calibrate"}
  /\ priority \in [Tasks -> Priorities]
  /\ preSend \in Priorities
  /\ isRxEnabled \in BOOLEAN
  /\ receiver \in {"off", "on", "paused"}
  /\ isRxEnabled <=> (receiver # "off")
  /\ out \in Message \cup {Nothing}

IRStarted ==
  /\ buffer = << >>
  /\ task = "receive"
  /\ command = Nothing
  /\ loop = "free"
  /\ priority = [t \in Tasks |-> IF t = "loop" THEN "low" ELSE "max"]
  /\ preSend = "low"
  /\ isRxEnabled = FALSE
  /\ receiver = "off"

IRInit == IRStarted /\ out = Nothing

-------------------------------------------------------------------------------

(* sendBackground: never blocks, so a full buffer loses the command. A     *)
(* code fits into a message.                                               *)
sendBackground(c) ==
  buffer' = IF c \in Commands /\ Len(buffer) < MaxBuffer THEN Append(buffer, c) ELSE buffer

-------------------------------------------------------------------------------
(* What is around a transmission                                           *)

maxOutTaskPriority(t) ==
  /\ preSend' = priority[t]
  /\ priority' = [priority EXCEPT ![t] = "max"]

restoreTaskPriority(t) ==
  /\ priority' = [priority EXCEPT ![t] = preSend]
  /\ UNCHANGED preSend

Pause  == receiver' = IF isRxEnabled THEN "paused" ELSE receiver
Resume == receiver' = IF isRxEnabled THEN "on" ELSE receiver

-------------------------------------------------------------------------------
(* IRSendTask                                                              *)

Receive ==
  /\ task = "receive" /\ buffer # << >> /\ Head(buffer) \notin Malformed
  /\ command' = Head(buffer)
  /\ buffer' = Tail(buffer)
  /\ out' = Nothing
  /\ UNCHANGED <<loop, isRxEnabled>>
  /\ IF Head(buffer)[2] \in Returning \cup Dropping
     THEN task' = "send" /\ maxOutTaskPriority("sender") /\ Pause
     ELSE task' = "wait" /\ UNCHANGED <<priority, preSend, receiver>>

(* A DELAY is over, at once if it is of ten seconds or more; there is      *)
(* nothing to do for a protocol that is in none of the send types.         *)
Skip ==
  /\ task = "wait"
  /\ out' = IF command[2] = "DELAY" THEN command ELSE Nothing
  /\ command' = Nothing
  /\ task' = IF command[2] = "DELAY" THEN "receive" ELSE "rest"
  /\ UNCHANGED <<buffer, loop, priority, preSend, isRxEnabled, receiver>>

(* The cases of the switches in the four overloads of send return.         *)
Returns(c) == c[2] \in Returning

(* send ends: by return, or after the switch.                              *)
Transmit ==
  /\ task = "send"
  /\ out' = IF Returns(command) THEN command ELSE Nothing
  /\ command' = Nothing
  /\ task' = "rest"
  /\ IF Returns(command) THEN UNCHANGED <<priority, preSend, receiver>>
     ELSE restoreTaskPriority("sender") /\ Resume
  /\ UNCHANGED <<buffer, loop, isRxEnabled>>

(* 50 ms without another command.                                          *)
Rest ==
  /\ task = "rest"
  /\ task' = "receive"
  /\ out' = Nothing
  /\ UNCHANGED <<buffer, command, loop, priority, preSend, isRxEnabled, receiver>>

-------------------------------------------------------------------------------
(* The main loop on the IR Receiver page                                   *)

enableRx ==
  /\ loop = "free"
  /\ receiver' = IF isRxEnabled THEN receiver ELSE "on"
  /\ isRxEnabled' = TRUE
  /\ out' = Nothing
  /\ UNCHANGED <<buffer, task, command, loop, priority, preSend>>

disableRx ==
  /\ loop = "free"
  /\ receiver' = "off"
  /\ isRxEnabled' = FALSE
  /\ out' = Nothing
  /\ UNCHANGED <<buffer, task, command, loop, priority, preSend>>

(* Aux1: send(Samsung36).                                                  *)
Send ==
  /\ loop = "free"
  /\ loop' = "send"
  /\ Pause
  /\ maxOutTaskPriority("loop")
  /\ out' = Nothing
  /\ UNCHANGED <<buffer, task, command, isRxEnabled>>

Sent ==
  /\ loop = "send"
  /\ loop' = "free"
  /\ out' = Nothing
  /\ UNCHANGED <<buffer, task, command, priority, preSend, isRxEnabled, receiver>>

Calibrate ==
  /\ loop = "free"
  /\ loop' = "calibrate"
  /\ maxOutTaskPriority("loop")
  /\ out' = Nothing
  /\ UNCHANGED <<buffer, task, command, isRxEnabled, receiver>>

Calibrated ==
  /\ loop = "calibrate"
  /\ loop' = "free"
  /\ restoreTaskPriority("loop")
  /\ out' = Nothing
  /\ UNCHANGED <<buffer, task, command, isRxEnabled, receiver>>

(* Mutant: the result is taken, and nothing starts the receiver again.     *)
loopHandleRxNoResume ==
  /\ loop = "free" /\ receiver = "paused"
  /\ out' = Nothing
  /\ UNCHANGED <<buffer, task, command, loop, priority, preSend, isRxEnabled, receiver>>

(* Every turn of the loop: decode, with a save buffer, takes a receiver    *)
(* that has stopped for one with a result, and starts it again.            *)
loopHandleRx ==
  /\ loop = "free" /\ receiver = "paused"
  /\ receiver' = "on"
  /\ out' = Nothing
  /\ UNCHANGED <<buffer, task, command, loop, priority, preSend, isRxEnabled>>

Sender == Receive \/ Skip \/ Transmit \/ Rest
================================================================================
