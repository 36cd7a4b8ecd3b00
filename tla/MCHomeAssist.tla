---------------------------- MODULE MCHomeAssist ----------------------------
(***************************************************************************)
(* The connection and the messages share no variable; one instance checks  *)
(* them one after the other: part says which of them a behaviour is about, *)
(* and the other stays as it began.                                        *)
(***************************************************************************)
EXTENDS HomeAssistApi, HomeAssistMessages
VARIABLE part
mcVars == <<haVars, msgVars, part>>

\* Two handles for a single session, or a single handle for two sessions
MCRooms == {[clients |-> 2, kinds |-> <<"watch">>],
            [clients |-> 1, kinds |-> <<"watch", "query">>]}
MCMessages == <<[query |-> TRUE, tokens |-> <<"id", "other", "entity", "entity">>],
                [query |-> FALSE, tokens |-> <<"id", "other", "other">>],
                [query |-> FALSE, tokens |-> <<"id", "other", "other", "other">>]>>
MCInit ==
  /\ ApiInit /\ MsgInit /\ part \in {"api", "messages"}
  /\ part = "api" => ~simulator /\ ~wire.big
  /\ part = "messages" => room.clients = 1 /\ wifiUp /\ ~token   \* as a refused token asks nothing of the connection
Api(A) == part = "api" /\ A /\ UNCHANGED <<msgVars, part>>
Chunks(A) == part = "messages" /\ A /\ UNCHANGED <<haVars, part>>

MCNext == Api(HaNext) \/ Chunks(MsgNext)
MCSpec ==
  /\ MCInit /\ [][MCNext]_mcVars
  /\ WF_mcVars(Api(ApiLoop)) /\ WF_mcVars(Api(Elapse)) /\ WF_mcVars(Api(WifiStatus /\ ~wifiUp))
  /\ WF_mcVars(Api(\E c \in Clients : ClientTask(c))) /\ SF_mcVars(Api(Opens))
  /\ WF_mcVars(Api(\E c \in Clients : Reopening(c)))
  /\ WF_mcVars(Chunks(DataEvent)) /\ WF_mcVars(Chunks(RunLater))

\* The connection comes up and a session is started (HomeAssistApi); what is shown
\* is the list as the server sent it, and it comes to be shown (HomeAssistMessages).
HomeAssistGoesOn == ApiComesUp /\ ListArrives

=============================================================================
