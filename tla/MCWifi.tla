-------------------------------- MODULE MCWifi --------------------------------
(***************************************************************************)
(* WifiStation, WifiServices and SimWifi for TLC.  The station, the FTP    *)
(* server, the NTP client and the simulator's MQTT are each checked for    *)
(* themselves, the server and the NTP client against every way the         *)
(* connection may come and go; "part" says which of the four is looked at, *)
(* while the others rest.                                                  *)
(***************************************************************************)
EXTENDS WifiStation, WifiServices, SimWifi

VARIABLE part

MCGood  == {<<"home", "h">>, <<"guest", "g">>}
MCTyped == {<<"guest", "g">>}

all == <<vars, sVars, simVars, part>>

Station(A) == part = "station" /\ A /\ UNCHANGED <<sVars, simVars, part>>
FtpPart(A) == part = "ftp" /\ A /\ screen' # "ntp" /\ UNCHANGED <<ntpVars, vars, simVars, part>>
NtpPart(A) == part = "ntp" /\ A /\ screen' # "ftp" /\ UNCHANGED <<ftpVars, vars, simVars, part>>
Simulated(A) == part = "simulator" /\ A /\ UNCHANGED <<vars, sVars, part>>

\* the other parts leave the simulator at the start of its first run
SimAtRest == SimInit /\ alive /\ mMqttConnected

MCInit ==
  /\ Init /\ SInit
  /\ \/ part \in {"station", "ftp", "ntp"} /\ SimAtRest
     \/ part = "simulator" /\ saved = NoPair /\ SimInit

MCNext == Station(Next) \/ FtpPart(SNext) \/ NtpPart(SNext) \/ Simulated(SimNext)

MCSpec ==
  /\ MCInit /\ [][MCNext]_all
  /\ WF_all(Station(MainLoop)) /\ WF_all(Station(WiFiEvent)) /\ WF_all(Station(Join \/ Refuse))
  /\ SF_all(Station(Join)) /\ SF_all(Station(Address))
  /\ SF_all(FtpPart(FtpBegin)) /\ SF_all(FtpPart(FtpEnd)) /\ WF_all(FtpPart(Write))
  /\ WF_all(FtpPart(Tick))
  /\ SF_all(NtpPart(nptSync)) /\ WF_all(NtpPart(Write))

(* What was interrupted is taken up again: the page hears of its attempt,   *)
(* the remote finds its network after its sleeps, and FTP and NTP come to  *)
(* run and to end with the connection and their settings.                  *)
ConnectionsRecover == StationRecovers /\ ServicesFollow
================================================================================
