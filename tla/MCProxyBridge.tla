---------------------------- MODULE MCProxyBridge ----------------------------
(* ProxyBridge with the backlog of the code, and fewer attempts.           *)
EXTENDS ProxyBridge

(* What is not the proxy's fault: the ELM327 answers, and the transport    *)
(* gives an attempt up only when proxy and ELM327 have nothing left to do. *)
OthersDoTheirPart ==
  /\ WF_vars(ElmAnswers) /\ <>[][~ ElmIsSilent]_vars
  /\ <>[][DialFails \/ InitFails => ~ ENABLED (AcceptLoop \/ Pumps \/ ElmAnswers)]_vars

(* With an ELM327 that answers and calls that wait long enough, a          *)
(* reconnection on a link that stays up ends with a new stream.            *)
ReconnectHeals ==
  OthersDoTheirPart =>
    ((prog.at = "dial" /\ cur # None)
       ~> (cur > 1 \/ bt = "down" \/ owner # "running" \/ prog.at = "exit"))
=============================================================================
