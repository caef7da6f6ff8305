------------------------------ MODULE MCServers ------------------------------
(* The servers for TLC. They share nothing, so that their state spaces are  *)
(* put side by side: a behaviour is one of one server, chosen at the start. *)
EXTENDS FrontendServer, WebSocketApi, RestApi

VARIABLE part

Servers == {"frontend", "websocket", "rest"}

Init == part \in Servers /\ FrontInit /\ WsInit /\ RestInit

Next ==
  \/ part = "frontend" /\ FrontNext /\ UNCHANGED <<wsVars, restVars, part>>
  \/ part = "websocket" /\ WsNext /\ UNCHANGED <<frontVars, restVars, part>>
  \/ part = "rest" /\ RestNext /\ UNCHANGED <<frontVars, wsVars, part>>

Spec == Init /\ [][Next]_<<frontVars, wsVars, restVars, part>>

(* The servers of the API shut down as WsShutdown and RestShutdown say.     *)
ApiShutdown == WsShutdown /\ RestShutdown
==============================================================================
