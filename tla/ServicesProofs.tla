--------------------------- MODULE ServicesProofs ---------------------------
(* Theorems about the three servers, each for itself, for any number of     *)
(* clients, symbols and messages, and about the services around the books:  *)
(* the arbitrage monitor, the aggregated book, the metrics collector and    *)
(* the configuration.                                                       *)
EXTENDS MCServers, ArbitrageMonitor, AggregatedBook, Collector, Configuration,
        SequenceTheorems, WellFoundedInduction, TLAPS

---------------------------------------------------------------------------
(* RestAPIServer: which thread is where, and what a failed bind leaves.     *)

Apis ==
  [running : BOOLEAN, socket : {"none", "open", "closed"},
   thread : {"none", "open", "bind", "test", "call", "accept", "ended", "joined"}, bindFailed : BOOLEAN]

(* While the server is used a thread serves it, unless that failed.         *)
Served ==
  /\ api.running => api.thread \in {"open", "bind", "test", "call", "accept"}
  /\ ~api.running => api.bindFailed /\ api.thread = "ended"

RestInv ==
  /\ owner \in {"new", "use", "join", "destroy", "gone", "terminated"} /\ api \in Apis
  /\ owner = "new" => api.thread = "none" /\ ~api.running
  /\ owner = "use" => Served
  /\ owner = "join" => api.thread \notin {"none", "joined"} /\ ~api.running
  /\ owner \in {"destroy", "gone", "terminated"} =>
       api.thread = "joined" \/ (api.thread = "ended" /\ api.bindFailed)
  /\ RestShutdown

LEMMA RestInvInitially == RestInit => RestInv
BY DEF RestInit, RestInv, Apis, RestShutdown

LEMMA RestInvPreserved == RestInv /\ [RestNext]_restVars => RestInv'
<1> SUFFICES ASSUME RestInv, [RestNext]_restVars PROVE RestInv'
  OBVIOUS
<1> USE DEF RestInv, Apis, Served, RestShutdown
<1>1. CASE OpenSocket
  BY <1>1 DEF OpenSocket
<1>2. CASE BindSocket
  BY <1>2 DEF BindSocket
<1>3. CASE AcceptLoop
  BY <1>3 DEF AcceptLoop
<1>4. CASE ServeClient
  BY <1>4 DEF ServeClient
<1>5. CASE start_api
  BY <1>5 DEF start_api
<1>6. CASE Register
  BY <1>6 DEF Register
<1>7. CASE stop_api
  BY <1>7 DEF stop_api
<1>8. CASE JoinServerThread
  BY <1>8 DEF JoinServerThread
<1>9. CASE DestroyApi
  BY <1>9 DEF DestroyApi
<1>10. CASE UNCHANGED restVars
  BY <1>10 DEF restVars
<1> QED BY <1>1, <1>2, <1>3, <1>4, <1>5, <1>6, <1>7, <1>8, <1>9, <1>10 DEF RestNext

(* RestAPIServer: destroying it calls std::terminate only when its thread   *)
(* could not open, bind or listen, and otherwise the thread was joined.     *)
THEOREM RestShutsDown == RestSpec => []RestShutdown
<1>1. RestInv => RestShutdown
  BY DEF RestInv
<1> QED BY <1>1, RestInvInitially, RestInvPreserved, PTL DEF RestSpec

---------------------------------------------------------------------------
(* WebSocketServer: the end of its I/O thread.                              *)

Srvs ==
  [running : BOOLEAN, listening : BOOLEAN, stopped : BOOLEAN,
   thread : {"none", "running", "ended", "joined"}]

ShutdownInv ==
  /\ srv \in Srvs /\ app \in {"new", "use", "close", "halt", "join", "destroy", "gone", "terminated"}
  /\ app = "new" => srv.thread = "none" /\ ~srv.stopped
  /\ app \in {"use", "close", "halt"} => srv.thread = "running" /\ ~srv.stopped
  /\ app = "join" => srv.thread \in {"running", "ended"}
  /\ app = "destroy" => srv.thread \in {"none", "joined"} \/ ending = "stop threw"
  /\ WsShutdown

LEMMA ShutdownInvInitially == WsInit => ShutdownInv
BY DEF WsInit, ShutdownInv, Srvs, WsShutdown

LEMMA ShutdownInvPreserved == ShutdownInv /\ [WsNext]_wsVars => ShutdownInv'
<1> SUFFICES ASSUME ShutdownInv, [WsNext]_wsVars PROVE ShutdownInv'
  OBVIOUS
<1> USE DEF ShutdownInv, WsShutdown
<1>1. ASSUME NEW c \in Subscribers, Connect(c) \/ on_open(c) \/ on_close(c) \/ on_message(c)
      PROVE  ShutdownInv'
  BY <1>1 DEF Connect, on_open, on_close, on_message
<1>2. CASE Broadcast
  BY <1>2 DEF Broadcast
<1> USE DEF Srvs
<1>3. CASE start_ws
  BY <1>3 DEF start_ws
<1>4. CASE stop_listening
  BY <1>4 DEF stop_listening
<1>5. CASE CloseConnections
  <2>1. srv' = srv /\ app = "close"
    BY <1>5 DEF CloseConnections
  <2>2. app' = "halt" \/ (app' = "destroy" /\ ending' = "stop threw")
    BY <1>5 DEF CloseConnections
  <2> QED BY <2>1, <2>2
<1>6. CASE StopServer
  BY <1>6 DEF StopServer
<1>7. CASE RunEnds
  BY <1>7 DEF RunEnds
<1>8. CASE JoinIoThread
  BY <1>8 DEF JoinIoThread
<1>9. CASE DestroyWs
  BY <1>9 DEF DestroyWs
<1>10. CASE UNCHANGED wsVars
  BY <1>10 DEF wsVars
<1> QED BY <1>1, <1>2, <1>3, <1>4, <1>5, <1>6, <1>7, <1>8, <1>9, <1>10 DEF WsNext

(* WebSocketServer: destroying it calls std::terminate only when stop met a *)
(* connection that was closing already.                                     *)
THEOREM WsShutsDown == WsSpec => []WsShutdown
<1>1. ShutdownInv => WsShutdown
  BY DEF ShutdownInv
<1> QED BY <1>1, ShutdownInvInitially, ShutdownInvPreserved, PTL DEF WsSpec

(* Both servers of the API, running beside each other: whenever the         *)
(* application stops and destroys them, std::terminate is called only when  *)
(* stop of the one met a connection that was closing already or the thread  *)
(* of the other could not open its port.                                    *)
THEOREM ApisShutDown == WsSpec /\ RestSpec => []ApiShutdown
<1>1. WsShutdown /\ RestShutdown => ApiShutdown
  BY DEF ApiShutdown
<1> QED BY <1>1, WsShutsDown, RestShutsDown, PTL

---------------------------------------------------------------------------
(* WebSocketServer: confirmations and subscriptions.                        *)

Messages ==
  [type : {"subscribed", "unsubscribed", "orderbook", "analytics", "arbitrage"}, symbol : Symbols]

WsTypes ==
  /\ conn \in [Subscribers -> {"none", "connecting", "open", "closing", "closed"}]
  /\ connections \subseteq Subscribers
  /\ sub \in [Subscribers -> [symbols : SUBSET Symbols, channels : SUBSET Channels]]
  /\ out \in [Subscribers -> Seq(Messages)]

(* A client that has not connected was sent nothing.                        *)
FreshSilent == \A c \in Subscribers : conn[c] \in {"none", "connecting"} => out[c] = << >>

WsInv == WsTypes /\ FreshSilent /\ ConfirmationsBracket

(* What one more message makes of the confirmations before a position.      *)
LEMMA ConfirmedBefore ==
  ASSUME NEW s \in Seq(Messages), NEW m \in Messages, NEW sym, NEW i \in 1 .. Len(s) + 1
  PROVE  Confirmed(Append(s, m), sym, i) <=> Confirmed(s, sym, i)
<1>1. \A j \in 1 .. i - 1 : Append(s, m)[j] = s[j]
  BY AppendProperties, LenProperties
<1> QED BY <1>1, LenProperties DEF Confirmed

LEMMA ConfirmedAfter ==
  ASSUME NEW s \in Seq(Messages), NEW m \in Messages, NEW sym
  PROVE  /\ About(m, sym) => (Confirmed(Append(s, m), sym, Len(s) + 2) <=> m.type = "subscribed")
         /\ ~About(m, sym) =>
              (Confirmed(Append(s, m), sym, Len(s) + 2) <=> Confirmed(s, sym, Len(s) + 1))
<1> DEFINE t == Append(s, m)  n == Len(s)
<1>1. n \in Nat /\ t[n + 1] = m /\ \A j \in 1 .. n : t[j] = s[j]
  BY AppendProperties, LenProperties
<1> HIDE DEF t, n
<1>2. ASSUME About(m, sym), m.type = "subscribed" PROVE Confirmed(t, sym, n + 2)
  <2>1. n + 1 \in 1 .. (n + 2) - 1 /\ (n + 1) + 1 .. (n + 2) - 1 = {}
    BY <1>1
  <2> QED BY <1>1, <1>2, <2>1 DEF Confirmed
<1>3. ASSUME About(m, sym), Confirmed(t, sym, n + 2) PROVE m.type = "subscribed"
  <2>1. PICK j \in 1 .. (n + 2) - 1 :
          /\ t[j].type = "subscribed"
          /\ \A k \in j + 1 .. (n + 2) - 1 : ~About(t[k], sym)
    BY <1>3 DEF Confirmed
  <2>2. j = n + 1
    <3>1. SUFFICES ASSUME j # n + 1 PROVE FALSE
      OBVIOUS
    <3>2. n + 1 \in j + 1 .. (n + 2) - 1
      BY <1>1, <3>1
    <3> QED BY <1>1, <1>3, <2>1, <3>2
  <2> QED BY <1>1, <2>1, <2>2
<1>4. ASSUME ~About(m, sym), Confirmed(t, sym, n + 2) PROVE Confirmed(s, sym, n + 1)
  <2>1. PICK j \in 1 .. (n + 2) - 1 :
          /\ About(t[j], sym) /\ t[j].type = "subscribed"
          /\ \A k \in j + 1 .. (n + 2) - 1 : ~About(t[k], sym)
    BY <1>4 DEF Confirmed
  <2>2. j \in 1 .. (n + 1) - 1
    BY <1>1, <1>4, <2>1
  <2>3. \A k \in j + 1 .. (n + 1) - 1 : ~About(s[k], sym)
    BY <1>1, <2>1, <2>2
  <2>4. About(s[j], sym) /\ s[j].type = "subscribed"
    BY <1>1, <2>1, <2>2
  <2> QED BY <2>2, <2>3, <2>4 DEF Confirmed
<1>5. ASSUME ~About(m, sym), Confirmed(s, sym, n + 1) PROVE Confirmed(t, sym, n + 2)
  <2>1. PICK j \in 1 .. (n + 1) - 1 :
          /\ About(s[j], sym) /\ s[j].type = "subscribed"
          /\ \A k \in j + 1 .. (n + 1) - 1 : ~About(s[k], sym)
    BY <1>5 DEF Confirmed
  <2>2. \A k \in j + 1 .. (n + 2) - 1 : ~About(t[k], sym)
    BY <1>1, <1>5, <2>1
  <2>3. j \in 1 .. (n + 2) - 1 /\ About(t[j], sym) /\ t[j].type = "subscribed"
    BY <1>1, <2>1
  <2> QED BY <2>2, <2>3 DEF Confirmed
<1> QED BY <1>2, <1>3, <1>4, <1>5 DEF t, n

(* One more message, which may be about the market only if its symbol was   *)
(* confirmed at last.                                                       *)
LEMMA OneMoreMessage ==
  ASSUME NEW s \in Seq(Messages), NEW m \in Messages, BracketedByConfirmations(s),
         m.type \in {"orderbook", "analytics"} => m.symbol \in ConfirmedAtLast(s)
  PROVE  /\ BracketedByConfirmations(Append(s, m)) /\ Append(s, m) \in Seq(Messages)
         /\ m.type = "subscribed" => ConfirmedAtLast(Append(s, m)) = ConfirmedAtLast(s) \union {m.symbol}
         /\ m.type = "unsubscribed" => ConfirmedAtLast(Append(s, m)) = ConfirmedAtLast(s) \ {m.symbol}
         /\ m.type \notin {"subscribed", "unsubscribed"} =>
              ConfirmedAtLast(Append(s, m)) = ConfirmedAtLast(s)
<1> DEFINE t == Append(s, m)  n == Len(s)
<1>1. /\ n \in Nat /\ t \in Seq(Messages) /\ Len(t) = n + 1 /\ t[n + 1] = m
      /\ DOMAIN t = 1 .. n + 1 /\ DOMAIN s = 1 .. n
      /\ \A j \in 1 .. n : t[j] = s[j]
  BY AppendProperties, LenProperties
<1>2. \A sym : \A i \in 1 .. n + 1 : Confirmed(t, sym, i) <=> Confirmed(s, sym, i)
  BY ConfirmedBefore
<1>3. \A sym : /\ About(m, sym) => (Confirmed(t, sym, n + 2) <=> m.type = "subscribed")
               /\ ~About(m, sym) => (Confirmed(t, sym, n + 2) <=> Confirmed(s, sym, n + 1))
  BY ConfirmedAfter
<1> HIDE DEF t, n
<1>4. ConfirmedAtLast(s) = {sym \in Symbols : Confirmed(s, sym, n + 1)}
  BY DEF ConfirmedAtLast, n
<1>5. ConfirmedAtLast(t) = {sym \in Symbols : Confirmed(t, sym, n + 2)}
  <2>1. Len(t) + 1 = n + 2
    BY <1>1
  <2> QED BY <2>1 DEF ConfirmedAtLast
<1>6. BracketedByConfirmations(t)
  <2> SUFFICES ASSUME NEW i \in 1 .. n + 1, t[i].type \in {"orderbook", "analytics"}
               PROVE  Confirmed(t, t[i].symbol, i)
    BY <1>1 DEF BracketedByConfirmations
  <2>1. CASE i = n + 1
    BY <1>1, <1>2, <1>4, <2>1
  <2>2. CASE i # n + 1
    <3>1. i \in 1 .. n /\ t[i] = s[i]
      BY <1>1, <2>2
    <3>2. Confirmed(s, s[i].symbol, i)
      BY <1>1, <3>1 DEF BracketedByConfirmations
    <3> QED BY <1>2, <3>1, <3>2
  <2> QED BY <2>1, <2>2
<1>7. m.symbol \in Symbols
  BY DEF Messages
<1>8. m.type = "subscribed" => ConfirmedAtLast(t) = ConfirmedAtLast(s) \union {m.symbol}
  BY <1>3, <1>4, <1>5, <1>7 DEF About
<1>9. m.type = "unsubscribed" => ConfirmedAtLast(t) = ConfirmedAtLast(s) \ {m.symbol}
  BY <1>3, <1>4, <1>5, <1>7 DEF About
<1>10. m.type \notin {"subscribed", "unsubscribed"} => ConfirmedAtLast(t) = ConfirmedAtLast(s)
  BY <1>3, <1>4, <1>5 DEF About
<1> QED BY <1>1, <1>6, <1>8, <1>9, <1>10 DEF t

LEMMA WsInvInitially == WsInit => WsInv
<1> SUFFICES ASSUME WsInit PROVE WsInv
  OBVIOUS
<1>1. WsTypes /\ FreshSilent
  BY DEF WsInit, WsTypes, FreshSilent, NoSubscription
<1>2. \A c \in Subscribers : out[c] = << >> /\ c \notin connections
  BY DEF WsInit
<1>3. BracketedByConfirmations(<< >>)
  BY DEF BracketedByConfirmations
<1> QED BY <1>1, <1>2, <1>3 DEF WsInv, ConfirmationsBracket

(* A client keeps what it was told and the server holds for it, or is sent  *)
(* one message that fits.                                                   *)
Kept(c) == out'[c] = out[c] /\ sub'[c] = sub[c]

Sent(c, m) ==
  /\ c \in connections /\ conn[c] = "open" /\ m \in Messages /\ out'[c] = Append(out[c], m)
  /\ \/ /\ m.type = "subscribed" /\ sub'[c].symbols = sub[c].symbols \union {m.symbol}
     \/ /\ m.type = "unsubscribed" /\ sub'[c].symbols = sub[c].symbols \ {m.symbol}
     \/ /\ m.type = "arbitrage" /\ sub'[c].symbols = sub[c].symbols
     \/ /\ m.type \in {"orderbook", "analytics"} /\ m.symbol \in sub[c].symbols
        /\ sub'[c].symbols = sub[c].symbols

LEMMA SendingKeeps ==
  ASSUME WsInv, UNCHANGED <<conn, connections>>,
         sub' \in [Subscribers -> [symbols : SUBSET Symbols, channels : SUBSET Channels]],
         out' \in [Subscribers -> Seq(Messages)],
         \A c \in Subscribers : Kept(c) \/ \E m \in Messages : Sent(c, m)
  PROVE  WsInv'
<1>1. WsTypes'
  BY DEF WsInv, WsTypes
<1>2. FreshSilent'
  <2> SUFFICES ASSUME NEW c \in Subscribers, conn[c] \in {"none", "connecting"} PROVE out'[c] = << >>
    BY DEF FreshSilent
  <2>1. Kept(c)
    BY DEF Sent
  <2> QED BY <2>1 DEF WsInv, FreshSilent, Kept
<1>3. ConfirmationsBracket'
  <2> SUFFICES ASSUME NEW c \in Subscribers
               PROVE  /\ BracketedByConfirmations(out'[c])
                      /\ c \in connections /\ conn[c] = "open" =>
                           sub'[c].symbols = ConfirmedAtLast(out'[c])
    BY DEF ConfirmationsBracket
  <2>1. /\ BracketedByConfirmations(out[c]) /\ out[c] \in Seq(Messages)
        /\ c \in connections /\ conn[c] = "open" => sub[c].symbols = ConfirmedAtLast(out[c])
    BY DEF WsInv, ConfirmationsBracket, WsTypes
  <2>2. CASE Kept(c)
    BY <2>1, <2>2 DEF Kept
  <2>3. ASSUME NEW m \in Messages, Sent(c, m)
        PROVE  /\ BracketedByConfirmations(out'[c])
               /\ sub'[c].symbols = ConfirmedAtLast(out'[c])
    <3>1. sub[c].symbols = ConfirmedAtLast(out[c]) /\ out'[c] = Append(out[c], m)
      BY <2>1, <2>3 DEF Sent
    <3> DEFINE s == out[c]
    <3>2. s \in Seq(Messages) /\ BracketedByConfirmations(s)
      BY <2>1
    <3>3. m.type \in {"orderbook", "analytics"} => m.symbol \in ConfirmedAtLast(s)
      BY <2>3, <3>1 DEF Sent
    <3> HIDE DEF s
    <3>4. /\ BracketedByConfirmations(Append(s, m))
          /\ m.type = "subscribed" => ConfirmedAtLast(Append(s, m)) = ConfirmedAtLast(s) \union {m.symbol}
          /\ m.type = "unsubscribed" => ConfirmedAtLast(Append(s, m)) = ConfirmedAtLast(s) \ {m.symbol}
          /\ m.type \notin {"subscribed", "unsubscribed"} =>
               ConfirmedAtLast(Append(s, m)) = ConfirmedAtLast(s)
      BY <3>2, <3>3, OneMoreMessage
    <3> QED BY <2>3, <3>1, <3>4 DEF Sent, s
  <2> QED BY <2>2, <2>3
<1> QED BY <1>1, <1>2, <1>3 DEF WsInv

LEMMA OnMessageKeeps ==
  ASSUME WsInv, NEW c \in Subscribers, on_message(c)
  PROVE  WsInv'
<1> USE DEF WsInv, WsTypes
<1>1. UNCHANGED <<conn, connections>> /\ conn[c] = "open"
  BY DEF on_message
<1>2. CASE c \notin connections
  <2>1. UNCHANGED <<sub, out>>
    BY <1>2 DEF on_message
  <2> QED BY <1>1, <2>1, SendingKeeps DEF Kept
<1>3. ASSUME c \in connections, NEW sym \in Symbols, NEW ch \in Channels, handle_subscribe(c, sym, {ch})
      PROVE  WsInv'
  <2> DEFINE m == [type |-> "subscribed", symbol |-> sym]
  <2>1. m \in Messages /\ m.type = "subscribed" /\ m.symbol = sym
    BY DEF Messages
  <2>2. out' = [d \in Subscribers |-> IF d \in {c} /\ conn[d] = "open" THEN Append(out[d], m) ELSE out[d]]
    BY <1>3 DEF handle_subscribe, send_message
  <2>3. sub' = [sub EXCEPT ![c].symbols = @ \union {sym}, ![c].channels = @ \union {ch}]
    BY <1>3 DEF handle_subscribe
  <2> HIDE DEF m
  <2>4. /\ sub' \in [Subscribers -> [symbols : SUBSET Symbols, channels : SUBSET Channels]]
        /\ sub'[c].symbols = sub[c].symbols \union {sym}
        /\ \A d \in Subscribers \ {c} : sub'[d] = sub[d]
    BY <2>3
  <2>5. /\ out' \in [Subscribers -> Seq(Messages)] /\ out'[c] = Append(out[c], m)
        /\ \A d \in Subscribers \ {c} : out'[d] = out[d]
    BY <1>1, <2>1, <2>2, AppendProperties
  <2>6. Sent(c, m)
    BY <1>1, <1>3, <2>1, <2>4, <2>5 DEF Sent
  <2>7. \A d \in Subscribers : Kept(d) \/ \E n \in Messages : Sent(d, n)
    BY <2>1, <2>4, <2>5, <2>6 DEF Kept
  <2> QED BY <1>1, <2>4, <2>5, <2>7, SendingKeeps
<1>4. ASSUME c \in connections, NEW sym \in Symbols, handle_unsubscribe(c, sym)
      PROVE  WsInv'
  <2> DEFINE m == [type |-> "unsubscribed", symbol |-> sym]
  <2>1. m \in Messages /\ m.type = "unsubscribed" /\ m.symbol = sym
    BY DEF Messages
  <2>2. out' = [d \in Subscribers |-> IF d \in {c} /\ conn[d] = "open" THEN Append(out[d], m) ELSE out[d]]
    BY <1>4 DEF handle_unsubscribe, send_message
  <2>3. sub' = [sub EXCEPT ![c].symbols = @ \ {sym}]
    BY <1>4 DEF handle_unsubscribe
  <2> HIDE DEF m
  <2>4. /\ sub' \in [Subscribers -> [symbols : SUBSET Symbols, channels : SUBSET Channels]]
        /\ sub'[c].symbols = sub[c].symbols \ {sym}
        /\ \A d \in Subscribers \ {c} : sub'[d] = sub[d]
    BY <2>3
  <2>5. /\ out' \in [Subscribers -> Seq(Messages)] /\ out'[c] = Append(out[c], m)
        /\ \A d \in Subscribers \ {c} : out'[d] = out[d]
    BY <1>1, <2>1, <2>2, AppendProperties
  <2>6. Sent(c, m)
    BY <1>1, <1>4, <2>1, <2>4, <2>5 DEF Sent
  <2>7. \A d \in Subscribers : Kept(d) \/ \E n \in Messages : Sent(d, n)
    BY <2>1, <2>4, <2>5, <2>6 DEF Kept
  <2> QED BY <1>1, <2>4, <2>5, <2>7, SendingKeeps
<1> QED BY <1>2, <1>3, <1>4 DEF on_message

LEMMA BroadcastKeeps ==
  ASSUME WsInv, Broadcast
  PROVE  WsInv'
<1> USE DEF WsInv, WsTypes
<1>1. UNCHANGED <<conn, connections, sub>>
  BY DEF Broadcast
<1>2. ASSUME NEW to \in SUBSET connections, NEW m \in Messages, send_message(to, m),
             \/ m.type = "arbitrage"
             \/ m.type \in {"orderbook", "analytics"} /\ \A c \in to : m.symbol \in sub[c].symbols
      PROVE  WsInv'
  <2>1. out' = [d \in Subscribers |-> IF d \in to /\ conn[d] = "open" THEN Append(out[d], m) ELSE out[d]]
    BY <1>2 DEF send_message
  <2>2. /\ out' \in [Subscribers -> Seq(Messages)]
        /\ \A d \in Subscribers : \/ out'[d] = out[d]
                                  \/ d \in to /\ conn[d] = "open" /\ out'[d] = Append(out[d], m)
    BY <2>1, AppendProperties
  <2>3. \A d \in Subscribers : Kept(d) \/ Sent(d, m)
    BY <1>1, <1>2, <2>2 DEF Kept, Sent
  <2> QED BY <1>1, <2>2, <2>3, SendingKeeps
<1>3. ASSUME NEW sym \in Symbols, broadcast_orderbook(sym) PROVE WsInv'
  <2> DEFINE m == create_orderbook_message(sym)
  <2>1. m \in Messages /\ m.type = "orderbook" /\ m.symbol = sym
    BY DEF Messages, create_orderbook_message
  <2>2. send_message({c \in connections : sym \in sub[c].symbols}, m)
    BY <1>3 DEF broadcast_orderbook, broadcast_to_subscribers
  <2> HIDE DEF m
  <2> QED BY <1>2, <2>1, <2>2
<1>4. ASSUME NEW sym \in Symbols, broadcast_analytics(sym) PROVE WsInv'
  <2> DEFINE m == create_analytics_message(sym)
  <2>1. m \in Messages /\ m.type = "analytics" /\ m.symbol = sym
    BY DEF Messages, create_analytics_message
  <2>2. send_message({c \in connections : sym \in sub[c].symbols}, m)
    BY <1>4 DEF broadcast_analytics, broadcast_to_subscribers
  <2> HIDE DEF m
  <2> QED BY <1>2, <2>1, <2>2
<1>5. ASSUME NEW sym \in Symbols, broadcast_arbitrage(sym) PROVE WsInv'
  <2> DEFINE m == create_arbitrage_message(sym)
  <2>1. m \in Messages /\ m.type = "arbitrage"
    BY DEF Messages, create_arbitrage_message
  <2>2. send_message(connections, m)
    BY <1>5 DEF broadcast_arbitrage
  <2> HIDE DEF m
  <2> QED BY <1>2, <2>1, <2>2
<1> QED BY <1>3, <1>4, <1>5 DEF Broadcast

(* A connection that opens is new; the others only close.                   *)
LEMMA ConnectionsKeep ==
  ASSUME WsInv, out' = out, conn' \in [Subscribers -> {"none", "connecting", "open", "closing", "closed"}],
         connections' \subseteq Subscribers,
         sub' \in [Subscribers -> [symbols : SUBSET Symbols, channels : SUBSET Channels]],
         \A c \in Subscribers :
           /\ conn'[c] \in {"none", "connecting"} => conn[c] \in {"none", "connecting"}
           /\ \/ sub'[c] = sub[c] /\ (c \in connections' => c \in connections)
                 /\ (conn'[c] = "open" => conn[c] = "open")
              \/ conn[c] = "connecting" /\ sub'[c].symbols = {}
  PROVE  WsInv'
<1>1. WsTypes' /\ FreshSilent'
  BY DEF WsInv, WsTypes, FreshSilent
<1>2. BracketedByConfirmations(<< >>) /\ ConfirmedAtLast(<< >>) = {}
  BY DEF BracketedByConfirmations, ConfirmedAtLast, Confirmed
<1>3. ConfirmationsBracket'
  BY <1>2 DEF WsInv, FreshSilent, ConfirmationsBracket
<1> QED BY <1>1, <1>3 DEF WsInv

LEMMA WsInvPreserved == WsInv /\ [WsNext]_wsVars => WsInv'
<1> SUFFICES ASSUME WsInv, [WsNext]_wsVars PROVE WsInv'
  OBVIOUS
<1>1. ASSUME NEW c \in Subscribers, Connect(c) PROVE WsInv'
  BY <1>1, ConnectionsKeep DEF Connect, WsInv, WsTypes
<1>2. ASSUME NEW c \in Subscribers, on_open(c) PROVE WsInv'
  <2>1. sub'[c].symbols = {} /\ \A d \in Subscribers \ {c} : sub'[d] = sub[d]
    BY <1>2 DEF on_open, NoSubscription, WsInv, WsTypes
  <2>2. sub' \in [Subscribers -> [symbols : SUBSET Symbols, channels : SUBSET Channels]]
    BY <1>2 DEF on_open, NoSubscription, WsInv, WsTypes
  <2> QED BY <1>2, <2>1, <2>2, ConnectionsKeep DEF on_open, WsInv, WsTypes
<1>3. ASSUME NEW c \in Subscribers, on_close(c) PROVE WsInv'
  BY <1>3, ConnectionsKeep DEF on_close, WsInv, WsTypes
<1>4. ASSUME NEW c \in Subscribers, on_message(c) PROVE WsInv'
  BY <1>4, OnMessageKeeps
<1>5. CASE Broadcast
  BY <1>5, BroadcastKeeps
<1>6. CASE CloseConnections
  BY <1>6, ConnectionsKeep DEF CloseConnections, WsInv, WsTypes
<1>7. CASE UNCHANGED <<conn, connections, sub, out>>
  BY <1>7, ConnectionsKeep DEF WsInv, WsTypes
<1> QED BY <1>1, <1>2, <1>3, <1>4, <1>5, <1>6, <1>7
        DEF WsNext, wsVars, start_ws, stop_listening, StopServer, RunEnds, JoinIoThread, DestroyWs

(* WebSocketServer: whatever the threads do, a client is sent market data   *)
(* only between the confirmations of its subscription, and the server holds *)
(* the symbols it confirmed.                                                *)
THEOREM ConfirmationsAreTrue == WsSpec => []ConfirmationsBracket
<1>1. WsInv => ConfirmationsBracket
  BY DEF WsInv
<1> QED BY <1>1, WsInvInitially, WsInvPreserved, PTL DEF WsSpec

---------------------------------------------------------------------------
(* The server program: what a round of main's loop sends.                   *)

LEMMA TurnsAre ==
  /\ EndOfRound = 6 /\ DOMAIN Turns = 1 .. 5
  /\ \A t \in 1 .. 5 :
       Turns[t].stored => Turns[t].msg = format_order_book_update(Turns[t].msg.symbol)
  /\ \A t \in 1 .. 5 : Turns[t].stored => Turns[t].msg.symbol \in StoredSymbols
  /\ StoredSymbols = {"BTC-USD", "ETH-USD"}
  /\ \A t \in {1, 4, 5} : SkipTo[t] \in 1 .. 6
  /\ DOMAIN SkipTo = {1, 4, 5}
<1> USE DEF format_order_book_update, format_trade, format_metrics
<1>1. /\ Turns[1] = [msg |-> [type |-> "order_book_update", symbol |-> "BTC-USD"], stored |-> TRUE]
      /\ Turns[2] = [msg |-> [type |-> "order_book_update", symbol |-> "BTC-USD"], stored |-> FALSE]
      /\ Turns[3] = [msg |-> [type |-> "order_book_update", symbol |-> "ETH-USD"], stored |-> TRUE]
      /\ Turns[4].stored = FALSE /\ Turns[5].stored = FALSE
      /\ DOMAIN Turns = 1 .. 5 /\ Len(Turns) = 5
  BY DEF Turns
<1>2. \A t \in 1 .. 5 : t = 1 \/ t = 2 \/ t = 3 \/ t = 4 \/ t = 5
  OBVIOUS
<1>3. \A t \in 1 .. 5 : Turns[t].stored <=> t \in {1, 3}
  BY <1>1, <1>2
<1>4. /\ Turns[1].msg = format_order_book_update("BTC-USD") /\ Turns[1].msg.symbol = "BTC-USD"
      /\ Turns[3].msg = format_order_book_update("ETH-USD") /\ Turns[3].msg.symbol = "ETH-USD"
  BY <1>1
<1>5. StoredSymbols = {"BTC-USD", "ETH-USD"}
  BY <1>1, <1>3, <1>4 DEF StoredSymbols
<1>6. EndOfRound = 6
  BY <1>1 DEF EndOfRound
<1>7. DOMAIN SkipTo = {1, 4, 5} /\ \A t \in {1, 4, 5} : SkipTo[t] \in 1 .. 6
  BY DEF SkipTo
<1> HIDE DEF format_order_book_update
<1> QED BY <1>1, <1>3, <1>4, <1>5, <1>6, <1>7

---------------------------------------------------------------------------
(* The inductive invariant of the server program.                           *)

SessionsUpTo(n) ==
  [state : {"none", "handshake", "open", "gone"}, op : {"none", "accept", "welcome", "pong", "read"},
   write_queue : Seq(1 .. n), write : {"none", "started", "refused"}, failed : BOOLEAN, sent : Seq(1 .. n)]

Answers == [symbol : {"none", "BTC-USD", "ETH-USD", "XRP-USD"}, code : Nat, book : Nat]

WsServers ==
  [running : BOOLEAN, ioc : {"none", "live", "stopped"},
   thread : {"none", "setup", "run", "ended", "threw", "joined"}, accepting : BOOLEAN]

RestServers ==
  [running : BOOLEAN, open : BOOLEAN, thread : {"none", "test", "accept", "handle", "ended", "joined"},
   answer : Answers]

FrontTypes ==
  /\ turn \in 1 .. 6 /\ produced \in Seq(1 .. 5) /\ latest \in [StoredSymbols -> Nat]
  /\ ws \in WsServers /\ rest \in RestServers
  /\ sessions \subseteq Clients /\ told \in [Clients -> Seq(1 .. Len(produced))]
  /\ sess \in [Clients -> SessionsUpTo(Len(produced))]

(* A session k that was given the messages t: QueueSound, and a write that  *)
(* failed leaves its message in the queue.                                  *)
SessionSound(k, t) ==
  /\ t = k.sent \o k.write_queue
  /\ k.write # "none" <=> k.write_queue # << >> /\ ~k.failed
  /\ k.failed => k.write_queue # << >>
  /\ k.state = "none" => t = << >> /\ k.op = "none" /\ k.write = "none"

SessionsSound ==
  /\ \A c \in Clients : SessionSound(sess[c], told[c])
  /\ \A c \in sessions : sess[c].state # "none"

(* Where main stands, where the threads may stand.                          *)
ThreadsSound ==
  /\ main \in {"ws.start", "rest.start", "loop", "store", "stop", "close", "ioc.stop", "ws.join",
               "rest.stop", "rest.join", "destroy", "exit"}
  /\ main \in {"ws.start", "rest.start"} => rest.thread = "none" /\ ~rest.running
  /\ main \in {"rest.start", "loop", "store", "stop"} /\ ~ws.running => ws.thread = "threw"
  /\ main \in {"rest.stop", "rest.join", "destroy", "exit"} => ws.thread \in {"joined", "threw"}
  /\ main \notin {"rest.join", "destroy", "exit"} => (rest.running <=> rest.thread # "none")
  /\ main \in {"destroy", "exit"} => rest.thread \in {"none", "joined"}

(* What main has stored for REST.                                           *)
StoredSound ==
  /\ main = "store" => /\ turn \in 1 .. 5 /\ Turns[turn].stored
                       /\ Len(produced) > 0 /\ produced[Len(produced)] = turn
  /\ \A s \in StoredSymbols :
       /\ latest[s] <= Len(produced)
       /\ latest[s] # 0 => Turns[produced[latest[s]]].msg = format_order_book_update(s)
  /\ \A m \in 1 .. Len(produced) :
       Turns[produced[m]].stored /\ ~(main = "store" /\ m = Len(produced)) =>
         latest[Turns[produced[m]].msg.symbol] >= m
  /\ rest.thread \in {"accept", "handle"} => rest.answer.symbol = "none"

FrontInv == FrontTypes /\ SessionsSound /\ ThreadsSound /\ StoredSound /\ AbortsExplained

LEMMA FrontInvInitially == FrontInit => FrontInv
<1> SUFFICES ASSUME FrontInit PROVE FrontInv
  OBVIOUS
<1> USE DEF FrontInit
<1>1. << >> \in Seq(1 .. 0) /\ << >> \in Seq(1 .. 5) /\ Len(<< >>) = 0 /\ << >> \o << >> = << >>
  OBVIOUS
<1>2. NoSession \in SessionsUpTo(0)
  BY <1>1 DEF NoSession, SessionsUpTo
<1>3. FrontTypes
  <2>1. NoAnswer \in Answers
    BY DEF NoAnswer, Answers
  <2>2. rest \in RestServers /\ ws \in WsServers
    BY <2>1 DEF RestServers, WsServers
  <2>3. Len(produced) = 0 /\ produced \in Seq(1 .. 5) /\ turn \in 1 .. 6
    BY <1>1, TurnsAre
  <2>4. sess \in [Clients -> SessionsUpTo(0)] /\ told \in [Clients -> Seq(1 .. 0)]
    BY <1>1, <1>2
  <2> QED BY <2>2, <2>3, <2>4 DEF FrontTypes
<1>4. SessionSound(NoSession, << >>)
  BY <1>1 DEF SessionSound, NoSession
<1>5. SessionsSound
  BY <1>4 DEF SessionsSound
<1>6. ThreadsSound /\ AbortsExplained
  BY DEF ThreadsSound, AbortsExplained
<1>7. StoredSound
  BY <1>1 DEF StoredSound
<1> QED BY <1>3, <1>5, <1>6, <1>7 DEF FrontInv

---------------------------------------------------------------------------
(* Sessions: what send and on_write make of one.                            *)

LEMMA StartWriteIs ==
  ASSUME NEW n \in Nat, NEW k \in SessionsUpTo(n)
  PROVE  /\ StartWrite(k) \in SessionsUpTo(n) /\ StartWrite(k).write # "none"
         /\ StartWrite(k).state = k.state /\ StartWrite(k).failed = k.failed
         /\ StartWrite(k).sent = k.sent /\ StartWrite(k).write_queue = k.write_queue
<1> DEFINE to == IF k.state = "open" THEN "started" ELSE "refused"
<1>1. StartWrite(k) = [k EXCEPT !.write = to]
  BY DEF StartWrite
<1>2. to \in {"started", "refused"}
  OBVIOUS
<1> HIDE DEF to
<1> QED BY <1>1, <1>2 DEF SessionsUpTo

(* Concatenation under a name of its own, which the provers leave alone.    *)
Cat(a, b) == a \o b

LEMMA Regrouped ==
  \A S : \A a, b, c \in Seq(S) : Cat(Cat(a, b), c) = Cat(a, Cat(b, c))
BY ConcatAssociative DEF Cat

LEMMA SendSound ==
  ASSUME NEW n \in Nat, NEW k \in SessionsUpTo(n), NEW t \in Seq(1 .. n), NEW m \in 1 .. n,
         SessionSound(k, t), k.state # "none"
  PROVE  /\ send(k, m) \in SessionsUpTo(n) /\ send(k, m).state = k.state
         /\ SessionSound(send(k, m), Append(t, m)) /\ Append(t, m) \in Seq(1 .. n)
<1> DEFINE q == k.write_queue \o <<m>>
           grown == [k EXCEPT !.write_queue = q]
<1>1. k.write_queue \in Seq(1 .. n) /\ k.sent \in Seq(1 .. n) /\ k.failed \in BOOLEAN
  BY DEF SessionsUpTo
<1>2. <<m>> \in Seq(1 .. n) /\ Len(<<m>>) = 1
  OBVIOUS
<1>3. /\ q \in Seq(1 .. n) /\ Len(q) = Len(k.write_queue) + 1 /\ q # << >>
      /\ Len(q) = 1 <=> k.write_queue = << >>
  <2>1. q \in Seq(1 .. n) /\ Len(q) = Len(k.write_queue) + 1 /\ Len(k.write_queue) \in Nat
    BY <1>1, <1>2, ConcatProperties, LenProperties
  <2>2. q # << >>
    BY <2>1, EmptySeq
  <2>3. Len(k.write_queue) = 0 <=> k.write_queue = << >>
    BY <1>1, EmptySeq
  <2> QED BY <2>1, <2>2, <2>3
<1>4. Append(t, m) = k.sent \o q /\ Append(t, m) \in Seq(1 .. n)
  <2>1. Append(t, m) = t \o <<m>>
    BY AppendIsConcat
  <2>2. (k.sent \o k.write_queue) \o <<m>> = k.sent \o (k.write_queue \o <<m>>)
    <3> DEFINE a == k.sent  b == k.write_queue  c == <<m>>
    <3>1. a \in Seq(1 .. n) /\ b \in Seq(1 .. n) /\ c \in Seq(1 .. n)
      BY <1>1, <1>2
    <3> HIDE DEF a, b, c
    <3>2. Cat(Cat(a, b), c) = Cat(a, Cat(b, c))
      BY <3>1, Regrouped
    <3> QED BY <3>2, Zenon DEF a, b, c, Cat
  <2>3. t \o <<m>> \in Seq(1 .. n)
    BY <1>2, ConcatProperties
  <2> QED BY <2>1, <2>2, <2>3 DEF SessionSound
<1>5. send(k, m) = IF Len(grown.write_queue) = 1 THEN StartWrite(grown) ELSE grown
  <2>1. Append(k.write_queue, m) = q
    BY <1>1, AppendIsConcat
  <2> HIDE DEF q
  <2> QED BY <2>1, Zenon DEF send
<1> HIDE DEF q
<1>6. /\ grown \in SessionsUpTo(n) /\ grown.write_queue = q /\ grown.sent = k.sent
      /\ grown.state = k.state /\ grown.failed = k.failed /\ grown.write = k.write
  BY <1>3 DEF SessionsUpTo
<1> HIDE DEF grown
<1> DEFINE j == send(k, m)
<1>7. /\ j \in SessionsUpTo(n) /\ j.write_queue = q /\ j.sent = k.sent /\ j.state = k.state
      /\ j.failed = k.failed
      /\ k.write_queue = << >> => j.write # "none"
      /\ k.write_queue # << >> => j.write = k.write
  <2>1. CASE k.write_queue = << >>
    <3>1. j = StartWrite(grown)
      BY <1>3, <1>5, <1>6, <2>1
    <3> QED BY <1>6, <2>1, <3>1, StartWriteIs
  <2>2. CASE k.write_queue # << >>
    <3>1. j = grown
      BY <1>3, <1>5, <1>6, <2>2
    <3> QED BY <1>6, <2>2, <3>1
  <2> QED BY <2>1, <2>2
<1> HIDE DEF j
<1>8. SessionSound(j, Append(t, m))
  BY <1>1, <1>3, <1>4, <1>7 DEF SessionSound
<1> QED BY <1>4, <1>7, <1>8 DEF j

LEMMA WrittenSound ==
  ASSUME NEW n \in Nat, NEW k \in SessionsUpTo(n), NEW t \in Seq(1 .. n),
         SessionSound(k, t), k.state # "none", k.write # "none"
  PROVE  /\ Written(k) \in SessionsUpTo(n) /\ Written(k).state = k.state
         /\ SessionSound(Written(k), t)
<1> DEFINE first == Head(k.write_queue)
           q == Tail(k.write_queue)
           s == k.sent \o <<first>>
           left == [k EXCEPT !.sent = s, !.write_queue = q, !.write = "none"]
<1>1. /\ k.write_queue \in Seq(1 .. n) /\ k.sent \in Seq(1 .. n) /\ k.failed \in BOOLEAN
      /\ k.write_queue # << >> /\ ~k.failed
  BY DEF SessionsUpTo, SessionSound
<1>2. first \in 1 .. n /\ q \in Seq(1 .. n) /\ <<first>> \in Seq(1 .. n)
  <2>1. first \in 1 .. n /\ q \in Seq(1 .. n)
    BY <1>1, HeadTailProperties
  <2> HIDE DEF first
  <2> QED BY <2>1
<1>3. k.write_queue = <<first>> \o q
  BY <1>1, <1>2, HeadTailProperties, ConcatProperties, SeqEqual
<1>4. t = s \o q /\ s \in Seq(1 .. n)
  <2> HIDE DEF first, q
  <2>1. k.sent \o (<<first>> \o q) = (k.sent \o <<first>>) \o q
    <3> DEFINE a == k.sent  b == <<first>>
    <3>1. a \in Seq(1 .. n) /\ b \in Seq(1 .. n) /\ q \in Seq(1 .. n)
      BY <1>1, <1>2
    <3> HIDE DEF a, b
    <3>2. Cat(Cat(a, b), q) = Cat(a, Cat(b, q))
      BY <3>1, Regrouped
    <3> QED BY <3>2, Zenon DEF a, b, Cat
  <2>2. k.sent \o <<first>> \in Seq(1 .. n)
    BY <1>1, <1>2, ConcatProperties
  <2> QED BY <1>3, <2>1, <2>2 DEF SessionSound
<1>5. Written(k) = IF left.write_queue # << >> THEN StartWrite(left) ELSE left
  <2>1. Append(k.sent, first) = s
    BY <1>1, <1>2, AppendIsConcat
  <2> HIDE DEF s
  <2> QED BY <2>1, Zenon DEF Written
<1> HIDE DEF s, q, first
<1>6. /\ left \in SessionsUpTo(n) /\ left.write_queue = q /\ left.sent = s /\ left.write = "none"
      /\ left.state = k.state /\ left.failed = k.failed
  BY <1>2, <1>4 DEF SessionsUpTo
<1> HIDE DEF left
<1> DEFINE j == Written(k)
<1>7. /\ j \in SessionsUpTo(n) /\ j.write_queue = q /\ j.sent = s /\ j.state = k.state
      /\ j.failed = k.failed
      /\ j.write # "none" <=> q # << >>
  BY <1>5, <1>6, StartWriteIs
<1> HIDE DEF j
<1>8. SessionSound(j, t)
  BY <1>1, <1>4, <1>7 DEF SessionSound
<1> QED BY <1>7, <1>8 DEF j

(* A session whose queue is left alone.                                     *)
LEMMA OtherSound ==
  ASSUME NEW k, NEW j, NEW t, SessionSound(k, t), j.state # "none",
         j.sent = k.sent, j.write_queue = k.write_queue, j.write = k.write, j.failed = k.failed
  PROVE  SessionSound(j, t)
BY DEF SessionSound

---------------------------------------------------------------------------
(* Steps of the sessions and of their clients.                              *)

LEMMA SessionFrame ==
  ASSUME FrontInv, UNCHANGED <<mainVars, rest>>,
         ws' \in WsServers,
         ws'.running = ws.running, ws'.thread = ws.thread,
         sess' \in [Clients -> SessionsUpTo(Len(produced))], sessions' \subseteq Clients,
         told' = told, SessionsSound', AbortsExplained'
  PROVE  FrontInv'
<1> USE DEF FrontInv, mainVars
<1>1. FrontTypes'
  BY DEF FrontTypes
<1>2. ThreadsSound'
  BY DEF ThreadsSound
<1>3. StoredSound'
  BY DEF StoredSound
<1> QED BY <1>1, <1>2, <1>3

LEMMA ProducedLen ==
  ASSUME FrontTypes
  PROVE  Len(produced) \in Nat /\ \A c \in Clients : sess[c] \in SessionsUpTo(Len(produced))
BY LenProperties DEF FrontTypes

LEMMA StepKeeps ==
  ASSUME FrontInv, NEW c \in Clients, NEW k \in SessionsUpTo(Len(produced)), Step(c, k), ~aborted,
         SessionSound(k, told[c]), k.state # "none"
  PROVE  FrontInv'
<1>1. sess' = [sess EXCEPT ![c] = k] /\ UNCHANGED <<mainVars, ws, rest, sessions, told>>
  BY DEF Step
<1>2. sess' \in [Clients -> SessionsUpTo(Len(produced))] /\ sess'[c] = k
      /\ \A d \in Clients \ {c} : sess'[d] = sess[d]
  BY <1>1 DEF FrontInv, FrontTypes
<1>3. SessionsSound'
  BY <1>1, <1>2 DEF FrontInv, SessionsSound
<1>4. AbortsExplained'
  BY <1>1, <1>2 DEF FrontInv, AbortsExplained, mainVars
<1>5. /\ ws' \in WsServers
      /\ sessions' \subseteq Clients
  BY <1>1 DEF FrontInv, FrontTypes
<1> QED BY <1>1, <1>2, <1>3, <1>4, <1>5, SessionFrame

(* A handler that leaves the queue alone.                                   *)
LEMMA PlainStepKeeps ==
  ASSUME FrontInv, NEW c \in Clients, Handlers, NEW k \in SessionsUpTo(Len(produced)), Step(c, k),
         k.state # "none", k.sent = sess[c].sent, k.write_queue = sess[c].write_queue,
         k.write = sess[c].write, k.failed = sess[c].failed
  PROVE  FrontInv'
<1>1. SessionSound(k, told[c])
  BY OtherSound DEF FrontInv, SessionsSound
<1> QED BY <1>1, StepKeeps DEF Handlers

LEMMA HandlersKeep ==
  ASSUME FrontInv, NEW c \in Clients, on_accept(c) \/ do_read(c) \/ on_read(c)
  PROVE  FrontInv'
<1>1. Handlers /\ sess[c] \in SessionsUpTo(Len(produced)) /\ SessionSound(sess[c], told[c])
  BY DEF on_accept, do_read, on_read, FrontInv, FrontTypes, SessionsSound
<1>2. sess[c].op # "none" /\ sess[c].state # "none"
  BY <1>1 DEF on_accept, do_read, on_read, SessionSound
<1>3. ASSUME NEW op \in {"none", "accept", "welcome", "pong", "read"}, Step(c, [sess[c] EXCEPT !.op = op])
      PROVE  FrontInv'
  <2> DEFINE k == [sess[c] EXCEPT !.op = op]
  <2>1. /\ k \in SessionsUpTo(Len(produced)) /\ k.state # "none" /\ k.sent = sess[c].sent
        /\ k.write_queue = sess[c].write_queue /\ k.write = sess[c].write /\ k.failed = sess[c].failed
    BY <1>1, <1>2 DEF SessionsUpTo
  <2>2. Step(c, k)
    BY <1>3
  <2> HIDE DEF k
  <2> QED BY <1>1, <2>1, <2>2, PlainStepKeeps
<1>4. ASSUME Step(c, [sess[c] EXCEPT !.state = "open", !.op = "welcome"])
      PROVE  FrontInv'
  <2> DEFINE k == [sess[c] EXCEPT !.state = "open", !.op = "welcome"]
  <2>1. /\ k \in SessionsUpTo(Len(produced)) /\ k.state # "none" /\ k.sent = sess[c].sent
        /\ k.write_queue = sess[c].write_queue /\ k.write = sess[c].write /\ k.failed = sess[c].failed
    BY <1>1, <1>2 DEF SessionsUpTo
  <2>2. Step(c, k)
    BY <1>4
  <2> HIDE DEF k
  <2> QED BY <1>1, <2>1, <2>2, PlainStepKeeps
<1>5. CASE on_accept(c)
  BY <1>3, <1>4, <1>5, Zenon DEF on_accept
<1>6. CASE do_read(c)
  <2> DEFINE op == IF sess[c].state = "open" \/ sess[c].op = "pong" THEN "read" ELSE "none"
  <2>1. Step(c, [sess[c] EXCEPT !.op = op])
    BY <1>6 DEF do_read
  <2>2. op \in {"none", "accept", "welcome", "pong", "read"}
    OBVIOUS
  <2> HIDE DEF op
  <2> QED BY <1>3, <2>1, <2>2
<1>7. CASE on_read(c)
  BY <1>3, <1>7, Zenon DEF on_read
<1> QED BY <1>5, <1>6, <1>7

LEMMA OnWriteKeeps ==
  ASSUME FrontInv, NEW c \in Clients, on_write(c)
  PROVE  FrontInv'
<1> DEFINE n == Len(produced)
<1>1. /\ n \in Nat /\ ~aborted /\ sess[c] \in SessionsUpTo(n) /\ told[c] \in Seq(1 .. n)
      /\ SessionSound(sess[c], told[c])
  BY LenProperties DEF on_write, Handlers, FrontInv, FrontTypes, SessionsSound
<1> HIDE DEF n
<1>2. sess[c].write # "none" /\ sess[c].state # "none"
  BY <1>1 DEF on_write, SessionSound
<1>3. CASE Step(c, Written(sess[c]))
  <2> DEFINE k == Written(sess[c])
  <2>1. k \in SessionsUpTo(n) /\ k.state # "none" /\ SessionSound(k, told[c])
    BY <1>1, <1>2, WrittenSound
  <2> HIDE DEF k
  <2> QED BY <1>1, <1>3, <2>1, StepKeeps DEF n, k
<1>4. CASE Step(c, [sess[c] EXCEPT !.write = "none", !.failed = TRUE])
  <2> DEFINE k == [sess[c] EXCEPT !.write = "none", !.failed = TRUE]
  <2>1. /\ k \in SessionsUpTo(n) /\ k.state # "none" /\ k.write = "none" /\ k.failed = TRUE
        /\ k.sent = sess[c].sent /\ k.write_queue = sess[c].write_queue
    BY <1>1, <1>2 DEF SessionsUpTo
  <2>2. Step(c, k)
    BY <1>4
  <2> HIDE DEF k
  <2>3. SessionSound(k, told[c])
    BY <1>1, <1>2, <2>1 DEF SessionSound
  <2> QED BY <1>1, <2>1, <2>2, <2>3, StepKeeps DEF n
<1> QED BY <1>3, <1>4 DEF on_write

LEMMA ClientLeavesKeeps ==
  ASSUME FrontInv, NEW c \in Clients, ClientLeaves(c)
  PROVE  FrontInv'
<1>1. /\ sess' = [sess EXCEPT ![c].state = "gone"] /\ ~aborted /\ sess[c].state # "none"
      /\ UNCHANGED <<mainVars, ws, rest, sessions, aborted, told>>
  BY DEF ClientLeaves
<1>2. sess[c] \in SessionsUpTo(Len(produced)) /\ SessionSound(sess[c], told[c])
  BY DEF FrontInv, FrontTypes, SessionsSound
<1>3. /\ sess' \in [Clients -> SessionsUpTo(Len(produced))] /\ sess'[c].state = "gone"
      /\ sess'[c].sent = sess[c].sent /\ sess'[c].write_queue = sess[c].write_queue
      /\ sess'[c].write = sess[c].write /\ sess'[c].failed = sess[c].failed
      /\ \A d \in Clients \ {c} : sess'[d] = sess[d]
  BY <1>1, <1>2 DEF FrontInv, FrontTypes, SessionsUpTo
<1>4. SessionSound(sess'[c], told[c])
  BY <1>2, <1>3, OtherSound
<1>5. SessionsSound'
  BY <1>1, <1>3, <1>4 DEF FrontInv, SessionsSound
<1>6. AbortsExplained'
  BY <1>1 DEF FrontInv, AbortsExplained, mainVars
<1>7. /\ ws' \in WsServers
      /\ sessions' \subseteq Clients
  BY <1>1 DEF FrontInv, FrontTypes
<1> QED BY <1>1, <1>3, <1>5, <1>6, <1>7, SessionFrame

LEMMA DoAcceptKeeps ==
  ASSUME FrontInv, NEW c \in Clients, do_accept(c)
  PROVE  FrontInv'
<1>1. /\ sess' = [sess EXCEPT ![c] = run(NoSession)] /\ ~aborted /\ sess[c].state = "none"
      /\ sessions' = sessions \union {c} /\ ws' = [ws EXCEPT !.accepting = ws.running]
      /\ UNCHANGED <<mainVars, rest, aborted, told>>
  BY DEF do_accept, Handlers
<1> DEFINE k == run(NoSession)
<1>2. /\ k \in SessionsUpTo(Len(produced)) /\ k.state = "handshake" /\ k.write = "none"
      /\ k.sent = << >> /\ k.write_queue = << >> /\ k.failed = FALSE
  <2>1. << >> \in Seq(1 .. Len(produced))
    OBVIOUS
  <2>2. /\ NoSession \in SessionsUpTo(Len(produced)) /\ NoSession.write = "none"
        /\ NoSession.sent = << >> /\ NoSession.write_queue = << >> /\ NoSession.failed = FALSE
    BY <2>1 DEF NoSession, SessionsUpTo
  <2> QED BY <2>2 DEF run, SessionsUpTo
<1> HIDE DEF k
<1>3. sess' \in [Clients -> SessionsUpTo(Len(produced))] /\ sess'[c] = k
      /\ \A d \in Clients \ {c} : sess'[d] = sess[d]
  BY <1>1, <1>2 DEF FrontInv, FrontTypes, k
<1>4. SessionSound(k, told[c])
  <2>1. told[c] = << >>
    BY <1>1 DEF FrontInv, SessionsSound, SessionSound
  <2> QED BY <1>2, <2>1 DEF SessionSound
<1>5. SessionsSound'
  BY <1>1, <1>2, <1>3, <1>4 DEF FrontInv, SessionsSound
<1>6. AbortsExplained'
  BY <1>1, <1>2, <1>3 DEF FrontInv, AbortsExplained, mainVars, FrontTypes, WsServers
<1>7. /\ ws' \in WsServers
      /\ ws'.running = ws.running /\ ws'.thread = ws.thread
      /\ sessions' \subseteq Clients
  BY <1>1 DEF FrontInv, FrontTypes, WsServers
<1> QED BY <1>1, <1>3, <1>5, <1>6, <1>7, SessionFrame

---------------------------------------------------------------------------
(* Steps of main and of the two servers' threads, which leave the sessions  *)
(* alone.                                                                   *)

LEMMA ThreadFrame ==
  ASSUME FrontInv, UNCHANGED <<produced, sessions, sess, told>>, turn' \in 1 .. 6,
         latest' \in [StoredSymbols -> Nat], ws' \in WsServers, rest' \in RestServers,
         ThreadsSound', StoredSound', AbortsExplained'
  PROVE  FrontInv'
<1>1. FrontTypes'
  BY DEF FrontInv, FrontTypes
<1>2. SessionsSound'
  BY DEF FrontInv, SessionsSound
<1> QED BY <1>1, <1>2 DEF FrontInv

LEMMA StoredFrame ==
  ASSUME FrontInv, UNCHANGED <<produced, latest>>, main' = "store" <=> main = "store",
         main = "store" => turn' = turn,
         rest'.thread \in {"accept", "handle"} => rest'.answer.symbol = "none"
  PROVE  StoredSound'
BY DEF FrontInv, StoredSound

LEMMA ServerThreadKeeps ==
  ASSUME FrontInv, server_thread \/ RunReturns
  PROVE  FrontInv'
<1> USE DEF server_thread, RunReturns, FrontInv, mainVars
<1>1. ws' \in WsServers /\ ws.thread \in {"setup", "run"} /\ ~aborted
  BY DEF FrontTypes, WsServers
<1>2. /\ ws'.thread \notin {"none", "joined"}
      /\ ws'.running = ws.running \/ (~ws'.running /\ ws'.thread = "threw")
  BY DEF FrontTypes, WsServers
<1>3. ThreadsSound'
  BY <1>1, <1>2 DEF ThreadsSound
<1>4. StoredSound'
  BY StoredFrame DEF StoredSound
<1>5. AbortsExplained'
  BY <1>1 DEF AbortsExplained, ThreadsSound
<1> QED BY <1>1, <1>3, <1>4, <1>5, ThreadFrame DEF FrontTypes

(* What the handler of main answers.                                        *)
LEMMA AnswersAre ==
  ASSUME FrontTypes, NEW path, NEW sym \in {"BTC-USD", "ETH-USD", "XRP-USD"}
  PROVE  handle_request(path, sym) \in Answers
<1>1. orderbook_handler(sym) \in Nat
  BY DEF orderbook_handler, FrontTypes
<1> QED BY <1>1 DEF handle_request, Answers

LEMMA RestThreadKeeps ==
  ASSUME FrontInv, server_loop \/ RestClient \/ Answer
  PROVE  FrontInv'
<1> USE DEF FrontInv, mainVars, serverVars
<1>1. /\ UNCHANGED <<main, turn, produced, latest, ws, sessions, sess, told, aborted>> /\ ~aborted
      /\ rest.thread \in {"test", "accept", "handle"}
  BY Zenon DEF server_loop, RestClient, Answer
<1>2. /\ rest' \in RestServers /\ rest'.running = rest.running /\ rest'.thread \notin {"none", "joined"}
      /\ rest'.thread \in {"accept", "handle"} => rest'.answer.symbol = "none"
  <2>1. rest \in RestServers
    BY DEF FrontTypes
  <2>2. CASE server_loop
    <3> DEFINE to == IF rest.running /\ rest.open THEN "accept" ELSE "ended"
    <3>1. rest' = [rest EXCEPT !.answer = NoAnswer, !.thread = to]
      BY <2>2 DEF server_loop
    <3>2. to \in {"accept", "ended"} /\ NoAnswer \in Answers /\ NoAnswer.symbol = "none"
      BY DEF NoAnswer, Answers
    <3> HIDE DEF to
    <3> QED BY <2>1, <3>1, <3>2 DEF RestServers
  <2>3. CASE RestClient
    BY <2>1, <2>3 DEF RestClient, RestServers, StoredSound
  <2>4. CASE Answer
    <3>1. PICK path \in {"health", "orderbook", "other"}, sym \in StoredSymbols \union {"XRP-USD"},
               method \in {"GET", "POST"} :
            rest' \in {[rest EXCEPT !.thread = "test",
                                    !.answer = handle_request(parse_request_path(method, path), sym)],
                       [rest EXCEPT !.thread = "test"]}
      BY <2>4, Zenon DEF Answer
    <3> DEFINE a == handle_request(parse_request_path(method, path), sym)
    <3>2. a \in Answers
      BY TurnsAre, AnswersAre
    <3> HIDE DEF a
    <3>3. rest' = [rest EXCEPT !.thread = "test", !.answer = a] \/ rest' = [rest EXCEPT !.thread = "test"]
      BY <3>1, Zenon DEF a
    <3> QED BY <2>1, <3>2, <3>3 DEF RestServers
  <2> QED BY <2>2, <2>3, <2>4
<1>3. ThreadsSound'
  BY <1>1, <1>2 DEF ThreadsSound
<1>4. StoredSound'
  BY <1>1, <1>2, StoredFrame
<1>5. AbortsExplained'
  BY <1>1, <1>2 DEF AbortsExplained, ThreadsSound
<1> QED BY <1>1, <1>2, <1>3, <1>4, <1>5, ThreadFrame, Zenon DEF FrontTypes

LEMMA StartsKeep ==
  ASSUME FrontInv, start_ws_server \/ start_rest_server \/ signal_handler
  PROVE  FrontInv'
<1> USE DEF FrontInv, mainVars, serverVars, Goto
<1>1. /\ UNCHANGED <<turn, produced, latest, sessions, sess, told, aborted>>
      /\ ws' \in WsServers /\ rest' \in RestServers /\ rest'.answer = rest.answer
      /\ rest'.thread = rest.thread \/ rest'.thread = "test"
      /\ main' = "store" <=> main = "store"
  BY DEF start_ws_server, start_rest_server, signal_handler, FrontTypes, WsServers, RestServers
<1>2. ThreadsSound'
  BY DEF start_ws_server, start_rest_server, signal_handler, FrontTypes, WsServers, RestServers, ThreadsSound
<1>3. StoredSound'
  BY <1>1, StoredFrame DEF StoredSound
<1>4. AbortsExplained'
  BY <1>1 DEF start_ws_server, start_rest_server, signal_handler, AbortsExplained
<1> QED BY <1>1, <1>2, <1>3, <1>4, ThreadFrame DEF FrontTypes

LEMMA StopsKeep ==
  ASSUME FrontInv, stop_ws \/ StopContext \/ JoinWs \/ stop_rest \/ JoinRest \/ NextRound
  PROVE  FrontInv'
<1> USE DEF FrontInv, mainVars, serverVars, Goto
<1>1. /\ UNCHANGED <<produced, latest, sessions, sess, told, aborted>> /\ ~aborted
      /\ main # "store" /\ main' # "store" /\ main' # "exit"
  BY DEF stop_ws, StopContext, JoinWs, stop_rest, JoinRest, NextRound
<1>2. /\ ws' \in WsServers /\ rest' \in RestServers /\ rest'.answer = rest.answer
      /\ rest'.thread = rest.thread \/ rest'.thread = "joined"
  BY DEF stop_ws, StopContext, JoinWs, stop_rest, JoinRest, NextRound, FrontTypes, WsServers, RestServers
<1>3. turn' \in 1 .. 6
  BY TurnsAre DEF stop_ws, StopContext, JoinWs, stop_rest, JoinRest, NextRound, FrontTypes
<1>4. ThreadsSound'
  <2> USE DEF FrontTypes, WsServers, RestServers, ThreadsSound
  <2>1. CASE stop_ws
    BY <2>1 DEF stop_ws
  <2>2. CASE StopContext
    BY <2>2 DEF StopContext
  <2>3. CASE JoinWs
    BY <2>3 DEF JoinWs
  <2>4. CASE stop_rest
    BY <2>4 DEF stop_rest
  <2>5. CASE JoinRest
    BY <2>5 DEF JoinRest
  <2>6. CASE NextRound
    BY <2>6 DEF NextRound
  <2> QED BY <2>1, <2>2, <2>3, <2>4, <2>5, <2>6
<1>5. StoredSound'
  BY <1>1, <1>2, StoredFrame DEF StoredSound
<1>6. AbortsExplained'
  BY <1>1 DEF AbortsExplained
<1> QED BY <1>1, <1>2, <1>3, <1>4, <1>5, <1>6, ThreadFrame DEF FrontTypes

LEMMA DestroyKeeps ==
  ASSUME FrontInv, DestroyServers
  PROVE  FrontInv'
<1> USE DEF FrontInv, mainVars, serverVars, Goto
<1>1. /\ UNCHANGED <<turn, produced, latest, ws, rest, sessions, sess, told>>
      /\ main = "destroy" /\ main' = "exit" /\ ~aborted
  BY DEF DestroyServers
<1>2. ws.thread \in {"joined", "threw"} /\ rest.thread \in {"none", "joined"}
  BY <1>1 DEF ThreadsSound
<1>3. aborted' <=> \/ {ws.thread, rest.thread} \ {"none", "joined"} # {}
                   \/ \E c \in Clients : sess[c].state # "none"
  BY DEF DestroyServers
<1>4. AbortsExplained'
  BY <1>1, <1>2, <1>3 DEF AbortsExplained
<1>5. ThreadsSound'
  BY <1>1, <1>2 DEF ThreadsSound
<1>6. StoredSound'
  BY <1>1, StoredFrame DEF StoredSound
<1> QED BY <1>1, <1>4, <1>5, <1>6, ThreadFrame DEF FrontTypes

LEMMA CloseSessionsKeeps ==
  ASSUME FrontInv, CloseSessions
  PROVE  FrontInv'
<1> DEFINE n == Len(produced)
<1>1. /\ UNCHANGED <<turn, produced, latest, ws, rest, told>> /\ main = "close" /\ main' = "ioc.stop"
      /\ sessions' = {} /\ ~aborted
      /\ sess' = [c \in Clients |-> IF c \in sessions THEN close(sess[c]) ELSE sess[c]]
      /\ aborted' <=> Destroyed(sess', {})
  BY DEF CloseSessions, Goto
<1>2. ASSUME NEW c \in Clients
      PROVE  /\ sess'[c] \in SessionsUpTo(n) /\ SessionSound(sess'[c], told[c])
  <2>1. sess[c] \in SessionsUpTo(n) /\ SessionSound(sess[c], told[c])
    BY DEF FrontInv, FrontTypes, SessionsSound
  <2>2. CASE sess'[c] = sess[c]
    BY <2>1, <2>2
  <2>3. CASE sess'[c] = close(sess[c]) /\ sess[c].state = "open"
    <3> DEFINE k == [sess[c] EXCEPT !.state = "gone"]
    <3>1. sess'[c] = k
      BY <2>3 DEF close
    <3>2. /\ k \in SessionsUpTo(n) /\ k.state = "gone" /\ k.sent = sess[c].sent
          /\ k.write_queue = sess[c].write_queue /\ k.write = sess[c].write /\ k.failed = sess[c].failed
      BY <2>1 DEF SessionsUpTo
    <3> HIDE DEF k
    <3>3. SessionSound(k, told[c])
      BY <2>1, <3>2, OtherSound
    <3> QED BY <3>1, <3>2, <3>3
  <2> QED BY <1>1, <2>2, <2>3 DEF close
<1>3. SessionsSound'
  BY <1>1, <1>2 DEF SessionsSound
<1>4. FrontTypes'
  BY <1>1, <1>2 DEF FrontInv, FrontTypes
<1>5. ThreadsSound'
  BY <1>1 DEF FrontInv, ThreadsSound
<1>6. StoredSound'
  BY <1>1, StoredFrame DEF FrontInv, StoredSound
<1>7. AbortsExplained'
  BY <1>1 DEF AbortsExplained, Destroyed
<1> QED BY <1>3, <1>4, <1>5, <1>6, <1>7 DEF FrontInv

LEMMA StoreLatestKeeps ==
  ASSUME FrontInv, StoreLatest
  PROVE  FrontInv'
<1> DEFINE n == Len(produced)
           s == Turns[turn].msg.symbol
<1>1. /\ UNCHANGED <<produced, ws, rest, sessions, sess, told, aborted>> /\ ~aborted
      /\ main = "store" /\ main' = "loop" /\ turn' = turn + 1
      /\ latest' = [latest EXCEPT ![s] = n]
  BY DEF StoreLatest, serverVars
<1>2. /\ turn \in 1 .. 5 /\ Turns[turn].stored /\ n > 0 /\ produced[n] = turn /\ n \in Nat
      /\ latest \in [StoredSymbols -> Nat]
  BY <1>1, LenProperties DEF FrontInv, StoredSound, FrontTypes
<1>3. s \in StoredSymbols /\ Turns[turn].msg = format_order_book_update(s)
  BY <1>2, TurnsAre
<1> HIDE DEF n, s
<1>4. /\ latest' \in [StoredSymbols -> Nat] /\ latest'[s] = n
      /\ \A r \in StoredSymbols \ {s} : latest'[r] = latest[r]
  BY <1>1, <1>2, <1>3
<1>5. StoredSound'
  <2>1. \A r \in StoredSymbols :
          /\ latest[r] <= n
          /\ latest[r] # 0 => Turns[produced[latest[r]]].msg = format_order_book_update(r)
    BY DEF FrontInv, StoredSound, n
  <2>2. \A r \in StoredSymbols :
          /\ latest'[r] <= n
          /\ latest'[r] # 0 => Turns[produced[latest'[r]]].msg = format_order_book_update(r)
    BY <1>2, <1>3, <1>4, <2>1
  <2>3. \A m \in 1 .. n : Turns[produced[m]].stored => latest'[Turns[produced[m]].msg.symbol] >= m
    <3> SUFFICES ASSUME NEW m \in 1 .. n, Turns[produced[m]].stored
                 PROVE  latest'[Turns[produced[m]].msg.symbol] >= m
      OBVIOUS
    <3>1. CASE m = n
      BY <1>2, <1>4, <3>1 DEF s
    <3>2. CASE m # n
      <4> DEFINE r == Turns[produced[m]].msg.symbol
      <4>1. latest[r] >= m
        BY <3>2 DEF FrontInv, StoredSound, n
      <4>2. r \in StoredSymbols
        <5>1. produced[m] \in 1 .. 5
          BY ElementOfSeq DEF FrontInv, FrontTypes, n
        <5> QED BY <5>1, TurnsAre
      <4> HIDE DEF r
      <4>3. latest'[r] >= m
        BY <1>2, <1>4, <4>1, <4>2
      <4> QED BY <4>3 DEF r
    <3> QED BY <3>1, <3>2
  <2>4. rest.thread \in {"accept", "handle"} => rest.answer.symbol = "none"
    BY DEF FrontInv, StoredSound
  <2> QED BY <1>1, <2>2, <2>3, <2>4 DEF StoredSound, n
<1>6. ThreadsSound'
  BY <1>1 DEF FrontInv, ThreadsSound
<1>7. AbortsExplained'
  BY <1>1 DEF FrontInv, AbortsExplained
<1>8. turn' \in 1 .. 6 /\ ws' \in WsServers /\ rest' \in RestServers
  BY <1>1, <1>2 DEF FrontInv, FrontTypes
<1> QED BY <1>1, <1>4, <1>5, <1>6, <1>7, <1>8, ThreadFrame

(* What can hold the first n messages can hold one more.                    *)
LEMMA SessionsGrow ==
  ASSUME NEW n \in Nat
  PROVE  Seq(1 .. n) \subseteq Seq(1 .. n + 1) /\ SessionsUpTo(n) \subseteq SessionsUpTo(n + 1)
<1>1. 1 .. n \subseteq 1 .. n + 1
  OBVIOUS
<1>2. Seq(1 .. n) \subseteq Seq(1 .. n + 1)
  BY <1>1, SeqMonotonic
<1> QED BY <1>2 DEF SessionsUpTo

LEMMA ProduceKeeps ==
  ASSUME FrontInv, Produce
  PROVE  FrontInv'
<1> DEFINE n == Len(produced)
<1>1. /\ UNCHANGED <<latest, ws, rest, sessions, aborted>> /\ ~aborted
      /\ main = "loop" /\ turn \in 1 .. 5 /\ produced' = Append(produced, turn)
      /\ IF Turns[turn].stored THEN main' = "store" /\ turn' = turn
                               ELSE turn' = turn + 1 /\ main' = main
  BY TurnsAre DEF Produce, FrontInv, FrontTypes
<1>2. /\ n \in Nat /\ produced' \in Seq(1 .. 5) /\ Len(produced') = n + 1 /\ produced'[n + 1] = turn
      /\ \A i \in 1 .. n : produced'[i] = produced[i]
  BY <1>1, AppendProperties, LenProperties DEF FrontInv, FrontTypes
<1>3. ASSUME NEW c \in Clients
      PROVE  /\ sess'[c] \in SessionsUpTo(n + 1) /\ told'[c] \in Seq(1 .. n + 1)
             /\ SessionSound(sess'[c], told'[c]) /\ sess'[c].state = sess[c].state
  <2>1. /\ sess[c] \in SessionsUpTo(n + 1) /\ told[c] \in Seq(1 .. n + 1)
        /\ SessionSound(sess[c], told[c]) /\ n + 1 \in Nat /\ n + 1 \in 1 .. n + 1
    BY <1>2, SessionsGrow DEF FrontInv, FrontTypes, SessionsSound
  <2>2. CASE sess'[c] = sess[c] /\ told'[c] = told[c]
    BY <2>1, <2>2
  <2>3. CASE c \in sessions /\ sess'[c] = send(sess[c], n + 1) /\ told'[c] = Append(told[c], n + 1)
    <3>1. sess[c].state # "none"
      BY <2>3 DEF FrontInv, SessionsSound
    <3> DEFINE j == sess[c]  t == told[c]  m == n + 1
    <3>2. /\ j \in SessionsUpTo(m) /\ t \in Seq(1 .. m) /\ SessionSound(j, t) /\ j.state # "none"
          /\ m \in Nat /\ m \in 1 .. m
      BY <2>1, <3>1
    <3> HIDE DEF j, t, m
    <3>3. /\ send(j, m) \in SessionsUpTo(m) /\ send(j, m).state = j.state
          /\ SessionSound(send(j, m), Append(t, m)) /\ Append(t, m) \in Seq(1 .. m)
      BY <3>2, SendSound
    <3> QED BY <2>3, <3>3, Zenon DEF j, t, m
  <2> HIDE DEF n
  <2>4. Len(produced') = n + 1
    BY <1>2
  <2> QED BY <2>2, <2>3, <2>4 DEF Produce, broadcast
<1>4. /\ sess' \in [Clients -> SessionsUpTo(n + 1)] /\ told' \in [Clients -> Seq(1 .. n + 1)]
  <2>1. sess' = [c \in Clients |-> sess'[c]] /\ told' = [c \in Clients |-> told'[c]]
    BY DEF Produce, broadcast, FrontInv, FrontTypes
  <2> HIDE DEF n
  <2> QED BY <1>3, <2>1
<1>5. FrontTypes'
  BY <1>1, <1>2, <1>4 DEF FrontInv, FrontTypes
<1>6. SessionsSound'
  BY <1>1, <1>3 DEF FrontInv, FrontTypes, SessionsSound
<1>7. ThreadsSound'
  BY <1>1 DEF FrontInv, ThreadsSound
<1>8. StoredSound'
  <2>1. main' = "store" => turn' \in 1 .. 5 /\ Turns[turn'].stored /\ produced'[n + 1] = turn'
    BY <1>1, <1>2
  <2>2. \A r \in StoredSymbols :
          /\ latest[r] \in Nat /\ latest[r] <= n
          /\ latest[r] # 0 => Turns[produced'[latest[r]]].msg = format_order_book_update(r)
    BY <1>2 DEF FrontInv, StoredSound, FrontTypes
  <2>3. \A m \in 1 .. n + 1 :
          Turns[produced'[m]].stored /\ ~(main' = "store" /\ m = n + 1) =>
            latest[Turns[produced'[m]].msg.symbol] >= m
    <3> SUFFICES ASSUME NEW m \in 1 .. n + 1, Turns[produced'[m]].stored,
                        ~(main' = "store" /\ m = n + 1)
                 PROVE  latest[Turns[produced'[m]].msg.symbol] >= m
      OBVIOUS
    <3>1. m # n + 1
      BY <1>1, <1>2
    <3>2. m \in 1 .. n /\ produced'[m] = produced[m]
      BY <1>2, <3>1
    <3> QED BY <1>1, <3>2 DEF FrontInv, StoredSound
  <2>4. rest.thread \in {"accept", "handle"} => rest.answer.symbol = "none"
    BY DEF FrontInv, StoredSound
  <2> HIDE DEF n
  <2> QED BY <1>1, <1>2, <2>1, <2>2, <2>3, <2>4 DEF StoredSound
<1>9. AbortsExplained'
  BY <1>1 DEF FrontInv, AbortsExplained
<1> QED BY <1>5, <1>6, <1>7, <1>8, <1>9 DEF FrontInv

LEMMA FrontInvPreserved == FrontInv /\ [FrontNext]_frontVars => FrontInv'
<1> SUFFICES ASSUME FrontInv, [FrontNext]_frontVars PROVE FrontInv'
  OBVIOUS
<1>1. CASE FrontNext
  BY <1>1, HandlersKeep, OnWriteKeeps, ClientLeavesKeeps, DoAcceptKeeps, ServerThreadKeeps, RestThreadKeeps,
     StartsKeep, StopsKeep, DestroyKeeps, CloseSessionsKeeps, StoreLatestKeeps, ProduceKeeps DEF FrontNext
<1>2. CASE UNCHANGED frontVars
  <2> USE <1>2 DEF frontVars, mainVars, serverVars, FrontInv
  <2>1. ThreadsSound' /\ AbortsExplained'
    BY DEF ThreadsSound, AbortsExplained
  <2>2. StoredSound'
    BY DEF StoredSound
  <2> QED BY <2>1, <2>2, ThreadFrame DEF FrontTypes
<1> QED BY <1>1, <1>2

LEMMA FrontInvAlways == FrontSpec => []FrontInv
BY FrontInvInitially, FrontInvPreserved, PTL DEF FrontSpec

(* FrontendWebSocketServer: every client is sent what was broadcast since   *)
(* it connected, once and in order, with one write under way as long as     *)
(* messages wait and none has failed.                                       *)
THEOREM QueuesAreSound == FrontSpec => []QueueSound
<1>1. FrontInv => QueueSound
  BY DEF FrontInv, SessionsSound, SessionSound, QueueSound
<1> QED BY <1>1, FrontInvAlways, PTL

(* The server program ends in std::terminate only when a client ever        *)
(* connected or the I/O thread threw; otherwise both threads were joined.   *)
THEOREM AbortsAreExplained == FrontSpec => []AbortsExplained
<1>1. FrontInv => AbortsExplained
  BY DEF FrontInv
<1> QED BY <1>1, FrontInvAlways, PTL

(* Only Answer gives an answer to a request.                                *)
LEMMA OnlyAnswerAnswers ==
  ASSUME FrontInv, FrontNext, rest.thread = "handle"
  PROVE  Answer \/ rest'.answer = rest.answer
<1>1. rest \in RestServers
  BY DEF FrontInv, FrontTypes
<1>2. ASSUME NEW c \in Clients,
             on_accept(c) \/ do_read(c) \/ on_read(c) \/ on_write(c) \/ ClientLeaves(c) \/ do_accept(c)
      PROVE  rest' = rest
  BY <1>2 DEF on_accept, do_read, on_read, on_write, ClientLeaves, do_accept, Step
<1>3. CASE start_rest_server \/ stop_rest \/ JoinRest
  BY <1>1, <1>3 DEF start_rest_server, stop_rest, JoinRest, RestServers
<1>4. ~server_loop /\ ~RestClient
  BY DEF server_loop, RestClient
<1> QED BY <1>2, <1>3, <1>4
        DEF FrontNext, server_thread, RunReturns, start_ws_server, signal_handler, Produce, StoreLatest,
            NextRound, stop_ws, CloseSessions, StopContext, JoinWs, DestroyServers

(* FrontendRestServer: an answer is never older than what a client has been *)
(* sent from the same stream, unless main is between broadcast and store.   *)
THEOREM RestIsFresh == FrontSpec => RestFresh
<1>1. FrontInv /\ FrontNext /\ rest.thread = "handle" /\ rest'.answer.symbol \in StoredSymbols
        => AnswerFresh(rest'.answer)
  <2> SUFFICES ASSUME FrontInv, FrontNext, rest.thread = "handle", rest'.answer.symbol \in StoredSymbols
               PROVE  AnswerFresh(rest'.answer)
    OBVIOUS
  <2> DEFINE a == rest'.answer
             n == Len(produced)
  <2>1. Answer
    <3>1. rest.answer.symbol = "none"
      BY DEF FrontInv, StoredSound
    <3> QED BY <3>1, OnlyAnswerAnswers, TurnsAre
  <2>2. a.symbol \in StoredSymbols /\ a.book = latest[a.symbol]
    <3>1. PICK path \in {"health", "orderbook", "other"}, sym \in StoredSymbols \union {"XRP-USD"},
               method \in {"GET", "POST"} :
            rest' \in {[rest EXCEPT !.thread = "test",
                                    !.answer = handle_request(parse_request_path(method, path), sym)],
                       [rest EXCEPT !.thread = "test"]}
      BY <2>1, Zenon DEF Answer
    <3> DEFINE b == handle_request(parse_request_path(method, path), sym)
    <3>2. rest \in RestServers /\ rest.answer.symbol = "none" /\ DOMAIN latest = StoredSymbols
      BY DEF FrontInv, FrontTypes, StoredSound
    <3>3. b.symbol \in StoredSymbols => b.book = latest[b.symbol]
      BY <3>2, TurnsAre DEF handle_request, orderbook_handler
    <3> HIDE DEF b
    <3>4. rest' = [rest EXCEPT !.thread = "test", !.answer = b] \/ rest' = [rest EXCEPT !.thread = "test"]
      BY <3>1, Zenon DEF b
    <3>5. rest'.answer = b \/ rest'.answer = rest.answer
      BY <3>2, <3>4 DEF RestServers
    <3> QED BY <3>2, <3>3, <3>5, TurnsAre, Zenon
  <2>3. /\ a.book # 0 => Turns[produced[a.book]].msg = format_order_book_update(a.symbol)
    BY <2>2 DEF FrontInv, StoredSound
  <2>4. ASSUME NEW m \in Seen \ Pending, Turns[produced[m]].stored,
               Turns[produced[m]].msg.symbol = a.symbol
        PROVE  a.book >= m
    <3>1. PICK c \in Clients : m \in Range(sess[c].sent)
      BY DEF Seen
    <3>2. sess[c].sent \in Seq(1 .. n)
      BY DEF FrontInv, FrontTypes, SessionsUpTo
    <3>3. m \in 1 .. n
      BY <3>1, <3>2, ElementOfSeq, LenProperties DEF Range
    <3>4. ~(main = "store" /\ m = n)
      <4>1. main = "store" => n \in Pending
        BY DEF Pending
      <4> QED BY <4>1
    <3> QED BY <2>2, <2>4, <3>3, <3>4 DEF FrontInv, StoredSound
  <2> QED BY <2>3, <2>4 DEF AnswerFresh
<1> QED BY <1>1, FrontInvAlways, PTL DEF FrontSpec, RestFresh

---------------------------------------------------------------------------
(* ArbitrageMonitor: a detection that passed the running test and is not   *)
(* late finds the monitor running.                                         *)
QuietInv ==
  /\ \A r \in Reporters : at[r] = "lock" => running
  /\ at \in [Reporters -> {"idle", "lock", "late", "alert"}]
  /\ QuietWhenStopped

(* The monitor begins stopped, with nothing active.                         *)
LEMMA QuietInitially == MonitorInit => QuietInv
BY DEF MonitorInit, QuietInv, QuietWhenStopped

(* What expires leaves the active ones, and nothing joins them.            *)
LEMMA ExpiringRemoves ==
  ASSUME NEW acts, NEW st, NEW time, update_active_opportunities(acts, st, time)
  PROVE  DOMAIN active' \subseteq DOMAIN acts
BY DEF update_active_opportunities, Without, Restrict

(* Every step of the monitor keeps it.                                      *)
LEMMA QuietPreserved == QuietInv /\ [MonitorNext]_monitorVars => QuietInv'
<1> SUFFICES ASSUME QuietInv, [MonitorNext]_monitorVars PROVE QuietInv'
  OBVIOUS
<1> USE DEF QuietInv, QuietWhenStopped
<1>1. CASE UNCHANGED <<running, active, flushing, at, late>>
  BY <1>1
<1>2. ASSUME NEW r \in Reporters, NEW sym, NEW profit, Detect(r, sym, profit) PROVE QuietInv'
  BY <1>2 DEF Detect, tracking
<1>3. ASSUME NEW r \in Reporters, Track(r) PROVE QuietInv'
  <2> DEFINE arb == [id |-> next_id, profit |-> opp[r], detected |-> clock, expiry |-> 0]
             acts == [id \in DOMAIN active \cup {next_id} |-> IF id = next_id THEN arb ELSE active[id]]
  <2>1. DOMAIN active' \subseteq DOMAIN active \cup {next_id}
    <3>1. DOMAIN acts \subseteq DOMAIN active \cup {next_id}
      OBVIOUS
    <3>2. CASE active' = acts
      BY <3>1, <3>2
    <3>3. ASSUME NEW st, update_active_opportunities(acts, st, arb.detected)
          PROVE  DOMAIN active' \subseteq DOMAIN active \cup {next_id}
      BY <3>1, <3>3, ExpiringRemoves
    <3> HIDE DEF acts, arb
    <3> QED BY <1>3, <3>2, <3>3 DEF Track, acts, arb
  <2>2. /\ running' = running /\ flushing' = flushing
        /\ at[r] \in {"lock", "late"}
        /\ late' = IF at[r] = "late" THEN late \cup {next_id} ELSE late
        /\ at' = [at EXCEPT ![r] = "alert"] \/ at' = [at EXCEPT ![r] = "idle"]
    BY <1>3 DEF Track
  <2> QED BY <2>1, <2>2
<1>4. ASSUME NEW r \in Reporters, AfterAlert(r) PROVE QuietInv'
  <2>1. DOMAIN active' \subseteq DOMAIN active
    BY <1>4, ExpiringRemoves DEF AfterAlert
  <2> QED BY <1>4, <2>1 DEF AfterAlert
<1>5. CASE stop_monitor
  BY <1>5 DEF stop_monitor, tracking
<1>6. CASE StopFlush
  BY <1>6 DEF StopFlush, reporting
<1>7. CASE start_monitor
  BY <1>7 DEF start_monitor, tracking, reporting
<1>8. CASE clear_history
  BY <1>8 DEF clear_history, reporting
<1>9. CASE MonitorTick \/ \E sym \in BookNames : add_order_book(sym) \/ remove_order_book(sym)
  BY <1>1, <1>9 DEF MonitorTick, add_order_book, remove_order_book, tracking, reporting
<1>10. CASE \/ \E set \in BOOLEAN : set_alert_callback(set)
            \/ \E min \in {0, MinProfit} : set_min_profit(min)
  BY <1>1, <1>10 DEF set_alert_callback, set_min_profit, tracking, reporting
<1>11. CASE UNCHANGED monitorVars
  BY <1>1, <1>11 DEF monitorVars, tracking, reporting
<1> QED BY <1>2, <1>3, <1>4, <1>5, <1>6, <1>7, <1>8, <1>9, <1>10, <1>11 DEF MonitorNext

(* For any number of reporters and any interleaving of detections, alerts, *)
(* starts and stops: while the monitor is stopped, an opportunity is       *)
(* active only if its detection passed the running test before a stop.     *)
THEOREM StoppedIsQuiet == MonitorSpec => []QuietWhenStopped
<1>1. QuietInv => QuietWhenStopped
  BY DEF QuietInv
<1> QED BY <1>1, QuietInitially, QuietPreserved, PTL DEF MonitorSpec
---------------------------------------------------------------------------
(* AggregatedOrderBook: a message of one level is folded in by one step.    *)
LEMMA MaxOne == Max({1}) = 1
BY DEF Max

(* A side that a message has no level for stays as it is.                   *)
LEMMA NoFold ==
  ASSUME NEW base
  PROVE  FoldLeft(SetLevel, base, << >>) = base
<1> DEFINE body(f) == [s \in SUBSET {} |-> IF s = {} THEN base
                                           ELSE SetLevel(f[s \ {Max(s)}], << >>[Max(s)])]
           F == CHOOSE f : f = body(f)
<1>1. FoldLeft(SetLevel, base, << >>) = F[{}]
  <2>1. DOMAIN << >> = {}
    OBVIOUS
  <2> QED BY <2>1 DEF FoldLeft, MapThenFoldSet
<1>2. \E f : f = body(f)
  <2> DEFINE g == [s \in SUBSET {} |-> base]
  <2>1. g = body(g)
    OBVIOUS
  <2> QED BY <2>1
<1>3. F = body(F)
  <2> HIDE DEF body
  <2> QED BY <1>2
<1>4. F[{}] = base
  <2> HIDE DEF F
  <2> QED BY <1>3
<1> QED BY <1>1, <1>4

(* One level is one step.                                                   *)
LEMMA OneFold ==
  ASSUME NEW base, NEW l
  PROVE  FoldLeft(SetLevel, base, <<l>>) = SetLevel(base, l)
<1> DEFINE body(f) == [s \in SUBSET {1} |-> IF s = {} THEN base
                                            ELSE SetLevel(f[s \ {Max(s)}], <<l>>[Max(s)])]
           F == CHOOSE f : f = body(f)
<1>1. FoldLeft(SetLevel, base, <<l>>) = F[{1}]
  <2>1. DOMAIN <<l>> = {1}
    OBVIOUS
  <2>2. FoldLeft(SetLevel, base, <<l>>) =
          LET iter[s \in SUBSET DOMAIN <<l>>] ==
                IF s = {} THEN base ELSE SetLevel(iter[s \ {Max(s)}], <<l>>[Max(s)])
          IN  iter[DOMAIN <<l>>]
    BY DEF FoldLeft, MapThenFoldSet
  <2> QED BY <2>1, <2>2
<1>2. \E f : f = body(f)
  <2> DEFINE g == [s \in SUBSET {1} |-> IF s = {} THEN base ELSE SetLevel(base, l)]
  <2>1. g = body(g)
    <3>1. ASSUME NEW s \in SUBSET {1} PROVE g[s] = body(g)[s]
      <4>1. s = {} \/ s = {1}
        OBVIOUS
      <4>2. CASE s = {1}
        <5>1. {1} \ {Max({1})} = {} /\ <<l>>[Max({1})] = l
          BY MaxOne
        <5> HIDE DEF SetLevel
        <5> QED BY <4>2, <5>1
      <4> QED BY <4>1, <4>2
    <3>2. g = [s \in SUBSET {1} |-> g[s]] /\ body(g) = [s \in SUBSET {1} |-> body(g)[s]]
      OBVIOUS
    <3> HIDE DEF g, body
    <3> QED BY <3>1, <3>2
  <2> HIDE DEF body, g
  <2> QED BY <2>1
<1>3. F = body(F)
  <2> HIDE DEF body
  <2> QED BY <1>2
<1>4. F[{1}] = SetLevel(base, l)
  <2> HIDE DEF F
  <2>1. F[{}] = base
    BY <1>3
  <2>2. F[{1}] = SetLevel(F[{1} \ {Max({1})}], <<l>>[Max({1})])
    BY <1>3
  <2>3. {1} \ {Max({1})} = {} /\ <<l>>[Max({1})] = l
    BY MaxOne
  <2> QED BY <2>1, <2>2, <2>3
<1> QED BY <1>1, <1>4

(* The books are well formed: prices and quantities are naturals, and there *)
(* is a highest price.                                                      *)
SideSound(levels, top) == \A p \in DOMAIN levels : p \in Nat \ {0} /\ p <= top /\ levels[p] \in Nat

BooksBelow(top) ==
  \A e \in DOMAIN exchange_books, s \in Sides : SideSound(exchange_books[e][s], top)

BookSound ==
  /\ DOMAIN exchange_books \subseteq Exchanges
  /\ \E top \in Nat : BooksBelow(top)

(* A level keeps a side well formed.                                        *)
LEMMA LevelKeeps ==
  ASSUME NEW levels, NEW top \in Nat, NEW l \in Levels, SideSound(levels, top), l.price <= top
  PROVE  SideSound(SetLevel(levels, l), top)
<1>1. l.price \in Nat \ {0} /\ l.quantity \in Nat
  BY VenuesAssumption DEF Levels
<1>2. CASE l.quantity > 0
  BY <1>1, <1>2 DEF SideSound, SetLevel
<1>3. CASE ~(l.quantity > 0)
  BY <1>3 DEF SideSound, SetLevel, Restrict
<1> QED BY <1>2, <1>3

(* The book begins empty.                                                   *)
LEMMA BookInitially == BookInit => BookSound
BY DEF BookInit, BookSound, BooksBelow

(* Every operation keeps the books well formed.                             *)
LEMMA BookPreserved == BookSound /\ [BookNext]_bookVars => BookSound'
<1> SUFFICES ASSUME BookSound, [BookNext]_bookVars PROVE BookSound'
  OBVIOUS
<1>1. CASE UNCHANGED exchange_books
  BY <1>1 DEF BookSound, BooksBelow
<1>2. ASSUME NEW msg \in BookMessages, update(msg) PROVE BookSound'
  <2>0. msg.exchange \in Exchanges
    BY DEF BookMessages
  <2>1. PICK top \in Nat : BooksBelow(top)
    BY DEF BookSound
  <2>2. PICK l \in Levels : \/ msg.bids = <<l>> /\ msg.asks = << >>
                            \/ msg.asks = <<l>> /\ msg.bids = << >>
    BY DEF BookMessages
  <2>3. l.price \in Nat
    BY VenuesAssumption DEF Levels
  <2> DEFINE high == IF l.price > top THEN l.price ELSE top
             book == BookOf(msg.exchange)
             new(s) == FoldLeft(SetLevel, book[s], IF s = "BID" THEN msg.bids ELSE msg.asks)
  <2>4. high \in Nat /\ l.price <= high /\ top <= high
    BY <2>3
  <2> HIDE DEF high
  <2>5. BooksBelow(high)
    BY <2>1, <2>4, VenuesAssumption DEF BooksBelow, SideSound
  <2>6. ASSUME NEW s \in Sides PROVE SideSound(new(s), high)
    <3>1. SideSound(book[s], high)
      BY <2>5 DEF BookOf, BooksBelow, NoLevels, SideSound
    <3> HIDE DEF book
    <3>2. new(s) = book[s] \/ new(s) = SetLevel(book[s], l)
      BY <2>2, NoFold, OneFold DEF Sides
    <3> QED BY <2>4, <3>1, <3>2, LevelKeeps
  <2>7. /\ DOMAIN exchange_books' = DOMAIN exchange_books \cup {msg.exchange}
        /\ \A e \in DOMAIN exchange_books :
             e # msg.exchange => exchange_books'[e] = exchange_books[e]
        /\ exchange_books'[msg.exchange] = [s \in Sides |-> new(s)]
    BY <1>2 DEF update
  <2> HIDE DEF new, book
  <2>8. \A e \in DOMAIN exchange_books', s \in Sides : SideSound(exchange_books'[e][s], high)
    BY <2>5, <2>6, <2>7 DEF BooksBelow
  <2> QED BY <2>0, <2>4, <2>7, <2>8 DEF BookSound, BooksBelow
<1>3. CASE clear_books
  <2>1. DOMAIN exchange_books' = {}
    BY <1>3 DEF clear_books
  <2> QED BY <2>1 DEF BookSound, BooksBelow
<1> QED BY <1>1, <1>2, <1>3 DEF BookNext, set_arbitrage_callback, bookVars

(* Of any naturals there is a least one.                                    *)
LEMMA LeastExists ==
  ASSUME NEW S, S \subseteq Nat, S # {}
  PROVE  \E x \in S : \A y \in S : x <= y
<1>1. PICK x \in S : \A y \in S : ~(<<y, x>> \in OpToRel(<, Nat))
  BY NatLessThanWellFounded, WFMin
<1>2. \A y \in S : x <= y
  <2> TAKE y \in S
  <2>1. ~(<<y, x>> \in OpToRel(<, Nat))
    BY <1>1
  <2>2. x \in Nat /\ y \in Nat
    OBVIOUS
  <2>3. ~(y < x)
    BY <2>1, <2>2, Zenon DEF OpToRel
  <2> QED BY <2>2, <2>3
<1> QED BY <1>2

(* A level is a price and a quantity of a book.                             *)
LEMMA LevelTypes ==
  ASSUME BookSound, NEW s \in Sides, NEW l \in LevelsOf(s)
  PROVE  /\ l.exchange \in DOMAIN exchange_books /\ l.exchange \in Nat
         /\ l.price \in DOMAIN exchange_books[l.exchange][s]
         /\ l.quantity = exchange_books[l.exchange][s][l.price]
         /\ l.price \in Nat \ {0} /\ l.quantity \in Nat
<1>1. PICK e \in DOMAIN exchange_books : \E p \in DOMAIN exchange_books[e][s] :
        l = [exchange |-> e, price |-> p, quantity |-> exchange_books[e][s][p]]
  BY DEF LevelsOf
<1>2. PICK p \in DOMAIN exchange_books[e][s] :
        l = [exchange |-> e, price |-> p, quantity |-> exchange_books[e][s][p]]
  BY <1>1
<1>3. e \in Nat
  BY VenuesAssumption DEF BookSound
<1>4. p \in Nat \ {0} /\ exchange_books[e][s][p] \in Nat
  BY DEF BookSound, BooksBelow, SideSound
<1> QED BY <1>2, <1>3, <1>4

(* A side with levels has one best level, that of the first of the          *)
(* exchanges with the best price.                                           *)
LEMMA BestIsBest ==
  ASSUME BookSound, NEW s \in Sides, LevelsOf(s) # {}
  PROVE  \E l \in LevelsOf(s) : /\ BestOf(s) = {l}
                                /\ \A k \in LevelsOf(s) : ~Better(s, k.price, l.price)
<1>1. PICK top \in Nat : BooksBelow(top)
  BY DEF BookSound
<1>2. \A l \in LevelsOf(s) : l.price \in Nat /\ l.price <= top
  BY <1>1, LevelTypes DEF BooksBelow, SideSound
<1> DEFINE Rank(l) == IF s = "BID" THEN top - l.price ELSE l.price
           ranks == {Rank(l) : l \in LevelsOf(s)}
<1>3. \A l \in LevelsOf(s) : Rank(l) \in Nat
  BY <1>2
<1>4. \A k, l \in LevelsOf(s) : /\ Better(s, k.price, l.price) <=> Rank(k) < Rank(l)
                                /\ k.price = l.price <=> Rank(k) = Rank(l)
  BY <1>2 DEF Better
<1> HIDE DEF Rank
<1>5. PICK x \in ranks : \A y \in ranks : x <= y
  BY <1>3, LeastExists
<1> DEFINE ties == {l \in LevelsOf(s) : Rank(l) = x}
           names == {l.exchange : l \in ties}
<1>6. names \subseteq Nat /\ names # {}
  BY <1>5, LevelTypes
<1>7. PICK e \in names : \A d \in names : e <= d
  BY <1>6, LeastExists
<1>8. PICK l \in LevelsOf(s) : Rank(l) = x /\ l.exchange = e
  BY <1>7
<1>9. \A k \in LevelsOf(s) : x <= Rank(k) /\ Rank(k) \in Nat /\ x \in Nat
  BY <1>3, <1>5
<1>10. \A k \in LevelsOf(s) : ~Better(s, k.price, l.price)
  BY <1>4, <1>8, <1>9
<1>11. l \in BestOf(s)
  <2>1. ASSUME NEW k \in LevelsOf(s)
        PROVE  Better(s, l.price, k.price) \/ (l.price = k.price /\ l.exchange <= k.exchange)
    <3>1. CASE Rank(k) = x
      BY <1>4, <1>7, <1>8, <3>1
    <3>2. CASE Rank(k) # x
      <4>1. Rank(l) < Rank(k)
        BY <1>8, <1>9, <3>2
      <4> QED BY <1>4, <4>1
    <3> QED BY <3>1, <3>2
  <2> QED BY <2>1 DEF BestOf
<1>12. ASSUME NEW k \in BestOf(s) PROVE k = l
  <2>1. k \in LevelsOf(s) /\ (Better(s, k.price, l.price) \/ (k.price = l.price /\ k.exchange <= l.exchange))
    BY <1>8, <1>12 DEF BestOf
  <2>2. k.price = l.price /\ k.exchange <= l.exchange
    BY <1>10, <2>1
  <2>3. Rank(k) = x
    BY <1>4, <1>8, <2>1, <2>2
  <2>4. l.exchange <= k.exchange
    BY <1>7, <1>8, <2>1, <2>3
  <2>5. k.exchange = l.exchange
    BY <2>1, <2>2, <2>4, LevelTypes
  <2> QED BY <2>1, <2>2, <2>5 DEF LevelsOf
<1>13. BestOf(s) = {l}
  BY <1>11, <1>12
<1> QED BY <1>10, <1>13

(* The smaller of two numbers.                                              *)
LEMMA MinOfTwo ==
  ASSUME NEW m \in Nat, NEW n \in Nat
  PROVE  Min({m, n}) <= m /\ Min({m, n}) <= n
<1>1. \E x \in {m, n} : \A y \in {m, n} : x <= y
  BY LeastExists
<1>2. Min({m, n}) \in {m, n} /\ \A y \in {m, n} : Min({m, n}) <= y
  BY <1>1 DEF Min
<1> QED BY <1>2

(* A wider spread at a lower ask is the larger profit.                      *)
LEMMA ProfitGrows ==
  ASSUME NEW a \in Nat, NEW b \in Nat, NEW c \in Nat, NEW d \in Nat, NEW m \in Int,
         c <= a, b <= d, a < b, (b - a) * 1000 >= m * a
  PROVE  c < d /\ b - a <= d - c /\ (d - c) * 1000 >= m * c
<1>1. b - a <= d - c /\ c < d
  OBVIOUS
<1>2. (b - a) * 1000 <= (d - c) * 1000 /\ (d - c) * 1000 \in Nat
  BY <1>1
<1>3. CASE m \in Nat
  <2>1. PICK n \in Nat : a = c + n
    <3>1. a - c \in Nat /\ a = c + (a - c)
      OBVIOUS
    <3> QED BY <3>1
  <2>2. m * a = m * c + m * n /\ m * n \in Nat /\ m * c \in Nat
    BY <1>3, <2>1
  <2> QED BY <1>1, <1>2, <2>2
<1>4. CASE m \notin Nat
  <2>1. PICK k \in Nat : m = 0 - k
    <3>1. 0 - m \in Nat /\ m = 0 - (0 - m)
      BY <1>4
    <3> QED BY <3>1
  <2>2. m * c = 0 - (k * c) /\ k * c \in Nat
    BY <2>1
  <2> QED BY <1>1, <1>2, <2>2
<1> QED BY <1>3, <1>4

(* In well formed books the answers of detect_arbitrage are right.          *)
LEMMA BookMeansSound == BookSound => OpportunitiesSound
<1> SUFFICES ASSUME BookSound, NEW min \in MinProfits
             PROVE  LET pairs == {ab \in LevelsOf("ASK") \X LevelsOf("BID") :
                                   /\ ab[1].price < ab[2].price
                                   /\ (ab[2].price - ab[1].price) * 1000 >= min * ab[1].price}
                    IN  /\ detect_arbitrage(min) = {} <=> pairs = {}
                        /\ \A deal \in detect_arbitrage(min) :
                             /\ \A ab \in pairs :
                                  ab[2].price - ab[1].price <= deal.sell_price - deal.buy_price
                             /\ deal.max_quantity <= BookOf(deal.buy_exchange)["ASK"][deal.buy_price]
                             /\ deal.max_quantity <= BookOf(deal.sell_exchange)["BID"][deal.sell_price]
                             /\ (\A e \in Exchanges : Uncrossed(e)) => deal.buy_exchange # deal.sell_exchange
  BY DEF OpportunitiesSound
<1> DEFINE pays(a, b) == a.price < b.price /\ (b.price - a.price) * 1000 >= min * a.price
           pairs == {ab \in LevelsOf("ASK") \X LevelsOf("BID") : pays(ab[1], ab[2])}
           offer(a, b) == [buy_exchange |-> a.exchange, sell_exchange |-> b.exchange,
                           buy_price |-> a.price, sell_price |-> b.price,
                           max_quantity |-> Min({a.quantity, b.quantity})]
<1>0. min \in Int /\ "ASK" \in Sides /\ "BID" \in Sides
  BY ProfitsAreIntegers DEF Sides
<1>1. detect_arbitrage(min) = {offer(ab[1], ab[2]) :
                                 ab \in {xy \in get_best_ask \X get_best_bid : pays(xy[1], xy[2])}}
  BY DEF detect_arbitrage
<1>2. CASE LevelsOf("ASK") = {} \/ LevelsOf("BID") = {}
  <2>1. pairs = {}
    BY <1>2
  <2>2. get_best_ask = {} \/ get_best_bid = {}
    BY <1>2 DEF get_best_ask, get_best_bid, BestOf
  <2>3. detect_arbitrage(min) = {}
    <3> HIDE DEF offer, pays
    <3> QED BY <1>1, <2>2
  <2> QED BY <2>1, <2>3
<1>3. CASE LevelsOf("ASK") # {} /\ LevelsOf("BID") # {}
  <2>1. PICK a \in LevelsOf("ASK") : /\ get_best_ask = {a}
                                     /\ \A k \in LevelsOf("ASK") : ~Better("ASK", k.price, a.price)
    BY <1>0, <1>3, BestIsBest DEF get_best_ask
  <2>2. PICK b \in LevelsOf("BID") : /\ get_best_bid = {b}
                                     /\ \A k \in LevelsOf("BID") : ~Better("BID", k.price, b.price)
    BY <1>0, <1>3, BestIsBest DEF get_best_bid
  <2>3. detect_arbitrage(min) = IF pays(a, b) THEN {offer(a, b)} ELSE {}
    <3>1. get_best_ask \X get_best_bid = {<<a, b>>}
      BY <2>1, <2>2
    <3> HIDE DEF offer, pays
    <3>2. {xy \in {<<a, b>>} : pays(xy[1], xy[2])} = IF pays(a, b) THEN {<<a, b>>} ELSE {}
      OBVIOUS
    <3>3. {offer(ab[1], ab[2]) : ab \in {<<a, b>>}} = {offer(a, b)}
      OBVIOUS
    <3>4. {offer(ab[1], ab[2]) : ab \in {}} = {}
      OBVIOUS
    <3>5. CASE pays(a, b)
      BY <1>1, <3>1, <3>2, <3>3, <3>5
    <3>6. CASE ~pays(a, b)
      BY <1>1, <3>1, <3>2, <3>4, <3>6
    <3> QED BY <3>5, <3>6
  <2>4. ASSUME NEW x \in LevelsOf("ASK"), NEW y \in LevelsOf("BID"), pays(x, y)
        PROVE  pays(a, b) /\ y.price - x.price <= b.price - a.price
    <3>1. {x.price, y.price, a.price, b.price} \subseteq Nat
      BY <1>0, LevelTypes
    <3>2. a.price <= x.price /\ y.price <= b.price
      BY <2>1, <2>2, <3>1 DEF Better
    <3> QED BY <1>0, <2>4, <3>1, <3>2, ProfitGrows
  <2>5. pairs = {} <=> ~pays(a, b)
    <3>1. pays(a, b) => <<a, b>> \in pairs
      OBVIOUS
    <3>2. ASSUME NEW ab \in pairs PROVE pays(a, b)
      BY <2>4
    <3> HIDE DEF pays
    <3> QED BY <3>1, <3>2
  <2>6. /\ Min({a.quantity, b.quantity}) <= BookOf(a.exchange)["ASK"][a.price]
        /\ Min({a.quantity, b.quantity}) <= BookOf(b.exchange)["BID"][b.price]
    <3>1. a.quantity \in Nat /\ b.quantity \in Nat
      BY <1>0, LevelTypes
    <3>2. a.quantity = BookOf(a.exchange)["ASK"][a.price] /\ b.quantity = BookOf(b.exchange)["BID"][b.price]
      BY <1>0, LevelTypes DEF BookOf
    <3> QED BY <3>1, <3>2, MinOfTwo
  <2>7. ASSUME pays(a, b), \A e \in Exchanges : Uncrossed(e) PROVE a.exchange # b.exchange
    <3>1. SUFFICES ASSUME a.exchange = b.exchange PROVE FALSE
      OBVIOUS
    <3>2. /\ a.exchange \in DOMAIN exchange_books /\ a.exchange \in Exchanges
          /\ a.price \in DOMAIN exchange_books[a.exchange]["ASK"] /\ a.price \in Nat
          /\ b.price \in DOMAIN exchange_books[a.exchange]["BID"] /\ b.price \in Nat
      BY <1>0, <3>1, LevelTypes DEF BookSound
    <3>3. b.price < a.price
      BY <2>7, <3>2 DEF Uncrossed, BookOf
    <3> QED BY <2>7, <3>2, <3>3
  <2>8. ASSUME NEW deal \in detect_arbitrage(min)
        PROVE  pays(a, b) /\ deal = offer(a, b)
    <3> HIDE DEF pays, offer
    <3> QED BY <2>3, <2>8
  <2>9. detect_arbitrage(min) = {} <=> pairs = {}
    <3> HIDE DEF pays, offer, pairs
    <3> QED BY <2>3, <2>5
  <2>10. ASSUME NEW deal \in detect_arbitrage(min), NEW ab \in pairs
         PROVE  ab[2].price - ab[1].price <= deal.sell_price - deal.buy_price
    <3>1. ab[1] \in LevelsOf("ASK") /\ ab[2] \in LevelsOf("BID") /\ pays(ab[1], ab[2])
      OBVIOUS
    <3>2. ab[2].price - ab[1].price <= b.price - a.price
      BY <2>4, <3>1
    <3> QED BY <2>8, <3>2
  <2>11. ASSUME NEW deal \in detect_arbitrage(min)
         PROVE  /\ deal.max_quantity <= BookOf(deal.buy_exchange)["ASK"][deal.buy_price]
                /\ deal.max_quantity <= BookOf(deal.sell_exchange)["BID"][deal.sell_price]
                /\ (\A e \in Exchanges : Uncrossed(e)) => deal.buy_exchange # deal.sell_exchange
    BY <2>6, <2>7, <2>8
  <2> HIDE DEF pays, offer
  <2>12. pairs = {ab \in LevelsOf("ASK") \X LevelsOf("BID") :
                    /\ ab[1].price < ab[2].price
                    /\ (ab[2].price - ab[1].price) * 1000 >= min * ab[1].price}
    BY DEF pays
  <2> HIDE DEF pairs
  <2> QED BY <2>9, <2>10, <2>11, <2>12
<1> QED BY <1>2, <1>3

(* For any exchanges, prices, quantities and thresholds, after any          *)
(* messages: detect_arbitrage finds an opportunity exactly when there is    *)
(* one, the largest one, in a quantity both levels hold, and between two    *)
(* exchanges unless one of them has crossed its own book.                   *)
THEOREM OpportunitiesAreSound == AggregatedSpec => []OpportunitiesSound
BY BookInitially, BookPreserved, BookMeansSound, PTL DEF AggregatedSpec
---------------------------------------------------------------------------
(* MetricsCollector: what the counters count, and what a summary holds of   *)
(* the gauges it has loaded.                                                *)
SummaryInv ==
  /\ counter \in [{"updates", "snapshots"} -> Nat]
  /\ gauge \in [Gauges -> Nat]
  /\ monitor.at \in 1 .. 6
  /\ monitor = [at |-> monitor.at, summary |-> monitor.summary]
  /\ monitor.summary \in [{Fields[i] : i \in 1 .. 4} -> Nat]
  /\ {erasing, made, reported, missed} \subseteq Nat
  /\ made = reported + missed + (IF Unreported THEN 0 ELSE counter.updates)
  /\ \A g \in Gauges : gauge[g] \in shown[g]
  /\ DOMAIN shown = Gauges
  /\ monitor.at \in 2 .. 5 =>
       \A i \in 2 .. 4 : i < monitor.at => monitor.summary[Fields[i]] \in shown[Fields[i]]

(* The fields of a summary.                                                 *)
LEMMA FieldNames ==
  /\ Fields[1] = "messages_per_second" /\ Fields[2] = "spread" /\ Fields[3] = "mid_price"
  /\ Fields[4] = "book_imbalance"
  /\ \A i \in 2 .. 4 : Fields[i] \in Gauges
  /\ \A i, j \in 1 .. 4 : Fields[i] = Fields[j] => i = j
<1>1. /\ Fields[1] = "messages_per_second" /\ Fields[2] = "spread" /\ Fields[3] = "mid_price"
      /\ Fields[4] = "book_imbalance"
  BY DEF Fields
<1>2. \A i \in 1 .. 4 : i = 1 \/ i = 2 \/ i = 3 \/ i = 4
  OBVIOUS
<1>3. \A i \in 2 .. 4 : Fields[i] \in Gauges
  BY <1>1 DEF Gauges
<1>4. ASSUME NEW i \in 1 .. 4, NEW j \in 1 .. 4, Fields[i] = Fields[j] PROVE i = j
  BY <1>1, <1>2, <1>4
<1> QED BY <1>1, <1>3, <1>4

(* The collector begins with zeros.                                         *)
LEMMA SummaryInitially == CollectorInit => SummaryInv
BY DEF CollectorInit, SummaryInv, NoSummary, Unreported

(* Every access keeps it.                                                   *)
LEMMA SummaryPreserved == SummaryInv /\ [CollectorNext]_collectorVars => SummaryInv'
<1> SUFFICES ASSUME SummaryInv, [CollectorNext]_collectorVars PROVE SummaryInv'
  OBVIOUS
<1>1. CASE UNCHANGED collectorVars
  BY <1>1 DEF SummaryInv, Unreported, collectorVars
<1>2. CASE increment_updates
  <2>1. /\ counter' = [counter EXCEPT !.updates = @ + 1] /\ made' = made + 1
        /\ missed' = IF Unreported THEN missed + 1 ELSE missed
        /\ UNCHANGED <<gauge, monitor, erasing, reported, shown>>
    BY <1>2 DEF increment_updates
  <2> QED BY <2>1 DEF SummaryInv, Unreported
<1>3. CASE increment_snapshots
  <2>1. /\ counter' = [counter EXCEPT !.snapshots = @ + 1]
        /\ UNCHANGED <<gauge, monitor, erasing, made, reported, missed, shown>>
    BY <1>3 DEF increment_snapshots
  <2> QED BY <2>1 DEF SummaryInv, Unreported
<1>4. ASSUME NEW g \in Gauges, NEW v \in Nat, SetGauge(g, v) PROVE SummaryInv'
  <2>1. /\ gauge' = [gauge EXCEPT ![g] = v] /\ shown' = [shown EXCEPT ![g] = @ \union {v}]
        /\ UNCHANGED <<counter, monitor, erasing, made, reported, missed>>
    BY <1>4 DEF SetGauge
  <2>2. DOMAIN shown' = Gauges /\ \A h \in Gauges : shown[h] \subseteq shown'[h]
    BY <2>1 DEF SummaryInv
  <2>3. \A h \in Gauges : gauge'[h] \in shown'[h]
    BY <2>1, <2>2 DEF SummaryInv
  <2>4. gauge' \in [Gauges -> Nat]
    BY <2>1 DEF SummaryInv
  <2> QED BY <2>1, <2>2, <2>3, <2>4, FieldNames DEF SummaryInv, Unreported
<1>5. CASE LoadUpdates
  <2>1. /\ monitor.at = 1
        /\ monitor' = [at |-> 2, summary |-> [NoSummary EXCEPT !.messages_per_second = counter.updates]]
        /\ reported' = reported + counter.updates /\ shown' = [g \in Gauges |-> {gauge[g]}]
        /\ UNCHANGED <<counter, gauge, erasing, made, missed>>
    BY <1>5 DEF LoadUpdates
  <2>2. monitor'.at = 2 /\ monitor'.summary = [NoSummary EXCEPT !.messages_per_second = counter.updates]
    BY <2>1
  <2>3. monitor'.summary \in [{Fields[i] : i \in 1 .. 4} -> Nat]
    <3> DEFINE S == {Fields[i] : i \in 1 .. 4}
    <3>1. NoSummary \in [S -> Nat] /\ "messages_per_second" \in S
      BY FieldNames DEF NoSummary
    <3>2. counter.updates \in Nat
      BY DEF SummaryInv
    <3> HIDE DEF S
    <3>3. monitor'.summary \in [S -> Nat]
      BY <2>2, <3>1, <3>2
    <3> QED BY <3>3 DEF S
  <2>4. made' = reported' + missed' + (IF Unreported' THEN 0 ELSE counter'.updates)
    BY <2>1, <2>2 DEF SummaryInv, Unreported
  <2>5. reported' \in Nat
    BY <2>1 DEF SummaryInv
  <2> QED BY <2>1, <2>2, <2>3, <2>4, <2>5 DEF SummaryInv
<1>6. CASE LoadGauge
  <2> DEFINE n == monitor.at
             f == Fields[n]
  <2>1. /\ n \in 2 .. 4
        /\ monitor' = [monitor EXCEPT !.at = @ + 1, !.summary[f] = gauge[f]]
        /\ UNCHANGED <<counter, gauge, erasing, made, reported, missed, shown>>
    BY <1>6 DEF LoadGauge
  <2>2. /\ monitor'.at = n + 1 /\ monitor'.summary = [monitor.summary EXCEPT ![f] = gauge[f]]
        /\ monitor' = [at |-> monitor'.at, summary |-> monitor'.summary]
    BY <2>1 DEF SummaryInv
  <2>3. f \in Gauges /\ f \in {Fields[i] : i \in 1 .. 4}
    BY <2>1, FieldNames
  <2>4. monitor'.summary \in [{Fields[i] : i \in 1 .. 4} -> Nat]
    BY <2>2, <2>3 DEF SummaryInv
  <2>5. ASSUME NEW i \in 2 .. 4, i < n + 1 PROVE monitor'.summary[Fields[i]] \in shown[Fields[i]]
    <3>1. CASE i = n
      BY <2>2, <2>3, <3>1 DEF SummaryInv
    <3>2. CASE i # n
      <4>1. i < n
        BY <2>1, <2>5, <3>2
      <4>2. Fields[i] # f /\ Fields[i] \in {Fields[j] : j \in 1 .. 4}
        BY <2>1, <3>2, FieldNames
      <4>3. monitor'.summary[Fields[i]] = monitor.summary[Fields[i]]
        BY <2>2, <4>2 DEF SummaryInv
      <4> QED BY <2>1, <4>1, <4>3 DEF SummaryInv
    <3> QED BY <3>1, <3>2
  <2>6. Unreported /\ Unreported'
    BY <2>1, <2>2 DEF Unreported
  <2> HIDE DEF f
  <2> QED BY <2>1, <2>2, <2>4, <2>5, <2>6 DEF SummaryInv
<1>7. CASE reset_counters
  <2>1. CASE monitor.at = 5
    <3>1. /\ counter' = [counter EXCEPT !.updates = 0] /\ monitor' = [monitor EXCEPT !.at = 6]
          /\ UNCHANGED <<gauge, erasing, made, reported, missed, shown>>
      BY <1>7, <2>1 DEF reset_counters
    <3>2. monitor'.at = 6 /\ monitor'.summary = monitor.summary /\ counter'.updates = 0
      BY <3>1 DEF SummaryInv
    <3>3. Unreported /\ ~Unreported'
      BY <2>1, <3>2 DEF Unreported
    <3> QED BY <3>1, <3>2, <3>3 DEF SummaryInv
  <2>2. CASE monitor.at = 6
    <3>1. /\ counter' = [counter EXCEPT !.snapshots = 0] /\ monitor' = [monitor EXCEPT !.at = 1]
          /\ UNCHANGED <<gauge, erasing, made, reported, missed, shown>>
      BY <1>7, <2>2 DEF reset_counters
    <3>2. monitor'.at = 1 /\ monitor'.summary = monitor.summary /\ counter'.updates = counter.updates
      BY <3>1 DEF SummaryInv
    <3>3. ~Unreported /\ ~Unreported'
      BY <2>2, <3>2 DEF Unreported
    <3> QED BY <3>1, <3>2, <3>3 DEF SummaryInv
  <2> QED BY <1>7, <2>1, <2>2 DEF reset_counters
<1>8. CASE reset_collector
  <2> DEFINE f == Erased[erasing + 1]
  <2>1. /\ erasing' = erasing + 1
        /\ counter' = IF f \in DOMAIN counter THEN [counter EXCEPT ![f] = 0] ELSE counter
        /\ gauge' = IF f \in Gauges THEN [gauge EXCEPT ![f] = 0] ELSE gauge
        /\ shown' = IF f \in Gauges THEN [shown EXCEPT ![f] = @ \union {0}] ELSE shown
        /\ missed' = IF f = "updates" /\ ~Unreported THEN missed + counter.updates ELSE missed
        /\ UNCHANGED <<monitor, made, reported>>
    BY <1>8 DEF reset_collector
  <2> HIDE DEF f
  <2>2. DOMAIN shown' = Gauges /\ \A h \in Gauges : shown[h] \subseteq shown'[h]
    BY <2>1 DEF SummaryInv
  <2>3. \A h \in Gauges : gauge'[h] \in shown'[h]
    BY <2>1, <2>2 DEF SummaryInv
  <2>4. gauge' \in [Gauges -> Nat] /\ counter' \in [{"updates", "snapshots"} -> Nat]
    BY <2>1 DEF SummaryInv
  <2>5. missed' \in Nat /\ made' = reported' + missed' + (IF Unreported' THEN 0 ELSE counter'.updates)
    <3>1. Unreported' = Unreported
      BY <2>1 DEF Unreported
    <3>2. CASE f = "updates"
      <4>1. counter'.updates = 0
        BY <2>1, <3>2 DEF SummaryInv
      <4> QED BY <2>1, <3>1, <3>2, <4>1 DEF SummaryInv
    <3>3. CASE f # "updates"
      <4>1. counter'.updates = counter.updates /\ missed' = missed
        BY <2>1, <3>3 DEF SummaryInv
      <4> QED BY <2>1, <3>1, <4>1 DEF SummaryInv
    <3> QED BY <3>2, <3>3
  <2> QED BY <2>1, <2>2, <2>3, <2>4, <2>5, FieldNames DEF SummaryInv
<1> QED BY <1>1, <1>2, <1>3, <1>4, <1>5, <1>6, <1>7, <1>8, CollectorAssumption
        DEF CollectorNext, get_summary, set_total_volumes, set_spread, set_mid_price,
            set_book_imbalance, Gauges

(* For any values of the gauges and any interleaving of updates, summaries  *)
(* and resets: an update is in one summary at most, those missed are told   *)
(* apart, and a summary's gauges had their values during the call.          *)
THEOREM SummariesAreSound == CollectorSpec => []SummarySound
<1>1. SummaryInv => SummarySound
  BY FieldNames DEF SummaryInv, SummarySound
<1> QED BY <1>1, SummaryInitially, SummaryPreserved, PTL DEF CollectorSpec

---------------------------------------------------------------------------
(* ConfigurationManager: no setting of a configuration is a list that is    *)
(* none, unless a variable refers to another a second substitution of the   *)
(* environment changes no address, and a saved file holds what was saved.   *)
Loads(c) ==
  /\ \A s \in Venue3 : /\ c[s].symbols # {"no list"}
                       /\ ~Nested => substitute_env_vars(c[s].url) = c[s].url
  /\ "cpu_cores" \in DOMAIN c.performance /\ c.performance.cpu_cores # {"no list"}

ConfigInv ==
  /\ DOMAIN config = {Sections[i] : i \in 1 .. 8}
  /\ environment \in Environments
  /\ Loads(config)
  /\ savedAs # NoFile => Loads(savedAs) /\ disk = Emitted(savedAs)

(* Where a section stands in the order of parse_yaml.                       *)
LEMMA SectionsOrdered ==
  ASSUME NEW s \in {Sections[i] : i \in 1 .. 8}
  PROVE  /\ (CHOOSE i \in DOMAIN Sections : Sections[i] = s) \in 1 .. 8
         /\ Sections[CHOOSE i \in DOMAIN Sections : Sections[i] = s] = s
<1>1. DOMAIN Sections = 1 .. 8 /\ Len(Sections) = 8
  BY DEF Sections
<1> QED BY <1>1

(* The first of some numbers.                                               *)
LEMMA FirstIsLeast ==
  ASSUME NEW S \in SUBSET Nat, S # {}
  PROVE  Min(S) \in S /\ \A x \in S : Min(S) <= x
<1>1. PICK x \in S : \A y \in S : x <= y
  BY LeastExists
<1> QED BY <1>1 DEF Min

(* What parse_yaml makes of each section.                                   *)
LEMMA Parsed ==
  ASSUME NEW doc, DOMAIN config = {Sections[i] : i \in 1 .. 8}
  PROVE  /\ DOMAIN parse_yaml(doc).config = DOMAIN config
         /\ \A s \in DOMAIN config :
              \/ parse_yaml(doc).config[s] = config[s]
              \/ /\ s = "performance"
                 /\ parse_yaml(doc).config[s] = Interrupted(s, doc[s])
              \/ /\ s \in DOMAIN doc /\ ~Throws(s, doc[s])
                 /\ parse_yaml(doc).config[s] = ParseSection(s, doc[s])
<1> DEFINE Has(i) == Sections[i] \in DOMAIN doc
           throwing == {i \in DOMAIN Sections : Has(i) /\ Throws(Sections[i], doc[Sections[i]])}
           stop == IF "garbled" \in DOMAIN doc THEN 0 ELSE Min(throwing \cup {Len(Sections) + 1})
           At(s) == CHOOSE i \in DOMAIN Sections : Sections[i] = s
           cfg == [s \in DOMAIN config |->
                     IF ~Has(At(s)) \/ At(s) > stop THEN config[s]
                     ELSE IF At(s) = stop THEN Interrupted(s, doc[s])
                     ELSE ParseSection(s, doc[s])]
<1>1. parse_yaml(doc).config = cfg
  BY DEF parse_yaml
<1>2. DOMAIN Sections = 1 .. 8 /\ Len(Sections) = 8
  BY DEF Sections
<1>3. \A s \in DOMAIN config : At(s) \in 1 .. 8 /\ Sections[At(s)] = s
  BY SectionsOrdered
<1> HIDE DEF At
<1>4. stop \in Nat /\ \A i \in throwing : stop <= i
  <2>1. throwing \cup {Len(Sections) + 1} \in SUBSET Nat
    BY <1>2
  <2> HIDE DEF throwing
  <2>2. CASE "garbled" \in DOMAIN doc
    BY <2>1, <2>2
  <2>3. CASE "garbled" \notin DOMAIN doc
    <3>1. /\ Min(throwing \cup {Len(Sections) + 1}) \in throwing \cup {Len(Sections) + 1}
          /\ \A i \in throwing \cup {Len(Sections) + 1} : Min(throwing \cup {Len(Sections) + 1}) <= i
      BY <2>1, FirstIsLeast
    <3> QED BY <2>1, <2>3, <3>1
  <2> QED BY <2>2, <2>3
<1> HIDE DEF stop
<1>5. ASSUME NEW s \in DOMAIN config, Has(At(s)), At(s) < stop
      PROVE  s \in DOMAIN doc /\ ~Throws(s, doc[s])
  <2>1. At(s) \notin throwing
    BY <1>3, <1>4, <1>5
  <2> QED BY <1>2, <1>3, <1>5, <2>1
<1>6. ASSUME NEW s \in DOMAIN config, s # "performance" PROVE Interrupted(s, doc[s]) = config[s]
  BY <1>6 DEF Interrupted
<1>7. DOMAIN cfg = DOMAIN config
  OBVIOUS
<1>8. ASSUME NEW s \in DOMAIN config
      PROVE  \/ cfg[s] = config[s]
             \/ s = "performance" /\ cfg[s] = Interrupted(s, doc[s])
             \/ s \in DOMAIN doc /\ ~Throws(s, doc[s]) /\ cfg[s] = ParseSection(s, doc[s])
  <2>1. cfg[s] = IF ~Has(At(s)) \/ At(s) > stop THEN config[s]
                 ELSE IF At(s) = stop THEN Interrupted(s, doc[s])
                 ELSE ParseSection(s, doc[s])
    OBVIOUS
  <2>2. CASE ~Has(At(s)) \/ At(s) > stop
    BY <2>1, <2>2
  <2>3. CASE Has(At(s)) /\ At(s) = stop
    BY <1>3, <1>4, <1>6, <2>1, <2>3
  <2>4. CASE Has(At(s)) /\ At(s) < stop
    BY <1>3, <1>4, <1>5, <2>1, <2>4
  <2> HIDE DEF Has, cfg
  <2> QED BY <1>3, <1>4, <2>2, <2>3, <2>4
<1> HIDE DEF cfg
<1> QED BY <1>1, <1>7, <1>8

(* The defaults hold lists and no reference to the environment.             *)
LEMMA DefaultsLoad ==
  /\ environment \in Environments => Loads(create_default)
  /\ DOMAIN create_default = {Sections[i] : i \in 1 .. 8}
<1>1. ASSUME environment \in Environments PROVE Loads(create_default)
  <2> DEFINE c == create_default
  <2>1. /\ \A s \in Venue3 : c[s].url = "set" /\ c[s].symbols = {"BTC"}
        /\ "cpu_cores" \in DOMAIN c.performance /\ c.performance.cpu_cores = {}
    BY DEF create_default, Venue3
  <2> HIDE DEF c
  <2>2. substitute_env_vars("set") = "set"
    BY <1>1, EnvironmentAssumption DEF substitute_env_vars
  <2>3. "BTC" \in {"BTC"} /\ "BTC" \notin {"no list"} /\ {} # {"no list"}
    OBVIOUS
  <2>4. \A s \in Venue3 : c[s].symbols # {"no list"} /\ substitute_env_vars(c[s].url) = c[s].url
    BY <2>1, <2>2, <2>3, Zenon
  <2>5. "cpu_cores" \in DOMAIN c.performance /\ c.performance.cpu_cores # {"no list"}
    BY <2>1, <2>3
  <2> QED BY <2>4, <2>5 DEF Loads, c
<1>2. {Sections[i] : i \in 1 .. 8} = {"binance", "coinbase", "kraken", "server", "performance",
                                      "logging", "recording", "arbitrage"}
  <2>1. \A x : x \in {Sections[i] : i \in 1 .. 8} <=>
                 \/ x = Sections[1] \/ x = Sections[2] \/ x = Sections[3] \/ x = Sections[4]
                 \/ x = Sections[5] \/ x = Sections[6] \/ x = Sections[7] \/ x = Sections[8]
    OBVIOUS
  <2> QED BY <2>1 DEF Sections
<1> QED BY <1>1, <1>2 DEF create_default

(* The settings that parse_yaml reads of an exchange.                       *)
LEMMA ParsedVenue ==
  ASSUME NEW node, NEW s \in Venue3
  PROVE  /\ ParseSection(s, node).symbols = Given(node, "symbols", {})
         /\ ParseSection(s, node).url = substitute_env_vars(Given(node, "url", ""))
         /\ ParseSection(s, node).enabled = Given(node, "enabled", TRUE)
         /\ ParseSection(s, node).rate_limit = Given(node, "rate_limit", DefaultRate(s))
<1>1. ParseSection(s, node) = ParseVenue(s, node)
  <2>1. s \notin {"server", "performance", "logging", "recording", "arbitrage"}
    BY DEF Venue3
  <2> QED BY <2>1 DEF ParseSection
<1>2. ParseVenue(s, node).symbols = Given(node, "symbols", {})
  BY DEF ParseVenue
<1>3. ParseVenue(s, node).url = substitute_env_vars(Given(node, "url", ""))
  BY DEF ParseVenue
<1>4. ParseVenue(s, node).enabled = Given(node, "enabled", TRUE)
  BY DEF ParseVenue
<1>5. ParseVenue(s, node).rate_limit = Given(node, "rate_limit", DefaultRate(s))
  BY DEF ParseVenue
<1> QED BY <1>1, <1>2, <1>3, <1>4, <1>5, Zenon

(* Those of the other sections that save writes.                            *)
LEMMA ParsedPerformance ==
  ASSUME NEW node
  PROVE  /\ "cpu_cores" \in DOMAIN ParseSection("performance", node)
         /\ ParseSection("performance", node).cpu_cores
              = Given(node, "cpu_cores", config.performance.cpu_cores)
         /\ ParseSection("performance", node).cpu_pinning = Given(node, "cpu_pinning", FALSE)
         /\ ParseSection("performance", node).huge_pages = Given(node, "huge_pages", FALSE)
<1>1. ParseSection("performance", node) = ParsePerformance(node)
  BY DEF ParseSection, Venue3
<1>2. /\ "cpu_cores" \in DOMAIN ParsePerformance(node)
      /\ ParsePerformance(node).cpu_cores = Given(node, "cpu_cores", config.performance.cpu_cores)
  BY DEF ParsePerformance
<1>3. ParsePerformance(node).cpu_pinning = Given(node, "cpu_pinning", FALSE)
  BY DEF ParsePerformance
<1>4. ParsePerformance(node).huge_pages = Given(node, "huge_pages", FALSE)
  BY DEF ParsePerformance
<1> QED BY <1>1, <1>2, <1>3, <1>4, Zenon

LEMMA ParsedServer ==
  ASSUME NEW node
  PROVE  /\ ParseSection("server", node).websocket_port = Given(node, "websocket_port", 8080)
         /\ ParseSection("server", node).rest_port = Given(node, "rest_port", 8081)
         /\ ParseSection("server", node).max_connections = Given(node, "max_connections", 1000)
<1>1. ParseSection("server", node) = ParseServer(node)
  BY DEF ParseSection, Venue3
<1>2. /\ ParseServer(node).websocket_port = Given(node, "websocket_port", 8080)
      /\ ParseServer(node).rest_port = Given(node, "rest_port", 8081)
      /\ ParseServer(node).max_connections = Given(node, "max_connections", 1000)
  BY DEF ParseServer
<1> QED BY <1>1, <1>2

LEMMA ParsedLogging ==
  ASSUME NEW node
  PROVE  /\ ParseSection("logging", node).level = Given(node, "level", "info")
         /\ ParseSection("logging", node).pattern = Given(node, "pattern", "default")
<1>1. ParseSection("logging", node) = ParseLogging(node)
  BY DEF ParseSection, Venue3
<1>2. /\ ParseLogging(node).level = Given(node, "level", "info")
      /\ ParseLogging(node).pattern = Given(node, "pattern", "default")
  BY DEF ParseLogging
<1> QED BY <1>1, <1>2

(* Whatever a document holds, what is parsed from it can be saved.          *)
LEMMA ParsedLoads ==
  ASSUME NEW doc, DOMAIN config = {Sections[i] : i \in 1 .. 8}, Loads(config)
  PROVE  Loads(parse_yaml(doc).config)
<1> DEFINE c == parse_yaml(doc).config
<1>1. /\ DOMAIN c = DOMAIN config
      /\ \A s \in DOMAIN config :
           \/ c[s] = config[s]
           \/ s = "performance" /\ c[s] = Interrupted(s, doc[s])
           \/ ~Throws(s, doc[s]) /\ c[s] = ParseSection(s, doc[s])
  BY Parsed
<1> HIDE DEF c
<1>2. Venue3 \cup {"performance"} \subseteq DOMAIN config
  BY DefaultsLoad DEF Venue3, create_default
<1>3. ASSUME NEW s \in Venue3
      PROVE  c[s].symbols # {"no list"} /\ (~Nested => substitute_env_vars(c[s].url) = c[s].url)
  <2>1. s # "performance" /\ s \in DOMAIN config
    BY <1>2 DEF Venue3
  <2>2. CASE c[s] = config[s]
    BY <2>2 DEF Loads
  <2>3. CASE ~Throws(s, doc[s]) /\ c[s] = ParseSection(s, doc[s])
    <3>1. /\ c[s].symbols = Given(doc[s], "symbols", {})
          /\ c[s].url = substitute_env_vars(Given(doc[s], "url", ""))
      <4>1. /\ ParseSection(s, doc[s]).symbols = Given(doc[s], "symbols", {})
            /\ ParseSection(s, doc[s]).url = substitute_env_vars(Given(doc[s], "url", ""))
        BY ParsedVenue
      <4> QED BY <2>3, <4>1, Zenon
    <3>2. Given(doc[s], "symbols", {}) # {"no list"}
      BY <2>3 DEF Throws
    <3>3. ASSUME NEW v, ~Nested
          PROVE  substitute_env_vars(substitute_env_vars(v)) = substitute_env_vars(v)
      BY <3>3 DEF substitute_env_vars, Nested
    <3> QED BY <3>1, <3>2, <3>3, Zenon
  <2>4. c[s] = config[s] \/ (~Throws(s, doc[s]) /\ c[s] = ParseSection(s, doc[s]))
    BY <1>1, <2>1
  <2> QED BY <2>2, <2>3, <2>4
<1>4. "cpu_cores" \in DOMAIN c.performance /\ c.performance.cpu_cores # {"no list"}
  <2> DEFINE s == "performance"
  <2>1. CASE c[s] = config[s]
    BY <2>1 DEF Loads
  <2>2. CASE c[s] = Interrupted(s, doc[s])
    BY <2>2 DEF Interrupted, Loads
  <2>3. CASE ~Throws(s, doc[s]) /\ c[s] = ParseSection(s, doc[s])
    <3>1. /\ "cpu_cores" \in DOMAIN c[s]
          /\ c[s].cpu_cores = Given(doc[s], "cpu_cores", config.performance.cpu_cores)
      BY <2>3, ParsedPerformance, Zenon
    <3>2. Given(doc[s], "cpu_cores", {}) # {"no list"}
      BY <2>3 DEF Throws
    <3>3. Given(doc[s], "cpu_cores", config.performance.cpu_cores) # {"no list"}
      BY <3>2 DEF Given, Loads
    <3> QED BY <3>1, <3>3
  <2>4. /\ s \in DOMAIN config
        /\ \/ c[s] = config[s]
           \/ c[s] = Interrupted(s, doc[s])
           \/ ~Throws(s, doc[s]) /\ c[s] = ParseSection(s, doc[s])
    BY <1>1, <1>2
  <2> QED BY <2>1, <2>2, <2>3, <2>4
<1> QED BY <1>3, <1>4 DEF Loads, c

LEMMA ConfigInitially == ConfigInit => ConfigInv
BY DefaultsLoad DEF ConfigInit, ConfigInv

LEMMA ConfigPreserved == ConfigInv /\ [ConfigNext]_configVars => ConfigInv'
<1> SUFFICES ASSUME ConfigInv, [ConfigNext]_configVars PROVE ConfigInv'
  OBVIOUS
<1>1. ASSUME UNCHANGED environment PROVE \A c : Loads(c)' <=> Loads(c)
  BY <1>1 DEF Loads, substitute_env_vars, Nested
<1>2. ASSUME NEW doc, config' = parse_yaml(doc).config, UNCHANGED <<environment, disk, savedAs>>
      PROVE  ConfigInv'
  <2>1. Loads(config') /\ DOMAIN config' = DOMAIN config
    BY <1>2, Parsed, ParsedLoads DEF ConfigInv
  <2> QED BY <1>1, <1>2, <2>1 DEF ConfigInv
<1>3. ASSUME UNCHANGED <<config, environment, disk, savedAs>> PROVE ConfigInv'
  BY <1>1, <1>3 DEF ConfigInv
<1>4. CASE load \/ reload
  BY <1>2, <1>3, <1>4 DEF load, reload
<1>5. CASE \E doc \in Documents : load_from_string(doc)
  BY <1>2, <1>5 DEF load_from_string
<1>11. ASSUME NEW c, Loads(c), Write(c), UNCHANGED <<config, environment>> PROVE ConfigInv'
  <2>1. CASE disk' = Emitted(c) /\ savedAs' = c
    BY <1>1, <1>11, <2>1 DEF ConfigInv
  <2>2. CASE UNCHANGED <<disk, savedAs>>
    BY <1>3, <1>11, <2>2
  <2>3. CASE disk' = << >> /\ savedAs' = NoFile
    BY <1>1, <1>11, <2>3 DEF ConfigInv
  <2> QED BY <1>11, <2>1, <2>2, <2>3 DEF Write
<1>6. CASE save
  BY <1>11, <1>6 DEF save, ConfigInv
<1>7. CASE create_example
  BY <1>11, <1>7, DefaultsLoad DEF create_example, ConfigInv
<1>8. CASE set_change_callback
  BY <1>3, <1>8 DEF set_change_callback
<1>9. CASE Edit
  BY <1>1, <1>9 DEF Edit, ConfigInv
<1>10. CASE UNCHANGED configVars
  BY <1>3, <1>10 DEF configVars
<1> QED BY <1>4, <1>5, <1>6, <1>7, <1>8, <1>9, <1>10 DEF ConfigNext

VenueKeys == {"enabled", "url", "symbols", "rate_limit"}

LEMMA KeysSaved ==
  /\ DOMAIN SavedKeys = Venue3 \cup {"server", "performance", "logging"}
  /\ \A s \in Venue3 : SavedKeys[s] = VenueKeys
  /\ SavedKeys.server = {"websocket_port", "rest_port"} /\ SavedKeys.logging = {"level"}
  /\ SavedKeys.performance = {"cpu_pinning", "cpu_cores"}
  /\ "server" \notin Venue3 /\ "performance" \notin Venue3 /\ "logging" \notin Venue3
BY DEF SavedKeys, Venue3, VenueKeys

(* What save writes of a configuration.                                     *)
LEMMA EmittedSettings ==
  ASSUME NEW c
  PROVE  /\ DOMAIN Emitted(c) = Venue3 \cup {"server", "performance", "logging"}
         /\ \A s \in Venue3 :
              /\ DOMAIN Emitted(c)[s] = VenueKeys
              /\ \A k \in VenueKeys : Emitted(c)[s][k] = c[s][k]
         /\ DOMAIN Emitted(c).server = {"websocket_port", "rest_port"}
         /\ \A k \in {"websocket_port", "rest_port"} : Emitted(c).server[k] = c.server[k]
         /\ DOMAIN Emitted(c).performance = {"cpu_pinning", "cpu_cores"}
         /\ \A k \in {"cpu_pinning", "cpu_cores"} : Emitted(c).performance[k] = c.performance[k]
         /\ DOMAIN Emitted(c).logging = {"level"} /\ Emitted(c).logging.level = c.logging.level
<1>1. /\ DOMAIN Emitted(c) = DOMAIN SavedKeys
      /\ \A s \in DOMAIN SavedKeys :
           /\ DOMAIN Emitted(c)[s] = SavedKeys[s]
           /\ \A k \in SavedKeys[s] : Emitted(c)[s][k] = c[s][k]
  BY DEF Emitted
<1> QED BY <1>1, KeysSaved

(* Two configurations that agree in what is written are written alike and   *)
(* judged alike.                                                            *)
LEMMA WrittenAlike ==
  ASSUME NEW c, NEW d,
         \A s \in Venue3 : /\ c[s].enabled = d[s].enabled /\ c[s].url = d[s].url
                           /\ c[s].symbols = d[s].symbols /\ c[s].rate_limit = d[s].rate_limit,
         c.server.websocket_port = d.server.websocket_port, c.server.rest_port = d.server.rest_port,
         c.logging.level = d.logging.level,
         c.performance.cpu_pinning = d.performance.cpu_pinning,
         c.performance.cpu_cores = d.performance.cpu_cores
  PROVE  Emitted(c) = Emitted(d) /\ validate(c) = validate(d)
<1>1. \A s \in DOMAIN SavedKeys : \A k \in SavedKeys[s] : c[s][k] = d[s][k]
  <2> SUFFICES ASSUME NEW s \in DOMAIN SavedKeys, NEW k \in SavedKeys[s] PROVE c[s][k] = d[s][k]
    OBVIOUS
  <2>1. CASE s \in Venue3
    <3>1. k \in VenueKeys
      BY <2>1, KeysSaved
    <3> QED BY <2>1, <3>1 DEF VenueKeys
  <2>2. CASE s \notin Venue3
    <3>1. \/ s = "server" /\ k \in {"websocket_port", "rest_port"}
          \/ s = "performance" /\ k \in {"cpu_pinning", "cpu_cores"}
          \/ s = "logging" /\ k = "level"
      BY <2>2, KeysSaved
    <3> QED BY <3>1
  <2> QED BY <2>1, <2>2
<1>2. Emitted(c) = Emitted(d)
  BY <1>1 DEF Emitted
<1>3. validate(c) = validate(d)
  <2>1. get_enabled_exchanges(c) = get_enabled_exchanges(d) /\ get_enabled_exchanges(d) \subseteq Venue3
    BY DEF get_enabled_exchanges
  <2>2. /\ {t \in get_enabled_exchanges(c) : c[t].url = ""} = {t \in get_enabled_exchanges(d) : d[t].url = ""}
        /\ {t \in get_enabled_exchanges(c) : c[t].symbols = {}}
             = {t \in get_enabled_exchanges(d) : d[t].symbols = {}}
        /\ {t \in get_enabled_exchanges(c) : c[t].rate_limit <= 0}
             = {t \in get_enabled_exchanges(d) : d[t].rate_limit <= 0}
    BY <2>1
  <2>3. {p \in {"websocket_port", "rest_port"} : c.server[p] = 0}
          = {p \in {"websocket_port", "rest_port"} : d.server[p] = 0}
    OBVIOUS
  <2> QED BY <2>2, <2>3 DEF validate
<1> QED BY <1>2, <1>3

(* A saved file parses, and to what was saved.                              *)
LEMMA SavedParses ==
  ASSUME NEW c, Loads(c), DOMAIN config = {Sections[i] : i \in 1 .. 8}
  PROVE  LET parsed == parse_yaml(Emitted(c))
         IN  /\ parsed.ok
             /\ BringsBack(parsed.config, c)
             /\ parsed.config.recording = config.recording
             /\ parsed.config.arbitrage = config.arbitrage
<1> DEFINE doc == Emitted(c)
           Has(i) == Sections[i] \in DOMAIN doc
           throwing == {i \in DOMAIN Sections : Has(i) /\ Throws(Sections[i], doc[Sections[i]])}
           stop == IF "garbled" \in DOMAIN doc THEN 0 ELSE Min(throwing \cup {Len(Sections) + 1})
           At(s) == CHOOSE i \in DOMAIN Sections : Sections[i] = s
           cfg == [s \in DOMAIN config |->
                     IF ~Has(At(s)) \/ At(s) > stop THEN config[s]
                     ELSE IF At(s) = stop THEN Interrupted(s, doc[s])
                     ELSE ParseSection(s, doc[s])]
<1>1. parse_yaml(doc).config = cfg
  BY DEF parse_yaml
<1>0. stop = Len(Sections) + 1 => parse_yaml(doc).ok
  BY DEF parse_yaml
<1>2. DOMAIN Sections = 1 .. 8 /\ Len(Sections) = 8
  BY DEF Sections
<1>3. \A s \in DOMAIN config : At(s) \in 1 .. 8 /\ Sections[At(s)] = s
  BY SectionsOrdered
<1> HIDE DEF At
<1>4. \A s \in DOMAIN doc : ~Throws(s, doc[s])
  <2>1. ASSUME NEW s \in Venue3 PROVE Given(doc[s], "symbols", {}) # {"no list"}
    <3>1. "symbols" \in VenueKeys
      BY DEF VenueKeys
    <3>2. DOMAIN doc[s] = VenueKeys /\ doc[s]["symbols"] = c[s]["symbols"]
      BY <3>1, EmittedSettings
    <3>3. c[s].symbols # {"no list"}
      BY DEF Loads
    <3> QED BY <3>1, <3>2, <3>3 DEF Given
  <2>2. Given(doc["performance"], "cpu_cores", {}) # {"no list"}
    BY EmittedSettings DEF Loads, Given
  <2> HIDE DEF doc
  <2> QED BY <2>1, <2>2 DEF Throws
<1>5. "garbled" \notin DOMAIN doc
  BY EmittedSettings DEF Venue3
<1>6. stop = 9
  <2>1. throwing = {}
    BY <1>4
  <2>2. {9} \in SUBSET Nat /\ {9} # {}
    OBVIOUS
  <2>3. Min({9}) = 9
    BY <2>2, FirstIsLeast
  <2> HIDE DEF throwing
  <2> QED BY <1>2, <1>5, <2>1, <2>3
<1> HIDE DEF stop, doc
<1>7. \A s \in DOMAIN config : cfg[s] = IF s \in DOMAIN doc THEN ParseSection(s, doc[s]) ELSE config[s]
  BY <1>3, <1>6
<1> HIDE DEF cfg
<1>8. /\ Venue3 \cup {"server", "performance", "logging", "recording", "arbitrage"} \subseteq DOMAIN config
      /\ "recording" \notin Venue3 /\ "arbitrage" \notin Venue3
  BY DefaultsLoad DEF Venue3, create_default
<1>9. /\ DOMAIN doc = Venue3 \cup {"server", "performance", "logging"}
      /\ \A s \in Venue3 : \A v : \A k \in VenueKeys : Given(doc[s], k, v) = c[s][k]
      /\ \A v : \A k \in {"websocket_port", "rest_port"} : Given(doc.server, k, v) = c.server[k]
      /\ \A v : \A k \in {"cpu_pinning", "cpu_cores"} : Given(doc.performance, k, v) = c.performance[k]
      /\ \A v : Given(doc.logging, "level", v) = c.logging.level
      /\ \A v : /\ Given(doc.server, "max_connections", v) = v
                /\ Given(doc.performance, "huge_pages", v) = v
                /\ Given(doc.logging, "pattern", v) = v
  <2>1. DOMAIN doc = Venue3 \cup {"server", "performance", "logging"}
    BY EmittedSettings DEF doc
  <2>2. ASSUME NEW s \in Venue3, NEW v, NEW k \in VenueKeys PROVE Given(doc[s], k, v) = c[s][k]
    BY EmittedSettings DEF doc, Given
  <2>3. \A v : /\ \A k \in {"websocket_port", "rest_port"} : Given(doc.server, k, v) = c.server[k]
              /\ Given(doc.server, "max_connections", v) = v
    BY EmittedSettings DEF Given, doc
  <2>4. \A v : /\ \A k \in {"cpu_pinning", "cpu_cores"} : Given(doc.performance, k, v) = c.performance[k]
              /\ Given(doc.performance, "huge_pages", v) = v
    BY EmittedSettings DEF Given, doc
  <2>5. \A v : /\ Given(doc.logging, "level", v) = c.logging.level
              /\ Given(doc.logging, "pattern", v) = v
    BY EmittedSettings DEF Given, doc
  <2> QED BY <2>1, <2>2, <2>3, <2>4, <2>5
<1>10. cfg.recording = config.recording /\ cfg.arbitrage = config.arbitrage
  BY <1>7, <1>8, <1>9
<1>11. \A s \in Venue3 : /\ cfg[s].enabled = c[s].enabled
                         /\ cfg[s].url = substitute_env_vars(c[s].url)
                         /\ cfg[s].symbols = c[s].symbols /\ cfg[s].rate_limit = c[s].rate_limit
  <2> SUFFICES ASSUME NEW s \in Venue3
               PROVE  /\ cfg[s].enabled = c[s].enabled
                      /\ cfg[s].url = substitute_env_vars(c[s].url)
                      /\ cfg[s].symbols = c[s].symbols /\ cfg[s].rate_limit = c[s].rate_limit
    OBVIOUS
  <2>1. cfg[s] = ParseSection(s, doc[s])
    BY <1>7, <1>8, <1>9
  <2>2. /\ cfg[s].enabled = Given(doc[s], "enabled", TRUE)
        /\ cfg[s].url = substitute_env_vars(Given(doc[s], "url", ""))
        /\ cfg[s].symbols = Given(doc[s], "symbols", {})
        /\ cfg[s].rate_limit = Given(doc[s], "rate_limit", DefaultRate(s))
    <3>1. /\ ParseSection(s, doc[s]).enabled = Given(doc[s], "enabled", TRUE)
          /\ ParseSection(s, doc[s]).url = substitute_env_vars(Given(doc[s], "url", ""))
          /\ ParseSection(s, doc[s]).symbols = Given(doc[s], "symbols", {})
          /\ ParseSection(s, doc[s]).rate_limit = Given(doc[s], "rate_limit", DefaultRate(s))
      BY ParsedVenue
    <3> QED BY <2>1, <3>1, Zenon
  <2>3. \A v : /\ Given(doc[s], "enabled", v) = c[s].enabled /\ Given(doc[s], "url", v) = c[s].url
              /\ Given(doc[s], "symbols", v) = c[s].symbols
              /\ Given(doc[s], "rate_limit", v) = c[s].rate_limit
    BY <1>9 DEF VenueKeys
  <2> QED BY <2>2, <2>3, Zenon
<1>12. /\ cfg.server = ParseSection("server", doc.server)
       /\ cfg.performance = ParseSection("performance", doc.performance)
       /\ cfg.logging = ParseSection("logging", doc.logging)
  BY <1>7, <1>8, <1>9
<1>13. /\ cfg.server.websocket_port = c.server.websocket_port
       /\ cfg.server.rest_port = c.server.rest_port /\ cfg.server.max_connections = 1000
       /\ cfg.performance.cpu_pinning = c.performance.cpu_pinning
       /\ cfg.performance.cpu_cores = c.performance.cpu_cores /\ cfg.performance.huge_pages = FALSE
       /\ cfg.logging.level = c.logging.level /\ cfg.logging.pattern = "default"
  <2>1. /\ cfg.server.websocket_port = c.server.websocket_port
        /\ cfg.server.rest_port = c.server.rest_port /\ cfg.server.max_connections = 1000
    BY <1>9, <1>12, ParsedServer
  <2>2. cfg.logging.level = c.logging.level /\ cfg.logging.pattern = "default"
    BY <1>9, <1>12, ParsedLogging
  <2>3. \A v : /\ Given(doc.performance, "cpu_pinning", v) = c.performance.cpu_pinning
              /\ Given(doc.performance, "cpu_cores", v) = c.performance.cpu_cores
    BY <1>9
  <2>4. /\ cfg.performance.cpu_pinning = c.performance.cpu_pinning
        /\ cfg.performance.cpu_cores = c.performance.cpu_cores
    BY <1>12, <2>3, ParsedPerformance, Zenon
  <2>5. cfg.performance.huge_pages = FALSE
    <3>1. Given(doc.performance, "huge_pages", FALSE) = FALSE
      BY <1>9
    <3>2. ParseSection("performance", doc.performance).huge_pages
            = Given(doc.performance, "huge_pages", FALSE)
      BY ParsedPerformance, Zenon
    <3> QED BY <1>12, <3>1, <3>2, Zenon
  <2> QED BY <2>1, <2>2, <2>4, <2>5
<1>14. \A s \in DOMAIN SavedKeys : \A k \in SavedKeys[s] :
         cfg[s][k] = IF k = "url" THEN substitute_env_vars(c[s].url) ELSE c[s][k]
  <2> SUFFICES ASSUME NEW s \in DOMAIN SavedKeys, NEW k \in SavedKeys[s]
               PROVE  cfg[s][k] = IF k = "url" THEN substitute_env_vars(c[s].url) ELSE c[s][k]
    OBVIOUS
  <2>1. CASE s \in Venue3
    <3>1. k \in VenueKeys
      BY <2>1, KeysSaved
    <3> QED BY <1>11, <2>1, <3>1 DEF VenueKeys
  <2>2. CASE s \notin Venue3
    <3>1. \/ s = "server" /\ k \in {"websocket_port", "rest_port"}
          \/ s = "performance" /\ k \in {"cpu_pinning", "cpu_cores"}
          \/ s = "logging" /\ k = "level"
      BY <2>2, KeysSaved
    <3> QED BY <1>13, <3>1
  <2> QED BY <2>1, <2>2
<1>15. ASSUME ~Nested PROVE Emitted(cfg) = Emitted(c) /\ validate(cfg) = validate(c)
  <2>1. \A s \in Venue3 : substitute_env_vars(c[s].url) = c[s].url
    BY <1>15 DEF Loads
  <2> QED BY <1>11, <1>13, <2>1, WrittenAlike
<1>16. parse_yaml(doc).ok
  BY <1>0, <1>2, <1>6
<1>17. BringsBack(cfg, c)
  BY <1>13, <1>14, <1>15 DEF BringsBack
<1> QED BY <1>1, <1>10, <1>16, <1>17 DEF doc

(* For any documents, edits and environment, whether or not a save wrote:   *)
(* a file that was written by one loads, whatever the configuration has     *)
(* become since, and brings back what was written up to one more            *)
(* substitution of the addresses; the verdict of validate is the same too   *)
(* unless a variable refers to another; and no load leaves an exchange with *)
(* some of its settings.                                                    *)
THEOREM SavedFilesLoad == ConfigSpec => ConfigSound
<1>1. ConfigInv /\ ConfigNext => Loading
  <2> SUFFICES ASSUME ConfigInv, ConfigNext, result'.op = "load"
               PROVE  /\ savedAs # NoFile =>
                           /\ result'.ok /\ BringsBack(config', savedAs)
                           /\ config'.recording = config.recording /\ config'.arbitrage = config.arbitrage
                      /\ \A s \in Venue3 :
                           \/ config'[s] = config[s]
                           \/ s \in DOMAIN disk /\ config'[s] = ParseSection(s, disk[s])
    BY DEF Loading
  <2>1. load
    BY DEF ConfigNext, reload, load_from_string, save, create_example, set_change_callback, Edit
  <2>2. /\ disk # NoFile => config' = parse_yaml(disk).config
        /\ disk = NoFile => config' = config
    BY <2>1, Zenon DEF load
  <2>3. disk # NoFile /\ parse_yaml(disk).ok => result'.ok
    BY <2>1 DEF load
  <2>4. ASSUME savedAs # NoFile
        PROVE  /\ result'.ok /\ BringsBack(config', savedAs)
               /\ config'.recording = config.recording /\ config'.arbitrage = config.arbitrage
    <3>1. Loads(savedAs) /\ disk = Emitted(savedAs)
      BY <2>4 DEF ConfigInv
    <3>2. disk # NoFile
      <4>1. DOMAIN NoFile = {"garbled"}
        BY DEF NoFile
      <4> QED BY <3>1, <4>1, EmittedSettings DEF Venue3
    <3> QED BY <2>2, <2>3, <3>1, <3>2, SavedParses DEF ConfigInv
  <2>5. ASSUME NEW s \in Venue3
        PROVE  \/ config'[s] = config[s]
               \/ s \in DOMAIN disk /\ config'[s] = ParseSection(s, disk[s])
    <3>1. s \in DOMAIN config /\ s # "performance"
      BY DefaultsLoad DEF ConfigInv, Venue3, create_default
    <3> QED BY <2>2, <3>1, Parsed DEF ConfigInv
  <2> QED BY <2>4, <2>5
<1>2. ConfigSpec => []ConfigInv
  BY ConfigInitially, ConfigPreserved, PTL DEF ConfigSpec
<1> QED BY <1>1, <1>2, PTL DEF ConfigSpec, ConfigSound
=============================================================================
