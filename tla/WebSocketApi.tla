---------------------------- MODULE WebSocketApi ----------------------------
(* WebSocketServer (websocket_server.cpp): the subscriptions of its clients *)
(* under connections_mutex_, used by the handlers of its I/O thread and by  *)
(* the application thread that broadcasts and stops it.                     *)
(* External: websocketpp. send fails on a connection that is not open,      *)
(* close throws for one; handlers run one at a time until server_.stop().   *)
(* on_message's catch is not reached: no search of it can throw.            *)
EXTENDS Naturals, Sequences

CONSTANTS
  Subscribers,
  Symbols,
  MaxSent          \* bound: messages sent to one client

ASSUME WebSocketApiAssumption == MaxSent \in Nat

VARIABLES
  app,             \* where the application thread is in start, use, stop and destruction
  srv,             \* running_, listening, stopped io_context, io_thread_
  conn,            \* client -> state of its connection
  connections,     \* connections_: the clients with an entry
  sub,             \* client -> its ClientSubscription
  out,             \* client -> what was sent to it, in order
  ending           \* how the server's life ended

wsVars == <<app, srv, conn, connections, sub, out, ending>>

Channels == {"orderbook", "trades", "analytics"}

NoSubscription == [symbols |-> {}, channels |-> {}]

create_orderbook_message(sym) == [type |-> "orderbook", symbol |-> sym]
create_analytics_message(sym) == [type |-> "analytics", symbol |-> sym]
create_arbitrage_message(sym) == [type |-> "arbitrage", symbol |-> sym]

WsInit ==
  /\ app = "new"
  /\ srv = [running |-> FALSE, listening |-> FALSE, stopped |-> FALSE, thread |-> "none"]
  /\ conn = [c \in Subscribers |-> "none"] /\ connections = {}
  /\ sub = [c \in Subscribers |-> NoSubscription]
  /\ out = [c \in Subscribers |-> << >>]
  /\ ending = "none"

---------------------------------------------------------------------------
send_message(to, m) ==
  out' = [c \in Subscribers |-> IF c \in to /\ conn[c] = "open" THEN Append(out[c], m) ELSE out[c]]

Room == \A c \in Subscribers : Len(out[c]) < MaxSent

IoHandlers == srv.thread = "running" /\ ~srv.stopped

(* External: a client connects, or starts to close its connection. *)
Connect(c) ==
  /\ IoHandlers
  /\ \/ conn[c] = "none" /\ srv.listening /\ conn' = [conn EXCEPT ![c] = "connecting"]
     \/ conn[c] = "open" /\ conn' = [conn EXCEPT ![c] = "closing"]
  /\ UNCHANGED <<app, srv, connections, sub, out, ending>>

on_open(c) ==
  /\ IoHandlers /\ conn[c] = "connecting"
  /\ conn' = [conn EXCEPT ![c] = "open"]
  /\ connections' = connections \cup {c}
  /\ sub' = [sub EXCEPT ![c] = NoSubscription]
  /\ UNCHANGED <<app, srv, out, ending>>

on_close(c) ==
  /\ IoHandlers /\ conn[c] = "closing"
  /\ conn' = [conn EXCEPT ![c] = "closed"]
  /\ connections' = connections \ {c}
  /\ UNCHANGED <<app, srv, sub, out, ending>>

(* The channel flags only ever grow, and nothing reads them. *)
handle_subscribe(c, sym, chs) ==
  /\ sub' = [sub EXCEPT ![c].symbols = @ \cup {sym}, ![c].channels = @ \cup chs]
  /\ send_message({c}, [type |-> "subscribed", symbol |-> sym])

ForgetErase(c, sym) ==   \* mutant: confirms without erasing the symbol
  /\ UNCHANGED sub
  /\ send_message({c}, [type |-> "unsubscribed", symbol |-> sym])

handle_unsubscribe(c, sym) ==
  /\ sub' = [sub EXCEPT ![c].symbols = @ \ {sym}]
  /\ send_message({c}, [type |-> "unsubscribed", symbol |-> sym])

(* A client without an entry (after stop's clear) is ignored. *)
on_message(c) ==
  /\ IoHandlers /\ conn[c] = "open" /\ Room
  /\ IF c \in connections
     THEN \E sym \in Symbols :
            \/ \E ch \in Channels : handle_subscribe(c, sym, {ch})
            \/ handle_unsubscribe(c, sym)
     ELSE UNCHANGED <<sub, out>>
  /\ UNCHANGED <<app, srv, conn, connections, ending>>

---------------------------------------------------------------------------
broadcast_to_subscribers(sym, m) == send_message({c \in connections : sym \in sub[c].symbols}, m)

broadcast_orderbook(sym) == broadcast_to_subscribers(sym, create_orderbook_message(sym))

broadcast_analytics(sym) == broadcast_to_subscribers(sym, create_analytics_message(sym))

broadcast_arbitrage(sym) == send_message(connections, create_arbitrage_message(sym))

Broadcast ==
  /\ app = "use" /\ Room
  /\ \E sym \in Symbols : broadcast_orderbook(sym) \/ broadcast_analytics(sym) \/ broadcast_arbitrage(sym)
  /\ UNCHANGED <<app, srv, conn, connections, sub, ending>>

(* listen may throw: running_ is cleared and there is no thread. *)
start_ws ==
  /\ app = "new"
  /\ \/ srv' = [srv EXCEPT !.running = TRUE, !.listening = TRUE, !.thread = "running"] /\ app' = "use"
     \/ UNCHANGED srv /\ app' = "destroy"
  /\ UNCHANGED <<conn, connections, sub, out, ending>>

stop_listening ==
  /\ app = "use"
  /\ srv' = [srv EXCEPT !.running = FALSE, !.listening = FALSE]
  /\ app' = "close"
  /\ UNCHANGED <<conn, connections, sub, out, ending>>

(* Under the mutex every connection is closed; for one that is closing      *)
(* already close throws, and what is left of stop is skipped.               *)
CloseConnections ==
  /\ app = "close"
  /\ IF \A c \in connections : conn[c] = "open"
     THEN /\ conn' = [c \in Subscribers |-> IF c \in connections THEN "closing" ELSE conn[c]]
          /\ connections' = {} /\ app' = "halt" /\ UNCHANGED ending
     ELSE /\ \E done \in SUBSET {c \in connections : conn[c] = "open"} :
               conn' = [c \in Subscribers |-> IF c \in done THEN "closing" ELSE conn[c]]
          /\ app' = "destroy" /\ ending' = "stop threw" /\ UNCHANGED connections
  /\ UNCHANGED <<srv, sub, out>>

StopServer ==
  /\ app = "halt"
  /\ srv' = [srv EXCEPT !.stopped = TRUE]
  /\ app' = "join"
  /\ UNCHANGED <<conn, connections, sub, out, ending>>

RunEnds ==
  /\ srv.thread = "running" /\ srv.stopped
  /\ srv' = [srv EXCEPT !.thread = "ended"]
  /\ UNCHANGED <<app, conn, connections, sub, out, ending>>

SkipJoin ==   \* mutant: the thread is not waited for
  /\ app = "join"
  /\ app' = "destroy"
  /\ UNCHANGED <<srv, conn, connections, sub, out, ending>>

JoinIoThread ==
  /\ app = "join" /\ srv.thread = "ended"
  /\ srv' = [srv EXCEPT !.thread = "joined"] /\ app' = "destroy"
  /\ UNCHANGED <<conn, connections, sub, out, ending>>

(* The destructor stops a running server only; io_thread_ is then destroyed,*)
(* and std::terminate called when it is joinable.                           *)
DestroyWs ==
  /\ app = "destroy"
  /\ app' = IF srv.thread \in {"none", "joined"} THEN "gone" ELSE "terminated"
  /\ UNCHANGED <<srv, conn, connections, sub, out, ending>>

WsNext ==
  \/ \E c \in Subscribers : Connect(c) \/ on_open(c) \/ on_close(c) \/ on_message(c)
  \/ Broadcast \/ start_ws \/ stop_listening \/ CloseConnections
  \/ StopServer \/ RunEnds \/ JoinIoThread \/ DestroyWs

WsSpec == WsInit /\ [][WsNext]_wsVars

---------------------------------------------------------------------------
(* A confirmation about sym, and whether the last one before position i of  *)
(* the messages s that a client was sent told it that it is subscribed.     *)
About(m, sym) == m.symbol = sym /\ m.type \in {"subscribed", "unsubscribed"}

Confirmed(s, sym, i) ==
  \E j \in 1 .. i - 1 :
    /\ About(s[j], sym) /\ s[j].type = "subscribed"
    /\ \A k \in j + 1 .. i - 1 : ~About(s[k], sym)

BracketedByConfirmations(s) ==
  \A i \in DOMAIN s : s[i].type \in {"orderbook", "analytics"} => Confirmed(s, s[i].symbol, i)

ConfirmedAtLast(s) == {sym \in Symbols : Confirmed(s, sym, Len(s) + 1)}

(* What a client reads tells it the truth about its subscriptions, although *)
(* requests and broadcasts come from different threads: an order book or    *)
(* analytics message lies between the subscribed and the unsubscribed       *)
(* confirmation of its symbol, and while the connection is open the server  *)
(* holds exactly the symbols confirmed last as subscribed.                  *)
ConfirmationsBracket ==
  \A c \in Subscribers :
    /\ BracketedByConfirmations(out[c])
    /\ c \in connections /\ conn[c] = "open" => sub[c].symbols = ConfirmedAtLast(out[c])

(* Destroying the server calls std::terminate only when stop met a          *)
(* connection that was closing already; after any other stop the I/O thread *)
(* has been joined.                                                         *)
WsShutdown == app = "terminated" => ending = "stop threw"
=============================================================================
