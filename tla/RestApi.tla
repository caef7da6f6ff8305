------------------------------ MODULE RestApi ------------------------------
(* RestAPIServer (rest_api_server.cpp): its thread, which binds the socket  *)
(* and answers requests, and the application thread that registers books,   *)
(* stops the server and destroys it.                                        *)
(* External: the sockets. On Linux close() does not wake a blocked accept;  *)
(* a client that connects does.                                             *)
EXTENDS Naturals

CONSTANT BookSymbols

VARIABLES
  owner,           \* where the application thread is
  api,             \* running_, server_socket_, server_thread_
  registered,      \* orderbooks_, analytics_ and arbitrage_monitor_
  answered         \* the last answer: status code and body

restVars == <<owner, api, registered, answered>>

RestInit ==
  /\ owner = "new"
  /\ api = [running |-> FALSE, socket |-> "none", thread |-> "none", bindFailed |-> FALSE]
  /\ registered = [orderbooks |-> {}, analytics |-> {}, monitor |-> FALSE]
  /\ answered = [code |-> 0, body |-> "none"]

---------------------------------------------------------------------------
create_http_response(code, body) == [code |-> code, body |-> body]

create_error_response(code) == create_http_response(code, "error")

handle_orderbook(sym) == IF sym \in registered.orderbooks THEN sym ELSE "Symbol not found"

handle_analytics(sym) == IF sym \in registered.analytics THEN sym ELSE "Symbol not found"

handle_arbitrage == IF registered.monitor THEN "opportunities" ELSE "Arbitrage monitor not registered"

handle_health == "healthy"

handle_status == "counts"

(* An unknown symbol is reported in the body of an answer with code 200. *)
handle_get(path, sym) ==
  CASE path = "health"    -> create_http_response(200, handle_health)
    [] path = "status"    -> create_http_response(200, handle_status)
    [] path = "arbitrage" -> create_http_response(200, handle_arbitrage)
    [] path = "orderbook" -> create_http_response(200, handle_orderbook(sym))
    [] path = "analytics" -> create_http_response(200, handle_analytics(sym))
    [] OTHER              -> create_error_response(404)

handle_http(method, path, sym) ==
  IF method = "GET" THEN handle_get(path, sym) ELSE create_error_response(405)

---------------------------------------------------------------------------
(* The thread of server_loop.                                               *)
OpenSocket ==
  /\ api.thread = "open"
  /\ api' \in {[api EXCEPT !.socket = "open", !.thread = "bind"],
               [api EXCEPT !.running = FALSE, !.thread = "ended", !.bindFailed = TRUE]}
  /\ UNCHANGED <<owner, registered, answered>>

(* bind and listen: they fail too on a socket that stop has closed. *)
BindSocket ==
  /\ api.thread = "bind"
  /\ \/ api.socket = "open" /\ api' = [api EXCEPT !.thread = "test"]
     \/ api' = [api EXCEPT !.running = FALSE, !.thread = "ended", !.bindFailed = TRUE]
  /\ UNCHANGED <<owner, registered, answered>>

(* A failed accept goes back to the test of running_. *)
AcceptLoop ==
  /\ \/ /\ api.thread = "test"
        /\ api' = [api EXCEPT !.thread = IF api.running THEN "call" ELSE "ended"]
     \/ /\ api.thread = "call"
        /\ api' = [api EXCEPT !.thread = IF api.socket = "open" THEN "accept" ELSE "test"]
  /\ UNCHANGED <<owner, registered, answered>>

(* A client connects and is answered, or goes without asking. *)
ServeClient ==
  /\ api.thread = "accept"
  /\ api' = [api EXCEPT !.thread = "test"]
  /\ \/ \E method \in {"GET", "POST"}, sym \in BookSymbols,
           path \in {"health", "status", "arbitrage", "orderbook", "analytics", "other"} :
          answered' = handle_http(method, path, sym)
     \/ UNCHANGED answered
  /\ UNCHANGED <<owner, registered>>

---------------------------------------------------------------------------
start_api ==
  /\ owner = "new"
  /\ owner' = "use"
  /\ api' = [api EXCEPT !.running = TRUE, !.thread = "open"]
  /\ UNCHANGED <<registered, answered>>

register_orderbook(sym) == registered' = [registered EXCEPT !.orderbooks = @ \cup {sym}]

register_analytics(sym) == registered' = [registered EXCEPT !.analytics = @ \cup {sym}]

register_arbitrage_monitor == registered' = [registered EXCEPT !.monitor = TRUE]

Register ==
  /\ owner = "use"
  /\ \/ \E sym \in BookSymbols : register_orderbook(sym) \/ register_analytics(sym)
     \/ register_arbitrage_monitor
  /\ UNCHANGED <<owner, api, answered>>

(* stop, or the destructor that calls it, does nothing once running_ is     *)
(* clear; otherwise it closes the socket if there is one, and joins.        *)
stop_api ==
  /\ owner = "use"
  /\ owner' = IF api.running THEN "join" ELSE "destroy"
  /\ api' = IF api.running
            THEN [api EXCEPT !.running = FALSE, !.socket = IF @ = "open" THEN "closed" ELSE @]
            ELSE api
  /\ UNCHANGED <<registered, answered>>

JoinServerThread ==
  /\ owner = "join" /\ api.thread = "ended"
  /\ owner' = "destroy" /\ api' = [api EXCEPT !.thread = "joined"]
  /\ UNCHANGED <<registered, answered>>

(* server_thread_ is destroyed: std::terminate when it is joinable. *)
DestroyApi ==
  /\ owner = "destroy"
  /\ owner' = IF api.thread = "joined" THEN "gone" ELSE "terminated"
  /\ UNCHANGED <<api, registered, answered>>

RestNext ==
  \/ OpenSocket \/ BindSocket \/ AcceptLoop \/ ServeClient
  \/ start_api \/ Register \/ stop_api \/ JoinServerThread \/ DestroyApi

RestSpec == RestInit /\ [][RestNext]_restVars

---------------------------------------------------------------------------
(* Destroying the server calls std::terminate only when its thread could    *)
(* not open, bind or listen and so cleared running_ before stop read it;    *)
(* otherwise the thread has been joined, whenever stop was called.          *)
RestShutdown ==
  /\ owner = "terminated" => api.bindFailed
  /\ owner = "gone" => api.thread = "joined"
=============================================================================
