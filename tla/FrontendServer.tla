--------------------------- MODULE FrontendServer ---------------------------
(* The program of server_main.cpp: the main thread, which produces market   *)
(* data and broadcasts it, with a FrontendWebSocketServer and its sessions  *)
(* on one I/O thread and a FrontendRestServer on another.                   *)
(* External: Boost.Beast (a write on a session whose handshake is not over  *)
(* or whose client has left fails; handlers run one at a time on the I/O    *)
(* thread), the sockets (on Linux close() does not wake a thread that is    *)
(* blocked in accept(); a client that connects does), the clients.          *)
(* What is sent is a number: the messages in the order they are produced.   *)
EXTENDS Integers, FiniteSets, SequencesExt

CONSTANTS
  Clients,
  MaxMessages    \* bound: messages produced

ASSUME FrontendAssumption == MaxMessages \in Nat

VARIABLES
  main,          \* where the main thread is
  turn,          \* the statement of main's loop it is at
  shutdown_requested,
  produced,      \* the messages so far, each the turn that made it
  latest,        \* data_store.latest_orderbook_messages: symbol -> message, 0 for none
  ws,            \* FrontendWebSocketServer: running_, ioc_, server_thread_, a pending accept
  rest,          \* FrontendRestServer: running_, server_socket_, server_thread_, last answer
  sessions,      \* sessions_
  sess,          \* client -> its WebSocketSession and what was written to its socket
  aborted,       \* std::terminate was called
  told           \* history: client -> messages handed to its session's send

mainVars == <<main, turn, shutdown_requested, produced, latest>>
serverVars == <<ws, sessions, sess, told>>
frontVars == <<mainVars, serverVars, rest, aborted>>

(* The messages as far as the checks tell them apart. *)
format_order_book_update(sym) == [type |-> "order_book_update", symbol |-> sym]
format_trade(sym)             == [type |-> "trade", symbol |-> sym]
format_metrics                == [type |-> "metrics", symbol |-> "none"]

(* What the five broadcasts of one round of main's loop send and store. *)
Turns == << [msg |-> format_order_book_update("BTC-USD"), stored |-> TRUE],
            [msg |-> format_order_book_update("BTC-USD"), stored |-> FALSE],
            [msg |-> format_order_book_update("ETH-USD"), stored |-> TRUE],
            [msg |-> format_trade("BTC-USD"),             stored |-> FALSE],
            [msg |-> format_metrics,                      stored |-> FALSE] >>

EndOfRound == Len(Turns) + 1

(* A timer that is not due skips the broadcasts it guards. *)
SkipTo == [t \in {1, 4, 5} |-> IF t = 1 THEN 4 ELSE t + 1]

StoredSymbols == {Turns[t].msg.symbol : t \in {u \in DOMAIN Turns : Turns[u].stored}}

(* op: the operation the session has under way besides a write of the       *)
(* queue; write: that write; failed: one such write has failed.             *)
NoSession == [state |-> "none", op |-> "none", write_queue |-> << >>, write |-> "none",
              failed |-> FALSE, sent |-> << >>]

NoAnswer == [symbol |-> "none", code |-> 0, book |-> 0]

FrontInit ==
  /\ main = "ws.start" /\ turn = EndOfRound /\ shutdown_requested = FALSE
  /\ produced = << >> /\ latest = [s \in StoredSymbols |-> 0]
  /\ ws = [running |-> FALSE, ioc |-> "none", thread |-> "none", accepting |-> FALSE]
  /\ rest = [running |-> FALSE, open |-> FALSE, thread |-> "none", answer |-> NoAnswer]
  /\ sessions = {} /\ sess = [c \in Clients |-> NoSession]
  /\ aborted = FALSE
  /\ told = [c \in Clients |-> << >>]

---------------------------------------------------------------------------
(* WebSocketSession.                                                        *)
(* A write that is started before the handshake is over fails. *)
StartWrite(k) == [k EXCEPT !.write = IF k.state = "open" THEN "started" ELSE "refused"]

TestsBeforePush(k, m) ==   \* mutant: the length is read before the message is appended
  LET grown == [k EXCEPT !.write_queue = Append(@, m)]
  IN  IF Len(k.write_queue) = 1 THEN StartWrite(grown) ELSE grown

send(k, m) ==
  LET grown == [k EXCEPT !.write_queue = Append(@, m)]
  IN  IF Len(grown.write_queue) = 1 THEN StartWrite(grown) ELSE grown

(* on_write without an error: the message is out, the next one is started. *)
Written(k) ==
  LET left == [k EXCEPT !.sent = Append(@, Head(k.write_queue)),
                        !.write_queue = Tail(@), !.write = "none"]
  IN  IF left.write_queue # << >> THEN StartWrite(left) ELSE left

(* A session that neither sessions_ nor a handler refers to is destroyed,   *)
(* and shared_from_this throws out of its destructor.                       *)
Destroyed(s, in) ==
  \E c \in Clients \ in : s[c].state # "none" /\ s[c].op = "none" /\ s[c].write = "none"

Handlers == ws.thread = "run" /\ ws.ioc = "live" /\ ~aborted

Step(c, k) ==
  /\ sess' = [sess EXCEPT ![c] = k]
  /\ aborted' = Destroyed(sess', sessions)
  /\ UNCHANGED <<mainVars, ws, rest, sessions, told>>

(* The handshake ends: the welcome message is written past the queue. *)
on_accept(c) ==
  /\ Handlers /\ sess[c].op = "accept"
  /\ \/ sess[c].state = "handshake" /\ Step(c, [sess[c] EXCEPT !.state = "open", !.op = "welcome"])
     \/ sess[c].state = "gone" /\ Step(c, [sess[c] EXCEPT !.op = "none"])

(* The welcome or a pong is written; reading goes on. *)
do_read(c) ==
  /\ Handlers /\ sess[c].op \in {"welcome", "pong"}
  /\ Step(c, [sess[c] EXCEPT !.op = IF sess[c].state = "open" \/ sess[c].op = "pong"
                                    THEN "read" ELSE "none"])

(* A ping is answered, again past the queue; a closed connection or an      *)
(* error ends reading, and the session stays in sessions_.                  *)
on_read(c) ==
  /\ Handlers /\ sess[c].op = "read"
  /\ \/ sess[c].state = "open" /\ Step(c, [sess[c] EXCEPT !.op = "pong"])
     \/ sess[c].state = "gone" /\ Step(c, [sess[c] EXCEPT !.op = "none"])

on_write(c) ==
  /\ Handlers /\ sess[c].write # "none"
  /\ \/ sess[c].write = "started" /\ Step(c, Written(sess[c]))
     \/ /\ sess[c].write = "refused" \/ sess[c].state = "gone"
        /\ Step(c, [sess[c] EXCEPT !.write = "none", !.failed = TRUE])

ClientLeaves(c) ==
  /\ sess[c].state \in {"handshake", "open"} /\ ~aborted
  /\ sess' = [sess EXCEPT ![c].state = "gone"]
  /\ UNCHANGED <<mainVars, ws, rest, sessions, aborted, told>>

---------------------------------------------------------------------------
(* FrontendWebSocketServer. The thread sets up ioc_ and the acceptor; an    *)
(* exception clears running_.                                               *)
server_thread ==
  /\ ws.thread = "setup" /\ ~aborted
  /\ ws' \in {[ws EXCEPT !.ioc = "live", !.thread = "run", !.accepting = ws.running],
              [ws EXCEPT !.ioc = "live", !.thread = "threw", !.running = FALSE]}
  /\ UNCHANGED <<mainVars, rest, sessions, sess, aborted, told>>

(* run asks for the handshake. *)
run(k) == [k EXCEPT !.state = "handshake", !.op = "accept"]

(* A client connects: the session is added before its handshake, and the    *)
(* next accept is started while the server runs.                            *)
do_accept(c) ==
  /\ Handlers /\ ws.accepting /\ sess[c].state = "none"
  /\ sess' = [sess EXCEPT ![c] = run(NoSession)]
  /\ sessions' = sessions \cup {c}
  /\ ws' = [ws EXCEPT !.accepting = ws.running]
  /\ UNCHANGED <<mainVars, rest, aborted, told>>

(* run() returns when ioc_ was stopped or nothing is left to wait for. *)
RunReturns ==
  /\ ws.thread = "run" /\ ~aborted
  /\ \/ ws.ioc = "stopped"
     \/ ~ws.accepting /\ \A c \in Clients : sess[c].op = "none" /\ sess[c].write = "none"
  /\ ws' = [ws EXCEPT !.thread = "ended"]
  /\ UNCHANGED <<mainVars, rest, sessions, sess, aborted, told>>

(* broadcast: every session in sessions_ is sent the message, unless the    *)
(* server does not run.                                                     *)
broadcast(m) ==
  IF ws.running
  THEN /\ sess' = [c \in Clients |-> IF c \in sessions THEN send(sess[c], m) ELSE sess[c]]
       /\ told' = [c \in Clients |-> IF c \in sessions THEN Append(told[c], m) ELSE told[c]]
  ELSE UNCHANGED <<sess, told>>

---------------------------------------------------------------------------
(* FrontendRestServer.                                                      *)
(* "POST " is skipped by four characters: the path starts with the space    *)
(* that ends it.                                                            *)
parse_request_path(method, path) == IF method = "GET" THEN path ELSE "empty"

(* main's handler: the message data_store has, 0 for "Symbol not found". *)
orderbook_handler(sym) == IF sym \in DOMAIN latest THEN latest[sym] ELSE 0

(* The answer to a path. *)
handle_request(path, sym) ==
  CASE path \in {"health", "symbols"} -> [symbol |-> "none", code |-> 200, book |-> 0]
    [] path = "orderbook" ->
         [symbol |-> sym, code |-> 200, book |-> orderbook_handler(sym)]
    [] OTHER -> [symbol |-> "none", code |-> 404, book |-> 0]

(* running_ is tested, then accept blocks; on a socket that was closed      *)
(* before the call it fails, and the loop ends.                             *)
server_loop ==
  /\ rest.thread = "test" /\ ~aborted
  /\ rest' = [rest EXCEPT !.answer = NoAnswer,
                          !.thread = IF rest.running /\ rest.open THEN "accept" ELSE "ended"]
  /\ UNCHANGED <<mainVars, serverVars, aborted>>

(* A client connects, whether or not the listening socket was closed since. *)
RestClient ==
  /\ rest.thread = "accept" /\ ~aborted
  /\ rest' = [rest EXCEPT !.thread = "handle"]
  /\ UNCHANGED <<mainVars, serverVars, aborted>>

(* Its request is answered in this thread, or it went without asking. *)
Answer ==
  /\ rest.thread = "handle" /\ ~aborted
  /\ \E path \in {"health", "orderbook", "other"}, sym \in StoredSymbols \cup {"XRP-USD"},
        method \in {"GET", "POST"} :
       rest' \in {[rest EXCEPT !.thread = "test",
                               !.answer = handle_request(parse_request_path(method, path), sym)],
                  [rest EXCEPT !.thread = "test"]}
  /\ UNCHANGED <<mainVars, serverVars, aborted>>

---------------------------------------------------------------------------
(* main does nothing but move on. *)
Goto(l) == main' = l /\ UNCHANGED <<turn, shutdown_requested, produced, latest>>

(* start of the web socket server only spawns its thread. *)
start_ws_server ==
  /\ main = "ws.start" /\ ~aborted
  /\ ws' = [ws EXCEPT !.running = TRUE, !.thread = "setup"]
  /\ Goto("rest.start")
  /\ UNCHANGED <<rest, sessions, sess, aborted, told>>

(* start of the REST server binds the socket first and may fail, upon which *)
(* main stops the other server and ends.                                    *)
start_rest_server ==
  /\ main = "rest.start" /\ ~aborted
  /\ \/ /\ rest' = [rest EXCEPT !.running = TRUE, !.open = TRUE, !.thread = "test"]
        /\ Goto("loop")
     \/ UNCHANGED rest /\ Goto("stop")
  /\ UNCHANGED <<serverVars, aborted>>

signal_handler ==
  /\ ~shutdown_requested
  /\ shutdown_requested' = TRUE
  /\ UNCHANGED <<main, turn, produced, latest, serverVars, rest, aborted>>

(* One broadcast of a round; some are then stored for REST. *)
Produce ==
  /\ main = "loop" /\ ~aborted /\ turn # EndOfRound /\ Len(produced) < MaxMessages
  /\ produced' = Append(produced, turn)
  /\ broadcast(Len(produced'))
  /\ IF Turns[turn].stored THEN main' = "store" /\ UNCHANGED turn
                           ELSE turn' = turn + 1 /\ UNCHANGED main
  /\ UNCHANGED <<shutdown_requested, latest, ws, rest, sessions, aborted>>

KeepFirst ==   \* mutant: std::map::insert, which leaves an old entry in place
  /\ main = "store" /\ ~aborted
  /\ latest' = [latest EXCEPT ![Turns[turn].msg.symbol] = IF @ = 0 THEN Len(produced) ELSE @]
  /\ main' = "loop" /\ turn' = turn + 1
  /\ UNCHANGED <<shutdown_requested, produced, serverVars, rest, aborted>>

StoreLatest ==
  /\ main = "store" /\ ~aborted
  /\ latest' = [latest EXCEPT ![Turns[turn].msg.symbol] = Len(produced)]
  /\ main' = "loop" /\ turn' = turn + 1
  /\ UNCHANGED <<shutdown_requested, produced, serverVars, rest, aborted>>

(* A timer is not due, or the round is over and the loop's test is made. *)
NextRound ==
  /\ main = "loop" /\ ~aborted
  /\ \/ turn \in DOMAIN SkipTo /\ turn' = SkipTo[turn] /\ UNCHANGED main
     \/ turn = EndOfRound /\ ~shutdown_requested /\ turn' = 1 /\ UNCHANGED main
     \/ turn = EndOfRound /\ shutdown_requested /\ main' = "stop" /\ UNCHANGED turn
  /\ UNCHANGED <<shutdown_requested, produced, latest, serverVars, rest, aborted>>

(* ws_server.stop() returns at once when running_ is clear already. *)
stop_ws ==
  /\ main = "stop" /\ ~aborted
  /\ Goto(IF ws.running THEN "close" ELSE "rest.stop")
  /\ ws' = [ws EXCEPT !.running = FALSE]
  /\ UNCHANGED <<sessions, sess, told, rest, aborted>>

(* Under sessions_mutex_ every session is closed (close does nothing before *)
(* the handshake is over) and let go.                                       *)
close(k) == IF k.state = "open" THEN [k EXCEPT !.state = "gone"] ELSE k

CloseSessions ==
  /\ main = "close" /\ ~aborted
  /\ sessions' = {}
  /\ sess' = [c \in Clients |-> IF c \in sessions THEN close(sess[c]) ELSE sess[c]]
  /\ aborted' = Destroyed(sess', {})
  /\ Goto("ioc.stop")
  /\ UNCHANGED <<ws, rest, told>>

(* ioc_ may not have been created yet. *)
StopContext ==
  /\ main = "ioc.stop" /\ ~aborted
  /\ ws' = [ws EXCEPT !.ioc = IF @ = "live" THEN "stopped" ELSE @]
  /\ Goto("ws.join")
  /\ UNCHANGED <<rest, sessions, sess, aborted, told>>

NoJoin ==   \* mutant: does not wait for the thread
  /\ main = "ws.join" /\ ~aborted
  /\ Goto("rest.stop")
  /\ UNCHANGED <<serverVars, rest, aborted>>

JoinWs ==
  /\ main = "ws.join" /\ ws.thread \in {"ended", "threw"} /\ ~aborted
  /\ ws' = [ws EXCEPT !.thread = "joined"]
  /\ Goto("rest.stop")
  /\ UNCHANGED <<sessions, sess, told, rest, aborted>>

(* rest_server.stop(): the flag and the socket, then the join. *)
stop_rest ==
  /\ main = "rest.stop" /\ ~aborted
  /\ rest' = [rest EXCEPT !.running = FALSE, !.open = FALSE]
  /\ Goto(IF rest.running THEN "rest.join" ELSE "destroy")
  /\ UNCHANGED <<serverVars, aborted>>

JoinRest ==
  /\ main = "rest.join" /\ rest.thread = "ended" /\ ~aborted
  /\ rest' = [rest EXCEPT !.thread = "joined"]
  /\ Goto("destroy")
  /\ UNCHANGED <<serverVars, aborted>>

(* The servers leave main's scope, and with them the thread objects and     *)
(* the sessions that sessions_ or a handler of ioc_ still holds.            *)
DestroyServers ==
  /\ main = "destroy" /\ ~aborted
  /\ aborted' = \/ {ws.thread, rest.thread} \ {"none", "joined"} # {}
                \/ \E c \in Clients : sess[c].state # "none"
  /\ Goto("exit")
  /\ UNCHANGED <<serverVars, rest>>

FrontNext ==
  \/ \E c \in Clients : on_accept(c) \/ do_read(c) \/ on_read(c) \/ on_write(c)
                         \/ ClientLeaves(c) \/ do_accept(c)
  \/ server_thread \/ RunReturns \/ server_loop \/ RestClient \/ Answer
  \/ start_ws_server \/ start_rest_server \/ signal_handler \/ Produce \/ StoreLatest \/ NextRound
  \/ stop_ws \/ CloseSessions \/ StopContext \/ JoinWs
  \/ stop_rest \/ JoinRest \/ DestroyServers

FrontSpec == FrontInit /\ [][FrontNext]_frontVars

---------------------------------------------------------------------------
(* What a client was sent is, in order, what was broadcast since it         *)
(* connected, the rest waits in its queue, and a waiting message has a      *)
(* write under way: main's send and the I/O thread's on_write, which test   *)
(* the queue's length and its emptiness, never start two writes and never   *)
(* none. After a failed write the queue only grows and nothing more is sent.*)
QueueSound ==
  \A c \in Clients : LET k == sess[c] IN
    /\ told[c] = k.sent \o k.write_queue
    /\ k.write # "none" <=> k.write_queue # << >> /\ ~k.failed

(* main's program ends in std::terminate only when a client ever connected  *)
(* or the I/O thread threw; otherwise both threads have ended and were      *)
(* joined, wherever in start, loop or stop the signal arrived.              *)
AbortsExplained ==
  /\ aborted => ws.thread = "threw" \/ \E c \in Clients : sess[c].state # "none"
  /\ main = "exit" /\ ~aborted => {ws.thread, rest.thread} \subseteq {"none", "joined"}

(* What clients have been sent, and what main has sent and not stored yet.  *)
Seen == UNION {Range(sess[c].sent) : c \in Clients}

Pending == IF main = "store" THEN {Len(produced)} ELSE {}

(* An answer shows a message of its own stream, none older than what any    *)
(* client has seen.                                                         *)
AnswerFresh(a) ==
  /\ a.book # 0 => Turns[produced[a.book]].msg = format_order_book_update(a.symbol)
  /\ \A m \in Seen \ Pending :
       Turns[produced[m]].stored /\ Turns[produced[m]].msg.symbol = a.symbol => a.book >= m

(* A client that has read an order book message of a stored stream from the *)
(* web socket is not answered with an older one by the REST server, unless  *)
(* main is between the broadcast and the store.                             *)
RestFresh ==
  [][rest.thread = "handle" /\ rest'.answer.symbol \in StoredSymbols => AnswerFresh(rest'.answer)]_frontVars
=============================================================================
