---------------------------- MODULE Connections ----------------------------
(***************************************************************************)
(* ConnectionManager (src/exchange/connection_manager.cpp) with the        *)
(* connectors it owns (kraken_connector.cpp, binance_connector.cpp and     *)
(* coinbase_connector.cpp, which are alike in all that is modelled here).  *)
(* Callers use the manager under connectors_mutex_; each started connector *)
(* has an I/O thread that runs the websocketpp event loop and with it the  *)
(* handlers of the connector.                                              *)
(*                                                                         *)
(* External: an event loop ends when it is stopped or has nothing left to  *)
(* wait for, and one that has ended returns at once when it is run again.  *)
(* Destroying a std::thread that is joinable ends the program.             *)
(***************************************************************************)
EXTENDS Naturals, FiniteSets

CONSTANTS
  Exchanges,    \* the exchanges that may be added
  Symbols,      \* the symbols that may be subscribed to
  Callers,      \* threads that use the manager
  MaxAttempts,  \* max_reconnect_attempts_, 0 for no limit
  NoExchange, NoSymbol, NoCaller

ASSUME ConnectionsAssumption ==
  /\ MaxAttempts \in Nat
  /\ NoExchange \notin Exchanges /\ NoSymbol \notin Symbols /\ NoCaller \notin Callers

VARIABLES
  conn,         \* conn[e]: the connector of e, its ConnectorInfo and its socket
  auto,         \* auto_reconnect_ of the manager and its connectors
  caller,       \* caller[c]: the call c is in and where it stands
  mutex,        \* the holder of connectors_mutex_
  up,           \* the manager has not been destroyed
  crashed,      \* std::terminate was called
  quiet         \* history: exchanges that a call of stop has stopped since
                \* they were last started

vars == <<conn, auto, caller, mutex, up, crashed, quiet>>

-----------------------------------------------------------------------------
(* What add_exchange stores: a new connector and no thread.                *)
Fresh == [added |-> TRUE, state |-> "DISCONNECTED", running |-> FALSE, io |-> "none",
          socket |-> "none", stopped |-> FALSE, reconnect_count |-> 0,
          subscriptions |-> {}, wire |-> {}]

Absent == [Fresh EXCEPT !.added = FALSE]

Idle == [op |-> "none", pc |-> "idle", all |-> {}, todo |-> {}, at |-> NoExchange, symbol |-> NoSymbol]

Init ==
  /\ conn = [e \in Exchanges |-> Absent]
  /\ auto = TRUE
  /\ caller = [c \in Callers |-> Idle]
  /\ mutex = NoCaller
  /\ up = TRUE /\ crashed = FALSE
  /\ quiet = {}

Added == {e \in Exchanges : conn[e].added}

is_connected(k) == k.state = "CONNECTED"

-----------------------------------------------------------------------------
(* The connector.  connect refuses every state but DISCONNECTED; creating  *)
(* the connection may fail.                                                *)
connect(k) ==
  IF k.state # "DISCONNECTED" THEN {k}
  ELSE {[k EXCEPT !.state = "CONNECTING", !.socket = "opening"],
        [k EXCEPT !.state = "FAILED"]}

(* disconnect: the close is only queued, and the loop has ended.           *)
disconnect(k) ==
  IF k.state = "DISCONNECTED" THEN k
  ELSE [k EXCEPT !.state = "DISCONNECTED", !.socket = "none", !.wire = {}]

(* Mutant: the flag is cleared but the loop is not stopped.                *)
StopFlagOnly(k) == k

(* connector->stop().                                                      *)
stop(k) == [k EXCEPT !.stopped = TRUE]

(* subscribe and unsubscribe, up to the message.                           *)
subscribe(k, s) == IF is_connected(k) THEN [k EXCEPT !.subscriptions = @ \union {s}] ELSE k

unsubscribe(k, s) == IF is_connected(k) THEN [k EXCEPT !.subscriptions = @ \ {s}] ELSE k

(* A handler runs on the I/O thread, one at a time, while the loop does.   *)
Handling(e) == conn[e].io = "run" /\ ~conn[e].stopped

on_open(e) ==
  /\ Handling(e) /\ conn[e].socket = "opening"
  /\ conn' = [conn EXCEPT ![e].socket = "open", ![e].state = "CONNECTED",
                          ![e].reconnect_count = 0, ![e].io = "resubscribe"]

(* The rest of on_open, under subscriptions_mutex_.                        *)
Resubscribe(e) ==
  /\ conn[e].io = "resubscribe"
  /\ conn' = [conn EXCEPT ![e].wire = IF conn[e].socket = "open"
                                      THEN @ \union conn[e].subscriptions ELSE @,
                          ![e].io = "run"]

on_fail(e) ==
  /\ Handling(e) /\ conn[e].socket = "opening"
  /\ conn' = [conn EXCEPT ![e].socket = "none", ![e].state = "FAILED"]

(* The connection is lost.  With auto_reconnect_ the handler counts the    *)
(* attempt and sleeps, on the I/O thread.                                  *)
on_close(e) ==
  LET k == [conn[e] EXCEPT !.socket = "none", !.wire = {}, !.state = "DISCONNECTED"]
  IN  /\ Handling(e) /\ conn[e].socket = "open"
      /\ conn' = [conn EXCEPT ![e] =
           IF auto /\ is_connected(conn[e])
           THEN IF MaxAttempts = 0 \/ conn[e].reconnect_count < MaxAttempts
                THEN [k EXCEPT !.reconnect_count = @ + 1, !.io = "sleep"]
                ELSE [k EXCEPT !.reconnect_count = @ + 1, !.state = "FAILED"]
           ELSE k]

(* The rest of on_close: the state is stored before connect looks at it.   *)
Reconnect(e) ==
  /\ conn[e].io = "sleep"
  /\ \E k \in connect([conn[e] EXCEPT !.state = "RECONNECTING"]) :
       conn' = [conn EXCEPT ![e] = [k EXCEPT !.io = "run"]]

(* client_.run() returns.                                                  *)
LeaveLoop(e) ==
  /\ conn[e].io = "run"
  /\ conn[e].stopped \/ conn[e].socket = "none"
  /\ conn' = [conn EXCEPT ![e].io = "exit", ![e].stopped = TRUE]

(* The end of the thread's function; the thread stays joinable.            *)
EndThread(e) ==
  /\ conn[e].io = "exit"
  /\ conn' = [conn EXCEPT ![e].running = FALSE, ![e].io = "ended"]

Network(e) == on_open(e) \/ on_fail(e) \/ on_close(e)
Thread(e) == Resubscribe(e) \/ Reconnect(e) \/ LeaveLoop(e) \/ EndThread(e)

-----------------------------------------------------------------------------
(* The manager.  A call locks the mutex and visits one exchange, or all of *)
(* them one after the other.                                               *)
Begin(c, op, todo, symbol) ==
  /\ caller[c].pc = "idle" /\ mutex = NoCaller
  /\ mutex' = c
  /\ caller' = [caller EXCEPT ![c] = [Idle EXCEPT !.op = op, !.pc = "visit", !.all = todo,
                                                  !.todo = todo, !.symbol = symbol]]
  /\ UNCHANGED <<conn, auto, up, crashed, quiet>>

Start(c) == Begin(c, "start", Added, NoSymbol) \/ \E e \in Added : Begin(c, "start", {e}, NoSymbol)
Stop(c) == Begin(c, "stop", Added, NoSymbol) \/ \E e \in Added : Begin(c, "stop", {e}, NoSymbol)
Remove(c) == \E e \in Added : Begin(c, "remove", {e}, NoSymbol)

Subscribe(c) ==
  \E s \in Symbols : \/ Begin(c, "subscribe", Added, s)
                     \/ \E e \in Added : Begin(c, "subscribe", {e}, s)

Unsubscribe(c) ==
  \E s \in Symbols : \/ Begin(c, "unsubscribe", Added, s)
                     \/ \E e \in Added : Begin(c, "unsubscribe", {e}, s)

(* ~ConnectionManager calls stop_all; no other call may be under way.      *)
Shutdown(c) ==
  /\ \A d \in Callers : caller[d].pc = "idle"
  /\ Begin(c, "destroy", Added, NoSymbol)

add_exchange(c, e) ==
  /\ caller[c].pc = "idle" /\ mutex = NoCaller
  /\ ~conn[e].added
  /\ conn' = [conn EXCEPT ![e] = Fresh]
  /\ UNCHANGED <<auto, caller, mutex, up, crashed, quiet>>

set_auto_reconnect(c) ==
  /\ caller[c].pc = "idle" /\ mutex = NoCaller
  /\ auto' = ~auto
  /\ UNCHANGED <<conn, caller, mutex, up, crashed, quiet>>

(* c turns to exchange e, at pc, or is done with it.                       *)
At(c, e, pc) == caller' = [caller EXCEPT ![c].at = e, ![c].pc = pc]
Done(c, e) == caller' = [caller EXCEPT ![c].at = NoExchange, ![c].pc = "visit", ![c].todo = @ \ {e}]

Visiting(c, e, ops) == caller[c].pc = "visit" /\ e \in caller[c].todo /\ caller[c].op \in ops

(* start and start_all: connect, then mark the exchange as running.        *)
StartConnect(c, e) ==
  /\ Visiting(c, e, {"start"})
  /\ \/ /\ ~conn[e].running /\ conn[e].state = "DISCONNECTED"
        /\ \E k \in connect(conn[e]) :
             \/ /\ k.state = "CONNECTING"
                /\ conn' = [conn EXCEPT ![e] = [k EXCEPT !.running = TRUE]]
                /\ quiet' = quiet \ {e}
                /\ At(c, e, "spawn")
             \/ /\ k.state = "FAILED"
                /\ conn' = [conn EXCEPT ![e] = k]
                /\ quiet' = quiet \ {e}
                /\ Done(c, e)
     \/ /\ conn[e].running \/ conn[e].state # "DISCONNECTED"
        /\ Done(c, e)
        /\ UNCHANGED <<conn, quiet>>
  /\ UNCHANGED <<auto, mutex, up, crashed>>

(* The new thread replaces the one that io_thread held, which must have    *)
(* been joined.                                                            *)
Spawn(c, e) ==
  /\ caller[c].pc = "spawn" /\ caller[c].at = e
  /\ crashed' = (conn[e].io # "none")
  /\ conn' = [conn EXCEPT ![e].io = "run"]
  /\ Done(c, e)
  /\ UNCHANGED <<auto, mutex, up, quiet>>

(* stop, stop_all, remove_exchange and the destructor stop what is marked  *)
(* as running.                                                             *)
Stopping == {"stop", "remove", "destroy"}

RequestStop(c, e) ==
  /\ Visiting(c, e, Stopping)
  /\ \/ /\ conn[e].running
        /\ conn' = [conn EXCEPT ![e] = [stop(conn[e]) EXCEPT !.running = FALSE]]
        /\ At(c, e, "join")
     \/ /\ ~conn[e].running
        /\ Done(c, e)
        /\ UNCHANGED conn
  /\ UNCHANGED <<auto, mutex, up, crashed, quiet>>

(* Mutant: the connector is disconnected while its thread still runs, and  *)
(* the thread is joined by nobody.                                         *)
DisconnectOnly(c, e) ==
  /\ caller[c].pc = "join" /\ caller[c].at = e
  /\ conn' = [conn EXCEPT ![e] = disconnect(conn[e])]
  /\ quiet' = quiet \union {e}
  /\ Done(c, e)
  /\ UNCHANGED <<auto, mutex, up, crashed>>

(* join, then disconnect.                                                  *)
JoinAndDisconnect(c, e) ==
  /\ caller[c].pc = "join" /\ caller[c].at = e
  /\ conn[e].io = "ended"
  /\ conn' = [conn EXCEPT ![e] = [disconnect(conn[e]) EXCEPT !.io = "none"]]
  /\ quiet' = quiet \union {e}
  /\ Done(c, e)
  /\ UNCHANGED <<auto, mutex, up, crashed>>

(* subscribe and unsubscribe: the set changes under subscriptions_mutex_;  *)
(* nothing is done if the exchange is not connected or the set is right.   *)
ChangeSubscription(c, e) ==
  LET k == IF caller[c].op = "subscribe" THEN subscribe(conn[e], caller[c].symbol)
                                         ELSE unsubscribe(conn[e], caller[c].symbol)
  IN  /\ Visiting(c, e, {"subscribe", "unsubscribe"})
      /\ conn' = [conn EXCEPT ![e] = k]
      /\ IF k # conn[e] THEN At(c, e, "send") ELSE Done(c, e)
      /\ UNCHANGED <<auto, mutex, up, crashed, quiet>>

(* Mutant: unsubscribing sends the message of a subscription.              *)
SendSubscribe(c, e) ==
  /\ caller[c].pc = "send" /\ caller[c].at = e
  /\ conn' = [conn EXCEPT ![e].wire = IF conn[e].socket = "open"
                                      THEN @ \union {caller[c].symbol} ELSE @]
  /\ Done(c, e)
  /\ UNCHANGED <<auto, mutex, up, crashed, quiet>>

(* The message is sent after the lock is released, or is lost with the     *)
(* connection.                                                             *)
send_subscription(c, e) ==
  LET s == caller[c].symbol
  IN  /\ caller[c].pc = "send" /\ caller[c].at = e
      /\ conn' = [conn EXCEPT ![e].wire =
                    IF conn[e].socket # "open" THEN @
                    ELSE IF caller[c].op = "subscribe" THEN @ \union {s} ELSE @ \ {s}]
      /\ Done(c, e)
      /\ UNCHANGED <<auto, mutex, up, crashed, quiet>>

(* The call unlocks and returns.  remove_exchange and the destructor first *)
(* destroy what they visited, threads included.                            *)
Return(c) ==
  LET gone == IF caller[c].op \in {"remove", "destroy"} THEN caller[c].all ELSE {}
  IN  /\ caller[c].pc = "visit" /\ caller[c].todo = {}
      /\ caller' = [caller EXCEPT ![c] = Idle]
      /\ mutex' = NoCaller
      /\ up' = (caller[c].op # "destroy")
      /\ crashed' = (\E e \in gone : conn[e].io # "none")
      /\ conn' = [e \in Exchanges |-> IF e \in gone THEN Absent ELSE conn[e]]
      /\ quiet' = quiet \ gone
      /\ UNCHANGED auto

-----------------------------------------------------------------------------
CallStep(c) ==
  \/ Return(c)
  \/ \E e \in Exchanges :
       \/ StartConnect(c, e) \/ Spawn(c, e) \/ RequestStop(c, e) \/ JoinAndDisconnect(c, e)
       \/ ChangeSubscription(c, e) \/ send_subscription(c, e)

IOStep(e) == Thread(e) /\ UNCHANGED <<auto, caller, mutex, up, crashed, quiet>>
NetworkStep(e) == Network(e) /\ UNCHANGED <<auto, caller, mutex, up, crashed, quiet>>

(* A program whose manager is gone, or that was terminated, does no more.  *)
Active == up /\ ~crashed

Next ==
  /\ Active
  /\ \/ \E c \in Callers : \/ Start(c) \/ Stop(c) \/ Remove(c) \/ Subscribe(c) \/ Unsubscribe(c)
                           \/ Shutdown(c) \/ set_auto_reconnect(c) \/ CallStep(c)
                           \/ \E e \in Exchanges : add_exchange(c, e)
     \/ \E e \in Exchanges : IOStep(e) \/ NetworkStep(e)

Spec == Init /\ [][Next]_vars

(* Threads inside a call or a handler keep running, the sleep in on_close  *)
(* ends, and a loop that has no reason to stay leaves.  No network event   *)
(* and no call has to happen.                                              *)
FairSpec ==
  /\ Spec
  /\ \A c \in Callers : WF_vars(Active /\ CallStep(c))
  /\ \A e \in Exchanges : WF_vars(Active /\ IOStep(e))

-----------------------------------------------------------------------------
(* Properties.                                                             *)

Connectors ==
  [added : BOOLEAN, running : BOOLEAN, stopped : BOOLEAN,
   state : {"DISCONNECTED", "CONNECTING", "CONNECTED", "RECONNECTING", "FAILED"},
   io : {"none", "run", "resubscribe", "sleep", "exit", "ended"},
   socket : {"none", "opening", "open"}, reconnect_count : 0 .. 1,
   subscriptions : SUBSET Symbols, wire : SUBSET Symbols]

Calls ==
  [op : {"none", "start", "subscribe", "unsubscribe"} \union Stopping,
   pc : {"idle", "visit", "spawn", "join", "send"},
   all : SUBSET Exchanges, todo : SUBSET Exchanges,
   at : Exchanges \union {NoExchange}, symbol : Symbols \union {NoSymbol}]

(* Every variable has its type; the mutex is held by the one thread that   *)
(* is inside a call, and free otherwise.                                   *)
TypeOK ==
  /\ conn \in [Exchanges -> Connectors] /\ caller \in [Callers -> Calls]
  /\ auto \in BOOLEAN /\ up \in BOOLEAN /\ crashed \in BOOLEAN /\ quiet \subseteq Exchanges
  /\ {c \in Callers : caller[c].pc # "idle"} = {mutex} \ {NoCaller}

(* A thread that is in the loop or in a handler is known to the manager:   *)
(* the exchange is marked as running, so that the next stop joins it, or a *)
(* call is joining it.  An exchange that is marked has such a thread.      *)
ThreadsKnown ==
  \A e \in Exchanges :
    LET live == conn[e].io \in {"run", "resubscribe", "sleep", "exit"}
        calls(pc) == \E c \in Callers : caller[c].pc = pc /\ caller[c].at = e
    IN  /\ live => conn[e].running \/ calls("join")
        /\ conn[e].running => live \/ calls("spawn")

(* Once stop has stopped an exchange, and until it is started again,       *)
(* nothing of it is left: no thread that could run a callback, no state    *)
(* that a handler set after the disconnect.                                *)
QuietAfterStop ==
  \A e \in quiet : conn[e].io = "none" /\ conn[e].state = "DISCONNECTED" /\ ~conn[e].running

(* The manager keeps account of its I/O threads: whoever holds the mutex,  *)
(* a thread that may still run a callback is one that the next stop joins, *)
(* and one that was stopped has left nothing that it did not clean up.     *)
ThreadsAccounted == TypeOK /\ ThreadsKnown /\ QuietAfterStop

(* The subscriptions the connector keeps, and would send again, are those  *)
(* the exchange was told, except while a thread is about to tell it.       *)
SubscriptionsSent ==
  \A e \in Exchanges :
    /\ conn[e].socket = "open" /\ conn[e].io # "resubscribe"
    /\ \A c \in Callers : ~(caller[c].pc = "send" /\ caller[c].at = e)
    => conn[e].wire = conn[e].subscriptions

(* stop, stop_all, remove_exchange and the destructor return, although     *)
(* they wait for the I/O thread with the mutex held: a lost connection,    *)
(* the sleep before a reconnection or a new subscription cannot keep it.   *)
CallsReturn == \A c \in Callers : caller[c].pc # "idle" ~> (caller[c].pc = "idle" \/ ~Active)
=============================================================================
