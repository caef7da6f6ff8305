------------------------- MODULE ConnectionsProofs -------------------------
(***************************************************************************)
(* Theorems about Connections for any number of exchanges, symbols and     *)
(* callers and any limit on the attempts to reconnect.                     *)
(***************************************************************************)
EXTENDS Connections, TLAPS

-----------------------------------------------------------------------------
(* The inductive invariant.                                                *)

Types ==
  /\ conn \in [Exchanges -> Connectors] /\ caller \in [Callers -> Calls]
  /\ quiet \subseteq Exchanges /\ mutex \in Callers \union {NoCaller}

Flags == auto \in BOOLEAN /\ up \in BOOLEAN /\ crashed \in BOOLEAN

(* One thread is inside a call, and holds the mutex.                       *)
Holder == \A c \in Callers : caller[c].pc # "idle" <=> mutex = c

Live(k) == k.io \in {"run", "resubscribe", "sleep", "exit"}

(* A connection that is open has just been opened, and one that is not has *)
(* told the exchange nothing.                                              *)
SocketSound(k) ==
  /\ k.socket = "open" => k.state = "CONNECTED" /\ k.reconnect_count = 0
  /\ k.socket # "open" => k.wire = {}
  /\ k.io = "sleep" => k.socket = "none"

Sockets == \A e \in Exchanges : SocketSound(conn[e])

(* Where a call stands: a thread is about to be spawned where none runs    *)
(* for an exchange that is marked, joined where the mark is gone, and a    *)
(* message is sent about a change that is made.                            *)
CallSound(x, k) ==
  /\ x.op \in {"subscribe", "unsubscribe"} /\ x.pc # "idle" => x.symbol \in Symbols
  /\ x.pc \in {"spawn", "join", "send"} => x.at \in Exchanges
  /\ x.pc = "spawn" => k[x.at].running /\ k[x.at].io \in {"none", "ended"}
  /\ x.pc = "join" => ~k[x.at].running
  /\ x.pc = "send" => /\ x.op \in {"subscribe", "unsubscribe"}
                      /\ x.symbol \in k[x.at].subscriptions <=> x.op = "subscribe"

CallsSound == \A c \in Callers : CallSound(caller[c], conn)

Sending(e, op, s) ==
  \E c \in Callers : caller[c].pc = "send" /\ caller[c].at = e /\ caller[c].op = op
                     /\ caller[c].symbol = s

(* The exchange knows of more than the connector only if a call is about   *)
(* to unsubscribe, and of less only if one is about to subscribe.          *)
Wires ==
  \A e \in Exchanges : conn[e].socket = "open" =>
    \A s \in Symbols :
      /\ s \in conn[e].wire /\ s \notin conn[e].subscriptions => Sending(e, "unsubscribe", s)
      /\ s \in conn[e].subscriptions /\ s \notin conn[e].wire /\ conn[e].io # "resubscribe"
           => Sending(e, "subscribe", s)

Inv ==
  /\ Types /\ Flags /\ Holder /\ Sockets /\ CallsSound
  /\ ThreadsKnown /\ QuietAfterStop /\ Wires

-----------------------------------------------------------------------------
(* A connector that was just created, or is none.                          *)
Clean(k) ==
  /\ k \in Connectors /\ k.io = "none" /\ k.state = "DISCONNECTED" /\ k.socket = "none"
  /\ k.wire = {} /\ ~k.running

LEMMA FreshClean == Clean(Fresh) /\ Clean(Absent)
<1>1. Fresh \in Connectors
  BY DEF Fresh, Connectors
<1>2. /\ Fresh.io = "none" /\ Fresh.state = "DISCONNECTED" /\ Fresh.socket = "none"
      /\ Fresh.wire = {} /\ Fresh.running = FALSE
  BY DEF Fresh
<1>3. Absent \in Connectors
  BY <1>1 DEF Absent, Connectors
<1>4. /\ Absent.io = "none" /\ Absent.state = "DISCONNECTED" /\ Absent.socket = "none"
      /\ Absent.wire = {} /\ Absent.running = FALSE
  BY <1>1, <1>2 DEF Absent, Connectors
<1> QED BY <1>1, <1>2, <1>3, <1>4 DEF Clean

LEMMA InvInitially == Init => Inv
<1> SUFFICES ASSUME Init PROVE Inv
  OBVIOUS
<1>1. /\ Absent \in Connectors /\ Absent.io = "none" /\ Absent.state = "DISCONNECTED"
      /\ Absent.socket = "none" /\ Absent.wire = {} /\ ~Absent.running
  BY FreshClean DEF Clean
<1>2. /\ Idle \in Calls /\ Idle.pc = "idle"
  BY DEF Idle, Calls
<1>3. Types
  BY <1>1, <1>2 DEF Init, Types
<1>4. Flags
  BY Zenon DEF Init, Flags
<1>5. Holder
  BY <1>2, ConnectionsAssumption DEF Init, Holder
<1>6. Sockets
  BY <1>1 DEF Init, Sockets, SocketSound
<1>7. CallsSound
  BY <1>2 DEF Init, CallsSound, CallSound
<1>8. ThreadsKnown
  BY <1>1 DEF Init, ThreadsKnown
<1>9. QuietAfterStop /\ Wires
  BY <1>1 DEF Init, QuietAfterStop, Wires
<1> QED BY <1>3, <1>4, <1>5, <1>6, <1>7, <1>8, <1>9 DEF Inv

(* A step of the I/O thread of e, which keeps the marks and subscriptions. *)
WireKept(j, k) ==
  \/ k.socket # "open"
  \/ k.wire = {} /\ k.io = "resubscribe"
  \/ k.wire = j.wire \union j.subscriptions /\ j.socket = "open"
  \/ k.wire = j.wire /\ j.socket = "open" /\ j.io # "resubscribe"

LEMMA ThreadStep ==
  ASSUME Inv, NEW e \in Exchanges, NEW k \in Connectors,
         conn' = [conn EXCEPT ![e] = k], UNCHANGED <<auto, caller, mutex, up, crashed, quiet>>,
         Live(conn[e]), SocketSound(k), k.subscriptions = conn[e].subscriptions,
         \/ Live(k) /\ (k.running <=> conn[e].running)
         \/ k.io = "ended" /\ ~k.running,
         WireKept(conn[e], k)
  PROVE  Inv'
<1>0. Types /\ Flags /\ Holder /\ Sockets /\ CallsSound /\ ThreadsKnown /\ QuietAfterStop /\ Wires
  BY DEF Inv
<1>1. conn'[e] = k /\ \A f \in Exchanges : f # e => conn'[f] = conn[f]
  BY <1>0 DEF Types
<1>2. Types'
  BY <1>0 DEF Types
<1>3. Flags'
  BY <1>0, Zenon DEF Flags
<1>4. Holder'
  BY <1>0 DEF Holder
<1>5. Sockets'
  BY <1>0, <1>1 DEF Sockets
<1>6. CallsSound'
  BY <1>0, <1>1 DEF CallsSound, CallSound, Live
<1>7. ThreadsKnown'
  BY <1>0, <1>1 DEF ThreadsKnown, Live
<1>8. QuietAfterStop'
  BY <1>0, <1>1 DEF QuietAfterStop, Live
<1>9. Wires'
  BY <1>0, <1>1 DEF Wires, WireKept, Sending
<1> QED BY <1>2, <1>3, <1>4, <1>5, <1>6, <1>7, <1>8, <1>9 DEF Inv

(* The steps of the I/O thread and its handlers.                           *)
LEMMA IOKept ==
  ASSUME Inv, NEW e \in Exchanges, IOStep(e) \/ NetworkStep(e)
  PROVE  Inv'
<1>0. conn \in [Exchanges -> Connectors] /\ conn[e] \in Connectors /\ SocketSound(conn[e])
  BY DEF Inv, Types, Sockets
<1>1. UNCHANGED <<auto, caller, mutex, up, crashed, quiet>>
  BY DEF IOStep, NetworkStep
<1>z. 0 \in 0 .. 1 /\ 1 \in 0 .. 1 /\ 0 + 1 = 1
  OBVIOUS
<1>2. CASE on_open(e)
  <2> DEFINE k == [conn[e] EXCEPT !.socket = "open", !.state = "CONNECTED",
                                  !.reconnect_count = 0, !.io = "resubscribe"]
  <2>1. conn' = [conn EXCEPT ![e] = k]
    BY <1>0, <1>2 DEF on_open
  <2>2. /\ k \in Connectors /\ k.socket = "open" /\ k.state = "CONNECTED"
        /\ k.reconnect_count = 0 /\ k.io = "resubscribe"
        /\ k.subscriptions = conn[e].subscriptions /\ k.wire = conn[e].wire
        /\ k.running = conn[e].running
    <3>1. k \in Connectors
      BY <1>0, <1>z DEF Connectors
    <3> QED BY <1>0, <3>1 DEF Connectors
  <2>3. conn[e].io = "run" /\ conn[e].socket = "opening"
    BY <1>2 DEF on_open, Handling
  <2> HIDE DEF k
  <2>4. SocketSound(k) /\ Live(k) /\ Live(conn[e]) /\ WireKept(conn[e], k)
    BY <1>0, <2>2, <2>3 DEF SocketSound, Live, WireKept
  <2> QED BY <1>1, <2>1, <2>2, <2>4, ThreadStep
<1>3. CASE on_fail(e)
  <2> DEFINE k == [conn[e] EXCEPT !.socket = "none", !.state = "FAILED"]
  <2>1. conn' = [conn EXCEPT ![e] = k]
    BY <1>0, <1>3 DEF on_fail
  <2>2. /\ k \in Connectors /\ k.socket = "none" /\ k.io = conn[e].io
        /\ k.subscriptions = conn[e].subscriptions /\ k.wire = conn[e].wire
        /\ k.running = conn[e].running
    BY <1>0 DEF Connectors
  <2>3. conn[e].io = "run" /\ conn[e].socket = "opening"
    BY <1>3 DEF on_fail, Handling
  <2> HIDE DEF k
  <2>4. SocketSound(k) /\ Live(k) /\ Live(conn[e]) /\ WireKept(conn[e], k)
    BY <1>0, <2>2, <2>3 DEF SocketSound, Live, WireKept
  <2> QED BY <1>1, <2>1, <2>2, <2>4, ThreadStep
<1>4. CASE on_close(e)
  <2> DEFINE j == [conn[e] EXCEPT !.socket = "none", !.wire = {}, !.state = "DISCONNECTED"]
             n == j.reconnect_count + 1
             k1 == [j EXCEPT !.reconnect_count = n, !.io = "sleep"]
             k2 == [j EXCEPT !.reconnect_count = n, !.state = "FAILED"]
  <2>1. \/ conn' = [conn EXCEPT ![e] = j] \/ conn' = [conn EXCEPT ![e] = k1]
        \/ conn' = [conn EXCEPT ![e] = k2]
    BY <1>4 DEF on_close
  <2>2. conn[e].io = "run" /\ conn[e].socket = "open"
    BY <1>4 DEF on_close, Handling
  <2>3. /\ j \in Connectors /\ j.socket = "none" /\ j.io = "run" /\ j.wire = {}
        /\ j.subscriptions = conn[e].subscriptions /\ j.running = conn[e].running
        /\ j.reconnect_count = 0
    BY <1>0, <2>2 DEF Connectors, SocketSound
  <2>n. n \in 0 .. 1
    BY <1>z, <2>3
  <2> HIDE DEF j, n
  <2>4. /\ k1 \in Connectors /\ k1.socket = "none" /\ k1.io = "sleep" /\ k1.wire = {}
        /\ k1.subscriptions = conn[e].subscriptions /\ k1.running = conn[e].running
    BY <2>3, <2>n DEF Connectors
  <2>5. /\ k2 \in Connectors /\ k2.socket = "none" /\ k2.io = "run" /\ k2.wire = {}
        /\ k2.subscriptions = conn[e].subscriptions /\ k2.running = conn[e].running
    BY <2>3, <2>n DEF Connectors
  <2> HIDE DEF k1, k2
  <2>6. ASSUME NEW k \in {j, k1, k2}, conn' = [conn EXCEPT ![e] = k]
        PROVE  Inv'
    <3>1. /\ k \in Connectors /\ k.socket = "none" /\ k.io \in {"run", "sleep"} /\ k.wire = {}
          /\ k.subscriptions = conn[e].subscriptions /\ k.running = conn[e].running
      BY <2>3, <2>4, <2>5, <2>6
    <3>2. SocketSound(k) /\ Live(k) /\ Live(conn[e]) /\ WireKept(conn[e], k)
      BY <2>2, <3>1 DEF SocketSound, Live, WireKept
    <3> QED BY <1>1, <2>6, <3>1, <3>2, ThreadStep
  <2> QED BY <2>1, <2>6
<1>5. CASE Resubscribe(e)
  <2> DEFINE w == IF conn[e].socket = "open" THEN conn[e].wire \union conn[e].subscriptions
                  ELSE conn[e].wire
             k == [conn[e] EXCEPT !.wire = w, !.io = "run"]
  <2>1. conn' = [conn EXCEPT ![e] = k]
    BY <1>0, <1>5 DEF Resubscribe
  <2>2. w \in SUBSET Symbols
    BY <1>0 DEF Connectors
  <2>3. /\ k \in Connectors /\ k.socket = conn[e].socket /\ k.io = "run" /\ k.wire = w
        /\ k.subscriptions = conn[e].subscriptions /\ k.running = conn[e].running
        /\ k.state = conn[e].state /\ k.reconnect_count = conn[e].reconnect_count
    BY <1>0, <2>2 DEF Connectors
  <2> HIDE DEF k
  <2>4. SocketSound(k) /\ Live(k) /\ Live(conn[e]) /\ WireKept(conn[e], k)
    BY <1>0, <1>5, <2>3 DEF SocketSound, Live, WireKept, Resubscribe
  <2> QED BY <1>1, <2>1, <2>3, <2>4, ThreadStep
<1>6. CASE Reconnect(e)
  <2> DEFINE j == [conn[e] EXCEPT !.state = "RECONNECTING"]
             k == [j EXCEPT !.io = "run"]
  <2>1. j.state = "RECONNECTING" /\ j \in Connectors
    BY <1>0 DEF Connectors
  <2>2. conn' = [conn EXCEPT ![e] = k]
    BY <1>6, <2>1 DEF Reconnect, connect
  <2>3. /\ k \in Connectors /\ k.socket = conn[e].socket /\ k.io = "run"
        /\ k.wire = conn[e].wire
        /\ k.subscriptions = conn[e].subscriptions /\ k.running = conn[e].running
    BY <1>0 DEF Connectors
  <2> HIDE DEF k
  <2>4. SocketSound(k) /\ Live(k) /\ Live(conn[e]) /\ WireKept(conn[e], k)
    BY <1>0, <1>6, <2>3 DEF SocketSound, Live, WireKept, Reconnect
  <2> QED BY <1>1, <2>2, <2>3, <2>4, ThreadStep
<1>7. CASE LeaveLoop(e)
  <2> DEFINE k == [conn[e] EXCEPT !.io = "exit", !.stopped = TRUE]
  <2>1. conn' = [conn EXCEPT ![e] = k]
    BY <1>0, <1>7 DEF LeaveLoop
  <2>2. /\ k \in Connectors /\ k.socket = conn[e].socket /\ k.io = "exit"
        /\ k.wire = conn[e].wire /\ k.state = conn[e].state
        /\ k.subscriptions = conn[e].subscriptions /\ k.running = conn[e].running
        /\ k.reconnect_count = conn[e].reconnect_count
    BY <1>0 DEF Connectors
  <2> HIDE DEF k
  <2>3. SocketSound(k) /\ Live(k) /\ Live(conn[e]) /\ WireKept(conn[e], k)
    BY <1>0, <1>7, <2>2 DEF SocketSound, Live, WireKept, LeaveLoop
  <2> QED BY <1>1, <2>1, <2>2, <2>3, ThreadStep
<1>8. CASE EndThread(e)
  <2> DEFINE k == [conn[e] EXCEPT !.running = FALSE, !.io = "ended"]
  <2>1. conn' = [conn EXCEPT ![e] = k]
    BY <1>0, <1>8 DEF EndThread
  <2>2. /\ k \in Connectors /\ k.socket = conn[e].socket /\ k.io = "ended"
        /\ k.wire = conn[e].wire /\ k.state = conn[e].state
        /\ k.subscriptions = conn[e].subscriptions /\ k.running = FALSE
        /\ k.reconnect_count = conn[e].reconnect_count
    BY <1>0 DEF Connectors
  <2> HIDE DEF k
  <2>3. SocketSound(k) /\ Live(conn[e]) /\ WireKept(conn[e], k)
    BY <1>0, <1>8, <2>2 DEF SocketSound, Live, WireKept, EndThread
  <2> QED BY <1>1, <2>1, <2>2, <2>3, ThreadStep
<1> QED BY <1>2, <1>3, <1>4, <1>5, <1>6, <1>7, <1>8 DEF IOStep, NetworkStep, Thread, Network

-----------------------------------------------------------------------------
(* The calls of the manager.                                               *)

(* The caller that is inside a call is the only one.                       *)
LEMMA OneCaller ==
  ASSUME Inv, NEW c \in Callers, caller[c].pc # "idle"
  PROVE  mutex = c /\ \A d \in Callers : d # c => caller[d].pc = "idle"
BY DEF Inv, Holder

(* What the exchange knows, given the one call x that is under way at e.   *)
WireSound(k, x) ==
  k.socket = "open" =>
    \A s \in Symbols :
      /\ s \in k.wire /\ s \notin k.subscriptions
           => x.pc = "send" /\ x.op = "unsubscribe" /\ x.symbol = s
      /\ s \in k.subscriptions /\ s \notin k.wire /\ k.io # "resubscribe"
           => x.pc = "send" /\ x.op = "subscribe" /\ x.symbol = s

ThreadSound(k, x) ==
  /\ Live(k) => k.running \/ x.pc = "join"
  /\ k.running => Live(k) \/ x.pc = "spawn"

(* What the invariant says of the exchange that a call is visiting.        *)
LEMMA Visited ==
  ASSUME Inv, NEW c \in Callers, NEW e \in Exchanges,
         caller[c].pc = "visit" \/ (caller[c].pc # "idle" /\ caller[c].at = e)
  PROVE  ThreadSound(conn[e], caller[c]) /\ WireSound(conn[e], caller[c])
<1>1. \A d \in Callers : d # c => caller[d].pc = "idle"
  BY OneCaller
<1>2. ThreadSound(conn[e], caller[c])
  BY <1>1 DEF Inv, ThreadsKnown, ThreadSound, Live
<1>3. \A op, s : Sending(e, op, s) =>
        caller[c].pc = "send" /\ caller[c].op = op /\ caller[c].symbol = s
  BY <1>1 DEF Sending
<1>4. WireSound(conn[e], caller[c])
  BY <1>3 DEF Inv, Wires, WireSound
<1> QED BY <1>2, <1>4

(* A step of a call at one exchange.                                       *)
LEMMA CallerStep ==
  ASSUME Inv, NEW c \in Callers, NEW e \in Exchanges, NEW x \in Calls, NEW k \in Connectors,
         caller[c].pc = "visit" \/ (caller[c].pc # "idle" /\ caller[c].at = e),
         x.pc = "visit" \/ (x.pc # "idle" /\ x.at = e),
         caller' = [caller EXCEPT ![c] = x], conn' = [conn EXCEPT ![e] = k],
         UNCHANGED <<auto, mutex, up>>, crashed' \in BOOLEAN,
         quiet' \subseteq quiet \union {e},
         e \in quiet' => k.io = "none" /\ k.state = "DISCONNECTED" /\ ~k.running,
         SocketSound(k), CallSound(x, conn'), ThreadSound(k, x), WireSound(k, x)
  PROVE  Inv'
<1>0. Types /\ Flags /\ Holder /\ Sockets /\ CallsSound /\ ThreadsKnown /\ QuietAfterStop /\ Wires
  BY DEF Inv
<1>1. conn'[e] = k /\ \A f \in Exchanges : f # e => conn'[f] = conn[f]
  BY <1>0 DEF Types
<1>2. /\ caller'[c] = x /\ \A d \in Callers : d # c => caller'[d] = caller[d]
      /\ mutex = c /\ \A d \in Callers : d # c => caller[d].pc = "idle"
  BY <1>0, OneCaller DEF Types
<1>3. Types'
  BY <1>0 DEF Types
<1>4. Flags'
  BY <1>0, Zenon DEF Flags
<1>5. Holder'
  BY <1>0, <1>2 DEF Holder
<1>6. Sockets'
  BY <1>0, <1>1 DEF Sockets
<1>7. CallsSound'
  BY <1>2 DEF CallsSound, CallSound
<1>8. ThreadsKnown'
  <2>1. ASSUME NEW f \in Exchanges, f # e
        PROVE  Live(conn[f]) <=> conn[f].running
    BY <1>0, <1>2, <2>1 DEF ThreadsKnown, Live
  <2> QED BY <1>1, <1>2, <2>1 DEF ThreadsKnown, ThreadSound, Live
<1>9. QuietAfterStop'
  BY <1>0, <1>1 DEF QuietAfterStop, Types
<1>10. Wires'
  <2>1. ASSUME NEW f \in Exchanges, f # e, conn'[f].socket = "open", NEW s \in Symbols
        PROVE  /\ s \in conn'[f].wire => s \in conn'[f].subscriptions
               /\ s \in conn'[f].subscriptions /\ conn'[f].io # "resubscribe" => s \in conn'[f].wire
    BY <1>0, <1>1, <1>2, <2>1 DEF Wires, Sending
  <2>2. ASSUME conn'[e].socket = "open", NEW s \in Symbols
        PROVE  /\ s \in conn'[e].wire /\ s \notin conn'[e].subscriptions
                    => Sending(e, "unsubscribe", s)'
               /\ s \in conn'[e].subscriptions /\ s \notin conn'[e].wire /\ conn'[e].io # "resubscribe"
                    => Sending(e, "subscribe", s)'
    BY <1>1, <1>2, <2>2 DEF WireSound, Sending
  <2> QED BY <2>1, <2>2 DEF Wires
<1> QED BY <1>3, <1>4, <1>5, <1>6, <1>7, <1>8, <1>9, <1>10 DEF Inv

(* A call that is done with an exchange goes on to the next.               *)
LEMMA DoneSound ==
  ASSUME Inv, NEW c \in Callers, NEW e \in Exchanges, caller[c].pc # "idle", Done(c, e)
  PROVE  \E x \in Calls : /\ caller' = [caller EXCEPT ![c] = x] /\ x.pc = "visit"
                          /\ CallSound(x, conn')
<1> DEFINE x == [caller[c] EXCEPT !.at = NoExchange, !.pc = "visit", !.todo = @ \ {e}]
<1>1. caller \in [Callers -> Calls] /\ caller[c] \in Calls /\ CallSound(caller[c], conn)
  BY DEF Inv, Types, CallsSound
<1>2. caller' = [caller EXCEPT ![c] = x]
  BY <1>1 DEF Done
<1>3. caller[c].todo \ {e} \in SUBSET Exchanges
  BY <1>1 DEF Calls
<1>4. x \in Calls /\ x.pc = "visit" /\ x.op = caller[c].op /\ x.symbol = caller[c].symbol
  BY <1>1, <1>3 DEF Calls
<1> HIDE DEF x
<1>5. CallSound(x, conn')
  BY <1>1, <1>4 DEF CallSound
<1> QED BY <1>2, <1>4, <1>5

LEMMA CallStepKept ==
  ASSUME Inv, NEW c \in Callers, NEW e \in Exchanges,
         \/ StartConnect(c, e) \/ Spawn(c, e) \/ RequestStop(c, e) \/ JoinAndDisconnect(c, e)
         \/ ChangeSubscription(c, e) \/ send_subscription(c, e)
  PROVE  Inv'
<1>0. /\ conn \in [Exchanges -> Connectors] /\ conn[e] \in Connectors /\ SocketSound(conn[e])
      /\ caller \in [Callers -> Calls] /\ caller[c] \in Calls /\ CallSound(caller[c], conn)
      /\ quiet \subseteq Exchanges /\ crashed \in BOOLEAN
      /\ e \in quiet => conn[e].io = "none" /\ conn[e].state = "DISCONNECTED" /\ ~conn[e].running
  BY DEF Inv, Types, Flags, Sockets, CallsSound, QuietAfterStop
<1>d. conn = [conn EXCEPT ![e] = conn[e]]
  BY <1>0
(* A visit that changes nothing.                                           *)
<1>n. ASSUME caller[c].pc = "visit", Done(c, e), UNCHANGED <<conn, auto, mutex, up, crashed, quiet>>
      PROVE  Inv'
  <2>1. ThreadSound(conn[e], caller[c]) /\ WireSound(conn[e], caller[c])
    BY <1>n, Visited
  <2>2. PICK x \in Calls : /\ caller' = [caller EXCEPT ![c] = x] /\ x.pc = "visit"
                           /\ CallSound(x, conn')
    BY <1>n, DoneSound
  <2>3. ThreadSound(conn[e], x) /\ WireSound(conn[e], x)
    BY <1>n, <2>1, <2>2 DEF ThreadSound, WireSound
  <2>4. conn' = [conn EXCEPT ![e] = conn[e]] /\ crashed' \in BOOLEAN /\ quiet' = quiet
        /\ UNCHANGED <<auto, mutex, up>>
    BY <1>0, <1>n, <1>d, Zenon
  <2> QED BY <1>0, <1>n, <2>2, <2>3, <2>4, CallerStep
<1>1. CASE StartConnect(c, e)
  <2>1. caller[c].pc = "visit" /\ UNCHANGED <<auto, mutex, up, crashed>>
    BY <1>1 DEF StartConnect, Visiting
  <2>2. ThreadSound(conn[e], caller[c]) /\ WireSound(conn[e], caller[c])
    BY <2>1, Visited
  <2>3. CASE Done(c, e) /\ UNCHANGED <<conn, quiet>>
    BY <1>n, <2>1, <2>3
  <2>4. CASE ~conn[e].running /\ conn[e].state = "DISCONNECTED"
    <3> DEFINE k1 == [conn[e] EXCEPT !.state = "CONNECTING", !.socket = "opening"]
               k2 == [conn[e] EXCEPT !.state = "FAILED"]
               k3 == [k1 EXCEPT !.running = TRUE]
    <3>1. /\ k1 \in Connectors /\ k1.state = "CONNECTING" /\ k1.io = conn[e].io
          /\ k1.socket = "opening" /\ k1.wire = conn[e].wire
      BY <1>0 DEF Connectors
    <3>2. /\ k2 \in Connectors /\ k2.state = "FAILED" /\ k2.io = conn[e].io
          /\ k2.socket = conn[e].socket /\ k2.wire = conn[e].wire
          /\ k2.running = conn[e].running
      BY <1>0 DEF Connectors
    <3>3. \/ conn' = [conn EXCEPT ![e] = k3] /\ At(c, e, "spawn") /\ quiet' = quiet \ {e}
          \/ conn' = [conn EXCEPT ![e] = k2] /\ Done(c, e) /\ quiet' = quiet \ {e}
          \/ Done(c, e) /\ UNCHANGED <<conn, quiet>>
      BY <1>1, <2>4, <3>1, <3>2 DEF StartConnect, connect
    <3> HIDE DEF k1
    <3>4. /\ k3 \in Connectors /\ k3.running = TRUE /\ k3.io = conn[e].io
          /\ k3.socket = "opening" /\ k3.wire = conn[e].wire
      BY <3>1 DEF Connectors
    <3> HIDE DEF k2, k3
    <3>5. ~Live(conn[e]) /\ conn[e].socket # "open" /\ conn[e].io \in {"none", "ended"}
      BY <1>0, <2>1, <2>2, <2>4 DEF ThreadSound, SocketSound, Live, Connectors
    <3>6. CASE conn' = [conn EXCEPT ![e] = k3] /\ At(c, e, "spawn") /\ quiet' = quiet \ {e}
      <4> DEFINE x == [caller[c] EXCEPT !.at = e, !.pc = "spawn"]
      <4>1. caller' = [caller EXCEPT ![c] = x]
        BY <1>0, <3>6 DEF At
      <4>2. x \in Calls /\ x.at = e /\ x.pc = "spawn" /\ x.op = caller[c].op
        BY <1>0 DEF Calls
      <4>3. x.op = "start"
        BY <1>1, <4>2 DEF StartConnect, Visiting
      <4> HIDE DEF x
      <4>4. conn'[e] = k3
        BY <1>0, <3>6
      <4>5. CallSound(x, conn')
        BY <3>4, <3>5, <4>2, <4>3, <4>4 DEF CallSound
      <4>6. SocketSound(k3) /\ ThreadSound(k3, x) /\ WireSound(k3, x)
        BY <1>0, <3>4, <3>5, <4>2 DEF SocketSound, ThreadSound, WireSound, Live
      <4>7. crashed' \in BOOLEAN /\ quiet' \subseteq quiet \union {e} /\ e \notin quiet'
        BY <1>0, <2>1, <3>6, Zenon
      <4> QED BY <2>1, <3>4, <3>6, <4>1, <4>2, <4>5, <4>6, <4>7, CallerStep
    <3>7. CASE conn' = [conn EXCEPT ![e] = k2] /\ Done(c, e) /\ quiet' = quiet \ {e}
      <4>1. PICK x \in Calls : /\ caller' = [caller EXCEPT ![c] = x] /\ x.pc = "visit"
                               /\ CallSound(x, conn')
        BY <2>1, <3>7, DoneSound
      <4>2. SocketSound(k2) /\ ThreadSound(k2, x) /\ WireSound(k2, x)
        BY <1>0, <2>4, <3>2, <3>5, <4>1 DEF SocketSound, ThreadSound, WireSound, Live
      <4>3. crashed' \in BOOLEAN /\ quiet' \subseteq quiet \union {e} /\ e \notin quiet'
        BY <1>0, <2>1, <3>7, Zenon
      <4> QED BY <2>1, <3>2, <3>7, <4>1, <4>2, <4>3, CallerStep
    <3> QED BY <2>3, <3>3, <3>6, <3>7
  <2> QED BY <1>1, <2>3, <2>4 DEF StartConnect
<1>2. CASE Spawn(c, e)
  <2> DEFINE k == [conn[e] EXCEPT !.io = "run"]
  <2>1. caller[c].pc = "spawn" /\ caller[c].at = e /\ UNCHANGED <<auto, mutex, up, quiet>>
    BY <1>2 DEF Spawn
  <2>2. ThreadSound(conn[e], caller[c]) /\ WireSound(conn[e], caller[c])
    BY <2>1, Visited
  <2>3. conn' = [conn EXCEPT ![e] = k] /\ Done(c, e)
    BY <1>0, <1>2 DEF Spawn
  <2>4. /\ k \in Connectors /\ k.io = "run" /\ k.running = conn[e].running
        /\ k.socket = conn[e].socket /\ k.state = conn[e].state /\ k.wire = conn[e].wire
        /\ k.subscriptions = conn[e].subscriptions /\ k.reconnect_count = conn[e].reconnect_count
    BY <1>0 DEF Connectors
  <2> HIDE DEF k
  <2>5. conn[e].running /\ conn[e].io \in {"none", "ended"}
    BY <1>0, <2>1 DEF CallSound
  <2>6. PICK x \in Calls : /\ caller' = [caller EXCEPT ![c] = x] /\ x.pc = "visit"
                           /\ CallSound(x, conn')
    BY <2>1, <2>3, DoneSound
  <2>7. SocketSound(k) /\ ThreadSound(k, x) /\ WireSound(k, x)
    BY <1>0, <2>1, <2>2, <2>4, <2>5, <2>6 DEF SocketSound, ThreadSound, WireSound, Live
  <2>8. e \notin quiet'
    BY <1>0, <2>1, <2>5
  <2>9. crashed' \in BOOLEAN /\ quiet' \subseteq quiet \union {e}
    <3>1. crashed' = (conn[e].io # "none")
      BY <1>2 DEF Spawn
    <3> QED BY <2>1, <3>1, Zenon
  <2> QED BY <2>1, <2>3, <2>4, <2>6, <2>7, <2>8, <2>9, CallerStep
<1>3. CASE RequestStop(c, e)
  <2>1. caller[c].pc = "visit" /\ UNCHANGED <<auto, mutex, up, crashed, quiet>>
    BY <1>3 DEF RequestStop, Visiting
  <2>2. ThreadSound(conn[e], caller[c]) /\ WireSound(conn[e], caller[c])
    BY <2>1, Visited
  <2>3. CASE Done(c, e) /\ UNCHANGED conn
    BY <1>n, <2>1, <2>3
  <2>4. CASE conn[e].running
    <3> DEFINE j == [conn[e] EXCEPT !.stopped = TRUE]
               k == [j EXCEPT !.running = FALSE]
               x == [caller[c] EXCEPT !.at = e, !.pc = "join"]
    <3>1. conn' = [conn EXCEPT ![e] = k] /\ At(c, e, "join")
      BY <1>3, <2>4 DEF RequestStop, stop
    <3>2. /\ j \in Connectors /\ j.io = conn[e].io
          /\ j.socket = conn[e].socket /\ j.state = conn[e].state /\ j.wire = conn[e].wire
          /\ j.subscriptions = conn[e].subscriptions /\ j.reconnect_count = conn[e].reconnect_count
      BY <1>0 DEF Connectors
    <3> HIDE DEF j
    <3>3. /\ k \in Connectors /\ k.io = conn[e].io /\ k.running = FALSE
          /\ k.socket = conn[e].socket /\ k.state = conn[e].state /\ k.wire = conn[e].wire
          /\ k.subscriptions = conn[e].subscriptions /\ k.reconnect_count = conn[e].reconnect_count
      BY <3>2 DEF Connectors
    <3> HIDE DEF k
    <3>4. caller' = [caller EXCEPT ![c] = x]
      BY <1>0, <3>1 DEF At
    <3>5. x \in Calls /\ x.at = e /\ x.pc = "join" /\ x.op = caller[c].op
      BY <1>0 DEF Calls
    <3>6. x.op \in Stopping
      BY <1>3, <3>5 DEF RequestStop, Visiting
    <3> HIDE DEF x
    <3>7. conn'[e] = k
      BY <1>0, <3>1
    <3>8. CallSound(x, conn')
      BY <3>3, <3>5, <3>6, <3>7 DEF CallSound, Stopping
    <3>9. SocketSound(k) /\ ThreadSound(k, x) /\ WireSound(k, x)
      BY <1>0, <2>1, <2>2, <3>3, <3>5 DEF SocketSound, ThreadSound, WireSound, Live
    <3>10. e \notin quiet' /\ crashed' \in BOOLEAN /\ quiet' \subseteq quiet \union {e}
      BY <1>0, <2>1, <2>4, Zenon
    <3> QED BY <2>1, <3>1, <3>3, <3>4, <3>5, <3>8, <3>9, <3>10, CallerStep
  <2> QED BY <1>3, <2>3, <2>4 DEF RequestStop
<1>4. CASE JoinAndDisconnect(c, e)
  <2> DEFINE j == disconnect(conn[e])
             k == [j EXCEPT !.io = "none"]
  <2>1. /\ caller[c].pc = "join" /\ caller[c].at = e /\ UNCHANGED <<auto, mutex, up, crashed>>
        /\ conn' = [conn EXCEPT ![e] = k] /\ Done(c, e) /\ quiet' = quiet \union {e}
    BY <1>4 DEF JoinAndDisconnect
  <2>2. ~conn[e].running
    BY <1>0, <2>1 DEF CallSound
  <2>3. /\ j \in Connectors /\ j.state = "DISCONNECTED" /\ j.running = conn[e].running
        /\ j.socket # "open" /\ j.wire = {}
    <3>1. CASE conn[e].state = "DISCONNECTED"
      BY <1>0, <3>1 DEF disconnect, SocketSound
    <3>2. CASE conn[e].state # "DISCONNECTED"
      BY <1>0, <3>2 DEF disconnect, Connectors
    <3> QED BY <3>1, <3>2
  <2> HIDE DEF j
  <2>4. /\ k \in Connectors /\ k.state = "DISCONNECTED" /\ k.running = conn[e].running
        /\ k.socket # "open" /\ k.wire = {} /\ k.io = "none"
    BY <2>3 DEF Connectors
  <2> HIDE DEF k
  <2>5. PICK x \in Calls : /\ caller' = [caller EXCEPT ![c] = x] /\ x.pc = "visit"
                           /\ CallSound(x, conn')
    BY <2>1, DoneSound
  <2>6. SocketSound(k) /\ ThreadSound(k, x) /\ WireSound(k, x)
    BY <2>2, <2>4 DEF SocketSound, ThreadSound, WireSound, Live
  <2>7. crashed' \in BOOLEAN /\ quiet' \subseteq quiet \union {e}
    BY <1>0, <2>1, Zenon
  <2> QED BY <2>1, <2>2, <2>4, <2>5, <2>6, <2>7, CallerStep
<1>5. CASE ChangeSubscription(c, e)
  <2> DEFINE s == caller[c].symbol
             k == IF caller[c].op = "subscribe" THEN subscribe(conn[e], s)
                                                ELSE unsubscribe(conn[e], s)
  <2>1. /\ caller[c].pc = "visit" /\ caller[c].op \in {"subscribe", "unsubscribe"}
        /\ UNCHANGED <<auto, mutex, up, crashed, quiet>>
        /\ conn' = [conn EXCEPT ![e] = k] /\ (IF k # conn[e] THEN At(c, e, "send") ELSE Done(c, e))
    BY <1>5 DEF ChangeSubscription, Visiting
  <2>2. ThreadSound(conn[e], caller[c]) /\ WireSound(conn[e], caller[c])
    BY <2>1, Visited
  <2>3. CASE k = conn[e]
    <3>1. Done(c, e) /\ UNCHANGED conn
      BY <2>1, <2>3, <1>d
    <3> QED BY <1>n, <2>1, <3>1
  <2>4. CASE k # conn[e]
    <3> DEFINE x == [caller[c] EXCEPT !.at = e, !.pc = "send"]
    <3>1. s \in Symbols
      BY <1>0, <2>1 DEF CallSound
    <3>2. /\ k \in Connectors /\ k.io = conn[e].io /\ k.running = conn[e].running
          /\ k.socket = conn[e].socket /\ k.state = conn[e].state /\ k.wire = conn[e].wire
          /\ k.reconnect_count = conn[e].reconnect_count
          /\ k.subscriptions = IF caller[c].op = "subscribe" THEN conn[e].subscriptions \union {s}
                                                             ELSE conn[e].subscriptions \ {s}
      <4>1. /\ conn[e].subscriptions \union {s} \in SUBSET Symbols
            /\ conn[e].subscriptions \ {s} \in SUBSET Symbols
        BY <1>0, <3>1 DEF Connectors
      <4>2. CASE caller[c].op = "subscribe"
        BY <1>0, <2>4, <4>1, <4>2 DEF subscribe, Connectors
      <4>3. CASE caller[c].op # "subscribe"
        BY <1>0, <2>4, <4>1, <4>3 DEF unsubscribe, Connectors
      <4> QED BY <4>2, <4>3
    <3> HIDE DEF k
    <3>3. caller' = [caller EXCEPT ![c] = x]
      BY <1>0, <2>1, <2>4 DEF At
    <3>4. /\ x \in Calls /\ x.at = e /\ x.pc = "send" /\ x.op = caller[c].op
          /\ x.symbol = caller[c].symbol
      BY <1>0 DEF Calls
    <3> HIDE DEF x
    <3>5. conn'[e] = k
      BY <1>0, <2>1
    <3>6. CallSound(x, conn')
      BY <2>1, <3>1, <3>2, <3>4, <3>5 DEF CallSound
    <3>7. SocketSound(k) /\ ThreadSound(k, x)
      BY <1>0, <2>1, <2>2, <3>2, <3>4 DEF SocketSound, ThreadSound, Live
    <3>8. WireSound(k, x)
      BY <2>1, <2>2, <3>2, <3>4 DEF WireSound
    <3>9. /\ crashed' \in BOOLEAN /\ quiet' \subseteq quiet \union {e}
          /\ e \in quiet' => e \in quiet
      BY <1>0, <2>1, Zenon
    <3> QED BY <1>0, <2>1, <3>2, <3>3, <3>4, <3>6, <3>7, <3>8, <3>9, CallerStep
  <2> QED BY <2>3, <2>4
<1>6. CASE send_subscription(c, e)
  <2> DEFINE s == caller[c].symbol
             w == IF conn[e].socket # "open" THEN conn[e].wire
                  ELSE IF caller[c].op = "subscribe" THEN conn[e].wire \union {s}
                  ELSE conn[e].wire \ {s}
             k == [conn[e] EXCEPT !.wire = w]
  <2>1. /\ caller[c].pc = "send" /\ caller[c].at = e
        /\ UNCHANGED <<auto, mutex, up, crashed, quiet>>
        /\ conn' = [conn EXCEPT ![e] = k] /\ Done(c, e)
    BY <1>0, <1>6 DEF send_subscription
  <2>2. ThreadSound(conn[e], caller[c]) /\ WireSound(conn[e], caller[c])
    BY <2>1, Visited
  <2>3. /\ caller[c].op \in {"subscribe", "unsubscribe"} /\ s \in Symbols
        /\ s \in conn[e].subscriptions <=> caller[c].op = "subscribe"
    BY <1>0, <2>1 DEF CallSound
  <2>4. w \in SUBSET Symbols
    BY <1>0, <2>3 DEF Connectors
  <2>5. /\ k \in Connectors /\ k.io = conn[e].io /\ k.running = conn[e].running
        /\ k.socket = conn[e].socket /\ k.state = conn[e].state /\ k.wire = w
        /\ k.reconnect_count = conn[e].reconnect_count
        /\ k.subscriptions = conn[e].subscriptions
    BY <1>0, <2>4 DEF Connectors
  <2> HIDE DEF k
  <2>6. PICK x \in Calls : /\ caller' = [caller EXCEPT ![c] = x] /\ x.pc = "visit"
                           /\ CallSound(x, conn')
    BY <2>1, DoneSound
  <2>7. SocketSound(k) /\ ThreadSound(k, x)
    BY <1>0, <2>1, <2>2, <2>5, <2>6 DEF SocketSound, ThreadSound, Live
  <2>8. WireSound(k, x)
    BY <2>1, <2>2, <2>3, <2>5, <2>6 DEF WireSound
  <2>9. /\ crashed' \in BOOLEAN /\ quiet' \subseteq quiet \union {e}
        /\ e \in quiet' => e \in quiet
    BY <1>0, <2>1, Zenon
  <2> QED BY <1>0, <2>1, <2>5, <2>6, <2>7, <2>8, <2>9, CallerStep
<1> QED BY <1>1, <1>2, <1>3, <1>4, <1>5, <1>6

(* A call that begins.                                                     *)
LEMMA BeginKept ==
  ASSUME Inv, NEW c \in Callers,
         NEW op \in {"start", "subscribe", "unsubscribe"} \union Stopping,
         NEW todo \in SUBSET Exchanges, NEW s \in Symbols \union {NoSymbol},
         op \in {"subscribe", "unsubscribe"} => s \in Symbols,
         Begin(c, op, todo, s)
  PROVE  Inv'
<1> DEFINE x == [Idle EXCEPT !.op = op, !.pc = "visit", !.all = todo, !.todo = todo, !.symbol = s]
<1>0. Types /\ Flags /\ Holder /\ Sockets /\ CallsSound /\ ThreadsKnown /\ QuietAfterStop /\ Wires
  BY DEF Inv
<1>1. x \in Calls /\ x.pc = "visit" /\ x.op = op /\ x.symbol = s
  BY DEF Idle, Calls
<1>2. caller' = [caller EXCEPT ![c] = x]
  BY DEF Begin
<1> HIDE DEF x
<1>3. /\ mutex = NoCaller /\ mutex' = c /\ caller[c].pc = "idle"
      /\ UNCHANGED <<conn, auto, up, crashed, quiet>>
  BY DEF Begin
<1>4. \A d \in Callers : caller[d].pc = "idle"
  BY <1>0, <1>3, ConnectionsAssumption DEF Holder
<1>5. caller'[c] = x /\ \A d \in Callers : d # c => caller'[d] = caller[d]
  BY <1>0, <1>2 DEF Types
<1>6. Types'
  BY <1>0, <1>1, <1>2, <1>3 DEF Types
<1>7. Flags'
  BY <1>0, <1>3, Zenon DEF Flags
<1>8. Holder'
  BY <1>1, <1>3, <1>4, <1>5 DEF Holder
<1>9. Sockets' /\ QuietAfterStop'
  BY <1>0, <1>3 DEF Sockets, QuietAfterStop
<1>10. CallsSound'
  BY <1>1, <1>4, <1>5 DEF CallsSound, CallSound
<1>11. ThreadsKnown'
  BY <1>0, <1>3, <1>4 DEF ThreadsKnown
<1>12. Wires'
  BY <1>0, <1>3, <1>4 DEF Wires, Sending
<1> QED BY <1>6, <1>7, <1>8, <1>9, <1>10, <1>11, <1>12 DEF Inv

(* A call that ends, with the threads and connectors it destroys.          *)
LEMMA ReturnKept ==
  ASSUME Inv, NEW c \in Callers, Return(c)
  PROVE  Inv'
<1> DEFINE gone == IF caller[c].op \in {"remove", "destroy"} THEN caller[c].all ELSE {}
<1>0. Types /\ Flags /\ Holder /\ Sockets /\ CallsSound /\ ThreadsKnown /\ QuietAfterStop /\ Wires
  BY DEF Inv
<1>1. /\ caller[c].pc = "visit" /\ caller' = [caller EXCEPT ![c] = Idle] /\ mutex' = NoCaller
      /\ conn' = [e \in Exchanges |-> IF e \in gone THEN Absent ELSE conn[e]]
      /\ quiet' = quiet \ gone
  BY DEF Return
<1>2. Idle \in Calls /\ Idle.pc = "idle"
  BY DEF Idle, Calls
<1>3. \A d \in Callers : caller'[d].pc = "idle" /\ (d # c => caller[d].pc = "idle")
  BY <1>0, <1>1, <1>2, OneCaller DEF Types
<1>4. \A e \in Exchanges : conn'[e] = conn[e] \/ Clean(conn'[e])
  BY <1>1, FreshClean
<1> HIDE DEF gone
<1>5. Types'
  BY <1>0, <1>1, <1>2, FreshClean DEF Types, Clean
<1>6. Flags'
  <2>1. auto' \in BOOLEAN
    BY <1>0, Zenon DEF Flags, Return
  <2>2. up' \in BOOLEAN /\ crashed' \in BOOLEAN
    BY Zenon DEF Return
  <2> QED BY <2>1, <2>2 DEF Flags
<1>7. Holder'
  BY <1>1, <1>3, ConnectionsAssumption DEF Holder
<1>8. Sockets'
  BY <1>0, <1>4 DEF Sockets, SocketSound, Clean
<1>9. QuietAfterStop'
  BY <1>0, <1>1 DEF QuietAfterStop, Types
<1>10. CallsSound'
  BY <1>3 DEF CallsSound, CallSound
<1>11. ThreadsKnown'
  BY <1>0, <1>1, <1>3, <1>4 DEF ThreadsKnown, Clean
<1>12. Wires'
  BY <1>0, <1>1, <1>3, <1>4 DEF Wires, Sending, Clean
<1> QED BY <1>5, <1>6, <1>7, <1>8, <1>9, <1>10, <1>11, <1>12 DEF Inv

LEMMA AddKept ==
  ASSUME Inv, NEW c \in Callers, NEW e \in Exchanges, add_exchange(c, e)
  PROVE  Inv'
<1>0. Types /\ Flags /\ Holder /\ Sockets /\ CallsSound /\ ThreadsKnown /\ QuietAfterStop /\ Wires
  BY DEF Inv
<1>1. /\ mutex = NoCaller /\ conn' = [conn EXCEPT ![e] = Fresh]
      /\ UNCHANGED <<auto, caller, mutex, up, crashed, quiet>>
  BY DEF add_exchange
<1>2. \A d \in Callers : caller[d].pc = "idle"
  BY <1>0, <1>1, ConnectionsAssumption DEF Holder
<1>3. Clean(conn'[e]) /\ \A f \in Exchanges : f # e => conn'[f] = conn[f]
  BY <1>0, <1>1, FreshClean DEF Types
<1>4. Types'
  BY <1>0, <1>1, FreshClean DEF Types, Clean
<1>5. Flags'
  BY <1>0, <1>1, Zenon DEF Flags
<1>6. Holder'
  BY <1>0, <1>1 DEF Holder
<1>7. Sockets'
  BY <1>0, <1>3 DEF Sockets, SocketSound, Clean
<1>8. QuietAfterStop'
  BY <1>0, <1>1, <1>3 DEF QuietAfterStop, Types, Clean
<1>9. CallsSound'
  BY <1>1, <1>2 DEF CallsSound, CallSound
<1>10. ThreadsKnown'
  BY <1>0, <1>1, <1>2, <1>3 DEF ThreadsKnown, Clean
<1>11. Wires'
  BY <1>0, <1>1, <1>2, <1>3 DEF Wires, Sending, Clean
<1> QED BY <1>4, <1>5, <1>6, <1>7, <1>8, <1>9, <1>10, <1>11 DEF Inv

LEMMA StutterKept ==
  ASSUME Inv, UNCHANGED <<conn, caller, mutex, up, crashed, quiet>>, auto' \in BOOLEAN
  PROVE  Inv'
<1>0. Types /\ Flags /\ Holder /\ Sockets /\ CallsSound /\ ThreadsKnown /\ QuietAfterStop /\ Wires
  BY DEF Inv
<1>1. Types' /\ Holder' /\ Sockets'
  BY <1>0 DEF Types, Holder, Sockets
<1>2. Flags'
  BY <1>0, Zenon DEF Flags
<1>3. CallsSound'
  BY <1>0 DEF CallsSound
<1>4. ThreadsKnown' /\ QuietAfterStop'
  BY <1>0 DEF ThreadsKnown, QuietAfterStop
<1>5. Wires'
  BY <1>0 DEF Wires, Sending
<1> QED BY <1>1, <1>2, <1>3, <1>4, <1>5 DEF Inv

LEMMA InvKept == Inv /\ [Next]_vars => Inv'
<1> SUFFICES ASSUME Inv, [Next]_vars PROVE Inv'
  OBVIOUS
<1>1. ASSUME NEW e \in Exchanges, IOStep(e) \/ NetworkStep(e)
      PROVE  Inv'
  BY <1>1, IOKept
<1>2. ASSUME NEW c \in Callers,
             \/ Start(c) \/ Stop(c) \/ Remove(c) \/ Subscribe(c) \/ Unsubscribe(c) \/ Shutdown(c)
      PROVE  Inv'
  <2>1. /\ Added \in SUBSET Exchanges /\ NoSymbol \in Symbols \union {NoSymbol}
        /\ \A e \in Added : {e} \in SUBSET Exchanges
    BY DEF Added
  <2>2. \A op \in {"start"} \union Stopping :
          (\E todo \in SUBSET Exchanges : Begin(c, op, todo, NoSymbol)) => Inv'
    BY <2>1, BeginKept DEF Stopping
  <2>3. \A op \in {"subscribe", "unsubscribe"}, s \in Symbols :
          (\E todo \in SUBSET Exchanges : Begin(c, op, todo, s)) => Inv'
    BY BeginKept
  <2>4. Start(c) => Inv'
    BY <2>1, <2>2 DEF Start
  <2>5. Stop(c) => Inv'
    BY <2>1, <2>2 DEF Stop, Stopping
  <2>6. Remove(c) => Inv'
    BY <2>1, <2>2 DEF Remove, Stopping
  <2>7. Subscribe(c) => Inv'
    BY <2>1, <2>3 DEF Subscribe
  <2>8. Unsubscribe(c) => Inv'
    BY <2>1, <2>3 DEF Unsubscribe
  <2>9. Shutdown(c) => Inv'
    BY <2>1, <2>2 DEF Shutdown, Stopping
  <2> QED BY <1>2, <2>4, <2>5, <2>6, <2>7, <2>8, <2>9
<1>3. ASSUME NEW c \in Callers, set_auto_reconnect(c)
      PROVE  Inv'
  <2>1. auto' \in BOOLEAN
    BY <1>3, Zenon DEF set_auto_reconnect
  <2> QED BY <1>3, <2>1, StutterKept DEF set_auto_reconnect
<1>4. ASSUME NEW c \in Callers, CallStep(c)
      PROVE  Inv'
  BY <1>4, ReturnKept, CallStepKept DEF CallStep
<1>5. ASSUME NEW c \in Callers, NEW e \in Exchanges, add_exchange(c, e)
      PROVE  Inv'
  BY <1>5, AddKept
<1>6. CASE UNCHANGED vars
  <2>1. UNCHANGED <<conn, caller, mutex, up, crashed, quiet>> /\ auto' = auto
    BY <1>6 DEF vars
  <2>2. auto' \in BOOLEAN
    BY <2>1, Zenon DEF Inv, Flags
  <2> QED BY <2>1, <2>2, StutterKept
<1> QED BY <1>1, <1>2, <1>3, <1>4, <1>5, <1>6 DEF Next

LEMMA InvSound == Inv => ThreadsAccounted /\ SubscriptionsSent
<1> SUFFICES ASSUME Inv PROVE ThreadsAccounted /\ SubscriptionsSent
  OBVIOUS
<1>1. {c \in Callers : caller[c].pc # "idle"} = {mutex} \ {NoCaller}
  BY ConnectionsAssumption DEF Inv, Types, Holder
<1>2. TypeOK
  BY <1>1 DEF Inv, Types, Flags, TypeOK
<1>3. SubscriptionsSent
  <2> SUFFICES ASSUME NEW e \in Exchanges, conn[e].socket = "open", conn[e].io # "resubscribe",
                      \A c \in Callers : ~(caller[c].pc = "send" /\ caller[c].at = e)
               PROVE  conn[e].wire = conn[e].subscriptions
    BY DEF SubscriptionsSent
  <2>1. conn[e].wire \subseteq Symbols /\ conn[e].subscriptions \subseteq Symbols
    BY DEF Inv, Types, Connectors
  <2>2. \A s \in Symbols : s \in conn[e].wire <=> s \in conn[e].subscriptions
    BY DEF Inv, Wires, Sending
  <2> QED BY <2>1, <2>2
<1> QED BY <1>2, <1>3 DEF Inv, ThreadsAccounted

(* For any number of exchanges and callers, a thread that may still run a  *)
(* callback is one that the next stop joins, and a stopped exchange is at  *)
(* rest (start, stop and run of connection_manager.cpp and the handlers).  *)
THEOREM ThreadsAreAccounted == Spec => []ThreadsAccounted
BY InvInitially, InvKept, InvSound, PTL DEF Spec

(* For any number of exchanges, symbols and callers, the exchange has been *)
(* told of the subscriptions the connector keeps, unless a thread is about *)
(* to tell it (subscribe, unsubscribe and on_open of the connectors).      *)
THEOREM SubscriptionsAreSent == Spec => []SubscriptionsSent
BY InvInitially, InvKept, InvSound, PTL DEF Spec
=============================================================================
