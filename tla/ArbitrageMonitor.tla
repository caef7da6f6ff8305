------------------------- MODULE ArbitrageMonitor -------------------------
(* ArbitrageMonitor of trading/arbitrage_monitor.{hpp,cpp}: opportunities   *)
(* reported by order books from several threads, kept active for a second   *)
(* and then moved to a bounded history. mutex_ is released around the alert *)
(* callback, which is where another thread gets in.                         *)
EXTENDS Integers, SequencesExt

CONSTANTS
  Reporters,     \* threads that run an order book's arbitrage callback
  BookNames,     \* symbols of order books
  Profits,       \* profit percentages of reported opportunities
  MinProfit,     \* a threshold that set_min_profit may set; it starts at 0
  HistorySize,   \* history_size_
  Timeout,       \* timeout_ns
  Wrap,          \* 2^64: uint64_t differences are taken modulo Wrap
  MaxTime,       \* bound: the clock
  MaxId,         \* bound: opportunities tracked
  MaxCalls       \* bound: calls of the owner (start, stop, set_*, ...)

ASSUME MonitorAssumption ==
  /\ HistorySize \in Nat /\ Timeout \in Nat /\ MaxTime \in Nat /\ MaxId \in Nat
  /\ MaxCalls \in Nat
  /\ Wrap \in Nat /\ Wrap > 2 * MaxTime + Timeout

VARIABLES
  running, min_profit, alert_callback, order_books,
  next_id, active, history, stats,
  clock,         \* get_timestamp_ns
  calls,         \* calls the owner has made
  flushing,      \* stop has cleared running_ and waits for mutex_
  at,            \* a reporter's place; "late": at mutex_ since before a stop
  opp, mine,     \* its opportunity's profit, the time it detected it
  gone,          \* history: ids trimmed from the history or cleared with it
  late,          \* history: ids whose detection passed the running test before a stop
  alerted        \* history: has mutex_ ever been released around an alert?

settings == <<min_profit, alert_callback, order_books>>
tracking == <<next_id, active, history, stats, gone>>
reporting == <<at, opp, mine, late, alerted>>
monitorVars == <<running, settings, tracking, clock, calls, flushing, reporting>>


NoStats == [count |-> 0, profit |-> 0, max |-> 0, completed |-> 0, duration |-> 0]

MonitorInit ==
  /\ running = FALSE /\ min_profit = 0 /\ alert_callback = FALSE /\ order_books = {}
  /\ next_id = 1 /\ active = << >> /\ history = << >> /\ stats = NoStats
  /\ clock = 0 /\ calls = 0 /\ flushing = FALSE
  /\ at = [r \in Reporters |-> "idle"]
  /\ opp = [r \in Reporters |-> 0]
  /\ mine = [r \in Reporters |-> 0]
  /\ gone = {} /\ late = {} /\ alerted = FALSE

---------------------------------------------------------------------------
Call == calls < MaxCalls /\ calls' = calls + 1

add_order_book(sym) ==
  /\ Call
  /\ sym \notin order_books
  /\ order_books' = order_books \cup {sym}
  /\ UNCHANGED <<running, min_profit, alert_callback, tracking, clock, flushing, reporting>>

remove_order_book(sym) ==
  /\ Call
  /\ sym \in order_books
  /\ order_books' = order_books \ {sym}
  /\ UNCHANGED <<running, min_profit, alert_callback, tracking, clock, flushing, reporting>>

start_monitor ==
  /\ Call
  /\ ~running
  /\ running' = TRUE
  /\ UNCHANGED <<settings, tracking, clock, flushing, reporting>>

set_alert_callback(set) ==
  /\ Call
  /\ alert_callback' = set
  /\ UNCHANGED <<running, min_profit, order_books, tracking, clock, flushing, reporting>>

set_min_profit(min) ==
  /\ Call
  /\ min_profit' = min
  /\ UNCHANGED <<running, alert_callback, order_books, tracking, clock, flushing, reporting>>

MonitorTick ==
  /\ clock < MaxTime
  /\ clock' = clock + 1
  /\ UNCHANGED <<running, settings, calls, tracking, flushing, reporting>>

---------------------------------------------------------------------------
(* add_to_history: to the front, trimmed at the back. *)
add_to_history(h, arb) == SubSeq(<<arb>> \o h, 1, Min({HistorySize, Len(h) + 1}))

Expire(h, ids, time) ==
  FoldLeft(LAMBDA a, id : add_to_history(a, [active[id] EXCEPT !.expiry = time]),
           h, SetToSortSeq(ids, <))

KeepExpired(f, ids) == f   \* mutant: expired opportunities are not erased

Without(f, ids) == Restrict(f, DOMAIN f \ ids)

IdsIn(h) == {h[i].id : i \in DOMAIN h}

Dropped(ids) == gone' = gone \cup ((IdsIn(history) \cup ids) \ IdsIn(history'))

AgeSwapped(time, arb) == (arb.detected - time) % Wrap   \* mutant: operands swapped

(* Ages and durations are unsigned differences. *)
Age(time, arb) == (time - arb.detected) % Wrap

(* update_active_opportunities(time), with tracked already among acts. *)
ExpireOld(acts, time) == {id \in DOMAIN acts : Age(time, acts[id]) > Timeout}

update_active_opportunities(acts, st, time) ==
  LET old  == ExpireOld(acts, time)
      aged == [id \in old |-> [acts[id] EXCEPT !.expiry = time]]
  IN  /\ active' = Without(acts, old)
      /\ history' = FoldLeft(LAMBDA h, id : add_to_history(h, aged[id]), history,
                             SetToSortSeq(old, <))
      /\ stats' = [st EXCEPT !.completed = @ + Cardinality(old),
                             !.duration = @ + FoldFunction(+, 0,
                                                [id \in old |-> Age(time, acts[id])])]
      /\ Dropped(old)

---------------------------------------------------------------------------
(* on_arbitrage_detected, up to mutex_: the two tests are made without it. *)
Detect(r, sym, profit) ==
  /\ at[r] = "idle" /\ sym \in order_books
  /\ running /\ profit >= min_profit
  /\ at' = [at EXCEPT ![r] = "lock"]
  /\ opp' = [opp EXCEPT ![r] = profit]
  /\ UNCHANGED <<running, settings, calls, tracking, clock, flushing, mine, late, alerted>>

(* The critical section: track it, count it, and then either let go of the *)
(* mutex to alert or expire the old ones at once.                          *)
Track(r) ==
  LET arb  == [id |-> next_id, profit |-> opp[r], detected |-> clock, expiry |-> 0]
      acts == [id \in DOMAIN active \cup {next_id} |-> IF id = next_id THEN arb ELSE active[id]]
      st   == [stats EXCEPT !.count = @ + 1, !.profit = @ + opp[r], !.max = Max({@, opp[r]})]
  IN  /\ at[r] \in {"lock", "late"} /\ next_id <= MaxId
      /\ next_id' = next_id + 1
      /\ opp' = [opp EXCEPT ![r] = 0]
      /\ late' = IF at[r] = "late" THEN late \cup {next_id} ELSE late
      /\ \/ /\ alert_callback
            /\ active' = acts /\ stats' = st
            /\ mine' = [mine EXCEPT ![r] = arb.detected]
            /\ at' = [at EXCEPT ![r] = "alert"]
            /\ alerted' = TRUE
            /\ UNCHANGED <<history, gone>>
         \/ /\ ~alert_callback
            /\ update_active_opportunities(acts, st, arb.detected)
            /\ at' = [at EXCEPT ![r] = "idle"]
            /\ UNCHANGED <<mine, alerted>>
      /\ UNCHANGED <<running, settings, calls, clock, flushing>>

(* The callback is back: the mutex is taken again and the old ones expire, *)
(* by the time this thread's own opportunity was detected.                 *)
AfterAlert(r) ==
  /\ at[r] = "alert"
  /\ update_active_opportunities(active, stats, mine[r])
  /\ at' = [at EXCEPT ![r] = "idle"]
  /\ mine' = [mine EXCEPT ![r] = 0]
  /\ UNCHANGED <<running, settings, calls, next_id, clock, flushing, opp, late, alerted>>

StopFlagOnly ==   \* mutant: the active opportunities are not expired
  /\ Call
  /\ running /\ ~flushing
  /\ running' = FALSE
  /\ at' = [r \in Reporters |-> IF at[r] = "lock" THEN "late" ELSE at[r]]
  /\ UNCHANGED <<settings, tracking, clock, flushing, opp, mine, late, alerted>>

(* stop: the flag, then, under the mutex, everything active into history. *)
stop_monitor ==
  /\ Call
  /\ running /\ ~flushing
  /\ running' = FALSE /\ flushing' = TRUE
  /\ at' = [r \in Reporters |-> IF at[r] = "lock" THEN "late" ELSE at[r]]
  /\ UNCHANGED <<settings, tracking, clock, opp, mine, late, alerted>>

StopFlush ==
  /\ flushing
  /\ history' = Expire(history, DOMAIN active, clock)
  /\ active' = << >>
  /\ flushing' = FALSE
  /\ Dropped(DOMAIN active)
  /\ UNCHANGED <<running, settings, calls, next_id, stats, clock, reporting>>

clear_history ==
  /\ Call
  /\ history' = << >> /\ stats' = NoStats
  /\ gone' = gone \cup IdsIn(history)
  /\ UNCHANGED <<running, settings, next_id, active, clock, flushing, reporting>>

---------------------------------------------------------------------------
get_history(count) == SubSeq(history, 1, Min({count, Len(history)}))

(* Sorted by profit; equal profits come in any order. *)
get_active_opportunities ==
  {s \in SetToSeqs({active[id] : id \in DOMAIN active}) :
     \A i, j \in DOMAIN s : i < j => s[i].profit >= s[j].profit}

get_statistics ==
  [total |-> stats.count, active |-> Cardinality(DOMAIN active), max |-> stats.max,
   average |-> IF stats.count > 0 THEN <<stats.profit, stats.count>> ELSE <<0, 1>>,
   duration |-> IF stats.completed > 0 THEN <<stats.duration, stats.completed>> ELSE <<0, 1>>]

MonitorNext ==
  \/ \E sym \in BookNames : add_order_book(sym) \/ remove_order_book(sym)
  \/ start_monitor \/ stop_monitor \/ StopFlush \/ clear_history \/ MonitorTick
  \/ \E set \in BOOLEAN : set_alert_callback(set)
  \/ \E min \in {0, MinProfit} : set_min_profit(min)
  \/ \E r \in Reporters :
       \/ \E sym \in BookNames, profit \in Profits : Detect(r, sym, profit)
       \/ Track(r) \/ AfterAlert(r)

MonitorSpec == MonitorInit /\ [][MonitorNext]_monitorVars

---------------------------------------------------------------------------
(* Every opportunity that was given an id is in one place: active, in the   *)
(* history once, or dropped from a full or cleared history; the history     *)
(* never exceeds its size and holds only what has expired.                  *)
TrackedOnce ==
  /\ 1..(next_id - 1) = DOMAIN active \cup IdsIn(history) \cup gone
  /\ DOMAIN active \cap (IdsIn(history) \cup gone) = {} /\ IdsIn(history) \cap gone = {}
  /\ Cardinality(IdsIn(history)) = Len(history) /\ Len(history) <= HistorySize
  /\ \A id \in DOMAIN active : active[id].id = id /\ active[id].expiry = 0

(* Unless mutex_ was released around an alert, no age is taken the wrong    *)
(* way round: nothing expires before it was detected, the history has the   *)
(* most recently expired first, and the average duration is one that could  *)
(* have been measured.                                                      *)
AgesHonest ==
  ~alerted =>
    /\ \A i \in DOMAIN history : history[i].expiry >= history[i].detected
    /\ \A i, j \in DOMAIN history : i < j => history[i].expiry >= history[j].expiry
    /\ stats.duration <= MaxTime * stats.completed

(* While the monitor is stopped and stop has returned, an opportunity is    *)
(* active only if its detection had passed the running test before a stop.  *)
QuietWhenStopped ==
  ~running /\ ~flushing => DOMAIN active \subseteq late
=======================================================================
