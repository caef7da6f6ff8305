------------------------------ MODULE Analytics ------------------------------
(* MarketAnalytics (market_analytics.cpp): four windows, each behind a      *)
(* mutex of its own, that threads feed with order books and trades.         *)
(* Doubles are integers here, averages are compared without the division,   *)
(* and the four windows have one length.                                    *)
EXTENDS Integers, SequencesExt

CONSTANTS
  Feeders,       \* threads that run on_orderbook_update
  Snapshots,     \* order books: [bids, asks: volume of the side (0: empty), bid, ask: best price]
  Deals,         \* what trades are of: [price, volume], a volume of 0 included
  Window,        \* window_ns_
  Modulus,       \* 2^64: uint64_t differences are taken modulo it
  LastTime,      \* bound: the clock
  MaxInputs      \* bound: trades, order books and resets

ASSUME AnalyticsAssumption ==
  /\ {Window, Modulus, LastTime, MaxInputs} \subseteq Nat
  /\ Window <= LastTime /\ LastTime < Modulus

VARIABLES
  time,          \* get_timestamp_ns; it starts late enough for a whole window
  trades, vwap,  \* VWAPCalculator: trades_; cumulative price * volume and volume
  samples, last_timestamp,   \* TWAPCalculator
  flows, volumes,            \* OrderFlowImbalance: flows_, cumulative volumes
  spreads,       \* SpreadAnalyzer: samples_
  feed,          \* feeder -> place in on_orderbook_update, its book and timestamp
  resetting,     \* place of reset in the four calculators, 0 for none
  inputs,        \* calls made
  fed            \* history: trades since the last reset

analyticsVars == <<time, trades, vwap, samples, last_timestamp, flows, volumes, spreads,
                   feed, resetting, inputs, fed>>

Idle == [at |-> "idle", book |-> CHOOSE s \in Snapshots : TRUE, ts |-> 0]

AnalyticsInit ==
  /\ time = Window
  /\ trades = << >> /\ vwap = [pv |-> 0, volume |-> 0]
  /\ samples = << >> /\ last_timestamp = 0
  /\ flows = << >> /\ volumes = [bid |-> 0, ask |-> 0]
  /\ spreads = << >>
  /\ feed = [f \in Feeders |-> Idle] /\ resetting = 0 /\ inputs = 0
  /\ fed = << >>

---------------------------------------------------------------------------
(* How many entries at the front are older than the cutoff, an unsigned     *)
(* difference.                                                              *)
Expired(q, now) ==
  LET cutoff == (now - Window) % Modulus
      alive == {i \in DOMAIN q : q[i].ts >= cutoff}
  IN  IF alive = {} THEN Len(q) ELSE Min(alive) - 1

remove_expired(q, now) == SubSeq(q, Expired(q, now) + 1, Len(q))

Sum(Value(_), q) == FoldLeft(LAMBDA acc, x : acc + Value(x), 0, q)

Volume(t) == t.volume
PriceVolume(t) == t.price * t.volume
BidVolume(f) == f.bid
AskVolume(f) == f.ask

KeepVolume(q, now) ==   \* mutant: the volume of a dropped trade stays
  LET dropped == SubSeq(q, 1, Expired(q, now))
  IN  [pv |-> vwap.pv - Sum(PriceVolume, dropped), volume |-> vwap.volume]

(* The cumulative values after the expired trades were taken off. *)
TradesLeft(q, now) ==
  LET dropped == SubSeq(q, 1, Expired(q, now))
  IN  [pv |-> vwap.pv - Sum(PriceVolume, dropped), volume |-> vwap.volume - Sum(Volume, dropped)]

(* on_trade, which is VWAPCalculator::update. *)
on_trade(price, volume, ts) ==
  LET left == TradesLeft(trades, ts)
      trade == [price |-> price, volume |-> volume, ts |-> ts]
  IN  /\ inputs < MaxInputs /\ inputs' = inputs + 1
      /\ trades' = Append(remove_expired(trades, ts), trade)
      /\ vwap' = [pv |-> left.pv + price * volume, volume |-> left.volume + volume]
      /\ fed' = Append(fed, trade)
      /\ UNCHANGED <<time, samples, last_timestamp, flows, volumes, spreads, feed, resetting>>

---------------------------------------------------------------------------
(* on_orderbook_update: the clock is read first, then each calculator is    *)
(* updated behind its own mutex.                                            *)
on_orderbook_update(f) ==
  /\ feed[f].at = "idle" /\ inputs < MaxInputs
  /\ \E s \in Snapshots : feed' = [feed EXCEPT ![f] = [at |-> "imbalance", book |-> s, ts |-> time]]
  /\ inputs' = inputs + 1
  /\ UNCHANGED <<time, trades, vwap, samples, last_timestamp, flows, volumes, spreads, resetting,
                 fed>>

(* OrderFlowImbalance::update reads the clock itself. *)
update_imbalance(f) ==
  LET s == feed[f].book
      gone == SubSeq(flows, 1, Expired(flows, time))
  IN  /\ feed[f].at = "imbalance"
      /\ flows' = Append(remove_expired(flows, time), [bid |-> s.bids, ask |-> s.asks, ts |-> time])
      /\ volumes' = [bid |-> volumes.bid - Sum(BidVolume, gone) + s.bids,
                     ask |-> volumes.ask - Sum(AskVolume, gone) + s.asks]
      /\ feed' = [feed EXCEPT ![f].at = IF s.bids > 0 /\ s.asks > 0 THEN "twap" ELSE "idle"]
      /\ UNCHANGED <<time, trades, vwap, samples, last_timestamp, spreads, resetting, inputs, fed>>

(* The sample before gets its duration, an unsigned difference. *)
Lasting(q, now) ==
  IF q # << >> /\ last_timestamp > 0
  THEN [q EXCEPT ![Len(q)].duration = (now - last_timestamp) % Modulus] ELSE q

update_twap(f) ==
  LET s == feed[f].book
      ts == feed[f].ts
  IN  /\ feed[f].at = "twap"
      /\ samples' = Append(Lasting(remove_expired(samples, ts), ts),
                           [price |-> (s.bid + s.ask) \div 2, ts |-> ts, duration |-> 0])
      /\ last_timestamp' = ts
      /\ feed' = [feed EXCEPT ![f].at = "spread"]
      /\ UNCHANGED <<time, trades, vwap, flows, volumes, spreads, resetting, inputs, fed>>

update_spread(f) ==
  LET s == feed[f].book
      ts == feed[f].ts
  IN  /\ feed[f].at = "spread"
      /\ spreads' = Append(remove_expired(spreads, ts), [spread |-> s.ask - s.bid, ts |-> ts])
      /\ feed' = [feed EXCEPT ![f] = Idle]
      /\ UNCHANGED <<time, trades, vwap, samples, last_timestamp, flows, volumes, resetting, inputs,
                     fed>>

---------------------------------------------------------------------------
(* MarketAnalytics::reset, by a thread of its own. *)
reset_vwap ==
  /\ resetting = 0
  /\ trades' = << >> /\ vwap' = [pv |-> 0, volume |-> 0] /\ fed' = << >>
  /\ resetting' = 1
  /\ inputs < MaxInputs /\ inputs' = inputs + 1
  /\ UNCHANGED <<time, samples, last_timestamp, flows, volumes, spreads, feed>>

reset_twap ==
  /\ resetting = 1
  /\ samples' = << >> /\ last_timestamp' = 0
  /\ resetting' = 2
  /\ UNCHANGED <<time, trades, vwap, flows, volumes, spreads, feed, inputs, fed>>

reset_imbalance ==
  /\ resetting = 2
  /\ flows' = << >> /\ volumes' = [bid |-> 0, ask |-> 0]
  /\ resetting' = 3
  /\ UNCHANGED <<time, trades, vwap, samples, last_timestamp, spreads, feed, inputs, fed>>

reset_spread ==
  /\ resetting = 3
  /\ spreads' = << >>
  /\ resetting' = 0
  /\ UNCHANGED <<time, trades, vwap, samples, last_timestamp, flows, volumes, feed, inputs, fed>>

reset == reset_vwap \/ reset_twap \/ reset_imbalance \/ reset_spread

TimePasses ==
  /\ time < LastTime
  /\ time' = time + 1
  /\ UNCHANGED <<trades, vwap, samples, last_timestamp, flows, volumes, spreads, feed, resetting,
                 inputs, fed>>

(* The timestamp of a trade is its caller's. *)
AnalyticsNext ==
  \/ \E d \in Deals, ts \in 0 .. time : on_trade(d.price, d.volume, ts)
  \/ \E f \in Feeders : on_orderbook_update(f) \/ update_imbalance(f) \/ update_twap(f) \/ update_spread(f)
  \/ reset \/ TimePasses

---------------------------------------------------------------------------
(* The getters; an average is its numerator and its denominator. *)
get_vwap == IF vwap.volume = 0 THEN <<0, 1>> ELSE <<vwap.pv, vwap.volume>>

get_total_volume == vwap.volume

get_bid_volume == volumes.bid

get_ask_volume == volumes.ask

get_twap ==
  LET Weighted(s) == s.price * s.duration
      Duration(s) == s.duration
      total == Sum(Duration, samples) % Modulus
  IN  IF samples = << >> THEN <<0, 1>>
      ELSE IF total = 0 THEN <<samples[Len(samples)].price, 1>>
      ELSE <<Sum(Weighted, samples), total>>

get_imbalance ==
  LET total == volumes.bid + volumes.ask
  IN  IF total = 0 THEN <<0, 1>> ELSE <<volumes.bid - volumes.ask, total>>

calculate_stats ==
  LET all == {spreads[i].spread : i \in DOMAIN spreads}
      Spread(s) == s.spread
  IN  [current |-> spreads[Len(spreads)].spread, min |-> Min(all), max |-> Max(all),
       average |-> <<Sum(Spread, spreads), Len(spreads)>>]

Between(avg, lo, hi) == lo * avg[2] <= avg[1] /\ avg[1] <= hi * avg[2]

PricesOf(q) == {q[i].price : i \in DOMAIN q}

InOrder(q) == \A i \in 2 .. Len(q) : q[i - 1].ts <= q[i].ts

(* The trades the window holds after the last one, by their timestamps. *)
Recent == SelectSeq(fed, LAMBDA t : t.ts >= fed[Len(fed)].ts - Window)

(* The average of the prices between the first and the last sample, each    *)
(* weighted by the time until the next one; the last one has no weight yet. *)
TimeAverage(q) ==
  LET steps == [i \in 1 .. Len(q) - 1 |-> q[i].price * (q[i + 1].ts - q[i].ts)]
  IN  <<FoldLeft(+, 0, steps), q[Len(q)].ts - q[1].ts>>

(* What the analytics answer is about the window they promise. VWAP, when   *)
(* the trades came in order of time and late enough for the cutoff not to   *)
(* wrap, is the volume-weighted average of exactly the trades of the window *)
(* before the last one, and 0 when they have no volume; in whatever order   *)
(* they came it lies within the prices of the kept trades that have a       *)
(* volume, as a trade of none is ignored. The running totals, of VWAP and   *)
(* of the order flow, are those of the entries still kept. TWAP, when the   *)
(* samples kept are in order of time, is the average over the time between  *)
(* the first and the last of them, and the last price when that is no time; *)
(* imbalance lies in [-1, 1].                                               *)
AnalyticsSound ==
  /\ get_total_volume = Sum(Volume, trades) /\ vwap.pv = Sum(PriceVolume, trades)
  /\ get_bid_volume = Sum(BidVolume, flows) /\ get_ask_volume = Sum(AskVolume, flows)
  /\ LET traded == SelectSeq(trades, LAMBDA t : t.volume > 0)
     IN  IF traded = << >> THEN get_vwap = <<0, 1>>
         ELSE Between(get_vwap, Min(PricesOf(traded)), Max(PricesOf(traded)))
  /\ fed # << >> /\ InOrder(fed) /\ fed[1].ts >= Window =>
       LET volume == Sum(Volume, Recent)
       IN  get_vwap = IF volume = 0 THEN <<0, 1>> ELSE <<Sum(PriceVolume, Recent), volume>>
  /\ samples # << >> /\ InOrder(samples) =>
       get_twap = IF TimeAverage(samples)[2] = 0 THEN <<samples[Len(samples)].price, 1>>
                  ELSE TimeAverage(samples)
  /\ Between(get_imbalance, -1, 1)
  /\ spreads # << >> => LET st == calculate_stats IN Between(st.average, st.min, st.max)
=============================================================================
