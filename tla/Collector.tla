------------------------------ MODULE Collector ------------------------------
(* MetricsCollector (metrics_collector.hpp): counters and gauges that any   *)
(* thread changes, a monitor that takes a summary and resets the counters,  *)
(* as the class's usage has it, and an owner that resets everything. Every  *)
(* access is atomic and one step. A double is kept as its bits, which is    *)
(* the same value again. The histograms are those of Metrics.tla; their     *)
(* percentiles are left out of the summary.                                 *)
EXTENDS Metrics, Sequences

CONSTANTS
  GaugeValues,   \* what the gauges are set to, 0 at first
  MaxEvents      \* bound: increments and gauges set

ASSUME CollectorAssumption == GaugeValues \subseteq Nat /\ MaxEvents \in Nat

VARIABLES
  counter,       \* updates_per_second_, snapshots_generated_
  gauge,         \* the total volumes, spread_, mid_price_, book_imbalance_
  monitor,       \* [at, summary]: the next field or store of the monitor, and its summary
  erasing,       \* stores that reset, which is called once, has made
  events,        \* increments and gauges set so far
  made, reported,    \* history: updates made, and updates that summaries reported
  missed,        \* history: updates that came between a summary's look at the counter and
                 \* its reset, or that reset wiped out before a summary reported them
  shown          \* history: gauge -> its values since the summary was begun

collectorVars == <<counter, gauge, monitor, erasing, events, made, reported, missed, shown>>

Gauges == {"total_bid_volume", "total_ask_volume", "spread", "mid_price", "book_imbalance"}

(* The fields of Summary that get_summary loads, in its order.              *)
Fields == <<"messages_per_second", "spread", "mid_price", "book_imbalance">>
NoSummary == [f \in {Fields[i] : i \in 1 .. 4} |-> 0]

CollectorInit ==
  /\ counter = [updates |-> 0, snapshots |-> 0]
  /\ gauge = [g \in Gauges |-> 0]
  /\ monitor = [at |-> 1, summary |-> NoSummary] /\ erasing = 0 /\ events = 0
  /\ made = 0 /\ reported = 0 /\ missed = 0
  /\ shown = [g \in Gauges |-> {0}]

---------------------------------------------------------------------------
(* The monitor has read the updates and not yet reset them.                 *)
Unreported == monitor.at \in 2 .. 5

Event == events < MaxEvents /\ events' = events + 1

increment_updates ==
  /\ Event
  /\ counter' = [counter EXCEPT !.updates = @ + 1]
  /\ made' = made + 1
  /\ missed' = IF Unreported THEN missed + 1 ELSE missed
  /\ UNCHANGED <<gauge, monitor, erasing, reported, shown>>

increment_snapshots ==
  /\ Event
  /\ counter' = [counter EXCEPT !.snapshots = @ + 1]
  /\ UNCHANGED <<gauge, monitor, erasing, made, reported, missed, shown>>

SetGauge(g, v) ==
  /\ Event
  /\ gauge' = [gauge EXCEPT ![g] = v]
  /\ shown' = [shown EXCEPT ![g] = @ \union {v}]
  /\ UNCHANGED <<counter, monitor, erasing, made, reported, missed>>

set_total_volumes(v) == SetGauge("total_bid_volume", v) \/ SetGauge("total_ask_volume", v)

set_spread(v) == SetGauge("spread", v)

set_mid_price(v) == SetGauge("mid_price", v)

set_book_imbalance(v) == SetGauge("book_imbalance", v)

---------------------------------------------------------------------------
(* get_summary, load by load, the counter first.                            *)
LoadUpdates ==
  /\ monitor.at = 1
  /\ monitor' = [at |-> 2, summary |-> [NoSummary EXCEPT !.messages_per_second = counter.updates]]
  /\ reported' = reported + counter.updates
  /\ shown' = [g \in Gauges |-> {gauge[g]}]
  /\ UNCHANGED <<counter, gauge, erasing, events, made, missed>>

LoadGauge ==
  /\ monitor.at \in 2 .. 4
  /\ monitor' = [monitor EXCEPT !.at = @ + 1, !.summary[Fields[monitor.at]] = gauge[Fields[monitor.at]]]
  /\ UNCHANGED <<counter, gauge, erasing, events, made, reported, missed, shown>>

get_summary == LoadUpdates \/ LoadGauge

(* reset_counters: one store per counter.                                   *)
reset_counters ==
  /\ monitor.at \in {5, 6}
  /\ counter' = IF monitor.at = 5 THEN [counter EXCEPT !.updates = 0] ELSE [counter EXCEPT !.snapshots = 0]
  /\ monitor' = [monitor EXCEPT !.at = IF @ = 5 THEN 6 ELSE 1]
  /\ UNCHANGED <<gauge, erasing, events, made, reported, missed, shown>>

(* reset, after the histograms: the counters and the gauges, store by store. *)
Erased == <<"updates", "snapshots", "total_bid_volume", "total_ask_volume", "spread", "mid_price",
            "book_imbalance">>

reset_collector ==
  LET f == Erased[erasing + 1]
  IN  /\ erasing < Len(Erased)
      /\ erasing' = erasing + 1
      /\ counter' = IF f \in DOMAIN counter THEN [counter EXCEPT ![f] = 0] ELSE counter
      /\ gauge' = IF f \in Gauges THEN [gauge EXCEPT ![f] = 0] ELSE gauge
      /\ shown' = IF f \in Gauges THEN [shown EXCEPT ![f] = @ \union {0}] ELSE shown
      /\ missed' = IF f = "updates" /\ ~Unreported THEN missed + counter.updates ELSE missed
      /\ UNCHANGED <<monitor, events, made, reported>>

CollectorNext ==
  \/ increment_updates \/ increment_snapshots
  \/ \E v \in GaugeValues : \/ set_total_volumes(v) \/ set_spread(v)
                            \/ set_mid_price(v) \/ set_book_imbalance(v)
  \/ get_summary \/ reset_counters \/ reset_collector

CollectorSpec == CollectorInit /\ [][CollectorNext]_collectorVars

---------------------------------------------------------------------------
(* The monitor tells of an update in one summary at most. It misses exactly *)
(* those that come between its look at the counter and its reset, or that   *)
(* reset wipes out, and every gauge in a summary had that value during the  *)
(* call.                                                                    *)
SummarySound ==
  /\ made = reported + missed + (IF Unreported THEN 0 ELSE counter.updates)
  /\ monitor.at = 5 => \A i \in 2 .. 4 : monitor.summary[Fields[i]] \in shown[Fields[i]]

(* The histograms and the collector around them.                            *)
MetricsSound == PercentileSound /\ SummarySound
=============================================================================
