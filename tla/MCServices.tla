----------------------------- MODULE MCServices -----------------------------
(* The services around the books for TLC: two aggregated books, the         *)
(* arbitrage monitor, the analytics, the metrics and the configuration.     *)
(* They share nothing here, so that their state spaces are put side by side:*)
(* a behaviour is one of one service, chosen at the start.                  *)
EXTENDS AggregatedBook, LevelList, ArbitrageMonitor, Analytics, Collector, Configuration

VARIABLE part

Services == {"book", "list", "monitor", "analytics", "metrics", "collector", "configuration"}

MCSnapshots ==
  { [bids |-> 1, asks |-> 2, bid |-> 1, ask |-> 3],
    [bids |-> 2, asks |-> 1, bid |-> 4, ask |-> 4],
    [bids |-> 0, asks |-> 1, bid |-> 0, ask |-> 3] }

MCDeals == {[price |-> 1, volume |-> 2], [price |-> 2, volume |-> 1], [price |-> 3, volume |-> 0]}

(* Threads of a kind differ in their names only.                            *)
Interchangeable == Permutations(Feeders) \cup Permutations(Recorders)

Off == [enabled |-> FALSE, url |-> "set", symbols |-> {"ETH"}]

(* No variable, one with an address, and one that refers to another, which  *)
(* is empty.                                                                *)
MCEnvironments ==
  LET URL(value) == "${URL}" :> value
      HOST(value) == "${HOST}" :> value
  IN  {<< >>, URL("wss"), URL("${HOST}") @@ HOST("")}

(* Documents that change some sections, give some keys only, have a list    *)
(* that is none in the last exchange or in performance, or do not parse.    *)
MCDocuments ==
  { [binance |-> Off, kraken |-> [symbols |-> {"no list"}]],
    [coinbase |-> [enabled |-> TRUE, url |-> "${URL}", rate_limit |-> 0],
     server |-> [max_connections |-> 5, rest_port |-> 0]],
    [server |-> [websocket_port |-> 8081], performance |-> [cpu_pinning |-> TRUE, cpu_cores |-> {"no list"}]],
    [kraken |-> Off, performance |-> [cpu_cores |-> {"core 2"}, huge_pages |-> TRUE],
     logging |-> [level |-> "debug", pattern |-> "short"],
     recording |-> [enabled |-> TRUE], arbitrage |-> [enabled |-> FALSE]],
    [garbled |-> TRUE, binance |-> Off] }

Init ==
  /\ part \in Services
  /\ BookInit /\ ListInit /\ MonitorInit /\ AnalyticsInit /\ MetricsInit /\ CollectorInit /\ ConfigInit
  /\ part # "configuration" => environment = << >>

Next ==
  /\ UNCHANGED part
  /\ \/ /\ part = "book" /\ BookNext
        /\ UNCHANGED <<listVars, monitorVars, analyticsVars, metricsVars, collectorVars, configVars>>
     \/ /\ part = "list" /\ ListNext
        /\ UNCHANGED <<bookVars, monitorVars, analyticsVars, metricsVars, collectorVars, configVars>>
     \/ /\ part = "monitor" /\ MonitorNext
        /\ UNCHANGED <<bookVars, listVars, analyticsVars, metricsVars, collectorVars, configVars>>
     \/ /\ part = "analytics" /\ AnalyticsNext
        /\ UNCHANGED <<bookVars, listVars, monitorVars, metricsVars, collectorVars, configVars>>
     \/ /\ part = "metrics" /\ MetricsNext
        /\ UNCHANGED <<bookVars, listVars, monitorVars, analyticsVars, collectorVars, configVars>>
     \/ /\ part = "collector" /\ CollectorNext
        /\ UNCHANGED <<bookVars, listVars, monitorVars, analyticsVars, metricsVars, configVars>>
     \/ /\ part = "configuration" /\ ConfigNext
        /\ UNCHANGED <<bookVars, listVars, monitorVars, analyticsVars, metricsVars, collectorVars>>

Spec == Init /\ [][Next]_<<bookVars, listVars, monitorVars, analyticsVars, metricsVars, collectorVars,
                         configVars, part>>
=============================================================================
