------------------------------- MODULE Metrics -------------------------------
(* LockFreeHistogram (metrics_collector.hpp), which MetricsCollector keeps  *)
(* for its latencies: threads that record, one that asks for a percentile   *)
(* and one that resets. Every atomic access is a step; the accesses are     *)
(* sequentially consistent, as the build for x86 makes read-modify-writes.  *)
(* An octave has one bucket here, ten in the code.                          *)
EXTENDS Integers, FiniteSetsExt

CONSTANTS
  Recorders,     \* threads that call record, once each
  Latencies,     \* values recorded
  NumBuckets,    \* NUM_BUCKETS
  Percentiles,   \* percentiles asked for
  MaxValue       \* UINT64_MAX, the minimum of an empty histogram

ASSUME MetricsAssumption ==
  /\ NumBuckets \in Nat \ {0} /\ Latencies \subseteq Nat /\ MaxValue \in Nat
  /\ Percentiles \subseteq 0 .. 100

VARIABLES
  buckets, min_value, max_value, total_count, total_sum,
  rec,           \* recorder -> its place in record, value and the bound it loaded
  query,         \* the place in get_percentile, its locals and its answer
  clearing,      \* the store reset is at, 0 before and NumBuckets + 4 after
  since          \* history: buckets of the values recorded, in full, before total was read

metricsVars == <<buckets, min_value, max_value, total_count, total_sum, rec, query, clearing, since>>

BucketIds == 0 .. NumBuckets - 1

(* static_cast<size_t>(std::log2(value)) capped, and back. *)
value_to_bucket(v) ==
  IF v = 0 THEN 0
  ELSE LET log2 == CHOOSE b \in 0 .. v : 2 ^ b <= v /\ v < 2 ^ (b + 1)
       IN  IF log2 < NumBuckets THEN log2 ELSE NumBuckets - 1

bucket_to_value(b) == 2 ^ b

MetricsInit ==
  /\ buckets = [b \in BucketIds |-> 0]
  /\ min_value = MaxValue /\ max_value = 0 /\ total_count = 0 /\ total_sum = 0
  /\ rec = [r \in Recorders |-> [at |-> "bucket", value |-> 0, seen |-> 0]]
  /\ query = [at |-> "total", target |-> 0, cumulative |-> 0, next |-> 0, answer |-> 0, fell |-> FALSE]
  /\ clearing = 0 /\ since = [b \in BucketIds |-> 0]

---------------------------------------------------------------------------
Go(r, at) == rec' = [rec EXCEPT ![r].at = at]

(* record *)
add_to_bucket(r, v) ==
  /\ rec[r].at = "bucket"
  /\ buckets' = [buckets EXCEPT ![value_to_bucket(v)] = @ + 1]
  /\ rec' = [rec EXCEPT ![r].at = "minload", ![r].value = v]
  /\ UNCHANGED <<min_value, max_value, total_count, total_sum, query, clearing, since>>

load_bound(r) ==
  /\ \/ /\ rec[r].at = "minload"
        /\ rec' = [rec EXCEPT ![r].at = "min", ![r].seen = min_value]
     \/ /\ rec[r].at = "maxload"
        /\ rec' = [rec EXCEPT ![r].at = "max", ![r].seen = max_value]
  /\ UNCHANGED <<buckets, min_value, max_value, total_count, total_sum, query, clearing, since>>

(* A compare and exchange that fails loads the bound again. *)
update_min(r) ==
  /\ rec[r].at = "min"
  /\ IF rec[r].value >= rec[r].seen THEN Go(r, "maxload") /\ UNCHANGED min_value
     ELSE IF min_value = rec[r].seen THEN Go(r, "maxload") /\ min_value' = rec[r].value
     ELSE rec' = [rec EXCEPT ![r].seen = min_value] /\ UNCHANGED min_value
  /\ UNCHANGED <<buckets, max_value, total_count, total_sum, query, clearing, since>>

StoreMax(r) ==   \* mutant: the bound is stored, whatever it has become since it was loaded
  /\ rec[r].at = "max" /\ Go(r, "count")
  /\ max_value' = IF rec[r].value <= rec[r].seen THEN max_value ELSE rec[r].value
  /\ UNCHANGED <<buckets, min_value, total_count, total_sum, query, clearing, since>>

update_max(r) ==
  /\ rec[r].at = "max"
  /\ IF rec[r].value <= rec[r].seen THEN Go(r, "count") /\ UNCHANGED max_value
     ELSE IF max_value = rec[r].seen THEN Go(r, "count") /\ max_value' = rec[r].value
     ELSE rec' = [rec EXCEPT ![r].seen = max_value] /\ UNCHANGED max_value
  /\ UNCHANGED <<buckets, min_value, total_count, total_sum, query, clearing, since>>

add_to_totals(r) ==
  /\ \/ /\ rec[r].at = "count" /\ Go(r, "sum")
        /\ total_count' = total_count + 1 /\ UNCHANGED total_sum
     \/ /\ rec[r].at = "sum" /\ Go(r, "done")
        /\ total_sum' = total_sum + rec[r].value /\ UNCHANGED total_count
  /\ UNCHANGED <<buckets, min_value, max_value, query, clearing, since>>

---------------------------------------------------------------------------
(* get_percentile: the total, then the buckets from the lowest up. *)
read_total(percentile) ==
  /\ query.at = "total"
  /\ query' = IF total_count = 0 THEN [query EXCEPT !.at = "done"]
              ELSE [query EXCEPT !.at = "scan", !.target = (total_count * percentile) \div 100]
  /\ since' = [b \in BucketIds |-> Cardinality({r \in Recorders :
                  rec[r].at \in {"sum", "done"} /\ value_to_bucket(rec[r].value) = b})]
  /\ UNCHANGED <<buckets, min_value, max_value, total_count, total_sum, rec, clearing>>

scan_bucket ==
  LET cumulative == query.cumulative + buckets[query.next]
  IN  /\ query.at = "scan"
      /\ query' = IF cumulative >= query.target
                  THEN [query EXCEPT !.at = "done", !.cumulative = cumulative,
                                     !.answer = bucket_to_value(query.next)]
                  ELSE [query EXCEPT !.cumulative = cumulative, !.next = @ + 1,
                                     !.at = IF query.next + 1 < NumBuckets THEN "scan" ELSE "max"]
      /\ UNCHANGED <<buckets, min_value, max_value, total_count, total_sum, rec, clearing, since>>

(* No bucket reached the target. *)
fall_back ==
  /\ query.at = "max"
  /\ query' = [query EXCEPT !.at = "done", !.answer = max_value, !.fell = TRUE]
  /\ UNCHANGED <<buckets, min_value, max_value, total_count, total_sum, rec, clearing, since>>

get_min == IF min_value = MaxValue THEN 0 ELSE min_value

(* reset, store by store. *)
reset_histogram ==
  /\ clearing < NumBuckets + 4
  /\ clearing' = clearing + 1
  /\ buckets' = IF clearing < NumBuckets THEN [buckets EXCEPT ![clearing] = 0] ELSE buckets
  /\ min_value' = IF clearing = NumBuckets THEN MaxValue ELSE min_value
  /\ max_value' = IF clearing = NumBuckets + 1 THEN 0 ELSE max_value
  /\ total_count' = IF clearing = NumBuckets + 2 THEN 0 ELSE total_count
  /\ total_sum' = IF clearing = NumBuckets + 3 THEN 0 ELSE total_sum
  /\ UNCHANGED <<rec, query, since>>

MetricsNext ==
  \/ \E r \in Recorders, v \in Latencies : add_to_bucket(r, v)
  \/ \E r \in Recorders : load_bound(r) \/ update_min(r) \/ update_max(r) \/ add_to_totals(r)
  \/ \E p \in Percentiles : read_total(p)
  \/ scan_bucket \/ fall_back \/ reset_histogram

---------------------------------------------------------------------------
UpTo(f, b) == FoldSet(LAMBDA x, acc : acc + f[x], 0, 0 .. b)

(* Until a reset: a percentile is asked for while values are being          *)
(* recorded, and the scan always finds it, because a value is in its bucket *)
(* before it is in the total. From a target of 1 up it is the value of a    *)
(* bucket that holds a sample, between two moments' ranks: not above the    *)
(* rank among the values that were in the total when that was read, and not *)
(* below the rank among those that are in the buckets by now. When every    *)
(* record is over the minimum, the maximum, the count and the sum are those *)
(* of the values.                                                           *)
PercentileSound ==
  clearing = 0 =>
    /\ ~query.fell
    /\ query.at = "done" /\ query.target > 0 =>
         \E b \in BucketIds :
           /\ query.answer = bucket_to_value(b) /\ buckets[b] > 0
           /\ \A lower \in 0 .. b - 1 : UpTo(since, lower) < query.target
           /\ UpTo(buckets, b) >= query.target
    /\ (\A r \in Recorders : rec[r].at = "done") =>
         LET values == {rec[r].value : r \in Recorders} IN
           /\ get_min = Min(values) /\ max_value = Max(values)
           /\ total_count = Cardinality(Recorders) /\ UpTo(buckets, NumBuckets - 1) = total_count
           /\ total_sum = FoldSet(LAMBDA r, acc : acc + rec[r].value, 0, Recorders)
=============================================================================
