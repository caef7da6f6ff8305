--------------------------- MODULE PriceIndexMap ---------------------------
(***************************************************************************)
(* The price-to-slot hash table of an order book side (class PriceIndexMap *)
(* in include/core/order_book.hpp).  Open addressing with linear probing   *)
(* over TableSize entries; an entry is a price and the index of the level  *)
(* that holds it.  Price 0 marks an empty entry.                           *)
(*                                                                         *)
(* The operations are pure operators on a table value, so that an order    *)
(* book can keep one table per side.                                       *)
(***************************************************************************)
EXTENDS Naturals, FiniteSetsExt

CONSTANTS
  TableSize,   \* number of entries, a power of two (4096 in the code)
  SIZE_MAX     \* the "no index" marker

(* The code masks with TableSize - 1, so TableSize must be a power of two; *)
(* the hash below is exact for every power of two up to 4096.              *)
ASSUME TableAssumption ==
  /\ TableSize \in {2, 4, 8, 16, 32, 64, 128, 256, 512, 1024, 2048, 4096}
  /\ SIZE_MAX \notin Nat

Buckets == 0 .. TableSize - 1

(* An entry that was never used, or was removed.                           *)
EmptyEntry == [price |-> 0, index |-> SIZE_MAX]

(* (price * 0x9E3779B97F4A7C15) & (TABLE_SIZE - 1).  Only the low bits of  *)
(* the 64-bit product survive the mask, and 0x9E3779B97F4A7C15 is 3093     *)
(* modulo 4096.                                                            *)
hash(price) == (price * 3093) % TableSize

(* The bucket inspected at the attempt-th step of a probe for price.       *)
Probe(price, attempt) == (hash(price) + attempt) % TableSize

(* The attempts at which a probe for price can stop: an entry with this    *)
(* price, or an empty one.                                                 *)
Stops(table, price) ==
  {a \in Buckets : table[Probe(price, a)].price \in {0, price}}

(* The bucket at which a probe for price stops, when it stops at all.      *)
StopBucket(table, price) == Probe(price, Min(Stops(table, price)))

(* find: the index stored for the price, SIZE_MAX when the probe meets an  *)
(* empty entry first or wraps around a full table.                         *)
find(table, price) ==
  IF Stops(table, price) = {} \/ table[StopBucket(table, price)].price # price
  THEN SIZE_MAX
  ELSE table[StopBucket(table, price)].index

(* insert: the first entry that is empty or already has the price.  A full *)
(* table is left as it is (insert returns false).                          *)
insert(table, price, index) ==
  IF Stops(table, price) = {}
  THEN table
  ELSE [table EXCEPT ![StopBucket(table, price)] =
                       [price |-> price, index |-> index]]

\* remove: the entry of the price becomes EMPTY, price included, so a probe
\* for a price stored further along the chain now stops here.
remove(table, price) ==
  IF Stops(table, price) = {} \/ table[StopBucket(table, price)].price # price
  THEN table
  ELSE [table EXCEPT ![StopBucket(table, price)] = EmptyEntry]

(* clear, and the constructor.                                             *)
EmptyTable == [b \in Buckets |-> EmptyEntry]

=============================================================================
