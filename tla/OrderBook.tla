----------------------------- MODULE OrderBook -----------------------------
(***************************************************************************)
(* OrderBook<MAX_LEVELS> (include/core/order_book.hpp) with the SeqLock    *)
(* (include/utils/seq_lock.hpp) that its writers and snapshot readers      *)
(* share.  Each side is an unordered array of MaxLevels slots, a           *)
(* PriceIndexMap from prices to slots and a cached index of its best slot. *)
(*                                                                         *)
(* One action is one atomic access to the state the threads share.  The    *)
(* stores and loads of a level are release/acquire, and so are those of    *)
(* the sequence: a reader that sees a store of a level sees the increment  *)
(* that precedes it, so interleaving the accesses loses no outcome.        *)
(* The price maps are read and written by writers only; each call of       *)
(* find, insert and remove is one step.                                    *)
(***************************************************************************)
EXTENDS Naturals, FiniteSets, PriceIndexMap

CONSTANTS
  Writers,     \* threads that call update_bid, update_ask and clear
  Readers,     \* threads that call get_snapshot, get_spread, get_mid_price
  Updates,     \* the updates writers may send: [side, price, quantity],
               \* price and quantity as doubles in units of 1/SubUnits of a
               \* fixed-point unit
  SubUnits,    \* resolution of the doubles below one fixed-point unit
  MaxLevels,   \* MAX_LEVELS
  Depth,       \* the depth argument of get_snapshot
  Clearing,    \* whether writers also call clear
  MaxOps       \* bound on the number of write operations

Sides == {"BID", "ASK"}
Slots == 0 .. MaxLevels - 1

ASSUME BookAssumption ==
  /\ SubUnits \in Nat \ {0} /\ MaxLevels \in Nat \ {0}
  /\ Depth \in Nat /\ MaxOps \in Nat
  /\ Clearing \in BOOLEAN
  /\ Updates \subseteq [side : Sides, price : Nat, quantity : Nat]

VARIABLES
  level,       \* level[side][slot] = [price, quantity]; price 0 is free
  map,         \* map[side]: the PriceIndexMap
  best,        \* best[side]: best_bid_idx_, best_ask_idx_
  seq,         \* SeqLock::sequence_
  seqno,       \* sequence_number_
  wr,          \* wr[w]: program counter and locals of writer w
  rd,          \* rd[r]: program counter and locals of reader r
  view,        \* view[r]: the snapshot last returned to r
  quote,       \* quote[r]: the prices behind r's last spread or mid price
  committed    \* history: book and sequence number when the last
               \* write operation released the lock

bookVars == <<level, map, best, seqno>>
vars == <<bookVars, seq, wr, rd, view, quote, committed>>

-----------------------------------------------------------------------------
(* double_to_fixed: scales and truncates.                                  *)
double_to_fixed(x) == x \div SubUnits

FixedPrices == {double_to_fixed(u.price) : u \in Updates}
FixedQuantities == {double_to_fixed(u.quantity) : u \in Updates} \union {0}

(* find_free_slot: the first slot whose price is 0.                        *)
find_free_slot(levels) ==
  LET free == {i \in Slots : levels[i].price = 0}
  IN  IF free = {} THEN SIZE_MAX ELSE Min(free)

(* a ranks before b on the given side: highest bid, lowest ask.            *)
Better(side, a, b) == IF side = "BID" THEN a > b ELSE a < b

Occupied(levels) == {i \in Slots : levels[i].price > 0}

(* update_best_level, the scan: the first of the slots with the best price.*)
BestSlot(side, levels) ==
  LET top == {i \in Occupied(levels) : \A j \in Occupied(levels) :
                ~Better(side, levels[j].price, levels[i].price)}
  IN  IF top = {} THEN SIZE_MAX ELSE Min(top)

(* The map from prices to quantities that the slots of one side hold.      *)
BookOf(levels) ==
  [p \in FixedPrices |->
     IF \E i \in Slots : levels[i].price = p
     THEN levels[CHOOSE i \in Slots : levels[i].price = p].quantity
     ELSE 0]

(* The entries that sorting by price and trimming to Depth can leave;      *)
(* std::sort may order entries of equal price either way.                  *)
Trimmed(side, entries) ==
  {kept \in SUBSET entries :
     /\ Cardinality(kept) = Min({Depth, Cardinality(entries)})
     /\ \A e \in kept, f \in entries \ kept : ~Better(side, f.price, e.price)}

IdleWriter == [pc |-> "idle", side |-> "BID", price |-> 0, quantity |-> 0,
               idx |-> SIZE_MAX, clr |-> 0]
EmptySnapshot == [BID |-> {}, ASK |-> {}, sequence_number |-> 0]
IdleReader == [pc |-> "idle", seq |-> 0, side |-> "BID", i |-> 0, todo |-> {},
               slot |-> SIZE_MAX, price |-> 0, snap |-> EmptySnapshot]
NoQuote == [bid |-> 0, ask |-> 0, empty |-> TRUE]

Init ==
  /\ level = [s \in Sides |-> [i \in Slots |-> [price |-> 0, quantity |-> 0]]]
  /\ map = [s \in Sides |-> EmptyTable]
  /\ best = [s \in Sides |-> SIZE_MAX]
  /\ seq = 0
  /\ seqno = 0
  /\ wr = [w \in Writers |-> IdleWriter]
  /\ rd = [r \in Readers |-> IdleReader]
  /\ view = [r \in Readers |-> EmptySnapshot]
  /\ quote = [r \in Readers |-> NoQuote]
  /\ committed = [book |-> [s \in Sides |-> [p \in FixedPrices |-> 0]],
                  seqno |-> 0]

-----------------------------------------------------------------------------
(* SeqLock::write_lock is an unconditional increment: a writer never waits *)
(* for another one.  The bound on operations is the model's.               *)
write_lock == seq < 2 * MaxOps /\ seq' = seq + 1

GoTo(w, pc) == wr' = [wr EXCEPT ![w].pc = pc]

(* update_level: the conversions to fixed point and the WriteGuard.        *)
BeginUpdate(w, u) ==
  /\ wr[w].pc = "idle"
  /\ write_lock
  /\ wr' = [wr EXCEPT ![w] = [IdleWriter EXCEPT
              !.pc = "find", !.side = u.side,
              !.price = double_to_fixed(u.price),
              !.quantity = double_to_fixed(u.quantity)]]
  /\ UNCHANGED <<bookVars, committed>>

(* Mutant: the result of find_free_slot is not checked.                    *)
FindLevelUnchecked(w) ==
  LET existing == find(map[wr[w].side], wr[w].price)
      free == find_free_slot(level[wr[w].side])
  IN  /\ wr[w].pc = "find"
      /\ \/ /\ existing # SIZE_MAX
            /\ wr' = [wr EXCEPT ![w].idx = existing, ![w].pc = "price"]
         \/ /\ existing = SIZE_MAX
            /\ wr' = [wr EXCEPT ![w].idx = free, ![w].pc = "insert"]
      /\ UNCHANGED <<bookVars, seq, committed>>

(* Mutant: the early return of a failed update leaves the lock held.       *)
FindLevelKeepsLock(w) ==
  LET existing == find(map[wr[w].side], wr[w].price)
      free == find_free_slot(level[wr[w].side])
  IN  /\ wr[w].pc = "find"
      /\ \/ /\ existing # SIZE_MAX
            /\ wr' = [wr EXCEPT ![w].idx = existing, ![w].pc = "price"]
         \/ /\ existing = SIZE_MAX /\ free # SIZE_MAX
            /\ wr' = [wr EXCEPT ![w].idx = free, ![w].pc = "insert"]
         \/ /\ existing = SIZE_MAX /\ free = SIZE_MAX
            /\ GoTo(w, "idle")
      /\ UNCHANGED <<bookVars, seq, committed>>

(* The level that has the price, else a free slot, else the update fails.  *)
FindLevel(w) ==
  LET existing == find(map[wr[w].side], wr[w].price)
      free == find_free_slot(level[wr[w].side])
  IN  /\ wr[w].pc = "find"
      /\ \/ /\ existing # SIZE_MAX
            /\ wr' = [wr EXCEPT ![w].idx = existing, ![w].pc = "price"]
         \/ /\ existing = SIZE_MAX /\ free # SIZE_MAX
            /\ wr' = [wr EXCEPT ![w].idx = free, ![w].pc = "insert"]
         \/ /\ existing = SIZE_MAX /\ free = SIZE_MAX
            /\ GoTo(w, "unlock")
      /\ UNCHANGED <<bookVars, seq, committed>>

MapInsert(w) ==
  /\ wr[w].pc = "insert"
  /\ map' = [map EXCEPT ![wr[w].side] = insert(@, wr[w].price, wr[w].idx)]
  /\ GoTo(w, "price")
  /\ UNCHANGED <<level, best, seqno, seq, committed>>

StorePrice(w) ==
  /\ wr[w].pc = "price"
  /\ level' = [level EXCEPT ![wr[w].side][wr[w].idx].price = wr[w].price]
  /\ GoTo(w, "quantity")
  /\ UNCHANGED <<map, best, seqno, seq, committed>>

(* Quantity; order_count and timestamp are stored in the same way.         *)
StoreQuantity(w) ==
  /\ wr[w].pc = "quantity"
  /\ level' = [level EXCEPT ![wr[w].side][wr[w].idx].quantity = wr[w].quantity]
  /\ GoTo(w, IF wr[w].quantity = 0 THEN "unmap" ELSE "best")
  /\ UNCHANGED <<map, best, seqno, seq, committed>>

(* Quantity 0 removes the level: first from the map, then from the slots.  *)
MapRemove(w) ==
  /\ wr[w].pc = "unmap"
  /\ map' = [map EXCEPT ![wr[w].side] = remove(@, wr[w].price)]
  /\ GoTo(w, "zero")
  /\ UNCHANGED <<level, best, seqno, seq, committed>>

(* Mutant: a removal does not look for the new best level.                 *)
ZeroPriceKeepsBest(w) ==
  /\ wr[w].pc = "zero"
  /\ level' = [level EXCEPT ![wr[w].side][wr[w].idx].price = 0]
  /\ GoTo(w, "seqno")
  /\ UNCHANGED <<map, best, seqno, seq, committed>>

ZeroPrice(w) ==
  /\ wr[w].pc = "zero"
  /\ level' = [level EXCEPT ![wr[w].side][wr[w].idx].price = 0]
  /\ GoTo(w, "best")
  /\ UNCHANGED <<map, best, seqno, seq, committed>>

(* update_best_level rescans the whole side.                               *)
UpdateBest(w) ==
  /\ wr[w].pc = "best"
  /\ best' = [best EXCEPT ![wr[w].side] = BestSlot(wr[w].side, level[wr[w].side])]
  /\ GoTo(w, "seqno")
  /\ UNCHANGED <<level, map, seqno, seq, committed>>

CountUpdate(w) ==
  /\ wr[w].pc = "seqno"
  /\ seqno' = seqno + 1
  /\ GoTo(w, "unlock")
  /\ UNCHANGED <<level, map, best, seq, committed>>

(* The WriteGuard is destroyed on the way out of update_level, with either *)
(* result, and of clear.                                                   *)
write_unlock(w) ==
  /\ wr[w].pc = "unlock"
  /\ seq' = seq + 1
  /\ wr' = [wr EXCEPT ![w] = IdleWriter]
  /\ committed' = [book |-> [s \in Sides |-> BookOf(level[s])], seqno |-> seqno]
  /\ UNCHANGED bookVars

-----------------------------------------------------------------------------
(* clear: one store per step, slot by slot, bid before ask, price before   *)
(* quantity; then the maps and the two cached indices.                     *)
ClearOrder == <<[side |-> "BID", field |-> "price"],
                [side |-> "BID", field |-> "quantity"],
                [side |-> "ASK", field |-> "price"],
                [side |-> "ASK", field |-> "quantity"]>>

BeginClear(w) ==
  /\ Clearing
  /\ wr[w].pc = "idle"
  /\ write_lock
  /\ GoTo(w, "clear")
  /\ UNCHANGED <<bookVars, committed>>

ClearStore(w) ==
  LET c == ClearOrder[(wr[w].clr % 4) + 1]
  IN  /\ wr[w].pc = "clear"
      /\ wr[w].clr < 4 * MaxLevels
      /\ level' = [level EXCEPT ![c.side][wr[w].clr \div 4][c.field] = 0]
      /\ wr' = [wr EXCEPT ![w].clr = @ + 1]
      /\ UNCHANGED <<map, best, seqno, seq, committed>>

ClearMaps(w) ==
  /\ wr[w].pc = "clear"
  /\ wr[w].clr = 4 * MaxLevels
  /\ map' = [s \in Sides |-> EmptyTable]
  /\ GoTo(w, "clearbid")
  /\ UNCHANGED <<level, best, seqno, seq, committed>>

ClearBestBid(w) ==
  /\ wr[w].pc = "clearbid"
  /\ best' = [best EXCEPT !["BID"] = SIZE_MAX]
  /\ GoTo(w, "clearask")
  /\ UNCHANGED <<level, map, seqno, seq, committed>>

ClearBestAsk(w) ==
  /\ wr[w].pc = "clearask"
  /\ best' = [best EXCEPT !["ASK"] = SIZE_MAX]
  /\ GoTo(w, "unlock")
  /\ UNCHANGED <<level, map, seqno, seq, committed>>

-----------------------------------------------------------------------------
(* get_snapshot.  The vector of one side is the set of its entries, each   *)
(* tagged with the slot it was read from; the prices give the order.       *)

(* Mutant: a read may begin while a write is in progress.                  *)
ReadBeginAnytime(r) ==
  /\ rd[r].pc \in {"idle", "begin"}
  /\ rd' = [rd EXCEPT ![r] = [IdleReader EXCEPT !.pc = "collect", !.seq = seq]]
  /\ UNCHANGED <<view, quote>>

(* ReadGuard::begin spins while the sequence is odd.                       *)
read_begin(r) ==
  /\ rd[r].pc \in {"idle", "begin"}
  /\ seq % 2 = 0
  /\ rd' = [rd EXCEPT ![r] = [IdleReader EXCEPT !.pc = "collect", !.seq = seq]]
  /\ UNCHANGED <<view, quote>>

(* Load the price of the next slot; a positive one is a level.             *)
CollectSlot(r) ==
  LET price == level[rd[r].side][rd[r].i].price
  IN  /\ rd[r].pc = "collect"
      /\ rd[r].i < MaxLevels
      /\ rd' = [rd EXCEPT ![r].i = @ + 1,
                          ![r].todo = IF price > 0
                                      THEN @ \union {[slot |-> rd[r].i, price |-> price]}
                                      ELSE @]
      /\ UNCHANGED <<view, quote>>

SortAndTrim(r) ==
  /\ rd[r].pc = "collect"
  /\ rd[r].i = MaxLevels
  /\ \E kept \in Trimmed(rd[r].side, rd[r].todo) :
       rd' = [rd EXCEPT ![r].todo = kept, ![r].pc = "copy"]
  /\ UNCHANGED <<view, quote>>

(* The entries are copied best first; the price is loaded again.           *)
CopyPrice(r) ==
  /\ rd[r].pc = "copy"
  /\ \E e \in rd[r].todo :
       /\ \A f \in rd[r].todo : ~Better(rd[r].side, f.price, e.price)
       /\ rd' = [rd EXCEPT ![r].slot = e.slot,
                           ![r].price = level[rd[r].side][e.slot].price,
                           ![r].todo = @ \ {e},
                           ![r].pc = "copyquantity"]
  /\ UNCHANGED <<view, quote>>

(* Quantity (and order_count), and the entry is appended.                  *)
CopyQuantity(r) ==
  LET entry == [slot |-> rd[r].slot, price |-> rd[r].price,
                quantity |-> level[rd[r].side][rd[r].slot].quantity]
  IN  /\ rd[r].pc = "copyquantity"
      /\ rd' = [rd EXCEPT ![r].snap[rd[r].side] = @ \union {entry},
                          ![r].slot = SIZE_MAX, ![r].price = 0, ![r].pc = "copy"]
      /\ UNCHANGED <<view, quote>>

(* The bids are done: on to the asks.                                      *)
NextSide(r) ==
  /\ rd[r].pc = "copy" /\ rd[r].todo = {} /\ rd[r].side = "BID"
  /\ rd' = [rd EXCEPT ![r].side = "ASK", ![r].i = 0, ![r].pc = "collect"]
  /\ UNCHANGED <<view, quote>>

LoadSequenceNumber(r) ==
  /\ rd[r].pc = "copy" /\ rd[r].todo = {} /\ rd[r].side = "ASK"
  /\ rd' = [rd EXCEPT ![r].snap.sequence_number = seqno, ![r].pc = "retry"]
  /\ UNCHANGED <<view, quote>>

(* Mutant: a read is valid whenever no write is in progress at its end.    *)
ReadRetryIfOdd(r) ==
  /\ rd[r].pc = "retry"
  /\ \/ /\ seq % 2 = 1
        /\ rd' = [rd EXCEPT ![r] = [IdleReader EXCEPT !.pc = "begin"]]
        /\ UNCHANGED view
     \/ /\ seq % 2 = 0
        /\ rd' = [rd EXCEPT ![r] = IdleReader]
        /\ view' = [view EXCEPT ![r] = rd[r].snap]
  /\ UNCHANGED quote

(* ReadGuard::retry: start over when the sequence has moved, else return.  *)
read_retry(r) ==
  /\ rd[r].pc = "retry"
  /\ \/ /\ seq # rd[r].seq
        /\ rd' = [rd EXCEPT ![r] = [IdleReader EXCEPT !.pc = "begin"]]
        /\ UNCHANGED view
     \/ /\ seq = rd[r].seq
        /\ rd' = [rd EXCEPT ![r] = IdleReader]
        /\ view' = [view EXCEPT ![r] = rd[r].snap]
  /\ UNCHANGED quote

-----------------------------------------------------------------------------
(* get_spread and get_mid_price make the same four loads, outside the      *)
(* sequence lock.                                                          *)
LoadBestBid(r) ==
  /\ rd[r].pc = "idle"
  /\ rd' = [rd EXCEPT ![r].slot = best["BID"], ![r].pc = "bestask"]
  /\ UNCHANGED <<view, quote>>

(* Either side empty: the result is 0.0.                                   *)
LoadBestAsk(r) ==
  /\ rd[r].pc = "bestask"
  /\ \/ /\ SIZE_MAX \in {rd[r].slot, best["ASK"]}
        /\ quote' = [quote EXCEPT ![r] = NoQuote]
        /\ rd' = [rd EXCEPT ![r] = IdleReader]
     \/ /\ SIZE_MAX \notin {rd[r].slot, best["ASK"]}
        /\ rd' = [rd EXCEPT ![r].i = best["ASK"], ![r].pc = "bidprice"]
        /\ UNCHANGED quote
  /\ UNCHANGED view

LoadBidPrice(r) ==
  /\ rd[r].pc = "bidprice"
  /\ rd' = [rd EXCEPT ![r].price = level["BID"][rd[r].slot].price,
                      ![r].pc = "askprice"]
  /\ UNCHANGED <<view, quote>>

LoadAskPrice(r) ==
  /\ rd[r].pc = "askprice"
  /\ quote' = [quote EXCEPT ![r] = [bid |-> rd[r].price,
                                    ask |-> level["ASK"][rd[r].i].price,
                                    empty |-> FALSE]]
  /\ rd' = [rd EXCEPT ![r] = IdleReader]
  /\ UNCHANGED view

-----------------------------------------------------------------------------
UpdateStep(w) ==
  \/ \E u \in Updates : BeginUpdate(w, u)
  \/ FindLevel(w) \/ MapInsert(w) \/ StorePrice(w) \/ StoreQuantity(w)
  \/ MapRemove(w) \/ ZeroPrice(w) \/ UpdateBest(w) \/ CountUpdate(w)
  \/ write_unlock(w)

ClearStep(w) ==
  BeginClear(w) \/ ClearStore(w) \/ ClearMaps(w) \/ ClearBestBid(w) \/ ClearBestAsk(w)

SnapshotStep(r) ==
  \/ read_begin(r) \/ CollectSlot(r) \/ SortAndTrim(r) \/ CopyPrice(r)
  \/ CopyQuantity(r) \/ NextSide(r) \/ LoadSequenceNumber(r) \/ read_retry(r)

QuoteStep(r) ==
  LoadBestBid(r) \/ LoadBestAsk(r) \/ LoadBidPrice(r) \/ LoadAskPrice(r)

WriterStep(w) == (UpdateStep(w) \/ ClearStep(w)) /\ UNCHANGED <<rd, view, quote>>

ReaderStep(r) == (SnapshotStep(r) \/ QuoteStep(r))
                 /\ UNCHANGED <<bookVars, seq, wr, committed>>

Next == (\E w \in Writers : WriterStep(w)) \/ (\E r \in Readers : ReaderStep(r))

Spec == Init /\ [][Next]_vars

(* A thread inside a call keeps running; no thread has to start one.       *)
Fairness ==
  /\ \A w \in Writers : WF_vars(wr[w].pc # "idle" /\ WriterStep(w))
  /\ \A r \in Readers : WF_vars(rd[r].pc # "idle" /\ ReaderStep(r))

FairSpec == Spec /\ Fairness

-----------------------------------------------------------------------------
(* Properties.                                                             *)

WriterPCs == {"idle", "find", "insert", "price", "quantity", "unmap", "zero",
              "best", "seqno", "unlock", "clear", "clearbid", "clearask"}
ReaderPCs == {"idle", "begin", "collect", "copy", "copyquantity", "retry",
              "bestask", "bidprice", "askprice"}

LevelEntries == [slot : Slots, price : Nat, quantity : Nat]
SnapshotType == [BID : SUBSET LevelEntries, ASK : SUBSET LevelEntries,
                 sequence_number : Nat]
WriterType == [pc : WriterPCs, side : Sides, price : Nat, quantity : Nat,
               idx : Slots \union {SIZE_MAX}, clr : 0 .. 4 * MaxLevels]
ReaderType == [pc : ReaderPCs, seq : Nat, side : Sides, i : 0 .. MaxLevels,
               todo : SUBSET [slot : Slots, price : Nat],
               slot : Slots \union {SIZE_MAX}, price : Nat, snap : SnapshotType]

(* Every variable has its type.                                            *)
TypeOK ==
  /\ level \in [Sides -> [Slots -> [price : Nat, quantity : Nat]]]
  /\ map \in [Sides -> [Buckets -> [price : Nat, index : Slots \union {SIZE_MAX}]]]
  /\ best \in [Sides -> Slots \union {SIZE_MAX}]
  /\ seq \in Nat /\ seqno \in Nat
  /\ wr \in [Writers -> WriterType]
  /\ rd \in [Readers -> ReaderType]
  /\ view \in [Readers -> SnapshotType]
  /\ quote \in [Readers -> [bid : Nat, ask : Nat, empty : BOOLEAN]]
  /\ committed \in [book : [Sides -> [FixedPrices -> Nat]], seqno : Nat]

(* A thread that is about to access a level has the index of a slot, never *)
(* SIZE_MAX: no interleaving of updates, clear and readers makes           *)
(* update_level, get_snapshot, get_spread or get_mid_price leave the       *)
(* arrays, although find returns whatever index the map holds.             *)
IndicesInBounds ==
  /\ \A w \in Writers :
       wr[w].pc \in {"insert", "price", "quantity", "unmap", "zero"} => wr[w].idx \in Slots
  /\ \A r \in Readers :
       /\ rd[r].pc \in {"copyquantity", "bidprice"} => rd[r].slot \in Slots
       /\ rd[r].pc \in {"bidprice", "askprice"} => rd[r].i \in Slots

Quiescent == \A w \in Writers : wr[w].pc = "idle"

(* Between write operations the cached best index of a side is a slot with *)
(* the best price there is, and SIZE_MAX exactly when the side is empty:   *)
(* get_spread and get_mid_price rely on it.                                *)
BestIsBest ==
  Quiescent => \A s \in Sides :
    \/ best[s] = SIZE_MAX /\ Occupied(level[s]) = {}
    \/ /\ best[s] \in Occupied(level[s])
       /\ \A i \in Occupied(level[s]) :
            ~Better(s, level[s][i].price, level[s][best[s]].price)

(* Between write operations a listed level has a quantity, a free slot has *)
(* none left over, and no two slots of a side hold the same price.         *)
LevelsClean ==
  Quiescent => \A s \in Sides : \A i \in Slots :
    /\ (level[s][i].price = 0) <=> (level[s][i].quantity = 0)
    /\ \A j \in Slots \ {i} : level[s][i].price # 0 => level[s][i].price # level[s][j].price

(* Between write operations the price map of a side finds exactly the slot *)
(* that holds a price, and finds nothing for a price that is not listed.   *)
MapFindsLevels ==
  Quiescent => \A s \in Sides, p \in FixedPrices :
    LET holders == {i \in Slots : level[s][i].price = p}
    IN  IF holders = {} THEN find(map[s], p) = SIZE_MAX
                        ELSE find(map[s], p) \in holders

(* Between write operations the three ways the book is kept agree: the     *)
(* slots of a side hold each listed price once, with a quantity; the price *)
(* map finds each of them and nothing else; and the cached best index is   *)
(* the slot of the best one.  update_level and clear change the three in   *)
(* separate stores, and every path out of them has to restore this.        *)
LevelsConsistent == LevelsClean /\ MapFindsLevels /\ BestIsBest

(* The entries are the best Depth levels that the slots of the side hold.  *)
IsSnapshotOf(side, levels, entries) ==
  \E kept \in Trimmed(side, {[slot |-> i, price |-> levels[i].price] : i \in Occupied(levels)}) :
    entries = {[slot |-> e.slot, price |-> e.price, quantity |-> levels[e.slot].quantity] : e \in kept}

(* With one writer, get_snapshot returns only what the book holds at the   *)
(* moment the sequence is checked, with no write operation in progress:    *)
(* no level is torn, missing or counted for another update.                *)
SnapshotExact ==
  [][\A r \in Readers : view'[r] # view[r] =>
       /\ Quiescent
       /\ \A s \in Sides : IsSnapshotOf(s, level[s], view'[r][s])
       /\ view'[r].sequence_number = seqno]_view

(* Seen through the sequence lock the book is atomic: every write          *)
(* operation takes effect at once, and every snapshot returned by          *)
(* get_snapshot is the best Depth levels of the book at one instant, with  *)
(* the sequence number of that instant.                                    *)
Pairs(entries) == {<<e.price, e.quantity>> : e \in entries}

Atomic == INSTANCE BookSpec WITH
  Prices <- FixedPrices, Quantities <- FixedQuantities,
  book <- committed.book, seqno <- committed.seqno,
  view <- [r \in Readers |-> [bids |-> Pairs(view[r].BID),
                              asks |-> Pairs(view[r].ASK),
                              sequence_number |-> view[r].sequence_number]]
BookIsAtomic == Atomic!ASpec

(* A call of get_snapshot, get_spread or get_mid_price returns once the    *)
(* writers pause: every path out of a write operation, the failed update   *)
(* included, leaves the sequence even.                                     *)
ReadersReturn == \A r \in Readers : rd[r].pc # "idle" ~> rd[r].pc = "idle"
=============================================================================
