-------------------------- MODULE OrderBookProofs --------------------------
(***************************************************************************)
(* Theorems about OrderBook for every number of readers, every capacity,   *)
(* depth, table size and set of updates: types and bounds, exact           *)
(* snapshots, the agreement of levels, price map and best index, and that  *)
(* the book implements the atomic book of BookSpec.                        *)
(***************************************************************************)
EXTENDS OrderBook, FiniteSetTheorems, WellFoundedInduction, TLAPS

(* A non-empty set of naturals has a minimum: the scans for a free slot,   *)
(* the best slot and the end of a probe all return an element.             *)
LEMMA MinIsElement ==
  ASSUME NEW S, S \subseteq Nat, S # {}
  PROVE  Min(S) \in S /\ \A y \in S : Min(S) <= y
<1>1. PICK x \in S : \A y \in S : ~(<<y, x>> \in OpToRel(<, Nat))
  BY NatLessThanWellFounded, WFMin
<1>2. \A y \in S : x <= y
  <2> TAKE y \in S
  <2>1. ~(<<y, x>> \in OpToRel(<, Nat))
    BY <1>1
  <2>2. x \in Nat /\ y \in Nat
    OBVIOUS
  <2>3. ~(y < x)
    BY <2>1, <2>2, Zenon DEF OpToRel
  <2> QED BY <2>2, <2>3
<1> QED BY <1>2 DEF Min

(* A probe stays inside the table.                                         *)
LEMMA ProbeInTable ==
  ASSUME NEW p \in Nat, NEW a \in Nat
  PROVE  Probe(p, a) \in Buckets
BY TableAssumption DEF Probe, Buckets, hash

Indices == Slots \union {SIZE_MAX}
Tables == [Buckets -> [price : Nat, index : Indices]]

(* The bucket a probe stops at is a bucket of the table.                   *)
LEMMA StopInTable ==
  ASSUME NEW t \in Tables, NEW p \in Nat, Stops(t, p) # {}
  PROVE  StopBucket(t, p) \in Buckets
<1>1. Stops(t, p) \subseteq Nat
  BY DEF Stops, Buckets
<1>2. Min(Stops(t, p)) \in Nat
  BY <1>1, MinIsElement
<1> QED BY <1>2, ProbeInTable DEF StopBucket

(* The operations of the price map keep its type, and find returns a slot  *)
(* or SIZE_MAX.                                                            *)
LEMMA MapTypes ==
  ASSUME NEW t \in Tables, NEW p \in Nat, NEW i \in Indices
  PROVE  /\ find(t, p) \in Indices
         /\ insert(t, p, i) \in Tables
         /\ remove(t, p) \in Tables
         /\ EmptyTable \in Tables
<1>1. find(t, p) \in Indices
  BY StopInTable DEF find, Tables, Indices
<1>2. insert(t, p, i) \in Tables
  BY StopInTable DEF insert, Tables
<1>3. remove(t, p) \in Tables
  BY StopInTable DEF remove, EmptyEntry, Tables, Indices
<1>4. EmptyTable \in Tables
  BY DEF EmptyTable, EmptyEntry, Tables, Indices
<1> QED BY <1>1, <1>2, <1>3, <1>4

Levels == [Slots -> [price : Nat, quantity : Nat]]

(* find_free_slot and the scan of update_best_level return a slot or       *)
(* SIZE_MAX.                                                               *)
LEMMA ScanTypes ==
  ASSUME NEW l \in Levels, NEW s \in Sides
  PROVE  find_free_slot(l) \in Indices /\ BestSlot(s, l) \in Indices
<1>1. Slots \subseteq Nat
  BY DEF Slots
<1>2. find_free_slot(l) \in Indices
  <2> DEFINE free == {i \in Slots : l[i].price = 0}
  <2>1. free # {} => Min(free) \in free
    BY <1>1, MinIsElement
  <2> QED BY <2>1 DEF find_free_slot, Indices
<1>3. BestSlot(s, l) \in Indices
  <2> DEFINE top == {i \in Occupied(l) : \A j \in Occupied(l) :
                       ~Better(s, l[j].price, l[i].price)}
  <2>1. top \subseteq Slots
    BY DEF Occupied
  <2>2. top # {} => Min(top) \in top
    BY <1>1, <2>1, MinIsElement
  <2> QED BY <2>1, <2>2 DEF BestSlot, Indices
<1> QED BY <1>2, <1>3

-----------------------------------------------------------------------------
(* Types and array bounds, for any number of writers and readers.          *)

SafeTypes == TypeOK /\ IndicesInBounds

(* Converted prices and quantities are natural numbers.                    *)
LEMMA FixedTypes ==
  /\ \A u \in Updates : /\ u.side \in Sides
                        /\ double_to_fixed(u.price) \in Nat
                        /\ double_to_fixed(u.quantity) \in Nat
  /\ \A l \in Levels : BookOf(l) \in [FixedPrices -> Nat]
<1>1. \A n \in Nat : double_to_fixed(n) \in Nat
  BY BookAssumption DEF double_to_fixed
<1>2. \A u \in Updates : u.side \in Sides /\ u.price \in Nat /\ u.quantity \in Nat
  BY BookAssumption
<1>3. \A l \in Levels : BookOf(l) \in [FixedPrices -> Nat]
  BY DEF BookOf, Levels
<1> QED BY <1>1, <1>2, <1>3

(* The constructor establishes the types.                                  *)
LEMMA TypeInit == Init => SafeTypes
<1> SUFFICES ASSUME Init PROVE SafeTypes
  OBVIOUS
<1>1. EmptyTable \in [Buckets -> [price : Nat, index : Slots \union {SIZE_MAX}]]
  BY DEF EmptyTable, EmptyEntry
<1>2. IdleWriter \in WriterType
  BY BookAssumption DEF IdleWriter, WriterType, WriterPCs, Sides
<1>3. IdleReader \in ReaderType /\ EmptySnapshot \in SnapshotType
  BY BookAssumption DEF IdleReader, EmptySnapshot, ReaderType, ReaderPCs, SnapshotType, Sides
<1>4. TypeOK
  BY <1>1, <1>2, <1>3 DEF Init, TypeOK, NoQuote
<1>5. IndicesInBounds
  BY DEF Init, IndicesInBounds, IdleWriter, IdleReader
<1> QED BY <1>4, <1>5 DEF SafeTypes

(* A store to one field of one level keeps the type of the sides.          *)
LEMMA StoreTypes ==
  ASSUME NEW l \in [Sides -> Levels], NEW s \in Sides, NEW i, NEW v \in Nat
  PROVE  /\ [l EXCEPT ![s][i].price = v] \in [Sides -> Levels]
         /\ [l EXCEPT ![s][i].quantity = v] \in [Sides -> Levels]
<1> DEFINE P == [l[s] EXCEPT ![i] = [l[s][i] EXCEPT !.price = v]]
           Q == [l[s] EXCEPT ![i] = [l[s][i] EXCEPT !.quantity = v]]
<1>1. l[s] \in [Slots -> [price : Nat, quantity : Nat]]
  BY DEF Levels
<1>2. CASE i \in Slots
  <2>1. l[s][i] \in [price : Nat, quantity : Nat]
    BY <1>1, <1>2
  <2>2. /\ [l[s][i] EXCEPT !.price = v] \in [price : Nat, quantity : Nat]
        /\ [l[s][i] EXCEPT !.quantity = v] \in [price : Nat, quantity : Nat]
    BY <2>1
  <2>3. P \in Levels /\ Q \in Levels
    BY <1>1, <2>2 DEF Levels
  <2> QED BY <2>3
<1>3. CASE i \notin Slots
  <2>1. P = l[s] /\ Q = l[s]
    BY <1>1, <1>3
  <2> QED BY <2>1
<1> QED BY <1>2, <1>3

(* The program counters at which a writer uses its index.                  *)
IndexedPCs == {"insert", "price", "quantity", "unmap", "zero"}

(* A step of a writer.                                                     *)
LEMMA WriterTypes ==
  ASSUME SafeTypes, NEW w \in Writers, WriterStep(w)
  PROVE  SafeTypes'
<1> DEFINE s == wr[w].side
<1>0. /\ UNCHANGED <<rd, view, quote>>
      /\ wr[w] \in WriterType
      /\ wr \in [Writers -> WriterType]
      /\ level \in [Sides -> Levels]
      /\ map \in [Sides -> Tables]
      /\ best \in [Sides -> Indices]
      /\ seq \in Nat /\ seqno \in Nat
      /\ s \in Sides
  BY DEF WriterStep, SafeTypes, TypeOK, Levels, Tables, Indices, WriterType
<1>t. ASSUME level' \in [Sides -> Levels], map' \in [Sides -> Tables],
             best' \in [Sides -> Indices], seq' \in Nat, seqno' \in Nat,
             wr' \in [Writers -> WriterType],
             committed' \in [book : [Sides -> [FixedPrices -> Nat]], seqno : Nat]
      PROVE  TypeOK'
  BY <1>0, <1>t DEF SafeTypes, TypeOK, Levels, Tables, Indices
<1>b. ASSUME \A v \in Writers \ {w} : wr'[v] = wr[v],
             wr'[w].pc \in IndexedPCs => wr'[w].idx \in Slots
      PROVE  IndicesInBounds'
  BY <1>0, <1>b DEF SafeTypes, IndicesInBounds, IndexedPCs
<1>1. ASSUME NEW pc \in WriterPCs, GoTo(w, pc),
             pc \in IndexedPCs => wr[w].pc \in IndexedPCs
      PROVE  wr' \in [Writers -> WriterType] /\ IndicesInBounds'
  <2>1. wr' \in [Writers -> WriterType]
    BY <1>0, <1>1 DEF GoTo, WriterType
  <2>2. wr'[w].pc = pc /\ wr'[w].idx = wr[w].idx
    BY <1>0, <1>1 DEF GoTo, WriterType
  <2>3. \A v \in Writers \ {w} : wr'[v] = wr[v]
    BY <1>0, <1>1 DEF GoTo
  <2>4. wr[w].pc \in IndexedPCs => wr[w].idx \in Slots
    BY DEF SafeTypes, IndicesInBounds, IndexedPCs
  <2> QED BY <1>1, <1>b, <2>1, <2>2, <2>3, <2>4
<1>c. committed \in [book : [Sides -> [FixedPrices -> Nat]], seqno : Nat]
  BY DEF SafeTypes, TypeOK
<1>2. ASSUME NEW u \in Updates, BeginUpdate(w, u) PROVE SafeTypes'
  <2>1. wr' \in [Writers -> WriterType]
    <3> DEFINE new == [IdleWriter EXCEPT !.pc = "find", !.side = u.side,
                         !.price = double_to_fixed(u.price),
                         !.quantity = double_to_fixed(u.quantity)]
    <3>1. IdleWriter \in WriterType
      BY BookAssumption DEF IdleWriter, WriterType, WriterPCs, Sides
    <3>2. new \in WriterType
      BY <3>1, FixedTypes DEF WriterType, WriterPCs
    <3>3. wr' = [wr EXCEPT ![w] = new]
      BY <1>2 DEF BeginUpdate
    <3> HIDE DEF new
    <3> QED BY <1>0, <3>2, <3>3
  <2>2. wr'[w].pc = "find" /\ \A v \in Writers \ {w} : wr'[v] = wr[v]
    BY <1>0, <1>2 DEF BeginUpdate, IdleWriter
  <2>3. IndicesInBounds'
    BY <2>2, <1>b DEF IndexedPCs
  <2>4. TypeOK'
    BY <1>0, <1>c, <1>2, <1>t, <2>1 DEF BeginUpdate, bookVars, write_lock
  <2> QED BY <2>3, <2>4 DEF SafeTypes
<1>3. CASE FindLevel(w)
  <2>1. find(map[s], wr[w].price) \in Indices /\ find_free_slot(level[s]) \in Indices
    BY <1>0, MapTypes, ScanTypes DEF WriterType
  <2>2. wr' \in [Writers -> WriterType]
    BY <1>0, <1>3, <2>1 DEF FindLevel, GoTo, WriterType, WriterPCs, Indices
  <2>3. /\ wr'[w].pc \in {"insert", "price", "unlock"}
        /\ wr'[w].pc \in {"insert", "price"} => wr'[w].idx \in Slots
        /\ \A v \in Writers \ {w} : wr'[v] = wr[v]
    BY <1>0, <1>3, <2>1 DEF FindLevel, GoTo, WriterType, Indices
  <2>4. IndicesInBounds'
    BY <2>3, <1>b DEF IndexedPCs
  <2>5. TypeOK'
    BY <1>0, <1>c, <1>3, <1>t, <2>2 DEF FindLevel, bookVars
  <2> QED BY <2>4, <2>5 DEF SafeTypes
<1>4. CASE MapInsert(w)
  <2>1. map' \in [Sides -> Tables]
    BY <1>0, <1>4, MapTypes DEF MapInsert, WriterType, Indices
  <2>2. wr' \in [Writers -> WriterType] /\ IndicesInBounds'
    BY <1>1, <1>4 DEF MapInsert, WriterPCs, IndexedPCs
  <2> QED BY <1>0, <1>c, <1>4, <1>t, <2>1, <2>2 DEF MapInsert, SafeTypes
<1>5. CASE StorePrice(w)
  <2>1. level' \in [Sides -> Levels]
    BY <1>0, <1>5, StoreTypes DEF StorePrice, WriterType
  <2>2. wr' \in [Writers -> WriterType] /\ IndicesInBounds'
    BY <1>1, <1>5 DEF StorePrice, WriterPCs, IndexedPCs
  <2> QED BY <1>0, <1>c, <1>5, <1>t, <2>1, <2>2 DEF StorePrice, SafeTypes
<1>6. CASE StoreQuantity(w)
  <2>1. level' \in [Sides -> Levels]
    BY <1>0, <1>6, StoreTypes DEF StoreQuantity, WriterType
  <2>2. wr' \in [Writers -> WriterType] /\ IndicesInBounds'
    BY <1>1, <1>6 DEF StoreQuantity, WriterPCs, IndexedPCs
  <2> QED BY <1>0, <1>c, <1>6, <1>t, <2>1, <2>2 DEF StoreQuantity, SafeTypes
<1>7. CASE MapRemove(w)
  <2>1. map' \in [Sides -> Tables]
    BY <1>0, <1>7, MapTypes DEF MapRemove, WriterType, Indices
  <2>2. wr' \in [Writers -> WriterType] /\ IndicesInBounds'
    BY <1>1, <1>7 DEF MapRemove, WriterPCs, IndexedPCs
  <2> QED BY <1>0, <1>c, <1>7, <1>t, <2>1, <2>2 DEF MapRemove, SafeTypes
<1>8. CASE ZeroPrice(w)
  <2>1. level' \in [Sides -> Levels]
    BY <1>0, <1>8, StoreTypes DEF ZeroPrice
  <2>2. wr' \in [Writers -> WriterType] /\ IndicesInBounds'
    BY <1>1, <1>8 DEF ZeroPrice, WriterPCs, IndexedPCs
  <2> QED BY <1>0, <1>c, <1>8, <1>t, <2>1, <2>2 DEF ZeroPrice, SafeTypes
<1>9. CASE UpdateBest(w)
  <2>1. best' \in [Sides -> Indices]
    BY <1>0, <1>9, ScanTypes DEF UpdateBest, WriterType
  <2>2. wr' \in [Writers -> WriterType] /\ IndicesInBounds'
    BY <1>1, <1>9 DEF UpdateBest, WriterPCs, IndexedPCs
  <2> QED BY <1>0, <1>c, <1>9, <1>t, <2>1, <2>2 DEF UpdateBest, SafeTypes
<1>10. CASE CountUpdate(w)
  <2>1. wr' \in [Writers -> WriterType] /\ IndicesInBounds'
    BY <1>1, <1>10 DEF CountUpdate, WriterPCs, IndexedPCs
  <2> QED BY <1>0, <1>c, <1>10, <1>t, <2>1 DEF CountUpdate, SafeTypes
<1>11. CASE write_unlock(w)
  <2>1. wr' \in [Writers -> WriterType]
    BY <1>0, <1>11, BookAssumption DEF write_unlock, IdleWriter, WriterType, WriterPCs, Sides
  <2>2. wr'[w].pc = "idle" /\ \A v \in Writers \ {w} : wr'[v] = wr[v]
    BY <1>0, <1>11 DEF write_unlock, IdleWriter
  <2>3. IndicesInBounds'
    BY <2>2, <1>b DEF IndexedPCs
  <2>4. committed' \in [book : [Sides -> [FixedPrices -> Nat]], seqno : Nat]
    BY <1>0, <1>11, FixedTypes DEF write_unlock
  <2> QED BY <1>0, <1>11, <1>t, <2>1, <2>3, <2>4 DEF write_unlock, bookVars, SafeTypes
<1>12. CASE BeginClear(w)
  <2>1. wr' \in [Writers -> WriterType] /\ IndicesInBounds'
    BY <1>1, <1>12 DEF BeginClear, WriterPCs, IndexedPCs
  <2> QED BY <1>0, <1>c, <1>12, <1>t, <2>1 DEF BeginClear, write_lock, bookVars, SafeTypes
<1>13. CASE ClearStore(w)
  <2> DEFINE c == ClearOrder[(wr[w].clr % 4) + 1]
             i == wr[w].clr \div 4
  <2>1. wr[w].clr % 4 \in 0 .. 3 /\ wr[w].clr \in Nat
    BY <1>0, BookAssumption DEF WriterType
  <2>2. c \in {[side |-> x, field |-> f] : x \in Sides, f \in {"price", "quantity"}}
    BY <2>1 DEF ClearOrder, Sides
  <2>3. level' \in [Sides -> Levels]
    <3> HIDE DEF c, i
    <3>1. level' = [level EXCEPT ![c.side][i][c.field] = 0]
      BY <1>13 DEF ClearStore, c, i
    <3>2. PICK x \in Sides, f \in {"price", "quantity"} : c = [side |-> x, field |-> f]
      BY <2>2
    <3>3. level' = [level EXCEPT ![x][i][f] = 0]
      BY <3>1, <3>2
    <3>4. CASE f = "price"
      BY <1>0, <3>3, <3>4, StoreTypes
    <3>5. CASE f = "quantity"
      BY <1>0, <3>3, <3>5, StoreTypes
    <3> QED BY <3>4, <3>5
  <2>4. wr' \in [Writers -> WriterType]
    BY <1>0, <1>13, BookAssumption DEF ClearStore, WriterType
  <2>5. wr'[w].pc = "clear" /\ \A v \in Writers \ {w} : wr'[v] = wr[v]
    BY <1>0, <1>13 DEF ClearStore, WriterType
  <2>6. IndicesInBounds'
    BY <2>5, <1>b DEF IndexedPCs
  <2> QED BY <1>0, <1>c, <1>13, <1>t, <2>3, <2>4, <2>6 DEF ClearStore, SafeTypes
<1>14. CASE ClearMaps(w)
  <2>1. map' \in [Sides -> Tables]
    BY <1>14 DEF ClearMaps, EmptyTable, EmptyEntry, Tables, Indices
  <2>2. wr' \in [Writers -> WriterType] /\ IndicesInBounds'
    BY <1>1, <1>14 DEF ClearMaps, WriterPCs, IndexedPCs
  <2> QED BY <1>0, <1>c, <1>14, <1>t, <2>1, <2>2 DEF ClearMaps, SafeTypes
<1>15. CASE ClearBestBid(w)
  <2>1. best' \in [Sides -> Indices]
    BY <1>0, <1>15 DEF ClearBestBid, Indices
  <2>2. wr' \in [Writers -> WriterType] /\ IndicesInBounds'
    BY <1>1, <1>15 DEF ClearBestBid, WriterPCs, IndexedPCs
  <2> QED BY <1>0, <1>c, <1>15, <1>t, <2>1, <2>2 DEF ClearBestBid, SafeTypes
<1>16. CASE ClearBestAsk(w)
  <2>1. best' \in [Sides -> Indices]
    BY <1>0, <1>16 DEF ClearBestAsk, Indices
  <2>2. wr' \in [Writers -> WriterType] /\ IndicesInBounds'
    BY <1>1, <1>16 DEF ClearBestAsk, WriterPCs, IndexedPCs
  <2> QED BY <1>0, <1>c, <1>16, <1>t, <2>1, <2>2 DEF ClearBestAsk, SafeTypes
<1> QED
  BY <1>2, <1>3, <1>4, <1>5, <1>6, <1>7, <1>8, <1>9, <1>10, <1>11, <1>12, <1>13,
     <1>14, <1>15, <1>16 DEF WriterStep, UpdateStep, ClearStep

Entries == [slot : Slots, price : Nat]

(* A step of a reader.                                                     *)
LEMMA ReaderTypes ==
  ASSUME SafeTypes, NEW r \in Readers, ReaderStep(r)
  PROVE  SafeTypes'
<1>0. /\ UNCHANGED <<level, map, best, seqno, seq, wr, committed>>
      /\ rd[r] \in ReaderType
      /\ rd \in [Readers -> ReaderType]
      /\ view \in [Readers -> SnapshotType]
      /\ quote \in [Readers -> [bid : Nat, ask : Nat, empty : BOOLEAN]]
      /\ level \in [Sides -> [Slots -> [price : Nat, quantity : Nat]]]
      /\ best \in [Sides -> Slots \union {SIZE_MAX}]
      /\ seq \in Nat /\ seqno \in Nat
  BY DEF ReaderStep, bookVars, SafeTypes, TypeOK
<1>i. IdleReader \in ReaderType /\ IdleReader.pc = "idle"
  BY BookAssumption DEF IdleReader, EmptySnapshot, ReaderType, ReaderPCs, SnapshotType, Sides
<1>p. ASSUME NEW new \in ReaderType, rd' = [rd EXCEPT ![r] = new],
             view' \in [Readers -> SnapshotType],
             quote' \in [Readers -> [bid : Nat, ask : Nat, empty : BOOLEAN]],
             new.pc \in {"copyquantity", "bidprice"} => new.slot \in Slots,
             new.pc \in {"bidprice", "askprice"} => new.i \in Slots
      PROVE  SafeTypes'
  <2>1. rd' \in [Readers -> ReaderType]
    BY <1>0, <1>p
  <2>2. rd'[r] = new /\ \A q \in Readers \ {r} : rd'[q] = rd[q]
    BY <1>0, <1>p
  <2>3. TypeOK'
    BY <1>0, <1>p, <2>1 DEF SafeTypes, TypeOK
  <2>4. IndicesInBounds'
    BY <1>0, <1>p, <2>2 DEF SafeTypes, IndicesInBounds
  <2> QED BY <2>3, <2>4 DEF SafeTypes
<1>x. /\ rd[r].pc \in {"copyquantity", "bidprice"} => rd[r].slot \in Slots
      /\ rd[r].pc \in {"bidprice", "askprice"} => rd[r].i \in Slots
  BY DEF SafeTypes, IndicesInBounds
<1>1. CASE read_begin(r)
  <2> DEFINE new == [IdleReader EXCEPT !.pc = "collect", !.seq = seq]
  <2>1. new \in ReaderType /\ new.pc = "collect"
    BY <1>0, <1>i DEF ReaderType, ReaderPCs
  <2>2. rd' = [rd EXCEPT ![r] = new] /\ UNCHANGED <<view, quote>>
    BY <1>1 DEF read_begin
  <2> HIDE DEF new
  <2> QED BY <1>0, <1>p, <2>1, <2>2
<1>2. CASE CollectSlot(r)
  <2> DEFINE price == level[rd[r].side][rd[r].i].price
             todo == IF price > 0
                     THEN rd[r].todo \union {[slot |-> rd[r].i, price |-> price]}
                     ELSE rd[r].todo
             new == [rd[r] EXCEPT !.i = rd[r].i + 1, !.todo = todo]
  <2>1. rd[r].pc = "collect" /\ rd[r].i \in Slots
    BY <1>0, <1>2, BookAssumption DEF CollectSlot, ReaderType, Slots
  <2>2. price \in Nat
    BY <1>0, <2>1 DEF ReaderType
  <2>3. todo \in SUBSET Entries
    BY <1>0, <2>1, <2>2 DEF ReaderType, Entries
  <2>4. rd[r].i + 1 \in 0 .. MaxLevels
    BY <2>1, BookAssumption DEF Slots
  <2>5. rd' = [rd EXCEPT ![r] = new] /\ UNCHANGED <<view, quote>>
    BY <1>0, <1>2 DEF CollectSlot, ReaderType
  <2> HIDE DEF todo
  <2>6. new \in ReaderType /\ new.pc = "collect"
    BY <1>0, <2>1, <2>3, <2>4 DEF ReaderType, Entries
  <2> HIDE DEF new
  <2> QED BY <1>0, <1>p, <2>5, <2>6
<1>3. CASE SortAndTrim(r)
  <2>1. PICK kept \in Trimmed(rd[r].side, rd[r].todo) :
          rd' = [rd EXCEPT ![r].todo = kept, ![r].pc = "copy"]
    BY <1>3 DEF SortAndTrim
  <2> DEFINE new == [rd[r] EXCEPT !.todo = kept, !.pc = "copy"]
  <2>2. new \in ReaderType /\ new.pc = "copy"
    BY <1>0, <2>1 DEF Trimmed, ReaderType, ReaderPCs
  <2>3. rd' = [rd EXCEPT ![r] = new] /\ UNCHANGED <<view, quote>>
    BY <1>0, <1>3, <2>1 DEF SortAndTrim, ReaderType
  <2> HIDE DEF new
  <2> QED BY <1>0, <1>p, <2>2, <2>3
<1>4. CASE CopyPrice(r)
  <2>1. PICK e \in rd[r].todo :
          rd' = [rd EXCEPT ![r].slot = e.slot,
                           ![r].price = level[rd[r].side][e.slot].price,
                           ![r].todo = @ \ {e}, ![r].pc = "copyquantity"]
    BY <1>4 DEF CopyPrice
  <2> DEFINE new == [rd[r] EXCEPT !.slot = e.slot,
                       !.price = level[rd[r].side][e.slot].price,
                       !.todo = rd[r].todo \ {e}, !.pc = "copyquantity"]
  <2>2. e.slot \in Slots /\ level[rd[r].side][e.slot].price \in Nat
    BY <1>0 DEF ReaderType
  <2>3. new \in ReaderType /\ new.pc = "copyquantity" /\ new.slot \in Slots
    BY <1>0, <2>2 DEF ReaderType, ReaderPCs
  <2>4. rd' = [rd EXCEPT ![r] = new] /\ UNCHANGED <<view, quote>>
    BY <1>0, <1>4, <2>1 DEF CopyPrice, ReaderType
  <2> HIDE DEF new
  <2> QED BY <1>0, <1>p, <2>3, <2>4
<1>5. CASE CopyQuantity(r)
  <2> DEFINE entry == [slot |-> rd[r].slot, price |-> rd[r].price,
                       quantity |-> level[rd[r].side][rd[r].slot].quantity]
             snap == [rd[r].snap EXCEPT ![rd[r].side] = @ \union {entry}]
             new == [rd[r] EXCEPT !.snap = snap, !.slot = SIZE_MAX, !.price = 0, !.pc = "copy"]
  <2>1. entry \in LevelEntries
    BY <1>0, <1>5, <1>x DEF CopyQuantity, ReaderType, LevelEntries
  <2>2. snap \in SnapshotType
    <3> HIDE DEF entry
    <3>1. rd[r].side = "BID" \/ rd[r].side = "ASK"
      BY <1>0 DEF ReaderType, Sides
    <3>2. rd[r].snap \in SnapshotType
      BY <1>0 DEF ReaderType
    <3>3. CASE rd[r].side = "BID"
      BY <2>1, <3>2, <3>3 DEF SnapshotType
    <3>4. CASE rd[r].side = "ASK"
      BY <2>1, <3>2, <3>4 DEF SnapshotType
    <3> QED BY <3>1, <3>3, <3>4
  <2>3. rd' = [rd EXCEPT ![r] = new] /\ UNCHANGED <<view, quote>>
    BY <1>0, <1>5 DEF CopyQuantity, ReaderType
  <2> HIDE DEF snap
  <2>4. new \in ReaderType /\ new.pc = "copy"
    BY <1>0, <2>2 DEF ReaderType, ReaderPCs
  <2> HIDE DEF new
  <2> QED BY <1>0, <1>p, <2>3, <2>4
<1>6. CASE NextSide(r)
  <2> DEFINE new == [rd[r] EXCEPT !.side = "ASK", !.i = 0, !.pc = "collect"]
  <2>0. 0 \in 0 .. MaxLevels
    BY BookAssumption
  <2>1. new \in ReaderType /\ new.pc = "collect"
    BY <1>0, <2>0 DEF ReaderType, ReaderPCs, Sides
  <2>2. rd' = [rd EXCEPT ![r] = new] /\ UNCHANGED <<view, quote>>
    BY <1>0, <1>6 DEF NextSide, ReaderType
  <2> HIDE DEF new
  <2> QED BY <1>0, <1>p, <2>1, <2>2
<1>7. CASE LoadSequenceNumber(r)
  <2> DEFINE snap == [rd[r].snap EXCEPT !.sequence_number = seqno]
             new == [rd[r] EXCEPT !.snap = snap, !.pc = "retry"]
  <2>1. snap \in SnapshotType
    BY <1>0 DEF ReaderType, SnapshotType
  <2>2. rd' = [rd EXCEPT ![r] = new] /\ UNCHANGED <<view, quote>>
    BY <1>0, <1>7 DEF LoadSequenceNumber, ReaderType
  <2> HIDE DEF snap
  <2>3. new \in ReaderType /\ new.pc = "retry"
    BY <1>0, <2>1 DEF ReaderType, ReaderPCs
  <2> HIDE DEF new
  <2> QED BY <1>0, <1>p, <2>2, <2>3
<1>8. CASE read_retry(r)
  <2>1. CASE seq # rd[r].seq
    <3> DEFINE new == [IdleReader EXCEPT !.pc = "begin"]
    <3>1. new \in ReaderType /\ new.pc = "begin"
      BY <1>i DEF ReaderType, ReaderPCs
    <3>2. rd' = [rd EXCEPT ![r] = new] /\ UNCHANGED <<view, quote>>
      BY <1>8, <2>1 DEF read_retry
    <3> HIDE DEF new
    <3> QED BY <1>0, <1>p, <3>1, <3>2
  <2>2. CASE seq = rd[r].seq
    <3>1. rd' = [rd EXCEPT ![r] = IdleReader] /\ view' \in [Readers -> SnapshotType]
      BY <1>0, <1>8, <2>2 DEF read_retry, ReaderType
    <3>2. UNCHANGED quote
      BY <1>8 DEF read_retry
    <3> QED BY <1>0, <1>i, <1>p, <3>1, <3>2
  <2> QED BY <2>1, <2>2
<1>9. CASE LoadBestBid(r)
  <2> DEFINE new == [rd[r] EXCEPT !.slot = best["BID"], !.pc = "bestask"]
  <2>1. new \in ReaderType /\ new.pc = "bestask"
    BY <1>0 DEF ReaderType, ReaderPCs, Sides
  <2>2. rd' = [rd EXCEPT ![r] = new] /\ UNCHANGED <<view, quote>>
    BY <1>0, <1>9 DEF LoadBestBid, ReaderType
  <2> HIDE DEF new
  <2> QED BY <1>0, <1>p, <2>1, <2>2
<1>10. CASE LoadBestAsk(r)
  <2>1. CASE SIZE_MAX \in {rd[r].slot, best["ASK"]}
    <3>1. rd' = [rd EXCEPT ![r] = IdleReader] /\ UNCHANGED view
          /\ quote' = [quote EXCEPT ![r] = NoQuote]
      BY <1>10, <2>1 DEF LoadBestAsk
    <3>2. NoQuote \in [bid : Nat, ask : Nat, empty : BOOLEAN]
      BY DEF NoQuote
    <3>3. quote' \in [Readers -> [bid : Nat, ask : Nat, empty : BOOLEAN]]
      BY <1>0, <3>1, <3>2
    <3> QED BY <1>0, <1>i, <1>p, <3>1, <3>3
  <2>2. CASE SIZE_MAX \notin {rd[r].slot, best["ASK"]}
    <3> DEFINE new == [rd[r] EXCEPT !.i = best["ASK"], !.pc = "bidprice"]
    <3>1. best["ASK"] \in Slots /\ rd[r].slot \in Slots /\ best["ASK"] \in 0 .. MaxLevels
      BY <1>0, <2>2, BookAssumption DEF ReaderType, Sides, Slots
    <3>2. new \in ReaderType /\ new.pc = "bidprice" /\ new.slot \in Slots /\ new.i \in Slots
      BY <1>0, <3>1 DEF ReaderType, ReaderPCs
    <3>3. rd' = [rd EXCEPT ![r] = new] /\ UNCHANGED <<view, quote>>
      BY <1>0, <1>10, <2>2 DEF LoadBestAsk, ReaderType
    <3> HIDE DEF new
    <3> QED BY <1>0, <1>p, <3>2, <3>3
  <2> QED BY <2>1, <2>2
<1>11. CASE LoadBidPrice(r)
  <2> DEFINE new == [rd[r] EXCEPT !.price = level["BID"][rd[r].slot].price, !.pc = "askprice"]
  <2>1. level["BID"][rd[r].slot].price \in Nat /\ rd[r].i \in Slots
    BY <1>0, <1>11, <1>x DEF LoadBidPrice, Sides
  <2>2. new \in ReaderType /\ new.pc = "askprice" /\ new.i \in Slots
    BY <1>0, <2>1 DEF ReaderType, ReaderPCs
  <2>3. rd' = [rd EXCEPT ![r] = new] /\ UNCHANGED <<view, quote>>
    BY <1>0, <1>11 DEF LoadBidPrice, ReaderType
  <2> HIDE DEF new
  <2> QED BY <1>0, <1>p, <2>2, <2>3
<1>12. CASE LoadAskPrice(r)
  <2>1. level["ASK"][rd[r].i].price \in Nat /\ rd[r].price \in Nat
    BY <1>0, <1>12, <1>x DEF LoadAskPrice, Sides, ReaderType
  <2>2. quote' \in [Readers -> [bid : Nat, ask : Nat, empty : BOOLEAN]]
    BY <1>0, <1>12, <2>1 DEF LoadAskPrice
  <2>3. rd' = [rd EXCEPT ![r] = IdleReader] /\ UNCHANGED view
    BY <1>12 DEF LoadAskPrice
  <2> QED BY <1>0, <1>i, <1>p, <2>2, <2>3
<1> QED
  BY <1>1, <1>2, <1>3, <1>4, <1>5, <1>6, <1>7, <1>8, <1>9, <1>10, <1>11, <1>12
     DEF ReaderStep, SnapshotStep, QuoteStep

(* Every variable of the order book keeps its type and no thread ever uses *)
(* an index outside the level arrays, whatever the number of threads that  *)
(* update, clear, snapshot and quote the book at once.                     *)
THEOREM TypesAndBounds == Spec => [](TypeOK /\ IndicesInBounds)
<1>1. SafeTypes /\ [Next]_vars => SafeTypes'
  <2> SUFFICES ASSUME SafeTypes, [Next]_vars PROVE SafeTypes'
    OBVIOUS
  <2>1. CASE UNCHANGED vars
    BY <2>1 DEF vars, bookVars, SafeTypes, TypeOK, IndicesInBounds
  <2>2. CASE \E w \in Writers : WriterStep(w)
    BY <2>2, WriterTypes
  <2>3. CASE \E r \in Readers : ReaderStep(r)
    BY <2>3, ReaderTypes
  <2> QED BY <2>1, <2>2, <2>3 DEF Next
<1>2. SafeTypes => TypeOK /\ IndicesInBounds
  BY DEF SafeTypes
<1> QED BY <1>1, <1>2, TypeInit, PTL DEF Spec

-----------------------------------------------------------------------------
(* The sequence lock with one writer.  The inductive invariant: the        *)
(* sequence is odd exactly while the writer is inside an operation; a      *)
(* reader started at an even sequence, not later than the current one; and *)
(* as long as the sequence is still the reader's, everything the reader    *)
(* has collected and copied is what the levels hold now.                   *)

SingleWriter == \A v, w \in Writers : v = w

ReadingPCs == {"collect", "copy", "copyquantity", "retry"}

Parity == seq % 2 = (IF Quiescent THEN 0 ELSE 1)

Started(r) == rd[r].pc \in ReadingPCs => rd[r].seq % 2 = 0 /\ rd[r].seq <= seq

(* Of a side: the entries of all its levels, and the copies of some.       *)
AllEntries(lv) == {[slot |-> i, price |-> lv[i].price] : i \in Occupied(lv)}

Copied(lv, es) ==
  {[slot |-> e.slot, price |-> e.price, quantity |-> lv[e.slot].quantity] : e \in es}

(* Of a reader's locals x against the levels lv of both sides.             *)
Current(x) == [slot |-> x.slot, price |-> x.price]

Collecting(x, lv) ==
  /\ x.todo = {e \in AllEntries(lv[x.side]) : e.slot < x.i}
  /\ x.snap[x.side] = {}

Copying(x, lv) ==
  \E kept \in Trimmed(x.side, AllEntries(lv[x.side])) :
    /\ x.todo \subseteq kept
    /\ x.snap[x.side] = Copied(lv[x.side], kept \ x.todo)

CopyingOne(x, lv) ==
  \E kept \in Trimmed(x.side, AllEntries(lv[x.side])) :
    /\ x.todo \subseteq kept
    /\ Current(x) \in kept \ x.todo
    /\ x.snap[x.side] = Copied(lv[x.side], kept \ (x.todo \union {Current(x)}))

Complete(x, lv, n) ==
  /\ x.side = "ASK"
  /\ IsSnapshotOf("ASK", lv["ASK"], x.snap["ASK"])
  /\ x.snap.sequence_number = n

Matches(x, lv, n) ==
  /\ x.side = "BID" => x.snap["ASK"] = {}
  /\ x.side = "ASK" => IsSnapshotOf("BID", lv["BID"], x.snap["BID"])
  /\ x.pc = "collect" => Collecting(x, lv)
  /\ x.pc = "copy" => Copying(x, lv)
  /\ x.pc = "copyquantity" => CopyingOne(x, lv)
  /\ x.pc = "retry" => Complete(x, lv, n)

StillValid(r) == rd[r].pc \in ReadingPCs /\ rd[r].seq = seq

LockInv ==
  /\ Parity
  /\ \A r \in Readers : Started(r)
  /\ \A r \in Readers : StillValid(r) => Matches(rd[r], level, seqno)

(* The lock starts even, with no reader under way.                         *)
LEMMA LockInit == Init => LockInv
BY DEF Init, LockInv, Parity, Quiescent, Started, StillValid, ReadingPCs, IdleWriter, IdleReader

(* Every step of the writer moves the sequence, or happens while it is odd *)
(* and therefore different from the sequence of every reader.              *)
LEMMA WriterLock ==
  ASSUME SingleWriter, SafeTypes, LockInv, NEW w \in Writers, WriterStep(w)
  PROVE  LockInv'
<1>1. /\ wr \in [Writers -> WriterType] /\ seq \in Nat
      /\ UNCHANGED <<rd, view, quote>>
      /\ \A r \in Readers : rd[r].seq \in Nat
  BY DEF SafeTypes, TypeOK, WriterStep, ReaderType
<1>2. \/ wr[w].pc = "idle" /\ wr'[w].pc # "idle" /\ seq' = seq + 1
      \/ wr[w].pc # "idle" /\ wr'[w].pc = "idle" /\ seq' = seq + 1
      \/ wr[w].pc # "idle" /\ wr'[w].pc # "idle" /\ seq' = seq
  <2>1. ASSUME NEW u \in Updates, BeginUpdate(w, u)
        PROVE  seq' = seq + 1 /\ wr[w].pc = "idle" /\ wr'[w].pc # "idle"
    BY <1>1, <2>1 DEF BeginUpdate, write_lock, IdleWriter
  <2>2. CASE BeginClear(w)
    BY <1>1, <2>2 DEF BeginClear, write_lock, GoTo, WriterType
  <2>3. CASE write_unlock(w)
    BY <1>1, <2>3 DEF write_unlock, IdleWriter
  <2>4. CASE FindLevel(w)
    BY <1>1, <2>4 DEF FindLevel, GoTo, WriterType
  <2>5. CASE MapInsert(w) \/ StorePrice(w) \/ MapRemove(w) \/ ZeroPrice(w)
    BY <1>1, <2>5 DEF MapInsert, StorePrice, MapRemove, ZeroPrice, GoTo, WriterType
  <2>6. CASE StoreQuantity(w)
    BY <1>1, <2>6 DEF StoreQuantity, GoTo, WriterType
  <2>7. CASE UpdateBest(w) \/ CountUpdate(w)
    BY <1>1, <2>7 DEF UpdateBest, CountUpdate, GoTo, WriterType
  <2>8. CASE ClearStore(w)
    BY <1>1, <2>8 DEF ClearStore, WriterType
  <2>9. CASE ClearMaps(w) \/ ClearBestBid(w) \/ ClearBestAsk(w)
    BY <1>1, <2>9 DEF ClearMaps, ClearBestBid, ClearBestAsk, GoTo, WriterType
  <2> QED
    BY <2>1, <2>2, <2>3, <2>4, <2>5, <2>6, <2>7, <2>8, <2>9
       DEF WriterStep, UpdateStep, ClearStep
<1>3. (Quiescent <=> wr[w].pc = "idle") /\ (Quiescent' <=> wr'[w].pc = "idle")
  BY DEF SingleWriter, Quiescent
<1>4. Parity'
  BY <1>1, <1>2, <1>3 DEF LockInv, Parity
<1>5. \A r \in Readers : Started(r)' /\ ~StillValid(r)'
  <2> TAKE r \in Readers
  <2>1. rd'[r] = rd[r]
    BY <1>1
  <2>2. CASE rd[r].pc \notin ReadingPCs
    BY <2>1, <2>2 DEF Started, StillValid
  <2>3. CASE rd[r].pc \in ReadingPCs
    <3>1. rd[r].seq % 2 = 0 /\ rd[r].seq <= seq
      BY <2>3 DEF LockInv, Started
    <3>2. seq' # rd[r].seq /\ rd[r].seq <= seq'
      BY <1>1, <1>2, <1>3, <3>1 DEF LockInv, Parity
    <3> QED BY <2>1, <3>1, <3>2 DEF Started, StillValid
  <2> QED BY <2>2, <2>3
<1> QED BY <1>4, <1>5 DEF LockInv

(* A side that has been copied completely is a snapshot of it.             *)
LEMMA CopiedAll ==
  ASSUME NEW x \in ReaderType, NEW lv, Copying(x, lv), x.todo = {}
  PROVE  IsSnapshotOf(x.side, lv[x.side], x.snap[x.side])
<1>1. PICK kept \in Trimmed(x.side, AllEntries(lv[x.side])) :
        x.snap[x.side] = Copied(lv[x.side], kept \ {})
  BY DEF Copying
<1>2. kept \ {} = kept
  OBVIOUS
<1> QED BY <1>1, <1>2 DEF IsSnapshotOf, AllEntries, Copied

(* Between read_begin and read_retry a reader keeps the sequence at which  *)
(* it started.                                                             *)
LEMMA KeepsSequence ==
  ASSUME rd \in [Readers -> ReaderType], NEW r \in Readers, SnapshotStep(r),
         ~read_begin(r), ~read_retry(r)
  PROVE  rd'[r].seq = rd[r].seq /\ rd[r].pc \in ReadingPCs
<1>1. CASE CollectSlot(r)
  BY <1>1 DEF CollectSlot, ReaderType, ReadingPCs
<1>2. CASE SortAndTrim(r)
  BY <1>2 DEF SortAndTrim, ReaderType, ReadingPCs
<1>3. CASE CopyPrice(r)
  BY <1>3 DEF CopyPrice, ReaderType, ReadingPCs
<1>4. CASE CopyQuantity(r)
  BY <1>4 DEF CopyQuantity, ReaderType, ReadingPCs
<1>5. CASE NextSide(r)
  BY <1>5 DEF NextSide, ReaderType, ReadingPCs
<1>6. CASE LoadSequenceNumber(r)
  BY <1>6 DEF LoadSequenceNumber, ReaderType, ReadingPCs
<1> QED BY <1>1, <1>2, <1>3, <1>4, <1>5, <1>6 DEF SnapshotStep

(* A step of a reader keeps its locals in agreement with the levels.       *)
LEMMA ReaderMatches ==
  ASSUME SafeTypes, LockInv, NEW r \in Readers, SnapshotStep(r),
         UNCHANGED <<bookVars, seq, wr, committed>>, StillValid(r)'
  PROVE  Matches(rd'[r], level, seqno) /\ rd'[r].seq % 2 = 0 /\ rd'[r].seq <= seq
<1> DEFINE x == rd[r]
           s == rd[r].side
           lv == level[rd[r].side]
<1>0. /\ rd \in [Readers -> ReaderType] /\ x \in ReaderType /\ seq \in Nat
      /\ level \in [Sides -> Levels] /\ s \in Sides /\ lv \in Levels
  BY DEF SafeTypes, TypeOK, Levels, ReaderType
<1>1. CASE read_begin(r)
  <2>1. rd'[r] = [IdleReader EXCEPT !.pc = "collect", !.seq = seq] /\ seq % 2 = 0
    BY <1>0, <1>1 DEF read_begin
  <2>2. /\ rd'[r].pc = "collect" /\ rd'[r].side = "BID" /\ rd'[r].todo = {}
        /\ rd'[r].i = 0 /\ rd'[r].snap["BID"] = {} /\ rd'[r].snap["ASK"] = {}
        /\ rd'[r].seq = seq
    BY <2>1 DEF IdleReader, EmptySnapshot
  <2>3. {e \in AllEntries(level["BID"]) : e.slot < 0} = {}
    <3>1. level["BID"] \in Levels
      BY <1>0 DEF Sides
    <3>2. \A e \in AllEntries(level["BID"]) : e.slot \in Slots
      BY <3>1 DEF AllEntries, Occupied
    <3> QED BY <3>2 DEF Slots
  <2>4. Collecting(rd'[r], level)
    BY <2>2, <2>3 DEF Collecting
  <2> QED BY <1>0, <2>1, <2>2, <2>4 DEF Matches
<1>2. CASE ~read_begin(r)
  <2>0. x.pc \in ReadingPCs
    BY <1>2 DEF SnapshotStep, CollectSlot, SortAndTrim, CopyPrice, CopyQuantity, NextSide,
                LoadSequenceNumber, read_retry, ReadingPCs
  <2>1. ~read_retry(r)
    BY <1>0 DEF read_retry, StillValid, ReadingPCs, IdleReader
  <2>2. rd'[r].seq = x.seq
    BY <1>0, <1>2, <2>1, KeepsSequence
  <2>3. StillValid(r) /\ x.seq % 2 = 0 /\ x.seq <= seq
    BY <2>0, <2>2 DEF StillValid, LockInv, Started
  <2>4. Matches(x, level, seqno)
    BY <2>3 DEF LockInv
  <2>5. CASE CollectSlot(r)
    <3> DEFINE price == lv[x.i].price
               todo == IF price > 0 THEN x.todo \union {[slot |-> x.i, price |-> price]} ELSE x.todo
    <3>1. x.pc = "collect" /\ x.i \in Slots /\ x.i + 1 \in 0 .. MaxLevels
      BY <1>0, <2>5, BookAssumption DEF CollectSlot, ReaderType, Slots
    <3>2. rd'[r] = [x EXCEPT !.i = x.i + 1, !.todo = todo]
      BY <1>0, <2>5 DEF CollectSlot, ReaderType
    <3>3. x.todo = {e \in AllEntries(lv) : e.slot < x.i} /\ x.snap[s] = {}
      BY <2>4, <3>1 DEF Matches, Collecting
    <3>4. todo = {e \in AllEntries(lv) : e.slot < x.i + 1}
      <4>1. \A e \in AllEntries(lv) : e.slot \in Slots /\ e = [slot |-> e.slot, price |-> lv[e.slot].price]
        BY <1>0 DEF AllEntries, Occupied
      <4>2. \A e \in AllEntries(lv) : e.slot < x.i + 1 <=> (e.slot < x.i \/ e.slot = x.i)
        BY <3>1, <4>1 DEF Slots
      <4>3. CASE price > 0
        <5>1. [slot |-> x.i, price |-> price] \in AllEntries(lv)
          BY <3>1, <4>3 DEF AllEntries, Occupied
        <5> QED BY <3>3, <4>1, <4>2, <4>3, <5>1
      <4>4. CASE ~(price > 0)
        <5>1. \A e \in AllEntries(lv) : e.slot # x.i
          BY <4>4 DEF AllEntries, Occupied
        <5> QED BY <3>3, <4>2, <4>4, <5>1
      <4> QED BY <4>3, <4>4
    <3> HIDE DEF todo
    <3>5. /\ rd'[r].pc = "collect" /\ rd'[r].side = s /\ rd'[r].snap = x.snap
          /\ rd'[r].i = x.i + 1 /\ rd'[r].todo = todo
      BY <1>0, <3>1, <3>2 DEF ReaderType
    <3>6. Collecting(rd'[r], level)
      BY <3>3, <3>4, <3>5 DEF Collecting
    <3> QED BY <2>2, <2>3, <2>4, <3>5, <3>6 DEF Matches
  <2>6. CASE SortAndTrim(r)
    <3>1. PICK kept \in Trimmed(s, x.todo) : rd' = [rd EXCEPT ![r].todo = kept, ![r].pc = "copy"]
      BY <2>6 DEF SortAndTrim
    <3>2. /\ rd'[r].pc = "copy" /\ rd'[r].side = s /\ rd'[r].snap = x.snap
          /\ rd'[r].todo = kept
      BY <1>0, <3>1 DEF ReaderType
    <3>3. x.todo = {e \in AllEntries(lv) : e.slot < x.i} /\ x.snap[s] = {} /\ x.i = MaxLevels
      BY <2>4, <2>6 DEF Matches, Collecting, SortAndTrim
    <3>4. x.todo = AllEntries(lv)
      <4>1. \A e \in AllEntries(lv) : e.slot \in Slots
        BY DEF AllEntries, Occupied
      <4> QED BY <3>3, <4>1, BookAssumption DEF Slots
    <3>5. Copied(lv, kept \ kept) = {}
      BY DEF Copied
    <3>6. Copying(rd'[r], level)
      BY <3>1, <3>2, <3>3, <3>4, <3>5 DEF Copying
    <3> QED BY <2>2, <2>3, <2>4, <3>2, <3>6 DEF Matches
  <2>7. CASE CopyPrice(r)
    <3>1. PICK e \in x.todo :
            rd' = [rd EXCEPT ![r].slot = e.slot, ![r].price = lv[e.slot].price,
                             ![r].todo = @ \ {e}, ![r].pc = "copyquantity"]
      BY <2>7 DEF CopyPrice
    <3>2. /\ rd'[r].pc = "copyquantity" /\ rd'[r].side = s /\ rd'[r].snap = x.snap
          /\ rd'[r].todo = x.todo \ {e}
          /\ rd'[r].slot = e.slot /\ rd'[r].price = lv[e.slot].price
      BY <1>0, <3>1 DEF ReaderType
    <3>3. PICK kept \in Trimmed(s, AllEntries(lv)) :
            x.todo \subseteq kept /\ x.snap[s] = Copied(lv, kept \ x.todo)
      BY <2>4, <2>7 DEF Matches, Copying, CopyPrice
    <3>4. e \in AllEntries(lv)
      BY <3>1, <3>3 DEF Trimmed
    <3>5. Current(rd'[r]) = e
      BY <3>2, <3>4 DEF Current, AllEntries
    <3>6. kept \ ((x.todo \ {e}) \union {e}) = kept \ x.todo
      BY <3>1
    <3>7. CopyingOne(rd'[r], level)
      BY <3>1, <3>2, <3>3, <3>5, <3>6 DEF CopyingOne
    <3> QED BY <2>2, <2>3, <2>4, <3>2, <3>7 DEF Matches
  <2>8. CASE CopyQuantity(r)
    <3> DEFINE entry == [slot |-> x.slot, price |-> x.price, quantity |-> lv[x.slot].quantity]
               snap == [x.snap EXCEPT ![s] = @ \union {entry}]
    <3>1. /\ x.pc = "copyquantity"
          /\ rd'[r] = [x EXCEPT !.snap = snap, !.slot = SIZE_MAX, !.price = 0, !.pc = "copy"]
      BY <1>0, <2>8 DEF CopyQuantity, ReaderType
    <3>2. PICK kept \in Trimmed(s, AllEntries(lv)) :
            /\ x.todo \subseteq kept /\ Current(x) \in kept \ x.todo
            /\ x.snap[s] = Copied(lv, kept \ (x.todo \union {Current(x)}))
      BY <2>4, <3>1 DEF Matches, CopyingOne
    <3>3. /\ snap[s] = x.snap[s] \union {entry}
          /\ s = "ASK" => snap["BID"] = x.snap["BID"]
          /\ s = "BID" => snap["ASK"] = x.snap["ASK"]
      BY <1>0 DEF ReaderType, SnapshotType, Sides
    <3>4. x.snap[s] \union {entry} = Copied(lv, kept \ x.todo)
      <4>1. kept \ x.todo = (kept \ (x.todo \union {Current(x)})) \union {Current(x)}
        BY <3>2
      <4>2. entry = [slot |-> Current(x).slot, price |-> Current(x).price,
                     quantity |-> lv[Current(x).slot].quantity]
        BY DEF Current
      <4>3. Copied(lv, kept \ x.todo) = Copied(lv, kept \ (x.todo \union {Current(x)})) \union {entry}
        BY <4>1, <4>2 DEF Copied
      <4> QED BY <3>2, <4>3
    <3> HIDE DEF snap
    <3>5. /\ rd'[r].pc = "copy" /\ rd'[r].side = s /\ rd'[r].snap = snap /\ rd'[r].todo = x.todo
      BY <1>0, <3>1 DEF ReaderType
    <3>6. Copying(rd'[r], level)
      BY <3>2, <3>3, <3>4, <3>5 DEF Copying
    <3> QED BY <2>2, <2>3, <2>4, <3>3, <3>5, <3>6 DEF Matches
  <2>9. CASE NextSide(r)
    <3>1. x.pc = "copy" /\ x.todo = {} /\ s = "BID"
      BY <2>9 DEF NextSide
    <3>2. /\ rd'[r].pc = "collect" /\ rd'[r].side = "ASK" /\ rd'[r].i = 0
          /\ rd'[r].snap = x.snap /\ rd'[r].todo = {}
      BY <1>0, <2>9 DEF NextSide, ReaderType
    <3>3. IsSnapshotOf("BID", level["BID"], x.snap["BID"]) /\ x.snap["ASK"] = {}
      BY <1>0, <2>4, <3>1, CopiedAll DEF Matches
    <3>4. {e \in AllEntries(level["ASK"]) : e.slot < 0} = {}
      <4>1. \A e \in AllEntries(level["ASK"]) : e.slot \in Slots
        BY DEF AllEntries, Occupied
      <4> QED BY <4>1 DEF Slots
    <3>5. Collecting(rd'[r], level)
      BY <3>2, <3>3, <3>4 DEF Collecting
    <3> QED BY <2>2, <2>3, <3>2, <3>3, <3>5 DEF Matches
  <2>10. CASE LoadSequenceNumber(r)
    <3>1. x.pc = "copy" /\ x.todo = {} /\ s = "ASK"
      BY <2>10 DEF LoadSequenceNumber
    <3>2. /\ rd'[r].pc = "retry" /\ rd'[r].side = "ASK"
          /\ rd'[r].snap["BID"] = x.snap["BID"] /\ rd'[r].snap["ASK"] = x.snap["ASK"]
          /\ rd'[r].snap.sequence_number = seqno
      BY <1>0, <2>10, <3>1 DEF LoadSequenceNumber, ReaderType, SnapshotType
    <3>3. IsSnapshotOf("ASK", level["ASK"], x.snap["ASK"])
      BY <1>0, <2>4, <3>1, CopiedAll DEF Matches
    <3>4. Complete(rd'[r], level, seqno)
      BY <3>2, <3>3 DEF Complete
    <3> QED BY <2>2, <2>3, <2>4, <3>1, <3>2, <3>4 DEF Matches
  <2> QED BY <1>2, <2>1, <2>5, <2>6, <2>7, <2>8, <2>9, <2>10 DEF SnapshotStep
<1> QED BY <1>1, <1>2

(* A step of a reader leaves the lock, the levels and other readers alone. *)
LEMMA ReaderLock ==
  ASSUME SafeTypes, LockInv, NEW r \in Readers, ReaderStep(r)
  PROVE  LockInv'
<1>0. /\ UNCHANGED <<bookVars, seq, wr, committed>>
      /\ rd \in [Readers -> ReaderType]
  BY DEF ReaderStep, SafeTypes, TypeOK
<1>1. level' = level /\ seqno' = seqno /\ seq' = seq /\ Parity'
  BY <1>0 DEF bookVars, LockInv, Parity, Quiescent
<1>2. \A q \in Readers \ {r} : rd'[q] = rd[q]
  BY <1>0 DEF ReaderStep, SnapshotStep, QuoteStep, read_begin, CollectSlot, SortAndTrim,
       CopyPrice, CopyQuantity, NextSide, LoadSequenceNumber, read_retry, LoadBestBid,
       LoadBestAsk, LoadBidPrice, LoadAskPrice
<1>3. ASSUME NEW q \in Readers \ {r}
      PROVE  Started(q)' /\ (StillValid(q)' => Matches(rd'[q], level', seqno'))
  BY <1>1, <1>2, <1>3 DEF LockInv, Started, StillValid
<1>4. Started(r)' /\ (StillValid(r)' => Matches(rd'[r], level', seqno'))
  <2>1. CASE QuoteStep(r)
    <3>1. rd'[r].pc \notin ReadingPCs
      BY <1>0, <2>1 DEF QuoteStep, LoadBestBid, LoadBestAsk, LoadBidPrice, LoadAskPrice,
                        ReadingPCs, IdleReader, ReaderType
    <3> QED BY <3>1 DEF Started, StillValid
  <2>2. CASE SnapshotStep(r)
    <3>1. StillValid(r)' => /\ Matches(rd'[r], level, seqno)
                            /\ rd'[r].seq % 2 = 0 /\ rd'[r].seq <= seq
      BY <1>0, <2>2, ReaderMatches
    <3>2. rd'[r].pc \in ReadingPCs =>
             \/ rd'[r].seq = seq /\ seq % 2 = 0
             \/ rd'[r].seq = rd[r].seq /\ rd[r].pc \in ReadingPCs
      <4>1. CASE read_begin(r)
        BY <1>0, <4>1 DEF read_begin, IdleReader
      <4>2. CASE read_retry(r)
        BY <1>0, <4>2 DEF read_retry, IdleReader, ReadingPCs
      <4>3. CASE ~read_begin(r) /\ ~read_retry(r)
        BY <1>0, <2>2, <4>3, KeepsSequence
      <4> QED BY <4>1, <4>2, <4>3
    <3>3. Started(r)'
      <4>1. Started(r)
        BY DEF LockInv
      <4>2. seq \in Nat /\ seq' = seq
        BY <1>1 DEF SafeTypes, TypeOK
      <4> QED BY <3>2, <4>1, <4>2 DEF Started
    <3> QED BY <1>1, <3>1, <3>3
  <2> QED BY <2>1, <2>2 DEF ReaderStep
<1> QED BY <1>1, <1>3, <1>4 DEF LockInv

(* The invariant of the sequence lock is inductive.                        *)
LEMMA LockStep ==
  ASSUME SingleWriter, SafeTypes, LockInv, [Next]_vars
  PROVE  LockInv'
<1>1. CASE UNCHANGED vars
  <2>1. UNCHANGED <<level, seqno, seq, wr, rd>>
    BY <1>1 DEF vars, bookVars
  <2> QED BY <2>1 DEF LockInv, Parity, Quiescent, Started, StillValid
<1>2. CASE \E w \in Writers : WriterStep(w)
  BY <1>2, WriterLock
<1>3. CASE \E r \in Readers : ReaderStep(r)
  BY <1>3, ReaderLock
<1> QED BY <1>1, <1>2, <1>3 DEF Next

(* A snapshot that is returned is that of the levels at this moment, with  *)
(* no write operation in progress.                                         *)
LEMMA RetryIsExact ==
  ASSUME SafeTypes, LockInv, [Next]_vars, NEW r \in Readers, view'[r] # view[r]
  PROVE  /\ Quiescent
         /\ \A s \in Sides : IsSnapshotOf(s, level[s], view'[r][s])
         /\ view'[r].sequence_number = seqno
<1>1. read_retry(r)
  <2>1. view \in [Readers -> SnapshotType]
    BY DEF SafeTypes, TypeOK
  <2>2. PICK q \in Readers : ReaderStep(q)
    BY DEF Next, WriterStep, vars
  <2>3. read_retry(q)
    BY <2>2 DEF ReaderStep, SnapshotStep, QuoteStep, read_begin, CollectSlot, SortAndTrim,
       CopyPrice, CopyQuantity, NextSide, LoadSequenceNumber, LoadBestBid,
       LoadBestAsk, LoadBidPrice, LoadAskPrice
  <2> QED BY <2>1, <2>3 DEF read_retry
<1>2. /\ rd[r].pc = "retry" /\ rd[r].seq = seq /\ view'[r] = rd[r].snap
  BY <1>1 DEF read_retry, SafeTypes, TypeOK
<1>3. StillValid(r) /\ Started(r) /\ Matches(rd[r], level, seqno)
  BY <1>2 DEF LockInv, StillValid, ReadingPCs
<1>4. Quiescent
  BY <1>2, <1>3 DEF Started, ReadingPCs, LockInv, Parity
<1>5. /\ IsSnapshotOf("BID", level["BID"], rd[r].snap["BID"])
      /\ IsSnapshotOf("ASK", level["ASK"], rd[r].snap["ASK"])
      /\ rd[r].snap.sequence_number = seqno
  BY <1>2, <1>3 DEF Matches, Complete
<1> QED BY <1>2, <1>4, <1>5 DEF Sides

(* With one writer, every snapshot get_snapshot returns is what the book   *)
(* holds at the moment the sequence is validated, for any number of        *)
(* readers, any capacity and depth and any updates, collisions in the      *)
(* price map included: the sequence lock alone makes it so.                *)
THEOREM SnapshotsAreExact ==
  ASSUME SingleWriter
  PROVE  Spec => SnapshotExact
<1>1. SafeTypes /\ LockInv /\ [Next]_vars => LockInv'
  BY LockStep
<1> DEFINE Exact == \A r \in Readers : view'[r] # view[r] =>
                      /\ Quiescent
                      /\ \A s \in Sides : IsSnapshotOf(s, level[s], view'[r][s])
                      /\ view'[r].sequence_number = seqno
<1>2. SafeTypes /\ LockInv /\ [Next]_vars => [Exact]_view
  BY RetryIsExact
<1>3. Spec => []SafeTypes
  BY TypesAndBounds, PTL DEF SafeTypes
<1> QED BY <1>1, <1>2, <1>3, LockInit, PTL DEF Spec, SnapshotExact

-----------------------------------------------------------------------------
(* The price map. Two attempts of a probe inspect two buckets.             *)
LEMMA ProbesDiffer ==
  ASSUME NEW p \in Nat, NEW a \in Buckets, NEW c \in Buckets, Probe(p, a) = Probe(p, c)
  PROVE  a = c
<1> DEFINE h == hash(p)
<1>1. h \in 0 .. TableSize - 1
  BY TableAssumption DEF hash
<1> HIDE DEF h
<1>2. a \in 0 .. TableSize - 1 /\ c \in 0 .. TableSize - 1
  BY DEF Buckets
<1>3. (h + a) % TableSize = (h + c) % TableSize
  BY DEF Probe, h
<1> QED BY <1>1, <1>2, <1>3, TableAssumption

(* The first attempt inspects the home bucket.                             *)
LEMMA HomeFirst ==
  ASSUME NEW p \in Nat
  PROVE  Probe(p, 0) = hash(p) /\ 0 \in Buckets
BY TableAssumption DEF Probe, hash, Buckets

(* The prices of the slots of a side.                                      *)
Held(lv) == [i \in Slots |-> lv[i].price]

Put(pr, i, p) == [pr EXCEPT ![i] = p]

Listings == [Slots -> Nat]

(* No price is held twice.                                                 *)
Distinct(pr) ==
  \A i, j \in Slots : pr[i] # 0 /\ pr[i] = pr[j] => i = j

(* The attempt-th step of a probe for p is at its entry, past full ones.   *)
Reaches(t, p, a) ==
  /\ t[Probe(p, a)].price = p
  /\ \A c \in Buckets : c < a => t[Probe(p, c)].price # 0

(* Every entry of the map is of a slot that holds its price, no price has  *)
(* two entries, and a probe for a price that is held reaches its entry.    *)
Mapped(pr, t) ==
  /\ \A b \in Buckets : t[b].price # 0 => t[b].index \in Slots /\ pr[t[b].index] = t[b].price
  /\ \A b, c \in Buckets : t[b].price # 0 /\ t[b].price = t[c].price => b = c
  /\ \A i \in Slots : pr[i] # 0 => \E a \in Buckets : Reaches(t, pr[i], a)

(* Where a probe for a price stops.                                        *)
LEMMA FirstStop ==
  ASSUME NEW t \in Tables, NEW p \in Nat, NEW a \in Stops(t, p)
  PROVE  \E m \in Buckets :
           /\ StopBucket(t, p) = Probe(p, m) /\ Probe(p, m) \in Buckets /\ m <= a
           /\ t[Probe(p, m)].price \in {0, p}
           /\ \A c \in Buckets : c < m => t[Probe(p, c)].price \notin {0, p}
<1> DEFINE m == Min(Stops(t, p))
<1>1. Stops(t, p) \subseteq Nat /\ Stops(t, p) # {}
  BY DEF Stops, Buckets
<1>2. m \in Stops(t, p) /\ \A y \in Stops(t, p) : m <= y
  BY <1>1, MinIsElement
<1>3. m \in Buckets /\ t[Probe(p, m)].price \in {0, p} /\ StopBucket(t, p) = Probe(p, m)
  BY <1>2 DEF Stops, StopBucket
<1>4. Probe(p, m) \in Buckets
  BY <1>3, ProbeInTable DEF Buckets
<1>5. ASSUME NEW c \in Buckets, c < m PROVE t[Probe(p, c)].price \notin {0, p}
  <2>1. c \notin Stops(t, p)
    BY <1>2, <1>5, <1>3 DEF Buckets
  <2> QED BY <2>1 DEF Stops
<1> QED BY <1>2, <1>3, <1>4, <1>5

(* find returns the slot of a price that is held, and nothing for another. *)
LEMMA FindIsRight ==
  ASSUME NEW t \in Tables, NEW pr \in Listings, NEW p \in Nat \ {0},
         Mapped(pr, t), Distinct(pr)
  PROVE  /\ \A i \in Slots : pr[i] = p => find(t, p) = i /\ Stops(t, p) # {}
                                          /\ t[StopBucket(t, p)].price = p
         /\ (\A i \in Slots : pr[i] # p) => find(t, p) = SIZE_MAX
<1>1. ASSUME NEW i \in Slots, pr[i] = p
      PROVE  find(t, p) = i /\ Stops(t, p) # {} /\ t[StopBucket(t, p)].price = p
  <2>1. PICK a \in Buckets : Reaches(t, p, a)
    BY <1>1 DEF Mapped
  <2>2. a \in Stops(t, p)
    BY <2>1 DEF Reaches, Stops
  <2>3. PICK m \in Buckets : /\ StopBucket(t, p) = Probe(p, m) /\ Probe(p, m) \in Buckets /\ m <= a
                             /\ t[Probe(p, m)].price \in {0, p}
    BY <2>2, FirstStop
  <2>4. t[Probe(p, m)].price = p
    BY <2>1, <2>3 DEF Reaches, Buckets
  <2>5. t[Probe(p, m)].index \in Slots /\ pr[t[Probe(p, m)].index] = p
    BY <2>3, <2>4 DEF Mapped
  <2>6. t[Probe(p, m)].index = i
    BY <1>1, <2>5 DEF Distinct
  <2> QED BY <2>2, <2>3, <2>4, <2>6 DEF find
<1>2. ASSUME \A i \in Slots : pr[i] # p PROVE find(t, p) = SIZE_MAX
  <2>1. SUFFICES ASSUME Stops(t, p) # {} PROVE t[StopBucket(t, p)].price # p
    BY DEF find
  <2>2. StopBucket(t, p) \in Buckets
    BY <2>1, StopInTable
  <2> QED BY <1>2, <2>2 DEF Mapped
<1> QED BY <1>1, <1>2

(* The array has MaxLevels slots.                                          *)
LEMMA SlotCount == IsFiniteSet(Slots) /\ Cardinality(Slots) = MaxLevels
<1>1. 0 \in Int /\ MaxLevels - 1 \in Int /\ MaxLevels \in Nat \ {0}
  BY BookAssumption
<1>2. /\ IsFiniteSet(0 .. MaxLevels - 1)
      /\ Cardinality(0 .. MaxLevels - 1) = IF 0 > MaxLevels - 1 THEN 0 ELSE (MaxLevels - 1) - 0 + 1
  BY <1>1, FS_Interval
<1> QED BY <1>1, <1>2 DEF Slots

(* A map of slots of which at least one is free has room.                  *)
LEMMA MapHasRoom ==
  ASSUME NEW t \in Tables, NEW pr \in Listings, NEW p \in Nat \ {0}, NEW i \in Slots,
         Mapped(pr, t), pr[i] = 0, MaxLevels <= TableSize
  PROVE  Stops(t, p) # {}
<1> SUFFICES ASSUME Stops(t, p) = {} PROVE FALSE
  OBVIOUS
<1> DEFINE f == [a \in Buckets |-> t[Probe(p, a)].index]
<1>1. ASSUME NEW a \in Buckets
      PROVE  /\ Probe(p, a) \in Buckets /\ t[Probe(p, a)].price # 0
             /\ f[a] \in Slots \ {i} /\ pr[f[a]] = t[Probe(p, a)].price
  <2>1. Probe(p, a) \in Buckets
    <3>1. a \in Nat /\ p \in Nat
      BY DEF Buckets
    <3> QED BY <3>1, ProbeInTable
  <2>2. t[Probe(p, a)].price # 0
    BY DEF Stops
  <2> QED BY <2>1, <2>2 DEF Mapped
<1>2. ASSUME NEW a \in Buckets, NEW c \in Buckets, f[a] = f[c] PROVE a = c
  <2> HIDE DEF f
  <2>1. t[Probe(p, a)].price = t[Probe(p, c)].price
    BY <1>1, <1>2
  <2>2. Probe(p, a) = Probe(p, c)
    BY <1>1, <2>1 DEF Mapped
  <2> QED BY <2>2, ProbesDiffer
<1>3. f \in Injection(Buckets, Slots \ {i})
  BY <1>1, <1>2 DEF Injection, IsInjective
<1>4. IsFiniteSet(Slots) /\ Cardinality(Slots) = MaxLevels
  BY SlotCount
<1>5. IsFiniteSet(Buckets) /\ Cardinality(Buckets) = TableSize
  BY FS_Interval, TableAssumption DEF Buckets
<1>6. IsFiniteSet(Slots \ {i}) /\ Cardinality(Slots \ {i}) = MaxLevels - 1
  BY <1>4, FS_RemoveElement
<1>7. Cardinality(Buckets) <= Cardinality(Slots \ {i})
  BY <1>3, <1>6, FS_Injection
<1> QED BY <1>5, <1>6, <1>7, TableAssumption, BookAssumption

(* insert: the map of a price that takes a free slot.                      *)
LEMMA InsertMaps ==
  ASSUME NEW t \in Tables, NEW pr \in Listings, NEW p \in Nat \ {0}, NEW i \in Slots,
         Mapped(pr, t), pr[i] = 0, \A j \in Slots : pr[j] # p, MaxLevels <= TableSize
  PROVE  Mapped(Put(pr, i, p), insert(t, p, i))
<1> DEFINE u == insert(t, p, i)
           q == Put(pr, i, p)
<1>1. PICK a \in Stops(t, p) : TRUE
  BY MapHasRoom
<1>2. PICK m \in Buckets :
           /\ StopBucket(t, p) = Probe(p, m) /\ Probe(p, m) \in Buckets
           /\ t[Probe(p, m)].price \in {0, p}
           /\ \A c \in Buckets : c < m => t[Probe(p, c)].price \notin {0, p}
  BY <1>1, FirstStop
<1> DEFINE B == Probe(p, m)
<1>3. B \in Buckets /\ t[B].price = 0
  BY <1>2 DEF Mapped
<1>4. u = [t EXCEPT ![B] = [price |-> p, index |-> i]]
  BY <1>1, <1>2 DEF insert
<1>5. u[B] = [price |-> p, index |-> i] /\ \A b \in Buckets \ {B} : u[b] = t[b]
  BY <1>3, <1>4 DEF Tables
<1>6. q[i] = p /\ \A j \in Slots \ {i} : q[j] = pr[j]
  BY DEF Put, Listings
<1>7. \A b \in Buckets : t[b].price # p
  BY DEF Mapped
<1> HIDE DEF u, q
<1>8. \A b \in Buckets : u[b].price # 0 => u[b].index \in Slots /\ q[u[b].index] = u[b].price
  BY <1>3, <1>5, <1>6 DEF Mapped
<1>9. \A b, c \in Buckets : u[b].price # 0 /\ u[b].price = u[c].price => b = c
  BY <1>3, <1>5, <1>7 DEF Mapped
<1>10. ASSUME NEW j \in Slots, q[j] # 0
       PROVE  \E n \in Buckets : Reaches(u, q[j], n)
  <2>1. CASE j = i
    <3>1. ASSUME NEW c \in Buckets, c < m PROVE u[Probe(p, c)].price # 0
      <4>1. Probe(p, c) \in Buckets
        BY ProbeInTable DEF Buckets
      <4> QED BY <1>2, <1>5, <3>1, <4>1
    <3> QED BY <1>5, <1>6, <2>1, <3>1 DEF Reaches
  <2>2. CASE j # i
    <3>1. q[j] = pr[j] /\ pr[j] \in Nat
      BY <1>6, <2>2 DEF Listings
    <3>2. PICK n \in Buckets : Reaches(t, pr[j], n)
      BY <1>10, <3>1 DEF Mapped
    <3>3. \A c \in Buckets : Probe(pr[j], c) \in Buckets
      BY <3>1, ProbeInTable DEF Buckets
    <3>4. Reaches(u, pr[j], n)
      BY <1>3, <1>5, <1>10, <3>1, <3>2, <3>3 DEF Reaches
    <3> QED BY <3>1, <3>4
  <2> QED BY <2>1, <2>2
<1> QED BY <1>8, <1>9, <1>10 DEF Mapped, u, q

(* remove: the map of a price that leaves its slot, when the probes for    *)
(* all other prices still find what they found.                            *)
LEMMA RemoveMaps ==
  ASSUME NEW t \in Tables, NEW pr \in Listings, NEW p \in Nat \ {0}, NEW i \in Slots,
         Mapped(pr, t), Distinct(pr), pr[i] = p,
         \A j \in Slots \ {i} : pr[j] # 0 => find(remove(t, p), pr[j]) = find(t, pr[j])
  PROVE  Mapped(Put(pr, i, 0), remove(t, p))
<1> DEFINE u == remove(t, p)
           q == Put(pr, i, 0)
           B == StopBucket(t, p)
<1>1. Stops(t, p) # {} /\ t[B].price = p
  BY FindIsRight
<1>2. B \in Buckets
  BY <1>1, StopInTable
<1>3. u = [t EXCEPT ![B] = EmptyEntry]
  BY <1>1 DEF remove
<1> HIDE DEF B
<1>4. u[B] = EmptyEntry /\ u[B].price = 0 /\ \A b \in Buckets \ {B} : u[b] = t[b]
  BY <1>2, <1>3 DEF Tables, EmptyEntry
<1>5. q[i] = 0 /\ \A j \in Slots \ {i} : q[j] = pr[j]
  BY DEF Put, Listings
<1>6. u \in Tables
  BY MapTypes DEF Indices
<1> HIDE DEF u, q
<1>7. ASSUME NEW b \in Buckets, u[b].price # 0
      PROVE  u[b].index \in Slots /\ q[u[b].index] = u[b].price
  <2>1. b # B /\ u[b] = t[b]
    BY <1>4, <1>7
  <2>2. t[b].index \in Slots /\ pr[t[b].index] = t[b].price
    BY <1>7, <2>1 DEF Mapped
  <2>3. t[b].index # i
    BY <1>1, <1>2, <1>7, <2>1, <2>2 DEF Mapped
  <2> QED BY <1>5, <2>1, <2>2, <2>3
<1>8. \A b, c \in Buckets : u[b].price # 0 /\ u[b].price = u[c].price => b = c
  BY <1>4 DEF Mapped
<1>9. ASSUME NEW j \in Slots, q[j] # 0
      PROVE  \E n \in Buckets : Reaches(u, q[j], n)
  <2>1. j # i /\ q[j] = pr[j] /\ pr[j] \in Nat \ {0}
    BY <1>5, <1>9 DEF Listings
  <2>2. find(t, pr[j]) = j
    BY <2>1, FindIsRight
  <2>3. find(u, pr[j]) = j /\ j # SIZE_MAX
    BY <2>1, <2>2, TableAssumption DEF u, Slots
  <2>4. Stops(u, pr[j]) # {} /\ u[StopBucket(u, pr[j])].price = pr[j]
    BY <2>3 DEF find
  <2>5. PICK a \in Stops(u, pr[j]) : TRUE
    BY <2>4
  <2>6. pr[j] \in Nat
    BY <2>1
  <2>7. PICK m \in Buckets :
           /\ StopBucket(u, pr[j]) = Probe(pr[j], m)
           /\ \A c \in Buckets : c < m => u[Probe(pr[j], c)].price \notin {0, pr[j]}
    BY <1>6, <2>5, <2>6, FirstStop
  <2>8. Reaches(u, pr[j], m)
    BY <2>4, <2>7 DEF Reaches
  <2> QED BY <2>1, <2>8
<1> QED BY <1>7, <1>8, <1>9 DEF Mapped, u, q

(* A price is never further from its home than there are slots.            *)
LEMMA ChainIsShort ==
  ASSUME NEW t \in Tables, NEW pr \in Listings, NEW p \in Nat \ {0}, NEW a \in Buckets,
         Mapped(pr, t), Reaches(t, p, a)
  PROVE  a < MaxLevels
<1> DEFINE f == [c \in 0 .. a |-> t[Probe(p, c)].index]
<1>0. p \in Nat /\ a \in Nat /\ 0 .. a \subseteq Buckets /\ MaxLevels \in Nat
  <2>1. a \in 0 .. TableSize - 1 /\ TableSize \in Nat
    BY TableAssumption DEF Buckets
  <2>2. 0 .. a \subseteq 0 .. TableSize - 1
    BY <2>1
  <2> QED BY <2>1, <2>2, BookAssumption DEF Buckets
<1>1. ASSUME NEW c \in 0 .. a
      PROVE  /\ c \in Buckets /\ Probe(p, c) \in Buckets /\ t[Probe(p, c)].price # 0
             /\ f[c] \in Slots /\ pr[f[c]] = t[Probe(p, c)].price
  <2>1. c \in Buckets /\ c \in Nat /\ (c < a \/ c = a)
    BY <1>0
  <2>2. Probe(p, c) \in Buckets
    BY <1>0, <2>1, ProbeInTable
  <2>3. t[Probe(p, c)].price # 0
    BY <2>1 DEF Reaches
  <2> QED BY <2>1, <2>2, <2>3 DEF Mapped
<1>2. ASSUME NEW c \in 0 .. a, NEW d \in 0 .. a, f[c] = f[d] PROVE c = d
  <2> HIDE DEF f
  <2>1. t[Probe(p, c)].price = t[Probe(p, d)].price
    BY <1>1, <1>2
  <2>2. Probe(p, c) = Probe(p, d)
    BY <1>1, <2>1 DEF Mapped
  <2> QED BY <1>0, <1>1, <2>2, ProbesDiffer
<1>3. f \in Injection(0 .. a, Slots)
  BY <1>1, <1>2 DEF Injection, IsInjective
<1>4. Cardinality(0 .. a) <= Cardinality(Slots)
  BY <1>3, SlotCount, FS_Injection
<1>5. 0 \in Int /\ a \in Int
  BY <1>0
<1>6. Cardinality(0 .. a) = IF 0 > a THEN 0 ELSE a - 0 + 1
  BY <1>5, FS_Interval
<1> QED BY <1>0, <1>4, <1>6, SlotCount

(* The prices that an update may remove.                                   *)
Removable == {double_to_fixed(u.price) : u \in {v \in Updates : double_to_fixed(v.quantity) = 0}}

(* The home bucket of a price that may be removed is out of the way of all *)
(* other prices: none comes to it in as many probes as there are levels.   *)
RemovalsApart ==
  \A p \in Removable : \A q \in FixedPrices \ {p} : \A a \in 0 .. MaxLevels - 1 :
    Probe(q, a) # hash(p)

(* Then a removal keeps what find returns for the other prices.            *)
LEMMA ApartLookups ==
  ASSUME NEW t \in Tables, NEW pr \in Listings, NEW p \in Removable, NEW i \in Slots,
         Mapped(pr, t), Distinct(pr), pr[i] = p, p \in Nat \ {0}, 
         \A j \in Slots : pr[j] \in FixedPrices \union {0}, RemovalsApart,
         NEW q \in FixedPrices \ {p}, q \in Nat \ {0}
  PROVE  find(remove(t, p), q) = find(t, q)
<1> DEFINE u == remove(t, p)
           H == hash(p)
<1>0. p \in Nat /\ q \in Nat /\ Probe(p, 0) = H /\ 0 \in Buckets /\ MaxLevels \in Nat \ {0}
  BY HomeFirst, BookAssumption
<1>1. H \in Buckets
  BY <1>0, ProbeInTable
<1> HIDE DEF H
<1>2. PICK a \in Buckets : Reaches(t, p, a)
  BY DEF Mapped
<1>3. a = 0
  <2> SUFFICES ASSUME a # 0 PROVE FALSE
    OBVIOUS
  <2>1. t[H].price # 0 /\ t[H].price # p
    <3>1. 0 < a /\ a \in Nat
      BY DEF Buckets
    <3>2. t[H].price # 0
      BY <1>0, <1>2, <3>1 DEF Reaches
    <3>3. ASSUME t[H].price = p PROVE FALSE
      <4>1. Probe(p, a) \in Buckets /\ t[Probe(p, a)].price = p
        BY <1>0, <1>2, <3>1, ProbeInTable DEF Reaches
      <4>2. Probe(p, a) = Probe(p, 0)
        BY <1>0, <1>1, <3>3, <4>1 DEF Mapped
      <4> QED BY <1>0, <4>2, ProbesDiffer
    <3> QED BY <3>2, <3>3
  <2>2. PICK j \in Slots : pr[j] = t[H].price
    BY <1>1, <2>1 DEF Mapped
  <2> DEFINE r == pr[j]
  <2>3. r \in FixedPrices \ {p} /\ r \in Nat \ {0}
    BY <2>1, <2>2 DEF Listings
  <2>4. PICK n \in Buckets : Reaches(t, r, n)
    BY <2>3 DEF Mapped
  <2>5. n < MaxLevels /\ n \in Nat
    BY <2>3, <2>4, ChainIsShort DEF Buckets
  <2>6. Probe(r, n) \in Buckets /\ t[Probe(r, n)].price = t[H].price
    BY <2>2, <2>3, <2>4, <2>5, ProbeInTable DEF Reaches
  <2>7. Probe(r, n) = H
    BY <1>1, <2>1, <2>6 DEF Mapped
  <2>8. n \in 0 .. MaxLevels - 1
    BY <1>0, <2>5
  <2> QED BY <2>3, <2>7, <2>8 DEF RemovalsApart, H
<1>4. t[H].price = p
  BY <1>0, <1>2, <1>3 DEF Reaches
<1>5. StopBucket(t, p) = H /\ Stops(t, p) # {}
  <2>1. 0 \in Stops(t, p)
    BY <1>0, <1>4 DEF Stops
  <2>2. PICK m \in Buckets : StopBucket(t, p) = Probe(p, m) /\ m <= 0
    BY <1>0, <2>1, FirstStop
  <2>3. m = 0
    BY <2>2 DEF Buckets
  <2> QED BY <1>0, <2>1, <2>2, <2>3
<1>6. u = [t EXCEPT ![H] = EmptyEntry]
  BY <1>4, <1>5 DEF remove
<1>7. u[H].price = 0 /\ \A b \in Buckets \ {H} : u[b] = t[b]
  BY <1>1, <1>6 DEF Tables, EmptyEntry
<1>8. u \in Tables
  BY <1>0, MapTypes DEF Indices
<1> HIDE DEF u
<1>9. CASE \A j \in Slots : pr[j] # q
  <2>1. find(t, q) = SIZE_MAX
    BY <1>9, FindIsRight
  <2>2. ASSUME NEW b \in Buckets PROVE u[b].price # q
    BY <1>7, <1>9 DEF Mapped
  <2>3. find(u, q) = SIZE_MAX
    BY <1>0, <1>8, <2>2, StopInTable DEF find
  <2> QED BY <2>1, <2>3 DEF u
<1>10. ASSUME NEW j \in Slots, pr[j] = q PROVE find(u, q) = find(t, q)
  <2>1. find(t, q) = j
    BY <1>10, FindIsRight
  <2>2. PICK n \in Buckets : Reaches(t, q, n)
    BY <1>10 DEF Mapped
  <2>3. n < MaxLevels /\ n \in Nat
    BY <2>2, ChainIsShort DEF Buckets
  <2>4. ASSUME NEW c \in Buckets, c <= n
        PROVE  Probe(q, c) \in Buckets \ {H} /\ u[Probe(q, c)] = t[Probe(q, c)]
    <3>1. c \in 0 .. MaxLevels - 1 /\ c \in Nat
      BY <1>0, <2>3, <2>4 DEF Buckets
    <3>2. Probe(q, c) # H
      BY <3>1 DEF RemovalsApart, H
    <3>3. Probe(q, c) \in Buckets
      BY <1>0, <3>1, ProbeInTable
    <3> QED BY <1>7, <3>2, <3>3
  <2>5. u[Probe(q, n)].price = q /\ \A c \in Buckets : c < n => u[Probe(q, c)].price # 0
    BY <2>2, <2>3, <2>4 DEF Reaches, Buckets
  <2>6. n \in Stops(u, q)
    BY <2>5 DEF Stops
  <2>7. PICK m \in Buckets : /\ StopBucket(u, q) = Probe(q, m) /\ Probe(q, m) \in Buckets /\ m <= n
                             /\ u[Probe(q, m)].price \in {0, q}
    BY <1>0, <1>8, <2>6, FirstStop
  <2>8. u[Probe(q, m)].price = q /\ u[Probe(q, m)] = t[Probe(q, m)]
    BY <2>4, <2>5, <2>7 DEF Buckets
  <2>9. t[Probe(q, m)].index \in Slots /\ pr[t[Probe(q, m)].index] = q
    BY <2>7, <2>8 DEF Mapped
  <2>10. t[Probe(q, m)].index = j
    BY <1>10, <2>9 DEF Distinct
  <2>11. find(u, q) = j
    BY <2>6, <2>7, <2>8, <2>10 DEF find
  <2> QED BY <2>1, <2>11
<1> QED BY <1>9, <1>10 DEF u

-----------------------------------------------------------------------------
(* The levels.                                                             *)
LEMMA HeldTypes ==
  ASSUME NEW lv \in Levels
  PROVE  /\ Held(lv) \in Listings
         /\ \A i \in Slots : Held(lv)[i] = lv[i].price /\ lv[i].price \in Nat /\ lv[i].quantity \in Nat
BY DEF Levels, Held, Listings

(* Of a price that is held once, the book has the quantity of its slot, of *)
(* one that is not held 0.                                                 *)
LEMMA BookAt ==
  ASSUME NEW lv \in Levels, Distinct(Held(lv)), NEW p \in FixedPrices, p # 0
  PROVE  /\ \A i \in Slots : lv[i].price = p => BookOf(lv)[p] = lv[i].quantity
         /\ (\A i \in Slots : lv[i].price # p) => BookOf(lv)[p] = 0
<1>1. ASSUME NEW i \in Slots, lv[i].price = p PROVE BookOf(lv)[p] = lv[i].quantity
  <2> DEFINE j == CHOOSE k \in Slots : lv[k].price = p
  <2>1. j \in Slots /\ lv[j].price = p
    BY <1>1
  <2>2. BookOf(lv)[p] = lv[j].quantity
    BY <1>1 DEF BookOf
  <2> HIDE DEF j
  <2>3. j = i
    BY <1>1, <2>1, HeldTypes DEF Distinct
  <2> QED BY <2>2, <2>3
<1>2. ASSUME \A i \in Slots : lv[i].price # p PROVE BookOf(lv)[p] = 0
  BY <1>2 DEF BookOf
<1> QED BY <1>1, <1>2

(* A slot that changes between holding p and being free changes nothing    *)
(* else in the book.                                                       *)
LEMMA OthersStay ==
  ASSUME NEW lv \in Levels, NEW lw \in Levels, NEW i \in Slots, NEW p \in Nat,
         Distinct(Held(lv)), Distinct(Held(lw)),
         lv[i].price \in {0, p}, lw[i].price \in {0, p},
         \A j \in Slots \ {i} : lw[j] = lv[j],
         NEW q \in FixedPrices \ {p}, q # 0
  PROVE  BookOf(lw)[q] = BookOf(lv)[q]
<1>1. CASE \E j \in Slots : lv[j].price = q
  <2>1. PICK j \in Slots : lv[j].price = q
    BY <1>1
  <2>2. j # i /\ lw[j] = lv[j]
    BY <2>1
  <2> QED BY <2>1, <2>2, BookAt
<1>2. CASE \A j \in Slots : lv[j].price # q
  <2>1. \A j \in Slots : lw[j].price # q
    BY <1>2
  <2> QED BY <1>2, <2>1, BookAt
<1> QED BY <1>1, <1>2

(* A slot with the best price of a side is there unless the side is empty. *)
BestOf(s, lv, b) ==
  \/ b = SIZE_MAX /\ Occupied(lv) = {}
  \/ /\ b \in Occupied(lv)
     /\ \A i \in Occupied(lv) : ~Better(s, lv[i].price, lv[b].price)

(* The prices of the slots have a bound.                                   *)
LEMMA PricesBounded ==
  ASSUME NEW lv \in Levels
  PROVE  \E n \in Nat : \A i \in Slots : lv[i].price <= n
<1> DEFINE Bad == {k \in 0 .. MaxLevels : \A n \in Nat : \E i \in Slots : i < k /\ ~(lv[i].price <= n)}
<1>1. MaxLevels \in Nat /\ Slots = 0 .. MaxLevels - 1
  BY BookAssumption DEF Slots
<1>2. SUFFICES ASSUME Bad # {} PROVE FALSE
  <2>1. MaxLevels \notin Bad => \E n \in Nat : \A i \in Slots : lv[i].price <= n
    BY <1>1
  <2> QED BY <2>1
<1>3. Bad \subseteq Nat
  BY <1>1
<1> DEFINE k == Min(Bad)
<1>4. k \in Bad /\ \A y \in Bad : k <= y
  BY <1>2, <1>3, MinIsElement
<1> HIDE DEF k
<1>5. k \in 0 .. MaxLevels /\ \A n \in Nat : \E i \in Slots : i < k /\ ~(lv[i].price <= n)
  BY <1>4
<1>6. k # 0
  BY <1>1, <1>5
<1>7. /\ k \in Nat /\ k - 1 \in 0 .. MaxLevels /\ k - 1 \in Slots
      /\ k - 1 \notin Bad
  <2>1. k \in Nat /\ k <= MaxLevels /\ k # 0
    BY <1>1, <1>5, <1>6
  <2>2. k - 1 \in 0 .. MaxLevels /\ k - 1 \in 0 .. MaxLevels - 1 /\ ~(k <= k - 1)
    BY <1>1, <2>1
  <2>3. k - 1 \notin Bad
    BY <1>4, <2>2
  <2> QED BY <1>1, <2>1, <2>2, <2>3
<1>8. PICK n \in Nat : \A i \in Slots : i < k - 1 => lv[i].price <= n
  BY <1>7
<1>9. lv[k - 1].price \in Nat
  BY <1>7, HeldTypes
<1> DEFINE m == n + lv[k - 1].price
<1>10. m \in Nat
  BY <1>9
<1>11. ASSUME NEW i \in Slots, i < k PROVE lv[i].price <= m
  <2>1. i = k - 1 \/ i < k - 1
    <3>1. i \in Nat /\ k \in Nat /\ i < k
      BY <1>7, <1>11 DEF Slots
    <3> QED BY <3>1
  <2>2. lv[i].price \in Nat
    BY HeldTypes
  <2> QED BY <1>8, <1>9, <2>1, <2>2
<1> QED BY <1>5, <1>10, <1>11

(* update_toplevel finds it.                                             *)
LEMMA BestSlotIsBest ==
  ASSUME NEW lv \in Levels, NEW s \in Sides
  PROVE  BestOf(s, lv, BestSlot(s, lv))
<1> DEFINE top == {i \in Occupied(lv) : \A j \in Occupied(lv) :
                      ~Better(s, lv[j].price, lv[i].price)}
<1>0. /\ Occupied(lv) \subseteq Slots /\ Slots \subseteq Nat
      /\ \A i \in Slots : lv[i].price \in Nat
  BY HeldTypes DEF Occupied, Slots
<1>1. CASE Occupied(lv) = {}
  <2>1. top = {}
    BY <1>1
  <2> QED BY <1>1, <2>1 DEF BestSlot, BestOf
<1>2. CASE Occupied(lv) # {}
  <2>0. \E i \in Occupied(lv) : \A j \in Occupied(lv) : ~Better(s, lv[j].price, lv[i].price)
    <3>1. CASE s = "BID"
      <4> DEFINE Over == {n \in Nat : \A i \in Occupied(lv) : lv[i].price <= n}
      <4>1. Over # {} /\ Over \subseteq Nat
        BY <1>0, PricesBounded
      <4>2. PICK n \in Over : \A m \in Over : n <= m
        BY <4>1, MinIsElement
      <4>3. n \in Nat /\ \A i \in Occupied(lv) : lv[i].price <= n
        BY <4>2
      <4>4. \E i \in Occupied(lv) : lv[i].price = n
        <5> SUFFICES ASSUME \A i \in Occupied(lv) : lv[i].price # n PROVE FALSE
          OBVIOUS
        <5>1. n # 0
          <6>1. PICK i \in Occupied(lv) : TRUE
            BY <1>2
          <6>2. lv[i].price \in Nat /\ lv[i].price > 0 /\ lv[i].price <= n
            BY <1>0, <4>3 DEF Occupied
          <6> QED BY <4>3, <6>2
        <5>2. n - 1 \in Nat /\ \A i \in Occupied(lv) : lv[i].price <= n - 1
          <6>1. n - 1 \in Nat
            BY <4>3, <5>1
          <6>2. ASSUME NEW i \in Occupied(lv) PROVE lv[i].price <= n - 1
            <7>1. lv[i].price \in Nat /\ lv[i].price <= n /\ lv[i].price # n
              BY <1>0, <4>3
            <7> QED BY <4>3, <7>1
          <6> QED BY <6>1, <6>2
        <5>3. n - 1 \in Over
          BY <5>2
        <5> QED BY <4>2, <4>3, <5>3
      <4>5. PICK i \in Occupied(lv) : lv[i].price = n
        BY <4>4
      <4>6. ASSUME NEW j \in Occupied(lv) PROVE ~Better(s, lv[j].price, lv[i].price)
        <5>1. lv[j].price \in Nat /\ lv[j].price <= n
          BY <1>0, <4>3
        <5>2. ~(lv[j].price > lv[i].price)
          BY <4>3, <4>5, <5>1
        <5> QED BY <3>1, <5>2 DEF Better
      <4> QED BY <4>6
    <3>2. CASE s = "ASK"
      <4> DEFINE P == {lv[i].price : i \in Occupied(lv)}
      <4>1. P # {} /\ P \subseteq Nat
        BY <1>0, <1>2
      <4>2. PICK n \in P : \A m \in P : n <= m
        BY <4>1, MinIsElement
      <4>3. PICK i \in Occupied(lv) : n = lv[i].price
        BY <4>2
      <4>4. \A j \in Occupied(lv) : lv[i].price <= lv[j].price
        BY <4>2, <4>3
      <4>5. ASSUME NEW j \in Occupied(lv) PROVE ~Better(s, lv[j].price, lv[i].price)
        <5>1. lv[j].price \in Nat /\ lv[i].price \in Nat
          BY <1>0
        <5>2. ~(lv[j].price < lv[i].price)
          BY <4>4, <5>1
        <5> QED BY <3>2, <5>2 DEF Better
      <4> QED BY <4>5
    <3>3. s = "BID" \/ s = "ASK"
      BY DEF Sides
    <3> QED BY <3>1, <3>2, <3>3
  <2>1. top # {}
    BY <2>0
  <2>2. top \subseteq Nat
    BY <1>0
  <2>3. Min(top) \in top
    BY <2>1, <2>2, MinIsElement
  <2>4. BestSlot(s, lv) \in top
    BY <2>1, <2>3 DEF BestSlot
  <2> QED BY <2>4 DEF BestOf
<1> QED BY <1>1, <1>2

-----------------------------------------------------------------------------
(* The inductive invariant. Of one side: its levels, price map and cached  *)
(* best index agree.                                                       *)

(* All slots but i hold a quantity exactly when they hold a price.         *)
Sized(lv, i) == \A j \in Slots \ {i} : lv[j].price = 0 <=> lv[j].quantity = 0

GoodSide(s, lv, t, b) ==
  /\ Distinct(Held(lv)) /\ Mapped(Held(lv), t)
  /\ Sized(lv, SIZE_MAX)
  /\ BestOf(s, lv, b)

(* An update by a writer with locals x of a side that had the book bk.     *)
Admitted(bk, p) ==
  bk[p] # 0 \/ Cardinality({q \in FixedPrices : bk[q] # 0}) < MaxLevels

Rest(lv, bk, p) == \A q \in FixedPrices \ {p} : BookOf(lv)[q] = bk[q]

AtFind(x, lv, t, b, bk) == GoodSide(x.side, lv, t, b) /\ bk = BookOf(lv)

AtInsert(x, lv, t, b, bk) ==
  /\ AtFind(x, lv, t, b, bk) /\ Admitted(bk, x.price)
  /\ x.idx \in Slots /\ lv[x.idx].price = 0
  /\ \A i \in Slots : lv[i].price # x.price

Underway(x, lv, bk) ==
  /\ x.idx \in Slots /\ lv[x.idx].price \in {0, x.price}
  /\ \A i \in Slots \ {x.idx} : lv[i].price # x.price
  /\ Distinct(Held(lv)) /\ Sized(lv, x.idx)
  /\ Rest(lv, bk, x.price) /\ Admitted(bk, x.price)

AtPrice(x, lv, t, bk) ==
  Underway(x, lv, bk) /\ Mapped(Put(Held(lv), x.idx, x.price), t)

AtQuantity(x, lv, t, bk) == AtPrice(x, lv, t, bk) /\ lv[x.idx].price = x.price

AtUnmap(x, lv, t, bk) ==
  AtQuantity(x, lv, t, bk) /\ lv[x.idx].quantity = 0 /\ x.quantity = 0

AtZero(x, lv, t, bk) ==
  /\ Underway(x, lv, bk) /\ Mapped(Put(Held(lv), x.idx, 0), t)
  /\ lv[x.idx].price = x.price /\ lv[x.idx].quantity = 0 /\ x.quantity = 0

AtBest(x, lv, t, bk) ==
  /\ Distinct(Held(lv)) /\ Mapped(Held(lv), t) /\ Sized(lv, SIZE_MAX)
  /\ BookOf(lv) = [bk EXCEPT ![x.price] = x.quantity]
  /\ Admitted(bk, x.price)

AtSeqno(x, lv, t, b, bk) == AtBest(x, lv, t, bk) /\ BestOf(x.side, lv, b)

UpdatePCs == {"find", "insert", "price", "quantity", "unmap", "zero", "best", "seqno"}

Stage(x, lv, t, b, bk) ==
  /\ x.pc = "find" => AtFind(x, lv, t, b, bk)
  /\ x.pc = "insert" => AtInsert(x, lv, t, b, bk)
  /\ x.pc = "price" => AtPrice(x, lv, t, bk)
  /\ x.pc = "quantity" => AtQuantity(x, lv, t, bk)
  /\ x.pc = "unmap" => AtUnmap(x, lv, t, bk)
  /\ x.pc = "zero" => AtZero(x, lv, t, bk)
  /\ x.pc = "best" => AtBest(x, lv, t, bk)
  /\ x.pc = "seqno" => AtSeqno(x, lv, t, b, bk)

(* A side that no operation is changing.                                   *)
Settled(s) ==
  GoodSide(s, level[s], map[s], best[s]) /\ committed.book[s] = BookOf(level[s])

(* The locals of an update are those of a possible one.                    *)
Meant(x) ==
  /\ x.price \in FixedPrices /\ x.quantity \in FixedQuantities
  /\ x.quantity = 0 => x.price \in Removable

Updating(x) ==
  /\ Meant(x)
  /\ \A s \in Sides \ {x.side} : Settled(s)
  /\ seqno = committed.seqno
  /\ Stage(x, level[x.side], map[x.side], best[x.side], committed.book[x.side])

(* What an operation has done to the book when it releases the lock:       *)
(* nothing, an update, or a clear.                                         *)
NewBook == [s \in Sides |-> BookOf(level[s])]

NoEffect == NewBook = committed.book /\ seqno = committed.seqno

Updated(s, p, q) ==
  /\ Admitted(committed.book[s], p)
  /\ NewBook = [committed.book EXCEPT ![s][p] = q] /\ seqno = committed.seqno + 1

Cleared == NewBook = [s \in Sides |-> [p \in FixedPrices |-> 0]] /\ seqno = committed.seqno

Done ==
  /\ \A s \in Sides : GoodSide(s, level[s], map[s], best[s])
  /\ \/ NoEffect
     \/ \E s \in Sides, p \in FixedPrices, q \in FixedQuantities : Updated(s, p, q)
     \/ Cleared

(* The stores of a clear so far.                                           *)
Zeroed(n) ==
  \A k \in 0 .. n - 1 :
    level[ClearOrder[(k % 4) + 1].side][k \div 4][ClearOrder[(k % 4) + 1].field] = 0

ClearingSides(x) ==
  /\ seqno = committed.seqno
  /\ x.pc = "clear" => Zeroed(x.clr)
  /\ x.pc \in {"clearbid", "clearask"} =>
       Zeroed(4 * MaxLevels) /\ \A s \in Sides : map[s] = EmptyTable
  /\ x.pc = "clearask" => best["BID"] = SIZE_MAX

PricesFixed == \A s \in Sides, i \in Slots : level[s][i].price \in FixedPrices \union {0}

AllSettled == seqno = committed.seqno /\ \A s \in Sides : Settled(s)

Inside(x) ==
  /\ x.pc = "idle" => x.clr = 0
  /\ x.pc \in UpdatePCs => Updating(x)
  /\ x.pc = "unlock" => Done
  /\ x.pc \in {"clear", "clearbid", "clearask"} => ClearingSides(x)

BookInv ==
  /\ PricesFixed
  /\ Quiescent => AllSettled
  /\ \A w \in Writers : Inside(wr[w])

-----------------------------------------------------------------------------
(* One step of an update, seen on the side it changes.                     *)

(* Prices of levels are the fixed-point prices, and none of these is 0.    *)
LEMMA PriceTypes ==
  ASSUME 0 \notin FixedPrices, NEW p \in FixedPrices
  PROVE  p \in Nat \ {0} /\ p \in Nat /\ p # 0
BY FixedTypes DEF FixedPrices

(* The levels lw are lv except for slot i, which holds p and q.            *)
Stored(lw, lv, i, p, q) ==
  /\ lw \in Levels /\ lw[i].price = p /\ lw[i].quantity = q
  /\ \A j \in Slots \ {i} : lw[j] = lv[j]

(* A store to one field of one slot.                                       *)
LEMMA StoredSlot ==
  ASSUME NEW lv \in Levels, NEW i \in Slots, NEW v \in Nat
  PROVE  /\ Stored([lv EXCEPT ![i].price = v], lv, i, v, lv[i].quantity)
         /\ Stored([lv EXCEPT ![i].quantity = v], lv, i, lv[i].price, v)
BY DEF Stored, Levels

(* What it does to the prices the slots hold.                              *)
LEMMA StoredHeld ==
  ASSUME NEW lv \in Levels, NEW i \in Slots, NEW p \in Nat, NEW q, NEW lw, Stored(lw, lv, i, p, q)
  PROVE  /\ Held(lw) = Put(Held(lv), i, p)
         /\ p = lv[i].price => Held(lw) = Held(lv)
<1>1. lw \in Levels
  BY DEF Stored
<1>2. Held(lw) \in Listings /\ Put(Held(lv), i, p) \in Listings /\ Held(lv) \in Listings
  BY <1>1, HeldTypes DEF Put, Listings
<1>3. ASSUME NEW j \in Slots
      PROVE  /\ Held(lw)[j] = Put(Held(lv), i, p)[j]
             /\ p = lv[i].price => Held(lw)[j] = Held(lv)[j]
  <2>1. lw[j].price = IF j = i THEN p ELSE lv[j].price
    BY DEF Stored
  <2> QED BY <2>1 DEF Held, Put
<1>4. Held(lw) = Put(Held(lv), i, p)
  BY <1>2, <1>3 DEF Listings
<1>5. p = lv[i].price => Held(lw) = Held(lv)
  BY <1>2, <1>3 DEF Listings
<1> QED BY <1>4, <1>5

(* find_free_slot returns a slot that is free.                             *)
LEMMA FreeSlotIsFree ==
  ASSUME NEW lv \in Levels, find_free_slot(lv) # SIZE_MAX
  PROVE  find_free_slot(lv) \in Slots /\ lv[find_free_slot(lv)].price = 0
<1> DEFINE free == {i \in Slots : lv[i].price = 0}
<1>1. free \subseteq Nat
  BY DEF Slots
<1>2. free # {} /\ find_free_slot(lv) = Min(free)
  BY DEF find_free_slot
<1>3. Min(free) \in free
  BY <1>1, <1>2, MinIsElement
<1> QED BY <1>2, <1>3

(* A side with a free slot lists fewer prices than it has slots.           *)
LEMMA RoomForOne ==
  ASSUME NEW lv \in Levels, NEW i \in Slots, lv[i].price = 0, Distinct(Held(lv)),
         0 \notin FixedPrices
  PROVE  Cardinality({q \in FixedPrices : BookOf(lv)[q] # 0}) < MaxLevels
<1> DEFINE S == {q \in FixedPrices : BookOf(lv)[q] # 0}
           f == [q \in S |-> CHOOSE j \in Slots : lv[j].price = q]
<1>1. ASSUME NEW q \in S PROVE f[q] \in Slots \ {i} /\ lv[f[q]].price = q
  <2>1. q # 0 /\ q \in FixedPrices /\ BookOf(lv)[q] # 0
    BY <1>1
  <2>2. \E j \in Slots : lv[j].price = q
    BY <2>1, BookAt
  <2>3. f[q] \in Slots /\ lv[f[q]].price = q
    BY <2>2
  <2> QED BY <2>1, <2>3
<1>2. f \in Injection(S, Slots \ {i})
  <2>1. f \in [S -> Slots \ {i}]
    BY <1>1
  <2> HIDE DEF f, S
  <2>2. \A q, r \in S : f[q] = f[r] => q = r
    BY <1>1
  <2> QED BY <2>1, <2>2 DEF Injection, IsInjective
<1> HIDE DEF f
<1>3. IsFiniteSet(Slots \ {i}) /\ Cardinality(Slots \ {i}) = MaxLevels - 1
  BY SlotCount, FS_RemoveElement
<1>4. IsFiniteSet(S) /\ Cardinality(S) <= Cardinality(Slots \ {i})
  BY <1>2, <1>3, FS_Injection
<1>5. Cardinality(S) \in Nat /\ MaxLevels \in Nat
  BY <1>4, FS_CardinalityType, BookAssumption
<1> QED BY <1>3, <1>4, <1>5

(* FindLevel, when the price has a level.                                  *)
LEMMA FoundLevel ==
  ASSUME 0 \notin FixedPrices, NEW lv \in Levels, NEW t \in Tables, NEW b, NEW bk,
         NEW x, NEW y, x.price \in FixedPrices, y.price = x.price,
         y.idx = find(t, x.price), find(t, x.price) # SIZE_MAX, AtFind(x, lv, t, b, bk)
  PROVE  AtPrice(y, lv, t, bk)
<1> DEFINE p == x.price
           pr == Held(lv)
<1>0. /\ p \in Nat \ {0} /\ p \in FixedPrices /\ pr \in Listings
      /\ \A i \in Slots : pr[i] = lv[i].price /\ lv[i].price \in Nat
  BY PriceTypes, HeldTypes
<1>1. Mapped(pr, t) /\ Distinct(pr) /\ Sized(lv, SIZE_MAX) /\ bk = BookOf(lv)
  BY DEF AtFind, GoodSide
<1>2. PICK i \in Slots : pr[i] = p
  BY <1>0, <1>1, FindIsRight
<1>3. find(t, p) = i /\ lv[i].price = p /\ y.idx = i /\ y.price = p
  BY <1>0, <1>1, <1>2, FindIsRight
<1>4. Put(pr, i, p) = pr
  BY <1>0, <1>2 DEF Put, Listings
<1>5. Sized(lv, i) /\ lv[i].quantity # 0
  BY <1>0, <1>1, <1>3, TableAssumption DEF Sized, Slots
<1>6. Admitted(bk, p) /\ Rest(lv, bk, p)
  BY <1>0, <1>1, <1>3, <1>5, BookAt DEF Admitted, Rest
<1>7. \A j \in Slots \ {i} : lv[j].price # p
  BY <1>0, <1>1, <1>3 DEF Distinct
<1> HIDE DEF p, pr
<1>8. Underway(y, lv, bk)
  BY <1>1, <1>3, <1>5, <1>6, <1>7 DEF Underway, pr
<1> QED BY <1>1, <1>3, <1>4, <1>8 DEF AtPrice, pr

(* FindLevel, when the price takes a free slot.                            *)
LEMMA FreeLevel ==
  ASSUME 0 \notin FixedPrices, NEW lv \in Levels, NEW t \in Tables, NEW b, NEW bk,
         NEW x, NEW y, x.price \in FixedPrices, y.price = x.price, y.side = x.side,
         y.idx = find_free_slot(lv), find_free_slot(lv) # SIZE_MAX,
         find(t, x.price) = SIZE_MAX, AtFind(x, lv, t, b, bk)
  PROVE  AtInsert(y, lv, t, b, bk)
<1>0. /\ x.price \in Nat \ {0} /\ Held(lv) \in Listings
      /\ \A i \in Slots : Held(lv)[i] = lv[i].price
  BY PriceTypes, HeldTypes
<1>1. Mapped(Held(lv), t) /\ Distinct(Held(lv)) /\ bk = BookOf(lv)
  BY DEF AtFind, GoodSide
<1>2. ASSUME NEW i \in Slots PROVE lv[i].price # x.price
  BY <1>0, <1>1, FindIsRight, TableAssumption DEF Slots
<1>3. y.idx \in Slots /\ lv[y.idx].price = 0
  BY FreeSlotIsFree
<1>4. Admitted(bk, y.price)
  BY <1>1, <1>3, RoomForOne DEF Admitted
<1>5. AtFind(y, lv, t, b, bk)
  BY DEF AtFind
<1> QED BY <1>2, <1>3, <1>4, <1>5 DEF AtInsert

(* MapInsert.                                                              *)
LEMMA InsertedLevel ==
  ASSUME 0 \notin FixedPrices, MaxLevels <= TableSize,
         NEW lv \in Levels, NEW t \in Tables, NEW b, NEW bk,
         NEW x, NEW y, x.price \in FixedPrices, y.price = x.price, y.idx = x.idx,
         AtInsert(x, lv, t, b, bk)
  PROVE  AtPrice(y, lv, insert(t, x.price, x.idx), bk)
<1>0. /\ x.price \in Nat \ {0} /\ Held(lv) \in Listings
      /\ \A i \in Slots : Held(lv)[i] = lv[i].price
  BY PriceTypes, HeldTypes
<1>1. /\ Mapped(Held(lv), t) /\ Distinct(Held(lv)) /\ bk = BookOf(lv) /\ Sized(lv, SIZE_MAX)
      /\ x.idx \in Slots /\ lv[x.idx].price = 0 /\ \A i \in Slots : lv[i].price # x.price
      /\ Admitted(bk, x.price)
  BY DEF AtInsert, AtFind, GoodSide
<1>2. Mapped(Put(Held(lv), x.idx, x.price), insert(t, x.price, x.idx))
  BY <1>0, <1>1, InsertMaps
<1>3. Sized(lv, x.idx) /\ Rest(lv, bk, x.price)
  BY <1>1, TableAssumption DEF Sized, Rest, Slots
<1>4. Underway(y, lv, bk)
  BY <1>1, <1>3 DEF Underway
<1> QED BY <1>2, <1>4 DEF AtPrice

(* StorePrice.                                                             *)
LEMMA PricedLevel ==
  ASSUME 0 \notin FixedPrices, NEW lv \in Levels, NEW t, NEW bk,
         NEW x, NEW y, x.price \in FixedPrices, y.price = x.price, y.idx = x.idx,
         AtPrice(x, lv, t, bk)
  PROVE  AtQuantity(y, [lv EXCEPT ![x.idx].price = x.price], t, bk)
<1> DEFINE p == x.price
           i == x.idx
           lw == [lv EXCEPT ![i].price = p]
<1>0. p \in Nat \ {0} /\ p \in FixedPrices /\ p \in Nat /\ i \in Slots
  BY PriceTypes DEF AtPrice, Underway
<1>1. /\ Mapped(Put(Held(lv), i, p), t)
      /\ lv[i].price \in {0, p} /\ (\A j \in Slots \ {i} : lv[j].price # p)
      /\ Distinct(Held(lv)) /\ Sized(lv, i) /\ Rest(lv, bk, p) /\ Admitted(bk, p)
  BY DEF AtPrice, Underway
<1>e. Stored(lw, lv, i, p, lv[i].quantity)
  BY <1>0, StoredSlot
<1> HIDE DEF p, i, lw
<1>2. /\ lw \in Levels /\ lw[i].price = p /\ lw[i].quantity = lv[i].quantity
      /\ \A j \in Slots \ {i} : lw[j] = lv[j]
      /\ Held(lw) = Put(Held(lv), i, p)
  BY <1>0, <1>1, <1>e, StoredHeld DEF Stored
<1>3. Put(Held(lw), i, p) = Held(lw)
  BY <1>0, <1>2, HeldTypes DEF Put, Listings
<1>4. lw[i].price = p
  BY <1>2
<1>5. Distinct(Held(lw))
  BY <1>0, <1>1, <1>2, <1>4, HeldTypes DEF Distinct
<1>6. Sized(lw, i)
  BY <1>1, <1>2 DEF Sized
<1>7. Rest(lw, bk, p)
  <2>1. ASSUME NEW q \in FixedPrices \ {p} PROVE BookOf(lw)[q] = BookOf(lv)[q]
    BY <1>0, <1>1, <1>2, <1>4, <1>5, OthersStay
  <2> QED BY <1>1, <2>1 DEF Rest
<1>8. Underway(y, lw, bk)
  BY <1>0, <1>1, <1>2, <1>4, <1>5, <1>6, <1>7 DEF Underway, p, i
<1> QED BY <1>1, <1>2, <1>3, <1>4, <1>8 DEF AtQuantity, AtPrice, lw, p, i

(* A book that differs from bk by the quantity of p.                       *)
LEMMA OneChanged ==
  ASSUME NEW lv \in Levels, NEW bk \in [FixedPrices -> Nat], NEW p \in FixedPrices, NEW q \in Nat,
         Rest(lv, bk, p), BookOf(lv)[p] = q
  PROVE  BookOf(lv) = [bk EXCEPT ![p] = q]
<1>1. BookOf(lv) \in [FixedPrices -> Nat]
  BY FixedTypes
<1> QED BY <1>1 DEF Rest

(* StoreQuantity.                                                          *)
LEMMA SizedLevel ==
  ASSUME 0 \notin FixedPrices, NEW lv \in Levels, NEW t, NEW bk \in [FixedPrices -> Nat],
         NEW x, NEW y, x.price \in FixedPrices, x.quantity \in Nat,
         y.price = x.price, y.idx = x.idx, y.quantity = x.quantity,
         AtQuantity(x, lv, t, bk)
  PROVE  /\ x.quantity = 0 => AtUnmap(y, [lv EXCEPT ![x.idx].quantity = x.quantity], t, bk)
         /\ x.quantity # 0 => AtBest(y, [lv EXCEPT ![x.idx].quantity = x.quantity], t, bk)
<1> DEFINE p == x.price
           i == x.idx
           q == x.quantity
           lw == [lv EXCEPT ![i].quantity = q]
<1>0. p \in Nat \ {0} /\ p \in FixedPrices /\ p \in Nat /\ p # 0 /\ i \in Slots /\ q \in Nat
  BY PriceTypes DEF AtQuantity, AtPrice, Underway
<1>1. /\ Mapped(Put(Held(lv), i, p), t) /\ lv[i].price = p
      /\ \A j \in Slots \ {i} : lv[j].price # p
      /\ Distinct(Held(lv)) /\ Sized(lv, i) /\ Rest(lv, bk, p) /\ Admitted(bk, p)
  BY DEF AtQuantity, AtPrice, Underway
<1>e. Stored(lw, lv, i, lv[i].price, q)
  BY <1>0, StoredSlot
<1> HIDE DEF p, i, lw, q
<1>2. /\ lw \in Levels /\ lw[i].price = lv[i].price /\ lw[i].quantity = q
      /\ \A j \in Slots \ {i} : lw[j] = lv[j]
      /\ Held(lw) = Held(lv)
  BY <1>0, <1>1, <1>e, StoredHeld DEF Stored
<1>3. Put(Held(lv), i, p) = Held(lv)
  BY <1>0, <1>1, HeldTypes DEF Put, Listings
<1>4. lw[i].price = p /\ lw[i].quantity = q
  BY <1>1, <1>2
<1>5. Distinct(Held(lw))
  BY <1>1, <1>2
<1>6. Sized(lw, i)
  BY <1>1, <1>2 DEF Sized
<1>7. Rest(lw, bk, p)
  <2>1. ASSUME NEW r \in FixedPrices \ {p} PROVE BookOf(lw)[r] = BookOf(lv)[r]
    BY <1>0, <1>1, <1>2, <1>4, <1>5, OthersStay
  <2> QED BY <1>1, <2>1 DEF Rest
<1>8. CASE q = 0
  <2>1. Underway(y, lw, bk)
    BY <1>0, <1>1, <1>2, <1>4, <1>5, <1>6, <1>7 DEF Underway, p, i
  <2>2. AtQuantity(y, lw, t, bk)
    BY <1>1, <1>2, <1>4, <2>1 DEF AtQuantity, AtPrice, p, i
  <2>3. AtUnmap(y, lw, t, bk)
    BY <1>4, <1>8, <2>2 DEF AtUnmap, q, i
  <2> QED BY <1>8, <2>3 DEF lw, q, i
<1>9. CASE q # 0
  <2>1. Sized(lw, SIZE_MAX)
    BY <1>0, <1>4, <1>6, <1>9 DEF Sized
  <2>2. BookOf(lw)[p] = q
    BY <1>0, <1>2, <1>4, <1>5, BookAt
  <2>3. BookOf(lw) = [bk EXCEPT ![p] = q]
    BY <1>0, <1>2, <1>7, <2>2, OneChanged
  <2>4. AtBest(y, lw, t, bk)
    BY <1>1, <1>2, <1>3, <1>5, <2>1, <2>3 DEF AtBest, p, q
  <2> QED BY <1>9, <2>4 DEF lw, q, i
<1> QED BY <1>8, <1>9 DEF lw, q, i

(* MapRemove, when it leaves the probes of the other prices alone.         *)
LEMMA UnmappedLevel ==
  ASSUME 0 \notin FixedPrices, NEW lv \in Levels, NEW t \in Tables, NEW bk,
         NEW x, NEW y, x.price \in FixedPrices,
         y.price = x.price, y.idx = x.idx, y.quantity = x.quantity,
         \A j \in Slots : lv[j].price \in FixedPrices \union {0},
         \A q \in FixedPrices \ {x.price} : find(remove(t, x.price), q) = find(t, q),
         AtUnmap(x, lv, t, bk)
  PROVE  AtZero(y, lv, remove(t, x.price), bk)
<1> DEFINE p == x.price
           i == x.idx
<1>0. p \in Nat \ {0} /\ i \in Slots
  BY PriceTypes DEF AtUnmap, AtQuantity, AtPrice, Underway
<1>1. /\ Mapped(Put(Held(lv), i, p), t) /\ lv[i].price = p /\ lv[i].quantity = 0 /\ x.quantity = 0
      /\ Distinct(Held(lv)) /\ \A j \in Slots \ {i} : lv[j].price # p
      /\ Underway(x, lv, bk)
  BY DEF AtUnmap, AtQuantity, AtPrice, Underway
<1>2. Held(lv) \in Listings /\ \A j \in Slots : Held(lv)[j] = lv[j].price
  BY HeldTypes
<1>3. Put(Held(lv), i, p) = Held(lv)
  BY <1>0, <1>1, <1>2 DEF Put, Listings
<1>4. \A j \in Slots \ {i} : Held(lv)[j] # 0 => find(remove(t, p), Held(lv)[j]) = find(t, Held(lv)[j])
  BY <1>1, <1>2
<1> HIDE DEF p, i
<1>5. Mapped(Held(lv), t) /\ Held(lv)[i] = p
  BY <1>0, <1>1, <1>2, <1>3
<1>6. Mapped(Put(Held(lv), i, 0), remove(t, p))
  BY <1>0, <1>1, <1>2, <1>4, <1>5, RemoveMaps
<1>7. Underway(y, lv, bk)
  BY <1>1 DEF Underway
<1> QED BY <1>1, <1>6, <1>7 DEF AtZero, p, i

(* ZeroPrice.                                                              *)
LEMMA ZeroedLevel ==
  ASSUME 0 \notin FixedPrices, NEW lv \in Levels, NEW t, NEW bk \in [FixedPrices -> Nat],
         NEW x, NEW y, x.price \in FixedPrices,
         y.price = x.price, y.idx = x.idx, y.quantity = x.quantity,
         AtZero(x, lv, t, bk)
  PROVE  AtBest(y, [lv EXCEPT ![x.idx].price = 0], t, bk)
<1> DEFINE p == x.price
           i == x.idx
           lw == [lv EXCEPT ![i].price = 0]
<1>0. p \in Nat \ {0} /\ p \in FixedPrices /\ p \in Nat /\ p # 0 /\ i \in Slots
  BY PriceTypes DEF AtZero, Underway
<1>1. /\ Mapped(Put(Held(lv), i, 0), t) /\ lv[i].price = p /\ lv[i].quantity = 0 /\ x.quantity = 0
      /\ \A j \in Slots \ {i} : lv[j].price # p
      /\ Distinct(Held(lv)) /\ Sized(lv, i) /\ Rest(lv, bk, p) /\ Admitted(bk, p)
  BY DEF AtZero, Underway
<1>e. Stored(lw, lv, i, 0, lv[i].quantity)
  BY <1>0, StoredSlot
<1> HIDE DEF p, i, lw
<1>2. /\ lw \in Levels /\ lw[i].price = 0 /\ lw[i].quantity = lv[i].quantity
      /\ \A j \in Slots \ {i} : lw[j] = lv[j]
      /\ Held(lw) = Put(Held(lv), i, 0)
  BY <1>0, <1>1, <1>e, StoredHeld DEF Stored
<1>3. lw[i].price = 0 /\ lw[i].quantity = 0
  BY <1>1, <1>2
<1>4. Distinct(Held(lw))
  BY <1>0, <1>1, <1>2, <1>3, HeldTypes DEF Distinct
<1>5. Sized(lw, SIZE_MAX)
  BY <1>1, <1>2, <1>3 DEF Sized
<1>6. Rest(lw, bk, p)
  <2>1. ASSUME NEW r \in FixedPrices \ {p} PROVE BookOf(lw)[r] = BookOf(lv)[r]
    BY <1>0, <1>1, <1>2, <1>3, <1>4, OthersStay
  <2> QED BY <1>1, <2>1 DEF Rest
<1>7. BookOf(lw)[p] = 0
  <2>1. \A j \in Slots : lw[j].price # p
    BY <1>0, <1>1, <1>2, <1>3
  <2> QED BY <1>0, <1>2, <1>4, <2>1, BookAt
<1>8. BookOf(lw) = [bk EXCEPT ![p] = 0]
  BY <1>0, <1>2, <1>6, <1>7, OneChanged
<1> QED BY <1>1, <1>2, <1>4, <1>5, <1>8 DEF AtBest, lw, p, i

-----------------------------------------------------------------------------
(* The steps of a writer that has the book to itself.                      *)

(* The capacity of the price map and the prices that updates have: a price *)
(* below one fixed-point unit would be taken for a free slot.              *)
BookSuits == 0 \notin FixedPrices /\ MaxLevels <= TableSize

(* A removal keeps what find returns for the other prices.                 *)
LookupsKept ==
  \A w \in Writers : MapRemove(w) =>
    \A p \in FixedPrices \ {wr[w].price} :
      find(map'[wr[w].side], p) = find(map[wr[w].side], p)

(* The types of a step, and what a single writer makes of the invariant.   *)
LEMMA AloneInside ==
  ASSUME SingleWriter, NEW w \in Writers, PricesFixed', Inside(wr[w])',
         wr'[w].pc = "idle" => AllSettled'
  PROVE  BookInv'
<1>1. \A v \in Writers : v = w
  BY DEF SingleWriter
<1>2. Quiescent' => wr'[w].pc = "idle"
  BY DEF Quiescent
<1>3. \A v \in Writers : Inside(wr[v])'
  BY <1>1
<1> QED BY <1>2, <1>3 DEF BookInv

(* An update goes on, with its own side at the stage of its new place.     *)
LEMMA UpdateGoesOn ==
  ASSUME SingleWriter, SafeTypes, SafeTypes', NEW w \in Writers, Updating(wr[w]), PricesFixed',
         wr'[w].side = wr[w].side, wr'[w].price = wr[w].price, wr'[w].quantity = wr[w].quantity,
         wr'[w].pc \in UpdatePCs, seqno' = seqno, committed' = committed,
         \A s \in Sides \ {wr[w].side} : level'[s] = level[s] /\ map'[s] = map[s] /\ best'[s] = best[s],
         Stage(wr'[w], level'[wr[w].side], map'[wr[w].side], best'[wr[w].side],
               committed.book[wr[w].side])
  PROVE  BookInv'
<1>1. Meant(wr'[w])
  BY DEF Updating, Meant
<1>2. \A s \in Sides \ {wr'[w].side} : Settled(s)'
  BY DEF Updating, Settled
<1>3. Updating(wr[w])'
  BY <1>1, <1>2 DEF Updating
<1>4. Inside(wr[w])' /\ wr'[w].pc # "idle"
  BY <1>3 DEF Inside, UpdatePCs
<1> QED BY <1>4, AloneInside

(* Prices are stored by updates only.                                      *)
LEMMA PricesStayFixed ==
  ASSUME SafeTypes, BookInv, NEW w \in Writers, WriterStep(w)
  PROVE  PricesFixed'
<1> DEFINE s == wr[w].side
           i == wr[w].idx
<1>0. level \in [Sides -> Levels] /\ wr[w] \in WriterType /\ s \in Sides /\ Inside(wr[w]) /\ PricesFixed
  BY DEF SafeTypes, TypeOK, Levels, WriterType, BookInv
<1>1. CASE level' = level
  BY <1>0, <1>1 DEF PricesFixed
<1>2. CASE StorePrice(w)
  <2>1. wr[w].price \in FixedPrices
    BY <1>0, <1>2 DEF StorePrice, Inside, Updating, Meant, UpdatePCs
  <2>2. \A r \in Sides, j \in Slots : level'[r][j].price \in {level[r][j].price, wr[w].price}
    BY <1>0, <1>2 DEF StorePrice, Levels
  <2> QED BY <1>0, <2>1, <2>2 DEF PricesFixed
<1>3. CASE StoreQuantity(w)
  <2>1. \A r \in Sides, j \in Slots : level'[r][j].price = level[r][j].price
    BY <1>0, <1>3 DEF StoreQuantity, Levels
  <2> QED BY <1>0, <2>1 DEF PricesFixed
<1>4. CASE ZeroPrice(w)
  <2>1. \A r \in Sides, j \in Slots : level'[r][j].price \in {level[r][j].price, 0}
    BY <1>0, <1>4 DEF ZeroPrice, Levels
  <2> QED BY <1>0, <2>1 DEF PricesFixed
<1>5. CASE ClearStore(w)
  <2> DEFINE c == ClearOrder[(wr[w].clr % 4) + 1]
             k == wr[w].clr \div 4
  <2>1. wr[w].clr % 4 \in 0 .. 3
    BY <1>0, BookAssumption DEF WriterType
  <2>2. c \in {[side |-> x, field |-> f] : x \in Sides, f \in {"price", "quantity"}}
    BY <2>1 DEF ClearOrder, Sides
  <2>3. level' = [level EXCEPT ![c.side][k][c.field] = 0]
    BY <1>5 DEF ClearStore
  <2> HIDE DEF c, k
  <2>4. PICK x \in Sides, f \in {"price", "quantity"} : c = [side |-> x, field |-> f]
    BY <2>2
  <2>5. level' = [level EXCEPT ![x][k][f] = 0]
    BY <2>3, <2>4
  <2>6. \A r \in Sides, j \in Slots : level'[r][j].price \in {level[r][j].price, 0}
    <3>1. CASE f = "price"
      BY <1>0, <2>5, <3>1 DEF Levels
    <3>2. CASE f = "quantity"
      BY <1>0, <2>5, <3>2 DEF Levels
    <3> QED BY <3>1, <3>2
  <2> QED BY <1>0, <2>6 DEF PricesFixed
<1>6. level' = level \/ StorePrice(w) \/ StoreQuantity(w) \/ ZeroPrice(w) \/ ClearStore(w)
  BY DEF WriterStep, UpdateStep, ClearStep, BeginUpdate, FindLevel, MapInsert, MapRemove, UpdateBest,
         CountUpdate, write_unlock, BeginClear, ClearMaps, ClearBestBid, ClearBestAsk, bookVars
<1> QED BY <1>1, <1>2, <1>3, <1>4, <1>5, <1>6

(* A step to the next place.                                               *)
LEMMA GoToFields ==
  ASSUME SafeTypes, NEW w \in Writers, NEW pc, GoTo(w, pc)
  PROVE  /\ wr'[w].pc = pc /\ wr'[w].side = wr[w].side /\ wr'[w].price = wr[w].price
         /\ wr'[w].quantity = wr[w].quantity /\ wr'[w].idx = wr[w].idx /\ wr'[w].clr = wr[w].clr
BY DEF GoTo, SafeTypes, TypeOK, WriterType

(* A writer at one of the places of an update.                             *)
LEMMA UpdateTypes ==
  ASSUME SafeTypes, BookInv, BookSuits, NEW w \in Writers, wr[w].pc \in UpdatePCs
  PROVE  /\ wr[w].side \in Sides /\ wr[w].price \in FixedPrices /\ wr[w].price \in Nat
         /\ wr[w].quantity \in Nat /\ wr[w].idx \in Indices
         /\ level \in [Sides -> Levels] /\ level[wr[w].side] \in Levels
         /\ map \in [Sides -> Tables] /\ map[wr[w].side] \in Tables
         /\ best \in [Sides -> Indices]
         /\ committed.book[wr[w].side] \in [FixedPrices -> Nat]
         /\ Updating(wr[w]) /\ 0 \notin FixedPrices /\ MaxLevels <= TableSize
         /\ Stage(wr[w], level[wr[w].side], map[wr[w].side], best[wr[w].side],
                  committed.book[wr[w].side])
<1>1. /\ wr[w] \in WriterType /\ level \in [Sides -> Levels] /\ map \in [Sides -> Tables]
      /\ best \in [Sides -> Indices]
      /\ committed \in [book : [Sides -> [FixedPrices -> Nat]], seqno : Nat]
  BY DEF SafeTypes, TypeOK, Levels, Tables, Indices
<1>2. Updating(wr[w])
  BY DEF BookInv, Inside
<1>3. /\ wr[w].side \in Sides /\ wr[w].price \in Nat /\ wr[w].quantity \in Nat /\ wr[w].idx \in Indices
  BY <1>1 DEF WriterType, Indices
<1>4. committed.book[wr[w].side] \in [FixedPrices -> Nat]
  BY <1>1, <1>3
<1>5. wr[w].price \in FixedPrices
  BY <1>2 DEF Updating, Meant
<1>6. Stage(wr[w], level[wr[w].side], map[wr[w].side], best[wr[w].side],
            committed.book[wr[w].side])
  BY <1>2 DEF Updating
<1> QED BY <1>1, <1>2, <1>3, <1>4, <1>5, <1>6 DEF BookSuits

(* Taking the lock enters the first stage of an update.                    *)
LEMMA BeginUpdateKeeps ==
  ASSUME SingleWriter, SafeTypes, SafeTypes', BookInv, NEW w \in Writers, PricesFixed',
         NEW u \in Updates, BeginUpdate(w, u)
  PROVE  BookInv'
<1> DEFINE y == wr'[w]
<1>1. /\ y.pc = "find" /\ y.side = u.side /\ y.price = double_to_fixed(u.price)
      /\ y.quantity = double_to_fixed(u.quantity)
  BY DEF BeginUpdate, IdleWriter, SafeTypes, TypeOK
<1>2. UNCHANGED <<level, map, best, seqno, committed>>
  BY DEF BeginUpdate, bookVars
<1>3. AllSettled
  BY DEF BeginUpdate, SingleWriter, Quiescent, BookInv
<1> HIDE DEF y
<1>4. Meant(y)
  BY <1>1 DEF Meant, FixedPrices, FixedQuantities, Removable
<1>5. u.side \in Sides
  BY FixedTypes
<1>6. \A s \in Sides : Settled(s)'
  BY <1>2, <1>3 DEF AllSettled, Settled
<1>7. Stage(y, level[y.side], map[y.side], best[y.side], committed.book[y.side])
  BY <1>1, <1>3, <1>5 DEF AllSettled, Settled, Stage, AtFind
<1>8. Updating(wr[w])'
  BY <1>2, <1>3, <1>4, <1>6, <1>7 DEF Updating, AllSettled, y
<1>9. Inside(wr[w])' /\ wr'[w].pc # "idle"
  BY <1>1, <1>8 DEF Inside, UpdatePCs, y
<1> QED BY <1>9, AloneInside

(* The lookup goes on to the slot found, to a free one, or out.            *)
LEMMA FindLevelKeeps ==
  ASSUME SingleWriter, BookSuits, SafeTypes, SafeTypes', BookInv, NEW w \in Writers, PricesFixed',
         FindLevel(w)
  PROVE  BookInv'
<1> DEFINE x == wr[w]
           y == wr'[w]
           s == wr[w].side
           existing == find(map[s], x.price)
           free == find_free_slot(level[s])
<1>0. x.pc = "find" /\ UNCHANGED <<level, map, best, seqno, committed>> /\ wr \in [Writers -> WriterType]
  BY DEF FindLevel, bookVars, SafeTypes, TypeOK
<1>1. AtFind(x, level[s], map[s], best[s], committed.book[s])
  BY <1>0, UpdateTypes DEF UpdatePCs, Stage
<1>2. CASE existing # SIZE_MAX /\ wr' = [wr EXCEPT ![w].idx = existing, ![w].pc = "price"]
  <2>1. /\ y.pc = "price" /\ y.idx = existing /\ y.side = x.side /\ y.price = x.price
        /\ y.quantity = x.quantity
    BY <1>0, <1>2 DEF WriterType
  <2> HIDE DEF x, y
  <2>2. AtPrice(y, level[s], map[s], committed.book[s])
    BY <1>0, <1>1, <1>2, <2>1, UpdateTypes, FoundLevel DEF UpdatePCs, x
  <2>3. Stage(y, level[s], map[s], best[s], committed.book[s])
    BY <2>1, <2>2 DEF Stage
  <2> QED BY <1>0, <2>1, <2>3, UpdateTypes, UpdateGoesOn DEF UpdatePCs, x, y
<1>3. CASE /\ existing = SIZE_MAX /\ free # SIZE_MAX
           /\ wr' = [wr EXCEPT ![w].idx = free, ![w].pc = "insert"]
  <2>1. /\ y.pc = "insert" /\ y.idx = free /\ y.side = x.side /\ y.price = x.price
        /\ y.quantity = x.quantity
    BY <1>0, <1>3 DEF WriterType
  <2> HIDE DEF x, y
  <2>2. AtInsert(y, level[s], map[s], best[s], committed.book[s])
    BY <1>0, <1>1, <1>3, <2>1, UpdateTypes, FreeLevel DEF UpdatePCs, x
  <2>3. Stage(y, level[s], map[s], best[s], committed.book[s])
    BY <2>1, <2>2 DEF Stage
  <2> QED BY <1>0, <2>1, <2>3, UpdateTypes, UpdateGoesOn DEF UpdatePCs, x, y
<1>4. CASE GoTo(w, "unlock")
  <2>1. y.pc = "unlock"
    BY <1>4, GoToFields
  <2>2. \A r \in Sides : GoodSide(r, level[r], map[r], best[r]) /\ committed.book[r] = BookOf(level[r])
    <3>1. Updating(x) /\ s \in Sides
      BY <1>0, UpdateTypes DEF UpdatePCs
    <3>2. \A r \in Sides \ {s} : Settled(r)
      BY <3>1 DEF Updating
    <3> QED BY <1>1, <3>1, <3>2 DEF Settled, AtFind
  <2>3. committed.book \in [Sides -> [FixedPrices -> Nat]] /\ seqno = committed.seqno
    BY <1>0, UpdateTypes DEF UpdatePCs, Updating, SafeTypes, TypeOK
  <2>4. NoEffect
    BY <2>2, <2>3 DEF NoEffect, NewBook
  <2>5. Done'
    BY <1>0, <2>2, <2>4 DEF Done, NoEffect, NewBook
  <2>6. Inside(wr[w])' /\ wr'[w].pc # "idle"
    BY <2>1, <2>5 DEF Inside, UpdatePCs
  <2> QED BY <2>6, AloneInside
<1> QED BY <1>2, <1>3, <1>4 DEF FindLevel

(* A new price gets its entry in the price map.                            *)
LEMMA MapInsertKeeps ==
  ASSUME SingleWriter, BookSuits, SafeTypes, SafeTypes', BookInv, NEW w \in Writers, PricesFixed',
         MapInsert(w)
  PROVE  BookInv'
<1> DEFINE x == wr[w]
           y == wr'[w]
           s == wr[w].side
<1>0. x.pc = "insert" /\ UNCHANGED <<level, best, seqno, committed>> /\ GoTo(w, "price")
  BY DEF MapInsert
<1>1. /\ y.pc = "price" /\ y.idx = x.idx /\ y.side = x.side /\ y.price = x.price /\ y.quantity = x.quantity
  BY <1>0, GoToFields
<1>2. map'[s] = insert(map[s], x.price, x.idx) /\ \A r \in Sides \ {s} : map'[r] = map[r]
  BY <1>0, UpdateTypes DEF MapInsert, UpdatePCs
<1> HIDE DEF x, y
<1>3. AtInsert(x, level[s], map[s], best[s], committed.book[s])
  BY <1>0, UpdateTypes DEF UpdatePCs, Stage, x
<1>4. AtPrice(y, level[s], map'[s], committed.book[s])
  BY <1>0, <1>1, <1>2, <1>3, UpdateTypes, InsertedLevel DEF UpdatePCs, x
<1>5. Stage(y, level'[s], map'[s], best'[s], committed.book[s])
  BY <1>0, <1>1, <1>4 DEF Stage
<1> QED BY <1>0, <1>1, <1>2, <1>5, UpdateTypes, UpdateGoesOn DEF UpdatePCs, x, y

(* The price of the slot is written.                                       *)
LEMMA StorePriceKeeps ==
  ASSUME SingleWriter, BookSuits, SafeTypes, SafeTypes', BookInv, NEW w \in Writers, PricesFixed',
         StorePrice(w)
  PROVE  BookInv'
<1> DEFINE x == wr[w]
           y == wr'[w]
           s == wr[w].side
<1>0. x.pc = "price" /\ UNCHANGED <<map, best, seqno, committed>> /\ GoTo(w, "quantity")
  BY DEF StorePrice
<1>1. /\ y.pc = "quantity" /\ y.idx = x.idx /\ y.side = x.side /\ y.price = x.price /\ y.quantity = x.quantity
  BY <1>0, GoToFields
<1>2. /\ level'[s] = [level[s] EXCEPT ![x.idx].price = x.price]
      /\ \A r \in Sides \ {s} : level'[r] = level[r]
  BY <1>0, UpdateTypes DEF StorePrice, UpdatePCs
<1> HIDE DEF x, y
<1>3. AtPrice(x, level[s], map[s], committed.book[s])
  BY <1>0, UpdateTypes DEF UpdatePCs, Stage, x
<1>4. AtQuantity(y, level'[s], map[s], committed.book[s])
  BY <1>0, <1>1, <1>2, <1>3, UpdateTypes, PricedLevel DEF UpdatePCs, x
<1>5. Stage(y, level'[s], map'[s], best'[s], committed.book[s])
  BY <1>0, <1>1, <1>4 DEF Stage
<1> QED BY <1>0, <1>1, <1>2, <1>5, UpdateTypes, UpdateGoesOn DEF UpdatePCs, x, y

(* The quantity is written: the level has its new value.                   *)
LEMMA StoreQuantityKeeps ==
  ASSUME SingleWriter, BookSuits, SafeTypes, SafeTypes', BookInv, NEW w \in Writers, PricesFixed',
         StoreQuantity(w)
  PROVE  BookInv'
<1> DEFINE x == wr[w]
           y == wr'[w]
           s == wr[w].side
<1>0. /\ x.pc = "quantity" /\ UNCHANGED <<map, best, seqno, committed>>
      /\ GoTo(w, IF x.quantity = 0 THEN "unmap" ELSE "best")
  BY DEF StoreQuantity
<1>1. /\ y.pc = (IF x.quantity = 0 THEN "unmap" ELSE "best")
      /\ y.idx = x.idx /\ y.side = x.side /\ y.price = x.price /\ y.quantity = x.quantity
  BY <1>0, GoToFields
<1>2. /\ level'[s] = [level[s] EXCEPT ![x.idx].quantity = x.quantity]
      /\ \A r \in Sides \ {s} : level'[r] = level[r]
  BY <1>0, UpdateTypes DEF StoreQuantity, UpdatePCs
<1> HIDE DEF x, y
<1>3. AtQuantity(x, level[s], map[s], committed.book[s])
  BY <1>0, UpdateTypes DEF UpdatePCs, Stage, x
<1>4. /\ x.quantity = 0 => AtUnmap(y, level'[s], map[s], committed.book[s])
      /\ x.quantity # 0 => AtBest(y, level'[s], map[s], committed.book[s])
  <2>1. /\ x.price \in FixedPrices /\ x.quantity \in Nat /\ level[s] \in Levels
        /\ committed.book[s] \in [FixedPrices -> Nat] /\ 0 \notin FixedPrices
    BY <1>0, UpdateTypes DEF UpdatePCs, x
  <2>2. /\ x.quantity = 0 =>
             AtUnmap(y, [level[s] EXCEPT ![x.idx].quantity = x.quantity], map[s], committed.book[s])
        /\ x.quantity # 0 =>
             AtBest(y, [level[s] EXCEPT ![x.idx].quantity = x.quantity], map[s], committed.book[s])
    BY <1>1, <1>3, <2>1, SizedLevel
  <2> QED BY <1>2, <2>2
<1>5. Stage(y, level'[s], map'[s], best'[s], committed.book[s]) /\ y.pc \in UpdatePCs
  BY <1>0, <1>1, <1>4 DEF Stage, UpdatePCs
<1> QED BY <1>0, <1>1, <1>2, <1>5, UpdateTypes, UpdateGoesOn DEF UpdatePCs, x, y

(* The entry goes, if the removal keeps the other lookups.                 *)
LEMMA MapRemoveKeeps ==
  ASSUME SingleWriter, BookSuits, SafeTypes, SafeTypes', BookInv, NEW w \in Writers, PricesFixed',
         MapRemove(w), LookupsKept
  PROVE  BookInv'
<1> DEFINE x == wr[w]
           y == wr'[w]
           s == wr[w].side
<1>0. x.pc = "unmap" /\ UNCHANGED <<level, best, seqno, committed>> /\ GoTo(w, "zero")
  BY DEF MapRemove
<1>1. /\ y.pc = "zero" /\ y.idx = x.idx /\ y.side = x.side /\ y.price = x.price /\ y.quantity = x.quantity
  BY <1>0, GoToFields
<1>2. map'[s] = remove(map[s], x.price) /\ \A r \in Sides \ {s} : map'[r] = map[r]
  BY <1>0, UpdateTypes DEF MapRemove, UpdatePCs
<1>3. \A q \in FixedPrices \ {x.price} : find(map'[s], q) = find(map[s], q)
  BY DEF LookupsKept
<1> HIDE DEF x, y
<1>4. AtUnmap(x, level[s], map[s], committed.book[s])
  BY <1>0, UpdateTypes DEF UpdatePCs, Stage, x
<1>5. \A j \in Slots : level[s][j].price \in FixedPrices \union {0}
  BY <1>0, UpdateTypes DEF UpdatePCs, x, BookInv, PricesFixed
<1>6. AtZero(y, level[s], map'[s], committed.book[s])
  BY <1>0, <1>1, <1>2, <1>3, <1>4, <1>5, UpdateTypes, UnmappedLevel DEF UpdatePCs, x
<1>7. Stage(y, level'[s], map'[s], best'[s], committed.book[s])
  BY <1>0, <1>1, <1>6 DEF Stage
<1> QED BY <1>0, <1>1, <1>2, <1>7, UpdateTypes, UpdateGoesOn DEF UpdatePCs, x, y

(* The slot of a removed price is freed.                                   *)
LEMMA ZeroPriceKeeps ==
  ASSUME SingleWriter, BookSuits, SafeTypes, SafeTypes', BookInv, NEW w \in Writers, PricesFixed',
         ZeroPrice(w)
  PROVE  BookInv'
<1> DEFINE x == wr[w]
           y == wr'[w]
           s == wr[w].side
<1>0. x.pc = "zero" /\ UNCHANGED <<map, best, seqno, committed>> /\ GoTo(w, "best")
  BY DEF ZeroPrice
<1>1. /\ y.pc = "best" /\ y.idx = x.idx /\ y.side = x.side /\ y.price = x.price /\ y.quantity = x.quantity
  BY <1>0, GoToFields
<1>2. /\ level'[s] = [level[s] EXCEPT ![x.idx].price = 0]
      /\ \A r \in Sides \ {s} : level'[r] = level[r]
  BY <1>0, UpdateTypes DEF ZeroPrice, UpdatePCs
<1> HIDE DEF x, y
<1>3. AtZero(x, level[s], map[s], committed.book[s])
  BY <1>0, UpdateTypes DEF UpdatePCs, Stage, x
<1>4. AtBest(y, level'[s], map[s], committed.book[s])
  BY <1>0, <1>1, <1>2, <1>3, UpdateTypes, ZeroedLevel DEF UpdatePCs, x
<1>5. Stage(y, level'[s], map'[s], best'[s], committed.book[s])
  BY <1>0, <1>1, <1>4 DEF Stage
<1> QED BY <1>0, <1>1, <1>2, <1>5, UpdateTypes, UpdateGoesOn DEF UpdatePCs, x, y

(* The cached best index is brought up to date.                            *)
LEMMA UpdateBestKeeps ==
  ASSUME SingleWriter, BookSuits, SafeTypes, SafeTypes', BookInv, NEW w \in Writers, PricesFixed',
         UpdateBest(w)
  PROVE  BookInv'
<1> DEFINE x == wr[w]
           y == wr'[w]
           s == wr[w].side
<1>0. x.pc = "best" /\ UNCHANGED <<level, map, seqno, committed>> /\ GoTo(w, "seqno")
  BY DEF UpdateBest
<1>1. /\ y.pc = "seqno" /\ y.idx = x.idx /\ y.side = x.side /\ y.price = x.price /\ y.quantity = x.quantity
  BY <1>0, GoToFields
<1>2. best'[s] = BestSlot(s, level[s]) /\ \A r \in Sides \ {s} : best'[r] = best[r]
  BY <1>0, UpdateTypes DEF UpdateBest, UpdatePCs
<1>3. s = x.side
  OBVIOUS
<1> HIDE DEF x, y
<1>4. AtBest(x, level[s], map[s], committed.book[s]) /\ BestOf(s, level[s], BestSlot(s, level[s]))
  BY <1>0, UpdateTypes, BestSlotIsBest DEF UpdatePCs, Stage, x
<1>5. AtSeqno(y, level[s], map[s], best'[s], committed.book[s])
  BY <1>1, <1>2, <1>3, <1>4 DEF AtSeqno, AtBest
<1>6. Stage(y, level'[s], map'[s], best'[s], committed.book[s])
  BY <1>0, <1>1, <1>5 DEF Stage
<1> QED BY <1>0, <1>1, <1>2, <1>6, UpdateTypes, UpdateGoesOn DEF UpdatePCs, x, y

(* The update is counted: it is done.                                      *)
LEMMA CountUpdateKeeps ==
  ASSUME SingleWriter, BookSuits, SafeTypes, SafeTypes', BookInv, NEW w \in Writers, PricesFixed',
         CountUpdate(w)
  PROVE  BookInv'
<1> DEFINE x == wr[w]
           s == wr[w].side
           bk == committed.book
<1>0. /\ x.pc = "seqno" /\ UNCHANGED <<level, map, best, committed>> /\ GoTo(w, "unlock")
      /\ seqno' = seqno + 1
  BY DEF CountUpdate
<1>1. /\ wr'[w].pc = "unlock" /\ wr'[w].side = s /\ wr'[w].price = x.price
      /\ wr'[w].quantity = x.quantity
  BY <1>0, GoToFields
<1>2. AtSeqno(x, level[s], map[s], best[s], bk[s]) /\ Updating(x) /\ s \in Sides
  BY <1>0, UpdateTypes DEF UpdatePCs, Stage
<1>3. bk \in [Sides -> [FixedPrices -> Nat]]
  BY DEF SafeTypes, TypeOK
<1>4. \A r \in Sides \ {s} : GoodSide(r, level[r], map[r], best[r]) /\ bk[r] = BookOf(level[r])
  BY <1>2 DEF Updating, Settled
<1>5. GoodSide(s, level[s], map[s], best[s])
  BY <1>2 DEF AtSeqno, AtBest, GoodSide
<1>6. BookOf(level[s]) = [bk[s] EXCEPT ![x.price] = x.quantity] /\ Admitted(bk[s], x.price)
  BY <1>2 DEF AtSeqno, AtBest
<1>7. NewBook = [bk EXCEPT ![s][x.price] = x.quantity]
  BY <1>2, <1>3, <1>4, <1>6 DEF NewBook
<1>8. seqno = committed.seqno /\ x.price \in FixedPrices /\ x.quantity \in FixedQuantities
  BY <1>2 DEF Updating, Meant
<1>9. Updated(s, x.price, x.quantity)'
  BY <1>0, <1>1, <1>6, <1>7, <1>8 DEF Updated, NewBook
<1>10. Done'
  <2>1. \A r \in Sides : GoodSide(r, level'[r], map'[r], best'[r])
    BY <1>0, <1>4, <1>5
  <2>2. wr'[w].side \in Sides /\ wr'[w].price \in FixedPrices /\ wr'[w].quantity \in FixedQuantities
    BY <1>1, <1>2, <1>8
  <2> QED BY <1>9, <2>1, <2>2 DEF Done
<1>11. Inside(wr[w])' /\ wr'[w].pc # "idle"
  BY <1>1, <1>10 DEF Inside, UpdatePCs
<1> QED BY <1>11, AloneInside

(* Releasing the lock publishes what was done.                             *)
LEMMA UnlockKeeps ==
  ASSUME SingleWriter, SafeTypes, SafeTypes', BookInv, NEW w \in Writers, PricesFixed', write_unlock(w)
  PROVE  BookInv'
<1>1. /\ wr[w].pc = "unlock" /\ UNCHANGED <<level, map, best, seqno>>
      /\ committed' = [book |-> NewBook, seqno |-> seqno]
  BY DEF write_unlock, bookVars, NewBook
<1>2. wr'[w].pc = "idle" /\ wr'[w].clr = 0
  BY DEF write_unlock, IdleWriter, SafeTypes, TypeOK
<1>3. Done
  BY <1>1 DEF BookInv, Inside
<1>4. \A s \in Sides : committed'.book[s] = BookOf(level[s])
  BY <1>1 DEF NewBook
<1>5. AllSettled'
  BY <1>1, <1>3, <1>4 DEF Done, AllSettled, Settled
<1>6. Inside(wr[w])'
  BY <1>2 DEF Inside, UpdatePCs
<1> QED BY <1>5, <1>6, AloneInside

(* clear.                                                                  *)
LEMMA BeginClearKeeps ==
  ASSUME SingleWriter, SafeTypes, SafeTypes', BookInv, NEW w \in Writers, PricesFixed', BeginClear(w)
  PROVE  BookInv'
<1>1. wr[w].pc = "idle" /\ GoTo(w, "clear") /\ UNCHANGED <<level, map, best, seqno, committed>>
  BY DEF BeginClear, bookVars
<1>2. wr'[w].pc = "clear" /\ wr'[w].clr = wr[w].clr
  BY <1>1, GoToFields
<1>3. wr'[w].clr = 0
  BY <1>1, <1>2 DEF BookInv, Inside
<1>4. AllSettled
  BY <1>1 DEF SingleWriter, Quiescent, BookInv
<1>5. Zeroed(wr[w].clr)'
  BY <1>3 DEF Zeroed
<1>6. ClearingSides(wr[w])'
  BY <1>1, <1>2, <1>4, <1>5 DEF ClearingSides, AllSettled
<1>7. Inside(wr[w])' /\ wr'[w].pc # "idle"
  BY <1>2, <1>6 DEF Inside, UpdatePCs
<1> QED BY <1>7, AloneInside

(* A store of a clear.                                                     *)
LEMMA ClearStoreKeeps ==
  ASSUME SingleWriter, SafeTypes, SafeTypes', BookInv, NEW w \in Writers, PricesFixed', ClearStore(w)
  PROVE  BookInv'
<1> DEFINE n == wr[w].clr
           c(k) == ClearOrder[(k % 4) + 1]
<1>1. /\ wr[w].pc = "clear" /\ UNCHANGED <<map, best, seqno, committed>> /\ n < 4 * MaxLevels
      /\ level' = [level EXCEPT ![c(n).side][n \div 4][c(n).field] = 0]
      /\ wr' = [wr EXCEPT ![w].clr = @ + 1]
  BY DEF ClearStore
<1>2. wr[w] \in WriterType /\ wr \in [Writers -> WriterType] /\ level \in [Sides -> Levels]
  BY DEF SafeTypes, TypeOK, Levels
<1>3. n \in Nat /\ MaxLevels \in Nat /\ n < 4 * MaxLevels
  BY <1>1, <1>2, BookAssumption DEF WriterType
<1>4. wr'[w].pc = "clear" /\ wr'[w].clr = n + 1
  BY <1>1, <1>2 DEF WriterType
<1>5. Zeroed(n) /\ seqno = committed.seqno
  BY <1>1 DEF BookInv, Inside, ClearingSides
<1>6. ASSUME NEW k \in Nat, k < 4 * MaxLevels
      PROVE  c(k).side \in Sides /\ c(k).field \in {"price", "quantity"} /\ k \div 4 \in Slots
  <2>1. k % 4 \in 0 .. 3 /\ k \div 4 \in 0 .. MaxLevels - 1
    BY <1>3, <1>6
  <2> QED BY <2>1 DEF ClearOrder, Sides, Slots
<1> DEFINE s == c(n).side
           i == n \div 4
           f == c(n).field
<1>7. s \in Sides /\ f \in {"price", "quantity"} /\ i \in Slots
  BY <1>1, <1>3, <1>6
<1>8. level' = [level EXCEPT ![s][i][f] = 0]
  BY <1>1
<1> HIDE DEF s, i, f
<1>9. /\ level'[s][i][f] = 0
      /\ \A r \in Sides, j \in Slots, g \in {"price", "quantity"} : level'[r][j][g] \in {level[r][j][g], 0}
  <2>1. CASE f = "price"
    BY <1>2, <1>7, <1>8, <2>1 DEF Levels
  <2>2. CASE f = "quantity"
    BY <1>2, <1>7, <1>8, <2>2 DEF Levels
  <2> QED BY <1>7, <2>1, <2>2
<1>10. ASSUME NEW k \in 0 .. n PROVE level'[c(k).side][k \div 4][c(k).field] = 0
  <2>1. CASE k = n
    BY <1>9, <2>1 DEF s, i, f
  <2>2. CASE k # n
    <3>1. k \in 0 .. n - 1 /\ k \in Nat /\ k < 4 * MaxLevels
      <4> HIDE DEF n
      <4> QED BY <1>3, <2>2
    <3>2. level[c(k).side][k \div 4][c(k).field] = 0
      BY <1>5, <3>1 DEF Zeroed
    <3>3. c(k).side \in Sides /\ c(k).field \in {"price", "quantity"} /\ k \div 4 \in Slots
      BY <1>6, <3>1
    <3> HIDE DEF c
    <3> QED BY <1>9, <3>2, <3>3
  <2> QED BY <2>1, <2>2
<1>11. Zeroed(wr[w].clr)'
  <2>1. 0 .. wr'[w].clr - 1 = 0 .. n
    BY <1>3, <1>4
  <2> QED BY <1>10, <2>1 DEF Zeroed
<1>12. ClearingSides(wr[w])'
  BY <1>1, <1>4, <1>5, <1>11 DEF ClearingSides
<1>13. Inside(wr[w])' /\ wr'[w].pc # "idle"
  BY <1>4, <1>12 DEF Inside, UpdatePCs
<1> QED BY <1>13, AloneInside

(* The price maps are emptied once all slots are free.                     *)
LEMMA ClearMapsKeeps ==
  ASSUME SingleWriter, SafeTypes, SafeTypes', BookInv, NEW w \in Writers, PricesFixed', ClearMaps(w)
  PROVE  BookInv'
<1>1. /\ wr[w].pc = "clear" /\ wr[w].clr = 4 * MaxLevels /\ UNCHANGED <<level, best, seqno, committed>>
      /\ map' = [s \in Sides |-> EmptyTable] /\ GoTo(w, "clearbid")
  BY DEF ClearMaps
<1>2. wr'[w].pc = "clearbid"
  BY <1>1, GoToFields
<1>3. Zeroed(4 * MaxLevels) /\ seqno = committed.seqno
  BY <1>1 DEF BookInv, Inside, ClearingSides
<1>4. ClearingSides(wr[w])'
  BY <1>1, <1>2, <1>3 DEF ClearingSides, Zeroed
<1>5. Inside(wr[w])' /\ wr'[w].pc # "idle"
  BY <1>2, <1>4 DEF Inside, UpdatePCs
<1> QED BY <1>5, AloneInside

(* The best bid is forgotten.                                              *)
LEMMA ClearBestBidKeeps ==
  ASSUME SingleWriter, SafeTypes, SafeTypes', BookInv, NEW w \in Writers, PricesFixed', ClearBestBid(w)
  PROVE  BookInv'
<1>1. /\ wr[w].pc = "clearbid" /\ UNCHANGED <<level, map, seqno, committed>>
      /\ best' = [best EXCEPT !["BID"] = SIZE_MAX] /\ GoTo(w, "clearask")
  BY DEF ClearBestBid
<1>2. wr'[w].pc = "clearask"
  BY <1>1, GoToFields
<1>3. best'["BID"] = SIZE_MAX
  BY <1>1 DEF SafeTypes, TypeOK, Sides
<1>4. ClearingSides(wr[w])
  BY <1>1 DEF BookInv, Inside
<1>5. ClearingSides(wr[w])'
  BY <1>1, <1>2, <1>3, <1>4 DEF ClearingSides, Zeroed
<1>6. Inside(wr[w])' /\ wr'[w].pc # "idle"
  BY <1>2, <1>5 DEF Inside, UpdatePCs
<1> QED BY <1>6, AloneInside

(* When every store of a clear is done all slots are free.                 *)
LEMMA AllZeroed ==
  ASSUME Zeroed(4 * MaxLevels), NEW s \in Sides, NEW i \in Slots
  PROVE  level[s][i].price = 0 /\ level[s][i].quantity = 0
<1>0. i \in Nat /\ i < MaxLevels /\ MaxLevels \in Nat
  BY BookAssumption DEF Slots
<1>1. ASSUME NEW d \in 0 .. 3
      PROVE  level[ClearOrder[d + 1].side][i][ClearOrder[d + 1].field] = 0
  <2>1. 4 * i + d \in 0 .. 4 * MaxLevels - 1 /\ (4 * i + d) % 4 = d /\ (4 * i + d) \div 4 = i
    BY <1>0
  <2> QED BY <2>1 DEF Zeroed
<1>2. /\ level[ClearOrder[1].side][i][ClearOrder[1].field] = 0
      /\ level[ClearOrder[2].side][i][ClearOrder[2].field] = 0
      /\ level[ClearOrder[3].side][i][ClearOrder[3].field] = 0
      /\ level[ClearOrder[4].side][i][ClearOrder[4].field] = 0
  <2>1. 0 \in 0 .. 3 /\ 1 \in 0 .. 3 /\ 2 \in 0 .. 3 /\ 3 \in 0 .. 3
        /\ 0 + 1 = 1 /\ 1 + 1 = 2 /\ 2 + 1 = 3 /\ 3 + 1 = 4
    OBVIOUS
  <2> QED BY <1>1, <2>1
<1> QED BY <1>2 DEF ClearOrder, Sides

(* An empty side agrees with an empty map.                                 *)
LEMMA EmptySideGood ==
  ASSUME 0 \notin FixedPrices, NEW s \in Sides, NEW lv \in Levels,
         \A i \in Slots : lv[i].price = 0 /\ lv[i].quantity = 0
  PROVE  GoodSide(s, lv, EmptyTable, SIZE_MAX) /\ BookOf(lv) = [p \in FixedPrices |-> 0]
<1>1. Held(lv) \in Listings /\ \A i \in Slots : Held(lv)[i] = 0
  BY HeldTypes
<1>2. Distinct(Held(lv)) /\ Sized(lv, SIZE_MAX)
  BY <1>1 DEF Distinct, Sized
<1>3. Mapped(Held(lv), EmptyTable)
  BY <1>1 DEF Mapped, EmptyTable, EmptyEntry
<1>4. BestOf(s, lv, SIZE_MAX)
  BY DEF BestOf, Occupied
<1>5. \A p \in FixedPrices : BookOf(lv)[p] = 0
  BY <1>2, BookAt
<1> QED BY <1>2, <1>3, <1>4, <1>5, FixedTypes DEF GoodSide

(* The best ask is forgotten: the clear is done.                           *)
LEMMA ClearBestAskKeeps ==
  ASSUME SingleWriter, BookSuits, SafeTypes, SafeTypes', BookInv, NEW w \in Writers, PricesFixed',
         ClearBestAsk(w)
  PROVE  BookInv'
<1>1. /\ wr[w].pc = "clearask" /\ UNCHANGED <<level, map, seqno, committed>>
      /\ best' = [best EXCEPT !["ASK"] = SIZE_MAX] /\ GoTo(w, "unlock")
  BY DEF ClearBestAsk
<1>2. wr'[w].pc = "unlock"
  BY <1>1, GoToFields
<1>3. ClearingSides(wr[w]) /\ level \in [Sides -> Levels]
  BY <1>1 DEF BookInv, Inside, SafeTypes, TypeOK, Levels
<1>4. /\ Zeroed(4 * MaxLevels) /\ (\A s \in Sides : map[s] = EmptyTable)
      /\ best["BID"] = SIZE_MAX /\ seqno = committed.seqno
  BY <1>1, <1>3 DEF ClearingSides
<1>5. \A s \in Sides : best'[s] = SIZE_MAX
  BY <1>1, <1>4 DEF SafeTypes, TypeOK, Sides
<1>6. ASSUME NEW s \in Sides
      PROVE  GoodSide(s, level[s], EmptyTable, SIZE_MAX) /\ BookOf(level[s]) = [p \in FixedPrices |-> 0]
  <2>1. level[s] \in Levels /\ \A i \in Slots : level[s][i].price = 0 /\ level[s][i].quantity = 0
    BY <1>3, <1>4, AllZeroed
  <2> QED BY <2>1, EmptySideGood DEF BookSuits
<1>7. Cleared'
  BY <1>1, <1>4, <1>6 DEF Cleared, NewBook
<1>8. Done'
  BY <1>1, <1>4, <1>5, <1>6, <1>7 DEF Done
<1>9. Inside(wr[w])' /\ wr'[w].pc # "idle"
  BY <1>2, <1>8 DEF Inside, UpdatePCs
<1> QED BY <1>9, AloneInside

(* The constructor establishes the invariant.                              *)
LEMMA BookInit == ASSUME BookSuits, Init PROVE BookInv
<1>1. ASSUME NEW s \in Sides
      PROVE  /\ level[s] \in Levels /\ map[s] = EmptyTable /\ best[s] = SIZE_MAX
             /\ \A i \in Slots : level[s][i].price = 0 /\ level[s][i].quantity = 0
             /\ committed.book[s] = [p \in FixedPrices |-> 0] /\ seqno = committed.seqno
  BY DEF Init, Levels
<1>2. ASSUME NEW s \in Sides PROVE Settled(s)
  BY <1>1, EmptySideGood DEF Settled, BookSuits
<1>3. AllSettled
  BY <1>1, <1>2 DEF AllSettled, Sides
<1>4. \A w \in Writers : wr[w].pc = "idle" /\ wr[w].clr = 0
  BY DEF Init, IdleWriter
<1>5. \A w \in Writers : Inside(wr[w])
  BY <1>4 DEF Inside, UpdatePCs
<1> QED BY <1>1, <1>3, <1>5 DEF BookInv, PricesFixed

(* The readers change nothing of it.                                       *)
LEMMA ReaderKeepsBook ==
  ASSUME BookInv, UNCHANGED <<bookVars, wr, committed>>
  PROVE  BookInv'
<1>0. UNCHANGED <<level, map, best, seqno, wr, committed>>
  BY DEF bookVars
<1>1. PricesFixed'
  BY <1>0 DEF BookInv, PricesFixed
<1>2. (Quiescent => AllSettled)'
  BY <1>0 DEF BookInv, Quiescent, AllSettled, Settled
<1>3. ASSUME NEW w \in Writers PROVE Inside(wr[w])'
  <2>1. Inside(wr[w])
    BY DEF BookInv
  <2>2. (wr[w].pc \in UpdatePCs => Updating(wr[w]))'
    <3>1. ASSUME wr[w].pc \in UpdatePCs PROVE Updating(wr[w])'
      <4>1. Updating(wr[w])
        BY <2>1, <3>1 DEF Inside
      <4> QED BY <1>0, <4>1 DEF Updating, Settled
    <3> QED BY <1>0, <3>1
  <2>3. (wr[w].pc = "unlock" => Done)'
    BY <1>0, <2>1 DEF Inside, Done, NoEffect, Updated, Cleared, NewBook
  <2>4. (wr[w].pc \in {"clear", "clearbid", "clearask"} => ClearingSides(wr[w]))'
    BY <1>0, <2>1 DEF Inside, ClearingSides, Zeroed
  <2> QED BY <1>0, <2>1, <2>2, <2>3, <2>4 DEF Inside
<1> QED BY <1>1, <1>2, <1>3 DEF BookInv

(* Every step of the writer keeps it,                                      *)
LEMMA WriterKeepsBook ==
  ASSUME SingleWriter, BookSuits, SafeTypes, BookInv, LookupsKept, NEW w \in Writers, WriterStep(w)
  PROVE  BookInv'
<1>1. SafeTypes' /\ PricesFixed'
  BY WriterTypes, PricesStayFixed
<1>2. CASE UpdateStep(w)
  BY <1>1, <1>2, BeginUpdateKeeps, FindLevelKeeps, MapInsertKeeps, StorePriceKeeps, StoreQuantityKeeps,
     MapRemoveKeeps, ZeroPriceKeeps, UpdateBestKeeps, CountUpdateKeeps, UnlockKeeps DEF UpdateStep
<1>3. CASE ClearStep(w)
  BY <1>1, <1>3, BeginClearKeeps, ClearStoreKeeps, ClearMapsKeeps, ClearBestBidKeeps, ClearBestAskKeeps
     DEF ClearStep
<1> QED BY <1>2, <1>3 DEF WriterStep

(* and so does every step of the system.                                   *)
LEMMA BookInductive ==
  ASSUME SingleWriter, BookSuits, SafeTypes, BookInv, LookupsKept, [Next]_vars
  PROVE  BookInv'
<1>1. CASE UNCHANGED vars
  BY <1>1, ReaderKeepsBook DEF vars
<1>2. CASE \E w \in Writers : WriterStep(w)
  BY <1>2, WriterKeepsBook
<1>3. CASE \E r \in Readers : ReaderStep(r)
  BY <1>3, ReaderKeepsBook DEF ReaderStep
<1> QED BY <1>1, <1>2, <1>3 DEF Next

(* Prices that may be removed and are out of the way of the others.        *)
LEMMA ApartKeepsLookups ==
  ASSUME BookSuits, RemovalsApart, SafeTypes, BookInv
  PROVE  LookupsKept
<1> SUFFICES ASSUME NEW w \in Writers, MapRemove(w), NEW q \in FixedPrices \ {wr[w].price}
             PROVE  find(map'[wr[w].side], q) = find(map[wr[w].side], q)
  BY DEF LookupsKept
<1> DEFINE s == wr[w].side
           p == wr[w].price
           pr == Held(level[s])
           i == wr[w].idx
<1>0. wr[w].pc \in UpdatePCs /\ wr[w].pc = "unmap"
  BY DEF MapRemove, UpdatePCs
<1>1. AtUnmap(wr[w], level[s], map[s], committed.book[s]) /\ Updating(wr[w])
  BY <1>0, UpdateTypes DEF Stage
<1>2. /\ i \in Slots /\ level[s][i].price = p /\ Distinct(pr) /\ Mapped(Put(pr, i, p), map[s])
  BY <1>1 DEF AtUnmap, AtQuantity, AtPrice, Underway
<1>3. p \in Removable /\ p \in Nat \ {0} /\ q \in Nat \ {0} /\ 0 \notin FixedPrices
  BY <1>1, PriceTypes DEF Updating, Meant, AtUnmap, BookSuits
<1>4. /\ map[s] \in Tables /\ level[s] \in Levels /\ map'[s] = remove(map[s], p) /\ s \in Sides
  BY <1>0, UpdateTypes DEF MapRemove
<1>5. pr \in Listings /\ \A j \in Slots : pr[j] = level[s][j].price
  BY <1>4, HeldTypes
<1>6. Put(pr, i, p) = pr
  BY <1>2, <1>5 DEF Put, Listings
<1>7. \A j \in Slots : pr[j] \in FixedPrices \union {0}
  BY <1>4, <1>5 DEF BookInv, PricesFixed
<1>8. Mapped(pr, map[s]) /\ pr[i] = p /\ q \in FixedPrices \ {p}
  BY <1>2, <1>5, <1>6
<1> HIDE DEF pr, i, p, s
<1>9. find(remove(map[s], p), q) = find(map[s], q)
  BY <1>2, <1>3, <1>4, <1>5, <1>7, <1>8, ApartLookups
<1> QED BY <1>4, <1>9 DEF s, p

(* Between write operations the invariant is what the property says.       *)
LEMMA SettledIsConsistent ==
  ASSUME BookSuits, SafeTypes, BookInv
  PROVE  LevelsConsistent
<1> SUFFICES ASSUME Quiescent, NEW s \in Sides
             PROVE  /\ \A i \in Slots :
                         /\ (level[s][i].price = 0) <=> (level[s][i].quantity = 0)
                         /\ \A j \in Slots \ {i} :
                              level[s][i].price # 0 => level[s][i].price # level[s][j].price
                    /\ \A p \in FixedPrices :
                         LET holders == {i \in Slots : level[s][i].price = p}
                         IN  IF holders = {} THEN find(map[s], p) = SIZE_MAX
                                             ELSE find(map[s], p) \in holders
                    /\ BestOf(s, level[s], best[s])
  BY DEF LevelsConsistent, LevelsClean, MapFindsLevels, BestIsBest, BestOf
<1>1. GoodSide(s, level[s], map[s], best[s]) /\ level[s] \in Levels /\ map[s] \in Tables
  BY DEF BookInv, AllSettled, Settled, SafeTypes, TypeOK, Levels, Tables, Indices
<1>2. \A i \in Slots : /\ (level[s][i].price = 0) <=> (level[s][i].quantity = 0)
                       /\ \A j \in Slots \ {i} :
                            level[s][i].price # 0 => level[s][i].price # level[s][j].price
  BY <1>1, HeldTypes, TableAssumption DEF GoodSide, Sized, Distinct, Slots
<1>3. ASSUME NEW p \in FixedPrices
      PROVE  LET holders == {i \in Slots : level[s][i].price = p}
             IN  IF holders = {} THEN find(map[s], p) = SIZE_MAX
                                 ELSE find(map[s], p) \in holders
  <2>1. /\ p \in Nat \ {0} /\ Held(level[s]) \in Listings
        /\ \A i \in Slots : Held(level[s])[i] = level[s][i].price
    BY <1>1, PriceTypes, HeldTypes DEF BookSuits
  <2>2. /\ \A i \in Slots : level[s][i].price = p => find(map[s], p) = i
        /\ (\A i \in Slots : level[s][i].price # p) => find(map[s], p) = SIZE_MAX
    BY <1>1, <2>1, FindIsRight DEF GoodSide
  <2> QED BY <2>2
<1> QED BY <1>1, <1>2, <1>3 DEF GoodSide

(* The types and the invariant, in a behaviour whose removals keep the     *)
(* other prices' lookups.                                                  *)
LEMMA BookInvariantIfKept ==
  ASSUME SingleWriter, BookSuits
  PROVE  Spec /\ [][LookupsKept]_vars => [](SafeTypes /\ BookInv)
<1>1. Spec => []SafeTypes
  BY TypesAndBounds, PTL DEF SafeTypes
<1>2. Init => BookInv
  BY BookInit
<1>3. SafeTypes /\ BookInv /\ [Next]_vars /\ [LookupsKept]_vars => BookInv'
  <2>1. ASSUME SafeTypes, BookInv, [Next]_vars, LookupsKept PROVE BookInv'
    BY <2>1, BookInductive
  <2>2. ASSUME BookInv, UNCHANGED vars PROVE BookInv'
    BY <2>2, ReaderKeepsBook DEF vars
  <2> QED BY <2>1, <2>2
<1> QED BY <1>1, <1>2, <1>3, PTL DEF Spec

(* With one writer, slots, price map and cached best index agree between   *)
(* write operations, for every capacity and any updates, colliding prices  *)
(* included, as long as no removal stops the probe for another price. The  *)
(* empty entry that PriceIndexMap::remove leaves in a chain is the only    *)
(* thing that can make them disagree.                                      *)
THEOREM LevelsStayConsistent ==
  ASSUME SingleWriter, BookSuits
  PROVE  Spec /\ [][LookupsKept]_vars => []LevelsConsistent
<1>1. SafeTypes /\ BookInv => LevelsConsistent
  BY SettledIsConsistent
<1> QED BY <1>1, BookInvariantIfKept, PTL

(* The types and the invariant, when the hash keeps the prices that may be *)
(* removed out of the way of the others.                                   *)
LEMMA BookInvariant ==
  ASSUME SingleWriter, BookSuits, RemovalsApart
  PROVE  Spec => [](SafeTypes /\ BookInv)
<1>1. Spec => []SafeTypes
  BY TypesAndBounds, PTL DEF SafeTypes
<1>2. Init => BookInv
  BY BookInit
<1>3. SafeTypes /\ BookInv /\ [Next]_vars => BookInv'
  BY BookInductive, ApartKeepsLookups
<1> QED BY <1>1, <1>2, <1>3, PTL DEF Spec

(* The same from a condition on the prices alone, which holds, for         *)
(* instance, when none of them is ever removed.                            *)
THEOREM LevelsAreConsistent ==
  ASSUME SingleWriter, BookSuits, RemovalsApart
  PROVE  Spec => []LevelsConsistent
<1>1. SafeTypes /\ BookInv => LevelsConsistent
  BY SettledIsConsistent
<1> QED BY <1>1, BookInvariant, PTL

-----------------------------------------------------------------------------
(* The atomic book. The entries that a snapshot keeps are those that have  *)
(* fewer than Depth better ones in the book.                               *)
ListedIn(lv) == {p \in FixedPrices : BookOf(lv)[p] # 0}

Ahead(s, lv, p) == {y \in ListedIn(lv) : Better(s, y, p)}

Tidy(lv) ==
  /\ Distinct(Held(lv)) /\ Sized(lv, SIZE_MAX)
  /\ \A i \in Slots : lv[i].price \in FixedPrices \union {0}

(* Entries and prices of the book correspond.                              *)
LEMMA EntriesOfBook ==
  ASSUME NEW lv \in Levels, Tidy(lv), 0 \notin FixedPrices
  PROVE  /\ \A e \in AllEntries(lv) :
              /\ e = [slot |-> e.slot, price |-> e.price] /\ e.slot \in Slots /\ lv[e.slot].price = e.price
              /\ e.price \in ListedIn(lv) /\ e.price \in Nat /\ BookOf(lv)[e.price] = lv[e.slot].quantity
         /\ \A p \in ListedIn(lv) : p \in Nat /\ \E e \in AllEntries(lv) : e.price = p
         /\ \A e, f \in AllEntries(lv) : e.price = f.price => e = f
<1>1. ASSUME NEW e \in AllEntries(lv)
      PROVE  /\ e = [slot |-> e.slot, price |-> e.price] /\ e.slot \in Slots /\ lv[e.slot].price = e.price
             /\ e.price \in ListedIn(lv) /\ e.price \in Nat /\ BookOf(lv)[e.price] = lv[e.slot].quantity
  <2>1. PICK i \in Slots : lv[i].price > 0 /\ e = [slot |-> i, price |-> lv[i].price]
    BY DEF AllEntries, Occupied
  <2>2. lv[i].price \in Nat /\ lv[i].price # 0 /\ lv[i].price \in FixedPrices
    BY <2>1, HeldTypes DEF Tidy
  <2>3. lv[i].quantity # 0
    BY <2>2, TableAssumption DEF Tidy, Sized, Slots
  <2>4. BookOf(lv)[lv[i].price] = lv[i].quantity
    BY <2>2, BookAt DEF Tidy
  <2> QED BY <2>1, <2>2, <2>3, <2>4 DEF ListedIn
<1>2. ASSUME NEW p \in ListedIn(lv)
      PROVE  p \in Nat /\ \E e \in AllEntries(lv) : e.price = p
  <2>1. p \in FixedPrices /\ p \in Nat \ {0} /\ BookOf(lv)[p] # 0
    BY PriceTypes DEF ListedIn
  <2>2. PICK i \in Slots : lv[i].price = p
    BY <2>1, BookAt DEF Tidy
  <2>3. [slot |-> i, price |-> lv[i].price] \in AllEntries(lv)
    BY <2>1, <2>2 DEF AllEntries, Occupied
  <2> QED BY <2>1, <2>2, <2>3
<1>3. ASSUME NEW e \in AllEntries(lv), NEW f \in AllEntries(lv), e.price = f.price PROVE e = f
  <2>1. e.slot \in Slots /\ f.slot \in Slots /\ lv[e.slot].price = lv[f.slot].price /\ lv[e.slot].price # 0
    BY <1>1, <1>3 DEF ListedIn
  <2>2. e.slot = f.slot
    BY <2>1, HeldTypes DEF Tidy, Distinct
  <2> QED BY <1>1, <1>3, <2>2
<1> QED BY <1>1, <1>2, <1>3

(* Both are finite.                                                        *)
LEMMA EntriesFinite ==
  ASSUME NEW lv \in Levels, Tidy(lv), 0 \notin FixedPrices
  PROVE  IsFiniteSet(AllEntries(lv)) /\ IsFiniteSet(ListedIn(lv))
<1> DEFINE f == [e \in AllEntries(lv) |-> e.slot]
           g == [p \in ListedIn(lv) |-> CHOOSE e \in AllEntries(lv) : e.price = p]
<1>1. f \in Injection(AllEntries(lv), Slots)
  <2>1. \A e \in AllEntries(lv) : e.slot \in Slots /\ lv[e.slot].price = e.price
    BY EntriesOfBook
  <2>2. \A d, e \in AllEntries(lv) : d.slot = e.slot => d = e
    BY <2>1, EntriesOfBook
  <2> QED BY <2>1, <2>2 DEF Injection, IsInjective
<1>2. IsFiniteSet(AllEntries(lv))
  BY <1>1, SlotCount, FS_Injection
<1>3. ASSUME NEW p \in ListedIn(lv) PROVE g[p] \in AllEntries(lv) /\ g[p].price = p
  <2>1. \E e \in AllEntries(lv) : e.price = p
    BY EntriesOfBook
  <2> QED BY <2>1
<1>4. g \in Injection(ListedIn(lv), AllEntries(lv))
  <2>1. g \in [ListedIn(lv) -> AllEntries(lv)]
    BY <1>3
  <2> HIDE DEF g
  <2>2. \A p, q \in ListedIn(lv) : g[p] = g[q] => p = q
    BY <1>3
  <2> QED BY <2>1, <2>2 DEF Injection, IsInjective
<1> QED BY <1>2, <1>4, FS_Injection

(* An entry is kept when fewer than Depth entries are better.              *)
LEMMA KeptAreBest ==
  ASSUME NEW s \in Sides, NEW lv \in Levels, Tidy(lv), 0 \notin FixedPrices,
         NEW kept \in Trimmed(s, AllEntries(lv)), NEW e \in AllEntries(lv)
  PROVE  e \in kept <=> Cardinality(Ahead(s, lv, e.price)) < Depth
<1> DEFINE E == AllEntries(lv)
           A == Ahead(s, lv, e.price)
           n == Cardinality(E)
<1>0. /\ IsFiniteSet(E) /\ n \in Nat /\ Depth \in Nat
      /\ kept \subseteq E /\ IsFiniteSet(kept) /\ Cardinality(kept) \in Nat
      /\ A \subseteq ListedIn(lv) /\ IsFiniteSet(A) /\ Cardinality(A) \in Nat
  <2>1. IsFiniteSet(E) /\ IsFiniteSet(ListedIn(lv))
    BY EntriesFinite
  <2>2. kept \subseteq E /\ A \subseteq ListedIn(lv)
    BY DEF Trimmed, Ahead
  <2>3. IsFiniteSet(kept) /\ IsFiniteSet(A)
    BY <2>1, <2>2, FS_Subset
  <2> QED BY <2>1, <2>2, <2>3, FS_CardinalityType, BookAssumption
<1>1. Cardinality(kept) <= Depth /\ (Cardinality(kept) = Depth \/ Cardinality(kept) = n)
  <2>1. {Depth, n} \subseteq Nat /\ {Depth, n} # {}
    BY <1>0
  <2>2. Min({Depth, n}) \in {Depth, n} /\ Min({Depth, n}) <= Depth
    BY <2>1, MinIsElement
  <2>3. Cardinality(kept) = Min({Depth, n})
    BY DEF Trimmed
  <2> QED BY <2>2, <2>3
<1>2. \A k \in kept, f \in E \ kept : ~Better(s, f.price, k.price)
  BY DEF Trimmed
<1>3. CASE e \in kept
  <2> DEFINE g == [y \in A |-> CHOOSE f \in E : f.price = y]
  <2>1. ASSUME NEW y \in A PROVE g[y] \in kept \ {e} /\ g[y].price = y
    <3>1. y \in ListedIn(lv) /\ Better(s, y, e.price)
      BY DEF Ahead
    <3>2. \E f \in E : f.price = y
      BY <3>1, EntriesOfBook
    <3>3. g[y] \in E /\ g[y].price = y
      BY <3>2
    <3> HIDE DEF g
    <3>4. g[y] \in kept
      BY <1>2, <1>3, <3>1, <3>3
    <3>5. y \in Nat /\ e.price \in Nat
      BY <3>1, EntriesOfBook
    <3>6. y # e.price
      BY <3>1, <3>5 DEF Better
    <3> QED BY <3>3, <3>4, <3>6
  <2>2. g \in Injection(A, kept \ {e})
    <3>1. g \in [A -> kept \ {e}]
      BY <2>1
    <3> HIDE DEF g
    <3>2. \A y, z \in A : g[y] = g[z] => y = z
      BY <2>1
    <3> QED BY <3>1, <3>2 DEF Injection, IsInjective
  <2>3. IsFiniteSet(kept \ {e}) /\ Cardinality(kept \ {e}) = Cardinality(kept) - 1
    BY <1>0, <1>3, FS_RemoveElement
  <2>4. Cardinality(A) <= Cardinality(kept \ {e})
    BY <2>2, <2>3, FS_Injection
  <2>5. Cardinality(A) < Depth
    BY <1>0, <1>1, <2>3, <2>4
  <2> QED BY <1>3, <2>5
<1>4. CASE e \notin kept
  <2> DEFINE h == [k \in kept |-> k.price]
  <2>1. Cardinality(kept) = Depth
    <3>1. kept \in SUBSET (E \ {e})
      BY <1>0, <1>4
    <3>2. IsFiniteSet(E \ {e}) /\ Cardinality(E \ {e}) = n - 1
      BY <1>0, FS_RemoveElement
    <3>3. Cardinality(kept) <= n - 1
      BY <3>1, <3>2, FS_Subset
    <3> QED BY <1>0, <1>1, <3>3
  <2>2. ASSUME NEW k \in kept PROVE k.price \in A
    <3>1. k \in E /\ ~Better(s, e.price, k.price) /\ k # e
      BY <1>0, <1>2, <1>4
    <3>2. k.price \in Nat /\ e.price \in Nat /\ k.price # e.price /\ k.price \in ListedIn(lv)
      BY <3>1, EntriesOfBook
    <3>3. Better(s, k.price, e.price)
      BY <3>1, <3>2 DEF Better
    <3> QED BY <3>2, <3>3 DEF Ahead
  <2>3. \A k, l \in kept : k.price = l.price => k = l
    BY <1>0, EntriesOfBook
  <2>4. h \in Injection(kept, A)
    BY <2>2, <2>3 DEF Injection, IsInjective
  <2>5. Cardinality(kept) <= Cardinality(A)
    BY <1>0, <2>4, FS_Injection
  <2>6. ~(Cardinality(A) < Depth)
    BY <1>0, <2>1, <2>5
  <2> QED BY <1>4, <2>6
<1> QED BY <1>3, <1>4

(* The abstract specification counts as the book does.                     *)
LEMMA SameCount ==
  ASSUME NEW S
  PROVE  Atomic!Cardinality(S) = Cardinality(S)
BY DEF Atomic!Cardinality, Cardinality

(* An exact snapshot of one side is the best Depth levels of its book.     *)
LEMMA SnapshotIsTop ==
  ASSUME NEW s \in Sides, NEW lv \in Levels, Tidy(lv), 0 \notin FixedPrices,
         NEW entries, IsSnapshotOf(s, lv, entries)
  PROVE  Pairs(entries) = Atomic!TopLevels(s, BookOf(lv))
<1>1. PICK kept \in Trimmed(s, AllEntries(lv)) :
        entries = {[slot |-> e.slot, price |-> e.price, quantity |-> lv[e.slot].quantity] : e \in kept}
  BY DEF IsSnapshotOf, AllEntries
<1>2. kept \subseteq AllEntries(lv)
  BY DEF Trimmed
<1>3. Pairs(entries) = {<<e.price, lv[e.slot].quantity>> : e \in kept}
  <2> DEFINE R(e) == [slot |-> e.slot, price |-> e.price, quantity |-> lv[e.slot].quantity]
  <2>1. \A e \in kept : R(e).price = e.price /\ R(e).quantity = lv[e.slot].quantity
    OBVIOUS
  <2>2. entries = {R(e) : e \in kept}
    BY <1>1
  <2> HIDE DEF R
  <2>3. {<<x.price, x.quantity>> : x \in {R(e) : e \in kept}} = {<<R(e).price, R(e).quantity>> : e \in kept}
    OBVIOUS
  <2>4. {<<R(e).price, R(e).quantity>> : e \in kept} = {<<e.price, lv[e.slot].quantity>> : e \in kept}
    BY <2>1
  <2> QED BY <2>2, <2>3, <2>4 DEF Pairs
<1>4. {<<e.price, lv[e.slot].quantity>> : e \in kept} = {<<e.price, BookOf(lv)[e.price]>> : e \in kept}
  BY <1>2, EntriesOfBook
<1> DEFINE top == {p \in ListedIn(lv) : Cardinality(Ahead(s, lv, p)) < Depth}
<1>5. {<<e.price, BookOf(lv)[e.price]>> : e \in kept} = {<<p, BookOf(lv)[p]>> : p \in top}
  <2>1. \A e \in kept : e.price \in top
    BY <1>2, EntriesOfBook, KeptAreBest
  <2>2. ASSUME NEW p \in top PROVE \E e \in kept : e.price = p
    <3>1. PICK e \in AllEntries(lv) : e.price = p
      BY EntriesOfBook
    <3>2. e \in kept
      BY <3>1, KeptAreBest
    <3> QED BY <3>1, <3>2
  <2> HIDE DEF top
  <2> QED BY <2>1, <2>2
<1>6. Atomic!Listed(BookOf(lv)) = ListedIn(lv)
  BY DEF Atomic!Listed, ListedIn
<1>7. \A p \in ListedIn(lv) :
        {y \in Atomic!Listed(BookOf(lv)) : Atomic!Better(s, y, p)} = Ahead(s, lv, p)
  BY <1>6 DEF Ahead, Better, Atomic!Better
<1>8. Atomic!TopLevels(s, BookOf(lv)) = {<<p, BookOf(lv)[p]>> : p \in top}
  <2>1. {x \in Atomic!Listed(BookOf(lv)) :
           Cardinality({y \in Atomic!Listed(BookOf(lv)) : Atomic!Better(s, y, x)}) < Depth} = top
    <3> DEFINE Before(x) == {y \in Atomic!Listed(BookOf(lv)) : Atomic!Better(s, y, x)}
    <3>1. \A x \in ListedIn(lv) : Before(x) = Ahead(s, lv, x)
      BY <1>7
    <3> HIDE DEF Before
    <3>2. {x \in Atomic!Listed(BookOf(lv)) : Cardinality(Before(x)) < Depth} = top
      BY <1>6, <3>1
    <3> QED BY <3>2 DEF Before
  <2> HIDE DEF top
  <2>2. {x \in Atomic!Listed(BookOf(lv)) :
           Atomic!Cardinality({y \in Atomic!Listed(BookOf(lv)) : Atomic!Better(s, y, x)}) < Depth} = top
    BY <2>1, SameCount
  <2> QED BY <2>2 DEF Atomic!TopLevels
<1> QED BY <1>3, <1>4, <1>5, <1>8

(* The constructor makes an empty book.                                    *)
LEMMA AtomicInit == Init => Atomic!AInit
<1> SUFFICES ASSUME Init PROVE Atomic!AInit
  OBVIOUS
<1>1. committed.book = Atomic!EmptyBook /\ committed.seqno = 0
  BY DEF Init, Atomic!EmptyBook, Atomic!Sides, Sides
<1>2. \A r \in Readers : /\ Pairs(view[r].BID) = {} /\ Pairs(view[r].ASK) = {}
                         /\ view[r].sequence_number = 0
  <2>1. \A r \in Readers : view[r].BID = {} /\ view[r].ASK = {} /\ view[r].sequence_number = 0
    BY DEF Init, EmptySnapshot
  <2>2. Pairs({}) = {}
    BY DEF Pairs
  <2> QED BY <2>1, <2>2
<1>3. [r \in Readers |-> [bids |-> Pairs(view[r].BID), asks |-> Pairs(view[r].ASK),
                         sequence_number |-> view[r].sequence_number]]
        = [r \in Readers |-> Atomic!NoView]
  BY <1>2 DEF Atomic!NoView
<1> QED BY <1>1, <1>3 DEF Atomic!AInit

(* A step of a writer changes the abstract book when it releases the lock, *)
(* by an update, a clear or not at all.                                    *)
LEMMA WriterIsAtomic ==
  ASSUME BookInv, NEW w \in Writers, WriterStep(w)
  PROVE  Atomic!ANext \/ UNCHANGED Atomic!abstractVars
<1>1. view' = view
  BY DEF WriterStep
<1>2. CASE committed' = committed
  BY <1>1, <1>2 DEF Atomic!abstractVars
<1>3. CASE committed' # committed
  <2>1. write_unlock(w)
    BY <1>3 DEF WriterStep, UpdateStep, ClearStep, BeginUpdate, FindLevel, MapInsert, StorePrice,
       StoreQuantity, MapRemove, ZeroPrice, UpdateBest, CountUpdate, BeginClear, ClearStore,
       ClearMaps, ClearBestBid, ClearBestAsk, bookVars
  <2>2. Done /\ committed' = [book |-> NewBook, seqno |-> seqno]
    BY <2>1 DEF write_unlock, NewBook, BookInv, Inside
  <2>3. committed'.book = NewBook /\ committed'.seqno = seqno
    BY <2>2
  <2>4. CASE NoEffect
    BY <1>1, <2>3, <2>4 DEF NoEffect, Atomic!abstractVars
  <2>5. ASSUME NEW s \in Sides, NEW p \in FixedPrices, NEW q \in FixedQuantities, Updated(s, p, q)
        PROVE  Atomic!ANext
    <3>1. Atomic!AUpdate(s, p, q)
      <4>1. Atomic!Listed(committed.book[s]) = {x \in FixedPrices : committed.book[s][x] # 0}
        BY DEF Atomic!Listed
      <4>2. committed.book[s][p] # 0 \/ Cardinality(Atomic!Listed(committed.book[s])) < MaxLevels
        BY <2>5, <4>1 DEF Updated, Admitted
      <4>3. committed'.book = [committed.book EXCEPT ![s][p] = q]
        BY <2>3, <2>5 DEF Updated
      <4>4. committed'.seqno = committed.seqno + 1
        BY <2>3, <2>5 DEF Updated
      <4> QED BY <1>1, <4>2, <4>3, <4>4, SameCount DEF Atomic!AUpdate
    <3> QED BY <3>1 DEF Atomic!ANext, Atomic!Sides, Sides
  <2>6. CASE Cleared
    BY <1>1, <2>3, <2>6 DEF Cleared, Atomic!ANext, Atomic!AClear, Atomic!EmptyBook, Atomic!Sides, Sides
  <2> QED BY <2>2, <2>4, <2>5, <2>6 DEF Done
<1> QED BY <1>2, <1>3

(* A step of a reader that returns a snapshot takes it from the abstract   *)
(* book; no other step of a reader shows.                                  *)
LEMMA ReaderIsAtomic ==
  ASSUME SafeTypes, LockInv, BookInv, BookSuits, NEW r \in Readers, ReaderStep(r)
  PROVE  Atomic!ANext \/ UNCHANGED Atomic!abstractVars
<1>0. committed' = committed /\ view \in [Readers -> SnapshotType]
  BY DEF ReaderStep, SafeTypes, TypeOK
<1>1. CASE view' = view
  BY <1>0, <1>1 DEF Atomic!abstractVars
<1>2. CASE view' # view
  <2>1. view' = [view EXCEPT ![r] = rd[r].snap]
    BY <1>2 DEF ReaderStep, SnapshotStep, QuoteStep, read_begin, CollectSlot, SortAndTrim, CopyPrice,
       CopyQuantity, NextSide, LoadSequenceNumber, read_retry, LoadBestBid, LoadBestAsk,
       LoadBidPrice, LoadAskPrice
  <2>2. view'[r] = rd[r].snap /\ \A q \in Readers \ {r} : view'[q] = view[q]
    BY <1>0, <2>1
  <2>3. view'[r] # view[r]
    BY <1>0, <1>2, <2>1
  <2>4. /\ Quiescent /\ view'[r].sequence_number = seqno
        /\ \A s \in Sides : IsSnapshotOf(s, level[s], view'[r][s])
    BY <2>3, RetryIsExact DEF Next
  <2>5. AllSettled /\ PricesFixed
    BY <2>4 DEF BookInv
  <2>6. ASSUME NEW s \in Sides
        PROVE  Pairs(view'[r][s]) = Atomic!TopLevels(s, committed.book[s])
    <3>1. level[s] \in Levels /\ committed.book[s] = BookOf(level[s]) /\ Tidy(level[s])
      BY <2>5 DEF SafeTypes, TypeOK, Levels, AllSettled, Settled, GoodSide, Tidy, PricesFixed
    <3> QED BY <2>4, <3>1, SnapshotIsTop DEF BookSuits
  <2>7. /\ Pairs(view'[r].BID) = Atomic!TopLevels("BID", committed.book["BID"])
        /\ Pairs(view'[r].ASK) = Atomic!TopLevels("ASK", committed.book["ASK"])
        /\ view'[r].sequence_number = committed.seqno
    BY <2>4, <2>5, <2>6 DEF Sides, AllSettled
  <2>8. Atomic!ASnapshot(r)
    BY <1>0, <2>2, <2>7 DEF Atomic!ASnapshot
  <2> QED BY <2>8 DEF Atomic!ANext
<1> QED BY <1>1, <1>2

(* Every step of the book is one of the atomic book, or none.              *)
LEMMA StepIsAtomic ==
  ASSUME SafeTypes, LockInv, BookInv, BookSuits, [Next]_vars
  PROVE  [Atomic!ANext]_(Atomic!abstractVars)
<1>1. CASE UNCHANGED vars
  BY <1>1 DEF vars, Atomic!abstractVars
<1>2. CASE \E w \in Writers : WriterStep(w)
  BY <1>2, WriterIsAtomic
<1>3. CASE \E r \in Readers : ReaderStep(r)
  BY <1>3, ReaderIsAtomic
<1> QED BY <1>1, <1>2, <1>3 DEF Next

(* With one writer, seen through the sequence lock the book is atomic as   *)
(* long as no removal stops another price's probe: every update and clear  *)
(* takes effect at once, and every snapshot get_snapshot returns is the    *)
(* best Depth levels of one instant. For any prices, capacity, depth and   *)
(* number of readers.                                                      *)
THEOREM BookStaysAtomic ==
  ASSUME SingleWriter, BookSuits
  PROVE  Spec /\ [][LookupsKept]_vars => BookIsAtomic
<1>1. SafeTypes /\ LockInv /\ [Next]_vars => LockInv'
  BY LockStep
<1>2. SafeTypes /\ LockInv /\ BookInv /\ [Next]_vars => [Atomic!ANext]_(Atomic!abstractVars)
  BY StepIsAtomic
<1> QED BY <1>1, <1>2, BookInvariantIfKept, LockInit, AtomicInit, PTL DEF Spec, BookIsAtomic, Atomic!ASpec

(* The same from the condition on the prices alone: OrderBook implements   *)
(* the atomic book of BookSpec.                                            *)
THEOREM BookIsAtomicAlways ==
  ASSUME SingleWriter, BookSuits, RemovalsApart
  PROVE  Spec => BookIsAtomic
<1>1. SafeTypes /\ LockInv /\ [Next]_vars => LockInv'
  BY LockStep
<1>2. SafeTypes /\ LockInv /\ BookInv /\ [Next]_vars => [Atomic!ANext]_(Atomic!abstractVars)
  BY StepIsAtomic
<1> QED BY <1>1, <1>2, BookInvariant, LockInit, AtomicInit, PTL DEF Spec, BookIsAtomic, Atomic!ASpec
=============================================================================
