------------------------------ MODULE BookSpec ------------------------------
(***************************************************************************)
(* What an order book promises its clients: two maps from prices to        *)
(* quantities that are updated, cleared and read atomically.               *)
(* A quantity of 0 means that the price has no level.  Implemented by      *)
(* module OrderBook (OrderBook<MAX_LEVELS>, include/core/order_book.hpp).  *)
(***************************************************************************)
EXTENDS Naturals, FiniteSets

CONSTANTS
  Prices,      \* the fixed-point prices (never 0)
  Quantities,  \* the fixed-point quantities, 0 included
  MaxLevels,   \* capacity of one side
  Depth,       \* number of levels per side in a snapshot
  Readers      \* threads that take snapshots

VARIABLES
  book,        \* book[side][price] = quantity of that level
  seqno,       \* number of updates applied
  view         \* view[r] = the snapshot get_snapshot() last returned to r

abstractVars == <<book, seqno, view>>

Sides == {"BID", "ASK"}

(* a ranks before b on the given side: highest bid, lowest ask.            *)
Better(side, a, b) == IF side = "BID" THEN a > b ELSE a < b

(* The prices that have a level.                                           *)
Listed(levels) == {p \in Prices : levels[p] # 0}

(* The best Depth levels of one side, as a set of price/quantity pairs:    *)
(* the prices order the levels, so the set determines the vector.          *)
TopLevels(side, levels) ==
  {<<p, levels[p]>> :
     p \in {x \in Listed(levels) :
              Cardinality({y \in Listed(levels) : Better(side, y, x)}) < Depth}}

EmptyBook == [s \in Sides |-> [p \in Prices |-> 0]]

NoView == [bids |-> {}, asks |-> {}, sequence_number |-> 0]

AInit ==
  /\ book = EmptyBook
  /\ seqno = 0
  /\ view = [r \in Readers |-> NoView]

(* An update sets the quantity of one price.  It is refused, with no       *)
(* effect, when it needs a level and the side has none left.               *)
AUpdate(s, p, q) ==
  /\ book[s][p] # 0 \/ Cardinality(Listed(book[s])) < MaxLevels
  /\ book' = [book EXCEPT ![s][p] = q]
  /\ seqno' = seqno + 1
  /\ UNCHANGED view

(* Clearing empties both sides; it is not counted as an update.            *)
AClear ==
  /\ book' = EmptyBook
  /\ UNCHANGED <<seqno, view>>

(* A snapshot is one instant of the book.                                  *)
ASnapshot(r) ==
  /\ view' = [view EXCEPT ![r] = [bids |-> TopLevels("BID", book["BID"]),
                                  asks |-> TopLevels("ASK", book["ASK"]),
                                  sequence_number |-> seqno]]
  /\ UNCHANGED <<book, seqno>>

ANext ==
  \/ \E s \in Sides, p \in Prices, q \in Quantities : AUpdate(s, p, q)
  \/ AClear
  \/ \E r \in Readers : ASnapshot(r)

ASpec == AInit /\ [][ANext]_abstractVars

=============================================================================
