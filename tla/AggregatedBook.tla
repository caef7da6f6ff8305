-------------------------- MODULE AggregatedBook --------------------------
(* AggregatedOrderBook of core/aggregated_order_book.{hpp,cpp}: one map of *)
(* levels per exchange behind a shared_mutex, and the answers computed     *)
(* from them. Every operation holds mutex_ from its first to its last      *)
(* access, so each is one step; timestamps and order counts are left out,  *)
(* nothing is decided by them.                                             *)
EXTENDS Venues, SequencesExt

CONSTANTS
  Orders,        \* quantities that recommend_routing is asked for
  MinProfits     \* thresholds, in tenths of a percent, that detect_arbitrage is asked for

ASSUME OrdersArePositive == Orders \subseteq Nat \ {0}
ASSUME ProfitsAreIntegers == MinProfits \subseteq Int

VARIABLES
  exchange_books,      \* exchange -> side -> price -> quantity
  arbitrage_callback,  \* is arbitrage_callback_ set?
  outcome              \* how the last update ended: "returned" or "threw"

bookVars == <<exchange_books, arbitrage_callback, outcome>>

NoLevels == [s \in Sides |-> << >>]

BookInit ==
  /\ exchange_books = << >>
  /\ arbitrage_callback = FALSE
  /\ outcome = "returned"

---------------------------------------------------------------------------
(* A level of a message: a positive quantity is stored, any other erases. *)
SetLevel(levels, l) ==
  IF l.quantity > 0
  THEN [p \in DOMAIN levels \cup {l.price} |-> IF p = l.price THEN l.quantity ELSE levels[p]]
  ELSE Restrict(levels, DOMAIN levels \ {l.price})

(* operator[] creates the book of an exchange that was not heard of. *)
BookOf(e) ==
  IF e \in DOMAIN exchange_books THEN exchange_books[e] ELSE NoLevels

(* update takes mutex_ exclusively, applies the message and, with a callback *)
(* set, calls detect_arbitrage, which asks for mutex_ again, shared. glibc   *)
(* answers EDEADLK to the thread that holds it exclusively and lock_shared   *)
(* throws: the levels are in, the callback is not reached, the caller gets   *)
(* an exception. (A message of another symbol returns at once.)              *)
update(msg) ==
  /\ exchange_books' =
       [e \in DOMAIN exchange_books \cup {msg.exchange} |->
          IF e # msg.exchange THEN exchange_books[e]
          ELSE [s \in Sides |-> FoldLeft(SetLevel, BookOf(e)[s],
                                        IF s = "BID" THEN msg.bids ELSE msg.asks)]]
  /\ outcome' = IF arbitrage_callback THEN "threw" ELSE "returned"
  /\ UNCHANGED arbitrage_callback

set_arbitrage_callback(set) ==
  /\ arbitrage_callback' = set
  /\ UNCHANGED <<exchange_books, outcome>>

clear_books ==
  /\ exchange_books' = << >>
  /\ UNCHANGED <<arbitrage_callback, outcome>>

---------------------------------------------------------------------------
get_exchange_count == Cardinality(DOMAIN exchange_books)

LevelsOf(side) ==
  UNION {{[exchange |-> e, price |-> p, quantity |-> exchange_books[e][side][p]] :
            p \in DOMAIN exchange_books[e][side]} : e \in DOMAIN exchange_books}

(* The best level of a side: of equal ones that of the first exchange. *)
BestOf(side) ==
  {l \in LevelsOf(side) :
     \A k \in LevelsOf(side) :
       \/ Better(side, l.price, k.price)
       \/ l.price = k.price /\ l.exchange <= k.exchange}

get_best_bid == BestOf("BID")

AskOfFirstVenue ==   \* mutant: the best ask of the first exchange that has one
  LET having == {l.exchange : l \in LevelsOf("ASK")}
  IN  {l \in LevelsOf("ASK") : l.exchange = Min(having) /\
         \A k \in LevelsOf("ASK") : k.exchange = Min(having) => l.price <= k.price}

get_best_ask == BestOf("ASK")

(* The two bests are read under two separate locks: bid and ask may be of *)
(* different moments.                                                     *)
get_spread(bid, ask) == {a.price - b.price : a \in ask, b \in bid}

(* Twice the mid price, so that it stays an integer. *)
get_mid_price(bid, ask) == {a.price + b.price : a \in ask, b \in bid}

(* std::sort by price: equal prices come in any order. *)
Sorted(side) ==
  LET prices  == SetToSortSeq({l.price : l \in LevelsOf(side)}, LAMBDA p, q : Better(side, p, q))
      ties(p) == SetToSeqs({l \in LevelsOf(side) : l.price = p})
  IN  FoldLeft(LAMBDA all, p : {ls \o tie : ls \in all, tie \in ties(p)}, {<< >>}, prices)

merge_bids(depth) ==
  {SubSeq(ls, 1, Min({depth, Len(ls)})) : ls \in Sorted("BID")}

merge_asks(depth) ==
  {SubSeq(ls, 1, Min({depth, Len(ls)})) : ls \in Sorted("ASK")}

(* The set of opportunities is empty (nullopt) or holds one. *)
detect_arbitrage(min) ==
  {[buy_exchange |-> ab[1].exchange, sell_exchange |-> ab[2].exchange,
    buy_price |-> ab[1].price, sell_price |-> ab[2].price,
    max_quantity |-> Min({ab[1].quantity, ab[2].quantity})] :
     ab \in {xy \in get_best_ask \X get_best_bid :
               /\ xy[2].price > xy[1].price
               /\ (xy[2].price - xy[1].price) * 1000 >= min * xy[1].price}}

---------------------------------------------------------------------------
FillUncapped(acc, l) ==   \* mutant: takes the whole level
  LET had == IF l.exchange \in DOMAIN acc.allocations
             THEN acc.allocations[l.exchange] ELSE 0
  IN  IF acc.remaining <= 0 THEN acc
      ELSE [remaining |-> acc.remaining - l.quantity,
            allocations |-> (l.exchange :> had + l.quantity) @@ acc.allocations]

(* recommend_routing fills the order level by level, best price first, and *)
(* adds up what each exchange gets.                                        *)
Fill(acc, l) ==
  LET fill == Min({acc.remaining, l.quantity})
      had  == IF l.exchange \in DOMAIN acc.allocations
              THEN acc.allocations[l.exchange] ELSE 0
  IN  IF acc.remaining <= 0 THEN acc
      ELSE [remaining |-> acc.remaining - fill,
            allocations |-> (l.exchange :> had + fill) @@ acc.allocations]

Allocate(ls, quantity) ==
  FoldLeft(Fill, [remaining |-> quantity, allocations |-> << >>], ls).allocations

(* The average price of a split, as cost and quantity. Each level counts   *)
(* with the smaller of its quantity and the WHOLE allocation of its venue. *)
ExpectedPrice(ls, alloc) ==
  LET of == [i \in DOMAIN ls |-> IF ls[i].exchange \in DOMAIN alloc
                                 THEN Min({alloc[ls[i].exchange], ls[i].quantity})
                                 ELSE 0]
  IN  [cost |-> FoldLeft(LAMBDA a, i : a + of[i] * ls[i].price, 0, [i \in DOMAIN ls |-> i]),
       quantity |-> FoldLeft(+, 0, of)]

recommend_routing(ls, quantity) ==
  LET alloc == Allocate(ls, quantity)
  IN  IF ls = << >>
      THEN [strategy |-> "SINGLE_VENUE", primary |-> Min(Exchanges), allocations |-> alloc,
            expected |-> [cost |-> 0, quantity |-> 0]]
      ELSE IF Cardinality(DOMAIN alloc) = 1
      THEN [strategy |-> "SINGLE_VENUE", primary |-> Min(DOMAIN alloc), allocations |-> << >>,
            expected |-> [cost |-> ls[1].price, quantity |-> 1]]
      ELSE [strategy |-> "SPLIT_ORDER", primary |-> Min(DOMAIN alloc), allocations |-> alloc,
            expected |-> ExpectedPrice(ls, alloc)]

---------------------------------------------------------------------------
Levels == [price : Prices, quantity : Quantities]

(* A message of more levels has the effect of several of one. *)
BookMessages ==
  LET None == {<< >>}
      One == {<<l>> : l \in Levels}
  IN  [exchange : Exchanges, bids : One, asks : None] \cup [exchange : Exchanges, bids : None, asks : One]

BookNext ==
  \/ \E msg \in BookMessages : update(msg)
  \/ \E set \in BOOLEAN : set_arbitrage_callback(set)
  \/ clear_books

AggregatedSpec == BookInit /\ [][BookNext]_bookVars

---------------------------------------------------------------------------
Liquidity(side, e) ==
  FoldFunction(+, 0, BookOf(e)[side])

(* What quantity costs (a sale: brings in) on exchange e alone. *)
CostOn(side, e, quantity) ==
  LET at == BookOf(e)[side]
      ahead(p) == FoldFunctionOnSet(+, 0, at, {q \in DOMAIN at : Better(side, q, p)})
      part == [p \in DOMAIN at |-> p * Max({0, Min({at[p], quantity - ahead(p)})})]
  IN  FoldFunction(+, 0, part)

Total(f) == FoldFunction(+, 0, f)

(* Every way to spread quantity, or what the market has of it, over the    *)
(* exchanges.                                                              *)
Splits(side, quantity) ==
  LET has == [e \in Exchanges |-> Liquidity(side, e)]
      placed == Min({quantity, Total(has)})
  IN  {f \in [Exchanges -> 0 .. placed] : Total(f) = placed /\ \A e \in Exchanges : f[e] <= has[e]}

(* On a side that has levels, recommend_routing places as much of the order *)
(* as the market can take, on exchanges that have the quantity, and no      *)
(* other split of it trades at a better total price, however equal prices   *)
(* were sorted. A single venue is recommended for what the cheapest fill    *)
(* keeps on one exchange, whether or not that has all of the quantity, and  *)
(* the primary exchange is one that gets a part, not always the largest.    *)
(* The price told is not the average that the order trades at: of a single  *)
(* venue it is the top of its book, right exactly when the order ends       *)
(* within that level and too good when it reaches past it; of a split,      *)
(* which counts levels that the order does not reach, it is never too good. *)
RoutingIsBest ==
  \A side \in {s \in Sides : LevelsOf(s) # {}}, quantity \in Orders : \A ls \in Sorted(side) :
    LET rec   == recommend_routing(ls, quantity)
        single == rec.strategy = "SINGLE_VENUE"
        plan  == [e \in Exchanges |->
                    IF single
                    THEN IF e = rec.primary THEN Min({quantity, Liquidity(side, e)}) ELSE 0
                    ELSE IF e \in DOMAIN rec.allocations THEN rec.allocations[e] ELSE 0]
        worth(f) == Total([e \in Exchanges |-> CostOn(side, e, f[e])])
        \* the price told and the price paid, over a common denominator
        told  == rec.expected.cost * Total(plan)
        paid  == worth(plan) * rec.expected.quantity
        within(e) == \E p \in DOMAIN BookOf(e)[side] :
                       /\ \A q \in DOMAIN BookOf(e)[side] : ~Better(side, q, p)
                       /\ BookOf(e)[side][p] >= plan[e]
        shallow == \A e \in Exchanges : plan[e] > 0 => within(e)
        splits == Splits(side, quantity)
    IN  /\ plan \in splits
        /\ \A f \in splits : ~Better(side, worth(f), worth(plan))
        /\ plan[rec.primary] > 0
        /\ single => ~Better(side, paid, told) /\ (told = paid <=> shallow)
        /\ ~single => ~Better(side, told, paid)

Uncrossed(e) ==
  \A b \in DOMAIN BookOf(e)["BID"], a \in DOMAIN BookOf(e)["ASK"] : b < a

(* detect_arbitrage answers nullopt exactly when no bid of any exchange is  *)
(* above an ask of any exchange by the profit asked for; what it answers is *)
(* the largest profit there is, in a quantity both levels hold, and as long *)
(* as no exchange's own book is crossed it trades between two exchanges.    *)
OpportunitiesSound ==
  \A min \in MinProfits :
    LET pairs == {ab \in LevelsOf("ASK") \X LevelsOf("BID") :
                    /\ ab[1].price < ab[2].price
                    /\ (ab[2].price - ab[1].price) * 1000 >= min * ab[1].price}
    IN  /\ detect_arbitrage(min) = {} <=> pairs = {}
        /\ \A opp \in detect_arbitrage(min) :
             /\ \A ab \in pairs :
                  ab[2].price - ab[1].price <= opp.sell_price - opp.buy_price
             /\ opp.max_quantity <= BookOf(opp.buy_exchange)["ASK"][opp.buy_price]
             /\ opp.max_quantity <= BookOf(opp.sell_exchange)["BID"][opp.sell_price]
             /\ (\A e \in Exchanges : Uncrossed(e)) => opp.buy_exchange # opp.sell_exchange
=======================================================================
