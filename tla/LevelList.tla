---------------------------- MODULE LevelList ----------------------------
(* The other AggregatedOrderBook, of core/order_book_manager.hpp: one       *)
(* sorted vector of ExchangeLevels per side, one level per call. Every      *)
(* operation holds mutex_ throughout and is one step.                       *)
EXTENDS Venues, SequencesExt

CONSTANT ListBound       \* bound: levels in the two vectors
ASSUME ListBoundAssumption == ListBound \in Nat

VARIABLES
  aggregated,    \* side -> aggregated_bids_ or aggregated_asks_
  told,          \* history: side -> exchange -> price -> quantity last told (0: none)
  shared         \* history: <<side, price>> two exchanges quoted at once since clear

listVars == <<aggregated, told, shared>>

NothingTold == [s \in Sides |-> [e \in Exchanges |-> [p \in Prices |-> 0]]]

ListInit ==
  /\ aggregated = [s \in Sides |-> << >>]
  /\ told = NothingTold
  /\ shared = {}

NotSorted(side, levels) == {levels}   \* mutant: the new level stays at the end

(* std::sort of a vector by price: equal prices end up in any order. *)
SortedBy(side, levels) ==
  {ls \in {[i \in DOMAIN levels |-> levels[pi[i]]] : pi \in SetToSeqs(DOMAIN levels)} :
     \A i, j \in DOMAIN ls : i < j => ~Better(side, ls[j].price, ls[i].price)}

(* find_if: the first level at the price, whosever it is. *)
FindLevel(levels, price) == SelectInSeq(levels, LAMBDA l : l.price = price)

update_level(exchange, side, price, quantity) ==
  LET levels == aggregated[side]
      it     == FindLevel(levels, price)
      mine   == it # 0 /\ levels[it].exchange = exchange
      level  == [price |-> price, quantity |-> quantity, exchange |-> exchange]
  IN  /\ quantity = 0 \/ mine \/ Len(aggregated["BID"]) + Len(aggregated["ASK"]) < ListBound
      /\ \E new \in (IF quantity = 0
                     THEN {IF mine THEN RemoveAt(levels, it) ELSE levels}
                     ELSE IF mine THEN {[levels EXCEPT ![it].quantity = quantity]}
                     ELSE SortedBy(side, Append(levels, level))) :
           aggregated' = [aggregated EXCEPT ![side] = new]
      /\ told' = [told EXCEPT ![side][exchange][price] = quantity]
      /\ shared' = IF quantity # 0 /\ \E e \in Exchanges \ {exchange} : told[side][e][price] # 0
                   THEN shared \cup {<<side, price>>} ELSE shared

clear_list ==
  /\ aggregated' = [s \in Sides |-> << >>]
  /\ told' = NothingTold
  /\ shared' = {}

---------------------------------------------------------------------------
PricesIn(side) == {aggregated[side][i].price : i \in DOMAIN aggregated[side]}

(* get_snapshot adds up the levels of a price and sorts by price; the      *)
(* prices are unique, so the order is determined by the totals' domain.    *)
list_snapshot(side) ==
  [p \in PricesIn(side) |->
     FoldLeft(LAMBDA a, l : IF l.price = p THEN a + l.quantity ELSE a, 0, aggregated[side])]

list_best_bid == IF aggregated["BID"] = << >> THEN {} ELSE {Head(aggregated["BID"])}

list_best_ask == IF aggregated["ASK"] = << >> THEN {} ELSE {Head(aggregated["ASK"])}

(* Twice the mid price; the two calls take the lock separately, and no     *)
(* weight enters.                                                          *)
get_weighted_mid_price(bid, ask) ==
  IF bid = {} \/ ask = {} THEN {0} ELSE {b.price + a.price : b \in bid, a \in ask}

ListNext ==
  \/ \E e \in Exchanges, s \in Sides, p \in Prices, q \in Quantities : update_level(e, s, p, q)
  \/ clear_list

---------------------------------------------------------------------------
(* The levels listed for a price are those the exchanges last told, one for *)
(* each exchange that has the price, for every price that was never quoted  *)
(* by two exchanges at once; for those, get_snapshot's total is the sum of  *)
(* what was told, and the front of a vector is the best price there is.     *)
ListFaithful ==
  \A s \in Sides :
    /\ \A p \in Prices : <<s, p>> \notin shared =>
         /\ p \in PricesIn(s) <=> \E e \in Exchanges : told[s][e][p] # 0
         /\ \A e \in Exchanges : told[s][e][p] # 0 => list_snapshot(s)[p] = told[s][e][p]
         /\ \A i, j \in DOMAIN aggregated[s] :
              aggregated[s][i].price = p /\ aggregated[s][j].price = p => i = j
    /\ \A best \in (IF s = "BID" THEN list_best_bid ELSE list_best_ask) :
         \A e \in Exchanges, p \in Prices :
           told[s][e][p] # 0 /\ <<s, p>> \notin shared => ~Better(s, p, best.price)
=======================================================================
