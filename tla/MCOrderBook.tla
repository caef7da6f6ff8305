---------------------------- MODULE MCOrderBook ----------------------------
(***************************************************************************)
(* Instances of OrderBook for TLC.  With four entries in the price map,    *)
(* the fixed-point prices 1 and 5 have the same home bucket and 3 has one  *)
(* of its own.                                                             *)
(***************************************************************************)
EXTENDS OrderBook

U(s, p, q) == [side |-> s, price |-> p, quantity |-> q]

(* One fixed-point unit is two sub-units.  Prices 1 and 5 collide and are  *)
(* never removed, price 3 is removed by a quantity below one unit.         *)
CollidingUpdates ==
  {U("BID", 2, 2), U("BID", 11, 2), U("BID", 6, 4), U("BID", 7, 1), U("ASK", 6, 2)}

(* Both colliding prices come and go.                                      *)
RemovedCollision ==
  {U("BID", p, q) : p \in {2, 10}, q \in {0, 2}}
=============================================================================
