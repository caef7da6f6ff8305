---------------------------- MODULE Venues ----------------------------
(* The exchanges and the price levels the aggregated books deal in.      *)
EXTENDS Integers

CONSTANTS
  Exchanges,     \* values of enum class Exchange, ordered as std::map orders them
  Prices,        \* prices, in ticks
  Quantities     \* quantities of a level in a message; 0 removes the level

ASSUME VenuesAssumption ==
  /\ Exchanges \subseteq Nat
  /\ Prices \subseteq Nat \ {0}
  /\ Quantities \subseteq Nat

(* enum class Side: a bid is better the higher it is, an ask the lower. *)
Sides == {"BID", "ASK"}

Better(side, p, q) == IF side = "BID" THEN p > q ELSE p < q
=======================================================================
