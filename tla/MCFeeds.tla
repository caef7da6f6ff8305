------------------------------ MODULE MCFeeds ------------------------------
(* Kraken with two symbols, so that a channel id can pass from one to the   *)
(* other, or Coinbase and Binance side by side with one symbol each. Of two *)
(* prices of a side a book holds one or both, a callback is shown the best, *)
(* and the removal of one may hide the other.                               *)
EXTENDS Feeds

MCFeeders == {{KRAKEN}, {BINANCE, COINBASE}}
MCSymbolsOf == [e \in {BINANCE, COINBASE, KRAKEN} |->
                  CASE e = BINANCE -> {"BTCUSDT"} [] e = COINBASE -> {"BTC-USD"}
                    [] e = KRAKEN -> {"XBT/USD", "ETH/USD"}]
MCBehind == {<<1, 2>>}
MCChanges == {{<<"BID", 1>>}, {<<"BID", 2>>, <<"ASK", 1>>}}
=============================================================================
