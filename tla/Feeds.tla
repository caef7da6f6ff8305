------------------------------- MODULE Feeds -------------------------------
(* From an exchange's market to the order book of the OrderBookManager: the *)
(* on_message handlers and parsers of the three connectors, each on its own *)
(* I/O thread, the callback of ConnectionManager and process_update, which  *)
(* applies a message level by level with the manager's mutex_ held shared.  *)
(* A book takes one level at a time and answers snapshots atomically, as    *)
(* OrderBook.tla shows for one writer; it refuses a new level of a full     *)
(* side, and a removal may put another price out of the price map's reach:  *)
(* such a book is Astray, and is not followed any further. The connectors   *)
(* name their symbols differently, so a book has one feeding thread.        *)
(* External: the exchanges, which answer a subscription, send every change  *)
(* of a subscribed market in order and may send a message that does not     *)
(* parse; and the application, which owns the books.                        *)
EXTENDS Integers, SequencesExt

CONSTANTS
  Feeders,        \* sets of exchanges of which the application adds one
  SymbolsOf,      \* exchange -> its symbols
  FeedPrices, FeedQuantities,
  BookSizes,      \* values of MAX_LEVELS, of which the build has one
  Depth,          \* levels a side in the snapshot for update_callback_
  Behind,         \* <<p, q>>: in the price map q may have been put behind p
  Channels,       \* channel ids of Kraken
  Changes,        \* bound: the sets of levels one change of a market is about
  MaxMoves,       \* bound: changes of the markets
  MaxSubscribes,  \* bound: subscriptions
  MaxOwner,       \* bound: clear, remove and create after the first creation
  MaxWire,        \* bound: messages under way on a connection
  NoBook,         \* the symbol has no order book
  Astray          \* a book that lost track of a price, or that two threads wrote

BINANCE == "BINANCE"
COINBASE == "COINBASE"
KRAKEN == "KRAKEN"

Keys == {"BID", "ASK"} \X FeedPrices

ASSUME FeedsAssumption ==
  /\ \A es \in Feeders : es \subseteq {BINANCE, COINBASE, KRAKEN} /\ es \subseteq DOMAIN SymbolsOf
  /\ \A e, f \in DOMAIN SymbolsOf : e # f => SymbolsOf[e] \cap SymbolsOf[f] = {}
  /\ FeedQuantities \subseteq Nat /\ 0 \in FeedQuantities
  /\ IsFiniteSet(FeedPrices) /\ Changes \subseteq SUBSET Keys
  /\ BookSizes \subseteq Nat \ {0} /\ Depth \in Nat /\ Behind \subseteq FeedPrices \X FeedPrices
  /\ NoBook # Astray /\ {NoBook, Astray} \cap [Keys -> FeedQuantities] = {}
  /\ {MaxMoves, MaxSubscribes, MaxOwner, MaxWire} \subseteq Nat

VARIABLES
  feeds,          \* the exchanges that were added
  max_levels,     \* MAX_LEVELS: how many levels a side of a book holds
  market,         \* external: symbol -> <<side, price>> -> quantity
  subscribed,     \* external: symbols the exchange sends changes of
  channel,        \* external: symbol of Kraken -> its channel, 0 for none
  wire,           \* external: exchange -> messages under way, oldest first
  channel_map,    \* KrakenConnector::channel_map_, never shortened
  order_books,    \* symbol -> its OrderBook, Astray or NoBook
  io,             \* exchange -> where its I/O thread is
  moves, subscribes, owner,   \* counters of the bounds
  told,           \* history: symbol -> <<side, price>> -> the last quantity the exchange
                  \* sent, since the subscription, in the element a handler reads
  refused,        \* history: symbol -> the levels the book had no slot for when they came
  clean           \* history: symbols whose book was there, empty, at subscription and
                  \* that nothing has been dropped, hidden or cleared of since

exchangeVars == <<market, subscribed, channel, moves, subscribes, told>>
vars == <<feeds, max_levels, exchangeVars, wire, channel_map, order_books, io, owner, refused, clean>>

-----------------------------------------------------------------------------
Empty == [k \in Keys |-> 0]
Symbols == UNION {SymbolsOf[e] : e \in feeds}
Exchange(sym) == CHOOSE e \in feeds : sym \in SymbolsOf[e]
Idle == [at |-> "idle", sym |-> "", levels |-> << >>, update |-> << >>, snapshot |-> << >>]

Init ==
  /\ feeds \in Feeders /\ max_levels \in BookSizes
  /\ \E q \in FeedQuantities :
       market = [s \in Symbols |-> [k \in Keys |-> IF k[1] = "BID" THEN q ELSE 0]]
  /\ subscribed = {}
  /\ channel = [s \in Symbols |-> 0]
  /\ wire = [e \in feeds |-> << >>]
  /\ channel_map = << >>
  /\ order_books = [s \in Symbols |-> NoBook]
  /\ io = [e \in feeds |-> Idle]
  /\ moves = 0 /\ subscribes = 0 /\ owner = 0
  /\ told = [s \in Symbols |-> Empty]
  /\ refused = [s \in Symbols |-> {}]
  /\ clean = {}

-----------------------------------------------------------------------------
(* The exchanges. A message names its levels the way that exchange does;    *)
(* Kraken sends a change of both sides in two elements, the asks first.     *)
Message(kind, sym, ch, levels, further, bad) ==
  [kind |-> kind, pair |-> sym, channel |-> ch, levels |-> levels, further |-> further, bad |-> bad]

FirstElement(e, ks) ==
  IF e = KRAKEN /\ \E k \in ks : k[1] = "ASK" THEN {k \in ks : k[1] = "ASK"} ELSE ks

Room(e, n) == Len(wire[e]) + n <= MaxWire

LevelsOf(m, ks) == SetToSeq({<<k, m[k]>> : k \in ks})

AllLevels(m) == LevelsOf(m, {k \in Keys : m[k] # 0})

OnItsWay(sym) ==
  \/ io[Exchange(sym)].sym = sym
  \/ \E i \in DOMAIN wire[Exchange(sym)] : wire[Exchange(sym)][i].pair = sym

(* What the connectors' send_subscription asks for or ends.                 *)
binance_request(sym, subscribe) ==
  [method |-> IF subscribe THEN "SUBSCRIBE" ELSE "UNSUBSCRIBE", stream |-> "depth@100ms", symbol |-> sym]

coinbase_request(sym, subscribe) ==
  [method |-> IF subscribe THEN "subscribe" ELSE "unsubscribe", stream |-> "level2_batch", symbol |-> sym]

kraken_request(sym, subscribe) ==
  [method |-> IF subscribe THEN "subscribe" ELSE "unsubscribe", stream |-> "book", symbol |-> sym]

send_subscription(sym, subscribe) ==
  CASE Exchange(sym) = BINANCE  -> binance_request(sym, subscribe)
    [] Exchange(sym) = COINBASE -> coinbase_request(sym, subscribe)
    [] Exchange(sym) = KRAKEN   -> kraken_request(sym, subscribe)

(* A subscription arrives. The streams of Coinbase and Kraken begin with a  *)
(* snapshot, Kraken's with the channel before it; depth@100ms has changes   *)
(* only.                                                                    *)
Subscribe(sym) ==
  LET e == Exchange(sym)
      request == send_subscription(sym, TRUE)
      snapshot(ch) == Message("snapshot", sym, ch, AllLevels(market[sym]), << >>, FALSE)
  IN  /\ sym \notin subscribed /\ subscribes < MaxSubscribes
      /\ subscribed' = subscribed \cup {request.symbol}
      /\ subscribes' = subscribes + 1
      /\ \/ /\ request.stream = "book" /\ Room(e, 2)
            /\ \E ch \in Channels \ {channel[s] : s \in Symbols} :
                 /\ channel' = [channel EXCEPT ![sym] = ch]
                 /\ wire' = [wire EXCEPT ![e] = @ \o
                      <<Message("subscriptionStatus", sym, ch, << >>, << >>, FALSE), snapshot(ch)>>]
         \/ /\ request.stream = "level2_batch" /\ Room(e, 1)
            /\ wire' = [wire EXCEPT ![e] = Append(@, snapshot(0))]
            /\ UNCHANGED channel
         \/ request.stream = "depth@100ms" /\ UNCHANGED <<wire, channel>>
      /\ clean' = IF /\ order_books[sym] = Empty /\ ~OnItsWay(sym)
                     /\ e = BINANCE => market[sym] = Empty
                  THEN clean \cup {sym} ELSE clean \ {sym}
      /\ told' = [told EXCEPT ![sym] = market[sym]]
      /\ refused' = [refused EXCEPT ![sym] = {}]
      /\ UNCHANGED <<feeds, max_levels, market, channel_map, order_books, io, moves, owner>>

Unsubscribe(sym) ==
  /\ sym \in subscribed
  /\ subscribed' = subscribed \ {send_subscription(sym, FALSE).symbol}
  /\ channel' = [channel EXCEPT ![sym] = 0]
  /\ clean' = clean \ {sym}
  /\ told' = [told EXCEPT ![sym] = Empty]
  /\ UNCHANGED <<feeds, max_levels, market, wire, channel_map, order_books, io, moves, subscribes,
                 owner, refused>>

(* A change of a market; the message may not parse. *)
Move(sym) ==
  LET e == Exchange(sym)
      changed(book, ks, new) == [k \in Keys |-> IF k \in ks THEN new[k] ELSE book[k]]
  IN  /\ moves < MaxMoves
      /\ \E ks \in Changes, bad \in BOOLEAN : \E new \in [ks -> FeedQuantities] :
           LET first == FirstElement(e, ks)
           IN  /\ market' = [market EXCEPT ![sym] = changed(@, ks, new)]
               /\ \/ /\ sym \in subscribed /\ Room(e, 1)
                     /\ wire' = [wire EXCEPT ![e] = Append(@, Message("update", sym, channel[sym],
                                   LevelsOf(new, first), LevelsOf(new, ks \ first), bad))]
                     /\ told' = [told EXCEPT ![sym] = changed(@, first, new)]
                     /\ clean' = IF bad THEN clean \ SymbolsOf[e] ELSE clean
                  \/ sym \notin subscribed /\ ~bad /\ UNCHANGED <<wire, told, clean>>
      /\ moves' = moves + 1
      /\ UNCHANGED <<feeds, max_levels, subscribed, channel, channel_map, order_books, io, subscribes,
                     owner, refused>>

(* Status, heartbeat and error messages. *)
Notice(e) ==
  /\ wire[e] = << >> /\ moves < MaxMoves
  /\ moves' = moves + 1
  /\ wire' = [wire EXCEPT ![e] = <<Message("notice", "", 0, << >>, << >>, FALSE)>>]
  /\ UNCHANGED <<feeds, max_levels, market, subscribed, channel, channel_map, order_books, io,
                 subscribes, told, owner, refused, clean>>

-----------------------------------------------------------------------------
(* The parsers: bids first, then asks, each in the order of the message; an *)
(* exception while parsing drops the whole message.                         *)
OfSide(levels, side) ==
  LET part[n \in 0..Len(levels)] ==
        IF n = 0 THEN << >>
        ELSE IF levels[n][1][1] = side THEN Append(part[n - 1], levels[n])
        ELSE part[n - 1]
  IN  part[Len(levels)]

Normalized(pair, levels) ==
  [symbol |-> pair, bids |-> OfSide(levels, "BID"), asks |-> OfSide(levels, "ASK")]

Parsed(msg, pair) == IF msg.bad THEN {} ELSE {Normalized(pair, msg.levels)}

parse_depth_update(msg) == Parsed(msg, msg.pair)

coinbase_parse_snapshot(msg) == Parsed(msg, msg.pair)

parse_l2update(msg) == Parsed(msg, msg.pair)

kraken_parse_snapshot(msg, pair) == Parsed(msg, pair)

(* The data object is the message's second element: those after it are      *)
(* never looked at.                                                         *)
parse_update(msg, pair) == Parsed(msg, pair)

(* What a handler passes to orderbook_callback_: one update or nothing.     *)
binance_on_message(msg) ==
  IF msg.kind = "update" THEN parse_depth_update(msg) ELSE {}

coinbase_on_message(msg) ==
  CASE msg.kind = "snapshot" -> coinbase_parse_snapshot(msg)
    [] msg.kind = "update"   -> parse_l2update(msg)
    [] OTHER -> {}

FirstComeMap(msg) ==   \* mutant: a channel that is known keeps its pair
  IF msg.kind = "subscriptionStatus"
  THEN [c \in DOMAIN channel_map \cup {msg.channel} |->
          IF c \in DOMAIN channel_map THEN channel_map[c] ELSE msg.pair]
  ELSE channel_map

(* A subscriptionStatus maps the channel, over an older pair of that id.    *)
kraken_channels(msg) ==
  IF msg.kind = "subscriptionStatus"
  THEN [c \in DOMAIN channel_map \cup {msg.channel} |->
          IF c = msg.channel THEN msg.pair ELSE channel_map[c]]
  ELSE channel_map

(* The pair of a data message is the channel's, else its last element.      *)
kraken_on_message(msg) ==
  LET pair == IF msg.channel \in DOMAIN channel_map THEN channel_map[msg.channel] ELSE msg.pair
  IN  CASE msg.kind = "snapshot" -> kraken_parse_snapshot(msg, pair)
        [] msg.kind = "update"   -> parse_update(msg, pair)
        [] OTHER -> {}

Handled(e, msg) ==
  CASE e = BINANCE  -> binance_on_message(msg)
    [] e = COINBASE -> coinbase_on_message(msg)
    [] e = KRAKEN   -> kraken_on_message(msg)

(* The I/O thread takes the next message; ConnectionManager's callback      *)
(* passes the update to process_update, which takes mutex_ shared and looks *)
(* the book up: without a book the update is dropped.                       *)
process_update(e) ==
  LET msg == Head(wire[e])
      has == {u \in Handled(e, msg) : order_books[u.symbol] # NoBook}
  IN  /\ io[e].at = "idle" /\ wire[e] # << >>
      /\ wire' = [wire EXCEPT ![e] = Tail(@)]
      /\ channel_map' = IF e = KRAKEN THEN kraken_channels(msg) ELSE channel_map
      /\ io' = [io EXCEPT ![e] =
           IF has = {} THEN @
           ELSE LET u == CHOOSE x \in has : TRUE
                IN  [at |-> "apply", sym |-> u.symbol, levels |-> u.bids \o u.asks,
                     update |-> u.bids \o u.asks, snapshot |-> << >>]]
      /\ clean' = clean \ {u.symbol : u \in Handled(e, msg) \ has}
      /\ UNCHANGED <<feeds, max_levels, exchangeVars, order_books, owner, refused>>

(* A book: a level with no quantity is not there. Better levels stand       *)
(* before a level in its side, and Top is a snapshot of so many of a side.  *)
Levels(book, side) == {k \in Keys : k[1] = side /\ book[k] > 0}

Better(book, k) ==
  {j \in Levels(book, k[1]) : IF k[1] = "BID" THEN j[2] > k[2] ELSE j[2] < k[2]}

Top(book, depth) ==
  IF book = Astray THEN Astray
  ELSE [k \in Keys |-> IF Cardinality(Better(book, k)) < depth THEN book[k] ELSE 0]

NoSlot(book, k) == book[k] = 0 /\ Cardinality(Levels(book, k[1])) >= max_levels

Hides(book, k, q) ==
  q = 0 /\ book[k] # 0 /\ \E j \in Levels(book, k[1]) : <<k[2], j[2]>> \in Behind

(* update_bid or update_ask of the next level: it is refused if it is new   *)
(* and no slot is free, and its answer is not looked at. A removal empties  *)
(* the level's place in the price map, which may hide a price behind it.    *)
ApplyLevel(e) ==
  LET sym == io[e].sym
      key == Head(io[e].levels)[1]
      quantity == Head(io[e].levels)[2]
      book == order_books[sym]
  IN  /\ io[e].at = "apply" /\ io[e].levels # << >>
      /\ \/ /\ book # Astray /\ NoSlot(book, key)
            /\ refused' = [refused EXCEPT ![sym] = IF quantity = 0 THEN @ \ {key} ELSE @ \cup {key}]
            /\ UNCHANGED <<order_books, clean>>
         \/ /\ book # Astray /\ ~NoSlot(book, key)
            /\ order_books' = [order_books EXCEPT ![sym][key] = quantity]
            /\ refused' = [refused EXCEPT ![sym] = @ \ {key}]
            /\ UNCHANGED clean
         \/ /\ book # Astray => Hides(book, key, quantity)
            /\ order_books' = [order_books EXCEPT ![sym] = Astray]
            /\ clean' = clean \ {sym}
            /\ UNCHANGED refused
      /\ io' = [io EXCEPT ![e].levels = Tail(@)]
      /\ UNCHANGED <<feeds, max_levels, exchangeVars, wire, channel_map, owner>>

(* Mutant: the callback is given its snapshot before the asks are in. *)
NotifyEarly(e) ==
  /\ io[e].at = "apply" /\ Len(io[e].levels) <= 1
  /\ io' = [io EXCEPT ![e].at = "callback", ![e].snapshot = Top(order_books[io[e].sym], Depth)]
  /\ UNCHANGED <<feeds, max_levels, exchangeVars, wire, channel_map, order_books, owner, refused,
                 clean>>

(* All levels are in: the snapshot for update_callback_ is taken.           *)
Notify(e) ==
  /\ io[e].at = "apply" /\ io[e].levels = << >>
  /\ io' = [io EXCEPT ![e].at = "callback", ![e].snapshot = Top(order_books[io[e].sym], Depth)]
  /\ UNCHANGED <<feeds, max_levels, exchangeVars, wire, channel_map, order_books, owner, refused,
                 clean>>

(* The callback returns, mutex_ is released and the handler is done. *)
Done(e) ==
  /\ io[e].at = "callback"
  /\ io' = [io EXCEPT ![e] = Idle]
  /\ UNCHANGED <<feeds, max_levels, exchangeVars, wire, channel_map, order_books, owner, refused,
                 clean>>

-----------------------------------------------------------------------------
(* The owner of the books. mutex_ is held shared by every thread inside     *)
(* process_update.                                                          *)
Holders == {e \in feeds : io[e].at # "idle"}

create_order_book(sym) ==
  /\ Holders = {}
  /\ order_books[sym] = NoBook
  /\ order_books' = [order_books EXCEPT ![sym] = Empty]
  /\ UNCHANGED <<feeds, max_levels, exchangeVars, wire, channel_map, io, owner, clean, refused>>

RemoveUnlocked(sym) ==   \* mutant: remove takes the mutex shared, like clear
  /\ order_books[sym] # NoBook /\ owner < MaxOwner
  /\ owner' = owner + 1
  /\ order_books' = [order_books EXCEPT ![sym] = NoBook]
  /\ clean' = clean \ {sym}
  /\ UNCHANGED <<feeds, max_levels, exchangeVars, wire, channel_map, io, refused>>

remove_order_book(sym) ==
  /\ Holders = {}
  /\ order_books[sym] # NoBook /\ owner < MaxOwner
  /\ owner' = owner + 1
  /\ order_books' = [order_books EXCEPT ![sym] = NoBook]
  /\ clean' = clean \ {sym}
  /\ UNCHANGED <<feeds, max_levels, exchangeVars, wire, channel_map, io, refused>>

(* clear_order_book holds mutex_ shared only: beside an update of the same  *)
(* book there are two writers.                                              *)
clear_order_book(sym) ==
  /\ order_books[sym] # NoBook /\ owner < MaxOwner
  /\ owner' = owner + 1
  /\ order_books' = [order_books EXCEPT ![sym] =
                       IF \E e \in Holders : io[e].sym = sym THEN Astray ELSE Empty]
  /\ clean' = clean \ {sym}
  /\ UNCHANGED <<feeds, max_levels, exchangeVars, wire, channel_map, io, refused>>

(* Answers of the manager: nullopt (empty) for a symbol without a book.     *)
get_snapshot(sym, depth) ==
  IF order_books[sym] = NoBook THEN {} ELSE {Top(order_books[sym], depth)}

(* The book's own answers, with no update under way. A spread or mid price  *)
(* of a book with an empty side is 0; the mid price is given twice over and *)
(* the imbalance as numerator and denominator.                              *)
Quote(book, f(_, _)) ==
  IF Levels(book, "BID") = {} \/ Levels(book, "ASK") = {} THEN 0
  ELSE f(Max({k[2] : k \in Levels(book, "BID")}), Min({k[2] : k \in Levels(book, "ASK")}))

Spread(book) == Quote(book, LAMBDA bid, ask : ask - bid)

TwiceMidPrice(book) == Quote(book, LAMBDA bid, ask : bid + ask)

Volume(book, side) == MapThenSumSet(LAMBDA k : book[k], Levels(book, side))

get_book_imbalance(book) ==
  <<Volume(book, "BID") - Volume(book, "ASK"), Volume(book, "BID") + Volume(book, "ASK")>>

Statistics(book) ==
  [spread |-> Spread(book), mid_price |-> TwiceMidPrice(book),
   book_imbalance |-> get_book_imbalance(book),
   volume |-> [side \in {"BID", "ASK"} |-> Volume(book, side)],
   depth |-> [side \in {"BID", "ASK"} |-> Cardinality(Levels(book, side))]]

(* The manager's answers about a symbol, from its whole book.               *)
BookOf(sym) == {order_books[sym]} \ {NoBook}

get_spread(sym) == {Spread(book) : book \in BookOf(sym)}

get_mid_price(sym) == {TwiceMidPrice(book) : book \in BookOf(sym)}

get_statistics(sym) == {Statistics(book) : book \in BookOf(sym)}

get_symbols == {s \in Symbols : order_books[s] # NoBook}

size == Cardinality(get_symbols)

Next ==
  \/ \E e \in feeds : Notice(e) \/ process_update(e) \/ ApplyLevel(e) \/ Notify(e) \/ Done(e)
  \/ \E s \in Symbols : \/ Subscribe(s) \/ Unsubscribe(s) \/ Move(s)
                        \/ create_order_book(s) \/ remove_order_book(s) \/ clear_order_book(s)

Spec == Init /\ [][Next]_vars

-----------------------------------------------------------------------------
(* What a book must show: the market, or for Kraken what the elements the   *)
(* handler reads said of it, but for the levels that found no slot.         *)
Mirror(sym) ==
  [k \in Keys |-> IF k \in refused[sym] THEN 0
                  ELSE IF Exchange(sym) = KRAKEN THEN told[sym][k] ELSE market[sym][k]]

(* Once everything an exchange sent about a symbol has been handled, the    *)
(* book is the market's mirror, level for level: no message is applied to   *)
(* the wrong book, twice, in part or out of order, and what differs is what *)
(* update_level refused and what stands in an element that is never read.   *)
(* It holds while the book has been there, empty, since the subscription,   *)
(* and nothing of it was cleared, hidden by a removal or failed to parse.   *)
(* So do the manager's answers about it, to any depth.                      *)
MirrorsMarket ==
  \A s \in clean : s \in subscribed /\ ~OnItsWay(s) =>
    /\ \A depth \in 0..Cardinality(Keys) : get_snapshot(s, depth) = {Top(Mirror(s), depth)}
    /\ s \in get_symbols
    /\ get_spread(s) = {Spread(Mirror(s))} /\ get_mid_price(s) = {TwiceMidPrice(Mirror(s))}
    /\ get_statistics(s) = {Statistics(Mirror(s))}

(* The snapshot update_callback_ is given has every level of the update it  *)
(* is called for, although the levels are written one at a time: all but    *)
(* those the book refused, and those that at least Depth better levels of   *)
(* the book keep out of a snapshot of that depth.                           *)
CallbackComplete ==
  \A e \in feeds : io[e].at = "callback" /\ io[e].sym \in clean =>
    \A i \in DOMAIN io[e].update :
      (\A j \in DOMAIN io[e].update : j > i => io[e].update[j][1] # io[e].update[i][1]) =>
        LET key == io[e].update[i][1]
            missing == \/ key \in refused[io[e].sym]
                       \/ Cardinality(Better(order_books[io[e].sym], key)) >= Depth
        IN  io[e].snapshot[key] = IF missing THEN 0 ELSE io[e].update[i][2]

(* The book a thread is applying levels to, or took its snapshot from, is   *)
(* not removed under it.                                                    *)
BookStays == \A e \in Holders : order_books[io[e].sym] # NoBook
=============================================================================
