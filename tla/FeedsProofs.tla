---------------------------- MODULE FeedsProofs ----------------------------
(***************************************************************************)
(* Theorems about Feeds for any exchanges, symbols, prices, quantities and *)
(* channels and any number of messages, subscriptions and calls.           *)
(***************************************************************************)
EXTENDS Feeds, FiniteSetTheorems, FunctionTheorems, SequenceTheorems, WellFoundedInduction, TLAPS

-----------------------------------------------------------------------------
(* The inductive invariant.                                                *)

AllSymbols == UNION {SymbolsOf[e] : e \in DOMAIN SymbolsOf}
Books == [Keys -> FeedQuantities]
Level == Keys \X FeedQuantities
Data == {"snapshot", "update"}
Kinds == Data \cup {"subscriptionStatus", "notice"}
Msg == [kind : Kinds, pair : AllSymbols \cup {""}, channel : Channels \cup {0},
        levels : Seq(Level), further : Seq(Level), bad : BOOLEAN]
Io == [at : {"idle", "apply", "callback"}, sym : AllSymbols \cup {""},
       levels : Seq(Level), update : Seq(Level), snapshot : Books \cup {<< >>, Astray}]

Types ==
  /\ feeds \in Feeders
  /\ market \in [Symbols -> Books] /\ told \in [Symbols -> Books]
  /\ subscribed \subseteq Symbols
  /\ channel \in [Symbols -> Channels \cup {0}]
  /\ wire \in [feeds -> Seq(Msg)]
  /\ channel_map \in [DOMAIN channel_map -> SymbolsOf[KRAKEN]]
  /\ order_books \in [Symbols -> Books \cup {NoBook, Astray}]
  /\ refused \in [Symbols -> SUBSET Keys]
  /\ io \in [feeds -> Io]
  /\ clean \subseteq subscribed

(* A list of levels has one quantity for a key.                            *)
OneEach(levels) ==
  \A i, j \in DOMAIN levels : levels[i][1] = levels[j][1] => levels[i] = levels[j]

(* What an exchange sends.                                                 *)
MessageSound(e, msg) ==
  /\ msg.kind \in Data => msg.pair \in SymbolsOf[e]
  /\ msg.kind = "subscriptionStatus" => e = KRAKEN /\ msg.pair \in SymbolsOf[e]
  /\ msg.kind \notin Data => msg.levels = << >>
  /\ e = BINANCE => msg.kind # "snapshot"
  /\ OneEach(msg.levels)

WiresSound == \A e \in feeds : \A i \in DOMAIN wire[e] : MessageSound(e, wire[e][i])

(* A thread that applies an update has a book to apply it to, and what it  *)
(* has left is of its update.                                              *)
ThreadSound(e) ==
  /\ io[e].at # "idle" =>
       /\ io[e].sym \in SymbolsOf[e] /\ order_books[io[e].sym] # NoBook
       /\ OneEach(io[e].update)
       /\ \A i \in DOMAIN io[e].levels : \E j \in DOMAIN io[e].update : io[e].levels[i] = io[e].update[j]
  /\ io[e].at = "callback" => io[e].levels = << >>

ThreadsSound == \A e \in feeds : ThreadSound(e)

(* A book shows the quantity of a level, unless it refused the level.      *)
Holds(book, ref, k, q) == book[k] = IF k \in ref THEN 0 ELSE q

(* Levels of the update that are not left are in the book.                 *)
Applied(e) ==
  io[e].sym \in clean /\ io[e].at # "idle" =>
    /\ \A i \in DOMAIN io[e].update :
         \/ \E j \in DOMAIN io[e].levels : io[e].levels[j] = io[e].update[i]
         \/ Holds(order_books[io[e].sym], refused[io[e].sym], io[e].update[i][1], io[e].update[i][2])
    /\ io[e].at = "callback" => io[e].snapshot = Top(order_books[io[e].sym], Depth)

UpdatesApplied == \A e \in feeds : Applied(e)

(* Kraken's channels: the status message before position n that was last   *)
(* for channel ch, or else the map, gives pair.                            *)
Status(w, j, ch) == w[j].kind = "subscriptionStatus" /\ w[j].channel = ch

Resolves(w, map, n, ch, pair) ==
  /\ \A j \in DOMAIN w :
       j < n /\ Status(w, j, ch) /\ (\A l \in DOMAIN w : j < l /\ l < n => ~Status(w, l, ch)) =>
         w[j].pair = pair
  /\ (\A j \in DOMAIN w : j < n => ~Status(w, j, ch)) => ch \in DOMAIN map /\ map[ch] = pair

ChannelsDistinct ==
  /\ \A s \in Symbols : s \notin subscribed => channel[s] = 0
  /\ \A s, t \in Symbols : s # t /\ channel[s] = channel[t] => channel[s] = 0

DataResolves(w, map) ==
  \A i \in DOMAIN w : w[i].kind \in Data => Resolves(w, map, i, w[i].channel, w[i].pair)

ChannelsResolve ==
  KRAKEN \in feeds =>
    /\ DataResolves(wire[KRAKEN], channel_map)
    /\ \A s \in SymbolsOf[KRAKEN] \cap subscribed :
         Resolves(wire[KRAKEN], channel_map, Len(wire[KRAKEN]) + 1, channel[s], s)

(* A clean symbol: for every key the last message under way that mentions  *)
(* it, or else what its thread has left to apply, or else the book, has    *)
(* the quantity that the exchange told last.                               *)
Mentions(msg, s, k) == msg.pair = s /\ \E i \in DOMAIN msg.levels : msg.levels[i][1] = k

LastIs(w, s, k, q) ==
  \A i \in DOMAIN w :
    /\ Mentions(w[i], s, k) /\ (\A j \in DOMAIN w : j > i => ~Mentions(w[j], s, k))
    => \A l \in DOMAIN w[i].levels : w[i].levels[l][1] = k => w[i].levels[l][2] = q

Silent(w, s, k) == \A i \in DOMAIN w : ~Mentions(w[i], s, k)

Leaves(r, s, k) == r.at = "apply" /\ r.sym = s /\ \E i \in DOMAIN r.levels : r.levels[i][1] = k

KeyAgrees(w, r, book, ref, s, k, q) ==
  /\ LastIs(w, s, k, q)
  /\ Silent(w, s, k) /\ Leaves(r, s, k) =>
       \A i \in DOMAIN r.levels : r.levels[i][1] = k => r.levels[i][2] = q
  /\ Silent(w, s, k) /\ ~Leaves(r, s, k) => Holds(book, ref, k, q)

CleanAgrees(e, s) ==
  /\ order_books[s] \in Books /\ (e # KRAKEN => told[s] = market[s])
  /\ \A i \in DOMAIN wire[e] : wire[e][i].pair = s => ~wire[e][i].bad
  /\ \A k \in Keys : KeyAgrees(wire[e], io[e], order_books[s], refused[s], s, k, told[s][k])

BooksAgree == \A e \in feeds : \A s \in SymbolsOf[e] \cap clean : CleanAgrees(e, s)

FeedsInv ==
  /\ Types /\ WiresSound /\ ThreadsSound /\ UpdatesApplied
  /\ ChannelsDistinct /\ ChannelsResolve /\ BooksAgree

-----------------------------------------------------------------------------
(* Operators of the model.                                                 *)

(* A non-empty set of naturals has a least element.                        *)
LEMMA LeastNumber ==
  ASSUME NEW S, S \subseteq Nat, S # {}
  PROVE  \E x \in S : \A y \in S : x <= y
<1>1. PICK x \in S : \A y \in S : ~(<<y, x>> \in OpToRel(<, Nat))
  BY NatLessThanWellFounded, WFMin
<1>2. ASSUME NEW y \in S PROVE x <= y
  <2>1. ~(<<y, x>> \in OpToRel(<, Nat))
    BY <1>1
  <2>2. x \in Nat /\ y \in Nat
    OBVIOUS
  <2>3. ~(y < x)
    BY <2>1, <2>2 DEF OpToRel
  <2> QED
    BY <2>2, <2>3
<1> QED
  BY <1>1, <1>2

(* SetToSeq lists a finite set, all of it.                                 *)
LEMMA Listed ==
  ASSUME NEW S, IsFiniteSet(S)
  PROVE  /\ SetToSeq(S) \in Seq(S)
         /\ \A x \in S : \E i \in DOMAIN SetToSeq(S) : SetToSeq(S)[i] = x
<1> DEFINE n == Cardinality(S)
<1>1. n \in Nat /\ ExistsBijection(1..n, S)
  BY FS_CardinalityType
<1>2. \E f \in [1..n -> S] : IsInjective(f)
  BY <1>1 DEF ExistsBijection, Bijection, Injection
<1>3. SetToSeq(S) \in [1..n -> S] /\ IsInjective(SetToSeq(S))
  BY <1>2 DEF SetToSeq
<1>4. SetToSeq(S) \in Injection(1..n, S)
  BY <1>3 DEF Injection
<1>5. IsFiniteSet(1..n) /\ Cardinality(1..n) = n
  BY <1>1, FS_Interval
<1>6. SetToSeq(S) \in Surjection(1..n, S)
  BY <1>4, <1>5, FS_Injection
<1>7. \A x \in S : \E i \in 1..n : SetToSeq(S)[i] = x
  BY <1>6 DEF Surjection
<1>8. SetToSeq(S) \in Seq(S)
  BY <1>1, <1>3, IsASeq
<1> QED
  BY <1>3, <1>7, <1>8

LEMMA KeysFinite == IsFiniteSet(Keys)
<1>1. IsFiniteSet({"BID", "ASK"})
  <2>1. IsFiniteSet({"BID"})
    BY FS_Singleton
  <2>2. {"BID", "ASK"} = {"BID"} \cup {"ASK"}
    OBVIOUS
  <2> QED
    BY <2>1, <2>2, FS_AddElement
<1> QED
  BY <1>1, FS_Product, FeedsAssumption DEF Keys

(* The levels of a message about the keys ks: one for each of them.        *)
LEMMA LevelsListed ==
  ASSUME NEW ks, NEW new, ks \subseteq Keys, \A k \in ks : new[k] \in FeedQuantities
  PROVE  /\ LevelsOf(new, ks) \in Seq(Level) /\ OneEach(LevelsOf(new, ks))
         /\ \A i \in DOMAIN LevelsOf(new, ks) :
              LevelsOf(new, ks)[i][1] \in ks /\ LevelsOf(new, ks)[i][2] = new[LevelsOf(new, ks)[i][1]]
         /\ \A k \in ks : \E i \in DOMAIN LevelsOf(new, ks) : LevelsOf(new, ks)[i][1] = k
<1> DEFINE S == {<<k, new[k]>> : k \in ks}
           levels == LevelsOf(new, ks)
           f == [k \in ks |-> <<k, new[k]>>]
<1>3. IsFiniteSet(ks)
  BY KeysFinite, FS_Subset
<1>4. f \in Surjection(ks, S)
  BY DEF Surjection
<1>5. IsFiniteSet(S)
  BY <1>3, <1>4, FS_Surjection
<1>6. levels \in Seq(S) /\ \A x \in S : \E i \in DOMAIN levels : levels[i] = x
  BY <1>5, Listed DEF LevelsOf
<1> HIDE DEF levels
<1>7. \A i \in DOMAIN levels : levels[i] \in S
  BY <1>6
<1>8. S \subseteq Level
  BY DEF Level
<1>9. levels \in Seq(Level)
  BY <1>6, <1>8, SeqMonotonic
<1>10. \A i \in DOMAIN levels : levels[i][1] \in ks /\ levels[i] = <<levels[i][1], new[levels[i][1]]>>
  BY <1>7
<1>11. OneEach(levels)
  BY <1>10 DEF OneEach
<1>12. ASSUME NEW k \in ks PROVE \E i \in DOMAIN levels : levels[i][1] = k
  <2>1. <<k, new[k]>> \in S
    OBVIOUS
  <2>2. PICK i \in DOMAIN levels : levels[i] = <<k, new[k]>>
    BY <1>6, <2>1
  <2> QED
    BY <2>2
<1>13. \A i \in DOMAIN levels : levels[i][2] = new[levels[i][1]]
  BY <1>10
<1>14. /\ levels \in Seq(Level) /\ OneEach(levels)
       /\ \A i \in DOMAIN levels : levels[i][1] \in ks /\ levels[i][2] = new[levels[i][1]]
       /\ \A k \in ks : \E i \in DOMAIN levels : levels[i][1] = k
  BY <1>9, <1>10, <1>11, <1>12, <1>13
<1> QED
  BY <1>14, Zenon DEF levels

(* OfSide keeps the levels of the side and no others.                      *)
Parts(levels, side, part, n) ==
  part = [i \in 0..n |-> IF i = 0 THEN << >>
                         ELSE IF levels[i][1][1] = side THEN Append(part[i - 1], levels[i])
                         ELSE part[i - 1]]

LEMMA PartsExist ==
  ASSUME NEW levels, NEW side, NEW m \in Nat
  PROVE  \E part : Parts(levels, side, part, m)
<1> DEFINE T == {n \in Nat : ~ \E part : Parts(levels, side, part, n)}
<1>1. SUFFICES ASSUME T # {} PROVE FALSE
  OBVIOUS
<1>2. PICK n \in T : \A y \in T : n <= y
  BY <1>1, LeastNumber
<1>3. CASE n = 0
  <2>1. Parts(levels, side, [i \in 0..0 |-> << >>], 0)
    BY DEF Parts
  <2> QED
    BY <1>2, <1>3, <2>1
<1>4. CASE n # 0
  <2>1. n - 1 \in Nat /\ n - 1 \notin T
    BY <1>2, <1>4
  <2>2. PICK p : Parts(levels, side, p, n - 1)
    BY <2>1
  <2> DEFINE g == [i \in 0..n |-> IF i < n THEN p[i]
                                  ELSE IF levels[i][1][1] = side THEN Append(p[i - 1], levels[i])
                                  ELSE p[i - 1]]
  <2>3. ASSUME NEW i \in 0..n
        PROVE  g[i] = IF i = 0 THEN << >>
                      ELSE IF levels[i][1][1] = side THEN Append(g[i - 1], levels[i]) ELSE g[i - 1]
    <3>1. CASE i = n
      <4>1. i - 1 \in 0..n /\ i - 1 < n
        BY <1>4, <3>1
      <4>2. g[i - 1] = p[i - 1]
        BY <4>1
      <4> QED
        BY <3>1, <4>2, <1>4
    <3>2. CASE i # n /\ i # 0
      <4>1. i \in 0..(n - 1) /\ i - 1 \in 0..(n - 1) /\ i - 1 \in 0..n /\ i < n /\ i - 1 < n
        BY <3>2
      <4>2. g[i] = p[i] /\ g[i - 1] = p[i - 1]
        BY <4>1
      <4>3. p[i] = IF levels[i][1][1] = side THEN Append(p[i - 1], levels[i]) ELSE p[i - 1]
        BY <2>2, <4>1, <3>2 DEF Parts
      <4> HIDE DEF g
      <4> QED
        BY <4>2, <4>3, <3>2
    <3>3. CASE i = 0
      <4>1. 0 \in 0..(n - 1) /\ 0 \in 0..n /\ 0 < n
        BY <1>4
      <4>2. g[0] = p[0] /\ p[0] = << >>
        BY <4>1, <2>2 DEF Parts
      <4> QED
        BY <3>3, <4>2
    <3> QED
      BY <3>1, <3>2, <3>3
  <2>4. Parts(levels, side, g, n)
    BY <2>3, Zenon DEF Parts
  <2> QED
    BY <1>2, <2>4
<1> QED
  BY <1>3, <1>4

LEMMA SideKept ==
  ASSUME NEW levels \in Seq(Level), NEW side
  PROVE  /\ OfSide(levels, side) \in Seq(Level)
         /\ \A i \in DOMAIN OfSide(levels, side) : \E j \in DOMAIN levels :
              OfSide(levels, side)[i] = levels[j]
         /\ \A j \in DOMAIN levels : levels[j][1][1] = side =>
              \E i \in DOMAIN OfSide(levels, side) : OfSide(levels, side)[i] = levels[j]
<1> DEFINE part == CHOOSE p : Parts(levels, side, p, Len(levels))
<1>1. Len(levels) \in Nat /\ DOMAIN levels = 1..Len(levels)
  OBVIOUS
<1>2. Parts(levels, side, part, Len(levels))
  BY <1>1, PartsExist
<1>3. OfSide(levels, side) = part[Len(levels)]
  BY DEF OfSide, Parts
<1> HIDE DEF part
<1> DEFINE Good(n) == /\ part[n] \in Seq(Level)
                      /\ \A i \in DOMAIN part[n] : \E j \in 1..n : part[n][i] = levels[j]
                      /\ \A j \in 1..n : levels[j][1][1] = side =>
                           \E i \in DOMAIN part[n] : part[n][i] = levels[j]
           T == {n \in 0..Len(levels) : ~Good(n)}
<1>4. part[0] = << >>
  BY <1>1, <1>2 DEF Parts
<1>5. ASSUME NEW n \in 1..Len(levels)
      PROVE  part[n] = IF levels[n][1][1] = side THEN Append(part[n - 1], levels[n]) ELSE part[n - 1]
  <2>1. n \in 0..Len(levels) /\ n # 0
    BY <1>1
  <2>2. part[n] = IF n = 0 THEN << >> ELSE IF levels[n][1][1] = side
                  THEN Append(part[n - 1], levels[n]) ELSE part[n - 1]
    BY <1>2, <2>1, Zenon DEF Parts
  <2> QED
    BY <2>1, <2>2
<1>6. Good(0)
  BY <1>4
<1>7. ASSUME NEW n \in 1..Len(levels), Good(n - 1) PROVE Good(n)
  <2>1. levels[n] \in Level /\ n - 1 \in Nat /\ 1..n = (1..(n - 1)) \cup {n}
    BY <1>1
  <2>2. CASE levels[n][1][1] = side
    <3> DEFINE p == part[n - 1]
    <3>1. part[n] = Append(p, levels[n]) /\ p \in Seq(Level)
      BY <1>5, <1>7, <2>2
    <3> HIDE DEF p
    <3>2. /\ Append(p, levels[n]) \in Seq(Level)
          /\ DOMAIN Append(p, levels[n]) = 1..(Len(p) + 1) /\ DOMAIN p = 1..Len(p) /\ Len(p) \in Nat
          /\ Append(p, levels[n])[Len(p) + 1] = levels[n]
          /\ \A i \in 1..Len(p) : Append(p, levels[n])[i] = p[i]
      BY <2>1, <3>1
    <3>3. ASSUME NEW i \in DOMAIN part[n] PROVE \E j \in 1..n : part[n][i] = levels[j]
      <4>1. CASE i = Len(p) + 1
        BY <2>1, <3>1, <3>2, <4>1
      <4>2. CASE i \in 1..Len(p)
        <5>1. PICK j \in 1..(n - 1) : p[i] = levels[j]
          BY <1>7, <3>2, <4>2 DEF p
        <5> QED
          BY <2>1, <3>1, <3>2, <4>2, <5>1
      <4> QED
        BY <3>1, <3>2, <4>1, <4>2
    <3>4. ASSUME NEW j \in 1..n, levels[j][1][1] = side
          PROVE  \E i \in DOMAIN part[n] : part[n][i] = levels[j]
      <4>1. CASE j = n
        BY <3>1, <3>2, <4>1
      <4>2. CASE j \in 1..(n - 1)
        <5>1. PICK i \in DOMAIN p : p[i] = levels[j]
          BY <1>7, <3>4, <4>2 DEF p
        <5>2. i \in DOMAIN part[n] /\ part[n][i] = levels[j]
          BY <3>1, <3>2, <5>1
        <5> QED
          BY <5>2
      <4> QED
        BY <2>1, <4>1, <4>2
    <3> QED
      BY <3>1, <3>2, <3>3, <3>4
  <2>3. CASE levels[n][1][1] # side
    <3>1. part[n] = part[n - 1]
      BY <1>5, <2>3
    <3>2. \A j \in 1..n : levels[j][1][1] = side => j \in 1..(n - 1)
      BY <2>1, <2>3
    <3>3. 1..(n - 1) \subseteq 1..n
      BY <2>1
    <3> QED
      BY <1>7, <3>1, <3>2, <3>3
  <2> QED
    BY <2>2, <2>3
<1> HIDE DEF Good
<1>8. T = {}
  <2>1. SUFFICES ASSUME T # {} PROVE FALSE
    OBVIOUS
  <2>2. T \subseteq Nat
    BY <1>1
  <2>3. PICK n \in T : \A y \in T : n <= y
    BY <2>1, <2>2, LeastNumber
  <2>4. n # 0
    BY <1>6, <2>3
  <2>5. n \in 1..Len(levels) /\ n - 1 \in 0..Len(levels) /\ n - 1 \notin T
    BY <1>1, <2>3, <2>4
  <2> QED
    BY <1>7, <2>3, <2>5
<1>9. Good(Len(levels))
  BY <1>1, <1>8
<1> QED
  BY <1>1, <1>3, <1>9 DEF Good

(* What a parser passes on has the levels of the message and no others.    *)
BidsAsks(pair, levels) == Normalized(pair, levels).bids \o Normalized(pair, levels).asks

SameLevels(u, levels) ==
  /\ u \in Seq(Level)
  /\ \A i \in DOMAIN u : \E j \in DOMAIN levels : u[i] = levels[j]
  /\ \A j \in DOMAIN levels : \E i \in DOMAIN u : u[i] = levels[j]

LEMMA LevelsNormalized ==
  ASSUME NEW levels, NEW pair, levels \in Seq(Level)
  PROVE  SameLevels(BidsAsks(pair, levels), levels)
<1> DEFINE b == OfSide(levels, "BID")
           a == OfSide(levels, "ASK")
           u == b \o a
<1>1. Normalized(pair, levels).bids = b /\ Normalized(pair, levels).asks = a
  BY DEF Normalized
<1>2. /\ b \in Seq(Level) /\ \A i \in DOMAIN b : \E j \in DOMAIN levels : b[i] = levels[j]
      /\ \A j \in DOMAIN levels : levels[j][1][1] = "BID" => \E i \in DOMAIN b : b[i] = levels[j]
  BY SideKept
<1>3. /\ a \in Seq(Level) /\ \A i \in DOMAIN a : \E j \in DOMAIN levels : a[i] = levels[j]
      /\ \A j \in DOMAIN levels : levels[j][1][1] = "ASK" => \E i \in DOMAIN a : a[i] = levels[j]
  BY SideKept
<1> HIDE DEF a, b
<1>4. /\ u \in Seq(Level) /\ DOMAIN u = 1..(Len(b) + Len(a))
      /\ Len(b) \in Nat /\ Len(a) \in Nat /\ DOMAIN b = 1..Len(b) /\ DOMAIN a = 1..Len(a)
      /\ \A i \in 1..Len(b) : u[i] = b[i]
      /\ \A i \in 1..Len(a) : u[Len(b) + i] = a[i]
  BY <1>2, <1>3
<1> HIDE DEF u
<1>5. ASSUME NEW i \in DOMAIN u PROVE \E j \in DOMAIN levels : u[i] = levels[j]
  <2>1. CASE i <= Len(b)
    BY <1>2, <1>4, <2>1
  <2>2. CASE i > Len(b)
    <3>1. i - Len(b) \in 1..Len(a) /\ Len(b) + (i - Len(b)) = i
      BY <1>4, <2>2
    <3>2. u[i] = a[i - Len(b)]
      BY <1>4, <3>1
    <3> QED
      BY <1>3, <1>4, <3>1, <3>2
  <2> QED
    BY <1>4, <2>1, <2>2
<1>6. ASSUME NEW j \in DOMAIN levels PROVE \E i \in DOMAIN u : u[i] = levels[j]
  <2>1. levels[j][1][1] \in {"BID", "ASK"}
    BY DEF Level, Keys
  <2>2. CASE levels[j][1][1] = "BID"
    <3>1. PICK i \in DOMAIN b : b[i] = levels[j]
      BY <1>2, <2>2
    <3>2. i \in DOMAIN u /\ u[i] = b[i]
      BY <1>4, <3>1
    <3> QED
      BY <3>1, <3>2
  <2>3. CASE levels[j][1][1] = "ASK"
    <3>1. PICK i \in DOMAIN a : a[i] = levels[j]
      BY <1>3, <2>3
    <3>2. Len(b) + i \in DOMAIN u /\ u[Len(b) + i] = a[i]
      BY <1>4, <3>1
    <3> QED
      BY <3>1, <3>2
  <2> QED
    BY <2>1, <2>2, <2>3
<1>7. SameLevels(u, levels)
  BY <1>4, <1>5, <1>6 DEF SameLevels
<1>8. BidsAsks(pair, levels) = u
  BY <1>1 DEF BidsAsks, u
<1> QED
  BY <1>7, <1>8

-----------------------------------------------------------------------------
(* Messages on their way.                                                  *)

LEMMA AppendFacts ==
  ASSUME NEW w \in Seq(Msg), NEW m \in Msg
  PROVE  /\ Append(w, m) \in Seq(Msg) /\ Len(w) \in Nat
         /\ DOMAIN w = 1..Len(w) /\ DOMAIN Append(w, m) = 1..(Len(w) + 1)
         /\ Len(Append(w, m)) = Len(w) + 1
         /\ Append(w, m)[Len(w) + 1] = m
         /\ \A i \in 1..Len(w) : Append(w, m)[i] = w[i]
OBVIOUS

LEMMA TailFacts ==
  ASSUME NEW S, NEW w \in Seq(S), w # << >>
  PROVE  /\ Tail(w) \in Seq(S) /\ Len(w) \in Nat /\ Len(w) >= 1 /\ Head(w) = w[1]
         /\ Head(w) \in S
         /\ DOMAIN w = 1..Len(w) /\ DOMAIN Tail(w) = 1..(Len(w) - 1) /\ Len(Tail(w)) = Len(w) - 1
         /\ \A i \in 1..(Len(w) - 1) : Tail(w)[i] = w[i + 1]
OBVIOUS

(* A message that does not mention the key changes nothing for it.         *)
LEMMA AppendSilent ==
  ASSUME NEW w \in Seq(Msg), NEW m \in Msg, NEW r, NEW book, NEW ref, NEW s, NEW k, NEW q,
         KeyAgrees(w, r, book, ref, s, k, q), ~Mentions(m, s, k)
  PROVE  KeyAgrees(Append(w, m), r, book, ref, s, k, q)
<1> DEFINE v == Append(w, m)
<1>1. /\ Len(w) \in Nat /\ DOMAIN w = 1..Len(w) /\ DOMAIN v = 1..(Len(w) + 1)
      /\ v[Len(w) + 1] = m /\ \A i \in 1..Len(w) : v[i] = w[i]
  BY AppendFacts
<1> HIDE DEF v
<1>2. LastIs(v, s, k, q)
  <2> SUFFICES ASSUME NEW i \in DOMAIN v, Mentions(v[i], s, k),
                      \A j \in DOMAIN v : j > i => ~Mentions(v[j], s, k)
               PROVE  \A l \in DOMAIN v[i].levels : v[i].levels[l][1] = k => v[i].levels[l][2] = q
    BY DEF LastIs
  <2>1. i \in DOMAIN w /\ v[i] = w[i]
    BY <1>1
  <2>2. \A j \in DOMAIN w : j > i => ~Mentions(w[j], s, k)
    BY <1>1
  <2> QED
    BY <2>1, <2>2 DEF KeyAgrees, LastIs
<1>3. Silent(v, s, k) <=> Silent(w, s, k)
  BY <1>1 DEF Silent
<1>4. KeyAgrees(v, r, book, ref, s, k, q)
  BY <1>2, <1>3 DEF KeyAgrees
<1> QED
  BY <1>4 DEF v

(* One that does has the last word.                                        *)
LEMMA AppendLast ==
  ASSUME NEW w \in Seq(Msg), NEW m \in Msg, NEW r, NEW book, NEW ref, NEW s, NEW k, NEW q,
         Mentions(m, s, k), \A l \in DOMAIN m.levels : m.levels[l][1] = k => m.levels[l][2] = q
  PROVE  KeyAgrees(Append(w, m), r, book, ref, s, k, q)
<1> DEFINE v == Append(w, m)
<1>1. /\ Len(w) \in Nat /\ DOMAIN v = 1..(Len(w) + 1) /\ v[Len(w) + 1] = m
  BY AppendFacts
<1> HIDE DEF v
<1>2. LastIs(v, s, k, q)
  <2> SUFFICES ASSUME NEW i \in DOMAIN v, Mentions(v[i], s, k),
                      \A j \in DOMAIN v : j > i => ~Mentions(v[j], s, k)
               PROVE  \A l \in DOMAIN v[i].levels : v[i].levels[l][1] = k => v[i].levels[l][2] = q
    BY DEF LastIs
  <2>1. i = Len(w) + 1
    BY <1>1
  <2> QED
    BY <1>1, <2>1
<1>3. ~Silent(v, s, k)
  BY <1>1 DEF Silent
<1>4. KeyAgrees(v, r, book, ref, s, k, q)
  BY <1>2, <1>3 DEF KeyAgrees
<1> QED
  BY <1>4 DEF v

LEMMA TailLastIs ==
  ASSUME NEW w \in Seq(Msg), w # << >>, NEW s, NEW k, NEW q, LastIs(w, s, k, q)
  PROVE  LastIs(Tail(w), s, k, q)
<1> DEFINE v == Tail(w)
<1>1. /\ Len(w) \in Nat /\ DOMAIN w = 1..Len(w) /\ DOMAIN v = 1..(Len(w) - 1)
      /\ \A i \in 1..(Len(w) - 1) : v[i] = w[i + 1]
  BY TailFacts
<1> HIDE DEF v
<1> SUFFICES ASSUME NEW i \in DOMAIN v, Mentions(v[i], s, k),
                    \A j \in DOMAIN v : j > i => ~Mentions(v[j], s, k)
             PROVE  \A l \in DOMAIN v[i].levels : v[i].levels[l][1] = k => v[i].levels[l][2] = q
  BY DEF LastIs, v
<1>2. i + 1 \in DOMAIN w /\ v[i] = w[i + 1]
  BY <1>1
<1>3. ASSUME NEW j \in DOMAIN w, j > i + 1 PROVE ~Mentions(w[j], s, k)
  <2>1. j - 1 \in DOMAIN v /\ j - 1 > i /\ (j - 1) + 1 = j
    BY <1>1, <1>3
  <2>2. v[j - 1] = w[j]
    BY <1>1, <2>1
  <2> QED
    BY <2>1, <2>2
<1> QED
  BY <1>2, <1>3 DEF LastIs

LEMMA TailSilent ==
  ASSUME NEW w \in Seq(Msg), w # << >>, NEW s, NEW k
  PROVE  Silent(w, s, k) <=> ~Mentions(Head(w), s, k) /\ Silent(Tail(w), s, k)
<1> DEFINE v == Tail(w)
<1>1. /\ Len(w) \in Nat /\ Len(w) >= 1 /\ DOMAIN w = 1..Len(w) /\ DOMAIN v = 1..(Len(w) - 1)
      /\ \A i \in 1..(Len(w) - 1) : v[i] = w[i + 1]
      /\ Head(w) = w[1]
  BY TailFacts
<1> HIDE DEF v
<1>2. ASSUME Silent(w, s, k) PROVE ~Mentions(Head(w), s, k) /\ Silent(v, s, k)
  BY <1>1, <1>2 DEF Silent
<1>3. ASSUME ~Mentions(Head(w), s, k), Silent(v, s, k), NEW i \in DOMAIN w
      PROVE  ~Mentions(w[i], s, k)
  <2>1. CASE i = 1
    BY <1>1, <1>3, <2>1
  <2>2. CASE i # 1
    <3>1. i - 1 \in DOMAIN v /\ (i - 1) + 1 = i
      BY <1>1, <2>2
    <3>2. v[i - 1] = w[i]
      BY <1>1, <3>1
    <3> QED
      BY <1>3, <3>1, <3>2 DEF Silent
  <2> QED
    BY <2>1, <2>2
<1>4. ~Mentions(Head(w), s, k) /\ Silent(v, s, k) => Silent(w, s, k)
  BY <1>3 DEF Silent
<1> QED
  BY <1>2, <1>4 DEF v

(* A message is taken that is not about the symbol, or has no levels.      *)
LEMMA TakeOther ==
  ASSUME NEW w \in Seq(Msg), w # << >>, NEW r, NEW t, NEW book, NEW ref, NEW s, NEW k, NEW q,
         KeyAgrees(w, r, book, ref, s, k, q), ~Mentions(Head(w), s, k),
         Leaves(t, s, k) <=> Leaves(r, s, k), Leaves(r, s, k) => t = r
  PROVE  KeyAgrees(Tail(w), t, book, ref, s, k, q)
<1>1. LastIs(Tail(w), s, k, q)
  BY TailLastIs DEF KeyAgrees
<1>2. Silent(Tail(w), s, k) <=> Silent(w, s, k)
  BY TailSilent
<1> QED
  BY <1>1, <1>2 DEF KeyAgrees

(* A message about the symbol passes to the thread.                        *)
LEMMA TakeOwn ==
  ASSUME NEW w \in Seq(Msg), w # << >>, NEW r, NEW t, NEW book, NEW ref, NEW s, NEW k, NEW q,
         KeyAgrees(w, r, book, ref, s, k, q), r.at = "idle", Head(w).pair = s,
         t.at = "apply", t.sym = s,
         \A i \in DOMAIN t.levels : \E j \in DOMAIN Head(w).levels : t.levels[i] = Head(w).levels[j],
         \A j \in DOMAIN Head(w).levels : \E i \in DOMAIN t.levels : t.levels[i] = Head(w).levels[j]
  PROVE  KeyAgrees(Tail(w), t, book, ref, s, k, q)
<1>0. Head(w) = w[1] /\ 1 \in DOMAIN w /\ Len(w) \in Nat /\ DOMAIN w = 1..Len(w)
      /\ DOMAIN Tail(w) = 1..(Len(w) - 1) /\ \A i \in 1..(Len(w) - 1) : Tail(w)[i] = w[i + 1]
  BY TailFacts
<1>1. LastIs(Tail(w), s, k, q)
  BY TailLastIs DEF KeyAgrees
<1>2. ASSUME Silent(Tail(w), s, k), Leaves(t, s, k), NEW i \in DOMAIN t.levels, t.levels[i][1] = k
      PROVE  t.levels[i][2] = q
  <2>1. PICK j \in DOMAIN Head(w).levels : t.levels[i] = Head(w).levels[j]
    OBVIOUS
  <2>2. Mentions(w[1], s, k)
    BY <1>0, <1>2, <2>1 DEF Mentions
  <2>3. ASSUME NEW l \in DOMAIN w, l > 1 PROVE ~Mentions(w[l], s, k)
    <3>1. l - 1 \in DOMAIN Tail(w) /\ (l - 1) + 1 = l
      BY <1>0, <2>3
    <3>2. Tail(w)[l - 1] = w[l]
      BY <1>0, <3>1
    <3> QED
      BY <1>2, <3>1, <3>2 DEF Silent
  <2>4. LastIs(w, s, k, q)
    BY DEF KeyAgrees
  <2> QED
    BY <1>0, <1>2, <2>1, <2>2, <2>3, <2>4 DEF LastIs
<1>3. ASSUME Silent(Tail(w), s, k), ~Leaves(t, s, k) PROVE Holds(book, ref, k, q)
  <2>1. ~Mentions(Head(w), s, k)
    BY <1>3 DEF Mentions, Leaves
  <2>2. Silent(w, s, k)
    BY <1>3, <2>1, TailSilent
  <2> QED
    BY <2>2 DEF KeyAgrees, Leaves
<1> QED
  BY <1>1, <1>2, <1>3 DEF KeyAgrees

(* The thread writes its next level, or the book refuses it.               *)
Wrote(book, ref, new, newref, level) ==
  /\ \A k \in Keys \ {level[1]} : new[k] = book[k] /\ (k \in newref <=> k \in ref)
  /\ Holds(new, newref, level[1], level[2])

LEMMA WriteLevel ==
  ASSUME NEW w, NEW r, NEW t, NEW book, NEW ref, NEW new, NEW newref, NEW s, NEW k \in Keys, NEW q,
         KeyAgrees(w, r, book, ref, s, k, q),
         r.at = "apply", r.sym = s, r.levels \in Seq(Level), r.levels # << >>,
         t.at = "apply", t.sym = s, t.levels = Tail(r.levels),
         Wrote(book, ref, new, newref, Head(r.levels))
  PROVE  KeyAgrees(w, t, new, newref, s, k, q)
<1> DEFINE L == r.levels
           M == Tail(r.levels)
<1>1. /\ Len(L) \in Nat /\ Len(L) >= 1 /\ Head(L) = L[1] /\ Head(L) \in Level
      /\ DOMAIN L = 1..Len(L) /\ DOMAIN M = 1..(Len(L) - 1)
      /\ \A i \in 1..(Len(L) - 1) : M[i] = L[i + 1]
  BY TailFacts
<1> HIDE DEF L, M
<1>2. LastIs(w, s, k, q)
  BY DEF KeyAgrees
<1>3. ASSUME Silent(w, s, k), Leaves(t, s, k), NEW i \in DOMAIN M, M[i][1] = k
      PROVE  M[i][2] = q
  <2>1. i + 1 \in DOMAIN L /\ L[i + 1] = M[i]
    BY <1>1
  <2>2. Leaves(r, s, k)
    BY <1>3, <2>1 DEF Leaves, L
  <2> QED
    BY <1>3, <2>1, <2>2 DEF KeyAgrees, L
<1>4. ASSUME Silent(w, s, k), ~Leaves(t, s, k) PROVE Holds(new, newref, k, q)
  <2>1. CASE Head(L)[1] = k
    <3>1. 1 \in DOMAIN L /\ L[1][1] = k
      BY <1>1, <2>1
    <3>2. Leaves(r, s, k)
      BY <3>1 DEF Leaves, L
    <3>3. L[1][2] = q
      BY <1>4, <3>1, <3>2 DEF KeyAgrees, L
    <3> QED
      BY <1>1, <2>1, <3>3 DEF Wrote, L
  <2>2. CASE Head(L)[1] # k
    <3>1. ~Leaves(r, s, k)
      <4>1. SUFFICES ASSUME NEW i \in DOMAIN L, L[i][1] = k PROVE FALSE
        BY DEF Leaves, L
      <4>2. i # 1 /\ i - 1 \in DOMAIN M /\ (i - 1) + 1 = i
        BY <1>1, <2>2, <4>1
      <4>3. M[i - 1] = L[i]
        BY <1>1, <4>2
      <4>4. Leaves(t, s, k)
        BY <4>1, <4>2, <4>3 DEF Leaves, M
      <4> QED
        BY <1>4, <4>4
    <3>2. Holds(book, ref, k, q)
      BY <1>4, <3>1 DEF KeyAgrees
    <3> QED
      BY <2>2, <3>2 DEF Wrote, Holds, L
  <2> QED
    BY <2>1, <2>2
<1> QED
  BY <1>2, <1>3, <1>4 DEF KeyAgrees, M, L

(* Nothing is about the symbol and the book has the quantity.              *)
LEMMA NothingUnderWay ==
  ASSUME NEW w, NEW r, NEW book, NEW ref, NEW s, NEW k, NEW q, Holds(book, ref, k, q),
         \A i \in DOMAIN w : w[i].pair # s, r.sym # s
  PROVE  KeyAgrees(w, r, book, ref, s, k, q)
BY DEF KeyAgrees, LastIs, Silent, Mentions, Leaves

-----------------------------------------------------------------------------
(* Kraken's channels.                                                      *)

LEMMA ResolvesKept ==
  ASSUME NEW w \in Seq(Msg), NEW m \in Msg, NEW map, NEW ch, NEW pair, NEW n \in 1..(Len(w) + 1),
         Resolves(w, map, n, ch, pair)
  PROVE  /\ Resolves(Append(w, m), map, n, ch, pair)
         /\ n = Len(w) + 1 /\ (m.kind = "subscriptionStatus" => m.channel # ch) =>
              Resolves(Append(w, m), map, Len(w) + 2, ch, pair)
<1> DEFINE v == Append(w, m)
<1>1. /\ Len(w) \in Nat /\ DOMAIN w = 1..Len(w) /\ DOMAIN v = 1..(Len(w) + 1)
      /\ v[Len(w) + 1] = m /\ \A i \in 1..Len(w) : v[i] = w[i]
  BY AppendFacts
<1> HIDE DEF v
<1>2. \A j \in DOMAIN w : Status(v, j, ch) <=> Status(w, j, ch)
  BY <1>1 DEF Status
<1>3. \A j \in DOMAIN v : j < n => j \in DOMAIN w /\ v[j] = w[j]
  BY <1>1
<1>4. DOMAIN w \subseteq DOMAIN v
  BY <1>1
<1>5. Resolves(v, map, n, ch, pair)
  <2>1. ASSUME NEW j \in DOMAIN v, j < n, Status(v, j, ch),
               \A l \in DOMAIN v : j < l /\ l < n => ~Status(v, l, ch)
        PROVE  v[j].pair = pair
    <3>1. j \in DOMAIN w /\ v[j] = w[j] /\ Status(w, j, ch)
      BY <1>2, <1>3, <2>1
    <3>2. \A l \in DOMAIN w : j < l /\ l < n => ~Status(w, l, ch)
      BY <1>2, <1>4, <2>1
    <3> QED
      BY <2>1, <3>1, <3>2 DEF Resolves
  <2>2. ASSUME \A j \in DOMAIN v : j < n => ~Status(v, j, ch)
        PROVE  ch \in DOMAIN map /\ map[ch] = pair
    <3>1. \A j \in DOMAIN w : j < n => ~Status(w, j, ch)
      BY <1>2, <1>4, <2>2
    <3> QED
      BY <3>1 DEF Resolves
  <2> QED
    BY <2>1, <2>2 DEF Resolves
<1>6. ASSUME n = Len(w) + 1, m.kind = "subscriptionStatus" => m.channel # ch
      PROVE  Resolves(v, map, Len(w) + 2, ch, pair)
  <2>1. ~Status(v, n, ch)
    BY <1>1, <1>6 DEF Status
  <2>2. \A j \in DOMAIN v : j < Len(w) + 2 /\ Status(v, j, ch) => j < n
    BY <1>1, <1>6, <2>1
  <2>3. n < Len(w) + 2
    BY <1>1, <1>6
  <2>4. ASSUME NEW j \in DOMAIN v, j < Len(w) + 2, Status(v, j, ch),
               \A l \in DOMAIN v : j < l /\ l < Len(w) + 2 => ~Status(v, l, ch)
        PROVE  v[j].pair = pair
    <3>1. \A l \in DOMAIN v : j < l /\ l < n => ~Status(v, l, ch)
      BY <1>1, <1>6, <2>4
    <3> QED
      BY <1>5, <2>2, <2>4, <3>1 DEF Resolves
  <2>5. ASSUME \A j \in DOMAIN v : j < Len(w) + 2 => ~Status(v, j, ch)
        PROVE  ch \in DOMAIN map /\ map[ch] = pair
    <3>1. \A j \in DOMAIN v : j < n => ~Status(v, j, ch)
      BY <1>1, <1>6, <2>5
    <3> QED
      BY <1>5, <3>1 DEF Resolves
  <2> QED
    BY <2>4, <2>5 DEF Resolves
<1> QED
  BY <1>5, <1>6 DEF v

(* A status message gives its channel to its pair.                         *)
LEMMA ResolvesNew ==
  ASSUME NEW w \in Seq(Msg), NEW m \in Msg, NEW map, m.kind = "subscriptionStatus"
  PROVE  Resolves(Append(w, m), map, Len(w) + 2, m.channel, m.pair)
<1> DEFINE v == Append(w, m)
<1>1. Len(w) \in Nat /\ DOMAIN v = 1..(Len(w) + 1) /\ v[Len(w) + 1] = m
  BY AppendFacts
<1> HIDE DEF v
<1>2. Status(v, Len(w) + 1, m.channel) /\ Len(w) + 1 \in DOMAIN v /\ Len(w) + 1 < Len(w) + 2
  BY <1>1 DEF Status
<1>3. ASSUME NEW j \in DOMAIN v,
             \A l \in DOMAIN v : j < l /\ l < Len(w) + 2 => ~Status(v, l, m.channel)
      PROVE  j = Len(w) + 1
  <2>1. ~(j < Len(w) + 1)
    BY <1>2, <1>3
  <2> QED
    BY <1>1, <2>1
<1>4. Resolves(v, map, Len(w) + 2, m.channel, m.pair)
  BY <1>1, <1>2, <1>3 DEF Resolves
<1> QED
  BY <1>4 DEF v

(* The first message is taken, and is entered in the map if it is a status.*)
LEMMA ResolvesTail ==
  ASSUME NEW w \in Seq(Msg), w # << >>, NEW ch, NEW pair, NEW n \in 2..(Len(w) + 1),
         Resolves(w, channel_map, n, ch, pair)
  PROVE  Resolves(Tail(w), kraken_channels(Head(w)), n - 1, ch, pair)
<1> DEFINE v == Tail(w)
           new == kraken_channels(Head(w))
<1>1. /\ Len(w) \in Nat /\ Len(w) >= 1 /\ DOMAIN w = 1..Len(w) /\ DOMAIN v = 1..(Len(w) - 1)
      /\ \A i \in 1..(Len(w) - 1) : v[i] = w[i + 1]
      /\ Head(w) = w[1]
  BY TailFacts
<1> HIDE DEF v
<1>2. \A j \in DOMAIN v : j + 1 \in DOMAIN w /\ v[j] = w[j + 1] /\ (Status(v, j, ch) <=> Status(w, j + 1, ch))
  BY <1>1 DEF Status
<1>3. ASSUME NEW l \in DOMAIN w, l # 1 PROVE l - 1 \in DOMAIN v /\ (Status(w, l, ch) <=> Status(v, l - 1, ch))
  <2>1. l - 1 \in DOMAIN v /\ (l - 1) + 1 = l
    BY <1>1, <1>3
  <2> QED
    BY <1>2, <2>1
<1>4. ASSUME NEW j \in DOMAIN v, j < n - 1, Status(v, j, ch),
             \A l \in DOMAIN v : j < l /\ l < n - 1 => ~Status(v, l, ch)
      PROVE  v[j].pair = pair
  <2>1. j + 1 \in DOMAIN w /\ j + 1 < n /\ Status(w, j + 1, ch)
    BY <1>1, <1>2, <1>4
  <2>2. ASSUME NEW l \in DOMAIN w, j + 1 < l, l < n PROVE ~Status(w, l, ch)
    <3>1. l # 1 /\ j < l - 1 /\ l - 1 < n - 1
      BY <1>1, <2>2
    <3> QED
      BY <1>3, <1>4, <3>1
  <2>3. w[j + 1].pair = pair
    BY <2>1, <2>2 DEF Resolves
  <2> QED
    BY <1>2, <2>3
<1>5. ASSUME \A j \in DOMAIN v : j < n - 1 => ~Status(v, j, ch)
      PROVE  ch \in DOMAIN new /\ new[ch] = pair
  <2>1. ASSUME NEW l \in DOMAIN w, l # 1, l < n PROVE ~Status(w, l, ch)
    <3>1. l - 1 < n - 1
      BY <1>1, <2>1
    <3> QED
      BY <1>3, <1>5, <2>1, <3>1
  <2>2. 1 \in DOMAIN w /\ 1 < n
    BY <1>1
  <2>3. CASE Status(w, 1, ch)
    <3>1. \A l \in DOMAIN w : 1 < l /\ l < n => ~Status(w, l, ch)
      BY <1>1, <2>1
    <3>2. w[1].pair = pair
      BY <2>2, <2>3, <3>1 DEF Resolves
    <3> QED
      BY <1>1, <2>3, <3>2 DEF kraken_channels, Status
  <2>4. CASE ~Status(w, 1, ch)
    <3>1. \A l \in DOMAIN w : l < n => ~Status(w, l, ch)
      BY <2>1, <2>4
    <3>2. ch \in DOMAIN channel_map /\ channel_map[ch] = pair
      BY <3>1 DEF Resolves
    <3> QED
      BY <1>1, <2>4, <3>2 DEF kraken_channels, Status
  <2> QED
    BY <2>3, <2>4
<1> HIDE DEF new
<1>6. Resolves(v, new, n - 1, ch, pair)
  BY <1>4, <1>5 DEF Resolves
<1> QED
  BY <1>6 DEF v, new

LEMMA ResolvesFirst ==
  ASSUME NEW w \in Seq(Msg), NEW map, NEW ch, NEW pair, Resolves(w, map, 1, ch, pair)
  PROVE  ch \in DOMAIN map /\ map[ch] = pair
<1>1. \A j \in DOMAIN w : ~(j < 1)
  OBVIOUS
<1> QED
  BY <1>1 DEF Resolves

-----------------------------------------------------------------------------
(* The steps, one after the other.                                         *)

LEMMA ExchangeOf ==
  ASSUME feeds \in Feeders, NEW s \in Symbols
  PROVE  /\ Exchange(s) \in feeds /\ s \in SymbolsOf[Exchange(s)]
         /\ \A e \in feeds : s \in SymbolsOf[e] => e = Exchange(s)
<1>1. \E e \in feeds : s \in SymbolsOf[e]
  BY DEF Symbols
<1>2. Exchange(s) \in feeds /\ s \in SymbolsOf[Exchange(s)]
  BY <1>1 DEF Exchange
<1>3. feeds \subseteq DOMAIN SymbolsOf
  BY FeedsAssumption
<1>4. ASSUME NEW e \in feeds, s \in SymbolsOf[e] PROVE e = Exchange(s)
  BY <1>2, <1>3, <1>4, FeedsAssumption
<1> QED
  BY <1>2, <1>4

LEMMA SymbolsTyped ==
  ASSUME feeds \in Feeders, NEW e \in feeds, NEW s \in SymbolsOf[e]
  PROVE  s \in Symbols /\ s \in AllSymbols
<1>1. e \in DOMAIN SymbolsOf
  BY FeedsAssumption
<1> QED
  BY <1>1 DEF Symbols, AllSymbols

LEMMA InitFeeds == Init => FeedsInv
<1> SUFFICES ASSUME Init PROVE FeedsInv
  OBVIOUS
<1> USE DEF Init
<1>1. Empty \in Books /\ Idle \in Io
  <2>1. << >> \in Seq(Level) /\ << >> \in Books \cup {<< >>, Astray} /\ "" \in AllSymbols \cup {""}
    OBVIOUS
  <2>2. Idle \in Io
    BY <2>1 DEF Idle, Io
  <2>3. Empty \in Books
    BY FeedsAssumption DEF Empty, Books
  <2> QED
    BY <2>2, <2>3
<1>2. Types
  <2>1. market \in [Symbols -> Books]
    BY FeedsAssumption DEF Books
  <2>2. channel_map \in [DOMAIN channel_map -> SymbolsOf[KRAKEN]]
    OBVIOUS
  <2>3. wire \in [feeds -> Seq(Msg)]
    OBVIOUS
  <2> QED
    BY <1>1, <2>1, <2>2, <2>3 DEF Types
<1>3. WiresSound
  BY DEF WiresSound
<1>4. ThreadsSound /\ UpdatesApplied
  BY DEF ThreadsSound, ThreadSound, UpdatesApplied, Applied, Idle
<1>5. ChannelsDistinct /\ BooksAgree
  BY DEF ChannelsDistinct, BooksAgree
<1>6. ChannelsResolve
  BY DEF ChannelsResolve, DataResolves
<1> QED
  BY <1>2, <1>3, <1>4, <1>5, <1>6 DEF FeedsInv

(* Steps that leave threads and books alone.                               *)
LEMMA ThreadsKept ==
  ASSUME FeedsInv, UNCHANGED <<feeds, io, order_books>>,
         \A s \in clean' : s \notin clean \/ refused'[s] # refused[s] =>
            \A e \in feeds : io[e].at # "idle" => io[e].sym # s
  PROVE  ThreadsSound' /\ UpdatesApplied'
<1>1. ThreadsSound'
  BY DEF FeedsInv, ThreadsSound, ThreadSound
<1>2. ASSUME NEW e \in feeds PROVE Applied(e)'
  <2>1. Applied(e)
    BY DEF FeedsInv, UpdatesApplied
  <2>2. io[e].at # "idle" /\ io[e].sym \in clean' =>
          io[e].sym \in clean /\ refused'[io[e].sym] = refused[io[e].sym]
    OBVIOUS
  <2> QED
    BY <2>1, <2>2 DEF Applied
<1> QED
  BY <1>1, <1>2 DEF UpdatesApplied

SeqSound(e, w) == \A i \in DOMAIN w : MessageSound(e, w[i])

LEMMA SoundAppend ==
  ASSUME NEW e, NEW w \in Seq(Msg), SeqSound(e, w), NEW m \in Msg, MessageSound(e, m)
  PROVE  SeqSound(e, Append(w, m))
<1> DEFINE v == Append(w, m)
<1>1. /\ Len(w) \in Nat /\ DOMAIN w = 1..Len(w) /\ DOMAIN v = 1..(Len(w) + 1)
      /\ v[Len(w) + 1] = m /\ \A i \in 1..Len(w) : v[i] = w[i]
  BY AppendFacts
<1> HIDE DEF v
<1>2. SeqSound(e, v)
  BY <1>1 DEF SeqSound
<1> QED
  BY <1>2 DEF v

(* One wire changes.                                                       *)
LEMMA WiresKept ==
  ASSUME Types, WiresSound, NEW e \in feeds, NEW v \in Seq(Msg), SeqSound(e, v),
         feeds' = feeds, wire' = [wire EXCEPT ![e] = v]
  PROVE  wire' \in [feeds' -> Seq(Msg)] /\ WiresSound'
<1>1. wire' \in [feeds' -> Seq(Msg)] /\ wire'[e] = v /\ \A f \in feeds \ {e} : wire'[f] = wire[f]
  BY DEF Types
<1>2. ASSUME NEW f \in feeds, NEW i \in DOMAIN wire'[f] PROVE MessageSound(f, wire'[f][i])
  BY <1>1 DEF WiresSound, SeqSound
<1> QED
  BY <1>1, <1>2 DEF WiresSound

(* What a message appended to Kraken's wire leaves of the channels.        *)
LEMMA ChannelsKept ==
  ASSUME Types, ChannelsResolve, KRAKEN \in feeds, NEW m \in Msg, NEW s \in SymbolsOf[KRAKEN],
         s \in subscribed, m.kind = "subscriptionStatus" => m.channel # channel[s]
  PROVE  Resolves(Append(wire[KRAKEN], m), channel_map, Len(wire[KRAKEN]) + 2, channel[s], s)
<1>1. wire[KRAKEN] \in Seq(Msg) /\ Len(wire[KRAKEN]) + 1 \in 1..(Len(wire[KRAKEN]) + 1)
  BY DEF Types
<1>2. Resolves(wire[KRAKEN], channel_map, Len(wire[KRAKEN]) + 1, channel[s], s)
  BY DEF ChannelsResolve
<1> QED
  BY <1>1, <1>2, ResolvesKept

LEMMA DataAppend ==
  ASSUME NEW w \in Seq(Msg), NEW map, DataResolves(w, map), NEW m \in Msg,
         m.kind \in Data => Resolves(w, map, Len(w) + 1, m.channel, m.pair)
  PROVE  DataResolves(Append(w, m), map)
<1> DEFINE v == Append(w, m)
<1>1. /\ Len(w) \in Nat /\ DOMAIN w = 1..Len(w) /\ DOMAIN v = 1..(Len(w) + 1)
      /\ v[Len(w) + 1] = m /\ \A l \in 1..Len(w) : v[l] = w[l]
  BY AppendFacts
<1> SUFFICES ASSUME NEW i \in DOMAIN v, v[i].kind \in Data
             PROVE  Resolves(v, map, i, v[i].channel, v[i].pair)
  BY DEF DataResolves
<1>2. i \in 1..(Len(w) + 1)
  BY <1>1
<1>3. Resolves(w, map, i, v[i].channel, v[i].pair)
  <2>1. CASE i = Len(w) + 1
    BY <1>1, <2>1
  <2>2. CASE i # Len(w) + 1
    <3>1. i \in DOMAIN w /\ v[i] = w[i]
      BY <1>1, <1>2, <2>2
    <3> QED
      BY <3>1 DEF DataResolves
  <2> QED
    BY <2>1, <2>2
<1> QED
  BY <1>2, <1>3, ResolvesKept

LEMMA NoticeStep ==
  ASSUME FeedsInv, NEW e \in feeds, Notice(e)
  PROVE  FeedsInv'
<1> DEFINE m == Message("notice", "", 0, << >>, << >>, FALSE)
<1> USE DEF FeedsInv
<1>1. m \in Msg /\ MessageSound(e, m) /\ m.kind = "notice" /\ m.levels = << >>
  <2>1. /\ << >> \in Seq(Level) /\ "notice" \notin Data /\ "notice" \in Kinds
        /\ "notice" # "snapshot" /\ "notice" # "subscriptionStatus"
        /\ "" \in AllSymbols \cup {""} /\ 0 \in Channels \cup {0} /\ FALSE \in BOOLEAN
    BY DEF Data, Kinds
  <2>2. m = [kind |-> "notice", pair |-> "", channel |-> 0, levels |-> << >>, further |-> << >>,
             bad |-> FALSE]
    BY DEF Message
  <2> HIDE DEF m
  <2>3. m \in Msg
    BY <2>1, <2>2, Zenon DEF Msg
  <2>4. m.kind = "notice" /\ m.levels = << >>
    BY <2>2
  <2> QED
    BY <2>1, <2>3, <2>4 DEF MessageSound, OneEach
<1> HIDE DEF m
<1>2. /\ wire' = [wire EXCEPT ![e] = Append(wire[e], m)] /\ wire[e] = << >>
      /\ UNCHANGED <<feeds, market, subscribed, channel, channel_map, order_books, io, told, refused,
                     clean>>
  <2>1. wire[e] = << >> => Append(wire[e], m) = <<m>>
    OBVIOUS
  <2> QED
    BY <2>1 DEF Notice, m
<1>3. wire[e] \in Seq(Msg) /\ SeqSound(e, wire[e]) /\ Append(wire[e], m) \in Seq(Msg)
  BY <1>1, AppendFacts DEF Types, WiresSound, SeqSound
<1>4. wire' \in [feeds' -> Seq(Msg)] /\ WiresSound'
  BY <1>1, <1>2, <1>3, SoundAppend, WiresKept
<1>5. Symbols' = Symbols
  BY <1>2 DEF Symbols
<1>6. Types'
  BY <1>2, <1>4, <1>5 DEF Types
<1>7. ThreadsSound' /\ UpdatesApplied'
  BY <1>2, ThreadsKept
<1>8. ChannelsDistinct'
  BY <1>2, <1>5 DEF ChannelsDistinct
<1>9. wire'[e] = Append(wire[e], m) /\ \A f \in feeds \ {e} : wire'[f] = wire[f]
  BY <1>2 DEF Types
<1>10. ChannelsResolve'
  <2>1. CASE e = KRAKEN
    <3>0. KRAKEN \in feeds /\ "notice" \notin Data /\ "notice" # "subscriptionStatus"
      BY <2>1 DEF Data
    <3>1. Len(Append(wire[KRAKEN], m)) + 1 = Len(wire[KRAKEN]) + 2
      BY <1>1, <1>3, <2>1, AppendFacts
    <3>2. \A s \in SymbolsOf[KRAKEN] \cap subscribed :
            Resolves(Append(wire[KRAKEN], m), channel_map, Len(wire[KRAKEN]) + 2, channel[s], s)
      BY <1>1, <3>0, ChannelsKept
    <3>3. DataResolves(Append(wire[KRAKEN], m), channel_map)
      BY <1>1, <1>3, <2>1, <3>0, DataAppend DEF ChannelsResolve
    <3>4. wire'[KRAKEN] = Append(wire[KRAKEN], m)
      BY <1>9, <2>1
    <3> QED
      BY <1>2, <3>1, <3>2, <3>3, <3>4 DEF ChannelsResolve
  <2>2. CASE e # KRAKEN
    BY <1>2, <1>9, <2>2 DEF ChannelsResolve
  <2> QED
    BY <2>1, <2>2
<1>11. ASSUME NEW f \in feeds, NEW s \in SymbolsOf[f] \cap clean PROVE CleanAgrees(f, s)'
  <2>1. CleanAgrees(f, s)
    BY DEF BooksAgree
  <2>2. CASE f # e
    BY <1>2, <1>9, <2>1, <2>2 DEF CleanAgrees
  <2>3. CASE f = e
    <3>1. \A k \in Keys : ~Mentions(m, s, k)
      BY <1>1 DEF Mentions
    <3>2. \A k \in Keys : KeyAgrees(Append(wire[e], m), io[e], order_books[s], refused[s], s, k, told[s][k])
      BY <1>1, <1>3, <2>1, <2>3, <3>1, AppendSilent DEF CleanAgrees
    <3>3. \A i \in DOMAIN Append(wire[e], m) : ~Append(wire[e], m)[i].bad
      <4>1. m.bad = FALSE
        BY DEF m, Message
      <4>2. DOMAIN Append(wire[e], m) = {1} /\ Append(wire[e], m)[1] = m
        BY <1>2
      <4> QED
        BY <4>1, <4>2
    <3> QED
      BY <1>2, <1>9, <2>1, <2>3, <3>2, <3>3 DEF CleanAgrees
  <2> QED
    BY <2>2, <2>3
<1>12. BooksAgree'
  BY <1>2, <1>11 DEF BooksAgree
<1> QED
  BY <1>4, <1>6, <1>7, <1>8, <1>10, <1>12

LEMMA MoveStep ==
  ASSUME FeedsInv, NEW sym \in Symbols, Move(sym)
  PROVE  FeedsInv'
<1> USE DEF FeedsInv
<1> DEFINE e == Exchange(sym)
<1>1. /\ e \in feeds /\ sym \in SymbolsOf[e] /\ \A f \in feeds : sym \in SymbolsOf[f] => f = e
      /\ sym \in AllSymbols
  BY ExchangeOf, SymbolsTyped DEF Types
<1>2. UNCHANGED <<feeds, subscribed, channel, channel_map, order_books, io, refused>>
  BY DEF Move
<1>3. Symbols' = Symbols
  BY <1>2 DEF Symbols
<1> DEFINE changed(book, ks, new) == [k \in Keys |-> IF k \in ks THEN new[k] ELSE book[k]]
           Moved(ks, bad, new) ==
             /\ market' = [market EXCEPT ![sym] = changed(market[sym], ks, new)]
             /\ \/ /\ sym \in subscribed
                   /\ wire' = [wire EXCEPT ![e] = Append(wire[e], Message("update", sym, channel[sym],
                                 LevelsOf(new, FirstElement(e, ks)),
                                 LevelsOf(new, ks \ FirstElement(e, ks)), bad))]
                   /\ told' = [told EXCEPT ![sym] = changed(told[sym], FirstElement(e, ks), new)]
                   /\ clean' = IF bad THEN clean \ SymbolsOf[e] ELSE clean
                \/ sym \notin subscribed /\ ~bad /\ UNCHANGED <<wire, told, clean>>
<1>4. PICK ks \in Changes, bad \in BOOLEAN : \E new \in [ks -> FeedQuantities] : Moved(ks, bad, new)
  <2>1. market \in [Symbols -> Books] /\ told \in [Symbols -> Books] /\ wire \in [feeds -> Seq(Msg)]
    BY DEF Types
  <2>2. PICK ks \in Changes, bad \in BOOLEAN : \E new \in [ks -> FeedQuantities] :
          LET chg(book, xs) == [k \in Keys |-> IF k \in xs THEN new[k] ELSE book[k]]
              first == FirstElement(e, ks)
          IN  /\ market' = [market EXCEPT ![sym] = chg(@, ks)]
              /\ \/ /\ sym \in subscribed /\ Room(e, 1)
                    /\ wire' = [wire EXCEPT ![e] = Append(@, Message("update", sym, channel[sym],
                                  LevelsOf(new, first), LevelsOf(new, ks \ first), bad))]
                    /\ told' = [told EXCEPT ![sym] = chg(@, first)]
                    /\ clean' = IF bad THEN clean \ SymbolsOf[e] ELSE clean
                 \/ sym \notin subscribed /\ ~bad /\ UNCHANGED <<wire, told, clean>>
    BY Zenon DEF Move
  <2>3. PICK new \in [ks -> FeedQuantities] :
          LET chg(book, xs) == [k \in Keys |-> IF k \in xs THEN new[k] ELSE book[k]]
              first == FirstElement(e, ks)
          IN  /\ market' = [market EXCEPT ![sym] = chg(@, ks)]
              /\ \/ /\ sym \in subscribed /\ Room(e, 1)
                    /\ wire' = [wire EXCEPT ![e] = Append(@, Message("update", sym, channel[sym],
                                  LevelsOf(new, first), LevelsOf(new, ks \ first), bad))]
                    /\ told' = [told EXCEPT ![sym] = chg(@, first)]
                    /\ clean' = IF bad THEN clean \ SymbolsOf[e] ELSE clean
                 \/ sym \notin subscribed /\ ~bad /\ UNCHANGED <<wire, told, clean>>
    BY <2>2, Zenon
  <2>4. Moved(ks, bad, new)
    BY <2>3, Zenon
  <2> QED
    BY <2>4, Zenon
<1>5. PICK new \in [ks -> FeedQuantities] : Moved(ks, bad, new)
  BY <1>4
<1> DEFINE first == FirstElement(e, ks)
           levels == LevelsOf(new, first)
           m == Message("update", sym, channel[sym], levels, LevelsOf(new, ks \ first), bad)
<1>0. /\ ks \subseteq Keys /\ first \subseteq Keys /\ ks \ first \subseteq Keys
      /\ \A k \in ks : new[k] \in FeedQuantities
      /\ first \subseteq ks /\ (e # KRAKEN => first = ks)
  <2>1. ks \subseteq Keys
    BY FeedsAssumption
  <2> QED
    BY <2>1 DEF FirstElement
<1>6. /\ levels \in Seq(Level) /\ OneEach(levels) /\ LevelsOf(new, ks \ first) \in Seq(Level)
      /\ \A i \in DOMAIN levels : levels[i][1] \in first /\ levels[i][2] = new[levels[i][1]]
      /\ \A k \in first : \E i \in DOMAIN levels : levels[i][1] = k
  <2>1. (\A k \in first : new[k] \in FeedQuantities) /\ \A k \in ks \ first : new[k] \in FeedQuantities
    BY <1>0
  <2> HIDE DEF first
  <2> QED
    BY <1>0, <2>1, LevelsListed
<1>m. /\ market' = [market EXCEPT ![sym] = changed(market[sym], ks, new)]
      /\ \/ /\ sym \in subscribed /\ wire' = [wire EXCEPT ![e] = Append(wire[e], m)]
            /\ told' = [told EXCEPT ![sym] = changed(told[sym], first, new)]
            /\ clean' = IF bad THEN clean \ SymbolsOf[e] ELSE clean
         \/ sym \notin subscribed /\ ~bad /\ UNCHANGED <<wire, told, clean>>
  BY <1>5
<1> HIDE DEF levels, first, e, Moved
<1>7. /\ market' \in [Symbols -> Books]
      /\ \A s \in Symbols \ {sym} : market'[s] = market[s]
      /\ \A k \in Keys : market'[sym][k] = IF k \in ks THEN new[k] ELSE market[sym][k]
  <2>1. market[sym] \in [Keys -> FeedQuantities]
    BY DEF Types, Books
  <2>2. changed(market[sym], ks, new) \in Books
    BY <1>0, <2>1 DEF Books
  <2> QED
    BY <1>m, <2>2 DEF Types
<1>8. clean' \subseteq clean
  BY <1>m
<1>9. ThreadsSound' /\ UpdatesApplied'
  BY <1>2, <1>8, ThreadsKept
<1>10. ChannelsDistinct'
  BY <1>2, <1>3 DEF ChannelsDistinct
<1>11. CASE sym \notin subscribed /\ UNCHANGED <<wire, told, clean>>
  <2>1. Types' /\ WiresSound' /\ ChannelsResolve'
    BY <1>2, <1>3, <1>7, <1>11 DEF Types, WiresSound, ChannelsResolve
  <2>2. ASSUME NEW f \in feeds, NEW s \in SymbolsOf[f] \cap clean PROVE CleanAgrees(f, s)'
    <3>1. s # sym /\ s \in Symbols
      BY <1>11 DEF Types
    <3>2. CleanAgrees(f, s)
      BY DEF BooksAgree
    <3> QED
      BY <1>2, <1>7, <1>11, <3>1, <3>2 DEF CleanAgrees
  <2>3. BooksAgree'
    BY <1>2, <1>11, <2>2 DEF BooksAgree
  <2> QED
    BY <1>9, <1>10, <2>1, <2>3
<1>12. CASE /\ sym \in subscribed /\ wire' = [wire EXCEPT ![e] = Append(wire[e], m)]
            /\ told' = [told EXCEPT ![sym] = changed(told[sym], first, new)]
            /\ clean' = IF bad THEN clean \ SymbolsOf[e] ELSE clean
  <2>0. /\ told' \in [Symbols -> Books]
        /\ \A s \in Symbols \ {sym} : told'[s] = told[s]
        /\ \A k \in Keys : told'[sym][k] = IF k \in first THEN new[k] ELSE told[sym][k]
    <3>1. told[sym] \in [Keys -> FeedQuantities]
      BY DEF Types, Books
    <3>2. changed(told[sym], first, new) \in Books
      BY <1>0, <3>1 DEF Books
    <3> QED
      BY <1>12, <3>2 DEF Types
  <2>1. m = [kind |-> "update", pair |-> sym, channel |-> channel[sym], levels |-> levels,
             further |-> LevelsOf(new, ks \ first), bad |-> bad]
    BY DEF Message
  <2> HIDE DEF m
  <2>2. channel[sym] \in Channels \cup {0} /\ "update" \in Data /\ "update" \in Kinds
        /\ "update" # "subscriptionStatus" /\ "update" # "snapshot"
    BY DEF Types, Data, Kinds
  <2>3. m \in Msg /\ MessageSound(e, m) /\ m.kind = "update" /\ m.pair = sym /\ m.levels = levels
        /\ m.channel = channel[sym] /\ m.bad = bad
    BY <1>1, <1>6, <2>1, <2>2 DEF Msg, MessageSound
  <2>4. wire[e] \in Seq(Msg) /\ SeqSound(e, wire[e]) /\ Append(wire[e], m) \in Seq(Msg)
    BY <1>1, <2>3, AppendFacts DEF Types, WiresSound, SeqSound
  <2>5. wire' \in [feeds' -> Seq(Msg)] /\ WiresSound'
    BY <1>1, <1>2, <1>12, <2>3, <2>4, SoundAppend, WiresKept
  <2>6. Types'
    BY <1>2, <1>3, <1>7, <1>8, <2>0, <2>5 DEF Types
  <2>7. wire'[e] = Append(wire[e], m) /\ \A f \in feeds \ {e} : wire'[f] = wire[f]
    BY <1>1, <1>12 DEF Types
  <2>8. ChannelsResolve'
    <3>1. CASE e = KRAKEN
      <4>0. KRAKEN \in feeds /\ sym \in SymbolsOf[KRAKEN]
        BY <1>1, <3>1
      <4>1. Len(Append(wire[KRAKEN], m)) + 1 = Len(wire[KRAKEN]) + 2
        BY <2>3, <2>4, <3>1, AppendFacts
      <4>2. \A s \in SymbolsOf[KRAKEN] \cap subscribed :
              Resolves(Append(wire[KRAKEN], m), channel_map, Len(wire[KRAKEN]) + 2, channel[s], s)
        BY <2>2, <2>3, <4>0, ChannelsKept
      <4>3. Resolves(wire[KRAKEN], channel_map, Len(wire[KRAKEN]) + 1, m.channel, m.pair)
        BY <1>12, <2>3, <4>0 DEF ChannelsResolve
      <4>4. DataResolves(Append(wire[KRAKEN], m), channel_map)
        BY <2>3, <2>4, <3>1, <4>0, <4>3, DataAppend DEF ChannelsResolve
      <4>5. wire'[KRAKEN] = Append(wire[KRAKEN], m)
        BY <2>7, <3>1
      <4> QED
        BY <1>2, <4>1, <4>2, <4>4, <4>5 DEF ChannelsResolve
    <3>2. CASE e # KRAKEN
      BY <1>2, <2>7, <3>2 DEF ChannelsResolve
    <3> QED
      BY <3>1, <3>2
  <2>9. ASSUME NEW f \in feeds, NEW s \in SymbolsOf[f] \cap clean' PROVE CleanAgrees(f, s)'
    <3>1. CleanAgrees(f, s) /\ s \in Symbols
      BY <1>8 DEF BooksAgree, Types
    <3>2. CASE f # e
      <4>1. s # sym
        BY <1>1, <3>2
      <4> QED
        BY <1>2, <1>7, <2>0, <2>7, <3>1, <3>2, <4>1 DEF CleanAgrees
    <3>3. CASE f = e
      <4>1. ~bad
        BY <1>12, <3>3
      <4>2. ASSUME NEW k \in Keys
            PROVE  KeyAgrees(Append(wire[e], m), io[e], order_books[s], refused[s], s, k, told'[s][k])
        <5>1. KeyAgrees(wire[e], io[e], order_books[s], refused[s], s, k, told[s][k])
          BY <3>1, <3>3 DEF CleanAgrees
        <5>2. CASE s = sym /\ k \in first
          <6>1. Mentions(m, s, k)
            BY <1>6, <2>3, <5>2 DEF Mentions
          <6>2. \A l \in DOMAIN m.levels : m.levels[l][1] = k => m.levels[l][2] = told'[s][k]
            BY <1>6, <2>0, <2>3, <5>2
          <6> QED
            BY <2>3, <2>4, <6>1, <6>2, AppendLast
        <5>3. CASE ~(s = sym /\ k \in first)
          <6>1. ~Mentions(m, s, k)
            BY <1>6, <2>3, <5>3 DEF Mentions
          <6>2. told'[s][k] = told[s][k]
            BY <2>0, <3>1, <5>3
          <6> QED
            BY <2>3, <2>4, <5>1, <6>1, <6>2, AppendSilent
        <5> QED
          BY <5>2, <5>3
      <4>3. \A i \in DOMAIN Append(wire[e], m) :
              Append(wire[e], m)[i].pair = s => ~Append(wire[e], m)[i].bad
        <5>1. /\ Len(wire[e]) \in Nat /\ DOMAIN wire[e] = 1..Len(wire[e])
              /\ DOMAIN Append(wire[e], m) = 1..(Len(wire[e]) + 1)
              /\ Append(wire[e], m)[Len(wire[e]) + 1] = m
              /\ \A i \in 1..Len(wire[e]) : Append(wire[e], m)[i] = wire[e][i]
          BY <2>3, <2>4, AppendFacts
        <5>2. \A i \in DOMAIN wire[e] : wire[e][i].pair = s => ~wire[e][i].bad
          BY <3>1, <3>3 DEF CleanAgrees
        <5> QED
          BY <2>3, <4>1, <5>1, <5>2
      <4>4. order_books'[s] \in Books /\ io' = io /\ order_books' = order_books /\ refused' = refused
            /\ wire'[f] = Append(wire[e], m)
        BY <1>2, <2>7, <3>1, <3>3 DEF CleanAgrees
      <4>5. f # KRAKEN => told'[s] = market'[s]
        <5>1. SUFFICES ASSUME f # KRAKEN PROVE told'[s] = market'[s]
          OBVIOUS
        <5>2. told[s] = market[s] /\ first = ks
          BY <1>0, <3>1, <3>3, <5>1 DEF CleanAgrees
        <5>3. told'[s] \in Books /\ market'[s] \in Books
          BY <1>7, <2>0, <3>1
        <5>4. \A k \in Keys : told'[s][k] = market'[s][k]
          BY <1>7, <2>0, <3>1, <5>2
        <5> QED
          BY <5>3, <5>4 DEF Books
      <4> QED
        BY <3>3, <4>2, <4>3, <4>4, <4>5 DEF CleanAgrees
    <3> QED
      BY <3>2, <3>3
  <2>10. BooksAgree'
    BY <1>2, <2>9 DEF BooksAgree
  <2> QED
    BY <1>9, <1>10, <2>5, <2>6, <2>8, <2>10
<1> QED
  BY <1>m, <1>11, <1>12

(* What the exchange is asked for.                                         *)
LEMMA Request ==
  ASSUME feeds \in Feeders, NEW sym \in Symbols, NEW b \in BOOLEAN
  PROVE  /\ send_subscription(sym, b).symbol = sym
         /\ send_subscription(sym, b).stream = "book" => Exchange(sym) = KRAKEN
         /\ send_subscription(sym, b).stream = "level2_batch" => Exchange(sym) = COINBASE
         /\ send_subscription(sym, b).stream = "depth@100ms" => Exchange(sym) = BINANCE
<1>1. Exchange(sym) \in {BINANCE, COINBASE, KRAKEN}
  BY ExchangeOf, FeedsAssumption
<1>2. CASE Exchange(sym) = BINANCE
  <2>1. send_subscription(sym, b) = binance_request(sym, b)
    BY <1>2 DEF send_subscription, BINANCE, COINBASE, KRAKEN
  <2> QED
    BY <1>2, <2>1 DEF binance_request
<1>3. CASE Exchange(sym) = COINBASE
  <2>1. send_subscription(sym, b) = coinbase_request(sym, b)
    BY <1>3 DEF send_subscription, BINANCE, COINBASE, KRAKEN
  <2> QED
    BY <1>3, <2>1 DEF coinbase_request
<1>4. CASE Exchange(sym) = KRAKEN
  <2>1. send_subscription(sym, b) = kraken_request(sym, b)
    BY <1>4 DEF send_subscription, BINANCE, COINBASE, KRAKEN
  <2> QED
    BY <1>4, <2>1 DEF kraken_request
<1> QED
  BY <1>1, <1>2, <1>3, <1>4

(* A level for each key that has a quantity.                               *)
LEMMA AllLevelsListed ==
  ASSUME NEW b \in Books
  PROVE  /\ AllLevels(b) \in Seq(Level) /\ OneEach(AllLevels(b))
         /\ \A i \in DOMAIN AllLevels(b) : b[AllLevels(b)[i][1]] # 0
         /\ \A i \in DOMAIN AllLevels(b) : AllLevels(b)[i][2] = b[AllLevels(b)[i][1]]
         /\ \A k \in Keys : b[k] # 0 => \E i \in DOMAIN AllLevels(b) : AllLevels(b)[i][1] = k
<1>1. PICK ks : ks = {k \in Keys : b[k] # 0}
  OBVIOUS
<1>2. ks \subseteq Keys /\ \A k \in ks : b[k] \in FeedQuantities
  BY <1>1 DEF Books
<1>3. ks \subseteq Keys /\ (\A k \in ks : b[k] \in FeedQuantities) =>
        /\ LevelsOf(b, ks) \in Seq(Level) /\ OneEach(LevelsOf(b, ks))
        /\ \A i \in DOMAIN LevelsOf(b, ks) :
             LevelsOf(b, ks)[i][1] \in ks /\ LevelsOf(b, ks)[i][2] = b[LevelsOf(b, ks)[i][1]]
        /\ \A k \in ks : \E i \in DOMAIN LevelsOf(b, ks) : LevelsOf(b, ks)[i][1] = k
  BY ONLY LevelsListed
<1>4. AllLevels(b) = LevelsOf(b, ks)
  BY <1>1 DEF AllLevels
<1>5. \A k \in Keys : k \in ks <=> b[k] # 0
  BY <1>1
<1>6. \A i \in DOMAIN LevelsOf(b, ks) : LevelsOf(b, ks)[i][1] \in Keys /\ LevelsOf(b, ks)[i][1] \in ks
  BY <1>2, <1>3
<1>7. \A i \in DOMAIN LevelsOf(b, ks) : b[LevelsOf(b, ks)[i][1]] # 0
  BY <1>5, <1>6
<1> QED
  BY <1>2, <1>3, <1>4, <1>5, <1>7

(* A snapshot of a market.                                                 *)
SnapshotOf(sym, ch) == Message("snapshot", sym, ch, AllLevels(market[sym]), << >>, FALSE)

IsSnapshot(m, e, sym, ch) ==
  /\ m \in Msg /\ MessageSound(e, m)
  /\ m.kind = "snapshot" /\ m.pair = sym /\ m.channel = ch /\ m.bad = FALSE
  /\ \A k \in Keys : Mentions(m, sym, k) <=> market[sym][k] # 0
  /\ \A i \in DOMAIN m.levels : m.levels[i][2] = market[sym][m.levels[i][1]]

LEMMA SnapshotMessage ==
  ASSUME NEW e, NEW sym, NEW ch, Types, e \in feeds, sym \in SymbolsOf[e],
         ch \in Channels \cup {0}, e # BINANCE
  PROVE  IsSnapshot(SnapshotOf(sym, ch), e, sym, ch)
<1> DEFINE L == AllLevels(market[sym])
           m == SnapshotOf(sym, ch)
<1>1. sym \in Symbols /\ sym \in AllSymbols
  BY SymbolsTyped DEF Types
<1>2. market[sym] \in Books
  BY <1>1 DEF Types
<1>4. /\ L \in Seq(Level) /\ OneEach(L)
      /\ \A i \in DOMAIN L : market[sym][L[i][1]] # 0
      /\ \A i \in DOMAIN L : L[i][2] = market[sym][L[i][1]]
      /\ \A k \in Keys : market[sym][k] # 0 => \E i \in DOMAIN L : L[i][1] = k
  BY <1>2, AllLevelsListed
<1>5. m = [kind |-> "snapshot", pair |-> sym, channel |-> ch, levels |-> L, further |-> << >>,
           bad |-> FALSE]
  BY DEF SnapshotOf, Message
<1> HIDE DEF m, L
<1>6. /\ m.kind = "snapshot" /\ m.pair = sym /\ m.channel = ch /\ m.levels = L /\ m.bad = FALSE
  BY <1>5
<1>7. m \in Msg
  <2>1. "snapshot" \in Kinds /\ sym \in AllSymbols \cup {""} /\ FALSE \in BOOLEAN
    BY <1>1 DEF Kinds, Data
  <2>2. << >> \in Seq(Level)
    OBVIOUS
  <2> QED
    BY <1>4, <1>5, <2>1, <2>2, Zenon DEF Msg
<1>8. MessageSound(e, m)
  BY <1>4, <1>6 DEF MessageSound, Data
<1>9. \A k \in Keys : Mentions(m, sym, k) <=> market[sym][k] # 0
  BY <1>4, <1>6 DEF Mentions
<1>10. \A i \in DOMAIN m.levels : m.levels[i][2] = market[sym][m.levels[i][1]]
  BY <1>4, <1>6
<1>11. IsSnapshot(m, e, sym, ch)
  BY <1>6, <1>7, <1>8, <1>9, <1>10 DEF IsSnapshot
<1> QED
  BY <1>11 DEF m

(* What a subscription appends to the wire.                                *)
Appends(e, sym, v) ==
  /\ v \in Seq(Msg) /\ SeqSound(e, v)
  /\ \A s \in Symbols \ {sym} :
       /\ (\A i \in DOMAIN wire[e] : wire[e][i].pair = s => ~wire[e][i].bad) =>
             \A i \in DOMAIN v : v[i].pair = s => ~v[i].bad
       /\ \A k \in Keys : KeyAgrees(wire[e], io[e], order_books[s], refused[s], s, k, told[s][k]) =>
                          KeyAgrees(v, io[e], order_books[s], refused[s], s, k, told[s][k])
  /\ order_books[sym] = Empty /\ ~OnItsWay(sym) /\ (e = BINANCE => market[sym] = Empty) =>
       /\ \A i \in DOMAIN v : v[i].pair = sym => ~v[i].bad
       /\ \A k \in Keys : KeyAgrees(v, io[e], order_books[sym], {}, sym, k, market[sym][k])

LEMMA NoBad ==
  ASSUME NEW w \in Seq(Msg), NEW m \in Msg, NEW s, m.bad = FALSE,
         \A i \in DOMAIN w : w[i].pair = s => ~w[i].bad
  PROVE  \A i \in DOMAIN Append(w, m) : Append(w, m)[i].pair = s => ~Append(w, m)[i].bad
<1> DEFINE v == Append(w, m)
<1>1. /\ Len(w) \in Nat /\ DOMAIN w = 1..Len(w) /\ DOMAIN v = 1..(Len(w) + 1)
      /\ v[Len(w) + 1] = m /\ \A i \in 1..Len(w) : v[i] = w[i]
  BY AppendFacts
<1> HIDE DEF v
<1>2. \A i \in DOMAIN v : v[i].pair = s => ~v[i].bad
  BY <1>1
<1> QED
  BY <1>2 DEF v

LEMMA SubscribeAppends ==
  ASSUME FeedsInv, NEW sym \in Symbols, NEW ch \in Channels \cup {0}, Exchange(sym) # BINANCE,
         NEW w1 \in Seq(Msg), SeqSound(Exchange(sym), w1),
         \A s \in Symbols, k \in Keys : \A b, ref, q :
           KeyAgrees(wire[Exchange(sym)], io[Exchange(sym)], b, ref, s, k, q) =>
           KeyAgrees(w1, io[Exchange(sym)], b, ref, s, k, q),
         \A s \in Symbols :
           (\A i \in DOMAIN wire[Exchange(sym)] :
              wire[Exchange(sym)][i].pair = s => ~wire[Exchange(sym)][i].bad) =>
           \A i \in DOMAIN w1 : w1[i].pair = s => ~w1[i].bad
  PROVE  Appends(Exchange(sym), sym,
                 Append(w1, SnapshotOf(sym, ch)))
<1> DEFINE x == Exchange(sym)
           m == SnapshotOf(sym, ch)
           v == Append(w1, m)
<1>1. x \in feeds /\ sym \in SymbolsOf[x] /\ Types
  BY ExchangeOf DEF FeedsInv, Types
<1>2. /\ m \in Msg /\ MessageSound(x, m)
      /\ m.kind = "snapshot" /\ m.pair = sym /\ m.channel = ch /\ m.bad = FALSE
      /\ \A k \in Keys : Mentions(m, sym, k) <=> market[sym][k] # 0
      /\ \A i \in DOMAIN m.levels : m.levels[i][2] = market[sym][m.levels[i][1]]
  <2>1. IsSnapshot(m, x, sym, ch)
    BY <1>1, SnapshotMessage
  <2> HIDE DEF m, x
  <2> QED
    BY <2>1 DEF IsSnapshot
<1> HIDE DEF m, x
<1>3. v \in Seq(Msg) /\ SeqSound(x, v)
  BY <1>2, AppendFacts, SoundAppend DEF x
<1>4. ASSUME NEW s \in Symbols \ {sym}
      PROVE  /\ (\A i \in DOMAIN wire[x] : wire[x][i].pair = s => ~wire[x][i].bad) =>
                  \A i \in DOMAIN v : v[i].pair = s => ~v[i].bad
             /\ \A k \in Keys : KeyAgrees(wire[x], io[x], order_books[s], refused[s], s, k, told[s][k]) =>
                                KeyAgrees(v, io[x], order_books[s], refused[s], s, k, told[s][k])
  <2>1. \A k \in Keys : ~Mentions(m, s, k)
    BY <1>2 DEF Mentions
  <2>2. ASSUME NEW k \in Keys, KeyAgrees(wire[x], io[x], order_books[s], refused[s], s, k, told[s][k])
        PROVE  KeyAgrees(v, io[x], order_books[s], refused[s], s, k, told[s][k])
    <3>1. KeyAgrees(w1, io[x], order_books[s], refused[s], s, k, told[s][k])
      BY <2>2 DEF x
    <3> QED
      BY <1>2, <2>1, <3>1, AppendSilent
  <2>3. ASSUME \A i \in DOMAIN wire[x] : wire[x][i].pair = s => ~wire[x][i].bad
        PROVE  \A i \in DOMAIN v : v[i].pair = s => ~v[i].bad
    <3>1. \A i \in DOMAIN w1 : w1[i].pair = s => ~w1[i].bad
      BY <2>3 DEF x
    <3> QED
      BY <1>2, <3>1, NoBad
  <2> QED
    BY <2>2, <2>3
<1>5. ASSUME order_books[sym] = Empty, ~OnItsWay(sym)
      PROVE  /\ \A i \in DOMAIN v : v[i].pair = sym => ~v[i].bad
             /\ \A k \in Keys : KeyAgrees(v, io[x], order_books[sym], {}, sym, k, market[sym][k])
  <2>1. io[x].sym # sym /\ \A i \in DOMAIN wire[x] : wire[x][i].pair # sym
    BY <1>5 DEF OnItsWay, x
  <2>2. \A i \in DOMAIN w1 : w1[i].pair = sym => ~w1[i].bad
    BY <2>1 DEF x
  <2>3. \A i \in DOMAIN v : v[i].pair = sym => ~v[i].bad
    BY <1>2, <2>2, NoBad
  <2>4. ASSUME NEW k \in Keys
        PROVE  KeyAgrees(v, io[x], order_books[sym], {}, sym, k, market[sym][k])
    <3>1. CASE market[sym][k] # 0
      <4>1. Mentions(m, sym, k) /\ \A l \in DOMAIN m.levels : m.levels[l][1] = k => m.levels[l][2] = market[sym][k]
        BY <1>2, <3>1
      <4> QED
        BY <1>2, <4>1, AppendLast
    <3>2. CASE market[sym][k] = 0
      <4>1. ~Mentions(m, sym, k) /\ order_books[sym][k] = market[sym][k]
        BY <1>2, <1>5, <3>2 DEF Empty
      <4>2. KeyAgrees(wire[x], io[x], order_books[sym], {}, sym, k, market[sym][k])
        BY <2>1, <4>1, NothingUnderWay DEF Holds
      <4>3. KeyAgrees(w1, io[x], order_books[sym], {}, sym, k, market[sym][k])
        BY <4>2 DEF x
      <4> QED
        BY <1>2, <4>1, <4>3, AppendSilent
    <3> QED
      BY <3>1, <3>2
  <2> QED
    BY <2>3, <2>4
<1>6. Appends(x, sym, v)
  BY <1>3, <1>4, <1>5 DEF Appends
<1> QED
  BY <1>6 DEF x, m

(* The part of a subscription that does not depend on the exchange.        *)
LEMMA Subscribed ==
  ASSUME FeedsInv, NEW sym \in Symbols, sym \notin subscribed, subscribed' = subscribed \cup {sym},
         UNCHANGED <<feeds, market, channel_map, order_books, io>>,
         told' = [told EXCEPT ![sym] = market[sym]], refused' = [refused EXCEPT ![sym] = {}],
         NEW v, Appends(Exchange(sym), sym, v), wire' = [wire EXCEPT ![Exchange(sym)] = v],
         channel' \in [Symbols -> Channels \cup {0}],
         clean' = IF /\ order_books[sym] = Empty /\ ~OnItsWay(sym)
                     /\ Exchange(sym) = BINANCE => market[sym] = Empty
                  THEN clean \cup {sym} ELSE clean \ {sym}
  PROVE  /\ Types' /\ WiresSound' /\ ThreadsSound' /\ UpdatesApplied' /\ BooksAgree'
         /\ Symbols' = Symbols /\ wire'[Exchange(sym)] = v
         /\ \A f \in feeds \ {Exchange(sym)} : wire'[f] = wire[f]
<1> USE DEF FeedsInv
<1> DEFINE e == Exchange(sym)
<1>1. e \in feeds /\ sym \in SymbolsOf[e] /\ \A f \in feeds : sym \in SymbolsOf[f] => f = e
  BY ExchangeOf DEF Types
<1>2. v \in Seq(Msg) /\ SeqSound(e, v)
  BY DEF Appends
<1>3. wire' \in [feeds' -> Seq(Msg)] /\ WiresSound'
  BY <1>1, <1>2, WiresKept
<1>4. Symbols' = Symbols
  BY DEF Symbols
<1>5. sym \notin clean
  BY DEF Types
<1>6. Types'
  <2>1. clean' \subseteq subscribed' /\ subscribed' \subseteq Symbols'
    BY <1>4 DEF Types
  <2>2. told' \in [Symbols -> Books] /\ refused' \in [Symbols -> SUBSET Keys]
    BY DEF Types
  <2> QED
    BY <1>3, <1>4, <2>1, <2>2 DEF Types
<1>n. /\ told'[sym] = market[sym] /\ refused'[sym] = {}
      /\ \A s \in Symbols \ {sym} : told'[s] = told[s] /\ refused'[s] = refused[s]
  BY DEF Types
<1>7. wire'[e] = v /\ \A f \in feeds \ {e} : wire'[f] = wire[f]
  BY <1>1 DEF Types
<1>8. ASSUME NEW f \in feeds, sym \in clean', io[f].at # "idle" PROVE io[f].sym # sym
  <2>1. ~OnItsWay(sym)
    BY <1>5, <1>8
  <2>2. CASE f = e
    BY <2>1, <2>2 DEF OnItsWay
  <2>3. CASE f # e
    BY <1>1, <1>8, <2>3 DEF ThreadsSound, ThreadSound
  <2> QED
    BY <2>2, <2>3
<1>9. ThreadsSound' /\ UpdatesApplied'
  <2>1. \A s \in clean' : s \notin clean \/ refused'[s] # refused[s] => s = sym
    BY <1>n DEF Types
  <2> QED
    BY <1>8, <2>1, ThreadsKept
<1> HIDE DEF e
<1>10. ASSUME NEW f \in feeds, NEW s \in SymbolsOf[f] \cap clean' PROVE CleanAgrees(f, s)'
  <2>0. s \in Symbols
    BY DEF Symbols
  <2>1. CASE s = sym
    <3>1. /\ f = e /\ order_books[sym] = Empty /\ ~OnItsWay(sym)
          /\ e = BINANCE => market[sym] = Empty
      BY <1>1, <1>5, <2>1 DEF e
    <3>2. /\ \A i \in DOMAIN v : v[i].pair = sym => ~v[i].bad
          /\ \A k \in Keys : KeyAgrees(v, io[e], order_books[sym], {}, sym, k, market[sym][k])
      BY <3>1 DEF Appends, e
    <3>3. Empty \in Books
      BY FeedsAssumption DEF Empty, Books
    <3>4. /\ wire'[f] = v /\ io'[f] = io[e] /\ order_books'[s] = Empty
          /\ told'[s] = market[s] /\ market'[s] = market[s] /\ refused'[s] = {}
      BY <1>7, <1>n, <2>1, <3>1
    <3>5. \A k \in Keys : KeyAgrees(wire'[f], io'[f], order_books'[s], refused'[s], s, k, told'[s][k])
      BY <2>1, <3>1, <3>2, <3>4
    <3>6. \A i \in DOMAIN wire'[f] : wire'[f][i].pair = s => ~wire'[f][i].bad
      BY <2>1, <3>2, <3>4
    <3> QED
      BY <3>3, <3>4, <3>5, <3>6 DEF CleanAgrees
  <2>2. CASE s # sym
    <3>1. CleanAgrees(f, s)
      BY <2>2 DEF BooksAgree
    <3>2. CASE f # e
      BY <1>7, <1>n, <2>0, <2>2, <3>1, <3>2 DEF CleanAgrees
    <3>3. CASE f = e
      <4>1. /\ (\A i \in DOMAIN wire[e] : wire[e][i].pair = s => ~wire[e][i].bad) =>
                 \A i \in DOMAIN v : v[i].pair = s => ~v[i].bad
            /\ \A k \in Keys : KeyAgrees(wire[e], io[e], order_books[s], refused[s], s, k, told[s][k]) =>
                               KeyAgrees(v, io[e], order_books[s], refused[s], s, k, told[s][k])
        BY <2>0, <2>2 DEF Appends, e
      <4> QED
        BY <1>7, <1>n, <2>0, <2>2, <3>1, <3>3, <4>1 DEF CleanAgrees
    <3> QED
      BY <3>2, <3>3
  <2> QED
    BY <2>1, <2>2
<1>11. BooksAgree'
  BY <1>10 DEF BooksAgree
<1> QED
  BY <1>3, <1>4, <1>6, <1>7, <1>9, <1>11 DEF e

(* A subscription at another exchange leaves Kraken's channels alone.      *)
LEMMA OtherChannels ==
  ASSUME FeedsInv, NEW sym \in Symbols, Exchange(sym) # KRAKEN, subscribed' = subscribed \cup {sym},
         UNCHANGED <<feeds, channel, channel_map>>, KRAKEN \in feeds => wire'[KRAKEN] = wire[KRAKEN]
  PROVE  ChannelsDistinct' /\ ChannelsResolve'
<1>1. ChannelsDistinct'
  BY DEF FeedsInv, ChannelsDistinct, Symbols
<1>2. ASSUME KRAKEN \in feeds, NEW s \in SymbolsOf[KRAKEN] \cap subscribed' PROVE s \in subscribed
  BY <1>2, ExchangeOf DEF FeedsInv, Types
<1>3. ChannelsResolve'
  BY <1>2 DEF FeedsInv, ChannelsResolve
<1> QED
  BY <1>1, <1>3

LEMMA SubscribeBinance ==
  ASSUME FeedsInv, NEW sym \in Symbols, Exchange(sym) = BINANCE
  PROVE  Appends(Exchange(sym), sym, wire[Exchange(sym)])
<1> DEFINE x == Exchange(sym)
<1>1. x \in feeds /\ wire[x] \in Seq(Msg) /\ SeqSound(x, wire[x])
  BY ExchangeOf DEF FeedsInv, Types, WiresSound, SeqSound
<1>2. ASSUME order_books[sym] = Empty, ~OnItsWay(sym), market[sym] = Empty
      PROVE  /\ \A i \in DOMAIN wire[x] : wire[x][i].pair = sym => ~wire[x][i].bad
             /\ \A k \in Keys : KeyAgrees(wire[x], io[x], order_books[sym], {}, sym, k, market[sym][k])
  <2>1. io[x].sym # sym /\ \A i \in DOMAIN wire[x] : wire[x][i].pair # sym
    BY <1>2 DEF OnItsWay
  <2>2. \A k \in Keys : order_books[sym][k] = market[sym][k]
    BY <1>2
  <2> QED
    BY <2>1, <2>2, NothingUnderWay DEF Holds
<1> HIDE DEF x
<1>3. x = BINANCE
  BY DEF x
<1>4. Appends(x, sym, wire[x])
  BY <1>1, <1>2, <1>3 DEF Appends
<1> QED
  BY <1>4 DEF x

(* The status message that comes before Kraken's snapshot.                 *)
StatusOf(sym, ch) == Message("subscriptionStatus", sym, ch, << >>, << >>, FALSE)

IsStatus(m, sym, ch) ==
  /\ m \in Msg /\ MessageSound(KRAKEN, m)
  /\ m.kind = "subscriptionStatus" /\ m.pair = sym /\ m.channel = ch /\ m.bad = FALSE
  /\ \A s, k : ~Mentions(m, s, k)

LEMMA StatusMessage ==
  ASSUME NEW sym, NEW ch, Types, KRAKEN \in feeds, sym \in SymbolsOf[KRAKEN], ch \in Channels
  PROVE  IsStatus(StatusOf(sym, ch), sym, ch)
<1> DEFINE m == StatusOf(sym, ch)
<1>1. m = [kind |-> "subscriptionStatus", pair |-> sym, channel |-> ch, levels |-> << >>,
           further |-> << >>, bad |-> FALSE]
  BY DEF StatusOf, Message
<1> HIDE DEF m
<1>2. m.kind = "subscriptionStatus" /\ m.pair = sym /\ m.channel = ch /\ m.levels = << >> /\ m.bad = FALSE
  BY <1>1
<1>3. m \in Msg
  <2>0. sym \in AllSymbols
    BY SymbolsTyped DEF Types
  <2>1. sym \in AllSymbols \cup {""} /\ ch \in Channels \cup {0}
    BY <2>0
  <2>2. "subscriptionStatus" \in Kinds
    BY DEF Kinds
  <2>3. << >> \in Seq(Level) /\ FALSE \in BOOLEAN
    OBVIOUS
  <2> QED
    BY <1>1, <2>1, <2>2, <2>3, Zenon DEF Msg
<1>4. MessageSound(KRAKEN, m)
  BY <1>2 DEF MessageSound, Data, OneEach, KRAKEN, BINANCE
<1>5. \A s, k : ~Mentions(m, s, k)
  BY <1>2 DEF Mentions
<1>6. IsStatus(m, sym, ch)
  BY <1>2, <1>3, <1>4, <1>5 DEF IsStatus
<1> QED
  BY <1>6 DEF m

LEMMA SubscribeKraken ==
  ASSUME FeedsInv, NEW sym \in Symbols, Exchange(sym) = KRAKEN, NEW ch \in Channels
  PROVE  Appends(KRAKEN, sym, Append(Append(wire[KRAKEN], StatusOf(sym, ch)), SnapshotOf(sym, ch)))
<1> DEFINE w == wire[KRAKEN]
           a == StatusOf(sym, ch)
<1>1. KRAKEN \in feeds /\ sym \in SymbolsOf[KRAKEN] /\ w \in Seq(Msg) /\ SeqSound(KRAKEN, w) /\ Types
  BY ExchangeOf DEF FeedsInv, Types, WiresSound, SeqSound
<1>2. IsStatus(a, sym, ch)
  BY <1>1, StatusMessage
<1> HIDE DEF a
<1>3. Append(w, a) \in Seq(Msg) /\ SeqSound(KRAKEN, Append(w, a))
  BY <1>1, <1>2, AppendFacts, SoundAppend DEF IsStatus
<1>4. ASSUME NEW s \in Symbols, NEW k \in Keys, NEW b, NEW ref, NEW q,
             KeyAgrees(w, io[KRAKEN], b, ref, s, k, q)
      PROVE  KeyAgrees(Append(w, a), io[KRAKEN], b, ref, s, k, q)
  BY <1>1, <1>2, <1>4, AppendSilent DEF IsStatus
<1>5. ASSUME NEW s \in Symbols, \A i \in DOMAIN w : w[i].pair = s => ~w[i].bad
      PROVE  \A i \in DOMAIN Append(w, a) : Append(w, a)[i].pair = s => ~Append(w, a)[i].bad
  BY <1>1, <1>2, <1>5, NoBad DEF IsStatus
<1>6. KRAKEN # BINANCE /\ ch \in Channels \cup {0}
  BY DEF KRAKEN, BINANCE
<1>7. PICK w1 : w1 = Append(w, a)
  OBVIOUS
<1>8. Appends(Exchange(sym), sym, Append(w1, SnapshotOf(sym, ch)))
  <2>1. w1 \in Seq(Msg) /\ SeqSound(Exchange(sym), w1)
    BY <1>3, <1>7
  <2>2. \A s \in Symbols, k \in Keys : \A b, ref, q :
           KeyAgrees(wire[Exchange(sym)], io[Exchange(sym)], b, ref, s, k, q) =>
           KeyAgrees(w1, io[Exchange(sym)], b, ref, s, k, q)
    BY <1>4, <1>7
  <2>3. \A s \in Symbols :
           (\A i \in DOMAIN wire[Exchange(sym)] :
              wire[Exchange(sym)][i].pair = s => ~wire[Exchange(sym)][i].bad) =>
           \A i \in DOMAIN w1 : w1[i].pair = s => ~w1[i].bad
    BY <1>5, <1>7
  <2> HIDE DEF w
  <2> QED
    BY <1>6, <2>1, <2>2, <2>3, SubscribeAppends
<1> QED
  BY <1>7, <1>8 DEF a

LEMMA SubscribeChannels ==
  ASSUME FeedsInv, NEW sym \in Symbols, sym \notin subscribed, Exchange(sym) = KRAKEN,
         NEW ch \in Channels, \A s \in Symbols : channel[s] # ch,
         subscribed' = subscribed \cup {sym}, UNCHANGED <<feeds, channel_map>>,
         channel' = [channel EXCEPT ![sym] = ch],
         wire' = [wire EXCEPT ![KRAKEN] =
                    Append(Append(wire[KRAKEN], StatusOf(sym, ch)), SnapshotOf(sym, ch))]
  PROVE  ChannelsDistinct' /\ ChannelsResolve'
<1> DEFINE w == wire[KRAKEN]
           a == StatusOf(sym, ch)
           b == SnapshotOf(sym, ch)
           w1 == Append(w, a)
           v == Append(w1, b)
<1>1. KRAKEN \in feeds /\ sym \in SymbolsOf[KRAKEN] /\ w \in Seq(Msg) /\ Types
      /\ ChannelsResolve /\ ChannelsDistinct
  BY ExchangeOf DEF FeedsInv, Types
<1>2. IsStatus(a, sym, ch)
  BY <1>1, StatusMessage
<1>3. IsSnapshot(b, KRAKEN, sym, ch)
  <2>1. KRAKEN # BINANCE /\ ch \in Channels \cup {0}
    BY DEF KRAKEN, BINANCE
  <2> QED
    BY <1>1, <2>1, SnapshotMessage
<1> HIDE DEF a, b
<1>4. /\ a \in Msg /\ b \in Msg /\ a.kind = "subscriptionStatus" /\ a.channel = ch /\ a.pair = sym
      /\ b.kind = "snapshot" /\ b.channel = ch /\ b.pair = sym
  BY <1>2, <1>3 DEF IsStatus, IsSnapshot
<1>5. /\ w1 \in Seq(Msg) /\ v \in Seq(Msg) /\ Len(w) \in Nat
      /\ Len(w1) + 1 = Len(w) + 2 /\ Len(v) + 1 = Len(w1) + 2
      /\ Len(w) + 1 \in 1..(Len(w) + 1) /\ Len(w1) + 1 \in 1..(Len(w1) + 1)
  <2>1. w1 \in Seq(Msg) /\ Len(w) \in Nat /\ Len(w1) = Len(w) + 1
    BY <1>1, <1>4, AppendFacts
  <2> HIDE DEF w1
  <2>2. v \in Seq(Msg) /\ Len(w1) \in Nat /\ Len(v) = Len(w1) + 1
    BY <1>4, <2>1, AppendFacts
  <2> QED
    BY <2>1, <2>2
<1>6. ChannelsDistinct'
  <2>1. Symbols' = Symbols
    BY DEF Symbols
  <2>2. channel'[sym] = ch /\ \A s \in Symbols \ {sym} : channel'[s] = channel[s]
    BY <1>1 DEF Types
  <2> QED
    BY <1>1, <2>1, <2>2 DEF ChannelsDistinct
<1>7. Resolves(w1, channel_map, Len(w1) + 1, ch, sym)
  BY <1>1, <1>4, <1>5, ResolvesNew
<1>8. ASSUME NEW s \in SymbolsOf[KRAKEN], s \in subscribed
      PROVE  Resolves(w1, channel_map, Len(w1) + 1, channel[s], s)
  <2>1. s \in Symbols
    BY <1>8 DEF Types, FeedsInv
  <2>2. Resolves(w, channel_map, Len(w) + 1, channel[s], s)
    BY <1>1, <1>8 DEF ChannelsResolve
  <2>3. a.channel # channel[s]
    BY <1>4, <2>1
  <2> QED
    BY <1>1, <1>4, <1>5, <2>2, <2>3, ResolvesKept
<1> HIDE DEF w1
<1>9. DataResolves(w1, channel_map)
  <2>1. "subscriptionStatus" \notin Data
    BY DEF Data
  <2>2. DataResolves(w, channel_map)
    BY <1>1 DEF ChannelsResolve
  <2> QED
    BY <1>1, <1>4, <2>1, <2>2, DataAppend DEF w1
<1>10. DataResolves(v, channel_map)
  BY <1>4, <1>5, <1>7, <1>9, DataAppend
<1>11. ASSUME NEW s \in SymbolsOf[KRAKEN] \cap subscribed'
       PROVE  Resolves(v, channel_map, Len(v) + 1, channel'[s], s)
  <2>1. s \in Symbols
    BY <1>1 DEF Symbols
  <2>2. CASE s = sym
    <3>1. channel'[s] = ch
      BY <1>1, <2>1, <2>2 DEF Types
    <3> QED
      BY <1>4, <1>5, <1>7, <2>2, <3>1, ResolvesKept
  <2>3. CASE s # sym
    <3>1. channel'[s] = channel[s] /\ s \in subscribed
      BY <1>1, <2>1, <2>3 DEF Types
    <3>2. Resolves(w1, channel_map, Len(w1) + 1, channel[s], s)
      BY <1>8, <3>1
    <3> QED
      BY <1>4, <1>5, <3>1, <3>2, ResolvesKept
  <2> QED
    BY <2>2, <2>3
<1>12. wire'[KRAKEN] = v
  BY <1>1 DEF Types, w1, a, b
<1>13. ChannelsResolve'
  <2> HIDE DEF v
  <2> QED
    BY <1>10, <1>11, <1>12 DEF ChannelsResolve
<1> QED
  BY <1>6, <1>13

LEMMA SubscribeStep ==
  ASSUME FeedsInv, NEW sym \in Symbols, Subscribe(sym)
  PROVE  FeedsInv'
<1> DEFINE x == Exchange(sym)
           r == send_subscription(sym, TRUE)
<1>1. /\ x \in feeds /\ wire[x] \in Seq(Msg) /\ SeqSound(x, wire[x]) /\ feeds \in Feeders
      /\ sym \in SymbolsOf[x] /\ channel \in [Symbols -> Channels \cup {0}]
  BY ExchangeOf DEF FeedsInv, Types, WiresSound, SeqSound
<1>2. /\ r.symbol = sym
      /\ r.stream = "book" => x = KRAKEN
      /\ r.stream = "level2_batch" => x = COINBASE
      /\ r.stream = "depth@100ms" => x = BINANCE
  BY <1>1, Request
<1>3. /\ sym \notin subscribed /\ subscribed' = subscribed \cup {sym}
      /\ UNCHANGED <<feeds, market, channel_map, order_books, io>>
      /\ told' = [told EXCEPT ![sym] = market[sym]] /\ refused' = [refused EXCEPT ![sym] = {}]
      /\ clean' = IF /\ order_books[sym] = Empty /\ ~OnItsWay(sym)
                     /\ x = BINANCE => market[sym] = Empty
                  THEN clean \cup {sym} ELSE clean \ {sym}
  BY <1>2 DEF Subscribe
<1>4. \/ /\ r.stream = "book"
         /\ \E ch \in Channels \ {channel[s] : s \in Symbols} :
              /\ channel' = [channel EXCEPT ![sym] = ch]
              /\ wire' = [wire EXCEPT ![x] = @ \o <<StatusOf(sym, ch), SnapshotOf(sym, ch)>>]
      \/ /\ r.stream = "level2_batch"
         /\ wire' = [wire EXCEPT ![x] = Append(@, SnapshotOf(sym, 0))]
         /\ channel' = channel
      \/ r.stream = "depth@100ms" /\ wire' = wire /\ channel' = channel
  BY DEF Subscribe, SnapshotOf, StatusOf
<1> HIDE DEF r
<1>5. ASSUME NEW v, Appends(x, sym, v), wire' = [wire EXCEPT ![x] = v],
             channel' \in [Symbols -> Channels \cup {0}]
      PROVE  /\ Types' /\ WiresSound' /\ ThreadsSound' /\ UpdatesApplied' /\ BooksAgree'
             /\ \A f \in feeds \ {x} : wire'[f] = wire[f]
  BY <1>3, <1>5, Subscribed
<1>6. CASE r.stream = "depth@100ms"
  <2>1. x = BINANCE /\ wire' = wire /\ channel' = channel
    BY <1>2, <1>4, <1>6
  <2>2. Appends(x, sym, wire[x])
    BY <2>1, SubscribeBinance
  <2>3. wire' = [wire EXCEPT ![x] = wire[x]]
    BY <2>1 DEF FeedsInv, Types
  <2>4. x # KRAKEN
    BY <2>1 DEF KRAKEN, BINANCE
  <2>5. ChannelsDistinct' /\ ChannelsResolve'
    BY <1>3, <2>1, <2>4, OtherChannels
  <2> QED
    BY <1>1, <1>5, <2>1, <2>2, <2>3, <2>5 DEF FeedsInv
<1>7. CASE r.stream = "level2_batch"
  <2>1. x = COINBASE /\ wire' = [wire EXCEPT ![x] = Append(wire[x], SnapshotOf(sym, 0))]
        /\ channel' = channel
    BY <1>2, <1>4, <1>7
  <2>2. x # BINANCE /\ x # KRAKEN /\ 0 \in Channels \cup {0}
    BY <2>1 DEF KRAKEN, BINANCE, COINBASE
  <2>3. Appends(x, sym, Append(wire[x], SnapshotOf(sym, 0)))
    BY <1>1, <2>2, SubscribeAppends
  <2>4. /\ Types' /\ WiresSound' /\ ThreadsSound' /\ UpdatesApplied' /\ BooksAgree'
        /\ \A f \in feeds \ {x} : wire'[f] = wire[f]
    BY <1>1, <1>5, <2>1, <2>3
  <2>5. ChannelsDistinct' /\ ChannelsResolve'
    BY <1>3, <2>1, <2>2, <2>4, OtherChannels
  <2> QED
    BY <2>4, <2>5 DEF FeedsInv
<1>8. CASE r.stream = "book"
  <2>1. PICK ch \in Channels \ {channel[s] : s \in Symbols} :
          /\ channel' = [channel EXCEPT ![sym] = ch]
          /\ wire' = [wire EXCEPT ![x] = @ \o <<StatusOf(sym, ch), SnapshotOf(sym, ch)>>]
    BY <1>2, <1>4, <1>8
  <2>2. x = KRAKEN
    BY <1>2, <1>8
  <2> DEFINE a == StatusOf(sym, ch)
             b == SnapshotOf(sym, ch)
             v == Append(Append(wire[KRAKEN], a), b)
  <2>3. a \in Msg /\ b \in Msg
    <3>1. KRAKEN # BINANCE /\ ch \in Channels \cup {0} /\ ch \in Channels
      BY DEF KRAKEN, BINANCE
    <3> QED
      BY <1>1, <2>2, <3>1, StatusMessage, SnapshotMessage DEF IsStatus, IsSnapshot, FeedsInv
  <2> HIDE DEF a, b
  <2>4. wire[KRAKEN] \o <<a, b>> = v
    BY <1>1, <2>2, <2>3
  <2>5. wire' = [wire EXCEPT ![KRAKEN] = v]
    BY <2>1, <2>2, <2>4 DEF a, b
  <2>6. Appends(KRAKEN, sym, v)
    BY <2>2, SubscribeKraken DEF a, b
  <2>7. channel' \in [Symbols -> Channels \cup {0}]
    BY <1>1, <2>1
  <2>8. Types' /\ WiresSound' /\ ThreadsSound' /\ UpdatesApplied' /\ BooksAgree'
    <3> HIDE DEF v
    <3> QED
      BY <1>5, <2>2, <2>5, <2>6, <2>7
  <2>9. ChannelsDistinct' /\ ChannelsResolve'
    BY <1>3, <2>1, <2>2, <2>5, SubscribeChannels DEF a, b
  <2> QED
    BY <2>8, <2>9 DEF FeedsInv
<1> QED
  BY <1>4, <1>6, <1>7, <1>8

LEMMA UnsubscribeStep ==
  ASSUME FeedsInv, NEW sym \in Symbols, Unsubscribe(sym)
  PROVE  FeedsInv'
<1> USE DEF FeedsInv
<1>1. /\ sym \in subscribed /\ subscribed' = subscribed \ {sym}
      /\ channel' = [channel EXCEPT ![sym] = 0] /\ clean' = clean \ {sym}
      /\ told' = [told EXCEPT ![sym] = Empty]
      /\ UNCHANGED <<feeds, market, wire, channel_map, order_books, io, refused>>
  BY Request DEF Unsubscribe, Types
<1>2. Symbols' = Symbols
  BY <1>1 DEF Symbols
<1>3. Types'
  <2>1. Empty \in Books
    BY FeedsAssumption DEF Empty, Books
  <2> QED
    BY <1>1, <1>2, <2>1 DEF Types
<1>4. WiresSound'
  BY <1>1 DEF WiresSound
<1>5. ThreadsSound' /\ UpdatesApplied'
  BY <1>1, ThreadsKept
<1>6. channel'[sym] = 0 /\ \A s \in Symbols \ {sym} : channel'[s] = channel[s]
  BY <1>1 DEF Types
<1>7. ChannelsDistinct'
  BY <1>1, <1>2, <1>6 DEF ChannelsDistinct
<1>8. ChannelsResolve'
  <2>1. ASSUME KRAKEN \in feeds, NEW s \in SymbolsOf[KRAKEN] \cap subscribed'
        PROVE  s \in subscribed /\ channel'[s] = channel[s]
    <3>1. s \in Symbols
      BY <2>1 DEF Symbols
    <3> QED
      BY <1>1, <1>6, <3>1
  <2> QED
    BY <1>1, <2>1 DEF ChannelsResolve
<1>9. BooksAgree'
  <2>1. \A s \in clean' : told'[s] = told[s] /\ s \in clean
    BY <1>1 DEF Types
  <2> QED
    BY <1>1, <2>1 DEF BooksAgree, CleanAgrees
<1> QED
  BY <1>3, <1>4, <1>5, <1>7, <1>8, <1>9

(* Steps of a thread that has an update, and of the application.           *)
LEMMA ExchangesKept ==
  ASSUME FeedsInv, UNCHANGED <<feeds, exchangeVars, wire, channel_map>>
  PROVE  Symbols' = Symbols /\ WiresSound' /\ ChannelsDistinct' /\ ChannelsResolve'
<1>1. Symbols' = Symbols
  BY DEF Symbols
<1> QED
  BY <1>1 DEF FeedsInv, WiresSound, ChannelsDistinct, ChannelsResolve, exchangeVars

LEMMA DoneStep ==
  ASSUME FeedsInv, NEW e \in feeds, Done(e)
  PROVE  FeedsInv'
<1> USE DEF FeedsInv
<1>1. /\ io[e].at = "callback" /\ io' = [io EXCEPT ![e] = Idle]
      /\ UNCHANGED <<feeds, exchangeVars, wire, channel_map, order_books, refused, clean>>
  BY DEF Done
<1>2. Symbols' = Symbols /\ WiresSound' /\ ChannelsDistinct' /\ ChannelsResolve'
  BY <1>1, ExchangesKept
<1>3. Idle.at = "idle" /\ Idle \in Io /\ Idle.sym = ""
  <2>1. << >> \in Seq(Level) /\ << >> \in Books \cup {<< >>, Astray} /\ "" \in AllSymbols \cup {""}
    OBVIOUS
  <2> QED
    BY <2>1 DEF Idle, Io
<1>4. io'[e] = Idle /\ \A f \in feeds \ {e} : io'[f] = io[f]
  BY <1>1 DEF Types
<1>5. Types'
  BY <1>1, <1>2, <1>3 DEF Types, exchangeVars
<1>6. ThreadsSound'
  <2>1. ASSUME NEW f \in feeds PROVE ThreadSound(f)'
    <3>1. CASE f = e
      BY <1>1, <1>3, <1>4, <3>1 DEF ThreadSound
    <3>2. CASE f # e
      <4>1. ThreadSound(f)
        BY DEF ThreadsSound
      <4> QED
        BY <1>1, <1>4, <3>2, <4>1 DEF ThreadSound
    <3> QED
      BY <3>1, <3>2
  <2> QED
    BY <1>1, <2>1 DEF ThreadsSound
<1>7. UpdatesApplied'
  <2>1. ASSUME NEW f \in feeds PROVE Applied(f)'
    <3>1. CASE f = e
      BY <1>1, <1>3, <1>4, <3>1 DEF Applied, Idle
    <3>2. CASE f # e
      BY <1>1, <1>4, <3>2 DEF UpdatesApplied, Applied
    <3> QED
      BY <3>1, <3>2
  <2> QED
    BY <1>1, <2>1 DEF UpdatesApplied
<1>8. BooksAgree'
  <2>1. ASSUME NEW f \in feeds, NEW s \in SymbolsOf[f] \cap clean PROVE CleanAgrees(f, s)'
    <3>1. CleanAgrees(f, s)
      BY DEF BooksAgree
    <3>2. CASE f # e
      BY <1>1, <1>4, <3>1, <3>2 DEF CleanAgrees, exchangeVars
    <3>3. CASE f = e
      <4>1. \A k : ~Leaves(io[e], s, k) /\ ~Leaves(Idle, s, k)
        BY <1>1, <1>3 DEF Leaves
      <4>2. \A k \in Keys : KeyAgrees(wire[e], Idle, order_books[s], refused[s], s, k, told[s][k])
        BY <3>1, <3>3, <4>1 DEF CleanAgrees, KeyAgrees
      <4> QED
        BY <1>1, <1>4, <3>1, <3>3, <4>2 DEF CleanAgrees, exchangeVars
    <3> QED
      BY <3>2, <3>3
  <2> QED
    BY <1>1, <2>1 DEF BooksAgree
<1> QED
  BY <1>2, <1>5, <1>6, <1>7, <1>8

LEMMA NotifyStep ==
  ASSUME FeedsInv, NEW e \in feeds, Notify(e)
  PROVE  FeedsInv'
<1> USE DEF FeedsInv
<1> DEFINE t == [io[e] EXCEPT !.at = "callback", !.snapshot = Top(order_books[io[e].sym], Depth)]
<1>1. /\ io[e].at = "apply" /\ io[e].levels = << >>
      /\ UNCHANGED <<feeds, exchangeVars, wire, channel_map, order_books, refused, clean>>
  BY DEF Notify
<1>2. Symbols' = Symbols /\ WiresSound' /\ ChannelsDistinct' /\ ChannelsResolve'
  BY <1>1, ExchangesKept
<1>3. io[e] \in Io /\ io[e].sym \in SymbolsOf[e] /\ order_books[io[e].sym] # NoBook
  BY <1>1 DEF Types, ThreadsSound, ThreadSound
<1>4. Top(order_books[io[e].sym], Depth) \in Books \cup {Astray}
  <2>1. order_books[io[e].sym] \in Books \cup {Astray}
    BY <1>3, SymbolsTyped DEF Types
  <2> QED
    BY <2>1, FeedsAssumption DEF Top, Books
<1>5. io' = [io EXCEPT ![e] = t]
  BY <1>3 DEF Notify, Types, Io
<1>6. /\ t \in Io /\ t.at = "callback" /\ t.sym = io[e].sym /\ t.levels = << >>
      /\ t.update = io[e].update /\ t.snapshot = Top(order_books[io[e].sym], Depth)
  BY <1>1, <1>3, <1>4 DEF Io
<1> HIDE DEF t
<1>7. io'[e] = t /\ \A f \in feeds \ {e} : io'[f] = io[f]
  BY <1>5 DEF Types
<1>8. Types'
  BY <1>1, <1>2, <1>5, <1>6 DEF Types, exchangeVars
<1>9. ThreadsSound'
  <2>1. ASSUME NEW f \in feeds PROVE ThreadSound(f)'
    <3>1. ThreadSound(f)
      BY DEF ThreadsSound
    <3>2. CASE f = e
      BY <1>1, <1>6, <1>7, <3>1, <3>2 DEF ThreadSound
    <3>3. CASE f # e
      BY <1>1, <1>7, <3>1, <3>3 DEF ThreadSound
    <3> QED
      BY <3>2, <3>3
  <2> QED
    BY <1>1, <2>1 DEF ThreadsSound
<1>10. UpdatesApplied'
  <2>1. ASSUME NEW f \in feeds PROVE Applied(f)'
    <3>1. Applied(f)
      BY DEF UpdatesApplied
    <3>2. CASE f = e
      BY <1>1, <1>6, <1>7, <3>1, <3>2 DEF Applied
    <3>3. CASE f # e
      BY <1>1, <1>7, <3>1, <3>3 DEF Applied
    <3> QED
      BY <3>2, <3>3
  <2> QED
    BY <1>1, <2>1 DEF UpdatesApplied
<1>11. BooksAgree'
  <2>1. ASSUME NEW f \in feeds, NEW s \in SymbolsOf[f] \cap clean PROVE CleanAgrees(f, s)'
    <3>1. CleanAgrees(f, s)
      BY DEF BooksAgree
    <3>2. CASE f # e
      BY <1>1, <1>7, <3>1, <3>2 DEF CleanAgrees, exchangeVars
    <3>3. CASE f = e
      <4>1. \A k : ~Leaves(io[e], s, k) /\ ~Leaves(t, s, k)
        BY <1>1, <1>6 DEF Leaves
      <4>2. \A k \in Keys : KeyAgrees(wire[e], t, order_books[s], refused[s], s, k, told[s][k])
        BY <3>1, <3>3, <4>1 DEF CleanAgrees, KeyAgrees
      <4> QED
        BY <1>1, <1>7, <3>1, <3>3, <4>2 DEF CleanAgrees, exchangeVars
    <3> QED
      BY <3>2, <3>3
  <2> QED
    BY <1>1, <2>1 DEF BooksAgree
<1> QED
  BY <1>2, <1>8, <1>9, <1>10, <1>11

LEMMA Apart ==
  ASSUME NEW e \in feeds, NEW f \in feeds, feeds \in Feeders, e # f,
         NEW s \in SymbolsOf[e], NEW t \in SymbolsOf[f]
  PROVE  s # t
<1>1. e \in DOMAIN SymbolsOf /\ f \in DOMAIN SymbolsOf
  BY FeedsAssumption
<1> QED
  BY <1>1, FeedsAssumption

(* What a level makes of the book: as long as the symbol stays clean, the  *)
(* level is written or refused.                                            *)
LEMMA LevelOutcome ==
  ASSUME FeedsInv, NEW e \in feeds, ApplyLevel(e)
  PROVE  \E new \in Books \cup {Astray}, newref \in SUBSET Keys :
           /\ order_books' = [order_books EXCEPT ![io[e].sym] = new]
           /\ refused' = [refused EXCEPT ![io[e].sym] = newref]
           /\ \/ /\ clean' = clean /\ new \in Books
                 /\ Wrote(order_books[io[e].sym], refused[io[e].sym], new, newref, Head(io[e].levels))
              \/ clean' = clean \ {io[e].sym}
<1> DEFINE L == io[e].levels
           sym == io[e].sym
           key == Head(L)[1]
           q == Head(L)[2]
           book == order_books[sym]
           ref == refused[sym]
<1>1. /\ io[e].at = "apply" /\ L # << >> /\ io[e] \in Io /\ sym \in Symbols /\ book # NoBook
      /\ order_books \in [Symbols -> Books \cup {NoBook, Astray}]
      /\ refused \in [Symbols -> SUBSET Keys]
  BY SymbolsTyped DEF ApplyLevel, FeedsInv, Types, ThreadsSound, ThreadSound
<1>2. L \in Seq(Level)
  BY <1>1 DEF Io
<1>3. Head(L) \in Level
  BY <1>1, <1>2, TailFacts
<1>4. key \in Keys /\ q \in FeedQuantities /\ ref \in SUBSET Keys
  BY <1>1, <1>3 DEF Level
<1>5. \/ /\ book # Astray /\ NoSlot(book, key)
         /\ refused' = [refused EXCEPT ![sym] = IF q = 0 THEN ref \ {key} ELSE ref \cup {key}]
         /\ order_books' = order_books /\ clean' = clean
      \/ /\ book # Astray
         /\ order_books' = [order_books EXCEPT ![sym] = [book EXCEPT ![key] = q]]
         /\ refused' = [refused EXCEPT ![sym] = ref \ {key}] /\ clean' = clean
      \/ /\ order_books' = [order_books EXCEPT ![sym] = Astray]
         /\ clean' = clean \ {sym} /\ refused' = refused
  BY <1>1 DEF ApplyLevel
<1> HIDE DEF book, ref, key, q, sym
<1>6. CASE /\ book # Astray /\ NoSlot(book, key)
           /\ refused' = [refused EXCEPT ![sym] = IF q = 0 THEN ref \ {key} ELSE ref \cup {key}]
           /\ order_books' = order_books /\ clean' = clean
  <2>1. PICK newref : newref = IF q = 0 THEN ref \ {key} ELSE ref \cup {key}
    OBVIOUS
  <2>2. newref \in SUBSET Keys /\ book \in Books /\ book[key] = 0
    BY <1>1, <1>4, <1>6, <2>1 DEF book, NoSlot
  <2>3. order_books' = [order_books EXCEPT ![sym] = book]
    BY <1>1, <1>6 DEF book
  <2>4. Wrote(book, ref, book, newref, Head(L))
    <3>1. \A k \in Keys \ {key} : k \in newref <=> k \in ref
      BY <2>1
    <3>2. Holds(book, newref, key, q)
      BY <2>1, <2>2 DEF Holds
    <3> QED
      BY <3>1, <3>2 DEF Wrote, key, q
  <2> QED
    BY <1>6, <2>1, <2>2, <2>3, <2>4 DEF book, ref, sym
<1>7. CASE /\ book # Astray
           /\ order_books' = [order_books EXCEPT ![sym] = [book EXCEPT ![key] = q]]
           /\ refused' = [refused EXCEPT ![sym] = ref \ {key}] /\ clean' = clean
  <2>1. PICK new : new = [book EXCEPT ![key] = q]
    OBVIOUS
  <2>2. book \in [Keys -> FeedQuantities]
    BY <1>1, <1>7 DEF book, Books
  <2>3. new \in Books /\ ref \ {key} \in SUBSET Keys
    BY <1>4, <2>1, <2>2 DEF Books
  <2>4. Wrote(book, ref, new, ref \ {key}, Head(L))
    <3>1. \A k \in Keys \ {key} : new[k] = book[k] /\ (k \in ref \ {key} <=> k \in ref)
      BY <2>1, <2>2
    <3>2. Holds(new, ref \ {key}, key, q)
      BY <1>4, <2>1, <2>2 DEF Holds
    <3> QED
      BY <3>1, <3>2 DEF Wrote, key, q
  <2> QED
    BY <1>7, <2>1, <2>3, <2>4 DEF book, ref, sym
<1>8. CASE /\ order_books' = [order_books EXCEPT ![sym] = Astray]
           /\ clean' = clean \ {sym} /\ refused' = refused
  <2>1. refused' = [refused EXCEPT ![sym] = ref]
    BY <1>1, <1>8 DEF ref
  <2> QED
    BY <1>4, <1>8, <2>1 DEF sym
<1> QED
  BY <1>5, <1>6, <1>7, <1>8

LEMMA ApplyLevelStep ==
  ASSUME FeedsInv, NEW e \in feeds, ApplyLevel(e)
  PROVE  FeedsInv'
<1> USE DEF FeedsInv
<1> DEFINE L == io[e].levels
           U == io[e].update
           sym == io[e].sym
           book == order_books[sym]
           t == [io[e] EXCEPT !.levels = Tail(@)]
<1>1. /\ io[e].at = "apply" /\ L # << >>
      /\ UNCHANGED <<feeds, exchangeVars, wire, channel_map>>
  BY DEF ApplyLevel
<1>2. Symbols' = Symbols /\ WiresSound' /\ ChannelsDistinct' /\ ChannelsResolve'
  BY <1>1, ExchangesKept
<1>3. /\ io[e] \in Io /\ sym \in SymbolsOf[e] /\ book # NoBook /\ OneEach(U)
      /\ \A i \in DOMAIN L : \E j \in DOMAIN U : L[i] = U[j]
  BY <1>1 DEF Types, ThreadsSound, ThreadSound
<1>4. sym \in Symbols /\ book \in Books \cup {Astray} /\ refused \in [Symbols -> SUBSET Keys]
  BY <1>3, SymbolsTyped DEF Types
<1>5. L \in Seq(Level) /\ U \in Seq(Level)
  BY <1>3 DEF Io
<1>6. /\ Tail(L) \in Seq(Level) /\ Len(L) \in Nat /\ Len(L) >= 1 /\ Head(L) = L[1] /\ Head(L) \in Level
      /\ DOMAIN L = 1..Len(L) /\ DOMAIN Tail(L) = 1..(Len(L) - 1)
      /\ \A i \in 1..(Len(L) - 1) : Tail(L)[i] = L[i + 1]
  BY <1>1, <1>5, TailFacts
<1>7. /\ io' = [io EXCEPT ![e] = t]
      /\ t \in Io /\ t.at = "apply" /\ t.sym = sym /\ t.levels = Tail(L) /\ t.update = U
  BY <1>1, <1>3, <1>6 DEF ApplyLevel, Types, Io
<1> HIDE DEF t
<1>8. Head(L)[1] \in Keys /\ Head(L)[2] \in FeedQuantities
  BY <1>6 DEF Level
<1>9. PICK new \in Books \cup {Astray}, newref \in SUBSET Keys :
        /\ order_books' = [order_books EXCEPT ![sym] = new]
        /\ refused' = [refused EXCEPT ![sym] = newref]
        /\ \/ clean' = clean /\ new \in Books /\ Wrote(book, refused[sym], new, newref, Head(L))
           \/ clean' = clean \ {sym}
  BY LevelOutcome
<1>10. /\ new # NoBook /\ clean' \subseteq clean
       /\ sym \in clean' => new \in Books /\ Wrote(book, refused[sym], new, newref, Head(L))
  BY <1>9, FeedsAssumption DEF Books
<1>11. /\ io'[e] = t /\ \A f \in feeds \ {e} : io'[f] = io[f]
       /\ order_books'[sym] = new /\ refused'[sym] = newref
       /\ \A s \in Symbols \ {sym} : order_books'[s] = order_books[s] /\ refused'[s] = refused[s]
  BY <1>4, <1>7, <1>9 DEF Types
<1>12. Types'
  BY <1>1, <1>2, <1>4, <1>7, <1>9, <1>10 DEF Types, exchangeVars
<1>13. ASSUME NEW f \in feeds \ {e}, NEW s \in SymbolsOf[f]
       PROVE  /\ s # sym /\ s \in Symbols
              /\ order_books'[s] = order_books[s] /\ refused'[s] = refused[s]
  <2>1. s # sym
    BY <1>3, Apart DEF Types
  <2>2. s \in Symbols
    BY SymbolsTyped DEF Types
  <2> QED
    BY <1>11, <2>1, <2>2
<1>14. ThreadsSound'
  <2>1. ASSUME NEW f \in feeds PROVE ThreadSound(f)'
    <3>1. ThreadSound(f)
      BY DEF ThreadsSound
    <3>2. CASE f = e
      <4>1. ASSUME NEW i \in DOMAIN t.levels PROVE \E j \in DOMAIN U : t.levels[i] = U[j]
        <5>1. i + 1 \in DOMAIN L /\ Tail(L)[i] = L[i + 1]
          BY <1>6, <1>7
        <5> QED
          BY <1>3, <1>7, <5>1
      <4>2. /\ io'[f] = t /\ t.at = "apply" /\ t.sym \in SymbolsOf[f] /\ OneEach(t.update)
            /\ order_books'[t.sym] # NoBook
        BY <1>3, <1>7, <1>10, <1>11, <3>2
      <4>3. \A i \in DOMAIN t.levels : \E j \in DOMAIN t.update : t.levels[i] = t.update[j]
        BY <1>7, <4>1
      <4> QED
        BY ONLY <4>2, <4>3 DEF ThreadSound
    <3>3. CASE f # e
      BY <1>1, <1>11, <1>13, <3>1, <3>3 DEF ThreadSound
    <3> QED
      BY <3>2, <3>3
  <2> QED
    BY <1>1, <2>1 DEF ThreadsSound
<1>15. UpdatesApplied'
  <2>1. ASSUME NEW f \in feeds PROVE Applied(f)'
    <3>1. Applied(f)
      BY DEF UpdatesApplied
    <3>2. CASE f = e
      <4>0. /\ io'[f] = t /\ t.at = "apply" /\ t.sym = sym /\ t.update = U /\ t.levels = Tail(L)
            /\ order_books'[t.sym] = new /\ refused'[t.sym] = newref
        BY <1>1, <1>7, <1>11, <3>2
      <4>1. SUFFICES ASSUME sym \in clean', NEW i \in DOMAIN U
                     PROVE  \/ \E j \in DOMAIN Tail(L) : Tail(L)[j] = U[i]
                            \/ Holds(new, newref, U[i][1], U[i][2])
        <5>1. t.sym \in clean' => \A i \in DOMAIN t.update :
                \/ \E j \in DOMAIN t.levels : t.levels[j] = t.update[i]
                \/ Holds(new, newref, t.update[i][1], t.update[i][2])
          BY <4>0, <4>1
        <5>2. t.at # "callback"
          BY <4>0
        <5> QED
          BY ONLY <4>0, <5>1, <5>2 DEF Applied
      <4>2. U[i][1] \in Keys /\ U[i] \in Level
        BY <1>5 DEF Level
      <4>w. sym \in clean /\ Wrote(book, refused[sym], new, newref, Head(L))
        BY <1>10, <4>1
      <4>3. CASE \E j \in DOMAIN L : L[j] = U[i]
        <5>1. PICK j \in DOMAIN L : L[j] = U[i]
          BY <4>3
        <5>2. CASE j = 1
          BY <1>6, <4>w, <5>1, <5>2 DEF Wrote
        <5>3. CASE j # 1
          <6>1. j - 1 \in DOMAIN Tail(L) /\ (j - 1) + 1 = j
            BY <1>6, <5>3
          <6>2. Tail(L)[j - 1] = U[i]
            BY <1>6, <5>1, <6>1
          <6> QED
            BY <6>1, <6>2
        <5> QED
          BY <5>2, <5>3
      <4>4. CASE Holds(book, refused[sym], U[i][1], U[i][2])
        <5>1. CASE U[i][1] = Head(L)[1]
          <6>1. PICK j \in DOMAIN U : Head(L) = U[j]
            BY <1>3, <1>6
          <6>2. U[j] = U[i]
            BY <1>3, <5>1, <6>1 DEF OneEach
          <6> QED
            BY <4>w, <6>1, <6>2 DEF Wrote
        <5>2. CASE U[i][1] # Head(L)[1]
          <6>1. /\ new[U[i][1]] = book[U[i][1]]
                /\ U[i][1] \in newref <=> U[i][1] \in refused[sym]
            BY <4>2, <4>w, <5>2 DEF Wrote
          <6> QED
            BY <4>4, <6>1 DEF Holds
        <5> QED
          BY <5>1, <5>2
      <4>5. \/ \E j \in DOMAIN L : L[j] = U[i]
            \/ Holds(book, refused[sym], U[i][1], U[i][2])
        BY <1>1, <3>1, <3>2, <4>w DEF Applied
      <4> QED
        BY <4>3, <4>4, <4>5
    <3>3. CASE f # e
      <4>1. io[f].at # "idle" => io[f].sym \in SymbolsOf[f]
        BY DEF ThreadsSound, ThreadSound
      <4>2. io[f].at # "idle" =>
              order_books'[io[f].sym] = order_books[io[f].sym] /\ refused'[io[f].sym] = refused[io[f].sym]
        BY <1>13, <3>3, <4>1
      <4>3. io'[f] = io[f] /\ clean' \subseteq clean
        BY <1>10, <1>11, <3>3
      <4> QED
        BY <3>1, <4>2, <4>3 DEF Applied
    <3> QED
      BY <3>2, <3>3
  <2> QED
    BY <1>1, <2>1 DEF UpdatesApplied
<1>16. BooksAgree'
  <2>1. ASSUME NEW f \in feeds, NEW s \in SymbolsOf[f] \cap clean' PROVE CleanAgrees(f, s)'
    <3>1. CleanAgrees(f, s)
      BY <1>10 DEF BooksAgree
    <3>2. CASE f # e
      BY <1>1, <1>11, <1>13, <3>1, <3>2 DEF CleanAgrees, exchangeVars
    <3>3. CASE f = e /\ s # sym
      <4>1. s \in Symbols
        BY SymbolsTyped DEF Types
      <4>2. \A k : ~Leaves(io[e], s, k) /\ ~Leaves(t, s, k)
        BY <1>7, <3>3 DEF Leaves
      <4>3. \A k \in Keys : KeyAgrees(wire[e], t, order_books[s], refused[s], s, k, told[s][k])
        BY <3>1, <3>3, <4>2 DEF CleanAgrees, KeyAgrees
      <4> QED
        BY <1>1, <1>11, <3>1, <3>3, <4>1, <4>3 DEF CleanAgrees, exchangeVars
    <3>4. CASE f = e /\ s = sym
      <4>0. new \in Books /\ Wrote(book, refused[sym], new, newref, Head(L))
        BY <1>10, <3>4
      <4>1. ASSUME NEW k \in Keys PROVE KeyAgrees(wire[e], t, new, newref, sym, k, told[sym][k])
        <5>1. KeyAgrees(wire[e], io[e], book, refused[sym], sym, k, told[sym][k])
          BY <3>1, <3>4 DEF CleanAgrees
        <5> HIDE DEF book, sym, L
        <5>2. PICK r, b, ref, q : r = io[e] /\ b = book /\ ref = refused[sym] /\ q = told[sym][k]
          OBVIOUS
        <5>3. r.at = "apply" /\ r.sym = sym /\ r.levels \in Seq(Level) /\ r.levels # << >> /\ r.levels = L
          BY <1>1, <1>5, <5>2 DEF sym, L
        <5> QED
          BY <1>7, <4>0, <5>1, <5>2, <5>3, WriteLevel
      <4>2. \A k \in Keys : KeyAgrees(wire[e], t, new, newref, s, k, told[s][k])
        BY <3>4, <4>1
      <4> QED
        BY <1>1, <1>11, <3>1, <3>4, <4>0, <4>2 DEF CleanAgrees, exchangeVars
    <3> QED
      BY <3>2, <3>3, <3>4
  <2> QED
    BY <1>1, <2>1 DEF BooksAgree
<1> QED
  BY <1>2, <1>12, <1>14, <1>15, <1>16

(* The application changes a book as a whole.                              *)
LEMMA BookSet ==
  ASSUME FeedsInv, NEW sym \in Symbols, NEW b \in Books \cup {NoBook, Astray},
         order_books' = [order_books EXCEPT ![sym] = b],
         b = NoBook => \A e \in feeds : io[e].at = "idle",
         clean' \subseteq clean, sym \notin clean',
         UNCHANGED <<feeds, exchangeVars, wire, channel_map, io, refused>>
  PROVE  FeedsInv'
<1> USE DEF FeedsInv
<1>1. Symbols' = Symbols /\ WiresSound' /\ ChannelsDistinct' /\ ChannelsResolve'
  BY ExchangesKept
<1>2. order_books'[sym] = b /\ \A s \in Symbols \ {sym} : order_books'[s] = order_books[s]
  BY DEF Types
<1>3. Types'
  BY <1>1 DEF Types, exchangeVars
<1>4. ASSUME NEW e \in feeds, NEW s \in SymbolsOf[e] PROVE s \in Symbols
  BY SymbolsTyped DEF Types
<1>5. ThreadsSound'
  <2>1. ASSUME NEW e \in feeds PROVE ThreadSound(e)'
    <3>1. ThreadSound(e)
      BY DEF ThreadsSound
    <3>2. io[e].at # "idle" => order_books'[io[e].sym] # NoBook
      <4>1. io[e].at # "idle" => io[e].sym \in Symbols
        BY <1>4, <3>1 DEF ThreadSound
      <4> QED
        BY <1>2, <3>1, <4>1 DEF ThreadSound
    <3> QED
      BY <3>1, <3>2 DEF ThreadSound
  <2> QED
    BY <2>1 DEF ThreadsSound
<1>6. UpdatesApplied'
  <2>1. ASSUME NEW e \in feeds PROVE Applied(e)'
    <3>1. Applied(e)
      BY DEF UpdatesApplied
    <3>2. io[e].sym \in clean' => order_books'[io[e].sym] = order_books[io[e].sym] /\ io[e].sym \in clean
      BY <1>2 DEF Types
    <3> QED
      BY <3>1, <3>2 DEF Applied
  <2> QED
    BY <2>1 DEF UpdatesApplied
<1>7. BooksAgree'
  <2>1. ASSUME NEW e \in feeds, NEW s \in SymbolsOf[e] \cap clean' PROVE CleanAgrees(e, s)'
    <3>1. CleanAgrees(e, s) /\ order_books'[s] = order_books[s]
      BY <1>2, <1>4 DEF BooksAgree
    <3> QED
      BY <3>1 DEF CleanAgrees, exchangeVars
  <2> QED
    BY <2>1 DEF BooksAgree
<1> QED
  BY <1>1, <1>3, <1>5, <1>6, <1>7

LEMMA OwnerStep ==
  ASSUME FeedsInv, NEW sym \in Symbols,
         create_order_book(sym) \/ remove_order_book(sym) \/ clear_order_book(sym)
  PROVE  FeedsInv'
<1>1. Empty \in Books
  BY FeedsAssumption DEF Empty, Books
<1>2. CASE create_order_book(sym)
  <2>1. order_books[sym] = NoBook /\ order_books' = [order_books EXCEPT ![sym] = Empty]
        /\ UNCHANGED <<feeds, exchangeVars, wire, channel_map, io, refused, clean>>
    BY <1>2 DEF create_order_book
  <2>2. sym \notin clean
    <3>1. NoBook \notin Books
      BY FeedsAssumption DEF Books
    <3> QED
      BY <2>1, <3>1, ExchangeOf DEF FeedsInv, Types, BooksAgree, CleanAgrees
  <2>3. Empty # NoBook
    BY <1>1, FeedsAssumption DEF Books
  <2> QED
    BY <1>1, <2>1, <2>2, <2>3, BookSet
<1>3. CASE remove_order_book(sym)
  <2>1. Holders = {} /\ order_books' = [order_books EXCEPT ![sym] = NoBook] /\ clean' = clean \ {sym}
        /\ UNCHANGED <<feeds, exchangeVars, wire, channel_map, io, refused>>
    BY <1>3 DEF remove_order_book
  <2>2. \A e \in feeds : io[e].at = "idle"
    BY <2>1 DEF Holders
  <2> QED
    BY <2>1, <2>2, BookSet
<1>4. CASE clear_order_book(sym)
  <2>1. PICK left \in {Empty, Astray} : order_books' = [order_books EXCEPT ![sym] = left]
    BY <1>4 DEF clear_order_book
  <2>2. left # NoBook /\ left \in Books \cup {NoBook, Astray}
    BY <1>1, <2>1, FeedsAssumption DEF Books
  <2>3. clean' = clean \ {sym} /\ UNCHANGED <<feeds, exchangeVars, wire, channel_map, io, refused>>
    BY <1>4 DEF clear_order_book
  <2> QED
    BY <2>1, <2>2, <2>3, BookSet
<1> QED
  BY <1>2, <1>3, <1>4

(* What a handler makes of a message: its levels under its own pair, or    *)
(* nothing.                                                                *)
LEMMA HandledMessage ==
  ASSUME NEW e, FeedsInv, e \in feeds, wire[e] # << >>
  PROVE  Handled(e, Head(wire[e])) =
           IF Head(wire[e]).kind \in Data /\ ~Head(wire[e]).bad
           THEN {Normalized(Head(wire[e]).pair, Head(wire[e]).levels)} ELSE {}
<1> DEFINE m == Head(wire[e])
<1>1. /\ m \in Msg /\ m = wire[e][1] /\ 1 \in DOMAIN wire[e] /\ MessageSound(e, m)
      /\ e \in {BINANCE, COINBASE, KRAKEN}
  <2>1. wire[e] \in Seq(Msg) /\ e \in {BINANCE, COINBASE, KRAKEN}
    BY FeedsAssumption DEF FeedsInv, Types
  <2>2. m \in Msg /\ m = wire[e][1] /\ 1 \in DOMAIN wire[e]
    BY <2>1, TailFacts
  <2> QED
    BY <2>1, <2>2 DEF FeedsInv, WiresSound
<1> HIDE DEF m
<1>2. m.kind \in {"snapshot", "update", "subscriptionStatus", "notice"} /\ m.bad \in BOOLEAN
  BY <1>1 DEF Msg, Kinds, Data
<1>3. CASE e = BINANCE
  <2>1. m.kind # "snapshot"
    BY <1>1, <1>3 DEF MessageSound
  <2>2. Handled(e, m) = binance_on_message(m)
    BY <1>3 DEF Handled, BINANCE, COINBASE, KRAKEN
  <2>3. Handled(e, m) = IF m.kind \in Data /\ ~m.bad THEN {Normalized(m.pair, m.levels)} ELSE {}
    BY <1>2, <2>1, <2>2 DEF binance_on_message, parse_depth_update, Parsed, Data
  <2> QED
    BY <2>3 DEF m
<1>4. CASE e = COINBASE
  <2>1. Handled(e, m) = coinbase_on_message(m)
    BY <1>4 DEF Handled, BINANCE, COINBASE, KRAKEN
  <2>2. Handled(e, m) = IF m.kind \in Data /\ ~m.bad THEN {Normalized(m.pair, m.levels)} ELSE {}
    BY <1>2, <2>1 DEF coinbase_on_message, coinbase_parse_snapshot, parse_l2update, Parsed, Data
  <2> QED
    BY <2>2 DEF m
<1>5. CASE e = KRAKEN
  <2>1. Handled(e, m) = kraken_on_message(m)
    BY <1>5 DEF Handled, BINANCE, COINBASE, KRAKEN
  <2>2. m.kind \in Data => m.channel \in DOMAIN channel_map /\ channel_map[m.channel] = m.pair
    <3>1. SUFFICES ASSUME m.kind \in Data
                   PROVE  m.channel \in DOMAIN channel_map /\ channel_map[m.channel] = m.pair
      OBVIOUS
    <3>2. wire[KRAKEN] \in Seq(Msg) /\ Resolves(wire[KRAKEN], channel_map, 1, m.channel, m.pair)
      BY <1>1, <1>5, <3>1 DEF FeedsInv, Types, ChannelsResolve, DataResolves
    <3> QED
      BY <3>2, ResolvesFirst
  <2>3. Handled(e, m) = IF m.kind \in Data /\ ~m.bad THEN {Normalized(m.pair, m.levels)} ELSE {}
    BY <1>2, <2>1, <2>2 DEF kraken_on_message, kraken_parse_snapshot, parse_update, Parsed, Data
  <2> QED
    BY <2>3 DEF m
<1> QED
  BY <1>1, <1>3, <1>4, <1>5

(* What taking a message leaves of the wires and the channels.             *)
LEMMA MessageTaken ==
  ASSUME FeedsInv, NEW e \in feeds, wire[e] # << >>,
         wire' = [wire EXCEPT ![e] = Tail(@)], UNCHANGED <<feeds, exchangeVars>>,
         channel_map' = IF e = KRAKEN THEN kraken_channels(Head(wire[e])) ELSE channel_map
  PROVE  /\ Symbols' = Symbols /\ wire' \in [feeds -> Seq(Msg)]
         /\ channel_map' \in [DOMAIN channel_map' -> SymbolsOf[KRAKEN]]
         /\ WiresSound' /\ ChannelsDistinct' /\ ChannelsResolve'
<1> DEFINE w == wire[e]
<1>1. /\ w \in Seq(Msg) /\ Tail(w) \in Seq(Msg) /\ Len(w) \in Nat /\ Len(w) >= 1 /\ Head(w) = w[1]
      /\ DOMAIN w = 1..Len(w) /\ DOMAIN Tail(w) = 1..(Len(w) - 1) /\ Len(Tail(w)) = Len(w) - 1
      /\ \A i \in 1..(Len(w) - 1) : Tail(w)[i] = w[i + 1]
  <2>1. w \in Seq(Msg)
    BY DEF FeedsInv, Types
  <2> QED
    BY <2>1, TailFacts
<1>2. SeqSound(e, w)
  BY DEF FeedsInv, WiresSound, SeqSound
<1>3. wire' = [wire EXCEPT ![e] = Tail(w)] /\ wire'[e] = Tail(w)
      /\ \A f \in feeds \ {e} : wire'[f] = wire[f]
  BY DEF FeedsInv, Types
<1>4. Symbols' = Symbols
  BY DEF Symbols
<1>5. ChannelsDistinct'
  BY <1>4 DEF FeedsInv, ChannelsDistinct, exchangeVars
<1> HIDE DEF w
<1>6. SeqSound(e, Tail(w))
  BY <1>1, <1>2 DEF SeqSound
<1>7. wire' \in [feeds -> Seq(Msg)] /\ WiresSound'
  BY <1>1, <1>3, <1>6, WiresKept DEF FeedsInv
<1>8. channel_map' \in [DOMAIN channel_map' -> SymbolsOf[KRAKEN]]
  <2>1. channel_map \in [DOMAIN channel_map -> SymbolsOf[KRAKEN]]
    BY DEF FeedsInv, Types
  <2>2. CASE e = KRAKEN /\ Head(w).kind = "subscriptionStatus"
    <3>1. MessageSound(e, Head(w))
      BY <1>1, <1>2 DEF SeqSound
    <3>2. Head(w).pair \in SymbolsOf[KRAKEN]
      BY <2>2, <3>1 DEF MessageSound
    <3> QED
      BY <2>1, <2>2, <3>2 DEF kraken_channels, w
  <2>3. CASE ~(e = KRAKEN /\ Head(w).kind = "subscriptionStatus")
    <3>1. channel_map' = channel_map
      BY <2>3 DEF kraken_channels, w
    <3> QED
      BY <2>1, <3>1
  <2> QED
    BY <2>2, <2>3
<1>9. ChannelsResolve'
  <2>1. CASE e # KRAKEN
    BY <1>3, <2>1 DEF FeedsInv, ChannelsResolve, exchangeVars
  <2>2. CASE e = KRAKEN
    <3> DEFINE map == kraken_channels(Head(w))
    <3>1. w = wire[KRAKEN] /\ channel_map' = map /\ wire'[KRAKEN] = Tail(w) /\ w # << >>
      BY <1>3, <2>2 DEF w
    <3>2. ASSUME NEW i \in DOMAIN Tail(w), Tail(w)[i].kind \in Data
          PROVE  Resolves(Tail(w), map, i, Tail(w)[i].channel, Tail(w)[i].pair)
      <4>1. i + 1 \in DOMAIN w /\ Tail(w)[i] = w[i + 1] /\ i + 1 \in 2..(Len(w) + 1) /\ (i + 1) - 1 = i
        BY <1>1
      <4>2. Resolves(w, channel_map, i + 1, w[i + 1].channel, w[i + 1].pair)
        BY <2>2, <3>1, <3>2, <4>1 DEF FeedsInv, ChannelsResolve, DataResolves
      <4>3. Resolves(Tail(w), map, (i + 1) - 1, w[i + 1].channel, w[i + 1].pair)
        BY <1>1, <3>1, <4>1, <4>2, ResolvesTail
      <4> QED
        BY <4>1, <4>3
    <3>3. ASSUME NEW s \in SymbolsOf[KRAKEN] \cap subscribed
          PROVE  Resolves(Tail(w), map, Len(Tail(w)) + 1, channel[s], s)
      <4>1. Len(w) + 1 \in 2..(Len(w) + 1) /\ (Len(w) + 1) - 1 = Len(Tail(w)) + 1
        BY <1>1
      <4>2. Resolves(w, channel_map, Len(w) + 1, channel[s], s)
        BY <2>2, <3>1 DEF FeedsInv, ChannelsResolve
      <4>3. Resolves(Tail(w), map, (Len(w) + 1) - 1, channel[s], s)
        BY <1>1, <3>1, <4>1, <4>2, ResolvesTail
      <4> QED
        BY <4>1, <4>3
    <3> HIDE DEF map
    <3>4. DataResolves(Tail(w), map)
      BY <3>2 DEF DataResolves
    <3> QED
      BY <3>1, <3>3, <3>4 DEF ChannelsResolve, exchangeVars
  <2> QED
    BY <2>1, <2>2
<1> QED
  BY <1>4, <1>5, <1>7, <1>8, <1>9

(* What it leaves of the threads: nothing, or the levels to apply.         *)
Taken(msg) == BidsAsks(msg.pair, msg.levels)

Applying(msg) == [at |-> "apply", sym |-> msg.pair, levels |-> Taken(msg), update |-> Taken(msg),
                  snapshot |-> << >>]

LEMMA ProcessOutcome ==
  ASSUME FeedsInv, NEW e \in feeds, process_update(e)
  PROVE  LET m == Head(wire[e])
         IN  \/ /\ m.kind \notin Data \/ m.bad
                /\ io' = io /\ clean' = clean
             \/ /\ m.kind \in Data /\ ~m.bad /\ order_books[m.pair] = NoBook
                /\ io' = io /\ clean' = clean \ {m.pair}
             \/ /\ m.kind \in Data /\ ~m.bad /\ order_books[m.pair] # NoBook
                /\ io' = [io EXCEPT ![e] = Applying(m)] /\ clean' = clean
<1> DEFINE m == Head(wire[e])
           u == Normalized(m.pair, m.levels)
           has == {x \in Handled(e, m) : order_books[x.symbol] # NoBook}
<1>1. wire[e] # << >> /\ io \in [feeds -> Io]
  BY DEF process_update, FeedsInv, Types
<1>2. Handled(e, m) = IF m.kind \in Data /\ ~m.bad THEN {u} ELSE {}
  BY <1>1, HandledMessage
<1>3. /\ io' = [io EXCEPT ![e] =
           IF has = {} THEN @
           ELSE LET x == CHOOSE y \in has : TRUE
                IN  [at |-> "apply", sym |-> x.symbol, levels |-> x.bids \o x.asks,
                     update |-> x.bids \o x.asks, snapshot |-> << >>]]
      /\ clean' = clean \ {x.symbol : x \in Handled(e, m) \ has}
  BY DEF process_update
<1>4. u.symbol = m.pair
  BY DEF Normalized
<1> HIDE DEF m, u
<1>5. CASE m.kind \notin Data \/ m.bad
  <2>1. Handled(e, m) = {} /\ has = {}
    BY <1>2, <1>5
  <2>2. io' = io /\ clean' = clean
    BY <1>1, <1>3, <2>1
  <2> QED
    BY <1>5, <2>2 DEF m
<1>6. CASE m.kind \in Data /\ ~m.bad /\ order_books[m.pair] = NoBook
  <2>1. Handled(e, m) = {u} /\ has = {}
    BY <1>2, <1>4, <1>6
  <2>2. io' = io
    BY <1>1, <1>3, <2>1
  <2>3. {x.symbol : x \in Handled(e, m) \ has} = {m.pair}
    BY <1>4, <2>1
  <2> QED
    BY <1>3, <1>6, <2>2, <2>3 DEF m
<1>7. CASE m.kind \in Data /\ ~m.bad /\ order_books[m.pair] # NoBook
  <2>1. Handled(e, m) = {u} /\ has = {u}
    BY <1>2, <1>4, <1>7
  <2>2. {x.symbol : x \in Handled(e, m) \ has} = {} /\ (CHOOSE y \in has : TRUE) = u
    BY <2>1
  <2>3. clean' = clean
    BY <1>3, <2>2
  <2>4. io' = [io EXCEPT ![e] = Applying(m)]
    <3>1. io' = [io EXCEPT ![e] =
                   [at |-> "apply", sym |-> u.symbol, levels |-> u.bids \o u.asks,
                    update |-> u.bids \o u.asks, snapshot |-> << >>]]
      <4> HIDE DEF has
      <4> QED
        BY <1>3, <2>1, <2>2
    <3>2. u.bids \o u.asks = Taken(m)
      BY DEF Taken, BidsAsks, u
    <3> QED
      BY <1>4, <3>1, <3>2 DEF Applying
  <2> QED
    BY <1>7, <2>3, <2>4 DEF m
<1> QED
  BY <1>5, <1>6, <1>7

(* A message is taken without effect on the threads.                       *)
LEMMA ProcessDropped ==
  ASSUME FeedsInv, NEW e \in feeds, wire[e] # << >>, io[e].at = "idle",
         wire' = [wire EXCEPT ![e] = Tail(@)], UNCHANGED <<feeds, exchangeVars, order_books, refused, io>>,
         channel_map' = IF e = KRAKEN THEN kraken_channels(Head(wire[e])) ELSE channel_map,
         clean' \subseteq clean,
         Head(wire[e]).kind \in Data /\ ~Head(wire[e]).bad => Head(wire[e]).pair \notin clean'
  PROVE  FeedsInv'
<1> DEFINE w == wire[e]
           m == Head(w)
<1>1. /\ Symbols' = Symbols /\ wire' \in [feeds -> Seq(Msg)]
      /\ channel_map' \in [DOMAIN channel_map' -> SymbolsOf[KRAKEN]]
      /\ WiresSound' /\ ChannelsDistinct' /\ ChannelsResolve'
  BY MessageTaken
<1>2. Types'
  BY <1>1 DEF FeedsInv, Types, exchangeVars
<1>3. ThreadsSound' /\ UpdatesApplied'
  BY ThreadsKept
<1>4. /\ w \in Seq(Msg) /\ w # << >> /\ MessageSound(e, m) /\ m = w[1] /\ 1 \in DOMAIN w
      /\ DOMAIN w = 1..Len(w) /\ DOMAIN Tail(w) = 1..(Len(w) - 1) /\ Len(w) \in Nat
      /\ \A i \in 1..(Len(w) - 1) : Tail(w)[i] = w[i + 1]
  <2>1. w \in Seq(Msg)
    BY DEF FeedsInv, Types
  <2>2. m = w[1] /\ 1 \in DOMAIN w
    BY <2>1, TailFacts
  <2> QED
    BY <2>1, <2>2, TailFacts DEF FeedsInv, WiresSound
<1>5. wire'[e] = Tail(w) /\ \A f \in feeds \ {e} : wire'[f] = wire[f]
  BY DEF FeedsInv, Types
<1> HIDE DEF w, m
<1>6. ASSUME NEW f \in feeds, NEW s \in SymbolsOf[f] \cap clean' PROVE CleanAgrees(f, s)'
  <2>1. CleanAgrees(f, s)
    BY DEF FeedsInv, BooksAgree
  <2>2. CASE f # e
    BY <1>5, <2>1, <2>2 DEF CleanAgrees, exchangeVars
  <2>3. CASE f = e
    <3>1. ASSUME NEW k \in Keys PROVE ~Mentions(m, s, k)
      <4>1. m.pair = s => ~m.bad
        BY <1>4, <2>1, <2>3 DEF CleanAgrees, w
      <4>2. m.pair = s => m.kind \notin Data
        BY <4>1 DEF m, w
      <4>3. m.pair = s => m.levels = << >>
        BY <1>4, <4>2 DEF MessageSound
      <4> QED
        BY <4>3 DEF Mentions
    <3>2. ASSUME NEW k \in Keys PROVE KeyAgrees(Tail(w), io[e], order_books[s], refused[s], s, k, told[s][k])
      <4>1. KeyAgrees(w, io[e], order_books[s], refused[s], s, k, told[s][k])
        BY <2>1, <2>3 DEF CleanAgrees, w
      <4> QED
        BY <1>4, <3>1, <4>1, TakeOther DEF m
    <3>3. \A i \in DOMAIN Tail(w) : Tail(w)[i].pair = s => ~Tail(w)[i].bad
      <4>1. \A i \in DOMAIN w : w[i].pair = s => ~w[i].bad
        BY <2>1, <2>3 DEF CleanAgrees, w
      <4> QED
        BY <1>4, <4>1
    <3> QED
      BY <1>5, <2>1, <2>3, <3>2, <3>3 DEF CleanAgrees, exchangeVars
  <2> QED
    BY <2>2, <2>3
<1>7. BooksAgree'
  BY <1>6 DEF BooksAgree
<1> QED
  BY <1>1, <1>2, <1>3, <1>7 DEF FeedsInv

(* The levels a thread is given are those of the message.                  *)
LEMMA TakenLevels ==
  ASSUME NEW m, m.levels \in Seq(Level)
  PROVE  /\ Taken(m) \in Seq(Level)
         /\ \A i \in DOMAIN Taken(m) : \E j \in DOMAIN m.levels : Taken(m)[i] = m.levels[j]
         /\ \A j \in DOMAIN m.levels : \E i \in DOMAIN Taken(m) : Taken(m)[i] = m.levels[j]
         /\ OneEach(m.levels) => OneEach(Taken(m))
<1>1. SameLevels(Taken(m), m.levels)
  BY LevelsNormalized DEF Taken
<1>2. ASSUME OneEach(m.levels), NEW i \in DOMAIN Taken(m), NEW j \in DOMAIN Taken(m),
             Taken(m)[i][1] = Taken(m)[j][1]
      PROVE  Taken(m)[i] = Taken(m)[j]
  <2>1. PICK x \in DOMAIN m.levels : Taken(m)[i] = m.levels[x]
    BY <1>1 DEF SameLevels
  <2>2. PICK y \in DOMAIN m.levels : Taken(m)[j] = m.levels[y]
    BY <1>1 DEF SameLevels
  <2>3. m.levels[x] = m.levels[y]
    BY <1>2, <2>1, <2>2 DEF OneEach
  <2> QED
    BY <2>1, <2>2, <2>3
<1>3. OneEach(m.levels) => OneEach(Taken(m))
  BY <1>2 DEF OneEach
<1> QED
  BY <1>1, <1>3 DEF SameLevels

(* A message is taken whose levels the thread is to apply.                 *)
LEMMA ProcessTaken ==
  ASSUME FeedsInv, NEW e \in feeds, wire[e] # << >>, io[e].at = "idle",
         wire' = [wire EXCEPT ![e] = Tail(@)], UNCHANGED <<feeds, exchangeVars, order_books, refused, clean>>,
         channel_map' = IF e = KRAKEN THEN kraken_channels(Head(wire[e])) ELSE channel_map,
         Head(wire[e]).kind \in Data, order_books[Head(wire[e]).pair] # NoBook,
         io' = [io EXCEPT ![e] = Applying(Head(wire[e]))]
  PROVE  FeedsInv'
<1> DEFINE w == wire[e]
           m == Head(w)
           t == Applying(m)
<1>1. /\ Symbols' = Symbols /\ wire' \in [feeds -> Seq(Msg)]
      /\ channel_map' \in [DOMAIN channel_map' -> SymbolsOf[KRAKEN]]
      /\ WiresSound' /\ ChannelsDistinct' /\ ChannelsResolve'
  BY MessageTaken
<1>2. /\ w \in Seq(Msg) /\ w # << >> /\ m \in Msg /\ MessageSound(e, m)
      /\ DOMAIN w = 1..Len(w) /\ DOMAIN Tail(w) = 1..(Len(w) - 1) /\ Len(w) \in Nat
      /\ \A i \in 1..(Len(w) - 1) : Tail(w)[i] = w[i + 1]
  <2>1. w \in Seq(Msg)
    BY DEF FeedsInv, Types
  <2>2. m = w[1] /\ 1 \in DOMAIN w /\ m \in Msg
    BY <2>1, TailFacts
  <2> QED
    BY <2>1, <2>2, TailFacts DEF FeedsInv, WiresSound
<1>3. /\ wire'[e] = Tail(w) /\ \A f \in feeds \ {e} : wire'[f] = wire[f]
      /\ io'[e] = t /\ \A f \in feeds \ {e} : io'[f] = io[f]
  BY DEF FeedsInv, Types
<1>4. m.levels \in Seq(Level) /\ OneEach(m.levels) /\ m.pair \in SymbolsOf[e] /\ m.pair \in AllSymbols
  BY <1>2, SymbolsTyped DEF Msg, MessageSound, FeedsInv, Types
<1>5. /\ t.at = "apply" /\ t.sym = m.pair /\ t.levels = Taken(m) /\ t.update = Taken(m)
      /\ order_books[t.sym] # NoBook
  BY DEF Applying
<1>6. /\ Taken(m) \in Seq(Level) /\ OneEach(Taken(m))
      /\ \A i \in DOMAIN Taken(m) : \E j \in DOMAIN m.levels : Taken(m)[i] = m.levels[j]
      /\ \A j \in DOMAIN m.levels : \E i \in DOMAIN Taken(m) : Taken(m)[i] = m.levels[j]
  BY <1>4, TakenLevels
<1>7. t \in Io
  <2>1. /\ "apply" \in {"idle", "apply", "callback"} /\ m.pair \in AllSymbols \cup {""}
        /\ << >> \in Books \cup {<< >>, Astray}
    BY <1>4
  <2> QED
    BY <1>6, <2>1, Zenon DEF Applying, Io
<1> HIDE DEF w, m, t
<1>8. Types'
  <2>1. io' = [io EXCEPT ![e] = t]
    BY DEF t, m, w
  <2> QED
    BY <1>1, <1>7, <2>1 DEF FeedsInv, Types, exchangeVars
<1>9. ThreadsSound'
  <2>1. ASSUME NEW f \in feeds PROVE ThreadSound(f)'
    <3>1. ThreadSound(f)
      BY DEF FeedsInv, ThreadsSound
    <3>2. CASE f = e
      <4>1. /\ io'[f] = t /\ t.at = "apply" /\ t.sym \in SymbolsOf[f] /\ order_books'[t.sym] # NoBook
            /\ OneEach(t.update) /\ t.levels = t.update
        BY <1>3, <1>4, <1>5, <1>6, <3>2
      <4> QED
        BY ONLY <4>1 DEF ThreadSound
    <3>3. CASE f # e
      BY <1>3, <3>1, <3>3 DEF ThreadSound
    <3> QED
      BY <3>2, <3>3
  <2> QED
    BY <2>1 DEF ThreadsSound
<1>10. UpdatesApplied'
  <2>1. ASSUME NEW f \in feeds PROVE Applied(f)'
    <3>1. Applied(f)
      BY DEF FeedsInv, UpdatesApplied
    <3>2. CASE f = e
      <4>1. io'[f] = t /\ t.at = "apply" /\ t.levels = t.update
        BY <1>3, <1>5, <3>2
      <4> QED
        BY ONLY <4>1 DEF Applied
    <3>3. CASE f # e
      BY <1>3, <3>1, <3>3 DEF Applied
    <3> QED
      BY <3>2, <3>3
  <2> QED
    BY <2>1 DEF UpdatesApplied
<1>11. ASSUME NEW f \in feeds, NEW s \in SymbolsOf[f] \cap clean PROVE CleanAgrees(f, s)'
  <2>1. CleanAgrees(f, s)
    BY DEF FeedsInv, BooksAgree
  <2>2. CASE f # e
    BY <1>3, <2>1, <2>2 DEF CleanAgrees, exchangeVars
  <2>3. CASE f = e
    <3>1. \A k : ~Leaves(io[e], s, k)
      BY DEF Leaves
    <3>2. ASSUME NEW k \in Keys PROVE KeyAgrees(Tail(w), t, order_books[s], refused[s], s, k, told[s][k])
      <4>1. KeyAgrees(w, io[e], order_books[s], refused[s], s, k, told[s][k])
        BY <2>1, <2>3 DEF CleanAgrees, w
      <4>2. CASE m.pair = s
        <5>1. /\ \A i \in DOMAIN t.levels : \E j \in DOMAIN Head(w).levels : t.levels[i] = Head(w).levels[j]
              /\ \A j \in DOMAIN Head(w).levels : \E i \in DOMAIN t.levels : t.levels[i] = Head(w).levels[j]
              /\ Head(w).pair = s /\ t.at = "apply" /\ t.sym = s
          BY <1>5, <1>6, <4>2 DEF m
        <5> QED
          BY <1>2, <4>1, <5>1, TakeOwn
      <4>3. CASE m.pair # s
        <5>1. ~Mentions(Head(w), s, k) /\ ~Leaves(t, s, k)
          BY <1>5, <4>3 DEF Mentions, Leaves, m
        <5> QED
          BY <1>2, <3>1, <4>1, <5>1, TakeOther
      <4> QED
        BY <4>2, <4>3
    <3>3. \A i \in DOMAIN Tail(w) : Tail(w)[i].pair = s => ~Tail(w)[i].bad
      <4>1. \A i \in DOMAIN w : w[i].pair = s => ~w[i].bad
        BY <2>1, <2>3 DEF CleanAgrees, w
      <4> QED
        BY <1>2, <4>1
    <3>4. /\ wire'[f] = Tail(w) /\ io'[f] = t /\ order_books'[s] = order_books[s]
          /\ refused'[s] = refused[s] /\ market' = market /\ told' = told
      BY <1>3, <2>3 DEF exchangeVars
    <3>5. order_books[s] \in Books /\ (f # KRAKEN => told[s] = market[s])
      BY <2>1 DEF CleanAgrees
    <3> HIDE DEF w, m, t
    <3> QED
      BY ONLY <3>2, <3>3, <3>4, <3>5 DEF CleanAgrees
  <2> QED
    BY <2>2, <2>3
<1>12. BooksAgree'
  BY <1>11 DEF BooksAgree
<1> QED
  BY <1>1, <1>8, <1>9, <1>10, <1>12 DEF FeedsInv

LEMMA ProcessStep ==
  ASSUME FeedsInv, NEW e \in feeds, process_update(e)
  PROVE  FeedsInv'
<1>1. /\ wire[e] # << >> /\ io[e].at = "idle" /\ wire' = [wire EXCEPT ![e] = Tail(@)]
      /\ UNCHANGED <<feeds, exchangeVars, order_books, refused>>
      /\ channel_map' = IF e = KRAKEN THEN kraken_channels(Head(wire[e])) ELSE channel_map
  BY DEF process_update
<1> DEFINE m == Head(wire[e])
<1>2. \/ (m.kind \notin Data \/ m.bad) /\ io' = io /\ clean' = clean
      \/ /\ m.kind \in Data /\ ~m.bad /\ order_books[m.pair] = NoBook
         /\ io' = io /\ clean' = clean \ {m.pair}
      \/ /\ m.kind \in Data /\ ~m.bad /\ order_books[m.pair] # NoBook
         /\ io' = [io EXCEPT ![e] = Applying(m)] /\ clean' = clean
  BY ProcessOutcome
<1>3. CASE io' = io /\ clean' \subseteq clean /\ (m.kind \in Data /\ ~m.bad => m.pair \notin clean')
  BY <1>1, <1>3, ProcessDropped
<1>4. CASE /\ m.kind \in Data /\ order_books[m.pair] # NoBook
           /\ io' = [io EXCEPT ![e] = Applying(m)] /\ clean' = clean
  BY <1>1, <1>4, ProcessTaken
<1> HIDE DEF m
<1> QED
  BY <1>2, <1>3, <1>4

-----------------------------------------------------------------------------
(* The theorems.                                                           *)

LEMMA FeedsInvInductive == FeedsInv /\ [Next]_vars => FeedsInv'
<1> SUFFICES ASSUME FeedsInv, [Next]_vars PROVE FeedsInv'
  OBVIOUS
<1>1. ASSUME NEW e \in feeds, Notice(e) PROVE FeedsInv'
  BY <1>1, NoticeStep
<1>2. ASSUME NEW e \in feeds, process_update(e) PROVE FeedsInv'
  BY <1>2, ProcessStep
<1>3. ASSUME NEW e \in feeds, ApplyLevel(e) PROVE FeedsInv'
  BY <1>3, ApplyLevelStep
<1>4. ASSUME NEW e \in feeds, Notify(e) PROVE FeedsInv'
  BY <1>4, NotifyStep
<1>5. ASSUME NEW e \in feeds, Done(e) PROVE FeedsInv'
  BY <1>5, DoneStep
<1>6. ASSUME NEW s \in Symbols, Subscribe(s) PROVE FeedsInv'
  BY <1>6, SubscribeStep
<1>7. ASSUME NEW s \in Symbols, Unsubscribe(s) PROVE FeedsInv'
  BY <1>7, UnsubscribeStep
<1>8. ASSUME NEW s \in Symbols, Move(s) PROVE FeedsInv'
  BY <1>8, MoveStep
<1>9. ASSUME NEW s \in Symbols,
             create_order_book(s) \/ remove_order_book(s) \/ clear_order_book(s)
      PROVE  FeedsInv'
  BY <1>9, OwnerStep
<1>10. CASE UNCHANGED vars
  <2>1. UNCHANGED <<feeds, exchangeVars, wire, channel_map, order_books, refused, io, clean>>
    BY <1>10 DEF vars
  <2>2. Symbols' = Symbols /\ WiresSound' /\ ChannelsDistinct' /\ ChannelsResolve'
    BY <2>1, ExchangesKept
  <2>3. ThreadsSound' /\ UpdatesApplied'
    BY <2>1, ThreadsKept
  <2>4. Types'
    BY <2>1, <2>2 DEF FeedsInv, Types, exchangeVars
  <2>5. BooksAgree'
    BY <2>1 DEF FeedsInv, BooksAgree, CleanAgrees, exchangeVars
  <2> QED
    BY <2>2, <2>3, <2>4, <2>5 DEF FeedsInv
<1> QED
  BY <1>1, <1>2, <1>3, <1>4, <1>5, <1>6, <1>7, <1>8, <1>9, <1>10 DEF Next

(* What process_update, ApplyLevel and the owner keep: every book is what  *)
(* its market's messages, so far applied, make of an empty one.            *)
THEOREM FeedsInvariant == Spec => []FeedsInv
<1>1. Init => FeedsInv
  BY InitFeeds
<1>2. FeedsInv /\ [Next]_vars => FeedsInv'
  BY FeedsInvInductive
<1> QED
  BY <1>1, <1>2, PTL DEF Spec

(* No book is removed while a thread applies an update to it or waits for  *)
(* the callback about it (remove_order_book under mutex_).                 *)
THEOREM BookStaysAlways == Spec => []BookStays
<1>1. FeedsInv => BookStays
  BY DEF FeedsInv, ThreadsSound, ThreadSound, BookStays, Holders
<1> QED
  BY <1>1, FeedsInvariant, PTL

(* The callback of an update sees every level of it that the book took and *)
(* that is among the Depth best of its side (process_update, get_snapshot).*)
THEOREM CallbackCompleteAlways == Spec => []CallbackComplete
<1>1. ASSUME FeedsInv, NEW e \in feeds, io[e].at = "callback", io[e].sym \in clean,
             NEW i \in DOMAIN io[e].update
      PROVE  LET key == io[e].update[i][1]
                 missing == \/ key \in refused[io[e].sym]
                            \/ Cardinality(Better(order_books[io[e].sym], key)) >= Depth
             IN  io[e].snapshot[key] = IF missing THEN 0 ELSE io[e].update[i][2]
  <2> DEFINE sym == io[e].sym
             book == order_books[sym]
             key == io[e].update[i][1]
             q == io[e].update[i][2]
             n == Cardinality(Better(book, key))
  <2>1. io[e] \in Io /\ Applied(e) /\ ThreadSound(e) /\ sym \in SymbolsOf[e] /\ io[e].levels = << >>
    BY <1>1 DEF FeedsInv, Types, UpdatesApplied, ThreadsSound, ThreadSound
  <2>2. key \in Keys
    <3>1. io[e].update \in Seq(Level)
      BY <2>1 DEF Io
    <3> QED
      BY <1>1, <3>1 DEF Level
  <2>3. book \in Books /\ feeds \in Feeders
    BY <1>1, <2>1 DEF FeedsInv, BooksAgree, CleanAgrees, Types
  <2>4. Holds(book, refused[sym], key, q) /\ io[e].snapshot = Top(book, Depth)
    BY <1>1, <2>1 DEF Applied
  <2>5. book # Astray
    BY <2>3, FeedsAssumption DEF Books
  <2>6. io[e].snapshot[key] = IF n < Depth THEN book[key] ELSE 0
    <3> HIDE DEF book, key
    <3> QED
      BY <2>2, <2>4, <2>5 DEF Top
  <2>7. n < Depth <=> ~(n >= Depth)
    <3>1. Better(book, key) \subseteq Keys
      BY DEF Better, Levels
    <3>2. IsFiniteSet(Better(book, key))
      BY <3>1, KeysFinite, FS_Subset
    <3>3. n \in Nat
      BY <3>2, FS_CardinalityType
    <3> HIDE DEF n
    <3> QED
      BY <3>3, FeedsAssumption
  <2> HIDE DEF n, book, sym, key, q
  <2>8. io[e].snapshot[key] = IF key \in refused[sym] \/ n >= Depth THEN 0 ELSE q
    BY <2>4, <2>6, <2>7 DEF Holds
  <2> QED
    BY <2>8 DEF n, book, sym, key, q
<1>2. FeedsInv => CallbackComplete
  BY <1>1 DEF CallbackComplete
<1> QED
  BY <1>2, FeedsInvariant, PTL

(* When nothing about a clean symbol is under way, its book is the mirror  *)
(* of the market, and so are the manager's answers (from on_message to     *)
(* update_bid and update_ask).                                             *)
THEOREM MirrorsMarketAlways == Spec => []MirrorsMarket
<1>1. ASSUME FeedsInv, NEW s \in clean, ~OnItsWay(s)
      PROVE  order_books[s] = Mirror(s) /\ order_books[s] # NoBook /\ s \in Symbols
  <2>1. s \in Symbols /\ feeds \in Feeders /\ market \in [Symbols -> Books]
        /\ told \in [Symbols -> Books]
    BY <1>1 DEF FeedsInv, Types
  <2>2. PICK e \in feeds : e = Exchange(s) /\ s \in SymbolsOf[e]
    BY <2>1, ExchangeOf
  <2>3. CleanAgrees(e, s)
    BY <1>1, <2>2 DEF FeedsInv, BooksAgree
  <2>4. io[e].sym # s /\ \A i \in DOMAIN wire[e] : wire[e][i].pair # s
    BY <1>1, <2>2 DEF OnItsWay
  <2>5. ASSUME NEW k \in Keys PROVE order_books[s][k] = Mirror(s)[k]
    <3>1. Silent(wire[e], s, k) /\ ~Leaves(io[e], s, k)
      BY <2>4 DEF Silent, Mentions, Leaves
    <3>2. Holds(order_books[s], refused[s], k, told[s][k])
      BY <2>3, <3>1 DEF CleanAgrees, KeyAgrees
    <3>3. told[s][k] = IF Exchange(s) = KRAKEN THEN told[s][k] ELSE market[s][k]
      BY <2>2, <2>3 DEF CleanAgrees
    <3> QED
      BY <3>2, <3>3 DEF Holds, Mirror
  <2>6. order_books[s] \in Books /\ Mirror(s) = [k \in Keys |-> Mirror(s)[k]]
    BY <2>3 DEF CleanAgrees, Mirror
  <2>7. order_books[s] # NoBook
    BY <2>6, FeedsAssumption DEF Books
  <2> QED
    BY <2>1, <2>5, <2>6, <2>7 DEF Books
<1>2. FeedsInv => MirrorsMarket
  <2> SUFFICES ASSUME FeedsInv, NEW s \in clean, ~OnItsWay(s)
               PROVE  /\ \A depth \in 0..Cardinality(Keys) :
                            get_snapshot(s, depth) = {Top(Mirror(s), depth)}
                      /\ s \in get_symbols
                      /\ get_spread(s) = {Spread(Mirror(s))}
                      /\ get_mid_price(s) = {TwiceMidPrice(Mirror(s))}
                      /\ get_statistics(s) = {Statistics(Mirror(s))}
    BY DEF MirrorsMarket
  <2>1. order_books[s] = Mirror(s) /\ order_books[s] # NoBook /\ s \in Symbols
    BY <1>1
  <2>2. \A depth : get_snapshot(s, depth) = {Top(Mirror(s), depth)}
    BY <2>1 DEF get_snapshot
  <2>3. s \in get_symbols
    BY <2>1 DEF get_symbols
  <2>4. BookOf(s) = {Mirror(s)}
    BY <2>1 DEF BookOf
  <2>5. get_spread(s) = {Spread(Mirror(s))}
    BY <2>4 DEF get_spread
  <2>6. get_mid_price(s) = {TwiceMidPrice(Mirror(s))}
    BY <2>4 DEF get_mid_price
  <2>7. get_statistics(s) = {Statistics(Mirror(s))}
    BY <2>4 DEF get_statistics
  <2> QED
    BY <2>2, <2>3, <2>5, <2>6, <2>7
<1> QED
  BY <1>2, FeedsInvariant, PTL
=============================================================================
