------------------------- MODULE LockFreeQueueProofs -------------------------
(* Theorems about LockFreeQueue, for any number of threads, values and nodes: *)
(* the list is safe, its size is exact and it implements ConcurrentFifo,      *)
(* where the queue is used in one of two ways: before the first reclamation,  *)
(* or by one producer and one consumer on a machine whose                     *)
(* compare-and-exchange does not fail spuriously.                             *)
EXTENDS LockFreeQueue, FiniteSetTheorems, SequenceTheorems, TLAPS

(* One producer and one consumer, and no spurious failures.                   *)
PairUse(u) ==
  /\ ~u.weak
  /\ \A p, q \in Producers \intersect u.threads : p = q
  /\ \A c, d \in Consumers \intersect u.threads : c = d

(* The uses the theorems are about: pairs, and those that have fewer nodes    *)
(* than it takes pops to make try_reclaim delete any.                         *)
SafeUses == \A u \in Uses : PairUse(u) \/ u.threshold > Cardinality(Nodes)

Pair == PairUse(use)

-----------------------------------------------------------------------------
(* The inductive invariant.                                                   *)

Linking == {"tail", "tailnext", "validate", "link", "help"}
Looking == {"poptail", "popnext", "popvalidate", "pophelp", "data", "unlink"}

(* Nodes that t alone knows: one it has made and not linked yet, one it has   *)
(* unlinked and not retired yet, and those it is about to delete.             *)
Fresh(t, n) == th[t].pc \in Linking /\ n = th[t].new
Carried(t, n) == th[t].pc \in {"shrink", "retire"} /\ n = th[t].head
Held(t, n) == Fresh(t, n) \/ Carried(t, n) \/ n \in th[t].doomed

(* The nodes that are or were in the list.                                    *)
Placed == {n \in live : \A t \in Threads : ~Fresh(t, n)}

Last == linked[Len(linked)]

(* A thread is inside a call of its kind, has nodes to delete only after it   *)
(* detached them, and detaches none but in a pair.                            *)
RoleOf(t) ==
  /\ th[t].pc \in PushPCs => t \in Producers \intersect use.threads
  /\ th[t].pc \in PopPCs => t \in Consumers \intersect use.threads
  /\ th[t].pc \notin {"reset", "delete"} => th[t].doomed = {}
  /\ th[t].pc \in {"detach", "reset", "delete"} => Pair

(* The list has no loop, and tail_ is at its last node or the one before.     *)
ListInv ==
  /\ ListSound /\ Linked \subseteq live
  /\ \A i, j \in DOMAIN linked : linked[i] = linked[j] => i = j
  /\ tail = Last \/ (Len(linked) > 1 /\ tail = linked[Len(linked) - 1])

(* Every node that is allocated has one place.                                *)
PlacesInv ==
  /\ retired \subseteq live /\ retired \intersect Linked = {}
  /\ \A t \in Threads, n \in Pointers :
       Held(t, n) => /\ n \in live /\ n \notin Linked /\ n \notin retired
                     /\ \A u \in Threads : Held(u, n) => u = t
  /\ \A n \in live : n \in Linked \/ n \in retired \/ \E t \in Threads : Held(t, n)

(* What the nodes hold: a fresh node is complete, only the last node of the   *)
(* list has no next, and before any reclamation no next leads to a deleted    *)
(* node.                                                                      *)
NodesInv ==
  /\ \A t \in Threads : th[t].pc \in Linking =>
       th[t].new \in live /\ node[th[t].new].next = Nil /\ node[th[t].new].data \in Values
  /\ \A n \in Placed : node[n].next = Nil => n = Last
  /\ ~Pair => \A n \in Placed : node[n].next = Nil \/ node[n].next \in Placed

(* What a thread knows inside push. The tail_ it has loaded is no further     *)
(* than tail_ is now; in a pair it is still the last node.                    *)
PushKnows(t) ==
  /\ th[t].pc \in {"tailnext", "validate", "link", "help"} =>
       /\ th[t].tail \in Placed
       /\ th[t].tail = Last => tail = Last
       /\ Pair => th[t].tail = Last
  /\ th[t].pc = "validate" => th[t].next = Nil \/ th[t].next = node[th[t].tail].next
  /\ th[t].pc = "help" => th[t].next # Nil /\ th[t].next = node[th[t].tail].next
  /\ th[t].pc = "swing" =>
       /\ th[t].new \in Nodes
       /\ IF th[t].tail \in live THEN node[th[t].tail].next = th[t].new ELSE Pair
       /\ Pair => tail = Last \/ tail = th[t].tail

(* What a thread knows inside pop. The head_ it has loaded is the head or is  *)
(* unlinked; in a pair it is the head. Past the validation, tail_ is beyond   *)
(* the head as long as the head is still the one that was loaded.             *)
PopKnows(t) ==
  /\ th[t].pc \in Looking =>
       /\ th[t].head \in Placed
       /\ th[t].head \in Linked => th[t].head = head
       /\ Pair => th[t].head = head
  /\ th[t].pc \in {"popnext", "popvalidate"} => (th[t].head = head /\ tail = head => th[t].tail = head)
  /\ th[t].pc = "popvalidate" => (th[t].next = Nil => t \in sawEmpty)
  /\ th[t].pc \in {"pophelp", "data", "unlink"} => th[t].next # Nil
  /\ th[t].pc \in {"popvalidate", "pophelp", "data", "unlink"} /\ th[t].next # Nil =>
       th[t].next \in Placed /\ node[th[t].head].next = th[t].next
  /\ th[t].pc = "pophelp" => th[t].tail = th[t].head
  /\ th[t].pc \in {"data", "unlink"} => (th[t].head = head => tail # head)
  /\ th[t].pc = "unlink" => th[t].data = node[th[t].next].data

Knowledge == \A t \in Threads : RoleOf(t) /\ PushKnows(t) /\ PopKnows(t)

(* In a pair only the producer between its two exchanges leaves tail_ behind. *)
PairTail == Pair => tail = Last \/ \E t \in Threads : th[t].pc = "swing"

(* Without reclamation every retired node is counted at most once.            *)
Counting == {t \in Threads : th[t].pc = "count"}
RetiredCounted == ~Pair => count + Cardinality(Counting) <= Cardinality(retired)

QueueInv ==
  TypeOK /\ ListInv /\ PlacesInv /\ NodesInv /\ Knowledge /\ PairTail /\ RetiredCounted

(* size_ and the length of the list differ by the calls that have changed the *)
(* list and not yet the counter, modulo the width of size_.                   *)
Uncounted == {t \in Threads : th[t].pc \in {"swing", "grow"}}
Unshrunk == {t \in Threads : th[t].pc = "shrink"}
SizeInv ==
  \E k \in Int : size + Cardinality(Uncounted) = Length + Cardinality(Unshrunk) + k * SizeMod
-----------------------------------------------------------------------------
(* Facts about the list.                                                      *)

LEMMA ListFacts ==
  ASSUME TypeOK, ListInv, PlacesInv
  PROVE  /\ Len(linked) \in Nat \ {0} /\ DOMAIN linked = 1 .. Len(linked)
         /\ head \in Linked /\ tail \in Linked /\ Last \in Linked /\ Linked \subseteq Nodes
         /\ Linked \subseteq Placed /\ Placed \subseteq Nodes
         /\ node[Last].next = Nil
         /\ tail # Last => node[tail].next = Last
         /\ \A n \in Linked : n # Last => node[n].next \in Linked
         /\ Nil \notin Nodes
<1>1. /\ Len(linked) \in Nat \ {0} /\ DOMAIN linked = 1 .. Len(linked)
      /\ \A i \in 1 .. Len(linked) : linked[i] \in Nodes
  BY EmptySeq, LenProperties DEF TypeOK, ListInv, ListSound
<1>2. \A i \in 1 .. Len(linked) : linked[i] \in Linked
  BY <1>1 DEF Linked
<1>3. head \in Linked /\ Last \in Linked /\ tail \in Linked
  BY <1>1, <1>2 DEF ListInv, ListSound, Last
<1>4. Linked \subseteq Nodes
  BY <1>1 DEF Linked
<1>5. node[Last].next = Nil
  BY <1>1 DEF ListInv, ListSound, Last
<1>6. tail # Last => node[tail].next = Last
  BY <1>1 DEF ListInv, ListSound, Last
<1>7. Linked \subseteq Placed
  BY <1>4 DEF ListInv, PlacesInv, Placed, Held, Pointers
<1>8. ASSUME NEW n \in Linked, n # Last PROVE node[n].next \in Linked
  <2>1. PICK i \in 1 .. Len(linked) : n = linked[i]
    BY <1>1 DEF Linked
  <2>2. i + 1 \in 1 .. Len(linked)
    BY <1>1, <1>8, <2>1 DEF Last
  <2>3. node[n].next = linked[i + 1]
    BY <1>1, <2>1, <2>2 DEF ListInv, ListSound
  <2> QED BY <1>2, <2>2, <2>3
<1> QED BY <1>1, <1>3, <1>4, <1>5, <1>6, <1>7, <1>8, QueueAssumption DEF Placed, TypeOK

(* Only t moves.                                                              *)
Moved(t) == th' \in [Threads -> Calls] /\ \A u \in Threads \ {t} : th'[u] = th[u]

(* t moves, touches neither list nor nodes, and makes or links no node.       *)
Steady(t) ==
  /\ UNCHANGED <<node, live, head, linked, use>> /\ Moved(t)
  /\ \A n \in Pointers : Fresh(t, n)' <=> Fresh(t, n)
  /\ \A u \in Threads \ {t} : u \in sawEmpty => u \in sawEmpty'

(* ... and keeps the nodes it has.                                            *)
Local(t) ==
  Steady(t) /\ UNCHANGED retired /\ \A n \in Pointers : Held(t, n)' <=> Held(t, n)

LEMMA SteadyList ==
  ASSUME QueueInv, NEW t \in Threads, Steady(t)
  PROVE  /\ NodesInv' /\ Placed' = Placed /\ Last' = Last /\ Linked' = Linked
         /\ Pair' <=> Pair
<1>1. TypeOK /\ NodesInv
  BY DEF QueueInv
<1>2. node' = node /\ live' = live /\ linked' = linked /\ use' = use /\ (Pair' <=> Pair)
  BY DEF Steady, Pair, PairUse
<1>3. Last' = Last /\ Linked' = Linked
  BY <1>2 DEF Last, Linked
<1>4. \A u \in Threads, n \in Pointers : Fresh(u, n)' <=> Fresh(u, n)
  BY DEF Steady, Moved, Fresh
<1>5. live \subseteq Pointers
  BY <1>1 DEF TypeOK, Pointers
<1>6. Placed' = Placed
  BY <1>2, <1>4, <1>5 DEF Placed
<1>7. NodesInv'
  <2>1. ASSUME NEW u \in Threads, th'[u].pc \in Linking
        PROVE  th[u].pc \in Linking /\ th'[u].new = th[u].new
    <3>1. th'[u].new \in Pointers
      BY DEF Steady, Moved, Calls
    <3> QED BY <1>4, <2>1, <3>1 DEF Fresh
  <2> QED BY <1>1, <1>2, <1>3, <1>6, <2>1 DEF NodesInv
<1> QED BY <1>2, <1>3, <1>6, <1>7

LEMMA LocalList ==
  ASSUME QueueInv, NEW t \in Threads, Local(t)
  PROVE  /\ PlacesInv' /\ NodesInv' /\ Placed' = Placed /\ Last' = Last /\ Linked' = Linked
         /\ Pair' <=> Pair
<1>1. TypeOK /\ PlacesInv
  BY DEF QueueInv
<1>2. NodesInv' /\ Placed' = Placed /\ Last' = Last /\ Linked' = Linked /\ (Pair' <=> Pair)
  BY SteadyList DEF Local
<1>3. \A u \in Threads, n \in Pointers : Held(u, n)' <=> Held(u, n)
  BY DEF Local, Steady, Moved, Fresh, Held, Carried
<1>4. live' = live /\ retired' = retired /\ live \subseteq Pointers /\ Nodes \subseteq Pointers
  BY <1>1 DEF Local, Steady, TypeOK, Pointers
<1>5. PlacesInv'
  BY <1>1, <1>2, <1>3, <1>4 DEF PlacesInv
<1> QED BY <1>2, <1>5

(* The others know what they knew.                                            *)
LEMMA SteadyOthers ==
  ASSUME QueueInv, NEW t \in Threads, Steady(t), tail' = tail, NEW u \in Threads \ {t}
  PROVE  (RoleOf(u) /\ PushKnows(u) /\ PopKnows(u))'
<1>1. RoleOf(u) /\ PushKnows(u) /\ PopKnows(u)
  BY DEF QueueInv, Knowledge
<1>2. Placed' = Placed /\ Last' = Last /\ Linked' = Linked /\ (Pair' <=> Pair)
  BY SteadyList
<1>3. /\ th'[u] = th[u] /\ node' = node /\ live' = live /\ head' = head /\ use' = use
      /\ u \in sawEmpty => u \in sawEmpty'
  BY DEF Steady, Moved
<1>4. RoleOf(u)'
  BY <1>1, <1>2, <1>3 DEF RoleOf
<1>5. PushKnows(u)'
  BY <1>1, <1>2, <1>3 DEF PushKnows
<1>6. PopKnows(u)'
  BY <1>1, <1>2, <1>3 DEF PopKnows
<1> QED BY <1>4, <1>5, <1>6

LEMMA SteadyStep ==
  ASSUME QueueInv, NEW t \in Threads, Steady(t), tail' = tail, TypeOK', PlacesInv',
         (RoleOf(t) /\ PushKnows(t) /\ PopKnows(t))', PairTail', RetiredCounted'
  PROVE  QueueInv'
<1>1. NodesInv' /\ Last' = Last /\ Linked' = Linked
  BY SteadyList
<1>2. ListInv'
  BY <1>1 DEF QueueInv, ListInv, ListSound, Steady
<1>3. Knowledge'
  BY SteadyOthers DEF Knowledge
<1> QED BY <1>1, <1>2, <1>3 DEF QueueInv

LEMMA LocalStep ==
  ASSUME QueueInv, NEW t \in Threads, Local(t), tail' = tail, TypeOK',
         (RoleOf(t) /\ PushKnows(t) /\ PopKnows(t))', PairTail', RetiredCounted'
  PROVE  QueueInv'
BY LocalList, SteadyStep DEF Local

(* A local step that neither counts a retired node nor follows a link.        *)
LEMMA QuietStep ==
  ASSUME QueueInv, NEW t \in Threads, Local(t), tail' = tail, count' = count, TypeOK',
         {th[t].pc, th'[t].pc} \intersect {"count"} = {}, th[t].pc # "swing",
         (RoleOf(t) /\ PushKnows(t) /\ PopKnows(t))'
  PROVE  QueueInv'
<1>1. Last' = Last /\ (Pair' <=> Pair)
  BY LocalList
<1>2. PairTail'
  <2>1. \A u \in Threads : th[u].pc = "swing" => th'[u].pc = "swing"
    BY DEF Local, Steady, Moved
  <2> QED BY <1>1, <2>1 DEF QueueInv, PairTail
<1>3. RetiredCounted'
  <2>1. Counting' = Counting
    BY DEF Local, Steady, Moved, Counting
  <2> QED BY <1>1, <2>1 DEF QueueInv, RetiredCounted, Local, Steady
<1> QED BY <1>2, <1>3, LocalStep

(* In a pair one thread pushes and one pops.                                  *)
LEMMA OneEach ==
  ASSUME QueueInv, Pair, NEW t \in Threads, NEW u \in Threads
  PROVE  /\ th[t].pc \in PushPCs /\ th[u].pc \in PushPCs => t = u
         /\ th[t].pc \in PopPCs /\ th[u].pc \in PopPCs => t = u
BY DEF QueueInv, Knowledge, RoleOf, Pair, PairUse

LEMMA PairLast ==
  ASSUME QueueInv, Pair, NEW t \in Threads, th[t].pc \in PushPCs \ {"swing"}
  PROVE  tail = Last
BY OneEach DEF QueueInv, PairTail, PushPCs

-----------------------------------------------------------------------------
(* push, step by step.                                                        *)

LEMMA PushLoadTailStep ==
  ASSUME QueueInv, NEW t \in Threads, PushLoadTail(t), UNCHANGED use
  PROVE  QueueInv'
<1>1. /\ Moved(t) /\ th[t].pc = "tail" /\ th'[t].pc = "tailnext" /\ th'[t].tail = tail
      /\ th'[t].new = th[t].new /\ th'[t].doomed = th[t].doomed
  BY DEF PushLoadTail, QueueInv, TypeOK, Moved, Calls, PushPCs, PopPCs, Pointers
<1>2. Local(t) /\ tail' = tail
  BY <1>1 DEF Local, Steady, PushLoadTail, Fresh, Held, Carried, Linking
<1>3. TypeOK'
  BY <1>1 DEF PushLoadTail, QueueInv, TypeOK, Moved
<1>4. RoleOf(t) /\ TypeOK /\ ListInv /\ PlacesInv
  BY DEF QueueInv, Knowledge
<1>5. Placed' = Placed /\ Last' = Last /\ (Pair' <=> Pair) /\ use' = use
  BY <1>2, LocalList
<1>6. Pair => tail = Last
  BY <1>1, PairLast DEF PushPCs
<1>7. tail \in Placed
  BY <1>4, ListFacts
<1>8. RoleOf(t)' /\ PopKnows(t)'
  BY <1>1, <1>4, <1>5 DEF RoleOf, PopKnows, PushPCs, PopPCs, Looking
<1>9. PushKnows(t)'
  BY <1>1, <1>2, <1>5, <1>6, <1>7 DEF PushKnows
<1> QED BY <1>1, <1>2, <1>3, <1>8, <1>9, QuietStep DEF PushLoadTail

LEMMA PushLoadNextStep ==
  ASSUME QueueInv, NEW t \in Threads, PushLoadNext(t), UNCHANGED use
  PROVE  QueueInv'
<1>1. th[t].pc = "tailnext" /\ TypeOK /\ RoleOf(t) /\ PushKnows(t) /\ th[t].tail \in Nodes /\ th[t].tail \in live
  BY DEF PushLoadNext, QueueInv, Knowledge, PushKnows, Placed, TypeOK
<1>2. node[th[t].tail].next \in Pointers
  BY <1>1 DEF TypeOK, Cells
<1>3. /\ Moved(t) /\ th'[t].pc = "validate" /\ th'[t].next = node[th[t].tail].next
      /\ th'[t].tail = th[t].tail /\ th'[t].new = th[t].new /\ th'[t].doomed = th[t].doomed
  BY <1>1, <1>2 DEF PushLoadNext, TypeOK, Moved, Calls, PushPCs, PopPCs
<1>4. Local(t) /\ tail' = tail
  BY <1>1, <1>3 DEF Local, Steady, PushLoadNext, Fresh, Held, Carried, Linking
<1>5. TypeOK'
  BY <1>1, <1>3 DEF PushLoadNext, TypeOK, Moved
<1>6. Placed' = Placed /\ Last' = Last /\ (Pair' <=> Pair) /\ use' = use /\ node' = node
  BY <1>4, LocalList DEF Local, Steady
<1>7. RoleOf(t)' /\ PopKnows(t)'
  BY <1>1, <1>3, <1>6 DEF RoleOf, PopKnows, PushPCs, PopPCs, Looking
<1>8. PushKnows(t)'
  BY <1>1, <1>3, <1>4, <1>6 DEF PushKnows
<1> QED BY <1>1, <1>3, <1>4, <1>5, <1>7, <1>8, QuietStep DEF PushLoadNext

LEMMA PushValidateStep ==
  ASSUME QueueInv, NEW t \in Threads, PushValidate(t), UNCHANGED use
  PROVE  QueueInv'
<1>1. th[t].pc = "validate" /\ TypeOK /\ RoleOf(t) /\ PushKnows(t)
  BY DEF PushValidate, QueueInv, Knowledge
<1> DEFINE to == IF th[t].tail # tail THEN "tail" ELSE IF th[t].next = Nil THEN "link" ELSE "help"
<1>2. /\ to \in {"tail", "link", "help"} /\ th' = [th EXCEPT ![t].pc = to]
      /\ to = "help" => th[t].next # Nil
  BY DEF PushValidate, GoTo
<1> HIDE DEF to
<1>3. /\ Moved(t) /\ th'[t].pc = to /\ th'[t].next = th[t].next
      /\ th'[t].tail = th[t].tail /\ th'[t].new = th[t].new /\ th'[t].doomed = th[t].doomed
  BY <1>1, <1>2 DEF TypeOK, Moved, Calls, PushPCs, PopPCs
<1>4. Local(t) /\ tail' = tail
  BY <1>1, <1>2, <1>3 DEF Local, Steady, PushValidate, Fresh, Held, Carried, Linking
<1>5. TypeOK'
  BY <1>1, <1>3 DEF PushValidate, TypeOK, Moved
<1>6. Placed' = Placed /\ Last' = Last /\ (Pair' <=> Pair) /\ use' = use /\ node' = node
  BY <1>4, LocalList DEF Local, Steady
<1>7. RoleOf(t)' /\ PopKnows(t)'
  BY <1>1, <1>2, <1>3, <1>6 DEF RoleOf, PopKnows, PushPCs, PopPCs, Looking
<1>8. PushKnows(t)'
  BY <1>1, <1>2, <1>3, <1>4, <1>6 DEF PushKnows
<1> QED BY <1>1, <1>2, <1>3, <1>4, <1>5, <1>7, <1>8, QuietStep DEF PushValidate

(* Places where a thread relies on nothing it has loaded.                     *)
LEMMA Forgets ==
  ASSUME NEW t \in Threads,
         th'[t].pc \in {"idle", "tail", "grow", "head", "shrink", "retire", "count", "reclaim",
                        "detach", "reset", "delete"}
  PROVE  PushKnows(t)' /\ PopKnows(t)'
BY DEF PushKnows, PopKnows, Looking

(* tail_ moves on to the last node.                                           *)
LEMMA TailStep ==
  ASSUME QueueInv, NEW t \in Threads, Local(t), tail # Last, tail' = Last, count' = count, TypeOK',
         {th[t].pc, th'[t].pc} \intersect {"count"} = {},
         (RoleOf(t) /\ PushKnows(t) /\ PopKnows(t))'
  PROVE  QueueInv'
<1>1. /\ PlacesInv' /\ NodesInv' /\ Placed' = Placed /\ Last' = Last /\ Linked' = Linked
      /\ Pair' <=> Pair
  BY LocalList
<1>2. head # Last
  BY ListFacts DEF QueueInv, ListInv, ListSound, Last
<1>3. ASSUME NEW u \in Threads \ {t} PROVE (RoleOf(u) /\ PushKnows(u) /\ PopKnows(u))'
  <2>1. RoleOf(u) /\ PushKnows(u) /\ PopKnows(u)
    BY DEF QueueInv, Knowledge
  <2>2. /\ th'[u] = th[u] /\ node' = node /\ live' = live /\ head' = head /\ use' = use
        /\ u \in sawEmpty => u \in sawEmpty'
    BY DEF Local, Steady, Moved
  <2>3. RoleOf(u)'
    BY <1>1, <2>1, <2>2 DEF RoleOf
  <2>4. PushKnows(u)'
    BY <1>1, <2>1, <2>2 DEF PushKnows
  <2>5. PopKnows(u)'
    BY <1>1, <1>2, <2>1, <2>2 DEF PopKnows
  <2> QED BY <2>3, <2>4, <2>5
<1>4. Knowledge'
  BY <1>3 DEF Knowledge
<1>5. ListInv'
  BY <1>1 DEF QueueInv, ListInv, ListSound, Local, Steady
<1>6. PairTail'
  BY <1>1 DEF PairTail
<1>7. RetiredCounted'
  <2>1. Counting' = Counting
    BY DEF Local, Steady, Moved, Counting
  <2> QED BY <1>1, <2>1 DEF QueueInv, RetiredCounted, Local, Steady
<1> QED BY <1>1, <1>4, <1>5, <1>6, <1>7 DEF QueueInv

(* A thread that moves tail_ from a node to its next one moves it to the end. *)
LEMMA NextIsLast ==
  ASSUME QueueInv, node[tail].next # Nil
  PROVE  tail # Last /\ node[tail].next = Last
BY ListFacts DEF QueueInv

LEMMA PushHelpStep ==
  ASSUME QueueInv, NEW t \in Threads, PushHelp(t), UNCHANGED use
  PROVE  QueueInv'
<1>1. th[t].pc = "help" /\ TypeOK /\ RoleOf(t) /\ PushKnows(t)
  BY DEF PushHelp, QueueInv, Knowledge
<1>2. /\ Moved(t) /\ th'[t].pc = "tail" /\ th'[t].new = th[t].new /\ th'[t].doomed = th[t].doomed
  BY <1>1 DEF PushHelp, SwingTail, GoTo, TypeOK, Moved, Calls, PushPCs, PopPCs
<1>3. Local(t)
  BY <1>1, <1>2 DEF Local, Steady, PushHelp, SwingTail, Fresh, Held, Carried, Linking
<1>4. RoleOf(t)' /\ PushKnows(t)' /\ PopKnows(t)'
  BY <1>1, <1>2, <1>3, Forgets, LocalList DEF RoleOf, PushPCs, PopPCs, Local, Steady
<1>5. CASE tail' = tail
  <2>1. TypeOK'
    BY <1>1, <1>2, <1>5 DEF PushHelp, SwingTail, TypeOK, Moved
  <2> QED BY <1>1, <1>2, <1>3, <1>4, <1>5, <2>1, QuietStep DEF PushHelp, SwingTail
<1>6. CASE tail' # tail
  <2>1. tail = th[t].tail /\ tail' = th[t].next
    BY <1>6 DEF PushHelp, SwingTail
  <2>2. tail # Last /\ tail' = Last
    BY <1>1, <2>1, NextIsLast DEF PushKnows
  <2>3. TypeOK'
    <3>1. Last \in Nodes
      BY ListFacts DEF QueueInv
    <3> QED BY <1>1, <1>2, <2>2, <3>1 DEF PushHelp, SwingTail, TypeOK, Moved
  <2> QED BY <1>1, <1>2, <1>3, <1>4, <2>2, <2>3, TailStep DEF PushHelp, SwingTail
<1> QED BY <1>5, <1>6

LEMMA PopHelpStep ==
  ASSUME QueueInv, NEW t \in Threads, PopHelp(t), UNCHANGED use
  PROVE  QueueInv'
<1>1. th[t].pc = "pophelp" /\ TypeOK /\ RoleOf(t) /\ PopKnows(t)
  BY DEF PopHelp, QueueInv, Knowledge
<1>2. /\ Moved(t) /\ th'[t].pc = "head" /\ th'[t].new = th[t].new /\ th'[t].doomed = th[t].doomed
  BY <1>1 DEF PopHelp, SwingTail, GoTo, TypeOK, Moved, Calls, PushPCs, PopPCs
<1>3. Local(t)
  BY <1>1, <1>2 DEF Local, Steady, PopHelp, SwingTail, Fresh, Held, Carried, Linking
<1>4. RoleOf(t)' /\ PushKnows(t)' /\ PopKnows(t)'
  BY <1>1, <1>2, <1>3, Forgets, LocalList DEF RoleOf, PushPCs, PopPCs, Local, Steady
<1>5. CASE tail' = tail
  <2>1. TypeOK'
    BY <1>1, <1>2, <1>5 DEF PopHelp, SwingTail, TypeOK, Moved
  <2> QED BY <1>1, <1>2, <1>3, <1>4, <1>5, <2>1, QuietStep DEF PopHelp, SwingTail
<1>6. CASE tail' # tail
  <2>1. tail = th[t].tail /\ tail' = th[t].next
    BY <1>6 DEF PopHelp, SwingTail
  <2>2. tail # Last /\ tail' = Last
    BY <1>1, <2>1, NextIsLast DEF PopKnows
  <2>3. TypeOK'
    <3>1. Last \in Nodes
      BY ListFacts DEF QueueInv
    <3> QED BY <1>1, <1>2, <2>2, <3>1 DEF PopHelp, SwingTail, TypeOK, Moved
  <2> QED BY <1>1, <1>2, <1>3, <1>4, <2>2, <2>3, TailStep DEF PopHelp, SwingTail
<1> QED BY <1>5, <1>6

LEMMA PushSwingStep ==
  ASSUME QueueInv, NEW t \in Threads, PushSwing(t), UNCHANGED use
  PROVE  QueueInv'
<1>1. th[t].pc = "swing" /\ TypeOK /\ RoleOf(t) /\ PushKnows(t)
  BY DEF PushSwing, QueueInv, Knowledge
<1>2. /\ Moved(t) /\ th'[t].pc = "grow" /\ th'[t].new = th[t].new /\ th'[t].doomed = th[t].doomed
  BY <1>1 DEF PushSwing, SwingTail, GoTo, TypeOK, Moved, Calls, PushPCs, PopPCs
<1>3. Local(t) /\ (Pair' <=> Pair) /\ Last' = Last
  <2>1. Local(t)
    BY <1>1, <1>2 DEF Local, Steady, PushSwing, SwingTail, Fresh, Held, Carried, Linking
  <2> QED BY <2>1, LocalList
<1>4. RoleOf(t)' /\ PushKnows(t)' /\ PopKnows(t)'
  BY <1>1, <1>2, <1>3, Forgets DEF RoleOf, PushPCs, PopPCs, Local, Steady
<1>5. CASE tail' = tail
  <2>1. TypeOK'
    BY <1>1, <1>2, <1>5 DEF PushSwing, SwingTail, TypeOK, Moved
  <2>2. Pair => tail = Last
    <3>1. tail = th[t].tail => tail = Last \/ use.weak
      <4>1. CASE tail = th[t].tail /\ tail' = th[t].new
        <5>1. tail \in live /\ tail \in Nodes
          BY ListFacts DEF QueueInv, Placed
        <5>2. node[tail].next = tail /\ tail # Nil
          BY <1>1, <1>5, <4>1, <5>1, QueueAssumption DEF PushKnows
        <5> QED BY <5>2, NextIsLast
      <4> QED BY <4>1 DEF PushSwing, SwingTail
    <3> QED BY <1>1, <3>1 DEF PushKnows, Pair, PairUse
  <2>3. PairTail'
    BY <1>3, <1>5, <2>2 DEF PairTail
  <2>4. RetiredCounted'
    <3>1. Counting' = Counting
      BY <1>1, <1>2 DEF Moved, Counting
    <3> QED BY <1>3, <3>1 DEF QueueInv, RetiredCounted, PushSwing, SwingTail
  <2> QED BY <1>3, <1>4, <1>5, <2>1, <2>3, <2>4, LocalStep
<1>6. CASE tail' # tail
  <2>1. tail = th[t].tail /\ tail' = th[t].new
    BY <1>6 DEF PushSwing, SwingTail
  <2>2. tail \in live
    BY ListFacts DEF QueueInv, Placed
  <2>3. node[tail].next = th[t].new /\ th[t].new # Nil
    BY <1>1, <2>1, <2>2, QueueAssumption DEF PushKnows
  <2>4. tail # Last /\ tail' = Last
    BY <2>1, <2>3, NextIsLast
  <2>5. TypeOK'
    BY <1>1, <1>2, <2>1 DEF PushSwing, SwingTail, TypeOK, Moved, PushKnows
  <2> QED BY <1>1, <1>2, <1>3, <1>4, <2>4, <2>5, TailStep DEF PushSwing, SwingTail
<1> QED BY <1>5, <1>6

LEMMA NoCallIs ==
  /\ NoCall \in Calls /\ NoCall.pc = "idle" /\ NoCall.doomed = {}
BY DEF NoCall, Calls, Pointers, Optional

LEMMA PushCountStep ==
  ASSUME QueueInv, NEW t \in Threads, PushCount(t), UNCHANGED use
  PROVE  QueueInv'
<1>1. th[t].pc = "grow" /\ TypeOK /\ RoleOf(t)
  BY DEF PushCount, QueueInv, Knowledge
<1>2. Moved(t) /\ th'[t].pc = "idle" /\ th'[t].doomed = {} /\ th[t].doomed = {}
  BY <1>1, NoCallIs DEF PushCount, TypeOK, Moved, RoleOf
<1>3. Local(t) /\ tail' = tail
  BY <1>1, <1>2 DEF Local, Steady, PushCount, Fresh, Held, Carried, Linking
<1>4. RoleOf(t)' /\ PushKnows(t)' /\ PopKnows(t)'
  BY <1>2, Forgets DEF RoleOf, PushPCs, PopPCs
<1>5. size' \in 0 .. SizeMod - 1
  BY <1>1, QueueAssumption DEF PushCount, TypeOK
<1>6. TypeOK'
  BY <1>1, <1>2, <1>5 DEF PushCount, TypeOK, Moved
<1> QED BY <1>1, <1>2, <1>3, <1>4, <1>6, QuietStep DEF PushCount

-----------------------------------------------------------------------------
(* pop, step by step: the steps that touch neither list nor nodes.            *)

LEMMA popStep ==
  ASSUME QueueInv, NEW t \in Threads, pop(t), UNCHANGED use, t \in Consumers \intersect use.threads
  PROVE  QueueInv'
<1>1. th[t].pc \in {"idle", "head"} /\ TypeOK /\ RoleOf(t)
  BY DEF pop, QueueInv, Knowledge
<1>2. /\ Moved(t) /\ th'[t].pc = "poptail" /\ th'[t].head = head
      /\ th'[t].new = th[t].new /\ th'[t].doomed = th[t].doomed
  BY <1>1 DEF pop, TypeOK, Moved, Calls, PushPCs, PopPCs, Pointers
<1>3. Local(t) /\ tail' = tail
  BY <1>1, <1>2 DEF Local, Steady, pop, Fresh, Held, Carried, Linking
<1>4. TypeOK'
  BY <1>1, <1>2 DEF pop, TypeOK, Moved
<1>5. /\ Placed' = Placed /\ Linked' = Linked /\ (Pair' <=> Pair) /\ use' = use /\ head' = head
      /\ head \in Placed
  BY <1>3, LocalList, ListFacts DEF Local, Steady, QueueInv
<1>6. RoleOf(t)' /\ PushKnows(t)' /\ PopKnows(t)'
  BY <1>1, <1>2, <1>5 DEF RoleOf, PushKnows, PopKnows, PushPCs, PopPCs, Looking
<1> QED BY <1>1, <1>2, <1>3, <1>4, <1>6, QuietStep DEF pop

LEMMA PopLoadTailStep ==
  ASSUME QueueInv, NEW t \in Threads, PopLoadTail(t), UNCHANGED use
  PROVE  QueueInv'
<1>1. th[t].pc = "poptail" /\ TypeOK /\ RoleOf(t) /\ PopKnows(t)
  BY DEF PopLoadTail, QueueInv, Knowledge
<1>2. /\ Moved(t) /\ th'[t].pc = "popnext" /\ th'[t].head = th[t].head /\ th'[t].tail = tail
      /\ th'[t].new = th[t].new /\ th'[t].doomed = th[t].doomed
  BY <1>1 DEF PopLoadTail, TypeOK, Moved, Calls, PushPCs, PopPCs, Pointers
<1>3. Local(t) /\ tail' = tail
  BY <1>1, <1>2 DEF Local, Steady, PopLoadTail, Fresh, Held, Carried, Linking
<1>4. TypeOK'
  BY <1>1, <1>2 DEF PopLoadTail, TypeOK, Moved
<1>5. Placed' = Placed /\ Linked' = Linked /\ (Pair' <=> Pair) /\ use' = use /\ head' = head
  BY <1>3, LocalList DEF Local, Steady
<1>6. RoleOf(t)' /\ PushKnows(t)'
  BY <1>1, <1>2, <1>5 DEF RoleOf, PushKnows, PushPCs, PopPCs
<1>7. PopKnows(t)'
  BY <1>1, <1>2, <1>3, <1>5 DEF PopKnows, Looking
<1> QED BY <1>1, <1>2, <1>3, <1>4, <1>6, <1>7, QuietStep DEF PopLoadTail

LEMMA PopLoadNextStep ==
  ASSUME QueueInv, NEW t \in Threads, PopLoadNext(t), UNCHANGED use
  PROVE  QueueInv'
<1>1. /\ th[t].pc = "popnext" /\ TypeOK /\ RoleOf(t) /\ PopKnows(t)
      /\ th[t].head \in Nodes /\ th[t].head \in live /\ th[t].head \in Placed
  BY DEF PopLoadNext, QueueInv, Knowledge, PopKnows, Looking, Placed, TypeOK
<1>2. node[th[t].head].next \in Pointers
  BY <1>1 DEF TypeOK, Cells
<1>3. /\ Moved(t) /\ th'[t].pc = "popvalidate" /\ th'[t].next = node[th[t].head].next
      /\ th'[t].head = th[t].head /\ th'[t].tail = th[t].tail
      /\ th'[t].new = th[t].new /\ th'[t].doomed = th[t].doomed
  BY <1>1, <1>2 DEF PopLoadNext, TypeOK, Moved, Calls, PushPCs, PopPCs
<1>4. Local(t) /\ tail' = tail
  BY <1>1, <1>3 DEF Local, Steady, PopLoadNext, Fresh, Held, Carried, Linking
<1>5. TypeOK'
  BY <1>1, <1>3 DEF PopLoadNext, TypeOK, Moved
<1>6. /\ Placed' = Placed /\ Linked' = Linked /\ (Pair' <=> Pair) /\ use' = use /\ head' = head
      /\ node' = node
  BY <1>4, LocalList DEF Local, Steady
<1>7. RoleOf(t)' /\ PushKnows(t)'
  BY <1>1, <1>3, <1>6 DEF RoleOf, PushKnows, PushPCs, PopPCs
<1>8. node[th[t].head].next = Nil => t \in sawEmpty'
  <2>1. SUFFICES ASSUME node[th[t].head].next = Nil PROVE th[t].head = head
    BY <2>1 DEF PopLoadNext
  <2>2. th[t].head = Last /\ Last \in Linked
    BY <1>1, <2>1, ListFacts DEF QueueInv, NodesInv
  <2> QED BY <1>1, <2>2 DEF PopKnows, Looking
<1>9. node[th[t].head].next # Nil => node[th[t].head].next \in Placed
  <2>1. CASE Pair
    <3>1. th[t].head = head /\ head \in Linked /\ Linked \subseteq Placed
      BY <1>1, <2>1, ListFacts DEF PopKnows, QueueInv, Looking
    <3> QED BY <3>1, ListFacts DEF QueueInv
  <2>2. CASE ~Pair
    BY <1>1, <2>2 DEF QueueInv, NodesInv
  <2> QED BY <2>1, <2>2
<1>10. PopKnows(t)'
  BY <1>1, <1>3, <1>4, <1>6, <1>8, <1>9 DEF PopKnows, Looking
<1> QED BY <1>1, <1>3, <1>4, <1>5, <1>7, <1>10, QuietStep DEF PopLoadNext

LEMMA PopValidateStep ==
  ASSUME QueueInv, NEW t \in Threads, PopValidate(t), UNCHANGED use
  PROVE  QueueInv'
<1>1. th[t].pc = "popvalidate" /\ TypeOK /\ RoleOf(t) /\ PopKnows(t) /\ th[t].doomed = {}
  BY DEF PopValidate, QueueInv, Knowledge, RoleOf
<1>2. CASE head = th[t].head /\ th[t].head = th[t].tail /\ th[t].next = Nil
  <2>1. Moved(t) /\ th'[t].pc = "idle" /\ th'[t].doomed = {}
    BY <1>1, <1>2, NoCallIs DEF PopValidate, TypeOK, Moved
  <2>2. Local(t) /\ tail' = tail
    BY <1>1, <1>2, <2>1 DEF Local, Steady, PopValidate, Fresh, Held, Carried, Linking
  <2>3. TypeOK'
    BY <1>1, <1>2, <2>1 DEF PopValidate, TypeOK, Moved, Optional
  <2>4. RoleOf(t)' /\ PushKnows(t)' /\ PopKnows(t)'
    BY <2>1, Forgets DEF RoleOf, PushPCs, PopPCs
  <2> QED BY <1>1, <2>1, <2>2, <2>3, <2>4, QuietStep DEF PopValidate
<1>3. CASE ~(head = th[t].head /\ th[t].head = th[t].tail /\ th[t].next = Nil)
  <2> DEFINE to == IF head # th[t].head THEN "head"
                   ELSE IF th[t].head = th[t].tail THEN "pophelp"
                   ELSE IF th[t].next = Nil THEN "head" ELSE "data"
  <2>1. /\ to \in {"head", "pophelp", "data"} /\ th' = [th EXCEPT ![t].pc = to]
        /\ UNCHANGED <<out, sawEmpty>>
        /\ to = "pophelp" => th[t].next # Nil /\ th[t].head = th[t].tail
        /\ to = "data" => th[t].next # Nil /\ head = th[t].head /\ th[t].head # th[t].tail
    BY <1>3 DEF PopValidate, GoTo
  <2> HIDE DEF to
  <2>2. /\ Moved(t) /\ th'[t].pc = to /\ th'[t].next = th[t].next /\ th'[t].head = th[t].head
        /\ th'[t].tail = th[t].tail /\ th'[t].new = th[t].new /\ th'[t].doomed = th[t].doomed
    BY <1>1, <2>1 DEF TypeOK, Moved, Calls, PushPCs, PopPCs
  <2>3. Local(t) /\ tail' = tail
    BY <1>1, <2>1, <2>2 DEF Local, Steady, PopValidate, Fresh, Held, Carried, Linking
  <2>4. TypeOK'
    BY <1>1, <2>1, <2>2 DEF PopValidate, TypeOK, Moved
  <2>5. /\ Placed' = Placed /\ Linked' = Linked /\ (Pair' <=> Pair) /\ use' = use /\ head' = head
        /\ node' = node
    BY <2>3, LocalList DEF Local, Steady
  <2>6. RoleOf(t)' /\ PushKnows(t)'
    BY <1>1, <2>1, <2>2, <2>5 DEF RoleOf, PushKnows, PushPCs, PopPCs
  <2>7. PopKnows(t)'
    BY <1>1, <2>1, <2>2, <2>3, <2>5 DEF PopKnows, Looking
  <2> QED BY <1>1, <2>1, <2>2, <2>3, <2>4, <2>6, <2>7, QuietStep DEF PopValidate
<1> QED BY <1>2, <1>3

LEMMA PopReadDataStep ==
  ASSUME QueueInv, NEW t \in Threads, PopReadData(t), UNCHANGED use
  PROVE  QueueInv'
<1>1. /\ th[t].pc = "data" /\ TypeOK /\ RoleOf(t) /\ PopKnows(t)
      /\ th[t].next \in Nodes /\ th[t].next \in live
  BY DEF PopReadData, QueueInv, Knowledge, PopKnows, Placed, TypeOK
<1>2. node[th[t].next].data \in Optional
  BY <1>1 DEF TypeOK, Cells
<1>3. /\ Moved(t) /\ th'[t].pc = "unlink" /\ th'[t].data = node[th[t].next].data
      /\ th'[t].next = th[t].next /\ th'[t].head = th[t].head
      /\ th'[t].new = th[t].new /\ th'[t].doomed = th[t].doomed
  BY <1>1, <1>2 DEF PopReadData, TypeOK, Moved, Calls, PushPCs, PopPCs
<1>4. Local(t) /\ tail' = tail
  BY <1>1, <1>3 DEF Local, Steady, PopReadData, Fresh, Held, Carried, Linking
<1>5. TypeOK'
  BY <1>1, <1>3 DEF PopReadData, TypeOK, Moved
<1>6. /\ Placed' = Placed /\ Linked' = Linked /\ (Pair' <=> Pair) /\ use' = use /\ head' = head
      /\ node' = node
  BY <1>4, LocalList DEF Local, Steady
<1>7. RoleOf(t)' /\ PushKnows(t)'
  BY <1>1, <1>3, <1>6 DEF RoleOf, PushKnows, PushPCs, PopPCs
<1>8. PopKnows(t)'
  BY <1>1, <1>3, <1>4, <1>6 DEF PopKnows, Looking
<1> QED BY <1>1, <1>3, <1>4, <1>5, <1>7, <1>8, QuietStep DEF PopReadData

LEMMA PopCountStep ==
  ASSUME QueueInv, NEW t \in Threads, PopCount(t), UNCHANGED use
  PROVE  QueueInv'
<1>1. th[t].pc = "shrink" /\ TypeOK /\ RoleOf(t)
  BY DEF PopCount, QueueInv, Knowledge
<1>2. /\ Moved(t) /\ th'[t].pc = "retire" /\ th'[t].head = th[t].head
      /\ th'[t].new = th[t].new /\ th'[t].doomed = th[t].doomed
  BY <1>1 DEF PopCount, GoTo, TypeOK, Moved, Calls, PushPCs, PopPCs
<1>3. Local(t) /\ tail' = tail
  BY <1>1, <1>2 DEF Local, Steady, PopCount, Fresh, Held, Carried, Linking
<1>4. RoleOf(t)' /\ PushKnows(t)' /\ PopKnows(t)'
  BY <1>1, <1>2, <1>3, Forgets DEF RoleOf, PushPCs, PopPCs, Local, Steady
<1>5. size' \in 0 .. SizeMod - 1
  BY <1>1, QueueAssumption DEF PopCount, TypeOK
<1>6. TypeOK'
  BY <1>1, <1>2, <1>5 DEF PopCount, TypeOK, Moved
<1> QED BY <1>1, <1>2, <1>3, <1>4, <1>6, QuietStep DEF PopCount

LEMMA CountRetiredStep ==
  ASSUME QueueInv, NEW t \in Threads, CountRetired(t), UNCHANGED use
  PROVE  QueueInv'
<1>1. th[t].pc = "count" /\ TypeOK /\ RoleOf(t)
  BY DEF CountRetired, QueueInv, Knowledge
<1>2. /\ Moved(t) /\ th'[t].pc = "reclaim" /\ th'[t].head = th[t].head
      /\ th'[t].new = th[t].new /\ th'[t].doomed = th[t].doomed
  BY <1>1, SMTT(30) DEF CountRetired, GoTo, TypeOK, Moved, Calls, PushPCs, PopPCs
<1>3. Local(t) /\ tail' = tail
  BY <1>1, <1>2 DEF Local, Steady, CountRetired, Fresh, Held, Carried, Linking
<1>4. RoleOf(t)' /\ PushKnows(t)' /\ PopKnows(t)'
  BY <1>1, <1>2, <1>3, Forgets DEF RoleOf, PushPCs, PopPCs, Local, Steady
<1>5. TypeOK'
  BY <1>1, <1>2 DEF CountRetired, TypeOK, Moved
<1>6. PairTail'
  <2>1. \A u \in Threads : th[u].pc = "swing" => th'[u].pc = "swing"
    BY <1>1, <1>2 DEF Moved
  <2> QED BY <1>3, <2>1, LocalList DEF QueueInv, PairTail
<1>7. RetiredCounted'
  <2>1. IsFiniteSet(Counting)
    BY FS_Subset, QueueAssumption DEF Counting
  <2>2. Counting' = Counting \ {t} /\ t \in Counting
    BY <1>1, <1>2 DEF Counting, Moved
  <2>3. /\ Cardinality(Counting') = Cardinality(Counting) - 1
        /\ Cardinality(Counting) \in Nat
    BY <2>1, <2>2, FS_RemoveElement, FS_CardinalityType
  <2>4. retired' = retired /\ (Pair' <=> Pair) /\ count' = count + 1 /\ count \in Nat
    BY <1>1, <1>3, LocalList DEF CountRetired, TypeOK
  <2>5. IsFiniteSet(retired) /\ Cardinality(retired) \in Nat
    BY <1>1, FS_Subset, FS_CardinalityType, QueueAssumption DEF TypeOK
  <2> QED BY <2>3, <2>4, <2>5 DEF QueueInv, RetiredCounted
<1> QED BY <1>3, <1>4, <1>5, <1>6, <1>7, LocalStep

(* Without a pair the counter stays below the threshold.                      *)
LEMMA BelowThreshold ==
  ASSUME SafeUses, QueueInv, ~Pair
  PROVE  count < use.threshold
<1>1. use \in Uses /\ use.threshold \in Nat /\ use.threshold > Cardinality(Nodes)
  BY QueueAssumption DEF QueueInv, TypeOK, SafeUses, Pair
<1>2. Cardinality(Counting) \in Nat
  <2>1. IsFiniteSet(Counting)
    BY FS_Subset, QueueAssumption DEF Counting
  <2> QED BY <2>1, FS_CardinalityType
<1>3. Cardinality(retired) <= Cardinality(Nodes) /\ Cardinality(retired) \in Nat
      /\ Cardinality(Nodes) \in Nat
  BY FS_Subset, FS_CardinalityType, QueueAssumption DEF QueueInv, TypeOK
<1> QED BY <1>1, <1>2, <1>3 DEF QueueInv, RetiredCounted, TypeOK

LEMMA try_reclaimStep ==
  ASSUME SafeUses, QueueInv, NEW t \in Threads, try_reclaim(t), UNCHANGED use
  PROVE  QueueInv'
<1>1. th[t].pc = "reclaim" /\ TypeOK /\ RoleOf(t) /\ th[t].doomed = {}
  BY DEF try_reclaim, QueueInv, Knowledge, RoleOf
<1>2. /\ Moved(t) /\ th'[t].pc \in {"idle", "detach"} /\ th'[t].doomed = {}
      /\ th'[t].pc = "detach" => ~(count < use.threshold)
  <2>1. CASE count < use.threshold
    BY <1>1, <2>1, NoCallIs DEF try_reclaim, TypeOK, Moved
  <2>2. CASE ~(count < use.threshold)
    BY <1>1, <2>2 DEF try_reclaim, GoTo, TypeOK, Moved, Calls, PushPCs, PopPCs
  <2> QED BY <2>1, <2>2
<1>3. Local(t) /\ tail' = tail
  BY <1>1, <1>2 DEF Local, Steady, try_reclaim, Fresh, Held, Carried, Linking
<1>4. Pair' <=> Pair
  BY <1>3, LocalList
<1>5. RoleOf(t)' /\ PushKnows(t)' /\ PopKnows(t)'
  BY <1>1, <1>2, <1>3, <1>4, BelowThreshold, Forgets DEF RoleOf, PushPCs, PopPCs, Local, Steady
<1>6. TypeOK'
  BY <1>1, <1>2 DEF try_reclaim, TypeOK, Moved
<1> QED BY <1>1, <1>2, <1>3, <1>5, <1>6, QuietStep DEF try_reclaim

LEMMA ResetCountStep ==
  ASSUME QueueInv, NEW t \in Threads, ResetCount(t), UNCHANGED use
  PROVE  QueueInv'
<1>1. th[t].pc = "reset" /\ TypeOK /\ RoleOf(t) /\ Pair
  BY DEF ResetCount, QueueInv, Knowledge, RoleOf
<1>2. /\ Moved(t) /\ th'[t].pc = "delete" /\ th'[t].head = th[t].head
      /\ th'[t].new = th[t].new /\ th'[t].doomed = th[t].doomed
  BY <1>1 DEF ResetCount, GoTo, TypeOK, Moved, Calls, PushPCs, PopPCs
<1>3. Local(t) /\ tail' = tail
  BY <1>1, <1>2 DEF Local, Steady, ResetCount, Fresh, Held, Carried, Linking
<1>4. Last' = Last /\ (Pair' <=> Pair) /\ use' = use
  BY <1>3, LocalList
<1>5. RoleOf(t)' /\ PushKnows(t)' /\ PopKnows(t)'
  BY <1>1, <1>2, <1>4, Forgets DEF RoleOf, PushPCs, PopPCs
<1>6. TypeOK'
  BY <1>1, <1>2 DEF ResetCount, TypeOK, Moved
<1>7. PairTail'
  <2>1. \A u \in Threads : th[u].pc = "swing" => th'[u].pc = "swing"
    BY <1>1, <1>2 DEF Moved
  <2> QED BY <1>3, <1>4, <2>1 DEF QueueInv, PairTail
<1>8. RetiredCounted'
  BY <1>1, <1>4 DEF RetiredCounted
<1> QED BY <1>3, <1>5, <1>6, <1>7, <1>8, LocalStep

-----------------------------------------------------------------------------
(* The steps that move nodes between the list, the retired list and threads.  *)

LEMMA retire_nodeStep ==
  ASSUME QueueInv, NEW t \in Threads, retire_node(t), UNCHANGED use
  PROVE  QueueInv'
<1>1. th[t].pc = "retire" /\ TypeOK /\ RoleOf(t) /\ PlacesInv
  BY DEF retire_node, QueueInv, Knowledge
<1>2. /\ Moved(t) /\ th'[t].pc = "count" /\ th'[t].doomed = {} /\ th[t].doomed = {}
  BY <1>1 DEF retire_node, GoTo, TypeOK, Moved, Calls, PushPCs, PopPCs, RoleOf
<1>3. Steady(t) /\ tail' = tail
  BY <1>1, <1>2 DEF Steady, retire_node, Fresh, Linking
<1>4. Last' = Last /\ (Pair' <=> Pair) /\ Linked' = Linked /\ live' = live
  BY <1>3, SteadyList DEF Steady
<1>5. RoleOf(t)' /\ PushKnows(t)' /\ PopKnows(t)'
  BY <1>1, <1>2, <1>3, Forgets DEF RoleOf, PushPCs, PopPCs, Steady
<1>6. Held(t, th[t].head) /\ th[t].head \in Pointers
  BY <1>1 DEF TypeOK, Calls, Held, Carried
<1>7. th[t].head \in live /\ th[t].head \notin Linked /\ th[t].head \notin retired
  BY <1>1, <1>6 DEF PlacesInv
<1>8. TypeOK'
  BY <1>1, <1>2, <1>7 DEF retire_node, TypeOK, Moved
<1>9. PlacesInv'
  <2>1. \A u \in Threads, n \in Pointers : Held(u, n)' <=> (Held(u, n) /\ n # th[t].head)
    <3>1. \A n \in Pointers : ~Held(t, n)' /\ (Held(t, n) <=> n = th[t].head)
      BY <1>1, <1>2 DEF Held, Fresh, Carried, Linking
    <3>2. ASSUME NEW u \in Threads \ {t}, NEW n \in Pointers
          PROVE  (Held(u, n)' <=> Held(u, n)) /\ (Held(u, n) => n # th[t].head)
      BY <1>1, <1>2, <1>6 DEF Moved, Held, Fresh, Carried, PlacesInv
    <3> QED BY <3>1, <3>2
  <2>2. retired' = retired \union {th[t].head}
    BY DEF retire_node
  <2>3. live \subseteq Pointers
    BY <1>1 DEF TypeOK, Pointers
  <2> QED BY <1>1, <1>4, <1>7, <2>1, <2>2, <2>3 DEF PlacesInv
<1>10. PairTail'
  <2>1. \A u \in Threads : th[u].pc = "swing" => th'[u].pc = "swing"
    BY <1>1, <1>2 DEF Moved
  <2> QED BY <1>3, <1>4, <2>1 DEF QueueInv, PairTail
<1>11. RetiredCounted'
  <2>1. IsFiniteSet(Counting) /\ IsFiniteSet(retired)
    BY <1>1, FS_Subset, QueueAssumption DEF Counting, TypeOK
  <2>2. Counting' = Counting \union {t} /\ t \notin Counting
    BY <1>1, <1>2 DEF Counting, Moved
  <2>3. /\ Cardinality(Counting') = Cardinality(Counting) + 1
        /\ Cardinality(retired') = Cardinality(retired) + 1
    BY <1>7, <2>1, <2>2, FS_AddElement DEF retire_node
  <2>4. Cardinality(Counting) \in Nat /\ Cardinality(retired) \in Nat
    BY <2>1, FS_CardinalityType
  <2> QED BY <1>1, <1>4, <2>3, <2>4 DEF QueueInv, RetiredCounted, retire_node, TypeOK
<1> QED BY <1>3, <1>5, <1>8, <1>9, <1>10, <1>11, SteadyStep

LEMMA DetachStep ==
  ASSUME QueueInv, NEW t \in Threads, Detach(t), UNCHANGED use
  PROVE  QueueInv'
<1>1. th[t].pc = "detach" /\ TypeOK /\ RoleOf(t) /\ PlacesInv /\ Pair /\ th[t].doomed = {}
  BY DEF Detach, QueueInv, Knowledge, RoleOf
<1>2. /\ Moved(t) /\ th'[t].pc \in {"idle", "reset"} /\ th'[t].doomed = retired
      /\ th'[t].pc = "idle" => retired = {}
  <2>1. CASE retired = {}
    BY <1>1, <2>1, NoCallIs DEF Detach, TypeOK, Moved
  <2>2. CASE retired # {}
    BY <1>1, <2>2, SMTT(30) DEF Detach, TypeOK, Moved, Calls, PushPCs, PopPCs
  <2> QED BY <2>1, <2>2
<1>3. Steady(t) /\ tail' = tail
  BY <1>1, <1>2 DEF Steady, Detach, Fresh, Linking
<1>4. Last' = Last /\ (Pair' <=> Pair) /\ Linked' = Linked /\ live' = live /\ use' = use
  BY <1>3, SteadyList DEF Steady
<1>5. RoleOf(t)' /\ PushKnows(t)' /\ PopKnows(t)'
  BY <1>1, <1>2, <1>4, Forgets DEF RoleOf, PushPCs, PopPCs
<1>6. TypeOK'
  BY <1>1, <1>2 DEF Detach, TypeOK, Moved
<1>7. PlacesInv'
  <2>1. \A n \in Pointers : ~Held(t, n) /\ (Held(t, n)' <=> n \in retired)
    BY <1>1, <1>2 DEF Held, Fresh, Carried, Linking
  <2>2. \A u \in Threads \ {t}, n \in Pointers : (Held(u, n)' <=> Held(u, n)) /\ (Held(u, n) => n \notin retired)
    BY <1>1, <1>2 DEF Moved, Held, Fresh, Carried, PlacesInv
  <2>3. live \subseteq Pointers /\ retired' = {}
    BY <1>1 DEF TypeOK, Pointers, Detach
  <2> QED BY <1>1, <1>4, <2>1, <2>2, <2>3 DEF PlacesInv
<1>8. PairTail'
  <2>1. \A u \in Threads : th[u].pc = "swing" => th'[u].pc = "swing"
    BY <1>1, <1>2 DEF Moved
  <2> QED BY <1>3, <1>4, <2>1 DEF QueueInv, PairTail
<1>9. RetiredCounted'
  BY <1>1, <1>4 DEF RetiredCounted
<1> QED BY <1>3, <1>5, <1>6, <1>7, <1>8, <1>9, SteadyStep

LEMMA pushStep ==
  ASSUME QueueInv, NEW t \in Threads, NEW v \in Values, push(t, v), UNCHANGED use,
         t \in Producers \intersect use.threads
  PROVE  QueueInv'
<1>1. th[t].pc = "idle" /\ TypeOK /\ RoleOf(t) /\ PlacesInv /\ NodesInv /\ ListInv /\ th[t].doomed = {}
  BY DEF push, QueueInv, Knowledge, RoleOf
<1>2. PICK n \in Nodes : NewNode(n, v) /\ th' = [th EXCEPT ![t].pc = "tail", ![t].new = n]
  BY DEF push
<1>3. /\ Moved(t) /\ th'[t].pc = "tail" /\ th'[t].new = n /\ th'[t].doomed = {}
  <2>1. th \in [Threads -> Calls] /\ th[t].doomed = {} /\ n \in Pointers
    BY <1>1 DEF TypeOK, Pointers
  <2>2. th' = [th EXCEPT ![t].pc = "tail", ![t].new = n]
    BY <1>2
  <2>3. th' \in [Threads -> Calls]
    <3>1. "tail" \in PushPCs \union PopPCs \union {"idle"}
      BY DEF PushPCs
    <3> QED BY <2>1, <2>2, <3>1, ZenonT(40) DEF Calls
  <2>4. th'[t].pc = "tail" /\ th'[t].new = n /\ th'[t].doomed = {} /\ \A u \in Threads \ {t} : th'[u] = th[u]
    BY <2>1, <2>2 DEF Calls
  <2> QED BY <2>3, <2>4 DEF Moved
<1>4. /\ n \notin live /\ live' = live \union {n} /\ node' \in [Nodes -> Cells]
      /\ node'[n].data = v /\ node'[n].next = Nil
      /\ \A m \in Nodes \ {n} : node'[m] = node[m]
  BY <1>1, <1>2 DEF NewNode, TypeOK, Cells, Optional, Pointers
<1>5. /\ head' = head /\ tail' = tail /\ linked' = linked /\ retired' = retired /\ count' = count
      /\ sawEmpty' = sawEmpty /\ use' = use
  BY DEF push
<1>6. Last' = Last /\ Linked' = Linked /\ (Pair' <=> Pair)
  BY <1>5 DEF Last, Linked, Pair, PairUse
<1>7. /\ \A m \in Pointers : (Fresh(t, m)' <=> m = n) /\ ~Fresh(t, m) /\ (Held(t, m)' <=> m = n) /\ ~Held(t, m)
      /\ \A u \in Threads \ {t}, m \in Pointers : (Fresh(u, m)' <=> Fresh(u, m)) /\ (Held(u, m)' <=> Held(u, m))
  BY <1>1, <1>3 DEF Fresh, Held, Carried, Linking, Moved
<1>8. live \subseteq Nodes /\ live' \subseteq Nodes /\ Nodes \subseteq Pointers
  BY <1>1, <1>4 DEF TypeOK, Pointers
<1>9. Placed' = Placed
  BY <1>4, <1>7, <1>8 DEF Placed
<1>10. Linked \subseteq live /\ Linked \subseteq Nodes /\ Placed \subseteq live
  BY <1>1, ListFacts DEF ListInv, Placed
<1>11. TypeOK'
  BY <1>1, <1>3, <1>4 DEF push, TypeOK, Moved
<1>12. ListInv'
  <2>1. \A i \in DOMAIN linked : linked[i] \in Nodes \ {n}
    BY <1>4, <1>10 DEF Linked
  <2> QED BY <1>1, <1>4, <1>5, <1>6, <1>10, <2>1 DEF ListInv, ListSound
<1>13. PlacesInv'
  BY <1>1, <1>4, <1>5, <1>6, <1>7, <1>8, <1>10 DEF PlacesInv
<1>14. NodesInv'
  <2>1. \A u \in Threads \ {t} : th'[u] = th[u]
    BY <1>3 DEF Moved
  <2> QED BY <1>1, <1>3, <1>4, <1>6, <1>8, <1>9, <1>10, <2>1 DEF NodesInv
<1>15. ASSUME NEW u \in Threads \ {t} PROVE (RoleOf(u) /\ PushKnows(u) /\ PopKnows(u))'
  <2>1. RoleOf(u) /\ PushKnows(u) /\ PopKnows(u) /\ th'[u] = th[u]
    BY <1>3 DEF QueueInv, Knowledge, Moved
  <2>2. RoleOf(u)'
    BY <1>5, <1>6, <2>1 DEF RoleOf
  <2>3. \A m \in Placed : node'[m] = node[m]
    BY <1>4, <1>8, <1>10
  <2>4. PushKnows(u)'
    <3>1. CASE th[u].pc = "swing"
      <4>1. th[u].tail = n => ~Pair
        BY <2>1, <3>1 DEF RoleOf, Pair, PairUse, PushPCs
      <4>2. th[u].tail \in live' => th[u].tail \in live /\ node'[th[u].tail] = node[th[u].tail]
        BY <1>4, <1>8, <2>1, <3>1, <4>1 DEF PushKnows
      <4> QED BY <1>4, <1>5, <1>6, <2>1, <3>1, <4>2 DEF PushKnows
    <3>2. CASE th[u].pc # "swing"
      BY <1>5, <1>6, <1>9, <2>1, <2>3, <3>2 DEF PushKnows
    <3> QED BY <3>1, <3>2
  <2>5. PopKnows(u)'
    BY <1>5, <1>6, <1>9, <2>1, <2>3 DEF PopKnows, Looking
  <2> QED BY <2>2, <2>4, <2>5
<1>16. RoleOf(t)' /\ PushKnows(t)' /\ PopKnows(t)'
  BY <1>3, <1>5, Forgets DEF RoleOf, PushPCs, PopPCs
<1>17. PairTail'
  <2>1. \A u \in Threads : th[u].pc = "swing" => th'[u].pc = "swing"
    BY <1>1, <1>3 DEF Moved
  <2> QED BY <1>5, <1>6, <2>1 DEF QueueInv, PairTail
<1>18. RetiredCounted'
  <2>1. Counting' = Counting
    BY <1>1, <1>3 DEF Counting, Moved
  <2> QED BY <1>5, <1>6, <2>1 DEF QueueInv, RetiredCounted
<1> QED BY <1>11, <1>12, <1>13, <1>14, <1>15, <1>16, <1>17, <1>18 DEF QueueInv, Knowledge

LEMMA DeleteStep ==
  ASSUME QueueInv, NEW t \in Threads, Delete(t), UNCHANGED use
  PROVE  QueueInv'
<1>1. th[t].pc = "delete" /\ TypeOK /\ RoleOf(t) /\ PlacesInv /\ NodesInv /\ ListInv /\ Pair
  BY DEF Delete, QueueInv, Knowledge, RoleOf
<1>2. PICK n \in th[t].doomed :
        /\ live' = live \ {n} /\ node' = [node EXCEPT ![n] = Blank]
        /\ th' = IF th[t].doomed = {n} THEN [th EXCEPT ![t] = NoCall]
                 ELSE [th EXCEPT ![t].doomed = @ \ {n}]
  BY DEF Delete
<1>3. th[t].doomed \subseteq Nodes /\ n \in Nodes
  BY <1>1 DEF TypeOK, Calls
<1>4. /\ Moved(t) /\ th'[t].pc \in {"idle", "delete"} /\ th'[t].doomed = th[t].doomed \ {n}
      /\ th'[t].pc = "idle" => th'[t].doomed = {}
  <2>1. CASE th[t].doomed = {n}
    BY <1>1, <1>2, <2>1, NoCallIs DEF TypeOK, Moved
  <2>2. CASE th[t].doomed # {n}
    BY <1>1, <1>2, <1>3, <2>2 DEF TypeOK, Moved, Calls, PushPCs, PopPCs
  <2> QED BY <2>1, <2>2
<1>5. /\ node' \in [Nodes -> Cells] /\ \A m \in Nodes \ {n} : node'[m] = node[m]
  BY <1>1, <1>2, <1>3 DEF Blank, TypeOK, Cells, Optional, Pointers
<1>6. /\ head' = head /\ tail' = tail /\ linked' = linked /\ retired' = retired /\ count' = count
      /\ sawEmpty' = sawEmpty /\ use' = use
  BY DEF Delete
<1>7. Last' = Last /\ Linked' = Linked /\ (Pair' <=> Pair)
  BY <1>6 DEF Last, Linked, Pair, PairUse
<1>8. /\ n \in live /\ n \notin Linked /\ n \notin retired
      /\ \A u \in Threads : Held(u, n) => u = t
  BY <1>1, <1>3 DEF PlacesInv, Held, Pointers
<1>9. \A u \in Threads, m \in Pointers : (Fresh(u, m)' <=> Fresh(u, m)) /\ (Held(u, m)' <=> Held(u, m) /\ m # n)
  <2>1. \A m \in Pointers : ~Fresh(t, m)' /\ ~Fresh(t, m) /\ (Held(t, m)' <=> Held(t, m) /\ m # n)
    BY <1>1, <1>4 DEF Fresh, Held, Carried, Linking
  <2>2. ASSUME NEW u \in Threads \ {t}, NEW m \in Pointers
        PROVE  (Fresh(u, m)' <=> Fresh(u, m)) /\ (Held(u, m)' <=> Held(u, m) /\ m # n)
    BY <1>4, <1>8 DEF Fresh, Held, Carried, Moved
  <2> QED BY <2>1, <2>2
<1>10. live \subseteq Nodes /\ live' \subseteq Nodes /\ Nodes \subseteq Pointers
  BY <1>1, <1>2 DEF TypeOK, Pointers
<1>11. Placed' = Placed \ {n}
  BY <1>2, <1>9, <1>10 DEF Placed
<1>12. Linked \subseteq live /\ Linked \subseteq Nodes /\ Linked \subseteq Placed /\ Placed \subseteq Nodes /\ Last \in Linked
  BY <1>1, ListFacts DEF ListInv
<1>13. TypeOK'
  BY <1>1, <1>4, <1>5, <1>10 DEF Delete, TypeOK, Moved
<1>14. ListInv'
  <2>1. \A i \in DOMAIN linked : linked[i] \in Nodes \ {n}
    BY <1>8, <1>12 DEF Linked
  <2> QED BY <1>1, <1>2, <1>5, <1>6, <1>7, <1>8, <1>12, <2>1 DEF ListInv, ListSound
<1>15. PlacesInv'
  BY <1>1, <1>2, <1>6, <1>7, <1>8, <1>9, <1>10 DEF PlacesInv
<1>16. NodesInv'
  <2>1. ASSUME NEW u \in Threads, th'[u].pc \in Linking
        PROVE  th'[u] = th[u] /\ th[u].new \in live \ {n}
    <3>1. u # t
      BY <1>4, <2>1 DEF Linking
    <3>2. th'[u] = th[u] /\ th[u].new \in live
      BY <1>1, <1>4, <2>1, <3>1 DEF NodesInv, Moved
    <3> QED BY <1>8, <2>1, <3>1, <3>2 DEF Held, Fresh
  <2>2. ASSUME NEW u \in Threads, th'[u].pc \in Linking
        PROVE  /\ th'[u].new \in live' /\ node'[th'[u].new].next = Nil
               /\ node'[th'[u].new].data \in Values
    BY <1>1, <1>2, <1>5, <1>10, <2>1, <2>2 DEF NodesInv
  <2> QED BY <1>1, <1>5, <1>7, <1>11, <1>12, <2>2 DEF NodesInv
<1>17. ASSUME NEW u \in Threads \ {t} PROVE (RoleOf(u) /\ PushKnows(u) /\ PopKnows(u))'
  <2>1. RoleOf(u) /\ PushKnows(u) /\ PopKnows(u) /\ th'[u] = th[u]
    BY <1>4 DEF QueueInv, Knowledge, Moved
  <2>2. RoleOf(u)'
    BY <1>6, <1>7, <2>1 DEF RoleOf
  <2>3. PushKnows(u)'
    <3>1. CASE th[u].pc = "swing"
      BY <1>1, <1>2, <1>5, <1>6, <1>7, <1>10, <2>1, <3>1 DEF PushKnows
    <3>2. CASE th[u].pc # "swing"
      <4>1. Last \in Placed' /\ node'[Last] = node[Last]
        BY <1>5, <1>8, <1>11, <1>12
      <4> QED BY <1>1, <1>6, <1>7, <2>1, <3>2, <4>1 DEF PushKnows
    <3> QED BY <3>1, <3>2
  <2>4. PopKnows(u)'
    <3>1. th[u].pc \notin PopPCs
      BY <1>1, OneEach DEF PopPCs
    <3> QED BY <2>1, <3>1 DEF PopKnows, Looking, PopPCs
  <2> QED BY <2>2, <2>3, <2>4
<1>18. RoleOf(t)' /\ PushKnows(t)' /\ PopKnows(t)'
  BY <1>1, <1>4, <1>6, <1>7, Forgets DEF RoleOf, PushPCs, PopPCs
<1>19. PairTail'
  <2>1. \A u \in Threads : th[u].pc = "swing" => th'[u].pc = "swing"
    BY <1>1, <1>4 DEF Moved
  <2> QED BY <1>6, <1>7, <2>1 DEF QueueInv, PairTail
<1>20. RetiredCounted'
  BY <1>1, <1>7 DEF RetiredCounted
<1> QED BY <1>13, <1>14, <1>15, <1>16, <1>17, <1>18, <1>19, <1>20 DEF QueueInv, Knowledge

LEMMA LinkStep ==
  ASSUME QueueInv, NEW t \in Threads, Link(t), UNCHANGED use
  PROVE  QueueInv'
<1>1. th[t].pc = "link" /\ TypeOK /\ RoleOf(t) /\ PushKnows(t) /\ PlacesInv /\ NodesInv /\ ListInv
  BY DEF Link, QueueInv, Knowledge
<1>2. ASSUME GoTo(t, "tail"), UNCHANGED <<node, linked>> PROVE QueueInv'
  <2>1. Moved(t) /\ th'[t].pc = "tail" /\ th'[t].new = th[t].new /\ th'[t].doomed = th[t].doomed
    BY <1>1, <1>2, SMTT(30) DEF GoTo, TypeOK, Moved, Calls, PushPCs, PopPCs
  <2>2. Local(t) /\ tail' = tail
    BY <1>1, <1>2, <2>1 DEF Local, Steady, Link, Fresh, Held, Carried, Linking
  <2>3. TypeOK'
    BY <1>1, <1>2, <2>1 DEF Link, TypeOK, Moved
  <2>4. RoleOf(t)' /\ PushKnows(t)' /\ PopKnows(t)'
    BY <1>1, <2>1, <2>2, Forgets DEF RoleOf, PushPCs, PopPCs, Local, Steady
  <2> QED BY <1>1, <2>1, <2>2, <2>3, <2>4, QuietStep DEF Link
<1>3. ASSUME node[th[t].tail].next = Nil, linked' = Append(linked, th[t].new), GoTo(t, "swing"),
             node' = [node EXCEPT ![th[t].tail].next = th[t].new]
      PROVE  QueueInv'
  <2> DEFINE new == th[t].new
  <2>1. th[t].tail = Last /\ tail = Last /\ Last \in Nodes /\ Last \in live /\ Last \in Linked
    BY <1>1, <1>3, ListFacts DEF PushKnows, NodesInv, Placed
  <2>2. /\ Moved(t) /\ th'[t].pc = "swing" /\ th'[t].new = new /\ th'[t].tail = Last
        /\ th'[t].doomed = {} /\ th[t].doomed = {}
    <3>1. th \in [Threads -> Calls] /\ th' = [th EXCEPT ![t].pc = "swing"] /\ th[t].doomed = {}
      BY <1>1, <1>3 DEF GoTo, TypeOK, RoleOf
    <3>2. th' \in [Threads -> Calls]
      BY <3>1 DEF Calls, PushPCs, PopPCs
    <3> QED BY <2>1, <3>1, <3>2 DEF Moved, Calls
  <2>3. Fresh(t, new) /\ new \in live /\ new \in Nodes /\ new \in Pointers /\ node[new].next = Nil
    BY <1>1 DEF Fresh, Linking, NodesInv, TypeOK, Pointers
  <2>4. /\ new \notin Linked /\ new # Last /\ new # Nil
        /\ \A u \in Threads : Held(u, new) => u = t
    BY <1>1, <2>1, <2>3, QueueAssumption DEF PlacesInv, Held
  <2> HIDE DEF new
  <2>5. /\ live' = live /\ head' = head /\ tail' = tail /\ retired' = retired /\ count' = count
        /\ sawEmpty' = sawEmpty /\ use' = use /\ (Pair' <=> Pair)
    BY DEF Link, Pair, PairUse
  <2>6. /\ node' \in [Nodes -> Cells] /\ node'[Last].next = new
        /\ \A m \in Nodes \ {Last} : node'[m] = node[m]
        /\ \A m \in Nodes : node'[m].data = node[m].data
    BY <1>1, <1>3, <2>1, <2>3 DEF TypeOK, Cells, new
  <2>7. /\ linked' \in Seq(Nodes) /\ linked' # <<>> /\ Len(linked') = Len(linked) + 1
        /\ \A i \in 1 .. Len(linked) : linked'[i] = linked[i]
        /\ linked'[Len(linked) + 1] = new /\ Len(linked) \in Nat \ {0}
        /\ DOMAIN linked = 1 .. Len(linked) /\ DOMAIN linked' = 1 .. Len(linked) + 1
    <3>1. linked \in Seq(Nodes) /\ Len(linked) \in Nat \ {0} /\ DOMAIN linked = 1 .. Len(linked)
      BY <1>1, ListFacts DEF TypeOK
    <3>2. linked' = Append(linked, new)
      BY <1>3 DEF new
    <3>3. /\ linked' \in Seq(Nodes) /\ linked' # <<>> /\ Len(linked') = Len(linked) + 1
          /\ \A i \in 1 .. Len(linked) : linked'[i] = linked[i]
          /\ linked'[Len(linked) + 1] = new
      BY <2>3, <3>1, <3>2, AppendProperties
    <3>4. DOMAIN linked' = 1 .. Len(linked) + 1
      BY <3>3, LenProperties
    <3> QED BY <3>1, <3>3, <3>4
  <2>8. Last' = new /\ Linked' = Linked \union {new} /\ Linked \subseteq Nodes
    <3>1. Last' = new
      BY <2>7 DEF Last
    <3>2. Linked' = Linked \union {new}
      BY <2>7 DEF Linked
    <3> QED BY <1>1, <3>1, <3>2, ListFacts
  <2>9. /\ \A m \in Pointers : ~Fresh(t, m)' /\ ~Held(t, m)' /\ (Fresh(t, m) <=> m = new) /\ (Held(t, m) <=> m = new)
        /\ \A u \in Threads \ {t}, m \in Pointers : (Fresh(u, m)' <=> Fresh(u, m)) /\ (Held(u, m)' <=> Held(u, m))
    BY <1>1, <2>2 DEF Fresh, Held, Carried, Linking, Moved, new
  <2>10. live \subseteq Nodes /\ Nodes \subseteq Pointers
    BY <1>1 DEF TypeOK, Pointers
  <2>11. Placed' = Placed \union {new} /\ new \notin Placed /\ Placed \subseteq Nodes /\ Last \in Placed
    <3>1. \A m \in live : (\A u \in Threads : ~Fresh(u, m)') <=> (m = new \/ \A u \in Threads : ~Fresh(u, m))
      BY <2>3, <2>4, <2>9, <2>10 DEF Held
    <3> QED BY <1>1, <2>3, <2>5, <2>10, <3>1, ListFacts DEF Placed
  <2>12. TypeOK'
    BY <1>1, <2>2, <2>6, <2>7 DEF Link, TypeOK, Moved
  <2>13. ListInv'
    <3>1. ListSound'
      <4>1. head' = linked'[1]
        BY <1>1, <2>5, <2>7 DEF ListInv, ListSound
      <4>2. ASSUME NEW i \in 1 .. Len(linked) + 1
            PROVE  node'[linked'[i]].next = IF i = Len(linked) + 1 THEN Nil ELSE linked'[i + 1]
        <5>1. CASE i = Len(linked) + 1
          BY <2>3, <2>4, <2>6, <2>7, <5>1
        <5>2. CASE i = Len(linked)
          <6>1. Len(linked) \in Nat \ {0} /\ linked'[Len(linked)] = linked[Len(linked)]
            BY <2>7
          <6>2. linked'[i] = Last
            BY <5>2, <6>1 DEF Last
          <6>3. linked'[i + 1] = new
            BY <2>7, <5>2
          <6>4. i # Len(linked) + 1
            BY <5>2, <6>1
          <6> QED BY <2>6, <6>2, <6>3, <6>4
        <5>3. CASE i < Len(linked)
          <6>1. linked[i] \in Nodes /\ linked[i] # Last
            BY <1>1, <2>7, <2>8, <5>3 DEF ListInv, Linked, Last
          <6> QED BY <1>1, <2>6, <2>7, <5>3, <6>1 DEF ListInv, ListSound
        <5>4. i = Len(linked) + 1 \/ i = Len(linked) \/ i < Len(linked)
          <6>1. Len(linked) \in Nat
            BY <2>7
          <6> QED BY <6>1
        <5> QED BY <5>1, <5>2, <5>3, <5>4
      <4> QED BY <2>7, <4>1, <4>2 DEF ListSound
    <3>2. Linked' \subseteq live'
      BY <1>1, <2>3, <2>5, <2>8 DEF ListInv
    <3>3. \A i, j \in DOMAIN linked' : linked'[i] = linked'[j] => i = j
      <4>1. \A i \in 1 .. Len(linked) : linked[i] # new
        BY <2>4, <2>7 DEF Linked
      <4> QED BY <1>1, <2>7, <4>1 DEF ListInv
    <3>4. Len(linked') > 1 /\ tail' = linked'[Len(linked') - 1]
      BY <2>1, <2>5, <2>7 DEF Last
    <3> QED BY <3>1, <3>2, <3>3, <3>4 DEF ListInv
  <2>14. PlacesInv'
    BY <1>1, <2>3, <2>4, <2>5, <2>8, <2>9, <2>10 DEF PlacesInv, Held
  <2>15. NodesInv'
    <3>1. ASSUME NEW u \in Threads, th'[u].pc \in Linking
          PROVE  /\ th'[u].new \in live' /\ node'[th'[u].new].next = Nil
                 /\ node'[th'[u].new].data \in Values
      <4>1. u # t /\ th'[u] = th[u]
        BY <2>2, <3>1 DEF Moved, Linking
      <4>2. /\ th[u].new \in live /\ node[th[u].new].next = Nil /\ node[th[u].new].data \in Values
            /\ th[u].new \notin Linked
        BY <1>1, <2>10, <3>1, <4>1 DEF NodesInv, PlacesInv, Held, Fresh
      <4> QED BY <2>1, <2>5, <2>6, <2>10, <4>1, <4>2
    <3>2. \A n \in Placed' : node'[n].next = Nil => n = Last'
      BY <1>1, <2>4, <2>6, <2>8, <2>11 DEF NodesInv
    <3>3. ~Pair' => \A n \in Placed' : node'[n].next = Nil \/ node'[n].next \in Placed'
      BY <1>1, <2>3, <2>4, <2>5, <2>6, <2>11 DEF NodesInv
    <3> QED BY <3>1, <3>2, <3>3 DEF NodesInv
  <2>16. ASSUME NEW u \in Threads \ {t} PROVE (RoleOf(u) /\ PushKnows(u) /\ PopKnows(u))'
    <3>1. RoleOf(u) /\ PushKnows(u) /\ PopKnows(u) /\ th'[u] = th[u]
      BY <2>2 DEF QueueInv, Knowledge, Moved
    <3>2. RoleOf(u)'
      BY <2>5, <3>1 DEF RoleOf
    <3>3. node[Last].next = Nil
      BY <1>3, <2>1
    <3>4. PushKnows(u)'
      <4>1. Pair => th[u].pc \notin PushPCs
        BY <1>1, OneEach DEF PushPCs
      <4>2. CASE th[u].pc = "swing"
        <5>1. th[u].tail \in live => th[u].tail # Last
          BY <2>3, <3>1, <3>3, <4>2, QueueAssumption DEF PushKnows
        <5> QED BY <2>1, <2>5, <2>6, <2>8, <2>10, <3>1, <4>1, <4>2, <5>1 DEF PushKnows, PushPCs
      <4>3. CASE th[u].pc \in {"tailnext", "validate", "link", "help"}
        <5>1. th[u].tail \in Placed /\ ~Pair
          BY <3>1, <4>1, <4>3 DEF PushKnows, PushPCs
        <5>2. th[u].tail \in Placed' /\ th[u].tail # Last'
          BY <2>8, <2>11, <5>1
        <5>3. node[th[u].tail].next # Nil => node'[th[u].tail] = node[th[u].tail]
          BY <2>6, <2>11, <3>3, <5>1
        <5> QED BY <2>5, <3>1, <4>3, <5>1, <5>2, <5>3 DEF PushKnows
      <4>4. CASE th[u].pc \notin {"tailnext", "validate", "link", "help", "swing"}
        BY <3>1, <4>4 DEF PushKnows
      <4> QED BY <4>2, <4>3, <4>4
    <3>5. PopKnows(u)'
      <4>1. CASE th[u].pc \in Looking
        <5>1. th[u].head \in Placed' /\ (th[u].head \in Linked' => th[u].head = head')
          BY <2>5, <2>8, <2>11, <3>1, <4>1 DEF PopKnows
        <5>2. th[u].pc \in {"popvalidate", "pophelp", "data", "unlink"} /\ th[u].next # Nil =>
                /\ th[u].next \in Placed' /\ node'[th[u].head].next = th[u].next
                /\ node'[th[u].next].data = node[th[u].next].data
          <6>1. SUFFICES ASSUME th[u].pc \in {"popvalidate", "pophelp", "data", "unlink"}, th[u].next # Nil
                         PROVE  /\ th[u].next \in Placed' /\ node'[th[u].head].next = th[u].next
                                /\ node'[th[u].next].data = node[th[u].next].data
            BY <6>1
          <6>2. /\ th[u].next \in Placed /\ node[th[u].head].next = th[u].next
                /\ th[u].head \in Placed
            BY <3>1, <4>1, <6>1 DEF PopKnows
          <6> QED BY <2>6, <2>11, <3>3, <6>1, <6>2
        <5> QED BY <2>5, <3>1, <4>1, <5>1, <5>2 DEF PopKnows
      <4>2. CASE th[u].pc \notin Looking
        BY <3>1, <4>2 DEF PopKnows, Looking
      <4> QED BY <4>1, <4>2
    <3> QED BY <3>2, <3>4, <3>5
  <2>17. RoleOf(t)' /\ PopKnows(t)'
    BY <1>1, <2>2, <2>5 DEF RoleOf, PopKnows, Looking, PushPCs, PopPCs
  <2>18. PushKnows(t)'
    BY <2>1, <2>2, <2>3, <2>5, <2>6 DEF PushKnows
  <2>19. PairTail'
    BY <2>2 DEF PairTail
  <2>20. RetiredCounted'
    <3>1. Counting' = Counting
      BY <1>1, <2>2 DEF Counting, Moved
    <3> QED BY <2>5, <3>1 DEF QueueInv, RetiredCounted
  <2> QED BY <2>12, <2>13, <2>14, <2>15, <2>16, <2>17, <2>18, <2>19, <2>20 DEF QueueInv, Knowledge
<1> QED BY <1>2, <1>3 DEF Link

LEMMA UnlinkStep ==
  ASSUME QueueInv, NEW t \in Threads, Unlink(t), UNCHANGED use
  PROVE  QueueInv'
<1>1. /\ th[t].pc = "unlink" /\ TypeOK /\ RoleOf(t) /\ PopKnows(t) /\ PlacesInv /\ NodesInv /\ ListInv
      /\ th[t].doomed = {}
  BY DEF Unlink, QueueInv, Knowledge, RoleOf
<1>2. ASSUME GoTo(t, "head"), UNCHANGED <<head, linked, out>> PROVE QueueInv'
  <2>1. Moved(t) /\ th'[t].pc = "head" /\ th'[t].new = th[t].new /\ th'[t].doomed = th[t].doomed
    BY <1>1, <1>2, SMTT(30) DEF GoTo, TypeOK, Moved, Calls, PushPCs, PopPCs
  <2>2. Local(t) /\ tail' = tail
    BY <1>1, <1>2, <2>1 DEF Local, Steady, Unlink, Fresh, Held, Carried, Linking
  <2>3. TypeOK'
    BY <1>1, <1>2, <2>1 DEF Unlink, TypeOK, Moved
  <2>4. RoleOf(t)' /\ PushKnows(t)' /\ PopKnows(t)'
    BY <1>1, <2>1, <2>2, Forgets DEF RoleOf, PushPCs, PopPCs, Local, Steady
  <2> QED BY <1>1, <2>1, <2>2, <2>3, <2>4, QuietStep DEF Unlink
<1>3. ASSUME head = th[t].head, head' = th[t].next, linked' = Tail(linked), GoTo(t, "shrink"),
             out' = [out EXCEPT ![t] = th[t].data]
      PROVE  QueueInv'
  <2>1. /\ Moved(t) /\ th'[t].pc = "shrink" /\ th'[t].head = head /\ th'[t].doomed = {}
    BY <1>1, <1>3 DEF GoTo, TypeOK, Moved, Calls, PushPCs, PopPCs
  <2>2. /\ live' = live /\ node' = node /\ tail' = tail /\ retired' = retired /\ count' = count
        /\ sawEmpty' = sawEmpty /\ use' = use /\ (Pair' <=> Pair)
    BY DEF Unlink, Pair, PairUse
  <2>3. /\ linked \in Seq(Nodes) /\ linked # <<>> /\ Len(linked) \in Nat \ {0}
        /\ DOMAIN linked = 1 .. Len(linked)
        /\ head \in Linked /\ head \in live /\ head \in Nodes /\ Linked \subseteq Nodes
    BY <1>1, ListFacts DEF TypeOK, ListInv, ListSound
  <2>4. node[head].next = th[t].next /\ th[t].next # Nil /\ tail # head
    BY <1>1, <1>3 DEF PopKnows
  <2>5. Len(linked) > 1 /\ th[t].next = linked[2] /\ head = linked[1]
    <3>1. head = linked[1] /\ node[linked[1]].next = IF 1 = Len(linked) THEN Nil ELSE linked[2]
      BY <1>1, <2>3 DEF ListInv, ListSound
    <3> QED BY <2>3, <2>4, <3>1
  <2>6. /\ linked' \in Seq(Nodes) /\ Len(linked') = Len(linked) - 1
        /\ DOMAIN linked' = 1 .. Len(linked) - 1
        /\ \A i \in 1 .. Len(linked) - 1 : linked'[i] = linked[i + 1]
    BY <1>3, <2>3, HeadTailProperties, LenProperties
  <2>7. Last' = Last
    BY <2>3, <2>5, <2>6 DEF Last
  <2>8. Linked' = Linked \ {head}
    <3>1. \A i \in 1 .. Len(linked) - 1 : linked'[i] \in Linked \ {head}
      BY <1>1, <2>3, <2>5, <2>6 DEF Linked, ListInv
    <3>2. ASSUME NEW i \in 1 .. Len(linked), linked[i] # head PROVE linked[i] \in Linked'
      <4>1. i - 1 \in 1 .. Len(linked) - 1 /\ (i - 1) + 1 = i
        BY <2>3, <2>5, <3>2
      <4> QED BY <2>6, <4>1 DEF Linked
    <3> QED BY <2>3, <2>6, <3>1, <3>2 DEF Linked
  <2>9. /\ \A m \in Pointers : ~Fresh(t, m)' /\ ~Fresh(t, m) /\ (Held(t, m)' <=> m = head) /\ ~Held(t, m)
        /\ \A u \in Threads \ {t}, m \in Pointers : (Fresh(u, m)' <=> Fresh(u, m)) /\ (Held(u, m)' <=> Held(u, m))
    BY <1>1, <2>1 DEF Fresh, Held, Carried, Linking, Moved
  <2>10. live \subseteq Pointers
    BY <1>1 DEF TypeOK, Pointers
  <2>11. Placed' = Placed
    BY <2>2, <2>9, <2>10 DEF Placed
  <2>12. TypeOK'
    <3>1. out' \in [Threads -> Optional] /\ head' \in Nodes
      BY <1>1, <1>3, <2>3, <2>5 DEF TypeOK, Calls
    <3> QED BY <1>1, <2>1, <2>6, <3>1 DEF Unlink, TypeOK, Moved
  <2>13. ListInv'
    <3>1. ListSound'
      <4>1. head' = linked'[1] /\ linked' # <<>>
        <5>1. 1 \in 1 .. Len(linked) - 1 /\ Len(linked') # 0
          BY <2>3, <2>5, <2>6
        <5>2. linked'[1] = linked[2]
          BY <2>6, <5>1
        <5>3. linked' # <<>>
          BY <2>6, <5>1, EmptySeq
        <5> QED BY <1>3, <2>5, <5>2, <5>3
      <4>2. ASSUME NEW i \in 1 .. Len(linked) - 1
            PROVE  node'[linked'[i]].next = IF i = Len(linked) - 1 THEN Nil ELSE linked'[i + 1]
        <5>1. i + 1 \in 1 .. Len(linked) /\ linked'[i] = linked[i + 1]
              /\ (i = Len(linked) - 1 <=> i + 1 = Len(linked))
          <6>1. Len(linked) \in Nat
            BY <2>3
          <6>2. i + 1 \in 1 .. Len(linked) /\ (i = Len(linked) - 1 <=> i + 1 = Len(linked))
            BY <6>1
          <6> QED BY <2>6, <6>2
        <5>2. node[linked[i + 1]].next = IF i + 1 = Len(linked) THEN Nil ELSE linked[(i + 1) + 1]
          <6>1. \A j \in 1 .. Len(linked) :
                  node[linked[j]].next = IF j = Len(linked) THEN Nil ELSE linked[j + 1]
            BY <1>1, <2>3 DEF ListInv, ListSound
          <6> QED BY <5>1, <6>1
        <5>3. i # Len(linked) - 1 => linked'[i + 1] = linked[(i + 1) + 1]
          <6>1. Len(linked) \in Nat
            BY <2>3
          <6>2. i # Len(linked) - 1 => i + 1 \in 1 .. Len(linked) - 1
            BY <6>1
          <6> QED BY <2>6, <6>2
        <5> QED BY <2>2, <5>1, <5>2, <5>3
      <4> QED BY <2>6, <4>1, <4>2 DEF ListSound
    <3>2. Linked' \subseteq live'
      BY <1>1, <2>2, <2>8 DEF ListInv
    <3>3. \A i, j \in DOMAIN linked' : linked'[i] = linked'[j] => i = j
      <4>1. ASSUME NEW i \in 1 .. Len(linked) - 1, NEW j \in 1 .. Len(linked) - 1, linked'[i] = linked'[j]
            PROVE  i = j
        <5>1. i + 1 \in 1 .. Len(linked) /\ j + 1 \in 1 .. Len(linked)
          BY <2>3
        <5>2. linked[i + 1] = linked[j + 1]
          BY <2>6, <4>1
        <5>3. i + 1 = j + 1
          BY <1>1, <2>3, <5>1, <5>2 DEF ListInv
        <5> QED BY <5>3
      <4> QED BY <2>6, <4>1
    <3>4. tail' = Last' \/ (Len(linked') > 1 /\ tail' = linked'[Len(linked') - 1])
      <4>1. CASE tail # Last
        <5>1. tail = linked[Len(linked) - 1] /\ Len(linked) - 1 # 1
          BY <1>1, <2>4, <2>5, <4>1 DEF ListInv
        <5>2. Len(linked') > 1 /\ Len(linked') - 1 \in 1 .. Len(linked) - 1
              /\ (Len(linked') - 1) + 1 = Len(linked) - 1
          BY <2>3, <2>5, <2>6, <5>1
        <5> QED BY <2>2, <2>6, <5>1, <5>2
      <4> QED BY <2>2, <2>7, <4>1
    <3> QED BY <3>1, <3>2, <3>3, <3>4 DEF ListInv
  <2>14. PlacesInv'
    BY <1>1, <2>2, <2>3, <2>8, <2>9, <2>10 DEF PlacesInv
  <2>15. NodesInv'
    <3>1. \A u \in Threads : th'[u].pc \in Linking => u # t /\ th'[u] = th[u]
      BY <2>1 DEF Moved, Linking
    <3> QED BY <1>1, <2>2, <2>7, <2>11, <3>1 DEF NodesInv
  <2>16. ASSUME NEW u \in Threads \ {t} PROVE (RoleOf(u) /\ PushKnows(u) /\ PopKnows(u))'
    <3>1. RoleOf(u) /\ PushKnows(u) /\ PopKnows(u) /\ th'[u] = th[u]
      BY <2>1 DEF QueueInv, Knowledge, Moved
    <3>2. RoleOf(u)'
      BY <2>2, <3>1 DEF RoleOf
    <3>3. PushKnows(u)'
      BY <2>2, <2>7, <2>11, <3>1 DEF PushKnows
    <3>4. PopKnows(u)'
      <4>1. CASE th[u].pc \in Looking
        <5>1. th[u].head \notin Linked' /\ ~Pair
          <6>1. Looking \subseteq PopPCs
            BY DEF Looking, PopPCs
          <6> QED BY <1>1, <2>8, <3>1, <4>1, <6>1, OneEach DEF PopKnows, PopPCs
        <5>2. head' \in Linked'
          <6>1. 1 \in DOMAIN linked' /\ linked'[1] = head'
            BY <1>3, <2>3, <2>5, <2>6
          <6> QED BY <6>1 DEF Linked
        <5> QED BY <2>2, <2>11, <3>1, <4>1, <5>1, <5>2 DEF PopKnows
      <4>2. CASE th[u].pc \notin Looking
        BY <3>1, <4>2 DEF PopKnows, Looking
      <4> QED BY <4>1, <4>2
    <3> QED BY <3>2, <3>3, <3>4
  <2>17. RoleOf(t)' /\ PushKnows(t)' /\ PopKnows(t)'
    BY <1>1, <2>1, <2>2, Forgets DEF RoleOf, PushPCs, PopPCs
  <2>18. PairTail'
    <3>1. \A u \in Threads : th[u].pc = "swing" => th'[u].pc = "swing"
      BY <1>1, <2>1 DEF Moved
    <3> QED BY <2>2, <2>7, <3>1 DEF QueueInv, PairTail
  <2>19. RetiredCounted'
    <3>1. Counting' = Counting
      BY <1>1, <2>1 DEF Counting, Moved
    <3> QED BY <2>2, <3>1 DEF QueueInv, RetiredCounted
  <2> QED BY <2>12, <2>13, <2>14, <2>15, <2>16, <2>17, <2>18, <2>19 DEF QueueInv, Knowledge
<1> QED BY <1>2, <1>3 DEF Unlink

-----------------------------------------------------------------------------
LEMMA QueueInit ==
  ASSUME Init
  PROVE  QueueInv
<1>1. PICK dummy \in Nodes :
        /\ node = [n \in Nodes |-> Blank]
        /\ live = {dummy}
        /\ head = dummy /\ tail = dummy /\ linked = <<dummy>>
        /\ size = 0 /\ retired = {} /\ count = 0
        /\ th = [t \in Threads |-> NoCall]
        /\ out = [t \in Threads |-> NoValue]
        /\ sawEmpty = {} /\ use \in Uses
  BY DEF Init
<1>2. \A t \in Threads : th[t] = NoCall /\ th[t].pc = "idle" /\ th[t].doomed = {}
  BY <1>1, NoCallIs
<1>3. TypeOK
  <2>1. node \in [Nodes -> Cells]
    BY <1>1 DEF Blank, Cells, Optional, Pointers
  <2>2. th \in [Threads -> Calls]
    BY <1>1, NoCallIs
  <2>3. linked \in Seq(Nodes) /\ size \in 0 .. SizeMod - 1 /\ count \in Nat /\ out \in [Threads -> Optional]
    BY <1>1, QueueAssumption DEF Optional
  <2> QED BY <1>1, <2>1, <2>2, <2>3 DEF TypeOK
<1>4. Linked = {dummy} /\ Last = dummy /\ Len(linked) = 1 /\ DOMAIN linked = {1}
  BY <1>1 DEF Linked, Last
<1>5. ListInv
  BY <1>1, <1>4 DEF ListInv, ListSound, Blank
<1>6. \A t \in Threads, n \in Pointers : ~Held(t, n) /\ ~Fresh(t, n)
  BY <1>2 DEF Held, Fresh, Carried, Linking
<1>7. PlacesInv
  BY <1>1, <1>4, <1>6 DEF PlacesInv
<1>8. NodesInv
  BY <1>1, <1>2, <1>4 DEF NodesInv, Placed, Linking, Blank
<1>9. Knowledge
  BY <1>2 DEF Knowledge, RoleOf, PushKnows, PopKnows, Looking, PushPCs, PopPCs
<1>10. PairTail
  BY <1>1, <1>4 DEF PairTail
<1>11. RetiredCounted
  <2>1. Counting = {} /\ retired = {}
    BY <1>1, <1>2 DEF Counting
  <2> QED BY <1>1, <2>1, FS_EmptySet DEF RetiredCounted
<1> QED BY <1>3, <1>5, <1>7, <1>8, <1>9, <1>10, <1>11 DEF QueueInv

LEMMA QueueStep ==
  ASSUME SafeUses, QueueInv, [Next]_vars
  PROVE  QueueInv'
<1>1. ASSUME NEW t \in Threads, t \in Producers \intersect use.threads, UNCHANGED use,
             PushStep(t) \/ \E v \in Values : push(t, v)
      PROVE  QueueInv'
  BY <1>1, pushStep, PushLoadTailStep, PushLoadNextStep, PushValidateStep, LinkStep, PushSwingStep,
     PushHelpStep, PushCountStep DEF PushStep
<1>2. ASSUME NEW t \in Threads, t \in Consumers \intersect use.threads, UNCHANGED use, PopStep(t)
      PROVE  QueueInv'
  BY <1>2, popStep, PopLoadTailStep, PopLoadNextStep, PopValidateStep, PopHelpStep, PopReadDataStep,
     UnlinkStep, PopCountStep, retire_nodeStep, CountRetiredStep, try_reclaimStep, DetachStep,
     ResetCountStep, DeleteStep DEF PopStep
<1>3. ASSUME UNCHANGED vars PROVE QueueInv'
  <2>1. /\ TypeOK' <=> TypeOK
        /\ ListInv' <=> ListInv
        /\ PlacesInv' <=> PlacesInv
    BY <1>3 DEF vars, TypeOK, ListInv, ListSound, PlacesInv, Linked, Last, Held, Fresh, Carried
  <2>2. NodesInv' <=> NodesInv
    BY <1>3 DEF vars, NodesInv, Placed, Fresh, Last, Pair, PairUse
  <2>3. Knowledge' <=> Knowledge
    BY <1>3 DEF vars, Knowledge, RoleOf, PushKnows, PopKnows, Placed, Fresh, Last, Linked, Pair, PairUse
  <2>4. (PairTail' <=> PairTail) /\ (RetiredCounted' <=> RetiredCounted)
    BY <1>3 DEF vars, PairTail, RetiredCounted, Counting, Last, Pair, PairUse
  <2> QED BY <2>1, <2>2, <2>3, <2>4 DEF QueueInv
<1> QED BY <1>1, <1>2, <1>3 DEF Next, Threads

LEMMA QueueIsSafe ==
  ASSUME QueueInv
  PROVE  NodesSafe
<1>1. TypeOK /\ ListSound /\ PlacesInv /\ ListInv
  BY DEF QueueInv, ListInv
<1>2. \A t \in Threads : RoleOf(t) /\ PushKnows(t) /\ PopKnows(t)
  BY DEF QueueInv, Knowledge
<1>3. \A t \in Threads : th[t].doomed \subseteq Nodes
  BY <1>1 DEF TypeOK, Calls
<1>4. Nodes \subseteq Pointers
  BY DEF Pointers
<1>5. \A t \in Threads : \A n \in th[t].doomed : Held(t, n) /\ n \in Pointers
  BY <1>3, <1>4 DEF Held
<1>6. NodesOnce
  <2>1. Linked \intersect retired = {}
    BY <1>1 DEF PlacesInv
  <2>2. \A t \in Threads : th[t].doomed \intersect (Linked \union retired) = {}
    BY <1>1, <1>5 DEF PlacesInv
  <2>3. \A t, u \in Threads : t # u => th[t].doomed \intersect th[u].doomed = {}
    BY <1>1, <1>5 DEF PlacesInv
  <2>4. ASSUME \A t \in Threads : th[t].pc = "idle" PROVE live = Destructed
    <3>1. \A t \in Threads, n \in Nodes : ~Held(t, n)
      BY <1>2, <2>4 DEF Held, Fresh, Carried, Linking, RoleOf
    <3>2. live \subseteq Nodes
      BY <1>1 DEF TypeOK
    <3> QED BY <1>1, <3>1, <3>2 DEF PlacesInv, ListInv, Destructed
  <2> QED BY <2>1, <2>2, <2>3, <2>4 DEF NodesOnce
<1>7. NoUseAfterFree
  BY <1>2 DEF NoUseAfterFree, PushKnows, PopKnows, Placed, Looking
<1> QED BY <1>1, <1>6, <1>7 DEF NodesSafe

(* Used in one of the two ways, the queue keeps its list one list, gives      *)
(* every allocated node one place and follows no pointer to a deleted node,   *)
(* whatever the threads of push and pop do in whatever order.                 *)
THEOREM QueueIsSafeAlways ==
  ASSUME SafeUses
  PROVE  Spec => []NodesSafe
<1>1. Init => QueueInv
  BY QueueInit
<1>2. QueueInv /\ [Next]_vars => QueueInv'
  BY QueueStep
<1>3. QueueInv => NodesSafe
  BY QueueIsSafe
<1> QED BY <1>1, <1>2, <1>3, PTL DEF Spec

-----------------------------------------------------------------------------
(* The counter.                                                               *)

LEMMA Wrap ==
  ASSUME NEW m \in Nat \ {0}, NEW a \in 0 .. m - 1
  PROVE  /\ a % m = a /\ m % m = 0 /\ (a + m) % m = a
OBVIOUS

LEMMA SizeQuiet ==
  ASSUME SizeInv, size' = size, linked' = linked, Uncounted' = Uncounted, Unshrunk' = Unshrunk
  PROVE  SizeInv'
BY DEF SizeInv, Length

(* What a thread owes to the counter depends on where it is.                  *)
LEMMA SameOwed ==
  ASSUME NEW t \in Threads, \A u \in Threads \ {t} : th'[u] = th[u],
         th'[t].pc \in {"swing", "grow"} <=> th[t].pc \in {"swing", "grow"},
         th'[t].pc = "shrink" <=> th[t].pc = "shrink"
  PROVE  Uncounted' = Uncounted /\ Unshrunk' = Unshrunk
BY DEF Uncounted, Unshrunk

LEMMA SizeQuietStep ==
  ASSUME TypeOK, SizeInv, NEW t \in Threads,
         \/ PushLoadTail(t) \/ PushLoadNext(t) \/ PushValidate(t) \/ PushHelp(t)
         \/ (\E v \in Values : push(t, v)) \/ PushSwing(t)
         \/ pop(t) \/ PopLoadTail(t) \/ PopLoadNext(t) \/ PopValidate(t) \/ PopHelp(t)
         \/ PopReadData(t) \/ retire_node(t) \/ CountRetired(t)
         \/ try_reclaim(t) \/ Detach(t) \/ ResetCount(t) \/ Delete(t)
  PROVE  SizeInv'
<1>1. th \in [Threads -> Calls] /\ NoCall.pc = "idle"
  BY NoCallIs DEF TypeOK
<1> DEFINE Same == /\ \A u \in Threads \ {t} : th'[u] = th[u]
                   /\ th'[t].pc \in {"swing", "grow"} <=> th[t].pc \in {"swing", "grow"}
                   /\ th'[t].pc = "shrink" <=> th[t].pc = "shrink"
                   /\ size' = size /\ linked' = linked
<1>2. (PushLoadTail(t) => Same) /\ (PushLoadNext(t) => Same) /\ (PushValidate(t) => Same)
  <2>1. PushLoadTail(t) => Same
    BY <1>1 DEF PushLoadTail, Calls
  <2>2. PushLoadNext(t) => Same
    BY <1>1, ZenonT(40) DEF PushLoadNext, Calls
  <2>3. PushValidate(t) => Same
    BY <1>1 DEF PushValidate, GoTo, Calls
  <2> QED BY <2>1, <2>2, <2>3
<1>3. (PushHelp(t) => Same) /\ (PopHelp(t) => Same) /\ (PushSwing(t) => Same)
  BY <1>1 DEF PushHelp, PopHelp, PushSwing, SwingTail, GoTo, Calls
<1>4. (\E v \in Values : push(t, v)) => Same
  BY <1>1, ZenonT(40) DEF push, Calls
<1>5. (pop(t) => Same) /\ (PopLoadTail(t) => Same) /\ (PopLoadNext(t) => Same)
  <2>1. pop(t) => Same
    BY <1>1 DEF pop, Calls
  <2>2. PopLoadTail(t) => Same
    BY <1>1 DEF PopLoadTail, Calls
  <2>3. PopLoadNext(t) => Same
    BY <1>1, ZenonT(40) DEF PopLoadNext, Calls
  <2> QED BY <2>1, <2>2, <2>3
<1>6. (PopValidate(t) => Same) /\ (PopReadData(t) => Same)
  <2>1. PopValidate(t) => Same
    BY <1>1 DEF PopValidate, GoTo, Calls
  <2>2. PopReadData(t) => Same
    BY <1>1, ZenonT(40) DEF PopReadData, Calls
  <2> QED BY <2>1, <2>2
<1>7. (retire_node(t) => Same) /\ (CountRetired(t) => Same) /\ (ResetCount(t) => Same)
  BY <1>1 DEF retire_node, CountRetired, ResetCount, GoTo, Calls
<1>8. (try_reclaim(t) => Same) /\ (Detach(t) => Same) /\ (Delete(t) => Same)
  BY <1>1 DEF try_reclaim, Detach, Delete, GoTo, Calls
<1>9. Same
  BY <1>2, <1>3, <1>4, <1>5, <1>6, <1>7, <1>8
<1> QED BY <1>9, SameOwed, SizeQuiet

(* The equation of SizeInv, whatever the terms are.                           *)
LEMMA Balance ==
  ASSUME NEW m \in Int, NEW k \in Int, NEW a \in Int, NEW b \in Int, NEW l \in Int, NEW u \in Int,
         a + b = (l + u) + k * m
  PROVE  /\ a + (b + 1) = ((l + 1) + u) + k * m
         /\ a + b = ((l - 1) + (u + 1)) + k * m
         /\ (a + 1) + (b - 1) = (l + u) + k * m
         /\ ((a + 1) - m) + (b - 1) = (l + u) + (k - 1) * m
         /\ (a - 1) + b = (l + (u - 1)) + k * m
         /\ ((a - 1) + m) + b = (l + (u - 1)) + (k + 1) * m
<1>1. PICK n \in Int : n = k * m
  OBVIOUS
<1>2. (k - 1) * m = n - m /\ (k + 1) * m = n + m
  BY <1>1
<1> QED BY <1>1, <1>2

LEMMA OwedFinite ==
  /\ IsFiniteSet(Uncounted) /\ Cardinality(Uncounted) \in Nat
  /\ IsFiniteSet(Unshrunk) /\ Cardinality(Unshrunk) \in Nat
BY FS_Subset, FS_CardinalityType, QueueAssumption DEF Uncounted, Unshrunk

LEMMA SizeLinkStep ==
  ASSUME QueueInv, SizeInv, NEW t \in Threads, Link(t)
  PROVE  SizeInv'
<1>1. TypeOK /\ th \in [Threads -> Calls] /\ th[t].pc = "link" /\ size' = size /\ th[t].new \in Nodes
      /\ Len(linked) \in Nat
  BY ListFacts DEF Link, QueueInv, TypeOK, NodesInv, Linking
<1>2. CASE GoTo(t, "tail") /\ linked' = linked
  <2>1. Uncounted' = Uncounted /\ Unshrunk' = Unshrunk
    BY <1>1, <1>2 DEF GoTo, Calls, Uncounted, Unshrunk
  <2> QED BY <1>1, <1>2, <2>1, SizeQuiet
<1>3. CASE GoTo(t, "swing") /\ linked' = Append(linked, th[t].new)
  <2>1. Uncounted' = Uncounted \union {t} /\ t \notin Uncounted /\ Unshrunk' = Unshrunk
    BY <1>1, <1>3 DEF GoTo, Calls, Uncounted, Unshrunk
  <2>2. Cardinality(Uncounted') = Cardinality(Uncounted) + 1
    BY <2>1, OwedFinite, FS_AddElement
  <2>3. Len(linked') = Len(linked) + 1
    BY <1>1, <1>3, AppendProperties DEF TypeOK
  <2>4. PICK k \in Int : size + Cardinality(Uncounted) = Length + Cardinality(Unshrunk) + k * SizeMod
    BY DEF SizeInv
  <2>5. Length' = Length + 1 /\ Length \in Int /\ size \in Int /\ SizeMod \in Int
    BY <1>1, <2>3, QueueAssumption DEF Length, TypeOK
  <2>6. size + (Cardinality(Uncounted) + 1) = ((Length + 1) + Cardinality(Unshrunk)) + k * SizeMod
    BY <2>4, <2>5, OwedFinite, Balance
  <2> QED BY <1>1, <2>1, <2>2, <2>5, <2>6 DEF SizeInv
<1> QED BY <1>2, <1>3 DEF Link

LEMMA SizeUnlinkStep ==
  ASSUME QueueInv, SizeInv, NEW t \in Threads, Unlink(t)
  PROVE  SizeInv'
<1>1. TypeOK /\ th \in [Threads -> Calls] /\ th[t].pc = "unlink" /\ size' = size
      /\ Len(linked) \in Nat /\ linked # <<>>
  BY ListFacts DEF Unlink, QueueInv, TypeOK, ListInv, ListSound
<1>2. CASE GoTo(t, "head") /\ linked' = linked
  <2>1. Uncounted' = Uncounted /\ Unshrunk' = Unshrunk
    BY <1>1, <1>2 DEF GoTo, Calls, Uncounted, Unshrunk
  <2> QED BY <1>1, <1>2, <2>1, SizeQuiet
<1>3. CASE GoTo(t, "shrink") /\ linked' = Tail(linked)
  <2>1. Unshrunk' = Unshrunk \union {t} /\ t \notin Unshrunk /\ Uncounted' = Uncounted
    BY <1>1, <1>3 DEF GoTo, Calls, Uncounted, Unshrunk
  <2>2. Cardinality(Unshrunk') = Cardinality(Unshrunk) + 1
    BY <2>1, OwedFinite, FS_AddElement
  <2>3. Len(linked') = Len(linked) - 1
    BY <1>1, <1>3, HeadTailProperties DEF TypeOK
  <2>4. PICK k \in Int : size + Cardinality(Uncounted) = Length + Cardinality(Unshrunk) + k * SizeMod
    BY DEF SizeInv
  <2>5. Length' = Length - 1 /\ Length \in Int /\ size \in Int /\ SizeMod \in Int
    BY <1>1, <2>3, QueueAssumption DEF Length, TypeOK
  <2>6. size + Cardinality(Uncounted) = ((Length - 1) + (Cardinality(Unshrunk) + 1)) + k * SizeMod
    BY <2>4, <2>5, OwedFinite, Balance
  <2> QED BY <1>1, <2>1, <2>2, <2>5, <2>6 DEF SizeInv
<1> QED BY <1>2, <1>3 DEF Unlink

LEMMA SizePushCountStep ==
  ASSUME QueueInv, SizeInv, NEW t \in Threads, PushCount(t)
  PROVE  SizeInv'
<1>1. TypeOK /\ th \in [Threads -> Calls] /\ th[t].pc = "grow" /\ linked' = linked
      /\ NoCall.pc = "idle" /\ Len(linked) \in Nat
  BY NoCallIs, ListFacts DEF PushCount, QueueInv, TypeOK
<1>2. Uncounted' = Uncounted \ {t} /\ t \in Uncounted /\ Unshrunk' = Unshrunk
  BY <1>1 DEF PushCount, Uncounted, Unshrunk
<1>3. Cardinality(Uncounted') = Cardinality(Uncounted) - 1
  BY <1>2, OwedFinite, FS_RemoveElement
<1>4. PICK k \in Int : size + Cardinality(Uncounted) = Length + Cardinality(Unshrunk) + k * SizeMod
  BY DEF SizeInv
<1>5. size' = size + 1 \/ size' = (size + 1) - SizeMod
  <2>1. CASE size + 1 = SizeMod
    <3>1. 0 \in 0 .. SizeMod - 1
      BY QueueAssumption
    <3>2. size' = 0
      BY <2>1, <3>1, Wrap, QueueAssumption DEF PushCount
    <3> QED BY <2>1, <3>2, QueueAssumption
  <2>2. CASE size + 1 # SizeMod
    <3>1. size + 1 \in 0 .. SizeMod - 1
      BY <1>1, <2>2, QueueAssumption DEF TypeOK
    <3> QED BY <3>1, Wrap, QueueAssumption DEF PushCount
  <2> QED BY <2>1, <2>2
<1>6. Length' = Length /\ Length \in Int /\ size \in Int /\ SizeMod \in Int
  BY <1>1, QueueAssumption DEF Length, TypeOK
<1>7. /\ (size + 1) + (Cardinality(Uncounted) - 1) = (Length + Cardinality(Unshrunk)) + k * SizeMod
      /\ ((size + 1) - SizeMod) + (Cardinality(Uncounted) - 1)
           = (Length + Cardinality(Unshrunk)) + (k - 1) * SizeMod
  BY <1>4, <1>6, OwedFinite, Balance
<1>8. CASE size' = size + 1
  BY <1>2, <1>3, <1>6, <1>7, <1>8 DEF SizeInv
<1>9. CASE size' = (size + 1) - SizeMod
  <2>1. size' + Cardinality(Uncounted') = (Length' + Cardinality(Unshrunk')) + (k - 1) * SizeMod
    BY <1>2, <1>3, <1>6, <1>7, <1>9
  <2>2. (k - 1) \in Int
    OBVIOUS
  <2> QED BY <2>1, <2>2 DEF SizeInv
<1> QED BY <1>5, <1>8, <1>9

LEMMA SizePopCountStep ==
  ASSUME QueueInv, SizeInv, NEW t \in Threads, PopCount(t)
  PROVE  SizeInv'
<1>1. TypeOK /\ th \in [Threads -> Calls] /\ th[t].pc = "shrink" /\ linked' = linked
      /\ Len(linked) \in Nat
  BY ListFacts DEF PopCount, QueueInv, TypeOK
<1>2. Unshrunk' = Unshrunk \ {t} /\ t \in Unshrunk /\ Uncounted' = Uncounted
  BY <1>1 DEF PopCount, GoTo, Calls, Uncounted, Unshrunk
<1>3. Cardinality(Unshrunk') = Cardinality(Unshrunk) - 1
  BY <1>2, OwedFinite, FS_RemoveElement
<1>4. PICK k \in Int : size + Cardinality(Uncounted) = Length + Cardinality(Unshrunk) + k * SizeMod
  BY DEF SizeInv
<1>5. size' = size - 1 \/ size' = (size - 1) + SizeMod
  <2>1. CASE size = 0
    <3>1. SizeMod - 1 \in 0 .. SizeMod - 1 /\ size + SizeMod - 1 = SizeMod - 1
      BY <2>1, QueueAssumption
    <3>2. size' = SizeMod - 1
      BY <3>1, Wrap, QueueAssumption DEF PopCount
    <3> QED BY <2>1, <3>2, QueueAssumption
  <2>2. CASE size # 0
    <3>1. size - 1 \in 0 .. SizeMod - 1 /\ size + SizeMod - 1 = (size - 1) + SizeMod
      BY <1>1, <2>2, QueueAssumption DEF TypeOK
    <3> QED BY <3>1, Wrap, QueueAssumption DEF PopCount
  <2> QED BY <2>1, <2>2
<1>6. Length' = Length /\ Length \in Int /\ size \in Int /\ SizeMod \in Int
  BY <1>1, QueueAssumption DEF Length, TypeOK
<1>7. /\ (size - 1) + Cardinality(Uncounted) = (Length + (Cardinality(Unshrunk) - 1)) + k * SizeMod
      /\ ((size - 1) + SizeMod) + Cardinality(Uncounted)
           = (Length + (Cardinality(Unshrunk) - 1)) + (k + 1) * SizeMod
  BY <1>4, <1>6, OwedFinite, Balance
<1>8. CASE size' = size - 1
  BY <1>2, <1>3, <1>6, <1>7, <1>8 DEF SizeInv
<1>9. CASE size' = (size - 1) + SizeMod
  <2>1. size' + Cardinality(Uncounted') = (Length' + Cardinality(Unshrunk')) + (k + 1) * SizeMod
    BY <1>2, <1>3, <1>6, <1>7, <1>9
  <2>2. (k + 1) \in Int
    OBVIOUS
  <2> QED BY <2>1, <2>2 DEF SizeInv
<1> QED BY <1>5, <1>8, <1>9

LEMMA SizeInit ==
  ASSUME Init
  PROVE  SizeInv
<1>1. size = 0 /\ Len(linked) = 1 /\ \A t \in Threads : th[t].pc = "idle"
  BY NoCallIs DEF Init
<1>2. Uncounted = {} /\ Unshrunk = {}
  BY <1>1 DEF Uncounted, Unshrunk
<1>3. Length = 0 /\ Cardinality(Uncounted) = 0 /\ Cardinality(Unshrunk) = 0
  BY <1>1, <1>2, FS_EmptySet DEF Length
<1>4. size + Cardinality(Uncounted) = Length + Cardinality(Unshrunk) + 0 * SizeMod
  BY <1>1, <1>3, QueueAssumption
<1> QED BY <1>4 DEF SizeInv

LEMMA SizeStep ==
  ASSUME QueueInv, SizeInv, [Next]_vars
  PROVE  SizeInv'
<1>1. TypeOK
  BY DEF QueueInv
<1>2. CASE UNCHANGED vars
  BY <1>2, SizeQuiet DEF vars, Uncounted, Unshrunk
<1>3. ASSUME NEW t \in Threads, PushStep(t) \/ \E v \in Values : push(t, v) PROVE SizeInv'
  BY <1>1, <1>3, SizeQuietStep, SizeLinkStep, SizePushCountStep DEF PushStep
<1>4. ASSUME NEW t \in Threads, PopStep(t) PROVE SizeInv'
  BY <1>1, <1>4, SizeQuietStep, SizeUnlinkStep, SizePopCountStep DEF PopStep
<1> QED BY <1>2, <1>3, <1>4 DEF Next, Threads

LEMMA ListFits ==
  ASSUME QueueInv
  PROVE  Length \in 0 .. SizeMod - 1
<1>1. /\ linked \in Seq(Nodes) /\ Len(linked) \in Nat \ {0} /\ DOMAIN linked = 1 .. Len(linked)
      /\ \A i, j \in DOMAIN linked : linked[i] = linked[j] => i = j
  BY ListFacts DEF QueueInv, TypeOK, ListInv
<1>2. linked \in Injection(1 .. Len(linked), Nodes)
  <2>1. linked \in [1 .. Len(linked) -> Nodes]
    BY <1>1, LenProperties
  <2> QED BY <1>1, <2>1 DEF Injection, IsInjective
<1>3. Cardinality(1 .. Len(linked)) <= Cardinality(Nodes)
  BY <1>2, FS_Injection, QueueAssumption
<1>4. Cardinality(1 .. Len(linked)) = Len(linked)
  BY <1>1, FS_Interval
<1>5. Cardinality(Nodes) \in Nat
  BY FS_CardinalityType, QueueAssumption
<1> QED BY <1>1, <1>3, <1>4, <1>5, QueueAssumption DEF Length

LEMMA OnlyZero ==
  ASSUME NEW m \in Nat \ {0}, NEW a \in 0 .. m - 1, NEW b \in 0 .. m - 1, NEW k \in Int, a = b + k * m
  PROVE  a = b
<1>1. CASE k = 0
  BY <1>1
<1>2. CASE k >= 1
  <2>1. k * m >= m
    BY <1>2
  <2> QED BY <2>1
<1>3. CASE k <= -1
  <2>1. k * m <= -m
    BY <1>3
  <2> QED BY <2>1
<1> QED BY <1>1, <1>2, <1>3

LEMMA SizeIsExact ==
  ASSUME QueueInv, SizeInv
  PROVE  SizeExact
<1>1. SUFFICES ASSUME \A t \in Threads : th[t].pc = "idle"
               PROVE  size = Length /\ (empty <=> size = 0)
  BY DEF SizeExact
<1>2. size \in 0 .. SizeMod - 1 /\ Length \in 0 .. SizeMod - 1 /\ SizeMod \in Nat \ {0}
  BY ListFits, QueueAssumption DEF QueueInv, TypeOK
<1>3. Uncounted = {} /\ Unshrunk = {}
  BY <1>1 DEF Uncounted, Unshrunk
<1>4. Cardinality(Uncounted) = 0 /\ Cardinality(Unshrunk) = 0
  BY <1>3, FS_EmptySet
<1>5. PICK k \in Int : size + Cardinality(Uncounted) = Length + Cardinality(Unshrunk) + k * SizeMod
  BY DEF SizeInv
<1>6. size = Length + k * SizeMod
  <2>1. k * SizeMod \in Int
    BY <1>2
  <2> QED BY <1>2, <1>4, <1>5, <2>1
<1>7. size = Length
  BY <1>2, <1>6, OnlyZero
<1>8. node[head].next = (IF 1 = Len(linked) THEN Nil ELSE linked[2]) /\ Len(linked) \in Nat \ {0}
      /\ (Len(linked) # 1 => linked[2] # Nil)
  <2>1. Len(linked) \in Nat \ {0} /\ DOMAIN linked = 1 .. Len(linked) /\ ListSound /\ linked \in Seq(Nodes)
    BY ListFacts DEF QueueInv, ListInv, TypeOK
  <2>2. Len(linked) # 1 => linked[2] \in Nodes
    BY <2>1
  <2> QED BY <2>1, <2>2, QueueAssumption DEF ListSound
<1>9. empty <=> Length = 0
  BY <1>8 DEF empty, Length
<1> QED BY <1>7, <1>9

(* Used in one of the two ways, size() is the number of queued values and     *)
(* empty() agrees with it whenever no thread is inside push or pop, although  *)
(* size_ is changed after the list and may wrap around in between.            *)
THEOREM SizeIsExactAtRest ==
  ASSUME SafeUses
  PROVE  Spec => []SizeExact
<1>1. Init => QueueInv /\ SizeInv
  BY QueueInit, SizeInit
<1>2. QueueInv /\ SizeInv /\ [Next]_vars => (QueueInv /\ SizeInv)'
  BY QueueStep, SizeStep
<1>3. QueueInv /\ SizeInv => SizeExact
  BY SizeIsExact
<1> QED BY <1>1, <1>2, <1>3, PTL DEF Spec

-----------------------------------------------------------------------------
(* What a list of nodes holds: the data of those after the dummy.             *)
DataOf(list, cells) == [k \in 1 .. Len(list) - 1 |-> cells[list[k + 1]].data]

LEMMA DataSeq ==
  ASSUME NEW list \in Seq(Nodes), list # <<>>, NEW cells \in [Nodes -> Cells]
  PROVE  /\ Len(list) \in Nat \ {0} /\ DOMAIN list = 1 .. Len(list)
         /\ DataOf(list, cells) \in Seq(Optional) /\ Len(DataOf(list, cells)) = Len(list) - 1
         /\ \A k \in 1 .. Len(list) - 1 : /\ DataOf(list, cells)[k] = cells[list[k + 1]].data
                                          /\ list[k + 1] \in Nodes
<1>1. /\ Len(list) \in Nat \ {0} /\ DOMAIN list = 1 .. Len(list)
      /\ \A i \in 1 .. Len(list) : list[i] \in Nodes
  BY EmptySeq, LenProperties
<1>2. \A k \in 1 .. Len(list) - 1 : list[k + 1] \in Nodes
  BY <1>1
<1>3. \A k \in 1 .. Len(list) - 1 : cells[list[k + 1]].data \in Optional
  BY <1>2 DEF Cells
<1>4. DataOf(list, cells) \in [1 .. Len(list) - 1 -> Optional]
  BY <1>3 DEF DataOf
<1>5. Len(list) - 1 \in Nat
  BY <1>1
<1>6. DataOf(list, cells) \in Seq(Optional)
  BY <1>4, <1>5
<1>7. Len(DataOf(list, cells)) = Len(list) - 1
  BY <1>4, <1>5, <1>6, LenProperties
<1> QED BY <1>1, <1>2, <1>6, <1>7 DEF DataOf

SameData(after, cells) == \A n \in Nodes : after[n].data = cells[n].data

OneMore(longer, after, list, cells, n) ==
  DataOf(longer, after) = Append(DataOf(list, cells), cells[n].data)

LEMMA DataAppend ==
  ASSUME NEW list \in Seq(Nodes), list # <<>>, NEW cells \in [Nodes -> Cells], NEW n \in Nodes,
         NEW after \in [Nodes -> Cells], SameData(after, cells), NEW longer, longer = Append(list, n)
  PROVE  OneMore(longer, after, list, cells, n)
<1> DEFINE d == DataOf(list, cells)
           e == DataOf(longer, after)
           v == cells[n].data
<1>1. /\ longer \in Seq(Nodes) /\ longer # <<>> /\ Len(longer) = Len(list) + 1
      /\ longer[Len(list) + 1] = n /\ \A i \in 1 .. Len(list) : longer[i] = list[i]
  BY AppendProperties
<1>2. v \in Optional
  BY DEF Cells
<1>3. /\ Len(list) \in Nat \ {0} /\ d \in Seq(Optional) /\ Len(d) = Len(list) - 1
      /\ \A k \in 1 .. Len(list) - 1 : d[k] = cells[list[k + 1]].data /\ list[k + 1] \in Nodes
  BY DataSeq
<1>4. /\ e \in Seq(Optional) /\ Len(e) = Len(longer) - 1
      /\ \A k \in 1 .. Len(longer) - 1 : e[k] = after[longer[k + 1]].data
  BY <1>1, DataSeq
<1> HIDE DEF d, e, v
<1>5. /\ Append(d, v) \in Seq(Optional) /\ Len(Append(d, v)) = Len(d) + 1
      /\ \A k \in 1 .. Len(d) : Append(d, v)[k] = d[k]
      /\ Append(d, v)[Len(d) + 1] = v
  BY <1>2, <1>3, AppendProperties
<1>6. PICK l \in Nat \ {0} : l = Len(list)
  BY <1>3
<1>7. ASSUME NEW k \in 1 .. l PROVE e[k] = Append(d, v)[k]
  <2>1. e[k] = after[longer[k + 1]].data
    BY <1>1, <1>4, <1>6
  <2>2. CASE k = l
    <3>1. longer[k + 1] = n
      BY <1>1, <1>6, <2>2
    <3>2. Append(d, v)[k] = v
      BY <1>3, <1>5, <1>6, <2>2
    <3> QED BY <2>1, <3>1, <3>2 DEF v, SameData
  <2>3. CASE k # l
    <3>1. k \in 1 .. l - 1 /\ k + 1 \in 1 .. l
      BY <2>3
    <3>2. longer[k + 1] = list[k + 1] /\ list[k + 1] \in Nodes /\ d[k] = cells[list[k + 1]].data
      BY <1>1, <1>3, <1>6, <3>1
    <3>3. Append(d, v)[k] = d[k]
      BY <1>3, <1>5, <1>6, <3>1
    <3> QED BY <2>1, <3>2, <3>3 DEF SameData
  <2> QED BY <2>2, <2>3
<1>8. e = Append(d, v)
  <2>1. Len(e) = l /\ Len(Append(d, v)) = l
    BY <1>1, <1>3, <1>4, <1>5, <1>6
  <2>2. \A k \in 1 .. Len(e) : e[k] = Append(d, v)[k]
    BY <1>7, <2>1
  <2>3. e \in Seq(Optional) /\ Append(d, v) \in Seq(Optional)
    BY <1>4, <1>5
  <2> QED BY <2>1, <2>2, <2>3, SeqEqual
<1> QED BY <1>8 DEF d, e, v, OneMore

LEMMA DataTail ==
  ASSUME NEW list \in Seq(Nodes), list # <<>>, Len(list) # 1, NEW cells \in [Nodes -> Cells]
  PROVE  /\ DataOf(list, cells) # <<>> /\ Head(DataOf(list, cells)) = cells[list[2]].data
         /\ DataOf(Tail(list), cells) = Tail(DataOf(list, cells))
<1> DEFINE shorter == Tail(list)
           d == DataOf(list, cells)
           e == DataOf(shorter, cells)
<1>1. /\ Len(list) \in Nat \ {0} /\ d \in Seq(Optional) /\ Len(d) = Len(list) - 1
      /\ \A k \in 1 .. Len(list) - 1 : d[k] = cells[list[k + 1]].data /\ list[k + 1] \in Nodes
  BY DataSeq
<1>2. /\ shorter \in Seq(Nodes) /\ Len(shorter) = Len(list) - 1
      /\ \A i \in 1 .. Len(shorter) : shorter[i] = list[i + 1]
  BY HeadTailProperties
<1> HIDE DEF shorter
<1>3. shorter # <<>>
  BY <1>1, <1>2, EmptySeq
<1>4. /\ e \in Seq(Optional) /\ Len(e) = Len(shorter) - 1
      /\ \A k \in 1 .. Len(shorter) - 1 : e[k] = cells[shorter[k + 1]].data
  BY <1>2, <1>3, DataSeq
<1> HIDE DEF d, e
<1>5. PICK l \in Nat \ {0, 1} : l = Len(list)
  BY <1>1
<1>6. d # <<>>
  BY <1>1, <1>5, EmptySeq
<1>7. /\ Tail(d) \in Seq(Optional) /\ Len(Tail(d)) = Len(d) - 1
      /\ \A k \in 1 .. Len(d) - 1 : Tail(d)[k] = d[k + 1]
  BY <1>1, <1>6, HeadTailProperties
<1>8. ASSUME NEW k \in 1 .. l - 2 PROVE e[k] = Tail(d)[k]
  <2>1. k + 1 \in 1 .. l - 1
    OBVIOUS
  <2>2. e[k] = cells[list[(k + 1) + 1]].data
    <3>1. k \in 1 .. Len(shorter) - 1 /\ k + 1 \in 1 .. Len(shorter)
      BY <1>2, <1>5, <2>1
    <3>2. e[k] = cells[shorter[k + 1]].data
      BY <1>4, <3>1
    <3>3. shorter[k + 1] = list[(k + 1) + 1]
      BY <1>2, <3>1
    <3> QED BY <3>2, <3>3
  <2>3. Tail(d)[k] = d[k + 1] /\ d[k + 1] = cells[list[(k + 1) + 1]].data
    BY <1>1, <1>5, <1>7, <2>1
  <2> QED BY <2>2, <2>3
<1>9. e = Tail(d)
  <2>1. Len(e) = l - 2 /\ Len(Tail(d)) = l - 2
    BY <1>1, <1>2, <1>4, <1>5, <1>7
  <2>2. \A k \in 1 .. Len(e) : e[k] = Tail(d)[k]
    BY <1>8, <2>1
  <2>3. e \in Seq(Optional) /\ Tail(d) \in Seq(Optional)
    BY <1>4, <1>7
  <2> QED BY <2>1, <2>2, <2>3, SeqEqual
<1>10. d[1] = cells[list[2]].data
  <2>1. 1 \in 1 .. l - 1
    OBVIOUS
  <2> QED BY <1>1, <1>5, <2>1
<1>11. Head(d) = d[1]
  BY <1>1, <1>6
<1> QED BY <1>6, <1>9, <1>10, <1>11 DEF d, e, shorter

-----------------------------------------------------------------------------
(* The queue implements ConcurrentFifo.                                       *)

LEMMA ContentsIsData ==
  /\ Contents = DataOf(linked, node)
  /\ Contents' = DataOf(linked', node')
BY DEF Contents, DataOf, Length

LEMMA SameContents ==
  ASSUME QueueInv, linked' = linked, \A n \in Linked : node'[n].data = node[n].data
  PROVE  Contents' = Contents
<1>1. Len(linked) \in Nat \ {0} /\ DOMAIN linked = 1 .. Len(linked)
  BY ListFacts DEF QueueInv
<1>2. \A k \in 1 .. Length : linked[k + 1] \in Linked
  <2>1. \A k \in 1 .. Length : k + 1 \in 1 .. Len(linked)
    BY <1>1 DEF Length
  <2> QED BY <1>1, <2>1 DEF Linked
<1> QED BY <1>2 DEF Contents, Length

LEMMA ContentsOfLink ==
  ASSUME QueueInv, NEW t \in Threads, th[t].pc = "link", linked' = Append(linked, th[t].new),
         node' = [node EXCEPT ![th[t].tail].next = th[t].new]
  PROVE  \E v \in Values : Contents' = Append(Contents, v)
<1> DEFINE new == th[t].new
<1>1. /\ TypeOK /\ linked \in Seq(Nodes) /\ linked # <<>> /\ node \in [Nodes -> Cells]
      /\ new \in Nodes /\ node[new].data \in Values
  BY DEF QueueInv, ListInv, ListSound, NodesInv, Linking, TypeOK
<1>2. node' \in [Nodes -> Cells] /\ SameData(node', node)
  BY <1>1 DEF Cells, Pointers, SameData
<1>3. linked' = Append(linked, new)
  OBVIOUS
<1> HIDE DEF new
<1>4. OneMore(linked', node', linked, node, new)
  <2>1. /\ linked \in Seq(Nodes) /\ linked # <<>> /\ node \in [Nodes -> Cells] /\ new \in Nodes
        /\ node' \in [Nodes -> Cells] /\ SameData(node', node) /\ linked' = Append(linked, new)
    BY <1>1, <1>2, <1>3
  <2> QED BY <2>1, DataAppend
<1>5. Contents' = Append(Contents, node[new].data)
  BY <1>4, ContentsIsData DEF OneMore
<1> QED BY <1>1, <1>5

LEMMA ContentsOfUnlink ==
  ASSUME QueueInv, NEW t \in Threads, th[t].pc = "unlink", head = th[t].head, linked' = Tail(linked),
         node' = node
  PROVE  Contents # <<>> /\ Contents' = Tail(Contents) /\ th[t].data = Head(Contents)
<1>1. /\ linked \in Seq(Nodes) /\ linked # <<>> /\ node \in [Nodes -> Cells] /\ PopKnows(t)
  BY DEF QueueInv, ListInv, ListSound, TypeOK, Knowledge
<1>2. Len(linked) # 1 /\ th[t].next = linked[2]
  <2>1. 1 \in DOMAIN linked /\ head = linked[1]
    BY <1>1, DataSeq DEF QueueInv, ListInv, ListSound
  <2>2. node[linked[1]].next = IF 1 = Len(linked) THEN Nil ELSE linked[2]
    BY <2>1 DEF QueueInv, ListInv, ListSound
  <2> QED BY <1>1, <2>1, <2>2 DEF PopKnows
<1>3. th[t].data = node[linked[2]].data
  BY <1>1, <1>2 DEF PopKnows
<1> QED BY <1>1, <1>2, <1>3, DataTail, ContentsIsData

LEMMA EmptyContents ==
  ASSUME QueueInv, node[head].next = Nil
  PROVE  Contents = <<>>
<1>1. /\ linked \in Seq(Nodes) /\ linked # <<>> /\ node \in [Nodes -> Cells]
  BY DEF QueueInv, ListInv, ListSound, TypeOK
<1>2. Len(linked) = 1
  <2>1. 1 \in DOMAIN linked /\ head = linked[1] /\ DOMAIN linked = 1 .. Len(linked)
        /\ Len(linked) \in Nat \ {0}
    BY <1>1, DataSeq DEF QueueInv, ListInv, ListSound
  <2>2. node[linked[1]].next = IF 1 = Len(linked) THEN Nil ELSE linked[2]
    BY <2>1 DEF QueueInv, ListInv, ListSound
  <2>3. Len(linked) # 1 => linked[2] \in Nodes
    BY <1>1, <2>1
  <2> QED BY <2>1, <2>2, <2>3, QueueAssumption
<1> QED BY <1>1, <1>2, DataSeq, EmptySeq, ContentsIsData

(* Every step is a step of ConcurrentFifo or leaves its variables alone.      *)
LEMMA FifoStep ==
  ASSUME QueueInv, [Next]_vars
  PROVE  [Fifo!CNext]_Fifo!cfifoVars
<1> USE DEF Fifo!CNext, Fifo!cfifoVars
<1>1. TypeOK /\ NodesInv /\ PlacesInv /\ Linked \subseteq live /\ Linked \subseteq Nodes
  BY ListFacts DEF QueueInv, ListInv
<1>2. CASE UNCHANGED vars
  BY <1>2, SameContents DEF vars
<1>3. ASSUME UNCHANGED <<linked, node, out, sawEmpty>>
      PROVE  UNCHANGED Fifo!cfifoVars
  BY <1>3, SameContents
<1>4. ASSUME NEW t \in Threads, NEW v \in Values, push(t, v) PROVE UNCHANGED Fifo!cfifoVars
  <2>1. PICK n \in Nodes : NewNode(n, v)
    BY <1>4 DEF push
  <2>2. \A m \in Linked : node'[m].data = node[m].data
    BY <1>1, <2>1 DEF NewNode, TypeOK
  <2> QED BY <1>4, <2>2, SameContents DEF push
<1>5. ASSUME NEW t \in Threads, PushStep(t) PROVE [Fifo!CNext]_Fifo!cfifoVars
  <2>1. CASE Link(t)
    <3>1. CASE UNCHANGED <<node, linked>>
      BY <1>3, <2>1, <3>1 DEF Link
    <3>2. CASE linked' = Append(linked, th[t].new) /\ node' = [node EXCEPT ![th[t].tail].next = th[t].new]
      <4>1. PICK v \in Values : Contents' = Append(Contents, v)
        BY <2>1, <3>2, ContentsOfLink DEF Link
      <4>2. Fifo!CPush(v)
        BY <2>1, <4>1 DEF Fifo!CPush, Link
      <4> QED BY <4>2
    <3> QED BY <2>1, <3>1, <3>2 DEF Link
  <2>2. CASE ~Link(t)
    <3>1. UNCHANGED <<linked, node, out, sawEmpty>>
      BY <1>5, <2>2 DEF PushStep, PushLoadTail, PushLoadNext, PushValidate, PushSwing, PushHelp,
         SwingTail, PushCount
    <3> QED BY <1>3, <3>1
  <2> QED BY <2>1, <2>2
<1>6. ASSUME NEW t \in Threads, PopStep(t) PROVE [Fifo!CNext]_Fifo!cfifoVars
  <2>1. CASE pop(t)
    <3>1. Contents' = Contents
      BY <2>1, SameContents DEF pop
    <3>2. Fifo!CForget(t)
      BY <2>1, <3>1 DEF pop, Fifo!CForget
    <3> QED BY <3>2
  <2>2. CASE PopLoadNext(t)
    <3>1. Contents' = Contents
      BY <2>2, SameContents DEF PopLoadNext
    <3>2. CASE node[head].next = Nil
      <4>1. Fifo!CSeeEmpty(t)
        BY <2>2, <3>1, <3>2, EmptyContents DEF PopLoadNext, Fifo!CSeeEmpty
      <4> QED BY <4>1
    <3>3. CASE node[head].next # Nil
      BY <2>2, <3>1, <3>3 DEF PopLoadNext
    <3> QED BY <3>2, <3>3
  <2>3. CASE PopValidate(t)
    <3>1. Contents' = Contents
      BY <2>3, SameContents DEF PopValidate
    <3>2. CASE head = th[t].head /\ th[t].head = th[t].tail /\ th[t].next = Nil
      <4>1. t \in sawEmpty
        BY <2>3, <3>2 DEF PopValidate, QueueInv, Knowledge, PopKnows
      <4>2. Fifo!CNothing(t)
        BY <2>3, <3>1, <3>2, <4>1 DEF PopValidate, Fifo!CNothing
      <4> QED BY <4>2
    <3>3. CASE ~(head = th[t].head /\ th[t].head = th[t].tail /\ th[t].next = Nil)
      BY <2>3, <3>1, <3>3 DEF PopValidate
    <3> QED BY <3>2, <3>3
  <2>4. CASE Unlink(t)
    <3>1. CASE UNCHANGED <<linked, out>>
      BY <1>3, <2>4, <3>1 DEF Unlink
    <3>2. CASE head = th[t].head /\ linked' = Tail(linked) /\ out' = [out EXCEPT ![t] = th[t].data]
      <4>1. Contents # <<>> /\ Contents' = Tail(Contents) /\ th[t].data = Head(Contents)
        BY <2>4, <3>2, ContentsOfUnlink DEF Unlink
      <4>2. Fifo!CPop(t)
        BY <2>4, <3>2, <4>1 DEF Unlink, Fifo!CPop
      <4> QED BY <4>2
    <3> QED BY <2>4, <3>1, <3>2 DEF Unlink
  <2>5. CASE Delete(t)
    <3>1. PICK n \in th[t].doomed : node' = [node EXCEPT ![n] = Blank]
      BY <2>5 DEF Delete
    <3>2. n \in Pointers /\ Held(t, n)
      BY <1>1 DEF Held, TypeOK, Calls, Pointers
    <3>3. n \notin Linked
      BY <1>1, <3>2 DEF PlacesInv
    <3>4. \A m \in Linked : node'[m].data = node[m].data
      BY <1>1, <3>1, <3>3 DEF TypeOK
    <3> QED BY <2>5, <3>4, SameContents DEF Delete
  <2>6. CASE ~(pop(t) \/ PopLoadNext(t) \/ PopValidate(t) \/ Unlink(t) \/ Delete(t))
    <3>1. UNCHANGED <<linked, node, out, sawEmpty>>
      BY <1>6, <2>6 DEF PopStep, PopLoadTail, PopHelp, SwingTail, PopReadData, PopCount, retire_node,
         CountRetired, try_reclaim, Detach, ResetCount
    <3> QED BY <1>3, <3>1
  <2> QED BY <2>1, <2>2, <2>3, <2>4, <2>5, <2>6
<1> QED BY <1>2, <1>4, <1>5, <1>6 DEF Next, Threads

LEMMA FifoInit ==
  ASSUME Init
  PROVE  Fifo!CInit
<1>1. QueueInv
  BY QueueInit
<1>2. node[head].next = Nil /\ sawEmpty = {} /\ out = [t \in Threads |-> NoValue]
  BY DEF Init, Blank
<1> QED BY <1>1, <1>2, EmptyContents DEF Fifo!CInit

(* Used in one of the two ways, push and pop of any number of threads are     *)
(* those of one FIFO: a value takes its place at the exchange that links its  *)
(* node and leaves at the exchange of head_, and pop reports nothing only if  *)
(* the queue was empty when it read the next of the head.                     *)
THEOREM QueueIsConcurrentFifo ==
  ASSUME SafeUses
  PROVE  Spec => IsConcurrentFifo
<1>1. Init => QueueInv /\ Fifo!CInit
  BY QueueInit, FifoInit
<1>2. QueueInv /\ [Next]_vars => QueueInv'
  BY QueueStep
<1>3. QueueInv /\ [Next]_vars => [Fifo!CNext]_Fifo!cfifoVars
  BY FifoStep
<1> QED BY <1>1, <1>2, <1>3, PTL DEF Spec, IsConcurrentFifo, Fifo!CSpec
=============================================================================
