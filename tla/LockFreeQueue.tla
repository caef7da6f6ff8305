--------------------------- MODULE LockFreeQueue ---------------------------
(***************************************************************************)
(* LockFreeQueue<T> (include/utils/lock_free_queue.hpp): the Michael-Scott *)
(* queue with a list of retired nodes that is deleted every so many        *)
(* pops.  One action is one atomic access to head_, tail_, a node or the   *)
(* retired list; all of them but those of the counters are sequentially    *)
(* consistent.                                                             *)
(***************************************************************************)
EXTENDS Naturals, Sequences, FiniteSets

CONSTANTS
  Producers,   \* threads that push
  Consumers,   \* threads that pop
  Values,      \* what is pushed
  NoValue,     \* std::nullopt, and the data of the first dummy node
  Nodes,       \* the addresses of nodes: bounds the number of live nodes
  Nil,         \* nullptr
  Uses,        \* the ways the queue is used: [threads, threshold, weak], the
               \* threads that call it, the threshold of try_reclaim (100) and
               \* whether compare_exchange_weak may fail spuriously
  Stalled,     \* threads that may stop anywhere, for the liveness property
  SizeMod      \* 2^w for the width w of size_t

Threads == Producers \union Consumers

ASSUME QueueAssumption ==
  /\ Nil \notin Nodes /\ NoValue \notin Values
  /\ Stalled \subseteq Threads
  /\ Uses \subseteq [threads : SUBSET Threads, threshold : Nat \ {0}, weak : BOOLEAN]
  /\ IsFiniteSet(Threads) /\ IsFiniteSet(Nodes)
  /\ SizeMod \in Nat \ {0} /\ Cardinality(Nodes) <= SizeMod   \* addresses are no wider than size_t

VARIABLES
  node,        \* node[n]: data and next of the node at address n
  live,        \* the addresses that hold a node
  head, tail,  \* head_, tail_
  linked,      \* history: the nodes from head_ on, in the order of their links
  size,        \* size_
  retired,     \* the nodes of the retired list
  count,       \* retired_count_
  th,          \* th[t]: pc and locals of thread t
  out,         \* out[t]: the result of t's last pop
  sawEmpty,    \* history: threads whose pop saw the queue empty
  use          \* the way the queue is used in this behaviour

vars == <<node, live, head, tail, linked, size, retired, count, th, out, sawEmpty, use>>

Blank == [data |-> NoValue, next |-> Nil]
NoCall == [pc |-> "idle", new |-> Nil, head |-> Nil, tail |-> Nil, next |-> Nil,
           data |-> NoValue, doomed |-> {}]

Init ==
  \E dummy \in Nodes :
    /\ node = [n \in Nodes |-> Blank]
    /\ live = {dummy}
    /\ head = dummy /\ tail = dummy /\ linked = <<dummy>>
    /\ size = 0 /\ retired = {} /\ count = 0
    /\ th = [t \in Threads |-> NoCall]
    /\ out = [t \in Threads |-> NoValue]
    /\ sawEmpty = {} /\ use \in Uses

GoTo(t, pc) == th' = [th EXCEPT ![t].pc = pc]

(* A node at an address the allocator has free, new or used before.        *)
NewNode(n, v) ==
  /\ n \notin live
  /\ live' = live \union {n}
  /\ node' = [node EXCEPT ![n] = [data |-> v, next |-> Nil]]

-----------------------------------------------------------------------------
(* push                                                                    *)
push(t, v) ==
  /\ th[t].pc = "idle"
  /\ \E n \in Nodes : NewNode(n, v) /\ th' = [th EXCEPT ![t].pc = "tail", ![t].new = n]
  /\ UNCHANGED <<head, tail, size, retired, count, out, sawEmpty, linked>>

PushLoadTail(t) ==
  /\ th[t].pc = "tail"
  /\ th' = [th EXCEPT ![t].tail = tail, ![t].pc = "tailnext"]
  /\ UNCHANGED <<node, live, head, tail, size, retired, count, out, sawEmpty, linked>>

(* tail->next.load(): what is read through a stale pointer is unspecified. *)
PushLoadNext(t) ==
  /\ th[t].pc = "tailnext"
  /\ \E n \in IF th[t].tail \in live THEN {node[th[t].tail].next} ELSE Nodes \union {Nil} :
       th' = [th EXCEPT ![t].next = n, ![t].pc = "validate"]
  /\ UNCHANGED <<node, live, head, tail, size, retired, count, out, sawEmpty, linked>>

PushValidate(t) ==
  /\ th[t].pc = "validate"
  /\ GoTo(t, IF th[t].tail # tail THEN "tail" ELSE IF th[t].next = Nil THEN "link" ELSE "help")
  /\ UNCHANGED <<node, live, head, tail, size, retired, count, out, sawEmpty, linked>>

(* tail->next.compare_exchange_weak(nullptr, new_node)                     *)
Link(t) ==
  /\ th[t].pc = "link"
  /\ \/ /\ node[th[t].tail].next = Nil
        /\ node' = [node EXCEPT ![th[t].tail].next = th[t].new]
        /\ linked' = Append(linked, th[t].new)
        /\ GoTo(t, "swing")
     \/ /\ node[th[t].tail].next # Nil \/ use.weak
        /\ GoTo(t, "tail")
        /\ UNCHANGED <<node, linked>>
  /\ UNCHANGED <<live, head, tail, size, retired, count, out, sawEmpty>>

(* tail_.compare_exchange_weak(expected, to), whose result is not used.    *)
SwingTail(t, expected, to, pc) ==
  /\ \/ tail = expected /\ tail' = to
     \/ (tail # expected \/ use.weak) /\ UNCHANGED tail
  /\ GoTo(t, pc)
  /\ UNCHANGED <<node, live, head, size, retired, count, out, sawEmpty, linked>>

PushSwing(t) == th[t].pc = "swing" /\ SwingTail(t, th[t].tail, th[t].new, "grow")

(* Mutant: a thread that finds tail_ behind waits for its owner.           *)
WaitForTail(t) ==
  /\ th[t].pc = "help"
  /\ GoTo(t, "tail")
  /\ UNCHANGED <<node, live, head, tail, size, retired, count, out, sawEmpty, linked>>

PushHelp(t) == th[t].pc = "help" /\ SwingTail(t, th[t].tail, th[t].next, "tail")

PushCount(t) ==
  /\ th[t].pc = "grow"
  /\ size' = (size + 1) % SizeMod
  /\ th' = [th EXCEPT ![t] = NoCall]
  /\ UNCHANGED <<node, live, head, tail, retired, count, out, sawEmpty, linked>>

-----------------------------------------------------------------------------
(* pop                                                                     *)
pop(t) ==
  /\ th[t].pc \in {"idle", "head"}
  /\ th' = [th EXCEPT ![t].head = head, ![t].pc = "poptail"]
  /\ sawEmpty' = sawEmpty \ {t}
  /\ UNCHANGED <<node, live, head, tail, size, retired, count, out, linked>>

PopLoadTail(t) ==
  /\ th[t].pc = "poptail"
  /\ th' = [th EXCEPT ![t].tail = tail, ![t].pc = "popnext"]
  /\ UNCHANGED <<node, live, head, tail, size, retired, count, out, sawEmpty, linked>>

PopLoadNext(t) ==
  /\ th[t].pc = "popnext"
  /\ \E n \in IF th[t].head \in live THEN {node[th[t].head].next} ELSE Nodes \union {Nil} :
       th' = [th EXCEPT ![t].next = n, ![t].pc = "popvalidate"]
  /\ sawEmpty' = IF node[head].next = Nil THEN sawEmpty \union {t} ELSE sawEmpty
  /\ UNCHANGED <<node, live, head, tail, size, retired, count, out, linked>>

(* Retry, report an empty queue, help tail_ along, or go on.               *)
PopValidate(t) ==
  /\ th[t].pc = "popvalidate"
  /\ \/ /\ head = th[t].head /\ th[t].head = th[t].tail /\ th[t].next = Nil
        /\ th' = [th EXCEPT ![t] = NoCall]
        /\ out' = [out EXCEPT ![t] = NoValue]
        /\ sawEmpty' = sawEmpty \ {t}
     \/ /\ ~(head = th[t].head /\ th[t].head = th[t].tail /\ th[t].next = Nil)
        /\ GoTo(t, IF head # th[t].head THEN "head"
                   ELSE IF th[t].head = th[t].tail THEN "pophelp"
                   ELSE IF th[t].next = Nil THEN "head" ELSE "data")
        /\ UNCHANGED <<out, sawEmpty>>
  /\ UNCHANGED <<node, live, head, tail, size, retired, count, linked>>

PopHelp(t) == th[t].pc = "pophelp" /\ SwingTail(t, th[t].tail, th[t].next, "head")

(* Mutant: the value is taken from the dummy node.                         *)
ReadDummy(t) ==
  /\ th[t].pc = "data"
  /\ \E v \in IF th[t].head \in live THEN {node[th[t].head].data} ELSE Values :
       th' = [th EXCEPT ![t].data = v, ![t].pc = "unlink"]
  /\ UNCHANGED <<node, live, head, tail, size, retired, count, out, sawEmpty, linked>>

PopReadData(t) ==
  /\ th[t].pc = "data"
  /\ \E v \in IF th[t].next \in live THEN {node[th[t].next].data} ELSE Values :
       th' = [th EXCEPT ![t].data = v, ![t].pc = "unlink"]
  /\ UNCHANGED <<node, live, head, tail, size, retired, count, out, sawEmpty, linked>>

(* head_.compare_exchange_weak(head, next); the value is returned below.   *)
Unlink(t) ==
  /\ th[t].pc = "unlink"
  /\ \/ /\ head = th[t].head
        /\ head' = th[t].next
        /\ linked' = Tail(linked)
        /\ out' = [out EXCEPT ![t] = th[t].data]
        /\ GoTo(t, "shrink")
     \/ /\ head # th[t].head \/ use.weak
        /\ GoTo(t, "head")
        /\ UNCHANGED <<head, linked, out>>
  /\ UNCHANGED <<node, live, tail, size, retired, count, sawEmpty>>

(* Mutant: a pop is not counted.                                           *)
PopUncounted(t) ==
  /\ th[t].pc = "shrink"
  /\ GoTo(t, "retire")
  /\ UNCHANGED <<node, live, head, tail, size, retired, count, out, sawEmpty, linked>>

PopCount(t) ==
  /\ th[t].pc = "shrink"
  /\ size' = (size + SizeMod - 1) % SizeMod
  /\ GoTo(t, "retire")
  /\ UNCHANGED <<node, live, head, tail, retired, count, out, sawEmpty, linked>>

(* Mutant: the new dummy node is retired instead of the old one.           *)
RetireNext(t) ==
  /\ th[t].pc = "retire"
  /\ retired' = retired \union {th[t].next}
  /\ GoTo(t, "count")
  /\ UNCHANGED <<node, live, head, tail, size, count, out, sawEmpty, linked>>

(* retire_node: a CAS loop that pushes the old head, then the counter.     *)
retire_node(t) ==
  /\ th[t].pc = "retire"
  /\ retired' = retired \union {th[t].head}
  /\ GoTo(t, "count")
  /\ UNCHANGED <<node, live, head, tail, size, count, out, sawEmpty, linked>>

CountRetired(t) ==
  /\ th[t].pc = "count"
  /\ count' = count + 1
  /\ GoTo(t, "reclaim")
  /\ UNCHANGED <<node, live, head, tail, size, retired, out, sawEmpty, linked>>

(* try_reclaim: below the threshold, or another thread has the list.       *)
try_reclaim(t) ==
  /\ th[t].pc = "reclaim"
  /\ IF count < use.threshold THEN th' = [th EXCEPT ![t] = NoCall] ELSE GoTo(t, "detach")
  /\ UNCHANGED <<node, live, head, tail, size, retired, count, out, sawEmpty, linked>>

Detach(t) ==
  /\ th[t].pc = "detach"
  /\ retired' = {}
  /\ th' = IF retired = {} THEN [th EXCEPT ![t] = NoCall]
           ELSE [th EXCEPT ![t].doomed = retired, ![t].pc = "reset"]
  /\ UNCHANGED <<node, live, head, tail, size, count, out, sawEmpty, linked>>

ResetCount(t) ==
  /\ th[t].pc = "reset"
  /\ count' = 0
  /\ GoTo(t, "delete")
  /\ UNCHANGED <<node, live, head, tail, size, retired, out, sawEmpty, linked>>

(* The nodes of the list are deleted, one after the other.                 *)
Delete(t) ==
  /\ th[t].pc = "delete"
  /\ \E n \in th[t].doomed :
       /\ live' = live \ {n}
       /\ node' = [node EXCEPT ![n] = Blank]
       /\ th' = IF th[t].doomed = {n} THEN [th EXCEPT ![t] = NoCall]
                ELSE [th EXCEPT ![t].doomed = @ \ {n}]
  /\ UNCHANGED <<head, tail, size, retired, count, out, sawEmpty, linked>>

-----------------------------------------------------------------------------
PushStep(t) ==
  \/ PushLoadTail(t) \/ PushLoadNext(t) \/ PushValidate(t) \/ Link(t)
  \/ PushSwing(t) \/ PushHelp(t) \/ PushCount(t)

PopStep(t) ==
  \/ pop(t) \/ PopLoadTail(t) \/ PopLoadNext(t) \/ PopValidate(t) \/ PopHelp(t)
  \/ PopReadData(t) \/ Unlink(t) \/ PopCount(t) \/ retire_node(t) \/ CountRetired(t)
  \/ try_reclaim(t) \/ Detach(t) \/ ResetCount(t) \/ Delete(t)

Next ==
  /\ \/ \E t \in Producers \intersect use.threads :
          PushStep(t) \/ \E v \in Values : push(t, v)
     \/ \E t \in Consumers \intersect use.threads : PopStep(t)
  /\ UNCHANGED use

Spec == Init /\ [][Next]_vars

(* A thread inside a call keeps running, unless it is a stalled one.       *)
FairSpec ==
  Spec /\ \A t \in Threads \ Stalled :
            WF_vars(th[t].pc # "idle" /\ (PushStep(t) \/ PopStep(t)) /\ UNCHANGED use)

-----------------------------------------------------------------------------
(* Properties.                                                             *)

PushPCs == {"tail", "tailnext", "validate", "link", "swing", "help", "grow"}
PopPCs == {"head", "poptail", "popnext", "popvalidate", "pophelp", "data", "unlink",
           "shrink", "retire", "count", "reclaim", "detach", "reset", "delete"}

Pointers == Nodes \union {Nil}
Optional == Values \union {NoValue}
Cells == [data : Optional, next : Pointers]
Calls == [pc : PushPCs \union PopPCs \union {"idle"}, new : Pointers, head : Pointers,
          tail : Pointers, next : Pointers, data : Optional, doomed : SUBSET Nodes]

(* Every variable has its type.                                            *)
TypeOK ==
  /\ node \in [Nodes -> Cells] /\ th \in [Threads -> Calls]
  /\ live \subseteq Nodes /\ retired \subseteq Nodes
  /\ head \in Nodes /\ tail \in Nodes /\ linked \in Seq(Nodes)
  /\ size \in 0 .. SizeMod - 1 /\ count \in Nat
  /\ out \in [Threads -> Optional] /\ sawEmpty \subseteq Threads /\ use \in Uses

Linked == {linked[i] : i \in DOMAIN linked}
Length == Len(linked) - 1    \* the first node is the dummy

(* The history is the list that the pointers make: it begins at head_ and  *)
(* goes on from node to node up to the one without a next.                 *)
ListSound ==
  /\ linked # <<>> /\ head = linked[1]
  /\ \A i \in DOMAIN linked :
       node[linked[i]].next = IF i = Len(linked) THEN Nil ELSE linked[i + 1]

(* The answer of empty(), and the nodes the destructor deletes, which runs *)
(* when no thread is inside a call.                                        *)
empty == node[head].next = Nil

Destructed == Linked \union retired

(* push and pop of any number of threads are those of one FIFO: no value   *)
(* is lost, duplicated or reordered, and pop reports nothing only if the   *)
(* queue was empty at some moment of the call.                             *)
Contents == [k \in 1 .. Length |-> node[linked[k + 1]].data]
Fifo == INSTANCE ConcurrentFifo WITH queue <- Contents
IsConcurrentFifo == Fifo!CSpec

(* Every node is either linked, retired, or about to be deleted by one     *)
(* thread; the destructor would leak no node between calls and, the two    *)
(* lists being disjoint, delete none twice.                                *)
NodesOnce ==
  /\ Linked \intersect retired = {}
  /\ \A t \in Threads : th[t].doomed \intersect (Linked \union retired) = {}
  /\ \A t, u \in Threads : t # u => th[t].doomed \intersect th[u].doomed = {}
  /\ (\A t \in Threads : th[t].pc = "idle") => live = Destructed

(* push and pop never follow a pointer to a node that has been deleted.    *)
NoUseAfterFree ==
  \A t \in Threads :
    /\ th[t].pc \in {"tailnext", "link"} => th[t].tail \in live
    /\ th[t].pc = "popnext" => th[t].head \in live
    /\ th[t].pc = "data" => th[t].next \in live

(* The nodes are handled safely without a lock: the list stays one list, a *)
(* node is linked, retired or in one thread's hand to be deleted, and no   *)
(* thread follows a pointer to one that is deleted.  try_reclaim counts    *)
(* pops and asks no other thread, so this holds before the first           *)
(* reclamation, and after it with one producer, one consumer and no        *)
(* spurious failure (as on x86): nobody then moves tail_ past a node whose *)
(* address the producer still holds.                                       *)
NodesSafe == TypeOK /\ ListSound /\ NodesOnce /\ NoUseAfterFree

(* Between calls size() is the number of queued values, and empty() agrees *)
(* with it.                                                                *)
SizeExact ==
  (\A t \in Threads : th[t].pc = "idle") => size = Length /\ (empty <=> size = 0)

(* push and pop are lock-free: a thread that stops inside a call, even     *)
(* between linking its node and moving tail_, does not keep the others     *)
(* from finishing theirs.                                                  *)
OthersFinish == \A t \in Threads \ Stalled : th[t].pc # "idle" ~> th[t].pc = "idle"
=============================================================================
