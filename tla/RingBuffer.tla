----------------------------- MODULE RingBuffer -----------------------------
(***************************************************************************)
(* RingBuffer<T, CAPACITY> (include/utils/ring_buffer.hpp): a circular     *)
(* buffer between one producer and one consumer thread.                    *)
(*                                                                         *)
(* A thread's own index changes only by its own stores, so a call is       *)
(* divided at its accesses to the other thread's index and to the cells:   *)
(* push loads tail_, writes a cell, stores head_; pop loads head_, takes   *)
(* the cell's value, stores tail_.  The index stores are release and the   *)
(* loads of the other side's index acquire, so a thread that sees an index *)
(* sees the accesses to the cells before it.                               *)
(***************************************************************************)
EXTENDS Integers, Sequences

CONSTANTS
  Capacity,    \* CAPACITY
  Values,      \* the values the producer pushes
  NoValue      \* std::nullopt, and the content of a cell that has no value

(* The code requires a power of two, so that a mask can replace the        *)
(* modulo; the model uses the modulo and needs only one cell.              *)
ASSUME RingAssumption == Capacity \in Nat \ {0} /\ NoValue \notin Values

VARIABLES
  head, tail,  \* head_ and tail_
  buffer,      \* buffer_
  prod,        \* the producer: pc and the value it is pushing
  cons,        \* the consumer: pc and the value it has taken
  accepted,    \* the result of the last push
  out,         \* the result of the last pop or peek
  queue,       \* history: the values pushed and not yet popped
  credit,      \* history: pushes the producer has been told will succeed
  known        \* history: values the consumer has been told are there

ringVars == <<head, tail, buffer, prod, cons, accepted, out, queue, credit, known>>

Cells == 0 .. Capacity - 1

(* (i + 1) & MASK                                                          *)
Next1(i) == (i + 1) % Capacity

(* (head - tail) & MASK on unsigned integers.                              *)
Distance(h, t) == (h - t) % Capacity

RingInit ==
  /\ head = 0 /\ tail = 0
  /\ buffer = [i \in Cells |-> NoValue]
  /\ prod = [pc |-> "idle", value |-> NoValue]
  /\ cons = [pc |-> "idle", value |-> NoValue]
  /\ accepted = TRUE /\ out = NoValue
  /\ queue = <<>> /\ credit = 0 /\ known = 0

-----------------------------------------------------------------------------
(* The producer.                                                           *)

(* Mutant: a second cell is kept free.                                     *)
PushTwoFree(v) ==
  /\ prod.pc = "idle"
  /\ \/ /\ tail \in {Next1(head), Next1(Next1(head))}
        /\ accepted' = FALSE
        /\ UNCHANGED prod
     \/ /\ tail \notin {Next1(head), Next1(Next1(head))}
        /\ prod' = [pc |-> "write", value |-> v]
        /\ UNCHANGED accepted
  /\ UNCHANGED <<head, tail, buffer, cons, out, queue, credit, known>>

(* push: load tail_; the buffer is full when head_ would catch up with it. *)
push(v) ==
  /\ prod.pc = "idle"
  /\ \/ /\ Next1(head) = tail
        /\ accepted' = FALSE
        /\ UNCHANGED prod
     \/ /\ Next1(head) # tail
        /\ prod' = [pc |-> "write", value |-> v]
        /\ UNCHANGED accepted
  /\ UNCHANGED <<head, tail, buffer, cons, out, queue, credit, known>>

WriteCell ==
  /\ prod.pc = "write"
  /\ buffer' = [buffer EXCEPT ![head] = prod.value]
  /\ prod' = [prod EXCEPT !.pc = "publish"]
  /\ UNCHANGED <<head, tail, cons, accepted, out, queue, credit, known>>

StoreHead ==
  /\ prod.pc = "publish"
  /\ head' = Next1(head)
  /\ accepted' = TRUE
  /\ prod' = [pc |-> "idle", value |-> NoValue]
  /\ queue' = Append(queue, prod.value)
  /\ credit' = IF credit = 0 THEN 0 ELSE credit - 1
  /\ UNCHANGED <<tail, buffer, cons, out, known>>

(* full, called by the producer.                                           *)
full ==
  /\ prod.pc = "idle"
  /\ credit' = IF Next1(head) = tail THEN 0 ELSE 1
  /\ UNCHANGED <<head, tail, buffer, prod, cons, accepted, out, queue, known>>

(* size, called by the producer: what it does not count is free.           *)
ProducerSize ==
  /\ prod.pc = "idle"
  /\ credit' = Capacity - 1 - Distance(head, tail)
  /\ UNCHANGED <<head, tail, buffer, prod, cons, accepted, out, queue, known>>

-----------------------------------------------------------------------------
(* The consumer.                                                           *)

(* pop and peek: load head_; empty when it is tail_.                       *)
pop(op) ==
  /\ cons.pc = "idle"
  /\ \/ /\ tail = head
        /\ out' = NoValue
        /\ UNCHANGED cons
     \/ /\ tail # head
        /\ cons' = [pc |-> op, value |-> NoValue]
        /\ UNCHANGED out
  /\ UNCHANGED <<head, tail, buffer, prod, accepted, queue, credit, known>>

(* pop moves the value out of its cell.                                    *)
TakeCell ==
  /\ cons.pc = "pop"
  /\ cons' = [pc |-> "release", value |-> buffer[tail]]
  /\ buffer' = [buffer EXCEPT ![tail] = NoValue]
  /\ UNCHANGED <<head, tail, prod, accepted, out, queue, credit, known>>

StoreTail ==
  /\ cons.pc = "release"
  /\ tail' = Next1(tail)
  /\ out' = cons.value
  /\ cons' = [pc |-> "idle", value |-> NoValue]
  /\ queue' = Tail(queue)
  /\ known' = IF known = 0 THEN 0 ELSE known - 1
  /\ UNCHANGED <<head, buffer, prod, accepted, credit>>

(* peek copies the value and leaves it.                                    *)
peek ==
  /\ cons.pc = "peek"
  /\ out' = buffer[tail]
  /\ cons' = [pc |-> "idle", value |-> NoValue]
  /\ UNCHANGED <<head, tail, buffer, prod, accepted, queue, credit, known>>

(* empty, called by the consumer.                                          *)
empty ==
  /\ cons.pc = "idle"
  /\ known' = IF tail = head THEN 0 ELSE 1
  /\ UNCHANGED <<head, tail, buffer, prod, cons, accepted, out, queue, credit>>

(* Mutant: size without the mask, as a distance of positions.              *)
SizeUnmasked ==
  /\ cons.pc = "idle"
  /\ known' = IF head >= tail THEN head - tail ELSE tail - head
  /\ UNCHANGED <<head, tail, buffer, prod, cons, accepted, out, queue, credit>>

(* size, called by the consumer.                                           *)
ConsumerSize ==
  /\ cons.pc = "idle"
  /\ known' = Distance(head, tail)
  /\ UNCHANGED <<head, tail, buffer, prod, cons, accepted, out, queue, credit>>

(* clear: two stores, made while no other thread uses the buffer.          *)
clear ==
  /\ prod.pc = "idle" /\ cons.pc = "idle"
  /\ head' = 0 /\ tail' = 0
  /\ queue' = <<>> /\ known' = 0
  /\ UNCHANGED <<buffer, prod, cons, accepted, out, credit>>

-----------------------------------------------------------------------------
Producer == (\E v \in Values : push(v)) \/ WriteCell \/ StoreHead \/ full \/ ProducerSize

Consumer ==
  \/ \E op \in {"pop", "peek"} : pop(op)
  \/ TakeCell \/ StoreTail \/ peek \/ empty \/ ConsumerSize

RingNext == Producer \/ Consumer \/ clear

RingSpec == RingInit /\ [][RingNext]_ringVars

-----------------------------------------------------------------------------
(* Properties.                                                             *)

(* Every variable has its type; the indices stay inside the array.         *)
RingTypeOK ==
  /\ head \in Cells /\ tail \in Cells
  /\ buffer \in [Cells -> Values \union {NoValue}]
  /\ prod \in [pc : {"idle", "write", "publish"}, value : Values \union {NoValue}]
  /\ cons \in [pc : {"idle", "pop", "peek", "release"}, value : Values \union {NoValue}]
  /\ accepted \in BOOLEAN /\ out \in Values \union {NoValue}
  /\ queue \in Seq(Values)
  /\ credit \in Cells /\ known \in Cells

(* The cells are not atomic: the producer never writes the cell the        *)
(* consumer is reading.                                                    *)
NoRace == ~(prod.pc = "write" /\ cons.pc \in {"pop", "peek"} /\ head = tail)

(* What size and full told the producer and size and empty the consumer    *)
(* stays true until they use it: nobody else takes the free cells of the   *)
(* one or the values of the other.                                         *)
AnswersKept ==
  /\ credit <= Capacity - 1 - Len(queue)
  /\ known <= Len(queue)

(* The ring is safe without a lock: the indices stay in the array, no cell *)
(* is written while the other thread reads it, and what push and pop were  *)
(* told of the other side's index still holds when they act on it.         *)
RingSafe == RingTypeOK /\ NoRace /\ AnswersKept

(* push, pop, peek and clear are those of a FIFO of Capacity - 1 values.   *)
Fifo == INSTANCE BoundedFifo WITH Room <- Capacity - 1
IsBoundedFifo == Fifo!FSpec
=============================================================================
