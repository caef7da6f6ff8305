-------------------------- MODULE UtilitiesProofs --------------------------
(***************************************************************************)
(* Theorems about RingBuffer, for every capacity and every set of values,  *)
(* and about RateLimiter, for any number of threads, any rates and         *)
(* capacities, and any length of time.                                     *)
(***************************************************************************)
EXTENDS RingBuffer, RateLimiter, FiniteSetTheorems, FunctionTheorems, WellFoundedInduction, TLAPS

-----------------------------------------------------------------------------
(* RingBuffer.                                                             *)

(* The mask on a sum and on a difference, as cases.                        *)
LEMMA Masks ==
  /\ \A i \in Cells : Next1(i) = (IF i = Capacity - 1 THEN 0 ELSE i + 1)
  /\ \A h, t \in Cells : Distance(h, t) = (IF h >= t THEN h - t ELSE h - t + Capacity)
<1>1. \A x \in 0 .. Capacity - 1 : x % Capacity = x
  BY RingAssumption
<1>2. \A x \in 0 .. Capacity - 1 : (x - Capacity) % Capacity = x
  BY RingAssumption
<1>3. Capacity % Capacity = 0
  BY RingAssumption
<1>4. \A i \in Cells : Next1(i) = (IF i = Capacity - 1 THEN 0 ELSE i + 1)
  BY <1>1, <1>3, RingAssumption DEF Next1, Cells
<1>5. \A h, t \in Cells : Distance(h, t) = (IF h >= t THEN h - t ELSE h - t + Capacity)
  BY <1>1, <1>2, RingAssumption DEF Distance, Cells
<1> QED BY <1>4, <1>5

-----------------------------------------------------------------------------
(* The inductive invariant.  The cells from tail_ up to head_ hold the     *)
(* queued values in order, except that the consumer may have moved the     *)
(* first one out already; a thread inside a call has room, or a value, of  *)
(* its own.                                                                *)

(* The cell of the k-th value when the first is in cell t.                 *)
At(t, k) == IF t + k - 1 >= Capacity THEN t + k - 1 - Capacity ELSE t + k - 1

Counted == Len(queue) = Distance(head, tail)

InCells ==
  \A k \in 1 .. Len(queue) : buffer[At(tail, k)] = queue[k] \/ (k = 1 /\ cons.pc = "release")

ConsumerHas ==
  /\ cons.pc # "idle" => Len(queue) > 0
  /\ cons.pc = "release" => cons.value = queue[1]

ProducerHas ==
  /\ prod.pc # "idle" => Len(queue) < Capacity - 1 /\ prod.value \in Values
  /\ prod.pc = "publish" => buffer[head] = prod.value

IInv == RingTypeOK /\ Counted /\ InCells /\ ConsumerHas /\ ProducerHas /\ AnswersKept

(* The cells of the queued values are cells, head_ is the one after the    *)
(* last, and no two values share one.                                      *)
LEMMA CellsOfQueue ==
  ASSUME RingTypeOK, Counted
  PROVE  /\ Len(queue) \in 0 .. Capacity - 1
         /\ \A k \in 1 .. Len(queue) : At(tail, k) \in Cells /\ At(tail, k) # head
         /\ At(tail, Len(queue) + 1) = head
         /\ \A k \in 2 .. Len(queue) : At(tail, k) # tail
         /\ \A k \in 1 .. Capacity - 1 : At(Next1(tail), k) = At(tail, k + 1)
         /\ Len(queue) > 0 => At(tail, 1) = tail
<1>1. head \in Cells /\ tail \in Cells /\ Len(queue) = Distance(head, tail)
  BY DEF RingTypeOK, Counted
<1>2. Distance(head, tail) = (IF head >= tail THEN head - tail ELSE head - tail + Capacity)
      /\ Next1(tail) = (IF tail = Capacity - 1 THEN 0 ELSE tail + 1)
  BY <1>1, Masks
<1> QED BY <1>1, <1>2, RingAssumption DEF Cells, At

(* The step of either index moves the distance by one.                     *)
LEMMA Steps ==
  ASSUME RingTypeOK
  PROVE  /\ Next1(head) \in Cells /\ Next1(tail) \in Cells
         /\ Distance(head, tail) \in Cells
         /\ Next1(head) = tail <=> Distance(head, tail) = Capacity - 1
         /\ head = tail <=> Distance(head, tail) = 0
         /\ Distance(head, tail) < Capacity - 1 =>
              Distance(Next1(head), tail) = Distance(head, tail) + 1
         /\ Distance(head, tail) > 0 =>
              Distance(head, Next1(tail)) = Distance(head, tail) - 1
<1>1. head \in Cells /\ tail \in Cells
  BY DEF RingTypeOK
<1>2. /\ Next1(head) = (IF head = Capacity - 1 THEN 0 ELSE head + 1)
      /\ Next1(tail) = (IF tail = Capacity - 1 THEN 0 ELSE tail + 1)
  BY <1>1, Masks
<1>3. Next1(head) \in Cells /\ Next1(tail) \in Cells
  BY <1>1, <1>2, RingAssumption DEF Cells
<1>4. /\ Distance(head, tail) = (IF head >= tail THEN head - tail ELSE head - tail + Capacity)
      /\ Distance(Next1(head), tail)
           = (IF Next1(head) >= tail THEN Next1(head) - tail ELSE Next1(head) - tail + Capacity)
      /\ Distance(head, Next1(tail))
           = (IF head >= Next1(tail) THEN head - Next1(tail) ELSE head - Next1(tail) + Capacity)
  BY <1>1, <1>3, Masks
<1> QED BY <1>1, <1>2, <1>3, <1>4, RingAssumption DEF Cells

-----------------------------------------------------------------------------
(* Every step keeps the invariant and is a step of the bounded FIFO.       *)

Abstract == [Fifo!FNext]_(Fifo!fifoVars)

(* The constructor establishes the invariant.                              *)
LEMMA InitInv == RingInit => IInv
<1> SUFFICES ASSUME RingInit PROVE IInv
  OBVIOUS
<1>1. RingTypeOK
  BY RingAssumption DEF RingInit, RingTypeOK, Cells
<1>2. Distance(0, 0) = 0
  BY <1>1, Steps DEF RingInit
<1> QED BY <1>1, <1>2, RingAssumption
        DEF RingInit, IInv, Counted, InCells, ConsumerHas, ProducerHas, AnswersKept

(* A step of the producer.                                                 *)
LEMMA ProducerStep ==
  ASSUME IInv, Producer
  PROVE  IInv' /\ Abstract
<1>0. /\ RingTypeOK /\ Counted /\ InCells /\ ConsumerHas /\ ProducerHas /\ AnswersKept
      /\ queue \in Seq(Values) /\ Len(queue) \in 0 .. Capacity - 1
      /\ head \in Cells /\ tail \in Cells /\ buffer \in [Cells -> Values \union {NoValue}]
  BY CellsOfQueue DEF IInv, RingTypeOK
<1>1. ASSUME NEW v \in Values, push(v) PROVE IInv' /\ Abstract
  <2>1. CASE Next1(head) = tail
    <3>1. accepted' = FALSE /\ UNCHANGED <<head, tail, buffer, prod, cons, out, queue, credit, known>>
      BY <1>1, <2>1 DEF push
    <3>2. Len(queue) = Capacity - 1
      BY <1>0, <2>1, Steps DEF Counted
    <3>3. IInv'
      BY <1>0, <3>1 DEF IInv, RingTypeOK, Counted, InCells, ConsumerHas, ProducerHas, AnswersKept
    <3>4. Fifo!FRefuse
      BY <3>1, <3>2 DEF Fifo!FRefuse
    <3> QED BY <3>3, <3>4 DEF Abstract, Fifo!FNext
  <2>2. CASE Next1(head) # tail
    <3>1. prod' = [pc |-> "write", value |-> v]
          /\ UNCHANGED <<head, tail, buffer, cons, accepted, out, queue, credit, known>>
      BY <1>1, <2>2 DEF push
    <3>2. Len(queue) < Capacity - 1
      BY <1>0, <2>2, Steps, RingAssumption DEF Counted, Cells
    <3>3. IInv'
      BY <1>0, <3>1, <3>2 DEF IInv, RingTypeOK, Counted, InCells, ConsumerHas, ProducerHas, AnswersKept
    <3> QED BY <3>1, <3>3 DEF Abstract, Fifo!fifoVars
  <2> QED BY <2>1, <2>2
<1>2. CASE WriteCell
  <2>1. /\ buffer' = [buffer EXCEPT ![head] = prod.value] /\ prod.pc = "write"
        /\ prod' = [prod EXCEPT !.pc = "publish"]
        /\ UNCHANGED <<head, tail, cons, accepted, out, queue, credit, known>>
    BY <1>2 DEF WriteCell
  <2>2. prod.value \in Values /\ Len(queue) < Capacity - 1
    BY <1>0, <2>1 DEF ProducerHas
  <2>3. /\ prod' \in [pc : {"idle", "write", "publish"}, value : Values \union {NoValue}]
        /\ prod'.pc = "publish" /\ prod'.value = prod.value
    BY <1>0, <2>1 DEF RingTypeOK
  <2>4. RingTypeOK'
    BY <1>0, <2>1, <2>2, <2>3 DEF RingTypeOK
  <2>5. InCells'
    BY <1>0, <2>1, CellsOfQueue DEF InCells
  <2>6. ProducerHas'
    BY <1>0, <2>1, <2>2, <2>3 DEF ProducerHas
  <2>7. Counted' /\ ConsumerHas' /\ AnswersKept'
    BY <1>0, <2>1 DEF Counted, ConsumerHas, AnswersKept
  <2> QED BY <2>1, <2>4, <2>5, <2>6, <2>7 DEF IInv, Abstract, Fifo!fifoVars
<1>3. CASE StoreHead
  <2>1. /\ head' = Next1(head) /\ accepted' = TRUE /\ prod.pc = "publish"
        /\ prod' = [pc |-> "idle", value |-> NoValue]
        /\ queue' = Append(queue, prod.value)
        /\ credit' = (IF credit = 0 THEN 0 ELSE credit - 1)
        /\ UNCHANGED <<tail, buffer, cons, out, known>>
    BY <1>3 DEF StoreHead
  <2>2. prod.value \in Values /\ Len(queue) < Capacity - 1 /\ buffer[head] = prod.value
    BY <1>0, <2>1 DEF ProducerHas
  <2>3. /\ queue' \in Seq(Values) /\ Len(queue') = Len(queue) + 1
        /\ \A k \in 1 .. Len(queue) : queue'[k] = queue[k]
        /\ queue'[Len(queue) + 1] = prod.value
    BY <1>0, <2>1, <2>2
  <2>4. RingTypeOK'
    BY <1>0, <2>1, <2>3, Steps, RingAssumption DEF RingTypeOK, Cells
  <2>5. Counted'
    BY <1>0, <2>1, <2>2, <2>3, Steps DEF Counted
  <2>6. InCells'
    BY <1>0, <2>1, <2>2, <2>3, CellsOfQueue DEF InCells
  <2>7. ConsumerHas' /\ ProducerHas'
    BY <1>0, <2>1, <2>2, <2>3, RingAssumption DEF ConsumerHas, ProducerHas
  <2>8. AnswersKept'
    BY <1>0, <2>1, <2>2, <2>3, RingAssumption DEF AnswersKept, RingTypeOK, Cells
  <2>9. Fifo!FPush(prod.value)
    BY <2>1, <2>2 DEF Fifo!FPush
  <2> QED BY <2>2, <2>4, <2>5, <2>6, <2>7, <2>8, <2>9 DEF IInv, Abstract, Fifo!FNext
<1>4. CASE full \/ ProducerSize
  <2>1. UNCHANGED <<head, tail, buffer, prod, cons, accepted, out, queue, known>>
    BY <1>4 DEF full, ProducerSize
  <2>2. credit' \in Cells /\ credit' <= Capacity - 1 - Len(queue)
    BY <1>0, <1>4, Steps, RingAssumption DEF full, ProducerSize, Cells, Counted
  <2>3. IInv'
    BY <1>0, <2>1, <2>2 DEF IInv, RingTypeOK, Counted, InCells, ConsumerHas, ProducerHas, AnswersKept
  <2> QED BY <2>1, <2>3 DEF Abstract, Fifo!fifoVars
<1> QED BY <1>1, <1>2, <1>3, <1>4 DEF Producer

(* A step of the consumer.                                                 *)
LEMMA ConsumerStep ==
  ASSUME IInv, Consumer
  PROVE  IInv' /\ Abstract
<1>0. /\ RingTypeOK /\ Counted /\ InCells /\ ConsumerHas /\ ProducerHas /\ AnswersKept
      /\ queue \in Seq(Values) /\ Len(queue) \in 0 .. Capacity - 1
      /\ head \in Cells /\ tail \in Cells /\ buffer \in [Cells -> Values \union {NoValue}]
  BY CellsOfQueue DEF IInv, RingTypeOK
<1>1. ASSUME NEW op \in {"pop", "peek"}, pop(op) PROVE IInv' /\ Abstract
  <2>1. CASE tail = head
    <3>1. out' = NoValue /\ UNCHANGED <<head, tail, buffer, prod, cons, accepted, queue, credit, known>>
      BY <1>1, <2>1 DEF pop
    <3>2. queue = <<>>
      BY <1>0, <2>1, Steps DEF Counted
    <3>3. IInv'
      BY <1>0, <3>1 DEF IInv, RingTypeOK, Counted, InCells, ConsumerHas, ProducerHas, AnswersKept
    <3>4. Fifo!FNothing
      BY <3>1, <3>2 DEF Fifo!FNothing
    <3> QED BY <3>3, <3>4 DEF Abstract, Fifo!FNext
  <2>2. CASE tail # head
    <3>1. cons' = [pc |-> op, value |-> NoValue] /\ cons.pc = "idle"
          /\ UNCHANGED <<head, tail, buffer, prod, accepted, out, queue, credit, known>>
      BY <1>1, <2>2 DEF pop
    <3>2. Len(queue) > 0
      BY <1>0, <2>2, Steps DEF Counted
    <3>3. RingTypeOK' /\ InCells'
      BY <1>0, <3>1 DEF RingTypeOK, InCells
    <3>4. Counted' /\ ConsumerHas' /\ ProducerHas' /\ AnswersKept'
      BY <1>0, <3>1, <3>2 DEF Counted, ConsumerHas, ProducerHas, AnswersKept
    <3> QED BY <3>1, <3>3, <3>4 DEF IInv, Abstract, Fifo!fifoVars
  <2> QED BY <2>1, <2>2
<1>2. CASE TakeCell
  <2>1. /\ cons.pc = "pop" /\ cons' = [pc |-> "release", value |-> buffer[tail]]
        /\ buffer' = [buffer EXCEPT ![tail] = NoValue]
        /\ UNCHANGED <<head, tail, prod, accepted, out, queue, credit, known>>
    BY <1>2 DEF TakeCell
  <2>2. Len(queue) > 0 /\ buffer[tail] = queue[1] /\ head # tail
    BY <1>0, <2>1, CellsOfQueue DEF ConsumerHas, InCells
  <2>3. RingTypeOK'
    BY <1>0, <2>1 DEF RingTypeOK
  <2>4. InCells'
    BY <1>0, <2>1, CellsOfQueue DEF InCells
  <2>5. ConsumerHas' /\ ProducerHas'
    BY <1>0, <2>1, <2>2 DEF ConsumerHas, ProducerHas
  <2>6. Counted' /\ AnswersKept'
    BY <1>0, <2>1 DEF Counted, AnswersKept
  <2> QED BY <2>1, <2>3, <2>4, <2>5, <2>6 DEF IInv, Abstract, Fifo!fifoVars
<1>3. CASE StoreTail
  <2>1. /\ cons.pc = "release" /\ tail' = Next1(tail) /\ out' = cons.value
        /\ cons' = [pc |-> "idle", value |-> NoValue]
        /\ queue' = Tail(queue)
        /\ known' = (IF known = 0 THEN 0 ELSE known - 1)
        /\ UNCHANGED <<head, buffer, prod, accepted, credit>>
    BY <1>3 DEF StoreTail
  <2>2. Len(queue) > 0 /\ queue # <<>> /\ cons.value = queue[1]
    BY <1>0, <2>1 DEF ConsumerHas
  <2>3. /\ queue' \in Seq(Values) /\ Len(queue') = Len(queue) - 1
        /\ \A k \in 1 .. Len(queue') : queue'[k] = queue[k + 1]
    BY <1>0, <2>1, <2>2
  <2>4. cons.value \in Values
    BY <1>0, <2>2
  <2>5. RingTypeOK'
    BY <1>0, <2>1, <2>3, <2>4, Steps, RingAssumption DEF RingTypeOK, Cells
  <2>6. Counted'
    BY <1>0, <2>1, <2>2, <2>3, Steps DEF Counted
  <2>7. InCells'
    <3>1. \A k \in 1 .. Len(queue') : k + 1 \in 2 .. Len(queue) /\ k \in 1 .. Capacity - 1
      BY <1>0, <2>3, RingAssumption
    <3>2. \A k \in 1 .. Capacity - 1 : At(tail', k) = At(tail, k + 1)
      BY <1>0, <2>1, CellsOfQueue
    <3> QED BY <1>0, <2>1, <2>3, <3>1, <3>2 DEF InCells
  <2>8. ConsumerHas' /\ ProducerHas'
    BY <1>0, <2>1, <2>2, <2>3, RingAssumption DEF ConsumerHas, ProducerHas
  <2>9. AnswersKept'
    BY <1>0, <2>1, <2>2, <2>3, RingAssumption DEF AnswersKept, RingTypeOK, Cells
  <2>10. Fifo!FPop
    BY <1>0, <2>1, <2>2 DEF Fifo!FPop
  <2> QED BY <2>5, <2>6, <2>7, <2>8, <2>9, <2>10 DEF IInv, Abstract, Fifo!FNext
<1>4. CASE peek
  <2>1. /\ cons.pc = "peek" /\ out' = buffer[tail] /\ cons' = [pc |-> "idle", value |-> NoValue]
        /\ UNCHANGED <<head, tail, buffer, prod, accepted, queue, credit, known>>
    BY <1>4 DEF peek
  <2>2. Len(queue) > 0 /\ queue # <<>> /\ buffer[tail] = queue[1]
    BY <1>0, <2>1, CellsOfQueue DEF ConsumerHas, InCells
  <2>3. RingTypeOK' /\ InCells'
    BY <1>0, <2>1 DEF RingTypeOK, InCells
  <2>4. Counted' /\ ConsumerHas' /\ ProducerHas' /\ AnswersKept'
    BY <1>0, <2>1 DEF Counted, ConsumerHas, ProducerHas, AnswersKept
  <2>5. Fifo!FPeek
    BY <1>0, <2>1, <2>2 DEF Fifo!FPeek
  <2> QED BY <2>3, <2>4, <2>5 DEF IInv, Abstract, Fifo!FNext
<1>5. CASE empty \/ ConsumerSize
  <2>1. UNCHANGED <<head, tail, buffer, prod, cons, accepted, out, queue, credit>>
    BY <1>5 DEF empty, ConsumerSize
  <2>2. known' \in Cells /\ known' <= Len(queue)
    BY <1>0, <1>5, Steps, RingAssumption DEF empty, ConsumerSize, Cells, Counted
  <2>3. IInv'
    BY <1>0, <2>1, <2>2 DEF IInv, RingTypeOK, Counted, InCells, ConsumerHas, ProducerHas, AnswersKept
  <2> QED BY <2>1, <2>3 DEF Abstract, Fifo!fifoVars
<1> QED BY <1>1, <1>2, <1>3, <1>4, <1>5 DEF Consumer

(* clear empties the queue; both threads are outside their calls.          *)
LEMMA ClearStep ==
  ASSUME IInv, clear
  PROVE  IInv' /\ Abstract
<1>1. RingTypeOK' /\ queue' = <<>> /\ head' = 0 /\ tail' = 0
  BY RingAssumption DEF IInv, clear, RingTypeOK, Cells
<1>2. Distance(0, 0) = 0
  <2>1. 0 \in Cells
    BY RingAssumption DEF Cells
  <2> QED BY <2>1, Masks
<1>3. Counted' /\ InCells' /\ ConsumerHas' /\ ProducerHas'
  BY <1>1, <1>2 DEF IInv, clear, Counted, InCells, ConsumerHas, ProducerHas
<1>4. AnswersKept'
  BY <1>1, RingAssumption DEF IInv, clear, AnswersKept, RingTypeOK, Cells
<1>5. Fifo!FClear
  BY DEF clear, Fifo!FClear
<1> QED BY <1>1, <1>3, <1>4, <1>5 DEF IInv, Abstract, Fifo!FNext

(* The three kinds of step together.                                       *)
LEMMA NextStep == IInv /\ [RingNext]_ringVars => IInv' /\ Abstract
<1> SUFFICES ASSUME IInv, [RingNext]_ringVars PROVE IInv' /\ Abstract
  OBVIOUS
<1>1. CASE UNCHANGED ringVars
  BY <1>1 DEF ringVars, IInv, RingTypeOK, Counted, InCells, ConsumerHas, ProducerHas, AnswersKept,
              Abstract, Fifo!fifoVars
<1> QED BY <1>1, ProducerStep, ConsumerStep, ClearStep DEF RingNext

(* One producer and one consumer never access a cell of the buffer at the  *)
(* same time, the indices stay in the array, and what size, full and empty *)
(* answer a thread about its own side stays true: for every capacity.      *)
THEOREM RingIsSafe == RingSpec => []RingSafe
<1>1. IInv => RingSafe
  <2> SUFFICES ASSUME IInv PROVE RingSafe
    OBVIOUS
  <2>1. cons.pc \in {"pop", "peek"} => head # tail
    BY Steps DEF IInv, ConsumerHas, Counted
  <2> QED BY <2>1 DEF IInv, RingSafe, NoRace
<1> QED BY <1>1, InitInv, NextStep, PTL DEF RingSpec

(* push, pop, peek and clear implement a FIFO of Capacity - 1 values: no   *)
(* value is lost, duplicated or reordered, a push is refused only when     *)
(* that many are queued and a pop finds nothing only when none is.         *)
THEOREM RingIsFifo == RingSpec => IsBoundedFifo
<1>1. RingInit => Fifo!FInit
  BY DEF RingInit, Fifo!FInit
<1>2. IInv /\ [RingNext]_ringVars => [Fifo!FNext]_(Fifo!fifoVars)
  BY NextStep DEF Abstract
<1> QED BY <1>1, <1>2, InitInv, NextStep, PTL DEF RingSpec, IsBoundedFifo, Fifo!FSpec

-----------------------------------------------------------------------------
(* RateLimiter.                                                            *)

(* Maxima: the largest rate and capacity are among those that are given.   *)

(* A non-empty set of naturals has a least element.                        *)
LEMMA LeastElement ==
  ASSUME NEW S, S \subseteq Nat, S # {}
  PROVE  \E x \in S : \A y \in S : x <= y
<1>1. PICK x \in S : \A y \in S : ~(<<y, x>> \in OpToRel(<, Nat))
  BY NatLessThanWellFounded, WFMin
<1>2. ASSUME NEW y \in S PROVE x <= y
  <2>1. ~(<<y, x>> \in OpToRel(<, Nat))
    BY <1>1
  <2>2. x \in Nat /\ y \in Nat
    OBVIOUS
  <2>3. ~(y < x)
    BY <2>1, <2>2, Zenon DEF OpToRel
  <2> QED BY <2>2, <2>3
<1> QED BY <1>2

(* A non-empty set of naturals with an upper bound has a maximum.          *)
LEMMA MaxIsElement ==
  ASSUME NEW b \in Nat, NEW S, S \subseteq 0 .. b, S # {}
  PROVE  Max(S) \in S /\ \A y \in S : y <= Max(S)
<1> DEFINE T == {b - x : x \in S}
<1>0. \A x \in S : x \in 0 .. b /\ b - x \in Nat
  OBVIOUS
<1>1. T \subseteq Nat /\ T # {}
  BY <1>0, Zenon
<1> HIDE DEF T
<1>2. PICK m \in T : \A y \in T : m <= y
  BY <1>1, LeastElement
<1>3. PICK x \in S : m = b - x
  BY <1>2 DEF T
<1>4. \A y \in S : y <= x
  <2> TAKE y \in S
  <2>1. b - y \in T
    BY DEF T
  <2>2. m <= b - y
    BY <1>2, <2>1
  <2> QED BY <1>3, <2>2
<1>5. x \in S /\ \A y \in S : x >= y
  BY <1>4
<1>6. Max(S) \in S /\ \A y \in S : Max(S) >= y
  BY <1>5 DEF Max
<1> QED BY <1>6

LEMMA Limits ==
  /\ MaxCapacity \in Nat /\ MaxRate \in Nat
  /\ \A c \in Capacities \union {Capacity0, 1} : c <= MaxCapacity
  /\ \A r \in Rates \union {Rate0, 1} : r <= MaxRate
<1>1. ClockMod - 1 \in Nat /\ 1 \in 0 .. ClockMod - 1
  BY LimiterAssumption
<1>2. Capacities \union {Capacity0, 1} \subseteq 0 .. ClockMod - 1
  BY LimiterAssumption, <1>1
<1>3. Rates \union {Rate0, 1} \subseteq 0 .. ClockMod - 1
  BY LimiterAssumption, <1>1
<1>4. /\ MaxCapacity \in Capacities \union {Capacity0, 1}
      /\ \A c \in Capacities \union {Capacity0, 1} : c <= MaxCapacity
  BY <1>1, <1>2, MaxIsElement DEF MaxCapacity
<1>5. /\ MaxRate \in Rates \union {Rate0, 1}
      /\ \A r \in Rates \union {Rate0, 1} : r <= MaxRate
  BY <1>1, <1>3, MaxIsElement DEF MaxRate
<1> QED BY <1>1, <1>2, <1>3, <1>4, <1>5

LEMMA MaxOfTwo ==
  ASSUME NEW a \in Nat
  PROVE  Max({a, 1}) = IF a >= 1 THEN a ELSE 1
<1>1. {a, 1} \subseteq 0 .. a + 1 /\ {a, 1} # {} /\ a + 1 \in Nat
  OBVIOUS
<1>2. Max({a, 1}) \in {a, 1} /\ \A y \in {a, 1} : y <= Max({a, 1})
  BY <1>1, MaxIsElement
<1> QED BY <1>2

LEMMA MinOfTwo ==
  ASSUME NEW a \in Int, NEW b \in Int
  PROVE  Min({a, b}) = IF a <= b THEN a ELSE b
<1> DEFINE m == IF a <= b THEN a ELSE b
<1>1. m \in {a, b} /\ \A y \in {a, b} : m <= y
  OBVIOUS
<1>2. Min({a, b}) \in {a, b} /\ \A y \in {a, b} : Min({a, b}) <= y
  BY <1>1 DEF Min
<1> QED BY <1>1, <1>2

LEMMA ElapsedIsTime ==
  ASSUME NEW now \in 0 .. MaxClock, NEW then \in 0 .. MaxClock
  PROVE  Elapsed(now, then) \in Nat /\ (then <= now => Elapsed(now, then) = now - then)
BY LimiterAssumption DEF Elapsed

-----------------------------------------------------------------------------
(* Totals: f is summed along an enumeration of the threads, partial sum by *)
(* partial sum.                                                            *)
IsTotal(f, v) ==
  \E n \in Nat :
    \E e \in Bijection(1 .. n, Threads), s \in [0 .. n -> Int] :
      s[0] = 0 /\ (\A i \in 1 .. n : s[i] = s[i - 1] + f[e[i]]) /\ s[n] = v

(* Where nothing is due the total is 0.                                    *)
LEMMA TotalOfZero == IsTotal([t \in Threads |-> 0], 0)
<1>1. IsFiniteSet(Threads)
  BY LimiterAssumption, FS_Union DEF Threads
<1>2. PICK n \in Nat : ExistsBijection(1 .. n, Threads)
  BY <1>1, FS_NatBijection
<1>3. PICK e \in Bijection(1 .. n, Threads) : TRUE
  BY <1>2, Zenon DEF ExistsBijection
<1>4. e \in [1 .. n -> Threads]
  BY <1>3, Fun_BijectionProperties
<1> DEFINE f == [t \in Threads |-> 0]
           s == [i \in 0 .. n |-> 0]
<1>5. s \in [0 .. n -> Int] /\ s[0] = 0 /\ s[n] = 0
  OBVIOUS
<1>6. \A i \in 1 .. n : s[i] = s[i - 1] + f[e[i]]
  BY <1>4
<1> HIDE DEF s, f
<1>7. IsTotal(f, 0)
  BY <1>3, <1>5, <1>6 DEF IsTotal
<1> QED BY <1>7 DEF f

(* A thread whose value changes changes the total by as much.              *)
LEMMA TotalChanges ==
  ASSUME NEW f \in [Threads -> Int], NEW g \in [Threads -> Int], NEW t \in Threads,
         \A u \in Threads \ {t} : g[u] = f[u],
         NEW v, IsTotal(f, v)
  PROVE  IsTotal(g, v - f[t] + g[t])
<1>0. PICK n \in Nat :
        \E e \in Bijection(1 .. n, Threads), s \in [0 .. n -> Int] :
          s[0] = 0 /\ (\A i \in 1 .. n : s[i] = s[i - 1] + f[e[i]]) /\ s[n] = v
  BY DEF IsTotal
<1>1. PICK e \in Bijection(1 .. n, Threads), s \in [0 .. n -> Int] :
        s[0] = 0 /\ (\A i \in 1 .. n : s[i] = s[i - 1] + f[e[i]]) /\ s[n] = v
  BY <1>0
<1>2. /\ e \in [1 .. n -> Threads]
      /\ \A a, b \in 1 .. n : e[a] = e[b] => a = b
      /\ \A u \in Threads : \E i \in 1 .. n : e[i] = u
  BY Fun_BijectionProperties, SMTT(30)
<1>3. PICK j \in 1 .. n : e[j] = t
  BY <1>2
<1> DEFINE d == g[t] - f[t]
           r == [i \in 0 .. n |-> IF i < j THEN s[i] ELSE s[i] + d]
<1>4. d \in Int
  OBVIOUS
<1>5. r \in [0 .. n -> Int]
  BY <1>4
<1>6. r[0] = 0 /\ r[n] = v - f[t] + g[t]
  BY <1>1
<1>7. ASSUME NEW i \in 1 .. n
      PROVE  r[i] = r[i - 1] + g[e[i]]
  <2>1. s[i] = s[i - 1] + f[e[i]] /\ i - 1 \in 0 .. n /\ i \in 0 .. n
    BY <1>1
  <2>2. e[i] \in Threads /\ s[i] \in Int /\ s[i - 1] \in Int
    BY <1>2, <2>1
  <2>3. CASE i = j
    BY <2>1, <2>2, <2>3, <1>3
  <2>4. CASE i # j
    <3>1. e[i] # t
      BY <1>2, <1>3, <2>4
    <3>2. g[e[i]] = f[e[i]] /\ f[e[i]] \in Int
      BY <3>1, <2>2
    <3>3. i < j <=> i - 1 < j
      BY <2>4
    <3> HIDE DEF d
    <3>4. CASE i < j
      BY <2>1, <2>2, <3>2, <3>3, <3>4
    <3>5. CASE ~(i < j)
      BY <2>1, <2>2, <3>2, <3>3, <3>5, <1>4
    <3> QED BY <3>4, <3>5
  <2> QED BY <2>3, <2>4
<1> HIDE DEF r
<1> QED BY <1>1, <1>5, <1>6, <1>7 DEF IsTotal

(* A total of naturals is a natural.                                       *)
LEMMA TotalIsNatural ==
  ASSUME NEW f \in [Threads -> Nat], NEW v, IsTotal(f, v)
  PROVE  v \in Nat
<1>0. PICK n \in Nat :
        \E e \in Bijection(1 .. n, Threads), s \in [0 .. n -> Int] :
          s[0] = 0 /\ (\A i \in 1 .. n : s[i] = s[i - 1] + f[e[i]]) /\ s[n] = v
  BY DEF IsTotal
<1>1. PICK e \in Bijection(1 .. n, Threads), s \in [0 .. n -> Int] :
        s[0] = 0 /\ (\A i \in 1 .. n : s[i] = s[i - 1] + f[e[i]]) /\ s[n] = v
  BY <1>0
<1>2. e \in [1 .. n -> Threads]
  BY Fun_BijectionProperties
<1> DEFINE Negative == {i \in 0 .. n : s[i] < 0}
<1>3. SUFFICES ASSUME Negative # {} PROVE FALSE
  BY <1>1
<1>4. Negative \subseteq Nat
  OBVIOUS
<1>5. PICK k \in Negative : \A i \in Negative : k <= i
  BY <1>3, <1>4, LeastElement
<1>6. k # 0 /\ k \in 1 .. n /\ k - 1 \in 0 .. n
  BY <1>1, <1>5
<1>7. k - 1 \notin Negative
  BY <1>5, <1>6
<1>8. s[k] = s[k - 1] + f[e[k]] /\ f[e[k]] \in Nat
  BY <1>1, <1>2, <1>6
<1> QED BY <1>5, <1>6, <1>7, <1>8

-----------------------------------------------------------------------------
(* The count of tokens.                                                    *)

(* What the locals of a thread say: a refill that goes on has seen room in *)
(* the bucket, and an acquisition that goes on has seen enough tokens.     *)
SoundLocals(l) ==
  /\ l \in Locals /\ l.cap <= MaxCapacity
  /\ l.pc = "add" => l.current < l.cap
  /\ l.pc = "take" => l.need <= l.current

LocalsInv == th \in [Threads -> Locals] /\ \A t \in Threads : SoundLocals(th[t])

CountsInv ==
  /\ clock \in 0 .. MaxClock /\ last \in 0 .. MaxClock /\ changes \in 0 .. MaxChanges
  /\ rate \in Nat \ {0} /\ capacity \in Nat \ {0} /\ capacity <= MaxCapacity
  /\ tokens \in Nat /\ tokens <= MaxCapacity
  /\ given \in Int /\ earned \in Nat /\ granted \in Nat
  /\ tokens = given + earned - granted

BucketInv == LocalsInv /\ CountsInv /\ stale \in BOOLEAN

LEMMA FieldTypes ==
  ASSUME NEW l \in Locals
  PROVE  /\ l.op \in Ops /\ l.need \in Needs \union {0} /\ l.need \in Nat
         /\ l.start \in 0 .. MaxClock /\ l.now \in 0 .. MaxClock /\ l.last \in 0 .. MaxClock
         /\ l.add \in Nat /\ l.current \in Nat /\ l.cap \in Nat
<1>1. l.need \in Needs \union {0}
  BY DEF Locals
<1>2. \A n \in Needs : n \in Nat
  BY LimiterAssumption
<1>3. l.need \in Nat
  <2>1. CASE l.need = 0
    BY <2>1
  <2>2. CASE l.need \in Needs
    BY <1>2, <2>2
  <2> QED BY <1>1, <2>1, <2>2
<1> QED BY <1>1, <1>3 DEF Locals

LEMMA ZeroInTime == 0 \in 0 .. MaxClock /\ MaxClock \in Nat
BY LimiterAssumption

LEMMA IdleSound == SoundLocals(Idle)
BY Limits, LimiterAssumption DEF SoundLocals, Idle, Locals, Ops

(* The locals a thread goes on with are sound.                             *)
LEMMA FrameSound ==
  ASSUME NEW op \in Ops, NEW n \in Needs \union {0}, NEW s \in 0 .. MaxClock, NEW a \in Nat
  PROVE  /\ SoundLocals([Idle EXCEPT !.pc = "load", !.op = op, !.need = n, !.start = s])
         /\ SoundLocals([Idle EXCEPT !.pc = "sleep", !.op = op, !.need = n, !.start = s])
         /\ SoundLocals([[Idle EXCEPT !.pc = "count", !.op = op, !.need = n, !.start = s]
                           EXCEPT !.add = a])
<1> DEFINE load == [Idle EXCEPT !.pc = "load", !.op = op, !.need = n, !.start = s]
           sleep == [Idle EXCEPT !.pc = "sleep", !.op = op, !.need = n, !.start = s]
           count == [Idle EXCEPT !.pc = "count", !.op = op, !.need = n, !.start = s]
<1>1. load \in Locals /\ load.pc = "load" /\ load.cap = 0
  BY ZeroInTime DEF Idle, Locals
<1>2. sleep \in Locals /\ sleep.pc = "sleep" /\ sleep.cap = 0
  BY ZeroInTime DEF Idle, Locals
<1>3. count \in Locals /\ count.pc = "count" /\ count.cap = 0
  BY ZeroInTime DEF Idle, Locals
<1> HIDE DEF load, sleep, count
<1>4. /\ [count EXCEPT !.add = a] \in Locals /\ [count EXCEPT !.add = a].pc = "count"
      /\ [count EXCEPT !.add = a].cap = 0
  BY <1>3 DEF Locals
<1>5. SoundLocals(load) /\ SoundLocals(sleep) /\ SoundLocals([count EXCEPT !.add = a])
  BY <1>1, <1>2, <1>4, Limits DEF SoundLocals
<1> QED BY <1>5 DEF load, sleep, count

LEMMA CallSound ==
  ASSUME BucketInv, NEW t \in Threads
  PROVE  /\ SoundLocals(Call(t, "load")) /\ SoundLocals(Call(t, "sleep"))
         /\ SoundLocals([Call(t, "count") EXCEPT !.add = th[t].add])
<1>1. th[t] \in Locals
  BY DEF BucketInv, LocalsInv
<1>2. /\ th[t].op \in Ops /\ th[t].need \in Needs \union {0} /\ th[t].start \in 0 .. MaxClock
      /\ th[t].add \in Nat
  BY <1>1, FieldTypes
<1> QED BY <1>2, FrameSound, Zenon DEF Call

LEMMA RefilledSound ==
  ASSUME BucketInv, NEW t \in Threads
  PROVE  SoundLocals(Refilled(t))
BY CallSound, IdleSound DEF Refilled

LEMMA DecideSound ==
  ASSUME BucketInv, NEW t \in Threads, NEW c \in Nat
  PROVE  SoundLocals(Decide(t, c))
<1>1. th[t] \in Locals
  BY DEF BucketInv, LocalsInv
<1>2. CASE c < th[t].need
  BY <1>2, CallSound, IdleSound DEF Decide, Short
<1>3. CASE ~(c < th[t].need)
  <2>1. Decide(t, c) = [pc |-> "take", op |-> th[t].op, need |-> th[t].need,
                        start |-> th[t].start, now |-> 0, last |-> 0, add |-> 0,
                        current |-> c, cap |-> 0]
    BY <1>3 DEF Decide, Call, Idle
  <2>2. Decide(t, c) \in Locals
    BY <1>1, <2>1, FieldTypes, ZeroInTime DEF Locals
  <2> QED BY <1>1, <1>3, <2>1, <2>2, FieldTypes, Limits DEF SoundLocals
<1> QED BY <1>2, <1>3

(* A step of one thread that leaves it with sound locals.                  *)
LEMMA LocalsStep ==
  ASSUME BucketInv, NEW t \in Threads, NEW l, SoundLocals(l), th' = [th EXCEPT ![t] = l]
  PROVE  LocalsInv'
<1>1. l \in Locals
  BY DEF SoundLocals
<1> QED BY <1>1 DEF BucketInv, LocalsInv

LEMMA BucketInitially == Init => BucketInv
<1> SUFFICES ASSUME Init PROVE BucketInv
  OBVIOUS
<1>1. Rate0 \in Nat /\ Capacity0 \in Nat
  BY LimiterAssumption
<1>2. rate \in Nat \ {0} /\ capacity \in Nat \ {0} /\ capacity <= MaxCapacity
  BY <1>1, MaxOfTwo, Limits DEF Init
<1>3. LocalsInv
  BY IdleSound DEF Init, LocalsInv, SoundLocals
<1>4. changes \in 0 .. MaxChanges
  BY LimiterAssumption DEF Init
<1>5. CountsInv
  BY <1>1, <1>2, <1>4, ZeroInTime, Limits DEF Init, CountsInv
<1>6. stale \in BOOLEAN
  BY Zenon DEF Init
<1> QED BY <1>3, <1>5, <1>6 DEF BucketInv

LEMMA BucketSound == BucketInv => TokensSound
BY DEF BucketInv, LocalsInv, CountsInv, TokensSound, TypeOK, Conserved, WithinCapacity

(* Every step keeps the count of tokens sound.                             *)
LEMMA BucketKept == BucketInv /\ [Next]_vars => BucketInv'
<1> SUFFICES ASSUME BucketInv, [Next]_vars PROVE BucketInv'
  OBVIOUS
<1>0. LocalsInv /\ CountsInv /\ stale \in BOOLEAN
  BY DEF BucketInv
<1>a. ASSUME NEW t \in Threads
      PROVE  /\ SoundLocals(th[t]) /\ th[t] \in Locals
             /\ th[t].op \in Ops /\ th[t].need \in Needs \union {0} /\ th[t].need \in Nat
             /\ th[t].start \in 0 .. MaxClock /\ th[t].now \in 0 .. MaxClock
             /\ th[t].last \in 0 .. MaxClock
             /\ th[t].add \in Nat /\ th[t].current \in Nat /\ th[t].cap \in Nat
  <2>1. SoundLocals(th[t]) /\ th[t] \in Locals
    BY <1>0 DEF LocalsInv
  <2> QED BY <2>1, FieldTypes
(* A step that only moves the locals of a thread.                          *)
<1>b. ASSUME NEW t \in Threads, NEW l, SoundLocals(l), th' = [th EXCEPT ![t] = l],
             UNCHANGED <<clock, config, bucket>>
      PROVE  BucketInv'
  <2>1. LocalsInv'
    BY <1>b, LocalsStep
  <2>2. CountsInv'
    BY <1>0, <1>b DEF CountsInv, config, bucket
  <2>3. stale' \in BOOLEAN
    BY <1>0, <1>b, Zenon DEF bucket
  <2> QED BY <2>1, <2>2, <2>3 DEF BucketInv
<1>1. CASE Tick
  <2>1. LocalsInv'
    BY <1>0, <1>1 DEF Tick, LocalsInv
  <2>2. CountsInv'
    BY <1>0, <1>1, ZeroInTime DEF Tick, CountsInv, config, bucket
  <2>3. stale' \in BOOLEAN
    BY <1>0, <1>1, Zenon DEF Tick, bucket
  <2> QED BY <2>1, <2>2, <2>3 DEF BucketInv
<1>2. ASSUME NEW t \in Clients, ClientStep(t)
      PROVE  BucketInv'
  <2> t \in Threads
    BY DEF Threads
  <2>0. SoundLocals(th[t]) /\ th[t] \in Locals
    BY <1>a
  <2>1. CASE Begin(t)
    <3>1. PICK op \in Ops, n \in Needs :
            Attempt(t, [Idle EXCEPT !.op = op, !.need = n,
                                    !.start = IF op = "for" THEN clock ELSE 0])
      BY <2>1 DEF Begin
    <3> DEFINE st == IF op = "for" THEN clock ELSE 0
               c == [Idle EXCEPT !.op = op, !.need = n, !.start = st]
               l == [c EXCEPT !.pc = "last", !.now = clock]
    <3>2. st \in 0 .. MaxClock /\ clock \in 0 .. MaxClock /\ n \in Needs \union {0}
      BY <1>0, ZeroInTime DEF CountsInv
    <3> HIDE DEF st
    <3>3. c \in Locals /\ c.cap = 0
      BY <3>2, ZeroInTime DEF Idle, Locals
    <3> HIDE DEF c
    <3>4. l \in Locals /\ l.cap = 0 /\ l.pc = "last"
      BY <3>2, <3>3 DEF Locals
    <3>5. SoundLocals(l)
      BY <3>4, Limits DEF SoundLocals
    <3>6. th' = [th EXCEPT ![t] = l]
      BY <3>1 DEF Attempt, c, st
    <3> HIDE DEF l
    <3> QED BY <1>b, <2>1, <3>5, <3>6 DEF Begin
  <2>2. CASE LoadLast(t)
    <3> DEFINE add == Elapsed(th[t].now, last) * rate
               l == [th[t] EXCEPT !.last = last, !.add = add, !.pc = "claim"]
    <3>1. add \in Nat /\ last \in 0 .. MaxClock
      <4>1. Elapsed(th[t].now, last) \in Nat
        BY <1>0, <1>a, ElapsedIsTime DEF CountsInv
      <4>2. rate \in Nat /\ last \in 0 .. MaxClock
        BY <1>0 DEF CountsInv
      <4> QED BY <4>1, <4>2
    <3>2. th' = [th EXCEPT ![t] = IF add = 0 THEN Refilled(t) ELSE l]
      BY <2>2, <1>0 DEF LoadLast, LocalsInv
    <3> HIDE DEF add
    <3>3. l \in Locals /\ l.cap = th[t].cap /\ l.pc = "claim"
      BY <2>0, <3>1 DEF Locals
    <3>4. SoundLocals(l)
      BY <2>0, <3>3 DEF SoundLocals
    <3> HIDE DEF l
    <3>5. SoundLocals(IF add = 0 THEN Refilled(t) ELSE l)
      BY <3>4, RefilledSound
    <3> QED BY <1>b, <2>2, <3>2, <3>5 DEF LoadLast
  <2>3. CASE ClaimInterval(t)
    <3>1. LocalsInv'
      BY <2>3, LocalsStep, CallSound, RefilledSound DEF ClaimInterval
    <3>2. CountsInv'
      BY <1>0, <1>a, <2>3 DEF ClaimInterval, CountsInv, config
    <3>3. stale' \in BOOLEAN
      BY <1>0, <2>3, Zenon DEF ClaimInterval
    <3> QED BY <3>1, <3>2, <3>3 DEF BucketInv
  <2>4. CASE LoadForRefill(t)
    <3> DEFINE l == [th[t] EXCEPT !.current = tokens, !.cap = capacity, !.pc = "add"]
    <3>1. th' = [th EXCEPT ![t] = IF tokens >= capacity THEN Refilled(t) ELSE l]
      BY <2>4, <1>0 DEF LoadForRefill, LocalsInv
    <3>2. l \in Locals /\ l.cap = capacity /\ l.current = tokens /\ l.pc = "add"
      BY <1>0, <2>0 DEF Locals, CountsInv
    <3>3. tokens < capacity => SoundLocals(l)
      BY <1>0, <3>2 DEF SoundLocals, CountsInv
    <3> HIDE DEF l
    <3>4. SoundLocals(IF tokens >= capacity THEN Refilled(t) ELSE l)
      BY <1>0, <3>3, RefilledSound DEF CountsInv
    <3> QED BY <1>b, <2>4, <3>1, <3>4 DEF LoadForRefill
  <2>5. CASE AddTokens(t)
    <3> DEFINE new == Min({th[t].current + th[t].add, th[t].cap})
               l == [th[t] EXCEPT !.current = tokens]
    <3>1. CASE tokens = th[t].current
      <4>1. LocalsInv'
        BY <2>5, <3>1, LocalsStep, RefilledSound DEF AddTokens
      <4>2. /\ new = IF th[t].current + th[t].add <= th[t].cap
                     THEN th[t].current + th[t].add ELSE th[t].cap
            /\ th[t].current < th[t].cap /\ th[t].cap <= MaxCapacity
        <5>1. th[t].current + th[t].add \in Int /\ th[t].cap \in Int
          BY <1>a
        <5>2. th[t].current < th[t].cap /\ th[t].cap <= MaxCapacity
          BY <2>0, <2>5 DEF AddTokens, SoundLocals
        <5> QED BY <5>1, <5>2, MinOfTwo
      <4>3. tokens' = new /\ earned' = earned + new - tokens
        BY <2>5, <3>1 DEF AddTokens
      <4> HIDE DEF new
      <4>4. CountsInv'
        BY <1>0, <1>a, <2>5, <3>1, <4>2, <4>3, Limits DEF AddTokens, CountsInv, config
      <4>5. stale' \in BOOLEAN
        BY <1>0, <2>5, Zenon DEF AddTokens
      <4> QED BY <4>1, <4>4, <4>5 DEF BucketInv
    <3>2. CASE tokens # th[t].current
      <4>1. th' = [th EXCEPT ![t] = IF tokens >= th[t].cap THEN Refilled(t) ELSE l]
        BY <1>0, <2>5, <3>2 DEF AddTokens, LocalsInv
      <4>2. l \in Locals /\ l.cap = th[t].cap /\ l.current = tokens /\ l.pc = th[t].pc
        BY <1>0, <2>0 DEF Locals, CountsInv
      <4>3. tokens < th[t].cap => SoundLocals(l)
        BY <2>0, <2>5, <4>2 DEF SoundLocals, AddTokens
      <4> HIDE DEF l
      <4>4. SoundLocals(IF tokens >= th[t].cap THEN Refilled(t) ELSE l)
        BY <1>0, <1>a, <4>3, RefilledSound DEF CountsInv
      <4>5. UNCHANGED <<clock, config, bucket>>
        BY <2>5, <3>2 DEF AddTokens, bucket
      <4> QED BY <1>b, <4>1, <4>4, <4>5
    <3> QED BY <3>1, <3>2
  <2>6. CASE LoadTokens(t)
    BY <1>0, <1>b, <2>6, DecideSound DEF LoadTokens, CountsInv
  <2>7. CASE TakeTokens(t)
    <3>1. CASE tokens = th[t].current
      <4>1. LocalsInv'
        BY <2>7, <3>1, LocalsStep, IdleSound DEF TakeTokens
      <4>2. th[t].need <= tokens
        BY <2>0, <2>7, <3>1 DEF TakeTokens, SoundLocals
      <4>3. CountsInv'
        BY <1>0, <1>a, <2>7, <3>1, <4>2, Limits DEF TakeTokens, CountsInv, config
      <4>4. stale' \in BOOLEAN
        BY <1>0, <2>7, Zenon DEF TakeTokens
      <4> QED BY <4>1, <4>3, <4>4 DEF BucketInv
    <3>2. CASE tokens # th[t].current
      <4>1. SoundLocals(Decide(t, tokens))
        BY <1>0, DecideSound DEF CountsInv
      <4>2. UNCHANGED <<clock, config, bucket>> /\ th' = [th EXCEPT ![t] = Decide(t, tokens)]
        BY <2>7, <3>2 DEF TakeTokens, bucket
      <4> QED BY <1>b, <4>1, <4>2
    <3> QED BY <3>1, <3>2
  <2>8. CASE Retry(t)
    <3> DEFINE l == [th[t] EXCEPT !.pc = "last", !.now = clock]
    <3>1. l \in Locals /\ l.pc = "last" /\ l.cap = th[t].cap
      BY <1>0, <2>0 DEF Locals, CountsInv
    <3>2. SoundLocals(l)
      BY <2>0, <3>1 DEF SoundLocals
    <3>3. th' = [th EXCEPT ![t] = Idle] \/ th' = [th EXCEPT ![t] = l]
      BY <2>8 DEF Retry, Attempt
    <3> HIDE DEF l
    <3> QED BY <1>b, <2>8, <3>2, <3>3, IdleSound DEF Retry
  <2> QED BY <1>2, <2>1, <2>2, <2>3, <2>4, <2>5, <2>6, <2>7, <2>8 DEF ClientStep
<1>3. ASSUME NEW t \in Admins, AdminStep(t)
      PROVE  BucketInv'
  <2> t \in Threads
    BY DEF Threads
  <2>0. SoundLocals(th[t]) /\ th[t] \in Locals
    BY <1>a
  <2>1. CASE reset(t)
    <3> DEFINE l == [th[t] EXCEPT !.pc = "resetclock"]
    <3>1. l \in Locals /\ l.pc = "resetclock" /\ l.cap = th[t].cap
      BY <2>0 DEF Locals
    <3>2. SoundLocals(l)
      BY <2>0, <3>1 DEF SoundLocals
    <3>3. th' = [th EXCEPT ![t] = l]
      BY <2>1 DEF reset
    <3> HIDE DEF l
    <3>4. LocalsInv'
      BY <3>2, <3>3, LocalsStep
    <3>5. CountsInv'
      BY <1>0, <2>1, LimiterAssumption DEF reset, CountsInv
    <3>6. stale' \in BOOLEAN
      BY <1>0, <2>1, Zenon DEF reset
    <3> QED BY <3>4, <3>5, <3>6 DEF BucketInv
  <2>2. CASE ResetReadClock(t)
    <3> DEFINE l == [th[t] EXCEPT !.now = clock, !.pc = "resetlast"]
    <3>1. l \in Locals /\ l.pc = "resetlast" /\ l.cap = th[t].cap
      BY <1>0, <2>0 DEF Locals, CountsInv
    <3>2. SoundLocals(l)
      BY <2>0, <3>1 DEF SoundLocals
    <3>3. th' = [th EXCEPT ![t] = l]
      BY <2>2, <1>0 DEF ResetReadClock, LocalsInv
    <3> HIDE DEF l
    <3> QED BY <1>b, <2>2, <3>2, <3>3 DEF ResetReadClock
  <2>3. CASE ResetLast(t)
    <3>1. LocalsInv'
      BY <2>3, LocalsStep, IdleSound DEF ResetLast
    <3>2. CountsInv'
      BY <1>0, <1>a, <2>3 DEF ResetLast, CountsInv, config
    <3>3. stale' \in BOOLEAN
      BY <1>0, <2>3, Zenon DEF ResetLast
    <3> QED BY <3>1, <3>2, <3>3 DEF BucketInv
  <2>4. CASE set_rate(t)
    <3>1. LocalsInv'
      BY <1>0, <2>4 DEF set_rate, LocalsInv
    <3>2. rate' \in Nat \ {0}
      BY <2>4, LimiterAssumption DEF set_rate
    <3>3. CountsInv'
      BY <1>0, <2>4, <3>2, LimiterAssumption DEF set_rate, CountsInv, bucket
    <3>4. stale' \in BOOLEAN
      BY <1>0, <2>4, Zenon DEF set_rate, bucket
    <3> QED BY <3>1, <3>3, <3>4 DEF BucketInv
  <2>5. CASE set_capacity(t)
    <3> DEFINE l == [th[t] EXCEPT !.pc = "cap", !.cap = capacity']
    <3>1. capacity' \in Nat \ {0} /\ capacity' <= MaxCapacity
      <4>1. capacity' \in Capacities \ {0} /\ Capacities \subseteq 0 .. ClockMod - 1
        BY <2>5, LimiterAssumption DEF set_capacity
      <4>2. capacity' <= MaxCapacity
        BY <4>1, Limits
      <4> QED BY <4>1, <4>2, LimiterAssumption
    <3>2. l \in Locals /\ l.pc = "cap" /\ l.cap = capacity'
      BY <2>0, <3>1 DEF Locals
    <3>3. SoundLocals(l)
      BY <3>1, <3>2 DEF SoundLocals
    <3>4. th' = [th EXCEPT ![t] = l]
      BY <2>5, <1>0 DEF set_capacity, LocalsInv
    <3> HIDE DEF l
    <3>5. LocalsInv'
      BY <3>3, <3>4, LocalsStep
    <3>6. CountsInv'
      BY <1>0, <2>5, <3>1, LimiterAssumption DEF set_capacity, CountsInv, bucket
    <3>7. stale' \in BOOLEAN
      BY <1>0, <2>5, Zenon DEF set_capacity, bucket
    <3> QED BY <3>5, <3>6, <3>7 DEF BucketInv
  <2>6. CASE LoadForCap(t)
    <3> DEFINE l == [th[t] EXCEPT !.current = tokens, !.pc = "trim"]
    <3>1. l \in Locals /\ l.pc = "trim" /\ l.cap = th[t].cap
      BY <1>0, <2>0 DEF Locals, CountsInv
    <3>2. SoundLocals(l)
      BY <2>0, <3>1 DEF SoundLocals
    <3>3. th' = [th EXCEPT ![t] = l] \/ th' = [th EXCEPT ![t] = Idle]
      BY <2>6, <1>0 DEF LoadForCap, LocalsInv
    <3> HIDE DEF l
    <3> QED BY <1>b, <2>6, <3>2, <3>3, IdleSound DEF LoadForCap
  <2>7. CASE CapTokens(t)
    <3>1. CASE tokens = th[t].current
      <4>1. LocalsInv'
        BY <2>7, <3>1, LocalsStep, IdleSound DEF CapTokens
      <4>2. th[t].cap <= MaxCapacity
        BY <2>0 DEF SoundLocals
      <4>3. CountsInv'
        BY <1>0, <1>a, <2>7, <3>1, <4>2 DEF CapTokens, CountsInv, config
      <4>4. stale' \in BOOLEAN
        BY <1>0, <2>7, Zenon DEF CapTokens
      <4> QED BY <4>1, <4>3, <4>4 DEF BucketInv
    <3>2. CASE tokens # th[t].current
      <4> DEFINE l == [th[t] EXCEPT !.current = tokens]
      <4>1. l \in Locals /\ l.pc = th[t].pc /\ l.cap = th[t].cap
        BY <1>0, <2>0 DEF Locals, CountsInv
      <4>2. SoundLocals(l)
        BY <2>0, <2>7, <4>1 DEF SoundLocals, CapTokens
      <4>3. th' = [th EXCEPT ![t] = l] \/ th' = [th EXCEPT ![t] = Idle]
        BY <2>7, <3>2, <1>0 DEF CapTokens, LocalsInv
      <4>4. UNCHANGED <<clock, config, bucket>>
        BY <2>7, <3>2 DEF CapTokens, bucket
      <4> HIDE DEF l
      <4> QED BY <1>b, <4>2, <4>3, <4>4, IdleSound
    <3> QED BY <3>1, <3>2
  <2> QED BY <1>3, <2>1, <2>2, <2>3, <2>4, <2>5, <2>6, <2>7 DEF AdminStep
<1>4. CASE UNCHANGED vars
  <2>1. LocalsInv'
    BY <1>0, <1>4 DEF vars, LocalsInv
  <2>2. CountsInv'
    BY <1>0, <1>4 DEF vars, CountsInv
  <2>3. stale' \in BOOLEAN
    BY <1>0, <1>4, Zenon DEF vars
  <2> QED BY <2>1, <2>2, <2>3 DEF BucketInv
<1> QED BY <1>1, <1>2, <1>3, <1>4 DEF Next

(* The bucket's count of tokens is sound, whatever threads refill it, take *)
(* from it, reset it and trim it (try_acquire, refill, reset,              *)
(* set_capacity of rate_limiter.cpp).                                      *)
THEOREM TokensAreSound == Spec => []TokensSound
<1>1. BucketInv /\ [Next]_vars => BucketInv'
  BY BucketKept
<1> QED BY <1>1, BucketInitially, BucketSound, PTL DEF Spec

-----------------------------------------------------------------------------
(* The rate limit.                                                         *)

(* What thread t has claimed and not yet added.                            *)
Due(l) == IF l.pc \in {"count", "add"} THEN l.add ELSE 0
Owed == [t \in Threads |-> Due(th[t])]

(* A thread's clock value is in the past, and what it is about to claim is *)
(* what the time since the last refill makes.                              *)
InTime(l, now) ==
  /\ l.now <= now
  /\ l.pc = "claim" => l.add <= MaxRate * Elapsed(l.now, l.last)

(* What has been added and what has been claimed is paid for by the time   *)
(* up to the last refill, unless that time was set back.                   *)
PaidFor == stale \/ \E v \in Int : IsTotal(Owed, v) /\ earned + v <= MaxRate * last

RateInv ==
  /\ rate <= MaxRate /\ last <= clock
  /\ \A t \in Threads : InTime(th[t], clock)
  /\ PaidFor

(* Between refills a thread owes nothing and holds no clock value.         *)
Fresh(l) == l.now = 0 /\ l.pc \notin {"claim", "count", "add"}

LEMMA FreshFrames ==
  ASSUME NEW op \in Ops, NEW n \in Needs \union {0}, NEW s \in 0 .. MaxClock, NEW c \in Nat
  PROVE  /\ Fresh(Idle)
         /\ Fresh([Idle EXCEPT !.pc = "load", !.op = op, !.need = n, !.start = s])
         /\ Fresh([Idle EXCEPT !.pc = "sleep", !.op = op, !.need = n, !.start = s])
         /\ Fresh([[Idle EXCEPT !.pc = "take", !.op = op, !.need = n, !.start = s]
                     EXCEPT !.current = c])
<1> DEFINE load == [Idle EXCEPT !.pc = "load", !.op = op, !.need = n, !.start = s]
           sleep == [Idle EXCEPT !.pc = "sleep", !.op = op, !.need = n, !.start = s]
           take == [Idle EXCEPT !.pc = "take", !.op = op, !.need = n, !.start = s]
<1>1. Idle.pc = "idle" /\ Idle.now = 0
  BY DEF Idle
<1>2. load.pc = "load" /\ load.now = 0
  BY DEF Idle
<1>3. sleep.pc = "sleep" /\ sleep.now = 0
  BY DEF Idle
<1>4. take \in Locals /\ take.pc = "take" /\ take.now = 0
  BY ZeroInTime DEF Idle, Locals
<1> HIDE DEF load, sleep, take
<1>5. [take EXCEPT !.current = c].pc = "take" /\ [take EXCEPT !.current = c].now = 0
  BY <1>4 DEF Locals
<1>6. Fresh(Idle) /\ Fresh(load) /\ Fresh(sleep) /\ Fresh([take EXCEPT !.current = c])
  BY <1>1, <1>2, <1>3, <1>5 DEF Fresh
<1> QED BY <1>6 DEF load, sleep, take

LEMMA FreshCalls ==
  ASSUME BucketInv, NEW t \in Threads, NEW c \in Nat
  PROVE  Fresh(Idle) /\ Fresh(Refilled(t)) /\ Fresh(Decide(t, c))
<1>1. th[t] \in Locals
  BY DEF BucketInv, LocalsInv
<1>2. th[t].op \in Ops /\ th[t].need \in Needs \union {0} /\ th[t].start \in 0 .. MaxClock
  BY <1>1, FieldTypes
<1>3. /\ Fresh(Idle) /\ Fresh(Call(t, "load")) /\ Fresh(Call(t, "sleep"))
      /\ Fresh([Call(t, "take") EXCEPT !.current = c])
  BY <1>2, FreshFrames, Zenon DEF Call
<1> QED BY <1>3 DEF Refilled, Decide, Short

Claimed(l) == l \in Locals /\ l.pc = "count" /\ l.now = 0

LEMMA ClaimFrame ==
  ASSUME NEW op \in Ops, NEW n \in Needs \union {0}, NEW s \in 0 .. MaxClock
  PROVE  Claimed([Idle EXCEPT !.pc = "count", !.op = op, !.need = n, !.start = s])
BY ZeroInTime DEF Claimed, Idle, Locals

LEMMA RateInitially == Init => RateInv
<1> SUFFICES ASSUME Init PROVE RateInv
  OBVIOUS
<1>1. Rate0 \in Nat /\ Rate0 <= MaxRate /\ 1 <= MaxRate /\ MaxRate \in Nat
  BY LimiterAssumption, Limits
<1>2. rate <= MaxRate /\ last <= clock
  BY <1>1, MaxOfTwo DEF Init
<1>3. Idle.pc = "idle" /\ Idle.now = 0
  BY DEF Idle
<1>4. \A t \in Threads : InTime(th[t], clock)
  BY <1>3 DEF Init, InTime
<1>5. Owed = [t \in Threads |-> 0]
  BY <1>3 DEF Init, Owed, Due
<1>6. PaidFor
  BY <1>1, <1>5, TotalOfZero DEF PaidFor, Init
<1> QED BY <1>2, <1>4, <1>6 DEF RateInv

(* A step of thread t changes what is owed by what t owes more or less.    *)
LEMMA OwedStep ==
  ASSUME BucketInv, NEW t \in Threads, NEW l, SoundLocals(l), th' = [th EXCEPT ![t] = l],
         NEW v \in Int, IsTotal(Owed, v)
  PROVE  /\ IsTotal(Owed', v - Due(th[t]) + Due(l))
         /\ Due(l) \in Nat /\ Due(th[t]) \in Nat
<1>1. th \in [Threads -> Locals] /\ l \in Locals
  BY DEF BucketInv, LocalsInv, SoundLocals
<1>2. \A k \in Locals : Due(k) \in Nat
  BY FieldTypes DEF Due
<1>3. Owed \in [Threads -> Int] /\ Owed' \in [Threads -> Int]
  BY <1>1, <1>2 DEF Owed
<1>4. \A u \in Threads \ {t} : Owed'[u] = Owed[u]
  BY <1>1 DEF Owed
<1>5. Owed[t] = Due(th[t]) /\ Owed'[t] = Due(l)
  BY <1>1 DEF Owed
<1>6. IsTotal(Owed', v - Owed[t] + Owed'[t])
  BY <1>3, <1>4, TotalChanges
<1> QED BY <1>1, <1>2, <1>5, <1>6

(* Time passes faster than MaxRate times a shorter time.                   *)
LEMMA MoreTime ==
  ASSUME NEW a \in Nat, NEW b \in Nat, a <= b
  PROVE  /\ MaxRate * a \in Nat /\ MaxRate * b \in Nat /\ MaxRate * a <= MaxRate * b
         /\ MaxRate * b = MaxRate * a + MaxRate * (b - a)
<1>1. MaxRate \in Nat
  BY Limits
<1> QED BY <1>1

LEMMA RateKept == BucketInv /\ RateInv /\ [Next]_vars => RateInv'
<1> SUFFICES ASSUME BucketInv, RateInv, [Next]_vars PROVE RateInv'
  OBVIOUS
<1>0. /\ LocalsInv /\ CountsInv /\ rate <= MaxRate /\ last <= clock /\ MaxRate \in Nat
      /\ \A t \in Threads : InTime(th[t], clock)
  BY Limits DEF BucketInv, RateInv
<1>a. ASSUME NEW t \in Threads
      PROVE  /\ SoundLocals(th[t]) /\ th[t] \in Locals
             /\ th[t].now \in 0 .. MaxClock /\ th[t].last \in 0 .. MaxClock
             /\ th[t].add \in Nat /\ th[t].current \in Nat /\ th[t].cap \in Nat
  <2>1. SoundLocals(th[t]) /\ th[t] \in Locals
    BY <1>0 DEF LocalsInv
  <2> QED BY <2>1, FieldTypes
(* A step of one thread that leaves the others in time.                    *)
<1>b. ASSUME NEW t \in Threads, NEW l, InTime(l, clock), th' = [th EXCEPT ![t] = l],
             UNCHANGED clock
      PROVE  \A u \in Threads : InTime(th'[u], clock')
  BY <1>0, <1>b DEF LocalsInv
<1>c. ASSUME NEW l, SoundLocals(l), Fresh(l)
      PROVE  InTime(l, clock) /\ Due(l) = 0
  BY <1>0, <1>c DEF Fresh, InTime, Due, CountsInv
(* A step that claims nothing and adds nothing.                            *)
<1>d. ASSUME NEW t \in Threads, NEW l, SoundLocals(l), InTime(l, clock),
             th' = [th EXCEPT ![t] = l], Due(l) <= Due(th[t]),
             UNCHANGED <<clock, rate, last, earned, stale>>
      PROVE  RateInv'
  <2>1. \A u \in Threads : InTime(th'[u], clock')
    BY <1>b, <1>d
  <2>2. PaidFor'
    <3>1. CASE stale
      BY <1>d, <3>1 DEF PaidFor
    <3>2. CASE ~stale
      <4>1. PICK v \in Int : IsTotal(Owed, v) /\ earned + v <= MaxRate * last
        BY <3>2 DEF RateInv, PaidFor
      <4> DEFINE w == v - Due(th[t]) + Due(l)
      <4>2. IsTotal(Owed', w) /\ Due(l) \in Nat /\ Due(th[t]) \in Nat
        BY <1>d, <4>1, OwedStep
      <4>3. w \in Int /\ earned' + w <= MaxRate * last'
        BY <1>0, <1>d, <4>1, <4>2 DEF CountsInv
      <4> QED BY <4>2, <4>3 DEF PaidFor
    <3> QED BY <3>1, <3>2
  <2> QED BY <1>0, <1>d, <2>1, <2>2 DEF RateInv
(* The same with locals that are fresh.                                    *)
<1>e. ASSUME NEW t \in Threads, NEW l, SoundLocals(l), Fresh(l), th' = [th EXCEPT ![t] = l],
             UNCHANGED <<clock, rate, last, earned, stale>>
      PROVE  RateInv'
  <2>1. InTime(l, clock) /\ Due(l) = 0
    BY <1>c, <1>e
  <2>2. Due(th[t]) \in Nat
    BY <1>a DEF Due
  <2>3. Due(l) <= Due(th[t])
    BY <2>1, <2>2
  <2> QED BY <1>d, <1>e, <2>1, <2>3
<1>1. CASE Tick
  <2>1. \A t \in Threads : InTime(th'[t], clock')
    BY <1>0, <1>1, <1>a DEF Tick, InTime, CountsInv
  <2>2. PaidFor'
    BY <1>1, Zenon DEF RateInv, PaidFor, Owed, Tick, bucket
  <2> QED BY <1>0, <1>1, <2>1, <2>2 DEF RateInv, Tick, CountsInv, config, bucket
<1>2. ASSUME NEW t \in Clients, ClientStep(t)
      PROVE  RateInv'
  <2> t \in Threads
    BY DEF Threads
  <2>0. SoundLocals(th[t]) /\ th[t] \in Locals /\ InTime(th[t], clock)
    BY <1>0, <1>a
  <2>q. /\ SoundLocals(Idle) /\ SoundLocals(Refilled(t)) /\ SoundLocals(Decide(t, tokens))
        /\ Fresh(Idle) /\ Fresh(Refilled(t)) /\ Fresh(Decide(t, tokens))
    BY <1>0, IdleSound, RefilledSound, DecideSound, FreshCalls DEF CountsInv
  <2>1. CASE Begin(t)
    <3>1. PICK op \in Ops, n \in Needs :
            Attempt(t, [Idle EXCEPT !.op = op, !.need = n,
                                    !.start = IF op = "for" THEN clock ELSE 0])
      BY <2>1 DEF Begin
    <3> DEFINE st == IF op = "for" THEN clock ELSE 0
               c == [Idle EXCEPT !.op = op, !.need = n, !.start = st]
               l == [c EXCEPT !.pc = "last", !.now = clock]
    <3>2. st \in 0 .. MaxClock /\ clock \in 0 .. MaxClock /\ n \in Needs \union {0}
      BY <1>0, ZeroInTime DEF CountsInv
    <3> HIDE DEF st
    <3>3. c \in Locals /\ c.cap = 0
      BY <3>2, ZeroInTime DEF Idle, Locals
    <3> HIDE DEF c
    <3>4. l \in Locals /\ l.cap = 0 /\ l.pc = "last" /\ l.now = clock
      BY <3>2, <3>3 DEF Locals
    <3>5. th' = [th EXCEPT ![t] = l]
      BY <3>1 DEF Attempt, c, st
    <3> HIDE DEF l
    <3>6. SoundLocals(l) /\ InTime(l, clock)
      BY <3>2, <3>4, Limits DEF SoundLocals, InTime
    <3>7. Due(l) <= Due(th[t])
      BY <1>a, <3>4 DEF Due
    <3> QED BY <1>d, <2>1, <3>5, <3>6, <3>7 DEF Begin, config, bucket
  <2>2. CASE LoadLast(t)
    <3> DEFINE add == Elapsed(th[t].now, last) * rate
               l == [th[t] EXCEPT !.last = last, !.add = add, !.pc = "claim"]
    <3>1. /\ add \in Nat /\ last \in 0 .. MaxClock
          /\ add <= MaxRate * Elapsed(th[t].now, last)
      <4>1. Elapsed(th[t].now, last) \in Nat
        BY <1>0, <1>a, ElapsedIsTime DEF CountsInv
      <4>2. rate \in Nat /\ last \in 0 .. MaxClock /\ rate <= MaxRate /\ MaxRate \in Nat
        BY <1>0 DEF CountsInv
      <4>3. \A a, b, c \in Nat : b <= c => a * b \in Nat /\ a * b <= c * a
        OBVIOUS
      <4> QED BY <4>1, <4>2, <4>3
    <3>2. th' = [th EXCEPT ![t] = IF add = 0 THEN Refilled(t) ELSE l]
      BY <2>2, <1>0 DEF LoadLast, LocalsInv
    <3>3. UNCHANGED <<clock, rate, last, earned, stale>>
      BY <2>2 DEF LoadLast, config, bucket
    <3> HIDE DEF add
    <3>4. CASE add = 0
      BY <1>e, <2>q, <3>2, <3>3, <3>4
    <3>5. CASE add # 0
      <4>1. /\ l \in Locals /\ l.cap = th[t].cap /\ l.pc = "claim"
            /\ l.now = th[t].now /\ l.last = last /\ l.add = add
        BY <2>0, <3>1 DEF Locals
      <4>2. th' = [th EXCEPT ![t] = l]
        BY <3>2, <3>5
      <4> HIDE DEF l
      <4>3. SoundLocals(l)
        BY <2>0, <4>1 DEF SoundLocals
      <4>4. InTime(l, clock)
        BY <2>0, <3>1, <4>1 DEF InTime
      <4>5. Due(l) <= Due(th[t])
        BY <1>a, <4>1 DEF Due
      <4> QED BY <1>d, <3>3, <4>2, <4>3, <4>4, <4>5
    <3> QED BY <3>4, <3>5
  <2>3. CASE ClaimInterval(t)
    <3>1. CASE last # th[t].last
      BY <1>e, <2>q, <2>3, <3>1 DEF ClaimInterval, config
    <3>2. CASE last = th[t].last
      <4> DEFINE l == [Call(t, "count") EXCEPT !.add = th[t].add]
      <4>1. SoundLocals(l)
        BY CallSound
      <4>2. l.pc = "count" /\ l.add = th[t].add /\ l.now = 0
        <5>1. Claimed(Call(t, "count"))
          <6>1. /\ th[t].op \in Ops /\ th[t].need \in Needs \union {0}
                /\ th[t].start \in 0 .. MaxClock
            BY <2>0, FieldTypes
          <6> QED BY <6>1, ClaimFrame, Zenon DEF Call
        <5> QED BY <5>1, <1>a DEF Claimed, Locals
      <4>3. th' = [th EXCEPT ![t] = l] /\ UNCHANGED <<clock, rate, earned>>
        BY <2>3, <3>2 DEF ClaimInterval, config
      <4>4. last' = th[t].now /\ (stale' <=> (stale \/ th[t].now < last)) /\ th[t].pc = "claim"
        BY <2>3, <3>2 DEF ClaimInterval
      <4> HIDE DEF l
      <4>5. InTime(l, clock) /\ Due(l) = th[t].add /\ Due(th[t]) = 0
        BY <1>0, <4>2, <4>4 DEF InTime, Due, CountsInv
      <4>6. \A u \in Threads : InTime(th'[u], clock')
        BY <1>b, <4>3, <4>5
      <4>7. PaidFor'
        <5>1. SUFFICES ASSUME ~stale, last <= th[t].now
                       PROVE  \E v \in Int : IsTotal(Owed', v) /\ earned' + v <= MaxRate * last'
          BY <1>0, <1>a, <4>4 DEF PaidFor, CountsInv
        <5>2. PICK v \in Int : IsTotal(Owed, v) /\ earned + v <= MaxRate * last
          BY <5>1 DEF RateInv, PaidFor
        <5>3. IsTotal(Owed', v - Due(th[t]) + Due(l))
          BY <4>1, <4>3, <5>2, OwedStep
        <5>4. Elapsed(th[t].now, th[t].last) = th[t].now - last
          BY <1>a, <3>2, <5>1, ElapsedIsTime
        <5>5. th[t].add <= MaxRate * (th[t].now - last)
          BY <2>0, <4>4, <5>4 DEF InTime
        <5>6. /\ last \in Nat /\ th[t].now \in Nat /\ th[t].add \in Nat
              /\ MaxRate * th[t].now = MaxRate * last + MaxRate * (th[t].now - last)
              /\ MaxRate * last \in Nat /\ MaxRate * (th[t].now - last) \in Int
          <6>1. last \in Nat /\ th[t].now \in Nat /\ th[t].add \in Nat
            BY <1>0, <1>a DEF CountsInv
          <6> QED BY <1>0, <5>1, <6>1, MoreTime
        <5>7. earned' + (v + th[t].add) <= MaxRate * last'
          BY <1>0, <4>3, <4>4, <5>2, <5>5, <5>6 DEF CountsInv
        <5>8. IsTotal(Owed', v + th[t].add) /\ v + th[t].add \in Int
          <6>1. v - Due(th[t]) + Due(l) = v + th[t].add /\ v + th[t].add \in Int
            BY <4>5, <5>6
          <6> QED BY <5>3, <6>1
        <5> QED BY <5>7, <5>8
      <4>8. last' <= clock' /\ rate' <= MaxRate
        BY <1>0, <2>0, <4>3, <4>4 DEF InTime
      <4> QED BY <4>6, <4>7, <4>8 DEF RateInv
    <3> QED BY <3>1, <3>2
  <2>4. CASE LoadForRefill(t)
    <3> DEFINE l == [th[t] EXCEPT !.current = tokens, !.cap = capacity, !.pc = "add"]
    <3>1. th' = [th EXCEPT ![t] = IF tokens >= capacity THEN Refilled(t) ELSE l]
      BY <2>4, <1>0 DEF LoadForRefill, LocalsInv
    <3>2. UNCHANGED <<clock, rate, last, earned, stale>> /\ th[t].pc = "count"
      BY <2>4 DEF LoadForRefill, config, bucket
    <3>3. CASE tokens >= capacity
      BY <1>e, <2>q, <3>1, <3>2, <3>3
    <3>4. CASE ~(tokens >= capacity)
      <4>1. /\ l \in Locals /\ l.cap = capacity /\ l.current = tokens /\ l.pc = "add"
            /\ l.now = th[t].now /\ l.add = th[t].add
        BY <1>0, <2>0 DEF Locals, CountsInv
      <4>2. th' = [th EXCEPT ![t] = l]
        BY <3>1, <3>4
      <4> HIDE DEF l
      <4>3. SoundLocals(l)
        BY <1>0, <3>4, <4>1 DEF SoundLocals, CountsInv
      <4>4. InTime(l, clock)
        BY <2>0, <4>1 DEF InTime
      <4>5. Due(l) <= Due(th[t])
        BY <1>a, <3>2, <4>1 DEF Due
      <4> QED BY <1>d, <3>2, <4>2, <4>3, <4>4, <4>5
    <3> QED BY <3>3, <3>4
  <2>5. CASE AddTokens(t)
    <3> DEFINE new == Min({th[t].current + th[t].add, th[t].cap})
               l == [th[t] EXCEPT !.current = tokens]
    <3>1. CASE tokens = th[t].current
      <4>1. /\ th' = [th EXCEPT ![t] = Refilled(t)] /\ UNCHANGED <<clock, rate, last, stale>>
            /\ earned' = earned + new - tokens /\ th[t].pc = "add"
        BY <2>5, <3>1 DEF AddTokens, config
      <4>2. new \in Int /\ new - tokens <= th[t].add
        <5>1. th[t].current + th[t].add \in Int /\ th[t].cap \in Int /\ tokens \in Nat
          BY <1>0, <1>a DEF CountsInv
        <5>2. new = IF th[t].current + th[t].add <= th[t].cap
                    THEN th[t].current + th[t].add ELSE th[t].cap
          BY <5>1, MinOfTwo
        <5> HIDE DEF new
        <5> QED BY <1>a, <3>1, <5>1, <5>2
      <4> HIDE DEF new
      <4>3. InTime(Refilled(t), clock) /\ Due(Refilled(t)) = 0 /\ Due(th[t]) = th[t].add
        BY <1>c, <2>q, <4>1 DEF Due
      <4>4. \A u \in Threads : InTime(th'[u], clock')
        BY <1>b, <4>1, <4>3
      <4>5. PaidFor'
        <5>1. CASE stale
          BY <4>1, <5>1 DEF PaidFor
        <5>2. CASE ~stale
          <6>1. PICK v \in Int : IsTotal(Owed, v) /\ earned + v <= MaxRate * last
            BY <5>2 DEF RateInv, PaidFor
          <6> DEFINE w == v - Due(th[t]) + Due(Refilled(t))
          <6>2. IsTotal(Owed', w)
            BY <2>q, <4>1, <6>1, OwedStep
          <6>3. w = v - th[t].add /\ w \in Int
            BY <1>a, <4>3
          <6> HIDE DEF w
          <6>4. MaxRate * last \in Nat /\ earned \in Nat /\ tokens \in Nat
            BY <1>0 DEF CountsInv
          <6>5. earned' + w <= MaxRate * last
            BY <1>a, <4>1, <4>2, <6>1, <6>3, <6>4
          <6> QED BY <4>1, <6>2, <6>3, <6>5 DEF PaidFor
        <5> QED BY <5>1, <5>2
      <4> QED BY <1>0, <4>1, <4>4, <4>5 DEF RateInv
    <3>2. CASE tokens # th[t].current
      <4>1. th' = [th EXCEPT ![t] = IF tokens >= th[t].cap THEN Refilled(t) ELSE l]
        BY <1>0, <2>5, <3>2 DEF AddTokens, LocalsInv
      <4>2. UNCHANGED <<clock, rate, last, earned, stale>> /\ th[t].pc = "add"
        BY <2>5, <3>2 DEF AddTokens, config
      <4>3. CASE tokens >= th[t].cap
        BY <1>e, <2>q, <4>1, <4>2, <4>3
      <4>4. CASE ~(tokens >= th[t].cap)
        <5>1. /\ l \in Locals /\ l.cap = th[t].cap /\ l.current = tokens /\ l.pc = "add"
              /\ l.now = th[t].now /\ l.add = th[t].add
          BY <1>0, <2>0, <4>2 DEF Locals, CountsInv
        <5>2. th' = [th EXCEPT ![t] = l]
          BY <4>1, <4>4
        <5> HIDE DEF l
        <5>3. SoundLocals(l)
          BY <1>0, <1>a, <2>0, <4>4, <5>1 DEF SoundLocals, CountsInv
        <5>4. InTime(l, clock)
          BY <2>0, <5>1 DEF InTime
        <5>5. Due(l) <= Due(th[t])
          BY <1>a, <4>2, <5>1 DEF Due
        <5> QED BY <1>d, <4>2, <5>2, <5>3, <5>4, <5>5
      <4> QED BY <4>3, <4>4
    <3> QED BY <3>1, <3>2
  <2>6. CASE LoadTokens(t)
    BY <1>e, <2>q, <2>6 DEF LoadTokens, config, bucket
  <2>7. CASE TakeTokens(t)
    BY <1>e, <2>q, <2>7 DEF TakeTokens, config
  <2>8. CASE Retry(t)
    <3> DEFINE l == [th[t] EXCEPT !.pc = "last", !.now = clock]
    <3>1. /\ l \in Locals /\ l.pc = "last" /\ l.cap = th[t].cap /\ l.now = clock
          /\ clock \in 0 .. MaxClock
      BY <1>0, <2>0 DEF Locals, CountsInv
    <3>2. th' = [th EXCEPT ![t] = Idle] \/ th' = [th EXCEPT ![t] = l]
      BY <2>8 DEF Retry, Attempt
    <3>3. UNCHANGED <<clock, rate, last, earned, stale>>
      BY <2>8 DEF Retry, config, bucket
    <3> HIDE DEF l
    <3>4. SoundLocals(l) /\ InTime(l, clock)
      BY <2>0, <3>1 DEF SoundLocals, InTime
    <3>5. Due(l) <= Due(th[t])
      BY <1>a, <3>1 DEF Due
    <3> QED BY <1>d, <1>e, <2>q, <3>2, <3>3, <3>4, <3>5
  <2> QED BY <1>2, <2>1, <2>2, <2>3, <2>4, <2>5, <2>6, <2>7, <2>8 DEF ClientStep
<1>3. ASSUME NEW t \in Admins, AdminStep(t)
      PROVE  RateInv'
  <2> t \in Threads
    BY DEF Threads
  <2>0. SoundLocals(th[t]) /\ th[t] \in Locals /\ InTime(th[t], clock)
    BY <1>0, <1>a
  <2>q. SoundLocals(Idle) /\ Fresh(Idle)
    BY <1>0, IdleSound, FreshCalls DEF CountsInv
(* A step that keeps the pc outside a refill and the clock value.          *)
  <2>r. ASSUME NEW l, l \in Locals, l.cap <= MaxCapacity, l.now <= clock,
               l.pc \in {"resetclock", "resetlast", "cap", "trim"},
               th' = [th EXCEPT ![t] = l], UNCHANGED <<clock, rate, last, earned, stale>>
        PROVE  RateInv'
    <3>1. SoundLocals(l) /\ InTime(l, clock)
      BY <2>r DEF SoundLocals, InTime
    <3>2. Due(l) <= Due(th[t])
      BY <1>a, <2>r DEF Due
    <3> QED BY <1>d, <2>r, <3>1, <3>2
  <2>1. CASE reset(t)
    <3> DEFINE l == [th[t] EXCEPT !.pc = "resetclock"]
    <3>1. l \in Locals /\ l.pc = "resetclock" /\ l.cap <= MaxCapacity /\ l.now <= clock
      BY <2>0 DEF Locals, SoundLocals, InTime
    <3>2. th' = [th EXCEPT ![t] = l] /\ UNCHANGED <<clock, rate, last, earned, stale>>
      BY <2>1 DEF reset
    <3> HIDE DEF l
    <3> QED BY <2>r, <3>1, <3>2
  <2>2. CASE ResetReadClock(t)
    <3> DEFINE l == [th[t] EXCEPT !.now = clock, !.pc = "resetlast"]
    <3>0. clock \in 0 .. MaxClock /\ clock <= clock
      BY <1>0 DEF CountsInv
    <3>1. l \in Locals /\ l.pc = "resetlast" /\ l.cap <= MaxCapacity /\ l.now <= clock
      BY <2>0, <3>0 DEF Locals, SoundLocals
    <3>2. th' = [th EXCEPT ![t] = l]
      BY <1>0, <2>2 DEF ResetReadClock, LocalsInv
    <3>3. UNCHANGED <<clock, rate, last, earned, stale>>
      BY <2>2 DEF ResetReadClock, config, bucket
    <3> HIDE DEF l
    <3> QED BY <2>r, <3>1, <3>2, <3>3
  <2>3. CASE ResetLast(t)
    <3>1. /\ th' = [th EXCEPT ![t] = Idle] /\ UNCHANGED <<clock, rate, earned>>
          /\ last' = th[t].now /\ (stale' <=> (stale \/ th[t].now < last))
          /\ th[t].pc = "resetlast"
      BY <2>3 DEF ResetLast, config
    <3>2. InTime(Idle, clock) /\ Due(Idle) = 0 /\ Due(th[t]) = 0
      BY <1>c, <2>q, <3>1 DEF Due
    <3>3. \A u \in Threads : InTime(th'[u], clock')
      BY <1>b, <3>1, <3>2
    <3>4. PaidFor'
      <4>1. SUFFICES ASSUME ~stale, last <= th[t].now
                     PROVE  \E v \in Int : IsTotal(Owed', v) /\ earned' + v <= MaxRate * last'
        BY <1>0, <1>a, <3>1 DEF PaidFor, CountsInv
      <4>2. PICK v \in Int : IsTotal(Owed, v) /\ earned + v <= MaxRate * last
        BY <4>1 DEF RateInv, PaidFor
      <4>3. IsTotal(Owed', v - Due(th[t]) + Due(Idle))
        BY <2>q, <3>1, <4>2, OwedStep
      <4>4. v - Due(th[t]) + Due(Idle) = v
        BY <3>2
      <4>5. MaxRate * last <= MaxRate * th[t].now /\ MaxRate * last \in Nat /\ MaxRate * th[t].now \in Nat
        <5>1. last \in Nat /\ th[t].now \in Nat
          BY <1>0, <1>a DEF CountsInv
        <5> QED BY <4>1, <5>1, MoreTime
      <4>6. earned' + v <= MaxRate * last'
        BY <1>0, <3>1, <4>2, <4>5 DEF CountsInv
      <4> QED BY <4>3, <4>4, <4>6
    <3>5. last' <= clock' /\ rate' <= MaxRate
      BY <1>0, <2>0, <3>1 DEF InTime
    <3> QED BY <3>3, <3>4, <3>5 DEF RateInv
  <2>4. CASE set_rate(t)
    <3>1. UNCHANGED <<clock, th, last, earned, stale>> /\ rate' \in Rates
      BY <2>4 DEF set_rate, bucket
    <3>2. rate' <= MaxRate
      BY <3>1, Limits
    <3>3. \A u \in Threads : InTime(th'[u], clock')
      BY <1>0, <3>1
    <3>4. PaidFor'
      BY <3>1, Zenon DEF RateInv, PaidFor, Owed
    <3> QED BY <1>0, <3>1, <3>2, <3>3, <3>4 DEF RateInv
  <2>5. CASE set_capacity(t)
    <3> DEFINE l == [th[t] EXCEPT !.pc = "cap", !.cap = capacity']
    <3>1. capacity' \in Nat /\ capacity' <= MaxCapacity
      <4>1. capacity' \in Capacities /\ Capacities \subseteq 0 .. ClockMod - 1
        BY <2>5, LimiterAssumption DEF set_capacity
      <4>2. capacity' <= MaxCapacity
        BY <4>1, Limits
      <4> QED BY <4>1, <4>2, LimiterAssumption
    <3>2. l \in Locals /\ l.pc = "cap" /\ l.cap <= MaxCapacity /\ l.now <= clock
      BY <2>0, <3>1 DEF Locals, InTime
    <3>3. th' = [th EXCEPT ![t] = l] /\ UNCHANGED <<clock, rate, last, earned, stale>>
      BY <1>0, <2>5 DEF set_capacity, LocalsInv, bucket
    <3> HIDE DEF l
    <3> QED BY <2>r, <3>2, <3>3
  <2>6. CASE LoadForCap(t)
    <3> DEFINE l == [th[t] EXCEPT !.current = tokens, !.pc = "trim"]
    <3>1. l \in Locals /\ l.pc = "trim" /\ l.cap <= MaxCapacity /\ l.now <= clock
      BY <1>0, <2>0 DEF Locals, CountsInv, SoundLocals, InTime
    <3>2. th' = [th EXCEPT ![t] = l] \/ th' = [th EXCEPT ![t] = Idle]
      BY <2>6, <1>0 DEF LoadForCap, LocalsInv
    <3>3. UNCHANGED <<clock, rate, last, earned, stale>>
      BY <2>6 DEF LoadForCap, config, bucket
    <3> HIDE DEF l
    <3> QED BY <1>e, <2>q, <2>r, <3>1, <3>2, <3>3
  <2>7. CASE CapTokens(t)
    <3> DEFINE l == [th[t] EXCEPT !.current = tokens]
    <3>1. l \in Locals /\ l.pc = "trim" /\ l.cap <= MaxCapacity /\ l.now <= clock
      BY <1>0, <2>0, <2>7 DEF CapTokens, Locals, CountsInv, SoundLocals, InTime
    <3>2. th' = [th EXCEPT ![t] = l] \/ th' = [th EXCEPT ![t] = Idle]
      BY <2>7, <1>0 DEF CapTokens, LocalsInv
    <3>3. UNCHANGED <<clock, rate, last, earned, stale>>
      BY <2>7 DEF CapTokens, config
    <3> HIDE DEF l
    <3> QED BY <1>e, <2>q, <2>r, <3>1, <3>2, <3>3
  <2> QED BY <1>3, <2>1, <2>2, <2>3, <2>4, <2>5, <2>6, <2>7 DEF AdminStep
<1>4. CASE UNCHANGED vars
  <2>1. \A t \in Threads : InTime(th'[t], clock')
    BY <1>0, <1>4 DEF vars
  <2>2. PaidFor'
    BY <1>4, Zenon DEF RateInv, PaidFor, Owed, vars
  <2> QED BY <1>0, <1>4, <2>1, <2>2 DEF RateInv, vars
<1> QED BY <1>1, <1>2, <1>3, <1>4 DEF Next

LEMMA RateSound == BucketInv /\ RateInv => RateRespectedInOrder
<1> SUFFICES ASSUME BucketInv, RateInv, ~stale PROVE earned <= MaxRate * clock
  BY DEF RateRespectedInOrder
<1>1. PICK v \in Int : IsTotal(Owed, v) /\ earned + v <= MaxRate * last
  BY DEF RateInv, PaidFor
<1>2. Owed \in [Threads -> Nat]
  <2>1. \A t \in Threads : th[t] \in Locals
    BY DEF BucketInv, LocalsInv
  <2>2. \A k \in Locals : Due(k) \in Nat
    BY FieldTypes DEF Due
  <2> QED BY <2>1, <2>2 DEF Owed
<1>3. v \in Nat
  BY <1>1, <1>2, TotalIsNatural
<1>4. last \in Nat /\ clock \in Nat /\ last <= clock /\ earned \in Nat
  BY DEF BucketInv, CountsInv, RateInv
<1>5. MaxRate * last \in Nat /\ MaxRate * clock \in Nat /\ MaxRate * last <= MaxRate * clock
  BY <1>4, MoreTime
<1> QED BY <1>1, <1>3, <1>4, <1>5

(* Refills never make more tokens than the highest rate makes in the time  *)
(* that has passed, for any number of threads that race for a refill, as   *)
(* long as last_refill_ns_ is not set back (refill of rate_limiter.cpp).   *)
THEOREM RateIsRespected == Spec => []RateRespectedInOrder
<1>1. Init => BucketInv /\ RateInv
  BY BucketInitially, RateInitially
<1>2. BucketInv /\ RateInv /\ [Next]_vars => BucketInv' /\ RateInv'
  BY BucketKept, RateKept
<1> QED BY <1>1, <1>2, RateSound, PTL DEF Spec
=============================================================================
