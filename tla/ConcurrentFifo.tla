--------------------------- MODULE ConcurrentFifo ---------------------------
(***************************************************************************)
(* What a queue shared by many threads promises: a FIFO whose push and pop *)
(* take effect at one instant.  A pop that finds nothing took effect at an *)
(* instant when the queue was empty, which may lie before its return.      *)
(* Implemented by module LockFreeQueue (include/utils/lock_free_queue.hpp).*)
(***************************************************************************)
EXTENDS Sequences

CONSTANTS
  Threads,     \* the threads that push and pop
  Values,      \* what can be queued
  NoValue      \* std::nullopt

VARIABLES
  queue,       \* the values, oldest first
  sawEmpty,    \* the threads whose current pop took effect on an empty queue
  out          \* out[t]: the result of t's last pop

cfifoVars == <<queue, sawEmpty, out>>

CInit == queue = <<>> /\ sawEmpty = {} /\ out = [t \in Threads |-> NoValue]

CPush(v) == queue' = Append(queue, v) /\ UNCHANGED <<sawEmpty, out>>

CPop(t) ==
  /\ queue # <<>>
  /\ queue' = Tail(queue)
  /\ out' = [out EXCEPT ![t] = Head(queue)]
  /\ UNCHANGED sawEmpty

CSeeEmpty(t) ==
  /\ queue = <<>>
  /\ sawEmpty' = sawEmpty \union {t}
  /\ UNCHANGED <<queue, out>>

CForget(t) == sawEmpty' = sawEmpty \ {t} /\ UNCHANGED <<queue, out>>

CNothing(t) ==
  /\ t \in sawEmpty
  /\ sawEmpty' = sawEmpty \ {t}
  /\ out' = [out EXCEPT ![t] = NoValue]
  /\ UNCHANGED queue

CNext ==
  \/ \E v \in Values : CPush(v)
  \/ \E t \in Threads : CPop(t) \/ CSeeEmpty(t) \/ CForget(t) \/ CNothing(t)

CSpec == CInit /\ [][CNext]_cfifoVars
=============================================================================
