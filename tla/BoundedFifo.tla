---------------------------- MODULE BoundedFifo ----------------------------
(***************************************************************************)
(* What a queue between one producer and one consumer promises: a FIFO of  *)
(* at most Room values, whose operations take effect at one instant.       *)
(* Implemented by module RingBuffer (include/utils/ring_buffer.hpp).       *)
(***************************************************************************)
EXTENDS Naturals, Sequences

CONSTANTS
  Values,      \* what can be queued
  NoValue,     \* std::nullopt
  Room         \* the number of values the queue holds

VARIABLES
  queue,       \* the values, oldest first
  accepted,    \* the result of the last push
  out          \* the result of the last pop or peek

fifoVars == <<queue, accepted, out>>

FInit == queue = <<>> /\ accepted = TRUE /\ out = NoValue

FPush(v) ==
  /\ Len(queue) < Room
  /\ queue' = Append(queue, v) /\ accepted' = TRUE
  /\ UNCHANGED out

(* A push is refused only when the queue is full.                          *)
FRefuse ==
  /\ Len(queue) = Room
  /\ accepted' = FALSE
  /\ UNCHANGED <<queue, out>>

FPop ==
  /\ queue # <<>>
  /\ out' = Head(queue) /\ queue' = Tail(queue)
  /\ UNCHANGED accepted

FPeek ==
  /\ queue # <<>>
  /\ out' = Head(queue)
  /\ UNCHANGED <<queue, accepted>>

(* pop and peek report nothing only when the queue is empty.               *)
FNothing ==
  /\ queue = <<>>
  /\ out' = NoValue
  /\ UNCHANGED <<queue, accepted>>

FClear ==
  /\ queue' = <<>>
  /\ UNCHANGED <<accepted, out>>

FNext == (\E v \in Values : FPush(v)) \/ FRefuse \/ FPop \/ FPeek \/ FNothing \/ FClear

FSpec == FInit /\ [][FNext]_fifoVars
=============================================================================
