----------------------------- MODULE MCUtilities -----------------------------
(* The ring buffer and the rate limiter for TLC. They share nothing, so     *)
(* that their state spaces are put side by side: a behaviour is one of one  *)
(* of them, chosen at the start.                                            *)
EXTENDS RingBuffer, RateLimiter, TLC

VARIABLE part

UtilitiesInit == part \in {"ring", "limiter"} /\ RingInit /\ Init

UtilitiesNext ==
  \/ part = "ring" /\ RingNext /\ UNCHANGED <<vars, part>>
  \/ part = "limiter" /\ Next /\ UNCHANGED <<ringVars, part>>

UtilitiesSpec == UtilitiesInit /\ [][UtilitiesNext]_<<ringVars, vars, part>>

(* The clients of the limiter are interchangeable.                          *)
ClientSymmetry == Permutations(Clients)
=============================================================================
