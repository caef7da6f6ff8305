-------------------------- MODULE MCLockFreeQueue --------------------------
(* Instances of LockFreeQueue for TLC: node addresses, and threads of one  *)
(* kind, are interchangeable.                                              *)
EXTENDS LockFreeQueue, TLC

(* Every thread at once, with too few pops for a reclamation.              *)
AllThreads == {[threads |-> Threads, threshold |-> 10, weak |-> TRUE]}

(* The same on a machine whose compare-and-exchange fails for a reason.    *)
AllThreadsStrong == {[threads |-> Threads, threshold |-> 10, weak |-> FALSE]}

(* Any producer with any consumer on such a machine, reclaiming after      *)
(* every pop or every second one.                                          *)
Pairs == [threads : {{p, c} : p \in Producers, c \in Consumers}, threshold : 1 .. 2,
          weak : {FALSE}]

(* Two producers and a consumer that reclaims after every pop.             *)
Reclaiming == [threads : {Threads}, threshold : {1}, weak : {FALSE}]

PairsOrAll == Pairs \union AllThreads

Symmetry == Permutations(Nodes) \union Permutations(Producers) \union Permutations(Consumers)
=============================================================================
