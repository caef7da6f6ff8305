---------------------------- MODULE LockFreePool ----------------------------
(***************************************************************************)
(* LockFreePool<T, POOL_SIZE> and its owning pointer PoolPtr               *)
(* (include/core/memory_pool.hpp): threads claim and give back slots by    *)
(* atomic operations on one flag per slot, and construct and destroy the   *)
(* objects in the slots themselves.  One action is one access to a flag,   *)
(* to the hint head_ or to the object in a slot.                           *)
(***************************************************************************)
EXTENDS Naturals

CONSTANTS
  Threads,     \* the threads that use the pool
  Handles,     \* each thread's PoolPtr variables
  Raw,         \* each thread's plain T* variable
  Null,        \* nullptr
  PoolSize,    \* POOL_SIZE
  Throwing     \* whether T's constructor may throw

Slots == 0 .. PoolSize - 1
Places == Handles \union {Raw}

ASSUME PoolAssumption ==
  /\ PoolSize \in Nat \ {0}
  /\ Raw \notin Handles
  /\ Null \notin Slots /\ Null \notin Places
  /\ Throwing \in BOOLEAN

VARIABLES
  head,        \* head_ % POOL_SIZE, all that is used of it
  in_use,      \* in_use_
  alive,       \* whether the storage of a slot holds a constructed object
  own,         \* own[t][p]: the slot that variable p of thread t points to
  th,          \* th[t]: the call thread t is in, and its locals
  up,          \* the pool has not been destroyed
  thrown       \* history: the slots in which a constructor threw

vars == <<head, in_use, alive, own, th, up, thrown>>

NoCall == [pc |-> "idle", place |-> Null, from |-> Null, slot |-> Null, tries |-> 0]

Idle(t) == th[t].pc \in {"idle", "null"}

Init ==
  /\ head = 0
  /\ in_use = [i \in Slots |-> FALSE]
  /\ alive = [i \in Slots |-> FALSE]
  /\ own = [t \in Threads |-> [p \in Places |-> Null]]
  /\ th = [t \in Threads |-> NoCall]
  /\ up = TRUE
  /\ thrown = {}

-----------------------------------------------------------------------------
(* allocate, called to set a variable that points to nothing: the hint     *)
(* says where to look first.                                               *)
allocate(t, p) ==
  /\ Idle(t) /\ own[t][p] = Null
  /\ th' = [th EXCEPT ![t] = [pc |-> "claim", place |-> p, from |-> Null,
                              slot |-> head, tries |-> 0]]
  /\ head' = (head + 1) % PoolSize
  /\ UNCHANGED <<in_use, alive, own, up, thrown>>

(* Mutant: the flag is loaded and stored in two steps.                     *)
TryClaimNotAtomic(t) ==
  LET i == th[t].slot
  IN  /\ \/ /\ th[t].pc = "claim" /\ ~in_use[i]
            /\ th' = [th EXCEPT ![t].pc = "construct"]
            /\ own' = [own EXCEPT ![t][th[t].place] = i]
            /\ UNCHANGED in_use
         \/ /\ th[t].pc = "claim" /\ in_use[i]
            /\ th' = [th EXCEPT ![t].slot = (i + 1) % PoolSize, ![t].tries = @ + 1,
                                ![t].pc = IF th[t].tries + 1 = PoolSize THEN "null" ELSE "claim"]
            /\ UNCHANGED <<in_use, own>>
         \/ /\ th[t].pc = "construct" /\ ~in_use[i]
            /\ in_use' = [in_use EXCEPT ![i] = TRUE]
            /\ UNCHANGED <<th, own>>
      /\ UNCHANGED <<head, alive, up, thrown>>

(* One compare-and-exchange.  After POOL_SIZE of them allocate gives up    *)
(* and returns nullptr.                                                    *)
TryClaim(t) ==
  LET i == th[t].slot
  IN  /\ th[t].pc = "claim"
      /\ \/ /\ ~in_use[i]
            /\ in_use' = [in_use EXCEPT ![i] = TRUE]
            /\ own' = [own EXCEPT ![t][th[t].place] = i]
            /\ th' = [th EXCEPT ![t].pc = "construct"]
         \/ /\ in_use[i]
            /\ th' = [th EXCEPT ![t].slot = (i + 1) % PoolSize, ![t].tries = @ + 1,
                                ![t].pc = IF th[t].tries + 1 = PoolSize THEN "null" ELSE "claim"]
            /\ UNCHANGED <<in_use, own>>
      /\ UNCHANGED <<head, alive, up, thrown>>

(* Placement new, and allocate returns the pointer.                        *)
Construct(t) ==
  /\ th[t].pc = "construct"
  /\ alive' = [alive EXCEPT ![th[t].slot] = TRUE]
  /\ th' = [th EXCEPT ![t] = NoCall]
  /\ UNCHANGED <<head, in_use, own, up, thrown>>

(* The constructor throws: allocate does not return and nothing clears the *)
(* flag.                                                                   *)
ConstructThrows(t) ==
  /\ Throwing
  /\ th[t].pc = "construct"
  /\ own' = [own EXCEPT ![t][th[t].place] = Null]
  /\ th' = [th EXCEPT ![t] = NoCall]
  /\ thrown' = thrown \union {th[t].slot}
  /\ UNCHANGED <<head, in_use, alive, up>>

-----------------------------------------------------------------------------
(* Deallocating the object of place, then moving from into place (Null: no *)
(* move).                                                                  *)
BeginDeallocate(t, place, from, i) ==
  th' = [th EXCEPT ![t] = [pc |-> "destroy", place |-> place, from |-> from,
                           slot |-> i, tries |-> 0]]

(* deallocate(nullptr) is a no-op, so a call needs a slot to do anything.  *)
(* A client calls it with its T*, and the destructor of PoolPtr with the   *)
(* pointer it owns.                                                        *)
deallocate(t, p) ==
  /\ Idle(t) /\ own[t][p] # Null
  /\ BeginDeallocate(t, p, Null, own[t][p])
  /\ UNCHANGED <<head, in_use, alive, own, up, thrown>>

(* Mutant: the object's destructor is not called.                          *)
DestroyForgotten(t) ==
  /\ th[t].pc = "destroy"
  /\ th' = [th EXCEPT ![t].pc = "free"]
  /\ UNCHANGED <<head, in_use, alive, own, up, thrown>>

Destroy(t) ==
  /\ th[t].pc = "destroy"
  /\ alive' = [alive EXCEPT ![th[t].slot] = FALSE]
  /\ th' = [th EXCEPT ![t].pc = "free"]
  /\ UNCHANGED <<head, in_use, own, up, thrown>>

(* Variables after x is set to what y points to and y to nothing.          *)
Moved(vals, x, y) == [vals EXCEPT ![x] = vals[y], ![y] = Null]

(* Clear the flag; the variable is gone, or takes over another one's       *)
(* object.                                                                 *)
MarkFree(t) ==
  LET p == th[t].place
  IN  /\ th[t].pc = "free"
      /\ in_use' = [in_use EXCEPT ![th[t].slot] = FALSE]
      /\ own' = [own EXCEPT ![t] = IF th[t].from = Null THEN [@ EXCEPT ![p] = Null]
                                   ELSE Moved(@, p, th[t].from)]
      /\ th' = [th EXCEPT ![t] = NoCall]
      /\ UNCHANGED <<head, alive, up, thrown>>

-----------------------------------------------------------------------------
(* Mutant: move assignment drops the object it owns without deallocating.  *)
MoveAssignLeaks(t, x, y) ==
  /\ Idle(t) /\ x # y
  /\ own' = [own EXCEPT ![t] = Moved(@, x, y)]
  /\ UNCHANGED <<head, in_use, alive, th, up, thrown>>

(* PoolPtr::operator=(PoolPtr&&); a self-assignment does nothing.          *)
MoveAssign(t, x, y) ==
  /\ Idle(t) /\ x # y
  /\ \/ /\ own[t][x] = Null
        /\ own' = [own EXCEPT ![t] = Moved(@, x, y)]
        /\ UNCHANGED th
     \/ /\ own[t][x] # Null
        /\ BeginDeallocate(t, x, y, own[t][x])
        /\ UNCHANGED own
  /\ UNCHANGED <<head, in_use, alive, up, thrown>>

(* PoolPtr(PoolPtr&&): thread u makes its fresh variable y from x of t.    *)
MoveConstruct(t, x, u, y) ==
  /\ Idle(t) /\ Idle(u) /\ t # u
  /\ own[t][x] # Null /\ own[u][y] = Null
  /\ own' = [own EXCEPT ![u][y] = own[t][x], ![t][x] = Null]
  /\ UNCHANGED <<head, in_use, alive, th, up, thrown>>

(* PoolPtr::release into the thread's T*.                                  *)
release(t, x) ==
  /\ Idle(t) /\ own[t][x] # Null /\ own[t][Raw] = Null
  /\ own' = [own EXCEPT ![t] = Moved(@, Raw, x)]
  /\ UNCHANGED <<head, in_use, alive, th, up, thrown>>

(* ~LockFreePool, when every call and every PoolPtr is gone: the objects   *)
(* of the slots in use are destroyed.                                      *)
DestroyPool ==
  /\ \A t \in Threads : Idle(t) /\ \A x \in Handles : own[t][x] = Null
  /\ alive' = [i \in Slots |-> alive[i] /\ ~in_use[i]]
  /\ up' = FALSE
  /\ UNCHANGED <<head, in_use, own, th, thrown>>

Step(t) ==
  \/ \E p \in Places : allocate(t, p) \/ deallocate(t, p)
  \/ TryClaim(t) \/ Construct(t) \/ ConstructThrows(t)
  \/ Destroy(t) \/ MarkFree(t)
  \/ \E x, y \in Handles : MoveAssign(t, x, y)
  \/ \E x, y \in Handles, u \in Threads : MoveConstruct(t, x, u, y)
  \/ \E x \in Handles : release(t, x)

Next == up /\ ((\E t \in Threads : Step(t)) \/ DestroyPool)

Spec == Init /\ [][Next]_vars

-----------------------------------------------------------------------------
(* Properties.                                                             *)

(* Every variable has its type.                                            *)
TypeOK ==
  /\ head \in Slots
  /\ in_use \in [Slots -> BOOLEAN] /\ alive \in [Slots -> BOOLEAN]
  /\ own \in [Threads -> [Places -> Slots \union {Null}]]
  /\ th \in [Threads -> [pc : {"idle", "claim", "null", "construct", "destroy", "free"},
                         place : Places \union {Null}, from : Places \union {Null},
                         slot : Slots \union {Null}, tries : 0 .. PoolSize]]
  /\ up \in BOOLEAN
  /\ thrown \subseteq Slots

(* No two pointer variables, of one thread or of two, ever point to the    *)
(* same slot: allocate, move and deallocate keep ownership unique.         *)
Exclusive ==
  \A t, u \in Threads, p, q \in Places :
    own[t][p] = own[u][q] /\ own[t][p] # Null => t = u /\ p = q

(* Between calls a variable points to a constructed object, one that no    *)
(* other thread destroys under it.                                         *)
PointsToObject ==
  up => \A t \in Threads, p \in Places :
    own[t][p] # Null /\ ~(th[t].pc \in {"construct", "free"} /\ th[t].place = p)
      => alive[own[t][p]]

(* A slot is marked in use exactly as long as some variable points to it,  *)
(* unless a constructor threw in it, and every object has an owner: the    *)
(* slots are neither lost nor given away while they are used, and the      *)
(* destructor of the pool, which goes by the marks, meets every object.    *)
SlotsAccounted ==
  up => \A i \in Slots :
    LET owned == \E t \in Threads, p \in Places : own[t][p] = i
    IN  /\ in_use[i] <=> (owned \/ i \in thrown)
        /\ alive[i] => owned

(* An object is never constructed over a live one and never destroyed      *)
(* twice.                                                                  *)
ObjectsOnce ==
  \A t \in Threads : /\ th[t].pc = "construct" => ~alive[th[t].slot]
                     /\ th[t].pc = "destroy" => alive[th[t].slot]

(* The objects live exactly as long as they are owned: the slot a variable *)
(* points to holds a constructed object between calls, nothing is          *)
(* constructed over it, and it is destroyed once, by its owner, before the *)
(* slot can be claimed again.                                              *)
ObjectsSound == PointsToObject /\ ObjectsOnce
=============================================================================
