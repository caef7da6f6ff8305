------------------------- MODULE LockFreePoolProofs -------------------------
(***************************************************************************)
(* Proofs about LockFreePool, for any number of threads, PoolPtr variables *)
(* and slots, and with constructors that may throw.                        *)
(***************************************************************************)
EXTENDS LockFreePool, TLAPS

(* The inductive invariant.  Besides unique ownership: a slot that a       *)
(* variable points to is marked in use, the storage of a slot that is not  *)
(* in use holds no object, and a thread inside a call owns the slot the    *)
(* call works on.                                                          *)

OwnedInUse ==
  \A t \in Threads, p \in Places : own[t][p] # Null => in_use[own[t][p]]

FreeHasNoObject == \A i \in Slots : alive[i] => in_use[i]

(* Of the locals x of a thread whose variables are o.                      *)
CallOwns(x, o) ==
  /\ x.pc = "claim" => x.place \in Places /\ x.slot \in Slots /\ o[x.place] = Null
                   /\ x.tries < PoolSize
  /\ x.pc \in {"construct", "destroy", "free"} =>
       x.place \in Places /\ x.slot \in Slots /\ o[x.place] = x.slot
  /\ x.pc \in {"destroy", "free"} => x.from # x.place

CallObject(x, a) ==
  /\ x.pc \in {"construct", "free"} => ~a[x.slot]
  /\ x.pc = "destroy" => a[x.slot]

Calls == \A t \in Threads : CallOwns(th[t], own[t]) /\ CallObject(th[t], alive)

IInv ==
  /\ TypeOK /\ Exclusive /\ OwnedInUse /\ FreeHasNoObject /\ Calls /\ PointsToObject

CallType == [pc : {"idle", "claim", "null", "construct", "destroy", "free"},
             place : Places \union {Null}, from : Places \union {Null},
             slot : Slots \union {Null}, tries : 0 .. PoolSize]

(* The next slot of a probe is a slot.                                     *)
LEMMA NextSlot == \A i \in Slots : (i + 1) % PoolSize \in Slots
BY PoolAssumption DEF Slots

(* The constructor of the pool establishes the invariant.                  *)
LEMMA InitInv == Init => IInv
<1> SUFFICES ASSUME Init PROVE IInv
  OBVIOUS
<1>1. NoCall \in CallType
  BY PoolAssumption DEF NoCall, CallType
<1>2. TypeOK
  BY <1>1, PoolAssumption DEF Init, TypeOK, Slots, CallType
<1>3. Calls
  BY DEF Init, Calls, CallOwns, CallObject, NoCall
<1> QED BY <1>2, <1>3 DEF Init, IInv, Exclusive, OwnedInUse, FreeHasNoObject, PointsToObject

(* The steps that only change who points where: y of thread u takes over   *)
(* what x of thread t points to.                                           *)
TakesOver(t, x, u, y) ==
  /\ Idle(t) /\ Idle(u) /\ (t # u \/ x # y) /\ own[u][y] = Null
  /\ own' \in [Threads -> [Places -> Slots \union {Null}]]
  /\ own'[u][y] = own[t][x] /\ own'[t][x] = Null
  /\ \A v \in Threads, q \in Places :
       (v # t \/ q # x) /\ (v # u \/ q # y) => own'[v][q] = own[v][q]
  /\ UNCHANGED <<head, in_use, alive, th, up, thrown>>

(* Ownership stays unique when it is passed on.                            *)
LEMMA Takeover ==
  ASSUME IInv, NEW t \in Threads, NEW u \in Threads, NEW x \in Places, NEW y \in Places,
         TakesOver(t, x, u, y)
  PROVE  IInv'
<1> USE DEF TakesOver
<1>1. TypeOK'
  BY DEF IInv, TypeOK
<1>2. Exclusive'
  BY DEF IInv, Exclusive
<1>3. OwnedInUse' /\ FreeHasNoObject'
  BY DEF IInv, OwnedInUse, FreeHasNoObject
<1>4. Calls'
  <2> SUFFICES ASSUME NEW v \in Threads
               PROVE  CallOwns(th[v], own'[v]) /\ CallObject(th[v], alive)
    BY DEF Calls
  <2>1. CallOwns(th[v], own[v]) /\ CallObject(th[v], alive)
    BY DEF IInv, Calls
  <2>2. CASE v = t \/ v = u
    BY <2>1, <2>2 DEF Idle, CallOwns
  <2>3. CASE v # t /\ v # u
    BY <2>1, <2>3 DEF CallOwns
  <2> QED BY <2>1, <2>2, <2>3
<1>5. PointsToObject'
  BY DEF IInv, PointsToObject, Idle
<1> QED BY <1>1, <1>2, <1>3, <1>4, <1>5 DEF IInv

(* The calls of the other threads are not disturbed by what thread t does  *)
(* to its own variables and to the storage of a slot it owns, or owns      *)
(* after the step.                                                         *)
LEMMA OtherCalls ==
  ASSUME IInv, NEW t \in Threads, NEW i \in Slots, NEW u \in Threads, u # t,
         th'[u] = th[u], own'[u] = own[u],
         \A j \in Slots \ {i} : alive'[j] = alive[j],
         \A q \in Places : own[u][q] # i
  PROVE  CallOwns(th'[u], own'[u]) /\ CallObject(th'[u], alive')
<1>1. CallOwns(th[u], own[u]) /\ CallObject(th[u], alive)
  BY DEF IInv, Calls
<1>2. th[u].pc \in {"construct", "destroy", "free"} => th[u].slot \in Slots \ {i}
  BY <1>1 DEF CallOwns
<1> QED BY <1>1, <1>2 DEF CallOwns, CallObject

(* allocate begins.                                                        *)
LEMMA AllocateStep ==
  ASSUME IInv, NEW t \in Threads, NEW p \in Places, allocate(t, p)
  PROVE  IInv'
<1> DEFINE new == [pc |-> "claim", place |-> p, from |-> Null, slot |-> head, tries |-> 0]
<1>0. TypeOK /\ head \in Slots /\ th \in [Threads -> CallType]
  BY DEF IInv, TypeOK, CallType
<1>1. /\ th' = [th EXCEPT ![t] = new] /\ head' = (head + 1) % PoolSize
      /\ Idle(t) /\ own[t][p] = Null
      /\ UNCHANGED <<in_use, alive, own, up, thrown>>
  BY DEF allocate
<1>2. new \in CallType
  BY <1>0, PoolAssumption DEF CallType
<1>3. CallOwns(new, own[t]) /\ CallObject(new, alive)
  BY <1>0, <1>1, PoolAssumption DEF CallOwns, CallObject
<1>4. new.pc = "claim"
  OBVIOUS
<1> HIDE DEF new
<1>5. TypeOK'
  BY <1>0, <1>1, <1>2, NextSlot DEF TypeOK, CallType
<1>6. Calls'
  BY <1>0, <1>1, <1>3 DEF IInv, Calls
<1>7. PointsToObject'
  BY <1>0, <1>1, <1>4 DEF IInv, PointsToObject, Idle
<1>8. Exclusive' /\ OwnedInUse' /\ FreeHasNoObject'
  BY <1>1 DEF IInv, Exclusive, OwnedInUse, FreeHasNoObject
<1> QED BY <1>5, <1>6, <1>7, <1>8 DEF IInv

(* A compare-and-exchange, successful or not.                              *)
LEMMA ClaimStep ==
  ASSUME IInv, NEW t \in Threads, TryClaim(t)
  PROVE  IInv'
<1> DEFINE i == th[t].slot
           p == th[t].place
<1>0. /\ TypeOK /\ th \in [Threads -> CallType] /\ th[t] \in CallType
      /\ own \in [Threads -> [Places -> Slots \union {Null}]]
      /\ in_use \in [Slots -> BOOLEAN] /\ alive \in [Slots -> BOOLEAN]
  BY DEF IInv, TypeOK, CallType
<1>1. th[t].pc = "claim" /\ p \in Places /\ i \in Slots /\ own[t][p] = Null
  BY DEF IInv, Calls, CallOwns, TryClaim
<1>2. CASE ~in_use[i]
  <2>1. /\ in_use' = [in_use EXCEPT ![i] = TRUE] /\ own' = [own EXCEPT ![t][p] = i]
        /\ th' = [th EXCEPT ![t].pc = "construct"]
        /\ UNCHANGED <<head, alive, up, thrown>>
    BY <1>2 DEF TryClaim
  <2>2. /\ th'[t] \in CallType /\ th'[t].pc = "construct" /\ th'[t].place = p /\ th'[t].slot = i
        /\ th'[t].from = th[t].from
        /\ \A u \in Threads \ {t} : th'[u] = th[u] /\ own'[u] = own[u]
        /\ own'[t][p] = i /\ \A q \in Places \ {p} : own'[t][q] = own[t][q]
    BY <1>0, <1>1, <2>1 DEF CallType
  <2>3. ~alive[i] /\ \A u \in Threads, q \in Places : own[u][q] # i
    BY <1>0, <1>1, <1>2, PoolAssumption DEF IInv, FreeHasNoObject, OwnedInUse
  <2>4. TypeOK'
    <3>1. own' \in [Threads -> [Places -> Slots \union {Null}]] /\ th' \in [Threads -> CallType]
      BY <1>0, <1>1, <2>1, <2>2
    <3> QED BY <1>0, <2>1, <3>1 DEF TypeOK, CallType
  <2>5. Exclusive'
    BY <1>1, <2>2, <2>3 DEF IInv, Exclusive
  <2>6. OwnedInUse' /\ FreeHasNoObject'
    BY <1>0, <1>1, <2>1, <2>2, PoolAssumption DEF IInv, OwnedInUse, FreeHasNoObject
  <2>7. Calls'
    <3>1. CallOwns(th'[t], own'[t]) /\ CallObject(th'[t], alive')
      BY <1>1, <2>1, <2>2, <2>3 DEF CallOwns, CallObject
    <3>2. \A u \in Threads \ {t} : CallOwns(th'[u], own'[u]) /\ CallObject(th'[u], alive')
      BY <1>1, <2>1, <2>2, <2>3, OtherCalls
    <3> QED BY <3>1, <3>2 DEF Calls
  <2>8. PointsToObject'
    BY <1>1, <2>1, <2>2 DEF IInv, PointsToObject
  <2> QED BY <2>4, <2>5, <2>6, <2>7, <2>8 DEF IInv
<1>3. CASE in_use[i]
  <2> DEFINE new == [th[t] EXCEPT !.slot = (i + 1) % PoolSize, !.tries = th[t].tries + 1,
                                  !.pc = IF th[t].tries + 1 = PoolSize THEN "null" ELSE "claim"]
  <2>1. th' = [th EXCEPT ![t] = new] /\ UNCHANGED <<head, in_use, alive, own, up, thrown>>
    BY <1>0, <1>3 DEF TryClaim, CallType
  <2>2. th[t].tries \in 0 .. PoolSize /\ th[t].tries < PoolSize
    BY <1>0, <1>1 DEF IInv, Calls, CallOwns, CallType
  <2>3. /\ new \in CallType /\ new.pc \in {"null", "claim"} /\ new.place = p
        /\ new.slot \in Slots
    <3>1. (i + 1) % PoolSize \in Slots
      BY <1>1, NextSlot
    <3>2. th[t].tries + 1 \in 0 .. PoolSize
      BY <2>2, PoolAssumption
    <3> QED BY <1>0, <3>1, <3>2 DEF CallType
  <2>4. new.pc = "claim" => new.tries < PoolSize
    BY <1>0, <2>2, PoolAssumption DEF CallType
  <2> HIDE DEF new
  <2>5. TypeOK'
    BY <1>0, <2>1, <2>3 DEF TypeOK, CallType
  <2>6. Calls'
    <3>1. CallOwns(new, own[t]) /\ CallObject(new, alive)
      BY <1>1, <2>3, <2>4 DEF CallOwns, CallObject
    <3> QED BY <1>0, <2>1, <3>1 DEF IInv, Calls
  <2>7. PointsToObject'
    BY <1>0, <1>1, <2>1, <2>3 DEF IInv, PointsToObject
  <2>8. Exclusive' /\ OwnedInUse' /\ FreeHasNoObject'
    BY <2>1 DEF IInv, Exclusive, OwnedInUse, FreeHasNoObject
  <2> QED BY <2>5, <2>6, <2>7, <2>8 DEF IInv
<1> QED BY <1>2, <1>3

(* Construct and ConstructThrows end a call of allocate.                   *)
LEMMA ConstructStep ==
  ASSUME IInv, NEW t \in Threads, Construct(t) \/ ConstructThrows(t)
  PROVE  IInv'
<1> DEFINE i == th[t].slot
           p == th[t].place
<1>0. /\ TypeOK /\ th \in [Threads -> CallType] /\ NoCall \in CallType
      /\ own \in [Threads -> [Places -> Slots \union {Null}]]
      /\ in_use \in [Slots -> BOOLEAN] /\ alive \in [Slots -> BOOLEAN]
  BY PoolAssumption DEF IInv, TypeOK, CallType, NoCall
<1>1. th[t].pc = "construct" /\ p \in Places /\ i \in Slots /\ own[t][p] = i
  BY DEF IInv, Calls, CallOwns, Construct, ConstructThrows
<1>2. /\ \A u \in Threads, q \in Places : own[u][q] = i => u = t /\ q = p
      /\ in_use[i]
  BY <1>0, <1>1, PoolAssumption DEF IInv, Exclusive, OwnedInUse
<1>3. /\ th' = [th EXCEPT ![t] = NoCall] /\ UNCHANGED <<head, in_use, up>>
      /\ thrown' \subseteq Slots /\ th'[t] = NoCall /\ NoCall.pc = "idle"
      /\ \A u \in Threads \ {t} : th'[u] = th[u]
  BY <1>0, <1>1 DEF Construct, ConstructThrows, NoCall, TypeOK
<1>4. \A o, a : CallOwns(NoCall, o) /\ CallObject(NoCall, a)
  BY <1>3 DEF CallOwns, CallObject
<1>5. CASE Construct(t)
  <2>1. alive' = [alive EXCEPT ![i] = TRUE] /\ own' = own
    BY <1>5 DEF Construct
  <2>2. TypeOK'
    BY <1>0, <1>3, <2>1 DEF TypeOK, CallType
  <2>3. Exclusive' /\ OwnedInUse' /\ FreeHasNoObject'
    BY <1>0, <1>2, <1>3, <2>1 DEF IInv, Exclusive, OwnedInUse, FreeHasNoObject
  <2>4. Calls'
    <3>1. \A u \in Threads \ {t} : CallOwns(th'[u], own'[u]) /\ CallObject(th'[u], alive')
      <4> TAKE u \in Threads \ {t}
      <4>1. th'[u] = th[u] /\ own'[u] = own[u] /\ \A j \in Slots \ {i} : alive'[j] = alive[j]
        BY <1>0, <1>3, <2>1
      <4>2. \A q \in Places : own[u][q] # i
        BY <1>2
      <4> QED BY <1>1, <4>1, <4>2, OtherCalls
    <3> QED BY <1>3, <1>4, <3>1 DEF Calls
  <2>5. PointsToObject'
    BY <1>0, <1>1, <1>2, <1>3, <2>1 DEF IInv, PointsToObject
  <2> QED BY <2>2, <2>3, <2>4, <2>5 DEF IInv
<1>6. CASE ConstructThrows(t)
  <2>1. /\ own' = [own EXCEPT ![t][p] = Null] /\ alive' = alive
    BY <1>6 DEF ConstructThrows
  <2>2. /\ own' \in [Threads -> [Places -> Slots \union {Null}]]
        /\ own'[t][p] = Null /\ \A q \in Places \ {p} : own'[t][q] = own[t][q]
        /\ \A u \in Threads \ {t} : own'[u] = own[u]
    BY <1>0, <1>1, <2>1
  <2>3. TypeOK'
    BY <1>0, <1>3, <2>1, <2>2 DEF TypeOK, CallType
  <2>4. Exclusive' /\ OwnedInUse' /\ FreeHasNoObject'
    BY <1>0, <1>3, <2>1, <2>2 DEF IInv, Exclusive, OwnedInUse, FreeHasNoObject
  <2>5. Calls'
    <3>1. \A u \in Threads : CallOwns(th[u], own[u]) /\ CallObject(th[u], alive)
      BY DEF IInv, Calls
    <3>2. \A u \in Threads \ {t} : CallOwns(th'[u], own'[u]) /\ CallObject(th'[u], alive')
      BY <1>3, <2>1, <2>2, <3>1
    <3> QED BY <1>3, <1>4, <3>2 DEF Calls
  <2>6. PointsToObject'
    BY <1>0, <1>1, <1>3, <2>1, <2>2 DEF IInv, PointsToObject
  <2> QED BY <2>3, <2>4, <2>5, <2>6 DEF IInv
<1> QED BY <1>5, <1>6

(* deallocate, or a move assignment to a PoolPtr that owns an object.      *)
LEMMA DeallocateStep ==
  ASSUME IInv, NEW t \in Threads, NEW p \in Places, NEW f \in Places \union {Null}, f # p,
         Idle(t), own[t][p] # Null, BeginDeallocate(t, p, f, own[t][p]), up,
         UNCHANGED <<head, in_use, alive, own, up, thrown>>
  PROVE  IInv'
<1> DEFINE new == [pc |-> "destroy", place |-> p, from |-> f, slot |-> own[t][p], tries |-> 0]
<1>0. /\ TypeOK /\ th \in [Threads -> CallType]
      /\ own[t][p] \in Slots
  BY DEF IInv, TypeOK, CallType
<1>1. th' = [th EXCEPT ![t] = new]
  BY DEF BeginDeallocate
<1>2. new \in CallType /\ new.pc = "destroy" /\ new.place = p /\ new.slot = own[t][p] /\ new.from = f
  BY <1>0, PoolAssumption DEF CallType
<1>3. alive[own[t][p]]
  BY DEF IInv, PointsToObject, Idle
<1> HIDE DEF new
<1>4. TypeOK'
  BY <1>0, <1>1, <1>2 DEF TypeOK, CallType
<1>5. Calls'
  <2>1. CallOwns(new, own[t]) /\ CallObject(new, alive)
    BY <1>0, <1>2, <1>3 DEF CallOwns, CallObject
  <2> QED BY <1>0, <1>1, <2>1 DEF IInv, Calls
<1>6. Exclusive' /\ OwnedInUse' /\ FreeHasNoObject'
  BY DEF IInv, Exclusive, OwnedInUse, FreeHasNoObject
<1>7. PointsToObject'
  BY <1>0, <1>1, <1>2 DEF IInv, PointsToObject, Idle
<1> QED BY <1>4, <1>5, <1>6, <1>7 DEF IInv

(* The destructor call of deallocate.                                      *)
LEMMA DestroyStep ==
  ASSUME IInv, NEW t \in Threads, Destroy(t)
  PROVE  IInv'
<1> DEFINE i == th[t].slot
           p == th[t].place
           new == [th[t] EXCEPT !.pc = "free"]
<1>0. /\ TypeOK /\ th \in [Threads -> CallType] /\ th[t] \in CallType
      /\ own \in [Threads -> [Places -> Slots \union {Null}]]
      /\ in_use \in [Slots -> BOOLEAN] /\ alive \in [Slots -> BOOLEAN]
  BY DEF IInv, TypeOK, CallType
<1>1. th[t].pc = "destroy" /\ p \in Places /\ i \in Slots /\ own[t][p] = i /\ th[t].from # p
  BY DEF IInv, Calls, CallOwns, Destroy
<1>2. \A u \in Threads, q \in Places : own[u][q] = i => u = t /\ q = p
  BY <1>0, <1>1, PoolAssumption DEF IInv, Exclusive
<1>3. /\ th' = [th EXCEPT ![t] = new] /\ alive' = [alive EXCEPT ![i] = FALSE]
      /\ UNCHANGED <<head, in_use, own, up, thrown>>
  BY <1>0 DEF Destroy
<1>4. new \in CallType /\ new.pc = "free" /\ new.place = p /\ new.slot = i /\ new.from = th[t].from
  BY <1>0 DEF CallType
<1> HIDE DEF new
<1>5. TypeOK'
  BY <1>0, <1>3, <1>4 DEF TypeOK, CallType
<1>6. Exclusive' /\ OwnedInUse' /\ FreeHasNoObject'
  BY <1>0, <1>3 DEF IInv, Exclusive, OwnedInUse, FreeHasNoObject
<1>7. Calls'
  <2>1. CallOwns(new, own[t]) /\ CallObject(new, alive')
    BY <1>0, <1>1, <1>3, <1>4 DEF CallOwns, CallObject
  <2>2. \A u \in Threads \ {t} : CallOwns(th'[u], own'[u]) /\ CallObject(th'[u], alive')
    <3> TAKE u \in Threads \ {t}
    <3>1. th'[u] = th[u] /\ own'[u] = own[u] /\ \A j \in Slots \ {i} : alive'[j] = alive[j]
      BY <1>0, <1>3
    <3>2. \A q \in Places : own[u][q] # i
      BY <1>2
    <3> QED BY <1>1, <3>1, <3>2, OtherCalls
  <2> QED BY <1>0, <1>3, <2>1, <2>2 DEF Calls
<1>8. PointsToObject'
  BY <1>0, <1>1, <1>2, <1>3, <1>4 DEF IInv, PointsToObject
<1> QED BY <1>5, <1>6, <1>7, <1>8 DEF IInv

(* The end of deallocate: the slot is free and its variable is gone, or    *)
(* has taken over the object of another.                                   *)
LEMMA FreeStep ==
  ASSUME IInv, NEW t \in Threads, MarkFree(t)
  PROVE  IInv'
<1> DEFINE i == th[t].slot
           p == th[t].place
           f == th[t].from
<1>0. /\ TypeOK /\ th \in [Threads -> CallType] /\ th[t] \in CallType /\ NoCall \in CallType
      /\ own \in [Threads -> [Places -> Slots \union {Null}]]
      /\ in_use \in [Slots -> BOOLEAN] /\ alive \in [Slots -> BOOLEAN]
      /\ f \in Places \union {Null}
  BY PoolAssumption DEF IInv, TypeOK, CallType, NoCall
<1>1. /\ th[t].pc = "free" /\ p \in Places /\ i \in Slots /\ own[t][p] = i /\ f # p
      /\ ~alive[i] /\ p # Null
  BY PoolAssumption DEF IInv, Calls, CallOwns, CallObject, MarkFree
<1>2. \A u \in Threads, q \in Places : own[u][q] = i => u = t /\ q = p
  BY <1>0, <1>1, PoolAssumption DEF IInv, Exclusive
<1>3. /\ th' = [th EXCEPT ![t] = NoCall] /\ in_use' = [in_use EXCEPT ![i] = FALSE]
      /\ own' = [own EXCEPT ![t] = IF f = Null THEN [own[t] EXCEPT ![p] = Null]
                                   ELSE Moved(own[t], p, f)]
      /\ UNCHANGED <<head, alive, up, thrown>>
  BY <1>0, <1>1 DEF MarkFree, TypeOK
<1>4. /\ own' \in [Threads -> [Places -> Slots \union {Null}]]
      /\ \A u \in Threads \ {t} : own'[u] = own[u]
      /\ own'[t][p] = (IF f = Null THEN Null ELSE own[t][f])
      /\ f # Null => own'[t][f] = Null
      /\ \A q \in Places \ {p, f} : own'[t][q] = own[t][q]
  <2>1. CASE f = Null
    BY <1>0, <1>1, <1>3, <2>1
  <2>2. CASE f # Null
    <3>1. f \in Places
      BY <1>0, <2>2
    <3>2. own' = [own EXCEPT ![t] = [own[t] EXCEPT ![p] = own[t][f], ![f] = Null]]
      BY <1>3, <2>2 DEF Moved
    <3> QED BY <1>0, <1>1, <2>2, <3>1, <3>2
  <2> QED BY <2>1, <2>2
<1>5. \A u \in Threads, q \in Places : own'[u][q] # Null =>
         \/ u = t /\ q = p /\ f \in Places /\ own'[u][q] = own[t][f]
         \/ ~(u = t /\ q = p) /\ ~(u = t /\ q = f) /\ own'[u][q] = own[u][q]
  <2> TAKE u \in Threads, q \in Places
  <2>1. CASE u # t
    BY <1>4, <2>1
  <2>2. CASE u = t /\ q = p
    BY <1>0, <1>4, <2>2
  <2>3. CASE u = t /\ q # p /\ q = f
    BY <1>4, <2>3, PoolAssumption
  <2>4. CASE u = t /\ q # p /\ q # f
    BY <1>4, <2>4
  <2> QED BY <2>1, <2>2, <2>3, <2>4
<1>6. /\ th'[t] = NoCall /\ NoCall.pc = "idle" /\ \A u \in Threads \ {t} : th'[u] = th[u]
      /\ \A o, a : CallOwns(NoCall, o) /\ CallObject(NoCall, a)
  BY <1>0, <1>3 DEF NoCall, CallOwns, CallObject
<1>7. TypeOK'
  BY <1>0, <1>3, <1>4 DEF TypeOK, CallType
<1>8. Exclusive'
  <2> SUFFICES ASSUME NEW u \in Threads, NEW v \in Threads, NEW q \in Places, NEW r \in Places,
                      own'[u][q] = own'[v][r], own'[u][q] # Null
               PROVE  u = v /\ q = r
    BY DEF Exclusive
  <2>1. \A v1, v2 \in Threads, q1, q2 \in Places :
          own[v1][q1] = own[v2][q2] /\ own[v1][q1] # Null => v1 = v2 /\ q1 = q2
    BY DEF IInv, Exclusive
  <2> QED BY <1>5, <2>1
<1>9. OwnedInUse' /\ FreeHasNoObject'
  <2>1. \A u \in Threads, q \in Places :
          own'[u][q] # Null => in_use[own'[u][q]] /\ own'[u][q] # i /\ own'[u][q] \in Slots
    <3> TAKE u \in Threads, q \in Places
    <3>1. own'[u][q] \in Slots \union {Null}
      BY <1>4
    <3>2. \A v1 \in Threads, q1 \in Places : own[v1][q1] # Null => in_use[own[v1][q1]]
      BY DEF IInv, OwnedInUse
    <3> QED BY <1>1, <1>2, <1>5, <3>1, <3>2
  <2>2. OwnedInUse'
    BY <1>0, <1>3, <2>1 DEF OwnedInUse
  <2>3. FreeHasNoObject'
    BY <1>0, <1>1, <1>3 DEF IInv, FreeHasNoObject
  <2> QED BY <2>2, <2>3
<1>10. Calls'
  <2> SUFFICES ASSUME NEW u \in Threads
               PROVE  CallOwns(th'[u], own'[u]) /\ CallObject(th'[u], alive')
    BY DEF Calls
  <2>1. CASE u = t
    BY <1>6, <2>1
  <2>2. CASE u # t
    <3>1. th'[u] = th[u] /\ own'[u] = own[u] /\ alive' = alive
      BY <1>3, <1>4, <1>6, <2>2
    <3> QED BY <3>1 DEF IInv, Calls
  <2> QED BY <2>1, <2>2
<1>11. PointsToObject'
  <2> SUFFICES ASSUME up, NEW u \in Threads, NEW q \in Places, own'[u][q] # Null,
                      ~(th'[u].pc \in {"construct", "free"} /\ th'[u].place = q)
               PROVE  alive[own'[u][q]]
    BY <1>3 DEF PointsToObject
  <2>1. \A v \in Threads, r \in Places :
          own[v][r] # Null /\ ~(th[v].pc \in {"construct", "free"} /\ th[v].place = r)
            => alive[own[v][r]]
    BY DEF IInv, PointsToObject
  <2> QED BY <1>1, <1>5, <1>6, <2>1
<1> QED BY <1>7, <1>8, <1>9, <1>10, <1>11 DEF IInv

(* PoolPtr's move assignment to an empty variable, its move constructor    *)
(* and release pass an object on.                                          *)
LEMMA AssignTakesOver ==
  ASSUME IInv, NEW t \in Threads, NEW x \in Handles, NEW y \in Handles, MoveAssign(t, x, y),
         own[t][x] = Null
  PROVE  TakesOver(t, y, t, x)
<1>0. own \in [Threads -> [Places -> Slots \union {Null}]] /\ Handles \subseteq Places
  BY DEF IInv, TypeOK, Places
<1>1. /\ own' = [own EXCEPT ![t] = [own[t] EXCEPT ![x] = own[t][y], ![y] = Null]]
      /\ UNCHANGED <<head, in_use, alive, th, up, thrown>> /\ Idle(t) /\ x # y
  BY DEF MoveAssign, Moved
<1>2. /\ own' \in [Threads -> [Places -> Slots \union {Null}]]
      /\ own'[t][x] = own[t][y] /\ own'[t][y] = Null
      /\ \A v \in Threads, q \in Places :
           (v # t \/ q # y) /\ (v # t \/ q # x) => own'[v][q] = own[v][q]
  BY <1>0, <1>1
<1> QED BY <1>1, <1>2 DEF TakesOver

LEMMA ConstructTakesOver ==
  ASSUME IInv, NEW t \in Threads, NEW u \in Threads, NEW x \in Handles, NEW y \in Handles,
         MoveConstruct(t, x, u, y)
  PROVE  TakesOver(t, x, u, y)
<1>0. own \in [Threads -> [Places -> Slots \union {Null}]] /\ Handles \subseteq Places
  BY DEF IInv, TypeOK, Places
<1>1. /\ own' = [own EXCEPT ![u][y] = own[t][x], ![t][x] = Null]
      /\ UNCHANGED <<head, in_use, alive, th, up, thrown>>
      /\ Idle(t) /\ Idle(u) /\ t # u /\ own[u][y] = Null
  BY DEF MoveConstruct
<1>2. own' = [own EXCEPT ![u] = [own[u] EXCEPT ![y] = own[t][x]],
                         ![t] = [own[t] EXCEPT ![x] = Null]]
  BY <1>0, <1>1
<1>3. own[u] \in [Places -> Slots \union {Null}] /\ own[t] \in [Places -> Slots \union {Null}]
      /\ x \in Places /\ y \in Places
  BY <1>0
<1>4. /\ own'[u] = [own[u] EXCEPT ![y] = own[t][x]] /\ own'[t] = [own[t] EXCEPT ![x] = Null]
      /\ \A v \in Threads : v # t /\ v # u => own'[v] = own[v]
  BY <1>0, <1>1, <1>2
<1>5. own' \in [Threads -> [Places -> Slots \union {Null}]]
  BY <1>0, <1>2, <1>3
<1>6. /\ own'[u][y] = own[t][x] /\ own'[t][x] = Null
      /\ \A v \in Threads, q \in Places :
           (v # t \/ q # x) /\ (v # u \/ q # y) => own'[v][q] = own[v][q]
  <2>1. t # u
    BY <1>1
  <2>2. own'[u][y] = own[t][x] /\ \A q \in Places : q # y => own'[u][q] = own[u][q]
    BY <1>3, <1>4
  <2>3. own'[t][x] = Null /\ \A q \in Places : q # x => own'[t][q] = own[t][q]
    BY <1>3, <1>4
  <2> QED BY <1>4, <2>1, <2>2, <2>3
<1> QED BY <1>1, <1>5, <1>6 DEF TakesOver

LEMMA ReleaseTakesOver ==
  ASSUME IInv, NEW t \in Threads, NEW x \in Handles, release(t, x)
  PROVE  TakesOver(t, x, t, Raw)
<1>0. own \in [Threads -> [Places -> Slots \union {Null}]] /\ Handles \subseteq Places /\ Raw \in Places
  BY DEF IInv, TypeOK, Places
<1>1. /\ own' = [own EXCEPT ![t] = [own[t] EXCEPT ![Raw] = own[t][x], ![x] = Null]]
      /\ UNCHANGED <<head, in_use, alive, th, up, thrown>>
      /\ Idle(t) /\ own[t][Raw] = Null /\ x # Raw
  BY PoolAssumption DEF release, Moved
<1>2. /\ own' \in [Threads -> [Places -> Slots \union {Null}]]
      /\ own'[t][Raw] = own[t][x] /\ own'[t][x] = Null
      /\ \A v \in Threads, q \in Places :
           (v # t \/ q # x) /\ (v # t \/ q # Raw) => own'[v][q] = own[v][q]
  BY <1>0, <1>1
<1> QED BY <1>1, <1>2 DEF TakesOver

(* The moves between variables.                                            *)
LEMMA MoveStep ==
  ASSUME IInv, up, NEW t \in Threads,
         \/ \E x, y \in Handles : MoveAssign(t, x, y)
         \/ \E x, y \in Handles, u \in Threads : MoveConstruct(t, x, u, y)
         \/ \E x \in Handles : release(t, x)
  PROVE  IInv'
<1>1. ASSUME NEW x \in Handles, NEW y \in Handles, MoveAssign(t, x, y) PROVE IInv'
  <2>1. CASE own[t][x] = Null
    BY <1>1, <2>1, AssignTakesOver, Takeover DEF Places
  <2>2. CASE own[t][x] # Null
    <3>1. x \in Places /\ y \in Places \union {Null} /\ y # x
      BY <1>1 DEF MoveAssign, Places
    <3>2. /\ Idle(t) /\ BeginDeallocate(t, x, y, own[t][x])
          /\ UNCHANGED <<head, in_use, alive, own, up, thrown>>
      BY <1>1, <2>2 DEF MoveAssign
    <3> QED BY <2>2, <3>1, <3>2, DeallocateStep
  <2> QED BY <2>1, <2>2
<1>2. ASSUME NEW x \in Handles, NEW y \in Handles, NEW u \in Threads, MoveConstruct(t, x, u, y)
      PROVE  IInv'
  <2>1. TakesOver(t, x, u, y) /\ x \in Places /\ y \in Places
    BY <1>2, ConstructTakesOver DEF Places
  <2> QED BY <2>1, Takeover
<1>3. ASSUME NEW x \in Handles, release(t, x) PROVE IInv'
  <2>1. TakesOver(t, x, t, Raw) /\ x \in Places /\ Raw \in Places
    BY <1>3, ReleaseTakesOver DEF Places
  <2> QED BY <2>1, Takeover
<1> QED BY <1>1, <1>2, <1>3

(* ~LockFreePool.                                                          *)
LEMMA DestructorStep ==
  ASSUME IInv, DestroyPool
  PROVE  IInv'
<1>1. /\ alive' = [i \in Slots |-> alive[i] /\ ~in_use[i]] /\ up' = FALSE
      /\ UNCHANGED <<head, in_use, own, th, thrown>>
      /\ \A t \in Threads : Idle(t)
  BY DEF DestroyPool
<1>2. TypeOK'
  <2>1. alive' \in [Slots -> BOOLEAN]
    BY <1>1 DEF IInv, TypeOK
  <2> QED BY <1>1, <2>1 DEF IInv, TypeOK
<1>3. Exclusive' /\ OwnedInUse' /\ FreeHasNoObject'
  <2>1. \A i \in Slots : ~alive'[i]
    BY <1>1 DEF IInv, FreeHasNoObject
  <2> QED BY <1>1, <2>1 DEF IInv, Exclusive, OwnedInUse, FreeHasNoObject
<1>4. Calls'
  BY <1>1 DEF IInv, Calls, CallOwns, CallObject, Idle
<1>5. PointsToObject'
  BY <1>1 DEF PointsToObject
<1> QED BY <1>2, <1>3, <1>4, <1>5 DEF IInv

(* Every step keeps the invariant.                                         *)
LEMMA NextInv == IInv /\ [Next]_vars => IInv'
<1> SUFFICES ASSUME IInv, [Next]_vars PROVE IInv'
  OBVIOUS
<1>1. CASE UNCHANGED vars
  BY <1>1 DEF vars, IInv, TypeOK, Exclusive, OwnedInUse, FreeHasNoObject, Calls, PointsToObject
<1>2. ASSUME up, NEW t \in Threads, Step(t) PROVE IInv'
  <2>1. ASSUME NEW p \in Places, deallocate(t, p) PROVE IInv'
    BY <1>2, <2>1, DeallocateStep, PoolAssumption DEF deallocate
  <2> QED BY <1>2, <2>1, AllocateStep, ClaimStep, ConstructStep, DestroyStep, FreeStep, MoveStep
          DEF Step
<1> QED BY <1>1, <1>2, DestructorStep DEF Next

-----------------------------------------------------------------------------
(* Where the slots are.  On top of IInv: a slot in which a constructor     *)
(* threw stays in use and nobody points to it; every other slot in use,    *)
(* and every object, has an owner.                                         *)

Owned == {own[t][p] : t \in Threads, p \in Places} \ {Null}

Accounts ==
  /\ \A i \in thrown : in_use[i] /\ i \notin Owned
  /\ \A i \in Slots : in_use[i] => i \in Owned \/ i \in thrown
  /\ \A i \in Slots : alive[i] => i \in Owned

(* Passing an object on changes its owner and nothing else.                *)
LEMMA TakeoverAccounts ==
  ASSUME IInv, Accounts, NEW t \in Threads, NEW u \in Threads, NEW x \in Places, NEW y \in Places,
         TakesOver(t, x, u, y)
  PROVE  Accounts'
<1>1. Owned' = Owned
  <2>1. \A i : i \in Owned => i \in Owned'
    <3> SUFFICES ASSUME NEW v \in Threads, NEW q \in Places, own[v][q] # Null
                 PROVE  \E v1 \in Threads, q1 \in Places : own'[v1][q1] = own[v][q]
      BY DEF Owned
    <3>1. CASE v = t /\ q = x
      BY <3>1 DEF TakesOver
    <3>2. CASE ~(v = t /\ q = x)
      BY <3>2 DEF TakesOver
    <3> QED BY <3>1, <3>2
  <2>2. \A i : i \in Owned' => i \in Owned
    <3> SUFFICES ASSUME NEW v \in Threads, NEW q \in Places, own'[v][q] # Null
                 PROVE  \E v1 \in Threads, q1 \in Places : own[v1][q1] = own'[v][q]
      BY DEF Owned
    <3>1. CASE v = u /\ q = y
      BY <3>1 DEF TakesOver
    <3>2. CASE ~(v = u /\ q = y)
      BY <3>2 DEF TakesOver
    <3> QED BY <3>1, <3>2
  <2> QED BY <2>1, <2>2
<1> QED BY <1>1 DEF Accounts, TakesOver

(* A claimed slot was in use for nobody.                                   *)
LEMMA ClaimAccounts ==
  ASSUME IInv, Accounts, NEW t \in Threads, TryClaim(t)
  PROVE  Accounts'
<1> DEFINE i == th[t].slot
           p == th[t].place
<1>0. /\ own \in [Threads -> [Places -> Slots \union {Null}]] /\ in_use \in [Slots -> BOOLEAN]
      /\ thrown \subseteq Slots
      /\ p \in Places /\ i \in Slots /\ own[t][p] = Null
  BY DEF IInv, TypeOK, Calls, CallOwns, TryClaim
<1>1. CASE ~in_use[i]
  <2>1. /\ in_use' = [in_use EXCEPT ![i] = TRUE] /\ own' = [own EXCEPT ![t][p] = i]
        /\ UNCHANGED <<alive, thrown>>
    BY <1>1 DEF TryClaim
  <2>2. /\ own'[t][p] = i
        /\ \A u \in Threads, q \in Places : (u # t \/ q # p) => own'[u][q] = own[u][q]
    BY <1>0, <2>1
  <2>3. Owned' = Owned \union {i}
    <3>1. i # Null
      BY <1>0, PoolAssumption
    <3>2. i \in Owned'
      BY <1>0, <2>2, <3>1 DEF Owned
    <3>3. \A k : k \in Owned => k \in Owned'
      BY <1>0, <2>2 DEF Owned
    <3>4. \A k : k \in Owned' => k \in Owned \union {i}
      BY <1>0, <2>2 DEF Owned
    <3> QED BY <3>2, <3>3, <3>4
  <2> QED BY <1>0, <1>1, <2>1, <2>3 DEF Accounts
<1>2. CASE in_use[i]
  <2>1. UNCHANGED <<in_use, own, alive, thrown>>
    BY <1>2 DEF TryClaim
  <2> QED BY <2>1 DEF Accounts, Owned
<1> QED BY <1>1, <1>2

(* The variable p of t, which alone pointed to slot i, no longer does.     *)
LEMMA Disowned ==
  ASSUME IInv, NEW t \in Threads, NEW p \in Places, NEW i \in Slots, own[t][p] = i,
         \A u \in Threads, q \in Places : own'[u][q] # Null =>
           own'[u][q] # i /\ \E v \in Threads, r \in Places : own[v][r] = own'[u][q],
         \A u \in Threads, q \in Places : own[u][q] \notin {i, Null} =>
           \E v \in Threads, r \in Places : own'[v][r] = own[u][q]
  PROVE  Owned' = Owned \ {i}
<1>1. \A k : k \in Owned' => k \in Owned \ {i}
  BY DEF Owned
<1>2. \A k : k \in Owned \ {i} => k \in Owned'
  BY DEF Owned
<1> QED BY <1>1, <1>2

(* The other steps of a call.                                              *)
LEMMA CallAccounts ==
  ASSUME IInv, Accounts, NEW t \in Threads,
         Construct(t) \/ ConstructThrows(t) \/ Destroy(t) \/ MarkFree(t)
  PROVE  Accounts'
<1> DEFINE i == th[t].slot
           p == th[t].place
           f == th[t].from
<1>0. /\ own \in [Threads -> [Places -> Slots \union {Null}]] /\ in_use \in [Slots -> BOOLEAN]
      /\ alive \in [Slots -> BOOLEAN] /\ thrown \subseteq Slots /\ f \in Places \union {Null}
      /\ p \in Places /\ i \in Slots /\ own[t][p] = i /\ i # Null
  BY PoolAssumption
     DEF IInv, TypeOK, Calls, CallOwns, Construct, ConstructThrows, Destroy, MarkFree
<1>1. /\ \A u \in Threads, q \in Places : own[u][q] = i => u = t /\ q = p
      /\ i \in Owned /\ in_use[i]
  BY <1>0 DEF IInv, Exclusive, OwnedInUse, Owned
<1>2. CASE Construct(t)
  BY <1>0, <1>1, <1>2 DEF Construct, Accounts, Owned
<1>3. CASE Destroy(t)
  <2>1. UNCHANGED <<own, in_use, thrown>> /\ alive' = [alive EXCEPT ![i] = FALSE]
    BY <1>3 DEF Destroy
  <2>2. Owned' = Owned
    BY <2>1 DEF Owned
  <2> QED BY <1>0, <2>1, <2>2 DEF Accounts
<1>4. CASE ConstructThrows(t)
  <2>1. /\ own' = [own EXCEPT ![t][p] = Null] /\ UNCHANGED <<in_use, alive>>
        /\ thrown' = thrown \union {i} /\ ~alive[i]
    BY <1>4 DEF ConstructThrows, IInv, Calls, CallObject
  <2>2. \A u \in Threads, q \in Places : own'[u][q] = IF u = t /\ q = p THEN Null ELSE own[u][q]
    BY <1>0, <2>1
  <2>3. Owned' = Owned \ {i}
    <3>1. \A u \in Threads, q \in Places : own'[u][q] # Null =>
            own'[u][q] # i /\ \E v \in Threads, r \in Places : own[v][r] = own'[u][q]
      BY <1>1, <2>2
    <3>2. \A u \in Threads, q \in Places : own[u][q] \notin {i, Null} =>
            \E v \in Threads, r \in Places : own'[v][r] = own[u][q]
      BY <1>0, <2>2
    <3> QED BY <1>0, <3>1, <3>2, Disowned
  <2> QED BY <1>0, <1>1, <2>1, <2>3 DEF Accounts
<1>5. CASE MarkFree(t)
  <2>1. /\ in_use' = [in_use EXCEPT ![i] = FALSE] /\ UNCHANGED <<alive, thrown>>
        /\ own' = [own EXCEPT ![t] = IF f = Null THEN [own[t] EXCEPT ![p] = Null]
                                     ELSE Moved(own[t], p, f)]
        /\ ~alive[i] /\ f # p
    BY <1>5 DEF MarkFree, IInv, Calls, CallObject, CallOwns
  <2>2. Owned' = Owned \ {i}
    <3>1. CASE f = Null
      <4>1. \A u \in Threads, q \in Places :
              own'[u][q] = IF u = t /\ q = p THEN Null ELSE own[u][q]
        BY <1>0, <2>1, <3>1
      <4>2. \A u \in Threads, q \in Places : own'[u][q] # Null =>
              own'[u][q] # i /\ \E v \in Threads, r \in Places : own[v][r] = own'[u][q]
        BY <1>1, <4>1
      <4>3. \A u \in Threads, q \in Places : own[u][q] \notin {i, Null} =>
              \E v \in Threads, r \in Places : own'[v][r] = own[u][q]
        BY <1>0, <4>1
      <4> QED BY <1>0, <4>2, <4>3, Disowned
    <3>2. CASE f # Null
      <4>0. f \in Places
        BY <1>0, <3>2
      <4>1. own' = [own EXCEPT ![t] = [own[t] EXCEPT ![p] = own[t][f], ![f] = Null]]
        BY <2>1, <3>2 DEF Moved
      <4>2. /\ own'[t][p] = own[t][f] /\ own'[t][f] = Null
            /\ \A u \in Threads, q \in Places :
                 (u # t \/ (q # p /\ q # f)) => own'[u][q] = own[u][q]
        BY <1>0, <2>1, <4>0, <4>1
      <4>3. \A u \in Threads, q \in Places : own'[u][q] # Null =>
              own'[u][q] # i /\ \E v \in Threads, r \in Places : own[v][r] = own'[u][q]
        BY <1>1, <2>1, <4>0, <4>2
      <4>4. \A u \in Threads, q \in Places : own[u][q] \notin {i, Null} =>
              \E v \in Threads, r \in Places : own'[v][r] = own[u][q]
        BY <1>0, <4>0, <4>2
      <4> QED BY <1>0, <4>3, <4>4, Disowned
    <3> QED BY <3>1, <3>2
  <2> QED BY <1>0, <1>1, <2>1, <2>2 DEF Accounts
<1> QED BY <1>2, <1>3, <1>4, <1>5

(* Every step keeps the accounts.                                          *)
LEMMA NextAccounts == IInv /\ Accounts /\ [Next]_vars => Accounts'
<1> SUFFICES ASSUME IInv, Accounts, [Next]_vars PROVE Accounts'
  OBVIOUS
<1>1. ASSUME UNCHANGED <<in_use, alive, own, thrown>> PROVE Accounts'
  BY <1>1 DEF Accounts, Owned
<1>2. CASE UNCHANGED vars
  BY <1>1, <1>2 DEF vars
<1>3. ASSUME DestroyPool PROVE Accounts'
  <2>1. UNCHANGED <<in_use, own, thrown>> /\ \A i \in Slots : ~alive'[i]
    BY <1>3 DEF DestroyPool, IInv, FreeHasNoObject
  <2> QED BY <2>1 DEF Accounts, Owned
<1>4. ASSUME NEW t \in Threads, Step(t) PROVE Accounts'
  <2>1. ASSUME NEW p \in Places, allocate(t, p) \/ deallocate(t, p) PROVE Accounts'
    BY <1>1, <2>1 DEF allocate, deallocate
  <2>2. ASSUME NEW x \in Handles, NEW y \in Handles, MoveAssign(t, x, y) PROVE Accounts'
    <3>1. CASE own[t][x] = Null
      BY <2>2, <3>1, AssignTakesOver, TakeoverAccounts DEF Places
    <3>2. CASE own[t][x] # Null
      BY <1>1, <2>2, <3>2 DEF MoveAssign
    <3> QED BY <3>1, <3>2
  <2>3. ASSUME NEW x \in Handles, NEW y \in Handles, NEW u \in Threads, MoveConstruct(t, x, u, y)
        PROVE  Accounts'
    BY <2>3, ConstructTakesOver, TakeoverAccounts DEF Places
  <2>4. ASSUME NEW x \in Handles, release(t, x) PROVE Accounts'
    BY <2>4, ReleaseTakesOver, TakeoverAccounts DEF Places
  <2> QED BY <1>4, <2>1, <2>2, <2>3, <2>4, ClaimAccounts, CallAccounts DEF Step
<1> QED BY <1>2, <1>3, <1>4 DEF Next

(* Whatever the threads allocate, move, release and deallocate, and        *)
(* whichever constructors throw: a slot has at most one owner.             *)
THEOREM PoolOwnership == Spec => []Exclusive
<1>1. IInv => Exclusive
  BY DEF IInv
<1> QED BY <1>1, InitInv, NextInv, PTL DEF Spec

(* The owner of a slot finds its object alive, from the return of allocate *)
(* to deallocate, through moves and releases of PoolPtr; no object is      *)
(* constructed over another or destroyed twice.                            *)
THEOREM ObjectsAreSound == Spec => []ObjectsSound
<1>1. IInv => ObjectsSound
  BY DEF IInv, Calls, CallObject, ObjectsSound, ObjectsOnce
<1> QED BY <1>1, InitInv, NextInv, PTL DEF Spec

(* A slot is marked in use exactly as long as a variable points to it or a *)
(* constructor threw in it, and every object has an owner: allocate and    *)
(* deallocate lose no slot and ~LockFreePool leaves no object behind.      *)
THEOREM SlotsNotLost == Spec => []SlotsAccounted
<1>1. Init => Accounts
  BY PoolAssumption DEF Init, Accounts, Owned
<1>2. IInv /\ Accounts => SlotsAccounted
  <2> SUFFICES ASSUME IInv, Accounts, NEW i \in Slots
               PROVE  LET owned == \E t \in Threads, p \in Places : own[t][p] = i
                      IN  /\ in_use[i] <=> (owned \/ i \in thrown)
                          /\ alive[i] => owned
    BY DEF SlotsAccounted
  <2>1. i \in Owned <=> \E t \in Threads, p \in Places : own[t][p] = i
    BY PoolAssumption DEF Owned
  <2>2. i \in Owned => in_use[i]
    BY <2>1, PoolAssumption DEF IInv, OwnedInUse
  <2>3. /\ i \in thrown => in_use[i]
        /\ in_use[i] => i \in Owned \/ i \in thrown
        /\ alive[i] => i \in Owned
    BY DEF Accounts
  <2> QED BY <2>1, <2>2, <2>3
<1> QED BY <1>1, <1>2, InitInv, NextInv, NextAccounts, PTL DEF Spec
=============================================================================
