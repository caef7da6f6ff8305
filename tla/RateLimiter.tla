---------------------------- MODULE RateLimiter ----------------------------
(***************************************************************************)
(* RateLimiter (src/utils/rate_limiter.cpp): a token bucket that threads   *)
(* refill and draw from with atomic operations and no lock.  One action is *)
(* one access to tokens_, last_refill_ns_ or the clock; rate_per_second_   *)
(* and capacity_ are plain members that a thread reads as they are.        *)
(*                                                                         *)
(* A tick of the clock is the time in which a rate of 1 makes one token,   *)
(* so "less than 0.001 tokens" is "no tick has passed".                    *)
(***************************************************************************)
EXTENDS Integers, FiniteSets, FiniteSetsExt

CONSTANTS
  Clients,     \* threads that acquire, and that look at the bucket
  Admins,      \* threads that call reset, set_rate and set_capacity
  Needs,       \* the numbers of tokens that are asked for
  Rate0,       \* the rate given to the constructor, per tick
  Capacity0,   \* the capacity given to the constructor
  Rates,       \* the rates given to set_rate
  Capacities,  \* the capacities given to set_capacity
  Timeout,     \* timeout_ms of try_acquire_for, in ticks
  ClockMod,    \* 2^64: clock values, rates and capacities are below it, and
               \* the difference of two clock values is taken modulo it
  MaxClock,    \* bound on the clock
  MaxChanges   \* bound on the calls of Admins

ASSUME LimiterAssumption ==
  /\ IsFiniteSet(Clients) /\ IsFiniteSet(Admins) /\ Needs \subseteq Nat
  /\ ClockMod \in Nat \ {0, 1} /\ MaxClock \in 0 .. ClockMod - 1
  /\ Rates \union {Rate0} \subseteq 0 .. ClockMod - 1
  /\ Capacities \union {Capacity0} \subseteq 0 .. ClockMod - 1
  /\ Timeout \in Nat /\ MaxChanges \in Nat

VARIABLES
  clock,       \* the steady clock
  rate,        \* rate_per_second_
  capacity,    \* capacity_
  tokens,      \* tokens_
  last,        \* last_refill_ns_
  th,          \* th[t]: pc and locals of thread t
  changes,     \* number of calls of Admins so far
  given,       \* history: tokens from the constructor, reset and set_capacity
  earned,      \* history: tokens added by refills
  granted,     \* history: tokens ever acquired
  stale        \* history: last_refill_ns_ was set to an earlier time

vars == <<clock, rate, capacity, tokens, last, th, changes, given, earned, granted, stale>>
bucket == <<tokens, last, given, earned, granted, stale>>
config == <<rate, capacity, changes>>

Threads == Clients \union Admins
Ops == {"try", "acquire", "for", "look"}

Idle == [pc |-> "idle", op |-> "try", need |-> 0, start |-> 0, now |-> 0, last |-> 0,
         add |-> 0, current |-> 0, cap |-> 0]

(* The constructor replaces a rate of 0, and a capacity of 0 after it has  *)
(* set tokens_.                                                            *)
Init ==
  /\ clock = 0 /\ last = 0
  /\ rate = Max({Rate0, 1}) /\ capacity = Max({Capacity0, 1})
  /\ tokens = Capacity0 /\ given = Capacity0
  /\ th = [t \in Threads |-> Idle]
  /\ changes = 0 /\ earned = 0 /\ granted = 0 /\ stale = FALSE

(* uint64_t arithmetic.                                                    *)
Elapsed(now, then) == (now - then) % ClockMod

Tick ==
  /\ clock < MaxClock
  /\ clock' = clock + 1
  /\ UNCHANGED <<config, bucket, th>>

-----------------------------------------------------------------------------
(* refill, called by try_acquire and get_current_tokens.                   *)

(* What thread t still needs at pc; the other locals are dead.             *)
Call(t, pc) == [Idle EXCEPT !.pc = pc, !.op = th[t].op, !.need = th[t].need, !.start = th[t].start]

(* A call begins, or a waiting one tries again: now = now_ns().            *)
Attempt(t, call) == th' = [th EXCEPT ![t] = [call EXCEPT !.pc = "last", !.now = clock]]

Begin(t) ==
  /\ th[t].pc = "idle"
  /\ \E op \in Ops, n \in Needs :
       /\ op = "look" => n = Min(Needs)
       /\ op = "for" => Timeout > 0
       /\ Attempt(t, [Idle EXCEPT !.op = op, !.need = n,
                                  !.start = IF op = "for" THEN clock ELSE 0])
  /\ UNCHANGED <<clock, config, bucket>>

(* refill returns.                                                         *)
Refilled(t) == IF th[t].op = "look" THEN Idle ELSE Call(t, "load")

LoadLast(t) ==
  LET add == Elapsed(th[t].now, last) * rate
  IN  /\ th[t].pc = "last"
      /\ th' = [th EXCEPT ![t] = IF add = 0 THEN Refilled(t)
                                 ELSE [@ EXCEPT !.last = last, !.add = add, !.pc = "claim"]]
      /\ UNCHANGED <<clock, config, bucket>>

(* Mutant: the time of the refill is stored without a comparison.          *)
ClaimAlways(t) ==
  /\ th[t].pc = "claim"
  /\ last' = th[t].now
  /\ stale' = (stale \/ th[t].now < last)
  /\ th' = [th EXCEPT ![t] = [Call(t, "count") EXCEPT !.add = th[t].add]]
  /\ UNCHANGED <<clock, config, tokens, given, earned, granted>>

(* Only the thread whose compare-and-exchange succeeds adds the tokens.    *)
ClaimInterval(t) ==
  /\ th[t].pc = "claim"
  /\ \/ /\ last = th[t].last
        /\ last' = th[t].now
        /\ stale' = (stale \/ th[t].now < last)
        /\ th' = [th EXCEPT ![t] = [Call(t, "count") EXCEPT !.add = th[t].add]]
     \/ /\ last # th[t].last
        /\ th' = [th EXCEPT ![t] = Refilled(t)]
        /\ UNCHANGED <<last, stale>>
  /\ UNCHANGED <<clock, config, tokens, given, earned, granted>>

(* current and cap are loaded; a full bucket is left alone.                *)
LoadForRefill(t) ==
  /\ th[t].pc = "count"
  /\ th' = [th EXCEPT ![t] = IF tokens >= capacity THEN Refilled(t)
                             ELSE [@ EXCEPT !.current = tokens, !.cap = capacity, !.pc = "add"]]
  /\ UNCHANGED <<clock, config, bucket>>

(* The loop of compare-and-exchanges; a failed one reloads current.        *)
AddTokens(t) ==
  LET new == Min({th[t].current + th[t].add, th[t].cap})
  IN  /\ th[t].pc = "add"
      /\ \/ /\ tokens = th[t].current
            /\ tokens' = new
            /\ earned' = earned + new - tokens
            /\ th' = [th EXCEPT ![t] = Refilled(t)]
         \/ /\ tokens # th[t].current
            /\ th' = [th EXCEPT ![t] = IF tokens >= th[t].cap THEN Refilled(t)
                                       ELSE [@ EXCEPT !.current = tokens]]
            /\ UNCHANGED <<tokens, earned>>
      /\ UNCHANGED <<clock, config, last, given, granted, stale>>

-----------------------------------------------------------------------------
(* try_acquire, after the refill.                                          *)

(* Too few tokens: try_acquire returns false, acquire and try_acquire_for  *)
(* sleep before they try again.                                            *)
Short(t) == IF th[t].op = "try" THEN Idle ELSE Call(t, "sleep")

(* current is what the thread believes the bucket holds.                   *)
Decide(t, current) ==
  IF current < th[t].need THEN Short(t) ELSE [Call(t, "take") EXCEPT !.current = current]

LoadTokens(t) ==
  /\ th[t].pc = "load"
  /\ th' = [th EXCEPT ![t] = Decide(t, tokens)]
  /\ UNCHANGED <<clock, config, bucket>>

(* Mutant: the new number of tokens is stored without a comparison.        *)
TakeWithoutCAS(t) ==
  /\ th[t].pc = "take"
  /\ tokens' = th[t].current - th[t].need
  /\ granted' = granted + th[t].need
  /\ th' = [th EXCEPT ![t] = Idle]
  /\ UNCHANGED <<clock, config, last, given, earned, stale>>

(* A compare-and-exchange; a failed one reloads current.                   *)
TakeTokens(t) ==
  /\ th[t].pc = "take"
  /\ \/ /\ tokens = th[t].current
        /\ tokens' = tokens - th[t].need
        /\ granted' = granted + th[t].need
        /\ th' = [th EXCEPT ![t] = Idle]
     \/ /\ tokens # th[t].current
        /\ th' = [th EXCEPT ![t] = Decide(t, tokens)]
        /\ UNCHANGED <<tokens, granted>>
  /\ UNCHANGED <<clock, config, last, given, earned, stale>>

(* acquire tries until it succeeds, try_acquire_for until the timeout.     *)
Retry(t) ==
  /\ th[t].pc = "sleep"
  /\ \/ /\ th[t].op = "for" /\ clock - th[t].start >= Timeout
        /\ th' = [th EXCEPT ![t] = Idle]
     \/ /\ th[t].op = "for" => clock - th[t].start < Timeout
        /\ Attempt(t, th[t])
  /\ UNCHANGED <<clock, config, bucket>>

-----------------------------------------------------------------------------
(* reset: two stores, the clock is read between them.                      *)
reset(t) ==
  /\ th[t].pc = "idle" /\ changes < MaxChanges
  /\ tokens' = capacity
  /\ given' = given + capacity - tokens
  /\ changes' = changes + 1
  /\ th' = [th EXCEPT ![t].pc = "resetclock"]
  /\ UNCHANGED <<clock, rate, capacity, last, earned, granted, stale>>

ResetReadClock(t) ==
  /\ th[t].pc = "resetclock"
  /\ th' = [th EXCEPT ![t].now = clock, ![t].pc = "resetlast"]
  /\ UNCHANGED <<clock, config, bucket>>

ResetLast(t) ==
  /\ th[t].pc = "resetlast"
  /\ last' = th[t].now
  /\ stale' = (stale \/ th[t].now < last)
  /\ th' = [th EXCEPT ![t] = Idle]
  /\ UNCHANGED <<clock, config, tokens, given, earned, granted>>

(* A rate or capacity of 0 is ignored.                                     *)
set_rate(t) ==
  /\ th[t].pc = "idle" /\ changes < MaxChanges
  /\ rate' \in Rates \ {0, rate}
  /\ changes' = changes + 1
  /\ UNCHANGED <<clock, capacity, bucket, th>>

(* set_capacity: the store, a load, then the loop that caps the tokens.    *)
set_capacity(t) ==
  /\ th[t].pc = "idle" /\ changes < MaxChanges
  /\ capacity' \in Capacities \ {0, capacity}
  /\ changes' = changes + 1
  /\ th' = [th EXCEPT ![t].pc = "cap", ![t].cap = capacity']
  /\ UNCHANGED <<clock, rate, bucket>>

LoadForCap(t) ==
  /\ th[t].pc = "cap"
  /\ th' = IF tokens > th[t].cap THEN [th EXCEPT ![t].current = tokens, ![t].pc = "trim"]
           ELSE [th EXCEPT ![t] = Idle]
  /\ UNCHANGED <<clock, config, bucket>>

CapTokens(t) ==
  /\ th[t].pc = "trim"
  /\ \/ /\ tokens = th[t].current
        /\ tokens' = th[t].cap
        /\ given' = given + th[t].cap - tokens
        /\ th' = [th EXCEPT ![t] = Idle]
     \/ /\ tokens # th[t].current
        /\ th' = IF tokens > th[t].cap THEN [th EXCEPT ![t].current = tokens]
                 ELSE [th EXCEPT ![t] = Idle]
        /\ UNCHANGED <<tokens, given>>
  /\ UNCHANGED <<clock, config, last, earned, granted, stale>>

-----------------------------------------------------------------------------
ClientStep(t) ==
  \/ Begin(t) \/ LoadLast(t) \/ ClaimInterval(t) \/ LoadForRefill(t) \/ AddTokens(t)
  \/ LoadTokens(t) \/ TakeTokens(t) \/ Retry(t)

AdminStep(t) ==
  \/ reset(t) \/ ResetReadClock(t) \/ ResetLast(t)
  \/ set_rate(t) \/ set_capacity(t) \/ LoadForCap(t) \/ CapTokens(t)

Next == Tick \/ (\E t \in Clients : ClientStep(t)) \/ (\E t \in Admins : AdminStep(t))

Spec == Init /\ [][Next]_vars

-----------------------------------------------------------------------------
(* Properties.                                                             *)

Locals == [pc : {"idle", "last", "claim", "count", "add", "load", "take", "sleep",
                 "resetclock", "resetlast", "cap", "trim"},
           op : Ops, need : Needs \union {0}, start : 0 .. MaxClock, now : 0 .. MaxClock,
           last : 0 .. MaxClock, add : Nat, current : Nat, cap : Nat]

(* Every variable has its type; a count of tokens is never negative.       *)
TypeOK ==
  /\ clock \in 0 .. MaxClock /\ last \in 0 .. MaxClock
  /\ rate \in Nat \ {0} /\ capacity \in Nat \ {0}
  /\ tokens \in Nat /\ given \in Int /\ earned \in Nat /\ granted \in Nat
  /\ changes \in 0 .. MaxChanges /\ stale \in BOOLEAN
  /\ th \in [Threads -> Locals]

(* The bucket holds what was put in less what was acquired: no refill,     *)
(* reset or acquisition overwrites another thread's.                       *)
Conserved == tokens = given + earned - granted

MaxCapacity == Max(Capacities \union {Capacity0, 1})
MaxRate == Max(Rates \union {Rate0, 1})

(* Bursts are bounded: the bucket never holds more than the largest        *)
(* capacity it can have been given.                                        *)
WithinCapacity == tokens <= MaxCapacity

(* The bucket's count is sound whatever threads refill, take, reset and    *)
(* trim it: never negative, never above the largest capacity, and exactly  *)
(* what the completed operations put in and took out.                      *)
TokensSound == TypeOK /\ Conserved /\ WithinCapacity

(* The rate limit: refills never make more tokens than the highest rate    *)
(* makes in the time that has passed, whichever threads refill and when,   *)
(* as long as no thread has set last_refill_ns_ back (which refill does    *)
(* when its clock value is older than the one it finds there): each moment *)
(* is paid for once.                                                       *)
RateRespectedInOrder == stale \/ earned <= MaxRate * clock
=============================================================================
