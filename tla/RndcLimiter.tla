---------------------------- MODULE RndcLimiter ----------------------------
(***************************************************************************)
(* The limiter of concurrent rndc cycles (bind9-sdk-net limiter.rs): a     *)
(* fair semaphore whose permit lives as long as the guard that acquire     *)
(* returned.                                                               *)
(***************************************************************************)
EXTENDS Naturals, Sequences, FiniteSets

CONSTANTS Users, MaxConcurrent

ASSUME LimiterAssumption == MaxConcurrent \in Nat

DefaultMaxConcurrent == 4
Slots == IF MaxConcurrent = 0 THEN DefaultMaxConcurrent ELSE MaxConcurrent

VARIABLES
  permits,  \* free slots
  waiting,  \* users in acquire, first come first served
  holding   \* users with a permit

limiterVars == <<permits, waiting, holding>>

LimiterInit == permits = Slots /\ waiting = <<>> /\ holding = {}

Enqueue(u) ==
  /\ u \notin holding /\ \A i \in DOMAIN waiting : waiting[i] # u
  /\ waiting' = Append(waiting, u)
  /\ UNCHANGED <<permits, holding>>

Acquire(u) ==
  /\ waiting # <<>> /\ Head(waiting) = u /\ permits > 0
  /\ waiting' = Tail(waiting)
  /\ permits' = permits - 1
  /\ holding' = holding \cup {u}

(* The guard is dropped, on whatever way out. *)
Release(u) ==
  /\ u \in holding
  /\ holding' = holding \ {u}
  /\ permits' = permits + 1
  /\ UNCHANGED waiting

(* The future of acquire is dropped before its turn, wherever it stands in *)
(* the queue.                                                              *)
Leave(u) ==
  \E i \in DOMAIN waiting :
    /\ waiting[i] = u
    /\ waiting' = [j \in 1..(Len(waiting) - 1) |-> waiting[IF j < i THEN j ELSE j + 1]]
    /\ UNCHANGED <<permits, holding>>

LimiterNext == \E u \in Users : Enqueue(u) \/ Acquire(u) \/ Leave(u) \/ Release(u)

LimiterSpec == LimiterInit /\ [][LimiterNext]_limiterVars

(* Free and taken slots always add up: no cycle keeps its slot after it    *)
(* ended and none returns it twice, so no more cycles run at once than     *)
(* the limiter was made for.                                               *)
SlotsBounded == Cardinality(holding) + permits = Slots
=============================================================================
