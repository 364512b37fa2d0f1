----------------------------- MODULE FreezeGuard -----------------------------
(***************************************************************************)
(* Freezing one zone through Bind9Client and FrozenZoneGuard               *)
(* (bind9-sdk-net config.rs, freeze.rs).                                   *)
(*                                                                         *)
(* A keeper freezes the zone, holds the guard, and thaws it or drops it.   *)
(* Every freeze and thaw is one rndc command on a connection of its own:   *)
(* connect and authenticate, write, read the reply, close, all under one   *)
(* timeout.  named executes a request it has been sent also when the       *)
(* client is gone by then.                                                 *)
(***************************************************************************)
EXTENDS Naturals

CONSTANTS
  Keepers,    \* tasks that freeze the zone, each once
  Nobody,     \* the zone is not frozen
  MaxDirect   \* bound: thaws outside of a guard

ASSUME KeeperAssumption == Nobody \notin Keepers /\ MaxDirect \in Nat

VARIABLES
  stage,   \* where each keeper is in the life of its guard
  io,      \* where its rndc command is
  late,    \* requests written whose caller is gone, not yet executed
  holder,  \* whose freeze is in force
  direct   \* thaws outside of a guard so far

vars == <<stage, io, late, holder, direct>>

Ended  == {"thawed", "failed", "halfway", "cancelled"}
Stages == {"idle", "freezing", "armed", "thawing", "cleaning"} \cup Ended

Request == [keeper : Keepers, op : {"freeze", "thaw"}]

TypeOK ==
  /\ stage \in [Keepers -> Stages]
  /\ io \in [Keepers -> {"idle", "connecting", "written", "accepted", "refused"}]
  /\ late \subseteq Request
  /\ holder \in Keepers \cup {Nobody}
  /\ direct \in 0..MaxDirect

Init ==
  /\ stage = [k \in Keepers |-> "idle"]
  /\ io = [k \in Keepers |-> "idle"]
  /\ late = {} /\ holder = Nobody /\ direct = 0

RequestOf(k) == [keeper |-> k, op |-> IF stage[k] = "freezing" THEN "freeze" ELSE "thaw"]

-----------------------------------------------------------------------------
(* The client.                                                             *)

(* A call of rndc_command begins in stage s. *)
Begin(k, s) ==
  /\ stage' = [stage EXCEPT ![k] = s]
  /\ io' = [io EXCEPT ![k] = "connecting"]

(* The call is over, and k is in stage s; a request named has not executed *)
(* yet stays behind.                                                       *)
End(k, s) ==
  /\ stage' = [stage EXCEPT ![k] = s]
  /\ io' = [io EXCEPT ![k] = "idle"]
  /\ late' = IF io[k] = "written" THEN late \cup {RequestOf(k)} ELSE late

(* freeze_guard *)
Freeze(k) ==
  /\ stage[k] = "idle"
  /\ Begin(k, "freezing")
  /\ UNCHANGED <<late, holder, direct>>

(* thaw of the guard: disarmed before the command begins *)
Thaw(k) ==
  /\ stage[k] = "armed"
  /\ Begin(k, "thawing")
  /\ UNCHANGED <<late, holder, direct>>

(* The guard is forgotten. *)
Bug_DropGuard(k) ==
  /\ stage[k] = "armed"
  /\ stage' = [stage EXCEPT ![k] = "thawed"]
  /\ UNCHANGED <<io, late, holder, direct>>

(* The guard is dropped while armed: a task is spawned that thaws. *)
DropGuard(k) ==
  /\ stage[k] = "armed"
  /\ Begin(k, "cleaning")
  /\ UNCHANGED <<late, holder, direct>>

(* NamedControl::thaw after something went wrong *)
ThawZone(k) ==
  /\ stage[k] \in {"failed", "halfway", "cancelled"} /\ direct < MaxDirect
  /\ direct' = direct + 1
  /\ Begin(k, "thawing")
  /\ UNCHANGED <<late, holder>>

Write(k) ==
  /\ io[k] = "connecting"
  /\ io' = [io EXCEPT ![k] = "written"]
  /\ UNCHANGED <<stage, late, holder, direct>>

(* is_success is not asked. *)
Bug_Succeed(k) ==
  /\ io[k] \in {"accepted", "refused"}
  /\ End(k, IF stage[k] = "freezing" THEN "armed" ELSE "thawed")
  /\ UNCHANGED <<holder, direct>>

(* The reply is read, the connection closes, the reply says success. *)
Succeed(k) ==
  /\ io[k] = "accepted"
  /\ End(k, IF stage[k] = "freezing" THEN "armed" ELSE "thawed")
  /\ UNCHANGED <<holder, direct>>

(* The timeout runs on the read only. *)
Bug_Fail(k) ==
  /\ io[k] \in {"written", "accepted", "refused"}
  /\ End(k, "failed")
  /\ UNCHANGED <<holder, direct>>

(* No connection, a refusal, a failing close, or the timeout: whatever     *)
(* named did, the call is an error (the clean-up task only logs it).       *)
Fail(k) ==
  /\ io[k] # "idle"
  /\ End(k, "failed")
  /\ UNCHANGED <<holder, direct>>

(* The future of the call is dropped, or the runtime aborts the task. *)
Cancel(k) ==
  /\ io[k] # "idle"
  /\ End(k, IF stage[k] = "thawing" THEN "halfway" ELSE "cancelled")
  /\ UNCHANGED <<holder, direct>>

-----------------------------------------------------------------------------
(* named.                                                                  *)

(* The zone is frozen once, and may be thawed whatever its state; an       *)
(* accepted command takes effect, a refused one has none.                  *)
Accept(r) ==
  /\ r.op = "freeze" => holder = Nobody
  /\ holder' = IF r.op = "freeze" THEN r.keeper ELSE Nobody

Answer(k) ==
  /\ io[k] = "written"
  /\ \/ Accept(RequestOf(k)) /\ io' = [io EXCEPT ![k] = "accepted"]
     \/ UNCHANGED holder /\ io' = [io EXCEPT ![k] = "refused"]
  /\ UNCHANGED <<stage, late, direct>>

AnswerLate(r) ==
  /\ r \in late
  /\ late' = late \ {r}
  /\ Accept(r) \/ UNCHANGED holder
  /\ UNCHANGED <<stage, io, direct>>

-----------------------------------------------------------------------------
Returns(k) == Succeed(k) \/ Fail(k)

Keeper(k) ==
  \/ Freeze(k) \/ Thaw(k) \/ DropGuard(k) \/ ThawZone(k)
  \/ Write(k) \/ Returns(k) \/ Cancel(k)

Next ==
  \/ \E k \in Keepers : Keeper(k) \/ Answer(k)
  \/ \E r \in late : AnswerLate(r)

Spec == Init /\ [][Next]_vars

(* The runtime polls the call and its timer; named owes nothing. *)
FairSpec == Spec /\ \A k \in Keepers : WF_vars(Returns(k))

-----------------------------------------------------------------------------
(* Properties.                                                             *)

(* An armed guard means that the zone is frozen, by this guard's own       *)
(* freeze: no command of another keeper that comes late, after a timeout   *)
(* or a cancelled call, undoes it.  Only a thaw outside of a guard can.    *)
GuardHolds ==
  direct = 0 => \A k \in Keepers : stage[k] = "armed" => holder = k

(* A zone left frozen is known: the keeper whose freeze is in force has    *)
(* its guard, has a call under way, or got an error (or a log line) or     *)
(* dropped the call; nobody who was told that the thaw succeeded, or who   *)
(* did not ask, is behind it.                                              *)
FreezeAccounted ==
  direct = 0 => \A k \in Keepers : holder = k => stage[k] \notin {"idle", "thawed"}

(* The thaw of a guard, awaited or spawned by Drop, comes to an end, with  *)
(* named silent too: the freeze is undone or the failure is known.         *)
GuardEnds ==
  \A k \in Keepers :
    stage[k] \in {"thawing", "cleaning"} ~> (stage[k] \in Ended \/ holder # k)
=============================================================================
