-------------------------- MODULE ZoneClientProofs --------------------------
(***************************************************************************)
(* Proofs about FreezeGuard, for any number of keepers, and ZoneClient.    *)
(*                                                                         *)
(* While nobody thaws outside of a guard, a thaw that is still to come,    *)
(* from a call under way or from a request left behind, belongs to the     *)
(* keeper whose freeze is in force, and there is one at most.  So no late  *)
(* thaw meets the freeze of another keeper.                                *)
(*                                                                         *)
(* The composition of keepers and updates is a behaviour of each of its    *)
(* parts, so what is proved of FreezeGuard and of VerifiedUpdate alone     *)
(* holds of both together; and an armed guard keeps the zone still.        *)
(***************************************************************************)
EXTENDS ZoneClient, TLAPS

-----------------------------------------------------------------------------
(* The keepers, any number of them.                                        *)

(* A call under way belongs to a stage that waits for it. *)
CallOK ==
  \A k \in Keepers : io[k] # "idle" => stage[k] \in {"freezing", "thawing", "cleaning"}

(* The freeze of k must be in force: k has its guard, or is about to get   *)
(* it, or its thaw is not executed yet.                                    *)
Holding(k) ==
  \/ stage[k] = "armed"
  \/ stage[k] = "freezing" /\ io[k] = "accepted"
  \/ stage[k] \in {"thawing", "cleaning"} /\ io[k] \in {"connecting", "written"}

(* The freeze of k cannot be in force. *)
Released(k) ==
  \/ stage[k] \in {"idle", "thawed"}
  \/ stage[k] \in {"thawing", "cleaning"} /\ io[k] = "accepted"

HoldOK == \A k \in Keepers : Holding(k) => holder = k

ReleaseOK == \A k \in Keepers : Released(k) => holder # k

(* A request left behind is of a keeper that has given up, and a thaw left *)
(* behind of the keeper that holds the zone.                               *)
LateOK ==
  \A r \in late :
    /\ stage[r.keeper] \in {"failed", "halfway", "cancelled"}
    /\ r.op = "thaw" => holder = r.keeper

Inv == TypeOK /\ CallOK /\ (direct = 0 => HoldOK /\ ReleaseOK /\ LateOK)

-----------------------------------------------------------------------------
LEMMA InitInv == Init => Inv
BY KeeperAssumption
   DEF Init, Inv, TypeOK, Stages, Ended, Request, CallOK, HoldOK, Holding, ReleaseOK, Released, LateOK

(* The request of a call under way is a request. *)
LEMMA RequestType == ASSUME NEW k \in Keepers PROVE RequestOf(k) \in Request
BY DEF RequestOf, Request

LEMMA StepInv == Inv /\ [Next]_vars => Inv'
<1> SUFFICES ASSUME Inv, [Next]_vars PROVE Inv'
    OBVIOUS
<1> USE KeeperAssumption
<1>1. CASE UNCHANGED vars
  BY <1>1 DEF vars, Inv, TypeOK, CallOK, HoldOK, Holding, ReleaseOK, Released, LateOK
<1>2. ASSUME NEW k \in Keepers, Freeze(k) PROVE Inv'
  <2>1. TypeOK' /\ CallOK'
    BY <1>2 DEF Freeze, Begin, Inv, TypeOK, CallOK, Stages
  <2>2. ASSUME direct' = 0 PROVE HoldOK' /\ ReleaseOK' /\ LateOK'
    BY <1>2, <2>2 DEF Freeze, Begin, Inv, TypeOK, Request, HoldOK, Holding, ReleaseOK, Released, LateOK
  <2> QED BY <2>1, <2>2 DEF Inv
<1>3. ASSUME NEW k \in Keepers, Thaw(k) \/ DropGuard(k) PROVE Inv'
  <2>1. TypeOK' /\ CallOK'
    BY <1>3 DEF Thaw, DropGuard, Begin, Inv, TypeOK, CallOK, Stages
  <2>2. ASSUME direct' = 0 PROVE HoldOK' /\ ReleaseOK' /\ LateOK'
    BY <1>3, <2>2 DEF Thaw, DropGuard, Begin, Inv, TypeOK, Request, HoldOK, Holding, ReleaseOK, Released, LateOK
  <2> QED BY <2>1, <2>2 DEF Inv
<1>4. ASSUME NEW k \in Keepers, ThawZone(k) PROVE Inv'
  BY <1>4 DEF ThawZone, Begin, Inv, TypeOK, CallOK, Stages
<1>5. ASSUME NEW k \in Keepers, Write(k) PROVE Inv'
  <2>1. TypeOK' /\ CallOK'
    BY <1>5 DEF Write, Inv, TypeOK, CallOK
  <2>2. ASSUME direct' = 0 PROVE HoldOK' /\ ReleaseOK' /\ LateOK'
    BY <1>5, <2>2 DEF Write, Inv, TypeOK, HoldOK, Holding, ReleaseOK, Released, LateOK
  <2> QED BY <2>1, <2>2 DEF Inv
<1>6. ASSUME NEW k \in Keepers, Succeed(k) PROVE Inv'
  <2>1. stage[k] \in {"freezing", "thawing", "cleaning"} /\ late' = late
    BY <1>6 DEF Succeed, End, Inv, CallOK
  <2>2. TypeOK' /\ CallOK'
    BY <1>6, <2>1 DEF Succeed, End, Inv, TypeOK, CallOK, Stages, Ended
  <2>3. ASSUME direct' = 0 PROVE HoldOK' /\ ReleaseOK' /\ LateOK'
    BY <1>6, <2>1, <2>3 DEF Succeed, End, Inv, TypeOK, Request, HoldOK, Holding, ReleaseOK, Released, LateOK
  <2> QED BY <2>2, <2>3 DEF Inv
<1>7. ASSUME NEW k \in Keepers, Fail(k) \/ Cancel(k) PROVE Inv'
  <2>1. PICK s \in {"failed", "halfway", "cancelled"} : End(k, s)
    BY <1>7 DEF Fail, Cancel
  <2>2. io[k] # "idle" /\ stage[k] \in {"freezing", "thawing", "cleaning"} /\ UNCHANGED <<holder, direct>>
    BY <1>7 DEF Fail, Cancel, Inv, CallOK
  <2>3. TypeOK' /\ CallOK'
    BY <2>1, <2>2, RequestType DEF End, Inv, TypeOK, CallOK, Stages, Ended
  <2>4. ASSUME direct' = 0 PROVE HoldOK' /\ ReleaseOK'
    BY <2>1, <2>2, <2>4 DEF End, Inv, TypeOK, HoldOK, Holding, ReleaseOK, Released
  <2>5. ASSUME direct' = 0 PROVE LateOK'
    <3> SUFFICES ASSUME NEW r \in late'
                 PROVE /\ stage'[r.keeper] \in {"failed", "halfway", "cancelled"}
                       /\ r.op = "thaw" => holder' = r.keeper
      BY DEF LateOK
    <3>1. CASE r \in late
      <4>1. r.keeper # k /\ r.keeper \in Keepers
        BY <2>2, <2>5, <3>1 DEF Inv, LateOK, TypeOK, Request
      <4> QED BY <2>1, <2>2, <2>5, <3>1, <4>1 DEF End, Inv, LateOK, TypeOK
    <3>2. CASE r \notin late
      <4>1. r = RequestOf(k) /\ io[k] = "written"
        BY <2>1, <3>2 DEF End
      <4>2. stage'[r.keeper] = s
        BY <2>1, <4>1 DEF End, RequestOf, Inv, TypeOK
      <4>3. r.op = "thaw" => holder = k
        BY <2>2, <2>5, <4>1 DEF RequestOf, Inv, HoldOK, Holding
      <4> QED BY <2>2, <4>1, <4>2, <4>3 DEF RequestOf
    <3> QED BY <3>1, <3>2
  <2> QED BY <2>3, <2>4, <2>5 DEF Inv
<1>8. ASSUME NEW k \in Keepers, Answer(k) PROVE Inv'
  <2>1. TypeOK' /\ CallOK'
    BY <1>8 DEF Answer, Accept, RequestOf, Inv, TypeOK, CallOK
  <2>2. stage[k] \in {"freezing", "thawing", "cleaning"}
    BY <1>8 DEF Answer, Inv, CallOK
  <2>3. ASSUME direct' = 0 PROVE HoldOK' /\ ReleaseOK' /\ LateOK'
    <3>1. CASE UNCHANGED holder /\ io' = [io EXCEPT ![k] = "refused"]
      BY <1>8, <2>3, <3>1 DEF Answer, Inv, TypeOK, HoldOK, Holding, ReleaseOK, Released, LateOK
    <3>2. CASE Accept(RequestOf(k)) /\ io' = [io EXCEPT ![k] = "accepted"]
      <4>1. CASE stage[k] = "freezing"
        <5>1. holder = Nobody /\ holder' = k
          BY <3>2, <4>1 DEF Accept, RequestOf
        <5>2. \A r \in late : r.keeper \in Keepers /\ r.op # "thaw" /\ r.keeper # k
          BY <1>8, <2>3, <4>1, <5>1 DEF Answer, Inv, TypeOK, Request, LateOK
        <5> QED BY <1>8, <2>3, <3>2, <4>1, <5>1, <5>2
                DEF Answer, Inv, TypeOK, HoldOK, Holding, ReleaseOK, Released, LateOK
      <4>2. CASE stage[k] # "freezing"
        <5>1. holder = k /\ holder' = Nobody
          BY <1>8, <2>2, <2>3, <3>2, <4>2 DEF Accept, RequestOf, Answer, Inv, HoldOK, Holding
        <5>2. \A r \in late : r.keeper \in Keepers /\ r.op # "thaw"
          BY <1>8, <2>2, <2>3, <5>1 DEF Answer, Inv, TypeOK, Request, LateOK
        <5> QED BY <1>8, <2>2, <2>3, <3>2, <4>2, <5>1, <5>2
                DEF Answer, Inv, TypeOK, HoldOK, Holding, ReleaseOK, Released, LateOK
      <4> QED BY <4>1, <4>2
    <3> QED BY <1>8, <3>1, <3>2 DEF Answer
  <2> QED BY <2>1, <2>3 DEF Inv
<1>9. ASSUME NEW r \in late, AnswerLate(r) PROVE Inv'
  <2>1. r \in Request
    BY DEF Inv, TypeOK
  <2>2. TypeOK' /\ CallOK'
    BY <1>9, <2>1 DEF AnswerLate, Accept, Inv, TypeOK, CallOK, Request
  <2>3. ASSUME direct' = 0 PROVE HoldOK' /\ ReleaseOK' /\ LateOK'
    <3>1. CASE UNCHANGED holder
      BY <1>9, <2>3, <3>1 DEF AnswerLate, Inv, HoldOK, Holding, ReleaseOK, Released, LateOK
    <3>2. CASE Accept(r) /\ r.op = "freeze"
      <4>1. holder = Nobody /\ holder' = r.keeper
        BY <3>2 DEF Accept
      <4>2. stage[r.keeper] \in {"failed", "halfway", "cancelled"}
        BY <1>9, <2>3 DEF AnswerLate, Inv, LateOK
      <4>3. \A q \in late : q.keeper \in Keepers /\ q.op # "thaw"
        BY <1>9, <2>3, <4>1 DEF AnswerLate, Inv, TypeOK, Request, LateOK
      <4> QED BY <1>9, <2>1, <2>3, <4>1, <4>2, <4>3
              DEF AnswerLate, Inv, Request, HoldOK, Holding, ReleaseOK, Released, LateOK
    <3>3. CASE Accept(r) /\ r.op = "thaw"
      <4>1. holder = r.keeper /\ holder' = Nobody
        BY <1>9, <2>3, <3>3 DEF Accept, AnswerLate, Inv, LateOK
      <4>2. stage[r.keeper] \in {"failed", "halfway", "cancelled"}
        BY <1>9, <2>3 DEF AnswerLate, Inv, LateOK
      <4>3. ~Holding(r.keeper)
        BY <4>2 DEF Holding
      <4>4. HoldOK'
        BY <1>9, <2>1, <2>3, <4>1, <4>3 DEF AnswerLate, Inv, HoldOK, Holding
      <4>5. ReleaseOK'
        BY <1>9, <4>1 DEF AnswerLate, ReleaseOK
      <4>6. \A q \in late : q.op = "thaw" => q = r
        BY <1>9, <2>1, <2>3, <3>3, <4>1 DEF AnswerLate, Inv, TypeOK, Request, LateOK
      <4>7. LateOK'
        BY <1>9, <2>3, <4>6 DEF AnswerLate, Inv, LateOK
      <4> QED BY <4>4, <4>5, <4>7
    <3> QED BY <1>9, <2>1, <3>1, <3>2, <3>3 DEF AnswerLate, Request
  <2> QED BY <2>2, <2>3 DEF Inv
<1> QED
  BY <1>1, <1>2, <1>3, <1>4, <1>5, <1>6, <1>7, <1>8, <1>9
  DEF Next, Keeper, Returns

THEOREM Invariance == Spec => []Inv
<1>1. Init => Inv
  BY InitInv
<1>2. Inv /\ [Next]_vars => Inv'
  BY StepInv
<1> QED BY <1>1, <1>2, PTL DEF Spec

(* Types, for any number of keepers. *)
THEOREM TypeCorrect == Spec => []TypeOK
<1>1. Inv => TypeOK
  BY DEF Inv
<1> QED BY <1>1, Invariance, PTL

(* Guards exclude each other, and no late command undoes the freeze of an  *)
(* armed guard, however many keepers time out, drop and cancel.            *)
THEOREM GuardCorrect == Spec => []GuardHolds
<1>1. Inv => GuardHolds
  BY DEF Inv, HoldOK, Holding, GuardHolds
<1> QED BY <1>1, Invariance, PTL

(* A zone that stays frozen is known to its keeper. *)
THEOREM AccountCorrect == Spec => []FreezeAccounted
<1>1. Inv => FreezeAccounted
  BY DEF Inv, ReleaseOK, Released, FreezeAccounted
<1> QED BY <1>1, Invariance, PTL

-----------------------------------------------------------------------------
(* The zone they share with the updates.                                   *)

(* To the keepers the updates are stuttering steps. *)
THEOREM KeepersInContext == ZoneSpec => Spec
<1>1. ZoneInit => Init
  BY DEF ZoneInit
<1>2. [ZoneNext]_zoneVars => [Next]_vars
  BY DEF ZoneNext, zoneVars
<1> QED BY <1>1, <1>2, PTL DEF ZoneSpec, Spec

(* To the updates the keepers are somebody who freezes and thaws the zone. *)
THEOREM UpdatesInContext == ZoneSpec => Update!Spec
<1>1. ZoneInit => Update!Init
  <2> SUFFICES ASSUME ZoneInit PROVE Update!Init
      OBVIOUS
  <2>1. (holder # Nobody) = FALSE
    BY DEF ZoneInit, Init
  <2> QED BY <2>1 DEF ZoneInit, Update!Init
<1>2. [ZoneNext]_zoneVars => [Update!Next]_(Update!vars)
  <2> SUFFICES ASSUME [ZoneNext]_zoneVars PROVE [Update!Next]_(Update!vars)
      OBVIOUS
  <2>1. CASE UNCHANGED updateVars
    <3>1. CASE (holder' # Nobody) = (holder # Nobody)
      BY <2>1, <3>1 DEF updateVars, Update!vars, Update!clientVars, Update!historyVars
    <3>2. CASE (holder' # Nobody) = ~(holder # Nobody)
      <4>1. Update!Freeze
        BY <2>1, <3>2 DEF updateVars, Update!Freeze, Update!clientVars, Update!historyVars
      <4> QED BY <4>1 DEF Update!Next
    <3> QED BY <3>1, <3>2
  <2>2. CASE Update!Server \/ \E u \in Updaters : Update!Updater(u)
    BY <2>2 DEF Update!Next
  <2> QED BY <2>1, <2>2 DEF ZoneNext, zoneVars
<1> QED BY <1>1, <1>2, PTL DEF ZoneSpec, Update!Spec

(* No step of the updates, nor of a keeper, moves the serial of a zone     *)
(* that a guard holds.                                                     *)
LEMMA FrozenStep ==
  ASSUME Inv, NEW k \in Keepers, direct = 0, stage[k] = "armed", [ZoneNext]_zoneVars
  PROVE  UNCHANGED serial
<1>1. holder # Nobody
  BY KeeperAssumption DEF Inv, HoldOK, Holding
<1>2. CASE UNCHANGED updateVars
  BY <1>2 DEF updateVars
<1>3. CASE Update!Other
  BY <1>1, <1>3 DEF Update!Other
<1>4. ASSUME NEW u \in Updaters, NEW t \in Update!Transports, Update!Process(u, t)
      PROVE  UNCHANGED serial
  BY <1>1, <1>4 DEF Update!Process
<1>5. ASSUME NEW u \in Updaters, Update!Updater(u) PROVE UNCHANGED serial
  BY <1>5 DEF Update!Updater, Update!Returns, Update!Send, Update!Resend, Update!Classify,
              Update!Compare, Update!GiveUp
<1> QED BY <1>2, <1>3, <1>4, <1>5 DEF ZoneNext, zoneVars, Update!Server

(* While a keeper holds its guard the zone does not change, for any number *)
(* of keepers and of updates, in time or late.                             *)
THEOREM HeldZoneCorrect == ZoneSpec => HeldZoneIsStill
<1>1. Inv /\ [ZoneNext]_zoneVars =>
        [\A k \in Keepers : direct = 0 /\ stage[k] = "armed" => UNCHANGED serial]_zoneVars
  BY FrozenStep
<1> QED BY <1>1, KeepersInContext, Invariance, PTL DEF ZoneSpec, HeldZoneIsStill
=============================================================================
