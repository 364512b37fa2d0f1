----------------------------- MODULE ZoneClient -----------------------------
(***************************************************************************)
(* One zone served by named, with keepers that freeze it (FreezeGuard) and *)
(* calls that update it (VerifiedUpdate).  The two meet in named: a frozen *)
(* zone takes no dynamic update.                                           *)
(***************************************************************************)
EXTENDS FreezeGuard

CONSTANTS Half, Updaters, Jumps, MaxOthers

VARIABLES serial, others, pc, before, copies, reply, truncated, applied, moved, foreign

Update == INSTANCE VerifiedUpdate WITH frozen <- (holder # Nobody)

updateVars == <<serial, others, pc, before, copies, reply, truncated, applied, moved, foreign>>
zoneVars   == <<vars, updateVars>>

ZoneInit == Init /\ serial \in Update!Serials /\ Update!InitClient

ZoneNext ==
  \/ Next /\ UNCHANGED updateVars
  \/ UNCHANGED vars /\ Update!Server
  \/ UNCHANGED vars /\ \E u \in Updaters : Update!Updater(u)

ZoneSpec == ZoneInit /\ [][ZoneNext]_zoneVars

(* The runtime polls the calls and their timers; named owes nothing. *)
FairZoneSpec ==
  /\ ZoneSpec
  /\ \A k \in Keepers : WF_zoneVars(Returns(k) /\ UNCHANGED updateVars)
  /\ \A u \in Updaters : WF_zoneVars(UNCHANGED vars /\ Update!Returns(u))

(* What the guard is for: while a keeper holds it, the zone does not       *)
(* change, however many updates are under way or late, and whichever       *)
(* keepers gave up before.                                                 *)
HeldZoneIsStill ==
  [][\A k \in Keepers : direct = 0 /\ stage[k] = "armed" => UNCHANGED serial]_zoneVars

(* What VerifiedUpdate says of an update, with a zone that is frozen now   *)
(* and then.                                                               *)
VerifiedIsApplied == Update!VerifiedIsApplied
=============================================================================
