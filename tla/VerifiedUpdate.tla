--------------------------- MODULE VerifiedUpdate ---------------------------
(***************************************************************************)
(* Dynamic updates of one zone through Bind9Client::send_update_verified   *)
(* (bind9-sdk-net config.rs, nsupdate.rs, stats.rs).                       *)
(*                                                                         *)
(* A call reads the zone's serial from the statistics channel, sends the   *)
(* update over UDP, sends it again over TCP when the response is           *)
(* truncated, judges the RCODE, and reads the serial again.  named may     *)
(* apply a message it accepts or leave the zone as it is, and it processes *)
(* a message the client no longer waits for.                               *)
(***************************************************************************)
EXTENDS Serial

CONSTANTS
  Updaters,   \* calls of send_update_verified
  Jumps,      \* how far one change may move the serial
  MaxOthers   \* bound: changes of the zone by anybody else

ASSUME UpdateAssumption == Jumps \subseteq 1..(Half - 1) /\ MaxOthers \in Nat

VARIABLES
  frozen,   \* named has the zone frozen
  serial,   \* the serial of the zone
  others,   \* changes by anybody else so far
  pc,       \* where each call is, or how it ended
  before,   \* the serial it read first
  copies,   \* messages named has not processed
  reply,    \* the response on its way
  truncated, \* a truncated response sent the update over TCP
  applied,  \* times the update took effect (history)
  moved,    \* how far the serial moved since the first read (history)
  foreign   \* somebody else changed the zone since (history)

historyVars == <<applied, moved, foreign>>
clientVars  == <<pc, before, truncated>>
vars == <<frozen, serial, others, clientVars, copies, reply, historyVars>>

Transports == {"udp", "tcp"}
Results    == {"ok", "notapplied", "rejected", "unknown"}
Replies    == {"none", "noerror", "rcode", "truncated"}

TypeOK ==
  /\ frozen \in BOOLEAN /\ serial \in Serials /\ others \in 0..MaxOthers
  /\ pc \in [Updaters -> {"idle", "after"} \cup Transports \cup Results]
  /\ before \in [Updaters -> Serials]
  /\ copies \in [Updaters -> SUBSET Transports]
  /\ reply \in [Updaters -> Replies]
  /\ truncated \in [Updaters -> BOOLEAN]
  /\ applied \in [Updaters -> 0..2]
  /\ moved \in [Updaters -> Nat] /\ foreign \in [Updaters -> BOOLEAN]

InitClient ==
  /\ others = 0
  /\ pc = [u \in Updaters |-> "idle"]
  /\ before = [u \in Updaters |-> 0]
  /\ copies = [u \in Updaters |-> {}]
  /\ reply = [u \in Updaters |-> "none"]
  /\ truncated = [u \in Updaters |-> FALSE]
  /\ applied = [u \in Updaters |-> 0]
  /\ moved = [u \in Updaters |-> 0]
  /\ foreign = [u \in Updaters |-> FALSE]

Init == frozen = FALSE /\ serial \in Serials /\ InitClient
-----------------------------------------------------------------------------
(* named.                                                                  *)

(* The call has read the serial and will read it again. *)
Reading(u) == pc[u] \in Transports \cup {"after"}

(* The zone changes by j, for all calls that compare serials; the change   *)
(* is made by the calls in the set by, or by somebody else.                *)
Change(j, by) ==
  /\ serial' = WrappingAdd(serial, j)
  /\ moved' = [v \in Updaters |-> IF Reading(v) THEN moved[v] + j ELSE moved[v]]
  /\ foreign' = [v \in Updaters |-> foreign[v] \/ (Reading(v) /\ v \notin by)]
  /\ applied' = [v \in Updaters |-> IF v \in by THEN applied[v] + 1 ELSE applied[v]]

(* A response reaches the call if it still waits for one on this           *)
(* transport; only UDP truncates and loses responses.                      *)
Respond(u, t, r) ==
  reply' = IF pc[u] = t /\ reply[u] = "none" THEN [reply EXCEPT ![u] = r] ELSE reply

(* named processes one copy of the message of u: it applies it, if the     *)
(* zone is not frozen, accepts it without a change, or refuses it.         *)
Process(u, t) ==
  /\ t \in copies[u]
  /\ copies' = [copies EXCEPT ![u] = @ \ {t}]
  /\ \/ /\ ~frozen /\ \E j \in Jumps : Change(j, {u})
        /\ \E r \in {"noerror", "truncated", "none"} :
             (r = "truncated" => t = "udp") /\ Respond(u, t, r)
     \/ /\ UNCHANGED <<serial, historyVars>>
        /\ \E r \in {"noerror", "rcode", "truncated", "none"} :
             (r = "truncated" => t = "udp") /\ Respond(u, t, r)
  /\ UNCHANGED <<frozen, others, clientVars>>

(* Another client, a signer or an administrator changes the zone. *)
Other ==
  /\ ~frozen /\ others < MaxOthers
  /\ others' = others + 1
  /\ \E j \in Jumps : Change(j, {})
  /\ UNCHANGED <<frozen, clientVars, copies, reply>>

(* rndc freeze or rndc thaw *)
Freeze ==
  /\ frozen' = ~frozen
  /\ UNCHANGED <<serial, others, clientVars, copies, reply, historyVars>>

-----------------------------------------------------------------------------
(* The client.                                                             *)

(* The first read of the serial, then the datagram. *)
Send(u) ==
  /\ pc[u] = "idle"
  /\ pc' = [pc EXCEPT ![u] = "udp"]
  /\ before' = [before EXCEPT ![u] = serial]
  /\ copies' = [copies EXCEPT ![u] = {"udp"}]
  /\ UNCHANGED <<frozen, serial, others, truncated, reply, historyVars>>

(* Silence is taken for a truncated response. *)
Bug_Resend(u) ==
  /\ pc[u] = "udp" /\ reply[u] \in {"truncated", "none"}
  /\ pc' = [pc EXCEPT ![u] = "tcp"]
  /\ copies' = [copies EXCEPT ![u] = @ \cup {"tcp"}]
  /\ reply' = [reply EXCEPT ![u] = "none"]
  /\ truncated' = [truncated EXCEPT ![u] = reply[u] = "truncated"]
  /\ UNCHANGED <<frozen, serial, others, before, historyVars>>

(* TC is set: the whole message again, over TCP. *)
Resend(u) ==
  /\ pc[u] = "udp" /\ reply[u] = "truncated"
  /\ pc' = [pc EXCEPT ![u] = "tcp"]
  /\ copies' = [copies EXCEPT ![u] = @ \cup {"tcp"}]
  /\ reply' = [reply EXCEPT ![u] = "none"]
  /\ truncated' = [truncated EXCEPT ![u] = TRUE]
  /\ UNCHANGED <<frozen, serial, others, before, historyVars>>

(* classify_update_result: NOERROR, a failed prerequisite or a refusal *)
Classify(u) ==
  /\ pc[u] \in Transports /\ reply[u] \in {"noerror", "rcode"}
  /\ pc' = [pc EXCEPT ![u] = IF reply[u] = "noerror" THEN "after" ELSE "rejected"]
  /\ reply' = [reply EXCEPT ![u] = "none"]
  /\ UNCHANGED <<frozen, serial, others, before, truncated, copies, historyVars>>

(* "after < before" is an error, an equal serial is not. *)
Bug_Compare(u) ==
  /\ pc[u] = "after"
  /\ pc' = [pc EXCEPT ![u] = IF Newer(before[u], serial) THEN "notapplied" ELSE "ok"]
  /\ UNCHANGED <<frozen, serial, others, before, truncated, copies, reply, historyVars>>

(* The serials are compared as numbers. *)
Bug_CompareNumbers(u) ==
  /\ pc[u] = "after"
  /\ pc' = [pc EXCEPT ![u] = IF serial <= before[u] THEN "notapplied" ELSE "ok"]
  /\ UNCHANGED <<frozen, serial, others, before, truncated, copies, reply, historyVars>>

(* The second read: after <= before is an error, and false when the        *)
(* serials have no order.                                                  *)
Compare(u) ==
  /\ pc[u] = "after"
  /\ pc' = [pc EXCEPT ![u] = IF serial = before[u] \/ Newer(before[u], serial)
                             THEN "notapplied" ELSE "ok"]
  /\ UNCHANGED <<frozen, serial, others, before, truncated, copies, reply, historyVars>>

(* The timeout of the UDP read only. *)
Bug_GiveUp(u) ==
  /\ pc[u] \in {"idle", "udp", "after"}
  /\ pc' = [pc EXCEPT ![u] = "unknown"]
  /\ reply' = [reply EXCEPT ![u] = "none"]
  /\ UNCHANGED <<frozen, serial, others, before, truncated, copies, historyVars>>

(* A timeout, a broken connection, a response with another ID or without a *)
(* valid TSIG, or a failing read of the statistics.                        *)
GiveUp(u) ==
  /\ pc[u] \in {"idle", "after"} \cup Transports
  /\ pc' = [pc EXCEPT ![u] = "unknown"]
  /\ reply' = [reply EXCEPT ![u] = "none"]
  /\ UNCHANGED <<frozen, serial, others, before, truncated, copies, historyVars>>

Returns(u) == Classify(u) \/ Compare(u) \/ GiveUp(u)
Updater(u) == Send(u) \/ Resend(u) \/ Returns(u)
Server == Other \/ \E u \in Updaters, t \in Transports : Process(u, t)

Next == Freeze \/ Server \/ \E u \in Updaters : Updater(u)

Spec == Init /\ [][Next]_vars

(* The runtime polls the calls and their timers. *)
FairSpec == Spec /\ \A u \in Updaters : WF_vars(Returns(u))

-----------------------------------------------------------------------------
(* Properties.                                                             *)

(* A verified success means that the update was applied, unless somebody   *)
(* else changed the zone between the two reads: a NOERROR alone, a         *)
(* declined message sent twice, a wrapped serial never pass for one.       *)
VerifiedIsApplied ==
  \A u \in Updaters : pc[u] = "ok" => applied[u] > 0 \/ foreign[u]

(* UpdateNotApplied means that no change was made, as long as the serial   *)
(* has not moved half around its space during the call.                    *)
NotAppliedIsTrue ==
  \A u \in Updaters : pc[u] = "notapplied" => applied[u] = 0 \/ moved[u] > Half

(* An update that is reported as refused was not applied, unless it went   *)
(* out twice: then the first copy may have been, and be what the second    *)
(* copy's prerequisites tripped over.                                      *)
RejectedIsTrue ==
  \A u \in Updaters : pc[u] = "rejected" => applied[u] = 0 \/ truncated[u]

(* Every call returns, with a server that never answers too. *)
UpdatesEnd ==
  \A u \in Updaters : pc[u] \in Transports \cup {"after"} ~> pc[u] \in Results
=============================================================================
