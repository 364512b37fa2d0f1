------------------------------ MODULE Rollover ------------------------------
(***************************************************************************)
(* The KSK rollover workflow (bind9-sdk-net rndc/rollover.rs) over the     *)
(* text of rndc dnssec -status (rndc/dnssec.rs) and named's key manager.   *)
(*                                                                         *)
(* The text comes in the two forms the parser knows: a key with its state  *)
(* in one line, or BIND 9.20's key with a line for each of its states.     *)
(***************************************************************************)
EXTENDS Naturals, Sequences, SequencesExt

CONSTANTS
  Roles,    \* roles of the keys of the zone
  Policies  \* the policy the zone has, "" when the text has none

States == {"hidden", "rumoured", "omnipresent", "unretentive"}
NoState == ""

VARIABLES
  format,  \* "line" or "9.20"
  policy,
  keys,    \* named's keys: role, goal, the state of the DNSKEY and of the DS
  seen,    \* the keys a status was made of (history)
  told,    \* the workflow a caller has
  pc       \* where advance is

vars == <<format, policy, keys, seen, told, pc>>
-----------------------------------------------------------------------------
(* Text.                                                                   *)

PolicyLine(p) == [is |-> "policy", v |-> p]
KeyLine(paren, suffix, state) == [is |-> "key", paren |-> paren, suffix |-> suffix, v |-> state]
GoalLine(g) == [is |-> "- goal:", v |-> g]
OtherLine(l, v) == [is |-> l, v |-> v]

KeyLines(k) ==
  IF format = "line" THEN <<KeyLine(k.role, "", k.dnskey)>>
  ELSE <<KeyLine("ECDSAP256SHA256", k.role, NoState), GoalLine(k.goal),
         OtherLine("- dnskey:", k.dnskey), OtherLine("- ds:", k.ds)>>

StatusText ==
  (IF policy = "" THEN <<>> ELSE <<PolicyLine(policy)>>)
  \o FlattenSeq([i \in DOMAIN keys |-> KeyLines(keys[i])])

(* parse_key_line: the role is in the parentheses or after them. *)
KeyRoles == {"KSK", "ZSK", "CSK"}
ParseKeyLine(l) ==
  IF l.paren \in KeyRoles THEN [algorithm |-> NoState, role |-> l.paren, state |-> l.v]
  ELSE [algorithm |-> l.paren, role |-> l.suffix, state |-> l.v]

(* A goal counts for the last key above it. *)
Parse(text) ==
  LET at == SelectSeq([i \in DOMAIN text |-> i], LAMBDA i : text[i].is = "key")
      block(n) == SubSeq(text, at[n], IF n = Len(at) THEN Len(text) ELSE at[n + 1] - 1)
      goals(n) == SelectSeq(block(n), LAMBDA l : l.is = "- goal:")
      key(n) == LET k == ParseKeyLine(text[at[n]])
                IN IF goals(n) = <<>> THEN k ELSE [k EXCEPT !.state = Last(goals(n)).v]
      ok == /\ \E l \in ToSet(text) : l.is = "policy"
            /\ \A n \in DOMAIN at : key(n).role \in KeyRoles
  IN IF ok THEN [ok |-> TRUE, keys |-> [n \in DOMAIN at |-> key(n)]] ELSE [ok |-> FALSE]

DeriveState(status) ==
  LET has(S) == \E k \in ToSet(status.keys) : k.role \in {"KSK", "CSK"} /\ k.state \in S
  IN IF has({"rumoured"}) THEN [state |-> "WaitingForDs", next |-> "SubmitDsToParent"]
     ELSE IF has({"unretentive", "hidden"}) THEN [state |-> "OldKeyRetired", next |-> "Wait"]
     ELSE [state |-> "Stable", next |-> "Wait"]

NotTold == [state |-> "none"]
Workflow == LET s == Parse(StatusText) IN IF s.ok THEN DeriveState(s) ELSE NotTold
-----------------------------------------------------------------------------
(* named's key manager. *)

Key(r, goal, dnskey, ds) == [role |-> r, goal |-> goal, dnskey |-> dnskey, ds |-> ds]

Init ==
  /\ format \in {"line", "9.20"} /\ policy \in Policies
  /\ \E r \in Roles : keys = <<Key(r, "omnipresent", "omnipresent", "omnipresent")>>
  /\ seen = <<>> /\ told = NotTold /\ pc = "idle"

clientVars == <<seen, told, pc>>

NewKey ==
  /\ Len(keys) = 1
  /\ keys' = Append(keys, Key(keys[1].role, "omnipresent", "rumoured", "hidden"))
  /\ UNCHANGED <<format, policy, clientVars>>

(* Caches learn the new DNSKEY; its DS is to be submitted. *)
Propagated ==
  /\ Len(keys) = 2 /\ keys[2].dnskey = "rumoured"
  /\ keys' = [keys EXCEPT ![2].dnskey = "omnipresent", ![2].ds = "rumoured"]
  /\ UNCHANGED <<format, policy, clientVars>>

(* Told of the DS, named retires the old key. *)
Retire ==
  /\ Len(keys) = 2 /\ keys[2].ds = "omnipresent" /\ keys[1].goal = "omnipresent"
  /\ keys' = [keys EXCEPT ![1] = Key(keys[1].role, "hidden", "unretentive", "unretentive")]
  /\ UNCHANGED <<format, policy, clientVars>>

Withdrawn ==
  /\ Len(keys) = 2 /\ keys[1].dnskey = "unretentive"
  /\ keys' = Tail(keys)
  /\ UNCHANGED <<format, policy, clientVars>>
-----------------------------------------------------------------------------
(* RolloverWorkflow::check, on its own or as the first step of advance. *)
Check ==
  /\ pc = "idle" /\ told' = Workflow /\ seen' = keys
  /\ UNCHANGED <<format, policy, keys, pc>>

Advance ==
  /\ pc = "idle" /\ told' = Workflow /\ seen' = keys
  /\ pc' = IF told'.state = "none" THEN "idle"
           ELSE IF told'.state = "WaitingForDs" THEN "confirm" ELSE "recheck"
  /\ UNCHANGED <<format, policy, keys>>

(* rndc dnssec -checkds published *)
ConfirmDs ==
  /\ pc = "confirm" /\ pc' = "recheck"
  /\ keys' = [i \in DOMAIN keys |->
                IF keys[i].ds \in {"hidden", "rumoured"} THEN [keys[i] EXCEPT !.ds = "omnipresent"]
                ELSE keys[i]]
  /\ UNCHANGED <<format, policy, seen, told>>

Recheck ==
  /\ pc = "recheck" /\ pc' = "idle" /\ told' = Workflow /\ seen' = keys
  /\ UNCHANGED <<format, policy, keys>>

Next ==
  \/ NewKey \/ Propagated \/ Retire \/ Withdrawn
  \/ Check \/ Advance \/ ConfirmDs \/ Recheck

Spec == Init /\ [][Next]_vars
-----------------------------------------------------------------------------
(* While a new KSK is published and its DS is not at the parent yet, the   *)
(* workflow that is made of that status waits for the DS.                  *)
PendingReported ==
  (told # NotTold /\ \E k \in ToSet(seen) : k.dnskey = "rumoured" /\ k.ds = "hidden"
                                           /\ k.goal = "omnipresent")
    => told.state = "WaitingForDs"
=============================================================================
