------------------------------ MODULE ZoneDiff ------------------------------
(***************************************************************************)
(* The zone diff engine (bind9-sdk-core zone/diff.rs).                     *)
(*                                                                         *)
(* A zone is the set of its records but the SOA, which the engine leaves   *)
(* out.  A record is [name, type, data, ttl]; its class is always IN.  The *)
(* order of the entries follows the order of the records in two zone       *)
(* files, so a diff is one of several sequences.                           *)
(***************************************************************************)
EXTENDS Naturals, Sequences, SequencesExt

Identity(r) == [name |-> r.name, type |-> r.type, data |-> r.data]

Identities(S) == {Identity(r) : r \in S}

(* The first pass of diff: records that are new, or have a new TTL *)
Additions(old, new) ==
  {[kind |-> "Added", record |-> r] : r \in {n \in new : Identity(n) \notin Identities(old)}}

TtlChanges(old, new) ==
  {[kind |-> "TtlChanged", record |-> p[2], old_ttl |-> p[1].ttl] :
      p \in {q \in old \X new : Identity(q[1]) = Identity(q[2]) /\ q[1].ttl # q[2].ttl}}

(* The second pass *)
Removals(old, new) ==
  {[kind |-> "Removed", record |-> r] : r \in {o \in old : Identity(o) \notin Identities(new)}}

(* The results of old.diff(new) *)
Diffs(old, new) ==
  {a \o b : a \in SetToSeqs(Additions(old, new) \cup TtlChanges(old, new)),
            b \in SetToSeqs(Removals(old, new))}

(* A changed TTL adds the record and leaves the old one. *)
Bug_ApplyEntry(records, e) ==
  CASE e.kind \in {"Added", "TtlChanged"} -> records \cup {e.record}
    [] e.kind = "Removed" -> {r \in records : Identity(r) # Identity(e.record)}

ApplyEntry(records, e) ==
  CASE e.kind = "Added" -> records \cup {e.record}
    [] e.kind = "Removed" -> {r \in records : Identity(r) # Identity(e.record)}
    [] e.kind = "TtlChanged" ->
         {IF Identity(r) = Identity(e.record) THEN e.record ELSE r : r \in records}

(* apply_diff *)
ApplyDiff(records, entries) == FoldLeft(ApplyEntry, records, entries)

(* The record set is deleted instead of the record. *)
Bug_EntryUpdates(e) ==
  LET delete(r) == [kind |-> "DeleteRrset", name |-> r.name, type |-> r.type]
  IN CASE e.kind = "Added"      -> <<[kind |-> "AddRecord", record |-> e.record]>>
       [] e.kind = "Removed"    -> <<delete(e.record)>>
       [] e.kind = "TtlChanged" -> <<delete(e.record), [kind |-> "AddRecord", record |-> e.record]>>

EntryUpdates(e) ==
  CASE e.kind = "Added"      -> <<[kind |-> "AddRecord", record |-> e.record]>>
    [] e.kind = "Removed"    -> <<[kind |-> "DeleteRecord", record |-> e.record]>>
    [] e.kind = "TtlChanged" -> <<[kind |-> "DeleteRecord", record |-> [e.record EXCEPT !.ttl = e.old_ttl]],
                                  [kind |-> "AddRecord", record |-> e.record]>>

(* to_updates *)
ToUpdates(entries) == FlattenSeq([i \in DOMAIN entries |-> EntryUpdates(entries[i])])
=============================================================================
