--------------------------- MODULE UpdateMessage ----------------------------
(***************************************************************************)
(* Dynamic update messages (bind9-sdk-core update/) and what named makes   *)
(* of one (RFC 2136, external).                                            *)
(*                                                                         *)
(* A message is the record sequences of its prerequisite and its update    *)
(* section.  A record on the wire is [name, type, class, ttl, data]; what  *)
(* it asks for is told by its class and type alone.                        *)
(***************************************************************************)
EXTENDS Naturals, Sequences, FiniteSets, SequencesExt

CONSTANTS
  Apex,       \* the name of the zone
  NoData,     \* the data of a record without any
  MaxCount    \* records a section may have; 65535 in the code

Wire(name, type, class, ttl, data) ==
  [name |-> name, type |-> type, class |-> class, ttl |-> ttl, data |-> data]

(* encode_prerequisite *)
EncodePrerequisite(p) ==
  CASE p.kind = "RrsetExists"    -> <<Wire(p.name, p.type, "ANY", 0, NoData)>>
    [] p.kind = "RrsetNotExists" -> <<Wire(p.name, p.type, "NONE", 0, NoData)>>
    [] p.kind = "NameExists"     -> <<Wire(p.name, "ANY", "ANY", 0, NoData)>>
    [] p.kind = "NameNotExists"  -> <<Wire(p.name, "ANY", "NONE", 0, NoData)>>
    [] p.kind = "RrsetExistsWithData" ->
         LET rs == SetToSeq(p.records)
         IN [i \in DOMAIN rs |-> Wire(p.name, p.type, "IN", 0, rs[i].data)]

(* A deletion is sent with the class of the record. *)
Bug_EncodeEntry(e) ==
  CASE e.kind \in {"AddRecord", "DeleteRecord"} ->
         Wire(e.record.name, e.record.type, "IN", e.record.ttl, e.record.data)
    [] e.kind = "DeleteRrset"  -> Wire(e.name, e.type, "ANY", 0, NoData)
    [] e.kind = "DeleteName"   -> Wire(e.name, "ANY", "ANY", 0, NoData)

(* encode_update_entry *)
EncodeEntry(e) ==
  CASE e.kind = "AddRecord"    -> Wire(e.record.name, e.record.type, "IN", e.record.ttl, e.record.data)
    [] e.kind = "DeleteRecord" -> Wire(e.record.name, e.record.type, "NONE", 0, e.record.data)
    [] e.kind = "DeleteRrset"  -> Wire(e.name, e.type, "ANY", 0, NoData)
    [] e.kind = "DeleteName"   -> Wire(e.name, "ANY", "ANY", 0, NoData)

(* The prerequisites are left out. *)
Bug_Encode(prerequisites, updates) ==
  [prerequisites |-> <<>>,
   updates |-> [i \in DOMAIN updates |-> EncodeEntry(updates[i])]]

(* encode_update_message *)
Encode(prerequisites, updates) ==
  [prerequisites |-> FlattenSeq([i \in DOMAIN prerequisites |-> EncodePrerequisite(prerequisites[i])]),
   updates |-> [i \in DOMAIN updates |-> EncodeEntry(updates[i])]]

(* Its error: a section with more records than its count can say *)
TooLong(m) == Len(m.prerequisites) > MaxCount \/ Len(m.updates) > MaxCount

-----------------------------------------------------------------------------
(* named.                                                                  *)

Rrset(zone, name, type) == {r \in zone : r.name = name /\ r.type = type}
Named(zone, name) == {r \in zone : r.name = name}

(* Prerequisites with data are collected by record set (RFC 2136, 3.2.3). *)
PrerequisiteHolds(zone, ps, p) ==
  LET found == IF p.type = "ANY" THEN Named(zone, p.name) ELSE Rrset(zone, p.name, p.type)
  IN CASE p.class = "ANY"  -> found # {}
       [] p.class = "NONE" -> found = {}
       [] p.class = "IN"   ->
            {r.data : r \in found} =
            {q.data : q \in {x \in ToSet(ps) : x.class = "IN" /\ x.name = p.name /\ x.type = p.type}}

PrerequisitesHold(zone, ps) == \A p \in ToSet(ps) : PrerequisiteHolds(zone, ps, p)

(* A CNAME is alone at its name and alone in its record set; a record set  *)
(* has one TTL.                                                            *)
AddRr(zone, w) ==
  LET rrset    == Rrset(zone, w.name, w.type)
      replaced == {r \in rrset : w.type = "CNAME" \/ r.data = w.data}
      clash    == \E r \in Named(zone, w.name) : (r.type = "CNAME") # (w.type = "CNAME")
  IN IF clash THEN zone
     ELSE (zone \ rrset) \cup {[r EXCEPT !.ttl = w.ttl] : r \in rrset \ replaced}
          \cup {[name |-> w.name, type |-> w.type, data |-> w.data, ttl |-> w.ttl]}

(* The zone keeps its last name server. *)
DeleteRr(zone, w) ==
  LET gone == {r \in Named(zone, w.name) : w.type \in {"ANY", r.type}
                                           /\ (w.class = "NONE" => r.data = w.data)}
      servers == Rrset(zone, Apex, "NS")
      kept == CASE w.class = "ANY" -> servers
                [] w.class = "NONE" -> IF Cardinality(servers) = 1 THEN servers ELSE {}
  IN zone \ (gone \ kept)

ApplyRr(zone, w) == IF w.class = "IN" THEN AddRr(zone, w) ELSE DeleteRr(zone, w)

ApplyUpdate(zone, ws) == FoldLeft(ApplyRr, zone, ws)
=============================================================================
