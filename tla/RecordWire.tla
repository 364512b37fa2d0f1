----------------------------- MODULE RecordWire ------------------------------
(***************************************************************************)
(* Records and messages as octets: what the update builder of              *)
(* bind9-sdk-core writes (update/message.rs), what the transfer client of  *)
(* bind9-sdk-net writes and reads (transfer/wire.rs), and the TSIG record  *)
(* at the end of either (tsig/).  Positions count from 0, as in the code.  *)
(***************************************************************************)
EXTENDS RecordText

CONSTANTS
  MaxDepth,    \* labels and pointers parse_name follows; 128 in the code
  MaxMessage   \* octets of a message over TCP; 65535 in the code

(* Octets at..at+n-1 of a message *)
Slice(msg, at, n) == SubSeq(msg, at + 1, at + n)
U16At(msg, at) == 256 * msg[at + 1] + msg[at + 2]

-----------------------------------------------------------------------------
(* Encoding.                                                               *)

(* rdata_type_value *)
TypeValue(r) == IF r.type = "Unknown" THEN r.f.rtype ELSE Code[r.type]

(* How the octets of a field follow from it *)
EncodeField(kind, v) ==
  CASE kind = "raw"  -> v
    [] kind = "name" -> NameOctets(v)
    [] kind = "counted" -> Counted(v)
    [] kind = "strings" -> FlattenSeq([i \in DOMAIN v |-> Counted(v[i])])

Raw(field) == <<field, "raw">>
Named(field) == <<field, "name">>

(* encode_rdata: addresses to Unknown *)
CommonFields ==
  [A |-> <<Raw("address")>>, AAAA |-> <<Raw("address")>>,
   CNAME |-> <<Named("name")>>, NS |-> <<Named("name")>>, PTR |-> <<Named("name")>>,
   SOA |-> <<Named("mname"), Named("rname"), Raw("serial"), Raw("refresh"), Raw("retry"),
             Raw("expire"), Raw("minimum")>>,
   MX |-> <<Raw("preference"), Named("exchange")>>, TXT |-> <<<<"strings", "strings">>>>,
   SRV |-> <<Raw("priority"), Raw("weight"), Raw("port"), Named("target")>>,
   CAA |-> <<Raw("flags"), <<"tag", "counted">>, Raw("value")>>, Unknown |-> <<Raw("rdata")>>]

(* The salt is sent without its length. *)
Bug_Nsec3Fields ==
  <<Raw("hash_algorithm"), Raw("flags"), Raw("iterations"), Raw("salt"),
    <<"next_hashed_owner", "counted">>, Raw("type_bitmaps")>>

Nsec3Fields ==
  <<Raw("hash_algorithm"), Raw("flags"), Raw("iterations"), <<"salt", "counted">>,
    <<"next_hashed_owner", "counted">>, Raw("type_bitmaps")>>

(* encode_rdata: keys and signatures *)
SignatureFields ==
  LET digest == <<Raw("key_tag"), Raw("algorithm"), Raw("digest_type"), Raw("digest")>>
      key    == <<Raw("flags"), Raw("protocol"), Raw("algorithm"), Raw("public_key")>>
  IN [DNSKEY |-> key, CDNSKEY |-> key, DS |-> digest, CDS |-> digest, DLV |-> digest,
      RRSIG |-> <<Raw("type_covered"), Raw("algorithm"), Raw("labels"), Raw("original_ttl"),
                  Raw("signature_expiration"), Raw("signature_inception"), Raw("key_tag"),
                  Named("signer_name"), Raw("signature")>>,
      NSEC |-> <<Named("next_domain"), Raw("type_bitmaps")>>, NSEC3 |-> Nsec3Fields]

(* encode_rdata: the rest *)
OtherFields ==
  [TLSA |-> <<Raw("usage"), Raw("selector"), Raw("matching_type"), Raw("certificate_data")>>,
   SSHFP |-> <<Raw("algorithm"), Raw("fp_type"), Raw("fingerprint")>>,
   CSYNC |-> <<Raw("soa_serial"), Raw("flags"), Raw("type_bitmaps")>>,
   RP |-> <<Named("mbox"), Named("txt")>>,
   NSEC3PARAM |-> <<Raw("hash_algorithm"), Raw("flags"), Raw("iterations"), <<"salt", "counted">>>>]

WireFields == CommonFields @@ SignatureFields @@ OtherFields

EncodeRdata(r) ==
  LET fields == WireFields[r.type]
  IN FlattenSeq([i \in DOMAIN fields |-> EncodeField(fields[i][2], r.f[fields[i][1]])])

(* encode_rdata refuses a field that one octet cannot count. *)
Countable(r) ==
  LET fields == WireFields[r.type]
  IN \A i \in DOMAIN fields : fields[i][2] = "counted" => Len(r.f[fields[i][1]]) <= 255

(* encode_rdata_with_length *)
WithLength(octets) == U16(Len(octets)) \o octets

(* encode_update_entry of a record to add *)
EncodeRecord(rr) ==
  NameOctets(rr.name) \o U16(TypeValue(rr.rdata)) \o U16(ClassCode[rr.class]) \o rr.ttl
  \o WithLength(EncodeRdata(rr.rdata))

(* encode_update_message without prerequisites; its flags say UPDATE.  The *)
(* limits of the counts and of the data of a record are passed only by     *)
(* messages that are too long themselves.                                  *)
EncodeUpdate(id, zone, class, records) ==
  LET octets == U16(id) \o <<40, 0>> \o U16(1) \o U16(0) \o U16(Len(records)) \o U16(0)
                \o NameOctets(zone) \o U16(Code.SOA) \o U16(ClassCode[class])
                \o FlattenSeq([i \in DOMAIN records |-> EncodeRecord(records[i])])
  IN IF \E i \in DOMAIN records : ~Countable(records[i].rdata) THEN {}
     ELSE {o \in {octets} : Len(o) <= MaxMessage}

(* encode_xfr_query before it is signed: an AXFR asks nothing but its      *)
(* question, an IXFR shows a SOA with the serial it has                    *)
EncodeXfrQuery(id, zone, serial) ==
  LET soa(s) == NameOctets(zone) \o U16(Code.SOA) \o U16(ClassCode.IN) \o <<0, 0, 0, 0>>
                \o WithLength(NameOctets(zone) \o NameOctets(zone) \o s \o [i \in 1..16 |-> 0])
      authority == IF serial = {} THEN <<>> ELSE soa(The(serial))
  IN U16(id) \o <<0, 0>> \o U16(1) \o U16(0) \o U16(Cardinality(serial)) \o U16(0)
     \o NameOctets(zone) \o U16(IF serial = {} THEN 252 ELSE 251) \o U16(ClassCode.IN) \o authority

-----------------------------------------------------------------------------
(* Names in a message.                                                     *)

(* escape_wire_label *)
EscapeLabel(octets) ==
  FlattenSeq([i \in DOMAIN octets |->
    CASE octets[i] \in {Dot, Backslash} -> <<Backslash, octets[i]>>
      [] octets[i] \notin {Dot, Backslash} /\ Graphic(octets[i]) -> <<octets[i]>>
      [] OTHER -> <<Backslash>> \o Digits3(octets[i])])

(* parse_name: labels until the root; the first pointer ends what the name *)
(* takes of the message and must lead before the name, every later one     *)
(* before the first.  limit is that bound, far the position after the      *)
(* first pointer, or 0.                                                    *)
ParseName(msg, offset) ==
  LET run[at \in 0..Len(msg), depth \in 0..MaxDepth, limit \in 0..Len(msg), far \in 0..Len(msg)] ==
        LET here == msg[at + 1]
            pointer == U16At(msg, at) % 16384
            label == Slice(msg, at + 1, here)
        IN CASE at >= Len(msg) \/ depth = MaxDepth -> {}
             [] at < Len(msg) /\ depth < MaxDepth /\ here = 0 ->
                  {[labels |-> <<>>, end |-> IF far = 0 THEN at + 1 ELSE far]}
             [] at < Len(msg) /\ depth < MaxDepth /\ here >= 192 ->
                  IF at + 2 > Len(msg) \/ pointer >= limit THEN {}
                  ELSE IF far = 0 THEN run[pointer, depth + 1, at, at + 2]
                  ELSE run[pointer, depth + 1, limit, far]
             [] OTHER ->
                  IF at + 1 + here > Len(msg) THEN {}
                  ELSE {[labels |-> <<EscapeLabel(label)>> \o t.labels, end |-> t.end] :
                          t \in run[at + 1 + here, depth + 1, limit, far]}
  IN {[name |-> r.labels, used |-> r.end - offset] :
        r \in {x \in run[offset, 0, offset, 0] : x.labels = Root \/ DomainName(NameText(x.labels)) # {}}}

-----------------------------------------------------------------------------
(* Records in a message.                                                   *)

(* One name and what is between it and the end of the data *)
NameAt(msg, at, Data(_)) == {Data(n.name) : n \in ParseName(msg, at)}

ReadMx(msg, at, data) ==
  IF Len(data) < 3 THEN {}
  ELSE NameAt(msg, at + 2, LAMBDA n : RData("MX", [preference |-> SubSeq(data, 1, 2), exchange |-> n]))

ReadTxt(data) ==
  LET from[i \in 1..(Len(data) + 1)] ==
        IF i > Len(data) THEN {<<>>}
        ELSE IF i + data[i] > Len(data) THEN {}
        ELSE {<<o>> \o rest : o \in TxtString(SubSeq(data, i + 1, i + data[i])), rest \in from[i + 1 + data[i]]}
  IN {RData("TXT", [strings |-> ss]) : ss \in from[1]}

ReadSoa(msg, at) ==
  LET Timers(m, r, b) ==
        RData("SOA", [mname |-> m, rname |-> r, serial |-> Slice(b, 0, 4), refresh |-> Slice(b, 4, 4),
                      retry |-> Slice(b, 8, 4), expire |-> Slice(b, 12, 4), minimum |-> Slice(b, 16, 4)])
      Rest(m, r) == LET from == at + m.used + r.used
                    IN IF from + 20 > Len(msg) THEN {} ELSE {Timers(m.name, r.name, Slice(msg, from, 20))}
  IN {d \in UNION {UNION {Rest(m, r) : r \in ParseName(msg, at + m.used)} : m \in ParseName(msg, at)} :
        Ttls({d.f.refresh, d.f.retry, d.f.expire, d.f.minimum}) = {d.f.refresh, d.f.retry, d.f.expire, d.f.minimum}}

ReadSrv(msg, at, data) ==
  IF Len(data) < 7 THEN {}
  ELSE NameAt(msg, at + 6, LAMBDA n :
         RData("SRV", [priority |-> Slice(data, 0, 2), weight |-> Slice(data, 2, 2),
                       port |-> Slice(data, 4, 2), target |-> n]))

(* str::from_utf8: the octets that a character may be                      *)
Utf8(octets) ==
  LET next  == 128..191
      forms == << <<0..127>>, <<194..223, next>>, <<{224}, 160..191, next>>, <<(225..239) \ {237}, next, next>>,
                  <<{237}, 128..159, next>>, <<{240}, 144..191, next, next>>, <<241..243, next, next, next>>,
                  <<{244}, 128..143, next, next>> >>
      Fits(form, i) == /\ i + Len(form) <= Len(octets) + 1
                       /\ \A j \in DOMAIN form : octets[i + j - 1] \in form[j]
      from[i \in 1..(Len(octets) + 1)] ==
        i > Len(octets) \/ \E f \in DOMAIN forms : Fits(forms[f], i) /\ from[i + Len(forms[f])]
  IN from[1]

ReadCaa(data) ==
  IF Len(data) < 2 \/ 2 + data[2] > Len(data) THEN {}
  ELSE LET tag   == Slice(data, 2, data[2])
           value == SubSeq(data, 3 + data[2], Len(data))
       IN IF Utf8(tag) /\ Utf8(value) THEN {RData("CAA", [flags |-> <<data[1]>>, tag |-> tag, value |-> value])} ELSE {}

(* parse_rdata_wire: ten types are taken apart, every other is kept as its *)
(* octets                                                                  *)
ParseRdataWire(n, data, msg, at) ==
  LET type == IF FromValue(n) = {} THEN "Unknown" ELSE The(FromValue(n))
  IN CASE type = "A"    -> IF Len(data) = 4 THEN {RData("A", [address |-> data])} ELSE {}
       [] type = "AAAA" -> IF Len(data) = 16 THEN {RData("AAAA", [address |-> data])} ELSE {}
       [] type \in {"NS", "CNAME", "PTR"} -> NameAt(msg, at, LAMBDA name : RData(type, [name |-> name]))
       [] type = "MX"   -> ReadMx(msg, at, data)
       [] type = "TXT"  -> ReadTxt(data)
       [] type = "SOA"  -> ReadSoa(msg, at)
       [] type = "SRV"  -> ReadSrv(msg, at, data)
       [] type = "CAA"  -> ReadCaa(data)
       [] OTHER -> {RData("Unknown", [rtype |-> n, rdata |-> data])}

(* resource_record_type_and_len: what is before the data *)
RecordHead(msg, offset) ==
  {h \in {[name |-> n.name, at |-> offset + n.used + 10, type |-> U16At(msg, offset + n.used),
           class |-> U16At(msg, offset + n.used + 2), ttl |-> Slice(msg, offset + n.used + 4, 4),
           length |-> U16At(msg, offset + n.used + 8)] :
            n \in {x \in ParseName(msg, offset) : offset + x.used + 10 <= Len(msg)}} :
     h.at + h.length <= Len(msg)}

(* parse_resource_record: a TTL above 2^31 - 1 is none *)
ParseResourceRecord(msg, offset) ==
  UNION {{[end |-> h.at + h.length,
           rr |-> [name |-> h.name, class |-> h.class,
                   ttl |-> IF Ttls({h.ttl}) = {} THEN <<0, 0, 0, 0>> ELSE h.ttl, rdata |-> d]] :
            d \in ParseRdataWire(h.type, Slice(msg, h.at, h.length), msg, h.at)} :
         h \in RecordHead(msg, offset)}
=============================================================================
