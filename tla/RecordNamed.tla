----------------------------- MODULE RecordNamed -----------------------------
(***************************************************************************)
(* named's side of the messages (external): record data and messages as    *)
(* the RFCs lay them out, names compressed wherever that is allowed.       *)
(*                                                                         *)
(* named keeps a record as [owner, type, class, ttl, f], names in octets   *)
(* and numbers as they are sent; f has the fields of the type, under the   *)
(* names that the library gives them.                                      *)
(***************************************************************************)
EXTENDS RecordTsig

(* A field is so many octets, a name, an octet count and so many octets,   *)
(* or all that is left.                                                    *)
Width == [u8 |-> 1, u16 |-> 2, u32 |-> 4, in4 |-> 4, in6 |-> 16]

(* RFC 1035, 2782, 4034, 5155, 6698, 6844, 7477 and the like *)
Layout ==
  LET name   == <<<<"name", "name">>>>
      digest == <<<<"key_tag", "u16">>, <<"algorithm", "u8">>, <<"digest_type", "u8">>, <<"digest", "rest">>>>
      dnskey == <<<<"flags", "u16">>, <<"protocol", "u8">>, <<"algorithm", "u8">>, <<"public_key", "rest">>>>
      param  == <<<<"hash_algorithm", "u8">>, <<"flags", "u8">>, <<"iterations", "u16">>, <<"salt", "counted">>>>
  IN [A |-> <<<<"address", "in4">>>>, AAAA |-> <<<<"address", "in6">>>>, NS |-> name, CNAME |-> name, PTR |-> name,
      SOA |-> <<<<"mname", "name">>, <<"rname", "name">>, <<"serial", "u32">>, <<"refresh", "u32">>,
                <<"retry", "u32">>, <<"expire", "u32">>, <<"minimum", "u32">>>>,
      MX |-> <<<<"preference", "u16">>, <<"exchange", "name">>>>, TXT |-> <<<<"strings", "strings">>>>,
      SRV |-> <<<<"priority", "u16">>, <<"weight", "u16">>, <<"port", "u16">>, <<"target", "name">>>>,
      CAA |-> <<<<"flags", "u8">>, <<"tag", "counted">>, <<"value", "rest">>>>,
      DNSKEY |-> dnskey, CDNSKEY |-> dnskey, DS |-> digest, CDS |-> digest, DLV |-> digest,
      RRSIG |-> <<<<"type_covered", "u16">>, <<"algorithm", "u8">>, <<"labels", "u8">>, <<"original_ttl", "u32">>,
                  <<"signature_expiration", "u32">>, <<"signature_inception", "u32">>, <<"key_tag", "u16">>,
                  <<"signer_name", "name">>, <<"signature", "rest">>>>,
      NSEC |-> <<<<"next_domain", "name">>, <<"type_bitmaps", "rest">>>>,
      NSEC3 |-> param \o <<<<"next_hashed_owner", "counted">>, <<"type_bitmaps", "rest">>>>, NSEC3PARAM |-> param,
      TLSA |-> <<<<"usage", "u8">>, <<"selector", "u8">>, <<"matching_type", "u8">>, <<"certificate_data", "rest">>>>,
      SSHFP |-> <<<<"algorithm", "u8">>, <<"fp_type", "u8">>, <<"fingerprint", "rest">>>>,
      CSYNC |-> <<<<"soa_serial", "u32">>, <<"flags", "u16">>, <<"type_bitmaps", "rest">>>>,
      RP |-> <<<<"mbox", "name">>, <<"txt", "name">>>>, Unknown |-> <<<<"rdata", "rest">>>>]

(* RFC 1035: names in data of these types may be compressed. *)
MayCompress == {"NS", "CNAME", "PTR", "MX", "SOA"}

TypeName(n) == IF \E t \in Known : Code[t] = n THEN CHOOSE t \in Known : Code[t] = n ELSE "Unknown"

FieldNames(type) == {Layout[type][i][1] : i \in DOMAIN Layout[type]}
Place(type, field) == CHOOSE i \in DOMAIN Layout[type] : Layout[type][i][1] = field

-----------------------------------------------------------------------------
(* Reading.                                                                *)

(* The position after the uncompressed name at i *)
AfterName(octets, i) ==
  LET after[j \in 1..(Len(octets) + 256)] ==
        CASE j > Len(octets) -> Len(octets) + 2
          [] j <= Len(octets) /\ octets[j] = 0 -> j + 1
          [] OTHER -> after[j + octets[j] + 1]
  IN after[i]

(* The position after a field that starts at i *)
AfterField(kind, d, i) ==
  CASE kind = "name"    -> AfterName(d, i)
    [] kind = "counted" -> IF i > Len(d) THEN Len(d) + 2 ELSE i + 1 + d[i]
    [] kind \in {"strings", "rest"} -> Len(d) + 1
    [] kind \in DOMAIN Width -> i + Width[kind]

Strings(d) ==
  LET from[i \in 1..(Len(d) + 256)] ==
        IF i > Len(d) THEN <<>> ELSE <<SubSeq(d, i + 1, i + d[i])>> \o from[i + d[i] + 1]
  IN from[1]

(* The fields of data; none if the data is too short or too long for them *)
Fields(type, d) ==
  LET Value(kind, octets) ==
        CASE kind = "counted" -> Tail(octets) [] kind = "strings" -> Strings(octets) [] OTHER -> octets
      Read(st, field) ==
        LET after == AfterField(field[2], d, st.at)
        IN IF st.at > Len(d) + 1 \/ after > Len(d) + 1 THEN [st EXCEPT !.at = Len(d) + 2]
           ELSE [at |-> after, values |-> Append(st.values, Value(field[2], SubSeq(d, st.at, after - 1)))]
      all == FoldLeft(Read, [at |-> 1, values |-> <<>>], Layout[type])
  IN IF all.at # Len(d) + 1 THEN {} ELSE {[n \in FieldNames(type) |-> all.values[Place(type, n)]]}

(* The uncompressed record at position i of a message, and what follows it *)
RecordAt(msg, i) ==
  LET Rest(j, after) ==
        {[next |-> after, owner |-> SubSeq(msg, i, j - 1), type |-> U16At(msg, j - 1),
          class |-> U16At(msg, j + 1), ttl |-> SubSeq(msg, j + 4, j + 7), f |-> f] :
           f \in IF after > Len(msg) + 1 THEN {}
                 ELSE Fields(TypeName(U16At(msg, j - 1)), SubSeq(msg, j + 10, after - 1))}
  IN UNION {Rest(j, j + 10 + U16At(msg, j + 7)) : j \in {x \in {AfterName(msg, i)} : x + 9 <= Len(msg)}}

(* The MAC of a message, and the TSIG record with it *)
StampMac(key, msg, time, prior) ==
  Mac(key, prior \o msg \o CanonicalOctets(key.name) \o <<0, 255, 0, 0, 0, 0>>
           \o CanonicalOctets(AlgorithmName[key.algorithm]) \o <<0, 0, 0, 0>> \o U16(time) \o U16(Fudge)
           \o <<0, 0, 0, 0>>)
Stamp(key, id, time, mac) ==
  NameOctets(key.name) \o <<0, 250, 0, 255, 0, 0, 0, 0>>
  \o WithLength(CanonicalOctets(AlgorithmName[key.algorithm]) \o <<0, 0, 0, 0>> \o U16(time) \o U16(Fudge)
                \o <<0>> \o Counted(mac) \o id \o <<0, 0, 0, 0>>)

(* A signed message without its TSIG, and its MAC *)
Cut(msg, n) == SubSeq(msg, 1, 10) \o U16(U16At(msg, 10) - 1) \o SubSeq(msg, 13, Len(msg) - n)
Accepted(key, msg, times) ==
  LET sizes == {Len(Stamp(key, SubSeq(msg, 1, 2), 0, [i \in 1..MacLength[key.algorithm] |-> 0]))}
  IN {r \in UNION {{[plain |-> Cut(msg, n), tsig |-> SubSeq(msg, Len(msg) - n + 1, Len(msg)), time |-> t,
                     mac |-> StampMac(key, Cut(msg, n), t, <<>>)] : t \in times} :
                    n \in {x \in sizes : Len(msg) >= 12 + x /\ SubSeq(msg, 11, 12) # <<0, 0>>}} :
        r.tsig = Stamp(key, SubSeq(msg, 1, 2), r.time, r.mac)}

(* The records of n that are at position i of a message that ends there *)
RecordsAt(msg, n, i) ==
  LET upTo[k \in 0..n] ==
        IF k = 0 THEN {[rrs |-> <<>>, next |-> i]}
        ELSE UNION {{[rrs |-> Append(p.rrs, [owner |-> r.owner, type |-> r.type, class |-> r.class, ttl |-> r.ttl,
                                             f |-> r.f]), next |-> r.next] : r \in RecordAt(msg, p.next)} :
                      p \in upTo[k - 1]}
  IN {p.rrs : p \in {x \in upTo[n] : x.next = Len(msg) + 1}}

(* The zone and the records of a signed update, the query of a transfer *)
UpdateOf(msg) ==
  LET zoneEnd == AfterName(msg, 13)
  IN IF SubSeq(msg, 3, 8) # <<40, 0, 0, 1, 0, 0>> \/ SubSeq(msg, 11, 12) # <<0, 0>> THEN {}
     ELSE {[zone |-> SubSeq(msg, 13, zoneEnd - 1), rrs |-> rrs] : rrs \in RecordsAt(msg, U16At(msg, 8), zoneEnd + 4)}

QueryOf(msg) ==
  LET zoneEnd == AfterName(msg, 13)
      type    == U16At(msg, zoneEnd - 1)
  IN IF SubSeq(msg, 3, 8) # <<0, 0, 0, 1, 0, 0>> \/ type \notin {251, 252} THEN {}
     ELSE {[zone |-> SubSeq(msg, 13, zoneEnd - 1), type |-> type] :
             rrs \in {x \in RecordsAt(msg, U16At(msg, 8), zoneEnd + 4) :
                        IF type = 252 THEN x = <<>> ELSE Len(x) = 1 /\ x[1].type = 6}}

-----------------------------------------------------------------------------
(* Writing.                                                                *)

LabelStarts(name) ==
  LET from[i \in 1..(Len(name) + 1)] == IF i >= Len(name) THEN {} ELSE {i} \cup from[i + name[i] + 1]
  IN from[1]

(* out is [octets, seen]: what is written, and where which name is in it. *)
WriteName(out, name) ==
  LET Suffix(i) == SubSeq(name, i, Len(name))
      known == {i \in LabelStarts(name) : \E s \in out.seen : s.name = Suffix(i)}
      new(i) == [name |-> Suffix(i), at |-> Len(out.octets) + i - 1]
  IN IF known = {}
     THEN [octets |-> out.octets \o name, seen |-> out.seen \cup {new(i) : i \in LabelStarts(name)}]
     ELSE LET k  == CHOOSE i \in known : \A j \in known : i <= j
              to == CHOOSE s \in out.seen : s.name = Suffix(k)
          IN [octets |-> out.octets \o SubSeq(name, 1, k - 1) \o U16(49152 + to.at),
              seen |-> out.seen \cup {new(i) : i \in {j \in LabelStarts(name) : j < k}}]

WriteValue(out, type, i, value) ==
  LET kind == Layout[type][i][2]
      Put(octets) == [out EXCEPT !.octets = @ \o octets]
  IN CASE kind = "name" /\ type \in MayCompress -> WriteName(out, value)
       [] kind = "counted" -> Put(Counted(value))
       [] kind = "strings" -> Put(FlattenSeq([j \in DOMAIN value |-> Counted(value[j])]))
       [] OTHER -> Put(value)

WriteRecord(out, r) ==
  LET type  == TypeName(r.type)
      named == WriteName(out, r.owner)
      head  == [named EXCEPT !.octets = @ \o U16(r.type) \o U16(r.class) \o r.ttl \o <<0, 0>>]
      write[i \in 0..Len(Layout[type])] ==
        IF i = 0 THEN head ELSE WriteValue(write[i - 1], type, i, r.f[Layout[type][i][1]])
      all   == write[Len(Layout[type])]
      start == Len(head.octets)
  IN [all EXCEPT !.octets = SubSeq(@, 1, start - 2) \o U16(Len(@) - start) \o SubSeq(@, start + 1, Len(@))]

Signed(key, msg, time, requestMac) ==
  SubSeq(msg, 1, 11) \o <<1>> \o SubSeq(msg, 13, Len(msg))
  \o Stamp(key, SubSeq(msg, 1, 2), time, StampMac(key, msg, time, <<0>> \o Counted(requestMac)))

(* The reply to a transfer and to an update *)
TransferReply(key, query, q, requestMac, rrs, time) ==
  LET question == [octets |-> SubSeq(query, 1, 2) \o <<132, 0, 0, 1>> \o U16(Len(rrs)) \o <<0, 0, 0, 0>>
                              \o q.zone \o U16(q.type) \o <<0, 1>>,
                   seen |-> {[name |-> SubSeq(q.zone, i, Len(q.zone)), at |-> 11 + i] : i \in LabelStarts(q.zone)}]
      msg == FoldLeft(WriteRecord, question, rrs).octets
  IN Signed(key, msg, time, requestMac)

UpdateReply(key, update, zone, requestMac, time) ==
  Signed(key, SubSeq(update, 1, 2) \o <<168, 0, 0, 1, 0, 0, 0, 0, 0, 0>> \o zone \o <<0, 6, 0, 1>>, time, requestMac)
=============================================================================
