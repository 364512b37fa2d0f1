----------------------------- MODULE RecordText ------------------------------
(***************************************************************************)
(* Record data as words of a zone file (bind9-sdk-core zone/rdata_text.rs  *)
(* and zone/rdata_dnssec.rs).                                              *)
(*                                                                         *)
(* The data of a record is [type, f]: its variant and its fields.  What a  *)
(* parser expects of a line, and what a serializer writes, is a row: the   *)
(* fields in order, each with the kind of its word.  The words left over   *)
(* at the end of a line belong to its last field, if that is of such a     *)
(* kind.                                                                   *)
(***************************************************************************)
EXTENDS RecordWords

RData(type, f) == [type |-> type, f |-> f]

Limit == [usage |-> 3, selector |-> 1, matching |-> 2]   \* parse_tlsa

(* Hexadecimal digits are read as they are; the mark - is no salt. *)
ReadSalt(w) == CASE w.k = "dash" -> {<<>>} [] w.k = "hex" -> {w.v} [] OTHER -> {}

ReadField(kind, w, origin) ==
  CASE kind = "u8"  -> ReadNumber(1, w)
    [] kind = "u16" -> ReadNumber(2, w)
    [] kind = "u32" -> ReadNumber(4, w)
    [] kind = "ttl" -> Ttls(ReadNumber(4, w))
    [] kind \in DOMAIN Limit -> {n \in ReadNumber(1, w) : n[1] <= Limit[kind]}
    [] kind = "name" -> IF w.k = "name" THEN ResolveName(w.v, origin) ELSE {}
    [] kind = "time" -> ParseTimestamp(w)
    [] kind = "salt" -> ReadSalt(w)
    [] kind = "type" -> {U16(n) : n \in TypeOfWord(w)}
    [] kind = "tag"  -> {TokenText(w)}
    [] kind \in {"ip4", "ip6", "hex", "b32"} -> IF w.k = kind THEN {w.v} ELSE {}

(* Hexadecimal and base 64 data may be split over words. *)
Joined(kind, ws) ==
  IF ws # <<>> /\ \A i \in DOMAIN ws : ws[i].k = kind
  THEN {FlattenSeq([i \in DOMAIN ws |-> ws[i].v])} ELSE {}

(* parse_txt *)
ReadStrings(ws) ==
  IF ws = <<>> THEN {}
  ELSE Collect([i \in DOMAIN ws |-> UNION {TxtString(o) : o \in DecodeCharacterString(TokenText(ws[i]))}])

(* parse_caa: the words of the value, a space between two *)
ReadValue(ws) ==
  IF ws = <<>> THEN {}
  ELSE {Tail(FlattenSeq([i \in DOMAIN ws |-> <<32>> \o TokenText(ws[i])]))}

(* parse_unknown: \# length data *)
ReadGeneric(ws) ==
  IF ~(Len(ws) >= 2 /\ ws[1].k = "hash" /\ ReadNumber(2, ws[2]) # {}) THEN {}
  ELSE LET length == Number(ws[2].v)
           data   == IF Len(ws) = 2 THEN {<<>>} ELSE Joined("hex", SubSeq(ws, 3, Len(ws)))
       IN {d \in data : Len(d) = length /\ (length = 0 => Len(ws) = 2)}

RestKinds == {"hexes", "b64s", "types", "strings", "value", "generic"}
ReadRest(kind, ws) ==
  CASE kind = "hexes"   -> Joined("hex", ws)
    [] kind = "b64s"    -> Joined("b64", ws)
    [] kind = "types"   -> EncodeTypeBitmap(ws)
    [] kind = "strings" -> ReadStrings(ws)
    [] kind = "value"   -> ReadValue(ws)
    [] kind = "generic" -> ReadGeneric(ws)

(* The fields a row finds in the words: all of them, and no word too many *)
ReadRow(row, ws, origin) ==
  LET rest  == Last(row)[2] \in RestKinds
      fixed == IF rest THEN Len(row) - 1 ELSE Len(row)
      Value(i) == IF i <= fixed THEN ReadField(row[i][2], ws[i], origin)
                  ELSE ReadRest(row[i][2], SubSeq(ws, fixed + 1, Len(ws)))
      Fields(vs) == [name \in {row[i][1] : i \in DOMAIN row} |->
                       vs[CHOOSE i \in DOMAIN row : row[i][1] = name]]
  IN IF Len(ws) < fixed \/ (~rest /\ Len(ws) > fixed) THEN {}
     ELSE {Fields(vs) : vs \in Collect([i \in DOMAIN row |-> Value(i)])}

-----------------------------------------------------------------------------
(* What is read.                                                           *)

(* parse_a, parse_aaaa; parse_ns, parse_cname, parse_ptr; parse_soa *)
AddressRows == [A |-> <<<<"address", "ip4">>>>, AAAA |-> <<<<"address", "ip6">>>>]
NameRows == LET one == <<<<"name", "name">>>> IN [NS |-> one, CNAME |-> one, PTR |-> one]
SoaRow == <<<<"mname", "name">>, <<"rname", "name">>, <<"serial", "u32">>, <<"refresh", "ttl">>,
            <<"retry", "ttl">>, <<"expire", "ttl">>, <<"minimum", "ttl">>>>

(* parse_mx, parse_txt, parse_srv, parse_caa *)
MxRow  == <<<<"preference", "u16">>, <<"exchange", "name">>>>
TxtRow == <<<<"strings", "strings">>>>
SrvRow == <<<<"priority", "u16">>, <<"weight", "u16">>, <<"port", "u16">>, <<"target", "name">>>>
CaaRow == <<<<"flags", "u8">>, <<"tag", "tag">>, <<"value", "value">>>>

(* parse_tlsa, parse_sshfp, parse_csync, parse_rp, parse_unknown *)
TlsaRow == <<<<"usage", "usage">>, <<"selector", "selector">>, <<"matching_type", "matching">>,
             <<"certificate_data", "hex">>>>
SshfpRow == <<<<"algorithm", "u8">>, <<"fp_type", "u8">>, <<"fingerprint", "hex">>>>
CsyncRow == <<<<"soa_serial", "u32">>, <<"flags", "u16">>, <<"type_bitmaps", "types">>>>
RpRow == <<<<"mbox", "name">>, <<"txt", "name">>>>
UnknownRow == <<<<"rdata", "generic">>>>

(* parse_dnskey, parse_cdnskey; parse_ds, parse_cds, parse_dlv *)
DnskeyRow == <<<<"flags", "u16">>, <<"protocol", "u8">>, <<"algorithm", "u8">>, <<"public_key", "b64s">>>>
CdnskeyRow == DnskeyRow
DsRow == <<<<"key_tag", "u16">>, <<"algorithm", "u8">>, <<"digest_type", "u8">>, <<"digest", "hexes">>>>
CdsRow == DsRow
DlvRow == DsRow

(* parse_rrsig, parse_nsec, parse_nsec3, parse_nsec3param *)
RrsigRow == <<<<"type_covered", "type">>, <<"algorithm", "u8">>, <<"labels", "u8">>,
              <<"original_ttl", "u32">>, <<"signature_expiration", "time">>,
              <<"signature_inception", "time">>, <<"key_tag", "u16">>, <<"signer_name", "name">>,
              <<"signature", "b64s">>>>
NsecRow == <<<<"next_domain", "name">>, <<"type_bitmaps", "types">>>>
Nsec3paramRow == <<<<"hash_algorithm", "u8">>, <<"flags", "u8">>, <<"iterations", "u16">>, <<"salt", "salt">>>>
Nsec3Row == Nsec3paramRow \o <<<<"next_hashed_owner", "b32">>, <<"type_bitmaps", "types">>>>

ReadRows ==
  AddressRows @@ NameRows @@
  [SOA |-> SoaRow, MX |-> MxRow, TXT |-> TxtRow, SRV |-> SrvRow, CAA |-> CaaRow, DNSKEY |-> DnskeyRow,
   DS |-> DsRow, CDS |-> CdsRow, CDNSKEY |-> CdnskeyRow, DLV |-> DlvRow, RRSIG |-> RrsigRow,
   NSEC |-> NsecRow, NSEC3 |-> Nsec3Row, NSEC3PARAM |-> Nsec3paramRow, TLSA |-> TlsaRow,
   SSHFP |-> SshfpRow, CSYNC |-> CsyncRow, RP |-> RpRow]

(* parse_rdata: TYPEn is never taken for a type of a name *)
ParseRdata(w, ws, origin) ==
  CASE w.k = "type" /\ w.v \in DOMAIN ReadRows -> {RData(w.v, f) : f \in ReadRow(ReadRows[w.v], ws, origin)}
    [] w.k = "typeN" -> {RData("Unknown", [rtype |-> w.v, rdata |-> f.rdata]) :
                           f \in ReadRow(UnknownRow, ws, origin)}
    [] OTHER -> {}

-----------------------------------------------------------------------------
(* What is written.                                                        *)

(* The words of a field; there are none for data that is empty. *)
WriteField(kind, v) ==
  CASE kind = "number" -> <<Num(v)>>
    [] kind = "name"   -> <<Word("name", NameText(v))>>
    [] kind = "salt"   -> <<IF v = <<>> THEN Word("dash", <<>>) ELSE Word("hex", v)>>
    [] kind \in {"ip4", "ip6", "b32", "hex", "b64"} -> IF v = <<>> THEN <<>> ELSE <<Word(kind, v)>>
    [] kind = "type"   -> <<TypeWord(Number(v))>>
    [] kind = "types"  -> DecodeTypeBitmap(v)
    [] kind = "time"   -> <<FormatTimestamp(v)>>
    [] kind = "tag"    -> <<Word("plain", v)>>
    [] kind = "value"  -> <<Word("quoted", v)>>
    [] kind = "strings" -> [i \in DOMAIN v |-> Word("quoted", EscapeString(v[i]))]

(* serialize_unknown *)
WriteGeneric(data) == <<Word("hash", <<>>), Num(U16(Len(data)))>> \o WriteField("hex", data)

WriteRow(row, f) == FlattenSeq([i \in DOMAIN row |-> WriteField(row[i][2], f[row[i][1]])])

(* serialize_dnskey and serialize_cdnskey, serialize_ds, serialize_cds and serialize_dlv *)
WrittenKey == <<<<"flags", "number">>, <<"protocol", "number">>, <<"algorithm", "number">>, <<"public_key", "b64">>>>
WrittenDigest == <<<<"key_tag", "number">>, <<"algorithm", "number">>, <<"digest_type", "number">>, <<"digest", "hex">>>>

(* serialize_rrsig, serialize_nsec, serialize_nsec3, serialize_nsec3param *)
WrittenRrsig ==
  <<<<"type_covered", "type">>, <<"algorithm", "number">>, <<"labels", "number">>,
    <<"original_ttl", "number">>, <<"signature_expiration", "time">>,
    <<"signature_inception", "time">>, <<"key_tag", "number">>, <<"signer_name", "name">>,
    <<"signature", "b64">>>>
WrittenNsec == <<<<"next_domain", "name">>, <<"type_bitmaps", "types">>>>
WrittenNsec3param == <<<<"hash_algorithm", "number">>, <<"flags", "number">>, <<"iterations", "number">>, <<"salt", "salt">>>>
WrittenNsec3 ==
  <<<<"hash_algorithm", "number">>, <<"flags", "number">>, <<"iterations", "number">>, <<"salt", "salt">>,
    <<"next_hashed_owner", "b32">>, <<"type_bitmaps", "types">>>>

WrittenRows ==
  [A |-> <<<<"address", "ip4">>>>, AAAA |-> <<<<"address", "ip6">>>>,
   NS |-> <<<<"name", "name">>>>, CNAME |-> <<<<"name", "name">>>>, PTR |-> <<<<"name", "name">>>>,
   SOA |-> <<<<"mname", "name">>, <<"rname", "name">>, <<"serial", "number">>, <<"refresh", "number">>,
             <<"retry", "number">>, <<"expire", "number">>, <<"minimum", "number">>>>,
   MX |-> <<<<"preference", "number">>, <<"exchange", "name">>>>,
   TXT |-> <<<<"strings", "strings">>>>,
   SRV |-> <<<<"priority", "number">>, <<"weight", "number">>, <<"port", "number">>, <<"target", "name">>>>,
   CAA |-> <<<<"flags", "number">>, <<"tag", "tag">>, <<"value", "value">>>>,
   DNSKEY |-> WrittenKey, CDNSKEY |-> WrittenKey,
   DS |-> WrittenDigest, CDS |-> WrittenDigest, DLV |-> WrittenDigest,
   RRSIG |-> WrittenRrsig, NSEC |-> WrittenNsec, NSEC3 |-> WrittenNsec3, NSEC3PARAM |-> WrittenNsec3param,
   TLSA |-> <<<<"usage", "number">>, <<"selector", "number">>, <<"matching_type", "number">>,
              <<"certificate_data", "hex">>>>,
   SSHFP |-> <<<<"algorithm", "number">>, <<"fp_type", "number">>, <<"fingerprint", "hex">>>>,
   CSYNC |-> <<<<"soa_serial", "number">>, <<"flags", "number">>, <<"type_bitmaps", "types">>>>,
   RP |-> <<<<"mbox", "name">>, <<"txt", "name">>>>]

(* serialize_rdata *)
SerializeRdata(r) ==
  IF r.type = "Unknown" THEN WriteGeneric(r.f.rdata) ELSE WriteRow(WrittenRows[r.type], r.f)

(* rdata_type_string *)
TypeString(r) ==
  IF r.type = "Unknown" THEN Word("typeN", r.f.rtype) ELSE Word("type", r.type)
=============================================================================
