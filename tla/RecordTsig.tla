----------------------------- MODULE RecordTsig ------------------------------
(***************************************************************************)
(* The TSIG record at the end of a signed message (bind9-sdk-core tsig/),  *)
(* how the update builder and the transfer client put it there, and how    *)
(* they find and check the one of a reply.                                 *)
(*                                                                         *)
(* A MAC is a checksum that depends on the secret, on every octet of what  *)
(* it covers and on its place.  Times are below 2^16.                      *)
(***************************************************************************)
EXTENDS RecordWire

Key(name, algorithm, secret) == [name |-> name, algorithm |-> algorithm, secret |-> secret]

(* dns_name: one label each, which stands for hmac-sha1 and so on *)
AlgorithmName ==
  [HmacSha1 |-> <<<<115, 49>>>>, HmacSha256 |-> <<<<115, 50>>>>, HmacSha512 |-> <<<<115, 53>>>>]
MacLength == [HmacSha1 |-> 2, HmacSha256 |-> 3, HmacSha512 |-> 4]

(* TsigKey::sign *)
Mac(key, octets) ==
  LET weighed[i \in 1..(Len(octets) + 1), n \in 1..(Len(octets) + 1)] ==   \* n octets from i on
        IF n = 1 THEN ((31 * i + key.secret) * octets[i]) % 32749
        ELSE (weighed[i, n \div 2] + weighed[i + n \div 2, n - n \div 2]) % 32749
      sum == (Len(octets) + key.secret * weighed[1, Len(octets)]) % 32749
  IN U16(sum) \o [i \in 1..(MacLength[key.algorithm] - 2) |-> (sum + i) % 256]

(* TsigKey::verify *)
VerifyMac(key, octets, mac) == mac = Mac(key, octets)

Fudge == 300
Time6(t) == <<0, 0, 0, 0>> \o U16(t)

-----------------------------------------------------------------------------
(* Signing.                                                                *)

(* The variables that a MAC covers after the message *)
TsigVariables(key, time, fudge, error, other) ==
  CanonicalOctets(key.name) \o U16(255) \o <<0, 0, 0, 0>> \o CanonicalOctets(AlgorithmName[key.algorithm])
  \o time \o fudge \o error \o WithLength(other)

(* prior is the MAC of the message before, if there is one. *)
MacInput(prior, msg, variables) ==
  FlattenSeq(SetToSeq({WithLength(p) : p \in prior})) \o msg \o variables

(* TsigRecord::new: its MAC and its octets *)
TsigWire(key, id, time, mac) ==
  CanonicalOctets(key.name) \o U16(250) \o U16(255) \o <<0, 0, 0, 0>>
  \o WithLength(CanonicalOctets(AlgorithmName[key.algorithm]) \o Time6(time) \o U16(Fudge) \o WithLength(mac)
                \o id \o U16(0) \o U16(0))
NewTsig(key, msg, time, prior) ==
  The({[mac |-> mac, wire |-> TsigWire(key, SubSeq(msg, 1, 2), time, mac)] :
         mac \in {Mac(key, MacInput(prior, msg, TsigVariables(key, Time6(time), U16(Fudge), U16(0), <<>>)))}})

Count(msg, at) == U16At(msg, at)
WithAdditional(msg, n) == SubSeq(msg, 1, 10) \o U16(n) \o SubSeq(msg, 13, Len(msg))

(* sign_inner, and the end of encode_xfr_query: ARCOUNT is patched after   *)
(* the MAC is taken                                                        *)
Patched(msg, tsig) == [mac |-> tsig.mac, wire |-> WithAdditional(msg, Count(msg, 10) + 1) \o tsig.wire]
Sign(key, msg, time, prior) == Patched(msg, NewTsig(key, msg, time, prior))

-----------------------------------------------------------------------------
(* Reading.                                                                *)

(* read_wire_name: labels without pointers, joined as they are *)
ReadWireName(wire, offset) ==
  LET from[at \in 0..Len(wire)] ==
        CASE at >= Len(wire) -> {}
          [] at < Len(wire) /\ wire[at + 1] = 0 -> {[text |-> <<>>, end |-> at + 1]}
          [] at < Len(wire) /\ wire[at + 1] > 0 ->
               IF wire[at + 1] >= 64 \/ at + 1 + wire[at + 1] > Len(wire) THEN {}
               ELSE {[text |-> Slice(wire, at + 1, wire[at + 1]) \o <<Dot>> \o t.text, end |-> t.end] :
                       t \in from[at + 1 + wire[at + 1]]}
  IN {[name |-> n, end |-> r.end] : r \in from[offset],
        n \in UNION {DomainName(IF x.text = <<>> THEN <<Dot>> ELSE x.text) : x \in from[offset]}}

(* The record's data after its algorithm, every octet of it used *)
TsigData(name, algorithm, d) ==
  LET size == U16At(d, 8)
      rest == SubSeq(d, 11 + size, Len(d))
  IN IF Len(d) < 10 \/ Len(d) < 16 + size \/ Len(rest) # 6 + U16At(rest, 4) THEN {}
     ELSE {[name |-> name, algorithm |-> algorithm, time |-> Slice(d, 0, 6), fudge |-> Slice(d, 6, 2),
            mac |-> Slice(d, 10, size), id |-> Slice(rest, 0, 2), error |-> Slice(rest, 2, 2),
            other |-> SubSeq(rest, 7, Len(rest))]}

(* TsigRecord::parse_from_wire: type 250, class ANY, TTL 0, nothing after  *)
ParseTsig(wire) ==
  UNION {IF ~(/\ n.end + 10 <= Len(wire)
              /\ Slice(wire, n.end, 8) = U16(250) \o U16(255) \o <<0, 0, 0, 0>>
              /\ n.end + 10 + U16At(wire, n.end + 8) = Len(wire))
         THEN {}
         ELSE UNION {UNION {TsigData(n.name, a, SubSeq(wire, m.end + 1, Len(wire))) :
                              a \in {x \in DOMAIN AlgorithmName : SameName(AlgorithmName[x], m.name)}} :
                       m \in ReadWireName(wire, n.end + 10)} :
         n \in ReadWireName(wire, 0)}

(* verify_time *)
VerifyTime(tsig, now) ==
  LET signed == Number(tsig.time) IN (IF now > signed THEN now - signed ELSE signed - now) <= Number(tsig.fudge)

(* verify_response *)
VerifyResponse(key, msg, tsig, requestMac, now) ==
  /\ SameName(tsig.name, key.name) /\ tsig.algorithm = key.algorithm
  /\ Len(msg) >= 12 /\ tsig.id = SubSeq(msg, 1, 2)
  /\ VerifyTime(tsig, now)
  /\ VerifyMac(key, MacInput({requestMac}, msg,
                             TsigVariables(key, tsig.time, tsig.fudge, tsig.error, tsig.other)), tsig.mac)

-----------------------------------------------------------------------------
(* Messages.                                                               *)

(* DnsHeader::parse *)
Header(msg) ==
  IF Len(msg) < 12 THEN {}
  ELSE {[id |-> SubSeq(msg, 1, 2), response |-> msg[3] >= 128, opcode |-> (msg[3] \div 8) % 16,
         authoritative |-> (msg[3] \div 4) % 2 = 1, truncated |-> (msg[3] \div 2) % 2 = 1,
         rcode |-> msg[4] % 16, reserved |-> msg[4] \div 16,
         questions |-> Count(msg, 4), answers |-> Count(msg, 6), authorities |-> Count(msg, 8),
         additionals |-> Count(msg, 10)]}

(* write_tcp_dns_message and read_tcp_dns_message *)
Frame(msg) == IF Len(msg) > MaxMessage THEN {} ELSE {U16(Len(msg)) \o msg}
Unframe(stream) ==
  {m \in {SubSeq(stream, 3, Len(stream))} : Len(m) >= 12 /\ Len(m) = U16At(stream, 0)}

(* The end of the n questions, and of the n records, from a position on *)
SkipQuestions(msg, n, from) ==
  LET end[i \in 0..n] ==
        IF i = 0 THEN {from}
        ELSE {e \in UNION {{at + q.used + 4 : q \in ParseName(msg, at)} : at \in end[i - 1]} : e <= Len(msg)}
  IN end[n]

Heads(msg, n, from) ==
  LET upTo[i \in 0..n] ==
        IF i = 0 THEN {[heads |-> <<>>, end |-> from]}
        ELSE UNION {{[heads |-> Append(p.heads, [start |-> p.end, type |-> h.type]), end |-> h.at + h.length] :
                        h \in RecordHead(msg, p.end)} : p \in upTo[i - 1]}
  IN upTo[n]

(* split_final_tsig: the message without its TSIG, and that as an option *)
SplitFinalTsig(msg) ==
  LET Parts(h, p) ==
        LET types == [i \in DOMAIN p.heads |-> p.heads[i].type]
            n     == Len(types)
            last  == Last(p.heads).start
        IN CASE p.end # Len(msg) \/ (\E i \in 1..(n - 1) : types[i] = 250)
                  \/ (h.additionals = 0 /\ n > 0 /\ types[n] = 250) -> {}
             [] n = 0 \/ types[n] # 250 -> {[plain |-> msg, tsig |-> {}]}
             [] OTHER -> {[plain |-> WithAdditional(SubSeq(msg, 1, last), h.additionals - 1), tsig |-> {t}] :
                            t \in ParseTsig(SubSeq(msg, last + 1, Len(msg)))}
  IN UNION {UNION {Parts(h, p) : p \in UNION {Heads(msg, h.answers + h.authorities + h.additionals, at) :
                                                at \in SkipQuestions(msg, h.questions, 12)}} :
              h \in Header(msg)}

-----------------------------------------------------------------------------
(* The reply to a transfer.                                                *)

(* verify_message of a first message *)
VerifiedTransfer(key, id, requestMac, msg, now) ==
  UNION {{s.plain : t \in {x \in s.tsig : x.error = U16(0) /\ VerifyResponse(key, s.plain, x, requestMac, now)}} :
           s \in {p \in SplitFinalTsig(msg) : SubSeq(msg, 1, 2) = U16(id)}}

(* validate_transfer_response: where the answers begin *)
AnswersAt(msg, zone, qtype) ==
  UNION {IF ~(/\ h.response /\ h.opcode = 0 /\ h.authoritative /\ ~h.truncated
              /\ h.rcode = 0 /\ h.questions <= 1) THEN {}
         ELSE IF h.questions = 0 THEN {12}
         ELSE {12 + q.used + 4 :
                 q \in {x \in ParseName(msg, 12) :
                          /\ 12 + x.used + 4 <= Len(msg) /\ SameName(x.name, zone)
                          /\ Slice(msg, 12 + x.used, 4) = U16(qtype) \o U16(1)}} :
         h \in Header(msg)}

(* The records of the answer section *)
Answers(msg, from) ==
  LET n == Count(msg, 6)
      upTo[i \in 0..n] ==
        IF i = 0 THEN {[rrs |-> <<>>, end |-> from]}
        ELSE UNION {{[rrs |-> Append(p.rrs, r.rr), end |-> r.end] : r \in ParseResourceRecord(msg, p.end)} :
                      p \in upTo[i - 1]}
  IN {p.rrs : p \in upTo[n]}

-----------------------------------------------------------------------------
(* The reply to an update.                                                 *)

(* parse_dns_response *)
ParseDnsResponse(msg) ==
  {[id |-> h.id, rcode |-> h.rcode] : h \in {x \in Header(msg) : x.response /\ x.opcode = 5 /\ x.reserved = 0}}

(* skip_wire_name *)
SkipWireName(wire, offset) ==
  LET from[at \in 0..Len(wire)] ==
        CASE at >= Len(wire) -> {}
          [] at < Len(wire) /\ wire[at + 1] = 0 -> {at + 1}
          [] at < Len(wire) /\ wire[at + 1] >= 192 -> {at + 2}
          [] OTHER -> IF at + 1 + wire[at + 1] > Len(wire) THEN {} ELSE from[at + 1 + wire[at + 1]]
  IN from[offset]

(* find_tsig_in_response: where the last additional record starts, if it   *)
(* is a TSIG; none of a message that does not parse                        *)
FindTsig(msg) ==
  LET questions == Count(msg, 4)
      records   == Count(msg, 6) + Count(msg, 8) + Count(msg, 10)
      asked[i \in 0..questions] ==
        IF i = 0 THEN {12}
        ELSE {at + 4 : at \in {a \in UNION {SkipWireName(msg, s) : s \in asked[i - 1]} : a + 4 <= Len(msg)}}
      (* the type and start of record i, and its end *)
      read[i \in 0..records] ==
        IF i = 0 THEN {[type |-> 0, start |-> 0, end |-> at] : at \in asked[questions]}
        ELSE {r \in UNION {{[type |-> U16At(msg, at), start |-> p.end, end |-> at + 10 + U16At(msg, at + 8)] :
                              at \in {a \in SkipWireName(msg, p.end) : a + 10 <= Len(msg)}} : p \in read[i - 1]} :
                r.end <= Len(msg)}
  IN IF Len(msg) < 12 \/ Count(msg, 10) = 0 THEN {} ELSE {r.start : r \in {x \in read[records] : x.type = 250}}

(* What send makes of the reply to a signed update: its response code *)
UpdateResult(key, id, requestMac, msg, now) ==
  LET Checked(at) ==
        {t \in ParseTsig(SubSeq(msg, at + 1, Len(msg))) :
           /\ t.error = U16(0)
           /\ VerifyResponse(key, WithAdditional(SubSeq(msg, 1, at), Count(msg, 10) - 1), t, requestMac, now)}
  IN UNION {{r.rcode : at \in {a \in FindTsig(msg) : Checked(a) # {}}} :
              r \in {x \in ParseDnsResponse(msg) : x.id = U16(id)}}
=============================================================================
