----------------------------- MODULE RecordTypes -----------------------------
(***************************************************************************)
(* Octets, record types, and the domain names of bind9-sdk-core.           *)
(*                                                                         *)
(* Numbers are the big-endian octets they are sent as, so every field      *)
(* keeps its width.  Text that is read or written octet by octet (names,   *)
(* character-strings) is a sequence of character codes.  An operator of    *)
(* the code that returns a Result or an Option returns here a set of at    *)
(* most one value, empty for the error.                                    *)
(***************************************************************************)
EXTENDS Naturals, Sequences, FiniteSets, SequencesExt

CONSTANTS
  MaxLabel,   \* octets of a label; 63 in the code
  MaxName     \* octets of a name on the wire; 255 in the code

Octet == 0..255

(* u16::to_be_bytes and back *)
U16(n) == <<n \div 256, n % 256>>
Number(octets) == FoldLeft(LAMBDA n, o : 256 * n + o, 0, octets)

The(option) == CHOOSE x \in option : TRUE

(* Every option holds a value: the sequence of them, else none. *)
Collect(options) ==
  IF \E i \in DOMAIN options : options[i] = {} THEN {}
  ELSE {[i \in DOMAIN options |-> The(options[i])]}

-----------------------------------------------------------------------------
(* Record types.                                                           *)

(* RecordType::value *)
Code ==
  [A |-> 1, AAAA |-> 28, CNAME |-> 5, NS |-> 2, PTR |-> 12, SOA |-> 6, MX |-> 15, TXT |-> 16,
   SRV |-> 33, CAA |-> 257, DNSKEY |-> 48, RRSIG |-> 46, NSEC |-> 47, NSEC3 |-> 50, DS |-> 43,
   CDS |-> 59, CDNSKEY |-> 60, TLSA |-> 52, SSHFP |-> 44, CSYNC |-> 62, RP |-> 17,
   NSEC3PARAM |-> 51, DLV |-> 32769]

Known == DOMAIN Code

(* RecordType::from_value; empty for Other *)
FromValue(n) == {t \in Known : Code[t] = n}

(* Display of a type, as a word of a zone file: a mnemonic or TYPEn *)
TypeWord(n) ==
  IF FromValue(n) = {} THEN [k |-> "typeN", v |-> n] ELSE [k |-> "type", v |-> The(FromValue(n))]

(* record_type_from_str *)
TypeOfWord(w) ==
  CASE w.k = "typeN" -> {w.v}
    [] w.k = "type" /\ w.v \in Known -> {Code[w.v]}
    [] OTHER -> {}

(* is_record_type: the words a line without an owner may start with *)
BareTypes == Known \ {"NSEC3PARAM", "DLV"}
IsRecordType(w) == w.k = "typeN" \/ (w.k = "type" /\ w.v \in BareTypes)

(* RecordClass *)
ClassCode == [IN |-> 1, CH |-> 3, HS |-> 4]
ClassOf(n) == {c \in DOMAIN ClassCode : ClassCode[c] = n}

-----------------------------------------------------------------------------
(* Escapes.                                                                *)

Backslash == 92
Quote == 34
Dot == 46
Semicolon == 59

Digit(c) == c \in 48..57
Printable(c) == c \in 32..126
Graphic(c) == c \in 33..126
Digits3(n) == <<48 + (n \div 100), 48 + ((n \div 10) % 10), 48 + (n % 10)>>
Decimal(a, b, c) == 100 * (a - 48) + 10 * (b - 48) + (c - 48)

(* The escape that text s has at i: \ and three digits stand for an octet, *)
(* \ and anything else for that character, \ at the end for nothing.       *)
EscapeAt(s, i) ==
  CASE i = Len(s) -> [kind |-> "cut", value |-> 0, width |-> 1]
    [] /\ i + 3 <= Len(s)
       /\ \A d \in 1..3 : Digit(s[i + d])
       -> [kind |-> "decimal", value |-> Decimal(s[i + 1], s[i + 2], s[i + 3]), width |-> 4]
    [] OTHER -> [kind |-> "literal", value |-> s[i + 1], width |-> 2]

(* Text as a sequence of plain characters and escapes *)
Units(s) ==
  LET from[i \in 1..(Len(s) + 1)] ==
        IF i > Len(s) THEN <<>>
        ELSE LET u == IF s[i] = Backslash THEN EscapeAt(s, i)
                      ELSE [kind |-> "plain", value |-> s[i], width |-> 1]
             IN <<u>> \o from[i + u.width]
  IN from[1]

Values(units) == [i \in DOMAIN units |-> units[i].value]
Broken(u) == u.kind = "cut" \/ (u.kind = "decimal" /\ u.value > 255)

-----------------------------------------------------------------------------
(* Domain names: a name is the sequence of its labels' text.               *)

Root == <<>>

(* decode_label; Label::new *)
LabelOctets(label) ==
  LET Wrong(u) == Broken(u) \/ (u.kind = "plain" /\ (~Graphic(u.value) \/ u.value = Dot))
  IN {Values(us) : us \in {x \in {Units(label)} : ~\E i \in DOMAIN x : Wrong(x[i])}}
IsLabel(label) == label # <<>> /\ \E octets \in LabelOctets(label) : Len(octets) <= MaxLabel

(* split_domain_labels: the text between dots that no escape covers *)
SplitLabels(s) ==
  LET from[i \in 1..(Len(s) + 1), start \in 1..(Len(s) + 1)] ==
        CASE i > Len(s) -> IF start = Len(s) + 1 THEN <<>> ELSE <<SubSeq(s, start, Len(s))>>
          [] i <= Len(s) /\ s[i] = Dot -> <<SubSeq(s, start, i - 1)>> \o from[i + 1, i + 1]
          [] i <= Len(s) /\ s[i] = Backslash -> from[i + EscapeAt(s, i).width, start]
          [] OTHER -> from[i + 1, start]
  IN from[1, 1]

(* DomainName::write_wire and write_wire_canonical *)
Counted(octets) == <<Len(octets)>> \o octets
NameOctets(name) == FlattenSeq([i \in DOMAIN name |-> Counted(The(LabelOctets(name[i])))]) \o <<0>>
Lower(c) == IF c \in 65..90 THEN c + 32 ELSE c
Lowered(octets) == [i \in DOMAIN octets |-> Lower(octets[i])]
CanonicalOctets(name) == Lowered(NameOctets(name))

(* DomainName::eq *)
SameName(a, b) == CanonicalOctets(a) = CanonicalOctets(b)

(* DomainName::new *)
DomainName(s) ==
  IF s = <<Dot>> THEN {Root}
  ELSE {n \in {SplitLabels(s)} : (\A i \in DOMAIN n : IsLabel(n[i])) /\ Len(NameOctets(n)) <= MaxName}

(* Display of a name *)
NameText(name) ==
  IF name = Root THEN <<Dot>> ELSE FlattenSeq([i \in DOMAIN name |-> name[i] \o <<Dot>>])

At == <<64>>

(* resolve_name, resolve_owner: @, absolute, or relative to the origin *)
ResolveName(s, origin) ==
  IF s = At THEN {origin} ELSE DomainName(IF Last(s) = Dot THEN s ELSE s \o <<Dot>> \o NameText(origin))
=============================================================================
