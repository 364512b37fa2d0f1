------------------------------ MODULE MCRecords ------------------------------
(* A zone z. in files with includes, and one of every type of record *)
EXTENDS RecordPaths

N(codes) == Word("name", codes)
T(type) == Word("type", type)
Quoted(codes) == Word("quoted", codes)
Blank == Word("blank", <<>>)
IN_ == Word("class", "IN")
One == Num(<<1>>)

(* Z is z. and A is a, B is b.z. and so on *)
Z == <<122, 46>>
A == <<97>>
B == <<98>>
BZ == <<98, 46, 122, 46>>

Origin(name) == <<Word("directive", "ORIGIN"), N(name)>>
Ttl == <<Word("directive", "TTL"), Num(<<14, 16>>)>>
Include1(file) == <<Word("directive", "INCLUDE"), Word("file", file)>>
Include2(file, name) == Append(Include1(file), N(name))
Address(n) == <<T("A"), Word("ip4", <<10, 0, 0, n>>)>>
Ns(name) == <<T("NS"), N(name)>>

Soa == <<N(At), IN_, T("SOA"), N(A), N(<<104, 46, 122, 46>>), Num(<<255, 255, 255, 255>>), Num(<<1>>), Num(<<2>>),
         Num(<<127, 255, 255, 255>>), Num(<<>>)>>

MCIncluded ==
  [one |-> << <<N(A)>> \o Address(1), <<Blank>> \o Address(2) >>,
   two |-> << <<Blank>> \o Address(3), Origin(B), <<N(At)>> \o Ns(A), Include1("one") >>,
   three |-> << Include1("three") >>]

Start == << Origin(Z), Ttl >>

(* Owners, origins, classes and TTLs left out, and includes that change    *)
(* what they inherit                                                       *)
Files == <<
  Start \o << Soa, <<N(A)>> \o Address(1), <<Blank>> \o Address(2), <<IN_>> \o Address(3), <<One>> \o Ns(At) >>,
  Start \o << <<N(A)>> \o Ns(B), Include1("one"), <<Blank>> \o Address(4), <<N(A)>> \o Ns(A) >>,
  Start \o << <<N(B)>> \o Ns(B), Include2("one", B), <<Blank>> \o Address(4), <<N(A)>> \o Ns(A) >>,
  Start \o << <<N(B)>> \o Ns(B), Include2("two", A), <<N(A)>> \o Address(5) >>,
  Start \o << <<N(BZ), IN_, One>> \o Ns(Z), Include1("two"), <<Blank, Num(<<2, 0>>), IN_>> \o Ns(At) >>,
  Start \o << Origin(B), <<N(At)>> \o Ns(A), Origin(A), <<N(A)>> \o Ns(At), <<N(BZ)>> \o Ns(BZ) >>,
  << Soa >>, << Ttl, <<N(Z)>> \o Tail(Soa), <<Blank>> \o Ns(A) >>, << <<N(Z)>> \o Ns(BZ) >>,
  Start \o << Include1("three") >>, Start \o << Include1("one"), Include2("two", BZ) >> >>

(* One line of every type                                                  *)
Types == <<
  <<T("AAAA"), Word("ip6", [i \in 1..16 |-> i])>>, <<T("CNAME"), N(<<92, 46, 97, 92, 48, 48, 55>>)>>, <<T("PTR"), N(BZ)>>,
  <<T("MX"), Num(<<1, 0>>), N(B)>>, <<T("SRV"), Num(<<>>), Num(<<255, 255>>), Num(<<2>>), N(At)>>,
  <<T("TXT"), Quoted(<<97, 32, 59, 34>>), Quoted(<<92, 50, 53, 53, 92, 48, 48, 57>>), Word("plain", A), Quoted(<<>>)>>,
  <<T("CAA"), Num(<<128>>), Word("plain", <<105>>), Quoted(<<99, 59, 100>>)>>,
  <<T("DNSKEY"), Num(<<1, 1>>), Num(<<3>>), Num(<<13>>), Word("b64", <<9, 8>>), Word("b64", <<7>>)>>,
  <<T("CDNSKEY"), Num(<<1, 0>>), Num(<<3>>), Num(<<13>>), Word("b64", <<1>>)>>,
  <<T("DS"), Num(<<2, 3>>), Num(<<8>>), Num(<<2>>), Word("hex", <<1, 2>>), Word("hex", <<3>>)>>,
  <<T("CDS"), Num(<<2, 3>>), Num(<<8>>), Num(<<4>>), Word("hex", <<1, 2>>)>>,
  <<T("DLV"), Num(<<2, 3>>), Num(<<8>>), Num(<<1>>), Word("hex", <<5>>)>>,
  <<T("RRSIG"), Word("typeN", 300), Num(<<8>>), Num(<<2>>), Num(<<255, 0, 0, 1>>), Word("stamp", <<2038, 1, 19, 3, 14, 8>>),
    Word("stamp", <<2024, 2, 29, 23, 59, 59>>), Num(<<7>>), N(Z), Word("b64", <<1, 2, 3>>)>>,
  <<T("NSEC"), N(B), T("A"), T("NSEC3PARAM"), T("CAA"), T("DLV"), Word("typeN", 65535)>>, <<T("NSEC"), N(At)>>,
  <<T("NSEC3"), One, Num(<<>>), Num(<<10>>), Word("hex", <<170>>), Word("b32", <<1, 2, 3>>), T("NS"), T("CDS"), T("CDNSKEY")>>,
  <<T("NSEC3"), One, One, Num(<<>>), Word("dash", <<>>), Word("b32", <<4>>)>>,
  <<T("NSEC3PARAM"), One, Num(<<>>), Num(<<1, 44>>), Word("hex", <<171, 205>>)>>,
  <<T("TLSA"), Num(<<3>>), One, Num(<<2>>), Word("hex", <<1>>)>>, <<T("SSHFP"), Num(<<4>>), Num(<<2>>), Word("hex", <<6>>)>>,
  <<T("CSYNC"), Num(<<1, 0, 0>>), Num(<<3>>), T("A"), T("AAAA")>>, <<T("RP"), N(A), N(At)>>,
  <<Word("typeN", 65280), Word("hash", <<>>), Num(<<2>>), Word("hex", <<1, 2>>)>>,
  <<Word("typeN", 1), Word("hash", <<>>), Num(<<4>>), Word("hex", <<10, 0, 0, 1>>)>>,
  <<T("TXT"), Word("plain", <<97, 92, 92>>)>>, <<T("CAA"), Num(<<>>), Word("plain", <<105>>), Quoted(<<92, 34>>)>>,
  <<T("NS"), N(<<92, 59, 97>>)>>, <<T("TLSA"), Num(<<4>>), One, Num(<<2>>), Word("hex", <<1>>)>>,
  <<T("TXT"), Quoted(<<92, 92>>)>>, <<T("CAA"), Num(<<>>), Quoted(<<97, 32, 98>>), Quoted(<<99>>)>>,
  <<T("CAA"), Num(<<>>), Word("plain", <<105>>), Quoted(<<195, 169>>)>>,
  <<T("NSEC3PARAM"), One, Num(<<>>), Num(<<>>), Word("hex", [i \in 1..256 |-> 7])>> >>

MCZoneFiles == Files \o [i \in DOMAIN Types |-> Start \o << <<N(A)>> \o Types[i] >>]

(* Records that named may have from elsewhere: octets of any value in a    *)
(* name, also those that mean something in a zone file, no data, classes,  *)
(* and the value of a CAA that is UTF-8 or is not                          *)
Held(owner, type, class, f) == [owner |-> owner, type |-> type, class |-> class, ttl |-> <<127, 255, 255, 255>>, f |-> f]
ZName == <<1, 122, 0>>
MCHeldZones == <<
  << Held(<<3, 0, 46, 92>> \o ZName, 2, 1, [name |-> <<2, 200, 32>> \o ZName]),
     Held(<<2, 42, 64>> \o ZName, 15, 1, [preference |-> <<0, 10>>, exchange |-> <<0>>]),
     Held(<<1, 64>> \o ZName, 5, 3, [name |-> <<3, 0, 46, 92>> \o ZName]) >>,
  << Held(ZName, 6, 1, [mname |-> <<1, 97>> \o ZName, rname |-> <<1, 97, 1, 97>> \o ZName, serial |-> <<0, 0, 0, 1>>,
                        refresh |-> <<0, 0, 0, 1>>, retry |-> <<0, 0, 0, 2>>, expire |-> <<0, 0, 0, 3>>,
                        minimum |-> <<127, 255, 255, 255>>]),
     Held(ZName, 16, 1, [strings |-> <<<<>>, <<34, 59, 10>>>>]),
     Held(<<1, 97>> \o ZName, 50, 1, [hash_algorithm |-> <<1>>, flags |-> <<0>>, iterations |-> <<0, 0>>, salt |-> <<>>,
                                       next_hashed_owner |-> <<1>>, type_bitmaps |-> <<>>]),
     Held(<<1, 97>> \o ZName, 65281, 4, [rdata |-> <<>>]),
     Held(<<1, 97>> \o ZName, 257, 1, [flags |-> <<0>>, tag |-> <<105>>, value |-> <<>>]) >>,
  << Held(<<3, 97, 59, 98>> \o ZName, 2, 1, [name |-> ZName]) >>,
  << Held(ZName, 2, 1, [name |-> <<2, 97, 59>> \o ZName]) >>,
  << Held(<<2, 36, 97>> \o ZName, 2, 1, [name |-> ZName]) >>,
  << Held(<<2, 40, 97>> \o ZName, 2, 1, [name |-> ZName]) >>,
  << Held(<<2, 40, 97>> \o ZName, 2, 1, [name |-> ZName]), Held(<<1, 98>> \o ZName, 2, 1, [name |-> ZName]),
     Held(<<2, 41, 98>> \o ZName, 2, 1, [name |-> ZName]) >>,
  << Held(ZName, 2, 1, [name |-> <<3, 97, 40, 98>> \o ZName]) >>,
  << Held(ZName, 2, 1, [name |-> <<2, 97, 34>> \o ZName]) >>,
  << Held(<<1, 97>> \o ZName, 2, 1, [name |-> ZName]), Held(<<2, 59, 98>> \o ZName, 2, 1, [name |-> ZName]),
     Held(<<2, 59, 98>> \o ZName, 2, 1, [name |-> <<1, 97>> \o ZName]) >>,
  << Held(ZName, 257, 1, [flags |-> <<0>>, tag |-> <<105>>, value |-> <<195, 169>>]) >>,
  << Held(ZName, 257, 1, [flags |-> <<0>>, tag |-> <<105>>, value |-> <<97, 200>>]) >> >>

MCZone == <<<<122>>>>
MCKey == Key(<<<<107>>, <<107, 50>>>>, "HmacSha256", 7)
=============================================================================
