----------------------------- MODULE RecordPaths -----------------------------
(***************************************************************************)
(* The way of a zone's records through bind9-sdk: read from a zone file    *)
(* with its includes, written to a file and read again, sent to named in a *)
(* signed update, and fetched from named by a signed zone transfer.        *)
(*                                                                         *)
(* A transfer is one message here and its SOA is left out; Transfer models *)
(* the stream.                                                             *)
(***************************************************************************)
EXTENDS RecordFile, RecordNamed

CONSTANTS
  Included,         \* the files that may be included: their lines by name
  ZoneFiles,        \* the files a zone may start from, each its lines
  HeldZones,        \* the zones that named may have, each its records
  ZoneName,         \* the zone
  TheKey,           \* the key that client and named share
  Now,              \* the client's clock
  Clocks,           \* what named's clock may show
  MaxIncludeDepth,  \* 16 in the code
  MaxTrips          \* bound: how often the zone is written, sent or fetched

ASSUME RecordAssumption ==
  /\ MaxLabel \in 1..63 /\ MaxName \in 1..255 /\ MaxString \in 1..255
  /\ MaxDepth \in Nat \ {0} /\ MaxMessage \in 12..65535
  /\ MaxRecords \in Nat /\ MaxIncludeDepth \in Nat /\ MaxTrips \in Nat
  /\ \A t \in Clocks : t <= Now + Fudge /\ Now <= t + Fudge

VARIABLES
  text,     \* the logical lines of the zone's file
  stack,    \* the files being read: [file, line, saved], the innermost last
  ps,       \* the state of the parser
  zone,     \* the zone in memory, if there is one
  named,    \* the records of named, if it has any
  refused,  \* somebody refused the zone
  trips,    \* how often the zone was written, sent or fetched
  meaning,  \* what the records said at first, if they were read (history variable)
  places,   \* for each record read, the lines it was read at (history variable)
  fetched,  \* the records have come by a transfer (history variable)
  spoilt    \* a zone was written that a file cannot give back (history variable)

fileVars == <<text, stack, ps, places>>
vars == <<fileVars, zone, named, refused, trips, meaning, fetched, spoilt>>

Main == "zone file"
Lines(file) == IF file = Main THEN text ELSE Included[file]
Unsaved == [origin |-> {}, owner |-> {}]

(* What a record of the library says, in octets and numbers *)
Said(rr) ==
  LET r == rr.rdata
      OctetsOf(n) == IF Layout[r.type][Place(r.type, n)][2] = "name" THEN NameOctets(r.f[n]) ELSE r.f[n]
      f == IF r.type = "Unknown" THEN Fields(TypeName(r.f.rtype), r.f.rdata)
           ELSE {[n \in FieldNames(r.type) |-> OctetsOf(n)]}
  IN {[owner |-> NameOctets(rr.name), type |-> TypeValue(r), class |-> ClassCode[rr.class], ttl |-> rr.ttl, f |-> g] :
        g \in f}
AllSaid(rrs) == Collect([i \in DOMAIN rrs |-> Said(rrs[i])])

(* What a file does not give back: a string of a TXT with a backslash and  *)
(* the value of a CAA with one, which are unescaped twice; a quote in that *)
(* value and an octet above 127, which are written as they are; a tag that *)
(* is no single word.                                                      *)
LostText(said) ==
  \/ said.type = Code.TXT /\ \E i \in DOMAIN said.f.strings : Backslash \in ToSet(said.f.strings[i])
  \/ /\ said.type = Code.CAA
     /\ \/ \E c \in ToSet(said.f.value) : c \in {Backslash, Quote} \/ c > 127
        \/ said.f.tag = <<>> \/ (Breaks \cup {Backslash}) \cap ToSet(said.f.tag) # {}

(* A name that comes from named is kept with the characters that end a     *)
(* word of a file, or make it a directive.                                 *)
NamesOf(said) ==
  LET row == Layout[TypeName(said.type)]
  IN {said.owner} \cup {said.f[row[i][1]] : i \in {j \in DOMAIN row : row[j][2] = "name"}}
LostName(said) ==
  \/ \E n \in NamesOf(said) : (Breaks \ {9, 32}) \cap ToSet(n) # {}
  \/ Len(said.owner) > 1 /\ said.owner[2] = 36
Fragile(said) == LostText(said) \/ (fetched /\ LostName(said))

(* What a message does not carry: a salt or a tag that one octet cannot    *)
(* count; and from named, text of a CAA that is no UTF-8, for which a      *)
(* whole transfer is refused.                                              *)
Formless(said) ==
  \/ said.type = Code.CAA /\ ~(Utf8(said.f.tag) /\ Utf8(said.f.value))
  \/ \E n \in {"tag", "salt"} \cap FieldNames(TypeName(said.type)) : Len(said.f[n]) > 255

Init ==
  /\ stack \in {<<>>, <<[file |-> Main, line |-> 1, saved |-> Unsaved]>>}
  /\ IF stack = <<>> THEN /\ text = <<>>
                          /\ \E i \in DOMAIN HeldZones : named = {HeldZones[i]} /\ meaning = {HeldZones[i]}
                     ELSE /\ \E i \in DOMAIN ZoneFiles : text = ZoneFiles[i]
                          /\ named = {} /\ meaning = {}
  /\ ps = NewState /\ places = <<>> /\ zone = {}
  /\ refused = FALSE /\ trips = 0 /\ fetched = FALSE /\ spoilt = FALSE

-----------------------------------------------------------------------------
(* Reading a file.                                                         *)

Top == Last(stack)
Line == Lines(Top.file)[Top.line]
Reading == stack # <<>> /\ ~refused
AtLine == Reading /\ Top.line <= Len(Lines(Top.file))
AtEnd  == Reading /\ Top.line > Len(Lines(Top.file))
IsInclude == Line[1].k = "directive" /\ Line[1].v = "INCLUDE"
NextLine(frames) == [frames EXCEPT ![Len(frames)].line = @ + 1]
Here == [i \in DOMAIN stack |-> [file |-> stack[i].file, line |-> stack[i].line]]

Refuse == refused' = TRUE /\ UNCHANGED <<fileVars, zone, named, trips, meaning, fetched, spoilt>>
Parse(states, frames) ==
  IF states = {} THEN Refuse
  ELSE /\ ps' = The(states) /\ stack' = frames
       /\ places' = IF Len(ps'.records) > Len(ps.records) THEN Append(places, Here) ELSE places
       /\ UNCHANGED <<text, zone, named, refused, trips, meaning, fetched, spoilt>>

(* process_line *)
ProcessLine == AtLine /\ ~IsInclude /\ Parse(ReadLine(Line, ps), NextLine(stack))

(* process_line of an $INCLUDE, and the start of parse_into *)
Include ==
  /\ AtLine /\ IsInclude
  /\ LET found  == Len(Line) >= 2 /\ Line[2].v \in DOMAIN Included /\ Len(stack) <= MaxIncludeDepth
         states == IF found THEN {[ps EXCEPT !.origin = o] : o \in IncludeOrigin(Line, ps)} ELSE {}
     IN Parse(states, Append(stack, [file |-> Line[2].v, line |-> 1,
                                     saved |-> [origin |-> ps.origin, owner |-> ps.owner]]))

(* parse_into returns to the $INCLUDE. *)
LeaveInclude == AtEnd /\ Len(stack) > 1 /\ Parse({EndInclude(Top.saved, ps)}, NextLine(Front(stack)))

(* The end of parse_zone *)
FinishFile ==
  /\ AtEnd /\ Len(stack) = 1
  /\ IF ZoneOf(ps) = {} THEN Refuse
     ELSE /\ zone' = ZoneOf(ps) /\ stack' = <<>>
          /\ meaning' = IF meaning = {} THEN AllSaid(ps.records) ELSE meaning
          /\ UNCHANGED <<text, ps, places, named, refused, trips, fetched, spoilt>>

-----------------------------------------------------------------------------
(* What a zone in memory is used for.                                      *)

Idle == stack = <<>> /\ ~refused /\ trips < MaxTrips
Trip == trips' = trips + 1

(* ZoneFile::to_string, and ZoneFile::parse of that *)
WriteFile ==
  /\ Idle /\ zone # {} /\ Trip
  /\ text' = LogicalLines(Serialize(The(zone))) /\ zone' = {}
  /\ stack' = <<[file |-> Main, line |-> 1, saved |-> Unsaved]>> /\ ps' = NewState /\ places' = <<>>
  /\ spoilt' = (spoilt \/ \E rrs \in AllSaid(The(zone).records) : \E i \in DOMAIN rrs : Fragile(rrs[i]))
  /\ UNCHANGED <<named, refused, meaning, fetched>>

Id == 4660

(* UpdateBuilder::sign, NsUpdateSender::send over TCP, and named *)
SendUpdate(clock) ==
  /\ Idle /\ zone # {} /\ named = {} /\ Trip
  /\ LET z     == The(zone)
         query == {Sign(TheKey, msg, Now, {}) : msg \in EncodeUpdate(Id, z.origin, z.class, z.records)}
         taken == UNION {UNION {{[zone |-> u.zone, rrs |-> u.rrs, mac |-> a.mac] : u \in UpdateOf(a.plain)} :
                                  a \in Accepted(TheKey, m, {Now})} :
                           m \in UNION {UNION {Unframe(s) : s \in Frame(q.wire)} : q \in query}}
         Told(q, t) == UNION {UpdateResult(TheKey, Id, q.mac, m, Now) :
                                m \in UNION {Unframe(s) : s \in Frame(UpdateReply(TheKey, q.wire, t.zone, t.mac, clock))}}
         told  == UNION {UNION {Told(q, t) : t \in taken} : q \in query}
     IN IF told # {0} THEN refused' = TRUE /\ UNCHANGED named
        ELSE named' = {t.rrs : t \in taken} /\ UNCHANGED refused
  /\ UNCHANGED <<fileVars, zone, meaning, fetched, spoilt>>

(* A record of a transfer whose class has a name *)
Received(rr) == {[rr EXCEPT !.class = c] : c \in ClassOf(rr.class)}

(* encode_xfr_query, and the reading of the reply; the caller gives the    *)
(* records the name of the zone                                            *)
Transfer(clock, serial) ==
  /\ Idle /\ named # {} /\ Trip
  /\ LET query == Sign(TheKey, EncodeXfrQuery(Id, ZoneName, serial), Now, {})
         qtype == IF serial = {} THEN 252 ELSE 251
         asked == UNION {UNION {{[q |-> q, mac |-> a.mac] : q \in QueryOf(a.plain)} :
                                  a \in Accepted(TheKey, m, {Now})} :
                           m \in UNION {Unframe(s) : s \in Frame(query.wire)}}
         reply == UNION {UNION {Unframe(s) :
                                  s \in Frame(TransferReply(TheKey, query.wire, a.q, a.mac, The(named), clock))} :
                           a \in asked}
         plain == UNION {VerifiedTransfer(TheKey, Id, query.mac, m, Now) : m \in reply}
         rrs   == UNION {UNION {Answers(m, at) : at \in AnswersAt(m, ZoneName, qtype)} : m \in plain}
         known == UNION {Collect([i \in DOMAIN r |-> Received(r[i])]) : r \in rrs}
     IN IF known = {} THEN refused' = TRUE /\ UNCHANGED <<zone, fetched>>
        ELSE /\ zone' = {[origin |-> ZoneName, ttl |-> {}, class |-> "IN", records |-> r] : r \in known}
             /\ fetched' = TRUE /\ UNCHANGED refused
  /\ UNCHANGED <<fileVars, named, meaning, spoilt>>

Done == (refused \/ (stack = <<>> /\ trips = MaxTrips)) /\ UNCHANGED vars

Next ==
  \/ ProcessLine \/ Include \/ LeaveInclude \/ FinishFile \/ WriteFile
  \/ \E clock \in Clocks : SendUpdate(clock)
  \/ \E clock \in Clocks, serial \in {{}, {<<0, 0, 0, 7>>}} : Transfer(clock, serial)
  \/ Done

Spec == Init /\ [][Next]_vars

-----------------------------------------------------------------------------
(* Properties.                                                             *)

(* Whatever way a record takes, it says what it said when it was first     *)
(* read: owner, class, TTL, type and every field of its data               *)
(* (zone/rdata_text.rs, zone/rdata_dnssec.rs, update/message.rs,           *)
(* transfer/wire.rs), until a zone with a fragile record was written to a  *)
(* file.  PRD.md:316 ("Round-trips losslessly") and core/src/fuzz.rs:34    *)
(* promise the same without that reserve, which the code does not keep.    *)
RecordKept ==
  spoilt \/ \A first \in meaning : (\A z \in zone : first \in AllSaid(z.records)) /\ \A rrs \in named : rrs = first

(* What the library wrote it can read, what it sends named accepts, and    *)
(* what an honest named answers it accepts: once a zone was read, nothing  *)
(* is refused, unless it was written with a fragile record, or an update   *)
(* or a transfer met a record that the library has no form for.            *)
NothingRefused ==
  refused => \/ meaning = {} \/ spoilt
             \/ \E first \in meaning : \E i \in DOMAIN first : Formless(first[i])

(* The owner of a record by the text alone.  An origin is the last one set *)
(* in the same file before the line, else the one the file was included    *)
(* with, else that of the line which includes it; an owner is the last one *)
(* stated before the line in its file, else in the files that include it.  *)
OwnersAsWritten ==
  LET LineOf(place, d, n) == Lines(place[d].file)[n]
      From(s, origin) == IF Last(s) = Dot THEN DomainName(s) ELSE UNION {ResolveName(s, o) : o \in origin}
      Origin(place) ==
        LET origin[d \in DOMAIN place, n \in Nat] ==
              LET Sets(w) == w.k = "directive" /\ w.v = "ORIGIN"
                  set == {m \in 1..(n - 1) : Sets(LineOf(place, d, m)[1])}
                  include  == LineOf(place, d - 1, place[d - 1].line)
                  outer    == origin[d - 1, place[d - 1].line]
              IN CASE set # {} -> From(LineOf(place, d, Max(set))[2].v, origin[d, Max(set)])
                   [] set = {} /\ d = 1 -> {}
                   [] OTHER -> IF Len(include) < 3 THEN outer ELSE From(include[3].v, outer)
        IN origin
      Stated(place, d) ==
        {n \in 1..(IF d = Len(place) THEN place[d].line ELSE place[d].line - 1) : LineOf(place, d, n)[1].k = "name"}
      Owner(place) ==
        LET d == Max({e \in DOMAIN place : Stated(place, e) # {}})
            n == Max(Stated(place, d))
        IN From(LineOf(place, d, n)[1].v, Origin(place)[d, n])
  IN \A i \in DOMAIN places : {ps.records[i].name} = Owner(places[i])
=============================================================================
