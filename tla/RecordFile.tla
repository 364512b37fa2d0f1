----------------------------- MODULE RecordFile ------------------------------
(***************************************************************************)
(* Zone files of bind9-sdk-core: one logical line at a time as             *)
(* zone/parser/record.rs reads it, and all of them as zone/serializer.rs   *)
(* writes them.                                                            *)
(*                                                                         *)
(* A line is a sequence of words; its first word is blank if it begins     *)
(* with space.  A name or a tag that was written without quotes may hold   *)
(* characters that mean something to the tokenizer, so that other words    *)
(* are read than were written.  The state of the parser is a record; what  *)
(* may be missing in it is an option.                                      *)
(***************************************************************************)
EXTENDS RecordText

CONSTANT MaxRecords   \* records a parse accepts; 2^24 in the code

NewState == [origin |-> {}, zoneOrigin |-> {}, ttl |-> {}, class |-> "IN", owner |-> {}, records |-> <<>>]

-----------------------------------------------------------------------------
(* Lines.                                                                  *)

Breaks == {9, 32, Semicolon, Quote, 40, 41}

(* What the tokenizer makes of the text of a bare word where no backslash  *)
(* covers it: words, parentheses, a comment, or the begin of a quoted      *)
(* string.  Bound: no piece reads like a class, a type or a number.        *)
Pieces(w) ==
  LET Mark(c) == CASE c = Semicolon -> <<Word("comment", <<>>)>>
                   [] c = Quote -> <<Word("torn", <<>>)>>
                   [] c = 40 -> <<Word("open", <<>>)>>
                   [] c = 41 -> <<Word("close", <<>>)>>
                   [] c \in {9, 32} -> <<>>
      from[i \in 1..(Len(w.v) + 2), start \in 1..(Len(w.v) + 1)] ==
        LET piece == SubSeq(w.v, start, IF i > Len(w.v) THEN Len(w.v) ELSE i - 1)
            before == IF piece = <<>> THEN <<>> ELSE <<Word(w.k, piece)>>
        IN CASE i > Len(w.v) -> before
             [] i <= Len(w.v) /\ w.v[i] = Backslash -> from[i + 2, start]
             [] i <= Len(w.v) /\ w.v[i] \in Breaks -> before \o Mark(w.v[i]) \o from[i + 1, i + 1]
             [] OTHER -> from[i + 1, start]
  IN IF w.k \in {"name", "plain"} THEN from[1, 1] ELSE <<w>>

(* The tokens of a line of the text.  A comment is the rest of it.  So is  *)
(* a string that begins inside a name: it runs on to the next quote or the *)
(* end of the text, and the reader of a name refuses it, or the word too   *)
(* many.  Bound: no tag of a CAA holds a quote.                            *)
Tokens(ws) ==
  LET all  == FlattenSeq([i \in DOMAIN ws |-> Pieces(ws[i])])
      ends == {i \in DOMAIN all : all[i].k \in {"comment", "torn"}}
  IN IF ends = {} THEN all
     ELSE SubSeq(all, 1, IF all[Min(ends)].k = "torn" THEN Min(ends) ELSE Min(ends) - 1)

(* The lines of a text as the parser gets them: one goes on until the last *)
(* parenthesis of a line is not an open one, space at the begin of a line  *)
(* that goes on means nothing, and a line without words is none.           *)
LogicalLines(text) ==
  LET Paren(w) == w.k \in {"open", "close"}
      Take(st, line) ==
        LET all    == Tokens(line)
            words  == SelectSeq(all, LAMBDA w : ~Paren(w))
            parens == SelectSeq(all, Paren)
            here   == st.words \o IF st.inside /\ words # <<>> /\ words[1].k = "blank" THEN Tail(words) ELSE words
        IN IF IF parens = <<>> THEN st.inside ELSE Last(parens).k = "open"
           THEN [st EXCEPT !.words = here, !.inside = TRUE]
           ELSE [lines |-> Append(st.lines, here), words |-> <<>>, inside |-> FALSE]
      all == FoldLeft(Take, [lines |-> <<>>, words |-> <<>>, inside |-> FALSE], text)
  IN SelectSeq(Append(all.lines, all.words), LAMBDA ws : ws # <<>>)

IsDirective(ws) == ws[1].k = "directive" \/ (ws[1].k = "name" /\ ws[1].v[1] = 36)

(* The origin a directive names *)
OriginOf(w, ps) ==
  IF w.k # "name" THEN {}
  ELSE IF Last(w.v) = Dot THEN DomainName(w.v) ELSE UNION {ResolveName(w.v, o) : o \in ps.origin}

(* The states after a line, none if it is refused *)
OriginLine(ws, ps) ==
  {[ps EXCEPT !.origin = {o}, !.zoneOrigin = IF @ = {} THEN {o} ELSE @] :
     o \in IF Len(ws) < 2 THEN {} ELSE OriginOf(ws[2], ps)}

TtlLine(ws, ps) == {[ps EXCEPT !.ttl = {t}] : t \in IF Len(ws) < 2 THEN {} ELSE Ttls(ReadNumber(4, ws[2]))}

(* The owner, and how many words it took: none if the line begins with     *)
(* space, a class, a type or a number                                      *)
OwnerOf(ws, ps) ==
  LET w == ws[1]
  IN CASE w.k = "blank" -> {[name |-> o, words |-> 1] : o \in ps.owner}
       [] w.k \in {"class", "num"} \/ IsRecordType(w) -> {[name |-> o, words |-> 0] : o \in ps.owner}
       [] w.k = "name" -> {[name |-> o, words |-> 1] : o \in OriginOf(w, ps)}
       [] OTHER -> {}

(* A class and a TTL before the type, each at most once, in either order *)
HeadWords(ws) ==
  LET kinds == {"class", "num"}
  IN CASE Len(ws) >= 2 /\ {ws[1].k, ws[2].k} = kinds -> 2
       [] Len(ws) >= 1 /\ ~(Len(ws) >= 2 /\ {ws[1].k, ws[2].k} = kinds) /\ ws[1].k \in kinds -> 1
       [] OTHER -> 0

(* The record a line states.  Names in its data are relative to the origin *)
(* or, without one, to the owner; a class it gives becomes the default.    *)
RecordLine(ws, ps) ==
  LET State(owner, rest, n) ==
        LET head    == SubSeq(rest, 1, n)
            classes == {head[i].v : i \in {j \in 1..n : head[j].k = "class"}}
            given   == {i \in 1..n : head[i].k = "num"}
            class   == IF classes = {} THEN ps.class ELSE The(classes)
            ttls    == IF given = {} THEN ps.ttl ELSE Ttls(ReadNumber(4, head[The(given)]))
            origin  == IF ps.origin = {} THEN owner ELSE The(ps.origin)
        IN IF Len(rest) = n THEN {}
           ELSE {[ps EXCEPT !.owner = {owner}, !.class = class,
                            !.records = Append(@, [name |-> owner, class |-> class, ttl |-> t, rdata |-> d])] :
                   t \in ttls, d \in ParseRdata(rest[n + 1], SubSeq(rest, n + 2, Len(rest)), origin)}
  IN UNION {LET rest == SubSeq(ws, o.words + 1, Len(ws)) IN State(o.name, rest, HeadWords(rest)) :
              o \in OwnerOf(ws, ps)}

(* process_line, of every line but an $INCLUDE *)
ReadLine(ws, ps) ==
  CASE ws[1].k = "directive" /\ ws[1].v = "ORIGIN" -> OriginLine(ws, ps)
    [] ws[1].k = "directive" /\ ws[1].v = "TTL"    -> TtlLine(ws, ps)
    [] ~IsDirective(ws) -> {s \in RecordLine(ws, ps) : Len(s.records) <= MaxRecords}
    [] OTHER -> {}

(* An $INCLUDE: the origin its file starts with *)
IncludeOrigin(ws, ps) == IF Len(ws) < 3 THEN {ps.origin} ELSE {{o} : o \in OriginOf(ws[3], ps)}

(* The included file leaves its origin behind. *)
Bug_EndInclude(saved, ps) == [ps EXCEPT !.owner = saved.owner]

EndInclude(saved, ps) == [ps EXCEPT !.origin = saved.origin, !.owner = saved.owner]

(* The end of parse_zone: the zone, named by the first $ORIGIN or SOA *)
ZoneOf(ps) ==
  LET soas   == {i \in DOMAIN ps.records : ps.records[i].rdata.type = "SOA"}
      origin == IF ps.zoneOrigin # {} \/ soas = {} THEN ps.zoneOrigin
                ELSE {ps.records[CHOOSE i \in soas : \A j \in soas : i <= j].name}
  IN {[origin |-> o, ttl |-> ps.ttl, class |-> ps.class, records |-> ps.records] : o \in origin}

-----------------------------------------------------------------------------
(* serialize: an owner that is the one before is left out                  *)
Serialize(zone) ==
  LET rrs == zone.records
      Owner(i) == IF i > 1 /\ SameName(rrs[i - 1].name, rrs[i].name) THEN Word("blank", <<>>)
                  ELSE Word("name", NameText(rrs[i].name))
      Line(i) == <<Owner(i), Num(rrs[i].ttl), Word("class", rrs[i].class), TypeString(rrs[i].rdata)>>
                 \o SerializeRdata(rrs[i].rdata)
  IN <<<<Word("directive", "ORIGIN"), Word("name", NameText(zone.origin))>>>>
     \o FlattenSeq([i \in 1..Cardinality(zone.ttl) |-> <<<<Word("directive", "TTL"), Num(The(zone.ttl))>>>>])
     \o [i \in DOMAIN rrs |-> Line(i)]
=============================================================================
