----------------------------- MODULE RecordWords -----------------------------
(***************************************************************************)
(* The words of a zone file and the values they spell (bind9-sdk-core      *)
(* zone/parser/tokenizer.rs and the helpers of zone/rdata_text.rs and      *)
(* zone/rdata_dnssec.rs).  A word is [k, v]: its kind and what it spells.  *)
(***************************************************************************)
EXTENDS RecordTypes

CONSTANT MaxString   \* octets of a character-string; 255 in the code

Word(kind, value) == [k |-> kind, v |-> value]

-----------------------------------------------------------------------------
(* Words.                                                                  *)

WithoutZeros(o) == IF \A i \in DOMAIN o : o[i] = 0 THEN <<>>
                   ELSE SubSeq(o, CHOOSE i \in DOMAIN o : o[i] # 0 /\ \A j \in 1..(i - 1) : o[j] = 0, Len(o))
Num(octets) == Word("num", WithoutZeros(octets))

(* str::parse of an unsigned number of so many octets *)
ReadNumber(width, w) ==
  IF w.k = "num" /\ Len(w.v) <= width THEN {[i \in 1..(width - Len(w.v)) |-> 0] \o w.v} ELSE {}

(* Ttl::new *)
Ttls(numbers) == {n \in numbers : n[1] < 128}

(* The next token of a quoted string: escapes up to 127 are decoded, those *)
(* above are kept as they are, and one above 255 is its first digit.  An   *)
(* octet above 127 is taken for the character of that number, which is two *)
(* octets of the String it is pushed to.                                   *)
Unquote(s) ==
  LET us == Units(s)
      Kept(u) == CASE u.kind = "decimal" /\ u.value \in 128..255 -> <<Backslash>> \o Digits3(u.value)
                   [] u.kind = "decimal" /\ u.value > 255 -> Digits3(u.value)
                   [] u.kind = "cut" -> <<Backslash>>
                   [] u.kind \in {"plain", "literal"} /\ u.value > 127 ->
                          <<192 + (u.value \div 64), 128 + (u.value % 64)>>
                   [] OTHER -> <<u.value>>
  IN FlattenSeq([i \in DOMAIN us |-> Kept(us[i])])

TokenText(w) == IF w.k = "quoted" THEN Unquote(w.v) ELSE w.v

(* decode_character_string *)
DecodeCharacterString(s) ==
  LET us == Units(s) IN IF \E i \in DOMAIN us : Broken(us[i]) THEN {} ELSE {Values(us)}

(* TxtString::new *)
TxtString(octets) == {o \in {octets} : Len(o) <= MaxString}

(* serialize_txt *)
EscapeCharacter(c) ==
  CASE c \in {Quote, Backslash} -> <<Backslash, c>>
    [] c \notin {Quote, Backslash} /\ Printable(c) -> <<c>>
    [] OTHER -> <<Backslash>> \o Digits3(c)
EscapeString(octets) == FlattenSeq([i \in DOMAIN octets |-> EscapeCharacter(octets[i])])

-----------------------------------------------------------------------------
(* Times and type bitmaps.                                                 *)

(* days_from_date *)
DaysFromDate(year, month, day) ==
  LET y   == IF month <= 2 THEN year - 1 ELSE year
      yoe == y % 400
      doy == (153 * (IF month > 2 THEN month - 3 ELSE month + 9) + 2) \div 5 + (day - 1)
      doe == yoe * 365 + (yoe \div 4 - yoe \div 100) + doy
  IN (y \div 400) * 146097 + doe - 719468

(* date_from_days *)
DateFromDays(days) ==
  LET z   == days + 719468
      doe == z % 146097
      yoe == ((doe - doe \div 1460) + (doe \div 36524 - doe \div 146096)) \div 365
      doy == doe - (365 * yoe + (yoe \div 4 - yoe \div 100))
      mp  == (5 * doy + 2) \div 153
      m   == IF mp < 10 THEN mp + 3 ELSE mp - 9
  IN <<yoe + (z \div 146097) * 400 + (IF m <= 2 THEN 1 ELSE 0), m, doy - (153 * mp + 2) \div 5 + 1>>

(* The second of the day is left as it is. *)
Bug_FormatTimestamp(octets) ==
  LET t == FoldLeft(LAMBDA a, o : [q |-> 256 * a.q + ((256 * a.r + o) \div 86400), r |-> (256 * a.r + o) % 86400],
                    [q |-> 0, r |-> 0], octets)
  IN Word("stamp", DateFromDays(t.q) \o <<t.r \div 3600, t.r \div 60, t.r % 60>>)

(* format_timestamp: a division of all 32 bits by 86400 *)
FormatTimestamp(octets) ==
  LET t == FoldLeft(LAMBDA a, o : [q |-> 256 * a.q + ((256 * a.r + o) \div 86400), r |-> (256 * a.r + o) % 86400],
                    [q |-> 0, r |-> 0], octets)
  IN Word("stamp", DateFromDays(t.q) \o <<t.r \div 3600, (t.r % 3600) \div 60, t.r % 60>>)

(* parse_timestamp: a number that has not 14 digits, else a date *)
ParseTimestamp(w) ==
  IF w.k # "stamp" THEN ReadNumber(4, w)
  ELSE LET days == DaysFromDate(w.v[1], w.v[2], w.v[3])
           low  == 20864 * days + 3600 * w.v[4] + 60 * w.v[5] + w.v[6]   \* 86400 = 65536 + 20864
       IN {U16((days + low \div 65536) % 65536) \o U16(low % 65536)}

(* encode_type_bitmap *)
EncodeTypeBitmap(words) ==
  LET Window(nums, w) ==
        LET bits == {n % 256 : n \in {m \in nums : m \div 256 = w}}
            octet(b) == FoldSet(LAMBDA n, sum : sum + 2 ^ (7 - (n % 8)), 0, {n \in bits : n \div 8 = b})
            len == Max(bits) \div 8 + 1
        IN <<w, len>> \o [b \in 1..len |-> octet(b - 1)]
      Windows(nums) == LET ws == SetToSortSeq({n \div 256 : n \in nums}, <)
                       IN FlattenSeq([i \in DOMAIN ws |-> Window(nums, ws[i])])
  IN {Windows(ToSet(all)) : all \in Collect([i \in DOMAIN words |-> TypeOfWord(words[i])])}

(* decode_type_bitmap: the words of its types; a window cut short ends it *)
DecodeTypeBitmap(bitmap) ==
  LET Bits(w, octets) == {n \in 0..(8 * Len(octets) - 1) :
                            (octets[n \div 8 + 1] \div (2 ^ (7 - (n % 8)))) % 2 = 1}
      from[i \in 1..(Len(bitmap) + 1)] ==
        IF i >= Len(bitmap) \/ i + 1 + bitmap[i + 1] > Len(bitmap) THEN <<>>
        ELSE LET octets == SubSeq(bitmap, i + 2, i + 1 + bitmap[i + 1])
                 ns == SetToSortSeq(Bits(bitmap[i], octets), <)
             IN [j \in DOMAIN ns |-> TypeWord(256 * bitmap[i] + ns[j])] \o from[i + 2 + bitmap[i + 1]]
  IN from[1]
=============================================================================
