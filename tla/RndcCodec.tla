----------------------------- MODULE RndcCodec -----------------------------
(***************************************************************************)
(* The isccc encoding of rndc messages (bind9-sdk-net rndc/protocol.rs)    *)
(* and their signature and verification (rndc/mod.rs).                     *)
(*                                                                         *)
(* The wire is a sequence of cells.  A cell stands for the bytes of one    *)
(* field: a number of four bytes, a key with its length, a type tag, or    *)
(* the bytes of a value, which are UTF-8 or not.  Lengths count cells.     *)
(* A value is a text, raw bytes, or a table from keys to values.           *)
(***************************************************************************)
EXTENDS Integers, Sequences, SequencesExt

CONSTANTS
  Window,      \* seconds a message is valid (60)
  MaxMessage,  \* the longest payload that is read (16 MiB)
  SerialMod,   \* the serial has 32 bits: SerialMod = 2^32
  NoNonce      \* before a nonce is known

ASSUME CodecAssumption == Window \in Nat /\ MaxMessage \in Nat /\ SerialMod \in Nat \ {0, 1}

Num(n)  == <<"num", n>>
Key(k)  == <<"key", k>>
Tag(t)  == <<"tag", t>>
Utf8(x) == <<"utf8", x>>
Raw(x)  == <<"raw", x>>

Text(x)   == [is |-> "string", v |-> x]
Binary(x) == [is |-> "binary", v |-> x]
Table(m)  == [is |-> "map", v |-> m]

IscVersion == 1
TypeBinary == 1
TypeTable  == 2
MaxDecodeDepth == 32

(* A BTreeMap is written in the order of its keys. *)
KeyOrder == <<"_auth", "_ctrl", "_data", "_exp", "_nonce", "_rpl", "_ser", "_tim",
              "err", "hsha", "result", "text", "type">>

Entry(k, tag, body) == <<Key(k), Tag(tag), Num(Len(body))>> \o body

(* The entries of a table, those of the keys it has.  The messages of the  *)
(* SDK are tables of tables.                                               *)
Leaf(v) == IF v.is = "string" THEN <<Utf8(v.v)>> ELSE <<Raw(v.v)>>

EncodeTable(m) ==
  FlattenSeq([i \in DOMAIN KeyOrder |->
    IF KeyOrder[i] \in DOMAIN m THEN Entry(KeyOrder[i], TypeBinary, Leaf(m[KeyOrder[i]]))
    ELSE <<>>])

EncodeMap(m) ==
  FlattenSeq([i \in DOMAIN KeyOrder |->
    IF KeyOrder[i] \notin DOMAIN m THEN <<>>
    ELSE IF m[KeyOrder[i]].is = "map"
    THEN Entry(KeyOrder[i], TypeTable, EncodeTable(m[KeyOrder[i]].v))
    ELSE Entry(KeyOrder[i], TypeBinary, Leaf(m[KeyOrder[i]]))])

Encode(m) == <<Num(IscVersion)>> \o EncodeMap(m)
FrameMessage(m) == LET payload == Encode(m) IN <<Num(Len(payload))>> \o payload

(* Reading fails with this. *)
Malformed == [is |-> "malformed"]

Insert(m, k, v) == [x \in DOMAIN m \cup {k} |-> IF x = k THEN v ELSE m[x]]
NoEntries == [k \in {} |-> Malformed]

(* A key, a type and a length that the cells up to the last can hold. *)
EntryAt(cells, first, last) ==
  /\ first + 2 <= last
  /\ cells[first][1] = "key" /\ cells[first + 1][1] = "tag" /\ cells[first + 2][1] = "num"
  /\ cells[first + 1][2] \in {TypeBinary, TypeTable}
  /\ cells[first + 2][2] \in 0..last - first - 2

(* A value of one cell: text if it is UTF-8. *)
LeafAt(cells, first, last) ==
  IF first # last THEN Malformed
  ELSE IF cells[first][1] = "utf8" THEN Text(cells[first][2])
  ELSE IF cells[first][1] = "raw" THEN Binary(cells[first][2])
  ELSE Malformed

(* The table in the cells from first to last, at some depth: one entry     *)
(* after another; a later one of the same key replaces it.                 *)
DecodeMap(cells) ==
  LET table[first \in 1..Len(cells) + 1] ==
        [depth \in 0..MaxDecodeDepth + 1 |-> [last \in 0..Len(cells) |->
          IF depth > MaxDecodeDepth THEN Malformed
          ELSE IF first > last THEN Table(NoEntries)
          ELSE IF ~EntryAt(cells, first, last) THEN Malformed
          ELSE LET body  == first + 3
                   end   == first + 2 + cells[first + 2][2]
                   value == IF cells[first + 1][2] = TypeTable THEN table[body][depth + 1][end]
                            ELSE LeafAt(cells, body, end)
                   rest  == table[end + 1][depth][last]
                   k     == cells[first][2]
               IN IF value = Malformed \/ rest = Malformed THEN Malformed
                  ELSE IF k \in DOMAIN rest.v THEN rest
                  ELSE Table(Insert(rest.v, k, value))]]
  IN table

Decode(payload) ==
  IF payload = <<>> \/ payload[1] # Num(IscVersion) THEN Malformed
  ELSE DecodeMap(payload)[2][0][Len(payload)]

(* Encoded again, in the order of this side's own maps. *)
Bug_ExtractHmacInput(payload) ==
  LET m == Decode(payload)
  IN IF m = Malformed THEN Malformed
     ELSE [is |-> "input",
           v |-> EncodeMap([k \in DOMAIN m.v \ {"_auth"} |-> m.v[k]])]

(* The cells after the _auth entry, which must be the first, as they came: *)
(* the peer's own order of keys is what it signed.                         *)
ExtractHmacInput(payload) ==
  LET end == 4 + payload[4][2] IN
  IF Len(payload) < 4 \/ payload[2] # Key("_auth") \/ payload[4][1] # "num"
     \/ end > Len(payload) THEN Malformed
  ELSE [is |-> "input", v |-> SubSeq(payload, end + 1, Len(payload))]

-----------------------------------------------------------------------------
(* Messages.  A key is its algorithm and its secret.                       *)

AlgorithmBytes ==
  [a \in {"hmac-sha1", "hmac-sha256", "hmac-sha512"} |->
     CASE a = "hmac-sha1" -> 161 [] a = "hmac-sha256" -> 163 [] a = "hmac-sha512" -> 165]
Usable(key) == key.algorithm \in DOMAIN AlgorithmBytes

(* The 89 bytes of _auth.hsha: the algorithm, the MAC in base64, padding.  *)
(* The first byte is never UTF-8.                                          *)
Hsha(key, body) == [byte |-> AlgorithmBytes[key.algorithm], secret |-> key.secret, over |-> body]

CtrlTable(serial, now, nonce) ==
  LET ctrl == [_ser |-> Text(serial), _tim |-> Text(now), _exp |-> Text(now + Window)]
  IN IF nonce = NoNonce THEN ctrl ELSE Insert(ctrl, "_nonce", Text(nonce))

DataTable(words) == [type |-> Text(words)]

Signed(key, ctrl, data) ==
  LET body == [_ctrl |-> Table(ctrl), _data |-> Table(data)]
      hsha == [hsha |-> Binary(Hsha(key, EncodeMap(body)))]
  IN Insert(body, "_auth", Table(hsha))

CommandFrame(key, serial, now, nonce, words) ==
  FrameMessage(Signed(key, CtrlTable(serial, now, nonce), DataTable(words)))

WrappingNext(serial) == (serial + 1) % SerialMod
-----------------------------------------------------------------------------
(* verify_authenticated_response, check by check.                          *)

MapString(m, k) ==
  IF k \in DOMAIN m /\ m[k].is = "string" THEN <<m[k].v>> ELSE <<>>
GetMap(m, k) == IF k \in DOMAIN m /\ m[k].is = "map" THEN m[k].v ELSE NoEntries

VerifyHmac(key, input, auth) ==
  /\ "hsha" \in DOMAIN auth /\ auth["hsha"].is = "binary"
  /\ auth["hsha"].v = Hsha(key, input)

(* The serial is not compared. *)
Bug_ValidControl(ctrl, serial, now, nonce) ==
  /\ \E t \in now..now + Window : /\ MapString(ctrl, "_tim") = <<t>>
                                  /\ MapString(ctrl, "_exp") = <<t + Window>>
  /\ MapString(ctrl, "_rpl") = <<"1">>
  /\ nonce = NoNonce \/ MapString(ctrl, "_nonce") = <<nonce>>

(* The reply is for this serial, made after the request and no later than  *)
(* the window, valid as long as the request, a reply, and of this session. *)
ValidControl(ctrl, serial, now, nonce) ==
  /\ MapString(ctrl, "_ser") = <<serial>>
  /\ \E t \in now..now + Window : /\ MapString(ctrl, "_tim") = <<t>>
                                  /\ MapString(ctrl, "_exp") = <<t + Window>>
  /\ MapString(ctrl, "_rpl") = <<"1">>
  /\ MapString(ctrl, "_nonce") # <<>>
  /\ nonce = NoNonce \/ MapString(ctrl, "_nonce") = <<nonce>>

Verified(key, m, input, serial, now, nonce, words) ==
  /\ {"_auth", "_ctrl", "_data"} \subseteq {k \in DOMAIN m : m[k].is = "map"}
  /\ VerifyHmac(key, input, GetMap(m, "_auth"))
  /\ ValidControl(GetMap(m, "_ctrl"), serial, now, nonce)
  /\ MapString(GetMap(m, "_data"), "type") \in {<<>>, <<words>>}

(* read_isc_message: a length, then that many cells.  Nothing can be said  *)
(* of a stream that does not hold a whole message yet.                     *)
BadLength(cell) == IF cell[1] = "num" THEN cell[2] \notin 1..MaxMessage ELSE TRUE
FrameEnd(stream) == IF BadLength(stream[1]) THEN 1 ELSE 1 + stream[1][2]
Arrived(stream) == stream # <<>> /\ Len(stream) >= FrameEnd(stream)

(* A message read off the stream: the reply with its signed cells, or an   *)
(* error.                                                                  *)
ReadMessage(stream) ==
  LET payload == SubSeq(stream, 2, FrameEnd(stream))
      input == ExtractHmacInput(payload)
      message == Decode(payload)
  IN IF FrameEnd(stream) = 1 THEN [is |-> "protocol"]
     ELSE IF input = Malformed THEN [is |-> "unauthentic"]
     ELSE IF message = Malformed THEN [is |-> "protocol"]
     ELSE [is |-> "message", v |-> message.v, input |-> input.v]

(* The text of a reply: text, or else the other fields as they are. *)
ResponseText(data) ==
  IF "text" \in DOMAIN data THEN data["text"].v
  ELSE FlattenSeq([i \in DOMAIN KeyOrder |->
         IF KeyOrder[i] \in DOMAIN data \ {"result", "type"} THEN data[KeyOrder[i]].v ELSE <<>>])
=============================================================================
