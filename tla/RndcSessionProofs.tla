------------------------- MODULE RndcSessionProofs -------------------------
(***************************************************************************)
(* Proofs about rndc sessions: the limiter neither loses nor invents a     *)
(* slot; what is encoded is what is decoded; and a caller is told what     *)
(* named did with its command, whatever is dropped half way.               *)
(***************************************************************************)
EXTENDS RndcCommandProofs

-----------------------------------------------------------------------------
(* The limiter, by itself. *)

(* Slots add up only because nobody can be in the queue twice or queue     *)
(* while holding a slot: taking a slot must add a new holder.              *)
LimiterInv ==
  /\ permits \in Nat
  /\ waiting \in Seq(Users)
  /\ IsFiniteSet(holding)
  /\ \A i, j \in DOMAIN waiting : waiting[i] = waiting[j] => i = j
  /\ \A i \in DOMAIN waiting : waiting[i] \notin holding
  /\ SlotsBounded

LEMMA SlotsNat == Slots \in Nat
  BY LimiterAssumption DEF Slots, DefaultMaxConcurrent

LEMMA LimiterInitial == LimiterInit => LimiterInv
  BY SlotsNat, FS_EmptySet DEF LimiterInit, LimiterInv, SlotsBounded

LEMMA EnqueueKeeps ==
  ASSUME LimiterInv, NEW u \in Users, Enqueue(u) PROVE LimiterInv'
<1>1. waiting' = Append(waiting, u) /\ waiting' \in Seq(Users) /\ Len(waiting') = Len(waiting) + 1
  BY DEF Enqueue, LimiterInv
<1>2. DOMAIN waiting' = 1..Len(waiting) + 1 /\ DOMAIN waiting = 1..Len(waiting)
  BY <1>1 DEF LimiterInv
<1>3. \A i \in DOMAIN waiting' : waiting'[i] = IF i = Len(waiting) + 1 THEN u ELSE waiting[i]
  BY <1>1, <1>2 DEF LimiterInv
<1>4. \A i, j \in DOMAIN waiting' : waiting'[i] = waiting'[j] => i = j
  BY <1>2, <1>3 DEF Enqueue, LimiterInv
<1>5. \A i \in DOMAIN waiting' : waiting'[i] \notin holding'
  BY <1>2, <1>3 DEF Enqueue, LimiterInv
<1> QED BY <1>1, <1>4, <1>5, SlotsNat DEF Enqueue, LimiterInv, SlotsBounded

LEMMA AcquireKeeps ==
  ASSUME LimiterInv, NEW u \in Users, Acquire(u) PROVE LimiterInv'
<1>1. waiting # <<>> /\ waiting[1] = u /\ waiting' = Tail(waiting) /\ waiting \in Seq(Users)
  BY DEF Acquire, LimiterInv
<1>2. waiting' \in Seq(Users) /\ Len(waiting) \in Nat \ {0} /\ Len(waiting') = Len(waiting) - 1
  BY <1>1
<1>3. \A i \in DOMAIN waiting' : waiting'[i] = waiting[i + 1] /\ i + 1 \in DOMAIN waiting
  BY <1>1, <1>2
<1>4. u \notin holding
  BY <1>1, <1>2 DEF LimiterInv
<1>5. Cardinality(holding') = Cardinality(holding) + 1 /\ IsFiniteSet(holding')
  BY <1>4, FS_AddElement DEF Acquire, LimiterInv
<1>6. Cardinality(holding) \in Nat
  BY FS_CardinalityType DEF LimiterInv
<1>7. permits' \in Nat /\ SlotsBounded'
  BY <1>5, <1>6, SlotsNat DEF Acquire, LimiterInv, SlotsBounded
<1>8. \A i, j \in DOMAIN waiting' : waiting'[i] = waiting'[j] => i = j
  BY <1>2, <1>3 DEF LimiterInv
<1>9. \A i \in DOMAIN waiting' : waiting'[i] \notin holding'
  <2> SUFFICES ASSUME NEW i \in DOMAIN waiting' PROVE waiting'[i] \notin holding'
    OBVIOUS
  <2>1. waiting'[i] = waiting[i + 1] /\ i + 1 \in DOMAIN waiting /\ i + 1 # 1 /\ 1 \in DOMAIN waiting
    BY <1>1, <1>2, <1>3
  <2>2. waiting[i + 1] # u /\ waiting[i + 1] \notin holding
    BY <1>1, <2>1 DEF LimiterInv
  <2> QED BY <2>1, <2>2 DEF Acquire
<1> QED BY <1>2, <1>5, <1>7, <1>8, <1>9 DEF LimiterInv

LEMMA LeaveKeeps ==
  ASSUME LimiterInv, NEW u \in Users, Leave(u) PROVE LimiterInv'
<1>1. PICK k \in DOMAIN waiting :
        /\ waiting' = [j \in 1..(Len(waiting) - 1) |-> waiting[IF j < k THEN j ELSE j + 1]]
        /\ UNCHANGED <<permits, holding>>
  BY DEF Leave
<1> DEFINE From(j) == IF j < k THEN j ELSE j + 1
<1>2. DOMAIN waiting = 1..Len(waiting) /\ Len(waiting) \in Nat /\ \A i \in DOMAIN waiting : waiting[i] \in Users
  BY DEF LimiterInv
<1>3. \A j \in 1..(Len(waiting) - 1) : From(j) \in DOMAIN waiting
  BY <1>2
<1>4. waiting' \in Seq(Users) /\ DOMAIN waiting' = 1..(Len(waiting) - 1)
  BY <1>1, <1>2, <1>3
<1>5. \A j \in DOMAIN waiting' : waiting'[j] = waiting[From(j)]
  BY <1>1, <1>4
<1>6. \A i, j \in DOMAIN waiting' : waiting'[i] = waiting'[j] => i = j
  <2> SUFFICES ASSUME NEW i \in DOMAIN waiting', NEW j \in DOMAIN waiting', waiting'[i] = waiting'[j] PROVE i = j
    OBVIOUS
  <2>1. From(i) = From(j)
    BY <1>3, <1>4, <1>5 DEF LimiterInv
  <2> QED BY <2>1, <1>2, <1>4
<1>7. \A j \in DOMAIN waiting' : waiting'[j] \notin holding'
  BY <1>1, <1>3, <1>4, <1>5 DEF LimiterInv
<1> HIDE DEF From
<1> QED BY <1>1, <1>4, <1>6, <1>7, SlotsNat DEF LimiterInv, SlotsBounded

LEMMA ReleaseKeeps ==
  ASSUME LimiterInv, NEW u \in Users, Release(u) PROVE LimiterInv'
<1>1. Cardinality(holding') = Cardinality(holding) - 1 /\ IsFiniteSet(holding')
  BY FS_RemoveElement DEF Release, LimiterInv
<1>2. Cardinality(holding) \in Nat
  BY FS_CardinalityType DEF LimiterInv
<1>3. permits' \in Nat /\ SlotsBounded'
  BY <1>1, <1>2, SlotsNat DEF Release, LimiterInv, SlotsBounded
<1> QED BY <1>1, <1>3 DEF Release, LimiterInv

(* Free and taken slots of the limiter add up to its size in every state,  *)
(* for any users and any maximum, 0 (the default) included.                *)
THEOREM LimiterSlots == LimiterSpec => []SlotsBounded
<1>1. LimiterInv /\ [LimiterNext]_limiterVars => LimiterInv'
  <2> SUFFICES ASSUME LimiterInv, [LimiterNext]_limiterVars PROVE LimiterInv'
    OBVIOUS
  <2>1. CASE LimiterNext
    BY <2>1, EnqueueKeeps, AcquireKeeps, LeaveKeeps, ReleaseKeeps DEF LimiterNext
  <2>2. CASE UNCHANGED limiterVars
    BY <2>2 DEF limiterVars, LimiterInv, SlotsBounded
  <2> QED BY <2>1, <2>2
<1>2. LimiterInv => SlotsBounded
  BY DEF LimiterInv
<1> QED BY LimiterInitial, <1>1, <1>2, PTL DEF LimiterSpec

-----------------------------------------------------------------------------
(* DecodeMap, taken entry by entry. *)
DecodeEntry(f, cells, first, depth, last) ==
  IF depth > MaxDecodeDepth THEN Malformed
  ELSE IF first > last THEN Table(NoEntries)
  ELSE IF ~EntryAt(cells, first, last) THEN Malformed
  ELSE LET body  == first + 3
           end   == first + 2 + cells[first + 2][2]
           value == IF cells[first + 1][2] = TypeTable THEN f[body][depth + 1][end]
                    ELSE LeafAt(cells, body, end)
           rest  == f[end + 1][depth][last]
           k     == cells[first][2]
       IN IF value = Malformed \/ rest = Malformed THEN Malformed
          ELSE IF k \in DOMAIN rest.v THEN rest
          ELSE Table(Insert(rest.v, k, value))

DecodeRow(f, cells, first) ==
  [depth \in 0..MaxDecodeDepth + 1 |-> [last \in 0..Len(cells) |->
     DecodeEntry(f, cells, first, depth, last)]]

IsDecoding(f, cells, a) == f = [first \in a..Len(cells) + 1 |-> DecodeRow(f, cells, first)]

LEMMA DecodeMapChosen ==
  ASSUME NEW cells
  PROVE  DecodeMap(cells) = CHOOSE f : IsDecoding(f, cells, 1)
  BY DEF DecodeMap, IsDecoding, DecodeRow, DecodeEntry

(* An entry looks at later positions only. *)
AgreeAfter(f, g, cells, first) == \A x \in first + 1..Len(cells) + 1 : f[x] = g[x]

LEMMA DecodeEntryLater ==
  ASSUME NEW cells, NEW f, NEW g, NEW first, NEW depth, NEW last,
         IsSeq(cells), first \in Nat, last \in 0..Len(cells), AgreeAfter(f, g, cells, first)
  PROVE  DecodeEntry(f, cells, first, depth, last) = DecodeEntry(g, cells, first, depth, last)
<1>1. PICK n \in Nat : n = Len(cells)
  BY SeqFacts
<1>2. CASE ~EntryAt(cells, first, last)
  BY <1>2 DEF DecodeEntry
<1>3. CASE EntryAt(cells, first, last)
  <2>1. PICK c : c = cells[first + 2][2]
    OBVIOUS
  <2>2. first + 2 <= last /\ c \in 0..last - first - 2 /\ last \in 0..n
    BY <1>1, <1>3, <2>1 DEF EntryAt
  <2>3. first + 3 \in first + 1..n + 1 /\ (first + 2 + c) + 1 \in first + 1..n + 1
    BY <2>2
  <2>4. f[first + 3] = g[first + 3] /\ f[(first + 2 + c) + 1] = g[(first + 2 + c) + 1]
    BY <1>1, <2>3 DEF AgreeAfter
  <2>5. QED
    BY <2>1, <2>4 DEF DecodeEntry
<1>4. QED
  BY <1>2, <1>3

LEMMA DecodeRowLater ==
  ASSUME NEW cells, NEW f, NEW g, IsSeq(cells), NEW first \in Nat,
         AgreeAfter(f, g, cells, first)
  PROVE  DecodeRow(f, cells, first) = DecodeRow(g, cells, first)
<1>1. MaxDecodeDepth + 1 = 33
  BY DEF MaxDecodeDepth
<1>2. \A depth \in 0..33, last \in 0..Len(cells) :
        DecodeEntry(f, cells, first, depth, last) = DecodeEntry(g, cells, first, depth, last)
  <2> TAKE depth \in 0..33, last \in 0..Len(cells)
  <2> QED
    BY DecodeEntryLater
<1>3. QED
  BY <1>1, <1>2 DEF DecodeRow

LEMMA DecodeExists ==
  ASSUME NEW cells, IsSeq(cells)
  PROVE  \E f : IsDecoding(f, cells, 1)
<1>1. PICK n \in Nat : n = Len(cells)
  BY SeqFacts
<1> DEFINE S == {k \in Nat : k <= n + 1 => \E f : IsDecoding(f, cells, n + 2 - k)}
<1>2. 0 \in S
  <2>1. (n + 2 - 0)..n + 1 = {}
    OBVIOUS
  <2>2. IsDecoding([x \in {} |-> 0], cells, n + 2 - 0)
    BY <1>1, <2>1 DEF IsDecoding
  <2>3. QED
    BY <2>2
<1>3. ASSUME NEW k \in Nat, k \in S PROVE k + 1 \in S
  <2>1. SUFFICES ASSUME k + 1 <= n + 1 PROVE \E f : IsDecoding(f, cells, n + 2 - (k + 1))
    OBVIOUS
  <2>2. PICK f : IsDecoding(f, cells, n + 2 - k)
    BY <1>3, <2>1
  <2>3. PICK a \in Nat : a = n + 2 - (k + 1) /\ n + 2 - k = a + 1 /\ a >= 1 /\ a <= n + 1
    BY <2>1
  <2>4. f = [first \in a + 1..n + 1 |-> DecodeRow(f, cells, first)]
    BY <1>1, <2>2, <2>3 DEF IsDecoding
  <2>5. PICK g : g = [first \in a..n + 1 |->
                        IF first = a THEN DecodeRow(f, cells, a) ELSE f[first]]
    OBVIOUS
  <2>6. \A x \in a + 1..n + 1 : f[x] = g[x] /\ f[x] = DecodeRow(f, cells, x)
    <3> SUFFICES ASSUME NEW x \in a + 1..n + 1
                 PROVE  f[x] = g[x] /\ f[x] = DecodeRow(f, cells, x)
      OBVIOUS
    <3>1. x \in a..n + 1 /\ x # a
      BY <2>3
    <3>2. g[x] = f[x]
      BY <2>5, <3>1
    <3>3. f[x] = DecodeRow(f, cells, x)
      BY <2>4
    <3>4. QED
      BY <3>2, <3>3
  <2>7. ASSUME NEW first \in a..n + 1
        PROVE  DecodeRow(f, cells, first) = DecodeRow(g, cells, first)
    <3>1. first \in Nat /\ \A x \in first + 1..n + 1 : x \in a + 1..n + 1
      BY <2>3
    <3>2. AgreeAfter(f, g, cells, first)
      BY <1>1, <2>6, <3>1 DEF AgreeAfter
    <3>3. QED
      BY <3>1, <3>2, DecodeRowLater
  <2>8. ASSUME NEW first \in a..n + 1
        PROVE  g[first] = DecodeRow(g, cells, first)
    <3>1. first # a => first \in a + 1..n + 1
      BY <2>3
    <3>2. g[first] = DecodeRow(f, cells, first)
      BY <2>5, <2>6, <3>1
    <3>3. QED
      BY <3>2, <2>7
  <2>9. g = [first \in a..n + 1 |-> g[first]]
    BY <2>5
  <2>10. g = [first \in a..n + 1 |-> DecodeRow(g, cells, first)]
    BY <2>8, <2>9
  <2>11. IsDecoding(g, cells, a)
    BY <1>1, <2>10 DEF IsDecoding
  <2>12. QED
    BY <2>3, <2>11
<1> HIDE DEF S
<1>4. n + 1 \in S
  BY <1>2, <1>3, AllNat
<1>5. n + 2 - (n + 1) = 1
  OBVIOUS
<1>6. QED
  BY <1>4, <1>5 DEF S

LEMMA DecodeMapStep ==
  ASSUME NEW cells, IsSeq(cells), NEW first \in 1..Len(cells) + 1, NEW depth \in 0..33,
         NEW last \in 0..Len(cells)
  PROVE  DecodeMap(cells)[first][depth][last]
           = DecodeEntry(DecodeMap(cells), cells, first, depth, last)
<1>1. PICK f : f = DecodeMap(cells)
  OBVIOUS
<1>2. IsDecoding(f, cells, 1)
  BY <1>1, DecodeMapChosen, DecodeExists
<1>3. f[first] = DecodeRow(f, cells, first)
  BY <1>2 DEF IsDecoding
<1>4. MaxDecodeDepth + 1 = 33
  BY DEF MaxDecodeDepth
<1>5. DecodeRow(f, cells, first)[depth][last] = DecodeEntry(f, cells, first, depth, last)
  BY <1>4 DEF DecodeRow
<1>6. QED
  BY <1>1, <1>3, <1>5

LEMMA TableShape ==
  ASSUME NEW m
  PROVE  /\ Table(m) # Malformed /\ Table(m).v = m /\ Table(m).is = "map"
         /\ \A n : Table(m) = Table(n) => m = n
<1>1. Table(m).is = "map" /\ Malformed.is = "malformed"
  BY DEF Table, Malformed
<1>2. Table(m).v = m /\ \A n : Table(n).v = n
  BY DEF Table
<1>3. QED
  BY <1>1, <1>2

LEMMA DecodeEnd ==
  ASSUME NEW cells, IsSeq(cells), NEW first \in 1..Len(cells) + 1, NEW depth \in 0..32,
         NEW last \in 0..Len(cells), first > last
  PROVE  DecodeMap(cells)[first][depth][last] = Table(NoEntries)
<1>1. MaxDecodeDepth = 32
  BY DEF MaxDecodeDepth
<1>2. depth \in 0..33 /\ ~(depth > MaxDecodeDepth)
  BY <1>1
<1>3. QED
  BY <1>2, DecodeMapStep DEF DecodeEntry

(* An entry with a value of one cell, and what is read after it. *)
LeafStands(cells, first, depth, last, k, v, m) ==
  /\ IsSeq(cells) /\ first \in 1..Len(cells) + 1 /\ depth \in 0..32 /\ last \in 0..Len(cells)
  /\ first + 3 <= last /\ cells[first] = Key(k) /\ cells[first + 1] = Tag(TypeBinary)
  /\ cells[first + 2] = Num(1) /\ LeafAt(cells, first + 3, first + 3) = v /\ v # Malformed
  /\ DecodeMap(cells)[first + 4][depth][last] = Table(m) /\ k \notin DOMAIN m

LEMMA DecodeLeaf ==
  ASSUME NEW cells, NEW first, NEW depth, NEW last, NEW k, NEW v, NEW m,
         LeafStands(cells, first, depth, last, k, v, m)
  PROVE  DecodeMap(cells)[first][depth][last] = Table(Insert(m, k, v))
<1> USE DEF LeafStands
<1>1. MaxDecodeDepth = 32
  BY DEF MaxDecodeDepth
<1>2. depth \in 0..33 /\ ~(depth > MaxDecodeDepth) /\ ~(first > last)
  BY <1>1
<1>3. cells[first][1] = "key" /\ cells[first][2] = k
  BY DEF Key
<1>4. cells[first + 1][1] = "tag" /\ cells[first + 1][2] = 1
  BY DEF Tag, TypeBinary
<1>5. cells[first + 2][1] = "num" /\ cells[first + 2][2] = 1
  BY DEF Num
<1>6. first + 2 <= last /\ 1 \in 0..last - first - 2
  BY <1>2
<1>7. EntryAt(cells, first, last)
  BY <1>3, <1>4, <1>5, <1>6 DEF EntryAt, TypeBinary, TypeTable
<1>8. first + 2 + 1 = first + 3 /\ (first + 2 + 1) + 1 = first + 4 /\ 1 # TypeTable
  BY DEF TypeTable
<1>9. Table(m) # Malformed /\ Table(m).v = m
  BY TableShape
<1>10. DecodeEntry(DecodeMap(cells), cells, first, depth, last) = Table(Insert(m, k, v))
  BY <1>2, <1>3, <1>4, <1>5, <1>7, <1>8, <1>9 DEF DecodeEntry
<1>11. QED
  BY <1>2, <1>10, DecodeMapStep

(* An entry with a table of n cells, and what is read after it. *)
TableStands(cells, first, depth, last, k, n, x, m) ==
  /\ IsSeq(cells) /\ first \in 1..Len(cells) + 1 /\ depth \in 0..32 /\ last \in 0..Len(cells)
  /\ n \in Nat /\ first + 2 + n <= last
  /\ cells[first] = Key(k) /\ cells[first + 1] = Tag(TypeTable) /\ cells[first + 2] = Num(n)
  /\ DecodeMap(cells)[first + 3][depth + 1][first + 2 + n] = Table(x)
  /\ DecodeMap(cells)[first + 3 + n][depth][last] = Table(m) /\ k \notin DOMAIN m

LEMMA DecodeTable ==
  ASSUME NEW cells, NEW first, NEW depth, NEW last, NEW k, NEW n, NEW x, NEW m,
         TableStands(cells, first, depth, last, k, n, x, m)
  PROVE  DecodeMap(cells)[first][depth][last] = Table(Insert(m, k, Table(x)))
<1> USE DEF TableStands
<1>1. MaxDecodeDepth = 32
  BY DEF MaxDecodeDepth
<1>2. depth \in 0..33 /\ ~(depth > MaxDecodeDepth) /\ ~(first > last)
  BY <1>1
<1>3. cells[first][1] = "key" /\ cells[first][2] = k
  BY DEF Key
<1>4. cells[first + 1][1] = "tag" /\ cells[first + 1][2] = TypeTable
  BY DEF Tag
<1>5. cells[first + 2][1] = "num" /\ cells[first + 2][2] = n
  BY DEF Num
<1>6. first + 2 <= last /\ n \in 0..last - first - 2
  BY <1>2
<1>7. EntryAt(cells, first, last)
  BY <1>3, <1>4, <1>5, <1>6 DEF EntryAt
<1>8. (first + 2 + n) + 1 = first + 3 + n
  OBVIOUS
<1>9. Table(m) # Malformed /\ Table(m).v = m /\ Table(x) # Malformed
  BY TableShape
<1>10. DecodeEntry(DecodeMap(cells), cells, first, depth, last) = Table(Insert(m, k, Table(x)))
  BY <1>2, <1>3, <1>4, <1>5, <1>7, <1>8, <1>9 DEF DecodeEntry
<1>11. QED
  BY <1>2, <1>10, DecodeMapStep

LEMMA InsertedKeys ==
  ASSUME NEW m, NEW k, NEW v
  PROVE  DOMAIN Insert(m, k, v) = DOMAIN m \cup {k}
  BY DEF Insert

LEMMA InsertedValue ==
  ASSUME NEW m, NEW k, NEW v
  PROVE  /\ Insert(m, k, v)[k] = v
         /\ \A x \in DOMAIN m : x # k => Insert(m, k, v)[x] = m[x]
  BY DEF Insert

LEMMA InsertedString ==
  ASSUME NEW m, NEW k, NEW v
  PROVE  /\ v.is = "string" => MapString(Insert(m, k, v), k) = <<v.v>>
         /\ v.is # "string" => MapString(Insert(m, k, v), k) = <<>>
         /\ \A x : x # k => MapString(Insert(m, k, v), x) = MapString(m, x)
<1>1. Insert(m, k, v)[k] = v /\ k \in DOMAIN Insert(m, k, v)
  BY DEF Insert
<1>2. v.is = "string" => MapString(Insert(m, k, v), k) = <<v.v>>
  BY <1>1 DEF MapString
<1>3. v.is # "string" => MapString(Insert(m, k, v), k) = <<>>
  BY <1>1 DEF MapString
<1>4. ASSUME NEW x, x # k PROVE MapString(Insert(m, k, v), x) = MapString(m, x)
  <2>1. x \in DOMAIN Insert(m, k, v) <=> x \in DOMAIN m
    BY <1>4 DEF Insert
  <2>2. x \in DOMAIN m => Insert(m, k, v)[x] = m[x]
    BY <1>4 DEF Insert
  <2>3. QED
    BY <2>1, <2>2 DEF MapString
<1>5. QED
  BY <1>2, <1>3, <1>4

-----------------------------------------------------------------------------
(* FlattenSeq, one sequence after the other. *)
IsFlat(f, qs, n) == f = [i \in 1..n |-> IF i = 1 THEN qs[i] ELSE f[i - 1] \o qs[i]]

(* The recursive function of FlattenSeq exists for every length. *)
LEMMA FlatExists ==
  ASSUME NEW qs, NEW n \in Nat
  PROVE  \E f : IsFlat(f, qs, n)
<1> DEFINE Flat(f, k) == f = [i \in 1..k |-> IF i = 1 THEN qs[i] ELSE f[i - 1] \o qs[i]]
           S == {k \in Nat : \E f : Flat(f, k)}
<1>1. 0 \in S
  <2>1. 1..0 = {}
    OBVIOUS
  <2>2. Flat([i \in {} |-> 0], 0)
    BY <2>1
  <2>3. QED
    BY <2>2
<1>2. ASSUME NEW k \in Nat, k \in S
      PROVE  k + 1 \in S
  <2>1. PICK f : Flat(f, k)
    BY <1>2
  <2> DEFINE g == [i \in 1..(k + 1) |->
                     IF i <= k THEN f[i] ELSE IF i = 1 THEN qs[i] ELSE f[k] \o qs[i]]
  <2>2. ASSUME NEW i \in 1..(k + 1)
        PROVE  g[i] = IF i = 1 THEN qs[i] ELSE g[i - 1] \o qs[i]
    <3>1. CASE i <= k
      <4>1. i \in 1..k /\ (i # 1 => i - 1 \in 1..k /\ i - 1 \in 1..(k + 1) /\ i - 1 <= k)
        BY <3>1
      <4>2. f[i] = IF i = 1 THEN qs[i] ELSE f[i - 1] \o qs[i]
        BY <2>1, <4>1
      <4>3. g[i] = f[i] /\ (i # 1 => g[i - 1] = f[i - 1])
        BY <3>1, <4>1
      <4>4. QED
        BY <4>2, <4>3
    <3>2. CASE ~(i <= k)
      <4>1. i = k + 1 /\ i - 1 = k
        BY <3>2
      <4>2. i # 1 => k \in 1..(k + 1) /\ k <= k
        BY <4>1
      <4>3. i # 1 => g[i - 1] = f[k]
        BY <4>1, <4>2
      <4>4. g[i] = IF i = 1 THEN qs[i] ELSE f[k] \o qs[i]
        BY <3>2
      <4>5. QED
        BY <4>3, <4>4
    <3>3. QED
      BY <3>1, <3>2
  <2>3. g = [i \in 1..(k + 1) |-> g[i]]
    OBVIOUS
  <2> HIDE DEF g
  <2>4. Flat(g, k + 1)
    BY <2>2, <2>3
  <2>5. k + 1 \in Nat
    BY <1>2
  <2> HIDE DEF Flat
  <2>6. QED
    BY <2>4, <2>5
<1>3. n \in S
  BY <1>1, <1>2, AllNat
<1> HIDE DEF Flat
<1>4. PICK f : Flat(f, n)
  BY <1>3
<1> USE DEF Flat
<1>5. IsFlat(f, qs, n)
  BY <1>4 DEF IsFlat
<1>6. QED
  BY <1>5, Zenon

(* g is the part of the flat sequence after each of its pieces. *)
IsFlatTrace(g, qs, n) ==
  /\ g[0] = <<>> /\ g[n] = FlattenSeq(qs)
  /\ \A k \in 0..n : IsSeq(g[k])
  /\ \A k \in 0..n - 1 : g[k + 1] = g[k] \o qs[k + 1]

LEMMA FlatSteps ==
  ASSUME NEW n, NEW qs, n \in Nat \ {0}, qs = [i \in 1..n |-> qs[i]],
         \A i \in 1..n : IsSeq(qs[i])
  PROVE  \E g : IsFlatTrace(g, qs, n)
<1>1. Len(qs) = n
  BY SeqMade
<1>2. PICK f : IsFlat(f, qs, n)
  BY FlatExists
<1>3. FlattenSeq(qs) = (CHOOSE h : IsFlat(h, qs, n))[n]
  BY <1>1 DEF FlattenSeq, IsFlat
<1>4. PICK h : h = CHOOSE x : IsFlat(x, qs, n)
  OBVIOUS
<1>5. IsFlat(h, qs, n)
  BY <1>2, <1>4
<1>6. PICK g : g = [k \in 0..n |-> IF k = 0 THEN <<>> ELSE h[k]]
  OBVIOUS
<1>7. g[0] = <<>>
  BY <1>6
<1>8. n \in 0..n /\ n # 0
  OBVIOUS
<1>9. g[n] = FlattenSeq(qs)
  BY <1>3, <1>4, <1>6, <1>8
<1>10. \A k \in 1..n : h[k] = IF k = 1 THEN qs[k] ELSE h[k - 1] \o qs[k]
  BY <1>5 DEF IsFlat
<1>11. \A k \in 0..n - 1 : g[k + 1] = g[k] \o qs[k + 1]
  <2> SUFFICES ASSUME NEW k \in 0..n - 1 PROVE g[k + 1] = g[k] \o qs[k + 1]
    OBVIOUS
  <2>1. k + 1 \in 1..n /\ k + 1 \in 0..n /\ k + 1 # 0 /\ k \in 0..n
    OBVIOUS
  <2>2. g[k + 1] = h[k + 1]
    BY <1>6, <2>1
  <2>3. h[k + 1] = IF k + 1 = 1 THEN qs[k + 1] ELSE h[(k + 1) - 1] \o qs[k + 1]
    BY <1>10, <2>1
  <2>4. CASE k = 0
    <3>1. g[k] \o qs[k + 1] = qs[k + 1]
      BY <1>7, <2>1, <2>4, SeqConcatEmpty
    <3>2. k + 1 = 1
      BY <2>4
    <3>3. QED
      BY <2>2, <2>3, <3>1, <3>2
  <2>5. CASE k # 0
    <3>1. g[k] = h[k] /\ (k + 1) - 1 = k /\ k + 1 # 1
      BY <1>6, <2>1, <2>5
    <3>2. QED
      BY <2>2, <2>3, <3>1
  <2>6. QED
    BY <2>4, <2>5
<1>12. \A k \in 0..n : IsSeq(g[k])
  <2> DEFINE S == {k \in Nat : k <= n => IsSeq(g[k])}
  <2>1. 0 \in S
    BY <1>7, SeqEmpty
  <2>2. ASSUME NEW k \in Nat, k \in S PROVE k + 1 \in S
    <3>1. SUFFICES ASSUME k + 1 <= n PROVE IsSeq(g[k + 1])
      OBVIOUS
    <3>2. k \in 0..n - 1 /\ k + 1 \in 1..n
      BY <3>1
    <3>3. IsSeq(g[k]) /\ IsSeq(qs[k + 1])
      BY <2>2, <3>2
    <3>4. IsSeq(g[k] \o qs[k + 1])
      BY <3>3, SeqConcat
    <3>5. QED
      BY <1>11, <3>2, <3>4
  <2> HIDE DEF S
  <2>3. Nat \subseteq S
    BY <2>1, <2>2, AllNat
  <2>4. QED
    BY <2>3 DEF S
<1>13. QED
  BY <1>7, <1>9, <1>11, <1>12 DEF IsFlatTrace

-----------------------------------------------------------------------------
(* Cells that read as a table wherever they stand, and cells that add an   *)
(* entry to what is read after them.                                       *)
Reads(s, depth, m) ==
  /\ IsSeq(s)
  /\ \A cells, i : Holds(cells, i, s) =>
       DecodeMap(cells)[i][depth][i + Len(s) - 1] = Table(m)

EntryReads(piece, depth, k, v) ==
  /\ IsSeq(piece)
  /\ \A cells, i, last, m :
       (/\ Holds(cells, i, piece) /\ last \in 0..Len(cells) /\ i + Len(piece) - 1 <= last
        /\ DecodeMap(cells)[i + Len(piece)][depth][last] = Table(m) /\ k \notin DOMAIN m)
       => DecodeMap(cells)[i][depth][last] = Table(Insert(m, k, v))

LEMMA EntrySeq ==
  ASSUME NEW k, NEW t, NEW body, IsSeq(body)
  PROVE  /\ IsSeq(Entry(k, t, body)) /\ Len(Entry(k, t, body)) = 3 + Len(body)
         /\ Entry(k, t, body)[1] = Key(k) /\ Entry(k, t, body)[2] = Tag(t)
         /\ Entry(k, t, body)[3] = Num(Len(body))
         /\ \A i \in 1..Len(body) : Entry(k, t, body)[3 + i] = body[i]
<1>1. PICK h : h = <<Key(k), Tag(t), Num(Len(body))>>
  OBVIOUS
<1>2. IsSeq(h) /\ Len(h) = 3 /\ h[1] = Key(k) /\ h[2] = Tag(t) /\ h[3] = Num(Len(body))
  BY <1>1, SeqThree
<1>3. PICK e : e = h \o body
  OBVIOUS
<1>4. Entry(k, t, body) = e
  BY <1>1, <1>3 DEF Entry
<1>5. IsSeq(e) /\ Len(e) = Len(h) + Len(body)
  BY <1>2, <1>3, SeqConcat
<1>6. \A i \in 1..Len(h) : e[i] = h[i]
  BY <1>2, <1>3, SeqConcat
<1>7. \A i \in 1..Len(body) : e[Len(h) + i] = body[i]
  <2>1. IsSeq(h) /\ IsSeq(body)
    BY <1>2
  <2>2. \A i \in 1..Len(body) : (h \o body)[Len(h) + i] = body[i]
    BY ONLY <2>1, SeqConcat
  <2>3. QED
    BY <1>3, <2>2
<1>8. 1 \in 1..Len(h) /\ 2 \in 1..Len(h) /\ 3 \in 1..Len(h)
  BY <1>2
<1>9. e[1] = Key(k) /\ e[2] = Tag(t) /\ e[3] = Num(Len(body))
  BY <1>2, <1>6, <1>8
<1>10. QED
  BY <1>2, <1>4, <1>5, <1>7, <1>9

(* Where an entry stands, its body stands after three cells. *)
LEMMA EntryHeld ==
  ASSUME NEW cells, NEW i, NEW k, NEW t, NEW body, IsSeq(body),
         Holds(cells, i, Entry(k, t, body))
  PROVE  /\ IsSeq(cells) /\ i \in Nat /\ i >= 1 /\ i + 2 + Len(body) <= Len(cells)
         /\ cells[i] = Key(k) /\ cells[i + 1] = Tag(t) /\ cells[i + 2] = Num(Len(body))
         /\ Holds(cells, i + 3, body)
<1>1. PICK h : h = <<Key(k), Tag(t), Num(Len(body))>>
  OBVIOUS
<1>2. IsSeq(h) /\ Len(h) = 3 /\ h[1] = Key(k) /\ h[2] = Tag(t) /\ h[3] = Num(Len(body))
  BY <1>1, SeqThree
<1>3. Holds(cells, i, h \o body)
  BY <1>1 DEF Entry
<1>4. Holds(cells, i, h) /\ Holds(cells, i + Len(h), body)
  BY <1>2, <1>3, HoldsConcat
<1>5. PICK b \in Nat : b = Len(body)
  BY SeqFacts
<1>6. PICK n \in Nat : n = Len(cells)
  BY <1>4, SeqFacts DEF Holds
<1>7. IsSeq(cells) /\ i \in 1..n + 1 /\ \A j \in 1..3 : cells[i + j - 1] = h[j]
  BY <1>2, <1>4, <1>6 DEF Holds
<1>8. cells[i + 1 - 1] = h[1] /\ cells[i + 2 - 1] = h[2] /\ cells[i + 3 - 1] = h[3]
  BY <1>7
<1>9. i + 1 - 1 = i /\ i + 2 - 1 = i + 1 /\ i + 3 - 1 = i + 2 /\ i \in Nat /\ i >= 1
  BY <1>7
<1>10. Holds(cells, i + 3, body)
  BY <1>2, <1>4
<1>11. (i + 3) + b <= n + 1
  BY <1>5, <1>6, <1>10 DEF Holds
<1>12. i + 2 + b <= n
  BY <1>7, <1>11
<1>13. QED
  BY <1>2, <1>5, <1>6, <1>7, <1>8, <1>9, <1>10, <1>12

(* A leaf is a text or raw bytes. *)
Leafy(v) == \E x : v = Text(x) \/ v = Binary(x)

LEMMA LeafCell ==
  ASSUME NEW v, Leafy(v)
  PROVE  /\ IsSeq(Leaf(v)) /\ Len(Leaf(v)) = 1 /\ v # Malformed /\ v.is # "map"
         /\ \A cells, p : cells[p] = Leaf(v)[1] => LeafAt(cells, p, p) = v
<1>1. PICK x : v = Text(x) \/ v = Binary(x)
  BY DEF Leafy
<1>2. CASE v = Text(x)
  <2>1. v.is = "string" /\ v.v = x
    BY <1>2 DEF Text
  <2>2. Leaf(v) = <<Utf8(x)>>
    BY <2>1 DEF Leaf
  <2>3. IsSeq(Leaf(v)) /\ Len(Leaf(v)) = 1 /\ Leaf(v)[1] = Utf8(x)
    BY <2>2, SeqOne
  <2>4. Utf8(x)[1] = "utf8" /\ Utf8(x)[2] = x
    BY DEF Utf8
  <2>5. \A cells, p : cells[p] = Leaf(v)[1] => LeafAt(cells, p, p) = v
    BY <1>2, <2>3, <2>4 DEF LeafAt
  <2>6. Malformed.is = "malformed"
    BY DEF Malformed
  <2>7. QED
    BY <2>1, <2>3, <2>5, <2>6
<1>3. CASE v = Binary(x)
  <2>1. v.is = "binary" /\ v.v = x
    BY <1>3 DEF Binary
  <2>2. Leaf(v) = <<Raw(x)>>
    BY <2>1 DEF Leaf
  <2>3. IsSeq(Leaf(v)) /\ Len(Leaf(v)) = 1 /\ Leaf(v)[1] = Raw(x)
    BY <2>2, SeqOne
  <2>4. Raw(x)[1] = "raw" /\ Raw(x)[2] = x
    BY DEF Raw
  <2>5. \A cells, p : cells[p] = Leaf(v)[1] => LeafAt(cells, p, p) = v
    BY <1>3, <2>3, <2>4 DEF LeafAt
  <2>6. Malformed.is = "malformed"
    BY DEF Malformed
  <2>7. QED
    BY <2>1, <2>3, <2>5, <2>6
<1>4. QED
  BY <1>1, <1>2, <1>3

LEMMA LeafReads ==
  ASSUME NEW k, NEW v, NEW depth, Leafy(v), depth \in 0..32
  PROVE  EntryReads(Entry(k, TypeBinary, Leaf(v)), depth, k, v)
<1>1. PICK piece : piece = Entry(k, TypeBinary, Leaf(v))
  OBVIOUS
<1>2. IsSeq(Leaf(v)) /\ Len(Leaf(v)) = 1 /\ v # Malformed
  BY LeafCell
<1>3. IsSeq(piece) /\ Len(piece) = 3 + Len(Leaf(v))
  <2>1. IsSeq(Leaf(v))
    BY <1>2
  <2>2. IsSeq(Entry(k, TypeBinary, Leaf(v)))
    BY <2>1, EntrySeq
  <2>3. Len(Entry(k, TypeBinary, Leaf(v))) = 3 + Len(Leaf(v))
    BY <2>1, EntrySeq
  <2>4. QED
    BY <1>1, <2>2, <2>3
<1>4. Len(piece) = 4
  BY <1>2, <1>3
<1>5. ASSUME NEW cells, NEW i, NEW last, NEW m,
             Holds(cells, i, piece), last \in 0..Len(cells), i + Len(piece) - 1 <= last,
             DecodeMap(cells)[i + Len(piece)][depth][last] = Table(m), k \notin DOMAIN m
      PROVE  DecodeMap(cells)[i][depth][last] = Table(Insert(m, k, v))
  <2>1. /\ IsSeq(cells) /\ i \in Nat /\ i >= 1 /\ i + 2 + Len(Leaf(v)) <= Len(cells)
        /\ cells[i] = Key(k) /\ cells[i + 1] = Tag(TypeBinary)
        /\ cells[i + 2] = Num(Len(Leaf(v))) /\ Holds(cells, i + 3, Leaf(v))
    <3>1. IsSeq(Leaf(v)) /\ Holds(cells, i, Entry(k, TypeBinary, Leaf(v)))
      BY <1>1, <1>2, <1>5
    <3>2. QED
      BY ONLY <3>1, EntryHeld
  <2>2. PICK n \in Nat : n = Len(cells)
    BY <2>1, SeqFacts
  <2>3. i \in 1..Len(cells) + 1 /\ i + 4 - 1 = i + 3 /\ cells[i + 2] = Num(1)
    BY <1>2, <2>1, <2>2
  <2>4. i + 3 <= last
    BY <1>4, <1>5, <2>3
  <2>5. cells[(i + 3) + 1 - 1] = Leaf(v)[1]
    BY <1>2, <2>1 DEF Holds
  <2>6. (i + 3) + 1 - 1 = i + 3
    BY <2>1
  <2>7. LeafAt(cells, i + 3, i + 3) = v
    BY <2>5, <2>6, LeafCell
  <2>8. DecodeMap(cells)[i + 4][depth][last] = Table(m)
    BY <1>4, <1>5
  <2>9. LeafStands(cells, i, depth, last, k, v, m)
    BY <1>2, <1>5, <2>1, <2>3, <2>4, <2>7, <2>8 DEF LeafStands
  <2>10. QED
    BY <2>9, DecodeLeaf
<1>6. EntryReads(piece, depth, k, v)
  BY <1>3, <1>5 DEF EntryReads
<1>7. QED
  BY <1>1, <1>6

LEMMA TableReads ==
  ASSUME NEW k, NEW s, NEW x, NEW depth, depth \in 0..31, Reads(s, depth + 1, x)
  PROVE  EntryReads(Entry(k, TypeTable, s), depth, k, Table(x))
<1>1. PICK piece : piece = Entry(k, TypeTable, s)
  OBVIOUS
<1>2. PICK l \in Nat : l = Len(s)
  BY SeqFacts DEF Reads
<1>3. IsSeq(s)
  BY DEF Reads
<1>4. IsSeq(piece) /\ Len(piece) = 3 + l
  BY <1>1, <1>2, <1>3, EntrySeq
<1>5. ASSUME NEW cells, NEW i, NEW last, NEW m,
             Holds(cells, i, piece), last \in 0..Len(cells), i + Len(piece) - 1 <= last,
             DecodeMap(cells)[i + Len(piece)][depth][last] = Table(m), k \notin DOMAIN m
      PROVE  DecodeMap(cells)[i][depth][last] = Table(Insert(m, k, Table(x)))
  <2>1. /\ IsSeq(cells) /\ i \in Nat /\ i >= 1 /\ i + 2 + Len(s) <= Len(cells)
        /\ cells[i] = Key(k) /\ cells[i + 1] = Tag(TypeTable)
        /\ cells[i + 2] = Num(Len(s)) /\ Holds(cells, i + 3, s)
    BY <1>1, <1>3, <1>5, EntryHeld
  <2>2. PICK n \in Nat : n = Len(cells)
    BY <2>1, SeqFacts
  <2>3. i + 2 + l <= n /\ cells[i + 2] = Num(l)
    BY <1>2, <2>1, <2>2
  <2>4. i \in 1..Len(cells) + 1
    BY <1>2, <2>1, <2>2, <2>3
  <2>5. i + (3 + l) - 1 = i + 2 + l /\ i + (3 + l) = i + 3 + l /\ (i + 3) + l - 1 = i + 2 + l
    BY <1>2, <2>1
  <2>6. i + 2 + l <= last
    BY <1>4, <1>5, <2>5
  <2>7. DecodeMap(cells)[i + 3][depth + 1][i + 3 + Len(s) - 1] = Table(x)
    BY <2>1 DEF Reads
  <2>8. DecodeMap(cells)[i + 3][depth + 1][i + 2 + l] = Table(x)
    BY <1>2, <2>5, <2>7
  <2>9. DecodeMap(cells)[i + 3 + l][depth][last] = Table(m)
    BY <1>4, <1>5, <2>5
  <2>10. depth \in 0..32
    OBVIOUS
  <2>11. TableStands(cells, i, depth, last, k, l, x, m)
    BY <1>5, <2>1, <2>3, <2>4, <2>6, <2>8, <2>9, <2>10 DEF TableStands
  <2>12. QED
    BY <2>11, DecodeTable
<1>6. EntryReads(piece, depth, k, Table(x))
  BY <1>4, <1>5 DEF EntryReads
<1>7. QED
  BY <1>1, <1>6

LEMMA ReadsNothing ==
  ASSUME NEW depth, depth \in 0..32
  PROVE  Reads(<<>>, depth, NoEntries)
<1>1. IsSeq(<<>>) /\ Len(<<>>) = 0
  BY SeqEmpty
<1>2. ASSUME NEW cells, NEW i, Holds(cells, i, <<>>)
      PROVE  DecodeMap(cells)[i][depth][i + Len(<<>>) - 1] = Table(NoEntries)
  <2>1. PICK n \in Nat : n = Len(cells)
    BY <1>2, SeqFacts DEF Holds
  <2>2. IsSeq(cells) /\ i \in 1..n + 1
    BY <1>2, <2>1 DEF Holds
  <2>3. i + 0 - 1 \in 0..n /\ i > i + 0 - 1
    BY <2>2
  <2>4. DecodeMap(cells)[i][depth][i + 0 - 1] = Table(NoEntries)
    BY <2>1, <2>2, <2>3, DecodeEnd
  <2>5. QED
    BY <1>1, <2>4
<1>3. QED
  BY <1>1, <1>2 DEF Reads

LEMMA ReadsEntry ==
  ASSUME NEW p, NEW s, NEW depth, NEW k, NEW v, NEW m,
         EntryReads(p, depth, k, v), Reads(s, depth, m), k \notin DOMAIN m
  PROVE  Reads(p \o s, depth, Insert(m, k, v))
<1>1. IsSeq(p) /\ IsSeq(s)
  BY DEF EntryReads, Reads
<1>2. PICK a \in Nat : a = Len(p)
  BY <1>1, SeqFacts
<1>3. PICK b \in Nat : b = Len(s)
  BY <1>1, SeqFacts
<1>4. IsSeq(p \o s) /\ Len(p \o s) = a + b
  BY <1>1, <1>2, <1>3, SeqConcat
<1>5. ASSUME NEW cells, NEW i, Holds(cells, i, p \o s)
      PROVE  DecodeMap(cells)[i][depth][i + Len(p \o s) - 1] = Table(Insert(m, k, v))
  <2>1. Holds(cells, i, p) /\ Holds(cells, i + a, s)
    BY <1>1, <1>2, <1>5, HoldsConcat
  <2>2. PICK n \in Nat : n = Len(cells)
    BY <1>5, SeqFacts DEF Holds
  <2>3. i \in 1..n + 1 /\ i + (a + b) <= n + 1
    BY <1>4, <1>5, <2>2 DEF Holds
  <2>4. PICK last : last = i + (a + b) - 1
    OBVIOUS
  <2>5. last \in 0..n /\ i + a - 1 <= last /\ (i + a) + b - 1 = last
    BY <2>3, <2>4
  <2>6. DecodeMap(cells)[i + a][depth][(i + a) + Len(s) - 1] = Table(m)
    BY <2>1 DEF Reads
  <2>7. DecodeMap(cells)[i + a][depth][last] = Table(m)
    BY <1>3, <2>5, <2>6
  <2>8. DecodeMap(cells)[i][depth][last] = Table(Insert(m, k, v))
    BY <1>2, <2>1, <2>2, <2>5, <2>7 DEF EntryReads
  <2>9. QED
    BY <1>4, <2>4, <2>8
<1>6. QED
  BY <1>4, <1>5 DEF Reads

-----------------------------------------------------------------------------
(* A table is read from the pieces of its keys, in the order of the keys.  *)
LEMMA KeysOrdered ==
  /\ KeyOrder = [i \in 1..13 |-> KeyOrder[i]] /\ DOMAIN KeyOrder = 1..13
  /\ \A i, j \in 1..13 : KeyOrder[i] = KeyOrder[j] => i = j
<1>1. KeyOrder = [i \in 1..13 |-> KeyOrder[i]] /\ DOMAIN KeyOrder = 1..13
  BY DEF KeyOrder
<1>2. /\ KeyOrder[1] = "_auth" /\ KeyOrder[2] = "_ctrl" /\ KeyOrder[3] = "_data"
      /\ KeyOrder[4] = "_exp" /\ KeyOrder[5] = "_nonce" /\ KeyOrder[6] = "_rpl"
      /\ KeyOrder[7] = "_ser" /\ KeyOrder[8] = "_tim" /\ KeyOrder[9] = "err"
      /\ KeyOrder[10] = "hsha" /\ KeyOrder[11] = "result" /\ KeyOrder[12] = "text"
      /\ KeyOrder[13] = "type"
  BY DEF KeyOrder
<1>3. \A i, j \in 1..13 : KeyOrder[i] = KeyOrder[j] => i = j
  BY <1>2
<1>4. QED
  BY <1>1, <1>3

(* The entries of m whose keys come after the first i. *)
KeysAfter(m, i) == {k \in DOMAIN m : \E j \in i + 1..13 : KeyOrder[j] = k}
Part(m, i) == [k \in KeysAfter(m, i) |-> m[k]]

IsTable(m) ==
  /\ m = [k \in DOMAIN m |-> m[k]]
  /\ \A k \in DOMAIN m : \E j \in 1..13 : KeyOrder[j] = k

LEMMA PartAll ==
  ASSUME NEW m, IsTable(m)
  PROVE  Part(m, 0) = m /\ Part(m, 13) = NoEntries
<1>1. KeysAfter(m, 0) = DOMAIN m
  BY DEF KeysAfter, IsTable
<1>2. Part(m, 0) = m
  BY <1>1 DEF Part, IsTable
<1>3. KeysAfter(m, 13) = {}
  BY DEF KeysAfter
<1>4. Part(m, 13) = NoEntries
  BY <1>3 DEF Part, NoEntries
<1>5. QED
  BY <1>2, <1>4

LEMMA PartStep ==
  ASSUME NEW m, NEW i, i \in 0..12
  PROVE  /\ KeyOrder[i + 1] \notin KeysAfter(m, i + 1)
         /\ KeyOrder[i + 1] \notin DOMAIN m => Part(m, i) = Part(m, i + 1)
         /\ KeyOrder[i + 1] \in DOMAIN m =>
              Part(m, i) = Insert(Part(m, i + 1), KeyOrder[i + 1], m[KeyOrder[i + 1]])
<1>1. PICK x : x = KeyOrder[i + 1]
  OBVIOUS
<1>2. i + 1 \in 1..13 /\ \A j : j \in i + 1..13 <=> j = i + 1 \/ j \in (i + 1) + 1..13
  OBVIOUS
<1>3. \A j \in (i + 1) + 1..13 : KeyOrder[j] # x
  <2> TAKE j \in (i + 1) + 1..13
  <2>1. j \in 1..13 /\ j # i + 1
    OBVIOUS
  <2> QED
    BY <1>1, <1>2, <2>1, KeysOrdered
<1>4. x \notin KeysAfter(m, i + 1)
  BY <1>3 DEF KeysAfter
<1>5. x \notin DOMAIN m => KeysAfter(m, i) = KeysAfter(m, i + 1)
  BY <1>1, <1>2 DEF KeysAfter
<1>6. x \in DOMAIN m => KeysAfter(m, i) = KeysAfter(m, i + 1) \cup {x}
  BY <1>1, <1>2 DEF KeysAfter
<1>7. ASSUME x \in DOMAIN m
      PROVE  Part(m, i) = Insert(Part(m, i + 1), x, m[x])
  <2>1. DOMAIN Part(m, i + 1) = KeysAfter(m, i + 1)
    BY DEF Part
  <2>2. \A k \in KeysAfter(m, i + 1) : Part(m, i + 1)[k] = m[k]
    BY DEF Part
  <2>3. Insert(Part(m, i + 1), x, m[x]) = [k \in KeysAfter(m, i) |-> m[k]]
    BY <1>6, <1>7, <2>1, <2>2 DEF Insert
  <2>4. QED
    BY <2>3 DEF Part
<1>8. x \notin DOMAIN m => Part(m, i) = Part(m, i + 1)
  BY <1>5 DEF Part
<1>9. QED
  BY <1>1, <1>4, <1>7, <1>8

(* One piece for each key, empty if the table does not have it. *)
ArePieces(qs, depth, m) ==
  /\ qs = [i \in 1..13 |-> qs[i]]
  /\ \A i \in 1..13 : /\ KeyOrder[i] \in DOMAIN m =>
                           EntryReads(qs[i], depth, KeyOrder[i], m[KeyOrder[i]])
                      /\ KeyOrder[i] \notin DOMAIN m => qs[i] = <<>>

LEMMA PieceRead ==
  ASSUME NEW q, NEW t, NEW depth, NEW m, NEW i, i \in 0..12,
         KeyOrder[i + 1] \in DOMAIN m =>
           EntryReads(q, depth, KeyOrder[i + 1], m[KeyOrder[i + 1]]),
         KeyOrder[i + 1] \notin DOMAIN m => q = <<>>,
         Reads(t, depth, Part(m, i + 1))
  PROVE  Reads(q \o t, depth, Part(m, i))
<1>1. CASE KeyOrder[i + 1] \in DOMAIN m
  <2>1. KeyOrder[i + 1] \notin DOMAIN Part(m, i + 1)
    BY PartStep DEF Part
  <2>2. EntryReads(q, depth, KeyOrder[i + 1], m[KeyOrder[i + 1]])
    BY <1>1
  <2>3. Reads(q \o t, depth, Insert(Part(m, i + 1), KeyOrder[i + 1], m[KeyOrder[i + 1]]))
    BY <2>1, <2>2, ReadsEntry
  <2>4. QED
    BY <1>1, <2>3, PartStep
<1>2. CASE KeyOrder[i + 1] \notin DOMAIN m
  <2>1. q = <<>> /\ IsSeq(t)
    BY <1>2 DEF Reads
  <2>2. q \o t = t
    BY <2>1, SeqConcatEmpty
  <2>3. QED
    BY <1>2, <2>2, PartStep
<1>3. QED
  BY <1>1, <1>2

LEMMA PiecesRead ==
  ASSUME NEW qs, NEW depth, NEW m, depth \in 0..32, IsTable(m), ArePieces(qs, depth, m)
  PROVE  Reads(FlattenSeq(qs), depth, m)
<1>1. \A i \in 1..13 : IsSeq(qs[i])
  BY SeqEmpty DEF ArePieces, EntryReads
<1>2. PICK g : IsFlatTrace(g, qs, 13)
  <2>1. 13 \in Nat \ {0} /\ qs = [i \in 1..13 |-> qs[i]]
    BY DEF ArePieces
  <2>2. QED
    BY <1>1, <2>1, FlatSteps
<1> DEFINE Done(k) == \A t : Reads(t, depth, Part(m, k)) => Reads(g[k] \o t, depth, m)
           S == {k \in Nat : k <= 13 => Done(k)}
<1>3. 0 \in S
  <2>1. ASSUME NEW t, Reads(t, depth, Part(m, 0)) PROVE Reads(g[0] \o t, depth, m)
    <3>1. g[0] \o t = t
      BY <1>2, <2>1, SeqConcatEmpty DEF IsFlatTrace, Reads
    <3>2. QED
      BY <2>1, <3>1, PartAll
  <2>2. Done(0)
    BY <2>1
  <2> HIDE DEF Done
  <2>3. QED
    BY <2>2
<1>4. ASSUME NEW k \in Nat, k \in S PROVE k + 1 \in S
  <2>1. SUFFICES ASSUME k + 1 <= 13 PROVE Done(k + 1)
    OBVIOUS
  <2>2. k \in 0..12 /\ k + 1 \in 1..13 /\ k \in 0..13 - 1 /\ k \in 0..13
    BY <2>1
  <2>3. ASSUME NEW t, Reads(t, depth, Part(m, k + 1)) PROVE Reads(g[k + 1] \o t, depth, m)
    <3>1. PICK q : q = qs[k + 1]
      OBVIOUS
    <3>2. KeyOrder[k + 1] \in DOMAIN m => EntryReads(q, depth, KeyOrder[k + 1], m[KeyOrder[k + 1]])
      BY <2>2, <3>1 DEF ArePieces
    <3>3. KeyOrder[k + 1] \notin DOMAIN m => q = <<>>
      BY <2>2, <3>1 DEF ArePieces
    <3>4. Reads(q \o t, depth, Part(m, k))
      BY <2>2, <2>3, <3>2, <3>3, PieceRead
    <3>5. Done(k)
      BY <1>4, <2>2
    <3>6. Reads(g[k] \o (q \o t), depth, m)
      BY <3>4, <3>5
    <3>7. g[k + 1] = g[k] \o q /\ IsSeq(g[k]) /\ IsSeq(q) /\ IsSeq(t)
      BY <1>1, <1>2, <2>2, <2>3, <3>1 DEF IsFlatTrace, Reads
    <3>8. g[k + 1] \o t = g[k] \o (q \o t)
      <4>1. PICK a : a = g[k]
        OBVIOUS
      <4>2. IsSeq(a) /\ IsSeq(q) /\ IsSeq(t)
        BY <3>7, <4>1
      <4>3. (a \o q) \o t = a \o (q \o t)
        BY ONLY <4>2, SeqConcatThree
      <4>4. QED
        BY <3>7, <4>1, <4>3
    <3>9. QED
      BY <3>6, <3>8
  <2>4. QED
    BY <2>3
<1> HIDE DEF S
<1>5. 13 \in S
  BY <1>3, <1>4, AllNat
<1> USE DEF S
<1>6. Done(13)
  BY <1>5
<1>7. Reads(<<>>, depth, Part(m, 13))
  BY PartAll, ReadsNothing
<1>8. Reads(g[13] \o <<>>, depth, m)
  BY <1>6, <1>7
<1>9. g[13] = FlattenSeq(qs) /\ IsSeq(g[13])
  BY <1>2 DEF IsFlatTrace
<1>10. g[13] \o <<>> = g[13]
  BY <1>9, SeqConcatEmpty
<1>11. QED
  BY <1>8, <1>9, <1>10

-----------------------------------------------------------------------------
(* A message of the SDK: a table of leaves and tables of leaves. *)
IsMessage(m) ==
  /\ IsTable(m)
  /\ \A k \in DOMAIN m :
       \/ Leafy(m[k])
       \/ \E t : m[k] = Table(t) /\ IsTable(t) /\ \A x \in DOMAIN t : Leafy(t[x])

LEMMA TableEncodes ==
  ASSUME NEW t, NEW depth, depth \in 0..32, IsTable(t), \A x \in DOMAIN t : Leafy(t[x])
  PROVE  Reads(EncodeTable(t), depth, t)
<1>1. PICK qs : qs = [i \in 1..13 |->
         IF KeyOrder[i] \in DOMAIN t THEN Entry(KeyOrder[i], TypeBinary, Leaf(t[KeyOrder[i]]))
         ELSE <<>>]
  OBVIOUS
<1>2. EncodeTable(t) = FlattenSeq(qs)
  BY <1>1, KeysOrdered DEF EncodeTable
<1>3. qs = [i \in 1..13 |-> qs[i]]
  BY <1>1
<1>4. ASSUME NEW i \in 1..13, KeyOrder[i] \in DOMAIN t
      PROVE  EntryReads(qs[i], depth, KeyOrder[i], t[KeyOrder[i]])
  <2>1. qs[i] = Entry(KeyOrder[i], TypeBinary, Leaf(t[KeyOrder[i]]))
    BY <1>1, <1>4
  <2>2. QED
    BY <1>4, <2>1, LeafReads
<1>5. \A i \in 1..13 : KeyOrder[i] \notin DOMAIN t => qs[i] = <<>>
  BY <1>1
<1>6. ArePieces(qs, depth, t)
  BY <1>3, <1>4, <1>5 DEF ArePieces
<1>7. QED
  BY <1>2, <1>6, PiecesRead

LEMMA MapEncodes ==
  ASSUME NEW m, NEW depth, depth \in 0..31, IsMessage(m)
  PROVE  Reads(EncodeMap(m), depth, m)
<1>1. PICK qs : qs = [i \in 1..13 |->
         IF KeyOrder[i] \notin DOMAIN m THEN <<>>
         ELSE IF m[KeyOrder[i]].is = "map"
         THEN Entry(KeyOrder[i], TypeTable, EncodeTable(m[KeyOrder[i]].v))
         ELSE Entry(KeyOrder[i], TypeBinary, Leaf(m[KeyOrder[i]]))]
  OBVIOUS
<1>2. EncodeMap(m) = FlattenSeq(qs)
  BY <1>1, KeysOrdered DEF EncodeMap
<1>3. qs = [i \in 1..13 |-> qs[i]]
  BY <1>1
<1>4. ASSUME NEW i \in 1..13, KeyOrder[i] \in DOMAIN m
      PROVE  EntryReads(qs[i], depth, KeyOrder[i], m[KeyOrder[i]])
  <2>1. PICK k : k = KeyOrder[i]
    OBVIOUS
  <2>2. qs[i] = IF m[k].is = "map" THEN Entry(k, TypeTable, EncodeTable(m[k].v))
                ELSE Entry(k, TypeBinary, Leaf(m[k]))
    BY <1>1, <1>4, <2>1
  <2>3. CASE Leafy(m[k])
    <3>1. m[k].is # "map" /\ depth \in 0..32
      BY <2>3, LeafCell
    <3>2. EntryReads(Entry(k, TypeBinary, Leaf(m[k])), depth, k, m[k])
      BY <2>3, <3>1, LeafReads
    <3>3. QED
      BY <2>1, <2>2, <3>1, <3>2
  <2>4. CASE \E t : m[k] = Table(t) /\ IsTable(t) /\ \A x \in DOMAIN t : Leafy(t[x])
    <3>1. PICK t : m[k] = Table(t) /\ IsTable(t) /\ \A x \in DOMAIN t : Leafy(t[x])
      BY <2>4
    <3>2. m[k].is = "map" /\ m[k].v = t
      BY <3>1, TableShape
    <3>3. depth + 1 \in 0..32
      OBVIOUS
    <3>4. Reads(EncodeTable(t), depth + 1, t)
      BY <3>1, <3>3, TableEncodes
    <3>5. EntryReads(Entry(k, TypeTable, EncodeTable(t)), depth, k, Table(t))
      BY <3>4, TableReads
    <3>6. QED
      BY <2>1, <2>2, <3>1, <3>2, <3>5
  <2>5. QED
    BY <1>4, <2>1, <2>3, <2>4 DEF IsMessage
<1>5. \A i \in 1..13 : KeyOrder[i] \notin DOMAIN m => qs[i] = <<>>
  BY <1>1
<1>6. ArePieces(qs, depth, m)
  BY <1>3, <1>4, <1>5 DEF ArePieces
<1>7. depth \in 0..32 /\ IsTable(m)
  BY DEF IsMessage
<1>8. QED
  BY <1>2, <1>6, <1>7, PiecesRead

(* What follows the version is read as a message. *)
LEMMA DecodeReads ==
  ASSUME NEW s, NEW m, Reads(s, 0, m)
  PROVE  Decode(<<Num(IscVersion)>> \o s) = Table(m)
<1>1. PICK h : h = <<Num(IscVersion)>>
  OBVIOUS
<1>2. IsSeq(h) /\ Len(h) = 1 /\ h[1] = Num(IscVersion)
  BY <1>1, SeqOne
<1>3. IsSeq(s)
  BY DEF Reads
<1>4. PICK l \in Nat : l = Len(s)
  BY <1>3, SeqFacts
<1>5. PICK p : p = h \o s
  OBVIOUS
<1>6. IsSeq(p) /\ Len(p) = 1 + l
  <2>1. IsSeq(h \o s) /\ Len(h \o s) = Len(h) + Len(s)
    BY <1>2, <1>3, SeqConcat
  <2>2. QED
    BY <1>2, <1>4, <1>5, <2>1
<1>7. p[1] = h[1]
  <2>1. 1 \in 1..Len(h)
    BY <1>2
  <2>2. QED
    BY <1>2, <1>3, <1>5, <2>1, SeqConcat
<1>8. Holds(p, 1, h \o s)
  BY <1>5, <1>6, HoldsItself
<1>9. Holds(p, 1 + Len(h), s)
  BY <1>2, <1>3, <1>8, HoldsConcat
<1>10. Holds(p, 2, s)
  BY <1>2, <1>9
<1>11. DecodeMap(p)[2][0][2 + Len(s) - 1] = Table(m)
  BY <1>10 DEF Reads
<1>12. 2 + l - 1 = Len(p)
  BY <1>4, <1>6
<1>13. DecodeMap(p)[2][0][Len(p)] = Table(m)
  BY <1>4, <1>11, <1>12
<1>14. p # <<>>
  BY <1>4, <1>6, SeqEmpty
<1>15. Decode(p) = Table(m)
  BY <1>2, <1>7, <1>13, <1>14 DEF Decode
<1>16. QED
  BY <1>1, <1>5, <1>15

(* What is encoded is what is decoded: no entry of a message is lost,      *)
(* read as another or read twice, at whatever place and however long its   *)
(* values are.                                                             *)
THEOREM RoundTrip == \A m : IsMessage(m) => Decode(Encode(m)) = Table(m)
<1> SUFFICES ASSUME NEW m, IsMessage(m) PROVE Decode(Encode(m)) = Table(m)
  OBVIOUS
<1>1. Reads(EncodeMap(m), 0, m)
  <2>1. 0 \in 0..31
    OBVIOUS
  <2>2. QED
    BY <2>1, MapEncodes
<1>2. QED
  BY <1>1, DecodeReads DEF Encode

-----------------------------------------------------------------------------
(* What named reads of a request. *)
KnownKeys == {"_auth", "_ctrl", "_data", "_exp", "_nonce", "_rpl", "_ser", "_tim",
              "err", "hsha", "result", "text", "type"}

LEMMA KeysKnown == \A k \in KnownKeys : \E j \in 1..13 : KeyOrder[j] = k
<1>1. /\ KeyOrder[1] = "_auth" /\ KeyOrder[2] = "_ctrl" /\ KeyOrder[3] = "_data"
      /\ KeyOrder[4] = "_exp" /\ KeyOrder[5] = "_nonce" /\ KeyOrder[6] = "_rpl"
      /\ KeyOrder[7] = "_ser" /\ KeyOrder[8] = "_tim" /\ KeyOrder[9] = "err"
      /\ KeyOrder[10] = "hsha" /\ KeyOrder[11] = "result" /\ KeyOrder[12] = "text"
      /\ KeyOrder[13] = "type"
  BY DEF KeyOrder
<1>2. QED
  BY <1>1 DEF KnownKeys

LEMMA TextLeafy == ASSUME NEW x PROVE Leafy(Text(x)) /\ Text(x).is = "string" /\ Text(x).v = x
  BY DEF Leafy, Text

LEMMA BinaryLeafy == ASSUME NEW x PROVE Leafy(Binary(x)) /\ Binary(x).is = "binary" /\ Binary(x).v = x
  BY DEF Leafy, Binary

(* A table of leaves with known keys. *)
IsLeaves(t) == IsTable(t) /\ \A x \in DOMAIN t : Leafy(t[x])

LEMMA InsertedLeaves ==
  ASSUME NEW t, NEW k, NEW v, IsLeaves(t), k \in KnownKeys, Leafy(v)
  PROVE  IsLeaves(Insert(t, k, v))
<1>1. PICK r : r = Insert(t, k, v)
  OBVIOUS
<1>2. DOMAIN r = DOMAIN t \cup {k} /\ r = [x \in DOMAIN t \cup {k} |-> r[x]]
  BY <1>1 DEF Insert
<1>3. r[k] = v
  BY <1>1, InsertedValue
<1>4. \A x \in DOMAIN t : x # k => r[x] = t[x]
  BY <1>1, InsertedValue
<1>5. \A x \in DOMAIN r : \E j \in 1..13 : KeyOrder[j] = x
  BY <1>2, KeysKnown DEF IsLeaves, IsTable
<1>6. \A x \in DOMAIN r : Leafy(r[x])
  BY <1>2, <1>3, <1>4 DEF IsLeaves
<1>7. r = [x \in DOMAIN r |-> r[x]]
  BY <1>2
<1>8. QED
  BY <1>1, <1>5, <1>6, <1>7 DEF IsLeaves, IsTable

LEMMA NoLeaves == IsLeaves(NoEntries) /\ DOMAIN NoEntries = {}
<1>1. DOMAIN NoEntries = {} /\ NoEntries = [x \in {} |-> NoEntries[x]]
  BY DEF NoEntries
<1>2. QED
  BY <1>1 DEF IsLeaves, IsTable

LEMMA InsertedFields ==
  ASSUME NEW m, NEW k, NEW x
  PROVE  /\ MapString(Insert(m, k, Text(x)), k) = <<x>>
         /\ \A y : y # k => MapString(Insert(m, k, Text(x)), y) = MapString(m, y)
  BY TextLeafy, InsertedString

LEMMA CtrlFields ==
  ASSUME NEW n, NEW now, NEW non
  PROVE  /\ IsLeaves(CtrlTable(n, now, non))
         /\ MapString(CtrlTable(n, now, non), "_ser") = <<n>>
         /\ MapString(CtrlTable(n, now, non), "_exp") = <<now + Window>>
         /\ MapString(CtrlTable(n, now, non), "_nonce")
              = IF non = NoNonce THEN <<>> ELSE <<non>>
<1>1. PICK c : c = [_ser |-> Text(n), _tim |-> Text(now), _exp |-> Text(now + Window)]
  OBVIOUS
<1>2. DOMAIN c = {"_ser", "_tim", "_exp"} /\ c["_ser"] = Text(n) /\ c["_tim"] = Text(now)
      /\ c["_exp"] = Text(now + Window)
  BY <1>1
<1>3. c = [k \in DOMAIN c |-> c[k]]
  BY <1>1
<1>4. \A k \in DOMAIN c : k \in KnownKeys
  BY <1>2 DEF KnownKeys
<1>5. \A k \in DOMAIN c : Leafy(c[k])
  BY <1>2, TextLeafy
<1>6. IsLeaves(c)
  BY <1>3, <1>4, <1>5, KeysKnown DEF IsLeaves, IsTable
<1>7. MapString(c, "_ser") = <<n>>
  BY <1>2, TextLeafy DEF MapString
<1>8. MapString(c, "_exp") = <<now + Window>>
  BY <1>2, TextLeafy DEF MapString
<1>9. MapString(c, "_nonce") = <<>>
  BY <1>2 DEF MapString
<1>10. CASE non = NoNonce
  <2>1. CtrlTable(n, now, non) = c
    BY <1>1, <1>10 DEF CtrlTable
  <2>2. QED
    BY <1>6, <1>7, <1>8, <1>9, <1>10, <2>1
<1>11. CASE non # NoNonce
  <2>1. CtrlTable(n, now, non) = Insert(c, "_nonce", Text(non))
    BY <1>1, <1>11 DEF CtrlTable
  <2>2. IsLeaves(Insert(c, "_nonce", Text(non)))
    <3>1. "_nonce" \in KnownKeys /\ Leafy(Text(non))
      BY TextLeafy DEF KnownKeys
    <3>2. QED
      BY <1>6, <3>1, InsertedLeaves
  <2>3. MapString(Insert(c, "_nonce", Text(non)), "_ser") = <<n>>
    BY <1>7, InsertedFields
  <2>4. MapString(Insert(c, "_nonce", Text(non)), "_exp") = <<now + Window>>
    BY <1>8, InsertedFields
  <2>5. MapString(Insert(c, "_nonce", Text(non)), "_nonce") = <<non>>
    BY InsertedFields
  <2>6. QED
    BY <1>11, <2>1, <2>2, <2>3, <2>4, <2>5
<1>12. QED
  BY <1>10, <1>11

LEMMA DataFields ==
  ASSUME NEW w
  PROVE  IsLeaves(DataTable(w)) /\ MapString(DataTable(w), "type") = <<w>>
<1>1. PICK d : d = DataTable(w)
  OBVIOUS
<1>2. DOMAIN d = {"type"} /\ d["type"] = Text(w) /\ d = [k \in DOMAIN d |-> d[k]]
  BY <1>1 DEF DataTable
<1>3. "type" \in KnownKeys
  BY DEF KnownKeys
<1>4. IsLeaves(d)
  BY <1>2, <1>3, KeysKnown, TextLeafy DEF IsLeaves, IsTable
<1>5. MapString(d, "type") = <<w>>
  BY <1>2, TextLeafy DEF MapString
<1>6. QED
  BY <1>1, <1>4, <1>5

(* named reads what the client signed. *)
LEMMA SignedRead ==
  ASSUME NEW k, NEW ctrl, NEW data, IsLeaves(ctrl), IsLeaves(data)
  PROVE  /\ IsMessage(Signed(k, ctrl, data))
         /\ GetMap(Signed(k, ctrl, data), "_ctrl") = ctrl
         /\ GetMap(Signed(k, ctrl, data), "_data") = data
         /\ GetMap(Signed(k, ctrl, data), "_auth")["hsha"].v.secret = k.secret
<1>1. PICK b : b = [_ctrl |-> Table(ctrl), _data |-> Table(data)]
  OBVIOUS
<1>2. PICK hs : hs = Hsha(k, EncodeMap(b))
  OBVIOUS
<1>3. PICK h : h = [hsha |-> Binary(hs)]
  OBVIOUS
<1>4. PICK m : m = Insert(b, "_auth", Table(h))
  OBVIOUS
<1>5. Signed(k, ctrl, data) = m
  BY <1>1, <1>2, <1>3, <1>4 DEF Signed
<1>6. hs.secret = k.secret
  BY <1>2 DEF Hsha
<1>7. DOMAIN b = {"_ctrl", "_data"} /\ b["_ctrl"] = Table(ctrl) /\ b["_data"] = Table(data)
  BY <1>1
<1>8. DOMAIN m = {"_ctrl", "_data", "_auth"} /\ m = [x \in DOMAIN m |-> m[x]]
  BY <1>4, <1>7 DEF Insert
<1>9. m["_auth"] = Table(h)
  BY <1>4, InsertedValue
<1>10. m["_ctrl"] = Table(ctrl) /\ m["_data"] = Table(data)
  BY <1>4, <1>7, InsertedValue
<1>11. DOMAIN h = {"hsha"} /\ h["hsha"] = Binary(hs) /\ h = [x \in DOMAIN h |-> h[x]]
  BY <1>3
<1>12. {"_ctrl", "_data", "_auth", "hsha"} \subseteq KnownKeys
  BY DEF KnownKeys
<1>13. IsLeaves(h)
  BY <1>11, <1>12, BinaryLeafy, KeysKnown DEF IsLeaves, IsTable
<1>14. IsTable(m)
  BY <1>8, <1>12, KeysKnown DEF IsTable
<1>15. IsMessage(m)
  BY <1>8, <1>9, <1>10, <1>13, <1>14 DEF IsMessage, IsLeaves
<1>16. GetMap(m, "_ctrl") = ctrl
  BY <1>8, <1>10, TableShape DEF GetMap
<1>17. GetMap(m, "_data") = data
  BY <1>8, <1>10, TableShape DEF GetMap
<1>18. GetMap(m, "_auth") = h
  BY <1>8, <1>9, TableShape DEF GetMap
<1>19. h["hsha"].v = hs
  BY <1>11, BinaryLeafy
<1>20. GetMap(m, "_auth")["hsha"].v.secret = k.secret
  BY <1>6, <1>18, <1>19
<1>21. QED
  BY <1>5, <1>15, <1>16, <1>17, <1>20

(* The message of a request. *)
RequestOf(cells) == Decode(Tail(cells)).v

LEMMA RequestRead ==
  ASSUME NEW k, NEW n, NEW now, NEW non, NEW w, NEW cells,
         cells = CommandFrame(k, n, now, non, w)
  PROVE  /\ MapString(GetMap(RequestOf(cells), "_data"), "type") = <<w>>
         /\ MapString(GetMap(RequestOf(cells), "_ctrl"), "_ser") = <<n>>
         /\ MapString(GetMap(RequestOf(cells), "_ctrl"), "_exp") = <<now + Window>>
         /\ MapString(GetMap(RequestOf(cells), "_ctrl"), "_nonce")
              = IF non = NoNonce THEN <<>> ELSE <<non>>
         /\ GetMap(RequestOf(cells), "_auth")["hsha"].v.secret = k.secret
<1>1. PICK c : c = CtrlTable(n, now, non)
  OBVIOUS
<1>2. PICK d : d = DataTable(w)
  OBVIOUS
<1>3. PICK m : m = Signed(k, c, d)
  OBVIOUS
<1>4. IsLeaves(c) /\ IsLeaves(d)
  BY <1>1, <1>2, CtrlFields, DataFields
<1>5. IsMessage(m)
  BY <1>3, <1>4, SignedRead
<1>6. PICK p : p = Encode(m)
  OBVIOUS
<1>7. cells = <<Num(Len(p))>> \o p
  BY <1>1, <1>2, <1>3, <1>6 DEF CommandFrame, FrameMessage
<1>8. IsSeq(p)
  <2>1. Reads(EncodeMap(m), 0, m)
    BY <1>5, MapEncodes
  <2>2. IsSeq(EncodeMap(m))
    BY <2>1 DEF Reads
  <2>3. IsSeq(<<Num(IscVersion)>>)
    BY SeqOne
  <2>4. QED
    BY <1>6, <2>2, <2>3, SeqConcat DEF Encode
<1>9. Tail(cells) = p
  <2>1. PICK h : h = <<Num(Len(p))>>
    OBVIOUS
  <2>2. IsSeq(h) /\ Len(h) = 1
    BY <2>1, SeqOne
  <2>3. PICK l \in Nat : l = Len(p)
    BY <1>8, SeqFacts
  <2>4. cells = h \o p
    BY <1>7, <2>1
  <2>5. IsSeq(h \o p) /\ Len(h \o p) = Len(h) + Len(p)
    BY <1>8, <2>2, SeqConcat
  <2>6. IsSeq(cells) /\ Len(cells) = 1 + l
    BY <2>2, <2>3, <2>4, <2>5
  <2>7. cells # <<>>
    BY <2>3, <2>6, SeqEmpty
  <2>8. IsSeq(Tail(cells)) /\ Len(Tail(cells)) = Len(cells) - 1
    BY <2>6, <2>7, SeqTail
  <2>9. \A i \in 1..Len(cells) - 1 : Tail(cells)[i] = cells[i + 1]
    BY <2>6, <2>7, SeqTail
  <2>10. \A i \in 1..Len(p) : (h \o p)[Len(h) + i] = p[i]
    <3>1. IsSeq(h) /\ IsSeq(p)
      BY <1>8, <2>2
    <3>2. QED
      BY ONLY <3>1, SeqConcat
  <2>11. \A i \in 1..l : cells[1 + i] = p[i]
    BY <2>2, <2>3, <2>4, <2>10
  <2>12. Len(Tail(cells)) = l /\ \A i \in 1..l : Tail(cells)[i] = p[i]
    BY <2>3, <2>6, <2>8, <2>9, <2>11
  <2>13. QED
    BY <1>8, <2>3, <2>8, <2>12, SameSeq
<1>10. RequestOf(cells) = m
  <2>1. Decode(p) = Table(m)
    BY <1>5, <1>6, RoundTrip
  <2>2. QED
    BY <1>9, <2>1, TableShape DEF RequestOf
<1>11. GetMap(m, "_ctrl") = c /\ GetMap(m, "_data") = d
       /\ GetMap(m, "_auth")["hsha"].v.secret = k.secret
  BY <1>3, <1>4, SignedRead
<1>12. MapString(d, "type") = <<w>>
  BY <1>2, DataFields
<1>13. MapString(c, "_ser") = <<n>>
  BY <1>1, CtrlFields
<1>14. MapString(c, "_exp") = <<now + Window>>
  BY <1>1, CtrlFields
<1>15. MapString(c, "_nonce") = IF non = NoNonce THEN <<>> ELSE <<non>>
  BY <1>1, CtrlFields
<1>16. QED
  BY <1>10, <1>11, <1>12, <1>13, <1>14, <1>15

-----------------------------------------------------------------------------
(* The replies of named.  Only the third cell of a frame is the key of the *)
(* signature: a reader who is out of step never finds one elsewhere.       *)
NoAuth(s) == IsSeq(s) /\ \A i \in 1..Len(s) : s[i] # Key("_auth")

LEMMA NoAuthConcat ==
  ASSUME NEW s, NEW t, NoAuth(s), NoAuth(t)
  PROVE  NoAuth(s \o t)
<1>1. IsSeq(s) /\ IsSeq(t)
  BY DEF NoAuth
<1>2. PICK r : r = s \o t
  OBVIOUS
<1>3. IsSeq(r) /\ Len(r) = Len(s) + Len(t)
  BY <1>1, <1>2, SeqConcat
<1>4. \A i \in 1..Len(s) : r[i] = s[i]
  BY <1>1, <1>2, SeqConcat
<1>5. \A i \in 1..Len(t) : r[Len(s) + i] = t[i]
  BY <1>1, <1>2, SeqConcat
<1>6. PICK l \in Nat : l = Len(s)
  BY <1>1, SeqFacts
<1>7. PICK m \in Nat : m = Len(t)
  BY <1>1, SeqFacts
<1>8. ASSUME NEW i \in 1..l + m PROVE r[i] # Key("_auth")
  <2>1. CASE i \in 1..l
    BY <1>4, <1>6, <2>1 DEF NoAuth
  <2>2. CASE i \notin 1..l
    <3>1. i - l \in 1..m /\ l + (i - l) = i
      BY <2>2
    <3>2. r[l + (i - l)] = t[i - l]
      BY <1>5, <1>6, <1>7, <3>1
    <3>3. QED
      BY <1>7, <3>1, <3>2 DEF NoAuth
  <2>3. QED
    BY <2>1, <2>2
<1>9. QED
  BY <1>2, <1>3, <1>6, <1>7, <1>8 DEF NoAuth

LEMMA NoAuthEntry ==
  ASSUME NEW k, NEW t, NEW body, NoAuth(body), k # "_auth"
  PROVE  NoAuth(Entry(k, t, body))
<1>1. PICK h : h = <<Key(k), Tag(t), Num(Len(body))>>
  OBVIOUS
<1>2. IsSeq(h) /\ Len(h) = 3 /\ h[1] = Key(k) /\ h[2] = Tag(t) /\ h[3] = Num(Len(body))
  BY <1>1, SeqThree
<1>3. Key(k) # Key("_auth") /\ Tag(t) # Key("_auth") /\ Num(Len(body)) # Key("_auth")
  BY DEF Key, Tag, Num
<1>4. \A i \in 1..3 : h[i] # Key("_auth")
  BY <1>2, <1>3
<1>5. NoAuth(h)
  BY <1>2, <1>4 DEF NoAuth
<1>6. NoAuth(h \o body)
  BY <1>5, NoAuthConcat
<1>7. QED
  BY <1>1, <1>6 DEF Entry

LEMMA PlainCells ==
  ASSUME NEW k, NEW x, NEW depth, depth \in 0..32
  PROVE  /\ IsSeq(Plain(k, x)) /\ Len(Plain(k, x)) = 4
         /\ k # "_auth" => NoAuth(Plain(k, x))
         /\ EntryReads(Plain(k, x), depth, k, Text(x))
<1>1. Leaf(Text(x)) = <<Utf8(x)>>
  BY TextLeafy DEF Leaf
<1>2. Plain(k, x) = Entry(k, TypeBinary, Leaf(Text(x)))
  BY <1>1 DEF Plain
<1>3. EntryReads(Plain(k, x), depth, k, Text(x))
  BY <1>2, TextLeafy, LeafReads
<1>4. PICK b : b = <<Utf8(x)>>
  OBVIOUS
<1>5. IsSeq(b) /\ Len(b) = 1 /\ b[1] = Utf8(x)
  BY <1>4, SeqOne
<1>6. Plain(k, x) = Entry(k, TypeBinary, b)
  BY <1>4 DEF Plain
<1>7. IsSeq(Plain(k, x)) /\ Len(Plain(k, x)) = 3 + Len(b)
  <2>1. IsSeq(b)
    BY <1>5
  <2>2. IsSeq(Entry(k, TypeBinary, b)) /\ Len(Entry(k, TypeBinary, b)) = 3 + Len(b)
    BY ONLY <2>1, EntrySeq
  <2>3. QED
    BY <1>6, <2>2
<1>8. Utf8(x) # Key("_auth")
  BY DEF Utf8, Key
<1>9. NoAuth(b)
  BY <1>5, <1>8 DEF NoAuth
<1>10. k # "_auth" => NoAuth(Plain(k, x))
  BY <1>6, <1>9, NoAuthEntry
<1>11. Len(Plain(k, x)) = 4
  BY <1>5, <1>7
<1>12. QED
  BY <1>3, <1>7, <1>10, <1>11

(* Cells without a signature that read as a table, at the first depth. *)
Body(s, n, t) == NoAuth(s) /\ Len(s) = n /\ Reads(s, 1, t)

LEMMA BodyOne ==
  ASSUME NEW k, NEW x, k # "_auth"
  PROVE  Body(Plain(k, x), 4, Insert(NoEntries, k, Text(x)))
<1>1. PICK p : p = Plain(k, x)
  OBVIOUS
<1>2. 1 \in 0..32
  OBVIOUS
<1>3. NoAuth(p) /\ Len(p) = 4 /\ EntryReads(p, 1, k, Text(x)) /\ IsSeq(p)
  BY <1>1, <1>2, PlainCells
<1>4. Reads(<<>>, 1, NoEntries) /\ k \notin DOMAIN NoEntries
  BY <1>2, ReadsNothing, NoLeaves
<1>5. Reads(p \o <<>>, 1, Insert(NoEntries, k, Text(x)))
  BY <1>3, <1>4, ReadsEntry
<1>6. p \o <<>> = p
  BY <1>3, SeqConcatEmpty
<1>7. QED
  BY <1>1, <1>3, <1>5, <1>6 DEF Body

LEMMA BodyMore ==
  ASSUME NEW k, NEW x, NEW s, NEW n, NEW t, k # "_auth", n \in Nat, Body(s, n, t), k \notin DOMAIN t
  PROVE  Body(Plain(k, x) \o s, 4 + n, Insert(t, k, Text(x)))
<1>1. PICK p : p = Plain(k, x)
  OBVIOUS
<1>2. 1 \in 0..32
  OBVIOUS
<1>3. NoAuth(p) /\ Len(p) = 4 /\ EntryReads(p, 1, k, Text(x)) /\ IsSeq(p)
  BY <1>1, <1>2, PlainCells
<1>4. NoAuth(s) /\ IsSeq(s) /\ Len(s) = n /\ Reads(s, 1, t)
  BY DEF Body, NoAuth
<1>5. Reads(p \o s, 1, Insert(t, k, Text(x)))
  BY <1>3, <1>4, ReadsEntry
<1>6. NoAuth(p \o s)
  BY <1>3, <1>4, NoAuthConcat
<1>7. Len(p \o s) = 4 + n
  <2>1. IsSeq(p) /\ IsSeq(s)
    BY <1>3, <1>4
  <2>2. Len(p \o s) = Len(p) + Len(s)
    BY ONLY <2>1, SeqConcat
  <2>3. QED
    BY <1>3, <1>4, <2>2
<1>8. QED
  BY <1>1, <1>5, <1>6, <1>7 DEF Body

-----------------------------------------------------------------------------
(* The tables of a reply. *)
PlainData(words, code) ==
  Insert(Insert(NoEntries, "result", Text(code)), "type", Text(words))
TextData(words, code, f, x) ==
  Insert(Insert(Insert(NoEntries, f, Text(x)), "result", Text(code)), "type", Text(words))

LEMMA NoString == \A k : MapString(NoEntries, k) = <<>>
  BY NoLeaves DEF MapString

LEMMA PlainDataRead ==
  ASSUME NEW words, NEW code
  PROVE  /\ Body(Plain("type", words) \o Plain("result", code), 8, PlainData(words, code))
         /\ MapString(PlainData(words, code), "type") = <<words>>
         /\ MapString(PlainData(words, code), "result") = <<code>>
<1>1. PICK r : r = Insert(NoEntries, "result", Text(code))
  OBVIOUS
<1>2. Body(Plain("result", code), 4, r)
  BY <1>1, BodyOne
<1>3. DOMAIN r = {"result"}
  <2>1. DOMAIN Insert(NoEntries, "result", Text(code)) = DOMAIN NoEntries \cup {"result"}
    BY InsertedKeys
  <2>2. QED
    BY <1>1, <2>1, NoLeaves
<1>4. Body(Plain("type", words) \o Plain("result", code), 4 + 4, Insert(r, "type", Text(words)))
  BY <1>2, <1>3, BodyMore
<1>5. MapString(r, "result") = <<code>>
  BY <1>1, InsertedFields
<1>6. PICK d : d = Insert(r, "type", Text(words))
  OBVIOUS
<1>7. MapString(d, "type") = <<words>> /\ MapString(d, "result") = MapString(r, "result")
  BY <1>6, InsertedFields
<1>8. PlainData(words, code) = d
  BY <1>1, <1>6 DEF PlainData
<1>9. 4 + 4 = 8
  OBVIOUS
<1>10. QED
  BY <1>4, <1>5, <1>6, <1>7, <1>8, <1>9

(* Of pieces that are all empty but one, the flat sequence is that one. *)
LEMMA FlatOnly ==
  ASSUME NEW qs, NEW a, a \in 1..13, qs = [i \in 1..13 |-> qs[i]], IsSeq(qs[a]),
         \A i \in 1..13 : i # a => qs[i] = <<>>
  PROVE  FlattenSeq(qs) = qs[a]
<1>1. \A i \in 1..13 : IsSeq(qs[i])
  BY SeqEmpty
<1>2. PICK g : IsFlatTrace(g, qs, 13)
  <2>1. 13 \in Nat \ {0}
    OBVIOUS
  <2>2. QED
    BY <1>1, <2>1, FlatSteps
<1> DEFINE S == {k \in Nat : k <= 13 => g[k] = IF k < a THEN <<>> ELSE qs[a]}
<1>3. 0 \in S
  <2>1. g[0] = <<>>
    BY <1>2 DEF IsFlatTrace
  <2>2. 0 < a
    OBVIOUS
  <2>3. QED
    BY <2>1, <2>2
<1>4. ASSUME NEW k \in Nat, k \in S PROVE k + 1 \in S
  <2>1. SUFFICES ASSUME k + 1 <= 13
                 PROVE  g[k + 1] = IF k + 1 < a THEN <<>> ELSE qs[a]
    OBVIOUS
  <2>2. k \in 0..13 - 1 /\ k + 1 \in 1..13 /\ k <= 13
    BY <2>1
  <2>3. g[k + 1] = g[k] \o qs[k + 1]
    BY <1>2, <2>2 DEF IsFlatTrace
  <2>4. g[k] = IF k < a THEN <<>> ELSE qs[a]
    BY <1>4, <2>2
  <2>5. CASE k + 1 < a
    <3>1. g[k] = <<>> /\ qs[k + 1] = <<>>
      BY <2>2, <2>4, <2>5
    <3>2. <<>> \o <<>> = <<>>
      BY SeqEmpty, SeqConcatEmpty
    <3>3. QED
      BY <2>3, <2>5, <3>1, <3>2
  <2>6. CASE k + 1 = a
    <3>1. g[k] = <<>> /\ qs[k + 1] = qs[a]
      BY <2>2, <2>4, <2>6
    <3>2. <<>> \o qs[a] = qs[a]
      BY SeqConcatEmpty
    <3>3. QED
      BY <2>3, <2>6, <3>1, <3>2
  <2>7. CASE k + 1 > a
    <3>1. g[k] = qs[a] /\ qs[k + 1] = <<>>
      BY <2>2, <2>4, <2>7
    <3>2. qs[a] \o <<>> = qs[a]
      BY SeqConcatEmpty
    <3>3. g[k + 1] = qs[a]
      BY <2>3, <3>1, <3>2
    <3>4. ~(k + 1 < a)
      BY <2>2, <2>7
    <3>5. QED
      BY <3>3, <3>4
  <2>8. QED
    BY <2>2, <2>5, <2>6, <2>7
<1> HIDE DEF S
<1>5. 13 \in S
  BY <1>3, <1>4, AllNat
<1>6. g[13] = qs[a]
  BY <1>5 DEF S
<1>7. QED
  BY <1>2, <1>6 DEF IsFlatTrace

(* A reply with a text, or with the text in another field. *)
LEMMA TextDataRead ==
  ASSUME NEW words, NEW code, NEW f, NEW x, f \in {"err", "text"}, IsSeq(x)
  PROVE  /\ Body(Plain("type", words) \o (Plain("result", code) \o Plain(f, x)), 12,
                 TextData(words, code, f, x))
         /\ MapString(TextData(words, code, f, x), "type") = <<words>>
         /\ MapString(TextData(words, code, f, x), "result") = <<code>>
         /\ ResponseText(TextData(words, code, f, x)) = x
<1>0. f # "_auth" /\ f # "result" /\ f # "type"
  OBVIOUS
<1>1. PICK e : e = Insert(NoEntries, f, Text(x))
  OBVIOUS
<1>2. PICK r : r = Insert(e, "result", Text(code))
  OBVIOUS
<1>3. PICK d : d = Insert(r, "type", Text(words))
  OBVIOUS
<1>4. TextData(words, code, f, x) = d
  BY <1>1, <1>2, <1>3 DEF TextData
<1>5. DOMAIN e = {f} /\ e[f] = Text(x)
  <2>1. DOMAIN Insert(NoEntries, f, Text(x)) = DOMAIN NoEntries \cup {f}
    BY InsertedKeys
  <2>2. Insert(NoEntries, f, Text(x))[f] = Text(x)
    BY InsertedValue
  <2>3. QED
    BY <1>1, <2>1, <2>2, NoLeaves
<1>6. DOMAIN r = {f, "result"} /\ r[f] = Text(x)
  <2>1. DOMAIN r = DOMAIN e \cup {"result"}
    BY <1>2, InsertedKeys
  <2>2. r[f] = e[f]
    BY <1>0, <1>2, <1>5, InsertedValue
  <2>3. QED
    BY <1>5, <2>1, <2>2
<1>7. DOMAIN d = {f, "result", "type"} /\ d[f] = Text(x)
  <2>1. DOMAIN d = DOMAIN r \cup {"type"}
    BY <1>3, InsertedKeys
  <2>2. d[f] = r[f]
    BY <1>0, <1>3, <1>6, InsertedValue
  <2>3. QED
    BY <1>6, <2>1, <2>2
<1>8. Body(Plain(f, x), 4, e)
  BY <1>0, <1>1, BodyOne
<1>9. Body(Plain("result", code) \o Plain(f, x), 4 + 4, r)
  BY <1>0, <1>2, <1>5, <1>8, BodyMore
<1>10. Body(Plain("result", code) \o Plain(f, x), 8, r)
  BY <1>9
<1>11. Body(Plain("type", words) \o (Plain("result", code) \o Plain(f, x)), 4 + 8, d)
  BY <1>0, <1>3, <1>6, <1>10, BodyMore
<1>12. Body(Plain("type", words) \o (Plain("result", code) \o Plain(f, x)), 12, d)
  BY <1>11
<1>13. MapString(r, "result") = <<code>>
  BY <1>2, InsertedFields
<1>14. MapString(d, "type") = <<words>> /\ MapString(d, "result") = MapString(r, "result")
  BY <1>3, InsertedFields
<1>15. ResponseText(d) = x
  <2>1. d[f].v = x
    BY <1>7, TextLeafy
  <2>2. CASE f = "text"
    BY <1>7, <2>1, <2>2 DEF ResponseText
  <2>3. CASE f = "err"
    <3>1. PICK qs : qs = [i \in 1..13 |->
             IF KeyOrder[i] \in DOMAIN d \ {"result", "type"} THEN d[KeyOrder[i]].v ELSE <<>>]
      OBVIOUS
    <3>2. ResponseText(d) = FlattenSeq(qs)
      BY <1>7, <2>3, <3>1, KeysOrdered DEF ResponseText
    <3>3. qs = [i \in 1..13 |-> qs[i]]
      BY <3>1
    <3>4. KeyOrder[9] = "err" /\ 9 \in 1..13
      BY DEF KeyOrder
    <3>5. qs[9] = x
      BY <1>7, <2>1, <2>3, <3>1, <3>4
    <3>6. ASSUME NEW i \in 1..13, i # 9 PROVE qs[i] = <<>>
      <4>1. KeyOrder[i] # "err"
        BY <3>4, <3>6, KeysOrdered
      <4>2. QED
        BY <1>7, <2>3, <3>1, <4>1
    <3>7. FlattenSeq(qs) = qs[9]
      BY <3>3, <3>4, <3>5, <3>6, FlatOnly
    <3>8. QED
      BY <3>2, <3>5, <3>7
  <2>4. QED
    BY <2>2, <2>3
<1>16. QED
  BY <1>4, <1>12, <1>13, <1>14, <1>15

-----------------------------------------------------------------------------
(* A frame of named, as cells and as what is read of it. *)
PeerCtrlCells(n, now, non) ==
  Plain("_ser", n) \o Plain("_tim", now) \o Plain("_exp", now + Window)
  \o Plain("_rpl", "1") \o Plain("_nonce", non)

PeerBody(n, now, non, fields) ==
  Entry("_ctrl", TypeTable, PeerCtrlCells(n, now, non)) \o Entry("_data", TypeTable, fields)

FrameOf(k, n, now, non, fields) ==
  LET body == PeerBody(n, now, non, fields)
      auth == Entry("_auth", TypeTable, Entry("hsha", TypeBinary, <<Raw(Hsha(k, body))>>))
      payload == <<Num(1)>> \o auth \o body
  IN <<Num(Len(payload))>> \o payload

LEMMA PeerFrameOf ==
  ASSUME NEW n, NEW now, NEW non, NEW fields
  PROVE  PeerFrame(n, now, non, fields) = FrameOf(Ours, n, now, non, fields)
  BY DEF PeerFrame, FrameOf, PeerBody, PeerCtrlCells

CtrlFive(n, now, non) == Insert(NoEntries, "_nonce", Text(non))
CtrlFour(n, now, non) == Insert(CtrlFive(n, now, non), "_rpl", Text("1"))
CtrlThree(n, now, non) == Insert(CtrlFour(n, now, non), "_exp", Text(now + Window))
CtrlTwo(n, now, non) == Insert(CtrlThree(n, now, non), "_tim", Text(now))
PeerCtrl(n, now, non) == Insert(CtrlTwo(n, now, non), "_ser", Text(n))

LEMMA PeerCtrlCellsRead ==
  ASSUME NEW n, NEW now, NEW non
  PROVE  Body(PeerCtrlCells(n, now, non), 20, PeerCtrl(n, now, non))
<1>1. PICK a : a = Plain("_ser", n)
  OBVIOUS
<1>2. PICK b : b = Plain("_tim", now)
  OBVIOUS
<1>3. PICK c : c = Plain("_exp", now + Window)
  OBVIOUS
<1>4. PICK d : d = Plain("_rpl", "1")
  OBVIOUS
<1>5. PICK e : e = Plain("_nonce", non)
  OBVIOUS
<1>6. IsSeq(a) /\ IsSeq(b) /\ IsSeq(c) /\ IsSeq(d) /\ IsSeq(e)
  <2>1. 1 \in 0..32
    OBVIOUS
  <2>2. QED
    BY <1>1, <1>2, <1>3, <1>4, <1>5, <2>1, PlainCells
<1>7. PICK de : de = d \o e
  OBVIOUS
<1>8. PICK cde : cde = c \o de
  OBVIOUS
<1>9. PICK bcde : bcde = b \o cde
  OBVIOUS
<1>10. IsSeq(de) /\ IsSeq(cde) /\ IsSeq(bcde)
  BY <1>6, <1>7, <1>8, <1>9, SeqConcat
<1>11. (((a \o b) \o c) \o d) \o e = a \o bcde
  <2>1. PICK ab : ab = a \o b
    OBVIOUS
  <2>2. PICK abc : abc = ab \o c
    OBVIOUS
  <2>3. IsSeq(ab) /\ IsSeq(abc)
    BY <1>6, <2>1, <2>2, SeqConcat
  <2>4. (abc \o d) \o e = abc \o de
    <3>1. IsSeq(abc) /\ IsSeq(d) /\ IsSeq(e)
      BY <1>6, <2>3
    <3>2. (abc \o d) \o e = abc \o (d \o e)
      BY ONLY <3>1, SeqConcatThree
    <3>3. QED
      BY <1>7, <3>2
  <2>5. (ab \o c) \o de = ab \o cde
    <3>1. IsSeq(ab) /\ IsSeq(c) /\ IsSeq(de)
      BY <1>6, <1>10, <2>3
    <3>2. (ab \o c) \o de = ab \o (c \o de)
      BY ONLY <3>1, SeqConcatThree
    <3>3. QED
      BY <1>8, <3>2
  <2>6. (a \o b) \o cde = a \o bcde
    <3>1. IsSeq(a) /\ IsSeq(b) /\ IsSeq(cde)
      BY <1>6, <1>10
    <3>2. (a \o b) \o cde = a \o (b \o cde)
      BY ONLY <3>1, SeqConcatThree
    <3>3. QED
      BY <1>9, <3>2
  <2>7. QED
    BY <2>1, <2>2, <2>4, <2>5, <2>6
<1>12. PeerCtrlCells(n, now, non) = a \o bcde
  BY <1>1, <1>2, <1>3, <1>4, <1>5, <1>11 DEF PeerCtrlCells
<1>13. DOMAIN CtrlFive(n, now, non) = {"_nonce"} /\ DOMAIN CtrlFour(n, now, non) = {"_nonce", "_rpl"}
       /\ DOMAIN CtrlThree(n, now, non) = {"_nonce", "_rpl", "_exp"}
       /\ DOMAIN CtrlTwo(n, now, non) = {"_nonce", "_rpl", "_exp", "_tim"}
  <2>1. DOMAIN CtrlFive(n, now, non) = {"_nonce"}
    BY NoLeaves DEF CtrlFive, Insert
  <2>2. DOMAIN CtrlFour(n, now, non) = {"_nonce", "_rpl"}
    BY <2>1 DEF CtrlFour, Insert
  <2>3. DOMAIN CtrlThree(n, now, non) = {"_nonce", "_rpl", "_exp"}
    BY <2>2 DEF CtrlThree, Insert
  <2>4. DOMAIN CtrlTwo(n, now, non) = {"_nonce", "_rpl", "_exp", "_tim"}
    BY <2>3 DEF CtrlTwo, Insert
  <2>5. QED
    BY <2>1, <2>2, <2>3, <2>4
<1>14. Body(e, 4, CtrlFive(n, now, non))
  BY <1>5, BodyOne DEF CtrlFive
<1>15. Body(de, 8, CtrlFour(n, now, non))
  <2>1. "_rpl" \notin DOMAIN CtrlFive(n, now, non)
    BY <1>13
  <2>2. Body(d \o e, 4 + 4, Insert(CtrlFive(n, now, non), "_rpl", Text("1")))
    BY <1>4, <1>14, <2>1, BodyMore
  <2>3. QED
    BY <1>7, <2>2 DEF CtrlFour
<1>16. Body(cde, 12, CtrlThree(n, now, non))
  <2>1. "_exp" \notin DOMAIN CtrlFour(n, now, non)
    BY <1>13
  <2>2. Body(c \o de, 4 + 8, Insert(CtrlFour(n, now, non), "_exp", Text(now + Window)))
    BY <1>3, <1>15, <2>1, BodyMore
  <2>3. QED
    BY <1>8, <2>2 DEF CtrlThree
<1>17. Body(bcde, 16, CtrlTwo(n, now, non))
  <2>1. "_tim" \notin DOMAIN CtrlThree(n, now, non)
    BY <1>13
  <2>2. Body(b \o cde, 4 + 12, Insert(CtrlThree(n, now, non), "_tim", Text(now)))
    BY <1>2, <1>16, <2>1, BodyMore
  <2>3. QED
    BY <1>9, <2>2 DEF CtrlTwo
<1>18. Body(a \o bcde, 20, PeerCtrl(n, now, non))
  <2>1. "_ser" \notin DOMAIN CtrlTwo(n, now, non)
    BY <1>13
  <2>2. Body(a \o bcde, 4 + 16, Insert(CtrlTwo(n, now, non), "_ser", Text(n)))
    BY <1>1, <1>17, <2>1, BodyMore
  <2>3. QED
    BY <2>2 DEF PeerCtrl
<1>19. QED
  BY <1>12, <1>18

LEMMA PeerCtrlStrings ==
  ASSUME NEW n, NEW now, NEW non
  PROVE  /\ MapString(PeerCtrl(n, now, non), "_ser") = <<n>>
         /\ MapString(PeerCtrl(n, now, non), "_tim") = <<now>>
         /\ MapString(PeerCtrl(n, now, non), "_exp") = <<now + Window>>
         /\ MapString(PeerCtrl(n, now, non), "_rpl") = <<"1">>
         /\ MapString(PeerCtrl(n, now, non), "_nonce") = <<non>>
<1>1. PICK e : e = CtrlFive(n, now, non)
  OBVIOUS
<1>2. PICK d : d = CtrlFour(n, now, non)
  OBVIOUS
<1>3. PICK c : c = CtrlThree(n, now, non)
  OBVIOUS
<1>4. PICK b : b = CtrlTwo(n, now, non)
  OBVIOUS
<1>5. PICK a : a = PeerCtrl(n, now, non)
  OBVIOUS
<1>6. MapString(e, "_nonce") = <<non>>
  BY <1>1, InsertedFields DEF CtrlFive
<1>7. MapString(d, "_rpl") = <<"1">> /\ MapString(d, "_nonce") = MapString(e, "_nonce")
  BY <1>1, <1>2, InsertedFields DEF CtrlFour
<1>8. /\ MapString(c, "_exp") = <<now + Window>>
      /\ MapString(c, "_rpl") = MapString(d, "_rpl") /\ MapString(c, "_nonce") = MapString(d, "_nonce")
  BY <1>2, <1>3, InsertedFields DEF CtrlThree
<1>9. /\ MapString(b, "_tim") = <<now>> /\ MapString(b, "_exp") = MapString(c, "_exp")
      /\ MapString(b, "_rpl") = MapString(c, "_rpl") /\ MapString(b, "_nonce") = MapString(c, "_nonce")
  BY <1>3, <1>4, InsertedFields DEF CtrlTwo
<1>10. /\ MapString(a, "_ser") = <<n>>
       /\ MapString(a, "_tim") = MapString(b, "_tim") /\ MapString(a, "_exp") = MapString(b, "_exp")
       /\ MapString(a, "_rpl") = MapString(b, "_rpl") /\ MapString(a, "_nonce") = MapString(b, "_nonce")
  BY <1>4, <1>5, InsertedFields DEF PeerCtrl
<1>11. QED
  BY <1>5, <1>6, <1>7, <1>8, <1>9, <1>10

(* Tables of the signed part. *)
PeerTables(n, now, non, d) ==
  Insert(Insert(NoEntries, "_data", Table(d)), "_ctrl", Table(PeerCtrl(n, now, non)))

LEMMA PeerBodyRead ==
  ASSUME NEW n, NEW now, NEW non, NEW fields, NEW w, NEW d, w \in 0..12, Body(fields, w, d)
  PROVE  /\ NoAuth(PeerBody(n, now, non, fields)) /\ Len(PeerBody(n, now, non, fields)) = 26 + w
         /\ Reads(PeerBody(n, now, non, fields), 0, PeerTables(n, now, non, d))
<1>1. PICK cc : cc = PeerCtrlCells(n, now, non)
  OBVIOUS
<1>2. PICK c : c = PeerCtrl(n, now, non)
  OBVIOUS
<1>3. Body(cc, 20, c)
  BY <1>1, <1>2, PeerCtrlCellsRead
<1>4. NoAuth(cc) /\ Len(cc) = 20 /\ Reads(cc, 1, c) /\ IsSeq(cc)
  BY <1>3 DEF Body, NoAuth
<1>5. NoAuth(fields) /\ Len(fields) = w /\ Reads(fields, 1, d) /\ IsSeq(fields)
  BY DEF Body, NoAuth
<1>6. PICK a : a = Entry("_ctrl", TypeTable, cc)
  OBVIOUS
<1>7. PICK b : b = Entry("_data", TypeTable, fields)
  OBVIOUS
<1>8. PeerBody(n, now, non, fields) = a \o b
  BY <1>1, <1>6, <1>7 DEF PeerBody
<1>9. NoAuth(a) /\ NoAuth(b)
  BY <1>4, <1>5, <1>6, <1>7, NoAuthEntry
<1>10. NoAuth(a \o b)
  BY <1>9, NoAuthConcat
<1>11. Len(a) = 23
  <2>1. IsSeq(cc)
    BY <1>4
  <2>2. Len(Entry("_ctrl", TypeTable, cc)) = 3 + Len(cc)
    BY ONLY <2>1, EntrySeq
  <2>3. QED
    BY <1>4, <1>6, <2>2
<1>12. Len(b) = 3 + w
  <2>1. IsSeq(fields)
    BY <1>5
  <2>2. Len(Entry("_data", TypeTable, fields)) = 3 + Len(fields)
    BY ONLY <2>1, EntrySeq
  <2>3. QED
    BY <1>5, <1>7, <2>2
<1>13. Len(a \o b) = 26 + w
  <2>1. IsSeq(a) /\ IsSeq(b)
    BY <1>9 DEF NoAuth
  <2>2. Len(a \o b) = Len(a) + Len(b)
    BY ONLY <2>1, SeqConcat
  <2>3. QED
    BY <1>11, <1>12, <2>2
<1>14. 0 \in 0..31 /\ 0 \in 0..32 /\ 0 + 1 = 1
  OBVIOUS
<1>15. EntryReads(a, 0, "_ctrl", Table(c)) /\ EntryReads(b, 0, "_data", Table(d))
  BY <1>4, <1>5, <1>6, <1>7, <1>14, TableReads
<1>16. PICK t : t = Insert(NoEntries, "_data", Table(d))
  OBVIOUS
<1>17. Reads(b, 0, t)
  <2>1. Reads(<<>>, 0, NoEntries) /\ "_data" \notin DOMAIN NoEntries
    BY <1>14, ReadsNothing, NoLeaves
  <2>2. Reads(b \o <<>>, 0, t)
    BY <1>15, <1>16, <2>1, ReadsEntry
  <2>3. b \o <<>> = b
    BY <1>9, SeqConcatEmpty DEF NoAuth
  <2>4. QED
    BY <2>2, <2>3
<1>18. "_ctrl" \notin DOMAIN t
  BY <1>16, NoLeaves DEF Insert
<1>19. Reads(a \o b, 0, Insert(t, "_ctrl", Table(c)))
  BY <1>15, <1>17, <1>18, ReadsEntry
<1>20. PeerTables(n, now, non, d) = Insert(t, "_ctrl", Table(c))
  BY <1>2, <1>16 DEF PeerTables
<1>21. QED
  BY <1>8, <1>10, <1>13, <1>19, <1>20

PeerSign(k, n, now, non, fields) ==
  Entry("hsha", TypeBinary, <<Raw(Hsha(k, PeerBody(n, now, non, fields)))>>)
PeerPayload(k, n, now, non, fields) ==
  <<Num(1)>> \o (Entry("_auth", TypeTable, PeerSign(k, n, now, non, fields))
                 \o PeerBody(n, now, non, fields))
PeerMessage(k, n, now, non, fields, d) ==
  Insert(PeerTables(n, now, non, d), "_auth",
         Table(Insert(NoEntries, "hsha", Binary(Hsha(k, PeerBody(n, now, non, fields))))))

(* The signature, a table of four cells. *)
LEMMA PeerSignRead ==
  ASSUME NEW k, NEW n, NEW now, NEW non, NEW fields, NEW s, s = PeerSign(k, n, now, non, fields)
  PROVE  /\ NoAuth(s) /\ Len(s) = 4
         /\ Reads(s, 1, Insert(NoEntries, "hsha", Binary(Hsha(k, PeerBody(n, now, non, fields)))))
<1>1. PICK hs : hs = Hsha(k, PeerBody(n, now, non, fields))
  OBVIOUS
<1>2. PICK b : b = <<Raw(hs)>>
  OBVIOUS
<1>3. IsSeq(b) /\ Len(b) = 1 /\ b[1] = Raw(hs)
  BY <1>2, SeqOne
<1>4. s = Entry("hsha", TypeBinary, b)
  BY <1>1, <1>2 DEF PeerSign
<1>5. Raw(hs) # Key("_auth")
  BY DEF Raw, Key
<1>6. NoAuth(b)
  BY <1>3, <1>5 DEF NoAuth
<1>7. NoAuth(s)
  BY <1>4, <1>6, NoAuthEntry
<1>8. Len(s) = 4
  <2>1. IsSeq(b)
    BY <1>3
  <2>2. Len(Entry("hsha", TypeBinary, b)) = 3 + Len(b)
    BY ONLY <2>1, EntrySeq
  <2>3. QED
    BY <1>3, <1>4, <2>2
<1>9. Leaf(Binary(hs)) = b
  BY <1>2, BinaryLeafy DEF Leaf
<1>10. 1 \in 0..32
  OBVIOUS
<1>11. EntryReads(s, 1, "hsha", Binary(hs))
  BY <1>4, <1>9, <1>10, BinaryLeafy, LeafReads
<1>12. Reads(<<>>, 1, NoEntries) /\ "hsha" \notin DOMAIN NoEntries
  BY <1>10, ReadsNothing, NoLeaves
<1>13. Reads(s \o <<>>, 1, Insert(NoEntries, "hsha", Binary(hs)))
  BY <1>11, <1>12, ReadsEntry
<1>14. s \o <<>> = s
  BY <1>7, SeqConcatEmpty DEF NoAuth
<1>15. QED
  BY <1>1, <1>7, <1>8, <1>13, <1>14

LEMMA FrameParts ==
  ASSUME NEW k, NEW n, NEW now, NEW non, NEW fields, NEW w, NEW d, w \in 0..12, Body(fields, w, d)
  PROVE  LET p == PeerPayload(k, n, now, non, fields)
         IN FrameOf(k, n, now, non, fields) = <<Num(Len(p))>> \o p
<1>1. PICK b : b = PeerBody(n, now, non, fields)
  OBVIOUS
<1>2. PICK s : s = PeerSign(k, n, now, non, fields)
  OBVIOUS
<1>3. PICK a : a = Entry("_auth", TypeTable, s)
  OBVIOUS
<1>4. PICK v : v = <<Num(1)>>
  OBVIOUS
<1>5. IsSeq(b)
  BY <1>1, PeerBodyRead DEF NoAuth
<1>6. IsSeq(s)
  BY <1>2, PeerSignRead DEF NoAuth
<1>7. IsSeq(a)
  BY <1>3, <1>6, EntrySeq
<1>8. IsSeq(v)
  BY <1>4, SeqOne
<1>9. (v \o a) \o b = v \o (a \o b)
  BY ONLY <1>5, <1>7, <1>8, SeqConcatThree
<1>10. PICK p : p = PeerPayload(k, n, now, non, fields)
  OBVIOUS
<1>11. p = v \o (a \o b)
  BY <1>1, <1>2, <1>3, <1>4, <1>10 DEF PeerPayload
<1>12. p = (v \o a) \o b
  BY <1>9, <1>11
<1>13. FrameOf(k, n, now, non, fields) = <<Num(Len(p))>> \o p
  BY <1>1, <1>2, <1>3, <1>4, <1>12 DEF FrameOf, PeerSign
<1>14. QED
  BY <1>10, <1>13

LEMMA PayloadCells ==
  ASSUME NEW k, NEW n, NEW now, NEW non, NEW fields, NEW w, NEW d, w \in 0..12,
         Body(fields, w, d), NEW p, p = PeerPayload(k, n, now, non, fields)
  PROVE  /\ IsSeq(p) /\ Len(p) = 34 + w /\ p[2] = Key("_auth") /\ p[4] = Num(4)
         /\ \A i \in 1..34 + w : i # 2 => p[i] # Key("_auth")
         /\ Holds(p, 9, PeerBody(n, now, non, fields))
         /\ Len(PeerBody(n, now, non, fields)) = 26 + w
<1>1. PICK b : b = PeerBody(n, now, non, fields)
  OBVIOUS
<1>2. PICK s : s = PeerSign(k, n, now, non, fields)
  OBVIOUS
<1>3. PICK a : a = Entry("_auth", TypeTable, s)
  OBVIOUS
<1>4. PICK v : v = <<Num(1)>>
  OBVIOUS
<1>5. p = v \o (a \o b)
  BY <1>1, <1>2, <1>3, <1>4 DEF PeerPayload
<1>6. NoAuth(b) /\ IsSeq(b) /\ Len(b) = 26 + w
  BY <1>1, PeerBodyRead DEF NoAuth
<1>7. NoAuth(s) /\ IsSeq(s) /\ Len(s) = 4
  BY <1>2, PeerSignRead DEF NoAuth
<1>8. IsSeq(v) /\ Len(v) = 1 /\ v[1] = Num(1)
  BY <1>4, SeqOne
<1>9. IsSeq(a) /\ Len(a) = 7 /\ a[1] = Key("_auth") /\ a[2] = Tag(TypeTable) /\ a[3] = Num(4)
      /\ \A i \in 1..4 : a[3 + i] = s[i]
  <2>1. IsSeq(s)
    BY <1>7
  <2>2. /\ IsSeq(Entry("_auth", TypeTable, s)) /\ Len(Entry("_auth", TypeTable, s)) = 3 + Len(s)
        /\ Entry("_auth", TypeTable, s)[1] = Key("_auth")
        /\ Entry("_auth", TypeTable, s)[2] = Tag(TypeTable)
        /\ Entry("_auth", TypeTable, s)[3] = Num(Len(s))
    BY ONLY <2>1, EntrySeq
  <2>3. \A i \in 1..Len(s) : Entry("_auth", TypeTable, s)[3 + i] = s[i]
    BY ONLY <2>1, EntrySeq
  <2>4. QED
    BY <1>3, <1>7, <2>2, <2>3
<1>10. PICK ab : ab = a \o b
  OBVIOUS
<1>11. IsSeq(a) /\ IsSeq(b)
  BY <1>6, <1>9
<1>12. /\ IsSeq(a \o b) /\ Len(a \o b) = Len(a) + Len(b)
       /\ \A i \in 1..Len(a) : (a \o b)[i] = a[i]
       /\ \A i \in 1..Len(b) : (a \o b)[Len(a) + i] = b[i]
  BY ONLY <1>11, SeqConcat
<1>13. /\ IsSeq(ab) /\ Len(ab) = 33 + w
       /\ \A i \in 1..7 : ab[i] = a[i]
       /\ \A i \in 1..26 + w : ab[7 + i] = b[i]
  <2>1. IsSeq(ab) /\ Len(ab) = Len(a) + Len(b)
    BY <1>10, <1>12
  <2>2. Len(ab) = 33 + w
    BY <1>6, <1>9, <2>1
  <2>3. \A i \in 1..7 : ab[i] = a[i]
    BY <1>9, <1>10, <1>12
  <2>4. \A i \in 1..26 + w : ab[7 + i] = b[i]
    BY <1>6, <1>9, <1>10, <1>12
  <2>5. QED
    BY <2>1, <2>2, <2>3, <2>4
<1>14. IsSeq(v) /\ IsSeq(ab)
  BY <1>8, <1>13
<1>15. /\ IsSeq(v \o ab) /\ Len(v \o ab) = Len(v) + Len(ab)
       /\ \A i \in 1..Len(v) : (v \o ab)[i] = v[i]
       /\ \A i \in 1..Len(ab) : (v \o ab)[Len(v) + i] = ab[i]
  BY ONLY <1>14, SeqConcat
<1>16. IsSeq(p) /\ Len(p) = 34 + w
  BY <1>5, <1>8, <1>10, <1>13, <1>15
<1>17. p[1] = Num(1)
  <2>1. 1 \in 1..Len(v)
    BY <1>8
  <2>2. QED
    BY <1>5, <1>8, <1>10, <1>15, <2>1
<1>18. \A i \in 1..33 + w : p[1 + i] = ab[i]
  BY <1>5, <1>8, <1>10, <1>13, <1>15
<1>19. ab[1] = Key("_auth") /\ ab[2] = Tag(TypeTable) /\ ab[3] = Num(4)
  BY <1>9, <1>13
<1>20. p[1 + 1] = ab[1] /\ p[1 + 3] = ab[3]
  BY <1>18
<1>21. p[2] = Key("_auth") /\ p[4] = Num(4)
  BY <1>19, <1>20
<1>22. Num(1) # Key("_auth") /\ Num(4) # Key("_auth") /\ Tag(TypeTable) # Key("_auth")
  BY DEF Num, Tag, Key
<1>23. ASSUME NEW i \in 1..33 + w, i # 1 PROVE ab[i] # Key("_auth")
  <2>1. CASE i = 2 \/ i = 3
    BY <1>19, <1>22, <2>1
  <2>2. CASE i \in 4..7
    <3>1. i - 3 \in 1..4 /\ 3 + (i - 3) = i /\ i \in 1..7
      BY <2>2
    <3>2. ab[i] = s[i - 3]
      BY <1>9, <1>13, <3>1
    <3>3. QED
      BY <1>7, <3>1, <3>2 DEF NoAuth
  <2>3. CASE i > 7
    <3>1. i - 7 \in 1..26 + w /\ 7 + (i - 7) = i
      BY <2>3
    <3>2. ab[i] = b[i - 7]
      BY <1>13, <3>1
    <3>3. QED
      BY <1>6, <3>1, <3>2 DEF NoAuth
  <2>4. QED
    BY <1>23, <2>1, <2>2, <2>3
<1>24. ASSUME NEW i \in 1..34 + w, i # 2 PROVE p[i] # Key("_auth")
  <2>1. CASE i = 1
    BY <1>17, <1>22, <2>1
  <2>2. CASE i # 1
    <3>1. i - 1 \in 1..33 + w /\ i - 1 # 1 /\ 1 + (i - 1) = i
      BY <1>24, <2>2
    <3>2. p[i] = ab[i - 1]
      BY <1>18, <3>1
    <3>3. QED
      BY <1>23, <3>1, <3>2
  <2>3. QED
    BY <2>1, <2>2
<1>25. Holds(p, 9, b)
  <2>1. Holds(p, 1, v \o ab)
    BY <1>5, <1>10, <1>16, HoldsItself
  <2>2. Holds(p, 1 + Len(v), ab)
    BY <1>14, <2>1, HoldsConcat
  <2>3. Holds(p, 2, a \o b)
    BY <1>8, <1>10, <2>2
  <2>4. Holds(p, 2 + Len(a), b)
    BY <1>11, <2>3, HoldsConcat
  <2>5. QED
    BY <1>9, <2>4
<1>26. QED
  BY <1>1, <1>6, <1>16, <1>21, <1>24, <1>25

LEMMA PayloadRead ==
  ASSUME NEW k, NEW n, NEW now, NEW non, NEW fields, NEW w, NEW d, w \in 0..12,
         Body(fields, w, d), NEW p, p = PeerPayload(k, n, now, non, fields)
  PROVE  /\ Decode(p) = Table(PeerMessage(k, n, now, non, fields, d))
         /\ ExtractHmacInput(p) = [is |-> "input", v |-> PeerBody(n, now, non, fields)]
<1>1. PICK b : b = PeerBody(n, now, non, fields)
  OBVIOUS
<1>2. PICK s : s = PeerSign(k, n, now, non, fields)
  OBVIOUS
<1>3. PICK a : a = Entry("_auth", TypeTable, s)
  OBVIOUS
<1>4. p = <<Num(IscVersion)>> \o (a \o b)
  BY <1>1, <1>2, <1>3 DEF PeerPayload, IscVersion
<1>5. PICK h : h = Insert(NoEntries, "hsha", Binary(Hsha(k, b)))
  OBVIOUS
<1>6. PICK t : t = PeerTables(n, now, non, d)
  OBVIOUS
<1>7. Reads(b, 0, t)
  BY <1>1, <1>6, PeerBodyRead
<1>8. Reads(s, 1, h)
  BY <1>1, <1>2, <1>5, PeerSignRead
<1>9. 0 \in 0..31 /\ 0 + 1 = 1
  OBVIOUS
<1>10. EntryReads(a, 0, "_auth", Table(h))
  BY <1>3, <1>8, <1>9, TableReads
<1>11. "_auth" \notin DOMAIN t
  BY <1>6, NoLeaves DEF PeerTables, Insert
<1>12. Reads(a \o b, 0, Insert(t, "_auth", Table(h)))
  BY <1>7, <1>10, <1>11, ReadsEntry
<1>13. Decode(p) = Table(Insert(t, "_auth", Table(h)))
  BY <1>4, <1>12, DecodeReads
<1>14. PeerMessage(k, n, now, non, fields, d) = Insert(t, "_auth", Table(h))
  BY <1>1, <1>5, <1>6 DEF PeerMessage
<1>15. IsSeq(p) /\ Len(p) = 34 + w /\ p[2] = Key("_auth") /\ p[4] = Num(4)
       /\ Holds(p, 9, b) /\ Len(b) = 26 + w
  BY <1>1, PayloadCells
<1>16. SubSeq(p, 9, 9 + Len(b) - 1) = b
  BY <1>15, HoldsPart
<1>17. 9 + Len(b) - 1 = Len(p)
  BY <1>15
<1>18. SubSeq(p, 9, Len(p)) = b
  BY <1>16, <1>17
<1>19. p[4][1] = "num" /\ p[4][2] = 4
  BY <1>15 DEF Num
<1>20. ~(Len(p) < 4) /\ ~(8 > Len(p))
  BY <1>15
<1>21. ExtractHmacInput(p) = [is |-> "input", v |-> b]
  <2>1. PICK e : e = 4 + p[4][2]
    OBVIOUS
  <2>2. e = 8
    BY <1>19, <2>1
  <2>3. SubSeq(p, e + 1, Len(p)) = b
    BY <1>18, <2>2
  <2>4. ~(e > Len(p)) /\ p[2] = Key("_auth") /\ p[4][1] = "num" /\ ~(Len(p) < 4)
    BY <1>15, <1>19, <1>20, <2>2
  <2>5. QED
    BY <2>1, <2>3, <2>4 DEF ExtractHmacInput
<1>22. QED
  BY <1>1, <1>13, <1>14, <1>21

LEMMA FrameCells ==
  ASSUME NEW k, NEW n, NEW now, NEW non, NEW fields, NEW w, NEW d, w \in 0..12,
         Body(fields, w, d), NEW f, f = FrameOf(k, n, now, non, fields)
  PROVE  /\ IsSeq(f) /\ Len(f) = 35 + w /\ f[1] = Num(34 + w) /\ f[3] = Key("_auth")
         /\ \A i \in 1..35 + w : i # 3 => f[i] # Key("_auth")
         /\ Holds(f, 2, PeerPayload(k, n, now, non, fields))
         /\ Len(PeerPayload(k, n, now, non, fields)) = 34 + w
<1>1. PICK p : p = PeerPayload(k, n, now, non, fields)
  OBVIOUS
<1>2. /\ IsSeq(p) /\ Len(p) = 34 + w /\ p[2] = Key("_auth")
      /\ \A i \in 1..34 + w : i # 2 => p[i] # Key("_auth")
  BY <1>1, PayloadCells
<1>3. PICK h : h = <<Num(Len(p))>>
  OBVIOUS
<1>4. f = h \o p
  BY <1>1, <1>3, FrameParts
<1>5. IsSeq(h) /\ Len(h) = 1 /\ h[1] = Num(34 + w)
  BY <1>2, <1>3, SeqOne
<1>6. IsSeq(h) /\ IsSeq(p)
  BY <1>2, <1>5
<1>7. /\ IsSeq(h \o p) /\ Len(h \o p) = Len(h) + Len(p)
      /\ \A i \in 1..Len(h) : (h \o p)[i] = h[i]
      /\ \A i \in 1..Len(p) : (h \o p)[Len(h) + i] = p[i]
  BY ONLY <1>6, SeqConcat
<1>8. IsSeq(f)
  BY <1>4, <1>7
<1>9. Len(f) = 35 + w
  BY <1>2, <1>4, <1>5, <1>7
<1>10. f[1] = Num(34 + w)
  <2>1. 1 \in 1..Len(h)
    BY <1>5
  <2>2. QED
    BY <1>4, <1>5, <1>7, <2>1
<1>11. \A i \in 1..34 + w : f[1 + i] = p[i]
  BY <1>2, <1>4, <1>5, <1>7
<1>12. f[3] = Key("_auth")
  <2>1. f[1 + 2] = p[2]
    BY <1>11
  <2>2. QED
    BY <1>2, <2>1
<1>13. Num(34 + w) # Key("_auth")
  BY DEF Num, Key
<1>14. ASSUME NEW i \in 1..35 + w, i # 3 PROVE f[i] # Key("_auth")
  <2>1. CASE i = 1
    BY <1>10, <1>13, <2>1
  <2>2. CASE i # 1
    <3>1. i - 1 \in 1..34 + w /\ i - 1 # 2 /\ 1 + (i - 1) = i
      BY <1>14, <2>2
    <3>2. f[i] = p[i - 1]
      BY <1>11, <3>1
    <3>3. QED
      BY <1>2, <3>1, <3>2
  <2>3. QED
    BY <2>1, <2>2
<1>15. Holds(f, 1, h \o p)
  BY <1>4, <1>8, HoldsItself
<1>16. Holds(f, 1 + Len(h), p)
  BY <1>6, <1>15, HoldsConcat
<1>17. Holds(f, 2, p)
  BY <1>5, <1>16
<1>18. QED
  BY <1>1, <1>2, <1>8, <1>9, <1>10, <1>12, <1>14, <1>17

(* What is read where a frame of named stands. *)
LEMMA PeerRead ==
  ASSUME NEW k, NEW n, NEW now, NEW non, NEW fields, NEW w, NEW d, w \in 0..12,
         Body(fields, w, d), NEW stream, Holds(stream, 1, FrameOf(k, n, now, non, fields))
  PROVE  /\ Arrived(stream) /\ FrameEnd(stream) = 35 + w
         /\ ReadMessage(stream) = [is |-> "message", v |-> PeerMessage(k, n, now, non, fields, d),
                                   input |-> PeerBody(n, now, non, fields)]
<1>1. PICK f : f = FrameOf(k, n, now, non, fields)
  OBVIOUS
<1>2. PICK p : p = PeerPayload(k, n, now, non, fields)
  OBVIOUS
<1>3. IsSeq(f) /\ Len(f) = 35 + w /\ f[1] = Num(34 + w) /\ Holds(f, 2, p) /\ Len(p) = 34 + w
  BY <1>1, <1>2, FrameCells
<1>4. IsSeq(stream) /\ Holds(stream, 1, f)
  BY <1>1 DEF Holds
<1>5. PICK l \in Nat : l = Len(stream)
  BY <1>4, SeqFacts
<1>6. 1 + (35 + w) <= l + 1 /\ \A j \in 1..35 + w : stream[1 + j - 1] = f[j]
  BY <1>3, <1>4, <1>5 DEF Holds
<1>7. 35 + w <= l
  BY <1>6
<1>8. stream[1] = Num(34 + w)
  <2>1. 1 \in 1..35 + w /\ 1 + 1 - 1 = 1
    OBVIOUS
  <2>2. stream[1 + 1 - 1] = f[1]
    BY <1>6, <2>1
  <2>3. QED
    BY <1>3, <2>1, <2>2
<1>9. stream[1][1] = "num" /\ stream[1][2] = 34 + w
  BY <1>8 DEF Num
<1>10. 34 + w \in 1..MaxMessage
  BY SessionAssumption, CodecAssumption DEF MaxReply
<1>11. ~BadLength(stream[1])
  BY <1>9, <1>10 DEF BadLength
<1>12. FrameEnd(stream) = 35 + w
  <2>1. FrameEnd(stream) = 1 + stream[1][2]
    BY <1>11 DEF FrameEnd
  <2>2. 1 + (34 + w) = 35 + w
    OBVIOUS
  <2>3. QED
    BY <1>9, <2>1, <2>2
<1>13. stream # <<>>
  BY <1>5, <1>7, SeqEmpty
<1>14. Arrived(stream)
  BY <1>5, <1>7, <1>12, <1>13 DEF Arrived
<1>15. Holds(stream, 2, p)
  <2>1. IsSeq(p) /\ \A j \in 1..34 + w : f[2 + j - 1] = p[j]
    BY <1>3 DEF Holds
  <2>2. ASSUME NEW j \in 1..34 + w PROVE stream[2 + j - 1] = p[j]
    <3>1. 1 + j \in 1..35 + w /\ 1 + (1 + j) - 1 = 2 + j - 1 /\ 1 + j = 2 + j - 1
      OBVIOUS
    <3>2. stream[1 + (1 + j) - 1] = f[1 + j]
      BY <1>6, <3>1
    <3>3. QED
      BY <2>1, <3>1, <3>2
  <2>3. 2 \in 1..l + 1 /\ 2 + (34 + w) <= l + 1
    BY <1>7
  <2>4. QED
    BY <1>3, <1>4, <1>5, <2>1, <2>2, <2>3 DEF Holds
<1>16. SubSeq(stream, 2, 2 + Len(p) - 1) = p
  BY <1>15, HoldsPart
<1>17. 2 + Len(p) - 1 = 35 + w
  BY <1>3
<1>18. SubSeq(stream, 2, FrameEnd(stream)) = p
  BY <1>12, <1>16, <1>17
<1>19. PICK m : m = PeerMessage(k, n, now, non, fields, d)
  OBVIOUS
<1>20. PICK b : b = PeerBody(n, now, non, fields)
  OBVIOUS
<1>21. Decode(p) = Table(m) /\ ExtractHmacInput(p) = [is |-> "input", v |-> b]
  BY <1>2, <1>19, <1>20, PayloadRead
<1>22. Table(m) # Malformed /\ Table(m).v = m
  BY TableShape
<1>23. [is |-> "input", v |-> b] # Malformed
  <2>1. [is |-> "input", v |-> b].is = "input" /\ Malformed.is = "malformed"
    BY DEF Malformed
  <2>2. QED
    BY <2>1
<1>24. FrameEnd(stream) # 1
  BY <1>12
<1>25. ReadMessage(stream) = [is |-> "message", v |-> m, input |-> b]
  <2>1. PICK i : i = ExtractHmacInput(p)
    OBVIOUS
  <2>2. PICK e : e = Decode(p)
    OBVIOUS
  <2>3. i # Malformed /\ i.v = b
    BY <1>21, <1>23, <2>1
  <2>4. e # Malformed /\ e.v = m
    BY <1>21, <1>22, <2>2
  <2>5. PICK end : end = FrameEnd(stream)
    OBVIOUS
  <2>6. ReadMessage(stream) = [is |-> "message", v |-> e.v, input |-> i.v]
    BY <1>18, <1>24, <2>1, <2>2, <2>3, <2>4, <2>5 DEF ReadMessage
  <2>7. QED
    BY <2>3, <2>4, <2>6
<1>26. QED
  BY <1>12, <1>14, <1>19, <1>20, <1>25

(* Out of step nothing is taken for a reply. *)
LEMMA ReadRefused ==
  ASSUME NEW stream, IsSeq(stream), Arrived(stream),
         Len(stream) >= 3 => stream[3] # Key("_auth")
  PROVE  ReadMessage(stream).is # "message"
<1>1. CASE FrameEnd(stream) = 1
  BY <1>1 DEF ReadMessage
<1>2. CASE FrameEnd(stream) # 1
  <2>1. PICK l \in Nat : l = Len(stream)
    BY SeqFacts
  <2>2. ~BadLength(stream[1])
    BY <1>2 DEF FrameEnd
  <2>3. PICK c : c = stream[1][2]
    OBVIOUS
  <2>4. c \in 1..MaxMessage /\ MaxMessage \in Nat
    BY <2>2, <2>3, CodecAssumption DEF BadLength
  <2>5. PICK e : e = 1 + c
    OBVIOUS
  <2>6. FrameEnd(stream) = e
    BY <2>2, <2>3, <2>5 DEF FrameEnd
  <2>7. e \in 2..l
    BY <2>1, <2>4, <2>5, <2>6 DEF Arrived
  <2>8. PICK p : p = SubSeq(stream, 2, e)
    OBVIOUS
  <2>9. 2 \in 1..Len(stream) + 1 /\ e \in 0..Len(stream) /\ 2 <= e + 1
    BY <2>1, <2>7
  <2>10. Len(p) = e + 1 - 2 /\ \A i \in 1..e + 1 - 2 : p[i] = stream[2 + i - 1]
    BY <2>8, <2>9, SeqSub
  <2>11. CASE Len(p) < 4
    <3>1. ExtractHmacInput(p) = Malformed
      BY <2>11 DEF ExtractHmacInput
    <3>2. QED
      BY <1>2, <2>6, <2>8, <3>1 DEF ReadMessage
  <2>12. CASE ~(Len(p) < 4)
    <3>1. 2 \in 1..e + 1 - 2 /\ 2 + 2 - 1 = 3 /\ Len(stream) >= 3
      BY <2>1, <2>7, <2>10, <2>12
    <3>2. p[2] # Key("_auth")
      BY <2>10, <3>1
    <3>3. ExtractHmacInput(p) = Malformed
      BY <3>2 DEF ExtractHmacInput
    <3>4. QED
      BY <1>2, <2>6, <2>8, <3>3 DEF ReadMessage
  <2>13. QED
    BY <2>11, <2>12
<1>3. QED
  BY <1>1, <1>2

(* The tables of a message of named. *)
LEMMA PeerFields ==
  ASSUME NEW k, NEW n, NEW now, NEW non, NEW fields, NEW d, NEW m,
         m = PeerMessage(k, n, now, non, fields, d)
  PROVE  /\ {"_auth", "_ctrl", "_data"} \subseteq {x \in DOMAIN m : m[x].is = "map"}
         /\ GetMap(m, "_ctrl") = PeerCtrl(n, now, non) /\ GetMap(m, "_data") = d
         /\ "hsha" \in DOMAIN GetMap(m, "_auth")
         /\ GetMap(m, "_auth")["hsha"] = Binary(Hsha(k, PeerBody(n, now, non, fields)))
<1>1. PICK c : c = PeerCtrl(n, now, non)
  OBVIOUS
<1>2. PICK hs : hs = Binary(Hsha(k, PeerBody(n, now, non, fields)))
  OBVIOUS
<1>3. PICK h : h = Insert(NoEntries, "hsha", hs)
  OBVIOUS
<1>4. PICK t : t = Insert(NoEntries, "_data", Table(d))
  OBVIOUS
<1>5. PICK u : u = Insert(t, "_ctrl", Table(c))
  OBVIOUS
<1>6. m = Insert(u, "_auth", Table(h))
  BY <1>1, <1>2, <1>3, <1>4, <1>5 DEF PeerMessage, PeerTables
<1>7. DOMAIN t = {"_data"} /\ t["_data"] = Table(d)
  BY <1>4, NoLeaves DEF Insert
<1>8. DOMAIN u = {"_data", "_ctrl"} /\ u["_data"] = Table(d) /\ u["_ctrl"] = Table(c)
  BY <1>5, <1>7 DEF Insert
<1>9. DOMAIN m = {"_data", "_ctrl", "_auth"}
  BY <1>6, <1>8 DEF Insert
<1>10. m["_data"] = Table(d) /\ m["_ctrl"] = Table(c) /\ m["_auth"] = Table(h)
  BY <1>6, <1>8 DEF Insert
<1>11. DOMAIN h = {"hsha"} /\ h["hsha"] = hs
  BY <1>3, NoLeaves DEF Insert
<1>12. \A x : Table(x).is = "map" /\ Table(x).v = x
  BY DEF Table
<1>13. GetMap(m, "_ctrl") = c
  BY <1>9, <1>10, <1>12 DEF GetMap
<1>14. GetMap(m, "_data") = d
  BY <1>9, <1>10, <1>12 DEF GetMap
<1>15. GetMap(m, "_auth") = h
  BY <1>9, <1>10, <1>12 DEF GetMap
<1>16. {"_auth", "_ctrl", "_data"} \subseteq {x \in DOMAIN m : m[x].is = "map"}
  BY <1>9, <1>10, <1>12
<1>17. QED
  BY <1>1, <1>2, <1>11, <1>13, <1>14, <1>15, <1>16

-----------------------------------------------------------------------------
(* Serials.  A connection whose serial is ser after k commands sent its    *)
(* a-th one (0 is the null command) under this serial.                     *)
SerialAt(ser, k, a) ==
  IF ser - (k - a) < 0 THEN ser - (k - a) + SerialMod ELSE ser - (k - a)

Serials == 0..SerialMod - 1

LEMMA NextSerial ==
  ASSUME NEW n \in Serials
  PROVE  /\ WrappingNext(n) \in Serials
         /\ WrappingNext(n) = IF n + 1 = SerialMod THEN 0 ELSE n + 1
<1>1. SerialMod \in Nat /\ SerialMod > 1 /\ n \in 0..SerialMod - 1
  BY CodecAssumption DEF Serials
<1>2. PICK m \in Nat : m = SerialMod /\ m > 1
  BY <1>1
<1>3. CASE n + 1 = m
  <2>1. m % m = 0
    BY <1>2
  <2>2. QED
    BY <1>1, <1>2, <1>3, <2>1 DEF WrappingNext, Serials
<1>4. CASE n + 1 # m
  <2>1. n + 1 \in 0..m - 1
    BY <1>1, <1>2, <1>4
  <2>2. (n + 1) % m = n + 1
    BY <1>2, <2>1
  <2>3. QED
    BY <1>1, <1>2, <1>4, <2>1, <2>2 DEF WrappingNext, Serials
<1>5. QED
  BY <1>3, <1>4

(* Within 2^32 commands no two have the same serial. *)
LEMMA SerialFacts ==
  ASSUME NEW ser \in Serials, NEW k \in 0..MaxAttempts, NEW a \in 0..k
  PROVE  /\ SerialAt(ser, k, k) = ser
         /\ a # k => SerialAt(ser, k, a) # ser
         /\ SerialAt(WrappingNext(ser), k + 1, a) = SerialAt(ser, k, a)
<1>1. PICK m \in Nat : m = SerialMod /\ m > 1 /\ MaxAttempts \in 1..m - 1
  BY CodecAssumption, SessionAssumption
<1>2. ser \in 0..m - 1 /\ k \in 0..m - 1 /\ a \in 0..k
  BY <1>1 DEF Serials
<1>3. SerialAt(ser, k, k) = ser
  BY <1>1, <1>2 DEF SerialAt
<1>4. ASSUME a # k PROVE SerialAt(ser, k, a) # ser
  BY <1>1, <1>2, <1>4 DEF SerialAt
<1>5. SerialAt(WrappingNext(ser), k + 1, a) = SerialAt(ser, k, a)
  <2>1. PICK n : n = WrappingNext(ser)
    OBVIOUS
  <2>2. n = IF ser + 1 = m THEN 0 ELSE ser + 1
    BY <1>1, <2>1, NextSerial
  <2>3. SerialAt(n, k + 1, a) = SerialAt(ser, k, a)
    BY <1>1, <1>2, <2>2 DEF SerialAt
  <2>4. QED
    BY <2>1, <2>3
<1>6. QED
  BY <1>3, <1>4, <1>5

-----------------------------------------------------------------------------
(* What is on the wire of a connection.  k is the key, s the caller, ser   *)
(* its serial after at commands, w the words of the last one, and dn what  *)
(* named did.                                                              *)
PeerKey(k) == [algorithm |-> k.algorithm, secret |-> Secret]
Reasons == {"not found", "zone not loaded"}

(* The fields of the answer to words, the n-th execution. *)
Answers(fields, words, dn, n) ==
  /\ n \in DOMAIN dn
  /\ \/ /\ dn[n].ok = TRUE
        /\ fields = Plain("type", words)
                    \o (Plain("result", "0") \o Plain("text", PeerText(dn[n].what, n)))
     \/ /\ dn[n].ok = FALSE
        /\ \E f \in {"err", "text"}, why \in Reasons :
             fields = Plain("type", words) \o (Plain("result", "7") \o Plain(f, <<<<why, n>>>>))

(* The execution of the a-th command, with these words. *)
ReplyFields(fields, at, w, dn, a, words) ==
  IF a = 0
  THEN words = <<"null">> /\ fields = Plain("type", words) \o Plain("result", "0")
  ELSE /\ a = at => words = w
       /\ \E n \in DOMAIN dn : /\ Answers(fields, words, dn, n)
                               /\ dn[n].of = a /\ dn[n].what = Understand(words)

IsReply(k, s, ser, at, w, dn, f, a, t) ==
  /\ a \in 0..at
  /\ \E fields, words : /\ ReplyFields(fields, at, w, dn, a, words)
                        /\ f = FrameOf(PeerKey(k), SerialAt(ser, at, a), t, s, fields)

(* Wherever the key of a signature is, its whole frame is, and it is a     *)
(* reply: a reader out of step never reads a reply that is none.           *)
Streams(k, s, ser, at, w, dn, d) ==
  /\ IsSeq(d)
  /\ \A p \in 1..Len(d) : p + 2 <= Len(d) /\ d[p + 2] = Key("_auth") =>
       \E f, a, t : IsReply(k, s, ser, at, w, dn, f, a, t) /\ Holds(d, p, f)

IsRequest(k, s, ser, at, w, r) ==
  /\ r.of \in 0..at
  /\ \E t, words :
       /\ r.cells = CommandFrame(k, SerialAt(ser, at, r.of), t,
                                 IF r.of = 0 THEN NoNonce ELSE s, words)
       /\ r.of = 0 <=> words = <<"null">>
       /\ r.of = at /\ at # 0 => words = w

Requests(k, s, ser, at, w, u) ==
  IsSeq(u) /\ \A i \in 1..Len(u) : IsRequest(k, s, ser, at, w, u[i])

(* The text of an answer. *)
LEMMA PeerTextSeq ==
  ASSUME NEW u, NEW n
  PROVE  IsSeq(PeerText(u, n)) /\ Len(PeerText(u, n)) >= 1 /\ PeerText(u, n)[1] = <<"execution", n>>
<1>1. PICK h : h = <<<<"execution", n>>>>
  OBVIOUS
<1>2. PICK l : l = IF u.verb = "status" THEN StatusLines ELSE <<>>
  OBVIOUS
<1>3. IsSeq(h) /\ Len(h) = 1 /\ h[1] = <<"execution", n>>
  BY <1>1, SeqOne
<1>4. IsSeq(StatusLines)
  BY SeqThree DEF StatusLines
<1>5. IsSeq(l)
  BY <1>2, <1>4, SeqEmpty
<1>6. IsSeq(h)
  BY <1>3
<1>7. IsSeq(h \o l) /\ Len(h \o l) = Len(h) + Len(l)
      /\ \A i \in 1..Len(h) : (h \o l)[i] = h[i]
  BY ONLY <1>5, <1>6, SeqConcat
<1>8. Len(l) \in Nat
  BY <1>5, SeqFacts
<1>9. PeerText(u, n) = h \o l
  BY <1>1, <1>2 DEF PeerText
<1>10. 1 \in 1..Len(h)
  BY <1>3
<1>11. (h \o l)[1] = h[1]
  BY <1>7, <1>10
<1>12. Len(h \o l) >= 1
  BY <1>3, <1>7, <1>8
<1>13. QED
  BY <1>3, <1>7, <1>9, <1>11, <1>12

(* What an answer is read as. *)
AnswerData(d, words, ok, what, n) ==
  /\ MapString(d, "type") = <<words>>
  /\ \/ ok = TRUE /\ MapString(d, "result") = <<"0">> /\ ResponseText(d) = PeerText(what, n)
     \/ /\ ok = FALSE /\ MapString(d, "result") = <<"7">>
        /\ \E why \in Reasons : ResponseText(d) = <<<<why, n>>>>

LEMMA AnswerRead ==
  ASSUME NEW fields, NEW words, NEW dn, NEW n, Answers(fields, words, dn, n)
  PROVE  \E d : Body(fields, 12, d) /\ AnswerData(d, words, dn[n].ok, dn[n].what, n)
<1>1. CASE /\ dn[n].ok = TRUE
           /\ fields = Plain("type", words)
                       \o (Plain("result", "0") \o Plain("text", PeerText(dn[n].what, n)))
  <2>1. PICK x : x = PeerText(dn[n].what, n)
    OBVIOUS
  <2>2. IsSeq(x)
    BY <2>1, PeerTextSeq
  <2>3. PICK d : d = TextData(words, "0", "text", x)
    OBVIOUS
  <2>4. /\ Body(Plain("type", words) \o (Plain("result", "0") \o Plain("text", x)), 12, d)
        /\ MapString(d, "type") = <<words>> /\ MapString(d, "result") = <<"0">>
        /\ ResponseText(d) = x
    BY <2>2, <2>3, TextDataRead
  <2>5. QED
    BY <1>1, <2>1, <2>4 DEF AnswerData
<1>2. CASE /\ dn[n].ok = FALSE
           /\ \E f \in {"err", "text"}, why \in Reasons :
                fields = Plain("type", words) \o (Plain("result", "7") \o Plain(f, <<<<why, n>>>>))
  <2>1. PICK f \in {"err", "text"}, why \in Reasons :
          fields = Plain("type", words) \o (Plain("result", "7") \o Plain(f, <<<<why, n>>>>))
    BY <1>2
  <2>2. PICK x : x = <<<<why, n>>>>
    OBVIOUS
  <2>3. IsSeq(x)
    BY <2>2, SeqOne
  <2>4. PICK d : d = TextData(words, "7", f, x)
    OBVIOUS
  <2>5. /\ Body(Plain("type", words) \o (Plain("result", "7") \o Plain(f, x)), 12, d)
        /\ MapString(d, "type") = <<words>> /\ MapString(d, "result") = <<"7">>
        /\ ResponseText(d) = x
    BY <2>3, <2>4, TextDataRead
  <2>6. QED
    BY <1>2, <2>1, <2>2, <2>5 DEF AnswerData
<1>3. QED
  BY <1>1, <1>2 DEF Answers

(* What a reply to the a-th command says. *)
ReplyData(d, at, w, dn, a) ==
  IF a = 0 THEN MapString(d, "type") = <<<<"null">>>> /\ MapString(d, "result") = <<"0">>
  ELSE \E n, words :
         /\ n \in DOMAIN dn /\ AnswerData(d, words, dn[n].ok, dn[n].what, n)
         /\ dn[n].of = a /\ dn[n].what = Understand(words) /\ (a = at => words = w)

LEMMA FieldsRead ==
  ASSUME NEW fields, NEW at, NEW w, NEW dn, NEW a, NEW words,
         ReplyFields(fields, at, w, dn, a, words)
  PROVE  \E z, d : z \in 0..12 /\ Body(fields, z, d) /\ ReplyData(d, at, w, dn, a)
<1>1. CASE a = 0
  <2>1. words = <<"null">> /\ fields = Plain("type", words) \o Plain("result", "0")
    BY <1>1 DEF ReplyFields
  <2>2. PICK d : d = PlainData(words, "0")
    OBVIOUS
  <2>3. /\ Body(fields, 8, d) /\ MapString(d, "type") = <<words>>
        /\ MapString(d, "result") = <<"0">>
    BY <2>1, <2>2, PlainDataRead
  <2>4. ReplyData(d, at, w, dn, a)
    BY <1>1, <2>1, <2>3 DEF ReplyData
  <2>5. 8 \in 0..12
    OBVIOUS
  <2>6. QED
    BY <2>3, <2>4, <2>5
<1>2. CASE a # 0
  <2>1. (a = at => words = w)
        /\ \E n \in DOMAIN dn : /\ Answers(fields, words, dn, n)
                                /\ dn[n].of = a /\ dn[n].what = Understand(words)
    BY <1>2 DEF ReplyFields
  <2>2. PICK n \in DOMAIN dn : /\ Answers(fields, words, dn, n)
                               /\ dn[n].of = a /\ dn[n].what = Understand(words)
    BY <2>1
  <2>3. PICK d : Body(fields, 12, d) /\ AnswerData(d, words, dn[n].ok, dn[n].what, n)
    BY <2>2, AnswerRead
  <2>4. ReplyData(d, at, w, dn, a)
    BY <1>2, <2>1, <2>2, <2>3 DEF ReplyData
  <2>5. 12 \in 0..12
    OBVIOUS
  <2>6. QED
    BY <2>3, <2>4, <2>5
<1>3. QED
  BY <1>1, <1>2

-----------------------------------------------------------------------------
(* How the wire changes. *)
LEMMA ReplyCells ==
  ASSUME NEW k, NEW s, NEW ser, NEW at, NEW w, NEW dn, NEW f, NEW a, NEW t,
         IsReply(k, s, ser, at, w, dn, f, a, t)
  PROVE  /\ IsSeq(f) /\ Len(f) >= 35
         /\ \A i \in 1..Len(f) : i # 3 => f[i] # Key("_auth")
<1>1. PICK fields, words : /\ ReplyFields(fields, at, w, dn, a, words)
                           /\ f = FrameOf(PeerKey(k), SerialAt(ser, at, a), t, s, fields)
  BY DEF IsReply
<1>2. PICK z, d : z \in 0..12 /\ Body(fields, z, d)
  BY <1>1, FieldsRead
<1>3. PICK n : n = SerialAt(ser, at, a)
  OBVIOUS
<1>4. f = FrameOf(PeerKey(k), n, t, s, fields)
  BY <1>1, <1>3
<1>5. IsSeq(f) /\ Len(f) = 35 + z /\ \A i \in 1..35 + z : i # 3 => f[i] # Key("_auth")
  BY <1>2, <1>4, FrameCells
<1>6. QED
  BY <1>2, <1>5

LEMMA StreamEmpty ==
  ASSUME NEW k, NEW s, NEW ser, NEW at, NEW w, NEW dn
  PROVE  Streams(k, s, ser, at, w, dn, <<>>)
  BY SeqEmpty DEF Streams

LEMMA StreamAppend ==
  ASSUME NEW k, NEW s, NEW ser, NEW at, NEW w, NEW dn, NEW d, NEW f, NEW a, NEW t,
         Streams(k, s, ser, at, w, dn, d), IsReply(k, s, ser, at, w, dn, f, a, t)
  PROVE  Streams(k, s, ser, at, w, dn, d \o f)
<1>1. IsSeq(d) /\ IsSeq(f)
  BY ReplyCells DEF Streams
<1>2. PICK e : e = d \o f
  OBVIOUS
<1>3. /\ IsSeq(e) /\ Len(e) = Len(d) + Len(f)
      /\ \A i \in 1..Len(d) : e[i] = d[i]
      /\ \A i \in 1..Len(f) : e[Len(d) + i] = f[i]
  BY <1>1, <1>2, SeqConcat
<1>4. PICK l \in Nat, m \in Nat : l = Len(d) /\ m = Len(f)
  BY <1>1, SeqFacts
<1>5. m >= 35 /\ \A i \in 1..m : i # 3 => f[i] # Key("_auth")
  BY <1>4, ReplyCells
<1>6. ASSUME NEW p \in 1..l + m, p + 2 <= l + m, e[p + 2] = Key("_auth")
      PROVE  \E g, b, u : IsReply(k, s, ser, at, w, dn, g, b, u) /\ Holds(e, p, g)
  <2>1. CASE p + 2 <= l
    <3>1. p \in 1..l /\ p + 2 \in 1..l
      BY <2>1
    <3>2. d[p + 2] = Key("_auth")
      BY <1>3, <1>4, <1>6, <3>1
    <3>3. PICK g, b, u : IsReply(k, s, ser, at, w, dn, g, b, u) /\ Holds(d, p, g)
      BY <1>4, <2>1, <3>1, <3>2 DEF Streams
    <3>4. Holds(e, p, g)
      BY <1>1, <1>2, <3>3, HoldsBefore
    <3>5. QED
      BY <3>3, <3>4
  <2>2. CASE ~(p + 2 <= l)
    <3>1. p + 2 - l \in 1..m /\ l + (p + 2 - l) = p + 2
      BY <1>6, <2>2
    <3>2. f[p + 2 - l] = Key("_auth")
      BY <1>3, <1>4, <1>6, <3>1
    <3>3. p + 2 - l = 3
      BY <1>5, <3>1, <3>2
    <3>4. p = l + 1
      BY <3>3
    <3>5. Holds(f, 1, f)
      BY <1>1, HoldsItself
    <3>6. Holds(e, Len(d) + 1, f)
      BY <1>1, <1>2, <3>5, HoldsAfter
    <3>7. QED
      BY <1>4, <3>4, <3>6
  <2>3. QED
    BY <2>1, <2>2
<1>7. Streams(k, s, ser, at, w, dn, e)
  BY <1>3, <1>4, <1>6 DEF Streams
<1>8. QED
  BY <1>2, <1>7

LEMMA StreamRest ==
  ASSUME NEW k, NEW s, NEW ser, NEW at, NEW w, NEW dn, NEW d, NEW n,
         Streams(k, s, ser, at, w, dn, d), n \in 0..Len(d)
  PROVE  Streams(k, s, ser, at, w, dn, SubSeq(d, n + 1, Len(d)))
<1>1. PICK l \in Nat : l = Len(d) /\ IsSeq(d)
  BY SeqFacts DEF Streams
<1>2. n + 1 \in 1..Len(d) + 1 /\ Len(d) \in 0..Len(d) /\ n + 1 <= Len(d) + 1 /\ n \in 0..l
  BY <1>1
<1>3. PICK e : e = SubSeq(d, n + 1, Len(d))
  OBVIOUS
<1>4. /\ IsSeq(e) /\ Len(e) = Len(d) + 1 - (n + 1)
      /\ \A i \in 1..Len(d) + 1 - (n + 1) : e[i] = d[n + 1 + i - 1]
  BY <1>1, <1>2, <1>3, SeqSub
<1>5. Len(e) = l - n /\ \A i \in 1..l - n : e[i] = d[n + i]
  <2>1. l + 1 - (n + 1) = l - n /\ \A i \in 1..l - n : n + 1 + i - 1 = n + i
    BY <1>1, <1>2
  <2>2. QED
    BY <1>1, <1>4, <2>1
<1>6. ASSUME NEW p \in 1..l - n, p + 2 <= l - n, e[p + 2] = Key("_auth")
      PROVE  \E g, b, u : IsReply(k, s, ser, at, w, dn, g, b, u) /\ Holds(e, p, g)
  <2>1. p + 2 \in 1..l - n /\ n + (p + 2) = n + p + 2 /\ n + p \in 1..l /\ n + p + 2 <= l
    BY <1>2, <1>6
  <2>2. d[n + p + 2] = Key("_auth")
    BY <1>5, <1>6, <2>1
  <2>3. PICK g, b, u : IsReply(k, s, ser, at, w, dn, g, b, u) /\ Holds(d, n + p, g)
    BY <1>1, <2>1, <2>2 DEF Streams
  <2>4. n \in 0..(n + p) - 1 /\ (n + p) - n = p
    BY <1>2, <2>1
  <2>5. Holds(e, (n + p) - n, g)
    BY <1>3, <2>3, <2>4, HoldsRest
  <2>6. QED
    BY <2>3, <2>4, <2>5
<1>7. Streams(k, s, ser, at, w, dn, e)
  BY <1>4, <1>5, <1>6 DEF Streams
<1>8. QED
  BY <1>3, <1>7

(* The replies there are stay replies when the next command is sent, which *)
(* gets a serial of its own.                                               *)
LEMMA ReplyNext ==
  ASSUME NEW k, NEW s, NEW ser \in Serials, NEW at \in 0..MaxAttempts, NEW w, NEW v, NEW dn,
         NEW f, NEW a, NEW t, IsReply(k, s, ser, at, w, dn, f, a, t)
  PROVE  IsReply(k, s, WrappingNext(ser), at + 1, v, dn, f, a, t)
<1>1. PICK fields, words : /\ ReplyFields(fields, at, w, dn, a, words)
                           /\ f = FrameOf(PeerKey(k), SerialAt(ser, at, a), t, s, fields)
  BY DEF IsReply
<1>2. a \in 0..at /\ at \in Nat
  BY SessionAssumption DEF IsReply
<1>3. a \in 0..at + 1 /\ a # at + 1
  BY <1>2
<1>4. ReplyFields(fields, at + 1, v, dn, a, words)
  BY <1>1, <1>3 DEF ReplyFields
<1>5. SerialAt(WrappingNext(ser), at + 1, a) = SerialAt(ser, at, a)
  BY <1>2, SerialFacts
<1>6. QED
  BY <1>1, <1>3, <1>4, <1>5 DEF IsReply

LEMMA StreamNext ==
  ASSUME NEW k, NEW s, NEW ser \in Serials, NEW at \in 0..MaxAttempts, NEW w, NEW v, NEW dn,
         NEW d, Streams(k, s, ser, at, w, dn, d)
  PROVE  Streams(k, s, WrappingNext(ser), at + 1, v, dn, d)
<1>1. ASSUME NEW p \in 1..Len(d), p + 2 <= Len(d), d[p + 2] = Key("_auth")
      PROVE  \E f, a, t : IsReply(k, s, WrappingNext(ser), at + 1, v, dn, f, a, t) /\ Holds(d, p, f)
  <2>1. PICK f, a, t : IsReply(k, s, ser, at, w, dn, f, a, t) /\ Holds(d, p, f)
    BY <1>1 DEF Streams
  <2>2. IsReply(k, s, WrappingNext(ser), at + 1, v, dn, f, a, t)
    BY <2>1, ReplyNext
  <2>3. QED
    BY <2>1, <2>2
<1>2. QED
  BY <1>1 DEF Streams

(* And when named does one thing more. *)
LEMMA ReplyDone ==
  ASSUME NEW k, NEW s, NEW ser, NEW at, NEW w, NEW dn, NEW e,
         NEW f, NEW a, NEW t, IsSeq(dn), IsReply(k, s, ser, at, w, dn, f, a, t)
  PROVE  IsReply(k, s, ser, at, w, Append(dn, e), f, a, t)
<1>1. PICK fields, words : /\ ReplyFields(fields, at, w, dn, a, words)
                           /\ f = FrameOf(PeerKey(k), SerialAt(ser, at, a), t, s, fields)
  BY DEF IsReply
<1>2. PICK l \in Nat : l = Len(dn) /\ DOMAIN dn = 1..l
  BY SeqFacts
<1>3. PICK en : en = Append(dn, e)
  OBVIOUS
<1>4. IsSeq(en) /\ Len(en) = l + 1 /\ \A i \in 1..l : en[i] = dn[i]
  BY <1>2, <1>3, SeqAppend
<1>5. DOMAIN en = 1..l + 1
  BY <1>4, SeqFacts
<1>6. \A i \in DOMAIN dn : i \in DOMAIN en /\ en[i] = dn[i]
  BY <1>2, <1>4, <1>5
<1>7. \A n : Answers(fields, words, dn, n) => Answers(fields, words, en, n)
  BY <1>6 DEF Answers
<1>8. ReplyFields(fields, at, w, en, a, words)
  BY <1>1, <1>6, <1>7 DEF ReplyFields
<1>9. QED
  BY <1>1, <1>3, <1>8 DEF IsReply

LEMMA StreamDone ==
  ASSUME NEW k, NEW s, NEW ser, NEW at, NEW w, NEW dn, NEW e, NEW d, IsSeq(dn),
         Streams(k, s, ser, at, w, dn, d)
  PROVE  Streams(k, s, ser, at, w, Append(dn, e), d)
<1>1. ASSUME NEW p \in 1..Len(d), p + 2 <= Len(d), d[p + 2] = Key("_auth")
      PROVE  \E f, a, t : IsReply(k, s, ser, at, w, Append(dn, e), f, a, t) /\ Holds(d, p, f)
  <2>1. PICK f, a, t : IsReply(k, s, ser, at, w, dn, f, a, t) /\ Holds(d, p, f)
    BY <1>1 DEF Streams
  <2>2. IsReply(k, s, ser, at, w, Append(dn, e), f, a, t)
    BY <2>1, ReplyDone
  <2>3. QED
    BY <2>1, <2>2
<1>2. QED
  BY <1>1 DEF Streams

LEMMA RequestNext ==
  ASSUME NEW k, NEW s, NEW ser \in Serials, NEW at \in 0..MaxAttempts, NEW w, NEW v, NEW r,
         IsRequest(k, s, ser, at, w, r)
  PROVE  IsRequest(k, s, WrappingNext(ser), at + 1, v, r)
<1>1. PICK t, words :
        /\ r.cells = CommandFrame(k, SerialAt(ser, at, r.of), t,
                                  IF r.of = 0 THEN NoNonce ELSE s, words)
        /\ r.of = 0 <=> words = <<"null">>
  BY DEF IsRequest
<1>2. r.of \in 0..at /\ at \in Nat
  BY SessionAssumption DEF IsRequest
<1>3. r.of \in 0..at + 1 /\ r.of # at + 1
  BY <1>2
<1>4. SerialAt(WrappingNext(ser), at + 1, r.of) = SerialAt(ser, at, r.of)
  BY <1>2, SerialFacts
<1>5. QED
  BY <1>1, <1>3, <1>4 DEF IsRequest

LEMMA RequestsNext ==
  ASSUME NEW k, NEW s, NEW ser \in Serials, NEW at \in 0..MaxAttempts, NEW w, NEW v, NEW u,
         Requests(k, s, ser, at, w, u)
  PROVE  Requests(k, s, WrappingNext(ser), at + 1, v, u)
  BY RequestNext DEF Requests

LEMMA RequestsAppend ==
  ASSUME NEW k, NEW s, NEW ser, NEW at, NEW w, NEW u, NEW r,
         Requests(k, s, ser, at, w, u), IsRequest(k, s, ser, at, w, r)
  PROVE  Requests(k, s, ser, at, w, Append(u, r))
<1>1. PICK l \in Nat : l = Len(u) /\ IsSeq(u)
  BY SeqFacts DEF Requests
<1>2. PICK e : e = Append(u, r)
  OBVIOUS
<1>3. IsSeq(e) /\ Len(e) = l + 1 /\ e[l + 1] = r /\ \A i \in 1..l : e[i] = u[i]
  BY <1>1, <1>2, SeqAppend
<1>4. \A i \in 1..l : IsRequest(k, s, ser, at, w, u[i])
  BY <1>1 DEF Requests
<1>5. \A i \in 1..l + 1 : i = l + 1 \/ i \in 1..l
  BY <1>1
<1>6. \A i \in 1..l + 1 : IsRequest(k, s, ser, at, w, e[i])
  BY <1>3, <1>4, <1>5
<1>7. QED
  BY <1>2, <1>3, <1>6 DEF Requests

LEMMA RequestsTail ==
  ASSUME NEW k, NEW s, NEW ser, NEW at, NEW w, NEW u,
         Requests(k, s, ser, at, w, u), u # <<>>
  PROVE  Requests(k, s, ser, at, w, Tail(u)) /\ IsRequest(k, s, ser, at, w, Head(u))
<1>1. PICK l \in Nat : l = Len(u) /\ IsSeq(u)
  BY SeqFacts DEF Requests
<1>2. PICK e : e = Tail(u)
  OBVIOUS
<1>3. l >= 1 /\ IsSeq(e) /\ Len(e) = l - 1 /\ Head(u) = u[1]
      /\ \A i \in 1..l - 1 : e[i] = u[i + 1]
  BY <1>1, <1>2, SeqTail
<1>4. \A i \in 1..l : IsRequest(k, s, ser, at, w, u[i])
  BY <1>1 DEF Requests
<1>5. 1 \in 1..l /\ \A i \in 1..l - 1 : i + 1 \in 1..l
  BY <1>3
<1>6. IsRequest(k, s, ser, at, w, u[1])
  BY <1>4, <1>5
<1>7. \A i \in 1..l - 1 : IsRequest(k, s, ser, at, w, e[i])
  BY <1>3, <1>4, <1>5
<1>8. QED
  BY <1>2, <1>3, <1>6, <1>7 DEF Requests

LEMMA RequestsEmpty ==
  ASSUME NEW k, NEW s, NEW ser, NEW at, NEW w
  PROVE  Requests(k, s, ser, at, w, <<>>)
  BY SeqEmpty DEF Requests

-----------------------------------------------------------------------------
(* What is read where a reply stands. *)
ReadsReply(k, s, d, n, t, x) ==
  /\ ReadMessage(d).is = "message"
  /\ {"_auth", "_ctrl", "_data"}
       \subseteq {y \in DOMAIN ReadMessage(d).v : ReadMessage(d).v[y].is = "map"}
  /\ GetMap(ReadMessage(d).v, "_ctrl") = PeerCtrl(n, t, s)
  /\ GetMap(ReadMessage(d).v, "_data") = x
  /\ "hsha" \in DOMAIN GetMap(ReadMessage(d).v, "_auth")
  /\ GetMap(ReadMessage(d).v, "_auth")["hsha"] = Binary(Hsha(PeerKey(k), ReadMessage(d).input))

LEMMA ReplyRead ==
  ASSUME NEW k, NEW s, NEW ser, NEW at, NEW w, NEW dn, NEW f, NEW a, NEW t, NEW d,
         IsReply(k, s, ser, at, w, dn, f, a, t), Holds(d, 1, f)
  PROVE  /\ Arrived(d) /\ FrameEnd(d) = Len(f)
         /\ \E x : ReplyData(x, at, w, dn, a) /\ ReadsReply(k, s, d, SerialAt(ser, at, a), t, x)
<1>1. PICK fields, words : /\ ReplyFields(fields, at, w, dn, a, words)
                           /\ f = FrameOf(PeerKey(k), SerialAt(ser, at, a), t, s, fields)
  BY DEF IsReply
<1>2. PICK z, x : z \in 0..12 /\ Body(fields, z, x) /\ ReplyData(x, at, w, dn, a)
  BY <1>1, FieldsRead
<1>3. PICK n : n = SerialAt(ser, at, a)
  OBVIOUS
<1>4. PICK pk : pk = PeerKey(k)
  OBVIOUS
<1>5. f = FrameOf(pk, n, t, s, fields)
  BY <1>1, <1>3, <1>4
<1>6. Len(f) = 35 + z
  BY <1>2, <1>5, FrameCells
<1>7. Holds(d, 1, FrameOf(pk, n, t, s, fields))
  BY <1>5
<1>8. PICK m : m = PeerMessage(pk, n, t, s, fields, x)
  OBVIOUS
<1>9. PICK b : b = PeerBody(n, t, s, fields)
  OBVIOUS
<1>10. /\ Arrived(d) /\ FrameEnd(d) = 35 + z
       /\ ReadMessage(d) = [is |-> "message", v |-> m, input |-> b]
  BY <1>2, <1>7, <1>8, <1>9, PeerRead
<1>11. /\ {"_auth", "_ctrl", "_data"} \subseteq {y \in DOMAIN m : m[y].is = "map"}
       /\ GetMap(m, "_ctrl") = PeerCtrl(n, t, s) /\ GetMap(m, "_data") = x
       /\ "hsha" \in DOMAIN GetMap(m, "_auth")
       /\ GetMap(m, "_auth")["hsha"] = Binary(Hsha(pk, b))
  BY <1>8, <1>9, PeerFields
<1>12. ReadMessage(d).is = "message" /\ ReadMessage(d).v = m /\ ReadMessage(d).input = b
  BY <1>10
<1>13. ReadsReply(k, s, d, n, t, x)
  BY <1>4, <1>11, <1>12 DEF ReadsReply
<1>14. QED
  BY <1>2, <1>3, <1>6, <1>10, <1>13

(* What is accepted was read where a reply stands. *)
LEMMA ReadIsReply ==
  ASSUME NEW k, NEW s, NEW ser, NEW at, NEW w, NEW dn, NEW d,
         Streams(k, s, ser, at, w, dn, d), Arrived(d), ReadMessage(d).is = "message"
  PROVE  \E f, a, t : IsReply(k, s, ser, at, w, dn, f, a, t) /\ Holds(d, 1, f)
<1>1. IsSeq(d)
  BY DEF Streams
<1>2. Len(d) >= 3 /\ d[3] = Key("_auth")
  BY <1>1, ReadRefused
<1>3. PICK l \in Nat : l = Len(d)
  BY <1>1, SeqFacts
<1>4. 1 \in 1..Len(d) /\ 1 + 2 <= Len(d) /\ 1 + 2 = 3
  BY <1>2, <1>3
<1>5. d[1 + 2] = Key("_auth")
  BY <1>2, <1>4
<1>6. QED
  BY <1>4, <1>5 DEF Streams

(* Reading takes no more than there is. *)
LEMMA FrameWithin ==
  ASSUME NEW d, IsSeq(d), Arrived(d)
  PROVE  FrameEnd(d) \in 0..Len(d)
<1>1. PICK l \in Nat : l = Len(d)
  BY SeqFacts
<1>2. Len(d) >= FrameEnd(d)
  BY DEF Arrived
<1>3. CASE BadLength(d[1])
  <2>1. FrameEnd(d) = 1
    BY <1>3 DEF FrameEnd
  <2>2. QED
    BY <1>1, <1>2, <2>1
<1>4. CASE ~BadLength(d[1])
  <2>1. d[1][2] \in 1..MaxMessage /\ MaxMessage \in Nat
    BY <1>4, CodecAssumption DEF BadLength
  <2>2. PICK c \in Nat : c = d[1][2]
    BY <2>1
  <2>3. FrameEnd(d) = 1 + c
    BY <1>4, <2>2 DEF FrameEnd
  <2>4. QED
    BY <1>1, <1>2, <2>2, <2>3
<1>5. QED
  BY <1>3, <1>4

(* A reply that is verified is one for the serial, the nonce and the time. *)
VerifiedAt(k, d, ser, now, non, words) ==
  Verified(k, ReadMessage(d).v, ReadMessage(d).input, ser, now, non, words)

IsFor(k, s, d, n, t, x, ser, now, non, words) ==
  /\ Hsha(PeerKey(k), ReadMessage(d).input) = Hsha(k, ReadMessage(d).input)
  /\ n = ser /\ t \in now..now + Window
  /\ non = NoNonce \/ s = non
  /\ MapString(x, "type") \in {<<>>, <<words>>}

LEMMA VerifiedReply ==
  ASSUME NEW k, NEW s, NEW d, NEW n, NEW t, NEW x, NEW ser, NEW now, NEW non, NEW words,
         ReadsReply(k, s, d, n, t, x)
  PROVE  /\ VerifiedAt(k, d, ser, now, non, words) => IsFor(k, s, d, n, t, x, ser, now, non, words)
         /\ IsFor(k, s, d, n, t, x, ser, now, non, words) => VerifiedAt(k, d, ser, now, non, words)
<1>1. PICK m : m = ReadMessage(d).v
  OBVIOUS
<1>2. PICK b : b = ReadMessage(d).input
  OBVIOUS
<1>3. PICK c : c = PeerCtrl(n, t, s)
  OBVIOUS
<1>4. /\ {"_auth", "_ctrl", "_data"} \subseteq {y \in DOMAIN m : m[y].is = "map"}
      /\ GetMap(m, "_ctrl") = c /\ GetMap(m, "_data") = x
      /\ "hsha" \in DOMAIN GetMap(m, "_auth")
      /\ GetMap(m, "_auth")["hsha"] = Binary(Hsha(PeerKey(k), b))
  BY <1>1, <1>2, <1>3 DEF ReadsReply
<1>5. PICK h : h = Hsha(PeerKey(k), b)
  OBVIOUS
<1>6. Binary(h).is = "binary" /\ Binary(h).v = h
  BY BinaryLeafy
<1>7. VerifyHmac(k, b, GetMap(m, "_auth")) <=> h = Hsha(k, b)
  BY <1>4, <1>5, <1>6 DEF VerifyHmac
<1>8. /\ MapString(c, "_ser") = <<n>> /\ MapString(c, "_tim") = <<t>>
      /\ MapString(c, "_exp") = <<t + Window>> /\ MapString(c, "_rpl") = <<"1">>
      /\ MapString(c, "_nonce") = <<s>>
  BY <1>3, PeerCtrlStrings
<1>9. \A y, z : <<y>> = <<z>> <=> y = z
  OBVIOUS
<1>10. (\E u \in now..now + Window : /\ MapString(c, "_tim") = <<u>>
                                     /\ MapString(c, "_exp") = <<u + Window>>)
       <=> t \in now..now + Window
  <2>1. ASSUME NEW u \in now..now + Window, MapString(c, "_tim") = <<u>>
        PROVE  t \in now..now + Window
    <3>1. <<t>> = <<u>>
      BY <1>8, <2>1
    <3>2. t = u
      BY <1>9, <3>1
    <3>3. QED
      BY <2>1, <3>2
  <2>2. QED
    BY <1>8, <2>1
<1>11. <<s>> # <<>>
  OBVIOUS
<1>12. ValidControl(c, ser, now, non) <=>
         n = ser /\ t \in now..now + Window /\ (non = NoNonce \/ s = non)
  BY <1>8, <1>9, <1>10, <1>11 DEF ValidControl
<1>13. Verified(k, m, b, ser, now, non, words) <=>
         /\ h = Hsha(k, b)
         /\ n = ser /\ t \in now..now + Window
         /\ non = NoNonce \/ s = non
         /\ MapString(x, "type") \in {<<>>, <<words>>}
  BY <1>4, <1>7, <1>12 DEF Verified
<1>14. VerifiedAt(k, d, ser, now, non, words) <=> Verified(k, m, b, ser, now, non, words)
  BY <1>1, <1>2 DEF VerifiedAt
<1>15. IsFor(k, s, d, n, t, x, ser, now, non, words) <=>
         /\ h = Hsha(k, b)
         /\ n = ser /\ t \in now..now + Window
         /\ non = NoNonce \/ s = non
         /\ MapString(x, "type") \in {<<>>, <<words>>}
  BY <1>2, <1>5 DEF IsFor
<1>16. QED
  BY <1>13, <1>14, <1>15

-----------------------------------------------------------------------------
(* What a caller makes of an answer. *)
Succeeds(o) == IF o.is = "text" THEN Response(o.text).ok ELSE o.is = "ok"

LEMMA TextTold ==
  ASSUME NEW s, NEW x, NEW words, NEW what, NEW n, AnswerData(x, words, TRUE, what, n)
  PROVE  /\ ExecutionIn(Outcome(s, x).text) = n /\ Succeeds(Outcome(s, x)) = TRUE
         /\ Outcome(s, x).is \in {"ok", "error", "text"}
         /\ Outcome(s, x).text = PeerText(what, n)
<1>1. MapString(x, "result") = <<"0">> /\ ResponseText(x) = PeerText(what, n)
  BY DEF AnswerData
<1>2. PICK t : t = PeerText(what, n)
  OBVIOUS
<1>3. IsSeq(t) /\ Len(t) >= 1 /\ t[1] = <<"execution", n>>
  BY <1>2, PeerTextSeq
<1>4. t[1][1] = "execution" /\ t[1][2] = n
  BY <1>3, Pairs
<1>5. "execution" \notin ErrorPrefixes /\ "execution" # "rndc: "
  BY DEF ErrorPrefixes
<1>6. Response(t).text = t /\ Response(t).ok = TRUE
  BY <1>4, <1>5 DEF Response
<1>7. Result(x) = Response(t)
  BY <1>1, <1>2 DEF Result
<1>8. ExecutionIn(t) = n
  BY <1>4, <1>5 DEF ExecutionIn
<1>9. CASE s \in Users
  <2>1. Outcome(s, x) = [is |-> "text", text |-> t]
    BY <1>6, <1>7, <1>9 DEF Outcome
  <2>2. QED
    BY <1>2, <1>6, <1>8, <2>1 DEF Succeeds
<1>10. CASE s \notin Users
  <2>1. Outcome(s, x) = [is |-> "ok", text |-> t]
    BY <1>6, <1>7, <1>10 DEF Outcome
  <2>2. QED
    BY <1>2, <1>8, <2>1 DEF Succeeds
<1>11. QED
  BY <1>9, <1>10

LEMMA ErrorTold ==
  ASSUME NEW s, NEW x, NEW words, NEW what, NEW n, AnswerData(x, words, FALSE, what, n)
  PROVE  /\ ExecutionIn(Outcome(s, x).text) = n /\ Succeeds(Outcome(s, x)) = FALSE
         /\ Outcome(s, x).is \in {"ok", "error", "text"}
<1>1. MapString(x, "result") = <<"7">> /\ \E why \in Reasons : ResponseText(x) = <<<<why, n>>>>
  BY DEF AnswerData
<1>2. PICK why : ResponseText(x) = <<<<why, n>>>>
  BY <1>1
<1>3. PICK e : e = <<<<why, n>>>>
  OBVIOUS
<1>4. e[1] = <<why, n>>
  BY <1>3, SeqOne
<1>5. e[1][2] = n
  BY <1>4, Pairs
<1>6. PICK l : l = <<"rndc: ", e>>
  OBVIOUS
<1>7. l[1] = "rndc: " /\ l[2] = e
  BY <1>6, Pairs
<1>8. PICK t : t = <<l>>
  OBVIOUS
<1>9. t[1] = l /\ Len(t) = 1
  BY <1>8, SeqOne
<1>10. t # <<>>
  BY <1>9, SeqEmpty
<1>11. t[1][1] \in ErrorPrefixes /\ t[1][1] = "rndc: "
  BY <1>7, <1>9 DEF ErrorPrefixes
<1>12. Response(t).text = t /\ Response(t).ok = FALSE
  BY <1>10, <1>11 DEF Response
<1>13. <<"7">> # <<"0">>
  OBVIOUS
<1>14. Result(x) = Response(t)
  BY <1>1, <1>2, <1>3, <1>6, <1>8, <1>13 DEF Result
<1>15. ExecutionIn(t) = n
  <2>1. ExecutionIn(t) = t[1][2][1][2]
    BY <1>11 DEF ExecutionIn
  <2>2. t[1][2] = e
    BY <1>7, <1>9
  <2>3. QED
    BY <1>5, <2>1, <2>2
<1>16. CASE s \in Users
  <2>1. Outcome(s, x) = [is |-> "text", text |-> t]
    BY <1>12, <1>14, <1>16 DEF Outcome
  <2>2. QED
    BY <1>12, <1>15, <2>1 DEF Succeeds
<1>17. CASE s \notin Users
  <2>1. Outcome(s, x) = [is |-> "error", text |-> t]
    BY <1>12, <1>14, <1>17 DEF Outcome
  <2>2. QED
    BY <1>15, <2>1 DEF Succeeds
<1>18. QED
  BY <1>16, <1>17

(* A status, whose text is what named reported after the execution's name. *)
LEMMA StatusParsed ==
  ASSUME NEW what, NEW n, what.verb = "status"
  PROVE  ParseServerStatus(PeerText(what, n)) = [version |-> Version, zones |-> "2", up |-> TRUE]
<1>1. PICK h : h = <<<<"execution", n>>>>
  OBVIOUS
<1>2. IsSeq(h) /\ Len(h) = 1 /\ h[1] = <<"execution", n>>
  BY <1>1, SeqOne
<1>3. /\ IsSeq(StatusLines) /\ Len(StatusLines) = 3
      /\ StatusLines[1] = <<"version:", Version>>
      /\ StatusLines[2] = <<"number of zones:", "2">>
      /\ StatusLines[3] = <<"server is up and running", "">>
  BY SeqThree DEF StatusLines
<1>4. PICK t : t = h \o StatusLines
  OBVIOUS
<1>5. IsSeq(h) /\ IsSeq(StatusLines)
  BY <1>2, <1>3
<1>6. /\ IsSeq(t) /\ Len(t) = Len(h) + Len(StatusLines)
      /\ \A i \in 1..Len(h) : t[i] = h[i]
      /\ \A i \in 1..Len(StatusLines) : t[Len(h) + i] = StatusLines[i]
  BY ONLY <1>4, <1>5, SeqConcat
<1>7. DOMAIN t = 1..4
  <2>1. 1 + 3 = 4
    OBVIOUS
  <2>2. Len(t) = 4
    BY <1>2, <1>3, <1>6, <2>1
  <2>3. DOMAIN t = 1..Len(t)
    BY <1>6, SeqFacts
  <2>4. QED
    BY <2>2, <2>3
<1>8. t[1] = <<"execution", n>>
  BY <1>2, <1>6
<1>9. t[2] = <<"version:", Version>>
  <2>1. 1 \in 1..3 /\ 1 + 1 = 2
    OBVIOUS
  <2>2. t[1 + 1] = StatusLines[1]
    BY <1>2, <1>3, <1>6, <2>1
  <2>3. QED
    BY <1>3, <2>1, <2>2
<1>10. t[3] = <<"number of zones:", "2">>
  <2>1. 2 \in 1..3 /\ 1 + 2 = 3
    OBVIOUS
  <2>2. t[1 + 2] = StatusLines[2]
    BY <1>2, <1>3, <1>6, <2>1
  <2>3. QED
    BY <1>3, <2>1, <2>2
<1>11. t[4] = <<"server is up and running", "">>
  <2>1. 3 \in 1..3 /\ 1 + 3 = 4
    OBVIOUS
  <2>2. t[1 + 3] = StatusLines[3]
    BY <1>2, <1>3, <1>6, <2>1
  <2>3. QED
    BY <1>3, <2>1, <2>2
<1>12. /\ t[1][1] = "execution" /\ t[2][1] = "version:" /\ t[2][2] = Version
       /\ t[3][1] = "number of zones:" /\ t[3][2] = "2" /\ t[4][1] = "server is up and running"
  <2>1. t[1][1] = "execution"
    BY <1>8, Pairs
  <2>2. t[2][1] = "version:" /\ t[2][2] = Version
    BY <1>9, Pairs
  <2>3. t[3][1] = "number of zones:" /\ t[3][2] = "2"
    <3>1. PICK a, b : a = "number of zones:" /\ b = "2"
      OBVIOUS
    <3>2. t[3] = <<a, b>>
      BY <1>10, <3>1
    <3>3. t[3][1] = a /\ t[3][2] = b
      BY ONLY <3>2, Pairs
    <3>4. QED
      BY <3>1, <3>3
  <2>4. t[4][1] = "server is up and running"
    <3>1. PICK a, b : a = "server is up and running" /\ b = ""
      OBVIOUS
    <3>2. t[4] = <<a, b>>
      BY <1>11, <3>1
    <3>3. t[4][1] = a
      BY ONLY <3>2, Pairs
    <3>4. QED
      BY <3>1, <3>3
  <2>5. QED
    BY <2>1, <2>2, <2>3, <2>4
<1>13. \A i : i \in 1..4 <=> i \in {1, 2, 3, 4}
  OBVIOUS
<1>14. ASSUME NEW i, NEW l, i \in 1..4, t[i][1] = l, t[i][2] # "",
              \A j \in {1, 2, 3, 4} : j # i => t[j][1] # l
       PROVE  ExtractField(t, l) = t[i][2]
  <2>1. PICK found : found = {j \in DOMAIN t : t[j][1] = l /\ t[j][2] # ""}
    OBVIOUS
  <2>2. ASSUME NEW j \in found PROVE j = i
    <3>1. j \in {1, 2, 3, 4} /\ t[j][1] = l
      BY <1>7, <1>13, <2>1
    <3>2. QED
      BY <1>14, <3>1
  <2>3. i \in found
    BY <1>7, <1>14, <2>1
  <2>4. i <= i
    <3>1. i \in 1..4
      BY <1>14
    <3>2. QED
      BY ONLY <3>1
  <2>5. Min(found) = i
    BY <2>2, <2>3, <2>4 DEF Min
  <2>6. found # {}
    BY <2>3
  <2>7. QED
    BY <2>1, <2>5, <2>6 DEF ExtractField
<1>15. ExtractField(t, "version:") = "9.20.18"
  <2>1. Version = "9.20.18" /\ "9.20.18" # ""
    BY DEF Version
  <2>2. ASSUME NEW j \in {1, 2, 3, 4}, j # 2 PROVE t[j][1] # "version:"
    <3>1. j = 1 \/ j = 3 \/ j = 4
      BY <2>2
    <3>2. QED
      BY <1>12, <3>1
  <2>3. 2 \in 1..4
    OBVIOUS
  <2>4. t[2][1] = "version:" /\ t[2][2] # ""
    BY <1>12, <2>1
  <2>5. ExtractField(t, "version:") = t[2][2]
    BY <1>14, <2>2, <2>3, <2>4
  <2>6. QED
    BY <1>12, <2>1, <2>5
<1>16. ExtractField(t, "number of zones:") = "2"
  <2>2. ASSUME NEW j \in {1, 2, 3, 4}, j # 3 PROVE t[j][1] # "number of zones:"
    <3>1. j = 1 \/ j = 2 \/ j = 4
      BY <2>2
    <3>2. QED
      BY <1>12, <3>1
  <2>3. 3 \in 1..4
    OBVIOUS
  <2>4. t[3][1] = "number of zones:" /\ t[3][2] # ""
    BY <1>12
  <2>5. ExtractField(t, "number of zones:") = t[3][2]
    BY <1>14, <2>2, <2>3, <2>4
  <2>6. QED
    BY <1>12, <2>5
<1>17. "9.20.18" # None /\ "2" # None
  BY WordAssumption, SessionAssumption DEF OptionalWords, Version
<1>18. \E i \in DOMAIN t : t[i][1] = "server is up and running"
  <2>1. 4 \in DOMAIN t
    BY <1>7
  <2>2. QED
    BY <1>12, <2>1
<1>19. ParseServerStatus(t) = [version |-> Version, zones |-> "2", up |-> TRUE]
  BY <1>15, <1>16, <1>17, <1>18 DEF ParseServerStatus, Version
<1>20. PeerText(what, n) = t
  BY <1>1, <1>4 DEF PeerText
<1>21. QED
  BY <1>19, <1>20

-----------------------------------------------------------------------------
(* The invariant of a session. *)
Phases == {"idle", "acquire", "connect", "auth", "ready", "await", "close", "done"}

Types ==
  /\ time \in Nat /\ skew \in Int
  /\ DOMAIN pc = Callers /\ DOMAIN cmd = Callers /\ DOMAIN attempt = Callers
  /\ DOMAIN serial = Callers /\ DOMAIN sentAt = Callers /\ DOMAIN nonce = Callers
  /\ DOMAIN up = Callers /\ DOMAIN down = Callers /\ DOMAIN told = Callers
  /\ DOMAIN done = Callers /\ DOMAIN torn = Callers

CallerTypes(s) ==
  /\ pc[s] \in Phases /\ serial[s] \in Serials /\ attempt[s] \in 0..MaxAttempts
  /\ sentAt[s] \in Nat /\ sentAt[s] <= time
  /\ IsSeq(done[s])

(* What is known of a caller by where it is. *)
Phase(s) ==
  /\ pc[s] \in {"idle", "acquire", "connect"} => up[s] = <<>> /\ down[s] = <<>>
  /\ pc[s] \in {"idle", "acquire", "connect", "auth"} =>
       attempt[s] = 0 /\ told[s] = Nothing /\ nonce[s] = NoNonce /\ torn[s] = FALSE
  /\ pc[s] \in {"ready", "await", "close"} => nonce[s] = s
  /\ pc[s] = "await" => attempt[s] # 0
  /\ pc[s] = "ready" /\ attempt[s] # 0 => s \in Directs
  /\ cmd[s] \in CommandsOf(s) \cup {NoCommand}
  /\ pc[s] # "idle" => cmd[s] \in CommandsOf(s)

(* What is on its way. *)
Wire(s) ==
  /\ Streams(key, s, serial[s], attempt[s], Words(cmd[s]), done[s], down[s])
  /\ Requests(key, s, serial[s], attempt[s], Words(cmd[s]), up[s])

(* If nothing was dropped: a request and nothing else, or its reply and    *)
(* nothing else, made since the request.                                   *)
Pending(s) == down[s] = <<>> /\ \E r : r.of = attempt[s] /\ up[s] = <<r>>
Answered(s) ==
  /\ up[s] = <<>> /\ key.secret = Secret
  /\ \E t \in Int :
       /\ sentAt[s] + skew <= t /\ t <= time + skew
       /\ IsReply(key, s, serial[s], attempt[s], Words(cmd[s]), done[s], down[s], attempt[s], t)

Flow(s) ==
  /\ pc[s] \in {"auth", "await"} => torn[s] = TRUE \/ Pending(s) \/ Answered(s)
  /\ pc[s] \in {"ready", "close"} => torn[s] = TRUE \/ (up[s] = <<>> /\ down[s] = <<>>)

(* What a caller was told. *)
IsDone(o, dn, at, c, n) ==
  /\ n \in DOMAIN dn /\ dn[n].of = at /\ dn[n].what = Understand(Words(c))
  /\ dn[n].ok = Succeeds(o) /\ ExecutionIn(o.text) = n
  /\ dn[n].ok = TRUE => o.text = PeerText(dn[n].what, n)

Knows(s) ==
  /\ told[s].is \in {"ok", "error", "text"} =>
       pc[s] # "idle" /\ \E n : IsDone(told[s], done[s], attempt[s], cmd[s], n)
  /\ told[s].is = "refused" => torn[s] = TRUE \/ skew < 0 \/ time + skew > sentAt[s] + Window

CallerInv(s) == CallerTypes(s) /\ Phase(s) /\ Wire(s) /\ Flow(s) /\ Knows(s)

SessionInv == Types /\ \A s \in Callers : CallerInv(s)

(* Nothing of a caller changes. *)
Same(s) ==
  /\ pc'[s] = pc[s] /\ cmd'[s] = cmd[s] /\ attempt'[s] = attempt[s] /\ serial'[s] = serial[s]
  /\ sentAt'[s] = sentAt[s] /\ nonce'[s] = nonce[s] /\ up'[s] = up[s] /\ down'[s] = down[s]
  /\ told'[s] = told[s] /\ done'[s] = done[s] /\ torn'[s] = torn[s]

LEMMA Unmoved ==
  ASSUME NEW s \in Callers, CallerInv(s), Same(s), key' = key, skew' = skew,
         skew \in Int, time \in Nat, time' \in Nat, time <= time'
  PROVE  CallerInv(s)'
<1>1. Wire(s)'
  BY DEF CallerInv, Wire, Same
<1>2. Phase(s)'
  BY DEF CallerInv, Phase, Same
<1>3. CallerTypes(s)'
  BY DEF CallerInv, CallerTypes, Same
<1>4. Pending(s) => Pending(s)'
  BY DEF Pending, Same
<1>5. Answered(s) => Answered(s)'
  <2>1. ASSUME Answered(s) PROVE Answered(s)'
    <3>1. PICK t \in Int :
            /\ sentAt[s] + skew <= t /\ t <= time + skew
            /\ IsReply(key, s, serial[s], attempt[s], Words(cmd[s]), done[s], down[s], attempt[s], t)
      BY <2>1 DEF Answered
    <3>2. t <= time' + skew
      BY <3>1
    <3>3. QED
      BY <2>1, <3>1, <3>2 DEF Answered, Same
  <2>2. QED
    BY <2>1
<1>6. Flow(s)'
  BY <1>4, <1>5 DEF CallerInv, Flow, Same
<1>7. sentAt[s] \in Nat /\ Window \in Nat
  BY CodecAssumption DEF CallerInv, CallerTypes
<1>8. time + skew > sentAt[s] + Window => time' + skew > sentAt[s] + Window
  BY <1>7
<1>9. Knows(s)'
  BY <1>8 DEF CallerInv, Knows, Same
<1>10. QED
  BY <1>1, <1>2, <1>3, <1>6, <1>9 DEF CallerInv

(* A step of one caller leaves the others alone. *)
Alone(s) ==
  /\ \A r \in Callers : r # s => Same(r)
  /\ key' = key /\ skew' = skew /\ time' = time
  /\ Types'

LEMMA StepKeeps ==
  ASSUME SessionInv, NEW s \in Callers, Alone(s), CallerInv(s)'
  PROVE  SessionInv'
<1>1. ASSUME NEW r \in Callers, r # s PROVE CallerInv(r)'
  <2>1. CallerInv(r) /\ Same(r) /\ key' = key /\ skew' = skew /\ skew \in Int /\ time \in Nat
        /\ time' = time
    BY <1>1 DEF SessionInv, Alone, Types
  <2>2. time' \in Nat /\ time <= time'
    BY <2>1
  <2>3. QED
    BY <2>1, <2>2, Unmoved
<1>2. QED
  BY <1>1 DEF SessionInv, Alone

LEMMA TickKeeps ==
  ASSUME SessionInv, Tick PROVE SessionInv'
<1>1. /\ time' = time + 1 /\ key' = key /\ skew' = skew
      /\ pc' = pc /\ cmd' = cmd /\ attempt' = attempt /\ serial' = serial
      /\ sentAt' = sentAt /\ nonce' = nonce /\ up' = up /\ down' = down
      /\ told' = told /\ done' = done /\ torn' = torn
  BY DEF Tick, worldVars, sessionVars, wireVars
<1>2. time \in Nat /\ skew \in Int
  BY DEF SessionInv, Types
<1>3. time' \in Nat /\ time <= time'
  BY <1>1, <1>2
<1>4. Types'
  BY <1>1, <1>3 DEF SessionInv, Types
<1>5. ASSUME NEW s \in Callers PROVE CallerInv(s)'
  <2>1. CallerInv(s) /\ Same(s)
    BY <1>1 DEF SessionInv, Same
  <2>2. QED
    BY <1>1, <1>2, <1>3, <2>1, Unmoved
<1>6. QED
  BY <1>4, <1>5 DEF SessionInv

LEMMA StutterKeeps ==
  ASSUME SessionInv, UNCHANGED vars PROVE SessionInv'
<1>1. /\ time' = time /\ key' = key /\ skew' = skew
      /\ pc' = pc /\ cmd' = cmd /\ attempt' = attempt /\ serial' = serial
      /\ sentAt' = sentAt /\ nonce' = nonce /\ up' = up /\ down' = down
      /\ told' = told /\ done' = done /\ torn' = torn
  BY DEF vars, worldVars, sessionVars, wireVars
<1>2. time \in Nat /\ skew \in Int
  BY DEF SessionInv, Types
<1>3. time' \in Nat /\ time <= time'
  BY <1>1, <1>2
<1>4. Types'
  BY <1>1, <1>3 DEF SessionInv, Types
<1>5. ASSUME NEW s \in Callers PROVE CallerInv(s)'
  <2>1. CallerInv(s) /\ Same(s)
    BY <1>1 DEF SessionInv, Same
  <2>2. QED
    BY <1>1, <1>2, <1>3, <2>1, Unmoved
<1>6. QED
  BY <1>4, <1>5 DEF SessionInv

LEMMA InitKeeps ==
  ASSUME Init PROVE SessionInv
<1>1. skew \in Int
  BY SessionAssumption DEF Init
<1>2. Types
  BY <1>1 DEF Init, Types
<1>3. ASSUME NEW s \in Callers PROVE CallerInv(s)
  <2>1. /\ pc[s] = "idle" /\ cmd[s] = NoCommand /\ attempt[s] = 0 /\ serial[s] = 0
        /\ sentAt[s] = 0 /\ nonce[s] = NoNonce /\ up[s] = <<>> /\ down[s] = <<>>
        /\ told[s] = Nothing /\ done[s] = <<>> /\ torn[s] = FALSE /\ time = 0
    BY DEF Init
  <2>2. 0 \in Serials /\ 0 \in 0..MaxAttempts
    BY CodecAssumption, SessionAssumption DEF Serials
  <2>3. CallerTypes(s)
    BY <2>1, <2>2, SeqEmpty DEF CallerTypes, Phases
  <2>4. Phase(s)
    BY <2>1 DEF Phase
  <2>5. Wire(s)
    BY <2>1, StreamEmpty, RequestsEmpty DEF Wire
  <2>6. Flow(s)
    BY <2>1 DEF Flow
  <2>7. Knows(s)
    BY <2>1 DEF Knows, Nothing
  <2>8. QED
    BY <2>3, <2>4, <2>5, <2>6, <2>7 DEF CallerInv
<1>4. QED
  BY <1>2, <1>3 DEF SessionInv

-----------------------------------------------------------------------------
(* What is read in some state. *)

(* Only replies are accepted: of what follows from Accepts the caller uses *)
(* the nonce and the data.                                                 *)
LEMMA AcceptedReply ==
  ASSUME NEW s \in Callers, CallerInv(s), Arrived(down[s]), Accepts(s, ReadMessage(down[s]))
  PROVE  \E t, x : /\ ReadsReply(key, s, down[s], serial[s], t, x)
                   /\ ReplyData(x, attempt[s], Words(cmd[s]), done[s], attempt[s])
<1>1. PICK d : d = down[s]
  OBVIOUS
<1>2. PICK k : k = key
  OBVIOUS
<1>3. PICK ser \in Serials : ser = serial[s]
  BY DEF CallerInv, CallerTypes
<1>4. PICK at \in 0..MaxAttempts : at = attempt[s]
  BY DEF CallerInv, CallerTypes
<1>5. PICK w : w = Words(cmd[s])
  OBVIOUS
<1>6. PICK dn : dn = done[s]
  OBVIOUS
<1>7. Streams(k, s, ser, at, w, dn, d)
  BY <1>1, <1>2, <1>3, <1>4, <1>5, <1>6 DEF CallerInv, Wire
<1>8. Arrived(d) /\ ReadMessage(d).is = "message"
  BY <1>1 DEF Accepts
<1>9. PICK f, a, t : IsReply(k, s, ser, at, w, dn, f, a, t) /\ Holds(d, 1, f)
  BY <1>7, <1>8, ReadIsReply
<1>10. PICK x : ReplyData(x, at, w, dn, a) /\ ReadsReply(k, s, d, SerialAt(ser, at, a), t, x)
  BY <1>9, ReplyRead
<1>11. PICK n : n = SerialAt(ser, at, a)
  OBVIOUS
<1>12. ReadsReply(k, s, d, n, t, x)
  BY <1>10, <1>11
<1>13. Verified(k, ReadMessage(d).v, ReadMessage(d).input, ser, sentAt[s], nonce[s],
                ExpectedType(s))
  BY <1>1, <1>2, <1>3 DEF Accepts
<1>14. n = ser
  <2>1. PICK now, non, words : now = sentAt[s] /\ non = nonce[s] /\ words = ExpectedType(s)
    OBVIOUS
  <2>2. VerifiedAt(k, d, ser, now, non, words)
    BY <1>13, <2>1 DEF VerifiedAt
  <2>3. IsFor(k, s, d, n, t, x, ser, now, non, words)
    BY <1>12, <2>2, VerifiedReply
  <2>4. QED
    BY <2>3 DEF IsFor
<1>15. a \in 0..at
  BY <1>9 DEF IsReply
<1>16. a = at
  <2>1. a # at => SerialAt(ser, at, a) # ser
    BY <1>15, SerialFacts
  <2>2. QED
    BY <1>11, <1>14, <2>1
<1>17. ReadsReply(k, s, d, ser, t, x)
  BY <1>12, <1>14
<1>18. ReplyData(x, at, w, dn, at)
  BY <1>10, <1>16
<1>19. QED
  BY <1>1, <1>2, <1>3, <1>4, <1>5, <1>6, <1>17, <1>18

LEMMA AcceptedNonce ==
  ASSUME NEW s \in Callers, CallerInv(s), Arrived(down[s]), Accepts(s, ReadMessage(down[s]))
  PROVE  MapString(GetMap(ReadMessage(down[s]).v, "_ctrl"), "_nonce")[1] = s
<1>1. PICK t, x : ReadsReply(key, s, down[s], serial[s], t, x)
  BY AcceptedReply
<1>2. PICK c : c = PeerCtrl(serial[s], t, s)
  OBVIOUS
<1>3. GetMap(ReadMessage(down[s]).v, "_ctrl") = c
  BY <1>1, <1>2 DEF ReadsReply
<1>4. MapString(c, "_nonce") = <<s>>
  BY <1>2, PeerCtrlStrings
<1>5. <<s>>[1] = s
  OBVIOUS
<1>6. QED
  BY <1>3, <1>4, <1>5

LEMMA AcceptedTold ==
  ASSUME NEW s \in Callers, CallerInv(s), Arrived(down[s]), attempt[s] # 0,
         Accepts(s, ReadMessage(down[s])),
         NEW o, o = Outcome(s, GetMap(ReadMessage(down[s]).v, "_data"))
  PROVE  /\ o.is \in {"ok", "error", "text"}
         /\ \E n : IsDone(o, done[s], attempt[s], cmd[s], n)
<1>1. PICK t, x : /\ ReadsReply(key, s, down[s], serial[s], t, x)
                  /\ ReplyData(x, attempt[s], Words(cmd[s]), done[s], attempt[s])
  BY AcceptedReply
<1>2. o = Outcome(s, x)
  BY <1>1 DEF ReadsReply
<1>3. PICK dn, at, c : dn = done[s] /\ at = attempt[s] /\ c = cmd[s] /\ at # 0
  OBVIOUS
<1>4. ReplyData(x, at, Words(c), dn, at)
  BY <1>1, <1>3
<1>5. PICK n, words :
        /\ n \in DOMAIN dn /\ AnswerData(x, words, dn[n].ok, dn[n].what, n)
        /\ dn[n].of = at /\ dn[n].what = Understand(words) /\ (at = at => words = Words(c))
  BY <1>3, <1>4 DEF ReplyData
<1>6. dn[n].what = Understand(Words(c))
  BY <1>5
<1>7. dn[n].ok = TRUE \/ dn[n].ok = FALSE
  BY <1>5 DEF AnswerData
<1>8. CASE dn[n].ok = TRUE
  <2>1. PICK what : what = dn[n].what
    OBVIOUS
  <2>2. AnswerData(x, words, TRUE, what, n)
    BY <1>5, <1>8, <2>1
  <2>3. /\ ExecutionIn(Outcome(s, x).text) = n /\ Succeeds(Outcome(s, x)) = TRUE
        /\ Outcome(s, x).is \in {"ok", "error", "text"}
        /\ Outcome(s, x).text = PeerText(what, n)
    BY <2>2, TextTold
  <2>4. IsDone(o, dn, at, c, n)
    BY <1>2, <1>5, <1>6, <1>8, <2>1, <2>3 DEF IsDone
  <2>5. QED
    BY <1>2, <1>3, <2>3, <2>4
<1>9. CASE dn[n].ok = FALSE
  <2>1. PICK what : what = dn[n].what
    OBVIOUS
  <2>2. AnswerData(x, words, FALSE, what, n)
    BY <1>5, <1>9, <2>1
  <2>3. /\ ExecutionIn(Outcome(s, x).text) = n /\ Succeeds(Outcome(s, x)) = FALSE
        /\ Outcome(s, x).is \in {"ok", "error", "text"}
    BY <2>2, ErrorTold
  <2>4. IsDone(o, dn, at, c, n)
    BY <1>2, <1>5, <1>6, <1>9, <2>3 DEF IsDone
  <2>5. QED
    BY <1>2, <1>3, <2>3, <2>4
<1>10. QED
  BY <1>7, <1>8, <1>9

(* Of a connection on which nothing was dropped the reply is all there is, *)
(* and it is accepted unless it is too old or too young.                   *)
LEMMA HonestRead ==
  ASSUME NEW s \in Callers, Types, CallerInv(s), pc[s] \in {"auth", "await"}, Arrived(down[s]),
         torn[s] # TRUE
  PROVE  /\ up[s] = <<>> /\ SubSeq(down[s], FrameEnd(down[s]) + 1, Len(down[s])) = <<>>
         /\ skew >= 0 /\ ~(time + skew > sentAt[s] + Window) =>
              /\ Accepts(s, ReadMessage(down[s]))
              /\ pc[s] = "auth" =>
                   MapString(GetMap(ReadMessage(down[s]).v, "_data"), "result") = <<"0">>
<1>1. Answered(s)
  BY DEF CallerInv, Flow, Pending, Arrived
<1>2. PICK d : d = down[s]
  OBVIOUS
<1>3. PICK k : k = key
  OBVIOUS
<1>4. PICK ser \in Serials : ser = serial[s]
  BY DEF CallerInv, CallerTypes
<1>5. PICK at \in 0..MaxAttempts : at = attempt[s]
  BY DEF CallerInv, CallerTypes
<1>6. PICK w : w = Words(cmd[s])
  OBVIOUS
<1>7. PICK dn : dn = done[s]
  OBVIOUS
<1>8. PICK t \in Int :
        /\ sentAt[s] + skew <= t /\ t <= time + skew
        /\ IsReply(k, s, ser, at, w, dn, d, at, t)
  BY <1>1, <1>2, <1>3, <1>4, <1>5, <1>6, <1>7 DEF Answered
<1>9. IsSeq(d)
  BY <1>8, ReplyCells
<1>10. Holds(d, 1, d)
  BY <1>9, HoldsItself
<1>11. FrameEnd(d) = Len(d)
  BY <1>8, <1>10, ReplyRead
<1>12. PICK x : ReplyData(x, at, w, dn, at) /\ ReadsReply(k, s, d, SerialAt(ser, at, at), t, x)
  BY <1>8, <1>10, ReplyRead
<1>13. at \in 0..at
  BY SessionAssumption
<1>14. SerialAt(ser, at, at) = ser
  BY <1>13, SerialFacts
<1>15. ReadsReply(k, s, d, ser, t, x)
  BY <1>12, <1>14
<1>16. SubSeq(d, Len(d) + 1, Len(d)) = <<>>
  <2>1. PICK l \in Nat : l = Len(d)
    BY <1>9, SeqFacts
  <2>2. l + 1 \in 1..Len(d) + 1 /\ l \in 0..Len(d) /\ l + 1 <= l + 1
    BY <2>1
  <2>3. PICK e : e = SubSeq(d, l + 1, l)
    OBVIOUS
  <2>4. IsSeq(e) /\ Len(e) = l + 1 - (l + 1)
    BY <1>9, <2>2, <2>3, SeqSub
  <2>5. Len(e) = 0
    BY <2>1, <2>4
  <2>6. QED
    BY <2>1, <2>3, <2>4, <2>5, SeqEmpty
<1>17. up[s] = <<>> /\ key.secret = Secret
  BY <1>1 DEF Answered
<1>18. ASSUME skew >= 0, ~(time + skew > sentAt[s] + Window)
       PROVE  /\ Accepts(s, ReadMessage(d))
              /\ pc[s] = "auth" => MapString(x, "result") = <<"0">>
  <2>1. t \in sentAt[s]..sentAt[s] + Window
    <3>1. time \in Nat /\ sentAt[s] \in Nat /\ skew \in Int /\ Window \in Nat
      BY CodecAssumption DEF Types, CallerInv, CallerTypes
    <3>2. QED
      BY <1>8, <1>18, <3>1
  <2>2. nonce[s] = NoNonce \/ s = nonce[s]
    BY DEF CallerInv, Phase
  <2>3. MapString(x, "type") \in {<<>>, <<ExpectedType(s)>>}
        /\ (pc[s] = "auth" => MapString(x, "result") = <<"0">>)
    <3>1. CASE pc[s] = "auth"
      <4>1. at = 0
        BY <1>5, <3>1 DEF CallerInv, Phase
      <4>2. MapString(x, "type") = <<<<"null">>>> /\ MapString(x, "result") = <<"0">>
        BY <1>12, <4>1 DEF ReplyData
      <4>3. QED
        BY <3>1, <4>2 DEF ExpectedType
    <3>2. CASE pc[s] = "await"
      <4>1. at # 0
        BY <1>5, <3>2 DEF CallerInv, Phase
      <4>2. PICK n, words :
              /\ n \in DOMAIN dn /\ AnswerData(x, words, dn[n].ok, dn[n].what, n)
              /\ (at = at => words = w)
        BY <1>12, <4>1 DEF ReplyData
      <4>3. MapString(x, "type") = <<w>>
        BY <4>2 DEF AnswerData
      <4>4. ExpectedType(s) = w
        BY <1>6, <3>2 DEF ExpectedType
      <4>5. QED
        BY <3>2, <4>3, <4>4
    <3>3. QED
      BY <3>1, <3>2
  <2>4. PICK b : b = ReadMessage(d).input
    OBVIOUS
  <2>5. Hsha(PeerKey(k), b) = Hsha(k, b)
    BY <1>3, <1>17 DEF Hsha, PeerKey
  <2>6. Verified(k, ReadMessage(d).v, ReadMessage(d).input, ser, sentAt[s], nonce[s],
                 ExpectedType(s))
    <3>1. PICK now, non, words : now = sentAt[s] /\ non = nonce[s] /\ words = ExpectedType(s)
      OBVIOUS
    <3>2. t \in now..now + Window /\ MapString(x, "type") \in {<<>>, <<words>>}
      BY <2>1, <2>3, <3>1
    <3>3. non = NoNonce \/ s = non
      BY <2>2, <3>1
    <3>4. IsFor(k, s, d, ser, t, x, ser, now, non, words)
      BY <2>4, <2>5, <3>2, <3>3 DEF IsFor
    <3>5. VerifiedAt(k, d, ser, now, non, words)
      BY <1>15, <3>4, VerifiedReply
    <3>6. QED
      BY <3>1, <3>5 DEF VerifiedAt
  <2>7. ReadMessage(d).is = "message"
    BY <1>15 DEF ReadsReply
  <2>8. Accepts(s, ReadMessage(d))
    BY <1>3, <1>4, <2>6, <2>7 DEF Accepts
  <2>9. QED
    BY <2>3, <2>8
<1>19. GetMap(ReadMessage(d).v, "_data") = x
  BY <1>15 DEF ReadsReply
<1>20. QED
  BY <1>2, <1>11, <1>16, <1>17, <1>18, <1>19

-----------------------------------------------------------------------------
(* Every step of a caller keeps the invariant. *)
Only(new, old, s) == DOMAIN new = DOMAIN old /\ \A r \in DOMAIN old : r # s => new[r] = old[r]

LEMMA OnlyHere ==
  ASSUME NEW f, NEW s, NEW e
  PROVE  /\ Only(f, f, s) /\ Only([f EXCEPT ![s] = e], f, s)
         /\ s \in DOMAIN f => [f EXCEPT ![s] = e][s] = e
  BY DEF Only

LEMMA AloneHere ==
  ASSUME Types, NEW s \in Callers, key' = key, skew' = skew, time' = time,
         Only(pc', pc, s), Only(cmd', cmd, s), Only(attempt', attempt, s),
         Only(serial', serial, s), Only(sentAt', sentAt, s), Only(nonce', nonce, s),
         Only(up', up, s), Only(down', down, s), Only(told', told, s),
         Only(done', done, s), Only(torn', torn, s)
  PROVE  Alone(s)
<1>1. Types'
  BY DEF Types, Only
<1>2. ASSUME NEW r \in Callers, r # s PROVE Same(r)
  BY <1>2 DEF Types, Only, Same
<1>3. QED
  BY <1>1, <1>2 DEF Alone

(* What stays of a caller that only moves, with its connection. *)
Stays(s) ==
  /\ cmd'[s] = cmd[s] /\ attempt'[s] = attempt[s] /\ serial'[s] = serial[s]
  /\ sentAt'[s] = sentAt[s] /\ nonce'[s] = nonce[s] /\ up'[s] = up[s] /\ done'[s] = done[s]

(* After a command: p is where the caller is, o what it was told, d what   *)
(* is left of the stream, b whether anything was dropped.                  *)
MayTell(s, o) ==
  /\ o.is \in {"ok", "error", "text"} =>
       \E n : IsDone(o, done[s], attempt[s], cmd[s], n)
  /\ o.is = "refused" => torn[s] = TRUE \/ skew < 0 \/ time + skew > sentAt[s] + Window

MayStay(s, p, d, b) ==
  \/ p = "done"
  \/ /\ p \in {"ready", "close"} /\ pc[s] \in {"await", "ready"} /\ (p = "ready" => s \in Directs)
     /\ b = TRUE \/ (up[s] = <<>> /\ d = <<>>)

LEMMA AfterKeeps ==
  ASSUME SessionInv, NEW s \in Callers, Alone(s), Stays(s), NEW p, NEW o, NEW d, NEW b,
         pc[s] # "idle", pc'[s] = p, told'[s] = o, down'[s] = d, torn'[s] = b,
         torn[s] = TRUE => b = TRUE, MayTell(s, o), MayStay(s, p, d, b),
         Streams(key, s, serial[s], attempt[s], Words(cmd[s]), done[s], d)
  PROVE  SessionInv'
<1>1. CallerInv(s) /\ key' = key /\ skew' = skew /\ time' = time
  BY DEF SessionInv, Alone
<1>2. p \in {"ready", "close", "done"}
  BY DEF MayStay
<1>3. CallerTypes(s)'
  BY <1>1, <1>2 DEF CallerInv, CallerTypes, Stays, Phases
<1>4. Phase(s)'
  <2>1. cmd[s] \in CommandsOf(s)
    BY <1>1 DEF CallerInv, Phase
  <2>2. p \in {"ready", "close"} => nonce[s] = s
    BY <1>1 DEF CallerInv, Phase, MayStay
  <2>3. QED
    BY <1>2, <2>1, <2>2 DEF Phase, Stays, MayStay
<1>5. Wire(s)'
  BY <1>1 DEF CallerInv, Wire, Stays
<1>6. Flow(s)'
  BY <1>2 DEF Flow, Stays, MayStay
<1>7. Knows(s)'
  BY <1>1, <1>2 DEF Knows, Stays, MayTell
<1>8. CallerInv(s)'
  BY <1>3, <1>4, <1>5, <1>6, <1>7 DEF CallerInv
<1>9. QED
  BY <1>8, StepKeeps

(* The end of a call, the stream being as it is. *)
LEMMA EndKeeps ==
  ASSUME SessionInv, NEW s \in Callers, NEW o, pc[s] # "idle", End(s, o), MayTell(s, o),
         UNCHANGED <<worldVars, time, cmd, attempt, sessionVars, wireVars, done, torn>>
  PROVE  SessionInv'
<1>1. Types /\ CallerInv(s)
  BY DEF SessionInv
<1>2. pc' = [pc EXCEPT ![s] = "done"] /\ told' = [told EXCEPT ![s] = o]
  BY DEF End
<1>3. /\ key' = key /\ skew' = skew /\ time' = time /\ cmd' = cmd /\ attempt' = attempt
      /\ serial' = serial /\ sentAt' = sentAt /\ nonce' = nonce /\ up' = up /\ down' = down
      /\ done' = done /\ torn' = torn
  BY DEF worldVars, sessionVars, wireVars
<1>4. Alone(s)
  BY <1>1, <1>2, <1>3, OnlyHere, AloneHere
<1>5. pc'[s] = "done" /\ told'[s] = o
  BY <1>1, <1>2, OnlyHere DEF Types
<1>6. Stays(s) /\ down'[s] = down[s] /\ torn'[s] = torn[s]
  BY <1>3 DEF Stays
<1>7. MayStay(s, "done", down[s], torn[s])
  BY DEF MayStay
<1>8. Streams(key, s, serial[s], attempt[s], Words(cmd[s]), done[s], down[s])
  BY <1>1 DEF CallerInv, Wire
<1>9. QED
  BY <1>4, <1>5, <1>6, <1>7, <1>8, AfterKeeps

LEMMA FailedTells ==
  ASSUME NEW s, NEW why, why \notin {"ok", "error", "text", "refused"}
  PROVE  MayTell(s, Failed(why))
  BY DEF MayTell, Failed

LEMMA ToldTells ==
  ASSUME NEW s \in Callers, CallerInv(s) PROVE MayTell(s, told[s])
  BY DEF CallerInv, Knows, MayTell

LEMMA ConnectFailsKeeps ==
  ASSUME SessionInv, NEW s \in Callers, ConnectFails(s) PROVE SessionInv'
<1>1. \E o : End(s, o) /\ MayTell(s, o)
  BY FailedTells DEF ConnectFails
<1>2. PICK o : End(s, o) /\ MayTell(s, o)
  BY <1>1
<1>3. pc[s] # "idle"
  BY DEF ConnectFails
<1>4. UNCHANGED <<worldVars, time, cmd, attempt, sessionVars, wireVars, done, torn>>
  BY DEF ConnectFails
<1>5. QED
  BY <1>2, <1>3, <1>4, EndKeeps

LEMMA CloseKeeps ==
  ASSUME SessionInv, NEW s \in Callers, Close(s) PROVE SessionInv'
<1>1. MayTell(s, told[s]) /\ MayTell(s, Failed("connection"))
  BY FailedTells, ToldTells DEF SessionInv
<1>2. PICK o : End(s, o) /\ MayTell(s, o)
  BY <1>1 DEF Close
<1>3. pc[s] # "idle"
  BY DEF Close
<1>4. UNCHANGED <<worldVars, time, cmd, attempt, sessionVars, wireVars, done, torn>>
  BY DEF Close
<1>5. QED
  BY <1>2, <1>3, <1>4, EndKeeps

LEMMA TimeoutKeeps ==
  ASSUME SessionInv, NEW s \in Callers, Timeout(s) PROVE SessionInv'
<1>1. MayTell(s, Failed("timeout")) /\ End(s, Failed("timeout"))
  BY FailedTells DEF Timeout
<1>2. PICK o : End(s, o) /\ MayTell(s, o)
  BY <1>1
<1>3. pc[s] # "idle"
  BY DEF Timeout
<1>4. UNCHANGED <<worldVars, time, cmd, attempt, sessionVars, wireVars, done, torn>>
  BY DEF Timeout
<1>5. QED
  BY <1>2, <1>3, <1>4, EndKeeps

LEMMA BrokenKeeps ==
  ASSUME SessionInv, NEW s \in Callers, Broken(s) PROVE SessionInv'
<1>1. MayTell(s, Failed("connection")) /\ End(s, Failed("connection"))
  BY FailedTells DEF Broken
<1>2. PICK o : End(s, o) /\ MayTell(s, o)
  BY <1>1
<1>3. pc[s] # "idle"
  BY DEF Broken
<1>4. UNCHANGED <<worldVars, time, cmd, attempt, sessionVars, wireVars, done, torn>>
  BY DEF Broken
<1>5. QED
  BY <1>2, <1>3, <1>4, EndKeeps

LEMMA DropCallKeeps ==
  ASSUME SessionInv, NEW s \in Callers, DropCall(s) PROVE SessionInv'
<1>1. MayTell(s, Failed("dropped"))
  BY FailedTells
<1>2. PICK o : o = Failed("dropped")
  OBVIOUS
<1>3. pc[s] # "idle" /\ MayTell(s, o)
  BY <1>1, <1>2 DEF DropCall
<1>4. UNCHANGED <<worldVars, time, cmd, attempt, sessionVars, wireVars, done, torn>>
  BY DEF DropCall
<1>5. CASE pc[s] # "acquire"
  <2>1. End(s, o)
    BY <1>2, <1>5 DEF DropCall
  <2>2. QED
    BY <1>3, <1>4, <2>1, EndKeeps
<1>6. CASE pc[s] = "acquire"
  <2>1. pc' = [pc EXCEPT ![s] = "done"] /\ told' = [told EXCEPT ![s] = o]
    BY <1>2, <1>6 DEF DropCall
  <2>2. Types /\ CallerInv(s)
    BY DEF SessionInv
  <2>3. /\ key' = key /\ skew' = skew /\ time' = time /\ cmd' = cmd /\ attempt' = attempt
        /\ serial' = serial /\ sentAt' = sentAt /\ nonce' = nonce /\ up' = up /\ down' = down
        /\ done' = done /\ torn' = torn
    BY <1>4 DEF worldVars, sessionVars, wireVars
  <2>4. Alone(s)
    BY <2>1, <2>2, <2>3, OnlyHere, AloneHere
  <2>5. pc'[s] = "done" /\ told'[s] = o
    BY <2>1, <2>2, OnlyHere DEF Types
  <2>6. Stays(s) /\ down'[s] = down[s] /\ torn'[s] = torn[s]
    BY <2>3 DEF Stays
  <2>7. MayStay(s, "done", down[s], torn[s])
    BY DEF MayStay
  <2>8. Streams(key, s, serial[s], attempt[s], Words(cmd[s]), done[s], down[s])
    BY <2>2 DEF CallerInv, Wire
  <2>9. QED
    BY <1>3, <2>4, <2>5, <2>6, <2>7, <2>8, AfterKeeps
<1>7. QED
  BY <1>5, <1>6

LEMMA RestOfStream ==
  ASSUME NEW s \in Callers, CallerInv(s), Arrived(down[s])
  PROVE  Streams(key, s, serial[s], attempt[s], Words(cmd[s]), done[s],
                 SubSeq(down[s], FrameEnd(down[s]) + 1, Len(down[s])))
<1>1. PICK d : d = down[s]
  OBVIOUS
<1>2. PICK k, ser, at, w, dn :
        k = key /\ ser = serial[s] /\ at = attempt[s] /\ w = Words(cmd[s]) /\ dn = done[s]
  OBVIOUS
<1>3. Streams(k, s, ser, at, w, dn, d)
  BY <1>1, <1>2 DEF CallerInv, Wire
<1>4. PICK n : n = FrameEnd(d)
  OBVIOUS
<1>5. n \in 0..Len(d)
  BY <1>1, <1>3, <1>4, FrameWithin DEF Streams
<1>6. Streams(k, s, ser, at, w, dn, SubSeq(d, n + 1, Len(d)))
  BY <1>3, <1>5, StreamRest
<1>7. QED
  BY <1>1, <1>2, <1>4, <1>6

(* A refusal has its reason. *)
LEMMA RefusedTells ==
  ASSUME SessionInv, NEW s \in Callers, pc[s] \in {"auth", "await"}, Arrived(down[s]),
         \/ ~Accepts(s, ReadMessage(down[s]))
         \/ /\ pc[s] = "auth"
            /\ MapString(GetMap(ReadMessage(down[s]).v, "_data"), "result") # <<"0">>
  PROVE  MayTell(s, Failed("refused"))
<1>1. Types /\ CallerInv(s)
  BY DEF SessionInv
<1>2. CASE torn[s] = TRUE
  BY <1>2 DEF MayTell, Failed
<1>3. CASE torn[s] # TRUE
  <2>1. ~(skew >= 0 /\ ~(time + skew > sentAt[s] + Window))
    BY <1>1, <1>3, HonestRead
  <2>2. skew \in Int
    BY <1>1 DEF Types
  <2>3. skew < 0 \/ time + skew > sentAt[s] + Window
    BY <2>1, <2>2
  <2>4. QED
    BY <2>3 DEF MayTell, Failed
<1>4. QED
  BY <1>2, <1>3

LEMMA ReadReplyKeeps ==
  ASSUME SessionInv, NEW s \in Callers, ReadReply(s) PROVE SessionInv'
<1>1. Types /\ CallerInv(s) /\ pc[s] = "await" /\ Arrived(down[s]) /\ attempt[s] # 0
  BY DEF SessionInv, CallerInv, Phase, ReadReply
<1>2. PICK r : r = ReadMessage(down[s])
  OBVIOUS
<1>3. PICK d : d = SubSeq(down[s], FrameEnd(down[s]) + 1, Len(down[s]))
  OBVIOUS
<1>4. down' = [down EXCEPT ![s] = d]
  BY <1>3 DEF ReadReply
<1>5. /\ key' = key /\ skew' = skew /\ time' = time /\ cmd' = cmd /\ attempt' = attempt
      /\ serial' = serial /\ sentAt' = sentAt /\ nonce' = nonce /\ up' = up
      /\ done' = done /\ torn' = torn
  BY DEF ReadReply, worldVars, sessionVars
<1>6. \E p, o : /\ pc' = [pc EXCEPT ![s] = p] /\ told' = [told EXCEPT ![s] = o]
                /\ p \in {"ready", "close", "done"} /\ (p = "ready" => s \in Directs)
                /\ MayTell(s, o)
  <2>1. CASE Accepts(s, r)
    <3>1. PICK p : p = IF s \in Directs THEN "ready" ELSE "close"
      OBVIOUS
    <3>2. PICK o : o = Outcome(s, GetMap(r.v, "_data"))
      OBVIOUS
    <3>3. pc' = [pc EXCEPT ![s] = p] /\ told' = [told EXCEPT ![s] = o]
      BY <1>2, <2>1, <3>1, <3>2 DEF ReadReply
    <3>4. o.is \in {"ok", "error", "text"} /\ \E n : IsDone(o, done[s], attempt[s], cmd[s], n)
      BY <1>1, <1>2, <2>1, <3>2, AcceptedTold
    <3>5. MayTell(s, o)
      BY <3>4 DEF MayTell
    <3>6. QED
      BY <3>1, <3>3, <3>5
  <2>2. CASE ~Accepts(s, r)
    <3>1. PICK o : o = Failed("refused")
      OBVIOUS
    <3>2. Settle(s, o)
      BY <1>2, <2>2, <3>1 DEF ReadReply
    <3>3. MayTell(s, o)
      BY <1>1, <1>2, <2>2, <3>1, RefusedTells
    <3>4. CASE s \in Directs
      BY <3>2, <3>3, <3>4 DEF Settle
    <3>5. CASE s \notin Directs
      BY <3>2, <3>3, <3>5 DEF Settle, End
    <3>6. QED
      BY <3>4, <3>5
  <2>3. QED
    BY <2>1, <2>2
<1>7. PICK p, o : /\ pc' = [pc EXCEPT ![s] = p] /\ told' = [told EXCEPT ![s] = o]
                  /\ p \in {"ready", "close", "done"} /\ (p = "ready" => s \in Directs)
                  /\ MayTell(s, o)
  BY <1>6
<1>8. Alone(s)
  BY <1>1, <1>4, <1>5, <1>7, OnlyHere, AloneHere
<1>9. pc'[s] = p /\ told'[s] = o /\ down'[s] = d
  BY <1>1, <1>4, <1>7, OnlyHere DEF Types
<1>10. Stays(s) /\ torn'[s] = torn[s]
  BY <1>5 DEF Stays
<1>11. torn[s] = TRUE \/ (up[s] = <<>> /\ d = <<>>)
  BY <1>1, <1>3, HonestRead
<1>12. MayStay(s, p, d, torn[s])
  BY <1>1, <1>7, <1>11 DEF MayStay
<1>13. Streams(key, s, serial[s], attempt[s], Words(cmd[s]), done[s], d)
  BY <1>1, <1>3, RestOfStream
<1>14. pc[s] # "idle"
  BY <1>1
<1>15. QED
  BY <1>7, <1>8, <1>9, <1>10, <1>12, <1>13, <1>14, AfterKeeps

LEMMA DropKeeps ==
  ASSUME SessionInv, NEW s \in Callers, Drop(s) PROVE SessionInv'
<1>1. Types /\ CallerInv(s) /\ pc[s] = "await" /\ s \in Directs
  BY DEF SessionInv, Drop
<1>2. PICK n \in 0..Len(down[s]) : down' = [down EXCEPT ![s] = SubSeq(@, n + 1, Len(@))]
  BY DEF Drop
<1>3. PICK d : d = SubSeq(down[s], n + 1, Len(down[s]))
  OBVIOUS
<1>4. PICK o : o = Failed("dropped")
  OBVIOUS
<1>5. /\ down' = [down EXCEPT ![s] = d] /\ pc' = [pc EXCEPT ![s] = "ready"]
      /\ told' = [told EXCEPT ![s] = o] /\ torn' = [torn EXCEPT ![s] = TRUE]
  BY <1>2, <1>3, <1>4 DEF Drop
<1>6. /\ key' = key /\ skew' = skew /\ time' = time /\ cmd' = cmd /\ attempt' = attempt
      /\ serial' = serial /\ sentAt' = sentAt /\ nonce' = nonce /\ up' = up /\ done' = done
  BY DEF Drop, worldVars, sessionVars
<1>7. Alone(s)
  BY <1>1, <1>5, <1>6, OnlyHere, AloneHere
<1>8. pc'[s] = "ready" /\ told'[s] = o /\ down'[s] = d /\ torn'[s] = TRUE
  BY <1>1, <1>5, OnlyHere DEF Types
<1>9. Stays(s)
  BY <1>6 DEF Stays
<1>10. MayTell(s, o)
  BY <1>4, FailedTells
<1>11. MayStay(s, "ready", d, TRUE)
  BY <1>1 DEF MayStay
<1>12. Streams(key, s, serial[s], attempt[s], Words(cmd[s]), done[s], d)
  <2>1. Streams(key, s, serial[s], attempt[s], Words(cmd[s]), done[s], down[s])
    BY <1>1 DEF CallerInv, Wire
  <2>2. PICK k, ser, at, w, dn, c : k = key /\ ser = serial[s] /\ at = attempt[s]
                                    /\ w = Words(cmd[s]) /\ dn = done[s] /\ c = down[s]
    OBVIOUS
  <2>3. Streams(k, s, ser, at, w, dn, c) /\ n \in 0..Len(c)
    BY <2>1, <2>2
  <2>4. Streams(k, s, ser, at, w, dn, SubSeq(c, n + 1, Len(c)))
    BY <2>3, StreamRest
  <2>5. QED
    BY <1>3, <2>2, <2>4
<1>13. pc[s] # "idle"
  BY <1>1
<1>14. QED
  BY <1>7, <1>8, <1>9, <1>10, <1>11, <1>12, <1>13, AfterKeeps

LEMMA ReadAuthKeeps ==
  ASSUME SessionInv, NEW s \in Callers, ReadAuth(s) PROVE SessionInv'
<1>1. Types /\ CallerInv(s) /\ pc[s] = "auth" /\ Arrived(down[s])
  BY DEF SessionInv, ReadAuth
<1>2. PICK r : r = ReadMessage(down[s])
  OBVIOUS
<1>3. PICK d : d = SubSeq(down[s], FrameEnd(down[s]) + 1, Len(down[s]))
  OBVIOUS
<1>4. down' = [down EXCEPT ![s] = d]
  BY <1>3 DEF ReadAuth
<1>5. /\ key' = key /\ skew' = skew /\ time' = time /\ cmd' = cmd /\ attempt' = attempt
      /\ serial' = serial /\ sentAt' = sentAt /\ up' = up
      /\ done' = done /\ torn' = torn
  BY DEF ReadAuth, worldVars
<1>6. Streams(key, s, serial[s], attempt[s], Words(cmd[s]), done[s], d)
  BY <1>1, <1>3, RestOfStream
<1>7. CASE Accepts(s, r) /\ MapString(GetMap(r.v, "_data"), "result") = <<"0">>
  <2>1. PICK non : non = MapString(GetMap(r.v, "_ctrl"), "_nonce")[1]
    OBVIOUS
  <2>2. /\ nonce' = [nonce EXCEPT ![s] = non] /\ pc' = [pc EXCEPT ![s] = "ready"]
        /\ told' = told
    BY <1>2, <1>7, <2>1 DEF ReadAuth
  <2>3. non = s
    BY <1>1, <1>2, <1>7, <2>1, AcceptedNonce
  <2>4. Alone(s)
    BY <1>1, <1>4, <1>5, <2>2, OnlyHere, AloneHere
  <2>5. pc'[s] = "ready" /\ nonce'[s] = s /\ down'[s] = d
    BY <1>1, <1>4, <2>2, <2>3, OnlyHere DEF Types
  <2>6. attempt[s] = 0 /\ told[s] = Nothing /\ torn[s] = FALSE /\ cmd[s] \in CommandsOf(s)
    BY <1>1 DEF CallerInv, Phase
  <2>7. up[s] = <<>> /\ d = <<>>
    <3>1. torn[s] # TRUE
      BY <2>6
    <3>2. QED
      BY <1>1, <1>3, <3>1, HonestRead
  <2>8. CallerTypes(s)'
    BY <1>1, <1>5, <2>5 DEF CallerInv, CallerTypes, Phases
  <2>9. Phase(s)'
    BY <1>5, <2>5, <2>6 DEF Phase
  <2>10. Wire(s)'
    BY <1>1, <1>5, <1>6, <2>5 DEF CallerInv, Wire
  <2>11. Flow(s)'
    BY <1>5, <2>5, <2>7 DEF Flow
  <2>12. Knows(s)'
    BY <2>2, <2>6 DEF Knows, Nothing
  <2>13. CallerInv(s)'
    BY <2>8, <2>9, <2>10, <2>11, <2>12 DEF CallerInv
  <2>14. QED
    BY <2>4, <2>13, StepKeeps
<1>8. CASE ~(Accepts(s, r) /\ MapString(GetMap(r.v, "_data"), "result") = <<"0">>)
  <2>1. PICK o : o = Failed("refused")
    OBVIOUS
  <2>2. End(s, o) /\ nonce' = nonce
    BY <1>2, <1>8, <2>1 DEF ReadAuth
  <2>3. pc' = [pc EXCEPT ![s] = "done"] /\ told' = [told EXCEPT ![s] = o]
    BY <2>2 DEF End
  <2>4. Alone(s)
    BY <1>1, <1>4, <1>5, <2>2, <2>3, OnlyHere, AloneHere
  <2>5. pc'[s] = "done" /\ told'[s] = o /\ down'[s] = d
    BY <1>1, <1>4, <2>3, OnlyHere DEF Types
  <2>6. Stays(s) /\ torn'[s] = torn[s]
    BY <1>5, <2>2 DEF Stays
  <2>7. MayTell(s, o)
    BY <1>1, <1>2, <1>8, <2>1, RefusedTells
  <2>8. MayStay(s, "done", d, torn[s])
    BY DEF MayStay
  <2>9. pc[s] # "idle"
    BY <1>1
  <2>10. QED
    BY <1>6, <2>4, <2>5, <2>6, <2>7, <2>8, <2>9, AfterKeeps
<1>9. QED
  BY <1>7, <1>8

LEMMA CallKeeps ==
  ASSUME SessionInv, NEW s \in Callers, Call(s) PROVE SessionInv'
<1>1. Types /\ CallerInv(s) /\ pc[s] = "idle"
  BY DEF SessionInv, Call
<1>2. PICK c \in CommandsOf(s) : cmd' = [cmd EXCEPT ![s] = c]
  BY DEF Call
<1>3. PICK p \in {"acquire", "connect"} : pc' = [pc EXCEPT ![s] = p]
  BY DEF Call
<1>4. /\ key' = key /\ skew' = skew /\ time' = time /\ attempt' = attempt
      /\ serial' = serial /\ sentAt' = sentAt /\ nonce' = nonce /\ up' = up /\ down' = down
      /\ told' = told /\ done' = done /\ torn' = torn
  BY DEF Call, worldVars, sessionVars, wireVars
<1>5. Alone(s)
  BY <1>1, <1>2, <1>3, <1>4, OnlyHere, AloneHere
<1>6. pc'[s] = p /\ cmd'[s] = c
  BY <1>1, <1>2, <1>3, OnlyHere DEF Types
<1>7. /\ up[s] = <<>> /\ down[s] = <<>> /\ attempt[s] = 0 /\ told[s] = Nothing
      /\ nonce[s] = NoNonce /\ torn[s] = FALSE
  BY <1>1 DEF CallerInv, Phase
<1>8. CallerTypes(s)'
  BY <1>1, <1>4, <1>6 DEF CallerInv, CallerTypes, Phases
<1>9. c \in CommandsOf(s)'
  BY DEF CommandsOf
<1>10. Phase(s)'
  BY <1>4, <1>6, <1>7, <1>9 DEF Phase
<1>11. up'[s] = <<>> /\ down'[s] = <<>>
  BY <1>4, <1>7
<1>12. Wire(s)'
  BY <1>11, StreamEmpty, RequestsEmpty DEF Wire
<1>13. Flow(s)'
  BY <1>6 DEF Flow
<1>14. Knows(s)'
  BY <1>4, <1>7 DEF Knows, Nothing
<1>15. CallerInv(s)'
  BY <1>8, <1>10, <1>12, <1>13, <1>14 DEF CallerInv
<1>16. QED
  BY <1>5, <1>15, StepKeeps

LEMMA AdmitKeeps ==
  ASSUME SessionInv, NEW s \in Callers, Admit(s) PROVE SessionInv'
<1>1. Types /\ CallerInv(s) /\ pc[s] = "acquire"
  BY DEF SessionInv, Admit
<1>2. pc' = [pc EXCEPT ![s] = "connect"]
  BY DEF Admit
<1>3. /\ key' = key /\ skew' = skew /\ time' = time /\ cmd' = cmd /\ attempt' = attempt
      /\ serial' = serial /\ sentAt' = sentAt /\ nonce' = nonce /\ up' = up /\ down' = down
      /\ told' = told /\ done' = done /\ torn' = torn
  BY DEF Admit, worldVars, sessionVars, wireVars
<1>4. Alone(s)
  BY <1>1, <1>2, <1>3, OnlyHere, AloneHere
<1>5. pc'[s] = "connect"
  BY <1>1, <1>2, OnlyHere DEF Types
<1>6. /\ up[s] = <<>> /\ down[s] = <<>> /\ attempt[s] = 0 /\ told[s] = Nothing
      /\ nonce[s] = NoNonce /\ torn[s] = FALSE /\ cmd[s] \in CommandsOf(s)
  BY <1>1 DEF CallerInv, Phase
<1>7. CallerTypes(s)'
  BY <1>1, <1>3, <1>5 DEF CallerInv, CallerTypes, Phases
<1>8. Phase(s)'
  BY <1>3, <1>5, <1>6 DEF Phase
<1>9. Wire(s)'
  BY <1>1, <1>3 DEF CallerInv, Wire
<1>10. Flow(s)'
  BY <1>5 DEF Flow
<1>11. Knows(s)'
  BY <1>3, <1>6 DEF Knows, Nothing
<1>12. CallerInv(s)'
  BY <1>7, <1>8, <1>9, <1>10, <1>11 DEF CallerInv
<1>13. QED
  BY <1>4, <1>12, StepKeeps

LEMMA AppendEmpty ==
  ASSUME NEW r PROVE Append(<<>>, r) = <<r>>
  OBVIOUS

LEMMA HandshakeKeeps ==
  ASSUME SessionInv, NEW s \in Callers, Handshake(s) PROVE SessionInv'
<1>1. Types /\ CallerInv(s) /\ pc[s] = "connect"
  BY DEF SessionInv, Handshake
<1>2. /\ up[s] = <<>> /\ down[s] = <<>> /\ attempt[s] = 0 /\ told[s] = Nothing
      /\ nonce[s] = NoNonce /\ torn[s] = FALSE /\ cmd[s] \in CommandsOf(s)
  BY <1>1 DEF CallerInv, Phase
<1>3. PICK n \in FirstSerials :
        /\ serial' = [serial EXCEPT ![s] = n]
        /\ up' = [up EXCEPT ![s] =
             Append(@, [of |-> 0, cells |-> CommandFrame(key, n, time, NoNonce, <<"null">>)])]
  BY DEF Handshake
<1>4. PICK r : r = [of |-> 0, cells |-> CommandFrame(key, n, time, NoNonce, <<"null">>)]
  OBVIOUS
<1>5. up' = [up EXCEPT ![s] = Append(up[s], r)]
  BY <1>3, <1>4
<1>6. /\ serial' = [serial EXCEPT ![s] = n] /\ sentAt' = [sentAt EXCEPT ![s] = time]
      /\ pc' = [pc EXCEPT ![s] = "auth"]
  BY <1>3 DEF Handshake
<1>7. /\ key' = key /\ skew' = skew /\ time' = time /\ cmd' = cmd /\ attempt' = attempt
      /\ nonce' = nonce /\ down' = down /\ told' = told /\ done' = done /\ torn' = torn
  BY DEF Handshake, worldVars
<1>8. Alone(s)
  BY <1>1, <1>5, <1>6, <1>7, OnlyHere, AloneHere
<1>9. pc'[s] = "auth" /\ serial'[s] = n /\ sentAt'[s] = time /\ up'[s] = Append(up[s], r)
  BY <1>1, <1>5, <1>6, OnlyHere DEF Types
<1>10. up'[s] = <<r>>
  BY <1>2, <1>9, AppendEmpty
<1>11. n \in Serials /\ time \in Nat
  BY <1>1, SessionAssumption DEF Types, Serials
<1>12. CallerTypes(s)'
  BY <1>1, <1>7, <1>9, <1>11 DEF CallerInv, CallerTypes, Phases
<1>13. Phase(s)'
  BY <1>2, <1>7, <1>9 DEF Phase
<1>14. Requests(key, s, n, 0, Words(cmd[s]), <<r>>)
  <2>1. PICK w : w = Words(cmd[s])
    OBVIOUS
  <2>2. r.of = 0 /\ r.cells = CommandFrame(key, n, time, NoNonce, <<"null">>)
    BY <1>4
  <2>3. SerialAt(n, 0, 0) = n
    BY <1>11 DEF SerialAt, Serials
  <2>4. IsRequest(key, s, n, 0, w, r)
    BY <2>2, <2>3 DEF IsRequest
  <2>5. Requests(key, s, n, 0, w, <<>>)
    BY RequestsEmpty
  <2>6. Requests(key, s, n, 0, w, Append(<<>>, r))
    BY <2>4, <2>5, RequestsAppend
  <2>7. QED
    BY <2>1, <2>6, AppendEmpty
<1>15. Wire(s)'
  <2>1. down'[s] = <<>>
    BY <1>2, <1>7
  <2>2. QED
    BY <1>2, <1>7, <1>9, <1>10, <1>14, <2>1, StreamEmpty DEF Wire
<1>16. Flow(s)'
  <2>1. r.of = attempt'[s] /\ down'[s] = <<>>
    BY <1>2, <1>4, <1>7
  <2>2. Pending(s)'
    BY <1>10, <2>1 DEF Pending
  <2>3. QED
    BY <1>9, <2>2 DEF Flow
<1>17. Knows(s)'
  BY <1>2, <1>7 DEF Knows, Nothing
<1>18. CallerInv(s)'
  BY <1>12, <1>13, <1>15, <1>16, <1>17 DEF CallerInv
<1>19. QED
  BY <1>8, <1>18, StepKeeps

LEMMA CommandKeeps ==
  ASSUME SessionInv, NEW s \in Callers, Command(s) PROVE SessionInv'
<1>1. Types /\ CallerInv(s) /\ pc[s] = "ready" /\ attempt[s] < MaxAttempts
  BY DEF SessionInv, Command
<1>2. \E c \in CommandsOf(s) : Only(cmd', cmd, s) /\ cmd'[s] = c
  <2>1. cmd[s] \in CommandsOf(s) /\ (attempt[s] # 0 => s \in Directs)
    BY <1>1 DEF CallerInv, Phase
  <2>2. CASE attempt[s] = 0
    BY <2>1, <2>2, OnlyHere DEF Command
  <2>3. CASE attempt[s] # 0
    <3>1. PICK c \in DirectCommands : cmd' = [cmd EXCEPT ![s] = c]
      BY <2>3 DEF Command
    <3>2. CommandsOf(s) = DirectCommands
      BY <2>1, <2>3, SessionAssumption DEF CommandsOf
    <3>3. QED
      BY <1>1, <3>1, <3>2, OnlyHere DEF Types
  <2>4. QED
    BY <2>2, <2>3
<1>3. PICK c \in CommandsOf(s) : Only(cmd', cmd, s) /\ cmd'[s] = c
  BY <1>2
<1>4. PICK ser \in Serials : ser = serial[s]
  BY <1>1 DEF CallerInv, CallerTypes
<1>5. PICK at \in 0..MaxAttempts : at = attempt[s] /\ at < MaxAttempts
  BY <1>1 DEF CallerInv, CallerTypes
<1>6. PICK next \in Serials : next = WrappingNext(ser)
  BY NextSerial
<1>7. nonce[s] = s
  BY <1>1 DEF CallerInv, Phase
<1>8. PICK r : r = [of |-> at + 1, cells |-> CommandFrame(key, next, time, s, Words(c))]
  OBVIOUS
<1>9. /\ attempt' = [attempt EXCEPT ![s] = at + 1]
      /\ serial' = [serial EXCEPT ![s] = next]
      /\ sentAt' = [sentAt EXCEPT ![s] = time]
      /\ up' = [up EXCEPT ![s] = Append(up[s], r)]
      /\ pc' = [pc EXCEPT ![s] = "await"] /\ told' = [told EXCEPT ![s] = Nothing]
  BY <1>3, <1>4, <1>5, <1>6, <1>7, <1>8 DEF Command
<1>10. /\ key' = key /\ skew' = skew /\ time' = time
       /\ nonce' = nonce /\ down' = down /\ done' = done /\ torn' = torn
  BY DEF Command, worldVars
<1>11. Alone(s)
  BY <1>1, <1>3, <1>9, <1>10, OnlyHere, AloneHere
<1>12. /\ pc'[s] = "await" /\ serial'[s] = next /\ sentAt'[s] = time /\ attempt'[s] = at + 1
       /\ up'[s] = Append(up[s], r) /\ told'[s] = Nothing
  BY <1>1, <1>9, OnlyHere DEF Types
<1>13. MaxAttempts \in Nat /\ at \in Nat /\ at + 1 \in 0..MaxAttempts /\ at + 1 # 0
  BY <1>5, SessionAssumption, CodecAssumption
<1>14. CallerTypes(s)'
  <2>1. time \in Nat /\ time <= time /\ IsSeq(done[s])
    BY <1>1 DEF Types, CallerInv, CallerTypes
  <2>2. QED
    BY <1>10, <1>12, <1>13, <2>1 DEF CallerTypes, Phases
<1>15. Phase(s)'
  BY <1>3, <1>7, <1>10, <1>12, <1>13 DEF Phase
<1>16. PICK k, w, v, dn, u, d : /\ k = key /\ w = Words(cmd[s]) /\ v = Words(c) /\ dn = done[s]
                                /\ u = up[s] /\ d = down[s]
  OBVIOUS
<1>17. Streams(k, s, ser, at, w, dn, d) /\ Requests(k, s, ser, at, w, u)
  BY <1>1, <1>4, <1>5, <1>16 DEF CallerInv, Wire
<1>18. Streams(k, s, next, at + 1, v, dn, d)
  BY <1>6, <1>17, StreamNext
<1>19. Requests(k, s, next, at + 1, v, u)
  BY <1>6, <1>17, RequestsNext
<1>20. IsRequest(k, s, next, at + 1, v, r)
  <2>1. r.of = at + 1 /\ r.cells = CommandFrame(k, next, time, s, v)
    BY <1>8, <1>16
  <2>2. SerialAt(next, at + 1, at + 1) = next
    <3>1. at + 1 \in 0..at + 1
      BY <1>13
    <3>2. QED
      BY <1>13, <3>1, SerialFacts
  <2>3. v # <<"null">>
    BY <1>3, <1>16, NeverNull
  <2>4. r.of \in 0..at + 1 /\ r.of # 0
    BY <1>13, <2>1
  <2>5. QED
    BY <2>1, <2>2, <2>3, <2>4 DEF IsRequest
<1>21. Requests(k, s, next, at + 1, v, Append(u, r))
  BY <1>19, <1>20, RequestsAppend
<1>22. Wire(s)'
  BY <1>3, <1>10, <1>12, <1>16, <1>18, <1>21 DEF Wire
<1>23. Flow(s)'
  <2>1. CASE torn[s] = TRUE
    BY <1>10, <1>12, <2>1 DEF Flow
  <2>2. CASE up[s] = <<>> /\ down[s] = <<>>
    <3>1. up'[s] = <<r>> /\ down'[s] = <<>> /\ r.of = attempt'[s]
      BY <1>8, <1>10, <1>12, <2>2, AppendEmpty
    <3>2. Pending(s)'
      BY <3>1 DEF Pending
    <3>3. QED
      BY <1>12, <3>2 DEF Flow
  <2>3. QED
    BY <1>1, <2>1, <2>2 DEF CallerInv, Flow
<1>24. Knows(s)'
  BY <1>12 DEF Knows, Nothing
<1>25. CallerInv(s)'
  BY <1>14, <1>15, <1>22, <1>23, <1>24 DEF CallerInv
<1>26. QED
  BY <1>11, <1>25, StepKeeps

(* named: the reply is one, and it is to the request that is read. *)
LEMMA AppendIn ==
  ASSUME NEW dn, NEW e, IsSeq(dn)
  PROVE  /\ IsSeq(Append(dn, e))
         /\ Len(dn) + 1 \in DOMAIN Append(dn, e) /\ Append(dn, e)[Len(dn) + 1] = e
         /\ \A i \in DOMAIN dn : i \in DOMAIN Append(dn, e) /\ Append(dn, e)[i] = dn[i]
<1>1. PICK l \in Nat : l = Len(dn) /\ DOMAIN dn = 1..l
  BY SeqFacts
<1>2. PICK en : en = Append(dn, e)
  OBVIOUS
<1>3. IsSeq(en) /\ Len(en) = l + 1 /\ en[l + 1] = e /\ \A i \in 1..l : en[i] = dn[i]
  BY <1>1, <1>2, SeqAppend
<1>4. DOMAIN en = 1..l + 1
  BY <1>3, SeqFacts
<1>5. l + 1 \in DOMAIN en /\ \A i \in DOMAIN dn : i \in DOMAIN en /\ en[i] = dn[i]
  BY <1>1, <1>3, <1>4
<1>6. QED
  BY <1>1, <1>2, <1>3, <1>5

LEMMA DoneGrows ==
  ASSUME NEW o, NEW dn, NEW at, NEW c, NEW n, NEW e, IsSeq(dn), IsDone(o, dn, at, c, n)
  PROVE  IsDone(o, Append(dn, e), at, c, n)
<1>1. \A i \in DOMAIN dn : i \in DOMAIN Append(dn, e) /\ Append(dn, e)[i] = dn[i]
  BY AppendIn
<1>2. n \in DOMAIN Append(dn, e) /\ Append(dn, e)[n] = dn[n]
  BY <1>1 DEF IsDone
<1>3. QED
  BY <1>2 DEF IsDone

LEMMA ServeReplies ==
  ASSUME SessionInv, NEW s \in Callers, Serve(s)
  PROVE  /\ key.secret = Secret
         /\ done' = done \/ \E e : done' = [done EXCEPT ![s] = Append(done[s], e)]
         /\ \E f : /\ down' = [down EXCEPT ![s] = down[s] \o f]
                   /\ IsReply(key, s, serial[s], attempt[s], Words(cmd[s]), done'[s], f,
                              Head(up[s]).of, time + skew)
<1>1. Types /\ CallerInv(s) /\ up[s] # <<>> /\ IsSeq(done[s])
  BY DEF SessionInv, Serve, CallerInv, CallerTypes
<1>2. PICK k, ser, at, w, dn, u : /\ k = key /\ ser = serial[s] /\ at = attempt[s]
                                  /\ w = Words(cmd[s]) /\ dn = done[s] /\ u = up[s]
  OBVIOUS
<1>3. Requests(k, s, ser, at, w, u) /\ u # <<>>
  BY <1>1, <1>2 DEF CallerInv, Wire
<1>4. PICK r : r = Head(u)
  OBVIOUS
<1>5. IsRequest(k, s, ser, at, w, r)
  BY <1>3, <1>4, RequestsTail
<1>6. PICK t, words :
        /\ r.cells = CommandFrame(k, SerialAt(ser, at, r.of), t,
                                  IF r.of = 0 THEN NoNonce ELSE s, words)
        /\ r.of = 0 <=> words = <<"null">>
        /\ r.of = at /\ at # 0 => words = w
  BY <1>5 DEF IsRequest
<1>7. r.of \in 0..at
  BY <1>5 DEF IsRequest
<1>8. PICK cells : cells = r.cells
  OBVIOUS
<1>9. PICK n, non : n = SerialAt(ser, at, r.of) /\ non = IF r.of = 0 THEN NoNonce ELSE s
  OBVIOUS
<1>10. cells = CommandFrame(k, n, t, non, words)
  BY <1>6, <1>8, <1>9
<1>11. PICK m : m = RequestOf(cells)
  OBVIOUS
<1>12. /\ MapString(GetMap(m, "_data"), "type") = <<words>>
       /\ MapString(GetMap(m, "_ctrl"), "_ser") = <<n>>
       /\ GetMap(m, "_auth")["hsha"].v.secret = k.secret
  BY <1>10, <1>11, RequestRead
<1>13. m = Decode(Tail(Head(up[s]).cells)).v
  BY <1>2, <1>4, <1>8, <1>11 DEF RequestOf
<1>14. MapString(GetMap(m, "_data"), "type")[1] = words /\ MapString(GetMap(m, "_ctrl"), "_ser")[1] = n
  BY <1>12
<1>15. PICK now : now = time + skew
  OBVIOUS
<1>16. \A fields : PeerFrame(n, now, PeerNonce(s), fields) = FrameOf(PeerKey(k), n, now, s, fields)
  BY <1>2, PeerFrameOf DEF PeerNonce, PeerKey, Ours
<1>17. k.secret = Secret
  BY <1>12, <1>13 DEF Serve
<1>18. PICK x : x = Len(dn) + 1
  OBVIOUS
<1>19. PICK what : what = Understand(words)
  OBVIOUS
<1>21. \/ /\ words = <<"null">> /\ done' = done
          /\ down' = [down EXCEPT ![s] =
               down[s] \o PeerFrame(n, now, PeerNonce(s), Plain("type", words) \o Plain("result", "0"))]
       \/ /\ words # <<"null">>
          /\ done' = [done EXCEPT ![s] = Append(dn, [of |-> r.of, what |-> what, ok |-> TRUE])]
          /\ down' = [down EXCEPT ![s] =
               down[s] \o PeerFrame(n, now, PeerNonce(s), Plain("type", words) \o
                 (Plain("result", "0") \o Plain("text", PeerText(what, x))))]
       \/ /\ words # <<"null">>
          /\ done' = [done EXCEPT ![s] = Append(dn, [of |-> r.of, what |-> what, ok |-> FALSE])]
          /\ \E f \in {"err", "text"}, why \in Reasons :
               down' = [down EXCEPT ![s] =
                 down[s] \o PeerFrame(n, now, PeerNonce(s), Plain("type", words) \o
                   (Plain("result", "7") \o Plain(f, <<<<why, x>>>>)))]
  BY <1>2, <1>4, <1>13, <1>14, <1>15, <1>18, <1>19 DEF Serve, Reasons
<1>22. PICK a : a = r.of /\ a \in 0..at
  BY <1>7
<1>23. CASE /\ words = <<"null">> /\ done' = done
            /\ down' = [down EXCEPT ![s] = down[s] \o
                 PeerFrame(n, now, PeerNonce(s), Plain("type", words) \o Plain("result", "0"))]
  <2>1. PICK fields : fields = Plain("type", words) \o Plain("result", "0")
    OBVIOUS
  <2>2. PICK f : f = PeerFrame(n, now, PeerNonce(s), fields)
    OBVIOUS
  <2>3. f = FrameOf(PeerKey(k), SerialAt(ser, at, a), now, s, fields)
    BY <1>9, <1>16, <1>22, <2>2
  <2>4. a = 0
    BY <1>6, <1>22, <1>23
  <2>5. ReplyFields(fields, at, w, dn, a, words)
    BY <1>23, <2>1, <2>4 DEF ReplyFields
  <2>6. IsReply(k, s, ser, at, w, dn, f, a, now)
    BY <1>22, <2>3, <2>5 DEF IsReply
  <2>7. down' = [down EXCEPT ![s] = down[s] \o f] /\ done'[s] = dn
    BY <1>2, <1>23, <2>1, <2>2
  <2>8. QED
    BY <1>2, <1>4, <1>15, <1>17, <1>22, <1>23, <2>6, <2>7
<1>24. ASSUME NEW e, NEW fields, words # <<"null">>, e.of = r.of, e.what = what,
              done' = [done EXCEPT ![s] = Append(dn, e)],
              down' = [down EXCEPT ![s] = down[s] \o PeerFrame(n, now, PeerNonce(s), fields)],
              \/ /\ e.ok = TRUE
                 /\ fields = Plain("type", words)
                             \o (Plain("result", "0") \o Plain("text", PeerText(what, x)))
              \/ /\ e.ok = FALSE
                 /\ \E f \in {"err", "text"}, why \in Reasons :
                      fields = Plain("type", words)
                               \o (Plain("result", "7") \o Plain(f, <<<<why, x>>>>))
       PROVE  \E f : /\ down' = [down EXCEPT ![s] = down[s] \o f]
                     /\ IsReply(k, s, ser, at, w, done'[s], f, a, now)
  <2>1. PICK f : f = PeerFrame(n, now, PeerNonce(s), fields)
    OBVIOUS
  <2>2. f = FrameOf(PeerKey(k), SerialAt(ser, at, a), now, s, fields)
    BY <1>9, <1>16, <1>22, <2>1
  <2>3. PICK en : en = Append(dn, e)
    OBVIOUS
  <2>4. done'[s] = en
    BY <1>1, <1>24, <2>3, OnlyHere DEF Types
  <2>5. x \in DOMAIN en /\ en[x] = e
    BY <1>1, <1>2, <1>18, <2>3, AppendIn
  <2>6. Answers(fields, words, en, x)
    BY <1>24, <2>5 DEF Answers
  <2>7. a # 0 /\ (a = at => words = w)
    BY <1>6, <1>22, <1>24
  <2>8. en[x].of = a /\ en[x].what = Understand(words)
    BY <1>19, <1>22, <1>24, <2>5
  <2>9. ReplyFields(fields, at, w, en, a, words)
    BY <2>5, <2>6, <2>7, <2>8 DEF ReplyFields
  <2>10. IsReply(k, s, ser, at, w, en, f, a, now)
    BY <1>22, <2>2, <2>9 DEF IsReply
  <2>11. QED
    BY <1>24, <2>1, <2>4, <2>10
<1>25. CASE /\ words # <<"null">>
            /\ done' = [done EXCEPT ![s] = Append(dn, [of |-> r.of, what |-> what, ok |-> TRUE])]
            /\ down' = [down EXCEPT ![s] =
                 down[s] \o PeerFrame(n, now, PeerNonce(s), Plain("type", words) \o
                   (Plain("result", "0") \o Plain("text", PeerText(what, x))))]
  <2>1. PICK e : e = [of |-> r.of, what |-> what, ok |-> TRUE]
    OBVIOUS
  <2>2. e.of = r.of /\ e.what = what /\ e.ok = TRUE
    BY <2>1
  <2>3. PICK fields : fields = Plain("type", words) \o
                               (Plain("result", "0") \o Plain("text", PeerText(what, x)))
    OBVIOUS
  <2>4. /\ done' = [done EXCEPT ![s] = Append(dn, e)]
        /\ down' = [down EXCEPT ![s] = down[s] \o PeerFrame(n, now, PeerNonce(s), fields)]
    BY <1>25, <2>1, <2>3
  <2>5. \E f : /\ down' = [down EXCEPT ![s] = down[s] \o f]
               /\ IsReply(k, s, ser, at, w, done'[s], f, a, now)
    BY <1>24, <1>25, <2>2, <2>3, <2>4
  <2>6. QED
    BY <1>2, <1>4, <1>15, <1>17, <1>22, <2>4, <2>5
<1>26. CASE /\ words # <<"null">>
            /\ done' = [done EXCEPT ![s] = Append(dn, [of |-> r.of, what |-> what, ok |-> FALSE])]
            /\ \E f \in {"err", "text"}, why \in Reasons :
                 down' = [down EXCEPT ![s] =
                   down[s] \o PeerFrame(n, now, PeerNonce(s), Plain("type", words) \o
                     (Plain("result", "7") \o Plain(f, <<<<why, x>>>>)))]
  <2>1. PICK e : e = [of |-> r.of, what |-> what, ok |-> FALSE]
    OBVIOUS
  <2>2. e.of = r.of /\ e.what = what /\ e.ok = FALSE
    BY <2>1
  <2>3. PICK g \in {"err", "text"}, why \in Reasons :
               down' = [down EXCEPT ![s] =
                 down[s] \o PeerFrame(n, now, PeerNonce(s), Plain("type", words) \o
                   (Plain("result", "7") \o Plain(g, <<<<why, x>>>>)))]
    BY <1>26
  <2>4. PICK fields : fields = Plain("type", words) \o
                               (Plain("result", "7") \o Plain(g, <<<<why, x>>>>))
    OBVIOUS
  <2>5. /\ done' = [done EXCEPT ![s] = Append(dn, e)]
        /\ down' = [down EXCEPT ![s] = down[s] \o PeerFrame(n, now, PeerNonce(s), fields)]
    BY <1>26, <2>1, <2>3, <2>4
  <2>6. \E f : /\ down' = [down EXCEPT ![s] = down[s] \o f]
               /\ IsReply(k, s, ser, at, w, done'[s], f, a, now)
    BY <1>24, <1>26, <2>2, <2>4, <2>5
  <2>7. QED
    BY <1>2, <1>4, <1>15, <1>17, <1>22, <2>5, <2>6
<1>27. QED
  BY <1>21, <1>23, <1>25, <1>26

LEMMA ServeKeeps ==
  ASSUME SessionInv, NEW s \in Callers, Serve(s) PROVE SessionInv'
<1>1. Types /\ CallerInv(s) /\ up[s] # <<>> /\ IsSeq(done[s])
  BY DEF SessionInv, Serve, CallerInv, CallerTypes
<1>2. PICK k, ser, at, w, dn, u, d : /\ k = key /\ ser = serial[s] /\ at = attempt[s]
                                     /\ w = Words(cmd[s]) /\ dn = done[s] /\ u = up[s] /\ d = down[s]
  OBVIOUS
<1>3. PICK f : /\ down' = [down EXCEPT ![s] = d \o f]
               /\ IsReply(k, s, ser, at, w, done'[s], f, Head(u).of, time + skew)
  BY <1>2, ServeReplies
<1>4. k.secret = Secret
  BY <1>2, ServeReplies
<1>5. done' = done \/ \E e : done' = [done EXCEPT ![s] = Append(done[s], e)]
  BY ServeReplies
<1>6. up' = [up EXCEPT ![s] = Tail(u)]
  BY <1>2 DEF Serve
<1>7. /\ key' = key /\ skew' = skew /\ time' = time /\ pc' = pc /\ cmd' = cmd
      /\ attempt' = attempt /\ serial' = serial /\ sentAt' = sentAt /\ nonce' = nonce
      /\ told' = told /\ torn' = torn
  BY DEF Serve, worldVars, sessionVars
<1>8. Only(done', done, s) /\ (done'[s] = done[s] \/ \E e : done'[s] = Append(done[s], e))
  <2>1. CASE done' = done
    <3>1. Only(done, done, s)
      BY OnlyHere
    <3>2. QED
      BY <2>1, <3>1
  <2>2. CASE \E e : done' = [done EXCEPT ![s] = Append(done[s], e)]
    <3>1. PICK e : done' = [done EXCEPT ![s] = Append(done[s], e)]
      BY <2>2
    <3>2. PICK en : en = Append(done[s], e)
      OBVIOUS
    <3>3. done' = [done EXCEPT ![s] = en]
      BY <3>1, <3>2
    <3>4. Only(done', done, s) /\ done'[s] = en
      BY <1>1, <3>3, OnlyHere DEF Types
    <3>5. QED
      BY <3>2, <3>4
  <2>3. QED
    BY <1>5, <2>1, <2>2
<1>9. Alone(s)
  BY <1>1, <1>3, <1>6, <1>7, <1>8, OnlyHere, AloneHere
<1>10. down'[s] = d \o f /\ up'[s] = Tail(u)
  BY <1>1, <1>3, <1>6, OnlyHere DEF Types
<1>11. PICK en : en = done'[s]
  OBVIOUS
<1>12. en = dn \/ \E e : en = Append(dn, e)
  BY <1>2, <1>8, <1>11
<1>13. IsSeq(dn)
  BY <1>1, <1>2
<1>14. IsSeq(en)
  <2>1. ASSUME NEW e PROVE IsSeq(Append(dn, e))
    BY <1>13, AppendIn
  <2>2. QED
    BY <1>12, <1>13, <2>1
<1>15. Streams(k, s, ser, at, w, dn, d) /\ Requests(k, s, ser, at, w, u) /\ u # <<>>
  BY <1>1, <1>2 DEF CallerInv, Wire
<1>16. Streams(k, s, ser, at, w, en, d)
  BY <1>12, <1>13, <1>15, StreamDone
<1>17. PICK a, now : a = Head(u).of /\ now = time + skew
  OBVIOUS
<1>18. IsReply(k, s, ser, at, w, en, f, a, now)
  BY <1>3, <1>11, <1>17
<1>19. Streams(k, s, ser, at, w, en, d \o f)
  BY <1>16, <1>18, StreamAppend
<1>20. Requests(k, s, ser, at, w, Tail(u))
  BY <1>15, RequestsTail
<1>21. Wire(s)'
  BY <1>2, <1>7, <1>10, <1>11, <1>19, <1>20 DEF Wire
<1>22. CallerTypes(s)'
  BY <1>1, <1>7, <1>11, <1>14 DEF CallerInv, CallerTypes
<1>23. pc[s] \notin {"idle", "acquire", "connect"}
  BY <1>1 DEF CallerInv, Phase
<1>24. Phase(s)'
  BY <1>1, <1>7, <1>23 DEF CallerInv, Phase
<1>25. Flow(s)'
  <2>1. CASE torn[s] = TRUE
    BY <1>7, <2>1 DEF Flow
  <2>2. CASE torn[s] # TRUE /\ pc[s] \in {"auth", "await"}
    <3>1. Pending(s)
      BY <1>1, <2>2 DEF CallerInv, Flow, Answered
    <3>2. d = <<>> /\ \E r : r.of = at /\ u = <<r>>
      BY <1>2, <3>1 DEF Pending
    <3>3. PICK r : r.of = at /\ u = <<r>>
      BY <3>2
    <3>4. Tail(u) = <<>> /\ Head(u) = r
      BY <3>3
    <3>5. a = at
      BY <1>17, <3>3, <3>4
    <3>6. IsSeq(f)
      BY <1>18, ReplyCells
    <3>7. d \o f = f
      BY <3>2, <3>6, SeqConcatEmpty
    <3>8. now \in Int /\ sentAt[s] + skew <= now /\ now <= time + skew
      BY <1>1, <1>17 DEF Types, CallerInv, CallerTypes
    <3>9. IsReply(k, s, ser, at, w, en, f, at, now)
      BY <1>18, <3>5
    <3>10. Answered(s)'
      BY <1>2, <1>4, <1>7, <1>10, <1>11, <3>4, <3>7, <3>8, <3>9 DEF Answered
    <3>11. QED
      BY <1>7, <2>2, <3>10 DEF Flow
  <2>3. CASE torn[s] # TRUE /\ pc[s] \notin {"auth", "await"}
    <3>1. pc[s] \notin {"ready", "close"}
      BY <1>1, <2>3 DEF CallerInv, Flow
    <3>2. QED
      BY <1>7, <2>3, <3>1 DEF Flow
  <2>4. QED
    BY <2>1, <2>2, <2>3
<1>26. Knows(s)'
  <2>1. ASSUME told[s].is \in {"ok", "error", "text"}
        PROVE  \E n : IsDone(told[s], en, at, cmd[s], n)
    <3>1. PICK n : IsDone(told[s], dn, at, cmd[s], n)
      BY <1>1, <1>2, <2>1 DEF CallerInv, Knows
    <3>2. PICK o, c : o = told[s] /\ c = cmd[s]
      OBVIOUS
    <3>3. IsDone(o, dn, at, c, n)
      BY <3>1, <3>2
    <3>4. IsDone(o, en, at, c, n)
      BY <1>12, <1>13, <3>3, DoneGrows
    <3>5. QED
      BY <3>2, <3>4
  <2>2. QED
    BY <1>1, <1>2, <1>7, <1>11, <2>1 DEF CallerInv, Knows
<1>27. CallerInv(s)'
  BY <1>21, <1>22, <1>24, <1>25, <1>26 DEF CallerInv
<1>28. QED
  BY <1>9, <1>27, StepKeeps

LEMMA NextKeeps ==
  ASSUME SessionInv, [Next]_vars PROVE SessionInv'
<1>1. CASE Tick
  BY <1>1, TickKeeps
<1>2. CASE UNCHANGED vars
  BY <1>2, StutterKeeps
<1>3. ASSUME NEW s \in Callers, Serve(s) PROVE SessionInv'
  BY <1>3, ServeKeeps
<1>4. ASSUME NEW s \in Callers, Caller(s) PROVE SessionInv'
  BY <1>4, CallKeeps, AdmitKeeps, ConnectFailsKeeps, HandshakeKeeps, CommandKeeps, ReadAuthKeeps,
     ReadReplyKeeps, CloseKeeps, TimeoutKeeps, DropKeeps, DropCallKeeps, BrokenKeeps DEF Caller
<1>5. QED
  BY <1>1, <1>2, <1>3, <1>4 DEF Next

LEMMA SessionInductive == Spec => []SessionInv
<1>1. Init => SessionInv
  BY InitKeeps
<1>2. SessionInv /\ [Next]_vars => SessionInv'
  BY NextKeeps
<1>3. QED
  BY <1>1, <1>2, PTL DEF Spec

-----------------------------------------------------------------------------
(* What follows.                                                           *)

(* A reply of named is refused only when the caller dropped a command of   *)
(* this connection before, when named's clock is behind, or when the reply *)
(* was made later than the window allows: whatever the callers do, however *)
(* long the window and wherever the random serial starts.                  *)
THEOREM HonestCorrect == Spec => []HonestReplyAccepted
<1>1. SessionInv => HonestReplyAccepted
  BY DEF SessionInv, CallerInv, Knows, HonestReplyAccepted
<1>2. QED
  BY <1>1, SessionInductive, PTL

-----------------------------------------------------------------------------
(* The limiter within the sessions. *)
HoldersInv == LimiterInv /\ holding \subseteq Users

LEMMA LimiterStepHolds ==
  ASSUME HoldersInv, [LimiterNext]_limiterVars PROVE HoldersInv'
<1>1. LimiterInv'
  <2>1. CASE LimiterNext
    BY <2>1, EnqueueKeeps, AcquireKeeps, LeaveKeeps, ReleaseKeeps DEF LimiterNext, HoldersInv
  <2>2. CASE UNCHANGED limiterVars
    BY <2>2 DEF limiterVars, LimiterInv, SlotsBounded, HoldersInv
  <2>3. QED
    BY <2>1, <2>2
<1>2. holding' \subseteq Users
  BY DEF HoldersInv, LimiterNext, limiterVars, Enqueue, Acquire, Leave, Release
<1>3. QED
  BY <1>1, <1>2 DEF HoldersInv

LEMMA EndLimits ==
  ASSUME HoldersInv, NEW s, NEW o, End(s, o) PROVE [LimiterNext]_limiterVars
  BY DEF HoldersInv, End, LimiterNext

LEMMA CallerLimits ==
  ASSUME HoldersInv, NEW s \in Callers, Caller(s) PROVE [LimiterNext]_limiterVars
<1>1. CASE Call(s)
  BY <1>1 DEF Call, LimiterNext
<1>2. CASE Admit(s)
  <2>1. waiting # <<>> /\ Head(waiting) = s /\ waiting \in Seq(Users) /\ Acquire(s)
    BY <1>2 DEF Admit, Acquire, HoldersInv, LimiterInv
  <2>2. s \in Users
    BY <2>1
  <2>3. QED
    BY <2>1, <2>2 DEF LimiterNext
<1>3. CASE ConnectFails(s)
  BY <1>3, EndLimits DEF ConnectFails
<1>4. CASE Handshake(s)
  BY <1>4 DEF Handshake
<1>5. CASE Command(s)
  BY <1>5 DEF Command
<1>6. CASE ReadAuth(s)
  BY <1>6, EndLimits DEF ReadAuth
<1>7. CASE ReadReply(s)
  BY <1>7, EndLimits DEF ReadReply, Settle
<1>8. CASE Close(s)
  BY <1>8, EndLimits DEF Close
<1>9. CASE Timeout(s)
  BY <1>9, EndLimits DEF Timeout
<1>10. CASE Drop(s)
  BY <1>10 DEF Drop
<1>11. CASE DropCall(s)
  BY <1>11, EndLimits DEF DropCall, LimiterNext
<1>12. CASE Broken(s)
  BY <1>12, EndLimits DEF Broken
<1>13. QED
  BY <1>1, <1>2, <1>3, <1>4, <1>5, <1>6, <1>7, <1>8, <1>9, <1>10, <1>11, <1>12 DEF Caller

LEMMA SessionLimits ==
  ASSUME HoldersInv, [Next]_vars PROVE [LimiterNext]_limiterVars
<1>1. CASE UNCHANGED vars
  BY <1>1 DEF vars
<1>2. CASE Tick
  BY <1>2 DEF Tick
<1>3. ASSUME NEW s \in Callers, Serve(s) PROVE [LimiterNext]_limiterVars
  BY <1>3 DEF Serve
<1>4. ASSUME NEW s \in Callers, Caller(s) PROVE [LimiterNext]_limiterVars
  BY <1>4, CallerLimits
<1>5. QED
  BY <1>1, <1>2, <1>3, <1>4 DEF Next

(* The sessions use the limiter as it is meant to be used: each step of    *)
(* theirs is one of the limiter or leaves it alone, so every end of a call *)
(* that holds a slot returns it, once, and none that holds none does.      *)
THEOREM LimiterUsed == Spec => LimiterSpec
<1>1. Init => LimiterInit /\ HoldersInv
  BY LimiterInitial DEF Init, HoldersInv, LimiterInit
<1>2. HoldersInv /\ [Next]_vars => HoldersInv'
  BY SessionLimits, LimiterStepHolds
<1>3. HoldersInv /\ [Next]_vars => [LimiterNext]_limiterVars
  BY SessionLimits
<1>4. QED
  BY <1>1, <1>2, <1>3, PTL DEF Spec, LimiterSpec

(* Free and taken slots add up, whatever the calls with a slot run into:   *)
(* a refusal, a broken connection, a drop in the queue or later.           *)
THEOREM SlotsCorrect == Spec => []SlotsBounded
<1>1. QED
  BY LimiterUsed, LimiterSlots, PTL

(* What a caller is told of a command is what named did with this very     *)
(* command, in the zone, class and view it was meant for, and a success if *)
(* and only if named said so: for any number of callers, of commands on a  *)
(* connection and of commands dropped half way.                            *)
THEOREM ToldCorrect == Spec => []ToldIsDone
<1>1. ASSUME SessionInv, NEW s \in Callers, told[s].is \in {"ok", "error", "text"},
             NEW n, n = ExecutionIn(told[s].text)
      PROVE  /\ n \in DOMAIN done[s] /\ done[s][n].of = attempt[s]
             /\ done[s][n].ok = Succeeds(told[s])
             /\ done[s][n].what = Understand(Words(cmd[s]))
             /\ Succeeds(told[s]) /\ cmd[s].kind # "Raw" => done[s][n].what.scope = Scope(cmd[s])
             /\ Succeeds(told[s]) /\ cmd[s].kind = "Status" =>
                  ParseServerStatus(told[s].text) = [version |-> Version, zones |-> "2", up |-> TRUE]
  <2>1. CallerInv(s)
    BY <1>1 DEF SessionInv
  <2>2. pc[s] # "idle" /\ \E m : IsDone(told[s], done[s], attempt[s], cmd[s], m)
    BY <1>1, <2>1 DEF CallerInv, Knows
  <2>3. PICK m : IsDone(told[s], done[s], attempt[s], cmd[s], m)
    BY <2>2
  <2>4. m = n
    BY <1>1, <2>3 DEF IsDone
  <2>5. PICK o, c, x : o = told[s] /\ c = cmd[s] /\ x = done[s][n]
    OBVIOUS
  <2>6. /\ n \in DOMAIN done[s] /\ x.of = attempt[s] /\ x.what = Understand(Words(c))
        /\ x.ok = Succeeds(o) /\ (x.ok = TRUE => o.text = PeerText(x.what, n))
    BY <2>3, <2>4, <2>5 DEF IsDone
  <2>7. c \in CommandsOf(s)
    BY <2>1, <2>2, <2>5 DEF CallerInv, Phase
  <2>8. c.kind # "Raw" => x.what.scope = Scope(c)
    BY <2>6, <2>7, AskedCommands, CommandUnderstood
  <2>9. ASSUME Succeeds(o), c.kind = "Status"
        PROVE  ParseServerStatus(o.text) = [version |-> Version, zones |-> "2", up |-> TRUE]
    <3>1. x.what.verb = "status"
      BY <2>6, <2>9, StatusVerb
    <3>2. x.ok = TRUE
      BY <2>6, <2>9 DEF Succeeds, Response
    <3>3. o.text = PeerText(x.what, n)
      BY <2>6, <3>2
    <3>4. QED
      BY <3>1, <3>3, StatusParsed
  <2>10. QED
    BY <2>5, <2>6, <2>8, <2>9
<1>2. SessionInv => ToldIsDone
  BY <1>1 DEF ToldIsDone, Succeeds
<1>3. QED
  BY <1>2, SessionInductive, PTL

(* Whatever a client, a script or a tool sends is a command named          *)
(* understands, in the zone, class and view it was meant for, and never    *)
(* one that another command reads as.                                      *)
THEOREM UnderstoodCorrect == Spec => []CommandsUnderstood
<1>1. ASSUME NEW z \in Names
      PROVE  /\ NodeCommands(z) \subseteq Commands
             /\ CliZoneCommands(z) \cup CliDnssecCommands(z) \subseteq ClientCommands(z, None)
  BY NodeAsks, CliAsks
<1>2. ASSUME SessionInv, NEW s \in Clients \cup Directs, cmd[s] # NoCommand
      PROVE  cmd[s] \in Commands
  <2>1. s \in Callers /\ s \notin Users
    BY SessionAssumption DEF Callers
  <2>2. cmd[s] \in CommandsOf(s)
    BY <1>2, <2>1 DEF SessionInv, CallerInv, Phase
  <2>3. QED
    BY <2>1, <2>2, AskedCommands
<1>3. SessionInv => CommandsUnderstood
  BY <1>1, <1>2, NoneAmbiguous DEF CommandsUnderstood
<1>4. QED
  BY <1>3, SessionInductive, PTL
=============================================================================
