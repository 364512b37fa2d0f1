------------------------- MODULE RndcCommandProofs -------------------------
(***************************************************************************)
(* Proofs about rndc commands: named reads every command a client can      *)
(* build back as the command that was meant, in its zone, class and view,  *)
(* by the options and the positions of its words alone.                    *)
(***************************************************************************)
EXTENDS RndcSession, FiniteSetTheorems, SequenceTheorems, WellFoundedInduction, TLAPS

-----------------------------------------------------------------------------
(* Induction over the numbers, for a set: the least number outside of it   *)
(* would not be 0 and not be the next of one inside.                       *)
LEMMA AllNat ==
  ASSUME NEW S, 0 \in S, \A n \in Nat : n \in S => n + 1 \in S
  PROVE  Nat \subseteq S
<1> DEFINE T == Nat \ S
<1>1. SUFFICES ASSUME T # {} PROVE FALSE
  OBVIOUS
<1>2. IsWellFoundedOn(OpToRel(<, Nat), Nat) /\ T \subseteq Nat
  BY NatLessThanWellFounded
<1>3. PICK x \in T : \A y \in T : ~(<<y, x>> \in OpToRel(<, Nat))
  BY <1>1, <1>2, WFMin
<1>4. x \in Nat /\ x # 0
  OBVIOUS
<1>5. x - 1 \in Nat /\ (x - 1) + 1 = x /\ x - 1 < x
  BY <1>4
<1>6. <<x - 1, x>> \in OpToRel(<, Nat)
  BY <1>4, <1>5 DEF OpToRel
<1>7. x - 1 \notin T
  BY <1>3, <1>6
<1>8. x \in S
  BY <1>5, <1>7
<1>9. QED
  BY <1>8

-----------------------------------------------------------------------------
(* Sequences of whatever elements.                                         *)
IsSeq(s) == \E T : s \in Seq(T)

LEMMA SeqFacts ==
  ASSUME NEW s, IsSeq(s)
  PROVE  Len(s) \in Nat /\ DOMAIN s = 1..Len(s) /\ s = [i \in 1..Len(s) |-> s[i]]
<1>1. PICK T : s \in Seq(T)
  BY DEF IsSeq
<1>2. QED
  BY <1>1

LEMMA SeqMade ==
  ASSUME NEW n \in Nat, NEW s, s = [i \in 1..n |-> s[i]]
  PROVE  IsSeq(s) /\ Len(s) = n /\ DOMAIN s = 1..n
<1> DEFINE T == {s[i] : i \in 1..n}
<1>1. s \in [1..n -> T]
  OBVIOUS
<1>2. s \in Seq(T)
  BY <1>1
<1>3. Len(s) = n
  BY <1>1, <1>2
<1>4. QED
  BY <1>2, <1>3 DEF IsSeq

LEMMA SameSeq ==
  ASSUME NEW s, NEW t, IsSeq(s), IsSeq(t), Len(s) = Len(t),
         \A i \in 1..Len(s) : s[i] = t[i]
  PROVE  s = t
<1>1. s = [i \in 1..Len(s) |-> s[i]] /\ t = [i \in 1..Len(s) |-> t[i]]
  BY SeqFacts
<1>2. QED
  BY <1>1

LEMMA SeqConcat ==
  ASSUME NEW s, NEW t, IsSeq(s), IsSeq(t)
  PROVE  /\ IsSeq(s \o t)
         /\ Len(s \o t) = Len(s) + Len(t)
         /\ \A i \in 1..Len(s) : (s \o t)[i] = s[i]
         /\ \A i \in 1..Len(t) : (s \o t)[Len(s) + i] = t[i]
<1>1. PICK S : s \in Seq(S)
  BY DEF IsSeq
<1>2. PICK T : t \in Seq(T)
  BY DEF IsSeq
<1>3. s \in Seq(S \cup T) /\ t \in Seq(S \cup T)
  BY <1>1, <1>2
<1>4. s \o t \in Seq(S \cup T)
  BY <1>3
<1>5. IsSeq(s \o t)
  BY <1>4 DEF IsSeq
<1>6. Len(s \o t) = Len(s) + Len(t)
  BY <1>3
<1>7. \A i \in 1..Len(s) : (s \o t)[i] = s[i]
  BY <1>3
<1>8. \A i \in 1..Len(t) : (s \o t)[Len(s) + i] = t[i]
  BY <1>3
<1>9. QED
  BY <1>5, <1>6, <1>7, <1>8

LEMMA SeqEmpty ==
  /\ IsSeq(<<>>) /\ Len(<<>>) = 0
  /\ \A s : IsSeq(s) /\ Len(s) = 0 => s = <<>>
<1>1. <<>> \in Seq({}) /\ Len(<<>>) = 0
  OBVIOUS
<1>2. IsSeq(<<>>)
  BY <1>1 DEF IsSeq
<1>3. ASSUME NEW s, IsSeq(s), Len(s) = 0 PROVE s = <<>>
  BY <1>1, <1>2, <1>3, SameSeq
<1>4. QED
  BY <1>1, <1>2, <1>3

LEMMA SeqConcatEmpty ==
  ASSUME NEW s, IsSeq(s)
  PROVE  s \o <<>> = s /\ <<>> \o s = s
<1>1. PICK T : s \in Seq(T)
  BY DEF IsSeq
<1>2. QED
  BY <1>1, ConcatEmptySeq

LEMMA SeqConcatThree ==
  ASSUME NEW s, NEW t, NEW u, IsSeq(s), IsSeq(t), IsSeq(u)
  PROVE  (s \o t) \o u = s \o (t \o u)
<1>1. PICK S : s \in Seq(S)
  BY DEF IsSeq
<1>2. PICK T : t \in Seq(T)
  BY DEF IsSeq
<1>3. PICK U : u \in Seq(U)
  BY DEF IsSeq
<1>4. PICK V : V = S \cup T \cup U
  OBVIOUS
<1>5. s \in Seq(V) /\ t \in Seq(V) /\ u \in Seq(V)
  BY <1>1, <1>2, <1>3, <1>4
<1>6. QED
  BY <1>5, ConcatAssociative

LEMMA SeqOne ==
  ASSUME NEW x
  PROVE  IsSeq(<<x>>) /\ Len(<<x>>) = 1 /\ <<x>>[1] = x
<1>1. <<x>> \in Seq({x})
  OBVIOUS
<1>2. QED
  BY <1>1 DEF IsSeq

LEMMA SeqThree ==
  ASSUME NEW x, NEW y, NEW z
  PROVE  /\ IsSeq(<<x, y, z>>) /\ Len(<<x, y, z>>) = 3
         /\ <<x, y, z>>[1] = x /\ <<x, y, z>>[2] = y /\ <<x, y, z>>[3] = z
<1>1. <<x, y, z>> \in Seq({x, y, z})
  OBVIOUS
<1>2. QED
  BY <1>1 DEF IsSeq

LEMMA SeqAppend ==
  ASSUME NEW s, IsSeq(s), NEW x
  PROVE  /\ IsSeq(Append(s, x)) /\ Len(Append(s, x)) = Len(s) + 1
         /\ \A i \in 1..Len(s) : Append(s, x)[i] = s[i]
         /\ Append(s, x)[Len(s) + 1] = x
<1>1. PICK S : s \in Seq(S)
  BY DEF IsSeq
<1>2. s \in Seq(S \cup {x}) /\ x \in S \cup {x}
  BY <1>1
<1>3. Append(s, x) \in Seq(S \cup {x})
  BY <1>2
<1>4. IsSeq(Append(s, x))
  BY <1>3 DEF IsSeq
<1>5. Len(Append(s, x)) = Len(s) + 1
  BY <1>2
<1>6. \A i \in 1..Len(s) : Append(s, x)[i] = s[i]
  BY <1>2
<1>7. Append(s, x)[Len(s) + 1] = x
  BY <1>2
<1>8. QED
  BY <1>4, <1>5, <1>6, <1>7

LEMMA SeqSub ==
  ASSUME NEW s, IsSeq(s), NEW m \in 1..Len(s) + 1, NEW n \in 0..Len(s), m <= n + 1
  PROVE  /\ IsSeq(SubSeq(s, m, n)) /\ Len(SubSeq(s, m, n)) = n + 1 - m
         /\ \A i \in 1..n + 1 - m : SubSeq(s, m, n)[i] = s[m + i - 1]
<1>1. PICK S : s \in Seq(S)
  BY DEF IsSeq
<1>2. Len(s) \in Nat
  BY SeqFacts
<1>3. m \in Nat /\ n \in Nat /\ m >= 1 /\ n <= Len(s)
  BY <1>2
<1>4. PICK r : r = SubSeq(s, m, n)
  OBVIOUS
<1>5. r = [i \in 1..n + 1 - m |-> s[m + i - 1]]
  BY <1>1, <1>2, <1>3, <1>4
<1>6. r = [i \in 1..n + 1 - m |-> r[i]] /\ \A i \in 1..n + 1 - m : r[i] = s[m + i - 1]
  BY <1>5
<1>7. n + 1 - m \in Nat
  BY <1>3
<1>8. IsSeq(r) /\ Len(r) = n + 1 - m
  BY <1>6, <1>7, SeqMade
<1>9. QED
  BY <1>4, <1>6, <1>8

LEMMA SeqTail ==
  ASSUME NEW s, IsSeq(s), s # <<>>
  PROVE  /\ Len(s) >= 1 /\ IsSeq(Tail(s)) /\ Len(Tail(s)) = Len(s) - 1
         /\ \A i \in 1..Len(s) - 1 : Tail(s)[i] = s[i + 1]
         /\ Head(s) = s[1]
<1>1. PICK S : s \in Seq(S)
  BY DEF IsSeq
<1>2. Tail(s) \in Seq(S)
  BY <1>1
<1>3. Len(s) \in Nat /\ Len(s) >= 1
  BY <1>1
<1>4. Len(Tail(s)) = Len(s) - 1
  BY <1>1
<1>5. \A i \in 1..Len(s) - 1 : Tail(s)[i] = s[i + 1]
  BY <1>1, <1>3
<1>6. IsSeq(Tail(s))
  BY <1>2 DEF IsSeq
<1>7. QED
  BY <1>1, <1>3, <1>4, <1>5, <1>6

-----------------------------------------------------------------------------
(* The cells of s stand at position i of a. *)
Holds(a, i, s) ==
  /\ IsSeq(a) /\ IsSeq(s)
  /\ i \in 1..Len(a) + 1 /\ i + Len(s) <= Len(a) + 1
  /\ \A j \in 1..Len(s) : a[i + j - 1] = s[j]

LEMMA HoldsItself ==
  ASSUME NEW s, IsSeq(s) PROVE Holds(s, 1, s)
<1>1. Len(s) \in Nat
  BY SeqFacts
<1>2. QED
  BY <1>1 DEF Holds

(* Where two pieces stand, the second stands after the first. *)
LEMMA HoldsConcat ==
  ASSUME NEW a, NEW i, NEW s, NEW t, IsSeq(s), IsSeq(t), Holds(a, i, s \o t)
  PROVE  Holds(a, i, s) /\ Holds(a, i + Len(s), t)
<1>1. PICK l \in Nat : l = Len(s)
  BY SeqFacts
<1>2. PICK m \in Nat : m = Len(t)
  BY SeqFacts
<1>3. PICK n \in Nat : n = Len(a)
  BY SeqFacts DEF Holds
<1>4. Len(s \o t) = l + m
  BY <1>1, <1>2, SeqConcat
<1>5. i \in 1..n + 1 /\ i + (l + m) <= n + 1 /\ \A j \in 1..l + m : a[i + j - 1] = (s \o t)[j]
  BY <1>3, <1>4 DEF Holds
<1>6. \A j \in 1..l : (s \o t)[j] = s[j]
  BY <1>1, SeqConcat
<1>7. \A j \in 1..m : (s \o t)[l + j] = t[j]
  BY <1>1, <1>2, SeqConcat
<1>8. \A j \in 1..l : a[i + j - 1] = s[j]
  <2> SUFFICES ASSUME NEW j \in 1..l PROVE a[i + j - 1] = s[j]
    OBVIOUS
  <2>1. j \in 1..l + m
    OBVIOUS
  <2>2. QED
    BY <2>1, <1>5, <1>6
<1>9. \A j \in 1..m : a[(i + l) + j - 1] = t[j]
  <2> SUFFICES ASSUME NEW j \in 1..m PROVE a[(i + l) + j - 1] = t[j]
    OBVIOUS
  <2>1. l + j \in 1..l + m /\ i + (l + j) - 1 = (i + l) + j - 1
    BY <1>5
  <2>2. a[i + (l + j) - 1] = (s \o t)[l + j]
    BY <2>1, <1>5
  <2>3. QED
    BY <2>1, <2>2, <1>7
<1>10. Holds(a, i, s)
  BY <1>1, <1>3, <1>5, <1>8 DEF Holds
<1>11. i + l \in 1..n + 1 /\ (i + l) + m <= n + 1
  BY <1>5
<1>12. Holds(a, i + Len(s), t)
  BY <1>1, <1>2, <1>3, <1>9, <1>11 DEF Holds
<1>13. QED
  BY <1>10, <1>12

LEMMA HoldsBefore ==
  ASSUME NEW a, NEW i, NEW s, NEW t, Holds(a, i, s), IsSeq(t)
  PROVE  Holds(a \o t, i, s)
<1>1. PICK n \in Nat : n = Len(a)
  BY SeqFacts DEF Holds
<1>2. PICK m \in Nat : m = Len(t)
  BY SeqFacts
<1>3. PICK l \in Nat : l = Len(s)
  BY SeqFacts DEF Holds
<1>4. IsSeq(a \o t) /\ Len(a \o t) = n + m /\ \A j \in 1..n : (a \o t)[j] = a[j]
  BY <1>1, <1>2, SeqConcat DEF Holds
<1>5. i \in 1..n + 1 /\ i + l <= n + 1 /\ \A j \in 1..l : a[i + j - 1] = s[j]
  BY <1>1, <1>3 DEF Holds
<1>6. i \in 1..(n + m) + 1 /\ i + l <= (n + m) + 1
  BY <1>5
<1>7. \A j \in 1..l : (a \o t)[i + j - 1] = s[j]
  <2> SUFFICES ASSUME NEW j \in 1..l PROVE (a \o t)[i + j - 1] = s[j]
    OBVIOUS
  <2>1. i + j - 1 \in 1..n
    BY <1>5
  <2>2. QED
    BY <2>1, <1>4, <1>5
<1>8. IsSeq(s)
  BY DEF Holds
<1>9. QED
  BY <1>3, <1>4, <1>6, <1>7, <1>8 DEF Holds

LEMMA HoldsAfter ==
  ASSUME NEW a, NEW i, NEW s, NEW t, Holds(a, i, s), IsSeq(t)
  PROVE  Holds(t \o a, Len(t) + i, s)
<1>1. PICK n \in Nat : n = Len(a)
  BY SeqFacts DEF Holds
<1>2. PICK m \in Nat : m = Len(t)
  BY SeqFacts
<1>3. PICK l \in Nat : l = Len(s)
  BY SeqFacts DEF Holds
<1>4. IsSeq(t \o a) /\ Len(t \o a) = m + n /\ \A j \in 1..n : (t \o a)[m + j] = a[j]
  BY <1>1, <1>2, SeqConcat DEF Holds
<1>5. i \in 1..n + 1 /\ i + l <= n + 1 /\ \A j \in 1..l : a[i + j - 1] = s[j]
  BY <1>1, <1>3 DEF Holds
<1>6. m + i \in 1..(m + n) + 1 /\ (m + i) + l <= (m + n) + 1
  BY <1>5
<1>7. \A j \in 1..l : (t \o a)[(m + i) + j - 1] = s[j]
  <2> SUFFICES ASSUME NEW j \in 1..l PROVE (t \o a)[(m + i) + j - 1] = s[j]
    OBVIOUS
  <2>1. i + j - 1 \in 1..n /\ (m + i) + j - 1 = m + (i + j - 1)
    BY <1>5
  <2>2. QED
    BY <2>1, <1>4, <1>5
<1>8. IsSeq(s)
  BY DEF Holds
<1>9. QED
  BY <1>2, <1>3, <1>4, <1>6, <1>7, <1>8 DEF Holds

LEMMA HoldsRest ==
  ASSUME NEW a, NEW i, NEW s, NEW n, Holds(a, i, s), n \in 0..i - 1
  PROVE  Holds(SubSeq(a, n + 1, Len(a)), i - n, s)
<1>1. PICK k \in Nat : k = Len(a)
  BY SeqFacts DEF Holds
<1>2. PICK l \in Nat : l = Len(s)
  BY SeqFacts DEF Holds
<1>3. i \in 1..k + 1 /\ i + l <= k + 1 /\ \A j \in 1..l : a[i + j - 1] = s[j]
  BY <1>1, <1>2 DEF Holds
<1>4. IsSeq(a) /\ n + 1 \in 1..k + 1 /\ k \in 0..k /\ n + 1 <= k + 1 /\ n \in Nat
  BY <1>3 DEF Holds
<1>5. PICK b : b = SubSeq(a, n + 1, Len(a))
  OBVIOUS
<1>6. IsSeq(b) /\ Len(b) = k + 1 - (n + 1) /\ \A j \in 1..k + 1 - (n + 1) : b[j] = a[(n + 1) + j - 1]
  BY <1>1, <1>4, <1>5, SeqSub
<1>7. Len(b) = k - n
  BY <1>4, <1>6
<1>8. i - n \in 1..(k - n) + 1 /\ (i - n) + l <= (k - n) + 1
  BY <1>3, <1>4
<1>9. \A j \in 1..l : b[(i - n) + j - 1] = s[j]
  <2> SUFFICES ASSUME NEW j \in 1..l PROVE b[(i - n) + j - 1] = s[j]
    OBVIOUS
  <2>1. (i - n) + j - 1 \in 1..k + 1 - (n + 1) /\ (n + 1) + ((i - n) + j - 1) - 1 = i + j - 1
    BY <1>3, <1>4
  <2>2. QED
    BY <2>1, <1>3, <1>6
<1>10. IsSeq(s)
  BY DEF Holds
<1>11. QED
  BY <1>2, <1>5, <1>6, <1>7, <1>8, <1>9, <1>10 DEF Holds

LEMMA HoldsPart ==
  ASSUME NEW a, NEW i, NEW s, Holds(a, i, s)
  PROVE  SubSeq(a, i, i + Len(s) - 1) = s
<1>1. PICK k \in Nat : k = Len(a)
  BY SeqFacts DEF Holds
<1>2. PICK l \in Nat : l = Len(s)
  BY SeqFacts DEF Holds
<1>3. i \in 1..k + 1 /\ i + l <= k + 1 /\ \A j \in 1..l : a[i + j - 1] = s[j]
  BY <1>1, <1>2 DEF Holds
<1>4. PICK b : b = SubSeq(a, i, i + Len(s) - 1)
  OBVIOUS
<1>5. i + l - 1 \in 0..k /\ i <= (i + l - 1) + 1 /\ (i + l - 1) + 1 - i = l
  BY <1>3
<1>6. IsSeq(b) /\ Len(b) = (i + l - 1) + 1 - i
      /\ \A j \in 1..(i + l - 1) + 1 - i : b[j] = a[i + j - 1]
  BY <1>1, <1>2, <1>3, <1>4, <1>5, SeqSub DEF Holds
<1>7. Len(b) = l /\ \A j \in 1..l : b[j] = s[j]
  BY <1>3, <1>5, <1>6
<1>8. QED
  BY <1>2, <1>4, <1>6, <1>7, SameSeq DEF Holds

LEMMA Pairs == ASSUME NEW x, NEW y PROVE <<x, y>>[1] = x /\ <<x, y>>[2] = y
  OBVIOUS

-----------------------------------------------------------------------------
(* What named takes for leading options, word by word. *)
LeadEntry(f, ws, options, i) ==
  IF i > Len(ws) \/ ws[i] \notin DOMAIN options \/ i + options[ws[i]] > Len(ws)
  THEN i - 1
  ELSE f[i + 1 + options[ws[i]]]

IsLeading(f, ws, options, a) == f = [i \in a..Len(ws) + 1 |-> LeadEntry(f, ws, options, i)]
Upto(ws, options) == CHOOSE f : IsLeading(f, ws, options, 1)
IsOptions(options) == \A x \in DOMAIN options : options[x] \in Nat

LEMMA LeadingChosen ==
  ASSUME NEW ws, NEW options
  PROVE  Leading(ws, options) = Upto(ws, options)[1]
  BY DEF Leading, Upto, IsLeading, LeadEntry

(* A word looks at later positions only. *)
LeadAgree(f, g, ws, i) == \A x \in i + 1..Len(ws) + 1 : f[x] = g[x]

LEMMA LeadEntryLater ==
  ASSUME NEW ws, NEW options, NEW f, NEW g, NEW i,
         IsSeq(ws), IsOptions(options), i \in Nat, LeadAgree(f, g, ws, i)
  PROVE  LeadEntry(f, ws, options, i) = LeadEntry(g, ws, options, i)
<1>1. PICK n \in Nat : n = Len(ws)
  BY SeqFacts
<1>2. CASE i > n \/ ws[i] \notin DOMAIN options \/ i + options[ws[i]] > n
  BY <1>1, <1>2 DEF LeadEntry
<1>3. CASE ~(i > n \/ ws[i] \notin DOMAIN options \/ i + options[ws[i]] > n)
  <2>1. PICK c \in Nat : c = options[ws[i]]
    BY <1>3 DEF IsOptions
  <2>2. i + c <= n
    BY <1>3, <2>1
  <2>3. i + 1 + c \in i + 1..n + 1
    BY <2>2
  <2>4. f[i + 1 + c] = g[i + 1 + c]
    BY <1>1, <2>3 DEF LeadAgree
  <2>5. QED
    BY <1>1, <1>3, <2>1, <2>4 DEF LeadEntry
<1>4. QED
  BY <1>2, <1>3

LEMMA LeadingExists ==
  ASSUME NEW ws, NEW options, IsSeq(ws), IsOptions(options)
  PROVE  \E f : IsLeading(f, ws, options, 1)
<1>1. PICK n \in Nat : n = Len(ws)
  BY SeqFacts
<1> DEFINE S == {k \in Nat : k <= n + 1 => \E f : IsLeading(f, ws, options, n + 2 - k)}
<1>2. 0 \in S
  <2>1. (n + 2 - 0)..n + 1 = {}
    OBVIOUS
  <2>2. IsLeading([x \in {} |-> 0], ws, options, n + 2 - 0)
    BY <1>1, <2>1 DEF IsLeading
  <2>3. QED
    BY <2>2
<1>3. ASSUME NEW k \in Nat, k \in S PROVE k + 1 \in S
  <2>1. SUFFICES ASSUME k + 1 <= n + 1 PROVE \E f : IsLeading(f, ws, options, n + 2 - (k + 1))
    OBVIOUS
  <2>2. PICK f : IsLeading(f, ws, options, n + 2 - k)
    BY <1>3, <2>1
  <2>3. PICK a \in Nat : a = n + 2 - (k + 1) /\ n + 2 - k = a + 1 /\ a >= 1 /\ a <= n + 1
    BY <2>1
  <2>4. f = [i \in a + 1..n + 1 |-> LeadEntry(f, ws, options, i)]
    BY <1>1, <2>2, <2>3 DEF IsLeading
  <2>5. PICK g : g = [i \in a..n + 1 |-> IF i = a THEN LeadEntry(f, ws, options, a) ELSE f[i]]
    OBVIOUS
  <2>6. \A x \in a + 1..n + 1 : f[x] = g[x] /\ f[x] = LeadEntry(f, ws, options, x)
    <3> SUFFICES ASSUME NEW x \in a + 1..n + 1
                 PROVE  f[x] = g[x] /\ f[x] = LeadEntry(f, ws, options, x)
      OBVIOUS
    <3>1. x \in a..n + 1 /\ x # a
      BY <2>3
    <3>2. g[x] = f[x]
      BY <2>5, <3>1
    <3>3. f[x] = LeadEntry(f, ws, options, x)
      BY <2>4
    <3>4. QED
      BY <3>2, <3>3
  <2>7. ASSUME NEW i \in a..n + 1
        PROVE  LeadEntry(f, ws, options, i) = LeadEntry(g, ws, options, i)
    <3>1. i \in Nat /\ \A x \in i + 1..n + 1 : x \in a + 1..n + 1
      BY <2>3
    <3>2. LeadAgree(f, g, ws, i)
      BY <1>1, <2>6, <3>1 DEF LeadAgree
    <3>3. QED
      BY <3>1, <3>2, LeadEntryLater
  <2>8. ASSUME NEW i \in a..n + 1
        PROVE  g[i] = LeadEntry(g, ws, options, i)
    <3>1. i # a => i \in a + 1..n + 1
      BY <2>3
    <3>2. g[i] = LeadEntry(f, ws, options, i)
      BY <2>5, <2>6, <3>1
    <3>3. QED
      BY <3>2, <2>7
  <2>9. g = [i \in a..n + 1 |-> g[i]]
    BY <2>5
  <2>10. g = [i \in a..n + 1 |-> LeadEntry(g, ws, options, i)]
    BY <2>8, <2>9
  <2>11. IsLeading(g, ws, options, a)
    BY <1>1, <2>10 DEF IsLeading
  <2>12. QED
    BY <2>3, <2>11
<1> HIDE DEF S
<1>4. n + 1 \in S
  BY <1>2, <1>3, AllNat
<1>5. n + 2 - (n + 1) = 1
  OBVIOUS
<1>6. QED
  BY <1>4, <1>5 DEF S

LEMMA LeadStep ==
  ASSUME NEW ws, NEW options, IsSeq(ws), IsOptions(options), NEW i \in 1..Len(ws) + 1
  PROVE  Upto(ws, options)[i] = LeadEntry(Upto(ws, options), ws, options, i)
<1>1. PICK f : f = Upto(ws, options)
  OBVIOUS
<1>2. IsLeading(f, ws, options, 1)
  BY <1>1, LeadingExists DEF Upto
<1>3. f[i] = LeadEntry(f, ws, options, i)
  BY <1>2 DEF IsLeading
<1>4. QED
  BY <1>1, <1>3

(* A run of options and their arguments, wherever it stands, is taken for  *)
(* what it is. *)
Run(options, o) ==
  /\ IsSeq(o)
  /\ \A ws, i : Holds(ws, i, o) => Upto(ws, options)[i] = Upto(ws, options)[i + Len(o)]

LEMMA RunNone ==
  ASSUME NEW options PROVE Run(options, <<>>)
<1>1. IsSeq(<<>>) /\ Len(<<>>) = 0
  BY SeqEmpty
<1>2. ASSUME NEW ws, NEW i, Holds(ws, i, <<>>)
      PROVE  Upto(ws, options)[i] = Upto(ws, options)[i + Len(<<>>)]
  <2>1. Len(ws) \in Nat
    BY <1>2, SeqFacts DEF Holds
  <2>2. i \in Int
    BY <1>2, <2>1 DEF Holds
  <2>3. i + 0 = i
    BY <2>2
  <2>4. QED
    BY <1>1, <2>3
<1>3. QED
  BY <1>1, <1>2 DEF Run

LEMMA RunOption ==
  ASSUME NEW options, NEW o, IsSeq(o), IsOptions(options), o # <<>>, o[1] \in DOMAIN options,
         Len(o) = 1 + options[o[1]]
  PROVE  Run(options, o)
<1> SUFFICES ASSUME NEW ws, NEW i, Holds(ws, i, o)
             PROVE  Upto(ws, options)[i] = Upto(ws, options)[i + Len(o)]
  BY DEF Run
<1>1. PICK n \in Nat : n = Len(ws)
  BY SeqFacts DEF Holds
<1>2. PICK c \in Nat : c = options[o[1]]
  BY DEF IsOptions
<1>3. Len(o) = 1 + c /\ 1 \in 1..1 + c
  BY <1>2
<1>4. i \in 1..n + 1 /\ i + (1 + c) <= n + 1
  BY <1>1, <1>3 DEF Holds
<1>5. i + 1 - 1 = i
  BY <1>4
<1>6. ws[i] = o[1]
  BY <1>3, <1>5 DEF Holds
<1>7. ~(i > n) /\ ~(i + c > n) /\ i + (1 + c) = i + 1 + c
  BY <1>4
<1>8. Upto(ws, options)[i] = LeadEntry(Upto(ws, options), ws, options, i)
  BY <1>1, <1>4, LeadStep DEF Holds
<1>9. LeadEntry(Upto(ws, options), ws, options, i) = Upto(ws, options)[i + 1 + c]
  BY <1>1, <1>2, <1>6, <1>7 DEF LeadEntry
<1>10. QED
  BY <1>3, <1>7, <1>8, <1>9

LEMMA RunMore ==
  ASSUME NEW options, NEW o, NEW p, Run(options, o), Run(options, p)
  PROVE  Run(options, o \o p)
<1>1. IsSeq(o) /\ IsSeq(p)
  BY DEF Run
<1>2. IsSeq(o \o p) /\ Len(o \o p) = Len(o) + Len(p)
  BY <1>1, SeqConcat
<1>3. ASSUME NEW ws, NEW i, Holds(ws, i, o \o p)
      PROVE  Upto(ws, options)[i] = Upto(ws, options)[i + Len(o \o p)]
  <2>1. Holds(ws, i, o) /\ Holds(ws, i + Len(o), p)
    BY <1>1, <1>3, HoldsConcat
  <2>2. Upto(ws, options)[i] = Upto(ws, options)[i + Len(o)]
    BY <2>1 DEF Run
  <2>3. Upto(ws, options)[i + Len(o)] = Upto(ws, options)[(i + Len(o)) + Len(p)]
    BY <2>1 DEF Run
  <2>4. Len(o) \in Nat /\ Len(p) \in Nat /\ Len(ws) \in Nat
    BY <1>1, <1>3, SeqFacts DEF Holds
  <2>5. i \in Int
    BY <1>3, <2>4 DEF Holds
  <2>6. (i + Len(o)) + Len(p) = i + (Len(o) + Len(p))
    BY <2>4, <2>5
  <2>7. QED
    BY <1>2, <2>2, <2>3, <2>6
<1>4. QED
  BY <1>2, <1>3 DEF Run

(* Nothing is taken for an option after the last one. *)
Stops(options, r) == IsSeq(r) /\ (r = <<>> \/ r[1] \notin DOMAIN options)

LEMMA LeadingRun ==
  ASSUME NEW options, NEW o, NEW r, Run(options, o), IsOptions(options), Stops(options, r)
  PROVE  Leading(o \o r, options) = Len(o)
<1>1. IsSeq(o) /\ IsSeq(r)
  BY DEF Run, Stops
<1>2. PICK l \in Nat : l = Len(o)
  BY <1>1, SeqFacts
<1>3. PICK m \in Nat : m = Len(r)
  BY <1>1, SeqFacts
<1>4. PICK ws : ws = o \o r
  OBVIOUS
<1>5. IsSeq(ws) /\ Len(ws) = l + m /\ \A j \in 1..m : ws[l + j] = r[j]
  BY <1>1, <1>2, <1>3, <1>4, SeqConcat
<1>6. Holds(ws, 1, o)
  BY <1>1, <1>4, HoldsItself, HoldsBefore
<1>7. Upto(ws, options)[1] = Upto(ws, options)[1 + l]
  BY <1>2, <1>6 DEF Run
<1>8. 1 + l \in 1..(l + m) + 1 /\ 1 + l = l + 1 /\ (1 + l) - 1 = l
  OBVIOUS
<1>9. Upto(ws, options)[1 + l] = LeadEntry(Upto(ws, options), ws, options, 1 + l)
  BY <1>5, <1>8, LeadStep
<1>10. 1 + l > l + m \/ ws[1 + l] \notin DOMAIN options
  <2>1. CASE m = 0
    BY <2>1
  <2>2. CASE m # 0
    <3>1. r # <<>> /\ 1 \in 1..m
      BY <1>3, <2>2, SeqEmpty
    <3>2. ws[l + 1] = r[1]
      BY <1>5, <3>1
    <3>3. QED
      BY <1>8, <3>1, <3>2 DEF Stops
  <2>3. QED
    BY <2>1, <2>2
<1>11. LeadEntry(Upto(ws, options), ws, options, 1 + l) = (1 + l) - 1
  BY <1>5, <1>10 DEF LeadEntry
<1>12. QED
  BY <1>2, <1>4, <1>7, <1>8, <1>9, <1>11, LeadingChosen

-----------------------------------------------------------------------------
(* A text taken apart: a verb, its options, its arguments and the scope.   *)
Splits(ws, v, o, a, t, options, scope) ==
  /\ IsSeq(a) /\ IsSeq(t) /\ ws = <<v>> \o (o \o (a \o t))
  /\ RuleFor(ws) = Rule(options, Len(a), scope)
  /\ IsOptions(options) /\ Run(options, o) /\ Stops(options, a \o t)

Parses(ws, v, o, a, s) ==
  Understand(ws) = [verb |-> v, options |-> o, args |-> a, scope |-> s]

LEMMA PartBetween ==
  ASSUME NEW s, NEW t, IsSeq(s), IsSeq(t)
  PROVE  SubSeq(s \o t, Len(s) + 1, Len(s \o t)) = t /\ SubSeq(s \o t, 1, Len(s)) = s
<1>1. PICK l \in Nat : l = Len(s)
  BY SeqFacts
<1>2. PICK m \in Nat : m = Len(t)
  BY SeqFacts
<1>3. Len(s \o t) = l + m
  BY <1>1, <1>2, SeqConcat
<1>4. IsSeq(s \o t)
  BY SeqConcat
<1>5. Holds(s \o t, 1, s \o t)
  BY <1>4, HoldsItself
<1>6. Holds(s \o t, 1, s) /\ Holds(s \o t, 1 + l, t)
  BY <1>1, <1>5, HoldsConcat
<1>7. SubSeq(s \o t, 1, 1 + l - 1) = s
  BY <1>1, <1>6, HoldsPart
<1>8. SubSeq(s \o t, 1 + l, 1 + l + m - 1) = t
  BY <1>2, <1>6, HoldsPart
<1>9. 1 + l - 1 = l /\ 1 + l = l + 1 /\ 1 + l + m - 1 = l + m
  OBVIOUS
<1>10. QED
  BY <1>1, <1>3, <1>7, <1>8, <1>9

(* What each scope is made of. *)
Parts(ws, v, o, a, t, args, options, scope, n, rest) ==
  /\ RuleFor(ws) = Rule(options, args, scope) /\ n = 1 + Leading(Tail(ws), options)
  /\ rest = SubSeq(ws, n + 1, Len(ws)) /\ rest = a \o t /\ args = Len(a)
  /\ Head(ws) = v /\ SubSeq(ws, 2, n) = o
  /\ SubSeq(rest, 1, args) = a /\ SubSeq(rest, args + 1, Len(rest)) = t
  /\ ~(Len(rest) < args)

LEMMA SplitHas ==
  ASSUME NEW ws, NEW v, NEW o, NEW a, NEW t, NEW options, NEW scope,
         Splits(ws, v, o, a, t, options, scope)
  PROVE  \E n, rest : Parts(ws, v, o, a, t, Len(a), options, scope, n, rest)
<1>1. IsSeq(a) /\ IsSeq(t) /\ IsSeq(o) /\ ws = <<v>> \o (o \o (a \o t))
  BY DEF Splits, Run
<1>2. PICK r : r = a \o t
  OBVIOUS
<1>3. IsSeq(r) /\ Len(r) = Len(a) + Len(t)
  BY <1>1, <1>2, SeqConcat
<1>4. PICK u : u = o \o r
  OBVIOUS
<1>5. IsSeq(u)
  BY <1>1, <1>3, <1>4, SeqConcat
<1>6. IsSeq(<<v>>) /\ Len(<<v>>) = 1 /\ <<v>>[1] = v
  BY SeqOne
<1>7. ws = <<v>> \o u
  BY <1>1, <1>2, <1>4
<1>8. /\ IsSeq(ws) /\ Len(ws) = 1 + Len(u) /\ \A i \in 1..1 : ws[i] = <<v>>[i]
      /\ SubSeq(ws, 1 + 1, Len(ws)) = u
  BY <1>5, <1>6, <1>7, SeqConcat, PartBetween
<1>9. ws[1] = v
  BY <1>6, <1>8
<1>10. Len(u) \in Nat
  BY <1>5, SeqFacts
<1>11. ws # <<>>
  <2>1. 1 + Len(u) # 0
    BY <1>10
  <2>2. QED
    BY <1>8, <2>1, SeqEmpty
<1>12. Head(ws) = v /\ IsSeq(Tail(ws)) /\ Len(Tail(ws)) = Len(ws) - 1
       /\ \A i \in 1..Len(ws) - 1 : Tail(ws)[i] = ws[i + 1]
  BY <1>8, <1>9, <1>11, SeqTail
<1>13. Tail(ws) = u
  <2>1. Len(Tail(ws)) = Len(u) /\ Len(ws) - 1 = Len(u)
    BY <1>8, <1>10, <1>12
  <2>2. \A i \in 1..Len(u) : ws[1 + i] = u[i]
    BY <1>5, <1>6, <1>7, SeqConcat
  <2>3. \A i \in 1..Len(u) : Tail(ws)[i] = u[i]
    <3> SUFFICES ASSUME NEW i \in 1..Len(u) PROVE Tail(ws)[i] = u[i]
      OBVIOUS
    <3>1. i + 1 = 1 + i
      BY <1>10
    <3>2. Tail(ws)[i] = ws[i + 1]
      BY <1>12, <2>1
    <3>3. QED
      BY <2>2, <3>1, <3>2
  <2>4. QED
    BY <1>5, <1>12, <2>1, <2>3, SameSeq
<1>14. Leading(Tail(ws), options) = Len(o)
  BY <1>2, <1>4, <1>13, LeadingRun DEF Splits
<1>15. Len(o) \in Nat /\ Len(a) \in Nat /\ Len(t) \in Nat
  BY <1>1, SeqFacts
<1>16. Holds(ws, 1, ws)
  BY <1>8, HoldsItself
<1>17. Holds(ws, 1 + 1, u)
  BY <1>5, <1>6, <1>7, <1>16, HoldsConcat
<1>18. Holds(ws, 2, u)
  <2>1. 1 + 1 = 2
    OBVIOUS
  <2>2. QED
    BY <1>17, <2>1
<1>19. Holds(ws, 2, o) /\ Holds(ws, 2 + Len(o), r)
  BY <1>1, <1>3, <1>4, <1>18, HoldsConcat
<1>20. SubSeq(ws, 2, 2 + Len(o) - 1) = o /\ SubSeq(ws, 2 + Len(o), 2 + Len(o) + Len(r) - 1) = r
  BY <1>19, HoldsPart
<1>21. Len(u) = Len(o) + Len(r)
  BY <1>1, <1>3, <1>4, SeqConcat
<1>22. /\ 2 + Len(o) - 1 = 1 + Len(o) /\ (1 + Len(o)) + 1 = 2 + Len(o)
       /\ 2 + Len(o) + Len(r) - 1 = Len(ws)
  BY <1>3, <1>8, <1>15, <1>21
<1>23. SubSeq(ws, 2, 1 + Len(o)) = o /\ SubSeq(ws, (1 + Len(o)) + 1, Len(ws)) = r
  BY <1>20, <1>22
<1>24. SubSeq(r, 1, Len(a)) = a /\ SubSeq(r, Len(a) + 1, Len(r)) = t
  BY <1>1, <1>2, PartBetween
<1>25. ~(Len(r) < Len(a))
  BY <1>3, <1>15
<1>26. PICK n : n = 1 + Leading(Tail(ws), options)
  OBVIOUS
<1>27. RuleFor(ws) = Rule(options, Len(a), scope)
  BY DEF Splits
<1>28. n = 1 + Len(o)
  BY <1>14, <1>26
<1>29. Parts(ws, v, o, a, t, Len(a), options, scope, n, r)
  BY <1>2, <1>12, <1>23, <1>24, <1>25, <1>26, <1>27, <1>28 DEF Parts
<1>30. QED
  BY <1>29

LEMMA RuleParts ==
  ASSUME NEW options, NEW args, NEW scope
  PROVE  /\ Rule(options, args, scope).options = options
         /\ Rule(options, args, scope).args = args
         /\ Rule(options, args, scope).scope = scope
  BY DEF Rule

(* What is made of the parts. *)
Made(v, o, a, s) == [verb |-> v, options |-> o, args |-> a, scope |-> s]
Reading(v, o, a, t, args, scope, rest) ==
  CASE Len(rest) < args \/ scope = "unknown" -> Refused
    [] scope = "words" -> Made(v, o, rest, NoScope)
    [] scope = "none" -> IF rest = <<>> THEN Made(v, o, <<>>, NoScope) ELSE Refused
    [] scope = "view" ->
         IF Len(t) > 1 THEN Refused
         ELSE Made(v, o, a, [NoScope EXCEPT !.view = IF t = <<>> THEN None ELSE t[1]])
    [] scope = "class" ->
         IF Len(t) > 2 \/ (Len(t) > 0 /\ t[1] \notin ClassWords) THEN Refused
         ELSE Made(v, o, a, [ScopeOf(<<"-">> \o t) EXCEPT !.zone = None])
    [] scope = "config" ->
         IF Len(Front(t)) > 3 \/ (Len(Front(t)) > 1 /\ Front(t)[2] \notin ClassWords) THEN Refused
         ELSE Made(v, o, <<Last(t)>>, ScopeOf(Front(t)))
    [] scope = "zone" ->
         IF Len(t) > 3 \/ (Len(t) > 1 /\ t[2] \notin ClassWords) THEN Refused
         ELSE Made(v, o, a, ScopeOf(t))

LEMMA PartsRead ==
  ASSUME NEW ws, NEW v, NEW o, NEW a, NEW t, NEW args, NEW options, NEW scope, NEW n, NEW rest,
         Parts(ws, v, o, a, t, args, options, scope, n, rest)
  PROVE  Understand(ws) = Reading(v, o, a, t, args, scope, rest)
<1>1. /\ RuleFor(ws).options = options /\ RuleFor(ws).args = args /\ RuleFor(ws).scope = scope
  <2>1. RuleFor(ws) = Rule(options, args, scope)
    BY DEF Parts
  <2>2. QED
    BY <2>1, RuleParts
<1>2. /\ n = 1 + Leading(Tail(ws), options)
      /\ rest = SubSeq(ws, n + 1, Len(ws))
      /\ Head(ws) = v /\ SubSeq(ws, 2, n) = o
      /\ SubSeq(rest, 1, args) = a /\ SubSeq(rest, args + 1, Len(rest)) = t
  BY DEF Parts
<1>3. QED
  BY <1>1, <1>2 DEF Understand, Reading, Made

LEMMA ParsedWords ==
  ASSUME NEW ws, NEW v, NEW o, NEW t, NEW options,
         Splits(ws, v, o, <<>>, t, options, "words")
  PROVE  Parses(ws, v, o, t, NoScope)
<1>1. PICK n, rest : Parts(ws, v, o, <<>>, t, Len(<<>>), options, "words", n, rest)
  BY SplitHas
<1>2. rest = t
  BY <1>1, SeqConcatEmpty DEF Parts, Splits
<1>3. Understand(ws) = Reading(v, o, <<>>, t, Len(<<>>), "words", rest)
  BY <1>1, PartsRead
<1>4. ~(Len(rest) < Len(<<>>))
  BY <1>1 DEF Parts
<1>5. Reading(v, o, <<>>, t, Len(<<>>), "words", rest) = Made(v, o, t, NoScope)
  BY <1>2, <1>4 DEF Reading
<1>6. QED
  BY <1>3, <1>5 DEF Parses, Made

LEMMA ParsedNone ==
  ASSUME NEW ws, NEW v, NEW o, NEW options,
         Splits(ws, v, o, <<>>, <<>>, options, "none")
  PROVE  Parses(ws, v, o, <<>>, NoScope)
<1>1. PICK n, rest : Parts(ws, v, o, <<>>, <<>>, Len(<<>>), options, "none", n, rest)
  BY SplitHas
<1>2. rest = <<>>
  BY <1>1, SeqEmpty, SeqConcatEmpty DEF Parts
<1>3. Understand(ws) = Reading(v, o, <<>>, <<>>, Len(<<>>), "none", rest)
  BY <1>1, PartsRead
<1>4. ~(Len(rest) < Len(<<>>))
  BY <1>1 DEF Parts
<1>5. Reading(v, o, <<>>, <<>>, Len(<<>>), "none", rest) = Made(v, o, <<>>, NoScope)
  BY <1>2, <1>4 DEF Reading
<1>6. QED
  BY <1>3, <1>5 DEF Parses, Made

LEMMA ParsedView ==
  ASSUME NEW ws, NEW v, NEW o, NEW a, NEW t, NEW options,
         Splits(ws, v, o, a, t, options, "view"), ~(Len(t) > 1)
  PROVE  Parses(ws, v, o, a, [NoScope EXCEPT !.view = IF t = <<>> THEN None ELSE t[1]])
<1>1. PICK n, rest : Parts(ws, v, o, a, t, Len(a), options, "view", n, rest)
  BY SplitHas
<1>2. Understand(ws) = Reading(v, o, a, t, Len(a), "view", rest)
  BY <1>1, PartsRead
<1>3. ~(Len(rest) < Len(a))
  BY <1>1 DEF Parts
<1>4. Reading(v, o, a, t, Len(a), "view", rest) =
        Made(v, o, a, [NoScope EXCEPT !.view = IF t = <<>> THEN None ELSE t[1]])
  BY <1>3 DEF Reading
<1>5. QED
  BY <1>2, <1>4 DEF Parses, Made

LEMMA ParsedClass ==
  ASSUME NEW ws, NEW v, NEW o, NEW a, NEW t, NEW options,
         Splits(ws, v, o, a, t, options, "class"),
         ~(Len(t) > 2), Len(t) > 0 => t[1] \in ClassWords
  PROVE  Parses(ws, v, o, a, [ScopeOf(<<"-">> \o t) EXCEPT !.zone = None])
<1>1. PICK n, rest : Parts(ws, v, o, a, t, Len(a), options, "class", n, rest)
  BY SplitHas
<1>2. Understand(ws) = Reading(v, o, a, t, Len(a), "class", rest)
  BY <1>1, PartsRead
<1>3. ~(Len(rest) < Len(a))
  BY <1>1 DEF Parts
<1>4. Reading(v, o, a, t, Len(a), "class", rest) =
        Made(v, o, a, [ScopeOf(<<"-">> \o t) EXCEPT !.zone = None])
  BY <1>3 DEF Reading
<1>5. QED
  BY <1>2, <1>4 DEF Parses, Made

LEMMA ParsedZone ==
  ASSUME NEW ws, NEW v, NEW o, NEW a, NEW t, NEW options,
         Splits(ws, v, o, a, t, options, "zone"),
         ~(Len(t) > 3), Len(t) > 1 => t[2] \in ClassWords
  PROVE  Parses(ws, v, o, a, ScopeOf(t))
<1>1. PICK n, rest : Parts(ws, v, o, a, t, Len(a), options, "zone", n, rest)
  BY SplitHas
<1>2. Understand(ws) = Reading(v, o, a, t, Len(a), "zone", rest)
  BY <1>1, PartsRead
<1>3. ~(Len(rest) < Len(a))
  BY <1>1 DEF Parts
<1>4. Reading(v, o, a, t, Len(a), "zone", rest) = Made(v, o, a, ScopeOf(t))
  BY <1>3 DEF Reading
<1>5. QED
  BY <1>2, <1>4 DEF Parses, Made

LEMMA ParsedConfig ==
  ASSUME NEW ws, NEW v, NEW o, NEW t, NEW x, NEW options, IsSeq(t),
         Splits(ws, v, o, <<>>, t \o <<x>>, options, "config"),
         ~(Len(t) > 3), Len(t) > 1 => t[2] \in ClassWords
  PROVE  Parses(ws, v, o, <<x>>, ScopeOf(t))
<1>1. PICK n, rest : Parts(ws, v, o, <<>>, t \o <<x>>, Len(<<>>), options, "config", n, rest)
  BY SplitHas
<1>2. PICK y : y = t \o <<x>>
  OBVIOUS
<1>3. Len(t) \in Nat /\ IsSeq(<<x>>) /\ Len(<<x>>) = 1 /\ <<x>>[1] = x
  BY SeqFacts, SeqOne
<1>4. Len(y) = Len(t) + 1 /\ \A i \in 1..1 : y[Len(t) + i] = <<x>>[i]
  BY <1>2, <1>3, SeqConcat
<1>5. SubSeq(y, 1, Len(t)) = t
  BY <1>2, <1>3, PartBetween
<1>6. Len(y) - 1 = Len(t)
  BY <1>3, <1>4
<1>7. Front(y) = t
  BY <1>5, <1>6 DEF Front
<1>8. Last(y) = x
  BY <1>3, <1>4 DEF Last
<1>9. Understand(ws) = Reading(v, o, <<>>, y, Len(<<>>), "config", rest)
  BY <1>1, <1>2, PartsRead
<1>10. ~(Len(rest) < Len(<<>>))
  BY <1>1 DEF Parts
<1>11. Reading(v, o, <<>>, y, Len(<<>>), "config", rest) = Made(v, o, <<x>>, ScopeOf(t))
  BY <1>7, <1>8, <1>10 DEF Reading
<1>12. QED
  BY <1>9, <1>11 DEF Parses, Made

-----------------------------------------------------------------------------
(* Zone, class and view, in words and as what a command is for. *)
LEMMA SeqTwo ==
  ASSUME NEW x, NEW y
  PROVE  /\ IsSeq(<<x, y>>) /\ Len(<<x, y>>) = 2 /\ <<x, y>>[1] = x /\ <<x, y>>[2] = y
<1>1. <<x, y>> \in Seq({x, y})
  OBVIOUS
<1>2. QED
  BY <1>1 DEF IsSeq

LEMMA OneAndOne ==
  ASSUME NEW x, NEW y
  PROVE  <<x>> \o <<y>> = <<x, y>>
<1>1. PICK s : s = <<x>> \o <<y>>
  OBVIOUS
<1>2. IsSeq(<<x>>) /\ Len(<<x>>) = 1 /\ <<x>>[1] = x
  BY SeqOne
<1>3. IsSeq(<<y>>) /\ Len(<<y>>) = 1 /\ <<y>>[1] = y
  BY SeqOne
<1>4. /\ IsSeq(s) /\ Len(s) = 1 + 1 /\ \A i \in 1..1 : s[i] = <<x>>[i]
      /\ \A i \in 1..1 : s[1 + i] = <<y>>[i]
  BY <1>1, <1>2, <1>3, SeqConcat
<1>5. s[1] = x /\ s[1 + 1] = y
  BY <1>2, <1>3, <1>4
<1>6. 1 + 1 = 2
  OBVIOUS
<1>7. s[1] = x /\ s[2] = y /\ Len(s) = 2
  BY <1>4, <1>5, <1>6
<1>8. /\ IsSeq(<<x, y>>) /\ Len(<<x, y>>) = 2 /\ <<x, y>>[1] = x /\ <<x, y>>[2] = y
  BY SeqTwo
<1>9. \A i \in 1..2 : s[i] = <<x, y>>[i]
  BY <1>7, <1>8
<1>10. QED
  BY <1>1, <1>4, <1>7, <1>8, <1>9, SameSeq

LEMMA OneAndTwo ==
  ASSUME NEW x, NEW y, NEW z
  PROVE  <<x>> \o <<y, z>> = <<x, y, z>>
<1>1. PICK s : s = <<x>> \o <<y, z>>
  OBVIOUS
<1>2. IsSeq(<<x>>) /\ Len(<<x>>) = 1 /\ <<x>>[1] = x
  BY SeqOne
<1>3. IsSeq(<<y, z>>) /\ Len(<<y, z>>) = 2 /\ <<y, z>>[1] = y /\ <<y, z>>[2] = z
  BY SeqTwo
<1>4. /\ IsSeq(s) /\ Len(s) = 1 + 2 /\ \A i \in 1..1 : s[i] = <<x>>[i]
      /\ \A i \in 1..2 : s[1 + i] = <<y, z>>[i]
  BY <1>1, <1>2, <1>3, SeqConcat
<1>5. s[1] = x
  BY <1>2, <1>4
<1>6. s[1 + 1] = y /\ s[1 + 2] = z
  BY <1>3, <1>4
<1>7. 1 + 1 = 2 /\ 1 + 2 = 3
  OBVIOUS
<1>8. s[2] = y /\ s[3] = z /\ Len(s) = 3
  BY <1>4, <1>6, <1>7
<1>9. /\ IsSeq(<<x, y, z>>) /\ Len(<<x, y, z>>) = 3
      /\ <<x, y, z>>[1] = x /\ <<x, y, z>>[2] = y /\ <<x, y, z>>[3] = z
  BY SeqThree
<1>10. \A i \in 1..3 : s[i] = <<x, y, z>>[i]
  BY <1>5, <1>8, <1>9
<1>11. QED
  BY <1>1, <1>4, <1>8, <1>9, <1>10, SameSeq

(* The class a missing one stands for. *)
ClassOf(class) == IF class = None THEN "IN" ELSE class
Located(t) == [zone |-> t.zone, class |-> ClassOf(t.class), view |-> t.view]

LEMMA ClassAndViewIs ==
  ASSUME NEW class, NEW view
  PROVE  /\ view # None => ClassAndView(class, view) = <<ClassOf(class), view>>
         /\ view = None /\ class # None => ClassAndView(class, view) = <<class>>
         /\ view = None /\ class = None => ClassAndView(class, view) = <<>>
<1>1. CASE view # None
  <2>1. ClassAndView(class, view) = <<ClassOf(class)>> \o <<view>>
    BY <1>1 DEF ClassAndView, ClassOf, Word
  <2>2. QED
    BY <1>1, <2>1, OneAndOne
<1>2. CASE view = None /\ class # None
  <2>1. ClassAndView(class, view) = <<class>> \o <<>>
    BY <1>2 DEF ClassAndView, Word
  <2>2. <<class>> \o <<>> = <<class>>
    BY SeqOne, SeqConcatEmpty
  <2>3. QED
    BY <1>2, <2>1, <2>2
<1>3. CASE view = None /\ class = None
  <2>1. ClassAndView(class, view) = <<>> \o <<>>
    BY <1>3 DEF ClassAndView, Word
  <2>2. <<>> \o <<>> = <<>>
    BY SeqEmpty, SeqConcatEmpty
  <2>3. QED
    BY <1>3, <2>1, <2>2
<1>4. QED
  BY <1>1, <1>2, <1>3

LEMMA ScopeOfOne ==
  ASSUME NEW z
  PROVE  ScopeOf(<<z>>) = [zone |-> z, class |-> "IN", view |-> None]
<1>1. PICK w : w = <<z>>
  OBVIOUS
<1>2. Len(w) = 1 /\ w[1] = z
  BY <1>1, SeqOne
<1>3. QED
  BY <1>1, <1>2 DEF ScopeOf

LEMMA ScopeOfTwo ==
  ASSUME NEW z, NEW k
  PROVE  ScopeOf(<<z, k>>) = [zone |-> z, class |-> k, view |-> None]
<1>1. PICK w : w = <<z, k>>
  OBVIOUS
<1>2. Len(w) = 2 /\ w[1] = z /\ w[2] = k
  BY <1>1, SeqTwo
<1>3. QED
  BY <1>1, <1>2 DEF ScopeOf

LEMMA ScopeOfThree ==
  ASSUME NEW z, NEW k, NEW v
  PROVE  ScopeOf(<<z, k, v>>) = [zone |-> z, class |-> k, view |-> v]
<1>1. PICK w : w = <<z, k, v>>
  OBVIOUS
<1>2. Len(w) = 3 /\ w[1] = z /\ w[2] = k /\ w[3] = v
  BY <1>1, SeqThree
<1>3. QED
  BY <1>1, <1>2 DEF ScopeOf

(* No more than zone, class and view, the class being one. *)
IsScope(t) == IsSeq(t) /\ ~(Len(t) > 3) /\ (Len(t) > 1 => t[2] \in ClassWords)

LEMMA TargetWords ==
  ASSUME NEW t \in Targets
  PROVE  /\ IsScope(CommandArgs(t)) /\ CommandArgs(t) # <<>> /\ CommandArgs(t)[1] = t.zone
         /\ ScopeOf(CommandArgs(t)) = Located(t)
<1>1. PICK z, k, v : z = t.zone /\ k = t.class /\ v = t.view
  OBVIOUS
<1>2. k \in ClassWords \/ k = None
  BY <1>1 DEF Targets, Maybe
<1>3. ClassOf(k) \in ClassWords
  BY <1>2 DEF ClassOf, ClassWords
<1>4. PICK w : w = CommandArgs(t)
  OBVIOUS
<1>5. w = <<z>> \o ClassAndView(k, v)
  BY <1>1, <1>4 DEF CommandArgs
<1>6. Located(t) = [zone |-> z, class |-> ClassOf(k), view |-> v]
  BY <1>1 DEF Located
<1>7. CASE v # None
  <2>1. w = <<z, ClassOf(k), v>>
    BY <1>5, <1>7, ClassAndViewIs, OneAndTwo
  <2>2. IsSeq(w) /\ Len(w) = 3 /\ w[1] = z /\ w[2] = ClassOf(k)
    BY <2>1, SeqThree
  <2>3. ScopeOf(w) = Located(t)
    BY <1>6, <2>1, ScopeOfThree
  <2>4. w # <<>>
    BY <2>2, SeqEmpty
  <2>5. QED
    BY <1>1, <1>3, <1>4, <2>2, <2>3, <2>4 DEF IsScope
<1>8. CASE v = None /\ k # None
  <2>1. w = <<z, k>>
    BY <1>5, <1>8, ClassAndViewIs, OneAndOne
  <2>2. IsSeq(w) /\ Len(w) = 2 /\ w[1] = z /\ w[2] = k
    BY <2>1, SeqTwo
  <2>3. ClassOf(k) = k
    BY <1>8 DEF ClassOf
  <2>4. ScopeOf(w) = Located(t)
    BY <1>6, <1>8, <2>1, <2>3, ScopeOfTwo
  <2>5. w # <<>>
    BY <2>2, SeqEmpty
  <2>6. QED
    BY <1>1, <1>3, <1>4, <2>2, <2>3, <2>4, <2>5 DEF IsScope
<1>9. CASE v = None /\ k = None
  <2>1. w = <<z>>
    BY <1>5, <1>9, ClassAndViewIs, SeqOne, SeqConcatEmpty
  <2>2. IsSeq(w) /\ Len(w) = 1 /\ w[1] = z
    BY <2>1, SeqOne
  <2>3. ClassOf(k) = "IN"
    BY <1>9 DEF ClassOf
  <2>4. ScopeOf(w) = Located(t)
    BY <1>6, <1>9, <2>1, <2>3, ScopeOfOne
  <2>5. w # <<>>
    BY <2>2, SeqEmpty
  <2>6. QED
    BY <1>1, <1>4, <2>2, <2>4, <2>5 DEF IsScope
<1>10. QED
  BY <1>7, <1>8, <1>9

LEMMA NoScopeIs ==
  NoScope = [zone |-> None, class |-> "IN", view |-> None] /\ ScopeOf(<<>>) = NoScope
<1>1. Len(<<>>) = 0
  BY SeqEmpty
<1>2. QED
  BY <1>1 DEF NoScope, ScopeOf

LEMMA NameIsNone ==
  /\ None \notin Targets /\ None \notin KeySelectors /\ None \notin Views /\ None \notin Names
  /\ \A x \in Names \cup Views : x \notin OptionWords
  /\ None \notin OptionalWords /\ None \notin ClassWords
  BY WordAssumption

LEMMA MaybeTargetWords ==
  ASSUME NEW t \in Targets \cup {None}
  PROVE  /\ IsScope(MaybeArgs(t))
         /\ MaybeArgs(t) = <<>> \/ MaybeArgs(t)[1] \in Names
         /\ ScopeOf(MaybeArgs(t)) = IF t = None THEN NoScope ELSE Located(t)
<1>1. CASE t = None
  <2>1. MaybeArgs(t) = <<>>
    BY <1>1 DEF MaybeArgs
  <2>2. QED
    BY <1>1, <2>1, SeqEmpty, NoScopeIs DEF IsScope
<1>2. CASE t # None
  <2>1. MaybeArgs(t) = CommandArgs(t) /\ t \in Targets
    BY <1>2 DEF MaybeArgs
  <2>2. t.zone \in Names
    BY <2>1 DEF Targets
  <2>3. QED
    BY <1>2, <2>1, <2>2, TargetWords
<1>3. QED
  BY <1>1, <1>2

(* What a command is for. *)
LEMMA TargetScope ==
  ASSUME NEW c, "target" \in DOMAIN c, c.target \in Targets
  PROVE  Scope(c) = Located(c.target)
<1>1. PICK t \in Targets : t = c.target
  OBVIOUS
<1>2. t # None
  BY NameIsNone
<1>3. TargetOf(c) = t
  BY <1>1, <1>2 DEF TargetOf
<1>4. Scope(c) = [t EXCEPT !.class = IF @ = None THEN "IN" ELSE @]
  BY <1>3 DEF Scope
<1>5. t = [zone |-> t.zone, class |-> t.class, view |-> t.view]
  BY DEF Targets
<1>6. QED
  BY <1>1, <1>4, <1>5 DEF Located, ClassOf

LEMMA OtherScope ==
  ASSUME NEW c, "target" \in DOMAIN c => c.target = None, NEW k, NEW v,
         k = IF "class" \in DOMAIN c THEN c.class ELSE None,
         v = IF "view" \in DOMAIN c THEN c.view
             ELSE IF "views" \in DOMAIN c /\ c.views # <<>> THEN c.views[1] ELSE None
  PROVE  Scope(c) = [zone |-> None, class |-> ClassOf(k), view |-> v]
<1>1. TargetOf(c) = [zone |-> None, class |-> k, view |-> v]
  BY DEF TargetOf
<1>2. QED
  BY <1>1 DEF Scope, ClassOf

LEMMA MaybeTargetScope ==
  ASSUME NEW c, DOMAIN c \cap {"class", "view", "views"} = {}, "target" \in DOMAIN c,
         c.target \in Targets \cup {None}
  PROVE  Scope(c) = ScopeOf(MaybeArgs(c.target))
<1>1. CASE c.target = None
  <2>1. Scope(c) = [zone |-> None, class |-> ClassOf(None), view |-> None]
    BY <1>1, OtherScope
  <2>2. QED
    BY <1>1, <2>1, MaybeTargetWords, NoScopeIs DEF ClassOf
<1>2. CASE c.target # None
  <2>1. c.target \in Targets
    BY <1>2
  <2>2. QED
    BY <1>2, <2>1, TargetScope, MaybeTargetWords
<1>3. QED
  BY <1>1, <1>2

LEMMA Scopeless ==
  ASSUME NEW c, DOMAIN c \cap {"target", "class", "view", "views"} = {}
  PROVE  Scope(c) = NoScope
<1>1. Scope(c) = [zone |-> None, class |-> ClassOf(None), view |-> None]
  BY OtherScope
<1>2. QED
  BY <1>1, NoScopeIs DEF ClassOf

(* A view, by itself. *)
ViewOf(t) == [NoScope EXCEPT !.view = IF t = <<>> THEN None ELSE t[1]]

LEMMA ViewWords ==
  ASSUME NEW v \in Maybe(Views)
  PROVE  /\ IsSeq(Word(v)) /\ ~(Len(Word(v)) > 1)
         /\ Word(v) = <<>> \/ Word(v)[1] \in Views
         /\ ViewOf(Word(v)) = [zone |-> None, class |-> "IN", view |-> v]
<1>1. CASE v = None
  <2>1. Word(v) = <<>>
    BY <1>1 DEF Word
  <2>2. QED
    BY <1>1, <2>1, SeqEmpty, NoScopeIs DEF ViewOf
<1>2. CASE v # None
  <2>1. v \in Views
    BY <1>2 DEF Maybe
  <2>2. PICK w : w = Word(v)
    OBVIOUS
  <2>3. w = <<v>>
    BY <1>2, <2>2 DEF Word
  <2>4. IsSeq(w) /\ Len(w) = 1 /\ w[1] = v
    BY <2>3, SeqOne
  <2>5. w # <<>>
    BY <2>4, SeqEmpty
  <2>6. ViewOf(w) = [zone |-> None, class |-> "IN", view |-> v]
    BY <2>4, <2>5, NoScopeIs DEF ViewOf
  <2>7. QED
    BY <2>1, <2>2, <2>4, <2>6
<1>3. QED
  BY <1>1, <1>2

LEMMA ViewScope ==
  ASSUME NEW c, DOMAIN c \cap {"target", "class"} = {}, "view" \in DOMAIN c,
         c.view \in Maybe(Views)
  PROVE  Scope(c) = ViewOf(Word(c.view))
<1>1. Scope(c) = [zone |-> None, class |-> ClassOf(None), view |-> c.view]
  BY OtherScope
<1>2. QED
  BY <1>1, ViewWords DEF ClassOf

(* A list of no view or one. *)
AtMostOne(S) == {<<>>} \cup {<<v>> : v \in S}

LEMMA AtMostOneWords ==
  ASSUME NEW S, NEW vs \in AtMostOne(S)
  PROVE  IsSeq(vs) /\ ~(Len(vs) > 1) /\ (vs = <<>> \/ (vs[1] \in S /\ Len(vs) = 1 /\ vs = <<vs[1]>>))
<1>1. CASE vs = <<>>
  BY <1>1, SeqEmpty
<1>2. CASE \E v \in S : vs = <<v>>
  <2>1. PICK v \in S : vs = <<v>>
    BY <1>2
  <2>2. IsSeq(vs) /\ Len(vs) = 1 /\ vs[1] = v
    BY <2>1, SeqOne
  <2>3. QED
    BY <2>1, <2>2
<1>3. QED
  BY <1>1, <1>2 DEF AtMostOne

LEMMA ViewsScope ==
  ASSUME NEW c, DOMAIN c \cap {"target", "class", "view"} = {}, "views" \in DOMAIN c,
         c.views \in AtMostOne(Views)
  PROVE  Scope(c) = ViewOf(c.views) /\ c.views = Word(Scope(c).view)
<1>1. PICK vs : vs = c.views
  OBVIOUS
<1>2. PICK v : v = IF vs # <<>> THEN vs[1] ELSE None
  OBVIOUS
<1>3. Scope(c) = [zone |-> None, class |-> ClassOf(None), view |-> v]
  BY <1>1, <1>2, OtherScope
<1>4. Scope(c) = ViewOf(vs) /\ Scope(c).view = v
  BY <1>2, <1>3, NoScopeIs DEF ClassOf, ViewOf
<1>5. vs = Word(v)
  <2>1. CASE vs = <<>>
    BY <1>2, <2>1 DEF Word
  <2>2. CASE vs # <<>>
    <3>1. vs[1] \in Views /\ vs = <<vs[1]>>
      BY <1>1, <2>2, AtMostOneWords
    <3>2. v = vs[1] /\ v # None
      BY <1>2, <2>2, <3>1, NameIsNone
    <3>3. QED
      BY <3>1, <3>2 DEF Word
  <2>3. QED
    BY <2>1, <2>2
<1>6. QED
  BY <1>1, <1>4, <1>5

(* A class and a view. *)
ClassedOf(t) == [ScopeOf(<<"-">> \o t) EXCEPT !.zone = None]

LEMMA ClassedIs ==
  ASSUME NEW t, NEW z, NEW k, NEW v, ScopeOf(<<"-">> \o t) = [zone |-> z, class |-> k, view |-> v]
  PROVE  ClassedOf(t) = [zone |-> None, class |-> k, view |-> v]
  BY DEF ClassedOf

LEMMA ClassWordsRead ==
  ASSUME NEW k \in Maybe(ClassWords), NEW v \in Maybe(Views)
  PROVE  /\ IsSeq(ClassAndView(k, v)) /\ ~(Len(ClassAndView(k, v)) > 2)
         /\ Len(ClassAndView(k, v)) > 0 => ClassAndView(k, v)[1] \in ClassWords
         /\ ClassedOf(ClassAndView(k, v)) = [zone |-> None, class |-> ClassOf(k), view |-> v]
<1>0. PICK d : d = "-"
  OBVIOUS
<1>1. ClassOf(k) \in ClassWords
  BY DEF ClassOf, ClassWords, Maybe
<1>2. PICK w : w = ClassAndView(k, v)
  OBVIOUS
<1>3. CASE v # None
  <2>1. w = <<ClassOf(k), v>>
    BY <1>2, <1>3, ClassAndViewIs
  <2>2. IsSeq(w) /\ Len(w) = 2 /\ w[1] = ClassOf(k)
    BY <2>1, SeqTwo
  <2>3. <<d>> \o w = <<d, ClassOf(k), v>>
    BY <2>1, OneAndTwo
  <2>4. ScopeOf(<<d>> \o w) = [zone |-> d, class |-> ClassOf(k), view |-> v]
    BY <2>3, ScopeOfThree
  <2>5. ClassedOf(w) = [zone |-> None, class |-> ClassOf(k), view |-> v]
    BY <1>0, <2>4, ClassedIs
  <2>6. QED
    BY <1>1, <1>2, <2>2, <2>5
<1>4. CASE v = None /\ k # None
  <2>1. w = <<k>>
    BY <1>2, <1>4, ClassAndViewIs
  <2>2. IsSeq(w) /\ Len(w) = 1 /\ w[1] = k /\ ClassOf(k) = k
    BY <1>4, <2>1, SeqOne DEF ClassOf
  <2>3. <<d>> \o w = <<d, k>>
    BY <2>1, OneAndOne
  <2>4. ScopeOf(<<d>> \o w) = [zone |-> d, class |-> k, view |-> None]
    BY <2>3, ScopeOfTwo
  <2>5. ClassedOf(w) = [zone |-> None, class |-> k, view |-> None]
    BY <1>0, <2>4, ClassedIs
  <2>6. ClassedOf(w) = [zone |-> None, class |-> ClassOf(k), view |-> v]
    BY <1>4, <2>2, <2>5
  <2>7. w[1] \in ClassWords
    BY <1>1, <2>2
  <2>8. QED
    BY <1>2, <2>2, <2>6, <2>7
<1>5. CASE v = None /\ k = None
  <2>1. w = <<>>
    BY <1>2, <1>5, ClassAndViewIs
  <2>2. IsSeq(w) /\ Len(w) = 0 /\ ClassOf(k) = "IN"
    BY <1>5, <2>1, SeqEmpty DEF ClassOf
  <2>3. <<d>> \o w = <<d>>
    BY <2>1, SeqOne, SeqConcatEmpty
  <2>4. ScopeOf(<<d>> \o w) = [zone |-> d, class |-> "IN", view |-> None]
    BY <2>3, ScopeOfOne
  <2>5. ClassedOf(w) = [zone |-> None, class |-> "IN", view |-> None]
    BY <1>0, <2>4, ClassedIs
  <2>6. QED
    BY <1>2, <1>5, <2>2, <2>5
<1>6. QED
  BY <1>3, <1>4, <1>5

LEMMA ClassScope ==
  ASSUME NEW c, "target" \notin DOMAIN c, "class" \in DOMAIN c, "view" \in DOMAIN c,
         c.class \in Maybe(ClassWords), c.view \in Maybe(Views)
  PROVE  Scope(c) = ClassedOf(ClassAndView(c.class, c.view))
<1>1. Scope(c) = [zone |-> None, class |-> ClassOf(c.class), view |-> c.view]
  BY OtherScope
<1>2. QED
  BY <1>1, ClassWordsRead

-----------------------------------------------------------------------------
(* Which words a command has, by its kind. *)
ZoneKindList ==
  {"Status", "Stats", "Reload", "Freeze", "Thaw", "Refresh", "Retransfer", "Notify", "Sync",
   "Flush", "FlushName", "FlushTree", "DumpDb"}
SigningKindList ==
  {"Trace", "NoTrace", "Reconfig", "Sign", "ShowZone", "Signing", "Validation", "AddZone",
   "ModZone", "DelZone"}
KeyKindList ==
  {"ManagedKeys", "ZoneStatus", "DnssecStatus", "LoadKeys", "NtaList", "NtaAdd", "NtaRemove",
   "DnssecCheckDs"}
ServerKindList ==
  {"DnssecRollover", "DnstapReopen", "Recursing", "Scan", "DnstapRoll", "FetchLimit", "Stop",
   "Halt", "SkrImport", "MemProf", "QueryLog", "ResponseLog", "ResetStats", "SecRoots",
   "ServeStale", "TcpTimeouts"}

LEMMA KindsListed ==
  /\ \A c \in ZoneCommands : c.kind \in ZoneKindList
  /\ \A c \in SigningCommands : c.kind \in SigningKindList
  /\ \A c \in KeyCommands : c.kind \in KeyKindList
  /\ \A c \in ServerCommands : c.kind \in ServerKindList
<1>1. \A c \in ZoneCommands : c.kind \in ZoneKindList
  BY DEF ZoneCommands, ZoneKindList
<1>2. \A c \in SigningCommands : c.kind \in SigningKindList
  BY DEF SigningCommands, SigningKindList
<1>3. \A c \in KeyCommands : c.kind \in KeyKindList
  BY DEF KeyCommands, KeyKindList
<1>4. \A c \in ServerCommands : c.kind \in ServerKindList
  BY DEF ServerCommands, ServerKindList
<1>5. QED
  BY <1>1, <1>2, <1>3, <1>4

LEMMA KindLists ==
  /\ ZoneKinds \subseteq ZoneKindList /\ SigningKinds \subseteq SigningKindList
  /\ KeyKinds \subseteq KeyKindList
  BY KindsListed DEF ZoneKinds, SigningKinds, KeyKinds

LEMMA ListsApart ==
  /\ SigningKindList \cap ZoneKindList = {}
  /\ KeyKindList \cap (ZoneKindList \cup SigningKindList) = {}
  /\ (ServerKindList \cup {"Raw"}) \cap (ZoneKindList \cup SigningKindList \cup KeyKindList) = {}
<1>1. SigningKindList \cap ZoneKindList = {}
  BY DEF SigningKindList, ZoneKindList
<1>2. KeyKindList \cap ZoneKindList = {}
  BY DEF KeyKindList, ZoneKindList
<1>3. KeyKindList \cap SigningKindList = {}
  BY DEF KeyKindList, SigningKindList
<1>4. (ServerKindList \cup {"Raw"}) \cap ZoneKindList = {}
  BY DEF ServerKindList, ZoneKindList
<1>5. (ServerKindList \cup {"Raw"}) \cap SigningKindList = {}
  BY DEF ServerKindList, SigningKindList
<1>6. (ServerKindList \cup {"Raw"}) \cap KeyKindList = {}
  BY DEF ServerKindList, KeyKindList
<1>7. QED
  BY <1>1, <1>2, <1>3, <1>4, <1>5, <1>6

LEMMA WordsByKind ==
  ASSUME NEW c
  PROVE  /\ c \in ZoneCommands => Words(c) = ZoneWords(c)
         /\ c \in SigningCommands => Words(c) = ControlWords(c)
         /\ c \in KeyCommands => Words(c) = KeyWords(c)
         /\ c \in ServerCommands \/ c.kind = "Raw" => Words(c) = ServerWords(c)
<1>1. c \in ZoneCommands => /\ c.kind \in ZoneKinds /\ c.kind \notin SigningKinds
                            /\ c.kind \notin KeyKinds
  BY KindsListed, KindLists, ListsApart DEF ZoneKinds
<1>2. c \in SigningCommands => /\ c.kind \in SigningKinds /\ c.kind \notin ZoneKinds
                               /\ c.kind \notin KeyKinds
  BY KindsListed, KindLists, ListsApart DEF SigningKinds
<1>3. c \in KeyCommands => /\ c.kind \in KeyKinds /\ c.kind \notin ZoneKinds
                           /\ c.kind \notin SigningKinds
  BY KindsListed, KindLists, ListsApart DEF KeyKinds
<1>4. c \in ServerCommands \/ c.kind = "Raw" =>
        c.kind \notin ZoneKinds /\ c.kind \notin SigningKinds /\ c.kind \notin KeyKinds
  BY KindsListed, KindLists, ListsApart
<1>5. c \in ZoneCommands => Words(c) = ZoneWords(c)
  BY <1>1 DEF Words
<1>6. c \in SigningCommands => Words(c) = ControlWords(c)
  BY <1>2 DEF Words
<1>7. c \in KeyCommands => Words(c) = KeyWords(c)
  BY <1>3 DEF Words
<1>8. c \in ServerCommands \/ c.kind = "Raw" => Words(c) = ServerWords(c)
  BY <1>4 DEF Words
<1>9. QED
  BY <1>5, <1>6, <1>7, <1>8

-----------------------------------------------------------------------------
(* A command read back from what named made of its words. *)
Stripped(c) == [f \in DOMAIN c \ {"target", "class"} |-> c[f]]

(* The kinds whose verb nothing else has, and their fields. *)
KindOf(v) ==
  CASE v = "status" -> "Status" [] v = "stats" -> "Stats" [] v = "reload" -> "Reload"
    [] v = "freeze" -> "Freeze" [] v = "thaw" -> "Thaw" [] v = "refresh" -> "Refresh"
    [] v = "retransfer" -> "Retransfer" [] v = "notify" -> "Notify" [] v = "sync" -> "Sync"
    [] v = "flush" -> "Flush" [] v = "flushname" -> "FlushName" [] v = "flushtree" -> "FlushTree"
    [] v = "dumpdb" -> "DumpDb" [] v = "trace" -> "Trace" [] v = "notrace" -> "NoTrace"
    [] v = "reconfig" -> "Reconfig" [] v = "sign" -> "Sign" [] v = "showzone" -> "ShowZone"
    [] v = "signing" -> "Signing" [] v = "validation" -> "Validation"
    [] v = "addzone" -> "AddZone" [] v = "modzone" -> "ModZone" [] v = "delzone" -> "DelZone"
    [] v = "managed-keys" -> "ManagedKeys" [] v = "zonestatus" -> "ZoneStatus"
    [] v = "loadkeys" -> "LoadKeys" [] v = "recursing" -> "Recursing" [] v = "scan" -> "Scan"
    [] v = "fetchlimit" -> "FetchLimit" [] v = "stop" -> "Stop" [] v = "halt" -> "Halt"
    [] v = "skr" -> "SkrImport" [] v = "memprof" -> "MemProf" [] v = "querylog" -> "QueryLog"
    [] v = "responselog" -> "ResponseLog" [] v = "reset-stats" -> "ResetStats"
    [] v = "secroots" -> "SecRoots" [] v = "serve-stale" -> "ServeStale"
    [] v = "tcp-timeouts" -> "TcpTimeouts"

BareVerbs == {"status", "stats", "reload", "freeze", "thaw", "refresh", "retransfer", "notify",
              "notrace", "reconfig", "sign", "showzone", "zonestatus", "loadkeys", "recursing",
              "scan"}
FirstOf(a) == IF a = <<>> THEN None ELSE a[1]

OperationOf(o) ==
  CASE o[1] = "-clear" /\ o[2] = "all" -> [is |-> "ClearAll"]
    [] o[1] = "-clear" /\ o[2] # "all" -> [is |-> "ClearKey", key |-> o[2]]
    [] o[1] = "-list" -> [is |-> "List"]
    [] o[1] = "-nsec3param" /\ o[2] = "none" -> [is |-> "Nsec3ParamNone"]
    [] o[1] = "-nsec3param" /\ o[2] # "none" ->
         [is |-> "Nsec3Param", hash |-> 1, flags |-> IF o[3] = "0" THEN 0 ELSE 1,
          iterations |-> 0, salt |-> "ab"]
    [] o[1] = "-serial" -> [is |-> "Serial", serial |-> 7]

(* The key and the moment of a key event. *)
KeyIn(o) ==
  IF Len(o) > 1 /\ o[2] = "-key"
  THEN [tag |-> 257, algorithm |-> IF Len(o) > 3 /\ o[4] = "-alg" THEN "13" ELSE None]
  ELSE None
WhenIn(o) == IF Len(o) > 1 /\ o[Len(o) - 1] = "-when" THEN o[Len(o)] ELSE None

(* The command, its scope aside, from the parts of its words. *)
Meaning(v, o, a, s) ==
  CASE v \in BareVerbs -> [kind |-> KindOf(v)]
    [] v \in {"sync", "delzone"} -> [kind |-> KindOf(v), clean |-> o # <<>>]
    [] v \in {"flush", "fetchlimit"} -> [kind |-> KindOf(v), view |-> s.view]
    [] v \in {"flushname", "flushtree"} -> [kind |-> KindOf(v), name |-> a[1], view |-> s.view]
    [] v = "dumpdb" -> [kind |-> KindOf(v), categories |-> o, views |-> Word(s.view)]
    [] v = "secroots" -> [kind |-> KindOf(v), views |-> Word(s.view)]
    [] v = "trace" -> [kind |-> KindOf(v), level |-> FirstOf(a)]
    [] v = "signing" -> [kind |-> KindOf(v), action |-> OperationOf(o)]
    [] v \in {"validation", "managed-keys"} ->
         [kind |-> KindOf(v), action |-> a[1], view |-> s.view]
    [] v = "serve-stale" -> [kind |-> KindOf(v), action |-> FirstOf(a), view |-> s.view]
    [] v \in {"addzone", "modzone"} -> [kind |-> KindOf(v), config |-> a[1]]
    [] v \in {"memprof", "querylog", "responselog"} -> [kind |-> KindOf(v), action |-> FirstOf(a)]
    [] v = "reset-stats" -> [kind |-> KindOf(v), counters |-> a]
    [] v = "tcp-timeouts" ->
         [kind |-> KindOf(v), values |-> IF a = <<>> THEN <<>> ELSE Timeouts]
    [] v \in {"stop", "halt"} -> [kind |-> KindOf(v), report_pid |-> o # <<>>]
    [] v = "skr" -> [kind |-> KindOf(v), file |-> o[2]]
    [] v = "nta" ->
         IF o = <<"-dump">> THEN [kind |-> "NtaList"]
         ELSE IF o = <<"-remove">> THEN [kind |-> "NtaRemove", domain |-> a[1], view |-> s.view]
         ELSE [kind |-> "NtaAdd", domain |-> a[1],
               lifetime |-> IF Len(o) > 1 THEN "60" ELSE None,
               force |-> o # <<>> /\ o[Len(o)] = "-force", view |-> s.view]
    [] v = "dnstap" ->
         IF o[1] = "-reopen" THEN [kind |-> "DnstapReopen"]
         ELSE [kind |-> "DnstapRoll", count |-> FirstOf(a)]
    [] v = "dnssec" ->
         IF o[1] = "-status" THEN [kind |-> "DnssecStatus"]
         ELSE IF o[1] = "-checkds"
         THEN [kind |-> "DnssecCheckDs", state |-> a[1], key |-> KeyIn(o), when |-> WhenIn(o)]
         ELSE [kind |-> "DnssecRollover", key |-> KeyIn(o), when |-> WhenIn(o)]

(* named reads the words as the command was meant. *)
Known(c) ==
  \E v, o, a : /\ v # "syntax error" /\ Parses(Words(c), v, o, a, Scope(c))
               /\ Stripped(c) = Meaning(v, o, a, Scope(c))

-----------------------------------------------------------------------------
(* Texts without options, or with one flag. *)
LEMMA FirstWord ==
  ASSUME NEW v, NEW r, IsSeq(r), NEW ws, ws = <<v>> \o r
  PROVE  /\ IsSeq(ws) /\ Len(ws) = 1 + Len(r) /\ ws[1] = v
         /\ \A i \in 1..Len(r) : ws[1 + i] = r[i]
<1>1. IsSeq(<<v>>) /\ Len(<<v>>) = 1 /\ <<v>>[1] = v
  BY SeqOne
<1>2. /\ IsSeq(ws) /\ Len(ws) = 1 + Len(r) /\ \A i \in 1..1 : ws[i] = <<v>>[i]
      /\ \A i \in 1..Len(r) : ws[1 + i] = r[i]
  BY <1>1, SeqConcat
<1>3. ws[1] = v
  BY <1>1, <1>2
<1>4. QED
  BY <1>2, <1>3

LEMMA OptionsAre ==
  ASSUME NEW F, NEW V
  PROVE  /\ DOMAIN Options(F, V) = F \cup V /\ IsOptions(Options(F, V))
         /\ \A x \in F \cup V : Options(F, V)[x] = IF x \in V THEN 1 ELSE 0
  BY DEF Options, IsOptions

LEMMA FlagsAre ==
  ASSUME NEW F
  PROVE  /\ DOMAIN Options(F, {}) = F /\ IsOptions(Options(F, {}))
         /\ \A x \in F : Options(F, {})[x] = 0
  BY DEF Options, IsOptions

LEMMA PlainSplit ==
  ASSUME NEW ws, NEW v, NEW a, NEW t, NEW scope, IsSeq(a), IsSeq(t), ws = <<v>> \o (a \o t),
         RuleFor(ws) = Rule(NoOptions, Len(a), scope)
  PROVE  Splits(ws, v, <<>>, a, t, NoOptions, scope)
<1>1. DOMAIN NoOptions = {} /\ IsOptions(NoOptions)
  BY FlagsAre DEF NoOptions
<1>2. IsSeq(a \o t) /\ <<>> \o (a \o t) = a \o t
  BY SeqConcat, SeqConcatEmpty
<1>3. Run(NoOptions, <<>>)
  BY RunNone
<1>4. Stops(NoOptions, a \o t)
  BY <1>1, <1>2 DEF Stops
<1>5. QED
  BY <1>1, <1>2, <1>3, <1>4 DEF Splits

LEMMA FlagSplit ==
  ASSUME NEW ws, NEW v, NEW F, NEW o, NEW t, NEW scope, o \in AtMostOne(F), IsSeq(t),
         t = <<>> \/ t[1] \notin F, ws = <<v>> \o (o \o t),
         RuleFor(ws) = Rule(Options(F, {}), 0, scope)
  PROVE  Splits(ws, v, o, <<>>, t, Options(F, {}), scope)
<1>1. /\ DOMAIN Options(F, {}) = F /\ IsOptions(Options(F, {}))
      /\ \A x \in F : Options(F, {})[x] = 0
  BY FlagsAre
<1>2. IsSeq(<<>>) /\ Len(<<>>) = 0 /\ <<>> \o t = t
  BY SeqEmpty, SeqConcatEmpty
<1>3. Stops(Options(F, {}), <<>> \o t)
  BY <1>1, <1>2 DEF Stops
<1>4. Run(Options(F, {}), o)
  <2>1. CASE o = <<>>
    BY <2>1, RunNone
  <2>2. CASE o # <<>>
    <3>1. IsSeq(o) /\ Len(o) = 1 /\ o[1] \in F
      BY <2>2, AtMostOneWords
    <3>2. Len(o) = 1 + Options(F, {})[o[1]]
      BY <1>1, <3>1
    <3>3. QED
      BY <1>1, <2>2, <3>1, <3>2, RunOption
  <2>3. QED
    BY <2>1, <2>2
<1>5. QED
  BY <1>1, <1>2, <1>3, <1>4 DEF Splits

-----------------------------------------------------------------------------
(* The commands with a verb and a zone. *)
ZoneVerbs == {"reload", "refresh", "retransfer", "freeze", "thaw", "notify", "sign", "showzone",
              "zonestatus", "loadkeys"}

LEMMA ZoneRule ==
  ASSUME NEW ws, ws[1] \in ZoneVerbs
  PROVE  RuleFor(ws) = Rule(NoOptions, 0, "zone")
  BY DEF RuleFor, ZoneVerbs

LEMMA KnownBareZone ==
  ASSUME NEW c, NEW v \in ZoneVerbs, DOMAIN c = {"kind", "target"},
         c = [f \in DOMAIN c |-> c[f]], c.target \in Targets \cup {None},
         Words(c) = <<v>> \o MaybeArgs(c.target), KindOf(v) = c.kind
  PROVE  Known(c)
<1>1. PICK t : t = MaybeArgs(c.target)
  OBVIOUS
<1>2. IsScope(t) /\ Scope(c) = ScopeOf(t)
  BY <1>1, MaybeTargetWords, MaybeTargetScope
<1>3. PICK ws : ws = Words(c)
  OBVIOUS
<1>4. ws[1] = v /\ IsSeq(t)
  BY <1>1, <1>2, <1>3, FirstWord DEF IsScope
<1>5. RuleFor(ws) = Rule(NoOptions, 0, "zone") /\ IsSeq(<<>>) /\ Len(<<>>) = 0 /\ <<>> \o t = t
  BY <1>4, ZoneRule, SeqEmpty, SeqConcatEmpty
<1>6. Splits(ws, v, <<>>, <<>>, t, NoOptions, "zone")
  BY <1>1, <1>3, <1>4, <1>5, PlainSplit
<1>7. Parses(Words(c), v, <<>>, <<>>, Scope(c))
  BY <1>2, <1>3, <1>6, ParsedZone DEF IsScope
<1>8. Stripped(c) = [kind |-> c.kind]
  BY DEF Stripped
<1>9. Meaning(v, <<>>, <<>>, Scope(c)) = [kind |-> KindOf(v)]
  BY DEF Meaning, ZoneVerbs, BareVerbs
<1>10. v # "syntax error"
  BY DEF ZoneVerbs
<1>11. QED
  BY <1>7, <1>8, <1>9, <1>10 DEF Known

LEMMA KnownMaybeZone ==
  ASSUME NEW c \in [kind : {"Reload", "Freeze", "Thaw"}, target : Targets \cup {None}]
  PROVE  Known(c)
<1>1. Words(c) = ZoneWords(c)
  <2>1. c \in ZoneCommands
    BY DEF ZoneCommands
  <2>2. QED
    BY <2>1, WordsByKind
<1>2. DOMAIN c = {"kind", "target"} /\ c = [f \in DOMAIN c |-> c[f]]
      /\ c.target \in Targets \cup {None}
  OBVIOUS
<1>3. CASE c.kind = "Reload"
  <2>1. ZoneWords(c) = <<"reload">> \o MaybeArgs(c.target)
    BY <1>3 DEF ZoneWords
  <2>2. KindOf("reload") = c.kind /\ "reload" \in ZoneVerbs
    BY <1>3 DEF KindOf, ZoneVerbs
  <2>3. QED
    BY <1>1, <1>2, <2>1, <2>2, KnownBareZone
<1>4. CASE c.kind = "Freeze"
  <2>1. ZoneWords(c) = <<"freeze">> \o MaybeArgs(c.target)
    BY <1>4 DEF ZoneWords
  <2>2. KindOf("freeze") = c.kind /\ "freeze" \in ZoneVerbs
    BY <1>4 DEF KindOf, ZoneVerbs
  <2>3. QED
    BY <1>1, <1>2, <2>1, <2>2, KnownBareZone
<1>5. CASE c.kind = "Thaw"
  <2>1. ZoneWords(c) = <<"thaw">> \o MaybeArgs(c.target)
    BY <1>5 DEF ZoneWords
  <2>2. KindOf("thaw") = c.kind /\ "thaw" \in ZoneVerbs
    BY <1>5 DEF KindOf, ZoneVerbs
  <2>3. QED
    BY <1>1, <1>2, <2>1, <2>2, KnownBareZone
<1>6. QED
  BY <1>3, <1>4, <1>5

LEMMA KnownRefresh ==
  ASSUME NEW c \in [kind : {"Refresh", "Retransfer", "Notify"}, target : Targets]
  PROVE  Known(c)
<1>1. Words(c) = ZoneWords(c)
  <2>1. c \in ZoneCommands
    BY DEF ZoneCommands
  <2>2. QED
    BY <2>1, WordsByKind
<1>2. DOMAIN c = {"kind", "target"} /\ c = [f \in DOMAIN c |-> c[f]]
      /\ c.target \in Targets \cup {None} /\ MaybeArgs(c.target) = CommandArgs(c.target)
  BY NameIsNone DEF MaybeArgs
<1>3. CASE c.kind = "Refresh"
  <2>1. Words(c) = <<"refresh">> \o MaybeArgs(c.target)
    BY <1>1, <1>3, <1>2 DEF ZoneWords
  <2>2. KindOf("refresh") = c.kind /\ "refresh" \in ZoneVerbs
    BY <1>3 DEF KindOf, ZoneVerbs
  <2>3. QED
    BY <1>2, <2>1, <2>2, KnownBareZone
<1>4. CASE c.kind = "Retransfer"
  <2>1. Words(c) = <<"retransfer">> \o MaybeArgs(c.target)
    BY <1>1, <1>4, <1>2 DEF ZoneWords
  <2>2. KindOf("retransfer") = c.kind /\ "retransfer" \in ZoneVerbs
    BY <1>4 DEF KindOf, ZoneVerbs
  <2>3. QED
    BY <1>2, <2>1, <2>2, KnownBareZone
<1>5. CASE c.kind = "Notify"
  <2>1. Words(c) = <<"notify">> \o MaybeArgs(c.target)
    BY <1>1, <1>5, <1>2 DEF ZoneWords
  <2>2. KindOf("notify") = c.kind /\ "notify" \in ZoneVerbs
    BY <1>5 DEF KindOf, ZoneVerbs
  <2>3. QED
    BY <1>2, <2>1, <2>2, KnownBareZone
<1>6. QED
  BY <1>3, <1>4, <1>5

LEMMA KnownSign ==
  ASSUME NEW c \in [kind : {"Sign", "ShowZone"}, target : Targets]
  PROVE  Known(c)
<1>1. Words(c) = ControlWords(c)
  <2>1. c \in SigningCommands
    BY DEF SigningCommands
  <2>2. QED
    BY <2>1, WordsByKind
<1>2. DOMAIN c = {"kind", "target"} /\ c = [f \in DOMAIN c |-> c[f]]
      /\ c.target \in Targets \cup {None} /\ MaybeArgs(c.target) = CommandArgs(c.target)
  BY NameIsNone DEF MaybeArgs
<1>3. CASE c.kind = "Sign"
  <2>1. Words(c) = <<"sign">> \o MaybeArgs(c.target)
    BY <1>1, <1>3, <1>2 DEF ControlWords
  <2>2. KindOf("sign") = c.kind /\ "sign" \in ZoneVerbs
    BY <1>3 DEF KindOf, ZoneVerbs
  <2>3. QED
    BY <1>2, <2>1, <2>2, KnownBareZone
<1>4. CASE c.kind = "ShowZone"
  <2>1. Words(c) = <<"showzone">> \o MaybeArgs(c.target)
    BY <1>1, <1>4, <1>2 DEF ControlWords
  <2>2. KindOf("showzone") = c.kind /\ "showzone" \in ZoneVerbs
    BY <1>4 DEF KindOf, ZoneVerbs
  <2>3. QED
    BY <1>2, <2>1, <2>2, KnownBareZone
<1>5. QED
  BY <1>3, <1>4

LEMMA KnownZoneStatus ==
  ASSUME NEW c \in [kind : {"ZoneStatus", "LoadKeys"}, target : Targets]
  PROVE  Known(c)
<1>1. Words(c) = KeyWords(c)
  <2>1. c \in KeyCommands
    BY DEF KeyCommands
  <2>2. QED
    BY <2>1, WordsByKind
<1>2. DOMAIN c = {"kind", "target"} /\ c = [f \in DOMAIN c |-> c[f]]
      /\ c.target \in Targets \cup {None} /\ MaybeArgs(c.target) = CommandArgs(c.target)
  BY NameIsNone DEF MaybeArgs
<1>3. CASE c.kind = "ZoneStatus"
  <2>1. Words(c) = <<"zonestatus">> \o MaybeArgs(c.target)
    BY <1>1, <1>3, <1>2 DEF KeyWords
  <2>2. KindOf("zonestatus") = c.kind /\ "zonestatus" \in ZoneVerbs
    BY <1>3 DEF KindOf, ZoneVerbs
  <2>3. QED
    BY <1>2, <2>1, <2>2, KnownBareZone
<1>4. CASE c.kind = "LoadKeys"
  <2>1. Words(c) = <<"loadkeys">> \o MaybeArgs(c.target)
    BY <1>1, <1>4, <1>2 DEF KeyWords
  <2>2. KindOf("loadkeys") = c.kind /\ "loadkeys" \in ZoneVerbs
    BY <1>4 DEF KindOf, ZoneVerbs
  <2>3. QED
    BY <1>2, <2>1, <2>2, KnownBareZone
<1>5. QED
  BY <1>3, <1>4

(* A verb, and nothing else. *)
BareWords == {"status", "stats", "notrace", "reconfig", "recursing", "scan"}

LEMMA KnownBare ==
  ASSUME NEW c, NEW v \in BareWords, DOMAIN c = {"kind"}, c = [f \in DOMAIN c |-> c[f]],
         Words(c) = <<v>>, KindOf(v) = c.kind
  PROVE  Known(c) /\ Understand(Words(c)).verb = v
<1>1. PICK ws : ws = Words(c)
  OBVIOUS
<1>2. ws = <<v>> \o (<<>> \o <<>>) /\ <<>> \o <<>> = <<>> /\ IsSeq(<<>>) /\ Len(<<>>) = 0
  BY <1>1, SeqOne, SeqEmpty, SeqConcatEmpty
<1>3. ws[1] = v
  BY <1>1, SeqOne
<1>4. RuleFor(ws) = Rule(NoOptions, 0, "none")
  BY <1>3 DEF RuleFor, BareWords
<1>5. Splits(ws, v, <<>>, <<>>, <<>>, NoOptions, "none")
  BY <1>2, <1>4, PlainSplit
<1>6. Parses(Words(c), v, <<>>, <<>>, NoScope)
  BY <1>1, <1>5, ParsedNone
<1>7. Scope(c) = NoScope
  BY Scopeless
<1>8. Stripped(c) = [kind |-> c.kind]
  BY DEF Stripped
<1>9. Meaning(v, <<>>, <<>>, Scope(c)) = [kind |-> KindOf(v)]
  BY DEF Meaning, BareWords, BareVerbs
<1>10. v # "syntax error"
  BY DEF BareWords
<1>11. Known(c)
  BY <1>6, <1>7, <1>8, <1>9, <1>10 DEF Known
<1>12. QED
  BY <1>6, <1>11 DEF Parses

LEMMA KnownStatus ==
  ASSUME NEW c \in [kind : {"Status", "Stats"}]
  PROVE  Known(c)
<1>1. Words(c) = ZoneWords(c)
  <2>1. c \in ZoneCommands
    BY DEF ZoneCommands
  <2>2. QED
    BY <2>1, WordsByKind
<1>2. DOMAIN c = {"kind"} /\ c = [f \in DOMAIN c |-> c[f]]
  OBVIOUS
<1>3. CASE c.kind = "Status"
  <2>1. Words(c) = <<"status">>
    BY <1>1, <1>3 DEF ZoneWords
  <2>2. KindOf("status") = c.kind /\ "status" \in BareWords
    BY <1>3 DEF KindOf, BareWords
  <2>3. QED
    BY <1>2, <2>1, <2>2, KnownBare
<1>4. CASE c.kind = "Stats"
  <2>1. Words(c) = <<"stats">>
    BY <1>1, <1>4 DEF ZoneWords
  <2>2. KindOf("stats") = c.kind /\ "stats" \in BareWords
    BY <1>4 DEF KindOf, BareWords
  <2>3. QED
    BY <1>2, <2>1, <2>2, KnownBare
<1>5. QED
  BY <1>3, <1>4

LEMMA KnownNoTrace ==
  ASSUME NEW c \in [kind : {"NoTrace", "Reconfig"}]
  PROVE  Known(c)
<1>1. Words(c) = ControlWords(c)
  <2>1. c \in SigningCommands
    BY DEF SigningCommands
  <2>2. QED
    BY <2>1, WordsByKind
<1>2. DOMAIN c = {"kind"} /\ c = [f \in DOMAIN c |-> c[f]]
  OBVIOUS
<1>3. CASE c.kind = "NoTrace"
  <2>1. Words(c) = <<"notrace">>
    BY <1>1, <1>3 DEF ControlWords
  <2>2. KindOf("notrace") = c.kind /\ "notrace" \in BareWords
    BY <1>3 DEF KindOf, BareWords
  <2>3. QED
    BY <1>2, <2>1, <2>2, KnownBare
<1>4. CASE c.kind = "Reconfig"
  <2>1. Words(c) = <<"reconfig">>
    BY <1>1, <1>4 DEF ControlWords
  <2>2. KindOf("reconfig") = c.kind /\ "reconfig" \in BareWords
    BY <1>4 DEF KindOf, BareWords
  <2>3. QED
    BY <1>2, <2>1, <2>2, KnownBare
<1>5. QED
  BY <1>3, <1>4

LEMMA KnownScan ==
  ASSUME NEW c \in [kind : {"Recursing", "Scan"}]
  PROVE  Known(c)
<1>1. Words(c) = ServerWords(c)
  <2>1. c \in ServerCommands
    BY DEF ServerCommands
  <2>2. QED
    BY <2>1, WordsByKind
<1>2. DOMAIN c = {"kind"} /\ c = [f \in DOMAIN c |-> c[f]]
  OBVIOUS
<1>3. CASE c.kind = "Recursing"
  <2>1. Words(c) = <<"recursing">>
    BY <1>1, <1>3 DEF ServerWords
  <2>2. KindOf("recursing") = c.kind /\ "recursing" \in BareWords
    BY <1>3 DEF KindOf, BareWords
  <2>3. QED
    BY <1>2, <2>1, <2>2, KnownBare
<1>4. CASE c.kind = "Scan"
  <2>1. Words(c) = <<"scan">>
    BY <1>1, <1>4 DEF ServerWords
  <2>2. KindOf("scan") = c.kind /\ "scan" \in BareWords
    BY <1>4 DEF KindOf, BareWords
  <2>3. QED
    BY <1>2, <2>1, <2>2, KnownBare
<1>5. QED
  BY <1>3, <1>4

-----------------------------------------------------------------------------
(* The commands with a flag. *)
LEMMA FlagIs ==
  ASSUME NEW on \in BOOLEAN, NEW w
  PROVE  Flag(on, w) \in AtMostOne({w}) /\ IsSeq(Flag(on, w)) /\ (Flag(on, w) # <<>>) = on
<1>1. CASE on = TRUE
  <2>1. Flag(on, w) = <<w>>
    BY <1>1 DEF Flag
  <2>2. IsSeq(<<w>>) /\ Len(<<w>>) = 1
    BY SeqOne
  <2>3. <<w>> # <<>>
    BY <2>2, SeqEmpty
  <2>4. QED
    BY <1>1, <2>1, <2>2, <2>3 DEF AtMostOne
<1>2. CASE on = FALSE
  <2>1. Flag(on, w) = <<>>
    BY <1>2 DEF Flag
  <2>2. QED
    BY <1>2, <2>1, SeqEmpty DEF AtMostOne
<1>3. QED
  BY <1>1, <1>2

LEMMA KnownCleaning ==
  ASSUME NEW c, NEW v \in {"sync", "delzone"}, DOMAIN c = {"kind", "clean", "target"},
         c = [f \in DOMAIN c |-> c[f]], c.clean \in BOOLEAN, c.target \in Targets \cup {None},
         Words(c) = (<<v>> \o Flag(c.clean, "-clean")) \o MaybeArgs(c.target),
         KindOf(v) = c.kind
  PROVE  Known(c)
<1>1. PICK o, t : o = Flag(c.clean, "-clean") /\ t = MaybeArgs(c.target)
  OBVIOUS
<1>2. /\ IsScope(t) /\ Scope(c) = ScopeOf(t) /\ IsSeq(t)
      /\ t = <<>> \/ t[1] \notin {"-clean"}
  BY <1>1, MaybeTargetWords, MaybeTargetScope, NameIsNone DEF IsScope, OptionWords
<1>3. o \in AtMostOne({"-clean"}) /\ IsSeq(o) /\ (o # <<>>) = c.clean
  BY <1>1, FlagIs
<1>4. PICK ws : ws = Words(c)
  OBVIOUS
<1>5. ws = <<v>> \o (o \o t)
  BY <1>1, <1>2, <1>3, <1>4, SeqOne, SeqConcatThree
<1>6. ws[1] = v
  BY <1>2, <1>3, <1>5, SeqConcat, FirstWord
<1>7. RuleFor(ws) = Rule(Options({"-clean"}, {}), 0, "zone")
  BY <1>6 DEF RuleFor
<1>8. Splits(ws, v, o, <<>>, t, Options({"-clean"}, {}), "zone")
  BY <1>2, <1>3, <1>5, <1>7, FlagSplit
<1>9. Parses(Words(c), v, o, <<>>, Scope(c))
  BY <1>2, <1>4, <1>8, ParsedZone DEF IsScope
<1>10. Stripped(c) = [kind |-> c.kind, clean |-> c.clean]
  BY DEF Stripped
<1>11. Meaning(v, o, <<>>, Scope(c)) = [kind |-> KindOf(v), clean |-> o # <<>>]
  BY DEF Meaning, BareVerbs
<1>12. v # "syntax error"
  OBVIOUS
<1>13. QED
  BY <1>3, <1>9, <1>10, <1>11, <1>12 DEF Known

LEMMA KnownSync ==
  ASSUME NEW c \in [kind : {"Sync"}, clean : BOOLEAN, target : Targets \cup {None}]
  PROVE  Known(c)
<1>1. Words(c) = ZoneWords(c)
  <2>1. c \in ZoneCommands
    BY DEF ZoneCommands
  <2>2. QED
    BY <2>1, WordsByKind
<1>2. DOMAIN c = {"kind", "clean", "target"} /\ c = [f \in DOMAIN c |-> c[f]]
      /\ c.clean \in BOOLEAN /\ c.target \in Targets \cup {None} /\ c.kind = "Sync"
  OBVIOUS
<1>3. Words(c) = (<<"sync">> \o Flag(c.clean, "-clean")) \o MaybeArgs(c.target)
  BY <1>1, <1>2 DEF ZoneWords
<1>4. KindOf("sync") = "Sync"
  BY DEF KindOf
<1>5. QED
  BY <1>2, <1>3, <1>4, KnownCleaning

LEMMA KnownDelZone ==
  ASSUME NEW c \in [kind : {"DelZone"}, target : Targets, clean : BOOLEAN]
  PROVE  Known(c)
<1>1. Words(c) = ControlWords(c)
  <2>1. c \in SigningCommands
    BY DEF SigningCommands
  <2>2. QED
    BY <2>1, WordsByKind
<1>2. DOMAIN c = {"kind", "clean", "target"} /\ c = [f \in DOMAIN c |-> c[f]]
      /\ c.clean \in BOOLEAN /\ c.target \in Targets \cup {None} /\ c.kind = "DelZone"
  OBVIOUS
<1>3. MaybeArgs(c.target) = CommandArgs(c.target)
  BY NameIsNone DEF MaybeArgs
<1>4. Words(c) = (<<"delzone">> \o Flag(c.clean, "-clean")) \o MaybeArgs(c.target)
  BY <1>1, <1>2, <1>3 DEF ControlWords
<1>5. KindOf("delzone") = "DelZone"
  BY DEF KindOf
<1>6. QED
  BY <1>2, <1>4, <1>5, KnownCleaning

LEMMA KnownEnding ==
  ASSUME NEW c, NEW v \in {"stop", "halt"}, DOMAIN c = {"kind", "report_pid"},
         c = [f \in DOMAIN c |-> c[f]], c.report_pid \in BOOLEAN,
         Words(c) = <<v>> \o Flag(c.report_pid, "-p"), KindOf(v) = c.kind
  PROVE  Known(c)
<1>1. PICK o : o = Flag(c.report_pid, "-p")
  OBVIOUS
<1>2. o \in AtMostOne({"-p"}) /\ IsSeq(o) /\ (o # <<>>) = c.report_pid
  BY <1>1, FlagIs
<1>3. PICK ws : ws = Words(c)
  OBVIOUS
<1>4. ws = <<v>> \o (o \o <<>>)
  BY <1>1, <1>2, <1>3, SeqConcatEmpty
<1>5. ws[1] = v
  BY <1>1, <1>2, <1>3, FirstWord
<1>6. RuleFor(ws) = Rule(Options({"-p"}, {}), 0, "none")
  BY <1>5 DEF RuleFor
<1>7. Splits(ws, v, o, <<>>, <<>>, Options({"-p"}, {}), "none")
  BY <1>2, <1>4, <1>6, SeqEmpty, FlagSplit
<1>8. Scope(c) = NoScope
  BY Scopeless
<1>9. Parses(Words(c), v, o, <<>>, Scope(c))
  BY <1>3, <1>7, <1>8, ParsedNone
<1>10. Stripped(c) = [kind |-> c.kind, report_pid |-> c.report_pid]
  BY DEF Stripped
<1>11. Meaning(v, o, <<>>, Scope(c)) = [kind |-> KindOf(v), report_pid |-> o # <<>>]
  BY DEF Meaning, BareVerbs
<1>12. v # "syntax error"
  OBVIOUS
<1>13. QED
  BY <1>2, <1>9, <1>10, <1>11, <1>12 DEF Known

LEMMA KnownStop ==
  ASSUME NEW c \in [kind : {"Stop", "Halt"}, report_pid : BOOLEAN]
  PROVE  Known(c)
<1>1. Words(c) = ServerWords(c)
  <2>1. c \in ServerCommands
    BY DEF ServerCommands
  <2>2. QED
    BY <2>1, WordsByKind
<1>2. DOMAIN c = {"kind", "report_pid"} /\ c = [f \in DOMAIN c |-> c[f]]
      /\ c.report_pid \in BOOLEAN
  OBVIOUS
<1>3. CASE c.kind = "Stop"
  <2>1. Words(c) = <<"stop">> \o Flag(c.report_pid, "-p")
    BY <1>1, <1>3 DEF ServerWords
  <2>2. KindOf("stop") = c.kind /\ "stop" \in {"stop", "halt"}
    BY <1>3 DEF KindOf
  <2>3. QED
    BY <1>2, <2>1, <2>2, KnownEnding
<1>4. CASE c.kind = "Halt"
  <2>1. Words(c) = <<"halt">> \o Flag(c.report_pid, "-p")
    BY <1>1, <1>4 DEF ServerWords
  <2>2. KindOf("halt") = c.kind /\ "halt" \in {"stop", "halt"}
    BY <1>4 DEF KindOf
  <2>3. QED
    BY <1>2, <2>1, <2>2, KnownEnding
<1>5. QED
  BY <1>3, <1>4

LEMMA KnownDump ==
  ASSUME NEW c \in [kind : {"DumpDb"}, categories : {<<>>} \cup {<<x>> : x \in Categories},
                   views : {<<>>} \cup {<<x>> : x \in Views}]
  PROVE  Known(c)
<1>1. Words(c) = ZoneWords(c)
  <2>1. c \in ZoneCommands
    BY DEF ZoneCommands
  <2>2. QED
    BY <2>1, WordsByKind
<1>2. PICK v, o, t : v = "dumpdb" /\ o = c.categories /\ t = c.views
  OBVIOUS
<1>3. o \in AtMostOne(Categories) /\ t \in AtMostOne(Views) /\ c.kind = "DumpDb"
  BY <1>2 DEF AtMostOne
<1>4. IsSeq(o) /\ IsSeq(t) /\ ~(Len(t) > 1) /\ (t = <<>> \/ t[1] \in Views)
  BY <1>3, AtMostOneWords
<1>5. t = <<>> \/ t[1] \notin Categories
  BY <1>4, NameIsNone DEF OptionWords, Categories
<1>6. PICK ws : ws = Words(c)
  OBVIOUS
<1>7. ws = (<<v>> \o o) \o t
  BY <1>1, <1>2, <1>3, <1>6 DEF ZoneWords
<1>8. ws = <<v>> \o (o \o t)
  BY <1>4, <1>7, SeqOne, SeqConcatThree
<1>9. ws[1] = v
  BY <1>4, <1>8, SeqConcat, FirstWord
<1>10. RuleFor(ws) = Rule(Options(Categories, {}), 0, "view")
  BY <1>2, <1>9 DEF RuleFor
<1>11. Splits(ws, v, o, <<>>, t, Options(Categories, {}), "view")
  BY <1>3, <1>4, <1>5, <1>8, <1>10, FlagSplit
<1>12. DOMAIN c \cap {"target", "class", "view"} = {} /\ "views" \in DOMAIN c
  OBVIOUS
<1>13. Scope(c) = ViewOf(t) /\ t = Word(Scope(c).view)
  BY <1>2, <1>3, <1>12, ViewsScope
<1>14. Parses(Words(c), v, o, <<>>, Scope(c))
  BY <1>4, <1>6, <1>11, <1>13, ParsedView DEF ViewOf
<1>15. Stripped(c) = [kind |-> "DumpDb", categories |-> o, views |-> t]
  BY <1>2, <1>3 DEF Stripped
<1>16. Meaning(v, o, <<>>, Scope(c))
         = [kind |-> KindOf(v), categories |-> o, views |-> Word(Scope(c).view)]
  BY <1>2 DEF Meaning, BareVerbs
<1>17. KindOf(v) = "DumpDb" /\ v # "syntax error"
  BY <1>2 DEF KindOf
<1>18. QED
  BY <1>13, <1>14, <1>15, <1>16, <1>17 DEF Known

-----------------------------------------------------------------------------
(* The commands with a view. *)
LEMMA KnownView ==
  ASSUME NEW c, NEW v \in {"flush", "fetchlimit"}, DOMAIN c = {"kind", "view"},
         c = [f \in DOMAIN c |-> c[f]], c.view \in Maybe(Views),
         Words(c) = <<v>> \o Word(c.view), KindOf(v) = c.kind
  PROVE  Known(c)
<1>1. PICK t : t = Word(c.view)
  OBVIOUS
<1>2. /\ IsSeq(t) /\ ~(Len(t) > 1) /\ Scope(c) = ViewOf(t)
      /\ ViewOf(t) = [zone |-> None, class |-> "IN", view |-> c.view]
  BY <1>1, ViewWords, ViewScope
<1>3. PICK ws : ws = Words(c)
  OBVIOUS
<1>4. ws[1] = v
  BY <1>1, <1>2, <1>3, FirstWord
<1>5. RuleFor(ws) = Rule(NoOptions, 0, "view")
  BY <1>4 DEF RuleFor
<1>6. IsSeq(<<>>) /\ Len(<<>>) = 0 /\ <<>> \o t = t
  BY <1>2, SeqEmpty, SeqConcatEmpty
<1>7. Splits(ws, v, <<>>, <<>>, t, NoOptions, "view")
  BY <1>1, <1>2, <1>3, <1>5, <1>6, PlainSplit
<1>8. Parses(Words(c), v, <<>>, <<>>, Scope(c))
  BY <1>2, <1>3, <1>7, ParsedView DEF ViewOf
<1>9. Stripped(c) = [kind |-> c.kind, view |-> c.view]
  BY DEF Stripped
<1>10. Meaning(v, <<>>, <<>>, Scope(c)) = [kind |-> KindOf(v), view |-> Scope(c).view]
  BY DEF Meaning, BareVerbs
<1>11. Scope(c).view = c.view
  BY <1>2
<1>12. v # "syntax error"
  OBVIOUS
<1>13. QED
  BY <1>8, <1>9, <1>10, <1>11, <1>12 DEF Known

LEMMA KnownFlush ==
  ASSUME NEW c \in [kind : {"Flush"}, view : Maybe(Views)]
  PROVE  Known(c)
<1>1. Words(c) = ZoneWords(c)
  <2>1. c \in ZoneCommands
    BY DEF ZoneCommands
  <2>2. QED
    BY <2>1, WordsByKind
<1>2. DOMAIN c = {"kind", "view"} /\ c = [f \in DOMAIN c |-> c[f]] /\ c.view \in Maybe(Views)
      /\ c.kind = "Flush"
  OBVIOUS
<1>3. Words(c) = <<"flush">> \o Word(c.view)
  BY <1>1, <1>2 DEF ZoneWords
<1>4. KindOf("flush") = "Flush"
  BY DEF KindOf
<1>5. QED
  BY <1>2, <1>3, <1>4, KnownView

LEMMA KnownFetchLimit ==
  ASSUME NEW c \in [kind : {"FetchLimit"}, view : Maybe(Views)]
  PROVE  Known(c)
<1>1. Words(c) = ServerWords(c)
  <2>1. c \in ServerCommands
    BY DEF ServerCommands
  <2>2. QED
    BY <2>1, WordsByKind
<1>2. DOMAIN c = {"kind", "view"} /\ c = [f \in DOMAIN c |-> c[f]] /\ c.view \in Maybe(Views)
      /\ c.kind = "FetchLimit"
  OBVIOUS
<1>3. Words(c) = <<"fetchlimit">> \o Word(c.view)
  BY <1>1, <1>2 DEF ServerWords
<1>4. KindOf("fetchlimit") = "FetchLimit"
  BY DEF KindOf
<1>5. QED
  BY <1>2, <1>3, <1>4, KnownView

(* A view after one argument. *)
OneThenView(c, v, x) ==
  /\ v \in {"flushname", "flushtree", "validation"}
  /\ DOMAIN c \cap {"target", "class"} = {} /\ "view" \in DOMAIN c /\ c.view \in Maybe(Views)
  /\ Words(c) = <<v, x>> \o Word(c.view)

LEMMA ViewAfter ==
  ASSUME NEW c, NEW v, NEW x, OneThenView(c, v, x)
  PROVE  \E a : Parses(Words(c), v, <<>>, a, Scope(c)) /\ a[1] = x /\ Scope(c).view = c.view
<1>1. PICK t, a : t = Word(c.view) /\ a = <<x>>
  OBVIOUS
<1>2. /\ IsSeq(t) /\ ~(Len(t) > 1) /\ Scope(c) = ViewOf(t)
      /\ ViewOf(t) = [zone |-> None, class |-> "IN", view |-> c.view]
  BY <1>1, ViewWords, ViewScope DEF OneThenView
<1>3. IsSeq(a) /\ Len(a) = 1 /\ a[1] = x /\ IsSeq(<<v>>)
  BY <1>1, SeqOne
<1>4. PICK ws : ws = Words(c)
  OBVIOUS
<1>5. ws = <<v>> \o (a \o t)
  <2>1. ws = (<<v>> \o a) \o t
    BY <1>1, <1>4, OneAndOne DEF OneThenView
  <2>2. QED
    BY <1>2, <1>3, <2>1, SeqConcatThree
<1>6. ws[1] = v
  BY <1>2, <1>3, <1>5, SeqConcat, FirstWord
<1>7. RuleFor(ws) = Rule(NoOptions, 1, "view")
  BY <1>6 DEF RuleFor, OneThenView
<1>8. Splits(ws, v, <<>>, a, t, NoOptions, "view")
  BY <1>2, <1>3, <1>5, <1>7, PlainSplit
<1>9. Parses(ws, v, <<>>, a, Scope(c))
  BY <1>2, <1>8, ParsedView DEF ViewOf
<1>10. Scope(c).view = c.view
  BY <1>2
<1>11. QED
  BY <1>3, <1>4, <1>9, <1>10

LEMMA KnownFlushing ==
  ASSUME NEW c, NEW v \in {"flushname", "flushtree"}, DOMAIN c = {"kind", "name", "view"},
         c = [f \in DOMAIN c |-> c[f]], c.view \in Maybe(Views),
         Words(c) = <<v, c.name>> \o Word(c.view), KindOf(v) = c.kind
  PROVE  Known(c)
<1>1. PICK x : x = c.name
  OBVIOUS
<1>2. PICK a : Parses(Words(c), v, <<>>, a, Scope(c)) /\ a[1] = x /\ Scope(c).view = c.view
  <2>1. v \in {"flushname", "flushtree", "validation"}
    OBVIOUS
  <2>2. DOMAIN c \cap {"target", "class"} = {} /\ "view" \in DOMAIN c
    OBVIOUS
  <2>3. Words(c) = <<v, x>> \o Word(c.view) /\ c.view \in Maybe(Views)
    BY <1>1
  <2>4. OneThenView(c, v, x)
    BY <2>1, <2>2, <2>3 DEF OneThenView
  <2>5. QED
    BY <2>4, ViewAfter
<1>4. Stripped(c) = [kind |-> c.kind, name |-> x, view |-> c.view]
  BY <1>1 DEF Stripped
<1>5. Meaning(v, <<>>, a, Scope(c)) = [kind |-> KindOf(v), name |-> a[1], view |-> Scope(c).view]
  BY DEF Meaning, BareVerbs
<1>6. v # "syntax error"
  OBVIOUS
<1>7. Stripped(c) = Meaning(v, <<>>, a, Scope(c))
  BY <1>2, <1>4, <1>5
<1>8. QED
  BY <1>2, <1>6, <1>7 DEF Known

LEMMA KnownFlushName ==
  ASSUME NEW c \in [kind : {"FlushName", "FlushTree"}, name : Names, view : Maybe(Views)]
  PROVE  Known(c)
<1>1. Words(c) = ZoneWords(c)
  <2>1. c \in ZoneCommands
    BY DEF ZoneCommands
  <2>2. QED
    BY <2>1, WordsByKind
<1>2. DOMAIN c = {"kind", "name", "view"} /\ c = [f \in DOMAIN c |-> c[f]]
      /\ c.view \in Maybe(Views)
  OBVIOUS
<1>3. CASE c.kind = "FlushName"
  <2>1. Words(c) = <<"flushname", c.name>> \o Word(c.view)
    BY <1>1, <1>3 DEF ZoneWords
  <2>2. KindOf("flushname") = c.kind
    BY <1>3 DEF KindOf
  <2>3. QED
    BY <1>2, <2>1, <2>2, KnownFlushing
<1>4. CASE c.kind = "FlushTree"
  <2>1. Words(c) = <<"flushtree", c.name>> \o Word(c.view)
    BY <1>1, <1>4 DEF ZoneWords
  <2>2. KindOf("flushtree") = c.kind
    BY <1>4 DEF KindOf
  <2>3. QED
    BY <1>2, <2>1, <2>2, KnownFlushing
<1>5. QED
  BY <1>3, <1>4

LEMMA KnownValidation ==
  ASSUME NEW c \in [kind : {"Validation"}, action : ValidationActions, view : Maybe(Views)]
  PROVE  Known(c)
<1>1. Words(c) = ControlWords(c)
  <2>1. c \in SigningCommands
    BY DEF SigningCommands
  <2>2. QED
    BY <2>1, WordsByKind
<1>2. PICK v, x : v = "validation" /\ x = c.action
  OBVIOUS
<1>3. /\ DOMAIN c = {"kind", "action", "view"} /\ c = [f \in DOMAIN c |-> c[f]]
      /\ c.view \in Maybe(Views) /\ c.kind = "Validation"
  OBVIOUS
<1>4. Words(c) = <<v, x>> \o Word(c.view)
  BY <1>1, <1>2, <1>3 DEF ControlWords
<1>5. PICK a : Parses(Words(c), v, <<>>, a, Scope(c)) /\ a[1] = x /\ Scope(c).view = c.view
  <2>1. v \in {"flushname", "flushtree", "validation"}
    BY <1>2
  <2>2. DOMAIN c \cap {"target", "class"} = {} /\ "view" \in DOMAIN c
    BY <1>3
  <2>3. OneThenView(c, v, x)
    BY <1>3, <1>4, <2>1, <2>2 DEF OneThenView
  <2>4. QED
    BY <2>3, ViewAfter
<1>7. Stripped(c) = [kind |-> "Validation", action |-> x, view |-> c.view]
  BY <1>2, <1>3 DEF Stripped
<1>8. Meaning(v, <<>>, a, Scope(c)) = [kind |-> KindOf(v), action |-> a[1], view |-> Scope(c).view]
  BY <1>2 DEF Meaning, BareVerbs
<1>9. v # "syntax error" /\ KindOf(v) = "Validation"
  BY <1>2 DEF KindOf
<1>10. Stripped(c) = Meaning(v, <<>>, a, Scope(c))
  BY <1>5, <1>7, <1>8, <1>9
<1>11. QED
  BY <1>5, <1>9, <1>10 DEF Known

LEMMA KnownSecRoots ==
  ASSUME NEW c \in [kind : {"SecRoots"}, views : {<<>>} \cup {<<x>> : x \in Views}]
  PROVE  Known(c)
<1>1. Words(c) = ServerWords(c)
  <2>1. c \in ServerCommands
    BY DEF ServerCommands
  <2>2. QED
    BY <2>1, WordsByKind
<1>2. PICK v, t : v = "secroots" /\ t = c.views
  OBVIOUS
<1>3. /\ DOMAIN c = {"kind", "views"} /\ c = [f \in DOMAIN c |-> c[f]]
      /\ t \in AtMostOne(Views) /\ c.kind = "SecRoots"
  BY <1>2 DEF AtMostOne
<1>4. IsSeq(t) /\ ~(Len(t) > 1)
  BY <1>3, AtMostOneWords
<1>5. PICK ws : ws = Words(c)
  OBVIOUS
<1>6. ws = <<v>> \o t
  BY <1>1, <1>2, <1>3, <1>5 DEF ServerWords
<1>7. ws[1] = v
  BY <1>4, <1>6, FirstWord
<1>8. RuleFor(ws) = Rule(NoOptions, 0, "view")
  BY <1>2, <1>7 DEF RuleFor
<1>9. IsSeq(<<>>) /\ Len(<<>>) = 0 /\ <<>> \o t = t
  BY <1>4, SeqEmpty, SeqConcatEmpty
<1>10. Splits(ws, v, <<>>, <<>>, t, NoOptions, "view")
  BY <1>4, <1>6, <1>8, <1>9, PlainSplit
<1>11. Scope(c) = ViewOf(t) /\ t = Word(Scope(c).view)
  BY <1>2, <1>3, ViewsScope
<1>12. Parses(Words(c), v, <<>>, <<>>, Scope(c))
  BY <1>4, <1>5, <1>10, <1>11, ParsedView DEF ViewOf
<1>13. Stripped(c) = [kind |-> "SecRoots", views |-> t]
  BY <1>2, <1>3 DEF Stripped
<1>14. Meaning(v, <<>>, <<>>, Scope(c)) = [kind |-> KindOf(v), views |-> Word(Scope(c).view)]
  BY <1>2 DEF Meaning, BareVerbs
<1>15. KindOf(v) = "SecRoots" /\ v # "syntax error"
  BY <1>2 DEF KindOf
<1>16. QED
  BY <1>11, <1>12, <1>13, <1>14, <1>15 DEF Known

-----------------------------------------------------------------------------
(* The commands of words that are taken as they are. *)
FreeVerbs == {"trace", "memprof", "querylog", "responselog", "reset-stats", "tcp-timeouts"}

OfWords(c, v, t) ==
  /\ v \in FreeVerbs /\ IsSeq(t) /\ Words(c) = <<v>> \o t
  /\ DOMAIN c \cap {"target", "class", "view", "views"} = {}

LEMMA WordsRead ==
  ASSUME NEW c, NEW v, NEW t, OfWords(c, v, t)
  PROVE  Parses(Words(c), v, <<>>, t, Scope(c)) /\ v # "syntax error"
<1>1. PICK ws : ws = Words(c)
  OBVIOUS
<1>2. ws = <<v>> \o t /\ IsSeq(t) /\ v \in FreeVerbs
  BY <1>1 DEF OfWords
<1>3. ws[1] = v
  BY <1>2, FirstWord
<1>4. RuleFor(ws) = Rule(NoOptions, 0, "words")
  BY <1>2, <1>3 DEF RuleFor, FreeVerbs
<1>5. IsSeq(<<>>) /\ Len(<<>>) = 0 /\ <<>> \o t = t
  BY <1>2, SeqEmpty, SeqConcatEmpty
<1>6. Splits(ws, v, <<>>, <<>>, t, NoOptions, "words")
  BY <1>2, <1>4, <1>5, PlainSplit
<1>7. Parses(Words(c), v, <<>>, t, NoScope)
  BY <1>1, <1>6, ParsedWords
<1>8. Scope(c) = NoScope
  BY Scopeless DEF OfWords
<1>9. v # "syntax error"
  BY <1>2 DEF FreeVerbs
<1>10. QED
  BY <1>7, <1>8, <1>9

LEMMA WordIs ==
  ASSUME NEW x
  PROVE  IsSeq(Word(x)) /\ FirstOf(Word(x)) = x
<1>1. CASE x = None
  <2>1. Word(x) = <<>>
    BY <1>1 DEF Word
  <2>2. QED
    BY <1>1, <2>1, SeqEmpty DEF FirstOf
<1>2. CASE x # None
  <2>1. PICK w : w = Word(x)
    OBVIOUS
  <2>2. w = <<x>>
    BY <1>2, <2>1 DEF Word
  <2>3. IsSeq(w) /\ Len(w) = 1 /\ w[1] = x
    BY <2>2, SeqOne
  <2>4. w # <<>>
    BY <2>3, SeqEmpty
  <2>5. QED
    BY <2>1, <2>3, <2>4 DEF FirstOf
<1>3. QED
  BY <1>1, <1>2

LEMMA KnownTrace ==
  ASSUME NEW c \in [kind : {"Trace"}, level : {None, Number(3)}]
  PROVE  Known(c)
<1>1. Words(c) = ControlWords(c)
  <2>1. c \in SigningCommands
    BY DEF SigningCommands
  <2>2. QED
    BY <2>1, WordsByKind
<1>2. PICK v, x : v = "trace" /\ x = c.level
  OBVIOUS
<1>3. DOMAIN c = {"kind", "level"} /\ c = [f \in DOMAIN c |-> c[f]] /\ c.kind = "Trace"
  OBVIOUS
<1>4. Words(c) = <<v>> \o Word(x)
  BY <1>1, <1>2, <1>3 DEF ControlWords
<1>5. OfWords(c, v, Word(x))
  BY <1>2, <1>3, <1>4, WordIs DEF OfWords, FreeVerbs
<1>6. Parses(Words(c), v, <<>>, Word(x), Scope(c)) /\ v # "syntax error"
  BY <1>5, WordsRead
<1>7. Stripped(c) = [kind |-> "Trace", level |-> x]
  BY <1>2, <1>3 DEF Stripped
<1>8. Meaning(v, <<>>, Word(x), Scope(c)) = [kind |-> KindOf(v), level |-> FirstOf(Word(x))]
  BY <1>2 DEF Meaning, BareVerbs
<1>9. KindOf(v) = "Trace" /\ FirstOf(Word(x)) = x
  BY <1>2, WordIs DEF KindOf
<1>10. QED
  BY <1>6, <1>7, <1>8, <1>9 DEF Known

LEMMA KnownSwitching ==
  ASSUME NEW c, NEW v \in {"memprof", "querylog", "responselog"}, DOMAIN c = {"kind", "action"},
         c = [f \in DOMAIN c |-> c[f]], Words(c) = <<v>> \o Word(c.action), KindOf(v) = c.kind
  PROVE  Known(c)
<1>1. PICK x : x = c.action
  OBVIOUS
<1>2. OfWords(c, v, Word(x))
  BY <1>1, WordIs DEF OfWords, FreeVerbs
<1>3. Parses(Words(c), v, <<>>, Word(x), Scope(c)) /\ v # "syntax error"
  BY <1>2, WordsRead
<1>4. Stripped(c) = [kind |-> c.kind, action |-> x]
  BY <1>1 DEF Stripped
<1>5. Meaning(v, <<>>, Word(x), Scope(c)) = [kind |-> KindOf(v), action |-> FirstOf(Word(x))]
  BY DEF Meaning, BareVerbs
<1>6. FirstOf(Word(x)) = x
  BY WordIs
<1>7. QED
  BY <1>3, <1>4, <1>5, <1>6 DEF Known

LEMMA KnownMemProf ==
  ASSUME NEW c \in [kind : {"MemProf"}, action : MemProfActions \cup {None}]
  PROVE  Known(c)
<1>1. Words(c) = ServerWords(c)
  <2>1. c \in ServerCommands
    BY DEF ServerCommands
  <2>2. QED
    BY <2>1, WordsByKind
<1>2. DOMAIN c = {"kind", "action"} /\ c = [f \in DOMAIN c |-> c[f]]
  OBVIOUS
<1>3. CASE c.kind = "MemProf"
  <2>1. Words(c) = <<"memprof">> \o Word(c.action)
    BY <1>1, <1>3 DEF ServerWords
  <2>2. KindOf("memprof") = c.kind
    BY <1>3 DEF KindOf
  <2>3. QED
    BY <1>2, <2>1, <2>2, KnownSwitching
<1>4. QED
  BY <1>3

LEMMA KnownQueryLog ==
  ASSUME NEW c \in [kind : {"QueryLog", "ResponseLog"}, action : Switches \cup {None}]
  PROVE  Known(c)
<1>1. Words(c) = ServerWords(c)
  <2>1. c \in ServerCommands
    BY DEF ServerCommands
  <2>2. QED
    BY <2>1, WordsByKind
<1>2. DOMAIN c = {"kind", "action"} /\ c = [f \in DOMAIN c |-> c[f]]
  OBVIOUS
<1>3. CASE c.kind = "QueryLog"
  <2>1. Words(c) = <<"querylog">> \o Word(c.action)
    BY <1>1, <1>3 DEF ServerWords
  <2>2. KindOf("querylog") = c.kind
    BY <1>3 DEF KindOf
  <2>3. QED
    BY <1>2, <2>1, <2>2, KnownSwitching
<1>4. CASE c.kind = "ResponseLog"
  <2>1. Words(c) = <<"responselog">> \o Word(c.action)
    BY <1>1, <1>4 DEF ServerWords
  <2>2. KindOf("responselog") = c.kind
    BY <1>4 DEF KindOf
  <2>3. QED
    BY <1>2, <2>1, <2>2, KnownSwitching
<1>5. QED
  BY <1>3, <1>4

LEMMA KnownResetStats ==
  ASSUME NEW c \in [kind : {"ResetStats"}, counters : {<<>>, <<"tcp-highwater">>}]
  PROVE  Known(c)
<1>1. Words(c) = ServerWords(c)
  <2>1. c \in ServerCommands
    BY DEF ServerCommands
  <2>2. QED
    BY <2>1, WordsByKind
<1>2. PICK v, t : v = "reset-stats" /\ t = c.counters
  OBVIOUS
<1>3. DOMAIN c = {"kind", "counters"} /\ c = [f \in DOMAIN c |-> c[f]] /\ c.kind = "ResetStats"
  OBVIOUS
<1>4. IsSeq(t)
  BY <1>2, SeqEmpty, SeqOne
<1>5. Words(c) = <<v>> \o t
  BY <1>1, <1>2, <1>3 DEF ServerWords
<1>6. OfWords(c, v, t)
  BY <1>2, <1>3, <1>4, <1>5 DEF OfWords, FreeVerbs
<1>7. Parses(Words(c), v, <<>>, t, Scope(c)) /\ v # "syntax error"
  BY <1>6, WordsRead
<1>8. Stripped(c) = [kind |-> "ResetStats", counters |-> t]
  BY <1>2, <1>3 DEF Stripped
<1>9. Meaning(v, <<>>, t, Scope(c)) = [kind |-> KindOf(v), counters |-> t]
  BY <1>2 DEF Meaning, BareVerbs
<1>10. KindOf(v) = "ResetStats"
  BY <1>2 DEF KindOf
<1>11. QED
  BY <1>7, <1>8, <1>9, <1>10 DEF Known

LEMMA TimeoutsAre ==
  IsSeq(Timeouts) /\ Len(Timeouts) = 4 /\ Timeouts # <<>>
<1>1. PICK x : x = Timeouts
  OBVIOUS
<1>2. x \in Seq(Nat)
  BY <1>1 DEF Timeouts
<1>3. Len(x) = 4
  BY <1>1 DEF Timeouts
<1>4. IsSeq(x)
  BY <1>2 DEF IsSeq
<1>5. x # <<>>
  <2>1. ASSUME x = <<>> PROVE FALSE
    <3>1. Len(x) = 0
      BY <2>1, SeqEmpty
    <3>2. QED
      BY <1>3, <3>1
  <2>2. QED
    BY <2>1
<1>6. QED
  BY <1>1, <1>3, <1>4, <1>5

LEMMA KnownTcpTimeouts ==
  ASSUME NEW c \in [kind : {"TcpTimeouts"}, values : {<<>>, Timeouts}]
  PROVE  Known(c)
<1>1. Words(c) = ServerWords(c)
  <2>1. c \in ServerCommands
    BY DEF ServerCommands
  <2>2. QED
    BY <2>1, WordsByKind
<1>2. PICK v, x : v = "tcp-timeouts" /\ x = c.values
  OBVIOUS
<1>3. DOMAIN c = {"kind", "values"} /\ c = [f \in DOMAIN c |-> c[f]] /\ c.kind = "TcpTimeouts"
  OBVIOUS
<1>4. x = <<>> \/ x = Timeouts
  BY <1>2
<1>5. IsSeq(x)
  BY <1>4, SeqEmpty, TimeoutsAre
<1>6. PICK n \in Nat : n = Len(x) /\ DOMAIN x = 1..n
  BY <1>5, SeqFacts
<1>7. PICK t : t = [i \in DOMAIN x |-> Number(x[i])]
  OBVIOUS
<1>8. t = [i \in 1..n |-> t[i]]
  BY <1>6, <1>7
<1>9. IsSeq(t) /\ Len(t) = n
  BY <1>8, SeqMade
<1>10. (t = <<>>) = (x = <<>>)
  BY <1>5, <1>6, <1>9, SeqEmpty
<1>11. Words(c) = <<v>> \o t
  BY <1>1, <1>2, <1>3, <1>7 DEF ServerWords
<1>12. OfWords(c, v, t)
  BY <1>2, <1>3, <1>9, <1>11 DEF OfWords, FreeVerbs
<1>13. Parses(Words(c), v, <<>>, t, Scope(c)) /\ v # "syntax error"
  BY <1>12, WordsRead
<1>14. Stripped(c) = [kind |-> "TcpTimeouts", values |-> x]
  BY <1>2, <1>3 DEF Stripped
<1>15. Meaning(v, <<>>, t, Scope(c))
         = [kind |-> KindOf(v), values |-> IF t = <<>> THEN <<>> ELSE Timeouts]
  BY <1>2 DEF Meaning, BareVerbs
<1>16. KindOf(v) = "TcpTimeouts"
  BY <1>2 DEF KindOf
<1>17. x = IF t = <<>> THEN <<>> ELSE Timeouts
  BY <1>4, <1>10
<1>18. QED
  BY <1>13, <1>14, <1>15, <1>16, <1>17 DEF Known

-----------------------------------------------------------------------------
(* The commands with a class and a view. *)
OfClass(c, v, a, w) ==
  /\ v \in {"managed-keys", "serve-stale"} /\ IsSeq(a) /\ w = ClassAndView(c.class, c.view)
  /\ "target" \notin DOMAIN c /\ "class" \in DOMAIN c /\ "view" \in DOMAIN c
  /\ c.class \in Maybe(ClassWords) /\ c.view \in Maybe(Views)
  /\ Words(c) = (<<v>> \o a) \o w

LEMMA ClassRead ==
  ASSUME NEW c, NEW v, NEW a, NEW w, OfClass(c, v, a, w),
         RuleFor(Words(c)) = Rule(NoOptions, Len(a), "class")
  PROVE  /\ Parses(Words(c), v, <<>>, a, Scope(c)) /\ Scope(c).view = c.view
         /\ v # "syntax error"
<1>1. /\ IsSeq(w) /\ ~(Len(w) > 2) /\ (Len(w) > 0 => w[1] \in ClassWords)
      /\ Scope(c) = ClassedOf(w)
      /\ ClassedOf(w) = [zone |-> None, class |-> ClassOf(c.class), view |-> c.view]
  BY ClassWordsRead, ClassScope DEF OfClass
<1>2. PICK ws : ws = Words(c)
  OBVIOUS
<1>3. ws = <<v>> \o (a \o w) /\ IsSeq(a)
  BY <1>1, <1>2, SeqOne, SeqConcatThree DEF OfClass
<1>4. Splits(ws, v, <<>>, a, w, NoOptions, "class")
  BY <1>1, <1>2, <1>3, PlainSplit
<1>5. Parses(Words(c), v, <<>>, a, Scope(c))
  <2>1. Parses(ws, v, <<>>, a, [ScopeOf(<<"-">> \o w) EXCEPT !.zone = None])
    BY <1>1, <1>4, ParsedClass
  <2>2. Parses(ws, v, <<>>, a, ClassedOf(w))
    BY <2>1 DEF ClassedOf
  <2>3. QED
    BY <1>1, <1>2, <2>2
<1>6. Scope(c).view = c.view
  BY <1>1
<1>7. v # "syntax error"
  BY DEF OfClass
<1>8. QED
  BY <1>5, <1>6, <1>7

LEMMA ClassFirst ==
  ASSUME NEW c, NEW v, NEW a, NEW w, OfClass(c, v, a, w)
  PROVE  Words(c)[1] = v /\ IsSeq(Words(c)) /\ Len(Words(c)) = 1 + Len(a) + Len(w)
<1>1. IsSeq(w) /\ IsSeq(a)
  BY ClassWordsRead DEF OfClass
<1>2. PICK ws, r : ws = Words(c) /\ r = a \o w
  OBVIOUS
<1>3. ws = <<v>> \o r
  BY <1>1, <1>2, SeqOne, SeqConcatThree DEF OfClass
<1>4. IsSeq(r) /\ Len(r) = Len(a) + Len(w)
  BY <1>1, <1>2, SeqConcat
<1>5. IsSeq(ws) /\ Len(ws) = 1 + Len(r) /\ ws[1] = v
  BY <1>3, <1>4, FirstWord
<1>6. Len(a) \in Nat /\ Len(w) \in Nat
  BY <1>1, SeqFacts
<1>7. QED
  BY <1>2, <1>4, <1>5, <1>6

LEMMA KnownManagedKeys ==
  ASSUME NEW c \in [kind : {"ManagedKeys"}, action : ManagedKeysActions,
                   class : Maybe(ClassWords), view : Maybe(Views)]
  PROVE  Known(c)
<1>1. Words(c) = KeyWords(c)
  <2>1. c \in KeyCommands
    BY DEF KeyCommands
  <2>2. QED
    BY <2>1, WordsByKind
<1>2. PICK v, x, w : v = "managed-keys" /\ x = c.action /\ w = ClassAndView(c.class, c.view)
  OBVIOUS
<1>3. /\ DOMAIN c = {"kind", "action", "class", "view"} /\ c = [f \in DOMAIN c |-> c[f]]
      /\ c.class \in Maybe(ClassWords) /\ c.view \in Maybe(Views) /\ c.kind = "ManagedKeys"
  OBVIOUS
<1>4. Words(c) = <<v, x>> \o w
  BY <1>1, <1>2, <1>3 DEF KeyWords
<1>5. PICK a : a = <<x>>
  OBVIOUS
<1>6. IsSeq(a) /\ Len(a) = 1 /\ a[1] = x
  BY <1>5, SeqOne
<1>7. OfClass(c, v, a, w)
  BY <1>2, <1>3, <1>4, <1>5, <1>6, OneAndOne DEF OfClass
<1>8. PICK ws : ws = Words(c)
  OBVIOUS
<1>9. ws[1] = v
  BY <1>7, <1>8, ClassFirst
<1>10. RuleFor(ws) = Rule(NoOptions, 1, "class")
  BY <1>2, <1>9 DEF RuleFor
<1>11. /\ Parses(Words(c), v, <<>>, a, Scope(c)) /\ Scope(c).view = c.view
       /\ v # "syntax error"
  BY <1>6, <1>7, <1>8, <1>10, ClassRead
<1>12. Stripped(c) = [kind |-> "ManagedKeys", action |-> x, view |-> c.view]
  BY <1>2, <1>3 DEF Stripped
<1>13. Meaning(v, <<>>, a, Scope(c))
         = [kind |-> KindOf(v), action |-> a[1], view |-> Scope(c).view]
  BY <1>2 DEF Meaning, BareVerbs
<1>14. KindOf(v) = "ManagedKeys"
  BY <1>2 DEF KindOf
<1>15. QED
  BY <1>6, <1>11, <1>12, <1>13, <1>14 DEF Known

LEMMA KnownServingStale ==
  ASSUME NEW c, NEW S, c \in [kind : {"ServeStale"}, action : S, class : Maybe(ClassWords),
                             view : Maybe(Views)],
         Words(c) = ServerWords(c), c.action = None => c.class = None /\ c.view = None
  PROVE  Known(c)
<1>1. PICK v, x, w, a : /\ v = "serve-stale" /\ x = c.action /\ a = Word(x)
                        /\ w = ClassAndView(c.class, c.view)
  OBVIOUS
<1>2. /\ DOMAIN c = {"kind", "action", "class", "view"} /\ c = [f \in DOMAIN c |-> c[f]]
      /\ c.class \in Maybe(ClassWords) /\ c.view \in Maybe(Views) /\ c.kind = "ServeStale"
  OBVIOUS
<1>3. IsSeq(a) /\ FirstOf(a) = x
  BY <1>1, WordIs
<1>4. Words(c) = (<<v>> \o a) \o w
  BY <1>1, <1>2 DEF ServerWords
<1>5. OfClass(c, v, a, w)
  BY <1>1, <1>2, <1>3, <1>4 DEF OfClass
<1>6. PICK ws : ws = Words(c)
  OBVIOUS
<1>7. ws[1] = v /\ Len(ws) = 1 + Len(a) + Len(w)
  BY <1>5, <1>6, ClassFirst
<1>8. RuleFor(ws) = Rule(NoOptions, IF Len(ws) > 1 THEN 1 ELSE 0, "class")
  BY <1>1, <1>7 DEF RuleFor
<1>9. Len(a) = IF Len(ws) > 1 THEN 1 ELSE 0
  <2>1. CASE x = None
    <3>1. a = <<>>
      BY <1>1, <2>1 DEF Word
    <3>2. w = <<>>
      BY <1>1, <2>1, ClassAndViewIs
    <3>3. Len(a) = 0 /\ Len(w) = 0
      BY <3>1, <3>2, SeqEmpty
    <3>4. QED
      BY <1>7, <3>3
  <2>2. CASE x # None
    <3>1. a = <<x>>
      BY <1>1, <2>2 DEF Word
    <3>2. Len(a) = 1
      BY <3>1, SeqOne
    <3>3. Len(w) \in Nat
      BY <1>1, <1>2, ClassWordsRead, SeqFacts
    <3>4. QED
      BY <1>7, <3>2, <3>3
  <2>3. QED
    BY <2>1, <2>2
<1>10. RuleFor(Words(c)) = Rule(NoOptions, Len(a), "class")
  BY <1>6, <1>8, <1>9
<1>11. /\ Parses(Words(c), v, <<>>, a, Scope(c)) /\ Scope(c).view = c.view
       /\ v # "syntax error"
  BY <1>5, <1>10, ClassRead
<1>12. Stripped(c) = [kind |-> "ServeStale", action |-> x, view |-> c.view]
  BY <1>1, <1>2 DEF Stripped
<1>13. Meaning(v, <<>>, a, Scope(c))
         = [kind |-> KindOf(v), action |-> FirstOf(a), view |-> Scope(c).view]
  BY <1>1 DEF Meaning, BareVerbs
<1>14. KindOf(v) = "ServeStale"
  BY <1>1 DEF KindOf
<1>15. QED
  BY <1>3, <1>11, <1>12, <1>13, <1>14 DEF Known

LEMMA KnownServeStale ==
  ASSUME NEW c, c \in [kind : {"ServeStale"}, action : ServeStaleActions,
                      class : Maybe(ClassWords), view : Maybe(Views)]
                \/ c \in [kind : {"ServeStale"}, action : {None}, class : {None}, view : {None}]
  PROVE  Known(c)
<1>1. Words(c) = ServerWords(c)
  <2>1. c \in ServerCommands
    BY DEF ServerCommands
  <2>2. QED
    BY <2>1, WordsByKind
<1>2. None \in Maybe(ClassWords) /\ None \in Maybe(Views)
  BY DEF Maybe
<1>3. None \notin ServeStaleActions
  BY NameIsNone DEF ServeStaleActions, Switches, OptionalWords
<1>4. CASE c \in [kind : {"ServeStale"}, action : ServeStaleActions,
                 class : Maybe(ClassWords), view : Maybe(Views)]
  <2>1. c.action # None
    BY <1>3, <1>4
  <2>2. QED
    BY <1>1, <1>4, <2>1, KnownServingStale
<1>5. CASE c \in [kind : {"ServeStale"}, action : {None}, class : {None}, view : {None}]
  <2>1. c.class = None /\ c.view = None
    BY <1>5
  <2>2. c \in [kind : {"ServeStale"}, action : {None}, class : Maybe(ClassWords),
               view : Maybe(Views)]
    BY <1>2, <1>5
  <2>3. QED
    BY <1>1, <2>1, <2>2, KnownServingStale
<1>6. QED
  BY <1>4, <1>5

-----------------------------------------------------------------------------
(* The commands with a configuration after the zone. *)
LEMMA KnownConfiguring ==
  ASSUME NEW c, NEW v \in {"addzone", "modzone"}, DOMAIN c = {"kind", "target", "config"},
         c = [f \in DOMAIN c |-> c[f]], c.target \in Targets,
         Words(c) = (<<v>> \o CommandArgs(c.target)) \o <<c.config>>, KindOf(v) = c.kind
  PROVE  Known(c)
<1>1. PICK x, t, a : x = c.config /\ t = CommandArgs(c.target) /\ a = <<x>>
  OBVIOUS
<1>2. IsScope(t) /\ ScopeOf(t) = Located(c.target)
  BY <1>1, TargetWords
<1>3. Scope(c) = ScopeOf(t)
  BY <1>2, TargetScope
<1>4. IsSeq(t) /\ IsSeq(a) /\ a[1] = x
  BY <1>1, <1>2, SeqOne DEF IsScope
<1>5. PICK ws : ws = Words(c)
  OBVIOUS
<1>6. ws = <<v>> \o (t \o a) /\ IsSeq(t \o a)
  <2>1. PICK h : h = <<v>> /\ IsSeq(h)
    BY SeqOne
  <2>2. ws = (h \o t) \o a
    BY <1>1, <1>5, <2>1
  <2>3. (h \o t) \o a = h \o (t \o a)
    BY <1>4, <2>1, SeqConcatThree
  <2>4. IsSeq(t \o a)
    BY <1>4, SeqConcat
  <2>5. QED
    BY <2>1, <2>2, <2>3, <2>4
<1>7. ws[1] = v
  BY <1>6, FirstWord
<1>8. RuleFor(ws) = Rule(NoOptions, 0, "config")
  BY <1>7 DEF RuleFor
<1>9. IsSeq(<<>>) /\ Len(<<>>) = 0 /\ <<>> \o (t \o a) = t \o a
  BY <1>6, SeqEmpty, SeqConcatEmpty
<1>10. Splits(ws, v, <<>>, <<>>, t \o a, NoOptions, "config")
  BY <1>6, <1>8, <1>9, PlainSplit
<1>11. Splits(ws, v, <<>>, <<>>, t \o <<x>>, NoOptions, "config")
  BY <1>1, <1>10
<1>12. Parses(ws, v, <<>>, <<x>>, ScopeOf(t))
  BY <1>2, <1>4, <1>11, ParsedConfig DEF IsScope
<1>13. Parses(Words(c), v, <<>>, a, Scope(c))
  BY <1>1, <1>3, <1>5, <1>12
<1>14. Stripped(c) = [kind |-> c.kind, config |-> x]
  BY <1>1 DEF Stripped
<1>15. Meaning(v, <<>>, a, Scope(c)) = [kind |-> KindOf(v), config |-> a[1]]
  BY DEF Meaning, BareVerbs
<1>16. v # "syntax error"
  OBVIOUS
<1>17. QED
  BY <1>4, <1>13, <1>14, <1>15, <1>16 DEF Known

LEMMA KnownAddZone ==
  ASSUME NEW c \in [kind : {"AddZone", "ModZone"}, target : Targets, config : {"{type primary;};"}]
  PROVE  Known(c)
<1>1. Words(c) = ControlWords(c)
  <2>1. c \in SigningCommands
    BY DEF SigningCommands
  <2>2. QED
    BY <2>1, WordsByKind
<1>2. DOMAIN c = {"kind", "target", "config"} /\ c = [f \in DOMAIN c |-> c[f]]
      /\ c.target \in Targets
  OBVIOUS
<1>3. CASE c.kind = "AddZone"
  <2>1. Words(c) = (<<"addzone">> \o CommandArgs(c.target)) \o <<c.config>>
    BY <1>1, <1>3 DEF ControlWords
  <2>2. KindOf("addzone") = c.kind
    BY <1>3 DEF KindOf
  <2>3. QED
    BY <1>2, <2>1, <2>2, KnownConfiguring
<1>4. CASE c.kind = "ModZone"
  <2>1. Words(c) = (<<"modzone">> \o CommandArgs(c.target)) \o <<c.config>>
    BY <1>1, <1>4 DEF ControlWords
  <2>2. KindOf("modzone") = c.kind
    BY <1>4 DEF KindOf
  <2>3. QED
    BY <1>2, <2>1, <2>2, KnownConfiguring
<1>5. QED
  BY <1>3, <1>4

-----------------------------------------------------------------------------
(* An option with a value, and then a zone. *)
LEMMA ZoneAfterOptions ==
  ASSUME NEW ws, NEW v, NEW o, NEW t, NEW options, IsSeq(o), ws = <<v>> \o (o \o t), IsScope(t),
         t = <<>> \/ t[1] \in Names, DOMAIN options \subseteq OptionWords, IsOptions(options),
         Run(options, o), RuleFor(ws) = Rule(options, 0, "zone")
  PROVE  Parses(ws, v, o, <<>>, ScopeOf(t))
<1>1. IsSeq(t) /\ IsSeq(<<>>) /\ Len(<<>>) = 0 /\ <<>> \o t = t
  BY SeqEmpty, SeqConcatEmpty DEF IsScope
<1>2. t = <<>> \/ t[1] \notin DOMAIN options
  BY NameIsNone
<1>3. Splits(ws, v, o, <<>>, t, options, "zone")
  BY <1>1, <1>2 DEF Splits, Stops
<1>4. QED
  BY <1>3, ParsedZone DEF IsScope

LEMMA KnownSkrImport ==
  ASSUME NEW c \in [kind : {"SkrImport"}, file : {"/skr"}, target : Targets]
  PROVE  Known(c)
<1>1. Words(c) = ServerWords(c)
  <2>1. c \in ServerCommands
    BY DEF ServerCommands
  <2>2. QED
    BY <2>1, WordsByKind
<1>2. PICK v, i, x, t : v = "skr" /\ i = "-import" /\ x = c.file /\ t = CommandArgs(c.target)
  OBVIOUS
<1>3. /\ DOMAIN c = {"kind", "file", "target"} /\ c = [f \in DOMAIN c |-> c[f]]
      /\ c.target \in Targets /\ c.kind = "SkrImport" /\ c.target.zone \in Names
  BY DEF Targets
<1>4. /\ IsScope(t) /\ t # <<>> /\ t[1] \in Names /\ Scope(c) = ScopeOf(t)
  BY <1>2, <1>3, TargetWords, TargetScope
<1>5. PICK o : o = <<i, x>>
  OBVIOUS
<1>6. IsSeq(o) /\ Len(o) = 2 /\ o[1] = i /\ o[2] = x
  BY <1>5, SeqTwo
<1>7. PICK ws : ws = Words(c)
  OBVIOUS
<1>8. ws = <<v, i, x>> \o t
  BY <1>1, <1>2, <1>3, <1>7 DEF ServerWords
<1>9. <<v>> \o o = <<v, i, x>> /\ IsSeq(t) /\ IsSeq(<<v>>)
  BY <1>4, <1>5, OneAndTwo, SeqOne DEF IsScope
<1>10. ws = <<v>> \o (o \o t)
  <2>1. PICK h : h = <<v>> /\ IsSeq(h)
    BY <1>9
  <2>2. ws = (h \o o) \o t
    BY <1>8, <1>9, <2>1
  <2>3. (h \o o) \o t = h \o (o \o t)
    BY <1>6, <1>9, <2>1, SeqConcatThree
  <2>4. QED
    BY <2>1, <2>2, <2>3
<1>11. ws[1] = v
  BY <1>6, <1>9, <1>10, SeqConcat, FirstWord
<1>12. PICK options : options = Options({}, {"-import"})
  OBVIOUS
<1>13. RuleFor(ws) = Rule(options, 0, "zone")
  BY <1>2, <1>11, <1>12 DEF RuleFor
<1>14. /\ DOMAIN options = {"-import"} /\ IsOptions(options) /\ options["-import"] = 1
  BY <1>12 DEF Options, IsOptions
<1>15. o # <<>> /\ o[1] \in DOMAIN options /\ Len(o) = 1 + options[o[1]]
  <2>1. o # <<>>
    BY <1>6, SeqEmpty
  <2>2. options[o[1]] = 1 /\ o[1] \in DOMAIN options
    BY <1>2, <1>6, <1>14
  <2>3. QED
    BY <1>6, <2>1, <2>2
<1>16. Run(options, o)
  BY <1>6, <1>14, <1>15, RunOption
<1>17. DOMAIN options \subseteq OptionWords
  BY <1>14 DEF OptionWords
<1>18. Parses(ws, v, o, <<>>, ScopeOf(t))
  BY <1>4, <1>6, <1>10, <1>13, <1>14, <1>16, <1>17, ZoneAfterOptions
<1>19. Parses(Words(c), v, o, <<>>, Scope(c))
  BY <1>4, <1>7, <1>18
<1>20. Stripped(c) = [kind |-> "SkrImport", file |-> x]
  BY <1>2, <1>3 DEF Stripped
<1>21. Meaning(v, o, <<>>, Scope(c)) = [kind |-> KindOf(v), file |-> o[2]]
  BY <1>2 DEF Meaning, BareVerbs
<1>22. KindOf(v) = "SkrImport" /\ v # "syntax error"
  BY <1>2 DEF KindOf
<1>23. QED
  BY <1>6, <1>19, <1>20, <1>21, <1>22 DEF Known

-----------------------------------------------------------------------------
(* The commands of dnstap. *)
LEMMA DnstapRead ==
  ASSUME NEW c, NEW v, NEW x, NEW o, NEW t, v = "dnstap", x \in {"-reopen", "-roll"}, o = <<x>>,
         IsSeq(t), t = <<>> \/ t[1] \notin {"-reopen", "-roll"}, Words(c) = <<v>> \o (o \o t)
  PROVE  Parses(Words(c), v, o, t, NoScope) /\ o[1] = x
<1>1. PICK F : F = {"-reopen", "-roll"}
  OBVIOUS
<1>2. IsSeq(o) /\ Len(o) = 1 /\ o[1] = x /\ o \in AtMostOne(F)
  BY <1>1, SeqOne DEF AtMostOne
<1>3. PICK ws : ws = Words(c)
  OBVIOUS
<1>4. ws[1] = v
  BY <1>2, <1>3, SeqConcat, FirstWord
<1>5. RuleFor(ws) = Rule(Options(F, {}), 0, "words")
  BY <1>1, <1>4 DEF RuleFor
<1>6. Splits(ws, v, o, <<>>, t, Options(F, {}), "words")
  BY <1>1, <1>2, <1>3, <1>5, FlagSplit
<1>7. Parses(ws, v, o, t, NoScope)
  BY <1>6, ParsedWords
<1>8. QED
  BY <1>2, <1>3, <1>7

LEMMA KnownDnstapReopen ==
  ASSUME NEW c \in [kind : {"DnstapReopen"}]
  PROVE  Known(c)
<1>1. Words(c) = ServerWords(c)
  <2>1. c \in ServerCommands
    BY DEF ServerCommands
  <2>2. QED
    BY <2>1, WordsByKind
<1>2. PICK v, x, o : v = "dnstap" /\ x = "-reopen" /\ o = <<x>>
  OBVIOUS
<1>3. DOMAIN c = {"kind"} /\ c = [f \in DOMAIN c |-> c[f]] /\ c.kind = "DnstapReopen"
  OBVIOUS
<1>4. Words(c) = <<v, x>>
  BY <1>1, <1>2, <1>3 DEF ServerWords
<1>5. Words(c) = <<v>> \o (o \o <<>>) /\ IsSeq(<<>>)
  BY <1>2, <1>4, OneAndOne, SeqOne, SeqEmpty, SeqConcatEmpty
<1>6. Parses(Words(c), v, o, <<>>, NoScope) /\ o[1] = x
  BY <1>2, <1>5, DnstapRead
<1>7. Scope(c) = NoScope
  BY <1>3, Scopeless
<1>8. Stripped(c) = [kind |-> "DnstapReopen"]
  BY <1>3 DEF Stripped
<1>9. Meaning(v, o, <<>>, Scope(c)) = [kind |-> "DnstapReopen"]
  BY <1>2, <1>6 DEF Meaning, BareVerbs
<1>10. v # "syntax error"
  BY <1>2
<1>11. QED
  BY <1>6, <1>7, <1>8, <1>9, <1>10 DEF Known

LEMMA KnownDnstapRoll ==
  ASSUME NEW c \in [kind : {"DnstapRoll"}, count : {None, Number(2)}]
  PROVE  Known(c)
<1>1. Words(c) = ServerWords(c)
  <2>1. c \in ServerCommands
    BY DEF ServerCommands
  <2>2. QED
    BY <2>1, WordsByKind
<1>2. PICK v, x, o, n : v = "dnstap" /\ x = "-roll" /\ o = <<x>> /\ n = c.count
  OBVIOUS
<1>3. DOMAIN c = {"kind", "count"} /\ c = [f \in DOMAIN c |-> c[f]] /\ c.kind = "DnstapRoll"
      /\ c.count \in {None, Number(2)}
  OBVIOUS
<1>4. PICK t : t = Word(n)
  OBVIOUS
<1>5. IsSeq(t) /\ FirstOf(t) = n
  BY <1>4, WordIs
<1>6. t = <<>> \/ t[1] \notin {"-reopen", "-roll"}
  <2>1. CASE n = None
    BY <1>4, <2>1 DEF Word
  <2>2. CASE n # None
    <3>1. n = "2"
      BY <1>2, <1>3, <2>2 DEF Number
    <3>2. t = <<>> \/ t[1] = n
      BY <1>5 DEF FirstOf
    <3>3. QED
      BY <3>1, <3>2
  <2>3. QED
    BY <2>1, <2>2
<1>7. Words(c) = <<v, x>> \o t
  BY <1>1, <1>2, <1>3, <1>4 DEF ServerWords
<1>8. Words(c) = <<v>> \o (o \o t)
  BY <1>2, <1>5, <1>7, OneAndOne, SeqOne, SeqConcatThree
<1>9. Parses(Words(c), v, o, t, NoScope) /\ o[1] = x
  BY <1>2, <1>5, <1>6, <1>8, DnstapRead
<1>10. Scope(c) = NoScope
  BY <1>3, Scopeless
<1>11. Stripped(c) = [kind |-> "DnstapRoll", count |-> n]
  BY <1>2, <1>3 DEF Stripped
<1>12. Meaning(v, o, t, Scope(c)) = [kind |-> "DnstapRoll", count |-> FirstOf(t)]
  BY <1>2, <1>9 DEF Meaning, BareVerbs
<1>13. v # "syntax error"
  BY <1>2
<1>14. QED
  BY <1>5, <1>9, <1>10, <1>11, <1>12, <1>13 DEF Known

-----------------------------------------------------------------------------
(* The commands of negative trust anchors. *)
AnchorOptions == Options({"-dump", "-force", "-remove"}, {"-lifetime"})

LEMMA AnchorOptionsAre ==
  /\ DOMAIN AnchorOptions = {"-dump", "-force", "-remove", "-lifetime"}
  /\ IsOptions(AnchorOptions) /\ AnchorOptions["-lifetime"] = 1
  /\ AnchorOptions["-dump"] = 0 /\ AnchorOptions["-force"] = 0 /\ AnchorOptions["-remove"] = 0
<1>1. DOMAIN AnchorOptions = {"-dump", "-force", "-remove", "-lifetime"}
  BY DEF AnchorOptions, Options
<1>2. IsOptions(AnchorOptions)
  BY OptionsAre DEF AnchorOptions
<1>3. AnchorOptions["-lifetime"] = 1 /\ AnchorOptions["-dump"] = 0
      /\ AnchorOptions["-force"] = 0 /\ AnchorOptions["-remove"] = 0
  BY DEF AnchorOptions, Options
<1>4. QED
  BY <1>1, <1>2, <1>3

(* The second word is the first option, or else the first argument. *)
Opening(ws, v, o, r) ==
  /\ IsSeq(ws) /\ ws[1] = v /\ Len(ws) = 1 + Len(o) + Len(r)
  /\ \A i \in 1..Len(o) : ws[1 + i] = o[i]

LEMMA SecondWord ==
  ASSUME NEW v, NEW o, NEW r, NEW ws, IsSeq(o), IsSeq(r), ws = <<v>> \o (o \o r)
  PROVE  Opening(ws, v, o, r)
<1>1. PICK u : u = o \o r
  OBVIOUS
<1>2. IsSeq(u) /\ Len(u) = Len(o) + Len(r) /\ \A i \in 1..Len(o) : u[i] = o[i]
  BY <1>1, SeqConcat
<1>3. /\ IsSeq(ws) /\ ws[1] = v /\ Len(ws) = 1 + Len(u)
      /\ \A i \in 1..Len(u) : ws[1 + i] = u[i]
  <2>1. IsSeq(u) /\ ws = <<v>> \o u
    BY <1>1, <1>2
  <2>2. IsSeq(ws) /\ ws[1] = v
    BY ONLY <2>1, FirstWord
  <2>3. Len(ws) = 1 + Len(u)
    BY ONLY <2>1, FirstWord
  <2>4. \A i \in 1..Len(u) : ws[1 + i] = u[i]
    BY ONLY <2>1, FirstWord
  <2>5. QED
    BY <2>2, <2>3, <2>4
<1>4. Len(o) \in Nat /\ Len(r) \in Nat
  BY SeqFacts
<1>5. \A i \in 1..Len(o) : ws[1 + i] = o[i]
  <2> SUFFICES ASSUME NEW i \in 1..Len(o) PROVE ws[1 + i] = o[i]
    OBVIOUS
  <2>1. i \in 1..Len(u)
    BY <1>2, <1>4
  <2>2. QED
    BY <1>2, <1>3, <2>1
<1>6. Len(ws) = 1 + Len(o) + Len(r)
  BY <1>2, <1>3, <1>4
<1>7. QED
  BY <1>3, <1>5, <1>6 DEF Opening

AnchorWords(c, v, o, x) ==
  /\ v = "nta" /\ IsSeq(o) /\ Run(AnchorOptions, o) /\ (o = <<>> \/ o[1] # "-dump")
  /\ x \in Names /\ c.view \in Maybe(Views) /\ "view" \in DOMAIN c
  /\ DOMAIN c \cap {"target", "class"} = {}
  /\ Words(c) = <<v>> \o (o \o (<<x>> \o Word(c.view)))

LEMMA AnchorRead ==
  ASSUME NEW c, NEW v, NEW o, NEW x, AnchorWords(c, v, o, x)
  PROVE  \E a : Parses(Words(c), v, o, a, Scope(c)) /\ a[1] = x /\ Scope(c).view = c.view
<1>1. PICK t, a, ws : t = Word(c.view) /\ a = <<x>> /\ ws = Words(c)
  OBVIOUS
<1>2. /\ IsSeq(t) /\ ~(Len(t) > 1) /\ Scope(c) = ViewOf(t)
      /\ ViewOf(t) = [zone |-> None, class |-> "IN", view |-> c.view]
  BY <1>1, ViewWords, ViewScope DEF AnchorWords
<1>3. IsSeq(a) /\ Len(a) = 1 /\ a[1] = x
  BY <1>1, SeqOne
<1>4. PICK r : r = a \o t
  OBVIOUS
<1>5. IsSeq(r) /\ Len(r) = 1 + Len(t) /\ r[1] = x
  <2>1. r = <<x>> \o t
    BY <1>1, <1>4
  <2>2. QED
    BY <1>2, <2>1, FirstWord
<1>6. ws = <<v>> \o (o \o r) /\ IsSeq(o)
  BY <1>1, <1>4 DEF AnchorWords
<1>7. /\ IsSeq(ws) /\ ws[1] = v /\ Len(ws) = 1 + Len(o) + Len(r)
      /\ \A i \in 1..Len(o) : ws[1 + i] = o[i]
      /\ (o = <<>> => ws = <<v>> \o r)
  <2>1. IsSeq(o) /\ IsSeq(r) /\ ws = <<v>> \o (o \o r)
    BY <1>5, <1>6
  <2>2. Opening(ws, v, o, r)
    BY ONLY <2>1, SecondWord
  <2>3. o = <<>> => ws = <<v>> \o r
    BY <2>1, SeqConcatEmpty
  <2>4. QED
    BY <2>2, <2>3 DEF Opening
<1>8. x \in Names /\ x \notin OptionWords
  BY NameIsNone DEF AnchorWords
<1>9. Len(t) \in Nat /\ Len(o) \in Nat
  BY <1>2, <1>6, SeqFacts
<1>10. Len(ws) > 1
  BY <1>5, <1>7, <1>9
<1>11. ws[2] # "-dump"
  <2>1. CASE o = <<>>
    <3>1. ws = <<v>> \o r
      BY <1>7, <2>1
    <3>2. \A i \in 1..Len(r) : ws[1 + i] = r[i]
      BY <1>5, <3>1, FirstWord
    <3>3. 1 \in 1..Len(r) /\ 1 + 1 = 2
      BY <1>5, <1>9
    <3>4. ws[2] = x
      BY <1>5, <3>2, <3>3
    <3>5. QED
      BY <1>8, <3>4 DEF OptionWords
  <2>2. CASE o # <<>>
    <3>1. Len(o) # 0
      BY <1>6, <2>2, SeqEmpty
    <3>2. 1 \in 1..Len(o) /\ 1 + 1 = 2
      BY <1>9, <3>1
    <3>3. ws[2] = o[1]
      BY <1>7, <3>2
    <3>4. QED
      BY <2>2, <3>3 DEF AnchorWords
  <2>3. QED
    BY <2>1, <2>2
<1>12. RuleFor(ws) = Rule(AnchorOptions, 1, "view")
  <2>1. v = "nta"
    BY DEF AnchorWords
  <2>2. QED
    BY <1>7, <1>10, <1>11, <2>1 DEF RuleFor, AnchorOptions
<1>13. Stops(AnchorOptions, r)
  <2>1. DOMAIN AnchorOptions \subseteq OptionWords
    BY AnchorOptionsAre DEF OptionWords
  <2>2. QED
    BY <1>5, <1>8, <2>1 DEF Stops
<1>14. Splits(ws, v, o, a, t, AnchorOptions, "view")
  BY <1>2, <1>3, <1>4, <1>6, <1>12, <1>13, AnchorOptionsAre DEF Splits, AnchorWords
<1>15. Parses(ws, v, o, a, Scope(c))
  BY <1>2, <1>14, ParsedView DEF ViewOf
<1>16. Scope(c).view = c.view
  BY <1>2
<1>17. QED
  BY <1>1, <1>3, <1>15, <1>16

LEMMA KnownNtaList ==
  ASSUME NEW c \in [kind : {"NtaList"}]
  PROVE  Known(c)
<1>1. Words(c) = KeyWords(c)
  <2>1. c \in KeyCommands
    BY DEF KeyCommands
  <2>2. QED
    BY <2>1, WordsByKind
<1>2. PICK v, x, o : v = "nta" /\ x = "-dump" /\ o = <<x>>
  OBVIOUS
<1>3. DOMAIN c = {"kind"} /\ c = [f \in DOMAIN c |-> c[f]] /\ c.kind = "NtaList"
  OBVIOUS
<1>4. PICK ws : ws = Words(c)
  OBVIOUS
<1>5. ws = <<v, x>>
  BY <1>1, <1>2, <1>3, <1>4 DEF KeyWords
<1>6. ws[1] = v /\ ws[2] = x /\ Len(ws) = 2
  BY <1>5, SeqTwo
<1>7. RuleFor(ws) = Rule(AnchorOptions, 0, "view")
  BY <1>2, <1>6 DEF RuleFor, AnchorOptions
<1>8. IsSeq(<<>>) /\ Len(<<>>) = 0 /\ <<>> \o <<>> = <<>>
  BY SeqEmpty, SeqConcatEmpty
<1>9. IsSeq(o) /\ Len(o) = 1 /\ o[1] = x
  BY <1>2, SeqOne
<1>10. ws = <<v>> \o (o \o (<<>> \o <<>>))
  BY <1>2, <1>5, <1>8, <1>9, OneAndOne, SeqConcatEmpty
<1>11. Run(AnchorOptions, o)
  <2>1. o # <<>>
    BY <1>9, SeqEmpty
  <2>2. o[1] \in DOMAIN AnchorOptions /\ Len(o) = 1 + AnchorOptions[o[1]]
    BY <1>2, <1>9, AnchorOptionsAre
  <2>3. QED
    BY <1>9, <2>1, <2>2, AnchorOptionsAre, RunOption
<1>12. Splits(ws, v, o, <<>>, <<>>, AnchorOptions, "view")
  BY <1>7, <1>8, <1>10, <1>11, AnchorOptionsAre DEF Splits, Stops
<1>13. Parses(ws, v, o, <<>>, ViewOf(<<>>))
  BY <1>8, <1>12, ParsedView DEF ViewOf
<1>14. Scope(c) = NoScope /\ ViewOf(<<>>) = NoScope
  BY <1>3, Scopeless, NoScopeIs DEF ViewOf
<1>15. Stripped(c) = [kind |-> "NtaList"]
  BY <1>3 DEF Stripped
<1>16. Meaning(v, o, <<>>, Scope(c)) = [kind |-> "NtaList"]
  BY <1>2 DEF Meaning, BareVerbs
<1>17. v # "syntax error"
  BY <1>2
<1>18. QED
  BY <1>4, <1>13, <1>14, <1>15, <1>16, <1>17 DEF Known

LEMMA KnownNtaRemove ==
  ASSUME NEW c \in [kind : {"NtaRemove"}, domain : Names, view : Maybe(Views)]
  PROVE  Known(c)
<1>1. Words(c) = KeyWords(c)
  <2>1. c \in KeyCommands
    BY DEF KeyCommands
  <2>2. QED
    BY <2>1, WordsByKind
<1>2. PICK v, i, o, x, t : /\ v = "nta" /\ i = "-remove" /\ o = <<i>> /\ x = c.domain
                           /\ t = Word(c.view)
  OBVIOUS
<1>3. /\ DOMAIN c = {"kind", "domain", "view"} /\ c = [f \in DOMAIN c |-> c[f]]
      /\ x \in Names /\ c.view \in Maybe(Views) /\ c.kind = "NtaRemove"
  BY <1>2
<1>4. Words(c) = <<v, i, x>> \o t
  BY <1>1, <1>2, <1>3 DEF KeyWords
<1>5. IsSeq(o) /\ Len(o) = 1 /\ o[1] = i /\ IsSeq(t) /\ IsSeq(<<x>>) /\ IsSeq(<<v>>)
  BY <1>2, <1>3, SeqOne, ViewWords
<1>6. <<v, i, x>> = <<v>> \o (o \o <<x>>) /\ IsSeq(o \o <<x>>)
  BY <1>2, <1>5, OneAndOne, OneAndTwo, SeqConcat
<1>7. Words(c) = <<v>> \o (o \o (<<x>> \o t))
  <2>1. PICK h, b : h = <<v>> /\ b = <<x>>
    OBVIOUS
  <2>2. Words(c) = (h \o (o \o b)) \o t
    BY <1>4, <1>6, <2>1
  <2>3. (h \o (o \o b)) \o t = h \o ((o \o b) \o t)
    BY <1>5, <1>6, <2>1, SeqConcatThree
  <2>4. (o \o b) \o t = o \o (b \o t)
    BY <1>5, <2>1, SeqConcatThree
  <2>5. QED
    BY <2>1, <2>2, <2>3, <2>4
<1>8. Run(AnchorOptions, o)
  <2>1. o # <<>>
    BY <1>5, SeqEmpty
  <2>2. o[1] \in DOMAIN AnchorOptions /\ Len(o) = 1 + AnchorOptions[o[1]]
    BY <1>2, <1>5, AnchorOptionsAre
  <2>3. QED
    BY <1>5, <2>1, <2>2, AnchorOptionsAre, RunOption
<1>9. AnchorWords(c, v, o, x)
  BY <1>2, <1>3, <1>5, <1>7, <1>8 DEF AnchorWords
<1>10. PICK a : Parses(Words(c), v, o, a, Scope(c)) /\ a[1] = x /\ Scope(c).view = c.view
  BY <1>9, AnchorRead
<1>11. o # <<"-dump">> /\ o = <<"-remove">>
  BY <1>2, <1>5, SeqOne
<1>12. Stripped(c) = [kind |-> "NtaRemove", domain |-> x, view |-> c.view]
  BY <1>2, <1>3 DEF Stripped
<1>13. Meaning(v, o, a, Scope(c))
         = [kind |-> "NtaRemove", domain |-> a[1], view |-> Scope(c).view]
  BY <1>2, <1>11 DEF Meaning, BareVerbs
<1>14. v # "syntax error"
  BY <1>2
<1>15. Stripped(c) = Meaning(v, o, a, Scope(c))
  BY <1>10, <1>12, <1>13
<1>16. QED
  BY <1>10, <1>14, <1>15 DEF Known

-----------------------------------------------------------------------------
(* Options, then an argument, then the scope. *)
AreSeqs(h, o, b, t) == IsSeq(h) /\ IsSeq(o) /\ IsSeq(b) /\ IsSeq(t)

LEMMA SeqConcatFour ==
  ASSUME NEW h, NEW o, NEW b, NEW t, AreSeqs(h, o, b, t)
  PROVE  ((h \o o) \o b) \o t = h \o (o \o (b \o t))
<1>1. PICK p : p = h \o o
  OBVIOUS
<1>2. PICK q : q = b \o t
  OBVIOUS
<1>3. IsSeq(p)
  BY <1>1, SeqConcat DEF AreSeqs
<1>4. IsSeq(q)
  BY <1>2, SeqConcat DEF AreSeqs
<1>5. (p \o b) \o t = p \o (b \o t)
  BY <1>3, SeqConcatThree, SMTT(20) DEF AreSeqs
<1>6. (h \o o) \o q = h \o (o \o q)
  BY <1>4, SeqConcatThree, SMTT(20) DEF AreSeqs
<1>7. QED
  BY <1>1, <1>2, <1>5, <1>6

(* Two parts to the options. *)
Chained(ws, h, p, q, b, t) ==
  /\ IsSeq(h) /\ IsSeq(p) /\ IsSeq(q) /\ IsSeq(b) /\ IsSeq(t)
  /\ ws = (((h \o p) \o q) \o b) \o t

LEMMA ChainedWords ==
  ASSUME NEW ws, NEW h, NEW p, NEW q, NEW b, NEW t, Chained(ws, h, p, q, b, t)
  PROVE  ws = h \o ((p \o q) \o (b \o t))
<1>1. IsSeq(h) /\ IsSeq(p) /\ IsSeq(q) /\ IsSeq(b) /\ IsSeq(t)
  BY DEF Chained
<1>2. PICK o : o = p \o q
  OBVIOUS
<1>3. IsSeq(o)
  BY <1>1, <1>2, SeqConcat
<1>4. (h \o p) \o q = h \o (p \o q)
  BY <1>1, SeqConcatThree, SMTT(20)
<1>5. ((h \o o) \o b) \o t = h \o (o \o (b \o t))
  <2>1. AreSeqs(h, o, b, t)
    BY <1>1, <1>3 DEF AreSeqs
  <2>2. QED
    BY <2>1, SeqConcatFour
<1>6. QED
  BY <1>2, <1>4, <1>5 DEF Chained

(* Adding an anchor: its lifetime and force, in this order. *)
LifetimeWords(n) == IF n = None THEN <<>> ELSE <<"-lifetime", n>>

LEMMA LifetimeRun ==
  ASSUME NEW n \in {None, Number(60)}, NEW l, l = LifetimeWords(n)
  PROVE  /\ Run(AnchorOptions, l) /\ (n = None => l = <<>>)
         /\ (n # None => Len(l) = 2 /\ l[1] = "-lifetime" /\ l[2] = "60" /\ n = "60")
<1>1. CASE n = None
  BY <1>1, RunNone DEF LifetimeWords
<1>2. CASE n # None
  <2>1. n = "60"
    BY <1>2 DEF Number
  <2>2. PICK x : x = "-lifetime"
    OBVIOUS
  <2>3. l = <<x, n>>
    BY <1>2, <2>2 DEF LifetimeWords
  <2>4. IsSeq(l) /\ Len(l) = 2 /\ l[1] = x /\ l[2] = n
    BY <2>3, SeqTwo
  <2>5. l # <<>>
    BY <2>4, SeqEmpty
  <2>6. l[1] \in DOMAIN AnchorOptions /\ Len(l) = 1 + AnchorOptions[l[1]]
    BY <2>2, <2>4, AnchorOptionsAre
  <2>7. Run(AnchorOptions, l)
    BY <2>4, <2>5, <2>6, AnchorOptionsAre, RunOption
  <2>8. QED
    BY <1>2, <2>1, <2>2, <2>4, <2>7
<1>3. QED
  BY <1>1, <1>2

LEMMA ForceRun ==
  ASSUME NEW on \in BOOLEAN, NEW f, f = Flag(on, "-force")
  PROVE  /\ Run(AnchorOptions, f) /\ (~on => f = <<>>)
         /\ (on => Len(f) = 1 /\ f[1] = "-force")
<1>1. CASE ~on
  BY <1>1, RunNone DEF Flag
<1>2. CASE on
  <2>1. PICK x : x = "-force"
    OBVIOUS
  <2>2. f = <<x>>
    BY <1>2, <2>1 DEF Flag
  <2>3. IsSeq(f) /\ Len(f) = 1 /\ f[1] = x
    BY <2>2, SeqOne
  <2>4. f # <<>>
    BY <2>3, SeqEmpty
  <2>5. f[1] \in DOMAIN AnchorOptions /\ Len(f) = 1 + AnchorOptions[f[1]]
    <3>1. AnchorOptions["-force"] = 0 /\ "-force" \in DOMAIN AnchorOptions
      BY AnchorOptionsAre
    <3>2. AnchorOptions[f[1]] = 0 /\ f[1] \in DOMAIN AnchorOptions
      BY <2>1, <2>3, <3>1
    <3>3. 1 = 1 + 0
      OBVIOUS
    <3>4. Len(f) = 1 + AnchorOptions[f[1]]
      BY <2>3, <3>2, <3>3
    <3>5. QED
      BY <3>2, <3>4
  <2>6. Run(AnchorOptions, f)
    BY <2>3, <2>4, <2>5, AnchorOptionsAre, RunOption
  <2>7. QED
    BY <1>2, <2>1, <2>3, <2>6
<1>3. QED
  BY <1>1, <1>2

IsAdding(o, n, on) ==
  /\ IsSeq(o) /\ Run(AnchorOptions, o) /\ (o = <<>> \/ o[1] \in {"-lifetime", "-force"})
  /\ n = (IF Len(o) > 1 THEN "60" ELSE None)
  /\ on = (o # <<>> /\ o[Len(o)] = "-force")

LEMMA AddingOptions ==
  ASSUME NEW n \in {None, Number(60)}, NEW on \in BOOLEAN, NEW o,
         o = LifetimeWords(n) \o Flag(on, "-force")
  PROVE  IsAdding(o, n, on)
<1>1. PICK l, f : l = LifetimeWords(n) /\ f = Flag(on, "-force")
  OBVIOUS
<1>2. /\ Run(AnchorOptions, l) /\ (n = None => l = <<>>)
      /\ (n # None => Len(l) = 2 /\ l[1] = "-lifetime" /\ l[2] = "60" /\ n = "60")
  BY <1>1, LifetimeRun
<1>3. /\ Run(AnchorOptions, f) /\ (~on => f = <<>>)
      /\ (on => Len(f) = 1 /\ f[1] = "-force")
  BY <1>1, ForceRun
<1>4. IsSeq(l) /\ IsSeq(f) /\ o = l \o f
  BY <1>1, <1>2, <1>3 DEF Run
<1>5. IsSeq(o) /\ Len(o) = Len(l) + Len(f)
  BY <1>4, SeqConcat
<1>6. Run(AnchorOptions, o)
  BY <1>2, <1>3, <1>4, RunMore
<1>7. CASE n = None /\ ~on
  <2>1. o = <<>> /\ Len(o) = 0
    BY <1>2, <1>3, <1>4, <1>7, SeqEmpty, SeqConcatEmpty
  <2>2. QED
    BY <1>5, <1>6, <1>7, <2>1 DEF IsAdding
<1>8. CASE n = None /\ on
  <2>1. o = f
    BY <1>2, <1>4, <1>8, SeqConcatEmpty
  <2>2. Len(o) = 1 /\ o[1] = "-force"
    BY <1>3, <1>8, <2>1
  <2>3. o # <<>>
    BY <2>2, SeqEmpty
  <2>4. o[Len(o)] = "-force" /\ ~(Len(o) > 1)
    BY <2>2
  <2>5. on = (o # <<>> /\ o[Len(o)] = "-force")
    BY <1>8, <2>3, <2>4
  <2>6. QED
    BY <1>5, <1>6, <1>8, <2>2, <2>4, <2>5 DEF IsAdding
<1>9. CASE n # None /\ ~on
  <2>1. o = l
    BY <1>3, <1>4, <1>9, SeqConcatEmpty
  <2>2. Len(o) = 2 /\ o[1] = "-lifetime" /\ o[2] = "60" /\ n = "60"
    BY <1>2, <1>9, <2>1
  <2>3. QED
    BY <1>5, <1>6, <1>9, <2>2 DEF IsAdding
<1>10. CASE n # None /\ on
  <2>1. Len(l) = 2 /\ l[1] = "-lifetime" /\ n = "60" /\ Len(f) = 1 /\ f[1] = "-force"
    BY <1>2, <1>3, <1>10
  <2>2. \A i \in 1..Len(l) : o[i] = l[i]
    BY <1>4, SeqConcat
  <2>3. \A i \in 1..Len(f) : o[Len(l) + i] = f[i]
    BY <1>4, SeqConcat
  <2>4. 1 \in 1..Len(l) /\ 1 \in 1..Len(f)
    BY <2>1
  <2>5. o[1] = "-lifetime"
    BY <2>1, <2>2, <2>4
  <2>6. o[Len(l) + 1] = "-force"
    BY <2>1, <2>3, <2>4
  <2>7. Len(o) = 3 /\ o[Len(o)] = "-force"
    BY <1>5, <2>1, <2>6
  <2>8. o # <<>> /\ Len(o) > 1
    BY <2>7, SeqEmpty
  <2>9. on = (o # <<>> /\ o[Len(o)] = "-force")
    BY <1>10, <2>7, <2>8
  <2>10. QED
    BY <1>5, <1>6, <1>10, <2>1, <2>5, <2>8, <2>9 DEF IsAdding
<1>11. QED
  BY <1>7, <1>8, <1>9, <1>10

LEMMA KnownNtaAdd ==
  ASSUME NEW c \in [kind : {"NtaAdd"}, domain : Names, lifetime : {None, Number(60)},
                    force : BOOLEAN, view : Maybe(Views)]
  PROVE  Known(c)
<1>1. Words(c) = KeyWords(c)
  <2>1. c \in KeyCommands
    BY DEF KeyCommands
  <2>2. QED
    BY <2>1, WordsByKind
<1>2. PICK v, x, n, on : v = "nta" /\ x = c.domain /\ n = c.lifetime /\ on = c.force
  OBVIOUS
<1>3. PICK l, f, t, b : /\ l = LifetimeWords(n) /\ f = Flag(on, "-force")
                        /\ t = Word(c.view) /\ b = <<x>>
  OBVIOUS
<1>4. /\ DOMAIN c = {"kind", "domain", "lifetime", "force", "view"}
      /\ c = [g \in DOMAIN c |-> c[g]] /\ c.kind = "NtaAdd"
      /\ x \in Names /\ c.view \in Maybe(Views) /\ n \in {None, Number(60)} /\ on \in BOOLEAN
  BY <1>2
<1>5. PICK o : o = l \o f
  OBVIOUS
<1>6. IsAdding(o, n, on)
  BY <1>3, <1>4, <1>5, AddingOptions
<1>7. IsSeq(l) /\ IsSeq(f) /\ IsSeq(t) /\ IsSeq(b) /\ IsSeq(o)
  <2>1. Run(AnchorOptions, l) /\ Run(AnchorOptions, f)
    BY <1>3, <1>4, LifetimeRun, ForceRun
  <2>2. QED
    BY <1>3, <1>4, <1>6, <2>1, SeqOne, ViewWords DEF Run, IsAdding
<1>8. Words(c) = <<v>> \o (o \o (b \o t))
  <2>1. PICK h : h = <<v>> /\ IsSeq(h)
    BY SeqOne
  <2>2. Words(c) = (((h \o l) \o f) \o b) \o t
    BY <1>1, <1>2, <1>3, <1>4, <2>1 DEF KeyWords, LifetimeWords
  <2>3. Chained(Words(c), h, l, f, b, t)
    BY <1>7, <2>1, <2>2 DEF Chained
  <2>4. Words(c) = h \o ((l \o f) \o (b \o t))
    BY ONLY <2>3, ChainedWords
  <2>5. QED
    BY <1>5, <2>1, <2>4
<1>9. AnchorWords(c, v, o, x)
  BY <1>2, <1>3, <1>4, <1>6, <1>8 DEF AnchorWords, IsAdding
<1>10. PICK a : Parses(Words(c), v, o, a, Scope(c)) /\ a[1] = x /\ Scope(c).view = c.view
  BY <1>9, AnchorRead
<1>11. o # <<"-dump">> /\ o # <<"-remove">>
  <2>1. ASSUME NEW y \in {"-dump", "-remove"}, o = <<y>> PROVE FALSE
    <3>1. Len(o) = 1 /\ o[1] = y
      BY <2>1, SeqOne
    <3>2. o # <<>>
      BY <3>1, SeqEmpty
    <3>3. QED
      BY <1>6, <3>1, <3>2 DEF IsAdding
  <2>2. QED
    BY <2>1
<1>12. Stripped(c) = [kind |-> "NtaAdd", domain |-> x, lifetime |-> n, force |-> on,
                      view |-> c.view]
  BY <1>2, <1>4 DEF Stripped
<1>13. Meaning(v, o, a, Scope(c))
         = [kind |-> "NtaAdd", domain |-> a[1],
            lifetime |-> IF Len(o) > 1 THEN "60" ELSE None,
            force |-> o # <<>> /\ o[Len(o)] = "-force", view |-> Scope(c).view]
  BY <1>2, <1>11 DEF Meaning, BareVerbs
<1>14. v # "syntax error"
  BY <1>2
<1>15. /\ n = (IF Len(o) > 1 THEN "60" ELSE None)
       /\ on = (o # <<>> /\ o[Len(o)] = "-force")
  BY <1>6 DEF IsAdding
<1>16. Stripped(c) = Meaning(v, o, a, Scope(c))
  BY <1>10, <1>12, <1>13, <1>15
<1>17. QED
  BY <1>10, <1>14, <1>16 DEF Known

-----------------------------------------------------------------------------
(* The commands of dnssec. *)
DnssecOptions == Options({"-status", "-checkds", "-rollover"}, {"-key", "-alg", "-when"})
Moments == {None, "20260101000000"}

LEMMA DnssecOptionsAre ==
  /\ DOMAIN DnssecOptions = {"-status", "-checkds", "-rollover", "-key", "-alg", "-when"}
  /\ IsOptions(DnssecOptions) /\ DOMAIN DnssecOptions \subseteq OptionWords
  /\ \A x \in {"-status", "-checkds", "-rollover"} : DnssecOptions[x] = 0
  /\ \A x \in {"-key", "-alg", "-when"} : DnssecOptions[x] = 1
<1>1. DOMAIN DnssecOptions = {"-status", "-checkds", "-rollover", "-key", "-alg", "-when"}
  BY DEF DnssecOptions, Options
<1>2. IsOptions(DnssecOptions)
  BY OptionsAre DEF DnssecOptions
<1>3. \A x \in {"-status", "-checkds", "-rollover"} : DnssecOptions[x] = 0
  BY DEF DnssecOptions, Options
<1>4. \A x \in {"-key", "-alg", "-when"} : DnssecOptions[x] = 1
  BY DEF DnssecOptions, Options
<1>5. DOMAIN DnssecOptions \subseteq OptionWords
  BY <1>1 DEF OptionWords
<1>6. QED
  BY <1>1, <1>2, <1>3, <1>4, <1>5

LEMMA FlagRun ==
  ASSUME NEW x \in {"-status", "-checkds", "-rollover"}, NEW o, o = <<x>>
  PROVE  IsSeq(o) /\ Len(o) = 1 /\ o[1] = x /\ Run(DnssecOptions, o)
<1>1. IsSeq(o) /\ Len(o) = 1 /\ o[1] = x
  BY SeqOne
<1>2. o # <<>>
  BY <1>1, SeqEmpty
<1>3. DnssecOptions[x] = 0 /\ x \in DOMAIN DnssecOptions /\ 1 = 1 + 0
  BY DnssecOptionsAre
<1>4. o[1] \in DOMAIN DnssecOptions /\ Len(o) = 1 + DnssecOptions[o[1]]
  BY <1>1, <1>3
<1>5. Run(DnssecOptions, o)
  BY <1>1, <1>2, <1>4, DnssecOptionsAre, RunOption
<1>6. QED
  BY <1>1, <1>5

LEMMA ValuedRun ==
  ASSUME NEW x \in {"-key", "-alg", "-when"}, NEW y, NEW o, o = <<x, y>>
  PROVE  IsSeq(o) /\ Len(o) = 2 /\ o[1] = x /\ o[2] = y /\ Run(DnssecOptions, o)
<1>1. IsSeq(o) /\ Len(o) = 2 /\ o[1] = x /\ o[2] = y
  BY SeqTwo
<1>2. o # <<>>
  BY <1>1, SeqEmpty
<1>3. DnssecOptions[x] = 1 /\ x \in DOMAIN DnssecOptions /\ 2 = 1 + 1
  BY DnssecOptionsAre
<1>4. o[1] \in DOMAIN DnssecOptions /\ Len(o) = 1 + DnssecOptions[o[1]]
  BY <1>1, <1>3
<1>5. Run(DnssecOptions, o)
  BY <1>1, <1>2, <1>4, DnssecOptionsAre, RunOption
<1>6. QED
  BY <1>1, <1>5

(* The key, and then the moment. *)
KeyPart(sel) ==
  IF sel = None THEN <<>>
  ELSE <<"-key", Number(sel.tag)>> \o (IF sel.algorithm = None THEN <<>>
                                       ELSE <<"-alg", sel.algorithm>>)
WhenPart(when) == IF when = None THEN <<>> ELSE <<"-when", when>>

IsKeyPart(p, sel) ==
  /\ IsSeq(p) /\ Run(DnssecOptions, p)
  /\ \/ sel = None /\ p = <<>> /\ Len(p) = 0
     \/ /\ sel = [tag |-> 257, algorithm |-> None]
        /\ Len(p) = 2 /\ p[1] = "-key"
     \/ /\ sel = [tag |-> 257, algorithm |-> "13"]
        /\ Len(p) = 4 /\ p[1] = "-key" /\ p[3] = "-alg"

IsWhenPart(q, when) ==
  /\ IsSeq(q) /\ Run(DnssecOptions, q)
  /\ \/ when = None /\ q = <<>> /\ Len(q) = 0
     \/ when # None /\ Len(q) = 2 /\ q[1] = "-when" /\ q[2] = when

LEMMA WhenPartIs ==
  ASSUME NEW when \in Moments, NEW q, q = WhenPart(when)
  PROVE  IsWhenPart(q, when)
<1>1. CASE when = None
  BY <1>1, RunNone, SeqEmpty DEF WhenPart, IsWhenPart
<1>2. CASE when # None
  <2>1. PICK x : x = "-when"
    OBVIOUS
  <2>2. q = <<x, when>>
    BY <1>2, <2>1 DEF WhenPart
  <2>3. IsSeq(q) /\ Len(q) = 2 /\ q[1] = x /\ q[2] = when /\ Run(DnssecOptions, q)
    BY <2>1, <2>2, ValuedRun
  <2>4. QED
    BY <1>2, <2>1, <2>3 DEF IsWhenPart
<1>3. QED
  BY <1>1, <1>2

LEMMA KeyPartIs ==
  ASSUME NEW sel \in KeySelectors \cup {None}, NEW p, p = KeyPart(sel)
  PROVE  IsKeyPart(p, sel)
<1>1. CASE sel = None
  BY <1>1, RunNone, SeqEmpty DEF KeyPart, IsKeyPart
<1>2. CASE sel # None
  <2>1. sel \in KeySelectors
    BY <1>2
  <2>2. /\ sel = [tag |-> sel.tag, algorithm |-> sel.algorithm] /\ sel.tag = 257
        /\ sel.algorithm \in {None, "13"}
    BY <2>1 DEF KeySelectors
  <2>3. PICK x, z, n, m : x = "-key" /\ z = "-alg" /\ n = Number(sel.tag) /\ m = sel.algorithm
    OBVIOUS
  <2>4. PICK k, l : k = <<x, n>> /\ l = <<z, m>>
    OBVIOUS
  <2>5. IsSeq(k) /\ Len(k) = 2 /\ k[1] = x /\ Run(DnssecOptions, k)
    BY <2>3, <2>4, ValuedRun
  <2>6. IsSeq(l) /\ Len(l) = 2 /\ l[1] = z /\ Run(DnssecOptions, l)
    BY <2>3, <2>4, ValuedRun
  <2>7. CASE m = None
    <3>1. p = k \o <<>>
      BY <1>2, <2>3, <2>4, <2>7 DEF KeyPart
    <3>2. p = k
      BY <2>5, <3>1, SeqConcatEmpty
    <3>3. sel = [tag |-> 257, algorithm |-> None]
      BY <2>2, <2>3, <2>7
    <3>4. QED
      BY <2>3, <2>5, <3>2, <3>3 DEF IsKeyPart
  <2>8. CASE m # None
    <3>1. p = k \o l
      BY <1>2, <2>3, <2>4, <2>8 DEF KeyPart
    <3>2. /\ IsSeq(p) /\ Len(p) = Len(k) + Len(l) /\ \A i \in 1..Len(k) : p[i] = k[i]
          /\ \A i \in 1..Len(l) : p[Len(k) + i] = l[i]
      <4>1. IsSeq(k) /\ IsSeq(l)
        BY <2>5, <2>6
      <4>2. IsSeq(p) /\ Len(p) = Len(k) + Len(l)
        BY <3>1, <4>1, SeqConcat
      <4>3. \A i \in 1..Len(k) : p[i] = k[i]
        BY <3>1, <4>1, SeqConcat
      <4>4. \A i \in 1..Len(l) : p[Len(k) + i] = l[i]
        BY <3>1, <4>1, SeqConcat
      <4>5. QED
        BY <4>2, <4>3, <4>4
    <3>3. Run(DnssecOptions, p)
      BY <2>5, <2>6, <3>1, RunMore
    <3>4. 1 \in 1..Len(k) /\ 1 \in 1..Len(l) /\ Len(p) = 4 /\ Len(k) + 1 = 3
      BY <2>5, <2>6, <3>2
    <3>5. p[1] = x /\ p[3] = z
      BY <2>5, <2>6, <3>2, <3>4
    <3>6. m = "13"
      BY <2>2, <2>3, <2>8
    <3>7. sel = [tag |-> 257, algorithm |-> "13"]
      BY <2>2, <2>3, <3>6
    <3>8. QED
      BY <2>3, <3>2, <3>3, <3>4, <3>5, <3>7 DEF IsKeyPart
  <2>9. QED
    BY <2>7, <2>8
<1>3. QED
  BY <1>1, <1>2

-----------------------------------------------------------------------------
(* The options of a key event: what it is, the key, the moment. *)
IsKeyed(o, x, sel, when) ==
  /\ IsSeq(o) /\ Run(DnssecOptions, o) /\ Len(o) > 0 /\ o[1] = x
  /\ KeyIn(o) = sel /\ WhenIn(o) = when

(* The words of the event at their places. *)
Placed(o, x, p, q) ==
  /\ IsSeq(o) /\ o[1] = x /\ Len(o) = 1 + (Len(p) + Len(q))
  /\ \A i \in 1..Len(p) : o[1 + i] = p[i]
  /\ \A i \in 1..Len(q) : o[1 + (Len(p) + i)] = q[i]

LEMMA PlacedWords ==
  ASSUME NEW o, NEW x, NEW p, NEW q, IsSeq(p), IsSeq(q), o = <<x>> \o (p \o q)
  PROVE  Placed(o, x, p, q)
<1>1. PICK k : k = p \o q
  OBVIOUS
<1>2. IsSeq(k) /\ Len(k) = Len(p) + Len(q)
  BY <1>1, SeqConcat
<1>3. \A i \in 1..Len(p) : k[i] = p[i]
  BY <1>1, SeqConcat
<1>4. \A i \in 1..Len(q) : k[Len(p) + i] = q[i]
  BY <1>1, SeqConcat
<1>5. IsSeq(k) /\ o = <<x>> \o k
  BY <1>1, <1>2
<1>6. IsSeq(o) /\ o[1] = x
  BY ONLY <1>5, FirstWord
<1>7. Len(o) = 1 + Len(k)
  BY ONLY <1>5, FirstWord
<1>8. \A i \in 1..Len(k) : o[1 + i] = k[i]
  BY ONLY <1>5, FirstWord
<1>9. Len(p) \in Nat /\ Len(q) \in Nat
  BY SeqFacts
<1>10. ASSUME NEW i \in 1..Len(p) PROVE o[1 + i] = p[i]
  <2>1. i \in 1..Len(k)
    BY <1>2, <1>9
  <2>2. QED
    BY <1>3, <1>8, <2>1
<1>11. ASSUME NEW i \in 1..Len(q) PROVE o[1 + (Len(p) + i)] = q[i]
  <2>1. Len(p) + i \in 1..Len(k)
    BY <1>2, <1>9
  <2>2. o[1 + (Len(p) + i)] = k[Len(p) + i]
    BY <1>8, <2>1
  <2>3. QED
    BY <1>4, <2>2
<1>12. Len(o) = 1 + (Len(p) + Len(q))
  BY <1>2, <1>7
<1>13. QED
  BY <1>6, <1>10, <1>11, <1>12 DEF Placed

LEMMA KeyRead ==
  ASSUME NEW o, NEW x, NEW p, NEW q, NEW sel, NEW when, Placed(o, x, p, q),
         IsKeyPart(p, sel), IsWhenPart(q, when), sel \in KeySelectors \cup {None}
  PROVE  KeyIn(o) = sel
<1>1. \A i \in 1..Len(p) : o[1 + i] = p[i]
  BY DEF Placed
<1>2. \A i \in 1..Len(q) : o[1 + (Len(p) + i)] = q[i]
  BY DEF Placed
<1>3. Len(o) = 1 + (Len(p) + Len(q))
  BY DEF Placed
<1>4. (Len(q) = 0 \/ (Len(q) = 2 /\ q[1] = "-when")) /\ IsSeq(q) /\ IsSeq(p)
  BY DEF IsWhenPart, IsKeyPart
<1>5. CASE sel = None /\ Len(p) = 0
  <2>1. CASE Len(q) = 0
    <3>1. ~(Len(o) > 1)
      BY <1>3, <1>5, <2>1
    <3>2. QED
      BY <1>5, <3>1 DEF KeyIn
  <2>2. CASE Len(q) = 2
    <3>1. 1 \in 1..Len(q) /\ 1 + (Len(p) + 1) = 2
      BY <1>5, <2>2
    <3>2. o[2] = "-when"
      BY <1>2, <1>4, <2>2, <3>1
    <3>3. o[2] # "-key"
      BY <3>2
    <3>4. QED
      BY <1>5, <3>3 DEF KeyIn
  <2>3. QED
    BY <1>4, <2>1, <2>2
<1>6. CASE sel = [tag |-> 257, algorithm |-> None] /\ Len(p) = 2 /\ p[1] = "-key"
  <2>1. 1 \in 1..Len(p) /\ 1 + 1 = 2 /\ Len(o) > 1
    BY <1>3, <1>4, <1>6
  <2>2. o[2] = "-key"
    BY <1>1, <1>6, <2>1
  <2>3. ~(Len(o) > 3) \/ o[4] # "-alg"
    <3>1. CASE Len(q) = 0
      BY <1>3, <1>6, <3>1
    <3>2. CASE Len(q) = 2
      <4>1. 1 \in 1..Len(q) /\ 1 + (Len(p) + 1) = 4
        BY <1>6, <3>2
      <4>2. o[4] = "-when"
        BY <1>2, <1>4, <3>2, <4>1
      <4>3. QED
        BY <4>2
    <3>3. QED
      BY <1>4, <3>1, <3>2
  <2>4. KeyIn(o) = [tag |-> 257, algorithm |-> None]
    BY <2>1, <2>2, <2>3 DEF KeyIn
  <2>5. QED
    BY <1>6, <2>4
<1>7. CASE /\ sel = [tag |-> 257, algorithm |-> "13"]
           /\ Len(p) = 4 /\ p[1] = "-key" /\ p[3] = "-alg"
  <2>1. 1 \in 1..Len(p) /\ 3 \in 1..Len(p) /\ 1 + 1 = 2 /\ 1 + 3 = 4
    BY <1>7
  <2>2. Len(o) > 1 /\ Len(o) > 3
    BY <1>3, <1>4, <1>7
  <2>3. o[2] = "-key"
    BY <1>1, <1>7, <2>1
  <2>4. o[4] = "-alg"
    BY <1>1, <1>7, <2>1
  <2>5. KeyIn(o) = [tag |-> 257, algorithm |-> "13"]
    BY <2>2, <2>3, <2>4 DEF KeyIn
  <2>6. QED
    BY <1>7, <2>5
<1>8. QED
  BY <1>5, <1>6, <1>7 DEF IsKeyPart

LEMMA WhenRead ==
  ASSUME NEW o, NEW x, NEW p, NEW q, NEW sel, NEW when, Placed(o, x, p, q),
         IsKeyPart(p, sel), IsWhenPart(q, when), x # "-when"
  PROVE  WhenIn(o) = when
<1>1. \A i \in 1..Len(p) : o[1 + i] = p[i]
  BY DEF Placed
<1>2. \A i \in 1..Len(q) : o[1 + (Len(p) + i)] = q[i]
  BY DEF Placed
<1>3. Len(o) = 1 + (Len(p) + Len(q))
  BY DEF Placed
<1>4. \/ Len(p) = 0
      \/ Len(p) = 2 /\ p[1] = "-key"
      \/ Len(p) = 4 /\ p[3] = "-alg"
  BY DEF IsKeyPart
<1>5. CASE when = None /\ Len(q) = 0
  <2>1. CASE Len(p) = 0
    <3>1. ~(Len(o) > 1)
      BY <1>3, <1>5, <2>1
    <3>2. QED
      BY <1>5, <3>1 DEF WhenIn
  <2>2. CASE Len(p) = 2 /\ p[1] = "-key"
    <3>1. 1 \in 1..Len(p) /\ 1 + 1 = 2 /\ Len(o) = 3
      BY <1>3, <1>5, <2>2
    <3>2. o[2] = "-key"
      BY <1>1, <2>2, <3>1
    <3>3. Len(o) - 1 = 2
      BY <3>1
    <3>4. o[Len(o) - 1] # "-when"
      BY <3>2, <3>3
    <3>5. QED
      BY <1>5, <3>4 DEF WhenIn
  <2>3. CASE Len(p) = 4 /\ p[3] = "-alg"
    <3>1. 3 \in 1..Len(p) /\ 1 + 3 = 4 /\ Len(o) = 5
      BY <1>3, <1>5, <2>3
    <3>2. o[4] = "-alg"
      BY <1>1, <2>3, <3>1
    <3>3. Len(o) - 1 = 4
      BY <3>1
    <3>4. o[Len(o) - 1] # "-when"
      BY <3>2, <3>3
    <3>5. QED
      BY <1>5, <3>4 DEF WhenIn
  <2>4. QED
    BY <1>4, <2>1, <2>2, <2>3
<1>6. CASE Len(q) = 2 /\ q[1] = "-when" /\ q[2] = when
  <2>1. 1 \in 1..Len(q) /\ 2 \in 1..Len(q)
    BY <1>6
  <2>2. o[1 + (Len(p) + 1)] = "-when"
    BY <1>2, <1>6, <2>1
  <2>3. o[1 + (Len(p) + 2)] = when
    BY <1>2, <1>6, <2>1
  <2>4. /\ Len(o) = 1 + (Len(p) + 2) /\ Len(o) - 1 = 1 + (Len(p) + 1) /\ Len(o) > 1
    BY <1>3, <1>4, <1>6
  <2>5. o[Len(o) - 1] = "-when" /\ o[Len(o)] = when
    BY <2>2, <2>3, <2>4
  <2>6. QED
    BY <2>4, <2>5 DEF WhenIn
<1>7. QED
  BY <1>5, <1>6 DEF IsWhenPart

LEMMA KeyOptionsIsSeq ==
  ASSUME NEW sel \in KeySelectors \cup {None}, NEW when \in Moments
  PROVE  IsSeq(KeyOptions(sel, when))
<1>1. PICK p, q : p = KeyPart(sel) /\ q = WhenPart(when)
  OBVIOUS
<1>2. IsSeq(p) /\ IsSeq(q)
  BY <1>1, KeyPartIs, WhenPartIs DEF IsKeyPart, IsWhenPart
<1>3. KeyOptions(sel, when) = p \o q
  BY <1>1 DEF KeyOptions, KeyPart, WhenPart
<1>4. QED
  BY <1>2, <1>3, SeqConcat

LEMMA KeyedOptions ==
  ASSUME NEW x \in {"-checkds", "-rollover"}, NEW sel \in KeySelectors \cup {None},
         NEW when \in Moments, NEW o, o = <<x>> \o KeyOptions(sel, when)
  PROVE  IsKeyed(o, x, sel, when)
<1>1. PICK p, q, h : p = KeyPart(sel) /\ q = WhenPart(when) /\ h = <<x>>
  OBVIOUS
<1>2. IsKeyPart(p, sel) /\ IsWhenPart(q, when)
  BY <1>1, KeyPartIs, WhenPartIs
<1>3. o = <<x>> \o (p \o q)
  BY <1>1 DEF KeyOptions, KeyPart, WhenPart
<1>4. IsSeq(p) /\ IsSeq(q) /\ Run(DnssecOptions, p) /\ Run(DnssecOptions, q)
  BY <1>2 DEF IsKeyPart, IsWhenPart
<1>5. Placed(o, x, p, q)
  BY ONLY <1>3, <1>4, PlacedWords
<1>6. KeyIn(o) = sel /\ WhenIn(o) = when
  BY <1>2, <1>5, KeyRead, WhenRead
<1>7. Run(DnssecOptions, o)
  <2>1. Run(DnssecOptions, h)
    BY <1>1, FlagRun
  <2>2. Run(DnssecOptions, p \o q)
    BY <1>4, RunMore
  <2>3. Run(DnssecOptions, h \o (p \o q))
    BY <2>1, <2>2, RunMore
  <2>4. QED
    BY <1>1, <1>3, <2>3
<1>8. IsSeq(o) /\ o[1] = x /\ Len(o) = 1 + (Len(p) + Len(q))
  BY <1>5 DEF Placed
<1>9. Len(p) \in Nat /\ Len(q) \in Nat
  BY <1>4, SeqFacts
<1>10. Len(o) > 0
  BY <1>8, <1>9
<1>11. QED
  BY <1>6, <1>7, <1>8, <1>10 DEF IsKeyed

-----------------------------------------------------------------------------
(* The first option decides how many arguments there are. *)
LEMMA DnssecRule ==
  ASSUME NEW ws, NEW v, NEW o, NEW r, v = "dnssec", IsSeq(o), IsSeq(r), Len(o) > 0,
         ws = <<v>> \o (o \o r)
  PROVE  RuleFor(ws) = Rule(DnssecOptions, IF o[1] = "-checkds" THEN 1 ELSE 0, "zone")
<1>1. IsSeq(o) /\ IsSeq(r) /\ ws = <<v>> \o (o \o r)
  OBVIOUS
<1>2. Opening(ws, v, o, r)
  BY ONLY <1>1, SecondWord
<1>3. /\ ws[1] = v /\ Len(ws) = 1 + Len(o) + Len(r)
      /\ \A i \in 1..Len(o) : ws[1 + i] = o[i]
  BY <1>2 DEF Opening
<1>4. Len(o) \in Nat /\ Len(r) \in Nat
  BY SeqFacts
<1>5. 1 \in 1..Len(o) /\ 1 + 1 = 2 /\ Len(ws) > 1
  BY <1>3, <1>4
<1>6. ws[2] = o[1]
  BY <1>3, <1>5
<1>7. ws[1] = "dnssec"
  BY <1>3
<1>8. QED
  BY <1>5, <1>6, <1>7 DEF RuleFor, DnssecOptions

(* Options of an event, an argument or none, and a zone. *)
Event(ws, v, o, a, t) ==
  /\ v = "dnssec" /\ IsSeq(o) /\ Run(DnssecOptions, o) /\ Len(o) > 0
  /\ IsSeq(a) /\ Len(a) = (IF o[1] = "-checkds" THEN 1 ELSE 0)
  /\ (a = <<>> \/ a[1] \in DsStates) /\ IsScope(t) /\ t # <<>> /\ t[1] \in Names
  /\ ws = <<v>> \o (o \o (a \o t))

LEMMA EventRead ==
  ASSUME NEW ws, NEW v, NEW o, NEW a, NEW t, Event(ws, v, o, a, t)
  PROVE  Parses(ws, v, o, a, ScopeOf(t))
<1>1. PICK r : r = a \o t
  OBVIOUS
<1>2. IsSeq(a) /\ IsSeq(t) /\ IsSeq(o) /\ Len(o) > 0 /\ v = "dnssec"
  BY DEF Event, IsScope
<1>3. IsSeq(r) /\ ws = <<v>> \o (o \o r)
  BY <1>1, <1>2, SeqConcat DEF Event
<1>4. PICK n : n = IF o[1] = "-checkds" THEN 1 ELSE 0
  OBVIOUS
<1>5. RuleFor(ws) = Rule(DnssecOptions, n, "zone")
  BY <1>2, <1>3, <1>4, DnssecRule
<1>6. Len(a) = n
  BY <1>4 DEF Event
<1>7. r = <<>> \/ r[1] \notin DOMAIN DnssecOptions
  <2>1. CASE a = <<>>
    <3>1. r = t
      BY <1>1, <1>2, <2>1, SeqConcatEmpty
    <3>2. t[1] \notin OptionWords
      BY NameIsNone DEF Event
    <3>3. QED
      BY <3>1, <3>2, DnssecOptionsAre
  <2>2. CASE a # <<>>
    <3>1. a[1] \in DsStates /\ Len(a) # 0
      BY <1>2, <2>2, SeqEmpty DEF Event
    <3>2. \A i \in 1..Len(a) : r[i] = a[i]
      BY <1>1, <1>2, SeqConcat
    <3>3. 1 \in 1..Len(a)
      BY <1>2, <3>1, SeqFacts
    <3>4. r[1] = a[1]
      BY <3>2, <3>3
    <3>5. QED
      BY <3>1, <3>4, DnssecOptionsAre DEF DsStates
  <2>3. QED
    BY <2>1, <2>2
<1>8. Stops(DnssecOptions, r)
  BY <1>3, <1>7 DEF Stops
<1>9. Splits(ws, v, o, a, t, DnssecOptions, "zone")
  BY <1>1, <1>2, <1>3, <1>5, <1>6, <1>8, DnssecOptionsAre DEF Splits, Event
<1>10. QED
  BY <1>9, ParsedZone DEF Event, IsScope

LEMMA KnownDnssecStatus ==
  ASSUME NEW c, c.kind = "DnssecStatus", DOMAIN c = {"kind", "target"},
         c = [f \in DOMAIN c |-> c[f]], c.target \in Targets, Words(c) = KeyWords(c)
  PROVE  Known(c)
<1>1. PICK v, x, o, t : v = "dnssec" /\ x = "-status" /\ o = <<x>> /\ t = CommandArgs(c.target)
  OBVIOUS
<1>2. /\ IsScope(t) /\ t # <<>> /\ t[1] \in Names /\ Scope(c) = ScopeOf(t) /\ IsSeq(t)
  <2>1. c.target.zone \in Names
    BY DEF Targets
  <2>2. QED
    BY <1>1, <2>1, TargetWords, TargetScope DEF IsScope
<1>3. IsSeq(o) /\ Len(o) = 1 /\ o[1] = x /\ Run(DnssecOptions, o)
  BY <1>1, FlagRun
<1>4. Words(c) = <<v, x>> \o t
  BY <1>1 DEF KeyWords
<1>5. Words(c) = <<v>> \o (o \o t)
  BY <1>1, <1>2, <1>4, OneAndOne, SeqOne, SeqConcatThree
<1>6. IsSeq(<<>>) /\ Len(<<>>) = 0 /\ <<>> \o t = t
  BY <1>2, SeqEmpty, SeqConcatEmpty
<1>7. Event(Words(c), v, o, <<>>, t)
  BY <1>1, <1>2, <1>3, <1>5, <1>6 DEF Event
<1>8. Parses(Words(c), v, o, <<>>, Scope(c))
  BY <1>2, <1>7, EventRead
<1>9. Stripped(c) = [kind |-> "DnssecStatus"]
  BY DEF Stripped
<1>10. Meaning(v, o, <<>>, Scope(c)) = [kind |-> "DnssecStatus"]
  BY <1>1, <1>3 DEF Meaning, BareVerbs
<1>11. v # "syntax error"
  BY <1>1
<1>12. QED
  BY <1>8, <1>9, <1>10, <1>11 DEF Known

LEMMA KnownDnssecCheckDs ==
  ASSUME NEW c, c.kind = "DnssecCheckDs",
         DOMAIN c = {"kind", "target", "state", "key", "when"},
         c = [f \in DOMAIN c |-> c[f]], c.target \in Targets, c.state \in DsStates,
         c.key \in KeySelectors \cup {None}, c.when \in Moments, Words(c) = KeyWords(c)
  PROVE  Known(c)
<1>1. PICK v, x, y, t : v = "dnssec" /\ x = "-checkds" /\ y = c.state /\ t = CommandArgs(c.target)
  OBVIOUS
<1>2. PICK h, p, q, b : /\ h = <<v>> /\ p = <<x>> /\ b = <<y>>
                        /\ q = KeyOptions(c.key, c.when)
  OBVIOUS
<1>3. PICK o : o = p \o q
  OBVIOUS
<1>4. /\ IsScope(t) /\ t # <<>> /\ t[1] \in Names /\ Scope(c) = ScopeOf(t) /\ IsSeq(t)
  <2>1. c.target.zone \in Names
    BY DEF Targets
  <2>2. QED
    BY <1>1, <2>1, TargetWords, TargetScope DEF IsScope
<1>5. IsKeyed(o, x, c.key, c.when)
  BY <1>1, <1>2, <1>3, KeyedOptions
<1>6. IsSeq(h) /\ IsSeq(p) /\ IsSeq(b) /\ Len(b) = 1 /\ b[1] = y
  BY <1>2, SeqOne
<1>7. IsSeq(q)
  BY <1>2, KeyOptionsIsSeq
<1>8. Words(c) = (((h \o p) \o q) \o b) \o t
  <2>1. Words(c) = ((<<v, x>> \o q) \o b) \o t
    BY <1>1, <1>2 DEF KeyWords
  <2>2. <<v, x>> = h \o p
    BY <1>2, OneAndOne
  <2>3. QED
    BY <2>1, <2>2
<1>9. Chained(Words(c), h, p, q, b, t)
  BY <1>4, <1>6, <1>7, <1>8 DEF Chained
<1>10. Words(c) = h \o ((p \o q) \o (b \o t))
  BY ONLY <1>9, ChainedWords
<1>11. Words(c) = <<v>> \o (o \o (b \o t))
  BY <1>2, <1>3, <1>10
<1>12. Event(Words(c), v, o, b, t)
  BY <1>1, <1>4, <1>5, <1>6, <1>11 DEF Event, IsKeyed
<1>13. Parses(Words(c), v, o, b, Scope(c))
  BY <1>4, <1>12, EventRead
<1>14. Stripped(c) = [kind |-> "DnssecCheckDs", state |-> y, key |-> c.key, when |-> c.when]
  BY <1>1 DEF Stripped
<1>15. o[1] = "-checkds" /\ KeyIn(o) = c.key /\ WhenIn(o) = c.when
  BY <1>1, <1>5 DEF IsKeyed
<1>16. Meaning(v, o, b, Scope(c))
         = [kind |-> "DnssecCheckDs", state |-> b[1], key |-> KeyIn(o), when |-> WhenIn(o)]
  BY <1>1, <1>15 DEF Meaning, BareVerbs
<1>17. v # "syntax error"
  BY <1>1
<1>18. QED
  BY <1>6, <1>13, <1>14, <1>15, <1>16, <1>17 DEF Known

LEMMA KnownDnssecRollover ==
  ASSUME NEW c, c.kind = "DnssecRollover", DOMAIN c = {"kind", "target", "key", "when"},
         c = [f \in DOMAIN c |-> c[f]], c.target \in Targets,
         c.key \in KeySelectors, c.when \in Moments, Words(c) = ServerWords(c)
  PROVE  Known(c)
<1>1. PICK v, x, t : v = "dnssec" /\ x = "-rollover" /\ t = CommandArgs(c.target)
  OBVIOUS
<1>2. PICK h, p, q, e : /\ h = <<v>> /\ p = <<x>> /\ q = KeyOptions(c.key, c.when)
                        /\ e = <<>>
  OBVIOUS
<1>3. PICK o : o = p \o q
  OBVIOUS
<1>4. /\ IsScope(t) /\ t # <<>> /\ t[1] \in Names /\ Scope(c) = ScopeOf(t) /\ IsSeq(t)
  <2>1. c.target.zone \in Names
    BY DEF Targets
  <2>2. QED
    BY <1>1, <2>1, TargetWords, TargetScope DEF IsScope
<1>5. IsKeyed(o, x, c.key, c.when)
  BY <1>1, <1>2, <1>3, KeyedOptions
<1>6. IsSeq(h) /\ IsSeq(p) /\ IsSeq(e) /\ Len(e) = 0 /\ e \o t = t
  BY <1>2, <1>4, SeqOne, SeqEmpty, SeqConcatEmpty
<1>7. IsSeq(q)
  BY <1>2, KeyOptionsIsSeq
<1>8. Words(c) = (((h \o p) \o q) \o e) \o t
  <2>1. Words(c) = (<<v, x>> \o q) \o t
    BY <1>1, <1>2 DEF ServerWords
  <2>2. <<v, x>> = h \o p
    BY <1>2, OneAndOne
  <2>3. IsSeq(h \o p)
    BY <1>6, SeqConcat
  <2>4. IsSeq((h \o p) \o q)
    BY <1>7, <2>3, SeqConcat
  <2>5. ((h \o p) \o q) \o e = (h \o p) \o q
    BY <1>2, <2>4, SeqConcatEmpty
  <2>6. QED
    BY <2>1, <2>2, <2>5
<1>9. Chained(Words(c), h, p, q, e, t)
  BY <1>4, <1>6, <1>7, <1>8 DEF Chained
<1>10. Words(c) = h \o ((p \o q) \o (e \o t))
  BY ONLY <1>9, ChainedWords
<1>11. Words(c) = <<v>> \o (o \o (e \o t))
  BY <1>2, <1>3, <1>10
<1>12. Event(Words(c), v, o, e, t)
  BY <1>1, <1>2, <1>4, <1>5, <1>6, <1>11 DEF Event, IsKeyed
<1>13. Parses(Words(c), v, o, e, Scope(c))
  BY <1>4, <1>12, EventRead
<1>14. Stripped(c) = [kind |-> "DnssecRollover", key |-> c.key, when |-> c.when]
  BY DEF Stripped
<1>15. o[1] = "-rollover" /\ KeyIn(o) = c.key /\ WhenIn(o) = c.when
  BY <1>1, <1>5 DEF IsKeyed
<1>16. Meaning(v, o, e, Scope(c))
         = [kind |-> "DnssecRollover", key |-> KeyIn(o), when |-> WhenIn(o)]
  BY <1>1, <1>15 DEF Meaning, BareVerbs
<1>17. v # "syntax error"
  BY <1>1
<1>18. QED
  BY <1>13, <1>14, <1>15, <1>16, <1>17 DEF Known

-----------------------------------------------------------------------------
(* The operations of signing: their first word, their length, and what     *)
(* they are read back as.                                                  *)
SigningOptions(n) ==
  [Options({"-list"}, {"-clear", "-serial", "-nsec3param"}) EXCEPT !["-nsec3param"] = n]

LEMMA SigningOptionsAre ==
  ASSUME NEW n \in Nat
  PROVE  /\ DOMAIN SigningOptions(n) = {"-list", "-clear", "-serial", "-nsec3param"}
         /\ IsOptions(SigningOptions(n)) /\ DOMAIN SigningOptions(n) \subseteq OptionWords
         /\ SigningOptions(n)["-list"] = 0 /\ SigningOptions(n)["-clear"] = 1
         /\ SigningOptions(n)["-serial"] = 1 /\ SigningOptions(n)["-nsec3param"] = n
<1>1. PICK f : f = Options({"-list"}, {"-clear", "-serial", "-nsec3param"})
  OBVIOUS
<1>2. /\ f = [x \in {"-list", "-clear", "-serial", "-nsec3param"} |-> f[x]]
      /\ f["-list"] = 0 /\ f["-clear"] = 1 /\ f["-serial"] = 1
  BY <1>1 DEF Options
<1>3. PICK g : g = SigningOptions(n)
  OBVIOUS
<1>4. g = [f EXCEPT !["-nsec3param"] = n]
  BY <1>1, <1>3 DEF SigningOptions
<1>5. DOMAIN g = {"-list", "-clear", "-serial", "-nsec3param"}
  BY <1>2, <1>4
<1>6. g["-list"] = 0 /\ g["-clear"] = 1 /\ g["-serial"] = 1 /\ g["-nsec3param"] = n
  BY <1>2, <1>4
<1>7. IsOptions(g)
  BY <1>5, <1>6 DEF IsOptions
<1>8. DOMAIN g \subseteq OptionWords
  BY <1>5 DEF OptionWords
<1>9. QED
  BY <1>3, <1>5, <1>6, <1>7, <1>8

(* How many words "-nsec3param" takes. *)
ParamWords(third) == IF third = "none" THEN 1 ELSE 4

IsOperation(o, action) ==
  /\ IsSeq(o) /\ Len(o) > 0
  /\ \/ o[1] = "-list" /\ Len(o) = 1
     \/ o[1] \in {"-clear", "-serial"} /\ Len(o) = 2
     \/ o[1] = "-nsec3param" /\ Len(o) = 2 /\ o[2] = "none"
     \/ o[1] = "-nsec3param" /\ Len(o) = 5 /\ o[2] # "none"
  /\ OperationOf(o) = action

LEMMA TwoWords ==
  ASSUME NEW a, NEW x \in {"-clear", "-serial", "-nsec3param"}, NEW y, NEW o, o = <<x, y>>,
         x = "-nsec3param" => y = "none",
         OperationOf(o) = a
  PROVE  IsOperation(o, a)
<1>1. IsSeq(o) /\ Len(o) = 2 /\ o[1] = x /\ o[2] = y
  BY SeqTwo
<1>2. QED
  BY <1>1 DEF IsOperation

LEMMA Operations ==
  ASSUME NEW a \in SigningActions, NEW o, o = SigningOperation(a)
  PROVE  IsOperation(o, a)
<1>1. CASE a \in [is : {"ClearAll"}]
  <2>1. a = [is |-> "ClearAll"] /\ a.is = "ClearAll"
    BY <1>1
  <2>2. PICK x, y : x = "-clear" /\ y = "all"
    OBVIOUS
  <2>3. o = <<x, y>>
    BY <2>1, <2>2 DEF SigningOperation
  <2>4. o[1] = x /\ o[2] = y
    BY <2>3, SeqTwo
  <2>5. OperationOf(o) = a
    BY <2>1, <2>2, <2>4 DEF OperationOf
  <2>6. QED
    BY <2>2, <2>3, <2>5, TwoWords
<1>2. CASE a \in [is : {"ClearKey"}, key : {"257/13"}]
  <2>1. a = [is |-> "ClearKey", key |-> "257/13"] /\ a.is = "ClearKey" /\ a.key = "257/13"
    BY <1>2
  <2>2. PICK x, y : x = "-clear" /\ y = "257/13"
    OBVIOUS
  <2>3. o = <<x, y>>
    BY <2>1, <2>2 DEF SigningOperation
  <2>4. o[1] = x /\ o[2] = y
    BY <2>3, SeqTwo
  <2>5. OperationOf(o) = a
    BY <2>1, <2>2, <2>4 DEF OperationOf
  <2>6. QED
    BY <2>2, <2>3, <2>5, TwoWords
<1>3. CASE a \in [is : {"List"}]
  <2>1. a = [is |-> "List"] /\ a.is = "List"
    BY <1>3
  <2>2. PICK x : x = "-list"
    OBVIOUS
  <2>3. o = <<x>>
    BY <2>1, <2>2 DEF SigningOperation
  <2>4. IsSeq(o) /\ Len(o) = 1 /\ o[1] = x
    BY <2>3, SeqOne
  <2>5. OperationOf(o) = a
    BY <2>1, <2>2, <2>4 DEF OperationOf
  <2>6. QED
    BY <2>2, <2>4, <2>5 DEF IsOperation
<1>4. CASE a \in [is : {"Nsec3ParamNone"}]
  <2>1. a = [is |-> "Nsec3ParamNone"] /\ a.is = "Nsec3ParamNone"
    BY <1>4
  <2>2. PICK x, y : x = "-nsec3param" /\ y = "none"
    OBVIOUS
  <2>3. o = <<x, y>>
    BY <2>1, <2>2 DEF SigningOperation
  <2>4. o[1] = x /\ o[2] = y
    BY <2>3, SeqTwo
  <2>5. OperationOf(o) = a
    BY <2>1, <2>2, <2>4 DEF OperationOf
  <2>6. QED
    BY <2>2, <2>3, <2>5, TwoWords
<1>5. CASE a \in [is : {"Serial"}, serial : {7}]
  <2>1. a = [is |-> "Serial", serial |-> 7] /\ a.is = "Serial" /\ a.serial = 7
    BY <1>5
  <2>2. PICK x, y : x = "-serial" /\ y = Number(a.serial)
    OBVIOUS
  <2>3. o = <<x, y>>
    BY <2>1, <2>2 DEF SigningOperation
  <2>4. o[1] = x /\ o[2] = y
    BY <2>3, SeqTwo
  <2>5. OperationOf(o) = a
    BY <2>1, <2>2, <2>4 DEF OperationOf
  <2>6. QED
    BY <2>2, <2>3, <2>5, TwoWords
<1>6. CASE a \in [is : {"Nsec3Param"}, hash : {1}, flags : {0, 1}, iterations : {0}, salt : {"ab"}]
  <2>1. PICK m \in {0, 1} : a = [is |-> "Nsec3Param", hash |-> 1, flags |-> m,
                                 iterations |-> 0, salt |-> "ab"]
    BY <1>6
  <2>2. a.is = "Nsec3Param" /\ a.hash = 1 /\ a.flags = m /\ a.iterations = 0 /\ a.salt = "ab"
    BY <2>1
  <2>3. PICK x, y, f, i, s : /\ x = "-nsec3param" /\ y = Number(a.hash) /\ f = Number(a.flags)
                             /\ i = Number(a.iterations) /\ s = a.salt
    OBVIOUS
  <2>4. o = <<x, y, f, i, s>>
    BY <2>2, <2>3 DEF SigningOperation
  <2>5. o \in Seq({x, y, f, i, s}) /\ Len(o) = 5 /\ o[1] = x /\ o[2] = y /\ o[3] = f
    BY <2>4
  <2>6. IsSeq(o)
    BY <2>5 DEF IsSeq
  <2>7. y = "1"
    BY <2>2, <2>3 DEF Number
  <2>8. (m = 0 => f = "0") /\ (m = 1 => f = "1")
    BY <2>2, <2>3 DEF Number
  <2>9. m = IF f = "0" THEN 0 ELSE 1
    BY <2>8
  <2>10. o[1] = "-nsec3param" /\ o[2] # "none" /\ o[3] = f
    BY <2>3, <2>5, <2>7
  <2>11. OperationOf(o) = [is |-> "Nsec3Param", hash |-> 1, flags |-> m,
                           iterations |-> 0, salt |-> "ab"]
    BY <2>9, <2>10 DEF OperationOf
  <2>12. QED
    BY <2>1, <2>5, <2>6, <2>10, <2>11 DEF IsOperation
<1>7. QED
  BY <1>1, <1>2, <1>3, <1>4, <1>5, <1>6 DEF SigningActions

LEMMA OperationRun ==
  ASSUME NEW o, NEW a, NEW third, IsOperation(o, a), Len(o) > 1 => third = o[2]
  PROVE  Run(SigningOptions(ParamWords(third)), o)
<1>1. PICK n \in Nat : n = ParamWords(third)
  BY DEF ParamWords
<1>2. PICK options : options = SigningOptions(n)
  OBVIOUS
<1>3. /\ DOMAIN options = {"-list", "-clear", "-serial", "-nsec3param"} /\ IsOptions(options)
      /\ options["-list"] = 0 /\ options["-clear"] = 1
      /\ options["-serial"] = 1 /\ options["-nsec3param"] = n
  BY <1>2, SigningOptionsAre
<1>4. IsSeq(o) /\ o # <<>>
  BY SeqEmpty DEF IsOperation
<1>5. o[1] \in DOMAIN options
  BY <1>3 DEF IsOperation
<1>6. Len(o) = 1 + options[o[1]]
  <2>1. CASE o[1] = "-list" /\ Len(o) = 1
    BY <1>3, <2>1
  <2>2. CASE o[1] \in {"-clear", "-serial"} /\ Len(o) = 2
    BY <1>3, <2>2
  <2>3. CASE o[1] = "-nsec3param" /\ Len(o) = 2 /\ o[2] = "none"
    <3>1. n = 1
      BY <1>1, <2>3 DEF ParamWords
    <3>2. QED
      BY <1>3, <2>3, <3>1
  <2>4. CASE o[1] = "-nsec3param" /\ Len(o) = 5 /\ o[2] # "none"
    <3>1. n = 4
      BY <1>1, <2>4 DEF ParamWords
    <3>2. QED
      BY <1>3, <2>4, <3>1
  <2>5. QED
    BY <2>1, <2>2, <2>3, <2>4 DEF IsOperation
<1>7. Run(options, o)
  BY <1>3, <1>4, <1>5, <1>6, RunOption
<1>8. QED
  BY <1>1, <1>2, <1>7

-----------------------------------------------------------------------------
(* signing: an operation, and then a zone. *)
SigningSplit(ws, v, o, a, t) ==
  /\ v = "signing" /\ IsOperation(o, a) /\ IsScope(t) /\ t # <<>> /\ t[1] \in Names
  /\ ws = <<v>> \o (o \o t)

LEMMA SigningRule ==
  ASSUME NEW ws, NEW v, NEW o, NEW a, NEW t, SigningSplit(ws, v, o, a, t)
  PROVE  \E third : /\ RuleFor(ws) = Rule(SigningOptions(ParamWords(third)), 0, "zone")
                    /\ (Len(o) > 1 => third = o[2])
<1>1. v = "signing" /\ IsSeq(o) /\ Len(o) > 0 /\ IsSeq(t) /\ ws = <<v>> \o (o \o t)
  BY DEF SigningSplit, IsOperation, IsScope
<1>2. Opening(ws, v, o, t)
  <2>1. IsSeq(o) /\ IsSeq(t) /\ ws = <<v>> \o (o \o t)
    BY <1>1
  <2>2. QED
    BY ONLY <2>1, SecondWord
<1>3. /\ ws[1] = v /\ Len(ws) = 1 + Len(o) + Len(t)
      /\ \A i \in 1..Len(o) : ws[1 + i] = o[i]
  BY <1>2 DEF Opening
<1>4. Len(o) \in Nat /\ Len(t) \in Nat
  BY <1>1, SeqFacts
<1>5. PICK third : third = IF Len(ws) > 2 THEN ws[3] ELSE ""
  OBVIOUS
<1>6. Len(o) > 1 => third = o[2]
  <2>1. ASSUME Len(o) > 1 PROVE third = o[2]
    <3>1. 2 \in 1..Len(o) /\ 1 + 2 = 3 /\ Len(ws) > 2
      BY <1>3, <1>4, <2>1
    <3>2. ws[3] = o[2]
      BY <1>3, <3>1
    <3>3. QED
      BY <1>5, <3>1, <3>2
  <2>2. QED
    BY <2>1
<1>7. ws[1] = "signing"
  BY <1>1, <1>3
<1>8. RuleFor(ws) = Rule(SigningOptions(ParamWords(third)), 0, "zone")
  BY <1>5, <1>7 DEF RuleFor, SigningOptions, ParamWords
<1>9. QED
  BY <1>6, <1>8

LEMMA SigningRead ==
  ASSUME NEW ws, NEW v, NEW o, NEW a, NEW t, SigningSplit(ws, v, o, a, t)
  PROVE  Parses(ws, v, o, <<>>, ScopeOf(t))
<1>1. PICK third : /\ RuleFor(ws) = Rule(SigningOptions(ParamWords(third)), 0, "zone")
                   /\ (Len(o) > 1 => third = o[2])
  BY SigningRule
<1>2. PICK options : options = SigningOptions(ParamWords(third))
  OBVIOUS
<1>3. IsOperation(o, a) /\ IsScope(t) /\ t # <<>> /\ t[1] \in Names /\ ws = <<v>> \o (o \o t)
  BY DEF SigningSplit
<1>4. Run(options, o)
  BY <1>1, <1>2, <1>3, OperationRun
<1>5. ParamWords(third) \in Nat
  BY DEF ParamWords
<1>6. IsOptions(options) /\ DOMAIN options \subseteq OptionWords
  BY <1>2, <1>5, SigningOptionsAre
<1>7. IsSeq(o)
  BY <1>3 DEF IsOperation
<1>8. RuleFor(ws) = Rule(options, 0, "zone")
  BY <1>1, <1>2
<1>9. QED
  BY <1>3, <1>4, <1>6, <1>7, <1>8, ZoneAfterOptions

LEMMA KnownSigning ==
  ASSUME NEW c, c.kind = "Signing", DOMAIN c = {"kind", "action", "target"},
         c = [f \in DOMAIN c |-> c[f]], c.target \in Targets, c.action \in SigningActions,
         Words(c) = ControlWords(c)
  PROVE  Known(c)
<1>1. PICK v, o, t, h : /\ v = "signing" /\ o = SigningOperation(c.action)
                        /\ t = CommandArgs(c.target) /\ h = <<v>>
  OBVIOUS
<1>2. /\ IsScope(t) /\ t # <<>> /\ t[1] \in Names /\ Scope(c) = ScopeOf(t) /\ IsSeq(t)
  <2>1. c.target.zone \in Names
    BY DEF Targets
  <2>2. QED
    BY <1>1, <2>1, TargetWords, TargetScope DEF IsScope
<1>3. IsOperation(o, c.action)
  BY <1>1, Operations
<1>4. IsSeq(o) /\ IsSeq(h)
  BY <1>1, <1>3, SeqOne DEF IsOperation
<1>5. Words(c) = (h \o o) \o t
  BY <1>1 DEF ControlWords
<1>6. (h \o o) \o t = h \o (o \o t)
  BY <1>2, <1>4, SeqConcatThree
<1>7. Words(c) = <<v>> \o (o \o t)
  BY <1>1, <1>5, <1>6
<1>8. SigningSplit(Words(c), v, o, c.action, t)
  BY <1>1, <1>2, <1>3, <1>7 DEF SigningSplit
<1>9. Parses(Words(c), v, o, <<>>, Scope(c))
  BY <1>2, <1>8, SigningRead
<1>10. Stripped(c) = [kind |-> "Signing", action |-> c.action]
  BY DEF Stripped
<1>11. Meaning(v, o, <<>>, Scope(c)) = [kind |-> KindOf(v), action |-> OperationOf(o)]
  BY <1>1 DEF Meaning, BareVerbs
<1>12. KindOf(v) = "Signing" /\ v # "syntax error" /\ OperationOf(o) = c.action
  BY <1>1, <1>3 DEF KindOf, IsOperation
<1>13. QED
  BY <1>9, <1>10, <1>11, <1>12 DEF Known

-----------------------------------------------------------------------------
(* Every command is read as it was meant. *)
LEMMA ZoneCommandsKnown ==
  ASSUME NEW c \in ZoneCommands PROVE Known(c)
  BY KnownStatus, KnownMaybeZone, KnownRefresh, KnownSync, KnownFlush, KnownFlushName, KnownDump
     DEF ZoneCommands
LEMMA SigningCommandsKnown ==
  ASSUME NEW c \in SigningCommands PROVE Known(c)
<1>1. ASSUME c \in [kind : {"Signing"}, action : SigningActions, target : Targets]
      PROVE  Known(c)
  <2>1. /\ c.kind = "Signing" /\ DOMAIN c = {"kind", "action", "target"}
        /\ c = [f \in DOMAIN c |-> c[f]] /\ c.target \in Targets /\ c.action \in SigningActions
    BY <1>1
  <2>2. Words(c) = ControlWords(c)
    BY WordsByKind
  <2>3. QED
    BY <2>1, <2>2, KnownSigning
<1>2. QED
  BY <1>1, KnownTrace, KnownNoTrace, KnownSign, KnownValidation, KnownAddZone, KnownDelZone
     DEF SigningCommands
LEMMA KeyCommandsKnown ==
  ASSUME NEW c \in KeyCommands PROVE Known(c)
<1>1. ASSUME c \in [kind : {"DnssecStatus"}, target : Targets]
      PROVE  Known(c)
  <2>1. /\ c.kind = "DnssecStatus" /\ DOMAIN c = {"kind", "target"}
        /\ c = [f \in DOMAIN c |-> c[f]] /\ c.target \in Targets
    BY <1>1
  <2>2. Words(c) = KeyWords(c)
    BY WordsByKind
  <2>3. QED
    BY <2>1, <2>2, KnownDnssecStatus
<1>2. ASSUME c \in [kind : {"DnssecCheckDs"}, target : Targets, state : DsStates,
                    key : KeySelectors \cup {None}, when : {None, "20260101000000"}]
      PROVE  Known(c)
  <2>1. /\ c.kind = "DnssecCheckDs" /\ DOMAIN c = {"kind", "target", "state", "key", "when"}
        /\ c = [f \in DOMAIN c |-> c[f]] /\ c.target \in Targets /\ c.state \in DsStates
        /\ c.key \in KeySelectors \cup {None} /\ c.when \in Moments
    BY <1>2 DEF Moments
  <2>2. Words(c) = KeyWords(c)
    BY WordsByKind
  <2>3. QED
    BY <2>1, <2>2, KnownDnssecCheckDs
<1>3. ASSUME c.kind \in {"ZoneStatus", "DnssecStatus", "LoadKeys"},
             c \in [kind : {"ZoneStatus", "DnssecStatus", "LoadKeys"}, target : Targets]
      PROVE  Known(c)
  <2>1. c \in [kind : {"DnssecStatus"}, target : Targets]
        \/ c \in [kind : {"ZoneStatus", "LoadKeys"}, target : Targets]
    BY <1>3
  <2>2. QED
    BY <1>1, <2>1, KnownZoneStatus
<1>4. QED
  BY <1>2, <1>3, KnownManagedKeys, KnownNtaList, KnownNtaAdd, KnownNtaRemove DEF KeyCommands
LEMMA ServerCommandsKnown ==
  ASSUME NEW c \in ServerCommands PROVE Known(c)
<1>1. ASSUME c \in [kind : {"DnssecRollover"}, target : Targets, key : KeySelectors,
                    when : {None, "20260101000000"}]
      PROVE  Known(c)
  <2>1. /\ c.kind = "DnssecRollover" /\ DOMAIN c = {"kind", "target", "key", "when"}
        /\ c = [f \in DOMAIN c |-> c[f]] /\ c.target \in Targets
        /\ c.key \in KeySelectors /\ c.when \in Moments
    BY <1>1 DEF Moments
  <2>2. Words(c) = ServerWords(c)
    BY WordsByKind
  <2>3. QED
    BY <2>1, <2>2, KnownDnssecRollover
<1>2. QED
  BY <1>1, KnownDnstapReopen, KnownScan, KnownDnstapRoll, KnownFetchLimit, KnownStop,
     KnownSkrImport, KnownMemProf, KnownQueryLog, KnownResetStats, KnownSecRoots,
     KnownServeStale, KnownTcpTimeouts DEF ServerCommands

(* named takes the words of a command apart into the verb, the options,    *)
(* the arguments and the scope that give the command back: nothing that a  *)
(* client can ask for gets lost or moves to another place.                 *)
THEOREM EveryCommandKnown ==
  ASSUME NEW c \in Commands PROVE Known(c)
  BY ZoneCommandsKnown, SigningCommandsKnown, KeyCommandsKnown, ServerCommandsKnown DEF Commands

-----------------------------------------------------------------------------
(* What follows for all commands. *)
LEMMA CommandUnderstood ==
  \A c \in Commands : Understand(Words(c)) # Refused /\ Understand(Words(c)).scope = Scope(c)
<1> SUFFICES ASSUME NEW c \in Commands
             PROVE  Understand(Words(c)) # Refused /\ Understand(Words(c)).scope = Scope(c)
  OBVIOUS
<1>1. PICK v, o, a : v # "syntax error" /\ Parses(Words(c), v, o, a, Scope(c))
  BY EveryCommandKnown DEF Known
<1>2. PICK u : u = Understand(Words(c))
  OBVIOUS
<1>3. u = [verb |-> v, options |-> o, args |-> a, scope |-> Scope(c)]
  BY <1>1, <1>2 DEF Parses
<1>4. u.verb = v /\ u.scope = Scope(c)
  BY <1>3
<1>5. Refused.verb = "syntax error"
  BY DEF Refused
<1>6. QED
  BY <1>1, <1>2, <1>4, <1>5

LEMMA StatusVerb ==
  \A c : c.kind = "Status" => Understand(Words(c)).verb = "status"
<1> SUFFICES ASSUME NEW c, c.kind = "Status"
             PROVE  Understand(Words(c)).verb = "status"
  OBVIOUS
<1>1. PICK d : d = [kind |-> "Status"]
  OBVIOUS
<1>2. d \in [kind : {"Status", "Stats"}] /\ d.kind = "Status" /\ DOMAIN d = {"kind"}
      /\ d = [f \in DOMAIN d |-> d[f]]
  BY <1>1
<1>3. d \in ZoneCommands
  BY <1>2 DEF ZoneCommands
<1>4. "Status" \in ZoneKinds
  BY <1>2, <1>3 DEF ZoneKinds
<1>10. Words(c) = ZoneWords(c) /\ Words(d) = ZoneWords(d)
  <2>1. "Status" \notin SigningKinds /\ "Status" \notin KeyKinds
    BY <1>4, KindLists, ListsApart
  <2>2. PICK k : k = "Status"
    OBVIOUS
  <2>3. c.kind = k /\ d.kind = k /\ k \in ZoneKinds /\ k \notin SigningKinds /\ k \notin KeyKinds
    BY <1>2, <1>4, <2>1, <2>2
  <2>4. QED
    BY <2>3 DEF Words
<1>5. Words(c) = <<"status">>
  <2>1. ZoneWords(c) = <<"status">>
    BY DEF ZoneWords
  <2>2. QED
    BY <1>10, <2>1
<1>6. Words(d) = <<"status">>
  <2>1. ZoneWords(d) = <<"status">>
    BY <1>2 DEF ZoneWords
  <2>2. QED
    BY <1>10, <2>1
<1>7. KindOf("status") = d.kind /\ "status" \in BareWords
  BY <1>2 DEF KindOf, BareWords
<1>8. Understand(Words(d)).verb = "status"
  BY <1>2, <1>6, <1>7, KnownBare
<1>9. QED
  BY <1>5, <1>6, <1>8

LEMMA ClientsAsk ==
  ASSUME NEW z \in Names, NEW v \in Maybe(Views)
  PROVE  ClientCommands(z, v) \subseteq Commands
<1>1. PICK t : t = ZoneTarget(z, v)
  OBVIOUS
<1>2. t \in Targets
  BY <1>1 DEF ZoneTarget, Target, Targets, Maybe
<1>3. [kind : {"Status"}] \subseteq ZoneCommands
  BY DEF ZoneCommands
<1>4. [kind : {"Reload"}, target : {None, t}] \subseteq ZoneCommands
  BY <1>2 DEF ZoneCommands
<1>5. [kind : {"Freeze", "Thaw", "ZoneStatus", "DnssecStatus"}, target : {t}]
        \subseteq ZoneCommands \cup KeyCommands
  BY <1>2 DEF ZoneCommands, KeyCommands
<1>6. [kind : {"DnssecCheckDs"}, target : {t}, state : DsStates, key : {None}, when : {None}]
        \subseteq KeyCommands
  BY <1>2 DEF KeyCommands
<1>7. QED
  BY <1>1, <1>3, <1>4, <1>5, <1>6 DEF ClientCommands, Commands

LEMMA AskedCommands ==
  \A s \in Callers : \A c \in CommandsOf(s) : IF s \in Users THEN c.kind = "Raw" ELSE c \in Commands
<1> SUFFICES ASSUME NEW s \in Callers, NEW c \in CommandsOf(s)
             PROVE  IF s \in Users THEN c.kind = "Raw" ELSE c \in Commands
  OBVIOUS
<1>1. CASE s \in Clients
  <2>1. s \notin Users
    BY <1>1, SessionAssumption
  <2>2. PICK z \in Names, v \in Maybe(Views) : c \in ClientCommands(z, v)
    BY <1>1 DEF CommandsOf
  <2>3. QED
    BY <2>1, <2>2, ClientsAsk
<1>2. CASE s \notin Clients /\ s \in Users
  BY <1>2 DEF CommandsOf, RawCommands
<1>3. CASE s \notin Clients /\ s \notin Users
  BY <1>3, SessionAssumption DEF CommandsOf
<1>4. QED
  BY <1>1, <1>2, <1>3

LEMMA NeverNull ==
  \A s \in Callers : \A c \in CommandsOf(s) : Words(c) # <<"null">>
<1> SUFFICES ASSUME NEW s \in Callers, NEW c \in CommandsOf(s), Words(c) = <<"null">>
             PROVE  FALSE
  OBVIOUS
<1>1. CASE s \in Users
  <2>1. s \notin Clients
    BY <1>1, SessionAssumption
  <2>2. c.kind = "Raw" /\ c.words \in Texts
    BY <1>1, <2>1 DEF CommandsOf, RawCommands
  <2>3. Words(c) = c.words
    BY <2>2, WordsByKind DEF ServerWords
  <2>4. QED
    BY <2>2, <2>3, SessionAssumption
<1>2. CASE s \notin Users
  <2>1. c \in Commands
    BY <1>2, AskedCommands
  <2>2. PICK w, x : w = Words(c) /\ x = "null"
    OBVIOUS
  <2>3. w = <<x>>
    BY <2>2
  <2>4. w[1] = x
    BY <2>3, SeqOne
  <2>5. RuleFor(w) = Rule(NoOptions, 0, "unknown")
    BY <2>2, <2>4 DEF RuleFor
  <2>6. RuleFor(w).scope = "unknown"
    BY <2>5, RuleParts
  <2>7. Understand(w) = Refused
    BY <2>6 DEF Understand
  <2>8. QED
    BY <2>1, <2>2, <2>7, CommandUnderstood
<1>3. QED
  BY <1>1, <1>2

(* named refuses no command a client can build, reads each in the zone,    *)
(* class and view it is for, and reads two alike only if they are equal, a *)
(* missing class and the class IN being the same.                          *)
THEOREM NoneAmbiguous == Unambiguous
<1>1. ASSUME NEW r \in Readings PROVE r[2] # Refused /\ r[2].scope = Scope(r[1])
  <2>1. PICK c \in Commands : r = <<c, Understand(Words(c))>>
    BY DEF Readings
  <2>2. r[1] = c /\ r[2] = Understand(Words(c))
    BY <2>1, Pairs
  <2>3. QED
    BY <2>2, CommandUnderstood
<1>2. ASSUME NEW c \in Commands, NEW d \in Commands, Understand(Words(c)) = Understand(Words(d))
      PROVE  Normal(c) = Normal(d)
  <2>1. PICK v, o, a : /\ Parses(Words(c), v, o, a, Scope(c))
                       /\ Stripped(c) = Meaning(v, o, a, Scope(c))
    BY EveryCommandKnown DEF Known
  <2>2. PICK w, p, b : /\ Parses(Words(d), w, p, b, Scope(d))
                       /\ Stripped(d) = Meaning(w, p, b, Scope(d))
    BY EveryCommandKnown DEF Known
  <2>3. PICK x, y : x = Scope(c) /\ y = Scope(d)
    OBVIOUS
  <2>4. [verb |-> v, options |-> o, args |-> a, scope |-> x]
          = [verb |-> w, options |-> p, args |-> b, scope |-> y]
    BY <1>2, <2>1, <2>2, <2>3 DEF Parses
  <2>5. v = w /\ o = p /\ a = b /\ x = y
    BY ONLY <2>4
  <2>6. Stripped(c) = Stripped(d)
    BY <2>1, <2>2, <2>3, <2>5
  <2>7. QED
    BY <2>3, <2>5, <2>6 DEF Normal, Stripped
<1>3. ASSUME NEW q \in Readings, NEW r \in Readings, q[2] = r[2]
      PROVE  Normal(q[1]) = Normal(r[1])
  <2>1. PICK c \in Commands : q = <<c, Understand(Words(c))>>
    BY DEF Readings
  <2>2. PICK d \in Commands : r = <<d, Understand(Words(d))>>
    BY DEF Readings
  <2>3. q[1] = c /\ q[2] = Understand(Words(c))
    BY <2>1, Pairs
  <2>4. r[1] = d /\ r[2] = Understand(Words(d))
    BY <2>2, Pairs
  <2>5. QED
    BY <1>2, <1>3, <2>3, <2>4
<1>4. QED
  BY <1>1, <1>3 DEF Unambiguous

LEMMA NodeAsks ==
  ASSUME NEW z \in Names PROVE NodeCommands(z) \subseteq Commands
<1>1. PICK t : t = Target(z, None)
  OBVIOUS
<1>2. t \in Targets
  BY <1>1 DEF Target, Targets, Maybe
<1>3. [kind : {"Status", "Reconfig", "Stats"}] \subseteq ZoneCommands \cup SigningCommands
  BY DEF ZoneCommands, SigningCommands
<1>4. [kind : {"Reload"}, target : {None, t}] \subseteq ZoneCommands
  BY <1>2 DEF ZoneCommands
<1>5. [kind : {"Flush"}, view : {None}] \cup [kind : {"FlushName"}, name : {z}, view : {None}]
        \subseteq ZoneCommands
  BY DEF ZoneCommands, Maybe
<1>6. [kind : {"ZoneStatus", "Freeze", "Thaw", "Notify", "Refresh", "Retransfer", "Sign",
               "ShowZone"}, target : {t}]
        \subseteq ZoneCommands \cup SigningCommands \cup KeyCommands
  BY <1>2 DEF ZoneCommands, SigningCommands, KeyCommands
<1>7. [kind : {"Sync"}, clean : {FALSE}, target : {None, t}] \subseteq ZoneCommands
  BY <1>2 DEF ZoneCommands
<1>8. [kind : {"DumpDb"}, categories : {<<>>}, views : {<<>>}] \subseteq ZoneCommands
  BY DEF ZoneCommands
<1>9. [kind : {"DelZone"}, target : {t}, clean : {FALSE}] \subseteq SigningCommands
  BY <1>2 DEF SigningCommands
<1>10. QED
  BY <1>1, <1>3, <1>4, <1>5, <1>6, <1>7, <1>8, <1>9 DEF NodeCommands, Commands

LEMMA CliAsks ==
  ASSUME NEW z \in Names
  PROVE  CliZoneCommands(z) \cup CliDnssecCommands(z) \subseteq ClientCommands(z, None)
<1>1. PICK t : t = ZoneTarget(z, None)
  OBVIOUS
<1>2. [kind : {"ZoneStatus", "Reload"}, target : {t}] \subseteq ClientCommands(z, None)
  BY <1>1 DEF ClientCommands
<1>3. [kind : {"DnssecStatus"}, target : {t}] \subseteq ClientCommands(z, None)
  BY <1>1 DEF ClientCommands
<1>4. [kind : {"DnssecCheckDs"}, target : {t}, state : DsStates, key : {None}, when : {None}]
        \subseteq ClientCommands(z, None)
  BY <1>1 DEF ClientCommands
<1>5. QED
  BY <1>1, <1>2, <1>3, <1>4 DEF CliZoneCommands, CliDnssecCommands
=============================================================================
