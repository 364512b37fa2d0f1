--------------------------- MODULE TransferProofs ---------------------------
(***************************************************************************)
(* Proofs about Transfer, for any exchange, any packing into messages, any *)
(* limits and any width of the serial.                                     *)
(*                                                                         *)
(* The phase of IxfrState and the caller's copy move together: in a        *)
(* difference the serial of the phase is the serial of the copy, and seen  *)
(* from the serial of the query it lies before the current one.  And the   *)
(* phase that reports NoChange is only met inside the first message, so no *)
(* message can be missing behind the one that was verified.                *)
(*                                                                         *)
(* The theorems from CompleteCorrect on are about a primary that keeps to  *)
(* RFC 5936 and RFC 1995: every exchange is Compliant.  As long as nothing *)
(* was lost, the message in hand and the messages to come are the answers  *)
(* that are left (PlaceOK), and the copy is what those before them delete  *)
(* and add (CopyOK).                                                       *)
(***************************************************************************)
EXTENDS Transfer, SequenceTheorems, TLAPS

-----------------------------------------------------------------------------
(* Serial arithmetic.                                                      *)

LEMMA HalfNat == Half \in Nat /\ Half > 1 /\ SerialSpace \in Nat /\ SerialSpace = Half + Half
BY HalfAssumption DEF SerialSpace

LEMMA SubType ==
  ASSUME NEW a \in Serials, NEW b \in Serials
  PROVE  WrappingSub(a, b) \in Serials /\ WrappingSub(b, b) = 0
BY HalfNat DEF Serials, WrappingSub

(* From b, serial s is after a and not beyond t, if a is not beyond t and  *)
(* t is newer than b.                                                      *)
LEMMA Between ==
  ASSUME NEW b \in Serials, NEW t \in Serials, NEW a \in Serials, NEW s \in Serials,
         Newer(t, b), WrappingSub(a, b) <= WrappingSub(t, b),
         Newer(s, a), ~Newer(s, t), Ordered(s, t)
  PROVE  WrappingSub(a, b) < WrappingSub(s, b) /\ WrappingSub(s, b) <= WrappingSub(t, b)
<1> DEFINE T == WrappingSub(t, b)
           A == WrappingSub(a, b)
           S == WrappingSub(s, b)
<1>1. T \in 1..(Half - 1) /\ A \in 0..T /\ S \in 0..(SerialSpace - 1)
  BY SubType, HalfNat DEF Newer, Serials
<1>2. WrappingSub(s, a) = IF S >= A THEN S - A ELSE S + SerialSpace - A
  BY HalfNat DEF Serials, WrappingSub
<1>3. WrappingSub(s, t) = IF S >= T THEN S - T ELSE S + SerialSpace - T
  BY HalfNat DEF Serials, WrappingSub
<1> HIDE DEF T, A, S
<1>4. A < S /\ S <= A + Half - 1
  BY <1>1, <1>2, HalfNat DEF Newer
<1>5. S <= T
  BY <1>1, <1>3, <1>4, HalfNat DEF Newer, Ordered
<1> QED BY <1>4, <1>5 DEF T, A, S

-----------------------------------------------------------------------------
(* The invariant.                                                          *)

(* Where the phase, the serial it keeps and the caller's copy agree. *)
PhaseOK ==
  /\ phase # "AwaitFirst" /\ phase # "Complete" => target \in Serials
  /\ phase \in {"AwaitFirst", "AwaitSecond"} => copy = exchange.base
  /\ phase \in {"Delete", "Add"} =>
       /\ at = copy.serial
       /\ Newer(target, exchange.base.serial)
       /\ WrappingSub(at, exchange.base.serial) <= WrappingSub(target, exchange.base.serial)

(* The first record opens the transfer, so the phase that waits for the    *)
(* second one is the phase after one record of the message in hand.        *)
MessageOK ==
  /\ reading => size = 0
  /\ outcome = "open" /\ phase = "AwaitFirst" => Len(message) = size
  /\ outcome = "open" /\ phase = "AwaitSecond" => Ixfr /\ size = Len(message) + 1

(* The message in hand was verified against everything before it. *)
MacOK == ~reading /\ Keyed /\ lastSigned => ~gap

Inv == LimitsOK /\ PhaseOK /\ MessageOK /\ MacOK /\ SignedEnd

(* What a push does to the phase and to the copy. *)
PushType ==
  /\ phase \in Phases
  /\ target \in Serials \cup {NoSerial} /\ at \in Serials \cup {NoSerial}
  /\ copy \in Version /\ fresh \in SUBSET Names

-----------------------------------------------------------------------------
LEMMA ExchangeType ==
  ASSUME exchange \in Exchanges
  PROVE  /\ exchange.base \in Version /\ exchange.base.serial \in Serials
         /\ exchange.answers \in Seq(RR)
BY TransferAssumption DEF Exchange, Version

LEMMA HeadType ==
  ASSUME NEW m \in Seq(RR), m # <<>>
  PROVE  /\ Head(m).serial \in Serials \cup {NoSerial}
         /\ Head(m).serial = NoSerial => Head(m).name \in Names
         /\ Tail(m) \in Seq(RR) /\ Len(Tail(m)) = Len(m) - 1
<1>1. Head(m) \in RR
  OBVIOUS
<1>2. Tail(m) \in Seq(RR) /\ Len(Tail(m)) = Len(m) - 1
  OBVIOUS
<1> QED BY <1>1, <1>2, TransferAssumption DEF RR

LEMMA InitInv == Init => Inv
<1> SUFFICES ASSUME Init PROVE Inv
    OBVIOUS
<1>1. LimitsOK
  <2>1. exchange \in Exchanges /\ copy \in Version /\ answers \in Seq(RR)
    BY ExchangeType DEF Init
  <2>2. message \in Seq(RR) /\ size \in 0..MaxAnswers /\ records \in 0..MaxRecords
        /\ unsigned \in 0..MaxUnsigned
    BY TransferAssumption DEF Init
  <2>3. outcome \in {"open", "ok", "nochange", "error"} /\ PushType
    BY <2>1 DEF Init, PushType, Phases
  <2>4. /\ gap \in BOOLEAN /\ cause \in Causes /\ reading \in BOOLEAN
        /\ first \in BOOLEAN /\ lastSigned \in BOOLEAN
    BY Zenon DEF Init, Causes
  <2> QED BY <2>1, <2>2, <2>3, <2>4, Zenon DEF LimitsOK, PushType
<1>2. PhaseOK /\ MessageOK /\ MacOK /\ SignedEnd
  BY DEF Init, PhaseOK, MessageOK, MacOK, SignedEnd
<1> QED BY <1>1, <1>2 DEF Inv

-----------------------------------------------------------------------------
(* A record that is accepted keeps phase, serial and copy together, and    *)
(* one that does not complete the transfer keeps the first message.        *)
LEMMA AcceptedInv ==
  ASSUME Inv, NEW s \in Serials \cup {NoSerial}, NEW n, s = NoSerial => n \in Names,
         Accepted(s, n), UNCHANGED exchange
  PROVE  /\ PushType' /\ PhaseOK'
         /\ phase' # "AwaitFirst"
         /\ phase' = "AwaitSecond" => Ixfr /\ phase = "AwaitFirst"
<1>1. PushType /\ PhaseOK /\ exchange.base.serial \in Serials
      /\ copy.serial \in Serials /\ copy.rrs \in SUBSET Names
      /\ NoSerial \notin Serials
  BY ExchangeType, TransferAssumption DEF Inv, LimitsOK, PushType, Version
<1> USE DEF Phases, Version
<1>2. CASE Ixfr /\ AwaitFirst(s)
  BY <1>1, <1>2 DEF AwaitFirst, copyVars, PushType, PhaseOK
<1>3. CASE BeginDeltas(s)
  <2>1. WrappingSub(s, s) = 0 /\ WrappingSub(target, s) \in Serials
    BY <1>1, <1>3, SubType DEF BeginDeltas, PhaseOK
  <2> QED BY <1>1, <1>3, <2>1, HalfNat DEF BeginDeltas, copyVars, PushType, PhaseOK, Serials
<1>4. CASE EmptyZone(s)
  BY <1>1, <1>4 DEF EmptyZone, PushType, PhaseOK
<1>5. CASE BeginFallback(s, n)
  BY <1>1, <1>5 DEF BeginFallback, PushType, PhaseOK
<1>6. CASE FullRecord(s, n)
  BY <1>1, <1>6 DEF FullRecord, phaseVars, PushType, PhaseOK
<1>7. CASE EndFull(s)
  BY <1>1, <1>7 DEF EndFull, PushType, PhaseOK
<1>8. CASE Deleted(s, n)
  BY <1>1, <1>8 DEF Deleted, phaseVars, PushType, PhaseOK
<1>9. CASE AddSoa(s)
  <2>1. s \in Serials /\ target \in Serials /\ at \in Serials /\ phase = "Delete"
    BY <1>1, <1>9 DEF AddSoa, PhaseOK
  <2>2. WrappingSub(s, exchange.base.serial) <= WrappingSub(target, exchange.base.serial)
    BY <1>1, <1>9, <2>1, Between DEF AddSoa, Advances, PhaseOK
  <2> QED BY <1>1, <1>9, <2>1, <2>2 DEF AddSoa, PushType, PhaseOK
<1>10. CASE Added(s, n)
  BY <1>1, <1>10 DEF Added, phaseVars, PushType, PhaseOK
<1>11. CASE EndDeltas(s)
  BY <1>1, <1>11 DEF EndDeltas, copyVars, PushType, PhaseOK
<1>12. CASE NextDelta(s)
  BY <1>1, <1>12 DEF NextDelta, copyVars, PushType, PhaseOK
<1>13. CASE ~Ixfr /\ AxfrPush(s, n)
  <2>1. CASE phase = "AwaitFirst" /\ s # NoSerial /\ phase' = "Axfr" /\ target' = s
             /\ UNCHANGED <<at, copyVars>>
    BY <1>1, <2>1 DEF copyVars, PushType, PhaseOK
  <2> QED BY <1>6, <1>7, <1>13, <2>1 DEF AxfrPush
<1> QED
  BY <1>2, <1>3, <1>4, <1>5, <1>6, <1>7, <1>8, <1>9, <1>10, <1>11, <1>12, <1>13
  DEF Accepted, IxfrPush

(* The records of the message and of the phase, before a push. *)
LEMMA PushedHead ==
  ASSUME Inv, message # <<>>, Accepted(Head(message).serial, Head(message).name), UNCHANGED exchange,
         message' = Tail(message), UNCHANGED size
  PROVE  /\ PushType' /\ PhaseOK' /\ message' \in Seq(RR)
         /\ phase' # "AwaitFirst"
         /\ phase' = "AwaitSecond" /\ outcome = "open" => Ixfr /\ size' = Len(message') + 1
<1>1. message \in Seq(RR)
  BY DEF Inv, LimitsOK
<1>2. /\ Head(message).serial \in Serials \cup {NoSerial}
      /\ Head(message).serial = NoSerial => Head(message).name \in Names
      /\ Tail(message) \in Seq(RR) /\ Len(Tail(message)) = Len(message) - 1
  BY <1>1, HeadType
<1>3. /\ PushType' /\ PhaseOK' /\ phase' # "AwaitFirst"
      /\ phase' = "AwaitSecond" => Ixfr /\ phase = "AwaitFirst"
  BY <1>2, AcceptedInv
<1>4. phase = "AwaitFirst" /\ outcome = "open" => size = Len(message)
  BY DEF Inv, MessageOK
<1>5. Len(message) \in Nat
  BY <1>1
<1> QED BY <1>2, <1>3, <1>4, <1>5

-----------------------------------------------------------------------------
LEMMA SubSeqType ==
  ASSUME NEW q \in Seq(RR), NEW k \in 0..Len(q)
  PROVE  /\ SubSeq(q, 1, k) \in Seq(RR) /\ Len(SubSeq(q, 1, k)) = k
         /\ SubSeq(q, k + 1, Len(q)) \in Seq(RR)
OBVIOUS

LEMMA TailOfOne ==
  ASSUME NEW q \in Seq(RR), Len(q) = 1
  PROVE  q # <<>> /\ Tail(q) = <<>>
<1>1. q # <<>>
  <2> SUFFICES ASSUME q = <<>> PROVE FALSE
      OBVIOUS
  <2>1. Len(q) = 0
    BY EmptySeq
  <2> QED BY <2>1, 0 # 1
<1>2. Tail(q) \in Seq(RR) /\ Len(Tail(q)) = 0
  BY <1>1, HeadTailProperties
<1>3. Tail(q) = <<>>
  BY <1>2, EmptySeq
<1> QED BY <1>1, <1>3

(* An error that leaves the rest as it is. *)
onFail == <<exchange, answers, gap, reading, message, size, records, verifierVars, phaseVars, copyVars>>

LEMMA FailInv ==
  ASSUME Inv, outcome' = "error", cause' \in Causes, UNCHANGED onFail
  PROVE  Inv'
<1>1. /\ UNCHANGED <<exchange, answers, gap, reading, message, size, records>>
      /\ UNCHANGED <<first, unsigned, lastSigned, phase, target, at, copy, fresh>>
  BY DEF onFail, verifierVars, phaseVars, copyVars
<1>2. LimitsOK'
  BY <1>1 DEF Inv, LimitsOK
<1> QED BY <1>1, <1>2 DEF Inv, PhaseOK, MessageOK, MacOK, SignedEnd, Keyed

(* Reading, and what ends the stream without a record. *)
LEMMA StreamInv == Inv /\ Stream => Inv'
<1> SUFFICES ASSUME Inv, Stream PROVE Inv'
    OBVIOUS
<1>0. /\ answers \in Seq(RR) /\ message \in Seq(RR) /\ Len(message) \in Nat
      /\ outcome \in {"open", "ok", "nochange", "error"}
  BY DEF Inv, LimitsOK
<1>1. ASSUME NEW k \in 0..MaxAnswers, NEW signed \in BOOLEAN, ReadMessage(k, signed) PROVE Inv'
  <2>1. k \in 0..Len(answers) /\ k \in 0..MaxAnswers
    BY <1>0, <1>1, TransferAssumption DEF ReadMessage
  <2>2. answers' \in Seq(RR) /\ message' \in Seq(RR) /\ Len(message') = k /\ size' = k
    BY <1>0, <1>1, <2>1, SubSeqType DEF ReadMessage, Sent
  <2>3. reading' = FALSE /\ UNCHANGED <<exchange, gap, cause, outcome, records, phaseVars, copyVars>>
    BY <1>1 DEF ReadMessage
  <2>4. /\ first' \in BOOLEAN /\ lastSigned' \in BOOLEAN /\ unsigned' \in 0..MaxUnsigned
        /\ Keyed /\ lastSigned' => ~gap
    <3>1. Verify(signed) /\ first \in BOOLEAN /\ lastSigned \in BOOLEAN /\ unsigned \in 0..MaxUnsigned
      BY <1>1 DEF ReadMessage, Inv, LimitsOK
    <3>2. first' \in BOOLEAN /\ lastSigned' \in BOOLEAN
      BY <3>1, Zenon DEF Verify
    <3>3. unsigned' \in 0..MaxUnsigned
      BY <3>1, TransferAssumption DEF Verify
    <3>4. Keyed /\ lastSigned' => ~gap
      BY <3>1, Zenon DEF Verify
    <3> QED BY <3>2, <3>3, <3>4
  <2>5. size = 0 /\ outcome = "open"
    BY <1>1 DEF ReadMessage, Reading, Inv, MessageOK
  <2>6. LimitsOK'
    BY <2>1, <2>2, <2>3, <2>4 DEF phaseVars, copyVars, Inv, LimitsOK
  <2>7. PhaseOK' /\ SignedEnd'
    BY <2>3, <2>5 DEF phaseVars, copyVars, Inv, PhaseOK, SignedEnd
  <2>8. MessageOK'
    BY <1>0, <2>2, <2>3, <2>5 DEF phaseVars, Inv, MessageOK
  <2>9. MacOK'
    BY <2>3, <2>4 DEF MacOK, Keyed
  <2> QED BY <2>6, <2>7, <2>8, <2>9 DEF Inv
<1>2. ASSUME NEW k \in 0..MaxAnswers, Lose(k) PROVE Inv'
  <2>1. k \in 0..Len(answers) /\ reading /\ outcome = "open"
    BY <1>0, <1>2, TransferAssumption DEF Lose, Reading
  <2>2. answers' \in Seq(RR) /\ gap' \in BOOLEAN
    BY <1>0, <1>2, <2>1, SubSeqType DEF Lose, Sent
  <2>3. UNCHANGED <<exchange, cause, outcome, reading, message, size, records, verifierVars, phaseVars, copyVars>>
    BY <1>2 DEF Lose
  <2>4. LimitsOK'
    BY <2>2, <2>3 DEF verifierVars, phaseVars, copyVars, Inv, LimitsOK
  <2>5. PhaseOK' /\ MessageOK'
    BY <2>3 DEF phaseVars, copyVars, Inv, PhaseOK, MessageOK, Ixfr
  <2>6. MacOK' /\ SignedEnd'
    BY <2>1, <2>3 DEF MacOK, SignedEnd
  <2> QED BY <2>4, <2>5, <2>6 DEF Inv
<1>3. CASE RejectHeader \/ \E signed \in BOOLEAN : RejectMessage(signed)
  <2>1. outcome' = "error" /\ UNCHANGED onFail
    BY <1>3 DEF RejectHeader, RejectMessage, Fail, onFail
  <2>2. cause' \in Causes
    BY <1>3 DEF RejectHeader, RejectMessage, Fail, Causes
  <2> QED BY <2>1, <2>2, FailInv
<1>4. CASE Eof
  <2>1. phase # "AwaitSecond"
    BY <1>0, <1>4 DEF Eof, Reading, Inv, MessageOK
  <2>2. /\ outcome' = "error" /\ cause' \in Causes /\ (phase' = phase \/ phase' = "Complete")
        /\ UNCHANGED <<exchange, answers, gap, reading, message, size, records, verifierVars, target, at, copyVars>>
    BY <1>4, <2>1 DEF Eof, Finish, Causes
  <2>3. LimitsOK'
    BY <2>2 DEF verifierVars, copyVars, Inv, LimitsOK, Phases
  <2> QED BY <2>2, <2>3 DEF verifierVars, copyVars, Inv, PhaseOK, MessageOK, MacOK, SignedEnd, Keyed
<1> QED BY <1>1, <1>2, <1>3, <1>4 DEF Stream

(* Pushing, and the timeout. *)
LEMMA ClientInv == Inv /\ Client => Inv'
<1> SUFFICES ASSUME Inv, Client PROVE Inv'
    OBVIOUS
<1>0. /\ message \in Seq(RR) /\ Len(message) \in Nat /\ records \in 0..MaxRecords
      /\ size \in 0..MaxAnswers /\ MaxRecords \in Nat /\ MaxAnswers \in Nat
  BY TransferAssumption DEF Inv, LimitsOK
<1>1. CASE PushRecord
  <2>1. /\ UNCHANGED <<streamVars, outcome, reading, size, verifierVars>> /\ records' = records + 1
        /\ ~reading /\ outcome = "open"
    BY <1>1 DEF PushRecord, Pushing
  <2>2. UNCHANGED exchange
    BY <2>1 DEF streamVars
  <2>3. /\ PushType' /\ PhaseOK' /\ message' \in Seq(RR) /\ phase' # "AwaitFirst"
        /\ phase' = "AwaitSecond" /\ outcome = "open" => Ixfr /\ size' = Len(message') + 1
    BY <1>1, <2>1, <2>2, PushedHead DEF PushRecord
  <2>4. records' \in 0..MaxRecords
    BY <1>0, <1>1, <2>1 DEF PushRecord, WithinLimit
  <2>5. LimitsOK'
    BY <2>1, <2>3, <2>4 DEF streamVars, verifierVars, PushType, Inv, LimitsOK
  <2>6. MessageOK' /\ MacOK' /\ SignedEnd'
    BY <2>1, <2>3 DEF streamVars, verifierVars, Inv, MessageOK, MacOK, SignedEnd, Keyed, Ixfr
  <2> QED BY <2>3, <2>5, <2>6 DEF Inv
<1>2. CASE PushLast
  <2>1. /\ UNCHANGED <<exchange, answers, gap, reading, size, verifierVars>> /\ records' = records + 1
        /\ ~reading /\ outcome' = IF Authentic THEN "ok" ELSE "error"
    BY <1>2 DEF PushLast, Pushing
  <2>2. message # <<>> /\ message' = Tail(message)
    BY <1>0, <1>2, TailOfOne DEF PushLast
  <2>3. PushType' /\ PhaseOK' /\ message' \in Seq(RR)
    BY <1>2, <2>1, <2>2, PushedHead DEF PushLast
  <2>4. records' \in 0..MaxRecords
    BY <1>0, <1>2, <2>1 DEF PushLast, WithinLimit
  <2>5. cause' \in Causes
    BY <1>2, Zenon DEF PushLast, Causes
  <2>6. LimitsOK'
    BY <2>1, <2>3, <2>4, <2>5 DEF verifierVars, PushType, Inv, LimitsOK
  <2>7. MessageOK' /\ MacOK' /\ SignedEnd'
    BY <2>1 DEF verifierVars, Inv, MessageOK, MacOK, SignedEnd, Authentic, Keyed
  <2> QED BY <2>3, <2>6, <2>7 DEF Inv
<1>3. CASE Timeout \/ RefuseRecord \/ TooManyRecords
  <2>1. outcome' = "error" /\ UNCHANGED onFail
    BY <1>3 DEF Timeout, RefuseRecord, TooManyRecords, Fail, onFail
  <2>2. cause' \in Causes
    BY <1>3, Zenon DEF Timeout, RefuseRecord, TooManyRecords, Fail, Causes
  <2> QED BY <2>1, <2>2, FailInv
<1>4. CASE LoneMessage
  <2>1. /\ UNCHANGED <<exchange, answers, gap, reading, message, size, records, verifierVars,
                       target, at, copyVars>>
        /\ outcome = "open" /\ ~reading /\ Finish
    BY <1>4 DEF LoneMessage, Pushing
  <2>2. cause' \in Causes
    BY <1>4, Zenon DEF LoneMessage, Causes
  <2>3. LimitsOK'
    BY <2>1, <2>2 DEF Finish, verifierVars, copyVars, Inv, LimitsOK, Phases
  <2>4. SignedEnd'
    BY <2>1 DEF Finish, verifierVars, Inv, MacOK, SignedEnd, Authentic, Keyed
  <2> QED BY <2>1, <2>3, <2>4
          DEF Finish, verifierVars, copyVars, Inv, PhaseOK, MessageOK, MacOK, Keyed
<1>5. CASE EndMessage
  <2>1. /\ UNCHANGED <<streamVars, outcome, message, records, verifierVars, phaseVars, copyVars>>
        /\ outcome = "open" /\ ~reading /\ message = <<>> /\ reading' = TRUE /\ size' = 0
    BY <1>5 DEF EndMessage, Pushing
  <2>2. Len(message) = 0
    BY <2>1
  <2>3. phase # "AwaitSecond"
    BY <1>5, <2>1, <2>2 DEF EndMessage, Inv, MessageOK
  <2>4. LimitsOK'
    BY <1>0, <2>1 DEF streamVars, verifierVars, phaseVars, copyVars, Inv, LimitsOK
  <2>5. MessageOK'
    BY <2>1, <2>2, <2>3 DEF phaseVars, MessageOK
  <2> QED BY <2>1, <2>4, <2>5
          DEF streamVars, verifierVars, phaseVars, copyVars, Inv, PhaseOK, MacOK, SignedEnd, Keyed
<1> QED BY <1>1, <1>2, <1>3, <1>4, <1>5 DEF Client

LEMMA StepInv == Inv /\ [Next]_vars => Inv'
<1> SUFFICES ASSUME Inv, UNCHANGED vars PROVE Inv'
    BY StreamInv, ClientInv DEF Next, Closed
<1>1. /\ UNCHANGED <<exchange, answers, gap, cause, outcome, reading, message, size, records>>
      /\ UNCHANGED <<first, unsigned, lastSigned, phase, target, at, copy, fresh>>
  BY DEF vars, streamVars, verifierVars, phaseVars, copyVars
<1> QED BY <1>1 DEF Inv, LimitsOK, PhaseOK, MessageOK, MacOK, SignedEnd, Keyed, Ixfr

THEOREM Invariance == Spec => []Inv
BY InitInv, StepInv, PTL DEF Spec

(* Types, for any exchange and any limits. *)
THEOREM TypeCorrect == Spec => []LimitsOK
<1>1. Inv => LimitsOK
  BY DEF Inv
<1> QED BY <1>1, Invariance, PTL

(* A signed transfer that ends well, or without a change, missed nothing.  *)
THEOREM SignedCorrect == Spec => []SignedEnd
<1>1. Inv => SignedEnd
  BY DEF Inv
<1> QED BY <1>1, Invariance, PTL

(* A difference is begun from the version the caller has reached.          *)
THEOREM DeltasCorrect == Spec => DeltasInOrder
<1>1. ASSUME Inv, Inv', [Next]_vars, phase # "Delete", phase' = "Delete" PROVE at' = copy.serial
  <2>1. at' = copy'.serial
    BY <1>1 DEF Inv, PhaseOK
  <2>2. \E s, n : Accepted(s, n)
    BY <1>1 DEF Next, Client, Stream, Timeout, PushRecord, PushLast, RefuseRecord, TooManyRecords,
                LoneMessage, EndMessage, Finish, Fail, Lose, ReadMessage, RejectMessage, RejectHeader, Eof, Closed,
                vars, phaseVars
  <2>3. copy' = copy
    BY <1>1, <2>2 DEF Accepted, IxfrPush, AxfrPush, AwaitFirst, BeginDeltas, EmptyZone, BeginFallback,
                      FullRecord, EndFull, Deleted, AddSoa, Added, EndDeltas, NextDelta, phaseVars, copyVars
  <2> QED BY <2>1, <2>3
<1> QED BY <1>1, Invariance, PTL DEF Spec, DeltasInOrder

(* Differences lead on, and not past the current serial, for any width of  *)
(* the serial and any two serials that have an order.                      *)
THEOREM SerialsCorrect == Spec => SerialsAdvance
<1>1. ASSUME Inv, Inv', [Next]_vars, phase = "Delete", phase' = "Add"
      PROVE  LET offset(s) == WrappingSub(s, exchange.base.serial)
             IN /\ offset(copy.serial) < offset(copy'.serial)
                /\ offset(copy'.serial) <= offset(target)
  <2>1. PICK s, n : Accepted(s, n)
    BY <1>1 DEF Next, Client, Stream, Timeout, PushRecord, PushLast, RefuseRecord, TooManyRecords,
                LoneMessage, EndMessage, Finish, Fail, Lose, ReadMessage, RejectMessage, RejectHeader, Eof, Closed,
                vars, phaseVars
  <2>2. AddSoa(s)
    BY <1>1, <2>1 DEF Accepted, IxfrPush, AxfrPush, AwaitFirst, BeginDeltas, EmptyZone, BeginFallback,
                      FullRecord, EndFull, Deleted, Added, EndDeltas, NextDelta, phaseVars, copyVars
  <2>3. /\ exchange.base.serial \in Serials /\ target \in Serials
        /\ copy.serial \in Serials /\ at = copy.serial
        /\ Newer(target, exchange.base.serial)
        /\ WrappingSub(at, exchange.base.serial) <= WrappingSub(target, exchange.base.serial)
    BY <1>1, ExchangeType DEF Inv, LimitsOK, Version, PhaseOK
  <2>4. s = copy'.serial /\ copy'.serial \in Serials
    BY <1>1, <2>2, <2>3 DEF AddSoa, Inv, LimitsOK, Version
  <2>5. Newer(s, at) /\ ~Newer(s, target) /\ Ordered(s, target)
    BY <2>2 DEF AddSoa, Advances
  <2> QED BY <2>3, <2>4, <2>5, Between
<1> QED BY <1>1, Invariance, PTL DEF Spec, SerialsAdvance

-----------------------------------------------------------------------------
(* The caller's copy.                                                      *)
(*                                                                         *)
(* The client keeps no version of the zone, only a phase and two serials,  *)
(* and the messages may be packed in any way.  What ties the copy to the   *)
(* answers is the number of records pushed: it is the place in the answers *)
(* that the phase has reached, as long as no message is missing.           *)

(* The records pushed, the message in hand and what the primary still has  *)
(* make up the answers.                                                    *)
Placed(e, r, m, c) ==
  /\ Len(e) = r + Len(m) + Len(c)
  /\ \A i \in 1..Len(m) : m[i] = e[r + i]
  /\ \A i \in 1..Len(c) : c[i] = e[r + Len(m) + i]
PlaceOK ==
  /\ size = 0 => message = <<>>
  /\ ~gap => Placed(exchange.answers, records, message, answers)

(* Inside a difference: some of what goes is gone, or all of it is and     *)
(* some of what comes has come.                                            *)
InDelete(d) ==
  /\ d.old <= records /\ records < d.new
  /\ copy.serial = d.from.serial
  /\ copy.rrs = d.from.rrs \ NamesIn(exchange.answers, d.old + 1, records)
InAdd(d) ==
  /\ d.new <= records /\ records < d.next
  /\ copy.serial = d.to.serial
  /\ copy.rrs = (d.from.rrs \cap d.to.rrs) \cup NamesIn(exchange.answers, d.new + 1, records)

FollowOK ==
  /\ phase = "AwaitFirst" => records = 0 /\ fresh = {}
  /\ phase = "AwaitSecond" => records = 1 /\ Ixfr
  /\ phase \in {"AwaitSecond", "Axfr", "Delete", "Add"} => target = exchange.current.serial
  /\ phase = "Axfr" =>
       /\ Whole(exchange) /\ 1 <= records /\ records < Len(exchange.answers)
       /\ fresh = NamesIn(exchange.answers, 2, records)
  /\ phase \in {"Delete", "Add"} =>
       \E steps \in SUBSET Step :
         /\ Differences(exchange, steps)
         /\ \E d \in steps : IF phase = "Delete" THEN InDelete(d) ELSE InAdd(d)

CopyOK ==
  /\ outcome = "open" => phase # "Complete"
  /\ ~gap /\ outcome = "open" => FollowOK
  /\ ~gap /\ outcome = "ok" => copy = exchange.current

LEMMA NamesNext ==
  ASSUME NEW a, NEW i \in Nat, NEW j \in Nat
  PROVE  /\ i <= j + 1 => NamesIn(a, i, j + 1) = NamesIn(a, i, j) \cup {a[j + 1].name}
         /\ j < i => NamesIn(a, i, j) = {}
<1>1. i <= j + 1 => i..(j + 1) = (i..j) \cup {j + 1}
  OBVIOUS
<1>2. j < i => i..j = {}
  OBVIOUS
<1>3. QED
  BY <1>1, <1>2 DEF NamesIn

LEMMA NoNames == ASSUME NEW a PROVE NamesIn(a, 2, 1) = {} /\ NamesIn(a, 3, 2) = {}
<1>1. 2..1 = {} /\ 3..2 = {}
  OBVIOUS
<1>2. QED
  BY <1>1, Zenon DEF NamesIn

LEMMA Parts ==
  ASSUME NEW r \in Nat, NEW m \in Nat \ {0}, NEW k \in Nat, NEW n, n = r + m + k
  PROVE  r + 1 \in 1..n /\ (r + 1 = n => m = 1)
OBVIOUS

LEMMA Inside ==
  ASSUME NEW i \in Nat, NEW j \in Nat, NEW k \in i..j
  PROVE  k = j \/ k \in i..(j - 1)
OBVIOUS

(* The record in hand is the next of the answers. *)
LEMMA HeadIsNext ==
  ASSUME Inv, PlaceOK, ~gap, message # <<>>
  PROVE  /\ exchange.answers \in Seq(RR) /\ records \in Nat
         /\ records + 1 \in 1..Len(exchange.answers)
         /\ Head(message) = exchange.answers[records + 1]
         /\ Head(message).serial \in Serials \cup {NoSerial}
         /\ Head(message).serial = NoSerial => Head(message).name \in Names
         /\ records + 1 = Len(exchange.answers) => Len(message) = 1
<1>1. /\ message \in Seq(RR) /\ answers \in Seq(RR) /\ records \in Nat /\ exchange \in Exchanges
  BY TransferAssumption DEF Inv, LimitsOK
<1>2. exchange.answers \in Seq(RR)
  BY <1>1, ExchangeType
<1>3. Len(message) \in Nat \ {0} /\ Len(answers) \in Nat /\ Head(message) = message[1]
  BY <1>1
<1>4. Len(exchange.answers) = records + Len(message) + Len(answers)
  BY DEF PlaceOK, Placed
<1>5. message[1] = exchange.answers[records + 1]
  BY <1>3 DEF PlaceOK, Placed
<1>6. /\ records + 1 \in 1..Len(exchange.answers)
      /\ records + 1 = Len(exchange.answers) => Len(message) = 1
  BY <1>1, <1>3, <1>4, Parts
<1>7. QED
  BY <1>1, <1>2, <1>3, <1>5, <1>6, HeadType

LEMMA StepType ==
  ASSUME NEW e \in Exchange, NEW steps \in SUBSET Step, Differences(e, steps), NEW d \in steps
  PROVE  /\ d.old \in Nat /\ d.new \in Nat /\ d.next \in Nat
         /\ d.from \in Version /\ d.to \in Version
         /\ d.from.serial \in Serials /\ d.to.serial \in Serials
         /\ e.current.serial \in Serials /\ NoSerial \notin Serials
         /\ DifferenceAt(e.answers, d)
<1>1. d \in Step
  OBVIOUS
<1>2. d.from \in Version /\ d.to \in Version /\ e.current \in Version
  BY <1>1 DEF Step, Exchange
<1>3. d.from.serial \in Serials /\ d.to.serial \in Serials /\ e.current.serial \in Serials
  BY <1>2 DEF Version
<1>4. DifferenceAt(e.answers, d)
  BY DEF Differences
<1>5. QED
  BY <1>1, <1>2, <1>3, <1>4, TransferAssumption DEF Step

(* What the next answer can be in each phase. *)
LEMMA NextAnswer ==
  ASSUME Inv, PlaceOK, FollowOK, Compliant(exchange), ~gap, message # <<>>,
         NEW s, s = exchange.answers[records + 1].serial
  PROVE  /\ phase = "AwaitFirst" => s = exchange.current.serial /\ (~Ixfr => Whole(exchange))
         /\ phase = "AwaitSecond" =>
              \/ s = NoSerial /\ Whole(exchange) /\ 2 < Len(exchange.answers)
              \/ s = target /\ Whole(exchange) /\ 2 = Len(exchange.answers)
              \/ /\ s = exchange.base.serial /\ s # target
                 /\ \E steps \in SUBSET Step :
                      Differences(exchange, steps) /\ \E d \in steps : d.old = 2 /\ d.from = exchange.base
         /\ phase = "Axfr" => IF records + 1 = Len(exchange.answers) THEN s = target ELSE s = NoSerial
         /\ phase = "Delete" =>
              \E steps \in SUBSET Step : Differences(exchange, steps) /\ \E d \in steps :
                InDelete(d) /\ IF records + 1 = d.new THEN s = d.to.serial ELSE s = NoSerial
         /\ phase = "Add" =>
              \E steps \in SUBSET Step : Differences(exchange, steps) /\ \E d \in steps :
                /\ InAdd(d)
                /\ \/ records + 1 < d.next /\ s = NoSerial
                   \/ /\ records + 1 = d.next /\ records + 1 = Len(exchange.answers)
                      /\ d.to = exchange.current /\ s = target
                   \/ /\ records + 1 = d.next /\ s = d.to.serial /\ s # target
                      /\ \E b \in steps : b.old = d.next /\ b.from = d.to
<1> DEFINE a == exchange.answers
           N == Len(a)
<1>1. /\ a \in Seq(RR) /\ records \in Nat /\ N \in Nat /\ records + 1 \in 1..N
      /\ exchange \in Exchange /\ exchange.current.serial \in Serials /\ NoSerial \notin Serials
  <2>1. exchange \in Exchange /\ NoSerial \notin Serials
    BY TransferAssumption DEF Inv, LimitsOK
  <2>2. exchange.current.serial \in Serials
    BY <2>1 DEF Exchange, Version
  <2>3. QED
    BY <2>1, <2>2, HeadIsNext
<1>2. CASE phase = "AwaitFirst"
  <2>1. s = a[1].serial /\ a[1].serial = exchange.current.serial
    BY <1>1, <1>2 DEF FollowOK, Compliant, Whole, Unchanged, Differences
  <2>2. ~Ixfr => Whole(exchange)
    BY DEF Ixfr, Compliant, Unchanged, Differences
  <2>3. QED
    BY <1>2, <2>1, <2>2
<1>3. CASE phase = "AwaitSecond"
  <2>1. /\ s = a[2].serial /\ 2 \in 1..N /\ target = exchange.current.serial
    BY <1>1, <1>3 DEF FollowOK
  <2>2. CASE Whole(exchange)
    <3>1. N \in Nat /\ 2 \in Nat /\ 2 <= N
      BY <1>1, <2>1
    <3>2. 2 \in 2..N
      BY <3>1
    <3>3. N = 2 \/ 2 \in 2..(N - 1)
      BY <3>1, <3>2, Inside
    <3>4. QED
      BY <1>3, <2>1, <2>2, <3>3 DEF Whole, OnlyRecords
  <2>3. CASE \E steps \in SUBSET Step : Differences(exchange, steps)
    <3>1. PICK steps \in SUBSET Step : Differences(exchange, steps)
      BY <2>3
    <3>2. PICK d \in steps : d.old = 2 /\ d.from = exchange.base
      BY <3>1 DEF Differences
    <3>3. s = exchange.base.serial /\ s # target
      BY <2>1, <3>1, <3>2 DEF Differences, DifferenceAt
    <3>4. QED
      BY <1>3, <3>1, <3>2, <3>3
  <2>4. ~Unchanged(exchange)
    BY <2>1 DEF Unchanged
  <2>5. QED
    BY <2>2, <2>3, <2>4 DEF Compliant
<1>4. CASE phase = "Axfr"
  <2>1. target = exchange.current.serial /\ Whole(exchange) /\ 1 <= records
    BY <1>4 DEF FollowOK
  <2>2. records + 1 = N \/ records + 1 \in 2..(N - 1)
    BY <1>1, <2>1
  <2>3. QED
    BY <1>4, <2>1, <2>2 DEF Whole, OnlyRecords
<1>5. CASE phase = "Delete"
  <2>1. PICK steps \in SUBSET Step : Differences(exchange, steps) /\ \E d \in steps : InDelete(d)
    BY <1>5 DEF FollowOK
  <2>2. PICK d \in steps : InDelete(d)
    BY <2>1
  <2>3. /\ d.old \in Nat /\ d.new \in Nat /\ DifferenceAt(a, d)
    BY <1>1, <2>1, StepType
  <2>4. records + 1 = d.new \/ records + 1 \in (d.old + 1)..(d.new - 1)
    BY <1>1, <2>2, <2>3 DEF InDelete
  <2>5. IF records + 1 = d.new THEN s = d.to.serial ELSE s = NoSerial
    BY <2>3, <2>4 DEF DifferenceAt, OnlyRecords
  <2>6. QED
    BY <1>5, <2>1, <2>2, <2>5
<1>6. CASE phase = "Add"
  <2>1. PICK steps \in SUBSET Step : Differences(exchange, steps) /\ \E d \in steps : InAdd(d)
    BY <1>6 DEF FollowOK
  <2>2. PICK d \in steps : InAdd(d)
    BY <2>1
  <2>3. /\ d.new \in Nat /\ d.next \in Nat /\ DifferenceAt(a, d)
    BY <1>1, <2>1, StepType
  <2>4. records + 1 = d.next \/ (records + 1 < d.next /\ records + 1 \in (d.new + 1)..(d.next - 1))
    BY <1>1, <2>2, <2>3 DEF InAdd
  <2>5. target = exchange.current.serial
    BY <1>6 DEF FollowOK
  <2>6. CASE records + 1 < d.next /\ records + 1 \in (d.new + 1)..(d.next - 1)
    <3>1. s = NoSerial
      BY <2>3, <2>6 DEF DifferenceAt, OnlyRecords
    <3>2. QED
      BY <1>6, <2>1, <2>2, <2>6, <3>1
  <2>7. CASE records + 1 = d.next /\ d.next = N /\ d.to = exchange.current
    <3>1. s = target
      BY <2>1, <2>5, <2>7 DEF Differences
    <3>2. QED
      BY <1>6, <2>1, <2>2, <2>7, <3>1
  <2>8. CASE records + 1 = d.next /\ \E b \in steps : b.old = d.next /\ b.from = d.to
    <3>1. PICK b \in steps : b.old = d.next /\ b.from = d.to
      BY <2>8
    <3>2. s = d.to.serial /\ s # target
      BY <2>1, <2>5, <2>8, <3>1 DEF Differences, DifferenceAt
    <3>3. QED
      BY <1>6, <2>1, <2>2, <2>8, <3>1, <3>2
  <2>9. QED
    BY <2>1, <2>4, <2>6, <2>7, <2>8 DEF Differences
<1>7. QED
  BY <1>2, <1>3, <1>4, <1>5, <1>6

(* Only the record that closes a transfer completes it. *)
LEMMA AcceptedPhase ==
  ASSUME phase \in Phases, NEW s, NEW n, Accepted(s, n)
  PROVE  /\ phase # "Complete"
         /\ ~Closes(s) => phase' # "Complete"
BY Zenon DEF Accepted, IxfrPush, AxfrPush, AwaitFirst, BeginDeltas, EmptyZone, BeginFallback,
     FullRecord, EndFull, Deleted, AddSoa, Added, EndDeltas, NextDelta, Closes, phaseVars, Phases

(* A record in the middle keeps the copy in step with the answers. *)
LEMMA FollowPush ==
  ASSUME Inv, PlaceOK, FollowOK, Compliant(exchange), ~gap, message # <<>>,
         NEW s, NEW n, s = Head(message).serial, n = Head(message).name,
         Accepted(s, n), ~Closes(s), records' = records + 1, exchange' = exchange
  PROVE  FollowOK'
<1> DEFINE a == exchange.answers
           N == Len(a)
<1>1. /\ records \in Nat /\ s = a[records + 1].serial /\ n = a[records + 1].name
      /\ NoSerial \notin Serials /\ copy \in Version /\ exchange \in Exchange /\ N \in Nat
      /\ exchange.current.serial \in Serials /\ exchange.base.serial \in Serials
      /\ a \in Seq(RR) /\ records + 1 \in 1..N
  <2>1. exchange \in Exchange /\ NoSerial \notin Serials /\ copy \in Version
    BY TransferAssumption DEF Inv, LimitsOK
  <2>2. exchange.current.serial \in Serials /\ exchange.base.serial \in Serials
    BY <2>1 DEF Exchange, Version
  <2>3. QED
    BY <2>1, <2>2, HeadIsNext
<1>2. records + 1 < N \/ a[records + 1].serial = a[N].serial
  <2>1. records + 1 < N \/ records + 1 = N
    BY <1>1
  <2>2. QED
    BY <2>1
<1>3. \A i \in 1..(records + 1) : NamesIn(a, i, records + 1) = NamesIn(a, i, records) \cup {n}
  <2>1. SUFFICES ASSUME NEW i \in 1..(records + 1)
                 PROVE  NamesIn(a, i, records + 1) = NamesIn(a, i, records) \cup {n}
    OBVIOUS
  <2>2. i \in Nat /\ i <= records + 1
    BY <1>1
  <2>3. NamesIn(a, i, records + 1) = NamesIn(a, i, records) \cup {a[records + 1].name}
    BY <1>1, <2>2, NamesNext
  <2>4. QED
    BY <1>1, <2>3
<1> HIDE DEF N
<1>4. CASE phase = "AwaitFirst"
  <2>1. s = exchange.current.serial /\ (~Ixfr => Whole(exchange)) /\ records = 0 /\ fresh = {}
    BY <1>1, <1>4, NextAnswer DEF FollowOK
  <2>2. /\ fresh' = {} /\ target' = s
        /\ (Ixfr /\ phase' = "AwaitSecond") \/ (~Ixfr /\ phase' = "Axfr")
    BY <1>1, <1>4, <2>1 DEF Accepted, IxfrPush, AxfrPush, AwaitFirst, BeginDeltas, EmptyZone, BeginFallback,
       FullRecord, EndFull, Deleted, AddSoa, Added, EndDeltas, NextDelta, copyVars
  <2>3. records' = 1 /\ NamesIn(a, 2, 1) = {}
    BY <2>1, NoNames
  <2>4. ~Ixfr => 1 < N
    BY <2>1 DEF Whole, N
  <2>5. QED
    BY <2>1, <2>2, <2>3, <2>4 DEF FollowOK, Ixfr, N
<1>5. CASE phase = "AwaitSecond"
  <2>1. records = 1 /\ Ixfr /\ target = exchange.current.serial /\ copy = exchange.base
    BY <1>5 DEF FollowOK, Inv, PhaseOK
  <2>2. s # target
    BY <1>5 DEF Closes
  <2>3. CASE s = NoSerial /\ Whole(exchange) /\ 2 < N
    <3>1. phase' = "Axfr" /\ fresh' = {n} /\ target' = target
      BY <1>1, <1>5, <2>1, <2>3 DEF Accepted, IxfrPush, AwaitFirst, BeginDeltas, EmptyZone, BeginFallback,
         FullRecord, EndFull, Deleted, AddSoa, Added, EndDeltas, NextDelta, copyVars
    <3>2. NamesIn(a, 2, 2) = {n}
      <4>1. 2 \in 1..(records + 1) /\ records + 1 = 2
        BY <2>1
      <4>2. NamesIn(a, 2, 2) = NamesIn(a, 2, 1) \cup {n}
        BY <1>3, <2>1, <4>1
      <4>3. QED
        BY <4>2, NoNames
    <3>3. QED
      BY <2>1, <2>3, <3>1, <3>2 DEF FollowOK, Ixfr, N
  <2>4. CASE s = exchange.base.serial /\ \E steps \in SUBSET Step :
               Differences(exchange, steps) /\ \E d \in steps : d.old = 2 /\ d.from = exchange.base
    <3>1. phase' = "Delete" /\ copy' = copy /\ target' = target
      BY <1>1, <1>5, <2>1, <2>2, <2>4 DEF Accepted, IxfrPush, AwaitFirst, BeginDeltas, EmptyZone,
         BeginFallback, FullRecord, EndFull, Deleted, AddSoa, Added, EndDeltas, NextDelta, copyVars
    <3>2. PICK steps \in SUBSET Step :
            Differences(exchange, steps) /\ \E d \in steps : d.old = 2 /\ d.from = exchange.base
      BY <2>4
    <3>3. PICK d \in steps : d.old = 2 /\ d.from = exchange.base
      BY <3>2
    <3>4. DifferenceAt(a, d) /\ d.old \in Nat /\ d.new \in Nat
      BY <1>1, <3>2, StepType
    <3>5. NamesIn(a, 3, 2) = {}
      BY NoNames
    <3>6. InDelete(d)'
      BY <2>1, <3>1, <3>3, <3>4, <3>5 DEF InDelete, DifferenceAt
    <3>7. QED
      BY <2>1, <3>1, <3>2, <3>6 DEF FollowOK
  <2>5. QED
    BY <1>1, <1>5, <2>2, <2>3, <2>4, NextAnswer DEF N
<1>6. CASE phase = "Axfr"
  <2>1. /\ target = exchange.current.serial /\ Whole(exchange) /\ 1 <= records /\ records < N
        /\ fresh = NamesIn(a, 2, records)
    BY <1>6 DEF FollowOK, N
  <2>2. s # target
    BY <1>6 DEF Closes
  <2>3. s = NoSerial
    BY <1>1, <1>6, <2>2, NextAnswer
  <2>4. records + 1 < N
    BY <1>2, <1>1, <2>1, <2>3 DEF Whole, N
  <2>5. fresh' = fresh \cup {n} /\ phase' = "Axfr" /\ target' = target
    BY <1>6, <2>2, <2>3 DEF Accepted, IxfrPush, AxfrPush, AwaitFirst, BeginDeltas, EmptyZone, BeginFallback,
       FullRecord, EndFull, Deleted, AddSoa, Added, EndDeltas, NextDelta, phaseVars
  <2>6. 2 \in 1..(records + 1)
    BY <1>1, <2>1
  <2>7. fresh' = NamesIn(a, 2, records + 1)
    BY <1>3, <2>1, <2>5, <2>6
  <2>8. 1 <= records + 1
    BY <1>1
  <2>9. QED
    BY <2>1, <2>4, <2>5, <2>7, <2>8 DEF FollowOK, N
<1>7. CASE phase = "Delete"
  <2>1. PICK steps \in SUBSET Step : Differences(exchange, steps) /\ \E d \in steps :
          InDelete(d) /\ IF records + 1 = d.new THEN s = d.to.serial ELSE s = NoSerial
    BY <1>1, <1>7, NextAnswer
  <2>2. PICK d \in steps :
          InDelete(d) /\ IF records + 1 = d.new THEN s = d.to.serial ELSE s = NoSerial
    BY <2>1
  <2>3. /\ d.old \in Nat /\ d.new \in Nat /\ d.next \in Nat /\ d.to.serial \in Serials
        /\ DifferenceAt(a, d) /\ d.from \in Version /\ d.to \in Version
    BY <1>1, <2>1, StepType
  <2>4. target = exchange.current.serial /\ d.old + 1 \in 1..(records + 1)
    BY <1>1, <1>7, <2>2, <2>3 DEF FollowOK, InDelete
  <2>5. CASE s = NoSerial
    <3>1. phase' = "Delete" /\ copy' = [copy EXCEPT !.rrs = @ \ {n}] /\ target' = target
      BY <1>7, <2>5, <1>1 DEF Accepted, IxfrPush, AxfrPush, AwaitFirst, BeginDeltas, EmptyZone, BeginFallback,
         FullRecord, EndFull, Deleted, AddSoa, Added, EndDeltas, NextDelta, phaseVars
    <3>2. copy'.serial = copy.serial /\ copy'.rrs = copy.rrs \ {n}
      BY <1>1, <3>1 DEF Version
    <3>3. d.old <= records + 1 /\ records + 1 < d.new
      BY <1>1, <2>2, <2>3, <2>5 DEF InDelete
    <3>4. copy'.rrs = d.from.rrs \ NamesIn(a, d.old + 1, records + 1)
      BY <1>3, <2>2, <2>4, <3>2 DEF InDelete
    <3>5. InDelete(d)'
      BY <2>2, <3>2, <3>3, <3>4 DEF InDelete
    <3>6. QED
      BY <2>1, <2>4, <3>1, <3>5 DEF FollowOK
  <2>6. CASE s # NoSerial
    <3>1. phase' = "Add" /\ copy' = [copy EXCEPT !.serial = s] /\ target' = target
      BY <1>7, <2>6 DEF Accepted, IxfrPush, AxfrPush, AwaitFirst, BeginDeltas, EmptyZone, BeginFallback,
         FullRecord, EndFull, Deleted, AddSoa, Added, EndDeltas, NextDelta, phaseVars
    <3>2. copy'.serial = s /\ copy'.rrs = copy.rrs
      BY <1>1, <3>1 DEF Version
    <3>3. records + 1 = d.new /\ s = d.to.serial
      BY <2>2, <2>6
    <3>4. records = d.new - 1
      BY <1>1, <2>3, <3>3
    <3>5. copy.rrs = d.from.rrs \cap d.to.rrs
      BY <2>2, <2>3, <3>4 DEF InDelete, DifferenceAt
    <3>6. NamesIn(a, d.new + 1, d.new) = {} /\ d.new < d.next
      BY <2>3, NamesNext DEF DifferenceAt
    <3>7. InAdd(d)'
      BY <2>3, <3>2, <3>3, <3>5, <3>6 DEF InAdd
    <3>8. QED
      BY <2>1, <2>4, <3>1, <3>7 DEF FollowOK
  <2>7. QED
    BY <2>5, <2>6
<1>8. CASE phase = "Add"
  <2>1. PICK steps \in SUBSET Step : Differences(exchange, steps) /\ \E d \in steps :
          /\ InAdd(d)
          /\ \/ records + 1 < d.next /\ s = NoSerial
             \/ /\ records + 1 = d.next /\ records + 1 = Len(exchange.answers)
                /\ d.to = exchange.current /\ s = target
             \/ /\ records + 1 = d.next /\ s = d.to.serial /\ s # target
                /\ \E b \in steps : b.old = d.next /\ b.from = d.to
    BY <1>1, <1>8, NextAnswer
  <2>2. s # target
    BY <1>8 DEF Closes
  <2>3. PICK d \in steps :
          /\ InAdd(d)
          /\ \/ records + 1 < d.next /\ s = NoSerial
             \/ /\ records + 1 = d.next /\ s = d.to.serial
                /\ \E b \in steps : b.old = d.next /\ b.from = d.to
    BY <2>1, <2>2
  <2>4. /\ d.old \in Nat /\ d.new \in Nat /\ d.next \in Nat /\ d.to.serial \in Serials
        /\ DifferenceAt(a, d) /\ d.from \in Version /\ d.to \in Version
    BY <1>1, <2>1, StepType
  <2>5. target = exchange.current.serial /\ d.new + 1 \in 1..(records + 1)
    BY <1>1, <1>8, <2>3, <2>4 DEF FollowOK, InAdd
  <2>6. CASE records + 1 < d.next /\ s = NoSerial
    <3>1. phase' = "Add" /\ copy' = [copy EXCEPT !.rrs = @ \cup {n}] /\ target' = target
      <4>1. at # NoSerial
        BY <1>1, <1>8 DEF Inv, PhaseOK, Version
      <4>2. QED
        BY <1>8, <2>2, <2>6, <1>1, <4>1 DEF Accepted, IxfrPush, AxfrPush, AwaitFirst, BeginDeltas, EmptyZone,
           BeginFallback, FullRecord, EndFull, Deleted, AddSoa, Added, EndDeltas, NextDelta, phaseVars
    <3>2. copy'.serial = copy.serial /\ copy'.rrs = copy.rrs \cup {n}
      BY <1>1, <3>1 DEF Version
    <3>3. d.new <= records + 1 /\ records + 1 < d.next
      BY <1>1, <2>3, <2>4, <2>6 DEF InAdd
    <3>4. copy'.rrs = (d.from.rrs \cap d.to.rrs) \cup NamesIn(a, d.new + 1, records + 1)
      BY <1>3, <2>3, <2>5, <3>2 DEF InAdd
    <3>5. InAdd(d)'
      BY <2>3, <3>2, <3>3, <3>4 DEF InAdd
    <3>6. QED
      BY <2>1, <2>5, <3>1, <3>5 DEF FollowOK
  <2>7. CASE /\ records + 1 = d.next /\ s = d.to.serial
             /\ \E b \in steps : b.old = d.next /\ b.from = d.to
    <3>1. PICK b \in steps : b.old = d.next /\ b.from = d.to
      BY <2>7
    <3>2. phase' = "Delete" /\ copy' = copy /\ target' = target
      BY <1>1, <1>8, <2>2, <2>4, <2>7 DEF Accepted, IxfrPush, AxfrPush, AwaitFirst, BeginDeltas, EmptyZone,
         BeginFallback, FullRecord, EndFull, Deleted, AddSoa, Added, EndDeltas, NextDelta, copyVars
    <3>3. b.old \in Nat /\ b.new \in Nat /\ DifferenceAt(a, b)
      BY <1>1, <2>1, StepType
    <3>4. records = d.next - 1
      BY <1>1, <2>4, <2>7
    <3>5. copy.rrs = d.to.rrs /\ copy.serial = d.to.serial
      BY <2>3, <2>4, <3>4 DEF InAdd, DifferenceAt
    <3>6. NamesIn(a, b.old + 1, b.old) = {} /\ b.old < b.new
      BY <3>3, NamesNext DEF DifferenceAt
    <3>7. InDelete(b)'
      BY <2>7, <3>1, <3>2, <3>3, <3>5, <3>6 DEF InDelete
    <3>8. QED
      BY <2>1, <2>5, <3>2, <3>7 DEF FollowOK
  <2>8. QED
    BY <2>3, <2>6, <2>7
<1>9. phase # "Complete"
  BY DEF Accepted, IxfrPush, AxfrPush, AwaitFirst, BeginDeltas, EmptyZone, BeginFallback,
     FullRecord, EndFull, Deleted, AddSoa, Added, EndDeltas, NextDelta
<1>10. QED
  BY <1>4, <1>5, <1>6, <1>7, <1>8, <1>9 DEF Inv, LimitsOK, Phases

(* The record that completes the transfer is the last of the answers, and  *)
(* leaves the caller with the current version.                             *)
LEMMA ClosePush ==
  ASSUME Inv, PlaceOK, FollowOK, Compliant(exchange), ~gap, message # <<>>,
         NEW s, NEW n, s = Head(message).serial, n = Head(message).name, Closes(s)
  PROVE  /\ records + 1 = Len(exchange.answers)
         /\ Accepted(s, n) => copy' = exchange.current
<1> DEFINE a == exchange.answers
           N == Len(a)
<1>1. /\ records \in Nat /\ s = a[records + 1].serial /\ n = a[records + 1].name
      /\ NoSerial \notin Serials /\ copy \in Version /\ exchange \in Exchange /\ N \in Nat
      /\ exchange.current \in Version /\ exchange.current.serial \in Serials
  <2>1. exchange \in Exchange /\ NoSerial \notin Serials /\ copy \in Version
    BY TransferAssumption DEF Inv, LimitsOK
  <2>2. exchange.current \in Version /\ exchange.current.serial \in Serials
    BY <2>1 DEF Exchange, Version
  <2>3. QED
    BY <2>1, <2>2, HeadIsNext
<1>2. target = exchange.current.serial /\ s = target
  BY DEF Closes, FollowOK
<1>3. ASSUME NEW v, v = [serial |-> exchange.current.serial, rrs |-> exchange.current.rrs]
      PROVE  v = exchange.current
  BY <1>1, <1>3 DEF Version
<1> HIDE DEF N
<1>4. CASE phase = "AwaitSecond"
  <2>1. Whole(exchange) /\ 2 = N /\ records = 1 /\ Ixfr
    BY <1>1, <1>2, <1>4, NextAnswer DEF FollowOK, N
  <2>2. exchange.current.rrs = {}
    <3>1. NamesIn(a, 2, 1) = {} /\ N - 1 = 1
      BY <2>1, NoNames
    <3>2. QED
      BY <2>1, <3>1 DEF Whole, N
  <2>3. Accepted(s, n) => copy' = [serial |-> s, rrs |-> {}]
    BY <1>1, <1>2, <1>4, <2>1 DEF Accepted, IxfrPush, AwaitFirst, BeginDeltas, EmptyZone,
       BeginFallback, FullRecord, EndFull, Deleted, AddSoa, Added, EndDeltas, NextDelta
  <2>4. QED
    BY <1>2, <1>3, <2>1, <2>2, <2>3 DEF N
<1>5. CASE phase = "Axfr"
  <2>1. records + 1 = N /\ Whole(exchange) /\ fresh = NamesIn(a, 2, records)
    BY <1>1, <1>2, <1>5, NextAnswer DEF FollowOK, N
  <2>2. fresh = exchange.current.rrs
    <3>1. records = N - 1
      BY <1>1, <2>1
    <3>2. QED
      BY <2>1, <3>1 DEF Whole, N
  <2>3. Accepted(s, n) => copy' = [serial |-> s, rrs |-> fresh]
    BY <1>1, <1>2, <1>5 DEF Accepted, IxfrPush, AxfrPush, AwaitFirst, BeginDeltas, EmptyZone,
       BeginFallback, FullRecord, EndFull, Deleted, AddSoa, Added, EndDeltas, NextDelta
  <2>4. QED
    BY <1>2, <1>3, <2>1, <2>2, <2>3 DEF N
<1>6. CASE phase = "Add"
  <2>1. PICK steps \in SUBSET Step : Differences(exchange, steps) /\ \E d \in steps :
          InAdd(d) /\ records + 1 = d.next /\ records + 1 = N /\ d.to = exchange.current
    BY <1>1, <1>2, <1>6, NextAnswer DEF N
  <2>2. PICK d \in steps :
          InAdd(d) /\ records + 1 = d.next /\ records + 1 = N /\ d.to = exchange.current
    BY <2>1
  <2>3. /\ d.next \in Nat /\ DifferenceAt(a, d) /\ d.from \in Version /\ d.to \in Version
    BY <1>1, <2>1, StepType
  <2>4. copy.rrs = d.to.rrs /\ copy.serial = d.to.serial
    <3>1. records = d.next - 1
      BY <1>1, <2>2, <2>3
    <3>2. QED
      BY <2>2, <2>3, <3>1 DEF InAdd, DifferenceAt
  <2>5. copy = exchange.current
    BY <1>1, <2>2, <2>4 DEF Version
  <2>6. Accepted(s, n) => copy' = copy
    BY <1>1, <1>2, <1>6 DEF Accepted, IxfrPush, AxfrPush, AwaitFirst, BeginDeltas, EmptyZone,
       BeginFallback, FullRecord, EndFull, Deleted, AddSoa, Added, EndDeltas, NextDelta, copyVars
  <2>7. QED
    BY <2>2, <2>5, <2>6 DEF N
<1>7. QED
  BY <1>4, <1>5, <1>6 DEF Closes

-----------------------------------------------------------------------------
(* Splitting off the head of what is left, and cutting a message from it,  *)
(* keep the place in the answers.                                          *)
LEMMA TailPlace ==
  ASSUME NEW e \in Seq(RR), NEW m \in Seq(RR), m # <<>>, NEW r \in Nat,
         NEW c \in Seq(RR), Placed(e, r, m, c)
  PROVE  Placed(e, r + 1, Tail(m), c)
<1>1. Len(m) \in Nat \ {0} /\ Len(Tail(m)) = Len(m) - 1
  OBVIOUS
<1>2. Len(e) = (r + 1) + Len(Tail(m)) + Len(c) /\ r + Len(m) = (r + 1) + Len(Tail(m))
  <2>1. Len(e) = r + Len(m) + Len(c) /\ Len(c) \in Nat
    BY DEF Placed
  <2>2. QED
    BY <1>1, <2>1
<1>3. ASSUME NEW i \in 1..Len(Tail(m))
      PROVE  Tail(m)[i] = e[(r + 1) + i]
  <2>1. i + 1 \in 1..Len(m) /\ r + (i + 1) = (r + 1) + i
    BY <1>1
  <2>2. Tail(m)[i] = m[i + 1]
    OBVIOUS
  <2>3. m[i + 1] = e[r + (i + 1)]
    BY <2>1 DEF Placed
  <2>4. QED
    BY <2>1, <2>2, <2>3
<1>4. QED
  BY <1>2, <1>3 DEF Placed

LEMMA CutPlace ==
  ASSUME NEW e \in Seq(RR), NEW b \in Seq(RR), NEW r \in Nat, NEW k \in 0..Len(b),
         Placed(e, r, <<>>, b),
         NEW m, NEW c, m = SubSeq(b, 1, k), c = SubSeq(b, k + 1, Len(b))
  PROVE  Placed(e, r, m, c)
<1>0. Len(e) = r + Len(b) /\ \A i \in 1..Len(b) : b[i] = e[r + i]
  BY DEF Placed
<1>1. /\ Len(b) \in Nat /\ k \in Nat /\ k <= Len(b)
      /\ 1 \in 1..(Len(b) + 1) /\ k + 1 \in 1..(Len(b) + 1)
  OBVIOUS
<1>2. Len(m) = k /\ \A i \in 1..k : m[i] = b[i]
  BY <1>1
<1>3. Len(c) = Len(b) - k /\ \A i \in 1..(Len(b) - k) : c[i] = b[k + i]
  <2>1. Len(c) = Len(b) - k
    BY <1>1
  <2>2. ASSUME NEW i \in 1..(Len(b) - k)
        PROVE  c[i] = b[k + i]
    <3>1. i \in 1..(Len(b) - (k + 1) + 1) /\ (k + 1) + i - 1 = k + i
      BY <1>1
    <3>2. c[i] = b[(k + 1) + i - 1]
      BY <1>1, <3>1
    <3>3. QED
      BY <3>1, <3>2
  <2>3. QED
    BY <2>1, <2>2
<1>4. Len(e) = r + Len(m) + Len(c)
  <2>1. ASSUME NEW y \in Nat, NEW z \in Nat, z <= y
        PROVE  r + y = r + z + (y - z)
    OBVIOUS
  <2>2. r + Len(b) = r + k + (Len(b) - k)
    BY <1>1, <2>1
  <2>3. Len(m) = k /\ Len(c) = Len(b) - k
    BY <1>2, <1>3
  <2>4. QED
    BY <1>0, <2>2, <2>3
<1>5. ASSUME NEW i \in 1..Len(m)
      PROVE  m[i] = e[r + i]
  <2>1. i \in 1..k /\ i \in 1..Len(b)
    BY <1>1, <1>2
  <2>2. QED
    BY <1>0, <1>2, <2>1
<1>6. ASSUME NEW i \in 1..Len(c)
      PROVE  c[i] = e[r + Len(m) + i]
  <2>1. ASSUME NEW y \in Nat, NEW z \in Nat, z <= y, NEW x \in 1..(y - z)
        PROVE  z + x \in 1..y /\ r + (z + x) = r + z + x
    OBVIOUS
  <2>2. Len(m) = k /\ i \in 1..(Len(b) - k)
    BY <1>2, <1>3
  <2>3. k + i \in 1..Len(b) /\ r + (k + i) = r + Len(m) + i
    BY <1>1, <2>1, <2>2
  <2>4. c[i] = b[k + i] /\ b[k + i] = e[r + (k + i)]
    BY <1>0, <1>3, <2>2, <2>3
  <2>5. QED
    BY <2>3, <2>4
<1>7. QED
  BY <1>4, <1>5, <1>6 DEF Placed

LEMMA PlaceInit == Init => PlaceOK
<1> SUFFICES ASSUME Init PROVE PlaceOK
    OBVIOUS
<1>1. exchange.answers \in Seq(RR) /\ answers = exchange.answers /\ message = <<>> /\ records = 0
  BY ExchangeType DEF Init
<1>2. Len(exchange.answers) = 0 + 0 + Len(answers) /\ \A i \in 1..Len(answers) : 0 + 0 + i = i
  BY <1>1
<1>3. QED
  BY <1>1, <1>2 DEF PlaceOK, Placed

LEMMA PlaceNext == Inv /\ PlaceOK /\ [Next]_vars => PlaceOK'
<1> SUFFICES ASSUME Inv, PlaceOK, [Next]_vars PROVE PlaceOK'
    OBVIOUS
<1>1. /\ message \in Seq(RR) /\ answers \in Seq(RR) /\ records \in Nat /\ size \in Nat
      /\ exchange.answers \in Seq(RR) /\ Len(message) \in Nat /\ Len(answers) \in Nat
  BY ExchangeType, TransferAssumption DEF Inv, LimitsOK
<1>2. CASE PushRecord \/ PushLast
  <2>1. /\ message # <<>> /\ message' = Tail(message) /\ records' = records + 1
        /\ UNCHANGED <<exchange, answers, gap, size>>
    <3>1. CASE PushRecord
      BY <1>1, <3>1 DEF PushRecord, streamVars
    <3>2. CASE PushLast
      BY <1>1, <3>2, TailOfOne DEF PushLast
    <3>3. QED
      BY <1>2, <3>1, <3>2
  <2>2. ~gap => Placed(exchange.answers, records + 1, Tail(message), answers)
    BY <1>1, <2>1, TailPlace DEF PlaceOK
  <2>3. size # 0
    BY <2>1 DEF PlaceOK
  <2>4. QED
    BY <2>1, <2>2, <2>3 DEF PlaceOK
<1>3. ASSUME NEW k \in 0..MaxAnswers, NEW signed \in BOOLEAN, ReadMessage(k, signed)
      PROVE  PlaceOK'
  <2>1. /\ message = <<>> /\ k \in 0..Len(answers) /\ size' = k
        /\ message' = SubSeq(answers, 1, k) /\ answers' = SubSeq(answers, k + 1, Len(answers))
        /\ UNCHANGED <<exchange, gap, records>>
    BY <1>1, <1>3, TransferAssumption DEF ReadMessage, Reading, Sent, PlaceOK, Inv, MessageOK
  <2>2. ~gap => Placed(exchange.answers, records, message', answers')
    <3>1. PICK m, c : m = message' /\ c = answers'
      OBVIOUS
    <3>2. ~gap => Placed(exchange.answers, records, m, c)
      BY <1>1, <2>1, <3>1, CutPlace DEF PlaceOK
    <3>3. QED
      BY <3>1, <3>2
  <2>3. k = 0 => message' = <<>>
    BY <1>1, <2>1, EmptySeq, SubSeqType
  <2>4. QED
    BY <2>1, <2>2, <2>3 DEF PlaceOK
<1>4. CASE LoneMessage \/ EndMessage
  BY <1>4 DEF LoneMessage, EndMessage, streamVars, PlaceOK
<1>5. ASSUME NEW k \in 0..MaxAnswers, Lose(k)
      PROVE  PlaceOK'
  BY <1>5 DEF Lose, PlaceOK
<1>6. ASSUME UNCHANGED <<exchange, answers, gap, message, size, records>>
      PROVE  PlaceOK'
  BY <1>6 DEF PlaceOK
<1>7. CASE Timeout \/ RefuseRecord \/ TooManyRecords
  BY <1>6, <1>7 DEF Timeout, RefuseRecord, TooManyRecords
<1>8. ASSUME NEW signed \in BOOLEAN, RejectMessage(signed)
      PROVE  PlaceOK'
  BY <1>6, <1>8 DEF RejectMessage
<1>9. CASE RejectHeader \/ Eof
  BY <1>6, <1>9 DEF RejectHeader, Eof
<1>10. CASE UNCHANGED vars
  BY <1>6, <1>10 DEF vars, streamVars
<1>11. QED
  BY <1>2, <1>3, <1>4, <1>5, <1>7, <1>8, <1>9, <1>10 DEF Next, Client, Stream, Closed

LEMMA CopyInit == Init => CopyOK
BY DEF Init, CopyOK, FollowOK

LEMMA CopyNext == Inv /\ PlaceOK /\ CopyOK /\ Compliant(exchange) /\ [Next]_vars => CopyOK'
<1> SUFFICES ASSUME Inv, PlaceOK, CopyOK, Compliant(exchange), [Next]_vars PROVE CopyOK'
    OBVIOUS
<1> DEFINE s == Head(message).serial
           n == Head(message).name
<1>1. CASE PushRecord
  <2>1. /\ outcome = "open" /\ message # <<>> /\ ~Closes(s) /\ Accepted(s, n) /\ records' = records + 1
        /\ UNCHANGED <<exchange, gap, outcome>>
    BY <1>1 DEF PushRecord, Pushing, streamVars
  <2>2. phase # "Complete" /\ (~gap => FollowOK)
    BY <2>1 DEF CopyOK
  <2>3. ~gap => FollowOK'
    BY <2>1, <2>2, FollowPush
  <2>4. phase' # "Complete"
    BY <2>1, AcceptedPhase DEF Inv, LimitsOK
  <2>5. QED
    BY <2>1, <2>3, <2>4 DEF CopyOK
<1>2. CASE PushLast
  <2>1. /\ outcome = "open" /\ message # <<>> /\ Closes(s) /\ Accepted(s, n)
        /\ UNCHANGED <<exchange, gap>> /\ outcome' # "open"
    <3>1. message \in Seq(RR) /\ Len(message) = 1
      BY <1>2 DEF PushLast, Inv, LimitsOK
    <3>2. message # <<>>
      BY <3>1, TailOfOne
    <3>3. QED
      BY <1>2, <3>2 DEF PushLast, Pushing
  <2>2. ~gap => FollowOK
    BY <2>1 DEF CopyOK
  <2>3. ~gap => copy' = exchange.current
    BY <2>1, <2>2, ClosePush
  <2>4. QED
    BY <2>1, <2>3 DEF CopyOK
<1>3. ASSUME UNCHANGED <<exchange, gap, records, phase, target, copy, fresh>>,
             outcome' = outcome \/ outcome' \in {"error", "nochange"}
      PROVE  CopyOK'
  BY <1>3 DEF CopyOK, FollowOK, InDelete, InAdd, Ixfr
<1>4. CASE Timeout \/ RefuseRecord \/ TooManyRecords
  BY <1>3, <1>4 DEF Timeout, RefuseRecord, TooManyRecords, Fail, phaseVars, copyVars
<1>5. CASE LoneMessage \/ EndMessage
  <2>1. CASE LoneMessage
    BY <2>1 DEF LoneMessage, Finish, CopyOK
  <2>2. CASE EndMessage
    BY <1>3, <2>2 DEF EndMessage, phaseVars, copyVars, streamVars
  <2>3. QED
    BY <1>5, <2>1, <2>2
<1>6. ASSUME NEW k \in 0..MaxAnswers, Lose(k)
      PROVE  CopyOK'
  BY <1>6 DEF Lose, phaseVars, copyVars, CopyOK
<1>7. ASSUME NEW k \in 0..MaxAnswers, NEW signed \in BOOLEAN, ReadMessage(k, signed)
      PROVE  CopyOK'
  BY <1>3, <1>7 DEF ReadMessage, phaseVars, copyVars
<1>8. ASSUME NEW signed \in BOOLEAN, RejectMessage(signed)
      PROVE  CopyOK'
  BY <1>3, <1>8 DEF RejectMessage, Fail, phaseVars, copyVars
<1>9. CASE RejectHeader
  BY <1>3, <1>9 DEF RejectHeader, Fail, phaseVars, copyVars
<1>10. CASE Eof
  BY <1>10 DEF Eof, Finish, Fail, CopyOK
<1>11. CASE UNCHANGED vars
  BY <1>3, <1>11 DEF vars, streamVars, phaseVars, copyVars
<1>12. QED
  BY <1>1, <1>2, <1>4, <1>5, <1>6, <1>7, <1>8, <1>9, <1>10, <1>11 DEF Next, Client, Stream, Closed

LEMMA CopyInvariance ==
  ASSUME \A e \in Exchanges : Compliant(e)
  PROVE  Spec => [](Inv /\ PlaceOK /\ CopyOK)
<1>1. Inv => Compliant(exchange)
  BY DEF Inv, LimitsOK
<1>2. Inv /\ PlaceOK /\ CopyOK /\ [Next]_vars => (PlaceOK /\ CopyOK)'
  BY <1>1, PlaceNext, CopyNext
<1>3. QED
  BY <1>2, InitInv, StepInv, PlaceInit, CopyInit, PTL DEF Spec

(* From a primary that answers as RFC 5936 and RFC 1995 allow, a transfer  *)
(* that ends without an error leaves the caller with the version of the    *)
(* primary: for any zone, any number of differences, any packing into      *)
(* messages, and with a key whatever the stream loses.                     *)
THEOREM CompleteCorrect ==
  ASSUME \A e \in Exchanges : Compliant(e)
  PROVE  Spec => []CompleteCopy
<1>1. Inv /\ CopyOK => CompleteCopy
  BY DEF Inv, SignedEnd, CopyOK, CompleteCopy
<1>2. QED
  BY <1>1, CopyInvariance, PTL

-----------------------------------------------------------------------------
(* What the client refuses of answers that are allowed.                    *)

LEMMA NewerOrdered ==
  ASSUME NEW t \in Serials, NEW s \in Serials, Newer(t, s)
  PROVE  Ordered(s, t) /\ Ordered(t, s) /\ ~Newer(s, t)
BY HalfNat DEF Serials, WrappingSub, Newer, Ordered

(* With nothing left to come, only the phase after the first record waits. *)
LEMMA AllSent ==
  ASSUME Inv, PlaceOK, CopyOK, Compliant(exchange), ~gap, outcome = "open",
         message = <<>>, answers = <<>>
  PROVE  phase = "AwaitSecond"
<1> DEFINE N == Len(exchange.answers)
<1>1. records \in Nat /\ N = records /\ phase \in Phases /\ exchange \in Exchange
  BY TransferAssumption DEF Inv, LimitsOK, PlaceOK, Placed
<1>2. FollowOK /\ phase # "Complete"
  BY DEF CopyOK
<1>3. N \in Nat /\ N > 0
  <2>1. CASE Whole(exchange) \/ Unchanged(exchange)
    BY <1>1, <2>1 DEF Whole, Unchanged
  <2>2. CASE \E steps \in SUBSET Step : Differences(exchange, steps)
    <3>1. PICK steps \in SUBSET Step : Differences(exchange, steps)
      BY <2>2
    <3>2. PICK d \in steps : d.old = 2
      BY <3>1 DEF Differences
    <3>3. d.old \in Nat /\ d.new \in Nat /\ d.next \in Nat /\ DifferenceAt(exchange.answers, d)
      BY <1>1, <3>1, StepType
    <3>4. QED
      BY <1>1, <3>3 DEF DifferenceAt
  <2>3. QED
    BY <2>1, <2>2 DEF Compliant
<1>4. phase # "AwaitFirst" /\ phase # "Axfr"
  BY <1>1, <1>2, <1>3 DEF FollowOK
<1>5. ASSUME phase \in {"Delete", "Add"}
      PROVE  FALSE
  <2>1. PICK steps \in SUBSET Step :
          Differences(exchange, steps) /\ \E d \in steps : InDelete(d) \/ InAdd(d)
    BY <1>2, <1>5 DEF FollowOK
  <2>2. PICK d \in steps : InDelete(d) \/ InAdd(d)
    BY <2>1
  <2>3. d.old \in Nat /\ d.new \in Nat /\ d.next \in Nat /\ DifferenceAt(exchange.answers, d)
    BY <1>1, <2>1, StepType
  <2>4. d.new < d.next /\ d.next <= N
    BY <2>3 DEF DifferenceAt
  <2>5. records < d.next
    BY <1>1, <2>2, <2>3, <2>4 DEF InDelete, InAdd
  <2>6. QED
    BY <1>1, <2>3, <2>4, <2>5
<1>6. QED
  BY <1>1, <1>2, <1>4, <1>5 DEF Phases

(* A record of answers whose serials go forward is not refused. *)
LEMMA NotRefused ==
  ASSUME Inv, PlaceOK, FollowOK, Compliant(exchange), Monotone(exchange.answers), ~gap, message # <<>>,
         phase # "Complete", NEW s, s = Head(message).serial
  PROVE  ~Refused(s)
<1> DEFINE a == exchange.answers
           N == Len(a)
<1>1. /\ s = a[records + 1].serial /\ NoSerial \notin Serials /\ phase \in Phases /\ N \in Nat
      /\ exchange \in Exchange /\ exchange.current.serial \in Serials /\ exchange.base.serial \in Serials
  <2>1. exchange \in Exchange /\ NoSerial \notin Serials /\ phase \in Phases
    BY TransferAssumption DEF Inv, LimitsOK
  <2>2. exchange.current.serial \in Serials /\ exchange.base.serial \in Serials
    BY <2>1 DEF Exchange, Version
  <2>3. QED
    BY <2>1, <2>2, HeadIsNext
<1>2. ASSUME NEW i \in 2..N, NEW j \in 2..N, i < j, a[i].serial \in Serials, a[j].serial \in Serials,
             a[i].serial # a[j].serial
      PROVE  /\ Newer(a[j].serial, a[i].serial) /\ ~Newer(a[i].serial, a[j].serial)
             /\ Ordered(a[i].serial, a[j].serial) /\ Ordered(a[j].serial, a[i].serial)
  <2>1. Newer(a[j].serial, a[i].serial)
    BY <1>1, <1>2 DEF Monotone
  <2>2. QED
    BY <1>2, <2>1, NewerOrdered
<1>3. CASE phase = "AwaitFirst"
  BY <1>1, <1>3, NextAnswer DEF Refused
<1>4. CASE phase = "AwaitSecond"
  <2>1. Ixfr /\ target = exchange.current.serial
    BY <1>4 DEF FollowOK
  <2>2. SUFFICES ASSUME s \notin {NoSerial, target}
                 PROVE  s = exchange.base.serial /\ Newer(target, s)
    BY <1>4, <2>1 DEF Refused
  <2>3. PICK steps \in SUBSET Step :
          /\ s = exchange.base.serial /\ s # target /\ Differences(exchange, steps)
          /\ \E d \in steps : d.old = 2 /\ d.from = exchange.base
    BY <1>1, <1>4, <2>2, NextAnswer
  <2>4. PICK d \in steps : d.old = 2 /\ d.from = exchange.base
    BY <2>3
  <2>5. d.new \in Nat /\ d.next \in Nat /\ DifferenceAt(a, d)
    BY <1>1, <2>3, StepType
  <2>6. 2 \in 2..N /\ N \in 2..N /\ 2 < N /\ a[2].serial = s /\ a[N].serial = target
    BY <1>1, <2>1, <2>3, <2>4, <2>5 DEF DifferenceAt, Differences
  <2>7. QED
    BY <1>1, <1>2, <2>1, <2>3, <2>6
<1>5. CASE phase = "Axfr"
  BY <1>1, <1>5, NextAnswer DEF Refused
<1>6. CASE phase = "Delete"
  <2>1. SUFFICES ASSUME s # NoSerial
                 PROVE  Ordered(s, at) /\ Ordered(s, target) /\ Newer(s, at) /\ ~Newer(s, target)
    BY <1>6 DEF Refused, Advances
  <2>2. PICK steps \in SUBSET Step : Differences(exchange, steps) /\ \E d \in steps :
          InDelete(d) /\ s = d.to.serial
    BY <1>1, <1>6, <2>1, NextAnswer
  <2>3. PICK d \in steps : InDelete(d) /\ s = d.to.serial
    BY <2>2
  <2>4. /\ d.old \in Nat /\ d.new \in Nat /\ d.next \in Nat /\ DifferenceAt(a, d)
        /\ d.from.serial \in Serials /\ d.to.serial \in Serials
    BY <1>1, <2>2, StepType
  <2>5. d.from.serial # d.to.serial /\ a[N].serial = exchange.current.serial
    BY <2>2 DEF Differences
  <2>6. at = d.from.serial /\ target = exchange.current.serial
    BY <1>6, <2>3 DEF Inv, PhaseOK, FollowOK, InDelete
  <2>7. /\ d.old \in 2..N /\ d.new \in 2..N /\ N \in 2..N /\ d.old < d.new /\ d.new < N
        /\ a[d.old].serial = at /\ a[d.new].serial = s
    <3>1. /\ 2 <= d.old /\ d.old < d.new /\ d.new < d.next /\ d.next <= N
          /\ a[d.old].serial = d.from.serial /\ a[d.new].serial = d.to.serial
      BY <2>4 DEF DifferenceAt
    <3>2. /\ d.old \in 2..N /\ d.new \in 2..N /\ N \in 2..N /\ d.new < N
      BY <1>1, <2>4, <3>1
    <3>3. QED
      BY <2>3, <2>6, <3>1, <3>2
  <2>8. Newer(s, at) /\ Ordered(s, at)
    <3>1. a[d.old].serial \in Serials /\ a[d.new].serial \in Serials /\ a[d.old].serial # a[d.new].serial
      BY <2>3, <2>4, <2>5, <2>6, <2>7
    <3>2. QED
      BY <1>2, <2>7, <3>1
  <2>9. s # target => Ordered(s, target) /\ ~Newer(s, target)
    BY <1>1, <1>2, <2>3, <2>4, <2>5, <2>6, <2>7
  <2>10. s = target => Ordered(s, target) /\ ~Newer(s, target)
    BY <1>1, <2>6, SubType, HalfNat DEF Ordered, Newer
  <2>11. QED
    BY <2>8, <2>9, <2>10
<1>7. CASE phase = "Add"
  <2>1. PICK steps \in SUBSET Step : Differences(exchange, steps) /\ \E d \in steps :
          InAdd(d) /\ s \in {NoSerial, target, d.to.serial}
    BY <1>1, <1>7, NextAnswer
  <2>2. PICK d \in steps : InAdd(d) /\ s \in {NoSerial, target, d.to.serial}
    BY <2>1
  <2>3. at = d.to.serial
    BY <1>7, <2>2 DEF Inv, PhaseOK, InAdd
  <2>4. Ixfr
    BY <2>1 DEF Differences, Ixfr
  <2>5. QED
    BY <1>7, <2>2, <2>3, <2>4 DEF Refused
<1>8. QED
  BY <1>1, <1>3, <1>4, <1>5, <1>6, <1>7 DEF Phases

(* An error is the end, so its cause is the last one. *)
CauseOK == outcome = "open" => cause = "none"

LEMMA CauseNext == CauseOK /\ [Next]_vars => CauseOK'
<1> SUFFICES ASSUME CauseOK, [Next]_vars PROVE CauseOK'
    OBVIOUS
<1>1. CASE UNCHANGED <<outcome, cause>>
  BY <1>1 DEF CauseOK
<1>2. CASE outcome' # "open"
  BY <1>2 DEF CauseOK
<1>3. CASE Client
  BY <1>1, <1>2, <1>3 DEF Client, Timeout, PushRecord, PushLast, RefuseRecord, TooManyRecords, LoneMessage,
     EndMessage, Finish, Fail, streamVars
<1>4. CASE Stream
  BY <1>1, <1>2, <1>4 DEF Stream, Lose, ReadMessage, RejectMessage, RejectHeader, Eof, Finish, Fail
<1>5. QED
  BY <1>1, <1>3, <1>4 DEF Next, Closed, vars, streamVars

LEMMA RefusalNext ==
  /\ Inv /\ PlaceOK /\ CopyOK /\ CauseOK /\ Compliant(exchange) /\ [Next]_vars
  /\ RefusalHasCause
  => RefusalHasCause'
<1> SUFFICES ASSUME Inv, PlaceOK, CopyOK, CauseOK, Compliant(exchange), [Next]_vars, RefusalHasCause
             PROVE  RefusalHasCause'
    OBVIOUS
<1>1. CASE cause' \notin {"records", "lone"}
  BY <1>1 DEF RefusalHasCause
<1>2. CASE RefuseRecord
  <2> DEFINE s == Head(message).serial
  <2>1. /\ outcome = "open" /\ message # <<>> /\ UNCHANGED <<exchange, gap>>
        /\ cause' \in {"records", "signature"}
        /\ cause' = "records" => Refused(s) \/ (Closes(s) /\ Len(message) > 1)
    BY <1>2 DEF RefuseRecord, Pushing, Fail
  <2>2. FollowOK \/ gap
    BY <2>1 DEF CopyOK
  <2>3. phase # "Complete"
    BY <2>1 DEF CopyOK
  <2>4. ~gap /\ Monotone(exchange.answers) => ~Refused(s)
    BY <2>1, <2>2, <2>3, NotRefused
  <2>5. ~gap /\ Closes(s) => Len(message) = 1
    <3>1. PICK n : n = Head(message).name
      OBVIOUS
    <3>2. ~gap /\ Closes(s) => records + 1 = Len(exchange.answers)
      BY <2>1, <2>2, <3>1, ClosePush
    <3>3. QED
      BY <2>1, <3>2, HeadIsNext
  <2>6. ~(1 > 1)
    OBVIOUS
  <2>7. cause' = "records" => gap \/ ~Monotone(exchange.answers)
    BY <2>1, <2>4, <2>5, <2>6, Zenon
  <2>8. QED
    BY <2>1, <2>7 DEF RefusalHasCause, Monotone
<1>3. CASE LoneMessage
  <2>1. /\ outcome = "open" /\ message = <<>> /\ UNCHANGED <<answers, gap>>
        /\ cause' = "lone" => phase # "AwaitSecond"
        /\ cause' # "records"
    BY <1>3 DEF LoneMessage, Pushing
  <2>2. ~gap /\ answers = <<>> => phase = "AwaitSecond"
    BY <2>1, AllSent
  <2>3. QED
    BY <2>1, <2>2 DEF RefusalHasCause
<1>4. CASE outcome = "open" /\ cause' = cause
  BY <1>1, <1>4 DEF CauseOK
<1>5. CASE PushRecord \/ PushLast \/ EndMessage
  BY <1>1, <1>4, <1>5 DEF PushRecord, PushLast, EndMessage, Pushing, streamVars
<1>6. CASE Timeout \/ TooManyRecords \/ RejectHeader \/ Eof
  BY <1>1, <1>6 DEF Timeout, TooManyRecords, RejectHeader, Eof, Fail
<1>7. ASSUME NEW signed \in BOOLEAN, RejectMessage(signed)
      PROVE  RefusalHasCause'
  BY <1>1, <1>7 DEF RejectMessage, Fail
<1>8. ASSUME NEW k \in 0..MaxAnswers, Lose(k)
      PROVE  RefusalHasCause'
  BY <1>4, <1>8 DEF Lose, Reading
<1>9. ASSUME NEW k \in 0..MaxAnswers, NEW signed \in BOOLEAN, ReadMessage(k, signed)
      PROVE  RefusalHasCause'
  BY <1>4, <1>9 DEF ReadMessage, Reading
<1>10. CASE UNCHANGED vars
  BY <1>10 DEF vars, streamVars, RefusalHasCause, Monotone
<1>11. QED
  BY <1>2, <1>3, <1>5, <1>6, <1>7, <1>8, <1>9, <1>10 DEF Next, Client, Stream, Closed

(* Of answers that RFC 5936 and RFC 1995 allow, and whose serials go       *)
(* forward, no record is ever refused while nothing is lost, in any        *)
(* packing.  An IXFR message of one record that ends the transfer with an  *)
(* error is refused by the code for its packing alone: such a message      *)
(* always has answers to follow.                                           *)
THEOREM RefusalCorrect ==
  ASSUME \A e \in Exchanges : Compliant(e)
  PROVE  Spec => []RefusalHasCause
<1>1. Inv => Compliant(exchange)
  BY DEF Inv, LimitsOK
<1>2. Init => RefusalHasCause /\ CauseOK
  BY DEF Init, RefusalHasCause, CauseOK
<1>3. Inv /\ PlaceOK /\ CopyOK /\ CauseOK /\ RefusalHasCause /\ [Next]_vars => (CauseOK /\ RefusalHasCause)'
  BY <1>1, CauseNext, RefusalNext
<1>4. QED
  BY <1>2, <1>3, CopyInvariance, PTL DEF Spec
=============================================================================
