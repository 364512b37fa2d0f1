------------------------------ MODULE Transfer ------------------------------
(***************************************************************************)
(* The zone transfer client of bind9-sdk-net (transfer/mod.rs): the AXFR   *)
(* and IXFR record streams, the IXFR phases of IxfrState, and the RFC 8945 *)
(* verifier of a signed message stream.                                    *)
(*                                                                         *)
(* An exchange is one query: what the caller holds, what the primary has,  *)
(* and the answers the primary gives.  The primary packs the answers into  *)
(* messages of any size and signs the messages it likes; the stream may    *)
(* end, fall silent, or miss a message.  The client reads one message,     *)
(* verifies it, and pushes its records one by one; the caller applies the  *)
(* items it gets to its copy of the zone as the item types say.            *)
(*                                                                         *)
(* A MAC covers the MAC before it and every message since, so once a       *)
(* message is missing no later MAC verifies.                               *)
(***************************************************************************)
EXTENDS Serial, Sequences, FiniteSets

CONSTANTS
  Names,        \* the records of a zone other than its SOA
  NoSerial,     \* the serial of a record that is not the apex SOA
  Exchanges,    \* the queries and answers considered
  MaxAnswers,   \* bound: records in one message
  MaxUnsigned,  \* unsigned messages in a row (99 in the code)
  MaxRecords    \* the record limit of the client

Version == [serial : Serials, rrs : SUBSET Names]
RR == [serial : Serials, name : {NoSerial}] \cup [serial : {NoSerial}, name : Names]
Exchange == [kind : {"axfr", "ixfr"}, keyed : BOOLEAN, base : Version,
             current : Version, answers : Seq(RR)]

ASSUME TransferAssumption ==
  /\ NoSerial \notin Serials /\ NoSerial \notin Names
  /\ Exchanges \subseteq Exchange
  /\ MaxAnswers \in Nat /\ MaxUnsigned \in Nat /\ MaxRecords \in Nat

VARIABLES
  exchange,   \* the query: kind, key, the caller's version, the primary's
  answers,    \* records the primary has not sent yet
  gap,        \* a message of the stream is missing
  cause,      \* what the error of the stream was about (history variable)
  outcome,    \* how the stream of the caller ended
  reading,    \* a read is under way; otherwise a message is in hand
  message,    \* records of the message in hand not pushed yet
  size,       \* answer_count of the message in hand
  records,    \* record_count
  first,      \* first_message of the verifier
  unsigned,   \* unsigned_message_count
  lastSigned, \* last_message_signed
  phase,      \* IxfrPhase, or the place in an AXFR
  target,     \* current_serial of the phase, or opening_serial
  at,         \* from_serial or to_serial of the phase
  copy,       \* the caller's version, with what it applied so far
  fresh       \* the version an AXFR is building, not yet the caller's

streamVars   == <<exchange, answers, gap, cause>>
verifierVars == <<first, unsigned, lastSigned>>
phaseVars    == <<phase, target, at>>
copyVars     == <<copy, fresh>>
vars == <<streamVars, outcome, reading, message, size, records, verifierVars, phaseVars, copyVars>>

Phases == {"AwaitFirst", "AwaitSecond", "Axfr", "Delete", "Add", "Complete"}

(* peer: a timeout, the end of the connection or a header; signature: a    *)
(* TSIG; limit: max_records; records: a record or its place; lone: an IXFR *)
(* message of one answer before the end.                                   *)
Causes == {"none", "peer", "signature", "limit", "records", "lone"}

(* The type invariant: the records and the unsigned messages in a row stay *)
(* within their limits, however they are spread over messages.             *)
LimitsOK ==
  /\ exchange \in Exchanges
  /\ answers \in Seq(RR) /\ message \in Seq(RR)
  /\ gap \in BOOLEAN /\ cause \in Causes /\ reading \in BOOLEAN
  /\ outcome \in {"open", "ok", "nochange", "error"}
  /\ size \in 0..MaxAnswers /\ records \in 0..MaxRecords
  /\ first \in BOOLEAN /\ unsigned \in 0..MaxUnsigned /\ lastSigned \in BOOLEAN
  /\ phase \in Phases
  /\ target \in Serials \cup {NoSerial} /\ at \in Serials \cup {NoSerial}
  /\ copy \in Version /\ fresh \in SUBSET Names

Init ==
  /\ exchange \in Exchanges
  /\ answers = exchange.answers /\ message = <<>> /\ size = 0 /\ records = 0
  /\ gap = FALSE /\ cause = "none" /\ outcome = "open" /\ reading = TRUE
  /\ first = TRUE /\ unsigned = 0 /\ lastSigned = FALSE
  /\ phase = "AwaitFirst" /\ target = NoSerial /\ at = NoSerial
  /\ copy = exchange.base /\ fresh = {}

Keyed == exchange.keyed
Ixfr == exchange.kind = "ixfr"
Reading == outcome = "open" /\ reading
Pushing == outcome = "open" /\ ~reading

(* The stream yields an error and ends. *)
Fail(c) == outcome' = "error" /\ cause' = c

-----------------------------------------------------------------------------
(* Reading a message.                                                      *)

(* The oldest k answers leave the primary. *)
Sent(k) == answers' = SubSeq(answers, k + 1, Len(answers))

(* finish of the verifier *)
Bug_Authentic == TRUE
Authentic == Keyed => lastSigned

(* verify_message accepts the message. *)
Verify(signed) ==
  \/ /\ Keyed /\ signed /\ ~gap
     /\ first' = FALSE /\ lastSigned' = TRUE /\ unsigned' = 0
  \/ /\ Keyed /\ ~signed /\ ~first /\ unsigned < MaxUnsigned
     /\ unsigned' = unsigned + 1 /\ lastSigned' = FALSE /\ UNCHANGED first
  \/ /\ ~Keyed
     /\ first' = FALSE /\ UNCHANGED <<unsigned, lastSigned>>

(* A message of k answers, none included, passes verify_message and        *)
(* validate_transfer_response.                                             *)
ReadMessage(k, signed) ==
  /\ Reading /\ k \in 0..MaxAnswers /\ k <= Len(answers)
  /\ Verify(signed)
  /\ reading' = FALSE /\ message' = SubSeq(answers, 1, k) /\ size' = k /\ Sent(k)
  /\ UNCHANGED <<exchange, gap, cause, outcome, records, phaseVars, copyVars>>

(* The message has no TSIG where one is due, or one that does not verify. *)
RejectMessage(signed) ==
  /\ Reading /\ Keyed
  /\ IF signed THEN gap ELSE first \/ unsigned >= MaxUnsigned
  /\ Fail("signature")
  /\ UNCHANGED <<exchange, answers, gap, reading, message, size, records, verifierVars, phaseVars, copyVars>>

(* Another ID, an RCODE, a truncated or non-authoritative response, ... *)
RejectHeader ==
  /\ Reading
  /\ Fail("peer")
  /\ UNCHANGED <<exchange, answers, gap, reading, message, size, records, verifierVars, phaseVars, copyVars>>

(* A timeout that only covers the first message. *)
Bug_Timeout ==
  /\ Reading /\ records = 0
  /\ Fail("peer")
  /\ UNCHANGED <<exchange, answers, gap, reading, message, size, records, verifierVars, phaseVars, copyVars>>

(* A read times out. *)
Timeout ==
  /\ Reading
  /\ Fail("peer")
  /\ UNCHANGED <<exchange, answers, gap, reading, message, size, records, verifierVars, phaseVars, copyVars>>

(* finish of IxfrState and of the verifier, after the caller got NoChange *)
Finish ==
  /\ phase' = "Complete"
  /\ outcome' = IF phase = "AwaitSecond" /\ Authentic THEN "nochange" ELSE "error"

(* The primary closes the connection between two messages. *)
Eof ==
  /\ Reading
  /\ IF Ixfr THEN Finish ELSE outcome' = "error" /\ UNCHANGED phase
  /\ cause' = "peer"
  /\ UNCHANGED <<exchange, answers, gap, reading, message, size, records, verifierVars, target, at, copyVars>>

-----------------------------------------------------------------------------
(* Pushing a record: IxfrState::push.  An alternative is a phase and a     *)
(* kind of record; the last conjuncts are what the caller does with the    *)
(* items it is given.                                                      *)

AwaitFirst(s) ==
  /\ phase = "AwaitFirst" /\ s # NoSerial
  /\ phase' = "AwaitSecond" /\ target' = s
  /\ UNCHANGED <<at, copyVars>>

(* CurrentSoa and DeleteSoa *)
BeginDeltas(s) ==
  /\ phase = "AwaitSecond" /\ s \notin {NoSerial, target}
  /\ s = exchange.base.serial /\ Newer(target, s)
  /\ phase' = "Delete" /\ at' = s
  /\ UNCHANGED <<target, copyVars>>

(* AxfrFallback, both SOAs: a zone without other records *)
EmptyZone(s) ==
  /\ phase = "AwaitSecond" /\ s = target
  /\ phase' = "Complete"
  /\ copy' = [serial |-> s, rrs |-> {}]
  /\ UNCHANGED <<target, at, fresh>>

(* Only the opening SOA is passed on. *)
Bug_BeginFallback(s, n) ==
  /\ phase = "AwaitSecond" /\ s = NoSerial
  /\ phase' = "Axfr" /\ fresh' = {}
  /\ UNCHANGED <<target, at, copy>>

(* AxfrFallback, the opening SOA and the first record *)
BeginFallback(s, n) ==
  /\ phase = "AwaitSecond" /\ s = NoSerial
  /\ phase' = "Axfr" /\ fresh' = {n}
  /\ UNCHANGED <<target, at, copy>>

FullRecord(s, n) ==
  /\ phase = "Axfr" /\ s = NoSerial
  /\ fresh' = fresh \cup {n}
  /\ UNCHANGED <<phaseVars, copy>>

EndFull(s) ==
  /\ phase = "Axfr" /\ s = target
  /\ phase' = "Complete" /\ copy' = [serial |-> s, rrs |-> fresh]
  /\ UNCHANGED <<target, at, fresh>>

Deleted(s, n) ==
  /\ phase = "Delete" /\ s = NoSerial
  /\ copy' = [copy EXCEPT !.rrs = @ \ {n}]
  /\ UNCHANGED <<phaseVars, fresh>>

(* The current serial is taken for one past the end. *)
Bug_Advances(s) == Newer(s, at) /\ Newer(target, s)

(* The serial is newer than the last one and not newer than the current.   *)
Advances(s) == Ordered(s, at) /\ Ordered(s, target) /\ Newer(s, at) /\ ~Newer(s, target)

Bug_AddSoa(s) ==
  /\ phase = "Delete" /\ s # NoSerial
  /\ phase' = "Add" /\ at' = s
  /\ copy' = [copy EXCEPT !.serial = s]
  /\ UNCHANGED <<target, fresh>>

AddSoa(s) ==
  /\ phase = "Delete" /\ s # NoSerial /\ Advances(s)
  /\ phase' = "Add" /\ at' = s
  /\ copy' = [copy EXCEPT !.serial = s]
  /\ UNCHANGED <<target, fresh>>

Added(s, n) ==
  /\ phase = "Add" /\ s = NoSerial
  /\ copy' = [copy EXCEPT !.rrs = @ \cup {n}]
  /\ UNCHANGED <<phaseVars, fresh>>

(* EndSoa: the current serial, whatever the last step led to *)
EndDeltas(s) ==
  /\ phase = "Add" /\ s = target
  /\ phase' = "Complete"
  /\ UNCHANGED <<target, at, copyVars>>

Bug_NextDelta(s) ==
  /\ phase = "Add" /\ s \notin {target, NoSerial}
  /\ phase' = "Delete" /\ at' = s
  /\ UNCHANGED <<target, copyVars>>

NextDelta(s) ==
  /\ phase = "Add" /\ s # target /\ s = at
  /\ phase' = "Delete"
  /\ UNCHANGED <<target, at, copyVars>>

IxfrPush(s, n) ==
  \/ AwaitFirst(s) \/ BeginDeltas(s) \/ EmptyZone(s) \/ BeginFallback(s, n)
  \/ FullRecord(s, n) \/ EndFull(s) \/ Deleted(s, n) \/ AddSoa(s) \/ Added(s, n)
  \/ EndDeltas(s) \/ NextDelta(s)

(* transfer_record_stream: the opening SOA, records, the same SOA again *)
AxfrPush(s, n) ==
  \/ /\ phase = "AwaitFirst" /\ s # NoSerial
     /\ phase' = "Axfr" /\ target' = s
     /\ UNCHANGED <<at, copyVars>>
  \/ FullRecord(s, n)
  \/ EndFull(s)

Accepted(s, n) == IF Ixfr THEN IxfrPush(s, n) ELSE AxfrPush(s, n)

(* The record completes the transfer. *)
Closes(s) == s = target /\ phase \in {"AwaitSecond", "Axfr", "Add"}

(* The record is refused: its serial or its place is wrong. *)
Refused(s) ==
  IF Ixfr
  THEN \/ phase = "AwaitFirst" /\ s = NoSerial
       \/ /\ phase = "AwaitSecond" /\ s \notin {NoSerial, target}
          /\ ~(s = exchange.base.serial /\ Newer(target, s))
       \/ phase = "Axfr" /\ s \notin {NoSerial, target}
       \/ phase = "Delete" /\ s # NoSerial /\ ~Advances(s)
       \/ phase = "Add" /\ s \notin {NoSerial, target, at}
  ELSE \/ phase = "AwaitFirst" /\ s = NoSerial
       \/ phase = "Axfr" /\ s \notin {NoSerial, target}

(* max_records is not reached yet. *)
Bug_WithinLimit == records <= MaxRecords
WithinLimit == records < MaxRecords

(* A record in the middle of the transfer. *)
PushRecord ==
  /\ Pushing /\ message # <<>> /\ WithinLimit
  /\ ~Closes(Head(message).serial)
  /\ Accepted(Head(message).serial, Head(message).name)
  /\ message' = Tail(message) /\ records' = records + 1
  /\ UNCHANGED <<streamVars, outcome, reading, size, verifierVars>>

(* The last record of the transfer, which must end its message.  The AXFR  *)
(* stream asks the verifier before it yields the closing SOA, the IXFR     *)
(* stream after it.                                                        *)
PushLast ==
  /\ Pushing /\ Len(message) = 1 /\ WithinLimit
  /\ Closes(Head(message).serial) /\ (Ixfr \/ Authentic)
  /\ Accepted(Head(message).serial, Head(message).name)
  /\ message' = <<>> /\ records' = records + 1
  /\ outcome' = IF Authentic THEN "ok" ELSE "error"
  /\ cause' = IF Authentic THEN "none" ELSE "signature"
  /\ UNCHANGED <<exchange, answers, gap, reading, size, verifierVars>>

(* A record that does not fit, or records after the end. *)
RefuseRecord ==
  /\ Pushing /\ message # <<>> /\ WithinLimit
  /\ LET s == Head(message).serial
     IN \/ (Refused(s) \/ (Closes(s) /\ Len(message) > 1)) /\ Fail("records")
        \/ Closes(s) /\ Len(message) = 1 /\ ~Ixfr /\ ~Authentic /\ Fail("signature")
  /\ UNCHANGED <<exchange, answers, gap, reading, message, size, records, verifierVars, phaseVars, copyVars>>

TooManyRecords ==
  /\ Pushing /\ message # <<>> /\ ~WithinLimit
  /\ Fail("limit")
  /\ UNCHANGED <<exchange, answers, gap, reading, message, size, records, verifierVars, phaseVars, copyVars>>

(* After the last record of a message, or none: an IXFR message of one     *)
(* answer ends the stream, otherwise the next message is read, and timed   *)
(* anew.                                                                   *)
LoneMessage ==
  /\ Pushing /\ message = <<>> /\ Ixfr /\ size = 1
  /\ Finish
  /\ cause' = IF phase # "AwaitSecond" THEN "lone" ELSE IF Authentic THEN "none" ELSE "signature"
  /\ UNCHANGED <<exchange, answers, gap, reading, message, size, records, verifierVars,
                 target, at, copyVars>>

EndMessage ==
  /\ Pushing /\ message = <<>> /\ ~(Ixfr /\ size = 1)
  /\ reading' = TRUE /\ size' = 0
  /\ UNCHANGED <<streamVars, outcome, message, records, verifierVars, phaseVars, copyVars>>

-----------------------------------------------------------------------------
(* A message of k answers never reaches the client. *)
Lose(k) ==
  /\ Reading /\ k \in 0..MaxAnswers /\ k <= Len(answers)
  /\ Sent(k) /\ gap' = TRUE
  /\ UNCHANGED <<exchange, cause, outcome, reading, message, size, records, verifierVars, phaseVars, copyVars>>

Closed == outcome # "open" /\ UNCHANGED vars

Client == Timeout \/ PushRecord \/ PushLast \/ RefuseRecord \/ TooManyRecords
          \/ LoneMessage \/ EndMessage

Stream == \/ \E k \in 0..MaxAnswers :
               Lose(k) \/ \E signed \in BOOLEAN : ReadMessage(k, signed)
          \/ \E signed \in BOOLEAN : RejectMessage(signed)
          \/ RejectHeader \/ Eof

Next == Client \/ Stream \/ Closed

Spec == Init /\ [][Next]_vars

(* The runtime runs the task of the stream and fires its timers; nothing   *)
(* is owed to the primary.                                                 *)
FairSpec == Spec /\ WF_vars(Client)

-----------------------------------------------------------------------------
(* Properties.                                                             *)

(* A transfer that ends without an error leaves the caller with the        *)
(* version of the primary: a full transfer, one step or several, over the  *)
(* wrap of the serial space, in any packing into messages, and with a key  *)
(* also when the stream lost a message.                                    *)
CompleteCopy ==
  outcome = "ok" /\ (Keyed \/ ~gap) => copy = exchange.current

(* A difference is only begun from the version the caller has reached,     *)
(* even when a whole difference is missing from the stream.                *)
DeltasInOrder ==
  [][phase # "Delete" /\ phase' = "Delete" => at' = copy.serial]_vars

(* Differences lead from the caller's serial towards the current one and   *)
(* never past it, around the sequence space too: seen from the serial of   *)
(* the query, every new serial is further and none is beyond the current.  *)
SerialsAdvance ==
  [][phase = "Delete" /\ phase' = "Add" =>
       LET offset(s) == WrappingSub(s, exchange.base.serial)
       IN /\ offset(copy.serial) < offset(copy'.serial)
          /\ offset(copy'.serial) <= offset(target)]_vars

(* A signed transfer that ends well missed no message: the last message    *)
(* carries a MAC, and it covers everything since the query.                *)
SignedEnd == Keyed /\ outcome \in {"ok", "nochange"} => ~gap

(* Every later serial of the answers is newer than every earlier one, the  *)
(* opening SOA aside.                                                      *)
Monotone(s) ==
  \A i, j \in 2..Len(s) :
    i < j /\ s[i].serial # NoSerial /\ s[j].serial # NoSerial =>
      s[i].serial = s[j].serial \/ Newer(s[j].serial, s[i].serial)

(* Of the answers a primary may give, the client refuses no record for     *)
(* its serial or its place, in any packing into messages, unless a message *)
(* was lost or a serial goes back.  What it does refuse is an IXFR message *)
(* of one record with more to come (mod.rs:660), which RFC 5936 allows.    *)
RefusalHasCause ==
  /\ cause = "records" => gap \/ ~Monotone(exchange.answers)
  /\ cause = "lone" => gap \/ answers # <<>>

(* What a primary may answer (RFC 5936 and RFC 1995), for the theorems:    *)
(* the whole zone between two copies of its SOA, ...                       *)
NamesIn(a, i, j) == {a[k].name : k \in i..j}
OnlyRecords(a, i, j) == \A k \in i..j : a[k].serial = NoSerial

Whole(e) ==
  LET a == e.answers
  IN /\ Len(a) > 1 /\ a[1].serial = e.current.serial /\ a[Len(a)].serial = e.current.serial
     /\ OnlyRecords(a, 2, Len(a) - 1) /\ NamesIn(a, 2, Len(a) - 1) = e.current.rrs

(* ... or the SOA alone, ...                                               *)
Unchanged(e) == e.kind = "ixfr" /\ Len(e.answers) = 1 /\ e.answers[1].serial = e.current.serial

(* ... or differences: each has the old SOA, what goes, the new SOA and    *)
(* what comes, at these places of the answers, ...                         *)
Step == [from : Version, to : Version, old : Nat, new : Nat, next : Nat]
DifferenceAt(a, d) ==
  /\ 2 <= d.old /\ d.old < d.new /\ d.new < d.next /\ d.next <= Len(a)
  /\ a[d.old].serial = d.from.serial /\ a[d.new].serial = d.to.serial
  /\ OnlyRecords(a, d.old + 1, d.new - 1) /\ OnlyRecords(a, d.new + 1, d.next - 1)
  /\ NamesIn(a, d.old + 1, d.new - 1) = d.from.rrs \ d.to.rrs
  /\ NamesIn(a, d.new + 1, d.next - 1) = d.to.rrs \ d.from.rrs

(* ... and they lead from the caller's version to the current one, whose   *)
(* serial no version before it has.                                        *)
Differences(e, steps) ==
  LET a == e.answers
  IN /\ e.kind = "ixfr" /\ a[1].serial = e.current.serial /\ a[Len(a)].serial = e.current.serial
     /\ \E d \in steps : d.old = 2 /\ d.from = e.base
     /\ \A d \in steps :
          /\ DifferenceAt(a, d)
          /\ d.from.serial \notin {d.to.serial, e.current.serial}
          /\ \/ d.next = Len(a) /\ d.to = e.current
             \/ \E b \in steps : b.old = d.next /\ b.from = d.to

Compliant(e) == Whole(e) \/ Unchanged(e) \/ \E steps \in SUBSET Step : Differences(e, steps)

(* Every transfer ends, with a primary that stops answering too, unless    *)
(* the primary sends messages without answers for ever: each is read in    *)
(* time, and none counts as a record.                                      *)
TransferEnds == <>(outcome # "open") \/ []<>(Pushing /\ size = 0)

(* transfer.rs:50, of IxfrEvent::NoChange: "The server is not newer than   *)
(* the requested serial."                                                  *)
NoChangeIsCurrent ==
  outcome = "nochange" => ~Newer(exchange.current.serial, exchange.base.serial)
=============================================================================
