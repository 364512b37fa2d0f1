------------------------------- MODULE Primary -------------------------------
(***************************************************************************)
(* What a primary answers to a transfer query (RFC 1995, RFC 5936), as the *)
(* client of bind9-sdk-net reads it: external to the repository.           *)
(***************************************************************************)
EXTENDS Transfer, SequencesExt

Soa(v)  == <<[serial |-> v.serial, name |-> NoSerial]>>
Rrs(S)  == [i \in 1..Cardinality(S) |-> [serial |-> NoSerial, name |-> SetToSeq(S)[i]]]

(* The zone between two copies of its SOA. *)
FullAnswer(v) == Soa(v) \o Rrs(v.rrs) \o Soa(v)

(* From v to w: the old SOA and what goes, the new SOA and what comes. *)
Difference(v, w) == Soa(v) \o Rrs(v.rrs \ w.rrs) \o Soa(w) \o Rrs(w.rrs \ v.rrs)

(* The differences along a path of versions, between two copies of the     *)
(* current SOA.                                                            *)
IncrementalAnswer(path) ==
  Soa(Last(path))
  \o FlattenSeq([i \in 1..(Len(path) - 1) |-> Difference(path[i], path[i + 1])])
  \o Soa(Last(path))

(* The answers to a query for history h from a caller that holds version   *)
(* number i: the whole zone, or the differences of the journal, or the SOA *)
(* when nothing is newer.                                                  *)
Answers(kind, h, i) ==
  LET n == Len(h)
      path == SubSeq(h, i, n)
  IN IF kind = "axfr" THEN {FullAnswer(h[n])}
     ELSE IF ~Newer(h[n].serial, h[i].serial) THEN {Soa(h[n])}
     ELSE {FullAnswer(h[n]), IncrementalAnswer(path),
           IncrementalAnswer(<<h[i], h[n]>>)}

ExchangesOf(histories) ==
  UNION {{[kind |-> kind, keyed |-> keyed, base |-> h[i], current |-> Last(h), answers |-> a] :
            keyed \in BOOLEAN, a \in Answers(kind, h, i)} :
         <<kind, h, i>> \in {x \in {"axfr", "ixfr"} \X histories \X (1..4) : x[3] <= Len(x[2])}}
=============================================================================
