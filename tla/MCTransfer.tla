----------------------------- MODULE MCTransfer -----------------------------
(* Instance of Transfer: up to four versions of a zone with two records.        *)
EXTENDS Primary

V(s, rrs) == [serial |-> s, rrs |-> rrs]

(* a plain journal, one that wraps, one that only changes the SOA, one     *)
(* whose serial went back, a zone that became empty                        *)
MCHistories ==
  { <<V(1, {"a"}), V(2, {"b"}), V(3, {"a", "b"}), V(4, {"a"})>>,
    <<V(6, {"a", "b"}), V(7, {"b"}), V(1, {"a"})>>,
    <<V(2, {"a"}), V(3, {"a"})>>,
    <<V(2, {"a"}), V(1, {"b"}), V(4, {"a", "b"})>>,
    <<V(2, {"a", "b"}), V(5, {"a"}), V(4, {"b"})>>,
    <<V(5, {"a"}), V(7, {})>> }

MCExchanges == ExchangesOf(MCHistories)

(* Every exchange is one the theorems speak of. *)
Paths(h) == {SubSeq(h, i, Len(h)) : i \in 1..(Len(h) - 1)}
            \cup {<<h[i], Last(h)>> : i \in 1..(Len(h) - 1)}

Steps(path, a) ==
  LET soas == SelectSeq([i \in DOMAIN a |-> i], LAMBDA i : a[i].serial # NoSerial)
  IN IF Len(soas) # 2 * Len(path) THEN {}
     ELSE {[from |-> path[k], to |-> path[k + 1],
            old |-> soas[2 * k], new |-> soas[2 * k + 1], next |-> soas[2 * k + 2]] :
             k \in 1..(Len(path) - 1)}

ASSUME AnswersCompliant ==
  \A e \in MCExchanges :
    \/ Whole(e) \/ Unchanged(e)
    \/ \E path \in UNION {Paths(h) : h \in MCHistories} :
         LET steps == Steps(path, e.answers)
         IN steps \subseteq Step /\ Differences(e, steps)
=============================================================================
