----------------------------- MODULE MCZoneEdit -----------------------------
(* Zones with one or two name servers and a name below that has addresses, *)
(* a CNAME or nothing.  Others may add a CNAME or a text of their own.     *)
EXTENDS ZoneEdit

CONSTANTS apex, www, n1, n2, a1, a2, host, host2

Rr(name, type, data, ttl) == [name |-> name, type |-> type, data |-> data, ttl |-> ttl]
Server(d, ttl)  == Rr(apex, "NS", d, ttl)
Address(d, ttl) == Rr(www, "A", d, ttl)
Alias(d)        == Rr(www, "CNAME", d, 1)

McZones ==
  {s \cup w : s \in {{Server(n1, 1)}, {Server(n2, 1)}, {Server(n1, 2), Server(n2, 2)}},
              w \in {{}, {Alias(host)}, {Alias(host2)}, {Address(a1, 1)}, {Address(a1, 2)},
                     {Address(a1, 1), Address(a2, 1)}, {Address(a2, 2)}}}

McFirstZones ==
  {s \cup w : s \in {{Server(n1, 1)}, {Server(n1, 2), Server(n2, 2)}},
              w \in {{}, {Alias(host)}, {Address(a1, 1)}, {Address(a1, 1), Address(a2, 1)}}}

(* 2000-02-29, the 29th of February of a leap year of four centuries *)
McEditDay == 11016

(* 2100-03-02: the year 2100 has no leap day *)
McLastDay == 47542

(* before today, the last number of today, this very second, an older    *)
(* number that is newer, and the greatest                                  *)
McFirstSerials == {2000022850, 2000022999, 951782400, 1500000000, 2147483645}

McSeconds == {0, 86399}

McOtherEntries ==
  {[kind |-> "AddRecord", record |-> r] :
     r \in {Address(a2, 2), Alias(host), Alias(host2), Rr(www, "TXT", host, 1)}} \cup
  {[kind |-> "DeleteRecord", record |-> r] : r \in {Address(a1, 1), Server(n1, 1)}} \cup
  {[kind |-> "DeleteRrset", name |-> www, type |-> "A"], [kind |-> "DeleteName", name |-> www]}
=============================================================================
