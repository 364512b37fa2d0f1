------------------------------- MODULE Serial -------------------------------
(***************************************************************************)
(* Zone serials (bind9-sdk-core record.rs): u32 numbers compared in the    *)
(* sequence space of RFC 1982.  The space has 2 * Half values; two serials *)
(* that are Half apart have no order.                                      *)
(***************************************************************************)
EXTENDS Naturals

CONSTANT Half   \* 2^31 in the code

ASSUME HalfAssumption == Half \in Nat /\ Half > 1

SerialSpace == 2 * Half
Serials == 0..(SerialSpace - 1)

(* u32::wrapping_sub and u32::wrapping_add; no intermediate value is      *)
(* outside of the space                                                   *)
WrappingSub(a, b) == IF a >= b THEN a - b ELSE SerialSpace - (b - a)
Bug_WrappingAdd(a, b) == a + b
WrappingAdd(a, b) == IF a < SerialSpace - b THEN a + b ELSE a - (SerialSpace - b)

(* partial_cmp is Some(Greater), and partial_cmp is Some(_) *)
Newer(a, b)   == WrappingSub(a, b) \in 1..(Half - 1)
Ordered(a, b) == WrappingSub(a, b) # Half
=============================================================================
