----------------------------- MODULE MCRndcPool -----------------------------
(* Instances of RndcPool for TLC. *)
EXTENDS RndcPool, TLC

(* The calls are interchangeable: no action or property names one. *)
CallSymmetry == Permutations(Calls)
PoolSymmetry == Permutations(Calls) \cup Permutations(Workers)
=============================================================================
