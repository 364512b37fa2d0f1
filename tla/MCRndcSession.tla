--------------------------- MODULE MCRndcSession ---------------------------
(* An instance of RndcSession for TLC. *)
EXTENDS RndcSession

CONSTANTS b1, d1, n1, n2, zone, view

MCScenarios == {{b1}, {d1}, {n1, n2}}
MCKeys ==
  {[algorithm |-> "hmac-sha256", secret |-> Secret], [algorithm |-> "hmac-sha256", secret |-> "?"],
   [algorithm |-> "hmac-sha384", secret |-> Secret]}
MCSkews == {-1, 0, 1}
MCChannels == {[remote |-> FALSE, policy |-> "loopback"], [remote |-> TRUE, policy |-> "loopback"],
               [remote |-> TRUE, policy |-> "protected"]}
MCTexts == {<<"reload", "example.">>}
MCDirect ==
  {[kind |-> "Reload", target |-> Target(zone, view)],
   [kind |-> "DelZone", target |-> Target(zone, None), clean |-> FALSE]}
=============================================================================
