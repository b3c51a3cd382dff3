---------------------------- MODULE MCEdgeConstruct ----------------------------
(* Instances of EdgeConstruct for TLC. *)
EXTENDS EdgeConstruct

CONSTANT Length    \* flows per vector

OnePort == CHOOSE p \in Ports : TRUE
OneCode == CHOOSE c \in Codes : TRUE

(* Short flows; one destination port, as the two sides are treated alike. *)
ShortVectors ==
  [1 .. Length -> {f \in Flow : f.dstp = OnePort /\ f.size <= EDGE_LONG_LINE}]

(* Long and short flows between the same ports. *)
MixedVectors ==
  [1 .. Length -> {f \in Flow : f.srcp = OnePort /\ f.dstp = OnePort /\ f.code = OneCode}]

Vectors == ShortVectors \cup MixedVectors
================================================================================
