-------------------------- MODULE MCConnectedComponent -------------------------
(* Instances of ConnectedComponent for TLC. *)
EXTENDS ConnectedComponent

CONSTANT MaxEdges

AllGraphs == {E \in SUBSET (Addrs \X Addrs) : Cardinality(E) <= MaxEdges}
================================================================================
