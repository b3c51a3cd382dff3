---------------------------- MODULE MCDynamicGraph -----------------------------
(* Instances of DynamicGraph for TLC. *)
EXTENDS DynamicGraph, TLC

(* A window with one edge, or with one aggregated by its source and two long *)
(* ones.                                                                     *)
SmallGraphs ==
  {[short |-> <<[src |-> 1, dst |-> 2, agg |-> "none", pkts |-> {1}]>>, long |-> <<>>],
   [short |-> <<[src |-> 3, dst |-> 3, agg |-> "src", pkts |-> {1}]>>,
    long |-> <<[src |-> 1, dst |-> 2, pkts |-> {2}], [src |-> 1, dst |-> 3, pkts |-> {3}]>>]}

Single(p, s, d) == [src |-> s, dst |-> d, agg |-> "none", pkts |-> {p}]

(* A batch of three: three edges of their own, an aggregated one, a long one. *)
SmallBatches ==
  {[short |-> <<Single(1, 1, 2), Single(2, 2, 1), Single(3, 1, 3)>>, long |-> <<>>],
   [short |-> <<[src |-> 3, dst |-> 3, agg |-> "src", pkts |-> {1, 2}], Single(3, 3, 2)>>, long |-> <<>>],
   [short |-> <<Single(1, 1, 2)>>, long |-> <<[src |-> 1, dst |-> 3, pkts |-> {2, 3}]>>],
   [short |-> <<>>, long |-> <<[src |-> 3, dst |-> 1, pkts |-> {1, 2, 3}]>>]}

OneLoss == {3}

(* The sizes the code has, and nothing but packets that are their own edges. *)
DefaultBatches ==
  {[short |-> [p \in BatchPositions |-> Single(p, 1, 2)], long |-> <<>>]}
NoGraphs == {}
================================================================================
