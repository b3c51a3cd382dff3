----------------------------- MODULE MCTrafficGraph ----------------------------
(* Instances of TrafficGraph for TLC. *)
EXTENDS TrafficGraph, TLC

CONSTANTS MaxShort, MaxLong    \* edges per graph

(* Of an edge aggregated by one address the other one is never looked at. *)
ShortKinds ==
  {k \in [src : Addrs, dst : Addrs, agg : Aggregations] :
     /\ k.agg \notin {"none", "src_dst"} => k.src = k.dst
     /\ k.agg # "src_dst"}

LongKinds == {k \in [src : Addrs, dst : Addrs] : k.src < k.dst}

(* Each edge carries one packet, of its own. *)
WithPackets(s, l) ==
  [short |-> [i \in DOMAIN s |-> s[i] @@ [pkts |-> {i}]],
   long |-> [i \in DOMAIN l |-> l[i] @@ [pkts |-> {Len(s) + i}]]]

AllGraphs ==
  {WithPackets(s, l) : s \in [1 .. MaxShort -> ShortKinds],
                       l \in UNION {[1 .. n -> LongKinds] : n \in 0 .. MaxLong}}

(* Three short edges and three long ones around the same addresses. *)
DenseGraphs ==
  {WithPackets(<<[src |-> 1, dst |-> 2, agg |-> "none"], [src |-> 2, dst |-> 1, agg |-> "src_dst"],
                 [src |-> a, dst |-> a, agg |-> "src"]>>,
               l) :
     a \in Addrs,
     l \in {<<[src |-> 1, dst |-> 3], [src |-> 3, dst |-> 1], [src |-> 1, dst |-> 2]>>, <<>>}}

SomeGraphs == AllGraphs \cup DenseGraphs

(* An edge between 1 and 2, and one aggregated by the source 3. *)
AggregatedApart ==
  {WithPackets(<<[src |-> 1, dst |-> 2, agg |-> "none"], [src |-> 3, dst |-> 3, agg |-> "src"]>>, <<>>)}

TwoLosses == {-2, 3}
================================================================================
