------------------------------ MODULE DynamicGraph -----------------------------
(***************************************************************************)
(* Real-time updates of a traffic_graph: add_packet_to_queue gives each    *)
(* packet a priority and keeps it until a batch is complete; the batch is  *)
(* made into flows and edges, those are appended to the graph, and if the  *)
(* batch gave enough of them the component of the addresses with new edges *)
(* is clustered and scored again.  All this happens within the call that   *)
(* completes the batch.                                                    *)
(*                                                                         *)
(* The graph is that of a window processed before (TrafficGraph), or of a  *)
(* model read from a file, which has neither edges nor score vectors.      *)
(* Both batch size and threads are fixed in the code, at 50 and 32; what   *)
(* follows a first batch is seen with sizes that do not overshoot.         *)
(***************************************************************************)
EXTENDS TrafficGraph, Partition

CONSTANTS
  min_packets_for_update,
  FlowThreads,         \* the default threads of construct_flow
  BatchEdges,          \* what a batch may be made into: records [short, long]
  PacketKinds,         \* what add_packet_to_queue sees of a packet: a subset of {"tcp", "large"}
  MaxPackets           \* bound: packets that arrive

BatchPositions == 1 .. min_packets_for_update

BatchShortEdge == [src : Addrs, dst : Addrs, agg : Aggregations, pkts : SUBSET BatchPositions]
BatchLongEdge == [src : Addrs, dst : Addrs, pkts : SUBSET BatchPositions]

ASSUME BatchSizeAssumption == min_packets_for_update \in Nat /\ min_packets_for_update >= 3
ASSUME BatchThreadAssumption == FlowThreads \in Nat \ {0}
ASSUME KindsAssumption == PacketKinds \subseteq SUBSET {"tcp", "large"}
ASSUME MaxPacketsAssumption == MaxPackets \in Nat

(* A packet is in one edge at most.  As many edges as packets are thus of    *)
(* one packet each, and a flow of one packet is never a long edge            *)
(* (edge_constructor, whose lines are at least 1).                           *)
ASSUME BatchEdgeAssumption ==
  \A e \in BatchEdges :
    /\ e.short \in Seq(BatchShortEdge) /\ e.long \in Seq(BatchLongEdge)
    /\ Len(e.short) + Len(e.long) >= min_packets_for_update => e.short # <<>> /\ e.long = <<>>

VARIABLES
  queue,        \* packet_queue
  clock,        \* current_timestamp
  served,       \* avg_service_rate > 0: it is then min_packets_for_update
  waited,       \* avg_waiting_time > 0
  tracked,      \* addr_to_new_edges
  pending,      \* clusters_need_update
  lastBatch     \* arrival times of the last batch made into flows, in its order

queueVars == <<queue, clock, served, waited, lastBatch>>
trackVars == <<tracked, pending>>
dynVars == <<vars, queueVars, trackVars>>

(* deserialize: the flag, and nothing of the edges. *)
LoadedModel ==
  /\ short = <<>> /\ long = <<>>
  /\ phase = "done"
  /\ shortOut = NoIndex /\ shortIn = NoIndex
  /\ shortOutAgg = NoIndex /\ shortInAgg = NoIndex
  /\ longOut = NoIndex /\ longIn = NoIndex
  /\ vertexShort = {} /\ vertexReduce = {} /\ vertexLong = {}
  /\ components = {} /\ globalPart = {} /\ selected = {} /\ todo = {}
  /\ shortClusters = <<>> /\ longClusters = <<>>
  /\ shortScore = <<>> /\ longScore = <<>> /\ trained \in BOOLEAN
  /\ pktScore = [p \in {} |-> 0]

DynInit ==
  /\ Init \/ LoadedModel
  /\ queue = {} /\ clock = 0
  /\ served = FALSE /\ waited = FALSE
  /\ tracked = NoIndex /\ pending = FALSE
  /\ lastBatch = <<>>

-------------------------------------------------------------------------------
(* calculate_packet_priority, in units of 1 / (20 * min_packets_for_update)  *)

Bonus(kinds) ==
  (IF "tcp" \in kinds THEN 4 * min_packets_for_update ELSE 0)
    + (IF "large" \in kinds THEN 2 * min_packets_for_update ELSE 0)

(* The arrival rate is 1 from the second packet on; before a batch is served *)
(* a low and a high utilization add the same.                                *)
UtilizationBonus ==
  IF served THEN 2 * min_packets_for_update - 2 ELSE 2 * min_packets_for_update

(* Half the waiting factor: the time less the queue length over the rate. *)
WaitingShare(time) ==
  IF waited THEN 10 * min_packets_for_update * time - 10 * Cardinality(queue) ELSE 0

Priority(kinds, time) ==
  20 * min_packets_for_update + WaitingShare(time) + Bonus(kinds) + UtilizationBonus

(* The orders in which a priority queue may give up its items. *)
PopOrders(items) ==
  {s \in Orders(items) : \A i, j \in DOMAIN s : i < j => s[i].priority >= s[j].priority}

-------------------------------------------------------------------------------
(* update_with_new_packets *)

AllShort(e) == short \o e.short
AllLong(e) == long \o e.long
NewShort(e) == Len(short) + 1 .. Len(short) + Len(e.short)
NewLong(e) == Len(long) + 1 .. Len(long) + Len(e.long)

WithReplaced(index, new) == [a \in Addrs |-> IF new[a] # {} THEN new[a] ELSE index[a]]
With(index, new) == [a \in Addrs |-> index[a] \cup new[a]]

(* Every new short edge is kept under both its addresses. *)
AppendEdges(e) ==
  /\ short' = AllShort(e)
  /\ long' = AllLong(e)
  /\ vertexShort' = vertexShort \cup Ends(AllShort(e), NewShort(e))
  /\ shortOut' = With(shortOut, BySrc(AllShort(e), NewShort(e)))
  /\ shortIn' = With(shortIn, ByDst(AllShort(e), NewShort(e)))
  /\ vertexLong' = vertexLong \cup Ends(AllLong(e), NewLong(e))
  /\ longOut' = With(longOut, BySrc(AllLong(e), NewLong(e)))
  /\ longIn' = With(longIn, ByDst(AllLong(e), NewLong(e)))
  /\ UNCHANGED <<shortOutAgg, shortInAgg, vertexReduce>>

(* Long edges are not tracked. *)
TrackSource(e) == With(tracked, BySrc(AllShort(e), NewShort(e)))
TrackNext(e) ==
  With(tracked, [a \in Addrs |-> {i + 1 : i \in {j \in NewShort(e) : AllShort(e)[j].src = a}}])

Track(e) ==
  With(tracked, With(BySrc(AllShort(e), NewShort(e)), ByDst(AllShort(e), NewShort(e))))

EnoughNew(e) == Len(e.short) + Len(e.long) >= min_packets_for_update

(* The part of the graph update_clusters_incrementally looks at. *)
Affected(new) == [addrs |-> {a \in Addrs : new[a] # {}}, global |-> FALSE]

(* What clustering the edges S may do to a score vector.  It has the length  *)
(* that parse_edge gave it, or is none at all, and is written without a      *)
(* check: the scores of edges within it change as in a window, and any other *)
(* index is written to whatever lies there.                                  *)
Written(score, S, alone) ==
  UNION {{[score |-> new, inBounds |-> UNION origin \subseteq DOMAIN score] :
            new \in Rescores(score, origin)} :
           origin \in Origins(S, Clusterings(S), alone)}

(* After a write beyond a vector nothing is claimed of what follows. *)
UpdateClusters(e) ==
  \E part \in {Affected(Track(e))} :
  \E ss \in Written(shortScore, ShortOf(part)', {Noise}),
     ls \in Written(longScore, LongOf(part)', {}) :
    /\ shortScore' = ss.score /\ longScore' = ls.score
    /\ IF ss.inBounds /\ ls.inBounds
       THEN tracked' = NoIndex /\ pending' = FALSE /\ UNCHANGED phase
       ELSE tracked' = Track(e) /\ pending' = TRUE /\ phase' = "undefined"

UpdateWithNewPackets(e) ==
  /\ AppendEdges(e)
  /\ IF EnoughNew(e) /\ trained
     THEN UpdateClusters(e)
     ELSE /\ tracked' = Track(e) /\ pending' = TRUE
          /\ UNCHANGED <<phase, shortScore, longScore>>
  /\ UNCHANGED <<partVars, todo, shortClusters, longClusters, trained, pktScore>>

-------------------------------------------------------------------------------
(* add_packet_to_queue *)

BatchCompleteLate(items) == Cardinality(items) > min_packets_for_update
BatchComplete(items) == Cardinality(items) >= min_packets_for_update

(* process_packet_queue: a batch at most leaves the queue, by priority.  A   *)
(* thread of construct_flow may end the process, and the queue with it.      *)
ProcessQueue(items) ==
  IF Overshoots(min_packets_for_update, FlowThreads)
  THEN /\ phase' = "abort" /\ queue' = {}
       /\ UNCHANGED <<edgeVars, indexVars, partVars, todo, scoreVars, pktScore,
                      trackVars, served, lastBatch>>
  ELSE /\ \E e \in BatchEdges : UpdateWithNewPackets(e)
       /\ \E order \in PopOrders(items) :
            LET batch == {i \in DOMAIN order : i <= min_packets_for_update}
            IN  /\ queue' = items \ {order[i] : i \in batch}
                /\ lastBatch' = [i \in batch |-> order[i].arrival]
       /\ served' = TRUE

AddPacket(kinds) ==
  LET items == queue \cup {[arrival |-> clock + 1, priority |-> Priority(kinds, clock + 1)]}
  IN  /\ phase = "done" /\ clock < MaxPackets
      /\ clock' = clock + 1
      /\ waited' = (waited \/ served)
      /\ IF BatchComplete(items)
         THEN ProcessQueue(items)
         ELSE queue' = items /\ UNCHANGED <<vars, trackVars, served, lastBatch>>

(* The window's own processing. *)
ProcessWindow ==
  /\ ParseEdge \/ FindComponents \/ Select \/ (\E part \in todo : ProcComponent(part)) \/ FinalScore
  /\ UNCHANGED <<queueVars, trackVars>>

DynEnded ==
  /\ phase \in {"abort", "undefined"} \/ clock = MaxPackets
  /\ UNCHANGED dynVars

DynNext ==
  \/ ProcessWindow
  \/ \E kinds \in PacketKinds : AddPacket(kinds)
  \/ DynEnded

DynSpec == DynInit /\ [][DynNext]_dynVars

-------------------------------------------------------------------------------
(* Properties *)

DynTypeOK ==
  /\ queue \subseteq [arrival : 1 .. MaxPackets, priority : Nat]
  /\ clock \in 0 .. MaxPackets
  /\ served \in BOOLEAN /\ waited \in BOOLEAN /\ pending \in BOOLEAN
  /\ tracked \in [Addrs -> SUBSET ShortIds]
  /\ lastBatch \in Seq(1 .. MaxPackets)
  /\ phase \in {"parse", "components", "select", "process", "done", "abort", "undefined"}
  /\ phase = "done" => DOMAIN shortScore \subseteq ShortIds /\ DOMAIN longScore \subseteq LongIds

(* No packet is lost, served twice or served in part: the queue has the      *)
(* packets that arrived since the last full batch, and that batch all those  *)
(* of the one before (lines 133-182).                                        *)
QueueHoldsRest ==
  LET rest == clock % min_packets_for_update
  IN  /\ Cardinality(queue) = rest
      /\ {item.arrival : item \in queue} = clock - rest + 1 .. clock
      /\ served =>
           {lastBatch[i] : i \in DOMAIN lastBatch}
             = clock - rest - min_packets_for_update + 1 .. clock - rest

(* Each edge is found from its addresses, those of the window and those of   *)
(* batches, which are indexed by two different rules (lines 268-316).        *)
EdgesIndexed ==
  phase = "done" =>
    /\ \A i \in ShortIds : i \in ShortOf([addrs |-> {short[i].src, short[i].dst}, global |-> FALSE])
    /\ \A i \in LongIds : i \in LongOf([addrs |-> {long[i].src}, global |-> FALSE])

(* What waits for an update is a whole end of the edge vector: if a short    *)
(* edge is tracked, so is, under both its addresses, every later one, and no *)
(* edge of the window is.  A batch of too few edges leaves its own to the    *)
(* next update, which covers them all (lines 290-292, 318-345).              *)
TrackedAreLatest ==
  phase = "done" =>
    /\ ~pending => tracked = NoIndex
    /\ \A a \in Addrs : \A i \in tracked[a] :
         /\ i \notin DOMAIN shortScore
         /\ \A j \in i .. Len(short) : j \in tracked[short[j].src] \cap tracked[short[j].dst]

(* "Update clusters incrementally with new edge data" (graph_define.hpp:327):*)
(* an update scores the edges of its component, the new ones too, within the *)
(* vectors of scores.                                                        *)
UpdateInBounds == phase # "undefined"

(* "Update flow and edge structures with new packets" (graph_define.hpp:170):*)
(* a full batch is made into edges, and does not end the process.            *)
BatchSurvives == phase # "abort"
================================================================================
