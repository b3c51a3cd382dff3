----------------------------- MODULE EdgeConstruct -----------------------------
(***************************************************************************)
(* edge_constructor::do_construct: flows of many packets become long edges *)
(* (a pool of threads computes their distributions and publishes them      *)
(* under a mutex), flows of few packets become short edges, aggregated in  *)
(* three passes: by both addresses, then by source, then by destination.   *)
(*                                                                         *)
(* A flow is its index in *p_parse_result; both working vectors keep that  *)
(* order.  An edge vector is the set of its edges: edge order comes from   *)
(* hash tables and thread schedules and nothing depends on it.  The        *)
(* distributions of a long edge are functions of its flow and are left out.*)
(***************************************************************************)
EXTENDS Partition, FiniteSets, Sequences, FiniteSetsExt

CONSTANTS
  Addrs, Ports, Codes,   \* addresses, ports, packet type codes
  Sizes,                 \* packet counts of a flow
  FlowVectors,           \* the flow vectors considered: *p_parse_result
  Multiplex,             \* threads of construct_long_flow
  EDGE_LONG_LINE,
  EDGE_AGG_LINE

Flow == [src : Addrs, dst : Addrs, srcp : Ports, dstp : Ports, code : Codes, size : Sizes]

ASSUME EdgeMultiplexAssumption == Multiplex \in Nat \ {0}
ASSUME LineAssumption == EDGE_LONG_LINE \in Nat /\ EDGE_AGG_LINE \in Nat
ASSUME SizeAssumption == Sizes \subseteq Nat
ASSUME FlowAssumption == \A fv \in FlowVectors : fv \in Seq(Flow)

VARIABLES
  flows,          \* *p_parse_result
  phase,          \* progress of do_construct
  longFlows,      \* long_flow_pvec
  shortFlows,     \* short_flow_pvec
  published,      \* threads that have published their long edges
  longEdges,      \* *p_long_edges
  longPacketSum,
  fetched,        \* the flows with is_fetched[id]
  groups,         \* src_dst_agg_res, src_agg_res and dst_agg_res
  shortEdges,     \* *p_short_edges
  shortPacketSum

longVars == <<published, longEdges, longPacketSum>>
shortVars == <<fetched, groups, shortEdges, shortPacketSum>>
vars == <<flows, phase, longFlows, shortFlows, longVars, shortVars>>

Cores == 0 .. Multiplex - 1
FlowIds == DOMAIN flows
Passes == {"src_dst", "src", "dst"}

PacketsButOne(S) == MapThenSumSet(LAMBDA i : flows[i].size, S) - 1
Packets(S) == MapThenSumSet(LAMBDA i : flows[i].size, S)

-------------------------------------------------------------------------------
(* Classification and long edges *)

Init ==
  /\ flows \in FlowVectors
  /\ phase = "classify"
  /\ longFlows = {} /\ shortFlows = {}
  /\ published = {} /\ longEdges = {} /\ longPacketSum = 0
  /\ fetched = {} /\ groups = [p \in Passes |-> {}]
  /\ shortEdges = {} /\ shortPacketSum = 0

IsLong(i) == flows[i].size > EDGE_LONG_LINE

Classify ==
  /\ phase = "classify"
  /\ longFlows' = {i \in FlowIds : IsLong(i)}
  /\ shortFlows' = {i \in FlowIds : ~IsLong(i)}
  /\ phase' = "long"
  /\ UNCHANGED <<flows, longVars, shortVars>>

(* The place of flow i in long_flow_pvec. *)
Place(i) == Cardinality({j \in longFlows : j < i})

ShareOverlapping(c) ==
  LET n == Cardinality(longFlows)
  IN  {i \in longFlows : Place(i) \in From(n, Multiplex, c) .. To(n, Multiplex, c)}

(* The long flows thread c turns into edges. *)
Share(c) == {i \in longFlows : Place(i) \in Slice(Cardinality(longFlows), Multiplex, c)}

LongWorker(c) ==
  /\ phase = "long" /\ c \notin published
  /\ longEdges' = longEdges \cup Share(c)
  /\ longPacketSum' = longPacketSum + Packets(Share(c))
  /\ published' = published \cup {c}
  /\ UNCHANGED <<flows, phase, longFlows, shortFlows, shortVars>>

JoinLong ==
  /\ phase = "long"
  /\ published = Cores
  /\ phase' = "src_dst"
  /\ UNCHANGED <<flows, longFlows, shortFlows, longVars, shortVars>>

-------------------------------------------------------------------------------
(* Short edges *)

KeyWithoutCode(pass, i) ==
  CASE pass = "src_dst" -> <<flows[i].src, flows[i].dst>>
    [] pass = "src" -> <<flows[i].src>>
    [] pass = "dst" -> <<flows[i].dst>>

(* src_dst_agg_key_t, src_agg_key_t and dst_agg_key_t. *)
Key(pass, i) ==
  CASE pass = "src_dst" -> <<flows[i].src, flows[i].dst, flows[i].code>>
    [] pass = "src" -> <<flows[i].src, flows[i].code>>
    [] pass = "dst" -> <<flows[i].dst, flows[i].code>>

BigLater(g) == Cardinality(g) > EDGE_AGG_LINE + 1
Big(g) == Cardinality(g) > EDGE_AGG_LINE

RemainingAll == shortFlows
Remaining == shortFlows \ fetched

(* *_agg_select of a pass: the flows not fetched yet, grouped by key. *)
Select(pass) == {{j \in Remaining : Key(pass, j) = Key(pass, i)} : i \in Remaining}

After == [src_dst |-> "src", src |-> "dst", dst |-> "emit"]

Aggregate(pass) ==
  LET big == {g \in Select(pass) : Big(g)}
  IN  /\ phase = pass
      /\ groups' = [groups EXCEPT ![pass] = big]
      /\ fetched' = fetched \cup UNION big
      /\ phase' = After[pass]
      /\ UNCHANGED <<flows, longFlows, shortFlows, longVars, shortEdges, shortPacketSum>>

PassBits == [src_dst |-> {"SRC_AGG", "DST_AGG"}, src |-> {"SRC_AGG"}, dst |-> {"DST_AGG"}]

(* _f_set_port_agg_code *)
PortBits(g) ==
  {b \in {"SRC_P_AGG"} : \A i, j \in g : flows[i].srcp = flows[j].srcp}
    \cup {b \in {"DST_P_AGG"} : \A i, j \in g : flows[i].dstp = flows[j].dstp}

Aggregated(pass) ==
  {[flows |-> g, agg |-> PassBits[pass] \cup PortBits(g)] : g \in groups[pass]}

Alone == {[flows |-> {i}, agg |-> {"NO_AGG"}] : i \in Remaining}

Emit ==
  LET edges == (UNION {Aggregated(pass) : pass \in Passes}) \cup Alone
  IN  /\ phase = "emit"
      /\ shortEdges' = edges
      /\ shortPacketSum' = MapThenSumSet(LAMBDA e : Packets(e.flows), edges)
      /\ phase' = "done"
      /\ UNCHANGED <<flows, longFlows, shortFlows, longVars, fetched, groups>>

Finished == phase = "done" /\ UNCHANGED vars

Next ==
  \/ Classify
  \/ \E c \in Cores : LongWorker(c)
  \/ JoinLong
  \/ \E pass \in Passes : Aggregate(pass)
  \/ Emit
  \/ Finished

Spec == Init /\ [][Next]_vars

-------------------------------------------------------------------------------
(* Properties *)

Bits == {"SRC_AGG", "DST_AGG", "SRC_P_AGG", "DST_P_AGG", "NO_AGG"}

EdgeTypeOK ==
  /\ flows \in FlowVectors
  /\ phase \in {"classify", "long", "emit", "done"} \cup Passes
  /\ longFlows \subseteq FlowIds /\ shortFlows \subseteq FlowIds
  /\ published \subseteq Cores
  /\ longEdges \subseteq FlowIds
  /\ longPacketSum \in Nat /\ shortPacketSum \in Nat
  /\ fetched \subseteq FlowIds
  /\ groups \in [Passes -> SUBSET SUBSET FlowIds]
  /\ shortEdges \subseteq [flows : SUBSET FlowIds, agg : SUBSET Bits]

(* do_construct, over any schedule of the long-flow threads, puts every flow *)
(* into one edge and only one: three passes take flows from one another and  *)
(* what none of them takes is still emitted (lines 142-284).                 *)
EveryFlowOnce ==
  phase = "done" =>
    \A i \in FlowIds :
      /\ i \in longEdges \/ \E e \in shortEdges : i \in e.flows
      /\ ~(i \in longEdges /\ \E e \in shortEdges : i \in e.flows)
      /\ \A e, d \in shortEdges : i \in e.flows /\ i \in d.flows => e = d

(* The two packet counters, the first shared by threads, agree with the      *)
(* edges at every step, and with the flows given at the end: a flow handed   *)
(* to two threads would be counted twice (lines 81-86, 246-281).             *)
PacketSumsAgree ==
  /\ longPacketSum = Packets(longEdges)
  /\ phase = "done" => longPacketSum + shortPacketSum = Packets(FlowIds)

(* The flows of S agree on F. *)
Same(S, F(_)) == \A i, j \in S : F(i) = F(j)

(* The code of an aggregated edge says exactly what its flows share: its     *)
(* source bit is set iff they have one source address, and so on.  It is the *)
(* order of the passes that makes "only if they differ" true (line 151).     *)
AggCodeExact ==
  phase = "done" =>
    \A e \in shortEdges :
      \/ e.agg = {"NO_AGG"} /\ Cardinality(e.flows) = 1
      \/ /\ "NO_AGG" \notin e.agg
         /\ "SRC_AGG" \in e.agg <=> Same(e.flows, LAMBDA i : flows[i].src)
         /\ "DST_AGG" \in e.agg <=> Same(e.flows, LAMBDA i : flows[i].dst)
         /\ "SRC_P_AGG" \in e.agg <=> Same(e.flows, LAMBDA i : flows[i].srcp)
         /\ "DST_P_AGG" \in e.agg <=> Same(e.flows, LAMBDA i : flows[i].dstp)
         /\ Same(e.flows, LAMBDA i : flows[i].code)

(* At most EDGE_AGG_LINE flows of S share a key of the pass. *)
AtMost(pass, S) ==
  \A i \in S : Cardinality({j \in S : Key(pass, j) = Key(pass, i)}) <= EDGE_AGG_LINE

(* Nothing that could be aggregated is left over: at most EDGE_AGG_LINE      *)
(* flows left alone share source and code, or destination and code, and an   *)
(* edge aggregated by one address holds at most that many flows to or from   *)
(* any one peer (lines 151-201).                                             *)
NothingLeftToAggregate ==
  phase = "done" =>
    /\ \A pass \in Passes : AtMost(pass, UNION {e.flows : e \in {d \in shortEdges : d.agg = {"NO_AGG"}}})
    /\ \A e \in shortEdges :
         \/ "NO_AGG" \in e.agg
         \/ {"SRC_AGG", "DST_AGG"} \subseteq e.agg
         \/ AtMost("src_dst", e.flows)
================================================================================
