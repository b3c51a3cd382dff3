------------------------------ MODULE TrafficGraph -----------------------------
(***************************************************************************)
(* traffic_graph from its edges to the packet scores: parse_edge indexes   *)
(* the edges by address, connected_component and component_select choose   *)
(* the components to look at, each of those is clustered and its edges     *)
(* scored, and get_final_pkt_score gives the packets their edges' scores.  *)
(*                                                                         *)
(* Clusterings (DBSCAN, k-means), losses and the solver's cover come from  *)
(* libraries: any clustering and any loss may result.  An address is a     *)
(* number, in the order of the strings.  The search for components is      *)
(* checked on its own in ConnectedComponent; here it is its result.        *)
(***************************************************************************)
EXTENDS Components, FiniteSetsExt, Sequences, Functions

CONSTANTS
  Addrs,
  Graphs,                  \* the edge vectors considered: records [short, long]
  Losses,                  \* the values a loss may take; 0 is the score of an edge never scored
  SelectNum, SelectDen,    \* select_ratio = SelectNum / SelectDen
  offset_l, offset_s,      \* what a configuration adds to the scores of long and short edges
  MaxClusters,             \* bound: clusters of a component
  MaxPermuted,             \* bound: hash sets of more edges are iterated up or down only
  Packets                  \* packets of the window: 0 .. p_label->size() - 1

(* Which addresses the flows of a short edge share; port bits play no part. *)
Aggregations == {"none", "src_dst", "src", "dst"}

ShortEdge == [src : Addrs, dst : Addrs, agg : Aggregations, pkts : SUBSET Packets]
LongEdge == [src : Addrs, dst : Addrs, pkts : SUBSET Packets]

ASSUME GraphAddrAssumption == Addrs \subseteq Int /\ IsFiniteSet(Addrs)
ASSUME GraphAssumption == Graphs \subseteq [short : Seq(ShortEdge), long : Seq(LongEdge)]
ASSUME MaxClustersAssumption == MaxClusters \in Nat
ASSUME MaxPermutedAssumption == MaxPermuted \in Nat
ASSUME OffsetAssumption == offset_l \in Int /\ offset_s \in Int
ASSUME LossAssumption == Losses \subseteq Int \ {0}
ASSUME RatioAssumption == SelectNum \in Nat /\ SelectDen \in Nat \ {0} /\ SelectNum <= SelectDen

VARIABLES
  short, long,                  \* *p_short_edge, *p_long_edge
  phase,
  shortOut, shortIn,            \* short_edge_out, short_edge_in
  shortOutAgg, shortInAgg,      \* short_edge_out_agg, short_edge_in_agg
  longOut, longIn,              \* long_edge_out, long_edge_in
  vertexShort, vertexReduce,    \* vertex_set_short, vertex_set_short_reduce
  vertexLong,                   \* vertex_set_long
  components,                   \* *p_com: the components of the search
  globalPart,                   \* its last element: _vertex_glb
  selected,                     \* *p_select
  todo,                         \* what proc_components has still to process
  shortClusters, longClusters,  \* assignments_short, assignments_long of the last component
  shortScore, longScore,        \* *p_short_edge_score, *p_long_edge_score
  trained,                      \* has_trained_model
  pktScore                      \* *p_pkt_score

edgeVars == <<short, long>>
indexVars == <<shortOut, shortIn, shortOutAgg, shortInAgg, longOut, longIn,
               vertexShort, vertexReduce, vertexLong>>
partVars == <<components, globalPart, selected>>
scoreVars == <<shortClusters, longClusters, shortScore, longScore, trained>>
vars == <<edgeVars, phase, indexVars, partVars, todo, scoreVars, pktScore>>

ShortIds == DOMAIN short
LongIds == DOMAIN long

NoIndex == [a \in Addrs |-> {}]

Init ==
  /\ \E g \in Graphs : short = g.short /\ long = g.long
  /\ phase = "parse"
  /\ shortOut = NoIndex /\ shortIn = NoIndex
  /\ shortOutAgg = NoIndex /\ shortInAgg = NoIndex
  /\ longOut = NoIndex /\ longIn = NoIndex
  /\ vertexShort = {} /\ vertexReduce = {} /\ vertexLong = {}
  /\ components = {} /\ globalPart = {} /\ selected = {} /\ todo = {}
  /\ shortClusters = <<>> /\ longClusters = <<>>
  /\ shortScore = <<>> /\ longScore = <<>> /\ trained = FALSE
  /\ pktScore = [p \in {} |-> 0]

-------------------------------------------------------------------------------
(* parse_edge *)

(* The edges kept under both their addresses. *)
TwoEnded == {i \in ShortIds : short[i].agg \in {"none", "src_dst"}}
BySrcOnly == {i \in ShortIds : short[i].agg = "src"}
ByDstOnly == {i \in ShortIds : short[i].agg = "dst"}

Ends(edge, S) == {edge[i].src : i \in S} \cup {edge[i].dst : i \in S}
BySrc(edge, S) == [a \in Addrs |-> {i \in S : edge[i].src = a}]
ByDst(edge, S) == [a \in Addrs |-> {i \in S : edge[i].dst = a}]

VertexShortAggOnly ==
  {short[i].src : i \in BySrcOnly} \cup {short[i].dst : i \in ByDstOnly}

VertexShort ==
  Ends(short, TwoEnded) \cup {short[i].src : i \in BySrcOnly} \cup {short[i].dst : i \in ByDstOnly}

ParseEdge ==
  /\ phase = "parse"
  /\ shortScore' = [i \in ShortIds |-> 0]
  /\ longScore' = [i \in LongIds |-> 0]
  /\ vertexShort' = VertexShort
  /\ vertexReduce' = Ends(short, TwoEnded)
  /\ shortOut' = BySrc(short, TwoEnded)
  /\ shortIn' = ByDst(short, TwoEnded)
  /\ shortOutAgg' = BySrc(short, BySrcOnly)
  /\ shortInAgg' = ByDst(short, ByDstOnly)
  /\ vertexLong' = Ends(long, LongIds)
  /\ longOut' = BySrc(long, LongIds)
  /\ longIn' = ByDst(long, LongIds)
  /\ phase' = "components"
  /\ UNCHANGED <<edgeVars, partVars, todo, shortClusters, longClusters, trained, pktScore>>

-------------------------------------------------------------------------------
(* connected_component *)

EdgeRaw ==
  {<<long[i].src, long[i].dst>> : i \in LongIds}
    \cup {<<short[i].src, short[i].dst>> : i \in TwoEnded}

Orders(S) == Bijection(1 .. Cardinality(S), S)

(* std::set_difference: what is left from position i of a and j of b on. It  *)
(* is handed the iterators of unordered sets, so neither sequence is sorted. *)
MergeDifference(a, b) ==
  LET n == Cardinality(DOMAIN a)
      m == Cardinality(DOMAIN b)
      from[p \in (1 .. n + 1) \X (1 .. m + 1)] ==
        LET i == p[1]
            j == p[2]
        IN  IF i > n THEN {}
            ELSE IF j > m \/ a[i] < b[j] THEN {a[i]} \cup from[<<i + 1, j>>]
            ELSE IF b[j] < a[i] THEN from[<<i, j + 1>>]
            ELSE from[<<i + 1, j + 1>>]
  IN  from[<<1, 1>>]

GlobalPartsSwapped ==
  {MergeDifference(a, b) : a \in Orders(vertexReduce), b \in Orders(vertexShort)}

GlobalParts ==
  {MergeDifference(a, b) : a \in Orders(vertexShort), b \in Orders(vertexReduce)}

FindComponents ==
  /\ phase = "components"
  /\ IF \A e \in EdgeRaw : e[1] # e[2]
     THEN /\ components' = WeakComponents(vertexLong \cup vertexReduce, EdgeRaw)
          /\ globalPart' \in GlobalParts
          /\ phase' = "select"
     ELSE phase' = "abort" /\ UNCHANGED <<components, globalPart>>
  /\ UNCHANGED <<edgeVars, indexVars, selected, todo, scoreVars, pktScore>>

-------------------------------------------------------------------------------
(* component_select and proc_components *)

(* The components of p_com by name: the global one may repeat another's     *)
(* addresses and is still one of its own.                                   *)
AllParts == {[addrs |-> c, global |-> FALSE] : c \in components}
              \cup {[addrs |-> globalPart, global |-> TRUE]}

(* ceil(n * select_ratio) of them, those with the largest losses. *)
SelectCount(n) == (n * SelectNum + SelectDen - 1) \div SelectDen

Select ==
  /\ phase = "select"
  /\ selected' \in kSubset(SelectCount(Cardinality(AllParts)), AllParts)
  /\ todo' = selected'
  /\ phase' = "process"
  /\ UNCHANGED <<edgeVars, indexVars, components, globalPart, scoreVars, pktScore>>

(* _acquire_edge_index *)
ShortOf(part) ==
  UNION {shortOut[a] \cup shortOutAgg[a] \cup shortInAgg[a] : a \in part.addrs}
LongOf(part) == UNION {longOut[a] : a \in part.addrs}

Noise == 0

Clusters(a) == {a[i] : i \in DOMAIN a} \ {Noise}

(* Any result of DBSCAN: noise, or clusters numbered without a gap. *)
Clusterings(S) ==
  {a \in [S -> 0 .. Min({Cardinality(S), MaxClusters})] : Clusters(a) = 1 .. Cardinality(Clusters(a))}

(* How the hash set of a component's edges may be iterated: the features are *)
(* made in this order, and the vectors that take a position back to its edge *)
(* (index_short_remap, index_long_remap) are filled in it.                   *)
Upwards(S) == [k \in 1 .. Cardinality(S) |-> CHOOSE i \in S : Cardinality({j \in S : j < i}) = k - 1]
Downwards(S) == [k \in 1 .. Cardinality(S) |-> CHOOSE i \in S : Cardinality({j \in S : j > i}) = k - 1]
Iterations(S) ==
  IF Cardinality(S) <= MaxPermuted THEN Orders(S) ELSE {Upwards(S), Downwards(S)} \cap Orders(S)

(* assignments_*: the cluster of each position. *)
Assignments(order, clusters) == [k \in DOMAIN order |-> clusters[order[k]]]

(* _pre_process_* return the greatest cluster id, counted from 0, and        *)
(* _proc_each_component asks for 1 at least.                                 *)
IsProcessed(a) == Cardinality(Clusters(a)) - 1 >= 1

(* The positions that get one loss together: those of a cluster, and each    *)
(* with an assignment in `alone`, which is noise for short edges and nothing *)
(* for long ones.  graph_analysis_short.cpp:80 means to skip noise that is   *)
(* not aggregated, but compares the code with NO_AGG, the number of its bit, *)
(* and no edge's code is that number.                                        *)
EntriesFirstOnly(a, alone) ==
  {{Min({k \in DOMAIN a : a[k] = c})} : c \in Clusters(a)}
    \cup {{k} : k \in {m \in DOMAIN a : a[m] \in alone}}

Entries(a, alone) ==
  {{k \in DOMAIN a : a[k] = c} : c \in Clusters(a)}
    \cup {{k} : k \in {m \in DOMAIN a : a[m] \in alone}}

OriginIndexByPosition(remap, a, alone) ==
  IF IsProcessed(a) THEN Entries(a, alone) ELSE {}

(* short_origin_index_vec, long_origin_index_vec: the edges of each entry.   *)
(* An address of the cover takes each cluster of long edges, only once.      *)
OriginIndex(remap, a, alone) ==
  IF IsProcessed(a) THEN {{remap[k] : k \in entry} : entry \in Entries(a, alone)} ELSE {}

(* The entries that clustering the edges S as one of `clusterings` may give. *)
Origins(S, clusterings, alone) ==
  {OriginIndex(order, Assignments(order, c), alone) : order \in Iterations(S), c \in clusterings}

(* One loss per entry is written to the scores of its edges. *)
Rescores(score, origin) ==
  {[i \in DOMAIN score |->
      IF i \in UNION origin THEN loss[CHOOSE entry \in origin : i \in entry] ELSE score[i]] :
     loss \in [origin -> Losses]}

(* _proc_each_component *)
ProcComponent(part) ==
  /\ phase = "process" /\ part \in todo
  /\ shortClusters' \in Clusterings(ShortOf(part))
  /\ longClusters' \in Clusterings(LongOf(part))
  /\ \E origin \in Origins(ShortOf(part), {shortClusters'}, {Noise}) :
       shortScore' \in Rescores(shortScore, origin)
  /\ \E origin \in Origins(LongOf(part), {longClusters'}, {}) :
       longScore' \in Rescores(longScore, origin)
  /\ trained' = (trained \/ ShortOf(part) \cup LongOf(part) # {})
  /\ todo' = todo \ {part}
  /\ UNCHANGED <<edgeVars, phase, indexVars, partVars, pktScore>>

(* get_final_pkt_score *)
Scores(p) ==
  {longScore[i] + offset_l : i \in {j \in LongIds : p \in long[j].pkts}}
    \cup {shortScore[i] + offset_s : i \in {j \in ShortIds : p \in short[j].pkts}}

FinalScoreFromZero ==
  /\ phase = "process" /\ todo = {}
  /\ pktScore' = [p \in Packets |-> Max({0} \cup Scores(p))]
  /\ phase' = "done"
  /\ UNCHANGED <<edgeVars, indexVars, partVars, todo, scoreVars>>

FinalScore ==
  /\ phase = "process" /\ todo = {}
  /\ pktScore' = [p \in Packets |-> Max({-1} \cup Scores(p))]
  /\ phase' = "done"
  /\ UNCHANGED <<edgeVars, indexVars, partVars, todo, scoreVars>>

Ended == phase \in {"done", "abort"} /\ UNCHANGED vars

Next ==
  \/ ParseEdge
  \/ FindComponents
  \/ Select
  \/ \E part \in todo : ProcComponent(part)
  \/ FinalScore
  \/ Ended

Spec == Init /\ [][Next]_vars

-------------------------------------------------------------------------------
(* Properties *)

Indexes == [Addrs -> SUBSET ShortIds]

GraphTypeOK ==
  /\ [short |-> short, long |-> long] \in Graphs
  /\ phase \in {"parse", "components", "select", "process", "done", "abort"}
  /\ {shortOut, shortIn, shortOutAgg, shortInAgg} \subseteq Indexes
  /\ {longOut, longIn} \subseteq [Addrs -> SUBSET LongIds]
  /\ vertexReduce \subseteq vertexShort
  /\ vertexShort \cup vertexLong \cup globalPart \subseteq Addrs
  /\ components \subseteq SUBSET Addrs
  /\ todo \subseteq selected /\ selected \subseteq AllParts
  /\ phase # "parse" => /\ shortScore \in [ShortIds -> Losses \cup {0}]
                        /\ longScore \in [LongIds -> Losses \cup {0}]
  /\ trained \in BOOLEAN
  /\ phase = "done" =>
       pktScore \in [Packets -> {-1} \cup {x + o : x \in Losses \cup {0}, o \in {offset_l, offset_s}}]

Found == phase \in {"select", "process", "done"}

(* The components of the search that hold edge i. *)
Searched(i, Of(_)) == {part \in AllParts : ~part.global /\ i \in Of(part)}

(* A long or two-ended short edge is in exactly one component of the search, *)
(* an edge aggregated by one address in one at most (lines 12-79).           *)
NoEdgeTwice ==
  Found =>
    /\ \A i \in LongIds : Cardinality(Searched(i, LongOf)) = 1
    /\ \A i \in TwoEnded : Cardinality(Searched(i, ShortOf)) = 1
    /\ \A i \in ShortIds \ TwoEnded : Cardinality(Searched(i, ShortOf)) <= 1

(* Whatever the order of the hash tables, no edge is left out of the         *)
(* analysis: one that no component of the search has, aggregated by an       *)
(* address that is in none, is in the global component (lines 12-187).       *)
EveryEdgeHasComponent ==
  /\ NoEdgeTwice
  /\ Found => \A i \in ShortIds : \E part \in AllParts : i \in ShortOf(part)

(* A score other than the initial 0 was given by a component that was        *)
(* selected and holds the edge: positions in a component's own vectors are   *)
(* taken back to edges of it, in whatever order its hash sets are iterated   *)
(* (graph_analysis_short.cpp:46-55, graph_analysis_long.cpp:14-31).          *)
OnlySelectedScored ==
  phase # "parse" =>
    /\ \A i \in ShortIds : shortScore[i] # 0 => \E part \in selected \ todo : i \in ShortOf(part)
    /\ \A i \in LongIds : longScore[i] # 0 => \E part \in selected \ todo : i \in LongOf(part)

AlikeBy(clusters, score) ==
  IsProcessed(clusters) =>
    \A i, j \in DOMAIN clusters :
      clusters[i] = clusters[j] /\ clusters[i] # Noise => score[i] = score[j] /\ score[i] # 0

(* The edges of a cluster have one score, and have one, once the component   *)
(* is processed: each is reached by way of its position, the entry of its    *)
(* cluster and back, though only the first of a cluster stands for it in the *)
(* second clustering (graph_analysis_short.cpp:91-98,215-219,                *)
(* graph_analysis_long.cpp:52-71,207-211).                                   *)
ClustersScoredAlike ==
  AlikeBy(shortClusters, shortScore) /\ AlikeBy(longClusters, longScore)

(* What the score of a packet whose edge was not analysed tells: -1, the     *)
(* mark of a packet in no flow, unless the offset of the kind of its edge is *)
(* greater.  With an offset of 5 for long edges, as most configurations have *)
(* it, such a packet of a long edge has 5 (lines 67-90).                     *)
PacketScoreMeaning ==
  phase = "done" =>
    \A p \in Packets :
      LET analysed == \E part \in selected :
                        \/ \E i \in ShortOf(part) : p \in short[i].pkts
                        \/ \E i \in LongOf(part) : p \in long[i].pkts
      IN  ~analysed =>
            pktScore[p] = Max({-1} \cup {offset_l : i \in {j \in LongIds : p \in long[j].pkts}}
                                   \cup {offset_s : i \in {j \in ShortIds : p \in short[j].pkts}})

(* set_difference, by its name and that of _vertex_glb: the global component *)
(* has the short edges' addresses that no component of the search has        *)
(* because of a short edge (lines 180-187).                                  *)
GlobalIsDifference == Found => globalPart = vertexShort \ vertexReduce
================================================================================
