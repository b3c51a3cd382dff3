--------------------------- MODULE TrafficGraphProofs --------------------------
(***************************************************************************)
(* Scores reach the edges and packets they are meant for, and the search   *)
(* hands every edge to one component, for every edge vector, clustering,   *)
(* selection, loss and order of the hash tables.                           *)
(***************************************************************************)
EXTENDS TrafficGraph, CommonProofs

ZeroScores ==
  /\ shortScore = [i \in ShortIds |-> 0]
  /\ longScore = [i \in LongIds |-> 0]

(* Scores stay functions on the edges, 0 until components are processed. *)
ScoreInv ==
  /\ phase \in {"components", "select"} => ZeroScores
  /\ phase # "parse" => DOMAIN shortScore = ShortIds /\ DOMAIN longScore = LongIds
  /\ phase = "process" => todo \subseteq selected
  /\ phase = "done" => todo = {}
  /\ phase = "abort" => ZeroScores

-------------------------------------------------------------------------------
(* Scores and components *)

(* An iteration of a hash set reaches each of its elements once.             *)
LEMMA IterationFacts ==
  ASSUME NEW S, NEW order \in Iterations(S)
  PROVE  /\ order \in [DOMAIN order -> S]
         /\ \A k, m \in DOMAIN order : order[k] = order[m] => k = m
         /\ \A i \in S : \E k \in DOMAIN order : order[k] = i
<1>1. order \in Orders(S)
  BY DEF Iterations
<1> QED BY <1>1 DEF Orders, Bijection, Injection, Surjection, IsInjective

(* Only the edges of the component being processed change their score.       *)
LEMMA RescoresChange ==
  ASSUME NEW score, NEW S, NEW clusterings, NEW alone,
         NEW origin \in Origins(S, clusterings, alone), NEW new \in Rescores(score, origin)
  PROVE  /\ UNION origin \subseteq S
         /\ new = [i \in DOMAIN score |-> new[i]]
         /\ DOMAIN new = DOMAIN score
         /\ \A i \in DOMAIN score : i \notin S => new[i] = score[i]
         /\ \A i \in DOMAIN score : new[i] = score[i] \/ new[i] \in Losses
<1>1. PICK order \in Iterations(S), c \in clusterings :
        origin = OriginIndex(order, Assignments(order, c), alone)
  BY DEF Origins
<1> DEFINE a == Assignments(order, c)
<1>2. DOMAIN a = DOMAIN order
  BY DEF Assignments
<1> HIDE DEF a
<1>3. UNION origin \subseteq S
  <2>1. \A entry \in Entries(a, alone) : entry \subseteq DOMAIN order
    BY <1>2 DEF Entries
  <2>2. \A entry \in Entries(a, alone) : {order[k] : k \in entry} \subseteq S
    BY <2>1, IterationFacts
  <2> QED BY <1>1, <2>2 DEF OriginIndex, a
<1>4. PICK loss \in [origin -> Losses] :
        new = [i \in DOMAIN score |->
                 IF i \in UNION origin THEN loss[CHOOSE entry \in origin : i \in entry] ELSE score[i]]
  BY DEF Rescores
<1>5. ASSUME NEW i \in DOMAIN score, i \in UNION origin PROVE new[i] \in Losses
  <2>1. (CHOOSE entry \in origin : i \in entry) \in origin
    BY <1>5
  <2> QED BY <1>4, <1>5, <2>1
<1>6. \A i \in DOMAIN score : i \notin UNION origin => new[i] = score[i]
  BY <1>4
<1>7. new = [i \in DOMAIN score |-> new[i]]
  BY <1>4
<1>8. DOMAIN new = DOMAIN score
  BY <1>4
<1> QED BY <1>3, <1>5, <1>6, <1>7, <1>8

(* Processing a component leaves the vectors' domains and every score of an  *)
(* edge that is not the component's.                                         *)
LEMMA ProcChanges ==
  ASSUME NEW part, ProcComponent(part)
  PROVE  /\ shortScore' = [i \in DOMAIN shortScore |-> shortScore'[i]]
         /\ DOMAIN shortScore' = DOMAIN shortScore
         /\ \A i \in DOMAIN shortScore : i \notin ShortOf(part) => shortScore'[i] = shortScore[i]
         /\ \A i \in DOMAIN shortScore : shortScore'[i] = shortScore[i] \/ shortScore'[i] \in Losses
         /\ longScore' = [i \in DOMAIN longScore |-> longScore'[i]]
         /\ DOMAIN longScore' = DOMAIN longScore
         /\ \A i \in DOMAIN longScore : i \notin LongOf(part) => longScore'[i] = longScore[i]
         /\ \A i \in DOMAIN longScore : longScore'[i] = longScore[i] \/ longScore'[i] \in Losses
<1>1. /\ shortScore' = [i \in DOMAIN shortScore |-> shortScore'[i]]
      /\ DOMAIN shortScore' = DOMAIN shortScore
      /\ \A i \in DOMAIN shortScore : i \notin ShortOf(part) => shortScore'[i] = shortScore[i]
      /\ \A i \in DOMAIN shortScore : shortScore'[i] = shortScore[i] \/ shortScore'[i] \in Losses
  <2>1. PICK origin \in Origins(ShortOf(part), {shortClusters'}, {Noise}) :
          shortScore' \in Rescores(shortScore, origin)
    BY DEF ProcComponent
  <2> QED BY ONLY <2>1, RescoresChange
<1>2. /\ longScore' = [i \in DOMAIN longScore |-> longScore'[i]]
      /\ DOMAIN longScore' = DOMAIN longScore
      /\ \A i \in DOMAIN longScore : i \notin LongOf(part) => longScore'[i] = longScore[i]
      /\ \A i \in DOMAIN longScore : longScore'[i] = longScore[i] \/ longScore'[i] \in Losses
  <2>1. PICK origin \in Origins(LongOf(part), {longClusters'}, {}) :
          longScore' \in Rescores(longScore, origin)
    BY DEF ProcComponent
  <2> QED BY ONLY <2>1, RescoresChange
<1> QED BY <1>1, <1>2

(* The edges of a cluster get one loss: whatever the order the hash set is   *)
(* iterated in, their positions are in one entry and in no other.            *)
LEMMA ClusterAlike ==
  ASSUME NEW score, NEW S, S \subseteq DOMAIN score, NEW c, DOMAIN c = S,
         NEW alone, alone \subseteq {Noise},
         NEW origin \in Origins(S, {c}, alone), NEW new \in Rescores(score, origin)
  PROVE  AlikeBy(c, new)
<1>1. PICK order \in Iterations(S) : origin = OriginIndex(order, Assignments(order, c), alone)
  BY DEF Origins
<1> DEFINE a == Assignments(order, c)
<1>2. DOMAIN a = DOMAIN order /\ \A k \in DOMAIN order : a[k] = c[order[k]] /\ order[k] \in S
  BY IterationFacts DEF Assignments
<1>3. origin = OriginIndex(order, a, alone)
  BY <1>1
<1> HIDE DEF a
<1>4. Clusters(a) = Clusters(c)
  <2>1. \A i \in S : \E k \in DOMAIN a : a[k] = c[i]
    <3> TAKE i \in S
    <3>1. PICK k \in DOMAIN order : order[k] = i
      BY IterationFacts
    <3> QED BY <1>2, <3>1
  <2>2. \A k \in DOMAIN a : \E i \in S : a[k] = c[i]
    BY <1>2
  <2>3. {a[k] : k \in DOMAIN a} = {c[i] : i \in DOMAIN c}
    BY <2>1, <2>2
  <2> QED BY <2>3 DEF Clusters
<1> SUFFICES ASSUME IsProcessed(c), NEW i \in S, NEW j \in S, c[i] = c[j], c[i] # Noise
             PROVE  new[i] = new[j] /\ new[i] # 0
  BY DEF AlikeBy
<1> DEFINE entry == {k \in DOMAIN a : a[k] = c[i]}
           v == {order[k] : k \in entry}
<1>5. c[i] \in Clusters(a)
  BY <1>4 DEF Clusters
<1>6. origin = {{order[k] : k \in e} : e \in Entries(a, alone)}
  BY <1>3, <1>4 DEF OriginIndex, IsProcessed
<1>7. v \in origin
  BY <1>5, <1>6 DEF Entries
<1>8. ASSUME NEW x \in S, c[x] = c[i]
      PROVE  x \in v /\ \A w \in origin : x \in w => w = v
  <2>1. PICK k \in DOMAIN order : order[k] = x
    BY IterationFacts
  <2>2. k \in entry /\ a[k] = c[i]
    BY <1>2, <1>8, <2>1
  <2>3. x \in v
    BY <2>1, <2>2
  <2>4. ASSUME NEW w \in origin, x \in w PROVE w = v
    <3>1. PICK e \in Entries(a, alone) : w = {order[m] : m \in e}
      BY <1>6
    <3>2. e \subseteq DOMAIN order
      BY <1>2 DEF Entries
    <3>3. PICK m \in e : order[m] = x
      BY <2>4, <3>1
    <3>4. m = k
      BY <2>1, <3>2, <3>3, IterationFacts
    <3>5. e = entry
      <4>1. CASE \E cl \in Clusters(a) : e = {n \in DOMAIN a : a[n] = cl}
        BY <2>2, <3>3, <3>4, <4>1
      <4>2. CASE \E n \in DOMAIN a : a[n] = Noise /\ e = {n}
        BY <2>2, <3>3, <3>4, <4>2
      <4> QED BY <4>1, <4>2 DEF Entries
    <3> QED BY <3>1, <3>5
  <2> QED BY <2>3, <2>4
<1> HIDE DEF v, entry
<1>9. PICK loss \in [origin -> Losses] :
        new = [x \in DOMAIN score |->
                 IF x \in UNION origin THEN loss[CHOOSE w \in origin : x \in w] ELSE score[x]]
  BY DEF Rescores
<1>10. ASSUME NEW x \in S, c[x] = c[i] PROVE new[x] = loss[v]
  <2>1. x \in UNION origin /\ x \in DOMAIN score
    BY <1>7, <1>8, <1>10
  <2>2. (CHOOSE w \in origin : x \in w) = v
    BY <1>7, <1>8, <1>10
  <2> QED BY <1>9, <2>1, <2>2
<1>11. new[i] = loss[v] /\ new[j] = loss[v]
  BY <1>10
<1>12. loss[v] \in Losses
  BY <1>7, <1>9
<1> QED BY <1>11, <1>12, LossAssumption

LEMMA InitScores == Init => ScoreInv /\ OnlySelectedScored
  BY DEF Init, ScoreInv, OnlySelectedScored

LEMMA StepScores ==
  ScoreInv /\ OnlySelectedScored /\ [Next]_vars => ScoreInv' /\ OnlySelectedScored'
<1> SUFFICES ASSUME ScoreInv, OnlySelectedScored, [Next]_vars
             PROVE  ScoreInv' /\ OnlySelectedScored'
  OBVIOUS
<1>1. CASE ParseEdge
  <2>1. ScoreInv'
    BY <1>1 DEF ParseEdge, ScoreInv, ZeroScores, edgeVars, ShortIds, LongIds
  <2>2. OnlySelectedScored'
    BY <1>1 DEF ParseEdge, OnlySelectedScored, edgeVars, ShortIds, LongIds
  <2> QED BY <2>1, <2>2
<1>2. CASE FindComponents
  <2>1. /\ phase = "components" /\ phase' \in {"select", "abort"}
        /\ UNCHANGED <<short, long, shortScore, longScore, todo>>
    BY <1>2 DEF FindComponents, edgeVars, scoreVars
  <2>2. ScoreInv' /\ ZeroScores'
    BY <2>1 DEF ScoreInv, ZeroScores, ShortIds, LongIds
  <2> QED BY <2>2 DEF OnlySelectedScored, ZeroScores
<1>3. CASE Select
  <2>1. /\ phase = "select" /\ phase' = "process" /\ todo' = selected'
        /\ UNCHANGED <<short, long, shortScore, longScore>>
    BY <1>3 DEF Select, edgeVars, scoreVars
  <2>2. ZeroScores'
    BY <2>1 DEF ScoreInv, ZeroScores, ShortIds, LongIds
  <2>3. ScoreInv'
    BY <2>1, <2>2 DEF ScoreInv, ZeroScores
  <2> QED BY <2>2, <2>3 DEF OnlySelectedScored, ZeroScores
<1>4. ASSUME NEW part \in todo, ProcComponent(part)
      PROVE  ScoreInv' /\ OnlySelectedScored'
  <2>1. /\ phase = "process" /\ phase' = "process" /\ todo' = todo \ {part}
        /\ UNCHANGED <<edgeVars, indexVars, partVars>>
    BY <1>4 DEF ProcComponent
  <2>2. /\ DOMAIN shortScore' = DOMAIN shortScore
        /\ \A i \in DOMAIN shortScore : i \notin ShortOf(part) => shortScore'[i] = shortScore[i]
    BY <1>4, ProcChanges
  <2>3. /\ DOMAIN longScore' = DOMAIN longScore
        /\ \A i \in DOMAIN longScore : i \notin LongOf(part) => longScore'[i] = longScore[i]
    BY <1>4, ProcChanges
  <2>4. ShortIds' = ShortIds /\ LongIds' = LongIds /\ selected' = selected
    BY <2>1 DEF edgeVars, partVars, ShortIds, LongIds
  <2>5. \A q : ShortOf(q)' = ShortOf(q) /\ LongOf(q)' = LongOf(q)
    BY <2>1 DEF indexVars, ShortOf, LongOf
  <2>6. ScoreInv'
    BY <2>1, <2>2, <2>3, <2>4 DEF ScoreInv
  <2>7. part \in selected' \ todo' /\ selected \ todo \subseteq selected' \ todo'
    BY <2>1, <2>4 DEF ScoreInv
  <2>8. \A i \in ShortIds : shortScore'[i] # 0 => \E q \in selected' \ todo' : i \in ShortOf(q)
    BY <2>1, <2>2, <2>7 DEF OnlySelectedScored, ScoreInv
  <2>9. \A i \in LongIds : longScore'[i] # 0 => \E q \in selected' \ todo' : i \in LongOf(q)
    BY <2>1, <2>3, <2>7 DEF OnlySelectedScored, ScoreInv
  <2> QED BY <2>4, <2>5, <2>6, <2>8, <2>9 DEF OnlySelectedScored
<1>5. CASE FinalScore
  <2>1. /\ phase = "process" /\ phase' = "done"
        /\ todo = {} /\ UNCHANGED <<edgeVars, indexVars, partVars, todo, scoreVars>>
    BY <1>5 DEF FinalScore
  <2> QED BY <2>1 DEF ScoreInv, OnlySelectedScored, edgeVars, indexVars, partVars, scoreVars,
                      ShortIds, LongIds, ShortOf, LongOf
<1>6. CASE UNCHANGED vars
  BY <1>6 DEF ScoreInv, ZeroScores, OnlySelectedScored, vars, edgeVars, indexVars, partVars,
              scoreVars, ShortIds, LongIds, ShortOf, LongOf
<1> QED BY <1>1, <1>2, <1>3, <1>4, <1>5, <1>6 DEF Next, Ended

(* An edge gets a score other than 0 only from a selected component that     *)
(* holds it, whatever the clusterings, the losses and the orders in which    *)
(* its hash sets are iterated (graph_analysis.cpp,                           *)
(* graph_analysis_short.cpp:46-55, graph_analysis_long.cpp:14-31).           *)
THEOREM ScoresFromSelected == Spec => []OnlySelectedScored
<1> QED BY InitScores, StepScores, PTL DEF Spec

-------------------------------------------------------------------------------
(* Packet scores *)

FinalInv ==
  phase = "done" => pktScore = [p \in Packets |-> Max({-1} \cup Scores(p))]

LEMMA StepFinal == FinalInv /\ [Next]_vars => FinalInv'
<1> SUFFICES ASSUME FinalInv, [Next]_vars PROVE FinalInv'
  OBVIOUS
<1>1. CASE FinalScore
  <2>1. \A p : Scores(p)' = Scores(p)
    BY <1>1 DEF FinalScore, edgeVars, scoreVars, Scores, LongIds, ShortIds
  <2> QED BY <1>1, <2>1 DEF FinalInv, FinalScore
<1>2. CASE UNCHANGED vars
  <2>1. \A p : Scores(p)' = Scores(p)
    BY <1>2 DEF vars, edgeVars, scoreVars, Scores, LongIds, ShortIds
  <2> QED BY <1>2, <2>1 DEF FinalInv, vars
<1>3. CASE ParseEdge \/ FindComponents \/ Select \/ \E part \in todo : ProcComponent(part)
  <2>1. phase' # "done"
    BY <1>3 DEF ParseEdge, FindComponents, Select, ProcComponent
  <2> QED BY <2>1 DEF FinalInv
<1> QED BY <1>1, <1>2, <1>3 DEF Next, Ended

LEMMA FinalMeaning == ScoreInv /\ OnlySelectedScored /\ FinalInv => PacketScoreMeaning
<1> DEFINE L(p) == {j \in LongIds : p \in long[j].pkts}
           S(p) == {j \in ShortIds : p \in short[j].pkts}
           analysed(p) == \E part \in selected :
                            \/ \E i \in ShortOf(part) : p \in short[i].pkts
                            \/ \E i \in LongOf(part) : p \in long[i].pkts
<1> SUFFICES ASSUME ScoreInv, OnlySelectedScored, FinalInv, phase = "done",
                    NEW p \in Packets, ~analysed(p)
             PROVE  pktScore[p] = Max({-1} \cup {offset_l : i \in L(p)} \cup {offset_s : i \in S(p)})
  BY DEF PacketScoreMeaning
<1>1. pktScore[p] = Max({-1} \cup Scores(p))
  BY DEF FinalInv
<1>2. \A i \in L(p) : longScore[i] + offset_l = offset_l
  BY OffsetAssumption DEF OnlySelectedScored
<1>3. \A i \in S(p) : shortScore[i] + offset_s = offset_s
  BY OffsetAssumption DEF OnlySelectedScored
<1>4. Scores(p) = {offset_l : i \in L(p)} \cup {offset_s : i \in S(p)}
  BY <1>2, <1>3 DEF Scores
<1> HIDE DEF L, S
<1>5. {-1} \cup Scores(p) = {-1} \cup {offset_l : i \in L(p)} \cup {offset_s : i \in S(p)}
  BY <1>4
<1> QED BY <1>1, <1>5

(* The score of a packet whose edge was not analysed is the offset of the    *)
(* kind of its edge, or -1 if that is more or it is in no flow, whatever the *)
(* losses and the offsets (get_final_pkt_score, lines 67-90).                *)
THEOREM PacketScores == Spec => []PacketScoreMeaning
<1>1. Init => FinalInv
  BY DEF Init, FinalInv
<1> QED BY <1>1, InitScores, StepScores, StepFinal, FinalMeaning, PTL DEF Spec

-------------------------------------------------------------------------------
(* Components *)

(* A vertex lies in exactly one weakly connected component: the common part  *)
(* of the closed sets that hold it.                                          *)
LEMMA OneComponent ==
  ASSUME NEW V, NEW E, \A e \in E : e[1] \in V /\ e[2] \in V, NEW v \in V
  PROVE  \E c \in WeakComponents(V, E) :
           v \in c /\ \A d \in WeakComponents(V, E) : v \in d => d = c
<1> DEFINE C == {w \in V : \A P \in SUBSET V : Closed(P, E) /\ v \in P => w \in P}
<1>1. C \in SUBSET V /\ v \in C /\ C # {}
  OBVIOUS
<1>2. Closed(C, E)
  <2> SUFFICES ASSUME NEW e \in E PROVE e[1] \in C <=> e[2] \in C
    BY DEF Closed
  <2>1. \A P \in SUBSET V : Closed(P, E) => (e[1] \in P <=> e[2] \in P)
    BY DEF Closed
  <2>2. e[1] \in V /\ e[2] \in V
    OBVIOUS
  <2> QED BY <2>1, <2>2
<1>3. ASSUME NEW Q \in SUBSET C, Q # {}, Closed(Q, E) PROVE Q = C
  <2>1. CASE v \in Q
    <3>1. Q \in SUBSET V
      BY <1>1
    <3> QED BY <1>3, <2>1, <3>1
  <2>2. CASE v \notin Q
    <3>1. Closed(C \ Q, E)
      BY <1>2, <1>3 DEF Closed
    <3>2. C \ Q \in SUBSET V /\ v \in C \ Q
      BY <1>1, <2>2
    <3>3. \A w \in C : w \in C \ Q
      BY <3>1, <3>2
    <3> QED BY <1>3, <3>3
  <2> QED BY <2>1, <2>2
<1>4. C \in WeakComponents(V, E)
  BY <1>1, <1>2, <1>3 DEF WeakComponents
<1>5. ASSUME NEW d \in WeakComponents(V, E), v \in d PROVE d = C
  <2>1. d \in SUBSET V /\ Closed(d, E) /\ \A Q \in SUBSET d : Q # {} /\ Closed(Q, E) => Q = d
    BY DEF WeakComponents
  <2>2. C \in SUBSET d
    BY <1>5, <2>1
  <2> QED BY <1>1, <1>2, <2>1, <2>2
<1> QED BY <1>1, <1>4, <1>5

(* The indexes of parse_edge, and what the search made of them. *)
IndexInv ==
  /\ short \in Seq(ShortEdge) /\ long \in Seq(LongEdge)
  /\ phase # "parse" =>
       /\ vertexReduce = Ends(short, TwoEnded)
       /\ vertexLong = Ends(long, LongIds)
       /\ shortOut = BySrc(short, TwoEnded)
       /\ shortOutAgg = BySrc(short, BySrcOnly)
       /\ shortInAgg = ByDst(short, ByDstOnly)
       /\ longOut = BySrc(long, LongIds)
  /\ Found => components = WeakComponents(vertexLong \cup vertexReduce, EdgeRaw)

LEMMA InitIndex == Init => IndexInv
<1> SUFFICES ASSUME Init PROVE IndexInv
  OBVIOUS
<1>1. PICK g \in Graphs : short = g.short /\ long = g.long
  BY DEF Init
<1> QED BY <1>1, GraphAssumption DEF Init, IndexInv, Found

(* What depends on the edges only. *)
LEMMA EdgesFixed ==
  ASSUME UNCHANGED edgeVars
  PROVE  /\ UNCHANGED <<short, long>>
         /\ ShortIds' = ShortIds /\ LongIds' = LongIds
         /\ TwoEnded' = TwoEnded /\ BySrcOnly' = BySrcOnly /\ ByDstOnly' = ByDstOnly
         /\ EdgeRaw' = EdgeRaw
BY DEF edgeVars, ShortIds, LongIds, TwoEnded, BySrcOnly, ByDstOnly, EdgeRaw

LEMMA StepIndex == IndexInv /\ [Next]_vars => IndexInv'
<1> SUFFICES ASSUME IndexInv, [Next]_vars PROVE IndexInv'
  OBVIOUS
<1>1. CASE ParseEdge
  <2>1. UNCHANGED edgeVars /\ phase' = "components"
    BY <1>1 DEF ParseEdge
  <2>2. /\ vertexReduce' = Ends(short, TwoEnded)
        /\ vertexLong' = Ends(long, LongIds)
        /\ shortOut' = BySrc(short, TwoEnded)
        /\ shortOutAgg' = BySrc(short, BySrcOnly)
        /\ shortInAgg' = ByDst(short, ByDstOnly)
        /\ longOut' = BySrc(long, LongIds)
    BY <1>1 DEF ParseEdge
  <2>3. /\ Ends(short, TwoEnded)' = Ends(short, TwoEnded)
        /\ Ends(long, LongIds)' = Ends(long, LongIds)
        /\ BySrc(short, TwoEnded)' = BySrc(short, TwoEnded)
        /\ BySrc(short, BySrcOnly)' = BySrc(short, BySrcOnly)
        /\ ByDst(short, ByDstOnly)' = ByDst(short, ByDstOnly)
        /\ BySrc(long, LongIds)' = BySrc(long, LongIds)
    BY <2>1, EdgesFixed DEF Ends, BySrc, ByDst
  <2> QED BY <2>1, <2>2, <2>3, EdgesFixed DEF IndexInv, Found
<1>2. ASSUME UNCHANGED edgeVars, UNCHANGED indexVars, phase # "parse", phase' # "parse",
             Found' => components' = WeakComponents(vertexLong \cup vertexReduce, EdgeRaw)
      PROVE  IndexInv'
  <2>1. /\ Ends(short, TwoEnded)' = Ends(short, TwoEnded)
        /\ Ends(long, LongIds)' = Ends(long, LongIds)
        /\ BySrc(short, TwoEnded)' = BySrc(short, TwoEnded)
        /\ BySrc(short, BySrcOnly)' = BySrc(short, BySrcOnly)
        /\ ByDst(short, ByDstOnly)' = ByDst(short, ByDstOnly)
        /\ BySrc(long, LongIds)' = BySrc(long, LongIds)
    BY <1>2, EdgesFixed DEF Ends, BySrc, ByDst
  <2> QED BY <1>2, <2>1, EdgesFixed DEF IndexInv, indexVars
<1>3. CASE FindComponents
  <2>1. Found' => components' = WeakComponents(vertexLong \cup vertexReduce, EdgeRaw)
    BY <1>3 DEF FindComponents, Found
  <2> QED BY <1>2, <1>3, <2>1 DEF FindComponents
<1>4. CASE Select
  BY <1>2, <1>4 DEF Select, IndexInv, Found
<1>5. CASE \E part \in todo : ProcComponent(part)
  BY <1>2, <1>5 DEF ProcComponent, IndexInv, Found, partVars
<1>6. CASE FinalScore
  BY <1>2, <1>6 DEF FinalScore, IndexInv, Found, partVars
<1>7. CASE UNCHANGED vars
  <2>1. CASE phase = "parse"
    BY <1>7, <2>1, EdgesFixed DEF IndexInv, vars, Found
  <2>2. CASE phase # "parse"
    BY <1>2, <1>7, <2>2 DEF vars, IndexInv, Found, partVars
  <2> QED BY <2>1, <2>2
<1> QED BY <1>1, <1>3, <1>4, <1>5, <1>6, <1>7 DEF Next, Ended

(* The components of the search that hold address a: one, or none when it is *)
(* in none of their vertex tables.                                           *)
LEMMA PartsAt ==
  ASSUME IndexInv, Found, NEW a \in Addrs
  PROVE  LET S == {part \in AllParts : ~part.global /\ a \in part.addrs}
         IN  /\ Cardinality(S) <= 1
             /\ a \in vertexLong \cup vertexReduce => Cardinality(S) = 1
<1> DEFINE V == vertexLong \cup vertexReduce
           S == {part \in AllParts : ~part.global /\ a \in part.addrs}
<1>1. \A e \in EdgeRaw : e[1] \in V /\ e[2] \in V
  <2>1. /\ \A j \in LongIds : long[j].src \in vertexLong /\ long[j].dst \in vertexLong
        /\ \A j \in TwoEnded : short[j].src \in vertexReduce /\ short[j].dst \in vertexReduce
    BY DEF IndexInv, Found, Ends
  <2> QED BY <2>1 DEF EdgeRaw
<1>2. components = WeakComponents(V, EdgeRaw) /\ components \subseteq SUBSET V
  BY DEF IndexInv, WeakComponents
<1>3. S = {[addrs |-> c, global |-> FALSE] : c \in {d \in components : a \in d}}
  BY DEF AllParts
<1>4. CASE a \in V
  <2>1. PICK c \in components : a \in c /\ \A d \in components : a \in d => d = c
    <3> HIDE DEF V
    <3> QED BY <1>1, <1>2, <1>4, OneComponent
  <2>2. S = {[addrs |-> c, global |-> FALSE]}
    BY <1>3, <2>1
  <2>3. Cardinality(S) = 1
    BY <2>2, FS_Singleton
  <2> QED BY <2>3
<1>5. CASE a \notin V
  <2>1. S = {}
    BY <1>2, <1>3, <1>5
  <2>2. Cardinality(S) = 0
    BY <2>1, FS_EmptySet
  <2> QED BY <1>5, <2>2
<1> QED BY <1>4, <1>5

LEMMA IndexNoEdgeTwice == IndexInv => NoEdgeTwice
<1> SUFFICES ASSUME IndexInv, Found PROVE NoEdgeTwice
  BY DEF NoEdgeTwice
<1>1. /\ \A j \in ShortIds : /\ short[j].src \in Addrs /\ short[j].dst \in Addrs
                            /\ short[j].agg \in Aggregations
      /\ \A j \in LongIds : long[j].src \in Addrs /\ long[j].dst \in Addrs
  <2>1. /\ \A j \in ShortIds : short[j] \in ShortEdge
        /\ \A j \in LongIds : long[j] \in LongEdge
    BY DEF IndexInv, ShortIds, LongIds
  <2> QED BY <2>1 DEF ShortEdge, LongEdge
<1>2. /\ vertexReduce = Ends(short, TwoEnded)
      /\ vertexLong = Ends(long, LongIds)
      /\ shortOut = BySrc(short, TwoEnded)
      /\ shortOutAgg = BySrc(short, BySrcOnly)
      /\ shortInAgg = ByDst(short, ByDstOnly)
      /\ longOut = BySrc(long, LongIds)
  BY DEF IndexInv, Found
<1>3. \A part \in AllParts : ~part.global => part.addrs \subseteq Addrs
  <2>1. vertexLong \subseteq Addrs /\ vertexReduce \subseteq Addrs
    BY <1>1, <1>2 DEF Ends, TwoEnded
  <2> QED BY <2>1 DEF AllParts, IndexInv, WeakComponents
<1>4. ASSUME NEW i \in LongIds PROVE Cardinality(Searched(i, LongOf)) = 1
  <2> DEFINE a == long[i].src
  <2>1. \A b \in Addrs : i \in longOut[b] <=> b = a
    BY <1>2 DEF BySrc
  <2>2. Searched(i, LongOf) = {part \in AllParts : ~part.global /\ a \in part.addrs}
    BY <1>3, <2>1 DEF Searched, LongOf
  <2>3. a \in Addrs /\ a \in vertexLong
    BY <1>1, <1>2 DEF Ends
  <2> HIDE DEF a
  <2> QED BY <2>2, <2>3, PartsAt
<1>5. ASSUME NEW i \in TwoEnded PROVE Cardinality(Searched(i, ShortOf)) = 1
  <2> DEFINE a == short[i].src
  <2>1. \A b \in Addrs : i \in shortOut[b] \cup shortOutAgg[b] \cup shortInAgg[b] <=> b = a
    BY <1>2 DEF BySrc, ByDst, TwoEnded, BySrcOnly, ByDstOnly
  <2>2. Searched(i, ShortOf) = {part \in AllParts : ~part.global /\ a \in part.addrs}
    BY <1>3, <2>1 DEF Searched, ShortOf
  <2>3. a \in Addrs /\ a \in vertexReduce
    BY <1>1, <1>2 DEF Ends, TwoEnded
  <2> HIDE DEF a
  <2> QED BY <2>2, <2>3, PartsAt
<1>6. ASSUME NEW i \in ShortIds \ TwoEnded PROVE Cardinality(Searched(i, ShortOf)) <= 1
  <2> DEFINE a == IF i \in BySrcOnly THEN short[i].src ELSE short[i].dst
  <2>1. i \in BySrcOnly \/ i \in ByDstOnly
    BY <1>1 DEF TwoEnded, BySrcOnly, ByDstOnly, Aggregations
  <2>2. \A b \in Addrs : i \in shortOut[b] \cup shortOutAgg[b] \cup shortInAgg[b] <=> b = a
    BY <1>2, <2>1 DEF BySrc, ByDst, TwoEnded, BySrcOnly, ByDstOnly
  <2>3. Searched(i, ShortOf) = {part \in AllParts : ~part.global /\ a \in part.addrs}
    BY <1>3, <2>2 DEF Searched, ShortOf
  <2>4. a \in Addrs
    BY <1>1
  <2> HIDE DEF a
  <2> QED BY <2>3, <2>4, PartsAt
<1> QED BY <1>4, <1>5, <1>6 DEF NoEdgeTwice

(* The search hands every long or two-ended edge to exactly one component,   *)
(* and an edge kept under one address to one at most, for every edge vector  *)
(* (parse_edge and graph_component.cpp:12-79).                               *)
THEOREM EdgesSearchedOnce == Spec => []NoEdgeTwice
<1> QED BY InitIndex, StepIndex, IndexNoEdgeTwice, PTL DEF Spec

-------------------------------------------------------------------------------
(* The global component *)

(* What set_difference leaves from position p on, given what it leaves from  *)
(* the later ones.                                                           *)
MergeStep(a, b, g, p) ==
  LET i == p[1]
      j == p[2]
  IN  IF i > Cardinality(DOMAIN a) THEN {}
      ELSE IF j > Cardinality(DOMAIN b) \/ a[i] < b[j] THEN {a[i]} \cup g[<<i + 1, j>>]
      ELSE IF b[j] < a[i] THEN g[<<i, j + 1>>]
      ELSE g[<<i + 1, j + 1>>]

Positions(a, b) == (1 .. Cardinality(DOMAIN a) + 1) \X (1 .. Cardinality(DOMAIN b) + 1)

IsMerge(a, b, g) == g = [p \in Positions(a, b) |-> MergeStep(a, b, g, p)]

(* The recursion of set_difference has a solution: those for the positions   *)
(* with at most k elements left are extended to k + 1.                       *)
LEMMA MergeExists ==
  ASSUME NEW a, NEW b, Cardinality(DOMAIN a) \in Nat, Cardinality(DOMAIN b) \in Nat
  PROVE  \E g : IsMerge(a, b, g)
<1> DEFINE n == Cardinality(DOMAIN a)
           m == Cardinality(DOMAIN b)
           D == Positions(a, b)
           left(p) == (n + 1 - p[1]) + (m + 1 - p[2])
           upTo(g, k) == /\ g = [p \in D |-> g[p]]
                         /\ \A p \in D : left(p) <= k => g[p] = MergeStep(a, b, g, p)
           N == {k \in Nat : \E g : upTo(g, k)}
<1>1. n \in Nat /\ m \in Nat /\ D = (1 .. n + 1) \X (1 .. m + 1)
  BY DEF Positions
<1>2. 0 \in N
  <2> DEFINE g == [p \in D |-> {}]
  <2>1. \A p \in D : left(p) <= 0 => p[1] > n
    BY <1>1
  <2>2. \A p \in D : p[1] > n => MergeStep(a, b, g, p) = {}
    <3> HIDE DEF g, D
    <3> QED BY Zenon DEF MergeStep
  <2>3. upTo(g, 0)
    BY <2>1, <2>2
  <2> HIDE DEF upTo
  <2> QED BY <2>3
<1>3. ASSUME NEW k \in N PROVE k + 1 \in N
  <2>1. PICK g : upTo(g, k)
    OBVIOUS
  <2> DEFINE h == [p \in D |-> MergeStep(a, b, g, p)]
  <2>2. \A p \in D : left(p) <= k => h[p] = g[p]
    BY <2>1
  <2>3. ASSUME NEW p \in D, left(p) <= k + 1 PROVE h[p] = MergeStep(a, b, h, p)
    <3> DEFINE i == p[1]
               j == p[2]
    <3>1. i \in 1 .. n + 1 /\ j \in 1 .. m + 1 /\ k \in Nat
      BY <1>1
    <3>2. i <= n => /\ <<i + 1, j>> \in D
                    /\ left(<<i + 1, j>>) <= k
                    /\ j <= m => /\ <<i, j + 1>> \in D /\ left(<<i, j + 1>>) <= k
                                 /\ <<i + 1, j + 1>> \in D /\ left(<<i + 1, j + 1>>) <= k
      BY <1>1, <2>3, <3>1
    <3>3. i <= n => /\ h[<<i + 1, j>>] = g[<<i + 1, j>>]
                    /\ j <= m => /\ h[<<i, j + 1>>] = g[<<i, j + 1>>]
                                 /\ h[<<i + 1, j + 1>>] = g[<<i + 1, j + 1>>]
      <4> HIDE DEF h, left, D
      <4> QED BY <2>2, <3>2
    <3>4. MergeStep(a, b, h, p) = MergeStep(a, b, g, p)
      <4> HIDE DEF h
      <4>1. CASE i > n
        BY <4>1, Zenon DEF MergeStep
      <4>2. CASE i <= n /\ (j > m \/ a[i] < b[j])
        <5>1. ~(i > n)
          BY <1>1, <3>1, <4>2
        <5> QED BY <3>3, <4>2, <5>1, Zenon DEF MergeStep
      <4>3. CASE i <= n /\ j <= m /\ ~(a[i] < b[j])
        <5>1. ~(i > n) /\ ~(j > m)
          BY <1>1, <3>1, <4>3
        <5> QED BY <3>3, <4>3, <5>1, Zenon DEF MergeStep
      <4>4. i > n \/ (i <= n /\ (j > m \/ j <= m))
        BY <1>1, <3>1
      <4> QED BY <4>1, <4>2, <4>3, <4>4
    <3> QED BY <3>4
  <2>4. upTo(h, k + 1)
    <3>1. h = [p \in D |-> h[p]]
      OBVIOUS
    <3> HIDE DEF h
    <3> QED BY <2>3, <3>1
  <2>5. k + 1 \in Nat
    OBVIOUS
  <2> HIDE DEF upTo, h
  <2> QED BY <2>4, <2>5
<1>4. n + m \in N
  <2> HIDE DEF N, n, m
  <2>1. N \subseteq Nat
    BY DEF N
  <2>2. N = Nat
    BY <1>2, <1>3, <2>1, SetOfNaturalsInduction
  <2> QED BY <1>1, <2>2
<1>5. PICK g : upTo(g, n + m)
  BY <1>4
<1>6. \A p \in D : left(p) <= n + m
  BY <1>1
<1>7. g = [p \in D |-> g[p]] /\ \A p \in D : g[p] = MergeStep(a, b, g, p)
  BY <1>5, <1>6
<1> QED BY <1>7 DEF IsMerge

LEMMA MergeIsFrom ==
  ASSUME NEW a, NEW b, Cardinality(DOMAIN a) \in Nat, Cardinality(DOMAIN b) \in Nat
  PROVE  \E g : IsMerge(a, b, g) /\ MergeDifference(a, b) = g[<<1, 1>>]
<1> DEFINE c == CHOOSE g : IsMerge(a, b, g)
<1>1. \E g : IsMerge(a, b, g)
  BY MergeExists
<1>2. IsMerge(a, b, c)
  BY <1>1, Zenon
<1>3. MergeDifference(a, b) = c[<<1, 1>>]
  BY Zenon DEF MergeDifference, IsMerge, Positions, MergeStep
<1> HIDE DEF c
<1> QED BY <1>2, <1>3

(* Whatever the orders, set_difference gives elements of the first sequence, *)
(* and all of those that the second has not.                                 *)
LEMMA MergeBounds ==
  ASSUME NEW n \in Nat, NEW m \in Nat,
         NEW a, DOMAIN a = 1 .. n, \A i \in 1 .. n : a[i] \in Int,
         NEW b, DOMAIN b = 1 .. m, \A j \in 1 .. m : b[j] \in Int
  PROVE  /\ MergeDifference(a, b) \subseteq {a[i] : i \in 1 .. n}
         /\ {a[i] : i \in 1 .. n} \ {b[j] : j \in 1 .. m} \subseteq MergeDifference(a, b)
<1> DEFINE B == {b[j] : j \in 1 .. m}
           rest(i) == {a[k] : k \in i .. n}
           D == (1 .. n + 1) \X (1 .. m + 1)
           left(p) == (n + 1 - p[1]) + (m + 1 - p[2])
<1>1. Cardinality(DOMAIN a) = n /\ Cardinality(DOMAIN b) = m
  BY FS_Interval
<1>2. PICK g : IsMerge(a, b, g) /\ MergeDifference(a, b) = g[<<1, 1>>]
  BY <1>1, MergeIsFrom
<1> DEFINE good(p) == g[p] \subseteq rest(p[1]) /\ rest(p[1]) \ B \subseteq g[p]
           N == {k \in Nat : \A p \in D : left(p) <= k => good(p)}
<1>3. \A p \in D : g[p] = MergeStep(a, b, g, p)
  BY <1>1, <1>2 DEF IsMerge, Positions
<1>4. ASSUME NEW p \in D, p[1] > n PROVE good(p)
  <2>1. g[p] = {}
    <3>1. MergeStep(a, b, g, p) = {}
      BY <1>1, <1>4, Zenon DEF MergeStep
    <3> QED BY <1>3, <3>1
  <2>2. rest(p[1]) = {}
    BY <1>4
  <2> QED BY <2>1, <2>2
<1>5. \A i \in 1 .. n : rest(i) = {a[i]} \cup rest(i + 1)
  <2> TAKE i \in 1 .. n
  <2>1. i .. n = {i} \cup ((i + 1) .. n)
    OBVIOUS
  <2> QED BY <2>1
<1>6. ASSUME NEW p \in D, p[1] <= n,
             good(<<p[1] + 1, p[2]>>),
             p[2] <= m => good(<<p[1], p[2] + 1>>) /\ good(<<p[1] + 1, p[2] + 1>>)
      PROVE  good(p)
  <2> DEFINE i == p[1]
             j == p[2]
  <2>1. i \in 1 .. n /\ j \in 1 .. m + 1 /\ rest(i) = {a[i]} \cup rest(i + 1)
    BY <1>5, <1>6
  <2>2. CASE j > m \/ a[i] < b[j]
    <3>1. MergeStep(a, b, g, p) = {a[i]} \cup g[<<i + 1, j>>]
      <4>1. ~(i > n)
        BY <2>1
      <4> QED BY <1>1, <2>2, <4>1, Zenon DEF MergeStep
    <3>2. g[<<i + 1, j>>] \subseteq rest(i + 1) /\ rest(i + 1) \ B \subseteq g[<<i + 1, j>>]
      <4> HIDE DEF rest
      <4> QED BY <1>6
    <3>3. g[p] = {a[i]} \cup g[<<i + 1, j>>]
      BY <1>3, <3>1
    <3> HIDE DEF rest, B, i, j
    <3>4. g[p] \subseteq rest(i) /\ rest(i) \ B \subseteq g[p]
      BY <2>1, <3>2, <3>3
    <3> QED BY <3>4 DEF i
  <2>3. CASE j <= m /\ ~(a[i] < b[j]) /\ b[j] < a[i]
    <3>1. MergeStep(a, b, g, p) = g[<<i, j + 1>>]
      <4>1. ~(i > n) /\ ~(j > m)
        BY <2>1, <2>3
      <4> QED BY <1>1, <2>3, <4>1, Zenon DEF MergeStep
    <3>2. g[<<i, j + 1>>] \subseteq rest(i) /\ rest(i) \ B \subseteq g[<<i, j + 1>>]
      <4> HIDE DEF rest
      <4> QED BY <1>6, <2>3
    <3>3. g[p] = g[<<i, j + 1>>]
      BY <1>3, <3>1
    <3> HIDE DEF rest, B, i, j
    <3>4. g[p] \subseteq rest(i) /\ rest(i) \ B \subseteq g[p]
      BY <3>2, <3>3
    <3> QED BY <3>4 DEF i
  <2>4. CASE j <= m /\ ~(a[i] < b[j]) /\ ~(b[j] < a[i])
    <3>1. MergeStep(a, b, g, p) = g[<<i + 1, j + 1>>]
      <4>1. ~(i > n) /\ ~(j > m)
        BY <2>1, <2>4
      <4> QED BY <1>1, <2>4, <4>1, Zenon DEF MergeStep
    <3>2. g[<<i + 1, j + 1>>] \subseteq rest(i + 1) /\ rest(i + 1) \ B \subseteq g[<<i + 1, j + 1>>]
      <4> HIDE DEF rest
      <4> QED BY <1>6, <2>4
    <3>3. g[p] = g[<<i + 1, j + 1>>]
      BY <1>3, <3>1
    <3>4. a[i] \in B
      <4>1. j \in 1 .. m /\ a[i] = b[j]
        BY <2>1, <2>4
      <4> QED BY <4>1
    <3> HIDE DEF rest, B, i, j
    <3>5. g[p] \subseteq rest(i) /\ rest(i) \ B \subseteq g[p]
      BY <2>1, <3>2, <3>3, <3>4
    <3> QED BY <3>5 DEF i
  <2>5. j > m \/ j <= m
    BY <2>1
  <2> HIDE DEF good, i, j
  <2> QED BY <2>2, <2>3, <2>4, <2>5
<1>7. 0 \in N
  <2>1. \A p \in D : left(p) <= 0 => p[1] > n
    OBVIOUS
  <2>2. \A p \in D : left(p) <= 0 => good(p)
    <3> HIDE DEF good, left, D
    <3> QED BY <1>4, <2>1
  <2> HIDE DEF good, left, D
  <2> QED BY <2>2
<1>8. ASSUME NEW k \in N PROVE k + 1 \in N
  <2>1. ASSUME NEW p \in D, left(p) <= k + 1 PROVE good(p)
    <3>1. k \in Nat /\ \A q \in D : left(q) <= k => good(q)
      OBVIOUS
    <3>2. CASE p[1] <= n
      <4>1. /\ <<p[1] + 1, p[2]>> \in D
            /\ left(<<p[1] + 1, p[2]>>) <= k
            /\ p[2] <= m => /\ <<p[1], p[2] + 1>> \in D
                            /\ left(<<p[1], p[2] + 1>>) <= k
                            /\ <<p[1] + 1, p[2] + 1>> \in D
                            /\ left(<<p[1] + 1, p[2] + 1>>) <= k
        <5>1. k \in Nat /\ p[1] \in 1 .. n /\ p[2] \in 1 .. m + 1
          BY <3>1, <3>2
        <5>2. (n + 1 - p[1]) + (m + 1 - p[2]) <= k + 1
          BY <2>1
        <5> HIDE DEF N, good
        <5> DEFINE i == p[1]
                   j == p[2]
        <5>3. i \in 1 .. n /\ j \in 1 .. m + 1 /\ (n + 1 - i) + (m + 1 - j) <= k + 1
          BY <5>1, <5>2
        <5> HIDE DEF i, j
        <5>4. /\ <<i + 1, j>> \in D
              /\ left(<<i + 1, j>>) <= k
              /\ j <= m => /\ <<i, j + 1>> \in D
                           /\ left(<<i, j + 1>>) <= k
                           /\ <<i + 1, j + 1>> \in D
                           /\ left(<<i + 1, j + 1>>) <= k
          <6>1. i \in 1 .. n + 1 /\ i + 1 \in 1 .. n + 1 /\ (j <= m => j + 1 \in 1 .. m + 1)
            BY <5>3
          <6>2. /\ (n + 1 - (i + 1)) + (m + 1 - j) <= k
                /\ (n + 1 - i) + (m + 1 - (j + 1)) <= k
                /\ (n + 1 - (i + 1)) + (m + 1 - (j + 1)) <= k
            BY <5>1, <5>3
          <6>3. <<i + 1, j>> \in D /\ (j <= m => <<i, j + 1>> \in D /\ <<i + 1, j + 1>> \in D)
            BY <5>3, <6>1, Zenon
          <6> HIDE DEF D
          <6> QED BY <6>2, <6>3
        <5> QED BY <5>4 DEF i, j
      <4> HIDE DEF good, left, D, N
      <4> QED BY <1>6, <3>1, <3>2, <4>1
    <3>3. CASE p[1] > n
      <4> HIDE DEF good, D
      <4> QED BY <1>4, <3>3
    <3> HIDE DEF good
    <3> QED BY <3>2, <3>3
  <2>2. k + 1 \in Nat
    OBVIOUS
  <2> HIDE DEF good, left, D
  <2> QED BY <2>1, <2>2
<1>9. good(<<1, 1>>)
  <2> DEFINE all == n + m
  <2>1. N = Nat
    <3> HIDE DEF N
    <3>1. N \subseteq Nat
      BY DEF N
    <3> QED BY <1>7, <1>8, <3>1, SetOfNaturalsInduction
  <2>2. <<1, 1>> \in D /\ left(<<1, 1>>) <= all
    OBVIOUS
  <2>3. all \in N
    <3>1. all \in Nat
      OBVIOUS
    <3> HIDE DEF N, all
    <3> QED BY <2>1, <3>1
  <2> HIDE DEF good, left, D, all
  <2> QED BY <2>2, <2>3
<1> QED BY <1>2, <1>9

(* The global component has only addresses of short edges, and every one     *)
(* that no component of the search has because of a short edge, whatever the *)
(* orders of the two hash tables.                                            *)
LEMMA GlobalPartBounds ==
  ASSUME vertexShort \subseteq Addrs, vertexReduce \subseteq Addrs, NEW g \in GlobalParts
  PROVE  g \subseteq vertexShort /\ vertexShort \ vertexReduce \subseteq g
<1> DEFINE n == Cardinality(vertexShort)
           m == Cardinality(vertexReduce)
<1>1. n \in Nat /\ m \in Nat
  <2>1. IsFiniteSet(vertexShort) /\ IsFiniteSet(vertexReduce)
    BY GraphAddrAssumption, FS_Subset
  <2> QED BY <2>1, FS_CardinalityType
<1>2. PICK a \in Orders(vertexShort), b \in Orders(vertexReduce) : g = MergeDifference(a, b)
  BY DEF GlobalParts
<1>3. /\ a \in [1 .. n -> vertexShort] /\ \A v \in vertexShort : \E i \in 1 .. n : a[i] = v
      /\ b \in [1 .. m -> vertexReduce] /\ \A v \in vertexReduce : \E j \in 1 .. m : b[j] = v
  BY <1>2 DEF Orders, Bijection, Surjection
<1> HIDE DEF n, m
<1>4. {a[i] : i \in 1 .. n} = vertexShort /\ {b[j] : j \in 1 .. m} = vertexReduce
  BY <1>3
<1>5. /\ DOMAIN a = 1 .. n /\ \A i \in 1 .. n : a[i] \in Int
      /\ DOMAIN b = 1 .. m /\ \A j \in 1 .. m : b[j] \in Int
  BY <1>3, GraphAddrAssumption
<1>6. /\ MergeDifference(a, b) \subseteq {a[i] : i \in 1 .. n}
      /\ {a[i] : i \in 1 .. n} \ {b[j] : j \in 1 .. m} \subseteq MergeDifference(a, b)
  BY <1>1, <1>5, MergeBounds
<1> QED BY <1>2, <1>4, <1>6

(* The addresses of edges are addresses. *)
LEMMA EdgeAddrs ==
  ASSUME short \in Seq(ShortEdge), long \in Seq(LongEdge)
  PROVE  /\ \A j \in ShortIds : /\ short[j].src \in Addrs /\ short[j].dst \in Addrs
                               /\ short[j].agg \in Aggregations
         /\ \A j \in LongIds : long[j].src \in Addrs /\ long[j].dst \in Addrs
<1>1. /\ \A j \in ShortIds : short[j] \in ShortEdge
      /\ \A j \in LongIds : long[j] \in LongEdge
  BY DEF ShortIds, LongIds
<1> QED BY <1>1 DEF ShortEdge, LongEdge

(* The tables of vertices, and the global component between their bounds. *)
GlobalInv ==
  /\ phase # "parse" => vertexShort = VertexShort
  /\ Found => /\ globalPart \subseteq vertexShort
              /\ vertexShort \ vertexReduce \subseteq globalPart

LEMMA StepGlobal == IndexInv /\ GlobalInv /\ [Next]_vars => GlobalInv'
<1> SUFFICES ASSUME IndexInv, GlobalInv, [Next]_vars PROVE GlobalInv'
  OBVIOUS
<1>1. CASE ParseEdge
  <2>1. UNCHANGED edgeVars /\ phase' = "components" /\ vertexShort' = VertexShort
    BY <1>1 DEF ParseEdge
  <2>2. VertexShort' = VertexShort
    BY <2>1, EdgesFixed DEF VertexShort, Ends
  <2> QED BY <2>1, <2>2 DEF GlobalInv, Found
<1>2. CASE FindComponents
  <2>1. /\ UNCHANGED edgeVars /\ UNCHANGED indexVars /\ phase = "components"
        /\ (phase' = "select" /\ globalPart' \in GlobalParts) \/ phase' = "abort"
    BY <1>2 DEF FindComponents
  <2>2. VertexShort' = VertexShort
    BY <2>1, EdgesFixed DEF VertexShort, Ends
  <2>3. vertexShort \subseteq Addrs /\ vertexReduce \subseteq Addrs
    BY <2>1, EdgeAddrs DEF IndexInv, GlobalInv, VertexShort, Ends, TwoEnded, BySrcOnly, ByDstOnly
  <2>4. Found' => globalPart' \in GlobalParts
    BY <2>1 DEF Found
  <2>5. UNCHANGED <<vertexShort, vertexReduce>>
    BY <2>1 DEF indexVars
  <2> QED BY <2>1, <2>2, <2>3, <2>4, <2>5, GlobalPartBounds DEF GlobalInv
<1>3. CASE Select \/ (\E part \in todo : ProcComponent(part)) \/ FinalScore
  <2>1. /\ UNCHANGED edgeVars /\ UNCHANGED indexVars /\ UNCHANGED globalPart
        /\ phase \in {"select", "process"} /\ Found
    BY <1>3 DEF Select, ProcComponent, FinalScore, partVars, Found
  <2>2. VertexShort' = VertexShort
    BY <2>1, EdgesFixed DEF VertexShort, Ends
  <2> QED BY <2>1, <2>2 DEF GlobalInv, indexVars
<1>4. CASE UNCHANGED vars
  <2>1. VertexShort' = VertexShort
    BY <1>4, EdgesFixed DEF vars, VertexShort, Ends
  <2> QED BY <1>4, <2>1 DEF vars, GlobalInv, Found, indexVars, partVars
<1> QED BY <1>1, <1>2, <1>3, <1>4 DEF Next, Ended

LEMMA EveryEdgeInPart == IndexInv /\ GlobalInv => EveryEdgeHasComponent
<1> SUFFICES ASSUME IndexInv, GlobalInv, Found, NEW i \in ShortIds
             PROVE  \E part \in AllParts : i \in ShortOf(part)
  BY IndexNoEdgeTwice DEF EveryEdgeHasComponent
<1> DEFINE a == IF i \in ByDstOnly THEN short[i].dst ELSE short[i].src
<1>1. a \in Addrs /\ short[i].agg \in Aggregations
  BY EdgeAddrs DEF IndexInv
<1>2. /\ vertexReduce = Ends(short, TwoEnded)
      /\ shortOut = BySrc(short, TwoEnded)
      /\ shortOutAgg = BySrc(short, BySrcOnly)
      /\ shortInAgg = ByDst(short, ByDstOnly)
      /\ vertexShort = VertexShort
  BY DEF IndexInv, GlobalInv, Found
<1>3. i \in shortOut[a] \cup shortOutAgg[a] \cup shortInAgg[a]
  BY <1>1, <1>2 DEF BySrc, ByDst, TwoEnded, BySrcOnly, ByDstOnly, Aggregations
<1>4. a \in vertexShort
  BY <1>1, <1>2 DEF VertexShort, Ends, TwoEnded, BySrcOnly, ByDstOnly, Aggregations
<1> HIDE DEF a
<1>5. CASE a \in vertexReduce
  <2> DEFINE S == {part \in AllParts : ~part.global /\ a \in part.addrs}
  <2>1. Cardinality(S) = 1
    BY <1>1, <1>5, PartsAt
  <2>2. S # {}
    <3> HIDE DEF S
    <3> QED BY <2>1, FS_EmptySet
  <2>3. PICK part \in AllParts : a \in part.addrs
    BY <2>2
  <2> QED BY <1>3, <2>3 DEF ShortOf
<1>6. CASE a \notin vertexReduce
  <2> DEFINE part == [addrs |-> globalPart, global |-> TRUE]
  <2>1. part \in AllParts /\ a \in part.addrs
    BY <1>4, <1>6 DEF GlobalInv, AllParts
  <2> HIDE DEF part
  <2> QED BY <1>3, <2>1 DEF ShortOf
<1> QED BY <1>5, <1>6

(* No edge is left out of the analysis, whatever the orders that the         *)
(* difference of the two hash tables is taken in (graph_component.cpp).      *)
THEOREM EdgesHaveComponents == Spec => []EveryEdgeHasComponent
<1>1. Init => GlobalInv
  BY DEF Init, GlobalInv, Found
<1> QED BY <1>1, InitIndex, StepIndex, StepGlobal, EveryEdgeInPart, PTL DEF Spec

-------------------------------------------------------------------------------
(* Clusters *)

(* Nothing is clustered before the components are processed. *)
AlikeInv ==
  /\ ClustersScoredAlike
  /\ phase \in {"parse", "components", "select"} => shortClusters = <<>> /\ longClusters = <<>>

LEMMA NoneAlike == \A score : AlikeBy(<<>>, score)
  BY DEF AlikeBy

(* The edges of a component are edges. *)
LEMMA PartEdges ==
  ASSUME IndexInv, phase # "parse", NEW part, part.addrs \subseteq Addrs
  PROVE  ShortOf(part) \subseteq ShortIds /\ LongOf(part) \subseteq LongIds
BY DEF IndexInv, ShortOf, LongOf, BySrc, ByDst, TwoEnded, BySrcOnly, ByDstOnly

LEMMA StepAlike ==
  /\ IndexInv /\ GlobalInv /\ ScoreInv /\ AlikeInv /\ [Next]_vars
  /\ selected \subseteq AllParts
  => AlikeInv'
<1> SUFFICES ASSUME IndexInv, GlobalInv, ScoreInv, AlikeInv, [Next]_vars, selected \subseteq AllParts
             PROVE  AlikeInv'
  OBVIOUS
<1>1. CASE ParseEdge
  BY <1>1, NoneAlike DEF ParseEdge, AlikeInv, ClustersScoredAlike
<1>2. CASE FindComponents \/ Select \/ FinalScore \/ UNCHANGED vars
  <2>1. /\ UNCHANGED scoreVars
        /\ phase' \in {"parse", "components", "select"} => phase \in {"parse", "components", "select"}
    BY <1>2 DEF FindComponents, Select, FinalScore, vars
  <2> QED BY <2>1 DEF AlikeInv, ClustersScoredAlike, scoreVars
<1>3. ASSUME NEW part \in todo, ProcComponent(part) PROVE AlikeInv'
  <2>1. /\ phase = "process" /\ phase' = "process"
        /\ shortClusters' \in Clusterings(ShortOf(part))
        /\ longClusters' \in Clusterings(LongOf(part))
    BY <1>3 DEF ProcComponent
  <2>2. part.addrs \subseteq Addrs
    <3>1. part \in AllParts
      BY <2>1 DEF ScoreInv
    <3>2. \A c \in components : c \subseteq vertexLong \cup vertexReduce
      BY <2>1 DEF IndexInv, Found, WeakComponents
    <3>3. vertexLong \cup vertexReduce \cup globalPart \subseteq Addrs
      BY <2>1, EdgeAddrs DEF IndexInv, GlobalInv, Found, Ends, VertexShort, TwoEnded, BySrcOnly, ByDstOnly
    <3> QED BY <3>1, <3>2, <3>3 DEF AllParts
  <2>3. ShortOf(part) \subseteq DOMAIN shortScore /\ LongOf(part) \subseteq DOMAIN longScore
    BY <2>1, <2>2, PartEdges DEF ScoreInv
  <2>4. DOMAIN shortClusters' = ShortOf(part) /\ DOMAIN longClusters' = LongOf(part)
    BY <2>1 DEF Clusterings
  <2>5. AlikeBy(shortClusters', shortScore')
    <3>1. PICK origin \in Origins(ShortOf(part), {shortClusters'}, {Noise}) :
            shortScore' \in Rescores(shortScore, origin)
      BY <1>3 DEF ProcComponent
    <3> QED BY <2>3, <2>4, <3>1, ClusterAlike
  <2>6. AlikeBy(longClusters', longScore')
    <3>1. PICK origin \in Origins(LongOf(part), {longClusters'}, {}) :
            longScore' \in Rescores(longScore, origin)
      BY <1>3 DEF ProcComponent
    <3> QED BY <2>3, <2>4, <3>1, ClusterAlike
  <2>7. ClustersScoredAlike'
    BY <2>5, <2>6 DEF ClustersScoredAlike, AlikeBy
  <2> QED BY <2>1, <2>7 DEF AlikeInv
<1> QED BY <1>1, <1>2, <1>3 DEF Next, Ended

-------------------------------------------------------------------------------
(* Types *)

(* GraphTypeOK but for the packets' scores, and no component is selected     *)
(* before the components are known.                                          *)
GraphTypeInv ==
  /\ [short |-> short, long |-> long] \in Graphs
  /\ phase \in {"parse", "components", "select", "process", "done", "abort"}
  /\ {shortOut, shortIn, shortOutAgg, shortInAgg} \subseteq Indexes
  /\ {longOut, longIn} \subseteq [Addrs -> SUBSET LongIds]
  /\ vertexReduce \subseteq vertexShort
  /\ vertexShort \cup vertexLong \cup globalPart \subseteq Addrs
  /\ components \subseteq SUBSET Addrs
  /\ todo \subseteq selected /\ selected \subseteq AllParts
  /\ phase # "parse" => /\ shortScore \in [ShortIds -> Losses \cup {0}]
                        /\ longScore \in [LongIds -> Losses \cup {0}]
  /\ trained \in BOOLEAN
  /\ phase \notin {"process", "done"} => selected = {}

LEMMA InitGraphType == Init => GraphTypeInv
<1> SUFFICES ASSUME Init PROVE GraphTypeInv
  OBVIOUS
<1>1. PICK g \in Graphs : short = g.short /\ long = g.long
  BY DEF Init
<1>2. g = [short |-> g.short, long |-> g.long]
  BY GraphAssumption
<1>3. NoIndex \in Indexes /\ NoIndex \in [Addrs -> SUBSET LongIds]
  BY DEF NoIndex, Indexes
<1> QED BY <1>1, <1>2, <1>3 DEF Init, GraphTypeInv, AllParts

LEMMA StepGraphType == IndexInv /\ GraphTypeInv /\ [Next]_vars => GraphTypeInv'
<1> SUFFICES ASSUME IndexInv, GraphTypeInv, [Next]_vars PROVE GraphTypeInv'
  OBVIOUS
<1>1. ASSUME UNCHANGED edgeVars
      PROVE  /\ [short |-> short, long |-> long]' \in Graphs
             /\ ShortIds' = ShortIds /\ LongIds' = LongIds /\ Indexes' = Indexes
  BY <1>1, EdgesFixed DEF GraphTypeInv, Indexes
<1>2. ASSUME UNCHANGED edgeVars, UNCHANGED indexVars, globalPart' \subseteq Addrs
      PROVE  /\ {shortOut, shortIn, shortOutAgg, shortInAgg}' \subseteq Indexes'
             /\ {longOut, longIn}' \subseteq [Addrs -> SUBSET LongIds']
             /\ vertexReduce' \subseteq vertexShort'
             /\ vertexShort' \cup vertexLong' \cup globalPart' \subseteq Addrs
  BY <1>1, <1>2 DEF GraphTypeInv, indexVars
<1>3. CASE ParseEdge
  <2>1. /\ BySrc(short, TwoEnded) \in Indexes /\ ByDst(short, TwoEnded) \in Indexes
        /\ BySrc(short, BySrcOnly) \in Indexes /\ ByDst(short, ByDstOnly) \in Indexes
    BY DEF BySrc, ByDst, Indexes, TwoEnded, BySrcOnly, ByDstOnly
  <2>2. BySrc(long, LongIds) \in [Addrs -> SUBSET LongIds] /\ ByDst(long, LongIds) \in [Addrs -> SUBSET LongIds]
    BY DEF BySrc, ByDst
  <2>3. VertexShort \subseteq Addrs /\ Ends(long, LongIds) \subseteq Addrs
    BY EdgeAddrs DEF IndexInv, VertexShort, Ends, TwoEnded, BySrcOnly, ByDstOnly
  <2>4. Ends(short, TwoEnded) \subseteq VertexShort
    BY DEF VertexShort
  <2>5. /\ UNCHANGED edgeVars /\ UNCHANGED partVars /\ UNCHANGED <<todo, trained>>
        /\ phase = "parse" /\ phase' = "components"
        /\ shortScore' = [i \in ShortIds |-> 0] /\ longScore' = [i \in LongIds |-> 0]
    BY <1>3 DEF ParseEdge
  <2>6. /\ {shortOut, shortIn, shortOutAgg, shortInAgg}' \subseteq Indexes'
        /\ {longOut, longIn}' \subseteq [Addrs -> SUBSET LongIds']
        /\ vertexReduce' \subseteq vertexShort'
        /\ vertexShort' \cup vertexLong' \cup globalPart' \subseteq Addrs
    <3>1. globalPart' \subseteq Addrs
      BY <2>5 DEF GraphTypeInv, partVars
    <3>2. /\ vertexShort' = VertexShort /\ vertexReduce' = Ends(short, TwoEnded)
          /\ vertexLong' = Ends(long, LongIds)
          /\ shortOut' = BySrc(short, TwoEnded) /\ shortIn' = ByDst(short, TwoEnded)
          /\ shortOutAgg' = BySrc(short, BySrcOnly) /\ shortInAgg' = ByDst(short, ByDstOnly)
          /\ longOut' = BySrc(long, LongIds) /\ longIn' = ByDst(long, LongIds)
      BY <1>3 DEF ParseEdge
    <3> QED BY <1>1, <2>1, <2>2, <2>3, <2>4, <2>5, <3>1, <3>2
  <2>7. AllParts' = AllParts /\ selected' = selected /\ components' = components
    BY <2>5 DEF partVars, AllParts
  <2>8. shortScore' \in [ShortIds -> Losses \cup {0}] /\ longScore' \in [LongIds -> Losses \cup {0}]
    BY <2>5
  <2> QED BY <1>1, <2>5, <2>6, <2>7, <2>8 DEF GraphTypeInv
<1>4. CASE FindComponents
  <2>1. /\ UNCHANGED edgeVars /\ UNCHANGED indexVars
        /\ UNCHANGED <<selected, todo, shortScore, longScore, trained>>
        /\ phase = "components" /\ phase' \in {"select", "abort"}
    BY <1>4 DEF FindComponents, scoreVars
  <2>2. \/ /\ components' = WeakComponents(vertexLong \cup vertexReduce, EdgeRaw)
           /\ globalPart' \in GlobalParts
        \/ UNCHANGED <<components, globalPart>>
    BY <1>4 DEF FindComponents
  <2>3. globalPart' \subseteq Addrs
    BY <2>2, GlobalPartBounds DEF GraphTypeInv
  <2>4. components' \subseteq SUBSET Addrs
    BY <2>2 DEF GraphTypeInv, WeakComponents
  <2>5. selected' = {} /\ todo' = {}
    BY <2>1 DEF GraphTypeInv
  <2> QED BY <1>1, <1>2, <2>1, <2>3, <2>4, <2>5 DEF GraphTypeInv
<1>5. CASE Select
  <2>1. /\ UNCHANGED edgeVars /\ UNCHANGED indexVars
        /\ UNCHANGED <<components, globalPart, shortScore, longScore, trained>>
        /\ phase = "select" /\ phase' = "process"
        /\ selected' \in kSubset(SelectCount(Cardinality(AllParts)), AllParts)
        /\ todo' = selected'
    BY <1>5 DEF Select, scoreVars
  <2>2. AllParts' = AllParts /\ selected' \subseteq AllParts
    BY <2>1 DEF AllParts, kSubset
  <2> QED BY <1>1, <1>2, <2>1, <2>2 DEF GraphTypeInv
<1>6. ASSUME NEW part \in todo, ProcComponent(part) PROVE GraphTypeInv'
  <2>1. /\ UNCHANGED edgeVars /\ UNCHANGED indexVars /\ UNCHANGED partVars /\ UNCHANGED phase
        /\ phase = "process" /\ todo' = todo \ {part}
        /\ trained' = (trained \/ ShortOf(part) \cup LongOf(part) # {})
    BY <1>6 DEF ProcComponent
  <2>2. shortScore' \in [ShortIds -> Losses \cup {0}] /\ longScore' \in [LongIds -> Losses \cup {0}]
    <3>1. DOMAIN shortScore = ShortIds /\ DOMAIN longScore = LongIds
      BY <2>1 DEF GraphTypeInv
    <3>2. shortScore' \in [ShortIds -> Losses \cup {0}]
      <4>1. /\ shortScore' = [i \in ShortIds |-> shortScore'[i]]
            /\ \A i \in ShortIds : shortScore'[i] = shortScore[i] \/ shortScore'[i] \in Losses
        BY <1>6, <3>1, ProcChanges
      <4> QED BY <2>1, <4>1 DEF GraphTypeInv
    <3>3. longScore' \in [LongIds -> Losses \cup {0}]
      <4>1. /\ longScore' = [i \in LongIds |-> longScore'[i]]
            /\ \A i \in LongIds : longScore'[i] = longScore[i] \/ longScore'[i] \in Losses
        BY <1>6, <3>1, ProcChanges
      <4> QED BY <2>1, <4>1 DEF GraphTypeInv
    <3> QED BY <3>2, <3>3
  <2>3. /\ AllParts' = AllParts /\ selected' = selected /\ components' = components
        /\ globalPart' = globalPart
    BY <2>1 DEF partVars, AllParts
  <2>4. trained' \in BOOLEAN
    BY <2>1 DEF GraphTypeInv
  <2> QED BY <1>1, <1>2, <2>1, <2>2, <2>3, <2>4 DEF GraphTypeInv
<1>7. CASE FinalScore
  <2>1. /\ UNCHANGED edgeVars /\ UNCHANGED indexVars /\ UNCHANGED partVars
        /\ UNCHANGED <<todo, shortScore, longScore, trained>>
        /\ phase = "process" /\ phase' = "done"
    BY <1>7 DEF FinalScore, scoreVars
  <2>2. /\ AllParts' = AllParts /\ selected' = selected /\ components' = components
        /\ globalPart' = globalPart
    BY <2>1 DEF partVars, AllParts
  <2> QED BY <1>1, <1>2, <2>1, <2>2 DEF GraphTypeInv
<1>8. CASE UNCHANGED vars
  <2>1. /\ UNCHANGED edgeVars /\ UNCHANGED indexVars /\ UNCHANGED partVars
        /\ UNCHANGED <<todo, shortScore, longScore, trained, phase>>
    BY <1>8 DEF vars, scoreVars
  <2>2. /\ AllParts' = AllParts /\ selected' = selected /\ components' = components
        /\ globalPart' = globalPart
    BY <2>1 DEF partVars, AllParts
  <2> QED BY <1>1, <1>2, <2>1, <2>2 DEF GraphTypeInv
<1> QED BY <1>3, <1>4, <1>5, <1>6, <1>7, <1>8 DEF Next, Ended

(* What a packet may score. *)
PacketScore == {-1} \cup {x + o : x \in Losses \cup {0}, o \in {offset_l, offset_s}}

(* The greatest of -1 and the scores of a packet's edges. *)
LEMMA PacketScoreType ==
  ASSUME IndexInv, GraphTypeInv, phase # "parse", NEW p
  PROVE  Max({-1} \cup Scores(p)) \in PacketScore
<1> DEFINE L == {j \in LongIds : p \in long[j].pkts}
           S == {j \in ShortIds : p \in short[j].pkts}
           all == {-1} \cup Scores(p)
<1>1. IsFiniteSet(L) /\ IsFiniteSet(S)
  <2>1. ShortIds = 1 .. Len(short) /\ LongIds = 1 .. Len(long)
    BY DEF IndexInv, ShortIds, LongIds
  <2>2. Len(short) \in Nat /\ Len(long) \in Nat
    BY DEF IndexInv
  <2>3. IsFiniteSet(ShortIds) /\ IsFiniteSet(LongIds)
    BY <2>1, <2>2, FS_Interval
  <2> QED BY <2>3, FS_Subset
<1>2. Scores(p) = {longScore[i] + offset_l : i \in L} \cup {shortScore[i] + offset_s : i \in S}
  BY DEF Scores
<1>3. Scores(p) \subseteq PacketScore
  <2>1. \A i \in L : longScore[i] \in Losses \cup {0}
    BY DEF GraphTypeInv
  <2>2. \A i \in S : shortScore[i] \in Losses \cup {0}
    BY DEF GraphTypeInv
  <2> QED BY <1>2, <2>1, <2>2 DEF PacketScore
<1>4. IsFiniteSet(all)
  <2> HIDE DEF L, S
  <2>1. /\ IsFiniteSet({longScore[i] + offset_l : i \in L})
        /\ IsFiniteSet({shortScore[i] + offset_s : i \in S})
    <3> DEFINE fl == [i \in L |-> longScore[i] + offset_l]
               fs == [i \in S |-> shortScore[i] + offset_s]
    <3>1. /\ {longScore[i] + offset_l : i \in L} = {fl[i] : i \in L}
          /\ {shortScore[i] + offset_s : i \in S} = {fs[i] : i \in S}
      OBVIOUS
    <3> HIDE DEF fl, fs
    <3>2. IsFiniteSet({fl[i] : i \in L}) /\ IsFiniteSet({fs[i] : i \in S})
      BY <1>1, FiniteImage
    <3> QED BY <3>1, <3>2
  <2>2. IsFiniteSet(Scores(p))
    <3>1. IsFiniteSet({longScore[i] + offset_l : i \in L} \cup {shortScore[i] + offset_s : i \in S})
      BY <2>1, FS_Union, Zenon
    <3> QED BY <1>2, <3>1, Zenon
  <2>3. IsFiniteSet({-1})
    BY FS_Singleton
  <2> QED BY <2>2, <2>3, FS_Union
<1>5. all # {} /\ all \subseteq Int /\ all \subseteq PacketScore
  <2>1. -1 \in all /\ -1 \in PacketScore
    BY DEF PacketScore
  <2>2. PacketScore \subseteq Int
    BY LossAssumption, OffsetAssumption DEF PacketScore
  <2> HIDE DEF PacketScore
  <2>3. all \subseteq PacketScore
    BY <1>3, <2>1
  <2> QED BY <2>1, <2>2, <2>3
<1> HIDE DEF all
<1>6. \E m \in all : \A k \in all : m >= k
  BY <1>4, <1>5, FiniteHasExtremes
<1>7. Max(all) \in all
  BY <1>6, Zenon DEF Max
<1> QED BY <1>5, <1>7 DEF all

(* The variables of traffic_graph keep their types: every index names edges, *)
(* every selected component was found, and every packet of a finished window *)
(* has a loss or 0, plus an offset, or -1 (graph_analysis.cpp).              *)
THEOREM GraphTypeCorrect == Spec => []GraphTypeOK
<1>1. IndexInv /\ GraphTypeInv /\ FinalInv => GraphTypeOK
  <2> SUFFICES ASSUME IndexInv, GraphTypeInv, FinalInv PROVE GraphTypeOK
    OBVIOUS
  <2>1. phase = "done" => \A p \in Packets : Max({-1} \cup Scores(p)) \in PacketScore
    BY PacketScoreType
  <2>2. phase = "done" => pktScore \in [Packets -> PacketScore]
    BY <2>1 DEF FinalInv
  <2> QED BY <2>2 DEF GraphTypeInv, GraphTypeOK, PacketScore
<1>2. Init => FinalInv
  BY DEF Init, FinalInv
<1> QED BY <1>1, <1>2, InitIndex, StepIndex, InitGraphType, StepGraphType, StepFinal, PTL DEF Spec

(* The edges of one cluster get one score, and do get one, whatever the      *)
(* clustering, the losses and the orders in which the hash sets are iterated *)
(* (graph_analysis_short.cpp:91-98,215-219, graph_analysis_long.cpp:52-71,   *)
(* 207-211).                                                                 *)
THEOREM ClustersAlike == Spec => []ClustersScoredAlike
<1>1. Init => GlobalInv /\ AlikeInv
  BY NoneAlike DEF Init, GlobalInv, Found, AlikeInv, ClustersScoredAlike
<1>2. GraphTypeInv => selected \subseteq AllParts
  BY DEF GraphTypeInv
<1>3. AlikeInv => ClustersScoredAlike
  BY DEF AlikeInv
<1> QED BY <1>1, <1>2, <1>3, InitScores, StepScores, InitIndex, StepIndex, StepGlobal, InitGraphType,
          StepGraphType, StepAlike, PTL DEF Spec
================================================================================
