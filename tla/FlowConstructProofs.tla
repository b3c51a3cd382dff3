-------------------------- MODULE FlowConstructProofs --------------------------
(* Flow construction loses and duplicates no packet, for every trace, every  *)
(* thread count and every pair of time-outs.                                 *)
EXTENDS FlowConstruct, CommonProofs

-------------------------------------------------------------------------------
(* Facts about the constants and the packet array *)

LEMMA TraceFacts ==
  ASSUME pkts \in Traces
  PROVE  /\ N \in Nat
         /\ \A i \in Index : At(i) \in Packet
         /\ Good \subseteq Index
BY TraceAssumption DEF N, Index, At, Good

(* The bounds of a thread range are naturals, inside the packet array.      *)
LEMMA RangeFacts ==
  ASSUME pkts \in Traces, NEW c \in Cores
  PROVE  First(c) \in Nat /\ Last(c) \in Nat /\ Last(c) <= N
BY TraceFacts, SliceInside, MultiplexAssumption DEF First, Last, Cores

(* The packet array is never written: neither are the notions derived of it. *)
LEMMA PacketsFixed ==
  ASSUME pkts' = pkts
  PROVE  /\ N' = N /\ Index' = Index /\ Good' = Good
         /\ \A i : At(i)' = At(i)
         /\ \A c : First(c)' = First(c) /\ Last(c)' = Last(c)
         /\ \A fl : FlowId(fl)' = FlowId(fl) /\ Str(fl)' = Str(fl) /\ End(fl)' = End(fl)
BY DEF N, Index, Good, At, First, Last, FlowId, Str, End

(* No step changes the parsed packets.                                      *)
LEMMA NextKeepsPackets == [Next]_vars => pkts' = pkts
BY DEF Next, ScanStep, CheckStep, ReturnEmpty, Start, StartThrows, SkipBad, ScanPacket,
       Publish, Join, BeginCheck, WorkerStep, CheckWorker, SortUndefined, JoinCheck, Finished, vars

(* The flow the scan makes of the one that receives the current packet. *)
Grown(c) == [table[c] EXCEPT ![At(cursor[c]).id] = @ \cup {cursor[c]}]

LEMMA GrownType ==
  ASSUME TypeOK, NEW c \in Cores, ScanPacket(c)
  PROVE  /\ cursor[c] \in Good /\ cursor[c] + 1 \in 0 .. N
         /\ Grown(c) \in [Ids -> SUBSET Good]
<1>1. cursor[c] \in Good /\ cursor[c] + 1 \in 0 .. N
  BY RangeFacts, TraceFacts DEF TypeOK, ScanPacket, Good, Index
<1> QED BY <1>1 DEF TypeOK, Grown, ScanPacket

(* Merging only unites flows of the group. *)
LEMMA MergedType ==
  ASSUME NEW S, NEW g \in SUBSET SUBSET S, NEW o \in Sorted(g)
  PROVE  Merged(o) \in SUBSET SUBSET S
<1>1. o \in [1 .. Cardinality(g) -> g]
  BY DEF Sorted, Bijection, Injection
<1> QED BY <1>1 DEF Merged, Run

(* A group of flows the double check sorts is a set of sets of packets.     *)
LEMMA GroupType ==
  ASSUME TypeOK, NEW f \in Family, NEW id
  PROVE  Group(f, id) \in SUBSET SUBSET Good
BY DEF TypeOK, Group

(* It is finite, because the packets are.                                   *)
LEMMA GroupFinite ==
  ASSUME pkts \in Traces, NEW g \in SUBSET SUBSET Good
  PROVE  Cardinality(g) \in Nat
<1>1. IsFiniteSet(Good)
  <2>1. N \in Nat /\ Good \subseteq Index
    BY TraceFacts
  <2>2. IsFiniteSet(0 .. N - 1)
    <3>1. 0 \in Int /\ N - 1 \in Int
      BY <2>1
    <3> QED BY <3>1, FS_Interval, Zenon
  <2> QED BY <2>1, <2>2, FS_Subset DEF Index
<1>2. IsFiniteSet(SUBSET Good)
  BY <1>1, FS_SUBSET
<1> QED BY <1>2, FS_Subset, FS_CardinalityType

-------------------------------------------------------------------------------

LEMMA InitType == Init => TypeOK
<1> SUFFICES ASSUME Init PROVE TypeOK
  OBVIOUS
<1>1. N \in Nat
  BY TraceFacts DEF Init, NotStarted
<1> QED BY <1>1 DEF Init, NotStarted, TypeOK, NoFlow, Family

LEMMA StepType == TypeOK /\ [Next]_vars => TypeOK'
<1> SUFFICES ASSUME TypeOK, [Next]_vars PROVE TypeOK'
  OBVIOUS
<1> pkts' = pkts /\ N' = N /\ Good' = Good
  BY NextKeepsPackets, PacketsFixed
<1>1. ASSUME NEW c \in Cores, ReturnEmpty(c) PROVE TypeOK'
  BY <1>1 DEF TypeOK, ReturnEmpty, checkVars
<1>2. ASSUME NEW c \in Cores, Start(c) PROVE TypeOK'
  <2>1. First(c) \in 0 .. N /\ At(First(c)).ts \in Times \cup {0}
    BY <1>2, RangeFacts, TraceFacts DEF TypeOK, Start, Index, Packet
  <2> QED BY <1>2, <2>1 DEF TypeOK, Start, checkVars
<1>3. ASSUME NEW c \in Cores, StartThrows(c) PROVE TypeOK'
  BY <1>3 DEF TypeOK, StartThrows, scanVars, checkVars
<1>4. ASSUME NEW c \in Cores, SkipBad(c) PROVE TypeOK'
  <2>1. cursor[c] + 1 \in 0 .. N
    BY <1>4, RangeFacts, TraceFacts DEF TypeOK, SkipBad
  <2> QED BY <1>4, <2>1 DEF TypeOK, SkipBad, checkVars
<1>5. ASSUME NEW c \in Cores, ScanPacket(c) PROVE TypeOK'
  <2>1. cursor[c] \in Good /\ cursor[c] + 1 \in 0 .. N /\ Grown(c) \in [Ids -> SUBSET Good]
    BY <1>5, GrownType
  <2>2. At(cursor[c]).ts \in Times
    <3>1. At(cursor[c]) \in Packet /\ At(cursor[c]).id \in Ids
      BY <2>1, TraceFacts DEF TypeOK, Good
    <3> QED BY <3>1, IdAssumption DEF Packet, Ids
  <2>3. table' \in [Cores -> [Ids -> SUBSET Good]]
    BY <1>5, <2>1 DEF TypeOK, ScanPacket, Grown
  <2>4. toAdd' \in [Cores -> SUBSET SUBSET Good]
    BY <1>5, <2>1 DEF TypeOK, ScanPacket, Grown
  <2>5. lastCheck' \in [Cores -> Times \cup {0}] /\ cursor' \in [Cores -> 0 .. N]
    BY <1>5, <2>1, <2>2 DEF TypeOK, ScanPacket
  <2> QED BY <1>5, <2>3, <2>4, <2>5 DEF TypeOK, ScanPacket, checkVars
<1>6. ASSUME NEW c \in Cores, Publish(c) PROVE TypeOK'
  <2>1. Held(c) \in SUBSET SUBSET Good
    BY DEF TypeOK, Held
  <2> QED BY <1>6, <2>1 DEF TypeOK, Publish, NoFlow, checkVars
<1>7. CASE Join
  BY <1>7 DEF TypeOK, Join, scanVars, checkVars
<1>8. ASSUME NEW f \in Family, BeginCheck(f) PROVE TypeOK'
  <2> DEFINE old == FlowsOf(f, result)
             keys == {FlowId(fl) : fl \in old}
  <2>1. old \in SUBSET SUBSET Good /\ keys \in SUBSET Ids
    BY DEF TypeOK, FlowsOf, IdsOf, Ids
  <2>2. work' \in [Family -> [CheckCores -> SUBSET Ids]]
    <3>1. PICK place \in Numbering(keys) :
            work' = [work EXCEPT ![f] = [w \in CheckCores |->
                       {id \in keys : place[id] \in Slice(Cardinality(keys), CheckMultiplex, w)}]]
      BY <1>8 DEF BeginCheck
    <3> HIDE DEF keys
    <3> QED BY <2>1, <3>1 DEF TypeOK
  <2> HIDE DEF keys
  <2>3. temp' \in [Family -> SUBSET SUBSET Good] /\ result' \in SUBSET SUBSET Good
    BY <1>8, <2>1 DEF TypeOK, BeginCheck
  <2> QED BY <1>8, <2>2, <2>3 DEF TypeOK, BeginCheck, scanVars
<1>9. ASSUME NEW f \in Family, NEW w \in CheckCores, CheckWorker(f, w) PROVE TypeOK'
  <2>1. result' \in SUBSET SUBSET Good
    <3>1. PICK order :
            /\ \A id \in work[f][w] : order[id] \in Sorted(Group(f, id))
            /\ result' = result \cup UNION {Merged(order[id]) : id \in work[f][w]}
      BY <1>9 DEF CheckWorker
    <3>2. \A id \in work[f][w] : Merged(order[id]) \in SUBSET SUBSET Good
      BY <3>1, GroupType, MergedType
    <3> QED BY <3>1, <3>2 DEF TypeOK
  <2> QED BY <1>9, <2>1 DEF TypeOK, CheckWorker, scanVars
<1>10. CASE JoinCheck
  BY <1>10 DEF TypeOK, JoinCheck, scanVars, checkVars
<1>11. CASE UNCHANGED vars
  BY <1>11 DEF TypeOK, vars, scanVars, checkVars
<1>12. ASSUME NEW f \in Family, NEW w \in CheckCores, SortUndefined(f, w) PROVE TypeOK'
  BY <1>12 DEF TypeOK, SortUndefined, scanVars, checkVars
<1> QED BY <1>1, <1>2, <1>3, <1>4, <1>5, <1>6, <1>7, <1>8, <1>9, <1>10, <1>11, <1>12
        DEF Next, ScanStep, CheckStep, WorkerStep, Finished

(* Every variable of flow construction keeps its type: a table or a result   *)
(* only ever holds good packets, and a loop variable never leaves the array. *)
THEOREM TypeCorrect == Spec => []TypeOK
<1> QED BY InitType, StepType, PTL DEF Spec

-------------------------------------------------------------------------------
(* The inductive invariant behind Conservation *)

(* A thread's tables hold exactly what it has gone past, each packet once. *)
ThreadInv(c) ==
  /\ pc[c] = "spawned" => cursor[c] = 0
  /\ pc[c] = "scan" => First(c) <= cursor[c] /\ cursor[c] <= Last(c)
  /\ pc[c] = "returned" => cursor[c] = Last(c) \/ (First(c) = Last(c) /\ cursor[c] = 0)
  /\ pc[c] # "scan" => table[c] = NoFlow /\ toAdd[c] = {}
  /\ \A id \in Ids : \A i \in table[c][id] : At(i).id = id /\ i \in Seen(c)
  /\ \A fl \in toAdd[c] : Homogeneous(fl) /\ fl \subseteq Seen(c)
  /\ \A fl \in toAdd[c] : \A id \in Ids : fl \cap table[c][id] = {}
  /\ Disjoint(toAdd[c])
  /\ pc[c] = "scan" => \A i \in Seen(c) : i \in table[c][At(i).id] \/ \E fl \in toAdd[c] : i \in fl

(* The shared result holds the packets of the threads that have returned. *)
ResultInv ==
  /\ \A fl \in result : Homogeneous(fl)
  /\ Disjoint(result)
  /\ phase \in {"scan", "abort"} =>
       /\ \A fl \in result : \A i \in fl : \E c \in Cores : pc[c] = "returned" /\ i \in Seen(c)
       /\ \A c \in Cores : pc[c] = "returned" => \A i \in Seen(c) : \E fl \in result : i \in fl

(* During the double check every good packet is in the new result or waits   *)
(* in a group that exactly one worker has been given.                        *)
CheckInv ==
  /\ phase \in {"scan", "abort"} => checking = {}
  /\ phase \in {"check", "done", "undefined"} =>
       /\ \A c \in Cores : pc[c] = "returned"
       /\ \A i \in Good : \E fl \in result \cup (UNION {Waiting(f) : f \in Family}) : i \in fl
  /\ \A f \in Family : f \notin checking => temp[f] = {} /\ checked[f] = {}
  /\ \A f \in Family : \A fl \in temp[f] : Homogeneous(fl) /\ FlowId(fl) \in IdsOf(f)
  /\ \A f \in Family : Disjoint(temp[f])
  /\ \A f \in Family : \A v, w \in CheckCores : v # w => work[f][v] \cap work[f][w] = {}
  /\ \A a \in result : \A f \in Family : \A b \in Waiting(f) : a \cap b = {}

IInv == TypeOK /\ (\A c \in Cores : ThreadInv(c)) /\ ResultInv /\ CheckInv

-------------------------------------------------------------------------------
(* Lemmas on flows, ranges and merging *)

LEMMA SeenInSlice ==
  ASSUME TypeOK, NEW c \in Cores, ThreadInv(c)
  PROVE  Seen(c) \subseteq Slice(N, Multiplex, c)
<1>1. First(c) \in Nat /\ Last(c) \in Nat /\ cursor[c] \in Nat /\ Good \subseteq Nat
  BY RangeFacts, TraceFacts DEF TypeOK, Index
<1>2. pc[c] # "spawned" => cursor[c] <= Last(c)
  BY <1>1 DEF TypeOK, ThreadInv
<1> SUFFICES ASSUME NEW i \in Seen(c) PROVE i \in Slice(N, Multiplex, c)
  OBVIOUS
<1>3. i \in Good /\ pc[c] # "spawned" /\ First(c) <= i /\ i < cursor[c]
  BY DEF Seen
<1>4. i \in Nat /\ First(c) <= i /\ i < Last(c)
  BY <1>1, <1>2, <1>3
<1> QED BY <1>1, <1>4 DEF Slice, First, Last

(* Two threads read no packet in common.                                    *)
LEMMA SeenDisjoint ==
  ASSUME TypeOK, NEW c \in Cores, NEW d \in Cores, ThreadInv(c), ThreadInv(d), c # d
  PROVE  Seen(c) \cap Seen(d) = {}
<1>1. N \in Nat
  BY TraceFacts DEF TypeOK
<1>2. Slice(N, Multiplex, c) \cap Slice(N, Multiplex, d) = {}
  BY <1>1, SlicesDisjoint, MultiplexAssumption DEF Cores
<1> QED BY <1>2, SeenInSlice

(* When every thread has returned, every good packet has been gone past. *)
LEMMA AllSeen ==
  ASSUME TypeOK, \A c \in Cores : ThreadInv(c) /\ pc[c] = "returned", NEW i \in Good
  PROVE  \E c \in Cores : i \in Seen(c)
<1>1. N \in Nat /\ i \in 0 .. N - 1
  BY TraceFacts DEF TypeOK, Index
<1>2. PICK c \in Cores : i \in Slice(N, Multiplex, c)
  BY <1>1, SlicesCover, MultiplexAssumption DEF Cores
<1>3. i \in Nat /\ First(c) \in Nat /\ Last(c) \in Nat /\ First(c) <= i /\ i < Last(c)
  BY <1>1, <1>2, RangeFacts DEF TypeOK, Slice, First, Last
<1>4. cursor[c] = Last(c)
  BY <1>3 DEF ThreadInv
<1> QED BY <1>3, <1>4 DEF Seen

(* The id of a flow whose packets have one id is the id of each.            *)
LEMMA FlowIdOf ==
  ASSUME NEW fl, Homogeneous(fl), NEW i \in fl
  PROVE  FlowId(fl) = At(i).id
BY DEF Homogeneous, FlowId

(* Uniting runs of consecutive flows regroups the packets of the group. *)
LEMMA MergedPartition ==
  ASSUME NEW g, Disjoint(g), NEW id, \A fl \in g : Homogeneous(fl) /\ FlowId(fl) = id,
         Cardinality(g) \in Nat, NEW o \in Sorted(g)
  PROVE  /\ UNION Merged(o) = UNION g
         /\ Disjoint(Merged(o))
         /\ \A fl \in Merged(o) : Homogeneous(fl) /\ FlowId(fl) = id
<1> DEFINE n == Cardinality(g)
           Cell(i) == UNION {o[j] : j \in Run(o, i)}
<1>1. o \in [1 .. n -> g] /\ (\A x \in g : \E i \in 1 .. n : o[i] = x)
      /\ (\A i, j \in 1 .. n : i # j => o[i] # o[j])
  BY DEF Sorted, Bijection, Injection, Surjection, IsInjective
<1> DOMAIN o = 1 .. n
  BY <1>1
<1> HIDE DEF n
<1> n \in Nat
  BY DEF n
<1>2. \A i \in 1 .. n : i \in Run(o, i) /\ Run(o, i) \subseteq 1 .. n
  BY DEF Run
<1>3. ASSUME NEW i \in 1 .. n, NEW j \in 1 .. n, NEW k \in Run(o, i), k \in Run(o, j)
      PROVE  Run(o, i) \subseteq Run(o, j)
  <2> SUFFICES ASSUME NEW l \in Run(o, i), NEW c \in 1 .. n,
                      (j < c /\ c <= l) \/ (l < c /\ c <= j)
               PROVE  ~Cut(o, c)
    BY <1>2 DEF Run
  <2>1. k \in 1 .. n /\ l \in 1 .. n
    BY <1>2
  <2>2. (j < c /\ c <= k) \/ (k < c /\ c <= j) => ~Cut(o, c)
    BY <1>3 DEF Run
  <2>3. (i < c /\ c <= k) \/ (k < c /\ c <= i) => ~Cut(o, c)
    BY <1>3 DEF Run
  <2>4. (i < c /\ c <= l) \/ (l < c /\ c <= i) => ~Cut(o, c)
    BY DEF Run
  <2> QED BY <2>1, <2>2, <2>3, <2>4
<1>4. Merged(o) = {Cell(i) : i \in 1 .. n}
  BY DEF Merged
<1>5. UNION Merged(o) = UNION g
  <2>1. ASSUME NEW x \in UNION g PROVE x \in UNION Merged(o)
    <3>1. PICK i \in 1 .. n : x \in o[i]
      BY <1>1
    <3> QED BY <1>2, <1>4, <3>1
  <2>2. ASSUME NEW x \in UNION Merged(o) PROVE x \in UNION g
    <3>1. PICK i \in 1 .. n : x \in Cell(i)
      BY <1>4
    <3>2. PICK j \in 1 .. n : x \in o[j]
      BY <1>2, <3>1
    <3> QED BY <1>1, <3>2
  <2> QED BY <2>1, <2>2
<1>6. Disjoint(Merged(o))
  <2> SUFFICES ASSUME NEW a \in Merged(o), NEW b \in Merged(o), NEW x \in a, x \in b
               PROVE  a = b
    BY DEF Disjoint
  <2>4. PICK i \in 1 .. n, j \in 1 .. n : a = Cell(i) /\ b = Cell(j)
    BY <1>4
  <2>1. PICK k \in Run(o, i), l \in Run(o, j) : x \in o[k] /\ x \in o[l]
    BY <2>4
  <2>2. k = l
    BY <1>1, <1>2, <2>1 DEF Disjoint
  <2>3. Run(o, i) = Run(o, j)
    <3>1. Run(o, i) \subseteq Run(o, j)
      BY <1>3, <2>1, <2>2
    <3>2. Run(o, j) \subseteq Run(o, i)
      BY <1>3, <2>1, <2>2
    <3> QED BY <3>1, <3>2
  <2> QED BY <2>3, <2>4
<1>7. ASSUME NEW i \in 1 .. n PROVE Homogeneous(Cell(i)) /\ FlowId(Cell(i)) = id
  <2>1. \A j \in Run(o, i) : o[j] \in g
    BY <1>1, <1>2
  <2>2. \A x \in Cell(i) : At(x).id = id
    BY <2>1, FlowIdOf
  <2>3. \E x : x \in Cell(i)
    BY <1>2, <2>1 DEF Homogeneous
  <2>4. Homogeneous(Cell(i))
    BY <2>2, <2>3 DEF Homogeneous
  <2> QED BY <2>2, <2>3, <2>4, FlowIdOf
<1> QED BY <1>4, <1>5, <1>6, <1>7

-------------------------------------------------------------------------------
(* Preservation of the inductive invariant *)

LEMMA ShapeFixed ==
  ASSUME pkts' = pkts
  PROVE  /\ \A fl : Homogeneous(fl)' = Homogeneous(fl)
         /\ \A flows : Disjoint(flows)' = Disjoint(flows)
BY PacketsFixed DEF Homogeneous, Disjoint

LEMMA SeenPrimed ==
  ASSUME pkts' = pkts, NEW c \in Cores
  PROVE  Seen(c)' = {i \in Good : pc'[c] # "spawned" /\ First(c) <= i /\ i < cursor'[c]}
BY PacketsFixed DEF Seen

(* An empty stretch of indices. *)
LEMMA NothingSeen ==
  ASSUME pkts \in Traces, NEW a \in Nat, NEW b \in Nat, b <= a, NEW P
  PROVE  {i \in Good : P /\ a <= i /\ i < b} = {}
<1>1. \A i \in Good : i \in Nat
  BY TraceFacts DEF Index
<1>2. \A i \in Good : ~(a <= i /\ i < b)
  BY <1>1
<1> QED BY <1>2

(* A thread that does not move keeps its part of the invariant. *)
LEMMA ThreadFrame ==
  ASSUME pkts' = pkts, NEW c \in Cores, ThreadInv(c),
         pc'[c] = pc[c], cursor'[c] = cursor[c], table'[c] = table[c], toAdd'[c] = toAdd[c]
  PROVE  ThreadInv(c)' /\ Seen(c)' = Seen(c)
<1>1. Seen(c)' = Seen(c)
  BY PacketsFixed DEF Seen
<1> QED BY <1>1, PacketsFixed, ShapeFixed DEF ThreadInv, NoFlow

(* Steps of the scanning threads leave the double check untouched. *)
LEMMA CheckFrame ==
  ASSUME CheckInv, phase = "scan", phase' \in {"scan", "abort"}, UNCHANGED <<pkts, checkVars>>
  PROVE  CheckInv'
<1>1. \A f \in Family : temp'[f] = {} /\ checked'[f] = {} /\ Waiting(f)' = {}
  BY DEF CheckInv, checkVars, Waiting
<1> QED BY <1>1 DEF CheckInv, checkVars

LEMMA InitInv == Init => IInv
<1> SUFFICES ASSUME Init PROVE IInv
  OBVIOUS
<1>1. TypeOK
  BY InitType
<1>2. ASSUME NEW c \in Cores PROVE ThreadInv(c)
  BY <1>2 DEF Init, NotStarted, ThreadInv, NoFlow, Disjoint
<1>3. ResultInv
  BY DEF Init, NotStarted, ResultInv, Disjoint
<1>4. CheckInv
  BY DEF Init, NotStarted, CheckInv, Disjoint, Waiting, Family
<1> QED BY <1>1, <1>2, <1>3, <1>4 DEF IInv

LEMMA ReturnEmptyInv ==
  ASSUME IInv, NEW c \in Cores, ReturnEmpty(c), TypeOK'
  PROVE  IInv'
<1> USE DEF IInv
<1> pkts' = pkts /\ phase = "scan" /\ phase' = "scan" /\ result' = result
  BY DEF ReturnEmpty
<1>1. ASSUME NEW d \in Cores, d # c PROVE ThreadInv(d)' /\ Seen(d)' = Seen(d) /\ pc'[d] = pc[d]
  BY <1>1, ThreadFrame DEF ReturnEmpty, TypeOK
<1>2. Seen(c) = {} /\ Seen(c)' = {} /\ pc'[c] = "returned"
  <2>1. cursor[c] = 0 /\ cursor'[c] = 0 /\ First(c) \in Nat /\ Good \subseteq Nat
    BY RangeFacts, TraceFacts DEF ReturnEmpty, ThreadInv, TypeOK, Index
  <2>2. Seen(c) = {} /\ Seen(c)' = {}
    BY <2>1, SeenPrimed, NothingSeen DEF Seen, TypeOK
  <2> QED BY <2>2 DEF ReturnEmpty, TypeOK
<1>3. ThreadInv(c)'
  <2>1. table[c] = NoFlow /\ toAdd[c] = {} /\ cursor[c] = 0 /\ First(c) = Last(c)
    BY DEF ThreadInv, ReturnEmpty
  <2> QED BY <1>2, <2>1, PacketsFixed DEF ThreadInv, ReturnEmpty, NoFlow, Disjoint
<1>4. ResultInv'
  <2>1. \A d \in Cores : Seen(d)' = Seen(d) /\ (pc[d] = "returned" => pc'[d] = "returned")
    BY <1>1, <1>2 DEF ReturnEmpty
  <2>2. \A d \in Cores : \A i \in Seen(d) : pc'[d] = "returned" => pc[d] = "returned"
    BY <1>1, <1>2
  <2> QED BY <2>1, <2>2, ShapeFixed DEF ResultInv
<1>5. CheckInv'
  BY CheckFrame DEF ReturnEmpty
<1> QED BY <1>1, <1>3, <1>4, <1>5

LEMMA StartInv ==
  ASSUME IInv, NEW c \in Cores, Start(c), TypeOK'
  PROVE  IInv'
<1> USE DEF IInv
<1> pkts' = pkts /\ phase = "scan" /\ phase' = "scan" /\ result' = result
  BY DEF Start
<1>1. ASSUME NEW d \in Cores, d # c PROVE ThreadInv(d)' /\ Seen(d)' = Seen(d) /\ pc'[d] = pc[d]
  BY <1>1, ThreadFrame DEF Start, TypeOK
<1>2. Seen(c)' = {} /\ Seen(c) = {} /\ pc'[c] = "scan" /\ cursor'[c] = First(c) /\ pc[c] = "spawned"
  <2>1. First(c) \in Nat /\ Good \subseteq Nat
    BY RangeFacts, TraceFacts DEF TypeOK, Index
  <2>2. pc'[c] = "scan" /\ cursor'[c] = First(c) /\ pc[c] = "spawned"
    BY DEF Start, TypeOK
  <2>3. Seen(c) = {}
    BY <2>2 DEF Seen
  <2>4. Seen(c)' = {}
    BY <2>1, <2>2, SeenPrimed, NothingSeen DEF TypeOK
  <2> QED BY <2>2, <2>3, <2>4
<1>3. ThreadInv(c)'
  <2>1. table[c] = NoFlow /\ toAdd[c] = {}
    BY DEF ThreadInv, Start
  <2>2. First(c) <= Last(c)
    <3>1. N \in Nat /\ PartSize(N, Multiplex) \in Nat /\ From(N, Multiplex, c) \in Nat
      BY TraceFacts, PartSizeBound, MultiplexAssumption, SliceInside DEF TypeOK, Cores
    <3> QED BY <3>1 DEF First, Last, To, Least, Start
  <2>3. First(c) \in Nat
    BY RangeFacts DEF TypeOK
  <2> QED BY <1>2, <2>1, <2>2, <2>3, PacketsFixed DEF ThreadInv, Start, NoFlow, Disjoint
<1>4. ResultInv'
  <2>1. \A d \in Cores : (pc'[d] = "returned" <=> pc[d] = "returned")
                         /\ Seen(d)' = Seen(d)
    BY <1>1, <1>2
  <2> QED BY <2>1, ShapeFixed DEF ResultInv
<1>5. CheckInv'
  BY CheckFrame DEF Start
<1> QED BY <1>1, <1>3, <1>4, <1>5

LEMMA StartThrowsInv ==
  ASSUME IInv, NEW c \in Cores, StartThrows(c), TypeOK'
  PROVE  IInv'
<1> USE DEF IInv
<1>1. ASSUME NEW d \in Cores PROVE ThreadInv(d)' /\ Seen(d)' = Seen(d)
  BY <1>1, ThreadFrame DEF StartThrows, scanVars
<1>2. ResultInv'
  BY <1>1, ShapeFixed DEF ResultInv, StartThrows, scanVars
<1>3. CheckInv'
  BY CheckFrame DEF StartThrows
<1> QED BY <1>1, <1>2, <1>3

(* What going past packet i adds to the seen packets of a thread. *)
LEMMA SeenAdvances ==
  ASSUME IInv, NEW c \in Cores, pkts' = pkts, pc[c] = "scan", pc'[c] = "scan",
         cursor'[c] = cursor[c] + 1, cursor[c] < Last(c)
  PROVE  Seen(c)' = Seen(c) \cup (Good \cap {cursor[c]})
<1> USE DEF IInv
<1>1. First(c) \in Nat /\ cursor[c] \in Nat /\ First(c) <= cursor[c]
  BY RangeFacts DEF TypeOK, ThreadInv
<1>2. \A i \in Good : i \in Nat
  BY TraceFacts DEF TypeOK, Index
<1>3. ASSUME NEW i \in Good
      PROVE  First(c) <= i /\ i < cursor[c] + 1
             <=> (First(c) <= i /\ i < cursor[c]) \/ i = cursor[c]
  BY <1>1, <1>2
<1> QED BY <1>3, SeenPrimed DEF Seen

LEMMA SkipBadInv ==
  ASSUME IInv, NEW c \in Cores, SkipBad(c), TypeOK'
  PROVE  IInv'
<1> USE DEF IInv
<1> pkts' = pkts /\ phase = "scan" /\ phase' = "scan" /\ result' = result /\ pc' = pc
    /\ pc[c] = "scan" /\ cursor'[c] = cursor[c] + 1 /\ cursor[c] < Last(c)
  BY DEF SkipBad, TypeOK
<1>1. ASSUME NEW d \in Cores, d # c PROVE ThreadInv(d)' /\ Seen(d)' = Seen(d)
  BY <1>1, ThreadFrame DEF SkipBad, TypeOK
<1>2. Seen(c)' = Seen(c)
  <2>1. cursor[c] \notin Good
    BY IdAssumption DEF SkipBad, Good, Ids
  <2> QED BY <2>1, SeenAdvances
<1>3. ThreadInv(c)'
  <2>1. First(c) <= cursor'[c] /\ cursor'[c] <= Last(c)
    BY RangeFacts DEF TypeOK, ThreadInv
  <2> QED BY <1>2, <2>1, PacketsFixed, ShapeFixed DEF ThreadInv, SkipBad
<1>4. ResultInv'
  BY <1>1, <1>2, ShapeFixed DEF ResultInv
<1>5. CheckInv'
  BY CheckFrame DEF SkipBad
<1> QED BY <1>1, <1>3, <1>4, <1>5

LEMMA ScanPacketInv ==
  ASSUME IInv, NEW c \in Cores, ScanPacket(c), TypeOK'
  PROVE  IInv'
<1> USE DEF IInv
<1> DEFINE i == cursor[c]
           now == At(i).ts
           evicted == {id \in Ids : /\ CheckDue(c, now)
                                    /\ Grown(c)[id] # {}
                                    /\ Idle(Grown(c)[id], now)}
<1> pkts' = pkts /\ phase = "scan" /\ phase' = "scan" /\ result' = result /\ pc' = pc
    /\ pc[c] = "scan" /\ cursor'[c] = i + 1 /\ i < Last(c)
  BY DEF ScanPacket, TypeOK
<1>1. ASSUME NEW d \in Cores, d # c PROVE ThreadInv(d)' /\ Seen(d)' = Seen(d)
  BY <1>1, ThreadFrame DEF ScanPacket, TypeOK
<1>2. i \in Good /\ i \in Nat /\ i \notin Seen(c) /\ Seen(c)' = Seen(c) \cup {i}
  <2>1. i \in Good
    BY GrownType
  <2>2. i \notin Seen(c) /\ i \in Nat
    BY DEF Seen, TypeOK
  <2> QED BY <2>1, <2>2, SeenAdvances
<1>3. /\ Grown(c) \in [Ids -> SUBSET Good]
      /\ table'[c] = [id \in Ids |-> IF id \in evicted THEN {} ELSE Grown(c)[id]]
      /\ toAdd'[c] = toAdd[c] \cup {Grown(c)[id] : id \in evicted}
      /\ evicted \subseteq Ids
  BY GrownType DEF ScanPacket, Grown, TypeOK
<1>4. \A id \in Ids : Grown(c)[id] = table[c][id] \cup (IF id = At(i).id THEN {i} ELSE {})
  BY <1>3 DEF Grown, ScanPacket, TypeOK
<1>5. \A id \in evicted : Grown(c)[id] # {}
  OBVIOUS
<1> HIDE DEF evicted
<1>6. \A id \in Ids : \A j \in Grown(c)[id] : At(j).id = id /\ j \in Seen(c)'
  BY <1>2, <1>4 DEF ThreadInv
<1>7. \A fl \in toAdd[c] : \A id \in Ids : fl \cap Grown(c)[id] = {}
  BY <1>2, <1>4 DEF ThreadInv
<1>8. \A fl \in toAdd'[c] : Homogeneous(fl) /\ fl \subseteq Seen(c)'
  <2>1. \A id \in evicted : Homogeneous(Grown(c)[id]) /\ Grown(c)[id] \subseteq Seen(c)'
    BY <1>3, <1>5, <1>6 DEF Homogeneous
  <2>2. \A fl \in toAdd[c] : Homogeneous(fl) /\ fl \subseteq Seen(c)'
    BY <1>2 DEF ThreadInv
  <2> QED BY <1>3, <2>1, <2>2
<1>9. \A fl \in toAdd'[c] : \A id \in Ids : fl \cap table'[c][id] = {}
  <2>1. ASSUME NEW id \in Ids, NEW fl \in toAdd[c] PROVE fl \cap table'[c][id] = {}
    BY <1>3, <1>7, <2>1
  <2>2. ASSUME NEW id \in Ids, NEW k \in evicted PROVE Grown(c)[k] \cap table'[c][id] = {}
    BY <1>3, <1>6, <2>2
  <2> QED BY <1>3, <2>1, <2>2
<1>10. Disjoint(toAdd'[c])
  <2>1. ASSUME NEW k \in evicted, NEW l \in evicted, k # l
        PROVE  Grown(c)[k] \cap Grown(c)[l] = {}
    BY <1>3, <1>6, <2>1
  <2>2. ASSUME NEW k \in evicted, NEW fl \in toAdd[c] PROVE fl \cap Grown(c)[k] = {}
    BY <1>3, <1>7, <2>2
  <2>3. Disjoint(toAdd[c])
    BY DEF ThreadInv
  <2> QED BY <1>3, <2>1, <2>2, <2>3 DEF Disjoint
<1>11. ASSUME NEW j \in Seen(c)'
       PROVE  j \in table'[c][At(j).id] \/ \E fl \in toAdd'[c] : j \in fl
  <2>1. At(j).id \in Ids
    BY <1>2, <1>11 DEF Seen, Good
  <2>2. j \in Grown(c)[At(j).id] \/ \E fl \in toAdd[c] : j \in fl
    BY <1>2, <1>4, <1>11, <2>1 DEF ThreadInv
  <2> QED BY <1>3, <2>1, <2>2
<1>12. ThreadInv(c)'
  <2>1. First(c) <= cursor'[c] /\ cursor'[c] <= Last(c)
    BY RangeFacts DEF TypeOK, ThreadInv
  <2>2. \A id \in Ids : \A j \in table'[c][id] : At(j).id = id /\ j \in Seen(c)'
    BY <1>3, <1>6
  <2> QED BY <1>8, <1>9, <1>10, <1>11, <2>1, <2>2, PacketsFixed, ShapeFixed DEF ThreadInv
<1>13. ResultInv'
  <2>1. \A d \in Cores : pc[d] = "returned" => Seen(d)' = Seen(d)
    BY <1>1
  <2> QED BY <2>1, ShapeFixed DEF ResultInv
<1>14. CheckInv'
  BY CheckFrame DEF ScanPacket
<1> QED BY <1>1, <1>12, <1>13, <1>14

(* What a thread holds, flow by flow. *)
LEMMA HeldFacts ==
  ASSUME TypeOK, NEW c \in Cores, ThreadInv(c)
  PROVE  /\ \A fl \in Held(c) : Homogeneous(fl) /\ fl \subseteq Seen(c)
         /\ Disjoint(Held(c))
         /\ pc[c] = "scan" => \A i \in Seen(c) : \E fl \in Held(c) : i \in fl
         /\ pc[c] # "scan" => Held(c) = {}
<1>1. \A id \in Ids : table[c][id] # {} =>
        Homogeneous(table[c][id]) /\ table[c][id] \subseteq Seen(c)
  BY DEF ThreadInv, Homogeneous
<1>2. \A fl \in Held(c) : Homogeneous(fl) /\ fl \subseteq Seen(c)
  BY <1>1 DEF Held, ThreadInv
<1>3. \A k, l \in Ids : k # l => table[c][k] \cap table[c][l] = {}
  BY DEF ThreadInv
<1>4. Disjoint(Held(c))
  <2>1. Disjoint(toAdd[c]) /\ \A fl \in toAdd[c] : \A id \in Ids : fl \cap table[c][id] = {}
    BY DEF ThreadInv
  <2> QED BY <1>3, <2>1 DEF Held, Disjoint
<1>5. pc[c] = "scan" => \A i \in Seen(c) : \E fl \in Held(c) : i \in fl
  <2> SUFFICES ASSUME pc[c] = "scan", NEW i \in Seen(c) PROVE \E fl \in Held(c) : i \in fl
    OBVIOUS
  <2>1. At(i).id \in Ids
    BY DEF Seen, Good
  <2>2. i \in table[c][At(i).id] \/ \E fl \in toAdd[c] : i \in fl
    BY DEF ThreadInv
  <2> QED BY <2>1, <2>2 DEF Held
<1>6. pc[c] # "scan" => Held(c) = {}
  BY DEF Held, ThreadInv, NoFlow
<1> QED BY <1>2, <1>4, <1>5, <1>6

LEMMA PublishInv ==
  ASSUME IInv, NEW c \in Cores, Publish(c), TypeOK'
  PROVE  IInv'
<1> USE DEF IInv
<1> pkts' = pkts /\ phase = "scan" /\ phase' = "scan" /\ result' = result \cup Held(c)
    /\ pc[c] = "scan" /\ pc'[c] = "returned" /\ cursor' = cursor
  BY DEF Publish, TypeOK
<1>1. ASSUME NEW d \in Cores, d # c PROVE ThreadInv(d)' /\ Seen(d)' = Seen(d) /\ pc'[d] = pc[d]
  BY <1>1, ThreadFrame DEF Publish, TypeOK
<1>2. Seen(c)' = Seen(c)
  BY SeenPrimed DEF Seen
<1>3. ThreadInv(c)'
  <2>1. cursor[c] = Last(c)
    <3>1. cursor[c] <= Last(c)
      BY DEF ThreadInv
    <3>2. cursor[c] \in Nat /\ Last(c) \in Nat
      BY RangeFacts DEF TypeOK
    <3>3. cursor[c] >= Last(c)
      BY DEF Publish
    <3> QED BY <3>1, <3>2, <3>3
  <2>2. table'[c] = NoFlow /\ toAdd'[c] = {}
    BY DEF Publish, TypeOK
  <2> QED BY <2>1, <2>2, PacketsFixed DEF ThreadInv, NoFlow, Disjoint
<1>4. ASSUME NEW a \in result, NEW b \in Held(c) PROVE a \cap b = {}
  <2>1. ASSUME NEW i \in a, i \in b PROVE FALSE
    <3>1. PICK d \in Cores : pc[d] = "returned" /\ i \in Seen(d)
      BY <2>1 DEF ResultInv
    <3>2. i \in Seen(c)
      BY <2>1, HeldFacts
    <3> QED BY <3>1, <3>2, SeenDisjoint
  <2> QED BY <2>1
<1>5. ResultInv'
  <2>1. \A fl \in result' : Homogeneous(fl)'
    BY HeldFacts, ShapeFixed DEF ResultInv
  <2>2. Disjoint(result)'
    BY <1>4, HeldFacts DEF ResultInv, Disjoint
  <2>3. ASSUME NEW fl \in result', NEW i \in fl
        PROVE  \E d \in Cores : pc'[d] = "returned" /\ i \in Seen(d)'
    <3>1. CASE fl \in result
      BY <1>1, <3>1 DEF ResultInv
    <3>2. CASE fl \in Held(c)
      BY <1>2, <3>2, HeldFacts
    <3> QED BY <3>1, <3>2
  <2>4. ASSUME NEW d \in Cores, pc'[d] = "returned", NEW i \in Seen(d)'
        PROVE  \E fl \in result' : i \in fl
    <3>1. CASE d = c
      BY <1>2, <2>4, <3>1, HeldFacts
    <3>2. CASE d # c
      BY <1>1, <2>4, <3>2 DEF ResultInv
    <3> QED BY <3>1, <3>2
  <2> QED BY <2>1, <2>2, <2>3, <2>4 DEF ResultInv
<1>6. CheckInv'
  BY CheckFrame DEF Publish
<1> QED BY <1>1, <1>3, <1>5, <1>6

LEMMA JoinInv ==
  ASSUME IInv, Join, TypeOK'
  PROVE  IInv'
<1> USE DEF IInv
<1>1. ASSUME NEW d \in Cores PROVE ThreadInv(d)' /\ Seen(d)' = Seen(d)
  BY <1>1, ThreadFrame DEF Join, scanVars
<1>2. ResultInv'
  BY ShapeFixed DEF ResultInv, Join
<1>3. CheckInv'
  <2>1. ASSUME NEW i \in Good PROVE \E fl \in result : i \in fl
    BY AllSeen DEF Join, ResultInv
  <2>2. \A f \in Family : temp'[f] = {} /\ checked'[f] = {} /\ Waiting(f)' = {}
    BY DEF CheckInv, Join, checkVars, Waiting
  <2> QED BY <2>1, <2>2, PacketsFixed DEF CheckInv, Join, checkVars, scanVars
<1> QED BY <1>1, <1>2, <1>3

(* The two families share no 5-tuple. *)
LEMMA FamiliesDisjoint ==
  \A f, h \in Family : f # h => IdsOf(f) \cap IdsOf(h) = {}
BY IdAssumption DEF Family, IdsOf

LEMMA BeginCheckInv ==
  ASSUME IInv, NEW f \in Family, BeginCheck(f), TypeOK'
  PROVE  IInv'
<1> USE DEF IInv
<1> DEFINE old == FlowsOf(f, result)
           keys == {FlowId(fl) : fl \in old}
           n == Cardinality(keys)
<1> pkts' = pkts /\ phase = "check" /\ phase' = "check" /\ result' = result \ old
    /\ f \notin checking /\ checking' = checking \cup {f} /\ checked' = checked
    /\ pc' = pc
  BY DEF BeginCheck, scanVars
<1>1. ASSUME NEW d \in Cores PROVE ThreadInv(d)'
  BY <1>1, ThreadFrame DEF BeginCheck, scanVars
<1>2. ResultInv'
  BY ShapeFixed DEF ResultInv, Disjoint
<1>3. temp'[f] = old /\ checked'[f] = {} /\ Waiting(f) = {}
      /\ \A h \in Family : h # f => temp'[h] = temp[h] /\ work'[h] = work[h]
  BY DEF BeginCheck, CheckInv, TypeOK, Waiting
<1>4. n \in Nat
  <2>1. keys \subseteq Id4 \cup Id6
    BY DEF FlowsOf, IdsOf
  <2> HIDE DEF keys
  <2> QED BY <2>1, IdAssumption, FS_Subset, FS_CardinalityType
<1>5. PICK place \in Numbering(keys) :
        work'[f] = [w \in CheckCores |-> {id \in keys : place[id] \in Slice(n, CheckMultiplex, w)}]
  BY DEF BeginCheck, TypeOK
<1>6. \A id \in keys : place[id] \in 0 .. n - 1
  BY DEF Numbering
<1>7. \A id \in keys : \E w \in CheckCores : id \in work'[f][w]
  <2> SUFFICES ASSUME NEW id \in keys PROVE \E w \in CheckCores : id \in work'[f][w]
    OBVIOUS
  <2>1. PICK w \in CheckCores : place[id] \in Slice(n, CheckMultiplex, w)
    BY <1>4, <1>6, SlicesCover, MultiplexAssumption DEF CheckCores
  <2> QED BY <1>5, <2>1
<1>8. \A v, w \in CheckCores : v # w => work'[f][v] \cap work'[f][w] = {}
  <2> SUFFICES ASSUME NEW v \in CheckCores, NEW w \in CheckCores, v # w
               PROVE  work'[f][v] \cap work'[f][w] = {}
    OBVIOUS
  <2>1. Slice(n, CheckMultiplex, v) \cap Slice(n, CheckMultiplex, w) = {}
    BY <1>4, SlicesDisjoint, MultiplexAssumption DEF CheckCores
  <2> QED BY <1>5, <2>1
<1>9. Waiting(f)' = old
  <2>1. \A fl \in old : FlowId(fl) \in keys
    OBVIOUS
  <2> HIDE DEF keys
  <2> QED BY <1>3, <1>7, <2>1, PacketsFixed DEF Waiting
<1>10. \A h \in Family : h # f => Waiting(h)' = Waiting(h)
  BY <1>3, PacketsFixed DEF Waiting
<1> HIDE DEF keys, n
<1>11. CheckInv'
  <2>1. ASSUME NEW i \in Good
        PROVE  \E fl \in result' \cup (UNION {Waiting(h)' : h \in Family}) : i \in fl
    <3>1. PICK fl \in result \cup (UNION {Waiting(h) : h \in Family}) : i \in fl
      BY DEF CheckInv
    <3>2. CASE fl \in result
      BY <1>9, <3>1, <3>2
    <3>3. CASE fl \in (UNION {Waiting(h) : h \in Family})
      BY <1>3, <1>10, <3>1, <3>3
    <3> QED BY <3>1, <3>2, <3>3
  <2>2. \A h \in Family : h \notin checking' => temp'[h] = {} /\ checked'[h] = {}
    BY <1>3 DEF CheckInv
  <2>3. \A h \in Family : \A fl \in temp'[h] : Homogeneous(fl) /\ FlowId(fl) \in IdsOf(h)
    BY <1>3 DEF CheckInv, ResultInv, FlowsOf
  <2>4. \A h \in Family : Disjoint(temp'[h])
    BY <1>3 DEF CheckInv, ResultInv, FlowsOf, Disjoint
  <2>5. \A h \in Family : \A v, w \in CheckCores : v # w => work'[h][v] \cap work'[h][w] = {}
    BY <1>3, <1>8 DEF CheckInv
  <2>6. ASSUME NEW a \in result', NEW h \in Family, NEW b \in Waiting(h)' PROVE a \cap b = {}
    <3>1. CASE h = f
      <4>1. a \in result /\ a \notin old /\ b \in old
        BY <1>9, <2>6, <3>1
      <4>2. b \in result
        BY <4>1 DEF FlowsOf
      <4> QED BY <4>1, <4>2 DEF ResultInv, Disjoint
    <3>2. CASE h # f
      BY <1>10, <3>2, <2>6 DEF CheckInv
    <3> QED BY <3>1, <3>2
  <2>7. \A c \in Cores : pc'[c] = "returned"
    BY DEF CheckInv
  <2> QED BY <2>1, <2>2, <2>3, <2>4, <2>5, <2>6, <2>7, PacketsFixed, ShapeFixed
          DEF CheckInv, IdsOf
<1> QED BY <1>1, <1>2, <1>11

LEMMA CheckWorkerInv ==
  ASSUME IInv, NEW f \in Family, NEW w \in CheckCores, CheckWorker(f, w), TypeOK'
  PROVE  IInv'
<1> USE DEF IInv
<1> pkts' = pkts /\ phase = "check" /\ phase' = "check" /\ f \in checking /\ checking' = checking
    /\ w \notin checked[f] /\ temp' = temp /\ work' = work /\ pc' = pc
  BY DEF CheckWorker, scanVars
<1>1. ASSUME NEW d \in Cores PROVE ThreadInv(d)'
  BY <1>1, ThreadFrame DEF CheckWorker, scanVars
<1>2. PICK order :
        /\ \A id \in work[f][w] : order[id] \in Sorted(Group(f, id))
        /\ result' = result \cup UNION {Merged(order[id]) : id \in work[f][w]}
  BY DEF CheckWorker
<1> DEFINE mine == {fl \in temp[f] : FlowId(fl) \in work[f][w]}
           merged == UNION {Merged(order[id]) : id \in work[f][w]}
<1>3. ASSUME NEW id \in work[f][w]
      PROVE  /\ UNION Merged(order[id]) = UNION Group(f, id)
             /\ Disjoint(Merged(order[id]))
             /\ \A fl \in Merged(order[id]) : Homogeneous(fl) /\ FlowId(fl) = id
  <2>1. Disjoint(Group(f, id)) /\ \A fl \in Group(f, id) : Homogeneous(fl) /\ FlowId(fl) = id
    BY DEF CheckInv, Group, Disjoint
  <2>2. Cardinality(Group(f, id)) \in Nat
    <3>1. pkts \in Traces
      BY DEF TypeOK
    <3>2. Group(f, id) \in SUBSET SUBSET Good
      BY GroupType
    <3> QED BY <3>1, <3>2, GroupFinite
  <2> QED BY <1>2, <2>1, <2>2, MergedPartition
<1>4. \A fl \in merged : Homogeneous(fl)
  BY <1>3
<1>5. \A i : (\E fl \in merged : i \in fl) <=> (\E fl \in mine : i \in fl)
  <2>1. ASSUME NEW i, NEW fl \in merged, i \in fl PROVE \E g \in mine : i \in g
    <3>1. PICK id \in work[f][w] : fl \in Merged(order[id])
      OBVIOUS
    <3>2. i \in UNION Group(f, id)
      BY <1>3, <2>1, <3>1
    <3> QED BY <3>1, <3>2 DEF Group
  <2>2. ASSUME NEW i, NEW fl \in mine, i \in fl PROVE \E g \in merged : i \in g
    <3>1. i \in UNION Group(f, FlowId(fl)) /\ FlowId(fl) \in work[f][w]
      BY <2>2 DEF Group
    <3>2. i \in UNION Merged(order[FlowId(fl)])
      BY <1>3, <3>1
    <3> QED BY <3>1, <3>2
  <2> QED BY <2>1, <2>2
<1>6. Disjoint(merged)
  <2> SUFFICES ASSUME NEW a \in merged, NEW b \in merged, NEW x \in a, x \in b
               PROVE  a = b
    BY DEF Disjoint
  <2>1. PICK k \in work[f][w], l \in work[f][w] : a \in Merged(order[k]) /\ b \in Merged(order[l])
    OBVIOUS
  <2>2. k = l
    <3>1. Homogeneous(a) /\ FlowId(a) = k /\ Homogeneous(b) /\ FlowId(b) = l
      BY <1>3, <2>1
    <3> QED BY <3>1, FlowIdOf
  <2> QED BY <1>3, <2>1, <2>2 DEF Disjoint
<1> result' = result \cup merged
  BY <1>2
<1>7. mine \subseteq Waiting(f)
  BY DEF Waiting
<1>8. Waiting(f)' = Waiting(f) \ mine
  <2>1. checked'[f] = checked[f] \cup {w}
    BY DEF CheckWorker, TypeOK
  <2>2. \A v \in CheckCores : v # w => work[f][v] \cap work[f][w] = {}
    BY DEF CheckInv
  <2>3. Waiting(f)' = {fl \in temp[f] : \E v \in CheckCores \ (checked[f] \cup {w}) :
                                          FlowId(fl) \in work[f][v]}
    BY <2>1, PacketsFixed DEF Waiting
  <2>4. ASSUME NEW fl \in temp[f]
        PROVE  (\E v \in CheckCores \ (checked[f] \cup {w}) : FlowId(fl) \in work[f][v])
               <=> /\ \E v \in CheckCores \ checked[f] : FlowId(fl) \in work[f][v]
                   /\ FlowId(fl) \notin work[f][w]
    BY <2>2
  <2> QED BY <2>3, <2>4 DEF Waiting
<1>9. \A h \in Family : h # f => Waiting(h)' = Waiting(h)
  BY PacketsFixed DEF Waiting, CheckWorker, TypeOK
<1> HIDE DEF merged, mine
<1>10. ASSUME NEW h \in Family, NEW a \in Waiting(f), NEW b \in Waiting(h), a # b
       PROVE  a \cap b = {}
  <2>1. a \in temp[f] /\ b \in temp[h]
    BY <1>10 DEF Waiting
  <2>2. CASE h = f
    BY <1>10, <2>1, <2>2 DEF CheckInv, Disjoint
  <2>3. CASE h # f
    <3>1. FlowId(a) # FlowId(b) /\ Homogeneous(a) /\ Homogeneous(b)
      BY <2>1, <2>3, FamiliesDisjoint DEF CheckInv
    <3> QED BY <3>1, FlowIdOf
  <2> QED BY <2>2, <2>3
<1>11. ASSUME NEW a \in merged, NEW h \in Family, NEW b \in Waiting(h)' PROVE a \cap b = {}
  <2> SUFFICES ASSUME NEW i \in a, i \in b PROVE FALSE
    OBVIOUS
  <2>1. PICK g \in mine : i \in g
    BY <1>5
  <2>2. b \in Waiting(h) /\ g \in Waiting(f)
    BY <1>7, <1>8, <1>9, <1>11
  <2>3. g # b
    <3>1. CASE h = f
      BY <1>8, <1>11, <3>1
    <3>2. CASE h # f
      <4>1. g \in temp[f] /\ b \in temp[h]
        BY <2>2 DEF Waiting
      <4> QED BY <3>2, <4>1, FamiliesDisjoint DEF CheckInv
    <3> QED BY <3>1, <3>2
  <2> QED BY <1>10, <2>1, <2>2, <2>3
<1>12. ASSUME NEW a \in result, NEW b \in merged PROVE a \cap b = {}
  <2> SUFFICES ASSUME NEW i \in a, i \in b PROVE FALSE
    OBVIOUS
  <2>1. PICK g \in mine : i \in g
    BY <1>5
  <2> QED BY <1>7, <2>1 DEF CheckInv
<1>13. ResultInv'
  <2>1. Disjoint(result')
    BY <1>6, <1>12 DEF ResultInv, Disjoint
  <2> QED BY <1>4, <2>1, ShapeFixed DEF ResultInv
<1>14. CheckInv'
  <2>1. ASSUME NEW i \in Good
        PROVE  \E fl \in result' \cup (UNION {Waiting(h)' : h \in Family}) : i \in fl
    <3>1. PICK fl \in result \cup (UNION {Waiting(h) : h \in Family}) : i \in fl
      BY DEF CheckInv
    <3>2. CASE fl \in result
      BY <3>1, <3>2
    <3>3. CASE fl \in mine
      BY <1>5, <3>1, <3>3
    <3>4. ASSUME NEW h \in Family, fl \in Waiting(h), fl \notin mine
          PROVE  fl \in Waiting(h)'
      BY <1>8, <1>9, <3>4
    <3> QED BY <3>1, <3>2, <3>3, <3>4
  <2>2. \A h \in Family : h \notin checking' => temp'[h] = {} /\ checked'[h] = {}
    BY DEF CheckInv, CheckWorker, TypeOK
  <2>3. \A a \in result' : \A h \in Family : \A b \in Waiting(h)' : a \cap b = {}
    <3>1. \A h \in Family : Waiting(h)' \subseteq Waiting(h)
      BY <1>8, <1>9
    <3> QED BY <1>11, <3>1 DEF CheckInv
  <2> QED BY <2>1, <2>2, <2>3, PacketsFixed, ShapeFixed DEF CheckInv, IdsOf
<1> QED BY <1>1, <1>13, <1>14

LEMMA JoinCheckInv ==
  ASSUME IInv, JoinCheck, TypeOK'
  PROVE  IInv'
<1> USE DEF IInv
<1>1. ASSUME NEW d \in Cores PROVE ThreadInv(d)' /\ Seen(d)' = Seen(d)
  BY <1>1, ThreadFrame DEF JoinCheck, scanVars
<1>2. ResultInv'
  BY ShapeFixed DEF ResultInv, JoinCheck
<1>3. CheckInv'
  <2>1. \A h \in Family : Waiting(h)' = Waiting(h)
    BY PacketsFixed DEF Waiting, JoinCheck, checkVars
  <2> QED BY <2>1, PacketsFixed, ShapeFixed DEF CheckInv, IdsOf, JoinCheck, checkVars, scanVars
<1> QED BY <1>1, <1>2, <1>3

LEMMA SortUndefinedInv ==
  ASSUME IInv, NEW f \in Family, NEW w \in CheckCores, SortUndefined(f, w), TypeOK'
  PROVE  IInv'
<1> USE DEF IInv
<1>1. ASSUME NEW d \in Cores PROVE ThreadInv(d)' /\ Seen(d)' = Seen(d)
  BY <1>1, ThreadFrame DEF SortUndefined, scanVars
<1>2. ResultInv'
  BY ShapeFixed DEF ResultInv, SortUndefined
<1>3. CheckInv'
  <2>1. \A h \in Family : Waiting(h)' = Waiting(h)
    BY PacketsFixed DEF Waiting, SortUndefined, checkVars
  <2> QED BY <2>1, PacketsFixed, ShapeFixed DEF CheckInv, IdsOf, SortUndefined, checkVars, scanVars
<1> QED BY <1>1, <1>2, <1>3

LEMMA StutterInv ==
  ASSUME IInv, UNCHANGED vars
  PROVE  IInv'
<1> USE DEF IInv
<1>1. TypeOK'
  BY StepType
<1>2. ASSUME NEW d \in Cores PROVE ThreadInv(d)' /\ Seen(d)' = Seen(d)
  BY <1>2, ThreadFrame DEF vars, scanVars
<1>3. ResultInv'
  BY <1>2, ShapeFixed DEF ResultInv, vars, scanVars
<1>4. CheckInv'
  <2>1. \A h \in Family : Waiting(h)' = Waiting(h)
    BY PacketsFixed DEF Waiting, vars, checkVars
  <2> QED BY <2>1, PacketsFixed, ShapeFixed DEF CheckInv, IdsOf, vars, checkVars, scanVars
<1> QED BY <1>1, <1>2, <1>3, <1>4

LEMMA StepInv == IInv /\ [Next]_vars => IInv'
<1> SUFFICES ASSUME IInv, [Next]_vars PROVE IInv'
  OBVIOUS
<1>1. TypeOK'
  BY StepType DEF IInv
<1>2. ASSUME NEW c \in Cores, ScanStep(c) PROVE IInv'
  BY <1>1, <1>2, ReturnEmptyInv, StartInv, StartThrowsInv, SkipBadInv, ScanPacketInv, PublishInv
     DEF ScanStep
<1>3. ASSUME NEW f \in Family, CheckStep(f) PROVE IInv'
  BY <1>1, <1>3, BeginCheckInv, CheckWorkerInv, SortUndefinedInv DEF CheckStep, WorkerStep
<1>4. CASE Join
  BY <1>1, <1>4, JoinInv
<1>5. CASE JoinCheck
  BY <1>1, <1>5, JoinCheckInv
<1>6. CASE Finished \/ UNCHANGED vars
  BY <1>6, StutterInv DEF Finished
<1> QED BY <1>2, <1>3, <1>4, <1>5, <1>6 DEF Next

-------------------------------------------------------------------------------
(* The results *)

LEMMA FlowPlaces ==
  \A fl : fl \in Flows <=>
    \/ fl \in result
    \/ \E c \in Cores : fl \in Held(c)
    \/ \E f \in Family : fl \in Waiting(f)
<1>1. ASSUME NEW fl \in Flows
      PROVE  \/ fl \in result
             \/ \E c \in Cores : fl \in Held(c)
             \/ \E f \in Family : fl \in Waiting(f)
  <2>1. CASE fl \in (UNION {Held(c) : c \in Cores})
    <3>1. PICK s \in {Held(c) : c \in Cores} : fl \in s
      BY <2>1
    <3> QED BY <3>1
  <2>2. CASE fl \in (UNION {Waiting(f) : f \in Family})
    <3>1. PICK s \in {Waiting(f) : f \in Family} : fl \in s
      BY <2>2
    <3> QED BY <3>1
  <2> QED BY <1>1, <2>1, <2>2 DEF Flows
<1>2. \A fl \in result : fl \in Flows
  BY DEF Flows
<1>3. \A c \in Cores : \A fl \in Held(c) : fl \in Flows
  BY DEF Flows
<1>4. \A f \in Family : \A fl \in Waiting(f) : fl \in Flows
  BY DEF Flows
<1> QED BY <1>1, <1>2, <1>3, <1>4

(* The inductive invariant implies that no packet is lost or repeated.      *)
LEMMA InvConserves == IInv => Conservation
<1> SUFFICES ASSUME IInv PROVE Conservation
  OBVIOUS
<1> USE DEF IInv
<1>1. \A fl \in Flows : Homogeneous(fl)
  <2>1. \A fl \in result : Homogeneous(fl)
    BY DEF ResultInv
  <2>2. \A c \in Cores : \A fl \in Held(c) : Homogeneous(fl)
    BY HeldFacts
  <2>3. \A f \in Family : \A fl \in Waiting(f) : Homogeneous(fl)
    BY DEF CheckInv, Waiting
  <2> QED BY <2>1, <2>2, <2>3, FlowPlaces
<1>2. CASE phase \in {"scan", "abort"}
  <2>1. \A f \in Family : Waiting(f) = {}
    BY <1>2 DEF CheckInv, Waiting
  <2>2. Flows = result \cup (UNION {Held(c) : c \in Cores})
    BY <2>1 DEF Flows
  <2>3. ASSUME NEW i \in Scanned PROVE \E fl \in Flows : i \in fl
    <3>1. PICK c \in Cores : i \in Seen(c)
      BY DEF Scanned
    <3>2. CASE pc[c] = "scan"
      BY <2>2, <3>1, <3>2, HeldFacts
    <3>3. CASE pc[c] = "returned"
      BY <1>2, <2>2, <3>1, <3>3 DEF ResultInv
    <3>4. CASE pc[c] = "spawned"
      BY <3>1, <3>4 DEF Seen
    <3> QED BY <3>2, <3>3, <3>4 DEF TypeOK
  <2>4. ASSUME NEW fl \in Flows, NEW i \in fl PROVE i \in Scanned
    BY <1>2, <2>2, <2>4, HeldFacts DEF ResultInv, Scanned
  <2>5. ASSUME NEW a \in Flows, NEW b \in Flows, NEW i \in a, i \in b PROVE a = b
    <3>1. CASE a \in result /\ b \in result
      BY <2>5, <3>1 DEF ResultInv, Disjoint
    <3>2. ASSUME NEW c \in Cores, NEW d \in Cores, a \in Held(c), b \in Held(d) PROVE a = b
      <4>1. i \in Seen(c) /\ i \in Seen(d)
        BY <2>5, <3>2, HeldFacts
      <4>2. c = d
        BY <4>1, SeenDisjoint
      <4> QED BY <2>5, <3>2, <4>2, HeldFacts DEF Disjoint
    <3>3. ASSUME NEW c \in Cores, NEW x \in Held(c), NEW y \in result, i \in x, i \in y
          PROVE  FALSE
      <4>1. i \in Seen(c) /\ pc[c] = "scan"
        BY <3>3, HeldFacts
      <4>2. PICK d \in Cores : pc[d] = "returned" /\ i \in Seen(d)
        BY <1>2, <3>3 DEF ResultInv
      <4> QED BY <4>1, <4>2, SeenDisjoint
    <3> QED BY <2>2, <2>5, <3>1, <3>2, <3>3
  <2> QED BY <1>1, <2>3, <2>4, <2>5 DEF Conservation, Disjoint
<1>3. CASE phase \in {"check", "done", "undefined"}
  <2>1. \A c \in Cores : pc[c] = "returned" /\ Held(c) = {}
    BY <1>3, HeldFacts DEF CheckInv
  <2>2. Flows = result \cup (UNION {Waiting(f) : f \in Family})
    <3>1. ASSUME NEW fl \in Flows PROVE fl \in result \cup (UNION {Waiting(f) : f \in Family})
      BY <2>1, <3>1, FlowPlaces
    <3>2. result \cup (UNION {Waiting(f) : f \in Family}) \subseteq Flows
      BY DEF Flows
    <3> QED BY <3>1, <3>2
  <2>3. Scanned = Good
    BY <2>1, AllSeen DEF Scanned, Seen
  <2>4. \A i \in Good : \E fl \in Flows : i \in fl
    BY <1>3, <2>2 DEF CheckInv
  <2>5. \A fl \in Flows : fl \subseteq Good
    BY <2>2 DEF TypeOK, Waiting
  <2>6. ASSUME NEW a \in Flows, NEW b \in Flows, NEW i \in a, i \in b PROVE a = b
    <3>1. CASE a \in result /\ b \in result
      BY <2>6, <3>1 DEF ResultInv, Disjoint
    <3>2. ASSUME NEW f \in Family, NEW h \in Family, a \in Waiting(f), b \in Waiting(h)
          PROVE  a = b
      <4>1. a \in temp[f] /\ b \in temp[h]
        BY <3>2 DEF Waiting
      <4>2. FlowId(a) = FlowId(b)
        BY <2>6, <4>1, FlowIdOf DEF CheckInv
      <4>3. f = h
        BY <4>1, <4>2, FamiliesDisjoint DEF CheckInv
      <4> QED BY <2>6, <4>1, <4>3 DEF CheckInv, Disjoint
    <3>3. ASSUME NEW f \in Family, NEW x \in Waiting(f), NEW y \in result, i \in x, i \in y
          PROVE  FALSE
      BY <3>3 DEF CheckInv
    <3> QED BY <2>2, <2>6, <3>1, <3>2, <3>3
  <2> QED BY <1>1, <2>3, <2>4, <2>5, <2>6 DEF Conservation, Disjoint
<1> QED BY <1>2, <1>3 DEF TypeOK

(* Through every interleaving of scanning, publishing and double checking    *)
(* the flows partition the packets gone past, for every trace (in capture    *)
(* order or not), thread count and pair of time-outs (construct_flow).       *)
THEOREM PacketsConserved == Spec => []Conservation
<1> QED BY InitInv, StepInv, InvConserves, PTL DEF Spec

(* The double check ends only when every worker of both families has         *)
(* published.                                                                *)
DoneInv == phase = "done" => checking = Family /\ \A f \in Family : checked[f] = CheckCores

LEMMA InitDone == Init => DoneInv
BY DEF Init, NotStarted, DoneInv

LEMMA StepDone == DoneInv /\ [Next]_vars => DoneInv'
<1> SUFFICES ASSUME DoneInv, [Next]_vars PROVE DoneInv'
  OBVIOUS
<1>1. ASSUME NEW c \in Cores, ScanStep(c) PROVE DoneInv'
  BY <1>1 DEF DoneInv, ScanStep, ReturnEmpty, Start, StartThrows, SkipBad, ScanPacket, Publish
<1>2. ASSUME NEW f \in Family, CheckStep(f) PROVE DoneInv'
  BY <1>2 DEF DoneInv, CheckStep, BeginCheck, WorkerStep, CheckWorker, SortUndefined
<1>3. CASE Join
  BY <1>3 DEF DoneInv, Join
<1>4. CASE JoinCheck
  BY <1>4 DEF DoneInv, JoinCheck, checkVars
<1>5. CASE Finished \/ UNCHANGED vars
  BY <1>5 DEF DoneInv, Finished, vars, checkVars
<1> QED BY <1>1, <1>2, <1>3, <1>4, <1>5 DEF Next

(* The value construct_flow leaves behind: its flows partition all the good  *)
(* packets of the array, each flow of one 5-tuple.                           *)
ResultPartition ==
  phase = "done" =>
    /\ UNION result = Good
    /\ Disjoint(result)
    /\ \A fl \in result : Homogeneous(fl)

LEMMA InvResult == IInv /\ DoneInv => ResultPartition
<1> SUFFICES ASSUME IInv, DoneInv, phase = "done" PROVE ResultPartition
  BY DEF ResultPartition
<1>1. \A f \in Family : Waiting(f) = {}
  BY DEF DoneInv, Waiting
<1>2. \A i \in Good : \E fl \in result : i \in fl
  BY <1>1 DEF IInv, CheckInv
<1>3. UNION result \subseteq Good
  BY DEF IInv, TypeOK
<1> QED BY <1>2, <1>3 DEF IInv, ResultInv, ResultPartition

(* Every behaviour of construct_flow that returns leaves such a value.       *)
THEOREM ResultCorrect == Spec => []ResultPartition
<1> QED BY InitInv, StepInv, InitDone, StepDone, InvResult, PTL DEF Spec

-------------------------------------------------------------------------------
(* Flows and time *)

(* The bad packets too are no later than the good ones after them. *)
TimesInOrder == \A i \in Index : \A j \in Good : i < j => At(i).ts <= At(j).ts

(* A flow with two packets of an id has those of the id between them.        *)
Convex(fl) ==
  \A i, k \in fl : \A j \in Good : i < j /\ j < k /\ At(j).id = At(i).id => j \in fl

Adjacent(fl, p, q) == p \in fl /\ q \in fl /\ p < q /\ \A i \in fl : ~(p < i /\ i < q)

(* The second case of LingerBound: one thread saw the silence, and no packet *)
(* in it that comes too late.                                                *)
SeenSilence(p, q) ==
  \E c \in Cores :
    /\ {p, q} \subseteq Slice(N, Multiplex, c)
    /\ \A r \in Good : p < r /\ r < q => At(r).ts - At(p).ts <= FLOW_TIME_OUT + EVICT_FLOW_TIME_OUT

Lingers(fl) == \A p, q \in fl : Adjacent(fl, p, q) => SeenSilence(p, q)

WithinBound(fl) ==
  \A p, q \in fl : Adjacent(fl, p, q) => At(q).ts - At(p).ts < FLOW_TIME_OUT \/ SeenSilence(p, q)

Apart(a, b) == Str(a) - End(b) >= FLOW_TIME_OUT \/ Str(b) - End(a) >= FLOW_TIME_OUT

(* A flow as a thread made it. *)
Unmerged(fl) == Convex(fl) /\ (TimesInOrder => Lingers(fl))

(* What a thread knows of its open flows: each has all the packets of its id *)
(* since its first, and the last of them is no older, at the last check,     *)
(* than the time-out.                                                        *)
OpenInv(c) ==
  /\ \A id \in Ids : \A k \in table[c][id] : \A j \in Seen(c) :
       At(j).id = id /\ k < j => j \in table[c][id]
  /\ TimesInOrder /\ pc[c] = "scan" =>
       /\ \A j \in Good : cursor[c] <= j => lastCheck[c] <= At(j).ts
       /\ \A r \in Seen(c) : At(r).ts - lastCheck[c] <= EVICT_FLOW_TIME_OUT
       /\ \A id \in Ids : \A k \in table[c][id] :
            (\A m \in table[c][id] : m <= k) => lastCheck[c] - At(k).ts <= FLOW_TIME_OUT
       /\ \A id \in Ids : Lingers(table[c][id])

ThreadTimes(c) == OpenInv(c) /\ \A fl \in toAdd[c] : Unmerged(fl)

(* Flows that wait for the double check are as a thread made them; those of  *)
(* a family under check were published by a worker, apart and within bounds. *)
ResultTimes ==
  /\ \A f \in Family \ checking : \A fl \in FlowsOf(f, result) : Unmerged(fl)
  /\ \A f \in Family : \A fl \in temp[f] : Unmerged(fl)
  /\ \A f \in checking : \A fl \in FlowsOf(f, result) :
       /\ \E w \in checked[f] : FlowId(fl) \in work[f][w]
       /\ TimesInOrder => WithinBound(fl)
  /\ PacketsInOrder =>
       \A f \in checking : \A a, b \in FlowsOf(f, result) :
         a # b /\ FlowId(a) = FlowId(b) => Apart(a, b)

TimeInv == (\A c \in Cores : ThreadTimes(c)) /\ ResultTimes

(* These predicates read nothing but the packets, which no step changes.    *)
LEMMA TimeFixed ==
  ASSUME pkts' = pkts
  PROVE  /\ PacketsInOrder' = PacketsInOrder /\ TimesInOrder' = TimesInOrder
         /\ \A fl : Unmerged(fl)' = Unmerged(fl) /\ WithinBound(fl)' = WithinBound(fl)
         /\ \A a, b : Apart(a, b)' = Apart(a, b)
         /\ \A fl : Lingers(fl)' = Lingers(fl)
         /\ \A f, flows : FlowsOf(f, flows)' = FlowsOf(f, flows')
<1>1. \A p, q : SeenSilence(p, q)' = SeenSilence(p, q)
  BY PacketsFixed DEF SeenSilence
<1>2. TimesInOrder' = TimesInOrder /\ PacketsInOrder' = PacketsInOrder
  BY PacketsFixed DEF TimesInOrder, PacketsInOrder
<1>3. \A fl : Lingers(fl)' = Lingers(fl) /\ WithinBound(fl)' = WithinBound(fl)
  BY <1>1, PacketsFixed DEF Lingers, WithinBound
<1>4. \A fl : Convex(fl)' = Convex(fl)
  BY PacketsFixed DEF Convex
<1>5. \A a, b : Apart(a, b)' = Apart(a, b)
  BY PacketsFixed DEF Apart
<1>6. ASSUME NEW f, NEW flows PROVE FlowsOf(f, flows)' = FlowsOf(f, flows')
  BY PacketsFixed DEF FlowsOf, IdsOf
<1> QED BY <1>2, <1>3, <1>4, <1>5, <1>6 DEF Unmerged

(* The times of good packets, and the start and end of a flow. *)
LEMMA GoodTimes ==
  ASSUME pkts \in Traces
  PROVE  \A i \in Good : i \in Nat /\ At(i).ts \in Int /\ At(i).id \in Ids
<1>1. \A i \in Good : At(i) \in Packet /\ i \in Index /\ At(i).id \in Ids
  BY TraceFacts DEF Good
<1>2. ASSUME NEW i \in Good PROVE At(i).ts \in Int
  <2>1. At(i) \in Packet
    BY <1>1
  <2>2. At(i).ts \in Times \cup {0}
    BY <2>1 DEF Packet
  <2>3. Times \cup {0} \subseteq Int
    BY ONLY TimeAssumption
  <2> QED BY <2>2, <2>3
<1>3. \A i \in Index : i \in Nat
  BY TraceFacts DEF Index
<1> QED BY <1>1, <1>2, <1>3

(* The start and the end of a flow are the least and the greatest of its    *)
(* packets' times.                                                          *)
LEMMA FlowTimes ==
  ASSUME pkts \in Traces, NEW fl \in SUBSET Good, fl # {}
  PROVE  /\ \E i \in fl : Str(fl) = At(i).ts
         /\ \E i \in fl : End(fl) = At(i).ts
         /\ \A i \in fl : Str(fl) <= At(i).ts /\ At(i).ts <= End(fl)
<1> DEFINE f == [i \in Good |-> At(i).ts]
           S == {At(i).ts : i \in fl}
<1>1. S # {} /\ S \subseteq Int
  BY GoodTimes
<1>2. IsFiniteSet(S)
  <2>1. N \in Nat /\ Good \subseteq Index
    BY TraceFacts
  <2>2. IsFiniteSet(0 .. N - 1)
    <3>1. 0 \in Int /\ N - 1 \in Int
      BY <2>1
    <3> QED BY <3>1, FS_Interval, Zenon
  <2>3. IsFiniteSet(fl)
    BY <2>1, <2>2, FS_Subset DEF Index
  <2>4. IsFiniteSet({f[i] : i \in fl})
    <3> HIDE DEF f
    <3> QED BY <2>3, FiniteImage
  <2>5. S = {f[i] : i \in fl}
    OBVIOUS
  <2> QED BY <2>4, <2>5
<1>3. /\ \E m \in S : \A k \in S : m >= k
      /\ \E m \in S : \A k \in S : m <= k
  <2> HIDE DEF S
  <2> QED BY <1>1, <1>2, FiniteHasExtremes
<1>4. \E t \in S : \A i \in fl : t <= At(i).ts
  BY <1>3
<1>5. \E t \in S : \A i \in fl : t >= At(i).ts
  BY <1>3
<1>6. Str(fl) \in S /\ \A i \in fl : Str(fl) <= At(i).ts
  BY <1>4, Zenon DEF Str
<1>7. End(fl) \in S /\ \A i \in fl : End(fl) >= At(i).ts
  BY <1>5, Zenon DEF End
<1>8. \A i \in fl : At(i).ts \in Int
  BY GoodTimes
<1>9. End(fl) \in Int
  BY <1>1, <1>7
<1> QED BY <1>6, <1>7, <1>8, <1>9

(* Two flows of an id that the threads made do not interleave. *)
LEMMA ConvexOrdered ==
  ASSUME pkts \in Traces, NEW a \in SUBSET Good, NEW b \in SUBSET Good,
         Homogeneous(a), Homogeneous(b), FlowId(a) = FlowId(b), Convex(a), Convex(b), a \cap b = {}
  PROVE  (\A i \in a : \A j \in b : i < j) \/ (\A i \in a : \A j \in b : j < i)
<1> SUFFICES ASSUME NEW i \in a, NEW j \in b, ~(i < j), NEW k \in a, NEW l \in b, ~(l < k)
             PROVE  FALSE
  OBVIOUS
<1>1. i \in Nat /\ j \in Nat /\ k \in Nat /\ l \in Nat
  BY GoodTimes
<1>2. i # j /\ k # l /\ i # l /\ k # j
  OBVIOUS
<1>3. \A x \in a \cup b : At(x).id = FlowId(a) /\ x \in Good
  BY FlowIdOf
<1>4. j < i /\ k < l
  BY <1>1, <1>2
<1>5. CASE j < k
  BY <1>3, <1>4, <1>5 DEF Convex
<1>6. CASE k < j
  BY <1>3, <1>4, <1>6 DEF Convex
<1> QED BY <1>1, <1>2, <1>5, <1>6

(* What flow_double_check finds of one 5-tuple. *)
IsGroup(g, id) ==
  /\ g \in SUBSET SUBSET Good /\ Disjoint(g) /\ Cardinality(g) \in Nat
  /\ \A fl \in g : Homogeneous(fl) /\ FlowId(fl) = id /\ Convex(fl)

(* A flow of a group has packets, whose times its start and end bound.      *)
LEMMA FlowOfGroup ==
  ASSUME pkts \in Traces, NEW id, NEW g, IsGroup(g, id), NEW fl \in g
  PROVE  /\ fl \in SUBSET Good /\ fl # {} /\ Str(fl) \in Int /\ End(fl) \in Int
         /\ \E i \in fl : Str(fl) = At(i).ts
         /\ \E i \in fl : End(fl) = At(i).ts
         /\ \A i \in fl : Str(fl) <= At(i).ts /\ At(i).ts <= End(fl)
<1>1. fl \in SUBSET Good /\ fl # {}
  BY DEF IsGroup, Homogeneous
<1>2. /\ \E i \in fl : Str(fl) = At(i).ts
      /\ \E i \in fl : End(fl) = At(i).ts
      /\ \A i \in fl : Str(fl) <= At(i).ts /\ At(i).ts <= End(fl)
  BY <1>1, FlowTimes
<1>3. \A i \in fl : At(i).ts \in Int
  BY <1>1, GoodTimes
<1>4. Str(fl) \in Int /\ End(fl) \in Int
  BY <1>2, <1>3
<1> QED BY <1>1, <1>2, <1>4

(* Two flows of a group do not interleave: all of one is before the other.  *)
LEMMA GroupOrdered ==
  ASSUME pkts \in Traces, NEW id, NEW g, IsGroup(g, id), NEW a \in g, NEW b \in g, a # b
  PROVE  (\A i \in a : \A j \in b : i < j) \/ (\A i \in a : \A j \in b : j < i)
<1>1. a \in SUBSET Good /\ b \in SUBSET Good /\ a \cap b = {}
  BY DEF IsGroup, Disjoint
<1> QED BY <1>1, ConvexOrdered DEF IsGroup

(* In capture order the comparator orders the group, although it is none on  *)
(* all flows.                                                                *)
LEMMA GroupOrderly ==
  ASSUME pkts \in Traces, PacketsInOrder, NEW id, NEW g, IsGroup(g, id)
  PROVE  Orderly(g)
<1>1. ASSUME NEW a \in g, NEW b \in g, \A k \in a : \A l \in b : k < l
      PROVE  ~Less(b, a)
  <2>1. PICK k \in a : End(a) = At(k).ts
    BY FlowOfGroup
  <2>2. PICK l \in b : Str(b) = At(l).ts
    BY FlowOfGroup
  <2>3. k < l /\ k \in Good /\ l \in Good
    BY <1>1, FlowOfGroup
  <2>4. End(a) <= Str(b)
    BY <2>1, <2>2, <2>3 DEF PacketsInOrder
  <2>5. End(a) \in Int /\ Str(b) \in Int
    BY FlowOfGroup
  <2> QED BY <2>4, <2>5 DEF Less
<1> SUFFICES ASSUME NEW a \in g, NEW b \in g, a # b PROVE ~Less(a, b) \/ ~Less(b, a)
  BY DEF Orderly
<1>2. CASE \A k \in a : \A l \in b : k < l
  BY <1>1, <1>2
<1>3. CASE \A k \in a : \A l \in b : l < k
  BY <1>1, <1>3
<1> QED BY <1>2, <1>3, GroupOrdered

(* The sorted flows of a group follow each other in time.                    *)
LEMMA SortedInTime ==
  ASSUME pkts \in Traces, NEW id, NEW g, IsGroup(g, id), NEW o \in Sorted(g),
         NEW i \in 1 .. Cardinality(g), NEW j \in 1 .. Cardinality(g), i < j
  PROVE  End(o[i]) <= Str(o[j])
<1>1. ~Less(o[j], o[i])
  BY DEF Sorted
<1>2. o[i] \in g /\ o[j] \in g
  BY DEF Sorted, Bijection, Injection
<1>3. End(o[i]) \in Int /\ Str(o[j]) \in Int
  BY <1>2, FlowOfGroup
<1> QED BY <1>1, <1>3 DEF Less

(* The runs of two positions with no cut between them are one. *)
LEMMA SameRun ==
  ASSUME NEW n \in Nat, NEW o, DOMAIN o = 1 .. n, NEW i \in 1 .. n, NEW j \in 1 .. n,
         \A k \in 1 .. n : (i < k /\ k <= j) \/ (j < k /\ k <= i) => ~Cut(o, k)
  PROVE  Run(o, i) = Run(o, j)
<1>1. ASSUME NEW l \in 1 .. n
      PROVE  (\A k \in 1 .. n : (i < k /\ k <= l) \/ (l < k /\ k <= i) => ~Cut(o, k))
             <=> (\A k \in 1 .. n : (j < k /\ k <= l) \/ (l < k /\ k <= j) => ~Cut(o, k))
  <2>1. \A k \in 1 .. n : (j < k /\ k <= l) \/ (l < k /\ k <= j) =>
          \/ (i < k /\ k <= l) \/ (l < k /\ k <= i)
          \/ (i < k /\ k <= j) \/ (j < k /\ k <= i)
    OBVIOUS
  <2>2. \A k \in 1 .. n : (i < k /\ k <= l) \/ (l < k /\ k <= i) =>
          \/ (j < k /\ k <= l) \/ (l < k /\ k <= j)
          \/ (i < k /\ k <= j) \/ (j < k /\ k <= i)
    OBVIOUS
  <2> QED BY <2>1, <2>2
<1> QED BY <1>1 DEF Run

(* The flows of a 5-tuple after the merge are the time-out apart. *)
LEMMA MergedApart ==
  ASSUME pkts \in Traces, PacketsInOrder, NEW id, NEW g, IsGroup(g, id), NEW o \in Sorted(g),
         NEW a \in Merged(o), NEW b \in Merged(o), a # b
  PROVE  Apart(a, b)
<1> DEFINE n == Cardinality(g)
           Cell(i) == UNION {o[j] : j \in Run(o, i)}
<1>1. n \in Nat /\ o \in [1 .. n -> g] /\ DOMAIN o = 1 .. n
  BY DEF IsGroup, Sorted, Bijection, Injection
<1>2. \A i, j \in 1 .. n : i < j => End(o[i]) <= Str(o[j])
  BY SortedInTime
<1> HIDE DEF n
<1>3. ASSUME NEW i \in 1 .. n, NEW j \in 1 .. n, i < j, Cell(i) # Cell(j)
      PROVE  Apart(Cell(i), Cell(j))
  <2>1. PICK c \in 1 .. n : i < c /\ c <= j /\ Cut(o, c)
    <3> SUFFICES ASSUME \A c \in 1 .. n : i < c /\ c <= j => ~Cut(o, c) PROVE FALSE
      OBVIOUS
    <3>1. \A k \in 1 .. n : (i < k /\ k <= j) \/ (j < k /\ k <= i) => ~Cut(o, k)
      BY <1>1, <1>3
    <3>2. Run(o, i) = Run(o, j)
      BY <1>1, <3>1, SameRun
    <3> QED BY <1>3, <3>2
  <2>2. Run(o, i) \subseteq 1 .. n /\ Run(o, j) \subseteq 1 .. n
    BY <1>1 DEF Run
  <2>3. \A k \in Run(o, i) : k < c
    BY <1>1, <2>1, <2>2 DEF Run
  <2>4. \A k \in Run(o, j) : c <= k
    BY <1>1, <2>1, <2>2 DEF Run
  <2>5. c \in Nat /\ c - 1 \in 1 .. n
    BY <1>1, <2>1
  <2>6. \A k \in 1 .. n : Str(o[k]) \in Int /\ End(o[k]) \in Int /\ Str(o[k]) <= End(o[k])
    <3> SUFFICES ASSUME NEW k \in 1 .. n
                 PROVE  Str(o[k]) \in Int /\ End(o[k]) \in Int /\ Str(o[k]) <= End(o[k])
      OBVIOUS
    <3>1. o[k] \in g
      BY <1>1
    <3>2. PICK x \in o[k] : Str(o[k]) = At(x).ts
      BY <3>1, FlowOfGroup
    <3> QED BY <3>1, <3>2, FlowOfGroup
  <2>7. \A k \in 1 .. n : k < c => End(o[k]) <= End(o[c - 1])
    <3> SUFFICES ASSUME NEW k \in 1 .. n, k < c PROVE End(o[k]) <= End(o[c - 1])
      OBVIOUS
    <3>1. CASE k = c - 1
      BY <2>5, <2>6, <3>1
    <3>2. CASE k # c - 1
      <4>1. k < c - 1
        BY <1>1, <2>5, <3>2
      <4>2. End(o[k]) <= Str(o[c - 1])
        BY <1>2, <2>5, <4>1
      <4> QED BY <2>5, <2>6, <4>2
    <3> QED BY <3>1, <3>2
  <2>8. \A k \in 1 .. n : c <= k => Str(o[c]) <= Str(o[k])
    <3> SUFFICES ASSUME NEW k \in 1 .. n, c <= k PROVE Str(o[c]) <= Str(o[k])
      OBVIOUS
    <3>1. CASE k = c
      BY <2>6, <3>1
    <3>2. CASE k # c
      <4>1. c < k
        BY <1>1, <2>5, <3>2
      <4>2. End(o[c]) <= Str(o[k])
        BY <1>2, <4>1
      <4> QED BY <2>6, <4>2
    <3> QED BY <3>1, <3>2
  <2>9. Str(o[c]) - End(o[c - 1]) >= FLOW_TIME_OUT
    BY <2>1 DEF Cut
  <2>10. ASSUME NEW k \in 1 .. n PROVE Cell(k) \in SUBSET Good /\ Cell(k) # {}
    <3>1. k \in Run(o, k) /\ Run(o, k) \subseteq 1 .. n
      BY <1>1 DEF Run
    <3>2. o[k] \in g /\ o[k] # {}
      BY <1>1, FlowOfGroup
    <3>3. \A l \in Run(o, k) : o[l] \in SUBSET Good
      BY <1>1, <3>1 DEF IsGroup
    <3> QED BY <3>1, <3>2, <3>3
  <2>11. PICK p \in Cell(i) : End(Cell(i)) = At(p).ts
    BY <2>10, FlowTimes
  <2>12. PICK q \in Cell(j) : Str(Cell(j)) = At(q).ts
    BY <2>10, FlowTimes
  <2>13. At(p).ts <= End(o[c - 1]) /\ At(p).ts \in Int
    <3>1. PICK k \in Run(o, i) : p \in o[k]
      OBVIOUS
    <3>2. k \in 1 .. n /\ k < c /\ o[k] \in g
      BY <1>1, <2>2, <2>3
    <3>3. At(p).ts <= End(o[k]) /\ p \in Good
      BY <3>1, <3>2, FlowOfGroup
    <3> QED BY <2>5, <2>6, <2>7, <3>2, <3>3, GoodTimes
  <2>14. Str(o[c]) <= At(q).ts /\ At(q).ts \in Int
    <3>1. PICK k \in Run(o, j) : q \in o[k]
      OBVIOUS
    <3>2. k \in 1 .. n /\ c <= k /\ o[k] \in g
      BY <1>1, <2>2, <2>4
    <3>3. Str(o[k]) <= At(q).ts /\ q \in Good
      BY <3>1, <3>2, FlowOfGroup
    <3> QED BY <2>6, <2>8, <3>2, <3>3, GoodTimes
  <2>15. Str(Cell(j)) - End(Cell(i)) >= FLOW_TIME_OUT
    <3>1. FLOW_TIME_OUT \in Int /\ Str(o[c]) \in Int /\ End(o[c - 1]) \in Int
      BY <2>5, <2>6, TimeAssumption
    <3> HIDE DEF Cell
    <3> QED BY <2>9, <2>11, <2>12, <2>13, <2>14, <3>1
  <2> HIDE DEF Cell
  <2> QED BY <2>15 DEF Apart
<1>4. PICK i \in 1 .. n, j \in 1 .. n : a = Cell(i) /\ b = Cell(j)
  BY <1>1 DEF Merged
<1> HIDE DEF Cell
<1>5. CASE i < j
  BY <1>3, <1>4, <1>5
<1>6. CASE j < i
  <2>1. Apart(b, a)
    BY <1>3, <1>4, <1>6
  <2> QED BY <2>1 DEF Apart
<1>7. i < j \/ j < i \/ i = j
  BY <1>1
<1> QED BY <1>4, <1>5, <1>6, <1>7

(* Positions between two of a run are of the run, and none of them is cut. *)
LEMMA BetweenInRun ==
  ASSUME NEW n \in Nat, NEW o, DOMAIN o = 1 .. n, NEW i \in 1 .. n,
         NEW k \in Run(o, i), NEW l \in Run(o, i), NEW m \in 1 .. n, k <= m, m <= l
  PROVE  m \in Run(o, i) /\ (k < m => ~Cut(o, m))
<1>1. k \in 1 .. n /\ l \in 1 .. n
  BY DEF Run
<1>2. /\ \A c \in 1 .. n : (i < c /\ c <= k) \/ (k < c /\ c <= i) => ~Cut(o, c)
      /\ \A c \in 1 .. n : (i < c /\ c <= l) \/ (l < c /\ c <= i) => ~Cut(o, c)
  BY DEF Run
<1>3. \A c \in 1 .. n : (i < c /\ c <= m) \/ (m < c /\ c <= i) => ~Cut(o, c)
  <2>1. \A c \in 1 .. n : (i < c /\ c <= m) \/ (m < c /\ c <= i) =>
          (i < c /\ c <= l) \/ (k < c /\ c <= i)
    BY <1>1
  <2> QED BY <1>2, <2>1
<1>4. k < m => (i < m /\ m <= l) \/ (k < m /\ m <= i)
  BY <1>1
<1> QED BY <1>2, <1>3, <1>4 DEF Run

(* In capture order a later packet has no earlier time.                     *)
LEMMA OrderedTimes ==
  ASSUME pkts \in Traces, PacketsInOrder, NEW x \in Good, NEW y \in Good, x <= y
  PROVE  At(x).ts <= At(y).ts
<1>1. x \in Nat /\ y \in Nat /\ At(x).ts \in Int
  BY GoodTimes
<1>2. CASE x = y
  BY <1>1, <1>2
<1>3. CASE x # y
  BY <1>1, <1>3 DEF PacketsInOrder
<1> QED BY <1>2, <1>3

(* A silence of a merged flow is one of its parts', or below the time-out.   *)
LEMMA MergedSilences ==
  ASSUME pkts \in Traces, PacketsInOrder, NEW id, NEW g, IsGroup(g, id), NEW o \in Sorted(g),
         NEW fl \in Merged(o), NEW p \in fl, NEW q \in fl, Adjacent(fl, p, q)
  PROVE  At(q).ts - At(p).ts < FLOW_TIME_OUT \/ \E h \in g : Adjacent(h, p, q)
<1> DEFINE n == Cardinality(g)
<1>1. n \in Nat /\ o \in [1 .. n -> g] /\ DOMAIN o = 1 .. n /\ \A i, j \in 1 .. n : i # j => o[i] # o[j]
  BY DEF IsGroup, Sorted, Bijection, Injection, IsInjective
<1>2. \A i, j \in 1 .. n : i < j => End(o[i]) <= Str(o[j])
  BY SortedInTime
<1> HIDE DEF n
<1>3. PICK i \in 1 .. n : fl = UNION {o[j] : j \in Run(o, i)}
  BY <1>1 DEF Merged
<1>4. Run(o, i) \subseteq 1 .. n
  BY <1>1 DEF Run
<1>5. \A j \in 1 .. n : o[j] \in g
  BY <1>1
<1>6. ASSUME NEW j \in 1 .. n
      PROVE  /\ Str(o[j]) \in Int /\ End(o[j]) \in Int /\ o[j] \in SUBSET Good
             /\ \A x \in o[j] : Str(o[j]) <= At(x).ts /\ At(x).ts <= End(o[j])
  BY <1>5, FlowOfGroup
<1> SUFFICES ASSUME \A h \in g : ~Adjacent(h, p, q)
             PROVE  At(q).ts - At(p).ts < FLOW_TIME_OUT
  OBVIOUS
<1>7. PICK k \in Run(o, i) : p \in o[k]
  BY <1>3
<1>8. PICK l \in Run(o, i) : q \in o[l]
  BY <1>3
<1>9. \A j \in Run(o, i) : o[j] \subseteq fl
  BY <1>3
<1>10. p \in Good /\ q \in Good /\ p \in Nat /\ q \in Nat /\ p < q
       /\ At(p).ts \in Int /\ At(q).ts \in Int /\ k \in 1 .. n /\ l \in 1 .. n
  BY <1>4, <1>6, <1>7, <1>8, GoodTimes DEF Adjacent
<1>11. k # l
  <2> SUFFICES ASSUME k = l PROVE FALSE
    OBVIOUS
  <2>1. Adjacent(o[k], p, q)
    BY <1>7, <1>8, <1>9 DEF Adjacent
  <2> QED BY <1>5, <1>10, <2>1
<1>12. \A x \in o[k] : \A y \in o[l] : x < y
  <2>1. o[k] # o[l]
    BY <1>1, <1>10, <1>11
  <2>2. (\A x \in o[k] : \A y \in o[l] : x < y) \/ (\A x \in o[k] : \A y \in o[l] : y < x)
    BY <1>5, <1>10, <2>1, GroupOrdered
  <2>3. ~(q < p)
    BY <1>10
  <2> QED BY <1>7, <1>8, <2>2, <2>3
<1>13. At(q).ts <= Str(o[l])
  <2>1. PICK y \in o[l] : Str(o[l]) = At(y).ts
    BY <1>5, <1>10, FlowOfGroup
  <2>2. y \in fl /\ p < y /\ y \in Good /\ y \in Nat
    BY <1>6, <1>7, <1>9, <1>10, <1>12, GoodTimes
  <2>3. q <= y
    BY <1>10, <2>2 DEF Adjacent
  <2> QED BY <1>10, <2>1, <2>2, <2>3, OrderedTimes
<1>14. End(o[k]) <= At(p).ts
  <2>1. PICK x \in o[k] : End(o[k]) = At(x).ts
    BY <1>5, <1>10, FlowOfGroup
  <2>2. x \in fl /\ x < q /\ x \in Good /\ x \in Nat
    BY <1>6, <1>8, <1>9, <1>10, <1>12, GoodTimes
  <2>3. x <= p
    BY <1>10, <2>2 DEF Adjacent
  <2> QED BY <1>10, <2>1, <2>2, <2>3, OrderedTimes
<1>15. CASE l < k
  <2>1. ~Cut(o, k)
    BY <1>1, <1>10, <1>15, BetweenInRun
  <2>2. k - 1 \in 1 .. n /\ k - 1 < k
    BY <1>1, <1>10, <1>15
  <2>3. End(o[k - 1]) <= Str(o[k]) /\ End(o[l]) <= Str(o[k])
    BY <1>2, <1>10, <1>15, <2>2
  <2>4. ~(Str(o[k]) - End(o[k - 1]) >= FLOW_TIME_OUT)
    BY <2>1 DEF Cut
  <2>5. /\ Str(o[k]) \in Int /\ End(o[k - 1]) \in Int /\ End(o[l]) \in Int
        /\ Str(o[k]) <= At(p).ts /\ At(q).ts <= End(o[l])
    BY <1>6, <1>7, <1>8, <1>10, <2>2
  <2> QED BY <1>10, <2>3, <2>4, <2>5, TimeAssumption
<1>16. CASE k < l
  <2> DEFINE M == {m \in 1 .. n : k < m /\ m <= l /\ At(q).ts <= Str(o[m])}
  <2>1. PICK m \in M : \A c \in M : m <= c
    <3>1. l \in M /\ M \subseteq Nat
      BY <1>10, <1>13, <1>16
    <3> HIDE DEF M
    <3> QED BY <3>1, LeastNatural
  <2>2. m \in 1 .. n /\ k < m /\ m <= l /\ At(q).ts <= Str(o[m])
    OBVIOUS
  <2>3. ~Cut(o, m)
    BY <1>1, <1>10, <2>2, BetweenInRun
  <2>4. m - 1 \in 1 .. n /\ m - 1 < m /\ k <= m - 1 /\ m - 1 <= l /\ m - 1 \notin M
    <3>1. m - 1 \in 1 .. n /\ m - 1 < m /\ k <= m - 1 /\ m - 1 <= l
      BY <1>1, <1>10, <2>2
    <3> HIDE DEF M
    <3> QED BY <2>1, <2>2, <3>1
  <2> DEFINE e == o[m - 1]
  <2>5. End(e) <= At(p).ts
    <3>1. CASE m - 1 = k
      BY <1>14, <3>1
    <3>2. CASE m - 1 # k
      <4>1. m - 1 \in Run(o, i)
        BY <1>1, <2>4, BetweenInRun
      <4>2. e \in g /\ e \subseteq fl /\ e \in SUBSET Good /\ Str(e) \in Int /\ End(e) \in Int
        BY <1>5, <1>6, <1>9, <2>4, <4>1
      <4>3. k < m - 1
        BY <1>10, <2>2, <2>4, <3>2
      <4>4. Str(e) < At(q).ts
        <5>1. ~(At(q).ts <= Str(e))
          BY <2>4, <4>3
        <5> QED BY <1>10, <4>2, <5>1
      <4>5. e # o[k]
        BY <1>1, <1>10, <2>4, <4>3
      <4> HIDE DEF e, M
      <4>6. PICK x \in e : Str(e) = At(x).ts
        BY <4>2, FlowOfGroup
      <4>7. x \in Good /\ x \in Nat /\ At(x).ts \in Int
        BY <4>2, GoodTimes
      <4>8. ~(q <= x)
        <5> SUFFICES ASSUME q <= x PROVE FALSE
          OBVIOUS
        <5>1. At(q).ts <= At(x).ts
          BY <1>10, <4>7, OrderedTimes
        <5> QED BY <1>10, <4>4, <4>6, <4>7, <5>1
      <4>9. ~(p < x)
        BY <1>10, <4>2, <4>7, <4>8 DEF Adjacent
      <4>10. \A y \in e : \A z \in o[k] : y < z
        <5>1. (\A y \in e : \A z \in o[k] : y < z) \/ (\A y \in e : \A z \in o[k] : z < y)
          BY <1>5, <1>10, <4>2, <4>5, GroupOrdered
        <5> QED BY <1>7, <4>9, <5>1
      <4>11. PICK y \in e : End(e) = At(y).ts
        BY <4>2, FlowOfGroup
      <4>12. y < p /\ y \in Good /\ y \in Nat
        BY <1>7, <4>2, <4>10, GoodTimes
      <4>13. y <= p
        BY <1>10, <4>12
      <4> QED BY <1>10, <4>11, <4>12, <4>13, OrderedTimes
    <3> QED BY <3>1, <3>2
  <2>6. ~(Str(o[m]) - End(e) >= FLOW_TIME_OUT)
    BY <2>3 DEF Cut
  <2>7. Str(o[m]) \in Int /\ End(e) \in Int /\ FLOW_TIME_OUT \in Int
    BY <1>6, <2>2, <2>4, TimeAssumption
  <2> HIDE DEF e
  <2> QED BY <1>10, <2>2, <2>5, <2>6, <2>7
<1>17. l < k \/ k < l
  BY <1>10, <1>11
<1> QED BY <1>15, <1>16, <1>17

(* A merged flow has no longer silence than its parts, or one below the      *)
(* time-out.                                                                 *)
LEMMA MergedWithinBound ==
  ASSUME pkts \in Traces, PacketsInOrder, NEW id, NEW g, IsGroup(g, id), NEW o \in Sorted(g),
         \A fl \in g : Lingers(fl), NEW fl \in Merged(o)
  PROVE  WithinBound(fl)
<1> SUFFICES ASSUME NEW p \in fl, NEW q \in fl, Adjacent(fl, p, q), NEW h \in g, Adjacent(h, p, q)
             PROVE  SeenSilence(p, q)
  BY MergedSilences DEF WithinBound
<1> QED BY DEF Lingers, Adjacent

(* A thread that does not move, and steps that leave the results alone. *)
LEMMA ThreadTimesFrame ==
  ASSUME pkts' = pkts, NEW c \in Cores, ThreadTimes(c), pc'[c] = pc[c], cursor'[c] = cursor[c],
         table'[c] = table[c], toAdd'[c] = toAdd[c], lastCheck'[c] = lastCheck[c]
  PROVE  ThreadTimes(c)'
<1>1. Seen(c)' = Seen(c)
  BY PacketsFixed DEF Seen
<1> QED BY <1>1, PacketsFixed, TimeFixed DEF ThreadTimes, OpenInv

LEMMA ResultTimesFrame ==
  ASSUME pkts' = pkts, ResultTimes, UNCHANGED <<result, checking, temp, work, checked>>
  PROVE  ResultTimes'
BY PacketsFixed, TimeFixed DEF ResultTimes

(* A thread with no open and no evicted flows that is not scanning. *)
LEMMA IdleThreadTimes ==
  ASSUME pkts' = pkts, NEW c \in Cores, pc'[c] # "scan", table'[c] = NoFlow, toAdd'[c] = {}
  PROVE  ThreadTimes(c)'
BY DEF ThreadTimes, OpenInv, NoFlow

LEMMA ReturnEmptyTimes ==
  ASSUME IInv, TimeInv, NEW c \in Cores, ReturnEmpty(c)
  PROVE  TimeInv'
<1>1. pkts' = pkts /\ pc' = [pc EXCEPT ![c] = "returned"] /\ pc[c] = "spawned"
      /\ UNCHANGED <<cursor, table, toAdd, lastCheck, result, checking, temp, work, checked>>
  BY DEF ReturnEmpty, checkVars
<1>2. ThreadTimes(c)'
  <2>1. pc'[c] = "returned" /\ table'[c] = NoFlow /\ toAdd'[c] = {}
    BY <1>1 DEF IInv, TypeOK, ThreadInv
  <2> QED BY <1>1, <2>1, IdleThreadTimes
<1>3. ASSUME NEW d \in Cores, d # c PROVE ThreadTimes(d)'
  BY <1>1, <1>3, ThreadTimesFrame DEF TimeInv, IInv, TypeOK
<1> QED BY <1>1, <1>2, <1>3, ResultTimesFrame DEF TimeInv

LEMMA StartTimes ==
  ASSUME IInv, TimeInv, NEW c \in Cores, Start(c)
  PROVE  TimeInv'
<1>1. /\ pkts' = pkts /\ pc[c] = "spawned" /\ First(c) < N
      /\ pc' = [pc EXCEPT ![c] = "scan"]
      /\ cursor' = [cursor EXCEPT ![c] = First(c)]
      /\ lastCheck' = [lastCheck EXCEPT ![c] = At(First(c)).ts]
      /\ UNCHANGED <<table, toAdd, result, checking, temp, work, checked>>
  BY DEF Start, checkVars
<1>2. ThreadTimes(c)'
  <2>1. /\ cursor'[c] = First(c) /\ lastCheck'[c] = At(First(c)).ts
        /\ table'[c] = NoFlow /\ toAdd'[c] = {}
    BY <1>1 DEF IInv, TypeOK, ThreadInv
  <2>2. First(c) \in Nat /\ First(c) \in Index /\ pkts \in Traces
    BY <1>1, RangeFacts, TraceFacts DEF IInv, TypeOK, Index
  <2>3. Seen(c)' = {}
    BY <1>1, <2>1, <2>2, SeenPrimed, NothingSeen
  <2>4. \A id \in Ids : table'[c][id] = {}
    BY <2>1 DEF NoFlow
  <2>5. ASSUME TimesInOrder, NEW j \in Good, First(c) <= j PROVE At(First(c)).ts <= At(j).ts
    <3>1. j \in Nat /\ At(j).ts \in Int
      BY <2>2, GoodTimes
    <3>2. CASE j = First(c)
      BY <3>1, <3>2
    <3>3. CASE j # First(c)
      BY <2>2, <2>5, <3>1, <3>3 DEF TimesInOrder
    <3> QED BY <3>2, <3>3
  <2>6. OpenInv(c)'
    BY <1>1, <2>1, <2>3, <2>4, <2>5, PacketsFixed, TimeFixed DEF OpenInv, Lingers
  <2> QED BY <2>1, <2>6 DEF ThreadTimes
<1>3. ASSUME NEW d \in Cores, d # c PROVE ThreadTimes(d)'
  BY <1>1, <1>3, ThreadTimesFrame DEF TimeInv, IInv, TypeOK
<1> QED BY <1>1, <1>2, <1>3, ResultTimesFrame DEF TimeInv

LEMMA SkipBadTimes ==
  ASSUME IInv, TimeInv, NEW c \in Cores, SkipBad(c)
  PROVE  TimeInv'
<1>1. /\ pkts' = pkts /\ pc[c] = "scan" /\ At(cursor[c]).id = BadId
      /\ cursor' = [cursor EXCEPT ![c] = @ + 1]
      /\ UNCHANGED <<pc, table, toAdd, lastCheck, result, checking, temp, work, checked>>
  BY DEF SkipBad, checkVars
<1>2. ThreadTimes(c)'
  <2>1. cursor'[c] = cursor[c] + 1 /\ cursor[c] \in Nat /\ pkts \in Traces /\ cursor[c] \notin Good
    BY <1>1, IdAssumption, TraceFacts DEF IInv, TypeOK, Good, Ids
  <2>2. \A j \in Good : j \in Nat /\ j # cursor[c]
    BY <2>1, GoodTimes
  <2>3. Seen(c)' = Seen(c)
    BY <1>1, <2>1, <2>2, SeenPrimed DEF Seen
  <2>4. \A j \in Good : cursor'[c] <= j => cursor[c] <= j
    BY <2>1, <2>2
  <2>5. OpenInv(c)'
    BY <1>1, <2>3, <2>4, PacketsFixed, TimeFixed DEF OpenInv, TimeInv, ThreadTimes
  <2> QED BY <1>1, <2>5, TimeFixed DEF TimeInv, ThreadTimes
<1>3. ASSUME NEW d \in Cores, d # c PROVE ThreadTimes(d)'
  BY <1>1, <1>3, ThreadTimesFrame DEF TimeInv, IInv, TypeOK
<1> QED BY <1>1, <1>2, <1>3, ResultTimesFrame DEF TimeInv

(* TimesInOrder is the stronger of the two orders.                          *)
LEMMA TimesThenPackets == pkts \in Traces /\ TimesInOrder => PacketsInOrder
BY TraceFacts DEF TimesInOrder, PacketsInOrder

(* A packet that is scanned keeps what the thread knows of its open flows.  *)
LEMMA ScanPacketTimes ==
  ASSUME IInv, TimeInv, NEW c \in Cores, ScanPacket(c)
  PROVE  TimeInv'
<1> DEFINE i == cursor[c]
           now == At(i).ts
           G(id) == Grown(c)[id]
           evicted == {id \in Ids : CheckDue(c, now) /\ G(id) # {} /\ Idle(G(id), now)}
<1> USE DEF IInv
<1>1. /\ pkts' = pkts /\ pkts \in Traces /\ pc[c] = "scan" /\ pc'[c] = "scan"
      /\ cursor'[c] = i + 1 /\ i < Last(c) /\ At(i).id \in Ids
      /\ lastCheck'[c] = IF CheckDue(c, now) THEN now ELSE lastCheck[c]
      /\ UNCHANGED <<result, checking, temp, work, checked>>
  BY DEF ScanPacket, TypeOK, checkVars
<1>2. /\ Grown(c) \in [Ids -> SUBSET Good]
      /\ table'[c] = [id \in Ids |-> IF id \in evicted THEN {} ELSE G(id)]
      /\ toAdd'[c] = toAdd[c] \cup {G(id) : id \in evicted}
  BY GrownType DEF ScanPacket, Grown, TypeOK
<1>3. \A id \in Ids : G(id) = table[c][id] \cup (IF id = At(i).id THEN {i} ELSE {})
  BY <1>2 DEF Grown, ScanPacket, TypeOK
<1> HIDE DEF evicted
<1>4. i \in Good /\ i \in Nat /\ Seen(c)' = Seen(c) \cup {i} /\ First(c) \in Nat /\ First(c) <= i
  <2>1. i \in Good
    BY GrownType
  <2> QED BY <1>1, <2>1, SeenAdvances, RangeFacts DEF TypeOK, ThreadInv
<1>5. \A x \in Seen(c) : x \in Good /\ x \in Nat /\ x < i /\ First(c) <= x
  BY <1>1, GoodTimes DEF Seen
<1>6. ASSUME NEW k \in Seen(c)', NEW j \in Good, k <= j, j <= i PROVE j \in Seen(c)'
  <2>1. j \in Nat /\ k \in Nat /\ First(c) <= k
    BY <1>1, <1>4, <1>5, GoodTimes
  <2>2. First(c) <= j
    BY <1>4, <1>6, <2>1
  <2>3. j = i \/ j < i
    BY <1>4, <1>6, <2>1
  <2> QED BY <1>1, <1>4, <2>2, <2>3 DEF Seen
<1>7. \A id \in Ids : \A j \in G(id) : At(j).id = id /\ j \in Seen(c)'
  BY <1>3, <1>4 DEF ThreadInv
<1>8. ASSUME NEW id \in Ids, NEW k \in G(id), NEW j \in Seen(c)', At(j).id = id, k < j
      PROVE  j \in G(id)
  <2>1. CASE j = i
    BY <1>3, <1>8, <2>1
  <2>2. CASE j # i
    <3>1. j \in Seen(c) /\ j < i /\ j \in Nat
      BY <1>4, <1>5, <2>2
    <3>2. k # i
      BY <1>4, <1>8, <3>1
    <3>3. k \in table[c][id]
      BY <1>3, <3>2
    <3> QED BY <1>3, <1>8, <3>1, <3>3 DEF TimeInv, ThreadTimes, OpenInv
  <2> QED BY <2>1, <2>2
<1>9. ASSUME NEW id \in Ids PROVE Convex(G(id))
  <2> SUFFICES ASSUME NEW p \in G(id), NEW q \in G(id), NEW j \in Good, p < j, j < q,
                      At(j).id = At(p).id
               PROVE  j \in G(id)
    BY DEF Convex
  <2>1. p \in Seen(c)' /\ q \in Seen(c)' /\ At(j).id = id
    BY <1>7
  <2>2. p \in Nat /\ q \in Nat /\ j \in Nat /\ q <= i
    BY <1>1, <1>4, <1>5, <2>1, GoodTimes
  <2>3. p <= j /\ j <= i
    BY <1>4, <2>2
  <2> QED BY <1>6, <1>8, <2>1, <2>3
<1>10. now \in Int /\ lastCheck[c] \in Int /\ FLOW_TIME_OUT \in Nat /\ EVICT_FLOW_TIME_OUT \in Nat
  <2>1. now \in Int
    BY <1>1, <1>4, GoodTimes
  <2>2. lastCheck[c] \in Times \cup {0}
    <3>1. lastCheck \in [Cores -> Times \cup {0}]
      BY DEF TypeOK
    <3> QED BY <3>1
  <2>3. lastCheck[c] \in Int
    <3>1. Times \cup {0} \subseteq Int
      BY ONLY TimeAssumption
    <3> QED BY ONLY <2>2, <3>1
  <2> HIDE DEF now
  <2> QED BY <2>1, <2>3, TimeAssumption
<1>11. TimesInOrder =>
         /\ \A j \in Good : i <= j => lastCheck[c] <= At(j).ts
         /\ \A r \in Seen(c) : At(r).ts - lastCheck[c] <= EVICT_FLOW_TIME_OUT
         /\ \A id \in Ids : \A k \in table[c][id] :
              (\A m \in table[c][id] : m <= k) => lastCheck[c] - At(k).ts <= FLOW_TIME_OUT
         /\ \A id \in Ids : Lingers(table[c][id])
  BY <1>1 DEF TimeInv, ThreadTimes, OpenInv
<1>12. ASSUME TimesInOrder, NEW id \in Ids PROVE Lingers(G(id))
  <2> SUFFICES ASSUME NEW p \in G(id), NEW q \in G(id), Adjacent(G(id), p, q)
               PROVE  SeenSilence(p, q)
    BY DEF Lingers
  <2>1. p \in Seen(c)' /\ q \in Seen(c)' /\ p < q /\ \A x \in G(id) : ~(p < x /\ x < q)
    BY <1>7 DEF Adjacent
  <2>2. p \in Nat /\ q \in Nat /\ p < i /\ p \in table[c][id] /\ p \in Seen(c)
    BY <1>3, <1>4, <1>5, <2>1
  <2>3. CASE q # i
    <3>1. q \in table[c][id] /\ Adjacent(table[c][id], p, q)
      BY <1>3, <2>1, <2>2, <2>3 DEF Adjacent
    <3> QED BY <1>11, <1>12, <2>2, <3>1 DEF Lingers
  <2>4. CASE q = i
    <3>1. \A m \in table[c][id] : m \in Nat /\ m < i /\ m \in G(id)
      BY <1>3, <1>5 DEF ThreadInv
    <3>2. \A m \in table[c][id] : m <= p
      BY <2>1, <2>2, <2>4, <3>1
    <3>3. lastCheck[c] - At(p).ts <= FLOW_TIME_OUT
      BY <1>11, <1>12, <2>2, <3>2
    <3>4. p \in Good /\ At(p).ts \in Int
      BY <1>1, <1>5, <2>2, GoodTimes
    <3>5. ASSUME NEW r \in Good, p < r, r < i
          PROVE  At(r).ts - At(p).ts <= FLOW_TIME_OUT + EVICT_FLOW_TIME_OUT
      <4>1. r \in Nat /\ At(r).ts \in Int
        BY <1>1, GoodTimes
      <4>2. r \in Seen(c)
        BY <1>4, <1>6, <2>1, <2>2, <3>5, <4>1
      <4>3. At(r).ts - lastCheck[c] <= EVICT_FLOW_TIME_OUT
        BY <1>11, <1>12, <4>2
      <4> QED BY <1>10, <3>3, <3>4, <4>1, <4>3
    <3>6. p \in Slice(N, Multiplex, c) /\ i \in Slice(N, Multiplex, c)
      <4>1. p \in Slice(N, Multiplex, c)
        BY <2>2, SeenInSlice
      <4>2. First(c) <= i /\ i < Last(c) /\ Last(c) \in Nat
        BY <1>1, <1>4, RangeFacts
      <4> QED BY <1>4, <4>1, <4>2 DEF Slice, First, Last
    <3> QED BY <2>4, <3>5, <3>6 DEF SeenSilence
  <2> QED BY <2>3, <2>4
<1>13. ASSUME TimesInOrder, NEW j \in Good, i + 1 <= j PROVE lastCheck'[c] <= At(j).ts
  <2>1. j \in Nat /\ i < j /\ i <= j
    BY <1>1, <1>4, <1>13, GoodTimes
  <2> QED BY <1>1, <1>4, <1>11, <1>13, <2>1, TimesThenPackets, OrderedTimes
<1>14. ASSUME TimesInOrder, NEW r \in Seen(c)'
       PROVE  At(r).ts - lastCheck'[c] <= EVICT_FLOW_TIME_OUT
  <2>1. r \in Good /\ r <= i /\ At(r).ts \in Int
    BY <1>1, <1>4, <1>5, <1>14, GoodTimes
  <2>2. At(r).ts <= now
    BY <1>1, <1>4, <1>14, <2>1, TimesThenPackets, OrderedTimes
  <2>3. CASE CheckDue(c, now)
    BY <1>1, <1>10, <2>1, <2>2, <2>3
  <2>4. CASE ~CheckDue(c, now)
    <3>1. r \in Seen(c) => At(r).ts - lastCheck[c] <= EVICT_FLOW_TIME_OUT
      BY <1>11, <1>14
    <3>2. now - lastCheck[c] <= EVICT_FLOW_TIME_OUT
      BY <1>10, <2>4 DEF CheckDue
    <3> QED BY <1>1, <1>4, <1>14, <2>4, <3>1, <3>2
  <2> QED BY <2>3, <2>4
<1>15. ASSUME TimesInOrder, NEW id \in Ids, id \notin evicted, NEW k \in G(id), \A m \in G(id) : m <= k
       PROVE  lastCheck'[c] - At(k).ts <= FLOW_TIME_OUT
  <2>1. k \in Good /\ At(k).ts \in Int
    BY <1>1, <1>2, GoodTimes
  <2>2. CASE CheckDue(c, now)
    <3>1. ~Idle(G(id), now)
      BY <1>15, <2>2 DEF evicted
    <3>2. G(id) \in SUBSET Good /\ G(id) # {}
      BY <1>2
    <3>3. PICK x \in G(id) : End(G(id)) = At(x).ts
      BY <1>1, <3>2, FlowTimes
    <3>4. At(x).ts <= At(k).ts /\ At(x).ts \in Int
      BY <1>1, <1>15, <2>1, <3>2, GoodTimes, TimesThenPackets, OrderedTimes
    <3>5. now - At(x).ts - FLOW_TIME_OUT <= 0
      BY <1>10, <3>1, <3>3, <3>4 DEF Idle
    <3> QED BY <1>1, <1>10, <2>1, <2>2, <3>4, <3>5
  <2>3. CASE ~CheckDue(c, now) /\ k = i
    <3>1. lastCheck[c] <= At(i).ts
      BY <1>4, <1>11, <1>15
    <3> QED BY <1>1, <1>10, <2>3, <3>1
  <2>4. CASE ~CheckDue(c, now) /\ k # i
    <3>1. k \in table[c][id] /\ \A m \in table[c][id] : m <= k
      BY <1>3, <1>15, <2>4
    <3>2. lastCheck[c] - At(k).ts <= FLOW_TIME_OUT
      BY <1>11, <1>15, <3>1
    <3> QED BY <1>1, <2>4, <3>2
  <2> QED BY <2>2, <2>3, <2>4
<1>16. ThreadTimes(c)'
  <2>1. \A fl \in toAdd'[c] : Unmerged(fl)
    <3>1. \A id \in evicted : Unmerged(G(id))
      BY <1>9, <1>12 DEF Unmerged, evicted
    <3> QED BY <1>2, <3>1 DEF TimeInv, ThreadTimes
  <2>2. \A id \in Ids : table'[c][id] = {} \/ (id \notin evicted /\ table'[c][id] = G(id))
    BY <1>2
  <2>3. \A id \in Ids : \A k \in table'[c][id] : \A j \in Seen(c)' :
          At(j).id = id /\ k < j => j \in table'[c][id]
    BY <1>8, <2>2
  <2>4. TimesInOrder => \A id \in Ids : Lingers(table'[c][id])
    <3>1. Lingers({})
      BY DEF Lingers
    <3> QED BY <1>12, <2>2, <3>1
  <2>5. TimesInOrder => \A id \in Ids : \A k \in table'[c][id] :
          (\A m \in table'[c][id] : m <= k) => lastCheck'[c] - At(k).ts <= FLOW_TIME_OUT
    BY <1>15, <2>2
  <2>6. OpenInv(c)'
    BY <1>1, <1>13, <1>14, <2>3, <2>4, <2>5, PacketsFixed, TimeFixed DEF OpenInv
  <2> QED BY <1>1, <2>1, <2>6, TimeFixed DEF ThreadTimes
<1>17. ASSUME NEW d \in Cores, d # c PROVE ThreadTimes(d)'
  BY <1>1, <1>17, ThreadTimesFrame DEF TimeInv, TypeOK, ScanPacket
<1> QED BY <1>1, <1>16, <1>17, ResultTimesFrame DEF TimeInv

(* A thread publishes flows as it made them.                                *)
LEMMA PublishTimes ==
  ASSUME IInv, TimeInv, NEW c \in Cores, Publish(c)
  PROVE  TimeInv'
<1> USE DEF IInv
<1>1. /\ pkts' = pkts /\ pkts \in Traces /\ phase = "scan" /\ pc[c] = "scan"
      /\ result' = result \cup Held(c)
      /\ pc' = [pc EXCEPT ![c] = "returned"]
      /\ toAdd' = [toAdd EXCEPT ![c] = {}] /\ table' = [table EXCEPT ![c] = NoFlow]
      /\ UNCHANGED <<cursor, lastCheck, checking, temp, work, checked>>
  BY DEF Publish, TypeOK, checkVars
<1>2. checking = {}
  BY <1>1 DEF CheckInv
<1>3. \A fl \in Held(c) : Unmerged(fl)
  <2>1. ASSUME NEW id \in Ids PROVE Unmerged(table[c][id])
    <3> SUFFICES ASSUME NEW p \in table[c][id], NEW q \in table[c][id], NEW j \in Good,
                        p < j, j < q, At(j).id = At(p).id
                 PROVE  j \in table[c][id]
      BY <1>1 DEF TimeInv, ThreadTimes, OpenInv, Unmerged, Convex
    <3>1. p \in Seen(c) /\ q \in Seen(c) /\ At(p).id = id
      BY DEF ThreadInv
    <3>2. First(c) <= p /\ q < cursor[c] /\ p \in Nat /\ q \in Nat /\ j \in Nat
          /\ First(c) \in Nat /\ cursor[c] \in Nat
      BY <1>1, <3>1, GoodTimes, RangeFacts DEF Seen, TypeOK
    <3>3. First(c) <= j /\ j < cursor[c]
      BY <3>2
    <3>4. j \in Seen(c)
      BY <1>1, <3>3 DEF Seen
    <3> QED BY <3>1, <3>4 DEF TimeInv, ThreadTimes, OpenInv
  <2> QED BY <2>1 DEF Held, TimeInv, ThreadTimes
<1>4. ThreadTimes(c)'
  <2>1. pc'[c] = "returned" /\ table'[c] = NoFlow /\ toAdd'[c] = {}
    BY <1>1 DEF TypeOK
  <2> QED BY <1>1, <2>1, IdleThreadTimes
<1>5. ASSUME NEW d \in Cores, d # c PROVE ThreadTimes(d)'
  BY <1>1, <1>5, ThreadTimesFrame DEF TimeInv, TypeOK
<1>6. ResultTimes'
  <2>1. ASSUME NEW f \in Family, NEW fl \in FlowsOf(f, result') PROVE Unmerged(fl)
    <3>1. fl \in Held(c) \/ fl \in FlowsOf(f, result)
      BY <1>1 DEF FlowsOf
    <3> QED BY <1>2, <1>3, <3>1 DEF TimeInv, ResultTimes
  <2>2. \A f \in Family : \A fl \in temp'[f] : Unmerged(fl)
    BY <1>1 DEF TimeInv, ResultTimes
  <2> QED BY <1>1, <1>2, <2>1, <2>2, TimeFixed DEF ResultTimes
<1> QED BY <1>4, <1>5, <1>6 DEF TimeInv

LEMMA BeginCheckTimes ==
  ASSUME IInv, TimeInv, NEW f \in Family, BeginCheck(f)
  PROVE  TimeInv'
<1> USE DEF IInv
<1>1. /\ pkts' = pkts /\ pkts \in Traces /\ f \notin checking /\ checking' = checking \cup {f}
      /\ temp' = [temp EXCEPT ![f] = FlowsOf(f, result)] /\ result' = result \ FlowsOf(f, result)
      /\ checked' = checked /\ checking \subseteq Family
      /\ UNCHANGED <<pc, cursor, table, toAdd, lastCheck>>
      /\ \A h \in Family : h # f => work'[h] = work[h]
  BY DEF BeginCheck, TypeOK, scanVars
<1>2. ASSUME NEW c \in Cores PROVE ThreadTimes(c)'
  BY <1>1, <1>2, ThreadTimesFrame DEF TimeInv
<1>3. FlowsOf(f, result') = {}
  BY <1>1 DEF FlowsOf
<1>4. \A h \in Family : FlowsOf(h, result') \subseteq FlowsOf(h, result)
  BY <1>1 DEF FlowsOf
<1>5. \A h \in Family : \A fl \in temp'[h] : Unmerged(fl)
  BY <1>1 DEF TimeInv, ResultTimes, TypeOK
<1>6. \A h \in Family \ checking' : \A fl \in FlowsOf(h, result') : Unmerged(fl)
  BY <1>1, <1>4 DEF TimeInv, ResultTimes
<1>7. ASSUME NEW h \in checking', NEW fl \in FlowsOf(h, result')
      PROVE  /\ \E w \in checked'[h] : FlowId(fl) \in work'[h][w]
             /\ TimesInOrder => WithinBound(fl)
  <2>1. h # f /\ h \in checking /\ h \in Family /\ fl \in FlowsOf(h, result)
    BY <1>1, <1>3, <1>4, <1>7
  <2> QED BY <1>1, <2>1 DEF TimeInv, ResultTimes
<1>8. PacketsInOrder =>
        \A h \in checking' : \A a, b \in FlowsOf(h, result') :
          a # b /\ FlowId(a) = FlowId(b) => Apart(a, b)
  BY <1>1, <1>3, <1>4 DEF TimeInv, ResultTimes
<1>9. ResultTimes'
  <2> /\ \A h : FlowsOf(h, result)' = FlowsOf(h, result')
      /\ \A fl : FlowId(fl)' = FlowId(fl)
    BY <1>1, PacketsFixed DEF FlowsOf, IdsOf
  <2>1. (\A h \in Family : \A fl \in temp[h] : Unmerged(fl))'
    BY <1>1, <1>5, TimeFixed
  <2>2. (\A h \in Family \ checking : \A fl \in FlowsOf(h, result) : Unmerged(fl))'
    BY <1>1, <1>6, TimeFixed
  <2>3. (\A h \in checking : \A fl \in FlowsOf(h, result) :
           /\ \E w \in checked[h] : FlowId(fl) \in work[h][w]
           /\ TimesInOrder => WithinBound(fl))'
    BY <1>1, <1>7, TimeFixed
  <2>4. (PacketsInOrder =>
           \A h \in checking : \A a, b \in FlowsOf(h, result) :
             a # b /\ FlowId(a) = FlowId(b) => Apart(a, b))'
    <3>1. PacketsInOrder' = PacketsInOrder /\ \A a, b : Apart(a, b)' = Apart(a, b)
      BY <1>1, TimeFixed
    <3> QED BY <1>8, <3>1
  <2> QED BY <2>1, <2>2, <2>3, <2>4 DEF ResultTimes
<1> QED BY <1>2, <1>9 DEF TimeInv

(* The groups a worker sorts and merges. *)
LEMMA WorkerGroup ==
  ASSUME IInv, TimeInv, NEW f \in Family, NEW w \in CheckCores, NEW id \in work[f][w]
  PROVE  /\ IsGroup(Group(f, id), id)
         /\ \A fl \in Group(f, id) : Unmerged(fl)
         /\ \A o \in Sorted(Group(f, id)) : \A fl \in Merged(o) : FlowId(fl) = id /\ id \in IdsOf(f)
<1> USE DEF IInv
<1>1. pkts \in Traces
  BY DEF TypeOK
<1>2. Disjoint(Group(f, id)) /\ \A fl \in Group(f, id) : Homogeneous(fl) /\ FlowId(fl) = id
  BY DEF CheckInv, Group, Disjoint
<1>3. \A fl \in Group(f, id) : Unmerged(fl)
  BY DEF Group, TimeInv, ResultTimes
<1>4. Group(f, id) \in SUBSET SUBSET Good
  BY GroupType
<1>5. Cardinality(Group(f, id)) \in Nat
  BY <1>1, <1>4, GroupFinite
<1>6. IsGroup(Group(f, id), id)
  BY <1>2, <1>3, <1>4, <1>5 DEF IsGroup, Unmerged
<1>7. ASSUME NEW o \in Sorted(Group(f, id)), NEW fl \in Merged(o)
      PROVE  FlowId(fl) = id /\ id \in IdsOf(f)
  <2>1. FlowId(fl) = id
    BY <1>6, MergedPartition DEF IsGroup
  <2>2. UNION Merged(o) = UNION Group(f, id) /\ fl # {}
    BY <1>6, MergedPartition DEF IsGroup, Homogeneous
  <2>3. \E g \in Group(f, id) : TRUE
    BY <2>2
  <2>4. id \in IdsOf(f)
    BY <2>3 DEF Group, CheckInv
  <2> QED BY <2>1, <2>4
<1> QED BY <1>3, <1>6, <1>7

(* A worker publishes flows that are apart and within bounds.               *)
LEMMA CheckWorkerTimes ==
  ASSUME IInv, TimeInv, NEW f \in Family, NEW w \in CheckCores, CheckWorker(f, w)
  PROVE  TimeInv'
<1> USE DEF IInv
<1>1. /\ pkts' = pkts /\ pkts \in Traces /\ f \in checking /\ w \notin checked[f]
      /\ checked' = [checked EXCEPT ![f] = @ \cup {w}] /\ checking \subseteq Family
      /\ UNCHANGED <<pc, cursor, table, toAdd, lastCheck, checking, temp, work>>
  BY DEF CheckWorker, TypeOK, scanVars
<1>2. PICK order :
        /\ \A id \in work[f][w] : order[id] \in Sorted(Group(f, id))
        /\ result' = result \cup UNION {Merged(order[id]) : id \in work[f][w]}
  BY DEF CheckWorker
<1> DEFINE merged == UNION {Merged(order[id]) : id \in work[f][w]}
<1>3. ASSUME NEW id \in work[f][w]
      PROVE  /\ IsGroup(Group(f, id), id)
             /\ \A fl \in Group(f, id) : Unmerged(fl)
  BY WorkerGroup
<1>4. ASSUME NEW id \in work[f][w], NEW fl \in Merged(order[id])
      PROVE  FlowId(fl) = id /\ id \in IdsOf(f)
  BY <1>2, WorkerGroup
<1>5. ASSUME NEW fl \in merged
      PROVE  /\ FlowId(fl) \in work[f][w] /\ FlowId(fl) \in IdsOf(f)
             /\ fl \in Merged(order[FlowId(fl)])
  <2>1. PICK id \in work[f][w] : fl \in Merged(order[id])
    OBVIOUS
  <2> QED BY <1>4, <2>1
<1>6. ASSUME TimesInOrder, NEW fl \in merged PROVE WithinBound(fl)
  <2>1. PacketsInOrder
    BY <1>1, <1>6, TimesThenPackets
  <2>2. FlowId(fl) \in work[f][w] /\ fl \in Merged(order[FlowId(fl)])
    BY <1>5
  <2>3. \A g \in Group(f, FlowId(fl)) : Lingers(g)
    BY <1>3, <1>6, <2>2 DEF Unmerged
  <2>4. order[FlowId(fl)] \in Sorted(Group(f, FlowId(fl))) /\ IsGroup(Group(f, FlowId(fl)), FlowId(fl))
    BY <1>2, <1>3, <2>2
  <2> QED BY <1>1, <2>1, <2>2, <2>3, <2>4, MergedWithinBound
<1>7. ASSUME PacketsInOrder, NEW a \in merged, NEW b \in merged, a # b, FlowId(a) = FlowId(b)
      PROVE  Apart(a, b)
  <2>1. FlowId(a) \in work[f][w] /\ a \in Merged(order[FlowId(a)]) /\ b \in Merged(order[FlowId(a)])
    BY <1>5, <1>7
  <2>2. order[FlowId(a)] \in Sorted(Group(f, FlowId(a))) /\ IsGroup(Group(f, FlowId(a)), FlowId(a))
    BY <1>2, <1>3, <2>1
  <2> QED BY <1>1, <1>7, <2>1, <2>2, MergedApart
<1>8. ASSUME NEW a \in FlowsOf(f, result), NEW b \in merged PROVE FlowId(a) # FlowId(b)
  <2>1. PICK v \in checked[f] : FlowId(a) \in work[f][v]
    BY <1>1 DEF TimeInv, ResultTimes
  <2>2. v # w /\ v \in CheckCores
    BY <1>1, <2>1 DEF TypeOK
  <2>3. work[f][v] \cap work[f][w] = {}
    BY <2>2 DEF CheckInv
  <2> QED BY <1>5, <2>1, <2>3
<1>9. result' = result \cup merged
  BY <1>2
<1> HIDE DEF merged
<1>10. FlowsOf(f, result') \subseteq FlowsOf(f, result) \cup merged
  BY <1>9 DEF FlowsOf
<1>11. \A h \in Family : h # f => FlowsOf(h, result') = FlowsOf(h, result)
  <2>1. \A h \in Family : h # f => \A fl \in merged : FlowId(fl) \notin IdsOf(h)
    BY <1>5, FamiliesDisjoint
  <2> QED BY <1>9, <2>1 DEF FlowsOf
<1>12. checked'[f] = checked[f] \cup {w} /\ \A h \in Family : h # f => checked'[h] = checked[h]
  BY <1>1 DEF TypeOK
<1>13. \A h \in Family \ checking : \A fl \in FlowsOf(h, result') : Unmerged(fl)
  BY <1>1, <1>11 DEF TimeInv, ResultTimes
<1>14. ASSUME NEW h \in checking, NEW fl \in FlowsOf(h, result')
       PROVE  /\ \E v \in checked'[h] : FlowId(fl) \in work[h][v]
              /\ TimesInOrder => WithinBound(fl)
  <2>1. CASE fl \in FlowsOf(h, result)
    <3>1. \E v \in checked[h] : FlowId(fl) \in work[h][v]
      BY <2>1 DEF TimeInv, ResultTimes
    <3>2. checked[h] \subseteq checked'[h]
      BY <1>1, <1>12
    <3> QED BY <2>1, <3>1, <3>2 DEF TimeInv, ResultTimes
  <2>2. CASE fl \notin FlowsOf(h, result)
    <3>1. h = f /\ fl \in merged
      BY <1>1, <1>10, <1>11, <1>14, <2>2
    <3> QED BY <1>5, <1>6, <1>12, <3>1
  <2> QED BY <2>1, <2>2
<1>15. ASSUME PacketsInOrder, NEW h \in checking,
              NEW a \in FlowsOf(h, result'), NEW b \in FlowsOf(h, result'),
              a # b, FlowId(a) = FlowId(b)
       PROVE  Apart(a, b)
  <2>1. CASE a \in FlowsOf(h, result) /\ b \in FlowsOf(h, result)
    BY <1>15, <2>1 DEF TimeInv, ResultTimes
  <2>2. CASE h = f /\ a \in merged /\ b \in merged
    BY <1>7, <1>15, <2>2
  <2>3. ASSUME h = f, a \in FlowsOf(h, result), b \in merged PROVE FALSE
    BY <1>8, <1>15, <2>3
  <2>4. ASSUME h = f, b \in FlowsOf(h, result), a \in merged PROVE FALSE
    BY <1>8, <1>15, <2>4
  <2>5. h # f => a \in FlowsOf(h, result) /\ b \in FlowsOf(h, result)
    BY <1>1, <1>11
  <2> QED BY <1>10, <2>1, <2>2, <2>3, <2>4, <2>5
<1>16. ResultTimes'
  <2>1. \A h \in Family : \A fl \in temp[h] : Unmerged(fl)
    BY DEF TimeInv, ResultTimes
  <2> QED BY <1>1, <1>13, <1>14, <1>15, <2>1, PacketsFixed, TimeFixed DEF ResultTimes
<1>17. ASSUME NEW c \in Cores PROVE ThreadTimes(c)'
  BY <1>1, <1>17, ThreadTimesFrame DEF TimeInv
<1> QED BY <1>16, <1>17 DEF TimeInv

LEMMA StepTimes == IInv /\ TimeInv /\ [Next]_vars => TimeInv'
<1> SUFFICES ASSUME IInv, TimeInv, [Next]_vars PROVE TimeInv'
  OBVIOUS
<1>1. ASSUME NEW c \in Cores, ScanStep(c), ~StartThrows(c) PROVE TimeInv'
  BY <1>1, ReturnEmptyTimes, StartTimes, SkipBadTimes, ScanPacketTimes, PublishTimes DEF ScanStep
<1>2. ASSUME NEW f \in Family, CheckStep(f), \A w \in CheckCores : ~SortUndefined(f, w)
      PROVE  TimeInv'
  BY <1>2, BeginCheckTimes, CheckWorkerTimes DEF CheckStep, WorkerStep
<1>3. CASE \/ \E c \in Cores : StartThrows(c)
           \/ \E f \in Family : \E w \in CheckCores : SortUndefined(f, w)
           \/ Join \/ JoinCheck \/ Finished \/ UNCHANGED vars
  <2>1. UNCHANGED <<pkts, pc, cursor, table, toAdd, lastCheck, result, checking, temp, work, checked>>
    BY <1>3 DEF StartThrows, SortUndefined, Join, JoinCheck, Finished, vars, scanVars, checkVars
  <2>2. \A c \in Cores : ThreadTimes(c)'
    BY <2>1, ThreadTimesFrame DEF TimeInv
  <2> QED BY <2>1, <2>2, ResultTimesFrame DEF TimeInv
<1> QED BY <1>1, <1>2, <1>3 DEF Next, CheckStep, WorkerStep

LEMMA InitTimes == Init => TimeInv
<1> SUFFICES ASSUME Init PROVE TimeInv
  OBVIOUS
<1>1. \A c \in Cores : ThreadTimes(c)
  BY DEF Init, NotStarted, ThreadTimes, OpenInv, NoFlow
<1>2. ResultTimes
  BY DEF Init, NotStarted, ResultTimes, FlowsOf
<1> QED BY <1>1, <1>2 DEF TimeInv

(* The flows construct_flow returns have been published by the double check. *)
LEMMA DoneTimes ==
  ASSUME IInv, TimeInv, DoneInv, phase = "done", NEW fl \in result
  PROVE  \E f \in checking : fl \in FlowsOf(f, result)
<1>1. fl \in SUBSET Good /\ Homogeneous(fl)
  BY DEF IInv, TypeOK, ResultInv
<1>2. PICK i \in fl : FlowId(fl) = At(i).id
  BY <1>1, FlowIdOf DEF Homogeneous
<1>3. FlowId(fl) \in Ids
  BY <1>1, <1>2 DEF Good
<1>4. PICK f \in Family : FlowId(fl) \in IdsOf(f)
  BY <1>3 DEF Ids, IdsOf, Family
<1> QED BY <1>4 DEF DoneInv, FlowsOf

(* The whole inductive invariant of construct_flow, and what it says of the  *)
(* flows it returns.                                                         *)
FlowInv == IInv /\ TimeInv /\ DoneInv /\ SortDefined

LEMMA InitFlow == Init => FlowInv
BY InitInv, InitTimes, InitDone DEF FlowInv, SortDefined, Init

(* Packets in capture order give std::sort groups that Less orders.         *)
LEMMA StepSort ==
  IInv /\ TimeInv /\ SortDefined /\ [Next]_vars => SortDefined'
<1> SUFFICES ASSUME IInv, TimeInv, SortDefined, [Next]_vars, PacketsInOrder, phase' = "undefined"
             PROVE  FALSE
  BY NextKeepsPackets, TimeFixed DEF SortDefined
<1>1. phase # "undefined"
  BY DEF SortDefined
<1>2. PICK f \in Family, w \in CheckCores : SortUndefined(f, w)
  BY <1>1 DEF Next, ScanStep, ReturnEmpty, Start, StartThrows, SkipBad, ScanPacket, Publish, Join,
              CheckStep, BeginCheck, WorkerStep, CheckWorker, JoinCheck, Finished, vars
<1>3. PICK id \in work[f][w] : ~Orderly(Group(f, id))
  BY <1>2 DEF SortUndefined
<1>4. IsGroup(Group(f, id), id)
  BY WorkerGroup
<1> QED BY <1>3, <1>4, GroupOrderly DEF IInv, TypeOK

LEMMA StepFlow == FlowInv /\ [Next]_vars => FlowInv'
BY StepInv, StepTimes, StepDone, StepSort DEF FlowInv

LEMMA InvSeparated == FlowInv /\ PacketsInOrder => SameIdSeparated
<1> SUFFICES ASSUME FlowInv, PacketsInOrder, phase = "done",
                    NEW a \in result, NEW b \in result, a # b, FlowId(a) = FlowId(b)
             PROVE  Apart(a, b)
  BY DEF SameIdSeparated, Apart
<1>1. PICK f \in checking : a \in FlowsOf(f, result)
  BY DoneTimes DEF FlowInv
<1>2. b \in FlowsOf(f, result)
  BY <1>1 DEF FlowsOf
<1> QED BY <1>1, <1>2 DEF FlowInv, TimeInv, ResultTimes

LEMMA InvBounded == FlowInv /\ TimesInOrder => LingerBound
<1> SUFFICES ASSUME FlowInv, TimesInOrder, phase = "done", NEW fl \in result
             PROVE  WithinBound(fl)
  BY DEF LingerBound, WithinBound, Adjacent, SeenSilence
<1>1. PICK f \in checking : fl \in FlowsOf(f, result)
  BY DoneTimes DEF FlowInv
<1> QED BY <1>1 DEF FlowInv, TimeInv, ResultTimes

(* In a capture in the order of its packets' times no two flows of a 5-tuple *)
(* overlap, whatever the ranges cut and the threads evicted: std::sort gets  *)
(* the order it requires (lines 180, 258).                                   *)
THEOREM SortsDefined == Spec => []SortDefined
<1>1. FlowInv => SortDefined
  BY DEF FlowInv
<1> QED BY <1>1, InitFlow, StepFlow, PTL DEF Spec

(* After construct_flow, two flows of one 5-tuple are the flow time-out      *)
(* apart, for every capture in the order of its packets' times, every cut of *)
(* it into thread ranges and every way of sorting (lines 37-137, 165-235).   *)
THEOREM FlowsSeparated == Spec => [](PacketsInOrder => SameIdSeparated)
BY InitFlow, StepFlow, InvSeparated, PTL DEF Spec

(* A silence of the time-out or more stays inside a flow only when the       *)
(* thread that saw it met no packet later than time-out plus check interval  *)
(* in it, for every capture whose times are in order and whose bad packets   *)
(* are no later than the good ones after them (lines 51-110).                *)
THEOREM SilencesBounded == Spec => [](TimesInOrder => LingerBound)
BY InitFlow, StepFlow, InvBounded, PTL DEF Spec

-------------------------------------------------------------------------------
(* The flows FlowSpec defines *)

(* The packets of thread c's range are those FlowSpec calls its chunk. *)
LEMMA ChunkOfRange ==
  ASSUME pkts \in Traces, NEW c \in Cores, NEW i \in Index
  PROVE  /\ i \in Slice(N, Multiplex, c) <=> Abstract!Chunk(i) = c
         /\ i \in Slice(N, Multiplex, c) => (Abstract!Opens(pkts, i) <=> i = First(c))
<1> DEFINE p == PartSize(N, Multiplex)
<1>1. N \in Nat /\ i \in Nat /\ i < N /\ c \in Nat
  BY TraceFacts, MultiplexAssumption DEF Index, Cores
<1>2. p \in Nat /\ p > 0
  BY <1>1, PartSizeBound, MultiplexAssumption
<1>3. Abstract!Chunk(i) = i \div p
  BY DEF Abstract!Chunk, Abstract!N, Abstract!PartSize, PartSize, N
<1>4. i \in Slice(N, Multiplex, c) <=> c * p <= i /\ i < c * p + p
  <2>1. c * p \in Nat
    BY <1>1, <1>2
  <2> QED BY <1>1, <1>2, <2>1 DEF Slice, From, To, Least
<1>5. i \div p \in Int /\ p * (i \div p) <= i /\ i < p * (i \div p) + p
  <2> HIDE DEF p
  <2> QED BY <1>1, <1>2
<1>6. ASSUME c * p <= i, i < c * p + p PROVE i \div p = c
  <2> DEFINE d == i \div p
  <2>1. d \in Nat
    <3>1. CASE d < 0
      <4>1. p * d <= p * (-1)
        BY <1>2, <1>5, <3>1
      <4> QED BY <1>1, <1>2, <1>5, <4>1
    <3> QED BY <1>5, <3>1
  <2>2. d * p \in Nat /\ c * p \in Nat /\ p * d = d * p
    BY <1>1, <1>2, <2>1
  <2> HIDE DEF p, d
  <2>3. ~(d < c)
    <3> SUFFICES ASSUME d < c PROVE FALSE
      OBVIOUS
    <3>1. d * p + p <= c * p
      BY <1>1, <1>2, <2>1, PartsMonotone
    <3> QED BY <1>1, <1>2, <1>5, <1>6, <2>2, <3>1 DEF d
  <2>4. ~(c < d)
    <3> SUFFICES ASSUME c < d PROVE FALSE
      OBVIOUS
    <3>1. c * p + p <= d * p
      BY <1>1, <1>2, <2>1, PartsMonotone
    <3> QED BY <1>1, <1>2, <1>5, <1>6, <2>2, <3>1 DEF d
  <2>5. d = c
    BY <1>1, <2>1, <2>3, <2>4
  <2> QED BY <2>5 DEF d
<1>7. i \div p = c => c * p <= i /\ i < c * p + p
  <2> HIDE DEF p
  <2> SUFFICES ASSUME i \div p = c PROVE c * p <= i /\ i < c * p + p
    OBVIOUS
  <2>1. p * c = c * p
    BY <1>1, <1>2
  <2> QED BY <1>1, <1>2, <1>5, <2>1
<1>8. i \in Slice(N, Multiplex, c) <=> Abstract!Chunk(i) = c
  <2> HIDE DEF p
  <2> QED BY <1>3, <1>4, <1>6, <1>7
<1>9. i \in Slice(N, Multiplex, c) => (Abstract!Opens(pkts, i) <=> i = First(c))
  BY <1>8 DEF Abstract!Opens, Abstract!Chunk, Abstract!N, Abstract!From, Abstract!PartSize,
                From, PartSize, N, First
<1> QED BY <1>8, <1>9

(* FlowSpec's check times exist, although defined by recursion. *)
LEMMA CheckTimesExist ==
  ASSUME NEW P, Len(P) \in Nat
  PROVE  \E t : t = [i \in 0 .. Len(P) - 1 |-> Abstract!CheckTime(t, P, i)]
<1> DEFINE n == Len(P)
           upTo(t, k) == \A i \in 0 .. n - 1 : i < k => t[i] = Abstract!CheckTime(t, P, i)
           K == {k \in Nat : \E t : t = [i \in 0 .. n - 1 |-> t[i]] /\ upTo(t, k)}
<1>1. n > 0 => Abstract!Opens(P, 0)
  <2>1. n > 0 => PartSize(n, Multiplex) \in Nat /\ PartSize(n, Multiplex) > 0
    BY PartSizeBound, MultiplexAssumption
  <2>2. \A p \in Nat : p > 0 => 0 \div p = 0 /\ 0 * p = 0
    OBVIOUS
  <2> QED BY <2>1, <2>2 DEF Abstract!Opens, Abstract!From, Abstract!PartSize, PartSize
<1>2. 0 \in K
  <2> DEFINE t == [i \in 0 .. n - 1 |-> 0]
  <2>1. t = [i \in 0 .. n - 1 |-> t[i]] /\ upTo(t, 0)
    OBVIOUS
  <2> HIDE DEF t, upTo
  <2> QED BY <2>1
<1>3. ASSUME NEW k \in K PROVE k + 1 \in K
  <2>1. PICK t : upTo(t, k)
    OBVIOUS
  <2> DEFINE h == [i \in 0 .. n - 1 |-> Abstract!CheckTime(t, P, i)]
  <2>2. \A i \in 0 .. n - 1 : i < k => h[i] = t[i]
    BY <2>1
  <2>3. ASSUME NEW i \in 0 .. n - 1, i < k + 1
        PROVE  h[i] = Abstract!CheckTime(h, P, i)
    <3>1. Abstract!Before(h, P, i) = Abstract!Before(t, P, i)
      <4>1. CASE Abstract!Opens(P, i)
        BY <4>1 DEF Abstract!Before
      <4>2. CASE ~Abstract!Opens(P, i)
        <5>1. i # 0
          BY <1>1, <4>2
        <5>2. i - 1 \in 0 .. n - 1 /\ i - 1 < k
          BY <2>3, <5>1
        <5>3. h[i - 1] = t[i - 1]
          BY <2>2, <5>2
        <5> QED BY <4>2, <5>3, Zenon DEF Abstract!Before
      <4> QED BY <4>1, <4>2
    <3>2. h[i] = Abstract!CheckTime(t, P, i)
      OBVIOUS
    <3> HIDE DEF h
    <3> QED BY <3>1, <3>2, Zenon DEF Abstract!CheckTime
  <2>4. h = [i \in 0 .. n - 1 |-> h[i]] /\ upTo(h, k + 1)
    BY <2>3
  <2> HIDE DEF h, upTo
  <2> QED BY <2>4
<1>4. n \in K
  <2>1. K = Nat
    <3>1. K \subseteq Nat
      OBVIOUS
    <3> HIDE DEF K
    <3> QED BY <1>2, <1>3, <3>1, SetOfNaturalsInduction
  <2> QED BY <2>1
<1>5. PICK t : t = [i \in 0 .. n - 1 |-> t[i]] /\ upTo(t, n)
  BY <1>4
<1>6. \A i \in 0 .. n - 1 : t[i] = Abstract!CheckTime(t, P, i)
  BY <1>5
<1>7. t = [i \in 0 .. n - 1 |-> Abstract!CheckTime(t, P, i)]
  <2>1. [i \in 0 .. n - 1 |-> t[i]] = [i \in 0 .. n - 1 |-> Abstract!CheckTime(t, P, i)]
    BY <1>6, Zenon
  <2> QED BY <1>5, <2>1, Zenon
<1> QED BY <1>7

(* They satisfy their recursion on the packets of the capture. *)
LEMMA LastCheckOf ==
  ASSUME pkts \in Traces, NEW i \in Index
  PROVE  Abstract!LastCheck[i] = Abstract!CheckTime(Abstract!LastCheck, pkts, i)
<1> DEFINE t == Abstract!LastCheck
<1>1. Len(pkts) \in Nat
  BY TraceFacts DEF N
<1>2. \E u : u = [j \in 0 .. Len(pkts) - 1 |-> Abstract!CheckTime(u, pkts, j)]
  BY <1>1, CheckTimesExist
<1>3. t = [j \in 0 .. Len(pkts) - 1 |-> Abstract!CheckTime(t, pkts, j)]
  <2>1. t = CHOOSE u : u = [j \in 0 .. Len(pkts) - 1 |-> Abstract!CheckTime(u, pkts, j)]
    BY Zenon DEF Abstract!LastCheck, Abstract!LastChecks
  <2> HIDE DEF t
  <2> QED BY <1>2, <2>1, Zenon
<1>4. i \in 0 .. Len(pkts) - 1
  BY DEF Index, N
<1> HIDE DEF t
<1>5. t[i] = Abstract!CheckTime(t, pkts, i)
  BY <1>3, <1>4, Zenon
<1> QED BY <1>5 DEF t

(* q is the next packet of p's id, and FlowSpec leaves it in p's flow though  *)
(* no merge is needed: they are of one range.                                *)
Follows(p, q) ==
  /\ p < q /\ At(p).id = At(q).id
  /\ \A j \in Good : At(j).id = At(p).id => ~(p < j /\ j < q)
Continues(p, q) == Follows(p, q) /\ Abstract!Chunk(p) = Abstract!Chunk(q) /\ ~Abstract!Broken(p, q)

Whole(fl) == \A p \in fl : \A q \in Good : Continues(p, q) => q \in fl

(* A flow as a thread made it, and one the double check may have merged. *)
Exact(fl) == Whole(fl) /\ \A p, q \in fl : Adjacent(fl, p, q) => Continues(p, q)
Joined(fl) ==
  /\ Whole(fl)
  /\ \A p, q \in fl : Adjacent(fl, p, q) => Continues(p, q) \/ At(q).ts - At(p).ts < FLOW_TIME_OUT

CheckedUpTo(c) ==
  IF cursor[c] = First(c) THEN At(First(c)).ts ELSE Abstract!LastCheck[cursor[c] - 1]

(* The thread has checked when FlowSpec says it did, its open flows have not *)
(* been broken, and no check so far has found them idle.                     *)
ThreadExact(c) ==
  /\ pc[c] = "scan" =>
       /\ lastCheck[c] = CheckedUpTo(c)
       /\ \A id \in Ids : \A p \in table[c][id] : (\A m \in table[c][id] : m <= p) =>
            \A r \in Good : p < r /\ r < cursor[c] /\ Abstract!Checked(r) =>
              At(r).ts - At(p).ts <= FLOW_TIME_OUT
  /\ \A id \in Ids : \A p, q \in table[c][id] : Adjacent(table[c][id], p, q) => Continues(p, q)
  /\ \A fl \in toAdd[c] : Exact(fl)

ResultExact ==
  /\ \A f \in Family \ checking : \A fl \in FlowsOf(f, result) : Exact(fl)
  /\ \A f \in Family : \A fl \in temp[f] : Exact(fl)
  /\ \A f \in checking : \A fl \in FlowsOf(f, result) : Joined(fl)

ExactInv == (\A c \in Cores : ThreadExact(c)) /\ ResultExact

(* FlowSpec's notions too read nothing but the packets. *)
LEMMA SpecNotionsFixed ==
  ASSUME pkts' = pkts
  PROVE  /\ Abstract!LastCheck' = Abstract!LastCheck
         /\ \A i : Abstract!Checked(i)' = Abstract!Checked(i)
         /\ \A i : Abstract!Chunk(i)' = Abstract!Chunk(i)
         /\ \A p, q : Abstract!Broken(p, q)' = Abstract!Broken(p, q)
         /\ Abstract!Good' = Abstract!Good
         /\ \A i : Abstract!FlowOf(i)' = Abstract!FlowOf(i)
<1>1. Abstract!LastCheck' = Abstract!LastCheck
  BY DEF Abstract!LastCheck
<1>2. \A i : Abstract!Checked(i)' = Abstract!Checked(i)
  BY <1>1 DEF Abstract!Checked
<1>3. /\ Abstract!N' = Abstract!N
      /\ \A i : Abstract!At(i)' = Abstract!At(i) /\ Abstract!Chunk(i)' = Abstract!Chunk(i)
  BY DEF Abstract!N, Abstract!At, Abstract!Chunk
<1>4. Abstract!Good' = Abstract!Good
  BY <1>3 DEF Abstract!Good
<1>5. \A p, q : Abstract!Broken(p, q)' = Abstract!Broken(p, q)
  BY <1>2, <1>3, <1>4 DEF Abstract!Broken
<1>6. \A i : Abstract!SameId(i)' = Abstract!SameId(i)
  BY <1>3, <1>4 DEF Abstract!SameId
<1>7. \A i : Abstract!FlowOf(i)' = Abstract!FlowOf(i)
  BY <1>5, <1>6 DEF Abstract!FlowOf
<1> QED BY <1>1, <1>2, <1>3, <1>4, <1>5, <1>7

(* So do the notions of this section. *)
LEMMA SpecFixed ==
  ASSUME pkts' = pkts
  PROVE  /\ Abstract!LastCheck' = Abstract!LastCheck
         /\ \A i : Abstract!Checked(i)' = Abstract!Checked(i)
         /\ \A p, q : Continues(p, q)' = Continues(p, q)
         /\ \A fl : Exact(fl)' = Exact(fl) /\ Joined(fl)' = Joined(fl)
<1>1. \A p, q : Follows(p, q)' = Follows(p, q)
  BY PacketsFixed DEF Follows
<1>2. \A p, q : Continues(p, q)' = Continues(p, q)
  BY <1>1, SpecNotionsFixed DEF Continues
<1>3. \A fl : Whole(fl)' = Whole(fl)
  BY <1>2, PacketsFixed DEF Whole
<1>4. ASSUME NEW fl PROVE Exact(fl)' = Exact(fl) /\ Joined(fl)' = Joined(fl)
  BY <1>2, <1>3, PacketsFixed DEF Exact, Joined, Adjacent
<1> QED BY <1>2, <1>4, SpecNotionsFixed

(* FlowSpec reads the packets as the code does. *)
LEMMA SpecPackets ==
  /\ Abstract!N = N /\ Abstract!Good = Good
  /\ \A i : Abstract!At(i) = At(i)
BY DEF Abstract!N, Abstract!Good, Abstract!At, N, Good, Index, At

(* A thread that does not move, and steps that leave the results alone. *)
LEMMA ThreadExactFrame ==
  ASSUME pkts' = pkts, NEW c \in Cores, ThreadExact(c), pc'[c] = pc[c], cursor'[c] = cursor[c],
         table'[c] = table[c], toAdd'[c] = toAdd[c], lastCheck'[c] = lastCheck[c]
  PROVE  ThreadExact(c)'
<1>1. CheckedUpTo(c)' = CheckedUpTo(c)
  BY PacketsFixed, SpecFixed DEF CheckedUpTo
<1> QED BY <1>1, PacketsFixed, SpecFixed DEF ThreadExact, Adjacent

LEMMA ResultExactFrame ==
  ASSUME pkts' = pkts, ResultExact, UNCHANGED <<result, checking, temp>>
  PROVE  ResultExact'
BY TimeFixed, SpecFixed DEF ResultExact

(* A thread with no flows that is not scanning. *)
LEMMA IdleThreadExact ==
  ASSUME NEW c \in Cores, pc'[c] # "scan", table'[c] = NoFlow, toAdd'[c] = {}
  PROVE  ThreadExact(c)'
BY DEF ThreadExact, NoFlow

(* The steps of a thread. *)
LEMMA ReturnEmptyExact ==
  ASSUME IInv, ExactInv, NEW c \in Cores, ReturnEmpty(c)
  PROVE  ExactInv'
<1>1. pkts' = pkts /\ pc' = [pc EXCEPT ![c] = "returned"] /\ pc[c] = "spawned"
      /\ UNCHANGED <<cursor, table, toAdd, lastCheck, result, checking, temp>>
  BY DEF ReturnEmpty, checkVars
<1>2. ThreadExact(c)'
  <2>1. pc'[c] = "returned" /\ table'[c] = NoFlow /\ toAdd'[c] = {}
    BY <1>1 DEF IInv, TypeOK, ThreadInv
  <2> QED BY <2>1, IdleThreadExact
<1>3. ASSUME NEW d \in Cores, d # c PROVE ThreadExact(d)'
  BY <1>1, <1>3, ThreadExactFrame DEF ExactInv, IInv, TypeOK
<1> QED BY <1>1, <1>2, <1>3, ResultExactFrame DEF ExactInv

LEMMA StartExact ==
  ASSUME IInv, ExactInv, NEW c \in Cores, Start(c)
  PROVE  ExactInv'
<1>1. /\ pkts' = pkts /\ pc[c] = "spawned"
      /\ pc' = [pc EXCEPT ![c] = "scan"]
      /\ cursor' = [cursor EXCEPT ![c] = First(c)]
      /\ lastCheck' = [lastCheck EXCEPT ![c] = At(First(c)).ts]
      /\ UNCHANGED <<table, toAdd, result, checking, temp>>
  BY DEF Start, checkVars
<1>2. ThreadExact(c)'
  <2>1. /\ cursor'[c] = First(c) /\ lastCheck'[c] = At(First(c)).ts
        /\ table'[c] = NoFlow /\ toAdd'[c] = {}
    BY <1>1 DEF IInv, TypeOK, ThreadInv
  <2>2. lastCheck'[c] = CheckedUpTo(c)'
    BY <1>1, <2>1, PacketsFixed DEF CheckedUpTo
  <2> QED BY <2>1, <2>2 DEF ThreadExact, NoFlow
<1>3. ASSUME NEW d \in Cores, d # c PROVE ThreadExact(d)'
  BY <1>1, <1>3, ThreadExactFrame DEF ExactInv, IInv, TypeOK
<1> QED BY <1>1, <1>2, <1>3, ResultExactFrame DEF ExactInv

(* What FlowSpec makes of the packet a thread is about to scan. *)
LEMMA ScanAsSpec ==
  ASSUME IInv, NEW c \in Cores, pc[c] = "scan", cursor[c] < Last(c), lastCheck[c] = CheckedUpTo(c)
  PROVE  LET i == cursor[c]
         IN  /\ i \in Slice(N, Multiplex, c) /\ i \in Index /\ First(c) <= i
             /\ Abstract!LastCheck[i] =
                  IF At(i).id \in Ids /\ CheckDue(c, At(i).ts) THEN At(i).ts ELSE lastCheck[c]
             /\ At(i).id \in Ids => (Abstract!Checked(i) <=> CheckDue(c, At(i).ts))
<1> DEFINE i == cursor[c]
           L == Abstract!LastCheck
<1>1. i \in Slice(N, Multiplex, c) /\ i \in Index /\ First(c) <= i /\ pkts \in Traces /\ i \in Nat
  <2>1. First(c) \in Nat /\ Last(c) \in Nat /\ Last(c) <= N /\ cursor[c] \in Nat /\ N \in Nat
    BY RangeFacts, TraceFacts DEF IInv, TypeOK
  <2>2. First(c) <= cursor[c]
    BY DEF IInv, ThreadInv
  <2> QED BY <2>1, <2>2 DEF Slice, First, Last, Index, IInv, TypeOK
<1>2. Abstract!Opens(pkts, i) <=> i = First(c)
  BY <1>1, ChunkOfRange
<1>3. Abstract!Before(L, pkts, i) = lastCheck[c]
  BY <1>2 DEF Abstract!Before, CheckedUpTo, At
<1>4. L[i] = Abstract!CheckTime(L, pkts, i)
  BY <1>1, LastCheckOf
<1>5. lastCheck[c] \in Int /\ EVICT_FLOW_TIME_OUT \in Nat
  <2>1. lastCheck \in [Cores -> Times \cup {0}]
    BY DEF IInv, TypeOK
  <2>2. lastCheck[c] \in Times \cup {0}
    BY <2>1
  <2>3. Times \cup {0} \subseteq Int
    BY ONLY TimeAssumption
  <2> QED BY <2>2, <2>3, TimeAssumption
<1>6. At(i).id \in Ids => At(i).ts \in Int
  <2>1. At(i).id \in Ids => i \in Good
    BY <1>1 DEF Good
  <2> QED BY <1>1, <2>1, GoodTimes
<1>7. L[i] = IF At(i).id \in Ids /\ CheckDue(c, At(i).ts) THEN At(i).ts ELSE lastCheck[c]
  <2> HIDE DEF i, L
  <2>1. pkts[i + 1] = At(i)
    BY DEF At
  <2>2. At(i).id \in Ids =>
          (At(i).ts - lastCheck[c] > EVICT_FLOW_TIME_OUT <=> CheckDue(c, At(i).ts))
    BY <1>5, <1>6 DEF CheckDue
  <2> QED BY <1>3, <1>4, <2>1, <2>2 DEF Abstract!CheckTime
<1>8. ASSUME At(i).id \in Ids PROVE Abstract!Checked(i) <=> CheckDue(c, At(i).ts)
  <2>1. CASE i = First(c)
    <3>1. lastCheck[c] = At(i).ts
      BY <2>1 DEF CheckedUpTo
    <3>2. ~CheckDue(c, At(i).ts)
      BY <1>5, <3>1 DEF CheckDue
    <3> QED BY <1>2, <2>1, <3>2 DEF Abstract!Checked
  <2>2. CASE i # First(c)
    <3>1. L[i - 1] = lastCheck[c]
      BY <2>2 DEF CheckedUpTo
    <3>2. CheckDue(c, At(i).ts) => At(i).ts # lastCheck[c]
      BY <1>5, <1>6, <1>8 DEF CheckDue
    <3>3. Abstract!Checked(i) <=> L[i] # L[i - 1]
      BY <1>2, <2>2 DEF Abstract!Checked
    <3> HIDE DEF i, L
    <3> QED BY <1>7, <1>8, <3>1, <3>2, <3>3
  <2> QED BY <2>1, <2>2
<1> QED BY <1>1, <1>7, <1>8

LEMMA SkipBadExact ==
  ASSUME IInv, ExactInv, NEW c \in Cores, SkipBad(c)
  PROVE  ExactInv'
<1>1. /\ pkts' = pkts /\ pc[c] = "scan" /\ At(cursor[c]).id = BadId /\ cursor[c] < Last(c)
      /\ cursor' = [cursor EXCEPT ![c] = @ + 1]
      /\ UNCHANGED <<pc, table, toAdd, lastCheck, result, checking, temp>>
  BY DEF SkipBad, checkVars
<1>2. ThreadExact(c)'
  <2>1. cursor'[c] = cursor[c] + 1 /\ cursor[c] \in Nat /\ pkts \in Traces
        /\ cursor[c] \notin Good /\ At(cursor[c]).id \notin Ids
    BY <1>1, IdAssumption, TraceFacts DEF IInv, TypeOK, Good, Ids
  <2>2. /\ lastCheck[c] = CheckedUpTo(c)
        /\ \A id \in Ids : \A p \in table[c][id] : (\A m \in table[c][id] : m <= p) =>
             \A r \in Good : p < r /\ r < cursor[c] /\ Abstract!Checked(r) =>
               At(r).ts - At(p).ts <= FLOW_TIME_OUT
    BY <1>1 DEF ExactInv, ThreadExact
  <2>3. First(c) <= cursor[c] /\ Abstract!LastCheck[cursor[c]] = lastCheck[c]
    BY <1>1, <2>1, <2>2, ScanAsSpec
  <2>4. lastCheck'[c] = CheckedUpTo(c)'
    <3>1. First(c) \in Nat
      BY <2>1, RangeFacts
    <3>2. cursor[c] + 1 # First(c) /\ cursor[c] + 1 - 1 = cursor[c]
      BY <2>1, <2>3, <3>1
    <3> QED BY <1>1, <2>1, <2>3, <3>2, PacketsFixed, SpecFixed DEF CheckedUpTo
  <2>5. \A r \in Good : r < cursor'[c] => r < cursor[c]
    <3>1. \A r \in Good : r \in Nat /\ r # cursor[c]
      BY <2>1, GoodTimes
    <3> QED BY <2>1, <3>1
  <2> QED BY <1>1, <2>2, <2>4, <2>5, PacketsFixed, SpecFixed DEF ExactInv, ThreadExact, Adjacent
<1>3. ASSUME NEW d \in Cores, d # c PROVE ThreadExact(d)'
  BY <1>1, <1>3, ThreadExactFrame DEF ExactInv, IInv, TypeOK
<1> QED BY <1>1, <1>2, <1>3, ResultExactFrame DEF ExactInv

(* A packet scanned at a check that comes too late after p breaks p's flow. *)
LEMMA CheckBreaks ==
  ASSUME pkts \in Traces, NEW p, NEW q, Continues(p, q),
         NEW r \in Good, p < r, r < q, Abstract!Checked(r)
  PROVE  ~(At(r).ts - At(p).ts > FLOW_TIME_OUT)
BY SpecPackets DEF Continues, Abstract!Broken

(* The packet joins an unbroken flow, and the flows a check evicts are those *)
(* that FlowSpec breaks there.                                               *)
LEMMA ScanPacketExact ==
  ASSUME PacketsInOrder, IInv, TimeInv, ExactInv, NEW c \in Cores, ScanPacket(c)
  PROVE  ExactInv'
<1> DEFINE i == cursor[c]
           now == At(i).ts
           G(id) == Grown(c)[id]
           evicted == {id \in Ids : CheckDue(c, now) /\ G(id) # {} /\ Idle(G(id), now)}
<1> USE DEF IInv
<1>1. /\ pkts' = pkts /\ pkts \in Traces /\ pc[c] = "scan" /\ pc'[c] = "scan"
      /\ cursor'[c] = i + 1 /\ i < Last(c) /\ At(i).id \in Ids
      /\ lastCheck'[c] = IF CheckDue(c, now) THEN now ELSE lastCheck[c]
      /\ UNCHANGED <<result, checking, temp>>
  BY DEF ScanPacket, TypeOK, checkVars
<1>2. /\ Grown(c) \in [Ids -> SUBSET Good]
      /\ table'[c] = [id \in Ids |-> IF id \in evicted THEN {} ELSE G(id)]
      /\ toAdd'[c] = toAdd[c] \cup {G(id) : id \in evicted}
  BY GrownType DEF ScanPacket, Grown, TypeOK
<1>3. \A id \in Ids : G(id) = table[c][id] \cup (IF id = At(i).id THEN {i} ELSE {})
  BY <1>2 DEF Grown, ScanPacket, TypeOK
<1>20. \A id \in Ids : id \in evicted <=> CheckDue(c, now) /\ G(id) # {} /\ Idle(G(id), now)
  OBVIOUS
<1> HIDE DEF evicted
<1>4. i \in Good /\ i \in Nat /\ now \in Int /\ Seen(c)' = Seen(c) \cup {i}
  <2>1. i \in Good
    BY GrownType
  <2> QED BY <1>1, <2>1, SeenAdvances, GoodTimes
<1>5. \A x \in Seen(c) : x \in Good /\ x \in Nat /\ x < i /\ First(c) <= x /\ At(x).ts \in Int
  BY <1>1, GoodTimes DEF Seen
<1>6. /\ lastCheck[c] = CheckedUpTo(c)
      /\ \A id \in Ids : \A p \in table[c][id] : (\A m \in table[c][id] : m <= p) =>
           \A r \in Good : p < r /\ r < i /\ Abstract!Checked(r) =>
             At(r).ts - At(p).ts <= FLOW_TIME_OUT
      /\ \A id \in Ids : \A p, q \in table[c][id] : Adjacent(table[c][id], p, q) => Continues(p, q)
      /\ \A fl \in toAdd[c] : Exact(fl)
  BY <1>1 DEF ExactInv, ThreadExact
<1>7. /\ i \in Slice(N, Multiplex, c) /\ First(c) <= i /\ i \in Index
      /\ Abstract!LastCheck[i] = lastCheck'[c]
      /\ Abstract!Checked(i) <=> CheckDue(c, now)
  BY <1>1, <1>6, ScanAsSpec
<1>8. \A id \in Ids : \A x \in table[c][id] : x \in Seen(c) /\ x \in Nat /\ x < i /\ At(x).id = id
  BY <1>5 DEF ThreadInv
<1>9. \A id \in Ids : \A x \in G(id) : x \in Good /\ x \in Nat /\ x <= i /\ First(c) <= x
                                       /\ At(x).ts \in Int /\ At(x).id = id
  BY <1>3, <1>4, <1>5, <1>7, <1>8
(* The open flows have all the packets of their id since their first. *)
<1>10. ASSUME NEW id \in Ids, NEW p \in G(id), NEW j \in Good, At(j).id = id, p < j, j <= i
       PROVE  j \in G(id)
  <2>1. j \in Nat /\ p \in Nat /\ First(c) <= p /\ First(c) \in Nat
    BY <1>1, <1>9, GoodTimes, RangeFacts
  <2>2. CASE j = i
    BY <1>3, <1>10, <2>2
  <2>3. CASE j # i
    <3>1. j < i /\ First(c) <= j /\ p # i
      BY <1>4, <1>10, <2>1, <2>3
    <3>2. j \in Seen(c)
      BY <1>1, <3>1 DEF Seen
    <3>3. p \in table[c][id]
      BY <1>3, <3>1
    <3> QED BY <1>3, <1>10, <3>2, <3>3 DEF TimeInv, ThreadTimes, OpenInv
  <2> QED BY <2>2, <2>3
<1>11. FLOW_TIME_OUT \in Nat /\ \A fl : Idle(fl, now) <=> now - End(fl) - FLOW_TIME_OUT > 0
  BY TimeAssumption DEF Idle
<1>12. ASSUME NEW id \in Ids, G(id) # {}
       PROVE  /\ End(G(id)) \in Int /\ \A x \in G(id) : At(x).ts <= End(G(id))
              /\ \E y \in G(id) : End(G(id)) = At(y).ts
  <2>1. G(id) \in SUBSET Good
    BY <1>2
  <2>2. /\ \A x \in G(id) : At(x).ts <= End(G(id))
        /\ \E y \in G(id) : End(G(id)) = At(y).ts
    BY <1>1, <1>12, <2>1, FlowTimes
  <2> QED BY <1>9, <2>2
<1> HIDE DEF i, now, G
<1>13. ASSUME NEW id \in Ids, NEW p \in G(id), NEW q \in G(id), Adjacent(G(id), p, q)
       PROVE  Continues(p, q)
  <2>1. p < q /\ (\A x \in G(id) : ~(p < x /\ x < q)) /\ p <= i /\ q <= i /\ p \in Nat /\ q \in Nat
    BY <1>9, <1>13 DEF Adjacent
  <2>2. p < i /\ p \in table[c][id]
    <3>1. p < i
      BY <1>4, <2>1
    <3> QED BY <1>3, <1>4, <3>1
  <2>3. CASE q # i
    <3>1. q \in table[c][id]
      BY <1>3, <2>3
    <3>2. Adjacent(table[c][id], p, q)
      BY <1>3, <2>1, <2>2, <3>1 DEF Adjacent
    <3> QED BY <1>6, <2>2, <3>1, <3>2
  <2>4. CASE q = i
    <3>1. Follows(p, i)
      <4>1. ASSUME NEW j \in Good, At(j).id = At(p).id, p < j, j < i PROVE FALSE
        <5>1. At(j).id = id /\ j <= i /\ j \in Nat
          BY <1>1, <1>4, <1>9, <4>1, GoodTimes
        <5>2. j \in G(id)
          BY <1>10, <4>1, <5>1
        <5> QED BY <2>1, <2>4, <4>1, <5>2
      <4>2. At(p).id = id /\ At(i).id = id
        BY <1>9, <2>4
      <4> QED BY <2>2, <4>1, <4>2 DEF Follows
    <3>2. Abstract!Chunk(p) = c /\ Abstract!Chunk(i) = c
      <4>1. p \in Slice(N, Multiplex, c) /\ p \in Index
        BY <1>8, <2>2, SeenInSlice, SliceInside, TraceFacts, MultiplexAssumption
           DEF Cores, Index, TypeOK
      <4> QED BY <1>1, <1>7, <4>1, ChunkOfRange
    <3>3. \A m \in table[c][id] : m <= p
      <4>1. \A m \in table[c][id] : m \in G(id) /\ m < i /\ m \in Nat
        BY <1>3, <1>8 DEF i
      <4> QED BY <2>1, <2>4, <4>1
    <3>4. \A r \in Good : p < r /\ r < i /\ Abstract!Checked(r) =>
            At(r).ts - At(p).ts <= FLOW_TIME_OUT
      BY <1>6, <2>2, <3>3
    <3>5. \A r \in Good : At(r).ts \in Int
      BY <1>1, GoodTimes
    <3>6. ~Abstract!Broken(p, i)
      <4>1. \A r \in Good : p < r /\ r < i /\ Abstract!Checked(r) =>
              ~(At(r).ts - At(p).ts > FLOW_TIME_OUT)
        BY <1>9, <1>11, <3>4, <3>5
      <4> QED BY <3>2, <4>1, SpecPackets DEF Abstract!Broken
    <3> QED BY <2>4, <3>1, <3>2, <3>6 DEF Continues
  <2> QED BY <2>3, <2>4
<1>14. ASSUME NEW id \in evicted, id \in Ids PROVE Exact(G(id))
  <2>1. CheckDue(c, now) /\ G(id) # {} /\ now - End(G(id)) - FLOW_TIME_OUT > 0 /\ Abstract!Checked(i)
    BY <1>7, <1>11, <1>14, <1>20
  <2>2. ASSUME NEW x \in G(id), NEW q \in Good, Continues(x, q) PROVE q \in G(id)
    <3>1. x < q /\ At(q).id = id /\ x \in Nat /\ q \in Nat /\ x <= i
      BY <1>1, <1>9, <1>14, <2>2, GoodTimes DEF Continues, Follows
    <3>2. At(x).ts \in Int /\ At(x).ts <= End(G(id)) /\ End(G(id)) \in Int
      BY <1>9, <1>12, <1>14, <2>1, <2>2
    <3>3. At(i).ts = now
      BY DEF now
    <3>4. At(i).ts - At(x).ts > FLOW_TIME_OUT
      BY <1>4, <1>11, <2>1, <3>2, <3>3
    <3>5. x # i
      BY <1>4, <1>11, <3>3, <3>4
    <3>6. q <= i
      <4> SUFFICES ASSUME ~(q <= i) PROVE FALSE
        OBVIOUS
      <4>1. x < i /\ i < q
        BY <1>4, <3>1, <3>5
      <4> QED BY <1>1, <1>4, <2>1, <2>2, <3>4, <4>1, CheckBreaks
    <3> QED BY <1>10, <1>14, <2>2, <3>1, <3>6
  <2> QED BY <1>13, <1>14, <2>2 DEF Exact, Whole
<1>15. evicted \subseteq Ids
  BY DEF evicted
<1>16. ASSUME NEW id \in Ids, id \notin evicted, NEW p \in G(id), \A m \in G(id) : m <= p,
              NEW r \in Good, p < r, r < i + 1, Abstract!Checked(r)
       PROVE  At(r).ts - At(p).ts <= FLOW_TIME_OUT
  <2>1. r \in Nat /\ At(r).ts \in Int /\ p \in Nat /\ p < i /\ At(p).ts \in Int /\ p \in Good
    BY <1>1, <1>4, <1>9, <1>16, GoodTimes
  <2>2. CASE r = i
    <3>1. CheckDue(c, now) /\ ~Idle(G(id), now)
      BY <1>7, <1>16, <1>20, <2>2
    <3>2. PICK y \in G(id) : End(G(id)) = At(y).ts
      BY <1>12, <1>16
    <3>3. y <= p /\ y \in Good /\ At(y).ts \in Int
      BY <1>9, <1>16
    <3>4. At(y).ts <= At(p).ts
      BY <1>1, <2>1, <3>3, OrderedTimes
    <3>5. ~(now - At(y).ts - FLOW_TIME_OUT > 0)
      BY <1>11, <3>1, <3>2
    <3>6. At(i).ts = now
      BY DEF now
    <3> QED BY <1>4, <1>11, <2>1, <2>2, <3>3, <3>4, <3>5, <3>6
  <2>3. CASE r # i
    <3>1. r < i /\ p # i /\ i \notin G(id)
      BY <1>4, <1>16, <2>1, <2>3
    <3>2. p \in table[c][id] /\ \A m \in table[c][id] : m <= p
      BY <1>3, <1>16, <3>1
    <3> QED BY <1>6, <1>16, <3>1, <3>2
  <2> QED BY <2>2, <2>3
<1>17. lastCheck'[c] = CheckedUpTo(c)'
  <2>1. First(c) \in Nat
    BY <1>1, RangeFacts
  <2>2. cursor'[c] # First(c) /\ cursor'[c] - 1 = i
    BY <1>1, <1>4, <1>7, <2>1
  <2>3. CheckedUpTo(c)' = Abstract!LastCheck[i]
    BY <1>1, <2>2, PacketsFixed, SpecFixed DEF CheckedUpTo
  <2> QED BY <1>7, <2>3
<1>18. ThreadExact(c)'
  <2>1. \A id \in Ids : table'[c][id] = IF id \in evicted THEN {} ELSE G(id)
    BY <1>2
  <2>2. \A id \in Ids : \A p \in table'[c][id] : (\A m \in table'[c][id] : m <= p) =>
          \A r \in Good : p < r /\ r < cursor'[c] /\ Abstract!Checked(r) =>
            At(r).ts - At(p).ts <= FLOW_TIME_OUT
    BY <1>1, <1>16, <2>1 DEF i
  <2>3. \A id \in Ids : \A p, q \in table'[c][id] : Adjacent(table'[c][id], p, q) => Continues(p, q)
    BY <1>13, <2>1
  <2>4. \A fl \in toAdd'[c] : Exact(fl)
    BY <1>2, <1>6, <1>14, <1>15
  <2> QED BY <1>1, <1>17, <2>2, <2>3, <2>4, PacketsFixed, SpecFixed DEF ThreadExact, Adjacent
<1>19. ASSUME NEW d \in Cores, d # c PROVE ThreadExact(d)'
  <2>1. pc'[d] = pc[d] /\ cursor'[d] = cursor[d] /\ table'[d] = table[d] /\ toAdd'[d] = toAdd[d]
        /\ lastCheck'[d] = lastCheck[d]
    BY <1>19 DEF ScanPacket, TypeOK
  <2> QED BY <1>1, <1>19, <2>1, ThreadExactFrame DEF ExactInv
<1> QED BY <1>1, <1>18, <1>19, ResultExactFrame DEF ExactInv

(* A thread at the end of its range has all that its open flows will have. *)
LEMMA PublishExact ==
  ASSUME PacketsInOrder, IInv, TimeInv, ExactInv, NEW c \in Cores, Publish(c)
  PROVE  ExactInv'
<1> USE DEF IInv
<1>1. /\ pkts' = pkts /\ pkts \in Traces /\ phase = "scan" /\ pc[c] = "scan" /\ cursor[c] >= Last(c)
      /\ result' = result \cup Held(c)
      /\ pc' = [pc EXCEPT ![c] = "returned"]
      /\ toAdd' = [toAdd EXCEPT ![c] = {}] /\ table' = [table EXCEPT ![c] = NoFlow]
      /\ UNCHANGED <<cursor, lastCheck, checking, temp>>
  BY DEF Publish, TypeOK, checkVars
<1>2. checking = {}
  BY <1>1 DEF CheckInv
<1>3. ASSUME NEW id \in Ids, NEW p \in table[c][id], NEW q \in Good, Continues(p, q)
      PROVE  q \in table[c][id]
  <2>1. p \in Seen(c) /\ At(p).id = id /\ p < q /\ At(q).id = id
    BY <1>3 DEF ThreadInv, Continues, Follows
  <2>2. p \in Slice(N, Multiplex, c) /\ p \in Index /\ q \in Index
    BY <2>1, SeenInSlice DEF Seen, Good
  <2>3. q \in Slice(N, Multiplex, c)
    BY <1>1, <1>3, <2>2, ChunkOfRange DEF Continues
  <2>4. First(c) <= q /\ q < Last(c)
    <3>1. First(c) \in Nat /\ Last(c) \in Nat
      BY <1>1, RangeFacts
    <3> QED BY <2>3, <3>1 DEF Slice, First, Last
  <2>5. q < cursor[c]
    <3>1. q \in Nat /\ Last(c) \in Nat /\ cursor[c] \in Nat
      BY <1>1, GoodTimes, RangeFacts, TraceFacts DEF TypeOK
    <3> QED BY <1>1, <2>4, <3>1
  <2>6. q \in Seen(c)
    BY <1>1, <2>4, <2>5 DEF Seen
  <2> QED BY <2>1, <2>6 DEF TimeInv, ThreadTimes, OpenInv
<1>4. \A fl \in Held(c) : Exact(fl)
  <2>1. \A id \in Ids : Exact(table[c][id])
    BY <1>3 DEF Exact, Whole, ExactInv, ThreadExact
  <2> QED BY <2>1 DEF Held, ExactInv, ThreadExact
<1>5. ThreadExact(c)'
  <2>1. pc'[c] = "returned" /\ table'[c] = NoFlow /\ toAdd'[c] = {}
    BY <1>1 DEF TypeOK
  <2> QED BY <2>1, IdleThreadExact
<1>6. ASSUME NEW d \in Cores, d # c PROVE ThreadExact(d)'
  BY <1>1, <1>6, ThreadExactFrame DEF ExactInv, TypeOK
<1>7. ResultExact'
  <2>1. ASSUME NEW f \in Family, NEW fl \in FlowsOf(f, result') PROVE Exact(fl)
    <3>1. fl \in Held(c) \/ fl \in FlowsOf(f, result)
      BY <1>1 DEF FlowsOf
    <3> QED BY <1>2, <1>4, <3>1 DEF ExactInv, ResultExact
  <2> QED BY <1>1, <1>2, <2>1, TimeFixed, SpecFixed DEF ExactInv, ResultExact
<1> QED BY <1>5, <1>6, <1>7 DEF ExactInv

LEMMA BeginCheckExact ==
  ASSUME IInv, ExactInv, NEW f \in Family, BeginCheck(f)
  PROVE  ExactInv'
<1> USE DEF IInv
<1>1. /\ pkts' = pkts /\ f \notin checking /\ checking' = checking \cup {f}
      /\ temp' = [temp EXCEPT ![f] = FlowsOf(f, result)] /\ result' = result \ FlowsOf(f, result)
      /\ checking \subseteq Family
      /\ UNCHANGED <<pc, cursor, table, toAdd, lastCheck>>
  BY DEF BeginCheck, TypeOK, scanVars
<1>2. ASSUME NEW c \in Cores PROVE ThreadExact(c)'
  BY <1>1, <1>2, ThreadExactFrame DEF ExactInv
<1>3. FlowsOf(f, result') = {} /\ \A h \in Family : FlowsOf(h, result') \subseteq FlowsOf(h, result)
  BY <1>1 DEF FlowsOf
<1>4. \A h \in Family : \A fl \in temp'[h] : Exact(fl)
  BY <1>1 DEF ExactInv, ResultExact, TypeOK
<1>5. \A h \in Family \ checking' : \A fl \in FlowsOf(h, result') : Exact(fl)
  BY <1>1, <1>3 DEF ExactInv, ResultExact
<1>6. ASSUME NEW h \in checking', NEW fl \in FlowsOf(h, result') PROVE Joined(fl)
  <2>1. h # f /\ h \in checking /\ fl \in FlowsOf(h, result)
    BY <1>1, <1>3, <1>6
  <2> QED BY <2>1 DEF ExactInv, ResultExact
<1>7. ResultExact'
  BY <1>1, <1>4, <1>5, <1>6, TimeFixed, SpecFixed DEF ResultExact
<1> QED BY <1>2, <1>7 DEF ExactInv

(* A worker joins flows across the ranges, over silences below the time-out. *)
LEMMA CheckWorkerExact ==
  ASSUME PacketsInOrder, IInv, TimeInv, ExactInv,
         NEW f \in Family, NEW w \in CheckCores, CheckWorker(f, w)
  PROVE  ExactInv'
<1> USE DEF IInv
<1>1. /\ pkts' = pkts /\ pkts \in Traces /\ f \in checking /\ checking \subseteq Family
      /\ UNCHANGED <<pc, cursor, table, toAdd, lastCheck, checking, temp>>
  BY DEF CheckWorker, TypeOK, scanVars
<1>2. PICK order :
        /\ \A id \in work[f][w] : order[id] \in Sorted(Group(f, id))
        /\ result' = result \cup UNION {Merged(order[id]) : id \in work[f][w]}
  BY DEF CheckWorker
<1>3. ASSUME NEW id \in work[f][w], NEW fl \in Merged(order[id]) PROVE Joined(fl)
  <2> DEFINE g == Group(f, id)
             o == order[id]
  <2>1. o \in Sorted(g) /\ IsGroup(g, id) /\ \A h \in g : Exact(h)
    BY <1>2, WorkerGroup DEF Group, ExactInv, ResultExact
  <2>2. fl = UNION {h \in g : h \subseteq fl}
    <3>1. o \in [1 .. Cardinality(g) -> g] /\ DOMAIN o = 1 .. Cardinality(g)
      BY <2>1 DEF Sorted, Bijection, Injection
    <3>2. PICK i \in DOMAIN o : fl = UNION {o[j] : j \in Run(o, i)}
      BY <1>3 DEF Merged
    <3>3. \A j \in Run(o, i) : o[j] \in g
      BY <3>1 DEF Run
    <3> HIDE DEF o, g
    <3> QED BY <3>2, <3>3
  <2>3. Whole(fl)
    <3> SUFFICES ASSUME NEW p \in fl, NEW q \in Good, Continues(p, q) PROVE q \in fl
      BY DEF Whole
    <3>1. PICK h \in g : h \subseteq fl /\ p \in h
      BY <2>2
    <3> QED BY <2>1, <3>1 DEF Exact, Whole
  <2>4. ASSUME NEW p \in fl, NEW q \in fl, Adjacent(fl, p, q), NEW h \in g, Adjacent(h, p, q)
        PROVE  Continues(p, q)
    BY <2>1, <2>4 DEF Exact, Adjacent
  <2>5. \A p, q \in fl : Adjacent(fl, p, q) =>
          At(q).ts - At(p).ts < FLOW_TIME_OUT \/ \E h \in g : Adjacent(h, p, q)
    <3> HIDE DEF g, o
    <3>1. fl \in Merged(o)
      BY <1>3 DEF o
    <3> QED BY <1>1, <2>1, <3>1, MergedSilences
  <2> QED BY <2>3, <2>4, <2>5 DEF Joined
<1>4. \A h \in Family : h # f => FlowsOf(h, result') = FlowsOf(h, result)
  <2>1. \A h \in Family : h # f =>
          \A id \in work[f][w] : \A fl \in Merged(order[id]) : FlowId(fl) \notin IdsOf(h)
    BY <1>2, WorkerGroup, FamiliesDisjoint
  <2> QED BY <1>2, <2>1 DEF FlowsOf
<1>5. ASSUME NEW h \in checking, NEW fl \in FlowsOf(h, result') PROVE Joined(fl)
  <2>1. CASE fl \in result
    <3>1. fl \in FlowsOf(h, result)
      BY <2>1 DEF FlowsOf
    <3> QED BY <3>1 DEF ExactInv, ResultExact
  <2>2. CASE fl \notin result
    <3>1. fl \in result'
      BY DEF FlowsOf
    <3>2. PICK id \in work[f][w] : fl \in Merged(order[id])
      BY <1>2, <2>2, <3>1
    <3> QED BY <1>3, <3>2
  <2> QED BY <2>1, <2>2
<1>6. \A h \in Family \ checking : \A fl \in FlowsOf(h, result') : Exact(fl)
  BY <1>1, <1>4 DEF ExactInv, ResultExact
<1>7. ResultExact'
  <2>1. \A h \in Family : \A fl \in temp'[h] : Exact(fl)
    BY <1>1 DEF ExactInv, ResultExact
  <2> QED BY <1>1, <1>5, <1>6, <2>1, TimeFixed, SpecFixed DEF ResultExact
<1>8. ASSUME NEW c \in Cores PROVE ThreadExact(c)'
  BY <1>1, <1>8, ThreadExactFrame DEF ExactInv
<1> QED BY <1>7, <1>8 DEF ExactInv

LEMMA StepExact == PacketsInOrder /\ IInv /\ TimeInv /\ ExactInv /\ [Next]_vars => ExactInv'
<1> SUFFICES ASSUME PacketsInOrder, IInv, TimeInv, ExactInv, [Next]_vars PROVE ExactInv'
  OBVIOUS
<1>1. ASSUME NEW c \in Cores, ScanStep(c), ~StartThrows(c) PROVE ExactInv'
  BY <1>1, ReturnEmptyExact, StartExact, SkipBadExact, ScanPacketExact, PublishExact DEF ScanStep
<1>2. ASSUME NEW f \in Family, CheckStep(f), \A w \in CheckCores : ~SortUndefined(f, w)
      PROVE  ExactInv'
  BY <1>2, BeginCheckExact, CheckWorkerExact DEF CheckStep, WorkerStep
<1>3. CASE \/ \E c \in Cores : StartThrows(c)
           \/ \E f \in Family : \E w \in CheckCores : SortUndefined(f, w)
           \/ Join \/ JoinCheck \/ Finished \/ UNCHANGED vars
  <2>1. UNCHANGED <<pkts, pc, cursor, table, toAdd, lastCheck, result, checking, temp>>
    BY <1>3 DEF StartThrows, SortUndefined, Join, JoinCheck, Finished, vars, scanVars, checkVars
  <2>2. \A c \in Cores : ThreadExact(c)'
    BY <2>1, ThreadExactFrame DEF ExactInv
  <2> QED BY <2>1, <2>2, ResultExactFrame DEF ExactInv
<1> QED BY <1>1, <1>2, <1>3 DEF Next, CheckStep, WorkerStep

LEMMA InitExact == Init => ExactInv
<1> SUFFICES ASSUME Init PROVE ExactInv
  OBVIOUS
<1>1. \A c \in Cores : ThreadExact(c)
  BY DEF Init, NotStarted, ThreadExact, NoFlow
<1>2. ResultExact
  BY DEF Init, NotStarted, ResultExact, FlowsOf
<1> QED BY <1>1, <1>2 DEF ExactInv

(* What the flows construct_flow returns are known to be. *)
IsResult(S) ==
  /\ S \subseteq SUBSET Good /\ UNION S = Good /\ Disjoint(S)
  /\ \A fl \in S : Homogeneous(fl) /\ Joined(fl)
  /\ \A a, b \in S : a # b /\ FlowId(a) = FlowId(b) => Apart(a, b)

(* Packets in the flow of a packet of the same id lie within its bounds. *)
LEMMA ApartTimes ==
  ASSUME pkts \in Traces, NEW S, IsResult(S), NEW a \in S, NEW b \in S, a # b,
         NEW x \in a, NEW y \in b, At(x).id = At(y).id
  PROVE  \/ \A u \in a : \A v \in b : At(v).ts - At(u).ts >= FLOW_TIME_OUT
         \/ \A u \in a : \A v \in b : At(u).ts - At(v).ts >= FLOW_TIME_OUT
<1>1. Apart(a, b)
  <2>1. FlowId(a) = At(x).id /\ FlowId(b) = At(y).id
    BY FlowIdOf DEF IsResult
  <2> QED BY <2>1 DEF IsResult
<1>2. /\ a \in SUBSET Good /\ b \in SUBSET Good /\ a # {} /\ b # {}
      /\ \A u \in a \cup b : At(u).ts \in Int
  BY GoodTimes DEF IsResult
<1>3. /\ \A u \in a : Str(a) <= At(u).ts /\ At(u).ts <= End(a)
      /\ \A v \in b : Str(b) <= At(v).ts /\ At(v).ts <= End(b)
      /\ Str(a) \in Int /\ End(a) \in Int /\ Str(b) \in Int /\ End(b) \in Int
  BY <1>2, FlowTimes
<1>4. CASE Str(b) - End(a) >= FLOW_TIME_OUT
  <2>1. \A u \in a : \A v \in b : At(v).ts - At(u).ts >= FLOW_TIME_OUT
    BY <1>2, <1>3, <1>4, TimeAssumption
  <2> QED BY <2>1
<1>5. CASE Str(a) - End(b) >= FLOW_TIME_OUT
  <2>1. \A u \in a : \A v \in b : At(u).ts - At(v).ts >= FLOW_TIME_OUT
    BY <1>2, <1>3, <1>5, TimeAssumption
  <2> QED BY <2>1
<1> QED BY <1>1, <1>4, <1>5 DEF Apart

(* The flow of a packet has the next packet of its id unless that breaks it. *)
LEMMA NextInFlow ==
  ASSUME pkts \in Traces, PacketsInOrder, NEW S, IsResult(S), NEW fl \in S,
         NEW p \in fl, NEW q \in Good, Follows(p, q)
  PROVE  q \in fl <=> ~Abstract!Broken(p, q)
<1>1. /\ p \in Good /\ p \in Nat /\ q \in Nat /\ At(p).ts \in Int /\ At(q).ts \in Int /\ p < q
      /\ At(p).id = At(q).id /\ FLOW_TIME_OUT \in Nat
      /\ \A r \in Good : r \in Nat /\ At(r).ts \in Int
  BY GoodTimes, TimeAssumption DEF IsResult, Follows
<1>2. At(p).ts <= At(q).ts
  BY <1>1, OrderedTimes
<1>3. ASSUME q \in fl PROVE ~Abstract!Broken(p, q)
  <2>1. Adjacent(fl, p, q)
    <3>1. \A j \in fl : At(j).id = At(p).id /\ j \in Good
      BY DEF IsResult, Homogeneous
    <3> QED BY <1>1, <1>3, <3>1 DEF Adjacent, Follows
  <2>2. CASE Continues(p, q)
    BY <2>2 DEF Continues
  <2>3. CASE At(q).ts - At(p).ts < FLOW_TIME_OUT
    <3>1. ~(At(q).ts - At(p).ts >= FLOW_TIME_OUT)
      BY <1>1, <2>3
    <3>2. ASSUME NEW r \in Good, p < r, r < q PROVE ~(At(r).ts - At(p).ts > FLOW_TIME_OUT)
      <4>1. At(r).ts <= At(q).ts
        BY <1>1, <3>2, OrderedTimes
      <4> QED BY <1>1, <2>3, <4>1
    <3> QED BY <3>1, <3>2, SpecPackets DEF Abstract!Broken
  <2> QED BY <1>3, <2>1, <2>2, <2>3 DEF IsResult, Joined
<1>4. ASSUME ~Abstract!Broken(p, q) PROVE q \in fl
  <2>1. CASE Abstract!Chunk(p) = Abstract!Chunk(q)
    <3>1. Continues(p, q)
      BY <1>4, <2>1 DEF Continues
    <3> QED BY <3>1 DEF IsResult, Joined, Whole
  <2>2. CASE Abstract!Chunk(p) # Abstract!Chunk(q)
    <3>1. ~(At(q).ts - At(p).ts >= FLOW_TIME_OUT)
      BY <1>4, <2>2, SpecPackets DEF Abstract!Broken
    <3>2. ~(At(p).ts - At(q).ts >= FLOW_TIME_OUT)
      BY <1>1, <1>2, <3>1
    <3>3. PICK fk \in S : q \in fk
      BY DEF IsResult
    <3> QED BY <1>1, <3>1, <3>2, <3>3, ApartTimes
  <2> QED BY <2>1, <2>2
<1> QED BY <1>3, <1>4

(* Some packets have an earliest one and a latest one. *)
LEMMA GoodExtremes ==
  ASSUME pkts \in Traces, NEW S, S \subseteq Good, S # {}
  PROVE  /\ \E m \in S : \A k \in S : m >= k
         /\ \E m \in S : \A k \in S : m <= k
<1>1. IsFiniteSet(S)
  <2>1. 0 \in Int /\ N - 1 \in Int
    BY TraceFacts
  <2>2. IsFiniteSet(0 .. N - 1)
    BY <2>1, FS_Interval, Zenon
  <2> QED BY <2>2, TraceFacts, FS_Subset DEF Index
<1>2. S \subseteq Int
  BY GoodTimes
<1> QED BY <1>1, <1>2, FiniteHasExtremes

(* After the double check too, a flow has the packets of its id between two  *)
(* of its own.                                                               *)
LEMMA ResultConvex ==
  ASSUME pkts \in Traces, PacketsInOrder, NEW S, IsResult(S), NEW fl \in S
  PROVE  Convex(fl)
<1> SUFFICES ASSUME NEW x \in fl, NEW z \in fl, NEW y \in Good, x < y, y < z, At(y).id = At(x).id,
                    y \notin fl
             PROVE  FALSE
  BY DEF Convex
<1>1. /\ fl \in SUBSET Good /\ FLOW_TIME_OUT \in Nat
      /\ \A r \in Good : r \in Nat /\ At(r).ts \in Int
      /\ \A j \in fl : At(j).id = At(x).id
  BY GoodTimes, TimeAssumption DEF IsResult, Homogeneous
<1>2. PICK a \in fl : a < y /\ \A k \in fl : k < y => k <= a
  <2> DEFINE T == {k \in fl : k < y}
  <2>1. T \subseteq Good /\ T # {}
    BY <1>1
  <2>2. PICK m \in T : \A k \in T : m >= k
    <3> HIDE DEF T
    <3> QED BY <2>1, GoodExtremes
  <2>3. \A k \in T : k <= m
    BY <1>1, <2>2
  <2> QED BY <2>3
<1>3. PICK b \in fl : y < b /\ \A k \in fl : y < k => b <= k
  <2> DEFINE T == {k \in fl : y < k}
  <2>1. T \subseteq Good /\ T # {}
    BY <1>1
  <2>2. PICK m \in T : \A k \in T : m <= k
    <3> HIDE DEF T
    <3> QED BY <2>1, GoodExtremes
  <2> QED BY <2>2
<1>4. Adjacent(fl, a, b)
  <2>1. ASSUME NEW k \in fl, a < k, k < b PROVE FALSE
    <3>1. k \in Nat /\ y \in Nat /\ a \in Nat /\ b \in Nat /\ k # y
      BY <1>1
    <3> QED BY <1>2, <1>3, <2>1, <3>1
  <2>2. a < b
    BY <1>1, <1>2, <1>3
  <2> QED BY <2>1, <2>2 DEF Adjacent
<1>5. ~Continues(a, b)
  BY <1>1, <1>2, <1>3 DEF Continues, Follows
<1>6. At(b).ts - At(a).ts < FLOW_TIME_OUT
  BY <1>4, <1>5 DEF IsResult, Joined
<1>7. At(a).ts <= At(y).ts /\ At(y).ts <= At(b).ts
  BY <1>1, <1>2, <1>3, OrderedTimes
<1>8. PICK fk \in S : y \in fk
  BY DEF IsResult
<1>9. \/ \A u \in fl : At(y).ts - At(u).ts >= FLOW_TIME_OUT
      \/ \A u \in fl : At(u).ts - At(y).ts >= FLOW_TIME_OUT
  <2>1. fk # fl
    BY <1>8
  <2> QED BY <1>8, <2>1, ApartTimes
<1> QED BY <1>1, <1>6, <1>7, <1>9

(* Each flow of the result is the one FlowSpec gives any of its packets. *)
LEMMA FlowIsSpecified ==
  ASSUME pkts \in Traces, PacketsInOrder, NEW S, IsResult(S), NEW fl \in S, NEW i \in fl
  PROVE  Abstract!FlowOf(i) = fl
<1> DEFINE Same == {j \in Good : At(j).id = At(i).id}
           linked(j) == \A p, q \in Same :
             /\ p < q /\ ~\E r \in Same : p < r /\ r < q
             /\ (i <= p /\ q <= j) \/ (j <= p /\ q <= i)
             => ~Abstract!Broken(p, q)
<1>1. Abstract!FlowOf(i) = {j \in Same : linked(j)}
  BY SpecPackets DEF Abstract!FlowOf, Abstract!SameId
<1>2. /\ i \in Same /\ fl \subseteq Same
      /\ \A r \in Good : r \in Nat
      /\ Same \subseteq Good
  BY GoodTimes DEF IsResult, Homogeneous
<1>3. ASSUME NEW p \in Same, NEW q \in Same, p < q, ~\E r \in Same : p < r /\ r < q
      PROVE  Follows(p, q)
  BY <1>3 DEF Follows
<1>4. ASSUME NEW j \in fl PROVE linked(j)
  <2> SUFFICES ASSUME NEW p \in Same, NEW q \in Same, p < q, ~\E r \in Same : p < r /\ r < q,
                      (i <= p /\ q <= j) \/ (j <= p /\ q <= i)
               PROVE  ~Abstract!Broken(p, q)
    OBVIOUS
  <2>1. Convex(fl)
    BY ResultConvex
  <2>2. p \in Nat /\ q \in Nat /\ i \in Nat /\ j \in Nat /\ At(i).id = At(j).id
    BY <1>2
  <2>3. ASSUME NEW k \in Same, (i <= k /\ k <= j) \/ (j <= k /\ k <= i) PROVE k \in fl
    <3>1. k \in Nat /\ k \in Good /\ At(k).id = At(i).id /\ At(k).id = At(j).id
      BY <1>2, <2>2
    <3>2. k = i \/ k = j \/ (i < k /\ k < j) \/ (j < k /\ k < i)
      BY <2>2, <2>3, <3>1
    <3> QED BY <2>1, <3>1, <3>2 DEF Convex
  <2>4. p \in fl /\ q \in fl
    BY <2>2, <2>3
  <2>5. Follows(p, q)
    BY <1>3
  <2> QED BY <1>2, <2>4, <2>5, NextInFlow
<1>5. ASSUME NEW j \in Same, linked(j) PROVE j \in fl
  <2>1. i \in Nat /\ j \in Nat
    BY <1>2
  <2>2. CASE i <= j
    <3> DEFINE Out == {m \in Same : i <= m /\ m <= j /\ m \notin fl}
    <3> SUFFICES ASSUME j \notin fl PROVE FALSE
      OBVIOUS
    <3>1. Out \subseteq Good /\ Out # {}
      BY <1>2, <2>1, <2>2
    <3>2. PICK m \in Out : \A k \in Out : m <= k
      <4> HIDE DEF Out
      <4> QED BY <3>1, GoodExtremes
    <3>3. m \in Nat /\ i < m /\ m <= j /\ m \in Same /\ m \in Good /\ m \notin fl
      <4>1. m \in Same /\ m \notin fl /\ i <= m /\ m <= j /\ m # i
        OBVIOUS
      <4> HIDE DEF Same
      <4> QED BY <1>2, <2>1, <4>1
    <3> DEFINE Earlier == {k \in Same : k < m}
    <3>4. Earlier \subseteq Good /\ Earlier # {} /\ i \in Earlier
      BY <1>2, <3>3
    <3>5. PICK p \in Earlier : \A k \in Earlier : p >= k
      <4> HIDE DEF Earlier
      <4> QED BY <3>4, GoodExtremes
    <3>6. p \in Same /\ p \in Nat /\ p < m /\ i <= p
      BY <1>2, <2>1, <3>4, <3>5
    <3>7. p \in fl
      <4>1. p \notin Out
        <5> SUFFICES ASSUME p \in Out PROVE FALSE
          OBVIOUS
        <5>1. m <= p
          BY <3>2
        <5> QED BY <3>3, <3>6, <5>1
      <4>2. p <= j
        BY <2>1, <3>3, <3>6
      <4> QED BY <3>6, <4>1, <4>2
    <3>8. ~\E r \in Same : p < r /\ r < m
      BY <1>2, <3>5, <3>6
    <3>9. ~Abstract!Broken(p, m)
      BY <1>5, <3>3, <3>6, <3>8
    <3>10. Follows(p, m)
      BY <1>3, <3>3, <3>6, <3>8
    <3> QED BY <3>3, <3>7, <3>9, <3>10, NextInFlow
  <2>3. CASE j < i
    <3> DEFINE Out == {m \in Same : j <= m /\ m <= i /\ m \notin fl}
    <3> SUFFICES ASSUME j \notin fl PROVE FALSE
      OBVIOUS
    <3>1. Out \subseteq Good /\ Out # {}
      BY <1>2, <2>1, <2>3
    <3>2. PICK m \in Out : \A k \in Out : m >= k
      <4> HIDE DEF Out
      <4> QED BY <3>1, GoodExtremes
    <3>3. m \in Nat /\ m < i /\ j <= m /\ m \in Same /\ m \in Good /\ m \notin fl
      BY <1>2, <2>1
    <3> DEFINE Later == {k \in Same : m < k}
    <3>4. Later \subseteq Good /\ Later # {} /\ i \in Later
      BY <1>2, <3>3
    <3>5. PICK q \in Later : \A k \in Later : q <= k
      <4> HIDE DEF Later
      <4> QED BY <3>4, GoodExtremes
    <3>6. q \in Same /\ q \in Nat /\ m < q /\ q <= i
      BY <1>2, <2>1, <3>4, <3>5
    <3>7. q \in fl
      <4>1. q \notin Out
        <5> SUFFICES ASSUME q \in Out PROVE FALSE
          OBVIOUS
        <5>1. m >= q
          BY <3>2
        <5> QED BY <3>3, <3>6, <5>1
      <4>2. j <= q
        BY <2>1, <3>3, <3>6
      <4> QED BY <3>6, <4>1, <4>2
    <3>8. ~\E r \in Same : m < r /\ r < q
      BY <1>2, <3>5, <3>6
    <3>9. ~Abstract!Broken(m, q)
      BY <1>5, <3>3, <3>6, <3>8
    <3>10. Follows(m, q)
      BY <1>3, <3>3, <3>6, <3>8
    <3>11. PICK fk \in S : m \in fk
      BY <3>3 DEF IsResult
    <3>12. q \in fk
      BY <1>2, <3>6, <3>9, <3>10, <3>11, NextInFlow
    <3>13. fk = fl
      BY <3>7, <3>12 DEF IsResult, Disjoint
    <3> QED BY <3>3, <3>11, <3>13
  <2> QED BY <2>1, <2>2, <2>3
<1> HIDE DEF linked, Same
<1> QED BY <1>1, <1>2, <1>4, <1>5

(* The flows are determined by the packets. *)
LEMMA ResultIsSpecified ==
  ASSUME pkts \in Traces, PacketsInOrder, NEW S, IsResult(S)
  PROVE  S = {Abstract!FlowOf(i) : i \in Abstract!Good}
<1>1. Abstract!Good = Good
  BY SpecPackets
<1>2. ASSUME NEW fl \in S PROVE \E i \in Good : fl = Abstract!FlowOf(i)
  <2>1. PICK i \in fl : i \in Good
    BY DEF IsResult, Homogeneous
  <2> QED BY <2>1, FlowIsSpecified
<1>3. ASSUME NEW i \in Good PROVE Abstract!FlowOf(i) \in S
  <2>1. PICK fl \in S : i \in fl
    BY DEF IsResult
  <2> QED BY <2>1, FlowIsSpecified
<1> QED BY <1>1, <1>2, <1>3

-------------------------------------------------------------------------------
(* construct_flow implements FlowSpec *)

(* A thread that has begun was given a range inside the array. *)
BegunInside == \A c \in Cores : pc[c] # "spawned" => First(c) <= N

LEMMA StepBegun == TypeOK /\ BegunInside /\ [Next]_vars => BegunInside'
<1> SUFFICES ASSUME TypeOK, BegunInside, [Next]_vars, NEW c \in Cores, pc'[c] # "spawned"
             PROVE  First(c) <= N
  <2>1. pkts' = pkts \/ ~[Next]_vars
    BY NextKeepsPackets
  <2> QED BY <2>1, PacketsFixed DEF BegunInside
<1>1. First(c) \in Nat /\ Last(c) \in Nat /\ Last(c) <= N /\ N \in Nat
  BY RangeFacts, TraceFacts DEF TypeOK
<1>2. CASE pc[c] # "spawned"
  BY <1>2 DEF BegunInside
<1>3. CASE pc[c] = "spawned"
  <2>1. ASSUME NEW d \in Cores, ScanStep(d) PROVE First(c) <= N
    <3>1. CASE c = d
      BY <1>1, <1>3, <2>1, <3>1
      DEF TypeOK, ScanStep, ReturnEmpty, Start, StartThrows, SkipBad, ScanPacket, Publish, scanVars
    <3>2. CASE c # d
      BY <1>3, <2>1, <3>2
      DEF TypeOK, ScanStep, ReturnEmpty, Start, StartThrows, SkipBad, ScanPacket, Publish, scanVars
    <3> QED BY <3>1, <3>2
  <2>2. CASE Join \/ JoinCheck \/ Finished \/ (\E f \in Family : CheckStep(f)) \/ UNCHANGED vars
    BY <1>3, <2>2 DEF Join, JoinCheck, Finished, CheckStep, BeginCheck, WorkerStep, CheckWorker,
                      SortUndefined, vars, scanVars
  <2> QED BY <2>1, <2>2 DEF Next
<1> QED BY <1>2, <1>3

(* All that is known of construct_flow. *)
WholeInv == FlowInv /\ BegunInside /\ (PacketsInOrder => ExactInv)

LEMMA InitWhole == Init => WholeInv
BY InitFlow, InitExact DEF WholeInv, BegunInside, Init, NotStarted

LEMMA StepWhole == WholeInv /\ [Next]_vars => WholeInv'
<1> SUFFICES ASSUME WholeInv, [Next]_vars PROVE WholeInv'
  OBVIOUS
<1>1. FlowInv'
  BY StepFlow DEF WholeInv
<1>2. PacketsInOrder => ExactInv'
  BY StepExact DEF WholeInv, FlowInv
<1>3. BegunInside'
  BY StepBegun DEF WholeInv, FlowInv, IInv
<1>4. PacketsInOrder' = PacketsInOrder
  BY NextKeepsPackets, TimeFixed
<1> QED BY <1>1, <1>2, <1>3, <1>4 DEF WholeInv

(* The value construct_flow returns for packets in capture order. *)
ResultSpecified ==
  phase = "done" => result = {Abstract!FlowOf(i) : i \in Abstract!Good}

LEMMA InvSpecified == WholeInv /\ PacketsInOrder => ResultSpecified
<1> SUFFICES ASSUME WholeInv, PacketsInOrder, phase = "done"
             PROVE  result = {Abstract!FlowOf(i) : i \in Abstract!Good}
  BY DEF ResultSpecified
<1> USE DEF WholeInv
<1>1. pkts \in Traces /\ result \subseteq SUBSET Good
  BY DEF FlowInv, IInv, TypeOK
<1>2. UNION result = Good /\ Disjoint(result) /\ \A fl \in result : Homogeneous(fl)
  BY InvResult DEF FlowInv, ResultPartition
<1>3. \A fl \in result : Joined(fl)
  BY DoneTimes DEF FlowInv, ExactInv, ResultExact
<1>4. \A a, b \in result : a # b /\ FlowId(a) = FlowId(b) => Apart(a, b)
  BY InvSeparated DEF FlowInv, SameIdSeparated, Apart
<1>5. IsResult(result)
  BY <1>1, <1>2, <1>3, <1>4 DEF IsResult
<1> QED BY <1>1, <1>5, ResultIsSpecified

(* Only the return of construct_flow and its abort are visible in FlowSpec. *)
LEMMA StepIsSpecified ==
  PacketsInOrder /\ WholeInv /\ ResultSpecified' /\ [Next]_vars
    => [Abstract!Next]_(Abstract!vars)
<1> SUFFICES ASSUME PacketsInOrder, WholeInv, ResultSpecified', [Next]_vars
             PROVE  Abstract!Next \/ UNCHANGED Abstract!vars
  OBVIOUS
<1> USE DEF WholeInv
<1>1. pkts' = pkts /\ pkts \in Traces
  BY NextKeepsPackets DEF FlowInv, IInv, TypeOK
<1>2. Abstract!vars = <<pkts, IF phase \in {"scan", "check"} THEN "running" ELSE phase,
                        IF phase = "done" THEN result ELSE {}>>
  BY DEF Abstract!vars
<1>3. Abstract!Overshoots(Abstract!N, Multiplex) <=> \E c \in Cores : First(c) > N
  BY SpecPackets
  DEF Abstract!Overshoots, Abstract!From, Abstract!PartSize, From, PartSize, First, Cores
<1>4. \A c \in Cores : First(c) \in Nat /\ Last(c) \in Nat /\ N \in Nat
  BY <1>1, RangeFacts, TraceFacts
<1>5. ASSUME JoinCheck PROVE Abstract!Complete
  <2>1. phase = "check" /\ phase' = "done" /\ \A c \in Cores : pc[c] = "returned"
    BY <1>5 DEF JoinCheck, FlowInv, IInv, CheckInv
  <2>2. ~Abstract!Overshoots(Abstract!N, Multiplex)
    BY <1>3, <1>4, <2>1 DEF BegunInside
  <2>3. result' = {Abstract!FlowOf(i) : i \in Abstract!Good}
    <3>1. result' = {Abstract!FlowOf(i) : i \in Abstract!Good}'
      BY <2>1 DEF ResultSpecified
    <3>2. Abstract!Good' = Abstract!Good /\ \A i : Abstract!FlowOf(i)' = Abstract!FlowOf(i)
      BY <1>1, SpecNotionsFixed
    <3> QED BY <3>1, <3>2
  <2> QED BY <1>1, <2>1, <2>2, <2>3 DEF Abstract!Complete
<1>6. ASSUME NEW c \in Cores, StartThrows(c) PROVE Abstract!Terminate
  <2>1. phase = "scan" /\ phase' = "abort" /\ First(c) # Last(c) /\ First(c) >= N
    BY <1>6 DEF StartThrows
  <2>2. First(c) > N
    <3>1. First(c) = N => Last(c) = N
      BY <1>1, <1>4, PartSizeBound, MultiplexAssumption DEF First, Last, To, Least
    <3> QED BY <1>4, <2>1, <3>1
  <2> QED BY <1>1, <1>3, <2>1, <2>2 DEF Abstract!Terminate
<1>7. ASSUME NEW c \in Cores, ScanStep(c), ~StartThrows(c) PROVE UNCHANGED Abstract!vars
  <2>1. phase = "scan" /\ phase' = "scan"
    BY <1>7 DEF ScanStep, ReturnEmpty, Start, SkipBad, ScanPacket, Publish
  <2> QED BY <1>1, <1>2, <2>1 DEF Abstract!vars
<1>8. ASSUME PacketsInOrder, NEW f \in Family, CheckStep(f) PROVE UNCHANGED Abstract!vars
  <2>1. phase' # "undefined"
    BY <1>1, <1>8, StepFlow, TimeFixed DEF FlowInv, SortDefined
  <2>2. phase = "check" /\ phase' = "check"
    BY <1>8, <2>1 DEF CheckStep, BeginCheck, WorkerStep, CheckWorker, SortUndefined
  <2> QED BY <1>1, <2>2 DEF Abstract!vars
<1>9. CASE Join
  <2>1. phase = "scan" /\ phase' = "check"
    BY <1>9 DEF Join
  <2> QED BY <1>1, <2>1 DEF Abstract!vars
<1>10. CASE Finished \/ UNCHANGED vars
  <2>1. phase' = phase /\ result' = result
    BY <1>10 DEF Finished, vars
  <2> QED BY <1>1, <2>1 DEF Abstract!vars
<1> QED BY <1>5, <1>6, <1>7, <1>8, <1>9, <1>10 DEF Next, Abstract!Next

LEMMA InitIsSpecified == Init => Abstract!Init
BY DEF Init, Abstract!Init

(* Seen from outside, construct_flow takes one step from the packets to the  *)
(* flows FlowSpec defines, or aborts as it does: for every capture in the    *)
(* order of its packets' times the result is a function of the packets and   *)
(* the thread count, whatever the interleaving of the threads, the order of  *)
(* the hash tables and the outcome of the sort.                              *)
THEOREM FlowsSpecified == Spec /\ PacketsInOrder => ImplementsFlowSpec
<1>1. PacketsInOrder /\ [Next]_vars => PacketsInOrder'
  BY NextKeepsPackets, TimeFixed
<1>2. Init /\ PacketsInOrder /\ [][Next]_vars => [](PacketsInOrder /\ WholeInv /\ ResultSpecified)
  BY <1>1, InitWhole, StepWhole, InvSpecified, PTL
<1>3. Spec /\ PacketsInOrder => Abstract!Init /\ [][Abstract!Next]_(Abstract!vars)
  BY <1>2, InitIsSpecified, StepIsSpecified, PTL DEF Spec
<1> QED BY <1>3 DEF ImplementsFlowSpec, Abstract!Spec
================================================================================
