----------------------------- MODULE FlowConstruct -----------------------------
(***************************************************************************)
(* explicit_flow_constructor::construct_flow: a pool of threads scans      *)
(* disjoint ranges of the parsed packets, each keeping its own hash table  *)
(* of open flows and evicting the idle ones; the flows are published in a  *)
(* shared vector under a mutex; then flow_double_check joins, per address  *)
(* family and with a second pool, the flows of one 5-tuple that the ranges *)
(* had cut apart.                                                          *)
(*                                                                         *)
(* A flow is the set of the indices (p_reverse_index) of its packets: its  *)
(* id, start and end time are those of its packets, as emplace_packet and  *)
(* the merging constructor compute them.  Times are integers, so that      *)
(* "x > EPS" is "x > 0".                                                   *)
(***************************************************************************)
EXTENDS Partition, FiniteSets, Sequences, Functions

CONSTANTS
  Id4, Id6,              \* 5-tuples (address pair, ports, stack code) per family
  BadId,                 \* marks a basic_packet_bad
  Times,                 \* the timestamps packets may carry: a bad one may have none
  Traces,                \* the packet arrays considered: p_parse_result
  Multiplex,             \* threads of construct_flow
  CheckMultiplex,        \* threads per family of flow_double_check
  FLOW_TIME_OUT,
  EVICT_FLOW_TIME_OUT

Ids == Id4 \cup Id6
Packet == [id : Ids, ts : Times] \cup [id : {BadId}, ts : Times \cup {0}]

ASSUME IdAssumption ==
  /\ Id4 \cap Id6 = {}
  /\ BadId \notin Id4 \cup Id6
  /\ IsFiniteSet(Id4 \cup Id6)
ASSUME MultiplexAssumption == Multiplex \in Nat \ {0} /\ CheckMultiplex \in Nat \ {0}
ASSUME TimeAssumption ==
  /\ Times \subseteq Nat \ {0}
  /\ FLOW_TIME_OUT \in Nat
  /\ EVICT_FLOW_TIME_OUT \in Nat
ASSUME TraceAssumption == \A tr \in Traces : tr \in Seq(Packet)

VARIABLES
  pkts,        \* p_parse_result; index i of the code is pkts[i + 1]
  phase,       \* progress of construct_flow itself
  pc,          \* per scanning thread: "spawned", "scan", "returned"
  cursor,      \* per scanning thread: the loop variable i
  table,       \* flow_H_table_4 and flow_H_table_6; {} when the id is absent
  toAdd,       \* flow4_to_add and flow6_to_add
  lastCheck,   \* last_check_time
  result,      \* *p_construct_result4 and *p_construct_result6
  checking,    \* families whose double check has started
  temp,        \* per family: p_construct_result*_temp
  work,        \* per family and worker: the ids of its range of __vec_key
  checked      \* per family: workers that have published

scanVars == <<pc, cursor, table, toAdd, lastCheck>>
checkVars == <<checking, temp, work, checked>>
vars == <<pkts, phase, scanVars, result, checkVars>>

Family == {"v4", "v6"}
IdsOf(f) == IF f = "v4" THEN Id4 ELSE Id6

Cores == 0 .. Multiplex - 1
CheckCores == 0 .. CheckMultiplex - 1

N == Len(pkts)
Index == 0 .. N - 1
At(i) == pkts[i + 1]
Good == {i \in Index : At(i).id \in Ids}

First(c) == From(N, Multiplex, c)
Last(c) == To(N, Multiplex, c)

-------------------------------------------------------------------------------
(* Flows *)

FlowId(fl) == At(CHOOSE i \in fl : TRUE).id
(* The running maximum starts at numeric_limits<double>::min() (line 15 of    *)
(* flow_define.hpp), the least positive number: no time of a packet is less. *)
Str(fl) == CHOOSE t \in {At(i).ts : i \in fl} : \A i \in fl : t <= At(i).ts
End(fl) == CHOOSE t \in {At(i).ts : i \in fl} : \A i \in fl : t >= At(i).ts
FlowsOf(f, flows) == {fl \in flows : FlowId(fl) \in IdsOf(f)}

-------------------------------------------------------------------------------
(* The scanning threads *)

NoFlow == [id \in Ids |-> {}]

NotStarted ==
  /\ pc = [c \in Cores |-> "spawned"]
  /\ cursor = [c \in Cores |-> 0]
  /\ table = [c \in Cores |-> NoFlow]
  /\ toAdd = [c \in Cores |-> {}]
  /\ lastCheck = [c \in Cores |-> 0]
  /\ result = {}
  /\ checking = {}
  /\ temp = [f \in Family |-> {}]
  /\ work = [f \in Family |-> [w \in CheckCores |-> {}]]
  /\ checked = [f \in Family |-> {}]

Init ==
  /\ pkts \in Traces
  /\ phase = "scan"
  /\ NotStarted

ReturnEmptyNever(c) == FALSE

(* if (_from == _to) return; *)
ReturnEmpty(c) ==
  /\ phase = "scan" /\ pc[c] = "spawned"
  /\ First(c) = Last(c)
  /\ pc' = [pc EXCEPT ![c] = "returned"]
  /\ UNCHANGED <<pkts, phase, cursor, table, toAdd, lastCheck, result, checkVars>>

(* last_check_time reads p_parse_result->at(_from); the cursor starts there. *)
Start(c) ==
  /\ phase = "scan" /\ pc[c] = "spawned"
  /\ First(c) # Last(c) /\ First(c) < N
  /\ pc' = [pc EXCEPT ![c] = "scan"]
  /\ cursor' = [cursor EXCEPT ![c] = First(c)]
  /\ lastCheck' = [lastCheck EXCEPT ![c] = At(First(c)).ts]
  /\ UNCHANGED <<pkts, phase, table, toAdd, result, checkVars>>

(* The same read with _from beyond the array: at() throws out_of_range, the  *)
(* exception leaves the thread function and std::terminate ends the process. *)
StartThrows(c) ==
  /\ phase = "scan" /\ pc[c] = "spawned"
  /\ First(c) # Last(c) /\ First(c) >= N
  /\ phase' = "abort"
  /\ UNCHANGED <<pkts, scanVars, result, checkVars>>

SkipBadTwice(c) ==
  /\ phase = "scan" /\ pc[c] = "scan" /\ cursor[c] < Last(c)
  /\ At(cursor[c]).id = BadId
  /\ cursor' = [cursor EXCEPT ![c] = @ + 2]
  /\ UNCHANGED <<pkts, phase, pc, table, toAdd, lastCheck, result, checkVars>>

(* typeid(p_rep) == typeid(basic_packet_bad): continue *)
SkipBad(c) ==
  /\ phase = "scan" /\ pc[c] = "scan" /\ cursor[c] < Last(c)
  /\ At(cursor[c]).id = BadId
  /\ cursor' = [cursor EXCEPT ![c] = @ + 1]
  /\ UNCHANGED <<pkts, phase, pc, table, toAdd, lastCheck, result, checkVars>>

CheckDueSwapped(c, now) == lastCheck[c] - now - EVICT_FLOW_TIME_OUT > 0
IdleInclusive(fl, now) == now - End(fl) - FLOW_TIME_OUT >= 0

CheckDue(c, now) == now - lastCheck[c] - EVICT_FLOW_TIME_OUT > 0
Idle(fl, now) == now - End(fl) - FLOW_TIME_OUT > 0

(* The packet joins the flow of its id, which it may open, and only then, if *)
(* a check is due, are the idle flows moved out of the table.                *)
ScanPacket(c) ==
  LET i == cursor[c]
      now == At(i).ts
      grown == [table[c] EXCEPT ![At(i).id] = @ \cup {i}]
      evicted == {id \in Ids : /\ CheckDue(c, now)
                               /\ grown[id] # {}
                               /\ Idle(grown[id], now)}
  IN  /\ phase = "scan" /\ pc[c] = "scan" /\ i < Last(c)
      /\ At(i).id \in Ids
      /\ table' = [table EXCEPT ![c] =
                     [id \in Ids |-> IF id \in evicted THEN {} ELSE grown[id]]]
      /\ toAdd' = [toAdd EXCEPT ![c] = @ \cup {grown[id] : id \in evicted}]
      /\ lastCheck' = [lastCheck EXCEPT ![c] = IF CheckDue(c, now) THEN now ELSE @]
      /\ cursor' = [cursor EXCEPT ![c] = @ + 1]
      /\ UNCHANGED <<pkts, phase, pc, result, checkVars>>

HeldForgetsOpen(c) == toAdd[c]

(* What the thread appends under construct_mutex: evicted and open flows. *)
Held(c) == toAdd[c] \cup ({table[c][id] : id \in Ids} \ {{}})

Publish(c) ==
  /\ phase = "scan" /\ pc[c] = "scan" /\ cursor[c] >= Last(c)
  /\ result' = result \cup Held(c)
  /\ pc' = [pc EXCEPT ![c] = "returned"]
  /\ toAdd' = [toAdd EXCEPT ![c] = {}]
  /\ table' = [table EXCEPT ![c] = NoFlow]
  /\ UNCHANGED <<pkts, phase, cursor, lastCheck, checkVars>>

Join ==
  /\ phase = "scan"
  /\ \A c \in Cores : pc[c] = "returned"
  /\ phase' = "check"
  /\ UNCHANGED <<pkts, scanVars, result, checkVars>>

-------------------------------------------------------------------------------
(* flow_double_check *)

Numbering(S) == {e \in [S -> 0 .. Cardinality(S) - 1] : \A x, y \in S : x # y => e[x] # e[y]}

(* _flow_double_check4/6 up to the spawning of its workers: the flows are    *)
(* grouped by id, the groups listed in the order of an unordered_map, the    *)
(* list cut into ranges, and the result vector replaced by an empty one.     *)
BeginCheck(f) ==
  LET old == FlowsOf(f, result)
      keys == {FlowId(fl) : fl \in old}
      n == Cardinality(keys)
  IN  /\ phase = "check" /\ f \notin checking
      /\ checking' = checking \cup {f}
      /\ temp' = [temp EXCEPT ![f] = old]
      /\ result' = result \ old
      /\ \E place \in Numbering(keys) :
           work' = [work EXCEPT ![f] = [w \in CheckCores |->
                      {id \in keys : place[id] \in Slice(n, CheckMultiplex, w)}]]
      /\ UNCHANGED <<pkts, phase, scanVars, checked>>

Group(f, id) == {fl \in temp[f] : FlowId(fl) = id}

LessOrEqual(a, b) == Str(a) <= End(b)

(* The comparator handed to std::sort. *)
Less(a, b) == Str(a) < End(b)

(* The comparator orders the group, as std::sort requires: it never puts two *)
(* flows before each other.  (The library compares no element with itself.)  *)
Orderly(g) == \A a, b \in g : a # b => ~(Less(a, b) /\ Less(b, a))

(* What std::sort may leave in pvec. *)
Sorted(g) ==
  LET n == Cardinality(g)
  IN  {o \in Bijection(1 .. n, g) : \A i, j \in 1 .. n : i < j => ~Less(o[j], o[i])}

CutStrict(o, k) == Str(o[k]) - End(o[k - 1]) > FLOW_TIME_OUT
CutFromFirst(o, k) == Str(o[k]) - End(o[1]) >= FLOW_TIME_OUT

(* _cur starts FLOW_TIME_OUT or more after _prev ends: a new flow begins. *)
Cut(o, k) == Str(o[k]) - End(o[k - 1]) >= FLOW_TIME_OUT

Run(o, i) ==
  {j \in DOMAIN o : \A k \in DOMAIN o :
     (i < k /\ k <= j) \/ (j < k /\ k <= i) => ~Cut(o, k)}

(* _f_merge over the maximal runs without a cut; a single flow is kept. *)
Merged(o) == {UNION {o[j] : j \in Run(o, i)} : i \in DOMAIN o}

CheckWorker(f, w) ==
  /\ phase = "check" /\ f \in checking /\ w \notin checked[f]
  /\ \A id \in work[f][w] : Orderly(Group(f, id))
  /\ \E order \in [work[f][w] -> UNION {Sorted(Group(f, id)) : id \in work[f][w]}] :
       /\ \A id \in work[f][w] : order[id] \in Sorted(Group(f, id))
       /\ result' = result \cup UNION {Merged(order[id]) : id \in work[f][w]}
  /\ checked' = [checked EXCEPT ![f] = @ \cup {w}]
  /\ UNCHANGED <<pkts, phase, scanVars, checking, temp, work>>

(* std::sort with a comparator that is no order: the behaviour is undefined, *)
(* and nothing more is said of what the process does.                        *)
SortUndefined(f, w) ==
  /\ phase = "check" /\ f \in checking /\ w \notin checked[f]
  /\ \E id \in work[f][w] : ~Orderly(Group(f, id))
  /\ phase' = "undefined"
  /\ UNCHANGED <<pkts, scanVars, result, checkVars>>

(* The workers of both families are joined, then th4 and th6. *)
JoinCheck ==
  /\ phase = "check"
  /\ checking = Family
  /\ \A f \in Family : checked[f] = CheckCores
  /\ phase' = "done"
  /\ UNCHANGED <<pkts, scanVars, result, checkVars>>

Finished == phase \in {"done", "abort", "undefined"} /\ UNCHANGED vars

ScanStep(c) ==
  \/ ReturnEmpty(c)
  \/ Start(c)
  \/ StartThrows(c)
  \/ SkipBad(c)
  \/ ScanPacket(c)
  \/ Publish(c)

WorkerStep(f, w) == CheckWorker(f, w) \/ SortUndefined(f, w)

CheckStep(f) == BeginCheck(f) \/ \E w \in CheckCores : WorkerStep(f, w)

Next ==
  \/ \E c \in Cores : ScanStep(c)
  \/ Join
  \/ \E f \in Family : CheckStep(f)
  \/ JoinCheck
  \/ Finished

Spec == Init /\ [][Next]_vars

(* Every spawned thread is scheduled, and the joining thread too. *)
Fairness ==
  /\ \A c \in Cores : WF_vars(ScanStep(c))
  /\ \A f \in Family : WF_vars(BeginCheck(f))
  /\ \A f \in Family : \A w \in CheckCores : WF_vars(WorkerStep(f, w))
  /\ WF_vars(Join)
  /\ WF_vars(JoinCheck)

-------------------------------------------------------------------------------
(* Properties *)

TypeOK ==
  /\ pkts \in Traces
  /\ phase \in {"scan", "check", "done", "abort", "undefined"}
  /\ pc \in [Cores -> {"spawned", "scan", "returned"}]
  /\ cursor \in [Cores -> 0 .. N]
  /\ table \in [Cores -> [Ids -> SUBSET Good]]
  /\ toAdd \in [Cores -> SUBSET SUBSET Good]
  /\ lastCheck \in [Cores -> Times \cup {0}]
  /\ result \in SUBSET SUBSET Good
  /\ checking \in SUBSET Family
  /\ temp \in [Family -> SUBSET SUBSET Good]
  /\ work \in [Family -> [CheckCores -> SUBSET Ids]]
  /\ checked \in [Family -> SUBSET CheckCores]

(* Flows of a family waiting for their double check worker. *)
Waiting(f) ==
  {fl \in temp[f] : \E w \in CheckCores \ checked[f] : FlowId(fl) \in work[f][w]}

(* Every flow in some thread's hands or in the shared result. *)
Flows ==
  result \cup (UNION {Held(c) : c \in Cores}) \cup (UNION {Waiting(f) : f \in Family})

(* The good packets thread c has gone past. *)
Seen(c) == {i \in Good : pc[c] # "spawned" /\ First(c) <= i /\ i < cursor[c]}
Scanned == UNION {Seen(c) : c \in Cores}

Homogeneous(fl) == fl # {} /\ \A i, j \in fl : At(i).id = At(j).id
Disjoint(S) == \A a, b \in S : a # b => a \cap b = {}

(* Whatever the interleaving of scanning, publishing and double checking,   *)
(* the flows partition the packets scanned so far: no packet is lost or     *)
(* counted in two flows, no bad packet gets in, and a flow never mixes two  *)
(* 5-tuples (construct_flow, lines 37-137, and the two double checks).      *)
Conservation ==
  /\ UNION Flows = Scanned
  /\ Disjoint(Flows)
  /\ \A fl \in Flows : Homogeneous(fl)

(* After construct_flow, two flows of one 5-tuple are at least the flow      *)
(* time-out apart, although the thread ranges cut flows at arbitrary packets *)
(* (capture order; line 199).                                                *)
SameIdSeparated ==
  phase = "done" =>
    \A a, b \in result :
      a # b /\ FlowId(a) = FlowId(b) =>
        Str(a) - End(b) >= FLOW_TIME_OUT \/ Str(b) - End(a) >= FLOW_TIME_OUT

(* The good packets are in the order of their times. *)
PacketsInOrder == \A i, j \in Good : i < j => At(i).ts <= At(j).ts

(* In a capture in order std::sort is given a comparator that orders the     *)
(* flows of each 5-tuple: those of one 5-tuple, evicted by a thread or cut   *)
(* by the ranges, do not overlap in time (lines 180 and 258).  A flow that   *)
(* ends at the time the next begins is the near miss.                        *)
SortDefined == PacketsInOrder => phase # "undefined"

(* A silence longer than the time-out may stay inside a flow, because the    *)
(* arriving packet is added before idle flows are looked for and checks are  *)
(* rationed; but never when the thread saw, during the silence, a packet     *)
(* later than time-out plus check interval (lines 51-110).                   *)
LingerBound ==
  phase = "done" =>
    \A fl \in result : \A p, q \in fl :
      p < q /\ (\A i \in fl : ~(p < i /\ i < q)) =>
        \/ At(q).ts - At(p).ts < FLOW_TIME_OUT
        \/ \E c \in Cores :
             /\ {p, q} \subseteq Slice(N, Multiplex, c)
             /\ \A r \in Good : p < r /\ r < q =>
                  At(r).ts - At(p).ts <= FLOW_TIME_OUT + EVICT_FLOW_TIME_OUT

(* Seen from outside, construct_flow takes one step from the packets to the  *)
(* flows FlowSpec defines: a function of the packets and the thread count.   *)
Abstract == INSTANCE FlowSpec WITH
  flows <- IF phase = "done" THEN result ELSE {},
  status <- IF phase \in {"scan", "check"} THEN "running" ELSE phase

ImplementsFlowSpec == Abstract!Spec
================================================================================
