# HyperVision: a TLA+ model of the traffic detector

This directory models the C++ detector in `src/HyperVision_Cpp`: the pipeline that turns a
packet trace into flows, flows into edges, edges into an interaction graph, and the graph
into one anomaly score per packet, and the driver that runs it over windows and datasets
with a model that learns from one to the next. The modules are checked with TLC on small
instances; for every component the main results are proved with TLAPS for all instances.

Paths below are relative to `src/HyperVision_Cpp`.

## 1. The system

```
capture or text file
   |  packet_parse (threads)  /  dataset_construct (threads)
   v
packets  --construct_flow (threads)-->  flows  --do_construct (threads)-->  edges
   --parse_edge, connected_component, component_select, proc_components-->  edge scores
   --get_final_pkt_score-->  packet scores  --do_save / do_save2-->  result files

detector_main.hpp drives this per growing window, per dataset, per run;
graph_define.hpp also holds a real-time queue of packets.
```

There are no unit tests and no design document: what the code promises stands in its
comments, assertions and log lines.

### Inventory

**Packet parsing** (`packet_parse/`). State: the raw packets, one parsed packet per raw
one, a counter of bad packets. Operations: `parse_raw_packet` reads the capture,
`parse_basic_packet_fast` has threads decode disjoint ranges into a vector of null pointers.
Hard: the ranges, the join before the vector is used, and the counter, which every thread
increments without a lock. Correct when: packet `i` of the result is the decoding of raw
packet `i`, and what a packet is told by keeps connections apart and whole.

**Dataset construction** (`dataset_construct/`). State: packets, the train/test split, the
labels of the test part. Operations: import from text (threads over clamped ranges), split
by `train_ratio`, read or generate labels. Interacts with the detector through `p_label`,
which holds labels of the test part only. Correct when: every line is read once and a label
stays with its packet.

**Flow construction** (`flow_construct/`). State: per thread an open-flow table for each
address family, evicted flows, the time of the last eviction check; shared result vectors
under a mutex; per family a regrouping of the results. Operations: scan a packet, evict,
publish, double-check (group by 5-tuple, sort, merge). Hard: threads publish in any order;
ranges cut flows anywhere; the double check replaces vectors its own workers refill; the
unclamped ranges; a comparator that orders only flows that do not overlap. Correct when: the flows partition the
packets by 5-tuple, two flows of one 5-tuple are a time-out apart, and what is sorted is
ordered by the comparator.

**Edge construction** (`graph_analyze/edge_constructor.*`). State: long and short flows, a
fetched mark per short flow, three aggregation tables, two edge vectors, two packet
counters. Operations: classify, turn long flows into edges (threads), three aggregation
passes, emit. Hard: the shared counter and vector; passes that take flows from one another
by marks. Correct when: each flow is in one edge and an edge's code says what it shares.

**Component search** (`graph_analyze/graph_component.cpp`). State: marks, the open recursive
calls, the part under construction, the parts. Hard: recursion over shared marks, in the
order of hash tables. Correct when: the parts are the weakly connected components.

**Traffic graph** (`graph_analyze/graph_define.*`, `graph_analysis*.cpp`,
`graph_component.cpp`). State: edges, six edge indexes and three vertex sets by address,
components, selection, clusters, score vectors, the learned centroids, packet scores.
Operations: index, find and select components, cluster, score, hand scores to packets. Hard:
three numberings of the edges that must be taken back to one another; algorithms for sorted
ranges on hash tables; sentinels (-1, 0) that scores may also reach. Correct when: every
edge belongs to a component and a score reaches the edges and packets it was computed for.

**Detector** (`graph_analyze/detector_main.hpp`). State: the model of the current run, that
of the previous window, window results, model files. Operations: start, process dataset,
process window, blend parameters, save and load a model, write results. Hard: a file
rewritten in place and never verified, crashes and failed writes, window arithmetic, a model
handed on through three pointers and early returns. Correct when: windows cover the data,
learning is chained, and what is loaded is what was saved.

**Dynamic update queue** (`graph_analyze/graph_define.hpp:128-346`, and the real-time entry
points of the detector). State: a priority queue, rate averages, new edges by address, a
pending flag. Hard: priorities that change with the queue, indexes and score vectors updated
apart, edges that wait for a batch. Correct when: every queued packet is analysed, with
indexes as `parse_edge` would have built them. No caller in the repository uses it.

**Main, configuration** (`main.cpp`, `option.hpp`, `common.hpp`) and **scripts, result
analysis, performance tests**: values and launchers.

### How the parts interact

Parts call one another in sequence within one process and share vectors through
`shared_ptr`; the only threads are the pools inside parsing, import, flow construction and
edge construction, each joined before its function returns. Hence the interleavings are
inside the parts and each part has a module of its own. Where one part's correctness rests
on another's, the modules are composed:

- `Capture` puts the parsing threads before `FlowConstruct` on one vector and shows (TLC and
  proof) that construction cannot tell the composition from being handed the parsed packets;
- `DynamicGraph` runs the update queue on the `TrafficGraph` of a processed window;
- `Components` defines the components for both the search and the graph;
- `Partition` is the scheme that cuts an array for a pool, in `Capture`, `FlowConstruct`,
  `EdgeConstruct`, `Detector` and `DynamicGraph`. Its `Overshoots` is the condition on which
  `Detector` and `DynamicGraph` let the process end; `CaptureCompletion` shows that it is
  exactly that of `construct_flow`.

## 2. Modules and the code

| module | code | state and actions |
|---|---|---|
| `Partition` | the five range loops | `From`, `To`, `Slice`: `_assign[k]` of the unclamped scheme; `Clamped*`: the importer's; `Overshoots`: a range starts beyond the array |
| `FlowConstruct` | `explicit_constructor.cpp` | `pc`, `cursor`, `table`, `toAdd`, `lastCheck`: a thread's locals; `result`: the two result vectors; `temp`, `work`, `checked`: one double check per family. `ReturnEmpty`, `Start`, `StartThrows`, `SkipBad`, `ScanPacket`, `Publish`: a scanning thread; `Join`; `BeginCheck`, `CheckWorker`, `SortUndefined`, `JoinCheck`: `flow_double_check` |
| `Capture` | `pcap_parser.cpp`, `packet_info.hpp`, `import_dataset` | `source`, `raw`: what is read; `parsePc`, `parseAt`, `seen`: a parsing thread's locals; `bad_packet`: the shared counter. `ReadRaw`, `ParsePacket`, `ReadBad` and `WriteBad` (the increment's two halves), `JoinParsers`, then every action of `FlowConstruct` on the same `pkts` |
| `FlowSpec` | the promise of `FlowConstruct` | one step from packets to flows, as a function of the packets and the thread count; of packets out of order it promises nothing (`Lose`) |
| `EdgeConstruct` | `edge_constructor.cpp` | `Classify`, `LongWorker`, `JoinLong`, `Aggregate(pass)`, `Emit` |
| `Components` | definition of the components | `Closed`, `WeakComponents`: reference only |
| `ConnectedComponent` | `graph_component.cpp:12-78` | `stack`: the open calls of `_f_dfs`. `Build` (with its assertion), `NewPart`, `Descend`, `Return`, `Finish` |
| `TrafficGraph` | `graph_define.cpp`, `graph_component.cpp`, `graph_analysis*.cpp` | `ParseEdge`, `FindComponents`, `Select`, `ProcComponent`, `FinalScore` |
| `Detector` | `detector_main.hpp`, `serialize`/`deserialize` | `Start`, `OpenDataset`, `Window`, `OpenFile`, `WriteFile`, `EndDataset`, `NextDataset`, `EndRun`, `Crash`; `labelFile`, `windowLabels`: the labels read and those of each window |
| `DynamicGraph` | `graph_define.hpp:128-346` | `queue`, the averages behind the priorities, `tracked`: new short edges by address, `pending`. `ProcessWindow` or `LoadedModel` gives the graph, `AddPacket` includes the batch it completes: `ProcessQueue`, `UpdateWithNewPackets`, `UpdateClusters` |
| `MC*` | | inputs for TLC |
| `*Proofs` | | theorems and their proofs |

Abstractions, by module.

- *FlowConstruct.* A flow is the set of its packets' indices: id, start and end are
  functions of them, as `emplace_packet` and the merging constructor compute them. Times are
  positive integers (those of bad packets also 0): a running maximum that starts at the least
  positive double is then the maximum, and a flow whose packets all have the time 0 is left
  out. The hash table's iteration order is any numbering of its keys (`BeginCheck`).
  `std::sort` gives any order its comparator allows (`Sorted`) when it is an order on the
  flows of the group; when two flows overlap it is none, the behaviour of `std::sort` is
  undefined, and the model goes to the phase `undefined` (`SortUndefined`), from which it says
  nothing. So what is shown of a disordered capture holds up to there. A scan step between two
  mutex operations touches only the thread's own variables, so a packet per step loses no
  interleaving.
- *Capture.* What the header library finds in a packet is a record of its protocols, address
  and port pairs, flags and time; the two bit codes a packet passes through are sets
  (`TypeCode`, `StackCode`). The window between parser and construction is all packets, as
  in a run with `window_size` 0. The text of a data set is that of `get_pkt_str`.
- *EdgeConstruct.* A flow is its index; the publication of a thread (edges and counter, under
  one lock) is one step. The distributions of a long edge depend on one flow and are left out.
- *ConnectedComponent.* The next neighbour is any unmarked one, which covers every order
  of the adjacency lists.
- *TrafficGraph.* Clustering, losses and the solver's vertex cover may give any result of
  the right shape. The component search is its result, `WeakComponents`; that the code's
  search computes it is what `ConnectedComponent` shows. The edges of a component get positions
  by the iteration of its hash set (`Iterations`); clusters are of positions (`Assignments`),
  and the entries that get a loss are taken back to edge indexes (`OriginIndex`). A loss is
  not 0, the score of an edge never scored. Scores and the two offsets are integers.
  `std::set_difference` is modelled step by step (`MergeDifference`), on every iteration order.
- *Detector.* Of a graph it keeps the trained flag, which centroids exist, and the set of
  windows whose parameters were blended in. A torn file is what `deserialize` makes of a
  prefix of the file (`Torn`): it never looks at the state of the stream. A label is the
  index it was read at, so that a label that left its packet shows.
- *DynamicGraph.* The flows and edges of a batch are any that fit its packets. A moving
  average keeps what the priorities tell apart. A score update writes the scores of the edges
  within the vector as a window does (`Written`); if it also writes beyond it, the phase is
  `undefined`, from which nothing is claimed.

Definitions such as `CutFromFirst` or `ReturnAlways`, which no action uses, are faulty
variants of the definition after them, kept to show that a property can fail; `PROJECT.json`
pairs each with its property.

## 3. Runs

| run | question | instance | shows |
|---|---|---|---|
| `FlowScan` | scanning, eviction, publishing, the double check | captures of 0, 1 and 5 packets (bad ones included) and of 7 over two families, and of 6 packets of one 5-tuple with seven timestamps; one capture whose times decrease; 3 scanning and 2+2 checking threads | flows partition the scanned packets at every step; a silence inside a flow is bounded; flows of a 5-tuple end a time-out apart; the sort's comparator orders what it is given in a capture in order; the result is `FlowSpec`'s |
| `Capture` | from a file to its flows | captures and data sets of 0, 1, 3 and 4 packets in any order of times (TCP with and without flags, UDP, IPv6, bad); 2 parsing, 3 scanning, 2+2 checking threads | construction sees only parsed packets; flows are those of the headers' connections; the racing counter stays within bounds; the program ends, in termination exactly when nothing is read or a range overshoots, or, only if times decrease, reaches a sort whose behaviour is undefined |
| `Edge` | aggregation and its threads | every vector of 4 flows, short over 2 addresses, ports, codes, or long and short mixed; 3 threads | each flow in one edge, counters agree, codes exact, nothing aggregable left |
| `Search` | the depth-first search | every graph of at most 4 edges on 4 addresses | weakly connected components; the recursion is a simple path; it ends, in a failed assertion exactly when an edge joins an address to itself |
| `Graph` | from edges to scores | 2 short and at most 1 long edge over 3 addresses, and denser graphs of 3 and 3 | no edge left out; scores go by way of positions to the edges of the components that were selected, to those of a cluster alike, and with their offsets to packets |
| `GraphDifference` | the global component | one instance of two edges | it is no difference (finding) |
| `Detector` | windows, labels, chains, files | seven inputs of imported and captured data, windows of 2, two runs, crash or failed write anywhere | windows cover the data; labels stay with their packets when no training part is set apart; learning is chained; a torn file that claims a trained model has the parameters of its window (its centroids may be missing) |
| `DetectorLabels` | labels beside a training part | a capture of 5 packets and 3 labels, 2 packets set apart | packets have others' labels, or ones read beyond the string (finding) |
| `DetectorFlag` | the saved flag | as `Detector`, one run | it differs from the model's (finding) |
| `Dynamic` | the update queue | 6 packets of two kinds in batches of 3, four outcomes of a batch, on every graph a window of two can leave, and on a loaded model | no packet lost or served twice; edges found from their addresses; waiting edges kept; both up to an update that writes beyond a score vector |
| `DynamicScores` | score vectors under updates | as `Dynamic` | they are written beyond their end (finding) |
| `DynamicDefault` | the built-in batch | 50 packets, 32 threads | the process terminates (finding) |

**Bounds.** They are chosen so that each hazard has room.

- Packet counts 5, 6 and 7 over 3 threads give ranges of two and three packets, so a flow can
  be open, evicted, come back and be cut by a range boundary. The gaps between timestamps
  include the time-out exactly, one below and one above it. In `Capture`, over 3 threads, 0
  packets make all ranges empty, 1 makes the last start beyond the array, 3 fill them, and
  4 make the last start at its end; of its captures only those that begin with one of two
  packets are taken, the others being alike. 50 over 32 is the code's own.
- Four flows with an aggregation line of 1 let one pass take flows from the next and leave
  two behind; two flows exceed a line of 1 as 21 exceed the default of 20.
- Four addresses and four edges include cycles, trees, isolated pairs and self loops. The
  proof removes the bound.
- Two losses, one below -1 and one positive, are enough to order scores around the
  sentinels -1 and 0. The offsets are 5 for long edges, as in most configurations of the
  repository, and 0 for short ones. Hash sets of up to `MaxPermuted` = 3 edges, which are all
  those of `Graph`, are iterated in every order; the larger ones of `Dynamic` upwards and
  downwards.
- Datasets of 3 packets (two windows, the second partial), 0, 2 and 1 packets (the last
  overshoots three threads), windows of 2; the second run starts from any file of the first.
  A label file one short is the shape the labels have without a training part;
  with one, a small capture shows both ways they go wrong.
- Two batches of three let a first batch leave edges for the second and both reach the
  cluster update; priorities have two classes of packets, the least and the greatest bonus.
  The update that follows three new edges scores nothing if they are all noise or all of one
  cluster, and otherwise writes beyond the vectors, so both kinds happen.

No counter is cut off: the search, the flows and the edges are finite by their inputs and
`MaxRuns` bounds the runs of the program, `MaxPackets` the packets of the queue.

Stopping is modelled as an explicit step (`Finished`, `Stopped`, `Ended`, `Idle`), so
deadlock is checked in every run.

**Fairness.** Two liveness properties need it. `CaptureSpec` gives weak fairness to each
parsing, scanning and checking thread (`Fairness` of `FlowConstruct`) and to each join: they
are `std::thread`s which the scheduler runs, no step of theirs waits for anything but a
mutex held over a finite append, and the joining thread waits for all of them.
`ConnectedComponent`'s `FairSpec` says the sequential search keeps running. No fairness is
assumed elsewhere.

## 4. What is proved

All proofs assume only the named assumptions on the constants (thread counts are positive,
time-outs are natural numbers, the times of packets are positive, the two families' ids differ
and neither holds the id of a bad packet, edges join addresses, losses are not 0, offsets are
integers).

`CommonProofs`: `SlicesDisjoint` and `SlicesCover`. For every array length and worker
count the unclamped ranges are disjoint and cover the array: the multiplication facts are
isolated in three lemmas on `PartSize`. The module also has the inductions the other proofs
use. They speak of sets, not of predicates: `SetOfNaturalsInduction` (a set of naturals with 0
and all successors is `Nat`), `FamilyInduction` (a family of subsets of a finite set that
grows by one element has the whole set); a proof defines the set it wants to be everything.

`FlowConstructProofs`: `TypeCorrect`, `PacketsConserved`, `ResultCorrect`. `Conservation`
("the flows partition the packets scanned so far") is not inductive: it does not say whose
hands a packet is in. The invariant `IInv` adds it, in three parts.
`ThreadInv(c)`: a thread's table and evicted flows hold exactly what lies between the start
of its range and its cursor, an index once. `ResultInv`: the shared result holds exactly what
returned threads have seen. `CheckInv`: during the double check every good packet is in the
new result or in one group handed to one unfinished worker. One lemma per action preserves
it; `SlicesDisjoint` gives that two threads never see the same packet, `SlicesCover` that
when all have returned every packet was seen, and `MergedPartition` that merging the runs of
a sorted group keeps its packets. No order of times is needed, but in a disordered capture
the result reaches only to the first sort whose comparator is no order.

The rest of the module is about time. `SortsDefined`: of a capture in the order of its times
(`PacketsInOrder`) no group ever has overlapping flows, so that sort is not reached
(`GroupOrderly`, from `Convex` below). `FlowsSeparated`: two flows of a 5-tuple are the
time-out apart, under the same hypothesis.
`SilencesBounded`: a long silence inside a flow is bounded, if also no bad packet is later than
a good one after it (`TimesInOrder`: the first packet of a range, bad or not, starts the
clock of the eviction checks). Both hypotheses are needed: without the first the run
`Capture` reaches a sort of overlapping flows, without the second TLC finds a longer silence
among four packets. `IInv` says nothing of times; `TimeInv` adds
that an open flow has every packet of its id since its first, and that its last packet was
not idle at the last check (`OpenInv`); that a flow as a thread made it has all packets of its
id between its ends (`Convex`), so that in a capture in order the flows of one id are ordered
and merging those closer than the time-out leaves only gaps of at least that
(`ResultTimes`).

`FlowsSpecified`: for a capture in order `construct_flow` implements `FlowSpec`, the steps of
the threads, of the double check and of the joins mapping to stutters and the return to
`Complete`. `FlowSpec` knows no thread's state; it says when an eviction check ran from the
packets alone, by a recursive function over the range (`LastCheck`). `ExactInv` ties the two:
a thread's `lastCheck` is that function at its cursor, an open flow was found idle by no
check since its last packet, and a flow as a thread made it has, after each packet, the next
of its id exactly if both are of one range and `FlowSpec` does not break the flow between
them (`Exact`); a merged one also continues over gaps below the time-out (`Joined`).
That the recursive function exists is itself proved
(`CheckTimesExist`, by induction on the length), then that it solves its equation
(`LastCheckOf`). At the end a convex set of packets that is closed under the same successor is
the flow `FlowSpec` defines (`FlowIsSpecified`). So the flows of an ordered capture depend on
the packets and the thread count, not on the interleaving, the hash order or the sort.

`CaptureProofs`: `CaptureImplementsConstruct`, `BadPacketsCounted`, `CaptureTypeCorrect`,
and `ConnectionsAlwaysKept`, `CaptureConserved`, `CaptureSilencesBounded`, `CaptureDetermined`.
The first is a refinement: `CaptureSpec` implements `FlowConstruct`'s specification with the
parsed packets in the place of the vector. `ParseInv` says that each thread has set exactly
the packets between the start of its range and its index; the ranges, clamped or not, cover
the array (`RangesCover`), so that after the join the vector is `AllParsed` and each action
of construction is that action of the instance (`StepConstruct`); before it, every step is
invisible. `CountInv` bounds the counter: the packets set are counted by `BadSet`, which a
write grows by a packet no other thread has in its range (`NotYetSet`, from
`SlicesDisjoint`), and a thread writes one more than it once read, so never more than
`BadSet` holds and never zero. The others carry the results about `construct_flow` back to
the capture: `ConstructInv` says that the invariant of `FlowConstruct` (`WholeInv`) holds from
the join on, and `RawOrder` that times in order in the file are in order after parsing.

`ConnectedComponentProofs`: `SearchTypeCorrect`, `SearchPartsClosed`, `SearchStackIsPath`,
`SearchCorrect`. Every
graph, every adjacency order. `IInv` adds to `PartsClosed` that a vertex of the part whose
call has returned has only marked neighbours (`SearchInv`), so the part is closed when the
last call returns; and that a closed set meeting a part contains it (`Minimal`, in
`PartsInv`), so no part is two components. It gives `TrafficGraph` the licence to take the
search's result for granted.

`EdgeConstructProofs`: `FlowsInOneEdge`, `CodesExact`, `AggregationComplete`,
`PacketsCounted`, `EdgeTypeCorrect`. `LongInv`: the
published long edges are the shares of the threads that have published, which cover the long
flows by `SlicesCover`. `GroupsInv`: the groups taken so far are disjoint and together are
the fetched flows, and when a pass is over no more than `EDGE_AGG_LINE` of the flows that
remain share its key. The last part is what makes codes exact: a group larger than the line
cannot agree on what an earlier pass aggregates by (`BigDiffers`). For the counters `SumInv`
says that each is the sum over the edges published so far; sums over sets are folds, whose
laws (one element more, disjoint unions, a partition into edges) follow by `FamilyInduction`.

`TrafficGraphProofs`: `ScoresFromSelected` (from `ScoreInv`: scores are 0 until components are
processed, and one that is processed changes its own edges only, because what `OriginIndex`
makes of positions are edges of the set that was iterated, whatever the order),
`ClustersAlike` (each cluster is one entry, its positions go back to all its edges, and entries
are disjoint, so an edge is given one loss), `PacketScores` (from the first and `FinalInv`: the
final score is the greatest of -1 and the scores of the packet's edges with their offsets),
`EdgesSearchedOnce` (from `IndexInv` and `OneComponent`: a vertex lies in exactly one weakly
connected component, the intersection of the closed sets that hold it), `EdgesHaveComponents`
and `GraphTypeCorrect`. The last two need the global component, made by a difference that
walks two hash tables as if they were sorted. `MergeBounds` shows by induction on
the two positions that its result lies between the difference and its first argument whatever
the two orders (`GlobalInv`): it may repeat addresses, as finding 3 says, but misses none.

`DetectorProofs`: `TrainedFiles` (from `FileInv`: each write, torn or whole, that claims a
trained model holds the parameters of the model written, and between `Window` and the write
`previous` holds those of this window), `WindowsCover` (from `WindowsInv`: the results so
far are the first window lengths; `WindowArithmetic` does the division), `LabelsCorrect` (from
`LabelInv`: `p_label` is what the two import paths make of the label file), `LearningChained`
(from `ChainInv`: what `previous` has learned is what the windows since the last untrained
one have, at each point of the hand-over between windows and datasets) and `DetTypeCorrect`.

`DynamicGraphProofs`: `QueueKeepsPackets`, `BatchesNewestFirst`, `DynEdgesIndexed`,
`LatestTracked`, `DefinedUpdatesScoreNoShort`, `DynTypeCorrect`, for every graph, batch size and
clustering. `QueueInv`: the queue holds the packets since the last full batch, by arrival.
`OrderInv`: once a batch was served, of two packets in the queue the later has the greater
priority, and none exceeds a bound that the next arrival does (`WaitBound`). `EdgeInv`, `TrackInv`, `GrowInv`: the edge vectors
grow only, every index under an address names an edge of it, and the tracked edges are an
end of the vector beyond every score: an update that scores one writes beyond the vector, and
one that stays defined scores no short edge (`DefinedUpdatesScoreNoShort`).

A recursive function is a `CHOOSE` in TLA+, which says nothing until a function that solves
the equation is known to exist. Each proof about one (`LastCheck`, `MergeDifference`) shows
that first, by induction, and concludes only then that the function solves it.

Only model-checked: liveness (`CaptureCompletion`, `SearchEnds`), since TLAPS has no fairness
reasoning. Every other property of a passing run is a theorem; `FlowsSeparated`,
`SortsDefined`, `SilencesBounded` and `FlowsSpecified` carry the hypothesis on the order of times, which all
traces of the run `FlowScan` but one satisfy; in that one two flows of a 5-tuple overlap.

## 5. Findings

Each is a `violation` run, quoted with its line in `PROJECT.json`.

1. `DynamicDefault`. A thread range that starts beyond the packets reads `at(_from)`
   (`explicit_constructor.cpp:49`) and ends the process. The dynamic queue's built-in batch
   of 50 over the built-in 32 threads does so the first time it is full.
2. `DynamicScores`. An incremental update appends edges but resizes no score vector
   (`graph_define.hpp:264`), so scoring a new edge, or any edge of a loaded model, writes beyond
   a vector or through a null pointer. `DefinedUpdatesScoreNoShort` proves the converse: an
   update that stays within the vectors gives no short edge a score.
3. `GraphDifference`. `std::set_difference` on unordered sets (`graph_component.cpp:181`): the
   global component may repeat addresses of the others. No edge is lost by it
   (`EveryEdgeHasComponent` holds on every order).
4. `DetectorFlag`. The saved "has_trained_model" is computed from the centroids
   (`graph_define.hpp:439`) and is false for a trained model whose edges were all noise.
5. `DetectorLabels`. With a training part set apart, `p_label` holds the labels of the test part
   only, but a window copies them from the index of its first packet in the whole capture
   (`detector_main.hpp:403`), so packets go with the labels of later ones. And the loop that
   reads them bounds their number by the length of the label string, but reads from the
   training part on (`basic_dataset.cpp:34-35`): of a string shorter than the capture it reads
   beyond the end.

Three more disagreements show in what is checked or proved, without a run that refutes them.

- "Higher waiting time should increase priority" (`graph_define.hpp:190`), but a priority is
  computed once, from the time of arrival: later packets have the greater. `BatchesNewestFirst`
  proves what follows: from the second batch on each is served in reverse order of arrival.
- `assert(ref.first != ref.second)` (`graph_component.cpp:49`) fails on a flow from an address to
  itself, which nothing between the capture and the graph filters out: `SearchEnds`.
- A component whose edges form exactly one cluster is not scored: `_pre_process_short` returns
  the greatest cluster id, counted from 0, and `graph_analysis.cpp:24` uses it as a count, as
  does the log line of `graph_analysis_basic.cpp:251`. `IsProcessed` is that condition, and
  `ClustersScoredAlike` holds only under it.

A log line of `graph_component.cpp:9` speaks of *strong*
components; the search takes edges in both directions, so they are weak.

## 6. Not modelled, and why

- *Packet decoding, the text format, JSON configuration, command line*: functions of one
  input, or pure input and output; a configured value is a constant. The one bit code that
  decides which flow a packet is in is modelled. `type_statistic` only prints.
- *Distributions of long edges, feature vectors, DBSCAN, k-means, the solver*: numeric
  library code, replaced by any result.
- *Result and timing files* (`do_save`, `do_save2`): each run writes them once and none reads
  them.
- *The detector's entry points to the queue* (`process_packet`, `process_packet_batch`): they
  pass packets on, and nothing in the repository calls them. `min_packets_for_update` of the
  configuration never reaches the graph, which keeps its built-in 50.
- *The performance and accuracy programs*: they time the detector or draw their predictions
  from a generator; none is part of a run of it.
- *Vendored code*: `json.hpp` and the solver under `env/` are most of the C++ lines of the
  repository (about 34000 of 44600), which is why the mapped share of all lines is small.
- *Dead code*: `construct_short_flow2`, `initialize_clustering_from_model`.
- *The zero bin size of an unused distribution, the empty range of a feature, a selection
  ratio above 1*: listed as hazards with the reason no property covers them.

## 7. Plan

Done, in this order: `Partition`, `FlowConstruct` with `FlowSpec`, `ConnectedComponent`,
`EdgeConstruct`, `TrafficGraph`, `Detector` with labels, `DynamicGraph`, `Capture`, and the
proof modules in the same order.

Every safety property and both refinements are proved; what is left to TLC is in section 4.

Next, to extend the model: the result files of `do_save2` over several runs, and
the distributions of a long edge, as pure functions.
