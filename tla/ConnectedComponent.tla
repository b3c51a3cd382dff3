--------------------------- MODULE ConnectedComponent --------------------------
(***************************************************************************)
(* traffic_graph::connected_component: a depth-first search from every     *)
(* unmarked address, in address order, over the long edges and the         *)
(* unaggregated short edges taken in both directions.                      *)
(*                                                                         *)
(* An address is a number, in the order of the strings.  The recursion of  *)
(* _f_dfs is the stack of its open calls.  Adjacency lists come from hash  *)
(* tables and may be in any order, so the next neighbour is any unmarked   *)
(* one: those skipped earlier in the list stay marked.                     *)
(***************************************************************************)
EXTENDS Components, FiniteSets, Sequences

CONSTANTS
  Addrs,
  EdgeSets     \* the graphs considered, as sets of pairs <<source, destination>>

ASSUME AddrAssumption == Addrs \subseteq Int
ASSUME EdgeAssumption == \A E \in EdgeSets : E \subseteq Addrs \X Addrs

VARIABLES
  edges,    \* _edge_raw
  phase,    \* "build", "search", "done" or "abort"
  mk,       \* the vertices with _mk
  stack,    \* open calls of _f_dfs, the innermost last
  part,     \* _part
  parts

vars == <<edges, phase, mk, stack, part, parts>>

(* vertex_set_long and vertex_set_short_reduce hold the ends of the edges. *)
Vertices == {e[1] : e \in edges} \cup {e[2] : e \in edges}

Init ==
  /\ edges \in EdgeSets
  /\ phase = "build"
  /\ mk = {} /\ stack = <<>> /\ part = {} /\ parts = <<>>

(* assert(ref.first != ref.second) on every edge. *)
Build ==
  /\ phase = "build"
  /\ phase' = IF \A e \in edges : e[1] # e[2] THEN "search" ELSE "abort"
  /\ UNCHANGED <<edges, mk, stack, part, parts>>

NeighboursOut(v) == {w \in Vertices : <<v, w>> \in edges}
NeighboursShifted(v) == {w + 1 : w \in NeighboursOut(v)}

(* _graph[v] *)
Neighbours(v) == {w \in Vertices : <<v, w>> \in edges \/ <<w, v>> \in edges}

Top == stack[Len(stack)]

NewPart ==
  /\ phase = "search" /\ stack = <<>>
  /\ \E v \in Vertices \ mk :
       /\ \A w \in Vertices \ mk : v <= w
       /\ mk' = mk \cup {v}
       /\ stack' = <<v>>
       /\ part' = {v}
  /\ UNCHANGED <<edges, phase, parts>>

DescendNotMarking ==
  /\ phase = "search" /\ stack # <<>>
  /\ \E w \in Neighbours(Top) \ mk :
       /\ stack' = Append(stack, w)
       /\ part' = part \cup {w}
  /\ UNCHANGED <<edges, phase, mk, parts>>

Descend ==
  /\ phase = "search" /\ stack # <<>>
  /\ \E w \in Neighbours(Top) \ mk :
       /\ mk' = mk \cup {w}
       /\ stack' = Append(stack, w)
       /\ part' = part \cup {w}
  /\ UNCHANGED <<edges, phase, parts>>

ReturnAlways ==
  /\ phase = "search" /\ stack # <<>>
  /\ stack' = SubSeq(stack, 1, Len(stack) - 1)
  /\ part' = IF Len(stack) = 1 THEN {} ELSE part
  /\ parts' = IF Len(stack) = 1 THEN Append(parts, part) ELSE parts
  /\ UNCHANGED <<edges, phase, mk>>

(* A call returns; when it is the outermost, its part is complete. *)
Return ==
  /\ phase = "search" /\ stack # <<>>
  /\ Neighbours(Top) \subseteq mk
  /\ stack' = SubSeq(stack, 1, Len(stack) - 1)
  /\ part' = IF Len(stack) = 1 THEN {} ELSE part
  /\ parts' = IF Len(stack) = 1 THEN Append(parts, part) ELSE parts
  /\ UNCHANGED <<edges, phase, mk>>

FinishOnPart ==
  /\ phase = "search" /\ stack = <<>> /\ part = Vertices
  /\ phase' = "done"
  /\ UNCHANGED <<edges, mk, stack, part, parts>>

Finish ==
  /\ phase = "search" /\ stack = <<>> /\ Vertices \subseteq mk
  /\ phase' = "done"
  /\ UNCHANGED <<edges, mk, stack, part, parts>>

Stopped == phase \in {"done", "abort"} /\ UNCHANGED vars

Next == Build \/ NewPart \/ Descend \/ Return \/ Finish \/ Stopped

Spec == Init /\ [][Next]_vars
FairSpec == Spec /\ WF_vars(Next)

-------------------------------------------------------------------------------
(* Properties *)

SearchTypeOK ==
  /\ edges \in EdgeSets
  /\ phase \in {"build", "search", "done", "abort"}
  /\ mk \subseteq Vertices
  /\ stack \in Seq(Vertices)
  /\ part \subseteq Vertices
  /\ parts \in Seq(SUBSET Vertices)

(* The search returns the weakly connected components, each of them once,    *)
(* whatever the order of the adjacency lists (lines 56-78).                  *)
PartsAreComponents ==
  phase = "done" =>
    /\ {parts[i] : i \in DOMAIN parts} = WeakComponents(Vertices, edges)
    /\ \A i, j \in DOMAIN parts : i # j => parts[i] # parts[j]

(* At every step the complete parts are closed under the edges and share no  *)
(* address, with one another or with the part under construction: what makes *)
(* one pass over the marked addresses enough (lines 59-78).                  *)
PartsClosed ==
  /\ \A i \in DOMAIN parts : Closed(parts[i], edges) /\ parts[i] \cap part = {}
  /\ \A i, j \in DOMAIN parts : i # j => parts[i] \cap parts[j] = {}
  /\ mk = part \cup UNION {parts[i] : i \in DOMAIN parts}

(* The open calls are of distinct addresses, all of the part under           *)
(* construction and each a neighbour of its caller: the recursion, which the *)
(* code does not bound, is never deeper than the component has addresses,    *)
(* and is a simple path in it (lines 64-73).                                 *)
StackIsPath ==
  /\ \A i, j \in DOMAIN stack : i # j => stack[i] # stack[j]
  /\ \A i \in DOMAIN stack : stack[i] \in part
  /\ \A i \in 2 .. Len(stack) : stack[i] \in Neighbours(stack[i - 1])

(* The search ends, every call closed and every vertex visited, on every     *)
(* graph, cycles included; only where an edge joins an address to itself, in *)
(* the failure of assert(ref.first != ref.second) (lines 49, 56-78).         *)
SearchEnds == <>[](phase = IF \E v \in Addrs : <<v, v>> \in edges THEN "abort" ELSE "done")
================================================================================
