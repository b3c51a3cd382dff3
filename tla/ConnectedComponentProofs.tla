------------------------- MODULE ConnectedComponentProofs ----------------------
(***************************************************************************)
(* For every graph without self loops, and every order of its adjacency    *)
(* lists, the search returns the weakly connected components.              *)
(*                                                                         *)
(* The argument: a vertex of the part under construction whose call has    *)
(* returned has all its neighbours marked (SearchInv), so when the last    *)
(* call returns the part is closed; and a closed set that meets the part   *)
(* contains it, because each vertex was added as a neighbour (Minimal).    *)
(***************************************************************************)
EXTENDS ConnectedComponent, SequenceTheorems, TLAPS

OnStack == {stack[i] : i \in 1 .. Len(stack)}

(* Every closed set that meets P contains P. *)
Minimal(P) == \A Q : Closed(Q, edges) /\ (\E v \in P : v \in Q) => P \subseteq Q

SearchInv ==
  /\ OnStack \subseteq part
  /\ stack = <<>> => part = {}
  /\ \A v \in part : v \notin OnStack => Neighbours(v) \subseteq mk
  /\ phase = "done" => stack = <<>> /\ Vertices \subseteq mk

PartsInv ==
  /\ Minimal(part)
  /\ \A i \in DOMAIN parts : parts[i] # {} /\ Minimal(parts[i])

IInv == SearchTypeOK /\ PartsClosed /\ SearchInv /\ PartsInv

-------------------------------------------------------------------------------
(* An edge has its ends among the vertices. *)
LEMMA EdgeEnds ==
  ASSUME edges \in EdgeSets
  PROVE  \A e \in edges : e = <<e[1], e[2]>> /\ e[1] \in Vertices /\ e[2] \in Vertices
  BY EdgeAssumption DEF Vertices

(* A set of vertices whose neighbours are all inside it is closed. *)
LEMMA ClosedByNeighbours ==
  ASSUME edges \in EdgeSets, NEW P, P \subseteq Vertices, \A v \in P : Neighbours(v) \subseteq P
  PROVE  Closed(P, edges)
<1> SUFFICES ASSUME NEW e \in edges
             PROVE  e[1] \in P <=> e[2] \in P
  BY DEF Closed
<1>1. e = <<e[1], e[2]>> /\ e[1] \in Vertices /\ e[2] \in Vertices
  BY EdgeEnds
<1>2. e[2] \in Neighbours(e[1]) /\ e[1] \in Neighbours(e[2])
  BY <1>1 DEF Neighbours
<1> QED BY <1>2

(* A neighbour lies in the same closed sets. *)
LEMMA NeighbourInClosed ==
  ASSUME NEW Q, Closed(Q, edges), NEW v, NEW w \in Neighbours(v)
  PROVE  v \in Q <=> w \in Q
<1>1. CASE <<v, w>> \in edges
  BY <1>1 DEF Closed
<1>2. CASE <<w, v>> \in edges
  BY <1>2 DEF Closed
<1> QED BY <1>1, <1>2 DEF Neighbours

-------------------------------------------------------------------------------
(* The invariant holds initially. *)
LEMMA InitInv == Init => IInv
<1> SUFFICES ASSUME Init PROVE IInv
  OBVIOUS
<1>1. SearchTypeOK
  BY DEF Init, SearchTypeOK
<1>2. PartsClosed
  BY DEF Init, PartsClosed
<1>3. SearchInv
  BY DEF Init, SearchInv, OnStack
<1>4. PartsInv
  BY DEF Init, PartsInv, Minimal
<1> QED BY <1>1, <1>2, <1>3, <1>4 DEF IInv

(* Steps that leave the search's data alone. *)
LEMMA SameData ==
  ASSUME IInv, UNCHANGED <<edges, mk, stack, part, parts>>,
         phase' \in {"build", "search", "done", "abort"},
         phase' = "done" => stack = <<>> /\ Vertices \subseteq mk
  PROVE  IInv'
<1>1. SearchTypeOK'
  BY DEF IInv, SearchTypeOK, Vertices
<1>2. PartsClosed'
  BY DEF IInv, PartsClosed
<1>3. SearchInv'
  BY DEF IInv, SearchInv, OnStack, Neighbours, Vertices
<1>4. PartsInv'
  BY DEF IInv, PartsInv, Minimal
<1> QED BY <1>1, <1>2, <1>3, <1>4 DEF IInv

LEMMA NewPartInv == IInv /\ NewPart => IInv'
<1> SUFFICES ASSUME IInv, NewPart PROVE IInv'
  OBVIOUS
<1> USE DEF IInv
<1>1. PICK v \in Vertices \ mk : mk' = mk \cup {v} /\ stack' = <<v>> /\ part' = {v}
  BY DEF NewPart
<1>2. UNCHANGED <<edges, phase, parts>> /\ phase = "search" /\ stack = <<>> /\ part = {}
  BY DEF NewPart, SearchInv
<1>3. Vertices' = Vertices
  BY <1>2 DEF Vertices
<1>4. SearchTypeOK'
  BY <1>1, <1>2, <1>3 DEF SearchTypeOK
<1>5. PartsClosed'
  BY <1>1, <1>2 DEF PartsClosed
<1>6. SearchInv'
  <2>1. OnStack' = {v}
    BY <1>1 DEF OnStack
  <2> QED BY <1>1, <1>2, <2>1 DEF SearchInv
<1>7. PartsInv'
  BY <1>1, <1>2 DEF PartsInv, Minimal
<1> QED BY <1>4, <1>5, <1>6, <1>7

LEMMA TopOnStack ==
  ASSUME SearchTypeOK, stack # <<>>
  PROVE  Len(stack) \in Nat \ {0} /\ Top \in OnStack /\ Top \in Vertices
  BY DEF SearchTypeOK, Top, OnStack

LEMMA DescendInv == IInv /\ Descend => IInv'
<1> SUFFICES ASSUME IInv, Descend PROVE IInv'
  OBVIOUS
<1> USE DEF IInv
<1>1. PICK w \in Neighbours(Top) \ mk :
        mk' = mk \cup {w} /\ stack' = Append(stack, w) /\ part' = part \cup {w}
  BY DEF Descend
<1>2. UNCHANGED <<edges, phase, parts>> /\ phase = "search" /\ stack # <<>>
  BY DEF Descend
<1>3. Vertices' = Vertices /\ (\A v : Neighbours(v)' = Neighbours(v)) /\ w \in Vertices
  BY <1>1, <1>2 DEF Vertices, Neighbours
<1>4. Top \in part
  BY <1>2, TopOnStack DEF SearchInv
<1>5. SearchTypeOK'
  BY <1>1, <1>2, <1>3 DEF SearchTypeOK
<1>6. PartsClosed'
  BY <1>1, <1>2 DEF PartsClosed
<1>7. SearchInv'
  <2>1. OnStack' = OnStack \cup {w}
    BY <1>1 DEF OnStack, SearchTypeOK
  <2>2. stack' # <<>>
    BY <1>1 DEF SearchTypeOK
  <2>3. \A v \in part' : v \notin OnStack' => Neighbours(v)' \subseteq mk'
    BY <1>1, <1>3, <2>1 DEF SearchInv
  <2> QED BY <1>1, <1>2, <2>1, <2>2, <2>3 DEF SearchInv
<1>8. PartsInv'
  <2>1. ASSUME NEW Q, Closed(Q, edges), NEW v \in part', v \in Q
        PROVE  part' \subseteq Q
    <3>1. Top \in Q <=> w \in Q
      BY <1>1, <2>1, NeighbourInClosed
    <3>2. Top \in Q
      BY <1>1, <1>4, <2>1, <3>1 DEF PartsInv, Minimal
    <3> QED BY <1>1, <1>4, <2>1, <3>1, <3>2 DEF PartsInv, Minimal
  <2> QED BY <1>2, <2>1 DEF PartsInv, Minimal
<1> QED BY <1>5, <1>6, <1>7, <1>8

(* What popping the innermost call leaves of the stack. *)
LEMMA PrefixProperties ==
  ASSUME NEW S, NEW s \in Seq(S), NEW n \in 0 .. Len(s)
  PROVE  /\ SubSeq(s, 1, n) \in Seq(S)
         /\ Len(SubSeq(s, 1, n)) = n
         /\ \A i \in 1 .. n : SubSeq(s, 1, n)[i] = s[i]
<1> DEFINE T == SubSeq(s, 1, n)
<1>1. n \in Int /\ n \in Nat /\ \A i \in 1 .. n : s[i] \in S
  OBVIOUS
<1>2. /\ T \in Seq(S)
      /\ Len(T) = IF 1 <= n THEN n - 1 + 1 ELSE 0
      /\ \A i \in 1 .. n - 1 + 1 : T[i] = s[1 + i - 1]
  BY <1>1, SubSeqProperties
<1> HIDE DEF T
<1>3. Len(T) = n
  BY <1>1, <1>2
<1>4. ASSUME NEW i \in 1 .. n PROVE T[i] = s[i]
  <2>1. i \in 1 .. n - 1 + 1 /\ 1 + i - 1 = i
    BY <1>1
  <2> QED BY <1>2, <2>1
<1> QED BY <1>2, <1>3, <1>4 DEF T

LEMMA ReturnInv == IInv /\ Return => IInv'
<1> SUFFICES ASSUME IInv, Return PROVE IInv'
  OBVIOUS
<1> USE DEF IInv
<1>1. /\ phase = "search" /\ stack # <<>> /\ Neighbours(Top) \subseteq mk
      /\ stack' = SubSeq(stack, 1, Len(stack) - 1)
      /\ UNCHANGED <<edges, phase, mk>>
  BY DEF Return
<1>2. Vertices' = Vertices /\ (\A v : Neighbours(v)' = Neighbours(v))
  BY <1>1 DEF Vertices, Neighbours
<1>3. Len(stack) \in Nat \ {0} /\ Top \in part
  BY <1>1, TopOnStack DEF SearchInv
<1>4. \A v \in part : v \notin OnStack' => Neighbours(v) \subseteq mk
  <2> SUFFICES ASSUME NEW v \in part, v \notin OnStack' PROVE Neighbours(v) \subseteq mk
    OBVIOUS
  <2>1. CASE v = Top
    BY <1>1, <2>1
  <2>2. CASE v # Top
    <3>1. \A i \in 1 .. Len(stack) - 1 : stack[i] \in OnStack'
      BY <1>1, <1>3 DEF OnStack, SearchTypeOK
    <3>2. v \notin OnStack
      BY <1>3, <2>2, <3>1 DEF OnStack, Top
    <3> QED BY <3>2 DEF SearchInv
  <2> QED BY <2>1, <2>2
<1>5. stack' \in Seq(Vertices) /\ Len(stack') = Len(stack) - 1 /\ OnStack' \subseteq OnStack
  <2>1. stack \in Seq(Vertices)
    BY DEF SearchTypeOK
  <2>2. \A i \in 1 .. Len(stack) - 1 : stack[i] \in Vertices
    BY <1>3, <2>1
  <2>3. /\ stack' \in Seq(Vertices) /\ Len(stack') = Len(stack) - 1
        /\ \A i \in 1 .. Len(stack) - 1 : stack'[i] = stack[i]
    <3>1. Len(stack) - 1 \in 0 .. Len(stack) /\ stack' = SubSeq(stack, 1, Len(stack) - 1)
      BY <1>1, <1>3
    <3> QED BY <2>1, <3>1, PrefixProperties
  <2>4. OnStack' \subseteq OnStack
    BY <1>3, <2>3 DEF OnStack
  <2> QED BY <2>3, <2>4
<1>6. CASE Len(stack) = 1
  <2>1. part' = {} /\ parts' = Append(parts, part) /\ stack' = <<>>
    BY <1>1, <1>5, <1>6 DEF Return
  <2>2. OnStack' = {}
    BY <2>1 DEF OnStack
  <2>3. Closed(part, edges)
    <3>1. \A v \in part : Neighbours(v) \subseteq part
      <4> SUFFICES ASSUME NEW v \in part, NEW w \in Neighbours(v) PROVE w \in part
        OBVIOUS
      <4>1. w \in mk
        BY <1>4, <2>2
      <4>2. \A i \in DOMAIN parts : w \notin parts[i]
        BY NeighbourInClosed DEF PartsClosed
      <4> QED BY <4>1, <4>2 DEF PartsClosed
    <3> QED BY <3>1, ClosedByNeighbours DEF SearchTypeOK
  <2>4. /\ Len(parts) \in Nat /\ DOMAIN parts = 1 .. Len(parts)
        /\ DOMAIN parts' = 1 .. Len(parts) + 1
        /\ \A i \in DOMAIN parts : parts'[i] = parts[i]
        /\ parts'[Len(parts) + 1] = part
    BY <2>1 DEF SearchTypeOK
  <2>5. SearchTypeOK'
    BY <1>1, <1>2, <2>1 DEF SearchTypeOK
  <2>6. PartsClosed'
    <3>1. \A i \in DOMAIN parts' : Closed(parts'[i], edges)
      BY <2>3, <2>4 DEF PartsClosed
    <3>2. \A i, j \in DOMAIN parts' : i # j => parts'[i] \cap parts'[j] = {}
      <4> SUFFICES ASSUME NEW i \in DOMAIN parts', NEW j \in DOMAIN parts', i # j
                   PROVE  parts'[i] \cap parts'[j] = {}
        OBVIOUS
      <4>1. i \in DOMAIN parts \/ i = Len(parts) + 1
        BY <2>4
      <4>2. j \in DOMAIN parts \/ j = Len(parts) + 1
        BY <2>4
      <4> QED BY <2>4, <4>1, <4>2 DEF PartsClosed
    <3>3. (UNION {parts'[i] : i \in DOMAIN parts'}) = part \cup (UNION {parts[i] : i \in DOMAIN parts})
      BY <2>4
    <3> QED BY <1>1, <2>1, <3>1, <3>2, <3>3 DEF PartsClosed
  <2>7. SearchInv'
    BY <1>1, <2>1, <2>2 DEF SearchInv
  <2>8. PartsInv'
    BY <1>1, <1>3, <2>1, <2>4 DEF PartsInv, Minimal
  <2> QED BY <2>5, <2>6, <2>7, <2>8
<1>7. CASE Len(stack) # 1
  <2>1. part' = part /\ parts' = parts /\ stack' # <<>>
    <3>1. Len(stack') # 0
      BY <1>3, <1>5, <1>7
    <3>2. part' = part /\ parts' = parts
      BY <1>7 DEF Return
    <3> QED BY <3>1, <3>2
  <2>2. SearchTypeOK'
    BY <1>1, <1>2, <1>5, <2>1 DEF SearchTypeOK
  <2>3. PartsClosed'
    BY <1>1, <2>1 DEF PartsClosed
  <2>4. SearchInv'
    BY <1>1, <1>2, <1>4, <1>5, <2>1 DEF SearchInv
  <2>5. PartsInv'
    BY <1>1, <2>1 DEF PartsInv, Minimal
  <2> QED BY <2>2, <2>3, <2>4, <2>5
<1> QED BY <1>6, <1>7

(* Every step preserves the invariant. *)
LEMMA NextInv == IInv /\ [Next]_vars => IInv'
<1> SUFFICES ASSUME IInv, [Next]_vars PROVE IInv'
  OBVIOUS
<1>1. CASE Build
  BY <1>1, SameData DEF Build
<1>2. CASE NewPart
  BY <1>2, NewPartInv
<1>3. CASE Descend
  BY <1>3, DescendInv
<1>4. CASE Return
  BY <1>4, ReturnInv
<1>5. CASE Finish
  BY <1>5, SameData DEF Finish
<1>6. CASE Stopped \/ UNCHANGED vars
  BY <1>6, SameData DEF Stopped, vars, IInv, SearchTypeOK, SearchInv
<1> QED BY <1>1, <1>2, <1>3, <1>4, <1>5, <1>6 DEF Next

LEMMA Invariance == Spec => []IInv
<1>1. Init => IInv
  BY InitInv
<1>2. IInv /\ [Next]_vars => IInv'
  BY NextInv
<1> QED BY <1>1, <1>2, PTL DEF Spec

-------------------------------------------------------------------------------
(* Type correctness of the search, for any set of graphs. *)
THEOREM SearchTypeCorrect == Spec => []SearchTypeOK
<1>1. IInv => SearchTypeOK
  BY DEF IInv
<1> QED BY <1>1, Invariance, PTL

(* At every step the complete parts are closed under the edges, disjoint     *)
(* from one another and from the part under construction, and with it hold   *)
(* all marked addresses (graph_component.cpp:59-78).                         *)
THEOREM SearchPartsClosed == Spec => []PartsClosed
<1>1. IInv => PartsClosed
  BY DEF IInv
<1> QED BY <1>1, Invariance, PTL

(* When the search is done its parts are the weakly connected components,    *)
(* each of them once, for every graph (graph_component.cpp:56-78).           *)
THEOREM SearchCorrect == Spec => []PartsAreComponents
<1>1. IInv => PartsAreComponents
  <2> SUFFICES ASSUME IInv, phase = "done"
               PROVE  /\ {parts[i] : i \in DOMAIN parts} = WeakComponents(Vertices, edges)
                      /\ \A i, j \in DOMAIN parts : i # j => parts[i] # parts[j]
    BY DEF PartsAreComponents
  <2> USE DEF IInv
  <2>1. part = {} /\ Vertices \subseteq UNION {parts[i] : i \in DOMAIN parts}
    BY DEF SearchInv, PartsClosed
  <2>2. ASSUME NEW i \in DOMAIN parts
        PROVE  parts[i] \in WeakComponents(Vertices, edges)
    <3>1. parts[i] \in SUBSET Vertices /\ parts[i] # {} /\ Closed(parts[i], edges)
      BY DEF SearchTypeOK, PartsClosed, PartsInv
    <3>2. \A Q \in SUBSET parts[i] : Q # {} /\ Closed(Q, edges) => Q = parts[i]
      BY DEF PartsInv, Minimal
    <3> QED BY <3>1, <3>2 DEF WeakComponents
  <2>3. ASSUME NEW P \in WeakComponents(Vertices, edges)
        PROVE  \E i \in DOMAIN parts : P = parts[i]
    <3>1. /\ P \subseteq Vertices /\ P # {} /\ Closed(P, edges)
          /\ \A Q \in SUBSET P : Q # {} /\ Closed(Q, edges) => Q = P
      BY <2>3 DEF WeakComponents
    <3>2. PICK v \in P : v \in Vertices
      BY <3>1
    <3>3. PICK i \in DOMAIN parts : v \in parts[i]
      BY <2>1, <3>2
    <3>4. Closed(P \cap parts[i], edges)
      BY <3>1 DEF Closed, PartsClosed
    <3>5. P \cap parts[i] = P
      BY <3>1, <3>2, <3>3, <3>4
    <3>6. parts[i] \subseteq P
      BY <3>1, <3>2, <3>3 DEF PartsInv, Minimal
    <3> QED BY <3>5, <3>6
  <2>4. ASSUME NEW i \in DOMAIN parts, NEW j \in DOMAIN parts, i # j
        PROVE  parts[i] # parts[j]
    BY <2>4 DEF PartsInv, PartsClosed
  <2> QED BY <2>2, <2>3, <2>4
<1> QED BY <1>1, Invariance, PTL

(* The recursion is a simple path of the component under search, so it is    *)
(* never deeper than that has addresses (graph_component.cpp:64-73).         *)
THEOREM SearchStackIsPath == Spec => []StackIsPath
<1> DEFINE PInv == IInv /\ StackIsPath
<1>1. Init => PInv
  BY InitInv DEF Init, StackIsPath
<1>2. PInv /\ [Next]_vars => PInv'
  <2> SUFFICES ASSUME IInv, StackIsPath, [Next]_vars PROVE StackIsPath'
    BY NextInv
  <2>0. stack \in Seq(Vertices) /\ Len(stack) \in Nat /\ DOMAIN stack = 1 .. Len(stack)
    BY DEF IInv, SearchTypeOK
  <2>1. CASE UNCHANGED <<edges, stack, part>>
    BY <2>1 DEF StackIsPath, Neighbours, Vertices
  <2>2. CASE NewPart
    BY <2>2 DEF NewPart, StackIsPath
  <2>3. CASE Descend
    <3>1. PICK w \in Neighbours(Top) \ mk :
            stack' = Append(stack, w) /\ part' = part \cup {w} /\ edges' = edges
      BY <2>3 DEF Descend
    <3>2. \A v : Neighbours(v)' = Neighbours(v)
      BY <3>1 DEF Neighbours, Vertices
    <3>3. \A i \in DOMAIN stack : stack[i] # w
      BY DEF StackIsPath, IInv, PartsClosed
    <3>4. /\ DOMAIN stack' = 1 .. Len(stack) + 1 /\ Len(stack') = Len(stack) + 1
          /\ stack'[Len(stack) + 1] = w
          /\ \A i \in 1 .. Len(stack) : stack'[i] = stack[i]
      BY <2>0, <3>1 DEF Neighbours
    <3>5. \A i, j \in DOMAIN stack' : i # j => stack'[i] # stack'[j]
      BY <2>0, <3>3, <3>4 DEF StackIsPath
    <3>6. \A i \in DOMAIN stack' : stack'[i] \in part'
      BY <2>0, <3>1, <3>4 DEF StackIsPath
    <3>7. ASSUME NEW i \in 2 .. Len(stack') PROVE stack'[i] \in Neighbours(stack'[i - 1])
      <4>1. CASE i = Len(stack) + 1
        <5>1. i - 1 = Len(stack) /\ Len(stack) \in 1 .. Len(stack)
          BY <2>0, <3>4, <4>1
        <5>2. stack'[i - 1] = Top /\ stack'[i] = w
          BY <3>4, <4>1, <5>1 DEF Top
        <5> QED BY <5>2
      <4>2. CASE i # Len(stack) + 1
        <5>1. i \in 2 .. Len(stack) /\ i \in 1 .. Len(stack) /\ i - 1 \in 1 .. Len(stack)
          BY <2>0, <3>4, <4>2
        <5> QED BY <3>4, <5>1 DEF StackIsPath
      <4> QED BY <4>1, <4>2
    <3> QED BY <3>2, <3>5, <3>6, <3>7 DEF StackIsPath
  <2>4. CASE Return
    <3>1. stack # <<>> /\ stack' = SubSeq(stack, 1, Len(stack) - 1) /\ edges' = edges
      BY <2>4 DEF Return
    <3>2. Len(stack) # 0 /\ Len(stack) - 1 \in 0 .. Len(stack)
      BY <2>0, <3>1
    <3>3. /\ Len(stack') = Len(stack) - 1 /\ DOMAIN stack' = 1 .. Len(stack) - 1
          /\ \A i \in 1 .. Len(stack) - 1 : stack'[i] = stack[i]
      BY <2>0, <3>1, <3>2, PrefixProperties
    <3>4. \A v : Neighbours(v)' = Neighbours(v)
      BY <3>1 DEF Neighbours, Vertices
    <3>5. Len(stack) # 1 => part' = part
      BY <2>4 DEF Return
    <3>6. \A i \in 2 .. Len(stack) - 1 : i \in 2 .. Len(stack) /\ i \in 1 .. Len(stack) - 1 /\ i - 1 \in 1 .. Len(stack) - 1
      BY <2>0
    <3>7. \A i \in DOMAIN stack' : i \in DOMAIN stack /\ stack'[i] = stack[i] /\ Len(stack) # 1
      BY <2>0, <3>3
    <3>8. \A i, j \in DOMAIN stack' : i # j => stack'[i] # stack'[j]
      BY <3>7 DEF StackIsPath
    <3>9. \A i \in DOMAIN stack' : stack'[i] \in part'
      BY <3>5, <3>7 DEF StackIsPath
    <3>10. \A i \in 2 .. Len(stack') : stack'[i] \in Neighbours(stack'[i - 1])
      BY <3>3, <3>6 DEF StackIsPath
    <3> QED BY <3>4, <3>8, <3>9, <3>10 DEF StackIsPath
  <2> QED BY <2>1, <2>2, <2>3, <2>4 DEF Next, Build, Finish, Stopped, vars
<1>3. PInv => StackIsPath
  OBVIOUS
<1> QED BY <1>1, <1>2, <1>3, PTL DEF Spec
================================================================================
