--------------------------- MODULE DynamicGraphProofs --------------------------
(***************************************************************************)
(* The queue of real-time updates loses no packet and serves batches in    *)
(* the reverse order of arrival; the edges it appends stay indexed and     *)
(* tracked; and an update that keeps within the vectors of scores gives no *)
(* short edge a score: for every batch size, packets, edges, clusterings   *)
(* and losses.                                                             *)
(***************************************************************************)
EXTENDS DynamicGraph, TrafficGraphProofs, CommonProofs, SequenceTheorems

-------------------------------------------------------------------------------
(* Batches *)

(* Packets that arrived since the last batch, and when they began to. *)
Rest == clock % min_packets_for_update
Base == clock - Rest

LEMMA RestFacts ==
  ASSUME clock \in Nat
  PROVE  /\ Rest \in 0 .. min_packets_for_update - 1 /\ Base \in Nat
         /\ (clock + 1) % min_packets_for_update
              = IF Rest + 1 = min_packets_for_update THEN 0 ELSE Rest + 1
<1> DEFINE B == min_packets_for_update
           q == clock \div B
           p == (clock + 1) \div B
           s == (clock + 1) % B
<1>1. B \in Nat \ {0}
  BY BatchSizeAssumption
<1>2. /\ q \in Int /\ Rest \in 0 .. B - 1 /\ clock = B * q + Rest
      /\ p \in Int /\ s \in 0 .. B - 1 /\ clock + 1 = B * p + s
  BY <1>1 DEF Rest
<1>3. q \in Nat /\ p \in Nat
  <2>1. B * q <= clock /\ clock < B * q + B /\ B * p <= clock + 1 /\ clock + 1 < B * p + B
    BY <1>1, <1>2
  <2>2. q >= 0
    BY <1>1, <1>2, <2>1
  <2>3. p >= 0
    BY <1>1, <1>2, <2>1
  <2> QED BY <1>2, <2>2, <2>3
<1>4. /\ q < p => B * q + B <= B * p
      /\ p < q => B * p + B <= B * q
  <2> HIDE DEF B, p, q
  <2>1. q < p => q * B + B <= p * B
    BY <1>1, <1>3, PartsMonotone
  <2>2. p < q => p * B + B <= q * B
    BY <1>1, <1>3, PartsMonotone
  <2>3. q * B = B * q /\ p * B = B * p
    BY <1>1, <1>3
  <2> QED BY <2>1, <2>2, <2>3
<1>5. B * q \in Nat /\ B * p \in Nat
  BY <1>1, <1>3
<1> DEFINE x == B * q
           y == B * p
<1>6. /\ x \in Nat /\ y \in Nat /\ clock = x + Rest /\ clock + 1 = y + s
      /\ q < p => x + B <= y
      /\ p < q => y + B <= x
      /\ p = q => x = y
  BY <1>2, <1>4, <1>5
<1> HIDE DEF x, y, p, q
<1>7. Base \in Nat
  BY <1>1, <1>2, <1>6 DEF Base
<1>8. s = IF Rest + 1 = B THEN 0 ELSE Rest + 1
  <2> HIDE DEF s, B
  <2>1. CASE p = q
    BY <1>1, <1>2, <1>6, <2>1
  <2>2. CASE q < p
    BY <1>1, <1>2, <1>6, <2>2
  <2>3. CASE p < q
    BY <1>1, <1>2, <1>6, <2>3
  <2> QED BY <1>3, <2>1, <2>2, <2>3
<1> QED BY <1>2, <1>7, <1>8

(* The queue holds the packets that arrived since the last batch, and the    *)
(* last batch those before.                                                  *)
QueueInv ==
  /\ clock \in 0 .. MaxPackets /\ served \in BOOLEAN /\ waited \in BOOLEAN
  /\ IsFiniteSet(queue) /\ Cardinality(queue) = Rest
  /\ queue \subseteq [arrival : Nat, priority : Nat]
  /\ {x.arrival : x \in queue} = Base + 1 .. clock
  /\ \A x, y \in queue : x.arrival = y.arrival => x = y
  /\ phase # "abort" /\ ~served => Base = 0
  /\ served => ~Overshoots(min_packets_for_update, FlowThreads)
  /\ served => Base >= min_packets_for_update
  /\ lastBatch \in Seq(1 .. MaxPackets)
  /\ served => {lastBatch[i] : i \in DOMAIN lastBatch} = Base - min_packets_for_update + 1 .. Base

(* The packet that arrives. *)
Arriving(kinds) == [arrival |-> clock + 1, priority |-> Priority(kinds, clock + 1)]

LEMMA BonusFacts ==
  ASSUME NEW kinds \in PacketKinds
  PROVE  Bonus(kinds) \in 0 .. 6 * min_packets_for_update /\ UtilizationBonus \in Nat
BY BatchSizeAssumption DEF Bonus, UtilizationBonus

(* What a priority is, with the waiting factor and without it. *)
LEMMA PriorityFacts ==
  ASSUME QueueInv, NEW kinds \in PacketKinds
  PROVE  LET least == 20 * min_packets_for_update + UtilizationBonus
         IN  /\ Priority(kinds, clock + 1) \in Nat
             /\ ~waited => Priority(kinds, clock + 1) = least + Bonus(kinds)
             /\ waited => Priority(kinds, clock + 1)
                            = least + Bonus(kinds) + 10 * min_packets_for_update * (clock + 1) - 10 * Rest
<1> DEFINE B == min_packets_for_update
           w == 10 * B * (clock + 1)
<1>1. B \in Nat /\ B >= 3 /\ clock \in Nat
  BY BatchSizeAssumption, MaxPacketsAssumption DEF QueueInv
<1>2. Rest \in 0 .. B - 1
  BY <1>1, RestFacts
<1>3. w \in Nat /\ w >= 10 * B
  <2> DEFINE t == B * clock
  <2>1. t \in Nat /\ w = 10 * t + 10 * B
    BY <1>1
  <2> HIDE DEF t, w
  <2> QED BY <1>1, <2>1
<1>4. Bonus(kinds) \in Nat /\ UtilizationBonus \in Nat
  BY <1>1, BonusFacts
<1>5. Priority(kinds, clock + 1)
        = 20 * B + (IF waited THEN w - 10 * Rest ELSE 0) + Bonus(kinds) + UtilizationBonus
  BY DEF Priority, WaitingShare, QueueInv
<1> DEFINE pr == Priority(kinds, clock + 1)
           bonus == Bonus(kinds)
           least == 20 * B + UtilizationBonus
<1>6. bonus \in Nat /\ least \in Nat
  BY <1>1, <1>4
<1>7. pr = least + bonus + (IF waited THEN w - 10 * Rest ELSE 0)
  BY <1>1, <1>2, <1>3, <1>4, <1>5
<1>8. 10 * Rest \in Nat /\ 10 * Rest <= w
  BY <1>1, <1>2, <1>3
<1> HIDE DEF w, pr, bonus, least
<1>9. /\ pr \in Nat
      /\ ~waited => pr = least + bonus
      /\ waited => pr = least + bonus + w - 10 * Rest
  <2>1. CASE waited
    BY <1>3, <1>6, <1>7, <1>8, <2>1
  <2>2. CASE ~waited
    BY <1>6, <1>7, <2>2
  <2> QED BY <2>1, <2>2
<1> QED BY <1>9 DEF w, pr, bonus, least

(* A packet joins the queue. *)
LEMMA JoinFacts ==
  ASSUME QueueInv, NEW kinds \in PacketKinds, clock < MaxPackets
  PROVE  LET items == queue \cup {Arriving(kinds)}
         IN  /\ IsFiniteSet(items) /\ Cardinality(items) = Rest + 1
             /\ items \subseteq [arrival : Nat, priority : Nat]
             /\ {x.arrival : x \in items} = Base + 1 .. clock + 1
             /\ \A x, y \in items : x.arrival = y.arrival => x = y
             /\ BatchComplete(items) <=> Rest + 1 = min_packets_for_update
<1> DEFINE n == Arriving(kinds)
           items == queue \cup {n}
<1>1. clock \in Nat /\ Rest \in 0 .. min_packets_for_update - 1 /\ Base \in Nat /\ Base <= clock
      /\ min_packets_for_update \in Nat
  BY BatchSizeAssumption, MaxPacketsAssumption, RestFacts DEF QueueInv, Base
<1>2. n \in [arrival : Nat, priority : Nat] /\ n.arrival = clock + 1
  BY <1>1, PriorityFacts DEF Arriving
<1>3. \A x \in queue : x.arrival \in Nat /\ x.arrival <= clock
  BY DEF QueueInv
<1>4. n \notin queue
  BY <1>1, <1>2, <1>3
<1> HIDE DEF n
<1>5. IsFiniteSet(items) /\ Cardinality(items) = Rest + 1
  BY <1>4, FS_AddElement DEF QueueInv
<1>6. {x.arrival : x \in items} = Base + 1 .. clock + 1
  <2>1. {x.arrival : x \in items} = {x.arrival : x \in queue} \cup {clock + 1}
    BY <1>2
  <2>2. {x.arrival : x \in queue} = Base + 1 .. clock
    BY DEF QueueInv
  <2> QED BY <1>1, <2>1, <2>2
<1>7. \A x, y \in items : x.arrival = y.arrival => x = y
  BY <1>1, <1>2, <1>3 DEF QueueInv
<1>8. items \subseteq [arrival : Nat, priority : Nat]
  BY <1>2 DEF QueueInv
<1>9. BatchComplete(items) <=> Rest + 1 = min_packets_for_update
  BY <1>1, <1>5 DEF BatchComplete
<1> QED BY <1>5, <1>6, <1>7, <1>8, <1>9 DEF n

(* The orders a full queue may be emptied in hold each of its packets once.  *)
LEMMA OrderFacts ==
  ASSUME NEW items, NEW order \in PopOrders(items), IsFiniteSet(items)
  PROVE  /\ DOMAIN order = 1 .. Cardinality(items) /\ Cardinality(items) \in Nat
         /\ {order[i] : i \in DOMAIN order} = items
         /\ \A i, j \in DOMAIN order : i < j => order[i] # order[j] /\ order[i].priority >= order[j].priority
<1>1. order \in Bijection(1 .. Cardinality(items), items)
  BY DEF PopOrders, Orders
<1>2. Cardinality(items) \in Nat
  BY FS_CardinalityType
<1>3. /\ order \in [1 .. Cardinality(items) -> items]
      /\ \A i, j \in 1 .. Cardinality(items) : order[i] = order[j] => i = j
      /\ \A x \in items : \E i \in 1 .. Cardinality(items) : order[i] = x
  BY <1>1 DEF Bijection, Injection, Surjection, IsInjective
<1> QED BY <1>2, <1>3 DEF PopOrders

(* From the second batch on, what has waited least is first: a priority      *)
(* grows with the time of arrival by more than its other parts can make up.  *)
WaitBound(time) ==
  (10 * min_packets_for_update - 10) * time
    + 28 * min_packets_for_update - 2 + 10 * (Base + 1)

OrderInv ==
  served =>
    /\ queue # {} => waited
    /\ \A x \in queue : x.priority <= WaitBound(x.arrival)
    /\ \A x, y \in queue : x.arrival < y.arrival => x.priority < y.priority
    /\ Base # min_packets_for_update =>
         \A i, j \in DOMAIN lastBatch : i < j => lastBatch[i] > lastBatch[j]

(* The packet that arrives has the greatest priority of all.                 *)
LEMMA ArrivingOrder ==
  ASSUME QueueInv, OrderInv, served, phase # "abort", NEW kinds \in PacketKinds, clock < MaxPackets
  PROVE  LET items == queue \cup {Arriving(kinds)}
         IN  /\ \A x \in items : x.priority <= WaitBound(x.arrival)
             /\ \A x, y \in items : x.arrival < y.arrival => x.priority < y.priority
<1> DEFINE B == min_packets_for_update
           t == clock + 1
           g(k) == (10 * B - 10) * k
           n == Arriving(kinds)
<1>1. B \in Nat /\ B >= 3 /\ clock \in Nat /\ t \in Nat
  BY BatchSizeAssumption, MaxPacketsAssumption DEF QueueInv
<1>2. Rest \in 0 .. B - 1 /\ Base \in Nat /\ Rest = clock - Base
  BY <1>1, RestFacts DEF Base
<1>3. Bonus(kinds) \in Nat /\ Bonus(kinds) <= 6 * B /\ UtilizationBonus = 2 * B - 2
  BY <1>1, BonusFacts DEF UtilizationBonus
<1>4. n.arrival = t /\ n.priority = Priority(kinds, t) /\ n.priority \in Nat
  BY PriorityFacts DEF Arriving
<1>5. g(t) \in Nat /\ 10 * B * t = g(t) + 10 * t
  BY <1>1
<1>6. n.priority <= WaitBound(t)
  <2>1. WaitBound(t) = g(t) + 28 * B - 2 + 10 * (Base + 1)
    BY DEF WaitBound
  <2> HIDE DEF g, n
  <2>2. CASE waited
    <3>1. n.priority = 20 * B + UtilizationBonus + Bonus(kinds) + 10 * B * t - 10 * Rest
      BY <1>4, <2>2, PriorityFacts
    <3>2. n.priority = 22 * B - 2 + Bonus(kinds) + g(t) + 10 * t - 10 * Rest
      <4> DEFINE w == 10 * B * t
                 v == g(t)
      <4>1. w = v + 10 * t /\ v \in Nat
        BY <1>5
      <4>2. n.priority = 20 * B + UtilizationBonus + Bonus(kinds) + w - 10 * Rest
        BY <3>1
      <4> HIDE DEF w, v
      <4>3. n.priority = 22 * B - 2 + Bonus(kinds) + v + 10 * t - 10 * Rest
        BY <1>1, <1>2, <1>3, <4>1, <4>2
      <4> QED BY <4>3 DEF v
    <3> DEFINE v == g(t)
    <3>3. v \in Nat /\ n.priority = 22 * B - 2 + Bonus(kinds) + v + 10 * t - 10 * Rest
          /\ WaitBound(t) = v + 28 * B - 2 + 10 * (Base + 1)
      BY <1>5, <2>1, <3>2
    <3> HIDE DEF v
    <3> QED BY <1>1, <1>2, <1>3, <1>4, <3>3
  <2>3. CASE ~waited
    <3>1. n.priority = 20 * B + UtilizationBonus + Bonus(kinds)
      BY <1>4, <2>3, PriorityFacts
    <3> DEFINE v == g(t)
    <3>2. v \in Nat /\ WaitBound(t) = v + 28 * B - 2 + 10 * (Base + 1)
      BY <1>5, <2>1
    <3> HIDE DEF v
    <3> QED BY <1>1, <1>2, <1>3, <1>4, <3>1, <3>2
  <2> QED BY <2>2, <2>3 DEF QueueInv
<1>7. ASSUME NEW x \in queue PROVE x.arrival < t /\ x.priority < n.priority
  <2>1. x.arrival \in Nat /\ x.priority \in Nat /\ x.arrival <= clock
    BY DEF QueueInv
  <2>2. waited /\ x.priority <= WaitBound(x.arrival)
    BY DEF OrderInv
  <2> DEFINE a == x.arrival
             v == g(t)
             u == g(a)
             w == 10 * B * t
  <2>3. u + 10 * B - 10 <= v
    <3> DEFINE k == 10 * B - 10
    <3>1. a * k + k <= t * k
      <4>1. k \in Nat /\ a \in Nat /\ a < t
        BY <1>1, <2>1
      <4> HIDE DEF k, a, t
      <4> QED BY <1>1, <4>1, PartsMonotone
    <3>2. u = a * k /\ v = t * k
      BY <1>1, <2>1
    <3>3. a * k \in Nat /\ t * k \in Nat /\ k \in Nat /\ k = 10 * B - 10
      BY <1>1, <2>1
    <3> HIDE DEF k, u, v, a, t
    <3> DEFINE ak == a * k
               tk == t * k
    <3>4. ak \in Nat /\ tk \in Nat /\ ak + k <= tk /\ u = ak /\ v = tk
      BY <3>1, <3>2, <3>3
    <3> HIDE DEF ak, tk
    <3> QED BY <1>1, <3>3, <3>4
  <2>4. u \in Nat /\ v \in Nat /\ w = v + 10 * t
    BY <1>1, <1>5, <2>1
  <2>5. WaitBound(a) = u + 28 * B - 2 + 10 * (Base + 1)
    BY DEF WaitBound
  <2>6. n.priority = 20 * B + UtilizationBonus + Bonus(kinds) + w - 10 * Rest
    BY <1>4, <2>2, PriorityFacts
  <2>7. x.priority <= WaitBound(a) /\ t = clock + 1
    BY <2>2
  <2> HIDE DEF a, u, v, w, n, g, t
  <2>8. n.priority = 22 * B - 2 + Bonus(kinds) + v + 10 * t - 10 * Rest
    BY <1>1, <1>2, <1>3, <2>4, <2>6
  <2>9. n.priority >= v + 22 * B - 2 + 10 * (Base + 1)
    BY <1>1, <1>2, <1>3, <1>4, <2>4, <2>7, <2>8
  <2>10. x.priority < n.priority
    BY <1>1, <1>2, <1>4, <2>1, <2>3, <2>4, <2>5, <2>7, <2>9
  <2> QED BY <1>1, <2>1, <2>10 DEF t
<1>8. \A x \in queue : x.arrival \in Nat /\ x.priority \in Nat
  BY DEF QueueInv
<1> HIDE DEF n
<1>9. \A x \in queue \cup {n} : x.priority <= WaitBound(x.arrival)
  BY <1>4, <1>6 DEF OrderInv
<1>10. \A x, y \in queue \cup {n} : x.arrival < y.arrival => x.priority < y.priority
  BY <1>1, <1>4, <1>7, <1>8 DEF OrderInv
<1> QED BY <1>9, <1>10 DEF n

LEMMA InitQueue == DynInit => QueueInv /\ OrderInv
<1> SUFFICES ASSUME DynInit PROVE QueueInv /\ OrderInv
  OBVIOUS
<1>1. clock = 0 /\ queue = {} /\ served = FALSE /\ waited = FALSE /\ lastBatch = <<>>
  BY DEF DynInit
<1>2. Rest \in 0 .. min_packets_for_update - 1 /\ Base \in Nat
  BY <1>1, RestFacts
<1>3. Rest = 0 /\ Base = 0
  BY <1>1, <1>2 DEF Base
<1>4. IsFiniteSet(queue) /\ Cardinality(queue) = 0
  BY <1>1, FS_EmptySet
<1>5. {x.arrival : x \in queue} = Base + 1 .. clock
  BY <1>1, <1>3
<1>6. lastBatch \in Seq(1 .. MaxPackets) /\ {lastBatch[i] : i \in DOMAIN lastBatch} = {}
  BY <1>1
<1>7. clock \in 0 .. MaxPackets
  BY <1>1, MaxPacketsAssumption
<1>8. QueueInv
  BY <1>1, <1>3, <1>4, <1>5, <1>6, <1>7 DEF QueueInv
<1> QED BY <1>1, <1>8 DEF OrderInv

(* Steps that are none of the queue's leave it alone.                        *)
LEMMA QueueKept ==
  ASSUME QueueInv, OrderInv, UNCHANGED queueVars, phase = "abort" => phase' = "abort"
  PROVE  QueueInv' /\ OrderInv'
<1>1. UNCHANGED <<queue, clock, served, waited, lastBatch>>
  BY DEF queueVars
<1>2. Rest' = Rest /\ Base' = Base
  BY <1>1 DEF Rest, Base
<1>3. QueueInv'
  BY <1>1, <1>2 DEF QueueInv
<1>4. OrderInv'
  BY <1>1, <1>2 DEF OrderInv, WaitBound
<1> QED BY <1>3, <1>4

LEMMA AddQueue ==
  ASSUME QueueInv, OrderInv, NEW kinds \in PacketKinds, AddPacket(kinds)
  PROVE  QueueInv' /\ OrderInv'
<1> DEFINE B == min_packets_for_update
           items == queue \cup {Arriving(kinds)}
<1>1. /\ phase = "done" /\ clock < MaxPackets
      /\ clock' = clock + 1 /\ waited' = (waited \/ served)
      /\ IF BatchComplete(items)
         THEN ProcessQueue(items)
         ELSE queue' = items /\ UNCHANGED <<vars, trackVars, served, lastBatch>>
  BY DEF AddPacket, Arriving
<1>2. /\ B \in Nat /\ B >= 3 /\ clock \in Nat /\ clock' \in 0 .. MaxPackets
      /\ Rest \in 0 .. B - 1 /\ Base \in Nat /\ clock = Base + Rest
  <2>1. B \in Nat /\ B >= 3 /\ clock \in Nat /\ MaxPackets \in Nat
    BY BatchSizeAssumption, MaxPacketsAssumption DEF QueueInv
  <2>2. Rest \in 0 .. B - 1 /\ Base \in Nat
    BY <2>1, RestFacts
  <2> QED BY <1>1, <2>1, <2>2 DEF Base
<1>3. Rest' = (IF Rest + 1 = B THEN 0 ELSE Rest + 1) /\ Base' = clock + 1 - Rest'
  BY <1>1, <1>2, RestFacts DEF Rest, Base
<1>4. /\ IsFiniteSet(items) /\ Cardinality(items) = Rest + 1
      /\ items \subseteq [arrival : Nat, priority : Nat]
      /\ {x.arrival : x \in items} = Base + 1 .. clock + 1
      /\ \A x, y \in items : x.arrival = y.arrival => x = y
      /\ BatchComplete(items) <=> Rest + 1 = B
  BY <1>1, JoinFacts
<1>5. served =>
        /\ \A x \in items : x.priority <= WaitBound(x.arrival)
        /\ \A x, y \in items : x.arrival < y.arrival => x.priority < y.priority
  BY <1>1, ArrivingOrder
<1> HIDE DEF items
<1>6. waited' \in BOOLEAN
  BY <1>1 DEF QueueInv
<1>7. CASE ~BatchComplete(items)
  <2>1. queue' = items /\ UNCHANGED <<phase, served, lastBatch>>
    BY <1>1, <1>7 DEF vars
  <2>2. Rest' = Rest + 1 /\ Base' = Base
    BY <1>2, <1>3, <1>4, <1>7
  <2>3. QueueInv'
    BY <1>1, <1>2, <1>4, <1>6, <2>1, <2>2 DEF QueueInv
  <2>4. OrderInv'
    BY <1>1, <1>5, <2>1, <2>2 DEF OrderInv, WaitBound
  <2> QED BY <2>3, <2>4
<1>8. CASE BatchComplete(items)
  <2>1. ProcessQueue(items) /\ Rest' = 0 /\ Base' = clock + 1 /\ Rest + 1 = B
    BY <1>1, <1>2, <1>3, <1>4, <1>8
  <2>2. ASSUME queue' = {}
        PROVE  /\ IsFiniteSet(queue') /\ Cardinality(queue') = Rest'
               /\ {x.arrival : x \in queue'} = Base' + 1 .. clock'
    <3>1. {x.arrival : x \in queue'} = {} /\ Base' + 1 .. clock' = {}
      BY <1>1, <1>2, <2>1, <2>2
    <3> QED BY <2>1, <2>2, <3>1, FS_EmptySet
  <2>3. CASE Overshoots(B, FlowThreads)
    <3>1. phase' = "abort" /\ queue' = {} /\ UNCHANGED <<served, lastBatch>>
      BY <2>1, <2>3 DEF ProcessQueue
    <3>2. ~served /\ served' = FALSE
      BY <2>3, <3>1 DEF QueueInv
    <3>3. QueueInv'
      BY <1>2, <1>6, <2>1, <2>2, <3>1, <3>2 DEF QueueInv
    <3> QED BY <3>2, <3>3 DEF OrderInv
  <2>4. CASE ~Overshoots(B, FlowThreads)
    <3>1. served' = TRUE
      BY <2>1, <2>4 DEF ProcessQueue
    <3>2. PICK order \in PopOrders(items) :
            LET batch == {i \in DOMAIN order : i <= B}
            IN  /\ queue' = items \ {order[i] : i \in batch}
                /\ lastBatch' = [i \in batch |-> order[i].arrival]
      BY <2>1, <2>4 DEF ProcessQueue
    <3>3. /\ DOMAIN order = 1 .. B
          /\ {order[i] : i \in DOMAIN order} = items
          /\ \A i, j \in DOMAIN order : i < j => order[i] # order[j] /\ order[i].priority >= order[j].priority
          /\ {i \in DOMAIN order : i <= B} = DOMAIN order
          /\ lastBatch' = [i \in DOMAIN order |-> order[i].arrival] /\ queue' = {}
      <4>1. /\ DOMAIN order = 1 .. B
            /\ {order[i] : i \in DOMAIN order} = items
            /\ \A i, j \in DOMAIN order : i < j => order[i] # order[j] /\ order[i].priority >= order[j].priority
        BY <1>4, <2>1, OrderFacts
      <4>2. {i \in DOMAIN order : i <= B} = DOMAIN order
        BY <1>2, <4>1
      <4> QED BY <3>2, <4>1, <4>2
    <3>4. {lastBatch'[i] : i \in DOMAIN lastBatch'} = {x.arrival : x \in items}
      BY <3>3
    <3>5. {lastBatch'[i] : i \in DOMAIN lastBatch'} = Base' - B + 1 .. Base'
      <4>1. Base' - B + 1 = Base + 1 /\ Base' = clock + 1
        BY <1>2, <2>1
      <4> QED BY <1>4, <3>4, <4>1
    <3>6. lastBatch' \in Seq(1 .. MaxPackets)
      <4>1. \A i \in 1 .. B : order[i].arrival \in 1 .. MaxPackets
        <5>1. \A i \in 1 .. B : order[i].arrival \in {x.arrival : x \in items}
          BY <3>3
        <5>2. Base + 1 .. clock + 1 \subseteq 1 .. MaxPackets
          BY <1>1, <1>2, MaxPacketsAssumption
        <5> QED BY <1>4, <5>1, <5>2
      <4>2. lastBatch' = [i \in 1 .. B |-> order[i].arrival]
        BY <3>3
      <4> QED BY <1>2, <4>1, <4>2
    <3>7. Base' >= B
      BY <1>2, <2>1
    <3>8. QueueInv'
      BY <1>2, <1>6, <2>1, <2>2, <2>4, <3>1, <3>3, <3>5, <3>6, <3>7 DEF QueueInv
    <3>9. ASSUME Base' # B, NEW i \in DOMAIN lastBatch', NEW j \in DOMAIN lastBatch', i < j
          PROVE  lastBatch'[i] > lastBatch'[j]
      <4>1. served
        BY <1>1, <1>2, <2>1, <3>9 DEF QueueInv
      <4> DEFINE x == order[i]
                 y == order[j]
      <4>2. x \in items /\ y \in items /\ x # y /\ x.priority >= y.priority
            /\ lastBatch'[i] = x.arrival /\ lastBatch'[j] = y.arrival
        BY <3>3, <3>9
      <4> HIDE DEF x, y
      <4>3. x.arrival \in Nat /\ y.arrival \in Nat /\ x.priority \in Nat /\ y.priority \in Nat
        BY <1>4, <4>2
      <4>4. ~(x.arrival < y.arrival) /\ x.arrival # y.arrival
        BY <1>4, <1>5, <4>1, <4>2, <4>3
      <4> QED BY <4>2, <4>3, <4>4
    <3>10. OrderInv'
      BY <3>3, <3>9 DEF OrderInv
    <3> QED BY <3>8, <3>10
  <2> QED BY <2>3, <2>4
<1> QED BY <1>7, <1>8

LEMMA StepQueue == QueueInv /\ OrderInv /\ [DynNext]_dynVars => QueueInv' /\ OrderInv'
<1> SUFFICES ASSUME QueueInv, OrderInv, [DynNext]_dynVars PROVE QueueInv' /\ OrderInv'
  OBVIOUS
<1>1. CASE ProcessWindow
  <2>1. phase # "abort"
    BY <1>1 DEF ProcessWindow, ParseEdge, FindComponents, Select, ProcComponent, FinalScore
  <2> QED BY <1>1, <2>1, QueueKept DEF ProcessWindow
<1>2. CASE \E kinds \in PacketKinds : AddPacket(kinds)
  BY <1>2, AddQueue
<1>3. CASE UNCHANGED dynVars
  BY <1>3, QueueKept DEF dynVars, vars
<1> QED BY <1>1, <1>2, <1>3 DEF DynNext, DynEnded

(* No packet is lost, served twice or served in part, whatever the batch     *)
(* size, the packets and their priorities (graph_define.hpp:133-182).        *)
THEOREM QueueKeepsPackets == DynSpec => []QueueHoldsRest
<1>1. QueueInv => QueueHoldsRest
  <2> SUFFICES ASSUME QueueInv PROVE QueueHoldsRest
    OBVIOUS
  <2>1. clock \in Nat /\ Rest \in Nat /\ Base = clock - Rest /\ min_packets_for_update \in Nat
    BY BatchSizeAssumption, MaxPacketsAssumption, RestFacts DEF QueueInv, Base
  <2>2. /\ Cardinality(queue) = Rest
        /\ {x.arrival : x \in queue} = clock - Rest + 1 .. clock
        /\ served => {lastBatch[i] : i \in DOMAIN lastBatch}
                       = clock - Rest - min_packets_for_update + 1 .. clock - Rest
    BY <2>1 DEF QueueInv
  <2> QED BY <2>2 DEF QueueHoldsRest, Rest
<1> QED BY <1>1, InitQueue, StepQueue, PTL DEF DynSpec

NewestFirst ==
  served /\ clock >= 2 * min_packets_for_update =>
    \A i, j \in DOMAIN lastBatch : i < j => lastBatch[i] > lastBatch[j]

(* From the second batch on each is served in the reverse order of arrival,  *)
(* whatever its packets (lines 185-212): what has waited longest is last.    *)
THEOREM BatchesNewestFirst == DynSpec => []NewestFirst
<1>1. QueueInv /\ OrderInv => NewestFirst
  <2> SUFFICES ASSUME QueueInv, OrderInv, served, clock >= 2 * min_packets_for_update
               PROVE  \A i, j \in DOMAIN lastBatch : i < j => lastBatch[i] > lastBatch[j]
    BY DEF NewestFirst
  <2>1. clock \in Nat /\ Rest \in 0 .. min_packets_for_update - 1 /\ Base = clock - Rest
        /\ min_packets_for_update \in Nat
    BY BatchSizeAssumption, MaxPacketsAssumption, RestFacts DEF QueueInv, Base
  <2>2. Base # min_packets_for_update
    BY <2>1
  <2> QED BY <2>2 DEF OrderInv
<1> QED BY <1>1, InitQueue, StepQueue, PTL DEF DynSpec

-------------------------------------------------------------------------------
(* Edges *)

(* Edges of the window, or of batches. *)
AnyShort == [src : Addrs, dst : Addrs, agg : Aggregations, pkts : SUBSET (Packets \cup BatchPositions)]
AnyLong == [src : Addrs, dst : Addrs, pkts : SUBSET (Packets \cup BatchPositions)]

Window == {"parse", "components", "select", "process"}

EdgeInv ==
  /\ short \in Seq(AnyShort) /\ long \in Seq(AnyLong)
  /\ phase \in Window \cup {"done", "abort", "undefined"}
  /\ phase \in Window => IndexInv /\ ScoreInv /\ OnlySelectedScored
  /\ shortScore = [i \in DOMAIN shortScore |-> shortScore[i]]
  /\ phase = "done" => DOMAIN shortScore \subseteq ShortIds /\ DOMAIN longScore \subseteq LongIds

TrackInv ==
  /\ tracked \in [Addrs -> SUBSET ShortIds] /\ pending \in BOOLEAN
  /\ phase \in Window => tracked = NoIndex /\ ~pending

(* What a batch's edges are among those of the graph.                        *)
LEMMA AppendFacts ==
  ASSUME EdgeInv, NEW e \in BatchEdges
  PROVE  /\ AllShort(e) \in Seq(AnyShort) /\ AllLong(e) \in Seq(AnyLong)
         /\ ShortIds = 1 .. Len(short) /\ LongIds = 1 .. Len(long)
         /\ Len(short) \in Nat /\ Len(long) \in Nat /\ Len(e.short) \in Nat /\ Len(e.long) \in Nat
         /\ DOMAIN AllShort(e) = 1 .. Len(short) + Len(e.short)
         /\ DOMAIN AllLong(e) = 1 .. Len(long) + Len(e.long)
         /\ Len(AllShort(e)) = Len(short) + Len(e.short)
         /\ \A i \in ShortIds : AllShort(e)[i] = short[i]
         /\ \A i \in LongIds : AllLong(e)[i] = long[i]
         /\ \A i \in DOMAIN AllShort(e) : AllShort(e)[i].src \in Addrs /\ AllShort(e)[i].dst \in Addrs
         /\ \A i \in DOMAIN AllLong(e) : AllLong(e)[i].src \in Addrs
<1>1. short \in Seq(AnyShort) /\ long \in Seq(AnyLong)
  BY DEF EdgeInv
<1>2. e.short \in Seq(AnyShort) /\ e.long \in Seq(AnyLong)
  <2>1. e.short \in Seq(BatchShortEdge) /\ e.long \in Seq(BatchLongEdge)
    BY BatchEdgeAssumption
  <2>2. BatchShortEdge \subseteq AnyShort /\ BatchLongEdge \subseteq AnyLong
    BY DEF BatchShortEdge, BatchLongEdge, AnyShort, AnyLong
  <2> HIDE DEF BatchShortEdge, BatchLongEdge, AnyShort, AnyLong
  <2> QED BY <2>1, <2>2
<1>3. AllShort(e) \in Seq(AnyShort) /\ AllLong(e) \in Seq(AnyLong)
  BY <1>1, <1>2, ConcatProperties DEF AllShort, AllLong
<1>4. /\ ShortIds = 1 .. Len(short) /\ LongIds = 1 .. Len(long)
      /\ Len(short) \in Nat /\ Len(long) \in Nat /\ Len(e.short) \in Nat /\ Len(e.long) \in Nat
  BY <1>1, <1>2 DEF ShortIds, LongIds
<1>5. /\ Len(AllShort(e)) = Len(short) + Len(e.short)
      /\ Len(AllLong(e)) = Len(long) + Len(e.long)
      /\ \A i \in ShortIds : AllShort(e)[i] = short[i]
      /\ \A i \in LongIds : AllLong(e)[i] = long[i]
  BY <1>1, <1>2, <1>4, ConcatProperties DEF AllShort, AllLong
<1>6. /\ DOMAIN AllShort(e) = 1 .. Len(short) + Len(e.short)
      /\ DOMAIN AllLong(e) = 1 .. Len(long) + Len(e.long)
  BY <1>3, <1>4, <1>5
<1>7. /\ \A i \in DOMAIN AllShort(e) : AllShort(e)[i] \in AnyShort
      /\ \A i \in DOMAIN AllLong(e) : AllLong(e)[i] \in AnyLong
  BY <1>3
<1> QED BY <1>3, <1>4, <1>5, <1>6, <1>7 DEF AnyShort, AnyLong

(* A score vector keeps its edges, whatever is written.                      *)
LEMMA WrittenFacts ==
  ASSUME NEW score, NEW S, NEW alone, NEW o \in Written(score, S, alone)
  PROVE  o.score = [i \in DOMAIN score |-> o.score[i]] /\ DOMAIN o.score = DOMAIN score
<1>1. PICK origin \in Origins(S, Clusterings(S), alone) :
        \E new \in Rescores(score, origin) :
          o = [score |-> new, inBounds |-> UNION origin \subseteq DOMAIN score]
  BY DEF Written
<1>2. PICK new \in Rescores(score, origin) :
        o = [score |-> new, inBounds |-> UNION origin \subseteq DOMAIN score]
  BY <1>1
<1>3. o.score = new
  BY <1>2
<1>4. new = [i \in DOMAIN score |-> new[i]] /\ DOMAIN new = DOMAIN score
  BY RescoresChange
<1> QED BY <1>3, <1>4

(* Every short edge of a component that is processed is written to.  If the  *)
(* vector lacks one, and yet nothing beyond it is written, nothing is.       *)
LEMMA WrittenWithin ==
  ASSUME NEW score, score = [i \in DOMAIN score |-> score[i]],
         NEW S, ~(S \subseteq DOMAIN score), NEW alone, Noise \in alone,
         NEW o \in Written(score, S, alone), o.inBounds
  PROVE  o.score = score
<1>1. PICK origin \in Origins(S, Clusterings(S), alone) :
        \E new \in Rescores(score, origin) :
          o = [score |-> new, inBounds |-> UNION origin \subseteq DOMAIN score]
  BY DEF Written
<1>2. PICK new \in Rescores(score, origin) :
        o = [score |-> new, inBounds |-> UNION origin \subseteq DOMAIN score]
  BY <1>1
<1>3. o.score = new /\ UNION origin \subseteq DOMAIN score
  BY <1>2
<1>4. PICK order \in Iterations(S), c \in Clusterings(S) :
        origin = OriginIndex(order, Assignments(order, c), alone)
  BY DEF Origins
<1> DEFINE a == Assignments(order, c)
<1>5. DOMAIN a = DOMAIN order
  BY DEF Assignments
<1>6. origin = OriginIndex(order, a, alone)
  BY <1>4
<1> HIDE DEF a
<1>7. CASE IsProcessed(a)
  <2>1. origin = {{order[k] : k \in entry} : entry \in Entries(a, alone)}
    BY <1>6, <1>7 DEF OriginIndex
  <2>2. ASSUME NEW i \in S PROVE i \in UNION origin
    <3>1. PICK k \in DOMAIN order : order[k] = i
      BY IterationFacts
    <3>2. PICK entry \in Entries(a, alone) : k \in entry
      <4>1. CASE a[k] = Noise
        <5>1. k \in {m \in DOMAIN a : a[m] \in alone}
          BY <1>5, <3>1, <4>1
        <5>2. {k} \in Entries(a, alone)
          BY <5>1 DEF Entries
        <5> QED BY <5>2
      <4>2. CASE a[k] # Noise
        <5>1. a[k] \in Clusters(a)
          BY <1>5, <4>2 DEF Clusters
        <5>2. {m \in DOMAIN a : a[m] = a[k]} \in Entries(a, alone)
          BY <5>1 DEF Entries
        <5> QED BY <1>5, <5>2
      <4> QED BY <4>1, <4>2
    <3> QED BY <2>1, <3>1, <3>2
  <2> QED BY <1>3, <2>2
<1>8. CASE ~IsProcessed(a)
  <2>1. origin = {}
    BY <1>6, <1>8 DEF OriginIndex
  <2>2. PICK loss \in [origin -> Losses] :
          new = [i \in DOMAIN score |->
                   IF i \in UNION origin THEN loss[CHOOSE entry \in origin : i \in entry] ELSE score[i]]
    BY DEF Rescores
  <2>3. new = [i \in DOMAIN score |-> score[i]]
    BY <2>1, <2>2
  <2> QED BY <1>3, <2>3
<1> QED BY <1>7, <1>8

(* What a batch's update leaves of the scores and of what is tracked.        *)
LEMMA UpdateFacts ==
  ASSUME EdgeInv, phase = "done", NEW e \in BatchEdges, UpdateWithNewPackets(e)
  PROVE  /\ pktScore' = pktScore /\ DOMAIN longScore' = DOMAIN longScore
         /\ DOMAIN shortScore' = DOMAIN shortScore
         /\ shortScore' = [i \in DOMAIN shortScore |-> shortScore'[i]]
         /\ phase' = "done" => shortScore' = shortScore
         /\ phase' \in {"done", "undefined"} /\ AppendEdges(e)
         /\ \/ tracked' = NoIndex /\ pending' = FALSE
            \/ tracked' = Track(e) /\ pending' = TRUE
<1>1. /\ AppendEdges(e) /\ pktScore' = pktScore
      /\ IF EnoughNew(e) /\ trained
         THEN UpdateClusters(e)
         ELSE /\ tracked' = Track(e) /\ pending' = TRUE
              /\ UNCHANGED <<phase, shortScore, longScore>>
  BY DEF UpdateWithNewPackets
<1>2. CASE ~(EnoughNew(e) /\ trained)
  BY <1>1, <1>2 DEF EdgeInv
<1>3. CASE EnoughNew(e) /\ trained
  <2> DEFINE part == Affected(Track(e))
             S == ShortOf(part)'
  <2>1. UpdateClusters(e)
    BY <1>1, <1>3
  <2>2. PICK q \in {Affected(Track(e))} :
          \E ss \in Written(shortScore, ShortOf(q)', {Noise}), ls \in Written(longScore, LongOf(q)', {}) :
               /\ shortScore' = ss.score /\ longScore' = ls.score
               /\ IF ss.inBounds /\ ls.inBounds
                  THEN tracked' = NoIndex /\ pending' = FALSE /\ UNCHANGED phase
                  ELSE tracked' = Track(e) /\ pending' = TRUE /\ phase' = "undefined"
    BY <2>1 DEF UpdateClusters
  <2>3. PICK ss \in Written(shortScore, ShortOf(q)', {Noise}), ls \in Written(longScore, LongOf(q)', {}) :
               /\ shortScore' = ss.score /\ longScore' = ls.score
               /\ IF ss.inBounds /\ ls.inBounds
                  THEN tracked' = NoIndex /\ pending' = FALSE /\ UNCHANGED phase
                  ELSE tracked' = Track(e) /\ pending' = TRUE /\ phase' = "undefined"
    BY <2>2
  <2>4. ~(ShortOf(q)' \subseteq DOMAIN shortScore)
    <3> DEFINE i == Len(short) + 1
               a == AllShort(e)[i].src
    <3>1. e.short # <<>> /\ e.short \in Seq(BatchShortEdge)
      BY <1>3, BatchEdgeAssumption DEF EnoughNew
    <3>2. Len(e.short) >= 1
      BY <3>1, EmptySeq
    <3>3. i \in NewShort(e) /\ i \in DOMAIN AllShort(e) /\ i \notin ShortIds /\ a \in Addrs
      BY <3>2, AppendFacts DEF NewShort
    <3> HIDE DEF i
    <3>4. i \in BySrc(AllShort(e), NewShort(e))[a]
      BY <3>3 DEF BySrc
    <3> HIDE DEF a
    <3>5. i \in Track(e)[a] /\ i \in shortOut'[a]
      BY <1>1, <3>3, <3>4 DEF Track, With, AppendEdges
    <3>6. a \in q.addrs
      BY <3>3, <3>5 DEF Affected
    <3>7. i \in ShortOf(q)'
      BY <3>5, <3>6 DEF ShortOf
    <3> QED BY <3>3, <3>7 DEF EdgeInv
  <2>5. /\ ss.score = [i \in DOMAIN shortScore |-> ss.score[i]]
        /\ DOMAIN ss.score = DOMAIN shortScore
        /\ ss.inBounds => ss.score = shortScore
    <3>1. ss.score = [i \in DOMAIN shortScore |-> ss.score[i]] /\ DOMAIN ss.score = DOMAIN shortScore
      BY WrittenFacts
    <3>2. shortScore = [i \in DOMAIN shortScore |-> shortScore[i]]
      BY DEF EdgeInv
    <3>3. ss.inBounds => ss.score = shortScore
      <4>1. Noise \in {Noise}
        OBVIOUS
      <4> QED BY <2>4, <3>2, <4>1, WrittenWithin
    <3> QED BY <3>1, <3>3
  <2>6. DOMAIN ls.score = DOMAIN longScore
    <3>1. ls.score = [i \in DOMAIN longScore |-> ls.score[i]] /\ DOMAIN ls.score = DOMAIN longScore
      BY WrittenFacts
    <3> QED BY <3>1
  <2> QED BY <1>1, <2>3, <2>5, <2>6
<1> QED BY <1>2, <1>3

(* The invariant of the edges, their indexes and what is tracked.            *)
GrowInv == EdgeInv /\ TrackInv /\ EdgesIndexed /\ TrackedAreLatest

LEMMA InitGrow == DynInit => GrowInv
<1> SUFFICES ASSUME DynInit PROVE GrowInv
  OBVIOUS
<1>1. tracked = NoIndex /\ pending = FALSE
  BY DEF DynInit
<1>2. tracked \in [Addrs -> SUBSET ShortIds] /\ \A a \in Addrs : tracked[a] = {}
  BY <1>1 DEF NoIndex
<1>3. TrackInv /\ TrackedAreLatest
  BY <1>1, <1>2 DEF TrackInv, TrackedAreLatest
<1>4. shortScore = <<>>
  BY DEF DynInit, Init, LoadedModel
<1>5. shortScore = [i \in DOMAIN shortScore |-> shortScore[i]]
  BY <1>4
<1>6. CASE Init
  <2>1. phase = "parse"
    BY <1>6 DEF Init
  <2>2. IndexInv /\ ScoreInv /\ OnlySelectedScored
    BY <1>6, InitIndex, InitScores
  <2>3. short \in Seq(AnyShort) /\ long \in Seq(AnyLong)
    <3>1. ShortEdge \subseteq AnyShort /\ LongEdge \subseteq AnyLong
      BY DEF ShortEdge, AnyShort, LongEdge, AnyLong
    <3> HIDE DEF ShortEdge, AnyShort, LongEdge, AnyLong
    <3> QED BY <2>2, <3>1 DEF IndexInv
  <2> QED BY <1>3, <1>5, <2>1, <2>2, <2>3 DEF GrowInv, EdgeInv, Window, EdgesIndexed
<1>7. CASE LoadedModel
  <2>1. short = <<>> /\ long = <<>> /\ phase = "done" /\ longScore = <<>>
    BY <1>7 DEF LoadedModel
  <2>2. short \in Seq(AnyShort) /\ long \in Seq(AnyLong) /\ ShortIds = {} /\ LongIds = {}
        /\ DOMAIN shortScore = {} /\ DOMAIN longScore = {}
    BY <1>4, <2>1 DEF ShortIds, LongIds
  <2> QED BY <1>3, <1>5, <2>1, <2>2 DEF GrowInv, EdgeInv, Window, EdgesIndexed
<1> QED BY <1>6, <1>7 DEF DynInit

(* The window's own steps.                                                   *)
LEMMA WindowGrow == GrowInv /\ ProcessWindow => GrowInv'
<1> SUFFICES ASSUME GrowInv, ProcessWindow PROVE GrowInv'
  OBVIOUS
<1>1. phase \in Window /\ phase' \in Window \cup {"done", "abort"} /\ UNCHANGED <<short, long, trackVars>>
  BY DEF ProcessWindow, Window, ParseEdge, FindComponents, Select, ProcComponent, FinalScore, edgeVars
<1>2. [Next]_vars
  BY DEF ProcessWindow, Next
<1>3. IndexInv' /\ ScoreInv' /\ OnlySelectedScored'
  BY <1>1, <1>2, StepIndex, StepScores DEF GrowInv, EdgeInv
<1>4. ShortIds' = ShortIds /\ LongIds' = LongIds
  BY <1>1 DEF ShortIds, LongIds
<1>5. (shortScore = [i \in DOMAIN shortScore |-> shortScore[i]])'
  <2>1. CASE ParseEdge
    <3>1. shortScore' = [i \in ShortIds |-> 0]
      BY <2>1 DEF ParseEdge
    <3> QED BY <3>1
  <2>2. CASE \E part \in todo : ProcComponent(part)
    BY <2>2, ProcChanges
  <2>3. CASE FindComponents \/ Select \/ FinalScore
    <3>1. UNCHANGED shortScore
      BY <2>3 DEF FindComponents, Select, FinalScore, scoreVars
    <3> QED BY <3>1 DEF GrowInv, EdgeInv
  <2> QED BY <2>1, <2>2, <2>3 DEF ProcessWindow
<1>6. tracked' = NoIndex /\ pending' = FALSE /\ \A a \in Addrs : tracked'[a] = {}
  <2>1. tracked = NoIndex /\ pending = FALSE
    BY <1>1 DEF GrowInv, TrackInv
  <2> QED BY <1>1, <2>1 DEF trackVars, NoIndex
<1>7. EdgeInv'
  BY <1>1, <1>3, <1>4, <1>5 DEF GrowInv, EdgeInv, ScoreInv, Window
<1>8. TrackInv'
  <2>1. NoIndex' = NoIndex /\ tracked' \in [Addrs -> SUBSET ShortIds']
    BY <1>6 DEF NoIndex
  <2> QED BY <1>6, <2>1 DEF TrackInv
<1>9. TrackedAreLatest'
  <2>1. NoIndex' = NoIndex
    BY DEF NoIndex
  <2> QED BY <1>6, <2>1 DEF TrackedAreLatest
<1>10. EdgesIndexed'
  <2>1. CASE FinalScore
    <3>1. phase # "parse" /\ IndexInv /\ UNCHANGED <<short, long, indexVars>>
      BY <1>1, <2>1 DEF FinalScore, GrowInv, EdgeInv
    <3>2. \A i \in ShortIds : i \in ShortOf([addrs |-> {short[i].src, short[i].dst}, global |-> FALSE])'
      <4> TAKE i \in ShortIds
      <4>1. short[i].src \in Addrs /\ short[i].dst \in Addrs /\ short[i].agg \in Aggregations
        <5>1. short[i] \in ShortEdge
          BY <3>1 DEF IndexInv, ShortIds
        <5> QED BY <5>1 DEF ShortEdge
      <4>2. \/ i \in shortOut[short[i].src]
            \/ i \in shortOutAgg[short[i].src]
            \/ i \in shortInAgg[short[i].dst]
        BY <3>1, <4>1 DEF IndexInv, TwoEnded, BySrcOnly, ByDstOnly, Aggregations, BySrc, ByDst
      <4> QED BY <3>1, <4>2 DEF ShortOf, indexVars
    <3>3. \A i \in LongIds : i \in LongOf([addrs |-> {long[i].src}, global |-> FALSE])'
      <4> TAKE i \in LongIds
      <4>1. long[i].src \in Addrs
        <5>1. long[i] \in LongEdge
          BY <3>1 DEF IndexInv, LongIds
        <5> QED BY <5>1 DEF LongEdge
      <4>2. i \in longOut[long[i].src]
        BY <3>1, <4>1 DEF IndexInv, BySrc
      <4> QED BY <3>1, <4>2 DEF LongOf, indexVars
    <3> QED BY <1>4, <3>1, <3>2, <3>3 DEF EdgesIndexed
  <2>2. CASE ~FinalScore
    <3>1. phase' # "done"
      BY <2>2 DEF ProcessWindow, ParseEdge, FindComponents, Select, ProcComponent
    <3> QED BY <3>1 DEF EdgesIndexed
  <2> QED BY <2>1, <2>2
<1> QED BY <1>7, <1>8, <1>9, <1>10 DEF GrowInv

(* A batch's edges are appended and indexed, and tracked until an update.    *)
LEMMA AppendGrow ==
  ASSUME GrowInv, phase = "done", NEW e \in BatchEdges, UpdateWithNewPackets(e)
  PROVE  GrowInv'
<1> DEFINE n == Len(short)
           m == Len(e.short)
           all == AllShort(e)
           new == NewShort(e)
<1>1. EdgeInv /\ TrackInv /\ EdgesIndexed /\ TrackedAreLatest
  BY DEF GrowInv
<1>2. /\ DOMAIN shortScore' = DOMAIN shortScore /\ DOMAIN longScore' = DOMAIN longScore
      /\ shortScore' = [i \in DOMAIN shortScore' |-> shortScore'[i]]
      /\ phase' \in {"done", "undefined"} /\ AppendEdges(e)
      /\ \/ tracked' = NoIndex /\ pending' = FALSE
         \/ tracked' = Track(e) /\ pending' = TRUE
  BY <1>1, UpdateFacts
<1>3. /\ all \in Seq(AnyShort) /\ AllLong(e) \in Seq(AnyLong)
      /\ ShortIds = 1 .. n /\ LongIds = 1 .. Len(long)
      /\ n \in Nat /\ Len(long) \in Nat /\ m \in Nat /\ Len(e.long) \in Nat
      /\ DOMAIN all = 1 .. n + m /\ DOMAIN AllLong(e) = 1 .. Len(long) + Len(e.long)
      /\ Len(all) = n + m
      /\ \A i \in ShortIds : all[i] = short[i]
      /\ \A i \in LongIds : AllLong(e)[i] = long[i]
      /\ \A i \in DOMAIN all : all[i].src \in Addrs /\ all[i].dst \in Addrs
      /\ \A i \in DOMAIN AllLong(e) : AllLong(e)[i].src \in Addrs
  BY <1>1, AppendFacts
<1>4. /\ short' = all /\ long' = AllLong(e)
      /\ ShortIds' = 1 .. n + m /\ LongIds' = 1 .. Len(long) + Len(e.long)
      /\ new = n + 1 .. n + m
  BY <1>2, <1>3 DEF AppendEdges, ShortIds, LongIds, NewShort
<1>5. ShortIds \subseteq ShortIds' /\ new \subseteq ShortIds' /\ LongIds \subseteq LongIds'
      /\ ShortIds' = ShortIds \cup new
  BY <1>3, <1>4
<1>6. EdgeInv'
  BY <1>1, <1>2, <1>3, <1>4, <1>5 DEF EdgeInv, Window
<1>7. \A a \in Addrs : Track(e)[a]
                         = tracked[a] \cup {i \in new : all[i].src = a} \cup {i \in new : all[i].dst = a}
  BY DEF Track, With, BySrc, ByDst
<1>8. TrackInv'
  <2>1. Track(e) \in [Addrs -> SUBSET ShortIds']
    <3>1. Track(e) = [a \in Addrs |-> Track(e)[a]]
      BY DEF Track, With
    <3>2. \A a \in Addrs : Track(e)[a] \subseteq ShortIds'
      BY <1>1, <1>5, <1>7 DEF TrackInv
    <3> QED BY <3>1, <3>2
  <2>2. NoIndex \in [Addrs -> SUBSET ShortIds']
    BY DEF NoIndex
  <2> QED BY <1>2, <2>1, <2>2 DEF TrackInv, Window
<1>9. ASSUME NEW i \in ShortIds'
      PROVE  \E a \in {all[i].src, all[i].dst} :
               i \in shortOut'[a] \cup shortOutAgg'[a] \cup shortInAgg'[a]
  <2>1. \A a \in Addrs : shortOut[a] \subseteq shortOut'[a]
    BY <1>2 DEF AppendEdges, With
  <2>2. shortOutAgg' = shortOutAgg /\ shortInAgg' = shortInAgg
    BY <1>2 DEF AppendEdges
  <2>3. all[i].src \in Addrs /\ all[i].dst \in Addrs
    BY <1>3, <1>4, <1>9
  <2>4. CASE i \in new
    <3>1. i \in shortOut'[all[i].src]
      BY <1>2, <2>3, <2>4 DEF AppendEdges, With, BySrc
    <3> QED BY <3>1
  <2>5. CASE i \in ShortIds
    <3>1. i \in ShortOf([addrs |-> {short[i].src, short[i].dst}, global |-> FALSE])
      BY <1>1, <2>5 DEF EdgesIndexed
    <3>2. PICK a \in {short[i].src, short[i].dst} : i \in shortOut[a] \cup shortOutAgg[a] \cup shortInAgg[a]
      BY <3>1 DEF ShortOf
    <3>3. a \in {all[i].src, all[i].dst} /\ a \in Addrs
      BY <1>3, <2>3, <2>5, <3>2
    <3> QED BY <2>1, <2>2, <3>2, <3>3
  <2> QED BY <1>5, <1>9, <2>4, <2>5
<1>10. ASSUME NEW i \in LongIds' PROVE i \in longOut'[AllLong(e)[i].src]
  <2>1. AllLong(e)[i].src \in Addrs
    BY <1>3, <1>4, <1>10
  <2>2. CASE i \in LongIds
    <3>1. i \in LongOf([addrs |-> {long[i].src}, global |-> FALSE])
      BY <1>1, <2>2 DEF EdgesIndexed
    <3>2. i \in longOut[long[i].src]
      BY <3>1 DEF LongOf
    <3> QED BY <1>2, <1>3, <2>1, <2>2, <3>2 DEF AppendEdges, With
  <2>3. CASE i \notin LongIds
    <3>1. i \in NewLong(e)
      BY <1>3, <1>4, <1>10, <2>3 DEF NewLong
    <3> QED BY <1>2, <2>1, <3>1 DEF AppendEdges, With, BySrc
  <2> QED BY <2>2, <2>3
<1>11. EdgesIndexed'
  <2>1. \A i \in ShortIds' : i \in ShortOf([addrs |-> {short[i].src, short[i].dst}, global |-> FALSE])'
    BY <1>4, <1>9 DEF ShortOf
  <2>2. \A i \in LongIds' : i \in LongOf([addrs |-> {long[i].src}, global |-> FALSE])'
    BY <1>4, <1>10 DEF LongOf
  <2> QED BY <2>1, <2>2 DEF EdgesIndexed
<1>12. TrackedAreLatest'
  <2>1. NoIndex' = NoIndex /\ \A a \in Addrs : NoIndex[a] = {}
    BY DEF NoIndex
  <2>2. CASE tracked' = NoIndex
    BY <2>1, <2>2 DEF TrackedAreLatest
  <2>3. CASE tracked' = Track(e) /\ pending' = TRUE
    <3>1. ASSUME NEW a \in Addrs, NEW i \in Track(e)[a]
          PROVE  /\ i \notin DOMAIN shortScore
                 /\ \A j \in i .. n + m : j \in Track(e)[all[j].src] \cap Track(e)[all[j].dst]
      <4>1. CASE i \in new
        <5>1. i \notin DOMAIN shortScore
          BY <1>1, <1>3, <1>4, <4>1 DEF EdgeInv
        <5>2. \A j \in i .. n + m : j \in new /\ all[j].src \in Addrs /\ all[j].dst \in Addrs
          <6>1. i \in n + 1 .. n + m /\ n \in Nat /\ m \in Nat
            BY <1>3, <1>4, <4>1
          <6> HIDE DEF n, m
          <6>2. \A j \in i .. n + m : j \in n + 1 .. n + m /\ j \in 1 .. n + m
            BY <6>1
          <6> QED BY <1>3, <1>4, <6>2
        <5> QED BY <1>7, <5>1, <5>2
      <4>2. CASE i \notin new
        <5>1. i \in tracked[a] /\ i \in ShortIds
          BY <1>1, <1>7, <3>1, <4>2 DEF TrackInv
        <5>2. /\ i \notin DOMAIN shortScore
              /\ \A j \in i .. Len(short) : j \in tracked[short[j].src] \cap tracked[short[j].dst]
          BY <1>1, <5>1 DEF TrackedAreLatest
        <5>3. ASSUME NEW j \in i .. n + m
              PROVE  j \in Track(e)[all[j].src] \cap Track(e)[all[j].dst]
          <6>1. j \in ShortIds \cup new /\ all[j].src \in Addrs /\ all[j].dst \in Addrs
            BY <1>3, <1>4, <5>1
          <6>2. CASE j \in new
            BY <1>7, <6>1, <6>2
          <6>3. CASE j \in ShortIds
            <7>1. j \in tracked[short[j].src] \cap tracked[short[j].dst] /\ all[j] = short[j]
              BY <1>3, <5>1, <5>2, <6>3
            <7> QED BY <1>7, <6>1, <7>1
          <6> QED BY <6>1, <6>2, <6>3
        <5> QED BY <5>2, <5>3
      <4> QED BY <4>1, <4>2
    <3> QED BY <1>2, <1>3, <1>4, <2>3, <3>1 DEF TrackedAreLatest
  <2> QED BY <1>2, <2>2, <2>3
<1> QED BY <1>6, <1>8, <1>11, <1>12 DEF GrowInv

(* Steps that change neither edges, nor scores, nor what is tracked.         *)
LEMMA GrowKept ==
  ASSUME GrowInv, phase' = phase \/ (phase = "done" /\ phase' = "abort"),
         UNCHANGED <<edgeVars, indexVars, partVars, todo, scoreVars, pktScore, trackVars>>
  PROVE  GrowInv'
<1>1. CASE phase' = phase
  <2>1. UNCHANGED vars
    BY <1>1 DEF vars
  <2>2. phase \in Window => IndexInv' /\ ScoreInv' /\ OnlySelectedScored'
    BY <2>1, StepIndex, StepScores DEF GrowInv, EdgeInv
  <2>3. EdgeInv'
    BY <1>1, <2>2 DEF GrowInv, EdgeInv, edgeVars, scoreVars, ShortIds, LongIds
  <2> QED BY <1>1, <2>3 DEF GrowInv, TrackInv, EdgesIndexed, TrackedAreLatest, trackVars, edgeVars,
                           indexVars, scoreVars, ShortIds, LongIds, ShortOf, LongOf, NoIndex
<1>2. CASE phase = "done" /\ phase' = "abort"
  BY <1>2 DEF GrowInv, EdgeInv, Window, TrackInv, EdgesIndexed, TrackedAreLatest, trackVars, edgeVars,
              scoreVars, ShortIds, LongIds, NoIndex
<1> QED BY <1>1, <1>2

LEMMA StepGrow == GrowInv /\ [DynNext]_dynVars => GrowInv'
<1> SUFFICES ASSUME GrowInv, [DynNext]_dynVars PROVE GrowInv'
  OBVIOUS
<1>1. CASE ProcessWindow
  BY <1>1, WindowGrow
<1>2. ASSUME NEW kinds \in PacketKinds, AddPacket(kinds) PROVE GrowInv'
  <2> DEFINE items == queue \cup {Arriving(kinds)}
  <2>1. /\ phase = "done"
        /\ \/ UNCHANGED <<vars, trackVars>>
           \/ ProcessQueue(items)
    BY <1>2 DEF AddPacket, Arriving
  <2>2. CASE UNCHANGED <<vars, trackVars>>
    BY <2>2, GrowKept DEF vars
  <2>3. CASE ProcessQueue(items)
    <3>1. CASE Overshoots(min_packets_for_update, FlowThreads)
      BY <2>1, <2>3, <3>1, GrowKept DEF ProcessQueue
    <3>2. CASE ~Overshoots(min_packets_for_update, FlowThreads)
      BY <2>1, <2>3, <3>2, AppendGrow DEF ProcessQueue
    <3> QED BY <3>1, <3>2
  <2> QED BY <2>1, <2>2, <2>3
<1>3. CASE UNCHANGED dynVars
  BY <1>3, GrowKept DEF dynVars, vars
<1> QED BY <1>1, <1>2, <1>3 DEF DynNext, DynEnded

(* Each edge of the window and of every batch is found from its addresses    *)
(* (graph_define.hpp:268-316).                                               *)
THEOREM DynEdgesIndexed == DynSpec => []EdgesIndexed
<1>1. GrowInv => EdgesIndexed
  BY DEF GrowInv
<1> QED BY <1>1, InitGrow, StepGrow, PTL DEF DynSpec

(* What waits for an update is a whole end of the edge vector, under both    *)
(* addresses of each edge, and none of it has a score (lines 290-345).       *)
THEOREM LatestTracked == DynSpec => []TrackedAreLatest
<1>1. GrowInv => TrackedAreLatest
  BY DEF GrowInv
<1> QED BY <1>1, InitGrow, StepGrow, PTL DEF DynSpec

(* Type correctness, of the queue and of what updates do to the graph.       *)
THEOREM DynTypeCorrect == DynSpec => []DynTypeOK
<1>1. QueueInv /\ GrowInv => DynTypeOK
  <2> SUFFICES ASSUME QueueInv, GrowInv PROVE DynTypeOK
    OBVIOUS
  <2>1. queue \subseteq [arrival : 1 .. MaxPackets, priority : Nat]
    <3>1. clock \in 0 .. MaxPackets /\ Base \in Nat /\ MaxPackets \in Nat
      BY MaxPacketsAssumption, RestFacts DEF QueueInv
    <3>2. ASSUME NEW x \in queue PROVE x \in [arrival : 1 .. MaxPackets, priority : Nat]
      <4>1. x.arrival \in Base + 1 .. clock /\ x \in [arrival : Nat, priority : Nat]
        BY DEF QueueInv
      <4> QED BY <3>1, <4>1
    <3> QED BY <3>2
  <2>2. EdgeInv /\ TrackInv
    BY DEF GrowInv
  <2> QED BY <2>1, <2>2 DEF QueueInv, EdgeInv, TrackInv, Window, DynTypeOK
<1>2. QueueInv /\ OrderInv /\ GrowInv /\ [DynNext]_dynVars => QueueInv' /\ OrderInv' /\ GrowInv'
  BY StepQueue, StepGrow
<1> QED BY <1>1, <1>2, InitQueue, InitGrow, PTL DEF DynSpec

(* An update after which the program's state is still defined gave no short  *)
(* edge and no packet a score, whatever the batch, the clustering and the    *)
(* losses: one that would score a short edge writes beyond the vector, which *)
(* lacks the edges of the batch (lines 264-345).                             *)
THEOREM DefinedUpdatesScoreNoShort ==
  DynSpec => [][phase = "done" /\ phase' = "done"
                  => shortScore' = shortScore /\ pktScore' = pktScore]_dynVars
<1>1. GrowInv /\ [DynNext]_dynVars
        => [phase = "done" /\ phase' = "done"
              => shortScore' = shortScore /\ pktScore' = pktScore]_dynVars
  <2> SUFFICES ASSUME GrowInv, DynNext, phase = "done", phase' = "done"
               PROVE  shortScore' = shortScore /\ pktScore' = pktScore
    OBVIOUS
  <2>1. CASE ProcessWindow
    BY <2>1 DEF ProcessWindow, ParseEdge, FindComponents, Select, ProcComponent, FinalScore
  <2>2. ASSUME NEW kinds \in PacketKinds, AddPacket(kinds)
        PROVE  shortScore' = shortScore /\ pktScore' = pktScore
    <3> DEFINE items == queue \cup {Arriving(kinds)}
    <3>1. UNCHANGED vars \/ ProcessQueue(items)
      BY <2>2 DEF AddPacket, Arriving
    <3>2. CASE UNCHANGED vars
      BY <3>2 DEF vars, scoreVars
    <3>3. CASE ProcessQueue(items)
      <4>1. CASE Overshoots(min_packets_for_update, FlowThreads)
        BY <3>3, <4>1 DEF ProcessQueue, scoreVars
      <4>2. CASE ~Overshoots(min_packets_for_update, FlowThreads)
        BY <3>3, <4>2, UpdateFacts DEF ProcessQueue, GrowInv
      <4> QED BY <4>1, <4>2
    <3> QED BY <3>1, <3>2, <3>3
  <2>3. CASE UNCHANGED dynVars
    BY <2>3 DEF dynVars, vars, scoreVars
  <2> QED BY <2>1, <2>2, <2>3 DEF DynNext, DynEnded
<1> QED BY <1>1, InitGrow, StepGrow, PTL DEF DynSpec
================================================================================
