------------------------------- MODULE FlowSpec --------------------------------
(***************************************************************************)
(* What construct_flow promises for packets in capture order: one result,  *)
(* a function of the packets and of the number of threads only, with no    *)
(* trace of the interleaving, of the hash tables' order or of the sort.    *)
(***************************************************************************)
EXTENDS Partition, Sequences

CONSTANTS Ids, Multiplex, FLOW_TIME_OUT, EVICT_FLOW_TIME_OUT

VARIABLES pkts, status, flows

vars == <<pkts, status, flows>>

N == Len(pkts)
At(i) == pkts[i + 1]
Good == {i \in 0 .. N - 1 : At(i).id \in Ids}
Chunk(i) == i \div PartSize(N, Multiplex)

(* The time of the last eviction check once packet i of the array P has been *)
(* scanned, the times of the packets before it given.                        *)
Opens(P, i) == i = From(Len(P), Multiplex, i \div PartSize(Len(P), Multiplex))
Before(times, P, i) == IF Opens(P, i) THEN P[i + 1].ts ELSE times[i - 1]
CheckTime(times, P, i) ==
  IF P[i + 1].id \in Ids /\ P[i + 1].ts - Before(times, P, i) > EVICT_FLOW_TIME_OUT
  THEN P[i + 1].ts
  ELSE Before(times, P, i)

LastChecks(P) == LET times[i \in 0 .. Len(P) - 1] == CheckTime(times, P, i) IN times
LastCheck == LastChecks(pkts)

(* A check ran at packet i (never at the first packet of a range). *)
Checked(i) == ~Opens(pkts, i) /\ LastCheck[i] # LastCheck[i - 1]

(* The flow of packet p does not continue with q, the next packet of its id. *)
Broken(p, q) ==
  IF Chunk(p) = Chunk(q)
  THEN \E r \in Good : p < r /\ r < q /\ Checked(r) /\ At(r).ts - At(p).ts > FLOW_TIME_OUT
  ELSE At(q).ts - At(p).ts >= FLOW_TIME_OUT

SameId(i) == {j \in Good : At(j).id = At(i).id}

FlowOf(i) ==
  {j \in SameId(i) : \A p, q \in SameId(i) :
     /\ p < q /\ ~\E r \in SameId(i) : p < r /\ r < q
     /\ (i <= p /\ q <= j) \/ (j <= p /\ q <= i)
     => ~Broken(p, q)}

Init == status = "running" /\ flows = {}

Complete ==
  /\ status = "running" /\ ~Overshoots(N, Multiplex)
  /\ status' = "done"
  /\ flows' = {FlowOf(i) : i \in Good}
  /\ UNCHANGED pkts

Terminate ==
  /\ status = "running" /\ Overshoots(N, Multiplex)
  /\ status' = "abort"
  /\ UNCHANGED <<pkts, flows>>

InOrder == \A i, j \in Good : i < j => At(i).ts <= At(j).ts

(* Of packets out of order nothing is promised: what sorts their flows may   *)
(* have undefined behaviour.                                                 *)
Lose ==
  /\ status = "running" /\ ~InOrder
  /\ status' = "undefined"
  /\ UNCHANGED <<pkts, flows>>

Next == Complete \/ Terminate \/ Lose

Spec == Init /\ [][Next]_vars
================================================================================
