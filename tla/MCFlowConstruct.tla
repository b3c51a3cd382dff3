---------------------------- MODULE MCFlowConstruct ----------------------------
(* Instances of FlowConstruct for TLC: every packet array of the given length. *)
EXTENDS FlowConstruct

CONSTANTS
  Lengths,    \* lengths of the packet arrays
  BadTimes    \* a bad packet's time: its capture time, or whatever the default is

AnyTrace == UNION {[1 .. n -> [id : Ids, ts : Times] \cup [id : {BadId}, ts : BadTimes]] : n \in Lengths}

InCaptureOrder(tr) ==
  \A i, j \in DOMAIN tr : i < j /\ tr[i].id # BadId /\ tr[j].id # BadId => tr[i].ts <= tr[j].ts

OrderedTraces == {tr \in AnyTrace : InCaptureOrder(tr)}

(* Captures too short for the threads, whose ranges are empty or start       *)
(* beyond them; of two flows and bad packets, two to a thread; longer, with  *)
(* three to a thread, so that a flow is evicted and comes back; and of one   *)
(* flow whose silences are just below, at and above the time-out.  One whose *)
(* times decrease, so that a flow of the second thread overlaps the first's. *)
FirstId == CHOOSE id \in Id4 : TRUE
CaptureTraces ==
  {tr \in OrderedTraces : Len(tr) # 5}
    \cup {tr \in OrderedTraces : Len(tr) = 5 /\ tr[1].ts \in {0, 1} /\ \A i \in DOMAIN tr : tr[i].ts \in {0, 1, 2, 5}}
    \cup {tr \in [1 .. 7 -> [id : Ids, ts : {1, 3, 5}]] :
            InCaptureOrder(tr) /\ tr[1].ts = 1 /\ tr[7].id = FirstId}
    \cup {tr \in [1 .. 6 -> [id : {FirstId}, ts : Times]] : InCaptureOrder(tr)}
    \cup {[i \in 1 .. 5 |-> [id |-> FirstId, ts |-> <<1, 4, 2, 5, 6>>[i]]]}
================================================================================
