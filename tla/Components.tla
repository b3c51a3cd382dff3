------------------------------- MODULE Components ------------------------------
(* Reference definitions for the component search on the interaction graph.   *)
EXTENDS Integers

(* No edge of E leaves or enters the vertex set P. *)
Closed(P, E) == \A e \in E : e[1] \in P <=> e[2] \in P

(* The weakly connected components: the smallest non-empty closed sets. *)
WeakComponents(V, E) ==
  {P \in SUBSET V : /\ P # {} /\ Closed(P, E)
                    /\ \A Q \in SUBSET P : Q # {} /\ Closed(Q, E) => Q = P}
================================================================================
