------------------------------- MODULE Partition -------------------------------
(***************************************************************************)
(* How the thread pools of the detector cut an array of n elements into    *)
(* the ranges of m workers.  Five loops of the source share the scheme     *)
(*                                                                         *)
(*   part_size = ceil(n / m);                                              *)
(*   for (core = 0, idx = 0; core < m; ++core, idx += part_size)           *)
(*       assign.push_back({idx, min(idx + part_size, n)});                 *)
(*                                                                         *)
(* in which idx is NOT clamped, so that the last ranges may start beyond   *)
(* n.  The dataset importer uses the variant that clamps idx as well.      *)
(***************************************************************************)
EXTENDS Integers

Least(a, b) == IF a <= b THEN a ELSE b

(* A bug variant, used only to show that a property can fail. *)
PartSizeRoundedDown(n, m) == n \div m

(* ceil((double) n / (double) m) *)
PartSize(n, m) == (n + m - 1) \div m

(* _assign[k].first and _assign[k].second of the unclamped scheme. *)
From(n, m, k) == k * PartSize(n, m)
To(n, m, k) == Least(From(n, m, k) + PartSize(n, m), n)

(* The indices worker k visits: empty when From >= To. *)
Slice(n, m, k) == From(n, m, k) .. To(n, m, k) - 1

(* Some worker is handed a range that starts strictly beyond the array. *)
Overshoots(n, m) == \E k \in 0 .. m - 1 : From(n, m, k) > n

(* _assign[k] of basic_dataset::import_dataset, whose idx is clamped. *)
ClampedFrom(n, m, k) == Least(k * PartSize(n, m), n)
ClampedTo(n, m, k) == Least(ClampedFrom(n, m, k) + PartSize(n, m), n)
ClampedSlice(n, m, k) == ClampedFrom(n, m, k) .. ClampedTo(n, m, k) - 1
================================================================================
