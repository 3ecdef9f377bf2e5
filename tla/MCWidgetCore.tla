---------------------------- MODULE MCWidgetCore ----------------------------
(* Instances of WidgetCore for TLC. *)
EXTENDS WidgetCore, TLC

(* Requests, replicas, names and descriptions are interchangeable; used by *)
(* the runs that check safety only.                                        *)
Symmetry ==
    Permutations(Requests) \cup Permutations(Replicas)
        \cup Permutations(Names) \cup Permutations(Descs)
=============================================================================
