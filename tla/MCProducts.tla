----------------------------- MODULE MCProducts -----------------------------
(* Instances of Products for TLC. *)
EXTENDS Products, TLC

(* Requests, callers and headers are interchangeable. *)
Symmetry == Permutations(Requests) \cup Permutations(Callers) \cup Permutations(Headers)
=============================================================================
