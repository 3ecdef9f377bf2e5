------------------------------ MODULE MCUsers -------------------------------
(* Instances of Users for TLC. *)
EXTENDS Users, TLC

(* Requests, emails and names are interchangeable. *)
Symmetry == Permutations(Requests) \cup Permutations(Emails) \cup Permutations(Names)
=============================================================================
