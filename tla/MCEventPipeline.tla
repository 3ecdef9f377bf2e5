-------------------------- MODULE MCEventPipeline ---------------------------
(* Instances of EventPipeline for TLC. *)
EXTENDS EventPipeline, TLC

(* Consumers and events are interchangeable; used by the runs that check safety only. *)
Symmetry == Permutations(Consumers) \cup Permutations(Events)
=============================================================================
