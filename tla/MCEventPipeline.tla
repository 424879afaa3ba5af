-------------------------- MODULE MCEventPipeline --------------------------
(* Instances of EventPipeline for TLC: requests are interchangeable, and   *)
(* so are goals.                                                           *)
EXTENDS EventPipeline, TLC

RequestSymmetry == Permutations(Requests) \union Permutations(Goals)
GoalSymmetry == Permutations(Goals)

(* Instead of the symmetry of many requests: numbered ones, that come in   *)
(* the order of their numbers.                                             *)
InOrder == \A q, r \in Requests : q < r /\ At(q, "idle") => At(r, "idle")
=============================================================================
