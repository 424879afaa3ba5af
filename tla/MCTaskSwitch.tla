---------------------------- MODULE MCTaskSwitch ----------------------------
(* Instances of TaskSwitch for TLC.  Handlers are interchangeable.         *)
EXTENDS TaskSwitch, TLC

HandlerSymmetry == Permutations(Handlers)
=============================================================================
