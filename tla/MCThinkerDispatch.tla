-------------------------- MODULE MCThinkerDispatch --------------------------
(* Instances of ThinkerDispatch for TLC.  Handlers and thinkers are        *)
(* interchangeable; the liveness run does not use the symmetry.            *)
EXTENDS ThinkerDispatch, TLC

HandlerSymmetry == Permutations(Handlers) \union Permutations(Thinkers)

Update == {<<"completed", "progress_update">>}
Failure == {<<"failed", "task_failed">>}
Done == {<<"completed", "task_done">>}
=============================================================================
