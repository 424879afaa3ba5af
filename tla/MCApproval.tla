----------------------------- MODULE MCApproval -----------------------------
(* Instances of Approval for TLC.  Handlers are interchangeable.           *)
EXTENDS Approval, SequencesExt, TLC

HandlerSymmetry == Permutations(Handlers)

(* The status that events give an approval is what reducing them one after *)
(* the other gives: for every list of events that is not too long.         *)
ASSUME DerivedReduces ==
    \A n \in 0..3 : \A events \in [1..n -> Events], a \in Approvals :
        Derived(events, a) =
            FoldLeft(LAMBDA status, event : Reduced(status, event.kind), "absent",
                     SelectSeq(events, LAMBDA event : event.approval = a))
=============================================================================
