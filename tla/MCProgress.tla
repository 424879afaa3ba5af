----------------------------- MODULE MCProgress -----------------------------
(* Instances of Progress for TLC: at least one event of every kind that    *)
(* changes a row in its own way.                                           *)
EXTENDS Progress, TLC

CONSTANTS c1, r1, r2, v1, a1, d1

About(kind, step) == [kind |-> kind, step |-> step, steps |-> <<>>]
Proposes(kind, steps) == [kind |-> kind, step |-> 0, steps |-> steps]
Says(kind, claim, status, confidence, support) ==
    [kind |-> kind, claim |-> claim, status |-> status, confidence |-> confidence,
     support |-> support]
Concerns(kind, item, status) ==
    [kind |-> kind, item |-> item, status |-> status, sourced |-> TRUE]

PlanEvents ==
    { Proposes("PlanAccepted", <<"pending", "pending">>),
      Proposes("ReplanRequest", <<"completed", "running">>),
      About("StepStarted", 2), About("TaskCompleted", 0), About("TaskCompleted", 1),
      About("TaskCompleted", 3), About("TaskFailed", 0) }

ClaimEvents ==
    { Says("BeliefUpdated", c1, "verified", 9, {v1}),
      Says("BeliefUpdated", c1, "verified", 15, {v1}),
      Says("ConflictDetected", c1, "same", 0, {}),
      Says("VerificationWarningRaised", c1, "same", 0, {}),
      Says("VerificationResult", c1, "likely", 6, {}),
      Says("RiskAssessment", r1, "same", 5, {}),
      Says("RiskAssessment", r2, "same", 15, {}) }

ItemEvents ==
    { Concerns("EvidenceAccepted", v1, "unknown"),
      Concerns("ToolStarted", a1, "running"), Concerns("ToolFailed", a1, "failed"),
      Concerns("CommitmentCreated", d1, "pending"),
      Concerns("CommitmentUpdated", d1, "fulfilled") }

AllEvents == PlanEvents \union ClaimEvents \union ItemEvents \union {[kind |-> "ToolRetried"]}

Verdicts == {[status |-> "likely", confidence |-> 4], [status |-> "verified", confidence |-> 12]}

HandlerSymmetry == Permutations(Handlers)
=============================================================================
