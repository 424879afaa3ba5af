-------------------------- MODULE Progress_proofs ---------------------------
(* Proofs about Progress for any number of handlers, claims, items, calls  *)
(* and crashes, any events and any answers of the model.                   *)
EXTENDS Progress, SequenceTheorems, FiniteSetTheorems, TLAPS

-----------------------------------------------------------------------------
(* Plans.                                                                  *)

Plans == {p \in PlanRow : Fits(p)}

(* There is a first element of positions that are not empty.               *)
LEMMA FirstOf ==
    ASSUME NEW n \in Nat, NEW S \in SUBSET (1..n), S # {}
    PROVE  First(S) \in S
<1> DEFINE R == StrictSubsetOrdering(1..n)
           T == {1..i : i \in S}
<1>1. IsWellFoundedOn(R, FiniteSubsetsOf(1..n))
  BY FS_StrictSubsetOrderingWellFounded
<1>2. T \subseteq SUBSET (1..n) /\ T # {}
  <2>1. PICK i \in S : TRUE
    OBVIOUS
  <2>2. 1..i \in T
    BY <2>1
  <2>3. \A j \in S : 1..j \subseteq 1..n
    OBVIOUS
  <2>4. QED
    BY <2>2, <2>3
<1>3. IsFiniteSet(1..n)
  BY FS_Interval
<1>4. FiniteSubsetsOf(1..n) = SUBSET (1..n)
  BY <1>3, FS_FiniteSubsetsOfFinite
<1>5. \E X \in T : \A Y \in T : ~(<<Y, X>> \in R)
  <2> HIDE DEF R, T
  <2>1. QED
    BY <1>1, <1>2, <1>4, WFMin
<1>6. PICK m \in S : \A i \in S : ~(<<1..i, 1..m>> \in R)
  BY <1>5
<1>7. ASSUME NEW i \in S, i < m PROVE FALSE
  <2>1. 1..i \subseteq 1..m /\ m \notin 1..i /\ m \in 1..m
    BY <1>7
  <2>2. <<1..i, 1..m>> \in R
    BY <2>1 DEF StrictSubsetOrdering
  <2>3. QED
    BY <1>6, <2>2
<1>8. m \in S /\ \A i \in S : m <= i
  BY <1>7
<1>9. QED
  BY <1>8 DEF First

(* A step of a plan changes its status.                                    *)
LEMMA StepChanged ==
    ASSUME NEW steps \in Seq(StepStatus), NEW i \in DOMAIN steps, NEW status \in StepStatus
    PROVE  /\ [steps EXCEPT ![i] = status] \in Seq(StepStatus)
           /\ DOMAIN [steps EXCEPT ![i] = status] = DOMAIN steps
           /\ i \in Nat \ {0}
           /\ \A j \in DOMAIN steps :
                [steps EXCEPT ![i] = status][j] = IF j = i THEN status ELSE steps[j]
BY ExceptSeq

(* No plan fits, and so does every plan that is not completed or blocked   *)
(* and whose current step is one of its own.                               *)
LEMMA NoPlanFits == NoPlan \in Plans
<1>1. NoPlan \in PlanRow
  BY DEF NoPlan, PlanRow
<1>2. Fits(NoPlan)
  BY DEF Fits, NoPlan
<1>3. QED
  BY <1>1, <1>2 DEF Plans

LEMMA NewPlanFits ==
    ASSUME NEW steps \in Seq(StepStatus)
    PROVE  NewPlan(steps) \in Plans
<1>1. CASE steps = <<>>
  BY <1>1 DEF NewPlan, Plans, PlanRow, Fits
<1>2. CASE steps # <<>>
  <2>1. 1 \in DOMAIN steps
    BY <1>2
  <2> DEFINE changed == [steps EXCEPT ![1] = "running"]
             new == IF \A i \in DOMAIN steps : steps[i] # "running" THEN changed ELSE steps
  <2>2. changed \in Seq(StepStatus) /\ DOMAIN changed = DOMAIN steps
    BY <2>1, StepChanged DEF StepStatus
  <2>3. new \in Seq(StepStatus) /\ 1 \in DOMAIN new
    BY <2>1, <2>2
  <2>4. NewPlan(steps) = [status |-> "active", steps |-> new, current |-> 1]
    BY <1>2 DEF NewPlan
  <2> HIDE DEF new
  <2>5. QED
    BY <2>3, <2>4 DEF Plans, PlanRow, Fits
<1>3. QED
  BY <1>1, <1>2

LEMMA StartStepFits ==
    ASSUME NEW p \in PlanRow, NEW i \in DOMAIN p.steps
    PROVE  StartStep(p, i) \in Plans
<1>1. PICK steps \in Seq(StepStatus) :
        steps = [p.steps EXCEPT ![i] = "running"] /\ i \in DOMAIN steps /\ i \in Nat
  <2>1. p.steps \in Seq(StepStatus) /\ "running" \in StepStatus
    BY DEF PlanRow, StepStatus
  <2>2. QED
    BY <2>1, StepChanged
<1>2. StartStep(p, i) = [p EXCEPT !.steps = steps, !.status = "active", !.current = i]
  BY <1>1 DEF StartStep
<1>3. QED
  BY <1>1, <1>2 DEF Plans, PlanRow, Fits

LEMMA FailStepFits ==
    ASSUME NEW p \in PlanRow, NEW i \in DOMAIN p.steps
    PROVE  FailStep(p, i) \in Plans
<1>1. PICK steps \in Seq(StepStatus) :
        /\ steps = [p.steps EXCEPT ![i] = "failed"] /\ i \in DOMAIN steps
        /\ i \in Nat \ {0} /\ steps[i] = "failed"
  BY StepChanged DEF PlanRow, StepStatus
<1>2. FailStep(p, i) = [p EXCEPT !.steps = steps, !.status = "blocked", !.current = i]
  BY <1>1 DEF FailStep
<1>3. QED
  BY <1>1, <1>2 DEF Plans, PlanRow, Fits

(* Completing a step completes the plan only when no step is pending.      *)
LEMMA CompleteStepFits ==
    ASSUME NEW p \in PlanRow, NEW i \in DOMAIN p.steps
    PROVE  CompleteStep(p, i) \in Plans
<1>1. PICK steps \in Seq(StepStatus) : steps = [p.steps EXCEPT ![i] = "completed"]
  BY StepChanged DEF PlanRow, StepStatus
<1> DEFINE q == [p EXCEPT !.steps = steps]
           done == [q EXCEPT !.status = "completed", !.current = 0]
<1>2. q \in PlanRow /\ q.steps = steps
  BY DEF PlanRow
<1>3. CompleteStep(p, i) = IF Having(q, "pending") = {} THEN done
                           ELSE StartStep(q, First(Having(q, "pending")))
  BY <1>1 DEF CompleteStep
<1>4. CASE Having(q, "pending") = {}
  <2>1. done \in PlanRow
    BY <1>2 DEF PlanRow
  <2>2. Fits(done)
    BY <1>2, <1>4 DEF PlanRow, Fits, Having
  <2>3. QED
    BY <1>3, <1>4, <2>1, <2>2 DEF Plans
<1>5. CASE Having(q, "pending") # {}
  <2>1. Having(q, "pending") \subseteq 1..Len(steps) /\ Len(steps) \in Nat
    BY <1>2 DEF Having
  <2>2. First(Having(q, "pending")) \in DOMAIN q.steps
    BY <1>2, <1>5, <2>1, FirstOf DEF Having
  <2> HIDE DEF q
  <2>3. QED
    BY <1>2, <1>3, <1>5, <2>2, StartStepFits
<1>6. QED
  BY <1>4, <1>5

(* A completion or failure is about a step of the plan, or about none.     *)
LEMMA TerminalStepOf ==
    ASSUME NEW p \in Plans, NEW step \in Nat, TerminalStep(p, step) # 0
    PROVE  TerminalStep(p, step) \in DOMAIN p.steps
<1>1. CASE step \in DOMAIN p.steps
  BY <1>1 DEF TerminalStep, Plans, PlanRow
<1>2. CASE step \notin DOMAIN p.steps /\ step = 0 /\ p.current # 0
  BY <1>2 DEF TerminalStep, Plans, Fits
<1>3. CASE step \notin DOMAIN p.steps /\ step = 0 /\ p.current = 0 /\ Having(p, "running") # {}
  <2>1. Having(p, "running") \subseteq 1..Len(p.steps) /\ Len(p.steps) \in Nat
    BY DEF Having, Plans, PlanRow
  <2>2. First(Having(p, "running")) \in Having(p, "running")
    BY <1>3, <2>1, FirstOf
  <2>3. TerminalStep(p, step) = First(Having(p, "running"))
    BY <1>3 DEF TerminalStep
  <2>4. QED
    BY <2>2, <2>3 DEF Having
<1>4. QED
  BY <1>1, <1>2, <1>3 DEF TerminalStep

LEMMA ReducedPlanFits ==
    ASSUME NEW p \in Plans, NEW e \in PlanEvent
    PROVE  ReducePlan(p, e) \in Plans
<1> DEFINE step == TerminalStep(p, e.step)
<1>1. p \in PlanRow /\ e.step \in Nat /\ e.steps \in Seq(StepStatus)
  BY DEF Plans, PlanEvent
<1>2. NewPlan(e.steps) \in Plans
  BY <1>1, NewPlanFits
<1>3. e.step \in DOMAIN p.steps => StartStep(p, e.step) \in Plans
  BY <1>1, StartStepFits
<1>4. step # 0 => CompleteStep(p, step) \in Plans /\ FailStep(p, step) \in Plans
  BY <1>1, TerminalStepOf, CompleteStepFits, FailStepFits
<1>5. CASE e.kind \in {"PlanAccepted", "ReplanRequest"}
  BY <1>2, <1>5 DEF ReducePlan
<1>6. CASE e.kind = "StepStarted"
  BY <1>3, <1>6 DEF ReducePlan
<1>7. CASE e.kind = "TaskCompleted"
  BY <1>4, <1>7 DEF ReducePlan
<1>8. CASE e.kind = "TaskFailed"
  BY <1>4, <1>8 DEF ReducePlan
<1>9. QED
  BY <1>5, <1>6, <1>7, <1>8 DEF PlanEvent, PlanKinds

-----------------------------------------------------------------------------
(* Events and rows.                                                        *)

(* The kinds of events are apart.                                          *)
LEMMA EventParts ==
    ASSUME NEW e \in Event
    PROVE  /\ e.kind \in PlanKinds <=> e \in PlanEvent
           /\ e.kind \in ClaimKinds <=> e \in ClaimEvent
           /\ e.kind \in ActionKinds \union TodoKinds \union {"EvidenceAccepted"} <=> e \in ItemEvent
           /\ e.kind \in IdleKinds <=> e \in IdleEvent
           /\ e.kind \in PlanKinds \union ClaimKinds \union ActionKinds \union TodoKinds
                         \union {"EvidenceAccepted"} \union IdleKinds
BY DEF Event, PlanEvent, ClaimEvent, ItemEvent, IdleEvent,
       PlanKinds, ClaimKinds, ActionKinds, TodoKinds, IdleKinds

(* What is known of an event that was submitted, and still is when the     *)
(* judges have seen it.                                                    *)
EventFits(e) ==
    /\ e \in Event
    /\ e.kind = "RiskAssessment" => e.claim \in Risks
    /\ e.kind = "BeliefUpdated" => e.status \in ClaimStatus

LEMMA SubmittedFits ==
    ASSUME NEW e \in Events
    PROVE  EventFits(e)
<1>1. e \in Event /\ (e.kind = "RiskAssessment" => e.claim \in Risks)
      /\ (e.kind = "BeliefUpdated" => e.status # "same")
  BY EventAssumption
<1>2. e.kind = "BeliefUpdated" => e \in ClaimEvent
  BY <1>1, EventParts DEF ClaimKinds
<1>3. QED
  BY <1>1, <1>2 DEF EventFits, ClaimEvent

LEMMA JudgedFits ==
    ASSUME NEW e, EventFits(e), e.kind \in JudgedKinds, NEW j \in Judged(e)
    PROVE  EventFits(j)
<1>1. CASE e.kind = "EvidenceAccepted"
  <2>1. e \in ItemEvent
    BY <1>1, EventParts DEF EventFits
  <2>2. PICK s \in ItemStatus : j = [e EXCEPT !.status = s]
    BY <1>1, <2>1 DEF Judged, JudgedEvidence, ItemEvent, ItemStatus, Reliabilities
  <2>3. j \in ItemEvent /\ j.kind = "EvidenceAccepted"
    BY <1>1, <2>1, <2>2 DEF ItemEvent
  <2>4. QED
    BY <2>3 DEF EventFits, Event
<1>2. CASE e.kind = "BeliefUpdated"
  <2>1. e \in ClaimEvent /\ e.status \in ClaimStatus
    BY <1>2, EventParts DEF EventFits, ClaimKinds
  <2>2. e.confidence \in Int
    BY <2>1 DEF ClaimEvent
  <2>3. \A v \in Reviews : v.status \in ClaimStatus /\ v.confidence \in Int
    BY ReviewAssumption
  <2> DEFINE AtMost(n) == IF e.confidence < n THEN e.confidence ELSE n
             Near(n) == n - e.confidence \in {-1, 0, 1}
             Corrected(v) == IF Near(v.confidence) THEN e.confidence ELSE v.confidence
             Reviewed(v) == [e EXCEPT !.status = v.status, !.confidence = Corrected(v)]
  <2>4. AtMost(4) \in Int /\ AtMost(6) \in Int /\ \A v \in Reviews : Corrected(v) \in Int
    BY <2>2, <2>3
  <2>5. \/ j = e
        \/ j = [e EXCEPT !.status = "unverified", !.confidence = 3]
        \/ j = [e EXCEPT !.confidence = AtMost(4)]
        \/ j = [e EXCEPT !.status = "conflicting", !.confidence = AtMost(6)]
        \/ \E v \in Reviews : j = Reviewed(v)
    <3>1. j \in JudgedBelief(e)
      BY <1>2 DEF Judged
    <3>2. CASE e.support = {}
      BY <3>1, <3>2 DEF JudgedBelief
    <3>3. CASE e.support # {} /\ \A x \in e.support : items[x] = "absent"
      BY <3>1, <3>3 DEF JudgedBelief
    <3>4. CASE e.support # {} /\ ~\A x \in e.support : items[x] = "absent"
      BY <3>1, <3>4 DEF JudgedBelief
    <3>5. QED
      BY <3>2, <3>3, <3>4
  <2> HIDE DEF AtMost, Corrected
  <2>6. j \in ClaimEvent /\ j.kind = "BeliefUpdated" /\ j.status \in ClaimStatus
    <3> DEFINE Claimed(x) == x \in ClaimEvent /\ x.kind = "BeliefUpdated" /\ x.status \in ClaimStatus
    <3>1. Claimed(e)
      BY <1>2, <2>1
    <3>2. \A s \in ClaimStatus, n \in Int :
            Claimed([e EXCEPT !.status = s, !.confidence = n]) /\ Claimed([e EXCEPT !.confidence = n])
      BY <1>2, <2>1 DEF ClaimEvent
    <3>3. "unverified" \in ClaimStatus /\ "conflicting" \in ClaimStatus
      BY DEF ClaimStatus
    <3> HIDE DEF Claimed
    <3>4. Claimed(j)
      <4>1. CASE \E v \in Reviews : j = Reviewed(v)
        <5>1. PICK v \in Reviews : j = Reviewed(v)
          BY <4>1
        <5>2. v.status \in ClaimStatus /\ Corrected(v) \in Int
          BY <2>3, <2>4
        <5>3. QED
          BY <3>2, <5>1, <5>2
      <4>2. CASE j = [e EXCEPT !.status = "unverified", !.confidence = 3]
        <5>1. Claimed([e EXCEPT !.status = "unverified", !.confidence = 3])
          <6>1. PICK s \in ClaimStatus : s = "unverified"
            BY <3>3
          <6>2. PICK n \in Int : n = 3
            OBVIOUS
          <6>3. Claimed([e EXCEPT !.status = s, !.confidence = n])
            BY <3>2
          <6>4. QED
            BY <6>1, <6>2, <6>3
        <5>2. QED
          BY <4>2, <5>1
      <4>3. CASE j = [e EXCEPT !.confidence = AtMost(4)]
        BY <2>4, <3>2, <3>3, <4>3
      <4>4. CASE j = [e EXCEPT !.status = "conflicting", !.confidence = AtMost(6)]
        BY <2>4, <3>2, <3>3, <4>4
      <4>5. QED
        BY <2>5, <3>1, <4>1, <4>2, <4>3, <4>4
    <3>5. QED
      BY <3>4 DEF Claimed
  <2>7. QED
    BY <2>6 DEF EventFits, Event
<1>3. QED
  BY <1>1, <1>2 DEF JudgedKinds

(* A write of a claim: the row has the type of its claim.                  *)
WriteFits(w) == w \in Write /\ RowFits(w.claim, w.row)
WritesFit(writes) == writes \in Seq(Write) /\ \A i \in DOMAIN writes : RowFits(writes[i].claim, writes[i].row)

LEMMA CheckedFits ==
    ASSUME NEW row \in ClaimRow, row.status # "absent" \/ row.confidence \in Certain, NEW c \in Claims
    PROVE  RowFits(c, Checked(row))
BY DEF RowFits, Checked, ClaimRow, ClaimStatus, Certain

LEMMA OneWriteFits ==
    ASSUME NEW c \in Claims, NEW row, RowFits(c, row)
    PROVE  WritesFit(<<[claim |-> c, row |-> row]>>)
<1>1. [claim |-> c, row |-> row] \in Write
  BY DEF RowFits, Write
<1>2. QED
  BY <1>1 DEF WritesFit

LEMMA TwoWritesFit ==
    ASSUME NEW c \in Claims, NEW row, RowFits(c, row), NEW d \in Claims, NEW other, RowFits(d, other)
    PROVE  WritesFit(<<[claim |-> c, row |-> row], [claim |-> d, row |-> other]>>)
<1>1. [claim |-> c, row |-> row] \in Write /\ [claim |-> d, row |-> other] \in Write
  BY DEF RowFits, Write
<1>2. QED
  BY <1>1 DEF WritesFit

(* The rows an event of a claim saves fit.                                 *)
LEMMA ClaimWritesFit ==
    ASSUME TypeOK, NEW e, EventFits(e), e.kind \in ClaimKinds, NEW writes \in ClaimWrites(e)
    PROVE  WritesFit(writes)
<1>1. e \in ClaimEvent /\ e.claim \in Claims /\ e.confidence \in Int
  BY EventParts DEF EventFits, ClaimEvent
<1>2. claims \in [Claims -> ClaimRow]
  BY DEF TypeOK
<1>3. CASE e.kind = "RiskAssessment"
  <2> DEFINE new == [status |-> "unverified", confidence |-> e.confidence]
             earlier == {r \in Risks \union {e.claim} : Known(r)}
  <2>1. new \in ClaimRow /\ new.status # "absent"
    BY <1>1 DEF ClaimRow, ClaimStatus
  <2>2. RowFits(e.claim, new) /\ RowFits(e.claim, Checked(new))
    BY <1>1, <1>3, <2>1, CheckedFits DEF RowFits, EventFits
  <2>3. \A r \in earlier : r \in Claims /\ RowFits(r, Checked(claims[r]))
    BY <1>1, <1>2, RiskAssumption, CheckedFits DEF Known
  <2>4. \/ writes = <<[claim |-> e.claim, row |-> Checked(new)], [claim |-> e.claim, row |-> Checked(new)]>>
        \/ \E r \in earlier : writes = <<[claim |-> r, row |-> Checked(claims[r])],
                                       [claim |-> e.claim, row |-> new]>>
    BY <1>3 DEF ClaimWrites, RiskWrites
  <2> HIDE DEF new, earlier
  <2>5. QED
    BY <1>1, <2>2, <2>3, <2>4, TwoWritesFit
<1>4. CASE e.kind = "BeliefUpdated"
  <2> DEFINE row == [status |-> e.status, confidence |-> e.confidence]
  <2>1. row \in ClaimRow /\ row.status # "absent"
    BY <1>1, <1>4 DEF ClaimRow, ClaimStatus, EventFits
  <2>2. writes = <<[claim |-> e.claim, row |-> Checked(row)]>>
    BY <1>4 DEF ClaimWrites
  <2> HIDE DEF row
  <2>3. QED
    BY <1>1, <2>1, <2>2, CheckedFits, OneWriteFits
<1>5. CASE e.kind \notin {"RiskAssessment", "BeliefUpdated"} /\ Known(e.claim)
  <2> DEFINE row == ReduceClaim(claims[e.claim], e)
  <2>1. claims[e.claim] \in ClaimRow /\ claims[e.claim].status # "absent"
    BY <1>1, <1>2, <1>5 DEF Known
  <2>2. row \in ClaimRow /\ row.status # "absent"
    BY <1>1, <2>1 DEF ReduceClaim, ClaimRow, ClaimStatus, ClaimEvent
  <2>3. writes = <<[claim |-> e.claim, row |-> Checked(row)]>>
    BY <1>5 DEF ClaimWrites
  <2> HIDE DEF row
  <2>4. QED
    BY <1>1, <2>2, <2>3, CheckedFits, OneWriteFits
<1>6. CASE e.kind \notin {"RiskAssessment", "BeliefUpdated"} /\ ~Known(e.claim)
  <2>1. writes = <<>>
    BY <1>6 DEF ClaimWrites
  <2>2. QED
    BY <2>1 DEF WritesFit
<1>7. QED
  BY <1>3, <1>4, <1>5, <1>6

(* The row an event of an item saves has its type.                         *)
LEMMA ItemWritesFit ==
    ASSUME TypeOK, NEW e \in ItemEvent, NEW w \in ItemWrites(e)
    PROVE  w.item \in Items /\ w.status \in ItemStatus
<1>1. e.item \in Items /\ e.status \in ItemStatus
      /\ e.kind \in ActionKinds \union TodoKinds \union {"EvidenceAccepted"}
  BY DEF ItemEvent
<1>2. items \in [Items -> ItemStatus \union {"absent"}]
  BY DEF TypeOK
<1>3. CASE items[e.item] # "absent" \/ e.kind \notin {"ToolCompleted", "ToolFailed", "CommitmentUpdated"}
  <2>1. w = [item |-> e.item, status |-> ReduceItem(items[e.item], e)]
    BY <1>3 DEF ItemWrites
  <2>2. ReduceItem(items[e.item], e) \in ItemStatus
    BY <1>1, <1>2 DEF ReduceItem, ActionKinds, TodoKinds, ItemStatus, ActionStatus, TodoStatus
  <2>3. QED
    BY <1>1, <2>1, <2>2
<1>4. CASE ~(items[e.item] # "absent" \/ e.kind \notin {"ToolCompleted", "ToolFailed", "CommitmentUpdated"})
  <2>1. \E a \in Actions : items[a] # "absent" /\ w = [item |-> a, status |-> items[a]]
    BY <1>4 DEF ItemWrites
  <2>2. QED
    BY <1>2, <2>1 DEF Items
<1>5. QED
  BY <1>3, <1>4

(* Whatever plan and claims: the progress made of them has its type.       *)
LEMMA SynthesizedType ==
    ASSUME NEW p \in PlanRow, NEW rowOf
    PROVE  Synthesized(p, rowOf) \in ProgressRow
<1> DEFINE r == Synthesized(p, rowOf)
<1>1. Safe(rowOf, p # NoPlan) \subseteq Claims /\ Unsafe(rowOf, p # NoPlan) \subseteq Claims
  BY DEF Safe, Unsafe, Verified, Holding, AtLeast
<1> DEFINE status == CASE p.status = "active" -> "running"
                       [] p.status = "none" -> (IF \E c \in Claims : rowOf[c] # NoClaim
                                                THEN "running" ELSE "idle")
                       [] OTHER -> p.status
           needs == IF p # NoPlan
                    THEN Unsafe(rowOf, p # NoPlan) # {} /\ Safe(rowOf, p # NoPlan) = {}
                    ELSE (\E c \in Claims : rowOf[c] # NoClaim) /\ Verified(rowOf) = {}
           barred == p # NoPlan /\ Verified(rowOf) = {}
           claimable == p.status = "completed"
<1>2. status \in {"none", "idle", "running", "blocked", "completed"}
  BY DEF PlanRow
<1>3. needs \in BOOLEAN /\ barred \in BOOLEAN /\ claimable \in BOOLEAN
  OBVIOUS
<1>4. r = [status |-> status, safe |-> Safe(rowOf, p # NoPlan), unsafe |-> Unsafe(rowOf, p # NoPlan),
           needsInput |-> needs, claimable |-> claimable, barred |-> barred]
  BY DEF Synthesized
<1> HIDE DEF status, needs, barred, claimable, r
<1>5. QED
  BY <1>1, <1>2, <1>3, <1>4 DEF ProgressRow, r

-----------------------------------------------------------------------------
(* The invariant: types, plans that fit, and what the handlers hold.       *)

(* A handler holds plans that fit, an event that fits and writes that fit. *)
CallFits(c) ==
    /\ Fits(c.plan) /\ Fits(c.restored)
    /\ EventFits(c.event)
    /\ WritesFit(c.writes)
    /\ c.pc = "saveClaim" => c.writes # <<>>
    /\ c.pc = "judge" => c.event.kind \in JudgedKinds

(* The rows have their types, and the plans among them fit.                *)
RowsFit ==
    /\ plan \in PlanRow /\ shelf \in PlanRow /\ Fits(plan) /\ Fits(shelf)
    /\ claims \in [Claims -> ClaimRow]
    /\ \A c \in Claims : RowFits(c, claims[c])
    /\ items \in [Items -> ItemStatus \union {"absent"}]
    /\ progress \in ProgressRow

CountsFit == calls \in 0..MaxCalls /\ crashes \in 0..MaxCrashes /\ behind \in BOOLEAN

IInv ==
    /\ RowsFit
    /\ CountsFit
    /\ call \in [Handlers -> Call] /\ \A h \in Handlers : CallFits(call[h])

(* The invariant implies the types that the runs check.                    *)
LEMMA IInvTypes == IInv => TypeOK
BY DEF IInv, RowsFit, CountsFit, TypeOK, CallFits, WritesFit

LEMMA BlankFits == Blank \in Call /\ CallFits(Blank)
<1>1. NoPlan \in PlanRow /\ Fits(NoPlan)
  BY NoPlanFits DEF Plans
<1>2. [kind |-> "CompletionCheck"] \in Event /\ EventFits([kind |-> "CompletionCheck"])
  BY DEF Event, IdleEvent, IdleKinds, EventFits
<1>3. NoProgress \in ProgressRow
  BY DEF NoProgress, ProgressRow
<1>4. <<>> \in Seq(Write) /\ WritesFit(<<>>)
  BY DEF WritesFit
<1>5. "pending" \in ItemStatus /\ "done" \in Messages /\ "idle" \in PCs
  BY DEF ItemStatus, TodoStatus, Messages, PCs
<1>6. QED
  BY <1>1, <1>2, <1>3, <1>4, <1>5 DEF Blank, Call, CallFits

(* A handler that goes on with what fits leaves all handlers fit.          *)
LEMMA Continues ==
    ASSUME IInv, NEW h \in Handlers, NEW c \in Call, CallFits(c), Goes(h, c)
    PROVE  call' \in [Handlers -> Call] /\ \A g \in Handlers : CallFits(call'[g])
BY DEF IInv, Goes

(* A step that keeps the rows keeps them fit.                              *)
LEMMA RowsStay ==
    ASSUME RowsFit, UNCHANGED rows
    PROVE  RowsFit'
BY DEF RowsFit, rows

LEMMA LooksOnly ==
    ASSUME IInv, NEW h \in Handlers, NEW c \in Call, CallFits(c), Goes(h, c),
           UNCHANGED <<rows, calls, crashes, behind>>
    PROVE  IInv'
<1>1. call' \in [Handlers -> Call] /\ \A g \in Handlers : CallFits(call'[g])
  BY Continues
<1>2. RowsFit'
  BY RowsStay DEF IInv
<1>3. CountsFit'
  BY DEF IInv, CountsFit
<1>4. QED
  BY <1>1, <1>2, <1>3 DEF IInv

(* A step that starts a call leaves the others as they are, but not alone. *)
LEMMA Begins ==
    ASSUME IInv, NEW h \in Handlers, NEW c \in Call, CallFits(c), Starts(h, c),
           UNCHANGED <<rows, crashes>>
    PROVE  IInv'
<1>1. ASSUME NEW d \in Call, CallFits(d)
      PROVE  [d EXCEPT !.alone = FALSE] \in Call /\ CallFits([d EXCEPT !.alone = FALSE])
  BY <1>1 DEF Call, CallFits
<1>2. call' = [g \in Handlers |-> IF g = h THEN c ELSE [call[g] EXCEPT !.alone = FALSE]]
  BY DEF Starts
<1>3. \A g \in Handlers : call[g] \in Call /\ CallFits(call[g])
  BY DEF IInv
<1>4. call' \in [Handlers -> Call] /\ \A g \in Handlers : CallFits(call'[g])
  <2>1. \A g \in Handlers : call'[g] \in Call /\ CallFits(call'[g])
    BY <1>1, <1>2, <1>3
  <2>2. QED
    BY <1>2, <2>1
<1>5. RowsFit'
  BY RowsStay DEF IInv
<1>6. CountsFit'
  BY BoundAssumption DEF IInv, CountsFit, Starts, AtRest, At
<1>7. QED
  BY <1>4, <1>5, <1>6 DEF IInv

(* What is known of the call of a handler.                                 *)
LEMMA Holds ==
    ASSUME IInv, NEW h \in Handlers
    PROVE  /\ call[h] \in Call /\ CallFits(call[h])
           /\ call[h].event \in Event /\ EventFits(call[h].event)
           /\ call[h].plan \in PlanRow /\ Fits(call[h].plan)
           /\ call[h].restored \in PlanRow /\ Fits(call[h].restored)
           /\ call[h].progress \in ProgressRow
           /\ call[h].item \in Items \union {"none"} /\ call[h].itemStatus \in ItemStatus
           /\ call[h].writes \in Seq(Write) /\ WritesFit(call[h].writes)
           /\ call[h].message \in Messages
BY DEF IInv, CallFits, Call

-----------------------------------------------------------------------------
(* Steps that begin a call.                                                *)

LEMMA SubmitStep ==
    ASSUME IInv, NEW h \in Handlers, Submit(h)
    PROVE  IInv'
<1>1. PICK e \in Events :
        Starts(h, [Blank EXCEPT !.pc = IF e.kind \in JudgedKinds THEN "judge" ELSE "read",
                                !.event = e])
  BY DEF Submit
<1> DEFINE c == [Blank EXCEPT !.pc = IF e.kind \in JudgedKinds THEN "judge" ELSE "read",
                              !.event = e]
<1>2. e \in Event /\ EventFits(e)
  BY SubmittedFits DEF EventFits
<1>3. c \in Call /\ CallFits(c)
  BY <1>2, BlankFits DEF Call, CallFits, PCs
<1>4. Starts(h, c)
  BY <1>1
<1> HIDE DEF c
<1>5. QED
  BY <1>3, <1>4, Begins DEF Submit

LEMMA SummarizeStep ==
    ASSUME IInv, NEW h \in Handlers, Summarize(h)
    PROVE  IInv'
<1> DEFINE c == [Blank EXCEPT !.pc = "refreshPlan", !.asks = "summary"]
<1>1. c \in Call /\ CallFits(c)
  BY BlankFits DEF Call, CallFits, PCs
<1>2. Starts(h, c)
  BY DEF Summarize
<1> HIDE DEF c
<1>3. QED
  BY <1>1, <1>2, Begins DEF Summarize

LEMMA AskStep ==
    ASSUME IInv, NEW h \in Handlers, Ask(h)
    PROVE  IInv'
<1>1. PICK m \in Messages : Starts(h, [Blank EXCEPT !.pc = "ask", !.asks = "gate", !.message = m])
  BY DEF Ask
<1> DEFINE c == [Blank EXCEPT !.pc = "ask", !.asks = "gate", !.message = m]
<1>2. c \in Call /\ CallFits(c)
  BY BlankFits DEF Call, CallFits, PCs
<1>3. Starts(h, c)
  BY <1>1
<1> HIDE DEF c
<1>4. QED
  BY <1>2, <1>3, Begins DEF Ask

LEMMA SwitchStep ==
    ASSUME IInv, NEW h \in Handlers, Switch(h)
    PROVE  IInv'
<1>1. PICK restored \in {NoPlan, shelf} :
        Starts(h, [Blank EXCEPT !.pc = "shelve", !.plan = plan, !.restored = restored])
  BY DEF Switch
<1> DEFINE c == [Blank EXCEPT !.pc = "shelve", !.plan = plan, !.restored = restored]
<1>2. /\ plan \in PlanRow /\ Fits(plan)
      /\ restored \in PlanRow /\ Fits(restored)
  BY NoPlanFits DEF IInv, RowsFit, Plans
<1>3. c \in Call /\ CallFits(c)
  BY <1>2, BlankFits DEF Call, CallFits, PCs
<1>4. Starts(h, c)
  BY <1>1
<1> HIDE DEF c
<1>5. QED
  BY <1>3, <1>4, Begins DEF Switch

-----------------------------------------------------------------------------
(* Steps that only read.                                                   *)

LEMMA JudgeStep ==
    ASSUME IInv, NEW h \in Handlers, Judge(h)
    PROVE  IInv'
<1>1. call[h].event.kind \in JudgedKinds
  BY Holds DEF Judge, At, CallFits
<1>2. CASE \E e \in Judged(call[h].event) : Goes(h, [call[h] EXCEPT !.pc = "read", !.event = e])
  <2>1. PICK e \in Judged(call[h].event) : Goes(h, [call[h] EXCEPT !.pc = "read", !.event = e])
    BY <1>2
  <2> DEFINE c == [call[h] EXCEPT !.pc = "read", !.event = e]
  <2>2. e \in Event /\ EventFits(e)
    BY <1>1, Holds, JudgedFits DEF EventFits
  <2>3. c \in Call /\ CallFits(c)
    BY <2>2, Holds DEF Call, CallFits, PCs
  <2>4. Goes(h, c)
    BY <2>1
  <2> HIDE DEF c
  <2>5. QED
    BY <2>3, <2>4, LooksOnly DEF Judge
<1>3. CASE Goes(h, [call[h] EXCEPT !.pc = "refreshPlan"])
  <2> DEFINE c == [call[h] EXCEPT !.pc = "refreshPlan"]
  <2>1. c \in Call /\ CallFits(c)
    BY Holds DEF Call, CallFits, PCs
  <2>2. Goes(h, c)
    BY <1>3
  <2> HIDE DEF c
  <2>3. QED
    BY <2>1, <2>2, LooksOnly DEF Judge
<1>4. QED
  BY <1>2, <1>3 DEF Judge

LEMMA ReadPlanStep ==
    ASSUME IInv, NEW h \in Handlers, ReadPlan(h)
    PROVE  IInv'
<1> DEFINE p == ReducePlan(plan, call[h].event)
           c == IF p = NoPlan THEN [call[h] EXCEPT !.pc = "refreshPlan"]
                ELSE [call[h] EXCEPT !.pc = "savePlan", !.plan = p]
<1>1. call[h].event \in PlanEvent /\ plan \in Plans
  BY Holds, EventParts DEF ReadPlan, IInv, RowsFit, Plans
<1>2. p \in PlanRow /\ Fits(p)
  BY <1>1, ReducedPlanFits DEF Plans
<1>3. Goes(h, c)
  BY DEF ReadPlan
<1> HIDE DEF p
<1>4. c \in Call /\ CallFits(c)
  <2>1. CASE p = NoPlan
    BY <2>1, Holds DEF Call, CallFits, PCs
  <2>2. CASE p # NoPlan
    BY <1>2, <2>2, Holds DEF Call, CallFits, PCs
  <2>3. QED
    BY <2>1, <2>2
<1> HIDE DEF c
<1>5. QED
  BY <1>3, <1>4, LooksOnly DEF ReadPlan

LEMMA ReadClaimsStep ==
    ASSUME IInv, NEW h \in Handlers, ReadClaims(h)
    PROVE  IInv'
<1>1. PICK writes \in ClaimWrites(call[h].event) :
        Goes(h, IF writes = <<>> THEN [call[h] EXCEPT !.pc = "refreshPlan"]
                ELSE [call[h] EXCEPT !.pc = "saveClaim", !.writes = writes])
  BY DEF ReadClaims
<1> DEFINE c == IF writes = <<>> THEN [call[h] EXCEPT !.pc = "refreshPlan"]
                ELSE [call[h] EXCEPT !.pc = "saveClaim", !.writes = writes]
<1>2. writes \in Seq(Write) /\ WritesFit(writes)
  BY Holds, IInvTypes, ClaimWritesFit DEF ReadClaims, WritesFit
<1>3. Goes(h, c)
  BY <1>1
<1>4. c \in Call /\ CallFits(c)
  <2>1. CASE writes = <<>>
    BY <2>1, Holds DEF Call, CallFits, PCs
  <2>2. CASE writes # <<>>
    BY <1>2, <2>2, Holds DEF Call, CallFits, PCs
  <2>3. QED
    BY <2>1, <2>2
<1> HIDE DEF c
<1>5. QED
  BY <1>3, <1>4, LooksOnly DEF ReadClaims

LEMMA ReadItemsStep ==
    ASSUME IInv, NEW h \in Handlers, ReadItems(h)
    PROVE  IInv'
<1>1. call[h].event \in ItemEvent
  BY Holds, EventParts DEF ReadItems
<1>2. CASE Goes(h, [call[h] EXCEPT !.pc = "refreshPlan"])
  <2> DEFINE c == [call[h] EXCEPT !.pc = "refreshPlan"]
  <2>1. c \in Call /\ CallFits(c)
    BY Holds DEF Call, CallFits, PCs
  <2>2. Goes(h, c)
    BY <1>2
  <2> HIDE DEF c
  <2>3. QED
    BY <2>1, <2>2, LooksOnly DEF ReadItems
<1>3. CASE \E w \in ItemWrites(call[h].event) :
              Goes(h, [call[h] EXCEPT !.pc = "saveItem", !.item = w.item, !.itemStatus = w.status])
  <2>1. PICK w \in ItemWrites(call[h].event) :
          Goes(h, [call[h] EXCEPT !.pc = "saveItem", !.item = w.item, !.itemStatus = w.status])
    BY <1>3
  <2>2. w.item \in Items /\ w.status \in ItemStatus
    BY <1>1, IInvTypes, ItemWritesFit
  <2> DEFINE c == [call[h] EXCEPT !.pc = "saveItem", !.item = w.item, !.itemStatus = w.status]
  <2>3. c \in Call /\ CallFits(c)
    BY <2>2, Holds DEF Call, CallFits, PCs
  <2>4. Goes(h, c)
    BY <2>1
  <2> HIDE DEF c
  <2>5. QED
    BY <2>3, <2>4, LooksOnly DEF ReadItems
<1>4. QED
  BY <1>2, <1>3 DEF ReadItems

LEMMA ReadNothingStep ==
    ASSUME IInv, NEW h \in Handlers, ReadNothing(h)
    PROVE  IInv'
<1> DEFINE c == [call[h] EXCEPT !.pc = "refreshPlan"]
<1>1. c \in Call /\ CallFits(c)
  BY Holds DEF Call, CallFits, PCs
<1>2. Goes(h, c)
  BY DEF ReadNothing
<1> HIDE DEF c
<1>3. QED
  BY <1>1, <1>2, LooksOnly DEF ReadNothing

LEMMA ReadFlowStep ==
    ASSUME IInv, NEW h \in Handlers, ReadFlow(h)
    PROVE  IInv'
<1> DEFINE c == [call[h] EXCEPT !.pc = IF plan = NoPlan THEN "refreshPlan" ELSE "saveFlow",
                                !.plan = plan]
<1>1. plan \in PlanRow /\ Fits(plan)
  BY DEF IInv, RowsFit
<1>2. c \in Call /\ CallFits(c)
  BY <1>1, Holds DEF Call, CallFits, PCs
<1>3. Goes(h, c)
  BY DEF ReadFlow
<1> HIDE DEF c
<1>4. QED
  BY <1>2, <1>3, LooksOnly DEF ReadFlow

LEMMA RefreshPlanStep ==
    ASSUME IInv, NEW h \in Handlers, RefreshPlan(h)
    PROVE  IInv'
<1> DEFINE c == [call[h] EXCEPT !.pc = "refreshClaims", !.plan = plan, !.alone = Alone(h)]
<1>1. plan \in PlanRow /\ Fits(plan) /\ Alone(h) \in BOOLEAN
  BY DEF IInv, RowsFit, Alone, At
<1>2. c \in Call /\ CallFits(c)
  BY <1>1, Holds DEF Call, CallFits, PCs
<1>3. Goes(h, c)
  BY DEF RefreshPlan
<1> HIDE DEF c
<1>4. QED
  BY <1>2, <1>3, LooksOnly DEF RefreshPlan

LEMMA RefreshClaimsStep ==
    ASSUME IInv, NEW h \in Handlers, RefreshClaims(h)
    PROVE  IInv'
<1> DEFINE c == [call[h] EXCEPT !.pc = "saveProgress",
                                !.progress = Synthesized(call[h].plan, claims)]
<1>1. Synthesized(call[h].plan, claims) \in ProgressRow
  BY Holds, SynthesizedType
<1>2. c \in Call /\ CallFits(c)
  BY <1>1, Holds DEF Call, CallFits, PCs
<1>3. Goes(h, c)
  BY DEF RefreshClaims
<1> HIDE DEF c
<1>4. QED
  BY <1>2, <1>3, LooksOnly DEF RefreshClaims

LEMMA AskProgressStep ==
    ASSUME IInv, NEW h \in Handlers, AskProgress(h)
    PROVE  IInv'
<1> DEFINE c == IF progress = NoProgress THEN [call[h] EXCEPT !.pc = "refreshPlan"]
                ELSE [call[h] EXCEPT !.pc = "answer", !.progress = progress]
<1>1. progress \in ProgressRow
  BY DEF IInv, RowsFit
<1>2. c \in Call /\ CallFits(c)
  <2>1. CASE progress = NoProgress
    BY <2>1, Holds DEF Call, CallFits, PCs
  <2>2. CASE progress # NoProgress
    BY <1>1, <2>2, Holds DEF Call, CallFits, PCs
  <2>3. QED
    BY <2>1, <2>2
<1>3. Goes(h, c)
  BY DEF AskProgress
<1> HIDE DEF c
<1>4. QED
  BY <1>2, <1>3, LooksOnly DEF AskProgress

LEMMA AnswerStep ==
    ASSUME IInv, NEW h \in Handlers, Answer(h)
    PROVE  IInv'
<1> DEFINE c == [call[h] EXCEPT !.pc = "told"]
<1>1. c \in Call /\ CallFits(c)
  BY Holds DEF Call, CallFits, PCs
<1>2. Goes(h, c) \/ Goes(h, Blank)
  BY DEF Answer
<1> HIDE DEF c
<1>3. QED
  BY <1>1, <1>2, BlankFits, LooksOnly DEF Answer

LEMMA SayStep ==
    ASSUME IInv, NEW h \in Handlers, Say(h)
    PROVE  IInv'
BY BlankFits, LooksOnly DEF Say

-----------------------------------------------------------------------------
(* Steps that write.                                                       *)

LEMMA SavePlanStep ==
    ASSUME IInv, NEW h \in Handlers, SavePlan(h) \/ SaveFlow(h)
    PROVE  IInv'
<1> DEFINE c == [call[h] EXCEPT !.pc = "refreshPlan"]
<1>1. c \in Call /\ CallFits(c)
  BY Holds DEF Call, CallFits, PCs
<1>2. Goes(h, c)
  BY DEF SavePlan, SaveFlow
<1> HIDE DEF c
<1>3. call' \in [Handlers -> Call] /\ \A g \in Handlers : CallFits(call'[g])
  BY <1>1, <1>2, Continues
<1>4. RowsFit'
  BY Holds DEF SavePlan, SaveFlow, IInv, RowsFit
<1>5. CountsFit'
  BY DEF SavePlan, SaveFlow, IInv, CountsFit
<1>6. QED
  BY <1>3, <1>4, <1>5 DEF IInv

LEMMA SaveClaimStep ==
    ASSUME IInv, NEW h \in Handlers, SaveClaim(h)
    PROVE  IInv'
<1> DEFINE w == Head(call[h].writes)
           left == Tail(call[h].writes)
           c == [call[h] EXCEPT !.writes = left,
                                !.pc = IF left = <<>> THEN "refreshPlan" ELSE "saveClaim"]
<1>1. call[h].writes \in Seq(Write) /\ WritesFit(call[h].writes) /\ call[h].writes # <<>>
  BY Holds DEF SaveClaim, At, CallFits
<1>2. /\ w \in Write /\ RowFits(w.claim, w.row)
      /\ left \in Seq(Write) /\ WritesFit(left)
  <2>1. w = call[h].writes[1] /\ 1 \in DOMAIN call[h].writes
    BY <1>1
  <2>2. left \in Seq(Write) /\ \A i \in DOMAIN left :
           left[i] = call[h].writes[i + 1] /\ i + 1 \in DOMAIN call[h].writes
    BY <1>1
  <2>3. QED
    BY <1>1, <2>1, <2>2 DEF WritesFit
<1>3. w.claim \in Claims /\ w.row \in ClaimRow
  BY <1>2 DEF Write
<1>4. Goes(h, c) /\ claims' = [claims EXCEPT ![w.claim] = w.row]
  BY DEF SaveClaim
<1> HIDE DEF w, left
<1>5. c \in Call /\ CallFits(c)
  BY <1>2, Holds DEF Call, CallFits, PCs
<1> HIDE DEF c
<1>6. call' \in [Handlers -> Call] /\ \A g \in Handlers : CallFits(call'[g])
  BY <1>4, <1>5, Continues
<1>7. RowsFit'
  BY <1>2, <1>3, <1>4 DEF SaveClaim, IInv, RowsFit
<1>8. CountsFit'
  BY DEF SaveClaim, IInv, CountsFit
<1>9. QED
  BY <1>6, <1>7, <1>8 DEF IInv

LEMMA SaveItemStep ==
    ASSUME IInv, NEW h \in Handlers, SaveItem(h)
    PROVE  IInv'
<1> DEFINE c == [call[h] EXCEPT !.pc = IF call[h].event.kind \in ActionKinds
                                       THEN "readFlow" ELSE "refreshPlan"]
<1>1. c \in Call /\ CallFits(c)
  BY Holds DEF Call, CallFits, PCs
<1>2. Goes(h, c)
  BY DEF SaveItem
<1> HIDE DEF c
<1>3. call' \in [Handlers -> Call] /\ \A g \in Handlers : CallFits(call'[g])
  BY <1>1, <1>2, Continues
<1>4. RowsFit'
  BY Holds DEF SaveItem, IInv, RowsFit
<1>5. CountsFit'
  BY DEF SaveItem, IInv, CountsFit
<1>6. QED
  BY <1>3, <1>4, <1>5 DEF IInv

LEMMA SaveProgressStep ==
    ASSUME IInv, NEW h \in Handlers, SaveProgress(h)
    PROVE  IInv'
<1>1. ASSUME NEW pc \in {"saveAgain", "answer"}
      PROVE  [call[h] EXCEPT !.pc = pc] \in Call /\ CallFits([call[h] EXCEPT !.pc = pc])
  BY Holds DEF Call, CallFits, PCs
<1>2. call[h].asks \in {"nothing", "summary", "gate"}
  BY Holds DEF Call
<1>3. PICK c \in Call : CallFits(c) /\ Goes(h, c)
  <2>1. CASE call[h].asks = "nothing"
    BY <2>1, BlankFits DEF SaveProgress
  <2>2. CASE call[h].asks = "summary"
    BY <1>1, <2>2 DEF SaveProgress
  <2>3. CASE call[h].asks = "gate"
    BY <1>1, <2>3 DEF SaveProgress
  <2>4. QED
    BY <1>2, <2>1, <2>2, <2>3
<1>4. call' \in [Handlers -> Call] /\ \A g \in Handlers : CallFits(call'[g])
  BY <1>3, Continues
<1>5. RowsFit'
  BY Holds DEF SaveProgress, IInv, RowsFit
<1>6. CountsFit'
  BY DEF SaveProgress, IInv, CountsFit
<1>7. QED
  BY <1>4, <1>5, <1>6 DEF IInv

LEMMA SaveAgainStep ==
    ASSUME IInv, NEW h \in Handlers, SaveAgain(h)
    PROVE  IInv'
<1>1. call' \in [Handlers -> Call] /\ \A g \in Handlers : CallFits(call'[g])
  BY BlankFits, Continues DEF SaveAgain
<1>2. RowsFit'
  BY Holds DEF SaveAgain, IInv, RowsFit
<1>3. CountsFit'
  BY DEF SaveAgain, IInv, CountsFit
<1>4. QED
  BY <1>1, <1>2, <1>3 DEF IInv

LEMMA ShelveStep ==
    ASSUME IInv, NEW h \in Handlers, Shelve(h)
    PROVE  IInv'
<1> DEFINE c == [call[h] EXCEPT !.pc = "restore"]
<1>1. c \in Call /\ CallFits(c)
  BY Holds DEF Call, CallFits, PCs
<1>2. Goes(h, c) \/ Goes(h, Blank)
  BY DEF Shelve
<1> HIDE DEF c
<1>3. call' \in [Handlers -> Call] /\ \A g \in Handlers : CallFits(call'[g])
  BY <1>1, <1>2, BlankFits, Continues
<1>4. RowsFit'
  BY Holds DEF Shelve, IInv, RowsFit
<1>5. CountsFit'
  BY DEF Shelve, IInv, CountsFit
<1>6. QED
  BY <1>3, <1>4, <1>5 DEF IInv

(* A restored plan is active, so that nothing is asked of its steps but    *)
(* that the current one is among them.                                     *)
LEMMA RestoreStep ==
    ASSUME IInv, NEW h \in Handlers, Restore(h)
    PROVE  IInv'
<1>1. call' \in [Handlers -> Call] /\ \A g \in Handlers : CallFits(call'[g])
  BY BlankFits, Continues DEF Restore
<1>2. plan' \in PlanRow /\ Fits(plan')
  <2>1. PICK p \in PlanRow : p = call[h].restored /\ Fits(p)
    BY Holds
  <2>2. [p EXCEPT !.status = "active"] \in PlanRow /\ Fits([p EXCEPT !.status = "active"])
    BY <2>1 DEF PlanRow, Fits
  <2>3. QED
    BY <2>1, <2>2 DEF Restore
<1>3. RowsFit'
  BY <1>2 DEF Restore, IInv, RowsFit
<1>4. CountsFit'
  BY DEF Restore, IInv, CountsFit
<1>5. QED
  BY <1>1, <1>3, <1>4 DEF IInv

-----------------------------------------------------------------------------
(* The invariant.                                                          *)

LEMMA IInvInit == Init => IInv
<1> SUFFICES ASSUME Init PROVE IInv
  OBVIOUS
<1>1. plan \in PlanRow /\ shelf \in PlanRow /\ Fits(plan) /\ Fits(shelf)
  BY NoPlanFits DEF Init, Plans
<1>2. NoClaim \in ClaimRow /\ NoClaim.confidence \in Certain
  BY DEF NoClaim, ClaimRow, Certain
<1>3. claims \in [Claims -> ClaimRow] /\ \A c \in Claims : RowFits(c, claims[c])
  BY <1>2 DEF Init, RowFits
<1>4. items \in [Items -> ItemStatus \union {"absent"}]
  BY DEF Init
<1>5. progress \in ProgressRow
  BY DEF Init, NoProgress, ProgressRow
<1>6. RowsFit
  BY <1>1, <1>3, <1>4, <1>5 DEF RowsFit
<1>7. CountsFit
  <2>1. MaxCalls \in Nat /\ MaxCrashes \in Nat
    BY BoundAssumption
  <2>2. calls \in 0..MaxCalls /\ crashes \in 0..MaxCrashes
    BY <2>1 DEF Init
  <2>3. behind \in BOOLEAN
    BY DEF Init
  <2>4. QED
    BY <2>2, <2>3 DEF CountsFit
<1>8. call \in [Handlers -> Call] /\ \A h \in Handlers : CallFits(call[h])
  BY BlankFits DEF Init
<1>9. QED
  BY <1>6, <1>7, <1>8 DEF IInv

LEMMA IInvNext == IInv /\ [Next]_vars => IInv'
<1> SUFFICES ASSUME IInv, [Next]_vars PROVE IInv'
  OBVIOUS
<1>1. CASE \E h \in Handlers : Submit(h) \/ Summarize(h) \/ Ask(h) \/ Switch(h) \/ Step(h)
  <2>1. PICK h \in Handlers : Submit(h) \/ Summarize(h) \/ Ask(h) \/ Switch(h) \/ Step(h)
    BY <1>1
  <2>2. CASE Submit(h) \/ Summarize(h) \/ Ask(h) \/ Switch(h)
    BY <2>2, SubmitStep, SummarizeStep, AskStep, SwitchStep
  <2>3. CASE Step(h)
    BY <2>3, JudgeStep, ReadPlanStep, ReadClaimsStep, ReadItemsStep, ReadNothingStep,
       ReadFlowStep, RefreshPlanStep, RefreshClaimsStep, AskProgressStep, AnswerStep, SayStep,
       SavePlanStep, SaveClaimStep, SaveItemStep, SaveProgressStep, SaveAgainStep,
       ShelveStep, RestoreStep DEF Step
  <2>4. QED
    BY <2>1, <2>2, <2>3
<1>2. CASE Crash
  <2>1. call' \in [Handlers -> Call] /\ \A h \in Handlers : CallFits(call'[h])
    BY <1>2, BlankFits DEF Crash
  <2>2. RowsFit'
    BY <1>2, RowsStay DEF Crash, IInv
  <2>3. CountsFit'
    BY <1>2, BoundAssumption DEF Crash, IInv, CountsFit
  <2>4. QED
    BY <2>1, <2>2, <2>3 DEF IInv
<1>3. CASE UNCHANGED vars
  BY <1>3 DEF vars, IInv, RowsFit, CountsFit
<1>4. QED
  BY <1>1, <1>2, <1>3 DEF Next

(* Rows and local variables keep their types, and the confidence of every  *)
(* claim that is no risk assessment stays between 0 and 1, whatever the    *)
(* events say and the model answers.                                       *)
THEOREM ProgressTypes == Spec => []TypeOK
<1>1. Spec => []IInv
  BY IInvInit, IInvNext, PTL DEF Spec
<1>2. QED
  BY <1>1, IInvTypes, PTL

(* The status of the plan fits its steps after every event, switch and     *)
(* crash, and whichever stale copy of the plan is written back.            *)
THEOREM PlanFits == Spec => []StatusFitsSteps
<1>1. Spec => []IInv
  BY IInvInit, IInvNext, PTL DEF Spec
<1>2. IInv => StatusFitsSteps
  BY DEF IInv, RowsFit, StatusFitsSteps
<1>3. QED
  BY <1>1, <1>2, PTL

-----------------------------------------------------------------------------
(* The progress keeps up with plan and claims.                             *)

(* The progress row, where there is one, says what plan and claims say.    *)
UpToDate(row) == row = Synthesized(plan, claims)
Current == progress # NoProgress => UpToDate(progress)

(* Where the row may lag behind: a refresh is still to come.               *)
Refreshing == {"saveClaim", "refreshPlan", "refreshClaims", "saveProgress"}

(* What a call that nothing overlapped holds is not stale.                 *)
Fresh(c) ==
    /\ c.alone /\ c.pc = "refreshClaims" => c.plan = plan
    /\ c.alone /\ c.pc = "saveProgress" => UpToDate(c.progress)
    /\ ~behind /\ c.pc \in {"refreshClaims", "saveProgress"} => c.alone
    /\ ~behind /\ c.pc \in {"saveAgain", "answer"} => UpToDate(c.progress)
    /\ ~behind /\ c.pc = "told" => Allowed(Synthesized(plan, claims), c.message)

CInv ==
    /\ \A h \in Handlers : call[h].alone => Alone(h)
    /\ ~behind => \A g, h \in Handlers : g # h => At(g, "idle") \/ At(h, "idle")
    /\ \A h \in Handlers : Fresh(call[h])
    /\ ~behind /\ (\A h \in Handlers : call[h].pc \notin Refreshing) => Current

LEMMA FreshOfCall ==
    ASSUME NEW h \in Handlers, NEW d, d = call'[h], Fresh(d)'
    PROVE  Fresh(call[h])'
BY DEF Fresh

(* Where a call is, and nothing overlapped it, the row is current, unless  *)
(* the call is about to refresh it.                                        *)
LEMMA CurrentHere ==
    ASSUME CInv, ~behind, NEW h \in Handlers, ~At(h, "idle"), call[h].pc \notin Refreshing
    PROVE  Current
<1>1. \A g \in Handlers \ {h} : call[g].pc = "idle"
  BY DEF CInv, At
<1>2. \A g \in Handlers : call[g].pc \notin Refreshing
  BY <1>1 DEF Refreshing
<1>3. QED
  BY <1>2 DEF CInv

(* A call that goes on.                                                    *)
LEMMA FreshStep ==
    ASSUME IInv, CInv, NEW h \in Handlers, ~At(h, "idle"), NEW d, Goes(h, d),
           d.alone => Alone(h), Fresh(d)', ~behind' => ~behind \/ Alone(h),
           ~behind' /\ d.pc \notin Refreshing => Current'
    PROVE  CInv'
<1>1. call'[h] = d /\ \A g \in Handlers \ {h} : call'[g] = call[g]
  BY DEF Goes, IInv
<1>2. \A g \in Handlers \ {h} : ~call[g].alone
  BY DEF CInv, Alone
<1>3. ~behind' => \A g \in Handlers \ {h} : At(g, "idle")
  BY DEF CInv, Alone
<1>4. (\A g \in Handlers : call[g].alone => Alone(g))'
  <2>1. d.alone => \A g \in Handlers \ {h} : call'[g].pc = "idle"
    BY <1>1 DEF Alone, At
  <2>2. QED
    BY <1>1, <1>2, <2>1 DEF Alone, At
<1>5. (~behind => \A f, g \in Handlers : f # g => At(f, "idle") \/ At(g, "idle"))'
  BY <1>1, <1>3 DEF At
<1>6. ASSUME NEW g \in Handlers PROVE Fresh(call[g])'
  <2>1. CASE g = h
    BY <1>1, <2>1, FreshOfCall
  <2>2. CASE g # h
    <3>1. ~call'[g].alone /\ (~behind' => call'[g].pc = "idle")
      BY <1>1, <1>2, <1>3, <2>2 DEF At
    <3>2. QED
      BY <3>1 DEF Fresh
  <2>3. QED
    BY <2>1, <2>2
<1>7. (~behind /\ (\A g \in Handlers : call[g].pc \notin Refreshing) => Current)'
  BY <1>1
<1>8. QED
  BY <1>4, <1>5, <1>6, <1>7 DEF CInv, Refreshing

(* A call that goes on and changes neither plan, claims nor progress.      *)
LEMMA FreshLooks ==
    ASSUME IInv, CInv, NEW h \in Handlers, ~At(h, "idle"), NEW d, Goes(h, d),
           UNCHANGED <<plan, claims, progress, behind>>, d.alone => call[h].alone, Fresh(d),
           call[h].pc \in Refreshing => d.pc \in Refreshing
    PROVE  CInv'
<1>1. Fresh(d)'
  BY DEF Fresh, UpToDate
<1>2. ~behind' /\ d.pc \notin Refreshing => Current'
  BY CurrentHere DEF Current, UpToDate
<1>3. d.alone => Alone(h)
  BY DEF CInv
<1>4. QED
  BY <1>1, <1>2, <1>3, FreshStep

LEMMA FreshStarts ==
    ASSUME IInv, CInv, NEW h \in Handlers, NEW d, Starts(h, d), UNCHANGED rows, ~d.alone,
           d.pc \in {"judge", "read", "refreshPlan", "ask", "shelve"}
    PROVE  CInv'
<1>1. /\ call'[h] = d
      /\ \A g \in Handlers \ {h} : ~call'[g].alone /\ call'[g].pc = call[g].pc
      /\ behind' = (behind \/ ~AtRest)
      /\ UNCHANGED <<plan, claims, progress>>
  <2>1. \A g \in Handlers : [call[g] EXCEPT !.alone = FALSE].pc = call[g].pc
                            /\ ~[call[g] EXCEPT !.alone = FALSE].alone
    BY Holds DEF Call
  <2>2. QED
    BY <2>1 DEF Starts, rows
<1>2. ~behind' => \A g \in Handlers \ {h} : call'[g].pc = "idle"
  BY <1>1 DEF AtRest, At
<1>3. ~behind' => Current'
  <2>1. AtRest => \A g \in Handlers : call[g].pc \notin Refreshing
    BY DEF AtRest, At, Refreshing
  <2>2. ~behind /\ AtRest => Current
    BY <2>1 DEF CInv
  <2>3. behind \in BOOLEAN
    BY DEF IInv, CountsFit
  <2>4. QED
    BY <1>1, <2>2, <2>3 DEF Current, UpToDate
<1>4. ASSUME NEW g \in Handlers PROVE Fresh(call[g])'
  <2>1. ~call'[g].alone /\ (~behind' => call'[g].pc \in {"idle", d.pc} /\ d.pc = call'[h].pc)
    BY <1>1, <1>2
  <2>2. QED
    BY <2>1 DEF Fresh
<1>5. (\A g \in Handlers : call[g].alone => Alone(g))'
  BY <1>1
<1>6. (~behind => \A f, g \in Handlers : f # g => At(f, "idle") \/ At(g, "idle"))'
  BY <1>2 DEF At
<1>7. QED
  BY <1>3, <1>4, <1>5, <1>6 DEF CInv

LEMMA FreshBeginSteps ==
    ASSUME IInv, CInv, NEW h \in Handlers, Submit(h) \/ Summarize(h) \/ Ask(h) \/ Switch(h)
    PROVE  CInv'
<1>1. UNCHANGED rows
  BY DEF Submit, Summarize, Ask, Switch
<1>2. PICK d : /\ Starts(h, d)
               /\ \/ \E e : d = [Blank EXCEPT !.pc = IF e.kind \in JudgedKinds THEN "judge" ELSE "read",
                                              !.event = e]
                  \/ d = [Blank EXCEPT !.pc = "refreshPlan", !.asks = "summary"]
                  \/ \E m : d = [Blank EXCEPT !.pc = "ask", !.asks = "gate", !.message = m]
                  \/ \E q : d = [Blank EXCEPT !.pc = "shelve", !.plan = plan, !.restored = q]
  BY DEF Submit, Summarize, Ask, Switch
<1>3. ~d.alone /\ d.pc \in {"judge", "read", "refreshPlan", "ask", "shelve"}
  BY <1>2 DEF Blank
<1>4. QED
  BY <1>1, <1>2, <1>3, FreshStarts

LEMMA BlankRests == Blank.pc = "idle" /\ ~Blank.alone /\ Fresh(Blank)
BY DEF Blank, Fresh

(* Steps that read, or save what the progress does not depend on.          *)
LEMMA FreshLookingSteps ==
    ASSUME IInv, CInv, NEW h \in Handlers,
           \/ Judge(h) \/ ReadPlan(h) \/ ReadClaims(h) \/ ReadItems(h) \/ ReadNothing(h)
           \/ SaveItem(h) \/ ReadFlow(h) \/ Shelve(h) \/ Say(h)
    PROVE  CInv'
<1> PICK c \in Call : c = call[h]
  BY Holds
<1>1. c.pc \in {"judge", "read", "saveItem", "readFlow", "shelve", "told"}
  BY DEF Judge, ReadPlan, ReadClaims, ReadItems, ReadNothing, SaveItem, ReadFlow, Shelve, Say, At
<1>2. UNCHANGED <<plan, claims, progress, behind>>
  BY DEF Judge, ReadPlan, ReadClaims, ReadItems, ReadNothing, SaveItem, ReadFlow, Shelve, Say, rows
<1> DEFINE Next1 == {"read", "refreshPlan", "savePlan", "saveClaim", "saveItem", "readFlow",
                     "saveFlow", "restore"}
<1>3. PICK d : /\ Goes(h, d)
               /\ d = Blank \/ (d.pc \in Next1 /\ (d.alone => c.alone))
  <2>1. CASE Judge(h)
    <3>1. PICK d : /\ Goes(h, d)
                   /\ \/ \E e : d = [c EXCEPT !.pc = "read", !.event = e]
                      \/ d = [c EXCEPT !.pc = "refreshPlan"]
      BY <2>1 DEF Judge
    <3>2. d.pc \in Next1 /\ (d.alone => c.alone)
      BY <3>1 DEF Call
    <3>3. QED
      BY <3>1, <3>2
  <2>2. CASE ReadPlan(h)
    <3>1. PICK d : /\ Goes(h, d)
                   /\ \/ d = [c EXCEPT !.pc = "refreshPlan"]
                      \/ \E p : d = [c EXCEPT !.pc = "savePlan", !.plan = p]
      BY <2>2 DEF ReadPlan
    <3>2. d.pc \in Next1 /\ (d.alone => c.alone)
      BY <3>1 DEF Call
    <3>3. QED
      BY <3>1, <3>2
  <2>3. CASE ReadClaims(h)
    <3>1. PICK d : /\ Goes(h, d)
                   /\ \/ d = [c EXCEPT !.pc = "refreshPlan"]
                      \/ \E writes : d = [c EXCEPT !.pc = "saveClaim", !.writes = writes]
      BY <2>3 DEF ReadClaims
    <3>2. d.pc \in Next1 /\ (d.alone => c.alone)
      BY <3>1 DEF Call
    <3>3. QED
      BY <3>1, <3>2
  <2>4. CASE ReadItems(h)
    <3>1. PICK d : /\ Goes(h, d)
                   /\ \/ d = [c EXCEPT !.pc = "refreshPlan"]
                      \/ \E i, status : d = [c EXCEPT !.pc = "saveItem", !.item = i,
                                                      !.itemStatus = status]
      BY <2>4 DEF ReadItems
    <3>2. d.pc \in Next1 /\ (d.alone => c.alone)
      BY <3>1 DEF Call
    <3>3. QED
      BY <3>1, <3>2
  <2>5. CASE ReadNothing(h) \/ SaveItem(h)
    <3>1. PICK d : /\ Goes(h, d)
                   /\ d = [c EXCEPT !.pc = "refreshPlan"] \/ d = [c EXCEPT !.pc = "readFlow"]
      BY <2>5 DEF ReadNothing, SaveItem
    <3>2. d.pc \in Next1 /\ (d.alone => c.alone)
      BY <3>1 DEF Call
    <3>3. QED
      BY <3>1, <3>2
  <2>6. CASE ReadFlow(h)
    <3>1. PICK d : /\ Goes(h, d)
                   /\ \/ d = [c EXCEPT !.pc = "refreshPlan", !.plan = plan]
                      \/ d = [c EXCEPT !.pc = "saveFlow", !.plan = plan]
      BY <2>6 DEF ReadFlow
    <3>2. d.pc \in Next1 /\ (d.alone => c.alone)
      BY <3>1 DEF Call
    <3>3. QED
      BY <3>1, <3>2
  <2>7. CASE Shelve(h) \/ Say(h)
    <3>1. PICK d : /\ Goes(h, d)
                   /\ d = Blank \/ d = [c EXCEPT !.pc = "restore"]
      BY <2>7 DEF Shelve, Say
    <3>2. d = Blank \/ (d.pc \in Next1 /\ (d.alone => c.alone))
      BY <3>1 DEF Call
    <3>3. QED
      BY <3>1, <3>2
  <2>8. QED
    BY <2>1, <2>2, <2>3, <2>4, <2>5, <2>6, <2>7
<1>4. Fresh(d)
  BY <1>3, BlankRests DEF Fresh
<1>5. c.pc \notin Refreshing /\ ~At(h, "idle") /\ (d.alone => c.alone)
  BY <1>1, <1>3, BlankRests DEF Refreshing, At
<1>6. QED
  BY <1>2, <1>3, <1>4, <1>5, FreshLooks

(* After a write to plan or claims the refresh is still to come.           *)
LEMMA FreshSavingSteps ==
    ASSUME IInv, CInv, NEW h \in Handlers, SavePlan(h) \/ SaveFlow(h) \/ SaveClaim(h)
    PROVE  CInv'
<1> PICK c \in Call : c = call[h]
  BY Holds
<1>1. c.pc \in {"savePlan", "saveFlow", "saveClaim"} /\ behind' = behind
  BY DEF SavePlan, SaveFlow, SaveClaim, At
<1>2. PICK d : Goes(h, d) /\ d.pc \in {"refreshPlan", "saveClaim"} /\ d.alone = c.alone
  <2>1. CASE SavePlan(h) \/ SaveFlow(h)
    <3>1. PICK d : Goes(h, d) /\ d = [c EXCEPT !.pc = "refreshPlan"]
      BY <2>1 DEF SavePlan, SaveFlow
    <3>2. d.pc = "refreshPlan" /\ d.alone = c.alone
      BY <3>1 DEF Call
    <3>3. QED
      BY <3>1, <3>2
  <2>2. CASE SaveClaim(h)
    <3>1. PICK left, pc : /\ pc = IF left = <<>> THEN "refreshPlan" ELSE "saveClaim"
                          /\ Goes(h, [c EXCEPT !.writes = left, !.pc = pc])
      BY <2>2 DEF SaveClaim
    <3>2. PICK d : d = [c EXCEPT !.writes = left, !.pc = pc]
      OBVIOUS
    <3>3. d.pc \in {"refreshPlan", "saveClaim"} /\ d.alone = c.alone
      BY <3>1, <3>2 DEF Call
    <3>4. QED
      BY <3>1, <3>2, <3>3
  <2>3. QED
    BY <2>1, <2>2
<1>3. Fresh(d)'
  BY <1>2 DEF Fresh
<1>4. d.pc \in Refreshing /\ ~At(h, "idle") /\ (d.alone => Alone(h)) /\ (~behind' => ~behind)
  BY <1>1, <1>2 DEF Refreshing, At, CInv
<1>5. QED
  BY <1>2, <1>3, <1>4, FreshStep

LEMMA FreshRefreshPlan ==
    ASSUME IInv, CInv, NEW h \in Handlers, RefreshPlan(h)
    PROVE  CInv'
<1> PICK c \in Call : c = call[h]
  BY Holds
<1>1. c.pc = "refreshPlan" /\ UNCHANGED <<plan, claims, progress, behind>>
  BY DEF RefreshPlan, At, rows
<1>2. PICK d : d = [c EXCEPT !.pc = "refreshClaims", !.plan = plan, !.alone = Alone(h)]
  OBVIOUS
<1>3. d.pc = "refreshClaims" /\ d.plan = plan /\ (d.alone <=> Alone(h)) /\ Goes(h, d)
  <2>1. Alone(h) \in BOOLEAN
    BY DEF Alone
  <2>2. QED
    BY <1>2, <2>1 DEF Call, RefreshPlan
<1>4. ~behind => d.alone
  BY <1>1, <1>3 DEF CInv, Alone, At
<1>5. Fresh(d)'
  BY <1>1, <1>3, <1>4 DEF Fresh
<1>6. d.pc \in Refreshing /\ ~At(h, "idle")
  BY <1>1, <1>3 DEF Refreshing, At
<1>7. QED
  BY <1>1, <1>3, <1>5, <1>6, FreshStep

LEMMA FreshRefreshClaims ==
    ASSUME IInv, CInv, NEW h \in Handlers, RefreshClaims(h)
    PROVE  CInv'
<1> PICK c \in Call : c = call[h]
  BY Holds
<1>1. c.pc = "refreshClaims" /\ UNCHANGED <<plan, claims, progress, behind>> /\ Fresh(c)
  BY DEF RefreshClaims, At, rows, CInv
<1>2. PICK d : d = [c EXCEPT !.pc = "saveProgress", !.progress = Synthesized(c.plan, claims)]
  OBVIOUS
<1>3. /\ d.pc = "saveProgress" /\ d.progress = Synthesized(c.plan, claims) /\ d.alone = c.alone
      /\ Goes(h, d)
  BY <1>2 DEF Call, RefreshClaims
<1>4. Fresh(d)
  BY <1>1, <1>3 DEF Fresh, UpToDate
<1>5. c.pc \in Refreshing /\ d.pc \in Refreshing /\ ~At(h, "idle")
  BY <1>1, <1>3 DEF Refreshing, At
<1>6. QED
  BY <1>1, <1>3, <1>4, <1>5, FreshLooks

(* What a refresh saves that ran alone is what plan and claims say.        *)
LEMMA FreshSaveProgress ==
    ASSUME IInv, CInv, NEW h \in Handlers, SaveProgress(h)
    PROVE  CInv'
<1> PICK c \in Call : c = call[h]
  BY Holds
<1>1. /\ c.pc = "saveProgress" /\ UNCHANGED <<plan, claims>> /\ Fresh(c)
      /\ progress' = c.progress /\ behind' = (behind /\ ~c.alone) /\ behind \in BOOLEAN
      /\ c.alone => Alone(h)
  BY DEF SaveProgress, At, CInv, IInv, CountsFit
<1>2. PICK d : /\ Goes(h, d)
               /\ \/ d = Blank
                  \/ d = [c EXCEPT !.pc = "saveAgain"]
                  \/ d = [c EXCEPT !.pc = "answer"]
  BY DEF SaveProgress, Call
<1>3. d = Blank \/ (/\ d.pc \in {"saveAgain", "answer"} /\ d.alone = c.alone
                    /\ d.progress = c.progress)
  BY <1>2 DEF Call
<1>4. ~behind' => c.alone /\ UpToDate(c.progress)
  BY <1>1 DEF Fresh
<1>5. ~behind' => UpToDate(c.progress)' /\ Current'
  BY <1>1, <1>4 DEF UpToDate, Current
<1>6. Fresh(d)'
  <2>1. CASE d = Blank
    BY <2>1, BlankRests DEF Fresh
  <2>2. CASE d # Blank
    BY <1>3, <1>5, <2>2 DEF Fresh
  <2>3. QED
    BY <2>1, <2>2
<1>7. (d.alone => Alone(h)) /\ ~At(h, "idle") /\ (~behind' => Alone(h))
  BY <1>1, <1>3, <1>4, BlankRests DEF At
<1>8. QED
  BY <1>2, <1>5, <1>6, <1>7, FreshStep

(* The row saved again, after the wait for a summary.                      *)
LEMMA FreshSaveAgain ==
    ASSUME IInv, CInv, NEW h \in Handlers, SaveAgain(h)
    PROVE  CInv'
<1> PICK c \in Call : c = call[h]
  BY Holds
<1>1. /\ c.pc = "saveAgain" /\ UNCHANGED <<plan, claims, behind>> /\ Fresh(c)
      /\ progress' = c.progress /\ Goes(h, Blank)
  BY DEF SaveAgain, At, CInv
<1>2. ~behind' => Current'
  BY <1>1 DEF Fresh, UpToDate, Current
<1>3. Fresh(Blank)' /\ ~At(h, "idle")
  BY <1>1, BlankRests DEF Fresh, At
<1>4. QED
  BY <1>1, <1>2, <1>3, BlankRests, FreshStep

LEMMA FreshAskProgress ==
    ASSUME IInv, CInv, NEW h \in Handlers, AskProgress(h)
    PROVE  CInv'
<1> PICK c \in Call : c = call[h]
  BY Holds
<1>1. /\ c.pc = "ask" /\ UNCHANGED <<plan, claims, progress, behind>>
      /\ c.pc \notin Refreshing /\ ~At(h, "idle")
  BY DEF AskProgress, At, rows, Refreshing
<1>2. PICK d : /\ Goes(h, d)
               /\ d = IF progress = NoProgress THEN [c EXCEPT !.pc = "refreshPlan"]
                      ELSE [c EXCEPT !.pc = "answer", !.progress = progress]
  BY DEF AskProgress
<1>3. /\ d.alone = c.alone
      /\ progress = NoProgress => d.pc = "refreshPlan"
      /\ progress # NoProgress => d.pc = "answer" /\ d.progress = progress
  BY <1>2 DEF Call
<1>4. ~behind /\ progress # NoProgress => UpToDate(progress)
  BY <1>1, CurrentHere DEF Current
<1>5. Fresh(d)
  BY <1>3, <1>4 DEF Fresh
<1>6. QED
  BY <1>1, <1>2, <1>3, <1>5, FreshLooks

LEMMA FreshAnswer ==
    ASSUME IInv, CInv, NEW h \in Handlers, Answer(h)
    PROVE  CInv'
<1> PICK c \in Call : c = call[h]
  BY Holds
<1>1. /\ c.pc = "answer" /\ UNCHANGED <<plan, claims, progress, behind>> /\ Fresh(c)
      /\ c.pc \notin Refreshing /\ ~At(h, "idle")
  BY DEF Answer, At, rows, Refreshing, CInv
<1>2. PICK d : /\ Goes(h, d)
               /\ d = Blank \/ (d = [c EXCEPT !.pc = "told"] /\ Allowed(c.progress, c.message))
  BY DEF Answer
<1>3. d = Blank \/ (/\ d.pc = "told" /\ d.alone = c.alone /\ d.message = c.message
                    /\ Allowed(c.progress, c.message))
  BY <1>2 DEF Call
<1>4. Fresh(d)
  <2>1. CASE d = Blank
    BY <2>1, BlankRests
  <2>2. CASE d # Blank
    <3>1. ~behind => c.progress = Synthesized(plan, claims)
      BY <1>1 DEF Fresh, UpToDate
    <3>2. ~behind => Allowed(Synthesized(plan, claims), c.message)
      BY <1>3, <2>2, <3>1
    <3>3. QED
      BY <1>3, <2>2, <3>2 DEF Fresh
  <2>3. QED
    BY <2>1, <2>2
<1>5. d.alone => c.alone
  BY <1>3, BlankRests
<1>6. QED
  BY <1>1, <1>2, <1>4, <1>5, FreshLooks

(* A resumed task leaves the progress behind, and so does a crash.         *)
LEMMA FreshRestore ==
    ASSUME IInv, CInv, NEW h \in Handlers, Restore(h)
    PROVE  CInv'
<1>1. behind' /\ Goes(h, Blank) /\ ~At(h, "idle")
  BY DEF Restore, At
<1>2. Fresh(Blank)'
  BY BlankRests DEF Fresh
<1>3. QED
  BY <1>1, <1>2, BlankRests, FreshStep

LEMMA FreshCrash ==
    ASSUME IInv, CInv, Crash
    PROVE  CInv'
<1>1. behind' /\ \A h \in Handlers : call'[h] = Blank
  BY DEF Crash
<1>2. \A h \in Handlers : Fresh(call[h])'
  BY <1>1, BlankRests DEF Fresh
<1>3. QED
  BY <1>1, <1>2, BlankRests DEF CInv

LEMMA FreshStutter ==
    ASSUME CInv, UNCHANGED vars
    PROVE  CInv'
<1>1. UNCHANGED <<plan, claims, progress, call, behind>>
  BY DEF vars
<1>2. (\A h \in Handlers : Fresh(call[h]))'
  BY <1>1 DEF CInv, Fresh, UpToDate
<1>3. QED
  BY <1>1, <1>2 DEF CInv, Alone, At, Current, UpToDate, Refreshing

LEMMA FreshInit == Init => CInv
BY BlankRests DEF Init, CInv, Current, At

LEMMA FreshNext == IInv /\ CInv /\ [Next]_vars => CInv'
<1> SUFFICES ASSUME IInv, CInv, [Next]_vars PROVE CInv'
  OBVIOUS
<1>1. CASE UNCHANGED vars
  BY <1>1, FreshStutter
<1>2. CASE Next
  BY <1>2, FreshBeginSteps, FreshLookingSteps, FreshSavingSteps, FreshRefreshPlan,
     FreshRefreshClaims, FreshSaveProgress, FreshSaveAgain, FreshAskProgress, FreshAnswer,
     FreshRestore, FreshCrash DEF Next, Step
<1>3. QED
  BY <1>1, <1>2

LEMMA FreshAlways == Spec => [](IInv /\ CInv)
BY IInvInit, IInvNext, FreshInit, FreshNext, PTL DEF Spec

(* Between two calls the progress row is what plan and claims say: a call  *)
(* that nothing overlapped refreshes whatever it and its predecessors left *)
(* behind.                                                                 *)
THEOREM ProgressFollows == Spec => []ProgressCurrent
<1>1. IInv /\ CInv => ProgressCurrent
  <2> SUFFICES ASSUME CInv, AtRest, ~behind, progress # NoProgress
               PROVE  progress = Synthesized(plan, claims)
    BY DEF ProgressCurrent
  <2>1. \A h \in Handlers : call[h].pc \notin Refreshing
    BY DEF AtRest, At, Refreshing
  <2>2. QED
    BY <2>1 DEF CInv, Current, UpToDate
<1>2. QED
  BY <1>1, FreshAlways, PTL

(* What the talker has been told it may say is true of plan and claims.    *)
THEOREM GateTellsTruth == Spec => []GateTruthful
<1>1. IInv /\ CInv => GateTruthful
  <2> SUFFICES ASSUME IInv, CInv, NEW h \in Handlers, At(h, "told"), ~behind,
                      NEW m \in Messages, m = call[h].message
               PROVE  IF m = "done" THEN plan.status = "completed" /\ Having(plan, "pending") = {}
                      ELSE /\ claims[m].status # "conflicting"
                           /\ claims[m].status \in {"unverified", "likely"}
                                 => claims[m].confidence >= 5
    BY Holds DEF GateTruthful
  <2>1. Allowed(Synthesized(plan, claims), m)
    BY DEF CInv, Fresh, At
  <2>2. plan \in PlanRow /\ Fits(plan)
    BY DEF IInv, RowsFit
  <2>3. CASE m = "done"
    <3>1. Synthesized(plan, claims).status = "completed"
      BY <2>1, <2>3 DEF Allowed
    <3>2. plan.status = "completed"
      BY <2>2, <3>1 DEF Synthesized, PlanRow
    <3>3. QED
      BY <2>2, <2>3, <3>2 DEF Fits
  <2>4. CASE m # "done"
    <3>1. m \in Claims
      BY <2>4 DEF Messages
    <3>2. m \notin Unsafe(claims, plan # NoPlan)
      BY <2>1, <2>4 DEF Allowed, Synthesized
    <3>3. claims[m].confidence \in Int
      BY <3>1 DEF IInv, RowsFit, ClaimRow
    <3>4. claims[m].status # "conflicting"
      BY <3>1, <3>2 DEF Unsafe, Holding
    <3>5. claims[m].status \in {"unverified", "likely"} => m \in AtLeast(claims, 5)
      BY <3>1, <3>2 DEF Unsafe, Holding
    <3>6. QED
      BY <2>4, <3>4, <3>5 DEF AtLeast
  <2>5. QED
    BY <2>3, <2>4
<1>2. QED
  BY <1>1, FreshAlways, PTL
=============================================================================
