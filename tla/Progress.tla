------------------------------- MODULE Progress -------------------------------
(* What one kernel session knows of the work in hand, and what its talker  *)
(* may say of it: the events of the thinker are judged and reduced into    *)
(* the plan (task_flows), the claims (claim_items) and the evidence, tool  *)
(* executions and todos; the progress row (progress_states) is synthesised *)
(* from plan and claims, and the visibility gate answers from that row.    *)
(*                                                                         *)
(* Every access to the store is an await: a handler reads a row, and other *)
(* handlers may run before it writes what it made of it.  One action is    *)
(* one access; pure computation belongs to the access before it.           *)
(*                                                                         *)
(* Steps are positions in the plan, confidences are integers in tenths.    *)
(* The events are those that the pipeline has validated and logged; texts, *)
(* reference rows and what a call of a model answers are abstracted.       *)
EXTENDS Integers, Sequences, FiniteSets

CONSTANTS
    Handlers,      \* request handlers that run side by side
    Claims,        \* claim_id
    Risks,         \* the claims that are risk assessments
    Evidence,      \* evidence_id
    Actions,       \* action_id of tool executions
    Todos,         \* obligation_id
    Events,        \* the events that may be submitted
    Reviews,       \* verdicts of the model that reviews a belief
    MaxCalls,      \* bound: calls
    RacingCalls,   \* bound: calls overlap only while at most so many are made
    MaxCrashes     \* bound: crashes of the process

Items == Evidence \union Actions \union Todos
Reliabilities == {"high", "medium", "low", "unknown"}
ActionStatus == {"running", "success", "failed"}
TodoStatus == {"pending", "fulfilled", "broken", "cancelled"}
ItemStatus == Reliabilities \union ActionStatus \union TodoStatus

ClaimStatus == {"unverified", "likely", "verified", "conflicting", "retracted"}
Certain == 0..10
ClaimRow == [status : ClaimStatus \union {"absent"}, confidence : Int]
NoClaim == [status |-> "absent", confidence |-> 0]

StepStatus == {"pending", "running", "completed", "failed", "blocked"}
PlanRow == [status : {"none", "active", "blocked", "completed"},
            steps : Seq(StepStatus), current : Nat]
NoPlan == [status |-> "none", steps |-> <<>>, current |-> 0]

PlanKinds == {"PlanAccepted", "ReplanRequest", "StepStarted", "TaskCompleted", "TaskFailed"}
ClaimKinds == {"BeliefUpdated", "ConflictDetected", "VerificationWarningRaised",
               "VerificationResult", "RiskAssessment"}
ActionKinds == {"ToolStarted", "ToolCompleted", "ToolFailed", "ReasoningSummary",
                "RawResultAvailable", "ActionBlocked"}
TodoKinds == {"CommitmentCreated", "CommitmentUpdated"}
JudgedKinds == {"EvidenceAccepted", "BeliefUpdated"}
IdleKinds == {"ToolRetried", "CompletionCheck"}

\* status "same" stands for a payload that names none, step 0 for one that
\* names no step or a run, support {} for a belief without evidence.
PlanEvent == [kind : PlanKinds, step : Nat, steps : Seq(StepStatus)]
ClaimEvent == [kind : ClaimKinds, claim : Claims, status : ClaimStatus \union {"same"},
               confidence : Int, support : SUBSET Evidence]
ItemEvent == [kind : ActionKinds \union TodoKinds \union {"EvidenceAccepted"},
              item : Items, status : ItemStatus, sourced : BOOLEAN]
IdleEvent == [kind : IdleKinds]
Event == PlanEvent \union ClaimEvent \union ItemEvent \union IdleEvent

ASSUME BoundAssumption == {MaxCalls, RacingCalls, MaxCrashes} \subseteq Nat
ASSUME RiskAssumption == Risks \subseteq Claims
ASSUME EventAssumption ==
    /\ Events \subseteq Event
    /\ \A e \in Events :
          /\ e.kind = "RiskAssessment" => e.claim \in Risks
          /\ e.kind = "BeliefUpdated" => e.status # "same"
ASSUME ReviewAssumption == Reviews \subseteq [status : ClaimStatus, confidence : Int]

VARIABLES
    plan,          \* task_flows
    claims,        \* claim_items
    items,         \* evidence_items, execution_actions and todo_obligations
    progress,      \* progress_states
    shelf,         \* the plan in the snapshot of the task that was paused last
    call,          \* what each handler is doing, and the copies it holds
    calls,         \* calls so far
    crashes,
    behind         \* history: since the last refresh that ran alone, calls
                   \* overlapped, one was cut off, or a task was resumed

vars == <<plan, claims, items, progress, shelf, call, calls, crashes, behind>>
rows == <<plan, claims, items, progress, shelf>>

\* The progress row; "claimable" and "barred" tell whether the action
\* claim_task_completed is among the allowed and the forbidden ones.
ProgressRow == [status : {"none", "idle", "running", "blocked", "completed"},
                safe : SUBSET Claims, unsafe : SUBSET Claims,
                needsInput : BOOLEAN, claimable : BOOLEAN, barred : BOOLEAN]
NoProgress == [status |-> "none", safe |-> {}, unsafe |-> {},
               needsInput |-> FALSE, claimable |-> FALSE, barred |-> FALSE]

\* What the talker wants to say: that the task is done, or a claim.
Messages == {"done"} \union Claims

PCs == {"idle", "judge", "read", "savePlan", "saveClaim", "saveItem", "readFlow",
        "saveFlow", "refreshPlan", "refreshClaims", "saveProgress", "saveAgain",
        "ask", "answer", "told", "shelve", "restore"}

Write == [claim : Claims, row : ClaimRow]

Call == [pc : PCs,
         event : Event,              \* the event in hand, as the judges left it
         plan : PlanRow,             \* the plan read, or about to be saved
         writes : Seq(Write),        \* claims about to be saved
         item : Items \union {"none"}, itemStatus : ItemStatus,
         progress : ProgressRow,     \* the progress read or synthesised
         restored : PlanRow,         \* the plan of the task to resume
         message : Messages,
         asks : {"nothing", "summary", "gate"},
         alone : BOOLEAN]            \* nothing else ran since the refresh began

Blank == [pc |-> "idle", event |-> [kind |-> "CompletionCheck"], plan |-> NoPlan,
          writes |-> <<>>, item |-> "none", itemStatus |-> "pending",
          progress |-> NoProgress, restored |-> NoPlan, message |-> "done",
          asks |-> "nothing", alone |-> FALSE]

At(h, pc) == call[h].pc = pc
Goes(h, c) == call' = [call EXCEPT ![h] = c]
AtRest == \A h \in Handlers : At(h, "idle")
Alone(h) == \A g \in Handlers \ {h} : At(g, "idle")
Known(c) == claims[c].status # "absent"

Init ==
    /\ plan = NoPlan
    /\ claims = [c \in Claims |-> NoClaim]
    /\ items = [i \in Items |-> "absent"]
    /\ progress = NoProgress
    /\ shelf = NoPlan
    /\ call = [h \in Handlers |-> Blank]
    /\ calls = 0
    /\ crashes = 0
    /\ behind = FALSE

-----------------------------------------------------------------------------
(* The reducers.                                                           *)

Having(p, status) == {i \in DOMAIN p.steps : p.steps[i] = status}
First(S) == CHOOSE i \in S : \A j \in S : i <= j

\* reduce_plan, PLAN_ACCEPTED and REPLAN_REQUEST: the first step runs unless
\* the payload says that another one does, and is the current one anyhow.
NewPlan(steps) ==
    [status |-> "active",
     steps |-> IF steps # <<>> /\ \A i \in DOMAIN steps : steps[i] # "running"
               THEN [steps EXCEPT ![1] = "running"] ELSE steps,
     current |-> IF steps = <<>> THEN 0 ELSE 1]

\* _resolve_terminal_plan_step: the step a completion or failure is about,
\* 0 when there is none.
TerminalStep(p, step) ==
    CASE step \in DOMAIN p.steps -> step
      [] step = 0 /\ p.current # 0 -> p.current
      [] step = 0 /\ p.current = 0 /\ Having(p, "running") # {} -> First(Having(p, "running"))
      [] OTHER -> 0

StartStep(p, step) ==
    [p EXCEPT !.steps = [p.steps EXCEPT ![step] = "running"],
              !.status = "active", !.current = step]

FailStep(p, step) ==
    [p EXCEPT !.steps = [p.steps EXCEPT ![step] = "failed"],
              !.status = "blocked", !.current = step]

\* Mutant: a completed plan keeps its current step.
CompleteStepKeepingCurrent(p, step) ==
    LET q == [p EXCEPT !.steps = [p.steps EXCEPT ![step] = "completed"]]
    IN  IF Having(q, "pending") = {}
        THEN [q EXCEPT !.status = "completed"]
        ELSE StartStep(q, First(Having(q, "pending")))

\* The next pending step starts; without one the plan is completed.
CompleteStep(p, step) ==
    LET q == [p EXCEPT !.steps = [p.steps EXCEPT ![step] = "completed"]]
    IN  IF Having(q, "pending") = {}
        THEN [q EXCEPT !.status = "completed", !.current = 0]
        ELSE StartStep(q, First(Having(q, "pending")))

ReducePlan(p, e) ==
    LET step == TerminalStep(p, e.step)
    IN  CASE e.kind \in {"PlanAccepted", "ReplanRequest"} -> NewPlan(e.steps)
          [] e.kind = "StepStarted" /\ e.step \in DOMAIN p.steps -> StartStep(p, e.step)
          [] e.kind = "TaskCompleted" /\ step # 0 -> CompleteStep(p, step)
          [] e.kind = "TaskFailed" /\ step # 0 -> FailStep(p, step)
          [] OTHER -> p

\* reduce_beliefs, what an event makes of a claim that has a row.
ReduceClaim(row, e) ==
    CASE e.kind = "ConflictDetected" -> [row EXCEPT !.status = "conflicting"]
      [] e.kind = "VerificationWarningRaised" ->
            [row EXCEPT !.confidence = IF row.confidence < 2 THEN 0 ELSE row.confidence - 2]
      [] e.kind = "VerificationResult" ->
            [status |-> IF e.status = "same" THEN row.status ELSE e.status,
             confidence |-> IF e.confidence > 0 THEN e.confidence ELSE row.confidence]
      [] OTHER -> row

\* Mutant: no integrity check.
Unchecked(row) == row

\* The integrity check of reduce.
Checked(row) ==
    IF row.confidence \in Certain THEN row
    ELSE [status |-> "unverified", confidence |-> 0]

\* A risk assessment saves the first risk it finds in the unordered rows,
\* checked, and then the new one, which is checked only if it is the first.
RiskWrites(e) ==
    LET new == [status |-> "unverified", confidence |-> e.confidence]
        earlier == {r \in Risks \union {e.claim} : Known(r)}
        Saves(c, row) == [claim |-> c, row |-> row]
    IN  IF earlier = {}
        THEN {<<Saves(e.claim, Checked(new)), Saves(e.claim, Checked(new))>>}
        ELSE {<<Saves(r, Checked(claims[r])), Saves(e.claim, new)>> : r \in earlier}

\* The rows an event saves, in order.
ClaimWrites(e) ==
    LET Saves(row) == {<<[claim |-> e.claim, row |-> Checked(row)]>>}
    IN  CASE e.kind = "RiskAssessment" -> RiskWrites(e)
          [] e.kind = "BeliefUpdated" ->
                Saves([status |-> e.status, confidence |-> e.confidence])
          [] e.kind \notin {"RiskAssessment", "BeliefUpdated"} /\ Known(e.claim) ->
                Saves(ReduceClaim(claims[e.claim], e))
          [] OTHER -> {<<>>}

\* reduce_execution and reduce_commitments, as far as reduce saves it: of two
\* rows with one identifier it saves the older, unchanged one.
ReduceItem(old, e) ==
    CASE e.kind = "EvidenceAccepted" -> e.status
      [] e.kind = "ToolCompleted" -> "success"
      [] e.kind = "ToolFailed" -> "failed"
      [] e.kind = "CommitmentUpdated" -> e.status
      [] e.kind \notin {"EvidenceAccepted", "ToolCompleted", "ToolFailed", "CommitmentUpdated"}
            /\ old # "absent" -> old
      [] e.kind = "ToolStarted" /\ old = "absent" -> "running"
      [] e.kind = "ActionBlocked" /\ old = "absent" -> "failed"
      [] e.kind \in {"ReasoningSummary", "RawResultAvailable"} /\ old = "absent" -> "success"
      [] e.kind = "CommitmentCreated" /\ old = "absent" -> "pending"

\* The rows an event may save: its own, or, when a tool ends that has none,
\* the last of those there are.
ItemWrites(e) ==
    LET known == {a \in Actions : items[a] # "absent"}
    IN  IF items[e.item] # "absent" \/ e.kind \notin {"ToolCompleted", "ToolFailed", "CommitmentUpdated"}
        THEN {[item |-> e.item, status |-> ReduceItem(items[e.item], e)]}
        ELSE IF e.kind = "CommitmentUpdated" THEN {}
        ELSE {[item |-> a, status |-> items[a]] : a \in known}

-----------------------------------------------------------------------------
(* synthesize_progress.                                                    *)

Holding(rowOf, status) == {c \in Claims : rowOf[c].status = status}
AtLeast(rowOf, n) == {c \in Claims : rowOf[c].confidence >= n}

Verified(rowOf) == Holding(rowOf, "verified")
Safe(rowOf, planned) ==
    (Verified(rowOf) \intersect AtLeast(rowOf, 8))
    \union (IF planned THEN Holding(rowOf, "likely") \intersect AtLeast(rowOf, 5) ELSE {})
Unsafe(rowOf, planned) ==
    Holding(rowOf, "conflicting")
    \union (Holding(rowOf, "likely") \ AtLeast(rowOf, 5))
    \union (IF planned THEN Holding(rowOf, "unverified") \ AtLeast(rowOf, 5)
            ELSE Holding(rowOf, "unverified"))

Synthesized(p, rowOf) ==
    LET planned == p # NoPlan
        some == \E c \in Claims : rowOf[c] # NoClaim
        safe == Safe(rowOf, planned)
        unsafe == Unsafe(rowOf, planned)
    IN  [status |-> CASE p.status = "active" -> "running"
                      [] p.status = "none" -> (IF some THEN "running" ELSE "idle")
                      [] OTHER -> p.status,
         safe |-> safe,
         unsafe |-> unsafe,
         needsInput |-> IF planned THEN unsafe # {} /\ safe = {}
                        ELSE some /\ Verified(rowOf) = {},
         claimable |-> p.status = "completed",
         barred |-> planned /\ Verified(rowOf) = {}]

-----------------------------------------------------------------------------
(* An event passes the pipeline.                                           *)

\* A new call: every refresh under way stops being alone.
Starts(h, c) ==
    /\ calls < MaxCalls
    /\ AtRest \/ calls < RacingCalls
    /\ At(h, "idle")
    /\ calls' = calls + 1
    /\ call' = [g \in Handlers |-> IF g = h THEN c ELSE [call[g] EXCEPT !.alone = FALSE]]
    /\ behind' = (behind \/ ~AtRest)

Submit(h) ==
    /\ \E e \in Events :
          Starts(h, [Blank EXCEPT !.pc = IF e.kind \in JudgedKinds THEN "judge" ELSE "read",
                                  !.event = e])
    /\ UNCHANGED <<rows, crashes>>

\* ReliabilityJudge, DedupJudge and ContentReliabilityJudge: a source is
\* scored, or found to repeat evidence that is there; the model may doubt a
\* medium one.
JudgedEvidence(e) ==
    LET verdicts == IF e.sourced THEN {"high", "medium", "low"}
                    ELSE IF e.status = "medium" THEN {"medium", "low"}
                    ELSE {e.status}
    IN  {[e EXCEPT !.status = s] : s \in verdicts}

\* BeliefReviewJudge: what is not supported loses its confidence; what is
\* supported, unless the evidence states no facts, may be found to claim too
\* much, and the model may correct its status, or a confidence far from its own.
JudgedBelief(e) ==
    LET AtMost(n) == IF e.confidence < n THEN e.confidence ELSE n
        Near(n) == n - e.confidence \in {-1, 0, 1}
        Unfounded == [e EXCEPT !.confidence = AtMost(4)]
        Reviewed(v) == [e EXCEPT !.status = v.status,
                                 !.confidence = IF Near(v.confidence) THEN @ ELSE v.confidence]
    IN  IF e.support = {}
        THEN {[e EXCEPT !.status = "unverified", !.confidence = 3]}
        ELSE IF \A x \in e.support : items[x] = "absent"
        THEN {Unfounded}
        ELSE {Unfounded, e, [e EXCEPT !.status = "conflicting", !.confidence = AtMost(6)]}
             \union {Reviewed(v) : v \in Reviews}

Judged(e) == IF e.kind = "EvidenceAccepted" THEN JudgedEvidence(e) ELSE JudgedBelief(e)

(* arbitrate: the judges see the evidence as it is now.  A remote judge    *)
(* may reject the event, which then only refreshes the progress.           *)
Judge(h) ==
    /\ At(h, "judge")
    /\ \/ \E e \in Judged(call[h].event) :
             Goes(h, [call[h] EXCEPT !.pc = "read", !.event = e])
       \/ Goes(h, [call[h] EXCEPT !.pc = "refreshPlan"])
    /\ UNCHANGED <<rows, calls, crashes, behind>>

(* reduce reads all rows; those of the kind of the event matter.           *)
ReadPlan(h) ==
    /\ At(h, "read")
    /\ call[h].event.kind \in PlanKinds
    /\ LET p == ReducePlan(plan, call[h].event)
       IN  Goes(h, IF p = NoPlan THEN [call[h] EXCEPT !.pc = "refreshPlan"]
                   ELSE [call[h] EXCEPT !.pc = "savePlan", !.plan = p])
    /\ UNCHANGED <<rows, calls, crashes, behind>>

ReadClaims(h) ==
    /\ At(h, "read")
    /\ call[h].event.kind \in ClaimKinds
    /\ \E writes \in ClaimWrites(call[h].event) :
          Goes(h, IF writes = <<>> THEN [call[h] EXCEPT !.pc = "refreshPlan"]
                  ELSE [call[h] EXCEPT !.pc = "saveClaim", !.writes = writes])
    /\ UNCHANGED <<rows, calls, crashes, behind>>

ReadItems(h) ==
    /\ At(h, "read")
    /\ call[h].event.kind \notin PlanKinds \union ClaimKinds \union IdleKinds
    /\ LET writes == ItemWrites(call[h].event)
       IN  IF writes = {}
           THEN Goes(h, [call[h] EXCEPT !.pc = "refreshPlan"])
           ELSE \E w \in writes :
                   Goes(h, [call[h] EXCEPT !.pc = "saveItem", !.item = w.item,
                                           !.itemStatus = w.status])
    /\ UNCHANGED <<rows, calls, crashes, behind>>

\* TOOL_RETRIED counts on a copy that is not saved, COMPLETION_CHECK changes
\* nothing: both only refresh the progress.
ReadNothing(h) ==
    /\ At(h, "read")
    /\ call[h].event.kind \in IdleKinds
    /\ Goes(h, [call[h] EXCEPT !.pc = "refreshPlan"])
    /\ UNCHANGED <<rows, calls, crashes, behind>>

SavePlan(h) ==
    /\ At(h, "savePlan")
    /\ plan' = call[h].plan
    /\ Goes(h, [call[h] EXCEPT !.pc = "refreshPlan"])
    /\ UNCHANGED <<claims, items, progress, shelf, calls, crashes, behind>>

\* Mutant: a claim is saved and the progress is not refreshed.
SaveClaimOnly(h) ==
    /\ At(h, "saveClaim")
    /\ LET w == Head(call[h].writes)
           left == Tail(call[h].writes)
       IN  /\ claims' = [claims EXCEPT ![w.claim] = w.row]
           /\ Goes(h, IF left = <<>> THEN Blank ELSE [call[h] EXCEPT !.writes = left])
    /\ UNCHANGED <<plan, items, progress, shelf, calls, crashes, behind>>

SaveClaim(h) ==
    /\ At(h, "saveClaim")
    /\ LET w == Head(call[h].writes)
           left == Tail(call[h].writes)
       IN  /\ claims' = [claims EXCEPT ![w.claim] = w.row]
           /\ Goes(h, [call[h] EXCEPT !.writes = left,
                                      !.pc = IF left = <<>> THEN "refreshPlan" ELSE "saveClaim"])
    /\ UNCHANGED <<plan, items, progress, shelf, calls, crashes, behind>>

\* save_execution goes on to rewrite the whole row of the plan with a new
\* summary of the executions.
SaveItem(h) ==
    /\ At(h, "saveItem")
    /\ items' = [items EXCEPT ![call[h].item] = call[h].itemStatus]
    /\ Goes(h, [call[h] EXCEPT !.pc = IF call[h].event.kind \in ActionKinds
                                      THEN "readFlow" ELSE "refreshPlan"])
    /\ UNCHANGED <<plan, claims, progress, shelf, calls, crashes, behind>>

ReadFlow(h) ==
    /\ At(h, "readFlow")
    /\ Goes(h, [call[h] EXCEPT !.pc = IF plan = NoPlan THEN "refreshPlan" ELSE "saveFlow",
                               !.plan = plan])
    /\ UNCHANGED <<rows, calls, crashes, behind>>

SaveFlow(h) ==
    /\ At(h, "saveFlow")
    /\ plan' = call[h].plan
    /\ Goes(h, [call[h] EXCEPT !.pc = "refreshPlan"])
    /\ UNCHANGED <<claims, items, progress, shelf, calls, crashes, behind>>

-----------------------------------------------------------------------------
(* refresh_progress.                                                       *)

RefreshPlan(h) ==
    /\ At(h, "refreshPlan")
    /\ Goes(h, [call[h] EXCEPT !.pc = "refreshClaims", !.plan = plan, !.alone = Alone(h)])
    /\ UNCHANGED <<rows, calls, crashes, behind>>

RefreshClaims(h) ==
    /\ At(h, "refreshClaims")
    /\ Goes(h, [call[h] EXCEPT !.pc = "saveProgress",
                               !.progress = Synthesized(call[h].plan, claims)])
    /\ UNCHANGED <<rows, calls, crashes, behind>>

SaveProgress(h) ==
    /\ At(h, "saveProgress")
    /\ progress' = call[h].progress
    /\ behind' = (behind /\ ~call[h].alone)
    /\ Goes(h, CASE call[h].asks = "nothing" -> Blank
                 [] call[h].asks = "summary" -> [call[h] EXCEPT !.pc = "saveAgain"]
                 [] call[h].asks = "gate" -> [call[h] EXCEPT !.pc = "answer"])
    /\ UNCHANGED <<plan, claims, items, shelf, calls, crashes>>

-----------------------------------------------------------------------------
(* The talker and other readers.                                           *)

(* summarize, for the talker's and the external view: a refresh, the wait  *)
(* for a model that words a summary, and the same row saved once more.     *)
Summarize(h) ==
    /\ Starts(h, [Blank EXCEPT !.pc = "refreshPlan", !.asks = "summary"])
    /\ UNCHANGED <<rows, crashes>>

SaveAgain(h) ==
    /\ At(h, "saveAgain")
    /\ progress' = call[h].progress
    /\ Goes(h, Blank)
    /\ UNCHANGED <<plan, claims, items, shelf, calls, crashes, behind>>

(* gate: may the talker say this?  It answers from the row, and refreshes  *)
(* it only when there is none.                                             *)
Ask(h) ==
    /\ \E m \in Messages :
          Starts(h, [Blank EXCEPT !.pc = "ask", !.asks = "gate", !.message = m])
    /\ UNCHANGED <<rows, crashes>>

AskProgress(h) ==
    /\ At(h, "ask")
    /\ Goes(h, IF progress = NoProgress THEN [call[h] EXCEPT !.pc = "refreshPlan"]
               ELSE [call[h] EXCEPT !.pc = "answer", !.progress = progress])
    /\ UNCHANGED <<rows, calls, crashes, behind>>

\* Mutant: the gate goes by the forbidden actions.
AllowedUnlessBarred(p, m) == IF m = "done" THEN ~p.barred ELSE m \notin p.unsafe

\* The rules of the gate.
Allowed(p, m) == IF m = "done" THEN p.status = "completed" ELSE m \notin p.unsafe

\* A message that passes the rules can still be found to contradict a claim.
Answer(h) ==
    /\ At(h, "answer")
    /\ \/ /\ Allowed(call[h].progress, call[h].message)
          /\ Goes(h, [call[h] EXCEPT !.pc = "told"])
       \/ /\ Allowed(call[h].progress, call[h].message) => \E c \in Claims : Known(c)
          /\ Goes(h, Blank)
    /\ UNCHANGED <<rows, calls, crashes, behind>>

Say(h) ==
    /\ At(h, "told")
    /\ Goes(h, Blank)
    /\ UNCHANGED <<rows, calls, crashes, behind>>

-----------------------------------------------------------------------------
(* Another task is taken up.                                               *)

(* The task in hand is paused with the plan of the session in its          *)
(* snapshot; the task to resume, if any, was read before.  A new task      *)
(* starts with the plan that is there.                                     *)
Switch(h) ==
    /\ \E restored \in {NoPlan, shelf} :
          Starts(h, [Blank EXCEPT !.pc = "shelve", !.plan = plan, !.restored = restored])
    /\ UNCHANGED <<rows, crashes>>

Shelve(h) ==
    /\ At(h, "shelve")
    /\ shelf' = call[h].plan
    /\ Goes(h, IF call[h].restored = NoPlan THEN Blank
               ELSE [call[h] EXCEPT !.pc = "restore"])
    /\ UNCHANGED <<plan, claims, items, progress, calls, crashes, behind>>

(* restore_task_into_session: the plan is active again, whatever it was,   *)
(* and the progress is not refreshed.                                      *)
Restore(h) ==
    /\ At(h, "restore")
    /\ plan' = [call[h].restored EXCEPT !.status = "active"]
    /\ behind' = TRUE
    /\ Goes(h, Blank)
    /\ UNCHANGED <<claims, items, progress, shelf, calls, crashes>>

-----------------------------------------------------------------------------
Crash ==
    /\ crashes < MaxCrashes
    /\ ~AtRest
    /\ crashes' = crashes + 1
    /\ call' = [h \in Handlers |-> Blank]
    /\ behind' = TRUE
    /\ UNCHANGED <<rows, calls>>

Step(h) ==
    \/ Judge(h) \/ ReadPlan(h) \/ ReadClaims(h) \/ ReadItems(h) \/ ReadNothing(h)
    \/ SavePlan(h) \/ SaveClaim(h) \/ SaveItem(h) \/ ReadFlow(h) \/ SaveFlow(h)
    \/ RefreshPlan(h) \/ RefreshClaims(h) \/ SaveProgress(h) \/ SaveAgain(h)
    \/ AskProgress(h) \/ Answer(h) \/ Say(h) \/ Shelve(h) \/ Restore(h)

Next ==
    \/ \E h \in Handlers : Submit(h) \/ Summarize(h) \/ Ask(h) \/ Switch(h) \/ Step(h)
    \/ Crash

Spec == Init /\ [][Next]_vars

-----------------------------------------------------------------------------
(* Properties.                                                             *)

\* Confidences are of any size in the payloads of events, and in the rows of
\* risk assessments; the row of any other claim has one between 0 and 1.
RowFits(c, row) == row \in ClaimRow /\ (c \notin Risks => row.confidence \in Certain)

TypeOK ==
    /\ plan \in PlanRow /\ shelf \in PlanRow
    /\ claims \in [Claims -> ClaimRow]
    /\ \A c \in Claims : RowFits(c, claims[c])
    /\ items \in [Items -> ItemStatus \union {"absent"}]
    /\ progress \in ProgressRow
    /\ calls \in 0..MaxCalls /\ crashes \in 0..MaxCrashes /\ behind \in BOOLEAN
    /\ call \in [Handlers -> Call]
    /\ \A h \in Handlers : \A i \in DOMAIN call[h].writes :
          RowFits(call[h].writes[i].claim, call[h].writes[i].row)

\* A plan and its steps agree: a completed plan has no pending step and no
\* current one, the current step of a blocked plan failed, and a current step
\* is a step of the plan.
Fits(p) ==
    /\ p.current \in DOMAIN p.steps \union {0}
    /\ p.status = "completed" => p.current = 0 /\ Having(p, "pending") = {}
    /\ p.status = "blocked" => p.current # 0 /\ p.steps[p.current] = "failed"

\* Whatever events overlap, repeat, arrive in another order or name steps the
\* plan lacks, and whichever stale copy of the plan a tool event writes back:
\* the status of the plan fits its steps.
StatusFitsSteps == Fits(plan)

\* Between two calls the progress row says what plan and claims say now,
\* unless calls overlapped, one was cut off, or a task was resumed, since a
\* refresh last ran alone: one undisturbed call that refreshes repairs it.
ProgressCurrent ==
    AtRest /\ ~behind /\ progress # NoProgress => progress = Synthesized(plan, claims)

\* Under the same condition, when the talker has been told that it may say
\* that the task is done, no step of the plan is pending; and when it may
\* quote a claim, that claim is not conflicting, nor a guess below one half.
GateTruthful ==
    \A h \in Handlers :
        At(h, "told") /\ Alone(h) /\ ~behind =>
            LET m == call[h].message
            IN  IF m = "done" THEN plan.status = "completed" /\ Having(plan, "pending") = {}
                ELSE /\ claims[m].status # "conflicting"
                     /\ claims[m].status \in {"unverified", "likely"} => claims[m].confidence >= 5
=============================================================================
