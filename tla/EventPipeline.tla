--------------------------- MODULE EventPipeline ---------------------------
(***************************************************************************)
(* One kernel session as the HTTP requests of its clients see it: the      *)
(* cognitive event log, the session_links row and the task brief, written  *)
(* by submit_event / run_pipeline, append_kernel_event, activate_run,      *)
(* complete_run and archive_session.                                       *)
(*                                                                         *)
(* The server is one asyncio process without locks, so a request can be    *)
(* suspended at every await on the store.  Each save commits on its own.   *)
(* A step of a request is therefore one write to the store, or one group   *)
(* of consecutive reads; between two steps any other request may run, and  *)
(* a crash may drop every request in flight and keep what was committed.   *)
(***************************************************************************)
EXTENDS Integers, Sequences, FiniteSets, FiniteSetsExt

CONSTANTS
    Requests,     \* the requests the clients send, each of them once
    Sends,        \* the kinds of request among them
    Goals,        \* the goals a user message can carry
    Reported,     \* the session_status values a completed run is reported with
    Stated,       \* the intent versions a submission can state, 0 for none
    NoRun,        \* the empty run id
    NoGoal,       \* a message, or a brief, without a goal of its own
    MaxInFlight,  \* bound: requests the server works on at the same time
    MaxCrashes    \* bound: crashes of the server process

ASSUME SentinelAssumption == NoRun \notin Requests /\ NoGoal \notin Goals

(* A dispatched message starts a run of its own (a fresh uuid), so a run   *)
(* is named by the request that started it.                                *)
Runs == Requests

Statuses == {"running", "paused", "completed", "failed", "cancelled"}
ClosedStatuses == {"paused", "cancelled", "completed", "failed"}

Kinds == {"event", "message", "approval", "dispatch", "complete", "archive"}

ASSUME SendsAssumption == Sends \subseteq Kinds
ASSUME ReportedAssumption == Reported \subseteq Statuses
ASSUME StatedAssumption == Stated \subseteq Nat
ASSUME BoundAssumption == MaxInFlight \in Nat /\ MaxCrashes \in Nat

(* One type for each way an event touches the session: "ToolStarted" is    *)
(* any event without an effect on the rows modelled here, "BeliefProposed" *)
(* any proposal.                                                           *)
ThinkerTypes == {"ToolStarted", "BeliefProposed", "IntentUpdated", "SessionCancelled"}
RunExemptTypes == {"IntentUpdated", "SessionCancelled"}
KernelTypes == {"SessionCreated", "RunInterrupted", "ApprovalGranted",
                "BeliefUpdated", "ConflictDetected"}
EventTypes == ThinkerTypes \union KernelTypes

Actors == {"thinker", "talker", "kernel_manager"}

VARIABLES
    log,        \* cognitive_events, in insertion order
    session,    \* the session_links row
    brief,      \* task_brief_states: what reduce_intent maintains
    req,        \* where each request is in its handler, and what it holds
    activated,  \* the runs activate_run has made active so far
    runGoals,   \* history: the brief's goals since the last run got its own
    restored,   \* history: how often a resumed task's intent replaced the brief
    crashes

history == <<activated, runGoals, restored, crashes>>
vars == <<log, session, brief, req, history>>

RunIds == Runs \union {NoRun}
GoalIds == Goals \union {NoGoal}

(* "by" is the request that appended the event: the properties use it.     *)
LogEntry == [type: EventTypes, actor: Actors, run: RunIds, intentVersion: Nat,
             version: Nat, by: Requests \union {NoRun}]
Session == [status: Statuses, activeRun: RunIds, token: BOOLEAN,
            stateVersion: Nat, intentVersion: Nat]
Brief == [version: Nat, goal: GoalIds]

PCs == {"idle", "plan", "pause", "restoreRead", "restoreBrief", "activate",
        "validate", "snapshot", "assign", "append",
        "arbitrate", "reduce", "saveBrief", "cancelStatus", "raiseToken",
        "intentRead", "intentStatus", "statusRead", "statusWrite",
        "taskRead", "taskStatus", "completeRead", "completeWrite", "archive", "done"}

(* Where a handler goes on when the session row is written back: it has    *)
(* answered, it has yet to take over, or it has yet to record its task.    *)
Continuations == {"done", "activate", "taskRead"}

(* The local variables of a handler: the event it is about to log (type,   *)
(* actor, run, intentVersion, goal, version), the session status it has    *)
(* read, the brief it is about to save, whether that brief's goal differs  *)
(* from the one it replaces, the events still to be logged, whether it     *)
(* resumes a task, and what it does after the write-back.                  *)
Request == [pc: PCs, type: EventTypes, actor: Actors, run: RunIds,
            intentVersion: Nat, goal: GoalIds, version: Nat, seenStatus: Statuses,
            draft: Brief, retargeted: BOOLEAN, rest: Seq(EventTypes),
            resumes: BOOLEAN, next: Continuations]

Blank == [pc |-> "idle", type |-> "SessionCreated",
          actor |-> "kernel_manager", run |-> NoRun, intentVersion |-> 0,
          goal |-> NoGoal, version |-> 0, seenStatus |-> "running",
          draft |-> [version |-> 0, goal |-> NoGoal], retargeted |-> FALSE,
          rest |-> <<>>, resumes |-> FALSE, next |-> "done"]

TypeOK ==
    /\ log \in Seq(LogEntry)
    /\ session \in Session
    /\ brief \in Brief
    /\ req \in [Requests -> Request]
    /\ activated \in SUBSET Runs
    /\ runGoals \in SUBSET GoalIds
    /\ restored \in Nat
    /\ crashes \in Nat

----------------------------------------------------------------------------
(* POST /kernel/sessions has returned: the row, SessionCreated as version  *)
(* 1, and the empty brief reduce_intent makes of it.                       *)
Init ==
    /\ log = << [type |-> "SessionCreated", actor |-> "kernel_manager", run |-> NoRun,
                 intentVersion |-> 0, version |-> 1, by |-> NoRun] >>
    /\ session = [status |-> "running", activeRun |-> NoRun, token |-> FALSE,
                  stateVersion |-> 1, intentVersion |-> 0]
    /\ brief = [version |-> 0, goal |-> NoGoal]
    /\ req = [q \in Requests |-> Blank]
    /\ activated = {}
    /\ runGoals = {}
    /\ restored = 0
    /\ crashes = 0

At(q, pc) == req[q].pc = pc
InFlight == {q \in Requests : req[q].pc \notin {"idle", "done"}}
Finished == [Blank EXCEPT !.pc = "done"]

(* The handler of q goes on as r.                                          *)
Becomes(q, r) == req' = [req EXCEPT ![q] = r]

Versions == {log[i].version : i \in DOMAIN log}

(* SELECT MAX(state_version), 0 for a session without events.              *)
LatestVersion == IF log = <<>> THEN 0 ELSE Max(Versions)

----------------------------------------------------------------------------
(* Clients.                                                                *)

Arrive(q, kind) ==
    /\ kind \in Sends
    /\ At(q, "idle")
    /\ Cardinality(InFlight) < MaxInFlight

(* POST /kms/request from a thinker, or POST .../cancel: an event with any *)
(* run id the thinker has read and any intent version, a later one than    *)
(* the brief's included.  One that is not positive counts as none stated.  *)
SubmitThinkerEvent(q) ==
    /\ Arrive(q, "event")
    /\ \E type \in ThinkerTypes, run \in activated \union {NoRun},
          stated \in Stated, goal \in GoalIds :
          /\ type # "IntentUpdated" => goal = NoGoal
          /\ Becomes(q, [Blank EXCEPT !.pc = "validate", !.type = type,
                                   !.actor = "thinker", !.run = run,
                                   !.intentVersion = stated, !.goal = goal])
    /\ UNCHANGED <<log, session, brief, history>>

(* POST /kms/request from the talker: SUBMIT_USER_MESSAGE.                 *)
SubmitUserMessage(q) ==
    /\ Arrive(q, "message")
    /\ \E goal \in GoalIds, stated \in Stated :
          Becomes(q, [Blank EXCEPT !.pc = "validate", !.goal = goal, !.intentVersion = stated,
                                   !.type = "IntentUpdated", !.actor = "talker"])
    /\ UNCHANGED <<log, session, brief, history>>

(* A decision on an approval: append_kernel_event.                         *)
SubmitKernelEvent(q) ==
    /\ Arrive(q, "approval")
    /\ Becomes(q, [Blank EXCEPT !.pc = "snapshot", !.type = "ApprovalGranted"])
    /\ UNCHANGED <<log, session, brief, history>>

(* POST /kms/dispatch-user-message for a message that needs a thinker.     *)
DispatchUserMessage(q) ==
    /\ Arrive(q, "dispatch")
    /\ Becomes(q, [Blank EXCEPT !.pc = "plan"])
    /\ UNCHANGED <<log, session, brief, history>>

(* POST /kms/complete-run, or the run part of completing a dispatch.       *)
CompleteRun(q) ==
    /\ Arrive(q, "complete")
    /\ \E run \in activated :
          Becomes(q, [Blank EXCEPT !.pc = "completeRead", !.run = run])
    /\ UNCHANGED <<log, session, brief, history>>

ArchiveSession(q) ==
    /\ Arrive(q, "archive")
    /\ Becomes(q, [Blank EXCEPT !.pc = "archive"])
    /\ UNCHANGED <<log, session, brief, history>>

----------------------------------------------------------------------------
(* The dispatcher: plan the task switch, interrupt the run it saw, take    *)
(* over.  Every write uses the session row it read when it planned.        *)

(* Fault: the dispatcher takes over without recording the interruption.    *)
InterruptingNot(r) == [r EXCEPT !.pc = "activate"]

(* activate_run starts with RUN_INTERRUPTED when there is a run to replace.*)
Interrupting(r) ==
    IF r.run = NoRun
    THEN [r EXCEPT !.pc = "activate"]
    ELSE [r EXCEPT !.pc = "snapshot", !.type = "RunInterrupted", !.next = "activate"]

(* A task that is resumed is restored before the run is interrupted.       *)
Switching(r) == IF r.resumes THEN [r EXCEPT !.pc = "restoreRead"] ELSE Interrupting(r)

(* Nothing to resume, or: steer the active task, pause it and start        *)
(* another, or put a paused or routed task in its place.  There is a task  *)
(* to pause or to resume once something was dispatched.                    *)
Plan(q) ==
    /\ At(q, "plan")
    /\ \/ Becomes(q, Finished)
       \/ \E pauses, resumes \in IF activated = {} THEN {FALSE} ELSE BOOLEAN :
             LET r == [req[q] EXCEPT !.run = session.activeRun, !.resumes = resumes,
                                     !.seenStatus = session.status]
             IN  Becomes(q, IF pauses THEN [r EXCEPT !.pc = "pause"] ELSE Switching(r))
    /\ UNCHANGED <<log, session, brief, history>>

(* snapshot_current_task writes back the status the dispatcher had read.   *)
Pause(q) ==
    /\ At(q, "pause")
    /\ session' = [session EXCEPT !.status = req[q].seenStatus]
    /\ Becomes(q, Switching(req[q]))
    /\ UNCHANGED <<log, brief, history>>

(* restore_task_into_session: the task's goal becomes the brief of the     *)
(* session under the next intent version, and no event records it.         *)
RestoreRead(q) ==
    /\ At(q, "restoreRead")
    /\ \E goal \in GoalIds :
          Becomes(q, [req[q] EXCEPT !.pc = "restoreBrief",
                                    !.draft = [version |-> brief.version + 1, goal |-> goal]])
    /\ UNCHANGED <<log, session, brief, history>>

RestoreBrief(q) ==
    /\ At(q, "restoreBrief")
    /\ brief' = req[q].draft
    /\ restored' = restored + 1
    /\ runGoals' = runGoals \union {req[q].draft.goal}
    /\ Becomes(q, [req[q] EXCEPT !.pc = "intentRead"])
    /\ UNCHANGED <<log, session, activated, crashes>>

(* The message is then submitted through the pipeline, unless the          *)
(* dispatcher resumes; a message that starts a task has one to record.     *)
Activate(q) ==
    /\ At(q, "activate")
    /\ session' = [session EXCEPT !.status = "running", !.activeRun = q, !.token = FALSE]
    /\ activated' = activated \union {q}
    /\ runGoals' = {brief.goal}
    /\ IF req[q].resumes
       THEN Becomes(q, Finished)
       ELSE \E goal \in GoalIds, next \in {"done", "taskRead"} :
               Becomes(q, [Blank EXCEPT !.pc = "validate", !.goal = goal,
                                        !.type = "IntentUpdated", !.actor = "talker",
                                        !.next = next])
    /\ UNCHANGED <<log, brief, restored, crashes>>

(* create_task_from_user_message points the row at the new task and writes *)
(* back the status the dispatcher read after the message was submitted.    *)
TaskRead(q) ==
    /\ At(q, "taskRead")
    /\ Becomes(q, [req[q] EXCEPT !.pc = "taskStatus", !.seenStatus = session.status])
    /\ UNCHANGED <<log, session, brief, history>>

TaskStatus(q) ==
    /\ At(q, "taskStatus")
    /\ session' = [session EXCEPT !.status = req[q].seenStatus]
    /\ Becomes(q, Finished)
    /\ UNCHANGED <<log, brief, history>>

----------------------------------------------------------------------------
(* run_pipeline.                                                           *)

(* Fault: the run id of a thinker event is not looked at.                  *)
RunAcceptedUnchecked(r) == TRUE

RunAccepted(r) ==
    \/ session.activeRun = NoRun
    \/ r.type \in RunExemptTypes
    \/ r.run = session.activeRun

(* Fault: events based on an older intent pass.                            *)
ValidWithoutIntentCheck(r) ==
    r.actor = "thinker" => session.status \notin ClosedStatuses /\ RunAccepted(r)

(* pipeline_stages/validate.py, on the rows as they are now.               *)
Valid(r) ==
    /\ r.actor = "thinker" =>
          /\ session.status \notin ClosedStatuses
          /\ RunAccepted(r)
    /\ ~(r.intentVersion > 0 /\ brief.version > 0 /\ r.intentVersion < brief.version)

(* Fault: the reducer runs before the event is in the log.                 *)
ValidateReducingFirst(q) ==
    /\ At(q, "validate")
    /\ Becomes(q, IF Valid(req[q]) THEN [req[q] EXCEPT !.pc = "reduce"] ELSE Finished)
    /\ UNCHANGED <<log, session, brief, history>>

Validate(q) ==
    /\ At(q, "validate")
    /\ Becomes(q, IF Valid(req[q]) THEN [req[q] EXCEPT !.pc = "assign"] ELSE Finished)
    /\ UNCHANGED <<log, session, brief, history>>

CurrentIntentVersion ==
    IF brief.version # 0 THEN brief.version ELSE session.intentVersion

StampedIntentVersion(r) ==
    IF r.type = "IntentUpdated" THEN CurrentIntentVersion + 1
    ELSE IF r.intentVersion = 0 THEN CurrentIntentVersion
    ELSE r.intentVersion

(* Fault: the version is the number of rows, not MAX(state_version), + 1.  *)
StampedByLength(r) == [r EXCEPT !.version = Len(log) + 1]

(* assign_event_metadata: the version is reserved here, used at Append.    *)
Stamped(r) ==
    [r EXCEPT !.version = LatestVersion + 1,
              !.run = IF @ = NoRun /\ r.actor = "thinker" THEN session.activeRun ELSE @,
              !.intentVersion = StampedIntentVersion(r)]

AssignMetadata(q) ==
    /\ At(q, "assign")
    /\ Becomes(q, [Stamped(req[q]) EXCEPT !.pc = "append"])
    /\ UNCHANGED <<log, session, brief, history>>

(* Fault: a proposal reaches the log only through its final event.         *)
AppendEventOnceJudged(q) ==
    /\ At(q, "append")
    /\ log' = IF req[q].type = "BeliefProposed" THEN log
              ELSE Append(log, [type |-> req[q].type, actor |-> req[q].actor,
                                run |-> req[q].run, intentVersion |-> req[q].intentVersion,
                                version |-> req[q].version, by |-> q])
    /\ Becomes(q, [req[q] EXCEPT !.pc =
                  IF req[q].type = "BeliefProposed" THEN "arbitrate" ELSE "reduce"])
    /\ UNCHANGED <<session, brief, history>>

(* append_event.  A proposal is judged before anything is derived from it. *)
AppendEvent(q) ==
    /\ At(q, "append")
    /\ log' = Append(log, [type |-> req[q].type, actor |-> req[q].actor,
                           run |-> req[q].run, intentVersion |-> req[q].intentVersion,
                           version |-> req[q].version, by |-> q])
    /\ Becomes(q, [req[q] EXCEPT !.pc =
                  IF req[q].type = "BeliefProposed" THEN "arbitrate" ELSE "reduce"])
    /\ UNCHANGED <<session, brief, history>>

(* The judges: a rejected proposal leaves only its own log entry; an       *)
(* accepted one is promoted to a final event, perhaps with a conflict.     *)
Arbitrate(q) ==
    /\ At(q, "arbitrate")
    /\ \/ Becomes(q, [req[q] EXCEPT !.pc = "statusRead"])
       \/ \E rest \in {<<>>, <<"ConflictDetected">>} :
             Becomes(q, [req[q] EXCEPT !.pc = "assign", !.type = "BeliefUpdated",
                                       !.actor = "kernel_manager", !.run = NoRun,
                                       !.rest = rest])
    /\ UNCHANGED <<log, session, brief, history>>

(* Fault: an update takes the version below the current one.               *)
ReduceIntentDownwards(b, type, goal) ==
    IF type = "IntentUpdated" THEN [version |-> b.version - 1, goal |-> goal] ELSE b

(* reduce_intent: a message without a goal of its own keeps the goal.      *)
ReduceIntent(b, type, goal) ==
    IF type = "IntentUpdated"
    THEN [version |-> b.version + 1, goal |-> IF goal = NoGoal THEN b.goal ELSE goal]
    ELSE b

(* Fault: old and new goal are compared after the in-place update.         *)
ReduceAliased(q) ==
    /\ At(q, "reduce")
    /\ Becomes(q, [req[q] EXCEPT !.pc = "saveBrief", !.retargeted = FALSE,
                                 !.draft = ReduceIntent(brief, req[q].type, req[q].goal)])
    /\ UNCHANGED <<log, session, brief, history>>

(* reduce reads the brief for every event, and saves it for every event.   *)
Reduce(q) ==
    LET draft == ReduceIntent(brief, req[q].type, req[q].goal)
    IN  /\ At(q, "reduce")
        /\ Becomes(q, [req[q] EXCEPT !.pc = "saveBrief", !.draft = draft,
                                     !.retargeted = /\ brief.goal # NoGoal
                                                    /\ draft.goal # brief.goal])
        /\ UNCHANGED <<log, session, brief, history>>

(* What follows the reduction of an event: the next event of the pipeline, *)
(* or the engine's write-back of the session row.                          *)
AfterReduce(r) ==
    IF r.rest # <<>>
    THEN [r EXCEPT !.pc = "assign", !.type = Head(r.rest), !.rest = Tail(r.rest)]
    ELSE [r EXCEPT !.pc = IF r.type \in {"ApprovalGranted", "RunInterrupted"}
                          THEN "statusWrite" ELSE "statusRead"]

(* Two types of event also write to the session row.                       *)
AfterSave(r) ==
    CASE r.type = "SessionCancelled" -> [r EXCEPT !.pc = "cancelStatus"]
      [] r.type = "IntentUpdated" -> [r EXCEPT !.pc = "intentRead"]
      [] OTHER -> AfterReduce(r)

(* The message a run was dispatched for comes after its activation, under  *)
(* the same request: only then does the brief show the goal of that run.   *)
SaveBrief(q) ==
    /\ At(q, "saveBrief")
    /\ brief' = req[q].draft
    /\ runGoals' = {req[q].draft.goal} \union IF q = session.activeRun THEN {} ELSE runGoals
    /\ Becomes(q, AfterSave(req[q]))
    /\ UNCHANGED <<log, session, activated, restored, crashes>>

(* Fault: cancelling leaves the active run in place.                       *)
CancelStatusKeepingRun(q) ==
    /\ At(q, "cancelStatus")
    /\ session' = [session EXCEPT !.status = "cancelled"]
    /\ Becomes(q, [req[q] EXCEPT !.pc = "raiseToken"])
    /\ UNCHANGED <<log, brief, history>>

CancelStatus(q) ==
    /\ At(q, "cancelStatus")
    /\ session' = [session EXCEPT !.status = "cancelled", !.activeRun = NoRun]
    /\ Becomes(q, [req[q] EXCEPT !.pc = "raiseToken"])
    /\ UNCHANGED <<log, brief, history>>

RaiseToken(q) ==
    /\ At(q, "raiseToken")
    /\ session' = [session EXCEPT !.token = TRUE]
    /\ Becomes(q, AfterReduce(req[q]))
    /\ UNCHANGED <<log, brief, history>>

IntentRead(q) ==
    /\ At(q, "intentRead")
    /\ Becomes(q, [req[q] EXCEPT !.pc = "intentStatus", !.seenStatus = session.status])
    /\ UNCHANGED <<log, session, brief, history>>

AfterIntent(r) ==
    IF r.resumes THEN Interrupting(r)
    ELSE IF r.retargeted THEN [r EXCEPT !.pc = "raiseToken"]
    ELSE AfterReduce(r)

IntentStatus(q) ==
    /\ At(q, "intentStatus")
    /\ session' = [session EXCEPT !.status = req[q].seenStatus,
                                  !.intentVersion = req[q].draft.version]
    /\ Becomes(q, AfterIntent(req[q]))
    /\ UNCHANGED <<log, brief, history>>

----------------------------------------------------------------------------
(* The engine's write-back of the session row around an event.             *)

(* append_kernel_event reads the row before it touches the log ...         *)
Snapshot(q) ==
    /\ At(q, "snapshot")
    /\ Becomes(q, [req[q] EXCEPT !.pc = "assign", !.seenStatus = session.status])
    /\ UNCHANGED <<log, session, brief, history>>

(* ... and submit_event after run_pipeline returned.                       *)
StatusRead(q) ==
    /\ At(q, "statusRead")
    /\ Becomes(q, [req[q] EXCEPT !.pc = "statusWrite", !.seenStatus = session.status])
    /\ UNCHANGED <<log, session, brief, history>>

AfterWrite(r) == IF r.next = "done" THEN Finished ELSE [r EXCEPT !.pc = r.next]

(* Fault: the row keeps its old state version.                             *)
StatusWriteWithoutVersion(q) ==
    /\ At(q, "statusWrite")
    /\ session' = [session EXCEPT !.status = req[q].seenStatus]
    /\ Becomes(q, AfterWrite(req[q]))
    /\ UNCHANGED <<log, brief, history>>

(* Fault: the row announces the version the next event would get.          *)
StatusWriteNextVersion(q) ==
    /\ At(q, "statusWrite")
    /\ session' = [session EXCEPT !.status = req[q].seenStatus,
                                  !.stateVersion = req[q].version + 1]
    /\ Becomes(q, AfterWrite(req[q]))
    /\ UNCHANGED <<log, brief, history>>

StatusWrite(q) ==
    /\ At(q, "statusWrite")
    /\ session' = [session EXCEPT !.status = req[q].seenStatus,
                                  !.stateVersion = req[q].version]
    /\ Becomes(q, AfterWrite(req[q]))
    /\ UNCHANGED <<log, brief, history>>

----------------------------------------------------------------------------
(* complete_run and archive_session.                                       *)

(* Fault: any run may complete, active or not.                             *)
CompleteReadUnguarded(q) ==
    /\ At(q, "completeRead")
    /\ Becomes(q, [req[q] EXCEPT !.pc = "completeWrite"])
    /\ UNCHANGED <<log, session, brief, history>>

CompleteRead(q) ==
    /\ At(q, "completeRead")
    /\ Becomes(q, IF session.activeRun = req[q].run
                  THEN [req[q] EXCEPT !.pc = "completeWrite"] ELSE Finished)
    /\ UNCHANGED <<log, session, brief, history>>

CompleteWrite(q) ==
    /\ At(q, "completeWrite")
    /\ \E status \in Reported :
          session' = [session EXCEPT !.status = status, !.activeRun = NoRun, !.token = FALSE]
    /\ Becomes(q, Finished)
    /\ UNCHANGED <<log, brief, history>>

Archive(q) ==
    /\ At(q, "archive")
    /\ session' = [session EXCEPT !.status = "completed"]
    /\ Becomes(q, Finished)
    /\ UNCHANGED <<log, brief, history>>

(* The process dies: the rows stay, the requests in flight are gone.       *)
Crash ==
    /\ crashes < MaxCrashes
    /\ InFlight # {}
    /\ crashes' = crashes + 1
    /\ req' = [q \in Requests |-> IF q \in InFlight THEN Finished ELSE req[q]]
    /\ UNCHANGED <<log, session, brief, activated, runGoals, restored>>

----------------------------------------------------------------------------
Receive(q) ==
    \/ SubmitThinkerEvent(q)
    \/ SubmitUserMessage(q)
    \/ SubmitKernelEvent(q)
    \/ DispatchUserMessage(q)
    \/ CompleteRun(q)
    \/ ArchiveSession(q)

Handle(q) ==
    \/ Plan(q)          \/ Pause(q)           \/ RestoreRead(q)       \/ RestoreBrief(q)
    \/ Activate(q)      \/ TaskRead(q)        \/ TaskStatus(q)
    \/ Validate(q)      \/ AssignMetadata(q)  \/ AppendEvent(q)       \/ Arbitrate(q)
    \/ Reduce(q)        \/ SaveBrief(q)       \/ CancelStatus(q)  \/ RaiseToken(q)
    \/ IntentRead(q)    \/ IntentStatus(q)
    \/ Snapshot(q)      \/ StatusRead(q)      \/ StatusWrite(q)
    \/ CompleteRead(q)  \/ CompleteWrite(q)   \/ Archive(q)

Next == Crash \/ \E q \in Requests : Receive(q) \/ Handle(q)

Spec == Init /\ [][Next]_vars
----------------------------------------------------------------------------
(* Properties of every interleaving.                                       *)

(* The state versions of the log are 1, 2, ..., without a gap, whatever    *)
(* requests race between reading MAX(state_version) and inserting, and     *)
(* wherever a crash falls: a reader that pages by version misses nothing.  *)
VersionsGapFree == Versions = 1..LatestVersion

(* The state_version a client reads on the session row is the version of   *)
(* an event it can read in the log: no write-back announces an event that  *)
(* is not there yet, even when an older write-back lands last.             *)
SessionVersionLogged == session.stateVersion \in Versions

(* A final event or a judge's side effect never outruns the proposal it    *)
(* comes from: the same request logged the proposal before, with a smaller *)
(* version, although other requests log in between.                        *)
PromotedAfterProposal ==
    \A i \in DOMAIN log :
        log[i].type \in {"BeliefUpdated", "ConflictDetected"} /\ log[i].actor = "kernel_manager" =>
            \E j \in 1..(i - 1) : /\ log[j].type = "BeliefProposed"
                                  /\ log[j].by = log[i].by
                                  /\ log[j].version < log[i].version

IntentsLogged == {i \in DOMAIN log : log[i].type = "IntentUpdated"}

(* The brief never counts an intent update the log does not hold, or a     *)
(* resumed task: the log is written before the reducer runs.               *)
BriefBehindLog == brief.version <= Cardinality(IntentsLogged) + restored

(* What readers of the log and the session row may rely on.                *)
Readers == INSTANCE VersionedLog WITH
    entries <- [i \in DOMAIN log |-> log[i].version],
    announced <- session.stateVersion

(* The handlers together, racing and crashing, never do to the log and the *)
(* row what VersionedLog does not allow: no entry is changed or dropped,   *)
(* no version is skipped, and no unlogged version is announced.            *)
ReadersServed == Readers!Spec

----------------------------------------------------------------------------
(* Properties of a server that works on one request at a time.             *)

Quiet == InFlight = {}

(* A row that shows an active run lets that run write: were the session    *)
(* cancelled or failed at the same time, validate would refuse every event *)
(* of the run until a user message replaced it.  An archived session is    *)
(* closed on purpose and keeps its run.                                    *)
LiveRunCanWrite ==
    session.activeRun # NoRun => session.status \in {"running", "completed"}

(* When nothing is in flight and nothing was lost in a crash, the brief,   *)
(* the row and the log agree: one intent version per logged intent update  *)
(* and per resumed task, the row's version is the last of the log, and     *)
(* versions are positions.                                                 *)
RowsMatchLog ==
    Quiet /\ crashes = 0 =>
        /\ brief.version = Cardinality(IntentsLogged) + restored
        /\ session.intentVersion = brief.version
        /\ session.stateVersion = Len(log)
        /\ \A i \in DOMAIN log : log[i].version = i

(* No event based on an older intent follows a logged intent update: what  *)
(* is logged after the update has its intent version at least, although    *)
(* the brief moves by logged updates and by unlogged resumptions, and a    *)
(* submission states any version it likes.  (One that states a later       *)
(* version than there is yet is logged with it, and lower ones follow. And *)
(* a crash between log and brief hands the same intent version out twice.) *)
IntentVersionsMonotone ==
    crashes = 0 =>
        \A i \in IntentsLogged, j \in DOMAIN log :
            i < j => log[i].intentVersion <= log[j].intentVersion

Retargeted == \E g, h \in runGoals \ {NoGoal} : g # h

(* When the user's goal has changed since the active run's own message,    *)
(* the cancellation token tells its thinker, once the update has settled:  *)
(* also when the goal was changed back since, or several times.            *)
RetargetRaisesToken ==
    /\ Quiet /\ crashes = 0
    /\ session.activeRun # NoRun
    /\ Retargeted
    => session.token

(* While a run is active, no event of another run enters the log.          *)
StaleRunRefused ==
    [][\A i \in DOMAIN log' \ DOMAIN log :
          /\ log'[i].actor = "thinker"
          /\ log'[i].type \notin RunExemptTypes
          => session.activeRun \in {NoRun, log'[i].run}]_vars

(* A run that another run replaces was recorded as interrupted before.     *)
TakeoverRecorded ==
    [][/\ session.activeRun # NoRun
       /\ session'.activeRun \notin {NoRun, session.activeRun}
       => \E i \in DOMAIN log : /\ log[i].type = "RunInterrupted"
                                /\ log[i].run = session.activeRun]_vars

(* A cancelled session is reopened by a new user message and by nothing    *)
(* else: no write-back of a request that was already under way, no late    *)
(* completion of a run.  (Archiving a cancelled session is allowed.)       *)
CancelSticks ==
    [][session.status = "cancelled" /\ session'.status # "cancelled" =>
          \/ session'.activeRun \notin {NoRun, session.activeRun}
          \/ session'.status = "completed"]_vars

----------------------------------------------------------------------------
(* What the documentation says of the pipeline and the code does not do.   *)

(* "Once a new run has taken over, the later writes of the old run are     *)
(* refused": no thinker event of a run follows the record of its           *)
(* interruption.                                                           *)
InterruptedRunSilenced ==
    \A i, j \in DOMAIN log :
        /\ i < j
        /\ log[i].type = "RunInterrupted"
        /\ log[j].actor = "thinker" /\ log[j].type \notin RunExemptTypes
        => log[j].run # log[i].run

(* Each event in the log has a state version of its own.                   *)
DistinctVersions ==
    \A i, j \in DOMAIN log : log[i].version = log[j].version => i = j
=============================================================================
