# A verification model of agent-state-kernel

The kernel keeps the cognitive state of agent sessions: it accepts events from a *talker* (which speaks
with the user) and from *thinkers* (workers that run the task), logs them, derives state from them, and
hands user messages to thinkers. This directory holds TLA+ modules translated from its source, the TLC
configurations that check them, and TLAPS proofs about them. Paths below are relative to `src/src/`.

## Inventory

One asyncio process serves HTTP (`api/server.py`) over one aiosqlite connection (`stores/sqlite_store.py`).
There are no locks and no transactions across calls: every `await` on the store is a point where another
request may run, every save commits by itself, and a crash keeps exactly the saves that were made.

| component | state | operations | interacts with | hard because |
|---|---|---|---|---|
| Event pipeline, event log (`kms/pipeline.py`, `kms/pipeline_stages/`) | `cognitive_events` | validate, assign versions, append, arbitrate, promote, reduce | every writer of a session | MAX(version) is read before the insert; rows are written from stale reads |
| Engine (`kernel/engine.py`) | session row (`session_links`) | `submit_event`, `append_kernel_event`, `complete_run`, views | pipeline, store | status read before, written after, other requests' writes |
| Dispatch (`kms/dispatch/`, `kms/manager.py`) | active run, cancellation token | plan, activate a run, submit the message, create a thinker dispatch | engine, task switching | a take-over is six or more commits on one early read of the row |
| Task switching (`kms/task/`) | `task_snapshots`, `global_tasks` | pause, resume, restore, activate, create | session, brief, plan | snapshots and sessions change separately |
| Thinker dispatch queue (`stores/sqlite_store.py` 1682-1833) | `thinker_dispatches` | create, claim, heartbeat, complete, fail | thinkers, `complete_run` | select-then-save, whole-row rewrites, no lease |
| Approvals (`reduce.py` 148-195) | `approval_requests` | request, grant, deny, revoke | notifications | read-then-save; duplicated and late requests |
| Notifications (`kms/notification/`) | `observer_notifications` | emit with dedupe and throttle, acknowledge, resolve | pipeline, dispatch queue | find-then-create, acknowledge after resolve |
| Reducers, plan, progress (`kernel/state_reducer.py`, `summarize.py`, `gate.py`) | brief, flow, claims, evidence, progress | one reduction per event type, synthesis | pipeline | whole-row saves of what was read; truth-keeping rules of progress |
| Rebuild (`api/server.py` 294-351) | all derived tables | clear, replay | log, live session row | replay has side effects on the live row |
| Routing, intent classification (`kms/routing/`, `kms/decisioning/intent_classifier.py`) | none | pure decisions with thresholds | dispatch | precedence of rules and boundaries |
| Judges (`kms/decisioning/`) | none | verdict on a proposal | pipeline | scores of text |
| Adapters, responses, views | none or references only | translation, wording | | |

What makes each of them correct: the *log* has versions without a gap and never changes an entry; the
*session row* never announces what the log does not hold, lets its active run write and nobody else's;
a *brief* never counts an update that is not logged; a *take-over* is on record; *tasks*: at most one is
active, the paused one can be resumed; *dispatches*: an assignment ends once and is not taken twice;
*approvals*: a decision is final against repeated requests; *notifications*: one open per subject;
*rebuild*: replaying the log gives the derived state back; *progress* never presents a conflicting claim as a fact.

## Modules and plan

| module | what | state |
|---|---|---|
| `EventPipeline`, abstract `VersionedLog` | one session: log, row, brief under every request | checked; every invariant and action property proved, and the refinement |
| `ThinkerDispatch` | the dispatch queue with racing workers, the active run, the reports about ended runs | checked; every safety property proved, liveness checked |
| `TaskSwitch` | the task directory under the dispatcher (pause, resume, continue, create), `complete_run` and a rebuild | checked; every property proved |
| `Approval` | approvals, their notifications, and their rebuild from the log | checked; every property proved |
| `Progress` | judges, the reductions of plan, claims and items, progress synthesis, visibility gate, the plan of a paused task | checked; every property proved |
| `Routing` | how a message finds its task and session: router, classifier, models, kernel answers | checked; every property proved |

What could follow: the pipeline's notifications about conflicts, blocked work and clarifications, which go through the
`_emit` that `Approval` and `ThinkerDispatch` model; and one module that composes `TaskSwitch` with the plan of `Progress`.
Every module declares its parameters as constants with named assumptions, has one action per access to the store and
no RECURSIVE operator, so that it can be proved about. Proofs are kept apart, in `<Module>_proofs`; `EventOrder_proofs`
and `EventSerial_proofs` build on `EventPipeline_proofs`.

One row of the database may appear in several modules, each with the columns its questions are about. Where one module
abstracts from another, it says so: the dispatcher's writes to the session row are in `EventPipeline`, to the tasks
in `TaskSwitch`; `Routing` takes what the plan writes as one step; `Progress` starts where `EventPipeline` has logged the event.

## EventPipeline and VersionedLog

`EventPipeline` is one session. A *request* is one HTTP call, sent once; its handler's local variables are a
record `req[q]`, whose `pc` names the next store operation. Runs are fresh uuids, so a run is named by the
request that started it.

| state | code |
|---|---|
| `log` | `cognitive_events` in insertion order: type, actor, run, intent version, state version |
| `session` | `session_links`: status, `active_run_id`, cancellation token, `state_version`, `intent_version` |
| `brief` | `task_brief_states`: what `reduce_intent` maintains (version, goal) |
| `activated`, `runGoals`, `restored` | history: runs activated, the goals the brief has had since the active run's own message, resumed tasks |

| actions | code |
|---|---|
| `SubmitThinkerEvent`, `SubmitUserMessage`, `SubmitKernelEvent`, `DispatchUserMessage`, `CompleteRun`, `ArchiveSession` | arrival of a call, with any payload a client may send: the intent versions it may state are the constant `Stated` |
| `Validate`, `AssignMetadata`, `AppendEvent`, `Arbitrate` | `run_pipeline`: `validate`, `assign_event_metadata`, `append_event`, arbitration and promotion of a proposal |
| `Reduce`, `SaveBrief`, `CancelStatus`, `RaiseToken`, `IntentRead`, `IntentStatus` | `reduce`: the intent part and its writes to the session row |
| `Snapshot`, `StatusRead`, `StatusWrite` | the write-back of the row by `append_kernel_event` and `submit_event` |
| `Plan`, `Pause`, `RestoreRead`, `RestoreBrief`, `Activate`, `TaskRead`, `TaskStatus` | the dispatcher: planner, snapshot, resume, RUN_INTERRUPTED, `activate_run`, task creation |
| `CompleteRead`, `CompleteWrite`, `Archive`, `Crash` | `complete_run`, `archive_session`, the process dies and only commits remain |

Consecutive reads are one step, every write is a step of its own, and other requests run in between. There is one
event type per *kind of effect* on these rows ("ToolStarted" stands for every event without one). `NoGoal` is a
message that carries constraints only. Which task is paused or resumed, and what a judge decides, is a
nondeterministic choice here. `VersionedLog` says what readers may rely on: entries are never changed, a new version
is at most the latest plus one, and only logged versions are announced. `ReadersServed` is `Readers!Spec` under
the mapping of the log to its versions and of the row to its `state_version`.

## ThinkerDispatch

One session's dispatch queue. A *handler* is a request inside the server; a free one takes any call, so clients
repeat calls, send them late and race. A dispatch is known by its run: the code draws both ids for each message.

| state | code |
|---|---|
| `activeRun` | `session_links.active_run_id` |
| `rows`, `queue` | `thinker_dispatches`: status, task, `claimed_by`; the order of `created_at` |
| `listed`, `open`, `settled`, `beyond` | `observer_notifications`: how many of a task the search reads (`FindLimit`, 100 in the code); by dedupe key (task and type), how many of these are pending, whether one was acknowledged or resolved, and how many are pending past the end of that list |
| `handler` | the local variables of a handler: the dispatch it is about, the row it holds, the report, whether `complete_run` found the run active |
| `interrupted`, `early`, `overlapped`, `drawn`, `crashes` | history and bounds; `early` are the runs a heartbeat was sent for before their claim |

| actions | code |
|---|---|
| `DispatchUserMessage`, `ActivateRun`, `CreateDispatch` | `dispatch_user_message`: fresh run, `activate_run`, `create_thinker_dispatch` |
| `ClaimDispatch`, `Heartbeat`, `WriteRow` | `claim_thinker_dispatch`, `heartbeat_thinker_dispatch`: a read, then `save_thinker_dispatch` of the *whole* row; a heartbeat asks only that the row exists |
| `FinishDispatch`, `ClearRun`, `ReadRow`, `WriteRow` | `/complete` and `/fail`: `complete_run`, then the row is read anew and saved |
| `CompleteRun`, `ClearRun` | `/kms/complete-run` |
| `FindExisting`, `CreateNotification` | `NotificationCoordinator._emit`: dedupe and throttle, then insert |
| `Settle`, `OtherNotification` | acknowledge or resolve a notification; one of another kind takes a place in the list |
| `Cancel`, `Crash` | `SESSION_CANCELLED` clears the active run; the process dies |

Left out: conversation references; task rows (`engine.py` 148-166, in `TaskSwitch`); RUN_INTERRUPTED and the message
itself, which `EventPipeline` has between `ActivateRun` and `CreateDispatch`. Acknowledging is one step, because only the status of that row ever changes.
The clock is not modelled: `MayBeThrottled` lets a settled progress update be younger than 300 seconds, or not.
Nothing is assumed about clients: they also send heartbeats for dispatches that nobody has claimed, and may write such a row
back after its claim or its end. `NeverRequeued` is about the others.

## TaskSwitch

The tasks of one session, in the five places that keep track of them.

| state | code |
|---|---|
| `session` | `session_links`: active run, active task, last paused task |
| `tasks`, `recent` | `task_snapshots`: status and goal; the order of `updated_at` |
| `directory`, `links` | `global_tasks`: the mirrored status; `user_sessions`: linked tasks, active task |
| `brief`, `log` | the goal in `task_brief_states`, one for all tasks of the session, or `NoBrief` when the row is gone; the goals the messages of `cognitive_events` state |
| `call` | a handler's copies: the pointers it read, the row in hand, the target, the plan's branch, the list it will write back, the messages it still has to replay |
| `drawn`, `crashes`, `overlapped`, `rebuilds`, `forgotten` | bounds and history; `forgotten` are the tasks whose rows a rebuild deleted |

| actions | code |
|---|---|
| `Dispatch`, `Plan` | `DispatchExecutionCoordinator.execute` and `TaskDispatchPlanner.plan`, for every intent the classifier and every target in the directory the router can give |
| `Ensure`, `EnsureMark` | `ensure_active_task_for_session`: a task made of the brief |
| `Save`, `PauseMark` | `snapshot_current_task` |
| `Mirror`, `LinkRead`, `LinkTask` | `sync_global_task`, `link_task_to_user_session` (read, then the whole list) |
| `Restore` | `activate_existing_task`, `restore_task_into_session` |
| `ActivateRun`, `Submit` | `activate_run`, `submit_user_message`: only the message of a new task states a goal |
| `Create`, `CreateMark`, `Refresh` | `create_task_from_user_message`, `refresh_active_task_from_kernel_state` |
| `CompleteRun`, `ClearRun`, `Finish` | `complete_run`: comparison, session row, task row and mirror |
| `Rebuild`, `ClearDerivedState`, `ReplayCreation`, `Replay` | `rebuild_session`: read the messages, delete the rows of tasks, directory and brief, reduce SESSION_CREATED and each message again |
| `Crash` | the rows stay, the calls are gone |

A goal is named by the run of the message that set it, so `GoalsKept` sees a goal that strays into another task. The limit of
10000 events of a rebuild is shared by events of every kind, so it may read any beginning of `log`. *Scope:* the calls are dispatched
messages, completed runs and rebuilds. An intent that is updated through `/kms/request` changes the brief too, and the next pause
or refresh copies it into the active task; that is in `EventPipeline`, and `BriefOfActiveTask` and `GoalsKept` do not speak of it.

## Approval

| state | code |
|---|---|
| `approvals` | `approval_requests`: status |
| `log` | the approval events of `cognitive_events` |
| `notifications` | the `approval_required` rows of `observer_notifications`, in order of creation |
| `call` | the event in hand, the notifications still to resolve, the events still to replay |
| `reach` | how many approval events fit into what a rebuild reads, events of other kinds taken off |
| `raced`, `unsure`, `disturbed`, bounds | history: approvals two calls worked on, rows no rebuild has restored, rebuilds that were overlapped or did not read the whole log |

| actions | code |
|---|---|
| `Request`, `DecideApprovalRequest`, `AppendEvent` | an event arrives (`append_kernel_event`, grant, deny, revoke) and is logged |
| `ReadApproval`, `SaveApproval` | `reduce` 148-195: read the row, save what it decided on that copy |
| `CheckApproval`, `FindExisting`, `CreateNotification` | `notify_approval_from_event`, `_find_existing`, `_emit` |
| `ListNotifications`, `ResolveNotification` | `resolve_approval_notification`, one row after another |
| `Acknowledge`, `Resolve` | the observer's calls, at any time |
| `OtherEvent` | an event of another kind takes one of the places a rebuild reads |
| `Rebuild`, `ClearDerivedState`, `Replay` | `rebuild_session`: read the oldest events (`Oldest`), clear the table, reduce each event again; a live call may come between |
| `Crash` | also between clearing and replaying |

The searches see the `FindLimit` and `ResolveLimit` first rows (100 and 200 in the code), a rebuild the `ReplayLimit` first
events (10000). `Doubtful` are the approvals a starting call puts in doubt: those another call works on, and all of them when it is a
rebuild that leaves out the end of the log. What the log should have made
of an approval is `Derived`: absent, pending, or what the last decision after the first request says. `MCApproval` compares this
closed form with the fold of `reduce` over every short log (`DerivedReduces`); the proof needs the closed form.

## Progress

| state | code |
|---|---|
| `plan` | `task_flows`: status, steps, current step |
| `claims` | `claim_items`: status, confidence in tenths |
| `items` | `evidence_items`, `execution_actions`, `todo_obligations`: reliability or status |
| `progress` | `progress_states` |
| `shelf` | the plan in the snapshot of a paused task |
| `call`, `behind`, bounds | copies of the handlers; history: progress may lag since the last refresh that ran alone |

| actions | code |
|---|---|
| `Submit`, `Judge` | a logged event; `arbitrate` with the reliability judge and the belief review, whose model may answer anything |
| `ReadPlan`, `ReadClaims`, `ReadItems`, `ReadNothing` | the reads of `reduce` with `reduce_plan`, `reduce_beliefs`, `reduce_execution` |
| `SavePlan`, `SaveClaim`, `SaveItem`, `ReadFlow`, `SaveFlow` | the saves that follow, in their order, each of a whole row |
| `RefreshPlan`, `RefreshClaims`, `SaveProgress`, `Summarize`, `SaveAgain` | `refresh_progress`, `synthesize_progress`, the two saves of `summarize` |
| `Ask`, `AskProgress`, `Answer`, `Say` | `gate` and `ask_can_say` |
| `Switch`, `Shelve`, `Restore` | the plan's part in pausing and resuming a task |
| `Crash` | between any two of these |

`Synthesized` is the reference for the progress row: what `synthesize_progress` makes of the plan and the claims there are. Constraints
only forbid actions the gate does not read, so they are left out.

## Routing

| state | code |
|---|---|
| `directory` | `global_tasks` of the user, last touched first: task, home session, status |
| `sessions` | `session_links`: active run, active task, last paused task |
| `call` | message, listed tasks, route, chosen session, its row, intent |
| `named`, `overlapped`, `sent` | history and bounds |

| actions | code |
|---|---|
| `ListTasks`, `RouteMessage`, `RouteByModel` | `route_message`: candidates, scores, ranked rules; an unsure rule asks a model, whose answer is accepted or not |
| `FindSession` | `find_target_session`, `DispatchPreparationCoordinator.prepare` |
| `Classify`, `ClassifyByModel` | `classify_dispatch_intent`, with a model below the threshold |
| `Respond`, `Decline` | `pre_execution_response`, `no_resume_task`: answered without a run |
| `Work`, `EndRun` | what the plan does to pointers and directory; the end of a run |

A message is the set of markers it contains and how it mentions each task; the operators `Score`, `RankedRules`,
`RuleIntent`, `Accepted` are the functions of the router and the classifier over these. A model answers with any decision, target and
confidence.

## What the runs check

| run | configuration | shows |
|---|---|---|
| `serial` | 4 requests one at a time, 2 goals, stated versions 0 (none) and 1, 1 crash | over every sequence of events, messages, dispatches, completions and archivings: the rows agree with the log (`RowsMatchLog`, `IntentVersionsMonotone`), a replaced run is refused while its successor runs (`StaleRunRefused`), a take-over is on record, a run whose goal changed after its own message is told by the token, a cancelled session stays so, an active run can write |
| `concurrent` | 3 requests, 2 in flight, 1 crash | every interleaving of the store operations: versions have no gap (`VersionsGapFree`), the row announces logged versions, a promoted event follows its proposal, the brief does not run ahead of the log, and the pipeline implements `VersionedLog` |
| `interrupted` | 4 requests, one at a time | *violated*: a thinker event of an interrupted run is accepted after its successor has completed |
| `versions` | 2 requests in flight | *violated*: two events get the same state version |
| `dispatch` | 2 handlers, 2 thinkers, 2 messages, progress updates as reports, a search that reads 2 rows, 1 crash | under every interleaving: the active run is not over (`ActiveRunOpen`), it has a dispatch (`ActiveRunServed`), a dispatch that no early heartbeat was sent for does not return to the queue once claimed (`NeverRequeued`). While the server works on one call at a time, whatever is repeated: one thinker per dispatch (`SoleClaim`), an end is final (`EndSticks`), a replaced run stays silent (`StaleRunSilent`), one open notification per task and type among those the search reads |
| `told` | 2 handlers, 1 thinker, 2 messages, failures as reports, a search that reads 1 row, no crash | liveness: the end of an active run is reported (`EndedRunTold`) |
| `stale_end` | the same, with completions as reports | *violated*: completing an old run's dispatch clears the newer active run |
| `tasks` | 2 handlers, 3 runs (racing while at most 2 are drawn), 1 crash, 1 rebuild | whatever races or crashes, no pointer is without a row unless a rebuild has deleted it (`PointersHaveRows`). Between calls that neither overlapped nor crashed, and without a rebuild: one active task, and the one to resume is paused (`OneActiveTask`); mirror and list are in step; the brief is that of the active task; no task gets another's goal |
| `approval` | 2 handlers, 2 approvals, 3 events, 1 rebuild, 1 crash, searches that see 2 rows, a rebuild that reads at most 3 events | the row follows from the log, or an undisturbed rebuild of the whole log restores it (`RowFollowsLog`). For approvals no calls raced for: a decision settles what the observer was told, a pending approval is announced once, a decision sticks |
| `approval_reopened` | 2 handlers, 1 approval | *violated*: a decision saved between a request's read and its save is lost, and the approval is pending again |
| `progress` | 2 handlers, 4 calls (racing while at most 3 are made), 1 crash, an event of every kind that changes a row in its own way | under every overlap, order and stale write the plan's status fits its steps (`StatusFitsSteps`); one undisturbed refresh makes progress what plan and claims say (`ProgressCurrent`); the gate then lets the talker say only what they support (`GateTruthful`) |
| `routing` | 2 handlers, 4 messages of 13 kinds (racing while at most 2 are sent), 2 sessions, a list of 2 tasks, confidences 50, 70, 90 | as long as no caller names a session, a session works on its own tasks only (`AtHome`), under stale copies and any answer of a model; work is taken to another task only for a reason in the message or from a model (`RightTask`) |

Properties come in two groups because the code does. It takes no locks, so some promises hold only while requests do
not overlap: `EventPipeline` checks them with `MaxInFlight = 1`, `ThinkerDispatch` guards them with `~overlapped`
(no two requests have ever been in flight together) and keeps exploring the overlaps for the other properties. So
do `TaskSwitch` (`Calm`), `Approval` (`raced`, per approval, and `unsure`, which a rebuild clears) and `Progress`
(`behind`, which one undisturbed refresh clears).

**Bounds.** Two requests in flight suffice for every race between a read and a write of two handlers; the third
request of `concurrent` makes a version after the race, and the fourth of `serial` an event of a run that was replaced
and whose successor ended. Two messages give an old and a new run. One crash reaches every place between two commits,
and what follows it. `ThinkerDispatch` is run with one task, so that the runs compete for one dedupe key; the
theorems are for any number. In `tasks` (rebuilds included), `progress` and `routing` calls may overlap only while few have been made, and
later ones come one at a time: the races are followed by what they lead to, without the product of both. Three messages give
a task to pause, one to work on and one to go back to. In `approval` three events are a request, its repetition and
a decision, or two contradicting decisions; searches that see two rows stand for limits that three notifications exceed, and
events of other kinds make the log longer than what a rebuild reads. `dispatch`, `told` and `stale_end` each report with one kind of notification, since kinds
only meet in the length of the list, which `OtherNotification` fills; the theorems are for all of them. A stated version of 1 is a future one, the current one or an old one
as the brief moves on.
The events of `progress` include confidences outside the range, steps the plan lacks and
a replan that names a running step. The confidences of `routing` lie on both sides of its thresholds.
`MaxRuns`, `MaxEvents`, `MaxCalls`, `MaxMessages`, `MaxRebuilds`, `MaxCrashes`, the racing bounds, the sessions, the requests, the versions in `Stated` and `MaxInFlight` are the only bounds;
`FindLimit`, `ResolveLimit`, `ReplayLimit` and `ListLimit` are limits of the code, made small.
Symmetry is used over requests, handlers and thinkers in runs without liveness properties. In `serial` numbered requests arrive in
the order of their numbers (`InOrder`), which takes one of each set of symmetric behaviours and is cheaper than the symmetry of four.
Deadlock is not checked: when every request was answered and the bound on messages is reached, nothing needs to happen.

**Fairness.** Only `ThinkerDispatch` assumes fairness; the other modules have safety properties only. It assumes weak
fairness of `Handle(h)` for each handler: the asyncio loop resumes a coroutine whose store call has returned, and no coroutine
waits for another. No call, settlement, cancellation or crash has to happen. `EndedRunTold` leaves out
progress updates, which are throttled on purpose, and allows a crash to lose the report, as the code does.

## Disagreements between code and documents

* `interrupted`: `validate.py:74` compares runs only while a run is active. The late event of an interrupted run
  is accepted once its successor has completed; the interrupt summary (`docs/progress/interrupt-mechanism-summary-2026-06-18.md:93`) says it is refused.
* `versions`: `event_log.py:18` reads `MAX(state_version)` before the insert, and racing requests log the same version,
  although `pipeline.py:253` wants one for each event.
* `stale_end`: `engine.py:138-146` compares, awaits, and then clears the active run. A completion of an old run can clear
  the run that took over in between, which `docs/progress/architecture-gap-analysis-2026-06-18.md:689` rules out.
* `approval_reopened`: `reduce.py:155` reads the approval, awaits, and saves a pending row whatever became of it. The
  comment at `reduce.py:154` says that a replayed or repeated request cannot take a decided approval back to pending; it
  can when the decision is saved in between.

Met while modelling, and part of the modules as the code has them:

* *Plan.* A plan is completed when no step is pending, also with failed or running steps, where the docstring of `reduce_plan`
  wants all steps completed. A replan makes the first step current even when the payload says that another one runs. A
  resumed task's plan becomes active whatever it was, and progress is not refreshed. A new task starts with the plan row of
  the task before it. The plan statuses cancelled and paused are never set.
* *Claims and items.* A second risk assessment is stored with a severity outside 0..1, which `schema/state.py:304` rules out: the
  integrity check stops at the first risk it finds. A conflict marked on such a risk is lost, because the check resets the status. Repeated evidence finds itself and is downgraded. A retried tool
  is not saved. The gate ignores `forbidden_actions`.
* *Intent versions.* `validate.py:83-87` refuses stated versions below the brief's and none above it, so an event may be logged with a
  version the brief has not reached, and lower ones follow: `IntentVersionsMonotone` speaks of what follows an update.
* *Cancellation token.* A run dispatched with a new goal over an old one has its own token raised by its own message
  (`reduce.py:65-66`, after `lifecycle.py:58` cleared it). `RetargetRaisesToken` therefore counts the goals from the run's message on.
* *Tasks.* Pausing overwrites a completed status (`coordinators.py:95`).
* *Rebuild.* `clear_derived_state` deletes the rows of tasks and directory, and nothing restores them, though `server.py:297-299`
  speaks of all derived state. The pointers of session and user session stay, to tasks without rows; the next pause or refresh makes a new task
  of the brief. It reads the 10000 oldest events: in a longer session the approvals and decisions after them are lost.
* *Heartbeats.* Neither `server.py:494` nor `sqlite_store.py:1808-1814` looks at the status. A heartbeat that reads a pending dispatch
  and saves after its claim, or after its end, puts it back into the queue.
* *Notifications.* The search for an existing one reads the 100 oldest of the task, settled ones and other kinds included. Past them every report is
  repeated: hence `OneOpenNotification` counts those it reads. `notification/coordinator.py:271-272` and `:292` promise one notification per approval, also out of order; the
  find-then-create of two handlers makes two. Hence `AnnouncedOnce` excludes raced approvals.
* *Routing.* The reply to "resume" may name another paused task than the one that is resumed. An explicit new
  task in a session without active task and run goes on with the old brief. Completed tasks stay candidates and can be
  reactivated. A caller who names a session can point it at another session's task: hence `~named` in `AtHome`. The clarification
  threshold of .55 is never reached. One hint alone (.35 + .10) misses .45 by binary rounding.

## What is proved

TLAPS proves the following for every value of the constants that satisfies the named assumptions (sentinels are no
runs, goals or thinkers; there is a task, an approval, a message; bounds are naturals; reports and outcomes are among those the API has;
events and reviews are well formed).

`EventPipeline_proofs`: `TypeCorrect`, `GapFree`, `SessionVersion`, `Refinement`. The inductive invariant `IInv` adds to
the types that versions are `1..LatestVersion`, that the row's version is logged, and (`Fits`) that a version a handler
has reserved is at most the latest plus one, and is in the log once the handler is past its insert. It is needed
because a reservation may be arbitrarily old when it is used: it is then in the log already (a duplicate), never
beyond a gap. `Refinement` follows: only `AppendEvent` and `StatusWrite` change what a reader sees.

`EventOrder_proofs`: `FinalFollowsProposal`, `BriefStaysBehind`, for any number of requests in flight. A handler that may
still promote has logged its proposal, and the version it reserves for the final event is a later one
(`Promotions`). The brief is bounded by counting (`Counting`): `Slack` is the updates in the log and the resumed tasks, less
the updates that are not yet reduced, and neither the brief nor a copy of it exceeds that (a resuming handler's by one, which it
settles when it saves).

`EventSerial_proofs`: what holds of a server that works on one request at a time, as theorems
`MaxInFlight = 1 /\ Spec => ...`. `SerialInv` says what the handler at work knows: it takes over the run that is
still active and has recorded it (`TakesOver`), the status it will write back is the row's (`SeesStatus`), its event
was validated against the active run (`Authored`). From it follow `LiveRunWrites`, `StaleRunsRefused`, `TakeoversRecorded`,
`CancellationSticks`. `ExactInv` adds that until the first crash the handler's record accounts for every difference between
log, row and brief (`Exactly`), from which follow `RowsAgree`, `IntentsMonotone`
(for any stated versions) and `RetargetTold`: while the goals since the run's message differ, the token is raised or the handler at work is about to raise it.

`ThinkerDispatch_proofs`: `TypesHold`, `ActiveRunStaysOpen`, `ActiveRunIsServed`, `ClaimedNeverRequeued`, all from
`RunsHold`. Its invariant `RunsInv` says what the handlers' stale copies can do: a run being dispatched
is known to one handler and has no row (`LaunchesAlone`); a handler that will save a row knows an existing one
(`RowsHeld`), and its copy is pending only if an early heartbeat was sent for it; if the copy has ended, its run is not active
(`EndsInactive`). So a whole-row write may undo a heartbeat, a claim or an end, but requeue only after an early heartbeat, and never end the
active run's. The order of the code (run first, dispatch second) is what makes `EndsInactive` inductive.
`CallShape` reduces the five kinds of call to four shapes of a handler's record; the steps are then
handled by what they write (`ActivateRuns`, `RowWritten`, `RowsKept`).

The second part of `ThinkerDispatch_proofs`: `ReplacedRunsAreSilent`, `NotifiedOnce`, `ClaimedOnce`, `EndsOnce`. As long as no two requests
overlapped, at most one handler is at work; the row it is about to save takes the dispatch from nobody and reopens
nothing (`Keeps`), it reports on no replaced run (`Unreplaced`) and creates a notification only where none
is open in the list that was searched, or past its end (`Unannounced`).

`TaskSwitch_proofs`: `TypesHold`, `NoDanglingPointers`, from `PointersHold`. Every pointer is written
after the row was saved, and only a rebuild deletes rows, which `forgotten` records; the invariant has to say the same of everything a handler still
holds (`Held`), since it may write it long afterwards, also across a rebuild.
`OneTaskActive`, `DirectoryStaysInStep`, `BriefFollowsTask`, `GoalsNeverChange`, from `CallsKeepStep`: as long as no call overlapped or
crashed and nothing was rebuilt, one handler is at work, and `InStep` says for each place in its code what the five places that keep track
of tasks say, up to what it still has to write. `Focus` and `Resumable` are the tasks the session is *about* to work on and
to resume, `Unborn` keeps the names a call may still give to new tasks free, and `Copies` is why every pause may copy
the shared brief into a row: in these places it is the brief of that row's task.

`Approval_proofs`: `ApprovalTypes`, `DecisionsStick`. Two calls at one approval make it raced (`Apart`), so an unraced request
that is about to save has found no decision, and nobody has made one since (`Undecided`).
`RowsFollowLog`: `RInv` says of an approval that a call works on what the call still has to do to make the row follow the log
(`InHand`). A rebuild is described by the events it has done, a sequence that exists but is nowhere stored: these with the ones still to
replay give what the log gives (`RowFits`). That is what makes the invariant survive the events that live calls append while the
rebuild runs. It holds for any `ReplayLimit`: a rebuild that does not read the whole log leaves every approval `unsure`. `DecidedAreResolved` and `AnnouncedOnceOnly`, from `TInv`: until a decision is done with its list
it owes the observer the settlement of every notification the search could see, and a request about to create has seen none (`Told`).

`Progress_proofs`: `ProgressTypes`, `PlanFits`. Each reduction takes a plan that fits to one that fits, so it is enough
that the plan row, the shelf and the copy in every handler fit. That the reductions do so rests on a lemma for each of them,
about first positions in finite sets of steps.
`ProgressFollows`, `GateTellsTruth`, from `CInv`: a call that nothing overlapped holds no stale copy (`Fresh`), whatever stale copies
others held before it, and the row can lag behind only where a refresh is still to come (`Refreshing`). So one such call repairs what
all earlier races left behind.

`Routing_proofs`: `RowsTyped`, `SessionsWorkAtHome`, `SwitchesForReason`. What a handler holds about tasks is a copy of a list that
other calls may have outdated; what does not age is that no task moves to another session or is lost (`Stay`, by
`UpsertFits`), so each listed row still has its owner (`Listing`) and the session that was found owns the selected task (`Found`). `Routed` remembers
why the task was selected. It rests on lemmas about the rules: there is a best task, a clear one leaves all others behind
(`ClearMentions`), whichever of the ten rules decides gives a listed task for one of the reasons (`RankedRulesFit`), and an accepted answer
of a model has one too (`ModelRoute`). New tasks are numbered by the length of the directory; `Room` bounds it by two for each message,
counting the handlers at work. Minima and maxima over positions come from well-foundedness of the subset ordering on finite sets (`MinOf`), not
from induction.

Only model-checked, and why: `EndedRunTold` is liveness, out of the prover's reach here. That `Derived` is what a fold of the
reducer over the log gives is induction over data: `MCApproval` compares both for every log of up to three events.
The properties of the four violating runs are refuted by TLC, so there is nothing to prove of them.

## Not modelled

* *Adapters and demo*, views, SSE and WebSocket streams (`policy.py`, `sync.py`): they translate or read, and decide nothing
  that is kept. `VersionedLog` is what a reader who pages by version relies on.
* *Texts*: wording of answers, titles, scores of similarity, hints. What they decide is left open or a marker of the message.
* *Models and remote judges*: any well-formed answer; transport and retries of the call are I/O.
* *Other notifications* and the *rebuild of other tables*: the same `_emit` and the same reducers, without a decision of their own.
* *References*, observation and deletion of user sessions, alias columns: no modelled decision reads them.
* One hazard has no property. `reduce.py:45`: every event saves the brief it read, so a racing update of the intent is
  lost; nothing in the code promises otherwise, and `RowsMatchLog` holds one request at a time.
