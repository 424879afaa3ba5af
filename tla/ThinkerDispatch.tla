--------------------------- MODULE ThinkerDispatch ---------------------------
(***************************************************************************)
(* The dispatch queue of one kernel session: thinker_dispatches, the       *)
(* active run of the session row, and the observer notifications that      *)
(* report how a run ended.                                                 *)
(*                                                                         *)
(* Handlers are requests inside the server: a free one picks up the next   *)
(* call, so any client may repeat any call, and calls about one dispatch   *)
(* overlap.  A step of a handler is one write to the store, or a group of  *)
(* consecutive reads; every other handler may run in between, and a crash  *)
(* drops all of them and keeps what was committed.                         *)
(***************************************************************************)
EXTENDS Integers, Sequences, FiniteSets

CONSTANTS
    Handlers,    \* bound: requests the server works on at the same time
    Thinkers,    \* the workers that claim dispatches
    Tasks,       \* the tasks a user message can be routed to
    Reported,    \* the reports the thinkers send, among those below
    NoThinker,   \* claimed_by of a dispatch nobody has claimed
    FindLimit,   \* how many notifications of a task the search reads (100)
    MaxRuns,     \* bound: user messages that are dispatched
    MaxCrashes   \* bound: crashes of the server process

ASSUME SentinelAssumption == NoThinker \notin Thinkers
ASSUME TasksAssumption == Tasks # {}
ASSUME LimitAssumption == FindLimit \in Nat
ASSUME BoundAssumption == MaxRuns \in Nat /\ MaxCrashes \in Nat

(* A message gets a fresh run id; its dispatch is known by the run.        *)
Runs == 1..MaxRuns
NoRun == 0
RunIds == Runs \union {NoRun}

Ended == {"completed", "failed"}
DispatchStatuses == {"absent", "pending", "claimed"} \union Ended

NotificationTypes == {"task_done", "progress_update", "task_failed"}

(* What the caller of complete or fail asks for: the status of the         *)
(* dispatch and the notification about its run.                            *)
Reports == {<<"completed", "task_done">>, <<"completed", "progress_update">>,
            <<"failed", "task_failed">>}

ASSUME ReportedAssumption == Reported \subseteq Reports

VARIABLES
    activeRun,      \* session_links.active_run_id
    rows,           \* thinker_dispatches
    queue,          \* the runs of the rows in the order of created_at
    listed,         \* observer_notifications: how many of a task's the search
                    \*   reads, the oldest ones
    open,           \* ... how many of those are pending, by subject,
    settled,        \* ... and the subjects with an acknowledged or resolved one
    beyond,         \* how many are pending past the end of that list, by subject
    handler,        \* where each handler is, and what it has read
    drawn,          \* how many run ids were drawn
    interrupted,    \* history: the runs another one replaced while active
    early,          \* history: runs a heartbeat was sent for before their claim
    overlapped,     \* history: two requests were in flight at the same time
    crashes

session == <<activeRun, interrupted>>
history == <<drawn, early, overlapped, crashes>>
notifications == <<listed, open, settled, beyond>>
vars == <<session, rows, queue, notifications, handler, history>>

Row == [status: DispatchStatuses, task: Tasks, claimedBy: Thinkers \union {NoThinker}]

(* The dedupe key of a notification.                                       *)
Subjects == [task: Tasks, type: NotificationTypes]

PCs == {"idle", "activate", "create", "clearRun", "readRow", "writeRow",
        "find", "notify"}

(* The local variables of a handler: the dispatch it is about, the row it  *)
(* is going to save, the report it was given, and whether complete_run     *)
(* found the run active.                                                   *)
(* "reports" is FALSE for complete-run, which has no dispatch to end.      *)
Handler == [pc: PCs, run: RunIds, row: Row, report: Reports, reports: BOOLEAN,
            wasActive: BOOLEAN]

AnyTask == CHOOSE task \in Tasks : TRUE

Blank == [pc |-> "idle", run |-> NoRun,
          row |-> [status |-> "absent", task |-> AnyTask, claimedBy |-> NoThinker],
          report |-> <<"completed", "task_done">>, reports |-> FALSE,
          wasActive |-> FALSE]

TypeOK ==
    /\ activeRun \in RunIds
    /\ rows \in [Runs -> Row]
    /\ queue \in Seq(Runs)
    /\ listed \in [Tasks -> 0..FindLimit]
    /\ open \in [Subjects -> Nat]
    /\ settled \in SUBSET Subjects
    /\ beyond \in [Subjects -> Nat]
    /\ handler \in [Handlers -> Handler]
    /\ drawn \in 0..MaxRuns
    /\ interrupted \in SUBSET Runs
    /\ early \in SUBSET Runs
    /\ overlapped \in BOOLEAN
    /\ crashes \in 0..MaxCrashes

Init ==
    /\ activeRun = NoRun
    /\ rows = [r \in Runs |-> Blank.row]
    /\ queue = <<>>
    /\ listed = [task \in Tasks |-> 0]
    /\ open = [s \in Subjects |-> 0]
    /\ settled = {}
    /\ beyond = [s \in Subjects |-> 0]
    /\ handler = [h \in Handlers |-> Blank]
    /\ drawn = 0
    /\ interrupted = {}
    /\ early = {}
    /\ overlapped = FALSE
    /\ crashes = 0

At(h, pc) == handler[h].pc = pc
InFlight == {h \in Handlers : ~At(h, "idle")}
Present(r) == rows[r].status # "absent"

Becomes(h, r) == handler' = [handler EXCEPT ![h] = r]
Answers(h) == Becomes(h, Blank)

(* A free handler takes a call and goes on as r.                           *)
Takes(h, r) ==
    /\ At(h, "idle")
    /\ Becomes(h, r)
    /\ overlapped' = (overlapped \/ InFlight # {})
    /\ UNCHANGED crashes

----------------------------------------------------------------------------
(* POST /kms/dispatch-user-message: a new run takes over the session, and  *)
(* its dispatch is queued for the task the message was routed to.          *)

DispatchUserMessage(h) ==
    /\ drawn < MaxRuns
    /\ drawn' = drawn + 1
    /\ \E task \in Tasks :
          Takes(h, [Blank EXCEPT !.pc = "activate", !.run = drawn + 1,
                                 !.row = [status |-> "pending", task |-> task,
                                          claimedBy |-> NoThinker]])
    /\ UNCHANGED <<session, rows, queue, notifications, early>>

ActivateRun(h) ==
    /\ At(h, "activate")
    /\ activeRun' = handler[h].run
    /\ interrupted' = interrupted \union ({activeRun} \ {NoRun})
    /\ Becomes(h, [handler[h] EXCEPT !.pc = "create"])
    /\ UNCHANGED <<rows, queue, notifications, history>>

CreateDispatch(h) ==
    /\ At(h, "create")
    /\ rows' = [rows EXCEPT ![handler[h].run] = handler[h].row]
    /\ queue' = Append(queue, handler[h].run)
    /\ Answers(h)
    /\ UNCHANGED <<session, notifications, history>>

----------------------------------------------------------------------------
(* POST /kms/thinker/dispatches/claim, /heartbeat, /complete, /fail and    *)
(* POST /kms/complete-run.                                                 *)

(* Fault: the query of claim does not ask for pending dispatches.          *)
MatchesAnyStatus(wanted) == {i \in DOMAIN queue : queue[i] \in wanted}

(* The pending dispatches among the wanted ones, by place in the queue.    *)
Matches(wanted) == {i \in DOMAIN queue : /\ queue[i] \in wanted
                                         /\ rows[queue[i]].status = "pending"}

(* A claim may ask for one dispatch, for one task, or for any dispatch. It *)
(* takes the oldest that matches, if there is one.                         *)
Filters == {Runs} \union {{r} : r \in Runs}
             \union {{r \in Runs : rows[r].task = task} : task \in Tasks}

ClaimDispatch(h) ==
    /\ \E thinker \in Thinkers, wanted \in Filters :
          \E i \in Matches(wanted) :
             /\ \A j \in Matches(wanted) : i <= j
             /\ Takes(h, [Blank EXCEPT !.pc = "writeRow", !.run = queue[i],
                                       !.row = [rows[queue[i]] EXCEPT
                                                  !.status = "claimed", !.claimedBy = thinker]])
    /\ UNCHANGED <<session, rows, queue, notifications, drawn, early>>

(* The whole row is read, and written back with a new heartbeat_at.  No    *)
(* check keeps a client from sending one for a pending or an ended row.    *)
Heartbeat(h) ==
    /\ \E r \in Runs :
          /\ Present(r)
          /\ Takes(h, [Blank EXCEPT !.pc = "writeRow", !.run = r, !.row = rows[r]])
          /\ early' = early \union (IF rows[r].status = "pending" THEN {r} ELSE {})
    /\ UNCHANGED <<session, rows, queue, notifications, drawn>>

(* Fault: complete_run does not compare the run with the active one.       *)
ClearsAnyRun(run) == activeRun # NoRun

(* complete_run ends a run only while the session row shows it as active.  *)
ClearsRun(run) == activeRun = run

(* Fault: the dispatch is ended before its run.                            *)
FinishDispatchFirst(h) ==
    /\ \E r \in Runs, report \in Reported :
          /\ Present(r)
          /\ Takes(h, [Blank EXCEPT !.pc = "readRow", !.run = r, !.report = report,
                                    !.reports = TRUE])
    /\ UNCHANGED <<session, rows, queue, notifications, drawn, early>>

(* complete or fail: first the run, then the dispatch, then the user.      *)
FinishDispatch(h) ==
    /\ \E r \in Runs, report \in Reported :
          /\ Present(r)
          /\ Takes(h, [Blank EXCEPT !.pc = IF ClearsRun(r) THEN "clearRun" ELSE "readRow",
                                    !.run = r, !.report = report, !.reports = TRUE])
    /\ UNCHANGED <<session, rows, queue, notifications, drawn, early>>

(* complete-run answers 409 for a run that is not active.                  *)
CompleteRun(h) ==
    /\ \E r \in Runs :
          /\ ClearsRun(r)
          /\ Takes(h, [Blank EXCEPT !.pc = "clearRun", !.run = r])
    /\ UNCHANGED <<session, rows, queue, notifications, drawn, early>>

ClearRun(h) ==
    /\ At(h, "clearRun")
    /\ activeRun' = NoRun
    /\ IF handler[h].reports
       THEN Becomes(h, [handler[h] EXCEPT !.pc = "readRow", !.wasActive = TRUE])
       ELSE Answers(h)
    /\ UNCHANGED <<interrupted, rows, queue, notifications, history>>

(* Fault: a failed dispatch goes back to the queue.                        *)
ReadRowRequeueing(h) ==
    /\ At(h, "readRow")
    /\ Becomes(h, [handler[h] EXCEPT !.pc = "writeRow",
                                     !.row = [rows[handler[h].run] EXCEPT
                                                !.status = "pending"]])
    /\ UNCHANGED <<session, rows, queue, notifications, history>>

(* complete_thinker_dispatch and fail_thinker_dispatch read the row anew.  *)
ReadRow(h) ==
    /\ At(h, "readRow")
    /\ Becomes(h, [handler[h] EXCEPT !.pc = "writeRow",
                                     !.row = [rows[handler[h].run] EXCEPT
                                                !.status = handler[h].report[1]]])
    /\ UNCHANGED <<session, rows, queue, notifications, history>>

(* Fault: a heartbeat puts the row back into the state of a claim.         *)
WriteRowAsClaimed(h) ==
    /\ At(h, "writeRow")
    /\ rows' = [rows EXCEPT ![handler[h].run] =
                  IF handler[h].reports THEN handler[h].row
                  ELSE [handler[h].row EXCEPT !.status = "claimed"]]
    /\ IF handler[h].wasActive
       THEN Becomes(h, [handler[h] EXCEPT !.pc = "find"])
       ELSE Answers(h)
    /\ UNCHANGED <<session, queue, notifications, history>>

(* Every call saves the whole row it holds.                                *)
WriteRow(h) ==
    /\ At(h, "writeRow")
    /\ rows' = [rows EXCEPT ![handler[h].run] = handler[h].row]
    /\ IF handler[h].wasActive
       THEN Becomes(h, [handler[h] EXCEPT !.pc = "find"])
       ELSE Answers(h)
    /\ UNCHANGED <<session, queue, notifications, history>>

----------------------------------------------------------------------------
(* NotificationCoordinator: a run that was active when it ended is         *)
(* reported, unless its task has an open notification of the same type     *)
(* among the oldest FindLimit ones, acknowledged and resolved ones counted.*)

Subject(h) == [task |-> handler[h].row.task, type |-> handler[h].report[2]]

(* Fault: a notification the observer has settled long ago still counts.   *)
SilencedByAny(subject) == open[subject] > 0 \/ subject \in settled

Silenced(subject) == open[subject] > 0

(* A progress update is also held back while an earlier one is younger     *)
(* than the minimal interval: it may be, or may not.                       *)
MayBeThrottled(subject) == subject.type = "progress_update" /\ subject \in settled

(* Fault: the search for an open notification is left out.                 *)
FindExistingNever(h) ==
    /\ At(h, "find")
    /\ Becomes(h, [handler[h] EXCEPT !.pc = "notify"])
    /\ UNCHANGED <<session, rows, queue, notifications, history>>

FindExisting(h) ==
    /\ At(h, "find")
    /\ \/ /\ Silenced(Subject(h)) \/ MayBeThrottled(Subject(h))
          /\ Answers(h)
       \/ /\ ~Silenced(Subject(h))
          /\ Becomes(h, [handler[h] EXCEPT !.pc = "notify"])
    /\ UNCHANGED <<session, rows, queue, notifications, history>>

CreateNotification(h) ==
    /\ At(h, "notify")
    /\ IF listed[Subject(h).task] < FindLimit
       THEN /\ listed' = [listed EXCEPT ![Subject(h).task] = @ + 1]
            /\ open' = [open EXCEPT ![Subject(h)] = @ + 1]
            /\ UNCHANGED beyond
       ELSE /\ beyond' = [beyond EXCEPT ![Subject(h)] = @ + 1]
            /\ UNCHANGED <<listed, open>>
    /\ Answers(h)
    /\ UNCHANGED <<session, rows, queue, settled, history>>

(* Notifications about conflicts, approvals, blocked or unclear work take  *)
(* their places in the list.                                               *)
OtherNotification ==
    /\ \E task \in Tasks :
          /\ listed[task] < FindLimit
          /\ listed' = [listed EXCEPT ![task] = @ + 1]
    /\ overlapped' = (overlapped \/ InFlight # {})
    /\ UNCHANGED <<session, rows, queue, open, settled, beyond, handler, drawn, early, crashes>>

(* Fault: a notification that was settled before counts as one more.       *)
SettleAgain ==
    /\ \E s \in Subjects :
          /\ open[s] > 0 \/ s \in settled
          /\ open' = [open EXCEPT ![s] = @ - 1]
          /\ settled' = settled \union {s}
    /\ UNCHANGED <<session, rows, queue, listed, beyond, handler, history>>

(* The observer acknowledges or resolves a notification.  Both rewrite the *)
(* row they read, of which only the status ever changes.                   *)
Settle ==
    /\ \E s \in Subjects :
          \/ /\ open[s] > 0
             /\ open' = [open EXCEPT ![s] = @ - 1]
             /\ settled' = settled \union {s}
             /\ UNCHANGED beyond
          \/ /\ beyond[s] > 0
             /\ beyond' = [beyond EXCEPT ![s] = @ - 1]
             /\ UNCHANGED <<open, settled>>
    /\ UNCHANGED <<session, rows, queue, listed, handler, history>>

(* SESSION_CANCELLED clears the active run, whichever it is, and leaves    *)
(* the dispatches alone.                                                   *)
Cancel ==
    /\ activeRun # NoRun
    /\ activeRun' = NoRun
    /\ overlapped' = (overlapped \/ InFlight # {})
    /\ UNCHANGED <<interrupted, rows, queue, notifications, handler, drawn, early, crashes>>

(* The process dies: the rows stay, the requests in flight are gone.       *)
Crash ==
    /\ crashes < MaxCrashes
    /\ InFlight # {}
    /\ crashes' = crashes + 1
    /\ handler' = [h \in Handlers |-> Blank]
    /\ UNCHANGED <<session, rows, queue, notifications, drawn, early, overlapped>>

----------------------------------------------------------------------------
Call(h) ==
    \/ DispatchUserMessage(h)
    \/ ClaimDispatch(h)
    \/ Heartbeat(h)
    \/ FinishDispatch(h)
    \/ CompleteRun(h)

Handle(h) ==
    \/ ActivateRun(h)   \/ CreateDispatch(h)
    \/ ClearRun(h)      \/ ReadRow(h)         \/ WriteRow(h)
    \/ FindExisting(h)  \/ CreateNotification(h)

Environment == OtherNotification \/ Settle \/ Cancel \/ Crash

Next == Environment \/ \E h \in Handlers : Call(h) \/ Handle(h)

(* The event loop resumes every handler whose store call has returned; no  *)
(* client, observer or crash is obliged to happen.                         *)
Fairness == \A h \in Handlers : WF_vars(Handle(h))

Spec == Init /\ [][Next]_vars /\ Fairness
----------------------------------------------------------------------------
(* Properties of every interleaving.                                       *)

(* The run a session shows as active is not over: its dispatch has not     *)
(* been completed or failed, whatever completions, failures, heartbeats    *)
(* and claims race with the dispatch of a newer message, and wherever a    *)
(* crash falls.  A client that sees an active run may wait for its result. *)
ActiveRunOpen == activeRun # NoRun => rows[activeRun].status \notin Ended

(* When every request is answered and none was lost in a crash, the active *)
(* run has a dispatch a thinker can claim or is working on.                *)
ActiveRunServed ==
    InFlight = {} /\ crashes = 0 /\ activeRun # NoRun =>
        rows[activeRun].status \in {"pending", "claimed"}

(* A dispatch that was claimed or has ended is never put back into the     *)
(* queue by a whole row that is written back late, as long as no heartbeat *)
(* was sent for it before it was claimed: such a heartbeat may have read   *)
(* it pending and save it after a claim, and after its end.                *)
NeverRequeued ==
    [][\A r \in Runs \ early : rows[r].status \in {"claimed"} \union Ended =>
                                  rows'[r].status # "pending"]_vars

(* A handler has ended the active run and has not yet told the user.       *)
Owed(subject) == \E h \in Handlers : /\ handler[h].wasActive
                                     /\ handler[h].report[2] = subject.type
                                     /\ rows[handler[h].run].task = subject.task

(* The user is told: when a run that was active is completed or failed,    *)
(* its task gets, or already has, an open notification of that kind, also  *)
(* if earlier ones were settled and others are created at the same time.   *)
(* Only a crash may lose it.                                               *)
EndedRunTold ==
    \A subject \in Subjects : subject.type # "progress_update" =>
        (Owed(subject) ~> (open[subject] + beyond[subject] > 0 \/ crashes > 0))

----------------------------------------------------------------------------
(* Properties as long as the server has worked on one request at a time,   *)
(* whichever calls are repeated and wherever it crashed.                   *)

(* No dispatch is handed to two thinkers.                                  *)
SoleClaim ==
    [][~overlapped' => \A r \in Runs : rows[r].claimedBy # NoThinker =>
                                          rows'[r].claimedBy = rows[r].claimedBy]_vars

(* A dispatch that has ended does not become open again, although nothing  *)
(* stops a client from sending heartbeats and claims for it.               *)
EndSticks ==
    [][~overlapped' => \A r \in Runs : rows[r].status \in Ended =>
                                          rows'[r].status \in Ended]_vars

(* A run that was replaced while active never reports to the user: its     *)
(* dispatch can be ended, and ended again, in silence.                     *)
StaleRunSilent ==
    ~overlapped => \A h \in Handlers : handler[h].wasActive =>
                                          handler[h].run \notin interrupted

(* A task has at most one open notification of each type in the list that  *)
(* the search reads, also when others were settled in between.  (Past the  *)
(* end of the list every report makes one more.)                           *)
OneOpenNotification == ~overlapped => \A s \in Subjects : open[s] <= 1

----------------------------------------------------------------------------
(* What the documentation says of stale dispatches and the code breaks.    *)

(* Completing or failing the dispatch of an old run never clears the       *)
(* active run of the session.                                              *)
StaleEndKeepsActiveRun ==
    [][\A h \in Handlers :
          /\ At(h, "clearRun") /\ handler'[h].pc = "readRow"
          /\ activeRun # NoRun
          => activeRun = handler[h].run]_vars
=============================================================================
