----------------------------- MODULE TaskSwitch -----------------------------
(* The task directory of one kernel session, and how dispatching a user    *)
(* message, completing a run and rebuilding the session change it: the row *)
(* of every task (task_snapshots), its mirror in the global directory      *)
(* (global_tasks), the list of tasks of the user session (user_sessions),  *)
(* the session's own pointers to tasks, and the task brief that all tasks  *)
(* share.                                                                  *)
(*                                                                         *)
(* Every call to the store commits on its own, and between two of them     *)
(* another handler may run: one action is one write, together with the     *)
(* reads of its handler that follow the previous write.  A handler works   *)
(* on the copies it read.  Where a crash stops it, it stays stopped: the   *)
(* rows survive and nothing resumes the call.                              *)
(*                                                                         *)
(* A goal is named by the run of the message that set it.  Steps,          *)
(* constraints, titles and versions are left out; what the calls write to  *)
(* the session's status is in EventPipeline.                               *)
EXTENDS Naturals, Sequences, FiniteSets

CONSTANTS
    Handlers,      \* request handlers that run side by side
    Outcomes,      \* the session statuses a run is completed with
    MaxRuns,       \* bound: user messages that reach the execution
    RacingRuns,    \* bound: calls overlap only while at most so many runs are drawn
    MaxCrashes,    \* bound: crashes of the process
    MaxRebuilds    \* bound: rebuilds of the session

ASSUME BoundAssumption ==
    MaxRuns \in Nat /\ RacingRuns \in Nat /\ MaxCrashes \in Nat /\ MaxRebuilds \in Nat
ASSUME OutcomeAssumption == Outcomes \subseteq {"running", "completed", "cancelled", "failed"}

Runs == 1..MaxRuns
NoRun == 0
NoGoal == 0
Goals == 0..MaxRuns
NoBrief == MaxRuns + 1   \* the session has no row of a brief

\* A dispatch creates at most two tasks: one to pause, one for the message.
Tasks == 1..(2 * MaxRuns)
NoTask == 0
TaskIds == Tasks \union {NoTask}

TaskStatus == {"active", "paused", "completed", "cancelled", "blocked"}
Snapshots == [status : TaskStatus \union {"absent"}, goal : Goals]
Absent == [status |-> "absent", goal |-> NoGoal]

\* What the classifier makes of a message, as far as the planner looks.
Intents == {"new_task", "resume_previous_task", "same_task_steer", "other"}

VARIABLES
    session,       \* session_links: active_run_id, active_task_id, last_paused_task_id
    tasks,         \* task_snapshots
    recent,        \* the tasks in the order of their updated_at, the latest last
    directory,     \* global_tasks: the status each task has there
    links,         \* user_sessions: linked_task_ids and active_task_id
    brief,         \* task_brief_states: the goal of the session's brief
    log,           \* cognitive_events: the goal each message stated, or none
    call,          \* what each handler is doing, and the copies it holds
    drawn,         \* runs drawn so far
    crashes,
    overlapped,    \* history: some call started while another was under way
    rebuilds,      \* history: rebuilds so far
    forgotten      \* history: the tasks whose rows a rebuild has deleted

rows == <<session, tasks, recent, directory, links, brief>>
past == <<log, rebuilds, forgotten>>
vars == <<rows, call, drawn, crashes, overlapped, past>>

PCs == {"idle", "plan", "ensure", "ensureMark", "save", "pauseMark", "mirror",
        "linkRead", "linkWrite", "restore", "activate", "submit", "create",
        "createMark", "refresh", "clear", "finish",
        "clearDerived", "replayCreation", "replay"}

Phases == {"pausing", "activating", "refreshing", "creating", "completing"}
Branches == {"continue", "new", "switch"}

Blank == [pc |-> "idle", phase |-> "pausing", branch |-> "continue",
          run |-> NoRun, previous |-> NoRun, created |-> FALSE, intent |-> "other",
          active |-> NoTask, lastPaused |-> NoTask,
          task |-> NoTask, row |-> Absent,
          target |-> NoTask, targetGoal |-> NoGoal,
          linked |-> {}, linkedActive |-> NoTask, replay |-> <<>>]

Call == [pc : PCs, phase : Phases, branch : Branches,
         run : Runs \union {NoRun}, previous : Runs \union {NoRun},
         created : BOOLEAN, intent : Intents,
         active : TaskIds, lastPaused : TaskIds,
         task : TaskIds, row : Snapshots,
         target : TaskIds, targetGoal : Goals,
         linked : SUBSET Tasks, linkedActive : TaskIds, replay : Seq(Goals)]

At(h, pc) == call[h].pc = pc
Goes(h, c) == call' = [call EXCEPT ![h] = c]
Exists(task) == task \in Tasks /\ tasks[task].status # "absent"
AtRest == \A h \in Handlers : At(h, "idle")

\* A fresh identifier: the call of a run has names of its own for the task it
\* makes of the brief and for the task of its message.
TaskOfBrief(run) == 2 * run - 1
TaskOfMessage(run) == 2 * run

Init ==
    /\ session = [run |-> NoRun, active |-> NoTask, lastPaused |-> NoTask]
    /\ tasks = [t \in Tasks |-> Absent]
    /\ recent = <<>>
    /\ directory = [t \in Tasks |-> "absent"]
    /\ links = [linked |-> {}, active |-> NoTask]
    /\ brief = NoGoal
    /\ log = <<>>
    /\ call = [h \in Handlers |-> Blank]
    /\ drawn = 0
    /\ crashes = 0
    /\ overlapped = FALSE
    /\ rebuilds = 0
    /\ forgotten = {}

-----------------------------------------------------------------------------
(* Writes of the store.                                                    *)

\* A list that names each task once, without the given one.
Without(list, task) ==
    IF \A i \in DOMAIN list : list[i] # task THEN list
    ELSE LET i == CHOOSE i \in DOMAIN list : list[i] = task
         IN  SubSeq(list, 1, i - 1) \o SubSeq(list, i + 1, Len(list))

\* save_task: the whole row is replaced, and becomes the latest.
SaveTask(task, row) ==
    /\ tasks' = [tasks EXCEPT ![task] = row]
    /\ recent' = Append(Without(recent, task), task)

\* upsert_global_task_from_snapshot: the mirror takes the status in hand.
UpsertGlobalTask(task, row) == directory' = [directory EXCEPT ![task] = row.status]

\* get_latest_paused_task.
PausedPositions == {i \in 1..Len(recent) : tasks[recent[i]].status = "paused"}
LatestPaused ==
    IF PausedPositions = {} THEN NoTask
    ELSE recent[CHOOSE i \in PausedPositions : \A j \in PausedPositions : j <= i]

\* get_resume_task: the session's own pointer, whatever became of the task.
ResumeTask(lastPaused) == IF Exists(lastPaused) THEN lastPaused ELSE LatestPaused

\* A goal is taken from the brief, if the session has one.
GoalOf(old) == IF brief = NoBrief THEN old ELSE brief

\* What a message makes of the brief: one without a goal keeps the goal, and
\* makes a brief without a goal where there is none.
Reduced(goal) == IF goal = NoGoal THEN GoalOf(NoGoal) ELSE goal

-----------------------------------------------------------------------------
(* Dispatching a user message.                                             *)

Starts(h, c) ==
    /\ At(h, "idle")
    /\ AtRest \/ drawn' <= RacingRuns
    /\ Goes(h, c)
    /\ overlapped' = (overlapped \/ ~AtRest)

(* prepare has read the session, and asked the router and the classifier;  *)
(* a message that finds no session creates one.  The router chooses among  *)
(* the tasks of the global directory.                                      *)
Dispatch(h) ==
    /\ drawn < MaxRuns
    /\ drawn' = drawn + 1
    /\ \E intent \in Intents, created \in {FALSE, drawn = 0}, target \in TaskIds :
          /\ target # NoTask => directory[target] # "absent" /\ ~created
          /\ Starts(h, [Blank EXCEPT
                !.pc = "plan", !.run = drawn + 1, !.previous = session.run,
                !.created = created, !.intent = intent,
                !.active = session.active, !.lastPaused = session.lastPaused,
                !.target = IF intent \in {"new_task", "resume_previous_task"}
                           THEN NoTask ELSE target])
    /\ UNCHANGED <<rows, crashes, past>>

\* The task in hand when the current task is to be paused: its row, with the
\* goal of the brief, or none when the session points to no task, or to one
\* whose row is gone.
Pausing(c) ==
    IF Exists(c.active)
    THEN [c EXCEPT !.pc = "save", !.phase = "pausing", !.task = c.active,
                   !.row = [status |-> "paused", goal |-> GoalOf(tasks[c.active].goal)]]
    ELSE [c EXCEPT !.pc = "ensure", !.phase = "pausing"]

\* Mutant: the current task is left as it is.
SwitchToAtOnce(c, target) ==
    [c EXCEPT !.branch = "switch", !.target = target, !.targetGoal = tasks[target].goal,
              !.pc = "restore", !.lastPaused = NoTask]

\* A task to activate, read before anything is paused.
SwitchTo(c, target) ==
    LET d == [c EXCEPT !.branch = "switch", !.target = target,
                       !.targetGoal = tasks[target].goal]
    IN  IF c.active # NoTask /\ c.active # target THEN Pausing(d)
        ELSE [d EXCEPT !.pc = "restore", !.lastPaused = NoTask]

PauseForNew(c) == Pausing([c EXCEPT !.branch = "new"])

(* The planner's decision: a task the router chose counts as long as it    *)
(* has a row; without a task to resume the call answers and ends.          *)
Planned(c) ==
    LET resume == ResumeTask(c.lastPaused)
        routed == IF Exists(c.target) THEN c.target ELSE NoTask
    IN  CASE routed # NoTask /\ routed = c.active -> [c EXCEPT !.pc = "activate"]
          [] routed # NoTask /\ routed # c.active -> SwitchTo(c, routed)
          [] routed = NoTask /\ c.intent = "new_task" /\ c.active # NoTask -> PauseForNew(c)
          [] routed = NoTask /\ c.intent = "resume_previous_task" ->
                IF resume = NoTask THEN Blank ELSE SwitchTo(c, resume)
          [] OTHER ->
                IF c.previous # NoRun /\ c.intent # "same_task_steer" THEN PauseForNew(c)
                ELSE [c EXCEPT !.pc = "activate",
                               !.branch = IF c.created THEN "new" ELSE "continue"]

Plan(h) ==
    /\ At(h, "plan")
    /\ Goes(h, Planned(call[h]))
    /\ UNCHANGED <<rows, drawn, crashes, overlapped, past>>

(* ensure_active_task_for_session without a task: one is made out of the   *)
(* brief, and the session is pointed at it.                                *)
Ensure(h) ==
    /\ At(h, "ensure")
    /\ LET task == TaskOfBrief(call[h].run)
           row == [status |-> "active", goal |-> GoalOf(NoGoal)]
       IN  /\ SaveTask(task, row)
           /\ Goes(h, [call[h] EXCEPT !.pc = "ensureMark", !.task = task, !.row = row])
    /\ UNCHANGED <<session, directory, links, brief, drawn, crashes, overlapped, past>>

EnsureMark(h) ==
    /\ At(h, "ensureMark")
    /\ session' = [session EXCEPT !.active = call[h].task]
    /\ Goes(h, [call[h] EXCEPT
                  !.pc = "save",
                  !.row = [status |-> IF call[h].phase = "pausing" THEN "paused" ELSE "active",
                           goal |-> GoalOf(call[h].row.goal)]])
    /\ UNCHANGED <<tasks, recent, directory, links, brief, drawn, crashes, overlapped, past>>

(* The row in hand is saved; a paused task is also noted in the session.   *)
Save(h) ==
    /\ At(h, "save")
    /\ SaveTask(call[h].task, call[h].row)
    /\ Goes(h, [call[h] EXCEPT !.pc = IF call[h].phase = "pausing"
                                      THEN "pauseMark" ELSE "mirror"])
    /\ UNCHANGED <<session, directory, links, brief, drawn, crashes, overlapped, past>>

\* Mutant: the mirror is forgotten for paused tasks.
PauseMarkOnly(h) ==
    /\ At(h, "pauseMark")
    /\ session' = [session EXCEPT !.lastPaused = call[h].task]
    /\ Goes(h, [call[h] EXCEPT !.pc = "linkRead"])
    /\ UNCHANGED <<tasks, recent, directory, links, brief, drawn, crashes, overlapped, past>>

PauseMark(h) ==
    /\ At(h, "pauseMark")
    /\ session' = [session EXCEPT !.lastPaused = call[h].task]
    /\ Goes(h, [call[h] EXCEPT !.pc = "mirror"])
    /\ UNCHANGED <<tasks, recent, directory, links, brief, drawn, crashes, overlapped, past>>

(* sync_global_task: the mirror, then the list of the user session, which  *)
(* is read and written back.  complete_run only updates the mirror.        *)
Mirror(h) ==
    /\ At(h, "mirror")
    /\ UpsertGlobalTask(call[h].task, call[h].row)
    /\ Goes(h, IF call[h].phase = "completing" THEN Blank
               ELSE [call[h] EXCEPT !.pc = "linkRead"])
    /\ UNCHANGED <<session, tasks, recent, links, brief, drawn, crashes, overlapped, past>>

LinkRead(h) ==
    /\ At(h, "linkRead")
    /\ Goes(h, [call[h] EXCEPT !.pc = "linkWrite",
                               !.linked = links.linked, !.linkedActive = links.active])
    /\ UNCHANGED <<rows, drawn, crashes, overlapped, past>>

\* After a pause the plan points away from the paused task; the other
\* phases that link a task come last, but for an activation.
AfterLink(c) ==
    CASE c.phase = "pausing" ->
            [c EXCEPT !.pc = IF c.branch = "switch" THEN "restore" ELSE "activate",
                      !.lastPaused = c.task, !.active = NoTask]
      [] c.phase = "activating" -> [c EXCEPT !.pc = "activate"]
      [] OTHER -> Blank

LinkTask(h) ==
    /\ At(h, "linkWrite")
    /\ links' = [linked |-> call[h].linked \union {call[h].task},
                 active |-> IF call[h].phase = "pausing" THEN call[h].linkedActive
                            ELSE call[h].task]
    /\ Goes(h, AfterLink(call[h]))
    /\ UNCHANGED <<session, tasks, recent, directory, brief, drawn, crashes, overlapped, past>>

\* Mutant: only the row of the task is restored.
RestoreRow(h) ==
    /\ At(h, "restore")
    /\ Goes(h, [call[h] EXCEPT
                  !.pc = "save", !.phase = "activating",
                  !.task = call[h].target, !.active = call[h].target,
                  !.row = [status |-> "active", goal |-> call[h].targetGoal]])
    /\ UNCHANGED <<rows, drawn, crashes, overlapped, past>>

(* restore_task_into_session: the brief takes the goal of the task that    *)
(* becomes active, as it was read when the plan was made.                  *)
Restore(h) ==
    /\ At(h, "restore")
    /\ brief' = call[h].targetGoal
    /\ Goes(h, [call[h] EXCEPT
                  !.pc = "save", !.phase = "activating",
                  !.task = call[h].target, !.active = call[h].target,
                  !.row = [status |-> "active", goal |-> call[h].targetGoal]])
    /\ UNCHANGED <<session, tasks, recent, directory, links, drawn, crashes, overlapped, past>>

(* activate_run: one update of the session row makes the run the active    *)
(* one and moves the session's pointers to where the plan says.            *)
ActivateRun(h) ==
    /\ At(h, "activate")
    /\ session' = [run |-> call[h].run, active |-> call[h].active,
                   lastPaused |-> call[h].lastPaused]
    /\ Goes(h, IF call[h].branch = "switch" THEN Blank
               ELSE [call[h] EXCEPT !.pc = "submit"])
    /\ UNCHANGED <<tasks, recent, directory, links, brief, drawn, crashes, overlapped, past>>

\* Mutant: every message becomes the goal.
SubmitAsGoal(h) ==
    /\ At(h, "submit")
    /\ brief' = call[h].run
    /\ log' = Append(log, call[h].run)
    /\ Goes(h, [call[h] EXCEPT !.pc = IF call[h].branch = "new" THEN "create" ELSE "refresh"])
    /\ UNCHANGED <<session, tasks, recent, directory, links, drawn, crashes, overlapped,
                   rebuilds, forgotten>>

(* submit_user_message: only the message of a new task carries a goal.     *)
Submit(h) ==
    /\ At(h, "submit")
    /\ LET goal == IF call[h].branch = "new" THEN call[h].run ELSE NoGoal
       IN  /\ brief' = Reduced(goal)
           /\ log' = Append(log, goal)
    /\ Goes(h, [call[h] EXCEPT !.pc = IF call[h].branch = "new" THEN "create" ELSE "refresh"])
    /\ UNCHANGED <<session, tasks, recent, directory, links, drawn, crashes, overlapped,
                   rebuilds, forgotten>>

\* Mutant: the session is pointed at the task before the row is saved.
CreatePointing(h) ==
    /\ At(h, "create")
    /\ LET task == TaskOfMessage(call[h].run)
           row == [status |-> "active", goal |-> call[h].run]
       IN  /\ session' = [session EXCEPT !.active = task]
           /\ Goes(h, [call[h] EXCEPT !.pc = "save", !.phase = "creating",
                                      !.task = task, !.row = row])
    /\ UNCHANGED <<tasks, recent, directory, links, brief, drawn, crashes, overlapped, past>>

(* create_task_from_user_message.                                          *)
Create(h) ==
    /\ At(h, "create")
    /\ LET task == TaskOfMessage(call[h].run)
           row == [status |-> "active", goal |-> call[h].run]
       IN  /\ SaveTask(task, row)
           /\ Goes(h, [call[h] EXCEPT !.pc = "createMark", !.phase = "creating",
                                      !.task = task, !.row = row])
    /\ UNCHANGED <<session, directory, links, brief, drawn, crashes, overlapped, past>>

CreateMark(h) ==
    /\ At(h, "createMark")
    /\ session' = [session EXCEPT !.active = call[h].task]
    /\ Goes(h, [call[h] EXCEPT !.pc = "mirror"])
    /\ UNCHANGED <<tasks, recent, directory, links, brief, drawn, crashes, overlapped, past>>

(* refresh_active_task_from_kernel_state: the session is read anew, and    *)
(* the status of its task is kept whatever it is.                          *)
Refreshed(c) ==
    IF Exists(session.active)
    THEN [c EXCEPT !.pc = "save", !.phase = "refreshing", !.task = session.active,
                   !.row = [status |-> tasks[session.active].status,
                            goal |-> GoalOf(tasks[session.active].goal)]]
    ELSE [c EXCEPT !.pc = "ensure", !.phase = "refreshing"]

Refresh(h) ==
    /\ At(h, "refresh")
    /\ Goes(h, Refreshed(call[h]))
    /\ UNCHANGED <<rows, drawn, crashes, overlapped, past>>

-----------------------------------------------------------------------------
(* complete_run.                                                           *)

\* Mutant: the status of the session for that of the task.
OutcomeStatusOfSession ==
    [running |-> "running", completed |-> "completed", cancelled |-> "cancelled",
     failed |-> "failed"]

OutcomeStatus ==
    [running |-> "active", completed |-> "completed", cancelled |-> "cancelled",
     failed |-> "blocked"]

(* The run must be the active one; the task is the one the session pointed *)
(* to at that moment.                                                      *)
CompleteRun(h) ==
    /\ session.run # NoRun
    /\ drawn' = drawn
    /\ \E outcome \in Outcomes :
          Starts(h, [Blank EXCEPT
             !.pc = "clear", !.phase = "completing", !.run = session.run,
             !.task = session.active,
             !.row = [status |-> OutcomeStatus[outcome], goal |-> NoGoal]])
    /\ UNCHANGED <<rows, crashes, past>>

ClearRun(h) ==
    /\ At(h, "clear")
    /\ session' = [session EXCEPT !.run = NoRun]
    /\ Goes(h, [call[h] EXCEPT !.pc = "finish"])
    /\ UNCHANGED <<tasks, recent, directory, links, brief, drawn, crashes, overlapped, past>>

Finish(h) ==
    /\ At(h, "finish")
    /\ LET c == call[h]
           row == [status |-> c.row.status, goal |-> tasks[c.task].goal]
       IN  Goes(h, IF Exists(c.task) THEN [c EXCEPT !.pc = "save", !.row = row] ELSE Blank)
    /\ UNCHANGED <<rows, drawn, crashes, overlapped, past>>

-----------------------------------------------------------------------------
(* rebuild_session.                                                        *)

(* The messages it reads, the oldest first.  Events of other kinds share   *)
(* the limit of what it reads, so it may miss the latest ones.             *)
Rebuild(h) ==
    /\ rebuilds < MaxRebuilds
    /\ rebuilds' = rebuilds + 1
    /\ drawn' = drawn
    /\ \E n \in 0..Len(log) :
          Starts(h, [Blank EXCEPT !.pc = "clearDerived", !.replay = SubSeq(log, 1, n)])
    /\ UNCHANGED <<rows, crashes, log, forgotten>>

(* clear_derived_state: the rows of the tasks, their mirrors and the brief *)
(* go; the session and the user session keep what they point to.           *)
ClearDerivedState(h) ==
    /\ At(h, "clearDerived")
    /\ tasks' = [t \in Tasks |-> Absent]
    /\ recent' = <<>>
    /\ directory' = [t \in Tasks |-> "absent"]
    /\ brief' = NoBrief
    /\ forgotten' = forgotten \union {t \in Tasks : Exists(t)}
    /\ Goes(h, [call[h] EXCEPT !.pc = "replayCreation"])
    /\ UNCHANGED <<session, links, drawn, crashes, overlapped, log, rebuilds>>

\* The first event of every log created the session, with an empty brief.
ReplayCreation(h) ==
    /\ At(h, "replayCreation")
    /\ brief' = NoGoal
    /\ Goes(h, [call[h] EXCEPT !.pc = "replay"])
    /\ UNCHANGED <<session, tasks, recent, directory, links, drawn, crashes, overlapped, past>>

(* Of what this module holds, the replay of a message restores the brief.  *)
Replay(h) ==
    /\ At(h, "replay")
    /\ IF call[h].replay = <<>>
       THEN Goes(h, Blank) /\ UNCHANGED brief
       ELSE /\ brief' = Reduced(Head(call[h].replay))
            /\ Goes(h, [call[h] EXCEPT !.replay = Tail(@)])
    /\ UNCHANGED <<session, tasks, recent, directory, links, drawn, crashes, overlapped, past>>

-----------------------------------------------------------------------------
(* The process stops: every call under way is lost, the rows stay.         *)
Crash ==
    /\ crashes < MaxCrashes
    /\ ~AtRest
    /\ crashes' = crashes + 1
    /\ call' = [h \in Handlers |-> Blank]
    /\ UNCHANGED <<rows, drawn, overlapped, past>>

Step(h) ==
    \/ Plan(h) \/ Ensure(h) \/ EnsureMark(h) \/ Save(h) \/ PauseMark(h)
    \/ Mirror(h) \/ LinkRead(h) \/ LinkTask(h) \/ Restore(h) \/ ActivateRun(h)
    \/ Submit(h) \/ Create(h) \/ CreateMark(h) \/ Refresh(h)
    \/ ClearRun(h) \/ Finish(h)
    \/ ClearDerivedState(h) \/ ReplayCreation(h) \/ Replay(h)

Next ==
    \/ \E h \in Handlers : Dispatch(h) \/ CompleteRun(h) \/ Rebuild(h) \/ Step(h)
    \/ Crash

Spec == Init /\ [][Next]_vars

-----------------------------------------------------------------------------
(* Properties.                                                             *)

TypeOK ==
    /\ session \in [run : Runs \union {NoRun}, active : TaskIds, lastPaused : TaskIds]
    /\ tasks \in [Tasks -> Snapshots]
    /\ recent \in Seq(Tasks)
    /\ directory \in [Tasks -> TaskStatus \union {"absent"}]
    /\ links \in [linked : SUBSET Tasks, active : TaskIds]
    /\ brief \in Goals \union {NoBrief}
    /\ log \in Seq(Goals)
    /\ call \in [Handlers -> Call]
    /\ drawn \in 0..MaxRuns
    /\ crashes \in 0..MaxCrashes
    /\ overlapped \in BOOLEAN
    /\ rebuilds \in 0..MaxRebuilds
    /\ forgotten \subseteq Tasks

\* A task that has a row, or had one that a rebuild has deleted.
Known(task) == Exists(task) \/ task \in forgotten

Calm == AtRest /\ crashes = 0 /\ ~overlapped /\ rebuilds = 0

\* Whoever is interrupted where, and whatever races with what: the session,
\* the user session and the global directory never point at a task that never
\* had a row, and one that has none any more has lost it to a rebuild, which
\* deletes the rows of all tasks and leaves the pointers of the sessions.
PointersHaveRows ==
    /\ \A t \in {session.active, session.lastPaused, links.active} \ {NoTask} : Known(t)
    /\ \A t \in links.linked : Known(t)
    /\ \A t \in Tasks : directory[t] # "absent" => Known(t)

\* Between two calls, as long as none has crashed or overlapped and the
\* session was not rebuilt, the only task that can be active is the one the
\* session points to, and the task the session would resume is a paused one.
OneActiveTask ==
    Calm => /\ \A t \in Tasks : tasks[t].status = "active" => t = session.active
            /\ session.lastPaused # NoTask => tasks[session.lastPaused].status = "paused"

\* Between two such calls the global directory shows every task with the
\* status its row has, and the user session lists every task.
DirectoryInStep ==
    Calm => /\ \A t \in Tasks : directory[t] = tasks[t].status
            /\ links.linked = {t \in Tasks : Exists(t)}

\* Between two such calls the brief, which all tasks share, states the goal
\* of the task the session works on.  The calls are those of this module:
\* dispatched messages and completed runs; an intent that is updated through
\* /kms/request changes the brief alone, and the row follows at the next
\* message.
BriefOfActiveTask == Calm /\ session.active # NoTask => brief = tasks[session.active].goal

\* As long as these calls neither overlap nor crash and the session is not
\* rebuilt, pausing, resuming, continuing and completing tasks never gives a
\* task another goal than it was created with, although every one of them
\* copies the goal of the shared brief.  An intent updated in between would be
\* copied too.
GoalsKept ==
    [][ crashes = 0 /\ ~overlapped' /\ rebuilds' = 0 =>
          \A t \in Tasks : Exists(t) => tasks'[t].goal = tasks[t].goal ]_vars
=============================================================================
