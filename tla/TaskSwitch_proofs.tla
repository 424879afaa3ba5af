------------------------- MODULE TaskSwitch_proofs --------------------------
(* Proofs about TaskSwitch for any number of handlers, runs, crashes and   *)
(* rebuilds.                                                               *)
EXTENDS TaskSwitch, FiniteSetTheorems, TLAPS

-----------------------------------------------------------------------------
(* Types.                                                                  *)

(* What a call may point to: no task, or one that has a row or had one     *)
(* that a rebuild has deleted.                                             *)
Pointable(task) == task \in TaskIds /\ (task # NoTask => Known(task))

(* What a handler holds fits the rows: the tasks it read about are known,  *)
(* a call under way has a run, a switch has a target, where a task is      *)
(* about to be written or linked, it has been saved, and where a rebuild   *)
(* is under way, it is counted.                                            *)
HoldingPCs == {"ensureMark", "save", "pauseMark", "mirror", "linkRead", "linkWrite", "createMark"}
RebuildPCs == {"clearDerived", "replayCreation", "replay"}
Held(c) ==
    /\ Pointable(c.active) /\ Pointable(c.lastPaused) /\ Pointable(c.target)
    /\ Pointable(c.linkedActive)
    /\ \A t \in c.linked : Known(t)
    /\ c.pc \notin {"idle"} \union RebuildPCs => c.run \in Runs
    /\ c.pc \in RebuildPCs => rebuilds # 0
    /\ c.branch = "switch" => c.target # NoTask
    /\ c.pc = "restore" => c.target # NoTask
    /\ c.pc \in HoldingPCs => Known(c.task)
    /\ c.pc \in HoldingPCs \union {"clear", "finish"} => c.row.status # "absent"

(* The invariant: types, pointers, what a rebuild alone can lose, and what *)
(* the handlers hold.                                                      *)
Pointed ==
    /\ Pointable(session.active) /\ Pointable(session.lastPaused) /\ Pointable(links.active)
    /\ \A t \in links.linked : Known(t)
    /\ \A t \in Tasks : directory[t] # "absent" => Known(t)
Unrebuilt == rebuilds = 0 => forgotten = {} /\ brief # NoBrief
IInv == TypeOK /\ Pointed /\ Unrebuilt /\ \A h \in Handlers : Held(call[h])

(* A handler without a call is typed and holds nothing.                    *)
LEMMA BlankHeld == Blank \in Call /\ Blank.pc = "idle" /\ Held(Blank)
<1>1. Blank \in Call
  BY BoundAssumption DEF Blank, Call, PCs, Phases, Branches, Runs, NoRun, Intents, TaskIds,
     NoTask, Snapshots, Absent, NoGoal, Goals
<1>2. QED
  BY <1>1 DEF Blank, Held, Pointable, Known, HoldingPCs, RebuildPCs, TaskIds

(* A list of tasks stays one when a task moves to its end.                 *)
LEMMA WithoutType ==
    ASSUME NEW list \in Seq(Tasks), NEW task \in Tasks
    PROVE  Append(Without(list, task), task) \in Seq(Tasks)
<1>1. CASE \A i \in DOMAIN list : list[i] # task
  BY <1>1 DEF Without
<1>2. CASE \E i \in DOMAIN list : list[i] = task
  <2> DEFINE i == CHOOSE i \in DOMAIN list : list[i] = task
  <2>1. i \in 1..Len(list)
    BY <1>2
  <2>2. Without(list, task) = SubSeq(list, 1, i - 1) \o SubSeq(list, i + 1, Len(list))
    BY <1>2 DEF Without
  <2> HIDE DEF i
  <2>3. SubSeq(list, 1, i - 1) \in Seq(Tasks) /\ SubSeq(list, i + 1, Len(list)) \in Seq(Tasks)
    BY <2>1
  <2>4. QED
    BY <2>2, <2>3
<1>3. QED
  BY <1>1, <1>2

(* No step forgets a task or a rebuild.                                    *)
Stays == (\A t : Known(t) => Known(t)') /\ (rebuilds # 0 => rebuilds' # 0)

(* Saving a row that is one keeps the types, every row that is there, and  *)
(* adds the saved one.                                                     *)
LEMMA Saved ==
    ASSUME TypeOK, NEW task \in Tasks, NEW row \in Snapshots, row.status # "absent",
           SaveTask(task, row), UNCHANGED <<rebuilds, forgotten>>
    PROVE  /\ tasks' \in [Tasks -> Snapshots]
           /\ recent' \in Seq(Tasks)
           /\ Known(task)'
           /\ Stays
<1>1. recent' \in Seq(Tasks)
  BY WithoutType DEF TypeOK, SaveTask
<1>2. tasks' \in [Tasks -> Snapshots] /\ tasks' = [tasks EXCEPT ![task] = row]
  BY DEF TypeOK, SaveTask
<1>3. QED
  BY <1>1, <1>2 DEF Exists, Known, Stays, TypeOK

(* What a handler holds stays true.                                        *)
LEMMA HeldStays ==
    ASSUME NEW c, Held(c), Stays
    PROVE  Held(c)'
BY DEF Held, Pointable, Stays

(* Positions of a list that are not empty have a last one.                 *)
LEMMA LastOf ==
    ASSUME NEW n \in Nat, NEW S \in SUBSET (1..n), S # {}
    PROVE  \E m \in S : \A j \in S : j <= m
<1> DEFINE R == StrictSubsetOrdering(1..n)
           T == {j..n : j \in S}
<1>1. IsWellFoundedOn(R, FiniteSubsetsOf(1..n))
  BY FS_StrictSubsetOrderingWellFounded
<1>2. T \subseteq SUBSET (1..n) /\ T # {}
  <2>1. PICK j \in S : TRUE
    OBVIOUS
  <2>2. j..n \in T
    BY <2>1
  <2>3. \A k \in S : k..n \subseteq 1..n
    OBVIOUS
  <2>4. QED
    BY <2>2, <2>3
<1>3. IsFiniteSet(1..n)
  BY FS_Interval
<1>4. FiniteSubsetsOf(1..n) = SUBSET (1..n)
  BY <1>3, FS_FiniteSubsetsOfFinite
<1>5. \E X \in T : \A Y \in T : ~(<<Y, X>> \in R)
  <2> HIDE DEF R, T
  <2>1. QED
    BY <1>1, <1>2, <1>4, WFMin
<1>6. PICK m \in S : \A j \in S : ~(<<j..n, m..n>> \in R)
  BY <1>5
<1>7. ASSUME NEW j \in S, j > m PROVE FALSE
  <2>1. j..n \subseteq m..n /\ m \notin j..n /\ m \in m..n
    BY <1>7
  <2>2. <<j..n, m..n>> \in R
    BY <2>1 DEF StrictSubsetOrdering
  <2>3. QED
    BY <1>6, <2>2
<1>8. QED
  BY <1>7

(* The task to resume, if any, has a row.                                  *)
LEMMA ResumeKnown ==
    ASSUME TypeOK, NEW lastPaused, Pointable(lastPaused)
    PROVE  /\ ResumeTask(lastPaused) \in TaskIds
           /\ ResumeTask(lastPaused) # NoTask => Exists(ResumeTask(lastPaused))
<1>1. CASE Exists(lastPaused)
  BY <1>1 DEF ResumeTask, Pointable, Known
<1>2. CASE ~Exists(lastPaused) /\ PausedPositions = {}
  BY <1>2 DEF ResumeTask, LatestPaused, TaskIds
<1>3. CASE ~Exists(lastPaused) /\ PausedPositions # {}
  <2> DEFINE i == CHOOSE i \in PausedPositions : \A j \in PausedPositions : j <= i
  <2>1. PausedPositions \subseteq 1..Len(recent) /\ Len(recent) \in Nat
    BY DEF PausedPositions, TypeOK
  <2>2. \E m \in PausedPositions : \A j \in PausedPositions : j <= m
    BY <1>3, <2>1, LastOf
  <2>3. i \in PausedPositions
    BY <2>2
  <2>4. recent[i] \in Tasks /\ tasks[recent[i]].status = "paused"
    BY <2>3 DEF PausedPositions, TypeOK
  <2>5. ResumeTask(lastPaused) = recent[i]
    BY <1>3 DEF ResumeTask, LatestPaused
  <2>6. QED
    BY <2>4, <2>5 DEF Exists, TaskIds
<1>4. QED
  BY <1>1, <1>2, <1>3
-----------------------------------------------------------------------------
(* What the planner makes of a call fits the rows.                         *)

(* The goal a row takes is one.                                            *)
LEMMA GoalOfType == ASSUME TypeOK, NEW old \in Goals PROVE GoalOf(old) \in Goals
BY DEF TypeOK, GoalOf

(* A message leaves a brief with a goal.                                   *)
LEMMA ReducedType ==
    ASSUME TypeOK, NEW goal \in Goals
    PROVE  Reduced(goal) \in Goals /\ Reduced(goal) # NoBrief
<1>1. NoGoal \in Goals /\ NoBrief \notin Goals
  BY BoundAssumption DEF NoGoal, Goals, NoBrief
<1>2. GoalOf(NoGoal) \in Goals
  BY <1>1, GoalOfType
<1>3. Reduced(goal) \in Goals
  BY <1>2 DEF Reduced
<1>4. QED
  BY <1>1, <1>3

LEMMA PausingHeld ==
    ASSUME TypeOK, NEW c \in Call, Held(c), c.pc = "plan"
    PROVE  Pausing(c) \in Call /\ Held(Pausing(c))
<1>1. CASE Exists(c.active)
  <2> DEFINE row == [status |-> "paused", goal |-> GoalOf(tasks[c.active].goal)]
             d == [c EXCEPT !.pc = "save", !.phase = "pausing", !.task = c.active, !.row = row]
  <2>1. row \in Snapshots /\ row.status = "paused"
    <3>1. tasks[c.active].goal \in Goals
      BY <1>1 DEF Exists, TypeOK, Snapshots
    <3>2. QED
      BY <3>1, GoalOfType DEF Snapshots, TaskStatus
  <2>2. Pausing(c) = d
    BY <1>1 DEF Pausing
  <2> HIDE DEF row
  <2>3. d \in Call
    BY <2>1 DEF Call, PCs, Phases
  <2>4. Held(d)
    BY <1>1, <2>1 DEF Held, Known, Call, HoldingPCs, RebuildPCs
  <2>5. QED
    BY <2>2, <2>3, <2>4
<1>2. CASE ~Exists(c.active)
  <2> DEFINE d == [c EXCEPT !.pc = "ensure", !.phase = "pausing"]
  <2>1. d \in Call
    BY DEF Call, PCs, Phases
  <2>2. Held(d)
    BY DEF Held, Call, HoldingPCs, RebuildPCs
  <2>3. QED
    BY <1>2, <2>1, <2>2 DEF Pausing
<1>3. QED
  BY <1>1, <1>2

LEMMA SwitchToHeld ==
    ASSUME TypeOK, NEW c \in Call, Held(c), c.pc = "plan", NEW target, Exists(target)
    PROVE  SwitchTo(c, target) \in Call /\ Held(SwitchTo(c, target))
<1> DEFINE d == [c EXCEPT !.branch = "switch", !.target = target,
                          !.targetGoal = tasks[target].goal]
           e == [d EXCEPT !.pc = "restore", !.lastPaused = NoTask]
<1>1. target \in Tasks /\ target # NoTask /\ Pointable(target) /\ tasks[target].goal \in Goals
  BY DEF Exists, Pointable, Known, TypeOK, Snapshots, Tasks, TaskIds, NoTask
<1>2. d \in Call /\ d.pc = c.pc
  BY <1>1 DEF Call, Branches, TaskIds
<1>3. Held(d)
  BY <1>1 DEF Held, Call
<1>4. e \in Call
  BY <1>2 DEF Call, PCs, TaskIds
<1>5. Held(e)
  BY <1>1, <1>3 DEF Held, Call, HoldingPCs, RebuildPCs, Pointable, Known, TaskIds
<1>6. SwitchTo(c, target) \in {e, Pausing(d)}
  BY DEF SwitchTo
<1> HIDE DEF d
<1>7. QED
  BY <1>2, <1>3, <1>4, <1>5, <1>6, PausingHeld

LEMMA PauseForNewHeld ==
    ASSUME TypeOK, NEW c \in Call, Held(c), c.pc = "plan"
    PROVE  PauseForNew(c) \in Call /\ Held(PauseForNew(c))
<1> DEFINE d == [c EXCEPT !.branch = "new"]
<1>1. d \in Call /\ d.pc = "plan"
  BY DEF Call, Branches
<1>2. Held(d)
  BY DEF Held, Call, HoldingPCs, RebuildPCs
<1>3. PauseForNew(c) = Pausing(d)
  BY DEF PauseForNew
<1> HIDE DEF d
<1>4. QED
  BY <1>1, <1>2, <1>3, PausingHeld

LEMMA PlannedHeld ==
    ASSUME TypeOK, NEW c \in Call, Held(c), c.pc = "plan"
    PROVE  Planned(c) \in Call /\ Held(Planned(c))
<1> DEFINE resume == ResumeTask(c.lastPaused)
           routed == IF Exists(c.target) THEN c.target ELSE NoTask
           Activates(branch) == [c EXCEPT !.pc = "activate", !.branch = branch]
           on == [c EXCEPT !.pc = "activate"]
<1>1. \A branch \in {"new", "continue"} :
        Activates(branch) \in Call /\ Held(Activates(branch))
  BY DEF Held, Call, HoldingPCs, RebuildPCs, PCs, Branches
<1>2. on \in Call /\ Held(on)
  BY DEF Held, Call, HoldingPCs, RebuildPCs, PCs
<1>3. PauseForNew(c) \in Call /\ Held(PauseForNew(c))
  BY PauseForNewHeld
<1>4. routed # NoTask => SwitchTo(c, routed) \in Call /\ Held(SwitchTo(c, routed))
  BY SwitchToHeld
<1>5. resume # NoTask => SwitchTo(c, resume) \in Call /\ Held(SwitchTo(c, resume))
  BY SwitchToHeld, ResumeKnown DEF Held
<1>6. CASE routed # NoTask
  BY <1>2, <1>4, <1>6 DEF Planned
<1>7. CASE routed = NoTask /\ c.intent = "new_task" /\ c.active # NoTask
  BY <1>3, <1>7 DEF Planned
<1>8. CASE routed = NoTask /\ c.intent = "resume_previous_task"
  BY <1>5, <1>8, BlankHeld DEF Planned
<1>9. CASE /\ routed = NoTask
           /\ ~(c.intent = "new_task" /\ c.active # NoTask)
           /\ c.intent # "resume_previous_task"
  BY <1>1, <1>3, <1>9 DEF Planned
<1>10. QED
  BY <1>6, <1>7, <1>8, <1>9

-----------------------------------------------------------------------------
(* The steps of the calls.                                                 *)

(* A handler goes on with a record that fits: whatever all handlers hold   *)
(* still fits.                                                             *)
LEMMA Continues ==
    ASSUME IInv, NEW h \in Handlers, NEW c \in Call, Goes(h, c), Held(c)', Stays
    PROVE  /\ call' \in [Handlers -> Call]
           /\ (\A g \in Handlers : Held(call[g]))'
<1>1. call' \in [Handlers -> Call]
      /\ \A g \in Handlers : call'[g] = IF g = h THEN c ELSE call[g]
  BY DEF Goes, IInv, TypeOK
<1>2. \A g \in Handlers : Held(call[g])
  BY DEF IInv
<1>3. ASSUME NEW g \in Handlers PROVE Held(call[g])'
  <2>1. CASE g = h
    BY <1>1, <2>1
  <2>2. CASE g # h
    <3>1. call'[g] = call[g] /\ Held(call[g])
      BY <1>1, <1>2, <2>2
    <3>2. PICK k : k = call[g]
      OBVIOUS
    <3>3. Held(k)'
      BY <3>1, <3>2, HeldStays
    <3>4. QED
      BY <3>1, <3>2, <3>3 DEF Held, Pointable
  <2>3. QED
    BY <2>1, <2>2
<1>4. QED
  BY <1>1, <1>3

(* A step that leaves the rows: it looks at them, or begins a call.        *)
LEMMA LooksOnly ==
    ASSUME IInv, NEW h \in Handlers, NEW c \in Call, Goes(h, c), Held(c)',
           UNCHANGED <<rows, crashes, log, forgotten>>,
           drawn' \in 0..MaxRuns, overlapped' \in BOOLEAN, rebuilds' \in 0..MaxRebuilds,
           rebuilds # 0 => rebuilds' # 0
    PROVE  IInv'
<1>1. \A t : Known(t)' = Known(t)
  BY DEF rows, Exists, Known
<1>2. Stays
  BY <1>1 DEF Stays
<1>3. call' \in [Handlers -> Call] /\ (\A g \in Handlers : Held(call[g]))'
  BY <1>2, Continues
<1>4. TypeOK'
  BY <1>3 DEF IInv, TypeOK, rows
<1>5. Pointed'
  BY <1>1 DEF IInv, Pointed, Pointable, rows
<1>6. Unrebuilt'
  BY DEF IInv, Unrebuilt, rows
<1>7. QED
  BY <1>3, <1>4, <1>5, <1>6 DEF IInv

(* A step within a call that only looks at the rows.                       *)
LEMMA Looks ==
    ASSUME IInv, NEW h \in Handlers, NEW c \in Call, Goes(h, c), Held(c),
           UNCHANGED <<rows, drawn, crashes, overlapped, past>>
    PROVE  IInv'
<1>1. \A t : Known(t)' = Known(t)
  BY DEF rows, past, Exists, Known
<1>2. Stays
  BY <1>1 DEF Stays, past
<1>3. Held(c)'
  BY <1>2, HeldStays
<1>4. /\ drawn' \in 0..MaxRuns /\ overlapped' \in BOOLEAN /\ rebuilds' \in 0..MaxRebuilds
      /\ rebuilds # 0 => rebuilds' # 0
      /\ UNCHANGED <<rows, crashes, log, forgotten>>
  BY DEF IInv, TypeOK, past
<1>5. QED
  BY <1>3, <1>4, LooksOnly

(* A step that saves the row of one task.                                  *)
LEMMA SavesTask ==
    ASSUME IInv, NEW h \in Handlers, NEW c \in Call, Goes(h, c),
           NEW task \in Tasks, NEW row \in Snapshots, row.status # "absent",
           SaveTask(task, row), Stays /\ Known(task)' => Held(c)',
           UNCHANGED <<session, directory, links, brief, drawn, crashes, overlapped, past>>
    PROVE  IInv'
<1>1. UNCHANGED <<log, rebuilds, forgotten>>
  BY DEF past
<1>2. /\ tasks' \in [Tasks -> Snapshots] /\ recent' \in Seq(Tasks)
      /\ Known(task)' /\ Stays
  BY <1>1, Saved DEF IInv
<1>3. call' \in [Handlers -> Call] /\ (\A g \in Handlers : Held(call[g]))'
  BY <1>2, Continues
<1>4. TypeOK'
  BY <1>1, <1>2, <1>3 DEF IInv, TypeOK
<1>5. Pointed'
  BY <1>2 DEF IInv, Pointed, Pointable, Stays
<1>6. Unrebuilt'
  BY <1>1 DEF IInv, Unrebuilt
<1>7. QED
  BY <1>3, <1>4, <1>5, <1>6 DEF IInv

(* A step that writes pointers or the brief, and leaves the rows of tasks. *)
LEMMA WritesPointers ==
    ASSUME IInv, NEW h \in Handlers, NEW c \in Call, Goes(h, c), Held(c),
           session' \in [run : Runs \union {NoRun}, active : TaskIds, lastPaused : TaskIds],
           directory' \in [Tasks -> TaskStatus \union {"absent"}],
           links' \in [linked : SUBSET Tasks, active : TaskIds],
           brief' \in Goals \union {NoBrief}, brief' # NoBrief \/ brief' = brief,
           log' \in Seq(Goals),
           UNCHANGED <<tasks, recent, drawn, crashes, overlapped, rebuilds, forgotten>>,
           Pointable(session'.active), Pointable(session'.lastPaused), Pointable(links'.active),
           \A t \in links'.linked : Known(t),
           \A t \in Tasks : directory'[t] # "absent" => Known(t)
    PROVE  IInv'
<1>1. \A t : Known(t)' = Known(t)
  BY DEF Exists, Known
<1>2. Stays
  BY <1>1 DEF Stays
<1>3. Held(c)'
  BY <1>2, HeldStays
<1>4. call' \in [Handlers -> Call] /\ (\A g \in Handlers : Held(call[g]))'
  BY <1>2, <1>3, Continues
<1>5. TypeOK'
  BY <1>4 DEF IInv, TypeOK
<1>6. Pointed'
  BY <1>1 DEF Pointed, Pointable
<1>7. Unrebuilt'
  BY DEF IInv, Unrebuilt
<1>8. QED
  BY <1>4, <1>5, <1>6, <1>7 DEF IInv

(* A handler between two stores: what it holds, by what it is at.          *)
LEMMA Holding ==
    ASSUME IInv, NEW h \in Handlers, call[h].pc \notin {"idle"} \union RebuildPCs
    PROVE  /\ call[h] \in Call /\ Held(call[h]) /\ call[h].run \in Runs
           /\ call[h].pc \in HoldingPCs =>
                 /\ Known(call[h].task) /\ call[h].task \in Tasks
                 /\ call[h].row.status \in TaskStatus /\ call[h].row.status # "absent"
BY DEF IInv, TypeOK, Held, Known, Exists, Call, Snapshots

LEMMA LookingSteps ==
    ASSUME IInv, NEW h \in Handlers,
           Plan(h) \/ LinkRead(h) \/ Refresh(h) \/ Finish(h)
    PROVE  IInv'
<1>1. /\ UNCHANGED <<rows, drawn, crashes, overlapped, past>>
      /\ call[h].pc \notin {"idle"} \union RebuildPCs
  BY DEF Plan, LinkRead, Refresh, Finish, At, RebuildPCs
<1>2. call[h] \in Call /\ Held(call[h]) /\ call[h].run \in Runs
  BY <1>1, Holding
<1>3. CASE Plan(h)
  <2>1. Planned(call[h]) \in Call /\ Held(Planned(call[h]))
    BY <1>2, <1>3, PlannedHeld DEF Plan, At, IInv
  <2>2. QED
    BY <1>1, <1>3, <2>1, Looks DEF Plan
<1>4. CASE LinkRead(h)
  <2> DEFINE c == [call[h] EXCEPT !.pc = "linkWrite", !.linked = links.linked,
                               !.linkedActive = links.active]
  <2>1. call[h].pc = "linkRead"
    BY <1>4 DEF LinkRead, At
  <2>2. c \in Call
    BY <1>2 DEF Call, PCs, IInv, TypeOK
  <2>3. Held(c)
    BY <1>2, <2>1 DEF Held, Call, HoldingPCs, RebuildPCs, IInv, Pointed
  <2> HIDE DEF c
  <2>4. QED
    BY <1>1, <1>4, <2>2, <2>3, Looks DEF LinkRead, c
<1>5. CASE Refresh(h)
  <2> DEFINE row == [status |-> tasks[session.active].status,
                     goal |-> GoalOf(tasks[session.active].goal)]
             c == [call[h] EXCEPT !.pc = "save", !.phase = "refreshing",
                                  !.task = session.active, !.row = row]
             d == [call[h] EXCEPT !.pc = "ensure", !.phase = "refreshing"]
  <2>1. d \in Call /\ Held(d)
    BY <1>2 DEF Call, PCs, Phases, Held, HoldingPCs, RebuildPCs
  <2>2. ASSUME Exists(session.active) PROVE c \in Call /\ Held(c)
    <3>1. row \in Snapshots /\ row.status # "absent" /\ session.active \in TaskIds
      <4>1. tasks[session.active] \in Snapshots /\ session.active \in TaskIds
            /\ tasks[session.active].status # "absent"
        BY <2>2 DEF Exists, IInv, TypeOK, TaskIds
      <4>2. GoalOf(tasks[session.active].goal) \in Goals
        BY <4>1, GoalOfType DEF IInv, Snapshots
      <4>3. QED
        BY <4>1, <4>2 DEF Snapshots
    <3> HIDE DEF row
    <3>2. c \in Call
      BY <1>2, <3>1 DEF Call, PCs, Phases
    <3>3. Held(c)
      BY <1>2, <2>2, <3>1 DEF Call, Held, Known, HoldingPCs, RebuildPCs
    <3>4. QED
      BY <3>2, <3>3
  <2>3. Goes(h, IF Exists(session.active) THEN c ELSE d)
    BY <1>5 DEF Refresh, Refreshed
  <2> HIDE DEF c, d
  <2>4. QED
    BY <1>1, <2>1, <2>2, <2>3, Looks
<1>6. CASE Finish(h)
  <2> DEFINE row == [status |-> call[h].row.status, goal |-> tasks[call[h].task].goal]
             c == [call[h] EXCEPT !.pc = "save", !.row = row]
  <2>1. ASSUME Exists(call[h].task) PROVE c \in Call /\ Held(c)
    <3>1. row \in Snapshots
      BY <1>2, <2>1 DEF Exists, IInv, TypeOK, Snapshots, Call
    <3>2. row.status # "absent"
      BY <1>2, <1>6 DEF Finish, At, Held
    <3> HIDE DEF row
    <3>3. c \in Call
      BY <1>2, <3>1 DEF Call, PCs
    <3>4. Held(c)
      BY <1>2, <2>1, <3>2 DEF Call, Held, Known, HoldingPCs, RebuildPCs
    <3>5. QED
      BY <3>3, <3>4
  <2>2. Goes(h, IF Exists(call[h].task) THEN c ELSE Blank)
    BY <1>6 DEF Finish
  <2> HIDE DEF c
  <2>3. QED
    BY <1>1, <2>1, <2>2, BlankHeld, Looks
<1>7. QED
  BY <1>3, <1>4, <1>5, <1>6

(* The tasks that the call of a run makes are tasks.                       *)
LEMMA TaskNames ==
    ASSUME NEW run \in Runs
    PROVE  TaskOfBrief(run) \in Tasks /\ TaskOfMessage(run) \in Tasks
BY BoundAssumption DEF Runs, Tasks, TaskOfBrief, TaskOfMessage

LEMMA SavingSteps ==
    ASSUME IInv, NEW h \in Handlers, Ensure(h) \/ Save(h) \/ Create(h)
    PROVE  IInv'
<1>1. call[h].pc \notin {"idle"} \union RebuildPCs
  BY DEF Ensure, Save, Create, At, RebuildPCs
<1>2. call[h] \in Call /\ Held(call[h]) /\ call[h].run \in Runs
  BY <1>1, Holding
<1>3. CASE Ensure(h)
  <2>1. PICK task \in Tasks : task = TaskOfBrief(call[h].run)
    BY <1>2, TaskNames
  <2>2. PICK row \in Snapshots : row = [status |-> "active", goal |-> GoalOf(NoGoal)]
    <3>1. GoalOf(NoGoal) \in Goals
      BY GoalOfType, BoundAssumption DEF IInv, NoGoal, Goals
    <3>2. [status |-> "active", goal |-> GoalOf(NoGoal)] \in Snapshots
      BY <3>1 DEF Snapshots, TaskStatus
    <3>3. QED
      BY <3>2
  <2>3. PICK c \in Call : c = [call[h] EXCEPT !.pc = "ensureMark", !.task = task, !.row = row]
    BY <1>2 DEF Call, PCs, Phases, TaskIds
  <2>4. SaveTask(task, row) /\ Goes(h, c) /\ row.status # "absent"
    BY <1>3, <2>1, <2>2, <2>3 DEF Ensure
  <2>5. Stays /\ Known(task)' => Held(c)'
    BY <1>2, <2>3, <2>4 DEF Held, Pointable, Stays, Call, HoldingPCs, RebuildPCs
  <2>6. QED
    BY <1>3, <2>4, <2>5, SavesTask DEF Ensure
<1>4. CASE Save(h)
  <2>1. PICK task \in Tasks, row \in Snapshots :
          task = call[h].task /\ row = call[h].row /\ row.status # "absent" /\ Known(task)
    BY <1>1, <1>2, <1>4, Holding DEF Save, At, Call, HoldingPCs, RebuildPCs
  <2>2. PICK c \in Call : c = [call[h] EXCEPT !.pc = IF call[h].phase = "pausing"
                                                     THEN "pauseMark" ELSE "mirror"]
    BY <1>2 DEF Call, PCs
  <2>3. SaveTask(task, row) /\ Goes(h, c)
    BY <1>4, <2>1, <2>2 DEF Save
  <2>4. Held(c)
    BY <1>2, <2>1, <2>2 DEF Held, Call, HoldingPCs, RebuildPCs
  <2>5. Stays => Held(c)'
    BY <2>4, HeldStays
  <2>6. QED
    BY <1>4, <2>1, <2>3, <2>5, SavesTask DEF Save
<1>5. CASE Create(h)
  <2>1. PICK task \in Tasks : task = TaskOfMessage(call[h].run)
    BY <1>2, TaskNames
  <2>2. PICK row \in Snapshots : row = [status |-> "active", goal |-> call[h].run]
    <3>1. call[h].run \in Goals
      BY <1>2, BoundAssumption DEF Runs, Goals
    <3>2. [status |-> "active", goal |-> call[h].run] \in Snapshots
      BY <3>1 DEF Snapshots, TaskStatus
    <3>3. QED
      BY <3>2
  <2>3. PICK c \in Call : c = [call[h] EXCEPT !.pc = "createMark", !.phase = "creating",
                                        !.task = task, !.row = row]
    BY <1>2 DEF Call, PCs, Phases, TaskIds
  <2>4. SaveTask(task, row) /\ Goes(h, c) /\ row.status # "absent"
    BY <1>5, <2>1, <2>2, <2>3 DEF Create
  <2>5. Stays /\ Known(task)' => Held(c)'
    BY <1>2, <2>3, <2>4 DEF Held, Pointable, Stays, Call, HoldingPCs, RebuildPCs
  <2>6. QED
    BY <1>5, <2>4, <2>5, SavesTask DEF Create
<1>6. QED
  BY <1>3, <1>4, <1>5

LEMMA SessionSteps ==
    ASSUME IInv, NEW h \in Handlers,
           EnsureMark(h) \/ PauseMark(h) \/ ActivateRun(h) \/ CreateMark(h) \/ ClearRun(h)
    PROVE  IInv'
<1>1. /\ call[h].pc \notin {"idle"} \union RebuildPCs
      /\ UNCHANGED <<tasks, recent, directory, links, brief, drawn, crashes, overlapped>>
      /\ UNCHANGED <<log, rebuilds, forgotten>>
  BY DEF EnsureMark, PauseMark, ActivateRun, CreateMark, ClearRun, At, RebuildPCs, past
<1>2. call[h] \in Call /\ Held(call[h]) /\ call[h].run \in Runs
  BY <1>1, Holding
<1>3. /\ session \in [run : Runs \union {NoRun}, active : TaskIds, lastPaused : TaskIds]
      /\ directory' \in [Tasks -> TaskStatus \union {"absent"}]
      /\ links' \in [linked : SUBSET Tasks, active : TaskIds]
      /\ brief' \in Goals \union {NoBrief} /\ brief' = brief /\ log' \in Seq(Goals)
      /\ Pointable(session.active) /\ Pointable(session.lastPaused) /\ Pointable(links'.active)
      /\ \A t \in links'.linked : Known(t)
      /\ \A t \in Tasks : directory'[t] # "absent" => Known(t)
  BY <1>1 DEF IInv, TypeOK, Pointed
<1>4. ASSUME call[h].pc \in HoldingPCs
      PROVE  call[h].task \in Tasks /\ Pointable(call[h].task) /\ Known(call[h].task)
  BY <1>1, <1>4, Holding DEF Pointable, TaskIds
<1>5. CASE EnsureMark(h)
  <2> DEFINE row == [status |-> IF call[h].phase = "pausing" THEN "paused" ELSE "active",
                     goal |-> GoalOf(call[h].row.goal)]
             c == [call[h] EXCEPT !.pc = "save", !.row = row]
             s == [session EXCEPT !.active = call[h].task]
  <2>1. row \in Snapshots /\ row.status # "absent"
    <3>1. call[h].row.goal \in Goals
      BY <1>2 DEF Call, Snapshots
    <3>2. GoalOf(call[h].row.goal) \in Goals
      BY <3>1, GoalOfType DEF IInv
    <3>3. QED
      BY <3>2 DEF Snapshots, TaskStatus
  <2>2. call[h].pc = "ensureMark" /\ session' = s /\ Goes(h, c)
    BY <1>5 DEF EnsureMark, At
  <2> HIDE DEF row
  <2>3. c \in Call
    BY <1>2, <2>1 DEF Call, PCs
  <2>4. Held(c)
    BY <1>2, <1>4, <2>1, <2>2 DEF Held, Call, HoldingPCs, RebuildPCs
  <2>5. /\ s \in [run : Runs \union {NoRun}, active : TaskIds, lastPaused : TaskIds]
        /\ Pointable(s.active) /\ Pointable(s.lastPaused)
    BY <1>3, <1>4, <2>2 DEF HoldingPCs, RebuildPCs, TaskIds
  <2> HIDE DEF c, s
  <2>6. QED
    BY <1>1, <1>3, <2>2, <2>3, <2>4, <2>5, WritesPointers
<1>6. CASE PauseMark(h)
  <2> DEFINE c == [call[h] EXCEPT !.pc = "mirror"]
             s == [session EXCEPT !.lastPaused = call[h].task]
  <2>1. call[h].pc = "pauseMark" /\ session' = s /\ Goes(h, c)
    BY <1>6 DEF PauseMark, At
  <2>2. c \in Call
    BY <1>2 DEF Call, PCs
  <2>3. Held(c)
    BY <1>2, <2>1 DEF Held, Call, HoldingPCs, RebuildPCs
  <2>4. /\ s \in [run : Runs \union {NoRun}, active : TaskIds, lastPaused : TaskIds]
        /\ Pointable(s.active) /\ Pointable(s.lastPaused)
    BY <1>3, <1>4, <2>1 DEF HoldingPCs, RebuildPCs, TaskIds
  <2> HIDE DEF c, s
  <2>5. QED
    BY <1>1, <1>3, <2>1, <2>2, <2>3, <2>4, WritesPointers
<1>7. CASE ActivateRun(h)
  <2> DEFINE c == [call[h] EXCEPT !.pc = "submit"]
             s == [run |-> call[h].run, active |-> call[h].active,
                   lastPaused |-> call[h].lastPaused]
  <2>1. session' = s /\ Goes(h, IF call[h].branch = "switch" THEN Blank ELSE c)
    BY <1>7 DEF ActivateRun
  <2>2. c \in Call
    BY <1>2 DEF Call, PCs
  <2>3. Held(c)
    BY <1>2 DEF Held, Call, HoldingPCs, RebuildPCs
  <2>4. /\ s \in [run : Runs \union {NoRun}, active : TaskIds, lastPaused : TaskIds]
        /\ Pointable(s.active) /\ Pointable(s.lastPaused)
    BY <1>2 DEF Held, Call
  <2> HIDE DEF c, s
  <2>5. QED
    BY <1>1, <1>3, <2>1, <2>2, <2>3, <2>4, BlankHeld, WritesPointers
<1>8. CASE CreateMark(h)
  <2> DEFINE c == [call[h] EXCEPT !.pc = "mirror"]
             s == [session EXCEPT !.active = call[h].task]
  <2>1. call[h].pc = "createMark" /\ session' = s /\ Goes(h, c)
    BY <1>8 DEF CreateMark, At
  <2>2. c \in Call
    BY <1>2 DEF Call, PCs
  <2>3. Held(c)
    BY <1>2, <2>1 DEF Held, Call, HoldingPCs, RebuildPCs
  <2>4. /\ s \in [run : Runs \union {NoRun}, active : TaskIds, lastPaused : TaskIds]
        /\ Pointable(s.active) /\ Pointable(s.lastPaused)
    BY <1>3, <1>4, <2>1 DEF HoldingPCs, RebuildPCs, TaskIds
  <2> HIDE DEF c, s
  <2>5. QED
    BY <1>1, <1>3, <2>1, <2>2, <2>3, <2>4, WritesPointers
<1>9. CASE ClearRun(h)
  <2> DEFINE c == [call[h] EXCEPT !.pc = "finish"]
             s == [session EXCEPT !.run = NoRun]
  <2>1. call[h].pc = "clear" /\ session' = s /\ Goes(h, c)
    BY <1>9 DEF ClearRun, At
  <2>2. c \in Call
    BY <1>2 DEF Call, PCs
  <2>3. Held(c)
    BY <1>2, <2>1 DEF Held, Call, HoldingPCs, RebuildPCs
  <2>4. /\ s \in [run : Runs \union {NoRun}, active : TaskIds, lastPaused : TaskIds]
        /\ Pointable(s.active) /\ Pointable(s.lastPaused)
    BY <1>3 DEF NoRun
  <2> HIDE DEF c, s
  <2>5. QED
    BY <1>1, <1>3, <2>1, <2>2, <2>3, <2>4, WritesPointers
<1>10. QED
  BY <1>5, <1>6, <1>7, <1>8, <1>9

LEMMA AfterLinkHeld ==
    ASSUME TypeOK, NEW c \in Call, Held(c), c.pc = "linkWrite", Pointable(c.task)
    PROVE  AfterLink(c) \in Call /\ Held(AfterLink(c))
<1> DEFINE d == [c EXCEPT !.pc = IF c.branch = "switch" THEN "restore" ELSE "activate",
                          !.lastPaused = c.task, !.active = NoTask]
           e == [c EXCEPT !.pc = "activate"]
<1>1. d \in Call /\ e \in Call
  <2>1. PICK pc \in PCs : pc = IF c.branch = "switch" THEN "restore" ELSE "activate"
    BY DEF PCs
  <2>2. NoTask \in TaskIds /\ c.task \in TaskIds
    BY DEF TaskIds, Pointable
  <2>3. d = [c EXCEPT !.pc = pc, !.lastPaused = c.task, !.active = NoTask]
    BY <2>1
  <2>4. d \in Call
    BY <2>2, <2>3 DEF Call
  <2>5. e \in Call
    BY DEF Call, PCs
  <2>6. QED
    BY <2>4, <2>5
<1>2. Held(d)
  BY DEF Held, Pointable, Call, HoldingPCs, RebuildPCs, TaskIds
<1>3. Held(e)
  BY DEF Held, Call, HoldingPCs, RebuildPCs
<1>4. AfterLink(c) \in {d, e, Blank}
  BY DEF AfterLink
<1>5. QED
  BY <1>1, <1>2, <1>3, <1>4, BlankHeld

LEMMA PointingSteps ==
    ASSUME IInv, NEW h \in Handlers,
           Mirror(h) \/ LinkTask(h) \/ Restore(h) \/ Submit(h)
    PROVE  IInv'
<1>1. /\ call[h].pc \notin {"idle"} \union RebuildPCs
      /\ UNCHANGED <<session, tasks, recent, drawn, crashes, overlapped, rebuilds, forgotten>>
  BY DEF Mirror, LinkTask, Restore, Submit, At, RebuildPCs, past
<1>2. call[h] \in Call /\ Held(call[h]) /\ call[h].run \in Runs
  BY <1>1, Holding
<1>3. /\ session' \in [run : Runs \union {NoRun}, active : TaskIds, lastPaused : TaskIds]
      /\ Pointable(session'.active) /\ Pointable(session'.lastPaused)
  BY <1>1 DEF IInv, TypeOK, Pointed
<1>4. /\ directory \in [Tasks -> TaskStatus \union {"absent"}]
      /\ links \in [linked : SUBSET Tasks, active : TaskIds]
      /\ brief \in Goals \union {NoBrief} /\ log \in Seq(Goals)
      /\ Pointable(links.active)
      /\ \A t \in links.linked : Known(t)
      /\ \A t \in Tasks : directory[t] # "absent" => Known(t)
  BY DEF IInv, TypeOK, Pointed
<1>5. ASSUME call[h].pc \in HoldingPCs
      PROVE  /\ call[h].task \in Tasks /\ Pointable(call[h].task) /\ Known(call[h].task)
             /\ call[h].row.status \in TaskStatus
  BY <1>1, <1>5, Holding DEF Pointable, TaskIds
<1>6. CASE Mirror(h)
  <2> DEFINE c == [call[h] EXCEPT !.pc = "linkRead"]
             d == [directory EXCEPT ![call[h].task] = call[h].row.status]
  <2>1. /\ call[h].pc = "mirror" /\ directory' = d
        /\ Goes(h, IF call[h].phase = "completing" THEN Blank ELSE c)
        /\ UNCHANGED <<links, brief, log>>
    BY <1>6 DEF Mirror, UpsertGlobalTask, At, past
  <2>2. c \in Call
    BY <1>2 DEF Call, PCs
  <2>3. Held(c)
    BY <1>2, <2>1 DEF Held, Call, HoldingPCs, RebuildPCs
  <2>4. d \in [Tasks -> TaskStatus \union {"absent"}]
        /\ \A t \in Tasks : d[t] # "absent" => Known(t)
    BY <1>4, <1>5, <2>1 DEF HoldingPCs, RebuildPCs
  <2> HIDE DEF c, d
  <2>5. QED
    BY <1>1, <1>3, <1>4, <2>1, <2>2, <2>3, <2>4, BlankHeld, WritesPointers
<1>7. CASE LinkTask(h)
  <2> DEFINE l == [linked |-> call[h].linked \union {call[h].task},
                   active |-> IF call[h].phase = "pausing" THEN call[h].linkedActive
                              ELSE call[h].task]
  <2>1. /\ call[h].pc = "linkWrite" /\ links' = l /\ Goes(h, AfterLink(call[h]))
        /\ UNCHANGED <<directory, brief, log>>
    BY <1>7 DEF LinkTask, At, past
  <2>2. AfterLink(call[h]) \in Call /\ Held(AfterLink(call[h]))
    BY <1>2, <1>5, <2>1, AfterLinkHeld DEF HoldingPCs, RebuildPCs, IInv
  <2>3. l \in [linked : SUBSET Tasks, active : TaskIds] /\ Pointable(l.active)
        /\ \A t \in l.linked : Known(t)
    BY <1>2, <1>4, <1>5, <2>1 DEF Call, HoldingPCs, RebuildPCs, TaskIds, Held
  <2> HIDE DEF l
  <2>4. QED
    BY <1>1, <1>3, <1>4, <2>1, <2>2, <2>3, WritesPointers
<1>8. CASE Restore(h)
  <2>1. PICK row \in Snapshots : row = [status |-> "active", goal |-> call[h].targetGoal]
    BY <1>2 DEF Call, Snapshots, TaskStatus
  <2> DEFINE c == [call[h] EXCEPT !.pc = "save", !.phase = "activating",
                     !.task = call[h].target, !.active = call[h].target, !.row = row]
  <2>2. /\ call[h].pc = "restore" /\ brief' = call[h].targetGoal /\ Goes(h, c)
        /\ UNCHANGED <<directory, links, log>> /\ row.status # "absent"
    BY <1>8, <2>1 DEF Restore, At, past
  <2>3. c \in Call /\ call[h].targetGoal \in Goals /\ call[h].targetGoal # NoBrief
    <3>1. call[h].targetGoal \in Goals
      BY <1>2 DEF Call
    <3>2. call[h].targetGoal # NoBrief
      BY <3>1, BoundAssumption DEF Goals, NoBrief
    <3>3. QED
      BY <1>2, <3>1, <3>2 DEF Call, PCs, Phases
  <2>4. Held(c)
    BY <1>2, <2>2 DEF Held, Pointable, Known, Call, HoldingPCs, RebuildPCs
  <2> HIDE DEF c
  <2>5. QED
    BY <1>1, <1>3, <1>4, <2>2, <2>3, <2>4, WritesPointers
<1>9. CASE Submit(h)
  <2>1. PICK goal \in Goals : /\ goal = IF call[h].branch = "new" THEN call[h].run ELSE NoGoal
                              /\ brief' = Reduced(goal) /\ log' = Append(log, goal)
    <3>1. call[h].run \in Goals /\ NoGoal \in Goals
      BY <1>2, BoundAssumption DEF Runs, Goals, NoGoal
    <3>2. QED
      BY <1>9, <3>1 DEF Submit
  <2>2. PICK c \in Call : c = [call[h] EXCEPT !.pc = IF call[h].branch = "new"
                                                     THEN "create" ELSE "refresh"]
    BY <1>2 DEF Call, PCs
  <2>3. Goes(h, c) /\ UNCHANGED <<directory, links>>
    BY <1>9, <2>2 DEF Submit
  <2>4. Held(c)
    BY <1>2, <2>2 DEF Held, Call, HoldingPCs, RebuildPCs
  <2>5. brief' \in Goals \union {NoBrief} /\ brief' # NoBrief
    BY <2>1, ReducedType DEF IInv
  <2>6. log' \in Seq(Goals)
    BY <1>4, <2>1
  <2>7. QED
    BY <1>1, <1>3, <1>4, <2>3, <2>4, <2>5, <2>6, WritesPointers
<1>10. QED
  BY <1>6, <1>7, <1>8, <1>9

(* A message that arrives holds what the session points to, and the task   *)
(* the router has chosen.                                                  *)
LEMMA DispatchStep ==
    ASSUME IInv, NEW h \in Handlers, Dispatch(h)
    PROVE  IInv'
<1>1. drawn < MaxRuns /\ drawn' = drawn + 1 /\ drawn' \in 0..MaxRuns /\ drawn + 1 \in Runs
  BY BoundAssumption DEF Dispatch, IInv, TypeOK, Runs
<1>2. PICK intent \in Intents, created \in {FALSE, drawn = 0}, target \in TaskIds :
        /\ target # NoTask => directory[target] # "absent" /\ ~created
        /\ Starts(h, [Blank EXCEPT
              !.pc = "plan", !.run = drawn + 1, !.previous = session.run,
              !.created = created, !.intent = intent,
              !.active = session.active, !.lastPaused = session.lastPaused,
              !.target = IF intent \in {"new_task", "resume_previous_task"}
                         THEN NoTask ELSE target])
  BY DEF Dispatch
<1> DEFINE c == [Blank EXCEPT
              !.pc = "plan", !.run = drawn + 1, !.previous = session.run,
              !.created = created, !.intent = intent,
              !.active = session.active, !.lastPaused = session.lastPaused,
              !.target = IF intent \in {"new_task", "resume_previous_task"}
                         THEN NoTask ELSE target]
<1>3. /\ created \in BOOLEAN
      /\ session.run \in Runs \union {NoRun} /\ session.active \in TaskIds
      /\ session.lastPaused \in TaskIds /\ NoTask \in TaskIds
  BY DEF IInv, TypeOK, TaskIds
<1>4. c \in Call
  BY <1>1, <1>3, BlankHeld DEF Call, PCs
<1>5. Held(c)
  <2>1. Pointable(target)
    BY <1>2 DEF Pointable, IInv, Pointed, TaskIds
  <2>2. Pointable(NoTask) /\ Pointable(session.active) /\ Pointable(session.lastPaused)
    BY <1>3 DEF Pointable, IInv, Pointed
  <2>3. QED
    BY <1>1, <2>1, <2>2, BlankHeld DEF Held, HoldingPCs, RebuildPCs, Blank
<1>6. Goes(h, c) /\ overlapped' = (overlapped \/ ~AtRest)
  BY <1>2 DEF Starts
<1>7. overlapped' \in BOOLEAN
  BY <1>6 DEF IInv, TypeOK, AtRest, At
<1> HIDE DEF c
<1>8. QED
  <2>1. PICK d \in Call : d = c
    BY <1>4
  <2>2. UNCHANGED <<rows, crashes, log, rebuilds, forgotten>>
    BY DEF Dispatch, past
  <2>3. Stays
    BY <2>2 DEF Stays, rows, Known, Exists
  <2>4. Held(d)'
    BY <1>5, <2>1, <2>3, HeldStays
  <2>5. rebuilds' \in 0..MaxRebuilds /\ (rebuilds # 0 => rebuilds' # 0)
    BY <2>2 DEF IInv, TypeOK
  <2>6. Goes(h, d)
    BY <1>6, <2>1
  <2>7. QED
    BY <1>1, <1>7, <2>2, <2>4, <2>5, <2>6, LooksOnly

LEMMA CompleteRunStep ==
    ASSUME IInv, NEW h \in Handlers, CompleteRun(h)
    PROVE  IInv'
<1>1. session.run \in Runs /\ drawn' = drawn /\ drawn \in 0..MaxRuns
  BY DEF CompleteRun, IInv, TypeOK
<1>2. PICK outcome \in Outcomes :
        Starts(h, [Blank EXCEPT
           !.pc = "clear", !.phase = "completing", !.run = session.run,
           !.task = session.active,
           !.row = [status |-> OutcomeStatus[outcome], goal |-> NoGoal]])
  BY DEF CompleteRun
<1>3. PICK row \in Snapshots :
        row = [status |-> OutcomeStatus[outcome], goal |-> NoGoal] /\ row.status # "absent"
  <2>1. OutcomeStatus[outcome] \in TaskStatus
    BY OutcomeAssumption DEF OutcomeStatus, TaskStatus
  <2>2. NoGoal \in Goals
    BY BoundAssumption DEF NoGoal, Goals
  <2>3. [status |-> OutcomeStatus[outcome], goal |-> NoGoal] \in Snapshots
        /\ OutcomeStatus[outcome] # "absent"
    BY <2>1, <2>2 DEF Snapshots, TaskStatus
  <2>4. QED
    BY <2>3
<1> DEFINE c == [Blank EXCEPT !.pc = "clear", !.phase = "completing", !.run = session.run,
                              !.task = session.active, !.row = row]
<1>4. c \in Call
  BY <1>1, BlankHeld DEF Call, PCs, Phases, IInv, TypeOK
<1>5. Held(c)
  BY <1>1, <1>3, BlankHeld DEF Held, Call, HoldingPCs, RebuildPCs
<1>6. Goes(h, c) /\ overlapped' = (overlapped \/ ~AtRest)
  BY <1>2, <1>3 DEF Starts
<1>7. overlapped' \in BOOLEAN
  BY <1>6 DEF IInv, TypeOK, AtRest, At
<1> HIDE DEF c
<1>8. QED
  <2>1. PICK d \in Call : d = c
    BY <1>4
  <2>2. UNCHANGED <<rows, crashes, log, rebuilds, forgotten>>
    BY DEF CompleteRun, past
  <2>3. Stays
    BY <2>2 DEF Stays, rows, Known, Exists
  <2>4. Held(d)'
    BY <1>5, <2>1, <2>3, HeldStays
  <2>5. rebuilds' \in 0..MaxRebuilds /\ (rebuilds # 0 => rebuilds' # 0)
    BY <2>2 DEF IInv, TypeOK
  <2>6. Goes(h, d)
    BY <1>6, <2>1
  <2>7. QED
    BY <1>1, <1>7, <2>2, <2>4, <2>5, <2>6, LooksOnly

(* A rebuild begins with the messages it has read.                         *)
LEMMA RebuildStep ==
    ASSUME IInv, NEW h \in Handlers, Rebuild(h)
    PROVE  IInv'
<1>1. rebuilds < MaxRebuilds /\ rebuilds' = rebuilds + 1 /\ rebuilds' \in 0..MaxRebuilds
      /\ rebuilds' # 0
  BY BoundAssumption DEF Rebuild, IInv, TypeOK
<1>2. drawn' = drawn /\ drawn' \in 0..MaxRuns /\ UNCHANGED <<rows, crashes, log, forgotten>>
  BY DEF Rebuild, IInv, TypeOK
<1>3. PICK n \in 0..Len(log) :
        Starts(h, [Blank EXCEPT !.pc = "clearDerived", !.replay = SubSeq(log, 1, n)])
  BY DEF Rebuild
<1>4. SubSeq(log, 1, n) \in Seq(Goals)
  BY DEF IInv, TypeOK
<1>5. PICK c \in Call : c = [Blank EXCEPT !.pc = "clearDerived", !.replay = SubSeq(log, 1, n)]
  <2>1. [Blank EXCEPT !.pc = "clearDerived", !.replay = SubSeq(log, 1, n)] \in Call
    BY <1>4, BlankHeld DEF Call, PCs
  <2>2. QED
    BY <2>1
<1>6. Goes(h, c) /\ overlapped' = (overlapped \/ ~AtRest)
  BY <1>3, <1>5 DEF Starts
<1>7. overlapped' \in BOOLEAN
  BY <1>6 DEF IInv, TypeOK, AtRest, At
<1>8. Held(c)'
  BY <1>1, <1>5 DEF Held, Pointable, HoldingPCs, RebuildPCs, Blank, TaskIds
<1>9. QED
  BY <1>1, <1>2, <1>5, <1>6, <1>7, <1>8, LooksOnly

(* Where a rebuild deletes the rows, every task that had one is known to   *)
(* have had it.                                                            *)
LEMMA ClearDerivedStateStep ==
    ASSUME IInv, NEW h \in Handlers, ClearDerivedState(h)
    PROVE  IInv'
<1>1. /\ call[h].pc = "clearDerived" /\ call[h] \in Call /\ Held(call[h]) /\ rebuilds # 0
      /\ UNCHANGED <<session, links, drawn, crashes, overlapped, log, rebuilds>>
  BY DEF ClearDerivedState, At, IInv, TypeOK, Held, RebuildPCs
<1>2. Stays
  <2>1. \A t : Exists(t) => t \in Tasks
    BY DEF Exists
  <2>2. \A t : Known(t) => t \in forgotten'
    BY <2>1 DEF Known, ClearDerivedState
  <2>3. QED
    BY <1>1, <2>2 DEF Stays, Known
<1>3. PICK c \in Call : c = [call[h] EXCEPT !.pc = "replayCreation"]
  BY <1>1 DEF Call, PCs
<1>4. Held(c)
  BY <1>1, <1>3 DEF Held, Call, HoldingPCs, RebuildPCs
<1>5. call' \in [Handlers -> Call] /\ (\A g \in Handlers : Held(call[g]))'
  <2>1. Goes(h, c)
    BY <1>3 DEF ClearDerivedState
  <2>2. Held(c)'
    BY <1>2, <1>4, HeldStays
  <2>3. QED
    BY <1>2, <2>1, <2>2, Continues
<1>6. TypeOK'
  <2>1. tasks' \in [Tasks -> Snapshots]
    BY BoundAssumption DEF ClearDerivedState, Absent, Snapshots, NoGoal, Goals
  <2>2. recent' \in Seq(Tasks) /\ directory' \in [Tasks -> TaskStatus \union {"absent"}]
    BY DEF ClearDerivedState
  <2>3. brief' \in Goals \union {NoBrief} /\ forgotten' \subseteq Tasks
    BY DEF ClearDerivedState, IInv, TypeOK
  <2>4. QED
    BY <1>1, <1>5, <2>1, <2>2, <2>3 DEF IInv, TypeOK
<1>7. Pointed'
  <2>1. \A t \in Tasks : directory'[t] = "absent"
    BY DEF ClearDerivedState
  <2>2. QED
    BY <1>1, <1>2, <2>1 DEF IInv, Pointed, Pointable, Stays
<1>8. Unrebuilt'
  BY <1>1 DEF Unrebuilt
<1>9. QED
  BY <1>5, <1>6, <1>7, <1>8 DEF IInv

(* What is replayed is the brief.                                          *)
LEMMA ReplaySteps ==
    ASSUME IInv, NEW h \in Handlers, ReplayCreation(h) \/ Replay(h)
    PROVE  IInv'
<1>1. /\ call[h].pc \in {"replayCreation", "replay"} /\ call[h] \in Call /\ Held(call[h])
      /\ UNCHANGED <<session, tasks, recent, directory, links, drawn, crashes, overlapped>>
      /\ UNCHANGED <<log, rebuilds, forgotten>>
  BY DEF ReplayCreation, Replay, At, IInv, TypeOK, past
<1>2. /\ session' \in [run : Runs \union {NoRun}, active : TaskIds, lastPaused : TaskIds]
      /\ directory' \in [Tasks -> TaskStatus \union {"absent"}]
      /\ links' \in [linked : SUBSET Tasks, active : TaskIds]
      /\ log' \in Seq(Goals)
      /\ Pointable(session'.active) /\ Pointable(session'.lastPaused) /\ Pointable(links'.active)
      /\ \A t \in links'.linked : Known(t)
      /\ \A t \in Tasks : directory'[t] # "absent" => Known(t)
  BY <1>1 DEF IInv, TypeOK, Pointed
<1>3. CASE ReplayCreation(h)
  <2>1. PICK c \in Call : c = [call[h] EXCEPT !.pc = "replay"]
    BY <1>1 DEF Call, PCs
  <2>2. Held(c) /\ Goes(h, c)
    BY <1>1, <1>3, <2>1 DEF ReplayCreation, Held, Call, HoldingPCs, RebuildPCs
  <2>3. brief' \in Goals \union {NoBrief} /\ brief' # NoBrief
    BY <1>3, BoundAssumption DEF ReplayCreation, Goals, NoGoal, NoBrief
  <2>4. QED
    BY <1>1, <1>2, <2>2, <2>3, WritesPointers
<1>4. CASE Replay(h) /\ call[h].replay = <<>>
  <2>1. Goes(h, Blank) /\ brief' = brief /\ brief' \in Goals \union {NoBrief}
    BY <1>4 DEF Replay, IInv, TypeOK
  <2>2. QED
    BY <1>1, <1>2, <2>1, BlankHeld, WritesPointers
<1>5. CASE Replay(h) /\ call[h].replay # <<>>
  <2>1. PICK replay \in Seq(Goals) : replay = call[h].replay /\ replay # <<>>
    BY <1>1, <1>5 DEF Call
  <2>2. Head(replay) \in Goals /\ Tail(replay) \in Seq(Goals)
    BY <2>1
  <2>3. PICK c : c = [call[h] EXCEPT !.replay = Tail(replay)]
    OBVIOUS
  <2>4. c \in Call
    BY <1>1, <2>2, <2>3 DEF Call
  <2>5. Held(c) /\ Goes(h, c)
    BY <1>1, <1>5, <2>1, <2>3 DEF Replay, Held, Call, HoldingPCs, RebuildPCs
  <2>6. brief' \in Goals \union {NoBrief} /\ brief' # NoBrief
    BY <1>5, <2>1, <2>2, ReducedType DEF Replay, IInv
  <2>7. QED
    BY <1>1, <1>2, <2>4, <2>5, <2>6, WritesPointers
<1>6. QED
  BY <1>3, <1>4, <1>5

-----------------------------------------------------------------------------
(* The invariant.                                                          *)

LEMMA IInvInit == Init => IInv
<1> SUFFICES ASSUME Init PROVE IInv
  OBVIOUS
<1>1. session \in [run : Runs \union {NoRun}, active : TaskIds, lastPaused : TaskIds]
      /\ links \in [linked : SUBSET Tasks, active : TaskIds]
  BY DEF Init, TaskIds
<1>2. /\ brief \in Goals /\ brief # NoBrief /\ NoGoal \in Goals
      /\ drawn \in 0..MaxRuns /\ crashes \in 0..MaxCrashes
      /\ rebuilds \in 0..MaxRebuilds /\ forgotten = {} /\ log \in Seq(Goals)
  BY BoundAssumption DEF Init, NoGoal, Goals, NoBrief
<1>3. tasks \in [Tasks -> Snapshots]
  BY <1>2 DEF Init, Absent, Snapshots
<1>4. call \in [Handlers -> Call] /\ \A h \in Handlers : Held(call[h])
  BY BlankHeld DEF Init
<1>5. TypeOK
  <2>1. recent \in Seq(Tasks)
    BY DEF Init
  <2>2. directory \in [Tasks -> TaskStatus \union {"absent"}] /\ overlapped \in BOOLEAN
    BY DEF Init
  <2>3. QED
    BY <1>1, <1>2, <1>3, <1>4, <2>1, <2>2 DEF TypeOK
<1>6. Pointed
  BY DEF Init, Pointed, Pointable, Known, TaskIds
<1>7. Unrebuilt
  BY <1>2 DEF Unrebuilt
<1>8. QED
  BY <1>4, <1>5, <1>6, <1>7 DEF IInv

LEMMA IInvNext == IInv /\ [Next]_vars => IInv'
<1> SUFFICES ASSUME IInv, [Next]_vars PROVE IInv'
  OBVIOUS
<1>1. CASE \E h \in Handlers : Dispatch(h) \/ CompleteRun(h) \/ Rebuild(h) \/ Step(h)
  <2>1. PICK h \in Handlers : Dispatch(h) \/ CompleteRun(h) \/ Rebuild(h) \/ Step(h)
    BY <1>1
  <2>2. QED
    BY <2>1, DispatchStep, CompleteRunStep, RebuildStep, LookingSteps, SavingSteps,
       SessionSteps, PointingSteps, ClearDerivedStateStep, ReplaySteps DEF Step
<1>2. CASE Crash
  <2>1. /\ crashes' \in 0..MaxCrashes /\ UNCHANGED <<rows, drawn, overlapped, past>>
        /\ call' = [h \in Handlers |-> Blank]
    BY <1>2, BoundAssumption DEF Crash, IInv, TypeOK
  <2>2. \A t : Known(t)' = Known(t)
    BY <2>1 DEF rows, past, Known, Exists
  <2>3. call' \in [Handlers -> Call] /\ (\A h \in Handlers : Held(call[h]))'
    BY <2>1, BlankHeld DEF Held, Pointable, Blank, HoldingPCs, RebuildPCs, TaskIds
  <2>4. TypeOK'
    BY <2>1, <2>3 DEF IInv, TypeOK, rows, past
  <2>5. Pointed'
    BY <2>1, <2>2 DEF IInv, Pointed, Pointable, rows
  <2>6. Unrebuilt'
    BY <2>1 DEF IInv, Unrebuilt, rows, past
  <2>7. QED
    BY <2>3, <2>4, <2>5, <2>6 DEF IInv
<1>3. CASE UNCHANGED vars
  <2>1. /\ UNCHANGED <<session, tasks, recent, directory, links, brief, call>>
        /\ UNCHANGED <<drawn, crashes, overlapped, log, rebuilds, forgotten>>
    BY <1>3 DEF vars, rows, past
  <2>2. TypeOK' /\ Unrebuilt'
    BY <2>1 DEF IInv, TypeOK, Unrebuilt
  <2>3. Pointed' /\ (\A h \in Handlers : Held(call[h]))'
    BY <2>1 DEF IInv, Pointed, Held, Pointable, Known, Exists
  <2>4. QED
    BY <2>2, <2>3 DEF IInv
<1>4. QED
  BY <1>1, <1>2, <1>3 DEF Next

(* Every step of every handler keeps the types, the pointers and what the  *)
(* handlers hold together.                                                 *)
THEOREM PointersHold == Spec => []IInv
<1>1. QED
  BY IInvInit, IInvNext, PTL DEF Spec

(* Rows, lists and local variables keep their types.                       *)
THEOREM TypesHold == Spec => []TypeOK
<1>1. IInv => TypeOK
  BY DEF IInv
<1>2. QED
  BY <1>1, PointersHold, PTL

(* Session, user session and global directory never point at a task that   *)
(* never had a row, and one without a row has lost it to a rebuild,        *)
(* whichever calls overlap and wherever the process stops.                 *)
THEOREM NoDanglingPointers == Spec => []PointersHaveRows
<1>1. IInv => PointersHaveRows
  BY DEF IInv, Pointed, Pointable, PointersHaveRows
<1>2. QED
  BY <1>1, PointersHold, PTL
-----------------------------------------------------------------------------
(* Calls one after the other.                                              *)
(*                                                                         *)
(* As long as no call overlaps another, the process does not crash and the *)
(* session is not rebuilt, at most one handler is busy, and the places     *)
(* that keep track of tasks are in step up to what that handler still has  *)
(* to write: InStep says what that is at every point of its code.          *)

(* Until the session is rebuilt, what is known has a row, the session has  *)
(* a brief, and no handler is rebuilding.                                  *)
Rowed(task) == task \in TaskIds /\ (task # NoTask => Exists(task))
HeldRows(c) ==
    /\ Rowed(c.active) /\ Rowed(c.lastPaused) /\ Rowed(c.target)
    /\ c.pc \notin RebuildPCs
    /\ c.pc # "idle" => c.run \in Runs
    /\ c.branch = "switch" => c.target # NoTask
    /\ c.pc = "restore" => c.target # NoTask
    /\ c.pc \in HoldingPCs => Exists(c.task)
    /\ c.pc \in HoldingPCs \union {"clear", "finish"} => c.row.status # "absent"
Intact ==
    /\ TypeOK /\ brief \in Goals /\ brief # NoBrief
    /\ Rowed(session.active) /\ Rowed(session.lastPaused) /\ Rowed(links.active)
    /\ \A t \in links.linked : Exists(t)
    /\ \A t \in Tasks : directory[t] # "absent" => Exists(t)

LEMMA NothingLost ==
    ASSUME IInv, rebuilds = 0
    PROVE  Intact /\ \A h \in Handlers : HeldRows(call[h])
<1>1. TypeOK /\ Pointed /\ forgotten = {} /\ brief # NoBrief
  BY DEF IInv, Unrebuilt
<1>2. \A t : Known(t) <=> Exists(t)
  BY <1>1 DEF Known
<1>3. Intact
  BY <1>1, <1>2 DEF Intact, Pointed, Pointable, Rowed, TypeOK
<1>4. ASSUME NEW h \in Handlers PROVE HeldRows(call[h])
  BY <1>2 DEF IInv, Held, HeldRows, Pointable, Rowed
<1>5. QED
  BY <1>3, <1>4

(* The goal that is taken from the brief is the one it has.                *)
LEMMA GoalOfBrief == ASSUME Intact, NEW old PROVE GoalOf(old) = brief
BY DEF Intact, GoalOf

(* Where a call links a task, and where it is about to pause one.          *)
Linking == {"save", "pauseMark", "mirror", "linkRead", "linkWrite"}
Pauses(c) == c.phase = "pausing" /\ c.pc \in Linking \union {"ensure", "ensureMark"}

(* The task the call is about: no other one can be active.                 *)
Focus(c) ==
    IF c.pc \in Linking \union {"ensureMark", "createMark"} THEN c.task
    ELSE IF c.pc = "restore" THEN c.target
    ELSE IF c.pc = "activate" THEN c.active
    ELSE session.active

(* The task the session will resume, where that is settled.                *)
Resumable(c) ==
    IF c.pc \in {"restore", "activate"} \/ (c.phase = "activating" /\ c.pc \in Linking)
    THEN c.lastPaused ELSE session.lastPaused

(* Where in the code a call can be.                                        *)
Shape(c) ==
    /\ c.pc = "plan" => /\ c.phase = "pausing" /\ c.branch = "continue"
                        /\ c.active = session.active /\ c.lastPaused = session.lastPaused
                        /\ c.created => session.active = NoTask
    /\ c.pc \in {"submit", "create"} /\ c.branch = "new" => session.active = NoTask
    /\ c.pc = "activate" /\ c.branch = "new" => c.active = NoTask
    /\ c.pc \in {"submit", "refresh"} => c.phase = "pausing" /\ c.branch # "switch"
    /\ c.pc = "refresh" => c.branch = "continue"
    /\ c.phase = "activating" => c.branch = "switch"
    /\ c.pc = "activate" => c.phase \in {"pausing", "activating"}
    /\ c.pc = "create" => c.phase = "pausing" /\ c.branch = "new" /\ brief = c.run
    /\ c.pc \in {"ensure", "ensureMark"} => c.phase \in {"pausing", "refreshing"}
    /\ c.pc = "ensure" => session.active = NoTask
    /\ c.pc = "pauseMark" => c.phase = "pausing"
    /\ c.pc = "createMark" => c.phase = "creating"
    /\ Pauses(c) => c.branch # "continue"
    /\ Pauses(c) /\ c.branch = "switch" /\ c.pc # "ensure" => c.task # c.target
    /\ c.pc = "restore" => c.phase = "pausing" /\ c.branch = "switch"
    /\ c.pc \in {"clear", "finish"} => c.phase = "completing" /\ c.task = session.active
    /\ c.pc \in {"linkRead", "linkWrite"} => c.phase # "completing"
    /\ c.pc = "linkWrite" => c.linked = links.linked
    /\ c.pc \in Linking => IF c.phase = "activating" THEN c.active = c.task
                           ELSE c.task = session.active

(* The row in hand, and the goal that was read of the task to activate.    *)
Copies(c) ==
    /\ c.pc = "save" => c.row.goal = tasks[c.task].goal
    /\ c.pc \in Linking /\ c.phase = "pausing" => c.row.status = "paused"
    /\ c.pc \in {"ensureMark", "createMark", "pauseMark", "mirror", "linkRead", "linkWrite"} =>
          c.row.status = tasks[c.task].status
    /\ c.branch = "switch" /\ (Pauses(c) \/ c.pc = "restore") =>
          c.targetGoal = tasks[c.target].goal

(* The names of the tasks a dispatch may still create are not in use.      *)
Unborn(c) ==
    /\ \A t \in Tasks : Exists(t) => t <= 2 * drawn
    /\ c.pc # "idle" /\ c.phase # "completing" =>
          /\ c.run = drawn
          /\ c.phase # "creating" => ~Exists(TaskOfMessage(c.run))
          /\ c.pc = "ensure" \/ (c.phase = "pausing" /\ c.branch = "continue") =>
                ~Exists(TaskOfBrief(c.run))

(* The five places that keep track of tasks, up to what the call still has *)
(* to write.                                                               *)
Settled(c) ==
    /\ \A t \in Tasks : tasks[t].status = "active" => t = Focus(c)
    /\ ~Pauses(c) /\ Resumable(c) # NoTask =>
          tasks[Resumable(c)].status = "paused" /\ Resumable(c) # Focus(c)
    /\ c.pc # "restore" /\ Focus(c) # NoTask => brief = tasks[Focus(c)].goal

Mirrored(c) ==
    \A t \in Tasks : \/ directory[t] = tasks[t].status
                     \/ t = c.task /\ c.pc \in {"ensureMark", "createMark", "save", "pauseMark", "mirror"}

Listed(c) ==
    LET pending == IF c.pc \in Linking \union {"ensureMark", "createMark"} /\ c.phase # "completing"
                   THEN {c.task} ELSE {}
    IN  links.linked \union pending = {t \in Tasks : Exists(t)}

InStep(c) ==
    Shape(c) /\ Copies(c) /\ Unborn(c) /\ Settled(c) /\ Mirrored(c) /\ Listed(c)

(* At most one handler is busy, and it is in step.                         *)
Undisturbed == crashes = 0 /\ ~overlapped /\ rebuilds = 0
Busy(h) == call[h].pc # "idle"
OneAtATime ==
    Undisturbed =>
        /\ \A g, h \in Handlers : Busy(g) /\ Busy(h) => g = h
        /\ \A h \in Handlers : Busy(h) => InStep(call[h])
        /\ AtRest => InStep(Blank)

-----------------------------------------------------------------------------
(* The steps of a call.                                                    *)

(* No step gives a task another goal.                                      *)
GoalsStay == \A t \in Tasks : Exists(t) => tasks'[t].goal = tasks[t].goal

(* A handler goes on with the record d, in step.                           *)
StepsOn(d) == InStep(d)' /\ GoalsStay /\ (d.pc = "idle" => d = Blank)

(* Saving the row in hand gives no other goal to the task.                 *)
LEMMA SaveInStep ==
    ASSUME Intact, NEW h \in Handlers, NEW c \in Call, c = call[h], HeldRows(c), InStep(c),
           Save(h), NEW d, d = call'[h]
    PROVE  StepsOn(d)
<1>1. /\ c.pc = "save" /\ c.task \in Tasks /\ Exists(c.task) /\ c.row \in Snapshots
      /\ tasks' = [tasks EXCEPT ![c.task] = c.row] /\ tasks \in [Tasks -> Snapshots]
      /\ c.row.status # "absent"
      /\ UNCHANGED <<session, directory, links, brief, drawn>>
  BY DEF Save, At, SaveTask, HeldRows, HoldingPCs, Exists, Call, Intact, TypeOK
<1>2. d = [c EXCEPT !.pc = IF c.phase = "pausing" THEN "pauseMark" ELSE "mirror"]
  BY DEF Save, Goes, Intact, TypeOK
<1>3. /\ d.pc \in {"pauseMark", "mirror"} /\ (d.pc = "pauseMark" <=> c.phase = "pausing")
      /\ d.phase = c.phase /\ d.branch = c.branch /\ d.run = c.run /\ d.created = c.created
      /\ d.active = c.active /\ d.lastPaused = c.lastPaused /\ d.task = c.task /\ d.row = c.row
      /\ d.target = c.target /\ d.targetGoal = c.targetGoal /\ d.linked = c.linked
  BY <1>2 DEF Call
<1>4. Shape(d)'
  BY <1>1, <1>3 DEF InStep, Shape, Pauses, Linking
<1>5. Copies(d)'
  BY <1>1, <1>3 DEF InStep, Copies, Pauses, Linking, HeldRows, Rowed
<1>6. Unborn(d)'
  BY <1>1, <1>3 DEF InStep, Unborn, Exists, TaskOfMessage, TaskOfBrief
<1>7. Settled(d)'
  BY <1>1, <1>3 DEF InStep, Settled, Copies, Focus, Resumable, Pauses, Linking
<1>8. Mirrored(d)'
  BY <1>1, <1>3 DEF InStep, Mirrored
<1>9. Listed(d)'
  BY <1>1, <1>3 DEF InStep, Listed, Linking, Exists
<1>10. GoalsStay
  BY <1>1 DEF GoalsStay, InStep, Copies
<1>11. QED
  BY <1>3, <1>4, <1>5, <1>6, <1>7, <1>8, <1>9, <1>10 DEF InStep, StepsOn

(* A task made of the brief takes a name that was not in use.              *)
LEMMA EnsureInStep ==
    ASSUME Intact, NEW h \in Handlers, NEW c \in Call, c = call[h], HeldRows(c), InStep(c),
           Ensure(h), NEW d, d = call'[h]
    PROVE  StepsOn(d)
<1>1. PICK task \in Tasks, row \in Snapshots :
        /\ task = TaskOfBrief(c.run) /\ row = [status |-> "active", goal |-> brief]
        /\ tasks' = [tasks EXCEPT ![task] = row]
        /\ d = [c EXCEPT !.pc = "ensureMark", !.task = task, !.row = row]
  <2>1. TaskOfBrief(c.run) \in Tasks
    BY BoundAssumption DEF Ensure, At, HeldRows, Runs, Tasks, TaskOfBrief
  <2>2. [status |-> "active", goal |-> brief] \in Snapshots
    BY DEF Intact, TypeOK, Snapshots, TaskStatus
  <2>3. GoalOf(NoGoal) = brief
    BY GoalOfBrief
  <2>4. QED
    BY <2>1, <2>2, <2>3 DEF Ensure, SaveTask, Goes, Intact, TypeOK
<1>2. /\ c.pc = "ensure" /\ tasks \in [Tasks -> Snapshots] /\ brief \in Goals
      /\ UNCHANGED <<session, directory, links, brief, drawn>>
      /\ row.status = "active" /\ row.goal = brief
  BY <1>1 DEF Ensure, At, Intact, TypeOK
<1>3. /\ d.pc = "ensureMark" /\ d.task = task /\ d.row = row
      /\ d.phase = c.phase /\ d.branch = c.branch /\ d.run = c.run /\ d.created = c.created
      /\ d.active = c.active /\ d.lastPaused = c.lastPaused
      /\ d.target = c.target /\ d.targetGoal = c.targetGoal /\ d.linked = c.linked
  BY <1>1 DEF Call
<1>4. ~Exists(task) /\ c.run = drawn /\ task <= 2 * drawn /\ task # TaskOfMessage(c.run)
      /\ task # NoTask /\ session.active = NoTask
  BY <1>1, <1>2 DEF InStep, Shape, Unborn, TaskOfBrief, TaskOfMessage, Intact, TypeOK, Tasks, NoTask
<1>5. Shape(d)'
  BY <1>2, <1>3, <1>4 DEF InStep, Shape, Pauses, Linking, HeldRows, Rowed
<1>6. Copies(d)'
  BY <1>1, <1>2, <1>3, <1>4 DEF InStep, Copies, Pauses, Linking, HeldRows, Rowed, Exists, Shape
<1>7. Unborn(d)'
  BY <1>1, <1>2, <1>3, <1>4 DEF InStep, Unborn, Exists, TaskOfMessage, TaskOfBrief, Shape, Pauses
<1>8. Settled(d)'
  <2>1. \A t \in Tasks : tasks[t].status # "active"
    BY <1>2, <1>4 DEF InStep, Settled, Focus, Linking, Tasks, NoTask
  <2>2. session.lastPaused # NoTask =>
          session.lastPaused # task /\ session.lastPaused \in Tasks
    BY <1>4 DEF Intact, Rowed, Exists
  <2>3. /\ tasks'[task] = row /\ \A t \in Tasks \ {task} : tasks'[t] = tasks[t]
    BY <1>1, <1>2
  <2>4. ~Pauses(d) /\ session.lastPaused # NoTask => tasks[session.lastPaused].status = "paused"
    BY <1>2, <1>3 DEF InStep, Settled, Resumable, Pauses, Linking, Shape
  <2>5. Focus(d)' = task /\ Resumable(d)' = session.lastPaused
    BY <1>2, <1>3 DEF Focus, Resumable, Linking
  <2>6. QED
    BY <1>1, <1>2, <1>4, <2>1, <2>2, <2>3, <2>4, <2>5 DEF Settled, Pauses
<1>9. Mirrored(d)'
  BY <1>1, <1>2, <1>3 DEF InStep, Mirrored
<1>10. Listed(d)'
  BY <1>1, <1>2, <1>3 DEF InStep, Listed, Linking, Exists, Shape
<1>11. GoalsStay
  BY <1>1, <1>2, <1>4 DEF GoalsStay
<1>12. QED
  BY <1>3, <1>5, <1>6, <1>7, <1>8, <1>9, <1>10, <1>11 DEF InStep, StepsOn

(* The session points to the task that was made.                           *)
LEMMA EnsureMarkInStep ==
    ASSUME Intact, NEW h \in Handlers, NEW c \in Call, c = call[h], HeldRows(c), InStep(c),
           EnsureMark(h), NEW d, d = call'[h]
    PROVE  StepsOn(d)
<1>1. /\ c.pc = "ensureMark" /\ c.task \in Tasks /\ Exists(c.task)
      /\ session' = [session EXCEPT !.active = c.task]
      /\ UNCHANGED <<tasks, directory, links, brief, drawn>>
  BY DEF EnsureMark, At, HeldRows, HoldingPCs, Exists
<1>2. PICK row \in Snapshots :
        /\ row.status = IF c.phase = "pausing" THEN "paused" ELSE "active"
        /\ row.goal = brief
        /\ d = [c EXCEPT !.pc = "save", !.row = row]
  <2> DEFINE row == [status |-> IF c.phase = "pausing" THEN "paused" ELSE "active", goal |-> brief]
  <2>1. row \in Snapshots
    BY DEF Intact, TypeOK, Snapshots, TaskStatus
  <2>2. d = [c EXCEPT !.pc = "save", !.row = row]
    BY GoalOfBrief DEF EnsureMark, Goes, Intact, TypeOK
  <2>3. QED
    BY <2>1, <2>2
<1>3. /\ d.pc = "save" /\ d.row = row
      /\ d.phase = c.phase /\ d.branch = c.branch /\ d.run = c.run /\ d.created = c.created
      /\ d.active = c.active /\ d.lastPaused = c.lastPaused /\ d.task = c.task
      /\ d.target = c.target /\ d.targetGoal = c.targetGoal /\ d.linked = c.linked
  BY <1>2 DEF Call
<1>4. session' \in [run : Runs \union {NoRun}, active : TaskIds, lastPaused : TaskIds]
      /\ session'.active = c.task /\ session'.lastPaused = session.lastPaused
  BY <1>1 DEF Intact, TypeOK, TaskIds
<1>5. Shape(d)'
  BY <1>1, <1>3, <1>4 DEF InStep, Shape, Pauses, Linking
<1>6. Copies(d)'
  BY <1>1, <1>2, <1>3, <1>4 DEF InStep, Copies, Pauses, Linking, Shape, Settled, Focus, Exists,
     Tasks, NoTask
<1>7. Unborn(d)'
  BY <1>1, <1>3 DEF InStep, Unborn, Exists, TaskOfMessage, TaskOfBrief, Shape, Pauses
<1>8. Settled(d)'
  BY <1>1, <1>3, <1>4 DEF InStep, Settled, Focus, Resumable, Pauses, Linking, Shape
<1>9. Mirrored(d)'
  BY <1>1, <1>3 DEF InStep, Mirrored
<1>10. Listed(d)'
  BY <1>1, <1>3 DEF InStep, Listed, Linking, Exists, Shape
<1>11. GoalsStay
  BY <1>1 DEF GoalsStay
<1>12. QED
  BY <1>3, <1>5, <1>6, <1>7, <1>8, <1>9, <1>10, <1>11 DEF InStep, StepsOn

(* The task that was saved as paused becomes the one to resume.            *)
LEMMA PauseMarkInStep ==
    ASSUME Intact, NEW h \in Handlers, NEW c \in Call, c = call[h], HeldRows(c), InStep(c),
           PauseMark(h), NEW d, d = call'[h]
    PROVE  StepsOn(d)
<1>1. /\ c.pc = "pauseMark" /\ d = [c EXCEPT !.pc = "mirror"]
      /\ session' = [session EXCEPT !.lastPaused = c.task]
      /\ UNCHANGED <<tasks, directory, links, brief, drawn>>
  BY DEF PauseMark, At, Goes, Intact, TypeOK
<1>2. /\ d.pc = "mirror" /\ d.phase = c.phase /\ d.branch = c.branch /\ d.run = c.run
      /\ d.created = c.created /\ d.active = c.active /\ d.lastPaused = c.lastPaused
      /\ d.task = c.task /\ d.row = c.row
      /\ d.target = c.target /\ d.targetGoal = c.targetGoal /\ d.linked = c.linked
  BY <1>1 DEF Call
<1>3. session'.active = session.active
  BY <1>1 DEF Intact, TypeOK
<1>4. Shape(d)'
  BY <1>1, <1>2, <1>3 DEF InStep, Shape, Pauses, Linking
<1>5. Copies(d)'
  BY <1>1, <1>2 DEF InStep, Copies, Pauses, Linking
<1>6. Unborn(d)'
  BY <1>1, <1>2 DEF InStep, Unborn, Exists
<1>7. Settled(d)'
  BY <1>1, <1>2 DEF InStep, Settled, Focus, Pauses, Linking, Shape
<1>8. Mirrored(d)'
  BY <1>1, <1>2 DEF InStep, Mirrored
<1>9. Listed(d)'
  BY <1>1, <1>2 DEF InStep, Listed, Linking, Exists
<1>10. GoalsStay
  BY <1>1 DEF GoalsStay
<1>11. QED
  BY <1>2, <1>4, <1>5, <1>6, <1>7, <1>8, <1>9, <1>10 DEF InStep, StepsOn

(* The mirror of the task in hand is the last thing that was behind.       *)
LEMMA MirrorInStep ==
    ASSUME Intact, NEW h \in Handlers, NEW c \in Call, c = call[h], HeldRows(c), InStep(c),
           Mirror(h), NEW d, d = call'[h]
    PROVE  StepsOn(d)
<1>1. /\ c.pc = "mirror" /\ c.task \in Tasks
      /\ d = IF c.phase = "completing" THEN Blank ELSE [c EXCEPT !.pc = "linkRead"]
      /\ directory' = [directory EXCEPT ![c.task] = c.row.status]
      /\ directory \in [Tasks -> TaskStatus \union {"absent"}]
      /\ UNCHANGED <<session, tasks, links, brief, drawn>>
  BY DEF Mirror, UpsertGlobalTask, At, Goes, HeldRows, HoldingPCs, Exists, Intact, TypeOK
<1>2. directory'[c.task] = tasks[c.task].status
      /\ \A t \in Tasks \ {c.task} : directory'[t] = directory[t]
  BY <1>1 DEF InStep, Copies
<1>3. CASE c.phase = "completing"
  <2>1. d = Blank /\ d.pc = "idle"
    BY <1>1, <1>3, BlankHeld
  <2>2. Shape(d)' /\ Copies(d)' /\ Unborn(d)'
    BY <1>1, <2>1 DEF InStep, Shape, Copies, Unborn, Pauses, Linking, Exists, Blank
  <2>3. Settled(d)'
    BY <1>1, <1>3, <2>1 DEF InStep, Settled, Focus, Resumable, Pauses, Linking, Shape
  <2>4. Mirrored(d)' /\ Listed(d)'
    BY <1>1, <1>2, <1>3, <2>1 DEF InStep, Mirrored, Listed, Linking, Exists
  <2>5. QED
    BY <1>1, <2>1, <2>2, <2>3, <2>4 DEF InStep, StepsOn, GoalsStay
<1>4. CASE c.phase # "completing"
  <2>1. /\ d.pc = "linkRead" /\ d.phase = c.phase /\ d.branch = c.branch /\ d.run = c.run
        /\ d.created = c.created /\ d.active = c.active /\ d.lastPaused = c.lastPaused
        /\ d.task = c.task /\ d.row = c.row
        /\ d.target = c.target /\ d.targetGoal = c.targetGoal /\ d.linked = c.linked
    BY <1>1, <1>4 DEF Call
  <2>2. Shape(d)'
    BY <1>1, <1>4, <2>1 DEF InStep, Shape, Pauses, Linking
  <2>3. Copies(d)'
    BY <1>1, <2>1 DEF InStep, Copies, Pauses, Linking
  <2>4. Unborn(d)'
    BY <1>1, <2>1 DEF InStep, Unborn, Exists
  <2>5. Settled(d)'
    BY <1>1, <2>1 DEF InStep, Settled, Focus, Resumable, Pauses, Linking, Shape
  <2>6. Mirrored(d)'
    BY <1>1, <1>2, <2>1 DEF InStep, Mirrored
  <2>7. Listed(d)'
    BY <1>1, <2>1 DEF InStep, Listed, Linking, Exists
  <2>8. QED
    BY <1>1, <2>1, <2>2, <2>3, <2>4, <2>5, <2>6, <2>7 DEF InStep, StepsOn, GoalsStay
<1>5. QED
  BY <1>3, <1>4

(* No other call writes the list between its read and its write.           *)
LEMMA LinkReadInStep ==
    ASSUME Intact, NEW h \in Handlers, NEW c \in Call, c = call[h], HeldRows(c), InStep(c),
           LinkRead(h), NEW d, d = call'[h]
    PROVE  StepsOn(d)
<1>1. /\ c.pc = "linkRead"
      /\ d = [c EXCEPT !.pc = "linkWrite", !.linked = links.linked, !.linkedActive = links.active]
      /\ UNCHANGED <<session, tasks, directory, links, brief, drawn>>
  BY DEF LinkRead, At, Goes, rows, Intact, TypeOK
<1>2. /\ d.pc = "linkWrite" /\ d.phase = c.phase /\ d.branch = c.branch /\ d.run = c.run
      /\ d.created = c.created /\ d.active = c.active /\ d.lastPaused = c.lastPaused
      /\ d.task = c.task /\ d.row = c.row
      /\ d.target = c.target /\ d.targetGoal = c.targetGoal /\ d.linked = links.linked
  BY <1>1 DEF Call
<1>3. Shape(d)'
  BY <1>1, <1>2 DEF InStep, Shape, Pauses, Linking
<1>4. Copies(d)'
  BY <1>1, <1>2 DEF InStep, Copies, Pauses, Linking
<1>5. Unborn(d)'
  BY <1>1, <1>2 DEF InStep, Unborn, Exists
<1>6. Settled(d)'
  BY <1>1, <1>2 DEF InStep, Settled, Focus, Resumable, Pauses, Linking, Shape
<1>7. Mirrored(d)' /\ Listed(d)'
  BY <1>1, <1>2 DEF InStep, Mirrored, Listed, Linking, Exists
<1>8. QED
  BY <1>1, <1>2, <1>3, <1>4, <1>5, <1>6, <1>7 DEF InStep, StepsOn, GoalsStay

(* The list of the user session is complete again.                         *)
LEMMA LinkTaskInStep ==
    ASSUME Intact, NEW h \in Handlers, NEW c \in Call, c = call[h], HeldRows(c), InStep(c),
           LinkTask(h), NEW d, d = call'[h]
    PROVE  StepsOn(d)
<1>1. /\ c.pc = "linkWrite" /\ c.task \in Tasks /\ Exists(c.task) /\ d = AfterLink(c)
      /\ links'.linked = c.linked \union {c.task}
      /\ UNCHANGED <<session, tasks, directory, brief, drawn>>
  BY DEF LinkTask, At, Goes, HeldRows, HoldingPCs, Exists, Intact, TypeOK
<1>2. /\ links'.linked = {t \in Tasks : Exists(t)} /\ c.phase # "completing"
      /\ \A t \in Tasks : directory[t] = tasks[t].status
  BY <1>1 DEF InStep, Shape, Listed, Linking, Mirrored, Intact, TypeOK
<1>3. CASE c.phase = "pausing"
  <2>1. d = [c EXCEPT !.pc = IF c.branch = "switch" THEN "restore" ELSE "activate",
                      !.lastPaused = c.task, !.active = NoTask]
    BY <1>1, <1>3 DEF AfterLink
  <2>2. /\ d.pc = (IF c.branch = "switch" THEN "restore" ELSE "activate")
        /\ d.phase = c.phase /\ d.branch = c.branch /\ d.run = c.run
        /\ d.created = c.created /\ d.active = NoTask /\ d.lastPaused = c.task
        /\ d.task = c.task /\ d.row = c.row
        /\ d.target = c.target /\ d.targetGoal = c.targetGoal /\ d.linked = c.linked
    BY <2>1 DEF Call
  <2>3. /\ tasks[c.task].status = "paused"
        /\ \A t \in Tasks : tasks[t].status # "active"
    BY <1>1, <1>3 DEF InStep, Copies, Settled, Focus, Linking
  <2>4. Shape(d)'
    BY <1>1, <1>3, <2>2 DEF InStep, Shape, Pauses, Linking
  <2>5. Copies(d)'
    BY <1>1, <1>3, <2>2 DEF InStep, Copies, Pauses, Linking
  <2>6. Unborn(d)'
    BY <1>1, <1>3, <2>2 DEF InStep, Unborn, Exists, Shape, Pauses, Linking
  <2>7. Settled(d)'
    BY <1>1, <1>3, <2>2, <2>3 DEF InStep, Shape, Pauses, Settled, Focus, Resumable, Linking
  <2>8. Mirrored(d)' /\ Listed(d)'
    BY <1>1, <1>2, <2>2 DEF Mirrored, Listed, Linking, Exists
  <2>9. QED
    BY <1>1, <2>2, <2>4, <2>5, <2>6, <2>7, <2>8 DEF InStep, StepsOn, GoalsStay
<1>4. CASE c.phase = "activating"
  <2>1. d = [c EXCEPT !.pc = "activate"]
    BY <1>1, <1>4 DEF AfterLink
  <2>2. /\ d.pc = "activate" /\ d.phase = c.phase /\ d.branch = c.branch /\ d.run = c.run
        /\ d.created = c.created /\ d.active = c.active /\ d.lastPaused = c.lastPaused
        /\ d.task = c.task /\ d.row = c.row
        /\ d.target = c.target /\ d.targetGoal = c.targetGoal /\ d.linked = c.linked
    BY <2>1 DEF Call
  <2>3. Shape(d)' /\ Copies(d)'
    BY <1>1, <1>4, <2>2 DEF InStep, Shape, Copies, Pauses, Linking
  <2>4. Unborn(d)'
    BY <1>1, <1>4, <2>2 DEF InStep, Unborn, Exists
  <2>5. Settled(d)'
    BY <1>1, <1>4, <2>2 DEF InStep, Settled, Focus, Resumable, Pauses, Linking, Shape
  <2>6. Mirrored(d)' /\ Listed(d)'
    BY <1>1, <1>2, <2>2 DEF Mirrored, Listed, Linking, Exists
  <2>7. QED
    BY <1>1, <2>2, <2>3, <2>4, <2>5, <2>6 DEF InStep, StepsOn, GoalsStay
<1>5. CASE c.phase \notin {"pausing", "activating"}
  <2>1. d = Blank /\ d.pc = "idle"
    BY <1>1, <1>5, BlankHeld DEF AfterLink
  <2>2. Shape(d)' /\ Copies(d)' /\ Unborn(d)'
    BY <1>1, <2>1 DEF InStep, Shape, Copies, Unborn, Pauses, Linking, Exists, Blank
  <2>3. Settled(d)'
    BY <1>1, <1>5, <2>1 DEF InStep, Settled, Focus, Resumable, Pauses, Linking, Shape
  <2>4. Mirrored(d)' /\ Listed(d)'
    BY <1>1, <1>2, <2>1 DEF Mirrored, Listed, Linking, Exists
  <2>5. QED
    BY <1>1, <2>1, <2>2, <2>3, <2>4 DEF InStep, StepsOn, GoalsStay
<1>6. QED
  BY <1>3, <1>4, <1>5

(* The brief takes the goal of the task that becomes active.               *)
LEMMA RestoreInStep ==
    ASSUME Intact, NEW h \in Handlers, NEW c \in Call, c = call[h], HeldRows(c), InStep(c),
           Restore(h), NEW d, d = call'[h]
    PROVE  StepsOn(d)
<1>1. /\ c.pc = "restore" /\ c.target \in Tasks /\ c.target # NoTask /\ Exists(c.target)
      /\ brief' = c.targetGoal
      /\ UNCHANGED <<session, tasks, directory, links, drawn>>
  BY DEF Restore, At, HeldRows, Rowed, Exists
<1>2. PICK row : /\ row = [status |-> "active", goal |-> c.targetGoal]
                 /\ d = [c EXCEPT !.pc = "save", !.phase = "activating", !.task = c.target,
                                  !.active = c.target, !.row = row]
  BY DEF Restore, Goes, Intact, TypeOK
<1>3. /\ d.pc = "save" /\ d.phase = "activating" /\ d.task = c.target /\ d.active = c.target
      /\ d.row = row /\ row.status = "active" /\ row.goal = c.targetGoal
      /\ d.branch = c.branch /\ d.run = c.run /\ d.created = c.created
      /\ d.lastPaused = c.lastPaused
      /\ d.target = c.target /\ d.targetGoal = c.targetGoal /\ d.linked = c.linked
  BY <1>2 DEF Call
<1>4. c.phase = "pausing" /\ c.branch = "switch" /\ c.targetGoal = tasks[c.target].goal
  BY <1>1 DEF InStep, Shape, Copies
<1>5. Shape(d)'
  BY <1>1, <1>3, <1>4 DEF Shape, Pauses, Linking
<1>6. Copies(d)'
  BY <1>1, <1>3, <1>4 DEF Copies, Pauses, Linking
<1>7. Unborn(d)'
  BY <1>1, <1>3, <1>4 DEF InStep, Unborn, Exists
<1>8. Settled(d)'
  BY <1>1, <1>3, <1>4 DEF InStep, Settled, Focus, Resumable, Pauses, Linking
<1>9. Mirrored(d)' /\ Listed(d)'
  BY <1>1, <1>3 DEF InStep, Mirrored, Listed, Linking, Exists
<1>10. QED
  BY <1>1, <1>3, <1>5, <1>6, <1>7, <1>8, <1>9 DEF InStep, StepsOn, GoalsStay

(* The session points to where the call says.                              *)
LEMMA ActivateRunInStep ==
    ASSUME Intact, NEW h \in Handlers, NEW c \in Call, c = call[h], HeldRows(c), InStep(c),
           ActivateRun(h), NEW d, d = call'[h]
    PROVE  StepsOn(d)
<1>1. /\ c.pc = "activate"
      /\ session'.active = c.active /\ session'.lastPaused = c.lastPaused
      /\ d = IF c.branch = "switch" THEN Blank ELSE [c EXCEPT !.pc = "submit"]
      /\ UNCHANGED <<tasks, directory, links, brief, drawn>>
  BY DEF ActivateRun, At, Goes, Intact, TypeOK
<1>2. CASE c.branch = "switch"
  <2>1. d = Blank /\ d.pc = "idle"
    BY <1>1, <1>2, BlankHeld
  <2>2. Shape(d)' /\ Copies(d)' /\ Unborn(d)'
    BY <1>1, <2>1 DEF InStep, Shape, Copies, Unborn, Pauses, Linking, Exists, Blank
  <2>3. Settled(d)'
    BY <1>1, <2>1 DEF InStep, Settled, Focus, Resumable, Pauses, Linking
  <2>4. Mirrored(d)' /\ Listed(d)'
    BY <1>1, <2>1 DEF InStep, Mirrored, Listed, Linking, Exists
  <2>5. QED
    BY <1>1, <2>1, <2>2, <2>3, <2>4 DEF InStep, StepsOn, GoalsStay
<1>3. CASE c.branch # "switch"
  <2>1. /\ d.pc = "submit" /\ d.phase = c.phase /\ d.branch = c.branch /\ d.run = c.run
        /\ d.created = c.created /\ d.active = c.active /\ d.lastPaused = c.lastPaused
        /\ d.task = c.task /\ d.row = c.row
        /\ d.target = c.target /\ d.targetGoal = c.targetGoal /\ d.linked = c.linked
    BY <1>1, <1>3 DEF Call
  <2>2. Shape(d)'
    BY <1>1, <1>3, <2>1 DEF InStep, Shape, Pauses, Linking
  <2>3. Copies(d)'
    BY <1>1, <2>1 DEF InStep, Copies, Pauses, Linking
  <2>4. Unborn(d)'
    BY <1>1, <2>1 DEF InStep, Unborn, Exists
  <2>5. Settled(d)'
    BY <1>1, <2>1 DEF InStep, Settled, Focus, Resumable, Pauses, Linking
  <2>6. Mirrored(d)' /\ Listed(d)'
    BY <1>1, <2>1 DEF InStep, Mirrored, Listed, Linking, Exists
  <2>7. QED
    BY <1>1, <2>1, <2>2, <2>3, <2>4, <2>5, <2>6 DEF InStep, StepsOn, GoalsStay
<1>4. QED
  BY <1>2, <1>3

(* The goal of a new task is set while no task is active.                  *)
LEMMA SubmitInStep ==
    ASSUME Intact, NEW h \in Handlers, NEW c \in Call, c = call[h], HeldRows(c), InStep(c),
           Submit(h), NEW d, d = call'[h]
    PROVE  StepsOn(d)
<1>1. /\ c.pc = "submit" /\ c.branch \in {"new", "continue"} /\ c.phase = "pausing"
      /\ d = [c EXCEPT !.pc = IF c.branch = "new" THEN "create" ELSE "refresh"]
      /\ brief' = IF c.branch = "new" THEN c.run ELSE brief
      /\ c.branch = "new" => session.active = NoTask
      /\ UNCHANGED <<session, tasks, directory, links, drawn>>
  <2>1. /\ c.pc = "submit" /\ c.branch \in {"new", "continue"} /\ c.phase = "pausing"
        /\ d = [c EXCEPT !.pc = IF c.branch = "new" THEN "create" ELSE "refresh"]
        /\ brief' = Reduced(IF c.branch = "new" THEN c.run ELSE NoGoal)
        /\ c.branch = "new" => session.active = NoTask
        /\ UNCHANGED <<session, tasks, directory, links, drawn>>
    BY DEF Submit, At, Goes, Intact, TypeOK, InStep, Shape, Call, Branches
  <2>2. c.run # NoGoal
    BY <2>1, BoundAssumption DEF HeldRows, Runs, NoGoal
  <2>3. Reduced(c.run) = c.run /\ Reduced(NoGoal) = brief
    BY <2>2, GoalOfBrief DEF Reduced
  <2>4. QED
    BY <2>1, <2>3
<1>2. /\ d.pc = (IF c.branch = "new" THEN "create" ELSE "refresh")
      /\ d.phase = c.phase /\ d.branch = c.branch /\ d.run = c.run
      /\ d.created = c.created /\ d.active = c.active /\ d.lastPaused = c.lastPaused
      /\ d.task = c.task /\ d.row = c.row
      /\ d.target = c.target /\ d.targetGoal = c.targetGoal /\ d.linked = c.linked
  BY <1>1 DEF Call
<1>3. Shape(d)'
  BY <1>1, <1>2 DEF Shape, Pauses, Linking
<1>4. Copies(d)'
  BY <1>1, <1>2 DEF Copies, Pauses, Linking
<1>5. Unborn(d)'
  BY <1>1, <1>2 DEF InStep, Unborn, Exists
<1>6. Settled(d)'
  BY <1>1, <1>2 DEF InStep, Settled, Focus, Resumable, Pauses, Linking
<1>7. Mirrored(d)' /\ Listed(d)'
  BY <1>1, <1>2 DEF InStep, Mirrored, Listed, Linking, Exists
<1>8. QED
  BY <1>1, <1>2, <1>3, <1>4, <1>5, <1>6, <1>7 DEF InStep, StepsOn, GoalsStay

(* A task of a message takes a name that was not in use.                   *)
LEMMA CreateInStep ==
    ASSUME Intact, NEW h \in Handlers, NEW c \in Call, c = call[h], HeldRows(c), InStep(c),
           Create(h), NEW d, d = call'[h]
    PROVE  StepsOn(d)
<1>1. PICK task \in Tasks, row \in Snapshots :
        /\ task = TaskOfMessage(c.run) /\ row = [status |-> "active", goal |-> c.run]
        /\ tasks' = [tasks EXCEPT ![task] = row]
        /\ d = [c EXCEPT !.pc = "createMark", !.phase = "creating", !.task = task, !.row = row]
  <2>1. c.run \in Runs /\ TaskOfMessage(c.run) \in Tasks
    BY BoundAssumption DEF Create, At, HeldRows, Runs, Tasks, TaskOfMessage
  <2>2. [status |-> "active", goal |-> c.run] \in Snapshots
    BY <2>1 DEF Runs, Goals, Snapshots, TaskStatus
  <2>3. QED
    BY <2>1, <2>2 DEF Create, SaveTask, Goes, Intact, TypeOK
<1>2. /\ c.pc = "create" /\ tasks \in [Tasks -> Snapshots]
      /\ UNCHANGED <<session, directory, links, brief, drawn>>
      /\ row.status = "active" /\ row.goal = c.run
  BY <1>1 DEF Create, At, Intact, TypeOK
<1>3. /\ d.pc = "createMark" /\ d.phase = "creating" /\ d.task = task /\ d.row = row
      /\ d.branch = c.branch /\ d.run = c.run /\ d.created = c.created
      /\ d.active = c.active /\ d.lastPaused = c.lastPaused
      /\ d.target = c.target /\ d.targetGoal = c.targetGoal /\ d.linked = c.linked
  BY <1>1 DEF Call
<1>4. /\ ~Exists(task) /\ c.run = drawn /\ task <= 2 * drawn /\ task # NoTask
      /\ session.active = NoTask /\ brief = c.run /\ c.phase = "pausing" /\ c.branch = "new"
  BY <1>1, <1>2 DEF InStep, Shape, Unborn, TaskOfMessage, Intact, TypeOK, Tasks, NoTask
<1>5. tasks'[task] = row /\ \A t \in Tasks \ {task} : tasks'[t] = tasks[t]
  BY <1>1, <1>2
<1>6. Shape(d)'
  BY <1>2, <1>3, <1>4 DEF Shape, Pauses, Linking
<1>7. Copies(d)'
  BY <1>2, <1>3, <1>5 DEF Copies, Pauses, Linking
<1>8. Unborn(d)'
  BY <1>1, <1>2, <1>3, <1>4 DEF InStep, Unborn, Exists
<1>9. Settled(d)'
  <2>1. \A t \in Tasks : tasks[t].status # "active"
    BY <1>2, <1>4 DEF InStep, Settled, Focus, Linking, Tasks, NoTask
  <2>2. session.lastPaused # NoTask =>
          session.lastPaused # task /\ session.lastPaused \in Tasks
    BY <1>4 DEF Intact, Rowed, Exists
  <2>3. session.lastPaused # NoTask => tasks[session.lastPaused].status = "paused"
    BY <1>2, <1>4 DEF InStep, Settled, Resumable, Pauses, Linking
  <2>4. Focus(d)' = task /\ Resumable(d)' = session.lastPaused
    BY <1>2, <1>3 DEF Focus, Resumable, Linking
  <2>5. QED
    BY <1>2, <1>3, <1>4, <1>5, <2>1, <2>2, <2>3, <2>4 DEF Settled
<1>10. Mirrored(d)'
  BY <1>2, <1>3, <1>5 DEF InStep, Mirrored
<1>11. Listed(d)'
  BY <1>1, <1>2, <1>3, <1>4 DEF InStep, Listed, Linking, Exists
<1>12. GoalsStay
  BY <1>4, <1>5 DEF GoalsStay, Exists
<1>13. QED
  BY <1>3, <1>6, <1>7, <1>8, <1>9, <1>10, <1>11, <1>12 DEF InStep, StepsOn

(* The session points to the new task.                                     *)
LEMMA CreateMarkInStep ==
    ASSUME Intact, NEW h \in Handlers, NEW c \in Call, c = call[h], HeldRows(c), InStep(c),
           CreateMark(h), NEW d, d = call'[h]
    PROVE  StepsOn(d)
<1>1. /\ c.pc = "createMark" /\ d = [c EXCEPT !.pc = "mirror"]
      /\ session'.active = c.task /\ session'.lastPaused = session.lastPaused
      /\ UNCHANGED <<tasks, directory, links, brief, drawn>>
  BY DEF CreateMark, At, Goes, Intact, TypeOK
<1>2. /\ d.pc = "mirror" /\ d.phase = c.phase /\ d.branch = c.branch /\ d.run = c.run
      /\ d.created = c.created /\ d.active = c.active /\ d.lastPaused = c.lastPaused
      /\ d.task = c.task /\ d.row = c.row
      /\ d.target = c.target /\ d.targetGoal = c.targetGoal /\ d.linked = c.linked
  BY <1>1 DEF Call
<1>3. c.phase = "creating"
  BY <1>1 DEF InStep, Shape
<1>4. Shape(d)'
  BY <1>1, <1>2, <1>3 DEF Shape, Pauses, Linking
<1>5. Copies(d)'
  BY <1>1, <1>2, <1>3 DEF InStep, Copies, Pauses, Linking
<1>6. Unborn(d)'
  BY <1>1, <1>2, <1>3 DEF InStep, Unborn, Exists
<1>7. Settled(d)'
  BY <1>1, <1>2, <1>3 DEF InStep, Settled, Focus, Resumable, Pauses, Linking
<1>8. Mirrored(d)' /\ Listed(d)'
  BY <1>1, <1>2 DEF InStep, Mirrored, Listed, Linking, Exists
<1>9. QED
  BY <1>1, <1>2, <1>4, <1>5, <1>6, <1>7, <1>8 DEF InStep, StepsOn, GoalsStay

(* The task of the session takes the goal of the brief, which is its own.  *)
LEMMA RefreshInStep ==
    ASSUME Intact, NEW h \in Handlers, NEW c \in Call, c = call[h], HeldRows(c), InStep(c),
           Refresh(h), NEW d, d = call'[h]
    PROVE  StepsOn(d)
<1>1. /\ c.pc = "refresh" /\ d = Refreshed(c)
      /\ c.phase = "pausing" /\ c.branch = "continue"
      /\ UNCHANGED <<session, tasks, directory, links, brief, drawn>>
  BY DEF Refresh, At, Goes, rows, Intact, TypeOK, InStep, Shape
<1>2. CASE Exists(session.active)
  <2>1. PICK row : /\ row = [status |-> tasks[session.active].status, goal |-> brief]
                   /\ d = [c EXCEPT !.pc = "save", !.phase = "refreshing",
                                    !.task = session.active, !.row = row]
    BY <1>1, <1>2, GoalOfBrief DEF Refreshed
  <2>2. /\ d.pc = "save" /\ d.phase = "refreshing" /\ d.task = session.active
        /\ d.row = row /\ row.status = tasks[session.active].status /\ row.goal = brief
        /\ d.branch = c.branch /\ d.run = c.run /\ d.created = c.created
        /\ d.active = c.active /\ d.lastPaused = c.lastPaused
        /\ d.target = c.target /\ d.targetGoal = c.targetGoal /\ d.linked = c.linked
    BY <2>1 DEF Call
  <2>3. session.active # NoTask /\ session.active \in Tasks /\ brief = tasks[session.active].goal
    BY <1>1, <1>2 DEF Exists, InStep, Settled, Focus, Linking, Tasks, NoTask
  <2>4. Shape(d)'
    BY <1>1, <2>2 DEF Shape, Pauses, Linking
  <2>5. Copies(d)'
    BY <1>1, <2>2, <2>3 DEF Copies, Pauses, Linking
  <2>6. Unborn(d)'
    BY <1>1, <2>2 DEF InStep, Unborn, Exists
  <2>7. Settled(d)'
    BY <1>1, <2>2 DEF InStep, Settled, Focus, Resumable, Pauses, Linking
  <2>8. Mirrored(d)' /\ Listed(d)'
    BY <1>1, <1>2, <2>2 DEF InStep, Mirrored, Listed, Linking, Exists
  <2>9. QED
    BY <1>1, <2>2, <2>4, <2>5, <2>6, <2>7, <2>8 DEF InStep, StepsOn, GoalsStay
<1>3. CASE ~Exists(session.active)
  <2>1. d = [c EXCEPT !.pc = "ensure", !.phase = "refreshing"] /\ session.active = NoTask
    BY <1>1, <1>3 DEF Refreshed, Intact, Rowed
  <2>2. /\ d.pc = "ensure" /\ d.phase = "refreshing" /\ d.task = c.task /\ d.row = c.row
        /\ d.branch = c.branch /\ d.run = c.run /\ d.created = c.created
        /\ d.active = c.active /\ d.lastPaused = c.lastPaused
        /\ d.target = c.target /\ d.targetGoal = c.targetGoal /\ d.linked = c.linked
    BY <2>1 DEF Call
  <2>3. Shape(d)' /\ Copies(d)'
    BY <1>1, <2>1, <2>2 DEF Shape, Copies, Pauses, Linking
  <2>4. Unborn(d)'
    BY <1>1, <2>2 DEF InStep, Unborn, Exists
  <2>5. Settled(d)'
    BY <1>1, <2>2 DEF InStep, Settled, Focus, Resumable, Pauses, Linking
  <2>6. Mirrored(d)' /\ Listed(d)'
    BY <1>1, <2>2 DEF InStep, Mirrored, Listed, Linking, Exists
  <2>7. QED
    BY <1>1, <2>2, <2>3, <2>4, <2>5, <2>6 DEF InStep, StepsOn, GoalsStay
<1>4. QED
  BY <1>2, <1>3

(* Clearing the run leaves the tasks alone.                                *)
LEMMA ClearRunInStep ==
    ASSUME Intact, NEW h \in Handlers, NEW c \in Call, c = call[h], HeldRows(c), InStep(c),
           ClearRun(h), NEW d, d = call'[h]
    PROVE  StepsOn(d)
<1>1. /\ c.pc = "clear" /\ d = [c EXCEPT !.pc = "finish"]
      /\ session'.active = session.active /\ session'.lastPaused = session.lastPaused
      /\ UNCHANGED <<tasks, directory, links, brief, drawn>>
  BY DEF ClearRun, At, Goes, Intact, TypeOK
<1>2. /\ d.pc = "finish" /\ d.phase = c.phase /\ d.branch = c.branch /\ d.run = c.run
      /\ d.created = c.created /\ d.active = c.active /\ d.lastPaused = c.lastPaused
      /\ d.task = c.task /\ d.row = c.row
      /\ d.target = c.target /\ d.targetGoal = c.targetGoal /\ d.linked = c.linked
  BY <1>1 DEF Call
<1>3. Shape(d)' /\ Copies(d)'
  BY <1>1, <1>2 DEF InStep, Shape, Copies, Pauses, Linking
<1>4. Unborn(d)'
  BY <1>1, <1>2 DEF InStep, Unborn, Exists
<1>5. Settled(d)'
  BY <1>1, <1>2 DEF InStep, Settled, Focus, Resumable, Pauses, Linking
<1>6. Mirrored(d)' /\ Listed(d)'
  BY <1>1, <1>2 DEF InStep, Mirrored, Listed, Linking, Exists
<1>7. QED
  BY <1>1, <1>2, <1>3, <1>4, <1>5, <1>6 DEF InStep, StepsOn, GoalsStay

(* The task of the session is finished with the goal it has.               *)
LEMMA FinishInStep ==
    ASSUME Intact, NEW h \in Handlers, NEW c \in Call, c = call[h], HeldRows(c), InStep(c),
           Finish(h), NEW d, d = call'[h]
    PROVE  StepsOn(d)
<1>1. /\ c.pc = "finish" /\ c.phase = "completing" /\ c.task = session.active
      /\ UNCHANGED <<session, tasks, directory, links, brief, drawn>>
  BY DEF Finish, At, rows, InStep, Shape
<1>2. CASE Exists(c.task)
  <2>1. PICK row : /\ row = [status |-> c.row.status, goal |-> tasks[c.task].goal]
                   /\ d = [c EXCEPT !.pc = "save", !.row = row]
    BY <1>2 DEF Finish, Goes, Intact, TypeOK
  <2>2. /\ d.pc = "save" /\ d.row = row /\ row.goal = tasks[c.task].goal
        /\ d.phase = c.phase /\ d.branch = c.branch /\ d.run = c.run
        /\ d.created = c.created /\ d.active = c.active /\ d.lastPaused = c.lastPaused
        /\ d.task = c.task
        /\ d.target = c.target /\ d.targetGoal = c.targetGoal /\ d.linked = c.linked
    BY <2>1 DEF Call
  <2>3. Shape(d)' /\ Copies(d)'
    BY <1>1, <2>2 DEF Shape, Copies, Pauses, Linking
  <2>4. Unborn(d)'
    BY <1>1, <2>2 DEF InStep, Unborn, Exists
  <2>5. Settled(d)'
    BY <1>1, <2>2 DEF InStep, Settled, Focus, Resumable, Pauses, Linking
  <2>6. Mirrored(d)' /\ Listed(d)'
    BY <1>1, <1>2, <2>2 DEF InStep, Mirrored, Listed, Linking, Exists
  <2>7. QED
    BY <1>1, <2>2, <2>3, <2>4, <2>5, <2>6 DEF InStep, StepsOn, GoalsStay
<1>3. CASE ~Exists(c.task)
  <2>1. d = Blank /\ d.pc = "idle"
    BY <1>3, BlankHeld DEF Finish, Goes, Intact, TypeOK
  <2>2. Shape(d)' /\ Copies(d)' /\ Unborn(d)'
    BY <1>1, <2>1 DEF InStep, Shape, Copies, Unborn, Pauses, Linking, Exists, Blank
  <2>3. Settled(d)'
    BY <1>1, <2>1 DEF InStep, Settled, Focus, Resumable, Pauses, Linking
  <2>4. Mirrored(d)' /\ Listed(d)'
    BY <1>1, <2>1 DEF InStep, Mirrored, Listed, Linking, Exists
  <2>5. QED
    BY <1>1, <2>1, <2>2, <2>3, <2>4 DEF InStep, StepsOn, GoalsStay
<1>4. QED
  BY <1>2, <1>3

(* Where the plan pauses the task of the session, or makes one to pause.   *)
LEMMA PausingInStep ==
    ASSUME Intact, NEW c \in Call, HeldRows(c), InStep(c), c.pc = "plan",
           UNCHANGED <<session, tasks, directory, links, brief, drawn>>,
           NEW b \in {"new", "switch"}, NEW target \in TaskIds, NEW goal,
           b = "switch" => target # c.active /\ Exists(target) /\ goal = tasks[target].goal,
           NEW e, e = [c EXCEPT !.branch = b, !.target = target, !.targetGoal = goal],
           NEW d, d = Pausing(e)
    PROVE  StepsOn(d)
<1>1. /\ c.phase = "pausing" /\ c.branch = "continue"
      /\ c.active = session.active /\ c.lastPaused = session.lastPaused
  BY DEF InStep, Shape
<1>2. CASE Exists(c.active)
  <2>1. PICK row : /\ row = [status |-> "paused", goal |-> brief]
                   /\ d = [c EXCEPT !.branch = b, !.target = target, !.targetGoal = goal,
                                    !.pc = "save", !.phase = "pausing", !.task = c.active,
                                    !.row = row]
    BY <1>2, GoalOfBrief DEF Pausing, Call
  <2>2. /\ d.pc = "save" /\ d.phase = "pausing" /\ d.task = c.active /\ d.branch = b
        /\ d.row = row /\ row.status = "paused" /\ row.goal = brief
        /\ d.run = c.run /\ d.created = c.created
        /\ d.active = c.active /\ d.lastPaused = c.lastPaused
        /\ d.target = target /\ d.targetGoal = goal /\ d.linked = c.linked
    BY <2>1 DEF Call
  <2>3. session.active # NoTask /\ session.active \in Tasks /\ brief = tasks[session.active].goal
    BY <1>1, <1>2 DEF Exists, InStep, Settled, Focus, Linking, Tasks, NoTask
  <2>4. Shape(d)'
    BY <1>1, <2>2 DEF Shape, Pauses, Linking
  <2>5. Copies(d)'
    BY <1>1, <2>2, <2>3 DEF Copies, Pauses, Linking
  <2>6. Unborn(d)'
    BY <1>1, <2>2 DEF InStep, Unborn, Exists
  <2>7. Settled(d)'
    BY <1>1, <2>2 DEF InStep, Settled, Focus, Resumable, Pauses, Linking
  <2>8. Mirrored(d)' /\ Listed(d)'
    BY <1>1, <1>2, <2>2 DEF InStep, Mirrored, Listed, Linking, Exists
  <2>9. QED
    BY <2>2, <2>4, <2>5, <2>6, <2>7, <2>8 DEF InStep, StepsOn, GoalsStay
<1>3. CASE ~Exists(c.active)
  <2>1. /\ d = [c EXCEPT !.branch = b, !.target = target, !.targetGoal = goal,
                         !.pc = "ensure", !.phase = "pausing"]
        /\ session.active = NoTask
    BY <1>1, <1>3 DEF Pausing, Call, Intact, Rowed
  <2>2. /\ d.pc = "ensure" /\ d.phase = "pausing" /\ d.task = c.task /\ d.row = c.row
        /\ d.branch = b /\ d.run = c.run /\ d.created = c.created
        /\ d.active = c.active /\ d.lastPaused = c.lastPaused
        /\ d.target = target /\ d.targetGoal = goal /\ d.linked = c.linked
    BY <2>1 DEF Call
  <2>3. Shape(d)' /\ Copies(d)'
    BY <1>1, <2>1, <2>2 DEF Shape, Copies, Pauses, Linking
  <2>4. Unborn(d)'
    BY <1>1, <2>2 DEF InStep, Unborn, Exists
  <2>5. Settled(d)'
    BY <1>1, <2>2 DEF InStep, Settled, Focus, Resumable, Pauses, Linking
  <2>6. Mirrored(d)' /\ Listed(d)'
    BY <1>1, <2>2 DEF InStep, Mirrored, Listed, Linking, Exists
  <2>7. QED
    BY <2>2, <2>3, <2>4, <2>5, <2>6 DEF InStep, StepsOn, GoalsStay
<1>4. QED
  BY <1>2, <1>3

(* Where the plan switches to another task.                                *)
LEMMA SwitchToInStep ==
    ASSUME Intact, NEW c \in Call, HeldRows(c), InStep(c), c.pc = "plan",
           UNCHANGED <<session, tasks, directory, links, brief, drawn>>,
           NEW target, Exists(target), NEW d, d = SwitchTo(c, target)
    PROVE  StepsOn(d)
<1> DEFINE e == [c EXCEPT !.branch = "switch", !.target = target, !.targetGoal = tasks[target].goal]
<1>1. target \in Tasks /\ target \in TaskIds /\ target # NoTask
  BY DEF Exists, Tasks, TaskIds, NoTask
<1>2. CASE c.active # NoTask /\ c.active # target
  <2>1. d = Pausing(e)
    BY <1>2 DEF SwitchTo
  <2> HIDE DEF e
  <2>2. QED
    BY <1>1, <1>2, <2>1, PausingInStep DEF e
<1>3. CASE c.active = NoTask \/ c.active = target
  <2>1. d = [c EXCEPT !.branch = "switch", !.target = target, !.targetGoal = tasks[target].goal,
                      !.pc = "restore", !.lastPaused = NoTask]
    BY <1>3 DEF SwitchTo, Call
  <2>2. /\ d.pc = "restore" /\ d.phase = c.phase /\ d.task = c.task /\ d.row = c.row
        /\ d.branch = "switch" /\ d.run = c.run /\ d.created = c.created
        /\ d.active = c.active /\ d.lastPaused = NoTask
        /\ d.target = target /\ d.targetGoal = tasks[target].goal /\ d.linked = c.linked
    BY <2>1 DEF Call
  <2>3. /\ c.phase = "pausing" /\ c.branch = "continue" /\ c.active = session.active
    BY DEF InStep, Shape
  <2>4. Shape(d)' /\ Copies(d)'
    BY <1>1, <2>2, <2>3 DEF Shape, Copies, Pauses, Linking
  <2>5. Unborn(d)'
    BY <2>2, <2>3 DEF InStep, Unborn, Exists
  <2>6. Settled(d)'
    BY <1>1, <1>3, <2>2, <2>3 DEF InStep, Settled, Focus, Resumable, Pauses, Linking, Tasks, NoTask
  <2>7. Mirrored(d)' /\ Listed(d)'
    BY <2>2, <2>3 DEF InStep, Mirrored, Listed, Linking, Exists
  <2>8. QED
    BY <2>2, <2>4, <2>5, <2>6, <2>7 DEF InStep, StepsOn, GoalsStay
<1>4. QED
  BY <1>2, <1>3

(* Where the plan goes on with the task of the session, or with none.      *)
LEMMA ActivatesInStep ==
    ASSUME Intact, NEW c \in Call, InStep(c), c.pc = "plan",
           UNCHANGED <<session, tasks, directory, links, brief, drawn>>,
           NEW b \in {"new", "continue"}, b = "new" => session.active = NoTask,
           NEW d, d = [c EXCEPT !.pc = "activate", !.branch = b]
    PROVE  StepsOn(d)
<1>1. /\ d.pc = "activate" /\ d.phase = c.phase /\ d.task = c.task /\ d.row = c.row
      /\ d.branch = b /\ d.run = c.run /\ d.created = c.created
      /\ d.active = c.active /\ d.lastPaused = c.lastPaused
      /\ d.target = c.target /\ d.targetGoal = c.targetGoal /\ d.linked = c.linked
  BY DEF Call
<1>2. /\ c.phase = "pausing" /\ c.branch = "continue"
      /\ c.active = session.active /\ c.lastPaused = session.lastPaused
  BY DEF InStep, Shape
<1>3. Shape(d)' /\ Copies(d)'
  BY <1>1, <1>2 DEF Shape, Copies, Pauses, Linking
<1>4. Unborn(d)'
  BY <1>1, <1>2 DEF InStep, Unborn, Exists
<1>5. Settled(d)'
  BY <1>1, <1>2 DEF InStep, Settled, Focus, Resumable, Pauses, Linking
<1>6. Mirrored(d)' /\ Listed(d)'
  BY <1>1, <1>2 DEF InStep, Mirrored, Listed, Linking, Exists
<1>7. QED
  BY <1>1, <1>3, <1>4, <1>5, <1>6 DEF InStep, StepsOn, GoalsStay

(* Whatever the plan decides, the call goes on in step.                    *)
LEMMA PlanInStep ==
    ASSUME Intact, NEW h \in Handlers, NEW c \in Call, c = call[h], HeldRows(c), InStep(c),
           Plan(h), NEW d, d = call'[h]
    PROVE  StepsOn(d)
<1> DEFINE resume == ResumeTask(c.lastPaused)
<1>1. /\ c.pc = "plan" /\ d = Planned(c)
      /\ UNCHANGED <<session, tasks, directory, links, brief, drawn>>
  BY DEF Plan, At, Goes, rows, Intact, TypeOK
<1>2. /\ c.phase = "pausing" /\ c.branch = "continue" /\ c.active = session.active
      /\ c.created => session.active = NoTask
  BY <1>1 DEF InStep, Shape
<1>3. ASSUME d = PauseForNew(c) PROVE StepsOn(d)
  <2>1. PICK e : /\ d = Pausing(e)
                 /\ e = [c EXCEPT !.branch = "new", !.target = c.target, !.targetGoal = c.targetGoal]
    <3>1. [c EXCEPT !.branch = "new"] =
             [c EXCEPT !.branch = "new", !.target = c.target, !.targetGoal = c.targetGoal]
      BY DEF Call
    <3>2. QED
      BY <1>3, <3>1 DEF PauseForNew
  <2>2. c.target \in TaskIds
    BY DEF Call
  <2>3. QED
    BY <1>1, <2>1, <2>2, PausingInStep
<1>4. ASSUME d = [c EXCEPT !.pc = "activate"] \/
             d = [c EXCEPT !.pc = "activate", !.branch = IF c.created THEN "new" ELSE "continue"]
      PROVE  StepsOn(d)
  <2>1. \/ d = [c EXCEPT !.pc = "activate", !.branch = "continue"]
        \/ c.created /\ d = [c EXCEPT !.pc = "activate", !.branch = "new"]
    <3>1. [c EXCEPT !.pc = "activate"] = [c EXCEPT !.pc = "activate", !.branch = "continue"]
      BY <1>2 DEF Call
    <3>2. c.created \/ (IF c.created THEN "new" ELSE "continue") = "continue"
      OBVIOUS
    <3>3. ~c.created \/ (IF c.created THEN "new" ELSE "continue") = "new"
      OBVIOUS
    <3>4. QED
      BY <1>4, <3>1, <3>2, <3>3, Zenon
  <2>2. QED
    BY <1>1, <1>2, <2>1, ActivatesInStep
<1>5. \A target : Exists(target) /\ d = SwitchTo(c, target) => StepsOn(d)
  BY <1>1, SwitchToInStep
<1>6. d = Blank => StepsOn(d)
  <2>1. SUFFICES ASSUME d = Blank PROVE StepsOn(d)
    OBVIOUS
  <2>2. d.pc = "idle"
    BY <2>1, BlankHeld
  <2>3. Shape(d)' /\ Copies(d)' /\ Unborn(d)'
    BY <1>1, <2>1, <2>2 DEF InStep, Shape, Copies, Unborn, Pauses, Linking, Exists, Blank
  <2>4. Settled(d)'
    BY <1>1, <1>2, <2>2 DEF InStep, Settled, Focus, Resumable, Pauses, Linking
  <2>5. Mirrored(d)' /\ Listed(d)'
    BY <1>1, <1>2, <2>2 DEF InStep, Mirrored, Listed, Linking, Exists
  <2>6. QED
    BY <1>1, <2>1, <2>3, <2>4, <2>5 DEF InStep, StepsOn, GoalsStay
<1>7. c.target # NoTask => Exists(c.target)
  BY DEF HeldRows, Rowed
<1>8. resume # NoTask => Exists(resume)
  BY ResumeKnown DEF HeldRows, Rowed, Intact, Pointable, Known
<1>9. (IF Exists(c.target) THEN c.target ELSE NoTask) = c.target
  BY <1>7
<1>10. CASE c.target # NoTask
  <2>1. d = [c EXCEPT !.pc = "activate"] \/ d = SwitchTo(c, c.target)
    BY <1>1, <1>10, <1>9 DEF Planned
  <2>2. QED
    BY <1>4, <1>5, <1>7, <1>10, <2>1
<1>11. CASE c.target = NoTask /\ c.intent = "new_task" /\ c.active # NoTask
  BY <1>1, <1>3, <1>11, <1>9 DEF Planned
<1>12. CASE c.target = NoTask /\ c.intent = "resume_previous_task"
  <2>1. /\ resume = NoTask => d = Blank
        /\ resume # NoTask => d = SwitchTo(c, resume)
    BY <1>1, <1>12, <1>9 DEF Planned
  <2>2. QED
    BY <1>5, <1>6, <1>8, <2>1
<1>13. CASE /\ c.target = NoTask
            /\ ~(c.intent = "new_task" /\ c.active # NoTask)
            /\ c.intent # "resume_previous_task"
  <2>1. \/ d = PauseForNew(c)
        \/ d = [c EXCEPT !.pc = "activate", !.branch = IF c.created THEN "new" ELSE "continue"]
    BY <1>1, <1>13, <1>9 DEF Planned
  <2>2. QED
    BY <1>3, <1>4, <2>1
<1>14. QED
  BY <1>10, <1>11, <1>12, <1>13

(* What is said of the record a handler goes on with is said of its call.  *)
LEMMA InStepOfCall ==
    ASSUME NEW h \in Handlers, NEW d, d = call'[h], InStep(d)'
    PROVE  InStep(call[h])'
<1>1. Shape(call[h])' /\ Copies(call[h])' /\ Unborn(call[h])'
  BY DEF InStep, Shape, Copies, Unborn, Pauses, Exists
<1>2. Settled(call[h])'
  BY DEF InStep, Settled, Focus, Resumable, Pauses
<1>3. Mirrored(call[h])' /\ Listed(call[h])'
  BY DEF InStep, Mirrored, Listed, Exists
<1>4. QED
  BY <1>1, <1>2, <1>3 DEF InStep

(* A message that arrives between two calls starts in step.                *)
LEMMA DispatchInStep ==
    ASSUME Intact, InStep(Blank), NEW h \in Handlers, Dispatch(h), NEW d, d = call'[h]
    PROVE  InStep(d)' /\ GoalsStay /\ d.pc = "plan"
<1>1. /\ d.pc = "plan" /\ d.phase = "pausing" /\ d.branch = "continue" /\ d.run = drawn'
      /\ d.created => drawn = 0
      /\ d.active = session.active /\ d.lastPaused = session.lastPaused
  <2>1. PICK intent \in Intents, created \in {FALSE, drawn = 0}, target \in TaskIds :
          Starts(h, [Blank EXCEPT
                !.pc = "plan", !.run = drawn + 1, !.previous = session.run,
                !.created = created, !.intent = intent,
                !.active = session.active, !.lastPaused = session.lastPaused,
                !.target = IF intent \in {"new_task", "resume_previous_task"}
                           THEN NoTask ELSE target])
    BY DEF Dispatch
  <2>2. drawn' = drawn + 1
    BY DEF Dispatch
  <2>3. QED
    BY <2>1, <2>2 DEF Starts, Goes, Blank, Intact, TypeOK
<1>2. drawn' = drawn + 1 /\ drawn \in Nat /\ UNCHANGED <<session, tasks, directory, links, brief>>
  BY DEF Dispatch, rows, Intact, TypeOK
<1>3. \A t \in Tasks : Exists(t) => t <= 2 * drawn
  BY DEF InStep, Unborn
<1>4. d.created => session.active = NoTask
  BY <1>1, <1>2, <1>3 DEF Intact, Rowed, Exists, Tasks, NoTask
<1>5. Blank.pc = "idle"
  BY BlankHeld
<1>6. Shape(d)' /\ Copies(d)'
  BY <1>1, <1>2, <1>4 DEF Shape, Copies, Pauses, Linking
<1>7. Unborn(d)'
  BY <1>1, <1>2, <1>3 DEF Unborn, Exists, TaskOfMessage, TaskOfBrief, Tasks
<1>8. Settled(d)'
  BY <1>1, <1>2, <1>5 DEF InStep, Settled, Focus, Resumable, Pauses, Linking
<1>9. Mirrored(d)' /\ Listed(d)'
  BY <1>1, <1>2, <1>5 DEF InStep, Mirrored, Listed, Linking, Exists
<1>10. QED
  BY <1>1, <1>2, <1>6, <1>7, <1>8, <1>9 DEF InStep, GoalsStay

(* So does the completion of a run.                                        *)
LEMMA CompleteRunInStep ==
    ASSUME Intact, InStep(Blank), NEW h \in Handlers, CompleteRun(h), NEW d, d = call'[h]
    PROVE  InStep(d)' /\ GoalsStay /\ d.pc = "clear"
<1>1. /\ d.pc = "clear" /\ d.phase = "completing" /\ d.branch = "continue"
      /\ d.task = session.active
  BY DEF CompleteRun, Starts, Goes, Blank, Intact, TypeOK
<1>2. UNCHANGED <<session, tasks, directory, links, brief, drawn>>
  BY DEF CompleteRun, rows
<1>3. Blank.pc = "idle"
  BY BlankHeld
<1>4. Shape(d)' /\ Copies(d)'
  BY <1>1, <1>2 DEF Shape, Copies, Pauses, Linking
<1>5. Unborn(d)'
  BY <1>1, <1>2 DEF InStep, Unborn, Exists
<1>6. Settled(d)'
  BY <1>1, <1>2, <1>3 DEF InStep, Settled, Focus, Resumable, Pauses, Linking
<1>7. Mirrored(d)' /\ Listed(d)'
  BY <1>1, <1>2, <1>3 DEF InStep, Mirrored, Listed, Linking, Exists
<1>8. QED
  BY <1>1, <1>2, <1>4, <1>5, <1>6, <1>7 DEF InStep, GoalsStay

(* While calls neither overlap nor crash and nothing is rebuilt, a step of *)
(* a handler keeps things in step.                                         *)
LEMMA StepInStep ==
    ASSUME IInv, OneAtATime, Undisturbed', NEW h \in Handlers,
           Dispatch(h) \/ CompleteRun(h) \/ Rebuild(h) \/ Step(h)
    PROVE  OneAtATime' /\ GoalsStay
<1> PICK d : d = call'[h]
  OBVIOUS
<1>1. crashes' = crashes /\ (overlapped => overlapped') /\ (Rebuild(h) \/ rebuilds' = rebuilds)
  BY DEF Dispatch, CompleteRun, Rebuild, Starts, Step, Plan, Ensure, EnsureMark, Save,
     PauseMark, Mirror, LinkRead, LinkTask, Restore, ActivateRun, Submit, Create, CreateMark,
     Refresh, ClearRun, Finish, ClearDerivedState, ReplayCreation, Replay, past, IInv, TypeOK
<1>2. Undisturbed /\ ~Rebuild(h)
  <2>1. rebuilds \in Nat
    BY BoundAssumption DEF IInv, TypeOK
  <2>2. rebuilds' = 0
    BY DEF Undisturbed
  <2>3. Rebuild(h) => rebuilds' = rebuilds + 1
    BY Zenon DEF Rebuild
  <2>4. ~Rebuild(h)
    BY <2>1, <2>2, <2>3
  <2>5. QED
    BY <1>1, <2>4 DEF Undisturbed, IInv, TypeOK
<1>3. Intact /\ \A g \in Handlers : HeldRows(call[g])
  BY <1>2, NothingLost DEF Undisturbed
<1>4. /\ \A g, k \in Handlers : Busy(g) /\ Busy(k) => g = k
      /\ Busy(h) => InStep(call[h])
      /\ AtRest => InStep(Blank)
  BY <1>2 DEF OneAtATime
<1>5. \A g \in Handlers : g # h => call'[g] = call[g] /\ ~Busy(g)
  <2>1. PICK c : Goes(h, c)
    BY <1>2 DEF Dispatch, CompleteRun, Starts, Step, Plan, Ensure, EnsureMark, Save,
       PauseMark, Mirror, LinkRead, LinkTask, Restore, ActivateRun, Submit, Create,
       CreateMark, Refresh, ClearRun, Finish, ClearDerivedState, ReplayCreation, Replay
  <2>2. \A g \in Handlers : g # h => call'[g] = call[g]
    BY <2>1 DEF Goes, IInv, TypeOK
  <2>3. Busy(h) \/ AtRest
    BY <1>2 DEF Undisturbed, Dispatch, CompleteRun, Starts, Step, Plan, Ensure, EnsureMark, Save,
       PauseMark, Mirror, LinkRead, LinkTask, Restore, ActivateRun, Submit, Create,
       CreateMark, Refresh, ClearRun, Finish, ClearDerivedState, ReplayCreation, Replay,
       At, Busy
  <2>4. QED
    BY <1>4, <2>2, <2>3 DEF AtRest, At, Busy
<1>6. StepsOn(d)
  <2>1. CASE Dispatch(h) \/ CompleteRun(h)
    <3>1. AtRest
      BY <2>1 DEF Dispatch, CompleteRun, Starts, Undisturbed
    <3>2. QED
      BY <1>4, <1>3, <2>1, <3>1, DispatchInStep, CompleteRunInStep DEF StepsOn
  <2>2. CASE Step(h)
    <3>1. Busy(h)
      BY <2>2 DEF Step, Plan, Ensure, EnsureMark, Save, PauseMark, Mirror, LinkRead, LinkTask,
         Restore, ActivateRun, Submit, Create, CreateMark, Refresh, ClearRun, Finish,
         ClearDerivedState, ReplayCreation, Replay, At, Busy
    <3>2. call[h] \in Call /\ HeldRows(call[h]) /\ InStep(call[h])
      BY <1>4, <1>3, <3>1 DEF Intact, TypeOK
    <3>3. ~ClearDerivedState(h) /\ ~ReplayCreation(h) /\ ~Replay(h)
      BY <3>2 DEF ClearDerivedState, ReplayCreation, Replay, At, HeldRows, RebuildPCs
    <3>4. QED
      BY <1>3, <2>2, <3>2, <3>3, PlanInStep, EnsureInStep, EnsureMarkInStep, SaveInStep,
         PauseMarkInStep, MirrorInStep, LinkReadInStep, LinkTaskInStep, RestoreInStep,
         ActivateRunInStep, SubmitInStep, CreateInStep, CreateMarkInStep, RefreshInStep,
         ClearRunInStep, FinishInStep DEF Step
  <2>3. QED
    BY <1>2, <2>1, <2>2
<1>7. Busy(h)' <=> d.pc # "idle"
  BY DEF Busy
<1>8. \A g \in Handlers : g # h => ~Busy(g)'
  BY <1>5 DEF Busy
<1>9. InStep(call[h])' /\ (AtRest' => InStep(Blank)')
  <2>1. InStep(call[h])'
    BY <1>6, InStepOfCall DEF StepsOn
  <2>2. AtRest' => d = Blank
    BY <1>6 DEF AtRest, At, StepsOn
  <2>3. QED
    BY <1>6, <2>1, <2>2 DEF StepsOn
<1>10. QED
  BY <1>6, <1>8, <1>9 DEF OneAtATime, StepsOn

(* The invariant.                                                          *)
SerialInv == IInv /\ OneAtATime

(* The invariant holds of an empty store.                                  *)
LEMMA SerialInit == Init => SerialInv
<1> SUFFICES ASSUME Init PROVE OneAtATime
  BY IInvInit DEF SerialInv
<1>1. /\ \A h \in Handlers : call[h] = Blank
      /\ session.active = NoTask /\ session.lastPaused = NoTask
      /\ \A t \in Tasks : tasks[t].status = "absent" /\ directory[t] = "absent"
      /\ links.linked = {}
  BY DEF Init, Absent
<1>2. Blank.pc = "idle" /\ \A h \in Handlers : ~Busy(h)
  BY <1>1, BlankHeld DEF Busy
<1>3. Shape(Blank) /\ Copies(Blank) /\ Unborn(Blank)
  BY <1>1, <1>2 DEF Shape, Copies, Unborn, Pauses, Linking, Exists, Blank
<1>4. Settled(Blank)
  BY <1>1, <1>2 DEF Settled, Focus, Resumable, Pauses, Linking
<1>5. Mirrored(Blank) /\ Listed(Blank)
  BY <1>1, <1>2 DEF Mirrored, Listed, Linking, Exists
<1>6. QED
  BY <1>2, <1>3, <1>4, <1>5 DEF OneAtATime, InStep

(* Every step keeps it; a crash, an overlap or a rebuild ends what it      *)
(* says.                                                                   *)
LEMMA SerialNext == SerialInv /\ [Next]_vars => SerialInv'
<1> SUFFICES ASSUME SerialInv, [Next]_vars PROVE OneAtATime'
  BY IInvNext DEF SerialInv
<1>1. CASE \E h \in Handlers : Dispatch(h) \/ CompleteRun(h) \/ Rebuild(h) \/ Step(h)
  <2>1. Undisturbed' => OneAtATime'
    BY <1>1, StepInStep DEF SerialInv
  <2>2. QED
    BY <2>1 DEF OneAtATime
<1>2. CASE Crash
  BY <1>2 DEF Crash, OneAtATime, Undisturbed, SerialInv, IInv, TypeOK
<1>3. CASE UNCHANGED vars
  BY <1>3 DEF vars, rows, past, SerialInv, OneAtATime, Undisturbed, Busy, AtRest, At, InStep, Shape,
     Copies, Unborn, Settled, Mirrored, Listed, Focus, Resumable, Pauses, Exists
<1>4. QED
  BY <1>1, <1>2, <1>3 DEF Next

(* Calls that come one after the other, are not interrupted and do not     *)
(* rebuild the session keep the five places in step at every point of      *)
(* every call, up to what the call still has to write.                     *)
THEOREM CallsKeepStep == Spec => []SerialInv
<1>1. QED
  BY SerialInit, SerialNext, PTL DEF Spec

(* Between two calls, nothing is left to write.                            *)
LEMMA CalmInStep ==
    ASSUME SerialInv, Calm
    PROVE  /\ Settled(Blank) /\ Mirrored(Blank) /\ Listed(Blank)
           /\ Blank.pc = "idle" /\ Blank.phase = "pausing"
BY BlankHeld DEF SerialInv, OneAtATime, Undisturbed, Calm, InStep, Blank

(* Between two such calls only the task of the session can be active, and  *)
(* the one it would resume is paused.                                      *)
THEOREM OneTaskActive == Spec => []OneActiveTask
<1>1. SerialInv => OneActiveTask
  BY CalmInStep DEF OneActiveTask, Settled, Focus, Resumable, Pauses, Linking
<1>2. QED
  BY <1>1, CallsKeepStep, PTL

(* Between two such calls the global directory mirrors every row, and the  *)
(* user session lists every task.                                          *)
THEOREM DirectoryStaysInStep == Spec => []DirectoryInStep
<1>1. SerialInv => DirectoryInStep
  BY CalmInStep DEF DirectoryInStep, Mirrored, Listed, Linking
<1>2. QED
  BY <1>1, CallsKeepStep, PTL

(* Between two such calls the shared brief states the goal of the task the *)
(* session works on.                                                       *)
THEOREM BriefFollowsTask == Spec => []BriefOfActiveTask
<1>1. SerialInv => BriefOfActiveTask
  BY CalmInStep DEF BriefOfActiveTask, Settled, Focus, Linking
<1>2. QED
  BY <1>1, CallsKeepStep, PTL

(* No step of such a call gives a task another goal than it was created    *)
(* with.                                                                   *)
THEOREM GoalsNeverChange == Spec => GoalsKept
<1>1. ASSUME SerialInv, [Next]_vars
      PROVE  [crashes = 0 /\ ~overlapped' /\ rebuilds' = 0 =>
                \A t \in Tasks : Exists(t) => tasks'[t].goal = tasks[t].goal]_vars
  <2>1. CASE \E h \in Handlers : Dispatch(h) \/ CompleteRun(h) \/ Rebuild(h) \/ Step(h)
    <3>1. PICK h \in Handlers : Dispatch(h) \/ CompleteRun(h) \/ Rebuild(h) \/ Step(h)
      BY <2>1
    <3>2. crashes' = crashes
      BY <3>1 DEF Dispatch, CompleteRun, Rebuild, Step, Plan, Ensure, EnsureMark, Save,
         PauseMark, Mirror, LinkRead, LinkTask, Restore, ActivateRun, Submit, Create,
         CreateMark, Refresh, ClearRun, Finish, ClearDerivedState, ReplayCreation, Replay
    <3>3. crashes = 0 /\ ~overlapped' /\ rebuilds' = 0 => GoalsStay
      BY <1>1, <3>1, <3>2, StepInStep DEF SerialInv, Undisturbed
    <3>4. QED
      BY <3>3 DEF GoalsStay
  <2>2. CASE Crash
    BY <2>2 DEF Crash, rows
  <2>3. QED
    BY <1>1, <2>1, <2>2 DEF Next
<1>2. QED
  BY <1>1, CallsKeepStep, PTL DEF Spec, GoalsKept
=============================================================================
