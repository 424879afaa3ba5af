------------------------ MODULE EventPipeline_proofs ------------------------
(* Proofs about EventPipeline for any set of requests, any number of them  *)
(* in flight, and any number of crashes.                                   *)
EXTENDS EventPipeline, TLAPS

(* The points of a handler at which its event is in the log already.       *)
LoggedPCs == {"arbitrate", "reduce", "saveBrief", "cancelStatus", "raiseToken",
              "intentRead", "intentStatus", "statusRead", "statusWrite"}

RestorePCs == {"restoreRead", "restoreBrief"}

(* A handler that restores a task passes through two of them on its way.   *)
Logged(r) == r.pc \in LoggedPCs /\ ~(r.resumes /\ r.pc \in {"intentRead", "intentStatus"})

(* What makes VersionsGapFree inductive: a handler that has read MAX and   *)
(* not inserted yet holds a version at most one past the present maximum,  *)
(* and a handler past its insert holds a version of the log.               *)
Fits(r) ==
    /\ r.pc = "append" => r.version \in 1..(LatestVersion + 1)
    /\ Logged(r) => r.version \in Versions
    /\ r.pc \in RestorePCs => r.resumes

VersionInv ==
    /\ \E m \in Nat \ {0} : Versions = 1..m
    /\ session.stateVersion \in Versions
    /\ \A q \in Requests : Fits(req[q])

IInv == TypeOK /\ VersionInv

-----------------------------------------------------------------------------
LEMMA MaxOfInterval ==
    ASSUME NEW m \in Nat \ {0}
    PROVE  Max(1..m) = m
<1>1. m \in 1..m /\ \A y \in 1..m : m >= y
  OBVIOUS
<1>2. \A x \in 1..m : (\A y \in 1..m : x >= y) => x = m
  OBVIOUS
<1>3. QED
  BY <1>1, <1>2 DEF Max

LEMMA LatestOfInterval ==
    ASSUME NEW m \in Nat \ {0}, Versions = 1..m
    PROVE  LatestVersion = m
<1>1. log # <<>>
  <2>1. 1 \in Versions
    OBVIOUS
  <2>2. QED
    BY <2>1 DEF Versions
<1>2. QED
  BY <1>1, MaxOfInterval DEF LatestVersion

LEMMA VersionsAppend ==
    ASSUME NEW e \in LogEntry, log \in Seq(LogEntry), log' = Append(log, e)
    PROVE  Versions' = Versions \union {e.version}
<1>1. DOMAIN log = 1..Len(log) /\ DOMAIN log' = 1..(Len(log) + 1) /\ Len(log) \in Nat
  OBVIOUS
<1>2. \A i \in 1..Len(log) : log'[i] = log[i]
  OBVIOUS
<1>3. log'[Len(log) + 1] = e
  OBVIOUS
<1>4. Versions' \subseteq Versions \union {e.version}
  BY <1>1, <1>2, <1>3 DEF Versions
<1>5. Versions \union {e.version} \subseteq Versions'
  BY <1>1, <1>2, <1>3 DEF Versions
<1>6. QED
  BY <1>4, <1>5

LEMMA IInvInit == Init => IInv
<1> SUFFICES ASSUME Init PROVE IInv
  OBVIOUS
<1>1. TypeOK
  BY SentinelAssumption DEF Init, TypeOK, Blank, LogEntry, Session, Brief, Request,
     Statuses, PCs,
     EventTypes, ThinkerTypes, KernelTypes, Actors, RunIds, GoalIds, Runs, Continuations
<1>2. Versions = 1..1
  BY DEF Init, Versions
<1>3. QED
  BY <1>1, <1>2 DEF Init, IInv, VersionInv, Fits, Blank, Logged, LoggedPCs, RestorePCs

-----------------------------------------------------------------------------
LEMMA LatestInVersions ==
    ASSUME IInv
    PROVE  LatestVersion \in Nat \ {0} /\ Versions = 1..LatestVersion
<1>1. PICK m \in Nat \ {0} : Versions = 1..m
  BY DEF IInv, VersionInv
<1>2. QED
  BY <1>1, LatestOfInterval

-----------------------------------------------------------------------------
(* What one handler's record may become.                                   *)
LEMMA RequestUpdates ==
    ASSUME NEW r \in Request
    PROVE  /\ \A pc \in PCs : [r EXCEPT !.pc = pc] \in Request
           /\ \A type \in EventTypes : [r EXCEPT !.type = type] \in Request
           /\ \A run \in RunIds : [r EXCEPT !.run = run] \in Request
           /\ \A status \in Statuses : [r EXCEPT !.seenStatus = status] \in Request
           /\ \A n \in Nat : [r EXCEPT !.version = n] \in Request
           /\ \A n \in Nat : [r EXCEPT !.intentVersion = n] \in Request
           /\ \A rest \in Seq(EventTypes) : [r EXCEPT !.rest = rest] \in Request
BY DEF Request

LEMMA BlankType == Blank \in Request /\ Finished \in Request
<1>1. <<>> \in Seq(EventTypes)
  OBVIOUS
<1>2. "SessionCreated" \in EventTypes
  BY DEF EventTypes, KernelTypes
<1>3. Blank \in Request
  BY <1>1, <1>2 DEF Blank, Request, PCs, Actors, RunIds, GoalIds, Brief, Statuses,
     Continuations
<1>4. QED
  BY <1>3, RequestUpdates DEF Finished, PCs

LEMMA AfterReduceType == \A r \in Request : AfterReduce(r) \in Request
<1> SUFFICES ASSUME NEW r \in Request PROVE AfterReduce(r) \in Request
  OBVIOUS
<1>1. r.rest \in Seq(EventTypes) /\ {"assign", "statusWrite", "statusRead"} \subseteq PCs
  BY DEF Request, PCs
<1>2. CASE r.rest # <<>>
  <2>1. Head(r.rest) \in EventTypes /\ Tail(r.rest) \in Seq(EventTypes)
    BY <1>1, <1>2
  <2>2. QED
    BY <1>1, <1>2, <2>1 DEF AfterReduce, Request
<1>3. CASE r.rest = <<>>
  BY <1>1, <1>3, RequestUpdates DEF AfterReduce
<1>4. QED
  BY <1>2, <1>3

LEMMA AfterReduceFits ==
    ASSUME NEW r \in Request, r.version \in Versions
    PROVE  Fits(AfterReduce(r))
<1>1. /\ AfterReduce(r).version = r.version
      /\ AfterReduce(r).pc \in {"assign", "statusWrite", "statusRead"}
  BY DEF AfterReduce, Request
<1>2. QED
  BY <1>1 DEF Fits, RestorePCs

LEMMA StampedType ==
    ASSUME IInv, NEW r \in Request
    PROVE  Stamped(r) \in Request
<1>1. LatestVersion + 1 \in Nat
  BY LatestInVersions
<1>2. StampedIntentVersion(r) \in Nat
  BY DEF IInv, TypeOK, Brief, Session, Request, StampedIntentVersion, CurrentIntentVersion
<1>3. session.activeRun \in RunIds
  BY DEF IInv, TypeOK, Session
<1>4. QED
  BY <1>1, <1>2, <1>3 DEF Stamped, Request

(* A step of one handler that leaves the log alone keeps the invariant     *)
(* when the row still announces a logged version and the handler's new     *)
(* record fits the log.                                                    *)
LEMMA LocalStep ==
    ASSUME IInv, NEW q \in Requests, NEW r \in Request, Becomes(q, r), Fits(r),
           log' = log, session' \in Session, session'.stateVersion \in Versions,
           brief' \in Brief, activated' \in SUBSET Runs, runGoals' \in SUBSET GoalIds, restored' \in Nat,
           crashes' = crashes
    PROVE  IInv'
<1>1. /\ req' \in [Requests -> Request]
      /\ \A p \in Requests : req'[p] = IF p = q THEN r ELSE req[p]
  BY DEF IInv, TypeOK, Becomes
<1>2. Versions' = Versions /\ LatestVersion' = LatestVersion
  BY DEF Versions, LatestVersion
<1>3. TypeOK'
  BY <1>1 DEF IInv, TypeOK
<1>4. \A p \in Requests : Fits(req'[p])
  BY <1>1 DEF IInv, VersionInv
<1>5. \A p \in Requests : Fits(req[p])'
  BY <1>2, <1>4 DEF Fits, RestorePCs
<1>6. QED
  BY <1>2, <1>3, <1>5 DEF IInv, VersionInv

-----------------------------------------------------------------------------
LEMMA ReceiveStep ==
    ASSUME IInv, NEW q \in Requests, Receive(q)
    PROVE  IInv'
<1> USE DEF IInv, TypeOK, VersionInv
<1> DEFINE Fresh(r) == r \in Request /\ r.pc \notin LoggedPCs \union RestorePCs \union {"append"}
<1>1. \A r : Fresh(r) /\ Becomes(q, r)
             /\ UNCHANGED <<log, session, brief, history>> => IInv'
  BY LocalStep DEF Fits, RestorePCs, Logged, history
<1>2. CASE SubmitThinkerEvent(q)
  <2>1. PICK type \in ThinkerTypes, run \in activated \union {NoRun},
              stated \in Stated, goal \in GoalIds :
              Becomes(q, [Blank EXCEPT !.pc = "validate", !.type = type, !.actor = "thinker",
                                       !.run = run, !.intentVersion = stated, !.goal = goal])
    BY <1>2 DEF SubmitThinkerEvent
  <2> DEFINE r == [Blank EXCEPT !.pc = "validate", !.type = type, !.actor = "thinker",
                                !.run = run, !.intentVersion = stated, !.goal = goal]
  <2>2. stated \in Nat /\ run \in RunIds /\ type \in EventTypes
    BY StatedAssumption DEF RunIds, EventTypes
  <2>3. r \in Request /\ r.pc = "validate"
    BY <2>2, BlankType DEF Request, PCs, Actors
  <2>4. QED
    BY <1>1, <1>2, <2>1, <2>3 DEF SubmitThinkerEvent, Logged, LoggedPCs, RestorePCs
<1>3. CASE SubmitUserMessage(q)
  <2>1. PICK goal \in GoalIds, stated \in Stated :
              Becomes(q, [Blank EXCEPT !.pc = "validate", !.goal = goal,
                                       !.intentVersion = stated,
                                       !.type = "IntentUpdated", !.actor = "talker"])
    BY <1>3 DEF SubmitUserMessage
  <2> DEFINE r == [Blank EXCEPT !.pc = "validate", !.goal = goal, !.intentVersion = stated,
                                !.type = "IntentUpdated", !.actor = "talker"]
  <2>2. stated \in Nat /\ "IntentUpdated" \in EventTypes
    BY StatedAssumption DEF EventTypes, ThinkerTypes
  <2>3. r \in Request /\ r.pc = "validate"
    BY <2>2, BlankType DEF Request, PCs, Actors
  <2>4. Fresh(r)
    BY <2>3 DEF LoggedPCs, RestorePCs
  <2>5. QED
    BY <1>1, <1>3, <2>1, <2>4 DEF SubmitUserMessage
<1>4. CASE SubmitKernelEvent(q)
  <2> DEFINE r == [Blank EXCEPT !.pc = "snapshot", !.type = "ApprovalGranted"]
  <2>1. "ApprovalGranted" \in EventTypes
    BY DEF EventTypes, KernelTypes
  <2>2. r \in Request /\ r.pc = "snapshot"
    BY <2>1, BlankType DEF Request, PCs
  <2>3. Fresh(r)
    BY <2>2 DEF LoggedPCs, RestorePCs
  <2>4. QED
    BY <1>1, <1>4, <2>3 DEF SubmitKernelEvent
<1>5. CASE DispatchUserMessage(q)
  <2> DEFINE r == [Blank EXCEPT !.pc = "plan"]
  <2>1. r \in Request /\ r.pc = "plan"
    BY BlankType DEF Request, PCs
  <2>2. Fresh(r)
    BY <2>1 DEF LoggedPCs, RestorePCs
  <2>3. QED
    BY <1>1, <1>5, <2>2 DEF DispatchUserMessage
<1>6. CASE CompleteRun(q)
  <2>1. PICK run \in activated : Becomes(q, [Blank EXCEPT !.pc = "completeRead", !.run = run])
    BY <1>6 DEF CompleteRun
  <2> DEFINE r == [Blank EXCEPT !.pc = "completeRead", !.run = run]
  <2>2. run \in RunIds
    BY DEF RunIds
  <2>3. r \in Request /\ r.pc = "completeRead"
    BY <2>2, BlankType DEF Request, PCs
  <2>4. Fresh(r)
    BY <2>3 DEF LoggedPCs, RestorePCs
  <2>5. QED
    BY <1>1, <1>6, <2>1, <2>4 DEF CompleteRun
<1>7. CASE ArchiveSession(q)
  <2> DEFINE r == [Blank EXCEPT !.pc = "archive"]
  <2>1. r \in Request /\ r.pc = "archive"
    BY BlankType DEF Request, PCs
  <2>2. Fresh(r)
    BY <2>1 DEF LoggedPCs, RestorePCs
  <2>3. QED
    BY <1>1, <1>7, <2>2 DEF ArchiveSession
<1>8. QED
  BY <1>2, <1>3, <1>4, <1>5, <1>6, <1>7 DEF Receive

-----------------------------------------------------------------------------
(* The insert is the step the invariant is about: it adds MAX + 1, or a    *)
(* version that is there already because another handler was faster.       *)
LEMMA AppendStep ==
    ASSUME IInv, NEW q \in Requests, AppendEvent(q)
    PROVE  IInv'
<1> DEFINE e == [type |-> req[q].type, actor |-> req[q].actor, run |-> req[q].run,
                 intentVersion |-> req[q].intentVersion, version |-> req[q].version, by |-> q]
           next == IF req[q].type = "BeliefProposed" THEN "arbitrate" ELSE "reduce"
           r == [req[q] EXCEPT !.pc = next]
           v == req[q].version
           m == LatestVersion
<1>1. req[q] \in Request /\ Fits(req[q]) /\ req[q].pc = "append"
  BY DEF IInv, TypeOK, VersionInv, AppendEvent, At
<1>2. m \in Nat \ {0} /\ Versions = 1..m
  BY LatestInVersions
<1>3. v \in 1..(m + 1)
  BY <1>1 DEF Fits, RestorePCs
<1>4. e \in LogEntry /\ log' = Append(log, e) /\ Becomes(q, r)
  BY <1>1 DEF AppendEvent, LogEntry, Request, RunIds
<1>5. log' \in Seq(LogEntry) /\ Versions' = Versions \union {v}
  BY <1>4, VersionsAppend DEF IInv, TypeOK
<1>6. PICK n \in Nat \ {0} : n \in {m, m + 1} /\ Versions' = 1..n
  <2>1. CASE v = m + 1
    <3>1. Versions' = 1..(m + 1)
      BY <1>2, <1>5, <2>1
    <3>2. QED
      BY <1>2, <3>1
  <2>2. CASE v \in 1..m
    <3>1. Versions' = 1..m
      BY <1>2, <1>5, <2>2
    <3>2. QED
      BY <1>2, <3>1
  <2>3. QED
    BY <1>2, <1>3, <2>1, <2>2
<1>7. LatestVersion' = n
  <2>1. log' # <<>>
    BY <1>4 DEF IInv, TypeOK
  <2>2. QED
    BY <1>6, <2>1, MaxOfInterval DEF LatestVersion
<1>8. r \in Request /\ r.version = v /\ r.pc \in {"arbitrate", "reduce"}
  BY <1>1 DEF Request, PCs
<1>9. /\ req' \in [Requests -> Request]
      /\ \A p \in Requests : req'[p] = IF p = q THEN r ELSE req[p]
  BY <1>4, <1>8 DEF IInv, TypeOK, Becomes
<1>10. TypeOK'
  BY <1>5, <1>9 DEF IInv, TypeOK, AppendEvent, history
<1>11. \A p \in Requests : Fits(req[p])'
  <2> SUFFICES ASSUME NEW p \in Requests PROVE Fits(req[p])'
    OBVIOUS
  <2>1. CASE p = q
    BY <1>5, <1>8, <1>9, <2>1 DEF Fits, RestorePCs
  <2>2. CASE p # q
    <3>1. Fits(req[p]) /\ req'[p] = req[p]
      BY <1>9, <2>2 DEF IInv, VersionInv
    <3>2. QED
      BY <1>2, <1>5, <1>6, <1>7, <3>1 DEF Fits, RestorePCs
  <2>3. QED
    BY <2>1, <2>2
<1>12. QED
  BY <1>5, <1>6, <1>10, <1>11 DEF IInv, VersionInv, AppendEvent

LEMMA CrashStep ==
    ASSUME IInv, Crash
    PROVE  IInv'
<1>1. Finished \in Request /\ Fits(Finished)
  BY BlankType DEF Finished, Blank, Fits, Logged, LoggedPCs, RestorePCs
<1>2. \A p \in Requests : req'[p] \in Request /\ Fits(req'[p])
  BY <1>1 DEF Crash, IInv, TypeOK, VersionInv
<1>3. req' \in [Requests -> Request]
  BY <1>2 DEF Crash
<1>4. Versions' = Versions /\ LatestVersion' = LatestVersion
  BY DEF Crash, Versions, LatestVersion
<1>5. TypeOK'
  BY <1>3 DEF Crash, IInv, TypeOK
<1>6. \A p \in Requests : Fits(req[p])'
  BY <1>2, <1>4 DEF Fits, RestorePCs
<1>7. QED
  BY <1>4, <1>5, <1>6 DEF Crash, IInv, VersionInv

LEMMA HandleStep ==
    ASSUME IInv, NEW q \in Requests, Handle(q)
    PROVE  IInv'
<1>0. req[q] \in Request /\ Fits(req[q])
  BY DEF IInv, TypeOK, VersionInv
<1>pcs. PCs = PCs \union {"plan", "pause", "restoreRead", "restoreBrief", "activate",
            "validate", "snapshot", "assign", "append",
            "arbitrate", "reduce", "saveBrief", "cancelStatus", "raiseToken",
            "intentRead", "intentStatus", "statusRead", "statusWrite",
            "taskRead", "taskStatus", "completeRead", "completeWrite", "archive", "done"}
  BY DEF PCs
<1>fin. Finished \in Request /\ Fits(Finished)
  BY BlankType DEF Finished, Blank, Fits, Logged, LoggedPCs, RestorePCs
<1>rows. /\ session \in Session /\ session.stateVersion \in Versions /\ brief \in Brief
         /\ activated \in SUBSET Runs /\ runGoals \in SUBSET GoalIds /\ restored \in Nat
  BY DEF IInv, TypeOK, VersionInv
<1>types. {"RunInterrupted", "BeliefUpdated", "ConflictDetected", "IntentUpdated"} \subseteq EventTypes
  BY DEF EventTypes, ThinkerTypes, KernelTypes
<1>inter. ASSUME NEW r \in Request
          PROVE  Interrupting(r) \in Request /\ Fits(Interrupting(r))
  <2>1. Interrupting(r) \in Request
    BY <1>pcs, <1>types DEF Interrupting, Request, Continuations
  <2>2. Interrupting(r).pc \in {"activate", "snapshot"}
    BY DEF Interrupting, Request
  <2>3. QED
    BY <2>1, <2>2 DEF Fits, Logged, LoggedPCs, RestorePCs
<1>switch. ASSUME NEW r \in Request
           PROVE  Switching(r) \in Request /\ Fits(Switching(r))
  <2>1. ASSUME r.resumes
        PROVE  LET s == [r EXCEPT !.pc = "restoreRead"] IN s \in Request /\ Fits(s)
    BY <1>pcs, <2>1 DEF Request, Fits, Logged, LoggedPCs, RestorePCs
  <2>2. QED
    BY <1>inter, <2>1 DEF Switching
<1>1. CASE Plan(q)
  <2>1. ASSUME NEW pauses \in BOOLEAN, NEW resumes \in BOOLEAN
        PROVE  LET r == [req[q] EXCEPT !.run = session.activeRun, !.resumes = resumes,
                                       !.seenStatus = session.status]
                   s == IF pauses THEN [r EXCEPT !.pc = "pause"] ELSE Switching(r)
               IN  s \in Request /\ Fits(s)
    <3> DEFINE r == [req[q] EXCEPT !.run = session.activeRun, !.resumes = resumes,
                                   !.seenStatus = session.status]
    <3>1. r \in Request
      BY <1>0, <1>rows DEF Request, Session
    <3> HIDE DEF r
    <3>2. LET s == [r EXCEPT !.pc = "pause"] IN s \in Request /\ Fits(s)
      BY <1>pcs, <3>1 DEF Request, Fits, Logged, LoggedPCs, RestorePCs
    <3>3. Switching(r) \in Request /\ Fits(Switching(r))
      BY <1>switch, <3>1
    <3>4. QED
      BY <3>2, <3>3 DEF r
  <2>2. PICK r \in Request : Fits(r) /\ Becomes(q, r)
    BY <1>1, <1>fin, <2>1 DEF Plan
  <2>3. QED
    BY <1>1, <1>rows, <2>2, LocalStep DEF Plan, history
<1>20. CASE Pause(q)
  <2>1. session' \in Session /\ session'.stateVersion \in Versions
    BY <1>0, <1>20, <1>rows DEF Pause, Session, Request
  <2>2. Switching(req[q]) \in Request /\ Fits(Switching(req[q]))
    BY <1>0, <1>switch
  <2>3. QED
    BY <1>20, <1>rows, <2>1, <2>2, LocalStep DEF Pause, history
<1>21. CASE RestoreRead(q)
  <2>1. PICK goal \in GoalIds :
           Becomes(q, [req[q] EXCEPT !.pc = "restoreBrief",
                                     !.draft = [version |-> brief.version + 1, goal |-> goal]])
    BY <1>21 DEF RestoreRead
  <2> DEFINE d == [version |-> brief.version + 1, goal |-> goal]
             r == [req[q] EXCEPT !.pc = "restoreBrief", !.draft = d]
  <2>2. d \in Brief
    BY <1>rows DEF Brief
  <2> HIDE DEF d
  <2>3. r \in Request /\ Fits(r)
    BY <1>0, <1>21, <1>pcs, <2>2 DEF RestoreRead, At, Request, Fits, Logged, LoggedPCs,
       RestorePCs
  <2>4. Becomes(q, r)
    BY <2>1 DEF d
  <2>5. QED
    BY <1>21, <1>rows, <2>3, <2>4, LocalStep DEF RestoreRead, history
<1>22. CASE RestoreBrief(q)
  <2> DEFINE r == [req[q] EXCEPT !.pc = "intentRead"]
  <2>1. brief' \in Brief /\ restored' \in Nat /\ runGoals' \in SUBSET GoalIds
    BY <1>0, <1>22, <1>rows DEF RestoreBrief, Request, Brief
  <2>2. r \in Request /\ Fits(r)
    BY <1>0, <1>22, <1>pcs DEF RestoreBrief, At, Request, Fits, Logged, LoggedPCs,
       RestorePCs
  <2>3. QED
    BY <1>22, <1>rows, <2>1, <2>2, LocalStep DEF RestoreBrief
<1>23. CASE TaskRead(q)
  <2> DEFINE r == [req[q] EXCEPT !.pc = "taskStatus", !.seenStatus = session.status]
  <2>1. r \in Request /\ Fits(r)
    BY <1>0, <1>pcs, <1>rows DEF Request, Session, Fits, Logged, LoggedPCs, RestorePCs
  <2>2. QED
    BY <1>23, <1>rows, <2>1, LocalStep DEF TaskRead, history
<1>24. CASE TaskStatus(q)
  <2>1. session' \in Session /\ session'.stateVersion \in Versions
    BY <1>0, <1>24, <1>rows DEF TaskStatus, Session, Request
  <2>2. QED
    BY <1>24, <1>fin, <1>rows, <2>1, LocalStep DEF TaskStatus, history
<1>2. CASE Activate(q)
  <2>1. /\ session' \in Session /\ session'.stateVersion \in Versions
        /\ activated' \in SUBSET Runs /\ runGoals' \in SUBSET GoalIds
    BY <1>2, <1>rows DEF Activate, Session, Brief, Statuses, RunIds, Runs
  <2>2. PICK r \in Request : r.pc \in {"validate", "done"} /\ Becomes(q, r)
    <3>1. \A goal \in GoalIds, next \in {"done", "taskRead"} :
             LET r == [Blank EXCEPT !.pc = "validate", !.goal = goal,
                                    !.type = "IntentUpdated", !.actor = "talker", !.next = next]
             IN  r \in Request /\ r.pc = "validate"
      BY BlankType, <1>pcs, <1>types DEF Request, Actors, Continuations
    <3>2. Finished.pc = "done"
      BY DEF Finished, Blank
    <3>3. QED
      BY <1>2, <1>fin, <3>1, <3>2 DEF Activate
  <2>3. Fits(r)
    BY <2>2 DEF Fits, Logged, LoggedPCs, RestorePCs
  <2>4. QED
    BY <1>2, <1>rows, <2>1, <2>2, <2>3, LocalStep DEF Activate
<1>3. CASE Validate(q)
  <2>1. PICK r \in Request : r.pc \in {"assign", "done"} /\ Becomes(q, r)
    <3>1. LET r == [req[q] EXCEPT !.pc = "assign"] IN r \in Request /\ r.pc = "assign"
      BY <1>0, <1>pcs DEF Request
    <3>2. Finished.pc = "done"
      BY DEF Finished, Blank
    <3>3. QED
      BY <1>3, <1>fin, <3>1, <3>2 DEF Validate
  <2>2. Fits(r)
    BY <2>1 DEF Fits, Logged, LoggedPCs, RestorePCs
  <2>3. QED
    BY <1>3, <1>rows, <2>1, <2>2, LocalStep DEF Validate, history
<1>4. CASE AssignMetadata(q)
  <2> DEFINE r == [Stamped(req[q]) EXCEPT !.pc = "append"]
  <2>1. Stamped(req[q]) \in Request /\ Stamped(req[q]).version = LatestVersion + 1
    BY <1>0, StampedType DEF Stamped, Request
  <2>2. r \in Request /\ r.pc = "append" /\ r.version = LatestVersion + 1
    BY <1>pcs, <2>1 DEF Request
  <2>3. Fits(r)
    BY <2>2, LatestInVersions DEF Fits, Logged, LoggedPCs, RestorePCs
  <2>4. QED
    BY <1>4, <1>rows, <2>2, <2>3, LocalStep DEF AssignMetadata, history
<1>5. CASE AppendEvent(q)
  BY <1>5, AppendStep
<1>6. CASE Arbitrate(q)
  <2>1. req[q].version \in Versions
    BY <1>0, <1>6 DEF Arbitrate, At, Fits, Logged, LoggedPCs, RestorePCs
  <2>2. PICK r \in Request : /\ r.version = req[q].version
                              /\ r.pc \in {"statusRead", "assign"}
                              /\ Becomes(q, r)
    <3>1. LET r == [req[q] EXCEPT !.pc = "statusRead"]
          IN  r \in Request /\ r.version = req[q].version /\ r.pc \in {"statusRead", "assign"}
      BY <1>0, <1>pcs DEF Request
    <3>2. \A rest \in Seq(EventTypes) :
             LET r == [req[q] EXCEPT !.pc = "assign", !.type = "BeliefUpdated",
                                     !.actor = "kernel_manager", !.run = NoRun, !.rest = rest]
             IN  r \in Request /\ r.version = req[q].version /\ r.pc \in {"statusRead", "assign"}
      BY <1>0, <1>pcs, <1>types DEF Request, RunIds, Actors
    <3>3. <<>> \in Seq(EventTypes) /\ <<"ConflictDetected">> \in Seq(EventTypes)
      BY <1>types
    <3>4. QED
      BY <1>6, <3>1, <3>2, <3>3 DEF Arbitrate
  <2>3. Fits(r)
    BY <2>1, <2>2 DEF Fits, RestorePCs
  <2>4. QED
    BY <1>6, <1>rows, <2>2, <2>3, LocalStep DEF Arbitrate, history
<1>7. CASE Reduce(q)
  <2>1. ReduceIntent(brief, req[q].type, req[q].goal) \in Brief
    BY <1>0, <1>rows DEF ReduceIntent, Brief, Request
  <2>2. PICK r \in Request : r.version = req[q].version /\ r.pc = "saveBrief" /\ Becomes(q, r)
    <3>1. \A draft \in Brief, retargeted \in BOOLEAN :
             LET r == [req[q] EXCEPT !.pc = "saveBrief", !.draft = draft,
                                     !.retargeted = retargeted]
             IN  r \in Request /\ r.version = req[q].version /\ r.pc = "saveBrief"
      BY <1>0, <1>pcs DEF Request
    <3>2. QED
      BY <1>7, <2>1, <3>1 DEF Reduce
  <2>3. Fits(r)
    BY <1>0, <1>7, <2>2 DEF Reduce, At, Fits, Logged, LoggedPCs, RestorePCs
  <2>4. QED
    BY <1>7, <1>rows, <2>2, <2>3, LocalStep DEF Reduce, history
<1>8. CASE SaveBrief(q)
  <2>1. req[q].version \in Versions
    BY <1>0, <1>8 DEF SaveBrief, At, Fits, Logged, LoggedPCs, RestorePCs
  <2>2. AfterSave(req[q]) \in Request /\ Fits(AfterSave(req[q]))
    <3>1. \A pc \in {"cancelStatus", "intentRead"} :
             LET r == [req[q] EXCEPT !.pc = pc] IN r \in Request /\ Fits(r)
      BY <1>0, <1>pcs, <2>1 DEF Request, Fits, RestorePCs
    <3>2. QED
      BY <1>0, <2>1, <3>1, AfterReduceType, AfterReduceFits DEF AfterSave
  <2>3. brief' \in Brief /\ runGoals' \in SUBSET GoalIds
    BY <1>0, <1>8, <1>rows DEF SaveBrief, Request, Brief
  <2>4. QED
    BY <1>8, <1>rows, <2>2, <2>3, LocalStep DEF SaveBrief
<1>9. CASE CancelStatus(q)
  <2> DEFINE r == [req[q] EXCEPT !.pc = "raiseToken"]
  <2>1. r \in Request /\ Fits(r)
    BY <1>0, <1>9, <1>pcs, <1>rows DEF CancelStatus, At, Request, Fits, Logged,
       LoggedPCs, RestorePCs
  <2>2. session' \in Session /\ session'.stateVersion \in Versions
    BY <1>0, <1>9, <1>rows DEF CancelStatus, Session, Statuses, RunIds
  <2>3. QED
    BY <1>9, <1>rows, <2>1, <2>2, LocalStep DEF CancelStatus, history
<1>10. CASE RaiseToken(q)
  <2>1. AfterReduce(req[q]) \in Request /\ Fits(AfterReduce(req[q]))
    BY <1>0, <1>10, AfterReduceType, AfterReduceFits DEF RaiseToken, At, Fits, Logged,
       LoggedPCs, RestorePCs
  <2>2. session' \in Session /\ session'.stateVersion \in Versions
    BY <1>10, <1>rows DEF RaiseToken, Session
  <2>3. QED
    BY <1>10, <1>rows, <2>1, <2>2, LocalStep DEF RaiseToken, history
<1>11. CASE IntentRead(q)
  <2> DEFINE r == [req[q] EXCEPT !.pc = "intentStatus", !.seenStatus = session.status]
  <2>1. r \in Request /\ Fits(r)
    BY <1>0, <1>11, <1>pcs, <1>rows DEF IntentRead, At, Request, Fits, Logged,
       LoggedPCs, RestorePCs, Session
  <2>2. QED
    BY <1>11, <1>rows, <2>1, LocalStep DEF IntentRead, history
<1>12. CASE IntentStatus(q)
  <2>1. AfterIntent(req[q]) \in Request /\ Fits(AfterIntent(req[q]))
    <3>1. CASE req[q].resumes
      BY <1>0, <1>inter, <3>1 DEF AfterIntent
    <3>2. CASE ~req[q].resumes
      <4>1. req[q].version \in Versions
        BY <1>0, <1>12, <3>2 DEF IntentStatus, At, Fits, Logged, LoggedPCs, RestorePCs
      <4>2. LET r == [req[q] EXCEPT !.pc = "raiseToken"] IN r \in Request /\ Fits(r)
        BY <1>0, <1>pcs, <4>1 DEF Request, Fits, RestorePCs
      <4>3. QED
        BY <1>0, <3>2, <4>1, <4>2, AfterReduceType, AfterReduceFits DEF AfterIntent
    <3>3. QED
      BY <3>1, <3>2
  <2>2. session' \in Session /\ session'.stateVersion \in Versions
    BY <1>0, <1>12, <1>rows DEF IntentStatus, Session, Request, Brief
  <2>3. QED
    BY <1>12, <1>rows, <2>1, <2>2, LocalStep DEF IntentStatus, history
<1>13. CASE Snapshot(q)
  <2> DEFINE r == [req[q] EXCEPT !.pc = "assign", !.seenStatus = session.status]
  <2>1. r \in Request /\ Fits(r)
    BY <1>0, <1>13, <1>pcs, <1>rows DEF Snapshot, At, Request, Fits, Logged, LoggedPCs,
       RestorePCs, Session
  <2>2. QED
    BY <1>13, <1>rows, <2>1, LocalStep DEF Snapshot, history
<1>14. CASE StatusRead(q)
  <2> DEFINE r == [req[q] EXCEPT !.pc = "statusWrite", !.seenStatus = session.status]
  <2>1. r \in Request /\ Fits(r)
    BY <1>0, <1>14, <1>pcs, <1>rows DEF StatusRead, At, Request, Fits, Logged,
       LoggedPCs, RestorePCs, Session
  <2>2. QED
    BY <1>14, <1>rows, <2>1, LocalStep DEF StatusRead, history
<1>15. CASE StatusWrite(q)
  <2>1. req[q].version \in Versions /\ req[q].version \in Nat
    BY <1>0, <1>15 DEF StatusWrite, At, Fits, Logged, LoggedPCs, RestorePCs, Request
  <2>2. AfterWrite(req[q]) \in Request /\ Fits(AfterWrite(req[q]))
    <3>1. \A pc \in Continuations :
             LET r == [req[q] EXCEPT !.pc = pc] IN r \in Request /\ Fits(r)
      BY <1>0, <1>pcs DEF Request, Continuations, Fits, Logged, LoggedPCs, RestorePCs
    <3>2. req[q].next \in Continuations
      BY <1>0 DEF Request
    <3>3. QED
      BY <1>fin, <3>1, <3>2 DEF AfterWrite
  <2>3. session' \in Session /\ session'.stateVersion \in Versions
    BY <1>0, <1>15, <1>rows, <2>1 DEF StatusWrite, Session, Request
  <2>4. QED
    BY <1>15, <1>rows, <2>2, <2>3, LocalStep DEF StatusWrite, history
<1>16. CASE CompleteRead(q)
  <2>1. LET r == [req[q] EXCEPT !.pc = "completeWrite"] IN r \in Request /\ Fits(r)
    BY <1>0, <1>pcs DEF Request, Fits, Logged, LoggedPCs, RestorePCs
  <2>2. PICK r \in Request : Fits(r) /\ Becomes(q, r)
    BY <1>16, <1>fin, <2>1 DEF CompleteRead
  <2>3. QED
    BY <1>16, <1>rows, <2>2, LocalStep DEF CompleteRead, history
<1>17. CASE CompleteWrite(q)
  <2>1. session' \in Session /\ session'.stateVersion \in Versions
    BY <1>17, <1>rows, ReportedAssumption DEF CompleteWrite, Session, RunIds
  <2>2. QED
    BY <1>17, <1>fin, <1>rows, <2>1, LocalStep DEF CompleteWrite, history
<1>18. CASE Archive(q)
  <2>1. session' \in Session /\ session'.stateVersion \in Versions
    BY <1>18, <1>rows DEF Archive, Session, Statuses
  <2>2. QED
    BY <1>18, <1>fin, <1>rows, <2>1, LocalStep DEF Archive, history
<1>19. QED
  BY <1>1, <1>2, <1>3, <1>4, <1>5, <1>6, <1>7, <1>8, <1>9, <1>10, <1>11, <1>12, <1>13,
     <1>14, <1>15, <1>16, <1>17, <1>18, <1>20, <1>21, <1>22, <1>23, <1>24 DEF Handle

LEMMA IInvStep == IInv /\ [Next]_vars => IInv'
<1> SUFFICES ASSUME IInv, [Next]_vars PROVE IInv'
  OBVIOUS
<1>1. CASE Crash
  BY <1>1, CrashStep
<1>2. CASE \E q \in Requests : Receive(q) \/ Handle(q)
  BY <1>2, ReceiveStep, HandleStep
<1>3. CASE UNCHANGED vars
  <2>1. Versions' = Versions /\ LatestVersion' = LatestVersion
    BY <1>3 DEF vars, Versions, LatestVersion
  <2>2. QED
    BY <1>3, <2>1 DEF vars, history, IInv, TypeOK, VersionInv, Fits, RestorePCs
<1>4. QED
  BY <1>1, <1>2, <1>3 DEF Next

LEMMA IInvAlways == Spec => []IInv
BY IInvInit, IInvStep, PTL DEF Spec

-----------------------------------------------------------------------------
(* The variables keep their types.                                         *)
THEOREM TypeCorrect == Spec => []TypeOK
<1>1. IInv => TypeOK
  BY DEF IInv
<1>2. QED
  BY <1>1, IInvAlways, PTL

(* The versions of the log have no gap, however many requests race between *)
(* get_latest_state_version and append_event, and wherever a crash falls.  *)
THEOREM GapFree == Spec => []VersionsGapFree
<1>1. IInv => VersionsGapFree
  BY LatestInVersions DEF VersionsGapFree
<1>2. QED
  BY <1>1, IInvAlways, PTL

(* The version on the session row is always the version of a logged event. *)
THEOREM SessionVersion == Spec => []SessionVersionLogged
<1>1. IInv => SessionVersionLogged
  BY DEF IInv, VersionInv, SessionVersionLogged
<1>2. QED
  BY <1>1, IInvAlways, PTL

-----------------------------------------------------------------------------
(* The refinement: only AppendEvent touches the log, only StatusWrite the  *)
(* announced version.                                                      *)
LEMMA OtherSteps ==
    ASSUME IInv, NEW q \in Requests, Receive(q) \/ Handle(q), ~AppendEvent(q), ~StatusWrite(q)
    PROVE  log' = log /\ session'.stateVersion = session.stateVersion
<1>1. session \in Session
  BY DEF IInv, TypeOK
<1>2. CASE Receive(q)
  BY <1>2 DEF Receive, SubmitThinkerEvent, SubmitUserMessage, SubmitKernelEvent,
     DispatchUserMessage, CompleteRun, ArchiveSession
<1>3. CASE Plan(q) \/ RestoreRead(q) \/ RestoreBrief(q) \/ TaskRead(q) \/ Validate(q)
           \/ AssignMetadata(q) \/ Arbitrate(q) \/ Reduce(q) \/ SaveBrief(q) \/ IntentRead(q)
           \/ Snapshot(q) \/ StatusRead(q) \/ CompleteRead(q)
  BY <1>3 DEF Plan, RestoreRead, RestoreBrief, TaskRead, Validate, AssignMetadata,
     Arbitrate,
     Reduce, SaveBrief, IntentRead, Snapshot, StatusRead, CompleteRead
<1>4. CASE Pause(q) \/ Activate(q) \/ TaskStatus(q) \/ CancelStatus(q) \/ RaiseToken(q)
           \/ IntentStatus(q) \/ Archive(q)
  BY <1>1, <1>4 DEF Session, Pause, Activate, TaskStatus, CancelStatus, RaiseToken,
     IntentStatus,
     Archive
<1>5. CASE CompleteWrite(q)
  BY <1>1, <1>5 DEF Session, CompleteWrite
<1>6. QED
  BY <1>2, <1>3, <1>4, <1>5 DEF Handle

(* The versions of the log, as VersionedLog sees them.                     *)
LogVersions == [i \in DOMAIN log |-> log[i].version]

LEMMA ReadersLatest ==
    ASSUME IInv
    PROVE  Readers!Latest = LatestVersion
<1>1. {LogVersions[i] : i \in DOMAIN LogVersions} = Versions
  BY DEF LogVersions, Versions
<1>2. log # <<>>
  <2>1. 1 \in Versions
    BY LatestInVersions
  <2>2. QED
    BY <2>1 DEF Versions
<1>3. QED
  BY <1>1, <1>2 DEF Readers!Latest, Readers!Max, Max, LogVersions, LatestVersion

LEMMA FunctionIsSequence ==
    ASSUME NEW n \in Nat, NEW f \in [1..n -> Nat]
    PROVE  f \in Seq(Nat) /\ Len(f) = n
OBVIOUS

LEMMA ReadersInit == Init => Readers!Init
<1> SUFFICES ASSUME Init PROVE Readers!Init
  OBVIOUS
<1>1. LogVersions = <<1>>
  BY DEF Init, LogVersions
<1>2. QED
  BY <1>1 DEF Init, Readers!Init, LogVersions

LEMMA ReadersStep ==
    ASSUME IInv, IInv', [Next]_vars
    PROVE  [Readers!Insert \/ Readers!Announce]_<<LogVersions, session.stateVersion>>
<1>1. ASSUME NEW q \in Requests, AppendEvent(q)
      PROVE  Readers!Insert
  <2> DEFINE v == req[q].version
             e == [type |-> req[q].type, actor |-> req[q].actor, run |-> req[q].run,
                   intentVersion |-> req[q].intentVersion, version |-> v, by |-> q]
  <2>1. v \in 1..(LatestVersion + 1)
    BY <1>1 DEF IInv, VersionInv, Fits, AppendEvent, At
  <2>2. log \in Seq(LogEntry) /\ log' = Append(log, e) /\ session' = session
    BY <1>1 DEF AppendEvent, IInv, TypeOK
  <2>3. e.version = v
    OBVIOUS
  <2> HIDE DEF e
  <2>4. /\ Len(log) \in Nat /\ DOMAIN log = 1..Len(log) /\ DOMAIN log' = 1..(Len(log) + 1)
        /\ \A i \in 1..Len(log) : log'[i] = log[i]
        /\ log'[Len(log) + 1] = e
    BY <2>2
  <2>5. LogVersions' = Append(LogVersions, v)
    <3>1. LogVersions \in Seq(Nat) /\ Len(LogVersions) = Len(log)
      <4>1. \A i \in 1..Len(log) : log[i].version \in Nat
        <5>1. \A i \in 1..Len(log) : log[i] \in LogEntry
          BY <2>2, <2>4
        <5>2. QED
          BY <5>1 DEF LogEntry
      <4>2. LogVersions \in [1..Len(log) -> Nat]
        BY <2>4, <4>1 DEF LogVersions
      <4>3. QED
        BY <2>4, <4>2, FunctionIsSequence
    <3>2. LogVersions' \in Seq(Nat) /\ Len(LogVersions') = Len(log) + 1
      <4>1. \A i \in 1..(Len(log) + 1) : log'[i].version \in Nat
        <5>1. log' \in Seq(LogEntry) /\ Len(log') = Len(log) + 1
          BY <2>2 DEF IInv, TypeOK
        <5>2. \A i \in 1..(Len(log) + 1) : log'[i] \in LogEntry
          BY <2>4, <5>1
        <5>3. QED
          BY <5>2 DEF LogEntry
      <4>2. LogVersions' \in [1..(Len(log) + 1) -> Nat]
        BY <2>4, <4>1 DEF LogVersions
      <4>3. QED
        BY <2>4, <4>2, FunctionIsSequence
    <3>3. \A i \in 1..(Len(log) + 1) : LogVersions'[i] = Append(LogVersions, v)[i]
      BY <2>3, <2>4, <3>1 DEF LogVersions
    <3>4. QED
      BY <2>1, <3>1, <3>2, <3>3, LatestInVersions
  <2>6. QED
    BY <2>1, <2>2, <2>5, ReadersLatest DEF Readers!Insert, LogVersions
<1>2. ASSUME NEW q \in Requests, StatusWrite(q)
      PROVE  Readers!Announce
  <2>1. session'.stateVersion \in Versions /\ log' = log
    BY <1>2 DEF StatusWrite, IInv, VersionInv, Fits, Logged, LoggedPCs, At, TypeOK,
       Session
  <2>2. LogVersions' = LogVersions /\ DOMAIN LogVersions = DOMAIN log
    BY <2>1 DEF LogVersions
  <2>3. PICK i \in DOMAIN log : session'.stateVersion = log[i].version
    BY <2>1 DEF Versions
  <2>4. QED
    BY <2>2, <2>3 DEF Readers!Announce, LogVersions
<1>3. ASSUME NEW q \in Requests, Receive(q) \/ Handle(q), ~AppendEvent(q), ~StatusWrite(q)
      PROVE  UNCHANGED <<LogVersions, session.stateVersion>>
  BY <1>3, OtherSteps DEF LogVersions
<1>4. CASE Crash \/ UNCHANGED vars
  BY <1>4 DEF Crash, vars, LogVersions
<1>5. QED
  BY <1>1, <1>2, <1>3, <1>4 DEF Next

(* The pipeline implements VersionedLog: no entry of the log is changed or *)
(* dropped, no version is skipped, no unlogged version is announced.       *)
THEOREM Refinement == Spec => ReadersServed
BY ReadersInit, ReadersStep, IInvAlways, PTL DEF Spec, ReadersServed, Readers!Spec,
   LogVersions
=============================================================================
