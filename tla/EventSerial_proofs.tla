------------------------- MODULE EventSerial_proofs -------------------------
(* What EventPipeline promises of a server that works on one request at a  *)
(* time, for any number of requests and crashes: who may write the session *)
(* row and the log, and that until the first crash the rows and the log    *)
(* agree.                                                                  *)
EXTENDS EventPipeline_proofs, FiniteSetTheorems

Recorded(run) ==
    \E i \in DOMAIN log : log[i].type = "RunInterrupted" /\ log[i].run = run

(* A dispatcher that has yet to take over.                                 *)
Dispatching(r) == r.resumes \/ r.next = "activate" \/ r.pc \in {"pause", "activate"}

ResumePCs == {"restoreRead", "restoreBrief", "intentRead", "intentStatus"}
InterruptPCs == {"snapshot", "assign", "append", "reduce", "saveBrief", "statusWrite"}

(* It is about the run that is still active, which it has recorded as      *)
(* interrupted once its event is in the log.                               *)
TakesOver(r) ==
    Dispatching(r) =>
        /\ r.pc \in {"pause", "activate"} \union ResumePCs \union InterruptPCs
        /\ r.run = session.activeRun /\ r.actor = "kernel_manager" /\ r.rest = <<>>
        /\ r.pc \in ResumePCs => r.resumes
        /\ r.pc \in InterruptPCs => r.type = "RunInterrupted" /\ r.next = "activate"
        /\ r.pc \in {"reduce", "saveBrief", "statusWrite", "activate"} =>
              session.activeRun = NoRun \/ Recorded(session.activeRun)

(* The kernel's own events: the row is read before they are logged.        *)
WrittenBack == {"ApprovalGranted", "RunInterrupted"}

(* The status a handler is about to write back is the one on the row.      *)
SeesStatus(r) ==
    \/ r.pc \in {"pause", "intentStatus", "statusWrite", "taskStatus"}
    \/ r.type \in WrittenBack /\ r.pc \in {"assign", "append", "reduce", "saveBrief"}
    => r.seenStatus = session.status

(* Which events a handler can hold at which point.                         *)
Authored(r) ==
    /\ r.rest # <<>> => /\ r.rest = <<"ConflictDetected">> /\ r.actor = "kernel_manager"
                        /\ r.type = "BeliefUpdated"
                        /\ r.pc \in {"assign", "append", "reduce", "saveBrief"}
    /\ r.pc = "plan" => r.actor = "kernel_manager"
    /\ r.pc = "validate" => r.type \in ThinkerTypes
    /\ r.pc = "arbitrate" => r.type = "BeliefProposed"
    /\ r.pc = "snapshot" => r.type \in WrittenBack /\ r.actor = "kernel_manager"
    /\ \/ r.pc \in {"cancelStatus", "raiseToken"}
       \/ r.pc \in {"intentRead", "intentStatus"} /\ ~r.resumes
       => r.type \in RunExemptTypes
    /\ r.pc \in {"restoreRead", "restoreBrief"} => r.resumes
    /\ r.pc \in {"assign", "append"} /\ r.actor = "thinker" /\ r.type \notin RunExemptTypes =>
          session.activeRun \in {NoRun, r.run}

Completes(r) ==
    /\ r.pc \in {"completeRead", "completeWrite"} => r.run \in activated
    /\ r.pc = "completeWrite" => session.activeRun = r.run

Unstarted(q, r) == r.pc \in {"idle", "plan"} \/ Dispatching(r) => q \notin activated

Settled(r) == (r.pc = "idle" => r = Blank) /\ (r.pc = "done" => r = Finished)

Handled(q, r) ==
    /\ TakesOver(r) /\ SeesStatus(r) /\ Authored(r)
    /\ Completes(r) /\ Unstarted(q, r) /\ Settled(r)

SerialInv ==
    /\ IInv
    /\ MaxInFlight = 1
    /\ \A p, q \in InFlight : p = q
    /\ \A q \in Requests : Handled(q, req[q])
    /\ session.activeRun \in activated \union {NoRun}
    /\ LiveRunCanWrite

-----------------------------------------------------------------------------
(* A handler that has not started, or has answered, holds nothing.         *)
LEMMA RestingFields ==
    /\ Blank.pc = "idle" /\ Finished.pc = "done"
    /\ \A r \in {Blank, Finished} :
          /\ r.type = "SessionCreated" /\ r.rest = <<>>
          /\ r.resumes = FALSE /\ r.next = "done"
BY DEF Blank, Finished

LEMMA SerialInit == Init /\ MaxInFlight = 1 => SerialInv
<1> SUFFICES ASSUME Init, MaxInFlight = 1 PROVE SerialInv
  OBVIOUS
<1>1. \A q \in Requests : req[q] = Blank
  BY DEF Init
<1>2. InFlight = {}
  BY <1>1 DEF InFlight, Blank
<1>3. activated = {} /\ session.activeRun = NoRun
  BY DEF Init
<1>4. \A q \in Requests : Handled(q, req[q])
  BY <1>1, <1>3, RestingFields DEF Handled, TakesOver, SeesStatus, Authored, Completes,
     Unstarted, Settled, Dispatching, WrittenBack
<1>5. QED
  BY <1>2, <1>3, <1>4, IInvInit DEF SerialInv, LiveRunCanWrite

(* While one handler works, all the others rest.                           *)
Alone(q) == \A p \in Requests : p # q => req[p].pc \in {"idle", "done"}

LEMMA WorksAlone ==
    ASSUME SerialInv, NEW q \in Requests, req[q].pc \notin {"idle", "done"}
    PROVE  Alone(q)
BY DEF SerialInv, Alone, InFlight

LEMMA ArrivesAlone ==
    ASSUME SerialInv, NEW q \in Requests, NEW kind, Arrive(q, kind)
    PROVE  Alone(q)
<1>1. InFlight = {}
  <2>1. SUFFICES ASSUME NEW p \in InFlight PROVE FALSE
    OBVIOUS
  <2>2. InFlight = {p}
    BY DEF SerialInv
  <2>3. Cardinality(InFlight) = 1
    BY <2>2, FS_Singleton
  <2>4. QED
    BY <2>3 DEF SerialInv, Arrive
<1>2. QED
  BY <1>1 DEF Alone, InFlight

(* One handler moves while the others rest: it remains to show what it     *)
(* holds then, and that the row still lets its run write.                  *)
LEMMA SerialStep ==
    ASSUME SerialInv, NEW q \in Requests, Alone(q), NEW r, Becomes(q, r), IInv',
           activated' \in {activated, activated \union {q}},
           session'.activeRun \in activated' \union {NoRun}, LiveRunCanWrite',
           Handled(q, r)'
    PROVE  SerialInv'
<1>1. \A p \in Requests : req'[p] = IF p = q THEN r ELSE req[p]
  BY DEF SerialInv, IInv, TypeOK, Becomes
<1>2. \A p \in Requests : p # q => req[p] \in {Blank, Finished}
  BY DEF Alone, SerialInv, Handled, Settled
<1>3. \A p, s \in InFlight' : p = s
  BY <1>1 DEF Alone, InFlight
<1>4. ASSUME NEW p \in Requests PROVE Handled(p, req[p])'
  <2>1. CASE p = q
    <3>1. req'[p] = r
      BY <1>1, <2>1
    <3>2. QED
      BY <2>1, <3>1 DEF Handled, TakesOver, SeesStatus, Authored, Completes, Unstarted, Settled,
         Recorded
  <2>2. CASE p # q /\ req[p] = Finished
    <3>1. req'[p] = Finished
      BY <1>1, <2>2
    <3>2. QED
      BY <3>1, RestingFields DEF Handled, TakesOver, SeesStatus, Authored, Completes,
         Unstarted, Settled, Dispatching, WrittenBack
  <2>3. CASE p # q /\ req[p] = Blank
    <3>1. req'[p] = Blank
      BY <1>1, <2>3
    <3>2. p \notin activated
      BY <2>3, RestingFields DEF SerialInv, Handled, Unstarted
    <3>3. QED
      BY <2>3, <3>1, <3>2, RestingFields DEF Handled, TakesOver, SeesStatus, Authored,
         Completes, Unstarted, Settled, Dispatching, WrittenBack
  <2>4. QED
    BY <1>2, <2>1, <2>2, <2>3
<1>5. QED
  BY <1>3, <1>4 DEF SerialInv

(* A step that leaves the status and the run of the session row alone.     *)
LEMMA RowStays ==
    ASSUME SerialInv, NEW q \in Requests, Alone(q), NEW r, Becomes(q, r), IInv', Handled(q, r),
           UNCHANGED <<log, session.status, session.activeRun, activated>>
    PROVE  SerialInv'
<1>1. Handled(q, r)'
  BY DEF Handled, TakesOver, SeesStatus, Authored, Completes, Unstarted, Settled, Recorded
<1>2. session'.activeRun \in activated' \union {NoRun} /\ LiveRunCanWrite'
  BY DEF SerialInv, LiveRunCanWrite
<1>3. QED
  BY <1>1, <1>2, SerialStep

LEMMA FinishedHandled == \A q \in Requests : Handled(q, Finished)
BY RestingFields DEF Handled, TakesOver, SeesStatus, Authored, Completes, Unstarted, Settled,
   Dispatching, WrittenBack

-----------------------------------------------------------------------------
(* A request that arrives.                                                 *)
Fresh(r) ==
    /\ r.rest = <<>> /\ r.resumes = FALSE /\ r.next = "done"
    /\ r.pc \in {"validate", "snapshot", "plan", "completeRead", "archive"}
    /\ r.pc = "validate" => r.type \in ThinkerTypes
    /\ r.pc = "snapshot" => r.type \in WrittenBack
    /\ r.pc \in {"snapshot", "plan"} => r.actor = "kernel_manager"
    /\ r.pc = "completeRead" => r.run \in activated

LEMMA FreshHandled ==
    ASSUME NEW q, NEW r, Fresh(r), q \notin activated
    PROVE  Handled(q, r)
BY DEF Fresh, Handled, TakesOver, SeesStatus, Authored, Completes, Unstarted, Settled,
   Dispatching

LEMMA ReceiveSerial ==
    ASSUME SerialInv, NEW q \in Requests, Receive(q)
    PROVE  SerialInv'
<1>1. IInv'
  BY ReceiveStep DEF SerialInv
<1>2. PICK r : Becomes(q, r) /\ Fresh(r)
  <2>1. ASSUME SubmitThinkerEvent(q) PROVE \E r : Becomes(q, r) /\ Fresh(r)
    <3>1. PICK type \in ThinkerTypes, run \in activated \union {NoRun},
               stated \in Stated, goal \in GoalIds :
               Becomes(q, [Blank EXCEPT !.pc = "validate", !.type = type, !.actor = "thinker",
                                        !.run = run, !.intentVersion = stated, !.goal = goal])
      BY <2>1 DEF SubmitThinkerEvent
    <3>2. Fresh([Blank EXCEPT !.pc = "validate", !.type = type, !.actor = "thinker",
                              !.run = run, !.intentVersion = stated, !.goal = goal])
      BY DEF Fresh, Blank
    <3>3. QED
      BY <3>1, <3>2, Zenon
  <2>2. ASSUME SubmitUserMessage(q) PROVE \E r : Becomes(q, r) /\ Fresh(r)
    <3>1. PICK goal \in GoalIds, stated \in Stated :
               Becomes(q, [Blank EXCEPT !.pc = "validate", !.goal = goal,
                                        !.intentVersion = stated,
                                        !.type = "IntentUpdated", !.actor = "talker"])
      BY <2>2 DEF SubmitUserMessage
    <3>2. Fresh([Blank EXCEPT !.pc = "validate", !.goal = goal, !.intentVersion = stated,
                              !.type = "IntentUpdated", !.actor = "talker"])
      BY DEF Fresh, Blank, ThinkerTypes
    <3>3. QED
      BY <3>1, <3>2, Zenon
  <2>3. ASSUME SubmitKernelEvent(q) PROVE \E r : Becomes(q, r) /\ Fresh(r)
    <3>1. Fresh([Blank EXCEPT !.pc = "snapshot", !.type = "ApprovalGranted"])
      BY DEF Fresh, Blank, WrittenBack
    <3>2. QED
      BY <2>3, <3>1, Zenon DEF SubmitKernelEvent
  <2>4. \A pc \in {"plan", "archive"} : Fresh([Blank EXCEPT !.pc = pc])
    BY DEF Fresh, Blank
  <2>5. ASSUME CompleteRun(q) PROVE \E r : Becomes(q, r) /\ Fresh(r)
    <3>1. PICK run \in activated :
               Becomes(q, [Blank EXCEPT !.pc = "completeRead", !.run = run])
      BY <2>5 DEF CompleteRun
    <3>2. Fresh([Blank EXCEPT !.pc = "completeRead", !.run = run])
      BY DEF Fresh, Blank
    <3>3. QED
      BY <3>1, <3>2, Zenon
  <2>6. ASSUME DispatchUserMessage(q) \/ ArchiveSession(q)
        PROVE  \E r : Becomes(q, r) /\ Fresh(r)
    <3>1. PICK pc \in {"plan", "archive"} : Becomes(q, [Blank EXCEPT !.pc = pc])
      BY <2>6 DEF DispatchUserMessage, ArchiveSession
    <3>2. QED
      BY <2>4, <3>1, Zenon
  <2>7. QED
    BY <2>1, <2>2, <2>3, <2>5, <2>6 DEF Receive
<1>3. /\ req[q].pc = "idle" /\ \E kind : Arrive(q, kind)
      /\ UNCHANGED <<log, session, activated>>
  BY DEF Receive, SubmitThinkerEvent, SubmitUserMessage, SubmitKernelEvent,
     DispatchUserMessage, CompleteRun, ArchiveSession, Arrive, At, history
<1>4. Alone(q) /\ q \notin activated
  BY <1>3, ArrivesAlone DEF SerialInv, Handled, Unstarted
<1>5. QED
  BY <1>1, <1>2, <1>3, <1>4, FreshHandled, RowStays

-----------------------------------------------------------------------------
(* The handler steps that leave the log, the status and the run alone.     *)
Elsewhere(q) ==
    \/ Plan(q)           \/ Pause(q)        \/ RestoreRead(q)  \/ RestoreBrief(q)
    \/ TaskRead(q)       \/ TaskStatus(q)   \/ Validate(q)     \/ AssignMetadata(q)
    \/ Arbitrate(q)      \/ Reduce(q)       \/ SaveBrief(q)    \/ RaiseToken(q)
    \/ IntentRead(q)     \/ IntentStatus(q) \/ Snapshot(q)     \/ StatusRead(q)
    \/ StatusWrite(q)    \/ CompleteRead(q)

LEMMA ElsewhereStays ==
    ASSUME SerialInv, NEW q \in Requests, Elsewhere(q)
    PROVE  UNCHANGED <<log, session.status, session.activeRun, activated>>
<1>1. session \in Session /\ SeesStatus(req[q])
  BY DEF SerialInv, IInv, TypeOK, Handled
<1>2. CASE Plan(q) \/ RestoreRead(q) \/ RestoreBrief(q) \/ TaskRead(q) \/ Validate(q)
           \/ AssignMetadata(q) \/ Arbitrate(q) \/ Reduce(q) \/ SaveBrief(q) \/ IntentRead(q)
           \/ Snapshot(q) \/ StatusRead(q) \/ CompleteRead(q)
  BY <1>2 DEF Plan, RestoreRead, RestoreBrief, TaskRead, Validate, AssignMetadata, Arbitrate,
     Reduce, SaveBrief, IntentRead, Snapshot, StatusRead, CompleteRead, history
<1>3. CASE Pause(q) \/ TaskStatus(q) \/ IntentStatus(q) \/ StatusWrite(q)
  BY <1>1, <1>3 DEF Pause, TaskStatus, IntentStatus, StatusWrite, SeesStatus, At, Session, history
<1>4. CASE RaiseToken(q)
  BY <1>1, <1>4 DEF RaiseToken, Session, history
<1>5. QED
  BY <1>2, <1>3, <1>4 DEF Elsewhere

(* What follows the reduction of an event.                                 *)
LEMMA AfterReduceHandled ==
    ASSUME NEW q, NEW r \in Request, Handled(q, r),
           r.pc \in {"saveBrief", "raiseToken", "intentStatus"},
           r.pc = "intentStatus" => ~r.resumes
    PROVE  Handled(q, AfterReduce(r))
<1>1. CASE r.rest # <<>>
  <2> DEFINE s == [r EXCEPT !.pc = "assign", !.type = Head(r.rest), !.rest = Tail(r.rest)]
  <2>1. r.rest = <<"ConflictDetected">> /\ r.actor = "kernel_manager" /\ ~Dispatching(r)
    BY <1>1 DEF Handled, Authored, TakesOver
  <2>2. Head(r.rest) = "ConflictDetected" /\ Tail(r.rest) = <<>>
    BY <2>1
  <2>3. /\ s.pc = "assign" /\ s.type = "ConflictDetected" /\ s.rest = <<>>
        /\ s.actor = "kernel_manager" /\ s.resumes = r.resumes /\ s.next = r.next
    BY <2>1, <2>2 DEF Request
  <2> HIDE DEF s
  <2>4. Handled(q, s)
    BY <2>1, <2>3 DEF Handled, TakesOver, SeesStatus, Authored, Completes, Unstarted, Settled,
       Dispatching, WrittenBack
  <2>5. QED
    BY <1>1, <2>4 DEF AfterReduce, s
<1>2. CASE r.rest = <<>> /\ r.type \in WrittenBack
  <2>1. r.pc = "saveBrief"
    BY <1>2 DEF Handled, Authored, WrittenBack, RunExemptTypes
  <2>2. AfterReduce(r) = [r EXCEPT !.pc = "statusWrite"]
    BY <1>2 DEF AfterReduce, WrittenBack
  <2>3. QED
    BY <1>2, <2>1, <2>2 DEF Handled, TakesOver, SeesStatus, Authored, Completes, Unstarted,
       Settled, Dispatching, Request, InterruptPCs, ResumePCs
<1>3. CASE r.rest = <<>> /\ r.type \notin WrittenBack
  <2>1. AfterReduce(r) = [r EXCEPT !.pc = "statusRead"]
    BY <1>3 DEF AfterReduce, WrittenBack
  <2>2. ~Dispatching(r)
    BY <1>3 DEF Handled, TakesOver, WrittenBack, InterruptPCs, ResumePCs
  <2>3. QED
    BY <1>3, <2>1, <2>2 DEF Handled, TakesOver, SeesStatus, Authored, Completes, Unstarted,
       Settled, Dispatching, Request
<1>4. QED
  BY <1>1, <1>2, <1>3

(* A dispatcher goes on to interrupt the run it found.                     *)
LEMMA InterruptingHandled ==
    ASSUME NEW q, NEW r \in Request, q \notin activated,
           r.run = session.activeRun, r.actor = "kernel_manager", r.rest = <<>>
    PROVE  Handled(q, Interrupting(r)) /\ Handled(q, Switching(r))
<1> USE DEF Handled, TakesOver, SeesStatus, Authored, Completes, Unstarted, Settled,
     Dispatching, Request
<1>1. Handled(q, Interrupting(r))
  <2>1. CASE r.run = NoRun
    BY <2>1 DEF Interrupting, InterruptPCs, ResumePCs
  <2>2. CASE r.run # NoRun
    BY <2>2 DEF Interrupting, InterruptPCs, ResumePCs, WrittenBack
  <2>3. QED
    BY <2>1, <2>2
<1>2. CASE r.resumes
  <2>1. Handled(q, [r EXCEPT !.pc = "restoreRead"])
    BY <1>2 DEF InterruptPCs, ResumePCs
  <2>2. QED
    BY <1>1, <1>2, <2>1 DEF Switching
<1>3. CASE ~r.resumes
  BY <1>1, <1>3 DEF Switching
<1>4. QED
  BY <1>1, <1>2, <1>3

LEMMA PlanHandled ==
    ASSUME SerialInv, NEW q \in Requests, Plan(q)
    PROVE  \E r : Becomes(q, r) /\ Handled(q, r)
<1>0. /\ req[q] \in Request /\ req[q].pc = "plan" /\ Handled(q, req[q])
      /\ session \in Session
  BY DEF SerialInv, IInv, TypeOK, Plan, At
<1>1. /\ ~Dispatching(req[q]) /\ q \notin activated
      /\ req[q].actor = "kernel_manager" /\ req[q].rest = <<>>
  BY <1>0 DEF Handled, TakesOver, Unstarted, Authored, InterruptPCs, ResumePCs
<1>2. CASE Becomes(q, Finished)
  BY <1>2, FinishedHandled, Zenon
<1>3. CASE ~Becomes(q, Finished)
  <2>1. PICK pauses \in BOOLEAN, resumes \in BOOLEAN :
           LET r == [req[q] EXCEPT !.run = session.activeRun, !.resumes = resumes,
                                   !.seenStatus = session.status]
           IN  Becomes(q, IF pauses THEN [r EXCEPT !.pc = "pause"] ELSE Switching(r))
    BY <1>3 DEF Plan
  <2>2. PICK r : r = [req[q] EXCEPT !.run = session.activeRun, !.resumes = resumes,
                                    !.seenStatus = session.status]
    OBVIOUS
  <2>3. /\ r \in Request /\ r.run = session.activeRun /\ r.seenStatus = session.status
        /\ r.actor = "kernel_manager" /\ r.rest = <<>>
    BY <1>0, <1>1, <2>2 DEF Request, Session
  <2>4. Handled(q, [r EXCEPT !.pc = "pause"])
    BY <1>1, <2>3 DEF Handled, TakesOver, SeesStatus, Authored, Completes, Unstarted, Settled,
       Dispatching, Request, InterruptPCs, ResumePCs
  <2>5. Handled(q, Switching(r))
    BY <1>1, <2>3, InterruptingHandled
  <2>6. Becomes(q, [r EXCEPT !.pc = "pause"]) \/ Becomes(q, Switching(r))
    BY <2>1, <2>2
  <2>7. QED
    BY <2>4, <2>5, <2>6, Zenon
<1>4. QED
  BY <1>2, <1>3

(* A step that reads the row into the status, or changes nothing but the   *)
(* place.                                                                  *)
LEMMA MovesHandled ==
    ASSUME SerialInv, NEW q \in Requests, NEW r \in Request, r = req[q]
    PROVE  /\ Pause(q) => Handled(q, Switching(r))
           /\ TaskRead(q) =>
                 Handled(q, [r EXCEPT !.pc = "taskStatus", !.seenStatus = session.status])
           /\ Validate(q) /\ Valid(r) => Handled(q, [r EXCEPT !.pc = "assign"])
           /\ AssignMetadata(q) => Handled(q, [Stamped(r) EXCEPT !.pc = "append"])
           /\ IntentRead(q) =>
                 Handled(q, [r EXCEPT !.pc = "intentStatus", !.seenStatus = session.status])
           /\ Snapshot(q) =>
                 Handled(q, [r EXCEPT !.pc = "assign", !.seenStatus = session.status])
           /\ StatusRead(q) =>
                 Handled(q, [r EXCEPT !.pc = "statusWrite", !.seenStatus = session.status])
           /\ CompleteRead(q) /\ session.activeRun = r.run =>
                 Handled(q, [r EXCEPT !.pc = "completeWrite"])
<1>0. Handled(q, r)
  BY DEF SerialInv
<1>1. ASSUME Pause(q) PROVE Handled(q, Switching(r))
  <2>1. r.pc = "pause"
    BY <1>1 DEF Pause, At
  <2>2. /\ q \notin activated
        /\ r.run = session.activeRun /\ r.actor = "kernel_manager" /\ r.rest = <<>>
    BY <1>0, <2>1 DEF Handled, TakesOver, Unstarted, Dispatching
  <2>3. QED
    BY <2>2, InterruptingHandled
<1> USE <1>0 DEF Handled, TakesOver, SeesStatus, Authored, Completes, Unstarted, Settled,
     Dispatching, Request, InterruptPCs, ResumePCs, At
<1>2. ASSUME TaskRead(q)
      PROVE  Handled(q, [r EXCEPT !.pc = "taskStatus", !.seenStatus = session.status])
  BY <1>2 DEF TaskRead
<1>3. ASSUME Validate(q), Valid(r) PROVE Handled(q, [r EXCEPT !.pc = "assign"])
  BY <1>3 DEF Validate, Valid, RunAccepted, ThinkerTypes, WrittenBack
<1>4. ASSUME AssignMetadata(q) PROVE Handled(q, [Stamped(r) EXCEPT !.pc = "append"])
  <2>1. PICK s : s = [Stamped(r) EXCEPT !.pc = "append"]
    OBVIOUS
  <2>2. /\ s.pc = "append" /\ s.type = r.type /\ s.actor = r.actor /\ s.rest = r.rest
        /\ s.resumes = r.resumes /\ s.next = r.next /\ s.seenStatus = r.seenStatus
        /\ s.run = IF r.run = NoRun /\ r.actor = "thinker" THEN session.activeRun ELSE r.run
    BY <2>1 DEF Stamped
  <2>3. r.pc = "assign"
    BY <1>4 DEF AssignMetadata
  <2>4. Handled(q, s)
    BY <2>2, <2>3 DEF WrittenBack
  <2>5. QED
    BY <2>1, <2>4
<1>5. ASSUME IntentRead(q)
      PROVE  Handled(q, [r EXCEPT !.pc = "intentStatus", !.seenStatus = session.status])
  BY <1>5 DEF IntentRead
<1>6. ASSUME Snapshot(q)
      PROVE  Handled(q, [r EXCEPT !.pc = "assign", !.seenStatus = session.status])
  BY <1>6 DEF Snapshot
<1>7. ASSUME StatusRead(q)
      PROVE  Handled(q, [r EXCEPT !.pc = "statusWrite", !.seenStatus = session.status])
  BY <1>7 DEF StatusRead
<1>8. ASSUME CompleteRead(q), session.activeRun = r.run
      PROVE  Handled(q, [r EXCEPT !.pc = "completeWrite"])
  BY <1>8 DEF CompleteRead
<1>9. QED
  BY <1>1, <1>2, <1>3, <1>4, <1>5, <1>6, <1>7, <1>8

LEMMA ReducesHandled ==
    ASSUME SerialInv, NEW q \in Requests, NEW r \in Request, r = req[q]
    PROVE  /\ RestoreRead(q) => \A draft :
                 Handled(q, [r EXCEPT !.pc = "restoreBrief", !.draft = draft])
           /\ RestoreBrief(q) => Handled(q, [r EXCEPT !.pc = "intentRead"])
           /\ Arbitrate(q) =>
                 /\ Handled(q, [r EXCEPT !.pc = "statusRead"])
                 /\ \A rest \in {<<>>, <<"ConflictDetected">>} :
                       Handled(q, [r EXCEPT !.pc = "assign", !.type = "BeliefUpdated",
                                            !.actor = "kernel_manager", !.run = NoRun,
                                            !.rest = rest])
           /\ Reduce(q) => \A draft, retargeted :
                 Handled(q, [r EXCEPT !.pc = "saveBrief", !.draft = draft,
                                      !.retargeted = retargeted])
<1>0. Handled(q, r)
  BY DEF SerialInv
<1> USE <1>0 DEF Handled, TakesOver, SeesStatus, Authored, Completes, Unstarted, Settled,
     Dispatching, Request, InterruptPCs, ResumePCs, At
<1>1. ASSUME RestoreRead(q), NEW draft
      PROVE  Handled(q, [r EXCEPT !.pc = "restoreBrief", !.draft = draft])
  BY <1>1 DEF RestoreRead
<1>2. ASSUME RestoreBrief(q) PROVE Handled(q, [r EXCEPT !.pc = "intentRead"])
  BY <1>2 DEF RestoreBrief
<1>3. ASSUME Arbitrate(q) PROVE Handled(q, [r EXCEPT !.pc = "statusRead"])
  BY <1>3 DEF Arbitrate
<1>4. ASSUME Arbitrate(q), NEW rest \in {<<>>, <<"ConflictDetected">>}
      PROVE  Handled(q, [r EXCEPT !.pc = "assign", !.type = "BeliefUpdated",
                                  !.actor = "kernel_manager", !.run = NoRun, !.rest = rest])
  <2>1. r.pc = "arbitrate" /\ ~Dispatching(r)
    BY <1>4 DEF Arbitrate
  <2>2. PICK s : s = [r EXCEPT !.pc = "assign", !.type = "BeliefUpdated",
                               !.actor = "kernel_manager", !.run = NoRun, !.rest = rest]
    OBVIOUS
  <2>3. /\ s.pc = "assign" /\ s.type = "BeliefUpdated" /\ s.actor = "kernel_manager"
        /\ s.rest \in {<<>>, <<"ConflictDetected">>} /\ s.resumes = r.resumes /\ s.next = r.next
    BY <2>2
  <2>4. Handled(q, s)
    BY <2>1, <2>3 DEF WrittenBack
  <2>5. QED
    BY <2>2, <2>4
<1>5. ASSUME Reduce(q), NEW draft, NEW retargeted
      PROVE  Handled(q, [r EXCEPT !.pc = "saveBrief", !.draft = draft,
                                  !.retargeted = retargeted])
  BY <1>5 DEF Reduce, WrittenBack
<1>6. QED
  BY <1>1, <1>2, <1>3, <1>4, <1>5

LEMMA SavesHandled ==
    ASSUME SerialInv, NEW q \in Requests, NEW r \in Request, r = req[q]
    PROVE  /\ SaveBrief(q) => Handled(q, AfterSave(r))
           /\ RaiseToken(q) => Handled(q, AfterReduce(r))
           /\ IntentStatus(q) => Handled(q, AfterIntent(r))
           /\ StatusWrite(q) => Handled(q, AfterWrite(r))
<1>0. Handled(q, r)
  BY DEF SerialInv
<1>1. ASSUME SaveBrief(q) PROVE Handled(q, AfterSave(r))
  <2>0. r.pc = "saveBrief"
    BY <1>1 DEF SaveBrief, At
  <2>1. r.pc = "saveBrief" /\ Handled(q, AfterReduce(r))
    BY <1>0, <2>0, AfterReduceHandled
  <2>2. CASE r.type = "SessionCancelled"
    <3>1. Handled(q, [r EXCEPT !.pc = "cancelStatus"])
      BY <1>0, <2>1, <2>2 DEF Handled, TakesOver, SeesStatus, Authored, Completes, Unstarted,
         Settled, Dispatching, Request, InterruptPCs, ResumePCs, WrittenBack, RunExemptTypes
    <3>2. QED
      BY <2>2, <3>1 DEF AfterSave
  <2>3. CASE r.type = "IntentUpdated"
    <3>1. Handled(q, [r EXCEPT !.pc = "intentRead"])
      BY <1>0, <2>1, <2>3 DEF Handled, TakesOver, SeesStatus, Authored, Completes, Unstarted,
         Settled, Dispatching, Request, InterruptPCs, ResumePCs, WrittenBack, RunExemptTypes
    <3>2. QED
      BY <2>3, <3>1 DEF AfterSave
  <2>4. QED
    BY <2>1, <2>2, <2>3 DEF AfterSave
<1>2. ASSUME RaiseToken(q) PROVE Handled(q, AfterReduce(r))
  <2>1. r.pc = "raiseToken"
    BY <1>2 DEF RaiseToken, At
  <2>2. QED
    BY <1>0, <2>1, AfterReduceHandled
<1>3. ASSUME IntentStatus(q) PROVE Handled(q, AfterIntent(r))
  <2>1. r.pc = "intentStatus"
    BY <1>3 DEF IntentStatus, At
  <2>2. CASE r.resumes
    <3>1. /\ q \notin activated
          /\ r.run = session.activeRun /\ r.actor = "kernel_manager" /\ r.rest = <<>>
      BY <1>0, <2>2 DEF Handled, TakesOver, Unstarted, Dispatching
    <3>2. QED
      BY <2>2, <3>1, InterruptingHandled DEF AfterIntent
  <2>3. CASE ~r.resumes /\ r.retargeted
    <3>1. Handled(q, [r EXCEPT !.pc = "raiseToken"])
      BY <1>0, <2>1, <2>3 DEF Handled, TakesOver, SeesStatus, Authored, Completes, Unstarted,
         Settled, Dispatching, Request, InterruptPCs, ResumePCs
    <3>2. QED
      BY <2>3, <3>1 DEF AfterIntent
  <2>4. CASE ~r.resumes /\ ~r.retargeted
    BY <1>0, <2>1, <2>4, AfterReduceHandled DEF AfterIntent
  <2>5. QED
    BY <2>2, <2>3, <2>4
<1>4. ASSUME StatusWrite(q) PROVE Handled(q, AfterWrite(r))
  <2>1. r.pc = "statusWrite"
    BY <1>4 DEF StatusWrite, At
  <2>2. CASE r.next = "done"
    BY <2>2, FinishedHandled DEF AfterWrite
  <2>3. CASE r.next = "activate"
    <3>1. Handled(q, [r EXCEPT !.pc = "activate"])
      BY <1>0, <2>1, <2>3 DEF Handled, TakesOver, SeesStatus, Authored, Completes, Unstarted,
         Settled, Dispatching, Request, InterruptPCs, ResumePCs
    <3>2. QED
      BY <2>3, <3>1 DEF AfterWrite
  <2>4. CASE r.next = "taskRead"
    <3>1. Handled(q, [r EXCEPT !.pc = "taskRead"])
      BY <1>0, <2>1, <2>4 DEF Handled, TakesOver, SeesStatus, Authored, Completes, Unstarted,
         Settled, Dispatching, Request, InterruptPCs, ResumePCs
    <3>2. QED
      BY <2>4, <3>1 DEF AfterWrite
  <2>5. QED
    BY <2>2, <2>3, <2>4 DEF Request, Continuations
<1>5. QED
  BY <1>1, <1>2, <1>3, <1>4

LEMMA ElsewhereHandled ==
    ASSUME SerialInv, NEW q \in Requests, Elsewhere(q)
    PROVE  \E s : Becomes(q, s) /\ Handled(q, s)
<1>1. PICK r \in Request : r = req[q]
  BY DEF SerialInv, IInv, TypeOK
<1>2. CASE Plan(q)
  BY <1>2, PlanHandled
<1>3. CASE Pause(q)
  <2>1. Handled(q, Switching(r)) /\ Becomes(q, Switching(r))
    BY <1>1, <1>3, MovesHandled DEF Pause
  <2>2. QED
    BY <2>1, Zenon
<1>4. CASE TaskRead(q) \/ IntentRead(q) \/ Snapshot(q) \/ StatusRead(q)
  <2>1. PICK pc : /\ Becomes(q, [r EXCEPT !.pc = pc, !.seenStatus = session.status])
                  /\ Handled(q, [r EXCEPT !.pc = pc, !.seenStatus = session.status])
    BY <1>1, <1>4, MovesHandled, Zenon DEF TaskRead, IntentRead, Snapshot, StatusRead
  <2>2. QED
    BY <2>1, Zenon
<1>5. CASE Validate(q)
  <2>1. CASE Valid(r)
    <3>1. /\ Handled(q, [r EXCEPT !.pc = "assign"])
          /\ Becomes(q, [r EXCEPT !.pc = "assign"])
      BY <1>1, <1>5, <2>1, MovesHandled DEF Validate
    <3>2. QED
      BY <3>1, Zenon
  <2>2. CASE ~Valid(r)
    <3>1. Becomes(q, Finished)
      BY <1>1, <1>5, <2>2 DEF Validate
    <3>2. QED
      BY <3>1, FinishedHandled, Zenon
  <2>3. QED
    BY <2>1, <2>2
<1>6. CASE AssignMetadata(q)
  BY <1>1, <1>6, MovesHandled, Zenon DEF AssignMetadata
<1>7. CASE CompleteRead(q)
  <2>1. CASE session.activeRun = r.run
    <3>1. /\ Handled(q, [r EXCEPT !.pc = "completeWrite"])
          /\ Becomes(q, [r EXCEPT !.pc = "completeWrite"])
      BY <1>1, <1>7, <2>1, MovesHandled DEF CompleteRead
    <3>2. QED
      BY <3>1, Zenon
  <2>2. CASE session.activeRun # r.run
    <3>1. Becomes(q, Finished)
      BY <1>1, <1>7, <2>2 DEF CompleteRead
    <3>2. QED
      BY <3>1, FinishedHandled, Zenon
  <2>3. QED
    BY <2>1, <2>2
<1>8. CASE TaskStatus(q)
  BY <1>8, FinishedHandled, Zenon DEF TaskStatus
<1>9. CASE RestoreRead(q)
  <2>1. PICK draft : Becomes(q, [r EXCEPT !.pc = "restoreBrief", !.draft = draft])
    BY <1>1, <1>9 DEF RestoreRead
  <2>2. QED
    BY <1>1, <1>9, <2>1, ReducesHandled, Zenon
<1>10. CASE RestoreBrief(q)
  BY <1>1, <1>10, ReducesHandled, Zenon DEF RestoreBrief
<1>11. CASE Arbitrate(q)
  <2>1. CASE Becomes(q, [r EXCEPT !.pc = "statusRead"])
    BY <1>1, <1>11, <2>1, ReducesHandled, Zenon
  <2>2. CASE ~Becomes(q, [r EXCEPT !.pc = "statusRead"])
    <3>1. PICK rest \in {<<>>, <<"ConflictDetected">>} :
             Becomes(q, [r EXCEPT !.pc = "assign", !.type = "BeliefUpdated",
                                  !.actor = "kernel_manager", !.run = NoRun, !.rest = rest])
      BY <1>1, <1>11, <2>2 DEF Arbitrate
    <3>2. QED
      BY <1>1, <1>11, <3>1, ReducesHandled, Zenon
  <2>3. QED
    BY <2>1, <2>2
<1>12. CASE Reduce(q)
  <2>1. PICK draft, retargeted :
           Becomes(q, [r EXCEPT !.pc = "saveBrief", !.draft = draft, !.retargeted = retargeted])
    BY <1>1, <1>12, Zenon DEF Reduce
  <2>2. QED
    BY <1>1, <1>12, <2>1, ReducesHandled, Zenon
<1>13. CASE SaveBrief(q)
  BY <1>1, <1>13, SavesHandled, Zenon DEF SaveBrief
<1>14. CASE RaiseToken(q)
  BY <1>1, <1>14, SavesHandled, Zenon DEF RaiseToken
<1>15. CASE IntentStatus(q)
  BY <1>1, <1>15, SavesHandled, Zenon DEF IntentStatus
<1>16. CASE StatusWrite(q)
  BY <1>1, <1>16, SavesHandled, Zenon DEF StatusWrite
<1>17. QED
  BY <1>2, <1>3, <1>4, <1>5, <1>6, <1>7, <1>8, <1>9, <1>10, <1>11, <1>12, <1>13, <1>14, <1>15,
     <1>16 DEF Elsewhere

LEMMA ElsewhereSerial ==
    ASSUME SerialInv, NEW q \in Requests, Elsewhere(q)
    PROVE  SerialInv'
<1>1. PICK r : Becomes(q, r) /\ Handled(q, r)
  BY ElsewhereHandled
<1>2. req[q].pc \notin {"idle", "done"}
  BY DEF Elsewhere, At, Plan, Pause, RestoreRead, RestoreBrief, TaskRead, TaskStatus, Validate,
     AssignMetadata, Arbitrate, Reduce, SaveBrief, RaiseToken, IntentRead, IntentStatus,
     Snapshot, StatusRead, StatusWrite, CompleteRead
<1>3. IInv'
  BY HandleStep DEF SerialInv, Elsewhere, Handle
<1>4. QED
  BY <1>1, <1>2, <1>3, WorksAlone, ElsewhereStays, RowStays

-----------------------------------------------------------------------------
(* The insert: the interruption of the active run is on record from here.  *)
LEMMA AppendSerial ==
    ASSUME SerialInv, NEW q \in Requests, AppendEvent(q)
    PROVE  SerialInv'
<1>0. req[q] \in Request /\ Handled(q, req[q]) /\ req[q].pc = "append"
  BY DEF SerialInv, IInv, TypeOK, AppendEvent, At
<1>1. PICK pc \in {"arbitrate", "reduce"} :
         /\ pc = IF req[q].type = "BeliefProposed" THEN "arbitrate" ELSE "reduce"
         /\ Becomes(q, [req[q] EXCEPT !.pc = pc])
  BY DEF AppendEvent
<1>2. PICK r : r = [req[q] EXCEPT !.pc = pc]
  OBVIOUS
<1>3. /\ r.pc = pc /\ r.type = req[q].type /\ r.actor = req[q].actor /\ r.rest = req[q].rest
      /\ r.run = req[q].run /\ r.resumes = req[q].resumes /\ r.next = req[q].next
      /\ r.seenStatus = req[q].seenStatus
  BY <1>0, <1>2 DEF Request
<1>4. ASSUME Dispatching(req[q]) PROVE Recorded(session.activeRun)'
  <2>1. req[q].type = "RunInterrupted" /\ req[q].run = session.activeRun
    BY <1>0, <1>4 DEF Handled, TakesOver, InterruptPCs
  <2>2. log \in Seq(LogEntry)
    BY DEF SerialInv, IInv, TypeOK
  <2> DEFINE e == [type |-> req[q].type, actor |-> req[q].actor, run |-> req[q].run,
                   intentVersion |-> req[q].intentVersion, version |-> req[q].version, by |-> q]
  <2>3. log' = Append(log, e) /\ session' = session
    BY DEF AppendEvent
  <2>4. e.type = "RunInterrupted" /\ e.run = session.activeRun
    BY <2>1
  <2> HIDE DEF e
  <2>5. Len(log) + 1 \in DOMAIN log' /\ log'[Len(log) + 1] = e
    BY <2>2, <2>3
  <2>6. QED
    BY <2>3, <2>4, <2>5 DEF Recorded
<1>5. session' = session /\ activated' = activated
  BY DEF AppendEvent, history
<1>6. Handled(q, r)'
  BY <1>0, <1>1, <1>3, <1>4, <1>5 DEF Handled, TakesOver, SeesStatus, Authored, Completes,
     Unstarted, Settled, Dispatching, InterruptPCs, ResumePCs
<1>7. session'.activeRun \in activated' \union {NoRun} /\ LiveRunCanWrite'
  BY <1>5 DEF SerialInv, LiveRunCanWrite
<1>8. IInv' /\ Alone(q)
  BY <1>0, AppendStep, WorksAlone DEF SerialInv
<1>9. QED
  BY <1>1, <1>2, <1>5, <1>6, <1>7, <1>8, SerialStep

LEMMA ActivateSerial ==
    ASSUME SerialInv, NEW q \in Requests, Activate(q)
    PROVE  SerialInv'
<1>0. /\ req[q] \in Request /\ req[q].pc = "activate" /\ session \in Session
      /\ q # NoRun
  BY SentinelAssumption DEF SerialInv, IInv, TypeOK, Activate, At
<1>1. PICK r : Becomes(q, r) /\ \/ r = Finished
                                \/ /\ r.pc = "validate" /\ r.type = "IntentUpdated"
                                   /\ r.rest = <<>> /\ ~r.resumes /\ r.next # "activate"
  <2>1. CASE req[q].resumes
    <3>1. Becomes(q, Finished)
      BY <2>1 DEF Activate
    <3>2. QED
      BY <3>1, Zenon
  <2>2. CASE ~req[q].resumes
    <3>1. PICK goal \in GoalIds, next \in {"done", "taskRead"} :
             Becomes(q, [Blank EXCEPT !.pc = "validate", !.goal = goal,
                                      !.type = "IntentUpdated", !.actor = "talker",
                                      !.next = next])
      BY <2>2 DEF Activate
    <3>2. PICK r : r = [Blank EXCEPT !.pc = "validate", !.goal = goal,
                                     !.type = "IntentUpdated", !.actor = "talker",
                                     !.next = next]
      OBVIOUS
    <3>3. /\ r.pc = "validate" /\ r.type = "IntentUpdated"
          /\ r.rest = <<>> /\ ~r.resumes /\ r.next # "activate"
      BY <3>2 DEF Blank
    <3>4. Becomes(q, r)
      BY <3>1, <3>2
    <3>5. QED
      BY <3>3, <3>4
  <2>3. QED
    BY <2>1, <2>2
<1>2. session'.activeRun = q /\ session'.status = "running" /\ activated' = activated \union {q}
  BY <1>0 DEF Activate, Session
<1>3. LiveRunCanWrite'
  BY <1>2 DEF LiveRunCanWrite
<1>4. Handled(q, r)'
  <2>1. CASE r = Finished
    BY <2>1, RestingFields DEF Handled, TakesOver, SeesStatus, Authored, Completes, Unstarted,
       Settled, Dispatching, WrittenBack
  <2>2. CASE r # Finished
    BY <1>1, <2>2 DEF Handled, TakesOver, SeesStatus, Authored, Completes, Unstarted,
       Settled, Dispatching, WrittenBack, ThinkerTypes
  <2>3. QED
    BY <2>1, <2>2
<1>5. IInv' /\ Alone(q)
  BY <1>0, HandleStep, WorksAlone DEF SerialInv, Handle
<1>6. QED
  BY <1>1, <1>2, <1>3, <1>4, <1>5, SerialStep

(* The steps that close the session or take its run away.                  *)
LEMMA ClosingSerial ==
    ASSUME SerialInv, NEW q \in Requests, CancelStatus(q) \/ CompleteWrite(q) \/ Archive(q)
    PROVE  SerialInv'
<1>0. /\ req[q] \in Request /\ Handled(q, req[q]) /\ session \in Session
      /\ activated' = activated /\ log' = log
      /\ req[q].pc \notin {"idle", "done"}
  BY DEF SerialInv, IInv, TypeOK, CancelStatus, CompleteWrite, Archive, At, history
<1>1. IInv' /\ Alone(q)
  BY <1>0, HandleStep, WorksAlone DEF SerialInv, Handle
<1>2. session'.activeRun \in activated' \union {NoRun} /\ LiveRunCanWrite'
  BY <1>0 DEF SerialInv, LiveRunCanWrite, CancelStatus, CompleteWrite, Archive, Session
<1>3. CASE CompleteWrite(q) \/ Archive(q)
  <2>1. Becomes(q, Finished)
    BY <1>3 DEF CompleteWrite, Archive
  <2>2. PICK r : r = Finished
    OBVIOUS
  <2>3. Handled(q, r)'
    BY <2>2, RestingFields DEF Handled, TakesOver, SeesStatus, Authored, Completes, Unstarted,
       Settled, Dispatching, WrittenBack
  <2>4. QED
    BY <1>0, <1>1, <1>2, <2>1, <2>2, <2>3, SerialStep
<1>4. CASE CancelStatus(q)
  <2>1. PICK r : r = [req[q] EXCEPT !.pc = "raiseToken"]
    OBVIOUS
  <2>2. req[q].pc = "cancelStatus" /\ Becomes(q, r)
    BY <1>4, <2>1 DEF CancelStatus, At
  <2>3. ~Dispatching(req[q]) /\ req[q].type \in RunExemptTypes /\ req[q].rest = <<>>
    BY <1>0, <2>2 DEF Handled, TakesOver, Authored, InterruptPCs, ResumePCs
  <2>4. /\ r.pc = "raiseToken" /\ r.type = req[q].type /\ r.rest = <<>>
        /\ r.resumes = req[q].resumes /\ r.next = req[q].next
    BY <1>0, <2>1, <2>3 DEF Request
  <2>5. Handled(q, r)'
    BY <2>3, <2>4 DEF Handled, TakesOver, SeesStatus, Authored, Completes, Unstarted,
       Settled, Dispatching
  <2>6. QED
    BY <1>0, <1>1, <1>2, <2>2, <2>5, SerialStep
<1>5. QED
  BY <1>3, <1>4

LEMMA CrashSerial ==
    ASSUME SerialInv, Crash
    PROVE  SerialInv'
<1>1. /\ \A p \in Requests : req'[p] = IF p \in InFlight THEN Finished ELSE req[p]
      /\ UNCHANGED <<log, session, activated>>
  BY DEF Crash
<1>2. ASSUME NEW p \in Requests PROVE Handled(p, req[p])'
  <2>1. PICK r : r = req'[p]
    OBVIOUS
  <2>2. Handled(p, r)
    BY <1>1, <2>1, FinishedHandled DEF SerialInv
  <2>3. QED
    BY <1>1, <2>1, <2>2 DEF Handled, TakesOver, SeesStatus, Authored, Completes, Unstarted,
       Settled, Recorded
<1>3. InFlight' = {}
  BY <1>1, RestingFields DEF InFlight
<1>4. session'.activeRun \in activated' \union {NoRun} /\ LiveRunCanWrite'
  BY <1>1 DEF SerialInv, LiveRunCanWrite
<1>5. QED
  BY <1>2, <1>3, <1>4, CrashStep DEF SerialInv

LEMMA SerialStay ==
    ASSUME SerialInv, UNCHANGED vars
    PROVE  SerialInv'
<1>1. IInv'
  BY IInvStep DEF SerialInv
<1>2. QED
  BY <1>1 DEF vars, history, SerialInv, InFlight, LiveRunCanWrite, Handled, TakesOver,
     SeesStatus, Authored, Completes, Unstarted, Settled, Recorded

LEMMA SerialAlways == MaxInFlight = 1 /\ Spec => []SerialInv
<1>1. SerialInv /\ [Next]_vars => SerialInv'
  <2> SUFFICES ASSUME SerialInv, [Next]_vars PROVE SerialInv'
    OBVIOUS
  <2>1. CASE Crash
    BY <2>1, CrashSerial
  <2>2. ASSUME NEW q \in Requests, Receive(q) PROVE SerialInv'
    BY <2>2, ReceiveSerial
  <2>3. ASSUME NEW q \in Requests, Handle(q) PROVE SerialInv'
    BY <2>3, ElsewhereSerial, AppendSerial, ActivateSerial, ClosingSerial DEF Handle, Elsewhere
  <2>4. CASE UNCHANGED vars
    BY <2>4, SerialStay
  <2>5. QED
    BY <2>1, <2>2, <2>3, <2>4 DEF Next
<1>2. QED
  BY <1>1, SerialInit, PTL DEF Spec

-----------------------------------------------------------------------------
(* A row that shows an active run lets that run write.                     *)
THEOREM LiveRunWrites == MaxInFlight = 1 /\ Spec => []LiveRunCanWrite
<1>1. SerialInv => LiveRunCanWrite
  BY DEF SerialInv
<1>2. QED
  BY <1>1, SerialAlways, PTL

(* While a run is active, no event of another run enters the log.          *)
THEOREM StaleRunsRefused == MaxInFlight = 1 /\ Spec => StaleRunRefused
<1> DEFINE A == \A i \in DOMAIN log' \ DOMAIN log :
                  /\ log'[i].actor = "thinker"
                  /\ log'[i].type \notin RunExemptTypes
                  => session.activeRun \in {NoRun, log'[i].run}
<1>1. SerialInv /\ [Next]_vars => [A]_vars
  <2> SUFFICES ASSUME SerialInv, Next PROVE A
    OBVIOUS
  <2>1. ASSUME NEW q \in Requests, AppendEvent(q) PROVE A
    <3> DEFINE e == [type |-> req[q].type, actor |-> req[q].actor, run |-> req[q].run,
                     intentVersion |-> req[q].intentVersion, version |-> req[q].version,
                     by |-> q]
    <3>1. log \in Seq(LogEntry) /\ log' = Append(log, e)
      BY <2>1 DEF SerialInv, IInv, TypeOK, AppendEvent
    <3>2. e.actor = "thinker" /\ e.type \notin RunExemptTypes =>
             session.activeRun \in {NoRun, e.run}
      BY <2>1 DEF SerialInv, Handled, Authored, AppendEvent, At
    <3> HIDE DEF e
    <3>3. \A i \in DOMAIN log' \ DOMAIN log : log'[i] = e
      BY <3>1
    <3>4. QED
      BY <3>2, <3>3
  <2>2. ASSUME NEW q \in Requests, Receive(q) \/ Handle(q), ~AppendEvent(q) PROVE A
    <3>1. log' = log
      <4>1. CASE StatusWrite(q)
        BY <4>1 DEF StatusWrite
      <4>2. CASE ~StatusWrite(q)
        BY <2>2, <4>2, OtherSteps DEF SerialInv
      <4>3. QED
        BY <4>1, <4>2
    <3>2. QED
      BY <3>1
  <2>3. CASE Crash
    BY <2>3 DEF Crash
  <2>4. QED
    BY <2>1, <2>2, <2>3 DEF Next
<1>2. QED
  BY <1>1, SerialAlways, PTL DEF Spec, StaleRunRefused

(* The steps that leave the active run alone.                              *)
LEMMA RunStays ==
    ASSUME SerialInv, NEW q \in Requests, Receive(q) \/ Elsewhere(q) \/ AppendEvent(q)
                                          \/ Archive(q)
    PROVE  session'.activeRun = session.activeRun
<1>1. CASE Receive(q) \/ AppendEvent(q)
  BY <1>1 DEF Receive, SubmitThinkerEvent, SubmitUserMessage, SubmitKernelEvent,
     DispatchUserMessage, CompleteRun, ArchiveSession, AppendEvent
<1>2. CASE Elsewhere(q)
  BY <1>2, ElsewhereStays
<1>3. CASE Archive(q)
  BY <1>3 DEF Archive, SerialInv, IInv, TypeOK, Session
<1>4. QED
  BY <1>1, <1>2, <1>3

(* A run that another run replaces was recorded as interrupted before.     *)
THEOREM TakeoversRecorded == MaxInFlight = 1 /\ Spec => TakeoverRecorded
<1> DEFINE A == /\ session.activeRun # NoRun
                /\ session'.activeRun \notin {NoRun, session.activeRun}
                => \E i \in DOMAIN log : /\ log[i].type = "RunInterrupted"
                                         /\ log[i].run = session.activeRun
<1>1. SerialInv /\ [Next]_vars => [A]_vars
  <2> SUFFICES ASSUME SerialInv, Next PROVE A
    OBVIOUS
  <2>0. session \in Session
    BY DEF SerialInv, IInv, TypeOK
  <2>1. ASSUME NEW q \in Requests, Activate(q) PROVE A
    <3>1. session.activeRun = NoRun \/ Recorded(session.activeRun)
      BY <2>1 DEF SerialInv, Handled, TakesOver, Dispatching, Activate, At
    <3>2. QED
      BY <3>1 DEF Recorded
  <2>2. ASSUME NEW q \in Requests, CancelStatus(q) \/ CompleteWrite(q) PROVE A
    BY <2>0, <2>2 DEF CancelStatus, CompleteWrite, Session
  <2>3. ASSUME NEW q \in Requests, Receive(q) \/ Elsewhere(q) \/ AppendEvent(q) \/ Archive(q)
        PROVE  A
    BY <2>3, RunStays
  <2>4. CASE Crash
    BY <2>4 DEF Crash
  <2>5. QED
    BY <2>1, <2>2, <2>3, <2>4 DEF Next, Handle, Elsewhere
<1>2. QED
  BY <1>1, SerialAlways, PTL DEF Spec, TakeoverRecorded

(* A cancelled session is reopened by a new user message and by nothing    *)
(* else, archiving apart.                                                  *)
THEOREM CancellationSticks == MaxInFlight = 1 /\ Spec => CancelSticks
<1> DEFINE A == session.status = "cancelled" /\ session'.status # "cancelled" =>
                   \/ session'.activeRun \notin {NoRun, session.activeRun}
                   \/ session'.status = "completed"
<1>1. SerialInv /\ [Next]_vars => [A]_vars
  <2> SUFFICES ASSUME SerialInv, Next PROVE A
    OBVIOUS
  <2>0. session \in Session
    BY DEF SerialInv, IInv, TypeOK
  <2>1. ASSUME NEW q \in Requests, Activate(q) PROVE A
    <3>1. session'.activeRun = q /\ q # NoRun
      BY <2>0, <2>1, SentinelAssumption DEF Activate, Session
    <3>2. q # session.activeRun
      BY <2>1, <3>1 DEF SerialInv, Handled, Unstarted, Dispatching, Activate, At
    <3>3. QED
      BY <3>1, <3>2
  <2>2. ASSUME NEW q \in Requests, CompleteWrite(q) PROVE A
    <3>1. session.activeRun \in activated
      BY <2>2 DEF SerialInv, Handled, Completes, CompleteWrite, At
    <3>2. session.activeRun # NoRun
      BY <3>1, SentinelAssumption DEF SerialInv, IInv, TypeOK, Runs
    <3>3. session.status # "cancelled"
      BY <3>2 DEF SerialInv, LiveRunCanWrite
    <3>4. QED
      BY <3>3
  <2>3. ASSUME NEW q \in Requests, CancelStatus(q) \/ Archive(q) PROVE A
    BY <2>0, <2>3 DEF CancelStatus, Archive, Session
  <2>4. ASSUME NEW q \in Requests, Elsewhere(q) PROVE A
    BY <2>4, ElsewhereStays
  <2>5. ASSUME NEW q \in Requests, Receive(q) \/ AppendEvent(q) PROVE A
    BY <2>5 DEF Receive, SubmitThinkerEvent, SubmitUserMessage, SubmitKernelEvent,
       DispatchUserMessage, CompleteRun, ArchiveSession, AppendEvent
  <2>6. CASE Crash
    BY <2>6 DEF Crash
  <2>7. QED
    BY <2>1, <2>2, <2>3, <2>4, <2>5, <2>6 DEF Next, Handle, Elsewhere
<1>2. QED
  BY <1>1, SerialAlways, PTL DEF Spec, CancelSticks

-----------------------------------------------------------------------------
(* Until the first crash the rows and the log agree exactly, except for    *)
(* what the handler at work, whose record is r, has yet to write.          *)

(* It has logged an intent update that is not in the brief yet.            *)
Owing(r) == r.pc \in {"reduce", "saveBrief"} /\ r.type = "IntentUpdated"

(* The intent version the brief has, or is about to get.                   *)
Current(r) == IF Owing(r) THEN brief.version + 1 ELSE brief.version

(* The session row does not show the last version of the log.              *)
Settling(r) == r.pc \in {"assign", "append"} \/ Logged(r)

(* The cancellation token is about to be raised, or the run replaced.      *)
TokenOwed(r) ==
    \/ r.resumes \/ r.pc = "raiseToken"
    \/ r.retargeted /\ r.pc \in {"intentRead", "intentStatus"}

Ordered(r) ==
    /\ \A i \in DOMAIN log : log[i].version = i
    /\ \A i \in IntentsLogged : log[i].intentVersion <= Current(r)
    /\ \A i \in IntentsLogged, j \in DOMAIN log :
          i < j => log[i].intentVersion <= log[j].intentVersion

Counted(r) == Current(r) = Cardinality(IntentsLogged) + restored

RowFollows(r) ==
    /\ r.pc \notin {"intentRead", "intentStatus"} => session.intentVersion = brief.version
    /\ ~Settling(r) => session.stateVersion = Len(log)

TokenFollows(r) ==
    session.activeRun # NoRun =>
        /\ Retargeted => session.token \/ TokenOwed(r)
        /\ r.resumes \/ /\ brief.goal \in runGoals
                        /\ brief.goal = NoGoal => runGoals \subseteq {NoGoal}

(* The brief a handler is about to save replaces the one on record.        *)
DraftFits(r) ==
    /\ r.pc = "saveBrief" =>
          IF r.type = "IntentUpdated"
          THEN /\ r.draft.version = brief.version + 1
               /\ brief.goal # NoGoal =>
                     /\ r.draft.goal # NoGoal
                     /\ r.draft.goal # brief.goal => r.retargeted
          ELSE r.draft = brief
    /\ r.pc = "restoreBrief" => r.draft.version = brief.version + 1
    /\ r.pc \in {"intentRead", "intentStatus"} => r.draft.version = brief.version

(* The versions it holds are those its event should have.                  *)
StampFits(r) ==
    /\ \/ r.pc \in {"plan", "pause", "restoreRead", "restoreBrief", "snapshot"}
       \/ r.resumes /\ r.pc \in {"intentRead", "intentStatus"}
       => r.intentVersion = 0
    /\ r.pc \in {"assign", "arbitrate", "reduce", "saveBrief"} /\ r.type # "IntentUpdated" =>
          r.intentVersion = 0 \/ r.intentVersion >= brief.version
    /\ r.pc = "append" =>
          /\ IF r.type = "IntentUpdated" THEN r.intentVersion = brief.version + 1
             ELSE r.intentVersion >= brief.version
          /\ r.version = Len(log) + 1
    /\ Logged(r) => r.version = Len(log)

Exactly(r) ==
    Ordered(r) /\ Counted(r) /\ RowFollows(r) /\ TokenFollows(r) /\ DraftFits(r) /\ StampFits(r)

ExactInv ==
    /\ SerialInv
    /\ crashes = 0 => /\ \A q \in InFlight : Exactly(req[q])
                      /\ InFlight = {} => Exactly(Finished)

LEMMA ExactInit == Init /\ MaxInFlight = 1 => ExactInv
<1> SUFFICES ASSUME Init, MaxInFlight = 1 PROVE ExactInv
  OBVIOUS
<1>1. SerialInv /\ InFlight = {}
  BY SerialInit, RestingFields DEF Init, InFlight
<1>2. /\ DOMAIN log = {1} /\ Len(log) = 1 /\ log[1].type = "SessionCreated"
      /\ log[1].version = 1 /\ log[1].intentVersion = 0
      /\ session.stateVersion = 1 /\ session.intentVersion = 0 /\ session.activeRun = NoRun
      /\ brief.version = 0 /\ restored = 0
  BY DEF Init
<1>3. Finished.pc = "done"
  BY RestingFields
<1>4. IntentsLogged = {}
  BY <1>2 DEF IntentsLogged
<1>5. Ordered(Finished)
  BY <1>2, <1>4 DEF Ordered
<1>6. Counted(Finished)
  BY <1>2, <1>3, <1>4, FS_EmptySet DEF Counted, Current, Owing
<1>7. Exactly(Finished)
  BY <1>2, <1>3, <1>5, <1>6, RestingFields DEF Exactly, RowFollows, TokenFollows, DraftFits,
     StampFits, Logged, LoggedPCs
<1>8. QED
  BY <1>1, <1>7 DEF ExactInv

(* The handler at work is the one the agreement is about.                  *)
LEMMA ExactNow ==
    ASSUME ExactInv, crashes = 0, NEW q \in Requests, req[q].pc \notin {"idle", "done"}
    PROVE  Exactly(req[q])
BY DEF ExactInv, InFlight

LEMMA ExactStep ==
    ASSUME ExactInv, SerialInv', NEW q \in Requests, Alone(q), NEW r, Becomes(q, r),
           r.pc # "idle", crashes' = crashes, crashes = 0 => Exactly(r)'
    PROVE  ExactInv'
<1>1. \A p \in Requests : req'[p] = IF p = q THEN r ELSE req[p]
  BY DEF ExactInv, SerialInv, IInv, TypeOK, Becomes
<1>2. InFlight' \subseteq {q}
  BY <1>1 DEF Alone, InFlight
<1>3. ASSUME NEW p \in InFlight', crashes = 0 PROVE Exactly(req[p])'
  <2>1. p = q /\ req'[p] = r
    BY <1>1, <1>2
  <2>2. QED
    BY <1>3, <2>1 DEF Exactly, Ordered, Counted, RowFollows, TokenFollows, DraftFits, StampFits,
       Current, Owing, Settling, TokenOwed, Logged, LoggedPCs
<1>4. ASSUME InFlight' = {}, crashes = 0 PROVE Exactly(Finished)'
  <2>1. r.pc = "done" /\ req'[q] = r
    BY <1>1, <1>4 DEF InFlight
  <2>2. r = Finished
    BY <2>1 DEF SerialInv, Handled, Settled
  <2>3. Exactly(r)'
    BY <1>4
  <2>4. QED
    BY <2>2, <2>3 DEF Exactly, Ordered, Counted, RowFollows, TokenFollows, DraftFits, StampFits,
       Current, Owing, Settling, TokenOwed, Logged, LoggedPCs
<1>5. QED
  BY <1>3, <1>4 DEF ExactInv

(* A step that writes nothing to the rows and the log.                     *)
LEMMA ReadStep ==
    ASSUME ExactInv, SerialInv', NEW q \in Requests, Alone(q), NEW r, Becomes(q, r),
           r.pc # "idle", UNCHANGED <<log, session, brief, runGoals, restored, crashes>>,
           crashes = 0 => Exactly(r)
    PROVE  ExactInv'
<1>1. IntentsLogged' = IntentsLogged
  BY DEF IntentsLogged
<1>2. Exactly(r) => Exactly(r)'
  BY <1>1 DEF Exactly, Ordered, Counted, RowFollows, TokenFollows, Retargeted, DraftFits, StampFits,
     Current
<1>3. QED
  BY <1>2, ExactStep

(* A handler that has nothing left to write may answer.                    *)
LEMMA FinishedExact ==
    ASSUME NEW r, Exactly(r), ~Owing(r), ~Settling(r), ~TokenOwed(r),
           r.pc \notin {"intentRead", "intentStatus"}
    PROVE  Exactly(Finished)
BY RestingFields DEF Exactly, Ordered, Counted, RowFollows, TokenFollows, DraftFits, StampFits,
   Current, Owing, Settling, TokenOwed, Logged, LoggedPCs

LEMMA ReceiveExact ==
    ASSUME ExactInv, NEW q \in Requests, Receive(q)
    PROVE  ExactInv'
<1>1. SerialInv /\ SerialInv' /\ brief.version \in Nat
  BY ReceiveSerial DEF ExactInv, SerialInv, IInv, TypeOK, Brief
<1> DEFINE Plain(r) == /\ r.pc \in {"validate", "snapshot", "plan", "completeRead", "archive"}
                       /\ r.resumes = FALSE
                       /\ r.pc \in {"snapshot", "plan"} => r.intentVersion = 0
<1>2. PICK r : Becomes(q, r) /\ Plain(r)
  <2>1. ASSUME SubmitThinkerEvent(q) PROVE \E r : Becomes(q, r) /\ Plain(r)
    <3>1. PICK type \in ThinkerTypes, run \in activated \union {NoRun},
               stated \in Stated, goal \in GoalIds :
               Becomes(q, [Blank EXCEPT !.pc = "validate", !.type = type, !.actor = "thinker",
                                        !.run = run, !.intentVersion = stated, !.goal = goal])
      BY <2>1 DEF SubmitThinkerEvent
    <3>2. Plain([Blank EXCEPT !.pc = "validate", !.type = type, !.actor = "thinker",
                              !.run = run, !.intentVersion = stated, !.goal = goal])
      BY DEF Blank
    <3>3. QED
      BY <3>1, <3>2, Zenon
  <2>2. ASSUME SubmitUserMessage(q) PROVE \E r : Becomes(q, r) /\ Plain(r)
    <3>1. PICK goal \in GoalIds, stated \in Stated :
               Becomes(q, [Blank EXCEPT !.pc = "validate", !.goal = goal,
                                        !.intentVersion = stated,
                                        !.type = "IntentUpdated", !.actor = "talker"])
      BY <2>2 DEF SubmitUserMessage
    <3>2. Plain([Blank EXCEPT !.pc = "validate", !.goal = goal, !.intentVersion = stated,
                              !.type = "IntentUpdated", !.actor = "talker"])
      BY DEF Blank
    <3>3. QED
      BY <3>1, <3>2, Zenon
  <2>3. ASSUME SubmitKernelEvent(q) PROVE \E r : Becomes(q, r) /\ Plain(r)
    <3>1. Plain([Blank EXCEPT !.pc = "snapshot", !.type = "ApprovalGranted"])
      BY <1>1 DEF Blank
    <3>2. QED
      BY <2>3, <3>1, Zenon DEF SubmitKernelEvent
  <2>4. \A pc \in {"plan", "archive"} : Plain([Blank EXCEPT !.pc = pc])
    BY <1>1 DEF Blank
  <2>5. ASSUME CompleteRun(q) PROVE \E r : Becomes(q, r) /\ Plain(r)
    <3>1. PICK run \in activated :
               Becomes(q, [Blank EXCEPT !.pc = "completeRead", !.run = run])
      BY <2>5 DEF CompleteRun
    <3>2. Plain([Blank EXCEPT !.pc = "completeRead", !.run = run])
      BY <1>1 DEF Blank
    <3>3. QED
      BY <3>1, <3>2, Zenon
  <2>6. ASSUME DispatchUserMessage(q) \/ ArchiveSession(q)
        PROVE  \E r : Becomes(q, r) /\ Plain(r)
    <3>1. PICK pc \in {"plan", "archive"} : Becomes(q, [Blank EXCEPT !.pc = pc])
      BY <2>6 DEF DispatchUserMessage, ArchiveSession
    <3>2. QED
      BY <2>4, <3>1, Zenon
  <2>7. QED
    BY <2>1, <2>2, <2>3, <2>5, <2>6 DEF Receive
<1>3. /\ \E kind : Arrive(q, kind)
      /\ UNCHANGED <<log, session, brief, runGoals, restored, crashes>>
  BY DEF Receive, SubmitThinkerEvent, SubmitUserMessage, SubmitKernelEvent,
     DispatchUserMessage, CompleteRun, ArchiveSession, history
<1>4. Alone(q) /\ req[q].pc = "idle"
  BY <1>1, <1>3, ArrivesAlone DEF Arrive, At
<1>5. InFlight = {}
  BY <1>4 DEF Alone, InFlight
<1>6. ASSUME crashes = 0 PROVE Exactly(r)
  BY <1>1, <1>2, <1>5, <1>6, RestingFields DEF ExactInv, Exactly, Ordered, Counted, RowFollows,
     TokenFollows, DraftFits, StampFits, Current, Owing, Settling, TokenOwed, Logged, LoggedPCs
<1>7. QED
  BY <1>1, <1>2, <1>3, <1>4, <1>6, ReadStep

-----------------------------------------------------------------------------
(* What a handler holds when it goes on to another place.                  *)
Carries(r, s) ==
    /\ s.intentVersion = r.intentVersion /\ s.version = r.version
    /\ s.draft = r.draft /\ s.retargeted = r.retargeted /\ s.resumes = r.resumes

LEMMA OperatorsCarry ==
    ASSUME NEW r \in Request
    PROVE  /\ Carries(r, Interrupting(r)) /\ Interrupting(r).pc \in {"activate", "snapshot"}
           /\ Carries(r, Switching(r))
           /\ Switching(r).pc \in {"restoreRead", "activate", "snapshot"}
           /\ Carries(r, AfterReduce(r))
           /\ AfterReduce(r).pc \in {"assign", "statusRead", "statusWrite"}
<1> USE DEF Carries, Request
<1>1. Carries(r, Interrupting(r)) /\ Interrupting(r).pc \in {"activate", "snapshot"}
  BY DEF Interrupting
<1>2. Carries(r, Switching(r)) /\ Switching(r).pc \in {"restoreRead", "activate", "snapshot"}
  BY <1>1 DEF Switching
<1>3. /\ Carries(r, AfterReduce(r))
      /\ AfterReduce(r).pc \in {"assign", "statusRead", "statusWrite"}
  <2>1. CASE r.rest # <<>>
    BY <2>1 DEF AfterReduce
  <2>2. CASE r.rest = <<>>
    BY <2>2 DEF AfterReduce
  <2>3. QED
    BY <2>1, <2>2
<1>4. QED
  BY <1>1, <1>2, <1>3

LEMMA PlanExact ==
    ASSUME ExactInv, NEW q \in Requests, Plan(q)
    PROVE  ExactInv'
<1>0. /\ req[q] \in Request /\ req[q].pc = "plan" /\ Handled(q, req[q])
      /\ session \in Session /\ SerialInv
      /\ UNCHANGED <<log, session, brief, runGoals, restored, crashes>>
  BY DEF ExactInv, SerialInv, IInv, TypeOK, Plan, At, history
<1>1. SerialInv' /\ Alone(q)
  BY <1>0, ElsewhereSerial, WorksAlone DEF Elsewhere
<1>2. req[q].resumes = FALSE
  BY <1>0 DEF Handled, TakesOver, Dispatching, InterruptPCs, ResumePCs, Request
<1>3. PICK r : /\ Becomes(q, r)
               /\ \/ r = Finished
                  \/ /\ r.pc \in {"pause", "restoreRead", "activate", "snapshot"}
                     /\ r.intentVersion = req[q].intentVersion
  <2>1. CASE Becomes(q, Finished)
    BY <2>1, Zenon
  <2>2. CASE ~Becomes(q, Finished)
    <3>1. PICK pauses \in BOOLEAN, resumes \in BOOLEAN :
             LET r == [req[q] EXCEPT !.run = session.activeRun, !.resumes = resumes,
                                     !.seenStatus = session.status]
             IN  Becomes(q, IF pauses THEN [r EXCEPT !.pc = "pause"] ELSE Switching(r))
      BY <2>2 DEF Plan
    <3>2. PICK s : s = [req[q] EXCEPT !.run = session.activeRun, !.resumes = resumes,
                                      !.seenStatus = session.status]
      OBVIOUS
    <3>3. s \in Request /\ s.intentVersion = req[q].intentVersion
      BY <1>0, <3>2 DEF Request, Session
    <3>4. PICK r : r = IF pauses THEN [s EXCEPT !.pc = "pause"] ELSE Switching(s)
      OBVIOUS
    <3>5. Becomes(q, r)
      BY <3>1, <3>2, <3>4
    <3>6. /\ r.pc \in {"pause", "restoreRead", "activate", "snapshot"}
          /\ r.intentVersion = req[q].intentVersion
      BY <3>3, <3>4, OperatorsCarry DEF Carries, Request
    <3>7. QED
      BY <3>5, <3>6
  <2>3. QED
    BY <2>1, <2>2
<1>4. ASSUME crashes = 0 PROVE Exactly(r)
  <2>1. Exactly(req[q])
    BY <1>0, <1>4, ExactNow
  <2>2. CASE r = Finished
    BY <1>0, <1>2, <2>1, <2>2, FinishedExact DEF Owing, Settling, TokenOwed, Logged, LoggedPCs
  <2>3. CASE r # Finished
    BY <1>0, <1>2, <1>3, <2>1, <2>3 DEF Exactly, Ordered, Counted, RowFollows, TokenFollows,
       DraftFits, StampFits, Current, Owing, Settling, TokenOwed, Logged, LoggedPCs
  <2>4. QED
    BY <2>2, <2>3
<1>5. r.pc # "idle"
  BY <1>3, RestingFields
<1>6. QED
  BY <1>0, <1>1, <1>3, <1>4, <1>5, ReadStep

(* The other steps that only read.                                         *)
Reads(q) ==
    \/ RestoreRead(q) \/ TaskRead(q) \/ Validate(q)   \/ AssignMetadata(q) \/ Arbitrate(q)
    \/ Reduce(q)      \/ IntentRead(q) \/ Snapshot(q) \/ StatusRead(q)     \/ CompleteRead(q)

LEMMA ReadsExact ==
    ASSUME ExactInv, crashes = 0, NEW q \in Requests, Reads(q)
    PROVE  \E s : Becomes(q, s) /\ s.pc # "idle" /\ Exactly(s)
<1>0. /\ SerialInv /\ session \in Session /\ brief \in Brief
      /\ req[q].pc \notin {"idle", "done"}
  BY DEF ExactInv, SerialInv, IInv, TypeOK, Reads, At, RestoreRead, TaskRead, Validate,
     AssignMetadata, Arbitrate, Reduce, IntentRead, Snapshot, StatusRead, CompleteRead
<1>1. PICK r \in Request : r = req[q]
  BY <1>0 DEF SerialInv, IInv, TypeOK
<1>2. Exactly(r) /\ Handled(q, r)
  BY <1>0, <1>1, ExactNow DEF SerialInv
<1> DEFINE Goal == \E s : Becomes(q, s) /\ s.pc # "idle" /\ Exactly(s)
           Answers == /\ ~Owing(r) /\ ~Settling(r) /\ ~TokenOwed(r)
                      /\ r.pc \notin {"intentRead", "intentStatus"}
<1>3. ASSUME Becomes(q, Finished), Answers PROVE Goal
  <2>1. Exactly(Finished) /\ Finished.pc # "idle"
    BY <1>2, <1>3, FinishedExact, RestingFields
  <2>2. QED
    BY <1>3, <2>1, Zenon
<1>4. CASE TaskRead(q) \/ IntentRead(q) \/ Snapshot(q) \/ StatusRead(q)
  <2>1. PICK pc \in {"taskStatus", "intentStatus", "assign", "statusWrite"} :
           /\ Becomes(q, [r EXCEPT !.pc = pc, !.seenStatus = session.status])
           /\ \/ r.pc = "taskRead" /\ pc = "taskStatus"
              \/ r.pc = "intentRead" /\ pc = "intentStatus"
              \/ r.pc = "snapshot" /\ pc = "assign"
              \/ r.pc = "statusRead" /\ pc = "statusWrite"
    BY <1>1, <1>4, Zenon DEF TaskRead, IntentRead, Snapshot, StatusRead, At
  <2>2. PICK s : s = [r EXCEPT !.pc = pc, !.seenStatus = session.status]
    OBVIOUS
  <2>3. s.pc = pc /\ s.type = r.type /\ Carries(r, s)
    BY <2>2 DEF Carries, Request
  <2>4. Exactly(s)
    BY <1>2, <2>1, <2>3 DEF Carries, Exactly, Ordered, Counted, RowFollows, TokenFollows,
       DraftFits, StampFits, Current, Owing, Settling, TokenOwed, Logged, LoggedPCs
  <2>5. Becomes(q, s) /\ s.pc # "idle"
    BY <2>1, <2>2, <2>3
  <2>6. QED
    BY <2>4, <2>5
<1>5. CASE Validate(q)
  <2>1. r.pc = "validate" /\ r.resumes = FALSE
    BY <1>1, <1>2, <1>5 DEF Validate, At, Handled, TakesOver, Dispatching, InterruptPCs,
       ResumePCs, Request
  <2>2. CASE Valid(r)
    <3>1. PICK s : s = [r EXCEPT !.pc = "assign"]
      OBVIOUS
    <3>2. s.pc = "assign" /\ s.type = r.type /\ Carries(r, s)
      BY <3>1 DEF Carries, Request
    <3>3. r.intentVersion = 0 \/ r.intentVersion >= brief.version
      BY <1>0, <1>2, <2>1, <2>2 DEF Valid, Exactly, StampFits, Request, Brief
    <3>4. Exactly(s)
      BY <1>2, <2>1, <3>2, <3>3 DEF Carries, Exactly, Ordered, Counted, RowFollows,
         TokenFollows, DraftFits, StampFits, Current, Owing, Settling, TokenOwed, Logged,
         LoggedPCs
    <3>5. Becomes(q, s) /\ s.pc # "idle"
      BY <1>1, <1>5, <2>2, <3>1, <3>2 DEF Validate
    <3>6. QED
      BY <3>4, <3>5
  <2>3. CASE ~Valid(r)
    <3>1. Becomes(q, Finished)
      BY <1>1, <1>5, <2>3 DEF Validate
    <3>2. Answers
      BY <2>1 DEF Owing, Settling, TokenOwed, Logged, LoggedPCs
    <3>3. QED
      BY <1>3, <3>1, <3>2
  <2>4. QED
    BY <2>2, <2>3
<1>6. CASE CompleteRead(q)
  <2>1. r.pc = "completeRead" /\ r.resumes = FALSE
    BY <1>1, <1>2, <1>6 DEF CompleteRead, At, Handled, TakesOver, Dispatching, InterruptPCs,
       ResumePCs, Request
  <2>2. CASE session.activeRun = r.run
    <3>1. PICK s : s = [r EXCEPT !.pc = "completeWrite"]
      OBVIOUS
    <3>2. s.pc = "completeWrite" /\ s.type = r.type /\ Carries(r, s)
      BY <3>1 DEF Carries, Request
    <3>3. Exactly(s)
      BY <1>2, <2>1, <3>2 DEF Carries, Exactly, Ordered, Counted, RowFollows, TokenFollows,
         DraftFits, StampFits, Current, Owing, Settling, TokenOwed, Logged, LoggedPCs
    <3>4. Becomes(q, s) /\ s.pc # "idle"
      BY <1>1, <1>6, <2>2, <3>1, <3>2 DEF CompleteRead
    <3>5. QED
      BY <3>3, <3>4
  <2>3. CASE session.activeRun # r.run
    <3>1. Becomes(q, Finished)
      BY <1>1, <1>6, <2>3 DEF CompleteRead
    <3>2. Answers
      BY <2>1 DEF Owing, Settling, TokenOwed, Logged, LoggedPCs
    <3>3. QED
      BY <1>3, <3>1, <3>2
  <2>4. QED
    BY <2>2, <2>3
<1>7. CASE RestoreRead(q)
  <2>1. PICK goal \in GoalIds :
           Becomes(q, [r EXCEPT !.pc = "restoreBrief",
                                !.draft = [version |-> brief.version + 1, goal |-> goal]])
    BY <1>1, <1>7 DEF RestoreRead
  <2>2. PICK s : s = [r EXCEPT !.pc = "restoreBrief",
                               !.draft = [version |-> brief.version + 1, goal |-> goal]]
    OBVIOUS
  <2>3. /\ s.pc = "restoreBrief" /\ s.draft.version = brief.version + 1
        /\ s.intentVersion = r.intentVersion /\ s.resumes = r.resumes
    BY <2>2 DEF Request
  <2>4. r.pc = "restoreRead"
    BY <1>1, <1>7 DEF RestoreRead, At
  <2>5. Exactly(s)
    BY <1>2, <2>3, <2>4 DEF Exactly, Ordered, Counted, RowFollows, TokenFollows, DraftFits,
       StampFits, Current, Owing, Settling, TokenOwed, Logged, LoggedPCs
  <2>6. Becomes(q, s) /\ s.pc # "idle"
    BY <2>1, <2>2, <2>3
  <2>7. QED
    BY <2>5, <2>6
<1>8. CASE Arbitrate(q)
  <2>0. r.pc = "arbitrate" /\ r.type = "BeliefProposed" /\ r.resumes = FALSE
    BY <1>1, <1>2, <1>8 DEF Arbitrate, At, Handled, Authored, TakesOver, Dispatching,
       InterruptPCs, ResumePCs, Request
  <2>1. PICK s : /\ Becomes(q, s) /\ Carries(r, s)
                 /\ \/ s.pc = "statusRead" /\ s.type = r.type
                    \/ s.pc = "assign" /\ s.type = "BeliefUpdated"
    <3>1. CASE Becomes(q, [r EXCEPT !.pc = "statusRead"])
      <4>1. PICK s : s = [r EXCEPT !.pc = "statusRead"]
        OBVIOUS
      <4>2. Carries(r, s) /\ s.pc = "statusRead" /\ s.type = r.type
        BY <4>1 DEF Carries, Request
      <4>3. QED
        BY <3>1, <4>1, <4>2
    <3>2. CASE ~Becomes(q, [r EXCEPT !.pc = "statusRead"])
      <4>1. PICK rest \in {<<>>, <<"ConflictDetected">>} :
               Becomes(q, [r EXCEPT !.pc = "assign", !.type = "BeliefUpdated",
                                    !.actor = "kernel_manager", !.run = NoRun, !.rest = rest])
        BY <1>1, <1>8, <3>2 DEF Arbitrate
      <4>2. PICK s : s = [r EXCEPT !.pc = "assign", !.type = "BeliefUpdated",
                                   !.actor = "kernel_manager", !.run = NoRun, !.rest = rest]
        OBVIOUS
      <4>3. Carries(r, s) /\ s.pc = "assign" /\ s.type = "BeliefUpdated"
        BY <4>2 DEF Carries, Request
      <4>4. QED
        BY <4>1, <4>2, <4>3
    <3>3. QED
      BY <3>1, <3>2
  <2>2. Exactly(s) /\ s.pc # "idle"
    BY <1>2, <2>0, <2>1 DEF Carries, Exactly, Ordered, Counted, RowFollows, TokenFollows,
       DraftFits, StampFits, Current, Owing, Settling, TokenOwed, Logged, LoggedPCs
  <2>3. QED
    BY <2>1, <2>2
<1>9. CASE Reduce(q)
  <2> DEFINE draft == ReduceIntent(brief, r.type, r.goal)
  <2>1. r.pc = "reduce" /\ Becomes(q, [r EXCEPT !.pc = "saveBrief", !.draft = draft,
                                       !.retargeted = /\ brief.goal # NoGoal
                                                      /\ draft.goal # brief.goal])
    BY <1>1, <1>9 DEF Reduce, At
  <2>2. PICK s : s = [r EXCEPT !.pc = "saveBrief", !.draft = draft,
                               !.retargeted = /\ brief.goal # NoGoal
                                              /\ draft.goal # brief.goal]
    OBVIOUS
  <2>3. /\ s.pc = "saveBrief" /\ s.draft = draft /\ s.type = r.type
        /\ s.retargeted = (brief.goal # NoGoal /\ draft.goal # brief.goal)
        /\ s.intentVersion = r.intentVersion /\ s.version = r.version
        /\ s.resumes = r.resumes
    BY <2>2 DEF Request
  <2>4. IF r.type = "IntentUpdated"
        THEN draft.version = brief.version + 1 /\ (brief.goal # NoGoal => draft.goal # NoGoal)
        ELSE draft = brief
    BY DEF ReduceIntent
  <2> HIDE DEF draft
  <2>5. DraftFits(s)
    BY <2>3, <2>4 DEF DraftFits
  <2>6. Exactly(s)
    BY <1>2, <2>1, <2>3, <2>5 DEF Exactly, Ordered, Counted, RowFollows, TokenFollows,
       StampFits, Current, Owing, Settling, TokenOwed, Logged, LoggedPCs
  <2>7. Becomes(q, s) /\ s.pc # "idle"
    BY <2>1, <2>2, <2>3
  <2>8. QED
    BY <2>6, <2>7
<1>10. CASE AssignMetadata(q)
  <2>1. r.pc = "assign" /\ Becomes(q, [Stamped(r) EXCEPT !.pc = "append"])
    BY <1>1, <1>10 DEF AssignMetadata, At
  <2>2. PICK s : s = [Stamped(r) EXCEPT !.pc = "append"]
    OBVIOUS
  <2>3. /\ s.pc = "append" /\ s.type = r.type /\ s.version = LatestVersion + 1
        /\ s.intentVersion = StampedIntentVersion(r) /\ s.resumes = r.resumes
    BY <2>2 DEF Stamped, Request
  <2>4. LatestVersion = Len(log)
    <3>1. log \in Seq(LogEntry) /\ \A i \in DOMAIN log : log[i].version = i
      BY <1>0, <1>2 DEF SerialInv, IInv, TypeOK, Exactly, Ordered
    <3>2. Versions = 1..Len(log) /\ Len(log) \in Nat
      BY <3>1 DEF Versions
    <3>3. 1 \in Versions
      BY <1>0, LatestInVersions DEF SerialInv
    <3>4. Len(log) \in Nat \ {0}
      BY <3>2, <3>3
    <3>5. QED
      BY <3>2, <3>4, LatestOfInterval
  <2>5. CurrentIntentVersion = brief.version
    BY <1>2, <2>1 DEF CurrentIntentVersion, Exactly, RowFollows
  <2>6. IF r.type = "IntentUpdated" THEN s.intentVersion = brief.version + 1
        ELSE s.intentVersion >= brief.version
    BY <1>0, <1>2, <2>1, <2>3, <2>5 DEF StampedIntentVersion, Exactly, StampFits, Brief
  <2>7. Exactly(s)
    BY <1>2, <2>1, <2>3, <2>4, <2>6 DEF Exactly, Ordered, Counted, RowFollows, TokenFollows,
       DraftFits, StampFits, Current, Owing, Settling, TokenOwed, Logged, LoggedPCs
  <2>8. Becomes(q, s) /\ s.pc # "idle"
    BY <2>1, <2>2, <2>3
  <2>9. QED
    BY <2>7, <2>8
<1>11. QED
  BY <1>4, <1>5, <1>6, <1>7, <1>8, <1>9, <1>10 DEF Reads

LEMMA ReadsStep ==
    ASSUME ExactInv, NEW q \in Requests, Reads(q)
    PROVE  ExactInv'
<1>0. /\ SerialInv /\ req[q].pc \notin {"idle", "done"}
      /\ UNCHANGED <<log, session, brief, runGoals, restored, crashes>>
  BY DEF ExactInv, Reads, At, RestoreRead, TaskRead, Validate, AssignMetadata, Arbitrate,
     Reduce, IntentRead, Snapshot, StatusRead, CompleteRead, history
<1>1. SerialInv' /\ Alone(q)
  BY <1>0, ElsewhereSerial, WorksAlone DEF Reads, Elsewhere
<1>2. CASE crashes = 0
  <2>1. PICK s : Becomes(q, s) /\ s.pc # "idle" /\ Exactly(s)
    BY <1>2, ReadsExact
  <2>2. QED
    BY <1>0, <1>1, <2>1, ReadStep
<1>3. CASE crashes # 0
  BY <1>0, <1>1, <1>3 DEF ExactInv
<1>4. QED
  BY <1>2, <1>3

-----------------------------------------------------------------------------
(* The steps that write a row.                                             *)
Writes(q) ==
    \/ Pause(q)        \/ RestoreBrief(q) \/ TaskStatus(q)  \/ SaveBrief(q)
    \/ CancelStatus(q) \/ RaiseToken(q)   \/ IntentStatus(q) \/ StatusWrite(q)
    \/ CompleteWrite(q) \/ Archive(q)     \/ Activate(q)

LEMMA WritesSerial ==
    ASSUME SerialInv, NEW q \in Requests, Writes(q)
    PROVE  /\ SerialInv' /\ Alone(q) /\ log' = log /\ crashes' = crashes
           /\ req[q].pc \notin {"idle", "done"}
<1>1. req[q].pc \notin {"idle", "done"} /\ log' = log /\ crashes' = crashes
  BY DEF Writes, At, Pause, RestoreBrief, TaskStatus, SaveBrief, CancelStatus, RaiseToken,
     IntentStatus, StatusWrite, CompleteWrite, Archive, Activate, history
<1>2. SerialInv'
  BY ElsewhereSerial, ClosingSerial, ActivateSerial DEF Writes, Elsewhere
<1>3. QED
  BY <1>1, <1>2, WorksAlone

(* It is enough to show what the handler holds after the write.            *)
LEMMA WriteStep ==
    ASSUME ExactInv, NEW q \in Requests, Writes(q), NEW r, Becomes(q, r), r.pc # "idle",
           crashes = 0 => /\ Current(r)' - restored' = Current(req[q]) - restored
                          /\ restored' \in {restored, restored + 1}
                          /\ RowFollows(r)' /\ TokenFollows(r)' /\ DraftFits(r)' /\ StampFits(r)'
    PROVE  ExactInv'
<1>1. SerialInv' /\ Alone(q) /\ log' = log /\ crashes' = crashes
  BY WritesSerial DEF ExactInv
<1>2. ASSUME crashes = 0 PROVE Exactly(r)'
  <2>1. /\ Exactly(req[q]) /\ log \in Seq(LogEntry)
        /\ brief.version \in Nat /\ brief'.version \in Nat /\ restored \in Nat
    BY <1>1, <1>2, ExactNow, WritesSerial DEF ExactInv, SerialInv, IInv, TypeOK, Brief
  <2>2. IntentsLogged' = IntentsLogged
    BY <1>1 DEF IntentsLogged
  <2>3. Current(req[q]) \in Nat /\ Current(r)' \in Nat
    BY <2>1 DEF Current, Owing
  <2>4. Current(r)' >= Current(req[q]) /\ Current(r)' = Cardinality(IntentsLogged) + restored'
    <3>1. IsFiniteSet(1..Len(log)) /\ IntentsLogged \subseteq 1..Len(log)
      <4>1. Len(log) \in Nat /\ DOMAIN log = 1..Len(log)
        BY <2>1
      <4>2. QED
        BY <4>1, FS_Interval DEF IntentsLogged
    <3>2. Cardinality(IntentsLogged) \in Nat
      BY <3>1, FS_Subset, FS_CardinalityType
    <3>3. Current(req[q]) = Cardinality(IntentsLogged) + restored
      BY <2>1 DEF Exactly, Counted
    <3>4. /\ Current(r)' - restored' = Current(req[q]) - restored
          /\ restored' \in {restored, restored + 1}
      BY <1>2
    <3>5. QED
      BY <2>1, <2>3, <3>2, <3>3, <3>4
  <2>5. \A i \in DOMAIN log : log[i].intentVersion \in Nat
    <3>1. \A i \in DOMAIN log : log[i] \in LogEntry
      BY <2>1
    <3>2. QED
      BY <3>1 DEF LogEntry
  <2>6. Ordered(r)'
    <3>1. \A i \in IntentsLogged : log[i].intentVersion <= Current(r)'
      <4>1. \A i \in IntentsLogged : i \in DOMAIN log /\ log[i].intentVersion <= Current(req[q])
        BY <2>1 DEF Exactly, Ordered, IntentsLogged
      <4>2. QED
        BY <2>3, <2>4, <2>5, <4>1
    <3>2. /\ \A i \in DOMAIN log : log[i].version = i
          /\ \A i \in IntentsLogged, j \in DOMAIN log :
                i < j => log[i].intentVersion <= log[j].intentVersion
      BY <2>1 DEF Exactly, Ordered
    <3>3. QED
      BY <1>1, <2>2, <3>1, <3>2 DEF Ordered
  <2>7. Counted(r)'
    BY <2>2, <2>4 DEF Counted
  <2>8. QED
    BY <1>2, <2>6, <2>7 DEF Exactly
<1>3. QED
  BY <1>1, <1>2, ExactStep DEF ExactInv

(* Writes that close the session, point it at its task, or pause it.       *)
LEMMA StatusExact ==
    ASSUME ExactInv, NEW q \in Requests,
           Pause(q) \/ TaskStatus(q) \/ Archive(q) \/ CompleteWrite(q) \/ CancelStatus(q)
    PROVE  ExactInv'
<1>0. /\ SerialInv /\ req[q] \in Request /\ Handled(q, req[q]) /\ session \in Session
      /\ Writes(q) /\ req[q].pc \notin {"idle", "done"}
      /\ req[q].pc \in {"pause", "taskStatus", "archive", "completeWrite", "cancelStatus"}
      /\ UNCHANGED <<log, brief, runGoals, restored, crashes>>
  BY DEF ExactInv, SerialInv, IInv, TypeOK, Writes, Pause, TaskStatus, Archive, CompleteWrite,
     CancelStatus, At, history
<1>1. /\ session'.stateVersion = session.stateVersion
      /\ session'.intentVersion = session.intentVersion
      /\ \/ session'.activeRun = NoRun
         \/ session'.activeRun = session.activeRun /\ session'.token = session.token
  BY <1>0 DEF Pause, TaskStatus, Archive, CompleteWrite, CancelStatus, Session
<1>2. PICK r : /\ Becomes(q, r)
               /\ \/ r = Finished /\ req[q].pc \in {"taskStatus", "archive", "completeWrite"}
                  \/ /\ r.pc \in {"restoreRead", "activate", "snapshot"}
                     /\ req[q].pc = "pause" /\ Carries(req[q], r)
                  \/ /\ r.pc = "raiseToken" /\ req[q].pc = "cancelStatus"
                     /\ r.type = req[q].type /\ Carries(req[q], r)
  <2>1. CASE TaskStatus(q) \/ Archive(q) \/ CompleteWrite(q)
    <3>1. Becomes(q, Finished) /\ req[q].pc \in {"taskStatus", "archive", "completeWrite"}
      BY <2>1 DEF TaskStatus, Archive, CompleteWrite, At
    <3>2. QED
      BY <3>1, Zenon
  <2>2. CASE Pause(q)
    <3>1. /\ Becomes(q, Switching(req[q])) /\ req[q].pc = "pause"
          /\ Carries(req[q], Switching(req[q]))
          /\ Switching(req[q]).pc \in {"restoreRead", "activate", "snapshot"}
      BY <1>0, <2>2, OperatorsCarry DEF Pause, At
    <3>2. QED
      BY <3>1, Zenon
  <2>3. CASE CancelStatus(q)
    <3>1. PICK r : r = [req[q] EXCEPT !.pc = "raiseToken"]
      OBVIOUS
    <3>2. r.pc = "raiseToken" /\ r.type = req[q].type /\ Carries(req[q], r)
      BY <1>0, <3>1 DEF Carries, Request
    <3>3. Becomes(q, r) /\ req[q].pc = "cancelStatus"
      BY <2>3, <3>1 DEF CancelStatus, At
    <3>4. QED
      BY <3>2, <3>3
  <2>4. QED
    BY <1>0, <2>1, <2>2, <2>3
<1>3. r.pc # "idle"
  BY <1>2, RestingFields
<1>4. req[q].pc # "pause" => req[q].resumes = FALSE
  BY <1>0 DEF Handled, TakesOver, Dispatching, InterruptPCs, ResumePCs, Request
<1>5. ASSUME crashes = 0
      PROVE  /\ Current(r)' - restored' = Current(req[q]) - restored
             /\ RowFollows(r)' /\ TokenFollows(r)' /\ DraftFits(r)' /\ StampFits(r)'
  <2>1. Exactly(req[q])
    BY <1>0, <1>5, ExactNow
  <2>2. CASE r = Finished
    BY <1>0, <1>1, <1>2, <1>4, <2>1, <2>2, RestingFields DEF Exactly, RowFollows, TokenFollows, Retargeted,
       DraftFits, StampFits, Current, Owing, Settling, TokenOwed, Logged, LoggedPCs
  <2>3. CASE r # Finished
    BY <1>0, <1>1, <1>2, <1>4, <2>1, <2>3 DEF Carries, Exactly, RowFollows, TokenFollows, Retargeted,
       DraftFits, StampFits, Current, Owing, Settling, TokenOwed, Logged, LoggedPCs
  <2>4. QED
    BY <2>2, <2>3
<1>6. QED
  BY <1>0, <1>2, <1>3, <1>5, WriteStep

(* A resumed task's brief, or the one the reducer made, replaces the brief.*)
LEMMA BriefExact ==
    ASSUME ExactInv, NEW q \in Requests, RestoreBrief(q) \/ SaveBrief(q)
    PROVE  ExactInv'
<1>0. /\ SerialInv /\ req[q] \in Request /\ Handled(q, req[q]) /\ brief \in Brief
      /\ restored \in Nat
      /\ Writes(q) /\ req[q].pc \in {"restoreBrief", "saveBrief"}
      /\ UNCHANGED <<log, session, crashes>> /\ brief' = req[q].draft
  BY DEF ExactInv, SerialInv, IInv, TypeOK, Writes, RestoreBrief, SaveBrief, At, history
<1>1. CASE RestoreBrief(q)
  <2>1. PICK r : r = [req[q] EXCEPT !.pc = "intentRead"]
    OBVIOUS
  <2>2. r.pc = "intentRead" /\ r.type = req[q].type /\ Carries(req[q], r)
    BY <1>0, <2>1 DEF Carries, Request
  <2>3. /\ Becomes(q, r) /\ req[q].pc = "restoreBrief" /\ req[q].resumes
        /\ restored' = restored + 1
    BY <1>0, <1>1, <2>1 DEF RestoreBrief, At, Handled, Authored
  <2>4. ASSUME crashes = 0
        PROVE  /\ Current(r)' - restored' = Current(req[q]) - restored
               /\ RowFollows(r)' /\ TokenFollows(r)' /\ DraftFits(r)' /\ StampFits(r)'
    <3>1. Exactly(req[q])
      BY <1>0, <2>4, ExactNow
    <3>2. brief'.version = brief.version + 1 /\ brief.version \in Nat
      BY <1>0, <2>3, <3>1 DEF Exactly, DraftFits, Brief
    <3>3. Current(r)' - restored' = Current(req[q]) - restored
      BY <1>0, <2>2, <2>3, <3>2 DEF Current, Owing
    <3>4. QED
      BY <1>0, <2>2, <2>3, <3>1, <3>2, <3>3 DEF Carries, Exactly, RowFollows, TokenFollows,
         DraftFits, StampFits, Settling, TokenOwed, Logged, LoggedPCs
  <2>5. QED
    BY <1>0, <2>2, <2>3, <2>4, WriteStep
<1>2. CASE SaveBrief(q)
  <2>0. req[q].pc = "saveBrief" /\ restored' = restored
    BY <1>2 DEF SaveBrief, At
  <2>1. PICK r : /\ Becomes(q, r) /\ Carries(req[q], r)
                 /\ \/ /\ r.pc = "cancelStatus" /\ r.type = "SessionCancelled"
                       /\ req[q].type = "SessionCancelled"
                    \/ /\ r.pc = "intentRead" /\ r.type = "IntentUpdated"
                       /\ req[q].type = "IntentUpdated"
                    \/ /\ r.pc \in {"statusRead", "statusWrite"} \/ r.pc = "assign"
                       /\ req[q].type # "IntentUpdated"
    <3>1. CASE req[q].type \in {"SessionCancelled", "IntentUpdated"}
      <4>1. PICK r : r = AfterSave(req[q])
        OBVIOUS
      <4>2. /\ Carries(req[q], r) /\ r.type = req[q].type
            /\ r.pc = IF req[q].type = "IntentUpdated" THEN "intentRead" ELSE "cancelStatus"
        BY <1>0, <3>1, <4>1 DEF AfterSave, Carries, Request
      <4>3. Becomes(q, r)
        BY <1>2, <4>1 DEF SaveBrief
      <4>4. QED
        BY <3>1, <4>2, <4>3
    <3>2. CASE req[q].type \notin {"SessionCancelled", "IntentUpdated"}
      <4>1. /\ Becomes(q, AfterReduce(req[q])) /\ Carries(req[q], AfterReduce(req[q]))
            /\ AfterReduce(req[q]).pc \in {"assign", "statusRead", "statusWrite"}
        BY <1>0, <1>2, <3>2, OperatorsCarry DEF SaveBrief, AfterSave
      <4>2. QED
        BY <3>2, <4>1, Zenon
    <3>3. QED
      BY <3>1, <3>2
  <2>2. req[q].resumes => req[q].type = "RunInterrupted"
    BY <1>0, <2>0 DEF Handled, TakesOver, Dispatching, InterruptPCs
  <2>3. ASSUME crashes = 0
        PROVE  /\ Current(r)' - restored' = Current(req[q]) - restored
               /\ RowFollows(r)' /\ TokenFollows(r)' /\ DraftFits(r)' /\ StampFits(r)'
    <3>1. Exactly(req[q])
      BY <1>0, <2>3, ExactNow
    <3>2. /\ brief.version \in Nat
          /\ IF req[q].type = "IntentUpdated" THEN brief'.version = brief.version + 1
             ELSE brief' = brief
      BY <1>0, <2>0, <3>1 DEF Exactly, DraftFits, Brief
    <3>3. Current(r)' - restored' = Current(req[q]) - restored
      BY <1>0, <2>0, <2>1, <3>2 DEF Current, Owing
    <3>4. RowFollows(r)' /\ DraftFits(r)' /\ StampFits(r)'
      BY <1>0, <2>0, <2>1, <2>2, <3>1, <3>2 DEF Carries, Exactly, RowFollows, DraftFits,
         StampFits, Settling, Logged, LoggedPCs
    <3>5. TokenFollows(r)'
      <4>1. CASE q = session.activeRun
        <5>1. runGoals' = {brief'.goal}
          BY <1>0, <1>2, <4>1 DEF SaveBrief
        <5>2. QED
          BY <5>1 DEF TokenFollows, Retargeted
      <4>2. CASE q # session.activeRun
        <5>1. runGoals' = {brief'.goal} \union runGoals
          BY <1>0, <1>2, <4>2 DEF SaveBrief
        <5>2. CASE req[q].type # "IntentUpdated"
          BY <1>0, <2>0, <2>1, <3>1, <3>2, <5>1, <5>2 DEF Carries, Exactly, TokenFollows,
             TokenOwed, Retargeted
        <5>3. CASE req[q].type = "IntentUpdated"
          <6>1. /\ r.pc = "intentRead" /\ r.retargeted = req[q].retargeted
                /\ r.resumes = FALSE /\ req[q].resumes = FALSE
            BY <1>0, <2>1, <2>2, <5>3 DEF Carries, Request
          <6>2. brief.goal # NoGoal =>
                   brief'.goal # NoGoal /\ (brief'.goal # brief.goal => r.retargeted)
            BY <1>0, <2>0, <3>1, <5>3, <6>1 DEF Exactly, DraftFits
          <6>3. QED
            BY <1>0, <2>0, <3>1, <5>1, <6>1, <6>2 DEF Exactly, TokenFollows, TokenOwed, Retargeted
        <5>4. QED
          BY <5>2, <5>3
      <4>3. QED
        BY <4>1, <4>2
    <3>6. QED
      BY <3>3, <3>4, <3>5
  <2>4. QED
    BY <1>0, <2>0, <2>1, <2>3, WriteStep
<1>3. QED
  BY <1>0, <1>1, <1>2

(* The write-backs that settle what an event did.                          *)
LEMMA SettleExact ==
    ASSUME ExactInv, NEW q \in Requests, RaiseToken(q) \/ IntentStatus(q) \/ StatusWrite(q)
    PROVE  ExactInv'
<1>0. /\ SerialInv /\ req[q] \in Request /\ Handled(q, req[q]) /\ session \in Session
      /\ Writes(q) /\ req[q].pc \in {"raiseToken", "intentStatus", "statusWrite"}
      /\ UNCHANGED <<log, brief, runGoals, restored, crashes>>
  BY DEF ExactInv, SerialInv, IInv, TypeOK, Writes, RaiseToken, IntentStatus, StatusWrite, At,
     history
<1>1. ASSUME NEW r, Handled(q, r), r.rest = <<>>, r \in Request
      PROVE  AfterReduce(r).pc # "assign"
  BY <1>1 DEF AfterReduce, Request
<1>2. CASE RaiseToken(q)
  <2>1. PICK r : r = AfterReduce(req[q])
    OBVIOUS
  <2>2. req[q].pc = "raiseToken" /\ req[q].rest = <<>>
    BY <1>0, <1>2 DEF RaiseToken, At, Handled, Authored
  <2>3. r.pc \in {"statusRead", "statusWrite"} /\ Carries(req[q], r) /\ Becomes(q, r)
    BY <1>0, <1>1, <1>2, <2>1, <2>2, OperatorsCarry DEF RaiseToken
  <2>4. /\ session'.token = TRUE /\ session'.activeRun = session.activeRun
        /\ session'.stateVersion = session.stateVersion
        /\ session'.intentVersion = session.intentVersion
    BY <1>0, <1>2 DEF RaiseToken, Session
  <2>5. ASSUME crashes = 0
        PROVE  /\ Current(r)' - restored' = Current(req[q]) - restored
               /\ RowFollows(r)' /\ TokenFollows(r)' /\ DraftFits(r)' /\ StampFits(r)'
    <3>1. Exactly(req[q])
      BY <1>0, <2>5, ExactNow
    <3>2. QED
      BY <1>0, <2>2, <2>3, <2>4, <3>1 DEF Carries, Exactly, RowFollows, TokenFollows,
         DraftFits, StampFits, Current, Owing, Settling, TokenOwed, Logged, LoggedPCs
  <2>6. QED
    BY <1>0, <2>3, <2>5, WriteStep
<1>3. CASE IntentStatus(q)
  <2>1. PICK r : r = AfterIntent(req[q])
    OBVIOUS
  <2>2. req[q].pc = "intentStatus" /\ req[q].rest = <<>>
    BY <1>0, <1>3 DEF IntentStatus, At, Handled, Authored
  <2>3. /\ Carries(req[q], r) /\ Becomes(q, r)
        /\ \/ req[q].resumes /\ r.pc \in {"activate", "snapshot"}
           \/ req[q].resumes = FALSE /\ req[q].retargeted /\ r.pc = "raiseToken"
           \/ /\ req[q].resumes = FALSE /\ req[q].retargeted = FALSE
              /\ r.pc \in {"statusRead", "statusWrite"}
    <3>1. Becomes(q, r)
      BY <1>3, <2>1 DEF IntentStatus
    <3>2. req[q].resumes \in BOOLEAN /\ req[q].retargeted \in BOOLEAN
      BY <1>0 DEF Request
    <3>3. CASE req[q].resumes
      BY <1>0, <2>1, <3>1, <3>3, OperatorsCarry DEF AfterIntent
    <3>4. CASE req[q].resumes = FALSE /\ req[q].retargeted
      BY <1>0, <2>1, <3>1, <3>4 DEF AfterIntent, Carries, Request
    <3>5. CASE req[q].resumes = FALSE /\ req[q].retargeted = FALSE
      BY <1>0, <1>1, <2>1, <2>2, <3>1, <3>5, OperatorsCarry DEF AfterIntent
    <3>6. QED
      BY <3>2, <3>3, <3>4, <3>5
  <2>4. /\ session'.token = session.token /\ session'.activeRun = session.activeRun
        /\ session'.stateVersion = session.stateVersion
        /\ session'.intentVersion = req[q].draft.version
    BY <1>0, <1>3 DEF IntentStatus, Session, Request, Brief
  <2>5. ASSUME crashes = 0
        PROVE  /\ Current(r)' - restored' = Current(req[q]) - restored
               /\ RowFollows(r)' /\ TokenFollows(r)' /\ DraftFits(r)' /\ StampFits(r)'
    <3>1. Exactly(req[q])
      BY <1>0, <2>5, ExactNow
    <3>2. QED
      BY <1>0, <2>2, <2>3, <2>4, <3>1 DEF Carries, Exactly, RowFollows, TokenFollows, Retargeted,
         DraftFits, StampFits, Current, Owing, Settling, TokenOwed, Logged, LoggedPCs
  <2>6. QED
    BY <1>0, <2>3, <2>5, WriteStep
<1>4. CASE StatusWrite(q)
  <2>1. PICK r : r = AfterWrite(req[q])
    OBVIOUS
  <2>2. req[q].pc = "statusWrite" /\ Becomes(q, r)
    BY <1>4, <2>1 DEF StatusWrite, At
  <2>3. \/ r = Finished /\ req[q].resumes = FALSE
        \/ r.pc \in {"activate", "taskRead"} /\ Carries(req[q], r)
    <3>1. CASE req[q].next = "done"
      BY <1>0, <2>1, <2>2, <3>1 DEF AfterWrite, Handled, TakesOver, Dispatching, InterruptPCs,
         Request
    <3>2. CASE req[q].next # "done"
      BY <1>0, <2>1, <3>2 DEF AfterWrite, Carries, Request, Continuations
    <3>3. QED
      BY <3>1, <3>2
  <2>4. /\ session'.token = session.token /\ session'.activeRun = session.activeRun
        /\ session'.stateVersion = req[q].version
        /\ session'.intentVersion = session.intentVersion
    BY <1>0, <1>4 DEF StatusWrite, Session
  <2>5. ASSUME crashes = 0
        PROVE  /\ Current(r)' - restored' = Current(req[q]) - restored
               /\ RowFollows(r)' /\ TokenFollows(r)' /\ DraftFits(r)' /\ StampFits(r)'
    <3>1. Exactly(req[q])
      BY <1>0, <2>5, ExactNow
    <3>2. CASE r = Finished
      BY <1>0, <2>2, <2>3, <2>4, <3>1, <3>2, RestingFields DEF Exactly, RowFollows,
         TokenFollows, Retargeted, DraftFits, StampFits, Current, Owing, Settling, TokenOwed, Logged,
         LoggedPCs
    <3>3. CASE r # Finished
      BY <1>0, <2>2, <2>3, <2>4, <3>1, <3>3 DEF Carries, Exactly, RowFollows,
         TokenFollows, Retargeted, DraftFits, StampFits, Current, Owing, Settling, TokenOwed, Logged,
         LoggedPCs
    <3>4. QED
      BY <3>2, <3>3
  <2>6. QED
    BY <1>0, <2>2, <2>3, <2>5, WriteStep, RestingFields
<1>5. QED
  BY <1>2, <1>3, <1>4

(* The run that takes over starts with the goal of the brief.              *)
LEMMA ActivateExact ==
    ASSUME ExactInv, NEW q \in Requests, Activate(q)
    PROVE  ExactInv'
<1>0. /\ SerialInv /\ req[q] \in Request /\ session \in Session /\ brief.version \in Nat
      /\ Writes(q) /\ req[q].pc = "activate"
      /\ UNCHANGED <<log, brief, restored, crashes>> /\ runGoals' = {brief.goal}
  BY DEF ExactInv, SerialInv, IInv, TypeOK, Writes, Activate, At, Brief
<1>1. PICK r : Becomes(q, r) /\ \/ r = Finished
                                \/ /\ r.pc = "validate" /\ r.intentVersion = 0
                                   /\ r.resumes = FALSE
  <2>1. CASE req[q].resumes
    <3>1. Becomes(q, Finished)
      BY <2>1 DEF Activate
    <3>2. QED
      BY <3>1, Zenon
  <2>2. CASE ~req[q].resumes
    <3>1. PICK goal \in GoalIds, next \in {"done", "taskRead"} :
             Becomes(q, [Blank EXCEPT !.pc = "validate", !.goal = goal,
                                      !.type = "IntentUpdated", !.actor = "talker",
                                      !.next = next])
      BY <2>2 DEF Activate
    <3>2. PICK r : r = [Blank EXCEPT !.pc = "validate", !.goal = goal,
                                     !.type = "IntentUpdated", !.actor = "talker",
                                     !.next = next]
      OBVIOUS
    <3>3. r.pc = "validate" /\ r.intentVersion = 0 /\ r.resumes = FALSE
      BY <3>2 DEF Blank
    <3>4. Becomes(q, r)
      BY <3>1, <3>2
    <3>5. QED
      BY <3>3, <3>4
  <2>3. QED
    BY <2>1, <2>2
<1>2. /\ session'.stateVersion = session.stateVersion
      /\ session'.intentVersion = session.intentVersion
  BY <1>0 DEF Activate, Session
<1>3. ASSUME crashes = 0
      PROVE  /\ Current(r)' - restored' = Current(req[q]) - restored
             /\ RowFollows(r)' /\ TokenFollows(r)' /\ DraftFits(r)' /\ StampFits(r)'
  <2>1. Exactly(req[q])
    BY <1>0, <1>3, ExactNow
  <2>2. CASE r = Finished
    BY <1>0, <1>2, <2>1, <2>2, RestingFields DEF Exactly, RowFollows, TokenFollows, Retargeted,
       DraftFits, StampFits, Current, Owing, Settling, TokenOwed, Logged, LoggedPCs
  <2>3. CASE r # Finished
    BY <1>0, <1>1, <1>2, <2>1, <2>3 DEF Exactly, RowFollows, TokenFollows, Retargeted,
       DraftFits, StampFits, Current, Owing, Settling, TokenOwed, Logged, LoggedPCs
  <2>4. QED
    BY <2>2, <2>3
<1>4. QED
  BY <1>0, <1>1, <1>3, WriteStep, RestingFields

(* The insert adds the next position, with an intent version not below any *)
(* in the log.                                                             *)
LEMMA AppendExact ==
    ASSUME ExactInv, NEW q \in Requests, AppendEvent(q)
    PROVE  ExactInv'
<1>0. /\ SerialInv /\ SerialInv' /\ req[q] \in Request /\ Handled(q, req[q])
      /\ log \in Seq(LogEntry) /\ brief.version \in Nat /\ restored \in Nat
      /\ req[q].pc = "append"
      /\ UNCHANGED <<session, brief, runGoals, restored, crashes>>
  BY AppendSerial DEF ExactInv, SerialInv, IInv, TypeOK, AppendEvent, At, history, Brief
<1>1. Alone(q)
  BY <1>0, WorksAlone
<1>2. PICK r : r = [req[q] EXCEPT !.pc =
                       IF req[q].type = "BeliefProposed" THEN "arbitrate" ELSE "reduce"]
  OBVIOUS
<1>3. /\ Becomes(q, r) /\ r.type = req[q].type /\ Carries(req[q], r)
      /\ r.pc = IF req[q].type = "BeliefProposed" THEN "arbitrate" ELSE "reduce"
  BY <1>0, <1>2 DEF AppendEvent, Carries, Request
<1>4. PICK e : e = [type |-> req[q].type, actor |-> req[q].actor, run |-> req[q].run,
                    intentVersion |-> req[q].intentVersion, version |-> req[q].version, by |-> q]
  OBVIOUS
<1>5. /\ log' = Append(log, e) /\ e.type = req[q].type /\ e.version = req[q].version
      /\ e.intentVersion = req[q].intentVersion
  BY <1>4 DEF AppendEvent
<1>6. /\ Len(log) \in Nat /\ Len(log') = Len(log) + 1
      /\ DOMAIN log = 1..Len(log) /\ DOMAIN log' = 1..(Len(log) + 1)
      /\ \A i \in 1..Len(log) : log'[i] = log[i]
      /\ log'[Len(log) + 1] = e
  BY <1>0, <1>5
<1>7. ASSUME crashes = 0 PROVE Exactly(r)'
  <2>1. Exactly(req[q])
    BY <1>0, <1>7, ExactNow
  <2>2. /\ e.version = Len(log) + 1
        /\ e.intentVersion \in Nat
        /\ IF r.type = "IntentUpdated" THEN e.intentVersion = brief.version + 1
           ELSE e.intentVersion >= brief.version
    BY <1>0, <1>3, <1>5, <2>1 DEF Exactly, StampFits, Request
  <2>3. /\ Current(req[q]) = brief.version
        /\ Current(r)' = IF r.type = "IntentUpdated" THEN brief.version + 1 ELSE brief.version
    BY <1>0, <1>3 DEF Current, Owing
  <2>4. /\ \A i \in 1..Len(log) : log[i].version = i /\ log[i].intentVersion \in Nat
        /\ IntentsLogged \subseteq 1..Len(log)
        /\ \A i \in IntentsLogged : log[i].intentVersion <= brief.version
    <3>1. \A i \in DOMAIN log : log[i] \in LogEntry
      BY <1>0
    <3>2. IntentsLogged \subseteq 1..Len(log)
      BY <1>6 DEF IntentsLogged
    <3>3. QED
      BY <1>6, <2>1, <2>3, <3>1, <3>2 DEF Exactly, Ordered, LogEntry
  <2>5. Ordered(r)'
    <3>1. \A i \in 1..(Len(log) + 1) : log'[i].version = i
      BY <1>6, <2>2, <2>4
    <3>2. \A i \in IntentsLogged' :
             \/ i \in IntentsLogged /\ log'[i] = log[i]
             \/ i = Len(log) + 1 /\ r.type = "IntentUpdated"
      BY <1>3, <1>5, <1>6 DEF IntentsLogged
    <3>3. ASSUME NEW i \in IntentsLogged' PROVE log'[i].intentVersion <= Current(r)'
      <4>1. CASE i \in IntentsLogged /\ log'[i] = log[i]
        BY <1>0, <2>3, <2>4, <4>1
      <4>2. CASE i = Len(log) + 1 /\ r.type = "IntentUpdated"
        BY <1>0, <1>6, <2>2, <2>3, <4>2
      <4>3. QED
        BY <3>2, <4>1, <4>2
    <3>4. ASSUME NEW i \in IntentsLogged', NEW j \in 1..(Len(log) + 1), i < j
          PROVE  log'[i].intentVersion <= log'[j].intentVersion
      <4>0. i # Len(log) + 1
        BY <1>6, <3>4
      <4>1. i \in IntentsLogged /\ i \in 1..Len(log) /\ log'[i] = log[i]
        BY <2>4, <3>2, <4>0
      <4>2. CASE j \in 1..Len(log)
        BY <1>6, <2>1, <3>4, <4>1, <4>2 DEF Exactly, Ordered
      <4>3. CASE j = Len(log) + 1
        BY <1>0, <1>6, <2>2, <2>4, <4>1, <4>3
      <4>4. QED
        BY <1>6, <4>2, <4>3
    <3>5. QED
      BY <1>6, <3>1, <3>3, <3>4 DEF Ordered
  <2>6. Counted(r)'
    <3>1. IsFiniteSet(1..Len(log)) /\ IntentsLogged \subseteq 1..Len(log)
      BY <1>6, FS_Interval DEF IntentsLogged
    <3>2. IsFiniteSet(IntentsLogged) /\ Cardinality(IntentsLogged) \in Nat
      BY <3>1, FS_Subset, FS_CardinalityType
    <3>3. Len(log) + 1 \notin IntentsLogged
      BY <1>6 DEF IntentsLogged
    <3>4. brief.version = Cardinality(IntentsLogged) + restored
      BY <2>1, <2>3 DEF Exactly, Counted
    <3>5. CASE r.type = "IntentUpdated"
      <4>1. IntentsLogged' = IntentsLogged \union {Len(log) + 1}
        BY <1>3, <1>5, <1>6, <3>5 DEF IntentsLogged
      <4>2. Cardinality(IntentsLogged)' = Cardinality(IntentsLogged) + 1
        BY <3>2, <3>3, <4>1, FS_AddElement
      <4>3. QED
        BY <1>0, <2>3, <3>2, <3>4, <3>5, <4>2 DEF Counted
    <3>6. CASE r.type # "IntentUpdated"
      <4>1. IntentsLogged' = IntentsLogged
        BY <1>3, <1>5, <1>6, <3>6 DEF IntentsLogged
      <4>2. QED
        BY <1>0, <2>3, <3>4, <3>6, <4>1 DEF Counted
    <3>7. QED
      BY <3>5, <3>6
  <2>7. RowFollows(r)' /\ TokenFollows(r)'
    BY <1>0, <1>3, <2>1 DEF Exactly, RowFollows, TokenFollows, Retargeted, Settling, TokenOwed, Logged,
       LoggedPCs, Carries
  <2>8. DraftFits(r)' /\ StampFits(r)'
    BY <1>0, <1>3, <1>6, <2>1 DEF Exactly, DraftFits, StampFits, Logged, LoggedPCs, Carries
  <2>9. QED
    BY <2>5, <2>6, <2>7, <2>8 DEF Exactly
<1>8. QED
  BY <1>0, <1>1, <1>3, <1>7, ExactStep

LEMMA ExactAlways == MaxInFlight = 1 /\ Spec => []ExactInv
<1>1. ExactInv /\ [Next]_vars => ExactInv'
  <2> SUFFICES ASSUME ExactInv, [Next]_vars PROVE ExactInv'
    OBVIOUS
  <2>1. CASE Crash
    <3>1. crashes' # 0
      BY <2>1 DEF Crash, ExactInv, SerialInv, IInv, TypeOK
    <3>2. QED
      BY <2>1, <3>1, CrashSerial DEF ExactInv
  <2>2. ASSUME NEW q \in Requests, Receive(q) PROVE ExactInv'
    BY <2>2, ReceiveExact
  <2>3. ASSUME NEW q \in Requests, Handle(q) PROVE ExactInv'
    BY <2>3, PlanExact, ReadsStep, StatusExact, BriefExact, SettleExact, ActivateExact,
       AppendExact DEF Handle, Reads
  <2>4. CASE UNCHANGED vars
    <3>1. SerialInv'
      BY <2>4, SerialStay DEF ExactInv
    <3>2. IntentsLogged' = IntentsLogged
      BY <2>4 DEF vars, IntentsLogged
    <3>3. QED
      BY <2>4, <3>1, <3>2 DEF vars, history, ExactInv, InFlight, Exactly, Ordered, Counted,
         RowFollows, TokenFollows, Retargeted, DraftFits, StampFits, Current, Owing, Settling, TokenOwed,
         Logged
  <2>5. QED
    BY <2>1, <2>2, <2>3, <2>4 DEF Next
<1>2. QED
  BY <1>1, ExactInit, PTL DEF Spec

(* When nothing is in flight and nothing was lost, rows and log agree.     *)
THEOREM RowsAgree == MaxInFlight = 1 /\ Spec => []RowsMatchLog
<1>1. ExactInv => RowsMatchLog
  <2> SUFFICES ASSUME ExactInv, Quiet, crashes = 0
               PROVE  /\ brief.version = Cardinality(IntentsLogged) + restored
                      /\ session.intentVersion = brief.version
                      /\ session.stateVersion = Len(log)
                      /\ \A i \in DOMAIN log : log[i].version = i
    BY DEF RowsMatchLog
  <2>1. Exactly(Finished)
    BY DEF ExactInv, Quiet
  <2>2. QED
    BY <2>1, RestingFields DEF Exactly, Ordered, Counted, RowFollows, Current, Owing, Settling,
       Logged, LoggedPCs
<1>2. QED
  BY <1>1, ExactAlways, PTL

(* No event based on an older intent follows a logged intent update.       *)
THEOREM IntentsMonotone == MaxInFlight = 1 /\ Spec => []IntentVersionsMonotone
<1>1. ExactInv => IntentVersionsMonotone
  <2> SUFFICES ASSUME ExactInv, crashes = 0
               PROVE  \A i \in IntentsLogged, j \in DOMAIN log :
                         i < j => log[i].intentVersion <= log[j].intentVersion
    BY DEF IntentVersionsMonotone
  <2>1. PICK r : Exactly(r)
    BY DEF ExactInv
  <2>2. QED
    BY <2>1 DEF Exactly, Ordered
<1>2. QED
  BY <1>1, ExactAlways, PTL

(* A run whose goal was changed after its own message is told to stop,     *)
(* once the update has settled.                                            *)
THEOREM RetargetTold == MaxInFlight = 1 /\ Spec => []RetargetRaisesToken
<1>1. ExactInv => RetargetRaisesToken
  <2> SUFFICES ASSUME ExactInv, Quiet, crashes = 0, session.activeRun # NoRun, Retargeted
               PROVE  session.token
    BY DEF RetargetRaisesToken
  <2>1. Exactly(Finished)
    BY DEF ExactInv, Quiet
  <2>2. QED
    BY <2>1, RestingFields DEF Exactly, TokenFollows, TokenOwed
<1>2. QED
  BY <1>1, ExactAlways, PTL
=============================================================================
