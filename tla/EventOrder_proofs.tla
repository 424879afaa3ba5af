-------------------------- MODULE EventOrder_proofs --------------------------
(* What EventPipeline promises about the order of its writes, for any set  *)
(* of requests, any number of them in flight and any number of crashes:    *)
(* a final event follows its proposal, and the brief stays behind the log. *)
EXTENDS EventPipeline_proofs, FiniteSetTheorems

FinalTypes == {"BeliefUpdated", "ConflictDetected"}

ProposedBy(q) == {j \in DOMAIN log : log[j].type = "BeliefProposed" /\ log[j].by = q}

(* A handler in whose name a final event may still be logged.              *)
Promotes(r) == r.type \in FinalTypes \/ r.rest # <<>> \/ r.pc = "arbitrate"

(* What makes PromotedAfterProposal inductive: such a handler has logged   *)
(* its proposal, and a version reserved for the final event is a later one.*)
Proposed(q) ==
    /\ Promotes(req[q]) => ProposedBy(q) # {}
    /\ At(q, "append") /\ req[q].type \in FinalTypes =>
          \E j \in ProposedBy(q) : log[j].version < req[q].version

Promotions == PromotedAfterProposal /\ \A q \in Requests : Proposed(q)

(* The handlers that have logged an intent update and not read the brief   *)
(* yet: each of them will still raise its version.                         *)
Unreduced == {q \in Requests : At(q, "reduce") /\ req[q].type = "IntentUpdated"}

(* By how much the brief, or a copy of it, may still be raised.            *)
Slack == Cardinality(IntentsLogged) + restored - Cardinality(Unreduced)

(* What makes BriefBehindLog inductive: the log leaves room for the brief, *)
(* for every copy about to be saved, and for the updates not yet reduced.  *)
Counting ==
    /\ IsFiniteSet(Unreduced)
    /\ brief.version <= Slack
    /\ \A q \in Requests :
          /\ At(q, "saveBrief") => req[q].draft.version <= Slack
          /\ At(q, "restoreBrief") => req[q].draft.version <= Slack + 1

OrderInv == IInv /\ Promotions /\ Counting

-----------------------------------------------------------------------------
LEMMA OrderInit == Init => OrderInv
<1> SUFFICES ASSUME Init PROVE OrderInv
  OBVIOUS
<1>1. IInv
  BY IInvInit
<1>2. /\ \A q \in Requests : req[q] = Blank
      /\ DOMAIN log = {1} /\ log[1].type = "SessionCreated"
      /\ brief.version = 0 /\ restored = 0
  BY DEF Init
<1>3. Promotions
  BY <1>2 DEF Promotions, PromotedAfterProposal, Proposed, Promotes, FinalTypes, At, Blank
<1>4. Unreduced = {} /\ IntentsLogged = {}
  BY <1>2 DEF Unreduced, IntentsLogged, At, Blank
<1>5. Counting
  BY <1>2, <1>4, FS_EmptySet DEF Counting, Slack, At, Blank
<1>6. QED
  BY <1>1, <1>3, <1>5 DEF OrderInv

(* A step of one handler changes no record but its own.                    *)
LEMMA Others ==
    ASSUME IInv, NEW q \in Requests, NEW r, Becomes(q, r)
    PROVE  \A p \in Requests : req'[p] = IF p = q THEN r ELSE req[p]
BY DEF IInv, TypeOK, Becomes

(* A step that leaves the log alone promotes nothing, and its handler will *)
(* promote only if it would have before.                                   *)
LEMMA KeepsPromotions ==
    ASSUME IInv, Promotions, NEW q \in Requests, NEW r, Becomes(q, r), log' = log,
           Promotes(r) => Promotes(req[q]), r.pc # "append"
    PROVE  Promotions'
<1>1. \A p \in Requests : ProposedBy(p)' = ProposedBy(p)
  BY DEF ProposedBy
<1>2. PromotedAfterProposal'
  BY DEF Promotions, PromotedAfterProposal
<1>3. ASSUME NEW p \in Requests PROVE Proposed(p)'
  <2>1. CASE p = q
    BY <1>1, <2>1, Others DEF Promotions, Proposed, Promotes, At
  <2>2. CASE p # q
    BY <1>1, <2>2, Others DEF Promotions, Proposed, Promotes, At
  <2>3. QED
    BY <2>1, <2>2
<1>4. QED
  BY <1>2, <1>3 DEF Promotions

LEMMA SlackType ==
    ASSUME IInv, IsFiniteSet(Unreduced)
    PROVE  /\ IsFiniteSet(IntentsLogged) /\ Cardinality(IntentsLogged) \in Nat
           /\ Cardinality(Unreduced) \in Nat /\ restored \in Nat /\ Slack \in Int
<1>1. Len(log) \in Nat /\ DOMAIN log = 1..Len(log) /\ restored \in Nat
  BY DEF IInv, TypeOK
<1>2. IsFiniteSet(1..Len(log))
  BY <1>1, FS_Interval
<1>3. IsFiniteSet(IntentsLogged)
  BY <1>1, <1>2, FS_Subset DEF IntentsLogged
<1>4. QED
  BY <1>1, <1>3, FS_CardinalityType DEF Slack

(* The copies of the other handlers still have room, because the slack     *)
(* does not shrink.                                                        *)
LEMMA CountingStep ==
    ASSUME IInv, Counting, NEW q \in Requests, NEW r, Becomes(q, r),
           IsFiniteSet(Unreduced)', Slack' \in {Slack, Slack + 1},
           brief'.version <= Slack',
           r.pc = "saveBrief" => r.draft.version <= Slack',
           r.pc = "restoreBrief" => r.draft.version <= Slack' + 1
    PROVE  Counting'
<1>1. Slack \in Int
  BY SlackType DEF Counting
<1>2. ASSUME NEW p \in Requests
      PROVE  /\ At(p, "saveBrief")' => req'[p].draft.version <= Slack'
             /\ At(p, "restoreBrief")' => req'[p].draft.version <= Slack' + 1
  <2>1. CASE p = q
    BY <2>1, Others DEF At
  <2>2. CASE p # q
    <3>1. req'[p] = req[p] /\ req[p].draft.version \in Nat
      BY <2>2, Others DEF IInv, TypeOK, Request, Brief
    <3>2. /\ At(p, "saveBrief") => req[p].draft.version <= Slack
          /\ At(p, "restoreBrief") => req[p].draft.version <= Slack + 1
      BY DEF Counting
    <3>3. QED
      BY <1>1, <3>1, <3>2 DEF At
  <2>3. QED
    BY <2>1, <2>2
<1>3. QED
  BY <1>2 DEF Counting

(* A step that writes nothing the counts are about.                        *)
LEMMA SlackStays ==
    ASSUME IInv, Counting, NEW q \in Requests, NEW r, Becomes(q, r),
           log' = log, restored' = restored, req[q].pc # "reduce", r.pc # "reduce"
    PROVE  IsFiniteSet(Unreduced)' /\ Slack' = Slack /\ Unreduced' = Unreduced
<1>1. Unreduced' = Unreduced
  BY Others DEF Unreduced, At
<1>2. IntentsLogged' = IntentsLogged
  BY DEF IntentsLogged
<1>3. QED
  BY <1>1, <1>2 DEF Slack, Counting

LEMMA KeepsCounting ==
    ASSUME IInv, Counting, NEW q \in Requests, NEW r, Becomes(q, r),
           log' = log, brief' = brief, restored' = restored,
           req[q].pc # "reduce", r.pc \notin {"reduce", "saveBrief", "restoreBrief"}
    PROVE  Counting'
BY SlackStays, CountingStep DEF Counting

LEMMA PlainStep ==
    ASSUME OrderInv, NEW q \in Requests, NEW r, Becomes(q, r), IInv',
           log' = log, brief' = brief, restored' = restored,
           req[q].pc # "reduce",
           r.pc \notin {"append", "reduce", "saveBrief", "restoreBrief"},
           Promotes(r) => Promotes(req[q])
    PROVE  OrderInv'
BY KeepsPromotions, KeepsCounting DEF OrderInv


(* A handler's record when nothing can be promoted in its name.            *)
Harmless(r) ==
    /\ r.type \notin FinalTypes /\ r.rest = <<>>
    /\ r.pc \notin {"arbitrate", "append", "reduce", "saveBrief", "restoreBrief"}

LEMMA FinishedHarmless == Harmless(Finished)
BY DEF Harmless, Finished, Blank, FinalTypes

LEMMA HarmlessStep ==
    ASSUME OrderInv, NEW q \in Requests, NEW r, Becomes(q, r), IInv', Harmless(r),
           log' = log, brief' = brief, restored' = restored, req[q].pc # "reduce"
    PROVE  OrderInv'
BY PlainStep DEF Harmless, Promotes

LEMMA ReceiveOrder ==
    ASSUME OrderInv, NEW q \in Requests, Receive(q)
    PROVE  OrderInv'
<1>1. IInv'
  BY ReceiveStep DEF OrderInv
<1>2. PICK r : Becomes(q, r) /\ Harmless(r)
  <2>1. ASSUME SubmitThinkerEvent(q) PROVE \E r : Becomes(q, r) /\ Harmless(r)
    <3>1. PICK type \in ThinkerTypes, run \in activated \union {NoRun},
               stated \in Stated, goal \in GoalIds :
               Becomes(q, [Blank EXCEPT !.pc = "validate", !.type = type, !.actor = "thinker",
                                        !.run = run, !.intentVersion = stated, !.goal = goal])
      BY <2>1 DEF SubmitThinkerEvent
    <3>2. Harmless([Blank EXCEPT !.pc = "validate", !.type = type, !.actor = "thinker",
                                 !.run = run, !.intentVersion = stated, !.goal = goal])
      BY DEF Harmless, FinalTypes, Blank, ThinkerTypes
    <3>3. QED
      BY <3>1, <3>2, Zenon
  <2>2. ASSUME SubmitUserMessage(q) PROVE \E r : Becomes(q, r) /\ Harmless(r)
    <3>1. PICK goal \in GoalIds, stated \in Stated :
               Becomes(q, [Blank EXCEPT !.pc = "validate", !.goal = goal,
                                        !.intentVersion = stated,
                                        !.type = "IntentUpdated", !.actor = "talker"])
      BY <2>2 DEF SubmitUserMessage
    <3>2. Harmless([Blank EXCEPT !.pc = "validate", !.goal = goal, !.intentVersion = stated,
                                 !.type = "IntentUpdated", !.actor = "talker"])
      BY DEF Harmless, FinalTypes, Blank
    <3>3. QED
      BY <3>1, <3>2, Zenon
  <2>3. ASSUME SubmitKernelEvent(q) PROVE \E r : Becomes(q, r) /\ Harmless(r)
    <3>1. Harmless([Blank EXCEPT !.pc = "snapshot", !.type = "ApprovalGranted"])
      BY DEF Harmless, FinalTypes, Blank
    <3>2. QED
      BY <2>3, <3>1, Zenon DEF SubmitKernelEvent
  <2>4. \A pc \in {"plan", "archive"} : Harmless([Blank EXCEPT !.pc = pc])
    BY DEF Harmless, FinalTypes, Blank
  <2>5. ASSUME CompleteRun(q) PROVE \E r : Becomes(q, r) /\ Harmless(r)
    <3>1. PICK run \in activated :
               Becomes(q, [Blank EXCEPT !.pc = "completeRead", !.run = run])
      BY <2>5 DEF CompleteRun
    <3>2. Harmless([Blank EXCEPT !.pc = "completeRead", !.run = run])
      BY DEF Harmless, FinalTypes, Blank
    <3>3. QED
      BY <3>1, <3>2, Zenon
  <2>6. ASSUME DispatchUserMessage(q) \/ ArchiveSession(q)
        PROVE  \E r : Becomes(q, r) /\ Harmless(r)
    <3>1. PICK pc \in {"plan", "archive"} : Becomes(q, [Blank EXCEPT !.pc = pc])
      BY <2>6 DEF DispatchUserMessage, ArchiveSession
    <3>2. QED
      BY <2>4, <3>1, Zenon
  <2>7. QED
    BY <2>1, <2>2, <2>3, <2>5, <2>6 DEF Receive
<1>3. /\ req[q].pc = "idle"
      /\ log' = log /\ brief' = brief /\ restored' = restored
  BY DEF Receive, SubmitThinkerEvent, SubmitUserMessage, SubmitKernelEvent,
     DispatchUserMessage, CompleteRun, ArchiveSession, Arrive, At, history
<1>4. QED
  BY <1>1, <1>2, <1>3, HarmlessStep

-----------------------------------------------------------------------------
(* What follows an event promotes only what the event's handler promoted.  *)
Onward(r, s) ==
    /\ s.pc \notin {"arbitrate", "append", "reduce", "saveBrief", "restoreBrief"}
    /\ s.type \in FinalTypes \/ s.rest # <<>> => Promotes(r)

LEMMA OnwardStep ==
    ASSUME OrderInv, NEW q \in Requests, NEW r, Becomes(q, r), IInv', Onward(req[q], r),
           log' = log, brief' = brief, restored' = restored, req[q].pc # "reduce"
    PROVE  OrderInv'
BY PlainStep DEF Onward, Promotes

LEMMA OnwardOperators ==
    ASSUME NEW r \in Request
    PROVE  /\ Onward(r, Interrupting(r))
           /\ Onward(r, Switching(r))
           /\ Onward(r, AfterReduce(r))
           /\ Onward(r, AfterSave(r))
           /\ Onward(r, AfterIntent(r))
           /\ Onward(r, AfterWrite(r))
<1> USE DEF Onward, Promotes, Request
<1>1. Onward(r, Interrupting(r))
  BY DEF Interrupting, FinalTypes
<1>2. Onward(r, Switching(r))
  BY <1>1 DEF Switching
<1>3. Onward(r, AfterReduce(r))
  <2>1. CASE r.rest # <<>>
    BY <2>1 DEF AfterReduce
  <2>2. CASE r.rest = <<>>
    BY <2>2 DEF AfterReduce
  <2>3. QED
    BY <2>1, <2>2
<1>4. Onward(r, AfterSave(r))
  BY <1>3 DEF AfterSave
<1>5. Onward(r, AfterIntent(r))
  BY <1>1, <1>3 DEF AfterIntent
<1>6. Onward(r, AfterWrite(r))
  <2>1. Finished.type \notin FinalTypes /\ Finished.rest = <<>> /\ Finished.pc = "done"
    BY DEF Finished, Blank, FinalTypes
  <2>2. r.next \notin {"arbitrate", "append", "reduce", "saveBrief", "restoreBrief"}
    BY DEF Continuations
  <2>3. QED
    BY <2>1, <2>2 DEF AfterWrite
<1>7. QED
  BY <1>1, <1>2, <1>3, <1>4, <1>5, <1>6

(* The handler steps that write neither the log nor the brief and reserve  *)
(* nothing.                                                                *)
Elsewhere(q) ==
    \/ Plan(q)          \/ Pause(q)         \/ Activate(q)    \/ TaskRead(q)
    \/ TaskStatus(q)    \/ Validate(q)      \/ Arbitrate(q)   \/ CancelStatus(q)
    \/ RaiseToken(q)    \/ IntentRead(q)    \/ IntentStatus(q) \/ Snapshot(q)
    \/ StatusRead(q)    \/ StatusWrite(q)   \/ CompleteRead(q) \/ CompleteWrite(q)
    \/ Archive(q)

LEMMA ElsewhereGoesOn ==
    ASSUME IInv, NEW q \in Requests, Elsewhere(q)
    PROVE  \E r : Becomes(q, r) /\ Onward(req[q], r)
<1>0. req[q] \in Request
  BY DEF IInv, TypeOK
<1>fin. Onward(req[q], Finished)
  BY FinishedHarmless DEF Harmless, Onward
<1>pc. ASSUME NEW pc \in {"pause", "taskStatus", "assign", "statusRead", "raiseToken",
                          "intentStatus", "statusWrite", "completeWrite"}
       PROVE  /\ Onward(req[q], [req[q] EXCEPT !.pc = pc])
              /\ \A status : Onward(req[q], [req[q] EXCEPT !.pc = pc, !.seenStatus = status])
  BY <1>0 DEF Onward, Promotes, Request
<1>1. ASSUME Plan(q) PROVE \E r : Becomes(q, r) /\ Onward(req[q], r)
  <2>1. ASSUME NEW pauses \in BOOLEAN, NEW resumes \in BOOLEAN
        PROVE  LET r == [req[q] EXCEPT !.run = session.activeRun, !.resumes = resumes,
                                       !.seenStatus = session.status]
                   s == IF pauses THEN [r EXCEPT !.pc = "pause"] ELSE Switching(r)
               IN  Onward(req[q], s)
    <3> DEFINE r == [req[q] EXCEPT !.run = session.activeRun, !.resumes = resumes,
                                   !.seenStatus = session.status]
    <3>1. r \in Request /\ r.type = req[q].type /\ r.rest = req[q].rest /\ r.pc = req[q].pc
      BY <1>0 DEF IInv, TypeOK, Request, Session
    <3> HIDE DEF r
    <3>2. \A s : Onward(r, s) => Onward(req[q], s)
      BY <3>1 DEF Onward, Promotes
    <3>3. Onward(r, [r EXCEPT !.pc = "pause"])
      BY <3>1 DEF Onward, Promotes, Request
    <3>4. Onward(r, Switching(r))
      BY <3>1, OnwardOperators
    <3>5. QED
      BY <3>2, <3>3, <3>4 DEF r
  <2>2. CASE Becomes(q, Finished)
    BY <1>fin, <2>2, Zenon
  <2>3. CASE ~Becomes(q, Finished)
    <3>1. PICK pauses \in BOOLEAN, resumes \in BOOLEAN :
             LET r == [req[q] EXCEPT !.run = session.activeRun, !.resumes = resumes,
                                     !.seenStatus = session.status]
             IN  Becomes(q, IF pauses THEN [r EXCEPT !.pc = "pause"] ELSE Switching(r))
      BY <1>1, <2>3 DEF Plan
    <3>2. QED
      BY <2>1, <3>1, Zenon
  <2>4. QED
    BY <2>2, <2>3
<1>2. ASSUME Activate(q) PROVE \E r : Becomes(q, r) /\ Onward(req[q], r)
  <2>1. CASE req[q].resumes
    <3>1. Becomes(q, Finished)
      BY <1>2, <2>1 DEF Activate
    <3>2. QED
      BY <1>fin, <3>1, Zenon
  <2>2. CASE ~req[q].resumes
    <3>1. PICK goal \in GoalIds, next \in {"done", "taskRead"} :
             Becomes(q, [Blank EXCEPT !.pc = "validate", !.goal = goal,
                                      !.type = "IntentUpdated", !.actor = "talker",
                                      !.next = next])
      BY <1>2, <2>2 DEF Activate
    <3>2. Onward(req[q], [Blank EXCEPT !.pc = "validate", !.goal = goal,
                                       !.type = "IntentUpdated", !.actor = "talker",
                                       !.next = next])
      BY DEF Onward, Blank, FinalTypes
    <3>3. QED
      BY <3>1, <3>2, Zenon
  <2>3. QED
    BY <2>1, <2>2
<1>3. ASSUME Arbitrate(q) PROVE \E r : Becomes(q, r) /\ Onward(req[q], r)
  <2>1. Promotes(req[q])
    BY <1>3 DEF Arbitrate, At, Promotes
  <2>2. ASSUME NEW rest
        PROVE  Onward(req[q], [req[q] EXCEPT !.pc = "assign", !.type = "BeliefUpdated",
                                             !.actor = "kernel_manager", !.run = NoRun,
                                             !.rest = rest])
    BY <1>0, <2>1 DEF Onward, Request
  <2>3. CASE Becomes(q, [req[q] EXCEPT !.pc = "statusRead"])
    BY <1>pc, <2>3
  <2>4. CASE ~Becomes(q, [req[q] EXCEPT !.pc = "statusRead"])
    <3>1. PICK rest \in {<<>>, <<"ConflictDetected">>} :
             Becomes(q, [req[q] EXCEPT !.pc = "assign", !.type = "BeliefUpdated",
                                       !.actor = "kernel_manager", !.run = NoRun,
                                       !.rest = rest])
      BY <1>3, <2>4 DEF Arbitrate
    <3>2. QED
      BY <2>2, <3>1, Zenon
  <2>5. QED
    BY <2>3, <2>4
<1>4. ASSUME TaskStatus(q) \/ CompleteWrite(q) \/ Archive(q)
      PROVE  \E r : Becomes(q, r) /\ Onward(req[q], r)
  <2>1. Becomes(q, Finished)
    BY <1>4 DEF TaskStatus, CompleteWrite, Archive
  <2>2. QED
    BY <1>fin, <2>1, Zenon
<1>5. ASSUME TaskRead(q) \/ IntentRead(q) \/ Snapshot(q) \/ StatusRead(q)
      PROVE  \E r : Becomes(q, r) /\ Onward(req[q], r)
  <2>1. PICK pc \in {"taskStatus", "intentStatus", "assign", "statusWrite"} :
           Becomes(q, [req[q] EXCEPT !.pc = pc, !.seenStatus = session.status])
    BY <1>5 DEF TaskRead, IntentRead, Snapshot, StatusRead
  <2>2. QED
    BY <1>pc, <2>1
<1>6. ASSUME Validate(q) \/ CompleteRead(q) \/ CancelStatus(q)
      PROVE  \E r : Becomes(q, r) /\ Onward(req[q], r)
  <2>1. CASE Becomes(q, Finished)
    BY <1>fin, <2>1, Zenon
  <2>2. CASE ~Becomes(q, Finished)
    <3>1. PICK pc \in {"assign", "completeWrite", "raiseToken"} :
             Becomes(q, [req[q] EXCEPT !.pc = pc])
      BY <1>6, <2>2 DEF Validate, CompleteRead, CancelStatus
    <3>2. QED
      BY <1>pc, <3>1
  <2>3. QED
    BY <2>1, <2>2
<1>7. ASSUME Pause(q) PROVE \E r : Becomes(q, r) /\ Onward(req[q], r)
  BY <1>0, <1>7, OnwardOperators, Zenon DEF Pause
<1>8. ASSUME RaiseToken(q) PROVE \E r : Becomes(q, r) /\ Onward(req[q], r)
  BY <1>0, <1>8, OnwardOperators, Zenon DEF RaiseToken
<1>9. ASSUME IntentStatus(q) PROVE \E r : Becomes(q, r) /\ Onward(req[q], r)
  BY <1>0, <1>9, OnwardOperators, Zenon DEF IntentStatus
<1>10. ASSUME StatusWrite(q) PROVE \E r : Becomes(q, r) /\ Onward(req[q], r)
  BY <1>0, <1>10, OnwardOperators, Zenon DEF StatusWrite
<1>11. QED
  BY <1>1, <1>2, <1>3, <1>4, <1>5, <1>6, <1>7, <1>8, <1>9, <1>10 DEF Elsewhere

LEMMA ElsewhereOrder ==
    ASSUME OrderInv, NEW q \in Requests, Elsewhere(q)
    PROVE  OrderInv'
<1>1. IInv'
  BY HandleStep DEF OrderInv, Elsewhere, Handle
<1>2. PICK r : Becomes(q, r) /\ Onward(req[q], r)
  BY ElsewhereGoesOn DEF OrderInv
<1>3. /\ req[q].pc # "reduce"
      /\ log' = log /\ brief' = brief /\ restored' = restored
  BY DEF Elsewhere, Plan, Pause, Activate, TaskRead, TaskStatus, Validate, Arbitrate,
     CancelStatus, RaiseToken, IntentRead, IntentStatus, Snapshot, StatusRead,
     StatusWrite, CompleteRead, CompleteWrite, Archive, At, history
<1>4. QED
  BY <1>1, <1>2, <1>3, OnwardStep

-----------------------------------------------------------------------------
(* The steps the order is about.                                           *)

LEMMA RestoreReadOrder ==
    ASSUME OrderInv, NEW q \in Requests, RestoreRead(q)
    PROVE  OrderInv'
<1>1. IInv /\ IInv' /\ req[q] \in Request /\ Promotions /\ Counting
  BY HandleStep DEF OrderInv, Handle, IInv, TypeOK
<1>2. PICK goal \in GoalIds :
         Becomes(q, [req[q] EXCEPT !.pc = "restoreBrief",
                                   !.draft = [version |-> brief.version + 1, goal |-> goal]])
  BY DEF RestoreRead
<1> DEFINE r == [req[q] EXCEPT !.pc = "restoreBrief",
                               !.draft = [version |-> brief.version + 1, goal |-> goal]]
<1>3. /\ r.pc = "restoreBrief" /\ r.type = req[q].type /\ r.rest = req[q].rest
      /\ r.draft.version = brief.version + 1
  BY <1>1 DEF Request
<1>4. Becomes(q, r)
  BY <1>2
<1> HIDE DEF r
<1>5. /\ log' = log /\ brief' = brief /\ restored' = restored /\ req[q].pc = "restoreRead"
      /\ brief.version \in Nat
  BY <1>1 DEF RestoreRead, history, At, IInv, TypeOK, Brief
<1>6. Promotions'
  BY <1>1, <1>3, <1>4, <1>5, KeepsPromotions DEF Promotes
<1>7. IsFiniteSet(Unreduced)' /\ Slack' = Slack /\ Slack \in Int /\ brief.version <= Slack
  BY <1>1, <1>3, <1>4, <1>5, SlackStays, SlackType DEF Counting
<1>8. Counting'
  BY <1>1, <1>3, <1>4, <1>5, <1>7, CountingStep
<1>9. QED
  BY <1>1, <1>6, <1>8 DEF OrderInv

LEMMA RestoreBriefOrder ==
    ASSUME OrderInv, NEW q \in Requests, RestoreBrief(q)
    PROVE  OrderInv'
<1> DEFINE r == [req[q] EXCEPT !.pc = "intentRead"]
<1>1. IInv /\ IInv' /\ req[q] \in Request /\ Promotions /\ Counting
  BY HandleStep DEF OrderInv, Handle, IInv, TypeOK
<1>2. r.pc = "intentRead" /\ r.type = req[q].type /\ r.rest = req[q].rest
  BY <1>1 DEF Request
<1>3. Becomes(q, r)
  BY DEF RestoreBrief
<1> HIDE DEF r
<1>4. /\ log' = log /\ brief' = req[q].draft /\ restored' = restored + 1
      /\ At(q, "restoreBrief") /\ req[q].pc = "restoreBrief"
  BY DEF RestoreBrief, At
<1>5. Promotions'
  BY <1>1, <1>2, <1>3, <1>4, KeepsPromotions DEF Promotes
<1>6. Unreduced' = Unreduced /\ IntentsLogged' = IntentsLogged
  BY <1>1, <1>2, <1>3, <1>4, Others DEF Unreduced, IntentsLogged, At
<1>7. IsFiniteSet(Unreduced)' /\ Slack' = Slack + 1
  BY <1>1, <1>4, <1>6, SlackType DEF Slack, Counting
<1>8. brief'.version <= Slack'
  BY <1>1, <1>4, <1>7 DEF Counting
<1>9. Counting'
  BY <1>1, <1>2, <1>3, <1>7, <1>8, CountingStep
<1>10. QED
  BY <1>1, <1>5, <1>9 DEF OrderInv

(* The version reserved for a final event is above that of its proposal.   *)
LEMMA AssignOrder ==
    ASSUME OrderInv, NEW q \in Requests, AssignMetadata(q)
    PROVE  OrderInv'
<1> DEFINE r == [Stamped(req[q]) EXCEPT !.pc = "append"]
<1>1. IInv /\ IInv' /\ req[q] \in Request /\ Promotions /\ Counting
  BY HandleStep DEF OrderInv, Handle, IInv, TypeOK
<1>2. /\ r.pc = "append" /\ r.type = req[q].type /\ r.rest = req[q].rest
      /\ r.version = LatestVersion + 1
  BY <1>1, StampedType DEF Request, Stamped
<1>3. Becomes(q, r)
  BY DEF AssignMetadata
<1> HIDE DEF r
<1>4. log' = log /\ brief' = brief /\ restored' = restored /\ req[q].pc = "assign"
  BY DEF AssignMetadata, history, At
<1>5. Counting'
  BY <1>1, <1>2, <1>3, <1>4, KeepsCounting
<1>6. \A j \in DOMAIN log : log[j].version < LatestVersion + 1
  <2>1. \A j \in DOMAIN log : log[j].version \in Versions
    BY DEF Versions
  <2>2. QED
    BY <1>1, <2>1, LatestInVersions
<1>7. \A p \in Requests : ProposedBy(p)' = ProposedBy(p)
  BY <1>4 DEF ProposedBy
<1>8. \A p \in Requests : req'[p] = IF p = q THEN r ELSE req[p]
  BY <1>1, <1>3, Others
<1>9. ASSUME NEW p \in Requests PROVE Proposed(p)'
  <2>1. CASE p = q
    <3>1. req'[p] = r
      BY <1>8, <2>1
    <3>2. Promotes(r) => ProposedBy(q) # {}
      BY <1>1, <1>2 DEF Promotions, Proposed, Promotes
    <3>3. r.type \in FinalTypes => \E j \in ProposedBy(q) : log[j].version < r.version
      BY <1>2, <1>6, <3>2 DEF Promotes, ProposedBy
    <3>4. QED
      BY <1>4, <1>7, <2>1, <3>1, <3>2, <3>3 DEF Proposed
  <2>2. CASE p # q
    BY <1>1, <1>4, <1>7, <1>8, <2>2 DEF Promotions, Proposed, Promotes, At
  <2>3. QED
    BY <2>1, <2>2
<1>10. PromotedAfterProposal'
  BY <1>1, <1>4 DEF Promotions, PromotedAfterProposal
<1>11. QED
  BY <1>1, <1>5, <1>9, <1>10 DEF OrderInv, Promotions

(* The reducer reads the brief: the update it has logged becomes a copy.   *)
LEMMA ReduceOrder ==
    ASSUME OrderInv, NEW q \in Requests, Reduce(q)
    PROVE  OrderInv'
<1> DEFINE draft == ReduceIntent(brief, req[q].type, req[q].goal)
<1>1. IInv /\ IInv' /\ req[q] \in Request /\ Promotions /\ Counting
  BY HandleStep DEF OrderInv, Handle, IInv, TypeOK
<1>2. PICK r : /\ Becomes(q, r) /\ r.pc = "saveBrief" /\ r.draft = draft
               /\ r.type = req[q].type /\ r.rest = req[q].rest
  <2>1. ASSUME NEW retargeted
        PROVE  LET r == [req[q] EXCEPT !.pc = "saveBrief", !.draft = draft,
                                       !.retargeted = retargeted]
               IN  /\ r.pc = "saveBrief" /\ r.draft = draft
                   /\ r.type = req[q].type /\ r.rest = req[q].rest
    BY <1>1 DEF Request
  <2> HIDE DEF draft
  <2>2. Becomes(q, [req[q] EXCEPT !.pc = "saveBrief", !.draft = draft,
                                  !.retargeted = /\ brief.goal # NoGoal
                                                 /\ draft.goal # brief.goal])
    BY DEF Reduce, draft
  <2>3. QED
    BY <2>1, <2>2, Zenon
<1>3. /\ log' = log /\ brief' = brief /\ restored' = restored
      /\ req[q].pc = "reduce" /\ brief.version \in Nat
  BY <1>1 DEF Reduce, history, At, IInv, TypeOK, Brief
<1>4. Promotions'
  BY <1>1, <1>2, <1>3, KeepsPromotions DEF Promotes
<1>5. IntentsLogged' = IntentsLogged
  BY <1>3 DEF IntentsLogged
<1>6. Unreduced' = Unreduced \ {q}
  BY <1>1, <1>2, Others DEF Unreduced, At
<1>7. /\ IsFiniteSet(Unreduced)'
      /\ Cardinality(Unreduced)' = IF q \in Unreduced THEN Cardinality(Unreduced) - 1
                                   ELSE Cardinality(Unreduced)
  BY <1>1, <1>6, FS_RemoveElement DEF Counting
<1>8. Slack' = IF q \in Unreduced THEN Slack + 1 ELSE Slack
  BY <1>1, <1>3, <1>5, <1>7, SlackType DEF Slack, Counting
<1>9. draft.version = IF q \in Unreduced THEN brief.version + 1 ELSE brief.version
  BY <1>3 DEF Unreduced, At, ReduceIntent
<1> HIDE DEF draft
<1>10. Slack \in Int /\ brief.version <= Slack
  BY <1>1, SlackType DEF Counting
<1>11. Counting'
  <2>1. Slack' \in {Slack, Slack + 1} /\ brief'.version <= Slack' /\ r.draft.version <= Slack'
    BY <1>2, <1>3, <1>8, <1>9, <1>10
  <2>2. QED
    BY <1>1, <1>2, <1>7, <2>1, CountingStep
<1>12. QED
  BY <1>1, <1>4, <1>11 DEF OrderInv

LEMMA SaveBriefOrder ==
    ASSUME OrderInv, NEW q \in Requests, SaveBrief(q)
    PROVE  OrderInv'
<1> DEFINE r == AfterSave(req[q])
<1>1. IInv /\ IInv' /\ req[q] \in Request /\ Promotions /\ Counting
  BY HandleStep DEF OrderInv, Handle, IInv, TypeOK
<1>2. Becomes(q, r) /\ Onward(req[q], r)
  BY <1>1, OnwardOperators DEF SaveBrief
<1> HIDE DEF r
<1>3. /\ log' = log /\ brief' = req[q].draft /\ restored' = restored
      /\ At(q, "saveBrief") /\ req[q].pc = "saveBrief"
  BY DEF SaveBrief, history, At
<1>4. Promotions'
  BY <1>1, <1>2, <1>3, KeepsPromotions DEF Onward, Promotes
<1>5. IsFiniteSet(Unreduced)' /\ Slack' = Slack
  BY <1>1, <1>2, <1>3, SlackStays DEF Onward
<1>6. brief'.version <= Slack'
  BY <1>1, <1>3, <1>5 DEF Counting
<1>7. Counting'
  BY <1>1, <1>2, <1>5, <1>6, CountingStep DEF Onward
<1>8. QED
  BY <1>1, <1>4, <1>7 DEF OrderInv

(* The insert of a proposal lets its handler promote it; that of a final   *)
(* event finds the proposal in the log; that of an intent update raises    *)
(* both the count of the log and the number of those not yet reduced.      *)
LEMMA AppendOrder ==
    ASSUME OrderInv, NEW q \in Requests, AppendEvent(q)
    PROVE  OrderInv'
<1> DEFINE e == [type |-> req[q].type, actor |-> req[q].actor, run |-> req[q].run,
                 intentVersion |-> req[q].intentVersion, version |-> req[q].version, by |-> q]
           r == [req[q] EXCEPT !.pc =
                    IF req[q].type = "BeliefProposed" THEN "arbitrate" ELSE "reduce"]
           n == Len(log) + 1
<1>1. IInv /\ IInv' /\ req[q] \in Request /\ Promotions /\ Counting
  BY HandleStep DEF OrderInv, Handle, IInv, TypeOK
<1>2. /\ r.pc = IF req[q].type = "BeliefProposed" THEN "arbitrate" ELSE "reduce"
      /\ r.type = req[q].type /\ r.rest = req[q].rest
  BY <1>1 DEF Request
<1>3. Becomes(q, r) /\ log' = Append(log, e) /\ brief' = brief /\ restored' = restored
  BY DEF AppendEvent, history
<1>4. e.type = req[q].type /\ e.by = q /\ e.version = req[q].version /\ e \in LogEntry
  BY <1>1 DEF Request, LogEntry
<1> HIDE DEF r, e
<1>5. req[q].pc = "append"
  BY DEF AppendEvent, At
<1>6. /\ Len(log) \in Nat /\ DOMAIN log = 1..Len(log) /\ DOMAIN log' = 1..n
      /\ \A i \in 1..Len(log) : log'[i] = log[i]
      /\ log'[n] = e
  BY <1>1, <1>3, <1>4 DEF IInv, TypeOK
<1>7. \A p \in Requests : ProposedBy(p) \subseteq ProposedBy(p)'
  BY <1>6 DEF ProposedBy
<1>8. \A p \in Requests : req'[p] = IF p = q THEN r ELSE req[p]
  BY <1>1, <1>3, Others
<1>9. ASSUME NEW p \in Requests PROVE Proposed(p)'
  <2>1. CASE p = q
    <3>1. req'[p] = r /\ r.pc # "append"
      BY <1>2, <1>8, <2>1
    <3>2. CASE req[q].type = "BeliefProposed"
      <4>1. n \in ProposedBy(q)'
        BY <1>4, <1>6, <3>2 DEF ProposedBy
      <4>2. QED
        BY <2>1, <3>1, <4>1 DEF Proposed, At
    <3>3. CASE req[q].type # "BeliefProposed"
      <4>1. Promotes(r) => Promotes(req[q])
        BY <1>2, <3>3 DEF Promotes
      <4>2. Promotes(r) => ProposedBy(q)' # {}
        BY <1>1, <1>7, <4>1 DEF Promotions, Proposed
      <4>3. QED
        BY <2>1, <3>1, <4>2 DEF Proposed, At, Promotes
    <3>4. QED
      BY <3>2, <3>3
  <2>2. CASE p # q
    <3>1. req'[p] = req[p] /\ Proposed(p)
      BY <1>1, <1>8, <2>2 DEF Promotions
    <3>2. \A j \in ProposedBy(p) : log'[j] = log[j]
      BY <1>6 DEF ProposedBy
    <3>3. Promotes(req[p]) => ProposedBy(p)' # {}
      BY <1>7, <3>1 DEF Proposed
    <3>4. ASSUME At(p, "append"), req[p].type \in FinalTypes
          PROVE  \E j \in ProposedBy(p)' : log'[j].version < req[p].version
      BY <1>7, <3>1, <3>2, <3>4 DEF Proposed
    <3>5. QED
      BY <3>1, <3>3, <3>4 DEF Proposed, Promotes, At
  <2>3. QED
    BY <2>1, <2>2
<1>10. PromotedAfterProposal'
  <2> SUFFICES ASSUME NEW i \in 1..n, log'[i].type \in FinalTypes,
                      log'[i].actor = "kernel_manager"
               PROVE  \E j \in 1..(i - 1) : /\ log'[j].type = "BeliefProposed"
                                            /\ log'[j].by = log'[i].by
                                            /\ log'[j].version < log'[i].version
    BY <1>6 DEF PromotedAfterProposal, FinalTypes
  <2>1. CASE i = n
    <3>1. PICK j \in ProposedBy(q) : log[j].version < req[q].version
      BY <1>1, <1>4, <1>5, <1>6, <2>1 DEF Promotions, Proposed, At
    <3>2. /\ j \in 1..Len(log) /\ log'[j] = log[j]
          /\ log[j].type = "BeliefProposed" /\ log[j].by = q
      BY <1>6, <3>1 DEF ProposedBy
    <3>3. j \in 1..(i - 1)
      BY <1>6, <2>1, <3>2
    <3>4. QED
      BY <1>4, <1>6, <2>1, <3>1, <3>2, <3>3
  <2>2. CASE i # n
    <3>1. i \in 1..Len(log) /\ log'[i] = log[i]
      BY <1>6, <2>2
    <3>2. PICK j \in 1..(i - 1) : /\ log[j].type = "BeliefProposed"
                                  /\ log[j].by = log[i].by
                                  /\ log[j].version < log[i].version
      BY <1>1, <1>6, <3>1 DEF Promotions, PromotedAfterProposal, FinalTypes
    <3>3. log'[j] = log[j]
      BY <1>6, <3>1, <3>2
    <3>4. QED
      BY <3>1, <3>2, <3>3
  <2>3. QED
    BY <2>1, <2>2
<1>11. IsFiniteSet(Unreduced)' /\ Slack' = Slack
  <2>0. /\ IsFiniteSet(Unreduced) /\ IsFiniteSet(IntentsLogged)
        /\ Cardinality(IntentsLogged) \in Nat /\ Cardinality(Unreduced) \in Nat
        /\ restored \in Nat
    BY <1>1, SlackType DEF Counting
  <2>1. q \notin Unreduced /\ n \notin IntentsLogged
    BY <1>5, <1>6 DEF Unreduced, IntentsLogged, At
  <2>2. CASE req[q].type = "IntentUpdated"
    <3>1. Unreduced' = Unreduced \union {q}
      BY <1>2, <1>5, <1>8, <2>2 DEF Unreduced, At
    <3>2. IntentsLogged' = IntentsLogged \union {n}
      BY <1>4, <1>6, <2>2 DEF IntentsLogged
    <3>3. /\ IsFiniteSet(Unreduced)'
          /\ Cardinality(Unreduced)' = Cardinality(Unreduced) + 1
          /\ Cardinality(IntentsLogged)' = Cardinality(IntentsLogged) + 1
      BY <2>0, <2>1, <3>1, <3>2, FS_AddElement
    <3>4. QED
      BY <1>3, <2>0, <3>3 DEF Slack
  <2>3. CASE req[q].type # "IntentUpdated"
    <3>1. Unreduced' = Unreduced
      BY <1>2, <1>5, <1>8, <2>3 DEF Unreduced, At
    <3>2. IntentsLogged' = IntentsLogged
      BY <1>4, <1>6, <2>3 DEF IntentsLogged
    <3>3. QED
      BY <1>3, <2>0, <3>1, <3>2 DEF Slack
  <2>4. QED
    BY <2>2, <2>3
<1>12. Counting'
  <2>1. brief'.version <= Slack' /\ r.pc \notin {"saveBrief", "restoreBrief"}
    BY <1>1, <1>2, <1>3, <1>11 DEF Counting
  <2>2. QED
    BY <1>1, <1>3, <1>11, <2>1, CountingStep
<1>13. QED
  BY <1>1, <1>9, <1>10, <1>12 DEF OrderInv, Promotions

(* A crash drops the handlers, and with them what was not reduced.         *)
LEMMA CrashOrder ==
    ASSUME OrderInv, Crash
    PROVE  OrderInv'
<1>1. IInv /\ IInv' /\ Promotions /\ Counting
  BY CrashStep DEF OrderInv
<1>2. /\ log' = log /\ brief' = brief /\ restored' = restored
      /\ \A p \in Requests : req'[p] = Finished \/ (p \notin InFlight /\ req'[p] = req[p])
  BY DEF Crash
<1>3. \A p \in Requests : ProposedBy(p)' = ProposedBy(p)
  BY <1>2 DEF ProposedBy
<1>4. Harmless(Finished)
  BY FinishedHarmless
<1>5. ASSUME NEW p \in Requests
      PROVE  /\ Proposed(p)'
             /\ req'[p].pc \notin {"append", "reduce", "saveBrief", "restoreBrief"}
  <2>1. CASE req'[p] = Finished
    BY <1>4, <2>1 DEF Harmless, Proposed, Promotes, At
  <2>2. CASE req'[p] # Finished
    <3>1. req'[p] = req[p] /\ req[p].pc \in {"idle", "done"} /\ Proposed(p)
      BY <1>1, <1>2, <2>2 DEF InFlight, Promotions
    <3>2. QED
      BY <1>2, <1>3, <3>1 DEF Proposed, Promotes, At
  <2>3. QED
    BY <2>1, <2>2
<1>6. PromotedAfterProposal'
  BY <1>1, <1>2 DEF Promotions, PromotedAfterProposal
<1>7. Unreduced' = {} /\ IntentsLogged' = IntentsLogged
  BY <1>2, <1>5 DEF Unreduced, IntentsLogged, At
<1>8. IsFiniteSet(Unreduced)' /\ Cardinality(Unreduced)' = 0
  BY <1>7, FS_EmptySet
<1>9. brief'.version <= Slack'
  <2>1. Slack' = Cardinality(IntentsLogged) + restored
    BY <1>1, <1>2, <1>7, <1>8, SlackType DEF Slack, Counting
  <2>2. /\ brief.version <= Cardinality(IntentsLogged) + restored - Cardinality(Unreduced)
        /\ brief.version \in Nat
    BY <1>1 DEF Counting, Slack, IInv, TypeOK, Brief
  <2>3. QED
    BY <1>1, <1>2, <2>1, <2>2, SlackType DEF Counting
<1>10. Counting'
  BY <1>5, <1>8, <1>9 DEF Counting, At
<1>11. QED
  BY <1>1, <1>5, <1>6, <1>10 DEF OrderInv, Promotions

LEMMA OrderStep == OrderInv /\ [Next]_vars => OrderInv'
<1> SUFFICES ASSUME OrderInv, [Next]_vars PROVE OrderInv'
  OBVIOUS
<1>1. CASE Crash
  BY <1>1, CrashOrder
<1>2. ASSUME NEW q \in Requests, Receive(q) \/ Handle(q) PROVE OrderInv'
  <2>1. Handle(q) => \/ Elsewhere(q) \/ RestoreRead(q) \/ RestoreBrief(q)
                     \/ AssignMetadata(q) \/ AppendEvent(q) \/ Reduce(q) \/ SaveBrief(q)
    BY DEF Handle, Elsewhere
  <2>2. QED
    BY <1>2, <2>1, ReceiveOrder, ElsewhereOrder, RestoreReadOrder, RestoreBriefOrder,
       AssignOrder, AppendOrder, ReduceOrder, SaveBriefOrder
<1>3. CASE UNCHANGED vars
  <2>1. IInv'
    BY <1>3, IInvStep DEF OrderInv
  <2>2. log' = log /\ req' = req /\ brief' = brief /\ restored' = restored
    BY <1>3 DEF vars, history
  <2>3. \A p \in Requests : Proposed(p)' <=> Proposed(p)
    BY <2>2 DEF Proposed, ProposedBy, Promotes, At
  <2>4. Promotions'
    BY <2>2, <2>3 DEF OrderInv, Promotions, PromotedAfterProposal
  <2>5. Unreduced' = Unreduced /\ Slack' = Slack
    BY <2>2 DEF Unreduced, Slack, IntentsLogged, At
  <2>6. Counting'
    BY <2>2, <2>5 DEF OrderInv, Counting, At
  <2>7. QED
    BY <2>1, <2>4, <2>6 DEF OrderInv
<1>4. QED
  BY <1>1, <1>2, <1>3 DEF Next

LEMMA OrderAlways == Spec => []OrderInv
BY OrderInit, OrderStep, PTL DEF Spec

-----------------------------------------------------------------------------
(* However many requests log in between, and wherever a crash falls: a     *)
(* final event follows the proposal it comes from, with a higher version.  *)
THEOREM FinalFollowsProposal == Spec => []PromotedAfterProposal
<1>1. OrderInv => PromotedAfterProposal
  BY DEF OrderInv, Promotions
<1>2. QED
  BY <1>1, OrderAlways, PTL

(* However many intent updates are logged, reduced and saved out of turn:  *)
(* the brief never counts more of them than the log holds.                 *)
THEOREM BriefStaysBehind == Spec => []BriefBehindLog
<1>1. ASSUME OrderInv PROVE BriefBehindLog
  <2>1. /\ Cardinality(IntentsLogged) \in Nat /\ Cardinality(Unreduced) \in Nat
        /\ restored \in Nat /\ brief.version \in Nat
    BY <1>1, SlackType DEF OrderInv, Counting, IInv, TypeOK, Brief
  <2>2. brief.version <= Cardinality(IntentsLogged) + restored - Cardinality(Unreduced)
    BY <1>1 DEF OrderInv, Counting, Slack
  <2>3. QED
    BY <2>1, <2>2 DEF BriefBehindLog
<1>2. OrderInv => BriefBehindLog
  BY <1>1
<1>3. QED
  BY <1>2, OrderAlways, PTL
=============================================================================
