--------------------------- MODULE Approval_proofs ---------------------------
(* Proofs about Approval for any number of handlers, approvals, events,    *)
(* rebuilds and crashes, and any limits of the searches.                   *)
EXTENDS Approval, FiniteSetTheorems, SequenceTheorems, TLAPS

-----------------------------------------------------------------------------
(* The invariant.                                                          *)

RowsType ==
    /\ approvals \in [Approvals -> Statuses]
    /\ log \in Seq(Events)
    /\ notifications \in Seq(Notifications)

CountsType ==
    /\ reach \in 0..ReplayLimit
    /\ rebuilds \in 0..MaxRebuilds /\ crashes \in 0..MaxCrashes
    /\ raced \in SUBSET Approvals /\ unsure \in SUBSET Approvals /\ disturbed \in BOOLEAN

(* A call is of its type, and only rebuilds clear and replay.              *)
CallFits(c) == c \in Calls /\ (c.pc \in {"clear", "replay"} => c.rebuild)

(* What a call works on.                                                   *)
Touched(c) ==
    IF c.pc = "idle" THEN {}
    ELSE IF c.rebuild THEN Approvals ELSE {c.event.approval}

(* Where two calls work on one approval, that is known.                    *)
Apart ==
    \A g, h \in Handlers : g # h => Touched(call[g]) \intersect Touched(call[h]) \subseteq raced

(* A request about to be saved, by no rebuild and unraced, found no        *)
(* decision, and there is none yet.                                        *)
Undecided(c) ==
    c.pc = "save" /\ ~c.rebuild /\ c.event.kind = "requested" /\ c.event.approval \notin raced
       => ~Decided(approvals[c.event.approval])

IInv ==
    /\ RowsType
    /\ CountsType
    /\ call \in [Handlers -> Calls]
    /\ \A h \in Handlers : CallFits(call[h])
    /\ Apart
    /\ \A h \in Handlers : Undecided(call[h])

LEMMA IInvTypes == IInv => TypeOK
BY DEF IInv, RowsType, CountsType, CallFits, TypeOK

LEMMA TouchesTouched ==
    ASSUME NEW h \in Handlers
    PROVE  Touches(h) = Touched(call[h])
BY DEF Touches, Touched, Busy, At

LEMMA BlankFits == CallFits(Blank) /\ Touched(Blank) = {} /\ Blank.pc = "idle"
<1>1. (CHOOSE a \in Approvals : TRUE) \in Approvals
  BY ApprovalAssumption
<1>2. [kind |-> "requested", approval |-> CHOOSE a \in Approvals : TRUE] \in Events
  BY <1>1 DEF Events, EventKinds
<1>3. <<>> \in Seq(Events)
  OBVIOUS
<1>4. QED
  BY <1>2, <1>3 DEF Blank, CallFits, Calls, PCs, Touched

(* A call that goes on, with the same approval in hand or fewer, keeps the *)
(* calls apart.                                                            *)
LEMMA Continues ==
    ASSUME IInv, NEW h \in Handlers, NEW c, CallFits(c), Goes(h, c),
           Touched(c) \subseteq Touched(call[h]), raced' = raced
    PROVE  /\ call' \in [Handlers -> Calls]
           /\ \A g \in Handlers : CallFits(call'[g])
           /\ Apart'
           /\ call'[h] = c /\ \A g \in Handlers \ {h} : call'[g] = call[g]
<1>1. call'[h] = c /\ \A g \in Handlers \ {h} : call'[g] = call[g]
  BY DEF Goes, IInv
<1>2. call' \in [Handlers -> Calls]
  BY DEF Goes, IInv, CallFits
<1>3. \A g \in Handlers : CallFits(call'[g])
  BY <1>1 DEF IInv
<1>4. \A g \in Handlers : Touched(call'[g]) \subseteq Touched(call[g])
  BY <1>1
<1>5. Apart'
  <2>1. \A f, g \in Handlers : f # g => Touched(call[f]) \intersect Touched(call[g]) \subseteq raced
    BY DEF IInv, Apart
  <2>2. \A f, g \in Handlers : f # g => Touched(call'[f]) \intersect Touched(call'[g]) \subseteq raced'
    BY <1>4, <2>1
  <2>3. QED
    BY <2>2 DEF Apart
<1>6. QED
  BY <1>1, <1>2, <1>3, <1>5

(* Such a step keeps the invariant when it changes no row.                 *)
LEMMA LooksOnly ==
    ASSUME IInv, NEW h \in Handlers, NEW c, CallFits(c), Goes(h, c),
           Touched(c) \subseteq Touched(call[h]), Undecided(c),
           UNCHANGED <<approvals, reach, rebuilds, crashes, raced, disturbed>>,
           log' \in Seq(Events), notifications' \in Seq(Notifications),
           unsure' \in SUBSET Approvals
    PROVE  IInv'
<1>1. RowsType' /\ CountsType'
  BY DEF IInv, RowsType, CountsType
<1>2. \A g \in Handlers : Undecided(call'[g])
  BY Continues DEF IInv
<1>3. (\A g \in Handlers : Undecided(call[g]))'
  BY <1>2 DEF Undecided
<1>4. QED
  BY <1>1, <1>3, Continues DEF IInv

(* A call that starts makes the approvals known that others work on.       *)
LEMMA Begins ==
    ASSUME IInv, NEW h \in Handlers, NEW c, CallFits(c), Starts(h, c),
           c.pc \notin {"idle", "save"},
           UNCHANGED <<approvals, log, notifications, reach, crashes>>,
           rebuilds' \in 0..MaxRebuilds
    PROVE  IInv'
<1> DEFINE touched == IF c.rebuild THEN Approvals ELSE {c.event.approval}
           contended == Doubtful(c)
<1>1. /\ Goes(h, c) /\ raced' = raced \union contended /\ unsure' = unsure \union contended
      /\ disturbed' = IF c.rebuild THEN contended # {}
                      ELSE disturbed \/ \E g \in Handlers : call[g].rebuild
  BY DEF Starts
<1>2. call'[h] = c /\ \A g \in Handlers \ {h} : call'[g] = call[g]
  BY <1>1 DEF Goes, IInv
<1>3. call' \in [Handlers -> Calls]
  BY <1>1 DEF Goes, IInv, CallFits
<1>4. \A g \in Handlers : CallFits(call'[g])
  BY <1>2 DEF IInv
<1>5. touched \subseteq Approvals /\ Touched(c) = touched
  BY DEF CallFits, Calls, Events, Touched
<1>6. Apart'
  <2>1. \A g \in Handlers \ {h} : touched \intersect Touched(call[g]) \subseteq contended
    BY TouchesTouched DEF Doubtful
  <2>2. \A f, g \in Handlers : f # g => Touched(call[f]) \intersect Touched(call[g]) \subseteq raced
    BY DEF IInv, Apart
  <2> HIDE DEF contended, touched
  <2>3. \A f, g \in Handlers : f # g => Touched(call'[f]) \intersect Touched(call'[g]) \subseteq raced'
    BY <1>1, <1>2, <1>5, <2>1, <2>2
  <2>4. QED
    BY <2>3 DEF Apart
<1>7. (\A g \in Handlers : Undecided(call[g]))'
  <2>1. raced \subseteq raced'
    BY <1>1
  <2>2. \A g \in Handlers \ {h} : Undecided(call[g])
    BY DEF IInv
  <2>3. ASSUME NEW g \in Handlers
        PROVE  call'[g].pc = "save" /\ ~call'[g].rebuild /\ call'[g].event.kind = "requested"
                 /\ call'[g].event.approval \notin raced' => ~Decided(approvals'[call'[g].event.approval])
    BY <1>2, <2>1, <2>2 DEF Undecided
  <2>4. QED
    BY <2>3 DEF Undecided
<1>8. RowsType'
  BY DEF IInv, RowsType
<1>9. CountsType'
  <2>1. contended \subseteq Approvals
    BY <1>5 DEF Doubtful
  <2>2. raced' \in SUBSET Approvals /\ unsure' \in SUBSET Approvals
    BY <1>1, <2>1 DEF IInv, CountsType
  <2>3. disturbed' \in BOOLEAN
    BY <1>1 DEF IInv, CountsType
  <2>4. QED
    BY <2>2, <2>3 DEF IInv, CountsType
<1>10. QED
  BY <1>3, <1>4, <1>6, <1>7, <1>8, <1>9 DEF IInv

(* What is known of the call of a handler.                                 *)
LEMMA Holds ==
    ASSUME IInv, NEW h \in Handlers
    PROVE  /\ CallFits(call[h]) /\ call[h] \in Calls /\ Undecided(call[h])
           /\ call[h].event \in Events /\ call[h].event.approval \in Approvals
           /\ call[h].event.kind \in EventKinds
           /\ call[h].rebuild \in BOOLEAN
           /\ log \in Seq(Events) /\ notifications \in Seq(Notifications)
           /\ unsure \in SUBSET Approvals
BY DEF IInv, CallFits, Calls, Events, RowsType, CountsType

(* A handler that becomes idle keeps the invariant.                        *)
LEMMA Ends ==
    ASSUME IInv, NEW h \in Handlers, Idles(h),
           UNCHANGED <<approvals, reach, rebuilds, crashes, raced, disturbed>>,
           log' \in Seq(Events), notifications' \in Seq(Notifications),
           unsure' \in SUBSET Approvals
    PROVE  IInv'
<1>1. Goes(h, Blank)
  BY DEF Idles
<1>2. Undecided(Blank)
  BY BlankFits DEF Undecided
<1>3. QED
  BY <1>1, <1>2, BlankFits, LooksOnly

(* After the row, a call goes on with the event it has in hand.            *)
LEMMA AfterRowFits ==
    ASSUME IInv, NEW h \in Handlers, call[h].pc # "idle"
    PROVE  /\ CallFits(AfterRow(call[h]))
           /\ Touched(AfterRow(call[h])) = Touched(call[h])
           /\ AfterRow(call[h]).pc # "save"
<1>1. AfterRow(call[h]).pc \in {"replay", "check", "list"}
      /\ (AfterRow(call[h]).pc = "replay" => call[h].rebuild)
  BY Holds DEF AfterRow, CallFits, Calls
<1>2. AfterRow(call[h]) = [call[h] EXCEPT !.pc = AfterRow(call[h]).pc]
  BY Holds DEF AfterRow, Calls
<1> DEFINE pc == AfterRow(call[h]).pc
<1> HIDE DEF pc
<1>3. CallFits([call[h] EXCEPT !.pc = pc])
  BY <1>1, Holds DEF CallFits, Calls, PCs, pc
<1>4. Touched([call[h] EXCEPT !.pc = pc]) = Touched(call[h])
  BY <1>1, Holds DEF Touched, Calls, pc
<1>5. QED
  BY <1>1, <1>2, <1>3, <1>4 DEF pc

(* Moving on to another place with the same event.                         *)
LEMMA MovesTo ==
    ASSUME IInv, NEW h \in Handlers, call[h].pc # "idle",
           NEW pc \in PCs \ {"idle", "clear", "replay"}
    PROVE  /\ CallFits([call[h] EXCEPT !.pc = pc])
           /\ Touched([call[h] EXCEPT !.pc = pc]) = Touched(call[h])
BY Holds DEF CallFits, Calls, Touched

(* A status of a notification is set, or there is none at the place.       *)
LEMMA SetStatusType ==
    ASSUME IInv, NEW i, NEW status \in {"acknowledged", "resolved"}, SetStatus(i, status)
    PROVE  notifications' \in Seq(Notifications)
<1>1. notifications \in Seq(Notifications)
  BY DEF IInv, RowsType
<1>2. CASE i \in DOMAIN notifications
  <2>1. notifications[i] \in Notifications
    BY <1>1, <1>2
  <2>2. [notifications[i] EXCEPT !.status = status] \in Notifications
    BY <2>1 DEF Notifications
  <2>3. QED
    BY <1>1, <1>2, <2>2, ExceptSeq DEF SetStatus
<1>3. CASE i \notin DOMAIN notifications
  <2>1. notifications' = [notifications EXCEPT ![i] = [notifications[i] EXCEPT !.status = status]]
    BY DEF SetStatus
  <2>2. DOMAIN notifications' = 1..Len(notifications) /\ DOMAIN notifications = 1..Len(notifications)
    BY <1>1, <2>1
  <2>3. \A j \in 1..Len(notifications) : notifications'[j] = notifications[j]
    BY <1>3, <2>1, <2>2
  <2>4. notifications' = [j \in 1..Len(notifications) |-> notifications[j]]
    BY <2>1, <2>2, <2>3
  <2>5. notifications' = notifications
    BY <1>1, <2>4
  <2>6. QED
    BY <1>1, <2>5
<1>4. QED
  BY <1>2, <1>3

-----------------------------------------------------------------------------
(* The steps.                                                              *)

(* A rebuild reads a list of events: the log, or else not all of it.       *)
LEMMA OldestEvents ==
    ASSUME IInv
    PROVE  Oldest \in Seq(Events)
<1>1. log \in Seq(Events) /\ reach \in Nat
  BY BoundAssumption DEF IInv, RowsType, CountsType
<1>2. CASE Len(log) < reach
  <2>1. Oldest = SubSeq(log, 1, Len(log))
    BY <1>2 DEF Oldest
  <2>2. QED
    BY <1>1, <2>1
<1>3. CASE ~(Len(log) < reach)
  <2>1. Oldest = SubSeq(log, 1, reach) /\ reach <= Len(log)
    BY <1>1, <1>3 DEF Oldest
  <2>2. \A i \in 1..reach : log[i] \in Events
    BY <1>1, <2>1
  <2>3. QED
    BY <1>1, <2>1, <2>2
<1>4. QED
  BY <1>2, <1>3

LEMMA BeginSteps ==
    ASSUME IInv, NEW h \in Handlers,
           \/ \E a \in Approvals : Request(h, a) \/ \E d \in Decisions : DecideApprovalRequest(h, a, d)
           \/ Rebuild(h)
    PROVE  IInv'
<1>1. CASE \E a \in Approvals, kind \in EventKinds :
             /\ Starts(h, [Blank EXCEPT !.pc = "append", !.event = [kind |-> kind, approval |-> a]])
             /\ UNCHANGED <<approvals, log, notifications, reach, rebuilds, crashes>>
  <2>1. PICK a \in Approvals, kind \in EventKinds :
          /\ Starts(h, [Blank EXCEPT !.pc = "append", !.event = [kind |-> kind, approval |-> a]])
          /\ UNCHANGED <<approvals, log, notifications, reach, rebuilds, crashes>>
    BY <1>1
  <2> DEFINE c == [Blank EXCEPT !.pc = "append", !.event = [kind |-> kind, approval |-> a]]
  <2>2. [kind |-> kind, approval |-> a] \in Events
    BY DEF Events
  <2>3. CallFits(c) /\ c.pc \notin {"idle", "save"}
    BY <2>2, BlankFits DEF CallFits, Calls, PCs
  <2>4. Starts(h, c)
    BY <2>1
  <2>5. rebuilds' \in 0..MaxRebuilds
    BY <2>1 DEF IInv, CountsType
  <2> HIDE DEF c
  <2>6. QED
    BY <2>1, <2>3, <2>4, <2>5, Begins
<1>2. CASE Rebuild(h)
  <2> DEFINE c == [Blank EXCEPT !.pc = "clear", !.replay = Oldest, !.rebuild = TRUE]
  <2>1. CallFits(c) /\ c.pc \notin {"idle", "save"}
    BY OldestEvents, BlankFits DEF CallFits, Calls, PCs
  <2>2. Starts(h, c)
    BY <1>2 DEF Rebuild
  <2>3. rebuilds' \in 0..MaxRebuilds
    BY <1>2, BoundAssumption DEF Rebuild, IInv, CountsType
  <2> HIDE DEF c
  <2>4. QED
    BY <1>2, <2>1, <2>2, <2>3, Begins DEF Rebuild
<1>3. "requested" \in EventKinds /\ Decisions \subseteq EventKinds
  BY DEF EventKinds
<1>4. QED
  BY <1>1, <1>2, <1>3 DEF Request, DecideApprovalRequest

LEMMA AppendEventStep ==
    ASSUME IInv, NEW h \in Handlers, AppendEvent(h)
    PROVE  IInv'
<1> DEFINE c == [call[h] EXCEPT !.pc = "read"]
<1>1. call[h].pc # "idle" /\ log' \in Seq(Events)
  BY Holds DEF AppendEvent, At
<1>2. CallFits(c) /\ Touched(c) = Touched(call[h])
  BY <1>1, MovesTo DEF PCs
<1>3. Undecided(c)
  BY Holds DEF Undecided, Calls
<1>4. Goes(h, c)
  BY DEF AppendEvent
<1> HIDE DEF c
<1>5. QED
  BY <1>1, <1>2, <1>3, <1>4, Holds, LooksOnly DEF AppendEvent

(* A request goes on to save only when it found no decision.               *)
LEMMA ReadApprovalStep ==
    ASSUME IInv, NEW h \in Handlers, ReadApproval(h)
    PROVE  IInv'
<1> DEFINE status == approvals[call[h].event.approval]
           skips == IF call[h].event.kind = "requested" THEN Decided(status) ELSE status = "absent"
           c == [call[h] EXCEPT !.pc = "save"]
<1>1. call[h].pc # "idle"
  BY DEF ReadApproval, At
<1>2. CASE skips
  <2>1. Goes(h, AfterRow(call[h]))
    BY <1>2 DEF ReadApproval
  <2>2. Undecided(AfterRow(call[h]))
    BY <1>1, AfterRowFits DEF Undecided
  <2>3. QED
    BY <1>1, <2>1, <2>2, Holds, AfterRowFits, LooksOnly DEF ReadApproval
<1>3. CASE ~skips
  <2>1. Goes(h, c)
    BY <1>3 DEF ReadApproval
  <2>2. CallFits(c) /\ Touched(c) = Touched(call[h])
    BY <1>1, MovesTo DEF PCs
  <2>3. Undecided(c)
    BY <1>3, Holds DEF Undecided, Calls
  <2> HIDE DEF c
  <2>4. QED
    BY <2>1, <2>2, <2>3, Holds, LooksOnly DEF ReadApproval
<1>4. QED
  BY <1>2, <1>3

(* Another request about to save for the same approval is raced.           *)
LEMMA SaveApprovalStep ==
    ASSUME IInv, NEW h \in Handlers, SaveApproval(h)
    PROVE  IInv'
<1> DEFINE a == call[h].event.approval
           c == AfterRow(call[h])
<1>1. call[h].pc = "save" /\ Goes(h, c)
  BY DEF SaveApproval, At
<1>2. /\ CallFits(c) /\ Touched(c) = Touched(call[h]) /\ c.pc # "save"
      /\ a \in Approvals /\ a \in Touched(call[h])
  BY <1>1, AfterRowFits, Holds DEF Touched
<1>3. /\ raced' = raced /\ \A b \in Approvals \ {a} : approvals'[b] = approvals[b]
      /\ approvals' \in [Approvals -> Statuses]
  BY <1>2, Holds DEF SaveApproval, IInv, RowsType, Statuses, EventKinds
<1> HIDE DEF c
<1>4. /\ call' \in [Handlers -> Calls] /\ Apart' /\ \A g \in Handlers : CallFits(call'[g])
      /\ call'[h] = c /\ \A g \in Handlers \ {h} : call'[g] = call[g]
  BY <1>1, <1>2, <1>3, Continues
<1> HIDE DEF a
<1>5. ASSUME NEW g \in Handlers, call'[g].pc = "save", ~call'[g].rebuild,
             call'[g].event.kind = "requested", call'[g].event.approval \notin raced'
      PROVE  ~Decided(approvals'[call'[g].event.approval])
  <2>1. g # h /\ call'[g] = call[g]
    BY <1>2, <1>4, <1>5
  <2>2. call[g].event.approval \in Touched(call[g])
    BY <1>5, <2>1 DEF Touched
  <2>3. Touched(call[g]) \intersect Touched(call[h]) \subseteq raced
    BY <2>1 DEF IInv, Apart
  <2>4. call[g].event.approval # a
    BY <1>2, <1>3, <1>5, <2>1, <2>2, <2>3
  <2>5. approvals'[call[g].event.approval] = approvals[call[g].event.approval]
    BY <1>3, <2>4, Holds
  <2>6. ~Decided(approvals[call[g].event.approval])
    BY <1>3, <1>5, <2>1, Holds DEF Undecided
  <2>7. QED
    BY <2>1, <2>5, <2>6
<1>6. (\A g \in Handlers : Undecided(call[g]))'
  BY <1>5 DEF Undecided
<1>7. RowsType' /\ CountsType'
  BY <1>3 DEF SaveApproval, IInv, RowsType, CountsType
<1>8. QED
  BY <1>4, <1>6, <1>7 DEF IInv

LEMMA CheckSteps ==
    ASSUME IInv, NEW h \in Handlers, CheckApproval(h) \/ FindExisting(h)
    PROVE  IInv'
<1>1. PICK pc \in {"find", "create"} : Idles(h) \/ Goes(h, [call[h] EXCEPT !.pc = pc])
  BY DEF CheckApproval, FindExisting
<1>2. /\ call[h].pc # "idle"
      /\ UNCHANGED <<approvals, log, notifications, reach, rebuilds, crashes, raced, unsure, disturbed>>
  BY DEF CheckApproval, FindExisting, At
<1> DEFINE c == [call[h] EXCEPT !.pc = pc]
<1>3. CallFits(c) /\ Touched(c) = Touched(call[h])
  BY <1>1, <1>2, MovesTo DEF PCs
<1>4. Undecided(c)
  BY <1>1, Holds DEF Undecided, Calls
<1>5. Idles(h) \/ Goes(h, c)
  BY <1>1
<1> HIDE DEF c
<1>6. QED
  BY <1>2, <1>3, <1>4, <1>5, Holds, Ends, LooksOnly

LEMMA CreateNotificationStep ==
    ASSUME IInv, NEW h \in Handlers, CreateNotification(h)
    PROVE  IInv'
<1>1. [approval |-> call[h].event.approval, status |-> "pending"] \in Notifications
  BY Holds DEF Notifications
<1>2. notifications' \in Seq(Notifications)
  BY <1>1, Holds DEF CreateNotification
<1>3. QED
  BY <1>2, Holds, Ends DEF CreateNotification

LEMMA ListNotificationsStep ==
    ASSUME IInv, NEW h \in Handlers, ListNotifications(h)
    PROVE  IInv'
<1> DEFINE open == Resolvable(call[h].event.approval)
           c == [call[h] EXCEPT !.pc = "resolve", !.open = open]
<1>1. open \in SUBSET Nat
  BY Holds DEF Resolvable, About
<1>2. call[h].pc # "idle" /\ Goes(h, c)
  BY DEF ListNotifications, At
<1> HIDE DEF open
<1>3. CallFits(c) /\ Touched(c) = Touched(call[h]) /\ Undecided(c)
  BY <1>1, <1>2, Holds DEF CallFits, Calls, PCs, Touched, Undecided
<1> HIDE DEF c
<1>4. QED
  BY <1>2, <1>3, Holds, LooksOnly DEF ListNotifications

LEMMA ResolveNotificationStep ==
    ASSUME IInv, NEW h \in Handlers, ResolveNotification(h)
    PROVE  IInv'
<1>1. CASE call[h].open = {}
  BY <1>1, Holds, Ends DEF ResolveNotification
<1>2. CASE call[h].open # {}
  <2>1. PICK i \in call[h].open :
          SetStatus(i, "resolved") /\ Goes(h, [call[h] EXCEPT !.open = call[h].open \ {i}])
    BY <1>2, Holds DEF ResolveNotification, Calls
  <2> DEFINE c == [call[h] EXCEPT !.open = call[h].open \ {i}]
  <2>2. CallFits(c) /\ Touched(c) = Touched(call[h]) /\ Undecided(c)
    BY Holds DEF CallFits, Calls, Touched, Undecided, ResolveNotification, At
  <2>3. notifications' \in Seq(Notifications)
    BY <2>1, SetStatusType
  <2>4. Goes(h, c)
    BY <2>1
  <2> HIDE DEF c
  <2>5. QED
    BY <2>2, <2>3, <2>4, Holds, LooksOnly DEF ResolveNotification
<1>3. QED
  BY <1>1, <1>2

(* A rebuild works on every approval: each one another call works on is    *)
(* raced.                                                                  *)
LEMMA ClearStep ==
    ASSUME IInv, NEW h \in Handlers, ClearDerivedState(h)
    PROVE  IInv'
<1> DEFINE c == [call[h] EXCEPT !.pc = "replay"]
<1>1. call[h].rebuild /\ call[h].pc = "clear" /\ Goes(h, c)
  BY Holds DEF ClearDerivedState, At, CallFits
<1>2. CallFits(c) /\ Touched(c) = Touched(call[h]) /\ c.pc = "replay"
  BY <1>1, Holds DEF CallFits, Calls, PCs, Touched
<1> HIDE DEF c
<1>3. raced' = raced /\ \A a \in Approvals : approvals'[a] = "absent"
  BY DEF ClearDerivedState
<1>4. /\ call' \in [Handlers -> Calls] /\ Apart' /\ \A g \in Handlers : CallFits(call'[g])
      /\ call'[h] = c /\ \A g \in Handlers \ {h} : call'[g] = call[g]
  BY <1>1, <1>2, <1>3, Continues
<1>5. (\A g \in Handlers : Undecided(call[g]))'
  <2>1. \A g \in Handlers : call'[g].event.approval \in Approvals
    BY <1>4 DEF Calls, Events
  <2>2. QED
    BY <1>3, <2>1 DEF Undecided, Decided, Decisions
<1>6. RowsType' /\ CountsType'
  BY DEF ClearDerivedState, IInv, RowsType, CountsType, Statuses
<1>7. QED
  BY <1>4, <1>5, <1>6 DEF IInv

LEMMA ReplayStep ==
    ASSUME IInv, NEW h \in Handlers, Replay(h)
    PROVE  IInv'
<1>1. call[h].rebuild /\ call[h].pc = "replay"
  BY Holds DEF Replay, At, CallFits
<1>2. CASE call[h].replay = <<>>
  BY <1>2, Holds, Ends DEF Replay
<1>3. CASE call[h].replay # <<>>
  <2> DEFINE e == Head(call[h].replay)
             left == Tail(call[h].replay)
             c == [call[h] EXCEPT !.pc = "read", !.event = e, !.replay = left]
  <2>1. e \in Events /\ left \in Seq(Events)
    BY <1>3, Holds DEF Calls
  <2>2. Goes(h, c)
    BY <1>3 DEF Replay
  <2> HIDE DEF e, left
  <2>3. CallFits(c) /\ Touched(c) = Touched(call[h]) /\ Undecided(c)
    BY <1>1, <2>1, Holds DEF CallFits, Calls, PCs, Touched, Undecided
  <2> HIDE DEF c
  <2>4. QED
    BY <1>3, <2>2, <2>3, Holds, LooksOnly DEF Replay
<1>4. QED
  BY <1>2, <1>3

LEMMA ObserverSteps ==
    ASSUME IInv, Acknowledge \/ Resolve
    PROVE  IInv'
<1>1. notifications' \in Seq(Notifications)
  BY SetStatusType DEF Acknowledge, Resolve
<1>2. QED
  BY <1>1 DEF Acknowledge, Resolve, IInv, RowsType, CountsType, CallFits, Apart, Undecided

(* An event of another kind touches no row.                                *)
LEMMA OtherEventStep ==
    ASSUME IInv, OtherEvent
    PROVE  IInv'
<1>1. reach' \in 0..ReplayLimit
  <2>1. reach \in 0..ReplayLimit /\ Len(log) \in Nat /\ ReplayLimit \in Nat
    BY BoundAssumption DEF IInv, RowsType, CountsType
  <2>2. QED
    BY <2>1 DEF OtherEvent
<1>2. QED
  BY <1>1 DEF OtherEvent, IInv, RowsType, CountsType, CallFits, Apart, Undecided

LEMMA CrashStep ==
    ASSUME IInv, Crash
    PROVE  IInv'
<1>1. call' = [h \in Handlers |-> Blank]
  BY DEF Crash
<1>2. \A h \in Handlers : call'[h] = Blank
  BY <1>1
<1>3. call' \in [Handlers -> Calls] /\ \A h \in Handlers : CallFits(call'[h])
  BY <1>1, BlankFits DEF CallFits
<1>4. Apart' /\ (\A h \in Handlers : Undecided(call[h]))'
  <2>1. \A g, h \in Handlers : Touched(call'[g]) \intersect Touched(call'[h]) \subseteq raced'
    BY <1>2, BlankFits
  <2>2. \A h \in Handlers : call'[h].pc # "save"
    BY <1>2, BlankFits
  <2>3. QED
    BY <2>1, <2>2 DEF Apart, Undecided
<1>5. UNION {Touches(h) : h \in Handlers} \subseteq Approvals
  BY Holds, TouchesTouched DEF Touched
<1>6. RowsType' /\ CountsType'
  <2>1. crashes' \in 0..MaxCrashes
    BY BoundAssumption DEF Crash, IInv, CountsType
  <2>2. QED
    BY <1>5, <2>1 DEF Crash, IInv, RowsType, CountsType
<1>7. QED
  BY <1>3, <1>4, <1>6 DEF IInv

-----------------------------------------------------------------------------
(* The theorems.                                                           *)

LEMMA IInvInit == Init => IInv
<1> SUFFICES ASSUME Init PROVE IInv
  OBVIOUS
<1>1. RowsType
  BY DEF Init, RowsType, Statuses
<1>2. CountsType
  <2>1. MaxRebuilds \in Nat /\ MaxCrashes \in Nat
    BY BoundAssumption
  <2>2. rebuilds \in 0..MaxRebuilds /\ crashes \in 0..MaxCrashes
    BY <2>1 DEF Init
  <2>2a. reach \in 0..ReplayLimit
    BY BoundAssumption DEF Init
  <2>3. raced \in SUBSET Approvals /\ unsure \in SUBSET Approvals /\ disturbed \in BOOLEAN
    BY DEF Init
  <2>4. QED
    BY <2>2, <2>2a, <2>3 DEF CountsType
<1>3. /\ call \in [Handlers -> Calls]
      /\ \A h \in Handlers : call[h] = Blank
  BY BlankFits DEF Init, CallFits
<1>4. (\A h \in Handlers : CallFits(call[h]) /\ Undecided(call[h])) /\ Apart
  BY <1>3, BlankFits DEF Undecided, Apart
<1>5. QED
  BY <1>1, <1>2, <1>3, <1>4 DEF IInv

LEMMA IInvNext == IInv /\ [Next]_vars => IInv'
<1> SUFFICES ASSUME IInv, [Next]_vars PROVE IInv'
  OBVIOUS
<1>1. CASE UNCHANGED vars
  BY <1>1 DEF vars, IInv, RowsType, CountsType, CallFits, Apart, Undecided
<1>2. CASE Next
  BY <1>2, BeginSteps, AppendEventStep, ReadApprovalStep, SaveApprovalStep, CheckSteps,
     CreateNotificationStep, ListNotificationsStep, ResolveNotificationStep, ClearStep,
     ReplayStep, OtherEventStep, ObserverSteps, CrashStep DEF Next
<1>3. QED
  BY <1>1, <1>2

(* Rows, log, notifications and local variables keep their types.          *)
THEOREM ApprovalTypes == Spec => []TypeOK
<1>1. Spec => []IInv
  BY IInvInit, IInvNext, PTL DEF Spec
<1>2. QED
  BY <1>1, IInvTypes, PTL

(* Outside a rebuild, a decided approval is never taken back to pending,   *)
(* however many requests repeat it, unless calls raced for it.             *)
THEOREM DecisionsStick == Spec => DecisionSticks
<1>1. IInv /\ [Next]_vars =>
        [\A a \in Approvals :
           Decided(approvals[a]) /\ a \notin raced /\ (\A h \in Handlers : ~call[h].rebuild)
              => Decided(approvals'[a])]_vars
  <2> SUFFICES ASSUME IInv, [Next]_vars, NEW a \in Approvals, Decided(approvals[a]),
                      a \notin raced, \A h \in Handlers : ~call[h].rebuild
               PROVE  Decided(approvals'[a])
    OBVIOUS
  <2>1. CASE UNCHANGED approvals
    BY <2>1
  <2>2. CASE \E h \in Handlers : SaveApproval(h)
    <3>1. PICK h \in Handlers : SaveApproval(h)
      BY <2>2
    <3>2. CASE call[h].event.approval = a
      <4>1. call[h].event.kind # "requested"
        BY <3>1, <3>2, Holds DEF SaveApproval, At, Undecided
      <4>2. approvals'[a] = call[h].event.kind
        BY <3>1, <3>2, <4>1 DEF SaveApproval, IInv, RowsType
      <4>3. QED
        BY <4>1, <4>2, Holds DEF EventKinds, Decided
    <3>3. CASE call[h].event.approval # a
      BY <3>1, <3>3 DEF SaveApproval, IInv, RowsType
    <3>4. QED
      BY <3>2, <3>3
  <2>3. CASE \E h \in Handlers : ClearDerivedState(h)
    BY <2>3, Holds DEF ClearDerivedState, At, CallFits
  <2>4. QED
    BY <2>1, <2>2, <2>3 DEF Next, vars, Request, DecideApprovalRequest, AppendEvent, ReadApproval,
       CheckApproval, FindExisting, CreateNotification, ListNotifications, ResolveNotification,
       Rebuild, Replay, OtherEvent, Acknowledge, Resolve, Crash
<1>2. Spec => []IInv
  BY IInvInit, IInvNext, PTL DEF Spec
<1>3. QED
  BY <1>1, <1>2, PTL DEF Spec, DecisionSticks

-----------------------------------------------------------------------------
(* The rows follow the log: what the events in hand still have to do.      *)

(* What the event in hand, once read and not skipped, is about to write.   *)
Written(event) == IF event.kind = "requested" THEN "pending" ELSE event.kind

(* Where a call can be, by the event in hand.                              *)
CallShape(c) ==
    /\ c.rebuild => c.pc \in {"clear", "replay", "read", "save"}
    /\ c.pc \in {"check", "find", "create"} => c.event.kind = "requested"
    /\ c.pc \in {"list", "resolve"} => Decided(c.event.kind)

(* The row of an approval that call c works on: what the call still has to *)
(* do to it makes it follow the log.  A rebuild has reduced the events     *)
(* done, and these with the ones still to replay say what the log says.    *)
InHand(c, a, events) ==
    /\ c.pc = "read" => Derived(events, a) = Reduced(approvals[a], c.event.kind)
    /\ c.pc = "save" => Derived(events, a) = Written(c.event)
    /\ c.pc \notin {"read", "save"} => approvals[a] = Derived(events, a)

RowFits(c, a) ==
    IF ~c.rebuild THEN InHand(c, a, log)
    ELSE IF c.pc = "clear" THEN Derived(c.replay, a) = Derived(log, a)
    ELSE \E done \in Seq(Events) :
            /\ Derived(done \o c.replay, a) = Derived(log, a)
            /\ IF c.event.approval = a THEN InHand(c, a, done)
               ELSE approvals[a] = Derived(done, a)

(* A row is sure where no other call has come between; an undisturbed      *)
(* rebuild makes every row sure.                                           *)
Sure(c, a) == a \notin unsure \/ (c.rebuild /\ ~disturbed)

RInv ==
    /\ unsure \subseteq raced
    /\ \A g, h \in Handlers : g # h => Touched(call[g]) \intersect Touched(call[h]) \subseteq unsure
    /\ \A g, h \in Handlers : g # h /\ call[h].rebuild /\ ~disturbed => call[g].pc = "idle"
    /\ \A h \in Handlers : CallShape(call[h])
    /\ \A a \in Approvals \ unsure : Quiet(a) => approvals[a] = Derived(log, a)
    /\ \A h \in Handlers : \A a \in Touched(call[h]) : Sure(call[h], a) => RowFits(call[h], a)

(* Positions of a list that are not empty have a last one.                 *)
LEMMA LastPosition ==
    ASSUME NEW n \in Nat, NEW S \in SUBSET (1..n), S # {}
    PROVE  \E m \in S : \A j \in S : j <= m
<1> DEFINE From(k) == k..n
           R == StrictSubsetOrdering(1..n)
<1>1. IsFiniteSet(1..n) /\ FiniteSubsetsOf(1..n) = SUBSET (1..n)
  BY FS_Interval, FS_FiniteSubsetsOfFinite
<1>2. IsWellFoundedOn(R, SUBSET (1..n))
  BY <1>1, FS_StrictSubsetOrderingWellFounded
<1>3. \A k \in S : From(k) \in SUBSET (1..n)
  OBVIOUS
<1>4. {From(k) : k \in S} \subseteq SUBSET (1..n) /\ {From(k) : k \in S} # {}
  <2> HIDE DEF From
  <2>1. QED
    BY <1>3
<1>5. \E X \in {From(k) : k \in S} : \A Y \in {From(k) : k \in S} : ~(<<Y, X>> \in R)
  <2> HIDE DEF From, R
  <2>1. QED
    BY <1>2, <1>4, WFMin
<1>6. PICK m \in S : \A j \in S : <<From(j), From(m)>> \notin R
  BY <1>5
<1>7. ASSUME NEW j \in S, j > m PROVE FALSE
  <2>1. From(j) \subseteq From(m) /\ From(j) # From(m)
    BY <1>7
  <2>2. <<From(j), From(m)>> \in R
    BY <1>3, <2>1 DEF StrictSubsetOrdering
  <2>3. QED
    BY <1>6, <2>2
<1>8. QED
  BY <1>7

(* The last decision on an approval.                                       *)
Last(events, a) == CHOOSE j \in Decides(events, a) : \A k \in Decides(events, a) : k <= j

LEMMA LastDecides ==
    ASSUME NEW events \in Seq(Events), NEW a, Decides(events, a) # {}
    PROVE  /\ Last(events, a) \in Decides(events, a)
           /\ \A k \in Decides(events, a) : k <= Last(events, a)
           /\ Derived(events, a) = events[Last(events, a)].kind
           /\ Decided(Derived(events, a))
<1>1. Decides(events, a) \subseteq 1..Len(events) /\ Len(events) \in Nat
  BY DEF Decides
<1>2. \E m \in Decides(events, a) : \A k \in Decides(events, a) : k <= m
  BY <1>1, LastPosition
<1>3. /\ Last(events, a) \in Decides(events, a)
      /\ \A k \in Decides(events, a) : k <= Last(events, a)
  BY <1>2 DEF Last
<1>4. Asked(events, a) # {}
  BY DEF Decides
<1>5. Derived(events, a) = events[Last(events, a)].kind
  BY <1>4 DEF Derived, Last
<1>6. QED
  BY <1>3, <1>5 DEF Decides

(* No event says nothing of an approval.                                   *)
LEMMA DerivedNone == ASSUME NEW a PROVE Derived(<<>>, a) = "absent"
BY DEF Derived, Asked

(* An event changes what the events say of its approval as the reducer     *)
(* changes the row, and says nothing of another one.                       *)
LEMMA DerivedAppend ==
    ASSUME NEW events \in Seq(Events), NEW e \in Events, NEW a
    PROVE  Derived(Append(events, e), a) =
              IF e.approval = a THEN Reduced(Derived(events, a), e.kind) ELSE Derived(events, a)
<1> DEFINE more == Append(events, e)
           n == Len(events)
<1>1. /\ n \in Nat /\ DOMAIN events = 1..n /\ DOMAIN more = 1..(n + 1)
      /\ more[n + 1] = e /\ \A i \in 1..n : more[i] = events[i]
      /\ more \in Seq(Events)
  OBVIOUS
<1> HIDE DEF more, n
<1>2. Decides(events, a) # {} => Asked(events, a) # {} /\ Last(events, a) \in 1..n
  BY <1>1, LastDecides DEF Decides
<1>3. ASSUME Asked(more, a) \in {Asked(events, a), Asked(events, a) \union {n + 1}},
             Decides(more, a) = Decides(events, a), Asked(more, a) # {}
      PROVE  /\ Decides(events, a) = {} => Derived(more, a) = "pending"
             /\ Decides(events, a) # {} => Derived(more, a) = Derived(events, a)
  <2>1. Decides(events, a) = {} => Derived(more, a) = "pending"
    BY <1>3 DEF Derived
  <2>2. Decides(events, a) # {} => Last(more, a) = Last(events, a)
    BY <1>3 DEF Last
  <2>3. QED
    BY <1>1, <1>2, <1>3, <2>1, <2>2, LastDecides
<1>4. CASE e.approval # a
  <2>1. Asked(more, a) = Asked(events, a)
    BY <1>1, <1>4 DEF Asked
  <2>2. Decides(more, a) = Decides(events, a)
    BY <1>1, <1>4, <2>1 DEF Decides
  <2>3. Derived(more, a) = Derived(events, a)
    BY <1>2, <1>3, <2>1, <2>2 DEF Derived
  <2>4. QED
    BY <1>4, <2>3 DEF more
<1>5. CASE e.approval = a /\ e.kind = "requested"
  <2>1. Asked(more, a) = Asked(events, a) \union {n + 1}
    BY <1>1, <1>5 DEF Asked
  <2>2. Decides(more, a) = Decides(events, a)
    <3>1. ~Decided("requested")
      BY DEF Decided, Decisions
    <3>2. \A i \in Asked(events, a) : i \in 1..n
      BY <1>1 DEF Asked
    <3>3. QED
      BY <1>1, <1>5, <2>1, <3>1, <3>2 DEF Decides
  <2>3. /\ Decides(events, a) = {} => Derived(more, a) = "pending"
        /\ Decides(events, a) # {} => Derived(more, a) = Derived(events, a)
    BY <1>3, <2>1, <2>2
  <2>4. Decides(events, a) = {} => ~Decided(Derived(events, a))
    BY DEF Derived, Decided, Decisions
  <2>5. Derived(more, a) = Reduced(Derived(events, a), e.kind)
    BY <1>5, <2>3, <2>4, LastDecides DEF Reduced
  <2>6. QED
    BY <1>5, <2>5 DEF more
<1>6. CASE e.approval = a /\ e.kind # "requested"
  <2>1. Asked(more, a) = Asked(events, a)
    BY <1>1, <1>6 DEF Asked
  <2>2. Decided(e.kind)
    BY <1>6 DEF Events, EventKinds, Decided
  <2>3. Decides(more, a) = IF Asked(events, a) = {} THEN {} ELSE Decides(events, a) \union {n + 1}
    <3>1. \A i \in Asked(events, a) : i \in 1..n
      BY <1>1 DEF Asked
    <3>2. CASE Asked(events, a) = {}
      BY <2>1, <3>2 DEF Decides
    <3>3. CASE Asked(events, a) # {}
      BY <1>1, <1>6, <2>1, <2>2, <3>1, <3>3 DEF Decides
    <3>4. QED
      BY <3>2, <3>3
  <2>4. CASE Asked(events, a) = {}
    BY <1>6, <2>1, <2>4 DEF Derived, Reduced, more
  <2>5. CASE Asked(events, a) # {}
    <3>1. Last(more, a) = n + 1
      <4>1. Decides(more, a) = Decides(events, a) \union {n + 1} /\ Decides(events, a) \subseteq 1..n
        BY <1>1, <2>3, <2>5 DEF Decides
      <4>2. /\ Last(more, a) \in Decides(more, a)
            /\ \A k \in Decides(more, a) : k <= Last(more, a)
        BY <1>1, <4>1, LastDecides
      <4>3. QED
        BY <1>1, <4>1, <4>2
    <3>2. Derived(more, a) = e.kind
      BY <1>1, <2>3, <2>5, <3>1, LastDecides
    <3>3. Derived(events, a) # "absent"
      <4>1. CASE Decides(events, a) = {}
        BY <2>5, <4>1 DEF Derived
      <4>2. CASE Decides(events, a) # {}
        BY <4>2, LastDecides DEF Decided, Decisions
      <4>3. QED
        BY <4>1, <4>2
    <3>4. QED
      BY <1>6, <3>2, <3>3 DEF Reduced, more
  <2>6. QED
    BY <2>4, <2>5
<1>7. QED
  BY <1>4, <1>5, <1>6

LEMMA RowStays ==
    ASSUME NEW c, NEW a, RowFits(c, a),
           approvals'[a] = approvals[a], Derived(log', a) = Derived(log, a)
    PROVE  RowFits(c, a)'
BY DEF RowFits, InHand

LEMMA RowOfCall ==
    ASSUME NEW h \in Handlers, NEW d, NEW a, d = call'[h], RowFits(d, a)'
    PROVE  RowFits(call[h], a)'
BY DEF RowFits, InHand

LEMMA RowStep ==
    ASSUME IInv, RInv, NEW h \in Handlers, NEW c \in Calls, c = call[h], c.pc # "idle",
           NEW d, CallFits(d), CallShape(d), Goes(h, d), d.rebuild => c.rebuild,
           d.pc # "idle" => Touched(d) = Touched(c),
           UNCHANGED <<raced, disturbed>>,
           unsure' = unsure \/ (unsure' = {} /\ c.rebuild /\ ~disturbed),
           \A a \in Approvals \ Touched(c) :
              approvals'[a] = approvals[a] /\ Derived(log', a) = Derived(log, a),
           \A a \in Touched(c) : Sure(c, a) => RowFits(d, a)'
    PROVE  RInv'
<1>1. call'[h] = d /\ \A g \in Handlers \ {h} : call'[g] = call[g]
  BY DEF Goes, IInv
<1>2. Touched(d) \subseteq Touched(c) /\ (Touched(d) # {} => Touched(d) = Touched(c))
  BY DEF Touched
<1>3. unsure' \subseteq unsure /\ unsure' \subseteq raced'
  BY DEF RInv
<1>4. unsure' = unsure \/ \A g \in Handlers \ {h} : Touched(call[g]) = {} /\ c.rebuild /\ ~disturbed
  BY DEF RInv, Touched
<1>5. \A f, g \in Handlers : f # g => Touched(call'[f]) \intersect Touched(call'[g]) \subseteq unsure'
  <2>1. \A f, g \in Handlers : f # g => Touched(call[f]) \intersect Touched(call[g]) \subseteq unsure
    BY DEF RInv
  <2>2. \A g \in Handlers : Touched(call'[g]) \subseteq Touched(call[g])
    BY <1>1, <1>2
  <2>3. CASE unsure' = unsure
    BY <2>1, <2>2, <2>3
  <2>4. CASE \A g \in Handlers \ {h} : Touched(call[g]) = {}
    BY <2>2, <2>4
  <2>5. QED
    BY <1>4, <2>3, <2>4
<1>6. \A f, g \in Handlers : f # g /\ call'[g].rebuild /\ ~disturbed => call'[f].pc = "idle"
  BY <1>1 DEF RInv
<1>7. \A g \in Handlers : CallShape(call'[g])
  BY <1>1 DEF RInv
<1>8. ASSUME NEW a \in Touched(c), a \notin unsure'
      PROVE  Sure(c, a)
  BY <1>4, <1>8 DEF Sure
<1>9. ASSUME NEW a \in Approvals, a \notin unsure', \A g \in Handlers : a \notin Touched(call'[g])
      PROVE  approvals'[a] = Derived(log', a)
  <2>1. CASE a \in Touched(c)
    <3>1. d.pc = "idle" /\ ~d.rebuild
      BY <1>1, <1>2, <1>9, <2>1 DEF Touched, CallShape
    <3>2. RowFits(d, a)'
      BY <1>8, <1>9, <2>1
    <3>3. QED
      BY <3>1, <3>2 DEF RowFits, InHand
  <2>2. CASE a \notin Touched(c)
    <3>1. \A g \in Handlers : a \notin Touched(call[g])
      BY <1>1, <1>9, <2>2
    <3>2. Quiet(a)
      BY <3>1, TouchesTouched DEF Quiet
    <3>3. a \notin unsure
      <4>1. CASE unsure' = unsure
        BY <1>9, <4>1
      <4>2. CASE c.rebuild
        BY <2>2, <4>2 DEF Touched
      <4>3. QED
        BY <4>1, <4>2
    <3>4. QED
      BY <2>2, <3>2, <3>3 DEF RInv
  <2>3. QED
    BY <2>1, <2>2
<1>10. ASSUME NEW g \in Handlers, NEW a \in Touched(call'[g]),
              a \notin unsure' \/ (call'[g].rebuild /\ ~disturbed)
       PROVE  RowFits(call[g], a)'
  <2>1. CASE g = h
    <3>1. a \in Touched(c) /\ Sure(c, a)
      BY <1>1, <1>2, <1>8, <1>10, <2>1 DEF Sure
    <3>2. QED
      BY <1>1, <2>1, <3>1, RowOfCall
  <2>2. CASE g # h
    <3> PICK k : k = call[g]
      OBVIOUS
    <3>1. k = call'[g] /\ a \in Touched(k) /\ a \in Approvals
      BY <1>1, <1>10, <2>2, Holds DEF Touched
    <3>2. ~(k.rebuild /\ ~disturbed) /\ unsure' = unsure /\ a \notin unsure
      BY <1>4, <1>10, <2>2, <3>1 DEF RInv
    <3>3. RowFits(k, a)
      BY <3>1, <3>2 DEF RInv, Sure
    <3>4. a \notin Touched(c)
      BY <2>2, <3>1, <3>2 DEF RInv
    <3>5. RowFits(k, a)'
      BY <3>1, <3>3, <3>4, RowStays
    <3>6. QED
      BY <3>1, <3>5, RowOfCall
  <2>3. QED
    BY <2>1, <2>2
<1>11. (\A a \in Approvals \ unsure : Quiet(a) => approvals[a] = Derived(log, a))'
  BY <1>9 DEF Quiet, Touches, Touched, Busy, At
<1>12. (\A g \in Handlers : \A a \in Touched(call[g]) : Sure(call[g], a) => RowFits(call[g], a))'
  BY <1>10 DEF Sure, Touched
<1>13. QED
  BY <1>3, <1>5, <1>6, <1>7, <1>11, <1>12 DEF RInv, Touched, CallShape

(* A call that starts works on the approvals as they are.                  *)
LEMMA RowBegins ==
    ASSUME IInv, RInv, NEW h \in Handlers, NEW d, CallFits(d), CallShape(d), Starts(h, d),
           d.pc = IF d.rebuild THEN "clear" ELSE "append",
           UNCHANGED <<approvals, log>>
    PROVE  RInv'
<1> DEFINE touched == IF d.rebuild THEN Approvals ELSE {d.event.approval}
           contended == Doubtful(d)
<1>1. /\ Goes(h, d) /\ raced' = raced \union contended /\ unsure' = unsure \union contended
      /\ disturbed' = IF d.rebuild THEN contended # {}
                      ELSE disturbed \/ \E g \in Handlers : call[g].rebuild
      /\ call[h].pc = "idle"
  BY DEF Starts, At
<1>2. call'[h] = d /\ (\A g \in Handlers \ {h} : call'[g] = call[g])
  BY <1>1 DEF Goes, IInv
<1>3. /\ touched \subseteq Approvals /\ Touched(d) = touched /\ d.rebuild \in BOOLEAN
      /\ \A g \in Handlers : Touched(call[g]) \subseteq Approvals
      /\ \A g \in Handlers : touched \intersect Touched(call[g]) \subseteq contended
  <2>1. \A g \in Handlers : Touches(g) = Touched(call[g])
    BY TouchesTouched
  <2>2. Touched(d) = touched /\ touched \subseteq Approvals /\ d.rebuild \in BOOLEAN
    BY DEF CallFits, Calls, Events, Touched
  <2>3. QED
    BY <2>1, <2>2, Holds DEF Touched, Doubtful
<1>4. \A g \in Handlers : call[g].pc # "idle" => Touched(call[g]) # {}
  BY ApprovalAssumption DEF Touched
<1>4a. d.rebuild /\ ~disturbed' => d.replay = log
  BY <1>1, ApprovalAssumption DEF Doubtful
<1>4b. d.rebuild /\ d.replay # log => contended = Approvals
  BY DEF Doubtful
<1> HIDE DEF touched, contended
<1>5. unsure' \subseteq raced'
  BY <1>1 DEF RInv
<1>6. \A f, g \in Handlers : f # g => Touched(call'[f]) \intersect Touched(call'[g]) \subseteq unsure'
  <2>1. \A f, g \in Handlers : f # g => Touched(call[f]) \intersect Touched(call[g]) \subseteq unsure
    BY DEF RInv
  <2>2. QED
    BY <1>1, <1>2, <1>3, <2>1
<1>7. \A f, g \in Handlers : f # g /\ call'[g].rebuild /\ ~disturbed' => call'[f].pc = "idle"
  <2> SUFFICES ASSUME NEW f \in Handlers, NEW g \in Handlers, f # g, call'[g].rebuild, ~disturbed'
               PROVE  call'[f].pc = "idle"
    OBVIOUS
  <2>1. CASE d.rebuild
    <3>1. contended = {} /\ touched = Approvals
      BY <1>1, <2>1 DEF touched
    <3>2. \A k \in Handlers : call[k].pc = "idle"
      BY <1>3, <1>4, <3>1
    <3>3. ~call[f].rebuild /\ ~call[g].rebuild
      BY <3>2 DEF RInv, CallShape
    <3>4. g = h
      BY <1>2, <3>3
    <3>5. QED
      BY <1>2, <3>2, <3>4
  <2>2. CASE ~d.rebuild
    <3>1. g # h /\ call[g].rebuild
      BY <1>2, <2>2
    <3>2. disturbed'
      BY <1>1, <2>2, <3>1
    <3>3. QED
      BY <3>2
  <2>3. QED
    BY <1>3, <2>1, <2>2
<1>8. \A g \in Handlers : CallShape(call'[g])
  BY <1>2 DEF RInv
<1>9. \A a \in Touched(d) : RowFits(d, a)' \/ (a \in unsure' /\ ~(d.rebuild /\ ~disturbed'))
  <2> SUFFICES ASSUME NEW a \in Touched(d), a \notin unsure' \/ (d.rebuild /\ ~disturbed')
               PROVE  RowFits(d, a)'
    OBVIOUS
  <2>1. CASE d.rebuild
    <3>1. a \in Approvals
      BY <1>3
    <3>2. d.replay = log
      BY <1>4a, <1>1, <1>4b, <2>1, <3>1
    <3>3. QED
      BY <2>1, <3>2 DEF RowFits
  <2>2. CASE ~d.rebuild
    <3>1. a \in touched /\ a \in Approvals /\ a \notin unsure /\ a \notin contended
      BY <1>1, <1>3, <2>2
    <3>2. \A g \in Handlers : a \notin Touched(call[g])
      BY <1>3, <3>1
    <3>3. Quiet(a)
      BY <3>2, TouchesTouched DEF Quiet
    <3>4. approvals[a] = Derived(log, a)
      BY <3>1, <3>3 DEF RInv
    <3>5. QED
      BY <2>2, <3>4 DEF RowFits, InHand
  <2>3. QED
    BY <2>1, <2>2
<1>10. ASSUME NEW a \in Approvals, a \notin unsure', \A g \in Handlers : a \notin Touched(call'[g])
       PROVE  approvals'[a] = Derived(log', a)
  <2>1. Touched(call[h]) = {}
    BY <1>1 DEF Touched
  <2>2. \A g \in Handlers : a \notin Touched(call[g])
    BY <1>2, <1>10, <2>1
  <2>3. Quiet(a)
    BY <2>2, TouchesTouched DEF Quiet
  <2>4. QED
    BY <1>1, <1>10, <2>3 DEF RInv
<1>11. ASSUME NEW g \in Handlers, NEW a \in Touched(call'[g]),
              a \notin unsure' \/ (call'[g].rebuild /\ ~disturbed')
       PROVE  RowFits(call[g], a)'
  <2>1. CASE g = h
    <3>1. RowFits(d, a)'
      BY <1>2, <1>9, <1>11, <2>1
    <3>2. QED
      BY <1>2, <2>1, <3>1, RowOfCall
  <2>2. CASE g # h
    <3> PICK k : k = call[g]
      OBVIOUS
    <3>1. k = call'[g] /\ a \in Touched(k)
      BY <1>2, <1>11, <2>2
    <3>2. ~(k.rebuild /\ ~disturbed')
      <4>1. call'[h].pc # "idle"
        BY <1>2
      <4>2. QED
        BY <1>7, <2>2, <3>1, <4>1
    <3>3. a \notin unsure
      BY <1>1, <1>11, <3>1, <3>2
    <3>4. RowFits(k, a)
      BY <3>1, <3>3 DEF RInv, Sure
    <3>5. RowFits(k, a)'
      BY <3>4, RowStays
    <3>6. QED
      BY <3>1, <3>5, RowOfCall
  <2>3. QED
    BY <2>1, <2>2
<1>12. (\A a \in Approvals \ unsure : Quiet(a) => approvals[a] = Derived(log, a))'
  BY <1>10 DEF Quiet, Touches, Touched, Busy, At
<1>13. (\A g \in Handlers : \A a \in Touched(call[g]) : Sure(call[g], a) => RowFits(call[g], a))'
  BY <1>11 DEF Sure, Touched
<1>14. QED
  BY <1>5, <1>6, <1>7, <1>8, <1>12, <1>13 DEF RInv, Touched, CallShape

(* A step that leaves rows and log, and has no row in hand.                *)
LEMMA RowRests ==
    ASSUME IInv, RInv, NEW h \in Handlers, NEW c \in Calls, c = call[h],
           c.pc \notin {"idle", "read", "save"}, ~c.rebuild,
           NEW d, CallFits(d), CallShape(d), Goes(h, d), ~d.rebuild, d.pc \notin {"read", "save"},
           d.pc # "idle" => Touched(d) = Touched(c),
           UNCHANGED <<approvals, log, raced, unsure, disturbed>>
    PROVE  RInv'
<1>1. \A a \in Touched(c) : Sure(c, a) => RowFits(d, a)'
  <2> SUFFICES ASSUME NEW a \in Touched(c), Sure(c, a) PROVE RowFits(d, a)'
    OBVIOUS
  <2>1. RowFits(c, a)
    BY DEF RInv
  <2>2. QED
    BY <2>1 DEF RowFits, InHand
<1>2. QED
  BY <1>1, RowStep

LEMMA RowAppendEvent ==
    ASSUME IInv, RInv, NEW h \in Handlers, AppendEvent(h)
    PROVE  RInv'
<1> PICK c \in Calls : c = call[h]
  BY Holds
<1>1. /\ c.pc = "append" /\ c.event \in Events /\ CallFits(c) /\ log \in Seq(Events)
      /\ ~c.rebuild
  BY Holds DEF AppendEvent, At, RInv, CallShape
<1>2. PICK d : d = [c EXCEPT !.pc = "read"]
  OBVIOUS
<1>3. /\ d.pc = "read" /\ d.event = c.event /\ ~d.rebuild /\ Goes(h, d)
      /\ CallFits(d) /\ Touched(d) = Touched(c) /\ CallShape(d)
  BY <1>1, <1>2 DEF Calls, CallFits, PCs, Touched, CallShape, AppendEvent
<1>4. \A a : Derived(log', a) = IF c.event.approval = a THEN Reduced(Derived(log, a), c.event.kind)
                                ELSE Derived(log, a)
  BY <1>1, DerivedAppend DEF AppendEvent
<1>5. Touched(c) = {c.event.approval}
  BY <1>1 DEF Touched
<1>6. \A a \in Touched(c) : Sure(c, a) => RowFits(d, a)'
  <2> SUFFICES ASSUME NEW a \in Touched(c), Sure(c, a) PROVE RowFits(d, a)'
    OBVIOUS
  <2>1. approvals[a] = Derived(log, a) /\ a = c.event.approval
    BY <1>1, <1>5 DEF RInv, RowFits, InHand
  <2>2. QED
    BY <1>3, <1>4, <2>1 DEF RowFits, InHand, AppendEvent
<1>7. QED
  BY <1>1, <1>3, <1>4, <1>5, <1>6, RowStep DEF AppendEvent

(* What the call reads decides what it writes.                             *)
LEMMA RowReadApproval ==
    ASSUME IInv, RInv, NEW h \in Handlers, ReadApproval(h)
    PROVE  RInv'
<1> PICK c \in Calls : c = call[h]
  BY Holds
<1> DEFINE status == approvals[c.event.approval]
           skips == IF c.event.kind = "requested" THEN Decided(status) ELSE status = "absent"
<1>1. /\ c.pc = "read" /\ CallFits(c) /\ CallShape(c) /\ c.event.kind \in EventKinds
      /\ UNCHANGED <<approvals, log, raced, unsure, disturbed>>
  BY Holds DEF ReadApproval, At, RInv
<1>2. PICK d : d = IF skips THEN AfterRow(c) ELSE [c EXCEPT !.pc = "save"]
  OBVIOUS
<1>3. Goes(h, d)
  BY <1>2 DEF ReadApproval
<1>4. /\ d.pc = IF ~skips THEN "save" ELSE IF c.rebuild THEN "replay"
                ELSE IF c.event.kind = "requested" THEN "check" ELSE "list"
      /\ d.event = c.event /\ d.rebuild = c.rebuild /\ d.replay = c.replay
  BY <1>2 DEF AfterRow, Calls
<1>5. CallFits(d)
  <2>1. CASE skips
    BY <1>1, <1>2, <2>1, AfterRowFits
  <2>2. CASE ~skips
    BY <1>1, <1>2, <2>2 DEF CallFits, Calls, PCs
  <2>3. QED
    BY <2>1, <2>2
<1>6. CallShape(d) /\ Touched(d) = Touched(c)
  <2>1. c.event.kind # "requested" => Decided(c.event.kind)
    BY <1>1 DEF Decided, EventKinds
  <2>2. Touched(d) = Touched(c)
    BY <1>1, <1>4 DEF Touched
  <2> HIDE DEF skips
  <2>3. CallShape(d)
    BY <1>1, <1>4, <2>1 DEF CallShape
  <2>4. QED
    BY <2>2, <2>3
<1>7. /\ skips => Reduced(status, c.event.kind) = status
      /\ ~skips => Reduced(status, c.event.kind) = Written(c.event)
  BY DEF Reduced, Written
<1> HIDE DEF skips, status
<1>8. ASSUME NEW events, NEW a, a = c.event.approval, InHand(c, a, events)
      PROVE  InHand(d, a, events)
  <2>1. Derived(events, a) = Reduced(status, c.event.kind) /\ status = approvals[a]
    BY <1>1, <1>8 DEF InHand, status
  <2>2. QED
    BY <1>4, <1>7, <2>1 DEF InHand
<1>9. \A a \in Touched(c) : Sure(c, a) => RowFits(d, a)'
  <2> SUFFICES ASSUME NEW a \in Touched(c), Sure(c, a) PROVE RowFits(d, a)'
    OBVIOUS
  <2>1. RowFits(c, a)
    BY DEF RInv
  <2>2. RowFits(d, a)
    <3>1. CASE ~c.rebuild
      <4>1. a = c.event.approval /\ InHand(c, a, log)
        BY <1>1, <2>1, <3>1 DEF Touched, RowFits
      <4>2. QED
        BY <1>4, <1>8, <3>1, <4>1 DEF RowFits
    <3>2. CASE c.rebuild
      <4>1. PICK done \in Seq(Events) :
              /\ Derived(done \o c.replay, a) = Derived(log, a)
              /\ IF c.event.approval = a THEN InHand(c, a, done)
                 ELSE approvals[a] = Derived(done, a)
        BY <1>1, <2>1, <3>2 DEF RowFits
      <4>2. d.pc # "clear" /\ d.rebuild
        BY <1>4, <3>2
      <4>3. IF d.event.approval = a THEN InHand(d, a, done) ELSE approvals[a] = Derived(done, a)
        BY <1>4, <1>8, <4>1
      <4>4. QED
        BY <1>4, <4>1, <4>2, <4>3 DEF RowFits
    <3>3. QED
      BY <3>1, <3>2
  <2>3. QED
    BY <1>1, <2>2, RowStays
<1>10. QED
  BY <1>1, <1>3, <1>4, <1>5, <1>6, <1>9, RowStep

(* The row takes what the events say of it.                                *)
LEMMA RowSaveApproval ==
    ASSUME IInv, RInv, NEW h \in Handlers, SaveApproval(h)
    PROVE  RInv'
<1> PICK c \in Calls : c = call[h]
  BY Holds
<1>1. /\ c.pc = "save" /\ CallFits(c) /\ CallShape(c) /\ c.event.kind \in EventKinds
      /\ c.event.approval \in Approvals
      /\ UNCHANGED <<log, raced, unsure, disturbed>>
      /\ approvals'[c.event.approval] = Written(c.event)
      /\ \A a \in Approvals \ {c.event.approval} : approvals'[a] = approvals[a]
  BY Holds DEF SaveApproval, At, RInv, IInv, RowsType, Written
<1>2. PICK d : d = AfterRow(c)
  OBVIOUS
<1>3. /\ d.pc = IF c.rebuild THEN "replay"
                ELSE IF c.event.kind = "requested" THEN "check" ELSE "list"
      /\ d.event = c.event /\ d.rebuild = c.rebuild /\ d.replay = c.replay
      /\ Goes(h, d) /\ CallFits(d) /\ Touched(d) = Touched(c)
  BY <1>1, <1>2, AfterRowFits DEF AfterRow, Calls, SaveApproval
<1>4. CallShape(d)
  <2>1. c.event.kind # "requested" => Decided(c.event.kind)
    BY <1>1 DEF Decided, EventKinds
  <2>2. QED
    BY <1>1, <1>3, <2>1 DEF CallShape
<1>5. ASSUME NEW events, NEW a, a = c.event.approval, InHand(c, a, events)
      PROVE  approvals'[a] = Derived(events, a)
  BY <1>1, <1>5 DEF InHand
<1>6. \A a \in Touched(c) : Sure(c, a) => RowFits(d, a)'
  <2> SUFFICES ASSUME NEW a \in Touched(c), Sure(c, a) PROVE RowFits(d, a)'
    OBVIOUS
  <2>1. RowFits(c, a) /\ a \in Approvals
    BY <1>1 DEF RInv, Touched
  <2>2. CASE ~c.rebuild
    <3>1. a = c.event.approval /\ InHand(c, a, log)
      BY <1>1, <2>1, <2>2 DEF Touched, RowFits
    <3>2. approvals'[a] = Derived(log', a)
      BY <1>1, <1>5, <3>1
    <3>3. QED
      BY <1>3, <2>2, <3>2 DEF RowFits, InHand
  <2>3. CASE c.rebuild
    <3>1. PICK done \in Seq(Events) :
            /\ Derived(done \o c.replay, a) = Derived(log, a)
            /\ IF c.event.approval = a THEN InHand(c, a, done)
               ELSE approvals[a] = Derived(done, a)
      BY <1>1, <2>1, <2>3 DEF RowFits
    <3>2. approvals'[a] = Derived(done, a)
      BY <1>1, <1>5, <2>1, <3>1
    <3>3. QED
      BY <1>1, <1>3, <2>3, <3>1, <3>2 DEF RowFits, InHand
  <2>4. QED
    BY <2>2, <2>3
<1>7. \A a \in Approvals \ Touched(c) : approvals'[a] = approvals[a] /\ Derived(log', a) = Derived(log, a)
  BY <1>1 DEF Touched
<1>8. QED
  BY <1>1, <1>3, <1>4, <1>6, <1>7, RowStep

(* A cleared row is what no event says of it.                              *)
LEMMA RowClear ==
    ASSUME IInv, RInv, NEW h \in Handlers, ClearDerivedState(h)
    PROVE  RInv'
<1> PICK c \in Calls : c = call[h]
  BY Holds
<1>1. /\ c.pc = "clear" /\ c.rebuild /\ CallFits(c)
      /\ UNCHANGED <<log, raced, unsure, disturbed>>
      /\ \A a \in Approvals : approvals'[a] = "absent"
  BY Holds DEF ClearDerivedState, At, CallFits
<1>2. PICK d : d = [c EXCEPT !.pc = "replay"]
  OBVIOUS
<1>3. /\ d.pc = "replay" /\ d.rebuild /\ d.replay = c.replay /\ Goes(h, d)
      /\ CallFits(d) /\ CallShape(d) /\ Touched(d) = Touched(c) /\ Touched(c) = Approvals
  BY <1>1, <1>2 DEF Calls, CallFits, PCs, Touched, CallShape, ClearDerivedState
<1>4. \A a \in Touched(c) : Sure(c, a) => RowFits(d, a)'
  <2> SUFFICES ASSUME NEW a \in Touched(c), Sure(c, a) PROVE RowFits(d, a)'
    OBVIOUS
  <2>1. Derived(c.replay, a) = Derived(log, a) /\ c.replay \in Seq(Events)
    BY <1>1 DEF RInv, RowFits, Calls
  <2>2. <<>> \in Seq(Events) /\ <<>> \o d.replay = c.replay
    BY <1>3, <2>1
  <2>3. approvals'[a] = Derived(<<>>, a)
    BY <1>1, <1>3, DerivedNone
  <2>4. QED
    BY <1>1, <1>3, <2>1, <2>2, <2>3 DEF RowFits, InHand
<1>5. QED
  BY <1>1, <1>3, <1>4, RowStep

LEMMA ReplayNext ==
    ASSUME NEW done \in Seq(Events), NEW replay \in Seq(Events), replay # <<>>
    PROVE  /\ Head(replay) \in Events /\ Tail(replay) \in Seq(Events)
           /\ Append(done, Head(replay)) \in Seq(Events)
           /\ Append(done, Head(replay)) \o Tail(replay) = done \o replay
OBVIOUS

(* The next event is in hand; after the last one every row follows the log.*)
LEMMA RowReplay ==
    ASSUME IInv, RInv, NEW h \in Handlers, Replay(h)
    PROVE  RInv'
<1> PICK c \in Calls : c = call[h]
  BY Holds
<1>1. /\ c.pc = "replay" /\ c.rebuild /\ CallFits(c) /\ c.replay \in Seq(Events)
      /\ UNCHANGED <<approvals, log, raced, disturbed>>
  BY Holds DEF Replay, At, CallFits, Calls
<1>2. ASSUME NEW a \in Touched(c), Sure(c, a)
      PROVE  \E done \in Seq(Events) : /\ Derived(done \o c.replay, a) = Derived(log, a)
                                       /\ approvals[a] = Derived(done, a)
  <2>1. RowFits(c, a)
    BY <1>2 DEF RInv
  <2>2. QED
    BY <1>1, <2>1 DEF RowFits, InHand
<1>3. CASE c.replay = <<>>
  <2>1. /\ Goes(h, Blank) /\ unsure' = (IF disturbed THEN unsure ELSE {})
    BY <1>3 DEF Replay, Idles
  <2>2. ~Blank.rebuild /\ CallShape(Blank)
    BY BlankFits DEF CallShape, Blank
  <2>3. \A a \in Touched(c) : Sure(c, a) => RowFits(Blank, a)'
    <3> SUFFICES ASSUME NEW a \in Touched(c), Sure(c, a) PROVE RowFits(Blank, a)'
      OBVIOUS
    <3>1. PICK done \in Seq(Events) : /\ Derived(done \o c.replay, a) = Derived(log, a)
                                      /\ approvals[a] = Derived(done, a)
      BY <1>2
    <3>2. done \o c.replay = done
      BY <1>3
    <3>3. QED
      BY <1>1, <2>2, <3>1, <3>2, BlankFits DEF RowFits, InHand
  <2>4. QED
    BY <1>1, <2>1, <2>2, <2>3, BlankFits, RowStep
<1>4. CASE c.replay # <<>>
  <2>1. PICK d : d = [c EXCEPT !.pc = "read", !.event = Head(c.replay), !.replay = Tail(c.replay)]
    OBVIOUS
  <2>2. /\ d.pc = "read" /\ d.rebuild /\ d.event = Head(c.replay) /\ d.replay = Tail(c.replay)
        /\ Goes(h, d) /\ unsure' = unsure /\ Head(c.replay) \in Events
        /\ Tail(c.replay) \in Seq(Events)
    BY <1>1, <1>4, <2>1, ReplayNext DEF Replay, Calls
  <2>3. CallFits(d) /\ CallShape(d) /\ Touched(d) = Touched(c)
    BY <1>1, <2>1, <2>2 DEF CallFits, Calls, PCs, CallShape, Touched
  <2>4. \A a \in Touched(c) : Sure(c, a) => RowFits(d, a)'
    <3> SUFFICES ASSUME NEW a \in Touched(c), Sure(c, a) PROVE RowFits(d, a)'
      OBVIOUS
    <3>1. PICK done \in Seq(Events) : /\ Derived(done \o c.replay, a) = Derived(log, a)
                                      /\ approvals[a] = Derived(done, a)
      BY <1>2
    <3>2. /\ Append(done, Head(c.replay)) \in Seq(Events)
          /\ Append(done, Head(c.replay)) \o Tail(c.replay) = done \o c.replay
      BY <1>1, <1>4, ReplayNext
    <3>3. PICK more \in Seq(Events) :
            more = Append(done, d.event) /\ more \o d.replay = done \o c.replay
      BY <2>2, <3>2, Zenon
    <3>4. Derived(more, a) = IF d.event.approval = a THEN Reduced(Derived(done, a), d.event.kind)
                             ELSE Derived(done, a)
      BY <2>2, <3>3, DerivedAppend
    <3>5. QED
      BY <1>1, <2>2, <3>1, <3>3, <3>4 DEF RowFits, InHand
  <2>5. QED
    BY <1>1, <2>2, <2>3, <2>4, RowStep
<1>5. QED
  BY <1>3, <1>4

LEMMA RowBeginSteps ==
    ASSUME IInv, RInv, NEW h \in Handlers,
           \/ \E a \in Approvals : Request(h, a) \/ \E d \in Decisions : DecideApprovalRequest(h, a, d)
           \/ Rebuild(h)
    PROVE  RInv'
<1>1. ASSUME NEW a \in Approvals, NEW kind \in EventKinds,
             Starts(h, [Blank EXCEPT !.pc = "append", !.event = [kind |-> kind, approval |-> a]]),
             UNCHANGED <<approvals, log>>
      PROVE  RInv'
  <2>1. PICK d : d = [Blank EXCEPT !.pc = "append", !.event = [kind |-> kind, approval |-> a]]
    OBVIOUS
  <2>2. [kind |-> kind, approval |-> a] \in Events
    BY DEF Events
  <2>3. d.pc = "append" /\ ~d.rebuild
    BY <2>1 DEF Blank
  <2>4. CallFits(d) /\ CallShape(d)
    BY <2>1, <2>2, <2>3, BlankFits DEF CallFits, Calls, PCs, CallShape
  <2>5. QED
    BY <1>1, <2>1, <2>3, <2>4, RowBegins
<1>2. CASE Rebuild(h)
  <2>1. PICK d : d = [Blank EXCEPT !.pc = "clear", !.replay = Oldest, !.rebuild = TRUE]
    OBVIOUS
  <2>2. d.pc = "clear" /\ d.rebuild /\ d.replay = Oldest
    BY <2>1 DEF Blank
  <2>3. CallFits(d) /\ CallShape(d)
    BY <2>1, <2>2, OldestEvents, BlankFits DEF CallFits, Calls, PCs, CallShape
  <2>4. QED
    BY <1>2, <2>1, <2>2, <2>3, RowBegins DEF Rebuild
<1>3. "requested" \in EventKinds /\ Decisions \subseteq EventKinds
  BY DEF EventKinds
<1>4. QED
  BY <1>1, <1>2, <1>3 DEF Request, DecideApprovalRequest

(* Steps about notifications leave the rows.                               *)
LEMMA RowTellingSteps ==
    ASSUME IInv, RInv, NEW h \in Handlers,
           \/ CheckApproval(h) \/ FindExisting(h) \/ CreateNotification(h)
           \/ ListNotifications(h) \/ ResolveNotification(h)
    PROVE  RInv'
<1> PICK c \in Calls : c = call[h]
  BY Holds
<1>1. /\ c.pc \in {"check", "find", "create", "list", "resolve"} /\ ~c.rebuild
      /\ CallFits(c) /\ CallShape(c) /\ c.rebuild \in BOOLEAN
      /\ UNCHANGED <<approvals, log, raced, unsure, disturbed>>
  BY Holds DEF CheckApproval, FindExisting, CreateNotification, ListNotifications,
     ResolveNotification, At, RInv, CallShape
<1>2. CASE Idles(h)
  <2>1. Goes(h, Blank) /\ ~Blank.rebuild /\ CallShape(Blank)
    BY <1>2, BlankFits DEF CallShape, Blank, Idles
  <2>2. QED
    BY <1>1, <2>1, BlankFits, RowRests
<1>3. CASE ~Idles(h)
  <2>1. PICK pc \in {"find", "create", "resolve"}, open \in SUBSET Nat :
          /\ Goes(h, [c EXCEPT !.pc = pc, !.open = open])
          /\ pc \in {"find", "create"} => c.pc \in {"check", "find"}
          /\ pc = "resolve" => c.pc \in {"list", "resolve"}
    <3>1. ASSUME NEW pc, Goes(h, [c EXCEPT !.pc = pc])
          PROVE  Goes(h, [c EXCEPT !.pc = pc, !.open = c.open]) /\ c.open \in SUBSET Nat
      <4>1. [c EXCEPT !.pc = pc] = [c EXCEPT !.pc = pc, !.open = c.open]
        BY DEF Calls
      <4>2. QED
        BY <3>1, <4>1 DEF Calls
    <3>2. ASSUME NEW open, Goes(h, [c EXCEPT !.open = open]), c.pc = "resolve"
          PROVE  Goes(h, [c EXCEPT !.pc = "resolve", !.open = open])
      <4>1. [c EXCEPT !.open = open] = [c EXCEPT !.pc = "resolve", !.open = open]
        BY <3>2 DEF Calls
      <4>2. QED
        BY <3>2, <4>1
    <3>3. CASE CheckApproval(h) \/ FindExisting(h)
      BY <1>3, <3>1, <3>3 DEF CheckApproval, FindExisting, At
    <3>4. CASE ListNotifications(h)
      <4>1. Resolvable(c.event.approval) \in SUBSET Nat
        BY Holds DEF Resolvable, About
      <4>2. QED
        BY <3>4, <4>1 DEF ListNotifications, At
    <3>5. CASE ResolveNotification(h)
      <4>1. PICK i \in c.open : Goes(h, [c EXCEPT !.open = c.open \ {i}]) /\ c.pc = "resolve"
        BY <1>3, <3>5 DEF ResolveNotification, At, Calls
      <4>2. PICK left \in SUBSET Nat : left = c.open \ {i}
        BY DEF Calls
      <4>3. Goes(h, [c EXCEPT !.pc = "resolve", !.open = left]) /\ c.pc = "resolve"
        BY <3>2, <4>1, <4>2
      <4>4. QED
        BY <4>3
    <3>6. QED
      BY <1>3, <3>3, <3>4, <3>5 DEF CreateNotification
  <2>2. PICK d : d = [c EXCEPT !.pc = pc, !.open = open]
    OBVIOUS
  <2>3. d.pc = pc /\ d.event = c.event /\ ~d.rebuild
    BY <1>1, <2>2 DEF Calls
  <2>4. CallFits(d) /\ Touched(d) = Touched(c)
    BY <1>1, <2>1, <2>2, <2>3 DEF CallFits, Calls, PCs, Touched
  <2>5. CallShape(d)
    BY <1>1, <2>1, <2>3 DEF CallShape
  <2>6. QED
    BY <1>1, <2>1, <2>2, <2>3, <2>4, <2>5, RowRests
<1>4. QED
  BY <1>2, <1>3

LEMMA RowCrash ==
    ASSUME IInv, RInv, Crash
    PROVE  RInv'
<1>1. /\ \A h \in Handlers : call'[h] = Blank
      /\ UNCHANGED <<approvals, log, disturbed>>
  BY DEF Crash
<1> DEFINE lost == UNION {Touches(h) : h \in Handlers}
<1>2. raced' = raced \union lost /\ unsure' = unsure \union lost
  BY DEF Crash
<1>3. ~Blank.rebuild /\ CallShape(Blank) /\ Touched(Blank) = {} /\ Blank.pc = "idle"
  BY BlankFits DEF CallShape, Blank
<1>4. \A a \in Approvals \ unsure' : approvals'[a] = Derived(log', a)
  <2> SUFFICES ASSUME NEW a \in Approvals, a \notin unsure' PROVE approvals[a] = Derived(log, a)
    BY <1>1
  <2>1. \A h \in Handlers : a \notin Touches(h)
    BY <1>2
  <2> HIDE DEF lost
  <2>2. Quiet(a) /\ a \notin unsure
    BY <1>2, <2>1 DEF Quiet
  <2>3. QED
    BY <2>2 DEF RInv
<1> HIDE DEF lost
<1>5. unsure' \subseteq raced'
  BY <1>2 DEF RInv
<1>6. (\A g, h \in Handlers : g # h => Touched(call[g]) \intersect Touched(call[h]) \subseteq unsure)'
  BY <1>1, <1>3 DEF Touched
<1>7. (\A h \in Handlers : CallShape(call[h]) /\ call[h].pc = "idle" /\ ~call[h].rebuild)'
  BY <1>1, <1>3 DEF CallShape
<1>8. (\A h \in Handlers : \A a \in Touched(call[h]) : Sure(call[h], a) => RowFits(call[h], a))'
  BY <1>1, <1>3 DEF Touched
<1>9. QED
  BY <1>4, <1>5, <1>6, <1>7, <1>8 DEF RInv

LEMMA RowStutter ==
    ASSUME IInv, RInv, UNCHANGED <<approvals, log, call, raced, unsure, disturbed>>
    PROVE  RInv'
<1>1. \A h \in Handlers : \A a \in Touched(call[h]) : Sure(call[h], a) => RowFits(call[h], a)
  BY DEF RInv
<1>2. (\A h \in Handlers : \A a \in Touched(call[h]) : Sure(call[h], a) => RowFits(call[h], a))'
  BY <1>1 DEF Sure, RowFits, InHand, Touched
<1>3. (\A a \in Approvals \ unsure : Quiet(a) => approvals[a] = Derived(log, a))'
  BY DEF RInv, Quiet, Touches, Busy, At
<1>4. QED
  BY <1>2, <1>3 DEF RInv, Touched, CallShape

LEMMA RowInit == Init => RInv
<1> SUFFICES ASSUME Init PROVE RInv
  OBVIOUS
<1>1. /\ \A h \in Handlers : call[h] = Blank
      /\ \A a \in Approvals : approvals[a] = Derived(log, a)
  BY DerivedNone DEF Init
<1>2. ~Blank.rebuild /\ CallShape(Blank) /\ Touched(Blank) = {} /\ Blank.pc = "idle"
  BY BlankFits DEF CallShape, Blank
<1>3. QED
  BY <1>1, <1>2 DEF RInv, Init

LEMMA RowNext == IInv /\ RInv /\ [Next]_vars => RInv'
<1> SUFFICES ASSUME IInv, RInv, [Next]_vars PROVE RInv'
  OBVIOUS
<1>1. CASE UNCHANGED vars \/ OtherEvent \/ Acknowledge \/ Resolve
  BY <1>1, RowStutter DEF vars, OtherEvent, Acknowledge, Resolve
<1>2. CASE Next
  BY <1>1, <1>2, RowBeginSteps, RowAppendEvent, RowReadApproval, RowSaveApproval,
     RowTellingSteps, RowClear, RowReplay, RowCrash DEF Next
<1>3. QED
  BY <1>1, <1>2

(* Whatever calls come between each other and wherever a crash cuts them   *)
(* off: the row of an approval no call works on has the status the log     *)
(* gives it, unless calls raced for it, a crash cut one off or a rebuild   *)
(* did not read the whole log, and no undisturbed rebuild of the whole log *)
(* has been since -- however many events a rebuild reads.                  *)
THEOREM RowsFollowLog == Spec => []RowFollowsLog
<1>1. Spec => [](IInv /\ RInv)
  BY IInvInit, IInvNext, RowInit, RowNext, PTL DEF Spec
<1>2. RInv => RowFollowsLog
  BY DEF RInv, RowFollowsLog
<1>3. QED
  BY <1>1, <1>2, PTL

-----------------------------------------------------------------------------
(* The observer is told.                                                   *)

(* What the observer has been told of an approval that call c works on,    *)
(* by what the log says of it.                                             *)
Visible(a) == {i \in OpenAbout(a) : i <= FindLimit}
TellsDecision(a) == Decided(Derived(log, a)) => \A i \in OpenAbout(a) : i > ResolveLimit
TellsRequest(a) == Derived(log, a) = "pending" => About(a) # {}
Deciding(c) == ~c.rebuild /\ c.pc \in {"read", "save", "list", "resolve"} /\ Decided(c.event.kind)
Asking(c) ==
    ~c.rebuild /\ c.pc \in {"read", "save", "check", "find", "create"} /\ c.event.kind = "requested"

Told(c, a) ==
    /\ \A i, j \in Visible(a) : i = j
    /\ c.pc \in {"find", "create"} => ~Decided(Derived(log, a))
    /\ c.pc = "create" => Visible(a) = {}
    /\ c.pc = "resolve" => \A i \in OpenAbout(a) : i <= ResolveLimit => i \in c.open
    /\ Deciding(c) => Derived(log, a) # "pending"
    /\ ~Deciding(c) => TellsDecision(a)
    /\ ~Asking(c) /\ ~Deciding(c) => TellsRequest(a)

TInv ==
    \A a \in Approvals \ raced :
        /\ Quiet(a) => Told(Blank, a)
        /\ \A h \in Handlers : a \in Touched(call[h]) => Told(call[h], a)

LEMMA ToldStays ==
    ASSUME NEW c, NEW a, Told(c, a), OpenAbout(a)' \subseteq OpenAbout(a), About(a)' = About(a),
           Derived(log', a) = Derived(log, a)
    PROVE  Told(c, a)'
<1>1. Visible(a)' \subseteq Visible(a)
  BY DEF Visible
<1>2. (\A i, j \in Visible(a) : i = j)'
  BY <1>1 DEF Told
<1>3. TellsDecision(a) => TellsDecision(a)'
  BY DEF TellsDecision
<1>4. TellsRequest(a) => TellsRequest(a)'
  BY DEF TellsRequest
<1>5. Visible(a) = {} => Visible(a)' = {}
  BY <1>1
<1>6. QED
  BY <1>2, <1>3, <1>4, <1>5 DEF Told, Deciding, Asking

LEMMA ToldOfCall ==
    ASSUME NEW h \in Handlers, NEW d, NEW a, d = call'[h], Told(d, a)'
    PROVE  Told(call[h], a)'
BY DEF Told, Deciding, Asking

LEMMA ToldStep ==
    ASSUME IInv, RInv, TInv, NEW h \in Handlers, NEW c \in Calls, c = call[h], c.pc # "idle",
           NEW d, Goes(h, d), raced' = raced,
           d = Blank \/ (d.pc # "idle" /\ Touched(d) = Touched(c)),
           \A a \in Approvals \ Touched(c) :
              /\ OpenAbout(a)' \subseteq OpenAbout(a) /\ About(a)' = About(a)
              /\ Derived(log', a) = Derived(log, a),
           \A a \in Touched(c) : a \notin raced => Told(d, a)'
    PROVE  TInv'
<1>1. call'[h] = d /\ \A g \in Handlers \ {h} : call'[g] = call[g]
  BY DEF Goes, IInv
<1>2. Touched(d) \subseteq Touched(c) /\ (d.pc # "idle" => d # Blank)
  BY BlankFits
<1>3. ASSUME NEW a \in Approvals, a \notin raced, \A g \in Handlers : a \notin Touched(call'[g])
      PROVE  Told(Blank, a)'
  <2>1. CASE a \in Touched(c)
    <3>1. d = Blank
      BY <1>1, <1>3, <2>1
    <3>2. QED
      BY <1>3, <2>1, <3>1
  <2>2. CASE a \notin Touched(c)
    <3>1. \A g \in Handlers : a \notin Touched(call[g])
      BY <1>1, <1>3, <2>2
    <3>2. Quiet(a)
      BY <3>1, TouchesTouched DEF Quiet
    <3>3. Told(Blank, a)
      BY <1>3, <3>2 DEF TInv
    <3>4. QED
      BY <2>2, <3>3, ToldStays
  <2>3. QED
    BY <2>1, <2>2
<1>4. ASSUME NEW a \in Approvals, a \notin raced, NEW g \in Handlers, a \in Touched(call'[g])
      PROVE  Told(call[g], a)'
  <2>1. CASE g = h
    <3>1. Told(d, a)'
      BY <1>1, <1>2, <1>4, <2>1
    <3>2. QED
      BY <1>1, <2>1, <3>1, ToldOfCall
  <2>2. CASE g # h
    <3> PICK k : k = call[g]
      OBVIOUS
    <3>1. k = call'[g] /\ a \in Touched(k)
      BY <1>1, <1>4, <2>2
    <3>2. a \notin Touched(c)
      BY <1>4, <2>2, <3>1 DEF RInv
    <3>3. Told(k, a)
      BY <1>4, <3>1 DEF TInv
    <3>4. Told(k, a)'
      BY <3>2, <3>3, ToldStays
    <3>5. QED
      BY <3>1, <3>4, ToldOfCall
  <2>3. QED
    BY <2>1, <2>2
<1>5. (\A a \in Approvals \ raced : Quiet(a) => Told(Blank, a))'
  BY <1>3 DEF Quiet, Touches, Touched, Busy, At
<1>6. (\A a \in Approvals \ raced : \A g \in Handlers : a \in Touched(call[g]) => Told(call[g], a))'
  BY <1>4 DEF Touched
<1>7. QED
  BY <1>5, <1>6 DEF TInv

(* A call that goes on without a word to the observer.                     *)
LEMMA ToldNothing ==
    ASSUME IInv, RInv, TInv, NEW h \in Handlers, NEW c \in Calls, c = call[h], c.pc # "idle",
           NEW d, Goes(h, d), UNCHANGED <<log, notifications, raced>>,
           d = Blank \/ (d.pc # "idle" /\ Touched(d) = Touched(c)),
           d.pc \notin {"find", "create", "resolve"},
           Asking(d) <=> Asking(c), Deciding(d) <=> Deciding(c)
    PROVE  TInv'
<1>1. \A a : OpenAbout(a)' = OpenAbout(a) /\ About(a)' = About(a)
  BY DEF OpenAbout, About
<1>2. \A a \in Touched(c) : a \notin raced => Told(d, a)'
  <2> SUFFICES ASSUME NEW a \in Touched(c), a \notin raced PROVE Told(d, a)'
    OBVIOUS
  <2>1. a \in Approvals /\ Told(c, a)
    BY Holds DEF TInv, Touched
  <2>2. Told(d, a)
    BY <2>1 DEF Told
  <2>3. QED
    BY <1>1, <2>2, ToldStays
<1>3. QED
  BY <1>1, <1>2, ToldStep

LEMMA ToldByRows ==
    ASSUME IInv, RInv, TInv, NEW h \in Handlers,
           ReadApproval(h) \/ SaveApproval(h) \/ ClearDerivedState(h) \/ Replay(h)
    PROVE  TInv'
<1> PICK c \in Calls : c = call[h]
  BY Holds
<1>1. /\ c.pc \in {"read", "save", "clear", "replay"} /\ CallFits(c) /\ c.rebuild \in BOOLEAN
      /\ c.event.kind \in EventKinds
      /\ UNCHANGED <<log, notifications, raced>>
  BY Holds DEF ReadApproval, SaveApproval, ClearDerivedState, Replay, At
<1>2. CASE ReadApproval(h) \/ SaveApproval(h)
  <2>1. PICK d : /\ Goes(h, d) /\ c.pc \in {"read", "save"}
                 /\ d = AfterRow(c) \/ d = [c EXCEPT !.pc = "save"]
    BY <1>2 DEF ReadApproval, SaveApproval, At
  <2>2. /\ d.pc = "save" \/ d.pc = IF c.rebuild THEN "replay"
                                   ELSE IF c.event.kind = "requested" THEN "check" ELSE "list"
        /\ d.event = c.event /\ d.rebuild = c.rebuild
    BY <2>1 DEF AfterRow, Calls
  <2>3. Touched(d) = Touched(c)
    BY <1>1, <2>2 DEF Touched
  <2>4. (Asking(d) <=> Asking(c)) /\ (Deciding(d) <=> Deciding(c))
    <3>1. Decided(c.event.kind) <=> c.event.kind # "requested"
      BY <1>1 DEF EventKinds, Decided, Decisions
    <3>2. QED
      BY <1>1, <2>1, <2>2, <3>1 DEF Asking, Deciding
  <2>5. QED
    BY <1>1, <2>1, <2>2, <2>3, <2>4, ToldNothing
<1>3. CASE ClearDerivedState(h) \/ Replay(h)
  <2>1. c.rebuild
    BY <1>1, <1>3 DEF ClearDerivedState, Replay, At, CallFits
  <2>2. PICK d : /\ Goes(h, d)
                 /\ \/ d = Blank
                    \/ d = [c EXCEPT !.pc = "replay"]
                    \/ \E e, left : d = [c EXCEPT !.pc = "read", !.event = e, !.replay = left]
    BY <1>3 DEF ClearDerivedState, Replay, Idles
  <2>3. d = Blank \/ (d.pc \in {"replay", "read"} /\ d.rebuild)
    BY <2>1, <2>2 DEF Calls
  <2>4. d.pc \in {"idle", "replay", "read"}
    BY <2>3, BlankFits
  <2>5. d = Blank \/ (d.pc # "idle" /\ Touched(d) = Touched(c))
    BY <1>1, <2>1, <2>3 DEF Touched
  <2>6. ~Asking(d) /\ ~Asking(c) /\ ~Deciding(d) /\ ~Deciding(c)
    BY <2>1, <2>3, BlankFits DEF Asking, Deciding
  <2>7. QED
    BY <1>1, <2>2, <2>4, <2>5, <2>6, ToldNothing
<1>4. QED
  BY <1>2, <1>3

LEMMA ToldAppendEvent ==
    ASSUME IInv, RInv, TInv, NEW h \in Handlers, AppendEvent(h)
    PROVE  TInv'
<1> PICK c \in Calls : c = call[h]
  BY Holds
<1>1. /\ c.pc = "append" /\ c.event \in Events /\ log \in Seq(Events) /\ ~c.rebuild
      /\ c.event.kind \in EventKinds /\ c.event.approval \in Approvals
      /\ log' = Append(log, c.event) /\ UNCHANGED <<notifications, raced>>
  BY Holds DEF AppendEvent, At, RInv, CallShape
<1>2. PICK d : d = [c EXCEPT !.pc = "read"]
  OBVIOUS
<1>3. /\ d.pc = "read" /\ d.event = c.event /\ ~d.rebuild /\ Goes(h, d)
      /\ Touched(d) = Touched(c) /\ Touched(c) = {c.event.approval}
  BY <1>1, <1>2 DEF Calls, Touched, AppendEvent
<1>4. \A a : Derived(log', a) = IF c.event.approval = a THEN Reduced(Derived(log, a), c.event.kind)
                                ELSE Derived(log, a)
  BY <1>1, DerivedAppend
<1>5. \A a : OpenAbout(a)' = OpenAbout(a) /\ About(a)' = About(a) /\ Visible(a)' = Visible(a)
  BY <1>1 DEF OpenAbout, About, Visible
<1>6. ASSUME NEW a \in Touched(c), a \notin raced PROVE Told(d, a)'
  <2>1. a = c.event.approval /\ Derived(log', a) = Reduced(Derived(log, a), c.event.kind)
    BY <1>3, <1>4
  <2>2. /\ \A i, j \in Visible(a) : i = j
        /\ TellsDecision(a)
    BY <1>1, <1>3, <1>6 DEF TInv, Told, Asking, Deciding
  <2>3. CASE c.event.kind = "requested"
    <3>1. ~Deciding(d) /\ Asking(d)
      BY <1>3, <2>3 DEF Deciding, Asking, Decided, Decisions
    <3>2. TellsDecision(a)'
      BY <1>5, <2>1, <2>2, <2>3 DEF TellsDecision, Reduced, Decided, Decisions
    <3>3. QED
      BY <1>3, <1>5, <2>2, <3>1, <3>2 DEF Told, Deciding, Asking
  <2>4. CASE c.event.kind # "requested"
    <3>1. Deciding(d) /\ Derived(log', a) # "pending"
      BY <1>1, <1>3, <2>1, <2>4 DEF Deciding, EventKinds, Decided, Decisions, Reduced
    <3>2. QED
      BY <1>3, <1>5, <2>2, <3>1 DEF Told, Deciding
  <2>5. QED
    BY <2>3, <2>4
<1>7. QED
  BY <1>1, <1>3, <1>4, <1>5, <1>6, ToldStep

(* What a call that tells something works on, and what has been told.      *)
LEMMA Telling ==
    ASSUME IInv, RInv, TInv, NEW h \in Handlers, NEW c \in Calls, c = call[h],
           c.pc \in {"check", "find", "create", "list", "resolve"}
    PROVE  /\ ~c.rebuild /\ Touched(c) = {c.event.approval} /\ c.event.approval \in Approvals
           /\ c.pc \in {"check", "find", "create"} <=> Asking(c)
           /\ c.pc \in {"list", "resolve"} <=> Deciding(c)
           /\ c.event.approval \notin raced =>
                 /\ Told(c, c.event.approval)
                 /\ approvals[c.event.approval] = Derived(log, c.event.approval)
<1>1. /\ CallShape(c) /\ c.rebuild \in BOOLEAN /\ c.event.approval \in Approvals
  BY Holds DEF RInv
<1>2. ~c.rebuild /\ Touched(c) = {c.event.approval}
  BY <1>1 DEF CallShape, Touched
<1>3. /\ c.pc \in {"check", "find", "create"} <=> Asking(c)
      /\ c.pc \in {"list", "resolve"} <=> Deciding(c)
  BY <1>1, <1>2 DEF CallShape, Asking, Deciding, Decided, Decisions
<1>4. ASSUME c.event.approval \notin raced
      PROVE  /\ Told(c, c.event.approval)
             /\ approvals[c.event.approval] = Derived(log, c.event.approval)
  <2>1. Told(c, c.event.approval)
    BY <1>1, <1>2, <1>4 DEF TInv
  <2>2. RowFits(c, c.event.approval)
    BY <1>2, <1>4 DEF RInv, Sure
  <2>3. QED
    BY <1>2, <2>1, <2>2 DEF RowFits, InHand
<1>5. QED
  BY <1>1, <1>2, <1>3, <1>4

(* A decided approval is not announced, another one is looked for.         *)
LEMMA ToldCheckApproval ==
    ASSUME IInv, RInv, TInv, NEW h \in Handlers, CheckApproval(h)
    PROVE  TInv'
<1> PICK c \in Calls : c = call[h]
  BY Holds
<1>1. /\ c.pc = "check" /\ UNCHANGED <<approvals, log, notifications, raced>>
  BY DEF CheckApproval, At
<1> PICK a : a = c.event.approval
  OBVIOUS
<1>2. /\ ~c.rebuild /\ Touched(c) = {a} /\ Asking(c) /\ ~Deciding(c)
      /\ a \notin raced => Told(c, a) /\ approvals[a] = Derived(log, a)
  BY <1>1, Telling
<1>3. \A b : OpenAbout(b)' = OpenAbout(b) /\ About(b)' = About(b)
  BY <1>1 DEF OpenAbout, About
<1>4. PICK d : Goes(h, d) /\ d = IF Decided(approvals[a]) THEN Blank ELSE [c EXCEPT !.pc = "find"]
  BY DEF CheckApproval, Idles
<1>5. CASE Decided(approvals[a])
  <2>1. d = Blank /\ ~Asking(d) /\ ~Deciding(d) /\ d.pc = "idle"
    BY <1>4, <1>5, BlankFits DEF Asking, Deciding
  <2>2. a \notin raced => Told(d, a)
    BY <1>2, <1>5, <2>1 DEF Told, TellsRequest, Decided, Decisions
  <2>3. \A b \in Touched(c) : b \notin raced => Told(d, b)'
    BY <1>1, <1>2, <1>3, <2>2, ToldStays
  <2>4. QED
    BY <1>1, <1>3, <1>4, <2>1, <2>3, ToldStep
<1>6. CASE ~Decided(approvals[a])
  <2>1. d.pc = "find" /\ d.event = c.event /\ d.rebuild = c.rebuild
    BY <1>4, <1>6 DEF Calls
  <2>2. Touched(d) = Touched(c) /\ Asking(d) /\ ~Deciding(d)
    BY <1>1, <1>2, <2>1 DEF Touched, Asking, Deciding
  <2>3. a \notin raced => Told(d, a)
    BY <1>2, <1>6, <2>1, <2>2 DEF Told
  <2>4. \A b \in Touched(c) : b \notin raced => Told(d, b)'
    BY <1>1, <1>2, <1>3, <2>3, ToldStays
  <2>5. QED
    BY <1>1, <1>3, <1>4, <2>1, <2>2, <2>4, ToldStep
<1>7. QED
  BY <1>5, <1>6

(* A notification is created only where none is visible.                   *)
LEMMA ToldFindExisting ==
    ASSUME IInv, RInv, TInv, NEW h \in Handlers, FindExisting(h)
    PROVE  TInv'
<1> PICK c \in Calls : c = call[h]
  BY Holds
<1>1. /\ c.pc = "find" /\ UNCHANGED <<approvals, log, notifications, raced>>
  BY DEF FindExisting, At
<1> PICK a : a = c.event.approval
  OBVIOUS
<1>2. /\ ~c.rebuild /\ Touched(c) = {a} /\ Asking(c) /\ ~Deciding(c)
      /\ a \notin raced => Told(c, a)
  BY <1>1, Telling
<1>3. \A b : OpenAbout(b)' = OpenAbout(b) /\ About(b)' = About(b)
  BY <1>1 DEF OpenAbout, About
<1>4. PICK d : Goes(h, d) /\ d = IF Found(a) THEN Blank ELSE [c EXCEPT !.pc = "create"]
  BY DEF FindExisting, Idles
<1>5. CASE Found(a)
  <2>1. d = Blank /\ ~Asking(d) /\ ~Deciding(d) /\ d.pc = "idle"
    BY <1>4, <1>5, BlankFits DEF Asking, Deciding
  <2>2. About(a) # {}
    BY <1>5 DEF Found, OpenAbout
  <2>3. a \notin raced => Told(d, a)
    BY <1>2, <2>1, <2>2 DEF Told, TellsRequest
  <2>4. \A b \in Touched(c) : b \notin raced => Told(d, b)'
    BY <1>1, <1>2, <1>3, <2>3, ToldStays
  <2>5. QED
    BY <1>1, <1>3, <1>4, <2>1, <2>4, ToldStep
<1>6. CASE ~Found(a)
  <2>1. d.pc = "create" /\ d.event = c.event /\ d.rebuild = c.rebuild
    BY <1>4, <1>6 DEF Calls
  <2>2. Touched(d) = Touched(c) /\ Asking(d) /\ ~Deciding(d)
    BY <1>1, <1>2, <2>1 DEF Touched, Asking, Deciding
  <2>3. Visible(a) = {}
    BY <1>6 DEF Found, Visible
  <2>4. a \notin raced => Told(d, a)
    BY <1>1, <1>2, <2>1, <2>2, <2>3 DEF Told
  <2>5. \A b \in Touched(c) : b \notin raced => Told(d, b)'
    BY <1>1, <1>2, <1>3, <2>4, ToldStays
  <2>6. QED
    BY <1>1, <1>3, <1>4, <2>1, <2>2, <2>5, ToldStep
<1>7. QED
  BY <1>5, <1>6

LEMMA ToldCreate ==
    ASSUME IInv, RInv, TInv, NEW h \in Handlers, CreateNotification(h)
    PROVE  TInv'
<1> PICK c \in Calls : c = call[h]
  BY Holds
<1> PICK a : a = c.event.approval
  OBVIOUS
<1>1. /\ c.pc = "create" /\ UNCHANGED <<approvals, log, raced>> /\ Goes(h, Blank)
      /\ notifications' = Append(notifications, [approval |-> a, status |-> "pending"])
      /\ notifications \in Seq(Notifications)
  BY Holds DEF CreateNotification, At, Idles
<1>2. /\ ~c.rebuild /\ Touched(c) = {a} /\ Asking(c) /\ ~Deciding(c)
      /\ a \notin raced => Told(c, a)
  BY <1>1, Telling
<1> PICK n \in Nat : n = Len(notifications)
  BY <1>1
<1>3. /\ Len(notifications') = n + 1
      /\ notifications'[n + 1] = [approval |-> a, status |-> "pending"]
      /\ \A i \in 1..n : notifications'[i] = notifications[i]
  BY <1>1
<1>4. \A b : /\ b # a => About(b)' = About(b) /\ OpenAbout(b)' = OpenAbout(b)
             /\ b = a => About(b)' # {} /\ OpenAbout(b)' \subseteq OpenAbout(b) \union {n + 1}
  <2>1. \A b : b # a => About(b)' = About(b)
    BY <1>3 DEF About
  <2>2. About(a)' = About(a) \union {n + 1}
    BY <1>3 DEF About
  <2>3. \A b : b # a => OpenAbout(b)' = OpenAbout(b)
    BY <1>3, <2>1 DEF OpenAbout, About
  <2>4. OpenAbout(a)' \subseteq OpenAbout(a) \union {n + 1}
    BY <1>3, <2>2 DEF OpenAbout, About
  <2>5. QED
    BY <2>1, <2>2, <2>3, <2>4
<1>5. a \notin raced => Told(Blank, a)'
  <2> SUFFICES ASSUME a \notin raced PROVE Told(Blank, a)'
    OBVIOUS
  <2>1. Visible(a) = {} /\ ~Decided(Derived(log, a))
    BY <1>1, <1>2 DEF Told
  <2>2. Visible(a)' \subseteq {n + 1}
    BY <1>4, <2>1 DEF Visible
  <2>3. TellsDecision(a)' /\ TellsRequest(a)'
    BY <1>1, <1>4, <2>1 DEF TellsDecision, TellsRequest
  <2>4. QED
    BY <2>2, <2>3, BlankFits DEF Told, Asking, Deciding
<1>6. QED
  BY <1>1, <1>2, <1>4, <1>5, ToldStep

LEMMA ToldList ==
    ASSUME IInv, RInv, TInv, NEW h \in Handlers, ListNotifications(h)
    PROVE  TInv'
<1> PICK c \in Calls : c = call[h]
  BY Holds
<1> PICK a : a = c.event.approval
  OBVIOUS
<1>1. /\ c.pc = "list" /\ UNCHANGED <<approvals, log, notifications, raced>>
  BY DEF ListNotifications, At
<1>2. /\ ~c.rebuild /\ Touched(c) = {a} /\ Deciding(c)
      /\ a \notin raced => Told(c, a)
  BY <1>1, Telling
<1>3. \A b : OpenAbout(b)' = OpenAbout(b) /\ About(b)' = About(b)
  BY <1>1 DEF OpenAbout, About
<1>4. PICK d : Goes(h, d) /\ d = [c EXCEPT !.pc = "resolve", !.open = Resolvable(a)]
  BY DEF ListNotifications
<1>5. d.pc = "resolve" /\ d.event = c.event /\ d.rebuild = c.rebuild /\ d.open = Resolvable(a)
  BY <1>4 DEF Calls
<1>6. Touched(d) = Touched(c) /\ Deciding(d)
  BY <1>1, <1>2, <1>5 DEF Touched, Deciding
<1>7. \A i \in OpenAbout(a) : i <= ResolveLimit => i \in d.open
  BY <1>5 DEF OpenAbout, Resolvable
<1>8. a \notin raced => Told(d, a)
  BY <1>2, <1>5, <1>6, <1>7 DEF Told
<1>9. \A b \in Touched(c) : b \notin raced => Told(d, b)'
  BY <1>1, <1>2, <1>3, <1>8, ToldStays
<1>10. QED
  BY <1>1, <1>3, <1>4, <1>5, <1>6, <1>9, ToldStep

(* Setting a status takes a notification out of the pending ones.          *)
LEMMA SetStatusShrinks ==
    ASSUME IInv, NEW i, NEW status \in {"acknowledged", "resolved"}, SetStatus(i, status)
    PROVE  \A a : About(a)' = About(a) /\ OpenAbout(a)' \subseteq OpenAbout(a) \ {i}
<1>1. notifications \in Seq(Notifications)
  BY DEF IInv, RowsType
<1> PICK n \in Nat : n = Len(notifications)
  BY <1>1
<1>2. /\ Len(notifications') = n
      /\ \A j \in 1..n : /\ notifications'[j].approval = notifications[j].approval
                         /\ j # i => notifications'[j] = notifications[j]
                         /\ j = i => notifications'[j].status = status
  <2>1. notifications' \in Seq(Notifications) /\ DOMAIN notifications' = DOMAIN notifications
    BY SetStatusType DEF SetStatus
  <2>2. Len(notifications') = n
    BY <1>1, <2>1
  <2>3. \A j \in 1..n : notifications[j] \in Notifications
    BY <1>1
  <2>4. QED
    BY <1>1, <2>2, <2>3 DEF SetStatus, Notifications
<1>3. \A a : About(a)' = About(a)
  BY <1>2 DEF About
<1>4. \A a : OpenAbout(a)' \subseteq OpenAbout(a) \ {i}
  BY <1>2, <1>3 DEF OpenAbout, About
<1>5. QED
  BY <1>3, <1>4

(* The ones the decision listed are resolved one after the other.          *)
LEMMA ToldResolve ==
    ASSUME IInv, RInv, TInv, NEW h \in Handlers, ResolveNotification(h)
    PROVE  TInv'
<1> PICK c \in Calls : c = call[h]
  BY Holds
<1> PICK a : a = c.event.approval
  OBVIOUS
<1>1. /\ c.pc = "resolve" /\ UNCHANGED <<approvals, log, raced>>
  BY DEF ResolveNotification, At
<1>2. /\ ~c.rebuild /\ Touched(c) = {a} /\ Deciding(c)
      /\ a \notin raced => Told(c, a)
  BY <1>1, Telling
<1>3. CASE c.open = {}
  <2>1. Goes(h, Blank) /\ UNCHANGED notifications
    BY <1>3 DEF ResolveNotification, Idles
  <2>2. \A b : OpenAbout(b)' = OpenAbout(b) /\ About(b)' = About(b)
    BY <2>1 DEF OpenAbout, About
  <2>3. a \notin raced => Told(Blank, a)
    <3> SUFFICES ASSUME a \notin raced PROVE Told(Blank, a)
      OBVIOUS
    <3>1. ResolveLimit \in Nat /\ OpenAbout(a) \subseteq Nat
      BY BoundAssumption, Holds DEF OpenAbout, About
    <3>2. TellsDecision(a)
      BY <1>1, <1>2, <1>3, <3>1 DEF Told, TellsDecision
    <3>3. TellsRequest(a)
      BY <1>2 DEF Told, TellsRequest
    <3>4. QED
      BY <1>2, <3>2, <3>3, BlankFits DEF Told, Asking, Deciding
  <2>4. \A b \in Touched(c) : b \notin raced => Told(Blank, b)'
    BY <1>1, <1>2, <2>2, <2>3, ToldStays
  <2>5. QED
    BY <1>1, <2>1, <2>2, <2>4, ToldStep
<1>4. CASE c.open # {}
  <2>1. PICK i \in c.open : SetStatus(i, "resolved") /\ Goes(h, [c EXCEPT !.open = c.open \ {i}])
    BY <1>4 DEF ResolveNotification, Calls
  <2>2. \A b : About(b)' = About(b) /\ OpenAbout(b)' \subseteq OpenAbout(b) \ {i}
    BY <2>1, SetStatusShrinks
  <2>3. PICK d : d = [c EXCEPT !.open = c.open \ {i}]
    OBVIOUS
  <2>4. /\ d.pc = "resolve" /\ d.event = c.event /\ d.rebuild = c.rebuild
        /\ d.open = c.open \ {i} /\ Goes(h, d)
    BY <1>1, <2>1, <2>3 DEF Calls
  <2>5. Touched(d) = Touched(c) /\ Deciding(d)
    BY <1>1, <1>2, <2>4 DEF Touched, Deciding
  <2>6. a \notin raced => Told(d, a)'
    <3> SUFFICES ASSUME a \notin raced PROVE Told(d, a)'
      OBVIOUS
    <3>1. Told(c, a)'
      BY <1>1, <1>2, <2>2, ToldStays
    <3>2. (\A j \in OpenAbout(a) : j <= ResolveLimit => j \in d.open)'
      BY <1>1, <1>2, <2>2, <2>4 DEF Told
    <3>3. QED
      BY <1>1, <1>2, <2>4, <2>5, <3>1, <3>2 DEF Told, Deciding, Asking
  <2>7. QED
    BY <1>1, <1>2, <2>2, <2>4, <2>5, <2>6, ToldStep
<1>5. QED
  BY <1>3, <1>4

(* A call that starts has nothing to tell yet; a crash leaves untouched    *)
(* approvals as they were.                                                 *)
LEMMA ToldAnew ==
    ASSUME IInv, TInv, UNCHANGED <<log, notifications>>, raced \subseteq raced',
           NEW H \in SUBSET Handlers,
           \A g \in Handlers \ H : call'[g] = call[g] \/ call'[g] = Blank,
           \A g \in H : /\ call[g].pc = "idle" /\ call'[g].rebuild \in BOOLEAN
                        /\ call'[g].pc = IF call'[g].rebuild THEN "clear" ELSE "append",
           \A a \in Approvals \ raced' : \A g \in Handlers :
              a \in Touched(call[g]) => call'[g] = call[g],
           \A g \in H : \A a \in Touched(call'[g]) \ raced' : Quiet(a)
    PROVE  TInv'
<1>1. \A a : OpenAbout(a)' = OpenAbout(a) /\ About(a)' = About(a)
  BY DEF OpenAbout, About
<1>2. ASSUME NEW a \in Approvals, a \notin raced', \A g \in Handlers : a \notin Touched(call'[g])
      PROVE  Told(Blank, a)'
  <2>1. \A g \in Handlers : a \notin Touched(call[g])
    BY <1>2
  <2>2. Quiet(a)
    BY <2>1, TouchesTouched DEF Quiet
  <2>3. Told(Blank, a)
    BY <1>2, <2>2 DEF TInv
  <2>4. QED
    BY <1>1, <2>3, ToldStays
<1>3. ASSUME NEW a \in Approvals, a \notin raced', NEW g \in Handlers, a \in Touched(call'[g])
      PROVE  Told(call[g], a)'
  <2> PICK d : d = call'[g]
    OBVIOUS
  <2>1. CASE g \in H
    <3>1. Told(Blank, a)
      BY <1>2, <1>3, <2>1 DEF TInv
    <3>2. ~Asking(d) /\ ~Deciding(d) /\ d.pc \in {"clear", "append"}
      BY <2>1 DEF Asking, Deciding
    <3>3. ~Asking(Blank) /\ ~Deciding(Blank)
      BY BlankFits DEF Asking, Deciding
    <3>4. Told(d, a)
      BY <3>1, <3>2, <3>3 DEF Told
    <3>5. Told(d, a)'
      BY <1>1, <3>4, ToldStays
    <3>6. QED
      BY <3>5, ToldOfCall
  <2>2. CASE g \notin H
    <3>1. d # Blank
      BY <1>3, BlankFits
    <3>2. d = call[g]
      BY <2>2, <3>1
    <3>3. Told(d, a)
      BY <1>3, <3>2 DEF TInv
    <3>4. Told(d, a)'
      BY <1>1, <3>3, ToldStays
    <3>5. QED
      BY <3>4, ToldOfCall
  <2>3. QED
    BY <2>1, <2>2
<1>4. (\A a \in Approvals \ raced : Quiet(a) => Told(Blank, a))'
  BY <1>2 DEF Quiet, Touches, Touched, Busy, At
<1>5. (\A a \in Approvals \ raced : \A g \in Handlers : a \in Touched(call[g]) => Told(call[g], a))'
  BY <1>3 DEF Touched
<1>6. QED
  BY <1>4, <1>5 DEF TInv

(* A call that starts finds an approval it is alone on as the last call    *)
(* left it.                                                                *)
LEMMA ToldBegins ==
    ASSUME IInv, TInv, NEW h \in Handlers, NEW d, CallFits(d), Starts(h, d),
           d.pc = IF d.rebuild THEN "clear" ELSE "append", UNCHANGED <<log, notifications>>
    PROVE  TInv'
<1> DEFINE touched == IF d.rebuild THEN Approvals ELSE {d.event.approval}
           contended == Doubtful(d)
<1>1. Goes(h, d) /\ raced' = raced \union contended /\ call[h].pc = "idle"
  BY DEF Starts, At
<1>2. call'[h] = d /\ \A g \in Handlers \ {h} : call'[g] = call[g]
  BY <1>1 DEF Goes, IInv
<1>3. Touched(d) = touched /\ d.rebuild \in BOOLEAN
  BY DEF CallFits, Calls, Touched
<1>4. \A a \in touched \ contended : Quiet(a)
  BY DEF Quiet, Doubtful
<1>5. Touched(call[h]) = {}
  BY <1>1 DEF Touched
<1> HIDE DEF touched, contended
<1> PICK H \in SUBSET Handlers : H = {h}
  OBVIOUS
<1>6. \A g \in H : \A a \in Touched(call'[g]) \ raced' : Quiet(a)
  <2>1. \A a \in Touched(d) \ raced' : Quiet(a)
    BY <1>1, <1>3, <1>4
  <2>2. QED
    BY <1>2, <2>1
<1>7. \A g \in H : /\ call[g].pc = "idle" /\ call'[g].rebuild \in BOOLEAN
                   /\ call'[g].pc = IF call'[g].rebuild THEN "clear" ELSE "append"
  BY <1>1, <1>2, <1>3
<1>8. \A a \in Approvals \ raced' : \A g \in Handlers :
         a \in Touched(call[g]) => call'[g] = call[g]
  BY <1>2, <1>5
<1>9. raced \subseteq raced' /\ \A g \in Handlers \ H : call'[g] = call[g] \/ call'[g] = Blank
  BY <1>1, <1>2
<1>10. QED
  BY <1>6, <1>7, <1>8, <1>9, ToldAnew

LEMMA ToldBeginSteps ==
    ASSUME IInv, TInv, NEW h \in Handlers,
           \/ \E a \in Approvals : Request(h, a) \/ \E d \in Decisions : DecideApprovalRequest(h, a, d)
           \/ Rebuild(h)
    PROVE  TInv'
<1>1. ASSUME NEW a \in Approvals, NEW kind \in EventKinds,
             Starts(h, [Blank EXCEPT !.pc = "append", !.event = [kind |-> kind, approval |-> a]]),
             UNCHANGED <<log, notifications>>
      PROVE  TInv'
  <2>1. PICK d : d = [Blank EXCEPT !.pc = "append", !.event = [kind |-> kind, approval |-> a]]
    OBVIOUS
  <2>2. [kind |-> kind, approval |-> a] \in Events
    BY DEF Events
  <2>3. d.pc = "append" /\ ~d.rebuild
    BY <2>1 DEF Blank
  <2>4. CallFits(d)
    BY <2>1, <2>2, <2>3, BlankFits DEF CallFits, Calls, PCs
  <2>5. QED
    BY <1>1, <2>1, <2>3, <2>4, ToldBegins
<1>2. CASE Rebuild(h)
  <2>1. PICK d : d = [Blank EXCEPT !.pc = "clear", !.replay = Oldest, !.rebuild = TRUE]
    OBVIOUS
  <2>2. d.pc = "clear" /\ d.rebuild /\ d.replay = Oldest
    BY <2>1 DEF Blank
  <2>3. CallFits(d)
    BY <2>1, <2>2, OldestEvents, BlankFits DEF CallFits, Calls, PCs
  <2>4. QED
    BY <1>2, <2>1, <2>2, <2>3, ToldBegins DEF Rebuild
<1>3. "requested" \in EventKinds /\ Decisions \subseteq EventKinds
  BY DEF EventKinds
<1>4. QED
  BY <1>1, <1>2, <1>3 DEF Request, DecideApprovalRequest

LEMMA ToldCrash ==
    ASSUME IInv, TInv, Crash
    PROVE  TInv'
<1>1. /\ \A h \in Handlers : call'[h] = Blank
      /\ UNCHANGED <<log, notifications>>
      /\ raced' = raced \union UNION {Touches(h) : h \in Handlers}
  BY DEF Crash
<1>2. \A a \in Approvals \ raced' : \A g \in Handlers : a \notin Touched(call[g])
  BY <1>1, TouchesTouched
<1>3. raced \subseteq raced'
  BY <1>1
<1> PICK H \in SUBSET Handlers : H = {}
  OBVIOUS
<1>4. QED
  BY <1>1, <1>2, <1>3, ToldAnew

(* The observer only takes notifications out of the pending ones.          *)
LEMMA ToldObserver ==
    ASSUME IInv, TInv, Acknowledge \/ Resolve \/ OtherEvent \/ UNCHANGED vars
    PROVE  TInv'
<1>1. UNCHANGED <<log, call, raced>>
  BY DEF Acknowledge, Resolve, OtherEvent, vars
<1>2. \A a : About(a)' = About(a) /\ OpenAbout(a)' \subseteq OpenAbout(a)
  <2>1. CASE OtherEvent \/ UNCHANGED vars
    BY <2>1 DEF OtherEvent, vars, About, OpenAbout
  <2>2. CASE Acknowledge \/ Resolve
    <3>1. CASE Acknowledge
      <4>1. PICK i : SetStatus(i, "acknowledged")
        BY <3>1 DEF Acknowledge
      <4>2. QED
        BY <4>1, SetStatusShrinks
    <3>2. CASE Resolve
      <4>1. PICK i : SetStatus(i, "resolved")
        BY <3>2 DEF Resolve
      <4>2. QED
        BY <4>1, SetStatusShrinks
    <3>3. QED
      BY <2>2, <3>1, <3>2
  <2>3. QED
    BY <2>1, <2>2
<1>3. ASSUME NEW a, NEW c, Told(c, a) PROVE Told(c, a)'
  BY <1>1, <1>2, <1>3, ToldStays
<1>4. ASSUME NEW a \in Approvals, a \notin raced, NEW h \in Handlers, a \in Touched(call[h])
      PROVE  Told(call[h], a)'
  <2> PICK c : c = call[h]
    OBVIOUS
  <2>1. Told(c, a)'
    BY <1>3, <1>4 DEF TInv
  <2>2. QED
    BY <1>1, <2>1, ToldOfCall
<1>5. (\A a \in Approvals \ raced : Quiet(a) => Told(Blank, a))'
  BY <1>1, <1>3 DEF TInv, Quiet, Touches, Busy, At
<1>6. (\A a \in Approvals \ raced : \A h \in Handlers : a \in Touched(call[h]) => Told(call[h], a))'
  BY <1>1, <1>4 DEF Touched
<1>7. QED
  BY <1>5, <1>6 DEF TInv

LEMMA ToldInit == Init => TInv
<1> SUFFICES ASSUME Init PROVE TInv
  OBVIOUS
<1>1. /\ \A h \in Handlers : Touched(call[h]) = {}
      /\ \A a \in Approvals : Derived(log, a) = "absent"
  BY DerivedNone, BlankFits DEF Init
<1>2. \A a : About(a) = {} /\ OpenAbout(a) = {} /\ Visible(a) = {}
  BY DEF Init, About, OpenAbout, Visible
<1>3. \A a \in Approvals : Told(Blank, a)
  BY <1>1, <1>2, BlankFits DEF Told, TellsDecision, TellsRequest, Decided, Decisions
<1>4. QED
  BY <1>1, <1>3 DEF TInv

LEMMA ToldNext == IInv /\ RInv /\ TInv /\ [Next]_vars => TInv'
<1> SUFFICES ASSUME IInv, RInv, TInv, [Next]_vars PROVE TInv'
  OBVIOUS
<1>1. CASE UNCHANGED vars \/ OtherEvent \/ Acknowledge \/ Resolve
  BY <1>1, ToldObserver
<1>2. CASE Next
  BY <1>1, <1>2, ToldBeginSteps, ToldAppendEvent, ToldByRows, ToldCheckApproval, ToldFindExisting,
     ToldCreate, ToldList, ToldResolve, ToldCrash DEF Next
<1>3. QED
  BY <1>1, <1>2

(* What an approval no call works on has been told of, by its row.         *)
LEMMA ToldByRow ==
    ASSUME IInv, RInv, TInv, NEW a \in Approvals, a \notin raced, Quiet(a)
    PROVE  /\ Decided(approvals[a]) => \A i \in OpenAbout(a) : i > ResolveLimit
           /\ approvals[a] = "pending" => About(a) # {}
           /\ \A i, j \in Visible(a) : i = j
<1>1. Told(Blank, a)
  BY DEF TInv
<1>2. approvals[a] = Derived(log, a)
  BY DEF RInv
<1>3. ~Deciding(Blank) /\ ~Asking(Blank)
  BY BlankFits DEF Deciding, Asking
<1>4. QED
  BY <1>1, <1>2, <1>3 DEF Told, TellsDecision, TellsRequest

LEMMA ToldAlways == Spec => [](IInv /\ RInv /\ TInv)
BY IInvInit, IInvNext, RowInit, RowNext, ToldInit, ToldNext, PTL DEF Spec

(* Whatever requests, decisions, rebuilds and observers come between: the  *)
(* notifications a decision could see are no longer pending once it is     *)
(* done, unless calls raced for the approval.                              *)
THEOREM DecidedAreResolved == Spec => []DecidedNotPending
<1>1. IInv /\ RInv /\ TInv => DecidedNotPending
  BY ToldByRow DEF DecidedNotPending
<1>2. QED
  BY <1>1, ToldAlways, PTL

(* However often a request is repeated, denied, asked again or replayed: a *)
(* pending approval has a notification, and the search for an existing one *)
(* never lets a second pending one come among those it sees.               *)
THEOREM AnnouncedOnceOnly == Spec => []AnnouncedOnce
<1>1. IInv /\ RInv /\ TInv => AnnouncedOnce
  <2> SUFFICES ASSUME IInv, RInv, TInv, NEW a \in Approvals, a \notin raced, Quiet(a)
               PROVE  /\ approvals[a] = "pending" => About(a) # {}
                      /\ Cardinality(Visible(a)) <= 1
    BY DEF AnnouncedOnce, Visible
  <2>1. approvals[a] = "pending" => About(a) # {}
    BY ToldByRow
  <2>2. CASE Visible(a) = {}
    BY <2>1, <2>2, FS_EmptySet
  <2>3. CASE Visible(a) # {}
    <3>1. PICK i : Visible(a) = {i}
      BY <2>3, ToldByRow
    <3>2. Cardinality(Visible(a)) = 1
      BY <3>1, FS_Singleton
    <3>3. QED
      BY <2>1, <3>2
  <2>4. QED
    BY <2>2, <2>3
<1>2. QED
  BY <1>1, ToldAlways, PTL
=============================================================================
