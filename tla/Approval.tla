------------------------------ MODULE Approval ------------------------------
(* The approval requests of one kernel session: how ApprovalRequested and  *)
(* the decisions granted, denied and revoked reach the event log, the row  *)
(* of the approval (approval_requests) and the notifications that tell the *)
(* observer of it, and how a rebuild replays them.                         *)
(*                                                                         *)
(* A handler reads a row, waits for the store, and writes what it decided  *)
(* on its copy: one action is one access to the store that another handler *)
(* can come before.  The observer acknowledges and resolves notifications  *)
(* at any time.                                                            *)
EXTENDS Naturals, Sequences, FiniteSets

CONSTANTS
    Handlers,      \* request handlers that run side by side
    Approvals,     \* approval_request_id
    FindLimit,     \* how many notifications the search for an existing one sees
    ResolveLimit,  \* how many notifications a decision sees
    ReplayLimit,   \* how many events a rebuild reads, the oldest ones (10000)
    MaxEvents,     \* bound: approval events in the log
    MaxRebuilds,   \* bound: rebuilds of the session
    MaxCrashes     \* bound: crashes of the process

ASSUME BoundAssumption ==
    {FindLimit, ResolveLimit, ReplayLimit, MaxEvents, MaxRebuilds, MaxCrashes}
        \subseteq Nat
ASSUME ApprovalAssumption == Approvals # {}

Decisions == {"granted", "denied", "revoked"}
Statuses == {"absent", "pending"} \union Decisions
EventKinds == {"requested"} \union Decisions
Events == [kind : EventKinds, approval : Approvals]
Notifications == [approval : Approvals, status : {"pending", "acknowledged", "resolved"}]

VARIABLES
    approvals,     \* approval_requests: the status of each row
    log,           \* the approval events in the log, in the order they were appended
    notifications, \* the approval_required notifications in the order they were created
    call,          \* what each handler is doing, and the copies it holds
    reach,         \* how many of them the events of other kinds leave room for among
                   \*   those a rebuild reads
    rebuilds,
    crashes,
    raced,         \* history: approvals two calls worked on at once, or a crash cut
                   \*   off, or a rebuild that did not read the whole log cleared
    unsure,        \* those of them whose row no undisturbed rebuild has restored since
    disturbed      \* history: another call overlapped the last rebuild, or it did not
                   \*   read the whole log

vars == <<approvals, log, notifications, call, reach, rebuilds, crashes, raced, unsure,
          disturbed>>

PCs == {"idle", "append", "read", "save", "check", "find", "create", "list",
        "resolve", "clear", "replay"}

\* What a handler works on: the event in hand, the notifications a decision
\* still has to resolve, the events a rebuild still has to replay.
Calls == [pc : PCs, event : Events, open : SUBSET Nat, replay : Seq(Events),
          rebuild : BOOLEAN]

At(h, pc) == call[h].pc = pc
Busy(h) == ~At(h, "idle")
Goes(h, c) == call' = [call EXCEPT ![h] = c]
Blank == [pc |-> "idle", event |-> [kind |-> "requested", approval |-> CHOOSE a \in Approvals : TRUE],
          open |-> {}, replay |-> <<>>, rebuild |-> FALSE]
Idles(h) == Goes(h, Blank)
Decided(status) == status \in Decisions

\* The approvals a handler may touch.
Touches(h) ==
    IF ~Busy(h) THEN {}
    ELSE IF call[h].rebuild THEN Approvals ELSE {call[h].event.approval}
Quiet(a) == \A h \in Handlers : a \notin Touches(h)

Init ==
    /\ approvals = [a \in Approvals |-> "absent"]
    /\ log = <<>>
    /\ notifications = <<>>
    /\ call = [h \in Handlers |-> Blank]
    /\ reach = ReplayLimit
    /\ rebuilds = 0
    /\ crashes = 0
    /\ raced = {}
    /\ unsure = {}
    /\ disturbed = FALSE

\* The approvals that a call c puts in doubt when it starts: those another
\* call is touching, and all of them when it is a rebuild that leaves out the
\* end of the log.
Doubtful(c) ==
    LET touched == IF c.rebuild THEN Approvals ELSE {c.event.approval}
    IN  IF c.rebuild /\ c.replay # log THEN touched
        ELSE touched \intersect UNION {Touches(g) : g \in Handlers}

Starts(h, c) ==
    LET contended == Doubtful(c)
    IN  /\ At(h, "idle")
        /\ Goes(h, c)
        /\ raced' = raced \union contended
        /\ unsure' = unsure \union contended
        /\ disturbed' = IF c.rebuild THEN contended # {}
                        ELSE disturbed \/ \E g \in Handlers : call[g].rebuild

-----------------------------------------------------------------------------
(* append_kernel_event, called with ApprovalRequested by the integration   *)
(* that asks, and with a decision by an endpoint that found the approval.  *)

UnderWay == {h \in Handlers : At(h, "append")}

Request(h, a) ==
    /\ Len(log) + Cardinality(UnderWay) < MaxEvents
    /\ Starts(h, [Blank EXCEPT !.pc = "append", !.event = [kind |-> "requested", approval |-> a]])
    /\ UNCHANGED <<approvals, log, notifications, reach, rebuilds, crashes>>

DecideApprovalRequest(h, a, decision) ==
    /\ Len(log) + Cardinality(UnderWay) < MaxEvents
    /\ approvals[a] # "absent"
    /\ Starts(h, [Blank EXCEPT !.pc = "append", !.event = [kind |-> decision, approval |-> a]])
    /\ UNCHANGED <<approvals, log, notifications, reach, rebuilds, crashes>>

AppendEvent(h) ==
    /\ At(h, "append")
    /\ log' = Append(log, call[h].event)
    /\ Goes(h, [call[h] EXCEPT !.pc = "read"])
    /\ UNCHANGED <<approvals, notifications, reach, rebuilds, crashes, raced, unsure, disturbed>>

\* After the row: a request tells the observer, a decision resolves what it
\* was told, a rebuild goes on to the next event.
AfterRow(c) ==
    [c EXCEPT !.pc = IF c.rebuild THEN "replay"
                     ELSE IF c.event.kind = "requested" THEN "check" ELSE "list"]

\* What an event makes of the status its reduction has read.
Reduced(status, kind) ==
    IF kind = "requested" THEN IF Decided(status) THEN status ELSE "pending"
    ELSE IF status = "absent" THEN "absent" ELSE kind

\* Mutant: a repeated request is reduced like the first one.
ReadApprovalUnguarded(h) ==
    /\ At(h, "read")
    /\ LET c == call[h]
           skips == c.event.kind # "requested" /\ approvals[c.event.approval] = "absent"
       IN  Goes(h, IF skips THEN AfterRow(c) ELSE [c EXCEPT !.pc = "save"])
    /\ UNCHANGED <<approvals, log, notifications, reach, rebuilds, crashes, raced, unsure, disturbed>>

(* reduce reads the row: a request for a decided approval and a decision   *)
(* on an unknown one write nothing.                                        *)
ReadApproval(h) ==
    /\ At(h, "read")
    /\ LET c == call[h]
           status == approvals[c.event.approval]
           skips == IF c.event.kind = "requested" THEN Decided(status) ELSE status = "absent"
       IN  Goes(h, IF skips THEN AfterRow(c) ELSE [c EXCEPT !.pc = "save"])
    /\ UNCHANGED <<approvals, log, notifications, reach, rebuilds, crashes, raced, unsure, disturbed>>

\* Mutant: the kind of the event is written for the status it means.
SaveApprovalAsEvent(h) ==
    /\ At(h, "save")
    /\ LET event == call[h].event
       IN  approvals' = [approvals EXCEPT ![event.approval] = event.kind]
    /\ Goes(h, AfterRow(call[h]))
    /\ UNCHANGED <<log, notifications, reach, rebuilds, crashes, raced, unsure, disturbed>>

(* The write does not look at the row again.                               *)
SaveApproval(h) ==
    /\ At(h, "save")
    /\ LET event == call[h].event
       IN  approvals' = [approvals EXCEPT ![event.approval] =
                           IF event.kind = "requested" THEN "pending" ELSE event.kind]
    /\ Goes(h, AfterRow(call[h]))
    /\ UNCHANGED <<log, notifications, reach, rebuilds, crashes, raced, unsure, disturbed>>

-----------------------------------------------------------------------------
(* Notifications.                                                          *)

About(a) == {i \in 1..Len(notifications) : notifications[i].approval = a}
OpenAbout(a) == {i \in About(a) : notifications[i].status = "pending"}

\* Mutant: a request is announced without a look at the approval.
CheckApprovalNever(h) ==
    /\ At(h, "check")
    /\ Goes(h, [call[h] EXCEPT !.pc = "find"])
    /\ UNCHANGED <<approvals, log, notifications, reach, rebuilds, crashes, raced, unsure, disturbed>>

(* notify_approval_from_event: nothing to tell of a decided approval.      *)
CheckApproval(h) ==
    /\ At(h, "check")
    /\ IF Decided(approvals[call[h].event.approval]) THEN Idles(h)
       ELSE Goes(h, [call[h] EXCEPT !.pc = "find"])
    /\ UNCHANGED <<approvals, log, notifications, reach, rebuilds, crashes, raced, unsure, disturbed>>

\* Mutant: every request is announced.
FoundNever(a) == FALSE

(* _find_existing sees the oldest notifications only.                      *)
Found(a) == \E i \in OpenAbout(a) : i <= FindLimit

FindExisting(h) ==
    /\ At(h, "find")
    /\ IF Found(call[h].event.approval) THEN Idles(h)
       ELSE Goes(h, [call[h] EXCEPT !.pc = "create"])
    /\ UNCHANGED <<approvals, log, notifications, reach, rebuilds, crashes, raced, unsure, disturbed>>

CreateNotification(h) ==
    /\ At(h, "create")
    /\ notifications' = Append(notifications,
                               [approval |-> call[h].event.approval, status |-> "pending"])
    /\ Idles(h)
    /\ UNCHANGED <<approvals, log, reach, rebuilds, crashes, raced, unsure, disturbed>>

(* resolve_approval_notification: the list is read once, then its members  *)
(* are resolved one after the other.                                       *)
Resolvable(a) ==
    {i \in About(a) : i <= ResolveLimit /\ notifications[i].status # "resolved"}

ListNotifications(h) ==
    /\ At(h, "list")
    /\ Goes(h, [call[h] EXCEPT !.pc = "resolve", !.open = Resolvable(call[h].event.approval)])
    /\ UNCHANGED <<approvals, log, notifications, reach, rebuilds, crashes, raced, unsure, disturbed>>

SetStatus(i, status) ==
    notifications' = [notifications EXCEPT ![i] = [notifications[i] EXCEPT !.status = status]]

ResolveNotification(h) ==
    /\ At(h, "resolve")
    /\ IF call[h].open = {}
       THEN Idles(h) /\ UNCHANGED notifications
       ELSE \E i \in call[h].open :
              /\ \A j \in call[h].open : i <= j
              /\ SetStatus(i, "resolved")
              /\ Goes(h, [call[h] EXCEPT !.open = @ \ {i}])
    /\ UNCHANGED <<approvals, log, reach, rebuilds, crashes, raced, unsure, disturbed>>

(* The observer's endpoints, which look at no status.                      *)
Acknowledge ==
    /\ \E i \in DOMAIN notifications : SetStatus(i, "acknowledged")
    /\ UNCHANGED <<approvals, log, call, reach, rebuilds, crashes, raced, unsure, disturbed>>

Resolve ==
    /\ \E i \in DOMAIN notifications : SetStatus(i, "resolved")
    /\ UNCHANGED <<approvals, log, call, reach, rebuilds, crashes, raced, unsure, disturbed>>

-----------------------------------------------------------------------------
(* rebuild_session: the oldest events are read, the rows cleared, the      *)
(* events reduced again.  The notifications are neither cleared nor        *)
(* created.                                                                *)

Oldest == SubSeq(log, 1, IF Len(log) < reach THEN Len(log) ELSE reach)

Rebuild(h) ==
    /\ rebuilds < MaxRebuilds
    /\ rebuilds' = rebuilds + 1
    /\ Starts(h, [Blank EXCEPT !.pc = "clear", !.replay = Oldest, !.rebuild = TRUE])
    /\ UNCHANGED <<approvals, log, notifications, reach, crashes>>

(* An event of another kind takes one of the places that a rebuild reads.  *)
OtherEvent ==
    /\ reach > Len(log)
    /\ reach' = reach - 1
    /\ UNCHANGED <<approvals, log, notifications, call, rebuilds, crashes, raced, unsure, disturbed>>

ClearDerivedState(h) ==
    /\ At(h, "clear")
    /\ approvals' = [a \in Approvals |-> "absent"]
    /\ Goes(h, [call[h] EXCEPT !.pc = "replay"])
    /\ UNCHANGED <<log, notifications, reach, rebuilds, crashes, raced, unsure, disturbed>>

\* An undisturbed rebuild restores every row.
Replay(h) ==
    /\ At(h, "replay")
    /\ IF call[h].replay = <<>>
       THEN /\ Idles(h)
            /\ unsure' = IF disturbed THEN unsure ELSE {}
       ELSE /\ Goes(h, [call[h] EXCEPT !.pc = "read", !.event = Head(call[h].replay),
                                       !.replay = Tail(call[h].replay)])
            /\ UNCHANGED unsure
    /\ UNCHANGED <<approvals, log, notifications, reach, rebuilds, crashes, raced, disturbed>>

-----------------------------------------------------------------------------
(* The process stops: every call under way is lost, the rows stay.         *)
Crash ==
    /\ crashes < MaxCrashes
    /\ \E h \in Handlers : Busy(h)
    /\ crashes' = crashes + 1
    /\ raced' = raced \union UNION {Touches(h) : h \in Handlers}
    /\ unsure' = unsure \union UNION {Touches(h) : h \in Handlers}
    /\ call' = [h \in Handlers |-> Blank]
    /\ UNCHANGED <<approvals, log, notifications, reach, rebuilds, disturbed>>

Next ==
    \/ \E h \in Handlers :
          \/ \E a \in Approvals :
                Request(h, a) \/ \E d \in Decisions : DecideApprovalRequest(h, a, d)
          \/ AppendEvent(h) \/ ReadApproval(h) \/ SaveApproval(h)
          \/ CheckApproval(h) \/ FindExisting(h) \/ CreateNotification(h)
          \/ ListNotifications(h) \/ ResolveNotification(h)
          \/ Rebuild(h) \/ ClearDerivedState(h) \/ Replay(h)
    \/ OtherEvent \/ Acknowledge \/ Resolve \/ Crash

Spec == Init /\ [][Next]_vars

-----------------------------------------------------------------------------
(* Properties.                                                             *)

TypeOK ==
    /\ approvals \in [Approvals -> Statuses]
    /\ log \in Seq(Events)
    /\ notifications \in Seq(Notifications)
    /\ call \in [Handlers -> Calls]
    /\ reach \in 0..ReplayLimit
    /\ rebuilds \in 0..MaxRebuilds
    /\ crashes \in 0..MaxCrashes
    /\ raced \in SUBSET Approvals
    /\ unsure \in SUBSET Approvals
    /\ disturbed \in BOOLEAN

\* Where a list of events asks for an approval, and where it decides one that
\* was asked for before.
Asked(events, a) ==
    {i \in DOMAIN events : events[i].kind = "requested" /\ events[i].approval = a}
Decides(events, a) ==
    {j \in DOMAIN events : /\ Decided(events[j].kind) /\ events[j].approval = a
                           /\ \E i \in Asked(events, a) : i < j}

\* The status the events give an approval: that of the last decision on it.
Derived(events, a) ==
    IF Asked(events, a) = {} THEN "absent"
    ELSE IF Decides(events, a) = {} THEN "pending"
    ELSE events[CHOOSE j \in Decides(events, a) : \A k \in Decides(events, a) : k <= j].kind

\* The status of an approval follows from the event log, as the documentation
\* says: for every approval no call is working on, unless two calls raced for
\* it, a crash cut one off, or a rebuild cleared it that did not read the whole
\* log -- and then an undisturbed rebuild of the whole log restores it.
RowFollowsLog == \A a \in Approvals \ unsure : Quiet(a) => approvals[a] = Derived(log, a)

\* A decided approval leaves no notification pending, as long as the decision
\* could see them all, and no calls raced for the approval.
DecidedNotPending ==
    \A a \in Approvals \ raced :
        Quiet(a) /\ Decided(approvals[a]) => \A i \in OpenAbout(a) : i > ResolveLimit

\* A pending approval has been announced, and no two announcements of one
\* approval are pending while the search can see them.
AnnouncedOnce ==
    \A a \in Approvals \ raced :
        Quiet(a) => /\ approvals[a] = "pending" => About(a) # {}
                    /\ Cardinality({i \in OpenAbout(a) : i <= FindLimit}) <= 1

\* Outside a rebuild a decided approval is not asked for again, if no calls
\* raced for it: a repeated ApprovalRequested leaves the decision.
DecisionSticks ==
    [][\A a \in Approvals :
         Decided(approvals[a]) /\ a \notin raced /\ (\A h \in Handlers : ~call[h].rebuild)
            => Decided(approvals'[a])]_vars

\* The comment of reduce says it without the condition: a replayed or repeated
\* ApprovalRequested can not take a decided approval back to pending.
DecidedNeverReopened ==
    [][\A a \in Approvals : Decided(approvals[a]) => approvals'[a] # "pending"]_vars
=============================================================================
