----------------------- MODULE ThinkerDispatch_proofs -----------------------
(* Proofs about ThinkerDispatch for any number of handlers, thinkers,      *)
(* tasks, runs and crashes.                                                *)
EXTENDS ThinkerDispatch, TLAPS

-----------------------------------------------------------------------------
(* Types.                                                                  *)

(* A free handler, and the row it holds, have their types.                 *)
LEMMA BlankType == Blank \in Handler /\ Blank.row \in Row
<1>1. AnyTask \in Tasks
  BY TasksAssumption DEF AnyTask
<1>2. QED
  BY <1>1 DEF Blank, Handler, Row, RunIds, Reports, PCs, DispatchStatuses, Ended

(* A report ends the dispatch and names a type of notification.            *)
LEMMA ReportType ==
    \A report \in Reports : report[1] \in Ended /\ report[2] \in NotificationTypes
BY DEF Reports, Ended, NotificationTypes

(* A handler that goes on as a record of its type keeps the table typed,   *)
(* and leaves the other handlers alone.                                    *)
LEMMA HandlerUpdates ==
    ASSUME handler \in [Handlers -> Handler], NEW h \in Handlers, NEW r \in Handler,
           Becomes(h, r)
    PROVE  /\ handler' \in [Handlers -> Handler]
           /\ \A g \in Handlers : handler'[g] = IF g = h THEN r ELSE handler[g]
BY DEF Becomes

(* Every request in flight is about a run that was drawn.                  *)
Typed == TypeOK /\ \A h \in Handlers : ~At(h, "idle") => handler[h].run \in Runs

(* The session starts typed.                                               *)
LEMMA TypeInit == Init => Typed
<1> SUFFICES ASSUME Init PROVE Typed
  OBVIOUS
<1>1. activeRun \in RunIds /\ settled \in SUBSET Subjects
      /\ interrupted \in SUBSET Runs /\ overlapped \in BOOLEAN
  BY DEF Init, RunIds
<1>2. queue \in Seq(Runs)
  BY DEF Init
<1>3. /\ drawn \in 0..MaxRuns /\ crashes \in 0..MaxCrashes /\ early \in SUBSET Runs
      /\ open \in [Subjects -> Nat] /\ beyond \in [Subjects -> Nat]
      /\ listed \in [Tasks -> 0..FindLimit]
  BY BoundAssumption, LimitAssumption DEF Init
<1>4. rows \in [Runs -> Row] /\ handler \in [Handlers -> Handler]
  BY BlankType DEF Init
<1>5. \A h \in Handlers : At(h, "idle")
  BY DEF Init, At, Blank
<1>6. QED
  BY <1>1, <1>2, <1>3, <1>4, <1>5 DEF Typed, TypeOK

(* What a handler may notify about.                                        *)
LEMMA SubjectType ==
    ASSUME TypeOK, NEW h \in Handlers
    PROVE  Subject(h) \in Subjects
BY ReportType DEF TypeOK, Subject, Subjects, Handler, Row

-----------------------------------------------------------------------------
(* The four shapes of a call that was just taken, as the record r of its   *)
(* handler: a message that will activate a run, a row about to be saved by *)
(* a claim or a heartbeat (which is noted when the row was pending), the   *)
(* end of the active run, and the end of the dispatch of another run.      *)

NewMessage(r) ==
    /\ drawn < MaxRuns /\ drawn' = drawn + 1
    /\ r.pc = "activate" /\ r.run = drawn + 1
    /\ r.row.status = "pending" /\ r.row.claimedBy = NoThinker

SavesRow(r) ==
    /\ drawn' = drawn
    /\ r.pc = "writeRow"
    /\ \/ r.row.status = "claimed" /\ rows[r.run].status = "pending"
       \/ /\ r.row = rows[r.run] /\ Present(r.run)
          /\ rows[r.run].status = "pending" => r.run \in early'

EndsActive(r) ==
    /\ drawn' = drawn
    /\ r.pc = "clearRun" /\ activeRun = r.run
    /\ r.reports => Present(r.run)

EndsOther(r) ==
    /\ drawn' = drawn
    /\ r.pc = "readRow" /\ activeRun # r.run
    /\ Present(r.run)

Shape(r) == NewMessage(r) \/ SavesRow(r) \/ EndsActive(r) \/ EndsOther(r)

(* Every call that is taken has one of the four shapes.                    *)
LEMMA CallShape ==
    ASSUME Typed, NEW h \in Handlers, Call(h)
    PROVE  \E r \in Handler :
              /\ r.run \in Runs
              /\ Takes(h, r)
              /\ Shape(r)
              /\ UNCHANGED <<session, rows, queue, notifications>>
              /\ early \subseteq early' /\ early' \in SUBSET Runs
<1> USE DEF Shape
<1>0. early \in SUBSET Runs
  BY DEF Typed, TypeOK
<1>1. CASE DispatchUserMessage(h)
  <2>1. PICK task \in Tasks :
          Takes(h, [Blank EXCEPT !.pc = "activate", !.run = drawn + 1,
                                 !.row = [status |-> "pending", task |-> task,
                                          claimedBy |-> NoThinker]])
    BY <1>1 DEF DispatchUserMessage
  <2> DEFINE r == [Blank EXCEPT !.pc = "activate", !.run = drawn + 1,
                                !.row = [status |-> "pending", task |-> task,
                                         claimedBy |-> NoThinker]]
  <2>2. drawn < MaxRuns /\ drawn' = drawn + 1 /\ drawn + 1 \in Runs
    BY <1>1, BoundAssumption DEF DispatchUserMessage, Typed, TypeOK, Runs
  <2>3. r \in Handler /\ r.run \in Runs
    BY <2>2, BlankType DEF Handler, Row, PCs, RunIds, DispatchStatuses
  <2>4. NewMessage(r)
    BY <2>2, BlankType DEF NewMessage, Handler
  <2>5. QED
    BY <1>0, <1>1, <2>1, <2>3, <2>4 DEF DispatchUserMessage
<1>2. CASE ClaimDispatch(h)
  <2>1. PICK thinker \in Thinkers, wanted \in Filters : \E i \in Matches(wanted) :
          Takes(h, [Blank EXCEPT !.pc = "writeRow", !.run = queue[i],
                                 !.row = [rows[queue[i]] EXCEPT
                                            !.status = "claimed", !.claimedBy = thinker]])
    BY <1>2 DEF ClaimDispatch
  <2>2. PICK i \in Matches(wanted) :
          Takes(h, [Blank EXCEPT !.pc = "writeRow", !.run = queue[i],
                                 !.row = [rows[queue[i]] EXCEPT
                                            !.status = "claimed", !.claimedBy = thinker]])
    BY <2>1
  <2> DEFINE row == [rows[queue[i]] EXCEPT !.status = "claimed", !.claimedBy = thinker]
             r == [Blank EXCEPT !.pc = "writeRow", !.run = queue[i], !.row = row]
  <2>3. queue[i] \in Runs /\ rows[queue[i]].status = "pending"
    BY DEF Matches, Typed, TypeOK
  <2>4. row \in Row /\ row.status = "claimed"
    BY <2>3 DEF Typed, TypeOK, Row, DispatchStatuses
  <2> HIDE DEF row
  <2>5. r \in Handler /\ r.run = queue[i] /\ r.pc = "writeRow" /\ r.row = row
    BY <2>3, <2>4, BlankType DEF Handler, PCs, RunIds
  <2>6. drawn' = drawn
    BY <1>2 DEF ClaimDispatch
  <2>7. SavesRow(r)
    BY <2>3, <2>4, <2>5, <2>6 DEF SavesRow
  <2>8. Takes(h, r)
    BY <2>2 DEF row
  <2> HIDE DEF r
  <2>9. QED
    BY <1>0, <1>2, <2>3, <2>5, <2>7, <2>8 DEF ClaimDispatch
<1>3. CASE Heartbeat(h)
  <2>1. PICK run \in Runs :
          /\ Present(run)
          /\ Takes(h, [Blank EXCEPT !.pc = "writeRow", !.run = run, !.row = rows[run]])
          /\ early' = early \union (IF rows[run].status = "pending" THEN {run} ELSE {})
    BY <1>3 DEF Heartbeat
  <2> DEFINE r == [Blank EXCEPT !.pc = "writeRow", !.run = run, !.row = rows[run]]
  <2>2. r \in Handler /\ r.run = run /\ r.pc = "writeRow" /\ r.row = rows[run]
    BY BlankType DEF Typed, TypeOK, Handler, PCs, RunIds
  <2>3. Takes(h, r)
    BY <2>1
  <2> HIDE DEF r
  <2>4. SavesRow(r)
    BY <1>3, <2>1, <2>2 DEF SavesRow, Heartbeat
  <2>5. QED
    BY <1>0, <1>3, <2>1, <2>2, <2>3, <2>4 DEF Heartbeat
<1>4. CASE FinishDispatch(h)
  <2>1. PICK run \in Runs, report \in Reported :
          /\ Present(run)
          /\ Takes(h, [Blank EXCEPT !.pc = IF ClearsRun(run) THEN "clearRun" ELSE "readRow",
                                    !.run = run, !.report = report, !.reports = TRUE])
    BY <1>4 DEF FinishDispatch
  <2> DEFINE r == [Blank EXCEPT !.pc = IF ClearsRun(run) THEN "clearRun" ELSE "readRow",
                                !.run = run, !.report = report, !.reports = TRUE]
  <2>2. r \in Handler /\ r.run = run
        /\ r.pc = IF ClearsRun(run) THEN "clearRun" ELSE "readRow"
    BY BlankType, ReportedAssumption DEF Handler, PCs, RunIds
  <2>3. Takes(h, r)
    BY <2>1
  <2> HIDE DEF r
  <2>4. EndsActive(r) \/ EndsOther(r)
    BY <1>4, <2>1, <2>2 DEF EndsActive, EndsOther, ClearsRun, FinishDispatch
  <2>5. QED
    BY <1>0, <1>4, <2>2, <2>3, <2>4 DEF FinishDispatch
<1>5. CASE CompleteRun(h)
  <2>1. PICK run \in Runs :
          /\ ClearsRun(run)
          /\ Takes(h, [Blank EXCEPT !.pc = "clearRun", !.run = run])
    BY <1>5 DEF CompleteRun
  <2> DEFINE r == [Blank EXCEPT !.pc = "clearRun", !.run = run]
  <2>2. r \in Handler /\ r.run = run /\ r.pc = "clearRun" /\ r.reports = FALSE
    BY BlankType DEF Blank, Handler, PCs, RunIds
  <2>3. Takes(h, r)
    BY <2>1
  <2> HIDE DEF r
  <2>4. EndsActive(r)
    BY <1>5, <2>1, <2>2 DEF EndsActive, ClearsRun, CompleteRun
  <2>5. QED
    BY <1>0, <1>5, <2>2, <2>3, <2>4 DEF CompleteRun
<1>6. QED
  BY <1>1, <1>2, <1>3, <1>4, <1>5 DEF Call

(* Taking a call keeps the types.                                          *)
LEMMA CallType ==
    ASSUME Typed, NEW h \in Handlers, Call(h)
    PROVE  Typed'
<1>1. PICK r \in Handler :
        /\ r.run \in Runs
        /\ Takes(h, r)
        /\ Shape(r)
        /\ UNCHANGED <<session, rows, queue, notifications>>
        /\ early \subseteq early' /\ early' \in SUBSET Runs
  BY CallShape
<1>2. /\ handler' \in [Handlers -> Handler]
      /\ \A g \in Handlers : handler'[g] = IF g = h THEN r ELSE handler[g]
  BY <1>1, HandlerUpdates DEF Takes, Typed, TypeOK
<1>3. overlapped' \in BOOLEAN /\ crashes' = crashes
  BY <1>1 DEF Takes, Typed, TypeOK
<1>4. drawn' \in 0..MaxRuns
  BY <1>1, BoundAssumption
     DEF Shape, NewMessage, SavesRow, EndsActive, EndsOther, Typed, TypeOK
<1>5. TypeOK'
  BY <1>1, <1>2, <1>3, <1>4 DEF Typed, TypeOK, session, notifications
<1>6. QED
  BY <1>1, <1>2, <1>5 DEF Typed, At

(* What a step of a handler does to the handlers: it goes on as r, about   *)
(* the same dispatch, or it has answered and is free.                      *)
LEMMA HandleType ==
    ASSUME Typed, NEW h \in Handlers, Handle(h)
    PROVE  Typed'
<1>1. handler[h] \in Handler /\ (~At(h, "idle") => handler[h].run \in Runs)
  BY DEF Typed, TypeOK
<1>2. ASSUME NEW r \in Handler, Becomes(h, r), r.pc = "idle" \/ r.run \in Runs
      PROVE  /\ handler' \in [Handlers -> Handler]
             /\ \A g \in Handlers : ~At(g, "idle")' => handler'[g].run \in Runs
  BY <1>2, HandlerUpdates DEF Typed, TypeOK, At
<1>3. Blank \in Handler /\ Blank.pc = "idle"
  BY BlankType DEF Blank
<1>4. CASE ActivateRun(h)
  <2>1. handler[h].run \in Runs
    BY <1>1, <1>4 DEF ActivateRun, At
  <2>2. [handler[h] EXCEPT !.pc = "create"] \in Handler
    BY <1>1 DEF Handler, PCs
  <2>3. activeRun' \in RunIds /\ interrupted' \in SUBSET Runs
    BY <1>4, <2>1 DEF ActivateRun, Typed, TypeOK, RunIds
  <2>4. [handler[h] EXCEPT !.pc = "create"].run = handler[h].run
    BY <1>1 DEF Handler
  <2>5. QED
    BY <1>2, <1>4, <2>1, <2>2, <2>3, <2>4
       DEF ActivateRun, Typed, TypeOK, notifications, history
<1>5. CASE CreateDispatch(h)
  <2>1. handler[h].run \in Runs /\ handler[h].row \in Row
    BY <1>1, <1>5 DEF CreateDispatch, At, Handler
  <2>2. rows' \in [Runs -> Row] /\ queue' \in Seq(Runs)
    BY <1>5, <2>1 DEF CreateDispatch, Typed, TypeOK
  <2>3. Becomes(h, Blank)
    BY <1>5 DEF CreateDispatch, Answers
  <2>4. QED
    BY <1>2, <1>3, <1>5, <2>2, <2>3
       DEF CreateDispatch, Typed, TypeOK, session, notifications, history
<1>6. CASE ClearRun(h)
  <2>1. handler[h].run \in Runs
    BY <1>1, <1>6 DEF ClearRun, At
  <2>2. /\ [handler[h] EXCEPT !.pc = "readRow", !.wasActive = TRUE] \in Handler
        /\ [handler[h] EXCEPT !.pc = "readRow", !.wasActive = TRUE].run = handler[h].run
    BY <1>1 DEF Handler, PCs
  <2>3. Becomes(h, [handler[h] EXCEPT !.pc = "readRow", !.wasActive = TRUE])
        \/ Becomes(h, Blank)
    BY <1>6 DEF ClearRun, Answers
  <2>4. /\ handler' \in [Handlers -> Handler]
        /\ \A g \in Handlers : ~At(g, "idle")' => handler'[g].run \in Runs
    BY <1>2, <1>3, <2>1, <2>2, <2>3
  <2>5. activeRun' \in RunIds
    BY <1>6 DEF ClearRun, RunIds
  <2>6. QED
    BY <1>6, <2>4, <2>5 DEF ClearRun, Typed, TypeOK, notifications, history
<1>7. CASE ReadRow(h)
  <2>1. handler[h].run \in Runs
    BY <1>1, <1>7 DEF ReadRow, At
  <2> DEFINE row == [rows[handler[h].run] EXCEPT !.status = handler[h].report[1]]
             r == [handler[h] EXCEPT !.pc = "writeRow", !.row = row]
  <2>2. handler[h].report[1] \in DispatchStatuses
    BY <1>1, ReportType DEF Handler, DispatchStatuses
  <2>3. row \in Row
    BY <2>1, <2>2 DEF Typed, TypeOK, Row
  <2> HIDE DEF row
  <2>4. r \in Handler /\ r.run = handler[h].run
    BY <1>1, <2>3 DEF Handler, PCs
  <2>5. Becomes(h, r)
    BY <1>7 DEF ReadRow, row
  <2> HIDE DEF r
  <2>6. QED
    BY <1>2, <1>7, <2>1, <2>4, <2>5
       DEF ReadRow, Typed, TypeOK, session, notifications, history
<1>8. CASE WriteRow(h)
  <2>1. handler[h].run \in Runs /\ handler[h].row \in Row
    BY <1>1, <1>8 DEF WriteRow, At, Handler
  <2>2. rows' \in [Runs -> Row]
    BY <1>8, <2>1 DEF WriteRow, Typed, TypeOK
  <2>3. /\ [handler[h] EXCEPT !.pc = "find"] \in Handler
        /\ [handler[h] EXCEPT !.pc = "find"].run = handler[h].run
    BY <1>1 DEF Handler, PCs
  <2>4. Becomes(h, [handler[h] EXCEPT !.pc = "find"]) \/ Becomes(h, Blank)
    BY <1>8 DEF WriteRow, Answers
  <2>5. /\ handler' \in [Handlers -> Handler]
        /\ \A g \in Handlers : ~At(g, "idle")' => handler'[g].run \in Runs
    BY <1>2, <1>3, <2>1, <2>3, <2>4
  <2>6. QED
    BY <1>8, <2>2, <2>5 DEF WriteRow, Typed, TypeOK, session, notifications, history
<1>9. CASE FindExisting(h)
  <2>1. handler[h].run \in Runs
    BY <1>1, <1>9 DEF FindExisting, At
  <2>2. /\ [handler[h] EXCEPT !.pc = "notify"] \in Handler
        /\ [handler[h] EXCEPT !.pc = "notify"].run = handler[h].run
    BY <1>1 DEF Handler, PCs
  <2>3. Becomes(h, [handler[h] EXCEPT !.pc = "notify"]) \/ Becomes(h, Blank)
    BY <1>9 DEF FindExisting, Answers
  <2>4. /\ handler' \in [Handlers -> Handler]
        /\ \A g \in Handlers : ~At(g, "idle")' => handler'[g].run \in Runs
    BY <1>2, <1>3, <2>1, <2>2, <2>3
  <2>5. QED
    BY <1>9, <2>4 DEF FindExisting, Typed, TypeOK, session, notifications, history
<1>10. CASE CreateNotification(h)
  <2>1. Subject(h) \in Subjects
    BY SubjectType DEF Typed
  <2>2. Becomes(h, Blank)
    BY <1>10 DEF CreateNotification, Answers
  <2>3. Subject(h).task \in Tasks
    BY <2>1 DEF Subjects
  <2>4. CASE listed[Subject(h).task] < FindLimit
    <3>1. listed' \in [Tasks -> 0..FindLimit]
      <4>1. listed' = [listed EXCEPT ![Subject(h).task] = @ + 1]
        BY <1>10, <2>4 DEF CreateNotification
      <4>2. PICK task \in Tasks : task = Subject(h).task
        BY <2>3
      <4>3. listed[task] + 1 \in 0..FindLimit
        BY <2>4, <4>2, LimitAssumption DEF Typed, TypeOK
      <4>4. listed \in [Tasks -> 0..FindLimit]
        BY DEF Typed, TypeOK
      <4>5. listed' = [listed EXCEPT ![task] = listed[task] + 1]
        BY <4>1, <4>2
      <4>6. QED
        BY <4>3, <4>4, <4>5
    <3>2. open' \in [Subjects -> Nat] /\ beyond' = beyond
      BY <1>10, <2>1, <2>4 DEF CreateNotification, Typed, TypeOK
    <3>3. QED
      BY <1>2, <1>3, <1>10, <2>2, <3>1, <3>2
         DEF CreateNotification, Typed, TypeOK, session, history
  <2>5. CASE ~(listed[Subject(h).task] < FindLimit)
    <3>1. beyond' \in [Subjects -> Nat] /\ open' = open /\ listed' = listed
      BY <1>10, <2>1, <2>5 DEF CreateNotification, Typed, TypeOK
    <3>2. QED
      BY <1>2, <1>3, <1>10, <2>2, <3>1
         DEF CreateNotification, Typed, TypeOK, session, history
  <2>6. QED
    BY <2>4, <2>5
<1>11. QED
  BY <1>4, <1>5, <1>6, <1>7, <1>8, <1>9, <1>10 DEF Handle

(* So does every step.                                                     *)
LEMMA TypeStep ==
    ASSUME Typed, [Next]_vars
    PROVE  Typed'
<1>1. CASE Settle
  <2>1. PICK s \in Subjects :
          \/ /\ open[s] > 0
             /\ open' = [open EXCEPT ![s] = @ - 1]
             /\ settled' = settled \union {s}
             /\ UNCHANGED beyond
          \/ /\ beyond[s] > 0
             /\ beyond' = [beyond EXCEPT ![s] = @ - 1]
             /\ UNCHANGED <<open, settled>>
    BY <1>1 DEF Settle
  <2>2. open' \in [Subjects -> Nat] /\ beyond' \in [Subjects -> Nat]
    <3>1. open \in [Subjects -> Nat] /\ beyond \in [Subjects -> Nat]
      BY DEF Typed, TypeOK
    <3>2. CASE open[s] > 0 /\ open' = [open EXCEPT ![s] = @ - 1] /\ beyond' = beyond
      <4>1. open[s] - 1 \in Nat
        BY <3>1, <3>2
      <4>2. QED
        BY <3>1, <3>2, <4>1
    <3>3. CASE beyond[s] > 0 /\ beyond' = [beyond EXCEPT ![s] = @ - 1] /\ open' = open
      <4>1. beyond[s] - 1 \in Nat
        BY <3>1, <3>3
      <4>2. QED
        BY <3>1, <3>3, <4>1
    <3>4. QED
      BY <2>1, <3>2, <3>3
  <2>3. settled' \in SUBSET Subjects
    BY <2>1 DEF Typed, TypeOK
  <2>4. QED
    BY <1>1, <2>2, <2>3 DEF Settle, Typed, TypeOK, At, session, history
<1>2. CASE Crash
  <2>1. crashes' \in 0..MaxCrashes
    BY <1>2, BoundAssumption DEF Crash, Typed, TypeOK
  <2>2. handler' \in [Handlers -> Handler] /\ \A h \in Handlers : At(h, "idle")'
    BY <1>2, BlankType DEF Crash, At, Blank
  <2>3. QED
    BY <1>2, <2>1, <2>2 DEF Crash, Typed, TypeOK, session, notifications
<1>3. CASE UNCHANGED vars
  BY <1>3 DEF vars, Typed, TypeOK, At, session, notifications, history
<1>4. CASE Cancel
  BY <1>4 DEF Cancel, Typed, TypeOK, RunIds, At, notifications
<1>5. CASE OtherNotification
  <2>1. PICK task \in Tasks : /\ listed[task] < FindLimit
                              /\ listed' = [listed EXCEPT ![task] = @ + 1]
    BY <1>5 DEF OtherNotification
  <2>2. listed' \in [Tasks -> 0..FindLimit]
    BY <2>1, LimitAssumption DEF Typed, TypeOK
  <2>3. overlapped' \in BOOLEAN
    BY <1>5 DEF OtherNotification, Typed, TypeOK
  <2>4. QED
    BY <1>5, <2>2, <2>3 DEF OtherNotification, Typed, TypeOK, At, session
<1>6. QED
  BY <1>1, <1>2, <1>3, <1>4, <1>5, CallType, HandleType DEF Next, Environment

(* Every variable keeps its type, and every request in flight is about a   *)
(* run that was drawn.                                                     *)
THEOREM TypeCorrect == Spec => []Typed
<1>1. Init => Typed
  BY TypeInit
<1>2. Typed /\ [Next]_vars => Typed'
  BY TypeStep
<1>3. QED
  BY <1>1, <1>2, PTL DEF Spec

(* Whatever is interleaved, claimed twice or lost in a crash, the rows,    *)
(* the queue and the counts of notifications keep their types.             *)
THEOREM TypesHold == Spec => []TypeOK
<1>1. Typed => TypeOK
  BY DEF Typed
<1>2. QED
  BY <1>1, TypeCorrect, PTL
-----------------------------------------------------------------------------
(* The inductive invariant behind ActiveRunOpen, ActiveRunServed and       *)
(* NeverRequeued.                                                          *)

(* Run ids are drawn in order, and everything names a drawn one.           *)
RunsDrawn ==
    /\ activeRun <= drawn
    /\ \A h \in Handlers : handler[h].run <= drawn
    /\ \A r \in Runs : r > drawn => ~Present(r)

(* Only a dispatch that was claimed has a thinker.                         *)
ClaimsKept ==
    \A r \in Runs : rows[r].claimedBy # NoThinker => rows[r].status \in {"claimed"} \union Ended

Launching(h) == handler[h].pc \in {"activate", "create"}

(* A run that is being dispatched has no row yet, and one handler; before  *)
(* it is activated nobody else knows it.                                   *)
LaunchesAlone ==
    \A h \in Handlers : Launching(h) =>
        /\ ~Present(handler[h].run)
        /\ handler[h].row.status = "pending" /\ handler[h].row.claimedBy = NoThinker
        /\ At(h, "activate") => activeRun # handler[h].run
        /\ \A g \in Handlers : g # h /\ (Launching(g) \/ At(h, "activate")) =>
                                  handler[g].run # handler[h].run

(* A handler that will touch a row holds the run of an existing one.       *)
RowsHeld ==
    \A h \in Handlers :
        \/ handler[h].pc \in {"readRow", "writeRow"}
        \/ At(h, "clearRun") /\ handler[h].reports
        => Present(handler[h].run)

(* A row is saved as claimed or ended, or else as the pending copy a       *)
(* heartbeat has read before the claim.                                    *)
Savable(r) ==
    \/ r.row.status \in {"claimed"} \union Ended
    \/ r.row.status = "pending" /\ r.row.claimedBy = NoThinker /\ r.run \in early

(* A row that is about to be saved is one of those, and one that has ended *)
(* is that of a run that is not active (any more).                         *)
EndsInactive ==
    \A h \in Handlers :
        /\ At(h, "writeRow") => Savable(handler[h])
        /\ \/ At(h, "readRow")
           \/ At(h, "writeRow") /\ handler[h].row.status \in Ended
           => activeRun # handler[h].run

(* Without a crash, an active run has its dispatch or will get it.         *)
Served ==
    crashes = 0 /\ activeRun # NoRun =>
        \/ Present(activeRun)
        \/ \E h \in Handlers : At(h, "create") /\ handler[h].run = activeRun

RunsInv ==
    /\ RunsDrawn /\ ClaimsKept /\ LaunchesAlone /\ RowsHeld /\ EndsInactive
    /\ ActiveRunOpen /\ Served

(* No request is in flight at the start, and no run was drawn.             *)
LEMMA RunsInit == Init => RunsInv
<1> SUFFICES ASSUME Init PROVE RunsInv
  OBVIOUS
<1>1. \A h \in Handlers : handler[h].pc = "idle" /\ handler[h].run = 0
  BY DEF Init, Blank, NoRun
<1>2. \A r \in Runs : rows[r].status = "absent" /\ rows[r].claimedBy = NoThinker
  BY DEF Init, Blank
<1>3. activeRun = 0 /\ drawn = 0
  BY DEF Init, NoRun
<1>4. RunsDrawn /\ ClaimsKept
  BY <1>1, <1>2, <1>3 DEF RunsDrawn, ClaimsKept, Present
<1>5. LaunchesAlone /\ RowsHeld /\ EndsInactive
  BY <1>1 DEF LaunchesAlone, RowsHeld, EndsInactive, Launching, At
<1>6. ActiveRunOpen /\ Served
  BY <1>3 DEF ActiveRunOpen, Served, NoRun
<1>7. QED
  BY <1>4, <1>5, <1>6 DEF RunsInv

(* The facts about runs and rows that the steps below compare.             *)
LEMMA RunsAreNumbers ==
    ASSUME Typed
    PROVE  /\ activeRun \in Nat /\ drawn \in Nat /\ crashes \in Nat
           /\ \A h \in Handlers : handler[h] \in Handler /\ handler[h].run \in Nat
           /\ \A h \in Handlers : ~At(h, "idle") => handler[h].run \in Runs
           /\ NoRun = 0 /\ \A r \in Runs : r \in Nat /\ r > 0
<1>1. RunIds \subseteq Nat
  BY BoundAssumption DEF RunIds, Runs, NoRun
<1>2. drawn \in Nat /\ crashes \in Nat
  BY BoundAssumption DEF Typed, TypeOK
<1>3. \A h \in Handlers : handler[h] \in Handler /\ handler[h].run \in RunIds
  BY DEF Typed, TypeOK, Handler
<1>4. activeRun \in RunIds /\ \A h \in Handlers : ~At(h, "idle") => handler[h].run \in Runs
  BY DEF Typed, TypeOK
<1>5. NoRun = 0 /\ \A r \in Runs : r \in Nat /\ r > 0
  BY BoundAssumption DEF Runs, NoRun
<1>6. QED
  BY <1>1, <1>2, <1>3, <1>4, <1>5

(* A call that is taken writes nothing yet.                                *)
LEMMA CallRuns ==
    ASSUME Typed, RunsInv, NEW h \in Handlers, Call(h)
    PROVE  RunsInv'
<1>1. PICK r \in Handler :
        /\ r.run \in Runs
        /\ Takes(h, r)
        /\ Shape(r)
        /\ UNCHANGED <<session, rows, queue, notifications>>
        /\ early \subseteq early' /\ early' \in SUBSET Runs
  BY CallShape
<1>2. \A g \in Handlers : handler'[g] = IF g = h THEN r ELSE handler[g]
  BY <1>1, HandlerUpdates DEF Takes, Typed, TypeOK
<1>3. /\ activeRun' = activeRun /\ rows' = rows /\ crashes' = crashes
      /\ handler[h].pc = "idle"
  BY <1>1 DEF Takes, session, At
<1>4. \A run \in Runs : Present(run)' <=> Present(run)
  BY <1>3 DEF Present
<1>5. ~NewMessage(r) => Present(r.run) \/ (r.pc = "clearRun" /\ activeRun = r.run /\ ~r.reports)
  BY <1>1 DEF Shape, SavesRow, EndsActive, EndsOther, Present
<1>6. RunsDrawn'
  <2>1. CASE NewMessage(r)
    BY <2>1, <1>2, <1>3, <1>4, RunsAreNumbers DEF NewMessage, RunsDrawn, RunsInv
  <2>2. CASE ~NewMessage(r)
    <3>1. drawn' = drawn
      BY <1>1, <2>2 DEF Shape, SavesRow, EndsActive, EndsOther
    <3>2. r.run <= drawn
      BY <1>1, <1>5, <2>2, RunsAreNumbers DEF RunsDrawn, RunsInv
    <3>3. QED
      BY <1>2, <1>3, <1>4, <3>1, <3>2 DEF RunsDrawn, RunsInv
  <2>3. QED
    BY <2>1, <2>2
<1>7. ClaimsKept'
  BY <1>3 DEF ClaimsKept, RunsInv
<1>8. LaunchesAlone'
  <2>1. CASE NewMessage(r)
    <3>1. /\ ~Present(r.run) /\ activeRun # r.run
          /\ \A g \in Handlers : handler[g].run # r.run
      BY <1>1, <2>1, RunsAreNumbers DEF NewMessage, RunsDrawn, RunsInv
    <3>2. QED
      BY <1>1, <1>2, <1>3, <1>4, <2>1, <3>1, RunsAreNumbers
         DEF NewMessage, LaunchesAlone, RunsInv, Launching, At
  <2>2. CASE ~NewMessage(r)
    <3>1. r.pc \in {"writeRow", "clearRun", "readRow"}
      BY <1>1, <2>2 DEF Shape, SavesRow, EndsActive, EndsOther
    <3>2. \A g \in Handlers : At(g, "activate") => handler[g].run # r.run
      BY <1>5, <2>2 DEF LaunchesAlone, RunsInv, Launching, At
    <3>3. QED
      BY <1>2, <1>3, <1>4, <3>1, <3>2, RunsAreNumbers DEF LaunchesAlone, RunsInv, Launching, At
  <2>3. QED
    BY <2>1, <2>2
<1>9. RowsHeld'
  <2>1. r.pc \in {"readRow", "writeRow"} \/ (r.pc = "clearRun" /\ r.reports) => Present(r.run)
    BY <1>1, <1>5 DEF NewMessage, EndsActive
  <2>2. QED
    BY <1>1, <1>2, <1>4, <2>1, RunsAreNumbers DEF RowsHeld, RunsInv, At
<1>10. EndsInactive'
  <2>1. r.pc = "writeRow" => Savable(r)'
    <3>1. rows[r.run].status \in DispatchStatuses
      BY <1>1 DEF Typed, TypeOK, Row
    <3>2. rows[r.run].status = "pending" => rows[r.run].claimedBy = NoThinker
      BY <1>1 DEF RunsInv, ClaimsKept, Ended
    <3>3. QED
      BY <1>1, <3>1, <3>2
         DEF Shape, NewMessage, SavesRow, EndsActive, EndsOther, Savable, Present,
             DispatchStatuses
  <2>4. ASSUME NEW g \in Handlers, g # h, handler'[g].pc = "writeRow"
        PROVE  Savable(handler[g])'
    <3>1. handler'[g] = handler[g] /\ Savable(handler[g])
      BY <1>2, <2>4 DEF EndsInactive, RunsInv, At
    <3>2. QED
      BY <1>1, <3>1 DEF Savable
  <2>2. r.pc = "readRow" => activeRun # r.run
    BY <1>1 DEF Shape, NewMessage, SavesRow, EndsActive, EndsOther
  <2>3. r.pc = "writeRow" /\ r.row.status \in Ended => activeRun # r.run
    BY <1>1, RunsAreNumbers
       DEF Shape, NewMessage, SavesRow, EndsActive, EndsOther, RunsInv, ActiveRunOpen, Ended
  <2>5. ASSUME NEW g \in Handlers, handler'[g].pc = "writeRow"
        PROVE  Savable(handler[g])'
    <3>1. CASE g = h
      BY <1>2, <2>1, <2>5, <3>1 DEF Savable
    <3>2. QED
      BY <2>4, <2>5, <3>1
  <2>6. ASSUME NEW g \in Handlers,
               \/ handler'[g].pc = "readRow"
               \/ handler'[g].pc = "writeRow" /\ handler'[g].row.status \in Ended
        PROVE  activeRun' # handler'[g].run
    BY <1>2, <1>3, <2>2, <2>3, <2>6 DEF EndsInactive, RunsInv, At
  <2>7. QED
    BY <2>5, <2>6 DEF EndsInactive, At
<1>11. ActiveRunOpen'
  BY <1>3 DEF ActiveRunOpen, RunsInv
<1>12. Served'
  BY <1>2, <1>3 DEF Served, RunsInv, At, Present
<1>13. QED
  BY <1>6, <1>7, <1>8, <1>9, <1>10, <1>11, <1>12 DEF RunsInv

(* The handlers after a step of one of them.                               *)
LEMMA GoesOn ==
    ASSUME Typed, NEW h \in Handlers, NEW r \in Handler, Becomes(h, r)
    PROVE  \A g \in Handlers : handler'[g] = IF g = h THEN r ELSE handler[g]
BY HandlerUpdates DEF Typed, TypeOK

(* The run that takes over is known to no other handler, so none of them   *)
(* can end it with a row it read before.                                   *)
LEMMA ActivateRuns ==
    ASSUME Typed, RunsInv, NEW h \in Handlers, ActivateRun(h)
    PROVE  RunsInv'
<1> DEFINE r == [handler[h] EXCEPT !.pc = "create"]
<1>1. handler[h].pc = "activate" /\ handler[h] \in Handler /\ handler[h].run \in Runs
  BY RunsAreNumbers DEF ActivateRun, At
<1>2. r \in Handler /\ r.pc = "create" /\ r.run = handler[h].run /\ r.row = handler[h].row
  BY <1>1 DEF Handler, PCs
<1>3. \A g \in Handlers : handler'[g] = IF g = h THEN r ELSE handler[g]
  BY <1>2, GoesOn DEF ActivateRun
<1> HIDE DEF r
<1>4. activeRun' = handler[h].run /\ rows' = rows /\ drawn' = drawn /\ early' = early
  BY DEF ActivateRun, history
<1>5. \A run \in Runs : Present(run)' <=> Present(run)
  BY <1>4 DEF Present
<1>6. ~Present(handler[h].run)
      /\ \A g \in Handlers : g # h => handler[g].run # handler[h].run
  BY <1>1 DEF RunsInv, LaunchesAlone, Launching, At
<1>7. RunsDrawn' /\ ClaimsKept'
  BY <1>2, <1>3, <1>4, <1>5 DEF RunsInv, RunsDrawn, ClaimsKept
<1>8. LaunchesAlone'
  BY <1>1, <1>2, <1>3, <1>4, <1>5, <1>6, RunsAreNumbers
     DEF RunsInv, LaunchesAlone, Launching, At
<1>9. RowsHeld'
  BY <1>1, <1>2, <1>3, <1>5, RunsAreNumbers DEF RunsInv, RowsHeld, At
<1>10. EndsInactive'
  BY <1>2, <1>3, <1>4, <1>6 DEF RunsInv, EndsInactive, Savable, At
<1>11. ActiveRunOpen'
  BY <1>4, <1>6 DEF ActiveRunOpen, Present, Ended
<1>12. Served'
  BY <1>2, <1>3, <1>4 DEF Served, At
<1>13. QED
  BY <1>7, <1>8, <1>9, <1>10, <1>11, <1>12 DEF RunsInv

(* The two steps that write a row.                                         *)
LEMMA RowWritten ==
    ASSUME Typed, RunsInv, NEW h \in Handlers, NEW r \in Handler,
           handler[h].run \in Runs,
           rows' = [rows EXCEPT ![handler[h].run] = handler[h].row],
           Becomes(h, r), r.pc \in {"idle", "find"}, r.run \in {handler[h].run, NoRun},
           UNCHANGED <<activeRun, drawn, crashes, early>>,
           \/ At(h, "create")
           \/ At(h, "writeRow")
    PROVE  RunsInv'
<1>1. \A g \in Handlers : handler'[g] = IF g = h THEN r ELSE handler[g]
  BY GoesOn
<1>2. \A run \in Runs : rows'[run] = IF run = handler[h].run THEN handler[h].row ELSE rows[run]
  BY DEF Typed, TypeOK
<1>3. handler[h].row.status \in {"pending", "claimed"} \union Ended
  BY DEF RunsInv, LaunchesAlone, EndsInactive, Savable, Launching, At
<1>4. \A run \in Runs : Present(run) => Present(run)'
  BY <1>2, <1>3 DEF Present, Ended
<1>5. \A g \in Handlers : g # h /\ Launching(g) => handler[g].run # handler[h].run
  BY DEF RunsInv, LaunchesAlone, RowsHeld, Launching, At
<1>6. RunsDrawn'
  <2>1. r.run <= drawn /\ handler[h].run <= drawn
    BY RunsAreNumbers DEF RunsInv, RunsDrawn
  <2>2. \A run \in Runs : run > drawn => run # handler[h].run
    BY <2>1, RunsAreNumbers
  <2>3. QED
    BY <1>1, <1>2, <2>1, <2>2 DEF RunsInv, RunsDrawn, Present
<1>7. ClaimsKept'
  <2>1. handler[h].row.claimedBy # NoThinker
          => handler[h].row.status \in {"claimed"} \union Ended
    BY DEF RunsInv, LaunchesAlone, EndsInactive, Savable, Launching, At
  <2>2. QED
    BY <1>2, <2>1 DEF RunsInv, ClaimsKept
<1>8. LaunchesAlone'
  <2>1. \A g \in Handlers : Launching(g)' => g # h /\ Launching(g) /\ handler'[g] = handler[g]
    BY <1>1 DEF Launching
  <2>2. \A g \in Handlers : At(g, "activate")' => g # h /\ At(g, "activate")
    BY <1>1 DEF At
  <2>3. \A g \in Handlers : Launching(g)' => ~Present(handler[g].run)'
    BY <1>2, <1>5, <2>1, RunsAreNumbers
       DEF RunsInv, LaunchesAlone, Launching, At, Present
  <2>4. \A g \in Handlers : handler'[g].run = handler[g].run \/ (g = h /\ handler'[g].run = NoRun)
    BY <1>1
  <2>5. \A g \in Handlers : Launching(g)' => handler[g].run # NoRun
    BY <2>1, RunsAreNumbers DEF Launching, At
  <2>6. ASSUME NEW g \in Handlers, Launching(g)'
        PROVE  /\ handler'[g].row.status = "pending" /\ handler'[g].row.claimedBy = NoThinker
               /\ At(g, "activate")' => activeRun # handler[g].run
    BY <2>1, <2>2, <2>6 DEF RunsInv, LaunchesAlone
  <2>7. ASSUME NEW g \in Handlers, Launching(g)', NEW f \in Handlers, f # g,
               Launching(f)' \/ At(g, "activate")'
        PROVE  handler'[f].run # handler'[g].run
    BY <2>1, <2>2, <2>4, <2>5, <2>7 DEF RunsInv, LaunchesAlone
  <2> QED
    BY <2>1, <2>3, <2>6, <2>7 DEF LaunchesAlone, Present, Launching, At
<1>9. RowsHeld'
  <2>1. ASSUME NEW g \in Handlers,
               \/ handler'[g].pc \in {"readRow", "writeRow"}
               \/ handler'[g].pc = "clearRun" /\ handler'[g].reports
        PROVE  g # h /\ handler'[g] = handler[g] /\ handler[g].run \in Runs
               /\ Present(handler[g].run)
    BY <1>1, <2>1, RunsAreNumbers DEF RunsInv, RowsHeld, At
  <2>2. QED
    BY <1>4, <2>1 DEF RowsHeld, At, Present
<1>10. EndsInactive'
  BY <1>1 DEF RunsInv, EndsInactive, Savable, At
<1>11. ActiveRunOpen'
  <2>1. handler[h].run = activeRun => handler[h].row.status \notin Ended
    BY DEF RunsInv, LaunchesAlone, EndsInactive, Launching, At, Ended
  <2>2. activeRun # NoRun => activeRun \in Runs
    BY DEF Typed, TypeOK, RunIds
  <2>3. QED
    BY <1>2, <2>1, <2>2 DEF RunsInv, ActiveRunOpen
<1>12. Served'
  <2>1. rows'[handler[h].run].status # "absent"
    BY <1>2, <1>3 DEF Present, Ended
  <2>2. activeRun # NoRun => activeRun \in Runs
    BY DEF Typed, TypeOK, RunIds
  <2>3. \A g \in Handlers : g # h /\ At(g, "create") => At(g, "create")' /\ handler'[g].run = handler[g].run
    BY <1>1 DEF At
  <2>4. ASSUME crashes = 0, activeRun # NoRun, rows'[activeRun].status = "absent"
        PROVE  \E g \in Handlers : At(g, "create")' /\ handler'[g].run = activeRun
    <3>1. ~Present(activeRun) /\ activeRun # handler[h].run
      BY <1>4, <2>1, <2>2, <2>4 DEF Present
    <3>2. PICK g \in Handlers : At(g, "create") /\ handler[g].run = activeRun
      BY <2>4, <3>1 DEF RunsInv, Served
    <3>3. QED
      BY <2>3, <3>1, <3>2
  <2>5. QED
    BY <2>4 DEF Served, At, Present
<1>13. QED
  BY <1>6, <1>7, <1>8, <1>9, <1>10, <1>11, <1>12 DEF RunsInv

(* A step that leaves the rows alone, and the active run too unless it     *)
(* ends it, and after which the handler holds nothing it may not hold.     *)
LEMMA RowsKept ==
    ASSUME Typed, RunsInv, NEW h \in Handlers, NEW r \in Handler,
           handler[h].run \in Runs, Becomes(h, r),
           rows' = rows, UNCHANGED <<drawn, crashes, early>>,
           activeRun' \in {activeRun, NoRun}, ~Launching(h),
           \/ r.pc \in {"idle", "notify"} /\ r.run \in {handler[h].run, NoRun}
           \/ r.pc = "readRow" /\ r.run = handler[h].run /\ Present(r.run)
              /\ activeRun' = NoRun
           \/ r.pc = "writeRow" /\ r.run = handler[h].run /\ Present(r.run)
              /\ activeRun # r.run /\ r.row.status \in Ended
    PROVE  RunsInv'
<1>1. \A g \in Handlers : handler'[g] = IF g = h THEN r ELSE handler[g]
  BY GoesOn
<1>2. \A run \in Runs : Present(run)' <=> Present(run)
  BY DEF Present
<1>3. RunsDrawn'
  <2>1. r.run <= drawn /\ activeRun' <= drawn
    BY RunsAreNumbers DEF RunsInv, RunsDrawn
  <2>2. QED
    BY <1>1, <1>2, <2>1 DEF RunsInv, RunsDrawn
<1>4. ClaimsKept'
  BY DEF RunsInv, ClaimsKept
<1>5. LaunchesAlone'
  <2>1. \A g \in Handlers : Launching(g)' => g # h /\ Launching(g) /\ handler'[g] = handler[g]
    BY <1>1 DEF Launching
  <2>2. \A g \in Handlers : At(g, "activate")' => g # h /\ At(g, "activate")
    BY <1>1 DEF At
  <2>3. \A g \in Handlers : Launching(g)' => handler[g].run \in Runs /\ handler[g].run # NoRun
    BY <2>1, RunsAreNumbers DEF Launching, At
  <2>4. \A g \in Handlers : handler'[g].run \in {handler[g].run, NoRun}
    BY <1>1
  <2>5. ASSUME NEW g \in Handlers, Launching(g)'
        PROVE  /\ rows'[handler'[g].run].status = "absent"
               /\ handler'[g].row.status = "pending" /\ handler'[g].row.claimedBy = NoThinker
               /\ At(g, "activate")' => activeRun' # handler'[g].run
    BY <2>1, <2>2, <2>3, <2>5 DEF RunsInv, LaunchesAlone, Present
  <2>6. ASSUME NEW g \in Handlers, Launching(g)', NEW f \in Handlers, f # g,
               Launching(f)' \/ At(g, "activate")'
        PROVE  handler'[f].run # handler'[g].run
    BY <2>1, <2>2, <2>3, <2>4, <2>6 DEF RunsInv, LaunchesAlone
  <2>7. QED
    BY <2>5, <2>6 DEF LaunchesAlone, Present
<1>6. RowsHeld'
  <2>1. ASSUME NEW g \in Handlers,
               \/ handler'[g].pc \in {"readRow", "writeRow"}
               \/ handler'[g].pc = "clearRun" /\ handler'[g].reports
        PROVE  rows'[handler'[g].run].status # "absent"
    BY <1>1, <2>1 DEF RunsInv, RowsHeld, At, Present
  <2>2. QED
    BY <2>1 DEF RowsHeld, At, Present
<1>7. EndsInactive'
  <2>1. ASSUME NEW g \in Handlers
        PROVE  /\ handler'[g].pc = "writeRow" => Savable(handler[g])'
               /\ \/ handler'[g].pc = "readRow"
                  \/ handler'[g].pc = "writeRow" /\ handler'[g].row.status \in Ended
                  => activeRun # handler'[g].run \/ activeRun' = NoRun
    BY <1>1 DEF RunsInv, EndsInactive, Savable, At
  <2>2. ASSUME NEW g \in Handlers, handler'[g].pc \in {"readRow", "writeRow"}
        PROVE  handler'[g].run # NoRun
    BY <1>1, <2>2, RunsAreNumbers DEF At
  <2>3. QED
    BY <2>1, <2>2 DEF EndsInactive, At
<1>8. ActiveRunOpen'
  BY DEF RunsInv, ActiveRunOpen
<1>9. Served'
  <2>1. \A g \in Handlers : At(g, "create") =>
                               handler'[g].pc = "create" /\ handler'[g].run = handler[g].run
    BY <1>1 DEF At, Launching
  <2>2. QED
    BY <1>2, <2>1 DEF RunsInv, Served, At, Present
<1>10. QED
  BY <1>3, <1>4, <1>5, <1>6, <1>7, <1>8, <1>9 DEF RunsInv

(* The steps of a handler preserve the invariant.                          *)
LEMMA HandleRuns ==
    ASSUME Typed, RunsInv, NEW h \in Handlers, Handle(h)
    PROVE  RunsInv'
<1> USE DEF history
<1>1. handler[h] \in Handler /\ (handler[h].pc # "idle" => handler[h].run \in Runs)
  BY RunsAreNumbers DEF At
<1>2. Blank \in Handler /\ Blank.pc = "idle" /\ Blank.run = NoRun
  BY BlankType DEF Blank
<1>3. CASE ActivateRun(h)
  BY <1>3, ActivateRuns
<1>4. CASE CreateDispatch(h)
  <2>1. /\ At(h, "create") /\ Becomes(h, Blank)
        /\ rows' = [rows EXCEPT ![handler[h].run] = handler[h].row]
        /\ UNCHANGED <<activeRun, drawn, crashes, early>>
    BY <1>4 DEF CreateDispatch, Answers, session
  <2>2. handler[h].run \in Runs
    BY <1>1, <2>1 DEF At
  <2>3. QED
    BY <1>2, <2>1, <2>2, RowWritten
<1>5. CASE WriteRow(h)
  <2>1. /\ At(h, "writeRow")
        /\ rows' = [rows EXCEPT ![handler[h].run] = handler[h].row]
        /\ UNCHANGED <<activeRun, drawn, crashes, early>>
    BY <1>5 DEF WriteRow, session
  <2>2. handler[h].run \in Runs
    BY <1>1, <2>1 DEF At
  <2> DEFINE r == [handler[h] EXCEPT !.pc = "find"]
  <2>3. r \in Handler /\ r.pc = "find" /\ r.run = handler[h].run
    BY <1>1 DEF Handler, PCs
  <2>4. Becomes(h, r) \/ Becomes(h, Blank)
    BY <1>5 DEF WriteRow, Answers
  <2> HIDE DEF r
  <2>5. QED
    BY <1>2, <2>1, <2>2, <2>3, <2>4, RowWritten
<1>6. CASE ClearRun(h)
  <2>1. /\ handler[h].pc = "clearRun" /\ ~Launching(h)
        /\ rows' = rows /\ activeRun' = NoRun /\ UNCHANGED <<drawn, crashes, early>>
    BY <1>6 DEF ClearRun, At, Launching
  <2>2. handler[h].run \in Runs
    BY <1>1, <2>1
  <2> DEFINE r == [handler[h] EXCEPT !.pc = "readRow", !.wasActive = TRUE]
  <2>3. r \in Handler /\ r.pc = "readRow" /\ r.run = handler[h].run
    BY <1>1 DEF Handler, PCs
  <2>4. (handler[h].reports /\ Becomes(h, r)) \/ Becomes(h, Blank)
    BY <1>6 DEF ClearRun, Answers
  <2> HIDE DEF r
  <2>5. handler[h].reports => Present(handler[h].run)
    BY <2>1 DEF RunsInv, RowsHeld, At
  <2>6. QED
    BY <1>2, <2>1, <2>2, <2>3, <2>4, <2>5, RowsKept
<1>7. CASE ReadRow(h)
  <2>1. /\ handler[h].pc = "readRow" /\ ~Launching(h)
        /\ rows' = rows /\ activeRun' = activeRun /\ UNCHANGED <<drawn, crashes, early>>
    BY <1>7 DEF ReadRow, At, Launching, session
  <2>2. handler[h].run \in Runs
    BY <1>1, <2>1
  <2>3. Present(handler[h].run) /\ activeRun # handler[h].run
    BY <2>1 DEF RunsInv, RowsHeld, EndsInactive, At
  <2> DEFINE row == [rows[handler[h].run] EXCEPT !.status = handler[h].report[1]]
             r == [handler[h] EXCEPT !.pc = "writeRow", !.row = row]
  <2>4. handler[h].report[1] \in Ended /\ Ended \subseteq DispatchStatuses
    BY <1>1, ReportType DEF Handler, DispatchStatuses
  <2>5. row \in Row /\ row.status = handler[h].report[1]
    BY <2>2, <2>4 DEF Typed, TypeOK, Row
  <2> HIDE DEF row
  <2>6. /\ r \in Handler /\ r.pc = "writeRow" /\ r.run = handler[h].run
        /\ r.row = row
    BY <1>1, <2>5 DEF Handler, PCs
  <2>7. Becomes(h, r)
    BY <1>7 DEF ReadRow, row
  <2> HIDE DEF r
  <2>8. QED
    BY <2>1, <2>2, <2>3, <2>4, <2>5, <2>6, <2>7, RowsKept
<1>8. CASE FindExisting(h)
  <2>1. /\ handler[h].pc = "find" /\ ~Launching(h)
        /\ rows' = rows /\ activeRun' = activeRun /\ UNCHANGED <<drawn, crashes, early>>
    BY <1>8 DEF FindExisting, At, Launching, session
  <2>2. handler[h].run \in Runs
    BY <1>1, <2>1
  <2> DEFINE r == [handler[h] EXCEPT !.pc = "notify"]
  <2>3. r \in Handler /\ r.pc = "notify" /\ r.run = handler[h].run
    BY <1>1 DEF Handler, PCs
  <2>4. Becomes(h, r) \/ Becomes(h, Blank)
    BY <1>8 DEF FindExisting, Answers
  <2> HIDE DEF r
  <2>5. QED
    BY <1>2, <2>1, <2>2, <2>3, <2>4, RowsKept
<1>9. CASE CreateNotification(h)
  <2>1. /\ handler[h].pc = "notify" /\ ~Launching(h) /\ Becomes(h, Blank)
        /\ rows' = rows /\ activeRun' = activeRun /\ UNCHANGED <<drawn, crashes, early>>
    BY <1>9 DEF CreateNotification, Answers, At, Launching, session
  <2>2. handler[h].run \in Runs
    BY <1>1, <2>1
  <2>3. QED
    BY <1>2, <2>1, <2>2, RowsKept
<1>10. QED
  BY <1>3, <1>4, <1>5, <1>6, <1>7, <1>8, <1>9 DEF Handle

(* Every step does: the observer, a cancellation and a crash included.     *)
LEMMA RunsStep ==
    ASSUME Typed, RunsInv, [Next]_vars
    PROVE  RunsInv'
<1>1. ASSUME UNCHANGED <<activeRun, rows, handler, drawn, crashes, early>>
      PROVE  RunsInv'
  BY <1>1 DEF RunsInv, RunsDrawn, ClaimsKept, LaunchesAlone, RowsHeld, EndsInactive,
              Savable, ActiveRunOpen, Served, Launching, At, Present
<1>2. CASE Settle
  BY <1>1, <1>2 DEF Settle, session, history
<1>3. CASE UNCHANGED vars
  BY <1>1, <1>3 DEF vars, session, history
<1>4. CASE Crash
  <2>1. \A h \in Handlers : handler'[h].pc = "idle" /\ handler'[h].run = 0
    BY <1>4 DEF Crash, Blank, NoRun
  <2>2. activeRun' = activeRun /\ rows' = rows /\ drawn' = drawn /\ crashes' = crashes + 1
    BY <1>4 DEF Crash, session
  <2>3. RunsDrawn' /\ ClaimsKept' /\ ActiveRunOpen'
    BY <2>1, <2>2, RunsAreNumbers DEF RunsInv, RunsDrawn, ClaimsKept, ActiveRunOpen, Present
  <2>4. LaunchesAlone' /\ RowsHeld' /\ EndsInactive'
    BY <2>1 DEF LaunchesAlone, RowsHeld, EndsInactive, Launching, At
  <2>5. Served'
    BY <2>2, RunsAreNumbers DEF Served
  <2>6. QED
    BY <2>3, <2>4, <2>5 DEF RunsInv
<1>5. CASE Cancel
  <2>1. activeRun' = NoRun /\ UNCHANGED <<rows, handler, drawn, crashes, early>>
    BY <1>5 DEF Cancel
  <2>2. RunsDrawn' /\ ClaimsKept' /\ RowsHeld' /\ ActiveRunOpen' /\ Served'
    BY <2>1, RunsAreNumbers
       DEF RunsInv, RunsDrawn, ClaimsKept, RowsHeld, ActiveRunOpen, Served, Present, At
  <2>3. \A h \in Handlers : ~At(h, "idle") => handler[h].run # NoRun
    BY RunsAreNumbers
  <2>4. LaunchesAlone' /\ EndsInactive'
    BY <2>1, <2>3 DEF RunsInv, LaunchesAlone, EndsInactive, Savable, Launching, At, Present
  <2>5. QED
    BY <2>2, <2>4 DEF RunsInv
<1>6. CASE OtherNotification
  BY <1>1, <1>6 DEF OtherNotification, session
<1>7. QED
  BY <1>2, <1>3, <1>4, <1>5, <1>6, CallRuns, HandleRuns DEF Next, Environment

(* The invariant that relates the session row, the rows of the dispatches  *)
(* and what the handlers have read of them.                                *)
THEOREM RunsHold == Spec => [](Typed /\ RunsInv)
<1>1. Init => Typed /\ RunsInv
  BY TypeInit, RunsInit
<1>2. Typed /\ RunsInv /\ [Next]_vars => (Typed /\ RunsInv)'
  BY TypeStep, RunsStep
<1>3. QED
  BY <1>1, <1>2, PTL DEF Spec

(* The run a session shows as active is not over, for any number of        *)
(* requests about any dispatches at the same time, and any crashes.        *)
THEOREM ActiveRunStaysOpen == Spec => []ActiveRunOpen
<1>1. RunsInv => ActiveRunOpen
  BY DEF RunsInv
<1>2. QED
  BY <1>1, RunsHold, PTL

(* Without a crash the active run ends up with a dispatch that can be      *)
(* claimed or was: nothing another request does takes it away.             *)
THEOREM ActiveRunIsServed == Spec => []ActiveRunServed
<1>1. Typed /\ RunsInv => ActiveRunServed
  <2> SUFFICES ASSUME Typed, RunsInv, InFlight = {}, crashes = 0, activeRun # NoRun
               PROVE  rows[activeRun].status \in {"pending", "claimed"}
    BY DEF ActiveRunServed
  <2>1. \A h \in Handlers : ~At(h, "create")
    BY DEF InFlight, At
  <2>2. Present(activeRun)
    BY <2>1 DEF RunsInv, Served
  <2>3. rows[activeRun].status \notin Ended
    BY DEF RunsInv, ActiveRunOpen
  <2>4. rows[activeRun].status \in DispatchStatuses
    BY DEF Typed, TypeOK, RunIds, Row
  <2>5. QED
    BY <2>2, <2>3, <2>4 DEF Present, DispatchStatuses
<1>2. QED
  BY <1>1, RunsHold, PTL

(* No step puts a dispatch that was claimed back into the queue, although  *)
(* every write replaces the whole row by one that was read earlier: only a *)
(* heartbeat that was sent before the claim can.                           *)
THEOREM ClaimedNeverRequeued == Spec => NeverRequeued
<1> DEFINE Kept == \A r \in Runs \ early : rows[r].status \in {"claimed"} \union Ended =>
                                              rows'[r].status # "pending"
<1>1. ASSUME Typed, RunsInv, [Next]_vars
      PROVE  Kept
  <2>1. CASE rows' = rows
    BY <2>1 DEF Ended
  <2>2. ASSUME NEW h \in Handlers, CreateDispatch(h)
        PROVE  Kept
    <3>1. ~Present(handler[h].run)
      BY <1>1, <2>2 DEF CreateDispatch, RunsInv, LaunchesAlone, Launching, At
    <3>2. rows' = [rows EXCEPT ![handler[h].run] = handler[h].row]
      BY <2>2 DEF CreateDispatch
    <3>3. \A r \in Runs : r # handler[h].run => rows'[r] = rows[r]
      BY <1>1, <3>2 DEF Typed, TypeOK
    <3>4. QED
      BY <3>1, <3>3 DEF Present, Ended
  <2>3. ASSUME NEW h \in Handlers, WriteRow(h)
        PROVE  Kept
    <3>1. handler[h].run \in early \/ handler[h].row.status \in {"claimed"} \union Ended
      BY <1>1, <2>3 DEF WriteRow, RunsInv, EndsInactive, Savable, At
    <3>2. rows' = [rows EXCEPT ![handler[h].run] = handler[h].row]
      BY <2>3 DEF WriteRow
    <3>3. \A r \in Runs : rows'[r] = IF r = handler[h].run THEN handler[h].row ELSE rows[r]
      BY <1>1, <3>2 DEF Typed, TypeOK
    <3>4. QED
      BY <3>1, <3>3 DEF Ended
  <2>4. ASSUME NEW h \in Handlers, Call(h)
        PROVE  rows' = rows
    BY <2>4 DEF Call, DispatchUserMessage, ClaimDispatch, Heartbeat, FinishDispatch, CompleteRun
  <2>5. ASSUME NEW h \in Handlers, Handle(h)
        PROVE  rows' = rows \/ CreateDispatch(h) \/ WriteRow(h)
    BY <2>5 DEF Handle, ActivateRun, ClearRun, ReadRow, FindExisting, CreateNotification
  <2>6. Environment \/ UNCHANGED vars => rows' = rows
    BY DEF Environment, OtherNotification, Settle, Cancel, Crash, vars
  <2> HIDE DEF Kept
  <2>7. QED
    BY <1>1, <2>1, <2>2, <2>3, <2>4, <2>5, <2>6 DEF Next
<1> HIDE DEF Kept
<1>2. Typed /\ RunsInv /\ [Next]_vars => [Kept]_vars
  BY <1>1
<1>3. Spec => [][Kept]_vars
  BY <1>2, RunsHold, PTL DEF Spec
<1>4. QED
  BY <1>3 DEF NeverRequeued, Kept

-----------------------------------------------------------------------------
(* What the queue promises while the server works on one request at a      *)
(* time.                                                                   *)

(* Only a handler that is ending a dispatch remembers an active run.       *)
Remembering ==
    \A h \in Handlers : handler[h].wasActive =>
                           handler[h].pc \in {"readRow", "writeRow", "find", "notify"}

(* A run can be replaced only after it was drawn.                          *)
ReplacedDrawn == \A r \in interrupted : r <= drawn

(* A row that is about to be saved takes the dispatch from no thinker, and *)
(* does not open one that has ended.                                       *)
Keeps(r) ==
    r.pc = "writeRow" =>
        /\ rows[r.run].claimedBy # NoThinker => r.row.claimedBy = rows[r.run].claimedBy
        /\ rows[r.run].status \in Ended => r.row.status \in Ended

(* A run that is about to be activated or ended, or was ended while active,*)
(* has not been replaced.                                                  *)
Unreplaced(r) ==
    r.pc \in {"activate", "clearRun"} \/ r.wasActive => r.run \notin interrupted

(* What is about to be announced is not announced yet.                     *)
Unannounced(r) ==
    r.pc = "notify" => open[[task |-> r.row.task, type |-> r.report[2]]] = 0

OneInFlight == \A g, h \in Handlers : At(g, "idle") \/ At(h, "idle") \/ g = h

Serial ==
    /\ OneInFlight
    /\ \A h \in Handlers : /\ Keeps(handler[h])
                           /\ Unreplaced(handler[h])
                           /\ Unannounced(handler[h])
    /\ activeRun \notin interrupted
    /\ \A s \in Subjects : open[s] <= 1

SerialInv ==
    /\ Typed /\ RunsInv
    /\ Remembering /\ ReplacedDrawn
    /\ ~overlapped => Serial

-----------------------------------------------------------------------------
LEMMA SerialInit == Init => SerialInv
<1> SUFFICES ASSUME Init PROVE SerialInv
  OBVIOUS
<1>1. /\ \A h \in Handlers : handler[h].pc = "idle" /\ handler[h].wasActive = FALSE
      /\ interrupted = {} /\ \A s \in Subjects : open[s] = 0
  BY DEF Init, Blank
<1>2. Remembering /\ ReplacedDrawn
  BY <1>1 DEF Remembering, ReplacedDrawn
<1>3. Serial
  BY <1>1 DEF Serial, OneInFlight, Keeps, Unreplaced, Unannounced, At
<1>4. QED
  BY <1>2, <1>3, TypeInit, RunsInit DEF SerialInv

LEMMA OtherHandlers ==
    ASSUME SerialInv, NEW h \in Handlers, NEW r, Becomes(h, r)
    PROVE  \A g \in Handlers : handler'[g] = IF g = h THEN r ELSE handler[g]
BY DEF SerialInv, Typed, TypeOK, Becomes

(* When every other handler is idle, a step is about the one record only.  *)
LEMMA OnlyHandler ==
    ASSUME SerialInv, NEW h \in Handlers, NEW r, Becomes(h, r),
           \A g \in Handlers : g # h => At(g, "idle"),
           Keeps(r)', Unreplaced(r)', Unannounced(r)',
           activeRun' \notin interrupted', \A s \in Subjects : open'[s] <= 1
    PROVE  Serial'
<1>1. \A g \in Handlers : handler'[g] = IF g = h THEN r ELSE handler[g]
  BY OtherHandlers
<1>2. ASSUME NEW g \in Handlers, g # h
      PROVE  handler'[g] = handler[g] /\ handler[g].pc = "idle" /\ ~handler[g].wasActive
  BY <1>1, <1>2 DEF SerialInv, Remembering, At
<1>3. OneInFlight'
  BY <1>2 DEF OneInFlight, At
<1>4. ASSUME NEW g \in Handlers
      PROVE  Keeps(handler[g])' /\ Unreplaced(handler[g])' /\ Unannounced(handler[g])'
  <2>1. CASE g = h
    <3>1. handler'[g] = r
      BY <1>1, <2>1
    <3>2. QED
      BY <3>1 DEF Keeps, Unreplaced, Unannounced
  <2>2. CASE g # h
    BY <1>2, <2>2 DEF Keeps, Unreplaced, Unannounced
  <2>3. QED
    BY <2>1, <2>2
<1>5. QED
  BY <1>3, <1>4 DEF Serial

LEMMA OthersIdle ==
    ASSUME Serial, NEW h \in Handlers, ~At(h, "idle")
    PROVE  \A g \in Handlers : g # h => At(g, "idle")
BY DEF Serial, OneInFlight

-----------------------------------------------------------------------------
(* A call that is taken has ended nothing yet.                             *)
LEMMA CallForgets ==
    ASSUME Typed, NEW h \in Handlers, Call(h), NEW r, Becomes(h, r)
    PROVE  r.wasActive = FALSE
<1>1. handler' = [handler EXCEPT ![h] = r] /\ r = handler'[h]
  BY DEF Becomes, Typed, TypeOK
<1>2. ASSUME NEW s, Takes(h, s) PROVE r = s
  BY <1>1, <1>2 DEF Takes, Becomes, Typed, TypeOK
<1>3. CASE DispatchUserMessage(h)
  <2>1. PICK task \in Tasks :
          Takes(h, [Blank EXCEPT !.pc = "activate", !.run = drawn + 1,
                                 !.row = [status |-> "pending", task |-> task,
                                          claimedBy |-> NoThinker]])
    BY <1>3 DEF DispatchUserMessage
  <2>2. QED
    BY <1>2, <2>1 DEF Blank
<1>4. CASE ClaimDispatch(h)
  <2>1. PICK thinker \in Thinkers, i \in DOMAIN queue :
          Takes(h, [Blank EXCEPT !.pc = "writeRow", !.run = queue[i],
                                 !.row = [rows[queue[i]] EXCEPT
                                            !.status = "claimed", !.claimedBy = thinker]])
    BY <1>4 DEF ClaimDispatch, Matches
  <2>2. QED
    BY <1>2, <2>1 DEF Blank
<1>5. CASE Heartbeat(h)
  <2>1. PICK s \in Runs :
          Takes(h, [Blank EXCEPT !.pc = "writeRow", !.run = s, !.row = rows[s]])
    BY <1>5 DEF Heartbeat
  <2>2. QED
    BY <1>2, <2>1 DEF Blank
<1>6. CASE FinishDispatch(h)
  <2>1. PICK s \in Runs, report \in Reported :
          Takes(h, [Blank EXCEPT !.pc = IF ClearsRun(s) THEN "clearRun" ELSE "readRow",
                                 !.run = s, !.report = report, !.reports = TRUE])
    BY <1>6 DEF FinishDispatch
  <2>2. QED
    BY <1>2, <2>1 DEF Blank
<1>7. CASE CompleteRun(h)
  <2>1. PICK s \in Runs : Takes(h, [Blank EXCEPT !.pc = "clearRun", !.run = s])
    BY <1>7 DEF CompleteRun
  <2>2. QED
    BY <1>2, <2>1 DEF Blank
<1>8. QED
  BY <1>3, <1>4, <1>5, <1>6, <1>7 DEF Call

LEMMA CallSerial ==
    ASSUME SerialInv, NEW h \in Handlers, Call(h)
    PROVE  SerialInv'
<1>1. Typed' /\ RunsInv'
  BY CallType, CallRuns DEF SerialInv
<1>2. PICK r \in Handler :
        /\ r.run \in Runs
        /\ Takes(h, r)
        /\ Shape(r)
        /\ UNCHANGED <<session, rows, queue, notifications>>
  BY CallShape DEF SerialInv
<1>3. Becomes(h, r) /\ r.wasActive = FALSE
  BY <1>2, CallForgets DEF Takes, SerialInv
<1>4. /\ activeRun' = activeRun /\ interrupted' = interrupted
      /\ rows' = rows /\ open' = open
  BY <1>2 DEF session, notifications
<1>5. Remembering'
  BY <1>3, OtherHandlers DEF SerialInv, Remembering
<1>6. ReplacedDrawn'
  <2>1. drawn' \in {drawn, drawn + 1}
    BY <1>2 DEF Shape, NewMessage, SavesRow, EndsActive, EndsOther
  <2>2. drawn \in Nat /\ \A s \in interrupted : s \in Nat
    BY RunsAreNumbers DEF SerialInv, Typed, TypeOK
  <2>3. QED
    BY <1>4, <2>1, <2>2 DEF SerialInv, ReplacedDrawn
<1>7. ASSUME ~overlapped' PROVE Serial'
  <2>1. ~overlapped /\ \A g \in Handlers : At(g, "idle")
    BY <1>2, <1>7 DEF Takes, InFlight
  <2>2. Serial
    BY <2>1 DEF SerialInv
  <2>3. Keeps(r)'
    <3>1. CASE r.pc = "writeRow"
      <4>1. SavesRow(r)
        BY <1>2, <3>1 DEF Shape, NewMessage, EndsActive, EndsOther
      <4>2. rows[r.run].status = "pending" => rows[r.run].claimedBy = NoThinker
        BY <1>2 DEF SerialInv, RunsInv, ClaimsKept, Ended
      <4>3. QED
        BY <1>4, <4>1, <4>2 DEF Keeps, SavesRow, Ended
    <3>2. CASE r.pc # "writeRow"
      BY <3>2 DEF Keeps
    <3>3. QED
      BY <3>1, <3>2
  <2>4. Unreplaced(r)'
    <3>1. CASE NewMessage(r)
      <4>1. drawn \in Nat /\ \A s \in interrupted : s \in Nat /\ s <= drawn
        BY RunsAreNumbers DEF SerialInv, Typed, TypeOK, ReplacedDrawn
      <4>2. r.run \notin interrupted
        BY <3>1, <4>1 DEF NewMessage
      <4>3. QED
        BY <1>4, <4>2 DEF Unreplaced
    <3>2. CASE EndsActive(r)
      BY <1>4, <2>2, <3>2 DEF EndsActive, Unreplaced, Serial
    <3>3. CASE SavesRow(r) \/ EndsOther(r)
      BY <1>3, <3>3 DEF SavesRow, EndsOther, Unreplaced
    <3>4. QED
      BY <1>2, <3>1, <3>2, <3>3 DEF Shape
  <2>5. Unannounced(r)'
    BY <1>2 DEF Shape, NewMessage, SavesRow, EndsActive, EndsOther, Unannounced
  <2>6. QED
    BY <1>3, <1>4, <2>1, <2>2, <2>3, <2>4, <2>5, OnlyHandler DEF Serial
<1>8. QED
  BY <1>1, <1>5, <1>6, <1>7 DEF SerialInv

-----------------------------------------------------------------------------
(* A step of a handler in flight, by what its record becomes.              *)
LEMMA StepSerial ==
    ASSUME SerialInv, NEW h \in Handlers, NEW r, ~At(h, "idle"), Becomes(h, r),
           Typed', RunsInv', overlapped' = overlapped, ReplacedDrawn',
           r.wasActive => r.pc \in {"readRow", "writeRow", "find", "notify"},
           Serial => /\ Keeps(r)' /\ Unreplaced(r)' /\ Unannounced(r)'
                     /\ activeRun' \notin interrupted' /\ \A s \in Subjects : open'[s] <= 1
    PROVE  SerialInv'
<1>1. Remembering'
  BY OtherHandlers DEF SerialInv, Remembering
<1>2. ASSUME ~overlapped' PROVE Serial'
  <2>1. Serial
    BY <1>2 DEF SerialInv
  <2>2. QED
    BY <2>1, OthersIdle, OnlyHandler
<1>3. QED
  BY <1>1, <1>2 DEF SerialInv

LEMMA HandleSerial ==
    ASSUME SerialInv, NEW h \in Handlers, Handle(h)
    PROVE  SerialInv'
<1>1. Typed' /\ RunsInv'
  BY HandleType, HandleRuns DEF SerialInv
<1>2. /\ ~At(h, "idle") /\ overlapped' = overlapped /\ drawn' = drawn
      /\ handler[h] \in Handler /\ handler[h].run \in Runs
  <2>1. ~At(h, "idle") /\ overlapped' = overlapped /\ drawn' = drawn
    BY DEF Handle, ActivateRun, CreateDispatch, ClearRun, ReadRow, WriteRow, FindExisting,
       CreateNotification, At, history
  <2>2. QED
    BY <2>1, RunsAreNumbers DEF SerialInv
<1>3. /\ Blank.pc = "idle" /\ Blank.wasActive = FALSE
  BY DEF Blank
<1>4. CASE ActivateRun(h)
  <2>0. PICK r : r = [handler[h] EXCEPT !.pc = "create"]
    OBVIOUS
  <2>1. r.pc = "create" /\ r.wasActive = handler[h].wasActive
    BY <1>2, <2>0 DEF Handler
  <2>2. Becomes(h, r) /\ handler[h].pc = "activate" /\ activeRun' = handler[h].run
        /\ interrupted' = interrupted \union ({activeRun} \ {NoRun}) /\ open' = open
    BY <1>4, <2>0 DEF ActivateRun, At, notifications
  <2>3. ~r.wasActive
    BY <2>1, <2>2 DEF SerialInv, Remembering
  <2>4. ReplacedDrawn'
    BY <1>2, <2>2 DEF SerialInv, ReplacedDrawn, RunsInv, RunsDrawn
  <2>5. activeRun # handler[h].run
    BY <2>2 DEF SerialInv, RunsInv, LaunchesAlone, Launching, At
  <2>6. ASSUME Serial
        PROVE  /\ Keeps(r)' /\ Unreplaced(r)' /\ Unannounced(r)'
               /\ activeRun' \notin interrupted' /\ \A s \in Subjects : open'[s] <= 1
    BY <2>1, <2>2, <2>3, <2>5, <2>6 DEF Keeps, Unreplaced, Unannounced, Serial
  <2>7. QED
    BY <1>1, <1>2, <2>2, <2>3, <2>4, <2>6, StepSerial
<1>5. CASE CreateDispatch(h)
  <2>1. /\ Becomes(h, Blank) /\ activeRun' = activeRun /\ interrupted' = interrupted
        /\ open' = open
    BY <1>5 DEF CreateDispatch, Answers, session, notifications
  <2>2. ReplacedDrawn'
    BY <1>2, <2>1 DEF SerialInv, ReplacedDrawn
  <2>3. ASSUME Serial
        PROVE  /\ Keeps(Blank)' /\ Unreplaced(Blank)' /\ Unannounced(Blank)'
               /\ activeRun' \notin interrupted' /\ \A s \in Subjects : open'[s] <= 1
    BY <1>3, <2>1, <2>3 DEF Keeps, Unreplaced, Unannounced, Serial
  <2>4. QED
    BY <1>1, <1>2, <1>3, <2>1, <2>2, <2>3, StepSerial
<1>6. CASE ClearRun(h)
  <2> DEFINE s == [handler[h] EXCEPT !.pc = "readRow", !.wasActive = TRUE]
  <2>1. s.pc = "readRow" /\ s.run = handler[h].run
    BY <1>2 DEF Handler
  <2>2. Becomes(h, s) \/ Becomes(h, Blank)
    BY <1>6 DEF ClearRun, Answers
  <2> HIDE DEF s
  <2>3. PICK r \in {s, Blank} : Becomes(h, r)
    BY <2>2
  <2>4. /\ handler[h].pc = "clearRun" /\ activeRun' = NoRun /\ interrupted' = interrupted
        /\ open' = open
    BY <1>6 DEF ClearRun, At, notifications
  <2>5. ReplacedDrawn'
    BY <1>2, <2>4 DEF SerialInv, ReplacedDrawn
  <2>6. NoRun \notin interrupted
    BY RunsAreNumbers DEF SerialInv, Typed, TypeOK
  <2>7. ASSUME Serial
        PROVE  /\ Keeps(r)' /\ Unreplaced(r)' /\ Unannounced(r)'
               /\ activeRun' \notin interrupted' /\ \A u \in Subjects : open'[u] <= 1
    <3>1. handler[h].run \notin interrupted
      BY <2>4, <2>7 DEF Serial, Unreplaced
    <3>2. QED
      BY <1>3, <2>1, <2>3, <2>4, <2>6, <2>7, <3>1 DEF Keeps, Unreplaced, Unannounced, Serial
  <2>8. QED
    BY <1>1, <1>2, <1>3, <2>1, <2>3, <2>5, <2>7, StepSerial
<1>7. CASE ReadRow(h)
  <2> DEFINE row == [rows[handler[h].run] EXCEPT !.status = handler[h].report[1]]
  <2>0. PICK r : r = [handler[h] EXCEPT !.pc = "writeRow", !.row = row]
    OBVIOUS
  <2>1. /\ row.status \in Ended /\ row.claimedBy = rows[handler[h].run].claimedBy
    BY <1>2, ReportType DEF SerialInv, Typed, TypeOK, Handler, Row
  <2> HIDE DEF row
  <2>2. /\ r.pc = "writeRow" /\ r.run = handler[h].run /\ r.row = row
        /\ r.wasActive = handler[h].wasActive
    BY <1>2, <2>0 DEF Handler
  <2>3. /\ Becomes(h, r) /\ rows' = rows /\ activeRun' = activeRun
        /\ interrupted' = interrupted /\ open' = open
    BY <1>7, <2>0 DEF ReadRow, row, session, notifications
  <2>4. ReplacedDrawn'
    BY <1>2, <2>3 DEF SerialInv, ReplacedDrawn
  <2>5. ASSUME Serial
        PROVE  /\ Keeps(r)' /\ Unreplaced(r)' /\ Unannounced(r)'
               /\ activeRun' \notin interrupted' /\ \A s \in Subjects : open'[s] <= 1
    BY <2>1, <2>2, <2>3, <2>5 DEF Keeps, Unreplaced, Unannounced, Serial
  <2>6. QED
    BY <1>1, <1>2, <2>2, <2>3, <2>4, <2>5, StepSerial
<1>8. CASE WriteRow(h)
  <2> DEFINE s == [handler[h] EXCEPT !.pc = "find"]
  <2>1. s.pc = "find" /\ s.run = handler[h].run /\ s.wasActive = handler[h].wasActive
    BY <1>2 DEF Handler
  <2>2. Becomes(h, s) \/ Becomes(h, Blank)
    BY <1>8 DEF WriteRow, Answers
  <2> HIDE DEF s
  <2>3. PICK r \in {s, Blank} : Becomes(h, r)
    BY <2>2
  <2>4. /\ activeRun' = activeRun /\ interrupted' = interrupted /\ open' = open
    BY <1>8 DEF WriteRow, session, notifications
  <2>5. ReplacedDrawn'
    BY <1>2, <2>4 DEF SerialInv, ReplacedDrawn
  <2>6. ASSUME Serial
        PROVE  /\ Keeps(r)' /\ Unreplaced(r)' /\ Unannounced(r)'
               /\ activeRun' \notin interrupted' /\ \A u \in Subjects : open'[u] <= 1
    BY <1>3, <2>1, <2>3, <2>4, <2>6 DEF Keeps, Unreplaced, Unannounced, Serial
  <2>7. QED
    BY <1>1, <1>2, <1>3, <2>1, <2>3, <2>5, <2>6, StepSerial
<1>9. CASE FindExisting(h)
  <2> DEFINE s == [handler[h] EXCEPT !.pc = "notify"]
  <2>1. /\ s.pc = "notify" /\ s.run = handler[h].run /\ s.wasActive = handler[h].wasActive
        /\ s.row = handler[h].row /\ s.report = handler[h].report
    BY <1>2 DEF Handler
  <2>2. (Becomes(h, s) /\ ~Silenced(Subject(h))) \/ Becomes(h, Blank)
    BY <1>9 DEF FindExisting, Answers
  <2> HIDE DEF s
  <2>3. PICK r \in {s, Blank} : Becomes(h, r) /\ (r = s => ~Silenced(Subject(h)) \/ s = Blank)
    BY <2>2
  <2>4. /\ activeRun' = activeRun /\ interrupted' = interrupted /\ open' = open
    BY <1>9 DEF FindExisting, session, notifications
  <2>5. ReplacedDrawn'
    BY <1>2, <2>4 DEF SerialInv, ReplacedDrawn
  <2>6. Subject(h) \in Subjects /\ open[Subject(h)] \in Nat
    BY SubjectType DEF SerialInv, Typed, TypeOK
  <2>7. Unannounced(r)'
    <3>1. CASE r = s /\ s # Blank
      <4>1. open[Subject(h)] = 0
        BY <2>3, <2>6, <3>1 DEF Silenced
      <4>2. QED
        BY <2>1, <2>4, <3>1, <4>1 DEF Unannounced, Subject
    <3>2. CASE r = Blank
      BY <1>3, <3>2 DEF Unannounced
    <3>3. QED
      BY <2>3, <3>1, <3>2
  <2>8. ASSUME Serial
        PROVE  /\ Keeps(r)' /\ Unreplaced(r)'
               /\ activeRun' \notin interrupted' /\ \A u \in Subjects : open'[u] <= 1
    BY <1>3, <2>1, <2>3, <2>4, <2>8 DEF Keeps, Unreplaced, Serial
  <2>9. QED
    BY <1>1, <1>2, <1>3, <2>1, <2>3, <2>5, <2>7, <2>8, StepSerial
<1>10. CASE CreateNotification(h)
  <2>1. /\ Becomes(h, Blank) /\ activeRun' = activeRun /\ interrupted' = interrupted
        /\ open' \in {open, [open EXCEPT ![Subject(h)] = @ + 1]} /\ handler[h].pc = "notify"
    BY <1>10 DEF CreateNotification, Answers, session, At
  <2>2. ReplacedDrawn'
    BY <1>2, <2>1 DEF SerialInv, ReplacedDrawn
  <2>3. Subject(h) \in Subjects /\ open \in [Subjects -> Nat]
    BY SubjectType DEF SerialInv, Typed, TypeOK
  <2>4. ASSUME Serial
        PROVE  /\ Keeps(Blank)' /\ Unreplaced(Blank)' /\ Unannounced(Blank)'
               /\ activeRun' \notin interrupted' /\ \A s \in Subjects : open'[s] <= 1
    <3>1. open[Subject(h)] = 0
      BY <2>1, <2>4 DEF Serial, Unannounced, Subject
    <3>2. \A s \in Subjects : open'[s] <= 1
      BY <2>1, <2>3, <2>4, <3>1 DEF Serial
    <3>3. QED
      BY <1>3, <2>1, <2>4, <3>2 DEF Keeps, Unreplaced, Unannounced, Serial
  <2>5. QED
    BY <1>1, <1>2, <1>3, <2>1, <2>2, <2>4, StepSerial
<1>11. QED
  BY <1>4, <1>5, <1>6, <1>7, <1>8, <1>9, <1>10 DEF Handle

LEMMA SerialStep == SerialInv /\ [Next]_vars => SerialInv'
<1> SUFFICES ASSUME SerialInv, [Next]_vars PROVE SerialInv'
  OBVIOUS
<1>1. Typed' /\ RunsInv'
  BY TypeStep, RunsStep DEF SerialInv
<1>2. CASE Settle
  <2>1. PICK s \in Subjects : \/ open[s] > 0 /\ open' = [open EXCEPT ![s] = @ - 1]
                              \/ open' = open
    BY <1>2 DEF Settle
  <2>2. UNCHANGED <<activeRun, interrupted, rows, handler, drawn, overlapped>>
    BY <1>2 DEF Settle, session, history
  <2>3. open \in [Subjects -> Nat] /\ \A u \in Subjects : open'[u] <= open[u]
    <3>1. open \in [Subjects -> Nat]
      BY DEF SerialInv, Typed, TypeOK
    <3>2. CASE open' = open
      BY <3>1, <3>2
    <3>3. CASE open[s] > 0 /\ open' = [open EXCEPT ![s] = @ - 1]
      BY <3>1, <3>3
    <3>4. QED
      BY <2>1, <3>1, <3>2, <3>3
  <2>4. Remembering' /\ ReplacedDrawn'
    BY <2>2 DEF SerialInv, Remembering, ReplacedDrawn
  <2>5. ASSUME Serial PROVE Serial'
    <3>1. \A u \in Subjects : open'[u] <= 1
      BY <1>1, <2>3, <2>5 DEF Serial, Typed, TypeOK
    <3>2. ASSUME NEW h \in Handlers PROVE Unannounced(handler[h])'
      <4>1. Subject(h) \in Subjects
        BY SubjectType DEF SerialInv, Typed
      <4>2. handler[h].pc = "notify" => open[Subject(h)] = 0
        BY <2>5 DEF Serial, Unannounced, Subject
      <4>3. handler[h].pc = "notify" => open'[Subject(h)] = 0
        BY <2>1, <2>3, <4>1, <4>2
      <4>4. QED
        BY <2>2, <4>3 DEF Unannounced, Subject
    <3>3. QED
      BY <2>2, <2>5, <3>1, <3>2 DEF Serial, OneInFlight, Keeps, Unreplaced, At
  <2>6. QED
    BY <1>1, <2>2, <2>4, <2>5 DEF SerialInv
<1>3. CASE Cancel
  <2>1. /\ activeRun' = NoRun /\ UNCHANGED <<interrupted, rows, open, handler, drawn>>
        /\ (~overlapped' => ~overlapped)
    BY <1>3 DEF Cancel, notifications
  <2>2. Remembering' /\ ReplacedDrawn'
    BY <2>1 DEF SerialInv, Remembering, ReplacedDrawn
  <2>3. NoRun \notin interrupted
    BY RunsAreNumbers DEF SerialInv, Typed, TypeOK
  <2>4. Serial => Serial'
    BY <2>1, <2>3 DEF Serial, OneInFlight, Keeps, Unreplaced, Unannounced, At
  <2>5. QED
    BY <1>1, <2>1, <2>2, <2>4 DEF SerialInv
<1>4. CASE Crash
  <2>1. /\ UNCHANGED <<activeRun, interrupted, rows, open, drawn, overlapped>>
        /\ \A h \in Handlers : handler'[h].pc = "idle" /\ handler'[h].wasActive = FALSE
    BY <1>4 DEF Crash, session, notifications, Blank
  <2>2. Remembering' /\ ReplacedDrawn'
    BY <2>1 DEF SerialInv, Remembering, ReplacedDrawn
  <2>3. Serial => Serial'
    BY <2>1 DEF Serial, OneInFlight, Keeps, Unreplaced, Unannounced, At
  <2>4. QED
    BY <1>1, <2>1, <2>2, <2>3 DEF SerialInv
<1>5. CASE UNCHANGED vars
  <2>1. UNCHANGED <<activeRun, interrupted, rows, open, handler, drawn, overlapped>>
    BY <1>5 DEF vars, session, notifications, history
  <2>2. QED
    BY <1>1, <2>1 DEF SerialInv, Remembering, ReplacedDrawn, Serial, OneInFlight, Keeps,
       Unreplaced, Unannounced, At
<1>6. CASE OtherNotification
  <2>1. /\ UNCHANGED <<activeRun, interrupted, rows, open, handler, drawn>>
        /\ (~overlapped' => ~overlapped)
    BY <1>6 DEF OtherNotification, session
  <2>2. Remembering' /\ ReplacedDrawn'
    BY <2>1 DEF SerialInv, Remembering, ReplacedDrawn
  <2>3. Serial => Serial'
    BY <2>1 DEF Serial, OneInFlight, Keeps, Unreplaced, Unannounced, At
  <2>4. QED
    BY <1>1, <2>1, <2>2, <2>3 DEF SerialInv
<1>7. QED
  BY <1>2, <1>3, <1>4, <1>5, <1>6, CallSerial, HandleSerial DEF Next, Environment

LEMMA SerialAlways == Spec => []SerialInv
BY SerialInit, SerialStep, PTL DEF Spec

-----------------------------------------------------------------------------
(* While requests come one at a time, a run that was replaced never        *)
(* reports to the user, whatever is repeated and wherever it crashes.      *)
THEOREM ReplacedRunsAreSilent == Spec => []StaleRunSilent
<1>1. SerialInv => StaleRunSilent
  BY DEF SerialInv, Serial, Unreplaced, StaleRunSilent
<1>2. QED
  BY <1>1, SerialAlways, PTL

(* ... and a task has one open notification of each type at most in the    *)
(* list that the search reads, however short that list is.                 *)
THEOREM NotifiedOnce == Spec => []OneOpenNotification
<1>1. SerialInv => OneOpenNotification
  BY DEF SerialInv, Serial, OneOpenNotification
<1>2. QED
  BY <1>1, SerialAlways, PTL

(* The only steps that write a row while requests come one at a time.      *)
LEMMA RowsChange ==
    ASSUME SerialInv, [Next]_vars, ~overlapped', NEW r \in Runs, rows'[r] # rows[r]
    PROVE  /\ rows[r].claimedBy # NoThinker => rows'[r].claimedBy = rows[r].claimedBy
           /\ rows[r].status \in Ended => rows'[r].status \in Ended
<1>1. PICK h \in Handlers : CreateDispatch(h) \/ WriteRow(h)
  <2>1. ASSUME NEW h \in Handlers, Call(h) PROVE rows' = rows
    BY <2>1 DEF Call, DispatchUserMessage, ClaimDispatch, Heartbeat, FinishDispatch, CompleteRun
  <2>2. ASSUME NEW h \in Handlers, Handle(h), ~CreateDispatch(h), ~WriteRow(h)
        PROVE  rows' = rows
    BY <2>2 DEF Handle, ActivateRun, ClearRun, ReadRow, FindExisting, CreateNotification
  <2>3. Environment \/ UNCHANGED vars => rows' = rows
    BY DEF Environment, OtherNotification, Settle, Cancel, Crash, vars
  <2>4. QED
    BY <2>1, <2>2, <2>3 DEF Next
<1>2. /\ rows' = [rows EXCEPT ![handler[h].run] = handler[h].row]
      /\ overlapped' = overlapped
  BY <1>1 DEF CreateDispatch, WriteRow, history
<1>3. r = handler[h].run /\ rows'[r] = handler[h].row
  BY <1>2 DEF SerialInv, Typed, TypeOK
<1>4. CASE CreateDispatch(h)
  <2>1. rows[r].status = "absent"
    BY <1>3, <1>4 DEF CreateDispatch, SerialInv, RunsInv, LaunchesAlone, Launching, At, Present
  <2>2. rows[r].claimedBy = NoThinker
    BY <2>1 DEF SerialInv, RunsInv, ClaimsKept, Ended
  <2>3. QED
    BY <2>1, <2>2 DEF Ended
<1>5. CASE WriteRow(h)
  <2>1. Keeps(handler[h]) /\ handler[h].pc = "writeRow"
    BY <1>2, <1>5 DEF SerialInv, Serial, WriteRow, At
  <2>2. QED
    BY <1>3, <2>1 DEF Keeps
<1>6. QED
  BY <1>1, <1>4, <1>5

(* ... no dispatch is handed to two thinkers.                              *)
THEOREM ClaimedOnce == Spec => SoleClaim
<1> DEFINE Kept == ~overlapped' => \A r \in Runs : rows[r].claimedBy # NoThinker =>
                                                     rows'[r].claimedBy = rows[r].claimedBy
<1>1. SerialInv /\ [Next]_vars => Kept
  BY RowsChange
<1>2. SerialInv /\ [Next]_vars => [Kept]_vars
  BY <1>1
<1>3. QED
  BY <1>2, SerialAlways, PTL DEF Spec, SoleClaim

(* ... and a dispatch that has ended stays ended.                          *)
THEOREM EndsOnce == Spec => EndSticks
<1> DEFINE Kept == ~overlapped' => \A r \in Runs : rows[r].status \in Ended =>
                                                     rows'[r].status \in Ended
<1>1. SerialInv /\ [Next]_vars => Kept
  BY RowsChange
<1>2. SerialInv /\ [Next]_vars => [Kept]_vars
  BY <1>1
<1>3. QED
  BY <1>2, SerialAlways, PTL DEF Spec, EndSticks
=============================================================================
