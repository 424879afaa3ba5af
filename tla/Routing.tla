------------------------------ MODULE Routing -------------------------------
(* How a user message finds the task it is about: the router scores the    *)
(* tasks of the user's directory against the message and selects one,      *)
(* creates a new one or asks; a model may overrule an unsure rule; the     *)
(* session of the selected task is looked up; the intent is classified,    *)
(* again by rule or model; then the message is answered or a plan made.    *)
(*                                                                         *)
(* Between the reads of one message other messages are routed and runs     *)
(* end: one action is one read of the store or one answer of a model, with *)
(* the computation that follows it.  What the plan writes is a step here   *)
(* (its single writes are in TaskSwitch), and so is the end of a run.      *)
(*                                                                         *)
(* A message is the markers it contains and, for each task, how it mentions*)
(* it.  Scores and confidences are hundredths.  Binary rounding decides    *)
(* two comparisons: .35 + .10, the only sum of .45, falls short of .45; a  *)
(* margin of .12 may or may not, which is left to the message.  task_type  *)
(* is "other" in every row the store writes, so its bonus is never given.  *)
EXTENDS Naturals, SequencesExt

CONSTANTS
    Handlers,        \* request handlers that run side by side
    Messages,        \* the messages users send
    Confidences,     \* the confidences a model states
    Outcomes,        \* the task statuses runs end with
    ListLimit,       \* the directory rows list_global_tasks returns
    MaxSessions,     \* bound: kernel sessions
    MaxMessages,     \* bound: messages sent
    RacingMessages   \* bound: messages overlap only while at most so many are sent

ASSUME BoundAssumption ==
    /\ ListLimit \in Nat \ {0} /\ MaxSessions \in Nat \ {0}
    /\ MaxMessages \in Nat /\ RacingMessages \in Nat
ASSUME ConfidenceAssumption == Confidences \subseteq 0..100
ASSUME OutcomeAssumption == Outcomes \subseteq {"active", "completed", "cancelled", "blocked"}

Sessions == 1..MaxSessions
NoSession == 0

\* A message creates at most two tasks: one to pause, one for itself.
Tasks == 1..(2 * MaxMessages)
NoTask == 0
TaskIds == Tasks \union {NoTask}

TaskStatus == {"active", "paused", "completed", "cancelled", "blocked"}
Open == {"active", "paused", "blocked"}
GlobalTask == [task : Tasks, home : Sessions, status : TaskStatus]
RowAt(rows, task) == CHOOSE i \in DOMAIN rows : rows[i].task = task

References == {"new", "work", "ambiguous", "other", "status", "recent"}
Markers == {"kernel_query", "explicit_new", "resume", "steer", "work_prefix"}
Mention == [hints : 0..3, names : 0..2, overlap : 0..4]
NoMention == [hints |-> 0, names |-> 0, overlap |-> 0]

Message == [references : SUBSET References, markers : SUBSET Markers,
            mention : [Tasks -> Mention], rounds : BOOLEAN,
            mode : {"auto", "new_task"}, target : Sessions \union {NoSession}]

ASSUME MessageAssumption == Messages # {} /\ Messages \subseteq Message

Intents == {"kernel_answerable_query", "new_task", "resume_previous_task",
            "same_task_steer", "unrelated_chat", "uncertain"}
Decisions == {"select_existing", "create_new", "ask_clarification"}
Routes == [decision : Decisions, target : TaskIds, confidence : 0..100,
           source : {"rule", "model"}]

VARIABLES
    directory,   \* the user's global tasks, the last touched first
    sessions,    \* the pointers of the kernel sessions
    call,        \* what each handler is doing, and the copies it holds
    sent,        \* messages sent so far
    named,       \* history: some caller named the session of its message
    overlapped   \* history: some message was sent while another was under way

vars == <<directory, sessions, call, sent, named, overlapped>>

NoLink == [exists |-> FALSE, run |-> FALSE, active |-> NoTask, lastPaused |-> NoTask]
Links == [exists : BOOLEAN, run : BOOLEAN, active : TaskIds, lastPaused : TaskIds]
NoRoute == [decision |-> "create_new", target |-> NoTask, confidence |-> 0, source |-> "rule"]

\* While a handler is idle its message is of no account.
AnyMessage == CHOOSE m \in Messages : TRUE
Blank == [pc |-> "idle", message |-> AnyMessage, listed |-> <<>>, route |-> NoRoute,
          session |-> NoSession, link |-> NoLink, intent |-> "uncertain"]

PCs == {"idle", "route", "find", "classify", "act"}

At(h, pc) == call[h].pc = pc
Goes(h, c) == call' = [call EXCEPT ![h] = c]
AtRest == \A h \in Handlers : At(h, "idle")

Init ==
    /\ directory = <<>>
    /\ sessions = [s \in Sessions |-> NoLink]
    /\ call = [h \in Handlers |-> Blank]
    /\ sent = 0
    /\ named = FALSE
    /\ overlapped = FALSE

-----------------------------------------------------------------------------
(* The rules of the router, over the tasks as they were listed.            *)

Score(m, e) ==
    LET n == m.mention[e.task]
    IN  Min({100, 35 * n.hints + 40 * n.names + Min({45, 12 * n.overlap})
                  + (IF e.status \in Open THEN 5 ELSE 0)
                  + (IF n # NoMention THEN 10 ELSE 0)})

\* Positions in the list, which is in order of touch, by score.
Outranks(m, listed, i, j) ==
    LET a == Score(m, listed[i])  b == Score(m, listed[j])
    IN  a > b \/ (a = b /\ i < j)

Best(m, listed) ==
    CHOOSE i \in DOMAIN listed : \A j \in DOMAIN listed \ {i} : Outranks(m, listed, i, j)

Candidates(m, listed) ==
    {listed[i].task : i \in {i \in DOMAIN listed :
        Cardinality({j \in DOMAIN listed : Outranks(m, listed, j, i)}) < 3}}

Supports(score) == score > 45

\* Mutant: no margin between the best and the second.
ClearByScore(m, listed) == Supports(Score(m, listed[Best(m, listed)]))

\* A score that supports the best task and leaves every other one behind.
Clear(m, listed) ==
    LET i == Best(m, listed)  best == Score(m, listed[i])
    IN  /\ Supports(best)
        /\ \A j \in DOMAIN listed \ {i} :
              LET second == Score(m, listed[j])
              IN  best > second + 12 \/ (best = second + 12 /\ m.rounds)

Active(listed) == {i \in DOMAIN listed : listed[i].status = "active"}

\* The latest task that is not the current one.
OtherTask(m, listed) ==
    LET current == IF Cardinality(Active(listed)) = 1
                   THEN CHOOSE i \in Active(listed) : TRUE ELSE Best(m, listed)
    IN  Min(DOMAIN listed \ {current})

Select(listed, i, confidence) ==
    [decision |-> "select_existing", target |-> listed[i].task,
     confidence |-> confidence, source |-> "rule"]
CreateNew(confidence) == [NoRoute EXCEPT !.confidence = confidence]
Clarify == [NoRoute EXCEPT !.decision = "ask_clarification", !.confidence = 35]

\* The rules in their order; the first that applies decides.
RankedRules(m, listed) ==
    LET best == Best(m, listed)
        score == Score(m, listed[best])
        many == Len(listed) > 1
        refers(r) == r \in m.references
        one == Cardinality(Active(listed)) = 1
    IN  << [applies |-> refers("work") /\ score < 70, route |-> CreateNew(76)],
           [applies |-> refers("ambiguous") /\ many /\ ~Supports(score), route |-> Clarify],
           [applies |-> refers("other") /\ many,
            route |-> IF many THEN Select(listed, OtherTask(m, listed), 72) ELSE NoRoute],
           [applies |-> refers("status") /\ Clear(m, listed), route |-> Select(listed, best, score)],
           [applies |-> refers("status") /\ one,
            route |-> IF one THEN Select(listed, CHOOSE i \in Active(listed) : TRUE, 82) ELSE NoRoute],
           [applies |-> refers("status") /\ ~many, route |-> Select(listed, 1, 74)],
           [applies |-> refers("recent"), route |-> Select(listed, best, 78)],
           [applies |-> Clear(m, listed), route |-> Select(listed, best, score)],
           [applies |-> many, route |-> Clarify],
           [applies |-> TRUE, route |-> CreateNew(65)] >>

Route(m, listed) ==
    CASE "new" \in m.references -> CreateNew(95)
      [] "new" \notin m.references /\ listed = <<>> -> CreateNew(80)
      [] OTHER ->
            LET rules == RankedRules(m, listed)
            IN  rules[CHOOSE i \in DOMAIN rules :
                        rules[i].applies /\ \A j \in 1..(i - 1) : ~rules[j].applies].route

-----------------------------------------------------------------------------
(* The model that may overrule an unsure rule.                             *)

Unsure(route) == route.confidence < 75 \/ route.decision = "ask_clarification"

\* Its well-formed answers: a selected task is one of the candidates.
Answers(m, listed) ==
    {r \in [decision : Decisions, target : Candidates(m, listed) \union {NoTask},
            confidence : Confidences, source : {"model"}] :
        (r.decision = "select_existing") <=> (r.target # NoTask)}

ScoreOf(m, listed, task) == Score(m, listed[RowAt(listed, task)])

\* The score of a candidate is rounded, and then .35 + .10 does reach .45.
Backed(m, listed, task) == ScoreOf(m, listed, task) >= 45

Accepted(m, listed, rule, answer) ==
    /\ answer.confidence >= 65
    /\ \/ answer.decision = "ask_clarification"
       \/ answer.decision = rule.decision /\ answer.target = rule.target
       \/ /\ answer.decision = "select_existing"
          /\ \/ Backed(m, listed, answer.target)
             \/ rule.decision = "ask_clarification" /\ answer.confidence >= 80
       \/ answer.decision = "create_new" /\ answer.confidence >= 72

-----------------------------------------------------------------------------
(* Preparing the dispatch of a message.                                    *)

\* Once a route is chosen its confidence is only a record.
Kept(route) == [route EXCEPT !.confidence = 0]

\* route_message reads the directory, up to its limit.
ListTasks(h) ==
    /\ At(h, "idle")
    /\ sent < MaxMessages
    /\ AtRest \/ sent < RacingMessages
    /\ sent' = sent + 1
    /\ overlapped' = (overlapped \/ ~AtRest)
    /\ \E m \in Messages :
          /\ named' = (named \/ m.target # NoSession)
          /\ Goes(h, [Blank EXCEPT !.pc = "route", !.message = m,
                        !.listed = SubSeq(directory, 1, Min({ListLimit, Len(directory)}))])
    /\ UNCHANGED <<directory, sessions>>

RouteMessage(h) ==
    /\ At(h, "route")
    /\ Goes(h, [call[h] EXCEPT !.pc = "find",
                  !.route = Kept(Route(call[h].message, call[h].listed))])
    /\ UNCHANGED <<directory, sessions, sent, named, overlapped>>

RouteByModel(h) ==
    /\ At(h, "route")
    /\ call[h].listed # <<>>
    /\ LET m == call[h].message
           rule == Route(m, call[h].listed)
       IN  /\ Unsure(rule)
           /\ \E answer \in Answers(m, call[h].listed) :
                 /\ Accepted(m, call[h].listed, rule, answer)
                 /\ Goes(h, [call[h] EXCEPT !.pc = "find", !.route = Kept(answer)])
    /\ UNCHANGED <<directory, sessions, sent, named, overlapped>>

\* The session a caller names comes first, then that of the selected task;
\* else it is the latest of the caller's runtime, which is left open here.
Existing == {s \in Sessions : sessions[s].exists}
\* Mutant: the selected task does not decide where the message goes.
SessionsForRuntime(c) ==
    IF c.message.target # NoSession
    THEN {IF c.message.target \in Existing THEN c.message.target ELSE NoSession}
    ELSE Existing \union {NoSession}

SessionsFor(c) ==
    CASE c.message.target # NoSession ->
            {IF c.message.target \in Existing THEN c.message.target ELSE NoSession}
      [] c.message.target = NoSession /\ c.route.target # NoTask ->
            {e.home : e \in {e \in ToSet(c.listed) : e.task = c.route.target}}
      [] OTHER -> Existing \union {NoSession}

FindSession(h) ==
    /\ At(h, "find")
    /\ \E s \in SessionsFor(call[h]) :
          Goes(h, [call[h] EXCEPT !.pc = "classify", !.session = s,
                     !.link = IF s = NoSession THEN NoLink ELSE sessions[s]])
    /\ UNCHANGED <<directory, sessions, sent, named, overlapped>>

\* The rules of the classifier, with the confidence of each.
RuleIntent(m, session) ==
    LET has(marker) == marker \in m.markers
        says(intent, confidence) == [intent |-> intent, confidence |-> confidence]
    IN  IF m.mode = "new_task" THEN says("new_task", 100)
        ELSE IF session # NoSession /\ has("kernel_query") THEN says("kernel_answerable_query", 85)
        ELSE IF has("explicit_new") THEN says("new_task", 95)
        ELSE IF has("resume") THEN says("resume_previous_task", 95)
        ELSE IF has("steer") THEN says("same_task_steer", 75)
        ELSE IF session # NoSession /\ has("work_prefix") THEN says("new_task", 85)
        ELSE says("uncertain", 40)

Classify(h) ==
    /\ At(h, "classify")
    /\ Goes(h, [call[h] EXCEPT !.pc = "act",
                  !.intent = RuleIntent(call[h].message, call[h].session).intent])
    /\ UNCHANGED <<directory, sessions, sent, named, overlapped>>

\* A model is asked where the rule is unsure and there is a session; an
\* answer with too little confidence leaves the rule's.
ClassifyByModel(h) ==
    /\ At(h, "classify")
    /\ call[h].session # NoSession
    /\ RuleIntent(call[h].message, call[h].session).confidence < 85
    /\ \E intent \in Intents, confidence \in Confidences :
          /\ confidence >= 65
          /\ Goes(h, [call[h] EXCEPT !.pc = "act", !.intent = intent])
    /\ UNCHANGED <<directory, sessions, sent, named, overlapped>>

-----------------------------------------------------------------------------
(* Acting on it.                                                           *)

\* Answered without work: a question back, or from what the kernel knows.
Clarifies(c) ==
    /\ c.route.decision = "ask_clarification"
    /\ c.intent \notin {"new_task", "resume_previous_task"}
AnsweredByKernel(c) == c.session # NoSession /\ c.intent = "kernel_answerable_query"

Owns(s, task) == \E e \in ToSet(directory) : e.task = task /\ e.home = s
PausedOf(s) == {i \in DOMAIN directory : directory[i].home = s /\ directory[i].status = "paused"}

\* get_resume_task.
ResumeTask(c) ==
    IF Owns(c.session, c.link.lastPaused) THEN c.link.lastPaused
    ELSE IF PausedOf(c.session) # {} THEN directory[Min(PausedOf(c.session))].task
    ELSE NoTask

\* The planner's choice: what to do, and on which task.
Planned(c) ==
    LET routed == c.route.target # NoTask /\ c.intent \notin {"new_task", "resume_previous_task"}
        resume == ResumeTask(c)
        to(choice, task) == [choice |-> choice, task |-> task]
    IN  CASE routed -> to(IF c.route.target = c.link.active THEN "continue" ELSE "switch",
                          c.route.target)
          [] ~routed /\ c.link.active # NoTask /\ c.intent = "new_task" -> to("start_new", NoTask)
          [] ~routed /\ c.intent = "resume_previous_task" ->
                to(IF resume = NoTask THEN "nothing" ELSE "switch", resume)
          [] OTHER ->
                IF ~c.link.exists \/ (c.link.run /\ c.intent # "same_task_steer")
                THEN to("start_new", NoTask) ELSE to("continue", c.link.active)

\* The rows a plan touches, the last one in front.
\* Mutant: a plain insert.
UpsertInserting(d, e) == <<e>> \o d

Upsert(d, e) ==
    <<e>> \o (IF \E i \in DOMAIN d : d[i].task = e.task THEN RemoveAt(d, RowAt(d, e.task)) ELSE d)
Row(task, s, status) == [task |-> task, home |-> s, status |-> status]

\* What the current task becomes: a session that points to no task of its
\* own gets one made of its brief.
Paused(s, task) == IF Owns(s, task) THEN task ELSE Len(directory) + 1

Pauses(c, plan) ==
    \/ plan.choice = "start_new" /\ c.link.exists
    \/ plan.choice = "switch" /\ c.link.active \notin {NoTask, plan.task}

AfterPause(c, plan) ==
    IF Pauses(c, plan)
    THEN Upsert(directory, Row(Paused(c.session, c.link.active), c.session, "paused"))
    ELSE directory

StatusOf(d, task) == d[RowAt(d, task)].status
HomeOf(d, task) == d[RowAt(d, task)].home

\* The task worked on: the planned one, or a fresh one.
WorkOn(s, plan, d) ==
    CASE plan.choice = "switch" -> Row(plan.task, HomeOf(d, plan.task), "active")
      [] plan.choice = "continue" /\ Owns(s, plan.task) ->
            Row(plan.task, s, StatusOf(d, plan.task))
      [] OTHER -> Row(Len(d) + 1, s, "active")

Respond(h) ==
    /\ At(h, "act")
    /\ Clarifies(call[h]) \/ AnsweredByKernel(call[h])
    /\ Goes(h, Blank)
    /\ UNCHANGED <<directory, sessions, sent, named, overlapped>>

\* A message without a session gets a new one.
Free == Sessions \ Existing
SessionOf(c) == IF c.session = NoSession THEN Min(Free) ELSE c.session
Executes(h) ==
    /\ At(h, "act")
    /\ ~Clarifies(call[h]) /\ ~AnsweredByKernel(call[h])
    /\ call[h].session = NoSession => Free # {}

\* Nothing to resume: the call says so.
Decline(h) ==
    /\ Executes(h)
    /\ LET c == [call[h] EXCEPT !.session = SessionOf(call[h])]
       IN  /\ Planned(c).choice = "nothing"
           /\ sessions' = [sessions EXCEPT ![c.session].exists = TRUE]
    /\ Goes(h, Blank)
    /\ UNCHANGED <<directory, sent, named, overlapped>>

Work(h) ==
    /\ Executes(h)
    /\ LET c == [call[h] EXCEPT !.session = SessionOf(call[h])]
           plan == Planned(c)
           d == AfterPause(c, plan)
           e == WorkOn(c.session, plan, d)
       IN  /\ plan.choice # "nothing"
           /\ directory' = Upsert(d, e)
           /\ sessions' = [sessions EXCEPT ![c.session] =
                 [exists |-> TRUE, run |-> TRUE, active |-> e.task,
                  lastPaused |-> IF Pauses(c, plan) THEN d[1].task
                                 ELSE IF plan.choice = "switch" THEN NoTask
                                 ELSE c.link.lastPaused]]
    /\ Goes(h, Blank)
    /\ UNCHANGED <<sent, named, overlapped>>

\* complete_run, by the thinker or the runtime: it touches the task too.
EndRun(s) ==
    /\ sessions[s].run
    /\ sessions' = [sessions EXCEPT ![s].run = FALSE]
    /\ IF Owns(s, sessions[s].active)
       THEN \E status \in Outcomes :
              directory' = Upsert(directory, Row(sessions[s].active, s, status))
       ELSE UNCHANGED directory
    /\ UNCHANGED <<call, sent, named, overlapped>>

Next ==
    \/ \E h \in Handlers :
          \/ ListTasks(h) \/ RouteMessage(h) \/ RouteByModel(h) \/ FindSession(h)
          \/ Classify(h) \/ ClassifyByModel(h) \/ Respond(h) \/ Decline(h) \/ Work(h)
    \/ \E s \in Sessions : EndRun(s)

Spec == Init /\ [][Next]_vars

-----------------------------------------------------------------------------
(* Properties.                                                             *)

Call == [pc : PCs, message : Messages, listed : Seq(GlobalTask), route : Routes,
         session : Sessions \union {NoSession}, link : Links, intent : Intents]

\* Every row and every copy has its type, and the directory has one row per
\* task, although each touch rewrites the row and moves it to the front.
TypeOK ==
    /\ directory \in Seq(GlobalTask)
    /\ \A i, j \in DOMAIN directory : directory[i].task = directory[j].task => i = j
    /\ sessions \in [Sessions -> Links]
    /\ call \in [Handlers -> Call]
    /\ sent \in 0..MaxMessages
    /\ named \in BOOLEAN
    /\ overlapped \in BOOLEAN

\* As long as no caller names a session, a session works only on tasks of
\* its own, whatever the router selects, whoever races and however long the
\* models take: the brief and the rows of a session are those of its tasks.
AtHome ==
    ~named => \A s \in Sessions :
        sessions[s].active # NoTask => Owns(s, sessions[s].active)

\* The task a step puts to work, when it had a row before and is not the
\* one the handler found active.
SwitchesTo(h, task) ==
    /\ At(h, "act") /\ call'[h].pc = "idle"
    /\ task # call[h].link.active
    /\ \E e \in ToSet(directory) : e.task = task
    /\ \E s \in Sessions : sessions'[s].active = task /\ sessions[s] # sessions'[s]

Unrivalled(c, task) ==
    /\ Supports(ScoreOf(c.message, c.listed, task))
    /\ \A e \in ToSet(c.listed) \ {x \in ToSet(c.listed) : x.task = task} :
          Score(c.message, e) + 12 <= ScoreOf(c.message, c.listed, task)

\* Work is only taken from one task to another for a reason the user can
\* see: the message asks to resume, refers to the other, the recent or the
\* queried task, mentions this task and no other as well, or a model chose
\* a task that the message supports or where the rules were at a loss; and
\* never for a message sent as a new task.
RightTask ==
    [][ \A h \in Handlers : \A task \in Tasks : SwitchesTo(h, task) =>
          LET c == call[h]
          IN  /\ c.message.mode # "new_task"
              /\ \/ c.intent = "resume_previous_task"
                 \/ c.message.references \intersect {"other", "recent", "status"} # {}
                 \/ Unrivalled(c, task)
                 \/ /\ c.route.source = "model"
                    /\ \/ Backed(c.message, c.listed, task)
                       \/ Route(c.message, c.listed).decision = "ask_clarification" ]_vars
=============================================================================
