--------------------------- MODULE Routing_proofs ---------------------------
(* Proofs about Routing for any number of handlers, sessions and messages, *)
(* any messages, any answers of the models and any limit of the list.      *)
EXTENDS Routing, SequenceTheorems, FiniteSetTheorems, TLAPS

-----------------------------------------------------------------------------
(* The invariant.                                                          *)

(* A list of tasks has one row for each.                                   *)
Rows(d) == d \in Seq(GlobalTask) /\ \A i, j \in DOMAIN d : d[i].task = d[j].task => i = j
Has(d, task) == \E i \in DOMAIN d : d[i].task = task

(* The tasks are numbered as they are created, and there is room for the   *)
(* two that each message under way may still create.                       *)
Busy == {h \in Handlers : ~At(h, "idle")}
Numbered(d) == \A i \in DOMAIN d : d[i].task <= Len(d)
Room == IsFiniteSet(Busy) /\ Len(directory) + 2 * Cardinality(Busy) <= 2 * sent

(* Why the router may have selected a task.                                *)
Mentioned(m, listed, task) ==
    /\ Supports(ScoreOf(m, listed, task))
    /\ \A e \in ToSet(listed) \ {x \in ToSet(listed) : x.task = task} :
          Score(m, e) + 12 <= ScoreOf(m, listed, task)
RuleReason(m, listed, task) ==
    m.references \intersect {"other", "recent", "status"} # {} \/ Mentioned(m, listed, task)
Reason(m, listed, r) ==
    \/ RuleReason(m, listed, r.target)
    \/ /\ r.source = "model"
       /\ \/ Backed(m, listed, r.target)
          \/ Route(m, listed).decision = "ask_clarification"

(* What a handler holds: a list of rows that are still there, in the same  *)
(* session, a selected task of that list, and then its session.            *)
Listing(c) ==
    /\ Rows(c.listed)
    /\ \A i \in DOMAIN c.listed : Owns(c.listed[i].home, c.listed[i].task)
Routed(c) ==
    c.route.target # NoTask /\ c.pc \in {"find", "classify", "act"} =>
        /\ Has(c.listed, c.route.target)
        /\ Reason(c.message, c.listed, c.route)
Found(c) ==
    ~named /\ c.pc # "idle" =>
        /\ c.message.target = NoSession
        /\ c.pc \in {"classify", "act"} /\ c.route.target # NoTask => Owns(c.session, c.route.target)
Intended(c) == c.pc = "act" /\ c.message.mode = "new_task" => c.intent = "new_task"
CallFits(c) == c \in Call /\ Listing(c) /\ Routed(c) /\ Found(c) /\ Intended(c)

Typed ==
    /\ Rows(directory) /\ Numbered(directory)
    /\ sessions \in [Sessions -> Links]
    /\ \A s \in Sessions : ~sessions[s].exists => sessions[s].active = NoTask
    /\ call \in [Handlers -> Call]
    /\ sent \in 0..MaxMessages /\ named \in BOOLEAN /\ overlapped \in BOOLEAN

IInv ==
    /\ Typed
    /\ Room
    /\ AtHome
    /\ \A h \in Handlers : CallFits(call[h])
-----------------------------------------------------------------------------
(* Numbers.                                                                *)

(* There is a least one of numbers that are not empty.                     *)
LEMMA MinOf ==
    ASSUME NEW S \in SUBSET Nat, S # {}
    PROVE  Min(S) \in S /\ \A i \in S : Min(S) <= i
<1>1. PICK n \in S : TRUE
  OBVIOUS
<1> DEFINE R == StrictSubsetOrdering(0..n)
           T == {0..i : i \in S \intersect 0..n}
<1>2. IsFiniteSet(0..n) /\ FiniteSubsetsOf(0..n) = SUBSET (0..n)
  <2>1. IsFiniteSet(0..n)
    BY FS_Interval
  <2>2. QED
    BY <2>1, FS_FiniteSubsetsOfFinite
<1>3. IsWellFoundedOn(R, FiniteSubsetsOf(0..n))
  BY FS_StrictSubsetOrderingWellFounded
<1>4. T \subseteq SUBSET (0..n) /\ T # {}
  <2>1. n \in S \intersect 0..n
    BY <1>1
  <2>2. 0..n \in T
    BY <2>1
  <2>3. \A j \in S \intersect 0..n : 0..j \subseteq 0..n
    OBVIOUS
  <2>4. QED
    BY <2>2, <2>3
<1>5. \E X \in T : \A Y \in T : ~(<<Y, X>> \in R)
  <2>1. T \subseteq FiniteSubsetsOf(0..n)
    BY <1>2, <1>4
  <2> HIDE DEF R, T
  <2>2. QED
    BY <1>3, <1>4, <2>1, WFMin
<1>6. PICK m \in S \intersect 0..n : \A i \in S \intersect 0..n : ~(<<0..i, 0..m>> \in R)
  BY <1>5
<1>7. ASSUME NEW i \in S, i < m PROVE FALSE
  <2>1. /\ 0..i \subseteq 0..m /\ m \notin 0..i /\ m \in 0..m /\ i \in 0..n
        /\ 0..i \in SUBSET (0..n) /\ 0..m \in SUBSET (0..n)
    BY <1>7
  <2>2. <<0..i, 0..m>> \in R
    BY <2>1 DEF StrictSubsetOrdering
  <2>3. QED
    BY <1>6, <2>1, <2>2
<1>8. m \in S /\ \A i \in S : m <= i
  BY <1>7
<1>9. QED
  BY <1>8 DEF Min

(* And a greatest one of numbers with a bound.                             *)
LEMMA MaxOf ==
    ASSUME NEW n \in Nat, NEW S \in SUBSET (0..n), S # {}
    PROVE  \E m \in S : \A i \in S : i <= m
<1> DEFINE T == {n - i : i \in S}
<1>1. T \in SUBSET Nat /\ T # {}
  <2>1. \A i \in S : n - i \in Nat
    OBVIOUS
  <2>2. QED
    BY <2>1
<1>2. Min(T) \in T /\ \A j \in T : Min(T) <= j
  <2> HIDE DEF T
  <2>1. QED
    BY <1>1, MinOf
<1>3. PICK m \in S : Min(T) = n - m
  BY <1>2
<1>4. \A i \in S : n - m <= n - i
  BY <1>2, <1>3
<1>5. QED
  BY <1>4

LEMMA MinOfTwo ==
    ASSUME NEW a \in Nat, NEW b \in Nat
    PROVE  Min({a, b}) \in Nat /\ Min({a, b}) <= a /\ Min({a, b}) <= b
BY MinOf

-----------------------------------------------------------------------------
(* The rules of the router.                                                *)

LEMMA ScoreFits ==
    ASSUME NEW m \in Message, NEW e \in GlobalTask
    PROVE  Score(m, e) \in 0..100
<1> DEFINE n == m.mention[e.task]
           overlap == Min({45, 12 * n.overlap})
           total == 35 * n.hints + 40 * n.names + overlap
                      + (IF e.status \in Open THEN 5 ELSE 0)
                      + (IF n # NoMention THEN 10 ELSE 0)
<1>1. n \in Mention
  BY DEF Message, GlobalTask
<1>2. n.hints \in Nat /\ n.names \in Nat /\ n.overlap \in Nat
  BY <1>1 DEF Mention
<1>3. overlap \in Nat
  BY <1>2, MinOfTwo
<1> HIDE DEF overlap
<1>4. total \in Nat
  BY <1>2, <1>3
<1>5. Score(m, e) = Min({100, total})
  BY DEF Score, overlap
<1> HIDE DEF total
<1>6. PICK a \in Nat : a = 100
  OBVIOUS
<1>7. Min({a, total}) \in Nat /\ Min({a, total}) <= a
  BY <1>4, MinOfTwo
<1>8. QED
  BY <1>5, <1>6, <1>7

(* Among listed tasks there is a best one.                                 *)
LEMMA BestListed ==
    ASSUME NEW m \in Message, NEW listed \in Seq(GlobalTask), listed # <<>>
    PROVE  Best(m, listed) \in DOMAIN listed
<1> DEFINE Scored(i) == Score(m, listed[i])
           Scores == {Scored(i) : i \in DOMAIN listed}
<1>1. DOMAIN listed = 1..Len(listed) /\ 1 \in DOMAIN listed /\ Len(listed) \in Nat
  OBVIOUS
<1>2. \A i \in DOMAIN listed : Scored(i) \in 0..100
  <2>1. \A i \in DOMAIN listed : listed[i] \in GlobalTask
    OBVIOUS
  <2>2. QED
    BY <2>1, ScoreFits
<1> HIDE DEF Scored
<1>3. Scores \in SUBSET (0..100) /\ Scores # {}
  BY <1>1, <1>2
<1>4. PICK top \in Scores : \A x \in Scores : x <= top
  <2> HIDE DEF Scores
  <2>1. QED
    BY <1>3, MaxOf
<1> DEFINE Top == {i \in DOMAIN listed : Scored(i) = top}
<1>5. Top \in SUBSET Nat /\ Top # {}
  BY <1>1, <1>4
<1>6. PICK b \in Top : \A i \in Top : b <= i
  <2> HIDE DEF Top
  <2>1. QED
    BY <1>5, MinOf
<1>6a. b \in DOMAIN listed /\ Scored(b) = top
  OBVIOUS
<1>6b. \A i \in DOMAIN listed : Scored(i) \in Int
  <2>1. 0..100 \subseteq Int
    OBVIOUS
  <2>2. QED
    BY <1>2, <2>1, Zenon
<1>7. ASSUME NEW i \in DOMAIN listed \ {b}
      PROVE  Scored(b) > Scored(i) \/ (Scored(b) = Scored(i) /\ b < i)
  <2>1. Scored(i) <= top /\ b \in Nat /\ i \in Nat /\ i # b
    BY <1>1, <1>4, <1>6a
  <2>2. Scored(i) \in Int /\ top \in Int
    BY <1>6a, <1>6b
  <2>3. CASE Scored(i) = top
    BY <1>6, <1>6a, <2>1, <2>3
  <2>4. CASE Scored(i) # top
    BY <1>6a, <2>1, <2>2, <2>4
  <2>5. QED
    BY <2>3, <2>4
<1>8. \A i \in DOMAIN listed \ {b} : Outranks(m, listed, b, i)
  BY <1>7 DEF Scored, Outranks
<1>9. QED
  BY <1>8 DEF Best

LEMMA OtherListed ==
    ASSUME NEW m \in Message, NEW listed \in Seq(GlobalTask), Len(listed) > 1
    PROVE  OtherTask(m, listed) \in DOMAIN listed
<1>1. PICK c : OtherTask(m, listed) = Min(DOMAIN listed \ {c})
  BY DEF OtherTask
<1>2. DOMAIN listed \ {c} \in SUBSET Nat /\ 1 \in DOMAIN listed /\ 2 \in DOMAIN listed
  OBVIOUS
<1>3. DOMAIN listed \ {c} # {}
  BY <1>2
<1>4. QED
  BY <1>1, <1>2, <1>3, MinOf
\* A route to a listed task, for a reason.
Fits(m, listed, r) ==
    /\ r \in [decision : Decisions, target : TaskIds, confidence : Nat, source : {"rule", "model"}]
    /\ r.target # NoTask => Has(listed, r.target) /\ Reason(m, listed, r)

\* Each task of a list has one row.
LEMMA OwnRow ==
    ASSUME NEW d, Rows(d), NEW i \in DOMAIN d
    PROVE  RowAt(d, d[i].task) = i
BY DEF Rows, RowAt

LEMMA ClearMentions ==
    ASSUME NEW m \in Message, NEW listed, Rows(listed), listed # <<>>, Clear(m, listed)
    PROVE  Mentioned(m, listed, listed[Best(m, listed)].task)
<1> DEFINE b == Best(m, listed)
           s(i) == Score(m, listed[i])
<1>1. listed \in Seq(GlobalTask) /\ b \in DOMAIN listed
  BY BestListed DEF Rows
<1>2. \A i \in DOMAIN listed : s(i) \in Int
  <2>1. \A i \in DOMAIN listed : listed[i] \in GlobalTask
    BY <1>1
  <2>2. \A i \in DOMAIN listed : s(i) \in 0..100
    BY <2>1, ScoreFits
  <2>3. 0..100 \subseteq Int
    OBVIOUS
  <2>4. QED
    BY <2>2, <2>3, Zenon
<1>3. RowAt(listed, listed[b].task) = b
  BY <1>1, OwnRow
<1>4. ScoreOf(m, listed, listed[b].task) = s(b)
  BY <1>3 DEF ScoreOf
<1>5. Supports(s(b)) /\ \A j \in DOMAIN listed \ {b} : s(b) > s(j) + 12 \/ s(b) = s(j) + 12
  BY DEF Clear
<1>6. ASSUME NEW e \in ToSet(listed) \ {x \in ToSet(listed) : x.task = listed[b].task}
      PROVE  Score(m, e) + 12 <= s(b)
  <2>1. PICK j \in DOMAIN listed : e = listed[j]
    BY DEF ToSet
  <2>2. j # b
    BY <2>1
  <2> HIDE DEF b
  <2>3. Score(m, e) = s(j)
    BY <2>1
  <2> HIDE DEF s
  <2>4. s(j) \in Int /\ s(b) \in Int /\ (s(b) > s(j) + 12 \/ s(b) = s(j) + 12)
    BY <1>1, <1>2, <1>5, <2>1, <2>2
  <2>5. s(j) + 12 <= s(b)
    BY <2>4
  <2>6. QED
    BY <2>3, <2>5
<1>7. QED
  BY <1>4, <1>5, <1>6 DEF Mentioned

\* Only one task is active.
LEMMA OneActive ==
    ASSUME NEW listed \in Seq(GlobalTask), Cardinality(Active(listed)) = 1
    PROVE  (CHOOSE i \in Active(listed) : TRUE) \in DOMAIN listed
<1>1. Cardinality({}) = 0
  BY FS_EmptySet
<1>2. Active(listed) # {}
  BY <1>1, 0 # 1
<1>3. QED
  BY <1>2 DEF Active

\* To select a listed task for a reason of the rules is to fit.
LEMMA SelectFits ==
    ASSUME NEW m, NEW listed \in Seq(GlobalTask), NEW i \in DOMAIN listed, NEW n \in Nat,
           RuleReason(m, listed, listed[i].task)
    PROVE  Fits(m, listed, Select(listed, i, n))
<1>1. listed[i].task \in Tasks
  <2>1. listed[i] \in GlobalTask
    OBVIOUS
  <2>2. QED
    BY <2>1 DEF GlobalTask
<1>2. Has(listed, listed[i].task)
  BY DEF Has
<1>3. Select(listed, i, n).target = listed[i].task
  BY DEF Select
<1>4. Select(listed, i, n) \in [decision : Decisions, target : TaskIds, confidence : Nat,
                                source : {"rule", "model"}]
  BY <1>1 DEF Select, Decisions, TaskIds
<1>5. QED
  BY <1>2, <1>3, <1>4 DEF Fits, Reason

LEMMA OthersFit ==
    ASSUME NEW m, NEW listed
    PROVE  /\ \A n \in Nat : Fits(m, listed, CreateNew(n))
           /\ Fits(m, listed, Clarify)
BY DEF Fits, CreateNew, Clarify, NoRoute, NoTask, TaskIds, Decisions

LEMMA RankedRulesFit ==
    ASSUME NEW m \in Message, NEW listed, Rows(listed), listed # <<>>
    PROVE  /\ DOMAIN RankedRules(m, listed) = 1..10
           /\ RankedRules(m, listed)[10].applies
           /\ \A i \in 1..10 : RankedRules(m, listed)[i].applies =>
                 Fits(m, listed, RankedRules(m, listed)[i].route)
<1> DEFINE R == RankedRules(m, listed)
           best == Best(m, listed)
           score == Score(m, listed[best])
           many == Len(listed) > 1
           refers(r) == r \in m.references
           one == Cardinality(Active(listed)) = 1
<1>1. listed \in Seq(GlobalTask) /\ best \in DOMAIN listed /\ 1 \in DOMAIN listed
  BY BestListed DEF Rows
<1>2. score \in Nat
  <2>1. listed[best] \in GlobalTask
    BY <1>1
  <2>2. 0..100 \subseteq Nat
    OBVIOUS
  <2>3. QED
    BY <2>1, <2>2, ScoreFits, Zenon
<1>3. \A r \in {"other", "status", "recent"} : \A t : refers(r) => RuleReason(m, listed, t)
  BY DEF RuleReason
<1>4. Clear(m, listed) => RuleReason(m, listed, listed[best].task)
  BY ClearMentions DEF RuleReason
<1>5. one => (CHOOSE i \in Active(listed) : TRUE) \in DOMAIN listed
  BY <1>1, OneActive
<1>6. many => OtherTask(m, listed) \in DOMAIN listed
  BY <1>1, OtherListed
<1>7. \A i \in DOMAIN listed, n \in Nat :
         RuleReason(m, listed, listed[i].task) => Fits(m, listed, Select(listed, i, n))
  BY <1>1, SelectFits
<1>8. (\A n \in Nat : Fits(m, listed, CreateNew(n))) /\ Fits(m, listed, Clarify)
  BY OthersFit
<1>9. R = << [applies |-> refers("work") /\ score < 70, route |-> CreateNew(76)],
             [applies |-> refers("ambiguous") /\ many /\ ~Supports(score), route |-> Clarify],
             [applies |-> refers("other") /\ many,
              route |-> IF many THEN Select(listed, OtherTask(m, listed), 72) ELSE NoRoute],
             [applies |-> refers("status") /\ Clear(m, listed), route |-> Select(listed, best, score)],
             [applies |-> refers("status") /\ one,
              route |-> IF one THEN Select(listed, CHOOSE i \in Active(listed) : TRUE, 82) ELSE NoRoute],
             [applies |-> refers("status") /\ ~many, route |-> Select(listed, 1, 74)],
             [applies |-> refers("recent"), route |-> Select(listed, best, 78)],
             [applies |-> Clear(m, listed), route |-> Select(listed, best, score)],
             [applies |-> many, route |-> Clarify],
             [applies |-> TRUE, route |-> CreateNew(65)] >>
  BY DEF RankedRules
<1> HIDE DEF R, best, score, many, refers, one
<1>10. DOMAIN R = 1..10 /\ R[10].applies
  BY <1>9
<1>11. R[1].applies => Fits(m, listed, R[1].route)
  BY <1>8, <1>9
<1>12. R[2].applies => Fits(m, listed, R[2].route)
  BY <1>8, <1>9
<1>13. R[3].applies => Fits(m, listed, R[3].route)
  BY <1>3, <1>6, <1>7, <1>9
<1>14. R[4].applies => Fits(m, listed, R[4].route)
  BY <1>1, <1>2, <1>3, <1>7, <1>9
<1>15. R[5].applies => Fits(m, listed, R[5].route)
  BY <1>3, <1>5, <1>7, <1>9
<1>16. R[6].applies => Fits(m, listed, R[6].route)
  BY <1>1, <1>3, <1>7, <1>9
<1>17. R[7].applies => Fits(m, listed, R[7].route)
  BY <1>1, <1>3, <1>7, <1>9
<1>18. R[8].applies => Fits(m, listed, R[8].route)
  BY <1>1, <1>2, <1>4, <1>7, <1>9
<1>19. R[9].applies => Fits(m, listed, R[9].route)
  BY <1>8, <1>9
<1>20. R[10].applies => Fits(m, listed, R[10].route)
  BY <1>8, <1>9
<1>21. \A i \in 1..10 : i \in {1, 2, 3, 4, 5, 6, 7, 8, 9, 10}
  OBVIOUS
<1>22. \A i \in 1..10 : R[i].applies => Fits(m, listed, R[i].route)
  BY <1>11, <1>12, <1>13, <1>14, <1>15, <1>16, <1>17, <1>18, <1>19, <1>20, <1>21
<1>23. QED
  BY <1>10, <1>22 DEF R

\* What the rules decide: the first that applies.
LEMMA RuleRoute ==
    ASSUME NEW m \in Message, NEW listed, Rows(listed)
    PROVE  Fits(m, listed, Route(m, listed))
<1>1. CASE "new" \in m.references
  BY <1>1, OthersFit DEF Route
<1>2. CASE "new" \notin m.references /\ listed = <<>>
  BY <1>2, OthersFit DEF Route
<1>3. CASE "new" \notin m.references /\ listed # <<>>
  <2> DEFINE R == RankedRules(m, listed)
             Applying == {i \in 1..10 : R[i].applies}
  <2>1. DOMAIN R = 1..10 /\ R[10].applies
        /\ \A i \in 1..10 : R[i].applies => Fits(m, listed, R[i].route)
    BY <1>3, RankedRulesFit
  <2> HIDE DEF R
  <2>2. Applying \in SUBSET Nat /\ Applying # {}
    <3>1. 10 \in 1..10
      OBVIOUS
    <3>2. QED
      BY <2>1, <3>1
  <2>3. PICK k \in Applying : \A i \in Applying : k <= i
    <3> HIDE DEF Applying
    <3>1. QED
      BY <2>2, MinOf
  <2>4. \E i \in DOMAIN R : R[i].applies /\ \A j \in 1..(i - 1) : ~R[j].applies
    <3>1. k \in 1..10 /\ R[k].applies
      OBVIOUS
    <3>2. ASSUME NEW j \in 1..(k - 1), R[j].applies PROVE FALSE
      <4>1. j \in 1..10 /\ j < k
        BY <3>1
      <4>2. QED
        BY <2>3, <3>2, <4>1
    <3>3. QED
      BY <2>1, <3>1, <3>2
  <2>5. Route(m, listed) =
           R[CHOOSE i \in DOMAIN R : R[i].applies /\ \A j \in 1..(i - 1) : ~R[j].applies].route
    BY <1>3 DEF Route, R
  <2>6. PICK i \in DOMAIN R : R[i].applies /\ Route(m, listed) = R[i].route
    BY <2>4, <2>5
  <2>7. QED
    BY <2>1, <2>6
<1>4. QED
  BY <1>1, <1>2, <1>3
\* What a model may overrule them with.
LEMMA ModelRoute ==
    ASSUME NEW m \in Message, NEW listed, Rows(listed), NEW r \in Answers(m, listed),
           Accepted(m, listed, Route(m, listed), r)
    PROVE  Fits(m, listed, r)
<1>1. /\ r \in [decision : Decisions, target : Candidates(m, listed) \union {NoTask},
                confidence : Confidences, source : {"model"}]
      /\ (r.decision = "select_existing") <=> (r.target # NoTask)
  BY DEF Answers
<1>2. \A t \in Candidates(m, listed) : t \in Tasks /\ Has(listed, t)
  <2>1. \A t \in Candidates(m, listed) : \E i \in DOMAIN listed : t = listed[i].task
    BY DEF Candidates
  <2>2. \A i \in DOMAIN listed : listed[i] \in GlobalTask
    BY DEF Rows
  <2>3. QED
    BY <2>1, <2>2 DEF GlobalTask, Has
<1>3. r \in [decision : Decisions, target : TaskIds, confidence : Nat, source : {"rule", "model"}]
  <2>1. r.target \in Candidates(m, listed) \union {NoTask} /\ r.confidence \in Confidences
    BY <1>1
  <2>2. r.target \in TaskIds
    BY <1>2, <2>1, Zenon DEF TaskIds
  <2>3. 0..100 \subseteq Nat
    OBVIOUS
  <2>4. r.confidence \in Nat
    BY <2>1, <2>3, ConfidenceAssumption, Zenon
  <2> HIDE DEF TaskIds
  <2>5. QED
    BY <1>1, <2>2, <2>4
<1>4. ASSUME r.target # NoTask PROVE Has(listed, r.target) /\ Reason(m, listed, r)
  <2>1. Has(listed, r.target) /\ r.source = "model" /\ r.decision = "select_existing"
    BY <1>1, <1>2, <1>4
  <2> DEFINE rule == Route(m, listed)
  <2>2. Fits(m, listed, rule)
    BY RuleRoute
  <2> HIDE DEF rule
  <2>3. \/ r.target = rule.target
        \/ Backed(m, listed, r.target)
        \/ rule.decision = "ask_clarification"
    BY <2>1 DEF Accepted, rule
  <2>4. CASE r.target = rule.target
    <3>1. Reason(m, listed, rule)
      BY <1>4, <2>2, <2>4 DEF Fits
    <3>2. QED
      BY <2>1, <2>4, <3>1 DEF Reason
  <2>5. CASE Backed(m, listed, r.target) \/ rule.decision = "ask_clarification"
    BY <2>1, <2>5 DEF Reason, rule
  <2>6. QED
    BY <2>1, <2>3, <2>4, <2>5
<1>5. QED
  BY <1>3, <1>4 DEF Fits

LEMMA KeptFits ==
    ASSUME NEW m, NEW listed, NEW r, Fits(m, listed, r)
    PROVE  /\ Kept(r) \in Routes
           /\ Kept(r).target # NoTask =>
                 Has(listed, Kept(r).target) /\ Reason(m, listed, Kept(r))
<1>1. r \in [decision : Decisions, target : TaskIds, confidence : Nat, source : {"rule", "model"}]
  BY DEF Fits
<1>2. Kept(r) \in Routes /\ Kept(r).target = r.target /\ Kept(r).source = r.source
  BY <1>1 DEF Kept, Routes
<1>3. QED
  BY <1>2 DEF Fits, Reason

-----------------------------------------------------------------------------
(* The rows a plan touches.                                                *)

\* A row as it is written: of a task that is there, at home, or of the next.
Placed(d, e) ==
    /\ e \in GlobalTask
    /\ (\E x \in ToSet(d) : x.task = e.task /\ x.home = e.home) \/ e.task = Len(d) + 1

\* No task is lost and none moves.
Stay(d, u) == \A x \in ToSet(d) : \E y \in ToSet(u) : y.task = x.task /\ y.home = x.home

LEMMA WithoutRow ==
    ASSUME NEW d \in Seq(GlobalTask), NEW k \in DOMAIN d
    PROVE  /\ RemoveAt(d, k) \in Seq(GlobalTask)
           /\ Len(RemoveAt(d, k)) = Len(d) - 1
           /\ \A j \in 1..(Len(d) - 1) : RemoveAt(d, k)[j] = d[IF j < k THEN j ELSE j + 1]
<1> DEFINE a == SubSeq(d, 1, k - 1)
           b == SubSeq(d, k + 1, Len(d))
<1>1. Len(d) \in Nat /\ \A j \in 1..Len(d) : d[j] \in GlobalTask
  OBVIOUS
<1> PICK n \in Nat : n = Len(d)
  BY <1>1
<1>2. k \in 1..n /\ k \in Int /\ 1 <= k /\ k <= n
  OBVIOUS
<1>3. a \in Seq(GlobalTask) /\ Len(a) = k - 1 /\ \A j \in 1..(k - 1) : a[j] = d[j]
  BY <1>1, <1>2
<1>4. /\ b \in Seq(GlobalTask) /\ Len(b) = n - k
      /\ \A j \in 1..(n - k) : b[j] = d[k + j]
  BY <1>1, <1>2
<1>5. RemoveAt(d, k) = a \o b
  BY DEF RemoveAt
<1> HIDE DEF a, b
<1>6. /\ a \o b \in Seq(GlobalTask) /\ Len(a \o b) = n - 1
      /\ \A j \in 1..(n - 1) : (a \o b)[j] = IF j <= k - 1 THEN a[j] ELSE b[j - (k - 1)]
  <2>1. /\ a \o b \in Seq(GlobalTask) /\ Len(a \o b) = Len(a) + Len(b)
        /\ \A j \in 1..(Len(a) + Len(b)) :
              (a \o b)[j] = IF j <= Len(a) THEN a[j] ELSE b[j - Len(a)]
    BY <1>3, <1>4, ConcatProperties
  <2>2. Len(a) + Len(b) = n - 1
    BY <1>2, <1>3, <1>4
  <2>3. QED
    BY <1>3, <2>1, <2>2
<1>7. ASSUME NEW j \in 1..(n - 1) PROVE (a \o b)[j] = d[IF j < k THEN j ELSE j + 1]
  <2>1. j \in Int /\ 1 <= j /\ j <= n - 1
    BY <1>7
  <2>2. CASE j < k
    BY <1>2, <1>3, <1>6, <2>1, <2>2
  <2>3. CASE ~(j < k)
    <3>1. j - (k - 1) \in 1..(n - k) /\ ~(j <= k - 1) /\ k + (j - (k - 1)) = j + 1
      BY <1>2, <2>1, <2>3
    <3>2. (a \o b)[j] = b[j - (k - 1)]
      BY <1>6, <1>7, <3>1
    <3>3. b[j - (k - 1)] = d[j + 1]
      BY <1>4, <3>1
    <3>4. QED
      BY <2>3, <3>2, <3>3
  <2>4. QED
    BY <2>2, <2>3
<1>8. QED
  BY <1>5, <1>6, <1>7

LEMMA InFront ==
    ASSUME NEW d \in Seq(GlobalTask), NEW e \in GlobalTask
    PROVE  /\ <<e>> \o d \in Seq(GlobalTask)
           /\ Len(<<e>> \o d) = Len(d) + 1
           /\ (<<e>> \o d)[1] = e
           /\ \A j \in 1..Len(d) : (<<e>> \o d)[j + 1] = d[j]
OBVIOUS

LEMMA TouchedRow ==
    ASSUME NEW d, Rows(d), Numbered(d), NEW e, Placed(d, e), Has(d, e.task)
    PROVE  /\ Rows(Upsert(d, e)) /\ Numbered(Upsert(d, e)) /\ Stay(d, Upsert(d, e))
           /\ Upsert(d, e)[1] = e /\ 1 \in DOMAIN Upsert(d, e)
           /\ Len(Upsert(d, e)) = Len(d)
<1> DEFINE k == RowAt(d, e.task)
           r == RemoveAt(d, k)
           u == <<e>> \o r
<1>1. e \in GlobalTask /\ d \in Seq(GlobalTask) /\ Len(d) \in Nat /\ DOMAIN d = 1..Len(d)
  BY DEF Placed, Rows
<1>2. k \in DOMAIN d /\ d[k].task = e.task
  BY DEF Has, RowAt
<1>3. \A i \in DOMAIN d : d[i].task = e.task => i = k
  BY <1>2 DEF Rows
<1>4. d[k].home = e.home
  <2>1. e.task # Len(d) + 1
    <3>1. d[k].task \in Int
      <4>1. d[k] \in GlobalTask
        BY <1>1, <1>2
      <4>2. QED
        BY <4>1 DEF GlobalTask, Tasks
    <3>2. d[k].task <= Len(d)
      BY <1>2 DEF Numbered
    <3>3. QED
      BY <1>1, <1>2, <3>1, <3>2
  <2>2. PICK x \in ToSet(d) : x.task = e.task /\ x.home = e.home
    BY <2>1 DEF Placed
  <2>3. PICK i \in DOMAIN d : x = d[i]
    BY DEF ToSet
  <2>4. QED
    BY <1>3, <2>2, <2>3
<1>5. Upsert(d, e) = u
  BY DEF Upsert, Has
<1> HIDE DEF k
<1> PICK n \in Nat : n = Len(d)
  BY <1>1
<1>6. r \in Seq(GlobalTask) /\ Len(r) = n - 1
      /\ \A j \in 1..(n - 1) : r[j] = d[IF j < k THEN j ELSE j + 1]
  BY <1>1, <1>2, WithoutRow
<1>7. k \in Int /\ 1 <= k /\ k <= n
  BY <1>1, <1>2
<1> HIDE DEF r
<1>8. /\ u \in Seq(GlobalTask) /\ Len(u) = n /\ u[1] = e
      /\ \A j \in 1..(n - 1) : u[j + 1] = r[j]
  <2>1. n - 1 \in Nat /\ (n - 1) + 1 = n
    BY <1>7
  <2>2. /\ u \in Seq(GlobalTask) /\ Len(u) = Len(r) + 1 /\ u[1] = e
        /\ \A j \in 1..Len(r) : u[j + 1] = r[j]
    BY <1>1, <1>6, InFront
  <2>3. QED
    BY <1>6, <2>1, <2>2
<1> HIDE DEF u
<1>9. \A j \in 2..n : u[j] = d[IF j <= k THEN j - 1 ELSE j]
  <2> SUFFICES ASSUME NEW j \in 2..n PROVE u[j] = d[IF j <= k THEN j - 1 ELSE j]
    OBVIOUS
  <2>0. j \in Int /\ 2 <= j /\ j <= n
    OBVIOUS
  <2>1. j - 1 \in 1..(n - 1) /\ (j - 1) + 1 = j /\ (j - 1 < k <=> j <= k)
    BY <1>7, <2>0
  <2>2. u[j] = r[j - 1]
    BY <1>8, <2>1
  <2>3. r[j - 1] = d[IF j - 1 < k THEN j - 1 ELSE (j - 1) + 1]
    BY <1>6, <2>1
  <2>4. QED
    BY <2>1, <2>2, <2>3
<1>10. DOMAIN u = 1..n /\ 1 \in 1..n
  BY <1>7, <1>8
<1>11. \A j \in 2..n : /\ (IF j <= k THEN j - 1 ELSE j) \in DOMAIN d
                       /\ (IF j <= k THEN j - 1 ELSE j) # k
  BY <1>1, <1>7
<1>12. ASSUME NEW i \in DOMAIN u, NEW j \in DOMAIN u, u[i].task = u[j].task
       PROVE  i = j
  <2>1. \A g \in 2..n : u[g].task # u[1].task
    BY <1>3, <1>8, <1>9, <1>11
  <2>2. \A g \in 1..n : g = 1 \/ g \in 2..n
    OBVIOUS
  <2>3. CASE i \in 2..n /\ j \in 2..n
    <3>1. (IF i <= k THEN i - 1 ELSE i) = (IF j <= k THEN j - 1 ELSE j)
      BY <1>9, <1>11, <1>12, <2>3 DEF Rows
    <3>2. i \in Int /\ j \in Int
      BY <2>3
    <3>3. QED
      BY <1>7, <3>1, <3>2
  <2>4. QED
    BY <1>10, <1>12, <2>1, <2>2, <2>3
<1>13. \A i \in DOMAIN u : u[i].task <= n
  <2>1. \A i \in DOMAIN d : d[i].task <= n
    BY DEF Numbered
  <2>2. \A g \in 1..n : g = 1 \/ g \in 2..n
    OBVIOUS
  <2>3. u[1].task <= n
    BY <1>2, <1>8, <2>1
  <2>4. QED
    BY <1>9, <1>10, <1>11, <2>1, <2>2, <2>3
<1>14. Stay(d, u)
  <2> SUFFICES ASSUME NEW x \in ToSet(d)
               PROVE  \E y \in ToSet(u) : y.task = x.task /\ y.home = x.home
    BY DEF Stay
  <2>1. PICK i \in DOMAIN d : x = d[i]
    BY DEF ToSet
  <2>2. \A j \in DOMAIN u : u[j] \in ToSet(u)
    BY DEF ToSet
  <2>3. i \in Int /\ 1 <= i /\ i <= n
    BY <1>1
  <2>4. CASE i = k
    BY <1>2, <1>4, <1>8, <1>10, <2>1, <2>2, <2>4
  <2>5. CASE i < k
    <3>1. i + 1 \in 2..n /\ i + 1 \in 1..n /\ i + 1 <= k /\ (i + 1) - 1 = i
      BY <1>7, <2>3, <2>5
    <3>2. u[i + 1] = d[i]
      BY <1>9, <3>1
    <3>3. QED
      BY <1>10, <2>1, <2>2, <3>1, <3>2
  <2>6. CASE i > k
    <3>1. i \in 2..n /\ i \in 1..n /\ ~(i <= k)
      BY <1>7, <2>3, <2>6
    <3>2. u[i] = d[i]
      BY <1>9, <3>1
    <3>3. QED
      BY <1>10, <2>1, <2>2, <3>1, <3>2
  <2>7. QED
    BY <1>7, <2>3, <2>4, <2>5, <2>6
<1>15. Rows(u) /\ Numbered(u)
  BY <1>8, <1>12, <1>13 DEF Rows, Numbered
<1>16. QED
  BY <1>5, <1>8, <1>10, <1>14, <1>15

LEMMA NewRow ==
    ASSUME NEW d, Rows(d), Numbered(d), NEW e, Placed(d, e), ~Has(d, e.task)
    PROVE  /\ Rows(Upsert(d, e)) /\ Numbered(Upsert(d, e)) /\ Stay(d, Upsert(d, e))
           /\ Upsert(d, e)[1] = e /\ 1 \in DOMAIN Upsert(d, e)
           /\ Len(Upsert(d, e)) = Len(d) + 1
<1> DEFINE u == <<e>> \o d
<1>1. e \in GlobalTask /\ d \in Seq(GlobalTask) /\ Len(d) \in Nat /\ DOMAIN d = 1..Len(d)
  BY DEF Placed, Rows
<1>2. Upsert(d, e) = u
  BY DEF Upsert, Has
<1>3. e.task = Len(d) + 1
  <2>1. \A x \in ToSet(d) : x.task # e.task
    BY DEF Has, ToSet
  <2>2. QED
    BY <2>1 DEF Placed
<1> PICK n \in Nat : n = Len(d)
  BY <1>1
<1>4. /\ u \in Seq(GlobalTask) /\ Len(u) = n + 1 /\ u[1] = e
      /\ \A j \in 1..n : u[j + 1] = d[j]
  BY <1>1, InFront
<1> HIDE DEF u
<1>5. DOMAIN u = 1..(n + 1) /\ 1 \in 1..(n + 1)
  BY <1>4
<1>6. \A j \in 1..(n + 1) : j = 1 \/ (j - 1 \in 1..n /\ u[j] = d[j - 1])
  <2> SUFFICES ASSUME NEW j \in 1..(n + 1), j # 1 PROVE j - 1 \in 1..n /\ u[j] = d[j - 1]
    OBVIOUS
  <2>1. j \in Int /\ 1 <= j /\ j <= n + 1
    OBVIOUS
  <2>2. j - 1 \in 1..n /\ (j - 1) + 1 = j
    BY <2>1
  <2>3. QED
    BY <1>4, <2>2
<1>7. \A i \in 1..n : d[i].task \in Int /\ d[i].task <= n
  <2>1. \A i \in 1..n : d[i] \in GlobalTask
    BY <1>1
  <2>2. QED
    BY <1>1, <2>1 DEF GlobalTask, Tasks, Numbered
<1>8. ASSUME NEW i \in DOMAIN u, NEW j \in DOMAIN u, u[i].task = u[j].task
      PROVE  i = j
  <2>1. \A g \in 1..n : d[g].task # u[1].task
    BY <1>3, <1>4, <1>7
  <2>2. CASE i - 1 \in 1..n /\ u[i] = d[i - 1] /\ j - 1 \in 1..n /\ u[j] = d[j - 1]
    <3>1. i - 1 = j - 1
      BY <1>1, <1>8, <2>2 DEF Rows
    <3>2. i \in Int /\ j \in Int
      BY <1>5
    <3>3. QED
      BY <3>1, <3>2
  <2>3. QED
    BY <1>5, <1>6, <1>8, <2>1, <2>2
<1>9. \A i \in DOMAIN u : u[i].task <= n + 1
  <2>1. \A g \in 1..n : d[g].task <= n + 1
    BY <1>7
  <2>2. u[1].task <= n + 1
    BY <1>3, <1>4
  <2>3. QED
    BY <1>5, <1>6, <2>1, <2>2
<1>10. Stay(d, u)
  <2> SUFFICES ASSUME NEW x \in ToSet(d)
               PROVE  \E y \in ToSet(u) : y.task = x.task /\ y.home = x.home
    BY DEF Stay
  <2>1. PICK i \in DOMAIN d : x = d[i]
    BY DEF ToSet
  <2>2. i \in 1..n /\ i + 1 \in 1..(n + 1)
    BY <1>1
  <2>3. u[i + 1] \in ToSet(u) /\ u[i + 1] = d[i]
    BY <1>4, <1>5, <2>2 DEF ToSet
  <2>4. QED
    BY <2>1, <2>3
<1>11. Rows(u) /\ Numbered(u)
  BY <1>4, <1>8, <1>9 DEF Rows, Numbered
<1>12. QED
  BY <1>2, <1>4, <1>5, <1>10, <1>11

\* A touched directory is one still.
LEMMA UpsertFits ==
    ASSUME NEW d, Rows(d), Numbered(d), NEW e, Placed(d, e)
    PROVE  /\ Rows(Upsert(d, e)) /\ Numbered(Upsert(d, e)) /\ Stay(d, Upsert(d, e))
           /\ Upsert(d, e)[1] = e /\ e \in ToSet(Upsert(d, e))
           /\ Len(d) <= Len(Upsert(d, e)) /\ Len(Upsert(d, e)) <= Len(d) + 1
           /\ Has(d, e.task) => Len(Upsert(d, e)) = Len(d)
<1>1. Len(d) \in Nat
  BY DEF Rows
<1>2. CASE Has(d, e.task)
  BY <1>1, <1>2, TouchedRow DEF ToSet
<1>3. CASE ~Has(d, e.task)
  BY <1>1, <1>3, NewRow DEF ToSet
<1>4. QED
  BY <1>2, <1>3

LEMMA StayTwice ==
    ASSUME NEW d, NEW u, NEW w, Stay(d, u), Stay(u, w)
    PROVE  Stay(d, w)
BY DEF Stay
-----------------------------------------------------------------------------
(* Steps.                                                                  *)

LEMMA Goal ==
    ASSUME Typed', Room', AtHome', \A h \in Handlers : CallFits(call[h])'
    PROVE  IInv'
BY DEF IInv

LEMMA Holds ==
    ASSUME IInv, NEW h \in Handlers
    PROVE  call[h] \in Call /\ CallFits(call[h])
BY DEF IInv, CallFits

LEMMA GoesOn ==
    ASSUME IInv, NEW h \in Handlers, NEW d, Goes(h, d)
    PROVE  call'[h] = d /\ (\A g \in Handlers \ {h} : call'[g] = call[g])
BY DEF IInv, Typed, Goes

LEMMA OwnsStill ==
    ASSUME Stay(directory, directory'), NEW s, NEW t, Owns(s, t)
    PROVE  Owns(s, t)'
BY DEF Stay, Owns

\* What a handler holds is not spoilt by what others do.
LEMMA FitsStill ==
    ASSUME NEW c, CallFits(c), Stay(directory, directory'), named => named'
    PROVE  CallFits(c)'
<1>1. \A s, t : Owns(s, t) => Owns(s, t)'
  BY OwnsStill
<1>2. Listing(c)'
  BY <1>1 DEF CallFits, Listing
<1>3. Found(c)'
  BY <1>1 DEF CallFits, Found
<1>4. QED
  BY <1>2, <1>3 DEF CallFits, Routed, Intended

LEMMA FitsOfCall ==
    ASSUME NEW h \in Handlers, NEW c, c = call'[h], CallFits(c)'
    PROVE  CallFits(call[h])'
BY DEF CallFits, Listing, Found, Owns

LEMMA FitsStep ==
    ASSUME IInv, NEW h \in Handlers, NEW d, Goes(h, d), CallFits(d)',
           Stay(directory, directory'), named => named'
    PROVE  \A g \in Handlers : CallFits(call[g])'
<1> SUFFICES ASSUME NEW g \in Handlers PROVE CallFits(call[g])'
  OBVIOUS
<1>1. CASE g = h
  BY <1>1, GoesOn, FitsOfCall
<1>2. CASE g # h
  <2> PICK c : c = call[g] /\ CallFits(c)
    BY Holds
  <2>1. CallFits(c)'
    BY FitsStill
  <2>2. c = call'[g]
    BY <1>2, GoesOn
  <2>3. QED
    BY <2>1, <2>2, FitsOfCall
<1>3. QED
  BY <1>1, <1>2

LEMMA FitsSame ==
    ASSUME IInv, UNCHANGED call, Stay(directory, directory'), named => named'
    PROVE  \A g \in Handlers : CallFits(call[g])'
<1> SUFFICES ASSUME NEW g \in Handlers PROVE CallFits(call[g])'
  OBVIOUS
<1> PICK c : c = call[g] /\ CallFits(c)
  BY Holds
<1>1. CallFits(c)'
  BY FitsStill
<1>2. c = call'[g]
  OBVIOUS
<1>3. QED
  BY <1>1, <1>2, FitsOfCall

LEMMA CallsTyped ==
    ASSUME IInv, NEW h \in Handlers, NEW d \in Call, Goes(h, d)
    PROVE  call' \in [Handlers -> Call]
BY DEF IInv, Typed, Goes

LEMMA StaySame == \A d : Stay(d, d)
BY DEF Stay

\* Who is at work.
LEMMA BusyShrinks ==
    ASSUME IInv, NEW h \in Handlers, ~At(h, "idle"), NEW d, Goes(h, d)
    PROVE  /\ IsFiniteSet(Busy') /\ Cardinality(Busy') \in Nat /\ Cardinality(Busy) \in Nat
           /\ Cardinality(Busy') <= Cardinality(Busy)
           /\ Cardinality(Busy) >= 1
           /\ d.pc = "idle" => Cardinality(Busy') = Cardinality(Busy) - 1
<1>1. IsFiniteSet(Busy) /\ h \in Busy
  BY DEF IInv, Room, Busy
<1>2. CASE d.pc = "idle"
  <2>1. Busy' = Busy \ {h}
    BY <1>2, GoesOn DEF Busy, At
  <2>2. IsFiniteSet(Busy \ {h}) /\ Cardinality(Busy \ {h}) = Cardinality(Busy) - 1
    BY <1>1, FS_RemoveElement
  <2>3. Cardinality(Busy) \in Nat /\ Cardinality(Busy \ {h}) \in Nat
    BY <1>1, <2>2, FS_CardinalityType
  <2>4. QED
    BY <1>2, <2>1, <2>2, <2>3
<1>3. CASE d.pc # "idle"
  <2>1. Busy' = Busy
    BY <1>3, GoesOn DEF Busy, At
  <2>2. Cardinality(Busy) \in Nat /\ (Cardinality(Busy) = 0 <=> Busy = {})
    BY <1>1, FS_CardinalityType, FS_EmptySet
  <2>3. QED
    BY <1>1, <1>3, <2>1, <2>2
<1>4. QED
  BY <1>2, <1>3

\* A step of a handler that only changes what it holds.
LEMMA HandlerStep ==
    ASSUME IInv, NEW h \in Handlers, ~At(h, "idle"), NEW d, Goes(h, d), CallFits(d),
           UNCHANGED <<directory, sessions, sent, named, overlapped>>
    PROVE  IInv'
<1>1. Stay(directory, directory') /\ (named => named')
  BY StaySame
<1>2. CallFits(d)'
  BY <1>1, FitsStill
<1>3. \A g \in Handlers : CallFits(call[g])'
  BY <1>1, <1>2, FitsStep
<1>4. Typed'
  <2>1. d \in Call
    BY DEF CallFits
  <2>2. call' \in [Handlers -> Call]
    BY <2>1, CallsTyped
  <2>3. Rows(directory') /\ Numbered(directory')
    BY DEF IInv, Typed
  <2>4. QED
    BY <2>2, <2>3 DEF IInv, Typed
<1>5. Room'
  <2>1. IsFiniteSet(Busy') /\ Cardinality(Busy') \in Nat /\ Cardinality(Busy) \in Nat
        /\ Cardinality(Busy') <= Cardinality(Busy)
    BY BusyShrinks
  <2>2. Len(directory) \in Nat /\ sent \in Nat
    BY BoundAssumption DEF IInv, Typed, Rows
  <2>3. Len(directory) + 2 * Cardinality(Busy) <= 2 * sent
    BY DEF IInv, Room
  <2> PICK a \in Nat, b \in Nat : a = Cardinality(Busy) /\ b = Cardinality(Busy')
    BY <2>1
  <2>4. Len(directory) + 2 * b <= 2 * sent
    BY <2>1, <2>2, <2>3
  <2>5. QED
    BY <2>1, <2>4 DEF Room
<1>6. AtHome'
  BY DEF IInv, AtHome, Owns
<1>7. QED
  BY <1>3, <1>4, <1>5, <1>6, Goal

\* An idle handler's call is of no account.
LEMMA BlankFits == CallFits(Blank)
<1>1. AnyMessage \in Messages
  BY MessageAssumption DEF AnyMessage
<1>2. NoRoute \in Routes
  BY DEF NoRoute, Routes, Decisions, TaskIds
<1>3. NoLink \in Links
  BY DEF NoLink, Links, TaskIds
<1>4. <<>> \in Seq(GlobalTask)
  OBVIOUS
<1>5. Blank \in Call
  BY <1>1, <1>2, <1>3, <1>4 DEF Blank, Call, PCs, Intents
<1>6. Blank.pc = "idle" /\ Blank.listed = <<>>
  BY DEF Blank
<1>7. Listing(Blank)
  <2>1. Rows(<<>>)
    BY <1>4 DEF Rows
  <2>2. DOMAIN Blank.listed = {}
    BY <1>6
  <2>3. QED
    BY <1>6, <2>1, <2>2 DEF Listing
<1>8. Routed(Blank) /\ Found(Blank) /\ Intended(Blank)
  BY <1>6 DEF Routed, Found, Intended
<1>9. QED
  BY <1>5, <1>7, <1>8 DEF CallFits

\* The rows that are listed are rows of the directory.
LEMMA ListedRows ==
    ASSUME NEW d, Rows(d), NEW n \in Nat, n <= Len(d)
    PROVE  /\ Rows(SubSeq(d, 1, n))
           /\ \A i \in DOMAIN SubSeq(d, 1, n) : SubSeq(d, 1, n)[i] \in ToSet(d)
<1> DEFINE l == SubSeq(d, 1, n)
<1>1. d \in Seq(GlobalTask) /\ Len(d) \in Nat /\ DOMAIN d = 1..Len(d)
  BY DEF Rows
<1>2. l \in Seq(GlobalTask) /\ DOMAIN l = 1..n /\ \A i \in 1..n : l[i] = d[i] /\ i \in DOMAIN d
  BY <1>1
<1> HIDE DEF l
<1>3. Rows(l)
  BY <1>2 DEF Rows
<1>4. \A i \in DOMAIN l : l[i] \in ToSet(d)
  BY <1>2 DEF ToSet
<1>5. QED
  BY <1>3, <1>4 DEF l

LEMMA ListTasksStep ==
    ASSUME IInv, NEW h \in Handlers, ListTasks(h)
    PROVE  IInv'
<1> PICK m, n :
        /\ m \in Messages
        /\ n = Min({ListLimit, Len(directory)})
        /\ named' = (named \/ m.target # NoSession)
        /\ Goes(h, [Blank EXCEPT !.pc = "route", !.message = m,
                      !.listed = SubSeq(directory, 1, n)])
  BY DEF ListTasks
<1> DEFINE l == SubSeq(directory, 1, n)
<1>1. Rows(directory) /\ Len(directory) \in Nat /\ ListLimit \in Nat
  BY BoundAssumption DEF IInv, Typed, Rows
<1>2. n \in Nat /\ n <= Len(directory)
  BY <1>1, MinOfTwo
<1>3. Rows(l) /\ \A i \in DOMAIN l : l[i] \in ToSet(directory)
  BY <1>1, <1>2, ListedRows
<1> HIDE DEF l
<1> PICK d : d = [Blank EXCEPT !.pc = "route", !.message = m, !.listed = l]
  OBVIOUS
<1>4. Goes(h, d)
  BY DEF l
<1>5. Blank \in Call
  BY BlankFits DEF CallFits
<1>6. /\ d \in Call /\ d.pc = "route" /\ d.message = m /\ d.listed = l
  <2>1. l \in Seq(GlobalTask)
    BY <1>3 DEF Rows
  <2>2. QED
    BY <1>5, <2>1 DEF Call, PCs
<1>7. UNCHANGED <<directory, sessions>> /\ sent' = sent + 1 /\ sent < MaxMessages
      /\ overlapped' = (overlapped \/ ~AtRest) /\ At(h, "idle")
  BY DEF ListTasks
<1>8. Stay(directory, directory')
  BY <1>7, StaySame
<1>9. CallFits(d)'
  <2>1. \A i \in DOMAIN l : Owns(l[i].home, l[i].task)
    BY <1>3 DEF Owns
  <2>2. Listing(d)'
    BY <1>3, <1>6, <1>7, <2>1 DEF Listing, Owns
  <2>3. Found(d)'
    BY <1>6 DEF Found
  <2>4. Routed(d) /\ Intended(d)
    BY <1>6 DEF Routed, Intended
  <2>5. QED
    BY <1>6, <2>2, <2>3, <2>4 DEF CallFits
<1>10. named => named'
  OBVIOUS
<1>11. \A g \in Handlers : CallFits(call[g])'
  BY <1>4, <1>8, <1>9, <1>10, FitsStep
<1>12. Typed'
  <2>1. call' \in [Handlers -> Call]
    BY <1>4, <1>6, CallsTyped
  <2>2. sent' \in 0..MaxMessages
    BY <1>7, BoundAssumption DEF IInv, Typed
  <2>3. named' \in BOOLEAN /\ overlapped' \in BOOLEAN
    BY <1>7 DEF IInv, Typed
  <2>4. Rows(directory') /\ Numbered(directory')
    BY <1>7 DEF IInv, Typed
  <2>5. QED
    BY <1>7, <2>1, <2>2, <2>3, <2>4 DEF IInv, Typed
<1>13. Room'
  <2>0. /\ call'[h].pc = "route" /\ call[h].pc = "idle"
        /\ \A g \in Handlers \ {h} : call'[g].pc = call[g].pc
    BY <1>4, <1>6, <1>7, GoesOn DEF At
  <2>1. Busy' = Busy \union {h} /\ h \notin Busy
    BY <2>0 DEF Busy, At
  <2>2. IsFiniteSet(Busy)
    BY DEF IInv, Room
  <2>3. IsFiniteSet(Busy \union {h}) /\ Cardinality(Busy \union {h}) = Cardinality(Busy) + 1
    BY <2>1, <2>2, FS_AddElement
  <2>4. Cardinality(Busy) \in Nat
    BY <2>2, FS_CardinalityType
  <2> PICK a \in Nat : a = Cardinality(Busy)
    BY <2>4
  <2>5. sent \in Nat /\ Len(directory) + 2 * a <= 2 * sent
    BY BoundAssumption DEF IInv, Room, Typed
  <2>6. Len(directory) + 2 * (a + 1) <= 2 * (sent + 1)
    BY <1>1, <2>5
  <2>7. QED
    BY <1>7, <2>1, <2>3, <2>6 DEF Room
<1>14. AtHome'
  BY <1>7 DEF IInv, AtHome, Owns
<1>15. QED
  BY <1>11, <1>12, <1>13, <1>14, Goal

\* To route a message.
LEMMA RouteStep ==
    ASSUME IInv, NEW h \in Handlers, At(h, "route"), NEW r, Fits(call[h].message, call[h].listed, r),
           Goes(h, [call[h] EXCEPT !.pc = "find", !.route = Kept(r)]),
           UNCHANGED <<directory, sessions, sent, named, overlapped>>
    PROVE  IInv'
<1> PICK c \in Call : c = call[h] /\ CallFits(c)
  BY Holds
<1> PICK k \in Routes : /\ k = Kept(r)
                        /\ k.target # NoTask => Has(c.listed, k.target)
                                                /\ Reason(c.message, c.listed, k)
  BY KeptFits
<1> PICK d : d = [c EXCEPT !.pc = "find", !.route = k]
  OBVIOUS
<1>1. /\ d \in Call /\ d.pc = "find" /\ d.route = k
      /\ d.message = c.message /\ d.listed = c.listed
  BY DEF Call, PCs
<1>2. Listing(d) /\ Routed(d) /\ Found(d) /\ Intended(d)
  <2>1. Listing(d)
    BY <1>1 DEF CallFits, Listing
  <2>2. Routed(d)
    BY <1>1 DEF Routed
  <2>3. Found(d)
    BY <1>1 DEF CallFits, Found, At
  <2>4. Intended(d)
    BY <1>1 DEF Intended
  <2>5. QED
    BY <2>1, <2>2, <2>3, <2>4
<1>3. CallFits(d) /\ Goes(h, d) /\ ~At(h, "idle")
  BY <1>1, <1>2 DEF CallFits, At
<1>4. QED
  BY <1>3, HandlerStep

LEMMA MessageOf ==
    ASSUME IInv, NEW h \in Handlers
    PROVE  call[h].message \in Message /\ Rows(call[h].listed)
<1>1. call[h].message \in Messages
  BY Holds DEF Call
<1>2. QED
  BY <1>1, Holds, MessageAssumption DEF CallFits, Listing

LEMMA RoutingSteps ==
    ASSUME IInv, NEW h \in Handlers, RouteMessage(h) \/ RouteByModel(h)
    PROVE  IInv'
<1> DEFINE m == call[h].message
           listed == call[h].listed
<1>1. m \in Message /\ Rows(listed)
  BY MessageOf
<1>2. At(h, "route") /\ UNCHANGED <<directory, sessions, sent, named, overlapped>>
  BY DEF RouteMessage, RouteByModel
<1>3. CASE RouteMessage(h)
  <2>1. Fits(m, listed, Route(m, listed))
    BY <1>1, RuleRoute
  <2>2. Goes(h, [call[h] EXCEPT !.pc = "find", !.route = Kept(Route(m, listed))])
    BY <1>3 DEF RouteMessage
  <2>3. QED
    BY <1>2, <2>1, <2>2, RouteStep
<1>4. CASE RouteByModel(h)
  <2>1. PICK r \in Answers(m, listed) :
            /\ Accepted(m, listed, Route(m, listed), r)
            /\ Goes(h, [call[h] EXCEPT !.pc = "find", !.route = Kept(r)])
    BY <1>4 DEF RouteByModel
  <2>2. Fits(m, listed, r)
    BY <1>1, <2>1, ModelRoute
  <2>3. QED
    BY <1>2, <2>1, <2>2, RouteStep
<1>5. QED
  BY <1>3, <1>4

LEMMA FindSessionStep ==
    ASSUME IInv, NEW h \in Handlers, FindSession(h)
    PROVE  IInv'
<1> PICK c \in Call : c = call[h] /\ CallFits(c)
  BY Holds
<1> PICK s, link :
        /\ s \in SessionsFor(c)
        /\ link = IF s = NoSession THEN NoLink ELSE sessions[s]
        /\ Goes(h, [c EXCEPT !.pc = "classify", !.session = s, !.link = link])
  BY DEF FindSession
<1>0. c.pc = "find" /\ ~At(h, "idle") /\ UNCHANGED <<directory, sessions, sent, named, overlapped>>
  BY DEF FindSession, At
<1>1. \A i \in DOMAIN c.listed : c.listed[i].home \in Sessions
  <2>1. c.listed \in Seq(GlobalTask)
    BY DEF CallFits, Listing, Rows
  <2>2. \A i \in DOMAIN c.listed : c.listed[i] \in GlobalTask
    BY <2>1
  <2>3. QED
    BY <2>2 DEF GlobalTask
<1>2. c.message.target = NoSession /\ c.route.target # NoTask =>
        s \in Sessions /\ Owns(s, c.route.target)
  <2> SUFFICES ASSUME c.message.target = NoSession /\ c.route.target # NoTask
               PROVE  s \in Sessions /\ Owns(s, c.route.target)
    OBVIOUS
  <2>1. s \in {e.home : e \in {e \in ToSet(c.listed) : e.task = c.route.target}}
    BY DEF SessionsFor
  <2>2. PICK i \in DOMAIN c.listed : c.listed[i].task = c.route.target /\ s = c.listed[i].home
    BY <2>1 DEF ToSet
  <2>3. Owns(c.listed[i].home, c.listed[i].task)
    BY DEF CallFits, Listing
  <2>4. QED
    BY <1>1, <2>2, <2>3
<1>3. s \in Sessions \union {NoSession}
  BY <1>2 DEF SessionsFor, Existing
<1>4. link \in Links
  BY <1>3, BlankFits DEF CallFits, Blank, Call, IInv, Typed
<1> PICK d : d = [c EXCEPT !.pc = "classify", !.session = s, !.link = link]
  OBVIOUS
<1>5. /\ d \in Call /\ d.pc = "classify" /\ d.route = c.route /\ d.session = s
      /\ d.message = c.message /\ d.listed = c.listed
  BY <1>3, <1>4 DEF Call, PCs
<1>6. Listing(d)
  BY <1>5 DEF CallFits, Listing
<1>7. Routed(d)
  BY <1>0, <1>5 DEF CallFits, Routed
<1>8. Found(d)
  BY <1>0, <1>2, <1>5 DEF CallFits, Found
<1>9. Intended(d)
  BY <1>5 DEF Intended
<1>10. QED
  BY <1>0, <1>5, <1>6, <1>7, <1>8, <1>9, HandlerStep DEF CallFits

LEMMA ClassifyingSteps ==
    ASSUME IInv, NEW h \in Handlers, Classify(h) \/ ClassifyByModel(h)
    PROVE  IInv'
<1> PICK c \in Call : c = call[h] /\ CallFits(c)
  BY Holds
<1>0. c.pc = "classify" /\ ~At(h, "idle")
      /\ UNCHANGED <<directory, sessions, sent, named, overlapped>>
  BY DEF Classify, ClassifyByModel, At
<1>1. PICK intent : /\ Goes(h, [c EXCEPT !.pc = "act", !.intent = intent])
                    /\ \/ intent = RuleIntent(c.message, c.session).intent
                       \/ intent \in Intents /\ RuleIntent(c.message, c.session).confidence < 85
  BY DEF Classify, ClassifyByModel
<1>2. RuleIntent(c.message, c.session).intent \in Intents
  BY DEF RuleIntent, Intents
<1>3. c.message.mode = "new_task" => /\ RuleIntent(c.message, c.session).intent = "new_task"
                                     /\ ~(RuleIntent(c.message, c.session).confidence < 85)
  BY DEF RuleIntent
<1> PICK d : d = [c EXCEPT !.pc = "act", !.intent = intent]
  OBVIOUS
<1>4. /\ d \in Call /\ d.pc = "act" /\ d.route = c.route /\ d.session = c.session
      /\ d.message = c.message /\ d.listed = c.listed /\ d.intent = intent
  BY <1>1, <1>2 DEF Call, PCs
<1>5. Listing(d)
  BY <1>4 DEF CallFits, Listing
<1>6. Routed(d)
  BY <1>0, <1>4 DEF CallFits, Routed
<1>7. Found(d)
  BY <1>0, <1>4 DEF CallFits, Found
<1>8. Intended(d)
  BY <1>1, <1>3, <1>4 DEF Intended
<1>9. QED
  BY <1>0, <1>1, <1>4, <1>5, <1>6, <1>7, <1>8, HandlerStep DEF CallFits

LEMMA RespondStep ==
    ASSUME IInv, NEW h \in Handlers, Respond(h)
    PROVE  IInv'
BY BlankFits, HandlerStep DEF Respond, At

-----------------------------------------------------------------------------
(* What a message is put to work on.                                       *)

\* A reason to take work to a task.
ForReason(c, task) ==
    /\ c.message.mode # "new_task"
    /\ \/ c.intent = "resume_previous_task"
       \/ c.route.target = task /\ Reason(c.message, c.listed, c.route)

\* The call with the session it is served in.
Served(c) ==
    /\ c \in Call /\ c.pc = "act" /\ c.session \in Sessions
    /\ Listing(c) /\ Routed(c) /\ Intended(c)
    /\ ~named /\ c.route.target # NoTask => Owns(c.session, c.route.target)

LEMMA DirectoryOf ==
    ASSUME IInv
    PROVE  /\ Rows(directory) /\ Numbered(directory) /\ Len(directory) \in Nat
           /\ directory \in Seq(GlobalTask) /\ DOMAIN directory = 1..Len(directory)
           /\ \A x \in ToSet(directory) : x \in GlobalTask
<1>1. Rows(directory) /\ Numbered(directory)
  BY DEF IInv, Typed
<1>2. directory \in Seq(GlobalTask)
  BY <1>1 DEF Rows
<1>3. \A x \in ToSet(directory) : x \in GlobalTask
  BY <1>2 DEF ToSet
<1>4. QED
  BY <1>1, <1>2, <1>3

LEMMA OwnedTask ==
    ASSUME IInv, NEW s, NEW t, Owns(s, t)
    PROVE  s \in Sessions /\ t \in Tasks /\ \E x \in ToSet(directory) : x.task = t /\ x.home = s
BY DirectoryOf DEF Owns, GlobalTask

LEMMA ServedCall ==
    ASSUME IInv, NEW h \in Handlers, Executes(h)
    PROVE  \E c : /\ c = [call[h] EXCEPT !.session = SessionOf(call[h])]
                  /\ Served(c)
                  /\ c.message = call[h].message /\ c.listed = call[h].listed
                  /\ c.route = call[h].route /\ c.intent = call[h].intent
                  /\ c.link = call[h].link
<1> PICK k \in Call : k = call[h] /\ CallFits(k)
  BY Holds
<1>0. k.pc = "act" /\ (k.session = NoSession => Free # {})
  BY DEF Executes, At
<1>1. Free \in SUBSET Nat /\ Free \subseteq Sessions
  BY DEF Free, Sessions
<1>2. SessionOf(k) \in Sessions
  <2>1. CASE k.session = NoSession
    BY <1>0, <1>1, <2>1, MinOf DEF SessionOf
  <2>2. CASE k.session # NoSession
    BY <2>2 DEF SessionOf, Call
  <2>3. QED
    BY <2>1, <2>2
<1> PICK s \in Sessions : s = SessionOf(k)
  BY <1>2
<1> PICK c : c = [k EXCEPT !.session = s]
  OBVIOUS
<1>3. /\ c \in Call /\ c.session = s /\ c.pc = "act"
      /\ c.message = k.message /\ c.listed = k.listed /\ c.route = k.route
      /\ c.intent = k.intent /\ c.link = k.link
  BY <1>0 DEF Call
<1>4. ASSUME ~named, k.route.target # NoTask PROVE Owns(s, k.route.target)
  <2>1. Owns(k.session, k.route.target)
    BY <1>0, <1>4 DEF CallFits, Found
  <2>2. k.session \in Sessions
    BY <2>1, OwnedTask
  <2>3. s = k.session
    BY <2>2 DEF SessionOf, Sessions, NoSession
  <2>4. QED
    BY <2>1, <2>3
<1>5. Listing(c) /\ Routed(c) /\ Intended(c)
  BY <1>0, <1>3 DEF CallFits, Listing, Routed, Intended
<1>6. Served(c)
  BY <1>3, <1>4, <1>5 DEF Served
<1>7. QED
  BY <1>3, <1>6

\* What the plan takes work to, and why.
LEMMA PlanOf ==
    ASSUME IInv, NEW c, Served(c), NEW plan, plan = Planned(c)
    PROVE  /\ plan.choice = "continue" => plan.task = c.link.active
           /\ plan.choice = "switch" =>
                 /\ \E x \in ToSet(directory) : x.task = plan.task
                 /\ ~named => Owns(c.session, plan.task)
                 /\ ForReason(c, plan.task)
<1> DEFINE routed == c.route.target # NoTask /\ c.intent \notin {"new_task", "resume_previous_task"}
           resume == ResumeTask(c)
<1>1. CASE routed
  <2>1. plan = [choice |-> IF c.route.target = c.link.active THEN "continue" ELSE "switch",
                task |-> c.route.target]
    BY <1>1 DEF Planned
  <2>2. Has(c.listed, c.route.target) /\ Reason(c.message, c.listed, c.route)
    BY <1>1 DEF Served, Routed
  <2>3. PICK i \in DOMAIN c.listed : c.listed[i].task = c.route.target
    BY <2>2 DEF Has
  <2>4. Owns(c.listed[i].home, c.route.target)
    BY <2>3 DEF Served, Listing
  <2>5. \E x \in ToSet(directory) : x.task = c.route.target
    BY <2>4 DEF Owns
  <2>6. c.message.mode # "new_task"
    BY <1>1 DEF Served, Intended
  <2>7. ForReason(c, c.route.target)
    BY <2>2, <2>6 DEF ForReason
  <2>8. ~named => Owns(c.session, c.route.target)
    BY <1>1 DEF Served
  <2>9. plan.task = c.route.target /\ (plan.choice = "continue" => c.route.target = c.link.active)
    BY <2>1
  <2>10. QED
    BY <2>5, <2>7, <2>8, <2>9
<1>2. CASE ~routed /\ ~(c.link.active # NoTask /\ c.intent = "new_task")
           /\ c.intent = "resume_previous_task"
  <2>1. plan = [choice |-> IF resume = NoTask THEN "nothing" ELSE "switch", task |-> resume]
    BY <1>2 DEF Planned
  <2>2. plan.choice # "continue" /\ plan.task = resume
        /\ (plan.choice = "switch" => resume # NoTask)
    BY <2>1
  <2>3. resume # NoTask => Owns(c.session, resume)
    <3>1. CASE Owns(c.session, c.link.lastPaused)
      BY <3>1 DEF ResumeTask
    <3>2. CASE ~Owns(c.session, c.link.lastPaused) /\ PausedOf(c.session) # {}
      <4>1. PausedOf(c.session) \in SUBSET Nat
        BY DirectoryOf DEF PausedOf
      <4>2. Min(PausedOf(c.session)) \in PausedOf(c.session)
        BY <3>2, <4>1, MinOf
      <4>3. PICK i \in DOMAIN directory :
                i = Min(PausedOf(c.session)) /\ directory[i].home = c.session
        BY <4>2 DEF PausedOf
      <4>4. resume = directory[i].task
        BY <3>2, <4>3 DEF ResumeTask
      <4>5. QED
        BY <4>3, <4>4 DEF Owns, ToSet
    <3>3. CASE ~Owns(c.session, c.link.lastPaused) /\ PausedOf(c.session) = {}
      BY <3>3 DEF ResumeTask
    <3>4. QED
      BY <3>1, <3>2, <3>3
  <2>4. ForReason(c, resume)
    BY <1>2 DEF ForReason, Served, Intended
  <2>5. Owns(c.session, resume) => \E x \in ToSet(directory) : x.task = resume
    BY DEF Owns
  <2> HIDE DEF resume
  <2>6. QED
    BY <2>2, <2>3, <2>4, <2>5
<1>3. CASE ~routed /\ c.link.active # NoTask /\ c.intent = "new_task"
  <2>1. plan.choice = "start_new"
    BY <1>3 DEF Planned
  <2>2. QED
    BY <2>1
<1>4. CASE ~routed /\ ~(c.link.active # NoTask /\ c.intent = "new_task")
           /\ c.intent # "resume_previous_task"
  <2>1. \/ plan = [choice |-> "start_new", task |-> NoTask]
        \/ plan = [choice |-> "continue", task |-> c.link.active]
    BY <1>4 DEF Planned
  <2>2. QED
    BY <2>1
<1>5. QED
  BY <1>1, <1>2, <1>3, <1>4

\* There is room for two more tasks.
LEMMA RoomForTwo ==
    ASSUME IInv, NEW h \in Handlers, ~At(h, "idle")
    PROVE  Len(directory) + 2 <= 2 * MaxMessages
<1>1. h \in Busy /\ IsFiniteSet(Busy)
  BY DEF Busy, IInv, Room
<1>2. Cardinality(Busy) \in Nat /\ Cardinality(Busy) # 0
  BY <1>1, FS_CardinalityType, FS_EmptySet
<1> PICK a \in Nat : a = Cardinality(Busy)
  BY <1>2
<1>3. sent \in Nat /\ sent <= MaxMessages /\ MaxMessages \in Nat
      /\ Len(directory) + 2 * a <= 2 * sent
  BY BoundAssumption DEF IInv, Typed, Room
<1>4. QED
  BY <1>2, <1>3, DirectoryOf

\* The rows once the current task is paused.
LEMMA AfterPauseFits ==
    ASSUME IInv, NEW c, Served(c), NEW plan, NEW d, d = AfterPause(c, plan),
           Len(directory) + 2 <= 2 * MaxMessages
    PROVE  /\ Rows(d) /\ Numbered(d) /\ Stay(directory, d)
           /\ Len(directory) <= Len(d) /\ Len(d) <= Len(directory) + 1
           /\ Pauses(c, plan) => d[1].task \in Tasks
           /\ ~Pauses(c, plan) => d = directory
<1>1. CASE Pauses(c, plan)
  <2> PICK e : e = Row(Paused(c.session, c.link.active), c.session, "paused")
    OBVIOUS
  <2>1. d = Upsert(directory, e)
    BY <1>1 DEF AfterPause
  <2>2. Placed(directory, e)
    <3>1. CASE Owns(c.session, c.link.active)
      <4>1. e = [task |-> c.link.active, home |-> c.session, status |-> "paused"]
        BY <3>1 DEF Paused, Row
      <4>2. c.session \in Sessions /\ c.link.active \in Tasks
            /\ \E x \in ToSet(directory) : x.task = c.link.active /\ x.home = c.session
        BY <3>1, OwnedTask
      <4>3. QED
        BY <4>1, <4>2 DEF Placed, GlobalTask, TaskStatus
    <3>2. CASE ~Owns(c.session, c.link.active)
      <4>1. e = [task |-> Len(directory) + 1, home |-> c.session, status |-> "paused"]
        BY <3>2 DEF Paused, Row
      <4>2. Len(directory) + 1 \in Tasks
        BY DirectoryOf, BoundAssumption DEF Tasks
      <4>3. c.session \in Sessions
        BY DEF Served
      <4>4. QED
        BY <4>1, <4>2, <4>3 DEF Placed, GlobalTask, TaskStatus
    <3>3. QED
      BY <3>1, <3>2
  <2>3. /\ Rows(d) /\ Numbered(d) /\ Stay(directory, d) /\ d[1] = e
        /\ Len(directory) <= Len(d) /\ Len(d) <= Len(directory) + 1
    BY <2>1, <2>2, DirectoryOf, UpsertFits
  <2>4. e.task \in Tasks
    BY <2>2 DEF Placed, GlobalTask
  <2>5. QED
    BY <1>1, <2>3, <2>4
<1>2. CASE ~Pauses(c, plan)
  BY <1>2, DirectoryOf, StaySame DEF AfterPause
<1>3. QED
  BY <1>1, <1>2

LEMMA RowOfTask ==
    ASSUME NEW d, Rows(d), NEW t, NEW x \in ToSet(d), x.task = t
    PROVE  d[RowAt(d, t)] = x /\ x \in GlobalTask
<1>1. PICK i \in DOMAIN d : x = d[i]
  BY DEF ToSet
<1>2. RowAt(d, t) = i
  BY <1>1, OwnRow
<1>3. d \in Seq(GlobalTask)
  BY DEF Rows
<1>4. QED
  BY <1>1, <1>2, <1>3

\* The row of the task that is worked on.
LEMMA WorkOnFits ==
    ASSUME IInv, NEW c, Served(c), NEW plan, plan = Planned(c), NEW d, d = AfterPause(c, plan),
           NEW e, e = WorkOn(c.session, plan, d), Len(directory) + 2 <= 2 * MaxMessages
    PROVE  /\ Placed(d, e)
           /\ ~named => e.home = c.session
           /\ (\E x \in ToSet(directory) : x.task = e.task) =>
                 e.task = c.link.active \/ ForReason(c, e.task)
<1>0. /\ Rows(d) /\ Numbered(d) /\ Stay(directory, d)
      /\ Len(directory) <= Len(d) /\ Len(d) <= Len(directory) + 1
      /\ Pauses(c, plan) => d[1].task \in Tasks
      /\ ~Pauses(c, plan) => d = directory
  BY AfterPauseFits
<1>1. CASE plan.choice = "switch"
  <2>1. /\ \E x \in ToSet(directory) : x.task = plan.task
        /\ ~named => Owns(c.session, plan.task)
        /\ ForReason(c, plan.task)
    BY <1>1, PlanOf
  <2>2. PICK x \in ToSet(directory) :
            x.task = plan.task /\ (~named => x.home = c.session)
    BY <2>1 DEF Owns
  <2>3. PICK y \in ToSet(d) : y.task = plan.task /\ y.home = x.home
    BY <1>0, <2>2 DEF Stay
  <2>4. d[RowAt(d, plan.task)] = y /\ y \in GlobalTask
    BY <1>0, <2>3, RowOfTask
  <2>5. e = [task |-> plan.task, home |-> y.home, status |-> "active"]
    BY <1>1, <2>4 DEF WorkOn, HomeOf, Row
  <2>6. e \in GlobalTask /\ e.task = plan.task /\ e.home = y.home
    BY <2>3, <2>4, <2>5 DEF GlobalTask, TaskStatus
  <2>7. QED
    BY <2>1, <2>2, <2>3, <2>6 DEF Placed
<1>2. CASE plan.choice = "continue" /\ Owns(c.session, plan.task)
  <2>1. d = directory
    BY <1>0, <1>2 DEF Pauses
  <2>2. c.session \in Sessions /\ plan.task \in Tasks
    BY <1>2, OwnedTask
  <2>3. PICK x \in ToSet(d) : x.task = plan.task /\ x.home = c.session
    BY <1>2, <2>1 DEF Owns
  <2>4. d[RowAt(d, plan.task)] = x /\ x \in GlobalTask
    BY <1>0, <2>3, RowOfTask
  <2>5. e = [task |-> plan.task, home |-> c.session, status |-> x.status]
    BY <1>2, <2>4 DEF WorkOn, StatusOf, Row
  <2>6. e \in GlobalTask /\ e.task = plan.task /\ e.home = c.session
    BY <2>2, <2>4, <2>5 DEF GlobalTask
  <2>7. plan.task = c.link.active
    BY <1>2, PlanOf
  <2>8. QED
    BY <2>3, <2>6, <2>7 DEF Placed
<1>3. CASE plan.choice # "switch" /\ ~(plan.choice = "continue" /\ Owns(c.session, plan.task))
  <2>1. e = [task |-> Len(d) + 1, home |-> c.session, status |-> "active"]
    BY <1>3 DEF WorkOn, Row
  <2>2. Len(d) \in Nat
    BY <1>0 DEF Rows
  <2>3. Len(d) + 1 \in Tasks
    BY <1>0, <2>2, DirectoryOf, BoundAssumption DEF Tasks
  <2>4. e \in GlobalTask /\ e.task = Len(d) + 1 /\ e.home = c.session
    BY <2>1, <2>3 DEF GlobalTask, TaskStatus, Served
  <2>5. ASSUME NEW x \in ToSet(directory), x.task = e.task PROVE FALSE
    <3>1. PICK i \in DOMAIN directory : x = directory[i]
      BY DEF ToSet
    <3>2. x.task <= Len(directory) /\ x \in GlobalTask
      BY <3>1, DirectoryOf DEF Numbered
    <3>3. Len(d) + 1 <= Len(directory)
      BY <2>4, <2>5, <3>2
    <3>4. QED
      BY <1>0, <2>2, <3>3, DirectoryOf
  <2>6. QED
    BY <2>4, <2>5 DEF Placed
<1>4. QED
  BY <1>1, <1>2, <1>3

\* What work leaves behind.
LEMMA Worked ==
    ASSUME IInv, NEW h \in Handlers, Work(h)
    PROVE  \E s \in Sessions, link \in Links, e \in GlobalTask :
              /\ sessions' = [sessions EXCEPT ![s] = link]
              /\ link.exists /\ link.active = e.task
              /\ Rows(directory') /\ Numbered(directory') /\ Stay(directory, directory')
              /\ Len(directory') <= Len(directory) + 2
              /\ e \in ToSet(directory')
              /\ ~named => e.home = s
              /\ (\E x \in ToSet(directory) : x.task = e.task) =>
                    e.task = call[h].link.active \/ ForReason(call[h], e.task)
<1>1. PICK c : /\ c = [call[h] EXCEPT !.session = SessionOf(call[h])]
               /\ Served(c)
               /\ c.message = call[h].message /\ c.listed = call[h].listed
               /\ c.route = call[h].route /\ c.intent = call[h].intent
               /\ c.link = call[h].link
  BY ServedCall DEF Work
<1> PICK plan : plan = Planned(c)
  OBVIOUS
<1> PICK d : d = AfterPause(c, plan)
  OBVIOUS
<1> PICK e : e = WorkOn(c.session, plan, d)
  OBVIOUS
<1> PICK link :
      link = [exists |-> TRUE, run |-> TRUE, active |-> e.task,
              lastPaused |-> IF Pauses(c, plan) THEN d[1].task
                             ELSE IF plan.choice = "switch" THEN NoTask
                             ELSE c.link.lastPaused]
  OBVIOUS
<1>2. directory' = Upsert(d, e) /\ sessions' = [sessions EXCEPT ![c.session] = link]
  BY <1>1 DEF Work
<1>3. Len(directory) + 2 <= 2 * MaxMessages
  BY RoomForTwo DEF Work, Executes, At
<1>4. /\ Rows(d) /\ Numbered(d) /\ Stay(directory, d)
      /\ Len(directory) <= Len(d) /\ Len(d) <= Len(directory) + 1
      /\ Pauses(c, plan) => d[1].task \in Tasks
  BY <1>1, <1>3, AfterPauseFits
<1>5. /\ Placed(d, e)
      /\ ~named => e.home = c.session
      /\ (\E x \in ToSet(directory) : x.task = e.task) =>
            e.task = c.link.active \/ ForReason(c, e.task)
  <2>1. Served(c)
    BY <1>1
  <2>2. QED
    BY <1>3, <2>1, WorkOnFits, Zenon
<1>6. /\ Rows(directory') /\ Numbered(directory') /\ Stay(d, directory')
      /\ e \in ToSet(directory') /\ Len(directory') <= Len(d) + 1
  BY <1>2, <1>4, <1>5, UpsertFits
<1>7. Stay(directory, directory')
  BY <1>4, <1>6, StayTwice
<1>8. Len(directory') <= Len(directory) + 2
  <2>1. Len(d) \in Nat /\ Len(directory') \in Nat /\ Len(directory) \in Nat
    BY <1>4, <1>6, DirectoryOf DEF Rows
  <2>2. QED
    BY <1>4, <1>6, <2>1
<1>9. e \in GlobalTask /\ c.session \in Sessions /\ e.task \in Tasks
  BY <1>1, <1>5 DEF Placed, Served, GlobalTask
<1>10. link \in Links
  <2>1. c.link.lastPaused \in TaskIds
    BY <1>1 DEF Served, Call, Links
  <2>2. QED
    BY <1>4, <1>9, <2>1 DEF Links, TaskIds
<1>11. link.exists /\ link.active = e.task
  OBVIOUS
<1>12. (\E x \in ToSet(directory) : x.task = e.task) =>
          e.task = call[h].link.active \/ ForReason(call[h], e.task)
  BY <1>1, <1>5 DEF ForReason
<1>13. QED
  <2> c.session \in Sessions /\ link \in Links /\ e \in GlobalTask
    BY <1>9, <1>10
  <2> WITNESS c.session \in Sessions, link \in Links, e \in GlobalTask
  <2>1. QED
    BY <1>2, <1>5, <1>6, <1>7, <1>8, <1>9, <1>10, <1>11, <1>12, Zenon

-----------------------------------------------------------------------------
(* The invariant.                                                          *)

LEMMA DeclineStep ==
    ASSUME IInv, NEW h \in Handlers, Decline(h)
    PROVE  IInv'
<1>1. PICK c : Served(c) /\ sessions' = [sessions EXCEPT ![c.session].exists = TRUE]
  BY ServedCall DEF Decline
<1> PICK s \in Sessions : s = c.session
  BY <1>1 DEF Served
<1>2. UNCHANGED <<directory, sent, named, overlapped>> /\ Goes(h, Blank) /\ ~At(h, "idle")
  BY DEF Decline, Executes, At
<1>3. Stay(directory, directory') /\ (named => named')
  BY <1>2, StaySame
<1>4. CallFits(Blank)'
  BY <1>3, BlankFits, FitsStill
<1>5. \A g \in Handlers : CallFits(call[g])'
  BY <1>2, <1>3, <1>4, FitsStep
<1>6. /\ sessions' \in [Sessions -> Links]
      /\ \A t \in Sessions : sessions'[t].active = sessions[t].active
      /\ \A t \in Sessions : ~sessions'[t].exists => ~sessions[t].exists
  BY <1>1 DEF IInv, Typed, Links
<1>7. Typed'
  <2>1. call' \in [Handlers -> Call]
    BY <1>2, BlankFits, CallsTyped DEF CallFits
  <2>2. Rows(directory') /\ Numbered(directory')
    BY <1>2 DEF IInv, Typed
  <2>3. \A t \in Sessions : ~sessions'[t].exists => sessions'[t].active = NoTask
    BY <1>6 DEF IInv, Typed
  <2>4. QED
    BY <1>2, <1>6, <2>1, <2>2, <2>3 DEF IInv, Typed
<1>8. Room'
  <2>1. IsFiniteSet(Busy') /\ Cardinality(Busy') \in Nat /\ Cardinality(Busy) \in Nat
        /\ Cardinality(Busy') <= Cardinality(Busy)
    BY <1>2, BusyShrinks
  <2> PICK a \in Nat, b \in Nat : a = Cardinality(Busy) /\ b = Cardinality(Busy')
    BY <2>1
  <2>2. sent \in Nat /\ Len(directory) \in Nat /\ Len(directory) + 2 * a <= 2 * sent
    BY BoundAssumption, DirectoryOf DEF IInv, Room, Typed
  <2>3. Len(directory) + 2 * b <= 2 * sent
    BY <2>1, <2>2
  <2>4. QED
    BY <1>2, <2>1, <2>3 DEF Room
<1>9. AtHome'
  BY <1>2, <1>6 DEF IInv, AtHome, Owns
<1>10. QED
  BY <1>5, <1>7, <1>8, <1>9, Goal

LEMMA WorkStep ==
    ASSUME IInv, NEW h \in Handlers, Work(h)
    PROVE  IInv'
<1> PICK s \in Sessions, link \in Links, e \in GlobalTask :
        /\ sessions' = [sessions EXCEPT ![s] = link]
        /\ link.exists /\ link.active = e.task
        /\ Rows(directory') /\ Numbered(directory') /\ Stay(directory, directory')
        /\ Len(directory') <= Len(directory) + 2
        /\ e \in ToSet(directory')
        /\ ~named => e.home = s
  BY Worked
<1>1. UNCHANGED <<sent, named, overlapped>> /\ Goes(h, Blank) /\ ~At(h, "idle")
  BY DEF Work, Executes, At
<1>2. Blank \in Call /\ Blank.pc = "idle"
  BY BlankFits DEF CallFits, Blank
<1>3. CallFits(Blank)'
  BY <1>1, BlankFits, FitsStill
<1>4. \A g \in Handlers : CallFits(call[g])'
  BY <1>1, <1>3, FitsStep
<1>5. /\ sessions' \in [Sessions -> Links] /\ sessions'[s] = link
      /\ \A t \in Sessions \ {s} : sessions'[t] = sessions[t]
  BY DEF IInv, Typed
<1>6. Typed'
  <2>1. call' \in [Handlers -> Call]
    BY <1>1, <1>2, CallsTyped
  <2>2. \A t \in Sessions : ~sessions'[t].exists => sessions'[t].active = NoTask
    BY <1>5 DEF IInv, Typed
  <2>3. QED
    BY <1>1, <1>5, <2>1, <2>2 DEF IInv, Typed
<1>7. Room'
  <2>1. IsFiniteSet(Busy') /\ Cardinality(Busy') \in Nat /\ Cardinality(Busy) \in Nat
        /\ Cardinality(Busy') = Cardinality(Busy) - 1
    BY <1>1, <1>2, BusyShrinks
  <2> PICK a \in Nat, b \in Nat : a = Cardinality(Busy) /\ b = Cardinality(Busy')
    BY <2>1
  <2>2. sent \in Nat /\ Len(directory) \in Nat /\ Len(directory) + 2 * a <= 2 * sent
    BY BoundAssumption, DirectoryOf DEF IInv, Room, Typed
  <2>3. Len(directory') \in Nat
    BY DEF Rows
  <2>4. Len(directory') + 2 * b <= 2 * sent
    BY <2>1, <2>2, <2>3
  <2>5. QED
    BY <1>1, <2>1, <2>4 DEF Room
<1>8. AtHome'
  <2> SUFFICES ASSUME ~named, NEW t \in Sessions, sessions'[t].active # NoTask
               PROVE  \E x \in ToSet(directory') : x.task = sessions'[t].active /\ x.home = t
    BY <1>1 DEF AtHome, Owns
  <2>1. CASE t = s
    BY <1>5, <2>1
  <2>2. CASE t # s
    <3>1. Owns(t, sessions[t].active) /\ sessions'[t] = sessions[t]
      BY <1>5, <2>2 DEF IInv, AtHome
    <3>2. QED
      BY <3>1 DEF Owns, Stay
  <2>3. QED
    BY <2>1, <2>2
<1>9. QED
  BY <1>4, <1>6, <1>7, <1>8, Goal

LEMMA EndRunStep ==
    ASSUME IInv, NEW s \in Sessions, EndRun(s)
    PROVE  IInv'
<1> PICK a : a = sessions[s].active
  OBVIOUS
<1>1. /\ Rows(directory') /\ Numbered(directory') /\ Stay(directory, directory')
      /\ Len(directory') = Len(directory)
  <2>1. CASE Owns(s, a)
    <3>1. PICK status \in Outcomes : directory' = Upsert(directory, Row(a, s, status))
      BY <2>1 DEF EndRun
    <3> PICK e : e = [task |-> a, home |-> s, status |-> status]
      OBVIOUS
    <3>2. PICK x \in ToSet(directory) : x.task = a /\ x.home = s
      BY <2>1 DEF Owns
    <3>3. a \in Tasks /\ status \in TaskStatus
      BY <2>1, OwnedTask, OutcomeAssumption DEF TaskStatus
    <3>4. Placed(directory, e)
      BY <3>2, <3>3 DEF Placed, GlobalTask
    <3>5. Has(directory, e.task)
      BY <3>2 DEF Has, ToSet
    <3>6. directory' = Upsert(directory, e)
      BY <3>1 DEF Row
    <3>7. QED
      BY <3>4, <3>5, <3>6, DirectoryOf, UpsertFits
  <2>2. CASE ~Owns(s, a)
    <3>1. UNCHANGED directory
      BY <2>2 DEF EndRun
    <3>2. QED
      BY <3>1, DirectoryOf, StaySame
  <2>3. QED
    BY <2>1, <2>2
<1>2. UNCHANGED <<call, sent, named, overlapped>>
      /\ sessions' = [sessions EXCEPT ![s].run = FALSE]
  BY DEF EndRun
<1>3. /\ sessions' \in [Sessions -> Links]
      /\ \A t \in Sessions : sessions'[t].active = sessions[t].active
      /\ \A t \in Sessions : sessions'[t].exists = sessions[t].exists
  BY <1>2 DEF IInv, Typed, Links
<1>4. \A g \in Handlers : CallFits(call[g])'
  BY <1>1, <1>2, FitsSame
<1>5. Typed'
  BY <1>1, <1>2, <1>3 DEF IInv, Typed
<1>6. Room'
  <2>1. Busy' = Busy
    BY <1>2 DEF Busy, At
  <2>2. QED
    BY <1>1, <1>2, <2>1 DEF IInv, Room
<1>7. AtHome'
  <2> SUFFICES ASSUME ~named, NEW t \in Sessions, sessions'[t].active # NoTask
               PROVE  \E x \in ToSet(directory') : x.task = sessions'[t].active /\ x.home = t
    BY <1>2 DEF AtHome, Owns
  <2>1. Owns(t, sessions[t].active) /\ sessions'[t].active = sessions[t].active
    BY <1>3 DEF IInv, AtHome
  <2>2. QED
    BY <1>1, <2>1 DEF Owns, Stay
<1>8. QED
  BY <1>4, <1>5, <1>6, <1>7, Goal

LEMMA IInvInit == Init => IInv
<1> SUFFICES ASSUME Init PROVE IInv
  OBVIOUS
<1>1. Rows(directory) /\ Numbered(directory)
  BY DEF Init, Rows, Numbered
<1>2. NoLink \in Links /\ NoLink.active = NoTask
  BY DEF NoLink, Links, TaskIds
<1>3. Blank \in Call /\ Blank.pc = "idle"
  BY BlankFits DEF CallFits, Blank
<1>4. Typed
  <2>1. sessions \in [Sessions -> Links]
        /\ \A s \in Sessions : ~sessions[s].exists => sessions[s].active = NoTask
    BY <1>2 DEF Init
  <2>2. call \in [Handlers -> Call]
    BY <1>3 DEF Init
  <2>3. sent \in 0..MaxMessages /\ named \in BOOLEAN /\ overlapped \in BOOLEAN
    <3>1. sent = 0 /\ MaxMessages \in Nat
      BY BoundAssumption DEF Init
    <3>2. sent \in 0..MaxMessages
      BY <3>1
    <3>3. named = FALSE /\ overlapped = FALSE
      BY DEF Init
    <3>4. QED
      BY <3>2, <3>3
  <2>4. QED
    BY <1>1, <2>1, <2>2, <2>3 DEF Typed
<1>5. Room
  <2>1. Busy = {}
    BY <1>3 DEF Init, Busy, At
  <2>2. IsFiniteSet(Busy) /\ Cardinality(Busy) = 0
    BY <2>1, FS_EmptySet
  <2>3. Len(directory) = 0 /\ sent = 0
    BY DEF Init
  <2>4. QED
    BY <2>2, <2>3 DEF Room
<1>6. AtHome
  BY <1>2 DEF Init, AtHome
<1>7. \A h \in Handlers : CallFits(call[h])
  BY BlankFits DEF Init
<1>8. QED
  BY <1>4, <1>5, <1>6, <1>7 DEF IInv

LEMMA IInvNext == IInv /\ [Next]_vars => IInv'
<1> SUFFICES ASSUME IInv, [Next]_vars PROVE IInv'
  OBVIOUS
<1>1. CASE UNCHANGED vars
  <2>1. UNCHANGED <<directory, sessions, call, sent, named, overlapped>>
    BY <1>1 DEF vars
  <2>2. Typed' /\ AtHome'
    BY <2>1 DEF IInv, Typed, AtHome, Owns
  <2>3. Room'
    BY <2>1 DEF IInv, Room, Busy, At
  <2>4. \A h \in Handlers : CallFits(call[h])'
    BY <2>1, FitsSame, StaySame
  <2>5. QED
    BY <2>2, <2>3, <2>4, Goal
<1>2. ASSUME NEW h \in Handlers,
             \/ ListTasks(h) \/ RouteMessage(h) \/ RouteByModel(h) \/ FindSession(h)
             \/ Classify(h) \/ ClassifyByModel(h) \/ Respond(h) \/ Decline(h) \/ Work(h)
      PROVE  IInv'
  BY <1>2, ListTasksStep, RoutingSteps, FindSessionStep, ClassifyingSteps, RespondStep,
     DeclineStep, WorkStep
<1>3. ASSUME NEW s \in Sessions, EndRun(s) PROVE IInv'
  BY <1>3, EndRunStep
<1>4. QED
  BY <1>1, <1>2, <1>3 DEF Next

LEMMA Always == Spec => []IInv
<1>1. QED
  BY IInvInit, IInvNext, PTL DEF Spec

\* Every row and every copy has its type, and each task has one row of the
\* directory, however often it is touched: upsert_global_task.
THEOREM RowsTyped == Spec => []TypeOK
<1>1. IInv => TypeOK
  BY DEF IInv, Typed, Rows, TypeOK
<1>2. QED
  BY <1>1, Always, PTL

\* As long as no caller names a session, a session works only on tasks of
\* its own, whatever router, planner, model and racing messages decide.
THEOREM SessionsWorkAtHome == Spec => []AtHome
<1>1. IInv => AtHome
  BY DEF IInv
<1>2. QED
  BY <1>1, Always, PTL

-----------------------------------------------------------------------------
(* Work is taken to another task for a reason.                             *)

\* Only a handler that acts goes idle.
LEMMA OnlyActing ==
    ASSUME IInv, [Next]_vars, NEW h \in Handlers, At(h, "act"), call'[h].pc = "idle"
    PROVE  Respond(h) \/ Decline(h) \/ Work(h)
<1>1. call'[h].pc # call[h].pc
  BY DEF At
<1>2. ~UNCHANGED call
  BY <1>1
<1>3. \A s \in Sessions : ~EndRun(s)
  BY <1>2 DEF EndRun
<1>4. PICK g \in Handlers :
            \/ ListTasks(g) \/ RouteMessage(g) \/ RouteByModel(g) \/ FindSession(g)
            \/ Classify(g) \/ ClassifyByModel(g) \/ Respond(g) \/ Decline(g) \/ Work(g)
  BY <1>2, <1>3 DEF Next, vars
<1>5. \E d : Goes(g, d)
  BY <1>4 DEF ListTasks, RouteMessage, RouteByModel, FindSession, Classify, ClassifyByModel,
              Respond, Decline, Work
<1>6. g = h
  BY <1>1, <1>5, GoesOn
<1>7. ~(ListTasks(h) \/ RouteMessage(h) \/ RouteByModel(h) \/ FindSession(h)
        \/ Classify(h) \/ ClassifyByModel(h))
  BY DEF ListTasks, RouteMessage, RouteByModel, FindSession, Classify, ClassifyByModel, At
<1>8. QED
  BY <1>4, <1>6, <1>7

LEMMA SwitchedForReason ==
    ASSUME IInv, [Next]_vars, NEW h \in Handlers, NEW task \in Tasks, SwitchesTo(h, task)
    PROVE  ForReason(call[h], task)
<1>1. PICK s \in Sessions : sessions'[s].active = task /\ sessions[s] # sessions'[s]
  BY DEF SwitchesTo
<1>2. task # call[h].link.active /\ \E x \in ToSet(directory) : x.task = task
  BY DEF SwitchesTo
<1>3. Respond(h) \/ Decline(h) \/ Work(h)
  BY OnlyActing DEF SwitchesTo
<1>4. ~Respond(h)
  BY <1>1 DEF Respond
<1>5. CASE Decline(h)
  <2>1. PICK c : Served(c) /\ sessions' = [sessions EXCEPT ![c.session].exists = TRUE]
    BY <1>5, ServedCall DEF Decline
  <2>2. sessions \in [Sessions -> Links]
        /\ \A t \in Sessions : ~sessions[t].exists => sessions[t].active = NoTask
    BY DEF IInv, Typed
  <2>3. s = c.session /\ sessions'[s] = [sessions[s] EXCEPT !.exists = TRUE]
    BY <1>1, <2>1, <2>2
  <2> PICK l \in Links : l = sessions[s]
    BY <2>2
  <2>4. [l EXCEPT !.exists = TRUE].active = l.active
        /\ (l.exists => [l EXCEPT !.exists = TRUE] = l)
    BY DEF Links
  <2>5. ~l.exists /\ l.active = task
    BY <1>1, <2>3, <2>4
  <2>6. task = NoTask
    BY <2>2, <2>5
  <2>7. QED
    BY <2>6 DEF Tasks, NoTask
<1>6. CASE Work(h)
  <2>1. PICK u \in Sessions, link \in Links, e \in GlobalTask :
            /\ sessions' = [sessions EXCEPT ![u] = link]
            /\ link.active = e.task
            /\ (\E x \in ToSet(directory) : x.task = e.task) =>
                  e.task = call[h].link.active \/ ForReason(call[h], e.task)
    BY <1>6, Worked
  <2>2. s = u /\ sessions'[s] = link
    BY <1>1, <2>1 DEF IInv, Typed
  <2>3. task = e.task
    BY <1>1, <2>1, <2>2
  <2>4. QED
    BY <1>2, <2>1, <2>3
<1>7. QED
  BY <1>3, <1>4, <1>5, <1>6

LEMMA ReasonShown ==
    ASSUME NEW c, NEW task, ForReason(c, task)
    PROVE  /\ c.message.mode # "new_task"
           /\ \/ c.intent = "resume_previous_task"
              \/ c.message.references \intersect {"other", "recent", "status"} # {}
              \/ Unrivalled(c, task)
              \/ /\ c.route.source = "model"
                 /\ \/ Backed(c.message, c.listed, task)
                    \/ Route(c.message, c.listed).decision = "ask_clarification"
BY DEF ForReason, Reason, RuleReason, Mentioned, Unrivalled

\* A message takes work to another task only for a reason the user can see,
\* and never when it was sent as a new task.
THEOREM SwitchesForReason == Spec => RightTask
<1>1. IInv /\ [Next]_vars =>
        \A h \in Handlers : \A task \in Tasks : SwitchesTo(h, task) =>
          LET c == call[h]
          IN  /\ c.message.mode # "new_task"
              /\ \/ c.intent = "resume_previous_task"
                 \/ c.message.references \intersect {"other", "recent", "status"} # {}
                 \/ Unrivalled(c, task)
                 \/ /\ c.route.source = "model"
                    /\ \/ Backed(c.message, c.listed, task)
                       \/ Route(c.message, c.listed).decision = "ask_clarification"
  BY SwitchedForReason, ReasonShown
<1>2. QED
  BY <1>1, Always, PTL DEF Spec, RightTask
=============================================================================
