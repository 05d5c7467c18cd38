--------------------------- MODULE LearnerFeedback ---------------------------
(***************************************************************************)
(* What a self-learner is told about their attempts: how tests and week    *)
(* quizzes are marked (app/api/routers/mock_tests.py, roadmap.py), the     *)
(* overview over all of them, and the feedback a provider writes once for  *)
(* an attempt and which is kept (self_learner_analytics.py).               *)
(*                                                                         *)
(* An attempt is named by the order of submissions.  Marks are counted in  *)
(* hundredths, percentages in tenths.  What becomes of a roadmap when      *)
(* requests overlap is in Roadmaps, of a test in MockTests.                *)
(***************************************************************************)
EXTENDS GradeArithmetic

CONSTANTS
  Tests,         \* identities of tests and week quizzes
  Paper,         \* each with its questions, as they were generated
  Scores,        \* scores a provider gives to an open answer
  HistoryLimit,  \* quizHistory keeps the last 25 entries; fewer in a run
  Requests,      \* requests for feedback in flight
  MaxSubmits,    \* bound on the attempts
  MaxPaid        \* bound on the calls of the provider

\* Kinds of attempts, as the overview names them.
Practice == "practice_test"
RoadmapTest == "roadmap_test"
Quiz == "weekly_quiz"

\* What the constants of an instance satisfy.
ConstantsOK ==
  /\ Paper \in [Tests -> [kind : {Practice, RoadmapTest, Quiz}, subject : STRING,
                          topic : STRING, difficulty : {"easy", "hard", "mixed"},
                          types : UNION {[1 .. n -> {"mcq", "open"}] : n \in 0 .. 3},
                          marks : Nat, total : Nat, penalty : Nat]]
  /\ \A t \in Tests : /\ Paper[t].kind = Quiz => Paper[t].types # <<>>
                      /\ Paper[t].kind # Practice =>
                           Paper[t].topic = "" /\ Paper[t].difficulty = "mixed"
  /\ Scores \subseteq 0 .. 100 /\ {0, 100} \subseteq Scores
  /\ {HistoryLimit, MaxSubmits, MaxPaid} \subseteq Nat /\ HistoryLimit > 0

VARIABLES
  attempts,   \* testAttempts, and quizHistory of the roadmap
  deleted,    \* tests that are deleted
  submits,    \* attempts so far
  task,       \* what each request for feedback does
  paid,       \* calls of the provider so far
  kept,       \* how often feedback was stored for each attempt (history variable)
  emptied     \* attempts whose feedback nothing was stored over (history variable)

vars == <<attempts, deleted, submits, task, paid, kept, emptied>>

Idle == [at |-> "idle"]
Questions(t) == DOMAIN Paper[t].types
Sum(f) == MapThenSumSet(LAMBDA i : f[i], DOMAIN f)
Count(f, x) == Cardinality({i \in DOMAIN f : f[i] = x})

(* round(a / b * 100, 1), and 0 where there is nothing to divide by.       *)
Tenths(a, b) == IF b = 0 THEN 0 ELSE RoundDiv(1000 * a, b)

-----------------------------------------------------------------------------
(* Marking.                                                                *)

NewAttempt(t, status, scored, total, percentage, accuracy) ==
  [id |-> submits + 1, of |-> t, kind |-> Paper[t].kind, status |-> status,
   correct |-> Count(status, "correct"), wrong |-> Count(status, "wrong"),
   skipped |-> Count(status, "skipped"), scored |-> scored, total |-> total,
   percentage |-> percentage, accuracy |-> accuracy, insights |-> "none"]

(* _evaluate_answers: a wrong answer may cost marks, a test never does.    *)
Awarded(t, s) ==
  CASE s = "correct" -> Paper[t].marks
    [] s = "wrong" -> -Paper[t].penalty
    [] s = "skipped" -> 0

(* submit_test.                                                            *)
PracticeAttempt(t, status) ==
  LET scored == Max({0, Sum([i \in DOMAIN status |-> Awarded(t, status[i])])})
      c == Count(status, "correct")
  IN  NewAttempt(t, status, scored, Paper[t].total, Tenths(scored, Paper[t].total),
                 Tenths(c, c + Count(status, "wrong")))

Passes(score) == IF score >= 50 THEN "correct" ELSE "wrong"

(* _submit_roadmap_test.                                                   *)
RoadmapAttempt(t, score) ==
  LET n == Cardinality(Questions(t))
      percentage == Tenths(Sum(score), 100 * n)
  IN  NewAttempt(t, [i \in DOMAIN score |-> Passes(score[i])],
                 Sum(score), 100 * n, percentage, percentage)

(* submit_quiz as the overview shows it: the percentage is the whole one   *)
(* that passes the week, the score the number of correct answers.          *)
QuizAttempt(t, score) ==
  LET n == Cardinality(Questions(t))
      status == [i \in DOMAIN score |-> Passes(score[i])]
      c == Count(status, "correct")
  IN  NewAttempt(t, status, 100 * c, 100 * n,
                 10 * RoundDiv(Sum(score), n), Tenths(c, n))

ScoresFor(t) ==
  {f \in [Questions(t) -> Scores] :
     \A i \in Questions(t) : Paper[t].types[i] = "mcq" => f[i] \in {0, 100}}

(* The oldest entries of the history are dropped.                          *)
Limited(table) ==
  {a \in table : a.kind # Quiz \/ Cardinality({b \in table : b.kind = Quiz /\ b.id > a.id})
                                    < HistoryLimit}

-----------------------------------------------------------------------------
Init ==
  /\ attempts = {} /\ deleted = {}
  /\ submits = 0 /\ paid = 0
  /\ task = [r \in Requests |-> Idle]
  /\ kept = [n \in 1 .. MaxSubmits |-> 0]
  /\ emptied = {}

Submit(t) ==
  /\ submits < MaxSubmits /\ t \notin deleted
  /\ CASE Paper[t].kind = Practice ->
            \E status \in [Questions(t) -> {"correct", "wrong", "skipped"}] :
              attempts' = attempts \cup {PracticeAttempt(t, status)}
       [] Paper[t].kind = RoadmapTest ->
            /\ Questions(t) # {}
            /\ \E score \in ScoresFor(t) : attempts' = attempts \cup {RoadmapAttempt(t, score)}
       [] Paper[t].kind = Quiz ->
            \E score \in ScoresFor(t) :
              attempts' = Limited(attempts \cup {QuizAttempt(t, score)})
  /\ submits' = submits + 1
  /\ UNCHANGED <<deleted, task, paid, kept, emptied>>

DeleteTest(t) ==
  /\ Paper[t].kind # Quiz /\ t \notin deleted
  /\ deleted' = deleted \cup {t}
  /\ UNCHANGED <<attempts, submits, task, paid, kept, emptied>>

(* get_attempt_insight: an attempt whose feedback is kept is answered at   *)
(* once; one without questions is refused.                                 *)
Asked(a) == a.insights = "none" /\ DOMAIN a.status # {}

AskFeedback(r, a) ==
  /\ task[r] = Idle /\ Asked(a)
  /\ task' = [task EXCEPT ![r] = [at |-> "asking", id |-> a.id]]
  /\ UNCHANGED <<attempts, deleted, submits, paid, kept, emptied>>

(* generate_attempt_insight, which is charged whatever it returns.  A text *)
(* that cannot be parsed, or has no insights, is an empty list; insights   *)
(* that are no list of objects are returned as they are.                   *)
Reply(r) ==
  /\ task[r].at = "asking" /\ paid < MaxPaid
  /\ paid' = paid + 1
  /\ \E insights \in {"none", "good", "broken"} :
       task' = [task EXCEPT ![r] = [at |-> "answered", id |-> @.id, insights |-> insights]]
  /\ UNCHANGED <<attempts, deleted, submits, kept, emptied>>

(* An entry that left the history meanwhile is not written.                *)
KeepFeedback(r) ==
  LET x == task[r]
      mine == {a \in attempts : a.id = x.id}
  IN
  /\ x.at = "answered"
  /\ attempts' = (attempts \ mine) \cup {[a EXCEPT !.insights = x.insights] : a \in mine}
  /\ kept' = IF x.insights # "none" /\ mine # {} THEN [kept EXCEPT ![x.id] = @ + 1] ELSE kept
  /\ emptied' = IF x.insights = "none" /\ kept[x.id] > 0 THEN emptied \cup {x.id} ELSE emptied
  /\ task' = [task EXCEPT ![r] = Idle]
  /\ UNCHANGED <<deleted, submits, paid>>

(* The call raises, or its reply is no object, or the request dies.        *)
RequestFails(r) ==
  /\ task[r] # Idle
  /\ task' = [task EXCEPT ![r] = Idle]
  /\ UNCHANGED <<attempts, deleted, submits, paid, kept, emptied>>

Next ==
  \/ \E t \in Tests : Submit(t) \/ DeleteTest(t)
  \/ \E r \in Requests :
       \/ \E a \in attempts : AskFeedback(r, a)
       \/ Reply(r) \/ KeepFeedback(r) \/ RequestFails(r)

Spec == Init /\ [][Next]_vars

-----------------------------------------------------------------------------
(* get_analytics_overview, of the attempts since some submission.          *)

Since(n) == {a \in attempts : a.id > n}
OfTests(table) == {a \in table : a.kind # Quiz}
SumOver(f(_), table) == MapThenSumSet(f, table)

(* round(average, 1) of percentages in tenths.                             *)
Mean(f(_), table) ==
  IF table = {} THEN 0 ELSE RoundDiv(SumOver(f, table), Cardinality(table))

(* The newest first.                                                       *)
Listed(table) == SetToSortSeq(table, LAMBDA a, b : a.id > b.id)

Summary(table) ==
  [testsAttempted |-> Cardinality(table),
   totalQuestions |-> SumOver(LAMBDA a : a.correct + a.wrong + a.skipped, table),
   avgScore |-> Mean(LAMBDA a : a.percentage, table),
   bestScore |-> Max({0} \cup {a.percentage : a \in table}),
   avgAccuracy |-> Mean(LAMBDA a : a.accuracy, table)]

(* The mean of the newer half less that of the older, times the sizes of   *)
(* both.                                                                   *)
Improvement(table) ==
  LET list == Listed(table)
      n == Len(list)
      newer == {list[i] : i \in 1 .. n \div 2}
      older == table \ newer
  IN  SumOver(LAMBDA a : a.percentage, newer) * Cardinality(older)
        - SumOver(LAMBDA a : a.percentage, older) * Cardinality(newer)

(* What is known of a test that was deleted is nothing.                    *)
TopicOf(a) == IF a.of \in deleted \/ Paper[a.of].topic = "" THEN "General" ELSE Paper[a.of].topic
DifficultyOf(a) == IF a.of \in deleted THEN "mixed" ELSE Paper[a.of].difficulty

(* Practice attempts are stored without the types of their questions.      *)
TypeOf(a, i) == IF a.kind = RoadmapTest THEN Paper[a.of].types[i] ELSE "mcq"

Grouped(keyOf(_), amount(_), table) ==
  [key \in {keyOf(a) : a \in table} |->
     SumOver(amount, {a \in table : keyOf(a) = key})]

Total(groups) == MapThenSumSet(LAMBDA key : groups[key], DOMAIN groups)

SubjectScored(table) == Grouped(LAMBDA a : Paper[a.of].subject, LAMBDA a : a.scored, table)
SubjectTotal(table) == Grouped(LAMBDA a : Paper[a.of].subject, LAMBDA a : a.total, table)
TopicCorrect(table) == Grouped(TopicOf, LAMBDA a : a.correct, OfTests(table))
TopicTotal(table) == Grouped(TopicOf, LAMBDA a : a.correct + a.wrong, OfTests(table))

DifficultyTotal(table) ==
  Grouped(DifficultyOf, LAMBDA a : a.correct + a.wrong,
          {a \in OfTests(table) : DifficultyOf(a) # "mixed"})

Answers(table) == UNION {{<<a, i>> : i \in DOMAIN a.status} : a \in OfTests(table)}
TypeTotal(table) == Grouped(LAMBDA q : TypeOf(q[1], q[2]), LAMBDA q : 1, Answers(table))

(* What a learner is good at, and what to work on.                         *)
Strong(a, b) == Tenths(a, b) >= 750
Weak(a, b) == Tenths(a, b) < 500

(* Subjects by marks, topics by correct answers; those without a topic are *)
(* nothing to work on.                                                     *)
Strengths(table) ==
  {<<"subject", s>> : s \in {s \in DOMAIN SubjectTotal(table) :
     Strong(SubjectScored(table)[s], SubjectTotal(table)[s])}}
  \cup {<<"topic", s>> : s \in {s \in DOMAIN TopicTotal(table) : TopicTotal(table)[s] > 0 /\
     Strong(TopicCorrect(table)[s], TopicTotal(table)[s])}}
Improvements(table) ==
  {<<"subject", s>> : s \in {s \in DOMAIN SubjectTotal(table) :
     Weak(SubjectScored(table)[s], SubjectTotal(table)[s])}}
  \cup {<<"topic", s>> : s \in {s \in DOMAIN TopicTotal(table) : TopicTotal(table)[s] > 0 /\
     s # "General" /\ Weak(TopicCorrect(table)[s], TopicTotal(table)[s])}}

-----------------------------------------------------------------------------
(* Types; the history is limited.                                          *)
TypeOK ==
  /\ \A a \in attempts :
       /\ a.id \in 1 .. submits /\ a.of \in Tests
       /\ a.insights \in {"none", "good", "broken"}
       /\ {a.correct, a.wrong, a.skipped, a.scored, a.total, a.accuracy} \subseteq Nat
       /\ a.accuracy <= 1000
  /\ \A a, b \in attempts : a.id = b.id => a = b
  /\ Cardinality({a \in attempts : a.kind = Quiz}) <= HistoryLimit
  /\ deleted \subseteq Tests
  /\ submits \in 0 .. MaxSubmits /\ paid \in 0 .. MaxPaid
  /\ \A r \in Requests : task[r] # Idle => task[r].id \in 1 .. submits
  /\ kept \in [1 .. MaxSubmits -> 0 .. MaxPaid]
  /\ emptied \subseteq 1 .. submits

(* Whoever answers at least as well in every question of the same paper    *)
(* has at least the marks, the percentage and the accuracy, wrong answers  *)
(* that cost marks and answers left out included.                          *)
Worth(s) == CASE s = "correct" -> 2 [] s = "skipped" -> 1 [] s = "wrong" -> 0

BetterAnswersBetterScore ==
  \A a, b \in attempts :
    /\ a.of = b.of /\ a.kind = Practice
    /\ \A i \in DOMAIN a.status : Worth(a.status[i]) >= Worth(b.status[i])
    => /\ a.scored >= b.scored /\ a.percentage >= b.percentage
       /\ a.correct + a.wrong > 0 => a.accuracy >= b.accuracy

(* Every table of the overview counts the same attempts, of tests that are *)
(* deleted too: their sums are those of the summary.  A subject in which   *)
(* every mark was got, or none, is a strength, or something to work on.    *)
TablesAddUp ==
  \A n \in 0 .. submits :
    LET all == Since(n)
        tests == OfTests(all)
    IN  /\ Total(SubjectScored(all)) = SumOver(LAMBDA a : a.scored, all)
        /\ Total(TypeTotal(all)) + SumOver(LAMBDA a : Len(a.status), all \ tests)
             = Summary(all).totalQuestions
        /\ Total(TopicTotal(all)) + SumOver(LAMBDA a : a.skipped, tests) = Total(TypeTotal(all))
        /\ Total(TopicCorrect(all)) = SumOver(LAMBDA a : a.correct, tests)
        /\ Total(DifficultyTotal(all)) <= Total(TopicTotal(all))
        /\ \A s \in DOMAIN SubjectTotal(all) :
             LET ofSubject == {a \in all : Paper[a.of].subject = s} IN
             /\ (\A a \in ofSubject : a.scored = a.total) => <<"subject", s>> \in Strengths(all)
             /\ (\A a \in ofSubject : a.scored = 0) => <<"subject", s>> \in Improvements(all)
        /\ Summary(all).bestScore >= Summary(all).avgScore

(* Whoever is never worse than before is not told of a decline, nor the    *)
(* other way round, over whatever range that holds four attempts.          *)
ImprovementIsTrue ==
  \A n \in {n \in 0 .. submits : Cardinality(Since(n)) >= 4} :
    LET all == Since(n) IN
    /\ (\A a, b \in all : a.id < b.id => a.percentage <= b.percentage) => Improvement(all) >= 0
    /\ (\A a, b \in all : a.id < b.id => a.percentage >= b.percentage) => Improvement(all) <= 0

(* Feedback that is kept is not bought again: it was stored for an attempt *)
(* once for every request that was already under way, at the most.  Until  *)
(* one of those stores an empty reply over it (README, "Divergences").     *)
FeedbackBoughtOnce ==
  \A n \in 1 .. MaxSubmits :
    kept[n] > 0 /\ n \notin emptied =>
      kept[n] + Cardinality({r \in Requests : task[r] # Idle /\ task[r].id = n})
        <= Cardinality(Requests)

-----------------------------------------------------------------------------
\* What one would expect beyond this and the code does not keep: the model has
\* behaviours against it (README, "Divergences").

(* A percentage is at most 100 (totalMarks is that of the questions asked  *)
(* for, mock_tests.py:120 updates their number alone).                     *)
WithinTotal == \A a \in attempts : a.percentage <= 1000

(* Feedback is generated once or returned from what is kept                *)
(* (self_learner_analytics.py:426): a late reply may empty it, and one     *)
(* that is no list of objects is kept and fails every later request.       *)
FeedbackStays ==
  \A a \in attempts : kept[a.id] > 0 => a.insights = "good"

(* The breakdown by type counts the types of the questions                 *)
(* (self_learner_analytics.py:294 finds none in a practice attempt).       *)
TypesAreCounted ==
  \A a \in OfTests(attempts) : \A i \in DOMAIN a.status : TypeOf(a, i) = Paper[a.of].types[i]
=============================================================================
