------------------------------ MODULE MockTests ------------------------------
(***************************************************************************)
(* Practice tests of a self-learner (app/api/routers/mock_tests.py): a     *)
(* test is inserted, its questions are generated by a job of the worker,   *)
(* attempts are marked and counted.  There are two modes: "subject", and   *)
(* "roadmap" for a range of weeks.                                         *)
(* A test counts the generations that gave it questions; a list without    *)
(* any is no different from the one it is created with.                    *)
(*                                                                         *)
(* The worker never runs a job twice (max_tries = 1): one that dies or     *)
(* outlives its time limit leaves the test as it is.                       *)
(***************************************************************************)
EXTENDS Integers, FiniteSets

CONSTANTS
  Tests,         \* identities of tests
  Requests,      \* requests in flight
  MaxSubmits     \* bound on the submitted attempts

\* What the constants of an instance satisfy.
ConstantsOK ==
  /\ MaxSubmits \in Nat

VARIABLES
  test,       \* mockTests: a document, or Absent
  attempts,   \* testAttempts: what each attempt was marked by
  job,        \* the generation job of each test; "blank" saved no question
  task,       \* what each request does
  submits,    \* number of submissions begun; names the attempts
  uncounted,  \* attempts whose request died before it counted them
  cutOff      \* tests whose job ended without an outcome (history variable)

vars == <<test, attempts, job, task, submits, uncounted, cutOff>>

Absent == [mode |-> "absent"]
Modes == {"subject", "roadmap"}
Idle == [at |-> "idle"]

(* build_create_document and build_roadmap_test_document.                  *)
NewTest(mode) == [mode |-> mode, questions |-> 0, error |-> FALSE, count |-> 0]

(* Roadmap tests that have their questions come from an earlier release.   *)
Init ==
  /\ test \in [Tests -> {Absent, [NewTest("roadmap") EXCEPT !.questions = 1]}]
  /\ attempts = {}
  /\ job = [t \in Tests |-> "none"]
  /\ task = [r \in Requests |-> Idle]
  /\ submits = 0
  /\ uncounted = {}
  /\ cutOff = {}

Exists(t) == test[t] # Absent
Goto(r, x) == task' = [task EXCEPT ![r] = x]
Reply(r) == Goto(r, Idle)

-----------------------------------------------------------------------------
(* POST /mock-tests: the document first, then the job.                     *)
InsertTest(r, t, mode) ==
  /\ task[r] = Idle /\ test[t] = Absent /\ job[t] = "none"
  /\ \A q \in Requests : task[q] # Idle => task[q].of # t
  /\ test' = [test EXCEPT ![t] = NewTest(mode)]
  /\ Goto(r, [at |-> "inserted", of |-> t, mode |-> mode])
  /\ UNCHANGED <<attempts, job, submits, uncounted, cutOff>>

EnqueueGeneration(r) ==
  /\ task[r].at = "inserted" /\ task[r].mode = "subject"
  /\ job' = [job EXCEPT ![task[r].of] = "queued"]
  /\ Reply(r)
  /\ UNCHANGED <<test, attempts, submits, uncounted, cutOff>>

(* _resolve_grounding takes four arguments and is given five: the request  *)
(* ends with a TypeError before the job of a roadmap test is enqueued.     *)
GroundingRaises(r) ==
  /\ task[r].at = "inserted" /\ task[r].mode = "roadmap"
  /\ Reply(r)
  /\ UNCHANGED <<test, attempts, job, submits, uncounted, cutOff>>

-----------------------------------------------------------------------------
(* _run_generation.                                                        *)
StartJob(t) ==
  /\ job[t] = "queued"
  /\ job' = [job EXCEPT ![t] = "running"]
  /\ UNCHANGED <<test, attempts, task, submits, uncounted, cutOff>>

(* A test that is gone is not written.  Of the provider's reply only that  *)
(* it is a JSON array is checked: an empty one is saved as well.           *)
SaveQuestions(t, some) ==
  /\ job[t] = "running"
  /\ test' = IF Exists(t)
             THEN [test EXCEPT ![t].questions = @ + some] ELSE test
  /\ job' = [job EXCEPT ![t] = IF some = 0 THEN "blank" ELSE "ended"]
  /\ UNCHANGED <<attempts, task, submits, uncounted, cutOff>>

(* Mutant: a failure is only logged.                                       *)
GenerationFails_Logged(t, some) ==
  /\ job[t] = "running"
  /\ job' = [job EXCEPT ![t] = "ended"]
  /\ UNCHANGED <<test, attempts, task, submits, uncounted, cutOff>>

(* The call fails, or the save does, which may have been applied.          *)
GenerationFails(t, some) ==
  /\ job[t] = "running"
  /\ test' = IF Exists(t)
             THEN [test EXCEPT ![t] = [test[t] EXCEPT !.error = TRUE,
                                                      !.questions = test[t].questions + some]]
             ELSE test
  /\ job' = [job EXCEPT ![t] = "ended"]
  /\ UNCHANGED <<attempts, task, submits, uncounted, cutOff>>

(* The process ends, the time limit cancels the job, which its handler for *)
(* Exception does not see, or the handler's own write fails.               *)
WorkerDies(t) ==
  /\ job[t] \in {"queued", "running"}
  /\ job' = [job EXCEPT ![t] = "ended"]
  /\ cutOff' = cutOff \cup {t}
  /\ UNCHANGED <<test, attempts, task, submits, uncounted>>

-----------------------------------------------------------------------------
(* POST /mock-tests/{id}/submit.  A roadmap test needs its questions; a    *)
(* subject test is marked by those it has, none included.                  *)
ReadForSubmit(r, t) ==
  /\ task[r] = Idle /\ Exists(t) /\ submits < MaxSubmits
  /\ test[t].mode = "roadmap" => test[t].questions > 0
  /\ submits' = submits + 1
  /\ Goto(r, [at |-> "marking", of |-> t, id |-> submits + 1,
              by |-> test[t].questions, mode |-> test[t].mode,
              seen |-> test[t].count])
  /\ UNCHANGED <<test, attempts, job, uncounted, cutOff>>

(* Open answers of a roadmap test are marked by a provider.                *)
MarkingFails(r) ==
  /\ task[r].at = "marking" /\ task[r].mode = "roadmap"
  /\ Reply(r)
  /\ UNCHANGED <<test, attempts, job, submits, uncounted, cutOff>>

InsertAttempt(r) ==
  LET x == task[r] IN
  /\ x.at = "marking"
  /\ attempts' = attempts \cup {[id |-> x.id, of |-> x.of, by |-> x.by]}
  /\ Goto(r, [x EXCEPT !.at = "saved"])
  /\ UNCHANGED <<test, job, submits, uncounted, cutOff>>

(* Mutant: the count that was read is written back, with one more.         *)
CountAttempt_Stale(r) ==
  LET x == task[r] IN
  /\ x.at = "saved"
  /\ test' = IF Exists(x.of)
             THEN [test EXCEPT ![x.of].count = x.seen + 1] ELSE test
  /\ Reply(r)
  /\ UNCHANGED <<attempts, job, submits, uncounted, cutOff>>

CountAttempt(r) ==
  LET x == task[r] IN
  /\ x.at = "saved"
  /\ test' = IF Exists(x.of) THEN [test EXCEPT ![x.of].count = @ + 1] ELSE test
  /\ Reply(r)
  /\ UNCHANGED <<attempts, job, submits, uncounted, cutOff>>

RequestDies(r) ==
  /\ task[r] # Idle
  /\ uncounted' = IF task[r].at = "saved" THEN uncounted \cup {task[r].id}
                                          ELSE uncounted
  /\ Reply(r)
  /\ UNCHANGED <<test, attempts, job, submits, cutOff>>

(* DELETE /mock-tests/{id}; the attempts stay.                             *)
DeleteTest(r, t) ==
  /\ task[r] = Idle /\ Exists(t)
  /\ test' = [test EXCEPT ![t] = Absent]
  /\ job' = [job EXCEPT ![t] = IF @ = "none" THEN "ended" ELSE @]
  /\ UNCHANGED <<attempts, task, submits, uncounted, cutOff>>

RequestStep(r) ==
  \/ \E t \in Tests : \/ \E mode \in Modes : InsertTest(r, t, mode)
                      \/ ReadForSubmit(r, t)
                      \/ DeleteTest(r, t)
  \/ EnqueueGeneration(r) \/ GroundingRaises(r)
  \/ MarkingFails(r) \/ InsertAttempt(r) \/ CountAttempt(r)
  \/ RequestDies(r)

JobStep(t) ==
  \/ StartJob(t)
  \/ \E some \in {0, 1} : SaveQuestions(t, some) \/ GenerationFails(t, some)

Next ==
  \/ \E r \in Requests : RequestStep(r)
  \/ \E t \in Tests : JobStep(t) \/ WorkerDies(t)

(* A live worker takes the jobs of its queue and ends them; a live request *)
(* goes on after its insert.                                               *)
Fairness ==
  /\ \A t \in Tests : WF_vars(JobStep(t))
  /\ \A r \in Requests : WF_vars(EnqueueGeneration(r) \/ GroundingRaises(r))

Spec == Init /\ [][Next]_vars /\ Fairness

-----------------------------------------------------------------------------
Documents == [mode : Modes, questions : Nat, error : BOOLEAN,
              count : 0 .. MaxSubmits]
Working ==
  [at : {"inserted"}, of : Tests, mode : Modes]
    \cup [at : {"marking", "saved"}, of : Tests, id : 1 .. MaxSubmits,
          by : Nat, mode : Modes, seen : 0 .. MaxSubmits]

(* Types; a test is generated at most once.                                *)
TypeOK ==
  /\ test \in [Tests -> Documents \cup {Absent}]
  /\ \A t \in Tests : Exists(t) => test[t].questions <= 1
  /\ attempts \subseteq [id : 1 .. MaxSubmits, of : Tests, by : Nat]
  /\ job \in [Tests -> {"none", "queued", "running", "ended", "blank"}]
  /\ task \in [Requests -> Working \cup {Idle}]
  /\ submits \in 0 .. MaxSubmits
  /\ uncounted \subseteq 1 .. MaxSubmits
  /\ cutOff \subseteq Tests

(* The count of a test is the number of its saved attempts, but for those  *)
(* whose request has yet to count them or died first.                      *)
Uncounted(a) ==
  a.id \in uncounted
    \/ \E r \in Requests : task[r] # Idle /\ task[r].at = "saved" /\ task[r].id = a.id

CountIsAttempts ==
  \A t \in Tests : Exists(t) =>
    test[t].count = Cardinality({a \in attempts : a.of = t /\ ~Uncounted(a)})

(* What a review shows with an attempt are the questions that marked it;   *)
(* only a subject test can have been answered before it had any.           *)
ReviewShowsMarkedQuestions ==
  \A a \in attempts :
    Exists(a.of) => \/ a.by = test[a.of].questions
                    \/ a.by = 0 /\ test[a.of].mode = "subject"

(* However submissions overlap, stop or are marked late.                   *)
SubmissionsAreCounted == TypeOK /\ CountIsAttempts /\ ReviewShowsMarkedQuestions

-----------------------------------------------------------------------------
\* What the documentation says beyond this and the code does not keep: the model
\* has behaviours against it (README, "Divergences").

(* A created roadmap test comes to have questions or an error, unless it   *)
(* is deleted, its job is cut off or the request dies                      *)
(* (test_mock_tests.py:185 to 193).                                        *)
CreatedIsSettled ==
  \A t \in Tests, r \in Requests :
    task[r] = [at |-> "inserted", of |-> t, mode |-> "roadmap"] ~>
      ~Exists(t) \/ test[t].questions > 0 \/ test[t].error \/ t \in cutOff
=============================================================================
