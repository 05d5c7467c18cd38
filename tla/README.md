# A TLA+ model of lms-evaluation-backend

The backend (FastAPI, MongoDB, Redis, arq workers) lets faculty generate and
upload question papers, rubrics and answer scripts, has scripts graded by AI
providers that bill per call, lets faculty review or type in marks, and derives
results, course-outcome reports and academic transcripts from them. Beside that
it keeps an institute's hierarchy and accounts, and gives students mock tests,
roadmaps, a tutor and an index of their course material.

Most requests are short; the ones worth a model run for minutes, read several
documents, and write back into a database other requests have changed meanwhile.
There are no locks: all coordination is by compare-and-set filters, revision
counters, one permanent barrier per exam, MongoDB transactions and Redis `WATCH`,
and in many places by nothing at all.

Paths below are relative to `src/app/` unless they begin with `docs/` or `src/`.
`PROJECT.json` maps every definition to the lines it stands for, and lists the
hazards, each at its line, with the properties that would catch it.

## 1. Inventory

| Component | State it keeps | Operations | Hard behaviour |
|---|---|---|---|
| Submission of billed jobs: `services/job_submission.py`, `services/job_store.py`, `core/queue.py`, `worker.py`, routes in `api/routers/grading.py`, `api/routers/question_paper.py` | guard field in a MongoDB document; one Redis record per job with a TTL; arq queue | claim, reconnect, release, dispatch, claim execution, progress, finish, interrupt | lost replies, ambiguous dispatch, redelivery, killed workers, expiring records, concurrent POSTs |
| Evaluation: `api/routers/grading.py`, `services/result_revision.py`, `services/grading.py` | `answerDetails` (marks, revision, report), file store, usage events | read exam, answer, rubric; read pages; grade; upload; save; clean up | minutes between read and write; pages asked for again; unknown commit outcome |
| Faculty review: `services/faculty_review.py`, `services/review_marks.py` | `answerDetails`, `answerReviewHistory` | open form, submit, publish, verify | two reviewers, review against evaluation |
| Manual marks: `api/routers/answers.py`, `services/manual_marks.py` | `answerDetails` named `MANUAL-<student>` | validate, save a batch | rubric or paper changing between the reads and the save |
| Question paper of an exam: `api/routers/exams.py`, `services/gemini.py`, `services/exam_paper_lock.py`, `services/paper_version.py` | `newsavedDocs.question_paper`, `paper_locked` | replace, extract text | replacement under running evaluations |
| Stored and generated papers: `api/routers/question_paper.py`, `services/paper_blueprint.py`, `models/question_paper.py`, `services/imagekit.py` | `questionPapers`, a Word file for each revision | generate, save, edit, rename, remove | a write in doubt whose file must stay; splits with a remainder |
| MCQ key: `services/mcq_grading.py` | `mcq_answer_key`, its version and context | resolve after an upload or lazily, score | the paper replaced while a key is resolved |
| Rubric: `api/routers/evaluation.py`, `services/rubric_commit.py`, `services/question_mapping.py`, `services/paper_marks.py`, `services/question_parts.py` | `evaluationDetails`, `rubric_revision`, question mapping | map, confirm, commit | labels that repeat; edits under running evaluations |
| Rubric suggestions: `services/rubric_suggestions.py`, `api/routers/evaluation.py` | `rubricSuggestions`: attempt, claim, batches | start, retry, run batches | a late worker of a replaced attempt |
| Mark arithmetic: `services/choice_groups.py`, `services/grading_validation.py`, `services/review_marks.py`, `utils/grading_helper.py`, `utils/grade_points.py`, `utils/composite_helper.py` | none | pure functions | ties, remainders, boundaries |
| Uploads, receipts, deletion: `services/answer_persistence.py`, `services/answer_identity.py`, `api/routers/answers.py` | `storageAssets`, `answerDetails` | verify, save, rename, tombstone, delete | duplicate saves, saves after a delete |
| Results: `api/routers/subject_results.py`, `api/routers/relative_grading.py`, `api/routers/marks_import.py`, `services/co_excel.py` | grading schemes, imported marks | composites, relative grades, combined results, attainment report | many reads for one result; formula and mirror |
| Transcripts: `services/transcript_commit.py`, `utils/transcript_generation_helper.py`, `utils/transcript_excel_helper.py`, `api/routers/transcripts.py` | `academic_transcripts`, two revisions of a batch | invalidate, compute, publish, import, export | marks changing during the computation, cascading CGPA |
| Usage ledger: `services/ai_usage.py`, `services/ai_usage_rollups.py`, `services/faculty_ai_usage.py` | `aiUsageEvents`, token totals | create once, finalize once, project, reconcile | failed writes, projections out of order |
| Institute: `api/routers/institute_hierarchy.py`, `models/batch.py`, `api/routers/auth.py`, `api/routers/profile.py`, `utils/cascade.py`, `services/student_deletion.py`, `core/cache.py` | hierarchy, accounts, cached lists | create, edit, cascade | cascades that stop halfway, registrations that overlap, caches behind |
| Enrolment and material: `api/routers/student_subjects.py`, `api/routers/faculty_materials.py` | relations, materials, interactions | enrol, publish, visit, submit | subjects reassigned meanwhile; two first visits |
| Sessions and limits: `api/deps.py`, `core/redis_client.py`, `core/rate_limit.py` | users, account-state cache, revocations, counters | login, logout, revoke, count | stale account state, expiry between two commands |
| Self-learning: `api/routers/mock_tests.py`, `api/routers/roadmap.py`, `api/routers/self_learner_analytics.py` | one document per roadmap, test, attempt | generate, submit, review, tick, give feedback | read-modify-write of whole documents, calls in between |
| Tutor and course material: `api/routers/ai_tutor.py`, `services/rag/`, `api/routers/course_material.py` | notes, files, documents, trees, vectors | read, write, render, index, retrieve | stores that fail one by one, short extractions |
| Rendering, prompts, diagnostics | | | pure, or no state |

How they interact. A POST claims a submission and enqueues a job; the worker
claims the execution, reads exam, answer and rubric, calls the providers (each
call is entered in the ledger), uploads a report and saves marks in one
transaction. That transaction also increments the batch's source revision and
flags transcripts as stale, after which transcripts of the semester are
recomputed and published under their own revision check. Reviews and manual
entries end in the same kind of transaction. Replacing the paper or the rubric
is allowed until the exam's barrier `paper_locked` is set by the first
evaluation, review or manual entry, and never again. The other components meet
only in ids they hold of each other.

## 2. Modules

Each component has a module of its own; its header names the files it models,
and the comment at each variable the documents it stands for. Every awaited
operation that reads or writes shared state is an action, a MongoDB transaction
or a Redis `WATCH` loop is one step, and everything between two awaits belongs to
the step before it. Processes, documents, texts and files are named by model
values, strings or small numbers; prompts, rendering and wording are left out.

`JobSubmission` and `ExamResults` are the core and are checked alone. The other
components share no state with one another in the model, so interleaving their
steps would multiply states and show nothing: four modules put them side by
side, with a variable `scenario` that is chosen at the start and says which one
moves. Variables of the others are `Inactive`. Each of these modules declares
the constants of its components, names their assumptions
(`ASSUME UsageConstants == Usage!ConstantsOK` and the like), and its theorems
hold for all values; the values of the runs are in its .cfg, or at the module's
end where they are functions.

| Module | Contains | Scenarios |
|---|---|---|
| `Papers` | `QuestionPapers`, `PaperGeneration`, `McqAnswerKey`, `RubricSuggestions` (twice), `QuestionMapping` (twice), `ScriptReading`, `Marking`, `PartMarks` | papers, generation, key, suggestions, overruled, mapping, confirming, script, marks, parts |
| `Results` | `AnswerUploads`, `SubjectResults`, `CoAttainment`, `Transcripts`, `TranscriptSheets` | uploads, subject, attainment, transcripts, sheets |
| `Institute` | `Hierarchy`, `HierarchyCache`, `Enrolment`, `SubjectMaterials`, `UsageLedger` | hierarchy, cache, accounts, tutors, materials, usage |
| `Students` | `AccountState`, `RateLimit`, `MockTests`, `Roadmaps`, `RoadmapMaterials`, `TutorNotes`, `CourseIndex`, `LearnerFeedback` (twice) | account, limits, tests, progress, lessons, tutor, index, feedback, overview |
| `MCLive` | `MockTests` and `UsageLedger` with fairness | tests, usage |

Abstract specifications: `SingleFlight` (two jobs of one submission never start
provider calls together, and a settled job starts none; it says of late calls only
that each ends for good), which `JobSubmission` implements, and `PaidBatches` (one
attempt buys at a time, and no stored batch again), which `RubricSuggestions`
implements.

### JobSubmission

State: `exists` and `guard` (the document and its guard field), `status` and
`started` (Redis records), `pc`, `attempts`, `seen`, `reply` (the handlers),
`queue`, `stage`, `calls`, `executions` (queue and workers; `calls` is how many
provider calls of a job are in flight). A POST draws one uuid for
its candidate job before it claims, so a request and its candidate share a name.

`FindActive`, `LookupActive`, `ReleasePrevious`, `CreateCandidate`, `ClaimGuard`,
`RejectCandidate`, `GiveUp` are the loop of `claim_submission`; `CheckBudget`,
`RefuseForBudget`, `WithdrawClaim`, `Dispatch`, `ReportUncertain` the rest of the
route; `Deliver`, `Progress`, `StartCalls`, `CallReturns`, `CallFails`, `Finish`,
`ReportFailure`, `Close` the worker. A job awaits one provider call or gathers up to
`MaxGathered`. The first that raises ends the job (`CallFails`); the others are
shielded (`services/faculty_ai_usage.py:73`), return when they do, and do not keep
`Close` from giving up the guard. Hence two places in which a job stands to its
calls: `Unsettled`, it may start more, and `LeftBehind`, some outlive it.
`RequestDies`, `Interrupt`, `DropMessage`, `Expire` and `DeleteDocument` are what
the environment may do at any time: a process stops or a call raises, a worker is
cancelled (with or without managing to write "interrupted"), a message is lost, a
record's TTL runs out or Redis evicts it, the answer is deleted. `Dispatch` may
fail with the message queued; a delivered message may stay in the queue.

A question paper is generated through the same protocol with the guard in the
`users` document; there `exists` stays true, and the route has no exam barrier
(the barrier's failure is part of `Dispatch`, whose exception branch it shares).

### ExamResults

State: `exam` (paper, text, barrier, rubric revision), `rubric`, `answers` (with
`id`, so that a document created again under the same name is another document),
`storage` (uploaded reports), `doomed` (files of deleted answers not removed
yet), `history` (review events), `task` (what each process has read and where it
is). `basis` is the only variable the program lacks: the paper and the rubric the
marks were computed from.

Processes are sets of constants: `Evaluations`, `Reviews`, `Entries`, `Uploads`,
`Edits`. `UploadReport` stands for everything between the read of the rubric and
the second check of the paper; what happens there is in `ScriptReading`,
`McqAnswerKey` and `Marking`. A transaction's commit may be unconfirmed, which
the code sees as an exception. `BreakEvaluation` and `BreakReview` are the
exceptions, cancellations and crashes. Access checks, `faculty_id` and
`covered_cos` only refuse and are left out; `answer_write_revision` is a fence
that makes MongoDB serialise transactions and needs no variable here. The guard
is claimed in one step (`ClaimEvaluation`), which allows at least what
`JobSubmission` allows. A cascade that deletes a batch is in `Hierarchy`.

### Papers

- `QuestionPapers` (`api/routers/question_paper.py`, CRUD): a paper, the files of
  its revisions and the edits under way. An edit reads, builds and uploads a
  file from the header it read, and writes under the revision; the write may be
  in doubt, after which the paper is read again to decide whose file is removed.
- `PaperGeneration` (`services/paper_blueprint.py`, `_run_generation_job`): the
  split of the marks over sections, the blueprint, which replies are returned and
  what was paid. The numbers are calculated, the questions are not.
- `McqAnswerKey` (`services/mcq_grading.py`, `api/routers/exams.py`): one
  question's key; papers of older deployments have no version and are told apart
  by a fingerprint, which is why a tag is a pair.
- `RubricSuggestions` (`services/rubric_suggestions.py`): `record` is the
  document, `request` the POSTs, `worker` the attempts' workers. `Careful` says
  that an operator fails only attempts nothing works on, as
  `docs/phase6_job_operations.md` asks; "overruled" is the scenario without it.
- `QuestionMapping` (`services/question_mapping.py`, `services/paper_marks.py`):
  a text is a sequence of lines, each what the patterns make of it.
- `ScriptReading` (`services/grading.py`, `services/faculty_ai_usage.py`): the
  pages of a script, the two calls after it, and the event each is charged to.
- `Marking` and `PartMarks` (`services/choice_groups.py`,
  `services/grading_validation.py`, `services/manual_marks.py`,
  `services/review_marks.py`, `services/question_parts.py`): marks are integers,
  units of the smallest step.

### Results

- `AnswerUploads` (`services/answer_persistence.py`): receipts, the answers of one
  exam and the requests on them. An id is drawn by the request that inserts.
- `GradeArithmetic` (`utils/grading_helper.py`, `utils/grade_points.py`) has the
  ranks, bands and averages that `SubjectResults`, `TranscriptSheets` and
  `LearnerFeedback` use. Rounding is to even, as Python's.
- `SubjectResults` (`api/routers/subject_results.py`): the combined result reads
  answers and schemes subject by subject, each read an action.
- `CoAttainment` (`services/co_excel.py`): the numbers the code keeps and those
  the workbook's formulas give, from the same answers.
- `Transcripts` (`services/transcript_commit.py`, `services/result_revision.py`,
  `utils/transcript_generation_helper.py`): revisions, stale flags, publications.
  Marks are version numbers, and a cumulative value is the choice of the rows it
  sums, so that "out of date" is a comparison.
- `TranscriptSheets` (`utils/transcript_excel_helper.py`,
  `api/routers/transcripts.py`): the parser row by row, grading, repair, export,
  certificate.

### Institute

- `Hierarchy` (`api/routers/institute_hierarchy.py`, `models/batch.py`): rows of
  nine kinds with the owners they name; a DELETE is its sequence of operations,
  each with the ids it found, and may stop between any two.
- `HierarchyCache` (`core/cache.py`): the loads, the stores, the scan page by page
  and the deletes of one institute's lists.
- `Enrolment` (`api/routers/auth.py`, `api/routers/profile.py`,
  `utils/cascade.py`, `services/student_deletion.py`): accounts and details, which
  are separate documents, and every endpoint that changes either. `met` in a
  request is the set of requests it overlapped (a history variable). Students are
  registered by the institute's account or by its faculty (`Callers`), whose own
  flags are read by the check of `AccountState`.
- `SubjectMaterials` (`api/routers/student_subjects.py`,
  `api/routers/faculty_materials.py`): enrolments, materials and visits.
- `UsageLedger` (`services/ai_usage.py`, `services/ai_usage_rollups.py`): events,
  baselines, totals; a projection reads the events and writes later.

### Students

- `AccountState` (`api/deps.py`, `core/redis_client.py`): a clock in steps of one
  unit, the cached state and the revocations with their expiry. Reads fail as
  writes do; `unread` is what a request could not read (a history variable).
- `RateLimit` (`core/rate_limit.py`): `SET NX EX` and `INCR` as two steps.
- `MockTests`, `Roadmaps`, `RoadmapMaterials`, `LearnerFeedback`
  (`api/routers/mock_tests.py`, `api/routers/roadmap.py`,
  `api/routers/self_learner_analytics.py`): documents that requests read, and
  write back after a call.
- `TutorNotes` (`api/routers/ai_tutor.py`, `services/rag/pdf_extract.py`,
  `services/gemini.py`): a job from its document to its note; a text is the
  sequence of the page numbers it holds. The ledger may give up on a charge
  (`unbilled`, a history variable), and a reply may not tell what it cost.
- `CourseIndex` (`api/routers/course_material.py`, `services/rag/`): files are
  lines and sentences; the tree and the chunks are computed.

## 3. Runs

| Run | Instance | Properties | Shows |
|---|---|---|---|
| `job_submission` | 3 requests of 1 user, 2 rounds, 1 call at a time, symmetry; 2.0 M states | `TypeOK`, `ExecutesOnce`, `OnlyClaimantsRun`, `FinalStatusIsFinal` | one worker executes a job, a refused request leaves nothing to run |
| `job_pair` | 2 requests of 1 user, 3 rounds, 2 gathered calls, fairness; 0.2 M states | `SpendIsFenced`, `SingleFlightSpec`, `FinishedJobYields` | one job at a time may start calls; only what a failed gather left overlaps another job; a finished job yields the guard |
| `exam_freeze` | 1 process of each of the five kinds, 1 script and 1 manual answer; 0.5 M states | `TypeOK`, `MarksMatchExam` | paper and rubric never change under marks |
| `exam_reviews` | 2 evaluations, 2 reviews, 1 script, symmetry; 1.6 M states | `HistoryDoesNotFork`, `ReviewReportIsStored`, `ReviewedMarksAreProtected`, `ScriptReviewsAreExact` | nothing is lost under a review |
| `exam_manual` | 2 entries, 1 review, 1 manual answer | `ManualReviewsAreExact` (violated) | finding 1 |
| `exam_report` | 1 evaluation, 1 script | `EvaluationReportIsStored` (violated) | finding 2 |
| `papers` | ten scenarios of `Papers`; 0.95 M states | `TypeOK`, `PapersKept`, `QuestionsAsMeant`, `ScriptsMarkedByOwnPaper`, `PaidForOnce`, `MarksAreBest`, `BatchesBoughtOnce`, `OvertakenWritesNothing` | from a question paper to its marks |
| `results` | five scenarios of `Results`; 0.4 M states | `TypeOK`, `AnswersStay`, `ResultsFollowMarks`, `SheetsAgree`, `TranscriptsCurrent` | from saved answers to what is published about them |
| `results_mirror` | the instance of `results` | `ReportIsMirrored` (violated) | finding 3 |
| `institute` | six scenarios of `Institute`; 1.5 M states | `TypeOK`, `AnomaliesMeanRaces`, `MaterialsForEnrolled`, `LedgerExact`, `CascadesAreComplete` | what goes wrong only by an overlap, and what never does |
| `students` | nine scenarios of `Students`; 1.9 M states | `TypeOK`, `AdmittedAsTold`, `SubmissionsAreCounted`, `RoadmapsAgree`, `DoneIsBacked`, `ContentsAreTrue` | what a student meets |
| `live` | one usage call with two owners, two tests; fairness | `EnqueuedIsSettled`, `EventuallyCounted` | what must come to an end |

A property of a composition is a conjunction over its scenarios, and each conjunct
names the component's property that is meant; the comments there say what it is
about.

### Bounds

`JobSubmission`: `MaxAttempts` is a constant of the code (3), cut to two rounds
for three requests. Three requests are one that holds the guard, one that
displaces it, and one that still acts on the guard it read before; every race the
loop has is between those roles. Two requests suffice for `job_pair`: the job whose
gather failed, and the one that starts beside what it left. Two gathered calls are
what the code has (grading and transcript).

`ExamResults`: only the number of processes is bounded. Counters need no bound of
their own; `DeleteAnswer` and `SaveEntry` are limited by the number of entries.

`Papers`: one paper, two editors, two versions (`MaxEdits`): the writer, the one it
overtakes, the version neither read. All splits of up to three sections over up to
five marks, with shares that leave a rest. Two evaluations and two replacements of
the paper, that is one under each outstanding call. Two POSTs and two batches of
suggestions with one change of the paper; one batch when an operator overrules. A
script of two pages: a first, and one after it. Two options of a multiple-choice
question: the one the key has, and another. Every text of up to three lines of
ten kinds, and of four lines of seven kinds. Every sequence of marks on eight
rubric forms, refused ones included, and on nine forms of a question with parts.

`Results`: two files of one student's name, a manual entry, an old answer without
a student id, three requests. A class of three and three exams in two subjects for
a result, with two ways they are marked, four schemes, two sheets, two requests
that overlap and one change of an answer or deletion of a subject; the theorem
holds for any. An attainment report with the bands of the reference workbook, with
three bands that leave gaps between them, and with two; a class of two, so that
half of it may lie between two bands. Transcripts: two semesters,
two students, two publications, one change of marks (`MaxChanges`): the one that
makes a read stale. Every sheet of two to four rows of six kinds and every pair of
eleven blocks, on one sheet or two, and two publications.

`Institute`: one row of each kind and a batch that has no department; the
hierarchy is absent or whole at first, and up to two requests stop halfway
(`MaxKills`). Two lists, readers and writers, two writes. Three requests on the
accounts of the institute and five on those of tutors, each with endpoints of its
own (`Work`), and one that stops. Four requests on the material of two subjects of
two institutes, a student who asks for one subject twice. One call of each product,
two attempts of each write, and one failure (`MaxFaults`). The theorems about
these components hold for any number of requests and failures.

`Students`: a session that ends and one that goes on, two events in three units of
time; four requests on a window that admits two, and a second window; two tests,
two requests, three submissions; three weeks of one subtopic; three requests for
lessons; `MaxDates` smaller than the days that pass, so that the streak outgrows the
dates that are kept (30 in the code); one job on each of five documents, one of which has more scanned pages
than a batch; two uploads of files that share a title or the bytes. Files are told
apart by their hash, as in the code (`ConstantsOK`: files of one SHA-256 are one).

`CHECK_DEADLOCK FALSE` is right in every run: processes act a bounded number of
times, and the system stops when all have. Symmetry is used only in runs without
liveness properties and only over values no constant tells apart.

### Fairness

`job_pair` assumes weak fairness of `HandlerStep(r)`: the event loop keeps running
a handler that has not answered, its awaited calls return or raise (a raise is
`RequestDies`, which needs no fairness). Nothing is assumed of workers, queue or
Redis, and `FinishedJobYields` is conditioned accordingly.

`live` assumes weak fairness of `Generates(t)` (a live worker takes a queued job
and ends it, `worker.py`), of `GoesOn(r)` (a request that inserted a test goes
on to enqueue its job or to raise) and of `Reconciles` (the loop of
`services/ai_usage_rollups.py` runs in every server process). A job that is cut
off by the time limit or a killed worker before it wrote an outcome, and one whose
reply held no question, are exceptions of `EnqueuedIsSettled` because the code makes
none for them; failures of ledger writes are bounded by
`MaxFaults`, after which the reconciler's next pass gets through.

### Mutants

Each property has a plausible bug it detects, kept next to the definition it
changes as `<Definition>_<Bug>`: a release that does not compare the job id, an
execution claim that ignores `execution_started`, a save that does not filter on
the revision, a scan that stops after its first page, a rank that counts
positions instead of better marks, and so on.

### Findings

1. `ManualReviewsAreExact`: `manual_marks_entry` (`api/routers/answers.py:248`)
   rewrites marks and leaves `result_revision` alone, so a review form opened
   before passes the revision check and replaces marks nobody saw, in spite of
   "Marks changed since this review was opened"
   (`services/faculty_review.py:33`).
2. `EvaluationReportIsStored`: after a commit whose confirmation was lost the
   evaluation removes its uploads (`api/routers/grading.py:502`), though the
   saved answer refers to them; the review path checks first, because "an
   unknown commit outcome may have saved the report"
   (`services/faculty_review.py:76`).
3. `ReportIsMirrored`: for a share of students between two bands, `level_for_pct`
   (`services/co_excel.py:154`) gives the lowest band's level and the formula the
   highest band reached, though the formula is "the Excel-formula equivalent of
   level_for_pct()" (`:161`). `SheetsAgree` shows their agreement for every share
   that has a band of its own (`Placed` in `CoAttainment`).

## 4. Divergences

Where a comment, a docstring or a test promises more than the code keeps, the
model follows the code. The module states the promise as a definition under
"What the documentation says beyond this"; TLC finds a behaviour against each.

| Where | What happens | What is said of it |
|---|---|---|
| `services/transcript_commit.py:50` | a student missing from a replaced set keeps later rows, not flagged, whose CGPA counts the deleted row | "Replacing semester 5 must also repair semester 6's cumulative value atomically" (`:47`) |
| `models/batch.py:92` | a subject, exam or answer inserted behind the cascade stays | "Delete a batch and everything hanging off it" (`:85`) |
| `api/routers/institute_hierarchy.py:331` | a delete of a school that stops after `facultyDetails` leaves active logins which no repetition finds | "Faculty LOGIN accounts are deactivated" (`:333`) |
| `api/routers/answers.py:247` | a manual entry finds its answer by file name, which another student's answer may have taken by a rename | "Stable student identities, independent of subsequent display-file renames" (`services/answer_identity.py:1`) |
| `api/deps.py:120` | a lookup stores a flag read before a password change after its invalidation | "so the next login isn't blocked by a stale flag" (`api/routers/profile.py:304`) |
| `core/redis_client.py:58`, `api/deps.py:108` | a request whose read of the revocation or of the account fails is admitted, ended session or blocked account notwithstanding | "rejects any token whose `iat` predates it", and beside it "Fails open on Redis errors" (`core/redis_client.py:37`) |
| `api/routers/auth.py:171` | after an institute's update that stopped before its members, its faculty still register students, who are active | "cascade the same is_active value to all" (`utils/cascade.py:11`) |
| `core/rate_limit.py:36` | a key that expires between SET NX and INCR is counted without expiry | "there's no race window" (`:32`) |
| `api/routers/auth.py:219` | two registrations of one name take one login id | "Unique login id" (`:212`) |
| `utils/cascade.py:20` | an account inserted after the lists were read keeps its flag | "cascade the same is_active value to all" (`:11`) |
| `services/mcq_grading.py:490` | overlapping first evaluations score by different keys | "not incorrect, since they compute the same deterministic result" (`:458`) |
| `api/routers/roadmap.py:1308` | a quiz writes back the whole progress it read, and a completed roadmap is no longer | "marks the roadmap complete" (`api/routers/mock_tests.py:486`) |
| `api/routers/roadmap.py:864` | unusable picks are kept as empty resources | "don't cache a permanent empty result" (`:809`) |
| `api/routers/mock_tests.py:252` | a roadmap test is inserted and its request raises (`_resolve_grounding` takes four arguments); it never gets questions | `src/tests/test_mock_tests.py:185` |
| `services/mock_test_generation.py:62` | an empty JSON array is saved as the questions, without an error; the test stays empty | "Raises on any failure" (`:47`) |
| `api/routers/relative_grading.py:41` | two first saves store two schemes | `src/tests/test_relative_grading.py:49` |
| `api/routers/marks_import.py:60` | two imports that overlap list every student twice | `src/tests/test_marks_import.py:80` |
| `services/co_excel.py:701` | a student with a script in one test and a manual entry in the other has two rows | "line up on the same student row" (`:697`) |
| `services/co_excel.py:591` | categories whose first 31 characters agree refer to one sheet | "a single, correctly-combined Level" (`:906`) |
| `services/gemini.py:310` | an exhausted quota is not recognised as one, and Claude is not asked | "fails over to Claude rather than failing the job" (`api/routers/ai_tutor.py:370`) |
| `api/routers/ai_tutor.py:144` | the whole file is sent also when a page batch fails, and what was paid is forgotten | "only when pdfplumber cannot open the file at all" (`:137`) |
| `services/rag/pdf_extract.py:122` | a reply without text leaves pages out, and no warning is given | "Surfaced on the completed job" (`api/routers/ai_tutor.py:340`) |
| `api/routers/course_material.py:80` | uploads of one file that overlap index it once each | "one parse, one summarize/embed pass" (`services/rag/schemas.py:63`) |

Beyond what any text promises, but not what one would expect:
- a heading that is printed again inside a question group takes the subparts from
  the first one (`PrintedAgain` in `QuestionMapping`);
- a certificate counts rows of a semester beyond the programme
  (`api/routers/transcripts.py:664`, `CertifiedIsComplete`);
- a test's total may be smaller than the marks scored, and types of questions are
  counted by what the test asked for (`WithinTotal`, `TypesAreCounted` in
  `LearnerFeedback`); a late reply without insights replaces kept feedback
  (`FeedbackStays`);
- deletes of a programme, department or school leave the exams and answers of
  their batches; `create_batch` does not compare `department_id` with a programme
  that is given; `update_batch` takes a teacher of another institute;
- a paper's header-only edit keeps the old Word file, and a deleted paper its
  file; text extraction does not look at the lock;
- a charge is given up after three failed writes (`services/ai_usage.py:200`), a
  usage of zero is not written, and a page batch or an embedding whose answer does
  not tell its cost counts as zero, so that a note, a document or an indexed file may
  be complete without a charge;
- the dates of activity are cut to the last 30 (`api/routers/roadmap.py:277`), so
  that the calendar shows less than the streak counts;
- rows of a sheet behind a blank row are dropped silently; subjects of one name
  share a column of the export;
- a review changes totals while the marks of parts stay the AI's; text before a
  file's first heading is in no node of its tree; notes from an empty reply are
  completed as blank.

## 5. Proofs

The theorems hold for every value of the constants that satisfies the named
assumptions of the modules: any number of requests, users, papers, students,
semesters, pages, calls. The assumptions say what the constants are (functions
with their domains, values that are told apart), and nothing of their size.
In a composition the assumption of a component is `X!ConstantsOK`. An invariant
of a composition is the conjunction of the components' invariants, each under its
scenario; the lemma `OneMoves` reduces a step to one of the component that moves.

### Submission: `JobSubmission_proofs`

`TypeCorrect`, `SpendFenced`, `NoSecondSpend`, `ExecutedOnce`, `RejectedNeverRun`,
`ReconnectsToOwn`, `FinalStatusKept`, `ImplementsSingleFlight`.
`ReconnectsToOwn`, for any assignment of requests to users, has no run of its own: the
instances have one user.
- `SpendIsFenced` says that the guard names a job while it may start calls, and
  what a call behind another guard may be. It is not inductive: a step that frees
  the guard must know that the job it frees is settled. `Fencing` adds what links a handler's place to
  the guard and the queue: the guard, and every guard a handler has read, names
  a job whose claim happened (`GuardWasClaimed`); a handler between its claim
  and its dispatch holds the guard (`ClaimIsHeld`); a job with a final status is
  settled and past its claim (`FinalMeansStopped`); what a handler releases can
  never run again (`ReleasesOnlyFinished`); only dispatched jobs are queued, and
  one that may still be executed holds the guard (`RunsAfterDispatch`). Calls belong
  to a job that was executed (`CallsBelong`), and a settled job has calls only if one
  of its gather has failed, in which case it is not done. `NoSecondSpend` reads off
  it what can overlap: calls of two jobs only if one of them is settled and failed.
- `CountsExecutions` (one execution exactly when the job has left "none") gives
  `ExecutesOnce`; with `RepliesOnce` it gives `OnlyClaimantsRun`, and with
  `Fencing` `FinalStatusIsFinal`: the one write that ignores a final status,
  `CreateCandidate`, belongs to a request that has neither the guard nor a run.
- The refinement follows from `Fencing`: a claimed execution is `Start`, the end
  of a job is `Settle`, with or without late calls, the last of them `LastCallEnds`;
  all else stutters.

### One exam: `ExamResults_proofs`

`TypeCorrect`, `MarksMatch`, `ReviewedProtected`, `HistoryIsAChain`,
`ScriptReviewsExact`, `ReviewReportStored`.
- `MarksMatchExam` needs `FreezeInv`: marks imply the barrier; an evaluation
  past its barrier and an entry past its own hold the exam's current paper and
  rubric; a review under way knows an answer that has marks. With the barrier
  set, neither `ReplacePaper` nor `CommitRubric` is enabled, and nothing clears
  the barrier.
- The review theorems need `ReviewInv`: what a review has read of a document is
  what it still holds while its `id` and `revision` are unchanged, since every
  change of a script's marks increments the revision; and history events lie
  strictly behind the revision of their document.
- `ReviewReportIsStored` needs `StoreInv`: a review removes its upload only when
  no answer, present or recreated, can refer to it.
- Steps are grouped by what they change (`ExamStep`, `AnswerStep`,
  `ResultStep`); an invariant is proved once for each group.

### Suggestions: `RubricSuggestions_proofs`

`SuggestionTypes`, `FreeRetry`, `CompletedWhole`, `Fenced`, `ImplementsPaidBatches`.
- `RecordInv` and `RequestInv` say what the status of the record tells about the
  worker of its attempt and what a POST that claimed it may still do;
  `FreeInv`, that a free retry finds every batch saved; `KnowsInv`, what the
  worker of the recorded attempt has in hand: every batch before its own is
  saved and good, and the one it is buying is not saved.
- `Fenced` is an action property: a worker writes under the attempt and the
  status it claimed, so a step of another one leaves the record.
- The refinement assumes `Careful`: while nobody fails a running attempt, only
  the worker of the recorded attempt can be between its claim and its save
  (`Alone`), and what it saves is the batch it bought. Without the assumption two
  workers can buy at once, which is what the scenario "overruled" is for.

### From a paper to its marks: `Papers_proofs`

- `PapersAreKept`. `PapersInv`: a stored paper has a file of its own that shows its
  content (`PaperFits`, `FileOfItsOwn`); while the paper has the revision an edit
  read, it also has the file and header that were read (`Knows`); the new file of
  an edit is referred to by nothing until it is written (`Carries`); two edits
  never have one new file (`Apart`); every file is a paper's, an edit's, left by a
  failed call, or gone (`Accounted`). Only the last two make `PapersKept`
  inductive: a clean-up has to know that its file is nobody's.
- `MarkedByOwnPaper`. `KeyInv`: what a job holds is of the text it read, and its
  key is a key of that text (`HoldsOwn`, `TextFits`); an extraction patches only
  the version it was started for (`Extracts`); with a barrier set, text and version
  do not change, so the key that scored is the paper's.
- `ScriptReadingTypes`, `ScriptChargesExact`, `ScriptMarksSupported`. `ScriptInv`
  ties the place of the job to the ledger: of events behind the current page the
  entry is what was sent, of the current one it is what was sent before its open
  call (`SplitInv`, `ReadingInv`), and grading starts only after the last page was
  read whole (`GradingInv`); a row that is there was made from a valid reply
  (`RowInv`). The set of selections is finite (`IsFiniteSet(seen.selections)`),
  which "the one selected letter" needs.
- `BestMarksCount`. `MarksInv`: the saved rubric is well formed and its total is what
  can be counted (`RubricFits`); in a saved answer each mark is the AI's plus the
  adjustment, within its limits, the rows that count are those the code would take
  now, and the total is their sum; so a review may leave no flag, tie or adjustment
  of an earlier one behind. That the rows the code takes are the best is a lemma of
  its own (`TakenIsBest`): the ranks in a group are those of a total order and fill
  0 .. n - 1 (`RankFollows`, `RankOnto`), the last mark that counts divides the first
  `answerN` rows from the others (`TopDivided`), and any other selection trades marks
  above that one for marks below, group by group (`OverGroupsAdds`,
  `SumsCompare`). `PartsInv` says the same of a question's parts, and that its
  marks are shared over the course outcomes by largest rest: what is left after the
  whole parts is the sum of the rests over the total, and no more than the outcomes
  that have a rest (`LeftBounded`), so that each gets at most one more, which gives
  the sum (`SharesAdd`), the limits (`SharesWithin`) and the order (`SharesOrdered`).
- `PaidOnce`, `ImplementsPaidBatches`, `OvertakenIsFenced` put the results above
  into the composition; the header of an edit that is written is current because
  of `Knows`.

### From answers to transcripts: `Results_proofs`

- `AnswersKept`. `UploadsInv` adds to the four parts of the property that an idle
  request has no answer of its id, that files about to be removed belong to
  deleted answers (`RequestInv`), and that a receipt which can still be bound is
  of a stored file nobody deleted (`ReceiptInv`).
- `PublishedIsCurrent`. `TranscriptsInv`: in every table of rows, those of one
  student and semester fit the others (`Sound`: a row without flag counts the rows
  before it as they are, none is ahead of a stale one, a semester is of one
  publication), a row without flag shows the marks (`Shows`, until the batch is
  being deleted), and a publisher knows the marks it has read until the source
  revision moves on (`TaskFits`). A publication is shown in two steps, replacement
  (`ReplacedRow`) and repair of later semesters (`RepairedRow`), since between
  them a row may count what is no longer there.
- `GradesFollowResults`. `SubjectInv`: an answer that is read is one an exam can
  have (`AnswersInv`); stored schemes and imported rows are of what the forms and
  sheets may hold (`StaffInv`); what a combined result has gathered is, for each
  subject, what was read and the grades that follow from it (`Gathered`,
  `Follows`), so that it does not matter what changes between the reads; and what
  is published came from whole marks (`Fit`). Below it is arithmetic: a higher
  total has no worse a rank (`RanksFollow`), a better rank no worse a band, with
  negative and empty bands in the scheme (`BandsFollow`). Composites, totals and
  credits are folds over finite sets; `AddsExists` shows that the function behind
  such a sum exists, and what holds of a sum (`SumInt`, `SumMonotone`) is shown
  by the smallest subset that would be an exception, which stands in for the
  induction the provers cannot do.

### The institute: `Institute_proofs`

- `AnomaliesOnlyByRace`, lists. `CacheInv`: what a reader loaded is current unless
  raced (`ReaderKnows`), and an entry that is out of date with no race is one that
  a writer at work is going to delete (`Covered`).
- `AnomaliesOnlyByRace`, login ids. `EnrolmentInv`: requests under way at one time
  have met (`AllMeet`); two accounts with one login id, and also an account and a
  registration that has found its id free, are explained by a meeting or an edit
  (`LoginsApart`); an edit that met nobody still finds what it looked up
  (`EditsAlone`).
- `MaterialsEnrolled`. `MaterialsInv`: the material and subjects a request has seen
  are there (`HoldsSeen`), every visit is by an enrolled student (`VisitsInv`).
  Nothing deletes an enrolment or a material, and that is what carries the proof.
- `LedgerIsExact`. `LedgerInv` is `Core`, what each process has entered for its call
  and what it may project, and `Snapshots`: the sets of events the projections
  have read are a chain, the totals hold the sum of one of them, and that one
  includes every event marked projected. A projection that read less but writes
  later is harmless because totals are raised with `$max`.
- `InstituteTypes` are the types of all five components.

### Progress in a roadmap: `Roadmaps_proofs`

`ProgressIsKept`. `ProgressInv`: every document that is stored, or was read by a
request that will write it back, has the percentage of its own lists, and its streak
is the run of its own dates, or as much of it as the cut list shows (`DocFits`), so that a late write of an old document is consistent in itself; until
some write went over a change it had not read (`raced`), the stored document has
everything an answer promised (`Agrees`). The entry of a quiz that is being marked
has a number that neither the document nor another reader has (`NumberIsNew`,
`ReadersDiffer`): an insight kept for an entry stays with it.

### Students: `Students_proofs`

- `EveryAdmission`, account state. `AccountInv`: an ended session is among the
  revoked tokens for as long as it could be valid (`SessionsInv`), a cached state
  was the account's within the promised delay (`HadSince`), and so was what a
  request has read at each of its places (`Reads`), unless that read failed; a state
  that could not be read is not stored, so that it excuses no other request.
- `EveryAdmission`, limits. `RateInv`: the counter is at least the number of the
  finite set of requests counted in this window.
- `AttemptsAreCounted`. `TestsInv`: two requests never hold one attempt (`Differ`),
  a test that is counted has its attempts (`CountIsAttempts`), and questions are
  set once, so that an attempt was marked by the questions the test shows.
- `RoadmapsAreKept` puts `ProgressIsKept` into the composition and adds what is kept
  of lessons (`LessonsInv`): only an answer with content is stored under "notes",
  and only kept slots are served without a call.
- `DoneIsKept`, notes. `TutorInv`: for each job, its place says what must be there
  (`JobFits`): past the writing call its charge is in the ledger unless the ledger gave up on
  that job (`Billed`), past the upload its file is stored, a note exists only after the entry was written and is the one
  the job would write, and a file goes only after its note. What the
  ledger holds of the reading is all that the calls told of their cost, unless the
  local reading gave way to the whole file.
- `DoneIsKept`, course material. `IndexInv`: a recorded document has the bytes of
  the upload that made it, and each owner and context belongs to somebody who has
  uploaded those bytes (`HasUploaded`); a match an upload has found keeps its bytes
  until it is reported (`UploadFits`). It needs that files of one hash are one.

### Only model-checked

- Liveness: `FinishedJobYields`, `EnqueuedIsSettled`, `EventuallyCounted`. Fairness
  and `ENABLED` are beyond the proof system.
- Results of recursive data: `SheetsAgree` and `ContentsAreTrue` (the order of
  extracted pages, the outline, the chunks, scores and averages). Their operators
  sort, parse and split; what they give for every input needs induction over data,
  which the provers cannot instantiate.
- `QuestionsAsMeant` (generated papers, the lines of a text): its sums and orders
  are written with the folds of the community modules. A proof would first state
  them over running sums, as `Marking` does, and has not been carried through.
- `CascadesAreComplete`: it holds for one delete at a time, which its run sees to
  (`Deleters` has one element), and for owners whose links are closed;
  `create_batch` does not guarantee the latter for every request, so that a
  theorem would need an assumption the code does not justify.
- The other properties of type correctness (`TypeOK` of `Papers`, `Results` and
  `Students`): some of their parts range over values of the folds above. The types
  of every component with a proof are part of its invariant.
- The three violated properties are, of course, not provable.

## 6. Not modelled

- Contents: provider calls, prompts, OCR, the parsing of replies, rendering,
  document formats. A call returns anything, nothing, or raises.
- Diagnostics and observability (`core/diagnostics.py`,
  `core/workflow_diagnostics.py`, `core/observability.py`): they change no state
  a property is about.
- Reads with access checks, lists, contact forms, roles: one read of the database
  each. Ranking by similarity (`services/rag/`): numbers TLC cannot enumerate.
- Rounding of fractional marks where the model counts units of the smallest step.
- `utils/cgpa_helper.py`, which nothing uses.
- Hazards without a property: the record of a claimed job that expires before its
  delivery, which `docs/phase6_job_operations.md` accepts; the window of the rate
  limit and the insert behind a cascade, which are divergences.

## 7. Plan

In this order:
1. The completeness of a tutor's delete and of an institute's update that met
   nobody (`LoneRequestsAgree`, `TutorDeleteIsComplete`), from `AllMeet`.
2. Type correctness of `Papers`, `Results` and `Students`, component by component.
3. `QuestionsAsMeant`: the sums of `PaperGeneration` and `QuestionMapping` over the
   running sums of `Marking`, then the inductive invariant of their requests.
