---------------------------- MODULE ExamResults ----------------------------
(***************************************************************************)
(* One exam, its question paper, its rubric and the marks of its answers.  *)
(*                                                                         *)
(* Five kinds of process read the exam, work for minutes and write back:   *)
(* the evaluation of a script by the AI, the review of marks by a faculty  *)
(* member, the manual entry of marks, the replacement of the question      *)
(* paper and the edit of the rubric.  They meet in MongoDB only: in the    *)
(* barrier paper_locked of the exam, in the snapshot filters of their      *)
(* updates, in the revision of each result and in the transactions that    *)
(* save marks.  Each action is one awaited operation; what a process has   *)
(* read is in its task record until it writes.                             *)
(*                                                                         *)
(* The submission guard is claimed and released in one step each here; its *)
(* own interleavings are the subject of JobSubmission.                     *)
(***************************************************************************)
EXTENDS Naturals

CONSTANTS
    Scripts,        \* answers with an uploaded script
    Manuals,        \* answers that manual entry creates ("MANUAL-<student>")
    Evaluations,    \* evaluation jobs
    Reviews,        \* review forms a faculty member opens
    Entries,        \* manual marks entries
    Uploads,        \* question papers to be uploaded
    Edits,          \* rubrics to be saved
    None

ASSUME DistinctKinds ==
    /\ Scripts \cap Manuals = {}
    /\ Evaluations \cap (Reviews \cup Entries \cup Uploads \cup Edits) = {}
    /\ Reviews \cap (Entries \cup Uploads \cup Edits) = {}
    /\ Entries \cap (Uploads \cup Edits) = {}
    /\ Uploads \cap Edits = {}
    /\ None \notin Scripts \cup Manuals \cup Evaluations \cup Reviews
                   \cup Entries \cup Uploads \cup Edits
    /\ "first" \notin Uploads \cup Edits

VARIABLES
    exam,           \* the newsavedDocs document
    rubric,         \* the evaluationDetails document: the edit that wrote it
    answers,        \* the answerDetails documents
    basis,          \* basis[a]: the paper and rubric a's marks were computed under
    storage,        \* report files in the file store, named by who uploaded them
    doomed,         \* files of deleted answers, still to be removed
    history,        \* the answerReviewHistory collection
    task            \* task[p]: what process p has read, and where it is

vars == <<exam, rubric, answers, basis, storage, doomed, history, task>>

-----------------------------------------------------------------------------
Answers == Scripts \cup Manuals
Processes == Evaluations \cup Reviews \cup Entries \cup Uploads \cup Edits
Marks == Evaluations \cup Reviews \cup Entries
Papers == Uploads \cup {None, "first"}
Rubrics == Edits \cup {None, "first"}

\* id is the document's _id: a deleted answer that manual entry creates again
\* is another document.
NoAnswer == [exists |-> FALSE, id |-> 0, active |-> None, revision |-> 0,
             reviewed |-> FALSE, marks |-> None, report |-> None, files |-> {}]
NewAnswer == [NoAnswer EXCEPT !.exists = TRUE]
Deleted(answer) ==
    [NoAnswer EXCEPT !.id = IF answer.exists THEN answer.id + 1 ELSE answer.id]
NoBasis == [paper |-> None, rubric |-> None]

Idle == [at |-> "idle", answer |-> None, paper |-> None, rubric |-> None,
         rubric_revision |-> 0, id |-> 0, revision |-> 0, previous |-> None,
         opened |-> None, opened_revision |-> 0, checked |-> FALSE]

At(p, place) == task[p].at = place
Goto(p, place) == task' = [task EXCEPT ![p].at = place]

\* Marks, a review or a running evaluation: what require_replaceable_paper and
\* commit_rubric look for besides the barrier.
LegacyMarks ==
    \E a \in Answers :
        /\ answers[a].exists
        /\ \/ answers[a].reviewed
           \/ answers[a].marks # None
           \/ answers[a].active # None

Init ==
    /\ \E paper \in {None, "first"} :
          exam = [exists |-> TRUE, paper |-> paper, text |-> paper # None,
                  locked |-> FALSE, rubric_revision |-> 1]
    /\ rubric = "first"
    /\ answers = [a \in Answers |-> IF a \in Scripts THEN NewAnswer ELSE NoAnswer]
    /\ basis = [a \in Answers |-> NoBasis]
    /\ storage = {}
    /\ doomed = {}
    /\ history = {}
    /\ task = [p \in Processes |-> Idle]

\* lock_exam_for_marks without a snapshot: the permanent barrier.
LockExam == exam' = [exam EXCEPT !.locked = TRUE]

-----------------------------------------------------------------------------
\* The evaluation job

\* The route reads the answer before it claims the submission.
RequestEvaluation(j) ==
    /\ At(j, "idle")
    /\ \E a \in Scripts :
          /\ answers[a].exists /\ ~answers[a].reviewed
          /\ task' = [task EXCEPT ![j] = [@ EXCEPT !.at = "requested", !.answer = a]]
    /\ UNCHANGED <<exam, rubric, answers, basis, storage, doomed, history>>

\* The guard of a job whose record says done or error, but which has not
\* released it, or never will, may be taken over.
Finishing == {"failing", "releasing", "over"}

ClaimEvaluation(j) ==
    /\ At(j, "requested")
    /\ LET answer == answers[task[j].answer]
       IN \/ /\ answer.exists
             /\ answer.active # None => task[answer.active].at \in Finishing
             /\ answers' = [answers EXCEPT ![task[j].answer].active = j]
             /\ Goto(j, "claimed")
          \/ /\ ~answer.exists \/ answer.active # None
             /\ Goto(j, "ended")
             /\ UNCHANGED answers
    /\ UNCHANGED <<exam, rubric, basis, storage, doomed, history>>

\* The barrier is set by the route and again by the worker; a deleted exam
\* leaves the route in doubt and makes the worker fail.
LockForEvaluation(j) ==
    /\ \/ /\ At(j, "claimed")
          /\ IF exam.exists
               THEN LockExam /\ Goto(j, "dispatched")
               ELSE UNCHANGED exam /\ Goto(j, "stopped")
       \/ /\ At(j, "dispatched")
          /\ IF exam.exists
               THEN LockExam /\ Goto(j, "locked")
               ELSE UNCHANGED exam /\ Goto(j, "failing")
    /\ UNCHANGED <<rubric, answers, basis, storage, doomed, history>>

\* Only the exam read after the barrier counts.
ReadExam(j) ==
    /\ At(j, "locked")
    /\ IF exam.exists /\ exam.text
         THEN task' = [task EXCEPT ![j] =
                         [@ EXCEPT !.at = "exam_read", !.paper = exam.paper]]
         ELSE Goto(j, "failing")
    /\ UNCHANGED <<exam, rubric, answers, basis, storage, doomed, history>>

ReadAnswer(j) ==
    /\ At(j, "exam_read")
    /\ LET a == task[j].answer
       IN IF answers[a].exists /\ ~answers[a].reviewed
            THEN task' = [task EXCEPT ![j] =
                    [@ EXCEPT !.at = "answer_read", !.id = answers[a].id,
                              !.revision = answers[a].revision]]
            ELSE Goto(j, "failing")
    /\ UNCHANGED <<exam, rubric, answers, basis, storage, doomed, history>>

ReadRubric(j) ==
    /\ At(j, "answer_read")
    /\ IF rubric # None
         THEN task' = [task EXCEPT ![j] =
                         [@ EXCEPT !.at = "grading", !.rubric = rubric]]
         ELSE Goto(j, "failing")
    /\ UNCHANGED <<exam, rubric, answers, basis, storage, doomed, history>>

PaperUnchanged(p) == exam.exists /\ exam.paper = task[p].paper

\* OCR, grading and rendering, between two checks of the paper.
UploadReport(j) ==
    /\ At(j, "grading")
    /\ IF PaperUnchanged(j)
         THEN storage' = storage \cup {j} /\ Goto(j, "saving")
         ELSE UNCHANGED storage /\ Goto(j, "failing")
    /\ UNCHANGED <<exam, rubric, answers, basis, doomed, history>>

\* Mutant: the revision is not part of the filter.
AnswerUnchanged_AnyRevision(p) ==
    LET answer == answers[task[p].answer]
    IN answer.exists /\ answer.id = task[p].id

\* The document that was read is still there, at the revision read.
AnswerUnchanged(p) ==
    LET answer == answers[task[p].answer]
    IN answer.exists /\ answer.id = task[p].id /\ answer.revision = task[p].revision

\* Mutant: the save filters on the paper only.
Saveable_AnyAnswer(j) == PaperUnchanged(j) /\ answers[task[j].answer].exists

Saveable(j) ==
    /\ PaperUnchanged(j)
    /\ AnswerUnchanged(j)
    /\ ~answers[task[j].answer].reviewed

\* Mutant: the revision is not incremented.
Publish_SameRevision(p, reviewed) ==
    LET a == task[p].answer
    IN answers' = [answers EXCEPT ![a].marks = p, ![a].report = p,
                                  ![a].reviewed = reviewed,
                                  ![a].files = @ \cup {p}]

Publish(p, reviewed) ==
    LET a == task[p].answer
    IN answers' = [answers EXCEPT ![a] =
                     [@ EXCEPT !.marks = p, !.report = p, !.reviewed = reviewed,
                               !.revision = answers[a].revision + 1,
                               !.files = answers[a].files \cup {p}]]

\* One transaction.  A commit whose confirmation is lost raises like one that
\* never happened.
SaveResult(j) ==
    /\ At(j, "saving")
    /\ IF Saveable(j)
         THEN /\ Publish(j, FALSE)
              /\ basis' = [basis EXCEPT ![task[j].answer] =
                             [paper |-> task[j].paper, rubric |-> task[j].rubric]]
              /\ \E confirmed \in BOOLEAN :
                    Goto(j, IF confirmed THEN "releasing" ELSE "failing")
         ELSE /\ Goto(j, "failing")
              /\ UNCHANGED <<answers, basis>>
    /\ UNCHANGED <<exam, rubric, storage, doomed, history>>

Working == {"dispatched", "locked", "exam_read", "answer_read", "grading", "saving"}

\* A call raises; or the job is cancelled; or its process stops at once.  A
\* job that stops after it reported done or error leaves its guard behind.
BreakEvaluation(j) ==
    /\ \/ /\ task[j].at \in Working
          /\ \E place \in {"failing", "interrupted", "stopped"} : Goto(j, place)
       \/ /\ task[j].at \in {"failing", "releasing"}
          /\ \E place \in {"over", "stopped"} : Goto(j, place)
    /\ UNCHANGED <<exam, rubric, answers, basis, storage, doomed, history>>

\* Without a confirmed save the uploads are removed; only an interrupted job
\* keeps the guard.
CleanUp(j) ==
    /\ \/ At(j, "failing") /\ Goto(j, "releasing")
       \/ At(j, "interrupted") /\ Goto(j, "stopped")
    /\ storage' = storage \ {j}
    /\ UNCHANGED <<exam, rubric, answers, basis, doomed, history>>

\* Mutant: the guard is set to FALSE instead of being unset.
ReleaseEvaluation_False(j) ==
    /\ At(j, "releasing")
    /\ answers' = [answers EXCEPT ![task[j].answer].active = FALSE]
    /\ Goto(j, "ended")
    /\ UNCHANGED <<exam, rubric, basis, storage, doomed, history>>

ReleaseEvaluation(j) ==
    /\ At(j, "releasing")
    /\ LET a == task[j].answer
       IN answers' = [answers EXCEPT ![a].active =
                        IF answers[a].exists /\ @ = j THEN None ELSE @]
    /\ Goto(j, "ended")
    /\ UNCHANGED <<exam, rubric, basis, storage, doomed, history>>

Evaluate(j) ==
    \/ RequestEvaluation(j) \/ ClaimEvaluation(j) \/ LockForEvaluation(j)
    \/ ReadExam(j) \/ ReadAnswer(j) \/ ReadRubric(j) \/ UploadReport(j)
    \/ SaveResult(j) \/ BreakEvaluation(j) \/ CleanUp(j) \/ ReleaseEvaluation(j)

-----------------------------------------------------------------------------
\* The faculty review

\* The browser shows an evaluated answer and its revision.
OpenReview(p) ==
    /\ At(p, "idle")
    /\ \E a \in Answers :
          /\ answers[a].exists /\ answers[a].marks # None
          /\ task' = [task EXCEPT ![p] =
                [@ EXCEPT !.at = "open", !.answer = a, !.id = answers[a].id,
                          !.opened = answers[a].marks,
                          !.opened_revision = answers[a].revision]]
    /\ UNCHANGED <<exam, rubric, answers, basis, storage, doomed, history>>

\* The form comes back, with the revision it was opened at or without; the
\* server reads the answer again.
SubmitReview(p) ==
    /\ At(p, "open")
    /\ LET answer == answers[task[p].answer]
       IN IF answer.exists /\ answer.id = task[p].id
            THEN \E checked \in BOOLEAN :
                    task' = [task EXCEPT ![p] =
                       [@ EXCEPT !.at = "submitted", !.previous = answer.marks,
                                 !.revision = answer.revision, !.checked = checked]]
            ELSE Goto(p, "refused")
    /\ UNCHANGED <<exam, rubric, answers, basis, storage, doomed, history>>

LockForReview(p) ==
    /\ At(p, "submitted")
    /\ IF exam.exists
         THEN LockExam /\ Goto(p, "locked")
         ELSE UNCHANGED exam /\ Goto(p, "refused")
    /\ UNCHANGED <<rubric, answers, basis, storage, doomed, history>>

\* The revision the form was opened at, when it is sent, must be the revision
\* just read.
UploadReview(p) ==
    /\ At(p, "locked")
    /\ IF task[p].checked => task[p].opened_revision = task[p].revision
         THEN storage' = storage \cup {p} /\ Goto(p, "saving")
         ELSE UNCHANGED storage /\ Goto(p, "refused")
    /\ UNCHANGED <<exam, rubric, answers, basis, doomed, history>>

ReviewEvent(p) ==
    [answer |-> task[p].answer, id |-> task[p].id, from |-> task[p].revision,
     to |-> task[p].revision + 1, previous |-> task[p].previous, marks |-> p]

\* One transaction: the marks, the report and the review event.
CommitReview(p) ==
    /\ At(p, "saving")
    /\ IF exam.exists /\ AnswerUnchanged(p)
         THEN /\ Publish(p, TRUE)
              /\ history' = history \cup {ReviewEvent(p)}
              /\ \E confirmed \in BOOLEAN :
                    Goto(p, IF confirmed THEN "done" ELSE "unsure")
         ELSE /\ Goto(p, "unsure")
              /\ UNCHANGED <<answers, history>>
    /\ UNCHANGED <<exam, rubric, basis, storage, doomed>>

\* Mutant: the upload is removed without looking.
VerifyReview_Blind(p) ==
    /\ At(p, "unsure")
    /\ storage' = storage \ {p}
    /\ Goto(p, "refused")
    /\ UNCHANGED <<exam, rubric, answers, basis, doomed, history>>

\* The upload is removed only if a read shows it was not committed.
VerifyReview(p) ==
    /\ At(p, "unsure")
    /\ LET answer == answers[task[p].answer]
           found == answer.exists /\ answer.id = task[p].id
       IN storage' = IF found /\ p \notin answer.files THEN storage \ {p} ELSE storage
    /\ Goto(p, "refused")
    /\ UNCHANGED <<exam, rubric, answers, basis, doomed, history>>

\* The API process stops, or a call raises; inside the publication that leads
\* to the verification.
BreakReview(p) ==
    /\ \/ /\ task[p].at \in {"submitted", "locked", "saving", "unsure"}
          /\ Goto(p, "refused")
       \/ At(p, "saving") /\ Goto(p, "unsure")
    /\ UNCHANGED <<exam, rubric, answers, basis, storage, doomed, history>>

Review(p) ==
    \/ OpenReview(p) \/ SubmitReview(p) \/ LockForReview(p) \/ UploadReview(p)
    \/ CommitReview(p) \/ VerifyReview(p) \/ BreakReview(p)

-----------------------------------------------------------------------------
\* Manual marks entry

ReadExamForEntry(m) ==
    /\ At(m, "idle")
    /\ exam.exists
    /\ \E a \in Manuals :
          task' = [task EXCEPT ![m] =
             [@ EXCEPT !.at = "exam_read", !.answer = a, !.paper = exam.paper,
                       !.rubric_revision = exam.rubric_revision]]
    /\ UNCHANGED <<exam, rubric, answers, basis, storage, doomed, history>>

\* The marks are checked and split by the rubric read here.
ReadRubricForEntry(m) ==
    /\ At(m, "exam_read")
    /\ task' = [task EXCEPT ![m] =
                   [@ EXCEPT !.at = "rubric_read", !.rubric = rubric]]
    /\ UNCHANGED <<exam, rubric, answers, basis, storage, doomed, history>>

\* The barrier, set only if paper and rubric revision are still those read.
LockForEntry(m) ==
    /\ At(m, "rubric_read")
    /\ IF PaperUnchanged(m) /\ exam.rubric_revision = task[m].rubric_revision
         THEN LockExam /\ Goto(m, "locked")
         ELSE UNCHANGED exam /\ Goto(m, "refused")
    /\ UNCHANGED <<rubric, answers, basis, storage, doomed, history>>

\* One transaction: insert or overwrite.  result_revision stays as it is.
SaveEntry(m) ==
    /\ At(m, "locked")
    /\ LET a == task[m].answer
       IN IF exam.exists
            THEN /\ answers' = [answers EXCEPT ![a] =
                      [@ EXCEPT !.exists = TRUE, !.marks = m, !.reviewed = TRUE]]
                 /\ basis' = [basis EXCEPT ![a] =
                      [paper |-> task[m].paper, rubric |-> task[m].rubric]]
                 /\ Goto(m, "done")
            ELSE /\ Goto(m, "refused")
                 /\ UNCHANGED <<answers, basis>>
    /\ UNCHANGED <<exam, rubric, storage, doomed, history>>

Enter(m) ==
    ReadExamForEntry(m) \/ ReadRubricForEntry(m) \/ LockForEntry(m) \/ SaveEntry(m)

-----------------------------------------------------------------------------
\* Replacing the question paper

ReadForUpload(u) ==
    /\ At(u, "idle")
    /\ exam.exists
    /\ \E place \in {"exam_read", "refused"} :
          /\ exam.locked <=> place = "refused"
          /\ task' = [task EXCEPT ![u] = [@ EXCEPT !.at = place, !.paper = exam.paper]]
    /\ UNCHANGED <<exam, rubric, answers, basis, storage, doomed, history>>

CheckReplaceable(u) ==
    /\ At(u, "exam_read")
    /\ Goto(u, IF LegacyMarks THEN "refused" ELSE "replacing")
    /\ UNCHANGED <<exam, rubric, answers, basis, storage, doomed, history>>

\* Mutant: the barrier is not part of the compare-and-set.
ReplacePaper_Unlocked(u) ==
    /\ At(u, "replacing")
    /\ IF PaperUnchanged(u)
         THEN /\ exam' = [exam EXCEPT !.paper = u, !.text = FALSE]
              /\ Goto(u, "extracting")
         ELSE /\ Goto(u, "refused")
              /\ UNCHANGED exam
    /\ UNCHANGED <<rubric, answers, basis, storage, doomed, history>>

\* Compare-and-set on the snapshot and the barrier; the text is extracted later.
ReplacePaper(u) ==
    /\ At(u, "replacing")
    /\ IF PaperUnchanged(u) /\ ~exam.locked
         THEN /\ exam' = [exam EXCEPT !.paper = u, !.text = FALSE]
              /\ Goto(u, "extracting")
         ELSE /\ Goto(u, "refused")
              /\ UNCHANGED exam
    /\ UNCHANGED <<rubric, answers, basis, storage, doomed, history>>

\* The extraction job writes only into the paper it was started for.
ExtractText(u) ==
    /\ At(u, "extracting")
    /\ exam' = IF exam.exists /\ exam.paper = u THEN [exam EXCEPT !.text = TRUE]
                                                ELSE exam
    /\ Goto(u, "done")
    /\ UNCHANGED <<rubric, answers, basis, storage, doomed, history>>

Replace(u) ==
    ReadForUpload(u) \/ CheckReplaceable(u) \/ ReplacePaper(u) \/ ExtractText(u)

-----------------------------------------------------------------------------
\* Editing the rubric

ReadForEdit(e) ==
    /\ At(e, "idle")
    /\ exam.exists
    /\ task' = [task EXCEPT ![e] =
                   [@ EXCEPT !.at = "exam_read", !.paper = exam.paper]]
    /\ UNCHANGED <<exam, rubric, answers, basis, storage, doomed, history>>

\* One transaction.
CommitRubric(e) ==
    /\ At(e, "exam_read")
    /\ IF PaperUnchanged(e) /\ ~exam.locked /\ ~LegacyMarks
         THEN /\ exam' = [exam EXCEPT !.rubric_revision = @ + 1]
              /\ rubric' = e
              /\ Goto(e, "done")
         ELSE /\ Goto(e, "refused")
              /\ UNCHANGED <<exam, rubric>>
    /\ UNCHANGED <<answers, basis, storage, doomed, history>>

Edit(e) == ReadForEdit(e) \/ CommitRubric(e)

-----------------------------------------------------------------------------
\* Deletion

\* The transaction of remove_answer; the files go afterwards.
DeleteAnswer(a) ==
    /\ exam.exists
    /\ answers[a].exists
    /\ answers' = [answers EXCEPT ![a] = Deleted(@)]
    /\ basis' = [basis EXCEPT ![a] = NoBasis]
    /\ doomed' = doomed \cup ({answers[a].report} \cap answers[a].files)
    /\ UNCHANGED <<exam, rubric, storage, history, task>>

DeleteFiles ==
    /\ \E file \in doomed :
          /\ storage' = storage \ {file}
          /\ doomed' = doomed \ {file}
    /\ UNCHANGED <<exam, rubric, answers, basis, history, task>>

DeleteExam ==
    /\ exam.exists
    /\ exam' = [exam EXCEPT !.exists = FALSE]
    /\ rubric' = None
    /\ answers' = [a \in Answers |-> Deleted(answers[a])]
    /\ basis' = [a \in Answers |-> NoBasis]
    /\ UNCHANGED <<storage, doomed, history, task>>

-----------------------------------------------------------------------------
Next ==
    \/ \E j \in Evaluations : Evaluate(j)
    \/ \E p \in Reviews : Review(p)
    \/ \E m \in Entries : Enter(m)
    \/ \E u \in Uploads : Replace(u)
    \/ \E e \in Edits : Edit(e)
    \/ \E a \in Answers : DeleteAnswer(a)
    \/ DeleteFiles
    \/ DeleteExam

Spec == Init /\ [][Next]_vars

-----------------------------------------------------------------------------
\* Properties

Places == Working \cup
    {"idle", "requested", "claimed", "failing", "interrupted", "releasing",
     "stopped", "over", "ended", "open", "submitted", "unsure", "refused", "done",
     "rubric_read", "replacing", "extracting"}

ExamRecord ==
    [exists: BOOLEAN, paper: Papers, text: BOOLEAN, locked: BOOLEAN,
     rubric_revision: Nat]

AnswerRecord ==
    [exists: BOOLEAN, id: Nat, active: Evaluations \cup {None}, revision: Nat,
     reviewed: BOOLEAN, marks: Marks \cup {None},
     report: Evaluations \cup Reviews \cup {None},
     files: SUBSET (Evaluations \cup Reviews)]

EventRecord ==
    [answer: Answers, id: Nat, from: Nat, to: Nat, previous: Marks \cup {None},
     marks: Reviews]

TaskRecord ==
    [at: Places, answer: Answers \cup {None}, paper: Papers, rubric: Rubrics,
     rubric_revision: Nat, id: Nat, revision: Nat, previous: Marks \cup {None},
     opened: Marks \cup {None}, opened_revision: Nat, checked: BOOLEAN]

TypeOK ==
    /\ exam \in ExamRecord
    /\ rubric \in Rubrics
    /\ answers \in [Answers -> AnswerRecord]
    /\ basis \in [Answers -> [paper: Papers, rubric: Rubrics]]
    /\ storage \subseteq Evaluations \cup Reviews
    /\ doomed \subseteq Evaluations \cup Reviews
    /\ history \subseteq EventRecord
    /\ task \in [Processes -> TaskRecord]

\* Saved marks were computed under the paper and the rubric the exam has now:
\* neither can be replaced under an evaluation, a review or a manual entry that
\* is under way ("a permanent exam-level barrier", exam_paper_lock.py).
MarksMatchExam ==
    \A a \in Answers :
        answers[a].exists /\ answers[a].marks # None
            => basis[a] = [paper |-> exam.paper, rubric |-> rubric]

\* An AI result never replaces marks a faculty member reviewed or entered, and
\* a review is never taken back ("reviewed marks are protected", grading.py).
ReviewedMarksAreProtected ==
    [][\A a \in Answers :
          answers[a].exists /\ answers[a].reviewed /\ answers'[a].exists
              => /\ answers'[a].reviewed
                 /\ answers'[a].marks \in {answers[a].marks} \cup Reviews \cup Entries]_vars

\* A committed review replaces exactly the marks its event names, and, if its
\* form sent the revision, the marks the form showed: no result is lost between
\* them, whoever published it ("Marks changed since this review was opened",
\* faculty_review.py).
ReviewReplacesWhatItShowed(a) ==
    \A p \in Reviews :
        (answers'[a].marks = p /\ answers[a].marks # p)
            => /\ answers[a].marks = task[p].previous
               /\ task[p].checked => answers[a].marks = task[p].opened

\* No evaluation or review of a script is lost under a review.
ScriptReviewsAreExact ==
    [][\A a \in Scripts : ReviewReplacesWhatItShowed(a)]_vars

\* The same promise for answers whose marks are entered by hand.
ManualReviewsAreExact ==
    [][\A a \in Manuals : ReviewReplacesWhatItShowed(a)]_vars

\* The review events of an answer form a chain: two of them that start from one
\* revision would both have replaced the same result ("an immutable review
\* event", faculty_review.py).
HistoryDoesNotFork ==
    \A h, i \in history :
        h.answer = i.answer /\ h.id = i.id /\ h.from = i.from => h = i

\* The report of a review an answer refers to is in the file store.
ReviewReportIsStored ==
    \A a \in Answers :
        answers[a].exists /\ answers[a].report \in Reviews
            => answers[a].report \in storage

\* The same for the report of an evaluation: "an unknown commit outcome may
\* have saved the report" (faculty_review.py).
EvaluationReportIsStored ==
    \A a \in Answers :
        answers[a].exists /\ answers[a].report \in Evaluations
            => answers[a].report \in storage
=============================================================================
