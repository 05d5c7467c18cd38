------------------------- MODULE ExamResults_proofs -------------------------
(***************************************************************************)
(* Theorems about ExamResults, for any number of answers, evaluations,     *)
(* reviews, manual entries, papers and rubrics.                            *)
(***************************************************************************)
EXTENDS ExamResults, TLAPS

-----------------------------------------------------------------------------
\* Type correctness

\* A process that has started is about an answer: the part of the invariant
\* that makes TypeOK inductive.
Targets ==
    /\ \A j \in Evaluations : task[j].at # "idle" => task[j].answer \in Scripts
    /\ \A p \in Reviews : task[p].at # "idle" => task[p].answer \in Answers
    /\ \A m \in Entries : task[m].at # "idle" => task[m].answer \in Manuals

TypeInv == TypeOK /\ Targets

LEMMA Kinds ==
    /\ \A j \in Evaluations : j \in Processes /\ j \in Marks /\ j \in Evaluations \cup Reviews
                               /\ j \notin Reviews \cup Entries \cup Uploads \cup Edits
    /\ \A p \in Reviews : p \in Processes /\ p \in Marks /\ p \in Evaluations \cup Reviews
                           /\ p \notin Evaluations \cup Entries \cup Uploads \cup Edits
    /\ \A m \in Entries : m \in Processes /\ m \in Marks
                           /\ m \notin Evaluations \cup Reviews \cup Uploads \cup Edits
    /\ \A u \in Uploads : u \in Processes /\ u \in Papers
                           /\ u \notin Evaluations \cup Reviews \cup Entries
    /\ \A e \in Edits : e \in Processes /\ e \in Rubrics
                         /\ e \notin Evaluations \cup Reviews \cup Entries
    /\ Scripts \subseteq Answers /\ Manuals \subseteq Answers
BY DistinctKinds DEF Processes, Marks, Papers, Rubrics, Answers

LEMMA InitType == Init => TypeInv
<1> SUFFICES ASSUME Init PROVE TypeInv
  OBVIOUS
<1>1. exam \in ExamRecord /\ rubric \in Rubrics
  BY DEF Init, ExamRecord, Papers, Rubrics
<1>2. NoAnswer \in AnswerRecord /\ NewAnswer \in AnswerRecord
  BY DEF NoAnswer, NewAnswer, AnswerRecord
<1>3. answers \in [Answers -> AnswerRecord]
  BY <1>2 DEF Init
<1>4. basis \in [Answers -> [paper: Papers, rubric: Rubrics]]
  BY DEF Init, NoBasis, Papers, Rubrics
<1>5. Idle \in TaskRecord
  BY DEF Idle, TaskRecord, Places, Papers, Rubrics
<1> QED
  BY <1>1, <1>3, <1>4, <1>5, Kinds DEF Init, TypeOK, TypeInv, Targets, Idle

\* One field of a well-formed record is replaced by a value of its type.
LEMMA TaskFields ==
    \A t \in TaskRecord :
        /\ \A v \in Places : [t EXCEPT !.at = v] \in TaskRecord
        /\ \A v \in Answers \cup {None} : [t EXCEPT !.answer = v] \in TaskRecord
        /\ \A v \in Papers : [t EXCEPT !.paper = v] \in TaskRecord
        /\ \A v \in Rubrics : [t EXCEPT !.rubric = v] \in TaskRecord
        /\ \A v \in Nat : /\ [t EXCEPT !.rubric_revision = v] \in TaskRecord
                          /\ [t EXCEPT !.id = v] \in TaskRecord
                          /\ [t EXCEPT !.revision = v] \in TaskRecord
                          /\ [t EXCEPT !.opened_revision = v] \in TaskRecord
        /\ \A v \in Marks \cup {None} : /\ [t EXCEPT !.previous = v] \in TaskRecord
                                       /\ [t EXCEPT !.opened = v] \in TaskRecord
        /\ \A v \in BOOLEAN : [t EXCEPT !.checked = v] \in TaskRecord
BY DEF TaskRecord

\* Moving a process to another place keeps its record well formed.
LEMMA GotoType ==
    ASSUME TypeOK, NEW p \in Processes, NEW place \in Places, Goto(p, place)
    PROVE  task' \in [Processes -> TaskRecord]
<1>1. [task[p] EXCEPT !.at = place] \in TaskRecord
  BY TaskFields DEF TypeOK
<1> QED
  BY <1>1 DEF Goto, TypeOK

\* What a process may copy into its record has the right type.
LEMMA Reads ==
    ASSUME TypeOK
    PROVE  /\ rubric \in Rubrics /\ exam.paper \in Papers /\ exam.rubric_revision \in Nat
           /\ \A a \in Answers : /\ answers[a] \in AnswerRecord
                                 /\ answers[a].id \in Nat
                                 /\ answers[a].revision \in Nat
                                 /\ answers[a].marks \in Marks \cup {None}
           /\ \A p \in Processes : task[p] \in TaskRecord
BY DEF TypeOK, ExamRecord, AnswerRecord

LEMMA PublishType ==
    ASSUME TypeOK, NEW p \in Evaluations \cup Reviews, NEW reviewed \in BOOLEAN,
           Publish(p, reviewed)
    PROVE  answers' \in [Answers -> AnswerRecord]
<1>1. p \in Marks
  BY DEF Marks
<1>2. \A a \in Answers : /\ answers[a].files \cup {p} \in SUBSET (Evaluations \cup Reviews)
                         /\ answers[a].revision + 1 \in Nat
  BY Reads DEF AnswerRecord
<1>3. \A a \in Answers :
        [answers[a] EXCEPT !.marks = p, !.report = p, !.reviewed = reviewed,
                           !.revision = answers[a].revision + 1,
                           !.files = answers[a].files \cup {p}] \in AnswerRecord
  BY <1>1, <1>2, Reads DEF AnswerRecord
<1> QED
  BY <1>3 DEF Publish, TypeOK

LEMMA EvaluationType ==
    ASSUME TypeInv, NEW j \in Evaluations, Evaluate(j)
    PROVE  TypeOK'
<1>0. j \in Processes /\ j \in Marks /\ j \in Evaluations \cup Reviews /\ TypeOK
  BY Kinds DEF TypeInv
<1>1. CASE RequestEvaluation(j)
  <2>1. PICK a \in Scripts : task' = [task EXCEPT ![j] =
                               [@ EXCEPT !.at = "requested", !.answer = a]]
    BY <1>1 DEF RequestEvaluation
  <2>2. [task[j] EXCEPT !.at = "requested", !.answer = a] \in TaskRecord
    BY <1>0, Reads, TaskFields DEF Answers, Places
  <2> QED
    BY <1>0, <1>1, <2>1, <2>2 DEF RequestEvaluation, TypeOK
<1>2. CASE ClaimEvaluation(j)
  <2>1. task' \in [Processes -> TaskRecord]
    BY <1>0, <1>2, GotoType DEF ClaimEvaluation, Places
  <2>2. \A a \in Answers : [answers[a] EXCEPT !.active = j] \in AnswerRecord
    BY <1>0, Reads DEF AnswerRecord
  <2>3. answers' \in [Answers -> AnswerRecord]
    BY <1>0, <1>2, <2>2 DEF ClaimEvaluation, TypeOK
  <2> QED
    BY <1>0, <1>2, <2>1, <2>3 DEF ClaimEvaluation, TypeOK
<1>3. CASE LockForEvaluation(j)
  <2>1. task' \in [Processes -> TaskRecord]
    BY <1>0, <1>3, GotoType DEF LockForEvaluation, Places, Working
  <2>2. exam' \in ExamRecord
    BY <1>0, <1>3 DEF LockForEvaluation, LockExam, TypeOK, ExamRecord
  <2> QED
    BY <1>0, <1>3, <2>1, <2>2 DEF LockForEvaluation, TypeOK
<1>4. CASE ReadExam(j)
  <2>1. [task[j] EXCEPT !.at = "exam_read", !.paper = exam.paper] \in TaskRecord
    BY <1>0, Reads, TaskFields DEF Places, Working
  <2>2. task' \in [Processes -> TaskRecord]
    BY <1>0, <1>4, <2>1, GotoType DEF ReadExam, Places, TypeOK
  <2> QED
    BY <1>0, <1>4, <2>2 DEF ReadExam, TypeOK
<1>5. CASE ReadAnswer(j)
  <2> DEFINE a == task[j].answer
  <2>1. a \in Answers
    BY <1>5, Kinds DEF ReadAnswer, At, TypeInv, Targets
  <2>2. [task[j] EXCEPT !.at = "answer_read", !.id = answers[a].id,
                        !.revision = answers[a].revision] \in TaskRecord
    BY <1>0, <2>1, Reads, TaskFields DEF Places, Working
  <2>3. task' \in [Processes -> TaskRecord]
    BY <1>0, <1>5, <2>2, GotoType DEF ReadAnswer, Places, TypeOK
  <2> QED
    BY <1>0, <1>5, <2>3 DEF ReadAnswer, TypeOK
<1>6. CASE ReadRubric(j)
  <2>1. [task[j] EXCEPT !.at = "grading", !.rubric = rubric] \in TaskRecord
    BY <1>0, Reads, TaskFields DEF Places, Working
  <2>2. task' \in [Processes -> TaskRecord]
    BY <1>0, <1>6, <2>1, GotoType DEF ReadRubric, Places, TypeOK
  <2> QED
    BY <1>0, <1>6, <2>2 DEF ReadRubric, TypeOK
<1>7. CASE UploadReport(j)
  <2>1. task' \in [Processes -> TaskRecord]
    BY <1>0, <1>7, GotoType DEF UploadReport, Places, Working
  <2> QED
    BY <1>0, <1>7, <2>1 DEF UploadReport, TypeOK
<1>8. CASE SaveResult(j)
  <2>1. task' \in [Processes -> TaskRecord]
    BY <1>0, <1>8, GotoType DEF SaveResult, Places
  <2>2. answers' \in [Answers -> AnswerRecord]
    BY <1>0, <1>8, PublishType DEF SaveResult, TypeOK
  <2>3. basis' \in [Answers -> [paper: Papers, rubric: Rubrics]]
    <3>1. [paper |-> task[j].paper, rubric |-> task[j].rubric]
              \in [paper: Papers, rubric: Rubrics]
      BY <1>0, Reads DEF TaskRecord
    <3> QED
      BY <1>0, <1>8, <3>1 DEF SaveResult, TypeOK
  <2> QED
    BY <1>0, <1>8, <2>1, <2>2, <2>3 DEF SaveResult, TypeOK
<1>9. CASE BreakEvaluation(j)
  <2>1. task' \in [Processes -> TaskRecord]
    BY <1>0, <1>9, GotoType DEF BreakEvaluation, Places
  <2> QED
    BY <1>0, <1>9, <2>1 DEF BreakEvaluation, TypeOK
<1>10. CASE CleanUp(j)
  <2>1. task' \in [Processes -> TaskRecord]
    BY <1>0, <1>10, GotoType DEF CleanUp, Places
  <2> QED
    BY <1>0, <1>10, <2>1 DEF CleanUp, TypeOK
<1>11. CASE ReleaseEvaluation(j)
  <2>1. task' \in [Processes -> TaskRecord]
    BY <1>0, <1>11, GotoType DEF ReleaseEvaluation, Places
  <2>2. \A a \in Answers : \A k \in Evaluations \cup {None} :
            [answers[a] EXCEPT !.active = k] \in AnswerRecord
    BY <1>0, Reads DEF AnswerRecord
  <2>3. \A a \in Answers : answers[a].active \in Evaluations \cup {None}
    BY <1>0, Reads DEF AnswerRecord
  <2>4. answers' \in [Answers -> AnswerRecord]
    BY <1>0, <1>11, <2>2, <2>3 DEF ReleaseEvaluation, TypeOK
  <2> QED
    BY <1>0, <1>11, <2>1, <2>4 DEF ReleaseEvaluation, TypeOK
<1> QED
  BY <1>1, <1>2, <1>3, <1>4, <1>5, <1>6, <1>7, <1>8, <1>9, <1>10, <1>11 DEF Evaluate

LEMMA ReviewType ==
    ASSUME TypeInv, NEW p \in Reviews, Review(p)
    PROVE  TypeOK'
<1>0. p \in Processes /\ p \in Marks /\ p \in Evaluations \cup Reviews /\ TypeOK
  BY Kinds DEF TypeInv
<1>1. CASE OpenReview(p)
  <2>1. PICK a \in Answers : task' = [task EXCEPT ![p] =
                [@ EXCEPT !.at = "open", !.answer = a, !.id = answers[a].id,
                          !.opened = answers[a].marks,
                          !.opened_revision = answers[a].revision]]
    BY <1>1 DEF OpenReview
  <2>2. [task[p] EXCEPT !.at = "open", !.answer = a, !.id = answers[a].id,
                        !.opened = answers[a].marks,
                        !.opened_revision = answers[a].revision] \in TaskRecord
    BY <1>0, Reads, TaskFields DEF Places
  <2> QED
    BY <1>0, <1>1, <2>1, <2>2 DEF OpenReview, TypeOK
<1>2. CASE SubmitReview(p)
  <2> DEFINE a == task[p].answer
  <2>1. a \in Answers
    BY <1>2 DEF SubmitReview, At, TypeInv, Targets
  <2>2. \A checked \in BOOLEAN :
           [task[p] EXCEPT !.at = "submitted", !.previous = answers[a].marks,
                           !.revision = answers[a].revision, !.checked = checked]
               \in TaskRecord
    BY <1>0, <2>1, Reads, TaskFields DEF Places
  <2>3. task' \in [Processes -> TaskRecord]
    <3>1. CASE answers[a].exists /\ answers[a].id = task[p].id
      BY <1>0, <1>2, <2>2, <3>1 DEF SubmitReview, TypeOK
    <3>2. CASE ~(answers[a].exists /\ answers[a].id = task[p].id)
      BY <1>0, <1>2, <3>2, GotoType DEF SubmitReview, Places
    <3> QED
      BY <3>1, <3>2
  <2> QED
    BY <1>0, <1>2, <2>3 DEF SubmitReview, TypeOK
<1>3. CASE LockForReview(p)
  <2>1. task' \in [Processes -> TaskRecord]
    BY <1>0, <1>3, GotoType DEF LockForReview, Places, Working
  <2>2. exam' \in ExamRecord
    BY <1>0, <1>3 DEF LockForReview, LockExam, TypeOK, ExamRecord
  <2> QED
    BY <1>0, <1>3, <2>1, <2>2 DEF LockForReview, TypeOK
<1>4. CASE UploadReview(p)
  <2>1. task' \in [Processes -> TaskRecord]
    BY <1>0, <1>4, GotoType DEF UploadReview, Places, Working
  <2> QED
    BY <1>0, <1>4, <2>1 DEF UploadReview, TypeOK
<1>5. CASE CommitReview(p)
  <2>1. task' \in [Processes -> TaskRecord]
    BY <1>0, <1>5, GotoType DEF CommitReview, Places
  <2>2. answers' \in [Answers -> AnswerRecord]
    BY <1>0, <1>5, PublishType DEF CommitReview, TypeOK
  <2>3. task[p].answer \in Answers
    BY <1>5 DEF CommitReview, At, TypeInv, Targets
  <2>4. ReviewEvent(p) \in EventRecord
    BY <1>0, <2>3, Reads DEF ReviewEvent, EventRecord, TaskRecord
  <2>5. history' \subseteq EventRecord
    BY <1>0, <1>5, <2>4 DEF CommitReview, TypeOK
  <2> QED
    BY <1>0, <1>5, <2>1, <2>2, <2>5 DEF CommitReview, TypeOK
<1>6. CASE VerifyReview(p)
  <2>1. task' \in [Processes -> TaskRecord]
    BY <1>0, <1>6, GotoType DEF VerifyReview, Places
  <2> QED
    BY <1>0, <1>6, <2>1 DEF VerifyReview, TypeOK
<1>7. CASE BreakReview(p)
  <2>1. task' \in [Processes -> TaskRecord]
    BY <1>0, <1>7, GotoType DEF BreakReview, Places
  <2> QED
    BY <1>0, <1>7, <2>1 DEF BreakReview, TypeOK
<1> QED
  BY <1>1, <1>2, <1>3, <1>4, <1>5, <1>6, <1>7 DEF Review

LEMMA EntryType ==
    ASSUME TypeInv, NEW m \in Entries, Enter(m)
    PROVE  TypeOK'
<1>0. m \in Processes /\ m \in Marks /\ TypeOK
  BY Kinds DEF TypeInv
<1>1. CASE ReadExamForEntry(m)
  <2>1. PICK a \in Manuals : task' = [task EXCEPT ![m] =
             [@ EXCEPT !.at = "exam_read", !.answer = a, !.paper = exam.paper,
                       !.rubric_revision = exam.rubric_revision]]
    BY <1>1 DEF ReadExamForEntry
  <2>2. a \in Answers
    BY Kinds
  <2>3. [task[m] EXCEPT !.at = "exam_read", !.answer = a, !.paper = exam.paper,
                        !.rubric_revision = exam.rubric_revision] \in TaskRecord
    BY <1>0, <2>2, Reads, TaskFields DEF Places, Working
  <2> QED
    BY <1>0, <1>1, <2>1, <2>3 DEF ReadExamForEntry, TypeOK
<1>2. CASE ReadRubricForEntry(m)
  <2>1. [task[m] EXCEPT !.at = "rubric_read", !.rubric = rubric] \in TaskRecord
    BY <1>0, Reads, TaskFields DEF Places
  <2> QED
    BY <1>0, <1>2, <2>1 DEF ReadRubricForEntry, TypeOK
<1>3. CASE LockForEntry(m)
  <2>1. task' \in [Processes -> TaskRecord]
    BY <1>0, <1>3, GotoType DEF LockForEntry, Places, Working
  <2>2. exam' \in ExamRecord
    BY <1>0, <1>3 DEF LockForEntry, LockExam, TypeOK, ExamRecord
  <2> QED
    BY <1>0, <1>3, <2>1, <2>2 DEF LockForEntry, TypeOK
<1>4. CASE SaveEntry(m)
  <2>1. task' \in [Processes -> TaskRecord]
    BY <1>0, <1>4, GotoType DEF SaveEntry, Places
  <2>2. \A a \in Answers :
           [answers[a] EXCEPT !.exists = TRUE, !.marks = m, !.reviewed = TRUE]
               \in AnswerRecord
    BY <1>0, Reads DEF AnswerRecord
  <2>3. answers' \in [Answers -> AnswerRecord]
    <3>1. CASE exam.exists
      <4> DEFINE a == task[m].answer
      <4>1. answers' = [answers EXCEPT ![a] =
                [answers[a] EXCEPT !.exists = TRUE, !.marks = m, !.reviewed = TRUE]]
        BY <1>4, <3>1 DEF SaveEntry
      <4>2. answers \in [Answers -> AnswerRecord]
        BY <1>0 DEF TypeOK
      <4> QED
        BY <2>2, <4>1, <4>2
    <3>2. CASE ~exam.exists
      BY <1>0, <1>4, <3>2 DEF SaveEntry, TypeOK
    <3> QED
      BY <3>1, <3>2
  <2>4. [paper |-> task[m].paper, rubric |-> task[m].rubric]
            \in [paper: Papers, rubric: Rubrics]
    BY <1>0, Reads DEF TaskRecord
  <2>5. basis' \in [Answers -> [paper: Papers, rubric: Rubrics]]
    BY <1>0, <1>4, <2>4 DEF SaveEntry, TypeOK
  <2> QED
    BY <1>0, <1>4, <2>1, <2>3, <2>5 DEF SaveEntry, TypeOK
<1> QED
  BY <1>1, <1>2, <1>3, <1>4 DEF Enter

LEMMA UploadType ==
    ASSUME TypeInv, NEW u \in Uploads, Replace(u)
    PROVE  TypeOK'
<1>0. u \in Processes /\ u \in Papers /\ TypeOK
  BY Kinds DEF TypeInv
<1>1. CASE ReadForUpload(u)
  <2>1. \A place \in {"exam_read", "refused"} :
           [task[u] EXCEPT !.at = place, !.paper = exam.paper] \in TaskRecord
    BY <1>0, Reads, TaskFields DEF Places, Working
  <2> QED
    BY <1>0, <1>1, <2>1 DEF ReadForUpload, TypeOK
<1>2. CASE CheckReplaceable(u)
  <2>1. task' \in [Processes -> TaskRecord]
    BY <1>0, <1>2, GotoType DEF CheckReplaceable, Places
  <2> QED
    BY <1>0, <1>2, <2>1 DEF CheckReplaceable, TypeOK
<1>3. CASE ReplacePaper(u)
  <2>1. task' \in [Processes -> TaskRecord]
    BY <1>0, <1>3, GotoType DEF ReplacePaper, Places
  <2>2. exam' \in ExamRecord
    BY <1>0, <1>3 DEF ReplacePaper, TypeOK, ExamRecord
  <2> QED
    BY <1>0, <1>3, <2>1, <2>2 DEF ReplacePaper, TypeOK
<1>4. CASE ExtractText(u)
  <2>1. task' \in [Processes -> TaskRecord]
    BY <1>0, <1>4, GotoType DEF ExtractText, Places
  <2>2. exam' \in ExamRecord
    BY <1>0, <1>4 DEF ExtractText, TypeOK, ExamRecord
  <2> QED
    BY <1>0, <1>4, <2>1, <2>2 DEF ExtractText, TypeOK
<1> QED
  BY <1>1, <1>2, <1>3, <1>4 DEF Replace

LEMMA EditType ==
    ASSUME TypeInv, NEW e \in Edits, Edit(e)
    PROVE  TypeOK'
<1>0. e \in Processes /\ e \in Rubrics /\ TypeOK
  BY Kinds DEF TypeInv
<1>1. CASE ReadForEdit(e)
  <2>1. [task[e] EXCEPT !.at = "exam_read", !.paper = exam.paper] \in TaskRecord
    BY <1>0, Reads, TaskFields DEF Places, Working
  <2> QED
    BY <1>0, <1>1, <2>1 DEF ReadForEdit, TypeOK
<1>2. CASE CommitRubric(e)
  <2>1. task' \in [Processes -> TaskRecord]
    BY <1>0, <1>2, GotoType DEF CommitRubric, Places
  <2>2. exam' \in ExamRecord
    BY <1>0, <1>2 DEF CommitRubric, TypeOK, ExamRecord
  <2> QED
    BY <1>0, <1>2, <2>1, <2>2 DEF CommitRubric, TypeOK
<1> QED
  BY <1>1, <1>2 DEF Edit

LEMMA DeletionType ==
    ASSUME TypeInv, (\E a \in Answers : DeleteAnswer(a)) \/ DeleteFiles \/ DeleteExam
    PROVE  TypeOK'
<1>0. TypeOK
  BY DEF TypeInv
<1>1. \A a \in Answers : /\ Deleted(answers[a]) \in AnswerRecord
                         /\ ({answers[a].report} \cap answers[a].files)
                                \subseteq Evaluations \cup Reviews
  <2> TAKE a \in Answers
  <2>1. (IF answers[a].exists THEN answers[a].id + 1 ELSE answers[a].id) \in Nat
    BY <1>0, Reads
  <2>2. NoAnswer \in AnswerRecord
    BY DEF NoAnswer, AnswerRecord
  <2>3. Deleted(answers[a]) \in AnswerRecord
    BY <2>1, <2>2 DEF Deleted, AnswerRecord
  <2> QED
    BY <1>0, <2>3, Reads DEF AnswerRecord
<1>2. NoBasis \in [paper: Papers, rubric: Rubrics]
  BY DEF NoBasis, Papers, Rubrics
<1>3. ASSUME NEW a \in Answers, DeleteAnswer(a) PROVE TypeOK'
  BY <1>0, <1>1, <1>2, <1>3 DEF DeleteAnswer, TypeOK
<1>4. CASE DeleteFiles
  BY <1>0, <1>4 DEF DeleteFiles, TypeOK
<1>5. CASE DeleteExam
  <2>1. exam' \in ExamRecord
    BY <1>0, <1>5 DEF DeleteExam, TypeOK, ExamRecord
  <2> QED
    BY <1>0, <1>1, <1>2, <1>5, <2>1 DEF DeleteExam, TypeOK, Rubrics
<1> QED
  BY <1>3, <1>4, <1>5

-----------------------------------------------------------------------------
\* Who moves: a step changes the record of one process, which keeps its answer
\* unless it starts.

OnlyMoves(p) == \A q \in Processes \ {p} : task'[q] = task[q]

LEMMA EvaluationMoves ==
    ASSUME TypeInv, NEW j \in Evaluations, Evaluate(j)
    PROVE  /\ OnlyMoves(j)
           /\ task[j].at = "idle" => task'[j].answer \in Scripts
           /\ task[j].at # "idle" => task'[j].answer = task[j].answer
<1>0. j \in Processes /\ task \in [Processes -> TaskRecord]
  BY Kinds DEF TypeInv, TypeOK
<1> USE DEF OnlyMoves, At, Goto
<1>1. CASE RequestEvaluation(j)
  BY <1>0, <1>1 DEF RequestEvaluation, TaskRecord
<1>2. CASE ClaimEvaluation(j)
  BY <1>0, <1>2 DEF ClaimEvaluation, TaskRecord
<1>3. CASE LockForEvaluation(j)
  BY <1>0, <1>3 DEF LockForEvaluation, TaskRecord
<1>4. CASE ReadExam(j)
  BY <1>0, <1>4 DEF ReadExam, TaskRecord
<1>5. CASE ReadAnswer(j)
  <2>1. CASE Goto(j, "failing")
    BY <1>0, <1>5, <2>1 DEF ReadAnswer, TaskRecord
  <2>2. CASE task' = [task EXCEPT ![j] =
                 [@ EXCEPT !.at = "answer_read", !.id = answers[task[j].answer].id,
                           !.revision = answers[task[j].answer].revision]]
    <3>1. OnlyMoves(j) /\ task'[j].answer = task[j].answer
      BY <1>0, <2>2 DEF TaskRecord
    <3>2. task[j].at = "exam_read"
      BY <1>5 DEF ReadAnswer
    <3> QED
      BY <3>1, <3>2
  <2> QED
    BY <1>5, <2>1, <2>2 DEF ReadAnswer
<1>6. CASE ReadRubric(j)
  BY <1>0, <1>6 DEF ReadRubric, TaskRecord
<1>7. CASE UploadReport(j)
  BY <1>0, <1>7 DEF UploadReport, TaskRecord
<1>8. CASE SaveResult(j)
  BY <1>0, <1>8 DEF SaveResult, TaskRecord
<1>9. CASE BreakEvaluation(j)
  BY <1>0, <1>9 DEF BreakEvaluation, TaskRecord, Working
<1>10. CASE CleanUp(j)
  BY <1>0, <1>10 DEF CleanUp, TaskRecord
<1>11. CASE ReleaseEvaluation(j)
  BY <1>0, <1>11 DEF ReleaseEvaluation, TaskRecord
<1> HIDE DEF OnlyMoves, At, Goto
<1> QED
  BY <1>1, <1>2, <1>3, <1>4, <1>5, <1>6, <1>7, <1>8, <1>9, <1>10, <1>11 DEF Evaluate

LEMMA ReviewMoves ==
    ASSUME TypeInv, NEW p \in Reviews, Review(p)
    PROVE  /\ OnlyMoves(p)
           /\ task[p].at = "idle" => task'[p].answer \in Answers
           /\ task[p].at # "idle" => task'[p].answer = task[p].answer
<1>0. p \in Processes /\ task \in [Processes -> TaskRecord]
  BY Kinds DEF TypeInv, TypeOK
<1> USE DEF OnlyMoves, At, Goto
<1>1. CASE OpenReview(p)
  BY <1>0, <1>1 DEF OpenReview, TaskRecord
<1>2. CASE SubmitReview(p)
  <2>1. task' = [task EXCEPT ![p] = task'[p]]
    BY <1>0, <1>2 DEF SubmitReview
  <2>2. task'[p].answer = task[p].answer
    <3>1. CASE Goto(p, "refused")
      BY <1>0, <3>1 DEF TaskRecord
    <3>2. CASE \E checked \in BOOLEAN :
                 task' = [task EXCEPT ![p] =
                   [@ EXCEPT !.at = "submitted",
                             !.previous = answers[task[p].answer].marks,
                             !.revision = answers[task[p].answer].revision,
                             !.checked = checked]]
      <4>1. PICK checked \in BOOLEAN :
                 task' = [task EXCEPT ![p] =
                   [@ EXCEPT !.at = "submitted",
                             !.previous = answers[task[p].answer].marks,
                             !.revision = answers[task[p].answer].revision,
                             !.checked = checked]]
        BY <3>2
      <4> QED
        BY <1>0, <4>1 DEF TaskRecord
    <3> QED
      BY <1>2, <3>1, <3>2 DEF SubmitReview
  <2>3. task[p].at # "idle"
    BY <1>2 DEF SubmitReview
  <2> QED
    BY <1>0, <2>1, <2>2, <2>3
<1>3. CASE LockForReview(p)
  BY <1>0, <1>3 DEF LockForReview, TaskRecord
<1>4. CASE UploadReview(p)
  BY <1>0, <1>4 DEF UploadReview, TaskRecord
<1>5. CASE CommitReview(p)
  BY <1>0, <1>5 DEF CommitReview, TaskRecord
<1>6. CASE VerifyReview(p)
  BY <1>0, <1>6 DEF VerifyReview, TaskRecord
<1>7. CASE BreakReview(p)
  BY <1>0, <1>7 DEF BreakReview, TaskRecord
<1> HIDE DEF OnlyMoves, At, Goto
<1> QED
  BY <1>1, <1>2, <1>3, <1>4, <1>5, <1>6, <1>7 DEF Review

LEMMA EntryMoves ==
    ASSUME TypeInv, NEW m \in Entries, Enter(m)
    PROVE  /\ OnlyMoves(m)
           /\ task[m].at = "idle" => task'[m].answer \in Manuals
           /\ task[m].at # "idle" => task'[m].answer = task[m].answer
<1>0. m \in Processes /\ task \in [Processes -> TaskRecord]
  BY Kinds DEF TypeInv, TypeOK
<1> USE DEF OnlyMoves, At, Goto
<1>1. CASE ReadExamForEntry(m)
  BY <1>0, <1>1 DEF ReadExamForEntry, TaskRecord
<1>2. CASE ReadRubricForEntry(m)
  BY <1>0, <1>2 DEF ReadRubricForEntry, TaskRecord
<1>3. CASE LockForEntry(m)
  BY <1>0, <1>3 DEF LockForEntry, TaskRecord
<1>4. CASE SaveEntry(m)
  BY <1>0, <1>4 DEF SaveEntry, TaskRecord
<1> HIDE DEF OnlyMoves, At, Goto
<1> QED
  BY <1>1, <1>2, <1>3, <1>4 DEF Enter

LEMMA OthersMove ==
    ASSUME TypeInv
    PROVE  /\ \A u \in Uploads : Replace(u) => OnlyMoves(u)
           /\ \A e \in Edits : Edit(e) => OnlyMoves(e)
           /\ \A a \in Answers : DeleteAnswer(a) => task' = task
           /\ DeleteFiles \/ DeleteExam => task' = task
<1>0. task \in [Processes -> TaskRecord]
  BY DEF TypeInv, TypeOK
<1>1. ASSUME NEW u \in Uploads, Replace(u) PROVE OnlyMoves(u)
  BY <1>0, <1>1 DEF Replace, ReadForUpload, CheckReplaceable, ReplacePaper,
                    ExtractText, OnlyMoves, Goto
<1>2. ASSUME NEW e \in Edits, Edit(e) PROVE OnlyMoves(e)
  BY <1>0, <1>2 DEF Edit, ReadForEdit, CommitRubric, OnlyMoves, Goto
<1> QED
  BY <1>1, <1>2 DEF DeleteAnswer, DeleteFiles, DeleteExam

LEMMA Submitting ==
    ASSUME TypeInv, NEW p \in Reviews, SubmitReview(p)
    PROVE  /\ task[p].at = "open" /\ task'[p].at \in {"refused", "submitted"}
           /\ task'[p].answer = task[p].answer /\ task'[p].id = task[p].id
<1>0. p \in Processes /\ task \in [Processes -> TaskRecord]
  BY Kinds DEF TypeInv, TypeOK
<1> DEFINE answer == answers[task[p].answer]
<1>1. CASE Goto(p, "refused")
  BY <1>0, <1>1 DEF Goto, SubmitReview, At, TaskRecord
<1>2. ASSUME NEW checked \in BOOLEAN, task' = [task EXCEPT ![p] =
                       [@ EXCEPT !.at = "submitted", !.previous = answer.marks,
                                 !.revision = answer.revision, !.checked = checked]]
      PROVE  /\ task'[p].at = "submitted"
             /\ task'[p].answer = task[p].answer /\ task'[p].id = task[p].id
  <2>1. task'[p] = [task[p] EXCEPT !.at = "submitted", !.previous = answer.marks,
                                   !.revision = answer.revision, !.checked = checked]
    BY <1>0, <1>2
  <2> HIDE DEF answer
  <2> QED
    BY <1>0, <2>1 DEF TaskRecord
<1> QED
  BY <1>1, <1>2 DEF SubmitReview, At

LEMMA StepTargets ==
    ASSUME TypeInv, [Next]_vars
    PROVE  Targets'
<1>0. Targets
  BY DEF TypeInv
<1>1. ASSUME NEW j \in Evaluations, Evaluate(j) PROVE Targets'
  BY <1>0, <1>1, EvaluationMoves, Kinds DEF Targets, OnlyMoves
<1>2. ASSUME NEW p \in Reviews, Review(p) PROVE Targets'
  BY <1>0, <1>2, ReviewMoves, Kinds DEF Targets, OnlyMoves
<1>3. ASSUME NEW m \in Entries, Enter(m) PROVE Targets'
  BY <1>0, <1>3, EntryMoves, Kinds DEF Targets, OnlyMoves
<1>4. ASSUME NEW u \in Uploads, Replace(u) PROVE Targets'
  BY <1>0, <1>4, OthersMove, Kinds DEF Targets, OnlyMoves
<1>5. ASSUME NEW e \in Edits, Edit(e) PROVE Targets'
  BY <1>0, <1>5, OthersMove, Kinds DEF Targets, OnlyMoves
<1>6. CASE task' = task
  BY <1>0, <1>6 DEF Targets
<1> QED
  BY <1>1, <1>2, <1>3, <1>4, <1>5, <1>6, OthersMove DEF Next, vars

LEMMA StepType ==
    ASSUME TypeInv, [Next]_vars
    PROVE  TypeInv'
<1>1. CASE Next
  <2>1. TypeOK'
    BY <1>1, EvaluationType, ReviewType, EntryType, UploadType, EditType,
       DeletionType DEF Next
  <2> QED
    BY <2>1, StepTargets DEF TypeInv
<1>2. CASE UNCHANGED vars
  BY <1>2 DEF TypeInv, TypeOK, Targets, vars
<1> QED
  BY <1>1, <1>2

\* Every variable keeps its type: every handler writes documents of the shape
\* the others expect.
THEOREM TypeCorrect == Spec => []TypeOK
<1>1. TypeInv => TypeOK
  BY DEF TypeInv
<1> QED
  BY <1>1, InitType, StepType, PTL DEF Spec

-----------------------------------------------------------------------------
\* Marks match the exam they belong to

\* What each process has read is what the exam still says, from the barrier on.
EvaluationFrozen(j) ==
    /\ task[j].at = "locked" => exam.locked
    /\ task[j].at \in {"exam_read", "answer_read", "grading", "saving"}
          => exam.locked /\ task[j].paper = exam.paper
    /\ task[j].at \in {"grading", "saving"} => (exam.exists => task[j].rubric = rubric)

EntryFrozen(m) ==
    /\ task[m].at \in {"exam_read", "rubric_read"}
          => task[m].rubric_revision <= exam.rubric_revision
    /\ task[m].at = "rubric_read"
          => (exam.exists /\ task[m].rubric_revision = exam.rubric_revision
                => task[m].rubric = rubric)
    /\ task[m].at = "locked"
          => /\ exam.locked /\ task[m].paper = exam.paper
             /\ exam.exists => task[m].rubric = rubric

\* A review is opened on marks, which only the deletion of the document removes.
ReviewKnowsMarks(p) ==
    task[p].at \in {"open", "submitted", "locked", "saving"}
        => LET answer == answers[task[p].answer]
           IN /\ task[p].id <= answer.id
              /\ task[p].id = answer.id => answer.exists /\ answer.marks # None

MarksLockExam ==
    \A a \in Answers : answers[a].exists
        => exam.exists /\ (answers[a].marks # None => exam.locked)

FreezeInv ==
    /\ TypeInv
    /\ MarksLockExam
    /\ MarksMatchExam
    /\ \A j \in Evaluations : EvaluationFrozen(j)
    /\ \A m \in Entries : EntryFrozen(m)
    /\ \A p \in Reviews : ReviewKnowsMarks(p)

LEMMA InitFreeze == Init => FreezeInv
<1> SUFFICES ASSUME Init PROVE FreezeInv
  OBVIOUS
<1>1. \A p \in Processes : task[p].at = "idle"
  BY DEF Init, Idle
<1>2. exam.exists /\ \A a \in Answers : answers[a].marks = None
  BY DEF Init, NewAnswer, NoAnswer
<1> QED
  BY <1>1, <1>2, InitType, Kinds
     DEF FreezeInv, MarksLockExam, MarksMatchExam, EvaluationFrozen, EntryFrozen,
         ReviewKnowsMarks

\* The barrier is permanent and freezes paper and rubric; the rubric changes
\* only together with its revision, or with the exam.
ExamStep ==
    /\ exam'.exists => exam.exists
    /\ exam.locked => /\ exam'.locked /\ exam'.paper = exam.paper
                      /\ exam'.exists => rubric' = rubric
    /\ exam.rubric_revision <= exam'.rubric_revision
    /\ exam'.exists /\ exam.rubric_revision = exam'.rubric_revision => rubric' = rubric

LEMMA ExamSteps ==
    ASSUME TypeInv, [Next]_vars
    PROVE  ExamStep
<1>0. exam \in ExamRecord /\ exam.rubric_revision \in Nat
  BY DEF TypeInv, TypeOK, ExamRecord
<1>1. CASE UNCHANGED <<exam, rubric>>
  BY <1>0, <1>1 DEF ExamStep
<1>2. CASE LockExam /\ rubric' = rubric
  BY <1>0, <1>2 DEF ExamStep, LockExam, ExamRecord
<1>3. ASSUME NEW j \in Evaluations, Evaluate(j) PROVE ExamStep
  BY <1>1, <1>2, <1>3 DEF Evaluate, RequestEvaluation, ClaimEvaluation,
     LockForEvaluation, ReadExam, ReadAnswer, ReadRubric, UploadReport, SaveResult,
     BreakEvaluation, CleanUp, ReleaseEvaluation
<1>4. ASSUME NEW p \in Reviews, Review(p) PROVE ExamStep
  BY <1>1, <1>2, <1>4 DEF Review, OpenReview, SubmitReview, LockForReview,
     UploadReview, CommitReview, VerifyReview, BreakReview
<1>5. ASSUME NEW m \in Entries, Enter(m) PROVE ExamStep
  BY <1>1, <1>2, <1>5 DEF Enter, ReadExamForEntry, ReadRubricForEntry,
     LockForEntry, SaveEntry
<1>6. ASSUME NEW u \in Uploads, Replace(u) PROVE ExamStep
  <2>1. CASE ReplacePaper(u)
    <3>1. CASE PaperUnchanged(u) /\ ~exam.locked
      <4>1. /\ exam' = [exam EXCEPT !.paper = u, !.text = FALSE]
            /\ rubric' = rubric /\ ~exam.locked
        BY <2>1, <3>1 DEF ReplacePaper
      <4>2. exam'.exists = exam.exists /\ exam'.rubric_revision = exam.rubric_revision
        BY <1>0, <4>1 DEF ExamRecord
      <4> QED
        BY <1>0, <4>1, <4>2 DEF ExamStep
    <3> QED
      BY <1>1, <2>1, <3>1 DEF ReplacePaper
  <2>2. CASE ExtractText(u)
    BY <1>0, <2>2 DEF ExtractText, ExamStep, ExamRecord
  <2> QED
    BY <1>1, <1>6, <2>1, <2>2 DEF Replace, ReadForUpload, CheckReplaceable
<1>7. ASSUME NEW e \in Edits, Edit(e) PROVE ExamStep
  <2>1. CASE CommitRubric(e)
    BY <1>0, <1>1, <2>1 DEF CommitRubric, ExamStep, ExamRecord
  <2> QED
    BY <1>1, <1>7, <2>1 DEF Edit, ReadForEdit
<1>8. CASE DeleteExam
  BY <1>0, <1>8 DEF DeleteExam, ExamStep, ExamRecord
<1> QED
  BY <1>1, <1>3, <1>4, <1>5, <1>6, <1>7, <1>8 DEF Next, vars, DeleteAnswer, DeleteFiles

LEMMA StepEvaluationFrozen ==
    ASSUME FreezeInv, [Next]_vars, NEW j \in Evaluations
    PROVE  EvaluationFrozen(j)'
<1>0. j \in Processes /\ task \in [Processes -> TaskRecord] /\ TypeInv
  BY Kinds DEF FreezeInv, TypeInv, TypeOK
<1>a. EvaluationFrozen(j) /\ ExamStep
  BY <1>0, ExamSteps DEF FreezeInv
<1>1. CASE task'[j] = task[j]
  BY <1>a, <1>1 DEF EvaluationFrozen, ExamStep
<1>2. CASE Evaluate(j)
  <2> USE DEF EvaluationFrozen, At, Goto, TaskRecord
  <2>1. CASE LockForEvaluation(j)
    <3>1. exam \in ExamRecord
      BY <1>0 DEF TypeInv, TypeOK
    <3> QED
      BY <1>0, <1>a, <2>1, <3>1 DEF LockForEvaluation, LockExam, ExamRecord
  <2>2. CASE ReadExam(j)
    <3>1. /\ task'[j].at \in {"exam_read", "failing"}
          /\ task'[j].at = "exam_read" => task'[j].paper = exam.paper
          /\ exam' = exam /\ task[j].at = "locked"
      <4>1. CASE exam.exists /\ exam.text
        <5>1. /\ task' = [task EXCEPT ![j] =
                          [@ EXCEPT !.at = "exam_read", !.paper = exam.paper]]
              /\ exam' = exam /\ task[j].at = "locked"
          BY <2>2, <4>1 DEF ReadExam
        <5> QED
          BY <1>0, <5>1
      <4>2. CASE ~(exam.exists /\ exam.text)
        BY <1>0, <2>2, <4>2 DEF ReadExam
      <4> QED
        BY <4>1, <4>2
    <3> QED
      BY <1>a, <3>1
  <2>3. CASE ReadAnswer(j)
    <3>1. /\ task'[j].at \in {"answer_read", "failing"}
          /\ task'[j].paper = task[j].paper
          /\ exam' = exam /\ task[j].at = "exam_read"
      <4> DEFINE answer == answers[task[j].answer]
      <4>1. CASE answer.exists /\ ~answer.reviewed
        <5>1. /\ task' = [task EXCEPT ![j] =
                          [@ EXCEPT !.at = "answer_read", !.id = answer.id,
                                    !.revision = answer.revision]]
              /\ exam' = exam /\ task[j].at = "exam_read"
          BY <2>3, <4>1 DEF ReadAnswer
        <5> QED
          BY <1>0, <5>1
      <4>2. CASE ~(answer.exists /\ ~answer.reviewed)
        BY <1>0, <2>3, <4>2 DEF ReadAnswer
      <4> QED
        BY <4>1, <4>2
    <3> QED
      BY <1>a, <3>1
  <2>4. CASE ReadRubric(j)
    <3>1. /\ task'[j].at \in {"grading", "failing"}
          /\ task'[j].paper = task[j].paper
          /\ task'[j].at = "grading" => task'[j].rubric = rubric
          /\ UNCHANGED <<exam, rubric>> /\ task[j].at = "answer_read"
      <4>1. CASE rubric # None
        <5>1. /\ task' = [task EXCEPT ![j] =
                          [@ EXCEPT !.at = "grading", !.rubric = rubric]]
              /\ UNCHANGED <<exam, rubric>> /\ task[j].at = "answer_read"
          BY <2>4, <4>1 DEF ReadRubric
        <5> QED
          BY <1>0, <5>1
      <4>2. CASE rubric = None
        BY <1>0, <2>4, <4>2 DEF ReadRubric
      <4> QED
        BY <4>1, <4>2
    <3> QED
      BY <1>a, <3>1
  <2>5. CASE UploadReport(j)
    BY <1>0, <1>a, <2>5 DEF UploadReport
  <2> DEFINE Elsewhere == {"requested", "claimed", "ended", "stopped", "over",
                           "failing", "releasing", "interrupted"}
  <2>6. task'[j].at \in Elsewhere => EvaluationFrozen(j)'
    OBVIOUS
  <2>7. RequestEvaluation(j) => task'[j].at \in Elsewhere
    BY <1>0 DEF RequestEvaluation
  <2>8. ClaimEvaluation(j) => task'[j].at \in Elsewhere
    BY <1>0 DEF ClaimEvaluation
  <2>9. SaveResult(j) => task'[j].at \in Elsewhere
    <3>1. SaveResult(j) => \E place \in {"releasing", "failing"} : Goto(j, place)
      BY DEF SaveResult
    <3> QED
      BY <1>0, <3>1
  <2>10. BreakEvaluation(j) => task'[j].at \in Elsewhere
    BY <1>0 DEF BreakEvaluation
  <2>11. CleanUp(j) => task'[j].at \in Elsewhere
    BY <1>0 DEF CleanUp
  <2>12. ReleaseEvaluation(j) => task'[j].at \in Elsewhere
    BY <1>0 DEF ReleaseEvaluation
  <2> HIDE DEF EvaluationFrozen, At, Goto, TaskRecord, Elsewhere
  <2> QED
    BY <1>2, <2>1, <2>2, <2>3, <2>4, <2>5, <2>6, <2>7, <2>8, <2>9, <2>10, <2>11, <2>12
       DEF Evaluate
<1>3. Evaluate(j) \/ task'[j] = task[j]
  BY <1>0, EvaluationMoves, ReviewMoves, EntryMoves, OthersMove, Kinds
     DEF Next, vars, OnlyMoves
<1> QED
  BY <1>1, <1>2, <1>3

LEMMA StepEntryFrozen ==
    ASSUME FreezeInv, [Next]_vars, NEW m \in Entries
    PROVE  EntryFrozen(m)'
<1>0. m \in Processes /\ task \in [Processes -> TaskRecord] /\ TypeInv
  BY Kinds DEF FreezeInv, TypeInv, TypeOK
<1>a. EntryFrozen(m) /\ ExamStep
  BY <1>0, ExamSteps DEF FreezeInv
<1>b. /\ exam.rubric_revision \in Nat /\ exam'.rubric_revision \in Nat
      /\ task[m].rubric_revision \in Nat
  <2>1. TypeOK' /\ TypeOK
    BY <1>0, StepType DEF TypeInv
  <2> QED
    BY <1>0, <2>1 DEF TypeOK, ExamRecord, TaskRecord
<1>1. CASE task'[m] = task[m]
  BY <1>a, <1>b, <1>1 DEF EntryFrozen, ExamStep
<1>2. CASE Enter(m)
  <2>1. CASE ReadExamForEntry(m)
    <3>1. PICK a \in Manuals : task' = [task EXCEPT ![m] =
             [@ EXCEPT !.at = "exam_read", !.answer = a, !.paper = exam.paper,
                       !.rubric_revision = exam.rubric_revision]]
      BY <2>1 DEF ReadExamForEntry
    <3>2. task'[m].at = "exam_read" /\ task'[m].rubric_revision = exam.rubric_revision
      BY <1>0, <3>1 DEF TaskRecord
    <3> QED
      BY <1>a, <1>b, <3>2 DEF EntryFrozen, ExamStep
  <2>2. CASE ReadRubricForEntry(m)
    <3>1. task' = [task EXCEPT ![m] = [@ EXCEPT !.at = "rubric_read", !.rubric = rubric]]
      BY <2>2 DEF ReadRubricForEntry
    <3>2. /\ task'[m].at = "rubric_read" /\ task'[m].rubric = rubric
          /\ task'[m].rubric_revision = task[m].rubric_revision
      BY <1>0, <3>1 DEF TaskRecord
    <3> QED
      BY <1>a, <2>2, <3>2 DEF EntryFrozen, ReadRubricForEntry, At
  <2>3. CASE LockForEntry(m)
    <3>1. CASE PaperUnchanged(m) /\ exam.rubric_revision = task[m].rubric_revision
      <4>1. task[m].at = "rubric_read" /\ LockExam /\ Goto(m, "locked") /\ rubric' = rubric
        BY <2>3, <3>1 DEF LockForEntry, At
      <4>2. /\ task'[m].at = "locked" /\ task'[m].rubric = task[m].rubric
            /\ task'[m].paper = task[m].paper
        BY <1>0, <4>1 DEF Goto, TaskRecord
      <4>3. exam'.locked /\ exam'.exists = exam.exists /\ exam'.paper = exam.paper
        BY <1>0, <4>1 DEF LockExam, TypeInv, TypeOK, ExamRecord
      <4> QED
        BY <1>a, <3>1, <4>1, <4>2, <4>3 DEF EntryFrozen, PaperUnchanged
    <3>2. CASE ~(PaperUnchanged(m) /\ exam.rubric_revision = task[m].rubric_revision)
      <4>1. task'[m].at = "refused"
        BY <1>0, <2>3, <3>2 DEF LockForEntry, Goto, TaskRecord
      <4> QED
        BY <4>1 DEF EntryFrozen
    <3> QED
      BY <3>1, <3>2
  <2>4. CASE SaveEntry(m)
    <3>1. Goto(m, "done") \/ Goto(m, "refused")
      BY <2>4 DEF SaveEntry
    <3>2. task'[m].at \in {"done", "refused"}
      BY <1>0, <3>1 DEF Goto, TaskRecord
    <3> QED
      BY <3>2 DEF EntryFrozen
  <2> QED
    BY <1>2, <2>1, <2>2, <2>3, <2>4 DEF Enter
<1>3. Enter(m) \/ task'[m] = task[m]
  BY <1>0, EvaluationMoves, ReviewMoves, EntryMoves, OthersMove, Kinds
     DEF Next, vars, OnlyMoves
<1> QED
  BY <1>1, <1>2, <1>3

\* What a step does to one answer: nothing that matters here, its deletion, or
\* new marks under the paper and rubric of a locked exam.
AnswerStep(a) ==
    /\ answers'[a].exists => exam'.exists
    /\ \/ /\ answers'[a].exists = answers[a].exists /\ answers'[a].id = answers[a].id
          /\ answers[a].exists => /\ answers'[a].marks = answers[a].marks
                                  /\ basis'[a] = basis[a]
       \/ ~answers'[a].exists /\ answers'[a].id = answers[a].id + 1
       \/ /\ exam.exists /\ exam.locked /\ UNCHANGED <<exam, rubric>>
          /\ answers'[a].exists /\ answers'[a].id = answers[a].id
          /\ answers'[a].marks # None
          /\ basis'[a] = [paper |-> exam.paper, rubric |-> rubric]

LEMMA AnswerSteps ==
    ASSUME FreezeInv, [Next]_vars, NEW a \in Answers
    PROVE  AnswerStep(a)
<1>0. /\ answers \in [Answers -> AnswerRecord] /\ exam \in ExamRecord
      /\ basis \in [Answers -> [paper: Papers, rubric: Rubrics]]
      /\ answers[a].exists => exam.exists
  BY DEF FreezeInv, TypeInv, TypeOK, MarksLockExam
<1>1. CASE UNCHANGED <<answers, basis>> /\ exam'.exists = exam.exists
  BY <1>0, <1>1 DEF AnswerStep
<1>2. ASSUME LockExam \/ UNCHANGED exam PROVE exam'.exists = exam.exists
  BY <1>0, <1>2 DEF LockExam, ExamRecord
<1>3. ASSUME NEW j \in Evaluations, Evaluate(j) PROVE AnswerStep(a)
  <2>1. CASE ClaimEvaluation(j)
    BY <1>0, <2>1 DEF ClaimEvaluation, AnswerRecord, AnswerStep
  <2>2. CASE ReleaseEvaluation(j)
    BY <1>0, <2>2 DEF ReleaseEvaluation, AnswerRecord, AnswerStep
  <2>3. CASE SaveResult(j)
    <3>1. CASE Saveable(j) /\ a = task[j].answer
      <4>1. exam.exists /\ exam.locked /\ task[j].paper = exam.paper /\ task[j].rubric = rubric
        BY <2>3, <3>1 DEF SaveResult, Saveable, PaperUnchanged, At, FreezeInv, EvaluationFrozen
      <4>2. Publish(j, FALSE) /\ UNCHANGED <<exam, rubric>>
        BY <2>3, <3>1 DEF SaveResult
      <4>3. basis' = [basis EXCEPT ![a] = [paper |-> task[j].paper, rubric |-> task[j].rubric]]
        BY <2>3, <3>1 DEF SaveResult
      <4>4. /\ answers'[a].exists = answers[a].exists /\ answers'[a].id = answers[a].id
            /\ answers'[a].marks = j
        BY <1>0, <3>1, <4>2 DEF Publish, AnswerRecord
      <4>5. j # None /\ answers[a].exists
        BY <3>1, DistinctKinds DEF Saveable, AnswerUnchanged
      <4> QED
        BY <1>0, <4>1, <4>2, <4>3, <4>4, <4>5 DEF AnswerStep
    <3>2. CASE Saveable(j) /\ a # task[j].answer
      <4>1. Publish(j, FALSE) /\ exam' = exam /\ basis'[a] = basis[a]
        BY <1>0, <2>3, <3>2 DEF SaveResult
      <4>2. answers'[a] = answers[a]
        BY <1>0, <3>2, <4>1 DEF Publish
      <4> QED
        BY <1>0, <4>1, <4>2 DEF AnswerStep
    <3>3. CASE ~Saveable(j)
      BY <1>1, <2>3, <3>3 DEF SaveResult
    <3> QED
      BY <3>1, <3>2, <3>3
  <2>4. CASE LockForEvaluation(j)
    BY <1>1, <1>2, <2>4 DEF LockForEvaluation
  <2> QED
    BY <1>1, <1>3, <2>1, <2>2, <2>3, <2>4 DEF Evaluate, RequestEvaluation, ReadExam,
       ReadAnswer, ReadRubric, UploadReport, BreakEvaluation, CleanUp
<1>4. ASSUME NEW p \in Reviews, Review(p) PROVE AnswerStep(a)
  <2>1. CASE CommitReview(p)
    <3>1. CASE exam.exists /\ AnswerUnchanged(p) /\ a = task[p].answer
      <4>1. answers[a].exists /\ answers[a].marks # None
        BY <2>1, <3>1 DEF CommitReview, At, FreezeInv, ReviewKnowsMarks, AnswerUnchanged
      <4>2. exam.locked /\ basis[a] = [paper |-> exam.paper, rubric |-> rubric]
        BY <4>1 DEF FreezeInv, MarksLockExam, MarksMatchExam
      <4>3. Publish(p, TRUE) /\ UNCHANGED <<exam, rubric, basis>>
        BY <2>1, <3>1 DEF CommitReview
      <4>4. /\ answers'[a].exists = answers[a].exists /\ answers'[a].id = answers[a].id
            /\ answers'[a].marks = p
        BY <1>0, <3>1, <4>3 DEF Publish, AnswerRecord
      <4>5. p # None
        BY DistinctKinds
      <4> QED
        BY <1>0, <4>1, <4>2, <4>3, <4>4, <4>5 DEF AnswerStep
    <3>2. CASE exam.exists /\ AnswerUnchanged(p) /\ a # task[p].answer
      <4>1. Publish(p, TRUE) /\ exam' = exam /\ basis' = basis
        BY <2>1, <3>2 DEF CommitReview
      <4>2. answers'[a] = answers[a]
        BY <1>0, <3>2, <4>1 DEF Publish
      <4> QED
        BY <1>0, <4>1, <4>2 DEF AnswerStep
    <3>3. CASE ~(exam.exists /\ AnswerUnchanged(p))
      BY <1>1, <2>1, <3>3 DEF CommitReview
    <3> QED
      BY <3>1, <3>2, <3>3
  <2>2. CASE LockForReview(p)
    BY <1>1, <1>2, <2>2 DEF LockForReview
  <2> QED
    BY <1>1, <1>4, <2>1, <2>2 DEF Review, OpenReview, SubmitReview, UploadReview,
       VerifyReview, BreakReview
<1>5. ASSUME NEW m \in Entries, Enter(m) PROVE AnswerStep(a)
  <2>1. CASE SaveEntry(m)
    <3>1. CASE exam.exists /\ a = task[m].answer
      <4>1. exam.locked /\ task[m].paper = exam.paper /\ task[m].rubric = rubric
        BY <2>1, <3>1 DEF SaveEntry, At, FreezeInv, EntryFrozen
      <4>2. /\ answers' = [answers EXCEPT ![a] =
                  [@ EXCEPT !.exists = TRUE, !.marks = m, !.reviewed = TRUE]]
            /\ basis' = [basis EXCEPT ![a] =
                  [paper |-> task[m].paper, rubric |-> task[m].rubric]]
            /\ UNCHANGED <<exam, rubric>>
        BY <2>1, <3>1 DEF SaveEntry
      <4>3. /\ answers'[a].exists /\ answers'[a].id = answers[a].id
            /\ answers'[a].marks = m
        BY <1>0, <4>2 DEF AnswerRecord
      <4>4. m # None
        BY DistinctKinds
      <4> QED
        BY <1>0, <3>1, <4>1, <4>2, <4>3, <4>4 DEF AnswerStep
    <3>2. CASE exam.exists /\ a # task[m].answer
      <4>1. answers'[a] = answers[a] /\ basis'[a] = basis[a] /\ exam' = exam
        BY <1>0, <2>1, <3>2 DEF SaveEntry
      <4> QED
        BY <1>0, <4>1 DEF AnswerStep
    <3>3. CASE ~exam.exists
      BY <1>1, <2>1, <3>3 DEF SaveEntry
    <3> QED
      BY <3>1, <3>2, <3>3
  <2>2. CASE LockForEntry(m)
    BY <1>1, <1>2, <2>2 DEF LockForEntry
  <2> QED
    BY <1>1, <1>5, <2>1, <2>2 DEF Enter, ReadExamForEntry, ReadRubricForEntry
<1>6. ASSUME NEW u \in Uploads, Replace(u) PROVE AnswerStep(a)
  BY <1>0, <1>1, <1>6 DEF Replace, ReadForUpload, CheckReplaceable, ReplacePaper,
     ExtractText, ExamRecord
<1>7. ASSUME NEW e \in Edits, Edit(e) PROVE AnswerStep(a)
  BY <1>0, <1>1, <1>7 DEF Edit, ReadForEdit, CommitRubric, ExamRecord
<1>8. \A answer \in AnswerRecord :
        /\ Deleted(answer).exists = FALSE
        /\ answer.exists => Deleted(answer).id = answer.id + 1
        /\ ~answer.exists => Deleted(answer).id = answer.id
  BY DEF Deleted, NoAnswer, AnswerRecord
<1>9. ASSUME NEW b \in Answers, DeleteAnswer(b) PROVE AnswerStep(a)
  <2>1. CASE a = b
    BY <1>0, <1>8, <1>9, <2>1 DEF DeleteAnswer, AnswerStep
  <2>2. CASE a # b
    BY <1>0, <1>9, <2>2 DEF DeleteAnswer, AnswerStep
  <2> QED
    BY <2>1, <2>2
<1>10. CASE DeleteFiles
  BY <1>1, <1>10 DEF DeleteFiles
<1>11. CASE DeleteExam
  <2>1. answers'[a] = Deleted(answers[a]) /\ answers[a] \in AnswerRecord
    BY <1>0, <1>11 DEF DeleteExam
  <2>2. answers'[a].exists = FALSE /\ answers[a].exists \in BOOLEAN
    BY <1>8, <2>1 DEF AnswerRecord
  <2>3. CASE answers[a].exists
    BY <1>8, <2>1, <2>2, <2>3 DEF AnswerStep
  <2>4. CASE ~answers[a].exists
    BY <1>8, <2>1, <2>2, <2>4 DEF AnswerStep
  <2> QED
    BY <2>3, <2>4
<1>12. CASE UNCHANGED vars
  BY <1>1, <1>12 DEF vars
<1> QED
  BY <1>3, <1>4, <1>5, <1>6, <1>7, <1>9, <1>10, <1>11, <1>12 DEF Next

LEMMA StepMarks ==
    ASSUME FreezeInv, [Next]_vars
    PROVE  MarksLockExam' /\ MarksMatchExam'
<1> SUFFICES ASSUME NEW a \in Answers, answers'[a].exists
             PROVE  /\ exam'.exists
                    /\ answers'[a].marks # None =>
                          /\ exam'.locked
                          /\ basis'[a] = [paper |-> exam'.paper, rubric |-> rubric']
  BY DEF MarksLockExam, MarksMatchExam
<1>1. AnswerStep(a) /\ ExamStep
  BY AnswerSteps, ExamSteps DEF FreezeInv
<1>2. exam'.exists
  BY <1>1 DEF AnswerStep
<1>3. ASSUME answers[a].exists, answers'[a].marks = answers[a].marks,
             basis'[a] = basis[a], answers'[a].marks # None
      PROVE  exam'.locked /\ basis'[a] = [paper |-> exam'.paper, rubric |-> rubric']
  <2>1. exam.locked /\ basis[a] = [paper |-> exam.paper, rubric |-> rubric]
    BY <1>3 DEF FreezeInv, MarksLockExam, MarksMatchExam
  <2> QED
    BY <1>1, <1>2, <1>3, <2>1 DEF ExamStep
<1> QED
  BY <1>1, <1>2, <1>3 DEF AnswerStep

LEMMA StepReviewKnowsMarks ==
    ASSUME FreezeInv, [Next]_vars, NEW p \in Reviews
    PROVE  ReviewKnowsMarks(p)'
<1>0. /\ p \in Processes /\ task \in [Processes -> TaskRecord]
      /\ TypeInv /\ ReviewKnowsMarks(p)
  BY Kinds DEF FreezeInv, TypeInv, TypeOK
<1>1. ASSUME NEW a \in Answers, NEW i \in Nat, i <= answers[a].id,
             i = answers[a].id => answers[a].exists /\ answers[a].marks # None
      PROVE  /\ i <= answers'[a].id
             /\ i = answers'[a].id => answers'[a].exists /\ answers'[a].marks # None
  <2>1. AnswerStep(a) /\ answers[a].id \in Nat
    BY <1>0, AnswerSteps, Reads DEF TypeInv
  <2> QED
    BY <1>1, <2>1 DEF AnswerStep
<1>2. task[p].id \in Nat /\ (task[p].at # "idle" => task[p].answer \in Answers)
  BY <1>0 DEF TaskRecord, TypeInv, Targets
<1> DEFINE Reading == {"open", "submitted", "locked", "saving"}
<1>3. ASSUME task[p].at \in Reading, task'[p].answer = task[p].answer,
             task'[p].id = task[p].id
      PROVE  ReviewKnowsMarks(p)'
  BY <1>0, <1>1, <1>2, <1>3 DEF ReviewKnowsMarks
<1>4. ASSUME task'[p].at \notin Reading PROVE ReviewKnowsMarks(p)'
  BY <1>4 DEF ReviewKnowsMarks
<1>5. CASE Review(p)
  <2>1. CASE OpenReview(p)
    <3>1. PICK a \in Answers :
             /\ answers[a].exists /\ answers[a].marks # None
             /\ task' = [task EXCEPT ![p] =
                   [@ EXCEPT !.at = "open", !.answer = a, !.id = answers[a].id,
                             !.opened = answers[a].marks,
                             !.opened_revision = answers[a].revision]]
      BY <2>1 DEF OpenReview
    <3>2. task'[p].answer = a /\ task'[p].id = answers[a].id
      BY <1>0, <3>1 DEF TaskRecord
    <3>3. answers' = answers /\ answers[a].id \in Nat
      BY <1>0, <2>1, Reads DEF OpenReview, TypeInv
    <3> QED
      BY <3>1, <3>2, <3>3 DEF ReviewKnowsMarks
  <2>2. CASE SubmitReview(p)
    BY <1>0, <1>3, <2>2, Submitting
  <2>3. ASSUME NEW place \in Places, Goto(p, place), task[p].at \in Reading
        PROVE  ReviewKnowsMarks(p)'
    <3>1. task'[p].answer = task[p].answer /\ task'[p].id = task[p].id
      BY <1>0, <2>3 DEF TaskRecord, Goto
    <3> QED
      BY <1>3, <2>3, <3>1
  <2>4. CASE LockForReview(p)
    BY <2>3, <2>4 DEF LockForReview, At, Places, Working
  <2>5. CASE UploadReview(p)
    BY <2>3, <2>5 DEF UploadReview, At, Places, Working
  <2>6. ASSUME NEW place \in {"done", "unsure", "refused"}, Goto(p, place)
        PROVE  ReviewKnowsMarks(p)'
    BY <1>0, <1>4, <2>6 DEF Goto, TaskRecord
  <2>7. CASE CommitReview(p)
    BY <2>6, <2>7 DEF CommitReview
  <2>8. CASE VerifyReview(p)
    BY <2>6, <2>8 DEF VerifyReview
  <2>9. CASE BreakReview(p)
    BY <2>6, <2>9 DEF BreakReview
  <2> QED
    BY <1>5, <2>1, <2>2, <2>4, <2>5, <2>7, <2>8, <2>9 DEF Review
<1>6. CASE task'[p] = task[p]
  BY <1>3, <1>4, <1>6
<1>7. Review(p) \/ task'[p] = task[p]
  BY <1>0, EvaluationMoves, ReviewMoves, EntryMoves, OthersMove, Kinds
     DEF Next, vars, OnlyMoves
<1> QED
  BY <1>5, <1>6, <1>7

LEMMA StepFreeze ==
    ASSUME FreezeInv, [Next]_vars
    PROVE  FreezeInv'
BY StepType, StepMarks, StepEvaluationFrozen, StepEntryFrozen, StepReviewKnowsMarks
   DEF FreezeInv

\* Saved marks were computed under the paper and the rubric the exam has now,
\* however many evaluations, reviews, entries, uploads and edits interleave.
THEOREM MarksMatch == Spec => []MarksMatchExam
<1>1. FreezeInv => MarksMatchExam
  BY DEF FreezeInv
<1> QED
  BY <1>1, InitFreeze, StepFreeze, PTL DEF Spec

-----------------------------------------------------------------------------
\* Reviews: protected, exact and in a chain

\* What a step does to the result in one answer.
KeepsResult(a) ==
    /\ answers'[a].exists = answers[a].exists /\ answers'[a].id = answers[a].id
    /\ answers'[a].revision = answers[a].revision /\ answers'[a].marks = answers[a].marks
    /\ answers'[a].reviewed = answers[a].reviewed
    /\ answers'[a].report = answers[a].report /\ answers'[a].files = answers[a].files

Publishes(p, a) ==
    /\ task[p].at = "saving" /\ task[p].answer = a
    /\ answers[a].exists /\ answers[a].id = task[p].id
    /\ answers[a].revision = task[p].revision
    /\ answers'[a].exists = TRUE /\ answers'[a].id = answers[a].id
    /\ answers'[a].revision = answers[a].revision + 1
    /\ answers'[a].marks = p /\ answers'[a].report = p
    /\ answers'[a].files = answers[a].files \cup {p}

ResultStep(a) ==
    \/ KeepsResult(a)
    \/ answers'[a] = Deleted(answers[a])
    \/ \E j \in Evaluations : Publishes(j, a) /\ ~answers[a].reviewed
    \/ \E p \in Reviews : Publishes(p, a) /\ CommitReview(p) /\ answers'[a].reviewed
    \/ \E m \in Entries :
          /\ a \in Manuals
          /\ answers'[a] = [answers[a] EXCEPT !.exists = TRUE, !.marks = m, !.reviewed = TRUE]

LEMMA PublishResult ==
    ASSUME TypeOK, NEW p \in Processes, NEW reviewed \in BOOLEAN, NEW a \in Answers,
           Publish(p, reviewed), AnswerUnchanged(p), task[p].at = "saving",
           a = task[p].answer
    PROVE  Publishes(p, a) /\ answers'[a].reviewed = reviewed
<1>1. answers[a] \in AnswerRecord
  BY Reads
<1>2. answers' = [answers EXCEPT ![a] =
         [answers[a] EXCEPT !.marks = p, !.report = p, !.reviewed = reviewed,
                            !.revision = answers[a].revision + 1,
                            !.files = answers[a].files \cup {p}]]
  BY DEF Publish
<1>3. answers'[a] = [answers[a] EXCEPT !.marks = p, !.report = p, !.reviewed = reviewed,
                                       !.revision = answers[a].revision + 1,
                                       !.files = answers[a].files \cup {p}]
  BY <1>2 DEF TypeOK
<1>4. /\ answers'[a].exists = answers[a].exists /\ answers'[a].id = answers[a].id
      /\ answers'[a].revision = answers[a].revision + 1
      /\ answers'[a].marks = p /\ answers'[a].report = p
      /\ answers'[a].files = answers[a].files \cup {p}
      /\ answers'[a].reviewed = reviewed /\ answers[a].exists \in BOOLEAN
  BY <1>1, <1>3 DEF AnswerRecord
<1> QED
  BY <1>4 DEF Publishes, AnswerUnchanged

LEMMA ResultSteps ==
    ASSUME TypeInv, [Next]_vars, NEW a \in Answers
    PROVE  ResultStep(a)
<1>0. TypeOK /\ answers \in [Answers -> AnswerRecord]
  BY DEF TypeInv, TypeOK
<1>1. ASSUME answers'[a] = answers[a] PROVE ResultStep(a)
  BY <1>1 DEF ResultStep, KeepsResult
<1>2. ASSUME NEW j \in Evaluations, Evaluate(j) PROVE ResultStep(a)
  <2>1. CASE ClaimEvaluation(j)
    <3>1. KeepsResult(a)
      BY <1>0, <2>1 DEF ClaimEvaluation, AnswerRecord, KeepsResult
    <3> QED
      BY <3>1 DEF ResultStep
  <2>2. CASE ReleaseEvaluation(j)
    <3>1. KeepsResult(a)
      BY <1>0, <2>2 DEF ReleaseEvaluation, AnswerRecord, KeepsResult
    <3> QED
      BY <3>1 DEF ResultStep
  <2>3. CASE SaveResult(j)
    <3>1. CASE Saveable(j) /\ a = task[j].answer
      <4>1. Publish(j, FALSE) /\ AnswerUnchanged(j) /\ task[j].at = "saving"
            /\ ~answers[a].reviewed
        BY <2>3, <3>1 DEF SaveResult, Saveable, At
      <4>2. Publishes(j, a)
        BY <1>0, <3>1, <4>1, PublishResult, Kinds
      <4> QED
        BY <4>1, <4>2 DEF ResultStep
    <3>2. CASE Saveable(j) /\ a # task[j].answer
      BY <1>0, <1>1, <2>3, <3>2 DEF SaveResult, Publish
    <3>3. CASE ~Saveable(j)
      BY <1>1, <2>3, <3>3 DEF SaveResult
    <3> QED
      BY <3>1, <3>2, <3>3
  <2> QED
    BY <1>1, <1>2, <2>1, <2>2, <2>3 DEF Evaluate, RequestEvaluation, LockForEvaluation,
       ReadExam, ReadAnswer, ReadRubric, UploadReport, BreakEvaluation, CleanUp
<1>3. ASSUME NEW p \in Reviews, Review(p) PROVE ResultStep(a)
  <2>1. CASE CommitReview(p)
    <3>1. CASE exam.exists /\ AnswerUnchanged(p) /\ a = task[p].answer
      <4>1. Publish(p, TRUE) /\ task[p].at = "saving"
        BY <2>1, <3>1 DEF CommitReview, At
      <4>2. Publishes(p, a) /\ answers'[a].reviewed
        BY <1>0, <3>1, <4>1, PublishResult, Kinds
      <4> QED
        BY <2>1, <4>2 DEF ResultStep
    <3>2. CASE exam.exists /\ AnswerUnchanged(p) /\ a # task[p].answer
      BY <1>0, <1>1, <2>1, <3>2 DEF CommitReview, Publish
    <3>3. CASE ~(exam.exists /\ AnswerUnchanged(p))
      BY <1>1, <2>1, <3>3 DEF CommitReview
    <3> QED
      BY <3>1, <3>2, <3>3
  <2> QED
    BY <1>1, <1>3, <2>1 DEF Review, OpenReview, SubmitReview, LockForReview,
       UploadReview, VerifyReview, BreakReview
<1>4. ASSUME NEW m \in Entries, Enter(m) PROVE ResultStep(a)
  <2>1. CASE SaveEntry(m)
    <3>1. CASE exam.exists /\ a = task[m].answer
      <4>1. answers' = [answers EXCEPT ![a] =
               [answers[a] EXCEPT !.exists = TRUE, !.marks = m, !.reviewed = TRUE]]
        BY <2>1, <3>1 DEF SaveEntry
      <4>2. task[m].answer \in Manuals
        BY <2>1 DEF SaveEntry, At, TypeInv, Targets
      <4>3. answers'[a] = [answers[a] EXCEPT !.exists = TRUE, !.marks = m, !.reviewed = TRUE]
        BY <1>0, <4>1
      <4> QED
        BY <3>1, <4>2, <4>3 DEF ResultStep
    <3>2. CASE exam.exists /\ a # task[m].answer
      BY <1>0, <1>1, <2>1, <3>2 DEF SaveEntry
    <3>3. CASE ~exam.exists
      BY <1>1, <2>1, <3>3 DEF SaveEntry
    <3> QED
      BY <3>1, <3>2, <3>3
  <2> QED
    BY <1>1, <1>4, <2>1 DEF Enter, ReadExamForEntry, ReadRubricForEntry, LockForEntry
<1>5. ASSUME NEW b \in Answers, DeleteAnswer(b) PROVE ResultStep(a)
  <2>1. CASE a = b
    BY <1>0, <1>5, <2>1 DEF DeleteAnswer, ResultStep
  <2>2. CASE a # b
    BY <1>0, <1>1, <1>5, <2>2 DEF DeleteAnswer
  <2> QED
    BY <2>1, <2>2
<1>6. CASE DeleteExam
  BY <1>6 DEF DeleteExam, ResultStep
<1> QED
  BY <1>1, <1>2, <1>3, <1>4, <1>5, <1>6 DEF Next, vars, Replace, ReadForUpload,
     CheckReplaceable, ReplacePaper, ExtractText, Edit, ReadForEdit, CommitRubric,
     DeleteFiles

LEMMA DeletedAnswer ==
    \A answer \in AnswerRecord :
        /\ Deleted(answer).exists = FALSE
        /\ Deleted(answer).marks = None /\ Deleted(answer).report = None
        /\ answer.exists => Deleted(answer).id = answer.id + 1
        /\ ~answer.exists => Deleted(answer).id = answer.id
BY DEF Deleted, NoAnswer, AnswerRecord

\* The AI never replaces reviewed or entered marks, and no step takes a review
\* back, whatever a running evaluation read before.
THEOREM ReviewedProtected == Spec => ReviewedMarksAreProtected
<1>1. ASSUME TypeInv, [Next]_vars, NEW a \in Answers,
             answers[a].exists, answers[a].reviewed, answers'[a].exists
      PROVE  /\ answers'[a].reviewed
             /\ answers'[a].marks \in {answers[a].marks} \cup Reviews \cup Entries
  <2>1. ResultStep(a) /\ answers[a] \in AnswerRecord
    BY <1>1, ResultSteps DEF TypeInv, TypeOK
  <2>2. CASE KeepsResult(a)
    BY <1>1, <2>2 DEF KeepsResult
  <2>3. CASE answers'[a] = Deleted(answers[a])
    BY <1>1, <2>1, <2>3, DeletedAnswer
  <2>4. CASE \E p \in Reviews : Publishes(p, a) /\ CommitReview(p) /\ answers'[a].reviewed
    BY <2>4 DEF Publishes
  <2>5. ASSUME NEW m \in Entries,
               answers'[a] = [answers[a] EXCEPT !.exists = TRUE, !.marks = m,
                                                !.reviewed = TRUE]
        PROVE  answers'[a].reviewed /\ answers'[a].marks = m
    BY <2>1, <2>5 DEF AnswerRecord
  <2> QED
    BY <1>1, <2>1, <2>2, <2>3, <2>4, <2>5 DEF ResultStep
<1>2. ASSUME TypeInv, [Next]_vars
      PROVE  [\A a \in Answers :
                answers[a].exists /\ answers[a].reviewed /\ answers'[a].exists
                  => /\ answers'[a].reviewed
                     /\ answers'[a].marks \in {answers[a].marks} \cup Reviews \cup Entries]_vars
  BY <1>1, <1>2
<1> QED
  BY <1>2, InitType, StepType, PTL DEF Spec, ReviewedMarksAreProtected

\* What a review of a script read is what the answer holds, as long as document
\* and revision are the ones it read.
ReviewReads(p) ==
    LET answer == answers[task[p].answer]
    IN /\ task[p].at \in {"open", "submitted", "locked", "saving"} /\ answer.id = task[p].id
            => /\ task[p].opened_revision <= answer.revision
               /\ task[p].answer \in Scripts /\ task[p].opened_revision = answer.revision
                    => task[p].opened = answer.marks
       /\ task[p].at \in {"submitted", "locked", "saving"} /\ answer.id = task[p].id
            => /\ task[p].revision <= answer.revision
               /\ task[p].answer \in Scripts /\ task[p].revision = answer.revision
                    => task[p].previous = answer.marks
       /\ task[p].at = "saving" /\ task[p].checked
            => task[p].opened_revision = task[p].revision

\* The events of an answer lie behind its revision.
HistoryBehind ==
    \A h \in history :
        /\ h.to = h.from + 1
        /\ h.id <= answers[h.answer].id
        /\ h.id = answers[h.answer].id
              => answers[h.answer].exists /\ h.to <= answers[h.answer].revision

ReviewInv ==
    /\ FreezeInv
    /\ \A p \in Reviews : ReviewReads(p)
    /\ HistoryBehind
    /\ HistoryDoesNotFork

LEMMA InitReview == Init => ReviewInv
<1> SUFFICES ASSUME Init PROVE ReviewInv
  OBVIOUS
<1>1. \A p \in Processes : task[p].at = "idle"
  BY DEF Init, Idle
<1>2. history = {}
  BY DEF Init
<1> QED
  BY <1>1, <1>2, InitFreeze, Kinds DEF ReviewInv, ReviewReads, HistoryBehind,
     HistoryDoesNotFork

\* Within one document the revision only grows, and the marks of a script
\* change only with it.
LEMMA RevisionSteps ==
    ASSUME TypeInv, [Next]_vars, NEW a \in Answers, answers[a].exists
    PROVE  /\ answers[a].id <= answers'[a].id
           /\ answers'[a].id = answers[a].id
                => /\ answers'[a].exists
                   /\ answers[a].revision <= answers'[a].revision
                   /\ a \in Scripts /\ answers'[a].revision = answers[a].revision
                        => answers'[a].marks = answers[a].marks
<1>1. /\ ResultStep(a) /\ answers[a] \in AnswerRecord
      /\ answers[a].id \in Nat /\ answers[a].revision \in Nat
  BY ResultSteps, Reads DEF TypeInv, TypeOK
<1>2. CASE KeepsResult(a)
  BY <1>1, <1>2 DEF KeepsResult
<1>3. CASE answers'[a] = Deleted(answers[a])
  BY <1>1, <1>3, DeletedAnswer
<1>4. ASSUME NEW p, Publishes(p, a)
      PROVE  /\ answers'[a].id = answers[a].id /\ answers'[a].exists
             /\ answers'[a].revision = answers[a].revision + 1
  BY <1>4 DEF Publishes
<1>5. ASSUME NEW m \in Entries, a \in Manuals,
             answers'[a] = [answers[a] EXCEPT !.exists = TRUE, !.marks = m, !.reviewed = TRUE]
      PROVE  /\ answers'[a].id = answers[a].id /\ answers'[a].exists
             /\ answers'[a].revision = answers[a].revision /\ a \notin Scripts
  <2>1. a \notin Scripts
    BY <1>5, DistinctKinds
  <2> QED
    BY <1>1, <1>5, <2>1 DEF AnswerRecord
<1>6. CASE \E p : Publishes(p, a)
  <2>1. /\ answers'[a].id = answers[a].id /\ answers'[a].exists
        /\ answers'[a].revision = answers[a].revision + 1
    BY <1>4, <1>6
  <2> QED
    BY <1>1, <2>1
<1>7. CASE \E m \in Entries :
             /\ a \in Manuals
             /\ answers'[a] = [answers[a] EXCEPT !.exists = TRUE, !.marks = m, !.reviewed = TRUE]
  <2>1. /\ answers'[a].id = answers[a].id /\ answers'[a].exists
        /\ answers'[a].revision = answers[a].revision /\ a \notin Scripts
    BY <1>5, <1>7
  <2> QED
    BY <1>1, <2>1
<1>8. \/ KeepsResult(a) \/ answers'[a] = Deleted(answers[a])
      \/ \E p : Publishes(p, a)
      \/ \E m \in Entries :
             /\ a \in Manuals
             /\ answers'[a] = [answers[a] EXCEPT !.exists = TRUE, !.marks = m, !.reviewed = TRUE]
  BY <1>1 DEF ResultStep
<1> QED
  BY <1>2, <1>3, <1>6, <1>7, <1>8

LEMMA StepReviewReads ==
    ASSUME ReviewInv, [Next]_vars, NEW p \in Reviews
    PROVE  ReviewReads(p)'
<1>0. /\ p \in Processes /\ task \in [Processes -> TaskRecord] /\ TypeInv
      /\ ReviewReads(p) /\ ReviewKnowsMarks(p)
  BY Kinds DEF ReviewInv, FreezeInv, TypeInv, TypeOK
<1>1. task[p].at # "idle" => task[p].answer \in Answers
  BY <1>0 DEF TypeInv, Targets
<1>2. /\ task[p].id \in Nat /\ task[p].revision \in Nat /\ task[p].opened_revision \in Nat
      /\ \A a \in Answers : /\ answers[a].id \in Nat /\ answers[a].revision \in Nat
                            /\ answers'[a].id \in Nat /\ answers'[a].revision \in Nat
  <2>1. TypeOK /\ TypeOK'
    BY <1>0, StepType DEF TypeInv
  <2> QED
    BY <1>0, <2>1 DEF TypeOK, AnswerRecord, TaskRecord
<1> DEFINE Reading == {"open", "submitted", "locked", "saving"}
           answer == answers[task[p].answer]
           newAnswer == answers'[task[p].answer]
\* A document a review still matches now was there, with no newer revision.
<1>3. ASSUME task[p].at \in Reading, newAnswer.id = task[p].id
      PROVE  /\ answer.id = task[p].id /\ answer.exists
             /\ answer.revision <= newAnswer.revision
             /\ task[p].answer \in Scripts /\ newAnswer.revision = answer.revision
                  => newAnswer.marks = answer.marks
  <2>1. task[p].id <= answer.id /\ task[p].answer \in Answers
    BY <1>0, <1>1, <1>3 DEF ReviewKnowsMarks
  <2>2. AnswerStep(task[p].answer)
    BY <2>1, AnswerSteps DEF ReviewInv
  <2>3. answer.id <= newAnswer.id
    BY <1>2, <2>1, <2>2 DEF AnswerStep
  <2>4. answer.id = task[p].id
    BY <1>2, <1>3, <2>1, <2>3
  <2>5. answer.exists
    BY <1>0, <1>3, <2>4 DEF ReviewKnowsMarks
  <2> QED
    BY <1>0, <1>3, <2>1, <2>4, <2>5, RevisionSteps
<1>4. ASSUME task[p].at \in Reading,
             task'[p].answer = task[p].answer, task'[p].id = task[p].id,
             task'[p].opened_revision = task[p].opened_revision,
             task'[p].opened = task[p].opened
      PROVE  newAnswer.id = task'[p].id
               => /\ task'[p].opened_revision <= newAnswer.revision
                  /\ task'[p].answer \in Scripts /\ task'[p].opened_revision = newAnswer.revision
                       => task'[p].opened = newAnswer.marks
  <2> SUFFICES ASSUME newAnswer.id = task[p].id
               PROVE  /\ task[p].opened_revision <= newAnswer.revision
                      /\ task[p].answer \in Scripts /\ task[p].opened_revision = newAnswer.revision
                           => task[p].opened = newAnswer.marks
    BY <1>4
  <2>1. /\ task[p].opened_revision <= answer.revision
        /\ task[p].answer \in Scripts /\ task[p].opened_revision = answer.revision
             => task[p].opened = answer.marks
    BY <1>0, <1>3, <1>4 DEF ReviewReads
  <2> QED
    BY <1>1, <1>2, <1>3, <1>4, <2>1
<1>5. ASSUME task[p].at \in {"submitted", "locked", "saving"},
             task'[p].answer = task[p].answer, task'[p].id = task[p].id,
             task'[p].revision = task[p].revision, task'[p].previous = task[p].previous
      PROVE  newAnswer.id = task'[p].id
               => /\ task'[p].revision <= newAnswer.revision
                  /\ task'[p].answer \in Scripts /\ task'[p].revision = newAnswer.revision
                       => task'[p].previous = newAnswer.marks
  <2> SUFFICES ASSUME newAnswer.id = task[p].id
               PROVE  /\ task[p].revision <= newAnswer.revision
                      /\ task[p].answer \in Scripts /\ task[p].revision = newAnswer.revision
                           => task[p].previous = newAnswer.marks
    BY <1>5
  <2>1. /\ task[p].revision <= answer.revision
        /\ task[p].answer \in Scripts /\ task[p].revision = answer.revision
             => task[p].previous = answer.marks
    BY <1>0, <1>3, <1>5 DEF ReviewReads
  <2> QED
    BY <1>1, <1>2, <1>3, <1>5, <2>1
<1>6. ASSUME task'[p].at \notin Reading PROVE ReviewReads(p)'
  BY <1>6 DEF ReviewReads
<1>7. CASE task'[p] = task[p]
  BY <1>0, <1>4, <1>5, <1>6, <1>7 DEF ReviewReads
<1>8. CASE OpenReview(p)
  <2>1. PICK a \in Answers : task' = [task EXCEPT ![p] =
                [@ EXCEPT !.at = "open", !.answer = a, !.id = answers[a].id,
                          !.opened = answers[a].marks,
                          !.opened_revision = answers[a].revision]]
    BY <1>8 DEF OpenReview
  <2>2. /\ task'[p].at = "open" /\ task'[p].answer = a
        /\ task'[p].opened = answers[a].marks
        /\ task'[p].opened_revision = answers[a].revision
    BY <1>0, <2>1 DEF TaskRecord
  <2>3. answers' = answers
    BY <1>8 DEF OpenReview
  <2> QED
    BY <1>2, <2>2, <2>3 DEF ReviewReads
<1>9. CASE SubmitReview(p)
  <2>0. task[p].at = "open" /\ answers' = answers
    BY <1>9 DEF SubmitReview, At
  <2>1. CASE Goto(p, "refused")
    BY <1>0, <1>6, <2>1 DEF Goto, TaskRecord
  <2>2. ASSUME NEW checked \in BOOLEAN, task' = [task EXCEPT ![p] =
                       [@ EXCEPT !.at = "submitted", !.previous = answer.marks,
                                 !.revision = answer.revision, !.checked = checked]]
        PROVE  ReviewReads(p)'
    <3>1. /\ task'[p].at = "submitted" /\ task'[p].answer = task[p].answer
          /\ task'[p].id = task[p].id
          /\ task'[p].opened_revision = task[p].opened_revision
          /\ task'[p].opened = task[p].opened
      BY <1>0, <2>2 DEF TaskRecord
    <3>2. task'[p].revision = answer.revision /\ task'[p].previous = answer.marks
      BY <1>0, <2>2 DEF TaskRecord
    <3>3. task[p].answer \in Answers
      BY <1>1, <2>0
    <3> QED
      BY <1>2, <1>4, <2>0, <3>1, <3>2, <3>3 DEF ReviewReads
  <2> QED
    BY <1>9, <2>1, <2>2 DEF SubmitReview
<1>10. ASSUME NEW place \in {"locked", "saving"}, Goto(p, place),
              task[p].at \in {"submitted", "locked"},
              place = "saving" /\ task[p].checked => task[p].opened_revision = task[p].revision
       PROVE  ReviewReads(p)'
  <2>1. task'[p] = [task[p] EXCEPT !.at = place]
    BY <1>0, <1>10 DEF Goto
  <2>2. /\ task'[p].at = place /\ task'[p].answer = task[p].answer
        /\ task'[p].id = task[p].id /\ task'[p].checked = task[p].checked
        /\ task'[p].revision = task[p].revision /\ task'[p].previous = task[p].previous
        /\ task'[p].opened_revision = task[p].opened_revision
        /\ task'[p].opened = task[p].opened
    BY <1>0, <2>1 DEF TaskRecord
  <2> QED
    BY <1>4, <1>5, <1>10, <2>2 DEF ReviewReads
<1>11. ASSUME NEW place \in {"done", "unsure", "refused"}, Goto(p, place)
       PROVE  ReviewReads(p)'
  BY <1>0, <1>6, <1>11 DEF Goto, TaskRecord
<1>12. CASE LockForReview(p)
  BY <1>10, <1>11, <1>12 DEF LockForReview, At
<1>13. CASE UploadReview(p)
  BY <1>10, <1>11, <1>13 DEF UploadReview, At
<1>14. CASE CommitReview(p)
  BY <1>11, <1>14 DEF CommitReview
<1>15. CASE VerifyReview(p) \/ BreakReview(p)
  BY <1>11, <1>15 DEF VerifyReview, BreakReview
<1>16. Review(p) \/ task'[p] = task[p]
  BY <1>0, EvaluationMoves, ReviewMoves, EntryMoves, OthersMove, Kinds
     DEF Next, vars, OnlyMoves
<1> QED
  BY <1>7, <1>8, <1>9, <1>12, <1>13, <1>14, <1>15, <1>16 DEF Review

LEMMA StepHistory ==
    ASSUME ReviewInv, [Next]_vars
    PROVE  HistoryBehind' /\ HistoryDoesNotFork'
<1>0. /\ TypeInv /\ TypeOK /\ TypeOK' /\ HistoryBehind /\ HistoryDoesNotFork
  BY StepType DEF ReviewInv, FreezeInv, TypeInv
<1>1. /\ \A a \in Answers : /\ answers[a].id \in Nat /\ answers[a].revision \in Nat
                            /\ answers'[a].id \in Nat /\ answers'[a].revision \in Nat
      /\ \A h \in history : /\ h.answer \in Answers /\ h.id \in Nat
                            /\ h.from \in Nat /\ h.to \in Nat
  BY <1>0 DEF TypeOK, AnswerRecord, EventRecord
<1>2. ASSUME NEW h \in history
      PROVE  /\ h.to = h.from + 1
             /\ h.id <= answers'[h.answer].id
             /\ h.id = answers'[h.answer].id
                   => answers'[h.answer].exists /\ h.to <= answers'[h.answer].revision
  <2> DEFINE a == h.answer
  <2>1. /\ h.to = h.from + 1 /\ h.id <= answers[a].id /\ a \in Answers
        /\ h.id = answers[a].id => answers[a].exists /\ h.to <= answers[a].revision
    BY <1>0, <1>1 DEF HistoryBehind
  <2>2. AnswerStep(a)
    BY <2>1, AnswerSteps DEF ReviewInv
  <2>3. answers[a].id <= answers'[a].id
    BY <1>1, <2>1, <2>2 DEF AnswerStep
  <2>4. CASE h.id = answers[a].id
    BY <1>0, <1>1, <2>1, <2>4, RevisionSteps
  <2>5. CASE h.id # answers[a].id
    BY <1>1, <2>1, <2>3, <2>5
  <2> QED
    BY <2>4, <2>5
<1>3. CASE history' = history
  BY <1>0, <1>2, <1>3 DEF HistoryBehind, HistoryDoesNotFork
<1>4. ASSUME NEW p \in Reviews, CommitReview(p), exam.exists /\ AnswerUnchanged(p)
      PROVE  HistoryBehind' /\ HistoryDoesNotFork'
  <2> DEFINE a == task[p].answer
             event == ReviewEvent(p)
  <2>1. task[p].at = "saving" /\ a \in Answers /\ Publish(p, TRUE) /\ p \in Processes
    BY <1>0, <1>4, Kinds DEF CommitReview, At, TypeInv, Targets
  <2>2. history' = history \cup {event}
    BY <1>4 DEF CommitReview
  <2>3. Publishes(p, a)
    BY <1>0, <1>4, <2>1, PublishResult
  <2>4. /\ event.answer = a /\ event.id = answers[a].id
        /\ event.from = answers[a].revision /\ event.to = answers[a].revision + 1
    BY <2>3 DEF ReviewEvent, Publishes
  <2>5. /\ answers'[a].exists /\ answers'[a].id = answers[a].id
        /\ answers'[a].revision = answers[a].revision + 1
    BY <2>3 DEF Publishes
  <2>6. HistoryBehind'
    BY <1>1, <1>2, <2>1, <2>2, <2>4, <2>5 DEF HistoryBehind
  <2>7. ASSUME NEW h \in history, h.answer = a, h.id = answers[a].id
        PROVE  h.from # answers[a].revision
    BY <1>0, <1>1, <2>1, <2>7 DEF HistoryBehind
  <2>8. HistoryDoesNotFork'
    BY <1>0, <2>2, <2>4, <2>7 DEF HistoryDoesNotFork
  <2> QED
    BY <2>6, <2>8
<1>5. (\E p \in Reviews : CommitReview(p) /\ exam.exists /\ AnswerUnchanged(p))
          \/ history' = history
  BY DEF Next, vars, Evaluate, RequestEvaluation, ClaimEvaluation, LockForEvaluation,
     ReadExam, ReadAnswer, ReadRubric, UploadReport, SaveResult, BreakEvaluation, CleanUp,
     ReleaseEvaluation, Review, OpenReview, SubmitReview, LockForReview, UploadReview,
     CommitReview, VerifyReview, BreakReview, Enter, ReadExamForEntry,
     ReadRubricForEntry, LockForEntry, SaveEntry, Replace, ReadForUpload,
     CheckReplaceable, ReplacePaper, ExtractText, Edit, ReadForEdit, CommitRubric,
     DeleteAnswer, DeleteFiles, DeleteExam
<1> QED
  BY <1>3, <1>4, <1>5

LEMMA StepReview ==
    ASSUME ReviewInv, [Next]_vars
    PROVE  ReviewInv'
<1>1. FreezeInv'
  BY StepFreeze DEF ReviewInv
<1>2. \A p \in Reviews : ReviewReads(p)'
  BY StepReviewReads
<1> QED
  BY <1>1, <1>2, StepHistory DEF ReviewInv

\* No two review events of one document start from the same revision: every
\* review builds on the one before it.
THEOREM HistoryIsAChain == Spec => []HistoryDoesNotFork
<1>1. ReviewInv => HistoryDoesNotFork
  BY DEF ReviewInv
<1> QED
  BY <1>1, InitReview, StepReview, PTL DEF Spec

\* A review of a script commits over exactly the marks its event names, and over
\* the marks its form showed when the form sent the revision.
THEOREM ScriptReviewsExact == Spec => ScriptReviewsAreExact
<1>1. ASSUME ReviewInv, [Next]_vars, NEW a \in Scripts, NEW p \in Reviews,
             answers'[a].marks = p, answers[a].marks # p
      PROVE  /\ answers[a].marks = task[p].previous
             /\ task[p].checked => answers[a].marks = task[p].opened
  <2>0. TypeInv /\ TypeOK /\ ReviewReads(p) /\ a \in Answers /\ answers[a] \in AnswerRecord
    BY <1>1, Kinds DEF ReviewInv, FreezeInv, TypeInv, TypeOK
  <2>1. ResultStep(a)
    BY <1>1, <2>0, ResultSteps
  <2>2. Publishes(p, a)
    <3>1. ~KeepsResult(a)
      BY <1>1 DEF KeepsResult
    <3>2. answers'[a] # Deleted(answers[a])
      BY <1>1, <2>0, DeletedAnswer, DistinctKinds
    <3>3. a \notin Manuals
      BY DistinctKinds
    <3>4. \A j : Publishes(j, a) => j = p
      BY <1>1 DEF Publishes
    <3> QED
      BY <2>1, <3>1, <3>2, <3>3, <3>4 DEF ResultStep
  <2> QED
    BY <1>1, <2>0, <2>2 DEF Publishes, ReviewReads
<1>2. ASSUME ReviewInv, [Next]_vars
      PROVE  [\A a \in Scripts : ReviewReplacesWhatItShowed(a)]_vars
  BY <1>1, <1>2 DEF ReviewReplacesWhatItShowed
<1> QED
  BY <1>2, InitReview, StepReview, PTL DEF Spec, ScriptReviewsAreExact

-----------------------------------------------------------------------------
\* Reports of reviews stay in the file store

Answered == {"unsure", "refused", "done"}

\* A review that is about to commit has its file; an answer's report belongs to
\* the review of this very document; files about to be removed do not.
ReportsStored ==
    /\ \A p \in Reviews : task[p].at = "saving" => p \in storage
    /\ \A a \in Answers :
          /\ ~answers[a].exists => answers[a].report = None
          /\ answers[a].report \in Reviews =>
                LET p == answers[a].report
                IN /\ task[p].at \in Answered
                   /\ task[p].answer = a /\ task[p].id = answers[a].id
                   /\ p \in answers[a].files /\ p \in storage
    /\ \A p \in doomed \cap Reviews :
          /\ task[p].at \in Answered
          /\ task[p].id < answers[task[p].answer].id

StoreInv == FreezeInv /\ ReportsStored

LEMMA InitStore == Init => StoreInv
<1> SUFFICES ASSUME Init PROVE StoreInv
  OBVIOUS
<1>1. \A p \in Processes : task[p].at = "idle"
  BY DEF Init, Idle
<1>2. doomed = {} /\ \A a \in Answers : answers[a].report = None
  BY DEF Init, NewAnswer, NoAnswer
<1>3. None \notin Reviews
  BY DistinctKinds
<1> QED
  BY <1>1, <1>2, <1>3, InitFreeze, Kinds DEF StoreInv, ReportsStored

\* A review that has been answered only comes to its end.
LEMMA StaysAnswered ==
    ASSUME TypeInv, [Next]_vars, NEW p \in Reviews, task[p].at \in Answered
    PROVE  /\ task'[p].at \in Answered /\ task'[p].answer = task[p].answer
           /\ task'[p].id = task[p].id
           /\ task'[p].at # task[p].at => task[p].at = "unsure"
<1>0. p \in Processes /\ task \in [Processes -> TaskRecord]
  BY Kinds DEF TypeInv, TypeOK
<1>1. CASE VerifyReview(p) \/ BreakReview(p)
  <2>1. Goto(p, "refused") /\ task[p].at = "unsure"
    BY <1>1 DEF VerifyReview, BreakReview, Answered, At
  <2> QED
    BY <1>0, <2>1 DEF Goto, TaskRecord, Answered
<1>2. ~(\/ OpenReview(p) \/ SubmitReview(p) \/ LockForReview(p) \/ UploadReview(p)
        \/ CommitReview(p))
  BY DEF OpenReview, SubmitReview, LockForReview, UploadReview, CommitReview, At, Answered
<1>3. Review(p) \/ task'[p] = task[p]
  BY <1>0, EvaluationMoves, ReviewMoves, EntryMoves, OthersMove, Kinds
     DEF Next, vars, OnlyMoves
<1> QED
  BY <1>1, <1>2, <1>3 DEF Review

\* A review that is saving moves on only by its commit or by breaking off.
LEMMA LeavesSaving ==
    ASSUME TypeInv, [Next]_vars, NEW p \in Reviews, task'[p].at = "saving"
    PROVE  task[p].at = "saving" \/ (UploadReview(p) /\ p \in storage')
<1>0. p \in Processes /\ task \in [Processes -> TaskRecord]
  BY Kinds DEF TypeInv, TypeOK
<1>1. CASE task'[p] = task[p]
  BY <1>1
<1>2. CASE Review(p)
  <2>1. CASE OpenReview(p)
    BY <1>0, <2>1 DEF OpenReview, TaskRecord
  <2>2. CASE SubmitReview(p)
    BY <2>2, Submitting
  <2>3. ASSUME NEW place \in {"locked", "unsure", "refused", "done"}, Goto(p, place)
        PROVE  FALSE
    BY <1>0, <2>3 DEF Goto, TaskRecord
  <2>4. CASE LockForReview(p) \/ CommitReview(p) \/ VerifyReview(p) \/ BreakReview(p)
    BY <2>3, <2>4 DEF LockForReview, CommitReview, VerifyReview, BreakReview
  <2>5. CASE UploadReview(p)
    BY <2>3, <2>5 DEF UploadReview
  <2> QED
    BY <1>2, <2>1, <2>2, <2>4, <2>5 DEF Review
<1>3. Review(p) \/ task'[p] = task[p]
  BY <1>0, EvaluationMoves, ReviewMoves, EntryMoves, OthersMove, Kinds
     DEF Next, vars, OnlyMoves
<1> QED
  BY <1>1, <1>2, <1>3

\* Which files a step may remove.
LEMMA StorageSteps ==
    ASSUME [Next]_vars
    PROVE  \/ storage \subseteq storage'
           \/ \E j \in Evaluations : storage' = storage \ {j}
           \/ \E p \in Reviews : /\ storage' = storage \ {p} /\ task[p].at = "unsure"
                                 /\ answers' = answers
                                 /\ LET answer == answers[task[p].answer]
                                    IN ~(answer.exists /\ answer.id = task[p].id
                                           /\ p \in answer.files)
           \/ \E file \in doomed : storage' = storage \ {file} /\ answers' = answers
<1>1. ASSUME NEW p \in Reviews, VerifyReview(p), ~(storage \subseteq storage')
      PROVE  /\ storage' = storage \ {p} /\ task[p].at = "unsure" /\ answers' = answers
             /\ LET answer == answers[task[p].answer]
                IN ~(answer.exists /\ answer.id = task[p].id /\ p \in answer.files)
  BY <1>1 DEF VerifyReview, At
<1>2. (\E j \in Evaluations : CleanUp(j)) \/ (\E p \in Reviews : VerifyReview(p))
          \/ DeleteFiles \/ storage \subseteq storage'
  BY DEF Next, vars, Evaluate, RequestEvaluation, ClaimEvaluation, LockForEvaluation,
     ReadExam, ReadAnswer, ReadRubric, UploadReport, SaveResult, BreakEvaluation,
     ReleaseEvaluation, Review, OpenReview, SubmitReview, LockForReview, UploadReview,
     CommitReview, BreakReview, Enter, ReadExamForEntry,
     ReadRubricForEntry, LockForEntry, SaveEntry, Replace, ReadForUpload,
     CheckReplaceable, ReplacePaper, ExtractText, Edit, ReadForEdit, CommitRubric,
     DeleteAnswer, DeleteExam
<1> QED
  BY <1>1, <1>2 DEF CleanUp, DeleteFiles

LEMMA DoomedSteps ==
    ASSUME TypeInv, [Next]_vars, NEW p \in Reviews, p \in doomed', p \notin doomed
    PROVE  \E a \in Answers : /\ answers[a].exists /\ answers[a].report = p
                             /\ answers'[a] = Deleted(answers[a])
<1>1. CASE \E a \in Answers : DeleteAnswer(a)
  BY <1>1 DEF DeleteAnswer, TypeInv, TypeOK
<1>2. (\E a \in Answers : DeleteAnswer(a)) \/ doomed' \subseteq doomed
  BY DEF Next, vars, Evaluate, RequestEvaluation, ClaimEvaluation, LockForEvaluation,
     ReadExam, ReadAnswer, ReadRubric, UploadReport, SaveResult, BreakEvaluation, CleanUp,
     ReleaseEvaluation, Review, OpenReview, SubmitReview, LockForReview, UploadReview,
     CommitReview, VerifyReview, BreakReview, Enter, ReadExamForEntry,
     ReadRubricForEntry, LockForEntry, SaveEntry, Replace, ReadForUpload,
     CheckReplaceable, ReplacePaper, ExtractText, Edit, ReadForEdit, CommitRubric,
     DeleteFiles, DeleteExam
<1> QED
  BY <1>1, <1>2

LEMMA StepReports ==
    ASSUME StoreInv, [Next]_vars
    PROVE  ReportsStored'
<1>0. TypeInv /\ TypeOK /\ TypeOK' /\ ReportsStored
  BY StepType DEF StoreInv, FreezeInv, TypeInv
<1>n. None \notin Reviews /\ Reviews \cap Evaluations = {}
  BY DistinctKinds
\* A file needed before the step and by an unchanged answer is not removed.
<1>1. ASSUME NEW p \in Reviews, p \in storage, task[p].at = "saving"
      PROVE  p \in storage'
  BY <1>0, <1>1, <1>n, StorageSteps DEF ReportsStored, Answered
<1>2. ASSUME NEW a \in Answers, answers[a].report \in Reviews
      PROVE  answers[a].report \in storage'
  <2> DEFINE p == answers[a].report
  <2>1. /\ p \in storage /\ task[p].answer = a /\ task[p].id = answers[a].id
        /\ p \in answers[a].files /\ answers[a].exists
    BY <1>0, <1>2, <1>n DEF ReportsStored
  <2>2. p \notin doomed
    BY <1>0, <1>2, <2>1, Reads DEF ReportsStored
  <2> QED
    BY <1>n, <1>2, <2>1, <2>2, StorageSteps
<1>3. ASSUME NEW p \in Reviews, task'[p].at = "saving" PROVE p \in storage'
  BY <1>0, <1>1, <1>3, LeavesSaving DEF ReportsStored
<1>4. ASSUME NEW a \in Answers
      PROVE  /\ ~answers'[a].exists => answers'[a].report = None
             /\ answers'[a].report \in Reviews =>
                  LET p == answers'[a].report
                  IN /\ task'[p].at \in Answered
                     /\ task'[p].answer = a /\ task'[p].id = answers'[a].id
                     /\ p \in answers'[a].files /\ p \in storage'
  <2>0. answers[a] \in AnswerRecord /\ ResultStep(a)
    BY <1>0, ResultSteps, Reads
  <2>1. ASSUME answers'[a].report = answers[a].report, answers'[a].id = answers[a].id,
               answers'[a].files = answers[a].files, answers[a].report \in Reviews
        PROVE  LET p == answers'[a].report
               IN /\ task'[p].at \in Answered
                  /\ task'[p].answer = a /\ task'[p].id = answers'[a].id
                  /\ p \in answers'[a].files /\ p \in storage'
    BY <1>0, <1>2, <2>1, StaysAnswered DEF ReportsStored
  <2>2. CASE KeepsResult(a)
    BY <1>0, <2>1, <2>2 DEF KeepsResult, ReportsStored
  <2>3. CASE answers'[a] = Deleted(answers[a])
    BY <1>n, <2>0, <2>3, DeletedAnswer
  <2>4. ASSUME NEW j \in Evaluations, Publishes(j, a)
        PROVE  answers'[a].exists /\ answers'[a].report \notin Reviews
    BY <1>n, <2>4 DEF Publishes
  <2>5. ASSUME NEW p \in Reviews, Publishes(p, a), CommitReview(p)
        PROVE  /\ answers'[a].exists /\ answers'[a].report = p
               /\ task'[p].at \in Answered
               /\ task'[p].answer = a /\ task'[p].id = answers'[a].id
               /\ p \in answers'[a].files /\ p \in storage'
    <3>1. /\ answers'[a].exists /\ answers'[a].report = p /\ p \in answers'[a].files
          /\ answers'[a].id = task[p].id /\ task[p].answer = a /\ task[p].at = "saving"
      BY <2>5 DEF Publishes
    <3>2. p \in Processes /\ task \in [Processes -> TaskRecord]
      BY <1>0, Kinds DEF TypeOK
    <3>3. PICK place \in Answered : Goto(p, place)
      BY <2>5 DEF CommitReview, Answered
    <3>4. task'[p].at = place /\ task'[p].answer = task[p].answer /\ task'[p].id = task[p].id
      BY <3>2, <3>3 DEF Goto, TaskRecord
    <3>5. p \in storage'
      BY <1>0, <1>1, <3>1 DEF ReportsStored
    <3> QED
      BY <3>1, <3>3, <3>4, <3>5
  <2>6. ASSUME NEW m \in Entries,
               answers'[a] = [answers[a] EXCEPT !.exists = TRUE, !.marks = m, !.reviewed = TRUE]
        PROVE  /\ answers'[a].exists /\ answers'[a].report = answers[a].report
               /\ answers'[a].id = answers[a].id /\ answers'[a].files = answers[a].files
    BY <2>0, <2>6 DEF AnswerRecord
  <2>7. CASE \E j \in Evaluations : Publishes(j, a)
    BY <2>4, <2>7
  <2>8. CASE \E p \in Reviews : Publishes(p, a) /\ CommitReview(p)
    BY <2>5, <2>8
  <2>9. CASE \E m \in Entries : answers'[a] = [answers[a] EXCEPT !.exists = TRUE, !.marks = m,
                                                              !.reviewed = TRUE]
    BY <2>1, <2>6, <2>9
  <2> QED
    BY <2>0, <2>2, <2>3, <2>7, <2>8, <2>9 DEF ResultStep
<1>5. ASSUME NEW p \in Reviews, p \in doomed'
      PROVE  task'[p].at \in Answered /\ task'[p].id < answers'[task'[p].answer].id
  <2>1. CASE p \in doomed
    <3> DEFINE a == task[p].answer
    <3>1. task[p].at \in Answered /\ task[p].id < answers[a].id
      BY <1>0, <2>1 DEF ReportsStored
    <3>2. /\ task'[p].at \in Answered /\ task'[p].answer = task[p].answer
          /\ task'[p].id = task[p].id
      BY <1>0, <3>1, StaysAnswered
    <3>3. a \in Answers
      BY <1>0, <3>1 DEF TypeInv, Targets, Answered
    <3>4. AnswerStep(a)
      BY <3>3, AnswerSteps DEF StoreInv
    <3>5. task[p].id \in Nat /\ answers[a].id \in Nat /\ answers'[a].id \in Nat
      BY <1>0, <3>3, Kinds DEF TypeOK, TaskRecord, AnswerRecord
    <3>6. answers[a].id <= answers'[a].id
      BY <3>4, <3>5 DEF AnswerStep
    <3> QED
      BY <3>1, <3>2, <3>5, <3>6
  <2>2. CASE p \notin doomed
    <3>1. PICK a \in Answers : /\ answers[a].exists /\ answers[a].report = p
                              /\ answers'[a] = Deleted(answers[a])
      BY <1>0, <1>5, <2>2, DoomedSteps
    <3>2. task[p].at \in Answered /\ task[p].answer = a /\ task[p].id = answers[a].id
      BY <1>0, <3>1 DEF ReportsStored
    <3>3. task'[p].at \in Answered /\ task'[p].answer = a /\ task'[p].id = answers[a].id
      BY <1>0, <3>2, StaysAnswered
    <3>4. answers'[a].id = answers[a].id + 1 /\ answers[a].id \in Nat
      BY <1>0, <3>1, DeletedAnswer, Reads
    <3> QED
      BY <3>3, <3>4
  <2> QED
    BY <2>1, <2>2
<1> QED
  BY <1>3, <1>4, <1>5 DEF ReportsStored

\* The report of a review that an answer shows is never removed from the file
\* store, neither by the verification after an unknown commit nor by the removal
\* of files of a deleted answer.
THEOREM ReviewReportStored == Spec => []ReviewReportIsStored
<1>1. StoreInv => ReviewReportIsStored
  BY DEF StoreInv, ReportsStored, ReviewReportIsStored
<1>2. ASSUME StoreInv, [Next]_vars PROVE StoreInv'
  BY <1>2, StepFreeze, StepReports DEF StoreInv
<1> QED
  BY <1>1, <1>2, InitStore, PTL DEF Spec
=============================================================================
