---------------------------- MODULE McqAnswerKey ----------------------------
(***************************************************************************)
(* The answer key of an exam's multiple-choice questions: resolved by one  *)
(* provider call after the text of a new paper was extracted, or lazily by *)
(* the first evaluations of an exam that has none, kept in the exam, and   *)
(* compared with the letters the students selected.                        *)
(*                                                                         *)
(* One question stands for all: each has an entry of its own.  The paper   *)
(* may be replaced until the first evaluation starts; papers of older      *)
(* deployments have no version and are told apart by their content.        *)
(***************************************************************************)
EXTENDS Naturals

CONSTANTS
    Evaluations,    \* evaluation jobs, one script each
    Texts,          \* what an extraction may read from a paper
    Objective,      \* the texts with a multiple-choice question
    Letters,
    MaxVersion,     \* bound on replacements; version 0 is a paper without a version
    None

\* What the constants of an instance satisfy.
ConstantsOK ==
  /\ Objective \subseteq Texts
  /\ MaxVersion \in Nat
  /\ None \notin Texts \cup Letters
  /\ {"blank", "unclear"} \cap Letters = {}
  /\ Evaluations \cap (1 .. MaxVersion) = {}   \* the extractions

Extractions == 1 .. MaxVersion

VARIABLES
    exam,       \* the paper, the permanent barrier and the stored key
    job,        \* evaluations and extractions
    result      \* what each evaluation made of its script

vars == <<exam, job, result>>

\* paper_key_version: the version, or a fingerprint of an old paper.
Tag(version, text) == [version |-> version, text |-> IF version = 0 THEN text ELSE None]
Tags == [version : 0 .. MaxVersion, text : Texts \cup {None}]

Key == [tag : Tags \cup {None}, context : {0, 1}, text : Texts,
        answer : Letters \cup {None}, sure : BOOLEAN]

Exam == [version : 0 .. MaxVersion, text : Texts \cup {None}, locked : BOOLEAN,
         key : Key \cup {None}]

Job == [at : {"idle", "locked", "selecting", "extracting", "patching", "resolving", "calling",
              "saving", "guarding", "reading", "done", "failed"},
        version : 0 .. MaxVersion, text : Texts \cup {None},
        seen : Key \cup {None}, key : Key \cup {None}, safe : BOOLEAN]

Result == [by : {"key", "review", "judgement"}, marks : {0, 1}, answer : Letters \cup {None}]

\* Old exams: no version, with or without a key, which may lack its tag or
\* the question context.
OldKeys(t) ==
    {[tag |-> tag, context |-> c, text |-> t, answer |-> a, sure |-> TRUE] :
        tag \in {None, Tag(0, t)}, c \in {0, 1}, a \in Letters}

Init ==
    /\ \/ exam = [version |-> 0, text |-> None, locked |-> FALSE, key |-> None]
       \/ \E t \in Texts : \E k \in {None} \cup (IF t \in Objective THEN OldKeys(t) ELSE {}) :
            exam = [version |-> 0, text |-> t, locked |-> FALSE, key |-> k]
    /\ job = [j \in Evaluations \cup Extractions |->
                 [at |-> "idle", version |-> 0, text |-> None, seen |-> None,
                  key |-> None, safe |-> TRUE]]
    /\ result = [e \in Evaluations |-> None]

\* paper_snapshot_filter: the version, and the content of a paper without one.
Snapshot(j) ==
    /\ exam.version = job[j].version
    /\ exam.version = 0 => exam.text = job[j].text

Go(j, at) == job' = [job EXCEPT ![j].at = at]

-----------------------------------------------------------------------------
(* Papers *)

\* upload_question_paper: a new version without text and without key.
Replaced(e) == [e EXCEPT !.version = @ + 1, !.text = None, !.key = None]

\* The upload is refused once evaluation has started; it queues the extraction.
ReplacePaper ==
    /\ exam.version < MaxVersion
    /\ ~exam.locked
    /\ exam' = Replaced(exam)
    /\ job' = [job EXCEPT ![exam.version + 1].at = "extracting",
                          ![exam.version + 1].version = exam.version + 1]
    /\ UNCHANGED result

\* The job gives up when the paper is no longer the one it was queued for.
Extract(x) ==
    /\ job[x].at = "extracting"
    /\ \/ /\ exam.version = job[x].version
          /\ \E t \in Texts : job' = [job EXCEPT ![x].at = "patching", ![x].text = t]
       \/ /\ exam.version # job[x].version
          /\ Go(x, "done")
    /\ UNCHANGED <<exam, result>>

PatchText(x) ==
    /\ job[x].at = "patching"
    /\ IF exam.version = job[x].version
       THEN exam' = [exam EXCEPT !.text = job[x].text] /\ Go(x, "resolving")
       ELSE UNCHANGED exam /\ Go(x, "done")
    /\ UNCHANGED result

-----------------------------------------------------------------------------
(* Resolving *)

After(j) == IF j \in Evaluations THEN "guarding" ELSE "done"

\* determine_and_save_mcq_answer_keys reads the exam again and stops unless
\* it still has the text and version it was called with; a paper without
\* multiple-choice questions needs no call.
ReadForKey(j) ==
    /\ job[j].at = "resolving"
    /\ IF exam.version = job[j].version /\ exam.text = job[j].text /\ exam.text \in Objective
       THEN Go(j, "calling") ELSE Go(j, After(j))
    /\ UNCHANGED <<exam, result>>

\* One provider call.  A failed call, a malformed response or an incomplete
\* question leaves the entry unresolved; the model may be unsure.
CallProvider(j) ==
    /\ job[j].at = "calling"
    /\ \E a \in Letters \cup {None}, sure \in BOOLEAN :
         /\ a = None => ~sure
         /\ job' = [job EXCEPT ![j].at = "saving",
                       ![j].key = [tag |-> Tag(job[j].version, job[j].text), context |-> 1,
                                   text |-> job[j].text, answer |-> a, sure |-> sure]]
    /\ UNCHANGED <<exam, result>>

\* Mutant: the key is saved into whatever paper the exam has now.
SnapshotHolds_Any(j) == TRUE

SnapshotHolds(j) == Snapshot(j)

SaveKey(j) ==
    /\ job[j].at = "saving"
    /\ IF SnapshotHolds(j)
       THEN exam' = [exam EXCEPT !.key = job[j].key] /\ Go(j, After(j))
       ELSE UNCHANGED exam /\ job' = [job EXCEPT ![j].at = After(j), ![j].key = None]
    /\ UNCHANGED result

-----------------------------------------------------------------------------
(* Evaluation *)

LockExam(e) ==
    /\ job[e].at = "idle"
    /\ exam' = [exam EXCEPT !.locked = TRUE]
    /\ Go(e, "locked")
    /\ UNCHANGED result

\* The snapshot that is graded.  The rubric decides whether plain question
\* numbers may be matched with the key at all.
ReadExam(e) ==
    /\ job[e].at = "locked"
    /\ \E safe \in BOOLEAN :
         job' = [job EXCEPT ![e].version = exam.version, ![e].text = exam.text,
                            ![e].seen = exam.key, ![e].safe = safe,
                            ![e].at = IF exam.text = None THEN "failed"
                                      ELSE IF safe THEN "selecting" ELSE "guarding"]
    /\ UNCHANGED <<exam, result>>

\* ensure_mcq_answer_key: a key without tag or context needs review, one of
\* another paper is resolved again.
Selected(k, tag) ==
    IF k = None THEN "resolve"
    ELSE IF k.tag = None THEN "review"
    ELSE IF k.tag # tag THEN "resolve"
    ELSE IF k.context # 1 THEN "review" ELSE "use"

SelectKey(e) ==
    /\ job[e].at = "selecting"
    /\ LET q == job[e]
           choice == Selected(q.seen, Tag(q.version, q.text)) IN
       IF ~Snapshot(e) THEN Go(e, "guarding")
       ELSE IF choice = "resolve" THEN Go(e, "resolving")
       ELSE job' = [job EXCEPT ![e].at = "guarding",
                       ![e].key = IF choice = "use" THEN q.seen ELSE [q.seen EXCEPT !.sure = FALSE]]
    /\ UNCHANGED <<exam, result>>

\* The paper is compared once more before the student's answers are read.
GuardPaper(e) ==
    /\ job[e].at = "guarding"
    /\ Go(e, IF Snapshot(e) THEN "reading" ELSE "failed")
    /\ UNCHANGED <<exam, result>>

Comparable(key) == key # None /\ key.answer # None /\ key.sure

\* apply_deterministic_mcq_overrides: the letter decides where the key is sure
\* and the letter readable; otherwise the model's marks stay, flagged for
\* review when the question is multiple-choice by number.
Scored(e, letter, judged) ==
    LET key == job[e].key IN
    IF ~job[e].safe \/ job[e].text \notin Objective
    THEN [by |-> "judgement", marks |-> judged, answer |-> None]
    ELSE IF ~Comparable(key) \/ letter = "unclear"
    THEN [by |-> "review", marks |-> judged, answer |-> None]
    ELSE [by |-> "key", marks |-> IF letter = key.answer THEN 1 ELSE 0, answer |-> key.answer]

Grade(e) ==
    /\ job[e].at = "reading"
    /\ \E letter \in Letters \cup {"blank", "unclear"}, judged \in {0, 1} :
         result' = [result EXCEPT ![e] = Scored(e, letter, judged)]
    /\ Go(e, "done")
    /\ UNCHANGED exam

-----------------------------------------------------------------------------
Resolve(j) == ReadForKey(j) \/ CallProvider(j) \/ SaveKey(j)

Next ==
    \/ ReplacePaper
    \/ \E x \in Extractions : Extract(x) \/ PatchText(x)
    \/ \E j \in Evaluations \cup Extractions : Resolve(j)
    \/ \E e \in Evaluations :
         LockExam(e) \/ ReadExam(e) \/ SelectKey(e) \/ GuardPaper(e) \/ Grade(e)

Spec == Init /\ [][Next]_vars

-----------------------------------------------------------------------------
TypeOK ==
    /\ exam \in Exam
    /\ job \in [Evaluations \cup Extractions -> Job]
    /\ result \in [Evaluations -> Result \cup {None}]
    /\ exam.key # None => exam.text \in Objective

\* A stored key that carries a tag was resolved from the text the exam has:
\* neither a replacement nor a late answer of the provider leaves the key of
\* another paper behind.
KeyFitsPaper ==
    exam.key # None /\ exam.key.tag # None =>
        /\ exam.key.text = exam.text
        /\ exam.key.tag = Tag(exam.version, exam.text)

\* Marks decided by the key come from a sure entry that was resolved, with its
\* full context, from the very text the script was graded against.
ScoredByOwnPaper ==
    \A e \in Evaluations : result[e] # None /\ result[e].by = "key" =>
        LET key == job[e].key IN
        /\ key.sure /\ key.context = 1
        /\ key.tag = Tag(job[e].version, job[e].text) /\ key.text = job[e].text

-----------------------------------------------------------------------------
\* What the documentation says beyond this and the code does not keep: the model
\* has behaviours against it (README, "Divergences").

\* mcq_grading: several jobs may resolve the key independently, "but not
\* incorrect, since they compute the same deterministic result": scripts of
\* one paper are marked by the same answer.
OneAnswerForAll ==
    \A e, f \in Evaluations :
        result[e] # None /\ result[f] # None /\ result[e].by = "key" /\ result[f].by = "key"
            => result[e].answer = result[f].answer
=============================================================================
