--------------------------- MODULE PaperGeneration ---------------------------
(***************************************************************************)
(* A question paper written by the AI (_run_generation_job of              *)
(* app/api/routers/question_paper.py and app/services/paper_blueprint.py): *)
(* the marks of the paper are shared out over its sections, the reply is   *)
(* held to that, and a second call checks the answers.  How the job is     *)
(* submitted and claimed is in JobSubmission.                              *)
(***************************************************************************)
EXTENDS Integers, FiniteSets, Sequences, FiniteSetsExt, SequencesExt

CONSTANTS
  Forms,       \* percentages of the sections as the form may send them
  Totals,      \* totalMarks the form may ask for
  Default,     \* percentages used when the form's do not add up
  MaxMark,     \* bound: marks of one question
  MaxQuestions \* bound: questions of one section

\* What the constants of an instance satisfy.
ConstantsOK ==
  /\ Default \in Seq(0 .. 100)

VARIABLES
  request,  \* what the job was asked for
  job,      \* status and step of the job's record
  paid,     \* features the provider was paid for
  alloc,    \* marks of each section, or << >>
  paper     \* validated paper, or << >>

vars == <<request, job, paid, alloc, paper>>

Total(s) == FoldSeq(LAMBDA x, y : x + y, 0, s)

(* _parse_sections: percentages are cut to 0..100; what does not add up to *)
(* a whole is replaced.                                                    *)
ParseSections(form) ==
  LET cut == [i \in DOMAIN form |-> Max({0, Min({100, form[i]})})]
  IN  IF Len(form) > 0 /\ Total(cut) = 100 THEN cut ELSE Default

Init ==
  /\ \E form \in Forms, total \in Totals,
        files \in SUBSET {"question_bank", "course_planner"},
        check, choices \in BOOLEAN :
       request = [sections |-> ParseSections(form), total |-> total, files |-> files,
                  check |-> check, choices |-> choices]
  /\ job = [status |-> "queued", step |-> "extract", checked |-> "skipped"]
  /\ paid = {} /\ alloc = << >> /\ paper = << >>

Sections == DOMAIN request.sections

-----------------------------------------------------------------------------
(* allocate_sections: every section its whole marks; the marks that are    *)
(* left go to the largest remainders.  The remainders are floating point   *)
(* numbers, so which of two equal ones is larger depends on rounding.      *)
Whole(i) == (request.total * request.sections[i]) \div 100
Remainder(i) == (request.total * request.sections[i]) % 100

WholeMarks == MapThenSumSet(Whole, Sections)

(* Mutant: the marks that are left go to the first sections.               *)
Favoured_First(W) == W = 1 .. Cardinality(W)

Favoured(W) == \A i \in W, j \in Sections \ W : Remainder(i) >= Remainder(j)

Allocations ==
  {[i \in Sections |-> IF i \in W THEN Whole(i) + 1 ELSE Whole(i)] :
     W \in {W \in SUBSET Sections : Cardinality(W) = request.total - WholeMarks
                                    /\ Favoured(W)}}

Possible(a) == \A i \in DOMAIN a : a[i] > 0

(* A section of a reply: its questions' marks and how many to attempt.     *)
Replies ==
  [Sections -> {s \in [marks : UNION {[1 .. n -> 1 .. MaxMark] : n \in 1 .. MaxQuestions},
                       attempt : 1 .. MaxQuestions] : s.attempt <= Len(s.marks)}]

(* validate_paper: a choice has to be asked for, its alternatives carry    *)
(* equal marks, and what is required is what the section was allocated.    *)
SectionValid(s, marks) ==
  IF s.attempt < Len(s.marks)
  THEN /\ request.choices
       /\ \A i, j \in DOMAIN s.marks : s.marks[i] = s.marks[j]
       /\ s.attempt * s.marks[1] = marks
  ELSE Total(s.marks) = marks

Valid(reply) == \A i \in Sections : SectionValid(reply[i], alloc[i])

-----------------------------------------------------------------------------
Running == job.status \in {"queued", "processing"}

(* Files are read by another provider before the paper is asked for; text  *)
(* files cost nothing, which counts as a call here as well.                *)
Extract ==
  /\ Running /\ job.step = "extract"
  /\ paid' = paid \cup request.files
  /\ job' = [job EXCEPT !.status = IF "question_bank" \in request.files
                                   THEN "processing" ELSE @,
                        !.step = "blueprint"]
  /\ UNCHANGED <<request, alloc, paper>>

Failed == job' = [job EXCEPT !.status = "failed", !.step = "error"]

(* The prompt names the marks of each section; a section without marks, or *)
(* a total below one, ends the job here.                                   *)
Blueprint ==
  /\ Running /\ job.step = "blueprint"
  /\ IF request.total > 0
     THEN \E a \in Allocations :
            IF Possible(a)
            THEN alloc' = a /\ job' = [job EXCEPT !.step = "generate"]
            ELSE Failed /\ UNCHANGED alloc
     ELSE Failed /\ UNCHANGED alloc
  /\ UNCHANGED <<request, paid, paper>>

(* The provider is paid for every reply; one that is not valid is dropped. *)
Generate ==
  /\ Running /\ job.step = "generate"
  /\ paid' = paid \cup {"paper"}
  /\ \/ \E reply \in Replies :
          /\ Valid(reply)
          /\ paper' = reply
          /\ job' = [job EXCEPT !.step = IF request.check THEN "check" ELSE "build"]
     \/ Failed /\ UNCHANGED paper
  /\ UNCHANGED <<request, alloc>>

(* A second opinion; without it the paper is as good as before.            *)
CheckAnswers ==
  /\ Running /\ job.step = "check"
  /\ paid' = paid \cup {"answer_check"}
  /\ \E checked \in {"done", "failed"} :
       job' = [job EXCEPT !.step = "build", !.checked = checked]
  /\ UNCHANGED <<request, alloc, paper>>

(* The Word file is built and uploaded, and the record holds the paper.    *)
BuildAndUpload ==
  /\ Running /\ job.step = "build"
  /\ job' = [job EXCEPT !.status = "completed", !.step = "done"]
  /\ UNCHANGED <<request, paid, alloc, paper>>

(* Extraction, rendering, the store, or the record of the step fails.      *)
StepFails ==
  /\ Running
  /\ Failed
  /\ UNCHANGED <<request, paid, alloc, paper>>

(* The worker is stopped; who pays again is asked to look at this job.     *)
Interrupt ==
  /\ Running
  /\ job' = [job EXCEPT !.status = "interrupted"]
  /\ UNCHANGED <<request, paid, alloc, paper>>

Next ==
  \/ Extract \/ Blueprint \/ Generate \/ CheckAnswers \/ BuildAndUpload
  \/ StepFails \/ Interrupt

Spec == Init /\ [][Next]_vars

-----------------------------------------------------------------------------
TypeOK ==
  /\ job.status \in {"queued", "processing", "completed", "failed", "interrupted"}
  /\ job.step \in {"extract", "blueprint", "generate", "check", "build", "done", "error"}
  /\ job.checked \in {"skipped", "done", "failed"}
  /\ job.status = "failed" <=> job.step = "error"
  /\ paid \subseteq {"question_bank", "course_planner", "paper", "answer_check"}
  /\ alloc = << >> \/ alloc \in [Sections -> Nat]
  /\ paper = << >> \/ paper \in Replies

(* How far marks are from the percentages, in hundredths of a mark.        *)
Distance(a) ==
  LET Off(i) == LET d == 100 * a[i] - request.total * request.sections[i]
                IN  IF d < 0 THEN -d ELSE d
  IN  MapThenSumSet(Off, Sections)

Splits == {a \in [Sections -> 0 .. request.total] : Total(a) = request.total}

(* The marks of the sections add up to the paper's, no other split is      *)
(* closer to the percentages, and a larger share never gets fewer marks.   *)
AllocationIsClosest ==
  alloc # << >> =>
    /\ alloc \in Splits
    /\ \A a \in Splits : Distance(alloc) <= Distance(a)
    /\ \A i, j \in Sections :
         request.sections[i] > request.sections[j] => alloc[i] >= alloc[j]

(* Whichever questions a student attempts where there is a choice, a       *)
(* finished paper is out of the marks that were asked for.                 *)
EveryAttemptIsOutOfTotal ==
  job.status = "completed" =>
    /\ \A i \in Sections : \A Q \in SUBSET (DOMAIN paper[i].marks) :
         Cardinality(Q) = paper[i].attempt =>
           LET Mark(q) == paper[i].marks[q] IN MapThenSumSet(Mark, Q) = alloc[i]
    /\ Total(alloc) = request.total

(* A paper that cannot be written - a section would have no marks - is     *)
(* found out before the provider is paid for it.                           *)
ImpossiblePaperIsNotPaid ==
  "paper" \in paid =>
    request.total > 0 /\ \E a \in Splits : Possible(a) /\ Distance(a) = Distance(alloc)
=============================================================================
