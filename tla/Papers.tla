------------------------------- MODULE Papers -------------------------------
(* From a question paper to its marks: papers and their files, generated    *)
(* papers, the mapping of questions, the answer key of multiple-choice      *)
(* questions, suggested rubrics, the reading and the marking of a script,   *)
(* side by side.  These components share no state, so a behaviour is one of *)
(* them, the scenario: nothing is gained from interleaving their steps.     *)
(* The constants have their values in Papers.cfg.                           *)
EXTENDS Integers, Sequences, SequencesExt, TLC

CONSTANTS PaperIds, Editors, MaxEdits,                                 \* QuestionPapers
          Evaluations, Texts, Objective, Letters, MaxReplacements,     \* McqAnswerKey
          Callers, NumBatches, MaxChanges,                             \* RubricSuggestions
          MaxPages, MaxMark,                                           \* ScriptReading
          NRows, RowMax, RubricForms, Watched, Optional,               \* Marking
          NParts, PartMax, QuestionForms,                              \* PartMarks
          None, Inactive

VARIABLES scenario,
          paper, file, req, stuck,                              \* QuestionPapers
          asked, genJob, paid, alloc, generated,                \* PaperGeneration
          exam, keyJob, result,                                 \* McqAnswerKey
          matches, changes, record, request, queue, worker,     \* RubricSuggestions
          exampaper, form, used,                                \* QuestionMapping
          script, phase, page, seen, ledger, sent, reply, row,  \* ScriptReading
          rubric, answer,                                       \* Marking
          question, partRow                                     \* PartMarks

-----------------------------------------------------------------------------
\* Instances

Stored == INSTANCE QuestionPapers WITH
  Papers <- PaperIds, Requests <- Editors, MaxVersion <- MaxEdits

\* Shares that leave a remainder, shares that do not add up to a whole, a
\* section without a share and no section.
Generation == INSTANCE PaperGeneration WITH
  Forms <- { <<50, 50>>, <<33, 33, 34>>, <<90, 10>>, <<60, 20, 20>>, <<100>>,
             <<40, 40>>, <<100, 0>>, <<120, 0>>, << >> },
  Totals <- -1 .. 5, Default <- <<25, 40, 35>>, MaxMark <- 3, MaxQuestions <- 2,
  request <- asked, job <- genJob, paper <- generated

AnswerKey == INSTANCE McqAnswerKey WITH MaxVersion <- MaxReplacements, job <- keyJob

\* The instances of this module bring its theorems with them.
Suggestions == INSTANCE RubricSuggestions_proofs WITH Requests <- Callers, Careful <- TRUE

\* An operator who fails an attempt while its worker still runs.
Overruled == INSTANCE RubricSuggestions_proofs WITH
  Requests <- Callers, Careful <- FALSE, NumBatches <- 1

Script == INSTANCE ScriptReading

Marks == INSTANCE Marking WITH MaxMark <- RowMax, Forms <- RubricForms

\* Every text of up to three lines of ten kinds, and of four of seven.
Plain(kind, root, sub) == [kind |-> kind, root |-> root, sub |-> sub, explicit |-> FALSE]
CoreLines ==
  {Plain("heading", 1, 0), Plain("heading", 2, 0), Plain("label", 1, 0), Plain("label", 1, 1),
   Plain("label", 1, 2), Plain("label", 2, 0), Plain("or", 0, 0)}
MoreLines ==
  CoreLines \cup {[Plain("label", n, 0) EXCEPT !.explicit = TRUE] : n \in {1, 2}}
            \cup {Plain("letter", 0, 1)}

Section(section, marks, count) == [section |-> section, marks |-> marks, count |-> count]
Span(lo, hi, marks) == [lo |-> lo, hi |-> hi, marks |-> marks]
Scheme(total, sections, ranges) == [total |-> total, sections |-> sections, ranges |-> ranges]

Automatic == INSTANCE QuestionMapping WITH
  Texts <- BoundedSeq(MoreLines, 3) \cup BoundedSeq(CoreLines, 4), Counts <- 1 .. 3,
  Later <- {}, MaxVersion <- 0, Forms <- {},
  Schemes <- { Scheme(2, {Section(1, 1, None)}, {}),
               Scheme(2, {Section(1, 1, 2)}, {}),
               Scheme(3, {Section(1, 1, None), Section(2, 2, None)}, {}),
               Scheme(2, {}, {Span(1, 2, 1)}),
               Scheme(4, {}, {Span(1, 1, 2), Span(2, 2, 2)}) },
  paper <- exampaper

\* Two forms for a paper that is replaced, or extracted again, by another text.
TwoTexts ==
  { <<Plain("label", 1, 0), Plain("label", 2, 0)>>,
    <<Plain("heading", 1, 0), Plain("label", 1, 0), Plain("label", 2, 0)>> }

Confirming == INSTANCE QuestionMapping WITH
  Texts <- TwoTexts, Later <- TwoTexts, Counts <- {2}, MaxVersion <- 1,
  Forms <- Editors, Schemes <- {},
  paper <- exampaper

Parts == INSTANCE PartMarks WITH
  MaxMark <- PartMax, Forms <- QuestionForms, row <- partRow

ASSUME StoredConstants == Stored!ConstantsOK
ASSUME AnswerKeyConstants == AnswerKey!ConstantsOK
ASSUME SuggestionsConstants == Suggestions!ConstantsOK
ASSUME OverruledConstants == Overruled!ConstantsOK
ASSUME ScriptConstants == Script!ConstantsOK
ASSUME MarksConstants == Marks!ConstantsOK
ASSUME PartsConstants == Parts!ConstantsOK
ASSUME Generation!ConstantsOK /\ Automatic!ConstantsOK /\ Confirming!ConstantsOK

-----------------------------------------------------------------------------
\* One component moves, the others are off.

ofPapers == <<paper, file, req, stuck>>
ofGeneration == <<asked, genJob, paid, alloc, generated>>
ofAnswerKey == <<exam, keyJob, result>>
ofSuggestions == <<matches, changes, record, request, queue, worker>>
ofMapping == <<exampaper, form, used>>
ofScript == <<script, phase, page, seen, ledger, sent, reply, row>>
ofMarks == <<rubric, answer>>
ofParts == <<question, partRow>>
vars == <<scenario, ofPapers, ofGeneration, ofAnswerKey, ofSuggestions, ofMapping,
          ofScript, ofMarks, ofParts>>

NoPapers == paper = Inactive /\ file = Inactive /\ req = Inactive /\ stuck = Inactive
NoGeneration == asked = Inactive /\ genJob = Inactive /\ paid = Inactive /\ alloc = Inactive /\ generated = Inactive
NoAnswerKey == exam = Inactive /\ keyJob = Inactive /\ result = Inactive
NoSuggestions == /\ matches = Inactive /\ changes = Inactive /\ record = Inactive
                 /\ request = Inactive /\ queue = Inactive /\ worker = Inactive
NoMapping == exampaper = Inactive /\ form = Inactive /\ used = Inactive
NoScript == /\ script = Inactive /\ phase = Inactive /\ page = Inactive /\ seen = Inactive
            /\ ledger = Inactive /\ sent = Inactive /\ reply = Inactive /\ row = Inactive
NoMarks == rubric = Inactive /\ answer = Inactive
NoParts == question = Inactive /\ partRow = Inactive

Init ==
  /\ scenario \in {"papers", "generation", "key", "suggestions", "overruled",
                   "mapping", "confirming", "script", "marks", "parts"}
  /\ IF scenario = "papers" THEN Stored!Init ELSE NoPapers
  /\ IF scenario = "generation" THEN Generation!Init ELSE NoGeneration
  /\ IF scenario = "key" THEN AnswerKey!Init ELSE NoAnswerKey
  /\ CASE scenario = "suggestions" -> Suggestions!Init
       [] scenario = "overruled" -> Overruled!Init
       [] OTHER -> NoSuggestions
  /\ CASE scenario = "mapping" -> Automatic!Init
       [] scenario = "confirming" -> Confirming!Init
       [] OTHER -> NoMapping
  /\ IF scenario = "script" THEN Script!Init ELSE NoScript
  /\ IF scenario = "marks" THEN Marks!Init ELSE NoMarks
  /\ IF scenario = "parts" THEN Parts!Init ELSE NoParts

Next ==
  /\ UNCHANGED scenario
  /\ IF scenario = "papers" THEN Stored!Next ELSE UNCHANGED ofPapers
  /\ IF scenario = "generation" THEN Generation!Next ELSE UNCHANGED ofGeneration
  /\ IF scenario = "key" THEN AnswerKey!Next ELSE UNCHANGED ofAnswerKey
  /\ CASE scenario = "suggestions" -> Suggestions!Next
       [] scenario = "overruled" -> Overruled!Next
       [] OTHER -> UNCHANGED ofSuggestions
  /\ CASE scenario = "mapping" -> Automatic!Next
       [] scenario = "confirming" -> Confirming!Next
       [] OTHER -> UNCHANGED ofMapping
  /\ IF scenario = "script" THEN Script!Next ELSE UNCHANGED ofScript
  /\ IF scenario = "marks" THEN Marks!Next ELSE UNCHANGED ofMarks
  /\ IF scenario = "parts" THEN Parts!Next ELSE UNCHANGED ofParts

Spec == Init /\ [][Next]_vars

Symmetry ==
  Permutations(Editors) \cup Permutations(Evaluations) \cup Permutations(Objective)
    \cup Permutations(Callers) \cup Permutations(Letters)

-----------------------------------------------------------------------------
\* Properties

\* Types of every component.
TypeOK ==
  /\ scenario = "papers" => Stored!TypeOK
  /\ scenario = "generation" => Generation!TypeOK
  /\ scenario = "key" => AnswerKey!TypeOK
  /\ scenario = "suggestions" => Suggestions!TypeOK
  /\ scenario = "overruled" => Overruled!TypeOK
  /\ scenario = "mapping" => Automatic!TypeOK
  /\ scenario = "confirming" => Confirming!TypeOK
  /\ scenario = "script" => Script!TypeOK
  /\ scenario = "marks" => Marks!TypeOK
  /\ scenario = "parts" => Parts!TypeOK

\* Whichever uploads and writes of a stored paper fail, are in doubt or overtake
\* each other: the paper refers to a file that exists and shows its content, and
\* no other file is left that a failed call does not explain.
PapersKept ==
  scenario = "papers" => Stored!PapersKept

\* A generated paper is what was asked for: its sections get the closest split
\* of the marks, every choice of questions is out of the same total, and a paper
\* that cannot exist is found out before the provider is paid.  And what is marked
\* is the question of the paper: no row is given text of another one, nor a
\* mapping that was confirmed for another paper.
QuestionsAsMeant ==
  /\ scenario = "generation" =>
       /\ Generation!AllocationIsClosest
       /\ Generation!EveryAttemptIsOutOfTotal
       /\ Generation!ImpossiblePaperIsNotPaid
  /\ scenario = "mapping" =>
       /\ Automatic!RowsShareNothing /\ Automatic!NoLabelIsLost
       /\ Automatic!SchemeFitsOneLayout
  /\ scenario = "confirming" =>
       Confirming!RowsShareNothing /\ Confirming!MappingBelongsToPaper

\* What a script is marked by belongs to its paper.  Whenever the paper is
\* replaced while a key is resolved or a script is graded, the stored key is one
\* of the current text and a script is marked by the key of the text it was
\* graded against; marks rest on a script that was read to its end.
ScriptsMarkedByOwnPaper ==
  /\ scenario = "key" => AnswerKey!KeyFitsPaper /\ AnswerKey!ScoredByOwnPaper
  /\ scenario = "script" => Script!MarksAreSupported

\* "Concurrent requests for the same context reuse one attempt": the attempts at
\* suggestions implement PaidBatches, so that two workers never buy the same
\* batch and what is saved is not bought again.
Paid == INSTANCE PaidBatches WITH
  saved <- IF scenario = "suggestions" THEN Suggestions!SavedBatches ELSE {},
  buying <- IF scenario = "suggestions" THEN Suggestions!BuyingBatches ELSE {},
  Batches <- 1 .. NumBatches

BatchesBoughtOnce == Paid!PaidSpec

\* What the provider is paid for: a retry that passed neither rate limit nor
\* budget buys nothing, a completed suggestion was put together from one whole
\* response for every batch, and what the ledger says of a script is what was
\* asked for, repeated and rejected pages included.
PaidForOnce ==
  /\ scenario = "suggestions" => Suggestions!FreeRetryBuysNothing /\ Suggestions!CompletedIsWhole
  /\ scenario = "script" => Script!ChargesAreExact

\* Nothing is written from a reading that was overtaken: a file that replaces
\* the one of a paper was built from the header stored with it, and the worker
\* of an attempt that was replaced while it called the provider writes nothing.
OvertakenWritesNothing ==
  [][/\ scenario = "papers" => Stored!HeaderStep
     /\ scenario = "overruled" => Overruled!FencedStep]_vars

\* Over any sequence of evaluations, manual entries and reviews: the total is the
\* best any choice of questions gives, and a question's mark the best any choice
\* of its parts gives, out of the rubric's total; a question left unanswered has
\* no marks and a flagged one those of the AI; the marks of the course outcomes
\* add up to the question's and are fair shares of it.
MarksAreBest ==
  /\ scenario = "marks" =>
       /\ Marks!BestChoiceCounts /\ Marks!TotalIsOutOfRubric
       /\ Marks!UnansweredHasNoMarks /\ Marks!FlaggedKeepAIMarks
  /\ scenario = "parts" =>
       Parts!BestPartsCount /\ Parts!OutcomesAddUp /\ Parts!SharesAreFair

-----------------------------------------------------------------------------
(* Values of the constants that are sets of forms *)

Choice(questions, n) == [questions |-> questions, answerN |-> n]
Form(max, groups, total) == [max |-> max, groups |-> groups, total |-> total]

\* Four questions, and forms of every kind, the ones to be refused included.
MarkingForms ==
  { Form(<<1, 1, 1, 1>>, {}, 4),
    Form(<<2, 2, 1, 1>>, {Choice({1, 2}, 1)}, 4),
    Form(<<2, 2, 1, 1>>, {Choice({1, 2}, 1), Choice({3, 4}, 1)}, 3),
    Form(<<2, 2, 2, 1>>, {Choice({1, 2, 3}, 2)}, 5),
    Form(<<2, 2, 2, 1>>, {Choice({1, 2, 3}, 2)}, 7),          \* the sum of all rows
    Form(<<2, 2, 1, 1>>, {Choice({2, 3}, 1)}, 5),             \* unequal maxima
    Form(<<2, 2, 2, 1>>, {Choice({1, 2}, 1), Choice({2, 3}, 1)}, 5), \* overlap
    Form(<<1, 1, 1, 1>>, {Choice({1, 2}, 2)}, 4) }            \* nothing to choose

\* One question of three parts, outcomes whose shares leave a remainder, and
\* questions that are refused: unequal maxima, sums that differ.
OfParts(parts, max, groups, total, cos) ==
  [parts |-> parts, max |-> max, groups |-> groups, total |-> total, cos |-> cos]

QuestionParts ==
  { OfParts(TRUE, <<1, 1, 2>>, {}, 4, <<1, 3>>),
    OfParts(TRUE, <<3, 3, 2>>, {Choice({1, 2}, 1)}, 5, <<1, 2, 2>>),
    OfParts(TRUE, <<2, 2, 2>>, {Choice({1, 2, 3}, 2)}, 4, <<2, 0, 2>>),
    OfParts(TRUE, <<3, 3, 3>>, {Choice({1, 2, 3}, 2)}, 6, <<1, 1, 4>>),
    OfParts(TRUE, <<2, 2, 1>>, {Choice({1, 2}, 1)}, 3, << >>),
    OfParts(TRUE, <<2, 2, 1>>, {Choice({2, 3}, 1)}, 3, <<3>>),
    OfParts(TRUE, <<1, 1, 1>>, {}, 3, <<1, 1>>),
    OfParts(FALSE, <<1, 1, 1>>, {}, 3, <<1, 2>>),
    OfParts(FALSE, <<1, 1, 1>>, {}, 4, <<2, 1, 1>>) }
=============================================================================
