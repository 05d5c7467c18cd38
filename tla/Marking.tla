------------------------------ MODULE Marking ------------------------------
(***************************************************************************)
(* Which marks count: rubrics with "answer N of these" groups              *)
(* (app/services/choice_groups.py, app/models/evaluation.py), the checks   *)
(* an evaluation by the AI passes (app/services/grading_validation.py),    *)
(* manual entry (app/services/manual_marks.py) and faculty reviews         *)
(* (app/services/review_marks.py).  Marks are integers: units of the       *)
(* smallest step, with no rounding between them.                           *)
(***************************************************************************)
EXTENDS Integers, FiniteSets, FiniteSetsExt

CONSTANTS
  NRows,     \* questions of the rubric
  MaxMark,   \* highest maximum a question may carry
  Forms,     \* rubrics somebody tries to save: maxima, groups and totalMarks
  Watched,   \* questions the AI may flag for review or find unanswered
  Optional   \* review_policy of the answer: official AI marks, optional review

Rows == 1 .. NRows
Groups == [questions : SUBSET Rows, answerN : 0 .. NRows]

\* What the constants of an instance satisfy.
ConstantsOK ==
  /\ NRows \in Nat \ {0}
  /\ MaxMark \in Nat \ {0}
  /\ Optional \in BOOLEAN
  /\ Watched \subseteq Rows
  /\ \A f \in Forms : /\ f.max \in [Rows -> 1 .. MaxMark]
                       /\ f.groups \subseteq Groups
                       /\ f.total \in Nat

VARIABLES
  rubric,   \* approved rubric: maxima, choice groups and totalMarks, or Absent
  answer    \* saved marking of one script, or Absent

vars == <<rubric, answer>>

Absent == [none |-> TRUE]

Init == rubric = Absent /\ answer = Absent

RunningSum(n, f) ==
  LET upTo[k \in 0 .. n] == IF k = 0 THEN 0 ELSE upTo[k - 1] + f[k]
  IN  upTo[n]

(* The sum of the members of f over some of the rows.                      *)
SumOf(S, f) == RunningSum(NRows, [q \in Rows |-> IF q \in S THEN f[q] ELSE 0])

-----------------------------------------------------------------------------
(* validate_groups.                                                        *)
ValidGroup(max, g) ==
  /\ Cardinality(g.questions) >= 2
  /\ g.answerN >= 1 /\ g.answerN < Cardinality(g.questions)
  /\ \A p, q \in g.questions : max[p] = max[q]

ValidGroups(max, groups) ==
  /\ \A g \in groups : ValidGroup(max, g)
  /\ \A g, h \in groups : g # h => g.questions \cap h.questions = {}

Grouped(groups) == UNION {g.questions : g \in groups}

(* Required rows, and answerN times the maximum of each group.             *)
CountedMax(max, groups) ==
  LET OfGroup(g) == g.answerN * max[CHOOSE q \in g.questions : TRUE]
  IN  SumOf(Rows \ Grouped(groups), max) + MapThenSumSet(OfGroup, groups)

(* A rubric is saved when it is well formed and adds up to totalMarks, and *)
(* only while no marks rest on it.                                         *)
SaveRubric(form) ==
  /\ answer = Absent
  /\ ValidGroups(form.max, form.groups)
  /\ form.total > 0 /\ CountedMax(form.max, form.groups) = form.total
  /\ rubric' = form
  /\ UNCHANGED answer

-----------------------------------------------------------------------------
(* reselect_counted: the rows of a group in the order of their marks, the  *)
(* earlier question first among equals; the first answerN count.  A row of *)
(* no group always counts.                                                 *)
Ahead(score, p, q) == score[p] > score[q] \/ (score[p] = score[q] /\ p < q)

Reselected(score) ==
  (Rows \ Grouped(rubric.groups)) \cup
    UNION {{q \in g.questions :
              Cardinality({p \in g.questions : Ahead(score, p, q)}) < g.answerN}
           : g \in rubric.groups}

CountedSum(counted, score) == SumOf(counted, score)

(* What is saved: sums over the rows that count, and who marked last (a    *)
(* document of manual entry stays one).                                    *)
Marked(ai, grace, flagged, unanswered, by) ==
  LET final == [q \in Rows |-> ai[q] + grace[q]]
      counted == Reselected(final)
  IN  [ai |-> ai, grace |-> grace, final |-> final, counted |-> counted,
       flagged |-> flagged, unanswered |-> unanswered, by |-> by,
       total |-> CountedSum(counted, final),
       maximum |-> CountedSum(counted, rubric.max)]

MarkedBy == IF answer = Absent THEN "nobody" ELSE answer.by

NoGrace == [q \in Rows |-> 0]

(* validate_grading: marks within the rubric, none for what was left out,  *)
(* evidence for the others or a flag for the faculty.  Marks that faculty  *)
(* entered or reviewed are not replaced.                                   *)
Evaluate(ai, flagged, unanswered) ==
  /\ rubric # Absent
  /\ MarkedBy \in {"nobody", "ai"}
  /\ \A q \in Rows : ai[q] \in 0 .. rubric.max[q]
  /\ \A q \in unanswered : ai[q] = 0
  /\ answer' = Marked(ai, NoGrace, flagged, unanswered, "ai")
  /\ UNCHANGED rubric

(* prepare_manual_marks; entered again, the marks replace those before.    *)
EnterManually(marks) ==
  /\ rubric # Absent
  /\ MarkedBy \in {"nobody", "manual"}
  /\ \A q \in Rows : marks[q] \in 0 .. rubric.max[q]
  /\ answer' = Marked(marks, NoGrace, {}, {}, "manual")
  /\ UNCHANGED rubric

(* A flagged question whose marks the review changes needs a confirmation  *)
(* with a note; under the other policy every flagged question does.        *)
ReviewAllowed(grace, confirmed) ==
  \A q \in answer.flagged :
    q \in confirmed \/ (Optional /\ grace[q] = answer.grace[q])

StillUnanswered(grace) == {q \in answer.unanswered : answer.ai[q] + grace[q] <= 0}

(* The saved maximum is not written again.                                 *)
Revised(grace, confirmed) ==
  [Marked(answer.ai, grace, answer.flagged \ confirmed, StillUnanswered(grace),
          IF answer.by = "manual" THEN "manual" ELSE "faculty")
     EXCEPT !.maximum = answer.maximum]

(* Mutant: the rows that count are those chosen before the review.         *)
Reviewed_Stale(grace, confirmed) ==
  [Revised(grace, confirmed) EXCEPT
     !.counted = answer.counted,
     !.total = CountedSum(answer.counted, Revised(grace, confirmed).final)]

Reviewed(grace, confirmed) == Revised(grace, confirmed)

(* Mutant: a review may take more than there is.                           *)
WithinLimits_NoFloor(grace) ==
  \A q \in Rows : answer.ai[q] + grace[q] <= rubric.max[q]

(* AI marks and adjusted marks between zero and the maximum of the row.    *)
WithinLimits(grace) ==
  \A q \in Rows : answer.ai[q] + grace[q] \in 0 .. rubric.max[q]

(* validate_review_marks: the AI's marks stay, the adjusted ones keep to   *)
(* the limits of the question and of the answer.                           *)
Review(grace, confirmed) ==
  /\ answer # Absent
  /\ WithinLimits(grace)
  /\ ReviewAllowed(grace, confirmed)
  /\ answer' = Reviewed(grace, confirmed)
  /\ answer'.total <= answer.maximum
  /\ UNCHANGED rubric

(* A review is the whole form; one that changes more than one question is  *)
(* the sequence of reviews that change one each.                           *)
ReviewOne ==
  /\ answer # Absent
  /\ \E q \in Rows, d \in -MaxMark .. MaxMark, confirmed \in SUBSET answer.flagged :
       Review([answer.grace EXCEPT ![q] = d], confirmed)

Next ==
  \/ \E form \in Forms : SaveRubric(form)
  \/ \E ai \in [Rows -> 0 .. MaxMark], f \in SUBSET Watched, u \in SUBSET Watched :
       Evaluate(ai, f, u)
  \/ \E marks \in [Rows -> 0 .. MaxMark] : EnterManually(marks)
  \/ ReviewOne

Spec == Init /\ [][Next]_vars

-----------------------------------------------------------------------------
(* Types; what is saved is consistent with itself.                         *)
TypeOK ==
  /\ rubric = Absent \/
       /\ rubric.max \in [Rows -> 1 .. MaxMark]
       /\ rubric.groups \subseteq Groups
       /\ rubric.total \in Nat \ {0}
  /\ answer = Absent \/
       /\ answer.ai \in [Rows -> Nat] /\ answer.grace \in [Rows -> Int]
       /\ answer.final \in [Rows -> 0 .. MaxMark]
       /\ answer.counted \subseteq Rows
       /\ answer.by \in {"ai", "manual", "faculty"}
       /\ answer.flagged \subseteq Rows /\ answer.unanswered \subseteq Rows

(* What counts if a student may choose freely within the groups.           *)
FullChoices ==
  {S \in SUBSET Rows :
     /\ Rows \ Grouped(rubric.groups) \subseteq S
     /\ \A g \in rubric.groups : Cardinality(S \cap g.questions) = g.answerN}

(* However the marks came about - evaluation, manual entry, reviews that   *)
(* raise or lower them - the total is the best any choice of questions     *)
(* gives, and the rows that count are such a choice.                       *)
BestChoiceCounts ==
  answer # Absent =>
    /\ answer.counted \in FullChoices
    /\ \A S \in FullChoices : CountedSum(S, answer.final) <= answer.total

(* The total is out of the rubric's totalMarks, and never more.            *)
TotalIsOutOfRubric ==
  answer # Absent => /\ answer.maximum = rubric.total
                   /\ answer.total \in 0 .. rubric.total

(* A question that is marked as unanswered has no marks.                   *)
UnansweredHasNoMarks ==
  answer # Absent => \A q \in answer.unanswered : answer.final[q] = 0

(* Over any sequence of reviews, a question that is still flagged has the  *)
(* marks the AI gave it: nobody changed it without confirming it.          *)
FlaggedKeepAIMarks ==
  answer # Absent => \A q \in answer.flagged : answer.final[q] = answer.ai[q]
=============================================================================
