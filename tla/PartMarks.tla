------------------------------ MODULE PartMarks ------------------------------
(***************************************************************************)
(* Marks inside one question: its parts, with "answer N of these parts"    *)
(* (app/services/question_parts.py), and the share of every course outcome *)
(* in them (app/services/manual_marks.py, grading_validation.py,           *)
(* review_marks.py).  Marks are integers: units of the smallest step that  *)
(* the marks of the question and of its outcomes are written with.         *)
(***************************************************************************)
EXTENDS Integers, Sequences, FiniteSets

CONSTANTS
  NParts,    \* parts of the question
  MaxMark,   \* what a part may carry
  Forms      \* questions somebody tries to save

VARIABLES
  question,  \* of the rubric: parts (or not), groups, maximum, marks of its outcomes
  row        \* its marking in one answer

vars == <<question, row>>

\* "The same 'answer N of these' groups used between questions, here between parts."
Choice == INSTANCE Marking WITH
  NRows <- NParts, Forms <- {}, Watched <- {}, Optional <- TRUE,
  rubric <- question, answer <- row

Absent == Choice!Absent
Parts == 1 .. NParts

ConstantsOK ==
  /\ NParts \in Nat \ {0, 1}
  /\ MaxMark \in Nat \ {0}
  /\ \A f \in Forms : /\ f.parts \in BOOLEAN
                       /\ f.max \in [Parts -> 1 .. MaxMark]
                       /\ f.groups \subseteq Choice!Groups
                       /\ f.total \in Nat \ {0}
                       /\ f.cos \in Seq(Nat)

Init == question = Absent /\ row = Absent

Total(marks) == Choice!RunningSum(Len(marks), marks)

(* validate_parts                                                          *)
ValidParts(form) ==
  /\ Choice!ValidGroups(form.max, form.groups)
  /\ Choice!CountedMax(form.max, form.groups) = form.total

(* A question without parts has its maximum alone.  The outcomes of a      *)
(* question share the whole of it.                                         *)
SaveQuestion(form) ==
  /\ row = Absent
  /\ form.parts => ValidParts(form)
  /\ form.cos # << >> => Total(form.cos) = form.total
  /\ question' = form
  /\ UNCHANGED row

-----------------------------------------------------------------------------
(* allocate_co_marks                                                       *)

Exact(awarded, i) == (awarded * question.cos[i]) \div Total(question.cos)
Rest(awarded, i) == (awarded * question.cos[i]) % Total(question.cos)

(* The larger rest first, the earlier outcome among equals.                *)
LargerRest(awarded, j, i) ==
  \/ Rest(awarded, j) > Rest(awarded, i)
  \/ Rest(awarded, j) = Rest(awarded, i) /\ j < i

\* An outcome without marks has no share.
Active == {i \in DOMAIN question.cos : question.cos[i] > 0}

Allocated(awarded) ==
  LET left == awarded - Total([i \in DOMAIN question.cos |-> Exact(awarded, i)])
  IN  [i \in DOMAIN question.cos |->
         Exact(awarded, i) +
           (IF /\ i \in Active
               /\ Cardinality({j \in Active : LargerRest(awarded, j, i)}) < left
            THEN 1 ELSE 0)]

-----------------------------------------------------------------------------
Marked(parts, counted, awarded, cos, by) ==
  [parts |-> parts, counted |-> counted, awarded |-> awarded, final |-> awarded,
   cos |-> cos, coFinal |-> cos, by |-> by]

MarkedBy == IF row = Absent THEN "nobody" ELSE row.by

(* mark_parts and _apply_parts: every part within its limits; the mark of  *)
(* the question is the sum of the parts that count.                        *)
GradeParts(marks) ==
  /\ question # Absent /\ question.parts
  /\ MarkedBy \in {"nobody", "parts", "whole"}
  /\ \A p \in Parts : marks[p] \in 0 .. question.max[p]
  /\ LET counted == Choice!Reselected(marks)
         awarded == Choice!CountedSum(counted, marks)
     IN  row' = Marked(marks, counted, awarded, Allocated(awarded), "parts")
  /\ UNCHANGED question

Within(cos) ==
  DOMAIN cos = DOMAIN question.cos /\ \A i \in DOMAIN cos : cos[i] <= question.cos[i]

(* Without parts the AI states the outcomes' marks itself: each within its *)
(* own, all together the mark of the question.                             *)
GradeWhole(awarded, cos) ==
  /\ question # Absent /\ ~question.parts
  /\ MarkedBy \in {"nobody", "parts", "whole"}
  /\ awarded <= question.total
  /\ Within(cos)
  /\ cos # << >> => Total(cos) = awarded
  /\ row' = Marked(<< >>, {}, awarded, cos, "whole")
  /\ UNCHANGED question

(* prepare_manual_marks: the mark of the question alone, with parts or     *)
(* without; its outcomes get their shares of it.                           *)
EnterManually(awarded) ==
  /\ question # Absent
  /\ MarkedBy \in {"nobody", "manual"}
  /\ awarded <= question.total
  /\ row' = Marked(<< >>, {}, awarded, Allocated(awarded), "manual")
  /\ UNCHANGED question

OutcomesMatch(final, coFinal) == coFinal # << >> => Total(coFinal) = final

(* validate_review_marks: the AI's marks and those of the parts stay, the  *)
(* adjusted marks of question and outcomes keep to their limits and agree. *)
Review(final, coFinal) ==
  /\ row # Absent
  /\ final <= question.total
  /\ Within(coFinal)
  /\ OutcomesMatch(final, coFinal)
  /\ row' = [row EXCEPT !.final = final, !.coFinal = coFinal,
                        !.by = IF @ = "manual" THEN @ ELSE "faculty"]
  /\ UNCHANGED question

Marks == IF question = Absent THEN {} ELSE 0 .. question.total
OutcomeMarks ==
  IF question = Absent THEN {} ELSE [DOMAIN question.cos -> Marks]

Next ==
  \/ \E form \in Forms : SaveQuestion(form)
  \/ \E marks \in [Parts -> 0 .. MaxMark] : GradeParts(marks)
  \/ \E awarded \in Marks, cos \in OutcomeMarks : GradeWhole(awarded, cos)
  \/ \E awarded \in Marks : EnterManually(awarded)
  \/ \E final \in Marks, coFinal \in OutcomeMarks : Review(final, coFinal)

Spec == Init /\ [][Next]_vars

-----------------------------------------------------------------------------
TypeOK ==
  /\ question \in Forms \cup {Absent}
  /\ row # Absent =>
       /\ row.awarded \in 0 .. question.total /\ row.final \in 0 .. question.total
       /\ row.cos \in [DOMAIN question.cos -> Nat]
       /\ row.coFinal \in [DOMAIN question.cos -> Nat]
       /\ row.counted \subseteq Parts
       /\ row.by \in {"parts", "whole", "manual", "faculty"}

(* What the AI gave the parts makes the mark of the question: the best any *)
(* choice of parts gives, and still so after reviews of the question.      *)
BestPartsCount ==
  row # Absent /\ row.parts # << >> =>
    /\ row.counted \in Choice!FullChoices
    /\ row.awarded = Choice!CountedSum(row.counted, row.parts)
    /\ \A S \in Choice!FullChoices : Choice!CountedSum(S, row.parts) <= row.awarded

(* Whichever way the marks came about, those of the outcomes are theirs:   *)
(* they add up to the question's, before and after a review, and none is   *)
(* over what the outcome carries.                                          *)
OutcomesAddUp ==
  row # Absent /\ question.cos # << >> =>
    /\ Total(row.cos) = row.awarded /\ Total(row.coFinal) = row.final
    /\ \A i \in DOMAIN question.cos :
         row.cos[i] <= question.cos[i] /\ row.coFinal[i] <= question.cos[i]

(* Shares that are computed are within one unit of the exact ones, and no  *)
(* outcome that carries more gets less.                                    *)
SharesAreFair ==
  row # Absent /\ row.by \in {"parts", "manual"} =>
    \A i, j \in DOMAIN question.cos :
      /\ row.cos[i] - Exact(row.awarded, i) \in {0, 1}
      /\ question.cos[i] > question.cos[j] => row.cos[i] >= row.cos[j]
=============================================================================
