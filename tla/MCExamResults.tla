--------------------------- MODULE MCExamResults ---------------------------
(* Small instances of one exam: which processes meet on it. *)
EXTENDS ExamResults, TLC

CONSTANTS s1, s2, n1, e1, e2, p1, p2, m1, m2, u1, u2, x1, x2

\* Evaluations, like reviews, are interchangeable.
ProcessSymmetry == Permutations({e1, e2}) \cup Permutations({p1, p2})
=============================================================================
