--------------------------- MODULE GradeArithmetic ---------------------------
(***************************************************************************)
(* Grades by rank (app/utils/grading_helper.py), grade points and the      *)
(* averages made of them.  A grade is a number, 1 (A+) to 10 (D), and 11   *)
(* for U; grade points are counted in half points, averages in hundredths. *)
(***************************************************************************)
EXTENDS Integers, FiniteSets, FiniteSetsExt, Sequences, SequencesExt

Grades == 1 .. 11
U == 11
Bands == 1 .. 10

(* round(a / b): to the nearest, ties to even.                             *)
RoundDiv(a, b) ==
  LET down == a \div b
      rest == 2 * (a % b)
  IN  IF rest > b \/ (rest = b /\ down % 2 = 1) THEN down + 1 ELSE down

(* GRADE_POINTS, in half points.                                           *)
GradePoint(g) == <<20, 19, 18, 17, 16, 15, 14, 13, 12, 10, 0>>[g]

(* validate_percentage_total: nothing else is asked of a scheme.           *)
ValidTotal(form) == FoldSeq(LAMBDA p, q : p + q, 0, form) = 100

UsedBands(scheme) == {b \in Bands : scheme[b] > 0}

Cutoff(scheme, b) ==
  LET upTo[n \in 0 .. 10] ==
        IF n = 0 THEN 0
        ELSE upTo[n - 1] + (IF scheme[n] > 0 THEN scheme[n] ELSE 0)
  IN  upTo[b]

RankOf_Position(total, x) ==
  LET place == CHOOSE f \in [DOMAIN total -> 1 .. Cardinality(DOMAIN total)] :
        \A y, z \in DOMAIN total :
          (total[y] > total[z] => f[y] < f[z]) /\ (y # z => f[y] # f[z])
  IN  place[x]

RankOf(total, x) == 1 + Cardinality({y \in DOMAIN total : total[y] > total[x]})

Fails(total, max, x) == total[x] * 100 < 30 * max

(* The first band whose cutoff the percentile of the rank is below; the    *)
(* lowest band takes everybody that is left.                               *)
BandOf(scheme, rank, n) ==
  LET used == UsedBands(scheme)
      fits == {b \in used : (rank - 1) * 100 < Cutoff(scheme, b) * n}
  IN  IF fits = {} THEN Max(used) ELSE Min(fits)

(* assign_relative_grades; only for a scheme with a band.                  *)
RelativeGrades(scheme, total, max) ==
  [x \in DOMAIN total |->
     IF Fails(total, max, x) THEN U
     ELSE BandOf(scheme, RankOf(total, x), Cardinality(DOMAIN total))]

-----------------------------------------------------------------------------
(* A TGPA or CGPA: half points over credits, rounded to hundredths; 0      *)
(* without credits.                                                        *)
Average(points, credits) ==
  IF credits = 0 THEN 0 ELSE RoundDiv(50 * points, credits)
=============================================================================
