---------------------------- MODULE CoAttainment ----------------------------
(***************************************************************************)
(* The CO-PO attainment report of a subject (app/services/co_excel.py):    *)
(* exams grouped into categories, one sheet for each, the attainment level *)
(* of every course outcome on a sheet, the weighted final level and the    *)
(* attainment of the programme outcomes.  The workbook holds formulas, and *)
(* the code keeps a numeric mirror of them; both are modelled.             *)
(* Percentages are in hundredths; a final level is in hundredths too.      *)
(***************************************************************************)
EXTENDS Integers, FiniteSets, FiniteSetsExt, Sequences

CONSTANTS
  Exams, Cos, Pos,
  Keys,        \* row keys: file names of answers, one or more for a student
  StudentOf,   \* student of each key
  TypeOf,      \* exam_type of each exam: a known one, or one of its own
  Known,       \* exam types with a category of their own name
  Title,       \* name of the sheet of each category, cut to 31 characters
  Weight,      \* weightage of each exam
  CoMax,       \* maximum of each outcome in each exam, 0 if not examined
  Forms,       \* targets somebody tries to save, each a sequence of bands
  Goal,        \* coAttainmentTarget, in hundredths
  Matrix,      \* strength of each outcome for each programme outcome
  MaxPending   \* bound on answers that wait for a review at one time

\* What the constants of an instance satisfy.
ConstantsOK ==
  /\ Weight \in [Exams -> Nat]
  /\ CoMax \in [Exams -> [Cos -> Nat]]
  /\ Matrix \in [Cos -> [Pos -> Nat]]
  /\ DOMAIN StudentOf = Keys /\ DOMAIN TypeOf = Exams
  /\ \A f \in Forms : \A i \in DOMAIN f :
       f[i] \in [min : Int, max : Int, compare : Int, level : Int]
  /\ MaxPending \in Nat

VARIABLES
  answers,   \* marks of each exam: from the keys that have an answer
  pending,   \* answers whose review is pending: pairs of exam and key
  targets,   \* targets of the programme, <<>> before they are saved
  report     \* numbers of the last report, until something changes, or Absent

vars == <<answers, pending, targets, report>>

Absent == [none |-> TRUE]

(* Marks of one answer: one number for each outcome of the exam.           *)
MarksOf(e) == {m \in [Cos -> 0 .. Max({CoMax[e][co] : co \in Cos})] :
                 \A co \in Cos : m[co] <= CoMax[e][co]}

-----------------------------------------------------------------------------
(* Arithmetic.                                                             *)

RoundDiv(a, b) ==
  LET down == a \div b
      rest == 2 * (a % b)
  IN  IF rest > b \/ (rest = b /\ down % 2 = 1) THEN down + 1 ELSE down

Total(S, f(_)) == MapThenSumSet(f, S)

(* validate_targets.                                                       *)
ValidTargets(form) ==
  /\ Len(form) = 3
  /\ \A i \in DOMAIN form : /\ form[i].min \in 0 .. 100
                            /\ form[i].max \in 0 .. 100
                            /\ form[i].min <= form[i].max

(* level_for_pct, the numeric mirror: the first band that contains the     *)
(* percentage, else the level of the lowest band.                          *)
LevelForPct(p, bands) ==
  LET within == {i \in DOMAIN bands : 100 * bands[i].min <= p /\ p <= 100 * bands[i].max}
      lowest == CHOOSE i \in DOMAIN bands :
        \A j \in DOMAIN bands : bands[i].min < bands[j].min
                                \/ (bands[i].min = bands[j].min /\ i <= j)
  IN  IF bands = <<>> THEN 0
      ELSE IF within = {} THEN bands[lowest].level
      ELSE bands[Min(within)].level

(* _level_if_formula, the cell: the nested IF tests the highest minimum    *)
(* first and falls back to the lowest band.                                *)
LevelFormula(p, bands) ==
  LET reached == {i \in DOMAIN bands : 100 * bands[i].min <= p}
      highest == CHOOSE i \in reached :
        \A j \in reached : bands[i].min > bands[j].min
                           \/ (bands[i].min = bands[j].min /\ i >= j)
      lowest == CHOOSE i \in DOMAIN bands :
        \A j \in DOMAIN bands : bands[i].min < bands[j].min
                                \/ (bands[i].min = bands[j].min /\ i <= j)
  IN  IF bands = <<>> THEN 0
      ELSE IF reached = {} THEN bands[lowest].level
      ELSE bands[highest].level

-----------------------------------------------------------------------------
(* The sheet of one category; a is the answers of the exams.               *)

(* exam_category: a known type shares its category, any other exam is a    *)
(* category of its own.                                                    *)
CategoryOf(e) == IF TypeOf[e] \in Known THEN TypeOf[e] ELSE e
Categories == {CategoryOf(e) : e \in Exams}
Members(c) == {e \in Exams : CategoryOf(e) = c}
CategoryWeight(c) == Total(Members(c), LAMBDA e : Weight[e])

(* Only an exam with answers has columns.                                  *)
Columns(a, c, co) == {e \in Members(c) : DOMAIN a[e] # {} /\ CoMax[e][co] > 0}
CoTotal(a, c, co) == Total(Columns(a, c, co), LAMBDA e : CoMax[e][co])

(* The rows: every key that has an answer in some exam of the category.    *)
Rows(a, c) == UNION {DOMAIN a[e] : e \in Members(c)}

(* What one row obtained; an exam without an answer of this key counts 0.  *)
Obtained(a, c, co, k) ==
  Total({e \in Columns(a, c, co) : k \in DOMAIN a[e]}, LAMBDA e : a[e][k][co])

Percent_OfAnswered(a, c, co, k) ==
  LET mine == {e \in Columns(a, c, co) : k \in DOMAIN a[e] /\ a[e][k][co] > 0}
  IN  IF mine = {} THEN 0
      ELSE RoundDiv(10000 * Total(mine, LAMBDA e : a[e][k][co]),
                    Total(mine, LAMBDA e : CoMax[e][co]))

Percent(a, c, co, k) == RoundDiv(10000 * Obtained(a, c, co, k), CoTotal(a, c, co))

Attended(a, c, co) == IF CoTotal(a, c, co) = 0 THEN 0 ELSE Cardinality(Rows(a, c))

Scoring(a, c, co) ==
  Cardinality({k \in Rows(a, c) : targets # <<>>
                                 /\ Percent(a, c, co, k) >= 100 * targets[1].compare})

Achievement(a, c, co) == RoundDiv(10000 * Scoring(a, c, co), Attended(a, c, co))

(* Level cells; N/A counts 0 in the final sheet.                           *)
LevelCell(a, c, co) ==
  IF Attended(a, c, co) = 0 THEN 0 ELSE LevelFormula(Achievement(a, c, co), targets)

LevelMirror(a, c, co) ==
  IF Attended(a, c, co) = 0 THEN 0 ELSE LevelForPct(Achievement(a, c, co), targets)

-----------------------------------------------------------------------------
(* The final sheets.                                                       *)

(* A formula names a sheet by its title.  When two categories have the     *)
(* same title, the library renames the later sheet, and the name means the *)
(* first one; order is the order of the sheets.                            *)
Sheet(c, order) ==
  LET same == {i \in DOMAIN order : Title[order[i]] = Title[c]}
  IN  order[Min(same)]

(* Any order: known categories come first, the rest by weight and name.    *)
Orders == {o \in [1 .. Cardinality(Categories) -> Categories] :
             \A i, j \in DOMAIN o : i # j => o[i] # o[j]}

Levels(a) == [c \in Categories |-> [co \in Cos |-> LevelCell(a, c, co)]]

Final(levels, order) ==
  [co \in Cos |->
     Total(Categories, LAMBDA c : levels[Sheet(c, order)][co] * CategoryWeight(c))]

FinalMirror(a) ==
  [co \in Cos |->
     Total(Categories, LAMBDA c : LevelMirror(a, c, co) * CategoryWeight(c))]

Attained(final) == {co \in Cos : final[co] >= Goal}

PoSum(S, po) == Total(S, LAMBDA co : Matrix[co][po])

(* SUMIF / SUM, without IFERROR: a programme outcome without strengths is  *)
(* an error cell, -1 here.                                                 *)
PoPercent(final) ==
  [po \in Pos |->
     IF PoSum(Cos, po) = 0 THEN -1
     ELSE RoundDiv(10000 * PoSum(Attained(final), po), PoSum(Cos, po))]

-----------------------------------------------------------------------------
TypeOK ==
  /\ \A e \in Exams : /\ DOMAIN answers[e] \subseteq Keys
                      /\ \A k \in DOMAIN answers[e] : answers[e][k] \in MarksOf(e)
  /\ pending \subseteq Exams \X Keys /\ \A p \in pending : p[2] \in DOMAIN answers[p[1]]
  /\ targets = <<>> \/ (targets \in Forms /\ ValidTargets(targets))

Init ==
  /\ answers = [e \in Exams |-> <<>>]
  /\ pending = {}
  /\ targets = <<>>
  /\ report = Absent

(* A student has one answer in an exam, whatever its key.                  *)
SaveAnswer(e, k) ==
  /\ \A l \in DOMAIN answers[e] : StudentOf[l] # StudentOf[k]
  /\ \E m \in MarksOf(e) :
       answers' = [answers EXCEPT ![e] =
         [l \in DOMAIN @ \cup {k} |-> IF l = k THEN m ELSE @[l]]]
  /\ report' = Absent
  /\ UNCHANGED <<pending, targets>>

(* A review or a new evaluation changes the marks of one outcome.          *)
ChangeMarks(e, k) ==
  /\ k \in DOMAIN answers[e]
  /\ \E co \in Cos : \E v \in 0 .. CoMax[e][co] :
       answers' = [answers EXCEPT ![e][k][co] = v]
  /\ report' = Absent
  /\ UNCHANGED <<pending, targets>>

FlagAnswer(e, k) ==
  /\ k \in DOMAIN answers[e] /\ Cardinality(pending) < MaxPending
  /\ pending' = pending \cup {<<e, k>>}
  /\ report' = Absent
  /\ UNCHANGED <<answers, targets>>

ResolveAnswer(e, k) ==
  /\ <<e, k>> \in pending
  /\ pending' = pending \ {<<e, k>>}
  /\ report' = Absent
  /\ UNCHANGED <<answers, targets>>

(* update_programme_po.                                                    *)
SaveTargets ==
  /\ \E form \in Forms : ValidTargets(form) /\ targets' = form
  /\ report' = Absent
  /\ UNCHANGED <<answers, pending>>

(* download_co_detailed_excel: refused with a review pending or without    *)
(* any answer.                                                             *)
Export ==
  /\ pending = {}
  /\ \E e \in Exams : DOMAIN answers[e] # {}
  /\ \E order \in Orders :
       LET levels == Levels(answers)
           final == Final(levels, order)
       IN  report' = [used |-> [c \in Categories |-> levels[Sheet(c, order)]],
                      final |-> final, mirror |-> FinalMirror(answers),
                      po |-> PoPercent(final)]
  /\ UNCHANGED <<answers, pending, targets>>

Next ==
  \/ \E e \in Exams, k \in Keys :
       SaveAnswer(e, k) \/ ChangeMarks(e, k) \/ FlagAnswer(e, k) \/ ResolveAnswer(e, k)
  \/ SaveTargets
  \/ Export

Spec == Init /\ [][Next]_vars
-----------------------------------------------------------------------------
(* Raising a mark never lowers the final level of an outcome nor the       *)
(* percentage of a programme outcome: the chain from marks to percentages, *)
(* to shares of students, to bands, to weighted levels and verdicts only   *)
(* goes up, for targets whose levels rise with their minimum.              *)
Rising(bands) ==
  \A i, j \in DOMAIN bands : bands[i].min < bands[j].min => bands[i].level <= bands[j].level

NotLower(up) ==
  LET final == Final(Levels(up), CHOOSE order \in Orders : TRUE)
      po == PoPercent(final)
  IN  /\ \A co \in Cos : final[co] >= report.final[co]
      /\ \A p \in Pos : po[p] >= report.po[p]

RaisingNeverLowers ==
  (report # Absent /\ Rising(targets)) =>
    \A e \in Exams, co \in Cos : \A k \in DOMAIN answers[e] :
      answers[e][k][co] < CoMax[e][co] =>
        NotLower([answers EXCEPT ![e][k][co] = @ + 1])

(* The share of students lies in exactly one band, or below all of them.   *)
Placed(p, bands) ==
  LET within == {i \in DOMAIN bands : 100 * bands[i].min <= p /\ p <= 100 * bands[i].max}
  IN  \/ Cardinality(within) = 1
      \/ \A i \in DOMAIN bands : p < 100 * bands[i].min

(* The numbers the code keeps are those of the workbook, unless a share    *)
(* lies between two bands, in two of them or above all.                    *)
MirrorAgrees ==
  (/\ report # Absent
   /\ \A c \in Categories, co \in Cos :
        Attended(answers, c, co) > 0 => Placed(Achievement(answers, c, co), targets))
     => report.final = report.mirror

-----------------------------------------------------------------------------
\* What the documentation says beyond this and the code does not keep: the model
\* has behaviours against it (README, "Divergences").

(* _level_if_formula builds the "equivalent of level_for_pct()": the       *)
(* numbers the code keeps are those of the workbook.                       *)
NumbersMirrored == report # Absent => report.final = report.mirror

(* The final sheet weighs every category by its own level.                 *)
OwnSheetCounts ==
  report # Absent =>
    \A c \in Categories, co \in Cos : report.used[c][co] = LevelCell(answers, c, co)

(* The tests of a category show each student on one row: "keyed by         *)
(* filename so marks from different blocks line up on the same student     *)
(* row".                                                                   *)
StudentsLineUp ==
  \A c \in Categories : \A k, l \in Rows(answers, c) : StudentOf[k] = StudentOf[l] => k = l
=============================================================================
