-------------------------- MODULE TranscriptSheets --------------------------
(***************************************************************************)
(* What stands in academic transcripts: workbooks of marks as they are     *)
(* parsed and graded (app/utils/transcript_excel_helper.py), semesters     *)
(* generated from results (transcript_generation_helper.py), the           *)
(* cumulative values a publication repairs (transcript_commit.py), and the *)
(* exported workbook and the certificate (app/api/routers/transcripts.py). *)
(* Who publishes when, and what is out of date, is in Transcripts.         *)
(*                                                                         *)
(* Names that differ in case only are one name.  Credits are whole         *)
(* numbers; how many rows and columns a workbook may have is left out.     *)
(***************************************************************************)
EXTENDS GradeArithmetic

CONSTANTS
  Students,        \* students of the batch
  Workbooks,       \* workbooks somebody imports: sequences of sheets
  Catalogue,       \* subjects of each semester, with their credits
  Results,         \* percentages a student may have in a subject
  Schemes,         \* grading schemes of the institute
  TotalSemesters,  \* total_semesters of the batch
  MaxPublished,    \* bound on the publications
  Empty            \* an empty cell

(* The rows of a sheet by what their first cells hold.  A heading without  *)
(* number of a semester, a note, a title are lines without credits.        *)
Label(m) == [kind |-> "label", semester |-> m]
Header(ids) == [kind |-> "header", ids |-> ids]
Line(subject, credits, cells) ==
  [kind |-> "line", subject |-> subject, credits |-> credits, cells |-> cells]
Blank == [kind |-> "blank"]

\* What the constants of an instance satisfy.
ConstantsOK ==
  /\ \A w \in Workbooks : \A s \in DOMAIN w : \A i \in DOMAIN w[s] :
       w[s][i].kind \in {"label", "header", "line", "blank"}
  /\ \A m \in DOMAIN Catalogue : \A i \in DOMAIN Catalogue[m] : Catalogue[m][i].credits \in Nat
  /\ Results \subseteq 0 .. 100
  /\ \A f \in Schemes : f \in [Grades -> 0 .. 100] /\ ValidTotal(f)
  /\ TotalSemesters \in Nat /\ MaxPublished \in Nat
  /\ Empty \notin Students \cup Int

VARIABLES
  scheme,     \* relativeGradings of the institute
  transcript, \* academic_transcripts of the batch
  computed,   \* the rows of the last publication as their publisher computed them
  workbook,   \* the workbook imported last (history variable)
  published   \* publications so far

vars == <<scheme, transcript, computed, workbook, published>>

-----------------------------------------------------------------------------
(* parse_transcript_workbook: one pass over the rows of all sheets.        *)

Start == [at |-> "outside", blocks |-> <<>>, semester |-> 0, ids |-> <<>>, lines |-> <<>>]
Refuse(s) == [s EXCEPT !.at = "refused"]

Begin(s, m) ==
  IF s.at = "refused" \/ \E i \in DOMAIN s.blocks : s.blocks[i].semester = m
  THEN Refuse(s)
  ELSE [s EXCEPT !.at = "header", !.semester = m, !.lines = <<>>]

(* Empty cells behind the last student are cut off.                        *)
Named(ids) == SubSeq(ids, 1, Max({0} \cup {c \in DOMAIN ids : ids[c] # Empty}))

ReadHeader(s, row) ==
  IF /\ row.kind = "header"
     /\ Named(row.ids) # <<>> /\ Empty \notin Range(Named(row.ids))
     /\ IsInjective(Named(row.ids))
  THEN [s EXCEPT !.at = "lines", !.ids = Named(row.ids)]
  ELSE Refuse(s)

ReadLine(s, row) ==
  IF /\ row.kind = "line"
     /\ \A i \in DOMAIN s.lines : s.lines[i].subject # row.subject
     /\ row.credits # Empty /\ row.credits > 0
     /\ \A c \in DOMAIN s.ids : c \in DOMAIN row.cells /\ row.cells[c] \in 0 .. 100
  THEN [s EXCEPT !.lines = Append(@,
          [subject |-> row.subject, credits |-> row.credits,
           marks |-> SubSeq(row.cells, 1, Len(s.ids))])]
  ELSE Refuse(s)

Close(s) ==
  IF s.lines = <<>> THEN Refuse(s)
  ELSE [s EXCEPT !.at = "outside",
         !.blocks = Append(@, [semester |-> s.semester, ids |-> s.ids, lines |-> s.lines])]

ReadRow(s, row) ==
  CASE s.at = "outside" /\ row.kind = "label" -> Begin(s, row.semester)
    [] s.at = "header" -> ReadHeader(s, row)
    [] s.at = "lines" /\ row.kind = "label" -> Begin(Close(s), row.semester)
    [] s.at = "lines" /\ row.kind = "blank" -> Close(s)
    [] s.at = "lines" /\ row.kind \in {"header", "line"} -> ReadLine(s, row)
    [] OTHER -> s

ReadSheet(s, sheet) ==
  LET end == FoldLeft(ReadRow, s, sheet) IN
  CASE end.at = "header" -> Refuse(end)
    [] end.at = "lines" -> Close(end)
    [] OTHER -> end

(* Mutant: semesters in the order of the sheets.                           *)
BySemester_AsRead(blocks) == blocks

BySemester(blocks) == SortSeq(blocks, LAMBDA a, b : a.semester < b.semester)

(* The semesters of a workbook, or none when it is refused.                *)
Parsed(w) ==
  LET s == FoldLeft(ReadSheet, Start, w) IN
  IF s.at = "refused" \/ Cardinality({s.blocks[i].ids : i \in DOMAIN s.blocks}) # 1
  THEN <<>>
  ELSE BySemester(s.blocks)

-----------------------------------------------------------------------------
(* Rows of a transcript.                                                   *)

CreditsOf(lines) == MapThenSumSet(LAMBDA i : lines[i].credits, DOMAIN lines)
PointsOf(lines) ==
  MapThenSumSet(LAMBDA i : lines[i].credits * GradePoint(lines[i].grade), DOMAIN lines)

(* Credits and points count those of earlier semesters, too.               *)
Row(x, m, lines, source, credits, points) ==
  [student |-> x, semester |-> m, lines |-> lines, source |-> source,
   credits |-> CreditsOf(lines), points |-> PointsOf(lines),
   tgpa |-> Average(PointsOf(lines), CreditsOf(lines)),
   cgpa |-> Average(points, credits)]

(* The lines of student x, from the marks everybody has in each subject.   *)
Graded(subjects, marks, x) ==
  [i \in DOMAIN subjects |->
     [subject |-> subjects[i].subject, credits |-> subjects[i].credits,
      marks |-> marks[i][x], grade |-> RelativeGrades(scheme, marks[i], 100)[x]]]

(* build_transcript_documents, with a running sum over the semesters.      *)
ImportedRows(semesters) ==
  LET ids == semesters[1].ids
      who == Range(ids)
      column(x) == CHOOSE c \in DOMAIN ids : ids[c] = x
      lines(k, x) ==
        Graded(semesters[k].lines,
               [i \in DOMAIN semesters[k].lines |->
                  [y \in who |-> semesters[k].lines[i].marks[column(y)]]], x)
      upTo(n(_), k) == MapThenSumSet(n, 1 .. k)
  IN  {Row(x, semesters[k].semester, lines(k, x), "import",
           upTo(LAMBDA j : CreditsOf(lines(j, x)), k),
           upTo(LAMBDA j : PointsOf(lines(j, x)), k)) :
         x \in who, k \in DOMAIN semesters}

Sum(n(_), set) == MapThenSumSet(n, set)
RowsOf(x) == {r \in transcript : r.student = x}
UpTo(table, x, m) == {r \in table : r.student = x /\ r.semester <= m}

(* generate_transcript_for_semester, when every result is complete.        *)
GeneratedRow(x, m, marks) ==
  LET lines == Graded(Catalogue[m], marks, x)
      prior == UpTo(transcript, x, m - 1)
  IN  Row(x, m, lines, "generated",
          Sum(LAMBDA r : r.credits, prior) + CreditsOf(lines),
          Sum(LAMBDA r : r.points, prior) + PointsOf(lines))

(* commit_transcript_set: the rows of the scope are replaced, and the      *)
(* cumulative values of their students repaired from there on.             *)
Repaired(table, students, from) ==
  {IF r.student \in students /\ r.semester >= from
   THEN [r EXCEPT !.cgpa = Average(Sum(LAMBDA q : q.points, UpTo(table, r.student, r.semester)),
                                   Sum(LAMBDA q : q.credits, UpTo(table, r.student, r.semester)))]
   ELSE r : r \in table}

Publish(fresh, kept, from) ==
  /\ transcript' = Repaired(kept \cup fresh, {r.student : r \in fresh}, from)
  /\ computed' = fresh
  /\ published' = published + 1
  /\ UNCHANGED scheme

-----------------------------------------------------------------------------
Init ==
  /\ scheme \in Schemes
  /\ transcript = {} /\ computed = {}
  /\ workbook = <<>>
  /\ published = 0

(* confirm_transcript_import: the whole batch is replaced.                 *)
Import(w) ==
  /\ published < MaxPublished
  /\ Parsed(w) # <<>>
  /\ Publish(ImportedRows(Parsed(w)), {}, 0)
  /\ workbook' = w

(* confirm_transcript_generation and the refresh: one semester is.         *)
Generate(m) ==
  /\ published < MaxPublished
  /\ \E marks \in [DOMAIN Catalogue[m] -> [Students -> Results]] :
       Publish({GeneratedRow(x, m, marks) : x \in Students},
               {r \in transcript : r.semester # m}, m)
  /\ UNCHANGED workbook

Next == \/ \E w \in Workbooks : Import(w)
        \/ \E m \in DOMAIN Catalogue : Generate(m)

Spec == Init /\ [][Next]_vars

-----------------------------------------------------------------------------
(* What is read from the rows.                                             *)

FinalRow(x) == CHOOSE r \in RowsOf(x) : \A q \in RowsOf(x) : q.semester <= r.semester

(* export_transcript_excel: a line of the summary, and the subjects of a   *)
(* semester as columns, in which each student's are found by name.         *)
Summary(x) ==
  [cgpa |-> FinalRow(x).cgpa,
   credits |-> Sum(LAMBDA r : r.credits, RowsOf(x)),
   points |-> Sum(LAMBDA r : r.points, RowsOf(x))]

Columns(m) ==
  UNION {{r.lines[i].subject : i \in DOMAIN r.lines} : r \in {q \in transcript : q.semester = m}}

Cell(r, subject) == {r.lines[i] : i \in {i \in DOMAIN r.lines : r.lines[i].subject = subject}}

(* download_completion_certificate_pdf.                                    *)
Certified(x) ==
  /\ RowsOf(x) # {} /\ TotalSemesters > 0
  /\ Cardinality(RowsOf(x)) >= TotalSemesters

-----------------------------------------------------------------------------
(* Types; a student has one row for a semester.                            *)
TypeOK ==
  /\ scheme \in Schemes
  /\ \A r \in transcript : /\ r.student \in Students /\ r.source \in {"import", "generated"}
                           /\ r.semester \in Nat /\ {r.tgpa, r.cgpa} \subseteq 0 .. 1000
                           /\ \A i \in DOMAIN r.lines : r.lines[i].grade \in Grades
  /\ \A r, q \in transcript : r.student = q.student /\ r.semester = q.semester => r = q
  /\ workbook \in Workbooks \cup {<<>>}
  /\ published \in 0 .. MaxPublished

(* The import, the generation and the publication calculate a CGPA each in *)
(* its own way, and agree; every average is the one of the lines beside    *)
(* it, whatever was imported or generated again, in whichever order.       *)
CalculationsAgree ==
  /\ computed \subseteq transcript
  /\ \A r \in transcript :
       LET lines == {<<q, i>> : q \in UpTo(transcript, r.student, r.semester), i \in 1 .. 5}
           all == {qi \in lines : qi[2] \in DOMAIN qi[1].lines}
       IN  r.cgpa = Average(
             Sum(LAMBDA qi : qi[1].lines[qi[2]].credits
                             * GradePoint(qi[1].lines[qi[2]].grade), all),
             Sum(LAMBDA qi : qi[1].lines[qi[2]].credits, all))

(* Each line of an imported transcript is a row of the workbook: of the    *)
(* block below the semester's label, without a gap, with the mark in the   *)
(* student's column; and every label and column has its transcript.        *)
Below(sheet, i) ==
  {j \in i + 2 .. Len(sheet) : \A k \in i + 2 .. j : sheet[k].kind = "line"}

AsPrinted(sheet, i, x) ==
  LET c == CHOOSE c \in DOMAIN sheet[i + 1].ids : sheet[i + 1].ids[c] = x
  IN  {<<sheet[j].subject, sheet[j].credits, sheet[j].cells[c]>> : j \in Below(sheet, i)}

CellsLandInRows ==
  \A s \in DOMAIN workbook : \A i \in DOMAIN workbook[s] :
    workbook[s][i].kind = "label" =>
      \A x \in Range(workbook[s][i + 1].ids) \ {Empty} :
        \E r \in transcript :
          /\ r.student = x /\ r.semester = workbook[s][i].semester
          /\ r.source = "import" =>
               {<<r.lines[k].subject, r.lines[k].credits, r.lines[k].marks>> :
                  k \in DOMAIN r.lines} = AsPrinted(workbook[s], i, x)

(* Whoever has at least the marks of another in every subject of the       *)
(* semesters so far has at least the averages of the other.                *)
AtLeast(r, q) ==
  /\ DOMAIN r.lines = DOMAIN q.lines
  /\ \A i \in DOMAIN r.lines : r.lines[i].marks >= q.lines[i].marks

BetterMarksBetterAverage ==
  \A r, q \in transcript :
    r.semester = q.semester /\ AtLeast(r, q) =>
      /\ r.tgpa >= q.tgpa
      /\ (\A a \in UpTo(transcript, r.student, r.semester) :
            \E b \in UpTo(transcript, q.student, q.semester) :
              a.semester = b.semester /\ AtLeast(a, b))
         /\ Cardinality(UpTo(transcript, r.student, r.semester))
              = Cardinality(UpTo(transcript, q.student, q.semester))
         => r.cgpa >= q.cgpa

(* The exported sheets add up: the final CGPA is that of the credits and   *)
(* points in the summary, and a student's cells give the total beside them.*)
ExportAddsUp ==
  /\ \A x \in {r.student : r \in transcript} :
       Summary(x).cgpa = Average(Summary(x).points, Summary(x).credits)
  /\ \A r \in transcript :
       Sum(LAMBDA l : l[2].credits,
           {nl \in Columns(r.semester) \X Range(r.lines) : nl[2] \in Cell(r, nl[1])}) = r.credits

(* A certificate states that every semester of the programme was passed    *)
(* through.  (As long as no workbook has a semester beyond the programme;  *)
(* see README, "Divergences".)                                             *)
CertificateCoversProgramme ==
  \A x \in Students :
    Certified(x) /\ (\A r \in RowsOf(x) : r.semester \in 1 .. TotalSemesters) =>
      \A m \in 1 .. TotalSemesters : \E r \in RowsOf(x) : r.semester = m

-----------------------------------------------------------------------------
\* What the documentation says beyond this and the code does not keep: the model
\* has behaviours against it (README, "Divergences").

(* "A transcript row exists for every semester of the programme"           *)
(* (transcripts.py:664): the rows are counted, whatever their semester.    *)
CertifiedIsComplete ==
  \A x \in Students : Certified(x) =>
    \A m \in 1 .. TotalSemesters : \E r \in RowsOf(x) : r.semester = m
=============================================================================
