------------------------------- MODULE Results -------------------------------
(* From saved answers to what is published about them: uploads and their     *)
(* receipts, subject and combined results, the attainment of course outcomes *)
(* and transcripts, side by side.  These components share no state in the    *)
(* model, so a behaviour is one of them, the scenario.  The constants have   *)
(* their values in Results.cfg; those that are functions are defined at the  *)
(* end.                                                                      *)
EXTENDS Integers, Sequences, TLC

CONSTANTS Files, Students, Names, StudentOf, ManualName, FileName, Requests,
          Old, OldName,                                              \* AnswerUploads
          Graduates, Subjects, TotalSemesters, SemesterOf, Publishers,
          MaxChanges,                                                \* Transcripts
          Class, Courses, Assessments, CourseOf, Share, CreditsFor,
          Percentages, FirstAnswers, Offered, Imports, Staff,
          MaxCorrections,                                            \* SubjectResults
          None, Inactive

CONSTANTS x1, x2, x3, ma, ph,       \* students and subjects of the others,
          quiz, finals, lab,        \* exams,
          n1, n2, m1, m2,           \* scripts and manual entries,
          co1, co2, po1, po2, classTest, endType

VARIABLES scenario,
          exam, store, receipt, stored, onAnswer, deleted,            \* AnswerUploads
          answers, live, schemes, imported, request, combine,
          published, changed,                                        \* SubjectResults
          scored, pending, targets, report,                          \* CoAttainment
          marks, changes, source, writes, deletion, rows, task,      \* Transcripts
          scheme, transcript, computed, workbook, published_sets     \* TranscriptSheets

-----------------------------------------------------------------------------
Uploads == INSTANCE AnswerUploads WITH answers <- stored, request <- onAnswer

Subject == INSTANCE SubjectResults WITH
  Students <- Class, Subjects <- Courses, Exams <- Assessments, SubjectOf <- CourseOf,
  Weight <- Share, Credits <- CreditsFor, Marks <- Percentages, Starts <- FirstAnswers,
  Forms <- Offered, Sheets <- Imports, Requests <- Staff, MaxChanges <- MaxCorrections,
  changes <- changed

Scheme(p, t, d, u) == <<p, t, 0, 0, 0, 0, 0, 0, 0, d, u>>

ExamsOf == {quiz, finals, lab}

Band(min, max, level) == [min |-> min, max |-> max, compare |-> 70, level |-> level]
\* As the reference workbook has them, three with gaps between them, two bands.
Targets == { <<Band(70, 100, 3), Band(60, 70, 2), Band(40, 60, 1)>>,
             <<Band(60, 100, 3), Band(30, 45, 2), Band(0, 20, 1)>>,
             <<Band(50, 100, 2), Band(0, 50, 1)>> }

\* Two class tests in one category and a final exam of a type of its own.
Attainment == INSTANCE CoAttainment WITH
  Exams <- ExamsOf, Cos <- {co1, co2}, Pos <- {po1, po2}, Keys <- {n1, n2},
  StudentOf <- [k \in {n1, n2} |-> IF k = n1 THEN x1 ELSE x2],
  TypeOf <- [e \in ExamsOf |-> IF e = finals THEN endType ELSE classTest],
  Known <- {classTest}, Title <- [c \in {classTest, finals} |-> c],
  Weight <- [e \in ExamsOf |-> IF e = finals THEN 60 ELSE 20],
  CoMax <- [e \in ExamsOf |-> [co \in {co1, co2} |->
              IF e = lab THEN IF co = co1 THEN 2 ELSE 0
              ELSE IF e = quiz THEN IF co = co1 THEN 1 ELSE 0
              ELSE 1]],
  Forms <- Targets, Goal <- 180,
  Matrix <- [co \in {co1, co2} |-> [po \in {po1, po2} |->
               IF po = po2 THEN 0 ELSE IF co = co1 THEN 3 ELSE 1]],
  MaxPending <- 1, answers <- scored

Transcript == INSTANCE Transcripts WITH Students <- Graduates

\* Every sheet of at most four rows, and sheets put together from blocks that
\* are as they should be or nearly so.
Label(m) == [kind |-> "label", semester |-> m]
Header(ids) == [kind |-> "header", ids |-> ids]
Line(s, credits, cells) == [kind |-> "line", subject |-> s, credits |-> credits, cells |-> cells]
Blank == [kind |-> "blank"]
Both == Header(<<x1, x2>>)
Rows == {Label(1), Label(2), Both, Line(ma, 4, <<20, 80>>), Line(ph, 3, <<80, 20>>), Blank}

Blocks == {
  <<Label(2), Both, Line(ma, 4, <<20, 80>>), Line(ph, 3, <<80, 80>>)>>,
  <<Label(1), Both, Line(ph, 3, <<20, 80>>), Blank, Line(ma, 4, <<20, 80>>)>>,
  <<Label(1), Header(<<x1, x2, None>>), Line(ph, 2, <<80, 20, 50>>)>>,
  <<Label(1), Header(<<x2, x1>>), Line(ph, 2, <<80, 20>>)>>,
  <<Label(1), Header(<<x1, None, x2>>), Line(ph, 2, <<80, 20, 50>>)>>,
  <<Label(1), Header(<<x1, x1>>), Line(ph, 2, <<80, 20>>)>>,
  <<Label(1), Both, Line(ph, 0, <<80, 20>>)>>,
  <<Label(3), Both, Line(ph, 2, <<80, 101>>)>>,
  <<Label(3), Both, Line(ph, 2, <<80, None>>)>>,
  <<Label(3), Both, Line(ma, 2, <<20, 20>>), Line(ma, 2, <<20, 20>>)>>,
  <<Label(3), Both, Line(ma, 2, <<20, 20>>), Line(ph, 2, <<80, 40>>)>> }

Sheets == INSTANCE TranscriptSheets WITH
  Students <- {x1, x2},
  Workbooks <- {<<sheet>> : sheet \in UNION {[1 .. n -> Rows] : n \in 2 .. 4}}
                 \cup {<<a \o b>> : a, b \in Blocks} \cup {<<a, b>> : a, b \in Blocks},
  Catalogue <- << <<[subject |-> ma, credits |-> 4], [subject |-> ph, credits |-> 3]>>,
                  <<[subject |-> quiz, credits |-> 2]>> >>,
  Results <- {20, 80}, Schemes <- {Scheme(40, 30, 30, 0)}, TotalSemesters <- 2,
  MaxPublished <- 2, Empty <- None, published <- published_sets

ASSUME UploadsConstants == Uploads!ConstantsOK
ASSUME TranscriptConstants == Transcript!ConstantsOK
ASSUME SubjectConstants == Subject!ConstantsOK
ASSUME Attainment!ConstantsOK /\ Sheets!ConstantsOK

-----------------------------------------------------------------------------
\* One component moves, the others are off.

ofUploads == <<exam, store, receipt, stored, onAnswer, deleted>>
ofSubject == <<answers, live, schemes, imported, request, combine, published, changed>>
ofAttainment == <<scored, pending, targets, report>>
ofTranscript == <<marks, changes, source, writes, deletion, rows, task>>
ofSheets == <<scheme, transcript, computed, workbook, published_sets>>
vars == <<scenario, ofUploads, ofSubject, ofAttainment, ofTranscript, ofSheets>>

NoUploads == /\ exam = Inactive /\ store = Inactive /\ receipt = Inactive
             /\ stored = Inactive /\ onAnswer = Inactive /\ deleted = Inactive
NoSubject == /\ answers = Inactive /\ live = Inactive /\ schemes = Inactive /\ imported = Inactive
             /\ request = Inactive /\ combine = Inactive /\ published = Inactive /\ changed = Inactive
NoAttainment == scored = Inactive /\ pending = Inactive /\ targets = Inactive /\ report = Inactive
NoTranscript == /\ marks = Inactive /\ changes = Inactive /\ source = Inactive /\ writes = Inactive
                /\ deletion = Inactive /\ rows = Inactive /\ task = Inactive
NoSheets == /\ scheme = Inactive /\ transcript = Inactive /\ computed = Inactive
            /\ workbook = Inactive /\ published_sets = Inactive

Init ==
  /\ scenario \in {"uploads", "subject", "attainment", "transcripts", "sheets"}
  /\ IF scenario = "uploads" THEN Uploads!Init ELSE NoUploads
  /\ IF scenario = "subject" THEN Subject!Init ELSE NoSubject
  /\ IF scenario = "attainment" THEN Attainment!Init ELSE NoAttainment
  /\ IF scenario = "transcripts" THEN Transcript!Init ELSE NoTranscript
  /\ IF scenario = "sheets" THEN Sheets!Init ELSE NoSheets

Next ==
  /\ UNCHANGED scenario
  /\ IF scenario = "uploads" THEN Uploads!Next ELSE UNCHANGED ofUploads
  /\ IF scenario = "subject" THEN Subject!Next ELSE UNCHANGED ofSubject
  /\ IF scenario = "attainment" THEN Attainment!Next ELSE UNCHANGED ofAttainment
  /\ IF scenario = "transcripts" THEN Transcript!Next ELSE UNCHANGED ofTranscript
  /\ IF scenario = "sheets" THEN Sheets!Next ELSE UNCHANGED ofSheets

Spec == Init /\ [][Next]_vars

Symmetry == Permutations(Publishers) \cup Permutations(Graduates)

-----------------------------------------------------------------------------
\* Types of every component.
TypeOK ==
  /\ scenario = "uploads" => Uploads!TypeOK
  /\ scenario = "subject" => Subject!TypeOK
  /\ scenario = "attainment" => Attainment!TypeOK
  /\ scenario = "transcripts" => Transcript!TypeOK
  /\ scenario = "sheets" => Sheets!TypeOK

\* However uploads, repeated saves, renames, manual entries and deletions
\* interleave: a student has one answer in the exam, a deleted answer does not
\* come back, the script of an answer is stored, and receipt and answer name
\* each other.
AnswersStay == scenario = "uploads" => Uploads!AnswersStay

\* A combined result that is put together from many reads: whoever has at least
\* the total of another has at least the grade, nothing pending is published,
\* and who passes every subject passes the semester, which is graded again from
\* the sum of the composites.
ResultsFollowMarks ==
  scenario = "subject" =>
    /\ Subject!GradesFollowMarks /\ Subject!PublishedIsComplete
    /\ Subject!WhoPassesAllPasses

\* Raising a mark lowers neither the attainment of an outcome nor that of a
\* programme outcome, and the numbers the code keeps are those of the workbook
\* as long as every share of students has a band of its own.
\* On transcript sheets the lines are those of the imported rows, the ways an
\* average is calculated agree, nobody loses by better marks, the exported
\* sheets add up, and a certificate covers the programme.
SheetsAgree ==
  /\ scenario = "attainment" => Attainment!MirrorAgrees /\ Attainment!RaisingNeverLowers
  /\ scenario = "sheets" =>
       /\ Sheets!CellsLandInRows /\ Sheets!CalculationsAgree
       /\ Sheets!BetterMarksBetterAverage /\ Sheets!ExportAddsUp
       /\ Sheets!CertificateCoversProgramme

\* Whatever changes while transcripts are calculated and published: a transcript
\* that can be read shows the marks as they are, its cumulative value counts the
\* semesters beside it, none follows a semester that is out of date, and a set
\* is replaced whole.
TranscriptsCurrent ==
  scenario = "transcripts" =>
    /\ Transcript!ReadableIsCurrent /\ Transcript!CumulativeIsCurrent
    /\ Transcript!NeverAheadOfStale /\ Transcript!OneSetPerSemester

\* The numbers the code keeps for an attainment report are those of its workbook
\* (co_excel.py:161, "equivalent of level_for_pct()"), whatever the targets.
ReportIsMirrored == scenario = "attainment" => Attainment!NumbersMirrored

-----------------------------------------------------------------------------
(* Values of the constants that are functions *)

\* The first name of a script and that of a manual entry are one student's, the
\* others the other's; both files are uploaded under the first.
OwnerOf == [n \in Names |-> IF n \in {n1, m1} THEN x1 ELSE x2]
ManualNames == [x \in Students |-> IF x = x1 THEN m1 ELSE m2]
FileNames == [f \in Files |-> n1]

\* One subject in each of two semesters.
TaughtIn == [s \in Subjects |-> IF s = ma THEN 1 ELSE 2]

\* A quiz and finals in one subject, a lab in the other.
ExamSubject == [e \in Assessments |-> IF e = lab THEN ph ELSE ma]
ExamShare == [e \in Assessments |-> IF e = quiz THEN 40 ELSE IF e = finals THEN 60 ELSE 100]
SubjectCredits == [s \in Courses |-> IF s = ma THEN 4 ELSE 3]

Marked(m) == [kind |-> "mark", mark |-> m]

\* A class of which everybody did well, and one in which one did in the finals.
AllMarked == [k \in Assessments \X Class |-> Marked(80)]
OneAhead == [AllMarked EXCEPT ![<<finals, x2>>] = Marked(20), ![<<finals, x3>>] = Marked(20)]
MarkedAnswers == {AllMarked, OneAhead}

\* One with a negative share, one that leaves bands empty, one of 90 %.
Schemes == {Scheme(40, 30, 30, 0), Scheme(110, 20, 0, -30)}
AllSchemes == Schemes \cup {Scheme(0, 0, 0, 100), Scheme(40, 40, 10, 0)}

\* Two sheets of marks somebody imports.
TwoSheets == {[s \in Class |-> IF s = x1 THEN 90 ELSE 20], [s \in Class |-> 40]}
=============================================================================
