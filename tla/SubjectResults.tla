--------------------------- MODULE SubjectResults ---------------------------
(***************************************************************************)
(* Published results of a batch (app/api/routers/subject_results.py):      *)
(* composites of weighted exams, relative grades by rank, the grading      *)
(* scheme of the institute (relative_grading.py) and marks imported from a *)
(* sheet (marks_import.py).  Composites are in hundredths of a percent.    *)
(***************************************************************************)
EXTENDS GradeArithmetic

CONSTANTS
  Students, Subjects, Exams,
  SubjectOf,   \* subject of each exam
  Weight,      \* weightage of each exam, in percent
  Credits,     \* credits of each subject
  Marks,       \* percentages an evaluated answer may have
  Starts,      \* answers the runs start from
  Forms,       \* grading schemes somebody tries to save
  Sheets,      \* sheets of marks: functions from students to percentages
  Requests,    \* concurrent requests that save a scheme or import a sheet
  MaxChanges   \* bound on changes of answers and deletions of subjects

Absent == [kind |-> "absent", mark |-> 0]
Pending == [kind |-> "pending", mark |-> 0]
Twice == [kind |-> "twice", mark |-> 0]    \* two answers for one student
Mark(m) == [kind |-> "mark", mark |-> m]
Answers == {Absent, Pending, Twice} \cup {Mark(m) : m \in Marks}

\* What the constants of an instance satisfy.
ConstantsOK ==
  /\ IsFiniteSet(Students) /\ IsFiniteSet(Subjects) /\ IsFiniteSet(Exams)
  /\ SubjectOf \in [Exams -> Subjects]
  /\ Weight \in [Exams -> Nat]
  /\ Credits \in [Subjects -> Nat]
  /\ Marks \subseteq 0 .. 100
  /\ Starts \subseteq [Exams \X Students -> Answers]
  /\ Forms \subseteq [Grades -> Int]
  /\ \A sheet \in Sheets : DOMAIN sheet \subseteq Students
                           /\ \A s \in DOMAIN sheet : sheet[s] \in 0 .. 100
  /\ MaxChanges \in Nat

VARIABLES
  answers,   \* what is saved for each exam and student
  live,      \* subjects that are not deleted
  schemes,   \* stored grading schemes of the institute, oldest first
  imported,  \* rows of importedMarks of the batch and semester
  request,   \* what each request is doing
  combine,   \* the request for the combined result
  published, \* the last combined result answered with 200, or Unset
  changes    \* changes so far

vars == <<answers, live, schemes, imported, request, combine, published, changes>>

Unset == [none |-> TRUE]
Idle == [step |-> "idle"]

-----------------------------------------------------------------------------
(* One subject, as _get_subject_results finds it.                          *)

ExamsOf(sub) == {e \in Exams : SubjectOf[e] = sub}

Roster(ans, sub) ==
  {s \in Students : \E e \in ExamsOf(sub) : ans[<<e, s>>] # Absent}

Attempted(ans, sub, s) == {e \in ExamsOf(sub) : ans[<<e, s>>].kind = "mark"}

WeightOf(exams) == MapThenSumSet(LAMBDA e : Weight[e], exams)

(* compute_weighted_composite: only what the student attempted counts; a   *)
(* student without weight has no composite and is partial.                 *)
HasComposite(ans, sub, s) == WeightOf(Attempted(ans, sub, s)) > 0

Composite(ans, sub, s) ==
  RoundDiv(MapThenSumSet(LAMBDA e : 100 * ans[<<e, s>>].mark * Weight[e],
                         Attempted(ans, sub, s)),
           WeightOf(Attempted(ans, sub, s)))

Partial(ans, sub, s) ==
  \/ ~ HasComposite(ans, sub, s)
  \/ \E e \in ExamsOf(sub) : ans[<<e, s>>].kind # "mark" /\ Weight[e] > 0

Duplicated(ans, sub) ==
  \E e \in ExamsOf(sub), s \in Students : ans[<<e, s>>] = Twice

Gradable(ans, sub) ==
  {s \in Roster(ans, sub) : HasComposite(ans, sub, s) /\ ~ Partial(ans, sub, s)}

SubjectTotals(ans, sub) ==
  [s \in Gradable(ans, sub) |-> Composite(ans, sub, s)]

(* The grades of a subject come from the scheme stored when they are       *)
(* computed.  assign_relative_grades raises on a scheme without a band.    *)
SubjectRaises(stored, ans, sub) ==
  stored # <<>> /\ UsedBands(stored[1]) = {} /\ Gradable(ans, sub) # {}

SubjectGrades(stored, ans, sub) ==
  IF stored = <<>> THEN [s \in {} |-> U]
  ELSE RelativeGrades(stored[1], SubjectTotals(ans, sub), 10000)

-----------------------------------------------------------------------------
TypeOK ==
  /\ answers \in [Exams \X Students -> Answers]
  /\ live \subseteq Subjects
  /\ \A i \in DOMAIN schemes : schemes[i] \in Forms /\ ValidTotal(schemes[i])
  /\ \A row \in imported : row.by \in Requests /\ row.student \in Students
  /\ \A r \in Requests : request[r].step \in {"idle", "found", "cleared", "done"}
  /\ combine.step \in {"idle", "scheme", "list", "subjects"}
  /\ published # Unset =>
       published.grade \in [DOMAIN published.total -> Grades]
  /\ changes \in 0 .. MaxChanges

Init ==
  /\ answers \in Starts
  /\ live = Subjects
  /\ schemes = <<>>
  /\ imported = {}
  /\ request = [r \in Requests |-> Idle]
  /\ combine = Idle
  /\ published = Unset
  /\ changes = 0

-----------------------------------------------------------------------------
(* What changes under the reports.                                         *)

(* An answer is uploaded, evaluated, reviewed, duplicated or deleted.      *)
ChangeAnswer ==
  /\ changes < MaxChanges
  /\ \E e \in Exams, s \in Students, a \in Answers :
       answers' = [answers EXCEPT ![<<e, s>>] = a]
  /\ changes' = changes + 1
  /\ UNCHANGED <<live, schemes, imported, request, combine, published>>

DeleteSubject ==
  /\ changes < MaxChanges
  /\ \E sub \in live : live' = live \ {sub}
  /\ changes' = changes + 1
  /\ UNCHANGED <<answers, schemes, imported, request, combine, published>>

(* create_or_update_relative_grading looks for a stored scheme ...         *)
SchemeFind(r) ==
  /\ request[r] = Idle
  /\ \E form \in Forms :
       /\ ValidTotal(form)
       /\ request' = [request EXCEPT ![r] =
            [step |-> "found", form |-> form, existing |-> schemes # <<>>]]
  /\ UNCHANGED <<answers, live, schemes, imported, combine, published, changes>>

(* ... and then updates the one it found or inserts its own.               *)
SchemeWrite(r) ==
  /\ request[r].step = "found"
  /\ schemes' = IF request[r].existing THEN [schemes EXCEPT ![1] = request[r].form]
                ELSE Append(schemes, request[r].form)
  /\ request' = [request EXCEPT ![r] = [step |-> "done"]]
  /\ UNCHANGED <<answers, live, imported, combine, published, changes>>

(* update_relative_grading, of the stored scheme with a given id.          *)
SchemePut(r) ==
  /\ request[r] = Idle
  /\ \E i \in DOMAIN schemes, form \in Forms :
       ValidTotal(form) /\ schemes' = [schemes EXCEPT ![i] = form]
  /\ request' = [request EXCEPT ![r] = [step |-> "done"]]
  /\ UNCHANGED <<answers, live, imported, combine, published, changes>>

(* import_marks_excel clears the rows of the batch and semester ...        *)
ImportClear(r) ==
  /\ request[r] = Idle
  /\ \E sheet \in Sheets :
       request' = [request EXCEPT ![r] = [step |-> "cleared", sheet |-> sheet]]
  /\ imported' = {}
  /\ UNCHANGED <<answers, live, schemes, combine, published, changes>>

(* ... and inserts those of its sheet.                                     *)
ImportInsert(r) ==
  /\ request[r].step = "cleared"
  /\ imported' = imported \cup
       {[by |-> r, student |-> s, mark |-> request[r].sheet[s]] :
           s \in DOMAIN request[r].sheet}
  /\ request' = [request EXCEPT ![r] = [step |-> "done"]]
  /\ UNCHANGED <<answers, live, schemes, combine, published, changes>>

(* The process stops, or the insert fails, after the rows were cleared.    *)
ImportFails(r) ==
  /\ request[r].step = "cleared"
  /\ request' = [request EXCEPT ![r] = [step |-> "done"]]
  /\ UNCHANGED <<answers, live, schemes, imported, combine, published, changes>>

-----------------------------------------------------------------------------
(* _get_combined_results; each read of the database is a step.             *)

ReadScheme ==
  /\ combine = Idle
  /\ schemes # <<>>
  /\ combine' = [step |-> "scheme", scheme |-> schemes[1]]
  /\ UNCHANGED <<answers, live, schemes, imported, request, published, changes>>

ImportedTotals == [row \in imported |-> 100 * row.mark]

(* Imported rows, if there are any, are the result.                        *)
PublishImported ==
  /\ combine.step = "scheme"
  /\ imported # {}
  /\ combine' = Idle
  /\ published' =
       IF UsedBands(combine.scheme) = {} THEN published
       ELSE [source |-> "import", total |-> ImportedTotals,
             grade |-> RelativeGrades(combine.scheme, ImportedTotals, 10000),
             found |-> <<>>, grades |-> <<>>]
  /\ UNCHANGED <<answers, live, schemes, imported, request, changes>>

NothingImported ==
  /\ combine.step = "scheme"
  /\ imported = {}
  /\ combine' = [step |-> "list", scheme |-> combine.scheme]
  /\ UNCHANGED <<answers, live, schemes, imported, request, published, changes>>

ListSubjects ==
  /\ combine.step = "list"
  /\ combine' = [step |-> "subjects", scheme |-> combine.scheme,
                 names |-> live, todo |-> live, answersRead |-> Unset,
                 found |-> [sub \in {} |-> Unset], grades |-> [sub \in {} |-> Unset]]
  /\ UNCHANGED <<answers, live, schemes, imported, request, published, changes>>

(* The answers of one subject; a duplicate ends the request, a subject     *)
(* deleted since is left out.                                              *)
ReadSubject(sub) ==
  /\ combine.step = "subjects" /\ combine.answersRead = Unset
  /\ sub \in combine.todo
  /\ combine' =
       IF sub \notin live THEN [combine EXCEPT !.todo = @ \ {sub}]
       ELSE IF Duplicated(answers, sub) THEN Idle
       ELSE [combine EXCEPT !.answersRead = [of |-> sub, answers |-> answers]]
  /\ UNCHANGED <<answers, live, schemes, imported, request, published, changes>>

With(f, x, y) == [z \in DOMAIN f \cup {x} |-> IF z = x THEN y ELSE f[z]]

(* Its grades, by the scheme stored now.                                   *)
GradeSubject ==
  /\ combine.step = "subjects" /\ combine.answersRead # Unset
  /\ LET sub == combine.answersRead.of
         read == combine.answersRead.answers
     IN  combine' =
           IF SubjectRaises(schemes, read, sub) THEN Idle
           ELSE [combine EXCEPT
                   !.todo = @ \ {sub}, !.answersRead = Unset,
                   !.found = With(@, sub, [k \in ExamsOf(sub) \X Students |-> read[k]]),
                   !.grades = With(@, sub, SubjectGrades(schemes, read, sub))]
  /\ UNCHANGED <<answers, live, schemes, imported, request, published, changes>>

Found == DOMAIN combine.found
FoundRoster == UNION {Roster(combine.found[sub], sub) : sub \in Found}

(* Nobody is partial, and everybody is in every subject.                   *)
Complete ==
  \A sub \in Found, s \in FoundRoster :
    s \in Roster(combine.found[sub], sub) /\ ~ Partial(combine.found[sub], sub, s)

CombinedTotals ==
  [s \in FoundRoster |->
     MapThenSumSet(LAMBDA t : t[2],
       {<<sub, Composite(combine.found[sub], sub, s)>> : sub \in Found})]

GradeIn(grades, s) == IF s \in DOMAIN grades THEN grades[s] ELSE U

CreditPoints(grades, s) ==
  MapThenSumSet(LAMBDA t : t[2],
    {<<sub, Credits[sub] * GradePoint(GradeIn(grades[sub], s))>> : sub \in DOMAIN grades})

(* The maximum counts every subject listed, those deleted since included.  *)
PublishCombined ==
  /\ combine.step = "subjects" /\ combine.todo = {} /\ combine.answersRead = Unset
  /\ combine' = Idle
  /\ published' =
       IF ~ Complete \/ FoundRoster = {} \/ UsedBands(combine.scheme) = {}
       THEN published
       ELSE [source |-> "exams", total |-> CombinedTotals,
             grade |-> RelativeGrades(combine.scheme, CombinedTotals,
                                      10000 * Cardinality(combine.names)),
             found |-> combine.found, grades |-> combine.grades, names |-> combine.names,
             points |-> [s \in FoundRoster |-> CreditPoints(combine.grades, s)]]
  /\ UNCHANGED <<answers, live, schemes, imported, request, changes>>

-----------------------------------------------------------------------------
Next ==
  \/ ChangeAnswer \/ DeleteSubject
  \/ \E r \in Requests : SchemeFind(r) \/ SchemeWrite(r) \/ SchemePut(r)
  \/ \E r \in Requests : ImportClear(r) \/ ImportInsert(r) \/ ImportFails(r)
  \/ ReadScheme \/ PublishImported \/ NothingImported \/ ListSubjects
  \/ \E sub \in Subjects : ReadSubject(sub)
  \/ GradeSubject \/ PublishCombined

Spec == Init /\ [][Next]_vars

-----------------------------------------------------------------------------
(* Grades follow marks: whoever has at least the total of another has at   *)
(* least the grade, in the published list and in each subject of it, with  *)
(* ties, failing students and schemes of any shape (assign_relative_grades).*)
Ordered(total, grade) ==
  \A x, y \in DOMAIN grade : total[x] >= total[y] => grade[x] <= grade[y]

GradesFollowMarks ==
  published # Unset =>
    /\ Ordered(published.total, published.grade)
    /\ \A sub \in DOMAIN published.grades :
         Ordered([s \in Students |->
                    IF HasComposite(published.found[sub], sub, s)
                    THEN Composite(published.found[sub], sub, s) ELSE 0],
                 published.grades[sub])

(* A result from exams is published only of students who have a mark in    *)
(* every weighted exam of every subject in it (the pending checks of       *)
(* compute_weighted_composite and _get_combined_results).                  *)
PublishedIsComplete ==
  published # Unset =>
    \A sub \in DOMAIN published.found, s \in DOMAIN published.total :
      \A e \in ExamsOf(sub) :
        Weight[e] > 0 => published.found[sub][<<e, s>>].kind = "mark"

(* A student who passes every subject passes the semester, with at least   *)
(* the points of the lowest passing grade for each credit.  The semester   *)
(* is graded again, from the sum of the composites; the claim is about     *)
(* results under which no subject was deleted.                             *)
PassesAll(s) == \A sub \in DOMAIN published.grades : published.grades[sub][s] # U

WhoPassesAllPasses ==
  (published # Unset /\ published.source = "exams"
     /\ DOMAIN published.grades = published.names) =>
    \A s \in DOMAIN published.total :
      PassesAll(s) =>
        /\ published.grade[s] # U
        /\ published.points[s] >= 10 * MapThenSumSet(LAMBDA c : Credits[c], published.names)

-----------------------------------------------------------------------------
\* What the documentation says beyond this and the code does not keep: the model
\* has behaviours against it (README, "Divergences").

(* A saved scheme replaces the stored one: the institute has one           *)
(* (test_create_relative_grading_upserts).                                 *)
OneScheme == Len(schemes) <= 1

(* A sheet replaces what was imported before it (test_import_marks_success):*)
(* no student is listed twice.                                             *)
ImportReplaces ==
  \A x, y \in imported : x.student = y.student => x = y
=============================================================================
