---------------------------- MODULE Transcripts ----------------------------
(***************************************************************************)
(* The academic transcripts of one batch.                                  *)
(*                                                                         *)
(* Marks change in transactions that also increment the batch's            *)
(* result_source_revision and flag the transcripts that depend on them.    *)
(* A publisher (import of a workbook, generation from marks, automatic     *)
(* refresh) snapshots both revisions of the batch, reads the marks subject *)
(* by subject, and replaces a whole set in one transaction, which checks   *)
(* the snapshot and repairs the cumulative value of later semesters.       *)
(* Deleting the batch is a sequence of separate deletions.                 *)
(*                                                                         *)
(* Values are abstracted: the marks of a student in a subject are a        *)
(* version number (0: no complete result), the totals of a row are named   *)
(* by the publisher that computed them, and a cumulative value is the      *)
(* choice of the rows whose totals it sums.                                *)
(***************************************************************************)
EXTENDS Naturals, FiniteSets

CONSTANTS
    Students,
    Subjects,
    TotalSemesters,     \* total_semesters of the batch
    SemesterOf,         \* SemesterOf[s]: the semester of subject s
    Publishers,         \* publications: imports, generations and refreshes
    None,
    MaxChanges          \* bound on the changes of marks

Semesters == 1..TotalSemesters
\* What the constants of an instance satisfy.
ConstantsOK ==
  /\ TotalSemesters \in Nat \ {0}
  /\ SemesterOf \in [Subjects -> Semesters]
  /\ None \notin Publishers
  /\ MaxChanges \in Nat

VARIABLES
    marks,      \* marks[s][x]: version of student x's result in subject s
    changes,    \* number of changes of marks so far
    source,     \* result_source_revision of the batch
    writes,     \* transcript_write_revision of the batch
    deletion,   \* how far delete_batch_cascade has come
    rows,       \* rows[m][x]: transcript of student x for semester m
    task        \* task[p]: what publisher p knows and where it is

vars == <<marks, changes, source, writes, deletion, rows, task>>

-----------------------------------------------------------------------------
\* Values

Versions == 0..MaxChanges

\* basis[s]: the marks of subject s the row was computed from (for an import, the
\* marks when the batch was read: what it must not silently fall behind).
\* counted[m]: whose totals for semester m the cumulative value contains.
NoRow == [by |-> None, basis |-> [s \in Subjects |-> 0],
          counted |-> [m \in Semesters |-> None],
          is_stale |-> FALSE, results_stale |-> FALSE, cgpa_stale |-> FALSE]

Row == [by: Publishers \cup {None}, basis: [Subjects -> Nat],
        counted: [Semesters -> Publishers \cup {None}],
        is_stale: BOOLEAN, results_stale: BOOLEAN, cgpa_stale: BOOLEAN]

Taught(m) == {s \in Subjects : SemesterOf[s] = m}

\* semester 0: the whole batch, as an import publishes it.
Idle == [at |-> "idle", semester |-> 0, source |-> 0, writes |-> 0,
         read |-> {}, basis |-> [s \in Subjects |-> [x \in Students |-> 0]]]

Places == {"idle", "existing", "reading", "computed", "published", "refused"}

Scope(m) == IF m = 0 THEN Semesters ELSE {m}

Goto(p, place) == task' = [task EXCEPT ![p].at = place]

-----------------------------------------------------------------------------
Init ==
    /\ marks \in [Subjects -> [Students -> {0}]]
    /\ changes = 0
    /\ source = 0
    /\ writes = 0
    /\ deletion = "none"
    /\ rows = [m \in Semesters |-> [x \in Students |-> NoRow]]
    /\ task = [p \in Publishers |-> Idle]

-----------------------------------------------------------------------------
\* Changes of marks

\* touch_result_source flags the rows of the subject's semester and later ones.
Touched(table, m) ==
    [k \in Semesters |-> [x \in Students |->
        IF table[k][x] = NoRow \/ k < m THEN table[k][x]
        ELSE IF k = m
          THEN [table[k][x] EXCEPT !.is_stale = TRUE, !.results_stale = TRUE]
          ELSE [table[k][x] EXCEPT !.is_stale = TRUE, !.cgpa_stale = TRUE]]]

\* An evaluation, a review, manual marks, an upload, the deletion of an answer:
\* the result of a student in a subject changes, or is no longer complete.
\* The exam is still there, hence also its subject and batch.
ChangeMarks(s, x) ==
    /\ changes < MaxChanges
    /\ deletion \in {"none", "answers"}
    /\ \E v \in {0, changes + 1} :
          /\ v # marks[s][x]
          /\ marks' = [marks EXCEPT ![s][x] = v]
    /\ changes' = changes + 1
    /\ source' = source + 1
    /\ rows' = Touched(rows, SemesterOf[s])
    /\ UNCHANGED <<writes, deletion, task>>

\* update_exam: an exam is edited, or moves from subject s to subject t; delete_folder
\* removes it.  Every student of the subjects is concerned.
EditExam(s, t) ==
    /\ changes < MaxChanges
    /\ deletion \in {"none", "answers"}
    /\ \E v \in [{s, t} -> {0, changes + 1}] :
          marks' = [u \in Subjects |->
                       IF u \in {s, t} THEN [x \in Students |-> v[u]] ELSE marks[u]]
    /\ changes' = changes + 1
    /\ source' = source + Cardinality({s, t})
    /\ rows' = Touched(Touched(rows, SemesterOf[s]), SemesterOf[t])
    /\ UNCHANGED <<writes, deletion, task>>

-----------------------------------------------------------------------------
\* Publishers

Exists == deletion # "gone"

Snapshot(p, m, place) ==
    task' = [task EXCEPT ![p] = [@ EXCEPT !.at = place, !.semester = m,
                                          !.source = source, !.writes = writes]]

\* confirm_transcript_generation: the batch is read first.
StartGeneration(p, m) ==
    /\ task[p].at = "idle" /\ Exists
    /\ Snapshot(p, m, "reading")
    /\ UNCHANGED <<marks, changes, source, writes, deletion, rows>>

\* confirm_transcript_import: the rest of its calculation reads the workbook.
StartImport(p) ==
    /\ task[p].at = "idle" /\ Exists
    /\ task' = [task EXCEPT ![p] = [@ EXCEPT !.at = "computed", !.source = source,
                                    !.writes = writes, !.basis = marks]]
    /\ UNCHANGED <<marks, changes, source, writes, deletion, rows>>

\* refresh_transcript_for_exam goes on only where a set was published before.
StartRefresh(p, m) ==
    /\ task[p].at = "idle"
    /\ deletion \in {"none", "answers"}
    /\ \E x \in Students : rows[m][x] # NoRow
    /\ task' = [task EXCEPT ![p].at = "existing", ![p].semester = m]
    /\ UNCHANGED <<marks, changes, source, writes, deletion, rows>>

SnapshotRefresh(p) ==
    /\ task[p].at = "existing" /\ Exists
    /\ Snapshot(p, task[p].semester, "reading")
    /\ UNCHANGED <<marks, changes, source, writes, deletion, rows>>

\* _get_subject_results for one subject of the semester.
ReadSubject(p, s) ==
    /\ task[p].at = "reading"
    /\ s \in Taught(task[p].semester) \ task[p].read
    /\ task' = [task EXCEPT ![p].read = @ \cup {s}, ![p].basis[s] = marks[s]]
    /\ UNCHANGED <<marks, changes, source, writes, deletion, rows>>

\* discover_batch_roster: the students with a result in some subject.
Roster(p) ==
    {x \in Students : \E s \in Taught(task[p].semester) : task[p].basis[s][x] # 0}

Partial(p) ==
    \E x \in Roster(p), s \in Taught(task[p].semester) : task[p].basis[s][x] = 0

Behind(p, x) ==
    \E k \in Semesters : k < task[p].semester /\ rows[k][x].is_stale

\* generate_transcript_for_semester: incomplete results and stale earlier
\* semesters of a student refuse.
Compute(p) ==
    /\ task[p].at = "reading"
    /\ task[p].read = Taught(task[p].semester)
    /\ IF Roster(p) = {} \/ Partial(p) \/ \E x \in Roster(p) : Behind(p, x)
         THEN Goto(p, "refused")
         ELSE Goto(p, "computed")
    /\ UNCHANGED <<marks, changes, source, writes, deletion, rows>>

\* Mutant: publications are serialised, changes of marks are not noticed.
Unchanged_WritesOnly(p) == Exists /\ writes = task[p].writes

\* Nothing was published and no marks changed since the snapshot.
Unchanged(p) ==
    Exists /\ source = task[p].source /\ writes = task[p].writes

\* The set of the publisher's semester, or of all, with the new rows only.
Replaced(p, roster) ==
    [m \in Semesters |-> [x \in Students |->
        IF m \notin Scope(task[p].semester) THEN rows[m][x]
        ELSE IF x \notin roster[m] THEN NoRow
        ELSE [NoRow EXCEPT !.by = p,
                !.basis = [s \in Subjects |->
                    IF SemesterOf[s] = m THEN task[p].basis[s][x] ELSE 0]]]]

OwnStale(row) == row.results_stale \/ (row.is_stale /\ ~row.cgpa_stale)

Blocked(table, m, x) ==
    \E k \in 1..m : table[k][x] # NoRow /\ OwnStale(table[k][x])

\* Cumulative values from the published semester on, for the students of the
\* new set.  A row behind a stale result stays flagged.
Repaired(p, table, students) ==
    [m \in Semesters |-> [x \in Students |->
        IF x \notin students \/ table[m][x] = NoRow \/ m < task[p].semester
          THEN table[m][x]
        ELSE IF Blocked(table, m, x)
          THEN [table[m][x] EXCEPT !.is_stale = TRUE, !.cgpa_stale = TRUE]
          ELSE [table[m][x] EXCEPT
                  !.counted = [k \in Semesters |->
                                  IF k <= m THEN table[k][x].by ELSE None],
                  !.is_stale = FALSE, !.cgpa_stale = FALSE]]]

\* commit_transcript_set with a set that is not empty.
Publish(p, roster) ==
    LET students == UNION {roster[m] : m \in Scope(task[p].semester)}
        table == Replaced(p, roster)
    IN /\ students # {}
       /\ ~\E x \in students, m \in Semesters :
              m < task[p].semester /\ Blocked(table, m, x)
       /\ rows' = Repaired(p, table, students)
       /\ writes' = writes + 1
       /\ Goto(p, "published")
       /\ UNCHANGED <<marks, changes, source, deletion>>

\* The students of the set: those computed, or those of the workbook.
Rosters(p) ==
    {roster \in [Scope(task[p].semester) -> SUBSET Students] :
        task[p].semester # 0 => roster[task[p].semester] = Roster(p)}

Commit(p) ==
    /\ task[p].at = "computed"
    /\ Unchanged(p)
    /\ \E roster \in Rosters(p) : Publish(p, roster)

\* The transaction is refused, aborted or unconfirmed, a read raises, or the
\* process stops.
Fail(p) ==
    /\ task[p].at \in {"existing", "reading", "computed"}
    /\ Goto(p, "refused")
    /\ UNCHANGED <<marks, changes, source, writes, deletion, rows>>

-----------------------------------------------------------------------------
\* delete_batch_cascade

DeleteAnswers ==
    /\ deletion = "none"
    /\ deletion' = "answers"
    /\ marks' = [s \in Subjects |-> [x \in Students |-> 0]]
    /\ UNCHANGED <<changes, source, writes, rows, task>>

DeleteExams ==
    /\ deletion = "answers"
    /\ deletion' = "exams"
    /\ marks' = [s \in Subjects |-> [x \in Students |-> 0]]
    /\ UNCHANGED <<changes, source, writes, rows, task>>

DeleteBatch ==
    /\ deletion = "exams"
    /\ deletion' = "gone"
    /\ UNCHANGED <<marks, changes, source, writes, rows, task>>

-----------------------------------------------------------------------------
PublisherStep(p) ==
    \/ StartImport(p) \/ SnapshotRefresh(p) \/ Compute(p) \/ Commit(p) \/ Fail(p)
    \/ \E m \in Semesters : StartGeneration(p, m) \/ StartRefresh(p, m)
    \/ \E s \in Subjects : ReadSubject(p, s)

Next ==
    \/ \E s \in Subjects, x \in Students : ChangeMarks(s, x)
    \/ \E s, t \in Subjects : EditExam(s, t)
    \/ \E p \in Publishers : PublisherStep(p)
    \/ DeleteAnswers \/ DeleteExams \/ DeleteBatch

Spec == Init /\ [][Next]_vars

-----------------------------------------------------------------------------
\* Properties

TypeOK ==
    /\ marks \in [Subjects -> [Students -> Versions]]
    /\ changes \in Versions
    /\ source \in Nat
    /\ writes \in Nat
    /\ deletion \in {"none", "answers", "exams", "gone"}
    /\ rows \in [Semesters -> [Students -> Row]]
    /\ task \in [Publishers -> [at: Places, semester: 0..TotalSemesters,
                                source: Nat, writes: Nat, read: SUBSET Subjects,
                                basis: [Subjects -> [Students -> Versions]]]]

Recorded(m, x) == rows[m][x] # NoRow

\* _get_academic_transcript: what may be viewed, exported or certified.
Readable(x) ==
    /\ \E m \in Semesters : Recorded(m, x)
    /\ \A m \in Semesters : ~rows[m][x].is_stale

\* A transcript that can be viewed or downloaded shows, for every semester, the
\* marks as they are now: no change of marks is lost to a publication that was
\* calculating meanwhile.  (Until the batch is being deleted, which neither
\* flags nor removes transcripts.)
ReadableIsCurrent ==
    deletion = "none" =>
        \A x \in Students : Readable(x) =>
            \A m \in Semesters : Recorded(m, x) =>
                \A s \in Taught(m) : rows[m][x].basis[s] = marks[s][x]

\* The cumulative value of a readable transcript counts the semesters shown
\* beside it, each with its present totals, and no later one.
CumulativeIsCurrent ==
    \A x \in Students : Readable(x) =>
        \A m, k \in Semesters : Recorded(m, x) /\ Recorded(k, x) =>
            rows[m][x].counted[k] = IF k <= m THEN rows[k][x].by ELSE None

\* A row that is not flagged never follows a semester of the same student whose
\* own results are out of date: "Regenerate earlier stale semesters before".
NeverAheadOfStale ==
    \A x \in Students, k, m \in Semesters :
        k < m /\ Recorded(k, x) /\ Recorded(m, x) /\ rows[k][x].results_stale
            => rows[m][x].is_stale

\* Readers of a semester see one publication: a set is replaced whole.
OneSetPerSemester ==
    \A m \in Semesters, x, y \in Students :
        Recorded(m, x) /\ Recorded(m, y) => rows[m][x].by = rows[m][y].by

-----------------------------------------------------------------------------
\* What the documentation says beyond this and the code does not keep: the model
\* has behaviours against it (README, "Divergences").

\* A published cumulative value is repaired with the semesters it rests on: it
\* counts no semester that is gone.
CumulativeCountsWhatIsThere ==
    \A x \in Students : Readable(x) =>
        \A m, k \in Semesters :
            Recorded(m, x) /\ ~Recorded(k, x) => rows[m][x].counted[k] = None
=============================================================================
