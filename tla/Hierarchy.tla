----------------------------- MODULE Hierarchy -----------------------------
(***************************************************************************)
(* The academic hierarchy of an institute: schools, programmes,            *)
(* departments, batches, subjects, the exams and answers below them and    *)
(* the faculty of a school.                                                *)
(*                                                                         *)
(* Every document holds the ids of its owners, which no update changes.    *)
(* Nothing is removed by reference counting or in a transaction: a DELETE  *)
(* handler collects ids level by level, removes the collections one by one *)
(* and the root last, and may stop between any two of these operations.  A *)
(* POST handler checks an owner first and inserts later.                   *)
(***************************************************************************)
EXTENDS Naturals, Sequences, FiniteSets

CONSTANTS
    Rows,       \* documents that may exist
    Kind,       \* the collection each is in
    Link,       \* Link[r][k]: the owner of kind k that r names, or None
    Actors,     \* requests of the institute and its faculty in progress
    MaxKills,   \* bound on the requests that stop halfway
    None

Kinds == {"school", "programme", "department", "batch", "subject", "exam",
          "answer", "faculty"}

\* What the constants of an instance satisfy; an owner of kind k is in the
\* collection k.
ConstantsOK ==
  /\ Kind \in [Rows -> Kinds]
  /\ Link \in [Rows -> [Kinds -> Rows \cup {None}]]
  /\ None \notin Rows
  /\ MaxKills \in Nat
  /\ \A r \in Rows, k \in Kinds : Link[r][k] # None => Kind[Link[r][k]] = k

VARIABLES
    status,     \* of each document; a subject may be marked deleted
    login,      \* faculty members whose user account is active
    actor,      \* what each request does and where it is
    kills

vars == <<status, login, actor, kills>>

Of(k) == {r \in Rows : Kind[r] = k}
Live == {r \in Rows : status[r] = "live"}
Stored == {r \in Rows : status[r] \in {"live", "hidden"}}

Does(op, root, step) == [op |-> op, root |-> root, step |-> step, found |-> {}]
Idle == Does("none", None, 0)

Actor == [op: {"none", "insert", "subjects", "delete"}, root: Rows \cup {None},
          step: 0..11, found: SUBSET Rows]

\* Nothing exists yet, or the whole hierarchy does.
Init ==
    /\ \/ status = [r \in Rows |-> "new"] /\ login = {}
       \/ status = [r \in Rows |-> "live"] /\ login = Of("faculty")
    /\ actor = [a \in Actors |-> Idle]
    /\ kills = 0

-----------------------------------------------------------------------------
\* What a DELETE handler collects and removes, in order.  "find" collects ids,
\* "drop" removes the documents whose ids were collected, "purge" those that a
\* filter selects when it runs.

\* Mutant: departments and programmes are removed before what they own.
SchoolSteps_TopDown ==
    << <<"find", "programme">>, <<"find", "department">>, <<"find", "batch">>,
       <<"find", "faculty">>, <<"drop", "programme">>, <<"drop", "department">>,
       <<"drop", "batch">>, <<"purge", "subject">> >>

SchoolSteps ==
    << <<"find", "programme">>, <<"find", "department">>, <<"find", "batch">>,
       <<"find", "faculty">>, <<"purge", "subject">>, <<"drop", "batch">>,
       <<"drop", "department">>, <<"drop", "programme">>, <<"drop", "faculty">>,
       <<"disable", "faculty">> >>

ProgrammeSteps ==
    << <<"find", "department">>, <<"find", "batch">>, <<"purge", "subject">>,
       <<"drop", "batch">>, <<"drop", "department">> >>

DepartmentSteps == << <<"find", "batch">>, <<"purge", "subject">>, <<"drop", "batch">> >>

BatchSteps ==
    << <<"find", "exam">>, <<"purge", "answer">>, <<"purge", "exam">>, <<"purge", "subject">> >>

Steps(k) ==
    CASE k = "school" -> SchoolSteps
      [] k = "programme" -> ProgrammeSteps
      [] k = "department" -> DepartmentSteps
      [] k = "batch" -> BatchSteps

Deletable == {"school", "programme", "department", "batch"}

\* The owners by which documents of kind k are looked up.
Filter(k) ==
    CASE k = "programme" -> {"school"}
      [] k = "department" -> {"programme"}
      [] k = "batch" -> {"programme", "department"}
      [] k = "faculty" -> {"school"}
      [] k = "exam" -> {"batch"}
      [] k = "answer" -> {"exam"}
      [] OTHER -> {"school", "programme", "department", "batch"}

Matching(a, k) ==
    {r \in Stored \cap Of(k) :
        \E l \in Filter(k) : Link[r][l] \in {actor[a].root} \cup actor[a].found}

-----------------------------------------------------------------------------
\* DELETE of a school, programme, department or batch

Goes(a, next) == actor' = [actor EXCEPT ![a] = next]
Remove(rows) == status' = [r \in Rows |-> IF r \in rows THEN "gone" ELSE status[r]]

\* require_entity_in_institute
Delete(a, r) ==
    /\ actor[a] = Idle
    /\ Kind[r] \in Deletable /\ r \in Live
    /\ Goes(a, Does("delete", r, 1))
    /\ UNCHANGED <<status, login, kills>>

Script(a) == Steps(Kind[actor[a].root])
Halfway(a) == actor[a].op = "delete" /\ actor[a].step <= Len(Script(a))
Advance(a, more) == Goes(a, [actor[a] EXCEPT !.step = @ + 1, !.found = @ \cup more])

Collect(a) ==
    /\ Halfway(a) /\ Script(a)[actor[a].step][1] = "find"
    /\ Advance(a, Matching(a, Script(a)[actor[a].step][2]))
    /\ UNCHANGED <<status, login, kills>>

DropFound(a) ==
    /\ Halfway(a) /\ Script(a)[actor[a].step][1] = "drop"
    /\ Remove(actor[a].found \cap Of(Script(a)[actor[a].step][2]))
    /\ Advance(a, {})
    /\ UNCHANGED <<login, kills>>

PurgeMatching(a) ==
    /\ Halfway(a) /\ Script(a)[actor[a].step][1] = "purge"
    /\ Remove(Matching(a, Script(a)[actor[a].step][2]))
    /\ Advance(a, {})
    /\ UNCHANGED <<login, kills>>

DisableUsers(a) ==
    /\ Halfway(a) /\ Script(a)[actor[a].step][1] = "disable"
    /\ login' = login \ actor[a].found
    /\ Advance(a, {})
    /\ UNCHANGED <<status, kills>>

\* delete_one of the root; 404 when another request was faster.
RemoveRoot(a) ==
    /\ actor[a].op = "delete" /\ ~Halfway(a)
    /\ Remove({actor[a].root} \cap Stored)
    /\ Goes(a, Idle)
    /\ UNCHANGED <<login, kills>>

-----------------------------------------------------------------------------
\* POST: an owner is checked, the document is inserted later

\* A batch is found by its programme or else by its department; subjects and
\* faculty are inserted unchecked.
ChecksSchool(r) == TRUE
ChecksProgramme(r) == Link[r]["school"] \in Live
ChecksDepartment(r) == Link[r]["programme"] \in Live
ChecksBatch(r) ==
    \/ Link[r]["programme"] \in Live
    \/ Link[r]["department"] \in Live

\* require_exam_hierarchy
ChecksExam(r) ==
    \A l \in {"school", "programme", "department", "batch", "subject"} :
        Link[r][l] # None => Link[r][l] \in Live

ChecksAnswer(r) == Link[r]["exam"] \in Live

OwnerFound(r) ==
    CASE Kind[r] = "school" -> ChecksSchool(r)
      [] Kind[r] = "programme" -> ChecksProgramme(r)
      [] Kind[r] = "department" -> ChecksDepartment(r)
      [] Kind[r] = "batch" -> ChecksBatch(r)
      [] Kind[r] = "exam" -> ChecksExam(r)
      [] Kind[r] = "answer" -> ChecksAnswer(r)
      [] OTHER -> TRUE

Create(a, r) ==
    /\ actor[a] = Idle
    /\ status[r] = "new" /\ OwnerFound(r)
    /\ Goes(a, Does("insert", r, 0))
    /\ UNCHANGED <<status, login, kills>>

Put(r) == status' = [status EXCEPT ![r] = "live"]

\* create_batch goes on to the subjects of its semesters.
Insert(a) ==
    LET r == actor[a].root IN
    /\ actor[a].op = "insert"
    /\ IF status[r] = "new" THEN Put(r) ELSE UNCHANGED status
    /\ login' = IF Kind[r] = "faculty" /\ status[r] = "new" THEN login \cup {r} ELSE login
    /\ Goes(a, IF Kind[r] = "batch" THEN [actor[a] EXCEPT !.op = "subjects"] ELSE Idle)
    /\ UNCHANGED kills

\* update_batch reads the batch and then works through its subjects.
UpdateBatch(a, b) ==
    /\ actor[a] = Idle
    /\ Kind[b] = "batch" /\ b \in Live
    /\ Goes(a, Does("subjects", b, 0))
    /\ UNCHANGED <<status, login, kills>>

InsertSubject(a, u) ==
    /\ actor[a].op = "subjects"
    /\ Kind[u] = "subject" /\ status[u] = "new" /\ Link[u]["batch"] = actor[a].root
    /\ Put(u)
    /\ UNCHANGED <<login, actor, kills>>

Hideable(u) == u \in Live \cap Of("subject")

Hide(u) == Hideable(u) /\ status' = [status EXCEPT ![u] = "hidden"]

HideListed(a, u) ==
    /\ actor[a].op = "subjects" /\ Hide(u)
    /\ UNCHANGED <<login, actor, kills>>

\* The last subject was written, or the next one does not validate.
EndBatch(a) ==
    /\ actor[a].op = "subjects"
    /\ Goes(a, Idle)
    /\ UNCHANGED <<status, login, kills>>

\* DELETE of a subject marks it.
DeleteSubject(a, u) ==
    /\ actor[a] = Idle /\ Hide(u)
    /\ UNCHANGED <<login, actor, kills>>

\* delete_folder removes an exam and its answers in one transaction.
DeleteFolder(a, e) ==
    /\ actor[a] = Idle
    /\ Kind[e] = "exam" /\ e \in Live
    /\ Remove({e} \cup {x \in Stored \cap Of("answer") : Link[x]["exam"] = e})
    /\ UNCHANGED <<login, actor, kills>>

\* A request stops: the server restarts, or an operation raises.
Kill(a) ==
    /\ actor[a] # Idle /\ kills < MaxKills
    /\ kills' = kills + 1
    /\ Goes(a, Idle)
    /\ UNCHANGED <<status, login>>

Next ==
    \E a \in Actors :
        \/ Collect(a) \/ DropFound(a) \/ PurgeMatching(a) \/ DisableUsers(a)
        \/ RemoveRoot(a) \/ Insert(a) \/ EndBatch(a) \/ Kill(a)
        \/ \E r \in Rows : \/ Delete(a, r) \/ Create(a, r) \/ UpdateBatch(a, r)
                           \/ InsertSubject(a, r) \/ HideListed(a, r)
                           \/ DeleteSubject(a, r) \/ DeleteFolder(a, r)

Spec == Init /\ [][Next]_vars

-----------------------------------------------------------------------------
\* Properties

\* The types; only subjects are ever marked deleted.
TypeOK ==
    /\ status \in [Rows -> {"new", "live", "hidden", "gone"}]
    /\ \A r \in Rows : status[r] = "hidden" => Kind[r] = "subject"
    /\ login \subseteq Of("faculty")
    /\ actor \in [Actors -> Actor]
    /\ kills \in 0..MaxKills

\* An interrupted DELETE can be repeated: as long as a programme, a department
\* or a batch is left, so are the school and the programme it names, by which
\* the next DELETE will find it.
OwnersExist ==
    \A r \in Live, k \in {"school", "programme"} :
        Kind[r] \in {"programme", "department", "batch"} /\ Link[r][k] # None
            => Link[r][k] \in Live

\* Below(r, o): o is r or an owner r names, or owns the exam of r.
Below(r, o) ==
    \/ r = o
    \/ \E k \in Kinds : Link[r][k] = o
    \/ Link[r]["exam"] # None /\ \E k \in Kinds : Link[Link[r]["exam"]][k] = o

\* "Every downstream filter below is keyed by _id lists derived from THIS
\* school's subtree": whatever a DELETE removes is below its root.
DeletesItsOwn ==
    \A a \in Actors : actor[a].op = "delete" /\ actor'[a] # actor[a] =>
        \A r \in Stored : status'[r] = "gone" => Below(r, actor[a].root)

Removed(a) == RemoveRoot(a)

\* A DELETE that is not disturbed leaves no part of the hierarchy below its
\* root: neither programmes, departments, batches and subjects nor faculty.
DeleteLeavesNoOrphan ==
    \A a \in Actors : Removed(a) =>
        \A r \in Stored :
            Kind[r] \in {"programme", "department", "batch", "subject", "faculty"}
            /\ Below(r, actor[a].root) => status'[r] = "gone"

-----------------------------------------------------------------------------
\* What the documentation says beyond this and the code does not keep: the model
\* has behaviours against it (README, "Divergences").

\* "Delete a batch and everything hanging off it (exams, answer sheets,
\* subjects)", whatever else happens meanwhile.
BatchDeleteIsComplete ==
    [][\A a \in Actors : Removed(a) /\ Kind[actor[a].root] = "batch" =>
           \A r \in Stored : Below(r, actor[a].root) => status'[r] = "gone"]_vars

\* "Faculty LOGIN accounts are deactivated, never hard-deleted from a cascade":
\* when a school is gone, nobody of its faculty can log in.
SchoolDeleteDeactivates ==
    [][\A a \in Actors : Removed(a) =>
           \A f \in login : Link[f]["school"] # actor[a].root]_vars
=============================================================================
