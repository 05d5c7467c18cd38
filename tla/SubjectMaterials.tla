--------------------------- MODULE SubjectMaterials ---------------------------
(***************************************************************************)
(* Students enrol in subjects, teachers publish material for subjects, and *)
(* students see and answer the material of the subjects they enrolled in   *)
(* (api/routers/student_subjects.py, api/routers/faculty_materials.py).    *)
(* Every request reads several collections one after the other; subjects   *)
(* are reassigned and deleted meanwhile.  Nothing deletes an enrolment.    *)
(***************************************************************************)
EXTENDS Naturals, Sequences, FiniteSets, SequencesExt

CONSTANTS Requests, Students, Teachers, Subjects,
          Institutes,    \* [Teachers \cup Subjects -> an institute]
          SubjectLists,  \* what a student asks to be enrolled in
          None

\* What the constants of an instance satisfy.
ConstantsOK ==
  /\ DOMAIN Institutes = Teachers \cup Subjects
  /\ SubjectLists \subseteq Seq(Subjects) \ {<<>>}
  /\ None \notin Requests

VARIABLES
  subjects,      \* [Subjects -> [teacher, live]]
  relations,     \* enrolments: [id, at, student, subject]
  materials,     \* published material: [id, teacher, subject]
  interactions,  \* [id, student, material, status, submission]
  request,       \* what each request has read, or None
  submitted      \* ghost: the last acknowledged submission of each pair

vars == <<subjects, relations, materials, interactions, request, submitted>>

Statuses == {"viewed", "completed", "submitted"}

TypeOK ==
  /\ subjects \in [Subjects -> [teacher : Teachers, live : BOOLEAN]]
  /\ relations \subseteq [id : Requests, at : Nat, student : Students, subject : Subjects]
  /\ materials \subseteq [id : Requests, teacher : Teachers, subject : Subjects]
  /\ interactions \subseteq [id : Requests, student : Students, material : Requests,
                             status : Statuses, submission : Requests \cup {None}]
  /\ submitted \subseteq Students \X Requests
  /\ \A r \in Requests : request[r] # None =>
       request[r].phase \in {"relation", "subject", "insert", "publish", "own", "write", "list", "ended"}

Init ==
  /\ subjects \in [Subjects -> [teacher : Teachers, live : {TRUE}]]
  /\ \A x \in Subjects : Institutes[subjects[x].teacher] = Institutes[x]
  /\ relations = {}
  /\ materials = {}
  /\ interactions = {}
  /\ request = [r \in Requests |-> None]
  /\ submitted = {}

At(r, phase) == IF request[r] = None THEN FALSE ELSE request[r].phase = phase
Step(r, phase) == request' = [request EXCEPT ![r].phase = phase]
Start(r, new) == request[r] = None /\ request' = [request EXCEPT ![r] = new]

Enrolled(s) == {n.subject : n \in {m \in relations : m.student = s}}

------------------------------------------------------------------------------
(* POST link-student-subjects: one subject after the other *)

LinkSubjects(r, s, list) ==
  /\ Start(r, [phase |-> "relation", student |-> s, list |-> list, at |-> 1])
  /\ UNCHANGED <<subjects, relations, materials, interactions, submitted>>

Subject(r) == request[r].list[request[r].at]

NextSubject(r) ==
  request' = [request EXCEPT ![r].at = @ + 1,
                             ![r].phase = IF request[r].at = Len(request[r].list)
                                          THEN "ended" ELSE "relation"]

CheckRelation(r) ==
  /\ At(r, "relation")
  /\ IF Subject(r) \in Enrolled(request[r].student) THEN NextSubject(r) ELSE Step(r, "subject")
  /\ UNCHANGED <<subjects, relations, materials, interactions, submitted>>

CheckSubject(r) ==
  /\ At(r, "subject")
  /\ IF subjects[Subject(r)].live THEN Step(r, "insert") ELSE NextSubject(r)
  /\ UNCHANGED <<subjects, relations, materials, interactions, submitted>>

Relation(r) == [id |-> r, at |-> request[r].at,
                student |-> request[r].student, subject |-> Subject(r)]

InsertRelation(r) ==
  /\ At(r, "insert")
  /\ relations' = relations \cup {Relation(r)}
  /\ NextSubject(r)
  /\ UNCHANGED <<subjects, materials, interactions, submitted>>

------------------------------------------------------------------------------
(* POST faculty/materials, by the teacher or by the institute for a teacher *)

MayPublish(t, x, own) ==
  /\ subjects[x].live
  /\ Institutes[x] = Institutes[t]
  /\ own => subjects[x].teacher = t

Publish(r, t, x, own) ==
  /\ MayPublish(t, x, own)
  /\ Start(r, [phase |-> "publish", teacher |-> t, subject |-> x])
  /\ UNCHANGED <<subjects, relations, materials, interactions, submitted>>

Material(r) == [id |-> r, teacher |-> request[r].teacher, subject |-> request[r].subject]

InsertMaterial(r) ==
  /\ At(r, "publish")
  /\ materials' = materials \cup {Material(r)}
  /\ Step(r, "ended")
  /\ UNCHANGED <<subjects, relations, interactions, submitted>>

------------------------------------------------------------------------------
(* POST student/materials/{id}/interaction and GET student/materials *)

IsEnrolled(s, m) == m.subject \in Enrolled(s)

Interact(r, s, m, status) ==
  /\ m \in materials
  /\ IsEnrolled(s, m)
  /\ Start(r, [phase |-> "own", student |-> s, material |-> m, status |-> status,
               existing |-> None])
  /\ UNCHANGED <<subjects, relations, materials, interactions, submitted>>

Existing(r) ==
  {i \in interactions : i.student = request[r].student /\ i.material = request[r].material.id}

FindInteraction(r) ==
  /\ At(r, "own")
  /\ IF Existing(r) = {} THEN Step(r, "write")
     ELSE \E i \in Existing(r) :
            request' = [request EXCEPT ![r].existing = i.id, ![r].phase = "write"]
  /\ UNCHANGED <<subjects, relations, materials, interactions, submitted>>

Entry(r) ==
  [id |-> r, student |-> request[r].student, material |-> request[r].material.id,
   status |-> request[r].status,
   submission |-> IF request[r].status = "submitted" THEN r ELSE None]

\* A slip: the update rewrites the whole entry.
PatchedWhole(r, i) == [Entry(r) EXCEPT !.id = i.id]

\* The update sets the status, and the submission only if there is one.
Patched(r, i) ==
  [i EXCEPT !.status = request[r].status,
            !.submission = IF request[r].status = "submitted" THEN r ELSE @]

Acknowledge(r) ==
  submitted' = IF request[r].status = "submitted"
               THEN submitted \cup {<<request[r].student, request[r].material.id>>}
               ELSE submitted

WriteInteraction(r) ==
  /\ At(r, "write")
  /\ interactions' = IF request[r].existing = None
                     THEN interactions \cup {Entry(r)}
                     ELSE {IF i.id = request[r].existing THEN Patched(r, i) ELSE i :
                             i \in interactions}
  /\ Acknowledge(r)
  /\ Step(r, "ended")
  /\ UNCHANGED <<subjects, relations, materials>>

AskMaterials(r, s) ==
  /\ Start(r, [phase |-> "list", student |-> s, enrolled |-> Enrolled(s), shown |-> {}])
  /\ UNCHANGED <<subjects, relations, materials, interactions, submitted>>

ShowMaterials(r) ==
  /\ At(r, "list")
  /\ request' = [request EXCEPT
       ![r].shown = {m \in materials : m.subject \in request[r].enrolled},
       ![r].phase = "ended"]
  /\ UNCHANGED <<subjects, relations, materials, interactions, submitted>>

------------------------------------------------------------------------------
(* institute_hierarchy.py: a subject gets another teacher, or is deleted *)

\* update_batch writes the teacher it is given, of whatever institute, to a
\* subject that may be deleted already.
Reassign(x, t) ==
  /\ subjects' = [subjects EXCEPT ![x].teacher = t]
  /\ UNCHANGED <<relations, materials, interactions, request, submitted>>

DeleteSubject(x) ==
  /\ subjects[x].live
  /\ subjects' = [subjects EXCEPT ![x].live = FALSE]
  /\ UNCHANGED <<relations, materials, interactions, request, submitted>>

Next ==
  \/ \E r \in Requests :
       \/ \E s \in Students :
            \/ \E list \in SubjectLists : LinkSubjects(r, s, list)
            \/ \E m \in materials, status \in Statuses : Interact(r, s, m, status)
            \/ AskMaterials(r, s)
       \/ \E t \in Teachers, x \in Subjects, own \in BOOLEAN : Publish(r, t, x, own)
       \/ CheckRelation(r) \/ CheckSubject(r) \/ InsertRelation(r)
       \/ InsertMaterial(r)
       \/ FindInteraction(r) \/ WriteInteraction(r) \/ ShowMaterials(r)
  \/ \E x \in Subjects : DeleteSubject(x) \/ (\E t \in Teachers : Reassign(x, t))

Spec == Init /\ [][Next]_vars

------------------------------------------------------------------------------

\* What a student handed in stays: a later "viewed" or "completed", or a
\* concurrent first visit that made a second entry, never leaves the student
\* without a stored submission.
SubmissionStays ==
  \A p \in submitted : \E i \in interactions :
    i.student = p[1] /\ i.material = p[2] /\ i.submission # None

\* Only students enrolled in its subject see or answer a material, although
\* enrolment and material are read at different moments.
OnlyForEnrolled ==
  /\ \A i \in interactions : \E m \in materials : m.id = i.material /\ m.subject \in Enrolled(i.student)
  /\ \A r \in Requests : request[r] # None /\ "shown" \in DOMAIN request[r] =>
       \A m \in request[r].shown : m.subject \in Enrolled(request[r].student)

\* Material stays inside an institute, whoever it is published for.
MaterialStaysInside == \A m \in materials : Institutes[m.teacher] = Institutes[m.subject]

\* Whatever is reassigned, deleted or visited twice at the same time.
MaterialsForEnrolled == SubmissionStays /\ OnlyForEnrolled /\ MaterialStaysInside
==============================================================================
