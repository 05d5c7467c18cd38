------------------------------ MODULE Enrolment ------------------------------
(***************************************************************************)
(* Accounts of one institute and of private tutors: registration, the      *)
(* status and access flags that cascade to them, edited login ids, and     *)
(* deletion.                                                               *)
(*                                                                         *)
(* A user document carries the login id and the flags, a details document  *)
(* says whom the user belongs to.  They are written by separate operations *)
(* with no transaction and no unique index, so every awaited operation is  *)
(* a step here; only the deletion of a student is one transaction.  An     *)
(* account is named after the request that registers it.                   *)
(***************************************************************************)
EXTENDS Naturals, FiniteSets

CONSTANTS
    Requests,
    Work,           \* the endpoints each request may call
    LoginIds,       \* 1 is the base address of every student here, n its n-th suffix
    MaxStops,       \* bound on requests that stop halfway
    None

Registrations == {"faculty", "student", "tutor", "tutorStudent"}
Endpoints == Registrations \cup
    {"updateInstitute", "updateTutor", "updateFaculty",
     "deleteFaculty", "deleteTutor", "deleteStudent"}

\* What the constants of an instance satisfy.
ConstantsOK ==
  /\ Work \in [Requests -> SUBSET Endpoints]
  /\ LoginIds \subseteq Nat
  /\ 1 \in LoginIds
  /\ MaxStops \in Nat
  /\ None \notin Requests \cup LoginIds

VARIABLES
    users,      \* users: the accounts
    details,    \* facultyDetails and studentDetails, by account
    admin,      \* the flags of the institute's own account
    request,    \* what each request does and has read
    stops

vars == <<users, details, admin, request, stops>>

Flag == BOOLEAN \cup {None}

Account == [role: Registrations, login: LoginIds, active: BOOLEAN, access: BOOLEAN]
Detail == [role: Registrations, owner: Requests \cup {"institute"}]

Task == [at: {"idle", "caller", "suffix", "account", "details", "status", "faculty",
              "students", "members", "adminAccess", "access", "flags", "email", "find", "remove",
              "removeDetails", "removeAccount", "done", "stopped"},
         does: Endpoints, by: Requests \cup {"institute"},   \* by: who registers a student
         login: LoginIds \cup {None}, target: Requests \cup {"institute"},
         active: Flag, access: Flag, found: SUBSET Requests, met: SUBSET Requests]

Init ==
    /\ users = [r \in Requests |-> None]
    /\ details = [r \in Requests |-> None]
    /\ admin = [active |-> TRUE, access |-> FALSE]
    /\ request = [r \in Requests |->
                     [at |-> "idle", does |-> "faculty", by |-> "institute", login |-> 1, target |-> r,
                      active |-> None, access |-> None, found |-> {}, met |-> {}]]
    /\ stops = 0

Exists(u) == users[u] # None
Accounts == {u \in Requests : Exists(u)}
Is(u, role) == Exists(u) /\ users[u].role = role
Taken(login) == \E u \in Accounts : users[u].login = login
Members(owner, roles) ==
    {u \in Requests : details[u] # None /\ details[u].owner = owner /\ details[u].role \in roles}
InstituteRoles == {"faculty", "student"}

Running(r) == request[r].at \notin {"idle", "done", "stopped"}

\* A request meets the requests under way when it starts, and they meet it.
Others(r) == {o \in Requests : Running(o)}
Start(r, task) ==
    request' = [q \in Requests |->
                   IF q = r THEN [task EXCEPT !.met = Others(r)]
                   ELSE IF q \in Others(r) THEN [request[q] EXCEPT !.met = @ \cup {r}]
                   ELSE request[q]]

To(r, at) == request' = [request EXCEPT ![r].at = at]

-----------------------------------------------------------------------------
(* Registration *)

Task0(r, does) == [request[r] EXCEPT !.does = does]

\* Faculty are registered by the institute's own account, students by it or by
\* one of the faculty.  What the check of the caller's own flags lets through is
\* the subject of AccountState: it may be out of date, or fail and be skipped.
Callers(does) ==
    {"institute"} \cup {f \in Accounts : does = "student" /\ users[f].role = "faculty"}

\* register: the address must not be in use.  A student's own address is not
\* the login id; the id is generated after the caller was read.
BeginRegistration(r, does) ==
    /\ request[r].at = "idle"
    /\ does \in Work[r] \cap Registrations
    /\ \E e \in LoginIds, by \in Callers(does) :
         /\ does # "student" => ~Taken(e)
         /\ does = "student" => e = 1
         /\ \E owner \in IF does = "tutorStudent"
                         THEN {t \in Accounts : users[t].role = "tutor"} ELSE {"institute"} :
              Start(r, [Task0(r, does) EXCEPT !.at = "caller", !.by = by, !.login = e,
                                              !.target = owner])
    /\ UNCHANGED <<users, details, admin, stops>>

Approved(t) == Is(t, "tutor") /\ users[t].active
MayEnrol(u) == u = "institute" \/ (Is(u, "faculty") /\ details[u] # None)

\* The role's handler reads its caller: an administrator passes the access
\* flag on, faculty must be there, a tutor must have been approved.
ReadCaller(r) ==
    /\ request[r].at = "caller"
    /\ \/ /\ request[r].does = "faculty"
          /\ request' = [request EXCEPT ![r].at = "account", ![r].access = admin.access]
       \/ /\ request[r].does = "student"
          /\ request' = [request EXCEPT ![r].by = "institute",
                                        ![r].at = IF MayEnrol(request[r].by) THEN "suffix" ELSE "done"]
       \/ request[r].does = "tutor" /\ To(r, "account")
       \/ /\ request[r].does = "tutorStudent"
          /\ To(r, IF Approved(request[r].target) THEN "account" ELSE "done")
    /\ UNCHANGED <<users, details, admin, stops>>

\* The suffix is raised as long as some account has the address.
NextLogin(n) == IF Taken(n) THEN n + 1 ELSE n

PickLogin(r) ==
    /\ request[r].at = "suffix"
    /\ LET n == request[r].login IN
       /\ NextLogin(n) \in LoginIds
       /\ request' = [request EXCEPT ![r].login = NextLogin(n),
                                     ![r].at = IF NextLogin(n) = n THEN "account" ELSE "suffix"]
    /\ UNCHANGED <<users, details, admin, stops>>

\* Mutant: the flag is written as it was read, set or not.
NewAccount_AsRead(q) ==
    [role |-> q.does, login |-> q.login, active |-> q.does # "tutor", access |-> q.access]

\* The user document; tutors wait for the superadmin's approval.
NewAccount(q) ==
    [role |-> q.does, login |-> q.login, active |-> q.does # "tutor",
     access |-> q.does = "faculty" /\ q.access = TRUE]

InsertAccount(r) ==
    /\ request[r].at = "account"
    /\ users' = [users EXCEPT ![r] = NewAccount(request[r])]
    /\ To(r, IF request[r].does = "tutor" THEN "done" ELSE "details")
    /\ UNCHANGED <<details, admin, stops>>

InsertDetails(r) ==
    /\ request[r].at = "details"
    /\ details' = [details EXCEPT ![r] = [role |-> request[r].does, owner |-> request[r].target]]
    /\ To(r, "done")
    /\ UNCHANGED <<users, admin, stops>>

-----------------------------------------------------------------------------
(* Status and access flags *)

\* update_institute: a status, an access flag, or both.
BeginUpdateInstitute(r) ==
    /\ request[r].at = "idle"
    /\ "updateInstitute" \in Work[r]
    /\ \E active \in Flag, access \in Flag :
         Start(r, [Task0(r, "updateInstitute") EXCEPT
                      !.at = IF active = None THEN "flags" ELSE "status", !.target = "institute",
                      !.active = active, !.access = access])
    /\ UNCHANGED <<users, details, admin, stops>>

BeginUpdateTutor(r) ==
    /\ request[r].at = "idle"
    /\ "updateTutor" \in Work[r]
    /\ \E t \in Accounts : \E active \in Flag, e \in LoginIds \cup {None} :
         /\ users[t].role = "tutor"
         /\ Start(r, [Task0(r, "updateTutor") EXCEPT
                         !.at = IF active = None THEN "email" ELSE "status",
                         !.target = t, !.active = active, !.login = e])
    /\ UNCHANGED <<users, details, admin, stops>>

\* The owner's own account first.
SetStatus(r) ==
    /\ request[r].at = "status"
    /\ LET q == request[r] IN
       IF q.target = "institute"
       THEN /\ admin' = [admin EXCEPT !.active = q.active]
            /\ To(r, "faculty")
            /\ UNCHANGED users
       ELSE /\ users' = IF Exists(q.target) THEN [users EXCEPT ![q.target].active = q.active] ELSE users
            /\ To(r, "students")
            /\ UNCHANGED admin
    /\ UNCHANGED <<details, stops>>

\* cascade_institute_status lists the faculty and then the students;
\* cascade_tutor_status only the students.
ListFaculty(r) ==
    /\ request[r].at = "faculty"
    /\ request' = [request EXCEPT ![r].at = "students",
                                  ![r].found = Members("institute", {"faculty"})]
    /\ UNCHANGED <<users, details, admin, stops>>

ListedStudents(q) ==
    Members(q.target, IF q.target = "institute" THEN {"student"} ELSE {"tutorStudent"})

ListStudents(r) ==
    /\ request[r].at = "students"
    /\ request' = [request EXCEPT ![r].at = "members", ![r].found = @ \cup ListedStudents(request[r])]
    /\ UNCHANGED <<users, details, admin, stops>>

SetMembers(r) ==
    /\ request[r].at = "members"
    /\ LET q == request[r] IN
       /\ users' = [u \in Requests |-> IF u \in q.found /\ Exists(u)
                                       THEN [users[u] EXCEPT !.active = q.active] ELSE users[u]]
       /\ To(r, IF q.target = "institute" THEN "flags" ELSE "email")
    /\ UNCHANGED <<details, admin, stops>>

\* cascade_institute_access: faculty are listed first, then the
\* institute's own account and those of the faculty are updated.
ListForAccess(r) ==
    /\ request[r].at = "flags"
    /\ request' = [request EXCEPT ![r].at = IF @ = "flags" /\ request[r].access = None
                                            THEN "done" ELSE "adminAccess",
                                  ![r].found = Members("institute", {"faculty"})]
    /\ UNCHANGED <<users, details, admin, stops>>

SetAdminAccess(r) ==
    /\ request[r].at = "adminAccess"
    /\ admin' = [admin EXCEPT !.access = request[r].access]
    /\ To(r, "access")
    /\ UNCHANGED <<users, details, stops>>

SetFacultyAccess(r) ==
    /\ request[r].at = "access"
    /\ users' = [u \in Requests |-> IF u \in request[r].found /\ Exists(u)
                                    THEN [users[u] EXCEPT !.access = request[r].access] ELSE users[u]]
    /\ To(r, "done")
    /\ UNCHANGED <<details, admin, stops>>

-----------------------------------------------------------------------------
(* Edited login ids *)

\* update_faculty looks whether another account has the address.
BeginUpdateFaculty(r) ==
    /\ request[r].at = "idle"
    /\ "updateFaculty" \in Work[r]
    /\ \E u \in Members("institute", {"faculty"}), e \in LoginIds :
         /\ \A o \in Accounts \ {u} : users[o].login # e
         /\ Start(r, [Task0(r, "updateFaculty") EXCEPT !.at = "email", !.target = u, !.login = e])
    /\ UNCHANGED <<users, details, admin, stops>>

\* update_tutor and update_faculty write the address they were given, if any.
SetEmail(r) ==
    /\ request[r].at = "email"
    /\ LET q == request[r] IN
       users' = IF q.login # None /\ Exists(q.target)
                THEN [users EXCEPT ![q.target].login = q.login] ELSE users
    /\ To(r, "done")
    /\ UNCHANGED <<details, admin, stops>>

-----------------------------------------------------------------------------
(* Deletion *)

\* Faculty are found by their details, tutors by their account.
BeginDelete(r, does) ==
    /\ request[r].at = "idle"
    /\ does \in Work[r]
    /\ \/ /\ does = "deleteFaculty"
          /\ \E u \in Members("institute", {"faculty"}) :
               Start(r, [Task0(r, does) EXCEPT !.at = "removeDetails", !.target = u])
       \/ /\ does = "deleteTutor"
          /\ \E t \in Accounts :
               /\ users[t].role = "tutor"
               /\ Start(r, [Task0(r, does) EXCEPT !.at = "find", !.target = t])
    /\ UNCHANGED <<users, details, admin, stops>>

FindStudents(r) ==
    /\ request[r].at = "find"
    /\ request' = [request EXCEPT ![r].found = Members(request[r].target, {"tutorStudent"}),
                                  ![r].at = "remove"]
    /\ UNCHANGED <<users, details, admin, stops>>

RemoveStudents(r) ==
    /\ request[r].at = "remove"
    /\ users' = [u \in Requests |-> IF u \in request[r].found THEN None ELSE users[u]]
    /\ To(r, "removeDetails")
    /\ UNCHANGED <<details, admin, stops>>

RemoveDetails(r) ==
    /\ request[r].at = "removeDetails"
    /\ LET q == request[r]
           gone == IF q.does = "deleteFaculty" THEN {q.target}
                    ELSE Members(q.target, {"tutorStudent"}) IN
       details' = [u \in Requests |-> IF u \in gone THEN None ELSE details[u]]
    /\ To(r, "removeAccount")
    /\ UNCHANGED <<users, admin, stops>>

RemoveAccount(r) ==
    /\ request[r].at = "removeAccount"
    /\ users' = [users EXCEPT ![request[r].target] = None]
    /\ To(r, "done")
    /\ UNCHANGED <<details, admin, stops>>

\* delete_scoped_student: one transaction over both documents, refused when
\* either is missing.
DeleteStudent(r) ==
    /\ request[r].at = "idle"
    /\ "deleteStudent" \in Work[r]
    /\ \E u \in Accounts :
         /\ details[u] # None
         /\ details[u].role \in {"student", "tutorStudent"}
         /\ users' = [users EXCEPT ![u] = None]
         /\ details' = [details EXCEPT ![u] = None]
         /\ Start(r, [Task0(r, "deleteStudent") EXCEPT !.at = "done", !.target = u])
    /\ UNCHANGED <<admin, stops>>

-----------------------------------------------------------------------------
\* An operation fails, or the process ends: the rest of the handler does not
\* happen.  create_faculty_document raises after the account was inserted when
\* the details are not valid.
Stop(r) ==
    /\ Running(r)
    /\ stops < MaxStops
    /\ stops' = stops + 1
    /\ To(r, "stopped")
    /\ UNCHANGED <<users, details, admin>>

Step(r) ==
    \/ ReadCaller(r) \/ PickLogin(r) \/ InsertAccount(r) \/ InsertDetails(r)
    \/ SetStatus(r) \/ ListFaculty(r) \/ ListStudents(r) \/ SetMembers(r)
    \/ ListForAccess(r) \/ SetAdminAccess(r) \/ SetFacultyAccess(r) \/ SetEmail(r)
    \/ FindStudents(r) \/ RemoveStudents(r) \/ RemoveDetails(r) \/ RemoveAccount(r)

Next == \E r \in Requests :
    \/ \E does \in Registrations : BeginRegistration(r, does)
    \/ BeginUpdateInstitute(r) \/ BeginUpdateTutor(r) \/ BeginUpdateFaculty(r)
    \/ \E does \in {"deleteFaculty", "deleteTutor"} : BeginDelete(r, does)
    \/ DeleteStudent(r)
    \/ Step(r)
    \/ Stop(r)

Spec == Init /\ [][Next]_vars

-----------------------------------------------------------------------------
TypeOK ==
    /\ users \in [Requests -> Account \cup {None}]
    /\ details \in [Requests -> Detail \cup {None}]
    /\ admin \in [active : BOOLEAN, access : BOOLEAN]
    /\ request \in [Requests -> Task]
    /\ stops \in 0 .. MaxStops
    /\ \A u \in Requests : details[u] # None => request[u].at = "done"

Met(r, endpoints) == \E o \in request[r].met : request[o].does \in endpoints
Finishes(r) == Running(r) /\ request'[r].at = "done"

\* An update of the institute that met no registration and no other update
\* leaves every account of the institute with the flags it was asked to set,
\* whatever earlier requests raced or stopped; and a faculty account registered
\* while no update was under way has the institute's access flag.  A registered
\* account is active whatever the institute is: see CascadeReachesAll.
LoneRequestsAgree ==
    \A r \in Requests : Finishes(r) =>
         /\ request[r].does = "updateInstitute"
              /\ ~Met(r, InstituteRoles \cup {"updateInstitute"}) =>
                \A u \in Members("institute", InstituteRoles) : Exists(u) =>
                  /\ request[r].active # None => users'[u].active = admin'.active
                  /\ request[r].access # None /\ users[u].role = "faculty" =>
                       users'[u].access = admin'.access
         /\ request[r].at = "details" /\ request[r].does = "faculty"
              /\ ~Met(r, {"updateInstitute"}) => users'[r].access = admin.access

\* Two accounts have one login id only if their registrations overlapped, if
\* one got it by an edit of a tutor, which is not checked, or by an edit of a
\* faculty member that overlapped another request.
SharedLoginMeansRace ==
    \A a, b \in Accounts : a # b /\ users[a].login = users[b].login =>
        \/ b \in request[a].met
        \/ \E e \in Requests :
             /\ request[e].target \in {a, b}
             /\ \/ request[e].does = "updateTutor"
                \/ request[e].does = "updateFaculty" /\ request[e].met # {}

\* The deletion of a tutor that met no registration and no other deletion
\* leaves neither details nor accounts of the tutor's students, also when
\* earlier deletions stopped halfway; students whose own registration met a
\* deletion are excepted.
TutorDeleteIsComplete ==
    \A r \in Requests : request[r].does = "deleteTutor" /\ Finishes(r)
          /\ ~Met(r, {"tutorStudent", "deleteTutor"}) =>
            \A u \in Requests :
              request[u].does = "tutorStudent" /\ request[u].target = request[r].target =>
                /\ details'[u] = None
                /\ request[u].at = "done" /\ ~Met(u, {"deleteTutor"}) => users'[u] = None

-----------------------------------------------------------------------------

-----------------------------------------------------------------------------
\* What the documentation says beyond this and the code does not keep: the model
\* has behaviours against it (README, "Divergences").

\* _register_institute_student: "Unique login id: append a numeric suffix on
\* collision": no two accounts have the same login id.
LoginIdsUnique ==
    \A a, b \in Accounts : users[a].login = users[b].login => a = b

\* cascade_institute_status: when an institute is deactivated, the same value
\* is cascaded to "all faculty and institute_students under it"; once no
\* update is under way none of them is active.
CascadeReachesAll ==
    ~admin.active /\ (\A r \in Requests : request[r].does = "updateInstitute" => ~Running(r)
                                              /\ request[r].at # "stopped") =>
        \A u \in Members("institute", InstituteRoles) : Exists(u) => ~users[u].active
=============================================================================
