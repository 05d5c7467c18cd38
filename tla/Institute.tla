------------------------------ MODULE Institute -------------------------------
(* An institute's hierarchy and its cached lists, its accounts, those of     *)
(* tutors, the material of its subjects and its AI usage, side by side.      *)
(* These components share no state in the model, so a behaviour is one of    *)
(* them, the scenario.  The constants have their values in Institute.cfg;    *)
(* those that are functions are defined at the end.                          *)
EXTENDS Integers, Sequences, FiniteSets, TLC

CONSTANTS Rows, Kind, Link, Deleters, MaxKills,                     \* Hierarchy
          Lists, Readers, Writers, MaxWrites,                       \* HierarchyCache
          Actors, Work, LoginIds, MaxStops,            \* Enrolment
          Requests, Students, Teachers, Subjects, SubjectLists,
          Institutes,                                               \* SubjectMaterials
          Calls, Tracked, Tokens, Reconciler, Targets, Legacy,
          Attempts, MaxFaults,                                      \* UsageLedger
          None, Inactive

CONSTANTS a1, a2, a3, a4, a5  \* the requests that Work tells apart

VARIABLES scenario,
          status, login, actor, kills,                        \* Hierarchy
          data, entry, reader, writer, missed,                \* HierarchyCache
          users, details, admin, onAccount, stops,            \* Enrolment
          subjects, relations, materials, interactions,
          request, submitted,                                 \* SubjectMaterials
          spent, ledger, baseline, totals, task, faults       \* UsageLedger

-----------------------------------------------------------------------------
Tree == INSTANCE Hierarchy WITH Actors <- Deleters

Cache == INSTANCE HierarchyCache

Accounts == INSTANCE Enrolment WITH Requests <- Actors, request <- onAccount

Materials == INSTANCE SubjectMaterials

Usage == INSTANCE UsageLedger

ASSUME TreeConstants == Tree!ConstantsOK
ASSUME CacheConstants == Cache!ConstantsOK
ASSUME AccountsConstants == Accounts!ConstantsOK
ASSUME MaterialsConstants == Materials!ConstantsOK
ASSUME UsageConstants == Usage!ConstantsOK

-----------------------------------------------------------------------------
\* One component moves, the others are off.

ofTree == <<status, login, actor, kills>>
ofCache == <<data, entry, reader, writer, missed>>
ofAccounts == <<users, details, admin, onAccount, stops>>
ofMaterials == <<subjects, relations, materials, interactions, request, submitted>>
ofUsage == <<spent, ledger, baseline, totals, task, faults>>
vars == <<scenario, ofTree, ofCache, ofAccounts, ofMaterials, ofUsage>>

NoTree == status = Inactive /\ login = Inactive /\ actor = Inactive /\ kills = Inactive
NoCache == data = Inactive /\ entry = Inactive /\ reader = Inactive /\ writer = Inactive /\ missed = Inactive
NoAccounts == users = Inactive /\ details = Inactive /\ admin = Inactive /\ onAccount = Inactive /\ stops = Inactive
NoMaterials == /\ subjects = Inactive /\ relations = Inactive /\ materials = Inactive
               /\ interactions = Inactive /\ request = Inactive /\ submitted = Inactive
NoUsage == /\ spent = Inactive /\ ledger = Inactive /\ baseline = Inactive
           /\ totals = Inactive /\ task = Inactive /\ faults = Inactive

Init ==
  /\ scenario \in {"hierarchy", "cache", "accounts", "tutors", "materials", "usage"}
  /\ IF scenario = "hierarchy" THEN Tree!Init ELSE NoTree
  /\ IF scenario = "cache" THEN Cache!Init ELSE NoCache
  /\ IF scenario \in {"accounts", "tutors"} THEN Accounts!Init ELSE NoAccounts
  /\ IF scenario = "materials" THEN Materials!Init ELSE NoMaterials
  /\ IF scenario = "usage" THEN Usage!Init ELSE NoUsage

\* Accounts of the institute and those of tutors change in behaviours of their own.
TutorEndpoints == {"tutor", "tutorStudent", "updateTutor", "deleteTutor"}

AccountsNext(endpoints) ==
  /\ Accounts!Next
  /\ \A q \in Actors : onAccount'[q].at # "idle" => onAccount'[q].does \in endpoints

Next ==
  /\ UNCHANGED scenario
  /\ IF scenario = "hierarchy" THEN Tree!Next ELSE UNCHANGED ofTree
  /\ IF scenario = "cache" THEN Cache!Next ELSE UNCHANGED ofCache
  /\ CASE scenario = "accounts" -> AccountsNext(Accounts!Endpoints \ TutorEndpoints)
       [] scenario = "tutors" -> AccountsNext(TutorEndpoints \cup {"deleteStudent"})
       [] OTHER -> UNCHANGED ofAccounts
  /\ IF scenario = "materials" THEN Materials!Next ELSE UNCHANGED ofMaterials
  /\ IF scenario = "usage" THEN Usage!Next ELSE UNCHANGED ofUsage

Spec == Init /\ [][Next]_vars

Symmetry == Permutations(Readers) \cup Permutations(Writers)

-----------------------------------------------------------------------------
\* Types of every component.
TypeOK ==
  /\ scenario = "hierarchy" => Tree!TypeOK
  /\ scenario = "cache" => Cache!TypeOK
  /\ scenario \in {"accounts", "tutors"} => Accounts!TypeOK
  /\ scenario = "materials" => Materials!TypeOK
  /\ scenario = "usage" => Usage!TypeOK

\* Whatever earlier requests left undone: a DELETE in the hierarchy removes only
\* what is below its root, and all of the hierarchy that is, and one that stops
\* halfway leaves the owners by which it is found again; the deletion of a tutor
\* that met nobody leaves no student account; and an update of the institute
\* that met nobody leaves all accounts with the flags it set.
CascadesAreComplete ==
  [][/\ scenario = "hierarchy" => /\ Tree!DeletesItsOwn /\ Tree!DeleteLeavesNoOrphan
                                  /\ Tree!OwnersExist'
     /\ scenario = "accounts" => Accounts!LoneRequestsAgree
     /\ scenario = "tutors" => Accounts!TutorDeleteIsComplete]_vars

\* What the code leaves to chance goes wrong only by an overlap: when no writer
\* is at work, a cached list is out of date only if its load overlapped a write
\* or a bust was missed, and two accounts share a login id only if their
\* registrations overlapped or an edit did it.
AnomaliesMeanRaces ==
  /\ scenario = "cache" => Cache!StaleOnlyIfRaced
  /\ scenario \in {"accounts", "tutors"} => Accounts!SharedLoginMeansRace

\* What a student handed in is never lost to a later or concurrent visit, only
\* enrolled students see or answer a material, and material stays inside its
\* institute, while subjects are reassigned and deleted.
MaterialsForEnrolled == scenario = "materials" => Materials!MaterialsForEnrolled

\* Whichever writes of a usage record are retried or fail, and whichever
\* projections overlap: a call is charged at most once, a projected call stays
\* in the totals, and no call of the faculty product is made without a record.
LedgerExact == scenario = "usage" => Usage!LedgerExact

-----------------------------------------------------------------------------
(* Values of the constants that are functions *)

\* One row of each kind, and a batch that has no department.
KindOf == [r \in Rows |-> IF r = "batch of programme" THEN "batch" ELSE r]

\* The owners of r, from the school down.
OwnersOf(r) ==
  CASE r = "school" -> {}
    [] r \in {"programme", "faculty"} -> {"school"}
    [] r \in {"department", "batch of programme"} -> {"school", "programme"}
    [] r = "batch" -> {"school", "programme", "department"}
    [] r = "subject" -> {"school", "programme", "department", "batch"}
    [] r = "exam" -> {"school", "programme", "department", "batch", "subject"}
    [] r = "answer" -> {"exam"}

LinkOf == [r \in Rows |-> [k \in {KindOf[o] : o \in Rows} |->
  IF k \in OwnersOf(r) THEN k ELSE None]]

\* The first three change accounts of the institute, all five those of tutors;
\* each has endpoints of its own, so that every state is spent on a conflict.
WorkOf == [q \in Actors |->
  CASE q = a1 -> {"faculty", "tutor"}
    [] q = a2 -> {"student", "updateInstitute", "tutorStudent"}
    [] q = a3 -> {"updateInstitute", "updateFaculty", "deleteFaculty", "deleteStudent",
                  "deleteTutor"}
    [] q = a4 -> {"updateTutor"}
    [] q = a5 -> {"deleteTutor"}]

\* Two institutes with a teacher and a subject each, and a student who asks for
\* the same subject twice.
InstituteOf == [o \in Teachers \cup Subjects |-> IF o \in {"teacher1", "subject1"} THEN 1 ELSE 2]
Wishes == {<<"subject1", "subject1">>}

\* A call of the faculty product and one of the student's.
TokensOf == [c \in Calls |-> IF c \in Tracked THEN 1 ELSE 2]
OneOwner == <<"owner">>
LegacyOf == [o \in {"owner"} |-> 4]
=============================================================================
