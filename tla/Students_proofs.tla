--------------------------- MODULE Students_proofs ---------------------------
(***************************************************************************)
(* Theorems about what a student meets: mock tests (MockTests), the        *)
(* decision on every request by the state of the account and the sessions  *)
(* (AccountState) and by the rate limits (RateLimit), the material of a    *)
(* roadmap (RoadmapMaterials), the tutor's notes (TutorNotes) and the      *)
(* index of course material (CourseIndex), for any number of tests,        *)
(* requests, sessions, learners, jobs and files and any bounds.  What is   *)
(* known of the progress in a roadmap comes from Roadmaps_proofs.          *)
(***************************************************************************)
EXTENDS Students, FiniteSetTheorems, TLAPS

-----------------------------------------------------------------------------
\* Mock tests: the inductive invariant

\* The instances count as this module does.
LEMMA SameCardinality == \A S : Mock!Cardinality(S) = Cardinality(S) /\ Limits!Cardinality(S) = Cardinality(S)
BY DEF Mock!Cardinality, Limits!Cardinality, Cardinality

Attempting == {"marking", "saved"}
Attempt == [id : 1 .. MaxSubmits, of : Tests, by : Nat]

Counted(t) == {a \in attempt : a.of = t /\ ~Mock!Uncounted(a)}

\* A roadmap test keeps the questions it had; a subject test gets them once.
Shows(t, by) ==
  Mock!Exists(t) => by = test[t].questions \/ (by = 0 /\ test[t].mode = "subject")

\* The identity of a test that was deleted is not used again.
Used(t) == Mock!Exists(t) \/ generation[t] # "none"

TaskFits(x) ==
  /\ x.at = "inserted" =>
       \/ ~Mock!Exists(x.of) /\ generation[x.of] # "none"
       \/ /\ Mock!Exists(x.of) /\ generation[x.of] = "none"
          /\ test[x.of].questions = 0 /\ test[x.of].mode = x.mode
  /\ x.at \in Attempting =>
       /\ x.id <= submitted /\ x.id \notin uncounted
       /\ Used(x.of) /\ Shows(x.of, x.by)
  /\ x.at = "marking" => \A a \in attempt : a.id # x.id
  /\ x.at = "saved" => [id |-> x.id, of |-> x.of, by |-> x.by] \in attempt

\* Two requests neither created the same test nor save the same attempt.
Differ(x, y) ==
  /\ x.at = "inserted" /\ y.at = "inserted" => x.of # y.of
  /\ x.at \in Attempting /\ y.at \in Attempting => x.id # y.id

\* A job only writes to the subject test it was enqueued for, and once.
TestFits(t) ==
  /\ Mock!Exists(t) => test[t].questions <= 1
  /\ Mock!Exists(t) /\ generation[t] \in {"queued", "running"} =>
       test[t].questions = 0 /\ test[t].mode = "subject"

AttemptFits(a) == a.id <= submitted /\ Used(a.of) /\ Shows(a.of, a.by)

Types ==
  /\ test \in [Tests -> Mock!Documents \cup {Mock!Absent}]
  /\ attempt \subseteq Attempt /\ IsFiniteSet(attempt)
  /\ generation \in [Tests -> {"none", "queued", "running", "ended", "blank"}]
  /\ taking \in [Takers -> Mock!Working \cup {Mock!Idle}]
  /\ submitted \in 0 .. MaxSubmits
  /\ uncounted \subseteq 1 .. submitted
  /\ cutOff \subseteq Tests

TestsInv ==
  /\ Types
  /\ \A t \in Tests : TestFits(t)
  /\ \A r \in Takers : TaskFits(taking[r])
  /\ \A r, q \in Takers : r # q => Differ(taking[r], taking[q])
  /\ \A a \in attempt : AttemptFits(a)
  /\ \A a, b \in attempt : a.id = b.id => a = b
  /\ Mock!CountIsAttempts

LEMMA Constants == Mock!Absent \notin Mock!Documents /\ Mock!Idle \notin Mock!Working /\ Mock!Idle.at = "idle"
<1>1. DOMAIN Mock!Absent = {"mode"} /\ \A d \in Mock!Documents : "count" \in DOMAIN d
  BY DEF Mock!Absent, Mock!Documents
<1> QED
  BY <1>1 DEF Mock!Idle, Mock!Working

LEMMA TestsInit == ASSUME Mock!ConstantsOK, Mock!Init PROVE TestsInv
<1>0. /\ Mock!NewTest("roadmap") \in Mock!Documents
      /\ Mock!NewTest("roadmap").count = 0 /\ Mock!NewTest("roadmap").mode = "roadmap"
  <2>1. 0 \in 0 .. MaxSubmits
    BY DEF Mock!ConstantsOK
  <2> QED
    BY <2>1 DEF Mock!NewTest, Mock!Documents, Mock!Modes
<1>1. PICK old \in Mock!Documents :
        /\ old = [Mock!NewTest("roadmap") EXCEPT !.questions = 1]
        /\ old.count = 0 /\ old.questions = 1
  <2>1. PICK new \in Mock!Documents : new = Mock!NewTest("roadmap") /\ new.count = 0
    BY <1>0
  <2> DEFINE old == [new EXCEPT !.questions = 1]
  <2>2. old \in Mock!Documents
    BY <2>1 DEF Mock!Documents
  <2>3. old.count = 0 /\ old.questions = 1
    BY <2>1 DEF Mock!Documents
  <2> QED
    BY <2>1, <2>2, <2>3
<1>2. ASSUME NEW t \in Tests, Mock!Exists(t)
      PROVE  /\ test[t].count = 0 /\ test[t].questions = 1
  BY <1>1, <1>2 DEF Mock!Init, Mock!Exists
<1>3. Types
  BY <1>1, FS_EmptySet DEF Mock!Init, Types, Mock!ConstantsOK
<1>4. Mock!CountIsAttempts
  BY <1>2, FS_EmptySet, SameCardinality DEF Mock!CountIsAttempts, Mock!Init
<1>5. \A r \in Takers : TaskFits(taking[r])
  BY Constants DEF Mock!Init, TaskFits, Attempting
<1>6. \A r, q \in Takers : r # q => Differ(taking[r], taking[q])
  BY Constants DEF Mock!Init, Differ, Attempting
<1>7. \A t \in Tests : TestFits(t)
  BY <1>2 DEF TestFits, Mock!Init
<1> QED
  BY <1>3, <1>4, <1>5, <1>6, <1>7 DEF TestsInv, Mock!Init

\* Attempts have different numbers: there are no more than submissions.
LEMMA AttemptsBelow ==
  ASSUME Mock!ConstantsOK, TestsInv, NEW A \in SUBSET attempt
  PROVE  IsFiniteSet(A) /\ Cardinality(A) \in 0 .. submitted
<1>1. /\ IsFiniteSet(A) /\ submitted \in Nat /\ attempt \subseteq Attempt
  BY FS_Subset DEF TestsInv, Types, Mock!ConstantsOK
<1>2. \A a \in A : a.id \in 1 .. submitted
  BY <1>1 DEF TestsInv, AttemptFits, Attempt
<1>3. PICK f : f \in Injection(A, 1 .. submitted)
  <2> DEFINE f == [a \in A |-> a.id]
  <2>1. f \in [A -> 1 .. submitted]
    BY <1>2
  <2>2. \A a, b \in A : f[a] = f[b] => a = b
    BY <1>1 DEF TestsInv
  <2> HIDE DEF f
  <2> QED
    BY <2>1, <2>2 DEF Injection, IsInjective
<1>4. Cardinality(A) <= submitted
  <2>1. Cardinality(1 .. submitted) = submitted /\ IsFiniteSet(1 .. submitted)
    BY <1>1, FS_Interval
  <2> QED
    BY <1>3, <2>1, FS_Injection
<1>5. Cardinality(A) \in Nat
  BY <1>1, FS_CardinalityType
<1> QED
  BY <1>1, <1>4, <1>5

-----------------------------------------------------------------------------
\* What is counted is the same unless a request counts it

LEMMA SameCounted ==
  ASSUME Types, NEW r \in Takers, NEW next, taking' = [taking EXCEPT ![r] = next],
         taking[r].at # "saved", next.at # "saved", UNCHANGED <<attempt, uncounted>>
  PROVE  \A t \in Tests : Counted(t)' = Counted(t)
<1>1. taking'[r] = next /\ \A q \in Takers \ {r} : taking'[q] = taking[q]
  BY DEF Types
<1>2. \A a \in attempt : Mock!Uncounted(a)' <=> Mock!Uncounted(a)
  BY <1>1, Constants DEF Mock!Uncounted
<1> QED
  BY <1>2 DEF Counted

\* A request that goes on.
LEMMA TaskStep ==
  ASSUME Types, \A q \in Takers : TaskFits(taking[q]),
         \A p, q \in Takers : p # q => Differ(taking[p], taking[q]),
         NEW r \in Takers, NEW next \in Mock!Working \cup {Mock!Idle},
         taking' = [taking EXCEPT ![r] = next], TaskFits(next)',
         \A q \in Takers \ {r} : TaskFits(taking[q])',
         \A q \in Takers \ {r} : Differ(next, taking[q]) /\ Differ(taking[q], next)
  PROVE  /\ taking' \in [Takers -> Mock!Working \cup {Mock!Idle}]
         /\ (\A q \in Takers : TaskFits(taking[q]))'
         /\ (\A p, q \in Takers : p # q => Differ(taking[p], taking[q]))'
<1>1. /\ taking' \in [Takers -> Mock!Working \cup {Mock!Idle}] /\ taking'[r] = next
      /\ \A q \in Takers \ {r} : taking'[q] = taking[q]
  BY DEF Types
<1>2. ASSUME NEW q \in Takers PROVE TaskFits(taking[q])'
  <2>1. CASE q = r
    BY <1>1, <2>1
  <2>2. CASE q # r
    BY <2>2
  <2> QED
    BY <2>1, <2>2
<1>3. ASSUME NEW p \in Takers, NEW q \in Takers, p # q PROVE Differ(taking[p], taking[q])'
  BY <1>1, <1>3 DEF Differ
<1> QED
  BY <1>1, <1>2, <1>3

\* What a request knows of its test when the test does not lose its questions.
LEMMA OthersFit ==
  ASSUME Mock!ConstantsOK, Types, NEW x \in Mock!Working \cup {Mock!Idle}, TaskFits(x),
         attempt \subseteq attempt', submitted' \in Nat, submitted <= submitted',
         x.at \in Attempting => x.id \notin uncounted',
         x.at = "marking" => \A a \in attempt' \ attempt : a.id # x.id,
         \A t \in Tests : Used(t) => Used(t)',
         \A t \in Tests : Mock!Exists(t)' /\ Used(t) => Mock!Exists(t) /\ test'[t].mode = test[t].mode,
         x.at = "inserted" =>
           \/ ~Mock!Exists(x.of)' /\ generation'[x.of] # "none"
           \/ /\ Mock!Exists(x.of)' /\ generation'[x.of] = generation[x.of]
              /\ test'[x.of].questions = test[x.of].questions,
         \A t \in Tests : Mock!Exists(t)' /\ Used(t) =>
           \/ test'[t].questions = test[t].questions
           \/ test[t].questions = 0 /\ test[t].mode = "subject"
  PROVE  TaskFits(x)'
<1>1. submitted \in Nat
  BY DEF Types, Mock!ConstantsOK
<1>2. CASE x.at = "inserted"
  <2>1. x.of \in Tests /\ x.at \notin Attempting /\ x.at # "marking" /\ x.at # "saved"
    BY <1>2, Constants DEF Mock!Working, Attempting
  <2>2. ~Mock!Exists(x.of) => Used(x.of)
    BY <1>2 DEF TaskFits, Used
  <2> QED
    BY <1>2, <2>1, <2>2 DEF TaskFits, Used
<1>3. CASE x.at \in Attempting
  <2>1. x.of \in Tests /\ x.id \in Nat /\ x.at # "inserted"
    BY <1>3, Constants DEF Mock!Working, Attempting
  <2>2. Shows(x.of, x.by)'
    BY <1>3, <2>1 DEF TaskFits, Shows
  <2> QED
    BY <1>1, <1>3, <2>1, <2>2 DEF TaskFits, Attempting
<1>4. CASE x.at \notin {"inserted"} \cup Attempting
  BY <1>4 DEF TaskFits, Attempting
<1> QED
  BY <1>2, <1>3, <1>4

\* A step of request r that counts nothing: tests keep their mode and count, and
\* their questions once they have any; new ones have no attempts.
TestsStay(r) ==
  /\ submitted' \in submitted .. MaxSubmits /\ cutOff' \subseteq Tests
  /\ test' \in [Tests -> Mock!Documents \cup {Mock!Absent}]
  /\ generation' \in [Tests -> {"none", "queued", "running", "ended", "blank"}]
  /\ \A t \in Tests : Used(t) => Used(t)'
  /\ \A t \in Tests : TestFits(t)'
  /\ \A t \in Tests : Mock!Exists(t)' /\ Used(t) =>
       /\ Mock!Exists(t) /\ test'[t].mode = test[t].mode /\ test'[t].count = test[t].count
       /\ \/ test'[t].questions = test[t].questions
          \/ test[t].questions = 0 /\ test[t].mode = "subject"
  /\ \A t \in Tests : Mock!Exists(t)' /\ ~Used(t) => test'[t].count = 0
  /\ \A q \in Takers \ {r}, t \in Tests : taking[q].at = "inserted" /\ taking[q].of = t =>
       \/ ~Mock!Exists(t)' /\ generation'[t] # "none"
       \/ Mock!Exists(t)' /\ generation'[t] = generation[t] /\ test'[t].questions = test[t].questions

\* The attempts and the counts stay.
LEMMA QuietStep ==
  ASSUME Mock!ConstantsOK, TestsInv, NEW r \in Takers, NEW next \in Mock!Working \cup {Mock!Idle},
         taking' = [taking EXCEPT ![r] = next],
         taking[r].at # "saved", next.at # "saved", TaskFits(next)',
         \A q \in Takers \ {r} : Differ(next, taking[q]) /\ Differ(taking[q], next),
         UNCHANGED <<attempt, uncounted>>, TestsStay(r)
  PROVE  TestsInv'
<1>0. Types /\ submitted \in Nat /\ submitted' \in Nat /\ submitted <= submitted'
  BY DEF TestsInv, Types, Mock!ConstantsOK, TestsStay
<1>1. \A q \in Takers \ {r} : TaskFits(taking[q])'
  <2> SUFFICES ASSUME NEW q \in Takers \ {r} PROVE TaskFits(taking[q])'
    OBVIOUS
  <2>1. PICK x \in Mock!Working \cup {Mock!Idle} : x = taking[q] /\ taking'[q] = x
    BY <1>0 DEF Types
  <2>2. TaskFits(x)
    BY <2>1 DEF TestsInv
  <2>3. x.at \in Attempting => x.id \notin uncounted'
    BY <2>2 DEF TaskFits
  <2>4. x.at = "inserted" =>
           \/ ~Mock!Exists(x.of)' /\ generation'[x.of] # "none"
           \/ /\ Mock!Exists(x.of)' /\ generation'[x.of] = generation[x.of]
              /\ test'[x.of].questions = test[x.of].questions
    BY <2>1, Constants DEF TestsStay, Mock!Working
  <2>5. TaskFits(x)'
    BY <1>0, <2>1, <2>2, <2>3, <2>4, OthersFit DEF TestsStay
  <2> QED
    BY <2>1, <2>5
<1>2. /\ taking' \in [Takers -> Mock!Working \cup {Mock!Idle}]
      /\ (\A q \in Takers : TaskFits(taking[q]))'
      /\ (\A p, q \in Takers : p # q => Differ(taking[p], taking[q]))'
  BY <1>0, <1>1, TaskStep DEF TestsInv
<1>3. \A a \in attempt : AttemptFits(a)'
  <2> SUFFICES ASSUME NEW a \in attempt PROVE AttemptFits(a)'
    OBVIOUS
  <2>1. a.of \in Tests /\ a.id \in Nat /\ AttemptFits(a)
    BY <1>0 DEF TestsInv, Types, Attempt
  <2> QED
    BY <1>0, <2>1 DEF AttemptFits, Shows, TestsStay
<1>4. \A t \in Tests : Counted(t)' = Counted(t)
  BY <1>0, SameCounted
<1>5. Mock!CountIsAttempts'
  <2> SUFFICES ASSUME NEW t \in Tests, Mock!Exists(t)'
               PROVE  test'[t].count = Cardinality(Counted(t)')
    BY SameCardinality DEF Mock!CountIsAttempts, Counted
  <2>1. CASE Used(t)
    BY <1>4, <2>1, SameCardinality DEF TestsInv, Mock!CountIsAttempts, Counted, TestsStay
  <2>2. CASE ~Used(t)
    <3>1. Counted(t) = {}
      BY <2>2 DEF Counted, TestsInv, AttemptFits
    <3> QED
      BY <1>4, <2>2, <3>1, FS_EmptySet DEF TestsStay
  <2> QED
    BY <2>1, <2>2
<1>6. Types'
  BY <1>0, <1>2 DEF Types, TestsStay
<1>7. (\A a, b \in attempt : a.id = b.id => a = b)' /\ (\A a \in attempt : AttemptFits(a))'
  BY <1>3 DEF TestsInv
<1> QED
  BY <1>2, <1>5, <1>6, <1>7 DEF TestsInv, TestsStay

\* A step of no request.
LEMMA JobQuiet ==
  ASSUME Mock!ConstantsOK, TestsInv, NEW t \in Tests,
         UNCHANGED <<attempt, taking, submitted, uncounted>>, cutOff' \subseteq Tests,
         generation[t] # "none", NEW to \in {"running", "ended", "blank"}, generation' = [generation EXCEPT ![t] = to],
         to = "running" => generation[t] = "queued",
         test' \in [Tests -> Mock!Documents \cup {Mock!Absent}],
         \A x \in Tests \ {t} : test'[x] = test[x],
         Mock!Exists(t)' <=> Mock!Exists(t),
         Mock!Exists(t) => /\ test'[t].mode = test[t].mode /\ test'[t].count = test[t].count
                           /\ test'[t].questions # test[t].questions =>
                                /\ generation[t] = "running" /\ to = "ended"
                                /\ test'[t].questions = test[t].questions + 1
  PROVE  TestsInv'
<1>0. Types /\ submitted \in Nat
  BY DEF TestsInv, Types, Mock!ConstantsOK
<1>1. /\ generation' \in [Tests -> {"none", "queued", "running", "ended", "blank"}] /\ generation'[t] = to
      /\ \A x \in Tests \ {t} : generation'[x] = generation[x]
  BY <1>0 DEF Types
<1>2. \A x \in Tests : /\ Mock!Exists(x)' <=> Mock!Exists(x)
                       /\ Used(x) <=> Used(x)'
  BY <1>1 DEF Mock!Exists, Used
<1>3. ASSUME NEW x \in Tests, Mock!Exists(x)
      PROVE  /\ test'[x].mode = test[x].mode /\ test'[x].count = test[x].count
             /\ \/ test'[x].questions = test[x].questions
                \/ test[x].questions = 0 /\ test[x].mode = "subject"
  BY <1>3 DEF TestsInv, TestFits
<1>4. ASSUME NEW x \in Tests PROVE TestFits(x)'
  <2>1. TestFits(x)
    BY DEF TestsInv
  <2>2. CASE x # t
    BY <1>1, <2>1, <2>2 DEF TestFits, Mock!Exists
  <2>3. CASE x = t
    BY <1>1, <2>1, <2>3 DEF TestFits
  <2> QED
    BY <2>2, <2>3
<1>5. ASSUME NEW q \in Takers PROVE TaskFits(taking[q])'
  <2>1. PICK x \in Mock!Working \cup {Mock!Idle} : x = taking[q] /\ taking'[q] = x
    BY <1>0 DEF Types
  <2>2. TaskFits(x)
    BY <2>1 DEF TestsInv
  <2>3. x.at \in Attempting => x.id \notin uncounted'
    BY <2>2 DEF TaskFits
  <2>4. x.at = "inserted" => x.of \in Tests
    BY Constants DEF Mock!Working
  <2>5. x.at = "inserted" =>
           \/ ~Mock!Exists(x.of)' /\ generation'[x.of] # "none"
           \/ /\ Mock!Exists(x.of)' /\ generation'[x.of] = generation[x.of]
              /\ test'[x.of].questions = test[x.of].questions
    <3>1. CASE x.at = "inserted" /\ x.of = t
      BY <1>1, <1>2, <2>2, <3>1 DEF TaskFits
    <3>2. CASE x.at = "inserted" /\ x.of # t
      BY <1>1, <1>2, <2>2, <2>4, <3>2 DEF TaskFits
    <3> QED
      BY <3>1, <3>2
  <2>6. TaskFits(x)'
    BY <1>0, <1>2, <1>3, <2>2, <2>3, <2>5, OthersFit
  <2> QED
    BY <2>1, <2>6
<1>6. \A a \in attempt : AttemptFits(a)'
  <2> SUFFICES ASSUME NEW a \in attempt PROVE AttemptFits(a)'
    OBVIOUS
  <2>1. a.of \in Tests /\ a.id \in Nat /\ AttemptFits(a)
    BY <1>0 DEF TestsInv, Types, Attempt
  <2> QED
    BY <1>2, <1>3, <2>1 DEF AttemptFits, Shows
<1>7. Mock!CountIsAttempts'
  BY <1>2, <1>3, SameCardinality DEF TestsInv, Mock!CountIsAttempts, Mock!Uncounted
<1>8. Types'
  BY <1>0, <1>1 DEF Types
<1>9. /\ (\A a, b \in attempt : a.id = b.id => a = b)'
      /\ (\A p, q \in Takers : p # q => Differ(taking[p], taking[q]))'
  BY DEF TestsInv, Differ
<1> QED
  BY <1>4, <1>5, <1>6, <1>7, <1>8, <1>9 DEF TestsInv

-----------------------------------------------------------------------------
\* The steps

\* Of an idle request nothing is known, and it differs from every other.
LEMMA IdleFits ==
  /\ TaskFits(Mock!Idle)' /\ \A x : Differ(Mock!Idle, x) /\ Differ(x, Mock!Idle)
BY Constants DEF TaskFits, Differ, Attempting

\* What a request that is not idle knows.
LEMMA RequestFits ==
  ASSUME TestsInv, NEW r \in Takers, taking[r].at # "idle"
  PROVE  /\ taking[r] \in Mock!Working /\ TaskFits(taking[r]) /\ taking[r].of \in Tests
         /\ \A q \in Takers \ {r} : Differ(taking[r], taking[q]) /\ Differ(taking[q], taking[r])
BY Constants DEF TestsInv, Types, Mock!Working

LEMMA TestsInsert ==
  ASSUME Mock!ConstantsOK, TestsInv, NEW r \in Takers, NEW t \in Tests, NEW mode \in Mock!Modes,
         Mock!InsertTest(r, t, mode)
  PROVE  TestsInv'
<1>1. Types /\ taking[r] = Mock!Idle /\ ~Mock!Exists(t) /\ generation[t] = "none" /\ ~Used(t)
  BY DEF Mock!InsertTest, TestsInv, Mock!Exists, Used
<1>2. PICK new \in Mock!Documents : /\ new = Mock!NewTest(mode) /\ new.mode = mode
                                    /\ new.questions = 0 /\ new.count = 0
  <2>1. 0 \in 0 .. MaxSubmits
    BY DEF Mock!ConstantsOK
  <2>2. Mock!NewTest(mode) \in Mock!Documents
    BY <2>1 DEF Mock!NewTest, Mock!Documents
  <2> QED
    BY <2>2 DEF Mock!NewTest
<1>3. PICK next \in Mock!Working :
        /\ next.at = "inserted" /\ next.of = t /\ next.mode = mode
        /\ taking' = [taking EXCEPT ![r] = next]
  <2>1. [at |-> "inserted", of |-> t, mode |-> mode] \in Mock!Working
    BY DEF Mock!Working
  <2> QED
    BY <2>1 DEF Mock!InsertTest, Mock!Goto
<1>4. /\ test' = [test EXCEPT ![t] = new] /\ UNCHANGED <<attempt, generation, submitted, uncounted, cutOff>>
  BY <1>2 DEF Mock!InsertTest
<1>5. /\ test' \in [Tests -> Mock!Documents \cup {Mock!Absent}] /\ test'[t] = new
      /\ \A x \in Tests \ {t} : test'[x] = test[x]
  BY <1>1, <1>4 DEF Types
<1>6. Mock!Exists(t)' /\ \A x \in Tests \ {t} : Mock!Exists(x)' <=> Mock!Exists(x)
  BY <1>5, Constants DEF Mock!Exists
<1>7. TaskFits(next)'
  BY <1>1, <1>2, <1>3, <1>4, <1>5, <1>6 DEF TaskFits, Attempting
<1>8. ASSUME NEW q \in Takers \ {r}
      PROVE  /\ Differ(next, taking[q]) /\ Differ(taking[q], next)
             /\ taking[q].at = "inserted" => taking[q].of \in Tests \ {t}
  <2>1. taking[q].at # "idle" => taking[q].of # t /\ taking[q].of \in Tests
    BY Constants, RequestFits DEF Mock!InsertTest
  <2> QED
    BY <1>3, <2>1 DEF Differ, Attempting
<1>9. \A x \in Tests : TestFits(x)'
  BY <1>1, <1>2, <1>4, <1>5, <1>6 DEF TestsInv, TestFits
<1>10. ASSUME NEW q \in Takers \ {r}, NEW x \in Tests, taking[q].at = "inserted", taking[q].of = x
       PROVE  \/ ~Mock!Exists(x)' /\ generation'[x] # "none"
              \/ Mock!Exists(x)' /\ generation'[x] = generation[x] /\ test'[x].questions = test[x].questions
  <2>1. TaskFits(taking[q]) /\ taking[q].of \in Tests \ {t}
    BY <1>8, <1>10 DEF TestsInv
  <2> QED
    BY <1>4, <1>5, <1>6, <1>10, <2>1 DEF TaskFits
<1>11. /\ \A x \in Tests : Used(x) => Used(x)'
       /\ \A x \in Tests : Mock!Exists(x)' /\ Used(x) => Mock!Exists(x) /\ test'[x] = test[x]
       /\ \A x \in Tests : Mock!Exists(x)' /\ ~Used(x) => test'[x].count = 0
  BY <1>1, <1>2, <1>4, <1>5, <1>6 DEF Used
<1>12. submitted' \in submitted .. MaxSubmits /\ cutOff' \subseteq Tests
  BY <1>1, <1>4 DEF Types, Mock!ConstantsOK
<1>13. TestsStay(r)
  BY <1>1, <1>4, <1>5, <1>9, <1>10, <1>11, <1>12 DEF TestsStay, Types
<1> QED
  BY <1>1, <1>3, <1>4, <1>7, <1>8, <1>13, Constants, QuietStep

\* A request ends without having counted anything; one that created a subject
\* test may enqueue its job.
LEMMA TestsEnd ==
  ASSUME Mock!ConstantsOK, TestsInv, NEW r \in Takers, taking[r].at \notin {"idle", "saved"},
         Mock!Reply(r), UNCHANGED <<test, attempt, submitted, uncounted, cutOff>>,
         \/ generation' = generation
         \/ /\ taking[r].at = "inserted" /\ taking[r].mode = "subject"
            /\ generation' = [generation EXCEPT ![taking[r].of] = "queued"]
  PROVE  TestsInv'
<1>1. /\ Types /\ taking[r] \in Mock!Working /\ TaskFits(taking[r]) /\ taking[r].of \in Tests
      /\ \A q \in Takers \ {r} : Differ(taking[r], taking[q])
  BY RequestFits DEF TestsInv
<1>2. PICK t \in Tests : t = taking[r].of
  BY <1>1
<1>3. /\ generation' \in [Tests -> {"none", "queued", "running", "ended", "blank"}]
      /\ \A x \in Tests \ {t} : generation'[x] = generation[x]
      /\ generation'[t] = generation[t] \/ (taking[r].at = "inserted" /\ taking[r].mode = "subject" /\ generation'[t] = "queued")
  BY <1>1, <1>2 DEF Types
<1>4. \A x \in Tests : (Mock!Exists(x)' <=> Mock!Exists(x)) /\ (Used(x) => Used(x)')
  BY <1>3 DEF Mock!Exists, Used
<1>5. \A x \in Tests : TestFits(x)'
  <2> SUFFICES ASSUME NEW x \in Tests PROVE TestFits(x)'
    OBVIOUS
  <2>1. TestFits(x)
    BY DEF TestsInv
  <2>2. CASE generation'[x] = generation[x]
    BY <1>4, <2>1, <2>2 DEF TestFits
  <2>3. CASE x = t /\ taking[r].at = "inserted" /\ taking[r].mode = "subject"
    BY <1>1, <1>2, <1>4, <2>1, <2>3 DEF TestFits, TaskFits
  <2> QED
    BY <1>3, <2>2, <2>3
<1>6. ASSUME NEW q \in Takers \ {r}, NEW x \in Tests, taking[q].at = "inserted", taking[q].of = x
      PROVE  \/ ~Mock!Exists(x)' /\ generation'[x] # "none"
             \/ Mock!Exists(x)' /\ generation'[x] = generation[x] /\ test'[x].questions = test[x].questions
  <2>1. TaskFits(taking[q]) /\ taking[q].of \in Tests /\ Differ(taking[r], taking[q])
    BY <1>1, <1>6, RequestFits
  <2>2. generation'[taking[q].of] = generation[taking[q].of]
    BY <1>2, <1>3, <1>6, <2>1 DEF Differ
  <2> QED
    BY <1>4, <1>6, <2>1, <2>2 DEF TaskFits
<1>7. \A x \in Tests : Mock!Exists(x)' => Used(x)
  BY <1>4 DEF Used
<1>8. submitted' \in submitted .. MaxSubmits /\ cutOff' \subseteq Tests
  BY <1>1 DEF Types, Mock!ConstantsOK
<1>9. taking' = [taking EXCEPT ![r] = Mock!Idle]
  BY DEF Mock!Reply, Mock!Goto
<1>10. TestsStay(r)
  BY <1>1, <1>3, <1>4, <1>5, <1>6, <1>7, <1>8 DEF TestsStay, Types
<1> QED
  BY <1>9, <1>10, IdleFits, Constants, QuietStep

LEMMA TestsRead ==
  ASSUME Mock!ConstantsOK, TestsInv, NEW r \in Takers, NEW t \in Tests, Mock!ReadForSubmit(r, t)
  PROVE  TestsInv'
<1>1. /\ Types /\ taking[r] = Mock!Idle /\ Mock!Exists(t) /\ test[t] \in Mock!Documents
      /\ submitted \in Nat /\ submitted < MaxSubmits /\ submitted' = submitted + 1
      /\ UNCHANGED <<test, attempt, generation, uncounted, cutOff>>
  BY DEF Mock!ReadForSubmit, TestsInv, Types, Mock!Exists, Mock!ConstantsOK
<1>2. PICK next \in Mock!Working :
        /\ next.at = "marking" /\ next.of = t /\ next.id = submitted + 1
        /\ next.by = test[t].questions /\ taking' = [taking EXCEPT ![r] = next]
  <2> DEFINE n == [at |-> "marking", of |-> t, id |-> submitted + 1,
                   by |-> test[t].questions, mode |-> test[t].mode, seen |-> test[t].count]
  <2>1. submitted + 1 \in 1 .. MaxSubmits /\ test[t].questions \in Nat /\ test[t].mode \in Mock!Modes
        /\ test[t].count \in 0 .. MaxSubmits
    BY <1>1 DEF Mock!Documents, Mock!ConstantsOK
  <2>2. n \in Mock!Working
    BY <2>1 DEF Mock!Working
  <2> QED
    BY <2>2 DEF Mock!ReadForSubmit, Mock!Goto
<1>3. \A x \in Tests : (Mock!Exists(x)' <=> Mock!Exists(x)) /\ (Used(x)' <=> Used(x)) /\ (Mock!Exists(x)' => Used(x))
  BY <1>1 DEF Mock!Exists, Used
<1>4. \A a \in attempt : a.id # submitted + 1
  BY <1>1 DEF TestsInv, AttemptFits, Types, Attempt
<1>5. submitted + 1 \notin uncounted
  BY <1>1 DEF Types
<1>6. TaskFits(next)'
  BY <1>1, <1>2, <1>3, <1>4, <1>5 DEF TaskFits, Attempting, Shows
<1>7. ASSUME NEW q \in Takers \ {r}
      PROVE  Differ(next, taking[q]) /\ Differ(taking[q], next)
  <2>1. taking[q].at \in Attempting => taking[q].id <= submitted /\ taking[q].id \in Nat
    <3> SUFFICES ASSUME taking[q].at \in Attempting PROVE taking[q].id <= submitted /\ taking[q].id \in Nat
      OBVIOUS
    <3>1. taking[q] \in Mock!Working /\ TaskFits(taking[q])
      BY RequestFits DEF Attempting
    <3> QED
      BY <3>1 DEF TaskFits, Attempting, Mock!Working
  <2> QED
    BY <1>1, <1>2, <2>1 DEF Differ
<1>8. \A x \in Tests : TestFits(x)'
  BY <1>1, <1>3 DEF TestsInv, TestFits
<1>9. ASSUME NEW q \in Takers \ {r}, NEW x \in Tests, taking[q].at = "inserted", taking[q].of = x
      PROVE  \/ ~Mock!Exists(x)' /\ generation'[x] # "none"
             \/ Mock!Exists(x)' /\ generation'[x] = generation[x] /\ test'[x].questions = test[x].questions
  <2>1. TaskFits(taking[q]) /\ taking[q].of \in Tests
    BY <1>9, RequestFits
  <2> QED
    BY <1>1, <1>3, <1>9, <2>1 DEF TaskFits
<1>10. submitted' \in submitted .. MaxSubmits /\ cutOff' \subseteq Tests
  BY <1>1 DEF Types, Mock!ConstantsOK
<1>11. TestsStay(r)
  BY <1>1, <1>3, <1>8, <1>9, <1>10 DEF TestsStay, Types
<1> QED
  BY <1>1, <1>2, <1>6, <1>7, <1>11, Constants, QuietStep

LEMMA TestsDelete ==
  ASSUME Mock!ConstantsOK, TestsInv, NEW r \in Takers, NEW t \in Tests, Mock!DeleteTest(r, t)
  PROVE  TestsInv'
<1>1. /\ Types /\ taking[r] = Mock!Idle /\ Mock!Exists(t)
      /\ test' = [test EXCEPT ![t] = Mock!Absent]
      /\ UNCHANGED <<attempt, taking, submitted, uncounted, cutOff>>
  BY DEF Mock!DeleteTest, TestsInv
<1>2. /\ test' \in [Tests -> Mock!Documents \cup {Mock!Absent}] /\ test'[t] = Mock!Absent
      /\ \A x \in Tests \ {t} : test'[x] = test[x]
  BY <1>1 DEF Types
<1>3. /\ generation' \in [Tests -> {"none", "queued", "running", "ended", "blank"}] /\ generation'[t] # "none"
      /\ \A x \in Tests \ {t} : generation'[x] = generation[x]
  BY <1>1 DEF Types, Mock!DeleteTest
<1>4. ~Mock!Exists(t)' /\ \A x \in Tests \ {t} : Mock!Exists(x)' <=> Mock!Exists(x)
  BY <1>2 DEF Mock!Exists
<1>5. /\ \A x \in Tests : Used(x) => Used(x)'
      /\ \A x \in Tests : Mock!Exists(x)' => Mock!Exists(x) /\ Used(x) /\ test'[x] = test[x]
  BY <1>2, <1>3, <1>4 DEF Used
<1>6. \A x \in Tests : TestFits(x)'
  BY <1>2, <1>3, <1>4 DEF TestsInv, TestFits
<1>7. ASSUME NEW q \in Takers \ {r}, NEW x \in Tests, taking[q].at = "inserted", taking[q].of = x
      PROVE  \/ ~Mock!Exists(x)' /\ generation'[x] # "none"
             \/ Mock!Exists(x)' /\ generation'[x] = generation[x] /\ test'[x].questions = test[x].questions
  <2>1. TaskFits(taking[q]) /\ taking[q].of \in Tests
    BY <1>7, RequestFits
  <2>2. CASE x = t
    BY <1>3, <1>4, <2>2
  <2>3. CASE x # t
    <3>1. /\ test'[x] = test[x] /\ generation'[x] = generation[x] /\ (Mock!Exists(x)' <=> Mock!Exists(x))
          /\ ~Mock!Exists(x) => generation[x] # "none"
      BY <1>2, <1>3, <1>4, <1>7, <2>1, <2>3 DEF TaskFits
    <3> QED
      BY <3>1
  <2> QED
    BY <2>2, <2>3
<1>8. taking' = [taking EXCEPT ![r] = Mock!Idle]
  BY <1>1 DEF Types
<1>9. submitted' \in submitted .. MaxSubmits /\ cutOff' \subseteq Tests
  BY <1>1 DEF Types, Mock!ConstantsOK
<1>10. TestsStay(r)
  BY <1>1, <1>2, <1>3, <1>5, <1>6, <1>7, <1>9 DEF TestsStay, Types
<1> QED
  BY <1>1, <1>8, <1>10, IdleFits, Constants, QuietStep

LEMMA TestsJobs ==
  ASSUME Mock!ConstantsOK, TestsInv, NEW t \in Tests, Mock!JobStep(t) \/ Mock!WorkerDies(t)
  PROVE  TestsInv'
<1>1. Types
  BY DEF TestsInv
<1>2. CASE Mock!StartJob(t) \/ Mock!WorkerDies(t)
  <2>1. cutOff' \subseteq Tests
    BY <1>1, <1>2 DEF Mock!StartJob, Mock!WorkerDies, Types
  <2> QED
    BY <1>1, <1>2, <2>1, JobQuiet DEF Mock!StartJob, Mock!WorkerDies, Types, Mock!Exists
<1>3. ASSUME NEW some \in {0, 1}, Mock!SaveQuestions(t, some) \/ Mock!GenerationFails(t, some)
      PROVE  TestsInv'
  <2>1. PICK to \in {"ended", "blank"} :
          /\ cutOff' \subseteq Tests /\ UNCHANGED <<attempt, taking, submitted, uncounted>>
          /\ generation[t] = "running" /\ generation' = [generation EXCEPT ![t] = to]
          /\ some = 1 => to = "ended"
    BY <1>1, <1>3 DEF Types, Mock!SaveQuestions, Mock!GenerationFails
  <2>2. CASE ~Mock!Exists(t)
    <3>1. test' = test
      BY <1>3, <2>2 DEF Mock!SaveQuestions, Mock!GenerationFails
    <3> QED
      BY <1>1, <2>1, <2>2, <3>1, JobQuiet DEF Types, Mock!Exists
  <2>3. CASE Mock!Exists(t)
    <3>1. test[t] \in Mock!Documents
      BY <1>1, <2>3 DEF Types, Mock!Exists
    <3>2. PICK new \in Mock!Documents :
            /\ test' = [test EXCEPT ![t] = new]
            /\ new.mode = test[t].mode /\ new.count = test[t].count
            /\ new.questions = test[t].questions + some
      <4>1. CASE Mock!SaveQuestions(t, some)
        <5> DEFINE n == [test[t] EXCEPT !.questions = test[t].questions + some]
        <5>1. n \in Mock!Documents
          BY <3>1 DEF Mock!Documents
        <5>2. /\ n.mode = test[t].mode /\ n.count = test[t].count
              /\ n.questions = test[t].questions + some
          BY <3>1 DEF Mock!Documents
        <5>3. test' = [test EXCEPT ![t] = n]
          BY <2>3, <4>1 DEF Mock!SaveQuestions
        <5> QED
          BY <5>1, <5>2, <5>3
      <4>2. CASE Mock!GenerationFails(t, some)
        <5> DEFINE n == [test[t] EXCEPT !.error = TRUE, !.questions = test[t].questions + some]
        <5>1. n \in Mock!Documents
          <6>1. PICK q \in Nat : q = test[t].questions + some
            BY <3>1 DEF Mock!Documents
          <6>2. [test[t] EXCEPT !.error = TRUE, !.questions = q] \in Mock!Documents
            BY <3>1 DEF Mock!Documents
          <6> QED
            BY <6>1, <6>2
        <5>2. /\ n.mode = test[t].mode /\ n.count = test[t].count
              /\ n.questions = test[t].questions + some
          BY <3>1 DEF Mock!Documents
        <5>3. test' = [test EXCEPT ![t] = n]
          BY <2>3, <4>2 DEF Mock!GenerationFails
        <5> QED
          BY <5>1, <5>2, <5>3
      <4> QED
        BY <1>3, <4>1, <4>2
    <3>3. /\ test' \in [Tests -> Mock!Documents \cup {Mock!Absent}] /\ test'[t] = new
          /\ \A x \in Tests \ {t} : test'[x] = test[x]
      BY <1>1, <3>2 DEF Types
    <3>4. Mock!Exists(t)'
      BY <3>3, Constants DEF Mock!Exists
    <3>5. test'[t].questions # test[t].questions => some = 1
      BY <3>1, <3>2, <3>3 DEF Mock!Documents
    <3> QED
      BY <2>1, <2>3, <3>2, <3>3, <3>4, <3>5, JobQuiet
  <2> QED
    BY <2>2, <2>3
<1> QED
  BY <1>2, <1>3 DEF Mock!JobStep

\* The attempt is saved before it is counted.
LEMMA TestsSave ==
  ASSUME Mock!ConstantsOK, TestsInv, NEW r \in Takers, Mock!InsertAttempt(r)
  PROVE  TestsInv'
<1>1. /\ Types /\ taking[r].at = "marking" /\ taking[r] \in Mock!Working /\ TaskFits(taking[r])
      /\ \A q \in Takers \ {r} : Differ(taking[r], taking[q]) /\ Differ(taking[q], taking[r])
      /\ UNCHANGED <<test, generation, submitted, uncounted, cutOff>>
  BY RequestFits DEF Mock!InsertAttempt, TestsInv
<1>2. PICK new \in Attempt : /\ new = [id |-> taking[r].id, of |-> taking[r].of, by |-> taking[r].by]
                             /\ new.id = taking[r].id /\ new.of = taking[r].of /\ new.by = taking[r].by
                             /\ attempt' = attempt \cup {new}
  <2>1. [id |-> taking[r].id, of |-> taking[r].of, by |-> taking[r].by] \in Attempt
    BY <1>1 DEF Mock!Working, Attempt
  <2> QED
    BY <2>1 DEF Mock!InsertAttempt
<1>3. PICK next \in Mock!Working :
        /\ next.at = "saved" /\ next.id = new.id /\ next.of = new.of /\ next.by = new.by
        /\ taking' = [taking EXCEPT ![r] = next]
  <2> DEFINE n == [taking[r] EXCEPT !.at = "saved"]
  <2>1. n \in Mock!Working
    BY <1>1 DEF Mock!Working
  <2>2. n.at = "saved" /\ n.id = new.id /\ n.of = new.of /\ n.by = new.by
    BY <1>1, <1>2 DEF Mock!Working
  <2> QED
    BY <2>1, <2>2 DEF Mock!InsertAttempt, Mock!Goto
<1>4. /\ new \notin attempt /\ \A a \in attempt : a.id # new.id
      /\ AttemptFits(new) /\ new.id \notin uncounted
  BY <1>1, <1>2 DEF TaskFits, Attempting, AttemptFits
<1>5. /\ \A t \in Tests : Mock!Exists(t)' <=> Mock!Exists(t)
      /\ \A t \in Tests : Used(t)' <=> Used(t)
  BY <1>1 DEF Mock!Exists, Used
<1>6. TaskFits(next)'
  <2>1. [id |-> next.id, of |-> next.of, by |-> next.by] \in attempt'
    BY <1>2, <1>3
  <2>2. new.of \in Tests
    BY DEF Attempt
  <2>3. /\ next.id <= submitted' /\ next.id \notin uncounted' /\ Used(next.of)' /\ Shows(next.of, next.by)'
    BY <1>1, <1>3, <1>4, <1>5, <2>2 DEF AttemptFits, Shows
  <2> QED
    BY <1>3, <2>1, <2>3 DEF TaskFits
<1>7. \A q \in Takers \ {r} : Differ(next, taking[q]) /\ Differ(taking[q], next)
  BY <1>1, <1>2, <1>3 DEF Differ, Attempting
<1>8. ASSUME NEW q \in Takers \ {r} PROVE TaskFits(taking[q])'
  <2>1. PICK x \in Mock!Working \cup {Mock!Idle} : x = taking[q] /\ taking'[q] = x
    BY <1>1, <1>3 DEF Types
  <2>2. TaskFits(x)
    BY <2>1 DEF TestsInv
  <2>3. x.at = "marking" => x.id # new.id
    BY <1>1, <1>2, <2>1 DEF Differ, Attempting
  <2>4. x.at = "inserted" => x.of \in Tests
    BY Constants DEF Mock!Working
  <2>5. x.at \in Attempting => x.of \in Tests
    BY Constants DEF Mock!Working, Attempting
  <2>6. (x.at \in Attempting => Used(x.of)' /\ Shows(x.of, x.by)')
        /\ (x.at = "inserted" => (Mock!Exists(x.of)' <=> Mock!Exists(x.of)))
    BY <1>1, <1>5, <2>2, <2>4, <2>5 DEF TaskFits, Shows
  <2>7. TaskFits(x)'
    BY <1>1, <1>2, <2>2, <2>3, <2>6 DEF TaskFits
  <2> QED
    BY <2>1, <2>7
<1>9. /\ taking' \in [Takers -> Mock!Working \cup {Mock!Idle}]
      /\ (\A q \in Takers : TaskFits(taking[q]))'
      /\ (\A p, q \in Takers : p # q => Differ(taking[p], taking[q]))'
  BY <1>1, <1>3, <1>6, <1>7, <1>8, TaskStep DEF TestsInv
<1>10. /\ taking'[r] = next /\ \A q \in Takers \ {r} : taking'[q] = taking[q]
  BY <1>1, <1>3 DEF Types
<1>11. Mock!Uncounted(new)' /\ \A a \in attempt : Mock!Uncounted(a)' <=> Mock!Uncounted(a)
  <2>1. Mock!Uncounted(new)'
    BY <1>3, <1>10, Constants DEF Mock!Uncounted
  <2>2. ASSUME NEW a \in attempt PROVE Mock!Uncounted(a)' <=> Mock!Uncounted(a)
    BY <1>1, <1>3, <1>4, <1>10 DEF Mock!Uncounted
  <2> QED
    BY <2>1, <2>2
<1>12. Mock!CountIsAttempts'
  <2> SUFFICES ASSUME NEW t \in Tests, Mock!Exists(t)'
               PROVE  test'[t].count = Cardinality(Counted(t)')
    BY SameCardinality DEF Mock!CountIsAttempts, Counted
  <2>1. Counted(t)' = Counted(t)
    BY <1>2, <1>4, <1>11 DEF Counted
  <2> QED
    BY <1>1, <1>5, <2>1, SameCardinality DEF TestsInv, Mock!CountIsAttempts, Counted
<1>13. (\A a \in attempt : AttemptFits(a))'
  <2> SUFFICES ASSUME NEW a \in attempt \cup {new} PROVE AttemptFits(a)'
    BY <1>2
  <2>1. AttemptFits(a) /\ a.of \in Tests
    BY <1>1, <1>4 DEF TestsInv, Types, Attempt
  <2> QED
    BY <1>1, <1>5, <2>1 DEF AttemptFits, Shows
<1>14. (\A a, b \in attempt : a.id = b.id => a = b)'
  BY <1>2, <1>4 DEF TestsInv
<1>15. Types'
  BY <1>1, <1>2, <1>9, FS_AddElement DEF Types
<1>16. \A t \in Tests : TestFits(t)'
  BY <1>1, <1>5 DEF TestsInv, TestFits
<1> QED
  BY <1>9, <1>12, <1>13, <1>14, <1>15, <1>16 DEF TestsInv

\* A saved attempt is counted, or its request dies and it never is.
LEMMA TestsCount ==
  ASSUME Mock!ConstantsOK, TestsInv, NEW r \in Takers, taking[r].at = "saved", Mock!Reply(r),
         UNCHANGED <<attempt, generation, submitted, cutOff>>,
         \/ /\ test' = IF Mock!Exists(taking[r].of) THEN [test EXCEPT ![taking[r].of].count = @ + 1] ELSE test
            /\ uncounted' = uncounted
         \/ test' = test /\ uncounted' = uncounted \cup {taking[r].id}
  PROVE  TestsInv'
<1>1. /\ Types /\ taking[r] \in Mock!Working /\ TaskFits(taking[r]) /\ taking[r].of \in Tests
      /\ \A q \in Takers \ {r} : Differ(taking[r], taking[q]) /\ Differ(taking[q], taking[r])
      /\ submitted \in Nat /\ taking' = [taking EXCEPT ![r] = Mock!Idle]
  BY RequestFits DEF TestsInv, Types, Mock!ConstantsOK, Mock!Reply, Mock!Goto
<1>2. PICK a \in attempt : a.id = taking[r].id /\ a.of = taking[r].of /\ a \in Attempt
  BY <1>1 DEF TaskFits, Types
<1>3. PICK t \in Tests : t = a.of
  BY <1>2 DEF Attempt
<1>4. /\ taking'[r] = Mock!Idle /\ \A q \in Takers \ {r} : taking'[q] = taking[q]
  BY <1>1 DEF Types
<1>5. /\ a.id \in 1 .. submitted /\ a.id \notin uncounted
      /\ \A b \in attempt : b.id = a.id => b = a
      /\ \A q \in Takers \ {r} : taking[q].at \in Attempting => taking[q].id # a.id
  BY <1>1, <1>2 DEF TaskFits, Attempting, TestsInv, Attempt, Differ
<1>6. Mock!Uncounted(a)
  BY <1>2, Constants DEF Mock!Uncounted
<1>7. \A b \in attempt \ {a} : Mock!Uncounted(b)' <=> Mock!Uncounted(b)
  <2> SUFFICES ASSUME NEW b \in attempt \ {a} PROVE Mock!Uncounted(b)' <=> Mock!Uncounted(b)
    OBVIOUS
  <2>1. b.id # a.id
    BY <1>5
  <2>2. b.id \in uncounted' <=> b.id \in uncounted
    BY <1>2, <2>1
  <2> QED
    BY <1>2, <1>4, <2>1, <2>2 DEF Mock!Uncounted
<1>8. \/ /\ uncounted' = uncounted /\ ~Mock!Uncounted(a)'
         /\ \/ Mock!Exists(t) /\ test' = [test EXCEPT ![t].count = @ + 1]
            \/ ~Mock!Exists(t) /\ test' = test
      \/ test' = test /\ uncounted' = uncounted \cup {a.id} /\ Mock!Uncounted(a)'
  <2>1. CASE uncounted' = uncounted
    <3>1. ~Mock!Uncounted(a)'
      BY <1>4, <1>5, <2>1 DEF Mock!Uncounted, Attempting
    <3> QED
      BY <1>2, <1>3, <1>5, <2>1, <3>1
  <2>2. CASE test' = test /\ uncounted' = uncounted \cup {taking[r].id}
    <3>1. Mock!Uncounted(a)'
      BY <1>2, <2>2 DEF Mock!Uncounted
    <3> QED
      BY <1>2, <2>2, <3>1
  <2> QED
    BY <2>1, <2>2
<1>9. uncounted' \subseteq 1 .. submitted
  BY <1>1, <1>5, <1>8 DEF Types
<1>10. /\ \A x \in Tests \ {t} : test'[x] = test[x]
       /\ Mock!Exists(t)' <=> Mock!Exists(t)
       /\ test' \in [Tests -> Mock!Documents \cup {Mock!Absent}]
       /\ Mock!Exists(t) => /\ test'[t].mode = test[t].mode
                            /\ test'[t].questions = test[t].questions
                            /\ test'[t].count = Cardinality(Counted(t)')
  <2>1. CASE test' = test /\ (Mock!Uncounted(a)' \/ ~Mock!Exists(t))
    <3>1. Mock!Exists(t) => Counted(t)' = Counted(t)
      BY <1>6, <1>7, <2>1 DEF Counted
    <3> QED
      BY <1>1, <2>1, <3>1, SameCardinality DEF Types, Mock!Exists, TestsInv, Mock!CountIsAttempts, Counted
  <2>2. CASE Mock!Exists(t) /\ test' = [test EXCEPT ![t].count = @ + 1] /\ ~Mock!Uncounted(a)'
    <3>1. Counted(t)' = Counted(t) \cup {a} /\ a \notin Counted(t)
      BY <1>2, <1>3, <1>6, <1>7, <2>2 DEF Counted
    <3>2. /\ Counted(t) \in SUBSET attempt /\ Counted(t) \cup {a} \in SUBSET attempt
      BY DEF Counted
    <3>3. /\ IsFiniteSet(Counted(t)) /\ Cardinality(Counted(t)) \in Nat
          /\ Cardinality(Counted(t) \cup {a}) \in 0 .. submitted
      BY <1>1, <3>2, AttemptsBelow
    <3>4. Cardinality(Counted(t)') = Cardinality(Counted(t)) + 1
      BY <3>1, <3>3, FS_AddElement
    <3>5. test[t].count = Cardinality(Counted(t))
      BY <2>2, SameCardinality DEF TestsInv, Mock!CountIsAttempts, Counted
    <3>6. test[t].count + 1 \in 0 .. MaxSubmits
      BY <1>1, <3>1, <3>3, <3>4, <3>5 DEF Types, Mock!ConstantsOK
    <3>7. test[t] \in Mock!Documents
      BY <1>1, <2>2 DEF Types, Mock!Exists
    <3>8. PICK new \in Mock!Documents :
            /\ test' = [test EXCEPT ![t] = new] /\ new.mode = test[t].mode
            /\ new.questions = test[t].questions /\ new.count = test[t].count + 1
      <4> DEFINE n == [test[t] EXCEPT !.count = test[t].count + 1]
      <4>1. n \in Mock!Documents
        BY <3>6, <3>7 DEF Mock!Documents
      <4>2. n.mode = test[t].mode /\ n.questions = test[t].questions /\ n.count = test[t].count + 1
        BY <3>7 DEF Mock!Documents
      <4>3. test' = [test EXCEPT ![t] = n]
        BY <2>2
      <4> QED
        BY <4>1, <4>2, <4>3
    <3>9. test'[t] = new /\ \A x \in Tests \ {t} : test'[x] = test[x]
      BY <1>1, <3>8 DEF Types
    <3> QED
      BY <1>1, <2>2, <3>4, <3>5, <3>8, <3>9, Constants DEF Types, Mock!Exists
  <2> QED
    BY <1>8, <2>1, <2>2
<1>11. \A x \in Tests : /\ Mock!Exists(x)' <=> Mock!Exists(x)
                        /\ Used(x)' <=> Used(x)
                        /\ Mock!Exists(x) => /\ test'[x].mode = test[x].mode
                                             /\ test'[x].questions = test[x].questions
  BY <1>10 DEF Mock!Exists, Used
<1>12. Mock!CountIsAttempts'
  <2> SUFFICES ASSUME NEW x \in Tests, Mock!Exists(x)'
               PROVE  test'[x].count = Cardinality(Counted(x)')
    BY SameCardinality DEF Mock!CountIsAttempts, Counted
  <2>1. CASE x = t
    BY <1>10, <2>1
  <2>2. CASE x # t
    <3>1. Counted(x)' = Counted(x)
      BY <1>3, <1>7, <2>2 DEF Counted
    <3> QED
      BY <1>10, <1>11, <2>2, <3>1, SameCardinality DEF TestsInv, Mock!CountIsAttempts, Counted
  <2> QED
    BY <2>1, <2>2
<1>13. ASSUME NEW q \in Takers \ {r} PROVE TaskFits(taking[q])'
  <2>1. PICK x \in Mock!Working \cup {Mock!Idle} : x = taking[q] /\ taking'[q] = x
    BY <1>1, <1>4 DEF Types
  <2>2. TaskFits(x)
    BY <2>1 DEF TestsInv
  <2>3. x.at = "inserted" => x.of \in Tests
    BY Constants DEF Mock!Working
  <2>4. x.at \in Attempting => x.of \in Tests /\ x.id \notin uncounted'
    <3>1. x.at \in Attempting => x.of \in Tests
      BY Constants DEF Mock!Working, Attempting
    <3> QED
      BY <1>5, <1>8, <2>1, <2>2, <3>1 DEF TaskFits
  <2>5. x.at \in Attempting => Used(x.of)' /\ Shows(x.of, x.by)'
    BY <1>11, <2>2, <2>4 DEF TaskFits, Shows
  <2>6. TaskFits(x)'
    BY <1>11, <2>2, <2>3, <2>4, <2>5 DEF TaskFits
  <2> QED
    BY <2>1, <2>6
<1>14. /\ taking' \in [Takers -> Mock!Working \cup {Mock!Idle}]
       /\ (\A q \in Takers : TaskFits(taking[q]))'
       /\ (\A p, q \in Takers : p # q => Differ(taking[p], taking[q]))'
  BY <1>1, <1>13, IdleFits, TaskStep DEF TestsInv
<1>15. \A b \in attempt : AttemptFits(b)'
  <2> SUFFICES ASSUME NEW b \in attempt PROVE AttemptFits(b)'
    OBVIOUS
  <2>1. b.of \in Tests /\ AttemptFits(b)
    BY <1>1 DEF TestsInv, Types, Attempt
  <2> QED
    BY <1>11, <2>1 DEF AttemptFits, Shows
<1>16. Types'
  BY <1>1, <1>9, <1>10, <1>14 DEF Types
<1>17. \A x \in Tests : TestFits(x)'
  BY <1>11 DEF TestsInv, TestFits
<1>18. (\A b, c \in attempt : b.id = c.id => b = c)' /\ (\A b \in attempt : AttemptFits(b))'
  BY <1>15 DEF TestsInv
<1> QED
  BY <1>12, <1>14, <1>16, <1>17, <1>18 DEF TestsInv

LEMMA TestsStep ==
  ASSUME Mock!ConstantsOK, TestsInv, [Mock!Next]_Mock!vars
  PROVE  TestsInv'
<1>1. CASE \E r \in Takers : Mock!RequestStep(r)
  <2>1. PICK r \in Takers : Mock!RequestStep(r)
    BY <1>1
  <2>2. CASE \E t \in Tests : \/ \E mode \in Mock!Modes : Mock!InsertTest(r, t, mode)
                              \/ Mock!ReadForSubmit(r, t) \/ Mock!DeleteTest(r, t)
    BY <2>2, TestsInsert, TestsRead, TestsDelete
  <2>3. CASE Mock!EnqueueGeneration(r)
    BY <2>3, TestsEnd DEF Mock!EnqueueGeneration
  <2>4. CASE Mock!GroundingRaises(r) \/ Mock!MarkingFails(r)
    BY <2>4, TestsEnd DEF Mock!GroundingRaises, Mock!MarkingFails
  <2>5. CASE Mock!InsertAttempt(r)
    BY <2>5, TestsSave
  <2>6. CASE Mock!CountAttempt(r)
    BY <2>6, TestsCount DEF Mock!CountAttempt
  <2>7. CASE Mock!RequestDies(r)
    <3>1. taking[r].at # "idle"
      BY <2>7, Constants DEF Mock!RequestDies, TestsInv, Types, Mock!Working
    <3>2. CASE taking[r].at = "saved"
      BY <2>7, <3>2, TestsCount DEF Mock!RequestDies
    <3>3. CASE taking[r].at # "saved"
      BY <2>7, <3>1, <3>3, TestsEnd DEF Mock!RequestDies
    <3> QED
      BY <3>2, <3>3
  <2> QED
    BY <2>1, <2>2, <2>3, <2>4, <2>5, <2>6, <2>7 DEF Mock!RequestStep
<1>2. CASE \E t \in Tests : Mock!JobStep(t) \/ Mock!WorkerDies(t)
  BY <1>2, TestsJobs
<1>3. CASE UNCHANGED Mock!vars
  <2>1. UNCHANGED <<test, attempt, generation, taking, submitted, uncounted, cutOff>>
    BY <1>3 DEF Mock!vars
  <2>2. Types' /\ Mock!CountIsAttempts'
    BY <2>1, SameCardinality DEF TestsInv, Types, Mock!CountIsAttempts, Mock!Exists, Mock!Uncounted
  <2>3. /\ (\A t \in Tests : TestFits(t))' /\ (\A a \in attempt : AttemptFits(a))'
        /\ (\A r \in Takers : TaskFits(taking[r]))'
    BY <2>1 DEF TestsInv, TestFits, AttemptFits, TaskFits, Mock!Exists, Used, Shows
  <2> QED
    BY <2>1, <2>2, <2>3 DEF TestsInv, Differ
<1> QED
  BY <1>1, <1>2, <1>3 DEF Mock!Next

LEMMA TestsKeep == ASSUME Mock!ConstantsOK, TestsInv PROVE Mock!TypeOK /\ Mock!ReviewShowsMarkedQuestions
<1>1. Mock!TypeOK
  BY DEF TestsInv, Types, TestFits, Mock!TypeOK, Attempt, Mock!ConstantsOK
<1>2. Mock!ReviewShowsMarkedQuestions
  BY DEF TestsInv, AttemptFits, Shows, Mock!ReviewShowsMarkedQuestions
<1> QED
  BY <1>1, <1>2


-----------------------------------------------------------------------------
\* Account and sessions: the inductive invariant

\* The account had the state at or after from.
HadSince(state, from) ==
  \E t \in 0..Horizon : from <= t /\ t <= now /\ state \in past[t]

\* A session that ended stays in the record of the revocations for as long as
\* its token is valid.
SessionsInv ==
  /\ \A t \in Tokens : token[t] # None => token[t] <= now
  /\ \A t \in ended : /\ token[t] # None
                      /\ t \in revoked.tokens
                      /\ token[t] + Life <= revoked.until

\* What a request has read: at "store" the state it looked up in time, at
\* "cutoff" one that is recent enough, unless it could not look it up; a late
\* request has an ended session.
Reads(q) ==
  /\ q.late => q.token \in ended
  /\ q.late /\ Account!Valid(q.token) /\ "cutoff" \notin q.unread
       => q.at \notin {"admitted", "password"}
  /\ q.at = "store" => /\ q.state \in past[q.since]
                       /\ q.since <= now /\ now <= q.since + MaxDelay
  /\ q.at = "cutoff" /\ "account" \notin q.unread
       => HadSince(q.state, q.since - TTL - MaxDelay)

AccountInv ==
  /\ Account!TypeOK
  /\ SessionsInv
  /\ user \in past[now]
  /\ now < cache.until => HadSince(cache.state, cache.until - TTL - MaxDelay)
  /\ \A r \in Callers : Reads(request[r])

LEMMA AccountInit == ASSUME Account!ConstantsOK, Account!Init PROVE AccountInv
<1>1. Account!TypeOK
  <2>1. Account!Gone \in Account!State /\ user \in Account!State /\ 0 \in 0..Horizon
    <3>1. user \in [blocked: {FALSE}, must: BOOLEAN]
      BY DEF Account!Init
    <3>2. [blocked: {FALSE}, must: BOOLEAN] \subseteq Account!State /\ Account!Gone \in Account!State
      BY DEF Account!State, Account!Gone
    <3>3. 0 \in 0..Horizon
      BY DEF Account!ConstantsOK
    <3> QED
      BY <3>1, <3>2, <3>3
  <2>2. Account!Free \in Account!Request
    BY <2>1 DEF Account!Free, Account!Request
  <2>3. cache \in [state: Account!State, until: 0..Horizon + TTL]
    BY <2>1 DEF Account!Init, Account!NoEntry, Account!ConstantsOK
  <2>4. revoked \in [tokens: SUBSET Tokens, until: 0..Horizon + Life]
    BY DEF Account!Init, Account!NoRevocation, Account!ConstantsOK
  <2>5. past \in [0..Horizon -> SUBSET Account!State]
    BY <2>1 DEF Account!Init
  <2> QED
    BY <2>1, <2>2, <2>3, <2>4, <2>5 DEF Account!Init, Account!TypeOK, Account!ConstantsOK
<1>2. SessionsInv /\ user \in past[now] /\ ~(now < cache.until)
  BY DEF Account!Init, SessionsInv, Account!ConstantsOK, Account!NoEntry
<1>3. \A r \in Callers : Reads(request[r])
  <2>1. Account!Free.at = "idle" /\ Account!Free.late = FALSE
    BY DEF Account!Free
  <2>2. Reads(Account!Free)
    BY <2>1 DEF Reads
  <2>3. request = [r \in Callers |-> Account!Free]
    BY DEF Account!Init
  <2>4. \A r \in Callers : request[r] = Account!Free
    BY <2>3
  <2> QED
    BY <2>2, <2>4
<1> QED
  BY <1>1, <1>2, <1>3 DEF AccountInv

\* Time goes on, states and ended sessions are added: what was recent for a
\* fixed second stays so.
LEMMA HadStays ==
  ASSUME Account!ConstantsOK, Account!TypeOK, Account!TypeOK', now <= now',
         \A t \in 0..now : past[t] \subseteq past'[t],
         NEW state, NEW from \in Int, HadSince(state, from)
  PROVE  HadSince(state, from)'
BY DEF HadSince, Account!TypeOK, Account!ConstantsOK

LEMMA ReadsStay ==
  ASSUME Account!ConstantsOK, Account!TypeOK, Account!TypeOK', SessionsInv, now <= now',
         \A t \in 0..now : past[t] \subseteq past'[t],
         ended \subseteq ended', \A t \in ended : token'[t] = token[t],
         NEW q \in Account!Request, Reads(q),
         q.at = "store" => now' <= q.since + MaxDelay
  PROVE  Reads(q)'
<1>1. q.since \in 0..Horizon /\ q.since - TTL - MaxDelay \in Int
  BY DEF Account!Request, Account!ConstantsOK
<1>2. q.at = "cutoff" /\ "account" \notin q.unread
        => HadSince(q.state, q.since - TTL - MaxDelay)'
  BY <1>1, HadStays DEF Reads
<1>3. ASSUME q.at = "store" PROVE q.state \in past'[q.since] /\ q.since <= now'
  <2>1. q.state \in past[q.since] /\ q.since <= now
    BY <1>3 DEF Reads
  <2>2. q.since \in 0..now /\ now \in Nat /\ now' \in Nat
    BY <1>1, <2>1 DEF Account!TypeOK, Account!ConstantsOK
  <2> QED
    BY <2>1, <2>2
<1>4. q.late => q.token \in ended'
  BY DEF Reads
<1>5. ASSUME q.late, Account!Valid(q.token)', "cutoff" \notin q.unread
      PROVE  q.at \notin {"admitted", "password"}
  <2>1. q.token \in ended /\ token'[q.token] = token[q.token] /\ q.token \in Tokens
    BY <1>5 DEF Reads, Account!TypeOK
  <2>2. token[q.token] # None /\ token[q.token] \in 0..Horizon
    BY <2>1 DEF SessionsInv, Account!TypeOK
  <2>3. Account!Valid(q.token)
    BY <1>5, <2>1, <2>2 DEF Account!Valid, Account!TypeOK, Account!ConstantsOK
  <2> QED
    BY <1>5, <2>3 DEF Reads
<1> QED
  BY <1>2, <1>3, <1>4, <1>5 DEF Reads

\* Nothing but a request changes, and the number of failures.
Elsewhere ==
  /\ UNCHANGED <<now, user, cache, revoked, token, writer, past, ended>>
  /\ events' \in 0..MaxEvents

LEMMA FailsFits ==
  ASSUME Account!ConstantsOK, AccountInv, Account!Fails \/ UNCHANGED events
  PROVE  events' \in 0..MaxEvents
BY DEF Account!Fails, AccountInv, Account!TypeOK, Account!ConstantsOK

\* One request goes on, nothing else changes.
LEMMA OneGoes ==
  ASSUME Account!ConstantsOK, AccountInv, NEW r \in Callers, NEW next \in Account!Request,
         Account!Goes(r, next), Reads(next), Elsewhere
  PROVE  AccountInv'
<1>1. request' \in [Callers -> Account!Request] /\ request' = [request EXCEPT ![r] = next]
  BY DEF Account!Goes, AccountInv, Account!TypeOK
<1>2. Account!TypeOK'
  BY <1>1 DEF AccountInv, Account!TypeOK, Elsewhere
<1>3. \A s \in Callers : Reads(request'[s])
  BY <1>1 DEF AccountInv, Account!TypeOK
<1>4. \A s \in Callers : Reads(request[s])'
  BY <1>3 DEF Reads, HadSince, Account!Valid, Elsewhere
<1> QED
  BY <1>2, <1>4 DEF AccountInv, SessionsInv, HadSince, Elsewhere

LEMMA AccountStart ==
  ASSUME Account!ConstantsOK, AccountInv, NEW r \in Callers, NEW t \in Tokens, Account!Start(r, t)
  PROVE  AccountInv'
<1>1. PICK hit \in BOOLEAN :
        /\ hit => now < cache.until
        /\ Account!Goes(r, [at |-> IF hit THEN "cutoff" ELSE "lookup", token |-> t,
                            state |-> cache.state, since |-> now, unread |-> {},
                            late |-> t \in ended,
                            told |-> writer = <<>> /\ ~user.must /\ ~user.blocked])
        /\ Account!Fails \/ UNCHANGED events
  BY DEF Account!Start
<1> DEFINE next == [at |-> IF hit THEN "cutoff" ELSE "lookup", token |-> t,
                    state |-> cache.state, since |-> now, unread |-> {}, late |-> t \in ended,
                    told |-> writer = <<>> /\ ~user.must /\ ~user.blocked]
<1>2. next \in Account!Request
  BY DEF AccountInv, Account!TypeOK, Account!Request
<1>3. next.at = "cutoff" => HadSince(next.state, next.since - TTL - MaxDelay)
  BY <1>1 DEF AccountInv, Account!TypeOK, HadSince, Account!ConstantsOK
<1>4. Reads(next)
  BY <1>3 DEF Reads
<1>5. Account!Goes(r, next) /\ Elsewhere
  BY <1>1, FailsFits DEF Account!Start, Elsewhere
<1> HIDE DEF next
<1> QED
  BY <1>2, <1>4, <1>5, OneGoes

\* The state is looked up, or it is unknown.
LEMMA AccountLookup ==
  ASSUME Account!ConstantsOK, AccountInv, NEW r \in Callers, Account!Lookup(r)
  PROVE  AccountInv'
<1>1. request[r] \in Account!Request /\ request[r].at = "lookup" /\ Reads(request[r])
  BY DEF AccountInv, Account!TypeOK, Account!Lookup
<1>2. Elsewhere
  BY FailsFits DEF Account!Lookup, Elsewhere
<1>3. CASE Account!Goes(r, [request[r] EXCEPT !.at = "store", !.state = user, !.since = now])
  <2> DEFINE next == [request[r] EXCEPT !.at = "store", !.state = user, !.since = now]
  <2>1. /\ next \in Account!Request /\ next.at = "store" /\ next.state = user /\ next.since = now
        /\ next.late = request[r].late /\ next.token = request[r].token
    BY <1>1 DEF AccountInv, Account!TypeOK, Account!Request
  <2>2. Account!Goes(r, next)
    BY <1>3
  <2> HIDE DEF next
  <2>3. Reads(next)
    BY <1>1, <2>1 DEF Reads, AccountInv, Account!TypeOK, Account!ConstantsOK
  <2> QED
    BY <1>2, <2>1, <2>2, <2>3, OneGoes
<1>4. CASE Account!Goes(r, [request[r] EXCEPT !.at = "cutoff", !.state = Account!Unknown,
                              !.since = now, !.unread = @ \cup {"account"}])
  <2> DEFINE next == [request[r] EXCEPT !.at = "cutoff", !.state = Account!Unknown,
                        !.since = now, !.unread = @ \cup {"account"}]
  <2>1. Account!Unknown \in Account!State
    BY DEF Account!Unknown, Account!State
  <2>2. /\ next \in Account!Request /\ next.at = "cutoff" /\ "account" \in next.unread
        /\ next.late = request[r].late /\ next.token = request[r].token
    BY <1>1, <2>1 DEF AccountInv, Account!TypeOK, Account!Request
  <2>3. Account!Goes(r, next)
    BY <1>4
  <2> HIDE DEF next
  <2>4. Reads(next)
    BY <1>1, <2>2 DEF Reads
  <2> QED
    BY <1>2, <2>2, <2>3, <2>4, OneGoes
<1> QED
  BY <1>3, <1>4 DEF Account!Lookup

LEMMA AccountDecide ==
  ASSUME Account!ConstantsOK, AccountInv, NEW r \in Callers, Account!Decide(r)
  PROVE  AccountInv'
<1>1. request[r] \in Account!Request /\ request[r].at = "cutoff" /\ Reads(request[r])
  BY DEF AccountInv, Account!TypeOK, Account!Decide
<1>2. PICK to \in {"denied", "admitted", "password"}, unread \in SUBSET {"account", "cutoff"} :
        /\ Account!Over(r, to, unread)
        /\ to # "denied" => ~Account!Ended(r) \/ "cutoff" \in unread
  <2>1. Account!Accepted(request[r]) \in {"admitted", "password"}
    BY DEF Account!Accepted
  <2>2. \/ Account!Over(r, "denied", {})
        \/ ~Account!Ended(r) /\ Account!Over(r, Account!Accepted(request[r]), {})
        \/ Account!Over(r, Account!Accepted(request[r]), {"cutoff"})
    BY DEF Account!Decide
  <2> QED
    BY <2>1, <2>2
<1> DEFINE next == [request[r] EXCEPT !.at = to, !.state = Account!Gone, !.since = 0,
                                      !.unread = @ \cup unread]
<1>3. /\ next \in Account!Request /\ next.at = to /\ next.unread = request[r].unread \cup unread
      /\ next.late = request[r].late /\ next.token = request[r].token
  <2>1. Account!Gone \in Account!State /\ 0 \in 0..Horizon
    BY DEF Account!State, Account!Gone, Account!ConstantsOK
  <2> QED
    BY <1>1, <2>1 DEF Account!Request
<1>4. Account!Goes(r, next) /\ Elsewhere
  BY <1>2, FailsFits DEF Account!Decide, Account!Over, Elsewhere
<1> HIDE DEF next
<1>5. ASSUME next.late, Account!Valid(next.token), "cutoff" \notin next.unread
      PROVE  next.at = "denied"
  <2>1. next.token \in ended /\ next.token \in Tokens
    BY <1>1, <1>3, <1>5 DEF Reads, AccountInv, Account!TypeOK
  <2>2. /\ token[next.token] # None /\ next.token \in revoked.tokens
        /\ token[next.token] + Life <= revoked.until
    BY <2>1 DEF AccountInv, SessionsInv
  <2>3. now < revoked.until
    BY <1>5, <2>1, <2>2 DEF Account!Valid, AccountInv, Account!TypeOK, Account!ConstantsOK
  <2>4. Account!Ended(r) /\ "cutoff" \notin unread
    BY <1>3, <1>5, <2>2, <2>3 DEF Account!Ended
  <2> QED
    BY <1>2, <1>3, <2>4
<1>6. Reads(next)
  BY <1>1, <1>2, <1>3, <1>5 DEF Reads
<1> QED
  BY <1>3, <1>4, <1>6, OneGoes

\* The cache is written, or the operation fails.
LEMMA AccountStore ==
  ASSUME Account!ConstantsOK, AccountInv, NEW r \in Callers, Account!Store(r)
  PROVE  AccountInv'
<1> DEFINE next == [request[r] EXCEPT !.at = "cutoff"]
           entry == [state |-> request[r].state, until |-> Account!Expiry]
<1>1. request[r] \in Account!Request /\ request[r].at = "store" /\ Reads(request[r])
  BY DEF AccountInv, Account!TypeOK, Account!Store
<1>2. /\ next \in Account!Request /\ next.at = "cutoff" /\ next.state = request[r].state
      /\ next.late = request[r].late /\ next.token = request[r].token
      /\ next.since = request[r].since
  BY <1>1 DEF Account!Request
<1>3. /\ Account!Goes(r, next) /\ UNCHANGED <<now, user, token, writer, past, revoked, ended>>
      /\ cache' = entry \/ cache' = cache
      /\ events' \in 0..MaxEvents
  BY FailsFits DEF Account!Store, Account!Redis, AccountInv, Account!TypeOK, Account!ConstantsOK
<1>4. /\ request[r].since \in 0..Horizon /\ request[r].state \in past[request[r].since]
      /\ request[r].since <= now /\ now <= request[r].since + MaxDelay /\ now \in 0..Horizon
  BY <1>1 DEF Reads, Account!Request, AccountInv, Account!TypeOK
<1>5. /\ entry \in [state: Account!State, until: 0..Horizon + TTL]
      /\ entry.state = request[r].state /\ entry.until = now + TTL
  BY <1>1, <1>4 DEF Account!Expiry, Account!Request, Account!ConstantsOK
<1> HIDE DEF next, entry
<1>6. HadSince(next.state, next.since - TTL - MaxDelay)
  BY <1>2, <1>4 DEF HadSince, Account!ConstantsOK
<1>7. HadSince(entry.state, entry.until - TTL - MaxDelay)
  BY <1>4, <1>5 DEF HadSince, Account!ConstantsOK
<1>8. Reads(next)
  BY <1>1, <1>2, <1>6 DEF Reads
<1>9. request' \in [Callers -> Account!Request] /\ request' = [request EXCEPT ![r] = next]
  BY <1>2, <1>3 DEF Account!Goes, AccountInv, Account!TypeOK
<1>10. Account!TypeOK'
  BY <1>3, <1>5, <1>9 DEF AccountInv, Account!TypeOK
<1>11. \A s \in Callers : Reads(request'[s])
  BY <1>8, <1>9 DEF AccountInv, Account!TypeOK
<1>12. \A s \in Callers : Reads(request[s])'
  BY <1>3, <1>11 DEF Reads, HadSince, Account!Valid
<1>13. (now < cache.until => HadSince(cache.state, cache.until - TTL - MaxDelay))'
  <2>1. CASE cache' = entry
    BY <1>3, <1>7, <2>1 DEF HadSince
  <2>2. CASE cache' = cache
    BY <1>3, <2>2 DEF HadSince, AccountInv
  <2> QED
    BY <1>3, <2>1, <2>2
<1>14. SessionsInv' /\ (user \in past[now])'
  BY <1>3 DEF AccountInv, SessionsInv
<1> QED
  BY <1>10, <1>12, <1>13, <1>14 DEF AccountInv

-----------------------------------------------------------------------------
\* Writers: no request moves.

LEMMA NoneGoes ==
  ASSUME Account!ConstantsOK, AccountInv, Account!TypeOK', SessionsInv', UNCHANGED request,
         now' = now, \A t \in 0..now : past[t] \subseteq past'[t],
         ended \subseteq ended', \A t \in ended : token'[t] = token[t],
         (user \in past[now])', cache' = cache \/ cache' = Account!NoEntry
  PROVE  AccountInv'
<1>1. \A s \in Callers : Reads(request[s])'
  <2> SUFFICES ASSUME NEW s \in Callers PROVE Reads(request[s])'
    OBVIOUS
  <2> DEFINE q == request[s]
  <2>1. q \in Account!Request /\ Reads(q) /\ (q.at = "store" => now' <= q.since + MaxDelay) /\ q' = q
    BY DEF AccountInv, Account!TypeOK, Reads
  <2> QED
    BY <2>1, ReadsStay DEF AccountInv, Reads, HadSince, Account!Valid, Account!TypeOK
<1>2. ASSUME now' < cache'.until
      PROVE  HadSince(cache.state, cache.until - TTL - MaxDelay)'
  <2>1. cache' = cache
    BY <1>2 DEF Account!NoEntry, Account!TypeOK
  <2>2. cache.until - TTL - MaxDelay \in Int
    BY DEF AccountInv, Account!TypeOK, Account!ConstantsOK
  <2>3. HadSince(cache.state, cache.until - TTL - MaxDelay)
    BY <1>2, <2>1 DEF AccountInv
  <2> QED
    BY <2>1, <2>2, <2>3, HadStays DEF AccountInv, HadSince, Account!TypeOK
<1> QED
  BY <1>1, <1>2 DEF AccountInv

LEMMA AccountLogin ==
  ASSUME Account!ConstantsOK, AccountInv, NEW t \in Tokens, Account!Login(t)
  PROVE  AccountInv'
<1>1. Account!TypeOK'
  BY DEF Account!Login, AccountInv, Account!TypeOK
<1>2. t \notin ended
  BY DEF Account!Login, AccountInv, SessionsInv
<1>3. SessionsInv'
  BY <1>2 DEF Account!Login, AccountInv, SessionsInv, Account!TypeOK
<1> QED
  BY <1>1, <1>2, <1>3, NoneGoes DEF Account!Login, AccountInv, Account!TypeOK

LEMMA AccountWrite ==
  ASSUME Account!ConstantsOK, AccountInv, NEW state \in Account!State,
         NEW rest \in {<<>>, <<"bust">>, <<"revoke">>, <<"revoke", "bust">>}, Account!Write(state, rest)
  PROVE  AccountInv'
<1>1. past' = [past EXCEPT ![now] = @ \cup {state}] /\ now \in 0..Horizon
      /\ past \in [0..Horizon -> SUBSET Account!State] /\ user' = state /\ now' = now
  BY DEF Account!Write, AccountInv, Account!TypeOK
<1>2. past' \in [0..Horizon -> SUBSET Account!State] /\ state \in past'[now]
      /\ \A t \in 0..Horizon : past[t] \subseteq past'[t]
  BY <1>1
<1>3. Account!TypeOK'
  BY <1>1, <1>2 DEF Account!Write, AccountInv, Account!TypeOK, Account!ConstantsOK
<1>4. SessionsInv'
  BY DEF Account!Write, AccountInv, SessionsInv
<1>5. \A t \in 0..now : past[t] \subseteq past'[t]
  BY <1>1, <1>2 DEF Account!ConstantsOK
<1> QED
  BY <1>1, <1>2, <1>3, <1>4, <1>5, NoneGoes DEF Account!Write

LEMMA AccountWriters ==
  ASSUME Account!ConstantsOK, AccountInv,
         (\E active \in BOOLEAN : Account!SetActive(active)) \/ Account!ChangePassword \/ Account!DeleteUser \/ Account!Logout
  PROVE  AccountInv'
<1>1. user \in Account!State /\ Account!Gone \in Account!State
  BY DEF AccountInv, Account!TypeOK, Account!State, Account!Gone
<1>2. [user EXCEPT !.must = FALSE] \in Account!State
      /\ \A active \in BOOLEAN : [user EXCEPT !.blocked = ~active] \in Account!State
  BY <1>1 DEF Account!State
<1> QED
  BY <1>1, <1>2, AccountWrite DEF Account!SetActive, Account!ChangePassword, Account!DeleteUser, Account!Logout

\* What is left to tell after the first.
LEMMA RestToTell ==
  ASSUME NEW w \in {<<>>, <<"bust">>, <<"revoke">>, <<"revoke", "bust">>}, w # <<>>
  PROVE  Tail(w) \in {<<>>, <<"bust">>}
<1>1. Tail(<<"bust">>) = <<>> /\ Tail(<<"revoke">>) = <<>> /\ Tail(<<"revoke", "bust">>) = <<"bust">>
  OBVIOUS
<1> QED
  BY <1>1

LEMMA AccountRevoke ==
  ASSUME Account!ConstantsOK, AccountInv, Account!Revoke
  PROVE  AccountInv'
<1>1. /\ UNCHANGED <<now, user, cache, token, request, past>> /\ events' \in 0..MaxEvents
      /\ \/ revoked' = Account!Revocation /\ ended' = ended \cup Account!Issued
         \/ UNCHANGED <<revoked, ended>>
  BY DEF Account!Revoke, Account!Redis, Account!Fails, AccountInv, Account!TypeOK, Account!ConstantsOK
<1>2. writer' \in {<<>>, <<"bust">>}
  BY RestToTell DEF Account!Revoke, AccountInv, Account!TypeOK
<1>3. Account!Revocation \in [tokens: SUBSET Tokens, until: 0..Horizon + Life] /\ Account!Issued \subseteq Tokens
  BY DEF Account!Revocation, Account!Issued, AccountInv, Account!TypeOK, Account!ConstantsOK
<1>4. Account!TypeOK'
  BY <1>1, <1>2, <1>3 DEF AccountInv, Account!TypeOK
<1>5. SessionsInv'
  <2>1. CASE UNCHANGED <<revoked, ended>>
    BY <1>1, <2>1 DEF AccountInv, SessionsInv
  <2>2. CASE revoked' = Account!Revocation /\ ended' = ended \cup Account!Issued
    <3>1. \A t \in ended' : t \in Tokens /\ token[t] # None
      BY <2>2 DEF Account!Issued, AccountInv, SessionsInv, Account!TypeOK
    <3>2. \A t \in ended' : t \in revoked'.tokens /\ token[t] + Life <= revoked'.until
      BY <2>2, <3>1 DEF Account!Issued, Account!Revocation, AccountInv, SessionsInv, Account!TypeOK, Account!ConstantsOK
    <3> QED
      BY <1>1, <3>1, <3>2 DEF SessionsInv, AccountInv
  <2> QED
    BY <1>1, <2>1, <2>2
<1> QED
  BY <1>1, <1>4, <1>5, NoneGoes DEF AccountInv

LEMMA AccountBust ==
  ASSUME Account!ConstantsOK, AccountInv, Account!Bust
  PROVE  AccountInv'
<1>1. /\ UNCHANGED <<now, user, token, request, past, revoked, ended>> /\ events' \in 0..MaxEvents
      /\ cache' = Account!NoEntry \/ cache' = cache
  BY DEF Account!Bust, Account!Redis, Account!Fails, AccountInv, Account!TypeOK, Account!ConstantsOK
<1>2. writer' \in {<<>>, <<"bust">>}
  BY RestToTell DEF Account!Bust, AccountInv, Account!TypeOK
<1>3. Account!TypeOK'
  <2>1. Account!Gone \in Account!State
    BY DEF Account!State, Account!Gone
  <2>2. Account!NoEntry \in [state: Account!State, until: 0..Horizon + TTL]
    BY <2>1 DEF Account!NoEntry, Account!ConstantsOK
  <2> QED
    BY <1>1, <1>2, <2>2 DEF AccountInv, Account!TypeOK
<1>4. SessionsInv'
  BY <1>1 DEF AccountInv, SessionsInv
<1> QED
  BY <1>1, <1>3, <1>4, NoneGoes DEF AccountInv

LEMMA AccountTick ==
  ASSUME Account!ConstantsOK, AccountInv, Account!Tick
  PROVE  AccountInv'
<1>1. /\ UNCHANGED <<user, cache, revoked, token, request, writer, ended, events>>
      /\ now \in 0..Horizon /\ now' = now + 1 /\ now' \in 0..Horizon
      /\ past' = [past EXCEPT ![now + 1] = {user}] /\ past \in [0..Horizon -> SUBSET Account!State]
  BY DEF Account!Tick, AccountInv, Account!TypeOK, Account!ConstantsOK
<1>2. /\ past' \in [0..Horizon -> SUBSET Account!State] /\ user \in past'[now']
      /\ \A t \in 0..now : past[t] \subseteq past'[t]
  BY <1>1 DEF AccountInv, Account!TypeOK, Account!ConstantsOK
<1>3. Account!TypeOK'
  BY <1>1, <1>2 DEF AccountInv, Account!TypeOK
<1>4. SessionsInv'
  BY <1>1 DEF AccountInv, SessionsInv, Account!TypeOK
<1>5. \A s \in Callers : Reads(request[s])'
  <2> SUFFICES ASSUME NEW s \in Callers PROVE Reads(request[s])'
    OBVIOUS
  <2> DEFINE q == request[s]
  <2>1. q \in Account!Request /\ Reads(q) /\ q' = q /\ now <= now'
    BY <1>1 DEF AccountInv, Account!TypeOK
  <2>2. q.at = "store" => now' <= q.since + MaxDelay
    BY <1>1, <2>1 DEF Account!Tick, Account!InTime, Account!ConstantsOK, Account!Request
  <2> QED
    BY <1>1, <1>2, <1>3, <2>1, <2>2, ReadsStay DEF AccountInv, Reads, HadSince, Account!Valid
<1>6. ASSUME now' < cache'.until
      PROVE  HadSince(cache.state, cache.until - TTL - MaxDelay)'
  <2>1. cache.until - TTL - MaxDelay \in Int
    BY DEF AccountInv, Account!TypeOK, Account!ConstantsOK
  <2>2. HadSince(cache.state, cache.until - TTL - MaxDelay)
    BY <1>1, <1>6 DEF AccountInv, Account!TypeOK, Account!ConstantsOK
  <2> QED
    BY <1>1, <1>2, <1>3, <2>1, <2>2, HadStays DEF AccountInv, HadSince
<1> QED
  BY <1>1, <1>2, <1>3, <1>4, <1>5, <1>6 DEF AccountInv

LEMMA AccountStep == ASSUME Account!ConstantsOK, AccountInv, [Account!Next]_Account!vars PROVE AccountInv'
<1>1. ASSUME NEW r \in Callers, (\E t \in Tokens : Account!Start(r, t)) \/ Account!Lookup(r) \/ Account!Store(r) \/ Account!Decide(r)
      PROVE  AccountInv'
  BY <1>1, AccountStart, AccountLookup, AccountStore, AccountDecide
<1>2. CASE UNCHANGED Account!vars
  BY <1>2 DEF Account!vars, AccountInv, Account!TypeOK, SessionsInv, Reads, HadSince, Account!Valid
<1> QED
  BY <1>1, <1>2, AccountLogin, AccountWriters, AccountRevoke, AccountBust, AccountTick DEF Account!Next


-----------------------------------------------------------------------------
\* The rate limit

\* The counter has counted every request it admitted, and no request twice.
RateInv ==
  /\ Limits!TypeOK
  /\ IsFiniteSet(Limits!Counted)
  /\ admitted \subseteq Limits!Counted
  /\ Cardinality(admitted) <= key.count
  /\ Limits!LimitPerWindow

LEMMA RateInit == ASSUME Limits!ConstantsOK, Limits!Init PROVE RateInv
<1>1. Limits!Counted = {}
  BY DEF Limits!Init, Limits!Counted
<1>2. IsFiniteSet(Limits!Counted) /\ Cardinality(Limits!Counted) = 0 /\ Cardinality(admitted) = 0
  BY <1>1, FS_EmptySet DEF Limits!Init
<1> QED
  BY <1>2, SameCardinality DEF Limits!ConstantsOK, Limits!Init, Limits!Absent, Limits!Never, RateInv, Limits!TypeOK, Limits!LimitPerWindow

LEMMA RateSet ==
  ASSUME Limits!ConstantsOK, RateInv, NEW r \in Visitors, Limits!Set(r)
  PROVE  RateInv'
<1>1. Limits!Counted' = Limits!Counted
  BY DEF Limits!Set, Limits!Goes, RateInv, Limits!TypeOK, Limits!Counted
<1>2. admission' \in [Visitors -> {"new", "set", "admitted", "refused"}] /\ clock' \in 0..End
  BY DEF Limits!Set, Limits!Goes, RateInv, Limits!TypeOK
<1>3. Cardinality(Limits!Counted) \in Nat
  BY FS_CardinalityType DEF RateInv
<1>4. /\ admitted' \subseteq Limits!Counted /\ Cardinality(admitted') <= key'.count
      /\ Cardinality(admitted') <= Limit
      /\ key' \in [count: 0..Cardinality(Limits!Counted), until: 0..Limits!Never]
  BY <1>3, FS_EmptySet, SameCardinality DEF Limits!Set, Limits!SetIfAbsent, RateInv, Limits!TypeOK, Limits!LimitPerWindow, Limits!ConstantsOK, Limits!Never
<1> QED
  BY <1>1, <1>2, <1>4, SameCardinality DEF RateInv, Limits!TypeOK, Limits!LimitPerWindow, Limits!Counted

LEMMA RateIncr ==
  ASSUME Limits!ConstantsOK, RateInv, NEW r \in Visitors, Limits!Incr(r)
  PROVE  RateInv'
<1>1. admission[r] = "set" /\ r \notin Limits!Counted /\ r \notin admitted
  BY DEF Limits!Incr, RateInv, Limits!Counted
<1>2. Limits!Counted' = Limits!Counted \cup {r}
  BY DEF Limits!Incr, Limits!Goes, RateInv, Limits!TypeOK, Limits!Counted
<1>3. /\ IsFiniteSet(Limits!Counted') /\ Cardinality(Limits!Counted') = Cardinality(Limits!Counted) + 1
      /\ Cardinality(Limits!Counted) \in Nat /\ IsFiniteSet(admitted)
  BY <1>1, <1>2, FS_AddElement, FS_CardinalityType, FS_Subset DEF RateInv
<1>4. Cardinality(admitted) \in Nat
  BY <1>3, FS_CardinalityType
<1>5. /\ Cardinality({}) = 0 /\ Cardinality({r}) = 1
      /\ Cardinality(admitted \cup {r}) = Cardinality(admitted) + 1
      /\ {} \cup {r} = {r} /\ {} \cup {} = {} /\ admitted \cup {} = admitted
  BY <1>1, <1>3, FS_EmptySet, FS_Singleton, FS_AddElement
<1>6. admission' \in [Visitors -> {"new", "set", "admitted", "refused"}] /\ clock' \in 0..End
  BY DEF Limits!Incr, Limits!Goes, RateInv, Limits!TypeOK
<1>7. key' = Limits!Incremented /\ key' \in [count: 0..Cardinality(Limits!Counted'), until: 0..Limits!Never]
  BY <1>3, SameCardinality DEF Limits!Incr, Limits!Incremented, RateInv, Limits!TypeOK, Limits!ConstantsOK, Limits!Never
<1>8. admitted' \subseteq Limits!Counted' /\ admitted' \subseteq Visitors
  BY <1>2 DEF Limits!Incr, RateInv, Limits!TypeOK
<1>9. Cardinality(admitted') <= key'.count /\ Cardinality(admitted') <= Limit
  <2>1. CASE Limits!Exists
    <3>1. key.count \in Nat /\ Cardinality(admitted) <= key.count /\ Cardinality(admitted) <= Limit
      BY <1>3, SameCardinality DEF RateInv, Limits!TypeOK, Limits!LimitPerWindow
    <3> QED
      BY <1>4, <1>5, <2>1, <3>1 DEF Limits!Incr, Limits!Incremented, Limits!ConstantsOK
  <2>2. CASE ~Limits!Exists
    BY <1>5, <2>2 DEF Limits!Incr, Limits!Incremented, Limits!ConstantsOK
  <2> QED
    BY <2>1, <2>2
<1> QED
  BY <1>3, <1>6, <1>7, <1>8, <1>9, SameCardinality DEF RateInv, Limits!TypeOK, Limits!LimitPerWindow

LEMMA RateStep == ASSUME Limits!ConstantsOK, RateInv, [Limits!Next]_Limits!vars PROVE RateInv'
<1>1. CASE Limits!Tick
  BY <1>1 DEF Limits!Tick, RateInv, Limits!TypeOK, Limits!LimitPerWindow, Limits!Counted, Limits!ConstantsOK
<1>2. CASE UNCHANGED Limits!vars
  BY <1>2 DEF Limits!vars, RateInv, Limits!TypeOK, Limits!LimitPerWindow, Limits!Counted
<1> QED
  BY <1>1, <1>2, RateSet, RateIncr DEF Limits!Next

-----------------------------------------------------------------------------
\* Roadmap material: the inductive invariant

LessonsInv == Lessons!TypeOK /\ Lessons!KeptLessonsHaveContent

LEMMA LessonsInit == ASSUME Lessons!ConstantsOK, Lessons!Init PROVE LessonsInv
<1>1. slot \in [Lessons!Slots -> Lessons!Contents] /\ slot["notes"] # "blank"
  BY DEF Lessons!Init, Lessons!Slots, Lessons!Contents
<1>2. \A r \in Learners : asking[r] = Lessons!Idle /\ asking[r].at = "idle"
  BY DEF Lessons!Init, Lessons!Idle
<1>3. asking \in [Learners -> Lessons!Asking \cup {Lessons!Idle}]
  BY DEF Lessons!Init
<1>4. /\ served \in [of : Lessons!Slots \cup {"none"}, content : Lessons!Contents, cached : BOOLEAN]
      /\ ~served.cached
  BY DEF Lessons!Init, Lessons!NoAnswer, Lessons!Contents
<1>5. exists \in BOOLEAN /\ asks \in 0 .. MaxAsks
  BY DEF Lessons!Init, Lessons!ConstantsOK
<1> QED
  BY <1>1, <1>2, <1>3, <1>4, <1>5 DEF LessonsInv, Lessons!TypeOK, Lessons!KeptLessonsHaveContent

\* What a step gives one request: nothing, or a question of a slot that may ask it.
MayAsk(t) ==
  \/ t = Lessons!Idle
  \/ /\ t \in Lessons!Asking
     /\ t.at = "search" => t.of = "resources"
     /\ t.at = "claude" => t.of # "practice"

LEMMA LessonMoves ==
  ASSUME LessonsInv, NEW r \in Learners, NEW t, MayAsk(t), asking' = [asking EXCEPT ![r] = t],
         exists' \in BOOLEAN, slot' \in [Lessons!Slots -> Lessons!Contents], slot'["notes"] # "blank",
         asks' \in 0 .. MaxAsks,
         served' \in [of : Lessons!Slots \cup {"none"}, content : Lessons!Contents, cached : BOOLEAN],
         Lessons!KeptLessonsHaveContent'
  PROVE  LessonsInv'
<1>1. asking' \in [Learners -> Lessons!Asking \cup {Lessons!Idle}]
  BY DEF LessonsInv, Lessons!TypeOK, MayAsk
<1>2. ASSUME NEW q \in Learners
      PROVE  /\ asking'[q].at = "search" => asking'[q].of = "resources"
             /\ asking'[q].at = "claude" => asking'[q].of # "practice"
  BY DEF LessonsInv, Lessons!TypeOK, MayAsk, Lessons!Idle
<1> QED
  BY <1>1, <1>2 DEF LessonsInv, Lessons!TypeOK

\* What a request that asks knows.
LEMMA Asker ==
  ASSUME LessonsInv, NEW r \in Learners, asking[r].at \in {"search", "gemini", "claude"}
  PROVE  \E t \in Lessons!Asking :
           /\ t = asking[r] /\ MayAsk(t)
           /\ \A at \in {"search", "gemini", "claude"} :
                LET u == [t EXCEPT !.at = at] IN
                u \in Lessons!Asking /\ u.at = at /\ u.of = t.of
<1>1. asking[r] \in Lessons!Asking
  BY DEF LessonsInv, Lessons!TypeOK, Lessons!Idle
<1>2. PICK t \in Lessons!Asking : t = asking[r]
  BY <1>1
<1>3. MayAsk(t)
  BY <1>2 DEF LessonsInv, Lessons!TypeOK, MayAsk
<1>4. ASSUME NEW at \in {"search", "gemini", "claude"}
      PROVE  LET u == [t EXCEPT !.at = at] IN u \in Lessons!Asking /\ u.at = at /\ u.of = t.of
  BY DEF Lessons!Asking
<1> QED
  BY <1>2, <1>3, <1>4

LEMMA LessonsStep == ASSUME Lessons!ConstantsOK, LessonsInv, [Lessons!Next]_Lessons!vars PROVE LessonsInv'
<1>1. CASE UNCHANGED Lessons!vars
  BY <1>1 DEF LessonsInv, Lessons!vars, Lessons!TypeOK, Lessons!KeptLessonsHaveContent
<1>2. CASE Lessons!DeleteRoadmap
  <2>1. slot' \in [Lessons!Slots -> Lessons!Contents] /\ slot'["notes"] # "blank"
    BY <1>2 DEF Lessons!DeleteRoadmap, Lessons!Slots, Lessons!Contents
  <2> QED
    BY <1>2, <2>1 DEF LessonsInv, Lessons!DeleteRoadmap, Lessons!TypeOK, Lessons!KeptLessonsHaveContent
<1>3. ASSUME NEW r \in Learners, Lessons!RequestStep(r) PROVE LessonsInv'
  <2>1. /\ exists \in BOOLEAN /\ slot \in [Lessons!Slots -> Lessons!Contents] /\ slot["notes"] # "blank"
        /\ asks \in 0 .. MaxAsks /\ MaxAsks \in Nat
        /\ served \in [of : Lessons!Slots \cup {"none"}, content : Lessons!Contents, cached : BOOLEAN]
        /\ Lessons!KeptLessonsHaveContent /\ asking \in [Learners -> Lessons!Asking \cup {Lessons!Idle}]
    BY DEF LessonsInv, Lessons!TypeOK, Lessons!ConstantsOK
  <2>2. MayAsk(Lessons!Idle)
    BY DEF MayAsk
  <2>3. ASSUME NEW s \in Lessons!Slots, Lessons!Serve(r, s) PROVE LessonsInv'
    <3>1. UNCHANGED <<exists, slot, asking, asks>> /\ served' = [of |-> s, content |-> slot[s], cached |-> TRUE]
      BY <2>3 DEF Lessons!Serve, Lessons!Answer
    <3>2. served' \in [of : Lessons!Slots \cup {"none"}, content : Lessons!Contents, cached : BOOLEAN]
      BY <2>1, <3>1
    <3>3. s = "notes" => slot[s] = "full"
      BY <2>1, <2>3 DEF Lessons!Serve, Lessons!Kept, Lessons!NotesKept, Lessons!Contents, Lessons!Slots
    <3>4. s = "practice" => slot[s] = "full"
      BY <2>3 DEF Lessons!Serve, Lessons!Kept, Lessons!PracticeKept
    <3>5. Lessons!KeptLessonsHaveContent'
      BY <3>1, <3>3, <3>4 DEF Lessons!KeptLessonsHaveContent
    <3> QED
      BY <3>1, <3>2, <3>5 DEF LessonsInv, Lessons!TypeOK
  <2>4. ASSUME NEW s \in Lessons!Slots, NEW again \in BOOLEAN, Lessons!Begin(r, s, again) PROVE LessonsInv'
    <3>1. PICK at \in {"search", "gemini"} : at = IF s = "resources" THEN "search" ELSE "gemini"
      OBVIOUS
    <3>2. PICK t : t = [at |-> at, of |-> s, again |-> again, seen |-> slot[s]]
      OBVIOUS
    <3>3. t \in Lessons!Asking /\ t.at = at /\ t.of = s
      BY <2>1, <3>2 DEF Lessons!Asking
    <3>4. MayAsk(t)
      BY <3>1, <3>3 DEF MayAsk
    <3>5. asking' = [asking EXCEPT ![r] = t] /\ asks' = asks + 1 /\ asks < MaxAsks /\ UNCHANGED <<exists, slot, served>>
      BY <2>4, <3>1, <3>2 DEF Lessons!Begin, Lessons!Goto
    <3>6. Lessons!KeptLessonsHaveContent' /\ asks' \in 0 .. MaxAsks
      BY <2>1, <3>5 DEF Lessons!KeptLessonsHaveContent
    <3> QED
      BY <2>1, <3>4, <3>5, <3>6, LessonMoves
  <2>5. CASE Lessons!SearchFinds(r) \/ Lessons!QuotaExceeded(r)
    <3>1. asking[r].at \in {"search", "gemini", "claude"}
      BY <2>5 DEF Lessons!SearchFinds, Lessons!QuotaExceeded
    <3>2. PICK t \in Lessons!Asking :
            /\ t = asking[r] /\ MayAsk(t)
            /\ \A at \in {"search", "gemini", "claude"} :
                 LET u == [t EXCEPT !.at = at] IN u \in Lessons!Asking /\ u.at = at /\ u.of = t.of
      BY <3>1, Asker
    <3>3. PICK at \in {"gemini", "claude"} :
            /\ asking' = [asking EXCEPT ![r] = [t EXCEPT !.at = at]]
            /\ at = "claude" => t.of # "practice"
      BY <2>5, <3>2 DEF Lessons!SearchFinds, Lessons!QuotaExceeded, Lessons!Goto
    <3>4. PICK u : u = [t EXCEPT !.at = at]
      OBVIOUS
    <3>5. MayAsk(u) /\ asking' = [asking EXCEPT ![r] = u]
      BY <3>2, <3>3, <3>4 DEF MayAsk
    <3>6. UNCHANGED <<exists, slot, asks, served>>
      BY <2>5 DEF Lessons!SearchFinds, Lessons!QuotaExceeded
    <3>7. Lessons!KeptLessonsHaveContent'
      BY <2>1, <3>6 DEF Lessons!KeptLessonsHaveContent
    <3> QED
      BY <2>1, <3>5, <3>6, <3>7, LessonMoves
  <2>6. CASE Lessons!SearchFindsNothing(r) \/ Lessons!SaveNotes(r) \/ Lessons!SaveResources(r) \/ Lessons!SavePractice(r)
    <3>1. asking' = [asking EXCEPT ![r] = Lessons!Idle] /\ UNCHANGED <<exists, asks>>
      BY <2>6 DEF Lessons!SearchFindsNothing, Lessons!SaveNotes, Lessons!SaveResources, Lessons!SavePractice, Lessons!Goto
    <3>2. PICK s \in Lessons!Slots, c \in {"blank", "full"} :
            /\ served' = [of |-> s, content |-> c, cached |-> FALSE]
            /\ slot' = slot \/ slot' = [slot EXCEPT ![s] = c]
            /\ s = "notes" => c = "full"
      BY <2>6 DEF Lessons!SearchFindsNothing, Lessons!SaveNotes, Lessons!SaveResources, Lessons!SavePractice,
                  Lessons!Answer, Lessons!Store, Lessons!Slots
    <3>3. c \in Lessons!Contents
      BY <3>2 DEF Lessons!Contents
    <3>4. slot' \in [Lessons!Slots -> Lessons!Contents] /\ slot'["notes"] # "blank"
      BY <2>1, <3>2, <3>3 DEF Lessons!Slots
    <3>5. /\ served' \in [of : Lessons!Slots \cup {"none"}, content : Lessons!Contents, cached : BOOLEAN]
          /\ ~served'.cached
      BY <3>2, <3>3
    <3>6. Lessons!KeptLessonsHaveContent'
      BY <3>5 DEF Lessons!KeptLessonsHaveContent
    <3> QED
      BY <2>1, <2>2, <3>1, <3>4, <3>5, <3>6, LessonMoves
  <2>7. CASE Lessons!Fail(r)
    <3>1. Lessons!KeptLessonsHaveContent'
      BY <2>1, <2>7 DEF Lessons!Fail, Lessons!KeptLessonsHaveContent
    <3> QED
      BY <2>1, <2>2, <2>7, <3>1, LessonMoves DEF Lessons!Fail, Lessons!Goto
  <2> QED
    BY <1>3, <2>3, <2>4, <2>5, <2>6, <2>7 DEF Lessons!RequestStep
<1> QED
  BY <1>1, <1>2, <1>3 DEF Lessons!Next

-----------------------------------------------------------------------------
\* The tutor's notes: the inductive invariant

\* Where the reading is not charged yet, where the writing is, and where the
\* history entry has been tried.
Unread == {"none", "queued", "read", "ocr", "whole", "charge"}
Written == {"render", "upload", "persist", "finish", "done"}
Settled == {"finish", "done", "stopped"}

Fields == {"phase", "kind", "prompt", "doc", "slots", "todo", "text", "replies", "cut",
           "whole", "made", "usage", "attempt", "provider", "quota", "note", "unbilled"}

WritingEvent(j, r) ==
  [job |-> j, use |-> "writing", provider |-> r.provider,
   grounded |-> r.kind = "notes" /\ r.text # << >>, calls |-> 1]

\* The writing is in the ledger, unless the ledger gave up on it.
Billed(j, r) == r.unbilled \/ WritingEvent(j, r) \in ledger

LEMMA BilledStays ==
  ASSUME NEW j, NEW r, ledger \subseteq ledger', Billed(j, r)
  PROVE  Billed(j, r)'
BY DEF Billed, WritingEvent

LEMMA SameBilled ==
  ASSUME NEW j, NEW r, NEW new, new.kind = r.kind, new.text = r.text, new.provider = r.provider,
         new.unbilled = r.unbilled
  PROVE  Billed(j, new) <=> Billed(j, r)
BY DEF Billed, WritingEvent

NoteOf(j, r) ==
  [job |-> j, provider |-> r.provider, grounded |-> r.text # << >>, warning |-> r.cut]

\* The job j, as the worker knows it, and what is stored of it.
JobFits(j, r) ==
  /\ r # Tutor!Unposted => /\ Fields \subseteq DOMAIN r
                           /\ "cut" \in r.replies => r.cut
                           /\ ~r.whole /\ r.phase \in {"queued", "read", "ocr", "charge"} => r.usage = r.made
                           /\ r.phase = "persist" => r.kind = "notes"
  /\ \A e \in ledger : e.job = j /\ e.use = "reading" =>
       r.phase \notin Unread /\ (~r.whole => e.calls = r.made)
  /\ r.phase \in Written => Billed(j, r)
  /\ r.phase = "persist" => j \in files
  /\ j \in removing => r.phase \in Settled
  /\ \A n \in notes : n.job = j =>
       /\ r.phase \in Settled /\ r.kind = "notes"
       /\ n = NoteOf(j, r) /\ Billed(j, r)
       /\ j \in files /\ j \notin removing
  /\ record[j] # None /\ record[j].status = "completed" =>
       r.phase = "done" /\ record[j].warning = r.cut

TutorInv ==
  /\ DOMAIN job = Orders /\ job = [j \in Orders |-> job[j]] /\ DOMAIN record = Orders
  /\ \A e \in ledger : e.job \in Orders
  /\ \A n \in notes : n.job \in Orders
  /\ \A j \in Orders : JobFits(j, job[j])

LEMMA TutorInit == ASSUME Tutor!Init PROVE TutorInv
<1>1. \A j \in Orders : job[j] = Tutor!Unposted /\ job[j].phase = "none" /\ record[j] = None
  BY DEF Tutor!Init, Tutor!Unposted
<1>2. \A j \in Orders : JobFits(j, job[j])
  BY <1>1 DEF Tutor!Init, JobFits, Unread, Written, Settled
<1> QED
  BY <1>2 DEF Tutor!Init, TutorInv

\* A step of one job leaves the others as they are.
LEMMA OneJob ==
  ASSUME TutorInv, NEW j \in Orders, NEW new, job' = [job EXCEPT ![j] = new],
         DOMAIN record' = Orders, \A k \in Orders \ {j} : record'[k] = record[k],
         ledger \subseteq ledger', \A e \in ledger' : e \in ledger \/ e.job = j,
         files \subseteq files', \A k \in files' : k \in files \/ k = j,
         \A n \in notes' : n \in notes \/ n.job = j, removing' = removing,
         JobFits(j, new)'
  PROVE  TutorInv'
<1>1. DOMAIN job' = Orders /\ job'[j] = new /\ \A k \in Orders \ {j} : job'[k] = job[k]
  BY DEF TutorInv
<1>2. ASSUME NEW k \in Orders \ {j} PROVE JobFits(k, job[k])'
  <2>1. PICK r : r = job[k] /\ r = job'[k]
    BY <1>1
  <2>2. JobFits(k, r)
    BY <2>1 DEF TutorInv
  <2>3. \A n \in notes' : n.job = k => n \in notes
    OBVIOUS
  <2>4. \A e \in ledger' : e.job = k => e \in ledger
    OBVIOUS
  <2>5. JobFits(k, r)'
    BY <2>2, <2>3, <2>4, BilledStays DEF JobFits
  <2> QED
    BY <2>1, <2>5 DEF JobFits
<1>3. JobFits(j, job[j])'
  BY <1>1 DEF JobFits
<1>4. (\A e \in ledger : e.job \in Orders)' /\ (\A n \in notes : n.job \in Orders)'
  BY DEF TutorInv
<1>5. (job = [k \in Orders |-> job[k]])'
  BY DEF TutorInv
<1>6. (\A k \in Orders : JobFits(k, job[k]))'
  <2>1. \A k \in Orders : k = j \/ k \in Orders \ {j}
    OBVIOUS
  <2> QED
    BY <1>2, <1>3, <2>1
<1> QED
  BY <1>1, <1>4, <1>5, <1>6 DEF TutorInv

\* A step that only the worker knows of.
LEMMA QuietJob ==
  ASSUME TutorInv, NEW j \in Orders, NEW new, job' = [job EXCEPT ![j] = new],
         UNCHANGED <<record, ledger, notes, files, removing>>, JobFits(j, new)
  PROVE  TutorInv'
<1>1. JobFits(j, new)'
  BY BilledStays DEF JobFits
<1>2. DOMAIN record' = Orders
  BY DEF TutorInv
<1> QED
  BY <1>1, <1>2, OneJob

\* What is known of a job that is being worked on.
LEMMA Posted ==
  ASSUME TutorInv, NEW j \in Orders, job[j] # Tutor!Unposted
  PROVE  \E r : r = job[j] /\ r # Tutor!Unposted /\ JobFits(j, r) /\ Fields \subseteq DOMAIN r
BY DEF TutorInv, JobFits

\* A step from phase to phase.
LEMMA NewPhase ==
  ASSUME TutorInv, NEW j \in Orders, NEW phase, Tutor!Step(j, phase), job[j] # Tutor!Unposted, phase # "none"
  PROVE  \E new : /\ job' = [job EXCEPT ![j] = new]
                  /\ new # Tutor!Unposted /\ Fields \subseteq DOMAIN new /\ new.phase = phase
                  /\ new.kind = job[j].kind /\ new.text = job[j].text /\ new.replies = job[j].replies
                  /\ new.cut = job[j].cut /\ new.whole = job[j].whole /\ new.made = job[j].made
                  /\ new.usage = job[j].usage /\ new.provider = job[j].provider /\ new.note = job[j].note
                  /\ new.unbilled = job[j].unbilled
<1>1. PICK r : r = job[j] /\ Fields \subseteq DOMAIN r
  BY Posted
<1>2. PICK new : new = [r EXCEPT !.phase = phase]
  OBVIOUS
<1>3. job' = [job EXCEPT ![j] = new]
  BY <1>1, <1>2 DEF Tutor!Step, TutorInv
<1>4. DOMAIN new = DOMAIN r
  BY <1>2
<1>5. /\ new.phase = phase
      /\ new.kind = r.kind /\ new.text = r.text /\ new.replies = r.replies
      /\ new.cut = r.cut /\ new.whole = r.whole /\ new.made = r.made
      /\ new.usage = r.usage /\ new.provider = r.provider /\ new.note = r.note
      /\ new.unbilled = r.unbilled
  BY <1>1, <1>2 DEF Fields
<1>6. new # Tutor!Unposted
  BY <1>5 DEF Tutor!Unposted
<1> QED
  BY <1>1, <1>3, <1>4, <1>5, <1>6

LEMMA AtPosted ==
  ASSUME NEW j, NEW phase, Tutor!At(j, phase), phase # "none"
  PROVE  job[j] # Tutor!Unposted /\ job[j].phase = phase
BY DEF Tutor!At, Tutor!Unposted

\* Steps that change nothing but the phase and store nothing.
LEMMA PhaseFits ==
  ASSUME TutorInv, NEW j \in Orders, NEW phase, Tutor!Step(j, phase), job[j] # Tutor!Unposted,
         UNCHANGED <<record, ledger, notes, files, removing>>,
         phase \in {"write", "whole", "read", "fail", "claude", "gemini", "upload", "stopped"},
         phase = "read" => job[j].phase = "queued",
         phase = "whole" => job[j].phase \in {"queued", "read"},
         phase = "upload" => job[j].phase \in Written,
         phase # "stopped" => job[j].phase \notin Settled,
         phase = "stopped" => job[j].phase # "done"
  PROVE  TutorInv'
<1>1. PICK r : r = job[j] /\ JobFits(j, r) /\ r # Tutor!Unposted
  BY Posted
<1>2. PICK new : /\ job' = [job EXCEPT ![j] = new]
                 /\ new # Tutor!Unposted /\ Fields \subseteq DOMAIN new /\ new.phase = phase
                 /\ new.kind = r.kind /\ new.text = r.text /\ new.replies = r.replies
                 /\ new.cut = r.cut /\ new.whole = r.whole /\ new.made = r.made
                 /\ new.usage = r.usage /\ new.provider = r.provider
                 /\ new.unbilled = r.unbilled
  BY <1>1, NewPhase
<1>3. (Billed(j, new) <=> Billed(j, r)) /\ NoteOf(j, new) = NoteOf(j, r)
  BY <1>2, SameBilled DEF NoteOf
<1>4. \A e \in ledger : e.job = j /\ e.use = "reading" =>
        new.phase \notin Unread /\ (~new.whole => e.calls = new.made)
  BY <1>1, <1>2 DEF JobFits, Unread
<1>5. new.phase \in Written => Billed(j, new)
  BY <1>1, <1>2, <1>3 DEF JobFits, Written
<1>6. j \in removing => new.phase \in Settled
  BY <1>1, <1>2 DEF JobFits, Settled
<1>7. \A n \in notes : n.job = j =>
       /\ new.phase \in Settled /\ new.kind = "notes"
       /\ n = NoteOf(j, new) /\ Billed(j, new)
       /\ j \in files /\ j \notin removing
  BY <1>1, <1>2, <1>3 DEF JobFits, Settled
<1>8. record[j] # None /\ record[j].status = "completed" => new.phase = "done" /\ record[j].warning = new.cut
  BY <1>1, <1>2 DEF JobFits, Settled
<1>9. JobFits(j, new)
  <2>1. ~new.whole /\ new.phase \in {"queued", "read", "ocr", "charge"} => new.usage = new.made
    BY <1>1, <1>2 DEF JobFits
  <2>2. "cut" \in new.replies => new.cut
    BY <1>1, <1>2 DEF JobFits
  <2> QED
    BY <1>2, <1>4, <1>5, <1>6, <1>7, <1>8, <2>1, <2>2 DEF JobFits
<1> QED
  BY <1>2, <1>9, QuietJob

\* While a document is read nothing is stored of its job but the record.
LEMMA ReadingFits ==
  ASSUME TutorInv, NEW j \in Orders, job[j].phase \in Unread, job[j] # Tutor!Unposted,
         NEW new, job' = [job EXCEPT ![j] = new],
         UNCHANGED <<record, ledger, notes, files, removing>>,
         Fields \subseteq DOMAIN new, new.phase \in {"ocr", "whole", "charge"},
         "cut" \in new.replies => new.cut,
         ~new.whole /\ new.phase # "whole" => new.usage = new.made
  PROVE  TutorInv'
<1>1. PICK r : r = job[j] /\ JobFits(j, r) /\ r.phase \in Unread
  BY Posted
<1>2. /\ \A e \in ledger : e.job = j => e.use # "reading"
      /\ j \notin removing /\ \A n \in notes : n.job # j
      /\ ~(record[j] # None /\ record[j].status = "completed")
  BY <1>1 DEF JobFits, Unread, Settled
<1>3. JobFits(j, new)
  BY <1>2 DEF JobFits, Written
<1> QED
  BY <1>3, QuietJob

\* A repeated call and a change of provider keep what counts.
LEMMA SameFits ==
  ASSUME TutorInv, NEW j \in Orders, job[j] # Tutor!Unposted,
         NEW new, job' = [job EXCEPT ![j] = new],
         UNCHANGED <<record, ledger, notes, files, removing>>,
         Fields \subseteq DOMAIN new,
         new.kind = job[j].kind, new.text = job[j].text, new.replies = job[j].replies,
         new.cut = job[j].cut, new.whole = job[j].whole, new.made = job[j].made,
         new.usage = job[j].usage, new.unbilled = job[j].unbilled,
         \/ new.phase = job[j].phase /\ new.provider = job[j].provider
         \/ job[j].phase \in {"claude", "gemini"} /\ new.phase \in {"charge2", "claude", "fail"}
  PROVE  TutorInv'
<1>1. PICK r : r = job[j] /\ JobFits(j, r) /\ r # Tutor!Unposted
  BY Posted
<1>2. CASE new.phase = r.phase /\ new.provider = r.provider
  <2>1. (Billed(j, new) <=> Billed(j, r)) /\ NoteOf(j, new) = NoteOf(j, r)
    BY <1>1, <1>2, SameBilled DEF NoteOf
  <2>2. JobFits(j, new)
    BY <1>1, <1>2, <2>1 DEF JobFits
  <2> QED
    BY <2>2, QuietJob
<1>3. CASE r.phase \in {"claude", "gemini"} /\ new.phase \in {"charge2", "claude", "fail"}
  <2>1. /\ j \notin removing /\ \A n \in notes : n.job # j
        /\ ~(record[j] # None /\ record[j].status = "completed")
        /\ \A e \in ledger : e.job = j /\ e.use = "reading" => (~r.whole => e.calls = r.made)
    BY <1>1, <1>3 DEF JobFits, Settled
  <2>2. JobFits(j, new)
    BY <1>1, <1>3, <2>1 DEF JobFits, Unread, Written
  <2> QED
    BY <2>2, QuietJob
<1> QED
  BY <1>1, <1>2, <1>3

LEMMA PostKeeps ==
  ASSUME TutorInv, NEW j \in Orders, NEW kind, NEW prompt, NEW doc, Tutor!Post(j, kind, prompt, doc)
  PROVE  TutorInv'
<1>1. job[j] = Tutor!Unposted /\ job[j].phase = "none"
  BY DEF Tutor!Post, Tutor!Unposted
<1>2. PICK start : start = Tutor!Start(kind, prompt, doc)
  OBVIOUS
<1>3. PICK phase \in {"queued", "lost"} : job' = [job EXCEPT ![j] = [start EXCEPT !.phase = phase]]
  BY <1>2 DEF Tutor!Post
<1>4. PICK new : new = [start EXCEPT !.phase = phase]
  OBVIOUS
<1>5. /\ Fields \subseteq DOMAIN start /\ start.replies = {} /\ start.usage = 0 /\ start.made = 0
  BY <1>2 DEF Tutor!Start, Fields
<1>6. /\ Fields \subseteq DOMAIN new /\ new.phase \in {"queued", "lost"}
      /\ new.replies = {} /\ new.usage = 0 /\ new.made = 0
  BY <1>3, <1>4, <1>5 DEF Fields
<1>7. UNCHANGED <<ledger, notes, files, removing>>
  BY DEF Tutor!Post
<1>8. /\ DOMAIN record' = Orders /\ \A k \in Orders \ {j} : record'[k] = record[k]
      /\ record'[j].status = "processing"
  BY DEF TutorInv, Tutor!Post
<1>9. /\ \A e \in ledger : e.job = j => e.use # "reading"
      /\ j \notin removing /\ \A n \in notes : n.job # j
  BY <1>1 DEF TutorInv, JobFits, Unread, Settled
<1>10. JobFits(j, new)'
  BY <1>6, <1>7, <1>8, <1>9 DEF JobFits, Written
<1>11. job' = [job EXCEPT ![j] = new]
  BY <1>3, <1>4
<1> QED
  BY <1>7, <1>8, <1>10, <1>11, OneJob

\* The steps that choose a reader, a provider or an end.
LEMMA ChoiceKeeps ==
  ASSUME TutorInv, NEW j \in Orders,
         \/ Tutor!Begin(j) \/ Tutor!ReadImage(j) \/ Tutor!ChooseProvider(j) \/ Tutor!ClaudeFails(j)
         \/ Tutor!Render(j) \/ Tutor!Stop(j) \/ \E e \in Tutor!Errors : Tutor!WholeFails(j, e)
  PROVE  TutorInv'
<1>1. CASE Tutor!Begin(j)
  <2>1. PICK phase \in {"write", "read"} : Tutor!Step(j, phase)
    BY <1>1 DEF Tutor!Begin
  <2>2. job[j] # Tutor!Unposted /\ job[j].phase = "queued"
    BY <1>1, AtPosted DEF Tutor!Begin
  <2> QED
    BY <1>1, <2>1, <2>2, PhaseFits DEF Tutor!Begin, Settled
<1>2. CASE Tutor!ReadImage(j)
  <2>1. job[j] # Tutor!Unposted /\ job[j].phase = "read"
    BY <1>2, AtPosted DEF Tutor!ReadImage
  <2> QED
    BY <1>2, <2>1, PhaseFits DEF Tutor!ReadImage, Settled
<1>3. CASE Tutor!ChooseProvider(j)
  <2>1. PICK phase \in {"claude", "gemini"} : Tutor!Step(j, phase)
    BY <1>3 DEF Tutor!ChooseProvider
  <2>2. job[j] # Tutor!Unposted /\ job[j].phase = "write"
    BY <1>3, AtPosted DEF Tutor!ChooseProvider
  <2> QED
    BY <1>3, <2>1, <2>2, PhaseFits DEF Tutor!ChooseProvider, Settled
<1>4. CASE Tutor!ClaudeFails(j)
  <2>1. job[j] # Tutor!Unposted /\ job[j].phase = "claude"
    BY <1>4, AtPosted DEF Tutor!ClaudeFails
  <2> QED
    BY <1>4, <2>1, PhaseFits DEF Tutor!ClaudeFails, Settled
<1>5. CASE Tutor!Render(j)
  <2>1. PICK phase \in {"upload", "fail"} : Tutor!Step(j, phase)
    BY <1>5 DEF Tutor!Render
  <2>2. job[j] # Tutor!Unposted /\ job[j].phase = "render"
    BY <1>5, AtPosted DEF Tutor!Render
  <2> QED
    BY <1>5, <2>1, <2>2, PhaseFits DEF Tutor!Render, Settled, Written
<1>6. CASE Tutor!Stop(j)
  <2>1. job[j].phase # "done"
    BY <1>6 DEF Tutor!Stop, Tutor!Ended, Tutor!At
  <2> QED
    BY <1>6, <2>1, PhaseFits DEF Tutor!Stop
<1>7. CASE \E e \in Tutor!Errors : Tutor!WholeFails(j, e)
  <2>1. job[j] # Tutor!Unposted /\ job[j].phase = "whole"
    BY <1>7, AtPosted DEF Tutor!WholeFails
  <2>2. Tutor!Step(j, "fail") /\ UNCHANGED <<record, ledger, notes, files, removing>>
    BY <1>7 DEF Tutor!WholeFails
  <2> QED
    BY <2>1, <2>2, PhaseFits DEF Settled
<1> QED
  BY <1>1, <1>2, <1>3, <1>4, <1>5, <1>6, <1>7

LEMMA ReadWordKeeps == ASSUME TutorInv, NEW j \in Orders, Tutor!ReadWord(j) PROVE TutorInv'
<1>1. job[j] # Tutor!Unposted /\ job[j].phase = "read"
  BY AtPosted DEF Tutor!ReadWord
<1>2. PICK r : r = job[j] /\ JobFits(j, r) /\ Fields \subseteq DOMAIN r
  BY <1>1, Posted
<1>3. PICK text : text = Tutor!WordText(job[j].doc)
  OBVIOUS
<1>4. PICK new : new = [r EXCEPT !.text = text, !.phase = "charge"]
  OBVIOUS
<1>5. job' = [job EXCEPT ![j] = new]
  BY <1>2, <1>3, <1>4 DEF Tutor!ReadWord, TutorInv
<1>6. /\ Fields \subseteq DOMAIN new /\ new.phase = "charge" /\ new.replies = r.replies /\ new.cut = r.cut
      /\ new.whole = r.whole /\ new.usage = r.usage /\ new.made = r.made
  BY <1>2, <1>4 DEF Fields
<1> QED
  BY <1>1, <1>2, <1>5, <1>6, ReadingFits DEF Tutor!ReadWord, JobFits, Unread

LEMMA ReadPdfKeeps == ASSUME TutorInv, NEW j \in Orders, Tutor!ReadPdf(j) PROVE TutorInv'
<1>1. job[j] # Tutor!Unposted /\ job[j].phase = "read"
  BY AtPosted DEF Tutor!ReadPdf
<1>2. PICK r : r = job[j] /\ JobFits(j, r) /\ Fields \subseteq DOMAIN r
  BY <1>1, Posted
<1>3. CASE ~r.doc.opens
  <2>1. Tutor!Step(j, "whole") /\ UNCHANGED <<record, ledger, notes, files, removing>>
    BY <1>2, <1>3 DEF Tutor!ReadPdf
  <2> QED
    BY <1>1, <2>1, PhaseFits DEF Settled
<1>4. CASE r.doc.opens
  <2>1. PICK slots, todo : slots = Tutor!LocalSlots(job[j].doc) /\ todo = Tutor!Starts(job[j].doc)
    OBVIOUS
  <2>2. PICK new : new = [r EXCEPT !.slots = slots, !.todo = todo, !.phase = "ocr"]
    OBVIOUS
  <2>3. job' = [job EXCEPT ![j] = new] /\ UNCHANGED <<record, ledger, notes, files, removing>>
    BY <1>2, <1>4, <2>1, <2>2 DEF Tutor!ReadPdf, TutorInv
  <2>4. /\ Fields \subseteq DOMAIN new /\ new.phase = "ocr" /\ new.replies = r.replies /\ new.cut = r.cut
        /\ new.whole = r.whole /\ new.usage = r.usage /\ new.made = r.made
    BY <1>2, <2>2 DEF Fields
  <2> QED
    BY <1>1, <1>2, <2>3, <2>4, ReadingFits DEF JobFits, Unread
<1> QED
  BY <1>3, <1>4

LEMMA RetryKeeps == ASSUME TutorInv, NEW j \in Orders, Tutor!Retry(j) PROVE TutorInv'
<1>1. job[j] # Tutor!Unposted
  BY AtPosted DEF Tutor!Retry
<1>2. PICK r : r = job[j] /\ Fields \subseteq DOMAIN r
  BY <1>1, Posted
<1>3. PICK new : new = [r EXCEPT !.attempt = r.attempt + 1]
  OBVIOUS
<1>4. job' = [job EXCEPT ![j] = new]
  BY <1>2, <1>3 DEF Tutor!Retry, TutorInv
<1>5. /\ Fields \subseteq DOMAIN new /\ new.phase = r.phase /\ new.replies = r.replies /\ new.cut = r.cut
      /\ new.whole = r.whole /\ new.usage = r.usage /\ new.made = r.made /\ new.kind = r.kind
      /\ new.text = r.text /\ new.provider = r.provider /\ new.unbilled = r.unbilled
  BY <1>2, <1>3 DEF Fields
<1> QED
  BY <1>1, <1>2, <1>4, <1>5, SameFits DEF Tutor!Retry

LEMMA OcrBatchKeeps == ASSUME TutorInv, NEW j \in Orders, NEW reply, Tutor!OcrBatch(j, reply) PROVE TutorInv'
<1>1. job[j] # Tutor!Unposted /\ job[j].phase = "ocr"
  BY AtPosted DEF Tutor!OcrBatch
<1>2. PICK r : r = job[j] /\ JobFits(j, r) /\ Fields \subseteq DOMAIN r
  BY <1>1, Posted
<1>3. PICK i : i = CHOOSE n \in job[j].todo : \A k \in job[j].todo : n <= k
  OBVIOUS
<1>4. PICK text : text = Tutor!ReplyText(Tutor!Batch(r.doc, i), reply)
  OBVIOUS
<1>5. PICK told \in {0, 1} : job' = [job EXCEPT ![j] = Tutor!WithBatch(job[j], i, reply, told)]
  BY <1>3 DEF Tutor!OcrBatch
<1>6. PICK new : /\ new = Tutor!WithBatch(r, i, reply, told)
                 /\ new = [r EXCEPT !.slots[i] = text, !.todo = @ \ {i}, !.replies = @ \cup {reply},
                                    !.cut = @ \/ reply = "cut", !.made = @ + told, !.usage = @ + told, !.attempt = 0]
  BY <1>4 DEF Tutor!WithBatch
<1>7. job' = [job EXCEPT ![j] = new]
  BY <1>2, <1>6, <1>5
<1>8. /\ Fields \subseteq DOMAIN new /\ new.phase = "ocr" /\ new.replies = r.replies \cup {reply}
      /\ new.whole = r.whole /\ new.usage = r.usage + told /\ new.made = r.made + told
  BY <1>1, <1>2, <1>6 DEF Fields
<1>9. new.cut = (r.cut \/ reply = "cut")
  BY <1>1, <1>2, <1>6 DEF Fields
<1>10. "cut" \in new.replies => new.cut
  BY <1>1, <1>2, <1>8, <1>9 DEF JobFits
<1>11. ~new.whole => new.usage = new.made
  BY <1>1, <1>2, <1>8 DEF JobFits
<1> QED
  BY <1>1, <1>7, <1>8, <1>10, <1>11, ReadingFits DEF Tutor!OcrBatch, Unread

LEMMA OcrFailsKeeps == ASSUME TutorInv, NEW j \in Orders, NEW e, Tutor!OcrFails(j, e) PROVE TutorInv'
<1>1. job[j] # Tutor!Unposted /\ job[j].phase = "ocr"
  BY AtPosted DEF Tutor!OcrFails
<1>2. PICK r : r = job[j] /\ Fields \subseteq DOMAIN r
  BY <1>1, Posted
<1>3. PICK new : new = [r EXCEPT !.slots = << >>, !.todo = {}, !.replies = {}, !.cut = FALSE,
                                 !.usage = 0, !.attempt = 0, !.phase = "whole"]
  OBVIOUS
<1>4. job' = [job EXCEPT ![j] = new]
  BY <1>2, <1>3 DEF Tutor!OcrFails, TutorInv
<1>5. Fields \subseteq DOMAIN new /\ new.phase = "whole" /\ new.replies = {}
  BY <1>2, <1>3 DEF Fields
<1> QED
  BY <1>1, <1>4, <1>5, ReadingFits DEF Tutor!OcrFails, Unread

LEMMA OcrEndsKeeps == ASSUME TutorInv, NEW j \in Orders, Tutor!OcrEnds(j) PROVE TutorInv'
<1>1. job[j] # Tutor!Unposted /\ job[j].phase = "ocr"
  BY AtPosted DEF Tutor!OcrEnds
<1>2. PICK r : r = job[j] /\ JobFits(j, r) /\ Fields \subseteq DOMAIN r
  BY <1>1, Posted
<1>3. PICK text : text = Tutor!Assembled(job[j].slots)
  OBVIOUS
<1>4. PICK new : new = [r EXCEPT !.text = text, !.phase = "charge"]
  OBVIOUS
<1>5. job' = [job EXCEPT ![j] = new]
  BY <1>2, <1>3, <1>4 DEF Tutor!OcrEnds, TutorInv
<1>6. /\ Fields \subseteq DOMAIN new /\ new.phase = "charge" /\ new.replies = r.replies /\ new.cut = r.cut
      /\ new.whole = r.whole /\ new.usage = r.usage /\ new.made = r.made
  BY <1>2, <1>4 DEF Fields
<1> QED
  BY <1>1, <1>2, <1>5, <1>6, ReadingFits DEF Tutor!OcrEnds, JobFits, Unread

LEMMA ReadWholeKeeps == ASSUME TutorInv, NEW j \in Orders, NEW reply, Tutor!ReadWhole(j, reply) PROVE TutorInv'
<1>1. job[j] # Tutor!Unposted /\ job[j].phase = "whole"
  BY AtPosted DEF Tutor!ReadWhole
<1>2. PICK r : r = job[j] /\ Fields \subseteq DOMAIN r
  BY <1>1, Posted
<1>3. PICK text : text = Tutor!ReplyText(Tutor!Pages(job[j].doc), reply)
  OBVIOUS
<1>4. PICK cut, made : cut = (reply = "cut") /\ made = job[j].made + 1
  OBVIOUS
<1>5. PICK new : new = [r EXCEPT !.text = text, !.replies = {reply}, !.cut = cut, !.whole = TRUE,
                                 !.made = made, !.usage = 1, !.attempt = 0, !.phase = "charge"]
  OBVIOUS
<1>6. job' = [job EXCEPT ![j] = new]
  BY <1>2, <1>3, <1>4, <1>5 DEF Tutor!ReadWhole, TutorInv
<1>7. DOMAIN new = DOMAIN r
  BY <1>5
<1>8. new.phase = "charge" /\ new.replies = {reply} /\ new.whole /\ new.cut = cut
  BY <1>2, <1>5 DEF Fields
<1>9. "cut" \in new.replies => new.cut
  BY <1>4, <1>8
<1> QED
  BY <1>1, <1>2, <1>6, <1>7, <1>8, <1>9, ReadingFits DEF Tutor!ReadWhole, Unread

LEMMA WritesKeeps == ASSUME TutorInv, NEW j \in Orders, NEW p \in Tutor!Providers, Tutor!Writes(j, p) PROVE TutorInv'
<1>1. job[j] # Tutor!Unposted /\ job[j].phase \in {"claude", "gemini"}
  BY AtPosted DEF Tutor!Writes, Tutor!Providers
<1>2. PICK r : r = job[j] /\ Fields \subseteq DOMAIN r
  BY <1>1, Posted
<1>3. PICK new : new = [r EXCEPT !.provider = p, !.attempt = 0, !.phase = "charge2"]
  OBVIOUS
<1>4. job' = [job EXCEPT ![j] = new]
  BY <1>2, <1>3 DEF Tutor!Writes, TutorInv
<1>5. /\ Fields \subseteq DOMAIN new /\ new.phase = "charge2" /\ new.replies = r.replies /\ new.cut = r.cut
      /\ new.whole = r.whole /\ new.usage = r.usage /\ new.made = r.made /\ new.kind = r.kind
      /\ new.text = r.text /\ new.unbilled = r.unbilled
  BY <1>2, <1>3 DEF Fields
<1> QED
  BY <1>1, <1>2, <1>4, <1>5, SameFits DEF Tutor!Writes

LEMMA GeminiFailsKeeps == ASSUME TutorInv, NEW j \in Orders, NEW e, Tutor!GeminiFails(j, e) PROVE TutorInv'
<1>1. job[j] # Tutor!Unposted /\ job[j].phase = "gemini"
  BY AtPosted DEF Tutor!GeminiFails
<1>2. PICK r : r = job[j] /\ Fields \subseteq DOMAIN r
  BY <1>1, Posted
<1>3. PICK quota : quota = (e.code = 429)
  OBVIOUS
<1>4. PICK phase \in {"claude", "fail"} :
        phase = IF Tutor!IsGeminiQuotaError(Tutor!Reraised(e)) THEN "claude" ELSE "fail"
  OBVIOUS
<1>5. PICK new : new = [r EXCEPT !.quota = quota, !.attempt = 0, !.phase = phase]
  OBVIOUS
<1>6. job' = [job EXCEPT ![j] = new]
  BY <1>2, <1>3, <1>4, <1>5 DEF Tutor!GeminiFails, TutorInv
<1>7. DOMAIN new = DOMAIN r
  BY <1>5
<1>8. new.phase = phase /\ new.replies = r.replies /\ new.cut = r.cut /\ new.whole = r.whole
  BY <1>2, <1>5 DEF Fields
<1>9. /\ new.usage = r.usage /\ new.made = r.made /\ new.kind = r.kind
      /\ new.text = r.text /\ new.unbilled = r.unbilled
  BY <1>2, <1>5 DEF Fields
<1> QED
  BY <1>1, <1>2, <1>6, <1>7, <1>8, <1>9, SameFits DEF Tutor!GeminiFails

\* A job that goes on from phase to phase, and what there is of it.
LEMMA Goes ==
  ASSUME TutorInv, NEW j \in Orders, NEW from, from # "none", Tutor!At(j, from),
         NEW phase, phase # "none", Tutor!Step(j, phase)
  PROVE  \E r, new :
           /\ r = job[j] /\ r.phase = from /\ JobFits(j, r) /\ r # Tutor!Unposted
           /\ job' = [job EXCEPT ![j] = new] /\ new # Tutor!Unposted
           /\ Fields \subseteq DOMAIN new /\ new.phase = phase
           /\ new.kind = r.kind /\ new.text = r.text /\ new.replies = r.replies
           /\ new.cut = r.cut /\ new.whole = r.whole /\ new.made = r.made
           /\ new.usage = r.usage /\ new.provider = r.provider
           /\ new.unbilled = r.unbilled
           /\ (Billed(j, new) <=> Billed(j, r)) /\ NoteOf(j, new) = NoteOf(j, r)
           /\ "cut" \in new.replies => new.cut
           /\ \A e \in ledger : e.job = j /\ e.use = "reading" =>
                from \notin Unread /\ (~new.whole => e.calls = new.made)
<1>1. job[j] # Tutor!Unposted /\ job[j].phase = from
  BY AtPosted
<1>2. PICK r : r = job[j] /\ JobFits(j, r) /\ r # Tutor!Unposted
  BY <1>1, Posted
<1>3. PICK new : /\ job' = [job EXCEPT ![j] = new]
                 /\ new # Tutor!Unposted /\ Fields \subseteq DOMAIN new /\ new.phase = phase
                 /\ new.kind = r.kind /\ new.text = r.text /\ new.replies = r.replies
                 /\ new.cut = r.cut /\ new.whole = r.whole /\ new.made = r.made
                 /\ new.usage = r.usage /\ new.provider = r.provider
                 /\ new.unbilled = r.unbilled
  BY <1>1, <1>2, NewPhase
<1>4. (Billed(j, new) <=> Billed(j, r)) /\ NoteOf(j, new) = NoteOf(j, r)
  BY <1>3, SameBilled DEF NoteOf
<1>5. "cut" \in new.replies => new.cut
  BY <1>2, <1>3 DEF JobFits
<1>6. \A e \in ledger : e.job = j /\ e.use = "reading" =>
        from \notin Unread /\ (~new.whole => e.calls = new.made)
  BY <1>1, <1>2, <1>3 DEF JobFits
<1> QED
  BY <1>1, <1>2, <1>3, <1>4, <1>5, <1>6

LEMMA RecordReadingKeeps == ASSUME TutorInv, NEW j \in Orders, Tutor!RecordReading(j) PROVE TutorInv'
<1>1. Tutor!At(j, "charge") /\ Tutor!Step(j, "write") /\ UNCHANGED <<record, notes, files, removing>>
  BY DEF Tutor!RecordReading
<1>2. PICK r, new :
        /\ r = job[j] /\ r.phase = "charge" /\ JobFits(j, r) /\ r # Tutor!Unposted
        /\ job' = [job EXCEPT ![j] = new] /\ Fields \subseteq DOMAIN new /\ new.phase = "write"
        /\ new.whole = r.whole /\ new.made = r.made /\ new.usage = r.usage
        /\ "cut" \in new.replies => new.cut
        /\ \A e \in ledger : e.job = j => e.use # "reading"
  BY <1>1, Goes DEF Unread
<1>3. PICK e : e = [job |-> j, use |-> "reading", provider |-> "gemini", grounded |-> FALSE, calls |-> r.usage]
  OBVIOUS
<1>4. ledger' \in {ledger, ledger \cup {e}} /\ e.job = j /\ e.calls = r.usage
  BY <1>2, <1>3 DEF Tutor!RecordReading
<1>5. ~new.whole => e.calls = new.made
  BY <1>2, <1>4 DEF JobFits
<1>6. \A x \in ledger' : x.job = j /\ x.use = "reading" => (~new.whole => x.calls = new.made)
  BY <1>2, <1>4, <1>5
<1>7. /\ j \notin removing /\ \A n \in notes : n.job # j
      /\ ~(record[j] # None /\ record[j].status = "completed")
  BY <1>2 DEF JobFits, Settled
<1>8. JobFits(j, new)'
  BY <1>1, <1>2, <1>6, <1>7 DEF JobFits, Unread, Written
<1>9. DOMAIN record' = Orders
  BY <1>1 DEF TutorInv
<1> QED
  BY <1>1, <1>2, <1>4, <1>8, <1>9, OneJob

LEMMA RecordWritingKeeps == ASSUME TutorInv, NEW j \in Orders, Tutor!RecordWriting(j) PROVE TutorInv'
<1>1. job[j] # Tutor!Unposted /\ job[j].phase = "charge2" /\ UNCHANGED <<record, notes, files, removing>>
  BY AtPosted DEF Tutor!RecordWriting
<1>2. PICK r : r = job[j] /\ r.phase = "charge2" /\ JobFits(j, r) /\ Fields \subseteq DOMAIN r
  BY <1>1, Posted
<1>3. PICK e : e = WritingEvent(j, r) /\ e = Tutor!WritingOf(j) /\ e.job = j /\ e.use = "writing"
  <2>1. Tutor!WritingOf(j) = WritingEvent(j, r)
    BY <1>2 DEF WritingEvent, Tutor!WritingOf
  <2>2. WritingEvent(j, r).job = j /\ WritingEvent(j, r).use = "writing"
    BY DEF WritingEvent
  <2> QED
    BY <2>1, <2>2
<1>4. PICK gaveUp \in BOOLEAN :
        /\ ledger' \in {ledger \cup {e}} \cup IF gaveUp THEN {ledger} ELSE {}
        /\ job' = [job EXCEPT ![j].unbilled = gaveUp, ![j].phase = "render"]
  BY <1>3 DEF Tutor!RecordWriting
<1>5. PICK new : new = [r EXCEPT !.unbilled = gaveUp, !.phase = "render"]
  OBVIOUS
<1>6. job' = [job EXCEPT ![j] = new]
  BY <1>2, <1>4, <1>5 DEF TutorInv
<1>7. /\ Fields \subseteq DOMAIN new /\ new.phase = "render" /\ new.replies = r.replies /\ new.cut = r.cut
      /\ new.whole = r.whole /\ new.made = r.made /\ new.usage = r.usage
      /\ new.kind = r.kind /\ new.text = r.text /\ new.provider = r.provider
  BY <1>2, <1>5 DEF Fields
<1>8. new.unbilled = gaveUp
  BY <1>2, <1>5 DEF Fields
<1>9. ledger \subseteq ledger' /\ \A x \in ledger' : x \in ledger \/ x = e
  BY <1>4
<1>10. Billed(j, new)'
  <2>1. WritingEvent(j, new) = e
    BY <1>3, <1>7 DEF WritingEvent
  <2>2. gaveUp \/ e \in ledger'
    BY <1>4
  <2> QED
    BY <1>8, <2>1, <2>2 DEF Billed, WritingEvent
<1>11. \A x \in ledger' : x.job = j /\ x.use = "reading" => (~new.whole => x.calls = new.made)
  BY <1>2, <1>3, <1>7, <1>9 DEF JobFits
<1>12. /\ j \notin removing /\ \A n \in notes : n.job # j
       /\ ~(record[j] # None /\ record[j].status = "completed")
       /\ "cut" \in new.replies => new.cut
  BY <1>1, <1>2, <1>7 DEF JobFits, Settled
<1>13. JobFits(j, new)'
  BY <1>1, <1>7, <1>10, <1>11, <1>12 DEF JobFits, Unread
<1>14. DOMAIN record' = Orders
  BY <1>1 DEF TutorInv
<1> QED
  BY <1>1, <1>3, <1>6, <1>9, <1>13, <1>14, OneJob

\* The file comes before the history entry.
LEMMA UploadKeeps == ASSUME TutorInv, NEW j \in Orders, Tutor!Upload(j) \/ Tutor!UploadFails(j) PROVE TutorInv'
<1>1. PICK phase \in {"persist", "finish", "fail"} : Tutor!Step(j, phase)
  BY DEF Tutor!Upload, Tutor!UploadFails
<1>2. Tutor!At(j, "upload") /\ UNCHANGED <<record, ledger, notes, removing>>
  BY DEF Tutor!Upload, Tutor!UploadFails
<1>3. PICK r, new :
        /\ r = job[j] /\ r.phase = "upload" /\ JobFits(j, r) /\ r # Tutor!Unposted
        /\ job' = [job EXCEPT ![j] = new] /\ Fields \subseteq DOMAIN new /\ new.phase = phase
        /\ new.kind = r.kind /\ (Billed(j, new) <=> Billed(j, r))
        /\ "cut" \in new.replies => new.cut
        /\ \A e \in ledger : e.job = j /\ e.use = "reading" => (~new.whole => e.calls = new.made)
  BY <1>1, <1>2, Goes
<1>4. /\ files \subseteq files' /\ \A k \in files' : k \in files \/ k = j
  BY DEF Tutor!Upload, Tutor!UploadFails
<1>5. phase = "persist" => j \in files' /\ new.kind = "notes"
  <2>1. CASE Tutor!Upload(j)
    <3>1. Tutor!Step(j, IF r.kind = "notes" THEN "persist" ELSE "finish") /\ j \in files'
      BY <1>3, <2>1 DEF Tutor!Upload
    <3>2. job'[j].phase = (IF r.kind = "notes" THEN "persist" ELSE "finish")
      BY <1>3, <3>1 DEF Tutor!Step, TutorInv, JobFits, Fields
    <3>3. job'[j].phase = phase
      BY <1>3 DEF TutorInv
    <3> QED
      BY <1>3, <3>1, <3>2, <3>3
  <2>2. CASE Tutor!UploadFails(j)
    <3>1. job'[j].phase = "fail"
      BY <1>3, <2>2 DEF Tutor!UploadFails, Tutor!Step, TutorInv, JobFits, Fields
    <3>2. job'[j].phase = phase
      BY <1>3 DEF TutorInv
    <3> QED
      BY <3>1, <3>2
  <2> QED
    BY <2>1, <2>2
<1>6. /\ j \notin removing /\ \A n \in notes : n.job # j
      /\ ~(record[j] # None /\ record[j].status = "completed")
      /\ Billed(j, new)
  BY <1>3 DEF JobFits, Settled, Written
<1>7. JobFits(j, new)'
  <2>1. Billed(j, new)'
    BY <1>2, <1>6, BilledStays
  <2> QED
    BY <1>2, <1>3, <1>5, <1>6, <2>1 DEF JobFits, Unread
<1>8. DOMAIN record' = Orders
  BY <1>2 DEF TutorInv
<1> QED
  BY <1>2, <1>3, <1>4, <1>7, <1>8, OneJob

\* The entry may be written although the write is reported as failed.
LEMMA PersistKeeps == ASSUME TutorInv, NEW j \in Orders, Tutor!Persist(j) \/ Tutor!PersistFails(j) PROVE TutorInv'
<1>1. job[j] # Tutor!Unposted /\ job[j].phase = "persist" /\ UNCHANGED <<record, ledger, files, removing>>
  BY AtPosted DEF Tutor!Persist, Tutor!PersistFails
<1>2. PICK r : r = job[j] /\ JobFits(j, r) /\ Fields \subseteq DOMAIN r /\ r # Tutor!Unposted
  BY <1>1, Posted
<1>3. PICK new : /\ job' = [job EXCEPT ![j] = new] /\ Fields \subseteq DOMAIN new /\ new.phase = "finish"
                 /\ new.kind = r.kind /\ new.text = r.text /\ new.replies = r.replies
                 /\ new.cut = r.cut /\ new.whole = r.whole /\ new.made = r.made
                 /\ new.usage = r.usage /\ new.provider = r.provider
                 /\ new.unbilled = r.unbilled
  <2>1. CASE Tutor!Persist(j)
    <3>1. PICK new : new = [r EXCEPT !.note = j, !.phase = "finish"]
      OBVIOUS
    <3>2. job' = [job EXCEPT ![j] = new]
      BY <1>2, <2>1, <3>1 DEF Tutor!Persist, TutorInv
    <3>3. /\ Fields \subseteq DOMAIN new /\ new.phase = "finish"
          /\ new.kind = r.kind /\ new.text = r.text /\ new.replies = r.replies
          /\ new.cut = r.cut /\ new.whole = r.whole /\ new.made = r.made
          /\ new.usage = r.usage /\ new.provider = r.provider
          /\ new.unbilled = r.unbilled
      BY <1>2, <3>1 DEF Fields
    <3> QED
      BY <3>2, <3>3
  <2>2. CASE Tutor!PersistFails(j)
    <3>1. Tutor!Step(j, "finish")
      BY <2>2 DEF Tutor!PersistFails
    <3> QED
      BY <1>1, <1>2, <3>1, NewPhase
  <2> QED
    BY <2>1, <2>2
<1>4. (Billed(j, new) <=> Billed(j, r)) /\ NoteOf(j, new) = NoteOf(j, r)
  BY <1>3, SameBilled DEF NoteOf
<1>5. PICK n : n = NoteOf(j, new) /\ n.job = j
  <2>1. NoteOf(j, new).job = j
    BY DEF NoteOf
  <2> QED
    BY <2>1
<1>6. \A x \in notes' : x \in notes \/ x = n
  <2>1. Tutor!Note(j) = NoteOf(j, r)
    BY <1>2 DEF Tutor!Note, NoteOf
  <2>2. n = Tutor!Note(j)
    BY <2>1, <1>4, <1>5
  <2>3. notes' \in {notes, notes \cup {Tutor!Note(j)}}
    BY DEF Tutor!Persist, Tutor!PersistFails
  <2> QED
    BY <2>2, <2>3
<1>7. /\ j \notin removing /\ j \in files /\ r.kind = "notes" /\ \A x \in notes : x.job # j
      /\ ~(record[j] # None /\ record[j].status = "completed")
      /\ Billed(j, new)
  BY <1>1, <1>2, <1>4 DEF JobFits, Settled, Written
<1>8. \A x \in notes' : x.job = j => x = NoteOf(j, new)
  BY <1>5, <1>6, <1>7
<1>9. JobFits(j, new)'
  <2>1. Billed(j, new)' /\ NoteOf(j, new)' = NoteOf(j, new)
    BY <1>1, <1>7, BilledStays DEF NoteOf
  <2>2. "cut" \in new.replies => new.cut
    BY <1>2, <1>3 DEF JobFits
  <2>3. \A e \in ledger : e.job = j /\ e.use = "reading" => (~new.whole => e.calls = new.made)
    BY <1>2, <1>3 DEF JobFits
  <2> QED
    BY <1>1, <1>3, <1>7, <1>8, <2>1, <2>2, <2>3 DEF JobFits, Unread, Settled
<1>10. DOMAIN record' = Orders /\ \A x \in notes' : x \in notes \/ x.job = j
  BY <1>1, <1>5, <1>6 DEF TutorInv
<1> QED
  BY <1>1, <1>3, <1>9, <1>10, OneJob

\* The answer to the student; a finished or expired record is left alone.
LEMMA AnswerKeeps == ASSUME TutorInv, NEW j \in Orders, Tutor!Finish(j) \/ Tutor!Fail(j) PROVE TutorInv'
<1>1. PICK from \in {"finish", "fail"}, phase \in {"done", "failed"} :
        Tutor!At(j, from) /\ Tutor!Step(j, phase) /\ (from = "finish" <=> phase = "done")
  BY DEF Tutor!Finish, Tutor!Fail
<1>2. UNCHANGED <<ledger, notes, files, removing>>
  BY DEF Tutor!Finish, Tutor!Fail
<1>3. PICK r, new :
        /\ r = job[j] /\ r.phase = from /\ JobFits(j, r) /\ r # Tutor!Unposted
        /\ job' = [job EXCEPT ![j] = new] /\ Fields \subseteq DOMAIN new /\ new.phase = phase
        /\ new.kind = r.kind /\ new.cut = r.cut
        /\ (Billed(j, new) <=> Billed(j, r)) /\ NoteOf(j, new) = NoteOf(j, r)
        /\ "cut" \in new.replies => new.cut
        /\ \A e \in ledger : e.job = j /\ e.use = "reading" => (~new.whole => e.calls = new.made)
  BY <1>1, Goes
<1>4. PICK told :
        /\ record' = Tutor!Updated(j, told)
        /\ told.status = "completed" => phase = "done" /\ told.warning = r.cut
  <2>1. CASE Tutor!Finish(j)
    <3>1. from = "finish" /\ phase = "done"
      BY <1>1, <1>3, <2>1 DEF Tutor!Finish, Tutor!At
    <3>2. PICK said : said = [status |-> "completed", warning |-> r.cut, note |-> job[j].note]
      OBVIOUS
    <3>3. record' = Tutor!Updated(j, said) /\ said.warning = r.cut
      BY <1>3, <2>1, <3>2 DEF Tutor!Finish
    <3> QED
      BY <3>1, <3>3
  <2>2. CASE Tutor!Fail(j)
    <3>1. PICK said : said = [status |-> "failed", warning |-> FALSE, note |-> None]
      OBVIOUS
    <3>2. record' = Tutor!Updated(j, said) /\ said.status # "completed"
      BY <2>2, <3>1 DEF Tutor!Fail
    <3> QED
      BY <3>2
  <2> QED
    BY <2>1, <2>2
<1>5. ~(record[j] # None /\ record[j].status = "completed")
  BY <1>3 DEF JobFits
<1>6. record' = record \/ record' = [record EXCEPT ![j] = told]
  BY <1>4 DEF Tutor!Updated
<1>7. DOMAIN record' = Orders /\ \A k \in Orders \ {j} : record'[k] = record[k]
  BY <1>6 DEF TutorInv
<1>8. record'[j] # None /\ record'[j].status = "completed" => phase = "done" /\ record'[j].warning = new.cut
  <2>1. CASE record' = record
    BY <1>5, <2>1
  <2>2. CASE record' = [record EXCEPT ![j] = told]
    <3>1. record'[j] = told
      BY <2>2 DEF TutorInv
    <3> QED
      BY <1>3, <1>4, <3>1
  <2> QED
    BY <1>6, <2>1, <2>2
<1>9. JobFits(j, new)'
  <2>1. NoteOf(j, new)' = NoteOf(j, new)
    BY DEF NoteOf
  <2>2. phase = "done" => Billed(j, new)'
    BY <1>1, <1>2, <1>3, BilledStays DEF JobFits, Written
  <2>3. phase = "failed" => j \notin removing /\ \A n \in notes : n.job # j
    BY <1>1, <1>3 DEF JobFits, Settled
  <2>4. \A n \in notes : n.job = j =>
          new.kind = "notes" /\ n = NoteOf(j, new) /\ j \in files /\ j \notin removing
    BY <1>3 DEF JobFits
  <2> QED
    BY <1>1, <1>2, <1>3, <1>8, <2>1, <2>2, <2>3, <2>4 DEF JobFits, Unread, Settled, Written
<1> QED
  BY <1>2, <1>3, <1>7, <1>9, OneJob

LEMMA ExpireKeeps == ASSUME TutorInv, NEW j \in Orders, Tutor!Expire(j) PROVE TutorInv'
<1>1. record' = [record EXCEPT ![j] = None] /\ UNCHANGED <<job, ledger, notes, files, removing>>
  BY DEF Tutor!Expire
<1>2. DOMAIN record' = Orders /\ \A k \in Orders : record'[k] = None \/ record'[k] = record[k]
  BY <1>1 DEF TutorInv
<1>3. ASSUME NEW k \in Orders PROVE JobFits(k, job[k])'
  <2>1. PICK r : r = job[k] /\ r = job'[k]
    BY <1>1
  <2>2. JobFits(k, r)
    BY <2>1 DEF TutorInv
  <2>3. JobFits(k, r)'
    BY <1>1, <1>2, <2>2, BilledStays DEF JobFits
  <2> QED
    BY <2>1, <2>3 DEF JobFits
<1> QED
  BY <1>1, <1>2, <1>3 DEF TutorInv

\* The history entry goes before its file: an entry never outlives its file.
LEMMA DeleteKeeps ==
  ASSUME TutorInv, (\E n \in notes : Tutor!DeleteNote(n)) \/ (\E j \in Orders : Tutor!DeleteFile(j))
  PROVE  TutorInv'
<1>1. PICK j \in Orders :
        /\ UNCHANGED <<job, record, ledger>>
        /\ \A k \in Orders \ {j} : (k \in removing' <=> k \in removing) /\ (k \in files' <=> k \in files)
        /\ notes' \subseteq notes /\ \A n \in notes' : n.job # j
        /\ j \in removing' => job[j].phase \in Settled
        /\ job[j].phase # "persist"
  <2>1. CASE \E n \in notes : Tutor!DeleteNote(n)
    <3>1. PICK n \in notes : Tutor!DeleteNote(n)
      BY <2>1
    <3>2. PICK j \in Orders : j = n.job
      BY DEF TutorInv
    <3>3. PICK r : r = job[j] /\ JobFits(j, r)
      BY DEF TutorInv
    <3>4. r.phase \in Settled /\ \A m \in notes : m.job = j => m = n
      BY <3>2, <3>3 DEF JobFits
    <3> QED
      BY <3>1, <3>2, <3>3, <3>4 DEF Tutor!DeleteNote, Settled
  <2>2. CASE \E j \in Orders : Tutor!DeleteFile(j)
    <3>1. PICK j \in Orders : Tutor!DeleteFile(j)
      BY <2>2
    <3>2. PICK r : r = job[j] /\ JobFits(j, r)
      BY DEF TutorInv
    <3>3. r.phase \in Settled /\ \A m \in notes : m.job # j
      BY <3>1, <3>2 DEF JobFits, Tutor!DeleteFile
    <3> QED
      BY <3>1, <3>2, <3>3 DEF Tutor!DeleteFile, Settled
  <2> QED
    BY <2>1, <2>2
<1>2. ASSUME NEW k \in Orders PROVE JobFits(k, job[k])'
  <2>1. PICK r : r = job[k] /\ r = job'[k]
    BY <1>1
  <2>2. JobFits(k, r)
    BY <2>1 DEF TutorInv
  <2>3. CASE k = j
    BY <1>1, <2>1, <2>2, <2>3, BilledStays DEF JobFits
  <2>4. CASE k # j
    BY <1>1, <2>1, <2>2, <2>4, BilledStays DEF JobFits
  <2> QED
    BY <2>3, <2>4
<1> QED
  BY <1>1, <1>2 DEF TutorInv

LEMMA TutorStep == ASSUME TutorInv, [Tutor!Next]_Tutor!vars PROVE TutorInv'
<1>1. CASE UNCHANGED Tutor!vars
  <2>1. UNCHANGED <<job, record, ledger, notes, files, removing>>
    BY <1>1 DEF Tutor!vars
  <2>2. \A j \in Orders : JobFits(j, job[j])'
    <3> SUFFICES ASSUME NEW j \in Orders PROVE JobFits(j, job[j])'
      OBVIOUS
    <3>1. PICK r : r = job[j] /\ r = job'[j] /\ JobFits(j, r)
      BY <2>1 DEF TutorInv
    <3> QED
      BY <2>1, <3>1, BilledStays DEF JobFits, NoteOf
  <2> QED
    BY <2>1, <2>2 DEF TutorInv
<1>2. ASSUME NEW j \in Orders, NEW kind, NEW prompt, NEW doc, Tutor!Post(j, kind, prompt, doc) PROVE TutorInv'
  BY <1>2, PostKeeps
<1>3. ASSUME NEW j \in Orders,
             \/ Tutor!Begin(j) \/ Tutor!ReadImage(j) \/ Tutor!ChooseProvider(j) \/ Tutor!ClaudeFails(j)
             \/ Tutor!Render(j) \/ Tutor!Stop(j) \/ \E e \in Tutor!Errors : Tutor!WholeFails(j, e)
      PROVE  TutorInv'
  BY <1>3, ChoiceKeeps
<1>4. ASSUME NEW j \in Orders,
             \/ Tutor!ReadWord(j) \/ Tutor!ReadPdf(j) \/ Tutor!Retry(j) \/ Tutor!OcrEnds(j)
             \/ \E reply \in Tutor!Replies : Tutor!OcrBatch(j, reply) \/ Tutor!ReadWhole(j, reply)
             \/ \E e \in Tutor!Errors : Tutor!OcrFails(j, e) \/ Tutor!GeminiFails(j, e)
             \/ \E p \in Tutor!Providers : Tutor!Writes(j, p)
      PROVE  TutorInv'
  BY <1>4, ReadWordKeeps, ReadPdfKeeps, RetryKeeps, OcrEndsKeeps, OcrBatchKeeps, ReadWholeKeeps,
     OcrFailsKeeps, GeminiFailsKeeps, WritesKeeps
<1>5. ASSUME NEW j \in Orders,
             \/ Tutor!RecordReading(j) \/ Tutor!RecordWriting(j) \/ Tutor!Upload(j) \/ Tutor!UploadFails(j)
             \/ Tutor!Persist(j) \/ Tutor!PersistFails(j) \/ Tutor!Finish(j) \/ Tutor!Fail(j) \/ Tutor!Expire(j)
      PROVE  TutorInv'
  BY <1>5, RecordReadingKeeps, RecordWritingKeeps, UploadKeeps, PersistKeeps, AnswerKeeps, ExpireKeeps
<1>6. CASE (\E n \in notes : Tutor!DeleteNote(n)) \/ (\E j \in Orders : Tutor!DeleteFile(j))
  BY <1>6, DeleteKeeps
<1> QED
  BY <1>1, <1>2, <1>3, <1>4, <1>5, <1>6 DEF Tutor!Next

LEMMA TutorBacked ==
  ASSUME TutorInv
  PROVE  Tutor!NotesHaveFiles /\ Tutor!ResultsAreBacked /\ Tutor!CutIsTold /\ Tutor!ReadingIsCharged
<1>1. Tutor!NotesHaveFiles
  BY DEF TutorInv, JobFits, Tutor!NotesHaveFiles
<1>2. ASSUME NEW j \in Orders, record[j] # None, record[j].status = "completed"
      PROVE  /\ j \in files \/ \A n \in notes : n.job # j
             /\ job[j].unbilled \/ \E e \in ledger : e.job = j /\ e.use = "writing"
             /\ "cut" \in job[j].replies => record[j].warning
             /\ \A n \in notes : n.job = j =>
                  /\ n.warning = record[j].warning
                  /\ \/ job[j].unbilled
                     \/ [job |-> j, use |-> "writing", provider |-> n.provider,
                         grounded |-> n.grounded, calls |-> 1] \in ledger
  <2>1. PICK r : r = job[j] /\ JobFits(j, r)
    BY DEF TutorInv
  <2>2. r.phase = "done" /\ record[j].warning = r.cut
    BY <1>2, <2>1 DEF JobFits
  <2>3. r # Tutor!Unposted
    BY <2>2 DEF Tutor!Unposted
  <2>4. Billed(j, r)
    BY <2>1, <2>2 DEF JobFits, Written
  <2>5. r.unbilled \/ \E e \in ledger : e.job = j /\ e.use = "writing"
    BY <2>4 DEF Billed, WritingEvent
  <2>6. j \in files \/ \A n \in notes : n.job # j
    BY <2>1 DEF JobFits
  <2>7. "cut" \in r.replies => r.cut
    BY <2>1, <2>3 DEF JobFits
  <2>8. ASSUME NEW n \in notes, n.job = j
        PROVE  /\ n.warning = r.cut
               /\ \/ r.unbilled
                  \/ [job |-> j, use |-> "writing", provider |-> n.provider,
                      grounded |-> n.grounded, calls |-> 1] \in ledger
    <3>1. n = NoteOf(j, r) /\ r.kind = "notes"
      BY <2>1, <2>8 DEF JobFits
    <3>2. n.warning = r.cut /\ n.provider = r.provider
      BY <3>1 DEF NoteOf
    <3>3. n.grounded = (r.text # << >>)
      BY <3>1 DEF NoteOf
    <3>4. WritingEvent(j, r) = [job |-> j, use |-> "writing", provider |-> n.provider,
                                grounded |-> n.grounded, calls |-> 1]
      BY <3>1, <3>2, <3>3 DEF WritingEvent
    <3> QED
      BY <2>4, <3>2, <3>4 DEF Billed
  <2> QED
    BY <2>1, <2>2, <2>5, <2>6, <2>7, <2>8
<1>3. Tutor!ResultsAreBacked
  BY <1>2 DEF Tutor!ResultsAreBacked
<1>4. Tutor!CutIsTold
  BY <1>2 DEF Tutor!CutIsTold
<1>5. Tutor!ReadingIsCharged
  BY DEF TutorInv, JobFits, Tutor!ReadingIsCharged
<1> QED
  BY <1>1, <1>3, <1>4, <1>5

-----------------------------------------------------------------------------
\* Course material: the inductive invariant

Entries == {"user", "file", "phase", "match", "vectors"}
Saved == {"finish", "fail", "ended", "stopped"}

\* Somebody has uploaded the bytes of f.
HasUploaded(u, f) ==
  \E j \in Jobs : indexing[j] # Index!Unposted /\ indexing[j].user = u /\ indexing[j].file = f

\* The document d may be told of or used on behalf of u, who uploaded f.
Usable(d, u, f) == d \in DOMAIN docs /\ docs[d].file = f /\ u \in docs[d].owners

\* The upload j, as its worker knows it, and what is on record of it.
UploadFits(j, r) ==
  /\ r # Index!Unposted => /\ Entries \subseteq DOMAIN r /\ r.phase # "none"
                            /\ r.user \in Uploaders /\ r.file \in Textbooks
  /\ j \in DOMAIN docs => r # Index!Unposted /\ r.phase \in Saved /\ docs[j].file = r.file
  /\ r.phase = "own" => r.match \in DOMAIN docs /\ docs[r.match].file = r.file
  /\ r.phase = "owned" => Usable(r.match, r.user, r.file)
  /\ r.phase = "finish" => Usable(j, r.user, r.file)
  /\ status[j] # None /\ status[j].status = "done" =>
       r # Index!Unposted /\ Usable(status[j].doc, r.user, r.file)

IndexInv ==
  /\ DOMAIN indexing = Jobs /\ indexing = [j \in Jobs |-> indexing[j]] /\ DOMAIN status = Jobs
  /\ \A j \in Jobs : UploadFits(j, indexing[j])
  /\ DOMAIN docs \subseteq Jobs
  /\ \A d \in DOMAIN docs :
       /\ {"file", "owners"} \subseteq DOMAIN docs[d]
       /\ \A u \in docs[d].owners : HasUploaded(u, docs[d].file)
  /\ \A c \in contexts : c.doc \in DOMAIN docs /\ HasUploaded(c.user, docs[c.doc].file)

LEMMA IndexInit == ASSUME Index!Init PROVE IndexInv
<1>1. \A j \in Jobs : indexing[j] = Index!Unposted /\ indexing[j].phase = "none" /\ status[j] = None
  BY DEF Index!Init, Index!Unposted
<1>2. DOMAIN docs = {} /\ contexts = {} /\ DOMAIN indexing = Jobs /\ DOMAIN status = Jobs
  BY DEF Index!Init
<1>3. \A j \in Jobs : UploadFits(j, indexing[j])
  BY <1>1, <1>2 DEF UploadFits
<1>4. indexing = [j \in Jobs |-> indexing[j]]
  BY DEF Index!Init
<1> QED
  BY <1>2, <1>3, <1>4 DEF IndexInv

\* What a worker's step does: one upload goes on, the documents keep their bytes
\* and their owners, and what is added is the user of that upload.
DocsGrow(j, r) ==
  /\ DOMAIN docs \subseteq DOMAIN docs' /\ DOMAIN docs' \subseteq DOMAIN docs \cup {j}
  /\ \A d \in DOMAIN docs : /\ {"file", "owners"} \subseteq DOMAIN docs'[d]
                            /\ docs'[d].file = docs[d].file
                            /\ docs[d].owners \subseteq docs'[d].owners
  /\ \A d \in DOMAIN docs' :
       /\ {"file", "owners"} \subseteq DOMAIN docs'[d]
       /\ \A u \in docs'[d].owners :
            \/ d \in DOMAIN docs /\ u \in docs[d].owners
            \/ u = r.user /\ docs'[d].file = r.file

LEMMA OneIndexing ==
  ASSUME IndexInv, NEW j \in Jobs, NEW new,
         indexing' = [indexing EXCEPT ![j] = new], new # Index!Unposted,
         indexing[j] # Index!Unposted => new.user = indexing[j].user /\ new.file = indexing[j].file,
         DOMAIN status' = Jobs, \A k \in Jobs \ {j} : status'[k] = status[k],
         DocsGrow(j, new), contexts' = contexts,
         UploadFits(j, new)'
  PROVE  IndexInv'
<1>1. DOMAIN indexing' = Jobs /\ indexing'[j] = new /\ \A k \in Jobs \ {j} : indexing'[k] = indexing[k]
  BY DEF IndexInv
<1>2. ASSUME NEW k \in Jobs \ {j} PROVE UploadFits(k, indexing[k])'
  <2>1. PICK r : r = indexing[k] /\ r = indexing'[k]
    BY <1>1
  <2>2. UploadFits(k, r)
    BY <2>1 DEF IndexInv
  <2>3. k \in DOMAIN docs' => k \in DOMAIN docs /\ docs'[k].file = docs[k].file
    BY DEF DocsGrow
  <2>4. \A d, u, f : Usable(d, u, f) => Usable(d, u, f)'
    BY DEF DocsGrow, Usable
  <2>5. r.phase = "own" => r.match \in DOMAIN docs' /\ docs'[r.match].file = r.file
    BY <2>2 DEF UploadFits, DocsGrow
  <2>6. status'[k] = status[k]
    OBVIOUS
  <2>7. UploadFits(k, r)'
    BY <2>2, <2>3, <2>4, <2>5, <2>6 DEF UploadFits
  <2> QED
    BY <2>1, <2>7
<1>3. UploadFits(j, indexing[j])'
  BY <1>1
<1>4. \A u, f : HasUploaded(u, f) => HasUploaded(u, f)'
  BY <1>1 DEF HasUploaded
<1>5. HasUploaded(new.user, new.file)'
  BY <1>1 DEF HasUploaded
<1>6. DOMAIN docs' \subseteq Jobs
  BY DEF IndexInv, DocsGrow
<1>7. ASSUME NEW d \in DOMAIN docs'
      PROVE  /\ {"file", "owners"} \subseteq DOMAIN docs'[d]
             /\ \A u \in docs'[d].owners : HasUploaded(u, docs[d].file)'
  <2>1. {"file", "owners"} \subseteq DOMAIN docs'[d]
    BY DEF DocsGrow
  <2>2. ASSUME NEW u \in docs'[d].owners PROVE HasUploaded(u, docs[d].file)'
    <3>1. CASE d \in DOMAIN docs /\ u \in docs[d].owners
      <4>1. HasUploaded(u, docs[d].file) /\ docs'[d].file = docs[d].file
        BY <3>1 DEF IndexInv, DocsGrow
      <4> QED
        BY <4>1, <1>4
    <3>2. CASE u = new.user /\ docs'[d].file = new.file
      BY <3>2, <1>5
    <3> QED
      BY <3>1, <3>2 DEF DocsGrow
  <2> QED
    BY <2>1, <2>2
<1>8. ASSUME NEW c \in contexts'
      PROVE  c.doc \in DOMAIN docs' /\ HasUploaded(c.user, docs[c.doc].file)'
  <2>1. c.doc \in DOMAIN docs /\ HasUploaded(c.user, docs[c.doc].file)
    BY DEF IndexInv
  <2>2. c.doc \in DOMAIN docs' /\ docs'[c.doc].file = docs[c.doc].file
    BY <2>1 DEF DocsGrow
  <2> QED
    BY <2>1, <2>2, <1>4
<1>9. indexing' = [k \in Jobs |-> indexing'[k]]
  BY DEF IndexInv
<1>10. \A k \in Jobs : UploadFits(k, indexing[k])'
  BY <1>2, <1>3
<1> QED
  BY <1>1, <1>6, <1>7, <1>8, <1>9, <1>10 DEF IndexInv

\* A job at a phase of the list is posted.
LEMMA Indexed ==
  ASSUME IndexInv, NEW j \in Jobs, indexing[j].phase # "none"
  PROVE  /\ indexing[j] # Index!Unposted /\ UploadFits(j, indexing[j])
         /\ Entries \subseteq DOMAIN indexing[j]
         /\ indexing[j].user \in Uploaders /\ indexing[j].file \in Textbooks
<1>1. Index!Unposted.phase = "none"
  BY DEF Index!Unposted
<1> QED
  BY <1>1 DEF IndexInv, UploadFits

\* A step of the worker that only moves it on.
LEMMA IndexGoes ==
  ASSUME IndexInv, NEW j \in Jobs, indexing[j].phase # "none", NEW phase, phase # "none",
         Index!Step(j, phase)
  PROVE  \E r, new :
           /\ r = indexing[j] /\ UploadFits(j, r) /\ r # Index!Unposted
           /\ indexing' = [indexing EXCEPT ![j] = new] /\ new # Index!Unposted
           /\ Entries \subseteq DOMAIN new /\ new.phase = phase
           /\ new.user = r.user /\ new.file = r.file /\ new.match = r.match
           /\ new.user \in Uploaders /\ new.file \in Textbooks
<1>1. PICK r : r = indexing[j] /\ UploadFits(j, r) /\ r # Index!Unposted /\ Entries \subseteq DOMAIN r
               /\ r.user \in Uploaders /\ r.file \in Textbooks
  BY Indexed
<1>2. PICK new : new = [r EXCEPT !.phase = phase]
  OBVIOUS
<1>3. Entries \subseteq DOMAIN new /\ new.phase = phase
      /\ new.user = r.user /\ new.file = r.file /\ new.match = r.match
  BY <1>1, <1>2 DEF Entries
<1>4. indexing' = [indexing EXCEPT ![j] = new]
  BY <1>1, <1>2 DEF Index!Step, IndexInv
<1>5. new # Index!Unposted
  BY <1>3 DEF Index!Unposted
<1> QED
  BY <1>1, <1>3, <1>4, <1>5

\* Nothing is stored: the documents stay.
LEMMA DocsStay == ASSUME IndexInv, NEW j, NEW r, docs' = docs PROVE DocsGrow(j, r)
  BY DEF IndexInv, DocsGrow

\* A step that stores no document and reports nothing, to a phase that needs none
\* and keeps what a stored document needs.
LEMMA IndexWorks ==
  ASSUME IndexInv, NEW j \in Jobs, indexing[j].phase # "none", NEW phase,
         phase \notin {"none", "own", "owned", "finish"},
         indexing[j].phase \in Saved => phase \in Saved,
         Index!Step(j, phase), UNCHANGED <<docs, contexts, status>>
  PROVE  IndexInv'
<1>1. PICK r, new :
        /\ r = indexing[j] /\ UploadFits(j, r) /\ r # Index!Unposted
        /\ indexing' = [indexing EXCEPT ![j] = new] /\ new # Index!Unposted
        /\ Entries \subseteq DOMAIN new /\ new.phase = phase
        /\ new.user = r.user /\ new.file = r.file /\ new.match = r.match
        /\ new.user \in Uploaders /\ new.file \in Textbooks
  BY IndexGoes
<1>2. UploadFits(j, new)'
  <2>1. \A d, u, f : Usable(d, u, f)' <=> Usable(d, u, f)
    BY DEF Usable
  <2> QED
    BY <1>1, <2>1 DEF UploadFits
<1>3. DocsGrow(j, new)
  BY DocsStay
<1>4. DOMAIN status' = Jobs /\ \A k \in Jobs \ {j} : status'[k] = status[k]
  BY DEF IndexInv
<1> QED
  BY <1>1, <1>2, <1>3, <1>4, OneIndexing

\* An upload is posted.
LEMMA PostedKeeps ==
  ASSUME IndexInv, NEW j \in Jobs, NEW u \in Uploaders, NEW f \in Textbooks, Index!Upload(j, u, f)
  PROVE  IndexInv'
<1>1. PICK new : new = [user |-> u, file |-> f, phase |-> "check", match |-> None, vectors |-> << >>]
  OBVIOUS
<1>2. /\ Entries \subseteq DOMAIN new /\ new.user = u /\ new.file = f /\ new.phase = "check"
      /\ new # Index!Unposted
  BY <1>1 DEF Entries, Index!Unposted
<1>3. /\ indexing' = [indexing EXCEPT ![j] = new] /\ indexing[j] = Index!Unposted
      /\ UNCHANGED <<docs, contexts>>
  BY <1>1 DEF Index!Upload
<1>4. PICK registered : registered = Index!Registered /\ registered.status = "processing"
  <2>1. Index!Registered.status = "processing"
    BY DEF Index!Registered
  <2> QED
    BY <2>1
<1>5. status' = [status EXCEPT ![j] = registered]
  BY <1>4 DEF Index!Upload
<1>6. DOMAIN status' = Jobs /\ status'[j] = registered /\ \A k \in Jobs \ {j} : status'[k] = status[k]
  BY <1>5 DEF IndexInv
<1>7. j \notin DOMAIN docs
  BY <1>3 DEF IndexInv, UploadFits
<1>8. UploadFits(j, new)'
  BY <1>2, <1>3, <1>4, <1>6, <1>7 DEF UploadFits
<1>9. DocsGrow(j, new)
  BY <1>3, DocsStay
<1> QED
  BY <1>2, <1>3, <1>6, <1>8, <1>9, OneIndexing

\* The document that is taken for the uploaded file has its bytes.
LEMMA CheckKeeps ==
  ASSUME Index!ConstantsOK, IndexInv, NEW j \in Jobs, Index!CheckForDuplicate(j) PROVE IndexInv'
<1>1. indexing[j].phase = "check" /\ UNCHANGED <<docs, contexts, status>>
  BY DEF Index!CheckForDuplicate, Index!At
<1>2. CASE Index!Step(j, "extract")
  BY <1>1, <1>2, IndexWorks DEF Saved
<1>3. CASE ~Index!Step(j, "extract")
  <2>1. PICK r : r = indexing[j] /\ UploadFits(j, r) /\ r # Index!Unposted /\ Entries \subseteq DOMAIN r
                 /\ r.user \in Uploaders /\ r.file \in Textbooks
    BY <1>1, Indexed
  <2>2. PICK d \in Index!Matches(r.file) :
          indexing' = [indexing EXCEPT ![j].match = d, ![j].phase = "own"]
    BY <1>3, <2>1 DEF Index!CheckForDuplicate
  <2>3. PICK new : new = [r EXCEPT !.match = d, !.phase = "own"]
    OBVIOUS
  <2>4. /\ Entries \subseteq DOMAIN new /\ new.user = r.user /\ new.file = r.file
        /\ new.match = d /\ new.phase = "own"
    BY <2>1, <2>3 DEF Entries
  <2>5. indexing' = [indexing EXCEPT ![j] = new]
    BY <2>1, <2>2, <2>3 DEF IndexInv
  <2>6. new # Index!Unposted
    BY <2>4 DEF Index!Unposted
  <2>7. d \in DOMAIN docs /\ docs[d].file.hash = r.file.hash
    BY <2>2 DEF Index!Matches, Index!SameFile
  <2>8. docs[d].file = indexing[d].file /\ indexing[d].file \in Textbooks
    BY <2>7 DEF IndexInv, UploadFits
  <2>9. docs[d].file = r.file
    BY <2>1, <2>7, <2>8 DEF Index!ConstantsOK
  <2>10. UploadFits(j, new)'
    <3>1. \A k, u, f : Usable(k, u, f)' <=> Usable(k, u, f)
      BY <1>1 DEF Usable
    <3>2. j \notin DOMAIN docs'
      BY <1>1, <2>1 DEF UploadFits, Saved
    <3>3. new.match \in DOMAIN docs' /\ docs'[new.match].file = new.file
      BY <1>1, <2>4, <2>7, <2>9
    <3>4. status'[j] # None /\ status'[j].status = "done" => Usable(status[j].doc, new.user, new.file)'
      BY <1>1, <2>1, <2>4, <3>1 DEF UploadFits
    <3> QED
      BY <2>1, <2>4, <2>6, <3>2, <3>3, <3>4 DEF UploadFits
  <2>11. DocsGrow(j, new)
    BY <1>1, DocsStay
  <2>12. DOMAIN status' = Jobs /\ \A k \in Jobs \ {j} : status'[k] = status[k]
    BY <1>1 DEF IndexInv
  <2> QED
    BY <1>1, <2>1, <2>4, <2>5, <2>6, <2>10, <2>11, <2>12, OneIndexing
<1> QED
  BY <1>2, <1>3

\* The user of the upload becomes an owner of the document with its bytes.
LEMMA OwnKeeps ==
  ASSUME IndexInv, NEW j \in Jobs, indexing[j].phase = "own", NEW phase \in {"owned", "fail"},
         docs' = [docs EXCEPT ![indexing[j].match].owners = @ \cup {indexing[j].user}],
         Index!Step(j, phase), UNCHANGED <<contexts, status>>
  PROVE  IndexInv'
<1>1. PICK r, new :
        /\ r = indexing[j] /\ UploadFits(j, r) /\ r # Index!Unposted
        /\ indexing' = [indexing EXCEPT ![j] = new] /\ new # Index!Unposted
        /\ Entries \subseteq DOMAIN new /\ new.phase = phase
        /\ new.user = r.user /\ new.file = r.file /\ new.match = r.match
        /\ new.user \in Uploaders /\ new.file \in Textbooks
  BY IndexGoes
<1>2. r.match \in DOMAIN docs /\ docs[r.match].file = r.file
  BY <1>1 DEF UploadFits
<1>3. PICK d : d = docs[r.match] /\ {"file", "owners"} \subseteq DOMAIN d
  BY <1>2 DEF IndexInv
<1>4. PICK after : after = [d EXCEPT !.owners = @ \cup {r.user}]
  OBVIOUS
<1>5. {"file", "owners"} \subseteq DOMAIN after /\ after.file = d.file /\ after.owners = d.owners \cup {r.user}
  BY <1>3, <1>4
<1>6. docs' = [docs EXCEPT ![r.match] = after]
  BY <1>1, <1>3, <1>4
<1>7. DOMAIN docs' = DOMAIN docs /\ \A x \in DOMAIN docs : docs'[x] = IF x = r.match THEN after ELSE docs[x]
  BY <1>2, <1>6
<1>8. DocsGrow(j, new)
  BY <1>1, <1>2, <1>3, <1>5, <1>7 DEF DocsGrow, IndexInv
<1>9. \A x, u, f : Usable(x, u, f) => Usable(x, u, f)'
  BY <1>8 DEF DocsGrow, Usable
<1>10. Usable(r.match, r.user, r.file)'
  BY <1>2, <1>3, <1>5, <1>7 DEF Usable
<1>11. j \notin DOMAIN docs'
  BY <1>1, <1>7 DEF UploadFits, Saved
<1>12. UploadFits(j, new)'
  BY <1>1, <1>9, <1>10, <1>11 DEF UploadFits
<1>13. DOMAIN status' = Jobs /\ \A k \in Jobs \ {j} : status'[k] = status[k]
  BY DEF IndexInv
<1> QED
  BY <1>1, <1>8, <1>12, <1>13, OneIndexing

\* The document is recorded with its uploader as its owner.
LEMMA SaveKeeps ==
  ASSUME IndexInv, NEW j \in Jobs, indexing[j].phase = "save", NEW phase \in {"finish", "fail"},
         docs' = Index!Put(docs, j, Index!DocumentRecord(j)),
         Index!Step(j, phase), UNCHANGED <<contexts, status>>
  PROVE  IndexInv'
<1>1. PICK r, new :
        /\ r = indexing[j] /\ UploadFits(j, r) /\ r # Index!Unposted
        /\ indexing' = [indexing EXCEPT ![j] = new] /\ new # Index!Unposted
        /\ Entries \subseteq DOMAIN new /\ new.phase = phase
        /\ new.user = r.user /\ new.file = r.file /\ new.match = r.match
        /\ new.user \in Uploaders /\ new.file \in Textbooks
  BY IndexGoes
<1>2. j \notin DOMAIN docs
  BY <1>1 DEF UploadFits, Saved
<1>3. PICK d : d = Index!DocumentRecord(j) /\ {"file", "owners"} \subseteq DOMAIN d
               /\ d.file = r.file /\ d.owners = {r.user}
  BY <1>1 DEF Index!DocumentRecord
<1>4. /\ DOMAIN docs' = DOMAIN docs \cup {j} /\ docs'[j] = d
      /\ \A x \in DOMAIN docs : docs'[x] = docs[x]
  BY <1>2, <1>3 DEF Index!Put
<1>5. DocsGrow(j, new)
  BY <1>1, <1>3, <1>4 DEF DocsGrow, IndexInv
<1>6. \A x, u, f : Usable(x, u, f) => Usable(x, u, f)'
  BY <1>5 DEF DocsGrow, Usable
<1>7. Usable(j, r.user, r.file)'
  BY <1>3, <1>4 DEF Usable
<1>8. UploadFits(j, new)'
  BY <1>1, <1>3, <1>4, <1>6, <1>7 DEF UploadFits, Saved
<1>9. DOMAIN status' = Jobs /\ \A k \in Jobs \ {j} : status'[k] = status[k]
  BY DEF IndexInv
<1> QED
  BY <1>1, <1>5, <1>8, <1>9, OneIndexing

\* What the polling client is told: a document of the bytes, usable by the user.
LEMMA ReportKeeps ==
  ASSUME IndexInv, NEW j \in Jobs, indexing[j].phase # "none", NEW s \in {"done", "error"}, NEW d,
         Index!Report(j, s, d), Index!Step(j, "ended"), UNCHANGED <<docs, contexts>>,
         s = "done" => Usable(d, indexing[j].user, indexing[j].file)
  PROVE  IndexInv'
<1>1. PICK r, new :
        /\ r = indexing[j] /\ UploadFits(j, r) /\ r # Index!Unposted
        /\ indexing' = [indexing EXCEPT ![j] = new] /\ new # Index!Unposted
        /\ Entries \subseteq DOMAIN new /\ new.phase = "ended"
        /\ new.user = r.user /\ new.file = r.file /\ new.match = r.match
        /\ new.user \in Uploaders /\ new.file \in Textbooks
  BY IndexGoes
<1>2. PICK told : told = [status |-> s, doc |-> d]
  OBVIOUS
<1>3. status' = status \/ status' = [status EXCEPT ![j] = told]
  BY <1>2 DEF Index!Report
<1>4. /\ told.status = s /\ told.doc = d
      /\ DOMAIN status' = Jobs /\ \A k \in Jobs \ {j} : status'[k] = status[k]
      /\ status'[j] = status[j] \/ status'[j] = told
  BY <1>2, <1>3 DEF IndexInv
<1>5. \A x, u, f : Usable(x, u, f)' <=> Usable(x, u, f)
  BY DEF Usable
<1>6. UploadFits(j, new)'
  BY <1>1, <1>2, <1>4, <1>5 DEF UploadFits, Saved
<1>7. DocsGrow(j, new)
  BY DocsStay
<1> QED
  BY <1>1, <1>4, <1>6, <1>7, OneIndexing

\* Vectors are added to a job whose document is not recorded yet.
LEMMA EmbedKeeps == ASSUME IndexInv, NEW j \in Jobs, Index!EmbedOneBatch(j) PROVE IndexInv'
<1>1. indexing[j].phase = "embed" /\ UNCHANGED <<docs, contexts, status>>
  BY DEF Index!EmbedOneBatch, Index!At
<1>2. PICK r : r = indexing[j] /\ UploadFits(j, r) /\ r # Index!Unposted /\ Entries \subseteq DOMAIN r
               /\ r.user \in Uploaders /\ r.file \in Textbooks
  BY <1>1, Indexed
<1>3. PICK new :
        /\ indexing' = [indexing EXCEPT ![j] = new] /\ Entries \subseteq DOMAIN new
        /\ new.user = r.user /\ new.file = r.file /\ new.phase \in {"upsert", "embed"}
  <2> DEFINE from == Len(indexing[j].vectors)
             all == Len(Index!ChunkText(indexing[j].file.sentences))
             upto == Index!Smaller(all, from + EmbedBatch)
             more == [i \in 1 .. (upto - from) |-> from + i]
  <2>1. indexing' = [indexing EXCEPT ![j].vectors = indexing[j].vectors \o more,
                                     ![j].phase = IF upto = all THEN "upsert" ELSE "embed"]
    BY DEF Index!EmbedOneBatch
  <2> HIDE DEF more, upto, all, from
  <2>2. PICK vectors : vectors = indexing[j].vectors \o more
    OBVIOUS
  <2>3. PICK phase \in {"upsert", "embed"} : phase = IF upto = all THEN "upsert" ELSE "embed"
    OBVIOUS
  <2>4. indexing' = [indexing EXCEPT ![j].vectors = vectors, ![j].phase = phase]
    BY <2>1, <2>2, <2>3
  <2>5. PICK new : new = [r EXCEPT !.vectors = vectors, !.phase = phase]
    OBVIOUS
  <2>6. Entries \subseteq DOMAIN new /\ new.user = r.user /\ new.file = r.file /\ new.phase = phase
    BY <1>2, <2>5 DEF Entries
  <2>7. indexing' = [indexing EXCEPT ![j] = new]
    BY <1>2, <2>4, <2>5 DEF IndexInv
  <2> QED
    BY <2>3, <2>6, <2>7
<1>4. new # Index!Unposted
  BY <1>3 DEF Index!Unposted
<1>5. UploadFits(j, new)'
  <2>1. \A d, u, f : Usable(d, u, f)' <=> Usable(d, u, f)
    BY <1>1 DEF Usable
  <2> QED
    BY <1>1, <1>2, <1>3, <1>4, <2>1 DEF UploadFits, Saved
<1>6. DocsGrow(j, new)
  BY <1>1, DocsStay
<1>7. DOMAIN status' = Jobs /\ \A k \in Jobs \ {j} : status'[k] = status[k]
  BY <1>1 DEF IndexInv
<1> QED
  BY <1>1, <1>2, <1>3, <1>4, <1>5, <1>6, <1>7, OneIndexing

\* What failed: nothing of the record, or a write that was applied all the same.
LEMMA FailsKeeps == ASSUME IndexInv, NEW j \in Jobs, Index!Fails(j) PROVE IndexInv'
<1>1. PICK phase \in {"own", "extract", "summarize", "savetree", "embed", "upsert", "save"} :
        indexing[j].phase = phase
  BY DEF Index!Fails, Index!At
<1>2. Index!Step(j, "fail") /\ UNCHANGED <<contexts, status>>
  BY DEF Index!Fails
<1>3. CASE docs' = docs
  BY <1>1, <1>2, <1>3, IndexWorks DEF Saved
<1>4. CASE docs' # docs
  <2>1. \/ /\ indexing[j].phase = "own"
           /\ docs' = [docs EXCEPT ![indexing[j].match].owners = @ \cup {indexing[j].user}]
        \/ indexing[j].phase = "save" /\ docs' = Index!Put(docs, j, Index!DocumentRecord(j))
    BY <1>4 DEF Index!Fails, Index!At
  <2> QED
    BY <1>2, <2>1, OwnKeeps, SaveKeeps
<1> QED
  BY <1>3, <1>4

LEMMA StopKeeps == ASSUME IndexInv, NEW j \in Jobs, Index!Stop(j) PROVE IndexInv'
<1>1. indexing[j] # Index!Unposted /\ Index!Step(j, "stopped") /\ UNCHANGED <<docs, contexts, status>>
  BY DEF Index!Stop
<1>2. indexing[j].phase # "none"
  BY <1>1 DEF IndexInv, UploadFits
<1> QED
  BY <1>1, <1>2, IndexWorks DEF Saved

\* Generation is handed text of a document of its user.
LEMMA RetrieveKeeps ==
  ASSUME IndexInv, NEW u \in Uploaders, NEW d \in DOMAIN docs, Index!Retrieve(u, d) PROVE IndexInv'
<1>1. /\ contexts' = contexts \cup {[user |-> u, doc |-> d]} /\ u \in docs[d].owners
      /\ UNCHANGED <<indexing, status, docs>>
  BY DEF Index!Retrieve, Index!MayGround
<1>2. HasUploaded(u, docs[d].file)
  BY <1>1 DEF IndexInv
<1>3. \A c \in contexts' : c \in contexts \/ (c.user = u /\ c.doc = d)
  BY <1>1
<1>4. \A x, f : HasUploaded(x, f)' <=> HasUploaded(x, f)
  BY <1>1 DEF HasUploaded
<1>5. \A j \in Jobs : UploadFits(j, indexing[j])'
  <2>1. \A k, x, f : Usable(k, x, f)' <=> Usable(k, x, f)
    BY <1>1 DEF Usable
  <2> QED
    BY <1>1, <2>1 DEF IndexInv, UploadFits
<1>6. \A c \in contexts' : c.doc \in DOMAIN docs' /\ HasUploaded(c.user, docs[c.doc].file)'
  BY <1>1, <1>2, <1>3, <1>4 DEF IndexInv
<1> QED
  BY <1>1, <1>4, <1>5, <1>6 DEF IndexInv

LEMMA IndexStep ==
  ASSUME Index!ConstantsOK, IndexInv, [Index!Next]_Index!vars PROVE IndexInv'
<1>1. ASSUME NEW j \in Jobs, NEW u \in Uploaders, NEW f \in Textbooks, Index!Upload(j, u, f) PROVE IndexInv'
  BY <1>1, PostedKeeps
<1>2. ASSUME NEW j \in Jobs, Index!CheckForDuplicate(j) PROVE IndexInv'
  BY <1>2, CheckKeeps
<1>3. ASSUME NEW j \in Jobs, Index!AddOwner(j) PROVE IndexInv'
  BY <1>3, OwnKeeps DEF Index!AddOwner, Index!At
<1>4. ASSUME NEW j \in Jobs, Index!ReportDuplicate(j) PROVE IndexInv'
  <2>1. indexing[j].phase = "owned"
    BY <1>4 DEF Index!ReportDuplicate, Index!At
  <2>2. Usable(indexing[j].match, indexing[j].user, indexing[j].file)
    BY <2>1 DEF IndexInv, UploadFits
  <2> QED
    BY <1>4, <2>1, <2>2, ReportKeeps DEF Index!ReportDuplicate
<1>5. ASSUME NEW j \in Jobs, Index!Extract(j) PROVE IndexInv'
  <2>1. PICK phase \in {"fail", "classify"} : Index!Step(j, phase)
    BY <1>5 DEF Index!Extract
  <2> QED
    BY <1>5, <2>1, IndexWorks DEF Index!Extract, Index!At, Saved
<1>6. ASSUME NEW j \in Jobs, Index!Classify(j) PROVE IndexInv'
  <2>1. PICK phase \in {"summarize", "embed"} : Index!Step(j, phase)
    BY <1>6 DEF Index!Classify
  <2> QED
    BY <1>6, <2>1, IndexWorks DEF Index!Classify, Index!At, Saved
<1>7. ASSUME NEW j \in Jobs, Index!Summarize(j) PROVE IndexInv'
  BY <1>7, IndexWorks DEF Index!Summarize, Index!At, Saved
<1>8. ASSUME NEW j \in Jobs, Index!SaveTree(j) PROVE IndexInv'
  BY <1>8, IndexWorks DEF Index!SaveTree, Index!At, Saved
<1>9. ASSUME NEW j \in Jobs, Index!EmbedOneBatch(j) PROVE IndexInv'
  BY <1>9, EmbedKeeps
<1>10. ASSUME NEW j \in Jobs, Index!Upsert(j) PROVE IndexInv'
  BY <1>10, IndexWorks DEF Index!Upsert, Index!At, Saved
<1>11. ASSUME NEW j \in Jobs, Index!RecordEmbedding(j) PROVE IndexInv'
  BY <1>11, IndexWorks DEF Index!RecordEmbedding, Index!At, Saved
<1>12. ASSUME NEW j \in Jobs, Index!SaveDocument(j) PROVE IndexInv'
  BY <1>12, SaveKeeps DEF Index!SaveDocument, Index!At
<1>13. ASSUME NEW j \in Jobs, Index!Finish(j) PROVE IndexInv'
  <2>1. indexing[j].phase = "finish"
    BY <1>13 DEF Index!Finish, Index!At
  <2>2. Usable(j, indexing[j].user, indexing[j].file)
    BY <2>1 DEF IndexInv, UploadFits
  <2> QED
    BY <1>13, <2>1, <2>2, ReportKeeps DEF Index!Finish
<1>14. ASSUME NEW j \in Jobs, Index!Fails(j) PROVE IndexInv'
  BY <1>14, FailsKeeps
<1>15. ASSUME NEW j \in Jobs, Index!Fail(j) PROVE IndexInv'
  <2>1. indexing[j].phase = "fail"
    BY <1>15 DEF Index!Fail, Index!At
  <2> QED
    BY <1>15, <2>1, ReportKeeps DEF Index!Fail
<1>16. ASSUME NEW j \in Jobs, Index!Stop(j) PROVE IndexInv'
  BY <1>16, StopKeeps
<1>17. ASSUME NEW u \in Uploaders, NEW d \in DOMAIN docs, Index!Retrieve(u, d) PROVE IndexInv'
  BY <1>17, RetrieveKeeps
<1>18. CASE UNCHANGED Index!vars
  BY <1>18 DEF Index!vars, IndexInv, UploadFits, Usable, HasUploaded
<1> QED
  BY <1>1, <1>2, <1>3, <1>4, <1>5, <1>6, <1>7, <1>8, <1>9, <1>10, <1>11, <1>12, <1>13, <1>14,
     <1>15, <1>16, <1>17, <1>18 DEF Index!Next

LEMMA IndexUsable == ASSUME IndexInv PROVE Index!DoneIsUsable /\ Index!OwnersHoldTheFile
<1>1. Index!DoneIsUsable
  BY DEF Index!DoneIsUsable, IndexInv, UploadFits, Usable
<1>2. Index!OwnersHoldTheFile
  BY DEF Index!OwnersHoldTheFile, IndexInv, HasUploaded
<1> QED
  BY <1>1, <1>2

-----------------------------------------------------------------------------
\* Students: a behaviour is of one component

StudentsInv ==
  /\ scenario = "account" => AccountInv
  /\ scenario = "limits" => RateInv
  /\ scenario = "tests" => TestsInv
  /\ scenario = "progress" => Progress!ProgressInv
  /\ scenario = "lessons" => LessonsInv
  /\ scenario = "tutor" => TutorInv
  /\ scenario = "index" => IndexInv

\* A step is one of the component that moves.
LEMMA OneMoves ==
  ASSUME [Next]_vars
  PROVE  /\ UNCHANGED scenario
         /\ scenario = "account" => [Account!Next]_Account!vars
         /\ scenario = "limits" => [Limits!Next]_Limits!vars
         /\ scenario = "tests" => [Mock!Next]_Mock!vars
         /\ scenario = "progress" => [Progress!Next]_Progress!vars
         /\ scenario = "lessons" => [Lessons!Next]_Lessons!vars
         /\ scenario = "tutor" => [Tutor!Next]_Tutor!vars
         /\ scenario = "index" => [Index!Next]_Index!vars
<1>1. CASE UNCHANGED vars
  BY <1>1 DEF vars, ofAccount, ofLimits, ofMock, ofProgress, ofLessons, ofTutor, ofIndex,
              Account!vars, Limits!vars, Mock!vars, Progress!vars, Lessons!vars, Tutor!vars, Index!vars
<1>2. CASE Next
  BY <1>2 DEF Next
<1> QED
  BY <1>1, <1>2

\* The inductive invariants of the components hold side by side.
THEOREM StudentsInvariant == Spec => []StudentsInv
<1>1. Init => StudentsInv
  <2>1. Init /\ scenario = "account" => AccountInv
    BY AccountInit, AccountConstants DEF Init
  <2>2. Init /\ scenario = "limits" => RateInv
    BY RateInit, LimitsConstants DEF Init
  <2>3. Init /\ scenario = "tests" => TestsInv
    BY TestsInit, MockConstants DEF Init
  <2>4. Init /\ scenario = "progress" => Progress!ProgressInv
    BY Progress!ProgressInit, ProgressConstants DEF Init
  <2>5. Init /\ scenario = "lessons" => LessonsInv
    BY LessonsInit, LessonsConstants DEF Init
  <2>6. Init /\ scenario = "tutor" => TutorInv
    BY TutorInit DEF Init
  <2>7. Init /\ scenario = "index" => IndexInv
    BY IndexInit DEF Init
  <2> QED
    BY <2>1, <2>2, <2>3, <2>4, <2>5, <2>6, <2>7 DEF StudentsInv
<1>2. StudentsInv /\ [Next]_vars => StudentsInv'
  <2> SUFFICES ASSUME StudentsInv, [Next]_vars PROVE StudentsInv'
    OBVIOUS
  <2>1. scenario = "account" => AccountInv'
    BY OneMoves, AccountStep, AccountConstants DEF StudentsInv
  <2>2. scenario = "limits" => RateInv'
    BY OneMoves, RateStep, LimitsConstants DEF StudentsInv
  <2>3. scenario = "tests" => TestsInv'
    BY OneMoves, TestsStep, MockConstants DEF StudentsInv
  <2>4. scenario = "progress" => Progress!ProgressInv'
    BY OneMoves, Progress!ProgressStep, ProgressConstants DEF StudentsInv
  <2>5. scenario = "lessons" => LessonsInv'
    BY OneMoves, LessonsStep, LessonsConstants DEF StudentsInv
  <2>6. scenario = "tutor" => TutorInv'
    BY OneMoves, TutorStep DEF StudentsInv
  <2>7. scenario = "index" => IndexInv'
    BY OneMoves, IndexStep, IndexConstants DEF StudentsInv
  <2>8. scenario' = scenario
    BY OneMoves
  <2> QED
    BY <2>1, <2>2, <2>3, <2>4, <2>5, <2>6, <2>7, <2>8 DEF StudentsInv
<1> QED
  BY <1>1, <1>2, PTL DEF Spec

\* Whatever writes Redis lost and whoever stored late: a request is decided on a
\* state the account had within the promised delay (api/deps.py) and a session
\* that ended admits nobody again, but where the request's own read of the account
\* or of the cutoff failed, for these fail open; and no window admits more than its
\* limit (core/rate_limit.py).
THEOREM EveryAdmission == Spec => []AdmittedAsTold
<1>1. StudentsInv => AdmittedAsTold
  <2>1. AccountInv => Account!DecidedOnRecentState /\ Account!EndedStaysEnded
    BY DEF AccountInv, Reads, HadSince, Account!DecidedOnRecentState, Account!EndedStaysEnded
  <2>2. RateInv => Limits!LimitPerWindow
    BY DEF RateInv
  <2> QED
    BY <2>1, <2>2 DEF StudentsInv, AdmittedAsTold
<1> QED
  BY <1>1, StudentsInvariant, PTL

\* A test counts its saved attempts but for those still to be counted or whose
\* request died, and a review shows the questions that marked the attempt,
\* however submissions, deletions and the generation job interleave and whoever
\* dies (mock_tests.py, submit and review).
THEOREM AttemptsAreCounted == Spec => []SubmissionsAreCounted
<1>1. StudentsInv => SubmissionsAreCounted
  BY TestsKeep, MockConstants
     DEF StudentsInv, TestsInv, SubmissionsAreCounted, Mock!SubmissionsAreCounted
<1> QED
  BY <1>1, StudentsInvariant, PTL

\* The weeks of a roadmap open in order, its percentage is that of its completed
\* subtopics, its streak is the run of its activity dates as far as the kept dates
\* go back, and progress, a passed quiz, the finished roadmap or an insight is lost
\* only to a write over it, however toggles, quizzes and insights interleave; notes
\* and questions that are served from the document have content
\* (api/routers/roadmap.py).
THEOREM RoadmapsAreKept == Spec => []RoadmapsAgree
<1>1. StudentsInv => RoadmapsAgree
  <2>1. LessonsInv => Lessons!KeptLessonsHaveContent
    BY DEF LessonsInv
  <2> QED
    BY <2>1, ProgressConstants, Progress!ProgressAgrees DEF StudentsInv, RoadmapsAgree
<1> QED
  BY <1>1, StudentsInvariant, PTL

\* What is reported done is there: a note in the history has its file, a completed
\* tutor job has its notes or its answer and tells whether its document was cut,
\* its writing is charged to the provider that wrote it unless the ledger gave up
\* on it, what is charged for reading is what the calls told of their cost, and a
\* finished upload of course material names a document with its bytes that its
\* user owns - which nobody does who has not uploaded the bytes - whatever call,
\* store or worker fails, stops or is removed on the way (ai_tutor.py,
\* course_material.py).
THEOREM DoneIsKept == Spec => []DoneIsBacked
<1>1. StudentsInv => DoneIsBacked
  BY TutorBacked, IndexUsable DEF StudentsInv, DoneIsBacked
<1> QED
  BY <1>1, StudentsInvariant, PTL
=============================================================================
