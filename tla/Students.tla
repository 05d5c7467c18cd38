------------------------------ MODULE Students -------------------------------
(* What a student meets: the decision on a request (account state, sessions, *)
(* rate limits), mock tests, roadmaps and their material, the AI tutor's     *)
(* notes and the index of course material, side by side.  These components   *)
(* share no state in the model, so a behaviour is one of them, the scenario. *)
(* The constants have their values in Students.cfg; those that are records   *)
(* are defined at the end.                                                   *)
EXTENDS Integers, Sequences, TLC

CONSTANTS Callers, Tokens, TTL, Life, MaxDelay, Horizon, MaxEvents,   \* AccountState
          Visitors, Limit, Window, End,                               \* RateLimit
          Tests, Takers, MaxSubmits,                                  \* MockTests
          Planners, NWeeks, NSubtopics, HistoryLimit, MaxDates, MaxDay, MaxQuizzes,
          MaxToggles,                                                 \* Roadmaps
          Learners, MaxAsks,                                          \* RoadmapMaterials
          Orders, Handouts, Prompts, BatchPages, MaxAttempts,         \* TutorNotes
          Jobs, Uploaders, Textbooks, PageWords, ChunkTokens, OverlapWords,
          EmbedBatch, MaxContexts,                                    \* CourseIndex
          None, Inactive

VARIABLES scenario,
          now, user, cache, revoked, token, request, writer, past,
          ended, events,                                             \* AccountState
          clock, key, admission, admitted,                           \* RateLimit
          test, attempt, generation, taking, submitted, uncounted,
          cutOff,                                                    \* MockTests
          roadmap, quiz, task, day, submits, toggles, granted, raced, \* Roadmaps
          exists, slot, asking, asks, served,                        \* RoadmapMaterials
          job, record, ledger, notes, files, removing,               \* TutorNotes
          indexing, status, docs, trees, chunks, costs, contexts,    \* CourseIndex
          attempts, deleted, taken, feedback, paid, kept, emptied    \* LearnerFeedback

-----------------------------------------------------------------------------
Account == INSTANCE AccountState WITH Requests <- Callers

Limits == INSTANCE RateLimit WITH
  Requests <- Visitors, Horizon <- End, now <- clock, request <- admission

Mock == INSTANCE MockTests WITH
  Requests <- Takers, attempts <- attempt, job <- generation, task <- taking,
  submits <- submitted

Progress == INSTANCE Roadmaps_proofs WITH Requests <- Planners, MaxSubmits <- MaxQuizzes

Lessons == INSTANCE RoadmapMaterials WITH Requests <- Learners, task <- asking

Tutor == INSTANCE TutorNotes WITH Jobs <- Orders, Documents <- Handouts

Index == INSTANCE CourseIndex WITH
  Users <- Uploaders, Files <- Textbooks, job <- indexing, record <- status, ledger <- costs

\* A test whose wrong answers cost marks, of two questions where one was asked
\* for or of one, a test over the weeks of a roadmap, and a week quiz.
Test(types) == [t \in {"own", "weeks", "quiz"} |->
  CASE t = "own" -> [kind |-> "practice_test", subject |-> "maths", topic |-> "sets",
                     difficulty |-> "hard", types |-> types, marks |-> 100,
                     total |-> 100, penalty |-> 50]
    [] t = "weeks" -> [kind |-> "roadmap_test", subject |-> "physics", topic |-> "",
                       difficulty |-> "mixed", types |-> <<"open">>, marks |-> 100,
                       total |-> 0, penalty |-> 0]
    [] t = "quiz" -> [kind |-> "weekly_quiz", subject |-> "maths", topic |-> "",
                      difficulty |-> "mixed", types |-> <<"open">>, marks |-> 100,
                      total |-> 0, penalty |-> 0]]

\* Two requests for feedback on two attempts.
Feedback == INSTANCE LearnerFeedback WITH
  Tests <- {"own", "quiz"}, Paper <- [t \in {"own", "quiz"} |-> Test(<<"mcq", "open">>)[t]],
  Scores <- {0, 100}, HistoryLimit <- 1, Requests <- Planners, MaxSubmits <- 2,
  MaxPaid <- 3, submits <- taken, task <- feedback

\* Four attempts and what is told about them.
Overview == INSTANCE LearnerFeedback WITH
  Tests <- {"own", "weeks", "quiz"}, Paper <- Test(<<"mcq">>),
  Scores <- {0, 45, 100}, HistoryLimit <- 3, Requests <- {}, MaxSubmits <- 4,
  MaxPaid <- 0, submits <- taken, task <- feedback

ASSUME AccountConstants == Account!ConstantsOK
ASSUME LimitsConstants == Limits!ConstantsOK
ASSUME MockConstants == Mock!ConstantsOK
ASSUME ProgressConstants == Progress!ConstantsOK
ASSUME LessonsConstants == Lessons!ConstantsOK
ASSUME TutorConstants == Tutor!ConstantsOK
ASSUME IndexConstants == Index!ConstantsOK
ASSUME Feedback!ConstantsOK /\ Overview!ConstantsOK

-----------------------------------------------------------------------------
\* One component moves, the others are off.

ofAccount == <<now, user, cache, revoked, token, request, writer, past, ended, events>>
ofLimits == <<clock, key, admission, admitted>>
ofMock == <<test, attempt, generation, taking, submitted, uncounted, cutOff>>
ofProgress == <<roadmap, quiz, task, day, submits, toggles, granted, raced>>
ofLessons == <<exists, slot, asking, asks, served>>
ofTutor == <<job, record, ledger, notes, files, removing>>
ofIndex == <<indexing, status, docs, trees, chunks, costs, contexts>>
ofFeedback == <<attempts, deleted, taken, feedback, paid, kept, emptied>>
vars == <<scenario, ofAccount, ofLimits, ofMock, ofProgress, ofLessons, ofTutor, ofIndex, ofFeedback>>

NoAccount == /\ now = Inactive /\ user = Inactive /\ cache = Inactive /\ revoked = Inactive /\ token = Inactive
             /\ request = Inactive /\ writer = Inactive /\ past = Inactive /\ ended = Inactive /\ events = Inactive
NoLimits == clock = Inactive /\ key = Inactive /\ admission = Inactive /\ admitted = Inactive
NoMock == /\ test = Inactive /\ attempt = Inactive /\ generation = Inactive /\ taking = Inactive
          /\ submitted = Inactive /\ uncounted = Inactive /\ cutOff = Inactive
NoProgress == /\ roadmap = Inactive /\ quiz = Inactive /\ task = Inactive /\ day = Inactive
              /\ submits = Inactive /\ toggles = Inactive /\ granted = Inactive /\ raced = Inactive
NoLessons == exists = Inactive /\ slot = Inactive /\ asking = Inactive /\ asks = Inactive /\ served = Inactive
NoTutor == /\ job = Inactive /\ record = Inactive /\ ledger = Inactive
           /\ notes = Inactive /\ files = Inactive /\ removing = Inactive
NoIndex == /\ indexing = Inactive /\ status = Inactive /\ docs = Inactive /\ trees = Inactive
           /\ chunks = Inactive /\ costs = Inactive /\ contexts = Inactive
NoFeedback == /\ attempts = Inactive /\ deleted = Inactive /\ taken = Inactive /\ feedback = Inactive
              /\ paid = Inactive /\ kept = Inactive /\ emptied = Inactive

Init ==
  /\ scenario \in {"account", "limits", "tests", "progress", "lessons", "tutor", "index",
                  "feedback", "overview"}
  /\ IF scenario = "account" THEN Account!Init ELSE NoAccount
  /\ IF scenario = "limits" THEN Limits!Init ELSE NoLimits
  /\ IF scenario = "tests" THEN Mock!Init ELSE NoMock
  /\ IF scenario = "progress" THEN Progress!Init ELSE NoProgress
  /\ IF scenario = "lessons" THEN Lessons!Init ELSE NoLessons
  /\ IF scenario = "tutor" THEN Tutor!Init ELSE NoTutor
  /\ IF scenario = "index" THEN Index!Init ELSE NoIndex
  /\ CASE scenario = "feedback" -> Feedback!Init
       [] scenario = "overview" -> Overview!Init
       [] OTHER -> NoFeedback

Next ==
  /\ UNCHANGED scenario
  /\ IF scenario = "account" THEN Account!Next ELSE UNCHANGED ofAccount
  /\ IF scenario = "limits" THEN Limits!Next ELSE UNCHANGED ofLimits
  /\ IF scenario = "tests" THEN Mock!Next ELSE UNCHANGED ofMock
  /\ IF scenario = "progress" THEN Progress!Next ELSE UNCHANGED ofProgress
  /\ IF scenario = "lessons" THEN Lessons!Next ELSE UNCHANGED ofLessons
  /\ IF scenario = "tutor" THEN Tutor!Next ELSE UNCHANGED ofTutor
  /\ IF scenario = "index" THEN Index!Next ELSE UNCHANGED ofIndex
  /\ CASE scenario = "feedback" -> Feedback!Next
       [] scenario = "overview" -> Overview!Next
       [] OTHER -> UNCHANGED ofFeedback

Spec == Init /\ [][Next]_vars

Symmetry == Permutations(Takers) \cup Permutations(Tests)

-----------------------------------------------------------------------------
\* Types of every component.
TypeOK ==
  /\ scenario = "account" => Account!TypeOK
  /\ scenario = "limits" => Limits!TypeOK
  /\ scenario = "tests" => Mock!TypeOK
  /\ scenario = "progress" => Progress!TypeOK
  /\ scenario = "lessons" => Lessons!TypeOK
  /\ scenario = "tutor" => Tutor!TypeOK
  /\ scenario = "index" => Index!TypeOK
  /\ scenario = "feedback" => Feedback!TypeOK
  /\ scenario = "overview" => Overview!TypeOK

\* Whatever writes Redis lost and whoever stored late: a request is decided on a
\* state the account had within the promised delay and a session that ended
\* admits nobody again, but where the request's own read of the account or of the
\* cutoff failed; and no window admits more than its limit.
AdmittedAsTold ==
  /\ scenario = "account" => Account!DecidedOnRecentState /\ Account!EndedStaysEnded
  /\ scenario = "limits" => Limits!LimitPerWindow

\* However submissions of mock tests overlap, stop or are marked late: a test
\* counts its saved attempts, but for those still to be counted or whose request
\* died, and a review shows the questions that marked the attempt.
SubmissionsAreCounted == scenario = "tests" => Mock!SubmissionsAreCounted

\* However the requests of one student overlap: weeks of a roadmap open in
\* order, its stored percentage is that of its stored lists, its streak is the run
\* of its stored dates as far as these go back, what an answer promised is lost only to a write over an unread change, and kept
\* lessons have content.
RoadmapsAgree ==
  /\ scenario = "progress" => /\ Progress!WeeksOpenInOrder /\ Progress!StoredFieldsAgree
                              /\ Progress!LostOnlyIfRaced
  /\ scenario = "lessons" => Lessons!KeptLessonsHaveContent

\* Whatever call, store or worker fails, and however two uploads overlap: a note
\* in the history has its file, says so if an extraction was cut, and is charged
\* to the provider it names unless the ledger gave up on it, and course material
\* that is reported done can be used by whoever uploaded those bytes and by
\* nobody else.
DoneIsBacked ==
  /\ scenario = "tutor" => /\ Tutor!NotesHaveFiles /\ Tutor!ResultsAreBacked
                           /\ Tutor!CutIsTold /\ Tutor!ReadingIsCharged
  /\ scenario = "index" => Index!DoneIsUsable /\ Index!OwnersHoldTheFile

\* What is made of texts and answers: an extracted text has its pages in order,
\* recorded material is completely indexed and its tree is the outline of its
\* text, better answers get better marks, what the overview tells about the
\* attempts adds up, and kept feedback is not bought again.
ContentsAreTrue ==
  /\ scenario = "tutor" => Tutor!DocumentOrder
  /\ scenario = "index" => Index!RecordedIsIndexed /\ Index!TreeIsOutline
  /\ scenario = "feedback" => Feedback!BetterAnswersBetterScore /\ Feedback!FeedbackBoughtOnce
  /\ scenario = "overview" => /\ Overview!BetterAnswersBetterScore /\ Overview!TablesAddUp
                              /\ Overview!ImprovementIsTrue

-----------------------------------------------------------------------------
(* Values of the constants that are records *)

Doc(type, opens, pages) == [type |-> type, opens |-> opens, pages |-> pages]

\* A mixed PDF whose first run of scanned pages is longer than a batch, a PDF
\* that cannot be opened, a photo, a Word file and one that cannot be opened.
DocumentKinds ==
  {Doc("pdf", TRUE, <<"scan", "scan", "scan", "text", "scan">>),
   Doc("pdf", TRUE, <<"text", "text">>),
   Doc("pdf", FALSE, <<"scan", "scan">>),
   Doc("image", TRUE, <<"scan">>),
   Doc("docx", TRUE, <<"text", "text">>),
   Doc("docx", FALSE, <<"text">>)}

File(hash, title, lines, sentences) ==
  [hash |-> hash, title |-> title, lines |-> lines, sentences |-> sentences]

\* An outline whose levels go down, up by two and down again, with text before
\* the first heading; a prose text of several chunks; another file of the same
\* title; a scan without a text.
TextbookKinds ==
  {File(1, 1, <<0, 1, 2, 0, 3, 0, 1, 0, 3, 2, 0>>, <<3, 3>>),
   File(2, 2, <<0, 0, 0>>, <<3, 9, 2, 2, 4, 1>>),
   File(3, 2, <<1, 0, 0>>, <<2>>),
   File(4, 3, << >>, << >>)}
=============================================================================
