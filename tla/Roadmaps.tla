------------------------------ MODULE Roadmaps ------------------------------
(***************************************************************************)
(* One learner's roadmap (app/api/routers/roadmap.py): weeks that open one *)
(* after the other, subtopics that are ticked off, week quizzes, the daily *)
(* streak and the completion of the whole roadmap.                         *)
(*                                                                         *)
(* Ticking a subtopic and submitting a quiz read the document, change a    *)
(* copy of its `progress` and write that copy back WHOLE; the final test   *)
(* (mock_tests.py) and the insight of an attempt                           *)
(* (self_learner_analytics.py) set one field inside `progress`.  Nothing   *)
(* orders these requests: two browser tabs, a retry or the long provider   *)
(* call that marks open answers make them overlap.                         *)
(***************************************************************************)
EXTENDS Integers, FiniteSets, Sequences, SequencesExt

CONSTANTS
  Requests,      \* requests in flight; a slot is reused when it has answered
  NWeeks,        \* weeks of the curriculum
  NSubtopics,    \* subtopics of each week
  HistoryLimit,  \* quizHistory keeps the last 25 entries; fewer in a run
  MaxDates,      \* MAX_ACTIVITY_DATES: activityDates keeps the last 30; fewer in a run
  MaxDay,        \* bound on the days that pass
  MaxSubmits,    \* bound on the submitted quizzes
  MaxToggles     \* bound on the ticked and unticked subtopics

\* What the constants of an instance satisfy.
ConstantsOK ==
  /\ {NWeeks, NSubtopics, HistoryLimit, MaxDates, MaxDay} \subseteq Nat \ {0}
  /\ {MaxSubmits, MaxToggles} \subseteq Nat

Weeks == 1 .. NWeeks
Keys == Weeks \X (1 .. NSubtopics)     \* subtopic keys "<week>-<idx>-<title>"
Days == 1 .. MaxDay

VARIABLES
  roadmap,   \* the document: progress and unlockedWeeks, or Gone
  quiz,      \* the weeks that hold an autoTest with questions
  task,      \* what each request is doing, with what it has read
  day,       \* the date
  submits,   \* number of quizzes submitted; names the history entries
  toggles,   \* number of subtopics ticked or unticked
  granted,   \* what the answers of the requests promised (history variable)
  raced      \* a whole `progress` was written over one it had not read

vars == <<roadmap, quiz, task, day, submits, toggles, granted, raced>>

Gone == [deleted |-> TRUE]
Exists == roadmap # Gone
Idle == [op |-> "none"]

-----------------------------------------------------------------------------
(* create_roadmap_document, and the week an assessment of 80% unlocks.     *)
NewRoadmap(unlocked) ==
  [completed |-> {}, passed |-> {}, unlocked |-> unlocked, percent |-> 0,
   history |-> <<>>, streak |-> 0, last |-> 0, dates |-> {},
   finished |-> FALSE]

Init ==
  /\ \E w \in {1} \cup (IF NWeeks > 1 THEN {2} ELSE {}) :
       roadmap = NewRoadmap(1 .. w)
  /\ quiz = {}
  /\ task = [r \in Requests |-> Idle]
  /\ day = 1
  /\ submits = 0
  /\ toggles = 0
  /\ granted = [completed |-> {}, passed |-> {}, finished |-> FALSE,
                insights |-> {}]
  /\ raced = FALSE

(* round(n / d * 100), halves to the even neighbour as Python rounds.      *)
Percent(n, d) ==
  LET q == (100 * n) \div d
      rest == (100 * n) % d
  IN  q + IF 2 * rest > d \/ (2 * rest = d /\ q % 2 = 1) THEN 1 ELSE 0

Recalculated(p) ==
  LET all == Cardinality(Keys) + NWeeks
      done == Cardinality(p.completed) + Cardinality(p.passed)
  IN  IF Percent(done, all) > 100 THEN 100 ELSE Percent(done, all)

WithPercent(p) == [p EXCEPT !.percent = Recalculated(p)]

(* activityDates[-MAX_ACTIVITY_DATES:]; the dates are in the list in order. *)
Latest(dates) ==
  {d \in dates : Cardinality({x \in dates : x > d}) < MaxDates}

(* Same day: nothing; the next day: one more; any other gap: back to 1.    *)
(* The streak counts on when the dates are cut.                            *)
DailyActivity(p) ==
  IF p.last = day THEN p
  ELSE [p EXCEPT !.streak = IF p.last > 0 /\ day - p.last = 1 THEN @ + 1 ELSE 1,
                 !.last = day,
                 !.dates = Latest(@ \cup {day})]

WeekIsUnlocked(doc, w) == w \in doc.unlocked

Reply(r) == task' = [task EXCEPT ![r] = Idle]

(* find_one_and_update sets the whole progress; on a deleted roadmap it    *)
(* matches nothing.                                                        *)
WriteProgress(seen, p) ==
  IF Exists
  THEN /\ roadmap' = [p EXCEPT !.unlocked = roadmap.unlocked]
       /\ raced' = (raced \/ seen # roadmap)
  ELSE UNCHANGED <<roadmap, raced>>

-----------------------------------------------------------------------------
(* PATCH /subtopic.                                                        *)
ReadSubtopic(r) ==
  /\ task[r] = Idle /\ Exists /\ toggles < MaxToggles
  /\ \E k \in Keys, on \in BOOLEAN :
       /\ WeekIsUnlocked(roadmap, k[1])
       /\ task' = [task EXCEPT ![r] =
                    [op |-> "toggle", key |-> k, on |-> on, seen |-> roadmap]]
  /\ toggles' = toggles + 1
  /\ UNCHANGED <<roadmap, quiz, day, submits, granted, raced>>

Toggled(t) ==
  IF t.on THEN DailyActivity([t.seen EXCEPT !.completed = @ \cup {t.key}])
          ELSE [t.seen EXCEPT !.completed = @ \ {t.key}]

UpdateSubtopic(r) ==
  LET t == task[r] IN
  /\ t.op = "toggle"
  /\ WriteProgress(t.seen, WithPercent(Toggled(t)))
  /\ granted' = IF ~Exists THEN granted
                ELSE [granted EXCEPT !.completed =
                        IF t.on THEN @ \cup {t.key} ELSE @ \ {t.key}]
  /\ Reply(r)
  /\ UNCHANGED <<quiz, day, submits, toggles>>

-----------------------------------------------------------------------------
(* POST /quiz/generate: the provider is called between the read and the    *)
(* write, which sets weeks.$[wk].autoTest alone.                           *)
ReadForTest(r) ==
  /\ task[r] = Idle /\ Exists
  /\ \E w \in Weeks \ quiz :
       /\ WeekIsUnlocked(roadmap, w)
       /\ task' = [task EXCEPT ![r] = [op |-> "generate", week |-> w]]
  /\ UNCHANGED <<roadmap, quiz, day, submits, toggles, granted, raced>>

GenerateAutoTest(r) ==
  /\ task[r].op = "generate"
  /\ quiz' = IF Exists THEN quiz \cup {task[r].week} ELSE quiz
  /\ Reply(r)
  /\ UNCHANGED <<roadmap, day, submits, toggles, granted, raced>>

-----------------------------------------------------------------------------
(* POST /quiz/submit.                                                      *)
ReadQuiz(r) ==
  /\ task[r] = Idle /\ Exists /\ submits < MaxSubmits
  /\ \E w \in quiz :
       /\ WeekIsUnlocked(roadmap, w)
       /\ task' = [task EXCEPT ![r] =
                    [op |-> "submit", week |-> w, id |-> submits + 1,
                     seen |-> roadmap]]
  /\ submits' = submits + 1
  /\ UNCHANGED <<roadmap, quiz, day, toggles, granted, raced>>

(* Mutant: the history is never cut.                                       *)
Recent_All(h) == h

(* The last HistoryLimit entries stay.                                     *)
Recent(h) ==
  SubSeq(h, IF Len(h) > HistoryLimit THEN Len(h) - HistoryLimit + 1 ELSE 1,
         Len(h))

(* Mutant: a failed attempt takes a pass back.                             *)
Submitted_Latest(t, pass) ==
  LET scored == IF pass THEN [t.seen EXCEPT !.passed = @ \cup {t.week}]
                        ELSE [t.seen EXCEPT !.passed = @ \ {t.week}]
  IN  [DailyActivity(scored) EXCEPT
         !.history = Recent(Append(@, [id |-> t.id, insight |-> FALSE]))]

Submitted(t, pass) ==
  LET scored == IF pass THEN [t.seen EXCEPT !.passed = @ \cup {t.week}]
                        ELSE t.seen
  IN  [DailyActivity(scored) EXCEPT
         !.history = Recent(Append(@, [id |-> t.id, insight |-> FALSE]))]

UnlockedAfter(t, pass) ==
  t.seen.unlocked \cup
    IF pass /\ t.week + 1 <= NWeeks THEN {t.week + 1} ELSE {}

(* unlockedWeeks is the list that was read, with the week it opened.       *)
SaveQuiz(t, p, unlocked) ==
  IF Exists
  THEN /\ roadmap' = [p EXCEPT !.unlocked = unlocked]
       /\ raced' = (raced \/ t.seen # roadmap)
  ELSE UNCHANGED <<roadmap, raced>>

SubmitQuiz(r) ==
  LET t == task[r] IN
  /\ t.op = "submit"
  /\ \E pass \in BOOLEAN :
       /\ SaveQuiz(t, WithPercent(Submitted(t, pass)), UnlockedAfter(t, pass))
       /\ granted' = IF pass /\ Exists
                     THEN [granted EXCEPT !.passed = @ \cup {t.week}]
                     ELSE granted
  /\ Reply(r)
  /\ UNCHANGED <<quiz, day, submits, toggles>>

-----------------------------------------------------------------------------
(* A passed test over every week of the roadmap (_submit_roadmap_test).    *)
(* The test was made when all its weeks were open.                         *)
PassFinalTest(r) ==
  /\ task[r] = Idle /\ Exists
  /\ Weeks \subseteq roadmap.unlocked /\ ~granted.finished
  /\ task' = [task EXCEPT ![r] = [op |-> "final"]]
  /\ UNCHANGED <<roadmap, quiz, day, submits, toggles, granted, raced>>

MarkCompleted(r) ==
  /\ task[r].op = "final"
  /\ IF Exists
     THEN /\ roadmap' = [roadmap EXCEPT !.finished = TRUE]
          /\ granted' = [granted EXCEPT !.finished = TRUE]
     ELSE UNCHANGED <<roadmap, granted>>
  /\ Reply(r)
  /\ UNCHANGED <<quiz, day, submits, toggles, raced>>

-----------------------------------------------------------------------------
(* POST .../insight of a weekly quiz: paid for unless the entry has one.   *)
ReadEntry(r) ==
  /\ task[r] = Idle /\ Exists
  /\ \E e \in ToSet(roadmap.history) :
       /\ ~e.insight
       /\ task' = [task EXCEPT ![r] = [op |-> "insight", id |-> e.id]]
  /\ UNCHANGED <<roadmap, quiz, day, submits, toggles, granted, raced>>

WithInsight(h, id) ==
  [i \in DOMAIN h |-> IF h[i].id = id THEN [h[i] EXCEPT !.insight = TRUE]
                                      ELSE h[i]]

SaveInsight(r) ==
  LET id == task[r].id IN
  /\ task[r].op = "insight"
  /\ roadmap' = IF Exists
                THEN [roadmap EXCEPT !.history = WithInsight(@, id)]
                ELSE roadmap
  /\ granted' = IF Exists /\ \E e \in ToSet(roadmap.history) : e.id = id
                THEN [granted EXCEPT !.insights = @ \cup {id}]
                ELSE granted
  /\ Reply(r)
  /\ UNCHANGED <<quiz, day, submits, toggles, raced>>

-----------------------------------------------------------------------------
(* A provider error, an answer that is cut off or of the wrong shape, or   *)
(* the end of the process: the request ends and nothing is written.        *)
Fail(r) ==
  /\ task[r].op \in {"generate", "submit", "insight", "final"}
  /\ Reply(r)
  /\ UNCHANGED <<roadmap, quiz, day, submits, toggles, granted, raced>>

DeleteRoadmap(r) ==
  /\ task[r] = Idle /\ Exists
  /\ roadmap' = Gone
  /\ quiz' = {}
  /\ UNCHANGED <<task, day, submits, toggles, granted, raced>>

NextDay ==
  /\ day < MaxDay
  /\ day' = day + 1
  /\ UNCHANGED <<roadmap, quiz, task, submits, toggles, granted, raced>>

RequestStep(r) ==
  \/ ReadSubtopic(r) \/ UpdateSubtopic(r)
  \/ ReadForTest(r) \/ GenerateAutoTest(r)
  \/ ReadQuiz(r) \/ SubmitQuiz(r)
  \/ PassFinalTest(r) \/ MarkCompleted(r)
  \/ ReadEntry(r) \/ SaveInsight(r)
  \/ Fail(r) \/ DeleteRoadmap(r)

Next == NextDay \/ \E r \in Requests : RequestStep(r)

Spec == Init /\ [][Next]_vars

-----------------------------------------------------------------------------
Entries == [id : 1 .. MaxSubmits, insight : BOOLEAN]
RoadmapDocs ==
  [completed : SUBSET Keys, passed : SUBSET Weeks, unlocked : SUBSET Weeks,
   percent : 0 .. 100, history : Seq(Entries), streak : 0 .. MaxDay,
   last : 0 .. MaxDay, dates : SUBSET Days, finished : BOOLEAN]
Tasks ==
  {Idle} \cup [op : {"toggle"}, key : Keys, on : BOOLEAN, seen : RoadmapDocs]
    \cup [op : {"generate"}, week : Weeks]
    \cup [op : {"submit"}, week : Weeks, id : 1 .. MaxSubmits, seen : RoadmapDocs]
    \cup [op : {"final"}] \cup [op : {"insight"}, id : 1 .. MaxSubmits]

(* Types; the history never outgrows its limit.                            *)
TypeOK ==
  /\ roadmap \in RoadmapDocs \cup {Gone}
  /\ Exists => Len(roadmap.history) <= HistoryLimit
  /\ quiz \subseteq Weeks
  /\ task \in [Requests -> Tasks]
  /\ day \in Days /\ submits \in 0 .. MaxSubmits /\ toggles \in 0 .. MaxToggles
  /\ granted \in [completed : SUBSET Keys, passed : SUBSET Weeks,
                  finished : BOOLEAN, insights : SUBSET (1 .. MaxSubmits)]
  /\ raced \in BOOLEAN

(* However requests overlap, the open weeks are the first ones.  Unless    *)
(* one wrote over a change it had not read, a passed quiz opened the week  *)
(* after it, and no other week is open but those the assessment opened.    *)
WeeksOpenInOrder ==
  Exists =>
    /\ \E n \in Weeks : roadmap.unlocked = 1 .. n
    /\ ~raced => /\ \A w \in roadmap.passed : w < NWeeks => w + 1 \in roadmap.unlocked
                /\ \A w \in roadmap.unlocked : w <= 2 \/ w - 1 \in roadmap.passed

(* However requests overlap, the stored percentage is that of the stored   *)
(* lists, and the run of stored activity dates that ends with the last one *)
(* is the stored streak, or as much of it as the dates still show.         *)
RunEndingAt(d, dates) ==
  Cardinality({k \in dates : \A x \in k .. d : x \in dates})

Shown(streak) == IF streak < MaxDates THEN streak ELSE MaxDates

StoredFieldsAgree ==
  Exists => /\ roadmap.percent = Recalculated(roadmap)
            /\ RunEndingAt(roadmap.last, roadmap.dates) = Shown(roadmap.streak)

(* What the answers promised is stored - subtopics ticked or unticked,     *)
(* passed quizzes, insights that were paid for, the completed roadmap -    *)
(* unless one request wrote a `progress` over a change it had not read.    *)
LostOnlyIfRaced ==
  Exists /\ ~raced =>
    /\ roadmap.completed = granted.completed
    /\ roadmap.passed = granted.passed
    /\ granted.finished => roadmap.finished
    /\ \A e \in ToSet(roadmap.history) : e.id \in granted.insights => e.insight

-----------------------------------------------------------------------------
\* What the documentation says beyond this and the code does not keep: the model
\* has behaviours against it (README, "Divergences").

(* "A passing attempt covering the FULL roadmap (week 1 -> the last week)  *)
(* marks the roadmap complete" (mock_tests.py:486).                        *)
CompletionStays == Exists /\ granted.finished => roadmap.finished
=============================================================================
