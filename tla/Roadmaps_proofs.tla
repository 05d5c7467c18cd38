--------------------------- MODULE Roadmaps_proofs ---------------------------
(***************************************************************************)
(* Theorems about Roadmaps, for roadmaps of any number of weeks and        *)
(* subtopics, any number of requests and any bounds.                       *)
(***************************************************************************)
EXTENDS Roadmaps, FiniteSetTheorems, SequenceTheorems, TLAPS

-----------------------------------------------------------------------------
\* The inductive invariant

\* In every document that is stored, or was read and may be written back, the
\* derived fields are those of the lists, and the first weeks are open.
StreakFits(doc) ==
  /\ doc.last \in Nat
  /\ doc.dates \subseteq 1 .. doc.last
  /\ doc.streak \in 0 .. doc.last
  /\ doc.last > 0 => doc.streak > 0
  /\ (doc.last - Shown(doc.streak) + 1) .. doc.last \subseteq doc.dates
  /\ doc.last - Shown(doc.streak) \notin doc.dates

ListsFit(doc) ==
  /\ doc \in RoadmapDocs
  /\ \E n \in Weeks : doc.unlocked = 1 .. n
  /\ doc.last <= day /\ StreakFits(doc)
  /\ Len(doc.history) <= HistoryLimit

DocFits(doc) == ListsFit(doc) /\ doc.percent = Recalculated(doc)

Reading(t) == t.op \in {"toggle", "submit"}

\* Entries are numbered by the submissions so far; a quiz that is being marked
\* has a number no stored entry and no kept insight has.
NumberIsNew(id, doc) == \A i \in DOMAIN doc.history : doc.history[i].id # id
NumbersKnown(doc) == \A i \in DOMAIN doc.history : doc.history[i].id <= submits

ReaderFits(t) ==
  /\ Reading(t) => DocFits(t.seen) /\ NumbersKnown(t.seen)
  /\ t.op = "submit" =>
       /\ t.id <= submits /\ t.id \notin granted.insights
       /\ t.week \in t.seen.unlocked
       /\ Exists => NumberIsNew(t.id, roadmap)

ReadersDiffer(t, u) ==
  t.op = "submit" /\ Reading(u) =>
    /\ NumberIsNew(t.id, u.seen)
    /\ u.op = "submit" => t.id # u.id

\* Unless a change was written over, the document has what was promised, and
\* its passed quizzes are what opened its weeks.
Agrees(doc, promise) ==
  /\ \A w \in doc.passed : w < NWeeks => w + 1 \in doc.unlocked
  /\ \A w \in doc.unlocked : w <= 2 \/ w - 1 \in doc.passed
  /\ doc.completed = promise.completed
  /\ doc.passed = promise.passed
  /\ promise.finished => doc.finished
  /\ \A i \in DOMAIN doc.history :
       doc.history[i].id \in promise.insights => doc.history[i].insight

ProgressInv ==
  /\ TypeOK
  /\ Exists => DocFits(roadmap) /\ NumbersKnown(roadmap)
  /\ Exists /\ ~raced => Agrees(roadmap, granted)
  /\ \A n \in granted.insights : n <= submits
  /\ \A r \in Requests : ReaderFits(task[r])
  /\ \A r, q \in Requests : r # q => ReadersDiffer(task[r], task[q])

LEMMA Numbers ==
  ASSUME ConstantsOK
  PROVE  /\ NWeeks \in Nat /\ NWeeks > 0 /\ NSubtopics \in Nat /\ NSubtopics > 0
         /\ HistoryLimit \in Nat /\ HistoryLimit > 0
         /\ MaxDates \in Nat /\ MaxDates > 0 /\ MaxDay \in Nat /\ MaxDay > 0
         /\ MaxSubmits \in Nat /\ MaxToggles \in Nat
BY DEF ConstantsOK

-----------------------------------------------------------------------------
\* The percentage and the streak

LEMMA Rounds ==
  ASSUME NEW n \in Nat, NEW d \in Nat, d > 0
  PROVE  /\ Percent(n, d) \in Nat
         /\ n = 0 => Percent(n, d) = 0
<1>1. (100 * n) \div d \in Nat /\ (100 * n) % d \in Nat
  OBVIOUS
<1>2. 0 \div d = 0 /\ 0 % d = 0
  OBVIOUS
<1> QED
  BY <1>1, <1>2 DEF Percent

LEMMA KeysAreFinite ==
  ASSUME ConstantsOK
  PROVE  /\ IsFiniteSet(Keys) /\ IsFiniteSet(Weeks)
         /\ Cardinality(Keys) \in Nat
<1>1. IsFiniteSet(1 .. NWeeks) /\ IsFiniteSet(1 .. NSubtopics)
  BY FS_Interval, Numbers
<1> QED
  BY <1>1, FS_Product, FS_CardinalityType DEF Keys, Weeks

LEMMA PercentInRange ==
  ASSUME ConstantsOK,
         NEW c \in SUBSET Keys, NEW w \in SUBSET Weeks,
         NEW p, p.completed = c, p.passed = w
  PROVE  /\ Recalculated(p) \in 0 .. 100
         /\ c = {} /\ w = {} => Recalculated(p) = 0
<1>1. IsFiniteSet(c) /\ IsFiniteSet(w)
  BY KeysAreFinite, FS_Subset
<1>2. Cardinality(c) \in Nat /\ Cardinality(w) \in Nat
  BY <1>1, FS_CardinalityType
<1>3. c = {} /\ w = {} => Cardinality(c) + Cardinality(w) = 0
  BY FS_EmptySet
<1>4. PICK all \in Nat : all = Cardinality(Keys) + NWeeks /\ all > 0
  BY KeysAreFinite, Numbers
<1>5. PICK done \in Nat : done = Cardinality(c) + Cardinality(w)
  BY <1>2
<1>6. Recalculated(p) =
        IF Percent(done, all) > 100 THEN 100 ELSE Percent(done, all)
  BY <1>4, <1>5 DEF Recalculated
<1>7. PICK q \in Nat : q = Percent(done, all)
  BY <1>4, Rounds
<1>8. done = 0 => q = 0
  BY <1>4, <1>7, Rounds
<1> QED
  BY <1>3, <1>5, <1>6, <1>7, <1>8

LEMMA Interval ==
  ASSUME NEW a \in Int, NEW b \in Int, NEW n \in Nat, b - a + 1 = n
  PROVE  IsFiniteSet(a .. b) /\ Cardinality(a .. b) = n
<1>1. IsFiniteSet(a .. b) /\ Cardinality(a .. b) = IF a > b THEN 0 ELSE b - a + 1
  BY FS_Interval
<1> QED
  BY <1>1

\* Dates close to the last one stay; one with MaxDates later ones goes.
LEMMA LatestDates ==
  ASSUME ConstantsOK, NEW d \in Nat, NEW D \in SUBSET (1 .. d), NEW x \in D
  PROVE  /\ d - x < MaxDates => x \in Latest(D)
         /\ (x + 1) .. (x + MaxDates) \subseteq D => x \notin Latest(D)
<1> DEFINE later == {y \in D : y > x}
<1>1. x \in 1 .. d /\ d - x \in Nat /\ MaxDates \in Nat
  BY Numbers
<1>2. PICK lo \in Int, hi \in Int : lo = x + 1 /\ hi = x + MaxDates
  BY <1>1
<1>3. IsFiniteSet(lo .. d) /\ Cardinality(lo .. d) = d - x /\ later \subseteq lo .. d
  <2>1. \A y \in D : y > x => y \in lo .. d
    <3>1. \A y \in 1 .. d : y > x => y \in lo .. d
      BY <1>1, <1>2
    <3> QED
      BY <3>1
  <2>2. later \subseteq lo .. d
    BY <2>1
  <2>3. d \in Int /\ d - lo + 1 = d - x
    BY <1>1, <1>2
  <2> HIDE DEF later
  <2> QED
    BY <1>1, <2>2, <2>3, Interval
<1>4. IsFiniteSet(later) /\ Cardinality(later) \in Nat /\ Cardinality(later) <= d - x
  <2> HIDE DEF later
  <2> QED
    BY <1>3, FS_Subset, FS_CardinalityType
<1>5. ASSUME (x + 1) .. (x + MaxDates) \subseteq D
      PROVE  Cardinality(later) >= MaxDates
  <2>1. lo .. hi \subseteq later
    <3>1. lo .. hi \subseteq D /\ \A y \in lo .. hi : y > x
      BY <1>1, <1>2, <1>5
    <3> QED
      BY <3>1
  <2>2. IsFiniteSet(lo .. hi) /\ Cardinality(lo .. hi) = MaxDates
    <3>1. hi - lo + 1 = MaxDates
      BY <1>1, <1>2
    <3> QED
      BY <1>1, <3>1, Interval
  <2> HIDE DEF later
  <2> QED
    BY <1>4, <2>1, <2>2, FS_Subset
<1>6. x \in Latest(D) <=> Cardinality(later) < MaxDates
  BY DEF Latest
<1> HIDE DEF later
<1> QED
  BY <1>1, <1>4, <1>5, <1>6

\* The days of the streak, as far as the dates go back, and not the day before.
LEMMA RunOfDates ==
  ASSUME ConstantsOK, NEW doc, StreakFits(doc)
  PROVE  RunEndingAt(doc.last, doc.dates) = Shown(doc.streak)
<1> DEFINE last == doc.last
           dates == doc.dates
           s == Shown(doc.streak)
           run == {k \in dates : \A x \in k .. last : x \in dates}
<1>1. /\ last \in Nat /\ dates \subseteq 1 .. last /\ s \in Nat /\ s <= last
      /\ (last - s + 1) .. last \subseteq dates /\ last - s \notin dates
  BY Numbers DEF StreakFits, Shown
<1>2. run = (last - s + 1) .. last
  <2> HIDE DEF s, last, dates
  <2>1. ASSUME NEW k \in run PROVE k \in (last - s + 1) .. last
    <3>1. k \in dates /\ k \in 1 .. last
      BY <1>1, <2>1
    <3>2. CASE k <= last - s
      <4>1. last - s \in k .. last
        BY <1>1, <3>1, <3>2
      <4> QED
        BY <1>1, <2>1, <4>1
    <3> QED
      BY <1>1, <3>1, <3>2
  <2>2. ASSUME NEW k \in (last - s + 1) .. last PROVE k \in run
    <3>1. \A x \in k .. last : x \in (last - s + 1) .. last
      BY <1>1, <2>2
    <3> QED
      BY <1>1, <2>2, <3>1
  <2> HIDE DEF run
  <2> QED
    BY <2>1, <2>2
<1>3. Cardinality((last - s + 1) .. last) = s
  <2> HIDE DEF s, last
  <2>1. last - s + 1 \in Int /\ last \in Int /\ last - (last - s + 1) + 1 = s
    BY <1>1
  <2> QED
    BY <1>1, <2>1, Interval
<1>4. RunEndingAt(last, dates) = Cardinality(run)
  BY DEF RunEndingAt
<1> QED
  BY <1>2, <1>3, <1>4

\* A day more, with the dates cut.
LEMMA StreakGrows ==
  ASSUME ConstantsOK, NEW doc, StreakFits(doc), NEW d \in Nat, d > doc.last,
         NEW q, q.last = d, q.dates = Latest(doc.dates \cup {d}),
         q.streak = IF doc.last > 0 /\ d - doc.last = 1 THEN doc.streak + 1 ELSE 1
  PROVE  StreakFits(q)
<1>1. PICK D \in SUBSET (1 .. d) : D = doc.dates \cup {d}
  <2>1. doc.last \in Nat /\ doc.dates \subseteq 1 .. doc.last /\ d > 0
    BY DEF StreakFits
  <2>2. 1 .. doc.last \subseteq 1 .. d /\ d \in 1 .. d
    BY <2>1
  <2> QED
    BY <2>1, <2>2
<1>2. q.dates \subseteq D
  BY <1>1 DEF Latest
<1>3. /\ doc.last \in Nat /\ doc.streak \in 0 .. doc.last
      /\ doc.last > 0 => doc.streak > 0
      /\ \A x \in doc.dates : x \in 1 .. doc.last
      /\ MaxDates \in Nat /\ MaxDates > 0
  BY Numbers DEF StreakFits
<1>4. q.streak \in 1 .. d
  BY <1>3
<1>5. \A x \in D : d - x < MaxDates => x \in q.dates
  BY <1>1, LatestDates
<1>8. ASSUME NEW s \in Nat, s = Shown(q.streak), (d - s + 1) .. d \subseteq q.dates,
             d - s \notin q.dates
      PROVE  StreakFits(q)
  <2>1. q.last \in Nat /\ q.dates \subseteq 1 .. q.last
    BY <1>1, <1>2
  <2>2. q.streak \in 0 .. q.last /\ q.streak > 0
    BY <1>4
  <2> QED
    BY <1>8, <2>1, <2>2 DEF StreakFits
<1>6. CASE doc.last > 0 /\ d - doc.last = 1
  <2>1. q.streak = doc.streak + 1
    BY <1>6
  <2>2. PICK s \in Nat : s = Shown(doc.streak)
    BY <1>3 DEF Shown
  <2>3. (doc.last - s + 1) .. doc.last \subseteq doc.dates /\ doc.last - s \notin doc.dates
    BY <2>2 DEF StreakFits
  <2>4. (d - s) .. d \subseteq D
    <3>1. \A x \in (d - s) .. d : x = d \/ x \in (doc.last - s + 1) .. doc.last
      BY <1>3, <1>6
    <3> QED
      BY <1>1, <2>3, <3>1
  <2>5. CASE doc.streak < MaxDates
    <3>1. s = doc.streak /\ Shown(q.streak) = s + 1
      BY <1>3, <2>1, <2>2, <2>5 DEF Shown
    <3>2. (d - (s + 1) + 1) .. d \subseteq q.dates
      <4>1. \A x \in (d - (s + 1) + 1) .. d : x \in (d - s) .. d /\ d - x < MaxDates
        BY <1>3, <2>5, <3>1
      <4> QED
        BY <1>5, <2>4, <4>1
    <3>3. d - (s + 1) \notin q.dates
      <4>1. d - (s + 1) = doc.last - s /\ d - (s + 1) # d
        BY <1>3, <1>6
      <4> QED
        BY <1>1, <1>2, <2>3, <4>1
    <3> QED
      BY <1>8, <3>1, <3>2, <3>3, s + 1 \in Nat
  <2>6. CASE ~(doc.streak < MaxDates)
    <3>1. s = MaxDates /\ Shown(q.streak) = MaxDates
      BY <1>3, <2>1, <2>2, <2>6 DEF Shown
    <3>2. (d - MaxDates + 1) .. d \subseteq q.dates
      <4>1. \A x \in (d - MaxDates + 1) .. d : x \in (d - s) .. d /\ d - x < MaxDates
        BY <1>3, <3>1
      <4> QED
        BY <1>5, <2>4, <4>1
    <3>3. d - MaxDates \notin q.dates
      <4>1. CASE d - MaxDates \in D
        <5>1. PICK x \in D : x = d - MaxDates
          BY <4>1
        <5>2. (x + 1) .. (x + MaxDates) \subseteq D
          <6>1. \A y \in (x + 1) .. (x + MaxDates) : y \in (d - s) .. d
            BY <1>3, <3>1, <5>1
          <6> QED
            BY <2>4, <6>1
        <5> QED
          <6>1. x \notin Latest(D)
            BY <5>2, LatestDates
          <6> QED
            BY <1>1, <5>1, <6>1
      <4> QED
        BY <1>2, <4>1
    <3> QED
      BY <1>3, <1>8, <3>1, <3>2, <3>3
  <2> QED
    BY <2>5, <2>6
<1>7. CASE ~(doc.last > 0 /\ d - doc.last = 1)
  <2>1. q.streak = 1 /\ Shown(q.streak) = 1
    BY <1>3, <1>7 DEF Shown
  <2>2. d \in q.dates
    <3>1. d \in D /\ d - d = 0
      BY <1>1
    <3> QED
      BY <1>3, <1>5, <3>1
  <2>3. d - 1 \notin q.dates
    <3>1. d - 1 \notin doc.dates /\ d - 1 # d
      BY <1>3, <1>7
    <3> QED
      BY <1>1, <1>2, <3>1
  <2>4. (d - 1 + 1) .. d \subseteq q.dates
    <3>1. \A x \in (d - 1 + 1) .. d : x = d
      OBVIOUS
    <3> QED
      BY <2>2, <3>1
  <2> QED
    BY <1>8, <2>1, <2>3, <2>4
<1> QED
  BY <1>6, <1>7

-----------------------------------------------------------------------------
\* What a request writes back

Today == day \in Days

LEMMA ActivityFits ==
  ASSUME ConstantsOK, Today, NEW p, ListsFit(p)
  PROVE  LET q == DailyActivity(p) IN
         /\ ListsFit(q)
         /\ q.completed = p.completed /\ q.passed = p.passed /\ q.unlocked = p.unlocked
         /\ q.history = p.history /\ q.finished = p.finished
<1>1. CASE p.last = day
  BY <1>1 DEF DailyActivity
<1>2. CASE p.last # day
  <2>1. /\ p.last \in Nat /\ p.last < day /\ day \in Nat /\ day <= MaxDay /\ day > 0
        /\ p.dates \in SUBSET (1 .. p.last) /\ p.streak \in 0 .. p.last /\ StreakFits(p)
        /\ p \in RoadmapDocs /\ MaxDay \in Nat
    BY <1>2, Numbers DEF ListsFit, StreakFits, RoadmapDocs, Today, Days
  <2>2. PICK s : s = IF p.last > 0 /\ day - p.last = 1 THEN p.streak + 1 ELSE 1
    OBVIOUS
  <2>3. PICK D : D = Latest(p.dates \cup {day})
    OBVIOUS
  <2>4. s \in 0 .. MaxDay
    BY <2>1, <2>2
  <2>5. PICK q : q = [p EXCEPT !.streak = s, !.last = day, !.dates = D]
    OBVIOUS
  <2>6. DailyActivity(p) = q
    BY <1>2, <2>2, <2>3, <2>5 DEF DailyActivity
  <2>7. /\ q.streak = s /\ q.last = day /\ q.dates = D
        /\ q.completed = p.completed /\ q.passed = p.passed /\ q.unlocked = p.unlocked
        /\ q.history = p.history /\ q.finished = p.finished
    BY <2>1, <2>5 DEF RoadmapDocs
  <2>8. day \in 0 .. MaxDay /\ D \in SUBSET Days
    BY <2>1, <2>3 DEF Days, Latest
  <2>9. q \in RoadmapDocs
    BY <2>1, <2>4, <2>5, <2>8 DEF RoadmapDocs
  <2>10. StreakFits(q)
    BY <2>1, <2>2, <2>3, <2>7, StreakGrows
  <2> QED
    BY <2>1, <2>6, <2>7, <2>9, <2>10 DEF ListsFit
<1> QED
  BY <1>1, <1>2

LEMMA PercentFits ==
  ASSUME ConstantsOK, NEW p, ListsFit(p)
  PROVE  LET q == WithPercent(p) IN
         /\ DocFits(q)
         /\ q.completed = p.completed /\ q.passed = p.passed /\ q.unlocked = p.unlocked
         /\ q.history = p.history /\ q.finished = p.finished
<1>1. p \in RoadmapDocs
  BY DEF ListsFit
<1>2. PICK n : n = Recalculated(p)
  OBVIOUS
<1>3. n \in 0 .. 100
  BY <1>1, <1>2, PercentInRange DEF RoadmapDocs
<1>4. PICK q : q = [p EXCEPT !.percent = n]
  OBVIOUS
<1>5. WithPercent(p) = q
  BY <1>2, <1>4 DEF WithPercent
<1>6. /\ q.completed = p.completed /\ q.passed = p.passed /\ q.unlocked = p.unlocked
      /\ q.history = p.history /\ q.finished = p.finished /\ q.percent = n
      /\ q.last = p.last /\ q.dates = p.dates /\ q.streak = p.streak
  BY <1>1, <1>4 DEF RoadmapDocs
<1>7. q \in RoadmapDocs
  BY <1>1, <1>3, <1>4 DEF RoadmapDocs
<1>8. Recalculated(q) = n
  BY <1>2, <1>6 DEF Recalculated
<1>9. ListsFit(q)
  BY <1>6, <1>7 DEF ListsFit, StreakFits
<1> QED
  BY <1>5, <1>6, <1>8, <1>9 DEF DocFits

ToggleTask(t) == t \in [op : {"toggle"}, key : Keys, on : BOOLEAN, seen : RoadmapDocs]

SubmitTask(t) ==
  t \in [op : {"submit"}, week : Weeks, id : 1 .. MaxSubmits, seen : RoadmapDocs]

LEMMA ToggledFits ==
  ASSUME ConstantsOK, Today, NEW t, ToggleTask(t), ListsFit(t.seen)
  PROVE  LET q == WithPercent(Toggled(t)) IN
         /\ DocFits(q)
         /\ q.completed = IF t.on THEN t.seen.completed \cup {t.key} ELSE t.seen.completed \ {t.key}
         /\ q.passed = t.seen.passed /\ q.unlocked = t.seen.unlocked
         /\ q.history = t.seen.history /\ q.finished = t.seen.finished
<1>1. PICK d : d = t.seen
  OBVIOUS
<1>2. d \in RoadmapDocs /\ t.key \in Keys
  BY <1>1 DEF ToggleTask
<1>3. PICK c : c = IF t.on THEN d.completed \cup {t.key} ELSE d.completed \ {t.key}
  OBVIOUS
<1>4. c \in SUBSET Keys
  BY <1>2, <1>3 DEF RoadmapDocs
<1>5. PICK p : p = [d EXCEPT !.completed = c]
  OBVIOUS
<1>6. /\ p.completed = c /\ p.passed = d.passed /\ p.unlocked = d.unlocked
      /\ p.history = d.history /\ p.finished = d.finished
      /\ p.last = d.last /\ p.dates = d.dates /\ p.streak = d.streak
  BY <1>2, <1>5 DEF RoadmapDocs
<1>7. p \in RoadmapDocs
  BY <1>2, <1>4, <1>5 DEF RoadmapDocs
<1>8. ListsFit(p)
  BY <1>1, <1>6, <1>7 DEF ListsFit, StreakFits
<1>9. Toggled(t) = IF t.on THEN DailyActivity(p) ELSE p
  BY <1>1, <1>3, <1>5 DEF Toggled
<1>10. LET q == Toggled(t) IN
       /\ ListsFit(q)
       /\ q.completed = p.completed /\ q.passed = p.passed /\ q.unlocked = p.unlocked
       /\ q.history = p.history /\ q.finished = p.finished
  BY <1>8, <1>9, ActivityFits
<1> QED
  BY <1>1, <1>3, <1>6, <1>10, PercentFits

\* The newest entries stay, in their order.
LEMMA RecentEntries ==
  ASSUME ConstantsOK, NEW h \in Seq(Entries), NEW e \in Entries
  PROVE  LET k == Recent(Append(h, e)) IN
         /\ k \in Seq(Entries)
         /\ Len(k) <= HistoryLimit
         /\ \A i \in DOMAIN k : k[i] = e \/ \E j \in DOMAIN h : k[i] = h[j]
<1>1. PICK g \in Seq(Entries) : g = Append(h, e)
  BY AppendProperties
<1>2. /\ Len(g) = Len(h) + 1 /\ Len(g) \in Nat
      /\ \A i \in 1 .. Len(g) : g[i] = e \/ \E j \in DOMAIN h : g[i] = h[j]
  BY <1>1, AppendProperties
<1>3. PICK m \in 1 .. Len(g) :
        m = IF Len(g) > HistoryLimit THEN Len(g) - HistoryLimit + 1 ELSE 1
  BY <1>2, Numbers
<1>4. PICK k : k = SubSeq(g, m, Len(g))
  OBVIOUS
<1>5. \A i \in m .. Len(g) : g[i] \in Entries
  BY <1>2, <1>3
<1>6. /\ k \in Seq(Entries)
      /\ Len(k) = Len(g) - m + 1
      /\ \A i \in 1 .. Len(g) - m + 1 : k[i] = g[m + i - 1]
  BY <1>2, <1>3, <1>4, <1>5, SubSeqProperties
<1>7. \A i \in 1 .. Len(k) : m + i - 1 \in 1 .. Len(g)
  BY <1>2, <1>3, <1>6
<1>8. Len(k) <= HistoryLimit
  BY <1>2, <1>3, <1>6, Numbers
<1>9. \A i \in DOMAIN k : k[i] = e \/ \E j \in DOMAIN h : k[i] = h[j]
  <2> SUFFICES ASSUME NEW i \in DOMAIN k PROVE k[i] = e \/ \E j \in DOMAIN h : k[i] = h[j]
    OBVIOUS
  <2>1. i \in 1 .. Len(k) /\ i \in 1 .. Len(g) - m + 1
    BY <1>6
  <2>2. k[i] = g[m + i - 1] /\ m + i - 1 \in 1 .. Len(g)
    BY <1>6, <1>7, <2>1
  <2> QED
    BY <1>2, <2>2
<1>10. Recent(Append(h, e)) = k
  BY <1>1, <1>3, <1>4 DEF Recent
<1> QED
  BY <1>6, <1>8, <1>9, <1>10

LEMMA SubmittedFits ==
  ASSUME ConstantsOK, Today, NEW t, SubmitTask(t), ListsFit(t.seen), NEW pass \in BOOLEAN
  PROVE  LET q == WithPercent(Submitted(t, pass)) IN
         /\ DocFits(q)
         /\ q.passed = IF pass THEN t.seen.passed \cup {t.week} ELSE t.seen.passed
         /\ q.completed = t.seen.completed /\ q.unlocked = t.seen.unlocked
         /\ q.finished = t.seen.finished
         /\ \A i \in DOMAIN q.history :
              \/ q.history[i] = [id |-> t.id, insight |-> FALSE]
              \/ \E j \in DOMAIN t.seen.history : q.history[i] = t.seen.history[j]
<1>1. PICK d : d = t.seen
  OBVIOUS
<1>2. d \in RoadmapDocs /\ t.week \in Weeks
  BY <1>1 DEF SubmitTask
<1>3. PICK w : w = IF pass THEN d.passed \cup {t.week} ELSE d.passed
  OBVIOUS
<1>4. w \in SUBSET Weeks
  BY <1>2, <1>3 DEF RoadmapDocs
<1>5. PICK p : p = [d EXCEPT !.passed = w]
  OBVIOUS
<1>6. /\ p.passed = w /\ p.completed = d.completed /\ p.unlocked = d.unlocked
      /\ p.history = d.history /\ p.finished = d.finished
      /\ p.last = d.last /\ p.dates = d.dates /\ p.streak = d.streak
  BY <1>2, <1>5 DEF RoadmapDocs
<1>7. p \in RoadmapDocs
  BY <1>2, <1>4, <1>5 DEF RoadmapDocs
<1>8. ListsFit(p)
  BY <1>1, <1>6, <1>7 DEF ListsFit, StreakFits
<1>9. PICK a : a = DailyActivity(p)
  OBVIOUS
<1>10. /\ ListsFit(a)
       /\ a.completed = p.completed /\ a.passed = p.passed /\ a.unlocked = p.unlocked
       /\ a.history = p.history /\ a.finished = p.finished
  BY <1>8, <1>9, ActivityFits
<1>11. PICK e \in Entries : e = [id |-> t.id, insight |-> FALSE]
  BY DEF SubmitTask, Entries
<1>12. a \in RoadmapDocs /\ a.history \in Seq(Entries)
  BY <1>10 DEF ListsFit, RoadmapDocs
<1>13. PICK k : k = Recent(Append(a.history, e))
  OBVIOUS
<1>14. /\ k \in Seq(Entries) /\ Len(k) <= HistoryLimit
       /\ \A i \in DOMAIN k : k[i] = e \/ \E j \in DOMAIN a.history : k[i] = a.history[j]
  BY <1>12, <1>13, RecentEntries
<1>15. PICK b : b = [a EXCEPT !.history = k]
  OBVIOUS
<1>16. Submitted(t, pass) = b
  <2>1. (IF pass THEN [t.seen EXCEPT !.passed = @ \cup {t.week}] ELSE t.seen) = p
    <3>1. CASE pass
      BY <3>1, <1>1, <1>3, <1>5
    <3>2. CASE ~pass
      <4>1. [d EXCEPT !.passed = d.passed] = d
        BY <1>2 DEF RoadmapDocs
      <4> QED
        BY <3>2, <4>1, <1>1, <1>3, <1>5
    <3> QED
      BY <3>1, <3>2
  <2> QED
    BY <2>1, <1>9, <1>11, <1>13, <1>15 DEF Submitted
<1>17. /\ b.history = k
       /\ b.completed = a.completed /\ b.passed = a.passed /\ b.unlocked = a.unlocked
       /\ b.finished = a.finished
       /\ b.last = a.last /\ b.dates = a.dates /\ b.streak = a.streak
  BY <1>12, <1>15 DEF RoadmapDocs
<1>18. b \in RoadmapDocs
  BY <1>12, <1>14, <1>15 DEF RoadmapDocs
<1>19. ListsFit(b)
  BY <1>10, <1>14, <1>17, <1>18 DEF ListsFit, StreakFits
<1>20. PICK q : q = WithPercent(b)
  OBVIOUS
<1>21. /\ DocFits(q)
       /\ q.completed = b.completed /\ q.passed = b.passed /\ q.unlocked = b.unlocked
       /\ q.history = b.history /\ q.finished = b.finished
  BY <1>19, <1>20, PercentFits
<1>22. \A i \in DOMAIN q.history :
         q.history[i] = e \/ \E j \in DOMAIN d.history : q.history[i] = d.history[j]
  BY <1>6, <1>10, <1>14, <1>17, <1>21
<1> HIDE DEF DocFits
<1> QED
  BY <1>1, <1>3, <1>6, <1>10, <1>11, <1>16, <1>17, <1>20, <1>21, <1>22

-----------------------------------------------------------------------------
\* Every step keeps the invariant

Granted == [completed : SUBSET Keys, passed : SUBSET Weeks,
            finished : BOOLEAN, insights : SUBSET (1 .. MaxSubmits)]

LEMMA IdleIsNoReader == ~Reading(Idle) /\ Idle.op = "none"
BY DEF Reading, Idle

LEMMA IdleFits == ReaderFits(Idle)
BY IdleIsNoReader DEF ReaderFits, Reading

\* A step that leaves the document alone and gives one request a new task.
LEMMA TaskStep ==
  ASSUME ProgressInv, NEW r \in Requests, NEW new \in Tasks,
         task' = [task EXCEPT ![r] = new],
         UNCHANGED <<roadmap, day, granted, raced>>,
         submits \in Nat, MaxSubmits \in Nat, submits' \in submits .. MaxSubmits,
         toggles' \in 0 .. MaxToggles, quiz' \subseteq Weeks,
         ReaderFits(new)',
         \A q \in Requests \ {r} : ReadersDiffer(new, task[q]) /\ ReadersDiffer(task[q], new)
  PROVE  ProgressInv'
<1>1. task' \in [Requests -> Tasks]
  BY DEF ProgressInv, TypeOK
<1>2. \A q \in Requests : q # r => task'[q] = task[q]
  BY DEF ProgressInv, TypeOK
<1>3. task'[r] = new
  BY DEF ProgressInv, TypeOK
<1>4. TypeOK'
  BY <1>1 DEF ProgressInv, TypeOK, Exists, Days
<1>5. \A doc : DocFits(doc) => DocFits(doc)'
  BY DEF DocFits, ListsFit
<1>6. ASSUME NEW doc \in RoadmapDocs, NumbersKnown(doc) PROVE NumbersKnown(doc)'
  <2>1. doc.history \in Seq(Entries)
    BY DEF RoadmapDocs
  <2>2. \A i \in DOMAIN doc.history : doc.history[i] \in Entries
    BY <2>1
  <2>3. \A i \in DOMAIN doc.history : doc.history[i].id \in Nat
    BY <2>2 DEF Entries
  <2> QED
    BY <1>6, <2>3 DEF NumbersKnown
<1>7. ASSUME NEW q \in Requests, q # r PROVE ReaderFits(task[q])'
  <2>1. PICK t \in Tasks : t = task[q] /\ t = task'[q]
    BY <1>2, <1>7 DEF ProgressInv, TypeOK
  <2>2. ReaderFits(t)
    BY <2>1 DEF ProgressInv
  <2>3. Reading(t) => DocFits(t.seen)' /\ NumbersKnown(t.seen)'
    BY <2>2, <1>5, <1>6 DEF ReaderFits, DocFits, ListsFit
  <2>4. t.op = "submit" => t.id \in Nat
    BY <2>1 DEF Tasks, Idle
  <2>5. ReaderFits(t)'
    BY <2>2, <2>3, <2>4 DEF ReaderFits, NumberIsNew, Exists
  <2> QED
    BY <2>1, <2>5 DEF ReaderFits, Reading
<1>8. Exists' => DocFits(roadmap)' /\ NumbersKnown(roadmap)'
  <2>1. Exists' = Exists
    BY DEF Exists
  <2>2. PICK doc : doc = roadmap /\ doc = roadmap'
    OBVIOUS
  <2>3. Exists => DocFits(doc) /\ NumbersKnown(doc) /\ doc \in RoadmapDocs
    BY <2>2 DEF ProgressInv, DocFits, ListsFit
  <2>4. Exists => DocFits(doc)' /\ NumbersKnown(doc)'
    BY <2>3, <1>5, <1>6
  <2> QED
    BY <2>1, <2>2, <2>4 DEF DocFits, ListsFit, NumbersKnown
<1> QED
  <2>1. \A n \in granted.insights : n \in Nat
    BY DEF ProgressInv, TypeOK
  <2>2. (\A n \in granted.insights : n <= submits)'
    BY <2>1 DEF ProgressInv
  <2>3. (Exists /\ ~raced => Agrees(roadmap, granted))'
    BY DEF ProgressInv, Exists, Agrees
  <2>4. (\A q \in Requests : ReaderFits(task[q]))'
    <3>1. ReaderFits(task[r])'
      BY <1>3 DEF ReaderFits, Reading
    <3> QED
      BY <3>1, <1>7
  <2>5. (\A p, q \in Requests : p # q => ReadersDiffer(task[p], task[q]))'
    <3>1. \A p, q \in Requests : p # q => ReadersDiffer(task'[p], task'[q])
      BY <1>2, <1>3 DEF ProgressInv
    <3> QED
      BY <3>1 DEF ReadersDiffer, Reading, NumberIsNew
  <2> QED
    BY <1>4, <1>8, <2>2, <2>3, <2>4, <2>5 DEF ProgressInv

\* A step that writes the document and ends the request.
LEMMA WriteStep ==
  ASSUME ProgressInv, Exists, NEW r \in Requests, NEW doc, NEW promise \in Granted,
         DocFits(doc), NumbersKnown(doc),
         \A q \in Requests \ {r} : task[q].op = "submit" =>
            NumberIsNew(task[q].id, doc) /\ task[q].id \notin promise.insights,
         \A n \in promise.insights : n <= submits,
         raced' \in BOOLEAN, ~raced' => Agrees(doc, promise),
         roadmap' = doc, granted' = promise, task' = [task EXCEPT ![r] = Idle],
         UNCHANGED <<quiz, day, submits, toggles>>
  PROVE  ProgressInv'
<1>1. task' \in [Requests -> Tasks]
  BY DEF ProgressInv, TypeOK, Tasks
<1>2. \A q \in Requests : q # r => task'[q] = task[q]
  BY DEF ProgressInv, TypeOK
<1>3. task'[r] = Idle
  BY DEF ProgressInv, TypeOK
<1>4. TypeOK'
  BY <1>1 DEF ProgressInv, TypeOK, Exists, Days, DocFits, ListsFit, Granted
<1>5. DocFits(roadmap)' /\ NumbersKnown(roadmap)'
  BY DEF DocFits, ListsFit, NumbersKnown
<1>6. ASSUME NEW q \in Requests, q # r PROVE ReaderFits(task[q])'
  <2>1. PICK t \in Tasks : t = task[q] /\ t = task'[q]
    BY <1>2, <1>6 DEF ProgressInv, TypeOK
  <2>2. ReaderFits(t)
    BY <2>1 DEF ProgressInv
  <2>3. Reading(t) => DocFits(t.seen)' /\ NumbersKnown(t.seen)'
    BY <2>2 DEF ReaderFits, DocFits, ListsFit, NumbersKnown
  <2>4. t.op = "submit" => NumberIsNew(t.id, doc) /\ t.id \notin promise.insights
    BY <2>1, <1>6
  <2>5. ReaderFits(t)'
    BY <2>2, <2>3, <2>4 DEF ReaderFits, NumberIsNew
  <2> QED
    BY <2>1, <2>5 DEF ReaderFits, Reading
<1>7. ReaderFits(task[r])'
  BY <1>3, IdleIsNoReader DEF ReaderFits, Reading
<1>8. (\A p, q \in Requests : p # q => ReadersDiffer(task[p], task[q]))'
  <2>1. \A p, q \in Requests : p # q => ReadersDiffer(task'[p], task'[q])
    BY <1>2, <1>3, IdleIsNoReader DEF ProgressInv, ReadersDiffer
  <2> QED
    BY <2>1 DEF ReadersDiffer, Reading, NumberIsNew
<1>9. (Exists /\ ~raced => Agrees(roadmap, granted))'
  BY DEF Agrees
<1>10. (\A n \in granted.insights : n <= submits)'
  OBVIOUS
<1> QED
  BY <1>4, <1>5, <1>6, <1>7, <1>8, <1>9, <1>10 DEF ProgressInv

LEMMA ProgressInit == ASSUME ConstantsOK, Init PROVE ProgressInv
<1>1. PICK w \in Weeks : roadmap = NewRoadmap(1 .. w) /\ w <= 2
  BY Numbers DEF Init, Weeks
<1>2. PICK doc : /\ doc = NewRoadmap(1 .. w)
                 /\ doc.completed = {} /\ doc.passed = {} /\ doc.unlocked = 1 .. w
                 /\ doc.percent = 0 /\ doc.history = << >> /\ doc.streak = 0
                 /\ doc.last = 0 /\ doc.dates = {} /\ doc.finished = FALSE
  <2>1. PICK d : d = NewRoadmap(1 .. w)
    OBVIOUS
  <2> QED
    BY <2>1 DEF NewRoadmap
<1>3. doc \in RoadmapDocs
  <2>1. 1 .. w \in SUBSET Weeks
    BY Numbers DEF Weeks
  <2>2. << >> \in Seq(Entries) /\ 0 \in 0 .. MaxDay /\ 0 \in 0 .. 100
    BY Numbers
  <2> QED
    BY <1>2, <2>1, <2>2 DEF NewRoadmap, RoadmapDocs
<1>4. Recalculated(doc) = 0
  BY <1>2, PercentInRange
<1>6. Len(doc.history) = 0 /\ DOMAIN doc.history = {}
  BY <1>2
<1>7. DocFits(doc) /\ NumbersKnown(doc)
  <2>1. day = 1 /\ 0 \in 0 .. day
    BY DEF Init
  <2>2. StreakFits(doc) /\ doc.last <= day
    <3>1. Shown(0) = 0 /\ 0 - 0 + 1 = 1 /\ 1 .. 0 = {}
      BY Numbers DEF Shown
    <3> QED
      BY <1>2, <2>1, <3>1 DEF StreakFits
  <2>3. NumbersKnown(doc)
    BY <1>6 DEF NumbersKnown
  <2>5. doc.percent = Recalculated(doc)
    BY <1>2, <1>4
  <2>6. \E n \in Weeks : doc.unlocked = 1 .. n
    BY <1>1, <1>2
  <2>7. Len(doc.history) <= HistoryLimit
    BY <1>6, Numbers
  <2>8. ListsFit(doc)
    BY <1>3, <2>2, <2>6, <2>7 DEF ListsFit
  <2> QED
    BY <2>3, <2>5, <2>8 DEF DocFits
<1>8. PICK promise \in Granted : promise = granted /\ promise.insights = {}
        /\ promise.completed = {} /\ promise.passed = {} /\ promise.finished = FALSE
  <2>1. PICK g : g = [completed |-> {}, passed |-> {}, finished |-> FALSE, insights |-> {}]
    OBVIOUS
  <2>2. g \in Granted /\ g.insights = {} /\ g.completed = {} /\ g.passed = {} /\ g.finished = FALSE
    BY <2>1 DEF Granted
  <2> QED
    BY <2>1, <2>2 DEF Init
<1>9. Agrees(doc, promise)
  BY <1>1, <1>2, <1>6, <1>8 DEF Agrees, Weeks
<1>10. \A r \in Requests : task[r] = Idle
  BY DEF Init
<1>11. /\ \A r \in Requests : ReaderFits(task[r])
       /\ \A r, q \in Requests : r # q => ReadersDiffer(task[r], task[q])
  BY <1>10, IdleIsNoReader DEF ReaderFits, ReadersDiffer, Reading
<1>12. TypeOK
  <2>1. roadmap = doc /\ Len(roadmap.history) <= HistoryLimit
    BY <1>1, <1>2, <1>6, Numbers
  <2>2. task \in [Requests -> Tasks]
    BY DEF Init, Tasks
  <2>3. day \in Days /\ submits \in 0 .. MaxSubmits /\ toggles \in 0 .. MaxToggles
    BY Numbers DEF Init, Days
  <2> QED
    BY <1>3, <1>8, <2>1, <2>2, <2>3 DEF Init, TypeOK, Granted
<1> QED
  BY <1>1, <1>2, <1>7, <1>8, <1>9, <1>11, <1>12 DEF ProgressInv

LEMMA Places ==
  ASSUME ConstantsOK, ProgressInv
  PROVE  /\ submits \in Nat /\ submits <= MaxSubmits /\ MaxSubmits \in Nat
         /\ toggles \in 0 .. MaxToggles /\ MaxToggles \in Nat
         /\ Today /\ quiz \subseteq Weeks /\ granted \in Granted
         /\ raced \in BOOLEAN
         /\ task \in [Requests -> Tasks]
         /\ Exists => roadmap \in RoadmapDocs
BY Numbers DEF ProgressInv, TypeOK, Today, Granted, Exists

\* A task that reads nothing which it will write back.
LEMMA PlainTask ==
  ASSUME ConstantsOK, ProgressInv, NEW r \in Requests, NEW new \in Tasks, ~Reading(new),
         task' = [task EXCEPT ![r] = new],
         UNCHANGED <<roadmap, day, submits, toggles, granted, raced>>, quiz' \subseteq Weeks
  PROVE  ProgressInv'
<1>1. ReaderFits(new)'
  BY DEF ReaderFits, Reading
<1>2. \A q \in Requests \ {r} : ReadersDiffer(new, task[q]) /\ ReadersDiffer(task[q], new)
  BY DEF ReadersDiffer, Reading
<1>3. /\ submits \in Nat /\ MaxSubmits \in Nat /\ submits' \in submits .. MaxSubmits
      /\ toggles' \in 0 .. MaxToggles
  BY Places
<1> QED
  BY <1>1, <1>2, <1>3, TaskStep

LEMMA KindsOfTask ==
  ASSUME NEW t \in Tasks
  PROVE  /\ t.op = "toggle" => ToggleTask(t)
         /\ t.op = "submit" => SubmitTask(t)
         /\ t.op = "generate" => t.week \in Weeks
         /\ t.op = "insight" => t.id \in 1 .. MaxSubmits
BY DEF Tasks, Idle, ToggleTask, SubmitTask

LEMMA ReadSubtopicKeeps ==
  ASSUME ConstantsOK, ProgressInv, NEW r \in Requests, ReadSubtopic(r)
  PROVE  ProgressInv'
<1>1. PICK k, on, new :
        /\ k \in Keys /\ on \in BOOLEAN
        /\ task' = [task EXCEPT ![r] = new]
        /\ new = [op |-> "toggle", key |-> k, on |-> on, seen |-> roadmap]
  BY DEF ReadSubtopic
<1>2. /\ Exists /\ toggles < MaxToggles /\ toggles' = toggles + 1
      /\ UNCHANGED <<roadmap, quiz, day, submits, granted, raced>>
  BY DEF ReadSubtopic
<1>3. new.op = "toggle" /\ new.seen = roadmap /\ new \in Tasks
  BY <1>1, <1>2, Places DEF Tasks
<1>4. ReaderFits(new)'
  BY <1>2, <1>3 DEF ProgressInv, ReaderFits, Reading, DocFits, ListsFit, NumbersKnown
<1>5. \A q \in Requests \ {r} : ReadersDiffer(new, task[q]) /\ ReadersDiffer(task[q], new)
  BY <1>2, <1>3 DEF ProgressInv, ReaderFits, ReadersDiffer
<1>6. /\ submits \in Nat /\ MaxSubmits \in Nat /\ submits' \in submits .. MaxSubmits
      /\ toggles' \in 0 .. MaxToggles /\ quiz' \subseteq Weeks
  BY <1>2, Places
<1> QED
  BY <1>1, <1>2, <1>3, <1>4, <1>5, <1>6, TaskStep

LEMMA ReadQuizKeeps ==
  ASSUME ConstantsOK, ProgressInv, NEW r \in Requests, ReadQuiz(r)
  PROVE  ProgressInv'
<1>1. PICK w, new :
        /\ w \in quiz
        /\ w \in roadmap.unlocked
        /\ task' = [task EXCEPT ![r] = new]
        /\ new = [op |-> "submit", week |-> w, id |-> submits + 1, seen |-> roadmap]
  BY DEF ReadQuiz, WeekIsUnlocked
<1>2. /\ Exists /\ submits < MaxSubmits /\ submits' = submits + 1
      /\ UNCHANGED <<roadmap, quiz, day, toggles, granted, raced>>
  BY DEF ReadQuiz
<1>3. /\ new.op = "submit" /\ new.seen = roadmap /\ new.id = submits + 1 /\ new.week = w
      /\ new \in Tasks
  <2>1. submits + 1 \in 1 .. MaxSubmits /\ w \in Weeks
    BY <1>1, <1>2, Places
  <2> QED
    BY <1>1, <1>2, <2>1, Places DEF Tasks
<1>4. \A doc \in RoadmapDocs : NumbersKnown(doc) =>
        NumberIsNew(submits + 1, doc) /\ NumbersKnown(doc)'
  <2> SUFFICES ASSUME NEW doc \in RoadmapDocs, NumbersKnown(doc)
               PROVE  NumberIsNew(submits + 1, doc) /\ NumbersKnown(doc)'
    OBVIOUS
  <2>1. doc.history \in Seq(Entries)
    BY DEF RoadmapDocs
  <2>2. \A i \in DOMAIN doc.history : doc.history[i] \in Entries
    BY <2>1
  <2>3. \A i \in DOMAIN doc.history : doc.history[i].id \in Nat
    BY <2>2 DEF Entries
  <2> QED
    BY <1>2, <2>3, Places DEF NumbersKnown, NumberIsNew
<1>5. DocFits(roadmap)' /\ NumbersKnown(roadmap)' /\ NumberIsNew(submits + 1, roadmap)
  BY <1>2, <1>4, Places DEF ProgressInv, DocFits, ListsFit, NumbersKnown
<1>6. submits + 1 \notin granted.insights
  BY Places DEF ProgressInv
<1>7. ReaderFits(new)'
  BY <1>1, <1>2, <1>3, <1>5, <1>6, Places DEF ReaderFits, Reading
<1>8. ASSUME NEW q \in Requests PROVE ReadersDiffer(new, task[q]) /\ ReadersDiffer(task[q], new)
  <2>1. PICK t \in Tasks : t = task[q]
    BY Places
  <2>2. ReaderFits(t)
    BY <2>1 DEF ProgressInv
  <2>3. Reading(t) => NumberIsNew(submits + 1, t.seen)
    BY <1>4, <2>2 DEF ReaderFits, DocFits, ListsFit
  <2>4. t.op = "submit" => t.id \in Nat /\ t.id <= submits
    BY <2>2, KindsOfTask DEF ReaderFits, SubmitTask
  <2>5. ReadersDiffer(new, t)
    BY <1>3, <2>3, <2>4, Places DEF ReadersDiffer
  <2>6. ReadersDiffer(t, new)
    BY <1>2, <1>3, <2>2, <2>4, Places DEF ReadersDiffer, ReaderFits
  <2> QED
    BY <2>1, <2>5, <2>6
<1>9. /\ submits \in Nat /\ MaxSubmits \in Nat /\ submits' \in submits .. MaxSubmits
      /\ toggles' \in 0 .. MaxToggles /\ quiz' \subseteq Weeks
  BY <1>2, Places
<1> QED
  BY <1>1, <1>2, <1>3, <1>7, <1>8, <1>9, TaskStep

\* A request that has answered.
LEMMA ReplyKeeps ==
  ASSUME ConstantsOK, ProgressInv, NEW r \in Requests, Reply(r),
         UNCHANGED <<roadmap, day, submits, toggles, granted, raced>>, quiz' \subseteq Weeks
  PROVE  ProgressInv'
<1>1. Idle \in Tasks
  BY DEF Tasks
<1> QED
  BY <1>1, IdleIsNoReader, PlainTask DEF Reply

LEMMA ReadForTestKeeps ==
  ASSUME ConstantsOK, ProgressInv, NEW r \in Requests, ReadForTest(r)
  PROVE  ProgressInv'
<1>1. PICK w, new :
        /\ w \in Weeks
        /\ task' = [task EXCEPT ![r] = new] /\ new = [op |-> "generate", week |-> w]
  BY DEF ReadForTest
<1>2. new \in Tasks /\ ~Reading(new)
  BY <1>1 DEF Tasks, Reading
<1>3. UNCHANGED <<roadmap, day, submits, toggles, granted, raced>> /\ quiz' \subseteq Weeks
  BY Places DEF ReadForTest
<1> QED
  BY <1>1, <1>2, <1>3, PlainTask

LEMMA GenerateAutoTestKeeps ==
  ASSUME ConstantsOK, ProgressInv, NEW r \in Requests, GenerateAutoTest(r)
  PROVE  ProgressInv'
<1>1. PICK t \in Tasks : t = task[r]
  BY Places
<1>2. t.week \in Weeks
  BY <1>1, KindsOfTask DEF GenerateAutoTest
<1>3. quiz' \subseteq Weeks
  BY <1>1, <1>2, Places DEF GenerateAutoTest
<1> QED
  BY <1>3, ReplyKeeps DEF GenerateAutoTest

LEMMA PassFinalTestKeeps ==
  ASSUME ConstantsOK, ProgressInv, NEW r \in Requests, PassFinalTest(r)
  PROVE  ProgressInv'
<1>1. PICK new : task' = [task EXCEPT ![r] = new] /\ new = [op |-> "final"]
  BY DEF PassFinalTest
<1>2. new \in Tasks /\ ~Reading(new)
  BY <1>1 DEF Tasks, Reading
<1>3. UNCHANGED <<roadmap, day, submits, toggles, granted, raced>> /\ quiz' \subseteq Weeks
  BY Places DEF PassFinalTest
<1> QED
  BY <1>1, <1>2, <1>3, PlainTask

LEMMA ReadEntryKeeps ==
  ASSUME ConstantsOK, ProgressInv, NEW r \in Requests, ReadEntry(r)
  PROVE  ProgressInv'
<1>1. PICK e, new :
        /\ e \in ToSet(roadmap.history)
        /\ task' = [task EXCEPT ![r] = new] /\ new = [op |-> "insight", id |-> e.id]
  BY DEF ReadEntry
<1>2. e.id \in 1 .. MaxSubmits
  <2>1. roadmap.history \in Seq(Entries)
    BY Places DEF ReadEntry, RoadmapDocs
  <2>2. \A i \in DOMAIN roadmap.history : roadmap.history[i] \in Entries
    BY <2>1
  <2>3. e \in Entries
    BY <1>1, <2>2 DEF ToSet
  <2> QED
    BY <2>3 DEF Entries
<1>3. new \in Tasks /\ ~Reading(new)
  BY <1>1, <1>2 DEF Tasks, Reading
<1>4. UNCHANGED <<roadmap, day, submits, toggles, granted, raced>> /\ quiz' \subseteq Weeks
  BY Places DEF ReadEntry
<1> QED
  BY <1>1, <1>3, <1>4, PlainTask

LEMMA FailKeeps ==
  ASSUME ConstantsOK, ProgressInv, NEW r \in Requests, Fail(r)
  PROVE  ProgressInv'
<1>1. quiz' \subseteq Weeks
  BY Places DEF Fail
<1> QED
  BY <1>1, ReplyKeeps DEF Fail

\* Only the whole document goes: its readers write nothing back.
LEMMA DeleteRoadmapKeeps ==
  ASSUME ConstantsOK, ProgressInv, NEW r \in Requests, DeleteRoadmap(r)
  PROVE  ProgressInv'
<1>1. ~Exists'
  BY DEF DeleteRoadmap, Exists
<1>2. TypeOK'
  BY DEF ProgressInv, TypeOK, DeleteRoadmap, Exists
<1>3. ASSUME NEW q \in Requests PROVE ReaderFits(task[q])'
  <2>1. PICK t : t = task[q] /\ t = task'[q]
    BY DEF DeleteRoadmap
  <2>2. ReaderFits(t)
    BY <2>1 DEF ProgressInv
  <2>3. ReaderFits(t)'
    BY <1>1, <2>2 DEF ReaderFits, DeleteRoadmap, DocFits, ListsFit, NumbersKnown
  <2> QED
    BY <2>1, <2>3 DEF ReaderFits, Reading
<1>4. (\A p, q \in Requests : p # q => ReadersDiffer(task[p], task[q]))'
  <2>1. task' = task
    BY DEF DeleteRoadmap
  <2> QED
    BY <2>1 DEF ProgressInv, ReadersDiffer, Reading, NumberIsNew
<1>5. (\A n \in granted.insights : n <= submits)'
  BY DEF ProgressInv, DeleteRoadmap
<1> QED
  BY <1>1, <1>2, <1>3, <1>4, <1>5 DEF ProgressInv

LEMMA NextDayKeeps ==
  ASSUME ConstantsOK, ProgressInv, NextDay
  PROVE  ProgressInv'
<1>1. day \in Nat /\ day' = day + 1 /\ day' \in Days
  BY Numbers DEF NextDay, ProgressInv, TypeOK, Days
<1>2. UNCHANGED <<roadmap, quiz, task, submits, toggles, granted, raced>>
  BY DEF NextDay
<1>3. ASSUME NEW doc, DocFits(doc) PROVE DocFits(doc)'
  <2>1. doc.last \in Nat /\ doc.last <= day
    BY <1>1, <1>3 DEF DocFits, ListsFit, StreakFits
  <2>2. doc.last <= day'
    BY <1>1, <2>1
  <2> QED
    BY <1>3, <2>2 DEF DocFits, ListsFit
<1>4. TypeOK'
  BY <1>1, <1>2 DEF ProgressInv, TypeOK, Exists
<1>5. Exists' => DocFits(roadmap)' /\ NumbersKnown(roadmap)'
  <2>1. PICK doc : doc = roadmap /\ doc = roadmap'
    BY <1>2
  <2>2. Exists => DocFits(doc)' /\ NumbersKnown(doc)'
    BY <1>2, <1>3, <2>1 DEF ProgressInv, NumbersKnown
  <2>3. Exists' = Exists
    BY <1>2 DEF Exists
  <2> QED
    BY <2>1, <2>2, <2>3 DEF DocFits, ListsFit, NumbersKnown
<1>6. ASSUME NEW q \in Requests PROVE ReaderFits(task[q])'
  <2>1. PICK t : t = task[q] /\ t = task'[q]
    BY <1>2
  <2>2. ReaderFits(t)
    BY <2>1 DEF ProgressInv
  <2>3. Reading(t) => DocFits(t.seen)' /\ NumbersKnown(t.seen)'
    BY <1>2, <1>3, <2>2 DEF ReaderFits, NumbersKnown
  <2>4. ReaderFits(t)'
    BY <1>2, <2>2, <2>3 DEF ReaderFits, Exists
  <2> QED
    BY <2>1, <2>4 DEF ReaderFits, Reading
<1>7. (\A p, q \in Requests : p # q => ReadersDiffer(task[p], task[q]))'
  BY <1>2 DEF ProgressInv, ReadersDiffer, Reading, NumberIsNew
<1>8. (\A n \in granted.insights : n <= submits)' /\ (Exists /\ ~raced => Agrees(roadmap, granted))'
  BY <1>2 DEF ProgressInv, Exists, Agrees
<1> QED
  BY <1>4, <1>5, <1>6, <1>7, <1>8 DEF ProgressInv

\* The open weeks are written beside the progress.
LEMMA OpenedFits ==
  ASSUME ConstantsOK, NEW q, DocFits(q), NEW n \in Weeks
  PROVE  LET d == [q EXCEPT !.unlocked = 1 .. n] IN
         /\ DocFits(d) /\ d.unlocked = 1 .. n
         /\ d.completed = q.completed /\ d.passed = q.passed
         /\ d.history = q.history /\ d.finished = q.finished
<1>1. q \in RoadmapDocs
  BY DEF DocFits, ListsFit
<1>2. PICK u : u = 1 .. n
  OBVIOUS
<1>3. u \in SUBSET Weeks
  BY <1>2, Numbers DEF Weeks
<1>4. PICK d : d = [q EXCEPT !.unlocked = u]
  OBVIOUS
<1>5. /\ d.completed = q.completed /\ d.passed = q.passed /\ d.unlocked = u
      /\ d.history = q.history /\ d.finished = q.finished /\ d.percent = q.percent
      /\ d.last = q.last /\ d.dates = q.dates /\ d.streak = q.streak
  BY <1>1, <1>4 DEF RoadmapDocs
<1>6. d \in RoadmapDocs
  BY <1>1, <1>3, <1>4 DEF RoadmapDocs
<1>7. Recalculated(d) = Recalculated(q)
  BY <1>5 DEF Recalculated
<1>8. ListsFit(d)
  BY <1>2, <1>5, <1>6 DEF DocFits, ListsFit, StreakFits
<1>9. DocFits(d)
  BY <1>5, <1>7, <1>8 DEF DocFits
<1> QED
  BY <1>2, <1>4, <1>5, <1>9

\* Every entry of a fitting document is a record with a number.
LEMMA EntriesOf ==
  ASSUME NEW doc \in RoadmapDocs
  PROVE  /\ doc.history \in Seq(Entries)
         /\ \A i \in DOMAIN doc.history : doc.history[i] \in Entries /\ doc.history[i].id \in Nat
<1>1. doc.history \in Seq(Entries)
  BY DEF RoadmapDocs
<1>2. \A i \in DOMAIN doc.history : doc.history[i] \in Entries
  BY <1>1
<1> QED
  BY <1>1, <1>2 DEF Entries

LEMMA UpdateSubtopicKeeps ==
  ASSUME ConstantsOK, ProgressInv, NEW r \in Requests, UpdateSubtopic(r)
  PROVE  ProgressInv'
<1>1. PICK t \in Tasks : t = task[r]
  BY Places
<1>2. t.op = "toggle" /\ ToggleTask(t) /\ t.seen \in RoadmapDocs
  BY <1>1, KindsOfTask DEF UpdateSubtopic, ToggleTask
<1>3. task' = [task EXCEPT ![r] = Idle] /\ UNCHANGED <<quiz, day, submits, toggles>>
  BY DEF UpdateSubtopic, Reply
<1>4. CASE ~Exists
  <2>1. UNCHANGED <<roadmap, granted, raced>>
    BY <1>4 DEF UpdateSubtopic, WriteProgress
  <2> QED
    BY <1>3, <2>1, Places, ReplyKeeps DEF Reply
<1>5. CASE Exists
  <2>1. DocFits(t.seen) /\ NumbersKnown(t.seen)
    BY <1>1, <1>2 DEF ProgressInv, ReaderFits, Reading
  <2>2. PICK q : q = WithPercent(Toggled(t))
    OBVIOUS
  <2>3. /\ DocFits(q)
        /\ q.completed = IF t.on THEN t.seen.completed \cup {t.key} ELSE t.seen.completed \ {t.key}
        /\ q.passed = t.seen.passed /\ q.history = t.seen.history /\ q.finished = t.seen.finished
    BY <1>2, <2>1, <2>2, Places, ToggledFits DEF DocFits
  <2>4. PICK n \in Weeks : roadmap.unlocked = 1 .. n
    BY <1>5 DEF ProgressInv, DocFits, ListsFit
  <2>5. PICK doc : doc = [q EXCEPT !.unlocked = 1 .. n]
    OBVIOUS
  <2>6. /\ DocFits(doc) /\ doc.unlocked = roadmap.unlocked
        /\ doc.completed = q.completed /\ doc.passed = q.passed
        /\ doc.history = q.history /\ doc.finished = q.finished
    BY <2>3, <2>4, <2>5, OpenedFits
  <2>7. roadmap' = doc /\ raced' = (raced \/ t.seen # roadmap)
    BY <1>1, <1>5, <2>2, <2>4, <2>5 DEF UpdateSubtopic, WriteProgress
  <2>8. PICK ticked : ticked = IF t.on THEN granted.completed \cup {t.key} ELSE granted.completed \ {t.key}
    OBVIOUS
  <2>9. PICK promise : promise = [granted EXCEPT !.completed = ticked]
    OBVIOUS
  <2>10. granted' = promise
    BY <1>1, <1>5, <2>8, <2>9 DEF UpdateSubtopic
  <2>11. /\ promise.completed = ticked /\ promise.passed = granted.passed
         /\ promise.finished = granted.finished /\ promise.insights = granted.insights
    BY <2>9, Places DEF Granted
  <2>12. ticked \in SUBSET Keys
    BY <1>2, <2>8, Places DEF Granted, ToggleTask
  <2>13. promise \in Granted
    BY <2>9, <2>12, Places DEF Granted
  <2>14. NumbersKnown(doc)
    BY <2>1, <2>3, <2>6 DEF NumbersKnown
  <2>15. ASSUME NEW u \in Requests \ {r}, task[u].op = "submit"
         PROVE  NumberIsNew(task[u].id, doc) /\ task[u].id \notin promise.insights
    <3>1. ReadersDiffer(task[u], t) /\ ReaderFits(task[u])
      BY <1>1 DEF ProgressInv
    <3>2. NumberIsNew(task[u].id, t.seen) /\ task[u].id \notin granted.insights
      BY <1>2, <2>15, <3>1 DEF ReadersDiffer, ReaderFits, Reading
    <3> QED
      BY <2>3, <2>6, <2>11, <3>2 DEF NumberIsNew
  <2>16. \A m \in promise.insights : m <= submits
    BY <2>11 DEF ProgressInv
  <2>17. ASSUME ~raced' PROVE Agrees(doc, promise)
    <3>1. ~raced /\ t.seen = roadmap
      BY <2>7, <2>17, Places
    <3>2. Agrees(roadmap, granted)
      BY <1>5, <3>1 DEF ProgressInv
    <3>3. doc.completed = promise.completed
      BY <2>3, <2>6, <2>8, <2>11, <3>1, <3>2 DEF Agrees
    <3> QED
      BY <2>3, <2>6, <2>11, <3>1, <3>2, <3>3 DEF Agrees
  <2>18. raced' \in BOOLEAN
    BY <2>7, Places
  <2> QED
    BY <1>3, <1>5, <2>6, <2>7, <2>10, <2>13, <2>14, <2>15, <2>16, <2>17, <2>18, WriteStep
<1> QED
  BY <1>4, <1>5

\* The week after a passed one is open, and the open weeks are the first ones.
LEMMA WeeksStayInOrder ==
  ASSUME ConstantsOK, NEW t, SubmitTask(t), NEW pass \in BOOLEAN, ListsFit(t.seen),
         t.week \in t.seen.unlocked
  PROVE  \E n \in Weeks : UnlockedAfter(t, pass) = 1 .. n
<1>1. PICK k \in Weeks : t.seen.unlocked = 1 .. k
  BY DEF ListsFit
<1>2. k \in Nat /\ k >= 1 /\ k <= NWeeks /\ t.week \in 1 .. k /\ NWeeks \in Nat
  BY <1>1, Numbers DEF Weeks
<1>3. CASE pass /\ t.week = k /\ k + 1 <= NWeeks
  <2>1. UnlockedAfter(t, pass) = 1 .. (k + 1)
    BY <1>1, <1>2, <1>3 DEF UnlockedAfter
  <2>2. k + 1 \in Weeks
    BY <1>2, <1>3 DEF Weeks
  <2> QED
    BY <2>1, <2>2
<1>4. CASE ~(pass /\ t.week = k /\ k + 1 <= NWeeks)
  <2>1. UnlockedAfter(t, pass) = 1 .. k
    BY <1>1, <1>2, <1>4 DEF UnlockedAfter
  <2> QED
    BY <1>1, <2>1
<1> QED
  BY <1>3, <1>4

LEMMA SubmitQuizKeeps ==
  ASSUME ConstantsOK, ProgressInv, NEW r \in Requests, SubmitQuiz(r)
  PROVE  ProgressInv'
<1>1. PICK t \in Tasks : t = task[r]
  BY Places
<1>2. t.op = "submit" /\ SubmitTask(t) /\ t.seen \in RoadmapDocs /\ t.week \in Weeks
  BY <1>1, KindsOfTask DEF SubmitQuiz, SubmitTask
<1>3. PICK pass \in BOOLEAN :
        /\ SaveQuiz(t, WithPercent(Submitted(t, pass)), UnlockedAfter(t, pass))
        /\ granted' = IF pass /\ Exists
                      THEN [granted EXCEPT !.passed = granted.passed \cup {t.week}]
                      ELSE granted
  BY <1>1 DEF SubmitQuiz
<1>4. task' = [task EXCEPT ![r] = Idle] /\ UNCHANGED <<quiz, day, submits, toggles>>
  BY DEF SubmitQuiz, Reply
<1>5. CASE ~Exists
  <2>1. UNCHANGED <<roadmap, granted, raced>>
    BY <1>3, <1>5 DEF SaveQuiz
  <2> QED
    BY <1>4, <2>1, Places, ReplyKeeps DEF Reply
<1>6. CASE Exists
  <2>1. /\ DocFits(t.seen) /\ NumbersKnown(t.seen) /\ t.week \in t.seen.unlocked
        /\ t.id <= submits /\ t.id \notin granted.insights /\ t.id \in Nat
    BY <1>1, <1>2 DEF ProgressInv, ReaderFits, Reading, SubmitTask
  <2>2. PICK q : q = WithPercent(Submitted(t, pass))
    OBVIOUS
  <2>3. /\ DocFits(q)
        /\ q.passed = IF pass THEN t.seen.passed \cup {t.week} ELSE t.seen.passed
        /\ q.completed = t.seen.completed /\ q.finished = t.seen.finished
        /\ \A i \in DOMAIN q.history :
             \/ q.history[i] = [id |-> t.id, insight |-> FALSE]
             \/ \E j \in DOMAIN t.seen.history : q.history[i] = t.seen.history[j]
    <3>1. Today /\ ListsFit(t.seen) /\ SubmitTask(t)
      BY <1>2, <2>1, Places DEF DocFits
    <3> QED
      BY <2>2, <3>1, SubmittedFits
  <2>4. PICK n \in Weeks : UnlockedAfter(t, pass) = 1 .. n
    BY <1>2, <2>1, WeeksStayInOrder DEF DocFits
  <2>5. PICK doc : doc = [q EXCEPT !.unlocked = 1 .. n]
    OBVIOUS
  <2>6. /\ DocFits(doc) /\ doc.unlocked = 1 .. n
        /\ doc.completed = q.completed /\ doc.passed = q.passed
        /\ doc.history = q.history /\ doc.finished = q.finished
    BY <2>3, <2>5, OpenedFits
  <2>7. roadmap' = doc /\ raced' = (raced \/ t.seen # roadmap)
    BY <1>3, <1>6, <2>2, <2>4, <2>5 DEF SaveQuiz
  <2>8. PICK won \in SUBSET Weeks :
          won = IF pass THEN granted.passed \cup {t.week} ELSE granted.passed
    BY <1>2, Places DEF Granted
  <2>9. PICK promise : promise = [granted EXCEPT !.passed = won]
    OBVIOUS
  <2>10. /\ promise.passed = won /\ promise.completed = granted.completed
         /\ promise.finished = granted.finished /\ promise.insights = granted.insights
         /\ promise \in Granted
    BY <2>9, Places DEF Granted
  <2>11. granted' = promise
    BY <1>3, <1>6, <2>8, <2>9, Places DEF Granted
  <2>12. doc \in RoadmapDocs
    BY <2>6 DEF DocFits, ListsFit
  <2>13. \A i \in DOMAIN doc.history :
           \/ doc.history[i].id = t.id
           \/ \E j \in DOMAIN t.seen.history : doc.history[i] = t.seen.history[j]
    BY <2>3, <2>6
  <2>14. NumbersKnown(doc)
    BY <2>1, <2>13 DEF NumbersKnown
  <2>15. ASSUME NEW u \in Requests \ {r}, task[u].op = "submit"
         PROVE  NumberIsNew(task[u].id, doc) /\ task[u].id \notin promise.insights
    <3>1. ReadersDiffer(task[u], t) /\ ReaderFits(task[u])
      BY <1>1 DEF ProgressInv
    <3>2. NumberIsNew(task[u].id, t.seen) /\ task[u].id # t.id /\ task[u].id \notin granted.insights
      BY <1>2, <2>15, <3>1 DEF ReadersDiffer, ReaderFits, Reading
    <3> QED
      BY <2>10, <2>13, <3>2 DEF NumberIsNew
  <2>16. \A m \in promise.insights : m <= submits
    BY <2>10 DEF ProgressInv
  <2>17. ASSUME ~raced' PROVE Agrees(doc, promise)
    <3>1. ~raced /\ t.seen = roadmap
      BY <2>7, <2>17, Places
    <3>2. Agrees(roadmap, granted)
      BY <1>6, <3>1 DEF ProgressInv
    <3>3. doc.completed = promise.completed /\ doc.passed = promise.passed
      BY <2>3, <2>6, <2>8, <2>10, <3>1, <3>2 DEF Agrees
    <3>4. promise.finished => doc.finished
      BY <2>3, <2>6, <2>10, <3>1, <3>2 DEF Agrees
    <3>5. doc.unlocked = roadmap.unlocked \cup (IF pass /\ t.week + 1 <= NWeeks THEN {t.week + 1} ELSE {})
      BY <2>4, <2>6, <3>1 DEF UnlockedAfter
    <3>6. doc.passed = roadmap.passed \cup (IF pass THEN {t.week} ELSE {})
      BY <2>3, <2>6, <3>1
    <3>7. \A w \in doc.passed : w < NWeeks => w + 1 \in doc.unlocked
      BY <1>2, <3>2, <3>5, <3>6, Numbers DEF Agrees, Weeks
    <3>8. \A w \in doc.unlocked : w <= 2 \/ w - 1 \in doc.passed
      BY <1>2, <3>2, <3>5, <3>6, Numbers DEF Agrees, Weeks
    <3>9. \A i \in DOMAIN doc.history :
            doc.history[i].id \in promise.insights => doc.history[i].insight
      BY <2>1, <2>10, <2>13, <3>1, <3>2 DEF Agrees
    <3> QED
      BY <3>3, <3>4, <3>7, <3>8, <3>9 DEF Agrees
  <2>18. raced' \in BOOLEAN
    BY <2>7, Places
  <2> QED
    BY <1>4, <1>6, <2>6, <2>7, <2>10, <2>11, <2>14, <2>15, <2>16, <2>17, <2>18, WriteStep
<1> QED
  BY <1>5, <1>6

LEMMA MarkCompletedKeeps ==
  ASSUME ConstantsOK, ProgressInv, NEW r \in Requests, MarkCompleted(r)
  PROVE  ProgressInv'
<1>1. task' = [task EXCEPT ![r] = Idle] /\ UNCHANGED <<quiz, day, submits, toggles, raced>>
  BY DEF MarkCompleted, Reply
<1>2. CASE ~Exists
  BY <1>1, <1>2, Places, ReplyKeeps DEF MarkCompleted, Reply
<1>3. CASE Exists
  <2>1. PICK old \in RoadmapDocs : old = roadmap
    BY <1>3, Places
  <2>2. PICK doc : doc = [old EXCEPT !.finished = TRUE]
    OBVIOUS
  <2>3. PICK promise : promise = [granted EXCEPT !.finished = TRUE]
    OBVIOUS
  <2>4. roadmap' = doc /\ granted' = promise
    BY <1>3, <2>1, <2>2, <2>3 DEF MarkCompleted
  <2>5. /\ doc \in RoadmapDocs
        /\ doc.completed = old.completed /\ doc.passed = old.passed /\ doc.unlocked = old.unlocked
        /\ doc.history = old.history /\ doc.percent = old.percent /\ doc.finished
        /\ doc.last = old.last /\ doc.dates = old.dates /\ doc.streak = old.streak
    BY <2>2 DEF RoadmapDocs
  <2>6. /\ promise \in Granted /\ promise.completed = granted.completed /\ promise.passed = granted.passed
        /\ promise.insights = granted.insights
    BY <2>3, Places DEF Granted
  <2>7. DocFits(old) /\ NumbersKnown(old)
    BY <1>3, <2>1 DEF ProgressInv
  <2>8. Recalculated(doc) = Recalculated(old)
    BY <2>5 DEF Recalculated
  <2>9. DocFits(doc) /\ NumbersKnown(doc)
    BY <2>5, <2>7, <2>8 DEF DocFits, ListsFit, StreakFits, NumbersKnown
  <2>10. ASSUME NEW u \in Requests \ {r}, task[u].op = "submit"
         PROVE  NumberIsNew(task[u].id, doc) /\ task[u].id \notin promise.insights
    BY <1>3, <2>1, <2>5, <2>6, <2>10 DEF ProgressInv, ReaderFits, NumberIsNew
  <2>11. \A m \in promise.insights : m <= submits
    BY <2>6 DEF ProgressInv
  <2>12. ~raced' => Agrees(doc, promise)
    BY <1>1, <1>3, <2>1, <2>5, <2>6 DEF ProgressInv, Agrees
  <2>13. raced' \in BOOLEAN
    BY <1>1, Places
  <2> QED
    BY <1>1, <1>3, <2>4, <2>6, <2>9, <2>10, <2>11, <2>12, <2>13, WriteStep
<1> QED
  BY <1>2, <1>3

\* An insight changes no number of the history.
LEMMA InsightEntries ==
  ASSUME NEW h \in Seq(Entries), NEW id
  PROVE  LET k == WithInsight(h, id) IN
         /\ k \in Seq(Entries) /\ Len(k) = Len(h) /\ DOMAIN k = DOMAIN h
         /\ \A i \in DOMAIN h : /\ k[i].id = h[i].id
                                /\ h[i].insight => k[i].insight
                                /\ h[i].id = id => k[i].insight
<1>1. PICK n \in Nat : n = Len(h) /\ DOMAIN h = 1 .. n
  OBVIOUS
<1>2. \A i \in 1 .. n : h[i] \in Entries
  BY <1>1
<1>3. PICK k : k = [i \in 1 .. n |-> IF h[i].id = id THEN [h[i] EXCEPT !.insight = TRUE] ELSE h[i]]
  OBVIOUS
<1>4. WithInsight(h, id) = k
  BY <1>1, <1>3 DEF WithInsight
<1>5. ASSUME NEW i \in 1 .. n
      PROVE  /\ k[i] \in Entries /\ k[i].id = h[i].id
             /\ h[i].insight => k[i].insight
             /\ h[i].id = id => k[i].insight
  <2>1. PICK e \in Entries : e = h[i]
    BY <1>2
  <2>2. PICK f : f = [e EXCEPT !.insight = TRUE]
    OBVIOUS
  <2>3. f \in Entries /\ f.id = e.id /\ f.insight
    BY <2>2 DEF Entries
  <2>4. k[i] = IF e.id = id THEN f ELSE e
    BY <1>3, <2>1, <2>2
  <2>5. CASE e.id = id
    BY <2>1, <2>3, <2>4, <2>5
  <2>6. CASE e.id # id
    BY <2>1, <2>4, <2>6
  <2> QED
    BY <2>5, <2>6
<1>6. k \in [1 .. n -> Entries]
  BY <1>3, <1>5
<1>7. k \in Seq(Entries) /\ Len(k) = n /\ DOMAIN k = 1 .. n
  BY <1>6
<1> QED
  BY <1>1, <1>4, <1>5, <1>7

LEMMA SaveInsightKeeps ==
  ASSUME ConstantsOK, ProgressInv, NEW r \in Requests, SaveInsight(r)
  PROVE  ProgressInv'
<1>1. task' = [task EXCEPT ![r] = Idle] /\ UNCHANGED <<quiz, day, submits, toggles, raced>>
  BY DEF SaveInsight, Reply
<1>2. CASE ~Exists
  BY <1>1, <1>2, Places, ReplyKeeps DEF SaveInsight, Reply
<1>3. CASE Exists
  <2>1. PICK old \in RoadmapDocs : old = roadmap
    BY <1>3, Places
  <2>2. PICK id \in 1 .. MaxSubmits : id = task[r].id
    BY KindsOfTask, Places DEF SaveInsight
  <2>3. PICK h : h = WithInsight(old.history, id)
    OBVIOUS
  <2>4. /\ h \in Seq(Entries) /\ Len(h) = Len(old.history) /\ DOMAIN h = DOMAIN old.history
        /\ \A i \in DOMAIN old.history : /\ h[i].id = old.history[i].id
                                         /\ old.history[i].insight => h[i].insight
                                         /\ old.history[i].id = id => h[i].insight
    BY <2>3, EntriesOf, InsightEntries
  <2>5. PICK doc : doc = [old EXCEPT !.history = h]
    OBVIOUS
  <2>6. roadmap' = doc
    BY <1>3, <2>1, <2>2, <2>3, <2>5 DEF SaveInsight
  <2>7. /\ doc \in RoadmapDocs
        /\ doc.completed = old.completed /\ doc.passed = old.passed /\ doc.unlocked = old.unlocked
        /\ doc.history = h /\ doc.percent = old.percent /\ doc.finished = old.finished
        /\ doc.last = old.last /\ doc.dates = old.dates /\ doc.streak = old.streak
    BY <2>4, <2>5 DEF RoadmapDocs
  <2>8. DocFits(old) /\ NumbersKnown(old)
    BY <1>3, <2>1 DEF ProgressInv
  <2>9. Recalculated(doc) = Recalculated(old)
    BY <2>7 DEF Recalculated
  <2>10. DocFits(doc) /\ NumbersKnown(doc)
    BY <2>4, <2>7, <2>8, <2>9 DEF DocFits, ListsFit, StreakFits, NumbersKnown
  <2>11. PICK paid : paid = IF \E e \in ToSet(old.history) : e.id = id
                            THEN granted.insights \cup {id} ELSE granted.insights
    OBVIOUS
  <2>12. paid \in SUBSET (1 .. MaxSubmits)
    BY <2>2, <2>11, Places DEF Granted
  <2>13. PICK promise : promise = [granted EXCEPT !.insights = paid]
    OBVIOUS
  <2>14. /\ promise \in Granted /\ promise.completed = granted.completed /\ promise.passed = granted.passed
         /\ promise.insights = paid /\ promise.finished = granted.finished
    BY <2>12, <2>13, Places DEF Granted
  <2>15. granted' = promise
    BY <1>3, <2>1, <2>2, <2>11, <2>13, Places DEF SaveInsight, Granted
  <2>16. \A m \in paid : m \in granted.insights \/ \E i \in DOMAIN old.history : old.history[i].id = m
    BY <2>11 DEF ToSet
  <2>17. \A m \in paid : m = id \/ m \in granted.insights
    BY <2>11
  <2>18. ASSUME NEW u \in Requests \ {r}, task[u].op = "submit"
         PROVE  NumberIsNew(task[u].id, doc) /\ task[u].id \notin promise.insights
    <3>1. NumberIsNew(task[u].id, old) /\ task[u].id \notin granted.insights
      BY <1>3, <2>1, <2>18 DEF ProgressInv, ReaderFits
    <3> QED
      BY <2>4, <2>7, <2>14, <2>16, <3>1 DEF NumberIsNew
  <2>19. \A m \in promise.insights : m <= submits
    BY <2>8, <2>14, <2>16 DEF ProgressInv, NumbersKnown
  <2>20. ASSUME ~raced' PROVE Agrees(doc, promise)
    <3>1. Agrees(old, granted)
      BY <1>1, <1>3, <2>1, <2>20 DEF ProgressInv
    <3>2. \A i \in DOMAIN doc.history : doc.history[i].id \in promise.insights => doc.history[i].insight
      BY <2>4, <2>7, <2>14, <2>17, <3>1 DEF Agrees
    <3> QED
      BY <2>7, <2>14, <3>1, <3>2 DEF Agrees
  <2>21. raced' \in BOOLEAN
    BY <1>1, Places
  <2> QED
    BY <1>1, <1>3, <2>6, <2>10, <2>14, <2>15, <2>18, <2>19, <2>20, <2>21, WriteStep
<1> QED
  BY <1>2, <1>3

LEMMA ProgressStays == ASSUME ProgressInv, UNCHANGED vars PROVE ProgressInv'
<1>1. UNCHANGED <<roadmap, quiz, task, day, submits, toggles, granted, raced>>
  BY DEF vars
<1>2. TypeOK'
  BY <1>1 DEF ProgressInv, TypeOK, Exists
<1>3. \A doc : (DocFits(doc)' <=> DocFits(doc)) /\ (NumbersKnown(doc)' <=> NumbersKnown(doc))
  <2>1. \A doc : ListsFit(doc)' <=> ListsFit(doc)
    BY <1>1 DEF ListsFit
  <2> QED
    BY <1>1, <2>1 DEF DocFits, NumbersKnown
<1>4. Exists' <=> Exists
  BY <1>1 DEF Exists
<1>5. Exists' => DocFits(roadmap)' /\ NumbersKnown(roadmap)'
  BY <1>1, <1>3, <1>4 DEF ProgressInv
<1>6. Exists' /\ ~raced' => Agrees(roadmap, granted)'
  BY <1>1, <1>4 DEF ProgressInv, Agrees
<1>7. \A r \in Requests : ReaderFits(task[r])'
  BY <1>1, <1>3, <1>4 DEF ProgressInv, ReaderFits, Reading, NumberIsNew
<1>8. \A r, q \in Requests : r # q => ReadersDiffer(task[r], task[q])'
  BY <1>1 DEF ProgressInv, ReadersDiffer, Reading, NumberIsNew
<1> QED
  BY <1>1, <1>2, <1>5, <1>6, <1>7, <1>8 DEF ProgressInv

LEMMA ProgressStep ==
  ASSUME ConstantsOK, ProgressInv, [Next]_vars
  PROVE  ProgressInv'
<1>1. CASE NextDay
  BY <1>1, NextDayKeeps
<1>2. ASSUME NEW r \in Requests, RequestStep(r) PROVE ProgressInv'
  <2>1. CASE ReadSubtopic(r)
    BY <2>1, ReadSubtopicKeeps
  <2>2. CASE UpdateSubtopic(r)
    BY <2>2, UpdateSubtopicKeeps
  <2>3. CASE ReadForTest(r)
    BY <2>3, ReadForTestKeeps
  <2>4. CASE GenerateAutoTest(r)
    BY <2>4, GenerateAutoTestKeeps
  <2>5. CASE ReadQuiz(r)
    BY <2>5, ReadQuizKeeps
  <2>6. CASE SubmitQuiz(r)
    BY <2>6, SubmitQuizKeeps
  <2>7. CASE PassFinalTest(r)
    BY <2>7, PassFinalTestKeeps
  <2>8. CASE MarkCompleted(r)
    BY <2>8, MarkCompletedKeeps
  <2>9. CASE ReadEntry(r)
    BY <2>9, ReadEntryKeeps
  <2>10. CASE SaveInsight(r)
    BY <2>10, SaveInsightKeeps
  <2>11. CASE Fail(r)
    BY <2>11, FailKeeps
  <2>12. CASE DeleteRoadmap(r)
    BY <2>12, DeleteRoadmapKeeps
  <2> QED
    BY <1>2, <2>1, <2>2, <2>3, <2>4, <2>5, <2>6, <2>7, <2>8, <2>9, <2>10, <2>11, <2>12 DEF RequestStep
<1>3. CASE UNCHANGED vars
  BY <1>3, ProgressStays
<1> QED
  BY <1>1, <1>2, <1>3 DEF Next

LEMMA ProgressAgrees ==
  ASSUME ConstantsOK, ProgressInv
  PROVE  WeeksOpenInOrder /\ StoredFieldsAgree /\ LostOnlyIfRaced
<1>1. WeeksOpenInOrder
  BY DEF ProgressInv, DocFits, ListsFit, Agrees, WeeksOpenInOrder
<1>2. StoredFieldsAgree
  BY RunOfDates DEF ProgressInv, DocFits, ListsFit, StoredFieldsAgree
<1>3. LostOnlyIfRaced
  BY DEF ProgressInv, Agrees, LostOnlyIfRaced, ToSet
<1> QED
  BY <1>1, <1>2, <1>3

-----------------------------------------------------------------------------
\* The theorem

\* The weeks of a roadmap open in order, its percentage is that of its completed
\* subtopics, its streak is the run of its dates as far as the dates go back, and
\* what an answer promised is lost only to a request that wrote over it, however
\* toggles, quizzes, insights and the days interleave (api/routers/roadmap.py).
THEOREM ProgressIsKept ==
  ASSUME ConstantsOK
  PROVE  Spec => [](WeeksOpenInOrder /\ StoredFieldsAgree /\ LostOnlyIfRaced)
<1>1. Init => ProgressInv
  BY ProgressInit
<1>2. ProgressInv /\ [Next]_vars => ProgressInv'
  BY ProgressStep
<1>3. ProgressInv => WeeksOpenInOrder /\ StoredFieldsAgree /\ LostOnlyIfRaced
  BY ProgressAgrees
<1> QED
  BY <1>1, <1>2, <1>3, PTL DEF Spec
=============================================================================
