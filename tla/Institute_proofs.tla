--------------------------- MODULE Institute_proofs ---------------------------
(***************************************************************************)
(* Theorems about an institute: the ledger of its AI calls (UsageLedger),  *)
(* the material of its subjects (SubjectMaterials), the cached lists of    *)
(* its hierarchy (HierarchyCache) and its accounts (Enrolment), for any    *)
(* number of calls, owners, requests, students, subjects, lists, readers,  *)
(* writers and login ids.                                                  *)
(***************************************************************************)
EXTENDS Institute, FiniteSetTheorems, WellFoundedInduction, TLAPS

-----------------------------------------------------------------------------
\* Counting tokens

\* A finite union of finite sets is finite: the smallest set of indices whose
\* union is not would have an index to leave out.
LEMMA FiniteUnion ==
  ASSUME NEW S, IsFiniteSet(S), NEW F, \A i \in S : IsFiniteSet(F[i])
  PROVE  IsFiniteSet(UNION {F[i] : i \in S})
<1> DEFINE U(T) == UNION {F[i] : i \in T}
           Bad == {T \in SUBSET S : ~IsFiniteSet(U(T))}
<1>1. SUFFICES ASSUME Bad # {} PROVE FALSE
  OBVIOUS
<1>2. IsWellFoundedOn(StrictSubsetOrdering(S), FiniteSubsetsOf(S))
      /\ FiniteSubsetsOf(S) = SUBSET S
  BY FS_StrictSubsetOrderingWellFounded, FS_FiniteSubsetsOfFinite
<1>3. Bad \subseteq FiniteSubsetsOf(S)
  BY <1>2
<1>4. PICK T \in Bad : \A V \in Bad : <<V, T>> \notin StrictSubsetOrdering(S)
  <2> HIDE DEF Bad
  <2> QED
    BY <1>1, <1>2, <1>3, WFMin
<1>5. U({}) = {}
  OBVIOUS
<1>6. PICK i \in T : TRUE
  BY <1>4, <1>5, FS_EmptySet
<1>7. T \ {i} \in SUBSET S /\ T \ {i} # T /\ T \ {i} \subseteq T /\ T \in SUBSET S
  BY <1>4, <1>6
<1>8. <<T \ {i}, T>> \in StrictSubsetOrdering(S)
  BY <1>7 DEF StrictSubsetOrdering
<1>9. IsFiniteSet(U(T \ {i}))
  BY <1>4, <1>7, <1>8
<1>10. U(T) = U(T \ {i}) \cup F[i]
  BY <1>6
<1>11. IsFiniteSet(U(T))
  <2>1. IsFiniteSet(F[i])
    BY <1>6, <1>7
  <2> HIDE DEF U
  <2> QED
    BY <1>9, <1>10, <2>1, FS_Union
<1> QED
  BY <1>4, <1>11

\* A pair of one thing and a number below a bound.
LEMMA FiniteRow ==
  ASSUME NEW c, NEW a \in Int, NEW b \in Int
  PROVE  IsFiniteSet({c} \X (a .. b))
<1> DEFINE f == [n \in a .. b |-> <<c, n>>]
<1>1. f \in [a .. b -> {c} \X (a .. b)]
  <2>1. \A n \in a .. b : <<c, n>> \in {c} \X (a .. b)
    OBVIOUS
  <2> QED
    BY <2>1
<1>2. ASSUME NEW t \in {c} \X (a .. b) PROVE \E n \in a .. b : f[n] = t
  <2>1. PICK d \in {c}, n \in a .. b : t = <<d, n>>
    OBVIOUS
  <2> QED
    BY <2>1
<1>3. f \in Surjection(a .. b, {c} \X (a .. b))
  BY <1>1, <1>2 DEF Surjection
<1> QED
  BY <1>3, FS_Interval, FS_Surjection

\* The instance counts as this module does.
LEMMA SameSets == \A S : /\ Usage!IsFiniteSet(S) <=> IsFiniteSet(S)
                         /\ Usage!Cardinality(S) = Cardinality(S)
BY DEF Usage!IsFiniteSet, IsFiniteSet, Usage!Cardinality, Cardinality

\* A sum of tokens counts one pair for each of them.
LEMMA SumCounts ==
  \A S : Usage!SumTokens(S) = Cardinality(UNION {{i} \X (1 .. Tokens[i[1]]) : i \in S})
<1> SUFFICES ASSUME NEW S
             PROVE  Usage!SumTokens(S) = Cardinality(UNION {{i} \X (1 .. Tokens[i[1]]) : i \in S})
  OBVIOUS
<1> DEFINE T == UNION {{i} \X (1 .. Tokens[i[1]]) : i \in S}
<1>1. Usage!SumTokens(S) = Usage!Cardinality(T)
  BY DEF Usage!SumTokens
<1> HIDE DEF T
<1>2. Usage!Cardinality(T) = Cardinality(T)
  BY SameSets
<1> QED
  BY <1>1, <1>2 DEF T

LEMMA IdsFinite ==
  ASSUME Usage!ConstantsOK
  PROVE  IsFiniteSet(Usage!Ids)
<1> DEFINE F == [c \in Calls |-> {c} \X (0 .. Attempts)]
<1>0. 0 \in Int /\ Attempts \in Int
  BY DEF Usage!ConstantsOK
<1>1. \A c \in Calls : IsFiniteSet(F[c])
  <2> SUFFICES ASSUME NEW c \in Calls PROVE IsFiniteSet({c} \X (0 .. Attempts))
    OBVIOUS
  <2> QED
    BY <1>0, FiniteRow
<1>2. Usage!Ids = UNION {F[c] : c \in Calls}
  BY DEF Usage!Ids
<1> HIDE DEF F
<1>3. IsFiniteSet(Calls)
  BY SameSets DEF Usage!ConstantsOK
<1> QED
  BY <1>1, <1>2, <1>3, FiniteUnion

\* More events have no fewer tokens.
LEMMA TokensGrow ==
  ASSUME Usage!ConstantsOK, NEW B \in SUBSET Usage!Ids, NEW A \in SUBSET B
  PROVE  /\ Usage!SumTokens(A) \in Nat /\ Usage!SumTokens(B) \in Nat
         /\ Usage!SumTokens(A) <= Usage!SumTokens(B)
<1> DEFINE F == [i \in Usage!Ids |-> {i} \X (1 .. Tokens[i[1]])]
           U(T) == UNION {F[i] : i \in T}
<1>1. \A i \in B : IsFiniteSet(F[i])
  <2> SUFFICES ASSUME NEW i \in B PROVE IsFiniteSet({i} \X (1 .. Tokens[i[1]]))
    OBVIOUS
  <2>1. i \in Calls \X (0 .. Attempts)
    BY DEF Usage!Ids
  <2>2. 1 \in Int /\ Tokens[i[1]] \in Int
    BY <2>1 DEF Usage!ConstantsOK
  <2> QED
    BY <2>2, FiniteRow
<1>2. IsFiniteSet(B)
  BY IdsFinite, FS_Subset
<1>3. Usage!SumTokens(A) = Cardinality(U(A)) /\ Usage!SumTokens(B) = Cardinality(U(B))
  <2>1. U(A) = UNION {{i} \X (1 .. Tokens[i[1]]) : i \in A}
    OBVIOUS
  <2>2. U(B) = UNION {{i} \X (1 .. Tokens[i[1]]) : i \in B}
    OBVIOUS
  <2> QED
    BY <2>1, <2>2, SumCounts
<1>4. U(A) \subseteq U(B)
  OBVIOUS
<1>5. IsFiniteSet(U(B))
  <2> HIDE DEF F
  <2> QED
    BY <1>1, <1>2, FiniteUnion
<1> HIDE DEF U
<1> QED
  BY <1>3, <1>4, <1>5, FS_Subset, FS_CardinalityType

-----------------------------------------------------------------------------
\* The usage ledger: the inductive invariant

Recording == {"upsert", "existing", "finalize", "stored"}
Projecting == {"owner", "capture", "events", "write", "mark"}

\* What is entered for a call at each of its steps.
CallFits(c, q) ==
  /\ q.at = "idle" => spent[c] = "none" /\ ledger[<<c, 0>>] = Usage!NoEvent
  /\ q.at = "calling" => /\ spent[c] = "none"
                         /\ ledger[<<c, 0>>].status # "known" /\ ~ledger[<<c, 0>>].pending
                         /\ c \in Tracked => ledger[<<c, 0>>] # Usage!NoEvent
  /\ q.at \in Recording \cup Projecting => spent[c] # "none" /\ q.id = <<c, 0>>
  /\ q.at \in Recording => q.owner = 1
  /\ c \in Tracked /\ spent[c] # "none" => ledger[<<c, 0>>] # Usage!NoEvent

\* Only known events are projected; the baseline is read before it is used.
ProjectFits(q) ==
  /\ q.at \in {"idle", "calling"} => q.owner = 1
  /\ q.at \in Projecting => q.id \in Usage!Known
  /\ q.at \in Projecting \ {"mark"} => q.owner <= Len(Targets)
  /\ q.at = "mark" => q.owner = Len(Targets) + 1
  /\ q.at = "capture" /\ baseline[Targets[q.owner]] = None =>
       q.seen = Legacy[Targets[q.owner]]
  /\ q.at \in {"events", "write"} => baseline[Targets[q.owner]] # None

Fits(p, q) ==
  /\ q \in Usage!Task
  /\ p \in Calls => CallFits(p, q)
  /\ p = Reconciler => q.at \in {"idle"} \cup Projecting
  /\ ProjectFits(q)

\* A known event is the one event of a call that was paid; pending ones are known.
LedgerFits ==
  \A i \in Usage!Ids :
    /\ ledger[i].pending => ledger[i].status = "known"
    /\ ledger[i].status = "known" => i[2] = 0 /\ spent[i[1]] = "known"

\* The totals are those from before the ledger until the baseline is kept.
BaselineFits ==
  \A o \in Usage!Owners :
    /\ baseline[o] = None => totals[o] = Legacy[o]
    /\ baseline[o] # None => baseline[o] = Legacy[o]

\* The projections that were read are of sets of events that include one
\* another: each is about to write the tokens of one of them, the totals hold
\* those of one of them, and it includes every event counted so far.
Chain(C) == /\ C \subseteq SUBSET Usage!Known
            /\ \A A, B \in C : A \subseteq B \/ B \subseteq A

Writes(q, C) ==
  q.at = "write" =>
    \E S \in C : q.id \in S /\ q.sum = Legacy[Targets[q.owner]] + Usage!SumTokens(S)

Counts(q, o, S) ==
  q.at \in Projecting /\ q.ok =>
    \A k \in 1 .. q.owner - 1 : Targets[k] = o => q.id \in S

Holds(o, C) ==
  \E S \in C : /\ totals[o] = Legacy[o] + Usage!SumTokens(S)
               /\ Usage!Known \ Usage!Pending \subseteq S
               /\ \A p \in Usage!Processes : Counts(task[p], o, S)

Snapshots ==
  \E C \in SUBSET SUBSET Usage!Ids :
    /\ Chain(C)
    /\ \A p \in Usage!Processes : Writes(task[p], C)
    /\ \A o \in Usage!Owners : Holds(o, C)

Core ==
  /\ Usage!TypeOK
  /\ LedgerFits
  /\ BaselineFits
  /\ \A p \in Usage!Processes : Fits(p, task[p])

LedgerInv == Core /\ Snapshots

\* Constants: every target is an owner, no call is the reconciler.
LEMMA LedgerConstants ==
  ASSUME Usage!ConstantsOK
  PROVE  /\ Len(Targets) \in Nat /\ 1 <= Len(Targets)
         /\ \A k \in 1 .. Len(Targets) : Targets[k] \in Usage!Owners
         /\ \A o \in Usage!Owners : \E k \in 1 .. Len(Targets) : Targets[k] = o
         /\ Legacy \in [Usage!Owners -> Nat] /\ None \notin Nat
         /\ Reconciler \notin Calls /\ Tracked \subseteq Calls
         /\ Attempts \in Nat /\ 1 <= Attempts /\ MaxFaults \in Nat
         /\ \A c \in Calls : <<c, 0>> \in Usage!Ids
<1>1. Targets \in Seq(Usage!Owners) /\ Targets # <<>>
  BY DEF Usage!ConstantsOK
<1>2. DOMAIN Targets = 1 .. Len(Targets) /\ Len(Targets) \in Nat /\ 1 <= Len(Targets)
  BY <1>1
<1>3. /\ \A k \in 1 .. Len(Targets) : Targets[k] \in Usage!Owners
      /\ \A o \in Usage!Owners : \E k \in 1 .. Len(Targets) : Targets[k] = o
  BY <1>2 DEF Usage!Owners
<1>4. \A c \in Calls : <<c, 0>> \in Usage!Ids
  BY DEF Usage!Ids, Usage!ConstantsOK
<1> QED
  BY <1>2, <1>3, <1>4 DEF Usage!ConstantsOK

LEMMA FreshFits ==
  ASSUME Usage!ConstantsOK
  PROVE  Usage!Fresh \in Usage!Task
BY LedgerConstants DEF Usage!Fresh, Usage!Task

LEMMA LedgerInit == ASSUME Usage!ConstantsOK, Usage!Init PROVE LedgerInv
<1>1. Usage!Fresh \in Usage!Task /\ Usage!NoEvent \in Usage!Event
  BY FreshFits DEF Usage!NoEvent, Usage!Event
<1>2. Usage!TypeOK
  BY <1>1, LedgerConstants DEF Usage!Init, Usage!TypeOK, Usage!Reports
<1>3. LedgerFits /\ BaselineFits /\ Usage!Known = {}
  BY LedgerConstants DEF Usage!Init, LedgerFits, BaselineFits, Usage!NoEvent, Usage!Known
<1>4. \A p \in Usage!Processes : Fits(p, task[p])
  <2> SUFFICES ASSUME NEW p \in Usage!Processes PROVE Fits(p, Usage!Fresh)
    BY DEF Usage!Init
  <2>1. p \in Calls => CallFits(p, Usage!Fresh)
    BY LedgerConstants DEF CallFits, Usage!Init, Usage!Fresh, Recording, Projecting
  <2>2. ProjectFits(Usage!Fresh) /\ Usage!Fresh.at = "idle"
    BY DEF ProjectFits, Usage!Fresh, Projecting
  <2> QED
    BY <1>1, <2>1, <2>2 DEF Fits
<1>5. Snapshots
  <2>1. Usage!SumTokens({}) = 0
    BY FS_EmptySet, SumCounts
  <2>2. \A p \in Usage!Processes : task[p].at \notin Projecting /\ task[p].at # "write"
    BY DEF Usage!Init, Usage!Fresh, Projecting
  <2>3. PICK C \in SUBSET SUBSET Usage!Ids : C = {{}}
    OBVIOUS
  <2>4. Chain(C)
    BY <2>3 DEF Chain
  <2>5. \A p \in Usage!Processes : Writes(task[p], C)
    BY <2>2 DEF Writes
  <2>6. \A o \in Usage!Owners : Holds(o, C)
    BY <1>3, <2>1, <2>2, <2>3, LedgerConstants DEF Holds, Counts, Usage!Init
  <2> QED
    BY <2>4, <2>5, <2>6 DEF Snapshots
<1> QED
  BY <1>2, <1>3, <1>4, <1>5 DEF LedgerInv, Core

-----------------------------------------------------------------------------
\* What every step leaves alone

\* A step of p enters or changes only the event of p, or one that is known.
DataStep(p) ==
  /\ spent' \in [Calls -> Usage!Reports] /\ ledger' \in [Usage!Ids -> Usage!Event]
  /\ baseline' \in [Usage!Owners -> Nat \cup {None}] /\ totals' \in [Usage!Owners -> Nat]
  /\ faults' \in 0..MaxFaults
  /\ LedgerFits' /\ BaselineFits' /\ Usage!Known \subseteq Usage!Known'
  /\ \A o \in Usage!Owners : baseline[o] # None => baseline'[o] = baseline[o]
  /\ \A c \in Calls \ {p} : /\ spent'[c] = spent[c]
                            /\ \/ ledger'[<<c, 0>>] = ledger[<<c, 0>>]
                               \/ ledger[<<c, 0>>].status = "known"
  /\ \A c \in Calls : ledger[<<c, 0>>] # Usage!NoEvent => ledger'[<<c, 0>>] # Usage!NoEvent

LEMMA ProjectStays ==
  ASSUME Usage!ConstantsOK, NEW p, DataStep(p), NEW q \in Usage!Task, ProjectFits(q)
  PROVE  ProjectFits(q)'
<1>1. q.owner \in Nat /\ 1 <= q.owner
  BY LedgerConstants DEF Usage!Task
<1>2. q.at \in Projecting \ {"mark"} => Targets[q.owner] \in Usage!Owners
  BY <1>1, LedgerConstants DEF ProjectFits
<1> QED
  BY <1>2, LedgerConstants DEF ProjectFits, DataStep, Projecting

LEMMA CallStays ==
  ASSUME Usage!ConstantsOK, NEW c \in Calls, NEW q \in Usage!Task, CallFits(c, q),
         spent'[c] = spent[c],
         \/ ledger'[<<c, 0>>] = ledger[<<c, 0>>]
         \/ ledger[<<c, 0>>].status = "known"
         \/ q.at \notin {"idle", "calling"},
         ledger[<<c, 0>>] # Usage!NoEvent => ledger'[<<c, 0>>] # Usage!NoEvent
  PROVE  CallFits(c, q)'
BY DEF CallFits, Usage!NoEvent

LEMMA CoreStep ==
  ASSUME Usage!ConstantsOK, Core, NEW p \in Usage!Processes, NEW next, DataStep(p), Usage!Goes(p, next),
         Fits(p, next)'
  PROVE  Core'
<1>1. task' = [task EXCEPT ![p] = next] /\ next \in Usage!Task /\ task \in [Usage!Processes -> Usage!Task]
  BY DEF Usage!Goes, Fits, Core, Usage!TypeOK
<1>2. task' \in [Usage!Processes -> Usage!Task] /\ task'[p] = next
      /\ \A r \in Usage!Processes \ {p} : task'[r] = task[r]
  BY <1>1
<1>3. Usage!TypeOK'
  BY <1>2 DEF Usage!TypeOK, DataStep
<1>4. ASSUME NEW r \in Usage!Processes \ {p} PROVE Fits(r, task[r])'
  <2>1. PICK q \in Usage!Task : q = task[r] /\ task'[r] = q
    BY <1>1, <1>2
  <2>2. Fits(r, q)
    BY <2>1 DEF Core
  <2>3. ProjectFits(q)'
    BY <2>2, ProjectStays DEF Fits
  <2>4. r \in Calls => CallFits(r, q)'
    BY <2>2, CallStays DEF Fits, DataStep
  <2> QED
    BY <2>1, <2>2, <2>3, <2>4 DEF Fits
<1>5. Fits(p, task[p])'
  BY <1>2
<1>6. \A r \in Usage!Processes : Fits(r, task[r])'
  BY <1>4, <1>5
<1> QED
  BY <1>3, <1>6 DEF Core, DataStep

\* Nothing is written to the store of documents.
LEMMA SameData ==
  ASSUME Usage!ConstantsOK, Core, NEW p, UNCHANGED <<spent, ledger, baseline, totals>>,
         faults' \in 0..MaxFaults
  PROVE  DataStep(p)
BY DEF DataStep, Core, Usage!TypeOK, LedgerFits, BaselineFits, Usage!Known

\* Then a process may go where it fits now.
LEMMA SameFits ==
  ASSUME UNCHANGED <<spent, ledger, baseline, totals>>, NEW p, NEW q, Fits(p, q)
  PROVE  Fits(p, q)'
BY DEF Fits, CallFits, ProjectFits, Usage!Known

\* No total changes and nothing more counts: the snapshots stay.
LEMMA SnapshotsStay ==
  ASSUME Usage!ConstantsOK, Core, Snapshots, NEW p \in Usage!Processes, NEW next, Usage!Goes(p, next),
         Usage!Known \subseteq Usage!Known', Usage!Known' \ Usage!Pending' \subseteq Usage!Known \ Usage!Pending,
         totals' = totals, next.at # "write",
         next.at \in Projecting /\ next.ok =>
           \/ next.owner = 1
           \/ task[p].at \in Projecting /\ task[p].ok
              /\ next.owner = task[p].owner /\ next.id = task[p].id
  PROVE  Snapshots'
<1>1. PICK C \in SUBSET SUBSET Usage!Ids :
        /\ Chain(C)
        /\ \A r \in Usage!Processes : Writes(task[r], C)
        /\ \A o \in Usage!Owners : Holds(o, C)
  BY DEF Snapshots
<1>2. /\ task'[p] = next /\ \A r \in Usage!Processes \ {p} : task'[r] = task[r]
  BY DEF Usage!Goes, Core, Usage!TypeOK
<1>3. Chain(C)'
  BY <1>1 DEF Chain
<1>4. ASSUME NEW r \in Usage!Processes PROVE Writes(task[r], C)'
  <2>1. CASE r = p
    BY <1>2, <2>1 DEF Writes
  <2>2. CASE r # p
    BY <1>1, <1>2, <2>2 DEF Writes
  <2> QED
    BY <2>1, <2>2
<1>5. ASSUME NEW o \in Usage!Owners PROVE Holds(o, C)'
  <2>1. PICK S \in C : /\ totals[o] = Legacy[o] + Usage!SumTokens(S)
                       /\ Usage!Known \ Usage!Pending \subseteq S
                       /\ \A r \in Usage!Processes : Counts(task[r], o, S)
    BY <1>1 DEF Holds
  <2>2. Counts(next, o, S)
    <3>1. CASE next.owner = 1
      BY <3>1 DEF Counts
    <3>2. CASE next.owner # 1
      BY <2>1, <3>2 DEF Counts
    <3> QED
      BY <3>1, <3>2
  <2>3. \A r \in Usage!Processes : Counts(task'[r], o, S)
    BY <1>2, <2>1, <2>2
  <2> QED
    BY <2>1, <2>3 DEF Holds, Counts
<1> QED
  BY <1>3, <1>4, <1>5 DEF Snapshots

-----------------------------------------------------------------------------
\* Where an operation that raises sends a process

LEMMA RaisedFits ==
  ASSUME Usage!ConstantsOK, Core, NEW p \in Usage!Processes, task[p].at # "done",
         p = Reconciler => task[p].at # "idle"
  PROVE  /\ Fits(p, Usage!Raised(p))
         /\ Usage!Raised(p).at # "write"
         /\ p \in Calls => Usage!Raised(p).at \notin {"idle", "calling"}
         /\ Usage!Raised(p).at \in Projecting => ~Usage!Raised(p).ok
<1> DEFINE q == task[p]
<1>1. q \in Usage!Task /\ Fits(p, q) /\ q.at # "done"
  BY DEF Core, Fits
<1>2. CASE q.at \in {"owner", "capture", "events", "write"}
  <2> DEFINE next == [q EXCEPT !.at = IF q.owner = Len(Targets) THEN "mark" ELSE "owner",
                               !.owner = q.owner + 1, !.ok = FALSE]
  <2>1. Usage!Raised(p) = next
    BY <1>1, <1>2 DEF Usage!Raised, Usage!NextTarget, Usage!Task
  <2>2. q.owner \in Nat /\ 1 <= q.owner /\ q.owner <= Len(Targets)
    BY <1>1, <1>2, LedgerConstants DEF Usage!Task, Fits, ProjectFits, Projecting
  <2>3. next \in Usage!Task
    <3>1. q.owner + 1 \in 1 .. Len(Targets) + 1
      BY <2>2, LedgerConstants
    <3> QED
      BY <1>1, <3>1 DEF Usage!Task
  <2>4. /\ next.at = (IF q.owner = Len(Targets) THEN "mark" ELSE "owner")
        /\ next.owner = q.owner + 1 /\ next.ok = FALSE /\ next.id = q.id
    BY <1>1 DEF Usage!Task
  <2> HIDE DEF next
  <2>5. ProjectFits(next)
    BY <1>1, <1>2, <2>2, <2>4, LedgerConstants DEF Fits, ProjectFits, Projecting
  <2>6. p \in Calls => CallFits(p, next)
    BY <1>1, <1>2, <2>4 DEF Fits, CallFits, Projecting, Recording
  <2> QED
    BY <1>1, <2>1, <2>3, <2>4, <2>5, <2>6 DEF Fits, Projecting
<1>3. CASE q.at \in {"idle", "calling"}
  <2> DEFINE next == [q EXCEPT !.at = "done"]
  <2>1. Usage!Raised(p) = next
    BY <1>3 DEF Usage!Raised
  <2>2. next \in Usage!Task /\ next.at = "done"
    BY <1>1 DEF Usage!Task
  <2> HIDE DEF next
  <2>3. p # Reconciler
    BY <1>1, <1>3 DEF Fits, Projecting
  <2> QED
    BY <1>1, <2>1, <2>2, <2>3 DEF Fits, CallFits, ProjectFits, Projecting, Recording
<1>4. CASE q.at \in Recording \cup {"mark"}
  <2>1. Usage!Raised(p) = Usage!Retried(p)
    BY <1>4 DEF Usage!Raised, Recording
  <2>2. CASE p = Reconciler
    BY <2>1, <2>2, FreshFits, LedgerConstants DEF Usage!Retried, Fits, ProjectFits, Usage!Fresh, Projecting
  <2>3. CASE p # Reconciler /\ q.attempt < Attempts
    <3> DEFINE next == [Usage!Fresh EXCEPT !.at = "upsert", !.attempt = q.attempt + 1, !.id = <<p, 0>>]
    <3>1. Usage!Raised(p) = next
      BY <2>1, <2>3 DEF Usage!Retried, Usage!EventId
    <3>2. p \in Calls /\ q.attempt \in 0..Attempts
      BY <1>1, <2>3 DEF Usage!Processes, Usage!Task
    <3>3. next \in Usage!Task
      <4>1. q.attempt + 1 \in 0 .. Attempts /\ <<p, 0>> \in Usage!Ids
        BY <2>3, <3>2, LedgerConstants
      <4> QED
        BY <4>1, FreshFits DEF Usage!Task
    <3>4. next.at = "upsert" /\ next.id = <<p, 0>> /\ next.owner = 1
      BY DEF Usage!Fresh
    <3> HIDE DEF next
    <3>5. CallFits(p, next)
      BY <1>1, <1>4, <3>2, <3>4 DEF Fits, CallFits, Recording, Projecting
    <3> QED
      BY <2>3, <3>1, <3>3, <3>4, <3>5 DEF Fits, ProjectFits, Projecting
  <2>4. CASE p # Reconciler /\ ~(q.attempt < Attempts)
    <3> DEFINE next == [q EXCEPT !.at = "done"]
    <3>1. Usage!Raised(p) = next
      BY <2>1, <2>4 DEF Usage!Retried
    <3>2. next \in Usage!Task /\ next.at = "done"
      BY <1>1 DEF Usage!Task
    <3> HIDE DEF next
    <3> QED
      BY <1>1, <2>4, <3>1, <3>2 DEF Fits, CallFits, ProjectFits, Projecting, Recording
  <2> QED
    BY <2>2, <2>3, <2>4
<1> QED
  BY <1>1, <1>2, <1>3, <1>4 DEF Usage!Task, Recording

\* A step that changes no document and starts no write.
LEMMA QuietStep ==
  ASSUME Usage!ConstantsOK, LedgerInv, NEW p \in Usage!Processes, NEW next, Usage!Goes(p, next),
         UNCHANGED <<spent, ledger, baseline, totals>>, faults' \in 0..MaxFaults,
         Fits(p, next), next.at # "write",
         next.at \in Projecting /\ next.ok =>
           \/ next.owner = 1
           \/ task[p].at \in Projecting /\ task[p].ok
              /\ next.owner = task[p].owner /\ next.id = task[p].id
  PROVE  LedgerInv'
<1>1. DataStep(p) /\ Fits(p, next)'
  BY SameData, SameFits DEF LedgerInv
<1>2. Core'
  BY <1>1, CoreStep DEF LedgerInv
<1>3. Usage!Known' = Usage!Known /\ Usage!Pending' = Usage!Pending
  BY DEF Usage!Known, Usage!Pending
<1>4. Snapshots'
  BY <1>3, SnapshotsStay DEF LedgerInv
<1> QED
  BY <1>2, <1>4 DEF LedgerInv

LEMMA LedgerFault ==
  ASSUME Usage!ConstantsOK, LedgerInv, NEW p \in Usage!Processes, Usage!Fault(p)
  PROVE  LedgerInv'
<1>1. /\ task[p].at # "done" /\ (p = Reconciler => task[p].at # "idle")
      /\ Usage!Goes(p, Usage!Raised(p)) /\ UNCHANGED <<spent, ledger, baseline, totals>>
      /\ faults' \in 0..MaxFaults
  BY LedgerConstants DEF Usage!Fault, LedgerInv, Core, Usage!TypeOK
<1>2. /\ Fits(p, Usage!Raised(p)) /\ Usage!Raised(p).at # "write"
      /\ Usage!Raised(p).at \in Projecting => ~Usage!Raised(p).ok
  BY <1>1, RaisedFits DEF LedgerInv, Usage!Fresh
<1> QED
  BY <1>1, <1>2, QuietStep

LEMMA LedgerDie ==
  ASSUME Usage!ConstantsOK, LedgerInv, NEW c \in Calls, Usage!Die(c)
  PROVE  LedgerInv'
<1> DEFINE next == [task[c] EXCEPT !.at = "done"]
<1>1. /\ Usage!Goes(c, next) /\ UNCHANGED <<spent, ledger, baseline, totals>>
      /\ faults' \in 0..MaxFaults /\ c \in Usage!Processes /\ c # Reconciler
  BY LedgerConstants DEF Usage!Die, LedgerInv, Core, Usage!TypeOK, Usage!Processes
<1>2. task[c] \in Usage!Task /\ Fits(c, task[c])
  BY <1>1 DEF LedgerInv, Core, Fits
<1>3. next \in Usage!Task /\ next.at = "done"
  BY <1>2 DEF Usage!Task
<1> HIDE DEF next
<1>4. Fits(c, next)
  BY <1>1, <1>2, <1>3 DEF Fits, CallFits, ProjectFits, Projecting, Recording
<1> QED
  BY <1>1, <1>3, <1>4, QuietStep DEF Projecting

-----------------------------------------------------------------------------
\* The call

\* What a call fits before it enters or changes its own event, it fits after.
LEMMA FitsStay ==
  ASSUME Usage!ConstantsOK, NEW p \in Usage!Processes, DataStep(p), spent' = spent,
         NEW q, Fits(p, q), p \in Calls => q.at \notin {"idle", "calling"}
  PROVE  Fits(p, q)'
<1>1. ProjectFits(q)'
  BY ProjectStays DEF Fits
<1>2. p \in Calls => CallFits(p, q)'
  BY CallStays DEF Fits, DataStep
<1> QED
  BY <1>1, <1>2 DEF Fits

\* A step of a process that leaves the totals alone, and after which nothing
\* more counts.
LEMMA RecordStep ==
  ASSUME Usage!ConstantsOK, LedgerInv, NEW p \in Usage!Processes, NEW next, Usage!Goes(p, next),
         DataStep(p), Fits(p, next)', totals' = totals,
         Usage!Known' \ Usage!Pending' \subseteq Usage!Known \ Usage!Pending,
         next.at # "write", next.at \in Projecting /\ next.ok => next.owner = 1
  PROVE  LedgerInv'
<1>1. Core'
  BY CoreStep DEF LedgerInv
<1>2. Snapshots'
  BY SnapshotsStay DEF LedgerInv, DataStep
<1> QED
  BY <1>1, <1>2 DEF LedgerInv

LEMMA RaisesCore ==
  ASSUME Usage!ConstantsOK, LedgerInv, NEW p \in Usage!Processes, task[p].at # "done",
         p = Reconciler => task[p].at # "idle",
         Usage!Goes(p, Usage!Raised(p)), DataStep(p), spent' = spent
  PROVE  Core'
<1>1. PICK next : next = Usage!Raised(p)
  OBVIOUS
<1>2. Fits(p, next) /\ (p \in Calls => next.at \notin {"idle", "calling"})
  BY <1>1, RaisedFits DEF LedgerInv
<1>3. Fits(p, next)'
  BY <1>2, FitsStay
<1> QED
  BY <1>1, <1>3, CoreStep DEF LedgerInv

LEMMA RaisesStep ==
  ASSUME Usage!ConstantsOK, LedgerInv, NEW p \in Usage!Processes, task[p].at # "done",
         p = Reconciler => task[p].at # "idle",
         Usage!Goes(p, Usage!Raised(p)), DataStep(p), spent' = spent, totals' = totals,
         Usage!Known' \ Usage!Pending' \subseteq Usage!Known \ Usage!Pending
  PROVE  LedgerInv'
<1>1. Usage!Raised(p).at # "write" /\ (Usage!Raised(p).at \in Projecting => ~Usage!Raised(p).ok)
  BY RaisedFits DEF LedgerInv
<1>2. Snapshots'
  BY <1>1, SnapshotsStay DEF LedgerInv, DataStep
<1> QED
  BY <1>2, RaisesCore DEF LedgerInv

\* A call enters an event under its own id that was not known.
LEMMA EnterStep ==
  ASSUME Usage!ConstantsOK, LedgerInv, NEW c \in Calls, NEW event \in Usage!Event,
         ledger' = [ledger EXCEPT ![<<c, 0>>] = event],
         ledger[<<c, 0>>].status # "known", event # Usage!NoEvent,
         event.pending <=> event.status = "known",
         event.status = "known" => spent'[c] = "known",
         spent' \in [Calls -> Usage!Reports],
         \A d \in Calls \ {c} : spent'[d] = spent[d],
         UNCHANGED <<baseline, totals>>, faults' \in 0..MaxFaults
  PROVE  DataStep(c) /\ Usage!Known' \ Usage!Pending' \subseteq Usage!Known \ Usage!Pending
<1>1. /\ <<c, 0>> \in Usage!Ids /\ ledger \in [Usage!Ids -> Usage!Event] /\ LedgerFits /\ BaselineFits
      /\ baseline \in [Usage!Owners -> Nat \cup {None}] /\ totals \in [Usage!Owners -> Nat]
  BY LedgerConstants DEF LedgerInv, Core, Usage!TypeOK
<1>2. /\ ledger' \in [Usage!Ids -> Usage!Event] /\ ledger'[<<c, 0>>] = event
      /\ \A i \in Usage!Ids \ {<<c, 0>>} : ledger'[i] = ledger[i]
  BY <1>1
<1>3. LedgerFits'
  <2> SUFFICES ASSUME NEW i \in Usage!Ids
               PROVE  /\ ledger'[i].pending => ledger'[i].status = "known"
                      /\ ledger'[i].status = "known" => i[2] = 0 /\ spent'[i[1]] = "known"
    BY DEF LedgerFits
  <2>1. CASE i = <<c, 0>>
    BY <1>2, <2>1
  <2>2. CASE i # <<c, 0>>
    <3>1. i[1] \in Calls /\ i = <<i[1], i[2]>>
      BY DEF Usage!Ids
    <3>2. ledger[i].status = "known" => i[2] = 0 /\ i[1] # c
      BY <1>1, <2>2, <3>1 DEF LedgerFits
    <3> QED
      BY <1>1, <1>2, <2>2, <3>1, <3>2 DEF LedgerFits
  <2> QED
    BY <2>1, <2>2
<1>4. Usage!Known \subseteq Usage!Known' /\ Usage!Known' \ Usage!Pending' \subseteq Usage!Known \ Usage!Pending
  BY <1>1, <1>2 DEF Usage!Known, Usage!Pending
<1>5. BaselineFits'
  BY <1>1 DEF BaselineFits
<1>6. \A d \in Calls \ {c} : ledger'[<<d, 0>>] = ledger[<<d, 0>>]
  BY <1>2, LedgerConstants
<1>7. \A d \in Calls : ledger[<<d, 0>>] # Usage!NoEvent => ledger'[<<d, 0>>] # Usage!NoEvent
  BY <1>2, <1>6
<1> QED
  BY <1>1, <1>2, <1>3, <1>4, <1>5, <1>6, <1>7 DEF DataStep

LEMMA CallTask ==
  ASSUME Usage!ConstantsOK, LedgerInv, NEW c \in Calls
  PROVE  /\ task[c] \in Usage!Task /\ CallFits(c, task[c]) /\ ProjectFits(task[c])
         /\ c \in Usage!Processes /\ c # Reconciler /\ <<c, 0>> \in Usage!Ids
         /\ ledger \in [Usage!Ids -> Usage!Event] /\ spent \in [Calls -> Usage!Reports]
BY LedgerConstants DEF LedgerInv, Core, Usage!TypeOK, Fits, Usage!Processes

\* A step that only reads.
LEMMA ReadStep ==
  ASSUME Usage!ConstantsOK, LedgerInv, NEW c \in Calls, NEW to,
         task[c].at \in {"idle", "existing", "stored"},
         Usage!Goes(c, [task[c] EXCEPT !.at = to]), UNCHANGED <<spent, ledger, baseline, totals, faults>>,
         \/ to \in {"stored", "finalize", "done"} /\ task[c].at # "idle"
         \/ to = "owner" /\ task[c].at = "stored" /\ ledger[task[c].id].status = "known"
         \/ to = "calling" /\ task[c].at = "idle" /\ c \notin Tracked
  PROVE  LedgerInv'
<1> DEFINE next == [task[c] EXCEPT !.at = to]
<1>1. /\ task[c] \in Usage!Task /\ CallFits(c, task[c]) /\ ProjectFits(task[c])
      /\ c \in Usage!Processes /\ c # Reconciler /\ <<c, 0>> \in Usage!Ids
  BY CallTask
<1>2. next \in Usage!Task /\ next.at = to /\ next.id = task[c].id /\ next.owner = task[c].owner
  BY <1>1 DEF Usage!Task
<1> HIDE DEF next
<1>3. CallFits(c, next)
  BY <1>1, <1>2 DEF CallFits, Recording, Projecting, Usage!NoEvent
<1>4. ProjectFits(next)
  BY <1>1, <1>2, LedgerConstants DEF ProjectFits, CallFits, Recording, Projecting, Usage!Known
<1>5. Fits(c, next)
  BY <1>1, <1>2, <1>3, <1>4 DEF Fits
<1>6. next.at # "write" /\ (next.at \in Projecting => next.owner = 1)
  BY <1>1, <1>2 DEF CallFits, Recording, Projecting
<1>7. faults' \in 0..MaxFaults
  BY DEF LedgerInv, Core, Usage!TypeOK
<1> QED
  BY <1>1, <1>5, <1>6, <1>7, QuietStep DEF next

LEMMA LedgerReads ==
  ASSUME Usage!ConstantsOK, LedgerInv, NEW c \in Calls, Usage!Call(c) \/ Usage!ReadExisting(c) \/ Usage!ReadStored(c)
  PROVE  LedgerInv'
<1>1. CASE Usage!Call(c)
  BY <1>1, ReadStep DEF Usage!Call
<1>2. CASE Usage!ReadExisting(c)
  BY <1>2, ReadStep DEF Usage!ReadExisting
<1>3. CASE Usage!ReadStored(c)
  BY <1>3, ReadStep DEF Usage!ReadStored
<1> QED
  BY <1>1, <1>2, <1>3

LEMMA ReturnsWhere ==
  ASSUME Usage!ConstantsOK, LedgerInv, NEW p, NEW next, Usage!Returns(p, next)
  PROVE  faults' \in 0..MaxFaults /\ (Usage!Goes(p, next) \/ Usage!Goes(p, Usage!Raised(p)))
BY LedgerConstants DEF Usage!Returns, LedgerInv, Core, Usage!TypeOK

LEMMA LedgerOpen ==
  ASSUME Usage!ConstantsOK, LedgerInv, NEW c \in Calls, Usage!Open(c)
  PROVE  LedgerInv'
<1>1. /\ task[c] \in Usage!Task /\ CallFits(c, task[c]) /\ ProjectFits(task[c])
      /\ c \in Usage!Processes /\ c # Reconciler /\ <<c, 0>> \in Usage!Ids
      /\ ledger \in [Usage!Ids -> Usage!Event] /\ spent \in [Calls -> Usage!Reports]
  BY CallTask
<1>2. task[c].at = "idle" /\ ledger[<<c, 0>>] = Usage!NoEvent /\ spent[c] = "none"
  BY <1>1 DEF Usage!Open, CallFits
<1>3. PICK event \in Usage!Event : event = [status |-> "started", pending |-> FALSE]
  BY DEF Usage!Event
<1>4. /\ ledger' = [ledger EXCEPT ![<<c, 0>>] = event] /\ UNCHANGED <<spent, baseline, totals>>
      /\ faults' \in 0..MaxFaults
  <2>1. ledger' = [ledger EXCEPT ![<<c, 0>>].status = "started"]
    BY DEF Usage!Open, Usage!EventId
  <2>2. [Usage!NoEvent EXCEPT !.status = "started"] = event
    <3>1. Usage!NoEvent \in Usage!Event /\ [Usage!NoEvent EXCEPT !.status = "started"] \in Usage!Event
      BY DEF Usage!NoEvent, Usage!Event
    <3> QED
      BY <1>3, <3>1 DEF Usage!NoEvent, Usage!Event
  <2> QED
    BY <1>2, <2>1, <2>2, ReturnsWhere DEF Usage!Open
<1>5. DataStep(c) /\ Usage!Known' \ Usage!Pending' \subseteq Usage!Known \ Usage!Pending
  <2>1. event # Usage!NoEvent /\ ledger[<<c, 0>>].status # "known"
    BY <1>2, <1>3 DEF Usage!NoEvent
  <2> QED
    BY <1>1, <1>3, <1>4, <2>1, EnterStep
<1>6. CASE Usage!Goes(c, [task[c] EXCEPT !.at = "calling"])
  <2>1. PICK next \in Usage!Task : next = [task[c] EXCEPT !.at = "calling"]
    BY <1>1 DEF Usage!Task
  <2>2. next.at = "calling"
    BY <1>1, <2>1 DEF Usage!Task
  <2>3. ledger'[<<c, 0>>] = event
    BY <1>1, <1>4
  <2>4. next.owner = 1
    BY <1>1, <1>2, <2>1 DEF ProjectFits, Usage!Task
  <2>5. CallFits(c, next)' /\ ProjectFits(next)'
    BY <1>2, <1>3, <1>4, <2>2, <2>3, <2>4 DEF CallFits, ProjectFits, Recording, Projecting, Usage!NoEvent
  <2>6. Fits(c, next)'
    BY <1>1, <2>1, <2>5 DEF Fits
  <2> QED
    BY <1>1, <1>4, <1>5, <1>6, <2>1, <2>2, <2>6, RecordStep DEF Projecting
<1>7. CASE Usage!Goes(c, Usage!Raised(c))
  BY <1>1, <1>2, <1>4, <1>5, <1>7, RaisesStep
<1> QED
  BY <1>6, <1>7 DEF Usage!Open, Usage!Returns

\* The provider answers.
LEMMA LedgerAnswer ==
  ASSUME Usage!ConstantsOK, LedgerInv, NEW c \in Calls, Usage!Answer(c)
  PROVE  LedgerInv'
<1>1. /\ task[c] \in Usage!Task /\ CallFits(c, task[c]) /\ ProjectFits(task[c])
      /\ c \in Usage!Processes /\ c # Reconciler /\ <<c, 0>> \in Usage!Ids
      /\ ledger \in [Usage!Ids -> Usage!Event] /\ spent \in [Calls -> Usage!Reports]
  BY CallTask
<1>2. /\ spent[c] = "none" /\ ledger[<<c, 0>>].status # "known" /\ ~ledger[<<c, 0>>].pending
      /\ c \in Tracked => ledger[<<c, 0>>] # Usage!NoEvent
      /\ UNCHANGED <<baseline, totals, faults>>
  BY <1>1 DEF Usage!Answer, CallFits
<1>3. PICK report \in {"unknown", "known"} :
        /\ spent' = [spent EXCEPT ![c] = report]
        /\ IF report = "known" \/ c \notin Tracked
             THEN /\ Usage!Goes(c, [task[c] EXCEPT !.at = "upsert", !.attempt = 1,
                                             !.id = Usage!EventId(c, 1)])
                  /\ UNCHANGED ledger
             ELSE /\ Usage!Goes(c, [task[c] EXCEPT !.at = "done"])
                  /\ \/ ledger' = [ledger EXCEPT ![Usage!EventId(c, 1)].status = "unknown"]
                     \/ UNCHANGED ledger
  BY DEF Usage!Answer
<1>4. /\ spent' \in [Calls -> Usage!Reports] /\ spent'[c] = report
      /\ \A d \in Calls \ {c} : spent'[d] = spent[d]
      /\ faults' \in 0..MaxFaults
  BY <1>1, <1>2, <1>3 DEF Usage!Reports, LedgerInv, Core, Usage!TypeOK
<1>5. ASSUME UNCHANGED ledger PROVE DataStep(c) /\ Usage!Known' \ Usage!Pending' \subseteq Usage!Known \ Usage!Pending
  <2>1. Usage!Known' = Usage!Known /\ Usage!Pending' = Usage!Pending
    BY <1>5 DEF Usage!Known, Usage!Pending
  <2>2. LedgerFits'
    <3> SUFFICES ASSUME NEW i \in Usage!Ids
                 PROVE  /\ ledger[i].pending => ledger[i].status = "known"
                        /\ ledger[i].status = "known" => i[2] = 0 /\ spent'[i[1]] = "known"
      BY <1>5 DEF LedgerFits
    <3>1. i[1] \in Calls /\ i = <<i[1], i[2]>>
      BY DEF Usage!Ids
    <3>2. ledger[i].status = "known" => i[2] = 0 /\ spent[i[1]] = "known"
      BY DEF LedgerInv, Core, LedgerFits
    <3> QED
      BY <1>2, <1>4, <3>1, <3>2 DEF LedgerInv, Core, LedgerFits
  <2>3. BaselineFits'
    BY <1>2 DEF LedgerInv, Core, BaselineFits
  <2> QED
    BY <1>2, <1>4, <1>5, <2>1, <2>2, <2>3 DEF DataStep, LedgerInv, Core, Usage!TypeOK
<1>6. CASE report = "known" \/ c \notin Tracked
  <2>1. 1 \in 0..Attempts
    BY LedgerConstants
  <2>2. PICK next \in Usage!Task :
          next = [task[c] EXCEPT !.at = "upsert", !.attempt = 1, !.id = <<c, 0>>]
    BY <1>1, <2>1 DEF Usage!Task
  <2>3. /\ next.at = "upsert" /\ next.id = <<c, 0>> /\ next.owner = task[c].owner
        /\ Usage!Goes(c, next) /\ UNCHANGED ledger
    BY <1>1, <1>3, <1>6, <2>2 DEF Usage!Task, Usage!EventId
  <2>4. task[c].owner = 1
    BY <1>1 DEF Usage!Answer, CallFits, ProjectFits, Recording
  <2>5. CallFits(c, next)' /\ ProjectFits(next)'
    BY <1>2, <1>4, <2>3, <2>4 DEF CallFits, ProjectFits, Recording, Projecting
  <2>6. Fits(c, next)'
    BY <1>1, <2>2, <2>5 DEF Fits
  <2> QED
    BY <1>1, <1>2, <1>5, <2>3, <2>6, RecordStep DEF Projecting
<1>7. CASE ~(report = "known" \/ c \notin Tracked)
  <2>1. PICK next \in Usage!Task : next = [task[c] EXCEPT !.at = "done"]
    BY <1>1 DEF Usage!Task
  <2>2. next.at = "done" /\ Usage!Goes(c, next) /\ report = "unknown"
    BY <1>1, <1>3, <1>7, <2>1 DEF Usage!Task
  <2>3. CASE UNCHANGED ledger
    <3>1. CallFits(c, next)' /\ ProjectFits(next)'
      BY <1>2, <2>2, <2>3 DEF CallFits, ProjectFits, Recording, Projecting
    <3>2. Fits(c, next)'
      BY <1>1, <2>1, <3>1 DEF Fits
    <3> QED
      BY <1>1, <1>2, <1>5, <2>2, <2>3, <3>2, RecordStep DEF Projecting
  <2>4. CASE ledger' = [ledger EXCEPT ![Usage!EventId(c, 1)].status = "unknown"]
    <3>1. ledger[<<c, 0>>] \in Usage!Event
      BY <1>1
    <3>2. PICK event \in Usage!Event : event = [ledger[<<c, 0>>] EXCEPT !.status = "unknown"]
      BY <3>1 DEF Usage!Event
    <3>3. event.status = "unknown" /\ ~event.pending
      BY <1>2, <3>1, <3>2 DEF Usage!Event
    <3>4. ledger' = [ledger EXCEPT ![<<c, 0>>] = event] /\ ledger'[<<c, 0>>] = event
      BY <1>1, <2>4, <3>2 DEF Usage!EventId
    <3>5. event # Usage!NoEvent
      BY <3>3 DEF Usage!NoEvent
    <3>6. DataStep(c) /\ Usage!Known' \ Usage!Pending' \subseteq Usage!Known \ Usage!Pending
      BY <1>2, <1>4, <3>3, <3>4, <3>5, EnterStep
    <3>7. CallFits(c, next)' /\ ProjectFits(next)'
      BY <2>2, <3>4, <3>5 DEF CallFits, ProjectFits, Recording, Projecting
    <3>8. Fits(c, next)'
      BY <1>1, <2>1, <3>7 DEF Fits
    <3> QED
      BY <1>1, <1>2, <2>2, <3>6, <3>8, RecordStep DEF Projecting
  <2> QED
    BY <1>3, <1>7, <2>3, <2>4
<1> QED
  BY <1>6, <1>7

\* The event is created or finalized once.
LEMMA StoreStep ==
  ASSUME Usage!ConstantsOK, LedgerInv, NEW c \in Calls, NEW to \in {"existing", "stored"},
         task[c].at \in {"upsert", "finalize"}, Usage!Returns(c, [task[c] EXCEPT !.at = to]),
         \/ /\ ledger[<<c, 0>>].status # "known"
            /\ ledger' = [ledger EXCEPT ![<<c, 0>>] = Usage!Entry(c)]
         \/ UNCHANGED ledger,
         UNCHANGED <<spent, baseline, totals>>
  PROVE  LedgerInv'
<1>1. /\ task[c] \in Usage!Task /\ CallFits(c, task[c]) /\ ProjectFits(task[c])
      /\ c \in Usage!Processes /\ c # Reconciler /\ <<c, 0>> \in Usage!Ids
      /\ ledger \in [Usage!Ids -> Usage!Event] /\ spent \in [Calls -> Usage!Reports]
  BY CallTask
<1>2. /\ faults' \in 0..MaxFaults
      /\ Usage!Goes(c, [task[c] EXCEPT !.at = to]) \/ Usage!Goes(c, Usage!Raised(c))
  BY ReturnsWhere
<1>3. spent[c] # "none" /\ task[c].id = <<c, 0>> /\ task[c].owner = 1
  BY <1>1 DEF CallFits, Recording
<1>4. DataStep(c) /\ Usage!Known' \ Usage!Pending' \subseteq Usage!Known \ Usage!Pending
  <2>1. CASE UNCHANGED ledger
    BY <1>2, <2>1, SameData DEF LedgerInv, Usage!Known, Usage!Pending
  <2>2. CASE /\ ledger[<<c, 0>>].status # "known"
             /\ ledger' = [ledger EXCEPT ![<<c, 0>>] = Usage!Entry(c)]
    <3>1. PICK event \in Usage!Event : event = Usage!Entry(c)
      BY <1>1 DEF Usage!Entry, Usage!Event, Usage!Reports
    <3>2. event # Usage!NoEvent /\ (event.pending <=> event.status = "known") /\ event.status = spent[c]
      BY <1>3, <3>1 DEF Usage!Entry, Usage!NoEvent
    <3> QED
      BY <1>1, <1>2, <2>2, <3>1, <3>2, EnterStep
  <2> QED
    BY <2>1, <2>2
<1>5. CASE Usage!Goes(c, [task[c] EXCEPT !.at = to])
  <2>1. PICK next \in Usage!Task : next = [task[c] EXCEPT !.at = to]
    BY <1>1 DEF Usage!Task
  <2>2. next.at = to /\ next.id = <<c, 0>> /\ next.owner = 1 /\ Usage!Goes(c, next)
    BY <1>1, <1>3, <1>5, <2>1 DEF Usage!Task
  <2>3. Fits(c, next)
    BY <1>1, <1>3, <2>1, <2>2 DEF Fits, CallFits, ProjectFits, Recording, Projecting
  <2>4. Fits(c, next)'
    BY <1>1, <1>4, <2>2, <2>3, FitsStay
  <2> QED
    BY <1>1, <1>4, <2>2, <2>4, RecordStep DEF Projecting
<1>6. CASE Usage!Goes(c, Usage!Raised(c))
  BY <1>1, <1>4, <1>6, RaisesStep
<1> QED
  BY <1>2, <1>5, <1>6

LEMMA LedgerStores ==
  ASSUME Usage!ConstantsOK, LedgerInv, NEW c \in Calls, Usage!Upsert(c) \/ Usage!Finalize(c)
  PROVE  LedgerInv'
<1>1. /\ CallFits(c, task[c]) /\ ledger \in [Usage!Ids -> Usage!Event] /\ <<c, 0>> \in Usage!Ids
  BY CallTask
<1>2. CASE Usage!Upsert(c)
  <2>1. task[c].id = <<c, 0>>
    BY <1>1, <1>2 DEF Usage!Upsert, CallFits, Recording
  <2>2. ledger' = [ledger EXCEPT ![<<c, 0>>] =
                     IF ledger[<<c, 0>>] = Usage!NoEvent THEN Usage!Entry(c) ELSE ledger[<<c, 0>>]]
    BY <1>2, <2>1 DEF Usage!Upsert
  <2>3. \/ ledger[<<c, 0>>].status # "known" /\ ledger' = [ledger EXCEPT ![<<c, 0>>] = Usage!Entry(c)]
        \/ UNCHANGED ledger
    <3>1. CASE ledger[<<c, 0>>] = Usage!NoEvent
      BY <2>2, <3>1 DEF Usage!NoEvent
    <3>2. CASE ledger[<<c, 0>>] # Usage!NoEvent
      BY <1>1, <2>2, <3>2
    <3> QED
      BY <3>1, <3>2
  <2> QED
    BY <1>2, <2>3, StoreStep DEF Usage!Upsert
<1>3. CASE Usage!Finalize(c)
  <2>1. task[c].id = <<c, 0>>
    BY <1>1, <1>3 DEF Usage!Finalize, CallFits, Recording
  <2>2. ledger' = [ledger EXCEPT ![<<c, 0>>] =
                     IF ledger[<<c, 0>>].status # "known" THEN Usage!Entry(c) ELSE ledger[<<c, 0>>]]
    BY <1>3, <2>1 DEF Usage!Finalize
  <2>3. \/ ledger[<<c, 0>>].status # "known" /\ ledger' = [ledger EXCEPT ![<<c, 0>>] = Usage!Entry(c)]
        \/ UNCHANGED ledger
    BY <1>1, <2>2
  <2> QED
    BY <1>3, <2>3, StoreStep DEF Usage!Finalize
<1> QED
  BY <1>2, <1>3

-----------------------------------------------------------------------------
\* The projection

LEMMA ProjectTask ==
  ASSUME Usage!ConstantsOK, LedgerInv, NEW p \in Usage!Processes, task[p].at \in Projecting
  PROVE  /\ task[p] \in Usage!Task /\ Fits(p, task[p]) /\ task[p].id \in Usage!Known
         /\ task[p].owner \in Nat /\ 1 <= task[p].owner
         /\ p \in Calls => spent[p] # "none" /\ task[p].id = <<p, 0>>
         /\ task[p].at # "mark" => task[p].owner <= Len(Targets) /\ Usage!Target(p) \in Usage!Owners
         /\ ledger \in [Usage!Ids -> Usage!Event] /\ totals \in [Usage!Owners -> Nat]
         /\ baseline \in [Usage!Owners -> Nat \cup {None}]
<1>1. task[p] \in Usage!Task /\ Fits(p, task[p])
  BY DEF LedgerInv, Core, Fits
<1>2. task[p].owner \in Nat /\ 1 <= task[p].owner
  BY <1>1, LedgerConstants DEF Usage!Task
<1>3. task[p].at # "mark" => task[p].owner <= Len(Targets)
  BY <1>1 DEF Fits, ProjectFits
<1> QED
  BY <1>1, <1>2, <1>3, LedgerConstants
  DEF LedgerInv, Core, Usage!TypeOK, Fits, ProjectFits, CallFits, Usage!Target

\* A process that goes on in a projection still fits.
LEMMA ProjectGoes ==
  ASSUME NEW p \in Usage!Processes, Fits(p, task[p]), task[p].at \in Projecting,
         NEW next \in Usage!Task, next.id = task[p].id, next.at \in Projecting, ProjectFits(next)
  PROVE  Fits(p, next)
BY DEF Fits, CallFits, Recording, Projecting

LEMMA LedgerReadOwner ==
  ASSUME Usage!ConstantsOK, LedgerInv, NEW p \in Usage!Processes, Usage!ReadOwner(p)
  PROVE  LedgerInv'
<1>1. task[p].at = "owner" /\ task[p].at \in Projecting
  BY DEF Usage!ReadOwner, Projecting
<1>2. /\ task[p] \in Usage!Task /\ Fits(p, task[p]) /\ task[p].id \in Usage!Known
      /\ task[p].owner <= Len(Targets) /\ Usage!Target(p) \in Usage!Owners
      /\ totals \in [Usage!Owners -> Nat]
  BY <1>1, ProjectTask
<1>3. PICK next \in Usage!Task : next = [task[p] EXCEPT !.at = "capture", !.seen = totals[Usage!Target(p)]]
  BY <1>2 DEF Usage!Task
<1>4. /\ next.at = "capture" /\ next.id = task[p].id /\ next.owner = task[p].owner
      /\ next.seen = totals[Usage!Target(p)] /\ next.ok = task[p].ok
  BY <1>2, <1>3 DEF Usage!Task
<1>5. ProjectFits(next)
  BY <1>2, <1>4 DEF ProjectFits, Projecting, Usage!Target, LedgerInv, Core, BaselineFits
<1>6. Fits(p, next)
  BY <1>1, <1>2, <1>4, <1>5, ProjectGoes DEF Projecting
<1> QED
  BY <1>1, <1>3, <1>4, <1>6, QuietStep DEF Usage!ReadOwner, LedgerInv, Core, Usage!TypeOK

LEMMA LedgerCapture ==
  ASSUME Usage!ConstantsOK, LedgerInv, NEW p \in Usage!Processes, Usage!CaptureBaseline(p)
  PROVE  LedgerInv'
<1> DEFINE o == Usage!Target(p)
<1>1. task[p].at = "capture" /\ task[p].at \in Projecting
  BY DEF Usage!CaptureBaseline, Projecting
<1>2. /\ task[p] \in Usage!Task /\ Fits(p, task[p]) /\ task[p].id \in Usage!Known
      /\ task[p].owner <= Len(Targets) /\ o \in Usage!Owners
      /\ p \in Calls => spent[p] # "none" /\ task[p].id = <<p, 0>>
      /\ ledger \in [Usage!Ids -> Usage!Event] /\ totals \in [Usage!Owners -> Nat]
      /\ baseline \in [Usage!Owners -> Nat \cup {None}]
  BY <1>1, ProjectTask
<1>3. /\ baseline' = [baseline EXCEPT ![o] = IF baseline[o] = None THEN task[p].seen ELSE baseline[o]]
      /\ UNCHANGED <<spent, ledger, totals>> /\ faults' \in 0..MaxFaults
      /\ Usage!Goes(p, [task[p] EXCEPT !.at = "events"]) \/ Usage!Goes(p, Usage!Raised(p))
  BY ReturnsWhere DEF Usage!CaptureBaseline
<1>4. task[p].seen \in Nat /\ (baseline[o] = None => task[p].seen = Legacy[o])
  BY <1>1, <1>2 DEF Fits, ProjectFits, Usage!Target, Usage!Task
<1>5. /\ baseline' \in [Usage!Owners -> Nat \cup {None}] /\ baseline'[o] # None
      /\ \A x \in Usage!Owners : baseline[x] # None => baseline'[x] = baseline[x]
      /\ \A x \in Usage!Owners \ {o} : baseline'[x] = baseline[x]
  BY <1>2, <1>3, <1>4, LedgerConstants
<1>6. BaselineFits'
  <2>1. baseline'[o] = Legacy[o]
    BY <1>2, <1>3, <1>4 DEF LedgerInv, Core, BaselineFits
  <2> QED
    BY <1>3, <1>5, <2>1 DEF LedgerInv, Core, BaselineFits
<1>7. Usage!Known' = Usage!Known /\ Usage!Pending' = Usage!Pending /\ LedgerFits'
  BY <1>3 DEF Usage!Known, Usage!Pending, LedgerInv, Core, LedgerFits
<1>8. DataStep(p)
  BY <1>2, <1>3, <1>5, <1>6, <1>7 DEF DataStep, LedgerInv, Core, Usage!TypeOK
<1>9. CASE Usage!Goes(p, [task[p] EXCEPT !.at = "events"])
  <2>1. PICK next \in Usage!Task : next = [task[p] EXCEPT !.at = "events"]
    BY <1>2 DEF Usage!Task
  <2>2. /\ next.at = "events" /\ next.id = task[p].id /\ next.owner = task[p].owner
        /\ next.ok = task[p].ok /\ Usage!Goes(p, next)
    BY <1>2, <1>9, <2>1 DEF Usage!Task
  <2>3. ProjectFits(next)'
    BY <1>2, <1>5, <1>7, <2>2 DEF ProjectFits, Projecting, Usage!Target
  <2>4. p \in Calls => CallFits(p, next)'
    BY <1>2, <1>3, <2>2 DEF Fits, CallFits, Recording, Projecting
  <2>5. Fits(p, next)'
    BY <2>1, <2>2, <2>3, <2>4 DEF Fits, Projecting
  <2>6. Core'
    BY <1>8, <2>2, <2>5, CoreStep DEF LedgerInv
  <2>7. Snapshots'
    BY <1>1, <1>3, <1>7, <2>2, SnapshotsStay DEF LedgerInv
  <2> QED
    BY <2>6, <2>7 DEF LedgerInv
<1>10. CASE Usage!Goes(p, Usage!Raised(p))
  BY <1>1, <1>3, <1>7, <1>8, <1>10, RaisesStep
<1> QED
  BY <1>3, <1>9, <1>10

\* A projection reads the ledger: what it is going to write are the tokens of
\* the largest set of known events so far.
LEMMA LedgerReadEvents ==
  ASSUME Usage!ConstantsOK, LedgerInv, NEW p \in Usage!Processes, Usage!ReadEvents(p)
  PROVE  LedgerInv'
<1> DEFINE o == Usage!Target(p)
           sum == baseline[o] + Usage!SumTokens(Usage!Known)
<1>1. task[p].at = "events" /\ task[p].at \in Projecting
  BY DEF Usage!ReadEvents, Projecting
<1>2. /\ task[p] \in Usage!Task /\ Fits(p, task[p]) /\ task[p].id \in Usage!Known
      /\ task[p].owner <= Len(Targets) /\ o \in Usage!Owners
      /\ baseline \in [Usage!Owners -> Nat \cup {None}]
  BY <1>1, ProjectTask
<1>3. baseline[o] # None
  BY <1>1, <1>2 DEF Fits, ProjectFits, Usage!Target
<1>4. baseline[o] = Legacy[o] /\ Legacy[o] \in Nat
  BY <1>2, <1>3, LedgerConstants DEF LedgerInv, Core, BaselineFits
<1>5. Usage!Known \in SUBSET Usage!Ids /\ Usage!SumTokens(Usage!Known) \in Nat
  BY TokensGrow DEF Usage!Known
<1>6. sum \in Nat /\ sum = Legacy[o] + Usage!SumTokens(Usage!Known)
  BY <1>4, <1>5
<1>7. PICK next \in Usage!Task : next = [task[p] EXCEPT !.at = "write", !.sum = sum]
  BY <1>2, <1>6 DEF Usage!Task
<1>8. /\ next.at = "write" /\ next.id = task[p].id /\ next.owner = task[p].owner
      /\ next.sum = sum /\ next.ok = task[p].ok
  BY <1>2, <1>7 DEF Usage!Task
<1>9. /\ Usage!Goes(p, next) /\ UNCHANGED <<spent, ledger, baseline, totals, faults>>
  BY <1>7 DEF Usage!ReadEvents
<1>10. ProjectFits(next)
  BY <1>2, <1>3, <1>8 DEF ProjectFits, Projecting, Usage!Target
<1>11. Fits(p, next)
  BY <1>1, <1>2, <1>8, <1>10, ProjectGoes DEF Projecting
<1>12. DataStep(p) /\ Fits(p, next)'
  BY <1>9, <1>11, SameData, SameFits DEF LedgerInv, Core, Usage!TypeOK
<1>13. Core'
  BY <1>9, <1>12, CoreStep DEF LedgerInv
<1>14. Snapshots'
  <2>1. PICK C \in SUBSET SUBSET Usage!Ids :
          /\ Chain(C)
          /\ \A r \in Usage!Processes : Writes(task[r], C)
          /\ \A x \in Usage!Owners : Holds(x, C)
    BY DEF LedgerInv, Snapshots
  <2>2. PICK D \in SUBSET SUBSET Usage!Ids : D = C \cup {Usage!Known}
    BY <1>5
  <2>3. /\ task'[p] = next /\ \A r \in Usage!Processes \ {p} : task'[r] = task[r]
        /\ Usage!Known' = Usage!Known /\ Usage!Pending' = Usage!Pending
    BY <1>9 DEF Usage!Goes, LedgerInv, Core, Usage!TypeOK, Usage!Known, Usage!Pending
  <2>4. Chain(D)'
    BY <2>1, <2>2, <2>3 DEF Chain
  <2>5. Writes(next, D)
    BY <1>2, <1>6, <1>8, <2>2 DEF Writes, Usage!Target
  <2>6. \A r \in Usage!Processes : Writes(task'[r], D)
    BY <2>1, <2>2, <2>3, <2>5 DEF Writes
  <2>7. ASSUME NEW x \in Usage!Owners PROVE Holds(x, D)'
    <3>1. PICK S \in C : /\ totals[x] = Legacy[x] + Usage!SumTokens(S)
                         /\ Usage!Known \ Usage!Pending \subseteq S
                         /\ \A r \in Usage!Processes : Counts(task[r], x, S)
      BY <2>1 DEF Holds
    <3>2. Counts(next, x, S)
      BY <1>1, <1>8, <3>1 DEF Counts
    <3>3. \A r \in Usage!Processes : Counts(task'[r], x, S)
      BY <2>3, <3>1, <3>2
    <3> QED
      BY <1>9, <2>2, <2>3, <3>1, <3>3 DEF Holds, Counts
  <2> QED
    BY <2>4, <2>6, <2>7 DEF Snapshots, Writes
<1> QED
  BY <1>13, <1>14 DEF LedgerInv

\* Where a process goes when a target is done.
LEMMA NextFits ==
  ASSUME Usage!ConstantsOK, LedgerInv, NEW p \in Usage!Processes, task[p].at = "write"
  PROVE  LET next == Usage!NextTarget(p, TRUE) IN
         /\ next \in Usage!Task /\ Fits(p, next)
         /\ next.at \in {"owner", "mark"} /\ next.id = task[p].id
         /\ next.owner = task[p].owner + 1 /\ next.ok = task[p].ok
<1> DEFINE q == task[p]
           next == [q EXCEPT !.at = IF q.owner = Len(Targets) THEN "mark" ELSE "owner",
                             !.owner = q.owner + 1, !.ok = q.ok]
<1>0. q.at = "write" /\ q.at \in Projecting
  BY DEF Projecting
<1>1. /\ q \in Usage!Task /\ Fits(p, q) /\ q.id \in Usage!Known /\ q.owner \in Nat /\ 1 <= q.owner
      /\ q.owner <= Len(Targets)
  BY <1>0, ProjectTask
<1>2. q.ok \in BOOLEAN
  BY <1>1 DEF Usage!Task
<1>3. Usage!NextTarget(p, TRUE) = next
  BY <1>1, <1>2 DEF Usage!NextTarget
<1>4. q.owner + 1 \in 1 .. Len(Targets) + 1
  BY <1>1, LedgerConstants
<1>5. next \in Usage!Task
  BY <1>1, <1>4 DEF Usage!Task
<1>6. /\ next.at = (IF q.owner = Len(Targets) THEN "mark" ELSE "owner")
      /\ next.owner = q.owner + 1 /\ next.ok = q.ok /\ next.id = q.id
  BY <1>1 DEF Usage!Task
<1> HIDE DEF next
<1>7. ProjectFits(next)
  BY <1>1, <1>6, LedgerConstants DEF ProjectFits, Projecting
<1>8. Fits(p, next)
  BY <1>0, <1>1, <1>5, <1>6, <1>7, ProjectGoes DEF Projecting
<1> QED
  BY <1>3, <1>5, <1>6, <1>8

\* A projection writes: the totals of its owner become those of the larger of
\* the two snapshots, and that one includes both.
LEMMA LedgerWrite ==
  ASSUME Usage!ConstantsOK, LedgerInv, NEW p \in Usage!Processes, Usage!WriteTotals(p)
  PROVE  LedgerInv'
<1>1. task[p].at = "write" /\ task[p].at \in Projecting
  BY DEF Usage!WriteTotals, Projecting
<1>0. PICK o \in Usage!Owners : o = Usage!Target(p)
  BY <1>1, ProjectTask
<1>2. /\ task[p] \in Usage!Task /\ Fits(p, task[p]) /\ task[p].id \in Usage!Known
      /\ task[p].owner \in Nat /\ 1 <= task[p].owner /\ task[p].owner <= Len(Targets)
      /\ o \in Usage!Owners /\ totals \in [Usage!Owners -> Nat]
  BY <1>0, <1>1, ProjectTask
<1>3. /\ totals' = [totals EXCEPT ![o] = IF task[p].sum > totals[o] THEN task[p].sum ELSE totals[o]]
      /\ UNCHANGED <<spent, ledger, baseline>> /\ faults' \in 0..MaxFaults
      /\ Usage!Goes(p, Usage!NextTarget(p, TRUE)) \/ Usage!Goes(p, Usage!Raised(p))
  BY <1>0, ReturnsWhere DEF Usage!WriteTotals
<1>4. PICK next :
        /\ Usage!Goes(p, next) /\ Fits(p, next) /\ next.at # "write"
        /\ p \in Calls => next.at \notin {"idle", "calling"}
        /\ next.at \in Projecting /\ next.ok =>
             /\ task[p].ok /\ next.id = task[p].id /\ next.owner = task[p].owner + 1
  <2>1. CASE Usage!Goes(p, Usage!NextTarget(p, TRUE))
    BY <1>1, <2>1, NextFits
  <2>2. CASE Usage!Goes(p, Usage!Raised(p))
    BY <1>1, <2>2, RaisedFits DEF LedgerInv
  <2> QED
    BY <1>3, <2>1, <2>2
<1>5. baseline[o] # None /\ task[p].sum \in Nat
  BY <1>0, <1>1, <1>2 DEF Fits, ProjectFits, Usage!Target, Usage!Task
<1>6. Usage!Known' = Usage!Known /\ Usage!Pending' = Usage!Pending /\ LedgerFits'
  BY <1>3 DEF Usage!Known, Usage!Pending, LedgerInv, Core, LedgerFits
<1>7. /\ totals' \in [Usage!Owners -> Nat] /\ \A x \in Usage!Owners \ {o} : totals'[x] = totals[x]
      /\ totals'[o] = IF task[p].sum > totals[o] THEN task[p].sum ELSE totals[o]
  BY <1>2, <1>3, <1>5
<1>8. BaselineFits'
  BY <1>3, <1>5, <1>7 DEF LedgerInv, Core, BaselineFits
<1>9. DataStep(p)
  BY <1>3, <1>6, <1>7, <1>8 DEF DataStep, LedgerInv, Core, Usage!TypeOK
<1>10. Fits(p, next)'
  BY <1>3, <1>4, <1>9, FitsStay
<1>11. Core'
  BY <1>4, <1>9, <1>10, CoreStep DEF LedgerInv
<1>12. Snapshots'
  <2>1. PICK C \in SUBSET SUBSET Usage!Ids :
          /\ Chain(C)
          /\ \A r \in Usage!Processes : Writes(task[r], C)
          /\ \A x \in Usage!Owners : Holds(x, C)
    BY DEF LedgerInv, Snapshots
  <2>2. task'[p] = next /\ \A r \in Usage!Processes \ {p} : task'[r] = task[r]
    BY <1>4 DEF Usage!Goes, LedgerInv, Core, Usage!TypeOK
  <2>3. Chain(C)'
    BY <1>6, <2>1 DEF Chain
  <2>4. \A r \in Usage!Processes : Writes(task'[r], C)
    BY <1>4, <2>1, <2>2 DEF Writes
  <2>5. Holds(o, C)'
    <3>1. PICK W \in C : task[p].id \in W /\ task[p].sum = Legacy[o] + Usage!SumTokens(W)
      BY <1>0, <1>1, <2>1 DEF Writes, Usage!Target
    <3>2. PICK S \in C : /\ totals[o] = Legacy[o] + Usage!SumTokens(S)
                         /\ Usage!Known \ Usage!Pending \subseteq S
                         /\ \A r \in Usage!Processes : Counts(task[r], o, S)
      BY <1>2, <2>1 DEF Holds
    <3>3. Legacy[o] \in Nat /\ W \in SUBSET Usage!Ids /\ S \in SUBSET Usage!Ids
      BY <1>2, LedgerConstants
    <3>4. PICK T \in C : /\ totals'[o] = Legacy[o] + Usage!SumTokens(T)
                         /\ S \subseteq T /\ W \subseteq T
      <4>1. CASE W \subseteq S
        <5>1. Usage!SumTokens(W) <= Usage!SumTokens(S) /\ Usage!SumTokens(S) \in Nat /\ Usage!SumTokens(W) \in Nat
          BY <3>3, <4>1, TokensGrow
        <5>2. totals'[o] = totals[o]
          BY <1>7, <3>1, <3>2, <3>3, <5>1
        <5> QED
          BY <3>2, <4>1, <5>2
      <4>2. CASE S \subseteq W
        <5>1. Usage!SumTokens(S) <= Usage!SumTokens(W) /\ Usage!SumTokens(S) \in Nat /\ Usage!SumTokens(W) \in Nat
          BY <3>3, <4>2, TokensGrow
        <5>2. totals'[o] = task[p].sum
          BY <1>7, <3>1, <3>2, <3>3, <5>1
        <5> QED
          BY <3>1, <4>2, <5>2
      <4> QED
        BY <2>1, <4>1, <4>2 DEF Chain
    <3>5. Counts(next, o, T)
      <4> SUFFICES ASSUME next.at \in Projecting, next.ok, NEW k \in 1 .. next.owner - 1,
                          Targets[k] = o
                   PROVE  next.id \in T
        BY DEF Counts
      <4> QED
        BY <1>4, <3>1, <3>4
    <3>6. \A r \in Usage!Processes : Counts(task'[r], o, T)
      BY <2>2, <3>2, <3>4, <3>5 DEF Counts
    <3> QED
      BY <1>6, <3>2, <3>4, <3>6 DEF Holds, Counts
  <2>6. ASSUME NEW x \in Usage!Owners \ {o} PROVE Holds(x, C)'
    <3>1. PICK S \in C : /\ totals[x] = Legacy[x] + Usage!SumTokens(S)
                         /\ Usage!Known \ Usage!Pending \subseteq S
                         /\ \A r \in Usage!Processes : Counts(task[r], x, S)
      BY <2>1 DEF Holds
    <3>2. Counts(next, x, S)
      <4> SUFFICES ASSUME next.at \in Projecting, next.ok, NEW k \in 1 .. next.owner - 1,
                          Targets[k] = x
                   PROVE  next.id \in S
        BY DEF Counts
      <4>1. k # task[p].owner
        BY <1>0, <2>6 DEF Usage!Target
      <4>2. k \in 1 .. task[p].owner - 1
        BY <1>2, <1>4, <4>1
      <4> QED
        BY <1>1, <1>4, <3>1, <4>2 DEF Counts
    <3>3. \A r \in Usage!Processes : Counts(task'[r], x, S)
      BY <2>2, <3>1, <3>2
    <3> QED
      BY <1>6, <1>7, <3>1, <3>3 DEF Holds, Counts
  <2>7. \A x \in Usage!Owners : Holds(x, C)'
    BY <2>5, <2>6
  <2> QED
    BY <2>3, <2>4, <2>7 DEF Snapshots, Writes
<1> QED
  BY <1>11, <1>12 DEF LedgerInv

\* The event is marked: every owner was written with it, or it stays pending.
LEMMA LedgerMark ==
  ASSUME Usage!ConstantsOK, LedgerInv, NEW p \in Usage!Processes, Usage!MarkProjected(p)
  PROVE  LedgerInv'
<1>1. task[p].at = "mark" /\ task[p].at \in Projecting
  BY DEF Usage!MarkProjected, Projecting
<1>2. PICK id \in Usage!Ids : id = task[p].id
  BY <1>1, ProjectTask DEF Usage!Known
<1>3. /\ task[p] \in Usage!Task /\ Fits(p, task[p]) /\ id \in Usage!Known /\ ledger \in [Usage!Ids -> Usage!Event]
      /\ p \in Calls => spent[p] # "none" /\ id = <<p, 0>>
      /\ task[p].owner = Len(Targets) + 1 /\ task[p].ok \in BOOLEAN
  BY <1>1, <1>2, ProjectTask DEF Fits, ProjectFits, Usage!Task
<1>4. PICK event \in Usage!Event : /\ event = [ledger[id] EXCEPT !.pending = ~task[p].ok]
                                   /\ event.status = "known" /\ event.pending = ~task[p].ok
  <2>1. ledger[id] \in Usage!Event /\ ledger[id].status = "known"
    BY <1>3 DEF Usage!Known
  <2>2. [ledger[id] EXCEPT !.pending = ~task[p].ok] \in Usage!Event
    BY <1>3, <2>1 DEF Usage!Event
  <2>3. /\ [ledger[id] EXCEPT !.pending = ~task[p].ok].status = "known"
        /\ [ledger[id] EXCEPT !.pending = ~task[p].ok].pending = ~task[p].ok
    BY <1>3, <2>1 DEF Usage!Event
  <2> QED
    BY <2>2, <2>3
<1>5. /\ ledger' = [ledger EXCEPT ![id] = event] /\ UNCHANGED <<spent, baseline, totals>>
      /\ faults' \in 0..MaxFaults
  BY <1>2, <1>4, ReturnsWhere DEF Usage!MarkProjected
<1>6. /\ ledger' \in [Usage!Ids -> Usage!Event] /\ ledger'[id] = event
      /\ \A i \in Usage!Ids \ {id} : ledger'[i] = ledger[i]
  BY <1>3, <1>5
<1>7. /\ Usage!Known' = Usage!Known
      /\ Usage!Known' \ Usage!Pending' \subseteq (Usage!Known \ Usage!Pending) \cup (IF task[p].ok THEN {id} ELSE {})
  BY <1>3, <1>4, <1>6 DEF Usage!Known, Usage!Pending
<1>8. LedgerFits'
  <2> SUFFICES ASSUME NEW i \in Usage!Ids
               PROVE  /\ ledger'[i].pending => ledger'[i].status = "known"
                      /\ ledger'[i].status = "known" => i[2] = 0 /\ spent'[i[1]] = "known"
    BY DEF LedgerFits
  <2>1. ledger'[i].pending => ledger'[i].status = "known"
    BY <1>4, <1>6 DEF LedgerInv, Core, LedgerFits
  <2>2. ledger'[i].status = "known" => ledger[i].status = "known"
    BY <1>3, <1>6 DEF Usage!Known
  <2> QED
    BY <1>5, <2>1, <2>2 DEF LedgerInv, Core, LedgerFits
<1>9. DataStep(p)
  <2>1. BaselineFits'
    BY <1>5 DEF LedgerInv, Core, BaselineFits
  <2>2. ASSUME NEW c \in Calls
        PROVE  /\ \/ ledger'[<<c, 0>>] = ledger[<<c, 0>>]
                  \/ ledger[<<c, 0>>].status = "known"
               /\ ledger[<<c, 0>>] # Usage!NoEvent => ledger'[<<c, 0>>] # Usage!NoEvent
    <3>1. <<c, 0>> \in Usage!Ids
      BY LedgerConstants
    <3> QED
      BY <1>3, <1>4, <1>6, <3>1 DEF Usage!Known, Usage!NoEvent
  <2> QED
    BY <1>5, <1>6, <1>7, <1>8, <2>1, <2>2 DEF DataStep, LedgerInv, Core, Usage!TypeOK
<1>10. PICK next :
        /\ Usage!Goes(p, next) /\ Fits(p, next) /\ next.at # "write"
        /\ p \in Calls => next.at \notin {"idle", "calling"}
        /\ next.at \in Projecting => ~next.ok
  <2>1. CASE Usage!Goes(p, Usage!Raised(p))
    BY <1>1, <2>1, RaisedFits DEF LedgerInv
  <2>2. CASE p = Reconciler /\ Usage!Goes(p, [Usage!Fresh EXCEPT !.scanned = task[p].scanned \cup {task[p].id}])
    <3>1. task[p].scanned \cup {id} \in SUBSET Usage!Ids
      BY <1>3 DEF Usage!Task
    <3>2. PICK next \in Usage!Task : next = [Usage!Fresh EXCEPT !.scanned = task[p].scanned \cup {task[p].id}]
      BY <1>2, <3>1, FreshFits DEF Usage!Task
    <3>3. next.at = "idle" /\ next.owner = 1 /\ p \notin Calls
      BY <2>2, <3>2, LedgerConstants DEF Usage!Fresh
    <3>4. Fits(p, next)
      BY <2>2, <3>2, <3>3 DEF Fits, ProjectFits, Projecting
    <3> QED
      BY <2>2, <3>2, <3>3, <3>4 DEF Projecting
  <2>3. CASE p # Reconciler /\ Usage!Goes(p, [task[p] EXCEPT !.at = "done"])
    <3>1. PICK next \in Usage!Task : next = [task[p] EXCEPT !.at = "done"]
      BY <1>3 DEF Usage!Task
    <3>2. next.at = "done"
      BY <1>3, <3>1 DEF Usage!Task
    <3>3. Fits(p, next)
      BY <1>3, <2>3, <3>1, <3>2 DEF Fits, CallFits, ProjectFits, Projecting, Recording
    <3> QED
      BY <2>3, <3>1, <3>2, <3>3 DEF Projecting
  <2> QED
    BY <2>1, <2>2, <2>3, ReturnsWhere DEF Usage!MarkProjected
<1>11. Fits(p, next)'
  BY <1>5, <1>9, <1>10, FitsStay
<1>12. Core'
  BY <1>9, <1>10, <1>11, CoreStep DEF LedgerInv
<1>13. Snapshots'
  <2>1. PICK C \in SUBSET SUBSET Usage!Ids :
          /\ Chain(C)
          /\ \A r \in Usage!Processes : Writes(task[r], C)
          /\ \A x \in Usage!Owners : Holds(x, C)
    BY DEF LedgerInv, Snapshots
  <2>2. task'[p] = next /\ \A r \in Usage!Processes \ {p} : task'[r] = task[r]
    BY <1>10 DEF Usage!Goes, LedgerInv, Core, Usage!TypeOK
  <2>3. Chain(C)'
    BY <1>7, <2>1 DEF Chain
  <2>4. \A r \in Usage!Processes : Writes(task'[r], C)
    BY <1>10, <2>1, <2>2 DEF Writes
  <2>5. ASSUME NEW x \in Usage!Owners PROVE Holds(x, C)'
    <3>1. PICK S \in C : /\ totals[x] = Legacy[x] + Usage!SumTokens(S)
                         /\ Usage!Known \ Usage!Pending \subseteq S
                         /\ \A r \in Usage!Processes : Counts(task[r], x, S)
      BY <2>1 DEF Holds
    <3>2. ASSUME task[p].ok PROVE id \in S
      <4>1. PICK k \in 1 .. Len(Targets) : Targets[k] = x
        BY LedgerConstants
      <4>2. k \in 1 .. task[p].owner - 1
        BY <1>3, <4>1, LedgerConstants
      <4> QED
        BY <1>1, <1>2, <3>1, <3>2, <4>1, <4>2 DEF Counts
    <3>3. Usage!Known' \ Usage!Pending' \subseteq S
      BY <1>7, <3>1, <3>2
    <3>4. \A r \in Usage!Processes : Counts(task'[r], x, S)
      BY <1>10, <2>2, <3>1 DEF Counts
    <3> QED
      BY <1>5, <3>1, <3>3, <3>4 DEF Holds, Counts
  <2>6. \A x \in Usage!Owners : Holds(x, C)'
    BY <2>5
  <2> QED
    BY <2>3, <2>4, <2>6 DEF Snapshots, Writes
<1> QED
  BY <1>12, <1>13 DEF LedgerInv

LEMMA LedgerScans ==
  ASSUME Usage!ConstantsOK, LedgerInv, Usage!Scan \/ Usage!Rescan
  PROVE  LedgerInv'
<1>1. Reconciler \in Usage!Processes /\ Reconciler \notin Calls
  BY LedgerConstants DEF Usage!Processes
<1>2. /\ task[Reconciler] \in Usage!Task /\ Fits(Reconciler, task[Reconciler])
      /\ task[Reconciler].at = "idle"
  BY <1>1 DEF LedgerInv, Core, Fits, Usage!Scan, Usage!Rescan
<1>3. CASE Usage!Rescan
  <2>1. Usage!Fresh \in Usage!Task /\ Usage!Fresh.at = "idle" /\ Usage!Fresh.owner = 1
    BY FreshFits DEF Usage!Fresh
  <2>2. Fits(Reconciler, Usage!Fresh)
    BY <1>1, <2>1 DEF Fits, ProjectFits, Projecting
  <2> QED
    BY <1>1, <1>3, <2>1, <2>2, QuietStep DEF Usage!Rescan, Projecting, LedgerInv, Core, Usage!TypeOK
<1>4. CASE Usage!Scan
  <2>1. PICK i \in Usage!Pending :
          Usage!Goes(Reconciler, [task[Reconciler] EXCEPT !.at = "owner", !.id = i])
    BY <1>4 DEF Usage!Scan
  <2>2. i \in Usage!Ids /\ i \in Usage!Known
    BY DEF Usage!Pending, Usage!Known, LedgerInv, Core, LedgerFits
  <2>3. PICK next \in Usage!Task : next = [task[Reconciler] EXCEPT !.at = "owner", !.id = i]
    BY <1>2, <2>2 DEF Usage!Task
  <2>4. next.at = "owner" /\ next.id = i /\ next.owner = 1
    BY <1>2, <2>3 DEF Usage!Task, Fits, ProjectFits
  <2>5. Fits(Reconciler, next)
    BY <1>1, <2>2, <2>3, <2>4, LedgerConstants DEF Fits, ProjectFits, Projecting
  <2> QED
    BY <1>1, <1>4, <2>1, <2>3, <2>4, <2>5, QuietStep DEF Usage!Scan, Projecting, LedgerInv, Core, Usage!TypeOK
<1> QED
  BY <1>3, <1>4

LEMMA LedgerStep ==
  ASSUME Usage!ConstantsOK, LedgerInv, [Usage!Next]_Usage!vars
  PROVE  LedgerInv'
<1>1. CASE \E c \in Calls : Usage!Record(c)
  BY <1>1, LedgerOpen, LedgerReads, LedgerAnswer, LedgerStores DEF Usage!Record
<1>2. CASE \E c \in Calls : Usage!Die(c)
  BY <1>2, LedgerDie
<1>3. CASE \E p \in Usage!Processes : Usage!Project(p)
  BY <1>3, LedgerReadOwner, LedgerCapture, LedgerReadEvents, LedgerWrite, LedgerMark DEF Usage!Project
<1>4. CASE \E p \in Usage!Processes : Usage!Fault(p)
  BY <1>4, LedgerFault
<1>5. CASE Usage!Scan \/ Usage!Rescan
  BY <1>5, LedgerScans
<1>6. CASE UNCHANGED Usage!vars
  <2>1. UNCHANGED <<spent, ledger, baseline, totals, task, faults>>
    BY <1>6 DEF Usage!vars
  <2>2. Core'
    BY <2>1 DEF LedgerInv, Core, Usage!TypeOK, LedgerFits, BaselineFits, Fits, CallFits, ProjectFits, Usage!Known
  <2>3. Snapshots'
    BY <2>1 DEF LedgerInv, Snapshots, Chain, Writes, Holds, Counts, Usage!Known, Usage!Pending
  <2> QED
    BY <2>2, <2>3 DEF LedgerInv
<1> QED
  BY <1>1, <1>2, <1>3, <1>4, <1>5, <1>6 DEF Usage!Next

\* A total is the legacy counter and the tokens of known events, each one the
\* event of a call that was paid; and it includes every event projected.
LEMMA LedgerCounts ==
  ASSUME Usage!ConstantsOK, LedgerInv
  PROVE  Usage!ChargedOnce /\ Usage!ProjectedIsCounted /\ Usage!NothingSpentUnrecorded
<1>1. PICK C \in SUBSET SUBSET Usage!Ids :
        /\ Chain(C)
        /\ \A o \in Usage!Owners : Holds(o, C)
  BY DEF LedgerInv, Snapshots
<1>2. {<<c, 0>> : c \in Usage!ReportedCalls} \in SUBSET Usage!Ids
  BY LedgerConstants DEF Usage!ReportedCalls
<1>3. Usage!Known \subseteq {<<c, 0>> : c \in Usage!ReportedCalls}
  <2> SUFFICES ASSUME NEW i \in Usage!Known PROVE i \in {<<c, 0>> : c \in Usage!ReportedCalls}
    OBVIOUS
  <2>1. i \in Usage!Ids /\ ledger[i].status = "known"
    BY DEF Usage!Known
  <2>2. i[1] \in Calls /\ i = <<i[1], i[2]>>
    BY <2>1 DEF Usage!Ids
  <2>3. i[2] = 0 /\ spent[i[1]] = "known"
    BY <2>1 DEF LedgerInv, Core, LedgerFits
  <2> QED
    BY <2>2, <2>3 DEF Usage!ReportedCalls
<1>4. ASSUME NEW o \in Usage!Owners
      PROVE  /\ totals[o] <= Legacy[o] + Usage!SumTokens({<<c, 0>> : c \in Usage!ReportedCalls})
             /\ totals[o] >= Legacy[o] + Usage!SumTokens(Usage!Known \ Usage!Pending)
  <2>1. PICK S \in C : /\ totals[o] = Legacy[o] + Usage!SumTokens(S)
                       /\ Usage!Known \ Usage!Pending \subseteq S
    BY <1>1 DEF Holds
  <2>2. S \in SUBSET Usage!Ids /\ S \subseteq Usage!Known
    BY <1>1 DEF Chain
  <2>3. S \subseteq {<<c, 0>> : c \in Usage!ReportedCalls}
    BY <1>3, <2>2
  <2>4. /\ Usage!SumTokens(S) \in Nat /\ Usage!SumTokens({<<c, 0>> : c \in Usage!ReportedCalls}) \in Nat
        /\ Usage!SumTokens(S) <= Usage!SumTokens({<<c, 0>> : c \in Usage!ReportedCalls})
    BY <1>2, <2>3, TokensGrow
  <2>5. Usage!SumTokens(Usage!Known \ Usage!Pending) \in Nat /\ Usage!SumTokens(Usage!Known \ Usage!Pending) <= Usage!SumTokens(S)
    BY <2>1, <2>2, TokensGrow
  <2>6. Legacy[o] \in Nat
    BY LedgerConstants
  <2> QED
    BY <2>1, <2>4, <2>5, <2>6
<1>5. Usage!NothingSpentUnrecorded
  <2> SUFFICES ASSUME NEW c \in Tracked, task[c].at = "calling" \/ spent[c] # "none"
               PROVE  ledger[<<c, 0>>] # Usage!NoEvent
    BY DEF Usage!NothingSpentUnrecorded, Usage!EventId
  <2>1. c \in Calls
    BY LedgerConstants
  <2> QED
    BY <2>1, CallTask DEF CallFits
<1> QED
  BY <1>4, <1>5 DEF Usage!ChargedOnce, Usage!ProjectedIsCounted

LEMMA LedgerHolds ==
  ASSUME Usage!ConstantsOK, LedgerInv
  PROVE  Usage!TypeOK /\ Usage!LedgerExact
BY LedgerCounts DEF LedgerInv, Core, Usage!LedgerExact


-----------------------------------------------------------------------------
\* Material: the inductive invariant

Relations == [id : Requests, at : Nat, student : Students, subject : Subjects]
Published == [id : Requests, teacher : Teachers, subject : Subjects]
Visits == [id : Requests, student : Students, material : Requests,
           status : Materials!Statuses, submission : Requests \cup {None}]

\* What each kind of request keeps; one that enrols is at a subject of its list
\* until it ends.
Enrolling == [phase : {"relation", "subject", "insert", "ended"},
              student : Students, list : SubjectLists, at : Nat]
LinkRequest == {q \in Enrolling : q.phase = "ended" \/ q.at \in 1 .. Len(q.list)}
PublishRequest == [phase : {"publish", "ended"}, teacher : Teachers, subject : Subjects]
VisitRequest == [phase : {"own", "write", "ended"}, student : Students,
                 material : Published, status : Materials!Statuses, existing : Requests \cup {None}]
ListRequest == [phase : {"list", "ended"}, student : Students,
                enrolled : SUBSET Subjects, shown : SUBSET Published]

RequestTypes == LinkRequest \cup PublishRequest \cup VisitRequest \cup ListRequest

TypeInv ==
  /\ subjects \in [Subjects -> [teacher : Teachers, live : BOOLEAN]]
  /\ relations \subseteq Relations
  /\ materials \subseteq Published
  /\ interactions \subseteq Visits
  /\ submitted \subseteq Students \X Requests
  /\ request \in [Requests -> RequestTypes \cup {None}]

\* The material of a visit and the subjects of a list were seen: nothing takes
\* them back before the request uses them.
HoldsSeen(r) ==
  /\ request[r] \in PublishRequest =>
       Institutes[request[r].teacher] = Institutes[request[r].subject]
  /\ request[r] \in VisitRequest =>
       /\ request[r].material \in materials
       /\ request[r].material.subject \in Materials!Enrolled(request[r].student)
       /\ request[r].existing # None => \E i \in Materials!Existing(r) : i.id = request[r].existing
  /\ request[r] \in ListRequest =>
       /\ request[r].enrolled \subseteq Materials!Enrolled(request[r].student)
       /\ \A m \in request[r].shown : m.subject \in Materials!Enrolled(request[r].student)

RequestInv == \A r \in Requests : request[r] # None => HoldsSeen(r)

\* Every entry is a student's who is enrolled in the subject of its material.
VisitsInv ==
  \A i \in interactions : \E m \in materials :
    m.id = i.material /\ m.subject \in Materials!Enrolled(i.student)

MaterialsInv ==
  /\ TypeInv
  /\ RequestInv
  /\ VisitsInv
  /\ Materials!SubmissionStays
  /\ Materials!MaterialStaysInside

LEMMA MaterialsInit ==
  ASSUME Materials!Init
  PROVE  MaterialsInv
<1>1. TypeInv
  BY DEF Materials!Init, TypeInv
<1>2. RequestInv /\ VisitsInv
  BY DEF Materials!Init, RequestInv, VisitsInv
<1>3. Materials!SubmissionStays /\ Materials!MaterialStaysInside
  BY DEF Materials!Init, Materials!SubmissionStays, Materials!MaterialStaysInside
<1> QED
  BY <1>1, <1>2, <1>3 DEF MaterialsInv

\* No enrolment is taken back.
LEMMA EnrolmentGrows ==
  ASSUME relations \subseteq relations', NEW s
  PROVE  Materials!Enrolled(s) \subseteq Materials!Enrolled(s)'
BY DEF Materials!Enrolled

-----------------------------------------------------------------------------
\* What a request does, and what it leaves

\* What was recorded only grows, but for what an entry says of a visit.
Grows ==
  /\ relations \subseteq relations'
  /\ materials \subseteq materials'
  /\ \A i \in interactions : \E j \in interactions' :
        j.id = i.id /\ j.student = i.student /\ j.material = i.material

LEMMA OthersHold ==
  ASSUME MaterialsInv, NEW r \in Requests, Grows, request'[r] = request[r], request[r] # None
  PROVE  HoldsSeen(r)'
<1>1. HoldsSeen(r)
  BY DEF MaterialsInv, RequestInv
<1>2. \A s : Materials!Enrolled(s) \subseteq Materials!Enrolled(s)'
  BY EnrolmentGrows DEF Grows
<1>3. \A i \in Materials!Existing(r) : \E j \in Materials!Existing(r)' : j.id = i.id
  BY DEF Materials!Existing, Grows
<1>4. (request[r] \in PublishRequest =>
         Institutes[request[r].teacher] = Institutes[request[r].subject])'
  BY <1>1 DEF HoldsSeen
<1>5. ASSUME request'[r] \in VisitRequest
      PROVE  /\ request'[r].material \in materials'
             /\ request'[r].material.subject \in Materials!Enrolled(request[r].student)'
             /\ request'[r].existing # None =>
                  \E j \in Materials!Existing(r)' : j.id = request'[r].existing
  <2>1. /\ request[r].material \in materials
        /\ request[r].material.subject \in Materials!Enrolled(request[r].student)
        /\ request[r].existing # None => \E i \in Materials!Existing(r) : i.id = request[r].existing
    BY <1>1, <1>5 DEF HoldsSeen
  <2>2. request[r].material.subject \in Materials!Enrolled(request[r].student)'
    BY <1>2, <2>1
  <2> QED
    BY <1>3, <2>1, <2>2 DEF Grows
<1>6. ASSUME request'[r] \in ListRequest
      PROVE  /\ request'[r].enrolled \subseteq Materials!Enrolled(request[r].student)'
             /\ \A m \in request'[r].shown : m.subject \in Materials!Enrolled(request[r].student)'
  BY <1>1, <1>2, <1>6 DEF HoldsSeen
<1> QED
  BY <1>4, <1>5, <1>6 DEF HoldsSeen

\* Requests of different kinds keep different things.
LEMMA Kinds ==
  ASSUME NEW q \in RequestTypes
  PROVE  /\ q \in LinkRequest =>
              q \notin PublishRequest /\ q \notin VisitRequest /\ q \notin ListRequest
         /\ q \in PublishRequest => q \notin VisitRequest /\ q \notin ListRequest
         /\ q \in VisitRequest => q \notin PublishRequest /\ q \notin ListRequest
         /\ q \in ListRequest => q \notin PublishRequest /\ q \notin VisitRequest
<1>1. q \in LinkRequest => DOMAIN q = {"phase", "student", "list", "at"}
  BY DEF LinkRequest, Enrolling
<1>2. q \in PublishRequest => DOMAIN q = {"phase", "teacher", "subject"}
  BY DEF PublishRequest
<1>3. q \in VisitRequest => DOMAIN q = {"phase", "student", "material", "status", "existing"}
  BY DEF VisitRequest
<1>4. q \in ListRequest => DOMAIN q = {"phase", "student", "enrolled", "shown"}
  BY DEF ListRequest
<1> QED
  BY <1>1, <1>2, <1>3, <1>4

\* Which kind of request does what.
LEMMA Phases ==
  ASSUME TypeInv, NEW r \in Requests
  PROVE  /\ (\E ph \in {"relation", "subject", "insert"} : Materials!At(r, ph)) => request[r] \in LinkRequest
         /\ Materials!At(r, "publish") => request[r] \in PublishRequest
         /\ Materials!At(r, "own") \/ Materials!At(r, "write") => request[r] \in VisitRequest
         /\ Materials!At(r, "list") => request[r] \in ListRequest
BY DEF TypeInv, Materials!At, RequestTypes, LinkRequest, Enrolling, PublishRequest, VisitRequest, ListRequest

\* A request goes on; what it and the others keep still holds.
LEMMA RequestGoes ==
  ASSUME MaterialsInv, NEW r \in Requests, NEW q \in RequestTypes,
         request' = [request EXCEPT ![r] = q], Grows, HoldsSeen(r)'
  PROVE  RequestInv' /\ request' \in [Requests -> RequestTypes \cup {None}]
<1>1. request \in [Requests -> RequestTypes \cup {None}]
  BY DEF MaterialsInv, TypeInv
<1>2. request'[r] = q /\ \A p \in Requests \ {r} : request'[p] = request[p]
  BY <1>1
<1>3. RequestInv'
  <2> SUFFICES ASSUME NEW p \in Requests, request'[p] # None PROVE HoldsSeen(p)'
    BY DEF RequestInv
  <2>1. CASE p = r
    BY <2>1
  <2>2. CASE p # r
    BY <1>2, <2>2, OthersHold
  <2> QED
    BY <2>1, <2>2
<1> QED
  BY <1>1, <1>3

\* A request reads, or enrols a student.
LEMMA StepReads ==
  ASSUME MaterialsInv, NEW r \in Requests, NEW q \in RequestTypes,
         request' = [request EXCEPT ![r] = q],
         relations \subseteq relations', relations' \subseteq Relations,
         UNCHANGED <<subjects, materials, interactions, submitted>>,
         HoldsSeen(r)'
  PROVE  MaterialsInv'
<1>1. Grows
  BY DEF Grows
<1>2. RequestInv' /\ TypeInv'
  BY <1>1, RequestGoes DEF MaterialsInv, TypeInv
<1>3. VisitsInv'
  <2>1. \A s : Materials!Enrolled(s) \subseteq Materials!Enrolled(s)'
    BY EnrolmentGrows
  <2> QED
    BY <2>1 DEF MaterialsInv, VisitsInv
<1> QED
  BY <1>2, <1>3 DEF MaterialsInv, Materials!SubmissionStays, Materials!MaterialStaysInside

-----------------------------------------------------------------------------
\* Enrolment

LEMMA StepLinks ==
  ASSUME MaterialsInv, NEW r \in Requests, NEW q \in LinkRequest,
         request' = [request EXCEPT ![r] = q],
         relations \subseteq relations', relations' \subseteq Relations,
         UNCHANGED <<subjects, materials, interactions, submitted>>
  PROVE  MaterialsInv'
<1>1. q \in RequestTypes
  BY DEF RequestTypes
<1>2. request'[r] = q
  BY DEF MaterialsInv, TypeInv
<1>3. HoldsSeen(r)'
  BY <1>1, <1>2, Kinds DEF HoldsSeen
<1> QED
  BY <1>1, <1>3, StepReads

LEMMA LinkMoves ==
  ASSUME Materials!ConstantsOK, MaterialsInv, NEW r \in Requests, request[r] \in LinkRequest,
         request[r].phase # "ended",
         (\E ph \in {"subject", "insert"} : Materials!Step(r, ph)) \/ Materials!NextSubject(r),
         relations \subseteq relations', relations' \subseteq Relations,
         UNCHANGED <<subjects, materials, interactions, submitted>>
  PROVE  MaterialsInv'
<1>0. request \in [Requests -> RequestTypes \cup {None}]
  BY DEF MaterialsInv, TypeInv
<1>3. request[r] \in Enrolling /\ request[r].at \in 1 .. Len(request[r].list)
  BY DEF LinkRequest
<1>1. ASSUME NEW ph \in {"subject", "insert"}, Materials!Step(r, ph) PROVE MaterialsInv'
  <2> DEFINE q == [request[r] EXCEPT !.phase = ph]
  <2>1. q \in Enrolling /\ q.at = request[r].at /\ q.list = request[r].list
    BY <1>3 DEF Enrolling
  <2>2. request' = [request EXCEPT ![r] = q]
    BY <1>0, <1>1 DEF Materials!Step
  <2> HIDE DEF q
  <2>3. q \in LinkRequest
    BY <1>3, <2>1 DEF LinkRequest
  <2> QED
    BY <2>2, <2>3, StepLinks
<1>2. ASSUME Materials!NextSubject(r) PROVE MaterialsInv'
  <2> DEFINE ph == IF request[r].at = Len(request[r].list) THEN "ended" ELSE "relation"
             q == [request[r] EXCEPT !.at = @ + 1, !.phase = ph]
  <2>1. q \in LinkRequest
    <3> DEFINE n == request[r].at + 1
    <3>1. /\ request[r] \in Enrolling /\ request[r].at \in Nat /\ Len(request[r].list) \in Nat
          /\ request[r].at <= Len(request[r].list) /\ request[r].at >= 1
      BY <1>3 DEF LinkRequest, Enrolling, Materials!ConstantsOK
    <3>2. /\ ph \in {"ended", "relation"} /\ n \in Nat
          /\ ph = "ended" \/ n \in 1 .. Len(request[r].list)
      BY <3>1
    <3>3. q = [request[r] EXCEPT !.at = n, !.phase = ph]
      OBVIOUS
    <3> HIDE DEF ph, n, q
    <3>4. q \in Enrolling /\ q.at = n /\ q.phase = ph /\ q.list = request[r].list
      BY <3>1, <3>2, <3>3 DEF Enrolling
    <3> QED
      BY <3>2, <3>4 DEF LinkRequest
  <2>2. request' = [request EXCEPT ![r] = q]
    BY <1>0, <1>2 DEF Materials!NextSubject
  <2> HIDE DEF q
  <2> QED
    BY <2>1, <2>2, StepLinks
<1> QED
  BY <1>1, <1>2

LEMMA StepEnrolment ==
  ASSUME Materials!ConstantsOK, MaterialsInv, NEW r \in Requests,
         \/ \E s \in Students, list \in SubjectLists : Materials!LinkSubjects(r, s, list)
         \/ Materials!CheckRelation(r) \/ Materials!CheckSubject(r) \/ Materials!InsertRelation(r)
  PROVE  MaterialsInv'
<1>0. /\ relations \subseteq relations'
      /\ UNCHANGED <<subjects, materials, interactions, submitted>>
  BY DEF Materials!LinkSubjects, Materials!CheckRelation, Materials!CheckSubject, Materials!InsertRelation
<1>1. ASSUME NEW s \in Students, NEW list \in SubjectLists, Materials!LinkSubjects(r, s, list) PROVE MaterialsInv'
  <2> DEFINE q == [phase |-> "relation", student |-> s, list |-> list, at |-> 1]
  <2>1. Len(list) \in Nat \ {0}
    BY DEF Materials!ConstantsOK
  <2>2. q \in LinkRequest
    BY <2>1 DEF LinkRequest, Enrolling
  <2>3. request' = [request EXCEPT ![r] = q] /\ relations' = relations
    BY <1>1 DEF Materials!LinkSubjects, Materials!Start
  <2> HIDE DEF q
  <2> QED
    BY <1>0, <2>2, <2>3, StepLinks DEF MaterialsInv, TypeInv
<1>2. ASSUME Materials!CheckRelation(r) \/ Materials!CheckSubject(r) \/ Materials!InsertRelation(r) PROVE MaterialsInv'
  <2>1. /\ \E ph \in {"relation", "subject", "insert"} : Materials!At(r, ph)
        /\ (\E ph \in {"subject", "insert"} : Materials!Step(r, ph)) \/ Materials!NextSubject(r)
        /\ relations' = relations \/ relations' = relations \cup {Materials!Relation(r)}
    BY <1>2 DEF Materials!CheckRelation, Materials!CheckSubject, Materials!InsertRelation
  <2>2. request[r] \in LinkRequest /\ request[r].phase # "ended"
    BY <2>1, Phases DEF MaterialsInv, Materials!At
  <2>3. request[r].student \in Students /\ request[r].at \in Nat
    BY <2>2 DEF LinkRequest, Enrolling
  <2>4. Materials!Subject(r) \in Subjects
    BY <2>2 DEF LinkRequest, Enrolling, Materials!Subject, Materials!ConstantsOK
  <2>5. Materials!Relation(r) \in Relations
    BY <2>3, <2>4 DEF Materials!Relation, Relations
  <2>6. relations' \subseteq Relations
    BY <2>1, <2>5 DEF MaterialsInv, TypeInv
  <2> QED
    BY <1>0, <2>1, <2>2, <2>6, LinkMoves
<1> QED
  BY <1>1, <1>2

-----------------------------------------------------------------------------
\* Publishing

\* The institutes were compared when the request began, and no subject or
\* teacher changes its institute.
LEMMA StepPublish ==
  ASSUME Materials!ConstantsOK, MaterialsInv, NEW r \in Requests, NEW t \in Teachers, NEW x \in Subjects,
         NEW own \in BOOLEAN, Materials!Publish(r, t, x, own)
  PROVE  MaterialsInv'
<1> DEFINE q == [phase |-> "publish", teacher |-> t, subject |-> x]
<1>1. q \in PublishRequest /\ q.teacher = t /\ q.subject = x
  BY DEF PublishRequest
<1>2. /\ request' = [request EXCEPT ![r] = q] /\ Institutes[x] = Institutes[t]
      /\ UNCHANGED <<subjects, relations, materials, interactions, submitted>>
  BY DEF Materials!Publish, Materials!Start, Materials!MayPublish
<1> HIDE DEF q
<1>3. q \in RequestTypes
  BY <1>1 DEF RequestTypes
<1>4. request'[r] = q
  BY <1>2 DEF MaterialsInv, TypeInv
<1>5. HoldsSeen(r)'
  BY <1>1, <1>2, <1>3, <1>4, Kinds DEF HoldsSeen
<1> QED
  BY <1>2, <1>3, <1>5, StepReads DEF MaterialsInv, TypeInv

LEMMA StepInsertMaterial ==
  ASSUME Materials!ConstantsOK, MaterialsInv, NEW r \in Requests, Materials!InsertMaterial(r)
  PROVE  MaterialsInv'
<1>0. /\ Materials!At(r, "publish") /\ materials' = materials \cup {Materials!Material(r)}
      /\ Materials!Step(r, "ended") /\ UNCHANGED <<subjects, relations, interactions, submitted>>
  BY DEF Materials!InsertMaterial
<1>1. request[r] \in PublishRequest /\ request[r] # None
  BY <1>0, Phases DEF MaterialsInv, Materials!At
<1>2. Institutes[request[r].teacher] = Institutes[request[r].subject]
  BY <1>1 DEF MaterialsInv, RequestInv, HoldsSeen
<1> DEFINE q == [request[r] EXCEPT !.phase = "ended"]
<1>3. /\ q \in PublishRequest /\ q.teacher = request[r].teacher /\ q.subject = request[r].subject
  BY <1>1 DEF PublishRequest
<1>4. request' = [request EXCEPT ![r] = q] /\ request'[r] = q
  BY <1>0 DEF Materials!Step, MaterialsInv, TypeInv
<1> HIDE DEF q
<1>5. /\ Materials!Material(r) \in Published /\ Materials!Material(r).teacher = request[r].teacher
      /\ Materials!Material(r).subject = request[r].subject
  BY <1>1 DEF PublishRequest, Published, Materials!Material
<1>6. Grows
  BY <1>0 DEF Grows
<1>7. q \in RequestTypes
  BY <1>3 DEF RequestTypes
<1>8. HoldsSeen(r)'
  BY <1>2, <1>3, <1>4, <1>7, Kinds DEF HoldsSeen
<1>9. RequestInv' /\ TypeInv'
  BY <1>0, <1>4, <1>5, <1>6, <1>7, <1>8, RequestGoes DEF MaterialsInv, TypeInv
<1>10. VisitsInv'
  BY <1>0 DEF MaterialsInv, VisitsInv, Materials!Enrolled
<1>11. Materials!MaterialStaysInside'
  BY <1>0, <1>2, <1>5 DEF MaterialsInv, Materials!MaterialStaysInside
<1> QED
  BY <1>0, <1>9, <1>10, <1>11 DEF MaterialsInv, Materials!SubmissionStays

-----------------------------------------------------------------------------
\* Visits and lists

LEMMA StepInteract ==
  ASSUME Materials!ConstantsOK, MaterialsInv, NEW r \in Requests, NEW s \in Students, NEW m \in materials,
         NEW visit \in Materials!Statuses, Materials!Interact(r, s, m, visit)
  PROVE  MaterialsInv'
<1> DEFINE q == [phase |-> "own", student |-> s, material |-> m, status |-> visit,
                 existing |-> None]
<1>1. m \in Published
  BY DEF MaterialsInv, TypeInv
<1>2. q \in VisitRequest /\ q.material = m /\ q.student = s /\ q.existing = None
  BY <1>1 DEF VisitRequest
<1>3. /\ request' = [request EXCEPT ![r] = q] /\ m.subject \in Materials!Enrolled(s)
      /\ UNCHANGED <<subjects, relations, materials, interactions, submitted>>
  BY DEF Materials!Interact, Materials!Start, Materials!IsEnrolled
<1> HIDE DEF q
<1>4. q \in RequestTypes
  BY <1>2 DEF RequestTypes
<1>5. request'[r] = q
  BY <1>3 DEF MaterialsInv, TypeInv
<1>6. m.subject \in Materials!Enrolled(s)'
  BY <1>3 DEF Materials!Enrolled
<1>7. HoldsSeen(r)'
  BY <1>2, <1>3, <1>4, <1>5, <1>6, Kinds DEF HoldsSeen
<1> QED
  BY <1>3, <1>4, <1>7, StepReads DEF MaterialsInv, TypeInv

LEMMA StepFind ==
  ASSUME Materials!ConstantsOK, MaterialsInv, NEW r \in Requests, Materials!FindInteraction(r)
  PROVE  MaterialsInv'
<1>0. /\ Materials!At(r, "own") /\ UNCHANGED <<subjects, relations, materials, interactions, submitted>>
      /\ IF Materials!Existing(r) = {} THEN Materials!Step(r, "write")
         ELSE \E i \in Materials!Existing(r) :
                request' = [request EXCEPT ![r].existing = i.id, ![r].phase = "write"]
  BY DEF Materials!FindInteraction
<1>1. request[r] \in VisitRequest /\ request[r] # None
  BY <1>0, Phases DEF MaterialsInv, Materials!At
<1>2. PICK q \in VisitRequest :
        /\ request' = [request EXCEPT ![r] = q]
        /\ q.material = request[r].material /\ q.student = request[r].student
        /\ q.existing # None => \E i \in Materials!Existing(r) : i.id = q.existing
  <2>1. CASE Materials!Existing(r) = {}
    <3> DEFINE q == [request[r] EXCEPT !.phase = "write"]
    <3>1. /\ q \in VisitRequest /\ q.material = request[r].material
          /\ q.student = request[r].student /\ q.existing = request[r].existing
      BY <1>1 DEF VisitRequest
    <3>2. request' = [request EXCEPT ![r] = q]
      BY <1>0, <2>1 DEF Materials!Step
    <3>3. q.existing # None => \E i \in Materials!Existing(r) : i.id = q.existing
      BY <1>1, <3>1 DEF MaterialsInv, RequestInv, HoldsSeen
    <3> HIDE DEF q
    <3> QED
      BY <3>1, <3>2, <3>3
  <2>2. CASE Materials!Existing(r) # {}
    <3>1. PICK i \in Materials!Existing(r) :
            request' = [request EXCEPT ![r].existing = i.id, ![r].phase = "write"]
      BY <1>0, <2>2
    <3> DEFINE q == [request[r] EXCEPT !.existing = i.id, !.phase = "write"]
    <3>2. i.id \in Requests
      BY DEF MaterialsInv, TypeInv, Materials!Existing, Visits
    <3>3. /\ q \in VisitRequest /\ q.material = request[r].material
          /\ q.student = request[r].student /\ q.existing = i.id
      BY <1>1, <3>2 DEF VisitRequest
    <3>4. request' = [request EXCEPT ![r] = q]
      BY <3>1
    <3> HIDE DEF q
    <3> QED
      BY <3>3, <3>4
  <2> QED
    BY <2>1, <2>2
<1>3. request'[r] = q /\ q \in RequestTypes
  BY <1>2 DEF MaterialsInv, TypeInv, RequestTypes
<1>4. /\ request[r].material \in materials
      /\ request[r].material.subject \in Materials!Enrolled(request[r].student)
  BY <1>1 DEF MaterialsInv, RequestInv, HoldsSeen
<1>5. Materials!Existing(r)' = Materials!Existing(r) /\ Materials!Enrolled(q.student)' = Materials!Enrolled(request[r].student)
  BY <1>0, <1>2, <1>3 DEF Materials!Existing, Materials!Enrolled
<1>6. HoldsSeen(r)'
  BY <1>0, <1>2, <1>3, <1>4, <1>5, Kinds DEF HoldsSeen
<1> QED
  BY <1>0, <1>2, <1>3, <1>6, StepReads DEF MaterialsInv, TypeInv

LEMMA StepAskMaterials ==
  ASSUME Materials!ConstantsOK, MaterialsInv, NEW r \in Requests, NEW s \in Students, Materials!AskMaterials(r, s)
  PROVE  MaterialsInv'
<1> DEFINE q == [phase |-> "list", student |-> s, enrolled |-> Materials!Enrolled(s), shown |-> {}]
<1>1. Materials!Enrolled(s) \subseteq Subjects
  BY DEF MaterialsInv, TypeInv, Relations, Materials!Enrolled
<1>2. q \in ListRequest /\ q.student = s /\ q.enrolled = Materials!Enrolled(s) /\ q.shown = {}
  BY <1>1 DEF ListRequest
<1>3. /\ request' = [request EXCEPT ![r] = q]
      /\ UNCHANGED <<subjects, relations, materials, interactions, submitted>>
  BY DEF Materials!AskMaterials, Materials!Start
<1> HIDE DEF q
<1>4. q \in RequestTypes
  BY <1>2 DEF RequestTypes
<1>5. request'[r] = q
  BY <1>3 DEF MaterialsInv, TypeInv
<1>6. Materials!Enrolled(s)' = Materials!Enrolled(s)
  BY <1>3 DEF Materials!Enrolled
<1>7. HoldsSeen(r)'
  BY <1>2, <1>4, <1>5, <1>6, Kinds DEF HoldsSeen
<1> QED
  BY <1>3, <1>4, <1>7, StepReads DEF MaterialsInv, TypeInv

LEMMA StepShowMaterials ==
  ASSUME Materials!ConstantsOK, MaterialsInv, NEW r \in Requests, Materials!ShowMaterials(r)
  PROVE  MaterialsInv'
<1> DEFINE shown == {m \in materials : m.subject \in request[r].enrolled}
           q == [request[r] EXCEPT !.shown = shown, !.phase = "ended"]
<1>0. /\ Materials!At(r, "list") /\ UNCHANGED <<subjects, relations, materials, interactions, submitted>>
      /\ request' = [request EXCEPT ![r] = q]
  BY DEF Materials!ShowMaterials
<1>1. request[r] \in ListRequest /\ request[r] # None
  BY <1>0, Phases DEF MaterialsInv, Materials!At
<1>2. /\ request[r].enrolled \subseteq Materials!Enrolled(request[r].student)
      /\ shown \in SUBSET Published
  BY <1>1 DEF MaterialsInv, TypeInv, RequestInv, HoldsSeen
<1>3. \A m \in shown : m.subject \in Materials!Enrolled(request[r].student)
  BY <1>2
<1> HIDE DEF shown
<1>4. /\ q \in ListRequest /\ q.student = request[r].student
      /\ q.enrolled = request[r].enrolled /\ q.shown = shown
  BY <1>1, <1>2 DEF ListRequest
<1> HIDE DEF q
<1>5. q \in RequestTypes
  BY <1>4 DEF RequestTypes
<1>6. request'[r] = q
  BY <1>0 DEF MaterialsInv, TypeInv
<1>7. \A t : Materials!Enrolled(t)' = Materials!Enrolled(t)
  BY <1>0 DEF Materials!Enrolled
<1>8. HoldsSeen(r)'
  BY <1>2, <1>3, <1>4, <1>5, <1>6, <1>7, Kinds DEF HoldsSeen
<1> QED
  BY <1>0, <1>5, <1>8, StepReads DEF MaterialsInv, TypeInv

\* What a visit writes: a new entry, or the one that was found, with its
\* student, its material and any submission it had.
LEMMA WritesVisit ==
  ASSUME Materials!ConstantsOK, MaterialsInv, NEW r \in Requests, request[r] \in VisitRequest
  PROVE  /\ Materials!Entry(r) \in Visits /\ Materials!Entry(r).student = request[r].student
         /\ Materials!Entry(r).material = request[r].material.id
         /\ request[r].status = "submitted" => Materials!Entry(r).submission # None
         /\ \A i \in Visits :
              /\ Materials!Patched(r, i) \in Visits /\ Materials!Patched(r, i).id = i.id
              /\ Materials!Patched(r, i).student = i.student /\ Materials!Patched(r, i).material = i.material
              /\ i.submission # None \/ request[r].status = "submitted" =>
                   Materials!Patched(r, i).submission # None
<1> DEFINE sub == IF request[r].status = "submitted" THEN r ELSE None
<1>1. /\ request[r].student \in Students /\ request[r].material \in Published
      /\ request[r].status \in Materials!Statuses /\ None \notin Requests
  BY DEF VisitRequest, Materials!ConstantsOK
<1>2. request[r].material.id \in Requests
  BY <1>1 DEF Published
<1>3. sub \in Requests \cup {None} /\ (request[r].status = "submitted" => sub # None)
  BY <1>1
<1>4. Materials!Entry(r) = [id |-> r, student |-> request[r].student, material |-> request[r].material.id,
                            status |-> request[r].status, submission |-> sub]
  BY DEF Materials!Entry
<1> HIDE DEF sub
<1>5. /\ Materials!Entry(r) \in Visits /\ Materials!Entry(r).student = request[r].student
      /\ Materials!Entry(r).material = request[r].material.id /\ Materials!Entry(r).submission = sub
  BY <1>1, <1>2, <1>3, <1>4 DEF Visits
<1>6. ASSUME NEW i \in Visits
      PROVE  /\ Materials!Patched(r, i) \in Visits /\ Materials!Patched(r, i).id = i.id
             /\ Materials!Patched(r, i).student = i.student /\ Materials!Patched(r, i).material = i.material
             /\ i.submission # None \/ request[r].status = "submitted" =>
                  Materials!Patched(r, i).submission # None
  <2> DEFINE new == IF request[r].status = "submitted" THEN r ELSE i.submission
  <2>1. /\ new \in Requests \cup {None}
        /\ i.submission # None \/ request[r].status = "submitted" => new # None
    BY <1>1 DEF Visits
  <2>2. Materials!Patched(r, i) = [i EXCEPT !.status = request[r].status, !.submission = new]
    BY DEF Materials!Patched
  <2> HIDE DEF new
  <2>3. /\ Materials!Patched(r, i) \in Visits /\ Materials!Patched(r, i).id = i.id
        /\ Materials!Patched(r, i).student = i.student /\ Materials!Patched(r, i).material = i.material
        /\ Materials!Patched(r, i).submission = new
    BY <1>1, <2>1, <2>2 DEF Visits
  <2> QED
    BY <2>1, <2>3
<1> QED
  BY <1>3, <1>5, <1>6

LEMMA StepWrite ==
  ASSUME Materials!ConstantsOK, MaterialsInv, NEW r \in Requests, Materials!WriteInteraction(r)
  PROVE  MaterialsInv'
<1> DEFINE s == request[r].student
           m == request[r].material
           q == [request[r] EXCEPT !.phase = "ended"]
           p == <<s, m.id>>
<1>0. /\ Materials!At(r, "write") /\ Materials!Step(r, "ended") /\ UNCHANGED <<subjects, relations, materials>>
      /\ interactions' = IF request[r].existing = None
                         THEN interactions \cup {Materials!Entry(r)}
                         ELSE {IF i.id = request[r].existing THEN Materials!Patched(r, i) ELSE i :
                                 i \in interactions}
      /\ submitted' = IF request[r].status = "submitted" THEN submitted \cup {p} ELSE submitted
  BY DEF Materials!WriteInteraction, Materials!Acknowledge
<1>1. /\ request[r] \in VisitRequest /\ request[r] # None
      /\ interactions \subseteq Visits /\ submitted \subseteq Students \X Requests
  BY <1>0, Phases DEF MaterialsInv, TypeInv, Materials!At
<1>2. /\ m \in materials /\ m.subject \in Materials!Enrolled(s)
      /\ request[r].existing # None => \E i \in Materials!Existing(r) : i.id = request[r].existing
  BY <1>1 DEF MaterialsInv, RequestInv, HoldsSeen
<1>3. s \in Students /\ m.id \in Requests
  BY <1>1 DEF VisitRequest, Published
<1>4. /\ q \in VisitRequest /\ q.student = s /\ q.material = m
      /\ q.existing = request[r].existing
  BY <1>1 DEF VisitRequest
<1>5. request' = [request EXCEPT ![r] = q] /\ request'[r] = q
  BY <1>0 DEF Materials!Step, MaterialsInv, TypeInv
<1> HIDE DEF q, s, m
\* Every entry stays, and keeps what it says of a submission.
<1>6. /\ interactions' \subseteq Visits
      /\ \A i \in interactions : \E j \in interactions' :
           /\ j.id = i.id /\ j.student = i.student /\ j.material = i.material
           /\ i.submission # None => j.submission # None
      /\ \A j \in interactions' :
           \/ \E i \in interactions : j.student = i.student /\ j.material = i.material
           \/ j.student = s /\ j.material = m.id
      /\ request[r].status = "submitted" => \E j \in interactions' :
           j.student = s /\ j.material = m.id /\ j.submission # None
  <2>1. CASE request[r].existing = None
    <3>1. interactions' = interactions \cup {Materials!Entry(r)}
      BY <1>0, <2>1
    <3> QED
      BY <1>1, <3>1, WritesVisit DEF s, m
  <2>2. CASE request[r].existing # None
    <3> DEFINE new(i) == IF i.id = request[r].existing THEN Materials!Patched(r, i) ELSE i
    <3>1. interactions' = {new(i) : i \in interactions}
      BY <1>0, <2>2
    <3>2. \A i \in interactions :
            /\ new(i) \in Visits /\ new(i).id = i.id
            /\ new(i).student = i.student /\ new(i).material = i.material
            /\ i.submission # None => new(i).submission # None
            /\ i.id = request[r].existing /\ request[r].status = "submitted" =>
                 new(i).submission # None
      BY <1>1, WritesVisit
    <3>3. PICK i \in interactions :
            i.id = request[r].existing /\ i.student = s /\ i.material = m.id
      BY <1>2, <2>2 DEF Materials!Existing, s, m
    <3> HIDE DEF new
    <3> QED
      BY <3>1, <3>2, <3>3
  <2> QED
    BY <2>1, <2>2
<1>7. Grows
  BY <1>0, <1>6 DEF Grows
<1>8. q \in RequestTypes
  BY <1>4 DEF RequestTypes
<1>9. \A t : Materials!Enrolled(t)' = Materials!Enrolled(t)
  BY <1>0 DEF Materials!Enrolled
<1>10. request[r].existing # None => \E i \in Materials!Existing(r)' : i.id = request[r].existing
  BY <1>2, <1>4, <1>5, <1>6 DEF Materials!Existing, s, m
<1>11. HoldsSeen(r)'
  BY <1>0, <1>2, <1>4, <1>5, <1>8, <1>9, <1>10, Kinds DEF HoldsSeen
<1>12. submitted' \subseteq Students \X Requests
  BY <1>0, <1>1, <1>3
<1>13. RequestInv' /\ TypeInv'
  BY <1>0, <1>5, <1>6, <1>7, <1>8, <1>11, <1>12, RequestGoes DEF MaterialsInv, TypeInv
<1>14. VisitsInv'
  BY <1>0, <1>2, <1>6, <1>9 DEF MaterialsInv, VisitsInv
<1>15. Materials!SubmissionStays'
  <2> SUFFICES ASSUME NEW x \in submitted'
               PROVE  \E j \in interactions' :
                        j.student = x[1] /\ j.material = x[2] /\ j.submission # None
    BY DEF Materials!SubmissionStays
  <2>1. CASE x \in submitted
    <3>1. PICK i \in interactions :
            i.student = x[1] /\ i.material = x[2] /\ i.submission # None
      BY <2>1 DEF MaterialsInv, Materials!SubmissionStays
    <3> QED
      BY <1>6, <3>1
  <2>2. CASE x \notin submitted
    <3>1. request[r].status = "submitted" /\ x = <<s, m.id>>
      BY <1>0, <2>2 DEF s, m
    <3> QED
      BY <1>6, <3>1
  <2> QED
    BY <2>1, <2>2
<1> QED
  BY <1>0, <1>13, <1>14, <1>15 DEF MaterialsInv, Materials!MaterialStaysInside

-----------------------------------------------------------------------------
\* The institute changes its subjects

LEMMA StepSubject ==
  ASSUME Materials!ConstantsOK, MaterialsInv, NEW x \in Subjects,
         Materials!DeleteSubject(x) \/ (\E t \in Teachers : Materials!Reassign(x, t))
  PROVE  MaterialsInv'
<1>1. UNCHANGED <<relations, materials, interactions, request, submitted>>
  BY DEF Materials!DeleteSubject, Materials!Reassign
<1>2. subjects' \in [Subjects -> [teacher : Teachers, live : BOOLEAN]]
  BY DEF MaterialsInv, TypeInv, Materials!DeleteSubject, Materials!Reassign
<1> QED
  BY <1>1, <1>2 DEF MaterialsInv, TypeInv, RequestInv, HoldsSeen, Materials!Existing, Materials!Enrolled, VisitsInv,
     Materials!SubmissionStays, Materials!MaterialStaysInside

LEMMA MaterialsStep ==
  ASSUME Materials!ConstantsOK, MaterialsInv, [Materials!Next]_Materials!vars
  PROVE  MaterialsInv'
<1>1. ASSUME NEW r \in Requests, NEW s \in Students, NEW list \in SubjectLists, Materials!LinkSubjects(r, s, list)
      PROVE  MaterialsInv'
  BY <1>1, StepEnrolment
<1>2. ASSUME NEW r \in Requests, Materials!CheckRelation(r) \/ Materials!CheckSubject(r) \/ Materials!InsertRelation(r)
      PROVE  MaterialsInv'
  BY <1>2, StepEnrolment
<1>3. ASSUME NEW r \in Requests, NEW s \in Students, NEW m \in materials,
             NEW visit \in Materials!Statuses, Materials!Interact(r, s, m, visit)
      PROVE  MaterialsInv'
  BY <1>3, StepInteract
<1>4. ASSUME NEW r \in Requests, NEW s \in Students, Materials!AskMaterials(r, s) PROVE MaterialsInv'
  BY <1>4, StepAskMaterials
<1>5. ASSUME NEW r \in Requests, NEW t \in Teachers, NEW x \in Subjects, NEW own \in BOOLEAN,
             Materials!Publish(r, t, x, own)
      PROVE  MaterialsInv'
  BY <1>5, StepPublish
<1>6. ASSUME NEW r \in Requests,
             \/ Materials!InsertMaterial(r) \/ Materials!FindInteraction(r)
             \/ Materials!WriteInteraction(r) \/ Materials!ShowMaterials(r)
      PROVE  MaterialsInv'
  BY <1>6, StepInsertMaterial, StepFind, StepWrite, StepShowMaterials
<1>7. ASSUME NEW x \in Subjects, Materials!DeleteSubject(x) \/ (\E t \in Teachers : Materials!Reassign(x, t))
      PROVE  MaterialsInv'
  BY <1>7, StepSubject
<1>8. CASE UNCHANGED Materials!vars
  BY <1>8 DEF Materials!vars, MaterialsInv, TypeInv, RequestInv, HoldsSeen, Materials!Existing, Materials!Enrolled, VisitsInv,
     Materials!SubmissionStays, Materials!MaterialStaysInside
<1> QED
  BY <1>1, <1>2, <1>3, <1>4, <1>5, <1>6, <1>7, <1>8 DEF Materials!Next

LEMMA MaterialsHold ==
  ASSUME MaterialsInv
  PROVE  Materials!TypeOK /\ Materials!MaterialsForEnrolled
<1>1. Materials!TypeOK
  <2>1. \A r \in Requests : request[r] # None =>
          request[r].phase \in {"relation", "subject", "insert", "publish", "own", "write",
                               "list", "ended"}
    BY DEF MaterialsInv, TypeInv, RequestTypes, LinkRequest, Enrolling, PublishRequest, VisitRequest,
       ListRequest
  <2> QED
    BY <2>1 DEF MaterialsInv, TypeInv, Materials!TypeOK, Relations, Published, Visits
<1>2. Materials!OnlyForEnrolled
  <2> SUFFICES ASSUME NEW r \in Requests, request[r] # None, "shown" \in DOMAIN request[r],
                      NEW m \in request[r].shown
               PROVE  m.subject \in Materials!Enrolled(request[r].student)
    BY DEF MaterialsInv, VisitsInv, Materials!OnlyForEnrolled
  <2>1. request[r] \in ListRequest
    BY DEF MaterialsInv, TypeInv, RequestTypes, LinkRequest, Enrolling, PublishRequest, VisitRequest
  <2> QED
    BY <2>1 DEF MaterialsInv, RequestInv, HoldsSeen
<1> QED
  BY <1>1, <1>2 DEF MaterialsInv, Materials!MaterialsForEnrolled


-----------------------------------------------------------------------------
\* Cached lists: the inductive invariant

\* What a reader loaded is current unless the list was changed since.
ReaderKnows ==
  \A r \in Readers :
    reader[r] # None /\ ~reader[r].raced => reader[r].version = data[reader[r].list]

\* A writer that changed the list will still find its entry, or has found it.
WillDelete(w, l) ==
  /\ l \in writer[w].lists
  /\ \/ writer[w].at = "scan"
     \/ writer[w].at \in {"scanning", "delete"} /\ l \in writer[w].keys

\* An entry that is out of date without a race or a missed bust is one that a
\* writer at work is going to delete.
Covered ==
  \A l \in Lists :
    Cache!Stale(l) /\ ~entry[l].raced /\ l \notin missed => \E w \in Writers : WillDelete(w, l)

CacheInv ==
  /\ Cache!TypeOK
  /\ ReaderKnows
  /\ Covered

LEMMA CacheInit ==
  ASSUME Cache!ConstantsOK, Cache!Init
  PROVE  CacheInv
<1>1. Cache!TypeOK
  BY DEF Cache!Init, Cache!TypeOK, Cache!ConstantsOK, Cache!Progress
<1>2. ReaderKnows /\ Covered
  BY DEF Cache!Init, ReaderKnows, Covered, Cache!Stale
<1> QED
  BY <1>1, <1>2 DEF CacheInv

-----------------------------------------------------------------------------
\* Readers

LEMMA StepLoad ==
  ASSUME Cache!ConstantsOK, CacheInv, NEW r \in Readers, NEW l \in Lists, Cache!Load(r, l)
  PROVE  CacheInv'
<1> DEFINE new == [list |-> l, version |-> data[l], raced |-> FALSE]
<1>0. /\ UNCHANGED <<data, entry, writer, missed>>
      /\ reader' = [reader EXCEPT ![r] = new]
  BY DEF Cache!Load
<1>1. reader \in [Readers -> Cache!Reading \cup {None}] /\ data \in [Lists -> 0..MaxWrites]
  BY DEF CacheInv, Cache!TypeOK
<1>2. new \in Cache!Reading /\ new.version = data[new.list]
  BY <1>1 DEF Cache!Reading
<1> HIDE DEF new
<1>3. Cache!TypeOK'
  BY <1>0, <1>1, <1>2 DEF CacheInv, Cache!TypeOK
<1>4. ReaderKnows'
  BY <1>0, <1>1, <1>2 DEF CacheInv, ReaderKnows
<1>5. Covered'
  BY <1>0 DEF CacheInv, Covered, Cache!Stale, WillDelete
<1> QED
  BY <1>3, <1>4, <1>5 DEF CacheInv

\* A stored entry is current, or its load overlapped a change.
LEMMA StepStore ==
  ASSUME Cache!ConstantsOK, CacheInv, NEW r \in Readers, Cache!Store(r)
  PROVE  CacheInv'
<1> DEFINE l == reader[r].list
           new == [version |-> reader[r].version, raced |-> reader[r].raced]
<1>0. /\ UNCHANGED <<data, writer>> /\ reader[r] # None
      /\ entry' = [entry EXCEPT ![l] = new] /\ missed' = missed \ {l}
      /\ reader' = [reader EXCEPT ![r] = None]
  BY DEF Cache!Store
<1>1. /\ reader \in [Readers -> Cache!Reading \cup {None}] /\ data \in [Lists -> 0..MaxWrites]
      /\ entry \in [Lists -> Cache!Entry \cup {None}]
  BY DEF CacheInv, Cache!TypeOK
<1>2. reader[r] \in Cache!Reading
  BY <1>0, <1>1
<1>3. /\ l \in Lists /\ new \in Cache!Entry
      /\ new.version = reader[r].version /\ new.raced = reader[r].raced
  BY <1>2 DEF Cache!Reading, Cache!Entry
<1>4. ~new.raced => new.version = data[l]
  BY <1>0, <1>3 DEF CacheInv, ReaderKnows
<1> HIDE DEF l, new
<1>5. entry'[l] = new /\ \A k \in Lists \ {l} : entry'[k] = entry[k] /\ (k \in missed' <=> k \in missed)
  BY <1>0, <1>1, <1>3
<1>6. Cache!TypeOK'
  BY <1>0, <1>1, <1>3 DEF CacheInv, Cache!TypeOK
<1>7. ReaderKnows'
  BY <1>0, <1>1 DEF CacheInv, ReaderKnows
<1>8. Covered'
  <2> SUFFICES ASSUME NEW k \in Lists, Cache!Stale(k)', ~entry'[k].raced, k \notin missed'
               PROVE  \E w \in Writers : WillDelete(w, k)'
    BY DEF Covered
  <2>1. k # l
    BY <1>0, <1>4, <1>5 DEF Cache!Stale
  <2>2. Cache!Stale(k) /\ ~entry[k].raced /\ k \notin missed
    BY <1>0, <1>5, <2>1 DEF Cache!Stale
  <2>3. PICK w \in Writers : WillDelete(w, k)
    BY <2>2 DEF CacheInv, Covered
  <2> QED
    BY <1>0, <2>3 DEF WillDelete
<1> QED
  BY <1>6, <1>7, <1>8 DEF CacheInv

LEMMA StepExpire ==
  ASSUME Cache!ConstantsOK, CacheInv, NEW l \in Lists, Cache!Expire(l)
  PROVE  CacheInv'
<1>0. /\ UNCHANGED <<data, reader, writer, missed>>
      /\ entry' = [entry EXCEPT ![l] = None]
  BY DEF Cache!Expire
<1>1. entry \in [Lists -> Cache!Entry \cup {None}]
  BY DEF CacheInv, Cache!TypeOK
<1>2. entry'[l] = None /\ \A k \in Lists \ {l} : entry'[k] = entry[k]
  BY <1>0, <1>1
<1>3. Cache!TypeOK'
  BY <1>0, <1>1 DEF CacheInv, Cache!TypeOK
<1>4. ReaderKnows'
  BY <1>0 DEF CacheInv, ReaderKnows
<1>5. Covered'
  BY <1>0, <1>2 DEF CacheInv, Covered, Cache!Stale, WillDelete
<1> QED
  BY <1>3, <1>4, <1>5 DEF CacheInv

-----------------------------------------------------------------------------
\* Writers

\* Every list that is changed has a writer that is about to scan.
LEMMA StepChange ==
  ASSUME Cache!ConstantsOK, CacheInv, NEW w \in Writers, Cache!Change(w)
  PROVE  CacheInv'
<1>0. PICK lists \in SUBSET Lists \ {{}} :
        /\ \A l \in lists : data[l] < MaxWrites
        /\ Cache!Changed(lists)
        /\ Cache!Goes(w, [at |-> "scan", keys |-> {}, lists |-> lists])
  BY DEF Cache!Change
<1> DEFINE next == [at |-> "scan", keys |-> {}, lists |-> lists]
<1>1. /\ writer \in [Writers -> Cache!Progress] /\ reader \in [Readers -> Cache!Reading \cup {None}]
      /\ data \in [Lists -> 0..MaxWrites] /\ MaxWrites \in Nat
      /\ UNCHANGED <<entry, missed>> /\ writer[w].at = "idle"
  BY DEF CacheInv, Cache!TypeOK, Cache!Change, Cache!ConstantsOK
<1>2. /\ next \in Cache!Progress /\ next.at = "scan" /\ next.lists = lists
      /\ writer' = [writer EXCEPT ![w] = next]
  BY <1>0 DEF Cache!Progress, Cache!Goes
<1> HIDE DEF next
<1>3. /\ writer'[w] = next /\ \A v \in Writers \ {w} : writer'[v] = writer[v]
      /\ writer' \in [Writers -> Cache!Progress]
  BY <1>1, <1>2
<1>4. /\ data' \in [Lists -> 0..MaxWrites]
      /\ \A l \in Lists : l \notin lists => data'[l] = data[l]
  BY <1>0, <1>1 DEF Cache!Changed
<1>5. \A r \in Readers :
         \/ reader'[r] = reader[r] /\ (reader[r] # None => reader[r].list \notin lists)
         \/ /\ reader[r] # None /\ reader'[r] = [reader[r] EXCEPT !.raced = TRUE]
  BY <1>0 DEF Cache!Changed
<1>6. \A r \in Readers :
         \/ reader'[r] = reader[r] /\ (reader[r] # None => reader[r].list \notin lists)
         \/ reader'[r] \in Cache!Reading /\ reader'[r].raced
  BY <1>1, <1>5 DEF Cache!Reading
<1>7. reader' \in [Readers -> Cache!Reading \cup {None}]
  <2>1. reader' = [r \in Readers |-> reader'[r]]
    BY <1>0 DEF Cache!Changed
  <2>2. \A r \in Readers : reader'[r] \in Cache!Reading \cup {None}
    BY <1>1, <1>6
  <2> QED
    BY <2>1, <2>2
<1>8. Cache!TypeOK'
  BY <1>1, <1>2, <1>3, <1>4, <1>7 DEF CacheInv, Cache!TypeOK
<1>9. ReaderKnows'
  <2> SUFFICES ASSUME NEW r \in Readers, reader'[r] # None, ~reader'[r].raced
               PROVE  reader'[r].version = data'[reader'[r].list]
    BY DEF ReaderKnows
  <2>1. reader'[r] = reader[r] /\ reader[r].list \notin lists
    BY <1>6
  <2>2. reader[r].version = data[reader[r].list] /\ reader[r] \in Cache!Reading
    BY <1>1, <2>1 DEF CacheInv, ReaderKnows
  <2> QED
    BY <1>4, <2>1, <2>2 DEF Cache!Reading
<1>10. Covered'
  <2> SUFFICES ASSUME NEW l \in Lists, Cache!Stale(l)', ~entry'[l].raced, l \notin missed'
               PROVE  \E v \in Writers : WillDelete(v, l)'
    BY DEF Covered
  <2>1. CASE l \in lists
    BY <1>2, <1>3, <2>1 DEF WillDelete
  <2>2. CASE l \notin lists
    <3>1. Cache!Stale(l) /\ ~entry[l].raced /\ l \notin missed
      BY <1>1, <1>4, <2>2 DEF Cache!Stale
    <3>2. PICK v \in Writers : WillDelete(v, l)
      BY <3>1 DEF CacheInv, Covered
    <3>3. v # w
      BY <1>1, <3>2 DEF WillDelete
    <3> QED
      BY <1>3, <3>2, <3>3 DEF WillDelete
  <2> QED
    BY <2>1, <2>2
<1> QED
  BY <1>8, <1>9, <1>10 DEF CacheInv

\* A writer goes on, and deletes nothing yet; its lists are still covered, or
\* missed from now on.
LEMMA StepScans ==
  ASSUME Cache!ConstantsOK, CacheInv, NEW w \in Writers, NEW next \in Cache!Progress,
         next.at = "idle" => next.keys = {},
         writer' = [writer EXCEPT ![w] = next],
         missed' \subseteq Lists, missed \subseteq missed',
         \A l \in Cache!Cached : WillDelete(w, l) =>
             \/ l \in missed'
             \/ l \in next.lists /\ next.at \in {"scanning", "delete"} /\ l \in next.keys,
         UNCHANGED <<data, entry, reader>>
  PROVE  CacheInv'
<1>1. writer \in [Writers -> Cache!Progress]
  BY DEF CacheInv, Cache!TypeOK
<1>2. writer'[w] = next /\ \A v \in Writers \ {w} : writer'[v] = writer[v]
  BY <1>1
<1>3. Cache!TypeOK'
  BY <1>1, <1>2 DEF CacheInv, Cache!TypeOK
<1>4. ReaderKnows'
  BY DEF CacheInv, ReaderKnows
<1>5. Covered'
  <2> SUFFICES ASSUME NEW l \in Lists, Cache!Stale(l)', ~entry'[l].raced, l \notin missed'
               PROVE  \E v \in Writers : WillDelete(v, l)'
    BY DEF Covered
  <2>1. Cache!Stale(l) /\ ~entry[l].raced /\ l \notin missed /\ l \in Cache!Cached
    BY DEF Cache!Stale, Cache!Cached
  <2>2. PICK v \in Writers : WillDelete(v, l)
    BY <2>1 DEF CacheInv, Covered
  <2>3. CASE v = w
    BY <1>2, <2>1, <2>2, <2>3 DEF WillDelete
  <2>4. CASE v # w
    BY <1>2, <2>2, <2>4 DEF WillDelete
  <2> QED
    BY <2>3, <2>4
<1> QED
  BY <1>3, <1>4, <1>5 DEF CacheInv

LEMMA StepScanBegin ==
  ASSUME Cache!ConstantsOK, CacheInv, NEW w \in Writers, Cache!ScanBegin(w)
  PROVE  CacheInv'
<1> DEFINE next == [writer[w] EXCEPT !.at = "scanning", !.keys = Cache!Cached]
<1>1. writer[w] \in Cache!Progress /\ missed \subseteq Lists /\ Cache!Cached \subseteq Lists
  BY DEF CacheInv, Cache!TypeOK, Cache!Cached
<1>2. /\ next \in Cache!Progress /\ next.at = "scanning" /\ next.keys = Cache!Cached
      /\ next.lists = writer[w].lists
  BY <1>1 DEF Cache!Progress
<1>3. writer' = [writer EXCEPT ![w] = next] /\ UNCHANGED <<data, entry, reader, missed>>
  BY DEF Cache!ScanBegin, Cache!Goes
<1> HIDE DEF next
<1>4. \A l \in Cache!Cached : WillDelete(w, l) =>
         l \in next.lists /\ next.at \in {"scanning", "delete"} /\ l \in next.keys
  BY <1>2 DEF WillDelete
<1> QED
  BY <1>1, <1>2, <1>3, <1>4, StepScans

LEMMA StepScanEnd ==
  ASSUME Cache!ConstantsOK, CacheInv, NEW w \in Writers, Cache!ScanEnd(w)
  PROVE  CacheInv'
<1>1. writer[w] \in Cache!Progress /\ missed \subseteq Lists /\ Cache!Cached \subseteq Lists
  BY DEF CacheInv, Cache!TypeOK, Cache!Cached
<1>2. /\ writer[w].at = "scanning" /\ UNCHANGED <<data, entry, reader, missed>>
  BY DEF Cache!ScanEnd
<1>3. PICK late \in SUBSET Cache!Cached :
        writer' = [writer EXCEPT ![w] = [writer[w] EXCEPT !.at = "delete", !.keys = @ \cup late]]
  BY DEF Cache!ScanEnd, Cache!Goes
<1> DEFINE next == [writer[w] EXCEPT !.at = "delete", !.keys = @ \cup late]
<1>4. /\ next \in Cache!Progress /\ next.at = "delete" /\ next.keys = writer[w].keys \cup late
      /\ next.lists = writer[w].lists
  BY <1>1 DEF Cache!Progress
<1>5. writer' = [writer EXCEPT ![w] = next]
  BY <1>3
<1> HIDE DEF next
<1>6. \A l \in Cache!Cached : WillDelete(w, l) =>
         l \in next.lists /\ next.at \in {"scanning", "delete"} /\ l \in next.keys
  BY <1>2, <1>4 DEF WillDelete
<1> QED
  BY <1>1, <1>2, <1>4, <1>5, <1>6, StepScans

LEMMA StepMiss ==
  ASSUME Cache!ConstantsOK, CacheInv, NEW w \in Writers, Cache!Miss(w)
  PROVE  CacheInv'
<1> DEFINE next == [at |-> "idle", keys |-> {}, lists |-> {}]
<1>1. writer[w] \in Cache!Progress /\ missed \subseteq Lists
  BY DEF CacheInv, Cache!TypeOK
<1>2. next \in Cache!Progress /\ next.keys = {}
  BY DEF Cache!Progress
<1>3. /\ writer' = [writer EXCEPT ![w] = next] /\ UNCHANGED <<data, entry, reader>>
      /\ missed' = missed \cup writer[w].lists
  BY DEF Cache!Miss, Cache!Goes
<1> HIDE DEF next
<1>4. missed' \subseteq Lists
  BY <1>1, <1>3 DEF Cache!Progress
<1>5. \A l \in Cache!Cached : WillDelete(w, l) => l \in missed'
  BY <1>3 DEF WillDelete
<1> QED
  BY <1>2, <1>3, <1>4, <1>5, StepScans

LEMMA StepDeleteKeys ==
  ASSUME Cache!ConstantsOK, CacheInv, NEW w \in Writers, Cache!DeleteKeys(w)
  PROVE  CacheInv'
<1> DEFINE next == [at |-> "idle", keys |-> {}, lists |-> {}]
<1>0. /\ writer[w].at = "delete" /\ UNCHANGED <<data, reader, missed>>
      /\ entry' = [l \in Lists |-> IF l \in writer[w].keys THEN None ELSE entry[l]]
      /\ writer' = [writer EXCEPT ![w] = next]
  BY DEF Cache!DeleteKeys, Cache!Goes
<1>1. writer \in [Writers -> Cache!Progress] /\ entry \in [Lists -> Cache!Entry \cup {None}]
  BY DEF CacheInv, Cache!TypeOK
<1>2. next \in Cache!Progress /\ next.keys = {}
  BY DEF Cache!Progress
<1> HIDE DEF next
<1>3. writer'[w] = next /\ \A v \in Writers \ {w} : writer'[v] = writer[v]
  BY <1>0, <1>1
<1>4. entry' \in [Lists -> Cache!Entry \cup {None}]
  BY <1>0, <1>1
<1>5. Cache!TypeOK'
  BY <1>0, <1>1, <1>2, <1>3, <1>4 DEF CacheInv, Cache!TypeOK
<1>6. ReaderKnows'
  BY <1>0 DEF CacheInv, ReaderKnows
<1>7. Covered'
  <2> SUFFICES ASSUME NEW l \in Lists, Cache!Stale(l)', ~entry'[l].raced, l \notin missed'
               PROVE  \E v \in Writers : WillDelete(v, l)'
    BY DEF Covered
  <2>1. l \notin writer[w].keys /\ entry'[l] = entry[l]
    BY <1>0 DEF Cache!Stale
  <2>2. Cache!Stale(l) /\ ~entry[l].raced /\ l \notin missed
    BY <1>0, <2>1 DEF Cache!Stale
  <2>3. PICK v \in Writers : WillDelete(v, l)
    BY <2>2 DEF CacheInv, Covered
  <2>4. v # w
    BY <1>0, <2>1, <2>3 DEF WillDelete
  <2> QED
    BY <1>3, <2>3, <2>4 DEF WillDelete
<1> QED
  BY <1>5, <1>6, <1>7 DEF CacheInv

LEMMA CacheStep ==
  ASSUME Cache!ConstantsOK, CacheInv, [Cache!Next]_Cache!vars
  PROVE  CacheInv'
<1>1. ASSUME NEW l \in Lists, Cache!Expire(l) PROVE CacheInv'
  BY <1>1, StepExpire
<1>2. ASSUME NEW l \in Lists, NEW r \in Readers, Cache!Load(r, l) PROVE CacheInv'
  BY <1>2, StepLoad
<1>3. ASSUME NEW r \in Readers, Cache!Store(r) PROVE CacheInv'
  BY <1>3, StepStore
<1>4. ASSUME NEW w \in Writers,
             Cache!Change(w) \/ Cache!ScanBegin(w) \/ Cache!ScanEnd(w) \/ Cache!DeleteKeys(w) \/ Cache!Miss(w)
      PROVE  CacheInv'
  BY <1>4, StepChange, StepScanBegin, StepScanEnd, StepDeleteKeys, StepMiss
<1>5. CASE UNCHANGED Cache!vars
  BY <1>5 DEF Cache!vars, CacheInv, Cache!TypeOK, ReaderKnows, Covered, Cache!Stale, WillDelete
<1> QED
  BY <1>1, <1>2, <1>3, <1>4, <1>5 DEF Cache!Next

LEMMA CacheHolds ==
  ASSUME CacheInv
  PROVE  Cache!TypeOK /\ Cache!StaleOnlyIfRaced
BY DEF CacheInv, Covered, WillDelete, Cache!StaleOnlyIfRaced


-----------------------------------------------------------------------------
\* Accounts: the inductive invariant

\* What may explain that accounts a and b share a login id.
Explained(a, b) ==
  \/ b \in onAccount[a].met /\ a \in onAccount[b].met
  \/ \E e \in Actors :
       /\ onAccount[e].target \in {a, b}
       /\ \/ onAccount[e].does = "updateTutor"
          \/ onAccount[e].does = "updateFaculty" /\ onAccount[e].met # {}

\* A registration that has made sure of its login id and has no account yet.
Registering(q) == q.at = "account" \/ (q.at = "caller" /\ q.does # "student")

TaskFits(q) ==
  /\ q.at = "idle" => q.does = "faculty" /\ q.met = {}
  /\ q.at \in {"status", "faculty", "students", "members"} =>
       /\ q.does \in {"updateInstitute", "updateTutor"}
       /\ q.does = "updateInstitute" => q.target = "institute"
       /\ q.active # None
  /\ q.at \in {"adminAccess", "access"} => q.access # None
  /\ q.at = "email" => q.does \in {"updateTutor", "updateFaculty"}
  /\ q.at \in {"caller", "suffix", "account", "details"} =>
       q.does \in Accounts!Registrations /\ q.login \in LoginIds

\* Requests under way at the same time have met.
AllMeet ==
  \A r, q \in Actors : r # q /\ Accounts!Running(r) /\ Accounts!Running(q) => q \in onAccount[r].met

\* The login ids of accounts, also those that are about to get one.
LoginsApart ==
  \A a, b \in Actors : a # b /\ Accounts!Exists(a) =>
    /\ Accounts!Exists(b) /\ users[a].login = users[b].login => Explained(a, b)
    /\ Registering(onAccount[b]) /\ users[a].login = onAccount[b].login => Explained(a, b)

\* While an edit of a faculty member meets nobody, what it looked up holds.
EditsAlone ==
  \A e \in Actors :
    onAccount[e].at = "email" /\ onAccount[e].does = "updateFaculty" /\ onAccount[e].met = {} =>
      \A o \in Accounts!Accounts \ {onAccount[e].target} : users[o].login # onAccount[e].login

EnrolmentInv ==
  /\ Accounts!TypeOK
  /\ \A r \in Actors : TaskFits(onAccount[r])
  /\ AllMeet
  /\ LoginsApart
  /\ EditsAlone

LEMMA EnrolmentInit == ASSUME Accounts!ConstantsOK, Accounts!Init PROVE EnrolmentInv
<1>1. Accounts!TypeOK
  <2>1. ASSUME NEW r \in Actors PROVE onAccount[r] \in Accounts!Task
    BY DEF Accounts!Init, Accounts!ConstantsOK, Accounts!Task, Accounts!Endpoints, Accounts!Registrations, Accounts!Flag
  <2>2. onAccount \in [Actors -> Accounts!Task]
    <3>1. onAccount = [r \in Actors |-> onAccount[r]]
      BY DEF Accounts!Init
    <3> QED
      BY <2>1, <3>1
  <2> QED
    BY <2>2 DEF Accounts!Init, Accounts!ConstantsOK, Accounts!TypeOK
<1>2. \A r \in Actors : onAccount[r].at = "idle" /\ onAccount[r].does = "faculty" /\ onAccount[r].met = {}
  BY DEF Accounts!Init
<1>3. \A r \in Actors : ~Accounts!Exists(r) /\ ~Accounts!Running(r)
  BY <1>2 DEF Accounts!Init, Accounts!Exists, Accounts!Running
<1> QED
  BY <1>1, <1>2, <1>3 DEF EnrolmentInv, TaskFits, AllMeet, LoginsApart, EditsAlone

-----------------------------------------------------------------------------
\* What every step leaves

\* Accounts disappear or keep their login ids.
LoginsKept ==
  /\ users' \in [Actors -> Accounts!Account \cup {None}]
  /\ \A u \in Actors : users'[u] # None => users[u] # None /\ users'[u].login = users[u].login

\* Details disappear or are those of a request that ends.
DetailsKept(r) ==
  /\ details' \in [Actors -> Accounts!Detail \cup {None}]
  /\ \A u \in Actors : details'[u] # None =>
       details[u] # None \/ (u = r /\ onAccount'[r].at = "done")

\* A request that is under way goes on.
Advances(r, next) ==
  /\ Accounts!Running(r)
  /\ next \in Accounts!Task
  /\ TaskFits(next)
  /\ onAccount' = [onAccount EXCEPT ![r] = next]
  /\ next.does = onAccount[r].does /\ next.target = onAccount[r].target
  /\ next.met = onAccount[r].met /\ next.at # "idle"
  /\ next.at = "email" => next.does = "updateTutor"
  /\ DetailsKept(r)
  /\ admin' \in [active : BOOLEAN, access : BOOLEAN]
  /\ stops' \in 0 .. MaxStops

\* What explains a shared login id goes on doing so.
LEMMA StaysExplained ==
  ASSUME Accounts!TypeOK, NEW a \in Actors, NEW b \in Actors, Explained(a, b),
         \A q \in Actors : onAccount[q].met \subseteq onAccount'[q].met,
         \A q \in Actors : onAccount[q].at # "idle" =>
           onAccount'[q].does = onAccount[q].does /\ onAccount'[q].target = onAccount[q].target,
         \A q \in Actors : TaskFits(onAccount[q])
  PROVE  Explained(a, b)'
<1>1. CASE b \in onAccount[a].met /\ a \in onAccount[b].met
  BY <1>1 DEF Explained
<1>2. ASSUME NEW e \in Actors,
             onAccount[e].target \in {a, b},
             \/ onAccount[e].does = "updateTutor"
             \/ onAccount[e].does = "updateFaculty" /\ onAccount[e].met # {}
      PROVE  Explained(a, b)'
  <2>1. onAccount[e].at # "idle"
    BY <1>2 DEF TaskFits
  <2>2. onAccount'[e].does = onAccount[e].does /\ onAccount'[e].target = onAccount[e].target
        /\ onAccount[e].met \subseteq onAccount'[e].met
    BY <2>1
  <2> QED
    BY <1>2, <2>2 DEF Explained
<1> QED
  BY <1>1, <1>2 DEF Explained

LEMMA EnrolmentGoes ==
  ASSUME Accounts!ConstantsOK, EnrolmentInv, NEW r \in Actors, NEW next, Advances(r, next),
         users' \in [Actors -> Accounts!Account \cup {None}]
  PROVE  /\ Accounts!TypeOK'
         /\ \A q \in Actors : TaskFits(onAccount'[q])
         /\ AllMeet'
         /\ EditsAlone'
         /\ \A a, b \in Actors : Explained(a, b) => Explained(a, b)'
<1>1. /\ onAccount' \in [Actors -> Accounts!Task] /\ onAccount'[r] = next
      /\ \A q \in Actors \ {r} : onAccount'[q] = onAccount[q]
  BY DEF Advances, EnrolmentInv, Accounts!TypeOK
<1>2. \A u \in Actors : details'[u] # None => onAccount'[u].at = "done"
  BY <1>1 DEF Advances, DetailsKept, EnrolmentInv, Accounts!TypeOK, Accounts!Running
<1>3. Accounts!TypeOK'
  BY <1>1, <1>2 DEF Advances, DetailsKept, Accounts!TypeOK
<1>4. \A q \in Actors : TaskFits(onAccount'[q])
  BY <1>1 DEF Advances, EnrolmentInv
<1>5. \A q \in Actors : onAccount'[q].met = onAccount[q].met
  BY <1>1 DEF Advances
<1>6. \A q \in Actors : Accounts!Running(q)' => Accounts!Running(q)
  BY <1>1 DEF Advances, Accounts!Running
<1>7. AllMeet'
  BY <1>5, <1>6 DEF EnrolmentInv, AllMeet
<1>8. EditsAlone'
  <2> SUFFICES ASSUME NEW e \in Actors, onAccount'[e].at = "email",
                      onAccount'[e].does = "updateFaculty", onAccount'[e].met = {}
               PROVE  FALSE
    BY DEF EditsAlone
  <2>1. e # r
    BY <1>1 DEF Advances
  <2>2. onAccount[e].at = "email" /\ onAccount[e].met = {}
    BY <1>1, <2>1
  <2>3. r \in onAccount[e].met
    BY <2>1, <2>2 DEF Advances, EnrolmentInv, AllMeet, Accounts!Running
  <2> QED
    BY <2>2, <2>3
<1>9. \A q \in Actors : onAccount'[q].does = onAccount[q].does /\ onAccount'[q].target = onAccount[q].target
  BY <1>1 DEF Advances
<1>10. \A a, b \in Actors : Explained(a, b) => Explained(a, b)'
  BY <1>5, <1>9, StaysExplained DEF EnrolmentInv
<1> QED
  BY <1>3, <1>4, <1>7, <1>8, <1>10

\* Most steps change no login id: a request that makes sure of one finds it free.
LEMMA QuietRequest ==
  ASSUME Accounts!ConstantsOK, EnrolmentInv, NEW r \in Actors, NEW next, Advances(r, next), LoginsKept,
         Registering(next) => \/ Registering(onAccount[r]) /\ next.login = onAccount[r].login
                              \/ ~Accounts!Taken(next.login)
  PROVE  EnrolmentInv'
<1>1. /\ Accounts!TypeOK' /\ (\A q \in Actors : TaskFits(onAccount'[q]))
      /\ AllMeet' /\ EditsAlone'
      /\ \A a, b \in Actors : Explained(a, b) => Explained(a, b)'
  BY EnrolmentGoes DEF LoginsKept
<1>2. onAccount'[r] = next /\ \A q \in Actors \ {r} : onAccount'[q] = onAccount[q]
  BY DEF Advances, EnrolmentInv, Accounts!TypeOK
<1>3. LoginsApart'
  <2> SUFFICES ASSUME NEW a \in Actors, NEW b \in Actors, a # b, users'[a] # None,
                      \/ users'[b] # None /\ users'[a].login = users'[b].login
                      \/ Registering(onAccount'[b]) /\ users'[a].login = onAccount'[b].login
               PROVE  Explained(a, b)'
    BY DEF LoginsApart, Accounts!Exists
  <2>1. users[a] # None /\ users'[a].login = users[a].login
    BY DEF LoginsKept
  <2>2. CASE users'[b] # None /\ users'[a].login = users'[b].login
    <3>1. users[b] # None /\ users'[b].login = users[b].login
      BY <2>2 DEF LoginsKept
    <3> QED
      BY <1>1, <2>1, <2>2, <3>1 DEF EnrolmentInv, LoginsApart, Accounts!Exists
  <2>3. CASE Registering(onAccount'[b]) /\ users'[a].login = onAccount'[b].login
    <3>1. Registering(onAccount[b]) /\ onAccount[b].login = onAccount'[b].login
      BY <1>2, <2>1, <2>3 DEF Accounts!Taken, Accounts!Accounts, Accounts!Exists
    <3> QED
      BY <1>1, <2>1, <2>3, <3>1 DEF EnrolmentInv, LoginsApart, Accounts!Exists
  <2> QED
    BY <2>2, <2>3
<1> QED
  BY <1>1, <1>3 DEF EnrolmentInv

-----------------------------------------------------------------------------
\* Steps of a request under way

LEMMA EnrolmentCaller ==
  ASSUME Accounts!ConstantsOK, EnrolmentInv, NEW r \in Actors, Accounts!ReadCaller(r)
  PROVE  EnrolmentInv'
<1>1. onAccount[r] \in Accounts!Task /\ onAccount[r].at = "caller" /\ Accounts!Running(r)
  BY DEF Accounts!ReadCaller, EnrolmentInv, Accounts!TypeOK, Accounts!Running
<1>2. UNCHANGED <<users, details, admin, stops>>
  BY DEF Accounts!ReadCaller
<1>3. PICK next \in Accounts!Task :
        /\ onAccount' = [onAccount EXCEPT ![r] = next]
        /\ next.at \in {"account", "suffix", "done"}
        /\ next.at = "account" => onAccount[r].does # "student"
        /\ next.login = onAccount[r].login /\ next.does = onAccount[r].does
        /\ next.target = onAccount[r].target /\ next.met = onAccount[r].met
  <2>1. CASE onAccount[r].does = "faculty"
    <3> DEFINE n == [onAccount[r] EXCEPT !.at = "account", !.access = admin.access]
    <3>1. admin.access \in Accounts!Flag
      BY DEF EnrolmentInv, Accounts!TypeOK, Accounts!Flag
    <3>2. /\ n \in Accounts!Task /\ n.at = "account" /\ n.login = onAccount[r].login
          /\ n.does = onAccount[r].does /\ n.target = onAccount[r].target /\ n.met = onAccount[r].met
      BY <1>1, <3>1 DEF Accounts!Task
    <3>3. onAccount' = [onAccount EXCEPT ![r].at = "account", ![r].access = admin.access]
      BY <2>1 DEF Accounts!ReadCaller
    <3>4. onAccount' = [onAccount EXCEPT ![r] = n]
      BY <3>3 DEF EnrolmentInv, Accounts!TypeOK
    <3> QED
      BY <2>1, <3>2, <3>4
  <2>2. CASE onAccount[r].does = "student"
    <3>1. PICK at \in {"suffix", "done"} :
            onAccount' = [onAccount EXCEPT ![r].by = "institute", ![r].at = at]
      BY <2>2 DEF Accounts!ReadCaller
    <3> DEFINE n == [onAccount[r] EXCEPT !.by = "institute", !.at = at]
    <3>2. /\ n \in Accounts!Task /\ n.at = at /\ n.login = onAccount[r].login
          /\ n.does = onAccount[r].does /\ n.target = onAccount[r].target /\ n.met = onAccount[r].met
      BY <1>1 DEF Accounts!Task
    <3>3. onAccount' = [onAccount EXCEPT ![r] = n]
      BY <3>1 DEF EnrolmentInv, Accounts!TypeOK
    <3> QED
      BY <2>2, <3>1, <3>2, <3>3
  <2>3. CASE onAccount[r].does \notin {"faculty", "student"}
    <3>1. PICK at \in {"account", "done"} : onAccount' = [onAccount EXCEPT ![r].at = at]
      BY <2>3 DEF Accounts!ReadCaller, Accounts!To
    <3> DEFINE n == [onAccount[r] EXCEPT !.at = at]
    <3>2. /\ n \in Accounts!Task /\ n.at = at /\ n.login = onAccount[r].login
          /\ n.does = onAccount[r].does /\ n.target = onAccount[r].target /\ n.met = onAccount[r].met
      BY <1>1 DEF Accounts!Task
    <3>3. onAccount' = [onAccount EXCEPT ![r] = n]
      BY <3>1 DEF EnrolmentInv, Accounts!TypeOK
    <3> QED
      BY <2>3, <3>1, <3>2, <3>3
  <2> QED
    BY <2>1, <2>2, <2>3
<1>4. Advances(r, next) /\ LoginsKept
  BY <1>1, <1>2, <1>3 DEF Advances, DetailsKept, LoginsKept, TaskFits, EnrolmentInv, Accounts!TypeOK
<1>5. Registering(next) => Registering(onAccount[r]) /\ next.login = onAccount[r].login
  BY <1>1, <1>3 DEF Registering
<1> QED
  BY <1>4, <1>5, QuietRequest

LEMMA EnrolmentPick ==
  ASSUME Accounts!ConstantsOK, EnrolmentInv, NEW r \in Actors, Accounts!PickLogin(r)
  PROVE  EnrolmentInv'
<1>1. onAccount[r] \in Accounts!Task /\ onAccount[r].at = "suffix" /\ Accounts!Running(r)
  BY DEF Accounts!PickLogin, EnrolmentInv, Accounts!TypeOK, Accounts!Running
<1>2. PICK at \in {"account", "suffix"}, address \in LoginIds :
        /\ onAccount' = [onAccount EXCEPT ![r] = [onAccount[r] EXCEPT !.login = address, !.at = at]]
        /\ at = "account" => ~Accounts!Taken(address)
  <2>1. onAccount[r].login \in LoginIds \cup {None} /\ Accounts!NextLogin(onAccount[r].login) \in LoginIds
    BY <1>1 DEF Accounts!PickLogin, Accounts!Task
  <2>2. CASE Accounts!NextLogin(onAccount[r].login) = onAccount[r].login
    <3>1. ~Accounts!Taken(onAccount[r].login)
      <4> SUFFICES ASSUME Accounts!Taken(onAccount[r].login) PROVE FALSE
        OBVIOUS
      <4>1. onAccount[r].login + 1 = onAccount[r].login /\ onAccount[r].login \in Nat
        BY <2>1, <2>2 DEF Accounts!NextLogin, Accounts!ConstantsOK
      <4> QED
        BY <4>1
    <3> QED
      BY <2>1, <2>2, <3>1 DEF Accounts!PickLogin
  <2>3. CASE Accounts!NextLogin(onAccount[r].login) # onAccount[r].login
    BY <2>1, <2>3 DEF Accounts!PickLogin
  <2> QED
    BY <2>2, <2>3
<1> DEFINE next == [onAccount[r] EXCEPT !.login = address, !.at = at]
<1>3. /\ next \in Accounts!Task /\ next.at = at /\ next.login = address
      /\ next.does = onAccount[r].does /\ next.target = onAccount[r].target
      /\ next.met = onAccount[r].met
  BY <1>1 DEF Accounts!Task
<1>4. onAccount' = [onAccount EXCEPT ![r] = next]
  BY <1>2 DEF EnrolmentInv, Accounts!TypeOK
<1>5. UNCHANGED <<users, details, admin, stops>>
  BY DEF Accounts!PickLogin
<1> HIDE DEF next
<1>6. Advances(r, next) /\ LoginsKept
  BY <1>1, <1>2, <1>3, <1>4, <1>5 DEF Advances, DetailsKept, LoginsKept, TaskFits, EnrolmentInv, Accounts!TypeOK
<1>7. Registering(next) => ~Accounts!Taken(next.login)
  BY <1>2, <1>3 DEF Registering
<1> QED
  BY <1>6, <1>7, QuietRequest

\* The other steps change where the request is and what it has found.
LEMMA FoundOnly ==
  ASSUME Accounts!ConstantsOK, EnrolmentInv, NEW r \in Actors, Accounts!Running(r),
         NEW at, NEW found \in SUBSET Actors,
         onAccount' = [onAccount EXCEPT ![r] = [onAccount[r] EXCEPT !.at = at, !.found = found]],
         [onAccount[r] EXCEPT !.at = at, !.found = found] \in Accounts!Task,
         TaskFits([onAccount[r] EXCEPT !.at = at, !.found = found]),
         at \notin {"idle", "caller", "account"},
         at = "email" => onAccount[r].does = "updateTutor",
         DetailsKept(r), LoginsKept,
         admin' \in [active : BOOLEAN, access : BOOLEAN], stops' \in 0 .. MaxStops
  PROVE  EnrolmentInv'
<1> DEFINE next == [onAccount[r] EXCEPT !.at = at, !.found = found]
<1>1. onAccount[r] \in Accounts!Task
  BY DEF EnrolmentInv, Accounts!TypeOK
<1>2. /\ next \in Accounts!Task /\ TaskFits(next) /\ next.at = at
      /\ next.does = onAccount[r].does /\ next.target = onAccount[r].target
      /\ next.met = onAccount[r].met
  BY <1>1 DEF Accounts!Task
<1>3. onAccount' = [onAccount EXCEPT ![r] = next]
  OBVIOUS
<1> HIDE DEF next
<1>4. Advances(r, next)
  BY <1>2, <1>3 DEF Advances
<1>5. ~Registering(next)
  BY <1>2 DEF Registering
<1> QED
  BY <1>4, <1>5, QuietRequest

\* Steps that touch neither account nor details.
LEMMA EnrolmentLists ==
  ASSUME Accounts!ConstantsOK, EnrolmentInv, NEW r \in Actors,
         Accounts!ListFaculty(r) \/ Accounts!ListStudents(r) \/ Accounts!ListForAccess(r) \/ Accounts!SetAdminAccess(r)
           \/ Accounts!FindStudents(r) \/ Accounts!Stop(r)
  PROVE  EnrolmentInv'
<1>1. onAccount[r] \in Accounts!Task /\ TaskFits(onAccount[r]) /\ Accounts!Running(r)
  BY DEF EnrolmentInv, Accounts!TypeOK, Accounts!ListFaculty, Accounts!ListStudents, Accounts!ListForAccess, Accounts!SetAdminAccess,
     Accounts!FindStudents, Accounts!Stop, Accounts!Running
<1>2. \A owner, roles : Accounts!Members(owner, roles) \in SUBSET Actors
  BY DEF Accounts!Members
<1>3. LoginsKept /\ DetailsKept(r)
  BY DEF LoginsKept, DetailsKept, EnrolmentInv, Accounts!TypeOK, Accounts!ListFaculty, Accounts!ListStudents, Accounts!ListForAccess,
     Accounts!SetAdminAccess, Accounts!FindStudents, Accounts!Stop
<1>4. stops' \in 0 .. MaxStops
  BY DEF Accounts!ListFaculty, Accounts!ListStudents, Accounts!ListForAccess, Accounts!SetAdminAccess, Accounts!FindStudents, Accounts!Stop,
     EnrolmentInv, Accounts!TypeOK, Accounts!ConstantsOK
<1>5. ASSUME NEW at \in {"students", "members", "done", "adminAccess", "access", "remove", "stopped"},
             NEW found \in SUBSET Actors,
             onAccount' = [onAccount EXCEPT ![r] = [onAccount[r] EXCEPT !.at = at, !.found = found]],
             at \in {"students", "members"} => onAccount[r].at \in {"faculty", "students"},
             at \in {"adminAccess", "access"} => onAccount[r].access # None,
             admin' \in [active : BOOLEAN, access : BOOLEAN]
      PROVE  EnrolmentInv'
  <2>1. [onAccount[r] EXCEPT !.at = at, !.found = found] \in Accounts!Task
    BY <1>1, <1>5 DEF Accounts!Task
  <2>2. TaskFits([onAccount[r] EXCEPT !.at = at, !.found = found])
    BY <1>1, <1>5 DEF TaskFits, Accounts!Task
  <2> QED
    BY <1>1, <1>3, <1>4, <1>5, <2>1, <2>2, FoundOnly
<1>6. UNCHANGED admin => admin' \in [active : BOOLEAN, access : BOOLEAN]
  BY DEF EnrolmentInv, Accounts!TypeOK
<1>7. ASSUME NEW at, Accounts!To(r, at)
      PROVE  onAccount' = [onAccount EXCEPT ![r] = [onAccount[r] EXCEPT !.at = at, !.found = onAccount[r].found]]
  BY <1>1, <1>7 DEF Accounts!To, Accounts!Task, EnrolmentInv, Accounts!TypeOK
<1>8. onAccount[r].found \in SUBSET Actors
  BY <1>1 DEF Accounts!Task
<1>9. CASE Accounts!ListFaculty(r)
  <2>1. PICK more \in SUBSET Actors : more = Accounts!Members("institute", {"faculty"})
    BY <1>2
  <2>2. onAccount' = [onAccount EXCEPT ![r] = [onAccount[r] EXCEPT !.at = "students", !.found = more]]
    BY <1>1, <1>9, <2>1 DEF Accounts!ListFaculty, EnrolmentInv, Accounts!TypeOK
  <2>3. onAccount[r].at = "faculty" /\ UNCHANGED admin
    BY <1>9 DEF Accounts!ListFaculty
  <2> QED
    BY <1>5, <1>6, <2>2, <2>3
<1>10. CASE Accounts!ListStudents(r)
  <2>1. PICK more \in SUBSET Actors : more = Accounts!ListedStudents(onAccount[r])
    BY <1>2 DEF Accounts!ListedStudents
  <2>2. onAccount' = [onAccount EXCEPT ![r] = [onAccount[r] EXCEPT !.at = "members",
                                               !.found = onAccount[r].found \cup more]]
    BY <1>1, <1>10, <2>1 DEF Accounts!ListStudents, EnrolmentInv, Accounts!TypeOK
  <2>3. onAccount[r].found \cup more \in SUBSET Actors
    BY <1>8
  <2> QED
    BY <1>5, <1>6, <1>10, <2>2, <2>3 DEF Accounts!ListStudents
<1>11. CASE Accounts!ListForAccess(r)
  <2>1. PICK more \in SUBSET Actors : more = Accounts!Members("institute", {"faculty"})
    BY <1>2
  <2>2. PICK at \in {"done", "adminAccess"} :
          at = IF onAccount[r].at = "flags" /\ onAccount[r].access = None THEN "done" ELSE "adminAccess"
    OBVIOUS
  <2>3. onAccount' = [onAccount EXCEPT ![r] = [onAccount[r] EXCEPT !.at = at, !.found = more]]
    BY <1>1, <1>11, <2>1, <2>2 DEF Accounts!ListForAccess, EnrolmentInv, Accounts!TypeOK
  <2>4. (at = "adminAccess" => onAccount[r].access # None) /\ UNCHANGED admin
    BY <1>11, <2>2 DEF Accounts!ListForAccess
  <2> QED
    BY <1>5, <1>6, <2>3, <2>4
<1>12. CASE Accounts!SetAdminAccess(r)
  <2>1. admin' \in [active : BOOLEAN, access : BOOLEAN]
    BY <1>1, <1>12 DEF Accounts!SetAdminAccess, EnrolmentInv, Accounts!TypeOK, TaskFits, Accounts!Task, Accounts!Flag
  <2>2. onAccount[r].access # None
    BY <1>1, <1>12 DEF Accounts!SetAdminAccess, TaskFits
  <2> QED
    <3>1. Accounts!To(r, "access")
      BY <1>12 DEF Accounts!SetAdminAccess
    <3> QED
      BY <1>5, <1>7, <1>8, <2>1, <2>2, <3>1
<1>13. CASE Accounts!FindStudents(r)
  <2>1. PICK more \in SUBSET Actors : more = Accounts!Members(onAccount[r].target, {"tutorStudent"})
    BY <1>2
  <2>2. onAccount' = [onAccount EXCEPT ![r] = [onAccount[r] EXCEPT !.at = "remove", !.found = more]]
    BY <1>1, <1>13, <2>1 DEF Accounts!FindStudents, EnrolmentInv, Accounts!TypeOK
  <2>3. UNCHANGED admin
    BY <1>13 DEF Accounts!FindStudents
  <2> QED
    BY <1>5, <1>6, <2>2, <2>3
<1>14. CASE Accounts!Stop(r)
  BY <1>5, <1>6, <1>7, <1>8, <1>14 DEF Accounts!Stop
<1> QED
  BY <1>9, <1>10, <1>11, <1>12, <1>13, <1>14

\* A step that only moves on, with what it does to accounts and details.
LEMMA MovesOn ==
  ASSUME Accounts!ConstantsOK, EnrolmentInv, NEW r \in Actors, Accounts!Running(r),
         NEW at \in {"faculty", "students", "flags", "email", "done", "removeDetails",
                     "removeAccount"},
         Accounts!To(r, at),
         at \in {"faculty", "students"} => onAccount[r].at = "status",
         at = "email" => onAccount[r].does = "updateTutor",
         DetailsKept(r), LoginsKept,
         admin' \in [active : BOOLEAN, access : BOOLEAN], UNCHANGED stops
  PROVE  EnrolmentInv'
<1>1. onAccount[r] \in Accounts!Task /\ TaskFits(onAccount[r])
  BY DEF EnrolmentInv, Accounts!TypeOK
<1>2. PICK found \in SUBSET Actors : found = onAccount[r].found
  BY <1>1 DEF Accounts!Task
<1>3. onAccount' = [onAccount EXCEPT ![r] = [onAccount[r] EXCEPT !.at = at, !.found = found]]
  BY <1>1, <1>2 DEF Accounts!To, Accounts!Task, EnrolmentInv, Accounts!TypeOK
<1>4. [onAccount[r] EXCEPT !.at = at, !.found = found] \in Accounts!Task
  BY <1>1 DEF Accounts!Task
<1>5. TaskFits([onAccount[r] EXCEPT !.at = at, !.found = found])
  BY <1>1 DEF TaskFits, Accounts!Task
<1>6. stops' \in 0 .. MaxStops
  BY DEF EnrolmentInv, Accounts!TypeOK
<1> QED
  BY <1>3, <1>4, <1>5, <1>6, FoundOnly

\* Replaced, switched off or removed: an account keeps its login id.
LEMMA EnrolmentFlags ==
  ASSUME Accounts!ConstantsOK, EnrolmentInv, NEW r \in Actors,
         Accounts!SetStatus(r) \/ Accounts!SetMembers(r) \/ Accounts!SetFacultyAccess(r)
  PROVE  EnrolmentInv'
<1>1. onAccount[r] \in Accounts!Task /\ TaskFits(onAccount[r]) /\ Accounts!Running(r)
  BY DEF EnrolmentInv, Accounts!TypeOK, Accounts!SetStatus, Accounts!SetMembers, Accounts!SetFacultyAccess, Accounts!Running
<1>2. users \in [Actors -> Accounts!Account \cup {None}] /\ admin \in [active : BOOLEAN, access : BOOLEAN]
  BY DEF EnrolmentInv, Accounts!TypeOK
<1>3. DetailsKept(r) /\ UNCHANGED stops
  BY DEF DetailsKept, EnrolmentInv, Accounts!TypeOK, Accounts!SetStatus, Accounts!SetMembers, Accounts!SetFacultyAccess
<1>4. ASSUME NEW u \in Accounts!Account, NEW x \in BOOLEAN
      PROVE  /\ [u EXCEPT !.active = x] \in Accounts!Account /\ [u EXCEPT !.active = x].login = u.login
             /\ [u EXCEPT !.access = x] \in Accounts!Account /\ [u EXCEPT !.access = x].login = u.login
  BY <1>4 DEF Accounts!Account
<1>5. CASE Accounts!SetStatus(r)
  <2>1. onAccount[r].active \in BOOLEAN
    BY <1>1, <1>5 DEF Accounts!SetStatus, TaskFits, Accounts!Task, Accounts!Flag
  <2>2. CASE onAccount[r].target = "institute"
    <3>1. LoginsKept
      BY <1>2, <1>5, <2>2 DEF Accounts!SetStatus, LoginsKept
    <3>2. admin' \in [active : BOOLEAN, access : BOOLEAN]
      BY <1>2, <1>5, <2>1, <2>2 DEF Accounts!SetStatus
    <3>3. Accounts!To(r, "faculty") /\ onAccount[r].at = "status"
      BY <1>5, <2>2 DEF Accounts!SetStatus
    <3> QED
      BY <1>1, <1>3, <3>1, <3>2, <3>3, MovesOn
  <2>3. CASE onAccount[r].target # "institute"
    <3>1. LoginsKept
      <4>1. CASE Accounts!Exists(onAccount[r].target)
        <5>1. onAccount[r].target \in Actors /\ users[onAccount[r].target] \in Accounts!Account
          BY <1>1, <1>2, <2>3, <4>1 DEF Accounts!Task, Accounts!Exists
        <5>2. users' = [users EXCEPT ![onAccount[r].target] =
                          [users[onAccount[r].target] EXCEPT !.active = onAccount[r].active]]
          BY <1>2, <1>5, <2>3, <4>1, <5>1 DEF Accounts!SetStatus
        <5> QED
          BY <1>2, <1>4, <2>1, <4>1, <5>1, <5>2 DEF LoginsKept, Accounts!Exists
      <4>2. CASE ~Accounts!Exists(onAccount[r].target)
        BY <1>2, <1>5, <2>3, <4>2 DEF Accounts!SetStatus, LoginsKept
      <4> QED
        BY <4>1, <4>2
    <3>2. UNCHANGED admin /\ Accounts!To(r, "students") /\ onAccount[r].at = "status"
      BY <1>5, <2>3 DEF Accounts!SetStatus
    <3> QED
      BY <1>1, <1>2, <1>3, <3>1, <3>2, MovesOn
  <2> QED
    BY <2>2, <2>3
<1>6. CASE Accounts!SetMembers(r)
  <2>1. onAccount[r].active \in BOOLEAN /\ (onAccount[r].target # "institute" => onAccount[r].does = "updateTutor")
    BY <1>1, <1>6 DEF Accounts!SetMembers, TaskFits, Accounts!Task, Accounts!Flag
  <2>2. users' = [u \in Actors |-> IF u \in onAccount[r].found /\ Accounts!Exists(u)
                     THEN [users[u] EXCEPT !.active = onAccount[r].active] ELSE users[u]]
    BY <1>6 DEF Accounts!SetMembers
  <2>3. LoginsKept
    BY <1>2, <1>4, <2>1, <2>2 DEF LoginsKept, Accounts!Exists
  <2>4. UNCHANGED admin
    BY <1>6 DEF Accounts!SetMembers
  <2>5. CASE onAccount[r].target = "institute"
    <3>1. Accounts!To(r, "flags")
      BY <1>6, <2>5 DEF Accounts!SetMembers
    <3> QED
      BY <1>1, <1>2, <1>3, <2>3, <2>4, <3>1, MovesOn
  <2>6. CASE onAccount[r].target # "institute"
    <3>1. Accounts!To(r, "email")
      BY <1>6, <2>6 DEF Accounts!SetMembers
    <3> QED
      BY <1>1, <1>2, <1>3, <2>1, <2>3, <2>4, <2>6, <3>1, MovesOn
  <2> QED
    BY <2>5, <2>6
<1>7. CASE Accounts!SetFacultyAccess(r)
  <2>1. onAccount[r].access \in BOOLEAN
    BY <1>1, <1>7 DEF Accounts!SetFacultyAccess, TaskFits, Accounts!Task, Accounts!Flag
  <2>2. users' = [u \in Actors |-> IF u \in onAccount[r].found /\ Accounts!Exists(u)
                     THEN [users[u] EXCEPT !.access = onAccount[r].access] ELSE users[u]]
    BY <1>7 DEF Accounts!SetFacultyAccess
  <2>3. LoginsKept
    BY <1>2, <1>4, <2>1, <2>2 DEF LoginsKept, Accounts!Exists
  <2>4. UNCHANGED admin /\ Accounts!To(r, "done")
    BY <1>7 DEF Accounts!SetFacultyAccess
  <2> QED
    BY <1>1, <1>2, <1>3, <2>3, <2>4, MovesOn
<1> QED
  BY <1>5, <1>6, <1>7

LEMMA EnrolmentRemovals ==
  ASSUME Accounts!ConstantsOK, EnrolmentInv, NEW r \in Actors,
         Accounts!InsertDetails(r) \/ Accounts!RemoveStudents(r) \/ Accounts!RemoveDetails(r) \/ Accounts!RemoveAccount(r)
  PROVE  EnrolmentInv'
<1>1. onAccount[r] \in Accounts!Task /\ TaskFits(onAccount[r]) /\ Accounts!Running(r)
  BY DEF EnrolmentInv, Accounts!TypeOK, Accounts!InsertDetails, Accounts!RemoveStudents, Accounts!RemoveDetails, Accounts!RemoveAccount, Accounts!Running
<1>2. /\ users \in [Actors -> Accounts!Account \cup {None}] /\ details \in [Actors -> Accounts!Detail \cup {None}]
      /\ onAccount \in [Actors -> Accounts!Task]
  BY DEF EnrolmentInv, Accounts!TypeOK
<1>3. UNCHANGED stops /\ admin' \in [active : BOOLEAN, access : BOOLEAN]
  BY DEF EnrolmentInv, Accounts!TypeOK, Accounts!InsertDetails, Accounts!RemoveStudents, Accounts!RemoveDetails, Accounts!RemoveAccount
<1>4. CASE Accounts!InsertDetails(r)
  <2>1. onAccount[r].does \in Accounts!Registrations
    BY <1>1, <1>4 DEF Accounts!InsertDetails, TaskFits
  <2>2. [role |-> onAccount[r].does, owner |-> onAccount[r].target] \in Accounts!Detail
    BY <1>1, <2>1 DEF Accounts!Detail, Accounts!Task
  <2>3. onAccount'[r].at = "done"
    BY <1>2, <1>4 DEF Accounts!InsertDetails, Accounts!To
  <2>4. DetailsKept(r) /\ LoginsKept
    BY <1>2, <1>4, <2>2, <2>3 DEF Accounts!InsertDetails, DetailsKept, LoginsKept
  <2>5. Accounts!To(r, "done")
    BY <1>4 DEF Accounts!InsertDetails
  <2> QED
    BY <1>1, <1>3, <2>4, <2>5, MovesOn
<1>5. CASE Accounts!RemoveStudents(r)
  <2>1. LoginsKept /\ DetailsKept(r) /\ Accounts!To(r, "removeDetails")
    BY <1>2, <1>5 DEF Accounts!RemoveStudents, DetailsKept, LoginsKept
  <2> QED
    BY <1>1, <1>3, <2>1, MovesOn
<1>6. CASE Accounts!RemoveDetails(r)
  <2>1. PICK gone : details' = [u \in Actors |-> IF u \in gone THEN None ELSE details[u]]
    BY <1>6 DEF Accounts!RemoveDetails
  <2>2. LoginsKept /\ DetailsKept(r) /\ Accounts!To(r, "removeAccount")
    BY <1>2, <1>6, <2>1 DEF Accounts!RemoveDetails, DetailsKept, LoginsKept
  <2> QED
    BY <1>1, <1>3, <2>2, MovesOn
<1>7. CASE Accounts!RemoveAccount(r)
  <2>1. LoginsKept /\ DetailsKept(r) /\ Accounts!To(r, "done")
    BY <1>2, <1>7 DEF Accounts!RemoveAccount, DetailsKept, LoginsKept
  <2> QED
    BY <1>1, <1>3, <2>1, MovesOn
<1> QED
  BY <1>4, <1>5, <1>6, <1>7

\* Accounts get a login id: of a new account, or edited.
LEMMA EnrolmentInsert ==
  ASSUME Accounts!ConstantsOK, EnrolmentInv, NEW r \in Actors, Accounts!InsertAccount(r)
  PROVE  EnrolmentInv'
<1>1. onAccount[r] \in Accounts!Task /\ TaskFits(onAccount[r]) /\ Accounts!Running(r) /\ onAccount[r].at = "account"
  BY DEF EnrolmentInv, Accounts!TypeOK, Accounts!InsertAccount, Accounts!Running
<1>2. onAccount[r].does \in Accounts!Registrations /\ onAccount[r].login \in LoginIds
  BY <1>1 DEF TaskFits
<1>3. PICK new \in Accounts!Account : new = Accounts!NewAccount(onAccount[r])
  <2>1. Accounts!NewAccount(onAccount[r]) \in Accounts!Account
    <3> DEFINE active == onAccount[r].does # "tutor"
               access == onAccount[r].does = "faculty" /\ onAccount[r].access = TRUE
    <3>1. active \in BOOLEAN /\ access \in BOOLEAN
      OBVIOUS
    <3>2. Accounts!NewAccount(onAccount[r]) = [role |-> onAccount[r].does, login |-> onAccount[r].login,
                                               active |-> active, access |-> access]
      BY DEF Accounts!NewAccount
    <3> HIDE DEF active, access
    <3> QED
      BY <1>2, <3>1, <3>2 DEF Accounts!Account
  <2> QED
    BY <2>1
<1>4. new.login = onAccount[r].login
  BY <1>3 DEF Accounts!NewAccount
<1>5. users' = [users EXCEPT ![r] = new]
  BY <1>3 DEF Accounts!InsertAccount
<1>6. /\ users \in [Actors -> Accounts!Account \cup {None}]
      /\ users' \in [Actors -> Accounts!Account \cup {None}] /\ users'[r] = new
      /\ \A u \in Actors \ {r} : users'[u] = users[u]
  BY <1>5 DEF EnrolmentInv, Accounts!TypeOK
<1>7. PICK at \in {"done", "details"} : Accounts!To(r, at)
  BY DEF Accounts!InsertAccount
<1> DEFINE next == [onAccount[r] EXCEPT !.at = at]
<1>8. /\ next \in Accounts!Task /\ next.at = at /\ next.login = onAccount[r].login
      /\ next.does = onAccount[r].does /\ next.target = onAccount[r].target
      /\ next.met = onAccount[r].met
  BY <1>1 DEF Accounts!Task
<1>9. onAccount' = [onAccount EXCEPT ![r] = next]
  BY <1>7 DEF Accounts!To, EnrolmentInv, Accounts!TypeOK
<1>10. UNCHANGED <<details, admin, stops>>
  BY DEF Accounts!InsertAccount
<1> HIDE DEF next
<1>11. Advances(r, next)
  BY <1>1, <1>2, <1>8, <1>9, <1>10 DEF Advances, DetailsKept, TaskFits, EnrolmentInv, Accounts!TypeOK
<1>12. /\ Accounts!TypeOK' /\ (\A q \in Actors : TaskFits(onAccount'[q]))
       /\ AllMeet' /\ EditsAlone'
       /\ \A a, b \in Actors : Explained(a, b) => Explained(a, b)'
  BY <1>6, <1>11, EnrolmentGoes
<1>13. onAccount'[r] = next /\ \A q \in Actors \ {r} : onAccount'[q] = onAccount[q]
  BY <1>9 DEF EnrolmentInv, Accounts!TypeOK
<1>14. Registering(onAccount[r]) /\ ~Registering(onAccount'[r])
  BY <1>1, <1>8, <1>13 DEF Registering
<1>15. LoginsApart'
  <2> SUFFICES ASSUME NEW a \in Actors, NEW b \in Actors, a # b, users'[a] # None,
                      \/ users'[b] # None /\ users'[a].login = users'[b].login
                      \/ Registering(onAccount'[b]) /\ users'[a].login = onAccount'[b].login
               PROVE  Explained(a, b)'
    BY DEF LoginsApart, Accounts!Exists
  <2>1. SUFFICES Explained(a, b)
    BY <1>12
  <2>2. CASE a # r /\ b # r
    BY <1>6, <1>13, <2>2 DEF EnrolmentInv, LoginsApart, Accounts!Exists
  <2>3. CASE a # r /\ b = r
    BY <1>4, <1>6, <1>14, <2>3 DEF EnrolmentInv, LoginsApart, Accounts!Exists
  <2>4. CASE a = r
    <3>1. CASE users'[b] # None /\ users'[a].login = users'[b].login
      <4>1. users[b] # None /\ users[b].login = onAccount[r].login
        BY <1>4, <1>6, <2>4, <3>1
      <4>2. Explained(b, r)
        BY <1>14, <2>4, <4>1 DEF EnrolmentInv, LoginsApart, Accounts!Exists
      <4> QED
        BY <2>4, <4>2 DEF Explained
    <3>2. CASE Registering(onAccount'[b])
      <4>1. Accounts!Running(b)
        BY <1>13, <2>4, <3>2 DEF Registering, Accounts!Running
      <4> QED
        BY <1>1, <2>4, <4>1 DEF EnrolmentInv, AllMeet, Explained
    <3> QED
      BY <3>1, <3>2
  <2> QED
    BY <2>2, <2>3, <2>4
<1> QED
  BY <1>12, <1>15 DEF EnrolmentInv

LEMMA EnrolmentEmail ==
  ASSUME Accounts!ConstantsOK, EnrolmentInv, NEW r \in Actors, Accounts!SetEmail(r)
  PROVE  EnrolmentInv'
<1>1. onAccount[r] \in Accounts!Task /\ TaskFits(onAccount[r]) /\ Accounts!Running(r) /\ onAccount[r].at = "email"
  BY DEF EnrolmentInv, Accounts!TypeOK, Accounts!SetEmail, Accounts!Running
<1>2. /\ users \in [Actors -> Accounts!Account \cup {None}] /\ Accounts!To(r, "done")
      /\ UNCHANGED <<details, admin, stops>> /\ admin' \in [active : BOOLEAN, access : BOOLEAN]
      /\ DetailsKept(r)
  BY DEF EnrolmentInv, Accounts!TypeOK, Accounts!SetEmail, DetailsKept
<1>3. PICK t : t = onAccount[r].target
  OBVIOUS
<1>4. CASE users' = users
  <2>1. LoginsKept
    BY <1>2, <1>4 DEF LoginsKept
  <2> QED
    BY <1>1, <1>2, <2>1, MovesOn
<1>5. CASE users' # users
  <2>1. /\ users' = [users EXCEPT ![t].login = onAccount[r].login]
        /\ t \in Actors /\ users[t] # None /\ onAccount[r].login \in LoginIds
    BY <1>1, <1>2, <1>3, <1>5 DEF Accounts!SetEmail, Accounts!Exists, Accounts!Task
  <2>2. users[t] \in Accounts!Account
    BY <1>2, <2>1
  <2>3. PICK edited \in Accounts!Account : edited = [users[t] EXCEPT !.login = onAccount[r].login]
    BY <2>1, <2>2 DEF Accounts!Account
  <2>4. edited.login = onAccount[r].login
    BY <2>2, <2>3 DEF Accounts!Account
  <2>5. users' = [users EXCEPT ![t] = edited]
    BY <2>1, <2>3
  <2>6. /\ users' \in [Actors -> Accounts!Account \cup {None}] /\ users'[t] = edited
        /\ \A u \in Actors \ {t} : users'[u] = users[u]
    BY <1>2, <2>1, <2>5
  <2> DEFINE next == [onAccount[r] EXCEPT !.at = "done"]
  <2>7. /\ next \in Accounts!Task /\ next.at = "done"
        /\ next.does = onAccount[r].does /\ next.target = onAccount[r].target
        /\ next.met = onAccount[r].met
    BY <1>1 DEF Accounts!Task
  <2>8. onAccount' = [onAccount EXCEPT ![r] = next]
    BY <1>2 DEF Accounts!To, EnrolmentInv, Accounts!TypeOK
  <2> HIDE DEF next
  <2>9. Advances(r, next)
    BY <1>1, <1>2, <2>7, <2>8 DEF Advances, TaskFits, EnrolmentInv, Accounts!TypeOK
  <2>10. /\ Accounts!TypeOK' /\ (\A q \in Actors : TaskFits(onAccount'[q]))
         /\ AllMeet' /\ EditsAlone'
         /\ \A a, b \in Actors : Explained(a, b) => Explained(a, b)'
    BY <2>6, <2>9, EnrolmentGoes
  <2>11. onAccount'[r] = next /\ \A q \in Actors \ {r} : onAccount'[q] = onAccount[q]
    BY <2>8 DEF EnrolmentInv, Accounts!TypeOK
  <2>12. ~Registering(onAccount[r]) /\ ~Registering(onAccount'[r])
    BY <1>1, <2>7, <2>11 DEF Registering
  <2>13. onAccount[r].does \in {"updateTutor", "updateFaculty"}
    BY <1>1 DEF TaskFits
  <2>14. LoginsApart'
    <3> SUFFICES ASSUME NEW a \in Actors, NEW b \in Actors, a # b, users'[a] # None,
                        \/ users'[b] # None /\ users'[a].login = users'[b].login
                        \/ Registering(onAccount'[b]) /\ users'[a].login = onAccount'[b].login
                 PROVE  Explained(a, b)
      BY <2>10 DEF LoginsApart, Accounts!Exists
    <3>1. CASE a # t /\ b # t
      <4>1. b # r \/ ~Registering(onAccount'[b])
        BY <2>12
      <4> QED
        BY <2>6, <2>11, <2>12, <3>1, <4>1 DEF EnrolmentInv, LoginsApart, Accounts!Exists
    <3>2. CASE t \in {a, b} /\ (onAccount[r].does = "updateTutor" \/ onAccount[r].met # {})
      BY <1>3, <2>13, <3>2 DEF Explained
    <3>3. CASE t \in {a, b} /\ onAccount[r].does = "updateFaculty" /\ onAccount[r].met = {}
      <4>1. \A o \in Actors : o # t /\ users[o] # None => users[o].login # onAccount[r].login
        BY <1>1, <1>3, <3>3 DEF EnrolmentInv, EditsAlone, Accounts!Accounts, Accounts!Exists
      <4>2. \A q \in Actors : q # r => ~Accounts!Running(q)
        BY <1>1, <3>3 DEF EnrolmentInv, AllMeet
      <4>3. \A q \in Actors : ~Registering(onAccount'[q])
        BY <2>11, <2>12, <4>2 DEF Registering, Accounts!Running
      <4> QED
        BY <2>4, <2>6, <3>3, <4>1, <4>3
    <3> QED
      BY <2>13, <3>1, <3>2, <3>3
  <2> QED
    BY <2>10, <2>14 DEF EnrolmentInv
<1> QED
  BY <1>4, <1>5

-----------------------------------------------------------------------------
\* Steps that start a request

LEMMA EnrolmentStart ==
  ASSUME Accounts!ConstantsOK, EnrolmentInv, NEW r \in Actors, onAccount[r].at = "idle",
         NEW asked \in Accounts!Task, asked.at # "idle", TaskFits(asked), Accounts!Start(r, asked),
         Registering(asked) => ~Accounts!Taken(asked.login),
         asked.at = "email" /\ asked.does = "updateFaculty" =>
           \A o \in Accounts!Accounts \ {asked.target} : users[o].login # asked.login,
         LoginsKept, DetailsKept(r), UNCHANGED <<admin, stops>>
  PROVE  EnrolmentInv'
<1>1. PICK others \in SUBSET Actors : others = {o \in Actors : Accounts!Running(o)}
  OBVIOUS
<1> DEFINE began == [asked EXCEPT !.met = others]
<1>2. /\ began \in Accounts!Task /\ began.at = asked.at /\ began.does = asked.does
      /\ began.target = asked.target /\ began.login = asked.login /\ began.met = others
      /\ began.active = asked.active /\ began.access = asked.access
  BY DEF Accounts!Task
<1>3. onAccount' = [q \in Actors |-> IF q = r THEN began
                       ELSE IF q \in others THEN [onAccount[q] EXCEPT !.met = @ \cup {r}]
                       ELSE onAccount[q]]
  BY <1>1 DEF Accounts!Start, Accounts!Others
<1> HIDE DEF began
<1>4. /\ \A q \in Actors : onAccount[q] \in Accounts!Task /\ TaskFits(onAccount[q])
      /\ users \in [Actors -> Accounts!Account \cup {None}]
  BY DEF EnrolmentInv, Accounts!TypeOK
<1>5. onAccount'[r] = began
  BY <1>3
<1>6. ASSUME NEW q \in Actors, q # r
      PROVE  /\ onAccount'[q] \in Accounts!Task /\ onAccount'[q].at = onAccount[q].at
             /\ onAccount'[q].does = onAccount[q].does /\ onAccount'[q].login = onAccount[q].login
             /\ onAccount'[q].target = onAccount[q].target
             /\ onAccount'[q].active = onAccount[q].active /\ onAccount'[q].access = onAccount[q].access
             /\ onAccount'[q].met = IF q \in others THEN onAccount[q].met \cup {r} ELSE onAccount[q].met
  <2>1. onAccount[q] \in Accounts!Task
    BY <1>4
  <2>2. CASE q \in others
    <3>1. onAccount'[q] = [onAccount[q] EXCEPT !.met = onAccount[q].met \cup {r}]
      BY <1>3, <1>6, <2>2
    <3> QED
      BY <2>1, <2>2, <3>1 DEF Accounts!Task
  <2>3. CASE q \notin others
    BY <1>3, <1>6, <2>1, <2>3
  <2> QED
    BY <2>2, <2>3
<1>7. r \notin others
  BY <1>1 DEF Accounts!Running
<1>8. \A u \in Actors : details'[u] # None => onAccount'[u].at = "done"
  <2> SUFFICES ASSUME NEW u \in Actors, details'[u] # None PROVE onAccount'[u].at = "done"
    OBVIOUS
  <2>1. CASE details[u] # None
    <3>1. onAccount[u].at = "done"
      BY <2>1 DEF EnrolmentInv, Accounts!TypeOK
    <3> QED
      BY <1>6, <3>1
  <2> QED
    BY <2>1 DEF DetailsKept
<1>9. onAccount' \in [Actors -> Accounts!Task]
  <2>1. \A q \in Actors : onAccount'[q] \in Accounts!Task
    BY <1>2, <1>5, <1>6
  <2>2. onAccount' = [q \in Actors |-> onAccount'[q]]
    BY <1>3
  <2> QED
    BY <2>1, <2>2
<1>10. Accounts!TypeOK'
  BY <1>8, <1>9 DEF Accounts!TypeOK, EnrolmentInv, LoginsKept, DetailsKept
<1>11. TaskFits(began)
  BY <1>2 DEF TaskFits
<1>12. \A q \in Actors : TaskFits(onAccount'[q])
  <2> SUFFICES ASSUME NEW q \in Actors, q # r PROVE TaskFits(onAccount'[q])
    BY <1>5, <1>11
  <2>1. onAccount[q].at = "idle" => onAccount'[q].met = onAccount[q].met
    BY <1>1, <1>6 DEF Accounts!Running
  <2>2. TaskFits(onAccount[q])
    BY <1>4
  <2>3. onAccount[q].at = "idle" => onAccount'[q].met = {}
    BY <2>1, <2>2 DEF TaskFits
  <2> QED
    <3>1. PICK was, now : was = onAccount[q] /\ now = onAccount'[q]
      OBVIOUS
    <3>2. /\ now.at = was.at /\ now.does = was.does /\ now.login = was.login
          /\ now.target = was.target /\ now.active = was.active /\ now.access = was.access
          /\ (was.at = "idle" => now.met = {})
      BY <1>6, <2>3, <3>1
    <3>3. TaskFits(now)
      BY <2>2, <3>1, <3>2 DEF TaskFits
    <3> QED
      BY <3>1, <3>3
<1>13. \A q \in Actors : q # r => (Accounts!Running(q)' <=> Accounts!Running(q)) /\ (Accounts!Running(q) <=> q \in others)
  BY <1>1, <1>6 DEF Accounts!Running
<1>14. AllMeet'
  <2> SUFFICES ASSUME NEW p \in Actors, NEW q \in Actors, p # q, Accounts!Running(p)', Accounts!Running(q)'
               PROVE  q \in onAccount'[p].met
    BY DEF AllMeet
  <2>1. CASE p = r
    BY <1>2, <1>5, <1>13, <2>1
  <2>2. CASE q = r
    BY <1>6, <1>13, <2>2
  <2>3. CASE p # r /\ q # r
    BY <1>6, <1>13, <2>3 DEF EnrolmentInv, AllMeet
  <2> QED
    BY <2>1, <2>2, <2>3
<1>15. EditsAlone'
  <2> SUFFICES ASSUME NEW e \in Actors, onAccount'[e].at = "email",
                      onAccount'[e].does = "updateFaculty", onAccount'[e].met = {},
                      NEW o \in Actors, users'[o] # None, o # onAccount'[e].target
               PROVE  users'[o].login # onAccount'[e].login
    BY DEF EditsAlone, Accounts!Accounts, Accounts!Exists
  <2>1. e = r
    <3> SUFFICES ASSUME e # r PROVE FALSE
      OBVIOUS
    <3>1. Accounts!Running(e)
      BY <1>6 DEF Accounts!Running
    <3> QED
      BY <1>6, <1>13, <3>1
  <2>2. users[o] # None /\ users'[o].login = users[o].login
    BY DEF LoginsKept
  <2> QED
    BY <1>2, <1>5, <2>1, <2>2 DEF Accounts!Accounts, Accounts!Exists
<1>16. ASSUME NEW a \in Actors, NEW b \in Actors, Explained(a, b)
       PROVE  Explained(a, b)'
  <2>1. \A q \in Actors : onAccount[q].met \subseteq onAccount'[q].met
    <3> SUFFICES ASSUME NEW q \in Actors PROVE onAccount[q].met \subseteq onAccount'[q].met
      OBVIOUS
    <3>1. CASE q = r
      BY <1>4, <3>1 DEF TaskFits
    <3>2. CASE q # r
      BY <1>6, <3>2
    <3> QED
      BY <3>1, <3>2
  <2>2. \A q \in Actors : onAccount[q].at # "idle" =>
          onAccount'[q].does = onAccount[q].does /\ onAccount'[q].target = onAccount[q].target
    BY <1>6
  <2>3. Accounts!TypeOK
    BY DEF EnrolmentInv
  <2> QED
    BY <1>4, <1>16, <2>1, <2>2, <2>3, StaysExplained
<1>17. LoginsApart'
  <2> SUFFICES ASSUME NEW a \in Actors, NEW b \in Actors, a # b, users'[a] # None,
                      \/ users'[b] # None /\ users'[a].login = users'[b].login
                      \/ Registering(onAccount'[b]) /\ users'[a].login = onAccount'[b].login
               PROVE  Explained(a, b)
    BY <1>16 DEF LoginsApart, Accounts!Exists
  <2>1. users[a] # None /\ users'[a].login = users[a].login
    BY DEF LoginsKept
  <2>2. CASE users'[b] # None /\ users'[a].login = users'[b].login
    <3>1. users[b] # None /\ users'[b].login = users[b].login
      BY <2>2 DEF LoginsKept
    <3> QED
      BY <2>1, <2>2, <3>1 DEF EnrolmentInv, LoginsApart, Accounts!Exists
  <2>3. CASE Registering(onAccount'[b]) /\ users'[a].login = onAccount'[b].login
    <3>1. b # r
      <4> SUFFICES ASSUME b = r PROVE FALSE
        OBVIOUS
      <4>1. Registering(asked) /\ users[a].login = asked.login
        BY <1>2, <1>5, <2>1, <2>3 DEF Registering
      <4> QED
        BY <2>1, <4>1 DEF Accounts!Taken, Accounts!Accounts, Accounts!Exists
    <3>2. Registering(onAccount[b]) /\ users[a].login = onAccount[b].login
      BY <1>6, <2>1, <2>3, <3>1 DEF Registering
    <3> QED
      BY <2>1, <3>2 DEF EnrolmentInv, LoginsApart, Accounts!Exists
  <2> QED
    BY <2>2, <2>3
<1> QED
  BY <1>10, <1>12, <1>14, <1>15, <1>17 DEF EnrolmentInv

\* The request as a handler leaves it before it awaits anything.
LEMMA EnrolmentBegins ==
  ASSUME Accounts!ConstantsOK, EnrolmentInv, NEW r \in Actors,
         \/ \E does \in Accounts!Registrations : Accounts!BeginRegistration(r, does)
         \/ Accounts!BeginUpdateInstitute(r) \/ Accounts!BeginUpdateTutor(r) \/ Accounts!BeginUpdateFaculty(r)
         \/ \E does \in {"deleteFaculty", "deleteTutor"} : Accounts!BeginDelete(r, does)
         \/ Accounts!DeleteStudent(r)
  PROVE  EnrolmentInv'
<1>1. onAccount[r] \in Accounts!Task /\ users \in [Actors -> Accounts!Account \cup {None}]
      /\ details \in [Actors -> Accounts!Detail \cup {None}]
  BY DEF EnrolmentInv, Accounts!TypeOK
<1>2. onAccount[r].at = "idle" /\ UNCHANGED <<admin, stops>>
  BY DEF Accounts!BeginRegistration, Accounts!BeginUpdateInstitute, Accounts!BeginUpdateTutor, Accounts!BeginUpdateFaculty,
     Accounts!BeginDelete, Accounts!DeleteStudent
<1>3. onAccount[r].does = "faculty" /\ onAccount[r].met = {} /\ onAccount[r].login \in LoginIds \cup {None}
      /\ onAccount[r].target \in Actors \cup {"institute"}
      /\ onAccount[r].active \in Accounts!Flag /\ onAccount[r].access \in Accounts!Flag
  BY <1>1, <1>2 DEF EnrolmentInv, TaskFits, Accounts!Task
<1>4. UNCHANGED <<users, details>> => LoginsKept /\ DetailsKept(r)
  BY <1>1 DEF LoginsKept, DetailsKept
<1>5. \A owner, roles : Accounts!Members(owner, roles) \subseteq Actors
  BY DEF Accounts!Members
<1>6. CASE \E does \in Accounts!Registrations : Accounts!BeginRegistration(r, does)
  <2>1. PICK does \in Accounts!Registrations, e \in LoginIds, by \in Actors \cup {"institute"},
             owner \in Actors \cup {"institute"} :
          /\ does # "student" => ~Accounts!Taken(e)
          /\ Accounts!Start(r, [Accounts!Task0(r, does) EXCEPT !.at = "caller", !.by = by, !.login = e,
                                                               !.target = owner])
    <3>1. \A d : Accounts!Callers(d) \subseteq Actors \cup {"institute"}
      BY DEF Accounts!Callers, Accounts!Accounts
    <3> QED
      BY <1>6, <3>1 DEF Accounts!BeginRegistration, Accounts!Accounts
  <2> DEFINE asked == [Accounts!Task0(r, does) EXCEPT !.at = "caller", !.by = by, !.login = e,
                                                      !.target = owner]
  <2>2. /\ asked \in Accounts!Task /\ asked.at = "caller" /\ asked.does = does /\ asked.login = e
    BY <1>1 DEF Accounts!Task, Accounts!Task0, Accounts!Endpoints
  <2>3. Accounts!Start(r, asked)
    BY <2>1
  <2> HIDE DEF asked
  <2>4. TaskFits(asked) /\ (Registering(asked) => ~Accounts!Taken(asked.login)) /\ asked.at \notin {"idle", "email"}
    BY <2>1, <2>2 DEF TaskFits, Registering
  <2>5. LoginsKept /\ DetailsKept(r)
    BY <1>4, <1>6 DEF Accounts!BeginRegistration
  <2> QED
    BY <1>2, <2>2, <2>3, <2>4, <2>5, EnrolmentStart
<1>7. CASE Accounts!BeginUpdateInstitute(r)
  <2>1. PICK active \in Accounts!Flag, access \in Accounts!Flag, at \in {"flags", "status"} :
          /\ at = "status" => active # None
          /\ Accounts!Start(r, [Accounts!Task0(r, "updateInstitute") EXCEPT
                          !.at = at, !.target = "institute", !.active = active, !.access = access])
    BY <1>7 DEF Accounts!BeginUpdateInstitute
  <2> DEFINE asked == [Accounts!Task0(r, "updateInstitute") EXCEPT
                         !.at = at, !.target = "institute", !.active = active, !.access = access]
  <2>2. /\ asked \in Accounts!Task /\ asked.at = at /\ asked.does = "updateInstitute"
        /\ asked.target = "institute" /\ asked.active = active
    BY <1>1 DEF Accounts!Task, Accounts!Task0, Accounts!Endpoints
  <2>3. Accounts!Start(r, asked)
    BY <2>1
  <2> HIDE DEF asked
  <2>4. TaskFits(asked) /\ ~Registering(asked) /\ asked.at \notin {"idle", "email"}
    BY <2>1, <2>2 DEF TaskFits, Registering
  <2>5. LoginsKept /\ DetailsKept(r)
    BY <1>4, <1>7 DEF Accounts!BeginUpdateInstitute
  <2> QED
    BY <1>2, <2>2, <2>3, <2>4, <2>5, EnrolmentStart
<1>8. CASE Accounts!BeginUpdateTutor(r)
  <2>1. PICK t \in Actors, active \in Accounts!Flag, e \in LoginIds \cup {None}, at \in {"email", "status"} :
          /\ at = "status" => active # None
          /\ Accounts!Start(r, [Accounts!Task0(r, "updateTutor") EXCEPT
                          !.at = at, !.target = t, !.active = active, !.login = e])
    BY <1>8 DEF Accounts!BeginUpdateTutor, Accounts!Accounts
  <2> DEFINE asked == [Accounts!Task0(r, "updateTutor") EXCEPT
                         !.at = at, !.target = t, !.active = active, !.login = e]
  <2>2. /\ asked \in Accounts!Task /\ asked.at = at /\ asked.does = "updateTutor" /\ asked.active = active
    BY <1>1 DEF Accounts!Task, Accounts!Task0, Accounts!Endpoints
  <2>3. Accounts!Start(r, asked)
    BY <2>1
  <2> HIDE DEF asked
  <2>4. TaskFits(asked) /\ ~Registering(asked) /\ asked.at # "idle" /\ asked.does # "updateFaculty"
    BY <2>1, <2>2 DEF TaskFits, Registering
  <2>5. LoginsKept /\ DetailsKept(r)
    BY <1>4, <1>8 DEF Accounts!BeginUpdateTutor
  <2> QED
    BY <1>2, <2>2, <2>3, <2>4, <2>5, EnrolmentStart
<1>9. CASE Accounts!BeginUpdateFaculty(r)
  <2>1. PICK u \in Actors, e \in LoginIds :
          /\ \A o \in Accounts!Accounts \ {u} : users[o].login # e
          /\ Accounts!Start(r, [Accounts!Task0(r, "updateFaculty") EXCEPT !.at = "email", !.target = u, !.login = e])
    BY <1>5, <1>9 DEF Accounts!BeginUpdateFaculty
  <2> DEFINE asked == [Accounts!Task0(r, "updateFaculty") EXCEPT !.at = "email", !.target = u, !.login = e]
  <2>2. /\ asked \in Accounts!Task /\ asked.at = "email" /\ asked.does = "updateFaculty"
        /\ asked.target = u /\ asked.login = e
    BY <1>1 DEF Accounts!Task, Accounts!Task0, Accounts!Endpoints
  <2>3. Accounts!Start(r, asked)
    BY <2>1
  <2> HIDE DEF asked
  <2>4. TaskFits(asked) /\ ~Registering(asked) /\ asked.at # "idle"
    BY <2>2 DEF TaskFits, Registering
  <2>5. LoginsKept /\ DetailsKept(r)
    BY <1>4, <1>9 DEF Accounts!BeginUpdateFaculty
  <2> QED
    BY <1>2, <2>1, <2>2, <2>3, <2>4, <2>5, EnrolmentStart
<1>10. CASE \E does \in {"deleteFaculty", "deleteTutor"} : Accounts!BeginDelete(r, does)
  <2>1. PICK does \in {"deleteFaculty", "deleteTutor"}, u \in Actors, at \in {"removeDetails", "find"} :
          Accounts!Start(r, [Accounts!Task0(r, does) EXCEPT !.at = at, !.target = u])
    BY <1>5, <1>10 DEF Accounts!BeginDelete, Accounts!Accounts
  <2> DEFINE asked == [Accounts!Task0(r, does) EXCEPT !.at = at, !.target = u]
  <2>2. /\ asked \in Accounts!Task /\ asked.at = at
    BY <1>1 DEF Accounts!Task, Accounts!Task0, Accounts!Endpoints
  <2>3. Accounts!Start(r, asked)
    BY <2>1
  <2> HIDE DEF asked
  <2>4. TaskFits(asked) /\ ~Registering(asked) /\ asked.at \notin {"idle", "email"}
    BY <2>2 DEF TaskFits, Registering
  <2>5. LoginsKept /\ DetailsKept(r)
    BY <1>4, <1>10 DEF Accounts!BeginDelete
  <2> QED
    BY <1>2, <2>2, <2>3, <2>4, <2>5, EnrolmentStart
<1>11. CASE Accounts!DeleteStudent(r)
  <2>1. PICK u \in Actors :
          /\ users' = [users EXCEPT ![u] = None] /\ details' = [details EXCEPT ![u] = None]
          /\ Accounts!Start(r, [Accounts!Task0(r, "deleteStudent") EXCEPT !.at = "done", !.target = u])
    BY <1>11 DEF Accounts!DeleteStudent, Accounts!Accounts
  <2> DEFINE asked == [Accounts!Task0(r, "deleteStudent") EXCEPT !.at = "done", !.target = u]
  <2>2. /\ asked \in Accounts!Task /\ asked.at = "done"
    BY <1>1 DEF Accounts!Task, Accounts!Task0, Accounts!Endpoints
  <2>3. Accounts!Start(r, asked)
    BY <2>1
  <2> HIDE DEF asked
  <2>4. TaskFits(asked) /\ ~Registering(asked) /\ asked.at \notin {"idle", "email"}
    BY <2>2 DEF TaskFits, Registering
  <2>5. LoginsKept /\ DetailsKept(r)
    BY <1>1, <2>1 DEF LoginsKept, DetailsKept
  <2> QED
    BY <1>2, <2>2, <2>3, <2>4, <2>5, EnrolmentStart
<1> QED
  BY <1>6, <1>7, <1>8, <1>9, <1>10, <1>11

-----------------------------------------------------------------------------
LEMMA EnrolmentStep == ASSUME Accounts!ConstantsOK, EnrolmentInv, [Accounts!Next]_Accounts!vars PROVE EnrolmentInv'
<1>1. CASE UNCHANGED Accounts!vars
  BY <1>1 DEF Accounts!vars, EnrolmentInv, Accounts!TypeOK, AllMeet, Accounts!Running, LoginsApart, Accounts!Exists, Explained,
     EditsAlone, Accounts!Accounts
<1>2. CASE Accounts!Next
  <2>1. PICK r \in Actors :
          \/ \E does \in Accounts!Registrations : Accounts!BeginRegistration(r, does)
          \/ Accounts!BeginUpdateInstitute(r) \/ Accounts!BeginUpdateTutor(r) \/ Accounts!BeginUpdateFaculty(r)
          \/ \E does \in {"deleteFaculty", "deleteTutor"} : Accounts!BeginDelete(r, does)
          \/ Accounts!DeleteStudent(r)
          \/ Accounts!Step(r)
          \/ Accounts!Stop(r)
    BY <1>2 DEF Accounts!Next
  <2>2. CASE Accounts!Step(r)
    BY <2>2, EnrolmentCaller, EnrolmentPick, EnrolmentInsert, EnrolmentEmail, EnrolmentLists,
       EnrolmentFlags, EnrolmentRemovals DEF Accounts!Step
  <2>3. CASE Accounts!Stop(r)
    BY <2>3, EnrolmentLists
  <2>4. CASE ~Accounts!Step(r) /\ ~Accounts!Stop(r)
    BY <2>1, <2>4, EnrolmentBegins
  <2> QED
    BY <2>2, <2>3, <2>4
<1> QED
  BY <1>1, <1>2

LEMMA EnrolmentHolds ==
  ASSUME EnrolmentInv
  PROVE  Accounts!TypeOK /\ Accounts!SharedLoginMeansRace
BY DEF EnrolmentInv, LoginsApart, Explained, Accounts!SharedLoginMeansRace, Accounts!Accounts

-----------------------------------------------------------------------------
\* The hierarchy: types

LEMMA ScriptFits ==
  ASSUME NEW k \in Tree!Deletable
  PROVE  Len(Tree!Steps(k)) \in 1 .. 10
BY DEF Tree!Deletable, Tree!Steps, Tree!SchoolSteps, Tree!ProgrammeSteps, Tree!DepartmentSteps,
       Tree!BatchSteps

\* What a request deletes is of a kind that is deleted.
RootFits == \A a \in Deleters :
  /\ actor[a].op # "none" => actor[a].root \in Rows
  /\ actor[a].op = "delete" => Kind[actor[a].root] \in Tree!Deletable

TreeInv == Tree!TypeOK /\ RootFits

LEMMA TreeInit == ASSUME Tree!ConstantsOK, Tree!Init PROVE TreeInv
BY DEF Tree!Init, TreeInv, Tree!TypeOK, RootFits, Tree!ConstantsOK, Tree!Idle, Tree!Does, Tree!Actor, Tree!Of

\* A request that goes on as next leaves the types of the others alone.
LEMMA TreeGoes ==
  ASSUME TreeInv, NEW a \in Deleters, NEW next \in Tree!Actor, Tree!Goes(a, next),
         next.op # "none" => next.root \in Rows,
         next.op = "delete" => Kind[next.root] \in Tree!Deletable
  PROVE  actor' \in [Deleters -> Tree!Actor] /\ RootFits'
BY DEF TreeInv, Tree!TypeOK, RootFits, Tree!Goes

LEMMA TreeAdvances ==
  ASSUME Tree!ConstantsOK, TreeInv, NEW a \in Deleters, Tree!Halfway(a), NEW more \in SUBSET Rows,
         Tree!Advance(a, more)
  PROVE  actor' \in [Deleters -> Tree!Actor] /\ RootFits'
<1> DEFINE next == [actor[a] EXCEPT !.step = @ + 1, !.found = @ \cup more]
<1>1. actor[a] \in Tree!Actor
  BY DEF TreeInv, Tree!TypeOK
<1>2. actor[a].op = "delete" /\ actor[a].root \in Rows /\ Kind[actor[a].root] \in Tree!Deletable
  BY DEF TreeInv, RootFits, Tree!Halfway
<1>3. actor[a].step \in 0 .. 10
  <2>1. PICK n \in 1 .. 10 : actor[a].step <= n
    BY <1>2, ScriptFits DEF Tree!Halfway, Tree!Script
  <2>2. actor[a].step \in 0 .. 11
    BY <1>1 DEF Tree!Actor
  <2> QED
    BY <2>1, <2>2
<1>4. next \in Tree!Actor /\ next.op = actor[a].op /\ next.root = actor[a].root
  <2>1. actor[a].step + 1 \in 0 .. 11 /\ actor[a].found \cup more \in SUBSET Rows
    BY <1>1, <1>3 DEF Tree!Actor
  <2> QED
    BY <1>1, <2>1 DEF Tree!Actor
<1>5. Tree!Goes(a, next)
  BY DEF Tree!Advance
<1> QED
  BY <1>2, <1>4, <1>5, TreeGoes

LEMMA TreeRemoves ==
  ASSUME TreeInv, NEW rows, Tree!Remove(rows)
  PROVE  /\ status' \in [Rows -> {"new", "live", "hidden", "gone"}]
         /\ \A r \in Rows : status'[r] = "hidden" => Kind[r] = "subject"
BY DEF TreeInv, Tree!TypeOK, Tree!Remove

LEMMA TreeDeletes ==
  ASSUME Tree!ConstantsOK, TreeInv, NEW a \in Deleters,
         \/ Tree!Collect(a) \/ Tree!DropFound(a) \/ Tree!PurgeMatching(a) \/ Tree!DisableUsers(a)
  PROVE  TreeInv'
<1>1. \A k : Tree!Matching(a, k) \in SUBSET Rows
  BY DEF Tree!Matching, Tree!Stored
<1>2. PICK more \in SUBSET Rows : Tree!Halfway(a) /\ Tree!Advance(a, more)
  BY <1>1 DEF Tree!Collect, Tree!DropFound, Tree!PurgeMatching, Tree!DisableUsers
<1>3. actor' \in [Deleters -> Tree!Actor] /\ RootFits'
  BY <1>2, TreeAdvances
<1>4. /\ status' \in [Rows -> {"new", "live", "hidden", "gone"}]
      /\ \A r \in Rows : status'[r] = "hidden" => Kind[r] = "subject"
  <2>1. UNCHANGED status \/ \E rows : Tree!Remove(rows)
    BY DEF Tree!Collect, Tree!DropFound, Tree!PurgeMatching, Tree!DisableUsers
  <2> QED
    BY <2>1, TreeRemoves DEF TreeInv, Tree!TypeOK
<1>5. login' \subseteq Tree!Of("faculty") /\ kills' \in 0 .. MaxKills
  BY DEF TreeInv, Tree!TypeOK, Tree!Collect, Tree!DropFound, Tree!PurgeMatching, Tree!DisableUsers
<1> QED
  BY <1>3, <1>4, <1>5 DEF TreeInv, Tree!TypeOK, Tree!Of

LEMMA TreeEnds ==
  ASSUME Tree!ConstantsOK, TreeInv, NEW a \in Deleters,
         Tree!RemoveRoot(a) \/ Tree!EndBatch(a) \/ Tree!Kill(a)
  PROVE  TreeInv'
<1>1. Tree!Idle \in Tree!Actor /\ Tree!Idle.op = "none"
  BY DEF Tree!Idle, Tree!Does, Tree!Actor
<1>2. actor' \in [Deleters -> Tree!Actor] /\ RootFits'
  BY <1>1, TreeGoes DEF Tree!RemoveRoot, Tree!EndBatch, Tree!Kill
<1>3. /\ status' \in [Rows -> {"new", "live", "hidden", "gone"}]
      /\ \A r \in Rows : status'[r] = "hidden" => Kind[r] = "subject"
  BY TreeRemoves DEF Tree!RemoveRoot, Tree!EndBatch, Tree!Kill, TreeInv, Tree!TypeOK
<1>4. login' \subseteq Tree!Of("faculty") /\ kills' \in 0 .. MaxKills
  BY DEF TreeInv, Tree!TypeOK, Tree!RemoveRoot, Tree!EndBatch, Tree!Kill, Tree!ConstantsOK
<1> QED
  BY <1>2, <1>3, <1>4 DEF TreeInv, Tree!TypeOK, Tree!Of

LEMMA TreeBegins ==
  ASSUME Tree!ConstantsOK, TreeInv, NEW a \in Deleters, NEW r \in Rows,
         Tree!Delete(a, r) \/ Tree!Create(a, r) \/ Tree!UpdateBatch(a, r)
  PROVE  TreeInv'
<1>1. PICK next \in Tree!Actor :
        /\ Tree!Goes(a, next) /\ next.root = r
        /\ next.op = "delete" => Kind[r] \in Tree!Deletable
  <2>1. /\ Tree!Does("delete", r, 1) \in Tree!Actor
        /\ Tree!Does("insert", r, 0) \in Tree!Actor
        /\ Tree!Does("subjects", r, 0) \in Tree!Actor
    BY DEF Tree!Does, Tree!Actor
  <2>2. CASE Tree!Delete(a, r)
    BY <2>1, <2>2 DEF Tree!Delete, Tree!Does
  <2>3. CASE Tree!Create(a, r)
    BY <2>1, <2>3 DEF Tree!Create, Tree!Does
  <2>4. CASE Tree!UpdateBatch(a, r)
    BY <2>1, <2>4 DEF Tree!UpdateBatch, Tree!Does
  <2> QED
    BY <2>2, <2>3, <2>4
<1>2. actor' \in [Deleters -> Tree!Actor] /\ RootFits'
  BY <1>1, TreeGoes
<1>3. UNCHANGED <<status, login, kills>>
  BY DEF Tree!Delete, Tree!Create, Tree!UpdateBatch
<1> QED
  BY <1>2, <1>3 DEF TreeInv, Tree!TypeOK, Tree!Of

LEMMA TreeInserts ==
  ASSUME Tree!ConstantsOK, TreeInv, NEW a \in Deleters, Tree!Insert(a)
  PROVE  TreeInv'
<1> DEFINE r == actor[a].root
<1>1. actor[a] \in Tree!Actor /\ r \in Rows /\ actor[a].op = "insert"
  BY DEF TreeInv, Tree!TypeOK, RootFits, Tree!Insert
<1>2. /\ status' \in [Rows -> {"new", "live", "hidden", "gone"}]
      /\ \A x \in Rows : status'[x] = "hidden" => Kind[x] = "subject"
  BY <1>1 DEF Tree!Insert, Tree!Put, TreeInv, Tree!TypeOK
<1>3. login' \subseteq Tree!Of("faculty")
  BY <1>1 DEF Tree!Insert, TreeInv, Tree!TypeOK, Tree!Of
<1>4. PICK next \in Tree!Actor :
        Tree!Goes(a, next) /\ next.op # "delete" /\ (next.op # "none" => next.root \in Rows)
  <2>1. Tree!Idle \in Tree!Actor /\ Tree!Idle.op = "none"
    BY DEF Tree!Idle, Tree!Does, Tree!Actor
  <2>2. [actor[a] EXCEPT !.op = "subjects"] \in Tree!Actor
    BY <1>1 DEF Tree!Actor
  <2>3. /\ [actor[a] EXCEPT !.op = "subjects"].op = "subjects"
        /\ [actor[a] EXCEPT !.op = "subjects"].root = r
    BY <1>1 DEF Tree!Actor
  <2>4. \/ Tree!Goes(a, Tree!Idle)
        \/ Tree!Goes(a, [actor[a] EXCEPT !.op = "subjects"])
    BY DEF Tree!Insert
  <2> QED
    BY <1>1, <2>1, <2>2, <2>3, <2>4
<1>5. actor' \in [Deleters -> Tree!Actor] /\ RootFits'
  BY <1>4, TreeGoes
<1>6. UNCHANGED kills
  BY DEF Tree!Insert
<1> QED
  BY <1>2, <1>3, <1>5, <1>6 DEF TreeInv, Tree!TypeOK, Tree!Of

LEMMA TreeChangesRow ==
  ASSUME Tree!ConstantsOK, TreeInv, NEW a \in Deleters, NEW r \in Rows,
         \/ Tree!InsertSubject(a, r) \/ Tree!HideListed(a, r)
         \/ Tree!DeleteSubject(a, r) \/ Tree!DeleteFolder(a, r)
  PROVE  TreeInv'
<1>1. UNCHANGED <<login, actor, kills>>
  BY DEF Tree!InsertSubject, Tree!HideListed, Tree!DeleteSubject, Tree!DeleteFolder
<1>2. /\ status' \in [Rows -> {"new", "live", "hidden", "gone"}]
      /\ \A x \in Rows : status'[x] = "hidden" => Kind[x] = "subject"
  <2>1. CASE Tree!DeleteFolder(a, r)
    BY <2>1, TreeRemoves DEF Tree!DeleteFolder
  <2>2. CASE Tree!InsertSubject(a, r)
    BY <2>2 DEF Tree!InsertSubject, Tree!Put, TreeInv, Tree!TypeOK
  <2>3. CASE Tree!HideListed(a, r) \/ Tree!DeleteSubject(a, r)
    BY <2>3 DEF Tree!HideListed, Tree!DeleteSubject, Tree!Hide, Tree!Hideable, Tree!Of, TreeInv, Tree!TypeOK
  <2> QED
    BY <2>1, <2>2, <2>3
<1> QED
  BY <1>1, <1>2 DEF TreeInv, Tree!TypeOK, RootFits, Tree!Of

LEMMA TreeStep ==
  ASSUME Tree!ConstantsOK, TreeInv, [Tree!Next]_Tree!vars
  PROVE  TreeInv'
<1>1. CASE UNCHANGED Tree!vars
  BY <1>1 DEF Tree!vars, TreeInv, Tree!TypeOK, RootFits, Tree!Of
<1>2. CASE Tree!Next
  BY <1>2, TreeDeletes, TreeEnds, TreeBegins, TreeInserts, TreeChangesRow DEF Tree!Next
<1> QED
  BY <1>1, <1>2

-----------------------------------------------------------------------------
\* The institute: a behaviour is of one component

InstituteInv ==
  /\ scenario \in {"hierarchy", "cache", "accounts", "tutors", "materials", "usage"}
  /\ scenario = "hierarchy" => TreeInv
  /\ scenario = "cache" => CacheInv
  /\ scenario \in {"accounts", "tutors"} => EnrolmentInv
  /\ scenario = "materials" => MaterialsInv
  /\ scenario = "usage" => LedgerInv

\* A step of the institute is one of the component that moves.
LEMMA OneMoves ==
  ASSUME [Next]_vars
  PROVE  /\ UNCHANGED scenario
         /\ scenario = "hierarchy" => [Tree!Next]_Tree!vars
         /\ scenario = "cache" => [Cache!Next]_Cache!vars
         /\ scenario \in {"accounts", "tutors"} => [Accounts!Next]_Accounts!vars
         /\ scenario = "materials" => [Materials!Next]_Materials!vars
         /\ scenario = "usage" => [Usage!Next]_Usage!vars
<1>1. CASE UNCHANGED vars
  BY <1>1 DEF vars, ofTree, ofCache, ofAccounts, ofMaterials, ofUsage,
              Tree!vars, Cache!vars, Accounts!vars, Materials!vars, Usage!vars
<1>2. CASE Next
  BY <1>2 DEF Next, AccountsNext
<1> QED
  BY <1>1, <1>2

\* The inductive invariants of the components hold side by side.
THEOREM InstituteInvariant == Spec => []InstituteInv
<1>1. Init => InstituteInv
  <2>1. Init /\ scenario = "hierarchy" => TreeInv
    BY TreeInit, TreeConstants DEF Init
  <2>2. Init /\ scenario = "cache" => CacheInv
    BY CacheInit, CacheConstants DEF Init
  <2>3. Init /\ scenario \in {"accounts", "tutors"} => EnrolmentInv
    BY EnrolmentInit, AccountsConstants DEF Init
  <2>4. Init /\ scenario = "materials" => MaterialsInv
    BY MaterialsInit DEF Init
  <2>5. Init /\ scenario = "usage" => LedgerInv
    BY LedgerInit, UsageConstants DEF Init
  <2> QED
    BY <2>1, <2>2, <2>3, <2>4, <2>5 DEF Init, InstituteInv
<1>2. InstituteInv /\ [Next]_vars => InstituteInv'
  <2> SUFFICES ASSUME InstituteInv, [Next]_vars PROVE InstituteInv'
    OBVIOUS
  <2>1. scenario = "hierarchy" => TreeInv'
    BY OneMoves, TreeStep, TreeConstants DEF InstituteInv
  <2>2. scenario = "cache" => CacheInv'
    BY OneMoves, CacheStep, CacheConstants DEF InstituteInv
  <2>3. scenario \in {"accounts", "tutors"} => EnrolmentInv'
    BY OneMoves, EnrolmentStep, AccountsConstants DEF InstituteInv
  <2>4. scenario = "materials" => MaterialsInv'
    BY OneMoves, MaterialsStep, MaterialsConstants DEF InstituteInv
  <2>5. scenario = "usage" => LedgerInv'
    BY OneMoves, LedgerStep, UsageConstants DEF InstituteInv
  <2>6. scenario' = scenario
    BY OneMoves
  <2> QED
    BY <2>1, <2>2, <2>3, <2>4, <2>5, <2>6 DEF InstituteInv
<1> QED
  BY <1>1, <1>2, PTL DEF Spec

\* Types of every component.
THEOREM InstituteTypes == Spec => []TypeOK
<1>1. InstituteInv => TypeOK
  BY CacheHolds, EnrolmentHolds, MaterialsHold, LedgerHolds, UsageConstants
     DEF InstituteInv, TreeInv, TypeOK
<1> QED
  BY <1>1, InstituteInvariant, PTL

\* What the lists and the accounts of an institute show against the last change,
\* or against each other, is owed to a race (api/routers/institute_hierarchy.py,
\* api/routers/auth.py): a list that is out of date without a writer at work, and
\* a login id that two accounts share.
THEOREM AnomaliesOnlyByRace == Spec => []AnomaliesMeanRaces
<1>1. InstituteInv => AnomaliesMeanRaces
  BY CacheHolds, EnrolmentHolds DEF InstituteInv, AnomaliesMeanRaces
<1> QED
  BY <1>1, InstituteInvariant, PTL

\* Material of subjects (student_subjects.py, faculty_materials.py): a submission
\* is never lost to a later or concurrent visit, and only enrolled students see
\* or answer a material, which stays inside its institute.
THEOREM MaterialsEnrolled == Spec => []MaterialsForEnrolled
<1>1. InstituteInv => MaterialsForEnrolled
  BY MaterialsHold DEF InstituteInv, MaterialsForEnrolled
<1> QED
  BY <1>1, InstituteInvariant, PTL

\* The ledger of AI calls (services/ai_usage.py): whichever writes of a usage
\* record are retried or fail, and whichever projections overlap, a call is
\* charged at most once and stays in the totals.
THEOREM LedgerIsExact == Spec => []LedgerExact
<1>1. InstituteInv => LedgerExact
  BY LedgerHolds, UsageConstants DEF InstituteInv, LedgerExact
<1> QED
  BY <1>1, InstituteInvariant, PTL
=============================================================================
