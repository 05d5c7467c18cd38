----------------------------- MODULE UsageLedger -----------------------------
(***************************************************************************)
(* The ledger of AI calls (aiUsageEvents) and its projections on the token *)
(* counters of a user and an institute.                                    *)
(*                                                                         *)
(* A call of the faculty product is entered before it is made; a call of   *)
(* the student product only afterwards.  What the provider reports is      *)
(* entered once, under one event id, with up to Attempts attempts.  Known  *)
(* usage is then projected on each owner: the totals are recomputed from   *)
(* the ledger and written with $max.  A reconciler projects what is still  *)
(* pending.  Any awaited operation may raise, after or without taking      *)
(* effect, and any recorder may stop for good.                             *)
(***************************************************************************)
EXTENDS Naturals, Sequences, FiniteSets

CONSTANTS
    Calls,          \* AI calls of one user of one institute
    Tracked,        \* those made through tracked_faculty_call
    Tokens,         \* tokens each call spends
    Reconciler,     \* the process of usage_reconciliation_loop
    Targets,        \* the owners in the order they are projected
    Legacy,         \* counters from before the ledger
    Attempts,       \* attempts to record a call: 3 in the code
    MaxFaults,      \* bound on the operations that raise
    None

Owners == {Targets[k] : k \in DOMAIN Targets}
\* What the constants of an instance satisfy.
ConstantsOK ==
  /\ IsFiniteSet(Calls)
  /\ Tracked \subseteq Calls
  /\ Tokens \in [Calls -> Nat]
  /\ Reconciler \notin Calls
  /\ Attempts \in Nat \ {0}
  /\ MaxFaults \in Nat
  /\ None \notin Nat
  /\ Targets \in Seq(Owners) /\ Targets # <<>>
  /\ Legacy \in [Owners -> Nat]

Processes == Calls \cup {Reconciler}

\* Event ids: the one drawn before the first attempt, and those a retry could
\* draw.
Ids == Calls \X (0..Attempts)

VARIABLES
    spent,      \* spent[c]: what the provider reported for call c
    ledger,     \* aiUsageEvents by id
    baseline,   \* ai_usage_v2_baseline of each owner
    totals,     \* token_usage of each owner
    task,       \* where each process is and what it has read
    faults      \* operations that raised so far

vars == <<spent, ledger, baseline, totals, task, faults>>

Reports == {"none", "unknown", "known"}
Event == [status: {"none", "started", "unknown", "known"}, pending: BOOLEAN]
NoEvent == [status |-> "none", pending |-> FALSE]

\* A process projects event id on target number owner; seen is the counter it
\* read, sum what it will write, ok whether every target so far was written.
Task == [at: {"idle", "calling", "upsert", "existing", "finalize", "stored",
              "owner", "capture", "events", "write", "mark", "done"},
         attempt: 0..Attempts, id: Ids \cup {None}, owner: 1..Len(Targets) + 1,
         seen: Nat, sum: Nat, ok: BOOLEAN, scanned: SUBSET Ids]

Fresh == [at |-> "idle", attempt |-> 0, id |-> None, owner |-> 1,
          seen |-> 0, sum |-> 0, ok |-> TRUE, scanned |-> {}]

Init ==
    /\ spent = [c \in Calls |-> "none"]
    /\ ledger = [i \in Ids |-> NoEvent]
    /\ baseline = [o \in Owners |-> None]
    /\ totals = Legacy
    /\ task = [p \in Processes |-> Fresh]
    /\ faults = 0

-----------------------------------------------------------------------------
\* Where a process goes when an operation raises

\* Mutant: every attempt draws an event id of its own.
EventId_PerAttempt(c, attempt) == <<c, attempt>>

EventId(c, attempt) == <<c, 0>>

\* record_ai_usage tries again; the reconciler waits for its next scan.
Retried(p) ==
    IF p = Reconciler THEN Fresh
    ELSE IF task[p].attempt < Attempts
      THEN [Fresh EXCEPT !.at = "upsert", !.attempt = task[p].attempt + 1,
                         !.id = EventId(p, task[p].attempt + 1)]
      ELSE [task[p] EXCEPT !.at = "done"]

NextTarget(p, ok) ==
    [task[p] EXCEPT !.at = IF task[p].owner = Len(Targets) THEN "mark" ELSE "owner",
                    !.owner = @ + 1, !.ok = @ /\ ok]

\* project_usage_event survives a target that fails.
Raised(p) ==
    CASE task[p].at \in {"owner", "capture", "events", "write"} -> NextTarget(p, FALSE)
      [] task[p].at \in {"idle", "calling"} -> [task[p] EXCEPT !.at = "done"]
      [] OTHER -> Retried(p)

Goes(p, next) == task' = [task EXCEPT ![p] = next]

\* An operation that took effect returns, or raises all the same.
Returns(p, next) ==
    \/ Goes(p, next) /\ UNCHANGED faults
    \/ faults < MaxFaults /\ faults' = faults + 1 /\ Goes(p, Raised(p))

\* An operation raises without effect.
Fault(p) ==
    /\ task[p].at \notin {"done", "calling"}
    /\ task[p].at = "idle" => p \in Tracked
    /\ faults < MaxFaults /\ faults' = faults + 1
    /\ Goes(p, Raised(p))
    /\ UNCHANGED <<spent, ledger, baseline, totals>>

\* The process of a request or job stops.
Die(c) ==
    /\ task[c].at # "done"
    /\ faults < MaxFaults /\ faults' = faults + 1
    /\ Goes(c, [task[c] EXCEPT !.at = "done"])
    /\ UNCHANGED <<spent, ledger, baseline, totals>>

-----------------------------------------------------------------------------
\* The call

\* tracked_faculty_call enters the attempt before the provider is called.
Open(c) ==
    /\ task[c].at = "idle" /\ c \in Tracked
    /\ ledger' = [ledger EXCEPT ![EventId(c, 1)].status = "started"]
    /\ Returns(c, [task[c] EXCEPT !.at = "calling"])
    /\ UNCHANGED <<spent, baseline, totals>>

\* The student product calls first.
Call(c) ==
    /\ task[c].at = "idle" /\ c \notin Tracked
    /\ Goes(c, [task[c] EXCEPT !.at = "calling"])
    /\ UNCHANGED <<spent, ledger, baseline, totals, faults>>

\* The provider answers: usage that can be read is recorded.
Answer(c) ==
    /\ task[c].at = "calling"
    /\ \E report \in {"unknown", "known"} :
          /\ spent' = [spent EXCEPT ![c] = report]
          /\ IF report = "known" \/ c \notin Tracked
               THEN /\ Goes(c, [task[c] EXCEPT !.at = "upsert", !.attempt = 1,
                                               !.id = EventId(c, 1)])
                    /\ UNCHANGED ledger
               ELSE /\ Goes(c, [task[c] EXCEPT !.at = "done"])
                    /\ \/ ledger' = [ledger EXCEPT ![EventId(c, 1)].status = "unknown"]
                       \/ UNCHANGED ledger   \* _mark_unknown may fail
    /\ UNCHANGED <<baseline, totals, faults>>

Entry(c) == [status |-> spent[c], pending |-> spent[c] = "known"]

\* Create once.
Upsert(c) ==
    /\ task[c].at = "upsert"
    /\ LET i == task[c].id IN
       ledger' = [ledger EXCEPT ![i] = IF @ = NoEvent THEN Entry(c) ELSE @]
    /\ Returns(c, [task[c] EXCEPT !.at = "existing"])
    /\ UNCHANGED <<spent, baseline, totals>>

ReadExisting(c) ==
    /\ task[c].at = "existing"
    /\ Goes(c, [task[c] EXCEPT !.at =
          IF ledger[task[c].id].status = "known" THEN "stored" ELSE "finalize"])
    /\ UNCHANGED <<spent, ledger, baseline, totals, faults>>

\* Finalize once.
Finalize(c) ==
    /\ task[c].at = "finalize"
    /\ LET i == task[c].id IN
       ledger' = [ledger EXCEPT ![i] = IF @.status # "known" THEN Entry(c) ELSE @]
    /\ Returns(c, [task[c] EXCEPT !.at = "stored"])
    /\ UNCHANGED <<spent, baseline, totals>>

ReadStored(c) ==
    /\ task[c].at = "stored"
    /\ Goes(c, [task[c] EXCEPT !.at =
          IF ledger[task[c].id].status = "known" THEN "owner" ELSE "done"])
    /\ UNCHANGED <<spent, ledger, baseline, totals, faults>>

Record(c) ==
    Open(c) \/ Call(c) \/ Answer(c) \/ Upsert(c) \/ ReadExisting(c)
            \/ Finalize(c) \/ ReadStored(c)

-----------------------------------------------------------------------------
\* project_usage_event, for every process

Target(p) == Targets[task[p].owner]

ReadOwner(p) ==
    /\ task[p].at = "owner"
    /\ Goes(p, [task[p] EXCEPT !.at = "capture", !.seen = totals[Target(p)]])
    /\ UNCHANGED <<spent, ledger, baseline, totals, faults>>

\* The legacy counters are kept once.
CaptureBaseline(p) ==
    /\ task[p].at = "capture"
    /\ baseline' = [baseline EXCEPT ![Target(p)] = IF @ = None THEN task[p].seen ELSE @]
    /\ Returns(p, [task[p] EXCEPT !.at = "events"])
    /\ UNCHANGED <<spent, ledger, totals>>

Known == {i \in Ids : ledger[i].status = "known"}

\* The tokens of a set of events, each token once.
SumTokens(events) == Cardinality(UNION {{i} \X (1 .. Tokens[i[1]]) : i \in events})

\* The baseline does not change any more, and the events of both owners are
\* those of the one user.
ReadEvents(p) ==
    /\ task[p].at = "events"
    /\ Goes(p, [task[p] EXCEPT !.at = "write",
                               !.sum = baseline[Target(p)] + SumTokens(Known)])
    /\ UNCHANGED <<spent, ledger, baseline, totals, faults>>

WriteTotals(p) ==
    /\ task[p].at = "write"
    /\ totals' = [totals EXCEPT ![Target(p)] = IF task[p].sum > @ THEN task[p].sum ELSE @]
    /\ Returns(p, NextTarget(p, TRUE))
    /\ UNCHANGED <<spent, ledger, baseline>>

MarkProjected(p) ==
    /\ task[p].at = "mark"
    /\ ledger' = [ledger EXCEPT ![task[p].id].pending = ~task[p].ok]
    /\ Returns(p, IF p = Reconciler
                    THEN [Fresh EXCEPT !.scanned = task[p].scanned \cup {task[p].id}]
                    ELSE [task[p] EXCEPT !.at = "done"])
    /\ UNCHANGED <<spent, baseline, totals>>

Project(p) ==
    ReadOwner(p) \/ CaptureBaseline(p) \/ ReadEvents(p) \/ WriteTotals(p) \/ MarkProjected(p)

-----------------------------------------------------------------------------
\* reconcile_usage_rollups: each pending event once a scan.

Pending == {i \in Ids : ledger[i].pending}

Scan ==
    /\ task[Reconciler].at = "idle"
    /\ \E i \in Pending \ task[Reconciler].scanned :
          Goes(Reconciler, [task[Reconciler] EXCEPT !.at = "owner", !.id = i])
    /\ UNCHANGED <<spent, ledger, baseline, totals, faults>>

\* Mutant: the loop ends with its first scan.
Rescan_Never == FALSE /\ UNCHANGED vars

Rescan ==
    /\ task[Reconciler].at = "idle"
    /\ task[Reconciler].scanned # {}
    /\ Pending \subseteq task[Reconciler].scanned
    /\ Goes(Reconciler, Fresh)
    /\ UNCHANGED <<spent, ledger, baseline, totals, faults>>

Reconcile == Scan \/ Rescan \/ Project(Reconciler)

Next ==
    \/ \E c \in Calls : Record(c) \/ Die(c)
    \/ \E p \in Processes : Project(p) \/ Fault(p)
    \/ Scan \/ Rescan

Spec == Init /\ [][Next]_vars

-----------------------------------------------------------------------------
\* Properties

TypeOK ==
    /\ spent \in [Calls -> Reports]
    /\ ledger \in [Ids -> Event]
    /\ baseline \in [Owners -> Nat \cup {None}]
    /\ totals \in [Owners -> Nat]
    /\ task \in [Processes -> Task]
    /\ faults \in 0..MaxFaults

ReportedCalls == {c \in Calls : spent[c] = "known"}

\* "Retrying must never create a second charge for the same call": the totals
\* contain the legacy counters once and each call at most once.
ChargedOnce ==
    \A o \in Owners :
        totals[o] <= Legacy[o] + SumTokens({<<c, 0>> : c \in ReportedCalls})

\* An event that is not pending any more is in the totals of every owner, and
\* stays there: projections that read the ledger earlier do not roll it back.
ProjectedIsCounted ==
    \A o \in Owners :
        totals[o] >= Legacy[o] + SumTokens(Known \ Pending)

\* "A durable attempt BEFORE allowing spend": no call of the faculty product is
\* made, let alone paid, without an event in the ledger.
NothingSpentUnrecorded ==
    \A c \in Tracked :
        task[c].at = "calling" \/ spent[c] # "none" => ledger[EventId(c, 1)] # NoEvent

\* Whichever writes are retried or fail, and whichever projections overlap.
LedgerExact == ChargedOnce /\ ProjectedIsCounted /\ NothingSpentUnrecorded
=============================================================================
