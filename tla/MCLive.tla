------------------------------- MODULE MCLive --------------------------------
(* What must come to an end: the generation of mock tests and the projection *)
(* of usage records, side by side.  They share no state in the model, so a   *)
(* behaviour is one of them, the scenario.                                   *)
EXTENDS Integers, Sequences

CONSTANTS t1, t2, r1, r2,                 \* tests, requests
          c1, user, institute, Reconciler,
          Inactive, None

VARIABLES scenario,
          test, attempts, job, working, submits, uncounted, cutOff,  \* MockTests
          spent, ledger, baseline, totals, task, faults              \* UsageLedger

Tests == INSTANCE MockTests WITH
  Tests <- {t1, t2}, Requests <- {r1, r2}, MaxSubmits <- 2, task <- working

\* One call that counts for two owners, with every attempt the code makes.
Usage == INSTANCE UsageLedger WITH
  Calls <- {c1}, Tracked <- {c1}, Tokens <- [c \in {c1} |-> 1],
  Targets <- <<user, institute>>, Legacy <- [o \in {user, institute} |-> 4],
  Attempts <- 3, MaxFaults <- 2

ASSUME Tests!ConstantsOK /\ Usage!ConstantsOK

ofTests == <<test, attempts, job, working, submits, uncounted, cutOff>>
ofUsage == <<spent, ledger, baseline, totals, task, faults>>
vars == <<scenario, ofTests, ofUsage>>

NoTests == /\ test = Inactive /\ attempts = Inactive /\ job = Inactive /\ working = Inactive
           /\ submits = Inactive /\ uncounted = Inactive /\ cutOff = Inactive
NoUsage == /\ spent = Inactive /\ ledger = Inactive /\ baseline = Inactive
           /\ totals = Inactive /\ task = Inactive /\ faults = Inactive

Init ==
  /\ scenario \in {"tests", "usage"}
  /\ IF scenario = "tests" THEN Tests!Init ELSE NoTests
  /\ IF scenario = "usage" THEN Usage!Init ELSE NoUsage

Next ==
  /\ UNCHANGED scenario
  /\ IF scenario = "tests" THEN Tests!Next ELSE UNCHANGED ofTests
  /\ IF scenario = "usage" THEN Usage!Next ELSE UNCHANGED ofUsage

\* A live worker takes the jobs of its queue and ends them, a live request goes
\* on after its insert, and the event loop keeps running the reconciler of a
\* live server process.
Generates(t) == scenario = "tests" /\ Tests!JobStep(t) /\ UNCHANGED <<scenario, ofUsage>>
GoesOn(r) == /\ scenario = "tests" /\ UNCHANGED <<scenario, ofUsage>>
             /\ Tests!EnqueueGeneration(r) \/ Tests!GroundingRaises(r)
Reconciles == scenario = "usage" /\ Usage!Reconcile /\ UNCHANGED <<scenario, ofTests>>

Fairness ==
  /\ \A t \in {t1, t2} : WF_vars(Generates(t))
  /\ \A r \in {r1, r2} : WF_vars(GoesOn(r))
  /\ WF_vars(Reconciles)

Spec == Init /\ [][Next]_vars /\ Fairness

-----------------------------------------------------------------------------
\* A test whose generation was enqueued comes to have questions or an error,
\* unless it is deleted, its job is cut off or the provider replied with an
\* array without a question.
Settled(t) ==
  scenario = "tests" =>
    \/ ~Tests!Exists(t)
    \/ test[t].questions > 0 \/ test[t].error
    \/ t \in cutOff \/ job[t] = "blank"

EnqueuedIsSettled ==
  \A t \in {t1, t2} : scenario = "tests" /\ job[t] = "queued" ~> Settled(t)

\* Every record with known usage reaches the totals, whoever died or failed.
Known(i) == scenario = "usage" /\ ledger[i].status = "known"

EventuallyCounted ==
  \A i \in {c1} \X (0 .. 3) : Known(i) ~> (scenario = "usage" => ~ledger[i].pending)
=============================================================================
