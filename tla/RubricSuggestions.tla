------------------------- MODULE RubricSuggestions -------------------------
(***************************************************************************)
(* The suggestion record of one paper: explicit requests start attempts, a *)
(* worker buys the paper's batches one after the other and saves each      *)
(* response, and an attempt that failed may be retried explicitly.  The    *)
(* record is found by a fingerprint of the paper and the course outcomes;  *)
(* matches says whether they are at present what the fingerprint was       *)
(* computed from.  A request draws one attempt id, so both have one name.  *)
(***************************************************************************)
EXTENDS Naturals, FiniteSets

CONSTANTS
    Requests,       \* POSTs of the owner of the exam
    NumBatches,     \* batches of the paper
    Careful,        \* an operator fails only attempts nothing works on
    MaxChanges,     \* bound on the changes of the paper or its outcomes
    None

\* What the constants of an instance satisfy.
ConstantsOK ==
  /\ None \notin Requests
  /\ NumBatches \in Nat \ {0}
  /\ Careful \in BOOLEAN
  /\ MaxChanges \in Nat

Batches == 1..NumBatches

VARIABLES
    matches,    \* the exam's paper and outcomes have the fingerprint
    changes,    \* how often they changed
    record,     \* the document of rubricSuggestions
    request,    \* where each POST is and what it has read
    queue,      \* attempts whose message is queued
    worker      \* where the worker of each attempt is

vars == <<matches, changes, record, request, queue, worker>>

-----------------------------------------------------------------------------
\* Values

\* A response, whole or not: a malformed one is saved too.
Responses == {"none", "good", "bad"}

Record == [status: {"none", "queued", "processing", "failed", "completed"},
           attempt: Requests \cup {None},
           batches: [Batches -> Responses], raw: Responses]

Empty == [b \in Batches |-> "none"]

\* old: the attempt to replace; free: every batch has a saved response;
\* regenerate: buy all again.
Request == [at: {"new", "claim", "dispatch", "done"}, old: Requests \cup {None},
            free: BOOLEAN, regenerate: BOOLEAN]

\* got: the response the worker holds; good: those so far were well formed.
Worker == [at: {"none", "start", "load", "check", "batch", "buy", "calling", "store",
                "validate", "combine", "finish", "broken", "gone"},
           batch: 1..NumBatches + 1, got: Responses, good: BOOLEAN, bought: SUBSET Batches]

Init ==
    /\ matches = TRUE
    /\ changes = 0
    /\ record = [status |-> "none", attempt |-> None, batches |-> Empty, raw |-> "none"]
    /\ request = [r \in Requests |->
                     [at |-> "new", old |-> None, free |-> FALSE, regenerate |-> FALSE]]
    /\ queue = {}
    /\ worker = [r \in Requests |->
                    [at |-> "none", batch |-> 1, got |-> "none", good |-> TRUE, bought |-> {}]]

-----------------------------------------------------------------------------
\* suggest_rubric

AllSaved == record.raw # "none" \/ \A b \in Batches : record.batches[b] # "none"

\* The request reads the paper and the record; a failed attempt is replaced only
\* on demand.  Rate limit and budget may refuse a request that could spend.
Ask(r, retry, regenerate) ==
    /\ request[r].at = "new"
    /\ regenerate => retry
    /\ \/ /\ matches
          /\ record.status = "none" \/ (record.status = "failed" /\ retry)
          /\ request' = [request EXCEPT ![r] =
                [at |-> "claim", old |-> record.attempt, regenerate |-> regenerate,
                 free |-> record.status = "failed" /\ AllSaved /\ ~regenerate]]
       \/ request' = [request EXCEPT ![r].at = "done"]
    /\ UNCHANGED <<matches, changes, record, queue, worker>>

\* Mutant: the first claim does not look whether another one was first.
Claimable_First(r) ==
    IF request[r].old = None THEN TRUE
    ELSE record.status = "failed" /\ record.attempt = request[r].old

Claimable(r) ==
    IF request[r].old = None THEN record.status = "none"
    ELSE record.status = "failed" /\ record.attempt = request[r].old

Claimed(r) ==
    [status |-> "queued", attempt |-> r,
     batches |-> IF request[r].regenerate THEN Empty ELSE record.batches,
     raw |-> IF request[r].free THEN record.raw ELSE "none"]

Claim(r) ==
    /\ request[r].at = "claim"
    /\ IF Claimable(r)
         THEN record' = Claimed(r) /\ request' = [request EXCEPT ![r].at = "dispatch"]
         ELSE request' = [request EXCEPT ![r].at = "done"] /\ UNCHANGED record
    /\ UNCHANGED <<matches, changes, queue, worker>>

\* enqueue; when it raises the message may be queued or not, and the request
\* says so in the record without changing its status.
Dispatch(r) ==
    /\ request[r].at = "dispatch"
    /\ queue' \in {queue, queue \cup {r}}
    /\ request' = [request EXCEPT ![r].at = "done"]
    /\ UNCHANGED <<matches, changes, record, worker>>

RequestDies(r) ==
    /\ request[r].at \in {"claim", "dispatch"}
    /\ request' = [request EXCEPT ![r].at = "done"]
    /\ UNCHANGED <<matches, changes, record, queue, worker>>

-----------------------------------------------------------------------------
\* run_suggestion_job

\* The filter of every read and write of a worker.
Active(r) == record.attempt = r /\ record.status = "processing"

Step(r, place) == worker' = [worker EXCEPT ![r].at = place]

\* A message may be delivered again; the claim succeeds once.
Deliver(r) ==
    /\ r \in queue
    /\ queue' \in {queue, queue \ {r}}
    /\ IF record.attempt = r /\ record.status = "queued"
         THEN /\ record' = [record EXCEPT !.status = "processing"]
              /\ Step(r, "start")
         ELSE UNCHANGED <<record, worker>>
    /\ UNCHANGED <<matches, changes, request>>

\* The first check of access, barrier and fingerprint.
Verify(r) ==
    /\ worker[r].at = "start"
    /\ Step(r, IF matches THEN "load" ELSE "broken")
    /\ UNCHANGED <<matches, changes, record, request, queue>>

Load(r) ==
    /\ worker[r].at = "load"
    /\ IF record.attempt = r /\ record.raw # "none"
         THEN worker' = [worker EXCEPT ![r].at = "finish", ![r].good = record.raw = "good"]
         ELSE Step(r, "check")
    /\ UNCHANGED <<matches, changes, record, request, queue>>

\* The same check before every batch.
Recheck(r) ==
    /\ worker[r].at = "check"
    /\ Step(r, IF ~matches THEN "broken"
               ELSE IF worker[r].batch > NumBatches THEN "combine" ELSE "batch")
    /\ UNCHANGED <<matches, changes, record, request, queue>>

\* A saved response is used; a replaced attempt stops without a trace.
LoadBatch(r) ==
    /\ worker[r].at = "batch"
    /\ LET response == record.batches[worker[r].batch] IN
       IF ~Active(r) THEN Step(r, "gone")
       ELSE IF response = "none" THEN Step(r, "buy")
       ELSE worker' = [worker EXCEPT ![r].at = "validate", ![r].got = response]
    /\ UNCHANGED <<matches, changes, record, request, queue>>

\* The budget may be exhausted; else the provider is called.
Buy(r) ==
    /\ worker[r].at = "buy"
    /\ \/ Step(r, "broken")
       \/ worker' = [worker EXCEPT ![r].at = "calling", ![r].bought = @ \cup {worker[r].batch}]
    /\ UNCHANGED <<matches, changes, record, request, queue>>

\* The provider answers, or the call fails.  A truncated or refused response is
\* kept apart, where nothing reads it.
Respond(r) ==
    /\ worker[r].at = "calling"
    /\ \/ Step(r, "broken")
       \/ \E response \in {"good", "bad"} :
             worker' = [worker EXCEPT ![r].at = "store", ![r].got = response]
    /\ UNCHANGED <<matches, changes, record, request, queue>>

\* The response is kept before anything judges it.
StoreBatch(r) ==
    /\ worker[r].at = "store"
    /\ IF Active(r)
         THEN /\ record' = [record EXCEPT !.batches[worker[r].batch] = worker[r].got]
              /\ Step(r, "validate")
         ELSE Step(r, "broken") /\ UNCHANGED record
    /\ UNCHANGED <<matches, changes, request, queue>>

\* A one-batch paper also keeps the response as the raw one.  A malformed batch
\* ends the attempt, with the response saved.
ValidateBatch(r) ==
    /\ worker[r].at = "validate"
    /\ worker' = [worker EXCEPT ![r].at = IF worker[r].got = "good" THEN "check" ELSE "broken",
                                ![r].batch = IF worker[r].got = "good" THEN @ + 1 ELSE @]
    /\ record' = IF NumBatches = 1 /\ Active(r) THEN [record EXCEPT !.raw = worker[r].got] ELSE record
    /\ UNCHANGED <<matches, changes, request, queue>>

Combine(r) ==
    /\ worker[r].at = "combine"
    /\ IF Active(r)
         THEN record' = [record EXCEPT !.raw = "good"] /\ Step(r, "finish")
         ELSE Step(r, "broken") /\ UNCHANGED record
    /\ UNCHANGED <<matches, changes, request, queue>>

\* The result is validated, the paper checked a last time, the result saved.
Complete(r) ==
    /\ worker[r].at = "finish"
    /\ IF worker[r].good /\ matches
         THEN /\ record' = IF Active(r) THEN [record EXCEPT !.status = "completed"] ELSE record
              /\ Step(r, "gone")
         ELSE Step(r, "broken") /\ UNCHANGED record
    /\ UNCHANGED <<matches, changes, request, queue>>

\* Any other exception of the worker.
Break(r) ==
    /\ worker[r].at \in {"start", "load", "check", "batch", "store", "validate", "combine", "finish"}
    /\ Step(r, "broken")
    /\ UNCHANGED <<matches, changes, record, request, queue>>

\* The exception handler; its own write may fail.
ReportFailure(r) ==
    /\ worker[r].at = "broken"
    /\ record' \in {record, IF Active(r) THEN [record EXCEPT !.status = "failed"] ELSE record}
    /\ Step(r, "gone")
    /\ UNCHANGED <<matches, changes, request, queue>>

\* The process is killed or the task cancelled: nothing is reported.
Kill(r) ==
    /\ worker[r].at \notin {"none", "gone"}
    /\ Step(r, "gone")
    /\ UNCHANGED <<matches, changes, record, request, queue>>

Work(r) ==
    \/ Verify(r) \/ Load(r) \/ Recheck(r) \/ LoadBatch(r) \/ Buy(r) \/ Respond(r)
    \/ StoreBatch(r) \/ ValidateBatch(r) \/ Combine(r) \/ Complete(r) \/ ReportFailure(r)

-----------------------------------------------------------------------------
\* Everything else

\* The paper is replaced, its mapping or the course outcomes are edited: back
\* to the same text too.
ChangePaper ==
    /\ changes < MaxChanges
    /\ matches' = ~matches
    /\ changes' = changes + 1
    /\ UNCHANGED <<record, request, queue, worker>>

\* "Verify queue/process/provider state and accounting before an operator marks
\* it failed": an unresolved attempt is failed by hand.
OperatorFails ==
    /\ record.status \in {"queued", "processing"}
    /\ Careful => /\ record.attempt \notin queue
                  /\ request[record.attempt].at = "done"
                  /\ worker[record.attempt].at \in {"none", "gone"}
    /\ record' = [record EXCEPT !.status = "failed"]
    /\ UNCHANGED <<matches, changes, request, queue, worker>>

Next ==
    \/ \E r \in Requests :
          \/ \E retry, regenerate \in BOOLEAN : Ask(r, retry, regenerate)
          \/ Claim(r) \/ Dispatch(r) \/ RequestDies(r)
          \/ Deliver(r) \/ Work(r) \/ Break(r) \/ Kill(r)
    \/ ChangePaper \/ OperatorFails

Spec == Init /\ [][Next]_vars

-----------------------------------------------------------------------------
\* Properties

TypeOK ==
    /\ matches \in BOOLEAN
    /\ changes \in 0..MaxChanges
    /\ record \in Record
    /\ request \in [Requests -> Request]
    /\ queue \subseteq Requests
    /\ worker \in [Requests -> Worker]

\* "The attempt changed before its batch response could be saved": the worker
\* of an attempt that was replaced changes nothing any more.
FencedStep ==
    \A r \in Requests :
        worker'[r] # worker[r] /\ record.attempt # r => record' = record

\* A retry that passed neither rate limit nor budget buys nothing, since it
\* finds every response saved.
FreeRetryBuysNothing ==
    \A r \in Requests : request[r].free => worker[r].bought = {}

\* A completed suggestion was put together from one whole response per batch.
CompletedIsWhole ==
    record.status = "completed" =>
        record.raw = "good" /\ \A b \in Batches : record.batches[b] = "good"

\* The batches of PaidBatches: saved, and bought by a worker but not saved yet.
SavedBatches == {b \in Batches : record.batches[b] # "none"}
BuyingBatches ==
    {worker[r].batch : r \in {w \in Requests : worker[w].at \in {"calling", "store"}}}
=============================================================================
