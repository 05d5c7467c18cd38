--------------------------- MODULE JobSubmission ---------------------------
(***************************************************************************)
(* The submission of one billed AI job (the evaluation of one answer       *)
(* script, or the generation of one question paper) and its execution.     *)
(*                                                                         *)
(* MongoDB keeps a guard in the submitted document: the id of the job that *)
(* holds it.  Redis keeps one status record per job, under a TTL.  A POST  *)
(* claims the guard for a job id of its own or reconnects to the job that  *)
(* holds it; a worker executes a dispatched job and releases the guard     *)
(* when it ends.  Every awaited call of the code is a step of its own, and *)
(* any process may stop between two of them.                               *)
(*                                                                         *)
(* A job makes its provider calls one after the other or gathers several.  *)
(* The first of a gather that fails ends the job; the others are shielded  *)
(* and go on by themselves, whatever becomes of the job and of its guard.  *)
(*                                                                         *)
(* A POST draws one fresh uuid before claim_submission, so a request and   *)
(* its candidate job share one name here.                                  *)
(***************************************************************************)
EXTENDS Naturals

CONSTANTS
    Requests,       \* POST requests, each named by its candidate job id
    Users,          \* authenticated users
    Owner,          \* Owner[r]: the user who sends request r
    NoJob,          \* the guard field is absent
    MaxAttempts,    \* rounds of the loop in claim_submission (3 in the code)
    MaxGathered     \* provider calls a job gathers (2: marks and transcript)

ASSUME OwnerAssumption == Owner \in [Requests -> Users]
ASSUME NoJobAssumption == NoJob \notin Requests
ASSUME AttemptsAssumption == MaxAttempts \in Nat \ {0}
ASSUME GatheredAssumption == MaxGathered \in Nat \ {0}

VARIABLES
    exists,         \* the submitted MongoDB document exists
    guard,          \* its guard field: a job id or NoJob
    status,         \* status[j]: "status" of j's Redis record, or "absent"
    started,        \* started[j]: "execution_started" of j's Redis record
    pc,             \* pc[r]: next step of request r
    attempts,       \* attempts[r]: completed rounds of r's claim loop
    seen,           \* seen[r]: the active job r read from the document
    reply,          \* reply[r]: what r answered, and the job it named
    queue,          \* dispatched jobs the workers may be handed
    stage,          \* stage[j]: where j's execution stands
    calls,          \* calls[j]: provider calls of j that may be in flight
    executions      \* executions[j]: how many workers won j's execution

vars == <<exists, guard, status, started, pc, attempts, seen, reply, queue,
          stage, calls, executions>>
redis == <<status, started>>
handler == <<pc, attempts, seen, reply>>
worker == <<queue, stage, calls, executions>>

-----------------------------------------------------------------------------
\* Values

Terminal == {"done", "completed", "failed", "error"}
Status == Terminal \cup {"absent", "queued", "processing", "interrupted"}

NoReply == [kind |-> "none", job |-> NoJob]
\* A 4xx answer names no job; 202 and 503 name the job the client may poll.
ReplyKinds == {"none", "accepted", "reused", "rejected"}

Steps == {"new", "find", "lookup", "release", "create", "claim", "lost",
          "budget", "dispatch", "uncertain", "refuse", "withdraw",
          "answered", "dead"}

\* Stages in which the job may still start provider calls, as far as anybody
\* can tell.
Unsettled == {"running", "interrupted"}
Stages == Unsettled \cup {"none", "closing", "ended"}

-----------------------------------------------------------------------------
\* Redis and MongoDB primitives

\* Mutant: a final record is overwritten like any other.
Changeable_Final(j) == status[j] # "absent"

\* A status change of j would be written: the record is there and not final.
Changeable(j) == status[j] \notin Terminal \cup {"absent"}

\* Mutant: execution_started is not looked at.
ClaimableExecution_Again(j) == Changeable(j)

UpdateJob(j, new) ==
    status' = IF Changeable(j) THEN [status EXCEPT ![j] = new] ELSE status

ClaimableExecution(j) == Changeable(j) /\ ~started[j]

\* Mutant: the release does not compare the job id.
Released_Any(j) == IF exists THEN NoJob ELSE guard

\* The guard is removed only while it still names the job being released.
Released(j) == IF exists /\ guard = j THEN NoJob ELSE guard

Goto(r, step) == pc' = [pc EXCEPT ![r] = step]

\* The handler returns: its local variables are gone.
Leave(r, step) ==
    /\ Goto(r, step)
    /\ attempts' = [attempts EXCEPT ![r] = 0]
    /\ seen' = [seen EXCEPT ![r] = NoJob]

Answer(r, kind, job) ==
    /\ Leave(r, "answered")
    /\ reply' = [reply EXCEPT ![r] = [kind |-> kind, job |-> job]]

NextRound(r) ==
    /\ attempts' = [attempts EXCEPT ![r] = @ + 1]
    /\ seen' = [seen EXCEPT ![r] = NoJob]
    /\ Goto(r, "find")

-----------------------------------------------------------------------------
Init ==
    /\ exists = TRUE
    /\ guard = NoJob
    /\ status = [j \in Requests |-> "absent"]
    /\ started = [j \in Requests |-> FALSE]
    /\ pc = [r \in Requests |-> "new"]
    /\ attempts = [r \in Requests |-> 0]
    /\ seen = [r \in Requests |-> NoJob]
    /\ reply = [r \in Requests |-> NoReply]
    /\ queue = {}
    /\ stage = [j \in Requests |-> "none"]
    /\ calls = [j \in Requests |-> 0]
    /\ executions = [j \in Requests |-> 0]

\* A POST that passed the access checks enters claim_submission.
Post(r) ==
    /\ pc[r] = "new"
    /\ Goto(r, "find")
    /\ UNCHANGED <<exists, guard, redis, attempts, seen, reply, worker>>

FindActive(r) ==
    /\ pc[r] = "find"
    /\ attempts[r] < MaxAttempts
    /\ \/ /\ ~exists
          /\ Answer(r, "rejected", NoJob)
       \/ /\ exists /\ guard = NoJob
          /\ Goto(r, "create")
          /\ UNCHANGED <<attempts, seen, reply>>
       \/ /\ exists /\ guard # NoJob
          /\ seen' = [seen EXCEPT ![r] = guard]
          /\ Goto(r, "lookup")
          /\ UNCHANGED <<attempts, reply>>
    /\ UNCHANGED <<exists, guard, redis, worker>>

\* Three rounds were lost to other requests.
GiveUp(r) ==
    /\ pc[r] = "find"
    /\ attempts[r] = MaxAttempts
    /\ Answer(r, "rejected", NoJob)
    /\ UNCHANGED <<exists, guard, redis, worker>>

\* Mutant: the candidate is released instead of the finished job.
ReleasePrevious_Candidate(r) ==
    /\ pc[r] = "release"
    /\ guard' = Released(r)
    /\ NextRound(r)
    /\ UNCHANGED <<exists, redis, reply, worker>>

LookupActive(r) ==
    /\ pc[r] = "lookup"
    /\ LET j == seen[r]
           readable == status[j] # "absent" /\ Owner[j] = Owner[r]
       IN \/ ~readable /\ Answer(r, "rejected", NoJob)
          \/ readable /\ status[j] \notin Terminal /\ Answer(r, "reused", j)
          \/ readable /\ status[j] \in Terminal /\ Goto(r, "release")
                      /\ UNCHANGED <<attempts, seen, reply>>
    /\ UNCHANGED <<exists, guard, redis, worker>>

ReleasePrevious(r) ==
    /\ pc[r] = "release"
    /\ guard' = Released(seen[r])
    /\ NextRound(r)
    /\ UNCHANGED <<exists, redis, reply, worker>>

\* set_job overwrites whatever an earlier round left under the candidate's key.
CreateCandidate(r) ==
    /\ pc[r] = "create"
    /\ status' = [status EXCEPT ![r] = "queued"]
    /\ started' = [started EXCEPT ![r] = FALSE]
    /\ Goto(r, "claim")
    /\ UNCHANGED <<exists, guard, attempts, seen, reply, worker>>

\* Mutant: the update does not filter on an absent guard.
ClaimGuard_Overwrite(r) ==
    /\ pc[r] = "claim"
    /\ IF exists
         THEN guard' = r /\ Goto(r, "budget")
         ELSE UNCHANGED guard /\ Goto(r, "lost")
    /\ UNCHANGED <<exists, redis, attempts, seen, reply, worker>>

\* The compare-and-set of the guard.
ClaimGuard(r) ==
    /\ pc[r] = "claim"
    /\ IF exists /\ guard = NoJob
         THEN guard' = r /\ Goto(r, "budget")
         ELSE UNCHANGED guard /\ Goto(r, "lost")
    /\ UNCHANGED <<exists, redis, attempts, seen, reply, worker>>

RejectCandidate(r) ==
    /\ pc[r] = "lost"
    /\ UpdateJob(r, "error")
    /\ NextRound(r)
    /\ UNCHANGED <<exists, guard, started, reply, worker>>

CheckBudget(r) ==
    /\ pc[r] = "budget"
    /\ \E allowed \in BOOLEAN : Goto(r, IF allowed THEN "dispatch" ELSE "refuse")
    /\ UNCHANGED <<exists, guard, redis, attempts, seen, reply, worker>>

RefuseForBudget(r) ==
    /\ pc[r] = "refuse"
    /\ UpdateJob(r, "error")
    /\ Goto(r, "withdraw")
    /\ UNCHANGED <<exists, guard, started, attempts, seen, reply, worker>>

WithdrawClaim(r) ==
    /\ pc[r] = "withdraw"
    /\ guard' = Released(r)
    /\ Answer(r, "rejected", NoJob)
    /\ UNCHANGED <<exists, redis, worker>>

\* The exam barrier and the dispatch.  An exception says nothing of whether
\* the message reached the queue.
Dispatch(r) ==
    /\ pc[r] = "dispatch"
    /\ \/ queue' = queue \cup {r} /\ Answer(r, "accepted", r)
       \/ /\ queue' \in {queue, queue \cup {r}}
          /\ Goto(r, "uncertain")
          /\ UNCHANGED <<attempts, seen, reply>>
    /\ UNCHANGED <<exists, guard, redis, stage, calls, executions>>

\* Mutant: an unconfirmed dispatch is answered as a refusal.
ReportUncertain_Refused(r) ==
    /\ pc[r] = "uncertain"
    /\ Answer(r, "rejected", NoJob)
    /\ UNCHANGED <<exists, guard, redis, worker>>

\* dispatch_uncertain is set in the record; its status stays as it is.
ReportUncertain(r) ==
    /\ pc[r] = "uncertain"
    /\ Answer(r, "accepted", r)
    /\ UNCHANGED <<exists, guard, redis, worker>>

\* The API process stops, or an awaited call raises out of the handler.
RequestDies(r) ==
    /\ pc[r] \notin {"new", "answered", "dead"}
    /\ Leave(r, "dead")
    /\ UNCHANGED <<exists, guard, redis, reply, worker>>

-----------------------------------------------------------------------------
\* Workers

\* A worker is handed j and claims the execution.  The queue delivers at least
\* once: while the job runs, its message may stay behind for another worker,
\* whose claim is refused and who returns at once.
Deliver(j) ==
    /\ j \in queue
    /\ \/ /\ ClaimableExecution(j)
          /\ started' = [started EXCEPT ![j] = TRUE]
          /\ stage' = [stage EXCEPT ![j] = "running"]
          /\ executions' = [executions EXCEPT ![j] = @ + 1]
          /\ queue' \in {queue, queue \ {j}}
       \/ /\ ~ClaimableExecution(j)
          /\ queue' = queue \ {j}
          /\ UNCHANGED <<started, stage, executions>>
    /\ UNCHANGED <<exists, guard, status, handler, calls>>

\* The message, or the worker holding it, is lost before the claim.
DropMessage(j) ==
    /\ j \in queue
    /\ queue' = queue \ {j}
    /\ UNCHANGED <<exists, guard, redis, handler, stage, calls, executions>>

Leaves(j, next) ==
    /\ stage[j] = "running"
    /\ stage' = [stage EXCEPT ![j] = next]
    /\ UNCHANGED <<exists, guard, started, handler, queue, executions>>

\* Each step of the job reports its progress; what the steps do to the exam
\* and the answer is the subject of ExamResults.
Progress(j) ==
    /\ stage[j] = "running"
    /\ UpdateJob(j, "processing")
    /\ UNCHANGED <<exists, guard, started, handler, worker>>

\* tracked_faculty_call, for one call or for each call of a gather.
StartCalls(j) ==
    /\ stage[j] = "running"
    /\ calls[j] = 0
    /\ \E n \in 1 .. MaxGathered : calls' = [calls EXCEPT ![j] = n]
    /\ UNCHANGED <<exists, guard, redis, handler, queue, stage, executions>>

\* A call ends and is accounted.  Nobody need be waiting for it any more.
CallReturns(j) ==
    /\ calls[j] > 0
    /\ calls' = [calls EXCEPT ![j] = @ - 1]
    /\ UNCHANGED <<exists, guard, redis, handler, queue, stage, executions>>

\* A call raises, and the gather with it; the other calls go on.  The except
\* clause writes error, and that write may fail.
CallFails(j) ==
    /\ calls[j] > 0
    /\ calls' = [calls EXCEPT ![j] = @ - 1]
    /\ Leaves(j, "closing")
    /\ UpdateJob(j, "error") \/ UNCHANGED status

\* Mutant: the job finishes without waiting for the calls it started.
Finish_Early(j) ==
    /\ Leaves(j, "closing")
    /\ UpdateJob(j, "done") \/ UpdateJob(j, "error") \/ UNCHANGED status
    /\ UNCHANGED calls

\* The job is done or one of its checks refused; the write of the final
\* status may fail too.
Finish(j) ==
    /\ calls[j] = 0
    /\ Leaves(j, "closing")
    /\ UpdateJob(j, "done") \/ UpdateJob(j, "error") \/ UNCHANGED status
    /\ UNCHANGED calls

\* The reply to the final write was lost: the except clause writes error.
ReportFailure(j) ==
    /\ stage[j] = "closing"
    /\ UpdateJob(j, "error")
    /\ UNCHANGED <<exists, guard, started, handler, worker>>

\* The finally block: release, whose failure is only logged.
Close(j) ==
    /\ stage[j] = "closing"
    /\ guard' \in {Released(j), guard}
    /\ stage' = [stage EXCEPT ![j] = "ended"]
    /\ UNCHANGED <<exists, redis, handler, queue, calls, executions>>

\* Mutant: an interruption is recorded under a status nobody knows.
Interrupt_Cancelled(j) ==
    /\ Leaves(j, "interrupted")
    /\ UpdateJob(j, "cancelled") \/ UNCHANGED status
    /\ UNCHANGED calls

\* The job times out or the worker shuts down (CancelledError), or it crashes
\* and writes nothing.  The guard stays, and so do calls in flight.
Interrupt(j) ==
    /\ Leaves(j, "interrupted")
    /\ UpdateJob(j, "interrupted") \/ UNCHANGED status
    /\ UNCHANGED calls

-----------------------------------------------------------------------------
\* Environment

\* The TTL of the record runs out, or Redis evicts it.
Expire(j) ==
    /\ status[j] # "absent"
    /\ status' = [status EXCEPT ![j] = "absent"]
    /\ started' = [started EXCEPT ![j] = FALSE]
    /\ UNCHANGED <<exists, guard, handler, worker>>

\* delete_file removes the answer, whatever runs for it.  The guard keeps the
\* value it had in the deleted document; nobody can read it any more.
DeleteDocument ==
    /\ exists
    /\ exists' = FALSE
    /\ UNCHANGED <<guard, redis, handler, worker>>

-----------------------------------------------------------------------------
HandlerStep(r) ==
    \/ FindActive(r)      \/ GiveUp(r)          \/ LookupActive(r)
    \/ ReleasePrevious(r) \/ CreateCandidate(r) \/ ClaimGuard(r)
    \/ RejectCandidate(r) \/ CheckBudget(r)     \/ RefuseForBudget(r)
    \/ WithdrawClaim(r)   \/ Dispatch(r)        \/ ReportUncertain(r)

WorkerStep(j) ==
    \/ Deliver(j)   \/ Progress(j) \/ StartCalls(j)    \/ CallReturns(j)
    \/ CallFails(j) \/ Finish(j)   \/ ReportFailure(j) \/ Close(j)

Fault(j) == RequestDies(j) \/ DropMessage(j) \/ Interrupt(j) \/ Expire(j)

Next ==
    \/ \E r \in Requests :
          Post(r) \/ HandlerStep(r) \/ WorkerStep(r) \/ Fault(r)
    \/ DeleteDocument

Spec == Init /\ [][Next]_vars

\* The event loop runs every handler until it answers or dies; nothing is
\* assumed of the workers, the queue or Redis.
Fairness == \A r \in Requests : WF_vars(HandlerStep(r))

FairSpec == Spec /\ Fairness

-----------------------------------------------------------------------------
\* Properties

TypeOK ==
    /\ exists \in BOOLEAN
    /\ guard \in Requests \cup {NoJob}
    /\ status \in [Requests -> Status]
    /\ started \in [Requests -> BOOLEAN]
    /\ pc \in [Requests -> Steps]
    /\ attempts \in [Requests -> Nat]
    /\ seen \in [Requests -> Requests \cup {NoJob}]
    /\ reply \in [Requests -> [kind: ReplyKinds, job: Requests \cup {NoJob}]]
    /\ queue \subseteq Requests
    /\ stage \in [Requests -> Stages]
    /\ calls \in [Requests -> 0 .. MaxGathered]
    /\ executions \in [Requests -> Nat]

\* From the moment a worker wins an execution until it has settled, the guard
\* names that job: "an interrupted execution ... does not automatically start
\* another billed job" (docs/phase6_job_operations.md).  An interrupted or
\* crashed job never settles, so its guard is never given away.  A call in
\* flight behind a guard that is free or another job's is what a failed gather
\* left (grading.py:263): one call of it has failed and its job is not done.
LeftBehind(j) ==
    /\ stage[j] \in {"closing", "ended"}
    /\ calls[j] < MaxGathered
    /\ status[j] # "done"

SpendIsFenced ==
    \A j \in Requests :
        /\ stage[j] \in Unsettled => guard = j
        /\ calls[j] > 0 => guard = j \/ LeftBehind(j)

\* One job of a submission at a time can start provider calls; a settled job
\* starts none, but calls of a failed gather may outlive it, next to those of
\* the job after it.  The submission implements the single flight of
\* SingleFlight.
SF == INSTANCE SingleFlight WITH
          Jobs <- Requests,
          inflight <- {j \in Requests : stage[j] \in Unsettled},
          settled <- {j \in Requests : stage[j] \in {"closing", "ended"}},
          late <- {j \in Requests :
                      stage[j] \in {"closing", "ended"} /\ calls[j] > 0}

SingleFlightSpec == SF!Spec

\* However often the queue hands a job out, one worker executes it
\* (claim_job_execution).
ExecutesOnce == \A j \in Requests : executions[j] <= 1

\* A request that lost the race, gave up, was refused for budget or was
\* reconnected leaves nothing behind that could be executed later.
OnlyClaimantsRun ==
    \A r \in Requests :
        reply[r].kind \in {"reused", "rejected"}
            => executions[r] = 0 /\ r \notin queue

\* A request reconnects only to a job of its own user (get_owned_job).
ReconnectsToOwnJob ==
    \A r \in Requests :
        reply[r].kind = "reused" => Owner[reply[r].job] = Owner[r]

\* Once a job has held the guard, a final status it reached is never replaced
\* by another one: late workers and late handlers write into the void.
FinalStatusIsFinal ==
    [][\A j \in Requests :
          status[j] \in Terminal /\ (guard = j \/ executions[j] > 0)
              => status'[j] \in {status[j], "absent"}]_vars

\* A finished job does not block the next submission: a request of its owner
\* that starts claiming while the guard names it displaces the guard, unless
\* the request dies or the record or the document goes.
FinishedJobYields ==
    \A r, j \in Requests :
        (/\ pc[r] = "find" /\ attempts[r] = 0
         /\ exists /\ guard = j /\ status[j] \in Terminal /\ Owner[j] = Owner[r])
            ~> (guard # j \/ pc[r] = "dead" \/ status[j] = "absent" \/ ~exists)
=============================================================================
