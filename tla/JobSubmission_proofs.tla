------------------------ MODULE JobSubmission_proofs ------------------------
(***************************************************************************)
(* Proofs about JobSubmission, for any number of requests and users: the   *)
(* guard fences every unsettled execution and every call in flight that no *)
(* failed gather has left behind, a job is executed at most once,          *)
(* and the submission implements SingleFlight.                             *)
(*                                                                         *)
(* SpendIsFenced is not inductive: a request releases, two awaits later, a *)
(* guard whose job it saw finished.  The invariant below adds what is true *)
(* of a job between those steps: a job that was seen finished can neither  *)
(* be running nor be executed any more (Over), because its record can only *)
(* expire and its own request is past the point that creates a record.     *)
(* Calls are fenced because they are started by running jobs only and a    *)
(* job that finishes without a failed call has none (CallsBelong).         *)
(***************************************************************************)
EXTENDS JobSubmission, TLAPS

\* Requests past the dispatch, past the claim, and at or past the claim.
Sent == {"uncertain", "answered", "dead"}
Past == Sent \cup {"refuse", "withdraw"}
Held == Past \cup {"budget", "dispatch"}

Over(j) ==
    /\ pc[j] \in Past
    /\ ~ClaimableExecution(j)
    /\ stage[j] \notin Unsettled

\* The guard and every guard read by a handler name a job whose claim happened.
GuardWasClaimed ==
    /\ guard # NoJob => pc[guard] \in Held
    /\ \A r \in Requests :
          pc[r] \in {"lookup", "release"}
              => seen[r] \in Requests /\ pc[seen[r]] \in Held

\* A handler holds the guard until it has dispatched its job or withdrawn.
ClaimIsHeld == \A r \in Requests : pc[r] \in {"budget", "dispatch"} => guard = r

\* A final status belongs to a job that is not running and has no live claim.
FinalMeansStopped ==
    \A j \in Requests :
        status[j] \in Terminal =>
            stage[j] \notin Unsettled /\ pc[j] \notin {"claim", "budget", "dispatch"}

ReleasesOnlyFinished == \A r \in Requests : pc[r] = "release" => Over(seen[r])

\* Only dispatched jobs are queued or run; one that may still be executed
\* holds the guard and has not run.
RunsAfterDispatch ==
    \A j \in Requests :
        /\ (j \in queue \/ stage[j] # "none") => pc[j] \in Sent
        /\ (j \in queue /\ ClaimableExecution(j)) => guard = j /\ stage[j] = "none"

CountsExecutions ==
    \A j \in Requests : executions[j] = IF stage[j] = "none" THEN 0 ELSE 1

RepliesOnce ==
    \A r \in Requests :
        /\ reply[r].kind # "none" => pc[r] = "answered"
        /\ reply[r].kind \in {"reused", "rejected"}
               => stage[r] = "none" /\ r \notin queue

\* The guard names every job that may still start provider calls.
StartsAreGuarded == \A j \in Requests : stage[j] \in Unsettled => guard = j

\* Calls are those of a job that runs, was interrupted, or whose gather failed.
CallsBelong ==
    \A j \in Requests :
        /\ stage[j] = "none" => calls[j] = 0
        /\ stage[j] \in {"closing", "ended"} /\ calls[j] > 0 => LeftBehind(j)

Fencing ==
    /\ StartsAreGuarded
    /\ GuardWasClaimed
    /\ ClaimIsHeld
    /\ FinalMeansStopped
    /\ ReleasesOnlyFinished
    /\ RunsAfterDispatch

-----------------------------------------------------------------------------
\* Type correctness is inductive by itself.
LEMMA InitType == Init => TypeOK
  BY NoJobAssumption, AttemptsAssumption, GatheredAssumption
     DEF Init, TypeOK, NoReply, ReplyKinds, Steps, Stages, Status, Terminal

LEMMA AnswerType ==
  ASSUME TypeOK, NEW r \in Requests, NEW kind \in ReplyKinds,
         NEW job \in Requests \cup {NoJob}, Answer(r, kind, job)
  PROVE  /\ pc' \in [Requests -> Steps]
         /\ attempts' \in [Requests -> Nat]
         /\ seen' \in [Requests -> Requests \cup {NoJob}]
         /\ reply' \in [Requests -> [kind: ReplyKinds, job: Requests \cup {NoJob}]]
  <1> DEFINE Replies == [kind: ReplyKinds, job: Requests \cup {NoJob}]
  <1>1. [kind |-> kind, job |-> job] \in Replies
    OBVIOUS
  <1>2. reply' = [reply EXCEPT ![r] = [kind |-> kind, job |-> job]]
    BY DEF Answer
  <1>3. reply \in [Requests -> Replies]
    BY DEF TypeOK
  <1> HIDE DEF Replies
  <1>4. reply' \in [Requests -> Replies]
    BY <1>1, <1>2, <1>3
  <1> QED
    BY <1>4 DEF Answer, Leave, Goto, TypeOK, Steps, Replies

LEMMA HandlerType ==
  ASSUME TypeOK, NEW r \in Requests,
         Post(r) \/ HandlerStep(r) \/ RequestDies(r)
  PROVE  TypeOK'
  <1> USE NoJobAssumption, AttemptsAssumption
      DEF TypeOK, redis, handler, worker, Goto, NextRound, UpdateJob,
          Changeable, Released, ReplyKinds, Steps, Status, Terminal
  <1>1. CASE Post(r)
    BY <1>1 DEF Post
  <1>2. CASE FindActive(r)
    <2>1. CASE ~exists
      BY <1>2, <2>1, AnswerType DEF FindActive
    <2>2. CASE exists /\ guard = NoJob
      BY <1>2, <2>2, AnswerType DEF FindActive
    <2>3. CASE exists /\ guard # NoJob
      <3>1. /\ pc' = [pc EXCEPT ![r] = "lookup"]
            /\ seen' = [seen EXCEPT ![r] = guard]
            /\ UNCHANGED <<exists, redis, worker, guard, attempts, reply>>
        BY <1>2, <2>3 DEF FindActive
      <3> QED
        BY <3>1
    <2> QED
      BY <2>1, <2>2, <2>3
  <1>3. CASE GiveUp(r)
    BY <1>3, AnswerType DEF GiveUp
  <1>4. CASE LookupActive(r)
    BY <1>4, AnswerType DEF LookupActive
  <1>5. CASE ReleasePrevious(r)
    BY <1>5 DEF ReleasePrevious
  <1>6. CASE CreateCandidate(r)
    BY <1>6 DEF CreateCandidate
  <1>7. CASE ClaimGuard(r)
    BY <1>7 DEF ClaimGuard
  <1>8. CASE RejectCandidate(r)
    BY <1>8 DEF RejectCandidate
  <1>9. CASE CheckBudget(r)
    BY <1>9 DEF CheckBudget
  <1>10. CASE RefuseForBudget(r)
    BY <1>10 DEF RefuseForBudget
  <1>11. CASE WithdrawClaim(r)
    BY <1>11, AnswerType DEF WithdrawClaim
  <1>12. CASE Dispatch(r)
    BY <1>12, AnswerType DEF Dispatch
  <1>13. CASE ReportUncertain(r)
    BY <1>13, AnswerType DEF ReportUncertain
  <1>14. CASE RequestDies(r)
    BY <1>14 DEF RequestDies, Leave
  <1> QED
    BY <1>1, <1>2, <1>3, <1>4, <1>5, <1>6, <1>7, <1>8, <1>9, <1>10, <1>11,
       <1>12, <1>13, <1>14 DEF HandlerStep

LEMMA WorkerType ==
  ASSUME TypeOK, NEW j \in Requests,
         WorkerStep(j) \/ DropMessage(j) \/ Interrupt(j) \/ Expire(j)
  PROVE  TypeOK'
  <1> USE NoJobAssumption, AttemptsAssumption, GatheredAssumption
      DEF TypeOK, redis, handler, worker, Leaves, UpdateJob, Changeable,
          Released, Stages, Unsettled, Status, Terminal
  <1>1. CASE Deliver(j)
    <2>1. CASE ClaimableExecution(j)
      <3>1. executions' \in [Requests -> Nat]
        BY <1>1, <2>1 DEF Deliver
      <3>2. /\ started' \in [Requests -> BOOLEAN]
            /\ stage' \in [Requests -> Stages]
            /\ queue' \subseteq Requests
        BY <1>1, <2>1 DEF Deliver
      <3> QED
        BY <1>1, <3>1, <3>2 DEF Deliver
    <2>2. CASE ~ClaimableExecution(j)
      BY <1>1, <2>2 DEF Deliver
    <2> QED
      BY <2>1, <2>2
  <1>2. CASE Progress(j)
    BY <1>2 DEF Progress
  <1>3. CASE Finish(j) \/ ReportFailure(j)
    BY <1>3 DEF Finish, ReportFailure
  <1>4. CASE Close(j)
    BY <1>4 DEF Close
  <1>5. CASE DropMessage(j)
    BY <1>5 DEF DropMessage
  <1>6. CASE Interrupt(j)
    BY <1>6 DEF Interrupt
  <1>7. CASE Expire(j)
    BY <1>7 DEF Expire
  <1>8. CASE StartCalls(j) \/ CallReturns(j)
    BY <1>8 DEF StartCalls, CallReturns
  <1>9. CASE CallFails(j)
    BY <1>9 DEF CallFails
  <1> QED
    BY <1>1, <1>2, <1>3, <1>4, <1>5, <1>6, <1>7, <1>8, <1>9 DEF WorkerStep

LEMMA StepType == TypeOK /\ [Next]_vars => TypeOK'
  <1> SUFFICES ASSUME TypeOK, [Next]_vars PROVE TypeOK'
    OBVIOUS
  <1>1. CASE DeleteDocument
    BY <1>1 DEF DeleteDocument, TypeOK, redis, handler, worker
  <1>2. CASE UNCHANGED vars
    BY <1>2 DEF vars, redis, handler, worker, TypeOK
  <1> QED
    BY <1>1, <1>2, HandlerType, WorkerType DEF Next, Fault

\* Every reachable state is well typed.
THEOREM TypeCorrect == Spec => []TypeOK
  BY InitType, StepType, PTL DEF Spec

-----------------------------------------------------------------------------
\* The fencing invariant, one lemma per kind of process.
LEMMA InitFencing == Init => Fencing
  BY NoJobAssumption
     DEF Init, Fencing, StartsAreGuarded, GuardWasClaimed, ClaimIsHeld,
         FinalMeansStopped, ReleasesOnlyFinished, RunsAfterDispatch, Unsettled,
         Terminal

LEMMA HandlerFencing ==
  ASSUME TypeOK, Fencing, NEW r \in Requests,
         Post(r) \/ HandlerStep(r) \/ RequestDies(r)
  PROVE  Fencing'
  <1> USE NoJobAssumption
      DEF TypeOK, redis, handler, worker, Goto, Answer, Leave, NextRound,
          UpdateJob, Changeable, ClaimableExecution, Released, Terminal,
          Unsettled, Sent, Past, Held, Over, Fencing, StartsAreGuarded,
          GuardWasClaimed, ClaimIsHeld, FinalMeansStopped,
          ReleasesOnlyFinished, RunsAfterDispatch
  <1>1. CASE Post(r)
    BY <1>1 DEF Post
  <1>2. CASE FindActive(r)
    <2>1. CASE ~exists
      <3>1. /\ pc[r] = "find" /\ pc' = [pc EXCEPT ![r] = "answered"]
            /\ seen' = [seen EXCEPT ![r] = NoJob]
            /\ UNCHANGED <<guard, status, started, queue, stage>>
        BY <1>2, <2>1 DEF FindActive
      <3> QED
        BY <3>1
    <2>2. CASE exists /\ guard = NoJob
      <3>1. /\ pc[r] = "find" /\ pc' = [pc EXCEPT ![r] = "create"]
            /\ UNCHANGED <<guard, status, started, seen, queue, stage>>
        BY <1>2, <2>2 DEF FindActive
      <3> QED
        BY <3>1
    <2>3. CASE exists /\ guard # NoJob
      <3>1. /\ pc[r] = "find" /\ pc' = [pc EXCEPT ![r] = "lookup"]
            /\ seen' = [seen EXCEPT ![r] = guard]
            /\ UNCHANGED <<guard, status, started, queue, stage>>
        BY <1>2, <2>3 DEF FindActive
      <3>2. GuardWasClaimed'
        BY <2>3, <3>1
      <3>3. (StartsAreGuarded /\ ClaimIsHeld /\ FinalMeansStopped)'
        BY <3>1
      <3>4. (ReleasesOnlyFinished /\ RunsAfterDispatch)'
        BY <3>1
      <3> QED
        BY <3>2, <3>3, <3>4
    <2> QED
      BY <2>1, <2>2, <2>3
  <1>3. CASE GiveUp(r)
    BY <1>3 DEF GiveUp
  <1>4. CASE LookupActive(r)
    <2>1. /\ pc[r] = "lookup"
          /\ \/ /\ pc' = [pc EXCEPT ![r] = "answered"]
                /\ seen' = [seen EXCEPT ![r] = NoJob]
             \/ /\ status[seen[r]] \in Terminal
                /\ pc' = [pc EXCEPT ![r] = "release"]
                /\ UNCHANGED seen
          /\ UNCHANGED <<guard, status, started, queue, stage>>
      BY <1>4 DEF LookupActive
    <2>2. CASE pc' = [pc EXCEPT ![r] = "answered"] /\ seen' = [seen EXCEPT ![r] = NoJob]
      BY <2>1, <2>2
    <2>3. CASE /\ status[seen[r]] \in Terminal
               /\ pc' = [pc EXCEPT ![r] = "release"] /\ UNCHANGED seen
      <3>1. seen[r] \in Requests /\ pc[seen[r]] \in Held
        BY <2>1
      <3>2. Over(seen[r])
        BY <2>3, <3>1
      <3>3. (StartsAreGuarded /\ GuardWasClaimed /\ ClaimIsHeld)'
        BY <2>1, <2>3
      <3>4. (FinalMeansStopped /\ RunsAfterDispatch)'
        BY <2>1, <2>3
      <3>5. ReleasesOnlyFinished'
        BY <2>1, <2>3, <3>1, <3>2
      <3> QED
        BY <3>3, <3>4, <3>5
    <2> QED
      BY <2>1, <2>2, <2>3
  <1>5. CASE ReleasePrevious(r)
    <2>1. /\ pc[r] = "release" /\ pc' = [pc EXCEPT ![r] = "find"]
          /\ seen' = [seen EXCEPT ![r] = NoJob]
          /\ guard' = guard \/ (guard = seen[r] /\ guard' = NoJob)
          /\ UNCHANGED <<status, started, queue, stage>>
      BY <1>5 DEF ReleasePrevious
    <2>2. Over(seen[r]) /\ seen[r] \in Requests
      BY <2>1
    <2>3. (StartsAreGuarded /\ ClaimIsHeld /\ RunsAfterDispatch)'
      BY <2>1, <2>2
    <2>4. (GuardWasClaimed /\ FinalMeansStopped /\ ReleasesOnlyFinished)'
      BY <2>1, <2>2
    <2> QED
      BY <2>3, <2>4
  <1>6. CASE CreateCandidate(r)
    BY <1>6 DEF CreateCandidate
  <1>7. CASE ClaimGuard(r)
    BY <1>7 DEF ClaimGuard
  <1>8. CASE RejectCandidate(r)
    BY <1>8 DEF RejectCandidate
  <1>9. CASE CheckBudget(r)
    BY <1>9 DEF CheckBudget
  <1>10. CASE RefuseForBudget(r)
    BY <1>10 DEF RefuseForBudget
  <1>11. CASE WithdrawClaim(r)
    BY <1>11 DEF WithdrawClaim
  <1>12. CASE Dispatch(r)
    <2>1. guard = r /\ stage[r] = "none"
      BY <1>12 DEF Dispatch
    <2>2. CASE queue' = queue \cup {r} /\ pc' = [pc EXCEPT ![r] = "answered"]
      BY <1>12, <2>1, <2>2 DEF Dispatch
    <2>3. CASE /\ queue' \in {queue, queue \cup {r}}
               /\ pc' = [pc EXCEPT ![r] = "uncertain"] /\ UNCHANGED seen
      BY <1>12, <2>1, <2>3 DEF Dispatch
    <2> QED
      BY <1>12, <2>2, <2>3 DEF Dispatch
  <1>13. CASE ReportUncertain(r)
    BY <1>13 DEF ReportUncertain
  <1>14. CASE RequestDies(r)
    BY <1>14 DEF RequestDies
  <1> QED
    BY <1>1, <1>2, <1>3, <1>4, <1>5, <1>6, <1>7, <1>8, <1>9, <1>10, <1>11, <1>12, <1>13, <1>14 DEF HandlerStep

LEMMA WorkerFencing ==
  ASSUME TypeOK, Fencing, NEW j \in Requests,
         WorkerStep(j) \/ DropMessage(j) \/ Interrupt(j) \/ Expire(j)
  PROVE  Fencing'
  <1> USE NoJobAssumption
      DEF TypeOK, redis, handler, worker, Leaves, UpdateJob, Changeable,
          ClaimableExecution, Released, Terminal, Unsettled, Sent, Past, Held,
          Over, Fencing, StartsAreGuarded, GuardWasClaimed, ClaimIsHeld,
          FinalMeansStopped, ReleasesOnlyFinished, RunsAfterDispatch
  <1>1. CASE Deliver(j)
    BY <1>1 DEF Deliver
  <1>2. CASE Progress(j)
    BY <1>2 DEF Progress
  <1>3. CASE Finish(j) \/ ReportFailure(j)
    BY <1>3 DEF Finish, ReportFailure
  <1>4. CASE Close(j)
    BY <1>4 DEF Close
  <1>5. CASE DropMessage(j)
    BY <1>5 DEF DropMessage
  <1>6. CASE Interrupt(j)
    BY <1>6 DEF Interrupt
  <1>7. CASE Expire(j)
    BY <1>7 DEF Expire
  <1>8. CASE StartCalls(j) \/ CallReturns(j)
    BY <1>8 DEF StartCalls, CallReturns
  <1>9. CASE CallFails(j)
    BY <1>9 DEF CallFails
  <1> QED
    BY <1>1, <1>2, <1>3, <1>4, <1>5, <1>6, <1>7, <1>8, <1>9 DEF WorkerStep

LEMMA StepFencing == TypeOK /\ Fencing /\ [Next]_vars => Fencing'
  <1> SUFFICES ASSUME TypeOK, Fencing, [Next]_vars PROVE Fencing'
    OBVIOUS
  <1>1. CASE DeleteDocument \/ UNCHANGED vars
    BY <1>1 DEF DeleteDocument, vars, redis, handler, worker, Changeable,
       ClaimableExecution, Over, Fencing, StartsAreGuarded, GuardWasClaimed,
       ClaimIsHeld, FinalMeansStopped, ReleasesOnlyFinished, RunsAfterDispatch
  <1> QED
    BY <1>1, HandlerFencing, WorkerFencing DEF Next, Fault

-----------------------------------------------------------------------------
\* The calls in flight: each step that ends an execution but CallFails needs
\* that there are none, and no later step writes "done".
LEMMA StepCalls == TypeOK /\ Fencing /\ CallsBelong /\ [Next]_vars => CallsBelong'
  <1> SUFFICES ASSUME TypeOK, Fencing, CallsBelong, [Next]_vars PROVE CallsBelong'
    OBVIOUS
  <1> USE GatheredAssumption
      DEF TypeOK, CallsBelong, LeftBehind, worker, redis, UpdateJob, Changeable
  <1>1. ASSUME NEW r \in Requests, Post(r) \/ HandlerStep(r) \/ RequestDies(r)
        PROVE  /\ UNCHANGED <<stage, calls>>
               /\ \A j \in Requests : status'[j] = "done" => status[j] = "done"
    BY <1>1 DEF HandlerStep, Post, FindActive, GiveUp, LookupActive,
       ReleasePrevious, CreateCandidate, ClaimGuard, RejectCandidate,
       CheckBudget, RefuseForBudget, WithdrawClaim, Dispatch, ReportUncertain,
       RequestDies
  <1>2. ASSUME NEW j \in Requests,
               WorkerStep(j) \/ DropMessage(j) \/ Interrupt(j) \/ Expire(j)
        PROVE  CallsBelong'
    <2>1. CASE Deliver(j)
      BY <1>2, <2>1 DEF Deliver
    <2>2. CASE Progress(j) \/ ReportFailure(j) \/ DropMessage(j) \/ Expire(j)
      BY <1>2, <2>2 DEF Progress, ReportFailure, DropMessage, Expire
    <2>3. CASE StartCalls(j)
      BY <1>2, <2>3 DEF StartCalls
    <2>4. CASE CallReturns(j)
      BY <1>2, <2>4 DEF CallReturns
    <2>5. CASE CallFails(j)
      <3>1. status[j] # "done"
        BY <2>5 DEF CallFails, Leaves, Fencing, FinalMeansStopped, Unsettled, Terminal
      <3>2. /\ stage' = [stage EXCEPT ![j] = "closing"]
            /\ calls' = [calls EXCEPT ![j] = calls[j] - 1]
            /\ status' = [status EXCEPT ![j] = "error"] \/ status' = status
        BY <2>5 DEF CallFails, Leaves
      <3>3. /\ stage'[j] = "closing" /\ calls'[j] < MaxGathered
            /\ status'[j] # "done"
        BY <1>2, <3>1, <3>2
      <3>4. \A k \in Requests \ {j} :
               UNCHANGED <<stage[k], calls[k], status[k]>>
        BY <1>2, <3>2
      <3> HIDE DEF UpdateJob, Changeable
      <3> QED
        BY <1>2, <3>3, <3>4
    <2>6. CASE Finish(j)
      BY <1>2, <2>6 DEF Finish, Leaves
    <2>7. CASE Interrupt(j)
      BY <1>2, <2>7 DEF Interrupt, Leaves
    <2>8. CASE Close(j)
      BY <1>2, <2>8 DEF Close
    <2> QED
      BY <1>2, <2>1, <2>2, <2>3, <2>4, <2>5, <2>6, <2>7, <2>8 DEF WorkerStep
  <1>3. CASE DeleteDocument \/ UNCHANGED vars
    BY <1>3 DEF DeleteDocument, vars
  <1> QED
    BY <1>1, <1>2, <1>3 DEF Next, Fault

LEMMA FencedCalls == TypeOK /\ Fencing /\ CallsBelong => SpendIsFenced
  <1> SUFFICES ASSUME TypeOK, Fencing, CallsBelong, NEW j \in Requests
               PROVE  /\ stage[j] \in Unsettled => guard = j
                      /\ calls[j] > 0 => guard = j \/ LeftBehind(j)
    BY DEF SpendIsFenced
  <1>1. stage[j] \in Unsettled => guard = j
    BY DEF Fencing, StartsAreGuarded
  <1>2. stage[j] = "none" => ~(calls[j] > 0)
    BY DEF CallsBelong
  <1> QED
    BY <1>1, <1>2 DEF TypeOK, Stages, Unsettled, CallsBelong

\* The guard names every job that may start provider calls, and every job with
\* calls in flight but those a failed gather left behind.
THEOREM SpendFenced == Spec => []SpendIsFenced
  <1>1. Init => TypeOK /\ Fencing /\ CallsBelong
    BY InitType, InitFencing DEF Init, CallsBelong
  <1>2. TypeOK /\ Fencing /\ CallsBelong /\ [Next]_vars
            => (TypeOK /\ Fencing /\ CallsBelong)'
    BY StepType, StepFencing, StepCalls
  <1> QED
    BY <1>1, <1>2, FencedCalls, PTL DEF Spec

\* Hence, when two jobs of one submission have calls in flight together, one of
\* the two has ended with a failed call and is not done.
THEOREM NoSecondSpend ==
  Spec => [](\A j, k \in Requests :
               calls[j] > 0 /\ calls[k] > 0
                   => j = k \/ LeftBehind(j) \/ LeftBehind(k))
  <1>1. SpendIsFenced => \A j, k \in Requests :
            calls[j] > 0 /\ calls[k] > 0
                => j = k \/ LeftBehind(j) \/ LeftBehind(k)
    BY DEF SpendIsFenced
  <1> QED
    BY <1>1, SpendFenced, PTL

-----------------------------------------------------------------------------
\* Executions and replies.
LEMMA StepExecutions ==
  TypeOK /\ Fencing /\ CountsExecutions /\ [Next]_vars => CountsExecutions'
  <1> SUFFICES ASSUME TypeOK, Fencing, CountsExecutions, [Next]_vars
               PROVE  CountsExecutions'
    OBVIOUS
  <1> USE DEF CountsExecutions, worker
  <1>1. ASSUME NEW r \in Requests, Post(r) \/ HandlerStep(r) \/ RequestDies(r)
        PROVE  UNCHANGED <<stage, executions>>
    BY <1>1 DEF HandlerStep, Post, FindActive, GiveUp, LookupActive,
       ReleasePrevious, CreateCandidate, ClaimGuard, RejectCandidate,
       CheckBudget, RefuseForBudget, WithdrawClaim, Dispatch, ReportUncertain,
       RequestDies
  <1>2. ASSUME NEW j \in Requests,
               WorkerStep(j) \/ DropMessage(j) \/ Interrupt(j) \/ Expire(j)
        PROVE  CountsExecutions'
    <2>1. CASE Deliver(j)
      <3>1. CASE ClaimableExecution(j)
        BY <1>2, <2>1, <3>1 DEF Deliver, TypeOK, Fencing, RunsAfterDispatch
      <3>2. CASE ~ClaimableExecution(j)
        BY <2>1, <3>2 DEF Deliver
      <3> QED
        BY <3>1, <3>2
    <2>2. CASE Finish(j) \/ CallFails(j) \/ Interrupt(j)
      BY <2>2 DEF Finish, CallFails, Interrupt, Leaves, TypeOK
    <2>3. CASE Close(j)
      BY <2>3 DEF Close, TypeOK
    <2>4. CASE \/ Progress(j) \/ StartCalls(j) \/ CallReturns(j)
               \/ ReportFailure(j) \/ DropMessage(j) \/ Expire(j)
      BY <2>4 DEF Progress, StartCalls, CallReturns, ReportFailure, DropMessage, Expire
    <2> QED
      BY <1>2, <2>1, <2>2, <2>3, <2>4 DEF WorkerStep
  <1>3. CASE DeleteDocument \/ UNCHANGED vars
    BY <1>3 DEF DeleteDocument, vars
  <1> QED
    BY <1>1, <1>2, <1>3 DEF Next, Fault

\* One worker at most executes a job, however often it is delivered.
THEOREM ExecutedOnce == Spec => []ExecutesOnce
  <1>1. Init => TypeOK /\ Fencing /\ CountsExecutions
    BY InitType, InitFencing DEF Init, CountsExecutions
  <1>2. TypeOK /\ Fencing /\ CountsExecutions /\ [Next]_vars
            => (TypeOK /\ Fencing /\ CountsExecutions)'
    BY StepType, StepFencing, StepExecutions
  <1>3. CountsExecutions => ExecutesOnce
    <2> SUFFICES ASSUME CountsExecutions, NEW j \in Requests
                 PROVE  executions[j] <= 1
      BY DEF ExecutesOnce
    <2>1. executions[j] = 0 \/ executions[j] = 1
      BY DEF CountsExecutions
    <2> QED
      BY <2>1
  <1> QED
    BY <1>1, <1>2, <1>3, PTL DEF Spec

LEMMA StepReplies ==
  TypeOK /\ Fencing /\ RepliesOnce /\ [Next]_vars => RepliesOnce'
  <1> SUFFICES ASSUME TypeOK, Fencing, RepliesOnce, [Next]_vars
               PROVE  RepliesOnce'
    OBVIOUS
  <1> USE DEF TypeOK, RepliesOnce, handler, worker, Goto, Leave, Answer, NextRound
  <1>1. ASSUME NEW r \in Requests, Post(r) \/ HandlerStep(r) \/ RequestDies(r)
        PROVE  RepliesOnce'
    <2>1. CASE Dispatch(r)
      BY <1>1, <2>1 DEF Dispatch
    <2>2. CASE FindActive(r) \/ GiveUp(r) \/ LookupActive(r) \/ WithdrawClaim(r)
      <3>1. r \notin queue /\ stage[r] = "none" /\ UNCHANGED <<queue, stage>>
        BY <1>1, <2>2 DEF FindActive, GiveUp, LookupActive, WithdrawClaim,
           Fencing, RunsAfterDispatch, Sent
      <3>2. /\ \A q \in Requests \ {r} : reply'[q] = reply[q] /\ pc'[q] = pc[q]
            /\ reply'[r] = reply[r] \/ pc'[r] = "answered"
            /\ pc[r] # "answered"
        BY <1>1, <2>2 DEF FindActive, GiveUp, LookupActive, WithdrawClaim
      <3> QED
        BY <1>1, <3>1, <3>2
    <2>3. CASE ReportUncertain(r)
      BY <1>1, <2>3 DEF ReportUncertain
    <2>4. CASE \/ Post(r) \/ ReleasePrevious(r) \/ CreateCandidate(r)
               \/ ClaimGuard(r) \/ RejectCandidate(r) \/ CheckBudget(r)
               \/ RefuseForBudget(r) \/ RequestDies(r)
      <3>1. /\ UNCHANGED <<reply, queue, stage>>
            /\ pc[r] # "answered"
            /\ \A q \in Requests \ {r} : pc'[q] = pc[q]
        BY <1>1, <2>4 DEF Post, ReleasePrevious, CreateCandidate, ClaimGuard,
           RejectCandidate, CheckBudget, RefuseForBudget, RequestDies
      <3> QED
        BY <1>1, <3>1
    <2> QED
      BY <1>1, <2>1, <2>2, <2>3, <2>4 DEF HandlerStep
  <1>2. ASSUME NEW j \in Requests,
               WorkerStep(j) \/ DropMessage(j) \/ Interrupt(j) \/ Expire(j)
        PROVE  RepliesOnce'
    <2>1. /\ UNCHANGED <<pc, reply>>
          /\ queue' \subseteq queue
          /\ \A k \in Requests :
                stage[k] = "none" /\ k \notin queue => stage'[k] = "none"
      BY <1>2 DEF WorkerStep, Deliver, Progress, StartCalls, CallReturns, CallFails, Finish, ReportFailure, Close,
         DropMessage, Interrupt, Expire, Leaves
    <2> QED
      BY <2>1
  <1>3. CASE DeleteDocument \/ UNCHANGED vars
    BY <1>3 DEF DeleteDocument, vars
  <1> QED
    BY <1>1, <1>2, <1>3 DEF Next, Fault

\* A request that was told no, or to follow another job, never runs its own.
THEOREM RejectedNeverRun == Spec => []OnlyClaimantsRun
  <1>1. Init => TypeOK /\ Fencing /\ CountsExecutions /\ RepliesOnce
    BY InitType, InitFencing DEF Init, CountsExecutions, RepliesOnce, NoReply
  <1>2. TypeOK /\ Fencing /\ CountsExecutions /\ RepliesOnce /\ [Next]_vars
            => (TypeOK /\ Fencing /\ CountsExecutions /\ RepliesOnce)'
    BY StepType, StepFencing, StepExecutions, StepReplies
  <1>3. CountsExecutions /\ RepliesOnce => OnlyClaimantsRun
    BY DEF CountsExecutions, RepliesOnce, OnlyClaimantsRun
  <1> QED
    BY <1>1, <1>2, <1>3, PTL DEF Spec

-----------------------------------------------------------------------------
\* Whose job a request is sent to: only LookupActive answers "reused".
LEMMA StepReconnects ==
  TypeOK /\ ReconnectsToOwnJob /\ [Next]_vars => ReconnectsToOwnJob'
  <1> SUFFICES ASSUME TypeOK, ReconnectsToOwnJob, [Next]_vars
               PROVE  ReconnectsToOwnJob'
    OBVIOUS
  <1> USE DEF TypeOK, ReconnectsToOwnJob, handler, worker, Leave, Answer, NextRound
  <1>1. ASSUME NEW r \in Requests, Post(r) \/ HandlerStep(r) \/ RequestDies(r)
        PROVE  ReconnectsToOwnJob'
    <2>1. CASE LookupActive(r)
      <3>1. /\ \A q \in Requests \ {r} : reply'[q] = reply[q]
            /\ \/ reply'[r] = reply[r]
               \/ reply'[r].kind = "rejected"
               \/ /\ reply'[r].job = seen[r]
                  /\ Owner[seen[r]] = Owner[r]
        BY <1>1, <2>1 DEF LookupActive
      <3> QED
        BY <1>1, <3>1
    <2>2. CASE \/ FindActive(r) \/ GiveUp(r) \/ WithdrawClaim(r)
               \/ Dispatch(r) \/ ReportUncertain(r)
      <3>1. /\ \A q \in Requests \ {r} : reply'[q] = reply[q]
            /\ \/ reply'[r] = reply[r]
               \/ reply'[r].kind \in {"accepted", "rejected"}
        BY <1>1, <2>2 DEF FindActive, GiveUp, WithdrawClaim, Dispatch, ReportUncertain
      <3> QED
        BY <1>1, <3>1
    <2>3. CASE \/ Post(r) \/ ReleasePrevious(r) \/ CreateCandidate(r)
               \/ ClaimGuard(r) \/ RejectCandidate(r) \/ CheckBudget(r)
               \/ RefuseForBudget(r) \/ RequestDies(r)
      BY <2>3 DEF Post, ReleasePrevious, CreateCandidate, ClaimGuard,
         RejectCandidate, CheckBudget, RefuseForBudget, RequestDies
    <2> QED
      BY <1>1, <2>1, <2>2, <2>3 DEF HandlerStep
  <1>2. ASSUME NEW j \in Requests,
               WorkerStep(j) \/ DropMessage(j) \/ Interrupt(j) \/ Expire(j)
        PROVE  ReconnectsToOwnJob'
    BY <1>2 DEF WorkerStep, Deliver, Progress, StartCalls, CallReturns, CallFails, Finish, ReportFailure, Close,
       DropMessage, Interrupt, Expire, Leaves
  <1>3. CASE DeleteDocument \/ UNCHANGED vars
    BY <1>3 DEF DeleteDocument, vars
  <1> QED
    BY <1>1, <1>2, <1>3 DEF Next, Fault

\* No request is ever sent to the job of another user.
THEOREM ReconnectsToOwn == Spec => []ReconnectsToOwnJob
  <1>1. Init => TypeOK /\ ReconnectsToOwnJob
    BY InitType DEF Init, ReconnectsToOwnJob, NoReply
  <1>2. TypeOK /\ ReconnectsToOwnJob /\ [Next]_vars
            => (TypeOK /\ ReconnectsToOwnJob)'
    BY StepType, StepReconnects
  <1> QED
    BY <1>1, <1>2, PTL DEF Spec

-----------------------------------------------------------------------------
\* Final statuses: UpdateJob leaves them alone, and CreateCandidate, which
\* overwrites, belongs to a request that neither holds the guard nor has run.
Finality ==
    \A j \in Requests :
        status[j] \in Terminal /\ (guard = j \/ executions[j] > 0)
            => status'[j] \in {status[j], "absent"}

LEMMA StepFinality ==
  TypeOK /\ Fencing /\ CountsExecutions /\ [Next]_vars => Finality
  <1> SUFFICES ASSUME TypeOK, Fencing, CountsExecutions, [Next]_vars
               PROVE  Finality
    OBVIOUS
  <1> USE DEF Finality, TypeOK, redis, UpdateJob, Changeable
  <1>1. ASSUME NEW r \in Requests, Post(r) \/ HandlerStep(r) \/ RequestDies(r)
        PROVE  Finality
    <2>1. CASE CreateCandidate(r)
      <3>1. pc[r] = "create" /\ guard # r /\ stage[r] = "none"
        BY <2>1, NoJobAssumption DEF CreateCandidate, Fencing, GuardWasClaimed,
           RunsAfterDispatch, Held, Past, Sent
      <3>2. executions[r] = 0
        BY <3>1 DEF CountsExecutions
      <3>3. \A j \in Requests \ {r} : status'[j] = status[j]
        BY <2>1 DEF CreateCandidate
      <3> QED
        BY <3>1, <3>2, <3>3
    <2>2. CASE RejectCandidate(r) \/ RefuseForBudget(r)
      BY <2>2 DEF RejectCandidate, RefuseForBudget
    <2>3. CASE \/ Post(r) \/ FindActive(r) \/ GiveUp(r) \/ LookupActive(r)
               \/ ReleasePrevious(r) \/ ClaimGuard(r) \/ CheckBudget(r)
               \/ WithdrawClaim(r) \/ Dispatch(r) \/ ReportUncertain(r)
               \/ RequestDies(r)
      BY <2>3 DEF Post, FindActive, GiveUp, LookupActive, ReleasePrevious,
         ClaimGuard, CheckBudget, WithdrawClaim, Dispatch, ReportUncertain,
         RequestDies
    <2> QED
      BY <1>1, <2>1, <2>2, <2>3 DEF HandlerStep
  <1>2. ASSUME NEW j \in Requests,
               WorkerStep(j) \/ DropMessage(j) \/ Interrupt(j) \/ Expire(j)
        PROVE  Finality
    BY <1>2 DEF WorkerStep, Deliver, Progress, StartCalls, CallReturns, CallFails, Finish, ReportFailure, Close,
       DropMessage, Interrupt, Expire
  <1>3. CASE DeleteDocument \/ UNCHANGED vars
    BY <1>3 DEF DeleteDocument, vars
  <1> QED
    BY <1>1, <1>2, <1>3 DEF Next, Fault

\* No late worker or handler replaces the final status of a job.
THEOREM FinalStatusKept == Spec => FinalStatusIsFinal
  <1>1. Init => TypeOK /\ Fencing /\ CountsExecutions
    BY InitType, InitFencing DEF Init, CountsExecutions
  <1>2. TypeOK /\ Fencing /\ CountsExecutions /\ [Next]_vars
            => (TypeOK /\ Fencing /\ CountsExecutions)'
    BY StepType, StepFencing, StepExecutions
  <1>3. TypeOK /\ Fencing /\ CountsExecutions /\ [Next]_vars => [Finality]_vars
    BY StepFinality
  <1> QED
    BY <1>1, <1>2, <1>3, PTL DEF Spec, FinalStatusIsFinal, Finality

-----------------------------------------------------------------------------
\* Refinement: only Deliver starts an execution, only Finish and CallFails
\* settle it, and the return of its last call ends a settled job's lateness;
\* every other step leaves the three sets alone.
InFlight == {j \in Requests : stage[j] \in Unsettled}
Settled == {j \in Requests : stage[j] \in {"closing", "ended"}}
Late == {j \in Requests : stage[j] \in {"closing", "ended"} /\ calls[j] > 0}

LEMMA StepSingleFlight ==
  TypeOK /\ Fencing /\ [Next]_vars => [SF!Next]_(SF!sfvars)
  <1> SUFFICES ASSUME TypeOK, Fencing, [Next]_vars
               PROVE  [SF!Next]_(SF!sfvars)
    OBVIOUS
  <1> USE DEF SF!sfvars, worker
  <1>1. ASSUME UNCHANGED <<stage, calls>> PROVE [SF!Next]_(SF!sfvars)
    BY <1>1
  <1>2. ASSUME NEW r \in Requests, Post(r) \/ HandlerStep(r) \/ RequestDies(r)
        PROVE  UNCHANGED <<stage, calls>>
    BY <1>2 DEF HandlerStep, Post, FindActive, GiveUp, LookupActive,
       ReleasePrevious, CreateCandidate, ClaimGuard, RejectCandidate,
       CheckBudget, RefuseForBudget, WithdrawClaim, Dispatch, ReportUncertain,
       RequestDies
  <1>3. ASSUME NEW j \in Requests,
               WorkerStep(j) \/ DropMessage(j) \/ Interrupt(j) \/ Expire(j)
        PROVE  [SF!Next]_(SF!sfvars)
    <2>1. CASE Deliver(j)
      <3>1. CASE ClaimableExecution(j)
        <4>1. guard = j /\ stage[j] = "none"
          BY <1>3, <2>1, <3>1 DEF Deliver, Fencing, RunsAfterDispatch
        <4>2. InFlight = {} /\ j \notin Settled
          BY <4>1 DEF InFlight, Settled, Fencing, StartsAreGuarded, Unsettled
        <4>3. stage' = [stage EXCEPT ![j] = "running"]
          BY <2>1, <3>1 DEF Deliver
        <4>4. InFlight' = {j} /\ Settled' = Settled /\ Late' = Late
          BY <2>1, <3>1, <4>1, <4>2, <4>3
             DEF Deliver, TypeOK, InFlight, Settled, Late, Unsettled
        <4>5. SF!Start(j)
          BY <4>2, <4>4 DEF SF!Start, InFlight, Settled, Late
        <4> QED
          BY <1>3, <4>5 DEF SF!Next
      <3>2. CASE ~ClaimableExecution(j)
        BY <1>1, <2>1, <3>2 DEF Deliver
      <3> QED
        BY <3>1, <3>2
    <2>2. CASE Finish(j) \/ CallFails(j)
      <3>1. /\ stage[j] = "running" /\ stage' = [stage EXCEPT ![j] = "closing"]
            /\ \A k \in Requests \ {j} : calls'[k] = calls[k]
        BY <2>2 DEF Finish, CallFails, Leaves, TypeOK
      <3>2. /\ j \in InFlight
            /\ InFlight' = InFlight \ {j}
            /\ Settled' = Settled \cup {j}
            /\ Late' \in {Late, Late \cup {j}}
        <4>1. CASE calls'[j] > 0
          BY <1>3, <3>1, <4>1 DEF TypeOK, InFlight, Settled, Late, Unsettled
        <4>2. CASE ~(calls'[j] > 0)
          BY <1>3, <3>1, <4>2 DEF TypeOK, InFlight, Settled, Late, Unsettled
        <4> QED
          BY <4>1, <4>2
      <3>3. SF!Settle(j)
        BY <3>2 DEF SF!Settle, InFlight, Settled, Late
      <3> QED
        BY <1>3, <3>3 DEF SF!Next
    <2>3. CASE Interrupt(j)
      <3>1. /\ stage[j] = "running" /\ stage' = [stage EXCEPT ![j] = "interrupted"]
            /\ UNCHANGED calls
        BY <2>3 DEF Interrupt, Leaves
      <3>2. InFlight' = InFlight /\ Settled' = Settled /\ Late' = Late
        BY <1>3, <3>1 DEF TypeOK, InFlight, Settled, Late, Unsettled
      <3> QED
        BY <3>2 DEF InFlight, Settled, Late
    <2>4. CASE Close(j)
      <3>1. /\ stage[j] = "closing" /\ stage' = [stage EXCEPT ![j] = "ended"]
            /\ UNCHANGED calls
        BY <2>4 DEF Close
      <3>2. InFlight' = InFlight /\ Settled' = Settled /\ Late' = Late
        BY <1>3, <3>1 DEF TypeOK, InFlight, Settled, Late, Unsettled
      <3> QED
        BY <3>2 DEF InFlight, Settled, Late
    <2>5. CASE Progress(j) \/ ReportFailure(j) \/ DropMessage(j) \/ Expire(j)
      BY <1>1, <2>5 DEF Progress, ReportFailure, DropMessage, Expire
    <2>6. CASE StartCalls(j)
      <3>1. Late' = Late
        BY <1>3, <2>6 DEF StartCalls, TypeOK, Late
      <3> QED
        BY <2>6, <3>1 DEF StartCalls, Late
    <2>7. CASE CallReturns(j)
      <3>1. /\ calls[j] > 0 /\ calls' = [calls EXCEPT ![j] = calls[j] - 1]
            /\ UNCHANGED stage
        BY <2>7 DEF CallReturns
      <3>2. CASE j \in Late /\ calls[j] = 1
        <4>1. j \in Late /\ Late' = Late \ {j}
          BY <1>3, <3>1, <3>2 DEF TypeOK, Late
        <4>2. SF!LastCallEnds(j)
          BY <3>1, <4>1 DEF SF!LastCallEnds, Late
        <4> QED
          BY <1>3, <4>2 DEF SF!Next
      <3>3. CASE ~(j \in Late /\ calls[j] = 1)
        <4>1. Late' = Late
          BY <1>3, <3>1, <3>3 DEF TypeOK, Late
        <4> QED
          BY <3>1, <4>1 DEF Late
      <3> QED
        BY <3>2, <3>3
    <2> QED
      BY <1>3, <2>1, <2>2, <2>3, <2>4, <2>5, <2>6, <2>7 DEF WorkerStep
  <1>4. CASE DeleteDocument \/ UNCHANGED vars
    BY <1>1, <1>4 DEF DeleteDocument, vars
  <1> QED
    BY <1>1, <1>2, <1>3, <1>4 DEF Next, Fault

\* The submission implements the single flight.
THEOREM ImplementsSingleFlight == Spec => SingleFlightSpec
  <1>1. Init => TypeOK /\ Fencing /\ SF!Init
    <2>1. Init => SF!Init
      BY DEF Init, SF!Init, Unsettled
    <2> QED
      BY <2>1, InitType, InitFencing
  <1>2. TypeOK /\ Fencing /\ [Next]_vars => (TypeOK /\ Fencing)'
    BY StepType, StepFencing
  <1> QED
    BY <1>1, <1>2, StepSingleFlight, PTL DEF Spec, SingleFlightSpec, SF!Spec
=============================================================================
