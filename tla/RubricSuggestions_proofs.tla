---------------------- MODULE RubricSuggestions_proofs ----------------------
(***************************************************************************)
(* Theorems about RubricSuggestions, for any number of requests, batches   *)
(* and changes of the paper.                                               *)
(***************************************************************************)
EXTENDS RubricSuggestions, TLAPS

-----------------------------------------------------------------------------
\* Type correctness

LEMMA RecordFields ==
  ASSUME NEW d \in Record
  PROVE  /\ \A v \in {"none", "queued", "processing", "failed", "completed"} :
              [d EXCEPT !.status = v] \in Record
         /\ \A v \in Responses : [d EXCEPT !.raw = v] \in Record
         /\ \A b \in Batches, v \in Responses : [d EXCEPT !.batches[b] = v] \in Record
BY DEF Record

Places == {"none", "start", "load", "check", "batch", "buy", "calling", "store",
           "validate", "combine", "finish", "broken", "gone"}

LEMMA WorkerFields ==
  ASSUME NEW w \in Worker
  PROVE  /\ \A v \in Places : [w EXCEPT !.at = v] \in Worker
         /\ \A v \in Responses : [w EXCEPT !.got = v] \in Worker
         /\ \A v \in BOOLEAN : [w EXCEPT !.good = v] \in Worker
         /\ \A v \in 1 .. NumBatches + 1 : [w EXCEPT !.batch = v] \in Worker
         /\ \A v \in SUBSET Batches : [w EXCEPT !.bought = v] \in Worker
BY DEF Worker, Places

\* Where a worker is, and what it holds, has its place in the paper: the part of
\* the invariant that makes TypeOK inductive.
AtBatch == {"batch", "buy", "calling", "store", "validate"}

WorkerInv ==
  \A r \in Requests :
    /\ worker[r].at \in AtBatch => worker[r].batch \in Batches
    /\ worker[r].at \in {"store", "validate"} => worker[r].got # "none"
    /\ worker[r].at \in {"none", "start", "load"} => worker[r].batch = 1
    /\ worker[r].at \in {"none", "start", "load"} => worker[r].bought = {}

TypeInv == TypeOK /\ WorkerInv

LEMMA Constants ==
  ASSUME ConstantsOK
  PROVE  /\ NumBatches \in Nat \ {0} /\ MaxChanges \in Nat /\ None \notin Requests
         /\ 1 \in Batches /\ 1 \in 1 .. NumBatches + 1
BY DEF ConstantsOK, Batches

LEMMA InitType ==
  ASSUME ConstantsOK, Init
  PROVE  TypeInv
<1>1. Empty \in [Batches -> Responses]
  BY DEF Empty, Responses
<1>2. record \in Record
  BY <1>1 DEF Init, Record, Responses
<1>3. request \in [Requests -> Request]
  BY DEF Init, Request
<1>4. worker \in [Requests -> Worker]
  BY Constants DEF Init, Worker, Responses
<1>5. WorkerInv
  BY DEF Init, WorkerInv, AtBatch
<1>6. changes \in 0 .. MaxChanges
  BY Constants DEF Init
<1>7. matches \in BOOLEAN /\ queue \subseteq Requests
  BY DEF Init
<1> QED
  BY <1>2, <1>3, <1>4, <1>5, <1>6, <1>7 DEF TypeInv, TypeOK

\* A worker that moves keeps the others where they are.
LEMMA StepWorker ==
  ASSUME ConstantsOK, TypeInv, NEW r \in Requests, NEW w \in Worker,
         worker' = [worker EXCEPT ![r] = w],
         w.at \in AtBatch => w.batch \in Batches,
         w.at \in {"store", "validate"} => w.got # "none",
         w.at \in {"none", "start", "load"} => w.batch = 1 /\ w.bought = {}
  PROVE  worker' \in [Requests -> Worker] /\ WorkerInv'
<1>1. worker \in [Requests -> Worker] /\ WorkerInv
  BY DEF TypeInv, TypeOK
<1>2. worker'[r] = w /\ \A x \in Requests \ {r} : worker'[x] = worker[x]
  BY <1>1
<1> QED
  BY <1>1, <1>2 DEF WorkerInv

\* A step of a worker that only moves it.
LEMMA StepPlace ==
  ASSUME ConstantsOK, TypeInv, NEW r \in Requests, NEW place \in Places, Step(r, place),
         place \in AtBatch => worker[r].batch \in Batches,
         place \in {"store", "validate"} => worker[r].got # "none",
         place \in {"none", "start", "load"} => worker[r].batch = 1 /\ worker[r].bought = {}
  PROVE  worker' \in [Requests -> Worker] /\ WorkerInv'
<1> DEFINE w == [worker[r] EXCEPT !.at = place]
<1>1. worker[r] \in Worker /\ worker \in [Requests -> Worker]
  BY DEF TypeInv, TypeOK
<1>2. w \in Worker
  BY <1>1, WorkerFields
<1>3. w.at = place /\ w.batch = worker[r].batch /\ w.got = worker[r].got
      /\ w.bought = worker[r].bought
  BY <1>1 DEF Worker
<1>4. worker' = [worker EXCEPT ![r] = w]
  BY DEF Step
<1> HIDE DEF w
<1> QED
  BY <1>2, <1>3, <1>4, StepWorker

\* The requests keep their type, and the rest of the state with them.
LEMMA TypeRequests ==
  ASSUME ConstantsOK, TypeInv, NEW r \in Requests,
         \/ \E retry, regenerate \in BOOLEAN : Ask(r, retry, regenerate)
         \/ Claim(r) \/ Dispatch(r) \/ RequestDies(r)
  PROVE  TypeInv'
<1> USE DEF TypeInv, TypeOK
<1>0. UNCHANGED <<matches, changes, worker>>
  BY DEF Ask, Claim, Dispatch, RequestDies
<1>1. record \in Record /\ request \in [Requests -> Request] /\ queue \subseteq Requests
  OBVIOUS
<1>2. ASSUME NEW retry \in BOOLEAN, NEW regenerate \in BOOLEAN, Ask(r, retry, regenerate)
      PROVE  request' \in [Requests -> Request] /\ UNCHANGED <<record, queue>>
  <2> DEFINE free == record.status = "failed" /\ AllSaved /\ ~regenerate
             new == [at |-> "claim", old |-> record.attempt, regenerate |-> regenerate, free |-> free]
             over == [request[r] EXCEPT !.at = "done"]
  <2>1. record.attempt \in Requests \cup {None} /\ free \in BOOLEAN
    BY <1>1 DEF Record
  <2>2. request' = [request EXCEPT ![r] = new] \/ request' = [request EXCEPT ![r] = over]
    BY <1>2 DEF Ask
  <2> HIDE DEF free
  <2>3. new \in Request
    BY <2>1 DEF Request
  <2>4. over \in Request
    BY <1>1 DEF Request
  <2> HIDE DEF new, over
  <2>5. request' \in [Requests -> Request]
    BY <1>1, <2>2, <2>3, <2>4
  <2> QED
    BY <1>2, <2>5 DEF Ask
<1>3. ASSUME Claim(r)
      PROVE  request' \in [Requests -> Request] /\ record' \in Record /\ UNCHANGED queue
  <2>1. Claimed(r) \in Record
    BY <1>1 DEF Claimed, Record, Empty, Responses
  <2> QED
    BY <1>1, <1>3, <2>1 DEF Claim, Request
<1>4. ASSUME Dispatch(r)
      PROVE  request' \in [Requests -> Request] /\ queue' \subseteq Requests /\ UNCHANGED record
  BY <1>1, <1>4 DEF Dispatch, Request
<1>5. ASSUME RequestDies(r)
      PROVE  request' \in [Requests -> Request] /\ UNCHANGED <<record, queue>>
  BY <1>1, <1>5 DEF RequestDies, Request
<1>6. request' \in [Requests -> Request] /\ record' \in Record /\ queue' \subseteq Requests
  BY <1>1, <1>2, <1>3, <1>4, <1>5
<1> QED
  BY <1>0, <1>6 DEF WorkerInv

LEMMA TypeDeliver ==
  ASSUME ConstantsOK, TypeInv, NEW r \in Requests, Deliver(r),
         record.attempt = r /\ record.status = "queued" => worker[r].at = "none"
  PROVE  TypeInv'
<1>0. UNCHANGED <<matches, changes, request>> /\ queue' \subseteq Requests
  BY DEF Deliver, TypeInv, TypeOK
<1>1. record \in Record /\ WorkerInv /\ worker \in [Requests -> Worker]
  BY DEF TypeInv, TypeOK
<1>2. CASE record.attempt = r /\ record.status = "queued"
  <2>1. record' = [record EXCEPT !.status = "processing"] /\ Step(r, "start")
    BY <1>2 DEF Deliver
  <2>2. record' \in Record
    BY <1>1, <2>1, RecordFields
  <2>3. worker[r].batch = 1 /\ worker[r].bought = {}
    BY <1>1, <1>2 DEF WorkerInv
  <2>4. worker' \in [Requests -> Worker] /\ WorkerInv'
    BY <2>1, <2>3, StepPlace DEF Places, AtBatch
  <2> QED
    BY <1>0, <2>2, <2>4 DEF TypeInv, TypeOK
<1>3. CASE ~(record.attempt = r /\ record.status = "queued")
  BY <1>0, <1>1, <1>3 DEF Deliver, TypeInv, TypeOK, WorkerInv
<1> QED
  BY <1>2, <1>3

LEMMA TypeWork ==
  ASSUME ConstantsOK, TypeInv, NEW r \in Requests, Work(r) \/ Break(r) \/ Kill(r)
  PROVE  TypeInv'
<1>0. UNCHANGED <<matches, changes, request, queue>>
  BY DEF Work, Verify, Load, Recheck, LoadBatch, Buy, Respond, StoreBatch, ValidateBatch,
         Combine, Complete, ReportFailure, Break, Kill
<1>1. record \in Record /\ worker \in [Requests -> Worker] /\ worker[r] \in Worker /\ WorkerInv
      /\ NumBatches \in Nat
  BY Constants DEF TypeInv, TypeOK
<1> DEFINE Goal == worker' \in [Requests -> Worker] /\ WorkerInv' /\ record' \in Record
<1>2. ASSUME NEW place \in {"finish", "combine", "check", "broken", "gone"}, Step(r, place)
      PROVE  worker' \in [Requests -> Worker] /\ WorkerInv'
  BY <1>2, StepPlace DEF Places, AtBatch
<1>3. ASSUME Verify(r) PROVE Goal
  <2>1. CASE matches
    <3>1. worker[r].at = "start" /\ Step(r, "load") /\ record' = record
      BY <1>3, <2>1 DEF Verify
    <3>2. worker[r].batch = 1 /\ worker[r].bought = {}
      BY <1>1, <3>1 DEF WorkerInv
    <3> QED
      BY <1>1, <3>1, <3>2, StepPlace DEF Places, AtBatch
  <2>2. CASE ~matches
    BY <1>1, <1>2, <1>3, <2>2 DEF Verify
  <2> QED
    BY <2>1, <2>2
<1>4. ASSUME Load(r) PROVE Goal
  <2>1. CASE record.attempt = r /\ record.raw # "none"
    <3> DEFINE w == [[worker[r] EXCEPT !.at = "finish"] EXCEPT !.good = (record.raw = "good")]
    <3>1. w \in Worker /\ w.at = "finish"
      BY <1>1 DEF Worker
    <3>2. worker' = [worker EXCEPT ![r] = w] /\ record' = record
      BY <1>1, <1>4, <2>1 DEF Load
    <3> HIDE DEF w
    <3> QED
      BY <1>1, <3>1, <3>2, StepWorker DEF AtBatch
  <2>2. CASE ~(record.attempt = r /\ record.raw # "none")
    BY <1>1, <1>2, <1>4, <2>2 DEF Load
  <2> QED
    BY <2>1, <2>2
<1>5. ASSUME Recheck(r) PROVE Goal
  <2>1. CASE matches /\ ~(worker[r].batch > NumBatches)
    <3>1. Step(r, "batch") /\ record' = record
      BY <1>5, <2>1 DEF Recheck
    <3>2. worker[r].batch \in Batches
      BY <1>1, <2>1 DEF Worker, Batches
    <3> QED
      BY <1>1, <3>1, <3>2, StepPlace DEF Places, AtBatch
  <2>2. CASE ~matches \/ worker[r].batch > NumBatches
    BY <1>1, <1>2, <1>5, <2>2 DEF Recheck
  <2> QED
    BY <2>1, <2>2
<1>6. ASSUME LoadBatch(r) PROVE Goal
  <2>0. worker[r].at = "batch" /\ worker[r].batch \in Batches /\ record' = record
    BY <1>1, <1>6 DEF LoadBatch, WorkerInv, AtBatch
  <2>1. CASE ~Active(r)
    BY <1>1, <1>2, <1>6, <2>0, <2>1 DEF LoadBatch
  <2>2. CASE Active(r) /\ record.batches[worker[r].batch] = "none"
    <3>1. Step(r, "buy")
      BY <1>6, <2>2 DEF LoadBatch
    <3> QED
      BY <1>1, <2>0, <3>1, StepPlace DEF Places, AtBatch
  <2>3. CASE Active(r) /\ record.batches[worker[r].batch] # "none"
    <3> DEFINE v == record.batches[worker[r].batch]
               w == [worker[r] EXCEPT !.at = "validate", !.got = v]
    <3>1. v \in Responses /\ v # "none"
      BY <1>1, <2>0, <2>3 DEF Record
    <3>2. worker' = [worker EXCEPT ![r] = w]
      BY <1>6, <2>3 DEF LoadBatch
    <3> HIDE DEF v
    <3>3. w \in Worker /\ w.at = "validate" /\ w.got # "none" /\ w.batch \in Batches
      BY <1>1, <2>0, <3>1 DEF Worker
    <3> HIDE DEF w
    <3> QED
      BY <1>1, <2>0, <3>2, <3>3, StepWorker
  <2> QED
    BY <2>1, <2>2, <2>3
<1>7. ASSUME Buy(r) PROVE Goal
  <2>0. worker[r].at = "buy" /\ worker[r].batch \in Batches /\ record' = record
    BY <1>1, <1>7 DEF Buy, WorkerInv, AtBatch
  <2>1. CASE Step(r, "broken")
    BY <1>1, <1>2, <2>0, <2>1
  <2>2. CASE ~Step(r, "broken")
    <3> DEFINE w == [worker[r] EXCEPT !.at = "calling", !.bought = @ \cup {worker[r].batch}]
    <3>1. worker' = [worker EXCEPT ![r] = w]
      BY <1>7, <2>2 DEF Buy
    <3>2. w \in Worker /\ w.at = "calling" /\ w.batch \in Batches
      BY <1>1, <2>0 DEF Worker
    <3> HIDE DEF w
    <3> QED
      BY <1>1, <2>0, <3>1, <3>2, StepWorker DEF AtBatch
  <2> QED
    BY <2>1, <2>2
<1>8. ASSUME Respond(r) PROVE Goal
  <2>0. worker[r].at = "calling" /\ worker[r].batch \in Batches /\ record' = record
    BY <1>1, <1>8 DEF Respond, WorkerInv, AtBatch
  <2>1. CASE Step(r, "broken")
    BY <1>1, <1>2, <2>0, <2>1
  <2>2. CASE ~Step(r, "broken")
    <3>1. PICK v \in {"good", "bad"} :
            worker' = [worker EXCEPT ![r].at = "store", ![r].got = v]
      BY <1>8, <2>2 DEF Respond
    <3> DEFINE w == [worker[r] EXCEPT !.at = "store", !.got = v]
    <3>2. worker' = [worker EXCEPT ![r] = w]
      BY <3>1
    <3>3. w \in Worker /\ w.at = "store" /\ w.got # "none" /\ w.batch \in Batches
      BY <1>1, <2>0 DEF Worker, Responses
    <3> HIDE DEF w
    <3> QED
      BY <1>1, <2>0, <3>2, <3>3, StepWorker
  <2> QED
    BY <2>1, <2>2
<1>9. ASSUME StoreBatch(r) PROVE Goal
  <2>0. worker[r].at = "store" /\ worker[r].batch \in Batches /\ worker[r].got \in Responses
        /\ worker[r].got # "none"
    BY <1>1, <1>9 DEF StoreBatch, WorkerInv, AtBatch, Worker
  <2>1. CASE Active(r)
    <3>1. record' = [record EXCEPT !.batches[worker[r].batch] = worker[r].got]
          /\ Step(r, "validate")
      BY <1>9, <2>1 DEF StoreBatch
    <3>2. record' \in Record
      BY <1>1, <2>0, <3>1, RecordFields
    <3> QED
      BY <2>0, <3>1, <3>2, StepPlace DEF Places, AtBatch
  <2>2. CASE ~Active(r)
    BY <1>1, <1>2, <1>9, <2>2 DEF StoreBatch
  <2> QED
    BY <2>1, <2>2
<1>10. ASSUME ValidateBatch(r) PROVE Goal
  <2>0. worker[r].at = "validate" /\ worker[r].batch \in Batches /\ worker[r].got \in Responses
    BY <1>1, <1>10 DEF ValidateBatch, WorkerInv, AtBatch, Worker
  <2>1. record' \in Record
    BY <1>1, <1>10, <2>0, RecordFields DEF ValidateBatch
  <2> DEFINE w == [worker[r] EXCEPT
                     !.at = IF worker[r].got = "good" THEN "check" ELSE "broken",
                     !.batch = IF worker[r].got = "good" THEN @ + 1 ELSE @]
  <2>2. worker' = [worker EXCEPT ![r] = w]
    BY <1>10 DEF ValidateBatch
  <2>3. w \in Worker /\ w.at \in {"check", "broken"}
    <3>1. CASE worker[r].got = "good"
      <4>1. w = [worker[r] EXCEPT !.at = "check", !.batch = @ + 1]
        BY <3>1
      <4>2. worker[r].batch + 1 \in 1 .. NumBatches + 1
        BY <1>1, <2>0 DEF Batches
      <4> QED
        BY <1>1, <4>1, <4>2 DEF Worker
    <3>2. CASE worker[r].got # "good"
      <4>1. w = [worker[r] EXCEPT !.at = "broken", !.batch = @]
        BY <3>2
      <4> QED
        BY <1>1, <4>1 DEF Worker
    <3> QED
      BY <3>1, <3>2
  <2> HIDE DEF w
  <2> QED
    BY <2>1, <2>2, <2>3, StepWorker DEF AtBatch
<1>11. ASSUME Combine(r) PROVE Goal
  <2>1. record' \in Record
    BY <1>1, <1>11, RecordFields DEF Combine, Responses
  <2> QED
    BY <1>2, <1>11, <2>1 DEF Combine
<1>12. ASSUME Complete(r) PROVE Goal
  <2>1. record' \in Record
    BY <1>1, <1>12, RecordFields DEF Complete
  <2> QED
    BY <1>2, <1>12, <2>1 DEF Complete
<1>13. ASSUME ReportFailure(r) PROVE Goal
  <2>1. record' \in Record
    BY <1>1, <1>13, RecordFields DEF ReportFailure
  <2> QED
    BY <1>2, <1>13, <2>1 DEF ReportFailure
<1>14. ASSUME Break(r) \/ Kill(r) PROVE Goal
  BY <1>1, <1>2, <1>14 DEF Break, Kill
<1>15. Goal
  BY <1>3, <1>4, <1>5, <1>6, <1>7, <1>8, <1>9, <1>10, <1>11, <1>12, <1>13, <1>14 DEF Work
<1> QED
  BY <1>0, <1>15 DEF TypeInv, TypeOK

LEMMA TypeOthers ==
  ASSUME ConstantsOK, TypeInv, ChangePaper \/ OperatorFails
  PROVE  TypeInv'
<1>1. UNCHANGED <<request, queue, worker>>
  BY DEF ChangePaper, OperatorFails
<1>2. record \in Record /\ changes \in 0 .. MaxChanges /\ matches \in BOOLEAN /\ MaxChanges \in Nat
  BY Constants DEF TypeInv, TypeOK
<1>3. record' \in Record
  BY <1>2, RecordFields DEF ChangePaper, OperatorFails
<1>4. changes' \in 0 .. MaxChanges
  BY <1>2 DEF ChangePaper, OperatorFails
<1>5. matches' \in BOOLEAN
  BY <1>2 DEF ChangePaper, OperatorFails
<1> QED
  BY <1>1, <1>3, <1>4, <1>5 DEF TypeInv, TypeOK, WorkerInv

-----------------------------------------------------------------------------
\* The inductive invariant

\* An attempt is in the record, in the queue or at work only after its request
\* claimed the record.  A request that will claim it replaces an attempt that is
\* over, and one that costs nothing found everything saved.
RequestOK(r) ==
  /\ request[r].at \in {"new", "claim"} =>
       record.attempt # r /\ r \notin queue /\ worker[r].at = "none"
  /\ request[r].at = "new" => ~request[r].free
  /\ request[r].free => ~request[r].regenerate
  /\ request[r].at = "claim" =>
       /\ request[r].old = None => ~request[r].free
       /\ request[r].old # None => request[request[r].old].at \in {"dispatch", "done"}
       /\ request[r].old # None /\ record.attempt = request[r].old =>
            record.status = "failed" /\ (request[r].free => AllSaved)

RequestInv == \A r \in Requests : RequestOK(r)

RecordInv ==
  /\ record.attempt = None <=> record.status = "none"
  /\ record.raw = "good" => \A b \in Batches : record.batches[b] = "good"
  /\ record.status = "completed" => record.raw = "good"
  /\ \A r \in Requests :
       record.attempt = r /\ record.status = "queued" => worker[r].at = "none"

FreeInv ==
  \A r \in Requests : request[r].free =>
    /\ record.attempt = r => AllSaved
    /\ worker[r].at \notin {"buy", "calling", "store"}
    /\ worker[r].bought = {}

\* What the worker of the recorded attempt knows of the record.
Knows(w) ==
  /\ w.at \in AtBatch \cup {"check", "combine"} =>
       \A b \in Batches : b < w.batch => record.batches[b] = "good"
  /\ w.at \in AtBatch => record.raw = "none"
  /\ w.at = "check" => record.raw = "none" \/ w.batch > NumBatches
  /\ w.at = "combine" => w.batch > NumBatches
  /\ w.at = "validate" => record.batches[w.batch] = w.got
  /\ w.at \in {"buy", "calling", "store"} => record.batches[w.batch] = "none"
  /\ w.at = "finish" /\ w.good => record.raw = "good"

KnowsInv == \A r \in Requests : record.attempt = r => Knows(worker[r])

Inv == TypeInv /\ RequestInv /\ RecordInv /\ FreeInv /\ KnowsInv

LEMMA InitInv ==
  ASSUME ConstantsOK, Init
  PROVE  Inv
<1>1. TypeInv
  BY InitType
<1>2. RequestInv
  BY DEF Init, RequestInv, RequestOK, ConstantsOK
<1>3. RecordInv
  BY DEF Init, RecordInv
<1>4. FreeInv
  BY DEF Init, FreeInv
<1>5. KnowsInv
  BY DEF Init, KnowsInv, Knows, AtBatch
<1> QED
  BY <1>1, <1>2, <1>3, <1>4, <1>5 DEF Inv

-----------------------------------------------------------------------------
\* Steps of requests

LEMMA StepAsk ==
  ASSUME ConstantsOK, Inv, NEW r \in Requests, NEW retry \in BOOLEAN, NEW regenerate \in BOOLEAN,
         Ask(r, retry, regenerate)
  PROVE  Inv'
<1>0. TypeInv'
  BY TypeRequests DEF Inv
<1>1. /\ request[r].at = "new" /\ UNCHANGED <<matches, changes, record, queue, worker>>
      /\ record.attempt # r /\ r \notin queue /\ worker[r].at = "none" /\ ~request[r].free
  BY DEF Ask, Inv, RequestInv, RequestOK
<1>2. worker[r].bought = {} /\ request \in [Requests -> Request] /\ record \in Record
  BY <1>1 DEF Inv, TypeInv, TypeOK, WorkerInv
<1>3. \A x \in Requests \ {r} : request'[x] = request[x]
  BY <1>2 DEF Ask
<1>4. CASE request' = [request EXCEPT ![r].at = "done"]
  <2>1. request'[r].at = "done" /\ request'[r].free = request[r].free
        /\ request'[r].regenerate = request[r].regenerate
    BY <1>2, <1>4 DEF Request
  <2>2. RequestInv'
    BY <1>1, <1>2, <1>3, <2>1 DEF Inv, RequestInv, RequestOK, AllSaved, Request
  <2>3. FreeInv'
    BY <1>1, <1>3, <2>1 DEF Inv, FreeInv, AllSaved
  <2> QED
    BY <1>0, <1>1, <2>2, <2>3 DEF Inv, RecordInv, KnowsInv, Knows
<1>5. CASE request' # [request EXCEPT ![r].at = "done"]
  <2> DEFINE new == [at |-> "claim", old |-> record.attempt, regenerate |-> regenerate,
                     free |-> record.status = "failed" /\ AllSaved /\ ~regenerate]
  <2>1. /\ request' = [request EXCEPT ![r] = new]
        /\ record.status = "none" \/ (record.status = "failed" /\ retry)
    BY <1>5 DEF Ask
  <2>2. /\ request'[r].at = "claim" /\ request'[r].old = record.attempt
        /\ request'[r].regenerate = regenerate
        /\ request'[r].free = (record.status = "failed" /\ AllSaved /\ ~regenerate)
    BY <1>2, <2>1
  <2>3. record.attempt # None => /\ record.attempt \in Requests \ {r}
                                 /\ record.status = "failed"
                                 /\ request[record.attempt].at \notin {"new", "claim"}
    BY <1>1, <1>2, <2>1 DEF Inv, RecordInv, RequestInv, RequestOK, Record
  <2>4. record.attempt = None => ~request'[r].free
    BY <2>2 DEF Inv, RecordInv
  <2>5. \A x \in Requests : request[x].at \in {"new", "claim", "dispatch", "done"}
    BY <1>2 DEF Request
  <2>6. RequestInv'
    <3> SUFFICES ASSUME NEW x \in Requests PROVE RequestOK(x)'
      BY DEF RequestInv
    <3>0. AllSaved' = AllSaved
      BY <1>1 DEF AllSaved
    <3>1. CASE x = r
      <4>1. request'[r].old # None =>
              /\ request'[request'[r].old].at \in {"dispatch", "done"}
              /\ record'.status = "failed" /\ (request'[r].free => AllSaved')
        BY <1>1, <1>3, <2>2, <2>3, <2>5, <3>0
      <4> QED
        BY <1>1, <2>2, <2>4, <3>1, <4>1 DEF RequestOK
    <3>2. CASE x # r
      <4>1. RequestOK(x) /\ request'[x] = request[x]
        BY <1>3, <3>2 DEF Inv, RequestInv
      <4>2. request[x].at = "claim" /\ request[x].old # None =>
              request'[request[x].old].at = request[request[x].old].at
        <5>1. request[x].old \in Requests \cup {None}
          BY <1>2 DEF Request
        <5>2. request[x].at = "claim" => request[x].old # r
          BY <1>1, <4>1, Constants DEF RequestOK
        <5> QED
          BY <1>3, <5>1, <5>2
      <4> QED
        BY <1>1, <3>0, <4>1, <4>2 DEF RequestOK
    <3> QED
      BY <3>1, <3>2
  <2>7. FreeInv'
    BY <1>1, <1>2, <1>3 DEF Inv, FreeInv, AllSaved
  <2> QED
    BY <1>0, <1>1, <2>6, <2>7 DEF Inv, RecordInv, KnowsInv, Knows
<1> QED
  BY <1>4, <1>5

\* A request is over, or its message is queued.
LEMMA StepLeaves ==
  ASSUME ConstantsOK, Inv, NEW r \in Requests,
         request[r].at \in {"claim", "dispatch"},
         request' = [request EXCEPT ![r].at = "done"],
         queue' = queue \/ (request[r].at = "dispatch" /\ queue' = queue \cup {r}),
         UNCHANGED <<matches, changes, record, worker>>, TypeInv'
  PROVE  Inv'
<1>1. request \in [Requests -> Request]
  BY DEF Inv, TypeInv, TypeOK
<1>2. /\ \A x \in Requests \ {r} : request'[x] = request[x]
      /\ request'[r].at = "done" /\ request'[r].free = request[r].free
      /\ request'[r].regenerate = request[r].regenerate
  BY <1>1 DEF Request
<1>3. RequestInv'
  BY <1>1, <1>2 DEF Inv, RequestInv, RequestOK, AllSaved, Request
<1>4. FreeInv'
  BY <1>2 DEF Inv, FreeInv, AllSaved
<1> QED
  BY <1>3, <1>4 DEF Inv, RecordInv, KnowsInv, Knows

LEMMA StepClaim ==
  ASSUME ConstantsOK, Inv, NEW r \in Requests, Claim(r)
  PROVE  Inv'
<1>0. TypeInv'
  BY TypeRequests DEF Inv
<1>1. request[r].at = "claim" /\ UNCHANGED <<matches, changes, queue, worker>>
  BY DEF Claim
<1>2. CASE ~Claimable(r)
  BY <1>0, <1>1, <1>2, StepLeaves DEF Claim
<1>3. CASE Claimable(r)
  <2>1. record' = Claimed(r) /\ request' = [request EXCEPT ![r].at = "dispatch"]
    BY <1>3 DEF Claim
  <2>2. request \in [Requests -> Request] /\ record \in Record /\ None \notin Requests
    BY Constants DEF Inv, TypeInv, TypeOK
  <2>3. /\ \A x \in Requests \ {r} : request'[x] = request[x]
        /\ request'[r].at = "dispatch" /\ request'[r].free = request[r].free
        /\ request'[r].regenerate = request[r].regenerate
    BY <2>1, <2>2 DEF Request
  <2>4. /\ record'.status = "queued" /\ record'.attempt = r
        /\ record'.batches = IF request[r].regenerate THEN Empty ELSE record.batches
        /\ record'.raw = IF request[r].free THEN record.raw ELSE "none"
    BY <2>1 DEF Claimed
  <2>5. worker[r].at = "none" /\ r \notin queue
    BY <1>1 DEF Inv, RequestInv, RequestOK
  <2>6. request[r].free => AllSaved /\ ~request[r].regenerate
    <3> SUFFICES ASSUME request[r].free PROVE AllSaved /\ ~request[r].regenerate
      OBVIOUS
    <3>1. request[r].old # None
      BY <1>1 DEF Inv, RequestInv, RequestOK
    <3>2. record.attempt = request[r].old
      BY <1>3, <3>1 DEF Claimable
    <3> QED
      BY <1>1, <3>1, <3>2 DEF Inv, RequestInv, RequestOK
  <2>7. RequestInv'
    <3> SUFFICES ASSUME NEW x \in Requests PROVE RequestOK(x)'
      BY DEF RequestInv
    <3>1. RequestOK(x)
      BY DEF Inv, RequestInv
    <3>2. CASE x = r
      BY <2>3, <3>1, <3>2 DEF RequestOK
    <3>3. CASE x # r
      <4>1. request'[x] = request[x] /\ record'.attempt # x /\ queue' = queue /\ worker' = worker
        BY <1>1, <2>3, <2>4, <3>3
      <4>2. request[x].old \in Requests \cup {None}
        BY <2>2 DEF Request
      <4>3. request[x].at = "claim" /\ request[x].old # None =>
              /\ record'.attempt # request[x].old
              /\ request'[request[x].old].at \in {"dispatch", "done"}
        BY <1>1, <2>3, <2>4, <3>1, <4>2 DEF RequestOK
      <4> QED
        BY <3>1, <4>1, <4>3 DEF RequestOK
    <3> QED
      BY <3>2, <3>3
  <2>8. RecordInv'
    BY <1>1, <2>2, <2>4, <2>5, <2>6 DEF Inv, RecordInv
  <2>9. FreeInv'
    <3>1. request[r].free => AllSaved'
      BY <2>4, <2>6 DEF AllSaved
    <3> QED
      BY <1>1, <2>3, <2>4, <3>1 DEF Inv, FreeInv
  <2>10. KnowsInv'
    BY <1>1, <2>4, <2>5 DEF KnowsInv, Knows, AtBatch
  <2> QED
    BY <1>0, <2>7, <2>8, <2>9, <2>10 DEF Inv
<1> QED
  BY <1>2, <1>3

LEMMA StepRequest ==
  ASSUME ConstantsOK, Inv, NEW r \in Requests, Dispatch(r) \/ RequestDies(r)
  PROVE  Inv'
<1>1. TypeInv'
  BY TypeRequests DEF Inv
<1> QED
  BY <1>1, StepLeaves DEF Dispatch, RequestDies

-----------------------------------------------------------------------------
\* Steps of workers

\* A worker that moves and writes nothing.
LEMMA StepMoves ==
  ASSUME ConstantsOK, Inv, NEW r \in Requests, worker[r].at # "none",
         \A x \in Requests \ {r} : worker'[x] = worker[x],
         UNCHANGED <<record, request, queue>>,
         request[r].free => /\ worker'[r].at \notin {"buy", "calling", "store"}
                            /\ worker'[r].bought = {},
         record.attempt = r => Knows(worker[r])',
         TypeInv'
  PROVE  Inv'
<1>1. request[r].at \notin {"new", "claim"}
  BY DEF Inv, RequestInv, RequestOK
<1>2. RequestInv'
  BY <1>1 DEF Inv, RequestInv, RequestOK, AllSaved
<1>3. RecordInv'
  BY DEF Inv, RecordInv
<1>4. FreeInv'
  BY DEF Inv, FreeInv, AllSaved
<1>5. KnowsInv'
  BY DEF Inv, KnowsInv, Knows
<1> QED
  BY <1>2, <1>3, <1>4, <1>5 DEF Inv

\* The worker of the recorded attempt writes.
LEMMA StepWrites ==
  ASSUME ConstantsOK, Inv, NEW r \in Requests, worker[r].at # "none", Active(r),
         \A x \in Requests \ {r} : worker'[x] = worker[x],
         UNCHANGED <<request, queue>>,
         record'.attempt = r,
         record'.status \in {"processing", "failed", "completed"},
         record'.status = "completed" => record'.raw = "good",
         record'.raw = "good" => \A b \in Batches : record'.batches[b] = "good",
         AllSaved => AllSaved',
         request[r].free => /\ worker'[r].at \notin {"buy", "calling", "store"}
                            /\ worker'[r].bought = {},
         Knows(worker[r])',
         TypeInv'
  PROVE  Inv'
<1>1. request[r].at \notin {"new", "claim"} /\ record.attempt = r /\ record.status = "processing"
      /\ None \notin Requests
  BY Constants DEF Inv, RequestInv, RequestOK, Active
<1>2. RequestInv'
  BY <1>1 DEF Inv, RequestInv, RequestOK
<1>3. RecordInv'
  BY <1>1 DEF Inv, RecordInv
<1>4. FreeInv'
  BY <1>1 DEF Inv, FreeInv
<1>5. KnowsInv'
  BY <1>1 DEF Inv, KnowsInv
<1> QED
  BY <1>2, <1>3, <1>4, <1>5 DEF Inv

LEMMA StepDeliver ==
  ASSUME ConstantsOK, Inv, NEW r \in Requests, Deliver(r)
  PROVE  Inv'
<1>0. record.attempt = r /\ record.status = "queued" => worker[r].at = "none"
  BY DEF Inv, RecordInv
<1>1. TypeInv'
  BY <1>0, TypeDeliver DEF Inv
<1>2. /\ r \in queue /\ queue' \subseteq queue /\ UNCHANGED <<matches, changes, request>>
      /\ request[r].at \notin {"new", "claim"} /\ None \notin Requests
  BY Constants DEF Deliver, Inv, RequestInv, RequestOK
<1>3. CASE ~(record.attempt = r /\ record.status = "queued")
  <2>1. UNCHANGED <<record, worker>>
    BY <1>3 DEF Deliver
  <2> QED
    BY <1>1, <1>2, <2>1
    DEF Inv, RequestInv, RequestOK, RecordInv, FreeInv, KnowsInv, Knows, AllSaved
<1>4. CASE record.attempt = r /\ record.status = "queued"
  <2>1. /\ record' = [record EXCEPT !.status = "processing"]
        /\ worker' = [worker EXCEPT ![r].at = "start"]
    BY <1>4 DEF Deliver, Step
  <2>2. record \in Record /\ worker \in [Requests -> Worker] /\ worker[r].bought = {}
    BY <1>0, <1>4 DEF Inv, TypeInv, TypeOK, WorkerInv
  <2>3. /\ record'.attempt = r /\ record'.status = "processing"
        /\ record'.batches = record.batches /\ record'.raw = record.raw
        /\ worker'[r].at = "start" /\ worker'[r].bought = {}
        /\ \A x \in Requests \ {r} : worker'[x] = worker[x]
    BY <1>4, <2>1, <2>2 DEF Record, Worker
  <2>4. RequestInv'
    BY <1>2, <1>4, <2>3 DEF Inv, RequestInv, RequestOK
  <2>5. RecordInv'
    BY <1>2, <1>4, <2>3 DEF Inv, RecordInv
  <2>6. FreeInv'
    BY <1>2, <1>4, <2>3 DEF Inv, FreeInv, AllSaved
  <2>7. KnowsInv'
    BY <2>3 DEF KnowsInv, Knows, AtBatch
  <2> QED
    BY <1>1, <2>4, <2>5, <2>6, <2>7 DEF Inv
<1> QED
  BY <1>3, <1>4

LEMMA StepWork ==
  ASSUME ConstantsOK, Inv, NEW r \in Requests, Work(r) \/ Break(r) \/ Kill(r)
  PROVE  Inv'
<1>0. TypeInv'
  BY TypeWork DEF Inv
<1>1. /\ worker[r].at # "none" /\ UNCHANGED <<matches, changes, request, queue>>
  BY DEF Work, Verify, Load, Recheck, LoadBatch, Buy, Respond, StoreBatch, ValidateBatch,
         Combine, Complete, ReportFailure, Break, Kill
<1>2. record \in Record /\ worker \in [Requests -> Worker] /\ worker[r] \in Worker
      /\ WorkerInv /\ NumBatches \in Nat \ {0}
  BY Constants DEF Inv, TypeInv, TypeOK
<1>3. record.attempt = r => Knows(worker[r])
  BY DEF Inv, KnowsInv
<1>4. request[r].free => /\ worker[r].at \notin {"buy", "calling", "store"}
                         /\ worker[r].bought = {}
                         /\ record.attempt = r => AllSaved
  BY DEF Inv, FreeInv
\* A worker that only goes somewhere else.
<1>5. ASSUME NEW place \in Places, Step(r, place), record' = record,
             request[r].free => place \notin {"buy", "calling", "store"},
             record.attempt = r => Knows([worker[r] EXCEPT !.at = place])
      PROVE  Inv'
  <2>1. /\ worker'[r] = [worker[r] EXCEPT !.at = place]
        /\ \A x \in Requests \ {r} : worker'[x] = worker[x]
    BY <1>2, <1>5 DEF Step
  <2>2. worker'[r].at = place /\ worker'[r].bought = worker[r].bought
    BY <1>2, <2>1 DEF Worker
  <2>3. record.attempt = r => Knows(worker[r])'
    BY <1>5, <2>1 DEF Knows
  <2> QED
    BY <1>0, <1>1, <1>4, <1>5, <2>1, <2>2, <2>3, StepMoves
<1>6. ASSUME NEW place \in {"load", "broken", "gone"}, Step(r, place), record' = record
      PROVE  Inv'
  <2> DEFINE w == [worker[r] EXCEPT !.at = place]
  <2>1. w.at = place
    BY <1>2 DEF Worker
  <2>2. Knows(w)
    BY <2>1 DEF Knows, AtBatch
  <2> QED
    BY <1>5, <1>6, <2>2 DEF Places
<1>7. ASSUME Verify(r) \/ Break(r) \/ Kill(r) PROVE Inv'
  BY <1>6, <1>7 DEF Verify, Break, Kill
<1>8. ASSUME Load(r) PROVE Inv'
  <2>0. worker[r].at = "load" /\ worker[r].batch = 1 /\ record' = record
    BY <1>2, <1>8 DEF Load, WorkerInv
  <2>1. CASE record.attempt = r /\ record.raw # "none"
    <3>1. worker' = [worker EXCEPT ![r].at = "finish", ![r].good = record.raw = "good"]
      BY <1>8, <2>1 DEF Load
    <3>2. /\ worker'[r].at = "finish" /\ worker'[r].good = (record.raw = "good")
          /\ worker'[r].bought = worker[r].bought
          /\ \A x \in Requests \ {r} : worker'[x] = worker[x]
      BY <1>2, <3>1 DEF Worker
    <3>3. Knows(worker[r])'
      BY <2>0, <3>2 DEF Knows, AtBatch
    <3> QED
      BY <1>0, <1>1, <1>4, <2>0, <3>2, <3>3, StepMoves
  <2>2. CASE ~(record.attempt = r /\ record.raw # "none")
    <3> DEFINE w == [worker[r] EXCEPT !.at = "check"]
    <3>1. w.at = "check" /\ w.batch = 1
      BY <1>2, <2>0 DEF Worker
    <3>2. record.attempt = r => Knows(w)
      BY <2>2, <3>1 DEF Knows, AtBatch, Batches
    <3>3. Step(r, "check")
      BY <1>8, <2>2 DEF Load
    <3> QED
      BY <1>5, <2>0, <3>2, <3>3 DEF Places
  <2> QED
    BY <2>1, <2>2
<1>9. ASSUME Recheck(r) PROVE Inv'
  <2>0. worker[r].at = "check" /\ record' = record
    BY <1>9 DEF Recheck
  <2>1. CASE ~matches
    BY <1>6, <1>9, <2>0, <2>1 DEF Recheck
  <2>2. CASE matches /\ worker[r].batch > NumBatches
    <3> DEFINE w == [worker[r] EXCEPT !.at = "combine"]
    <3>1. w.at = "combine" /\ w.batch = worker[r].batch
      BY <1>2 DEF Worker
    <3>2. record.attempt = r => Knows(w)
      BY <1>3, <2>0, <2>2, <3>1 DEF Knows, AtBatch
    <3>3. Step(r, "combine")
      BY <1>9, <2>2 DEF Recheck
    <3> QED
      BY <1>5, <2>0, <3>2, <3>3 DEF Places
  <2>3. CASE matches /\ ~(worker[r].batch > NumBatches)
    <3> DEFINE w == [worker[r] EXCEPT !.at = "batch"]
    <3>1. w.at = "batch" /\ w.batch = worker[r].batch
      BY <1>2 DEF Worker
    <3>2. record.attempt = r => Knows(w)
      BY <1>3, <2>0, <2>3, <3>1 DEF Knows, AtBatch
    <3>3. Step(r, "batch")
      BY <1>9, <2>3 DEF Recheck
    <3> QED
      BY <1>5, <2>0, <3>2, <3>3 DEF Places
  <2> QED
    BY <2>1, <2>2, <2>3
<1>10. ASSUME LoadBatch(r) PROVE Inv'
  <2>0. worker[r].at = "batch" /\ worker[r].batch \in Batches /\ record' = record
    BY <1>2, <1>10 DEF LoadBatch, WorkerInv, AtBatch
  <2>1. CASE ~Active(r)
    BY <1>6, <1>10, <2>0, <2>1 DEF LoadBatch
  <2>2. CASE Active(r) /\ record.batches[worker[r].batch] = "none"
    <3> DEFINE w == [worker[r] EXCEPT !.at = "buy"]
    <3>1. w.at = "buy" /\ w.batch = worker[r].batch
      BY <1>2 DEF Worker
    <3>2. Knows(worker[r]) /\ record.attempt = r
      BY <1>3, <2>2 DEF Active
    <3>3. Knows(w)
      BY <2>0, <2>2, <3>1, <3>2 DEF Knows, AtBatch
    <3>4. ~request[r].free
      BY <1>4, <2>0, <2>2, <3>2 DEF Knows, AtBatch, AllSaved
    <3>5. Step(r, "buy")
      BY <1>10, <2>2 DEF LoadBatch
    <3> QED
      BY <1>5, <2>0, <3>3, <3>4, <3>5 DEF Places
  <2>3. CASE Active(r) /\ record.batches[worker[r].batch] # "none"
    <3> DEFINE v == record.batches[worker[r].batch]
    <3>1. worker' = [worker EXCEPT ![r].at = "validate", ![r].got = v]
      BY <1>10, <2>3 DEF LoadBatch
    <3>2. /\ worker'[r].at = "validate" /\ worker'[r].got = v
          /\ worker'[r].batch = worker[r].batch /\ worker'[r].bought = worker[r].bought
          /\ \A x \in Requests \ {r} : worker'[x] = worker[x]
      BY <1>2, <3>1 DEF Worker
    <3>3. Knows(worker[r])'
      BY <1>3, <2>0, <2>3, <3>2 DEF Active, Knows, AtBatch
    <3> QED
      BY <1>0, <1>1, <1>4, <2>0, <3>2, <3>3, StepMoves
  <2> QED
    BY <2>1, <2>2, <2>3
<1>11. ASSUME Buy(r) PROVE Inv'
  <2>0. worker[r].at = "buy" /\ record' = record /\ ~request[r].free
    BY <1>4, <1>11 DEF Buy
  <2>1. CASE Step(r, "broken")
    BY <1>6, <2>0, <2>1
  <2>2. CASE ~Step(r, "broken")
    <3>1. worker' = [worker EXCEPT ![r].at = "calling", ![r].bought = @ \cup {worker[r].batch}]
      BY <1>11, <2>2 DEF Buy
    <3>2. /\ worker'[r].at = "calling" /\ worker'[r].batch = worker[r].batch
          /\ \A x \in Requests \ {r} : worker'[x] = worker[x]
      BY <1>2, <3>1 DEF Worker
    <3>3. record.attempt = r => Knows(worker[r])'
      BY <1>3, <2>0, <3>2 DEF Knows, AtBatch
    <3> QED
      BY <1>0, <1>1, <2>0, <3>2, <3>3, StepMoves
  <2> QED
    BY <2>1, <2>2
<1>12. ASSUME Respond(r) PROVE Inv'
  <2>0. worker[r].at = "calling" /\ record' = record /\ ~request[r].free
    BY <1>4, <1>12 DEF Respond
  <2>1. CASE Step(r, "broken")
    BY <1>6, <2>0, <2>1
  <2>2. CASE ~Step(r, "broken")
    <3>1. PICK v \in {"good", "bad"} :
            worker' = [worker EXCEPT ![r].at = "store", ![r].got = v]
      BY <1>12, <2>2 DEF Respond
    <3>2. /\ worker'[r].at = "store" /\ worker'[r].batch = worker[r].batch
          /\ \A x \in Requests \ {r} : worker'[x] = worker[x]
      BY <1>2, <3>1 DEF Worker
    <3>3. record.attempt = r => Knows(worker[r])'
      BY <1>3, <2>0, <3>2 DEF Knows, AtBatch
    <3> QED
      BY <1>0, <1>1, <2>0, <3>2, <3>3, StepMoves
  <2> QED
    BY <2>1, <2>2
<1>13. ASSUME StoreBatch(r) PROVE Inv'
  <2>0. /\ worker[r].at = "store" /\ worker[r].batch \in Batches /\ worker[r].got # "none"
        /\ ~request[r].free
    BY <1>2, <1>4, <1>13 DEF StoreBatch, WorkerInv, AtBatch
  <2>1. CASE ~Active(r)
    BY <1>6, <1>13, <2>1 DEF StoreBatch
  <2>2. CASE Active(r)
    <3>1. /\ record' = [record EXCEPT !.batches[worker[r].batch] = worker[r].got]
          /\ worker' = [worker EXCEPT ![r].at = "validate"]
      BY <1>13, <2>2 DEF StoreBatch, Step
    <3>2. /\ worker'[r].at = "validate" /\ worker'[r].batch = worker[r].batch
          /\ worker'[r].got = worker[r].got
          /\ \A x \in Requests \ {r} : worker'[x] = worker[x]
      BY <1>2, <3>1 DEF Worker
    <3>3. /\ record'.attempt = record.attempt /\ record'.status = record.status
          /\ record'.raw = record.raw
          /\ record'.batches = [record.batches EXCEPT ![worker[r].batch] = worker[r].got]
          /\ record.batches \in [Batches -> Responses]
      BY <1>2, <3>1 DEF Record
    <3>4. record.attempt = r /\ record.status = "processing" /\ record.raw = "none"
          /\ Knows(worker[r])
      BY <1>3, <2>0, <2>2 DEF Active, Knows, AtBatch
    <3>5. Knows(worker[r])'
      BY <2>0, <3>2, <3>3, <3>4 DEF Knows, AtBatch, Batches
    <3>6. AllSaved => AllSaved'
      BY <2>0, <3>3 DEF AllSaved
    <3> QED
      BY <1>0, <1>1, <2>0, <2>2, <3>2, <3>3, <3>4, <3>5, <3>6, StepWrites
  <2> QED
    BY <2>1, <2>2
<1>14. ASSUME ValidateBatch(r) PROVE Inv'
  <2> DEFINE whole == worker[r].got = "good"
  <2>0. /\ worker[r].at = "validate" /\ worker[r].batch \in Batches /\ worker[r].got # "none"
        /\ worker' = [worker EXCEPT ![r].at = IF whole THEN "check" ELSE "broken",
                                    ![r].batch = IF whole THEN @ + 1 ELSE @]
    BY <1>2, <1>14 DEF ValidateBatch, WorkerInv, AtBatch
  <2>1. /\ worker'[r].at = IF whole THEN "check" ELSE "broken"
        /\ worker'[r].batch = IF whole THEN worker[r].batch + 1 ELSE worker[r].batch
        /\ worker'[r].bought = worker[r].bought
        /\ \A x \in Requests \ {r} : worker'[x] = worker[x]
    BY <1>2, <2>0 DEF Worker
  <2>2. record.attempt = r =>
          /\ record.batches[worker[r].batch] = worker[r].got
          /\ record.raw = "none"
          /\ \A b \in Batches : b < worker[r].batch => record.batches[b] = "good"
    BY <1>3, <2>0 DEF Knows, AtBatch
  <2>3. whole /\ record.attempt = r =>
          \A b \in Batches : b < worker[r].batch + 1 => record.batches[b] = "good"
    BY <2>0, <2>2 DEF Batches
  <2>4. CASE ~(NumBatches = 1 /\ Active(r))
    <3>1. record' = record
      BY <1>14, <2>4 DEF ValidateBatch
    <3>2. record.attempt = r => Knows(worker[r])'
      BY <2>1, <2>2, <2>3, <3>1 DEF Knows, AtBatch
    <3> QED
      BY <1>0, <1>1, <1>4, <2>1, <3>1, <3>2, StepMoves
  <2>5. CASE NumBatches = 1 /\ Active(r)
    <3>1. record' = [record EXCEPT !.raw = worker[r].got]
      BY <1>14, <2>5 DEF ValidateBatch
    <3>2. /\ record'.attempt = r /\ record'.status = "processing" /\ record.attempt = r
          /\ record'.raw = worker[r].got /\ record'.batches = record.batches
      BY <1>2, <2>5, <3>1 DEF Record, Active
    <3>3. worker[r].batch = 1 /\ Batches = {1}
      BY <2>0, <2>5 DEF Batches
    <3>4. record'.raw = "good" => \A b \in Batches : record'.batches[b] = "good"
      BY <2>2, <3>2, <3>3
    <3>5. Knows(worker[r])'
      BY <2>1, <2>3, <2>5, <3>2, <3>3 DEF Knows, AtBatch
    <3>6. AllSaved'
      BY <2>0, <3>2 DEF AllSaved
    <3> QED
      BY <1>0, <1>1, <1>4, <2>1, <2>5, <3>2, <3>4, <3>5, <3>6, StepWrites
  <2> QED
    BY <2>4, <2>5
<1>15. ASSUME Combine(r) PROVE Inv'
  <2>0. worker[r].at = "combine"
    BY <1>15 DEF Combine
  <2>1. CASE ~Active(r)
    BY <1>6, <1>15, <2>1 DEF Combine
  <2>2. CASE Active(r)
    <3>1. /\ record' = [record EXCEPT !.raw = "good"]
          /\ worker' = [worker EXCEPT ![r].at = "finish"]
      BY <1>15, <2>2 DEF Combine, Step
    <3>2. /\ record'.attempt = r /\ record'.status = "processing" /\ record.attempt = r
          /\ record'.raw = "good" /\ record'.batches = record.batches
      BY <1>2, <2>2, <3>1 DEF Record, Active
    <3>3. /\ worker'[r].at = "finish" /\ worker'[r].bought = worker[r].bought
          /\ \A x \in Requests \ {r} : worker'[x] = worker[x]
      BY <1>2, <3>1 DEF Worker
    <3>4. \A b \in Batches : record.batches[b] = "good"
      <4>1. /\ worker[r].batch > NumBatches /\ worker[r].batch \in Nat
            /\ \A b \in Batches : b < worker[r].batch => record.batches[b] = "good"
        BY <1>2, <1>3, <2>0, <3>2 DEF Knows, Worker
      <4> QED
        BY <1>2, <4>1 DEF Batches
    <3>5. Knows(worker[r])'
      BY <3>2, <3>3 DEF Knows, AtBatch
    <3>6. AllSaved'
      BY <3>2 DEF AllSaved
    <3> QED
      BY <1>0, <1>1, <1>4, <2>2, <3>2, <3>3, <3>4, <3>5, <3>6, StepWrites
  <2> QED
    BY <2>1, <2>2
<1>16. ASSUME Complete(r) PROVE Inv'
  <2>0. worker[r].at = "finish"
    BY <1>16 DEF Complete
  <2>1. CASE ~(worker[r].good /\ matches)
    BY <1>6, <1>16, <2>1 DEF Complete
  <2>2. CASE worker[r].good /\ matches /\ ~Active(r)
    BY <1>6, <1>16, <2>2 DEF Complete
  <2>3. CASE worker[r].good /\ matches /\ Active(r)
    <3>1. /\ record' = [record EXCEPT !.status = "completed"]
          /\ worker' = [worker EXCEPT ![r].at = "gone"]
      BY <1>16, <2>3 DEF Complete, Step
    <3>2. /\ record'.attempt = r /\ record'.status = "completed" /\ record.attempt = r
          /\ record'.raw = record.raw /\ record'.batches = record.batches
      BY <1>2, <2>3, <3>1 DEF Record, Active
    <3>3. /\ worker'[r].at = "gone" /\ worker'[r].bought = worker[r].bought
          /\ \A x \in Requests \ {r} : worker'[x] = worker[x]
      BY <1>2, <3>1 DEF Worker
    <3>4. record.raw = "good" /\ \A b \in Batches : record.batches[b] = "good"
      BY <1>3, <2>0, <2>3, <3>2 DEF Knows, Inv, RecordInv
    <3>5. Knows(worker[r])'
      BY <3>3 DEF Knows, AtBatch
    <3>6. AllSaved => AllSaved'
      BY <3>2 DEF AllSaved
    <3> QED
      BY <1>0, <1>1, <1>4, <2>3, <3>2, <3>3, <3>4, <3>5, <3>6, StepWrites
  <2> QED
    BY <2>1, <2>2, <2>3
<1>17. ASSUME ReportFailure(r) PROVE Inv'
  <2>1. CASE record' = record
    BY <1>6, <1>17, <2>1 DEF ReportFailure
  <2>2. CASE record' # record
    <3>1. /\ Active(r) /\ record' = [record EXCEPT !.status = "failed"]
          /\ worker' = [worker EXCEPT ![r].at = "gone"]
      BY <1>17, <2>2 DEF ReportFailure, Step
    <3>2. /\ record'.attempt = r /\ record'.status = "failed"
          /\ record'.raw = record.raw /\ record'.batches = record.batches
      BY <1>2, <3>1 DEF Record, Active
    <3>3. /\ worker'[r].at = "gone" /\ worker'[r].bought = worker[r].bought
          /\ \A x \in Requests \ {r} : worker'[x] = worker[x]
      BY <1>2, <3>1 DEF Worker
    <3>4. Knows(worker[r])'
      BY <3>3 DEF Knows, AtBatch
    <3>5. record.raw = "good" => \A b \in Batches : record.batches[b] = "good"
      BY DEF Inv, RecordInv
    <3>6. AllSaved => AllSaved'
      BY <3>2 DEF AllSaved
    <3> QED
      BY <1>0, <1>1, <1>4, <3>1, <3>2, <3>3, <3>4, <3>5, <3>6, StepWrites
  <2> QED
    BY <2>1, <2>2
<1> QED
  BY <1>7, <1>8, <1>9, <1>10, <1>11, <1>12, <1>13, <1>14, <1>15, <1>16, <1>17 DEF Work

-----------------------------------------------------------------------------
\* Steps of nobody's request

LEMMA StepOthers ==
  ASSUME ConstantsOK, Inv, ChangePaper \/ OperatorFails
  PROVE  Inv'
<1>1. TypeInv' /\ UNCHANGED <<request, queue, worker>>
  BY TypeOthers DEF Inv, ChangePaper, OperatorFails
<1>2. record \in Record
  BY DEF Inv, TypeInv, TypeOK
<1>3. CASE record' = record
  BY <1>1, <1>3 DEF Inv, RequestInv, RequestOK, RecordInv, FreeInv, KnowsInv, Knows, AllSaved
<1>4. CASE record' # record
  <2>1. record.status \in {"queued", "processing"} /\ record' = [record EXCEPT !.status = "failed"]
    BY <1>4 DEF ChangePaper, OperatorFails
  <2>2. /\ record'.status = "failed" /\ record'.attempt = record.attempt
        /\ record'.raw = record.raw /\ record'.batches = record.batches
    BY <1>2, <2>1 DEF Record
  <2>3. RequestInv'
    BY <1>1, <2>1, <2>2 DEF Inv, RequestInv, RequestOK
  <2>4. RecordInv'
    BY <1>1, <2>1, <2>2 DEF Inv, RecordInv
  <2>5. FreeInv'
    BY <1>1, <2>2 DEF Inv, FreeInv, AllSaved
  <2>6. KnowsInv'
    BY <1>1, <2>2 DEF Inv, KnowsInv, Knows
  <2> QED
    BY <1>1, <2>3, <2>4, <2>5, <2>6 DEF Inv
<1> QED
  BY <1>3, <1>4

LEMMA StepInv ==
  ASSUME ConstantsOK, Inv, [Next]_vars
  PROVE  Inv'
<1>1. ASSUME NEW r \in Requests, NEW retry \in BOOLEAN, NEW regenerate \in BOOLEAN,
             Ask(r, retry, regenerate)
      PROVE  Inv'
  BY <1>1, StepAsk
<1>2. ASSUME NEW r \in Requests, Claim(r) PROVE Inv'
  BY <1>2, StepClaim
<1>3. ASSUME NEW r \in Requests, Dispatch(r) \/ RequestDies(r) PROVE Inv'
  BY <1>3, StepRequest
<1>4. ASSUME NEW r \in Requests, Deliver(r) PROVE Inv'
  BY <1>4, StepDeliver
<1>5. ASSUME NEW r \in Requests, Work(r) \/ Break(r) \/ Kill(r) PROVE Inv'
  BY <1>5, StepWork
<1>6. CASE ChangePaper \/ OperatorFails
  BY <1>6, StepOthers
<1>7. CASE UNCHANGED vars
  BY <1>7 DEF vars, Inv, TypeInv, TypeOK, WorkerInv, RequestInv, RequestOK, RecordInv, FreeInv,
              KnowsInv, Knows, AllSaved
<1> QED
  BY <1>1, <1>2, <1>3, <1>4, <1>5, <1>6, <1>7 DEF Next

-----------------------------------------------------------------------------
\* The theorems

\* Every variable keeps its type.
THEOREM SuggestionTypes ==
  ASSUME ConstantsOK
  PROVE  Spec => []TypeOK
<1>1. Inv => TypeOK
  BY DEF Inv, TypeInv
<1>2. Inv /\ [Next]_vars => Inv'
  BY StepInv
<1>3. Init => Inv
  BY InitInv
<1> QED
  BY <1>1, <1>2, <1>3, PTL DEF Spec

\* A retry that passed neither rate limit nor budget buys nothing, whatever an
\* operator or the worker of the attempt it replaces does meanwhile.
THEOREM FreeRetry ==
  ASSUME ConstantsOK
  PROVE  Spec => []FreeRetryBuysNothing
<1>1. Inv => FreeRetryBuysNothing
  BY DEF Inv, FreeInv, FreeRetryBuysNothing
<1>2. Inv /\ [Next]_vars => Inv'
  BY StepInv
<1>3. Init => Inv
  BY InitInv
<1> QED
  BY <1>1, <1>2, <1>3, PTL DEF Spec

\* A completed suggestion was put together from one whole response per batch.
THEOREM CompletedWhole ==
  ASSUME ConstantsOK
  PROVE  Spec => []CompletedIsWhole
<1>1. Inv => CompletedIsWhole
  BY DEF Inv, RecordInv, CompletedIsWhole
<1>2. Inv /\ [Next]_vars => Inv'
  BY StepInv
<1>3. Init => Inv
  BY InitInv
<1> QED
  BY <1>1, <1>2, <1>3, PTL DEF Spec

\* A worker of an attempt that is not the record's leaves the record alone.
LEMMA StepFenced ==
  ASSUME ConstantsOK, Inv, [Next]_vars
  PROVE  FencedStep
<1>1. CASE UNCHANGED vars
  BY <1>1 DEF vars, FencedStep
<1>2. CASE Next
  <2> SUFFICES ASSUME NEW r \in Requests, worker'[r] # worker[r], record.attempt # r
               PROVE  record' = record
    BY DEF FencedStep
  <2>1. worker \in [Requests -> Worker]
    BY DEF Inv, TypeInv, TypeOK
  <2>2. worker' # worker
    OBVIOUS
  <2>3. PICK x \in Requests : Deliver(x) \/ Work(x) \/ Break(x) \/ Kill(x)
    BY <1>2, <2>2 DEF Next, Ask, Claim, Dispatch, RequestDies, ChangePaper, OperatorFails
  <2>4. \A y \in Requests \ {x} : worker'[y] = worker[y]
    BY <2>1, <2>3 DEF Deliver, Work, Verify, Load, Recheck, LoadBatch, Buy, Respond, StoreBatch,
                      ValidateBatch, Combine, Complete, ReportFailure, Break, Kill, Step
  <2>5. x = r
    BY <2>4
  <2>6. ~Active(r) /\ ~(record.attempt = r /\ record.status = "queued")
    BY DEF Active
  <2> QED
    BY <2>3, <2>5, <2>6 DEF Deliver, Work, Verify, Load, Recheck, LoadBatch, Buy, Respond,
               StoreBatch, ValidateBatch, Combine, Complete, ReportFailure, Break, Kill
<1> QED
  BY <1>1, <1>2

\* The worker of an attempt that was replaced changes the record no more.
THEOREM Fenced ==
  ASSUME ConstantsOK
  PROVE  Spec => [][FencedStep]_vars
<1>1. Inv /\ [Next]_vars => [FencedStep]_vars
  BY StepFenced
<1>2. Inv /\ [Next]_vars => Inv'
  BY StepInv
<1>3. Init => Inv
  BY InitInv
<1> QED
  BY <1>1, <1>2, <1>3, PTL DEF Spec

-----------------------------------------------------------------------------
\* With an operator who fails only attempts nothing works on, the attempts
\* implement PaidBatches.

Paid == INSTANCE PaidBatches WITH saved <- SavedBatches, buying <- BuyingBatches

\* Whoever works does so for the attempt that is recorded.
Alone ==
  \A r \in Requests : worker[r].at \notin {"none", "gone"} =>
    record.attempt = r /\ record.status = "processing"

LEMMA InitAlone == Init => Alone
BY DEF Init, Alone

LEMMA StepAlone ==
  ASSUME ConstantsOK, Careful, Inv, Alone, [Next]_vars
  PROVE  Alone'
<1>0. record \in Record /\ worker \in [Requests -> Worker] /\ None \notin Requests
  BY Constants DEF Inv, TypeInv, TypeOK
<1>1. CASE UNCHANGED <<record, worker>>
  BY <1>1 DEF Alone
<1>2. ASSUME NEW r \in Requests, Claim(r) PROVE Alone'
  <2>1. CASE UNCHANGED record
    BY <1>1, <1>2, <2>1 DEF Claim
  <2>2. CASE ~UNCHANGED record
    <3>1. Claimable(r) /\ worker' = worker
      BY <1>2, <2>2 DEF Claim
    <3>2. record.status # "processing"
      BY <3>1 DEF Claimable
    <3> QED
      BY <3>1, <3>2 DEF Alone
  <2> QED
    BY <2>1, <2>2
<1>3. ASSUME NEW r \in Requests, Deliver(r) PROVE Alone'
  <2>1. CASE UNCHANGED <<record, worker>>
    BY <1>1, <2>1
  <2>2. CASE ~UNCHANGED <<record, worker>>
    <3>1. /\ record.attempt = r /\ record.status = "queued"
          /\ record' = [record EXCEPT !.status = "processing"]
          /\ worker' = [worker EXCEPT ![r].at = "start"]
      BY <1>3, <2>2 DEF Deliver, Step
    <3>2. record'.status = "processing" /\ record'.attempt = r
      BY <1>0, <3>1 DEF Record
    <3>3. \A x \in Requests \ {r} : worker'[x] = worker[x] /\ worker[x].at \in {"none", "gone"}
      BY <1>0, <3>1 DEF Alone
    <3> QED
      BY <3>2, <3>3 DEF Alone
  <2> QED
    BY <2>1, <2>2
<1>4. ASSUME NEW r \in Requests, Work(r) \/ Break(r) \/ Kill(r) PROVE Alone'
  <2>1. worker[r].at \notin {"none", "gone"}
    BY <1>4 DEF Work, Verify, Load, Recheck, LoadBatch, Buy, Respond, StoreBatch, ValidateBatch,
                Combine, Complete, ReportFailure, Break, Kill
  <2>2. record.attempt = r /\ record.status = "processing"
    BY <2>1 DEF Alone
  <2>3. \A x \in Requests \ {r} : worker[x].at \in {"none", "gone"}
    BY <2>2 DEF Alone
  <2>4. \A x \in Requests \ {r} : worker'[x] = worker[x]
    BY <1>0, <1>4 DEF Work, Verify, Load, Recheck, LoadBatch, Buy, Respond, StoreBatch,
                ValidateBatch, Combine, Complete, ReportFailure, Break, Kill, Step
  <2>5. worker'[r].at = "gone" \/ (record'.attempt = r /\ record'.status = "processing")
    <3>1. CASE Complete(r) \/ ReportFailure(r)
      BY <1>0, <2>2, <3>1 DEF Complete, ReportFailure, Step, Worker
    <3>2. CASE StoreBatch(r) \/ ValidateBatch(r) \/ Combine(r)
      BY <1>0, <2>2, <3>2 DEF StoreBatch, ValidateBatch, Combine, Record
    <3> QED
      BY <1>4, <2>2, <3>1, <3>2 DEF Work, Verify, Load, Recheck, LoadBatch, Buy, Respond, Break, Kill
  <2> QED
    BY <2>3, <2>4, <2>5 DEF Alone
<1>5. CASE OperatorFails
  <2>1. /\ worker' = worker /\ record.status \in {"queued", "processing"}
        /\ worker[record.attempt].at \in {"none", "gone"}
    BY <1>5 DEF OperatorFails
  <2> QED
    BY <2>1 DEF Alone
<1> QED
  BY <1>1, <1>2, <1>3, <1>4, <1>5
  DEF Next, vars, Ask, Dispatch, RequestDies, ChangePaper

Buys(r) == worker[r].at \in {"calling", "store"}

\* What is being bought: the batch of the one worker that buys.
LEMMA BoughtNow ==
  ASSUME Alone, NEW r \in Requests, record.attempt = r
  PROVE  BuyingBatches = IF Buys(r) THEN {worker[r].batch} ELSE {}
<1>1. \A x \in Requests : worker[x].at \in {"calling", "store"} => x = r
  BY DEF Alone
<1> QED
  BY <1>1 DEF BuyingBatches, Buys

LEMMA InitPaid ==
  ASSUME Init
  PROVE  Paid!PaidInit
<1>1. SavedBatches = {}
  BY DEF Init, SavedBatches, Empty
<1>2. BuyingBatches = {}
  BY DEF Init, BuyingBatches
<1> QED
  BY <1>1, <1>2 DEF Paid!PaidInit

LEMMA StepPaid ==
  ASSUME ConstantsOK, Careful, Inv, Alone, Alone', [Next]_vars
  PROVE  [Paid!PaidNext]_<<SavedBatches, BuyingBatches>>
<1>0. record \in Record /\ worker \in [Requests -> Worker]
  BY DEF Inv, TypeInv, TypeOK
<1>1. CASE UNCHANGED worker /\ record'.batches = record.batches
  BY <1>1 DEF SavedBatches, BuyingBatches
<1>2. ASSUME NEW r \in Requests, Claim(r) PROVE [Paid!PaidNext]_<<SavedBatches, BuyingBatches>>
  <2>1. CASE record'.batches = record.batches
    BY <1>1, <1>2, <2>1 DEF Claim
  <2>2. CASE record'.batches # record.batches
    <3>1. Claimable(r) /\ record' = Claimed(r) /\ worker' = worker
      BY <1>2, <2>2 DEF Claim
    <3>2. record'.batches = Empty /\ record.status # "processing"
      BY <2>2, <3>1 DEF Claimed, Claimable
    <3>3. SavedBatches' = {}
      BY <3>2 DEF SavedBatches, Empty
    <3>4. BuyingBatches = {} /\ BuyingBatches' = {}
      BY <3>1, <3>2 DEF Alone, BuyingBatches
    <3> QED
      BY <3>3, <3>4 DEF Paid!PaidNext, Paid!Regenerate
  <2> QED
    BY <2>1, <2>2
<1>3. ASSUME NEW r \in Requests, Deliver(r) PROVE [Paid!PaidNext]_<<SavedBatches, BuyingBatches>>
  <2>1. CASE UNCHANGED <<record, worker>>
    BY <1>1, <2>1
  <2>2. CASE ~UNCHANGED <<record, worker>>
    <3>1. /\ record.attempt = r /\ record.status = "queued"
          /\ record' = [record EXCEPT !.status = "processing"]
          /\ worker' = [worker EXCEPT ![r].at = "start"]
      BY <1>3, <2>2 DEF Deliver, Step
    <3>2. record'.attempt = r /\ record'.batches = record.batches /\ worker'[r].at = "start"
      BY <1>0, <3>1 DEF Record, Worker
    <3>3. BuyingBatches = {}
      BY <3>1 DEF Alone, BuyingBatches
    <3>4. BuyingBatches' = {}
      BY <3>2 DEF Alone, BuyingBatches
    <3> QED
      BY <3>2, <3>3, <3>4 DEF SavedBatches
  <2> QED
    BY <2>1, <2>2
<1>4. ASSUME NEW r \in Requests, Work(r) \/ Break(r) \/ Kill(r)
      PROVE  [Paid!PaidNext]_<<SavedBatches, BuyingBatches>>
  <2>1. worker[r].at \notin {"none", "gone"}
    BY <1>4 DEF Work, Verify, Load, Recheck, LoadBatch, Buy, Respond, StoreBatch, ValidateBatch,
                Combine, Complete, ReportFailure, Break, Kill
  <2>2. record.attempt = r /\ Active(r) /\ Knows(worker[r])
    BY <2>1 DEF Alone, Active, Inv, KnowsInv
  <2>3. record'.attempt = r
    BY <1>0, <1>4, <2>2 DEF Work, Verify, Load, Recheck, LoadBatch, Buy, Respond, StoreBatch,
       ValidateBatch, Combine, Complete, ReportFailure, Break, Kill, Record
  <2>4. BuyingBatches = IF Buys(r) THEN {worker[r].batch} ELSE {}
    BY <2>2, BoughtNow
  <2>5. BuyingBatches' = IF worker'[r].at \in {"calling", "store"} THEN {worker'[r].batch} ELSE {}
    <3>1. \A x \in Requests : worker'[x].at \in {"calling", "store"} => x = r
      BY <2>3 DEF Alone
    <3> QED
      BY <3>1 DEF BuyingBatches
  <2>6. worker[r].at \in AtBatch => worker[r].batch \in Batches
    BY DEF Inv, TypeInv, WorkerInv
  \* A step that buys nothing, and one that ends a purchase.
  <2>7. ASSUME record'.batches = record.batches, ~Buys(r), worker'[r].at \notin {"calling", "store"}
        PROVE  [Paid!PaidNext]_<<SavedBatches, BuyingBatches>>
    BY <2>4, <2>5, <2>7 DEF SavedBatches
  <2>8. ASSUME record'.batches = record.batches, Buys(r), worker'[r].at \notin {"calling", "store"}
        PROVE  [Paid!PaidNext]_<<SavedBatches, BuyingBatches>>
    <3>1. worker[r].batch \in Batches
      BY <2>6, <2>8 DEF Buys, AtBatch
    <3>2. SavedBatches' = SavedBatches /\ BuyingBatches = {worker[r].batch} /\ BuyingBatches' = {}
      BY <2>4, <2>5, <2>8 DEF SavedBatches
    <3>3. Paid!Lose(worker[r].batch)
      BY <3>2 DEF Paid!Lose
    <3> QED
      BY <3>1, <3>3 DEF Paid!PaidNext
  <2>9. CASE Buy(r)
    <3>1. worker[r].at = "buy" /\ record' = record /\ worker[r].batch \in Batches
      BY <2>6, <2>9 DEF Buy, AtBatch
    <3>2. CASE worker'[r].at \notin {"calling", "store"}
      BY <2>7, <3>1, <3>2 DEF Buys
    <3>3. CASE worker'[r].at \in {"calling", "store"}
      <4>1. worker' = [worker EXCEPT ![r].at = "calling", ![r].bought = @ \cup {worker[r].batch}]
        BY <1>0, <2>9, <3>3 DEF Buy, Step, Worker
      <4>2. worker'[r].batch = worker[r].batch
        BY <1>0, <4>1 DEF Worker
      <4>3. worker[r].batch \notin SavedBatches
        BY <2>2, <3>1 DEF Knows, SavedBatches
      <4>4. /\ SavedBatches' = SavedBatches /\ BuyingBatches = {}
            /\ BuyingBatches' = {worker[r].batch}
        BY <2>4, <2>5, <3>1, <3>3, <4>2 DEF SavedBatches, Buys
      <4>5. Paid!Buy(worker[r].batch)
        BY <4>3, <4>4 DEF Paid!Buy
      <4> QED
        BY <3>1, <4>5 DEF Paid!PaidNext
    <3> QED
      BY <3>2, <3>3
  <2>10. CASE Respond(r)
    <3>1. worker[r].at = "calling" /\ record' = record
      BY <2>10 DEF Respond
    <3>2. CASE worker'[r].at \notin {"calling", "store"}
      BY <2>8, <3>1, <3>2 DEF Buys
    <3>3. CASE worker'[r].at \in {"calling", "store"}
      <4>1. worker'[r].batch = worker[r].batch
        BY <1>0, <2>10 DEF Respond, Step, Worker
      <4> QED
        BY <2>4, <2>5, <3>1, <3>3, <4>1 DEF SavedBatches, Buys
    <3> QED
      BY <3>2, <3>3
  <2>11. CASE StoreBatch(r)
    <3>1. /\ worker[r].at = "store" /\ worker[r].batch \in Batches /\ worker[r].got # "none"
          /\ record' = [record EXCEPT !.batches[worker[r].batch] = worker[r].got]
          /\ worker' = [worker EXCEPT ![r].at = "validate"]
      BY <2>2, <2>6, <2>11 DEF StoreBatch, Step, AtBatch, Inv, TypeInv, WorkerInv
    <3>2. /\ record'.batches = [record.batches EXCEPT ![worker[r].batch] = worker[r].got]
          /\ record.batches \in [Batches -> Responses] /\ worker'[r].at = "validate"
      BY <1>0, <3>1 DEF Record, Worker
    <3>3. SavedBatches' = SavedBatches \cup {worker[r].batch}
      BY <3>1, <3>2 DEF SavedBatches
    <3>4. BuyingBatches = {worker[r].batch} /\ BuyingBatches' = {}
      BY <2>4, <2>5, <3>1, <3>2 DEF Buys
    <3>5. Paid!Store(worker[r].batch)
      BY <3>3, <3>4 DEF Paid!Store
    <3> QED
      BY <3>1, <3>5 DEF Paid!PaidNext
  <2>12. CASE Break(r) \/ Kill(r)
    <3>1. record' = record /\ worker'[r].at \in {"broken", "gone"}
      BY <1>0, <2>12 DEF Break, Kill, Step, Worker
    <3> QED
      BY <2>7, <2>8, <3>1
  <2>13. CASE Verify(r) \/ Load(r) \/ Recheck(r) \/ LoadBatch(r)
    <3>1. record' = record /\ ~Buys(r)
      BY <2>13 DEF Verify, Load, Recheck, LoadBatch, Buys
    <3>2. worker'[r].at \notin {"calling", "store"}
      BY <1>0, <2>13 DEF Verify, Load, Recheck, LoadBatch, Step, Worker
    <3> QED
      BY <2>7, <3>1, <3>2
  <2>14. CASE ValidateBatch(r) \/ Combine(r) \/ Complete(r) \/ ReportFailure(r)
    <3>1. ~Buys(r)
      BY <2>14 DEF ValidateBatch, Combine, Complete, ReportFailure, Buys
    <3>2. worker'[r].at \notin {"calling", "store"}
      BY <1>0, <2>14 DEF ValidateBatch, Combine, Complete, ReportFailure, Step, Worker
    <3>3. record'.batches = record.batches
      BY <1>0, <2>14 DEF ValidateBatch, Combine, Complete, ReportFailure, Record
    <3> QED
      BY <2>7, <3>1, <3>2, <3>3
  <2> QED
    BY <1>4, <2>9, <2>10, <2>11, <2>12, <2>13, <2>14 DEF Work
<1>5. CASE OperatorFails
  BY <1>0, <1>1, <1>5 DEF OperatorFails, Record
<1> QED
  BY <1>1, <1>2, <1>3, <1>4, <1>5
  DEF Next, vars, Ask, Dispatch, RequestDies, ChangePaper

\* The property of MCPapers, for this component.
BatchesBoughtOnce == Paid!PaidSpec

\* The attempts at the suggestions of a paper implement PaidBatches: two workers
\* never buy the same batch, and what is saved is not bought again, for any
\* number of requests, batches, redeliveries and kills.
THEOREM ImplementsPaidBatches ==
  ASSUME ConstantsOK, Careful
  PROVE  Spec => BatchesBoughtOnce
<1>1. Init => Inv /\ Alone /\ Paid!PaidInit
  BY InitInv, InitAlone, InitPaid
<1>2. Inv /\ Alone /\ [Next]_vars => Inv' /\ Alone'
  BY StepInv, StepAlone
<1>3. Inv /\ Alone /\ Alone' /\ [Next]_vars => [Paid!PaidNext]_<<SavedBatches, BuyingBatches>>
  BY StepPaid
<1> QED
  BY <1>1, <1>2, <1>3, PTL DEF Spec, BatchesBoughtOnce, Paid!PaidSpec
=============================================================================
