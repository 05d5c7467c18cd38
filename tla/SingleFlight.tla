---------------------------- MODULE SingleFlight ----------------------------
(***************************************************************************)
(* What the submission of billed jobs promises: two jobs of one submission *)
(* never start provider calls together, and a job is never started again.  *)
(* A job whose outcome is unknown simply stays in flight: nothing else is  *)
(* started until somebody settles it.  It does not promise that the calls  *)
(* of a settled job have ended; but no new ones follow, and each of those  *)
(* that are late ends for good.                                            *)
(***************************************************************************)
CONSTANT Jobs

VARIABLES
    inflight,       \* jobs that may still start provider calls
    settled,        \* jobs that start none any more
    late            \* settled jobs with a call that has not ended

sfvars == <<inflight, settled, late>>

Init == inflight = {} /\ settled = {} /\ late = {}

Start(j) ==
    /\ inflight = {}
    /\ j \notin settled
    /\ inflight' = {j}
    /\ UNCHANGED <<settled, late>>

Settle(j) ==
    /\ j \in inflight
    /\ inflight' = inflight \ {j}
    /\ settled' = settled \cup {j}
    /\ late' \in {late, late \cup {j}}

LastCallEnds(j) ==
    /\ j \in late
    /\ late' = late \ {j}
    /\ UNCHANGED <<inflight, settled>>

Next == \E j \in Jobs : Start(j) \/ Settle(j) \/ LastCallEnds(j)

Spec == Init /\ [][Next]_sfvars
=============================================================================
