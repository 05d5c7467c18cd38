---------------------------- MODULE PaidBatches ----------------------------
(***************************************************************************)
(* What the rubric suggestions of one paper promise about money: a batch   *)
(* is bought by one buyer at a time, and never while a response to it is   *)
(* saved.  Only an explicit regeneration forgets what is saved.            *)
(***************************************************************************)
CONSTANT Batches

VARIABLES saved, buying

PaidInit == saved = {} /\ buying = {}

Buy(b) == b \notin saved \cup buying /\ buying' = buying \cup {b} /\ UNCHANGED saved

Store(b) == b \in buying /\ buying' = buying \ {b} /\ saved' = saved \cup {b}

\* The call fails, its process dies, or the response is not accepted.
Lose(b) == b \in buying /\ buying' = buying \ {b} /\ UNCHANGED saved

Regenerate == buying = {} /\ saved' = {} /\ UNCHANGED buying

PaidNext == Regenerate \/ \E b \in Batches : Buy(b) \/ Store(b) \/ Lose(b)

PaidSpec == PaidInit /\ [][PaidNext]_<<saved, buying>>
=============================================================================
