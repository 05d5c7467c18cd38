-------------------------- MODULE MCJobSubmission --------------------------
(* Small instances: who sends the requests, and which of them are alike. *)
EXTENDS JobSubmission, TLC

CONSTANTS alice, r1, r2, r3

\* Every request comes from one faculty member, who alone may be reconnected.
SameUser == [r \in Requests |-> alice]

\* Requests of one user are interchangeable.
RequestSymmetry == Permutations(Requests)
=============================================================================
