----------------------------- MODULE RateLimit -----------------------------
(***************************************************************************)
(* A fixed-window counter in Redis: SET NX EX and INCR, sent together but  *)
(* executed as two commands between which the key may expire.              *)
(***************************************************************************)
EXTENDS Naturals, FiniteSets

CONSTANTS
    Requests,   \* requests of one user or address
    Limit,      \* requests per window
    Window,     \* WINDOW_SECONDS
    Horizon     \* bound on the clock

\* What the constants of an instance satisfy.
ConstantsOK ==
  /\ Limit \in Nat
  /\ Window \in Nat \ {0}
  /\ Horizon \in Nat

Never == Horizon + Window + 1

VARIABLES
    now,
    key,        \* the counter and when it expires
    request,    \* what each request has done
    admitted    \* requests admitted under the present key (history)

vars == <<now, key, request, admitted>>

Absent == [count |-> 0, until |-> 0]

Init ==
    /\ now = 0
    /\ key = Absent
    /\ request = [r \in Requests |-> "new"]
    /\ admitted = {}

Exists == now < key.until

Goes(r, to) == request' = [request EXCEPT ![r] = to]

SetIfAbsent == IF Exists THEN key ELSE [count |-> 0, until |-> now + Window]

\* SET key 0 EX window NX
Set(r) ==
    /\ request[r] = "new"
    /\ key' = SetIfAbsent
    /\ admitted' = IF Exists THEN admitted ELSE {}
    /\ Goes(r, "set")
    /\ UNCHANGED now

\* INCR creates the key, without an expiry, when it is gone.
Incremented ==
    IF Exists THEN [key EXCEPT !.count = @ + 1] ELSE [count |-> 1, until |-> Never]

Incr(r) ==
    /\ request[r] = "set"
    /\ key' = Incremented
    /\ LET allowed == Incremented.count <= Limit IN
       /\ Goes(r, IF allowed THEN "admitted" ELSE "refused")
       /\ admitted' = (IF Exists THEN admitted ELSE {}) \cup (IF allowed THEN {r} ELSE {})
    /\ UNCHANGED now

Tick ==
    /\ now < Horizon
    /\ now' = now + 1
    /\ UNCHANGED <<key, request, admitted>>

Next == Tick \/ \E r \in Requests : Set(r) \/ Incr(r)

Spec == Init /\ [][Next]_vars

-----------------------------------------------------------------------------

Counted == {r \in Requests : request[r] \in {"admitted", "refused"}}

TypeOK ==
    /\ now \in 0..Horizon
    /\ key \in [count: 0..Cardinality(Counted), until: 0..Never]
    /\ request \in [Requests -> {"new", "set", "admitted", "refused"}]
    /\ admitted \subseteq Requests

\* However the commands of several requests interleave, no window admits more
\* than Limit of them.
LimitPerWindow == Cardinality(admitted) <= Limit

-----------------------------------------------------------------------------
\* What the documentation says beyond this and the code does not keep: the model
\* has behaviours against it (README, "Divergences").

\* "The TTL is now atomically tied to key creation ... there's no race window":
\* a counter always expires.
CounterExpires == key.until # Never
=============================================================================
