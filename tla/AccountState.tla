---------------------------- MODULE AccountState ----------------------------
(***************************************************************************)
(* What every request checks of the account that makes it.                 *)
(*                                                                         *)
(* The user document is looked up through a cache in Redis that lives TTL  *)
(* seconds; a session is a token that is valid for Life seconds and that a *)
(* revocation recorded in Redis ends before.  Writers change the document  *)
(* first and tell Redis afterwards, a request may store what it looked up  *)
(* before, and a Redis operation that fails is ignored.  A read that fails *)
(* finds nothing against the request: the check fails open.                *)
(***************************************************************************)
EXTENDS Integers, Sequences, FiniteSets

CONSTANTS
    Requests,   \* requests of one user
    Tokens,     \* sessions of the user
    TTL,        \* ACCOUNT_STATE_TTL
    Life,       \* JWT_ACCESS_TOKEN_EXPIRE_DAYS
    MaxDelay,   \* bound on the time from a lookup to its store in the cache
    Horizon,    \* bound on the clock
    MaxEvents,  \* bound on account changes and failures of Redis and MongoDB together
    None

\* What the constants of an instance satisfy.
ConstantsOK ==
  /\ TTL \in Nat
  /\ Life \in Nat
  /\ MaxDelay \in Nat
  /\ Horizon \in Nat
  /\ MaxEvents \in Nat

VARIABLES
    now,
    user,       \* is_active, is_deleted and must_change_password of the document
    cache,      \* acctstate:<user>
    revoked,    \* revoked_before:<user>: the tokens issued before the cutoff
    token,      \* when each token was issued
    request,    \* what each request has read and decided
    writer,     \* what a writer still has to tell Redis
    past,       \* states of the account in every second (history)
    ended,      \* tokens whose revocation was recorded (history)
    events      \* account changes and failures so far

vars == <<now, user, cache, revoked, token, request, writer, past, ended, events>>

State == [blocked: BOOLEAN, must: BOOLEAN]
Gone == [blocked |-> TRUE, must |-> FALSE]

NoEntry == [state |-> Gone, until |-> 0]
NoRevocation == [tokens |-> {}, until |-> 0]

Request == [at: {"idle", "lookup", "store", "cutoff", "admitted", "denied", "password"},
            token: Tokens \cup {None}, state: State, since: 0..Horizon,
            unread: SUBSET {"account", "cutoff"},   \* what it could not read (history)
            late: BOOLEAN, told: BOOLEAN]

\* Nothing is known against the account.
Unknown == [blocked |-> FALSE, must |-> FALSE]

Free == [at |-> "idle", token |-> None, state |-> Gone, since |-> 0, unread |-> {},
         late |-> FALSE, told |-> FALSE]

Init ==
    /\ now = 0
    /\ user \in [blocked: {FALSE}, must: BOOLEAN]
    /\ cache = NoEntry
    /\ revoked = NoRevocation
    /\ token = [t \in Tokens |-> None]
    /\ request = [r \in Requests |-> Free]
    /\ writer = <<>>
    /\ past = [t \in 0..Horizon |-> IF t = 0 THEN {user} ELSE {}]
    /\ ended = {}
    /\ events = 0

Goes(r, next) == request' = [request EXCEPT ![r] = next]

-----------------------------------------------------------------------------
\* get_current_identity

Valid(t) == token[t] # None /\ now < token[t] + Life

Fails == events < MaxEvents /\ events' = events + 1

\* decode_access_token and get_cached_account_state, whose failure is a miss.
Start(r, t) ==
    /\ request[r].at \notin {"lookup", "store", "cutoff"} /\ Valid(t)
    /\ \E hit \in BOOLEAN :
         /\ hit => now < cache.until
         /\ Goes(r, [at |-> IF hit THEN "cutoff" ELSE "lookup", token |-> t,
                     state |-> cache.state, since |-> now, unread |-> {}, late |-> t \in ended,
                     told |-> writer = <<>> /\ ~user.must /\ ~user.blocked])
         /\ IF ~hit /\ now < cache.until THEN Fails ELSE UNCHANGED events
    /\ UNCHANGED <<now, user, cache, revoked, token, writer, past, ended>>

\* _resolve_account_state: a state it could not look up is not stored either.
Lookup(r) ==
    /\ request[r].at = "lookup"
    /\ \/ /\ Goes(r, [request[r] EXCEPT !.at = "store", !.state = user, !.since = now])
          /\ UNCHANGED events
       \/ /\ Fails
          /\ Goes(r, [request[r] EXCEPT !.at = "cutoff", !.state = Unknown, !.since = now,
                                        !.unread = @ \cup {"account"}])
    /\ UNCHANGED <<now, user, cache, revoked, token, writer, past, ended>>

\* An operation on Redis takes effect, or fails unnoticed.
Redis(effect) == \/ effect /\ UNCHANGED events
                 \/ Fails /\ UNCHANGED <<cache, revoked, ended>>

Expiry == now + TTL

\* set_cached_account_state
Store(r) ==
    /\ request[r].at = "store"
    /\ Redis(/\ cache' = [state |-> request[r].state, until |-> Expiry]
             /\ UNCHANGED <<revoked, ended>>)
    /\ Goes(r, [request[r] EXCEPT !.at = "cutoff"])
    /\ UNCHANGED <<now, user, token, writer, past>>

Over(r, to, unread) ==
    Goes(r, [request[r] EXCEPT !.at = to, !.state = Gone, !.since = 0, !.unread = @ \cup unread])

Ended(r) == now < revoked.until /\ request[r].token \in revoked.tokens
Accepted(q) == IF q.state.must THEN "password" ELSE "admitted"

\* The account, the cutoff (tokens_revoked_after), and the pending password
\* change, in this order.  A cutoff that cannot be read is none.
Decide(r) ==
    /\ request[r].at = "cutoff"
    /\ LET q == request[r] IN
       \/ /\ q.state.blocked \/ Ended(r)
          /\ Over(r, "denied", {}) /\ UNCHANGED events
       \/ /\ ~q.state.blocked /\ ~Ended(r)
          /\ Over(r, Accepted(q), {}) /\ UNCHANGED events
       \/ /\ ~q.state.blocked /\ Ended(r)
          /\ Over(r, Accepted(q), {"cutoff"}) /\ Fails
    /\ UNCHANGED <<now, user, cache, revoked, token, writer, past, ended>>

-----------------------------------------------------------------------------
\* Sessions and account changes

Login(t) ==
    /\ token[t] = None /\ ~user.blocked
    /\ token' = [token EXCEPT ![t] = now]
    /\ UNCHANGED <<now, user, cache, revoked, request, writer, past, ended, events>>

Write(state, rest) ==
    /\ writer = <<>> /\ events < MaxEvents
    /\ events' = events + 1
    /\ user' = state
    /\ past' = [past EXCEPT ![now] = @ \cup {state}]
    /\ writer' = rest
    /\ UNCHANGED <<now, cache, revoked, token, request, ended>>

\* The superadmin's updates and cascade_institute_status.
SetActive(active) ==
    user # Gone /\ Write([user EXCEPT !.blocked = ~active], <<"bust">>)

ChangePassword == ~user.blocked /\ Write([user EXCEPT !.must = FALSE], <<"revoke", "bust">>)

\* delete_scoped_student tells Redis, the deletion of a learner does not.
DeleteUser == \E rest \in {<<>>, <<"revoke", "bust">>} : Write(Gone, rest)

Logout == Write(user, <<"revoke">>)

Issued == {t \in Tokens : token[t] # None}

\* Mutant: a revocation is forgotten with the cached account.
Revocation_Short == [tokens |-> Issued, until |-> now + TTL]

Revocation == [tokens |-> Issued, until |-> now + Life]

Revoke ==
    /\ writer # <<>> /\ Head(writer) = "revoke"
    /\ Redis(revoked' = Revocation /\ ended' = ended \cup Issued /\ UNCHANGED cache)
    /\ writer' = Tail(writer)
    /\ UNCHANGED <<now, user, token, request, past>>

Bust ==
    /\ writer # <<>> /\ Head(writer) = "bust"
    /\ Redis(cache' = NoEntry /\ UNCHANGED <<revoked, ended>>)
    /\ writer' = Tail(writer)
    /\ UNCHANGED <<now, user, token, request, past>>

InTime(r) == request[r].at = "store" => now < request[r].since + MaxDelay

Tick ==
    /\ now < Horizon
    /\ \A r \in Requests : InTime(r)
    /\ now' = now + 1
    /\ past' = [past EXCEPT ![now + 1] = {user}]
    /\ UNCHANGED <<user, cache, revoked, token, request, writer, ended, events>>

Next ==
    \/ \E r \in Requests : \/ \E t \in Tokens : Start(r, t)
                           \/ Lookup(r) \/ Store(r) \/ Decide(r)
    \/ \E t \in Tokens : Login(t)
    \/ \E active \in BOOLEAN : SetActive(active)
    \/ ChangePassword \/ DeleteUser \/ Logout
    \/ Revoke \/ Bust
    \/ Tick

Spec == Init /\ [][Next]_vars

-----------------------------------------------------------------------------
\* Properties

TypeOK ==
    /\ now \in 0..Horizon
    /\ user \in State
    /\ cache \in [state: State, until: 0..Horizon + TTL]
    /\ revoked \in [tokens: SUBSET Tokens, until: 0..Horizon + Life]
    /\ token \in [Tokens -> 0..Horizon \cup {None}]
    /\ request \in [Requests -> Request]
    /\ writer \in {<<>>, <<"bust">>, <<"revoke">>, <<"revoke", "bust">>}
    /\ past \in [0..Horizon -> SUBSET State]
    /\ ended \subseteq Tokens
    /\ events \in 0..MaxEvents

\* Whatever writes Redis lost and whoever stored late: unless the account could
\* not be read at all, a request is decided on a state the account had within
\* the last TTL and MaxDelay seconds ("takes effect within this window").
DecidedOnRecentState ==
    \A r \in Requests :
        request[r].at = "cutoff" /\ "account" \notin request[r].unread =>
            \E t \in 0..Horizon : /\ request[r].since - TTL - MaxDelay <= t /\ t <= now
                                  /\ request[r].state \in past[t]

\* A session that ended, by a logout, a new password or a deletion, never
\* returns: while its token is valid, no request that starts after Redis was
\* told is admitted, but one whose own read of the cutoff failed ("a Redis
\* outage must not lock every user out").
EndedStaysEnded ==
    \A r \in Requests :
        request[r].late /\ Valid(request[r].token) /\ "cutoff" \notin request[r].unread
            => request[r].at \notin {"admitted", "password"}

-----------------------------------------------------------------------------
\* What the documentation says beyond this and the code does not keep: the model
\* has behaviours against it (README, "Divergences").

\* "So the next login isn't blocked by a stale flag": a request that starts when
\* a changed password has been told to Redis need not change it again.
FlagIsDropped ==
    \A r \in Requests : request[r].told => request[r].at # "password"
=============================================================================
