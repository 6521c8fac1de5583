---------------------------- MODULE RateLimiter ----------------------------
(***************************************************************************)
(* RateLimitMiddleware (core/middleware.py): the requests one client makes *)
(* to one path share a Redis counter.  A request increments it; the one    *)
(* that finds 1 gives it its expiry, in a second command; a request that   *)
(* found more than the limit is answered 429.  Redis may fail at either    *)
(* command, and a request may be cancelled between the two.                *)
(***************************************************************************)
EXTENDS Sums, Sequences, SequencesExt

CONSTANTS
    Request,    \* the requests of one client that may be in flight together
    Limit,      \* RATE_LIMIT_REQUESTS
    Window,     \* RATE_LIMIT_WINDOW_SECONDS, in ticks
    NoExpiry    \* the counter has no TTL

ASSUME BoundsAreNat == Limit \in Nat /\ Window \in Nat \ {0}
ASSUME NoExpiryIsNoTime == NoExpiry \notin Nat

VARIABLES
    count,   \* the counter; 0 when the key does not exist
    ttl,     \* ticks until the key expires
    pc,      \* where each request is
    seen,    \* what INCR returned to it
    recent   \* history: requests the counter let pass in each of the last Window ticks

key == <<count, ttl>>
vars == <<count, ttl, pc, seen, recent>>

\* Every value above the limit is treated alike: the model stops counting
\* there, two above so that a limit of 0 is told from a new key.
Ceiling == Limit + 2
Succ(n) == IF n < Ceiling THEN n + 1 ELSE n

Init ==
    /\ count = 0
    /\ ttl = NoExpiry
    /\ pc = [r \in Request |-> "idle"]
    /\ seen = [r \in Request |-> 0]
    /\ recent = [i \in 1 .. Window |-> 0]

GoTo(r, p) == pc' = [pc EXCEPT ![r] = p]

\* Mutant: the limit is off by one.
PassesOneMore(n) == n <= Limit + 1

Passes(n) == n <= Limit

\* Mutant: every request renews the expiry.
IncrRenews(r) ==
    /\ pc[r] = "idle"
    /\ count' = Succ(count)
    /\ seen' = [seen EXCEPT ![r] = count']
    /\ recent' = IF Passes(count') THEN [recent EXCEPT ![1] = @ + 1] ELSE recent
    /\ GoTo(r, "expire")
    /\ UNCHANGED ttl

\* current = await redis.incr(key)
Incr(r) ==
    /\ pc[r] = "idle"
    /\ count' = Succ(count)
    /\ seen' = [seen EXCEPT ![r] = count']
    /\ recent' = IF Passes(count') THEN [recent EXCEPT ![1] = @ + 1] ELSE recent
    /\ GoTo(r, IF count' = 1 THEN "expire" ELSE "decide")
    /\ UNCHANGED ttl

\* INCR raises, applied or not: the request passes unlimited.
IncrFails(r) ==
    /\ pc[r] = "idle"
    /\ count' \in {count, Succ(count)}
    /\ GoTo(r, "forward")
    /\ UNCHANGED <<ttl, seen, recent>>

\* await redis.expire(key, window_seconds), a no-op without the key.
Expire(r) ==
    /\ pc[r] = "expire"
    /\ ttl' = IF count > 0 THEN Window ELSE ttl
    /\ GoTo(r, "decide")
    /\ UNCHANGED <<count, seen, recent>>

\* EXPIRE raises, applied or not: the request passes, the counter may be left
\* without an expiry.
ExpireFails(r) ==
    /\ pc[r] = "expire"
    /\ ttl' \in {ttl, IF count > 0 THEN Window ELSE ttl}
    /\ GoTo(r, "forward")
    /\ UNCHANGED <<count, seen, recent>>

Forward(r) ==
    /\ pc[r] = "decide" /\ Passes(seen[r])
    /\ GoTo(r, "forward")
    /\ UNCHANGED <<key, seen, recent>>

\* 429.
Reject(r) ==
    /\ pc[r] = "decide" /\ ~Passes(seen[r])
    /\ GoTo(r, "idle")
    /\ UNCHANGED <<key, seen, recent>>

\* return await call_next(request)
Answer(r) ==
    /\ pc[r] = "forward"
    /\ GoTo(r, "idle")
    /\ UNCHANGED <<key, seen, recent>>

\* The client goes away or the worker stops: CancelledError is no Exception,
\* and nothing catches it.
Cancel(r) ==
    /\ pc[r] # "idle"
    /\ GoTo(r, "idle")
    /\ UNCHANGED <<key, seen, recent>>

\* Mutant: the counter outlives its expiry.
TickForgets ==
    /\ ttl' = IF ttl \in Nat \ {0} THEN ttl - 1 ELSE ttl
    /\ recent' = <<0>> \o Front(recent)
    /\ UNCHANGED <<count, pc, seen>>

\* Time passes; Redis removes an expired key.
Tick ==
    /\ ttl' = IF ttl \in Nat \ {0, 1} THEN ttl - 1 ELSE NoExpiry
    /\ count' = IF ttl = 1 THEN 0 ELSE count
    /\ recent' = <<0>> \o Front(recent)
    /\ UNCHANGED <<pc, seen>>

Handle(r) == Expire(r) \/ ExpireFails(r) \/ Forward(r) \/ Reject(r) \/ Answer(r)

Next ==
    \/ \E r \in Request : Incr(r) \/ IncrFails(r) \/ Handle(r) \/ Cancel(r)
    \/ Tick

\* The event loop schedules a request until it is answered, and time passes.
Spec == Init /\ [][Next]_vars /\ (\A r \in Request : WF_vars(Handle(r))) /\ WF_vars(Tick)

----------------------------------------------------------------------------
\* The counter, its TTL and the requests have their types, and only a key
\* that exists has a TTL.
TypeOK ==
    /\ count \in 0 .. Ceiling
    /\ ttl \in 1 .. Window \cup {NoExpiry}
    /\ pc \in [Request -> {"idle", "expire", "decide", "forward"}]
    /\ seen \in [Request -> 0 .. Ceiling]
    /\ recent \in [1 .. Window -> Nat]
    /\ count = 0 => ttl = NoExpiry

\* Two commands make a window, and other requests run between them; still no
\* more than one of them is about to set the expiry, of a key without one.
OneSetsExpiry ==
    \A r \in Request : pc[r] = "expire" =>
        /\ count > 0 /\ ttl = NoExpiry
        /\ \A q \in Request : pc[q] = "expire" => q = r

\* The counter lets at most twice the limit pass in any Window ticks: the end
\* of one window and the start of the next.
BurstBound == SumTo(recent, Window) <= 2 * Limit

\* Requests never prolong a running window: its TTL only runs down.
WindowNotExtended ==
    [][ttl # NoExpiry /\ ttl' # ttl => ttl' = ttl - 1 \/ (ttl = 1 /\ count' = 0)]_vars

\* Once a counter has its expiry, a client above the limit gets a new window,
\* however often it retries meanwhile.
BlockedWithExpiryEnds == (count > Limit /\ ttl # NoExpiry) ~> count = 0

\* "Token-bucket rate limiting" (README.md): a bucket refills, so a client
\* that was refused is let through again, in time.
BlockedEnds == count > Limit ~> count <= Limit
=============================================================================
