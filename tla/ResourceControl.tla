--------------------------- MODULE ResourceControl ---------------------------
(***************************************************************************)
(* The admission control of Local RAG (services/local-rag/app/               *)
(* resource_controls.py): a token bucket per client address, a table of       *)
(* buckets that never outgrows its limit, and the slots that controlled        *)
(* requests hold from admission to the end of their response.  The            *)
(* middleware runs in one event loop and awaits nothing between the rate       *)
(* limiter and the slot, so an admission is one step.                         *)
(*                                                                           *)
(* Time is in seconds and tokens in parts of 1/Minute, which the code keeps   *)
(* as floats.  Requests that fail authentication, or declare a body that is    *)
(* too large, reach neither limiter.                                          *)
(*                                                                           *)
(* A definition named Wrong... is a plausible bug, used by no action.         *)
(***************************************************************************)
EXTENDS Integers, FiniteSets

CONSTANTS
    Clients,        \* client addresses
    Watched,        \* any one of them: the client the properties speak of
    Requests,       \* requests that can be in the service together
    Minute,         \* seconds in the minute of the rate: 60
    Rate,           \* RATE_LIMIT_REQUESTS_PER_MINUTE
    Burst,          \* RATE_LIMIT_BURST
    MaxClients,     \* max_clients
    MaxConcurrent,  \* MAX_CONCURRENT_REQUESTS
    MaxTime         \* bound: the clock stops here

ASSUME LimitsAssumption ==
    /\ Minute \in Nat \ {0}
    /\ Rate \in Nat
    /\ Burst \in Nat \ {0}
    /\ MaxClients \in Nat \ {0}
    /\ MaxConcurrent \in Nat
    /\ MaxTime \in Nat
    /\ Watched \in Clients
    /\ IsFiniteSet(Clients)
    /\ IsFiniteSet(Requests)

VARIABLES
    clock,     \* monotonic()
    known,     \* clients with a bucket
    tokens,    \* the tokens of each bucket
    updated,   \* updated_at of each bucket
    active,    \* ConcurrencyLimiter._active
    inside,    \* requests between try_acquire and release
    since,     \* the start of a window of time
    admitted,  \* requests of Watched that the rate limiter allowed in it
    retryAt    \* when the last 429 told Watched to come back, or 0

bucketVars == <<known, tokens, updated>>
slotVars == <<active, inside>>
windowVars == <<since, admitted>>
vars == <<clock, known, tokens, updated, active, inside, since, admitted, retryAt>>

Limiting == Rate > 0
Capacity == Burst * Minute

Least(a, b) == IF a <= b THEN a ELSE b

\* The tokens a bucket holds now.
Refilled(c) == Least(Capacity, tokens[c] + Rate * (clock - updated[c]))

\* What allow finds for a client: a new bucket is full.
Level(c) == IF c \in known THEN Refilled(c) ELSE Capacity

WrongRetryAfter(level) == (Minute - level) \div Rate

\* The seconds until one token is there.
RetryAfter(level) == (Minute - level + Rate - 1) \div Rate

WrongStale(c) == clock - updated[c] >= Minute

\* Untouched for a minute and for twice the time that fills a bucket.
Stale(c) ==
    /\ clock - updated[c] >= Minute
    /\ Rate * (clock - updated[c]) >= 2 * Capacity

Init ==
    /\ clock = 0
    /\ known = {}
    /\ tokens = [c \in Clients |-> 0]
    /\ updated = [c \in Clients |-> 0]
    /\ active = 0
    /\ inside = {}
    /\ since = 0
    /\ admitted = 0
    /\ retryAt = 0
-----------------------------------------------------------------------------
(* The rate limiter.                                                        *)

WrongEvicted(c, E) == E = IF c \in known THEN {} ELSE {k \in known : Stale(k)}

\* _make_room: the buckets that a bucket for c pushes out of the table.  Of
\* several oldest ones the code takes the first inserted.
Evicted(c, E) ==
    LET stale == {k \in known : Stale(k)}
        fresh == known \ stale
    IN  IF c \in known \/ Cardinality(known) < MaxClients
        THEN E = {}
        ELSE \/ stale # {} /\ E = stale
             \/ /\ stale = {}
                /\ \E oldest \in fresh :
                      /\ \A k \in fresh : updated[oldest] <= updated[k]
                      /\ E = {oldest}

\* The bucket of c is refilled, and holds what is left.
Touch(c, E, left) ==
    /\ known' = (known \ E) \cup {c}
    /\ tokens' = [k \in Clients |-> IF k = c THEN left
                                    ELSE IF k \in E THEN 0 ELSE tokens[k]]
    /\ updated' = [k \in Clients |-> IF k = c THEN clock
                                     ELSE IF k \in E THEN 0 ELSE updated[k]]

\* The bucket of Watched was pushed out before it was stale.
Robbed(E) == Watched \in E /\ ~Stale(Watched)

Allow(c) ==
    IF ~Limiting
    THEN UNCHANGED <<bucketVars, windowVars, retryAt>>
    ELSE \E E \in SUBSET known :
            /\ Evicted(c, E)
            /\ Level(c) >= Minute
            /\ Touch(c, E, Level(c) - Minute)
            /\ since' = IF Robbed(E) THEN clock ELSE since
            /\ admitted' = CASE c = Watched -> admitted + 1
                             [] c # Watched /\ Robbed(E) -> 0
                             [] OTHER -> admitted
            /\ retryAt' = IF c = Watched THEN 0 ELSE retryAt

\* 429: only a client with a bucket can have run out of tokens.
RateLimited(c) ==
    /\ Limiting
    /\ c \in known
    /\ Level(c) < Minute
    /\ Touch(c, {}, Level(c))
    /\ retryAt' = IF c = Watched THEN clock + RetryAfter(Level(c)) ELSE retryAt
    /\ UNCHANGED <<clock, slotVars, windowVars>>
-----------------------------------------------------------------------------
(* The slots.                                                               *)

SlotFree == MaxConcurrent = 0 \/ active < MaxConcurrent

\* 503: the token is spent all the same.
NoCapacity(c) ==
    /\ ~SlotFree
    /\ Allow(c)
    /\ UNCHANGED <<clock, slotVars>>

Admit(r, c) ==
    /\ r \notin inside
    /\ SlotFree
    /\ Allow(c)
    /\ inside' = inside \cup {r}
    /\ active' = IF MaxConcurrent = 0 THEN active ELSE active + 1
    /\ UNCHANGED clock

WrongLeave(r) ==
    /\ r \in inside
    /\ inside' = inside \ {r}
    /\ active' \in {active, active - 1}
    /\ UNCHANGED <<clock, bucketVars, windowVars, retryAt>>

\* The response ends, the handler raises, the body turns out too large or the
\* client's departure cancels it: the finally block releases the slot.
Leave(r) ==
    /\ r \in inside
    /\ inside' = inside \ {r}
    /\ active' = IF MaxConcurrent = 0 THEN active ELSE active - 1
    /\ UNCHANGED <<clock, bucketVars, windowVars, retryAt>>
-----------------------------------------------------------------------------
Tick ==
    /\ clock < MaxTime
    /\ clock' = clock + 1
    /\ UNCHANGED <<bucketVars, slotVars, windowVars, retryAt>>

\* Somebody starts to count the requests of Watched: no step of the code.
OpenWindow ==
    /\ since' = clock
    /\ admitted' = 0
    /\ UNCHANGED <<clock, bucketVars, slotVars, retryAt>>

Arrive(c) ==
    RateLimited(c) \/ NoCapacity(c) \/ \E r \in Requests : Admit(r, c)

Next ==
    \/ \E c \in Clients : Arrive(c)
    \/ \E r \in Requests : Leave(r)
    \/ Tick
    \/ OpenWindow

Spec == Init /\ [][Next]_vars
-----------------------------------------------------------------------------
TypeOK ==
    /\ clock \in 0 .. MaxTime
    /\ known \subseteq Clients
    /\ tokens \in [Clients -> 0 .. Capacity]
    /\ updated \in [Clients -> 0 .. MaxTime]
    /\ active \in Nat
    /\ inside \subseteq Requests
    /\ since \in 0 .. MaxTime
    /\ admitted \in Nat
    /\ retryAt \in Nat

\* In no window of time is a client allowed more than the burst and what the
\* rate adds meanwhile, refusals, stale buckets and other clients
\* notwithstanding, unless the table dropped its bucket before it was stale.
RateHolds ==
    Limiting => Minute * admitted <= Capacity + Rate * (clock - since)

\* A client that comes back when the 429 said finds a token, and finds none
\* before.
RetryAfterExact ==
    Watched \in known /\ retryAt > 0 =>
        (clock >= retryAt <=> Level(Watched) >= Minute)

\* The table of buckets is bounded, whatever addresses come.
TableBounded == Cardinality(known) <= MaxClients

\* No more controlled requests are in the service than it has slots, and
\* every slot taken is held by one of them.
SlotsHeld ==
    MaxConcurrent > 0 =>
        /\ active = Cardinality(inside)
        /\ active <= MaxConcurrent
=============================================================================
