----------------------------- MODULE TokenBucket -----------------------------
(***************************************************************************)
(* The Redis token bucket of internal/redisx (Allow and its Lua script),   *)
(* for one key: the ingest limit of an API key or the request limit of an  *)
(* endpoint.                                                               *)
(*                                                                         *)
(* Nothing refills the bucket while nobody calls.  A call computes what    *)
(* the time since the last call has earned, stores the new level with the  *)
(* time, and lets Redis forget the key after a while; a missing key means  *)
(* a full bucket.  The script runs atomically and takes the time from      *)
(* Redis, so all replicas share one clock.  That clock is assumed not to   *)
(* run backwards, and the numbers to be exact: the script computes with    *)
(* doubles.                                                                *)
(***************************************************************************)
EXTENDS Naturals

CONSTANTS
    Rate,           \* ARGV[1], tokens per second
    Capacity,       \* ARGV[2], tokens
    TicksPerSecond, \* the grain of the clock
    Slack,          \* seconds added to the key's life (60 in the script)
    MaxTime         \* bound on the clock

ASSUME BucketAssumption ==
    /\ Rate \in Nat \ {0}
    /\ Capacity \in Nat \ {0}
    /\ TicksPerSecond \in Nat \ {0}
    /\ Slack \in Nat
    /\ MaxTime \in Nat

VARIABLES
    now,     \* Redis TIME, in ticks
    written, \* a call has stored the key at least once
    key,     \* the hash it stored last: tokens, time, and when it expires
    since    \* history: how many calls were allowed since each tick

vars == <<now, written, key, since>>

One == TicksPerSecond
Full == Capacity * One

\* Faulty variant: the quotient is rounded down.
FillTimeFloor == Capacity \div Rate

\* math.ceil(capacity/rate): seconds in which an empty bucket fills up.
FillTime == (Capacity + Rate - 1) \div Rate

\* Faulty variant: the key lives for the slack only.
LifeShort == Slack

\* The seconds after which Redis drops the key.
Life == FillTime + Slack

\* The key exists for a reader.
Stored == written /\ now < key.expires

\* tonumber(state[1]) or capacity; tonumber(state[2]) or now
Tokens == IF Stored THEN key.tokens ELSE Full
Last == IF Stored THEN key.time ELSE now

\* math.min(capacity, tokens + math.max(0, now-last)*rate)
Refilled ==
    LET sum == Tokens + (now - Last) * Rate
    IN  IF sum > Full THEN Full ELSE sum

\* Faulty variant: the time of the call is not stored.
StampOldTime(tokens) ==
    [tokens |-> tokens, time |-> Last, expires |-> now + Life * One]

\* HSET and EXPIRE.
Stamp(tokens) ==
    [tokens |-> tokens, time |-> now, expires |-> now + Life * One]

-----------------------------------------------------------------------------
Init ==
    /\ now = 0
    /\ written = FALSE
    /\ key = [tokens |-> 0, time |-> 0, expires |-> 0]
    /\ since = [s \in 0..MaxTime |-> 0]

\* The clock of Redis.
Tick ==
    /\ now < MaxTime
    /\ now' = now + 1
    /\ UNCHANGED <<written, key, since>>

\* Allow, with tokens>=1.
Allowed ==
    /\ Refilled >= One
    /\ written' = TRUE
    /\ key' = Stamp(Refilled - One)
    /\ since' = [s \in 0..MaxTime |-> IF s <= now THEN since[s] + 1 ELSE since[s]]
    /\ UNCHANGED now

\* Allow, with less than a token.
Denied ==
    /\ Refilled < One
    /\ written' = TRUE
    /\ key' = Stamp(Refilled)
    /\ UNCHANGED <<now, since>>

Next == Tick \/ Allowed \/ Denied

Spec == Init /\ [][Next]_vars

-----------------------------------------------------------------------------
(* Properties.                                                              *)

TypeOK ==
    /\ now \in 0..MaxTime
    /\ written \in BOOLEAN
    /\ key \in [tokens : 0..Full, time : 0..now, expires : Nat]
    /\ since \in [0..MaxTime -> Nat]

\* A key that Redis drops would have been full by then, so that forgetting it
\* gives nobody a token too many: what an expired key makes up for is never
\* more than what its last call and the time since would have given.
ExpiryIsInvisible ==
    written /\ now >= key.expires =>
        key.tokens + (now - key.time) * Rate >= Full

\* The inductive invariant: the key's expiry belongs to its time.
BucketInv ==
    /\ TypeOK
    /\ written => key.expires = key.time + Life * One

\* No window of time lets more calls through than a full bucket and what the
\* window adds to it, wherever it starts, however calls cluster, and whether or
\* not the key expired in between.  The windows here end now; an earlier one
\* was bounded when it ended.
WindowBounded ==
    \A s \in 0..now : since[s] * One <= Full + (now - s) * Rate

\* Why: what a window has let through and what the bucket still holds together
\* came from a full bucket and the refill.
WindowInv ==
    \A s \in 0..now : since[s] * One + Refilled <= Full + (now - s) * Rate

\* Ticks to come have seen no call.
FutureInv == \A s \in 0..MaxTime : s > now => since[s] = 0

Bucket == INSTANCE RateLimit WITH level <- Refilled

\* The lazily refilled, expiring key behaves as a bucket that is refilled at
\* every tick and never forgotten.
ImplementsRateLimit == Bucket!RSpec
==============================================================================
