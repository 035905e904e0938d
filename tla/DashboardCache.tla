--------------------------- MODULE DashboardCache ---------------------------
(***************************************************************************)
(* The totals of one user and project (dashboard in                        *)
(* internal/api/inspection.go, Cached and Cache in                         *)
(* internal/redisx/redis.go): a request looks into Redis, and when it      *)
(* finds nothing runs the query and stores what it got for TTL ticks.      *)
(*                                                                         *)
(* Totals are represented by the instant of the snapshot they were taken   *)
(* from.  Nothing stops several requests from missing together, so a slow  *)
(* one may store an old snapshot over a newer one.  A SET that was begun   *)
(* goes on without its request: the socket timeouts (redisx.Open) know     *)
(* nothing of the context, and Redis may execute the SET after its handler *)
(* has given up and answered.  How old an answer from the cache can be     *)
(* therefore depends on the timeout of requests, and on how late a SET     *)
(* may take effect, as well.                                               *)
(***************************************************************************)
EXTENDS Naturals

CONSTANTS
    Request,  \* handlers at work
    TTL,      \* life of an entry: five seconds
    Timeout,  \* of the context that middleware gives a request: 15 seconds
    SetDelay, \* from the start of a SET to its effect: dial, write, transit
    Horizon   \* bound: the clock stops here

ASSUME CacheAssumption ==
    /\ TTL \in Nat \ {0} /\ Timeout \in Nat \ {0}
    /\ SetDelay \in Nat /\ Horizon \in Nat

VARIABLES
    clock,  \* the clock
    stored, \* Redis has been given an entry and has not lost it
    entry,  \* the snapshot in it, and the instant at which it expires
    pc,     \* where a request is
    start,  \* when it came in
    snap,   \* the snapshot that its query reads
    sets    \* SETs that Redis has yet to execute: whose each is, the snapshot
            \* it stores, and when it was begun

cacheVars == <<clock, stored, entry, pc, start, snap, sets>>

Phase == {"idle", "lookup", "query", "running", "store", "setting"}

SetCommand == [by : Request, snap : Nat, begun : Nat]

\* One type invariant: instants are numbers and phases are phases.
CacheTypeOK ==
    /\ clock \in Nat
    /\ stored \in BOOLEAN
    /\ entry \in [snap : Nat, expires : Nat]
    /\ pc \in [Request -> Phase]
    /\ start \in [Request -> Nat]
    /\ snap \in [Request -> Nat]
    /\ sets \subseteq SetCommand

CacheInit ==
    /\ clock = 0
    /\ stored = FALSE
    /\ entry = [snap |-> 0, expires |-> 0]
    /\ pc = [r \in Request |-> "idle"]
    /\ start = [r \in Request |-> 0]
    /\ snap = [r \in Request |-> 0]
    /\ sets = {}

\* Faulty variant: the request has no deadline.
NoDeadline(r) == TRUE

\* The context of the request is still alive.
InTime(r) == clock < start[r] + Timeout

\* A GET of the key finds the entry.
Live == stored /\ clock < entry.expires

Go(r, phase) == pc' = [pc EXCEPT ![r] = phase]

\* The handler returns, and its variables are gone.
Return(r) ==
    /\ Go(r, "idle")
    /\ start' = [start EXCEPT ![r] = 0]
    /\ snap' = [snap EXCEPT ![r] = 0]

-----------------------------------------------------------------------------
\* middleware starts the clock of a new request.  The name of a request whose
\* SET is still on its way is not used again: another one is as good.
Arrive(r) ==
    /\ pc[r] = "idle" /\ \A m \in sets : m.by # r
    /\ Go(r, "lookup")
    /\ start' = [start EXCEPT ![r] = clock]
    /\ UNCHANGED <<clock, stored, entry, snap, sets>>

\* Cached returns true, and the entry is the answer.  A GET that was begun goes
\* on without the context, too.
Hit(r) ==
    /\ pc[r] = "lookup" /\ Live
    /\ Return(r)
    /\ UNCHANGED <<clock, stored, entry, sets>>

\* Cached returns false: no entry, no answer from Redis, or a context that is
\* done.
Miss(r) ==
    /\ pc[r] = "lookup"
    /\ Go(r, "query")
    /\ UNCHANGED <<clock, stored, entry, start, snap, sets>>

\* PostgreSQL starts the statement: this is the snapshot it reads.
Snapshot(r) ==
    /\ pc[r] = "query" /\ InTime(r)
    /\ Go(r, "running")
    /\ snap' = [snap EXCEPT ![r] = clock]
    /\ UNCHANGED <<clock, stored, entry, start, sets>>

\* The row arrives.
Result(r) ==
    /\ pc[r] = "running" /\ InTime(r)
    /\ Go(r, "store")
    /\ UNCHANGED <<clock, stored, entry, start, snap, sets>>

\* The query fails or is cancelled: dbError.
QueryFails(r) ==
    /\ pc[r] \in {"query", "running"}
    /\ Return(r)
    /\ UNCHANGED <<clock, stored, entry, sets>>

\* Cache: the SET is begun.  go-redis takes a connection from its pool for a
\* live context only; from here on the context is not asked again.
Send(r) ==
    /\ pc[r] = "store" /\ InTime(r)
    /\ Go(r, "setting")
    /\ sets' = sets \cup {[by |-> r, snap |-> snap[r], begun |-> clock]}
    /\ UNCHANGED <<clock, stored, entry, start, snap>>

\* Cache returns, with the reply, with a timeout, or at once without having
\* begun.  Its error is ignored: the answer is given all the same.
Answer(r) ==
    /\ pc[r] \in {"store", "setting"}
    /\ Return(r)
    /\ UNCHANGED <<clock, stored, entry, sets>>

\* Redis executes a SET with a life of TTL, whatever is there, and whether or
\* not the handler still waits for the reply.
Store(m) ==
    /\ clock <= m.begun + SetDelay
    /\ sets' = sets \ {m}
    /\ stored' = TRUE
    /\ entry' = [snap |-> m.snap, expires |-> clock + TTL]
    /\ UNCHANGED <<clock, pc, start, snap>>

\* A SET is lost with its connection, or Redis refuses it.
StoreFails(m) ==
    /\ sets' = sets \ {m}
    /\ UNCHANGED <<clock, stored, entry, pc, start, snap>>

\* Redis evicts the entry or restarts.
Evict ==
    /\ stored
    /\ stored' = FALSE
    /\ entry' = [snap |-> 0, expires |-> 0]
    /\ UNCHANGED <<clock, pc, start, snap, sets>>

ClockTick ==
    /\ clock < Horizon
    /\ clock' = clock + 1
    /\ UNCHANGED <<stored, entry, pc, start, snap, sets>>

Step(r) ==
    \/ Arrive(r) \/ Hit(r) \/ Miss(r)
    \/ Snapshot(r) \/ Result(r) \/ QueryFails(r)
    \/ Send(r) \/ Answer(r)

CacheNext ==
    \/ Evict \/ ClockTick
    \/ \E r \in Request : Step(r)
    \/ \E m \in sets : Store(m) \/ StoreFails(m)

CacheSpec == CacheInit /\ [][CacheNext]_cacheVars

-----------------------------------------------------------------------------
\* How stale the dashboard can be: totals answered from the cache are less old
\* than the life of an entry, the timeout of a request and the delay of a SET
\* together, however requests overlap, and whether or not their handlers have
\* waited for the SET.  The entry's five seconds count from the moment Redis
\* executes the SET; the snapshot in it may have been taken almost a whole
\* timeout before the SET was begun (inspection.go, dashboard; redis.go, Cache).
StalenessBounded == Live => clock < entry.snap + TTL + Timeout + SetDelay

\* "dashboard totals can lag five seconds" (docs/RESUME_NOTES.md:53), and no
\* longer: what the cache would answer now is no older than an entry may get.
TotalsLagByTTL == Live => clock <= entry.snap + TTL

\* The inductive invariant: a snapshot that may still be stored was taken after
\* its request came in, a SET was begun before that request's time was over,
\* and an entry expires before its snapshot is that old.
CacheInv ==
    /\ CacheTypeOK
    /\ stored => entry.expires < entry.snap + TTL + Timeout + SetDelay
    /\ \A r \in Request : start[r] <= clock
    /\ \A r \in Request :
          pc[r] \in {"running", "store"} => start[r] <= snap[r]
    /\ \A m \in sets : m.begun < m.snap + Timeout
=============================================================================
