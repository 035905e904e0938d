------------------------------- MODULE Process -------------------------------
(***************************************************************************)
(* Run of internal/app/app.go, the body of cmd/api, cmd/worker and         *)
(* cmd/demo: load the configuration, open the pools, migrate (demo), serve *)
(* HTTP and deliver (WorkerPool) until SIGTERM or a failure of the server, *)
(* shut the server down, wait for the worker, close the pools and return.  *)
(* Other processes may migrate the same database all the while             *)
(* (Migrations).                                                           *)
(*                                                                         *)
(* Time is counted in units of five seconds.  A connection is accepted,    *)
(* sends its header within ReadHeaderTimeout, and is then handled under a  *)
(* context of RequestTimeout, after which no statement of the handler      *)
(* reaches a pool; what a handler may still do then is write.  The next    *)
(* request on a kept-alive connection is another connection here: Shutdown *)
(* closes the idle ones at once.                                           *)
(***************************************************************************)
EXTENDS WorkerPool, Migrations

CONSTANTS
    Mode,              \* "api", "worker" or "demo"
    Conn,              \* connections to the HTTP server
    ReadHeaderTimeout, \* 5 seconds
    RequestTimeout,    \* 15 seconds, by the middleware; 2 in the worker's
    ShutdownTimeout,   \* 20 seconds
    Self               \* this process among the migrators

ASSUME TimeoutAssumption ==
    /\ {ReadHeaderTimeout, RequestTimeout, ShutdownTimeout} \subseteq Nat \ {0}
    /\ ReadHeaderTimeout + RequestTimeout <= ShutdownTimeout
ASSUME SelfAssumption == Self \in Migrator

VARIABLES
    mode,      \* what Run was called with
    phase,     \* where Run is
    pools,     \* the pools of PostgreSQL and Redis: "none", "open", "closed"
    server,    \* the listener: "none", "up", "failed" (an error is in errCh)
    conn,      \* what each connection is doing
    age,       \* for how long, up to the timeout that ends it
    timer,     \* time since Shutdown was called
    err,       \* the error Run returns: TRUE if there is one
    signalled  \* history: SIGTERM or an interrupt has come

web == <<server, conn, age, timer>>
run == <<mode, phase, pools, err, signalled>>
procVars == <<vars, migVars, web, run>>

ProcInit ==
    /\ Init
    /\ MigInit
    /\ mode \in Mode
    /\ phase = "load"
    /\ pools = "none"
    /\ server = "none"
    /\ conn = [c \in Conn |-> "none"]
    /\ age = [c \in Conn |-> 0]
    /\ timer = 0
    /\ err = FALSE
    /\ signalled = FALSE

-----------------------------------------------------------------------------
(* The main goroutine.                                                      *)

\* return e, with the deferred Close of what is open.
Return(e) ==
    /\ phase' = "exited"
    /\ pools' = IF pools = "open" THEN "closed" ELSE pools
    /\ err' = e
    /\ UNCHANGED <<mode, signalled>>

Advance(label) ==
    /\ phase' = label
    /\ UNCHANGED <<mode, pools, err, signalled>>

\* config.Load.
Load ==
    /\ phase = "load"
    /\ Advance("open") \/ Return(TRUE)
    /\ UNCHANGED <<vars, migVars, web>>

\* database.Open, whose Ping needs a context that is not done, and
\* redisx.Open.  Either may fail.
Open ==
    /\ phase = "open"
    /\ \/ /\ ~cancelled
          /\ phase' = IF mode = "demo" THEN "migrate" ELSE "start"
          /\ pools' = "open"
          /\ UNCHANGED <<mode, err, signalled>>
       \/ Return(TRUE)
    /\ UNCHANGED <<vars, migVars, web>>

\* migrations.Apply begins its transaction, or fails to.
MigrateBegin ==
    /\ phase = "migrate"
    /\ apc[Self] = "idle"
    /\ BeginTx(Self)
    /\ UNCHANGED <<vars, web, run>>

MigrateStep ==
    /\ phase = "migrate"
    /\ Migrate(Self) \/ (cancelled /\ Abandon(Self) /\ UNCHANGED faults)
    /\ UNCHANGED <<vars, web, run>>

\* Faulty variant: the error of Apply is ignored.
MigratedAnyhow ==
    /\ phase = "migrate"
    /\ apc[Self] \in {"applied", "failed"}
    /\ Advance("start")
    /\ UNCHANGED <<vars, migVars, web>>

\* Apply has returned.
Migrated ==
    /\ phase = "migrate"
    /\ \/ apc[Self] = "applied" /\ Advance("start")
       \/ apc[Self] = "failed" /\ Return(TRUE)
    /\ UNCHANGED <<vars, migVars, web>>

\* go worker.Run, unless this is the API; go server.ListenAndServe.
Start ==
    /\ phase = "start"
    /\ server' = "up"
    /\ Advance("serve")
    /\ UNCHANGED <<vars, migVars, conn, age, timer>>

\* Faulty variant: a failure of the server does not end the context.
WakeWithoutStop ==
    /\ phase = "serve"
    /\ \/ cancelled /\ UNCHANGED err
       \/ server = "failed" /\ err' = TRUE
    /\ phase' = "shutdown"
    /\ UNCHANGED <<vars, migVars, web, mode, pools, signalled>>

\* select: the context is done, or errCh has the server's error and stop()
\* ends the context.  With both ready, either.
Wake ==
    /\ phase = "serve"
    /\ \/ cancelled /\ UNCHANGED <<cancelled, err>>
       \/ server = "failed" /\ err' = TRUE /\ cancelled' = TRUE
    /\ phase' = "shutdown"
    /\ UNCHANGED <<due, disp, claim, slots, jobs, closed, tick,
                   wpc, work, handled, dropped, migVars, web,
                   mode, pools, signalled>>

\* Faulty variant: the server is given as long as one request.
ShutdownOverEarly == timer = RequestTimeout \/ \A c \in Conn : conn[c] = "none"

\* server.Shutdown returns when no connection is left, or at its timeout.
ShutdownOver == timer = ShutdownTimeout \/ \A c \in Conn : conn[c] = "none"

ShutdownServer ==
    /\ phase = "shutdown"
    /\ ShutdownOver
    /\ Advance("join")
    /\ UNCHANGED <<vars, migVars, web>>

\* <-done; the API has closed it itself.
WorkerDone == mode = "api" \/ disp = "returned"

Finish ==
    /\ phase = "join"
    /\ WorkerDone
    /\ Return(err)
    /\ UNCHANGED <<vars, migVars, web>>

-----------------------------------------------------------------------------
(* The worker of this process.                                              *)

Delivering == mode # "api" /\ phase \in {"serve", "shutdown", "join"}

Deliver ==
    /\ Delivering
    /\ \/ Dispatcher \/ Tick
       \/ \E j \in Job : Arrive(j)
       \/ \E w \in Worker : Goroutine(w)
    /\ UNCHANGED <<migVars, web, run>>

-----------------------------------------------------------------------------
(* The HTTP server.                                                         *)

Serving == phase \in {"serve", "shutdown", "join"}

\* A listener that is not shut down accepts a connection.
Connect(c) ==
    /\ phase = "serve"
    /\ server = "up"
    /\ conn[c] = "none"
    /\ conn' = [conn EXCEPT ![c] = "header"]
    /\ age' = [age EXCEPT ![c] = 0]
    /\ UNCHANGED <<vars, migVars, server, timer, run>>

\* The header is read and the handler called.
Handle(c) ==
    /\ Serving
    /\ conn[c] = "header"
    /\ conn' = [conn EXCEPT ![c] = "handler"]
    /\ age' = [age EXCEPT ![c] = 0]
    /\ UNCHANGED <<vars, migVars, server, timer, run>>

\* The handler returns; the connection is idle then.
Respond(c) ==
    /\ Serving
    /\ conn[c] = "handler"
    /\ conn' = [conn EXCEPT ![c] = "none"]
    /\ age' = [age EXCEPT ![c] = 0]
    /\ UNCHANGED <<vars, migVars, server, timer, run>>

\* ListenAndServe returns an error: the address is in use, or Accept failed.
ServerFails ==
    /\ phase = "serve"
    /\ server = "up"
    /\ server' = "failed"
    /\ UNCHANGED <<vars, migVars, conn, age, timer, run>>

-----------------------------------------------------------------------------
(* The world.                                                               *)

\* SIGTERM, once NotifyContext is in place.
Signal ==
    /\ phase \notin {"load", "exited"}
    /\ ~signalled
    /\ signalled' = TRUE
    /\ cancelled' = TRUE
    /\ UNCHANGED <<due, disp, claim, slots, jobs, closed, tick, wpc, work,
                   handled, dropped, migVars, web, mode, phase, pools, err>>

\* Another process migrates the database.
Elsewhere(m) ==
    /\ BeginTx(m) \/ Migrate(m)
    /\ UNCHANGED <<vars, web, run>>

\* The header of a request has not come in time: the connection is closed.
HeaderLate(c) == conn[c] = "header" /\ age[c] = ReadHeaderTimeout

\* A context that has ended has no age.
Older(c) ==
    IF conn[c] = "none" \/ HeaderLate(c) THEN 0
    ELSE IF conn[c] = "header" \/ age[c] < RequestTimeout THEN age[c] + 1
    ELSE age[c]

\* Five seconds pass.  Shutdown returns as soon as it can.
Pass ==
    /\ Serving
    /\ phase = "shutdown" => ~ShutdownOver
    /\ conn' = [c \in Conn |-> IF HeaderLate(c) THEN "none" ELSE conn[c]]
    /\ age' = [c \in Conn |-> Older(c)]
    /\ timer' = IF phase = "shutdown" THEN timer + 1 ELSE timer
    /\ UNCHANGED <<vars, migVars, server, run>>

-----------------------------------------------------------------------------
Main == Load \/ Open \/ MigrateBegin \/ MigrateStep \/ Migrated \/ Start
        \/ Wake \/ ShutdownServer \/ Finish

ProcNext ==
    \/ Main \/ Deliver \/ ServerFails \/ Signal \/ Pass
    \/ \E c \in Conn : Connect(c) \/ Handle(c) \/ Respond(c)
    \/ \E m \in Migrator \ {Self} : Elsewhere(m)

\* Goroutines run, process ends by its timeouts, ticker and clock advance, and
\* PostgreSQL runs the transaction that has the lock.  A select with several
\* ready cases picks one at random, so it does not pass over ctx.Done() for
\* ever; and a Claim repeated for ever finds a due row in the end (the database
\* is not down for ever).  No signal, failure, connection, answer of a handler
\* or new run of a migration is owed to anyone.
ProcFairness ==
    /\ WF_procVars(\/ Load \/ Open \/ MigrateBegin \/ Migrated \/ Start
                   \/ Wake \/ ShutdownServer \/ Finish)
    /\ WF_tx(phase = "migrate" /\ Apply(Self))
    /\ \A m \in Migrator \ {Self} : WF_tx(Apply(m))
    /\ WF_web(Pass)
    /\ WF_vars(Delivering /\ Dispatcher)
    /\ WF_vars(Delivering /\ Tick)
    /\ SF_vars(Delivering /\ Stop)
    /\ SF_vars(Delivering /\ \E j \in Job : ClaimRow(j))
    /\ \A w \in Worker : WF_vars(Delivering /\ Goroutine(w))

ProcSpec == ProcInit /\ [][ProcNext]_procVars
ProcFairSpec == ProcSpec /\ ProcFairness

-----------------------------------------------------------------------------
(* Properties.                                                              *)

ProcTypeOK ==
    /\ mode \in Mode
    /\ phase \in {"load", "open", "migrate", "start", "serve", "shutdown",
                  "join", "exited"}
    /\ pools \in {"none", "open", "closed"}
    /\ server \in {"none", "up", "failed"}
    /\ conn \in [Conn -> {"none", "header", "handler"}]
    /\ age \in [Conn -> Nat]
    /\ timer \in 0..ShutdownTimeout
    /\ err \in BOOLEAN
    /\ signalled \in BOOLEAN

\* A handler whose context is not done may send statements to the pools.
UsesPools(c) == conn[c] = "handler" /\ age[c] < RequestTimeout

\* The pools outlive everybody who uses them.  Worker goroutines are joined
\* before; for a handler the timeouts must add up, because Shutdown may give
\* up on it: even the connection that was accepted last and sent its header
\* last is done with the pools when they are closed.
PoolsOutliveUsers ==
    pools = "closed" =>
        /\ \A c \in Conn : ~UsesPools(c)
        /\ mode # "api" /\ server # "none" =>
             disp = "returned" /\ \A w \in Worker : wpc[w] = "exited"

\* A demo process serves and delivers only on a schema that holds all its
\* migrations, also when another process is migrating or has failed half way.
ServesMigrated ==
    mode = "demo" /\ server # "none" => 1..Files[Self] \subseteq schema

\* Before the server is started there are no connections, and a demo process
\* comes that far only with its migrations; Shutdown has its time for itself;
\* the pools are closed last, and after the worker has returned.
InOrder ==
    /\ pools = "closed" => phase = "exited"
    /\ phase \in {"load", "open", "migrate", "start"} =>
         server = "none" /\ \A c \in Conn : conn[c] = "none"
    /\ phase \in {"load", "open", "migrate", "start", "serve"} => timer = 0
    /\ phase = "start" /\ mode = "demo" => 1..Files[Self] \subseteq schema
    /\ phase = "exited" /\ mode # "api" /\ server # "none" => disp = "returned"

\* What the timeouts mean for a connection: Shutdown has not taken longer than
\* the connection has had to send its header, or to send it and be handled.
InTime(c) ==
    /\ conn[c] = "header" =>
         /\ phase \in {"serve", "shutdown"}
         /\ timer <= age[c] /\ age[c] <= ReadHeaderTimeout
    /\ UsesPools(c) =>
         phase \in {"serve", "shutdown"} /\ timer <= age[c] + ReadHeaderTimeout

\* The inductive invariant, with those of the pool and the migrations.
ProcInv ==
    /\ ProcTypeOK
    /\ InOrder
    /\ ServesMigrated
    /\ \A c \in Conn : InTime(c)

\* Once the context is done, for whatever reason and in whatever phase, or the
\* server has failed, the process returns.
ProcessExits == cancelled \/ server = "failed" ~> phase = "exited"
==============================================================================
