------------------------------ MODULE WorkerPool ------------------------------
(***************************************************************************)
(* Worker.Run of internal/delivery/worker.go: one dispatcher that claims   *)
(* rows and hands them to a fixed number of worker goroutines.             *)
(*                                                                         *)
(* The dispatcher reserves a slot before it claims a row, so that a row is *)
(* leased only when a worker is free to take it; the slot is given back    *)
(* when the worker is done.  slots and jobs are Go channels, both with     *)
(* room for as many elements as there are workers; slots carries no data   *)
(* and is modelled by its length.  A receive from an empty channel and a   *)
(* send to a full one block.                                               *)
(*                                                                         *)
(* What process does with a row is in DeliveryQueue; here it takes a while *)
(* and ends.  A row is claimed once here: what becomes of a lease that is  *)
(* given up is in DeliveryQueue.  Process runs the pool inside app.Run and *)
(* says which of its steps are fair.                                       *)
(***************************************************************************)
EXTENDS Naturals, Sequences, FiniteSets

CONSTANTS
    Worker, \* the worker goroutines; config.Workers of them
    Job     \* rows that may become due while this process runs

ASSUME WorkerAssumption == IsFiniteSet(Worker) /\ Worker # {}

VARIABLES
    cancelled,  \* ctx is done
    due,        \* rows that Claim would find
    disp,       \* where the dispatcher is
    claim,      \* j, the row the dispatcher has claimed (a set of at most one)
    slots,      \* elements in the channel slots
    jobs,       \* the channel jobs
    closed,     \* jobs is closed
    tick,       \* the ticker's channel holds a tick
    wpc,        \* where each worker goroutine is
    work,       \* the row it processes (a set of at most one)
    handled,    \* rows that process took to an end
    dropped     \* rows given up because of the shutdown

vars == <<cancelled, due, disp, claim, slots, jobs, closed, tick,
          wpc, work, handled, dropped>>

N == Cardinality(Worker)

DispatcherPC == {"reserve", "claim", "failed", "wait", "hand", "giveup",
                 "close", "join", "returned"}
WorkerPC == {"range", "process", "release", "exited"}

Init ==
    /\ cancelled = FALSE
    /\ due = {}
    /\ disp = "reserve"
    /\ claim = {}
    /\ slots = 0
    /\ jobs = <<>>
    /\ closed = FALSE
    /\ tick = FALSE
    /\ wpc = [w \in Worker |-> "range"]
    /\ work = [w \in Worker |-> {}]
    /\ handled = {}
    /\ dropped = {}

-----------------------------------------------------------------------------
(* The world outside Run.                                                   *)

\* A row becomes due in the database.
Arrive(j) ==
    /\ j \notin due \cup claim \cup handled \cup dropped
    /\ \A w \in Worker : j \notin work[w]
    /\ \A i \in DOMAIN jobs : jobs[i] # j
    /\ due' = due \cup {j}
    /\ UNCHANGED <<cancelled, disp, claim, slots, jobs, closed, tick,
                   wpc, work, handled, dropped>>

\* SIGTERM, or the HTTP server failed: the process context ends.
Shutdown ==
    /\ ~cancelled
    /\ cancelled' = TRUE
    /\ UNCHANGED <<due, disp, claim, slots, jobs, closed, tick,
                   wpc, work, handled, dropped>>

\* The ticker fires; its channel holds one tick and drops the others.
Tick ==
    /\ ~tick
    /\ tick' = TRUE
    /\ UNCHANGED <<cancelled, due, disp, claim, slots, jobs, closed,
                   wpc, work, handled, dropped>>

-----------------------------------------------------------------------------
(* The dispatcher.                                                          *)

\* Faulty variant: room for one slot too many.
SlotFreeOneMore == slots <= N

\* slots has room for one more.
SlotFree == slots < N

\* case slots <- struct{}{}, and the call of Claim, which fails at once if the
\* context is done already.
Reserve ==
    /\ disp = "reserve"
    /\ SlotFree
    /\ slots' = slots + 1
    /\ disp' = IF cancelled THEN "failed" ELSE "claim"
    /\ UNCHANGED <<cancelled, due, claim, jobs, closed, tick,
                   wpc, work, handled, dropped>>

\* Claim returns a row; the context may have ended while it ran.
ClaimRow(j) ==
    /\ disp = "claim"
    /\ j \in due
    /\ due' = due \ {j}
    /\ claim' = {j}
    /\ disp' = "hand"
    /\ UNCHANGED <<cancelled, slots, jobs, closed, tick,
                   wpc, work, handled, dropped>>

\* Claim returns an error: no row was found, the database failed, or the
\* context is done.
ClaimFails ==
    /\ disp = "claim"
    /\ disp' = "failed"
    /\ UNCHANGED <<cancelled, due, claim, slots, jobs, closed, tick,
                   wpc, work, handled, dropped>>

\* Faulty variant: the slot is not given back after an error.
UnreserveLeaks ==
    /\ disp = "failed"
    /\ disp' = "wait"
    /\ UNCHANGED <<cancelled, due, claim, slots, jobs, closed, tick,
                   wpc, work, handled, dropped>>

\* <-slots after an error.
Unreserve ==
    /\ disp = "failed"
    /\ slots > 0
    /\ slots' = slots - 1
    /\ disp' = "wait"
    /\ UNCHANGED <<cancelled, due, claim, jobs, closed, tick,
                   wpc, work, handled, dropped>>

\* case <-ticker.C
Poll ==
    /\ disp = "wait"
    /\ tick
    /\ tick' = FALSE
    /\ disp' = "reserve"
    /\ UNCHANGED <<cancelled, due, claim, slots, jobs, closed,
                   wpc, work, handled, dropped>>

\* case jobs <- j
Hand ==
    /\ disp = "hand"
    /\ Len(jobs) < N
    /\ \E j \in claim : jobs' = Append(jobs, j)
    /\ claim' = {}
    /\ disp' = "reserve"
    /\ UNCHANGED <<cancelled, due, slots, closed, tick,
                   wpc, work, handled, dropped>>

\* case <-ctx.Done() while a claimed row is in hand: its lease is given up.
GiveUp ==
    /\ disp = "hand"
    /\ cancelled
    /\ dropped' = dropped \cup claim
    /\ claim' = {}
    /\ disp' = "giveup"
    /\ UNCHANGED <<cancelled, due, slots, jobs, closed, tick,
                   wpc, work, handled>>

\* <-slots, return
GiveBack ==
    /\ disp = "giveup"
    /\ slots > 0
    /\ slots' = slots - 1
    /\ disp' = "close"
    /\ UNCHANGED <<cancelled, due, claim, jobs, closed, tick,
                   wpc, work, handled, dropped>>

\* case <-ctx.Done() of the two other selects.
Stop ==
    /\ disp \in {"reserve", "wait"}
    /\ cancelled
    /\ disp' = "close"
    /\ UNCHANGED <<cancelled, due, claim, slots, jobs, closed, tick,
                   wpc, work, handled, dropped>>

\* The deferred function: close(jobs)
Close ==
    /\ disp = "close"
    /\ closed' = TRUE
    /\ disp' = "join"
    /\ UNCHANGED <<cancelled, due, claim, slots, jobs, tick,
                   wpc, work, handled, dropped>>

\* Faulty variant: Run does not wait for its workers.
JoinAtOnce ==
    /\ disp = "join"
    /\ disp' = "returned"
    /\ UNCHANGED <<cancelled, due, claim, slots, jobs, closed, tick,
                   wpc, work, handled, dropped>>

\* wg.Wait() returns, and Run does.
Join ==
    /\ disp = "join"
    /\ \A w \in Worker : wpc[w] = "exited"
    /\ disp' = "returned"
    /\ UNCHANGED <<cancelled, due, claim, slots, jobs, closed, tick,
                   wpc, work, handled, dropped>>

-----------------------------------------------------------------------------
(* A worker goroutine.                                                      *)

\* for j := range jobs, with a row in the channel.
Take(w) ==
    /\ wpc[w] = "range"
    /\ jobs # <<>>
    /\ work' = [work EXCEPT ![w] = {Head(jobs)}]
    /\ jobs' = Tail(jobs)
    /\ wpc' = [wpc EXCEPT ![w] = "process"]
    /\ UNCHANGED <<cancelled, due, disp, claim, slots, closed, tick,
                   handled, dropped>>

\* process returns with the row deferred or its attempt recorded.
Complete(w) ==
    /\ wpc[w] = "process"
    /\ handled' = handled \cup work[w]
    /\ work' = [work EXCEPT ![w] = {}]
    /\ wpc' = [wpc EXCEPT ![w] = "release"]
    /\ UNCHANGED <<cancelled, due, disp, claim, slots, jobs, closed, tick,
                   dropped>>

\* process returns early because the context is done.
Quit(w) ==
    /\ wpc[w] = "process"
    /\ cancelled
    /\ dropped' = dropped \cup work[w]
    /\ work' = [work EXCEPT ![w] = {}]
    /\ wpc' = [wpc EXCEPT ![w] = "release"]
    /\ UNCHANGED <<cancelled, due, disp, claim, slots, jobs, closed, tick,
                   handled>>

\* <-slots after process.
Release(w) ==
    /\ wpc[w] = "release"
    /\ slots > 0
    /\ slots' = slots - 1
    /\ wpc' = [wpc EXCEPT ![w] = "range"]
    /\ UNCHANGED <<cancelled, due, disp, claim, jobs, closed, tick,
                   work, handled, dropped>>

\* for j := range jobs, with the channel closed and drained.
Exit(w) ==
    /\ wpc[w] = "range"
    /\ closed
    /\ jobs = <<>>
    /\ wpc' = [wpc EXCEPT ![w] = "exited"]
    /\ UNCHANGED <<cancelled, due, disp, claim, slots, jobs, closed, tick,
                   work, handled, dropped>>

-----------------------------------------------------------------------------
Dispatcher ==
    \/ Reserve \/ ClaimFails \/ Unreserve \/ Poll \/ Hand \/ GiveUp
    \/ GiveBack \/ Stop \/ Close \/ Join
    \/ \E j \in Job : ClaimRow(j)

Goroutine(w) == Take(w) \/ Complete(w) \/ Quit(w) \/ Release(w) \/ Exit(w)

Next ==
    \/ \E j \in Job : Arrive(j)
    \/ Shutdown \/ Tick
    \/ Dispatcher
    \/ \E w \in Worker : Goroutine(w)

Spec == Init /\ [][Next]_vars

-----------------------------------------------------------------------------
(* Properties.                                                              *)

\* Workers between taking a row and giving its slot back.
Occupied == {w \in Worker : wpc[w] \in {"process", "release"}}

\* The dispatcher holds a slot that it has not passed on.
Reserved == IF disp \in {"claim", "failed", "hand", "giveup"} THEN 1 ELSE 0

TypeOK ==
    /\ cancelled \in BOOLEAN
    /\ due \subseteq Job
    /\ disp \in DispatcherPC
    /\ claim \subseteq Job
    /\ slots \in Nat
    /\ jobs \in Seq(Job)
    /\ closed \in BOOLEAN
    /\ tick \in BOOLEAN
    /\ wpc \in [Worker -> WorkerPC]
    /\ work \in [Worker -> SUBSET Job]
    /\ handled \subseteq Job
    /\ dropped \subseteq Job

\* Every slot is accounted for: one for each row claimed and not yet done
\* with, and never more than there are workers.
SlotsAccountedFor ==
    /\ slots = Reserved + Len(jobs) + Cardinality(Occupied)
    /\ slots <= N

\* A row is leased only when a worker is free for it: each row in the channel
\* or in the dispatcher's hands has an idle worker of its own, so no lease
\* runs down behind a slow request.
ClaimedHasIdleWorker ==
    (IF disp = "hand" THEN 1 ELSE 0) + Len(jobs)
        <= Cardinality({w \in Worker : wpc[w] \in {"range", "exited"}})

\* No channel operation that the code takes for immediate can block: the
\* dispatcher's send always finds room, and whoever gives a slot back finds
\* one to take.
NothingBlocks ==
    /\ disp = "hand" => Len(jobs) < N
    /\ disp \in {"failed", "giveup"} => slots > 0
    /\ \A w \in Worker : wpc[w] = "release" => slots > 0

\* The stages of a shutdown: jobs is closed by the dispatcher's last act, a
\* worker leaves only a closed and drained channel, and Run returns after the
\* last worker has left.
ShutdownInOrder ==
    /\ closed <=> disp \in {"join", "returned"}
    /\ \A w \in Worker : wpc[w] = "exited" => closed /\ jobs = <<>>
    /\ disp = "returned" => \A w \in Worker : wpc[w] = "exited"
    /\ disp # "hand" => claim = {}
    /\ \A w \in Worker : wpc[w] # "process" => work[w] = {}

\* The inductive invariant of the pool.
PoolInv == TypeOK /\ SlotsAccountedFor /\ ShutdownInOrder

\* When Run returns it leaves nothing behind: no row in the channel or in a
\* worker, no slot taken.  The pools that process uses are closed after it.
CleanReturn ==
    disp = "returned" =>
        /\ jobs = <<>> /\ claim = {} /\ slots = 0
        /\ \A w \in Worker : wpc[w] = "exited" /\ work[w] = {}

\* A due row is claimed, and a claimed one processed, unless the process is
\* shut down first.
DueIsProcessed == \A j \in Job : j \in due ~> j \in handled \/ cancelled
==============================================================================
