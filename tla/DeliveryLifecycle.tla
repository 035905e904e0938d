-------------------------- MODULE DeliveryLifecycle --------------------------
(***************************************************************************)
(* What the delivery queue promises, without leases, tokens, workers or    *)
(* time: a ledger.  A delivery is queued when its event is accepted, and   *)
(* every attempt that is recorded is the next one of a queued delivery and *)
(* decides on the spot what becomes of it.  Only a dead delivery can be    *)
(* queued again, with a new generation and a new budget.                   *)
(*                                                                         *)
(* The states pending, processing and retrying of the code are one here:   *)
(* who works on a delivery, how often it is claimed, abandoned or sent is  *)
(* not part of the promise.                                                *)
(***************************************************************************)
EXTENDS Retry

CONSTANTS
    Delivery,    \* the deliveries that may come to exist
    StatusCode,  \* the status codes that may be recorded
    Reason,      \* the errors that may be recorded
    MaxAttempts, \* the largest budget of a generation
    NULL         \* no dead letter

VARIABLES
    phase,       \* none, queued, succeeded, dead or cancelled
    generation,  \* how often the delivery was replayed
    attempts,    \* attempts recorded in this generation
    log,         \* every attempt ever recorded
    letter       \* the dead letter's reason, or NULL

lifecycleVars == <<phase, generation, attempts, log, letter>>

LInit ==
    /\ phase = [d \in Delivery |-> "none"]
    /\ generation = [d \in Delivery |-> 0]
    /\ attempts = [d \in Delivery |-> 0]
    /\ log = {}
    /\ letter = [d \in Delivery |-> NULL]

\* An event is accepted: its deliveries are queued together.
Enqueue(S) ==
    /\ \A d \in S : phase[d] = "none"
    /\ phase' = [d \in Delivery |-> IF d \in S THEN "queued" ELSE phase[d]]
    /\ UNCHANGED <<generation, attempts, log, letter>>

\* The outcomes of an attempt: success settles, a permanent failure kills, and
\* a failure worth a retry may be retried if the largest budget allows it.
Verdicts(n, code) ==
    IF Success(code) THEN {"succeeded"}
    ELSE IF Retryable(code) /\ n < MaxAttempts THEN {"queued", "dead"}
    ELSE {"dead"}

\* An attempt is recorded: its row, the counter, the phase and the dead letter
\* change together.
Record(d, code, error) ==
    /\ phase[d] = "queued"
    /\ attempts' = [attempts EXCEPT ![d] = @ + 1]
    /\ \E v \in Verdicts(attempts[d] + 1, code) :
         /\ phase' = [phase EXCEPT ![d] = v]
         /\ letter' = IF v = "dead" THEN [letter EXCEPT ![d] = error]
                                    ELSE letter
    /\ log' = log \cup {[delivery |-> d, generation |-> generation[d],
                         attempt |-> attempts[d] + 1,
                         status_code |-> code, error |-> error]}
    /\ UNCHANGED generation

\* The destination was paused or deleted when its turn came.
Drop(d) ==
    /\ phase[d] = "queued"
    /\ phase' = [phase EXCEPT ![d] = "cancelled"]
    /\ UNCHANGED <<generation, attempts, log, letter>>

\* An operator replays a dead delivery; its history stays.
Revive(d) ==
    /\ phase[d] = "dead"
    /\ phase' = [phase EXCEPT ![d] = "queued"]
    /\ generation' = [generation EXCEPT ![d] = @ + 1]
    /\ attempts' = [attempts EXCEPT ![d] = 0]
    /\ letter' = [letter EXCEPT ![d] = NULL]
    /\ UNCHANGED log

LNext ==
    \/ \E S \in SUBSET Delivery : Enqueue(S)
    \/ \E d \in Delivery :
         \/ \E code \in StatusCode, error \in Reason : Record(d, code, error)
         \/ Drop(d)
         \/ Revive(d)

LSpec == LInit /\ [][LNext]_lifecycleVars
==============================================================================
