---------------------------- MODULE DeliveryQueue ----------------------------
(***************************************************************************)
(* The durable delivery queue: the tables deliveries, delivery_attempts    *)
(* and dead_letters, the workers that claim rows from it, and the API      *)
(* handlers that write the same rows (ingest, replay, endpoint changes).   *)
(*                                                                         *)
(* A worker owns a row through a lease, which expires by itself, and       *)
(* proves its ownership with the random token it claimed the row with      *)
(* (Queue.Claim); Queue.Defer and Queue.Finish change a row only if it     *)
(* still carries that token.  A worker's handling of one claimed row is    *)
(* therefore identified by its token: pc[t], job[t] and result[t] are the  *)
(* local variables of Worker.process for the claim with token t.  Any      *)
(* number of claims may be in progress, in one process or in several, for  *)
(* one row or for different ones.                                          *)
(*                                                                         *)
(* Time is not measured.  Whether next_attempt_at has passed is the        *)
(* Boolean due, and a lease is held or expired; both change by steps of    *)
(* the clock that may happen at any moment, because a paused process or a  *)
(* slow database can outlast every timeout of the code.                    *)
(***************************************************************************)
EXTENDS Retry, FiniteSets

CONSTANTS
    Event,         \* accepted events: (project_id, event_id) pairs
    Endpoint,      \* destinations of one project
    Token,         \* lease tokens: security.Token never repeats, so each
                   \* is used for one claim; a finite set bounds the claims
    StatusCode,    \* status codes a worker may record; 0 is "no answer"
    MaxAttempts,   \* the largest max_attempts an endpoint may have (10)
    MaxGeneration, \* bound on the replays of one delivery
    NULL           \* SQL NULL, and a local variable with no value

ASSUME StatusCodeAssumption == StatusCode \subseteq Nat /\ 0 \in StatusCode
ASSUME MaxAttemptsAssumption == MaxAttempts \in Nat \ {0}
ASSUME MaxGenerationAssumption == MaxGeneration \in Nat
ASSUME NullAssumption ==
    /\ NULL \notin Token
    /\ NULL \notin {"", "HTTP", "network error", "request timeout"}

VARIABLES
    events,            \* the events that were accepted
    endpoints,         \* the endpoint rows
    deliveries,        \* the delivery rows, by (event, endpoint)
    delivery_attempts, \* the attempt rows
    dead_letters,      \* the dead letter's reason, or NULL if there is none
    replaying,         \* replay transactions between their SELECT of this
                       \* delivery and their end
    pc,                \* where the claim with this token is in process
    job,               \* the Job that Claim returned
    result,            \* status and reason of the request, once it returned
    acknowledged,      \* history: (delivery, generation) pairs for which the
                       \* destination answered 2xx to a request
    budget             \* history: the endpoint's max_attempts at the delivery's
                       \* last claim, and at the claim that its last recorded
                       \* attempt was sent under; 0 if there is none

workerVars == <<pc, job, result>>
vars == <<events, endpoints, deliveries, delivery_attempts, dead_letters,
          replaying, workerVars, acknowledged, budget>>

-----------------------------------------------------------------------------
(* Rows and local values.                                                   *)

\* UNIQUE(event_id, endpoint_id); the id is a digest of the two.
Delivery == Event \X Endpoint

\* What process and Finish record as the reason of an attempt.
Reason == {"", "HTTP", "network error", "request timeout"}

Status == {"none", "pending", "processing", "retrying",
           "succeeded", "dead", "cancelled"}

Row == [status : Status, attempt_count : Nat, generation : Nat,
        due : BOOLEAN, lease_token : Token \cup {NULL},
        lease : {"none", "held", "expired"}]

Policy == [active : BOOLEAN, deleted : BOOLEAN, max_attempts : 1..MaxAttempts]

Job == [delivery : Delivery, attempt : Nat, generation : Nat,
        max_attempts : 1..MaxAttempts, active : BOOLEAN]

Result == [status_code : StatusCode, reason : Reason]

Attempt == [delivery : Delivery, generation : Nat, attempt : Nat,
            status_code : StatusCode, error : Reason]

Budget == [claim : 0..MaxAttempts, attempt : 0..MaxAttempts]

\* Before the event is accepted there is no row.
Absent == [status |-> "none", attempt_count |-> 0, generation |-> 0,
           due |-> FALSE, lease_token |-> NULL, lease |-> "none"]

\* The defaults of a row inserted by the fan-out.
Inserted == [status |-> "pending", attempt_count |-> 0, generation |-> 0,
             due |-> TRUE, lease_token |-> NULL, lease |-> "none"]

\* ep.active AND ep.deleted_at IS NULL
Live(p) == endpoints[p].active /\ ~endpoints[p].deleted

\* A claim is in progress from Claim until process returns.
Busy(t) == pc[t] \in {"claimed", "sending", "responded"}

\* Faulty variant: the fence forgets the token.
OwnsWithoutToken(t) ==
    deliveries[job[t].delivery].status = "processing"

\* The fence of Defer and Finish: WHERE id AND lease_token AND processing.
Owns(t) ==
    /\ deliveries[job[t].delivery].lease_token = t
    /\ deliveries[job[t].delivery].status = "processing"

\* Faulty variants: expired leases are not looked for; the status is not.
ClaimableUnleased(row) == row.status \in {"pending", "retrying"} /\ row.due

ClaimableAnyStatus(row) ==
    \/ row.status \notin {"none", "processing"} /\ row.due
    \/ row.status = "processing" /\ row.lease = "expired"

\* The clause of Claim's candidate query.
Claimable(row) ==
    \/ row.status \in {"pending", "retrying"} /\ row.due
    \/ row.status = "processing" /\ row.lease = "expired"

-----------------------------------------------------------------------------
Init ==
    /\ events = {}
    /\ endpoints \in [Endpoint -> [active : BOOLEAN, deleted : {FALSE},
                                   max_attempts : 1..MaxAttempts]]
    /\ deliveries = [d \in Delivery |-> Absent]
    /\ delivery_attempts = {}
    /\ dead_letters = [d \in Delivery |-> NULL]
    /\ replaying = [d \in Delivery |-> 0]
    /\ pc = [t \in Token |-> "unused"]
    /\ job = [t \in Token |-> NULL]
    /\ result = [t \in Token |-> NULL]
    /\ acknowledged = {}
    /\ budget = [d \in Delivery |-> [claim |-> 0, attempt |-> 0]]

-----------------------------------------------------------------------------
(* The API.                                                                 *)

\* ingest, the transaction that first stores the event: one delivery row per
\* endpoint that is live at that moment.  A repeated event inserts nothing.
Accept(ev) ==
    /\ ev \notin events
    /\ events' = events \cup {ev}
    /\ deliveries' = [d \in Delivery |->
                        IF d[1] = ev /\ Live(d[2]) THEN Inserted
                                                   ELSE deliveries[d]]
    /\ UNCHANGED <<endpoints, delivery_attempts, dead_letters, replaying,
                   workerVars, acknowledged, budget>>

\* updateEndpoint, its final UPDATE ... WHERE id: it may come after a DELETE
\* of the endpoint that its own SELECT did not see.
UpdateEndpoint(p, active, max_attempts) ==
    /\ endpoints' = [endpoints EXCEPT ![p].active = active,
                                      ![p].max_attempts = max_attempts]
    /\ UNCHANGED <<events, deliveries, delivery_attempts, dead_letters,
                   replaying, workerVars, acknowledged, budget>>

\* deleteEndpoint.
DeleteEndpoint(p) ==
    /\ ~endpoints[p].deleted
    /\ endpoints' = [endpoints EXCEPT ![p].active = FALSE,
                                      ![p].deleted = TRUE]
    /\ UNCHANGED <<events, deliveries, delivery_attempts, dead_letters,
                   replaying, workerVars, acknowledged, budget>>

\* replay's test of the row it has just locked.
Replayable(d) == deliveries[d].status = "dead" /\ Live(d[2])

\* The row lock of a second replay is granted only when the first one ends.
ReplayLockFree(d) == replaying[d] = 0

\* replay, up to its UPDATE: SELECT ... FOR UPDATE OF d, then the test.  The
\* endpoint is not locked and may change before the transaction commits.
ReplayBegin(d) ==
    /\ ReplayLockFree(d)
    /\ Replayable(d)
    /\ deliveries[d].generation < MaxGeneration
    /\ replaying' = [replaying EXCEPT ![d] = @ + 1]
    /\ UNCHANGED <<events, endpoints, deliveries, delivery_attempts,
                   dead_letters, workerVars, acknowledged, budget>>

\* Faulty variant: the generation stays.
ReplayedSameGeneration(row) ==
    [status |-> "pending", attempt_count |-> 0,
     generation |-> row.generation, due |-> TRUE,
     lease_token |-> NULL, lease |-> "none"]

\* What replay writes into a row.
Replayed(row) ==
    [status |-> "pending", attempt_count |-> 0,
     generation |-> row.generation + 1, due |-> TRUE,
     lease_token |-> NULL, lease |-> "none"]

\* Faulty variant: the dead letter stays.
ReplayKeepsLetter(d) ==
    /\ replaying[d] > 0
    /\ replaying' = [replaying EXCEPT ![d] = @ - 1]
    /\ deliveries' = [deliveries EXCEPT ![d] = Replayed(@)]
    /\ budget' = [budget EXCEPT ![d].attempt = 0]
    /\ UNCHANGED <<events, endpoints, delivery_attempts, dead_letters,
                   workerVars, acknowledged>>

\* replay, its writes and commit.
ReplayCommit(d) ==
    /\ replaying[d] > 0
    /\ replaying' = [replaying EXCEPT ![d] = @ - 1]
    /\ deliveries' = [deliveries EXCEPT ![d] = Replayed(@)]
    /\ dead_letters' = [dead_letters EXCEPT ![d] = NULL]
    /\ budget' = [budget EXCEPT ![d].attempt = 0]
    /\ UNCHANGED <<events, endpoints, delivery_attempts, workerVars,
                   acknowledged>>

\* replay, its deferred Rollback after an error or a lost client.
ReplayRollback(d) ==
    /\ replaying[d] > 0
    /\ replaying' = [replaying EXCEPT ![d] = @ - 1]
    /\ UNCHANGED <<events, endpoints, deliveries, delivery_attempts,
                   dead_letters, workerVars, acknowledged, budget>>

-----------------------------------------------------------------------------
(* The workers.                                                             *)

\* What Claim writes into a row.
Claimed(row, t) ==
    [status |-> "processing", attempt_count |-> row.attempt_count,
     generation |-> row.generation, due |-> row.due,
     lease_token |-> t, lease |-> "held"]

\* Queue.Claim: one statement that picks a candidate row, stamps it with a
\* fresh token and lease, and reads the endpoint's policy.  ORDER BY is left
\* out: rows locked by other claims are skipped, so any candidate may win.
Claim(d, t) ==
    /\ pc[t] = "unused"
    /\ Claimable(deliveries[d])
    /\ deliveries' = [deliveries EXCEPT ![d] = Claimed(@, t)]
    /\ pc' = [pc EXCEPT ![t] = "claimed"]
    /\ job' = [job EXCEPT ![t] =
                 [delivery     |-> d,
                  attempt      |-> deliveries[d].attempt_count + 1,
                  generation   |-> deliveries[d].generation,
                  max_attempts |-> endpoints[d[2]].max_attempts,
                  active       |-> Live(d[2])]]
    /\ budget' = [budget EXCEPT ![d].claim = endpoints[d[2]].max_attempts]
    /\ UNCHANGED <<events, endpoints, delivery_attempts, dead_letters,
                   replaying, result, acknowledged>>

\* The claim with token t is over: process returned, or its process died.
Return(t) ==
    /\ pc' = [pc EXCEPT ![t] = "done"]
    /\ job' = [job EXCEPT ![t] = NULL]
    /\ result' = [result EXCEPT ![t] = NULL]

\* What Defer writes into a row.
Deferred(row, status, due) ==
    [status |-> status, attempt_count |-> row.attempt_count,
     generation |-> row.generation, due |-> due,
     lease_token |-> NULL, lease |-> "none"]

\* Queue.Defer: fenced, and ErrStale is only logged.
Defer(t, status, due) ==
    /\ deliveries' =
         IF Owns(t)
         THEN [deliveries EXCEPT ![job[t].delivery] = Deferred(@, status, due)]
         ELSE deliveries
    /\ Return(t)
    /\ UNCHANGED <<events, endpoints, delivery_attempts, dead_letters,
                   replaying, acknowledged, budget>>

\* process: the endpoint was paused or deleted when the row was claimed.
Cancel(t) ==
    /\ pc[t] = "claimed"
    /\ ~job[t].active
    /\ Defer(t, "cancelled", TRUE)

\* process: the endpoint's rate limit denies the request, the limiter does
\* not answer, or the signing secret cannot be decrypted.
Throttle(t) ==
    /\ pc[t] = "claimed"
    /\ job[t].active
    /\ Defer(t, "retrying", FALSE)

\* process: the limiter allows the request and it is sent.
Send(t) ==
    /\ pc[t] = "claimed"
    /\ job[t].active
    /\ pc' = [pc EXCEPT ![t] = "sending"]
    /\ UNCHANGED <<events, endpoints, deliveries, delivery_attempts,
                   dead_letters, replaying, job, result, acknowledged, budget>>

\* The destination has answered 2xx to a request of claim t.
Acknowledge(t) ==
    acknowledged' =
        acknowledged \cup {<<job[t].delivery, job[t].generation>>}

\* The reasons process may record with a status code.  The status is known
\* once the headers are read; the deadline may pass while the body is read,
\* whose error is ignored, and then only the reason says "request timeout".
ReasonsFor(code) ==
    {"request timeout"} \cup
        {IF code = 0 THEN "network error"
         ELSE IF Success(code) THEN "" ELSE "HTTP"}

Returned(t, code, reason) ==
    /\ pc' = [pc EXCEPT ![t] = "responded"]
    /\ result' = [result EXCEPT ![t] =
                    [status_code |-> code, reason |-> reason]]
    /\ UNCHANGED <<events, endpoints, deliveries, delivery_attempts,
                   dead_letters, replaying, job, budget>>

\* process: the destination's answer arrives.
Respond(t, code, reason) ==
    /\ pc[t] = "sending"
    /\ code # 0
    /\ reason \in ReasonsFor(code)
    /\ Returned(t, code, reason)
    /\ IF Success(code) THEN Acknowledge(t) ELSE UNCHANGED acknowledged

\* process: no answer arrives.  The request may or may not have reached the
\* destination, and the destination may have accepted it.
NoAnswer(t, reason) ==
    /\ pc[t] = "sending"
    /\ reason \in ReasonsFor(0)
    /\ Returned(t, 0, reason)
    /\ UNCHANGED acknowledged \/ Acknowledge(t)

\* Faulty variants: permanent failures are retried; the last attempt is
\* retried; the budget is not looked at, or is the same for every endpoint; no
\* answer counts as success.
SettleRetriesAll(j, code) ==
    IF Success(code) THEN "succeeded"
    ELSE IF j.attempt < j.max_attempts THEN "retrying" ELSE "dead"

SettleOneMore(j, code) ==
    IF Success(code) THEN "succeeded"
    ELSE IF Retryable(code) /\ j.attempt <= j.max_attempts THEN "retrying"
    ELSE "dead"

SettleNoBudget(j, code) ==
    IF Success(code) THEN "succeeded"
    ELSE IF Retryable(code) THEN "retrying" ELSE "dead"

SettleLargestBudget(j, code) ==
    IF Success(code) THEN "succeeded"
    ELSE IF Retryable(code) /\ j.attempt < MaxAttempts THEN "retrying"
    ELSE "dead"

SettleBelow300(j, code) ==
    IF code < 300 THEN "succeeded"
    ELSE IF Retryable(code) /\ j.attempt < j.max_attempts THEN "retrying"
    ELSE "dead"

\* Finish's choice of the new status.
Settle(j, code) ==
    IF Success(code) THEN "succeeded"
    ELSE IF Retryable(code) /\ j.attempt < j.max_attempts THEN "retrying"
    ELSE "dead"

\* What Finish writes into a row; Backoff is never zero, so a row that waits
\* for a retry is not due.
Settled(row, j, code) ==
    [status |-> Settle(j, code), attempt_count |-> j.attempt,
     generation |-> row.generation, due |-> Settle(j, code) # "retrying",
     lease_token |-> NULL, lease |-> "none"]

\* Faulty variant: attempts are numbered from zero.
AttemptOfZeroBased(j, r) ==
    [delivery |-> j.delivery, generation |-> j.generation,
     attempt |-> j.attempt - 1, status_code |-> r.status_code,
     error |-> r.reason]

\* The attempt row that Finish inserts.
AttemptOf(j, r) ==
    [delivery |-> j.delivery, generation |-> j.generation,
     attempt |-> j.attempt, status_code |-> r.status_code,
     error |-> r.reason]

\* UNIQUE(delivery_id, generation, attempt): the INSERT of a row whose key
\* exists fails, and Finish rolls back.
KeyFree(j) ==
    \A a \in delivery_attempts :
        ~ /\ a.delivery = j.delivery
          /\ a.generation = j.generation
          /\ a.attempt = j.attempt

\* Queue.Finish by the owner: one transaction under the row's lock.
Finish(t) ==
    /\ pc[t] = "responded"
    /\ Owns(t)
    /\ KeyFree(job[t])
    /\ LET j == job[t]
           r == result[t]
       IN  /\ deliveries' = [deliveries EXCEPT ![j.delivery] =
                               Settled(@, j, r.status_code)]
           /\ delivery_attempts' = delivery_attempts \cup {AttemptOf(j, r)}
           /\ dead_letters' =
                IF Settle(j, r.status_code) = "dead"
                THEN [dead_letters EXCEPT ![j.delivery] = r.reason]
                ELSE dead_letters
           /\ budget' = [budget EXCEPT ![j.delivery].attempt =
                            budget[j.delivery].claim]
    /\ Return(t)
    /\ UNCHANGED <<events, endpoints, replaying, acknowledged>>

\* Queue.Finish returns ErrStale, or the error of its INSERT: only logged.
FinishRefused(t) ==
    /\ pc[t] = "responded"
    /\ ~Owns(t) \/ ~KeyFree(job[t])
    /\ Return(t)
    /\ UNCHANGED <<events, endpoints, deliveries, delivery_attempts,
                   dead_letters, replaying, acknowledged, budget>>

\* The claim ends without touching the row: the process dies, its context is
\* cancelled by a shutdown, or the database fails under Claim's answer, Defer
\* or Finish.  A request on its way may still be accepted.
Abandon(t) ==
    /\ Busy(t)
    /\ \/ UNCHANGED acknowledged
       \/ pc[t] = "sending" /\ Acknowledge(t)
    /\ Return(t)
    /\ UNCHANGED <<events, endpoints, deliveries, delivery_attempts,
                   dead_letters, replaying, budget>>

-----------------------------------------------------------------------------
(* The clock of the database.                                               *)

\* next_attempt_at passes.
BecomeDue(d) ==
    /\ deliveries[d].status \in {"pending", "retrying"}
    /\ ~deliveries[d].due
    /\ deliveries' = [deliveries EXCEPT ![d].due = TRUE]
    /\ UNCHANGED <<events, endpoints, delivery_attempts, dead_letters,
                   replaying, workerVars, acknowledged, budget>>

\* lease_until passes.
LeaseExpire(d) ==
    /\ deliveries[d].lease = "held"
    /\ deliveries' = [deliveries EXCEPT ![d].lease = "expired"]
    /\ UNCHANGED <<events, endpoints, delivery_attempts, dead_letters,
                   replaying, workerVars, acknowledged, budget>>

-----------------------------------------------------------------------------
Next ==
    \/ \E ev \in Event : Accept(ev)
    \/ \E p \in Endpoint :
         \/ \E active \in BOOLEAN, m \in 1..MaxAttempts :
              UpdateEndpoint(p, active, m)
         \/ DeleteEndpoint(p)
    \/ \E d \in Delivery :
         \/ ReplayBegin(d) \/ ReplayCommit(d) \/ ReplayRollback(d)
         \/ BecomeDue(d) \/ LeaseExpire(d)
         \/ \E t \in Token : Claim(d, t)
    \/ \E t \in Token :
         \/ Cancel(t) \/ Throttle(t) \/ Send(t)
         \/ \E code \in StatusCode, reason \in Reason :
              Respond(t, code, reason)
         \/ \E reason \in Reason : NoAnswer(t, reason)
         \/ Finish(t) \/ FinishRefused(t) \/ Abandon(t)

Spec == Init /\ [][Next]_vars

-----------------------------------------------------------------------------
(* Properties.                                                              *)

\* Every variable holds a value of its type; a claim has a Job exactly while
\* process runs, and a result exactly between the request and Finish.
TypeOK ==
    /\ events \subseteq Event
    /\ endpoints \in [Endpoint -> Policy]
    /\ deliveries \in [Delivery -> Row]
    /\ delivery_attempts \subseteq Attempt
    /\ dead_letters \in [Delivery -> Reason \cup {NULL}]
    /\ replaying \in [Delivery -> Nat]
    /\ pc \in [Token -> {"unused", "claimed", "sending", "responded", "done"}]
    /\ job \in [Token -> Job \cup {NULL}]
    /\ result \in [Token -> Result \cup {NULL}]
    /\ \A t \in Token : /\ Busy(t) => job[t] \in Job
                        /\ pc[t] = "responded" => result[t] \in Result
    /\ acknowledged \subseteq Delivery \X Nat
    /\ budget \in [Delivery -> Budget]

\* A delivery that still has work to do.
Queued(d) == deliveries[d].status \in {"pending", "processing", "retrying"}

\* The attempts of the row's current generation.
Current(a) == a.generation = deliveries[a.delivery].generation

\* The last attempt that the row's counter stands for.
Last(a) == Current(a) /\ a.attempt = deliveries[a.delivery].attempt_count

\* A row is processing exactly while it carries a lease, and the claim that
\* holds its token works on the row's present generation and on the attempt
\* after the last one recorded.  Finish writes attempt_count and the attempt's
\* key from the Job that Claim returned, however long ago; with the fence this
\* is what makes those old values right.
OwnerIsCurrent ==
    /\ \A d \in Delivery :
         LET row == deliveries[d]
         IN  /\ (row.status = "processing") <=> (row.lease_token # NULL)
             /\ (row.status = "processing") <=> (row.lease # "none")
             /\ row.lease_token # NULL => pc[row.lease_token] # "unused"
    /\ \A t \in Token :
         Busy(t) /\ Owns(t) =>
           LET row == deliveries[job[t].delivery]
           IN  /\ job[t].generation = row.generation
               /\ job[t].attempt = row.attempt_count + 1

\* The owner's INSERT into delivery_attempts never meets its UNIQUE key.  If
\* it did, Finish would roll back on every attempt and the row would be
\* claimed and sent for ever.
AttemptKeyFree == \A t \in Token : Busy(t) /\ Owns(t) => KeyFree(job[t])

\* The attempt history of a delivery is complete and has no duplicate: in its
\* current generation the attempts are numbered 1 to attempt_count, none is
\* ahead of the row, and no two rows share a key, whatever claims raced.
AttemptLogExact ==
    /\ \A a \in delivery_attempts :
         /\ a.attempt >= 1
         /\ a.generation <= deliveries[a.delivery].generation
         /\ Current(a) => a.attempt <= deliveries[a.delivery].attempt_count
    /\ \A a, b \in delivery_attempts :
         /\ a.delivery = b.delivery
         /\ a.generation = b.generation
         /\ a.attempt = b.attempt
         => a = b
    /\ \A d \in Delivery : \A n \in 1..deliveries[d].attempt_count :
         \E a \in delivery_attempts :
            a.delivery = d /\ Current(a) /\ a.attempt = n

\* The status of a row agrees with its history.  A 2xx answer once recorded
\* is the delivery's last attempt and the delivery has succeeded: it is never
\* sent again, retried or replayed.  Of the other attempts of the generation
\* only the last may be one that is not worth a retry, and then the delivery
\* is dead.
StatusMatchesLog ==
    \A a \in delivery_attempts :
        LET row == deliveries[a.delivery]
        IN  /\ Success(a.status_code) => Last(a) /\ row.status = "succeeded"
            /\ row.status = "succeeded" /\ Last(a) => Success(a.status_code)
            /\ Current(a) /\ ~Retryable(a.status_code) =>
                 Last(a) /\ row.status \in {"succeeded", "dead"}

\* A delivery has a dead letter exactly while it is dead, and its reason is
\* the error of the delivery's last attempt, also after replays and renewed
\* failures.
DeadLetterIsLastError ==
    \A d \in Delivery :
        /\ (deliveries[d].status = "dead") <=> (dead_letters[d] # NULL)
        /\ \A a \in delivery_attempts :
             a.delivery = d /\ Last(a) /\ deliveries[d].status = "dead" =>
               a.error = dead_letters[d]

\* The budget of an attempt is the endpoint's max_attempts at the claim it was
\* sent under, whatever PATCH changed before and after: a delivery waits for
\* another attempt only if its last one left room in that budget, and a failure
\* worth a retry kills it only if that budget is used up.  So a max_attempts
\* that is lowered below what was recorded still lets through the one attempt
\* already queued, and no second one.
BudgetRespected ==
    \A d \in Delivery :
        LET row == deliveries[d]
        IN  /\ Queued(d) /\ row.attempt_count > 0 =>
                 row.attempt_count < budget[d].attempt
            /\ row.status \in {"succeeded", "dead"} => row.attempt_count > 0
            /\ \A a \in delivery_attempts :
                 /\ a.delivery = d /\ Last(a)
                 /\ row.status = "dead" /\ Retryable(a.status_code)
                 => row.attempt_count >= budget[d].attempt

\* Success is never invented: a delivery that says succeeded was accepted by
\* its destination in this generation.  (The converse does not hold: an
\* accepted request whose answer is lost is sent again.)
NoPhantomSuccess ==
    \A d \in Delivery :
        deliveries[d].status = "succeeded" =>
            <<d, deliveries[d].generation>> \in acknowledged

\* At most one replay works on a delivery, and while it does the delivery
\* stays dead: the UPDATE of replay repeats none of the tests of its SELECT.
ReplayHoldsDead ==
    \A d \in Delivery :
        /\ replaying[d] <= 1
        /\ replaying[d] = 1 => deliveries[d].status = "dead"

\* A delivery exists only once its event is accepted, and what does not exist
\* has no history.
AbsentUntilAccepted ==
    \A d \in Delivery :
        /\ d[1] \notin events => deliveries[d].status = "none"
        /\ deliveries[d].status = "none" => deliveries[d] = Absent

\* A worker that is about to record a 2xx answer has one from its destination.
AnswerIsReal ==
    \A t \in Token :
        pc[t] = "responded" /\ Success(result[t].status_code) =>
            <<job[t].delivery, job[t].generation>> \in acknowledged

\* The owner of a row works with the max_attempts of the row's last claim.
BudgetIsClaimed ==
    \A t \in Token :
        Busy(t) /\ Owns(t) =>
            job[t].max_attempts = budget[job[t].delivery].claim

\* The inductive invariant: what the tables say of each other, and what ties
\* the workers and replays in progress to them.
LedgerInv ==
    /\ AttemptLogExact
    /\ StatusMatchesLog
    /\ DeadLetterIsLastError
    /\ BudgetRespected
    /\ NoPhantomSuccess

QueueInv ==
    /\ TypeOK
    /\ LedgerInv
    /\ OwnerIsCurrent
    /\ BudgetIsClaimed
    /\ AnswerIsReal
    /\ ReplayHoldsDead
    /\ AbsentUntilAccepted

\* No step takes a row back: the pair (generation, attempt_count) never falls
\* in the lexicographic order, and the generation grows by replays of a dead
\* row only, one at a time.
NeverRewinds ==
    [][\A d \in Delivery :
         LET old == deliveries[d]
             new == deliveries[d]'
         IN  \/ /\ new.generation = old.generation
                /\ new.attempt_count \in {old.attempt_count,
                                          old.attempt_count + 1}
             \/ /\ new.generation = old.generation + 1
                /\ old.status = "dead" /\ new.status = "pending"
      ]_vars

\* Rows that succeeded or were cancelled are final, and a dead row changes by
\* a replay only: no stale worker, late retry or reactivated endpoint revives
\* them.
TerminalIsFinal ==
    [][\A d \in Delivery :
         /\ deliveries[d].status \in {"succeeded", "cancelled"} =>
              deliveries[d]'.status = deliveries[d].status
         /\ deliveries[d].status = "dead" =>
              deliveries[d]'.status \in {"dead", "pending"}
      ]_vars

\* The history is append-only, and every new attempt is the next one of the
\* row it belongs to, recorded in the step that advances that row.
HistoryAppendOnly ==
    [][/\ delivery_attempts \subseteq delivery_attempts'
       /\ \A a \in delivery_attempts' \ delivery_attempts :
            /\ a.generation = deliveries[a.delivery].generation
            /\ a.attempt = deliveries[a.delivery].attempt_count + 1
            /\ deliveries[a.delivery]'.attempt_count = a.attempt
      ]_vars

\* "Retry network failures, timeout, 408, 429 and 5xx." (README.md:114): an
\* attempt recorded as a request timeout does not settle its delivery while
\* the budget lasts.
TimeoutsAreRetryable ==
    \A a \in delivery_attempts :
        a.error = "request timeout" => Retryable(a.status_code)

-----------------------------------------------------------------------------
(* The queue implements the ledger.                                         *)

Phase(status) ==
    IF status \in {"pending", "processing", "retrying"} THEN "queued"
    ELSE status

Ledger == INSTANCE DeliveryLifecycle WITH
    phase      <- [d \in Delivery |-> Phase(deliveries[d].status)],
    generation <- [d \in Delivery |-> deliveries[d].generation],
    attempts   <- [d \in Delivery |-> deliveries[d].attempt_count],
    log        <- delivery_attempts,
    letter     <- dead_letters

\* Seen from outside, the queue behaves as the ledger of DeliveryLifecycle:
\* claims, expired leases, stale workers, crashes and lost answers are
\* invisible, and each recorded attempt is one atomic step.
ImplementsLifecycle == Ledger!LSpec

==============================================================================
