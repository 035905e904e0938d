------------------------------- MODULE Exchange -------------------------------
(***************************************************************************)
(* Deliveries to the demo receiver from end to end: the attempts that a    *)
(* worker makes (process, Finish), the schedule of retries (Retry) and the *)
(* receiver's answers (Receiver), with answers that get lost, workers that *)
(* die before they record one, secrets that are changed on either side,    *)
(* and clocks that disagree.  Leases, replays and overlapping claims are   *)
(* in DeliveryQueue; here a delivery is with one worker at a time.         *)
(***************************************************************************)
EXTENDS Retry, Receiver

CONSTANTS
    Setup,       \* what is fixed in a behaviour: base_delay_seconds, the
                 \* query of the URL and the receiver's clock minus the
                 \* worker's, in half seconds
    Budget,      \* max_attempts of each delivery's endpoint
    HTTPTimeout, \* of a request, in half seconds
    MaxLosses,   \* bound: answers lost and workers that die
    MaxChanges   \* bound: changes of a secret and restarts

ASSUME ExchangeAssumption ==
    /\ Setup \subseteq [base : 1..Hour, failures : Int, sleep : Int, status : Int, skew : Int]
    /\ Budget \in [Delivery -> 1..10]
    /\ {HTTPTimeout, MaxLosses, MaxChanges} \subseteq Nat

VARIABLES
    setup,
    secret,   \* the endpoint's secret, as stored
    status,   \* of the delivery rows
    attempt,  \* attempt_count of the rows
    pc,       \* where the worker is with a delivery
    signed,   \* the secret it got with its claim
    code,     \* the status code it is about to record; 0 is no answer
    delay,    \* the reference: the full delay after this attempt, in seconds
    lost,     \* history: attempts whose answer was lost, per delivery
    differed, \* history: the two secrets differed while this claim was open
    losses, changes

worker == <<pc, signed, code>>
rows == <<status, attempt, delay>>
history == <<lost, differed>>
vars == <<setup, secret, rows, worker, history, losses, changes, rxVars>>

Init ==
    /\ setup \in Setup
    /\ RxInit
    /\ secret \in Secret
    /\ status = [d \in Delivery |-> "queued"]
    /\ attempt = [d \in Delivery |-> 0]
    /\ pc = [d \in Delivery |-> "idle"]
    /\ signed = [d \in Delivery |-> secret]
    /\ code = [d \in Delivery |-> 0]
    /\ delay = [d \in Delivery |-> 0]
    /\ lost = [d \in Delivery |-> 0]
    /\ differed = [d \in Delivery |-> FALSE]
    /\ losses = 0
    /\ changes = 0

-----------------------------------------------------------------------------
(* The worker.                                                              *)

Goto(d, label) == pc' = [pc EXCEPT ![d] = label]

Result(d, c) ==
    /\ code' = [code EXCEPT ![d] = c]
    /\ Goto(d, "returned")

\* Decrypt opens the secret that came with the claim.
SignedNow(d) == [signed EXCEPT ![d] = secret]

\* A due row is claimed, let pass by the limiter, and its secret decrypted.
Claim(d) ==
    /\ status[d] = "queued"
    /\ pc[d] = "idle"
    /\ Goto(d, "claimed")
    /\ signed' = SignedNow(d)
    /\ differed' = [differed EXCEPT ![d] = secret # rxSecret]
    /\ UNCHANGED <<setup, secret, rows, code, lost, losses, changes, rxVars>>

\* The request reaches the receiver, late half seconds after the second that
\* its time stamp names: up to the timeout for the way, and less than a second
\* because Unix() cuts the stamp to whole ones.
Reach(d, late) ==
    /\ pc[d] = "claimed"
    /\ \/ /\ ~Verify(signed[d], late + setup.skew)
          /\ Result(d, 401)
          /\ UNCHANGED rxVars
       \/ /\ Verify(signed[d], late + setup.skew)
          /\ Count(d)
          /\ IF FailsOnPurpose(d, setup) THEN Result(d, 500)
             ELSE Goto(d, "napping") /\ UNCHANGED code
    /\ UNCHANGED <<setup, secret, rows, signed, history, losses, changes>>

\* The handler wakes up in time, or finds that the worker has given up.
Wake(d) ==
    /\ pc[d] = "napping"
    /\ Result(d, IF Nap(setup) < HTTPTimeout THEN Chosen(setup) ELSE 0)
    /\ UNCHANGED <<setup, secret, rows, signed, history, losses, changes, rxVars>>

\* The request or its answer is lost: a network error or a timeout.
Lose(d) ==
    /\ losses < MaxLosses
    /\ losses' = losses + 1
    /\ pc[d] \in {"claimed", "napping", "returned"}
    /\ Result(d, 0)
    /\ lost' = [lost EXCEPT ![d] = @ + 1]
    /\ UNCHANGED <<setup, secret, rows, signed, differed, changes, rxVars>>

\* The worker dies, or Finish fails: the attempt is not recorded, and the row
\* is claimed again when its lease has run out.
Die(d) ==
    /\ losses < MaxLosses
    /\ losses' = losses + 1
    /\ pc[d] \in {"claimed", "napping", "returned"}
    /\ code' = [code EXCEPT ![d] = 0]
    /\ Goto(d, "idle")
    /\ UNCHANGED <<setup, secret, rows, signed, history, changes, rxVars>>

\* Faulty variant: the attempt to be recorded is counted twice.
SettleOneLess(d) ==
    IF Success(code[d]) THEN "succeeded"
    ELSE IF Retryable(code[d]) /\ attempt[d] + 2 < Budget[d] THEN "queued"
    ELSE "dead"

\* Finish: the attempt is recorded, and the row settled or put off.
Settle(d) ==
    IF Success(code[d]) THEN "succeeded"
    ELSE IF Retryable(code[d]) /\ attempt[d] + 1 < Budget[d] THEN "queued"
    ELSE "dead"

Doubled(n) == IF 2 * n > Hour THEN Hour ELSE 2 * n

Finish(d) ==
    /\ pc[d] = "returned"
    /\ status' = [status EXCEPT ![d] = Settle(d)]
    /\ attempt' = [attempt EXCEPT ![d] = @ + 1]
    /\ delay' = [delay EXCEPT ![d] =
                   IF attempt[d] = 0 THEN setup.base ELSE Doubled(@)]
    /\ code' = [code EXCEPT ![d] = 0]
    /\ Goto(d, "idle")
    /\ UNCHANGED <<setup, secret, signed, history, losses, changes, rxVars>>

-----------------------------------------------------------------------------
(* Changes on either side.                                                  *)

Differs == [d \in Delivery |->
              differed[d] \/ (pc[d] # "idle" /\ secret' # rxSecret')]

\* PATCH of the endpoint's secret.
Rotate(s) ==
    /\ changes < MaxChanges
    /\ changes' = changes + 1
    /\ secret' = s
    /\ UNCHANGED <<setup, rows, worker, lost, losses, rxVars>>
    /\ differed' = Differs

RestartReceiver(s) ==
    /\ changes < MaxChanges
    /\ changes' = changes + 1
    /\ Restart(s)
    /\ UNCHANGED <<setup, secret, rows, worker, lost, losses>>
    /\ differed' = Differs

Next ==
    \/ \E d \in Delivery :
         \/ Claim(d) \/ Wake(d) \/ Lose(d) \/ Die(d) \/ Finish(d)
         \/ \E late \in 0..(HTTPTimeout + 1) : Reach(d, late)
    \/ \E s \in Secret : Rotate(s) \/ RestartReceiver(s)

Spec == Init /\ [][Next]_vars

-----------------------------------------------------------------------------
(* Properties.                                                              *)

\* "exponential base, one-hour cap, jitter between half/full delay"
\* (README.md:114-115): the shift and the cap of Backoff give for every base
\* delay and every attempt of a budget what doubling and capping step by step
\* gives, in half seconds: from half of the delay to the whole of it.  Budgets
\* end at ten attempts, so that the clamps of Backoff change nothing here.
BackoffFollowsRule ==
    \A d \in Delivery : attempt[d] > 0 =>
        Backoff(attempt[d], setup.base) = delay[d] .. 2 * delay[d]

\* The way of every request fits into the receiver's window.
ClocksAgree == -Window <= setup.skew /\ setup.skew + HTTPTimeout + 1 <= Window

\* The receiver would accept a request in time.
Able == Success(Chosen(setup)) /\ Nap(setup) < HTTPTimeout /\ ClocksAgree

\* How many requests of a delivery the receiver is to fail.
Failures == IF setup.failures > 0 THEN setup.failures ELSE 0

\* A destination that is set to recover after some failures does: when it would
\* accept the delivery in time, the delivery is given up only if answers were
\* lost for the rest of its budget, a request was refused because of its secret,
\* or the receiver forgot its counts on the way.  Requests that were counted but
\* never recorded do no harm.
RecoversWithinBudget ==
    \A d \in Delivery :
        status[d] = "dead" /\ Able /\ ~differed[d] /\ d \notin forgotten
        => lost[d] + Failures >= Budget[d]

\* A genuine request is refused for a reason only: the two secrets differed at
\* some moment between its claim and its arrival, or the clocks are so far
\* apart that the way of a request no longer fits into the window.  A refusal
\* is for good: 401 is not retried.
RefusalHasCause ==
    \A d \in Delivery :
        code[d] = 401 /\ Chosen(setup) # 401 => differed[d] \/ ~ClocksAgree

-----------------------------------------------------------------------------
(* The inductive invariant.                                                 *)

TypeOK ==
    /\ setup \in Setup /\ secret \in Secret /\ rxSecret \in Secret
    /\ status \in [Delivery -> {"queued", "succeeded", "dead"}]
    /\ attempt \in [Delivery -> Nat]
    /\ pc \in [Delivery -> {"idle", "claimed", "napping", "returned"}]
    /\ signed \in [Delivery -> Secret]
    /\ code \in [Delivery -> 0..599]
    /\ delay \in [Delivery -> Nat] /\ lost \in [Delivery -> Nat]
    /\ differed \in [Delivery -> BOOLEAN]
    /\ losses \in Nat /\ changes \in Nat
    /\ counts \in [Delivery -> Nat] /\ forgotten \subseteq Delivery

\* A worker has a delivery that is neither settled nor out of its budget, and
\* a code only when it has an answer.
AtWork(d) ==
    /\ pc[d] # "idle" => status[d] = "queued"
    /\ pc[d] # "returned" => code[d] = 0
    /\ status[d] = "queued" => attempt[d] < Budget[d]
    /\ attempt[d] <= Budget[d]

\* A claim under which the secrets never differed was signed with both.
SecretsAgree(d) ==
    pc[d] # "idle" /\ ~differed[d] => signed[d] = secret /\ secret = rxSecret

DelayDoubles(d) == attempt[d] > 0 => delay[d] = Nominal(attempt[d], setup.base)

\* Answers lost, and requests failed on purpose as far as they can count.
Met(d) == lost[d] + (IF counts[d] < Failures THEN counts[d] ELSE Failures)

\* Every attempt that an able receiver did not take has met with one of these.
Explained(d) ==
    Able /\ d \notin forgotten /\ status[d] = "queued" =>
        /\ attempt[d] <= Met(d)
        /\ pc[d] = "returned" =>
             \/ code[d] \in {0, 500} /\ attempt[d] < Met(d)
             \/ Success(code[d])
             \/ code[d] = 401 /\ differed[d]

ExchangeInv ==
    /\ TypeOK
    /\ \A d \in Delivery : AtWork(d) /\ SecretsAgree(d) /\ DelayDoubles(d) /\ Explained(d)
    /\ RecoversWithinBudget
    /\ RefusalHasCause
==============================================================================
