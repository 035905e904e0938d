------------------------------- MODULE Receiver -------------------------------
(***************************************************************************)
(* The demo receiver (internal/receiver, cmd/receiver): it checks the      *)
(* signature and the time stamp of a request, counts the requests of each  *)
(* delivery, and answers as the query of its URL asks: 500 to the first    *)
(* requests of a delivery, then a status of choice, after a while.         *)
(*                                                                         *)
(* Times are in half seconds.  A signature is the secret it was made with: *)
(* HMAC verifies with no other one.                                        *)
(***************************************************************************)
EXTENDS Integers, FiniteSets

CONSTANTS
    Delivery,  \* values of X-PulseRoute-Delivery-ID
    Secret,    \* signing secrets
    Window,    \* the age a time stamp may have, either way (5 minutes)
    MaxCounts, \* the receiver forgets its counts above this many (10000)
    MaxSleep   \* the longest it sleeps (30 seconds)

ASSUME ReceiverAssumption == {Window, MaxCounts, MaxSleep} \subseteq Nat

VARIABLES
    counts,   \* requests of each delivery; 0 is a key that is not in the map
    rxSecret, \* RECEIVER_SECRET of the running process
    forgotten \* history: deliveries whose count was lost

rxVars == <<counts, rxSecret, forgotten>>

Counted == {d \in Delivery : counts[d] > 0}

RxInit ==
    /\ counts = [d \in Delivery |-> 0]
    /\ rxSecret \in Secret
    /\ forgotten = {}

\* Faulty variant: a stamp from the future is not expected.
VerifyPastOnly(secret, age) == secret = rxSecret /\ 0 <= age /\ age <= Window

\* security.Verify: the time since the stamp, by the receiver's clock, and the
\* secret that the request was signed with.
Verify(secret, age) == secret = rxSecret /\ -Window <= age /\ age <= Window

\* The critical section of ServeHTTP: forget everything if there is too much
\* of it, and count the request.
Count(d) ==
    LET full == Cardinality(Counted) > MaxCounts
    IN  /\ counts' = IF full THEN [e \in Delivery |-> IF e = d THEN 1 ELSE 0]
                     ELSE [counts EXCEPT ![d] = @ + 1]
        /\ forgotten' = IF full THEN forgotten \cup Counted ELSE forgotten
        /\ UNCHANGED rxSecret

\* count <= failures, for the request that Count has just counted.
FailsOnPurpose(d, query) == counts'[d] <= query.failures

\* How long the handler sleeps.
Nap(query) == IF query.sleep > MaxSleep THEN MaxSleep ELSE query.sleep

\* The status it answers with in the end.
Chosen(query) ==
    IF query.status < 200 \/ query.status > 599 THEN 200 ELSE query.status

\* The process is stopped and started again, perhaps with another secret.
Restart(secret) ==
    /\ counts' = [d \in Delivery |-> 0]
    /\ rxSecret' = secret
    /\ forgotten' = forgotten \cup Counted
==============================================================================
