--------------------------- MODULE DeliveryProgress ---------------------------
(***************************************************************************)
(* Progress of the delivery queue: every queued delivery is settled in the *)
(* end, if only finitely many things go wrong.                             *)
(*                                                                         *)
(* Without a limit on what goes wrong the promise is false and the code    *)
(* does not make it: a worker that crashes at every attempt, or a limiter  *)
(* that is down for ever, records no attempt, and the row is claimed again *)
(* and again.  The variable faults counts what may still go wrong: a       *)
(* deferral by the limiter, a claim abandoned by a crash, a shutdown or a  *)
(* database error, and a lease that runs out under a worker that is still  *)
(* at work.  Failed requests are not faults: they use up the budget.       *)
(***************************************************************************)
EXTENDS DeliveryQueue

CONSTANT MaxFaults \* bound on what may go wrong

\* Tokens are numbers here and are used in their order: which unused token a
\* claim draws makes no difference.  Enough of them exist for every claim
\* that the faults and the budget allow.
ASSUME EnoughTokens ==
    /\ MaxFaults \in Nat
    /\ Token = 1..(MaxFaults + MaxAttempts * (MaxGeneration + 1))

VARIABLE faults

progressVars == <<vars, faults>>

\* The worker that claimed the row is still at work on it.
Alive(d) == \E t \in Token : Busy(t) /\ job[t].delivery = d /\ Owns(t)

\* A worker claims the row.
ClaimNext(d) ==
    \E t \in Token : /\ \A u \in 1..(t - 1) : pc[u] # "unused"
                     /\ Claim(d, t)

\* What a worker does with a claim when nothing goes wrong.
Work(t) ==
    \/ Cancel(t) \/ Send(t)
    \/ \E code \in StatusCode, reason \in Reason : Respond(t, code, reason)
    \/ \E reason \in Reason : NoAnswer(t, reason)
    \/ Finish(t) \/ FinishRefused(t)

\* The lease of a row that nobody works on runs out.
Recover(d) == ~Alive(d) /\ LeaseExpire(d)

Fault ==
    \/ \E t \in Token : Throttle(t) \/ Abandon(t)
    \/ \E d \in Delivery : Alive(d) /\ LeaseExpire(d)

Steady ==
    \/ \E ev \in Event : Accept(ev)
    \/ \E p \in Endpoint :
         \/ \E active \in BOOLEAN : \* the budget changes in DeliveryQueue only
              UpdateEndpoint(p, active, endpoints[p].max_attempts)
         \/ DeleteEndpoint(p)
    \/ \E d \in Delivery :
         \/ ReplayBegin(d) \/ ReplayCommit(d) \/ ReplayRollback(d)
         \/ BecomeDue(d) \/ Recover(d) \/ ClaimNext(d)
    \/ \E t \in Token : Work(t)

ProgressInit == Init /\ faults = MaxFaults

ProgressNext ==
    \/ Steady /\ UNCHANGED faults
    \/ faults > 0 /\ Fault /\ faults' = faults - 1

\* Run's loop polls for ever and takes the row that has been due longest; a
\* request ends by its timeout; Finish has five seconds; clocks advance.
Fairness ==
    /\ \A d \in Delivery :
         /\ WF_progressVars(ClaimNext(d) /\ UNCHANGED faults)
         /\ WF_progressVars(BecomeDue(d) /\ UNCHANGED faults)
         /\ WF_progressVars(Recover(d) /\ UNCHANGED faults)
    /\ \A t \in Token : WF_progressVars(Work(t) /\ UNCHANGED faults)

ProgressSpec == ProgressInit /\ [][ProgressNext]_progressVars /\ Fairness

\* No accepted delivery is lost: while faults are finite, each one that waits,
\* is being worked on or was left behind by a dead worker is settled, as
\* succeeded, dead or cancelled.
EventuallySettled == \A d \in Delivery : Queued(d) ~> ~Queued(d)

\* A finished claim leaves nothing behind: a row is processing for a claim
\* that is over only until its lease runs out and another worker takes it.
OrphansAreReclaimed ==
    \A d \in Delivery :
        deliveries[d].status = "processing" /\ ~Alive(d)
            ~> Alive(d) \/ ~Queued(d)
==============================================================================
