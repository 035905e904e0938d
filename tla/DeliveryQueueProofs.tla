------------------------ MODULE DeliveryQueueProofs ------------------------
(***************************************************************************)
(* Proofs about DeliveryQueue, for every set of events, endpoints, tokens  *)
(* and status codes and every bound.                                       *)
(***************************************************************************)
EXTENDS DeliveryQueue, TLAPS

\* The type invariant holds initially.
LEMMA TypeInit == Init => TypeOK
<1> SUFFICES ASSUME Init PROVE TypeOK
  OBVIOUS
<1>1. endpoints \in [Endpoint -> Policy]
  BY DEF Init, Policy
<1>2. Absent \in Row
  BY DEF Absent, Row, Status
<1>3. deliveries \in [Delivery -> Row]
  BY <1>2 DEF Init
<1>4. [claim |-> 0, attempt |-> 0] \in Budget
  BY MaxAttemptsAssumption DEF Budget
<1> QED BY <1>1, <1>3, <1>4 DEF Init, TypeOK, Busy

\* The components of a claim in progress.
LEMMA BusyJob ==
  ASSUME TypeOK, NEW t \in Token, Busy(t)
  PROVE  /\ job[t] \in Job
         /\ job[t].delivery \in Delivery
         /\ job[t].attempt \in Nat
         /\ job[t].generation \in Nat
         /\ job[t].max_attempts \in 1..MaxAttempts
         /\ job[t].active \in BOOLEAN
  BY DEF TypeOK, Job

\* The type of the history of budgets.
BudgetType == budget \in [Delivery -> Budget]

\* Every action keeps the types.
LEMMA TypeStep == TypeOK /\ [Next]_vars => TypeOK'
<1> SUFFICES ASSUME TypeOK, [Next]_vars PROVE TypeOK'
  OBVIOUS
<1> USE MaxAttemptsAssumption
<1>1. CASE UNCHANGED vars
  BY <1>1 DEF vars, workerVars, TypeOK, Busy
<1>2. ASSUME NEW ev \in Event, Accept(ev) PROVE TypeOK'
  <2>1. Inserted \in Row
    BY DEF Inserted, Row, Status
  <2>2. deliveries' \in [Delivery -> Row]
    BY <1>2, <2>1 DEF Accept, TypeOK
  <2> QED BY <1>2, <2>2 DEF Accept, TypeOK, Busy, workerVars
<1>3. ASSUME NEW p \in Endpoint, NEW active \in BOOLEAN,
             NEW m \in 1..MaxAttempts, UpdateEndpoint(p, active, m)
      PROVE  TypeOK'
  <2>1. endpoints' \in [Endpoint -> Policy]
    <3>1. PICK q : q = [endpoints[p] EXCEPT !.active = active, !.max_attempts = m]
      OBVIOUS
    <3>2. q \in Policy
      BY <3>1 DEF TypeOK, Policy
    <3>3. endpoints' = [endpoints EXCEPT ![p] = q]
      BY <1>3, <3>1 DEF UpdateEndpoint, TypeOK
    <3> QED BY <3>2, <3>3 DEF TypeOK
  <2> QED BY <1>3, <2>1 DEF UpdateEndpoint, TypeOK, Busy, workerVars
<1>4. ASSUME NEW p \in Endpoint, DeleteEndpoint(p) PROVE TypeOK'
  <2>1. endpoints' \in [Endpoint -> Policy]
    BY <1>4 DEF DeleteEndpoint, TypeOK, Policy
  <2> QED BY <1>4, <2>1 DEF DeleteEndpoint, TypeOK, Busy, workerVars
<1>5. ASSUME NEW d \in Delivery, ReplayBegin(d) PROVE TypeOK'
  BY <1>5 DEF ReplayBegin, TypeOK, Busy, workerVars
<1>6. ASSUME NEW d \in Delivery, ReplayCommit(d) PROVE TypeOK'
  <2>1. Replayed(deliveries[d]) \in Row
    BY DEF Replayed, TypeOK, Row, Status
  <2>2. deliveries' \in [Delivery -> Row]
    BY <1>6, <2>1 DEF ReplayCommit, TypeOK
  <2>3. BudgetType'
    <3>1. PICK b : b = [budget[d] EXCEPT !.attempt = 0]
      OBVIOUS
    <3>2. b \in Budget
      BY <3>1, MaxAttemptsAssumption DEF TypeOK, Budget
    <3>3. budget' = [budget EXCEPT ![d] = b]
      BY <1>6, <3>1 DEF ReplayCommit, TypeOK
    <3> QED BY <3>2, <3>3 DEF TypeOK, BudgetType
  <2> QED BY <1>6, <2>2, <2>3 DEF BudgetType, ReplayCommit, TypeOK, Busy, workerVars
<1>7. ASSUME NEW d \in Delivery, ReplayRollback(d) PROVE TypeOK'
  BY <1>7 DEF ReplayRollback, TypeOK, Busy, workerVars
<1>8. ASSUME NEW d \in Delivery, BecomeDue(d) PROVE TypeOK'
  <2>r. deliveries[d] \in Row
    BY DEF TypeOK
  <2>a. [deliveries[d] EXCEPT !.due = TRUE] \in Row
    BY <2>r DEF Row
  <2>1. deliveries' \in [Delivery -> Row]
    BY <1>8, <2>a DEF BecomeDue, TypeOK
  <2> QED BY <1>8, <2>1 DEF BecomeDue, TypeOK, Busy, workerVars
<1>9. ASSUME NEW d \in Delivery, LeaseExpire(d) PROVE TypeOK'
  <2>r. deliveries[d] \in Row
    BY DEF TypeOK
  <2>a. [deliveries[d] EXCEPT !.lease = "expired"] \in Row
    BY <2>r DEF Row
  <2>1. deliveries' \in [Delivery -> Row]
    BY <1>9, <2>a DEF LeaseExpire, TypeOK
  <2> QED BY <1>9, <2>1 DEF LeaseExpire, TypeOK, Busy, workerVars
<1>10. ASSUME NEW d \in Delivery, NEW t \in Token, Claim(d, t) PROVE TypeOK'
  <2>a. Claimed(deliveries[d], t) \in Row
    BY DEF Claimed, TypeOK, Row, Status
  <2>1. deliveries' \in [Delivery -> Row]
    BY <1>10, <2>a DEF Claim, TypeOK
  <2>2. d[2] \in Endpoint
    BY DEF Delivery
  <2>3. job'[t] \in Job
    BY <1>10, <2>2 DEF Claim, TypeOK, Row, Policy, Job, Live
  <2>4. BudgetType'
    <3>1. PICK b : b = [budget[d] EXCEPT
                          !.claim = endpoints[d[2]].max_attempts]
      OBVIOUS
    <3>2. endpoints[d[2]].max_attempts \in 0..MaxAttempts
      BY <2>2 DEF TypeOK, Policy
    <3>3. b \in Budget
      BY <3>1, <3>2 DEF TypeOK, Budget
    <3>4. budget' = [budget EXCEPT ![d] = b]
      BY <1>10, <3>1 DEF Claim, TypeOK
    <3> QED BY <3>3, <3>4 DEF TypeOK, BudgetType
  <2> QED BY <1>10, <2>1, <2>3, <2>4 DEF Claim, TypeOK, BudgetType, Busy
<1>11. ASSUME NEW t \in Token, Busy(t), Return(t)
       PROVE  /\ pc' \in [Token -> {"unused", "claimed", "sending",
                                    "responded", "done"}]
              /\ job' \in [Token -> Job \cup {NULL}]
              /\ result' \in [Token -> Result \cup {NULL}]
              /\ \A u \in Token : /\ Busy(u)' => job'[u] \in Job
                                  /\ pc'[u] = "responded" => result'[u] \in Result
  BY <1>11 DEF Return, TypeOK, Busy
<1>12. ASSUME NEW t \in Token, pc[t] = "claimed",
              NEW status \in Status, NEW due \in BOOLEAN, Defer(t, status, due)
       PROVE  TypeOK'
  <2>1. Busy(t)
    BY <1>12 DEF Busy
  <2>a. Deferred(deliveries[job[t].delivery], status, due) \in Row
    BY <2>1, BusyJob DEF Deferred, TypeOK, Row
  <2>2. deliveries' \in [Delivery -> Row]
    BY <1>12, <2>a, <2>1, BusyJob DEF Defer, TypeOK
  <2> QED BY <1>11, <1>12, <2>1, <2>2 DEF Defer, TypeOK
<1>13. ASSUME NEW t \in Token, Cancel(t) PROVE TypeOK'
  BY <1>12, <1>13 DEF Cancel, Status
<1>14. ASSUME NEW t \in Token, Throttle(t) PROVE TypeOK'
  BY <1>12, <1>14 DEF Throttle, Status
<1>15. ASSUME NEW t \in Token, Send(t) PROVE TypeOK'
  BY <1>15 DEF Send, TypeOK, Busy
<1>16. ASSUME NEW t \in Token, pc[t] = "sending", Acknowledge(t)
       PROVE  acknowledged' \subseteq Delivery \X Nat
  <2>1. Busy(t)
    BY <1>16 DEF Busy
  <2> QED BY <1>16, <2>1, BusyJob DEF Acknowledge, TypeOK
<1>17. ASSUME NEW t \in Token, NEW code \in StatusCode, NEW reason \in Reason,
              pc[t] = "sending", Returned(t, code, reason),
              acknowledged' \subseteq Delivery \X Nat
       PROVE  TypeOK'
  <2>1. [status_code |-> code, reason |-> reason] \in Result
    BY DEF Result
  <2> QED BY <1>17, <2>1 DEF Returned, TypeOK, Busy
<1>18. ASSUME NEW t \in Token, NEW code \in StatusCode, NEW reason \in Reason,
              Respond(t, code, reason)
       PROVE  TypeOK'
  <2>1. acknowledged' \subseteq Delivery \X Nat
    BY <1>16, <1>18 DEF Respond, TypeOK
  <2> QED BY <1>17, <1>18, <2>1 DEF Respond
<1>19. ASSUME NEW t \in Token, NEW reason \in Reason, NoAnswer(t, reason)
       PROVE  TypeOK'
  <2>1. acknowledged' \subseteq Delivery \X Nat
    BY <1>16, <1>19 DEF NoAnswer, TypeOK
  <2> QED BY <1>17, <1>19, <2>1, StatusCodeAssumption DEF NoAnswer
<1>20. ASSUME NEW t \in Token, Finish(t) PROVE TypeOK'
  <2>1. Busy(t) /\ result[t] \in Result
    BY <1>20 DEF Finish, Busy, TypeOK
  <2>2. AttemptOf(job[t], result[t]) \in Attempt
    BY <2>1, BusyJob DEF AttemptOf, Attempt, Result
  <2>3. Settled(deliveries[job[t].delivery], job[t], result[t].status_code)
          \in Row
    BY <2>1, BusyJob DEF Settled, Settle, Row, Status, TypeOK
  <2>4. deliveries' \in [Delivery -> Row]
    BY <1>20, <2>1, <2>3, BusyJob DEF Finish, TypeOK
  <2>5. dead_letters' \in [Delivery -> Reason \cup {NULL}]
    BY <1>20, <2>1, BusyJob DEF Finish, TypeOK, Result
  <2>6. BudgetType'
    <3>1. PICK b : b = [budget[job[t].delivery] EXCEPT
                          !.attempt = budget[job[t].delivery].claim]
      OBVIOUS
    <3>2. budget[job[t].delivery] \in Budget
      BY <2>1, BusyJob DEF TypeOK
    <3>3. b \in Budget
      BY <3>1, <3>2 DEF Budget
    <3>4. budget' = [budget EXCEPT ![job[t].delivery] = b]
      BY <1>20, <2>1, <3>1, BusyJob DEF Finish, TypeOK
    <3> QED BY <3>3, <3>4 DEF TypeOK, BudgetType
  <2> QED BY <1>11, <1>20, <2>1, <2>2, <2>4, <2>5, <2>6
          DEF Finish, TypeOK, BudgetType
<1>21. ASSUME NEW t \in Token, FinishRefused(t) PROVE TypeOK'
  <2>1. Busy(t)
    BY <1>21 DEF FinishRefused, Busy
  <2> QED BY <1>11, <1>21, <2>1 DEF FinishRefused, TypeOK
<1>22. ASSUME NEW t \in Token, Abandon(t) PROVE TypeOK'
  <2>1. acknowledged' \subseteq Delivery \X Nat
    BY <1>16, <1>22 DEF Abandon, TypeOK
  <2> QED BY <1>11, <1>22, <2>1 DEF Abandon, TypeOK
<1> QED
  BY <1>1, <1>2, <1>3, <1>4, <1>5, <1>6, <1>7, <1>8, <1>9, <1>10, <1>13,
     <1>14, <1>15, <1>18, <1>19, <1>20, <1>21, <1>22
     DEF Next

\* Every variable keeps its type.
THEOREM TypeCorrect == Spec => []TypeOK
  BY TypeInit, TypeStep, PTL DEF Spec

-----------------------------------------------------------------------------
(* The inductive invariant.                                                 *)

\* Before the first event there are no rows, claims or replays.
LEMMA InvInit == Init => QueueInv
<1> SUFFICES ASSUME Init PROVE QueueInv
  OBVIOUS
<1>1. TypeOK
  BY TypeInit
<1>2. \A d \in Delivery : deliveries[d] = Absent
  BY DEF Init
<1>3. LedgerInv
  BY <1>2, MaxAttemptsAssumption
     DEF Init, LedgerInv, AttemptLogExact, StatusMatchesLog,
         DeadLetterIsLastError, BudgetRespected, NoPhantomSuccess, Absent,
         Queued
<1>4. OwnerIsCurrent
  BY <1>2, NullAssumption DEF Init, OwnerIsCurrent, Absent, Busy
<1>5. AnswerIsReal /\ ReplayHoldsDead /\ AbsentUntilAccepted
  BY <1>2 DEF Init, AnswerIsReal, ReplayHoldsDead, AbsentUntilAccepted, Absent
<1>6. BudgetIsClaimed
  BY DEF Init, BudgetIsClaimed, Busy
<1> QED BY <1>1, <1>3, <1>4, <1>5, <1>6 DEF QueueInv

\* Steps that record nothing keep the ledger: they leave the attempts and the
\* dead letters alone, and a row's counters, and move a row within the queue
\* or out of it by cancellation only.
LEMMA LedgerFrame ==
  ASSUME TypeOK, TypeOK', LedgerInv,
         UNCHANGED <<delivery_attempts, dead_letters>>,
         acknowledged \subseteq acknowledged',
         \A d \in Delivery :
            /\ budget'[d].attempt = budget[d].attempt
            /\ deliveries'[d].attempt_count = deliveries[d].attempt_count
            /\ deliveries'[d].generation = deliveries[d].generation
            /\ \/ deliveries'[d].status = deliveries[d].status
               \/ /\ Queued(d)
                  /\ deliveries'[d].status \in
                       {"pending", "processing", "retrying", "cancelled"}
  PROVE  LedgerInv'
<1>0. \A a \in delivery_attempts : a.delivery \in Delivery
  BY DEF TypeOK, Attempt
<1>1. AttemptLogExact'
  BY <1>0 DEF LedgerInv, AttemptLogExact, Current
<1>2. StatusMatchesLog'
  BY <1>0 DEF LedgerInv, StatusMatchesLog, Current, Last, Queued
<1>3. DeadLetterIsLastError'
  BY <1>0 DEF LedgerInv, DeadLetterIsLastError, Current, Last, Queued
<1>4. BudgetRespected'
  BY <1>0 DEF LedgerInv, BudgetRespected, Current, Last, Queued
<1>5. NoPhantomSuccess'
  BY DEF LedgerInv, NoPhantomSuccess, Queued
<1> QED BY <1>1, <1>2, <1>3, <1>4, <1>5 DEF LedgerInv

\* Steps of a worker that leave every table alone.
LEMMA WorkerFrame ==
  ASSUME QueueInv, TypeOK', NEW t \in Token, Busy(t),
         UNCHANGED <<events, deliveries, delivery_attempts, dead_letters,
                     replaying, budget>>,
         acknowledged \subseteq acknowledged',
         pc'[t] # "unused",
         \A u \in Token \ {t} : /\ pc'[u] = pc[u] /\ job'[u] = job[u]
                                /\ result'[u] = result[u],
         Busy(t)' => job'[t] = job[t],
         pc'[t] = "responded" /\ Success(result'[t].status_code) =>
            <<job[t].delivery, job[t].generation>> \in acknowledged'
  PROVE  QueueInv'
<1> USE DEF QueueInv
<1>1. LedgerInv'
  BY LedgerFrame
<1>2. OwnerIsCurrent'
  <2>1. \A d \in Delivery : deliveries[d].lease_token \in Token \cup {NULL}
    BY DEF TypeOK, Row
  <2> QED BY <2>1 DEF OwnerIsCurrent, Owns, Busy
<1>3. AnswerIsReal'
  BY DEF AnswerIsReal, Busy
<1>4. ReplayHoldsDead' /\ AbsentUntilAccepted'
  BY DEF ReplayHoldsDead, AbsentUntilAccepted
<1>5. BudgetIsClaimed'
  BY DEF BudgetIsClaimed, Owns, Busy
<1> QED BY <1>1, <1>2, <1>3, <1>4, <1>5

\* Steps that leave the workers alone, and a row's status, counters and token.
LEMMA TableFrame ==
  ASSUME QueueInv, TypeOK',
         UNCHANGED <<delivery_attempts, dead_letters, workerVars, acknowledged,
                     budget>>,
         \A d \in Delivery :
            /\ deliveries'[d].attempt_count = deliveries[d].attempt_count
            /\ deliveries'[d].generation = deliveries[d].generation
            /\ deliveries'[d].status = deliveries[d].status
            /\ deliveries'[d].lease_token = deliveries[d].lease_token
            /\ deliveries'[d].lease = "none" <=> deliveries[d].lease = "none",
         ReplayHoldsDead', AbsentUntilAccepted'
  PROVE  QueueInv'
<1> USE DEF QueueInv
<1>1. LedgerInv'
  BY LedgerFrame
<1>2. OwnerIsCurrent'
  <2>1. \A u \in Token : Busy(u) => job[u].delivery \in Delivery
    BY BusyJob
  <2> QED BY <2>1 DEF OwnerIsCurrent, Owns, Busy, workerVars
<1>3. AnswerIsReal'
  BY DEF AnswerIsReal, workerVars
<1>4. BudgetIsClaimed'
  <2>1. \A u \in Token : Busy(u) => job[u].delivery \in Delivery
    BY BusyJob
  <2> QED BY <2>1 DEF BudgetIsClaimed, Owns, Busy, workerVars
<1> QED BY <1>1, <1>2, <1>3, <1>4

\* Claim keeps the invariant: the new token replaces that of an older claim.
LEMMA ClaimInv ==
  ASSUME QueueInv, TypeOK', NEW d \in Delivery, NEW t \in Token, Claim(d, t)
  PROVE  QueueInv'
<1> USE DEF QueueInv
<1>1. /\ deliveries'[d] = Claimed(deliveries[d], t)
      /\ \A x \in Delivery \ {d} : deliveries'[x] = deliveries[x]
      /\ deliveries[d].status \in {"pending", "processing", "retrying"}
      /\ pc[t] = "unused" /\ pc'[t] = "claimed"
      /\ \A u \in Token \ {t} : pc'[u] = pc[u] /\ job'[u] = job[u]
  BY DEF Claim, Claimable, TypeOK
<1>2. /\ job'[t].delivery = d
      /\ job'[t].attempt = deliveries[d].attempt_count + 1
      /\ job'[t].generation = deliveries[d].generation
      /\ job'[t].max_attempts = endpoints[d[2]].max_attempts
  BY DEF Claim, TypeOK
<1>8. /\ budget'[d].claim = endpoints[d[2]].max_attempts
      /\ \A x \in Delivery : budget'[x].attempt = budget[x].attempt
      /\ \A x \in Delivery \ {d} : budget'[x] = budget[x]
  BY DEF Claim, TypeOK
<1>3. LedgerInv'
  BY <1>1, <1>8, LedgerFrame DEF Claim, Claimed, Queued
<1>4. OwnerIsCurrent'
  <2>1. \A x \in Delivery : deliveries[x].lease_token # t
    BY <1>1, NullAssumption DEF OwnerIsCurrent
  <2>2. ASSUME NEW x \in Delivery
        PROVE  LET row == deliveries'[x]
               IN  /\ (row.status = "processing") <=> (row.lease_token # NULL)
                   /\ (row.status = "processing") <=> (row.lease # "none")
                   /\ row.lease_token # NULL => pc'[row.lease_token] # "unused"
    <3>1. CASE x = d
      <4>1. /\ deliveries'[x].status = "processing"
            /\ deliveries'[x].lease_token = t
            /\ deliveries'[x].lease = "held"
        BY <1>1, <3>1 DEF Claimed
      <4>2. t # NULL
        BY NullAssumption
      <4> QED BY <1>1, <4>1, <4>2
    <3>2. CASE x # d
      <4>1. deliveries'[x] = deliveries[x]
        BY <1>1, <3>2
      <4>2. deliveries[x].lease_token \in Token \cup {NULL}
        BY DEF TypeOK, Row
      <4> QED BY <1>1, <4>1, <4>2 DEF OwnerIsCurrent
    <3> QED BY <3>1, <3>2
  <2>3. ASSUME NEW u \in Token, Busy(u)', Owns(u)'
        PROVE  /\ job'[u].generation = deliveries'[job'[u].delivery].generation
               /\ job'[u].attempt =
                    deliveries'[job'[u].delivery].attempt_count + 1
    <3>1. CASE u = t
      BY <1>1, <1>2, <3>1 DEF Claimed
    <3>2. CASE u # t
      <4>1. Busy(u) /\ job'[u] = job[u] /\ job[u].delivery \in Delivery
        BY <1>1, <2>3, <3>2, BusyJob DEF Busy
      <4>2. job[u].delivery # d
        BY <1>1, <2>3, <3>2, <4>1 DEF Owns, Claimed
      <4> QED BY <1>1, <2>3, <4>1, <4>2 DEF OwnerIsCurrent, Owns
    <3> QED BY <3>1, <3>2
  <2> QED BY <2>2, <2>3 DEF OwnerIsCurrent
<1>5. AnswerIsReal'
  BY <1>1 DEF AnswerIsReal, Claim
<1>6. ReplayHoldsDead'
  BY <1>1 DEF ReplayHoldsDead, Claim
<1>7. AbsentUntilAccepted'
  BY <1>1 DEF AbsentUntilAccepted, Claim, Claimed
<1>9. BudgetIsClaimed'
  <2> SUFFICES ASSUME NEW u \in Token, Busy(u)', Owns(u)'
               PROVE  job'[u].max_attempts = budget'[job'[u].delivery].claim
    BY DEF BudgetIsClaimed
  <2>1. CASE u = t
    BY <1>2, <1>8, <2>1
  <2>2. CASE u # t
    <3>1. Busy(u) /\ job'[u] = job[u] /\ job[u].delivery \in Delivery
      BY <1>1, <2>2, BusyJob DEF Busy
    <3>2. job[u].delivery # d
      BY <1>1, <2>2, <3>1 DEF Owns, Claimed
    <3> QED BY <1>1, <1>8, <3>1, <3>2 DEF BudgetIsClaimed, Owns
  <2> QED BY <2>1, <2>2
<1> QED BY <1>3, <1>4, <1>5, <1>6, <1>7, <1>9

\* Defer keeps it, by the owner and by a claim that has lost its lease.
LEMMA DeferInv ==
  ASSUME QueueInv, TypeOK', NEW t \in Token, pc[t] = "claimed",
         NEW status \in {"retrying", "cancelled"}, NEW due \in BOOLEAN,
         Defer(t, status, due)
  PROVE  QueueInv'
<1> USE DEF QueueInv
<1>1. Busy(t) /\ Busy(t)' = FALSE /\ pc'[t] = "done"
  BY DEF Busy, Defer, Return, TypeOK
<1>2. \A u \in Token \ {t} :
         pc'[u] = pc[u] /\ job'[u] = job[u] /\ result'[u] = result[u]
  BY DEF Defer, Return, TypeOK
<1>3. CASE ~Owns(t)
  <2>1. UNCHANGED <<events, deliveries, delivery_attempts, dead_letters,
                    replaying, acknowledged, budget>>
    BY <1>3 DEF Defer
  <2> QED BY <1>1, <1>2, <2>1, WorkerFrame
<1>4. CASE Owns(t)
  <2> DEFINE d == job[t].delivery
  <2>1. d \in Delivery
    BY <1>1, BusyJob
  <2>2. /\ deliveries'[d] = Deferred(deliveries[d], status, due)
        /\ \A x \in Delivery \ {d} : deliveries'[x] = deliveries[x]
        /\ deliveries[d].status = "processing"
    BY <1>4, <2>1 DEF Defer, TypeOK, Owns
  <2>3. LedgerInv'
    BY <2>1, <2>2, LedgerFrame DEF Defer, Deferred, Queued
  <2>4. OwnerIsCurrent'
    <3>1. ASSUME NEW x \in Delivery
          PROVE  LET row == deliveries'[x]
                 IN  /\ (row.status = "processing") <=> (row.lease_token # NULL)
                     /\ (row.status = "processing") <=> (row.lease # "none")
                     /\ row.lease_token # NULL =>
                          pc'[row.lease_token] # "unused"
      <4>1. CASE x = d
        BY <2>2, <4>1 DEF Deferred
      <4>2. CASE x # d
        <5>1. deliveries'[x] = deliveries[x]
          BY <2>2, <4>2
        <5>2. deliveries[x].lease_token \in Token \cup {NULL}
          BY DEF TypeOK, Row
        <5> QED BY <1>1, <1>2, <5>1, <5>2 DEF OwnerIsCurrent
      <4> QED BY <4>1, <4>2
    <3>2. ASSUME NEW u \in Token, Busy(u)', Owns(u)'
          PROVE  /\ job'[u].generation =
                      deliveries'[job'[u].delivery].generation
                 /\ job'[u].attempt =
                      deliveries'[job'[u].delivery].attempt_count + 1
      <4>1. Busy(u) /\ job'[u] = job[u] /\ job[u].delivery \in Delivery
        BY <1>1, <1>2, <3>2, BusyJob DEF Busy
      <4>2. job[u].delivery # d
        <5>1. deliveries'[d].status # "processing"
          BY <2>2 DEF Deferred
        <5> QED BY <3>2, <4>1, <5>1 DEF Owns
      <4> QED BY <2>2, <3>2, <4>1, <4>2 DEF OwnerIsCurrent, Owns
    <3> QED BY <3>1, <3>2 DEF OwnerIsCurrent
  <2>5. AnswerIsReal'
    BY <1>1, <1>2 DEF AnswerIsReal, Defer, Busy
  <2>6. ReplayHoldsDead'
    BY <2>2 DEF ReplayHoldsDead, Defer
  <2>7. AbsentUntilAccepted'
    BY <2>2 DEF AbsentUntilAccepted, Defer, Deferred
  <2>8. BudgetIsClaimed'
    <3> SUFFICES ASSUME NEW u \in Token, Busy(u)', Owns(u)'
                 PROVE  job'[u].max_attempts = budget'[job'[u].delivery].claim
      BY DEF BudgetIsClaimed
    <3>1. Busy(u) /\ job'[u] = job[u] /\ job[u].delivery \in Delivery
      BY <1>1, <1>2, BusyJob DEF Busy
    <3>2. job[u].delivery # d
      <4>1. deliveries'[d].status # "processing"
        BY <2>2 DEF Deferred
      <4> QED BY <3>1, <4>1 DEF Owns
    <3> QED BY <2>2, <3>1, <3>2 DEF BudgetIsClaimed, Owns, Defer
  <2> QED BY <2>3, <2>4, <2>5, <2>6, <2>7, <2>8
<1> QED BY <1>3, <1>4

\* Finish by the owner keeps it: attempt, status and dead letter go together.
LEMMA FinishInv ==
  ASSUME QueueInv, TypeOK', NEW t \in Token, Finish(t)
  PROVE  QueueInv'
<1> USE DEF QueueInv
<1> DEFINE j == job[t]
           r == result[t]
           d == j.delivery
           na == AttemptOf(j, r)
           old == deliveries[d]
           new == deliveries'[d]
<1>1. /\ Busy(t) /\ Owns(t) /\ ~Busy(t)' /\ pc'[t] = "done"
      /\ pc[t] = "responded" /\ r \in Result
  BY DEF Finish, Return, Busy, TypeOK
<1>2. /\ d \in Delivery /\ j.attempt \in Nat /\ j.generation \in Nat
      /\ j.max_attempts \in 1..MaxAttempts
  BY <1>1, BusyJob
<1>3. /\ r.status_code \in StatusCode /\ r.reason \in Reason
      /\ r.reason # NULL
  BY <1>1, NullAssumption DEF Result, Reason
<1>4. /\ new = Settled(old, j, r.status_code)
      /\ \A x \in Delivery \ {d} : deliveries'[x] = deliveries[x]
  BY <1>2 DEF Finish, TypeOK
<1>5. \A u \in Token \ {t} :
         pc'[u] = pc[u] /\ job'[u] = job[u] /\ result'[u] = result[u]
  BY DEF Finish, Return, TypeOK
<1>6. /\ j.generation = old.generation
      /\ j.attempt = old.attempt_count + 1
      /\ old.status = "processing"
      /\ old.attempt_count \in Nat /\ old.generation \in Nat
  BY <1>1, <1>2 DEF OwnerIsCurrent, Owns, TypeOK, Row
<1>7. /\ new.status = Settle(j, r.status_code)
      /\ new.attempt_count = old.attempt_count + 1
      /\ new.generation = old.generation
      /\ new.lease_token = NULL /\ new.lease = "none"
  BY <1>4, <1>6 DEF Settled
<1>8. /\ delivery_attempts' = delivery_attempts \cup {na}
      /\ na.delivery = d /\ na.generation = old.generation
      /\ na.attempt = old.attempt_count + 1
      /\ na.status_code = r.status_code /\ na.error = r.reason
  BY <1>6 DEF Finish, AttemptOf
<1>9. new.status \in {"succeeded", "retrying", "dead"}
  BY <1>7 DEF Settle
<1>10. \A a \in delivery_attempts : /\ a.delivery \in Delivery
                                    /\ a.attempt \in Nat
                                    /\ a.generation \in Nat
  BY DEF TypeOK, Attempt
<1>11. \A a \in delivery_attempts :
          a.delivery = d /\ a.generation = old.generation =>
             /\ a.attempt <= old.attempt_count
             /\ Retryable(a.status_code)
  BY <1>6, <1>10
     DEF LedgerInv, AttemptLogExact, StatusMatchesLog, Current, Last
<1>12. \A a \in delivery_attempts :
          a.delivery = d => ~Success(a.status_code)
  BY <1>6 DEF LedgerInv, StatusMatchesLog
<1>13. AttemptLogExact'
  <2>1. ASSUME NEW a \in delivery_attempts'
        PROVE  /\ a.attempt >= 1
               /\ a.generation <= deliveries'[a.delivery].generation
               /\ Current(a)' =>
                    a.attempt <= deliveries'[a.delivery].attempt_count
    <3>1. CASE a = na
      BY <1>6, <1>7, <1>8, <3>1
    <3>2. CASE a \in delivery_attempts
      <4>1. CASE a.delivery = d
        BY <1>6, <1>7, <1>10, <1>11, <3>2, <4>1
           DEF LedgerInv, AttemptLogExact, Current
      <4>2. CASE a.delivery # d
        BY <1>4, <1>10, <3>2, <4>2 DEF LedgerInv, AttemptLogExact, Current
      <4> QED BY <4>1, <4>2
    <3> QED BY <1>8, <3>1, <3>2
  <2>2. ASSUME NEW a \in delivery_attempts', NEW b \in delivery_attempts',
               a.delivery = b.delivery, a.generation = b.generation,
               a.attempt = b.attempt
        PROVE  a = b
    <3>1. KeyFree(j)
      BY DEF Finish
    <3>2. \A c \in delivery_attempts :
             ~ /\ c.delivery = na.delivery
               /\ c.generation = na.generation
               /\ c.attempt = na.attempt
      BY <1>6, <1>8, <3>1 DEF KeyFree
    <3> QED BY <1>8, <2>2, <3>2 DEF LedgerInv, AttemptLogExact
  <2>3. ASSUME NEW x \in Delivery, NEW n \in 1..deliveries'[x].attempt_count
        PROVE  \E a \in delivery_attempts' :
                  a.delivery = x /\ Current(a)' /\ a.attempt = n
    <3>1. CASE x # d
      <4>1. \E a \in delivery_attempts :
               a.delivery = x /\ Current(a) /\ a.attempt = n
        BY <1>4, <3>1 DEF LedgerInv, AttemptLogExact
      <4> QED BY <1>4, <1>8, <3>1, <4>1 DEF Current
    <3>2. CASE x = d /\ n = old.attempt_count + 1
      BY <1>7, <1>8, <3>2 DEF Current
    <3>3. CASE x = d /\ n # old.attempt_count + 1
      <4>1. n \in 1..old.attempt_count
        BY <1>6, <1>7, <3>3
      <4>2. \E a \in delivery_attempts :
               a.delivery = d /\ Current(a) /\ a.attempt = n
        BY <1>2, <4>1 DEF LedgerInv, AttemptLogExact
      <4> QED BY <1>7, <1>8, <3>3, <4>2 DEF Current
    <3> QED BY <3>1, <3>2, <3>3
  <2> QED BY <2>1, <2>2, <2>3 DEF AttemptLogExact
<1>14. StatusMatchesLog'
  <2> SUFFICES ASSUME NEW a \in delivery_attempts'
               PROVE  LET row == deliveries'[a.delivery]
                      IN  /\ Success(a.status_code) =>
                               Last(a)' /\ row.status = "succeeded"
                          /\ row.status = "succeeded" /\ Last(a)' =>
                               Success(a.status_code)
                          /\ Current(a)' /\ ~Retryable(a.status_code) =>
                               /\ Last(a)'
                               /\ row.status \in {"succeeded", "dead"}
    BY DEF StatusMatchesLog
  <2>1. CASE a = na
    <3>1. Last(a)' /\ Current(a)'
      BY <1>7, <1>8, <2>1 DEF Last, Current
    <3> QED BY <1>7, <1>8, <2>1, <3>1 DEF Settle
  <2>2. CASE a \in delivery_attempts /\ a.delivery = d
    <3>1. ~Last(a)'
      BY <1>6, <1>7, <1>10, <1>11, <2>2 DEF Last, Current
    <3> QED BY <1>7, <1>11, <1>12, <2>2, <3>1 DEF Current
  <2>3. CASE a \in delivery_attempts /\ a.delivery # d
    BY <1>4, <1>10, <2>3 DEF LedgerInv, StatusMatchesLog, Last, Current
  <2> QED BY <1>8, <2>1, <2>2, <2>3
<1>15. DeadLetterIsLastError'
  <2>1. /\ dead_letters'[d] = IF new.status = "dead" THEN r.reason
                                                     ELSE dead_letters[d]
        /\ \A x \in Delivery \ {d} : dead_letters'[x] = dead_letters[x]
    BY <1>2, <1>7 DEF Finish, TypeOK
  <2>2. dead_letters[d] = NULL
    BY <1>2, <1>6 DEF LedgerInv, DeadLetterIsLastError
  <2>3. ASSUME NEW x \in Delivery
        PROVE  (deliveries'[x].status = "dead") <=> (dead_letters'[x] # NULL)
    BY <1>3, <1>4, <2>1, <2>2 DEF LedgerInv, DeadLetterIsLastError
  <2>4. ASSUME NEW x \in Delivery, NEW a \in delivery_attempts',
               a.delivery = x, Last(a)', deliveries'[x].status = "dead"
        PROVE  a.error = dead_letters'[x]
    <3>1. CASE a = na
      BY <1>8, <2>1, <2>4, <3>1
    <3>2. CASE a \in delivery_attempts /\ x = d
      BY <1>6, <1>7, <1>10, <1>11, <2>4, <3>2 DEF Last, Current
    <3>3. CASE a \in delivery_attempts /\ x # d
      BY <1>4, <2>1, <2>4, <3>3
         DEF LedgerInv, DeadLetterIsLastError, Last, Current
    <3> QED BY <1>8, <3>1, <3>2, <3>3
  <2> QED BY <2>3, <2>4 DEF DeadLetterIsLastError
<1>22. /\ budget'[d].attempt = j.max_attempts
       /\ \A x \in Delivery \ {d} : budget'[x] = budget[x]
  <2>1. budget[d].claim = j.max_attempts
    BY <1>1 DEF BudgetIsClaimed
  <2>2. /\ budget'[d].attempt = budget[d].claim
        /\ \A x \in Delivery \ {d} : budget'[x] = budget[x]
    BY <1>2 DEF Finish, TypeOK
  <2> QED BY <2>1, <2>2
<1>16. BudgetRespected'
  <2>1. new.status = "retrying" => new.attempt_count < j.max_attempts
    BY <1>2, <1>6, <1>7 DEF Settle
  <2>2. new.status = "dead" /\ Retryable(r.status_code) =>
           new.attempt_count >= j.max_attempts
    BY <1>2, <1>6, <1>7 DEF Settle
  <2>3. ASSUME NEW a \in delivery_attempts', a.delivery = d, Last(a)'
        PROVE  a = na
    BY <1>6, <1>7, <1>8, <1>10, <1>11, <2>3 DEF Last, Current
  <2>4. ASSUME NEW x \in Delivery, x # d,
               NEW a \in delivery_attempts', a.delivery = x
        PROVE  a \in delivery_attempts /\ (Last(a)' <=> Last(a))
    BY <1>4, <1>8, <2>4 DEF Last, Current
  <2> SUFFICES ASSUME NEW x \in Delivery
               PROVE  LET row == deliveries'[x]
                      IN  /\ Queued(x)' /\ row.attempt_count > 0 =>
                               row.attempt_count < budget'[x].attempt
                          /\ row.status \in {"succeeded", "dead"} =>
                               row.attempt_count > 0
                          /\ \A a \in delivery_attempts' :
                               /\ a.delivery = x /\ Last(a)'
                               /\ row.status = "dead"
                               /\ Retryable(a.status_code)
                               => row.attempt_count >= budget'[x].attempt
    BY DEF BudgetRespected
  <2>5. CASE x = d
    <3>1. Queued(x)' => new.status = "retrying"
      BY <1>9, <2>5 DEF Queued
    <3>2. new.attempt_count > 0
      BY <1>6, <1>7
    <3>3. ASSUME NEW a \in delivery_attempts', a.delivery = d, Last(a)',
                 new.status = "dead", Retryable(a.status_code)
          PROVE  new.attempt_count >= budget'[d].attempt
      BY <1>8, <1>22, <2>2, <2>3, <3>3
    <3> QED BY <1>22, <2>1, <2>5, <3>1, <3>2, <3>3
  <2>6. CASE x # d
    BY <1>4, <1>22, <2>4, <2>6 DEF LedgerInv, BudgetRespected, Queued
  <2> QED BY <2>5, <2>6
<1>17. NoPhantomSuccess'
  <2>1. new.status = "succeeded" => Success(r.status_code)
    BY <1>7 DEF Settle
  <2>2. Success(r.status_code) => <<d, old.generation>> \in acknowledged
    BY <1>1, <1>6 DEF AnswerIsReal
  <2> QED BY <1>4, <1>7, <2>1, <2>2
             DEF LedgerInv, NoPhantomSuccess, Finish
<1>18. OwnerIsCurrent'
  <2>1. ASSUME NEW x \in Delivery
        PROVE  LET row == deliveries'[x]
               IN  /\ (row.status = "processing") <=> (row.lease_token # NULL)
                   /\ (row.status = "processing") <=> (row.lease # "none")
                   /\ row.lease_token # NULL => pc'[row.lease_token] # "unused"
    <3>1. CASE x = d
      BY <1>7, <1>9, <3>1
    <3>2. CASE x # d
      <4>1. deliveries'[x] = deliveries[x]
        BY <1>4, <3>2
      <4>2. deliveries[x].lease_token \in Token \cup {NULL}
        BY DEF TypeOK, Row
      <4> QED BY <1>1, <1>5, <4>1, <4>2 DEF OwnerIsCurrent
    <3> QED BY <3>1, <3>2
  <2>2. ASSUME NEW u \in Token, Busy(u)', Owns(u)'
        PROVE  /\ job'[u].generation = deliveries'[job'[u].delivery].generation
               /\ job'[u].attempt =
                    deliveries'[job'[u].delivery].attempt_count + 1
    <3>1. Busy(u) /\ job'[u] = job[u] /\ job[u].delivery \in Delivery
      BY <1>1, <1>5, <2>2, BusyJob DEF Busy
    <3>2. job[u].delivery # d
      BY <1>7, <1>9, <2>2, <3>1 DEF Owns
    <3> QED BY <1>4, <2>2, <3>1, <3>2 DEF OwnerIsCurrent, Owns
  <2> QED BY <2>1, <2>2 DEF OwnerIsCurrent
<1>19. AnswerIsReal'
  BY <1>1, <1>5 DEF AnswerIsReal, Finish
<1>20. ReplayHoldsDead'
  BY <1>4, <1>6 DEF ReplayHoldsDead, Finish
<1>21. AbsentUntilAccepted'
  BY <1>4, <1>6, <1>9 DEF AbsentUntilAccepted, Finish
<1>23. BudgetIsClaimed'
  <2> SUFFICES ASSUME NEW u \in Token, Busy(u)', Owns(u)'
               PROVE  job'[u].max_attempts = budget'[job'[u].delivery].claim
    BY DEF BudgetIsClaimed
  <2>1. Busy(u) /\ job'[u] = job[u] /\ job[u].delivery \in Delivery
    BY <1>1, <1>5, BusyJob DEF Busy
  <2>2. job[u].delivery # d
    BY <1>7, <1>9, <2>1 DEF Owns
  <2> QED BY <1>4, <1>22, <2>1, <2>2 DEF BudgetIsClaimed, Owns
<1> QED
  BY <1>13, <1>14, <1>15, <1>16, <1>17, <1>18, <1>19, <1>20, <1>21, <1>23
     DEF LedgerInv

\* The writes of replay keep it: a new generation starts with an empty history.
LEMMA ReplayCommitInv ==
  ASSUME QueueInv, TypeOK', NEW d \in Delivery, ReplayCommit(d)
  PROVE  QueueInv'
<1> USE DEF QueueInv
<1> DEFINE old == deliveries[d]
           new == deliveries'[d]
<1>1. /\ old.status = "dead" /\ old.generation \in Nat
      /\ replaying[d] = 1 /\ replaying'[d] = 0
      /\ \A x \in Delivery \ {d} : replaying'[x] = replaying[x]
  BY DEF ReplayCommit, ReplayHoldsDead, TypeOK, Row
<1>2. /\ new.status = "pending" /\ new.attempt_count = 0
      /\ new.generation = old.generation + 1
      /\ new.lease_token = NULL /\ new.lease = "none"
      /\ \A x \in Delivery \ {d} : deliveries'[x] = deliveries[x]
  BY DEF ReplayCommit, Replayed, TypeOK
<1>3. /\ dead_letters'[d] = NULL
      /\ \A x \in Delivery \ {d} : dead_letters'[x] = dead_letters[x]
  BY DEF ReplayCommit, TypeOK
<1>4. \A a \in delivery_attempts :
         /\ a.delivery \in Delivery /\ a.generation \in Nat
         /\ a.delivery = d => /\ a.generation <= old.generation
                              /\ ~Success(a.status_code)
  BY <1>1 DEF TypeOK, Attempt, LedgerInv, AttemptLogExact, StatusMatchesLog
<1>5. \A a \in delivery_attempts : a.delivery = d => ~Current(a)'
  BY <1>1, <1>2, <1>4 DEF Current
<1>6. delivery_attempts' = delivery_attempts
  BY DEF ReplayCommit
<1>7. AttemptLogExact'
  <2>1. ASSUME NEW a \in delivery_attempts
        PROVE  /\ a.attempt >= 1
               /\ a.generation <= deliveries'[a.delivery].generation
               /\ Current(a)' =>
                    a.attempt <= deliveries'[a.delivery].attempt_count
    <3>1. CASE a.delivery = d
      BY <1>1, <1>2, <1>4, <1>5, <3>1 DEF LedgerInv, AttemptLogExact
    <3>2. CASE a.delivery # d
      BY <1>2, <1>4, <3>2 DEF LedgerInv, AttemptLogExact, Current
    <3> QED BY <3>1, <3>2
  <2>2. ASSUME NEW x \in Delivery, NEW n \in 1..deliveries'[x].attempt_count
        PROVE  \E a \in delivery_attempts :
                  a.delivery = x /\ Current(a)' /\ a.attempt = n
    <3>1. x # d
      BY <1>2
    <3>2. \E a \in delivery_attempts :
             a.delivery = x /\ Current(a) /\ a.attempt = n
      BY <1>2, <3>1 DEF LedgerInv, AttemptLogExact
    <3> QED BY <1>2, <3>1, <3>2 DEF Current
  <2> QED BY <1>6, <2>1, <2>2 DEF LedgerInv, AttemptLogExact
<1>8. StatusMatchesLog'
  BY <1>2, <1>4, <1>5, <1>6 DEF LedgerInv, StatusMatchesLog, Last, Current
<1>9. DeadLetterIsLastError'
  BY <1>2, <1>3, <1>6 DEF LedgerInv, DeadLetterIsLastError, Last, Current
<1>16. /\ \A x \in Delivery \ {d} : budget'[x] = budget[x]
       /\ \A x \in Delivery : budget'[x].claim = budget[x].claim
  BY DEF ReplayCommit, TypeOK
<1>10. BudgetRespected'
  <2> SUFFICES ASSUME NEW x \in Delivery
               PROVE  LET row == deliveries'[x]
                      IN  /\ Queued(x)' /\ row.attempt_count > 0 =>
                               row.attempt_count < budget'[x].attempt
                          /\ row.status \in {"succeeded", "dead"} =>
                               row.attempt_count > 0
                          /\ \A a \in delivery_attempts' :
                               /\ a.delivery = x /\ Last(a)'
                               /\ row.status = "dead"
                               /\ Retryable(a.status_code)
                               => row.attempt_count >= budget'[x].attempt
    BY DEF BudgetRespected
  <2>1. CASE x = d
    BY <1>2, <2>1
  <2>2. CASE x # d
    <3>1. deliveries'[x] = deliveries[x] /\ budget'[x] = budget[x]
      BY <1>2, <1>16, <2>2
    <3> QED BY <1>6, <2>2, <3>1
            DEF LedgerInv, BudgetRespected, Queued, Last, Current
  <2> QED BY <2>1, <2>2
<1>11. NoPhantomSuccess'
  BY <1>2 DEF LedgerInv, NoPhantomSuccess, ReplayCommit
<1>12. OwnerIsCurrent'
  <2>1. \A u \in Token : Busy(u) => job[u].delivery \in Delivery
    BY BusyJob
  <2> QED BY <1>2, <2>1
          DEF OwnerIsCurrent, Owns, Busy, ReplayCommit, workerVars
<1>13. AnswerIsReal'
  BY DEF AnswerIsReal, ReplayCommit, workerVars
<1>14. ReplayHoldsDead'
  BY <1>1, <1>2 DEF ReplayHoldsDead
<1>15. AbsentUntilAccepted'
  BY <1>1, <1>2 DEF AbsentUntilAccepted, ReplayCommit
<1>17. BudgetIsClaimed'
  <2>1. \A u \in Token : Busy(u) => job[u].delivery \in Delivery
    BY BusyJob
  <2> QED BY <1>2, <1>16, <2>1
          DEF BudgetIsClaimed, Owns, Busy, ReplayCommit, workerVars
<1> QED BY <1>7, <1>8, <1>9, <1>10, <1>11, <1>12, <1>13, <1>14, <1>15, <1>17
           DEF LedgerInv

\* The fan-out of ingest keeps it: it touches absent rows only.
LEMMA AcceptInv ==
  ASSUME QueueInv, TypeOK', NEW ev \in Event, Accept(ev)
  PROVE  QueueInv'
<1> USE DEF QueueInv
<1>1. ASSUME NEW d \in Delivery
      PROVE  \/ deliveries'[d] = deliveries[d]
             \/ /\ d[1] = ev
                /\ deliveries[d] = Absent /\ deliveries'[d] = Inserted
  BY DEF Accept, AbsentUntilAccepted
<1>2. \A d \in Delivery :
         /\ deliveries'[d].attempt_count = deliveries[d].attempt_count
         /\ deliveries'[d].generation = deliveries[d].generation
         /\ deliveries'[d].lease_token = deliveries[d].lease_token
         /\ deliveries'[d].lease = deliveries[d].lease
         /\ \/ deliveries'[d].status = deliveries[d].status
            \/ deliveries[d].status = "none" /\ deliveries'[d].status = "pending"
  BY <1>1 DEF Absent, Inserted
<1>3. \A d \in Delivery :
         deliveries[d].status = "none" => deliveries[d].attempt_count = 0
  BY DEF AbsentUntilAccepted, Absent
<1>4. \A a \in delivery_attempts :
         a.delivery \in Delivery /\ a.attempt \in Nat /\ a.generation \in Nat
  BY DEF TypeOK, Attempt
<1>5. \A a \in delivery_attempts : deliveries[a.delivery].status # "none"
  <2> SUFFICES ASSUME NEW a \in delivery_attempts,
                      deliveries[a.delivery].status = "none"
               PROVE  FALSE
    OBVIOUS
  <2>1. deliveries[a.delivery] = Absent
    BY <1>4 DEF AbsentUntilAccepted
  <2>2. a.generation = 0
    BY <1>4, <2>1 DEF LedgerInv, AttemptLogExact, Absent
  <2> QED BY <1>4, <2>1, <2>2 DEF LedgerInv, AttemptLogExact, Current, Absent
<1>6. UNCHANGED <<delivery_attempts, dead_letters, replaying, pc, job, result,
                  acknowledged, budget>>
  BY DEF Accept, workerVars
<1>7. AttemptLogExact'
  BY <1>2, <1>4, <1>6 DEF LedgerInv, AttemptLogExact, Current
<1>8. StatusMatchesLog'
  BY <1>2, <1>4, <1>5, <1>6 DEF LedgerInv, StatusMatchesLog, Last, Current
<1>9. DeadLetterIsLastError'
  BY <1>2, <1>4, <1>6 DEF LedgerInv, DeadLetterIsLastError, Last, Current
<1>10. BudgetRespected'
  BY <1>2, <1>3, <1>4, <1>5, <1>6
     DEF LedgerInv, BudgetRespected, Queued, Last, Current
<1>11. NoPhantomSuccess'
  BY <1>2, <1>6 DEF LedgerInv, NoPhantomSuccess
<1>12. OwnerIsCurrent'
  <2>1. \A u \in Token : Busy(u) => job[u].delivery \in Delivery
    BY BusyJob
  <2> QED BY <1>2, <1>6, <2>1 DEF OwnerIsCurrent, Owns, Busy
<1>13. AnswerIsReal' /\ ReplayHoldsDead'
  BY <1>2, <1>6 DEF AnswerIsReal, ReplayHoldsDead
<1>14. AbsentUntilAccepted'
  <2>1. Inserted.status # "none"
    BY DEF Inserted
  <2> QED BY <1>1, <2>1 DEF AbsentUntilAccepted, Accept
<1>15. BudgetIsClaimed'
  <2>1. \A u \in Token : Busy(u) => job[u].delivery \in Delivery
    BY BusyJob
  <2> QED BY <1>2, <1>6, <2>1 DEF BudgetIsClaimed, Owns, Busy
<1> QED BY <1>7, <1>8, <1>9, <1>10, <1>11, <1>12, <1>13, <1>14, <1>15
        DEF LedgerInv

\* Every action keeps the invariant of the queue.
LEMMA InvStep == QueueInv /\ [Next]_vars => QueueInv'
<1> SUFFICES ASSUME QueueInv, [Next]_vars PROVE QueueInv'
  OBVIOUS
<1>0. TypeOK /\ TypeOK'
  BY TypeStep DEF QueueInv
<1>1. CASE UNCHANGED vars
  <2>1. AbsentUntilAccepted' /\ ReplayHoldsDead'
    BY <1>1 DEF vars, QueueInv, AbsentUntilAccepted, ReplayHoldsDead
  <2> QED BY <1>0, <1>1, <2>1, TableFrame DEF vars
<1>2. ASSUME NEW ev \in Event, Accept(ev) PROVE QueueInv'
  BY <1>0, <1>2, AcceptInv
<1>3. ASSUME NEW p \in Endpoint, NEW active \in BOOLEAN,
             NEW m \in 1..MaxAttempts, UpdateEndpoint(p, active, m)
      PROVE  QueueInv'
  <2>1. AbsentUntilAccepted' /\ ReplayHoldsDead'
    BY <1>3 DEF UpdateEndpoint, QueueInv, AbsentUntilAccepted, ReplayHoldsDead
  <2> QED BY <1>0, <1>3, <2>1, TableFrame DEF UpdateEndpoint
<1>4. ASSUME NEW p \in Endpoint, DeleteEndpoint(p) PROVE QueueInv'
  <2>1. AbsentUntilAccepted' /\ ReplayHoldsDead'
    BY <1>4 DEF DeleteEndpoint, QueueInv, AbsentUntilAccepted, ReplayHoldsDead
  <2> QED BY <1>0, <1>4, <2>1, TableFrame DEF DeleteEndpoint
<1>5. ASSUME NEW d \in Delivery, ReplayBegin(d) PROVE QueueInv'
  <2>1. ReplayHoldsDead'
    BY <1>0, <1>5
       DEF ReplayBegin, Replayable, ReplayLockFree, QueueInv, ReplayHoldsDead,
           TypeOK
  <2>2. AbsentUntilAccepted'
    BY <1>5 DEF ReplayBegin, QueueInv, AbsentUntilAccepted
  <2> QED BY <1>0, <1>5, <2>1, <2>2, TableFrame DEF ReplayBegin
<1>6. ASSUME NEW d \in Delivery, ReplayCommit(d) PROVE QueueInv'
  BY <1>0, <1>6, ReplayCommitInv
<1>7. ASSUME NEW d \in Delivery, ReplayRollback(d) PROVE QueueInv'
  <2>1. ReplayHoldsDead'
    BY <1>0, <1>7 DEF ReplayRollback, QueueInv, ReplayHoldsDead, TypeOK
  <2>2. AbsentUntilAccepted'
    BY <1>7 DEF ReplayRollback, QueueInv, AbsentUntilAccepted
  <2> QED BY <1>0, <1>7, <2>1, <2>2, TableFrame DEF ReplayRollback
<1>8. ASSUME NEW d \in Delivery, BecomeDue(d) PROVE QueueInv'
  <2>1. \A x \in Delivery :
           /\ deliveries'[x].attempt_count = deliveries[x].attempt_count
           /\ deliveries'[x].generation = deliveries[x].generation
           /\ deliveries'[x].status = deliveries[x].status
           /\ deliveries'[x].lease_token = deliveries[x].lease_token
           /\ deliveries'[x].lease = deliveries[x].lease
           /\ x # d => deliveries'[x] = deliveries[x]
    BY <1>0, <1>8 DEF BecomeDue, TypeOK, Row
  <2>2. ReplayHoldsDead' /\ AbsentUntilAccepted'
    BY <1>8, <2>1
       DEF BecomeDue, QueueInv, AbsentUntilAccepted, ReplayHoldsDead
  <2> QED BY <1>0, <1>8, <2>1, <2>2, TableFrame DEF BecomeDue
<1>9. ASSUME NEW d \in Delivery, LeaseExpire(d) PROVE QueueInv'
  <2>1. \A x \in Delivery :
           /\ deliveries'[x].attempt_count = deliveries[x].attempt_count
           /\ deliveries'[x].generation = deliveries[x].generation
           /\ deliveries'[x].status = deliveries[x].status
           /\ deliveries'[x].lease_token = deliveries[x].lease_token
           /\ (deliveries'[x].lease = "none") <=> (deliveries[x].lease = "none")
           /\ x # d => deliveries'[x] = deliveries[x]
    BY <1>0, <1>9 DEF LeaseExpire, TypeOK, Row
  <2>2. deliveries[d].status = "processing"
    BY <1>9 DEF LeaseExpire, QueueInv, OwnerIsCurrent
  <2>3. ReplayHoldsDead' /\ AbsentUntilAccepted'
    BY <1>9, <2>1, <2>2
       DEF LeaseExpire, QueueInv, AbsentUntilAccepted, ReplayHoldsDead
  <2> QED BY <1>0, <1>9, <2>1, <2>3, TableFrame DEF LeaseExpire
<1>10. ASSUME NEW d \in Delivery, NEW t \in Token, Claim(d, t) PROVE QueueInv'
  BY <1>0, <1>10, ClaimInv
<1>11. ASSUME NEW t \in Token, Cancel(t) \/ Throttle(t) PROVE QueueInv'
  BY <1>0, <1>11, DeferInv DEF Cancel, Throttle
<1>12. ASSUME NEW t \in Token, Send(t) PROVE QueueInv'
  <2>1. Busy(t) /\ pc'[t] = "sending"
    BY <1>0, <1>12 DEF Send, Busy, TypeOK
  <2>2. \A u \in Token \ {t} : pc'[u] = pc[u]
    BY <1>0, <1>12 DEF Send, TypeOK
  <2> QED BY <1>0, <1>12, <2>1, <2>2, WorkerFrame DEF Send
<1>13. ASSUME NEW t \in Token, NEW code \in StatusCode, NEW reason \in Reason,
              pc[t] = "sending", Returned(t, code, reason),
              acknowledged \subseteq acknowledged',
              Success(code) => Acknowledge(t)
       PROVE  QueueInv'
  <2>1. /\ Busy(t) /\ pc'[t] = "responded" /\ job' = job
        /\ result'[t].status_code = code
        /\ \A u \in Token \ {t} : pc'[u] = pc[u] /\ result'[u] = result[u]
    BY <1>0, <1>13 DEF Returned, Busy, TypeOK
  <2>2. Success(code) =>
          <<job[t].delivery, job[t].generation>> \in acknowledged'
    BY <1>13 DEF Acknowledge
  <2> QED BY <1>0, <1>13, <2>1, <2>2, WorkerFrame DEF Returned
<1>14. ASSUME NEW t \in Token, NEW code \in StatusCode, NEW reason \in Reason,
              Respond(t, code, reason)
       PROVE  QueueInv'
  BY <1>13, <1>14 DEF Respond, Acknowledge
<1>15. ASSUME NEW t \in Token, NEW reason \in Reason, NoAnswer(t, reason)
       PROVE  QueueInv'
  <2>1. ~Success(0) /\ 0 \in StatusCode
    BY StatusCodeAssumption DEF Success
  <2> QED BY <1>13, <1>15, <2>1 DEF NoAnswer, Acknowledge
<1>16. ASSUME NEW t \in Token, Finish(t) PROVE QueueInv'
  BY <1>0, <1>16, FinishInv
<1>17. ASSUME NEW t \in Token, Busy(t), Return(t),
              UNCHANGED <<events, deliveries, delivery_attempts, dead_letters,
                          replaying, budget>>,
              acknowledged \subseteq acknowledged'
       PROVE  QueueInv'
  <2>1. /\ pc'[t] = "done" /\ ~Busy(t)'
        /\ \A u \in Token \ {t} : /\ pc'[u] = pc[u] /\ job'[u] = job[u]
                                  /\ result'[u] = result[u]
    BY <1>0, <1>17 DEF Return, Busy, TypeOK
  <2> QED BY <1>0, <1>17, <2>1, WorkerFrame
<1>18. ASSUME NEW t \in Token, FinishRefused(t) PROVE QueueInv'
  BY <1>17, <1>18 DEF FinishRefused, Busy
<1>19. ASSUME NEW t \in Token, Abandon(t) PROVE QueueInv'
  BY <1>17, <1>19 DEF Abandon, Acknowledge
<1> QED
  BY <1>1, <1>2, <1>3, <1>4, <1>5, <1>6, <1>7, <1>8, <1>9, <1>10, <1>11,
     <1>12, <1>14, <1>15, <1>16, <1>18, <1>19
     DEF Next

\* The inductive invariant holds in every state of the queue.
THEOREM QueueInvariant == Spec => []QueueInv
  BY InvInit, InvStep, PTL DEF Spec

-----------------------------------------------------------------------------
(* What the invariant gives: the properties that the runs check.            *)

\* Fencing: the claim that owns a row works on the row's present state.
THEOREM FencingSound == Spec => []OwnerIsCurrent
  BY QueueInvariant, PTL DEF QueueInv

\* The owner of a row never meets the UNIQUE key of delivery_attempts.
THEOREM FinishNeverConflicts == Spec => []AttemptKeyFree
<1>1. QueueInv => AttemptKeyFree
  <2> SUFFICES ASSUME QueueInv, NEW t \in Token, Busy(t), Owns(t),
                      NEW a \in delivery_attempts,
                      a.delivery = job[t].delivery,
                      a.generation = job[t].generation,
                      a.attempt = job[t].attempt
               PROVE  FALSE
    BY DEF AttemptKeyFree, KeyFree
  <2>1. job[t].delivery \in Delivery
    BY BusyJob DEF QueueInv
  <2>2. deliveries[job[t].delivery].attempt_count \in Nat
    BY <2>1 DEF QueueInv, TypeOK, Row
  <2>3. /\ job[t].generation = deliveries[job[t].delivery].generation
        /\ job[t].attempt = deliveries[job[t].delivery].attempt_count + 1
    BY DEF QueueInv, OwnerIsCurrent
  <2> QED BY <2>2, <2>3 DEF QueueInv, LedgerInv, AttemptLogExact, Current
<1> QED BY <1>1, QueueInvariant, PTL

\* The attempt history is complete and free of duplicates.
THEOREM HistoryExact == Spec => []AttemptLogExact
  BY QueueInvariant, PTL DEF QueueInv, LedgerInv

\* The status of every row agrees with its history.
THEOREM StatusAgrees == Spec => []StatusMatchesLog
  BY QueueInvariant, PTL DEF QueueInv, LedgerInv

\* Dead letters exist exactly for dead deliveries, with the last error.
THEOREM DeadLettersAgree == Spec => []DeadLetterIsLastError
  BY QueueInvariant, PTL DEF QueueInv, LedgerInv

\* The attempts of a delivery keep to the budgets in force at their claims.
THEOREM BudgetKept == Spec => []BudgetRespected
  BY QueueInvariant, PTL DEF QueueInv, LedgerInv

\* A delivery that says succeeded was accepted by its destination.
THEOREM SuccessIsReal == Spec => []NoPhantomSuccess
  BY QueueInvariant, PTL DEF QueueInv, LedgerInv

\* Replays exclude each other and find their delivery dead when they commit.
THEOREM ReplayExclusive == Spec => []ReplayHoldsDead
  BY QueueInvariant, PTL DEF QueueInv

-----------------------------------------------------------------------------
(* What a step may do to a row.                                             *)

\* The row's counters stay, and its status moves within the queue, into it
\* from nothing, or out of it by cancellation.
Kept(d) ==
    /\ deliveries'[d].attempt_count = deliveries[d].attempt_count
    /\ deliveries'[d].generation = deliveries[d].generation
    /\ \/ deliveries'[d].status = deliveries[d].status
       \/ /\ deliveries[d].status = "none"
          /\ deliveries'[d].status = "pending"
       \/ /\ Queued(d)
          /\ deliveries'[d].status \in
               {"pending", "processing", "retrying", "cancelled"}

\* An attempt is recorded.
Recorded(d) ==
    /\ deliveries[d].status = "processing"
    /\ deliveries'[d].generation = deliveries[d].generation
    /\ deliveries'[d].attempt_count = deliveries[d].attempt_count + 1
    /\ deliveries'[d].status \in {"succeeded", "retrying", "dead"}

\* A dead delivery is replayed.
Revived(d) ==
    /\ deliveries[d].status = "dead"
    /\ deliveries'[d].status = "pending"
    /\ deliveries'[d].generation = deliveries[d].generation + 1
    /\ deliveries'[d].attempt_count = 0

\* What a step can do to one row: keep its place, record an attempt, or revive it.
LEMMA RowStep ==
  ASSUME QueueInv, [Next]_vars, NEW x \in Delivery
  PROVE  Kept(x) \/ Recorded(x) \/ Revived(x)
<1>0. TypeOK
  BY DEF QueueInv
<1>1. ASSUME deliveries' = deliveries PROVE Kept(x)
  BY <1>1 DEF Kept
<1>2. CASE UNCHANGED vars
  BY <1>1, <1>2 DEF vars
<1>3. ASSUME NEW ev \in Event, Accept(ev) PROVE Kept(x)
  <2>1. \/ deliveries'[x] = deliveries[x]
        \/ deliveries[x] = Absent /\ deliveries'[x] = Inserted
    BY <1>3 DEF Accept, QueueInv, AbsentUntilAccepted
  <2> QED BY <2>1 DEF Kept, Absent, Inserted
<1>4. ASSUME NEW d \in Delivery, ReplayCommit(d) PROVE Kept(x) \/ Revived(x)
  BY <1>0, <1>4
     DEF ReplayCommit, Replayed, QueueInv, ReplayHoldsDead, Kept, Revived,
         TypeOK
<1>5. ASSUME NEW d \in Delivery, BecomeDue(d) \/ LeaseExpire(d) PROVE Kept(x)
  <2>1. deliveries' = [deliveries EXCEPT ![d].due = TRUE]
        \/ deliveries' = [deliveries EXCEPT ![d].lease = "expired"]
    BY <1>5 DEF BecomeDue, LeaseExpire
  <2>2. deliveries \in [Delivery -> Row]
    BY <1>0 DEF TypeOK
  <2>3. /\ deliveries'[x].attempt_count = deliveries[x].attempt_count
        /\ deliveries'[x].generation = deliveries[x].generation
        /\ deliveries'[x].status = deliveries[x].status
    BY <2>1, <2>2 DEF Row
  <2> QED BY <2>3 DEF Kept
<1>6. ASSUME NEW d \in Delivery, NEW t \in Token, Claim(d, t) PROVE Kept(x)
  BY <1>0, <1>6 DEF Claim, Claimable, Claimed, Kept, Queued, TypeOK
<1>7. ASSUME NEW t \in Token, Cancel(t) \/ Throttle(t) PROVE Kept(x)
  <2>1. Busy(t)
    BY <1>7 DEF Cancel, Throttle, Busy
  <2>2. PICK status \in {"retrying", "cancelled"}, due \in BOOLEAN :
           Defer(t, status, due)
    BY <1>7 DEF Cancel, Throttle
  <2> QED BY <1>0, <2>1, <2>2, BusyJob
          DEF Defer, Deferred, Owns, Kept, Queued, TypeOK
<1>8. ASSUME NEW t \in Token, Finish(t) PROVE Kept(x) \/ Recorded(x)
  <2>1. Busy(t) /\ Owns(t)
    BY <1>8 DEF Finish, Busy
  <2>2. /\ job[t].delivery \in Delivery
        /\ job[t].attempt = deliveries[job[t].delivery].attempt_count + 1
    BY <1>0, <2>1, BusyJob DEF QueueInv, OwnerIsCurrent
  <2>3. CASE x # job[t].delivery
    BY <1>0, <1>8, <2>2, <2>3 DEF Finish, Kept, TypeOK
  <2>4. CASE x = job[t].delivery
    <3>1. deliveries'[x] = Settled(deliveries[x], job[t], result[t].status_code)
      BY <1>0, <1>8, <2>2, <2>4 DEF Finish, TypeOK
    <3>2. deliveries[x].status = "processing"
      BY <2>1, <2>4 DEF Owns
    <3> QED BY <2>2, <2>4, <3>1, <3>2 DEF Settled, Settle, Recorded
  <2> QED BY <2>3, <2>4
<1>9. ASSUME \/ \E p \in Endpoint :
                  \/ \E active \in BOOLEAN, m \in 1..MaxAttempts :
                       UpdateEndpoint(p, active, m)
                  \/ DeleteEndpoint(p)
             \/ \E d \in Delivery : ReplayBegin(d) \/ ReplayRollback(d)
             \/ \E t \in Token :
                  \/ Send(t) \/ FinishRefused(t) \/ Abandon(t)
                  \/ \E code \in StatusCode, reason \in Reason :
                       Respond(t, code, reason)
                  \/ \E reason \in Reason : NoAnswer(t, reason)
      PROVE  Kept(x)
  BY <1>1, <1>9
     DEF UpdateEndpoint, DeleteEndpoint, ReplayBegin, ReplayRollback, Send,
         FinishRefused, Abandon, Respond, NoAnswer, Returned
<1> QED
  BY <1>2, <1>3, <1>4, <1>5, <1>6, <1>7, <1>8, <1>9 DEF Next

\* No step takes a row back.
THEOREM RowsNeverRewind == Spec => NeverRewinds
<1>1. QueueInv /\ [Next]_vars =>
        [\A d \in Delivery :
           LET old == deliveries[d]
               new == deliveries[d]'
           IN  \/ /\ new.generation = old.generation
                  /\ new.attempt_count \in {old.attempt_count,
                                            old.attempt_count + 1}
               \/ /\ new.generation = old.generation + 1
                  /\ old.status = "dead" /\ new.status = "pending"]_vars
  BY RowStep DEF Kept, Recorded, Revived
<1> QED BY <1>1, QueueInvariant, PTL DEF Spec, NeverRewinds

\* Settled rows are final, up to the replay of dead ones.
THEOREM SettledRowsAreFinal == Spec => TerminalIsFinal
<1>1. QueueInv /\ [Next]_vars =>
        [\A d \in Delivery :
           /\ deliveries[d].status \in {"succeeded", "cancelled"} =>
                deliveries[d]'.status = deliveries[d].status
           /\ deliveries[d].status = "dead" =>
                deliveries[d]'.status \in {"dead", "pending"}]_vars
  BY RowStep DEF Kept, Recorded, Revived, Queued
<1> QED BY <1>1, QueueInvariant, PTL DEF Spec, TerminalIsFinal

\* The history only grows, by the next attempt of the row that the same step
\* advances.
THEOREM HistoryGrowsInStep == Spec => HistoryAppendOnly
<1>1. QueueInv /\ [Next]_vars =>
        [/\ delivery_attempts \subseteq delivery_attempts'
         /\ \A a \in delivery_attempts' \ delivery_attempts :
              /\ a.generation = deliveries[a.delivery].generation
              /\ a.attempt = deliveries[a.delivery].attempt_count + 1
              /\ deliveries[a.delivery]'.attempt_count = a.attempt]_vars
  <2> SUFFICES ASSUME QueueInv, Next
               PROVE  /\ delivery_attempts \subseteq delivery_attempts'
                      /\ \A a \in delivery_attempts' \ delivery_attempts :
                           /\ a.generation = deliveries[a.delivery].generation
                           /\ a.attempt =
                                deliveries[a.delivery].attempt_count + 1
                           /\ deliveries'[a.delivery].attempt_count = a.attempt
    OBVIOUS
  <2>1. CASE delivery_attempts' = delivery_attempts
    BY <2>1
  <2>2. ASSUME NEW t \in Token, Finish(t)
        PROVE  /\ delivery_attempts \subseteq delivery_attempts'
               /\ \A a \in delivery_attempts' \ delivery_attempts :
                    /\ a.generation = deliveries[a.delivery].generation
                    /\ a.attempt = deliveries[a.delivery].attempt_count + 1
                    /\ deliveries'[a.delivery].attempt_count = a.attempt
    <3>1. Busy(t) /\ Owns(t)
      BY <2>2 DEF Finish, Busy
    <3>2. /\ job[t].delivery \in Delivery
          /\ job[t].generation = deliveries[job[t].delivery].generation
          /\ job[t].attempt = deliveries[job[t].delivery].attempt_count + 1
      BY <3>1, BusyJob DEF QueueInv, OwnerIsCurrent
    <3>3. deliveries'[job[t].delivery].attempt_count = job[t].attempt
      BY <2>2, <3>2 DEF Finish, Settled, QueueInv, TypeOK
    <3>4. delivery_attempts' =
            delivery_attempts \cup {AttemptOf(job[t], result[t])}
      BY <2>2 DEF Finish
    <3> QED BY <3>2, <3>3, <3>4 DEF AttemptOf
  <2> QED
    BY <2>1, <2>2
       DEF Next, Accept, UpdateEndpoint, DeleteEndpoint, ReplayBegin,
           ReplayCommit, ReplayRollback, BecomeDue, LeaseExpire, Claim, Cancel,
           Throttle, Defer, Send, Respond, NoAnswer, Returned, FinishRefused,
           Abandon
<1> QED BY <1>1, QueueInvariant, PTL DEF Spec, HistoryAppendOnly

-----------------------------------------------------------------------------
(* Refinement: the queue implements the ledger.                             *)

\* The initial states of the queue map to initial states of the ledger.
LEMMA LedgerInit == Init => Ledger!LInit
<1> SUFFICES ASSUME Init PROVE Ledger!LInit
  OBVIOUS
<1>1. \A d \in Delivery : deliveries[d] = Absent
  BY DEF Init
<1> QED BY <1>1 DEF Init, Ledger!LInit, Absent, Phase

\* A step that moves rows within the queue only is invisible in the ledger.
LEMMA LedgerStutter ==
  ASSUME UNCHANGED <<delivery_attempts, dead_letters>>,
         \A d \in Delivery :
            /\ deliveries'[d].attempt_count = deliveries[d].attempt_count
            /\ deliveries'[d].generation = deliveries[d].generation
            /\ Phase(deliveries'[d].status) = Phase(deliveries[d].status)
  PROVE  UNCHANGED Ledger!lifecycleVars
  BY DEF Ledger!lifecycleVars

\* Accepting an event queues its deliveries.
LEMMA AcceptEnqueues ==
  ASSUME QueueInv, NEW ev \in Event, Accept(ev)
  PROVE  \E S \in SUBSET Delivery : Ledger!Enqueue(S)
<1> DEFINE S == {d \in Delivery : d[1] = ev /\ Live(d[2])}
<1>1. \A d \in S : deliveries[d] = Absent /\ deliveries'[d] = Inserted
  BY DEF Accept, QueueInv, AbsentUntilAccepted
<1>2. \A d \in Delivery \ S : deliveries'[d] = deliveries[d]
  BY DEF Accept
<1>3. \A d \in S : /\ Phase(deliveries[d].status) = "none"
                   /\ Phase(deliveries'[d].status) = "queued"
                   /\ deliveries'[d].generation = deliveries[d].generation
                   /\ deliveries'[d].attempt_count = deliveries[d].attempt_count
  BY <1>1 DEF Absent, Inserted, Phase
<1>4. UNCHANGED <<delivery_attempts, dead_letters>>
  BY DEF Accept
<1>5. Ledger!Enqueue(S)
  BY <1>2, <1>3, <1>4 DEF Ledger!Enqueue
<1> QED BY <1>5

\* A cancelled row is dropped.
LEMMA CancelDrops ==
  ASSUME QueueInv, NEW t \in Token, Cancel(t), Owns(t)
  PROVE  \E d \in Delivery : Ledger!Drop(d)
<1> DEFINE d == job[t].delivery
<1>1. d \in Delivery
  BY BusyJob DEF Cancel, Busy, QueueInv
<1>2. deliveries' = [deliveries EXCEPT
                       ![d] = Deferred(deliveries[d], "cancelled", TRUE)]
  BY DEF Cancel, Defer
<1>3. /\ \A x \in Delivery \ {d} : deliveries'[x] = deliveries[x]
      /\ deliveries'[d] = Deferred(deliveries[d], "cancelled", TRUE)
  BY <1>1, <1>2 DEF QueueInv, TypeOK
<1>4. /\ Phase(deliveries[d].status) = "queued"
      /\ Phase(deliveries'[d].status) = "cancelled"
      /\ deliveries'[d].generation = deliveries[d].generation
      /\ deliveries'[d].attempt_count = deliveries[d].attempt_count
  BY <1>3 DEF Owns, Phase, Deferred
<1>5. UNCHANGED <<delivery_attempts, dead_letters>>
  BY DEF Cancel, Defer
<1>6. Ledger!Drop(d)
  BY <1>1, <1>3, <1>4, <1>5 DEF Ledger!Drop
<1> QED BY <1>1, <1>6

\* A committed replay revives its delivery.
LEMMA ReplayRevives ==
  ASSUME QueueInv, NEW d \in Delivery, ReplayCommit(d)
  PROVE  Ledger!Revive(d)
<1>1. deliveries[d].status = "dead"
  BY DEF ReplayCommit, QueueInv, ReplayHoldsDead, TypeOK
<1>2. /\ \A x \in Delivery \ {d} : deliveries'[x] = deliveries[x]
      /\ deliveries'[d] = Replayed(deliveries[d])
  BY DEF ReplayCommit, QueueInv, TypeOK
<1>3. /\ Phase(deliveries[d].status) = "dead"
      /\ Phase(deliveries'[d].status) = "queued"
      /\ deliveries'[d].generation = deliveries[d].generation + 1
      /\ deliveries'[d].attempt_count = 0
  BY <1>1, <1>2 DEF Phase, Replayed
<1>4. /\ dead_letters' = [dead_letters EXCEPT ![d] = NULL]
      /\ delivery_attempts' = delivery_attempts
  BY DEF ReplayCommit
<1> QED BY <1>2, <1>3, <1>4 DEF Ledger!Revive

\* The owner's Finish records one attempt.
LEMMA FinishRecords ==
  ASSUME QueueInv, NEW t \in Token, Finish(t)
  PROVE  \E d \in Delivery, code \in StatusCode, error \in Reason :
            Ledger!Record(d, code, error)
<1> DEFINE d == job[t].delivery
           code == result[t].status_code
           v == Phase(Settle(job[t], code))
<1>1. Busy(t) /\ Owns(t) /\ result[t] \in Result
  BY DEF Finish, Busy, QueueInv, TypeOK
<1>2. /\ d \in Delivery /\ code \in StatusCode
      /\ job[t].max_attempts \in 1..MaxAttempts
  BY <1>1, BusyJob DEF QueueInv, Result
<1> PICK error \in Reason : error = result[t].reason
  BY <1>1 DEF Result
<1>3. /\ job[t].attempt = deliveries[d].attempt_count + 1
      /\ job[t].generation = deliveries[d].generation
      /\ deliveries[d].attempt_count \in Nat
  BY <1>1, <1>2 DEF QueueInv, OwnerIsCurrent, TypeOK, Row
<1>4. /\ \A x \in Delivery \ {d} : deliveries'[x] = deliveries[x]
      /\ deliveries'[d] = Settled(deliveries[d], job[t], code)
  BY <1>2 DEF Finish, QueueInv, TypeOK
<1>5. /\ Phase(deliveries[d].status) = "queued"
      /\ Phase(deliveries'[d].status) = v
      /\ deliveries'[d].generation = deliveries[d].generation
      /\ deliveries'[d].attempt_count = deliveries[d].attempt_count + 1
  BY <1>1, <1>3, <1>4 DEF Owns, Phase, Settled
<1>6. v \in Ledger!Verdicts(deliveries[d].attempt_count + 1, code)
  BY <1>2, <1>3, MaxAttemptsAssumption
     DEF Ledger!Verdicts, Settle, Phase, Success, Retryable,
         Ledger!Success, Ledger!Retryable
<1>7. dead_letters' = IF v = "dead"
                      THEN [dead_letters EXCEPT ![d] = error]
                      ELSE dead_letters
  BY DEF Finish, Settle, Phase
<1>8. delivery_attempts' = delivery_attempts \cup
         {[delivery |-> d, generation |-> deliveries[d].generation,
           attempt |-> deliveries[d].attempt_count + 1,
           status_code |-> code, error |-> error]}
  BY <1>3 DEF Finish, AttemptOf
<1>9. Ledger!Record(d, code, error)
  <2> DEFINE phase == [x \in Delivery |-> Phase(deliveries[x].status)]
             attempts == [x \in Delivery |-> deliveries[x].attempt_count]
             generation == [x \in Delivery |-> deliveries[x].generation]
  <2>1. /\ phase[d] = "queued"
        /\ attempts[d] = deliveries[d].attempt_count
        /\ generation[d] = deliveries[d].generation
    BY <1>2, <1>5
  <2>2. attempts' = [attempts EXCEPT ![d] = attempts[d] + 1]
    BY <1>2, <1>4, <1>5
  <2>3. phase' = [phase EXCEPT ![d] = v]
    BY <1>2, <1>4, <1>5
  <2>4. generation' = generation
    BY <1>2, <1>4, <1>5
  <2>5. \E w \in Ledger!Verdicts(attempts[d] + 1, code) :
           /\ phase' = [phase EXCEPT ![d] = w]
           /\ dead_letters' = IF w = "dead"
                              THEN [dead_letters EXCEPT ![d] = error]
                              ELSE dead_letters
    BY <1>6, <1>7, <2>1, <2>3
  <2> HIDE DEF v
  <2> QED BY <1>8, <2>1, <2>2, <2>4, <2>5 DEF Ledger!Record
<1> QED BY <1>2, <1>9

\* Every step of the queue is a step of the ledger or leaves it alone.
LEMMA LedgerStep ==
  QueueInv /\ [Next]_vars => [Ledger!LNext]_(Ledger!lifecycleVars)
<1> SUFFICES ASSUME QueueInv, [Next]_vars
             PROVE  Ledger!LNext \/ UNCHANGED Ledger!lifecycleVars
  OBVIOUS
<1>0. TypeOK
  BY DEF QueueInv
<1>1. ASSUME UNCHANGED <<deliveries, delivery_attempts, dead_letters>>
      PROVE  UNCHANGED Ledger!lifecycleVars
  BY <1>1, LedgerStutter
<1>2. CASE UNCHANGED vars
  BY <1>1, <1>2 DEF vars
<1>3. ASSUME NEW ev \in Event, Accept(ev) PROVE Ledger!LNext
  BY <1>3, AcceptEnqueues DEF Ledger!LNext
<1>4. ASSUME NEW d \in Delivery, ReplayCommit(d) PROVE Ledger!LNext
  BY <1>4, ReplayRevives DEF Ledger!LNext
<1>5. ASSUME NEW d \in Delivery, BecomeDue(d) \/ LeaseExpire(d)
      PROVE  UNCHANGED Ledger!lifecycleVars
  <2>1. UNCHANGED <<delivery_attempts, dead_letters>>
    BY <1>5 DEF BecomeDue, LeaseExpire
  <2>2. \A x \in Delivery :
           /\ deliveries'[x].attempt_count = deliveries[x].attempt_count
           /\ deliveries'[x].generation = deliveries[x].generation
           /\ deliveries'[x].status = deliveries[x].status
    BY <1>0, <1>5 DEF BecomeDue, LeaseExpire, TypeOK, Row
  <2> QED BY <2>1, <2>2, LedgerStutter
<1>6. ASSUME NEW d \in Delivery, NEW t \in Token, Claim(d, t)
      PROVE  UNCHANGED Ledger!lifecycleVars
  <2>1. UNCHANGED <<delivery_attempts, dead_letters>>
    BY <1>6 DEF Claim
  <2>2. \A x \in Delivery :
           /\ deliveries'[x].attempt_count = deliveries[x].attempt_count
           /\ deliveries'[x].generation = deliveries[x].generation
           /\ Phase(deliveries'[x].status) = Phase(deliveries[x].status)
    BY <1>0, <1>6 DEF Claim, Claimable, Claimed, Phase, TypeOK
  <2> QED BY <2>1, <2>2, LedgerStutter
<1>7. ASSUME NEW t \in Token, Cancel(t)
      PROVE  Ledger!LNext \/ UNCHANGED Ledger!lifecycleVars
  <2>1. CASE Owns(t)
    BY <1>7, <2>1, CancelDrops DEF Ledger!LNext
  <2>2. CASE ~Owns(t)
    BY <1>1, <1>7, <2>2 DEF Cancel, Defer
  <2> QED BY <2>1, <2>2
<1>8. ASSUME NEW t \in Token, Throttle(t)
      PROVE  UNCHANGED Ledger!lifecycleVars
  <2>1. job[t].delivery \in Delivery
    BY <1>0, <1>8, BusyJob DEF Throttle, Busy
  <2>2. UNCHANGED <<delivery_attempts, dead_letters>>
    BY <1>8 DEF Throttle, Defer
  <2>3. \A x \in Delivery :
           /\ deliveries'[x].attempt_count = deliveries[x].attempt_count
           /\ deliveries'[x].generation = deliveries[x].generation
           /\ Phase(deliveries'[x].status) = Phase(deliveries[x].status)
    BY <1>0, <1>8, <2>1 DEF Throttle, Defer, Deferred, Owns, Phase, TypeOK
  <2> QED BY <2>2, <2>3, LedgerStutter
<1>9. ASSUME NEW t \in Token, Finish(t) PROVE Ledger!LNext
  BY <1>9, FinishRecords DEF Ledger!LNext
<1>10. ASSUME \/ \E p \in Endpoint :
                   \/ \E active \in BOOLEAN, m \in 1..MaxAttempts :
                        UpdateEndpoint(p, active, m)
                   \/ DeleteEndpoint(p)
              \/ \E d \in Delivery : ReplayBegin(d) \/ ReplayRollback(d)
              \/ \E t \in Token :
                   \/ Send(t) \/ FinishRefused(t) \/ Abandon(t)
                   \/ \E code \in StatusCode, reason \in Reason :
                        Respond(t, code, reason)
                   \/ \E reason \in Reason : NoAnswer(t, reason)
       PROVE  UNCHANGED Ledger!lifecycleVars
  BY <1>1, <1>10
     DEF UpdateEndpoint, DeleteEndpoint, ReplayBegin, ReplayRollback, Send,
         FinishRefused, Abandon, Respond, NoAnswer, Returned
<1> QED
  BY <1>2, <1>3, <1>4, <1>5, <1>6, <1>7, <1>8, <1>9, <1>10 DEF Next

\* The queue, with its leases, stale workers and crashes, implements the
\* ledger of DeliveryLifecycle.
THEOREM QueueImplementsLedger == Spec => ImplementsLifecycle
<1>1. Spec => Ledger!LInit
  BY LedgerInit DEF Spec
<1>2. Spec => [][Ledger!LNext]_(Ledger!lifecycleVars)
  BY LedgerStep, QueueInvariant, PTL DEF Spec
<1> QED BY <1>1, <1>2 DEF ImplementsLifecycle, Ledger!LSpec
=============================================================================
