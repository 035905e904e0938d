---------------------------- MODULE ExchangeProofs ----------------------------
(***************************************************************************)
(* Proofs about Exchange, for any number of deliveries, secrets, losses    *)
(* and changes, every budget, base delay, window and timeout, and every    *)
(* query of the receiver's URL.                                            *)
(***************************************************************************)
EXTENDS Exchange, TLAPS

-----------------------------------------------------------------------------
(* The schedule of retries.                                                 *)

Capped(n) == IF n > Hour THEN Hour ELSE n

\* The shift, attempt by attempt.
LEMMA NominalTable ==
    ASSUME NEW b \in 1..Hour
    PROVE  /\ Nominal(1, b) = Capped(b)        /\ Nominal(2, b) = Capped(b * 2)
           /\ Nominal(3, b) = Capped(b * 4)    /\ Nominal(4, b) = Capped(b * 8)
           /\ Nominal(5, b) = Capped(b * 16)   /\ Nominal(6, b) = Capped(b * 32)
           /\ Nominal(7, b) = Capped(b * 64)   /\ Nominal(8, b) = Capped(b * 128)
           /\ Nominal(9, b) = Capped(b * 256)  /\ Nominal(10, b) = Capped(b * 512)
<1>1. /\ 2^0 = 1 /\ 2^1 = 2 /\ 2^2 = 4 /\ 2^3 = 8 /\ 2^4 = 16
      /\ 2^5 = 32 /\ 2^6 = 64 /\ 2^7 = 128 /\ 2^8 = 256 /\ 2^9 = 512
  OBVIOUS
<1>2. \A n \in 1..10 : Nominal(n, b) = Capped(b * 2^(n - 1))
  BY DEF Nominal, ClampAttempt, Capped
<1> QED BY <1>1, <1>2, SMTT(30)

\* One doubling and one cap for one more attempt.
LEMMA NominalDoubles ==
    ASSUME NEW b \in 1..Hour, NEW n \in 1..9
    PROVE  Nominal(n + 1, b) = Doubled(Nominal(n, b))
<1>1. \A m \in Nat : Capped(m * 2) = Doubled(Capped(m))
  BY DEF Capped, Doubled, Hour
<1>2. CASE n = 1
  BY <1>1, <1>2, NominalTable
<1>3. CASE n = 2
  BY <1>1, <1>3, NominalTable
<1>4. CASE n = 3
  BY <1>1, <1>4, NominalTable
<1>5. CASE n = 4
  BY <1>1, <1>5, NominalTable
<1>6. CASE n = 5
  BY <1>1, <1>6, NominalTable
<1>7. CASE n = 6
  BY <1>1, <1>7, NominalTable
<1>8. CASE n = 7
  BY <1>1, <1>8, NominalTable
<1>9. CASE n = 8
  BY <1>1, <1>9, NominalTable
<1>10. CASE n = 9
  BY <1>1, <1>10, NominalTable
<1> QED BY <1>2, <1>3, <1>4, <1>5, <1>6, <1>7, <1>8, <1>9, <1>10

\* The first delay is the base delay, and a delay is a number of seconds.
LEMMA DelayIsNat ==
    /\ \A b \in 1..Hour : b \in Nat /\ Nominal(1, b) = b
    /\ \A n \in Nat : Doubled(n) \in Nat
<1>1. ASSUME NEW b \in 1..Hour PROVE b \in Nat /\ Nominal(1, b) = b
  <2>1. Nominal(1, b) = Capped(b)
    BY NominalTable
  <2>2. Capped(b) = b /\ b \in Nat
    BY DEF Capped, Hour
  <2> QED BY <2>1, <2>2
<1>2. \A n \in Nat : Doubled(n) \in Nat
  BY DEF Doubled, Hour
<1> QED BY <1>1, <1>2

-----------------------------------------------------------------------------
(* The invariant, delivery by delivery.                                     *)

Recovered(d) ==
    status[d] = "dead" /\ Able /\ ~differed[d] /\ d \notin forgotten
    => lost[d] + Failures >= Budget[d]

Justified(d) == code[d] = 401 /\ Chosen(setup) # 401 => differed[d] \/ ~ClocksAgree

Fine(d) ==
    /\ AtWork(d) /\ SecretsAgree(d) /\ DelayDoubles(d)
    /\ Explained(d) /\ Recovered(d) /\ Justified(d)

\* The invariant speaks of one delivery at a time.
LEMMA FineOnes == ExchangeInv <=> TypeOK /\ \A d \in Delivery : Fine(d)
BY DEF ExchangeInv, Fine, RecoversWithinBudget, RefusalHasCause, Recovered, Justified

\* The same of the next state.
LEMMA FineOnesNext == ExchangeInv' <=> TypeOK' /\ \A d \in Delivery : Fine(d)'
BY DEF ExchangeInv, Fine, RecoversWithinBudget, RefusalHasCause, Recovered, Justified

\* What the query and the constants are.
LEMMA SetupParts ==
    ASSUME TypeOK
    PROVE  /\ setup.base \in 1..Hour /\ setup.failures \in Int /\ setup.sleep \in Int
           /\ setup.status \in Int /\ setup.skew \in Int
           /\ Window \in Nat /\ MaxSleep \in Nat /\ HTTPTimeout \in Nat
           /\ Failures \in Nat /\ Chosen(setup) \in 200..599
<1>1. /\ setup.base \in 1..Hour /\ setup.failures \in Int /\ setup.sleep \in Int
      /\ setup.status \in Int /\ setup.skew \in Int
  BY ExchangeAssumption DEF TypeOK
<1>2. Window \in Nat /\ MaxSleep \in Nat /\ HTTPTimeout \in Nat
  BY ReceiverAssumption, ExchangeAssumption
<1> QED BY <1>1, <1>2 DEF Failures, Chosen

\* The attempts of one delivery leave the other ones alone; the receiver either
\* keeps its count of another one or forgets it.
Beside(d) ==
    /\ UNCHANGED <<setup, secret, rxSecret>>
    /\ \A q \in Delivery \ {d} :
         /\ status'[q] = status[q] /\ attempt'[q] = attempt[q] /\ delay'[q] = delay[q]
         /\ pc'[q] = pc[q] /\ signed'[q] = signed[q] /\ code'[q] = code[q]
         /\ lost'[q] = lost[q] /\ differed'[q] = differed[q]
         /\ q \notin forgotten' => q \notin forgotten /\ counts'[q] = counts[q]

\* A step of one delivery leaves the others fine.
LEMMA OthersFine ==
    ASSUME NEW d \in Delivery, ExchangeInv, Beside(d), TypeOK', Fine(d)'
    PROVE  ExchangeInv'
<1>1. ASSUME NEW q \in Delivery \ {d} PROVE Fine(q)'
  <2>1. Fine(q)
    BY FineOnes
  <2>2. AtWork(q)' /\ SecretsAgree(q)' /\ DelayDoubles(q)'
    BY <2>1 DEF Fine, Beside, AtWork, SecretsAgree, DelayDoubles
  <2>3. Explained(q)' /\ Recovered(q)' /\ Justified(q)'
    BY <2>1 DEF Fine, Beside, Explained, Recovered, Justified, Met, Able, Failures, ClocksAgree
  <2> QED BY <2>2, <2>3 DEF Fine
<1> QED BY <1>1, FineOnesNext

-----------------------------------------------------------------------------
(* The steps of a worker.                                                   *)

\* A claim signs with the present secret and notes whether the receiver has it.
LEMMA ClaimStep == ASSUME ExchangeInv, NEW d \in Delivery, Claim(d) PROVE ExchangeInv'
<1>1. /\ status[d] = "queued" /\ pc[d] = "idle" /\ pc'[d] = "claimed"
      /\ signed'[d] = secret /\ differed'[d] = (secret # rxSecret)
      /\ UNCHANGED <<setup, secret, rows, code, lost, losses, changes, rxVars>>
  BY DEF Claim, Goto, SignedNow, ExchangeInv, TypeOK
<1>2. Beside(d)
  BY <1>1 DEF Claim, Goto, SignedNow, Beside, rows, rxVars, ExchangeInv, TypeOK
<1>3. TypeOK'
  <2>1. differed' \in [Delivery -> BOOLEAN]
    BY DEF Claim, ExchangeInv, TypeOK
  <2> QED BY <1>1, <2>1 DEF Claim, Goto, SignedNow, rows, rxVars, ExchangeInv, TypeOK
<1>4. Fine(d)
  BY FineOnes
<1>5. AtWork(d)' /\ SecretsAgree(d)' /\ DelayDoubles(d)'
  BY <1>1, <1>4 DEF Fine, AtWork, SecretsAgree, DelayDoubles, rows, rxVars
<1>6. Explained(d)' /\ Recovered(d)' /\ Justified(d)'
  BY <1>1, <1>4 DEF Fine, AtWork, Explained, Recovered, Justified, Met, Able, Failures,
                    ClocksAgree, rows, rxVars
<1> QED BY <1>2, <1>3, <1>5, <1>6, OthersFine DEF Fine

\* Counting a request: the receiver forgets a delivery, or counts it on.
LEMMA CountStep ==
    ASSUME TypeOK, NEW d \in Delivery, Count(d)
    PROVE  /\ counts' \in [Delivery -> Nat] /\ forgotten' \subseteq Delivery
           /\ UNCHANGED rxSecret
           /\ d \notin forgotten' => d \notin forgotten /\ counts'[d] = counts[d] + 1
           /\ \A q \in Delivery \ {d} : q \notin forgotten' =>
                q \notin forgotten /\ counts'[q] = counts[q]
<1>1. CASE Cardinality(Counted) > MaxCounts
  <2>1. /\ counts' = [e \in Delivery |-> IF e = d THEN 1 ELSE 0]
        /\ forgotten' = forgotten \cup Counted
    BY <1>1 DEF Count
  <2>2. \A q \in Delivery : q \notin forgotten' => q \notin forgotten /\ counts[q] = 0
    BY <2>1 DEF Counted, TypeOK
  <2> QED BY <2>1, <2>2 DEF Count, Counted, TypeOK
<1>2. CASE ~(Cardinality(Counted) > MaxCounts)
  BY <1>2 DEF Count, TypeOK
<1> QED BY <1>1, <1>2

\* A request reaches the receiver: it is refused, which has a cause; failed on
\* purpose, which its count explains; or taken.
LEMMA ReachStep ==
    ASSUME ExchangeInv, NEW d \in Delivery, NEW late \in 0..(HTTPTimeout + 1), Reach(d, late)
    PROVE  ExchangeInv'
<1>1. /\ pc[d] = "claimed"
      /\ UNCHANGED <<setup, secret, rows, signed, history, losses, changes>>
  BY DEF Reach
<1>2. TypeOK /\ Fine(d)
  BY FineOnes
<1>3. status[d] = "queued" /\ code[d] = 0 /\ attempt[d] \in Nat /\ attempt[d] < Budget[d]
  BY <1>1, <1>2 DEF Fine, AtWork, TypeOK
<1>4. CASE ~Verify(signed[d], late + setup.skew) /\ Result(d, 401) /\ UNCHANGED rxVars
  <2>1. /\ pc'[d] = "returned" /\ code'[d] = 401
        /\ \A q \in Delivery \ {d} : pc'[q] = pc[q] /\ code'[q] = code[q]
        /\ pc' \in [Delivery -> {"idle", "claimed", "napping", "returned"}]
        /\ code' \in [Delivery -> 0..599]
    BY <1>2, <1>4 DEF Result, Goto, TypeOK
  <2>2. Beside(d) /\ TypeOK'
    BY <1>1, <1>2, <1>4, <2>1 DEF Beside, rows, rxVars, history, TypeOK
  <2>3. differed[d] \/ ~ClocksAgree
    <3>1. CASE signed[d] = rxSecret
      BY <1>2, <1>4, <3>1, SetupParts DEF Verify, ClocksAgree
    <3>2. CASE signed[d] # rxSecret
      BY <1>1, <1>2, <3>2 DEF Fine, SecretsAgree
    <3> QED BY <3>1, <3>2
  <2>4. (differed[d] \/ ~ClocksAgree)' /\ Able' = Able /\ (Able => ClocksAgree)
    BY <1>1, <2>3 DEF ClocksAgree, Able, history
  <2>5. AtWork(d)' /\ SecretsAgree(d)' /\ DelayDoubles(d)'
    BY <1>1, <1>2, <1>3, <1>4, <2>1 DEF Fine, AtWork, SecretsAgree, DelayDoubles, rows, rxVars,
                                       history
  <2>6. Explained(d)'
    BY <1>1, <1>2, <1>3, <1>4, <2>1, <2>3, <2>4 DEF Fine, Explained, Met, Failures, rows, rxVars,
                                                   history
  <2>7. Recovered(d)' /\ Justified(d)'
    BY <1>1, <1>3, <2>4 DEF Recovered, Justified, rows
  <2> QED BY <2>2, <2>5, <2>6, <2>7, OthersFine DEF Fine
<1>5. CASE /\ Count(d)
           /\ IF FailsOnPurpose(d, setup) THEN Result(d, 500)
              ELSE Goto(d, "napping") /\ UNCHANGED code
  <2>1. /\ counts' \in [Delivery -> Nat] /\ forgotten' \subseteq Delivery
        /\ UNCHANGED rxSecret
        /\ d \notin forgotten' => d \notin forgotten /\ counts'[d] = counts[d] + 1
        /\ \A q \in Delivery \ {d} : q \notin forgotten' =>
             q \notin forgotten /\ counts'[q] = counts[q]
    BY <1>2, <1>5, CountStep
  <2>2. /\ \/ pc'[d] = "returned" /\ code'[d] = 500 /\ counts'[d] <= setup.failures
           \/ pc'[d] = "napping" /\ code'[d] = 0
        /\ \A q \in Delivery \ {d} : pc'[q] = pc[q] /\ code'[q] = code[q]
        /\ pc' \in [Delivery -> {"idle", "claimed", "napping", "returned"}]
        /\ code' \in [Delivery -> 0..599]
    BY <1>2, <1>3, <1>5 DEF FailsOnPurpose, Result, Goto, TypeOK
  <2>3. Beside(d) /\ TypeOK'
    BY <1>1, <1>2, <2>1, <2>2 DEF Beside, rows, history, TypeOK
  <2>4. AtWork(d)' /\ SecretsAgree(d)' /\ DelayDoubles(d)'
    BY <1>1, <1>2, <1>3, <2>1, <2>2 DEF Fine, AtWork, SecretsAgree, DelayDoubles, rows, history
  <2>5. Recovered(d)' /\ Justified(d)'
    BY <1>1, <1>3, <2>2 DEF Recovered, Justified, rows
  <2>6. Explained(d)'
    <3> SUFFICES ASSUME Able', d \notin forgotten'
                 PROVE  /\ attempt[d] <= Met(d)'
                        /\ pc'[d] = "returned" => code'[d] = 500 /\ attempt[d] < Met(d)'
      BY <1>1, <2>2 DEF Explained, rows
    <3>1. Able /\ d \notin forgotten /\ counts'[d] = counts[d] + 1
      BY <1>1, <2>1 DEF Able, ClocksAgree
    <3>2. attempt[d] <= Met(d)
      BY <1>2, <1>3, <3>1 DEF Fine, Explained
    <3>3. /\ Met(d) = lost[d] + (IF counts[d] < Failures THEN counts[d] ELSE Failures)
          /\ Met(d)' = lost[d] + (IF counts'[d] < Failures THEN counts'[d] ELSE Failures)
      BY <1>1 DEF Met, Failures, history
    <3>4. counts[d] \in Nat /\ lost[d] \in Nat /\ Failures \in Nat
      BY <1>2, SetupParts DEF TypeOK
    <3>5. attempt[d] <= Met(d)'
      BY <1>3, <3>1, <3>2, <3>3, <3>4
    <3>6. ASSUME pc'[d] = "returned" PROVE code'[d] = 500 /\ attempt[d] < Met(d)'
      <4>1. code'[d] = 500 /\ counts'[d] <= setup.failures
        BY <2>2, <3>6
      <4>2. counts'[d] <= Failures
        BY <1>2, <3>1, <3>4, <4>1, SetupParts DEF Failures
      <4> QED BY <1>3, <3>1, <3>2, <3>3, <3>4, <4>1, <4>2
    <3> QED BY <3>5, <3>6
  <2> QED BY <2>3, <2>4, <2>5, <2>6, OthersFine DEF Fine
<1> QED BY <1>4, <1>5 DEF Reach

\* The handler answers, the answer is lost, or the worker dies.
LEMMA AnswerStep ==
    ASSUME ExchangeInv, NEW d \in Delivery, Wake(d) \/ Lose(d) \/ Die(d)
    PROVE  ExchangeInv'
<1>1. /\ pc[d] # "idle"
      /\ UNCHANGED <<setup, secret, rows, signed, differed, changes, rxVars>>
  BY DEF Wake, Lose, Die, history
<1>2. TypeOK /\ Fine(d)
  BY FineOnes
<1>3. /\ status[d] = "queued" /\ attempt[d] \in Nat /\ attempt[d] < Budget[d]
      /\ lost[d] \in Nat /\ Failures \in Nat /\ Chosen(setup) \in 200..599
  BY <1>1, <1>2, SetupParts DEF Fine, AtWork, TypeOK
<1>4. \/ /\ pc'[d] = "returned" /\ lost'[d] = lost[d]
         /\ \/ code'[d] = Chosen(setup)
            \/ code'[d] = 0 /\ ~(Nap(setup) < HTTPTimeout)
      \/ pc'[d] = "returned" /\ lost'[d] = lost[d] + 1 /\ code'[d] = 0
      \/ pc'[d] = "idle" /\ lost'[d] = lost[d] /\ code'[d] = 0
  BY <1>2 DEF Wake, Lose, Die, Result, Goto, history, TypeOK
<1>5. TypeOK'
  <2>1. /\ pc' \in [Delivery -> {"idle", "claimed", "napping", "returned"}]
        /\ code' \in [Delivery -> 0..599]
    BY <1>2, <1>3 DEF Wake, Lose, Die, Result, Goto, TypeOK
  <2>2. lost' \in [Delivery -> Nat] /\ losses' \in Nat
    BY <1>2 DEF Wake, Lose, Die, history, TypeOK
  <2> QED BY <1>1, <1>2, <2>1, <2>2 DEF rows, rxVars, TypeOK
<1>6. Beside(d)
  <2>1. \A q \in Delivery \ {d} : pc'[q] = pc[q] /\ code'[q] = code[q] /\ lost'[q] = lost[q]
    BY <1>2 DEF Wake, Lose, Die, Result, Goto, history, TypeOK
  <2> QED BY <1>1, <2>1 DEF Beside, rows, rxVars
<1>7. AtWork(d)' /\ SecretsAgree(d)' /\ DelayDoubles(d)'
  BY <1>1, <1>2, <1>3, <1>4 DEF Fine, AtWork, SecretsAgree, DelayDoubles, rows, rxVars
<1>8. Recovered(d)' /\ Justified(d)'
  BY <1>1, <1>3, <1>4 DEF Recovered, Justified, rows
<1>9. Explained(d)'
  <2> SUFFICES ASSUME Able', d \notin forgotten
               PROVE  /\ attempt[d] <= Met(d)'
                      /\ pc'[d] = "returned" =>
                           (code'[d] = 0 /\ attempt[d] < Met(d)') \/ Success(code'[d])
    BY <1>1 DEF Explained, rows, rxVars
  <2>1. Able
    BY <1>1 DEF Able, ClocksAgree
  <2>2. attempt[d] <= Met(d)
    BY <1>1, <1>2, <1>3, <2>1 DEF Fine, Explained
  <2>3. /\ Met(d) = lost[d] + (IF counts[d] < Failures THEN counts[d] ELSE Failures)
        /\ Met(d)' = lost'[d] + (IF counts[d] < Failures THEN counts[d] ELSE Failures)
        /\ counts[d] \in Nat
    BY <1>1, <1>2 DEF Met, Failures, rxVars, TypeOK
  <2>4. /\ lost'[d] = lost[d] => Met(d)' = Met(d)
        /\ lost'[d] = lost[d] + 1 => Met(d)' = Met(d) + 1
        /\ Met(d) \in Nat
    BY <1>3, <2>3
  <2>5. Success(Chosen(setup)) /\ Nap(setup) < HTTPTimeout
    BY <2>1 DEF Able
  <2>6. CASE /\ pc'[d] = "returned" /\ lost'[d] = lost[d]
             /\ \/ code'[d] = Chosen(setup)
                \/ code'[d] = 0 /\ ~(Nap(setup) < HTTPTimeout)
    BY <2>2, <2>4, <2>5, <2>6
  <2>7. CASE pc'[d] = "returned" /\ lost'[d] = lost[d] + 1 /\ code'[d] = 0
    BY <1>3, <2>2, <2>4, <2>7
  <2>8. CASE pc'[d] = "idle" /\ lost'[d] = lost[d] /\ code'[d] = 0
    BY <2>2, <2>4, <2>8
  <2> QED BY <1>4, <2>6, <2>7, <2>8
<1> QED BY <1>5, <1>6, <1>7, <1>8, <1>9, OthersFine DEF Fine

\* Finish: what it gives up was explained for the whole budget, and the
\* reference delay doubles with the schedule.
LEMMA FinishStep == ASSUME ExchangeInv, NEW d \in Delivery, Finish(d) PROVE ExchangeInv'
<1>1. /\ pc[d] = "returned" /\ status'[d] = Settle(d) /\ attempt'[d] = attempt[d] + 1
      /\ delay'[d] = (IF attempt[d] = 0 THEN setup.base ELSE Doubled(delay[d]))
      /\ code'[d] = 0 /\ pc'[d] = "idle"
      /\ UNCHANGED <<setup, secret, signed, history, losses, changes, rxVars>>
  BY DEF Finish, Goto, ExchangeInv, TypeOK
<1>2. TypeOK /\ Fine(d)
  BY FineOnes
<1>3. /\ status[d] = "queued" /\ attempt[d] \in Nat /\ attempt[d] < Budget[d]
      /\ lost[d] \in Nat /\ Failures \in Nat /\ counts[d] \in Nat /\ delay[d] \in Nat
      /\ setup.base \in 1..Hour /\ Budget[d] \in 1..10 /\ code[d] \in 0..599
  BY <1>1, <1>2, SetupParts, ExchangeAssumption DEF Fine, AtWork, TypeOK
<1>4. /\ Settle(d) \in {"queued", "succeeded", "dead"}
      /\ Settle(d) = "queued" => /\ ~Success(code[d]) /\ Retryable(code[d])
                                 /\ attempt[d] + 1 < Budget[d]
      /\ Settle(d) = "dead" => /\ ~Success(code[d])
                               /\ Retryable(code[d]) => attempt[d] + 1 >= Budget[d]
  BY <1>3 DEF Settle
<1>5. TypeOK'
  <2>1. delay' \in [Delivery -> Nat]
    <3>1. delay'[d] \in Nat
      BY <1>1, <1>3, DelayIsNat
    <3>2. /\ delay' = [q \in Delivery |-> delay'[q]]
          /\ \A q \in Delivery \ {d} : delay'[q] = delay[q]
      BY <1>2 DEF Finish, TypeOK
    <3> QED BY <1>2, <3>1, <3>2 DEF TypeOK
  <2>2. /\ status' \in [Delivery -> {"queued", "succeeded", "dead"}]
        /\ attempt' \in [Delivery -> Nat]
    BY <1>2, <1>3, <1>4 DEF Finish, TypeOK
  <2>3. /\ pc' \in [Delivery -> {"idle", "claimed", "napping", "returned"}]
        /\ code' \in [Delivery -> 0..599]
    BY <1>2 DEF Finish, Goto, TypeOK
  <2> QED BY <1>1, <1>2, <2>1, <2>2, <2>3 DEF history, rxVars, TypeOK
<1>6. Beside(d)
  <2>1. \A q \in Delivery \ {d} :
          /\ status'[q] = status[q] /\ attempt'[q] = attempt[q] /\ delay'[q] = delay[q]
          /\ pc'[q] = pc[q] /\ code'[q] = code[q]
    BY <1>2 DEF Finish, Goto, TypeOK
  <2> QED BY <1>1, <2>1 DEF Beside, history, rxVars
<1>7. AtWork(d)' /\ SecretsAgree(d)'
  BY <1>1, <1>3, <1>4 DEF AtWork, SecretsAgree
<1>8. DelayDoubles(d)'
  <2>1. CASE attempt[d] = 0
    <3>1. Nominal(1, setup.base) = setup.base
      BY <1>3, DelayIsNat
    <3> QED BY <1>1, <2>1, <3>1 DEF DelayDoubles
  <2>2. CASE attempt[d] # 0
    <3>1. attempt[d] \in 1..9 /\ delay[d] = Nominal(attempt[d], setup.base)
      BY <1>2, <1>3, <2>2 DEF Fine, DelayDoubles
    <3> QED BY <1>1, <1>3, <2>2, <3>1, NominalDoubles DEF DelayDoubles
  <2> QED BY <2>1, <2>2
<1>9. Able /\ d \notin forgotten =>
        /\ attempt[d] <= Met(d)
        /\ \/ code[d] \in {0, 500} /\ attempt[d] < Met(d)
           \/ Success(code[d])
           \/ code[d] = 401 /\ differed[d]
  BY <1>1, <1>2, <1>3 DEF Fine, Explained
<1>10. Able' = Able /\ Met(d)' = Met(d) /\ Failures' = Failures
  BY <1>1 DEF Able, ClocksAgree, Met, Failures, history, rxVars
<1>11. Met(d) \in Nat /\ Met(d) <= lost[d] + Failures
  BY <1>3 DEF Met
<1>12. ~Retryable(401) /\ Retryable(0) /\ Retryable(500)
  BY DEF Retryable
<1>13. Explained(d)'
  <2> SUFFICES ASSUME Able, d \notin forgotten, Settle(d) = "queued"
               PROVE  attempt[d] + 1 <= Met(d)
    BY <1>1, <1>10 DEF Explained, rxVars
  <2>1. attempt[d] < Met(d)
    BY <1>4, <1>9, <1>12
  <2> QED BY <1>3, <1>11, <2>1
<1>14. Recovered(d)'
  <2> SUFFICES ASSUME Able, d \notin forgotten, ~differed[d], Settle(d) = "dead"
               PROVE  lost[d] + Failures >= Budget[d]
    BY <1>1, <1>10 DEF Recovered, history, rxVars
  <2>1. attempt[d] < Met(d) /\ attempt[d] + 1 >= Budget[d]
    BY <1>4, <1>9, <1>12
  <2> QED BY <1>3, <1>11, <2>1
<1>15. Justified(d)'
  BY <1>1 DEF Justified
<1> QED BY <1>5, <1>6, <1>7, <1>8, <1>13, <1>14, <1>15, OthersFine DEF Fine

-----------------------------------------------------------------------------
(* The steps of the others.                                                 *)

\* Another secret on either side is seen by every open claim, and a receiver
\* that is started again has forgotten what it had counted.
LEMMA ChangeStep ==
    ASSUME ExchangeInv, NEW s \in Secret, Rotate(s) \/ RestartReceiver(s)
    PROVE  ExchangeInv'
<1>1. /\ UNCHANGED <<setup, rows, worker, lost, losses>> /\ changes' \in Nat
      /\ secret' = secret \/ rxSecret' = rxSecret
      /\ secret' \in Secret /\ rxSecret' \in Secret
      /\ differed' = Differs
  BY DEF Rotate, RestartReceiver, Restart, ExchangeInv, TypeOK, rxVars
<1>2. \A d \in Delivery :
        /\ differed'[d] = (differed[d] \/ (pc[d] # "idle" /\ secret' # rxSecret'))
        /\ d \notin forgotten' => d \notin forgotten /\ counts'[d] = counts[d]
  <2>1. \A d \in Delivery :
          differed'[d] = (differed[d] \/ (pc[d] # "idle" /\ secret' # rxSecret'))
    BY <1>1 DEF Differs
  <2>2. CASE Rotate(s)
    BY <2>1, <2>2 DEF Rotate, rxVars
  <2>3. CASE RestartReceiver(s)
    BY <2>1, <2>3 DEF RestartReceiver, Restart, Counted, ExchangeInv, TypeOK
  <2> QED BY <2>2, <2>3
<1>3. TypeOK'
  <2>1. differed' \in [Delivery -> BOOLEAN]
    BY <1>1 DEF Differs, ExchangeInv, TypeOK
  <2>2. counts' \in [Delivery -> Nat] /\ forgotten' \subseteq Delivery
    BY DEF Rotate, RestartReceiver, Restart, Counted, rxVars, ExchangeInv, TypeOK
  <2> QED BY <1>1, <2>1, <2>2 DEF rows, worker, ExchangeInv, TypeOK
<1>4. ASSUME NEW d \in Delivery PROVE Fine(d)'
  <2>1. Fine(d)
    BY FineOnes
  <2>2. differed[d] => differed'[d]
    BY <1>2
  <2>3. AtWork(d)' /\ DelayDoubles(d)'
    BY <1>1, <2>1 DEF Fine, AtWork, DelayDoubles, rows, worker
  <2>4. SecretsAgree(d)'
    <3> SUFFICES ASSUME pc[d] # "idle", ~differed'[d]
                 PROVE  signed[d] = secret' /\ secret' = rxSecret'
      BY <1>1 DEF SecretsAgree, worker
    <3>1. ~differed[d] /\ secret' = rxSecret'
      BY <1>2
    <3>2. signed[d] = secret /\ secret = rxSecret
      BY <2>1, <3>1 DEF Fine, SecretsAgree
    <3> QED BY <1>1, <3>1, <3>2
  <2>5. Able' = Able /\ ClocksAgree' = ClocksAgree /\ Failures' = Failures
    BY <1>1 DEF Able, ClocksAgree, Failures
  <2>6. d \notin forgotten' => d \notin forgotten /\ Met(d)' = Met(d)
    BY <1>1, <1>2, <2>5 DEF Met
  <2>7. Explained(d)' /\ Recovered(d)' /\ Justified(d)'
    BY <1>1, <2>1, <2>2, <2>5, <2>6 DEF Fine, Explained, Recovered, Justified, rows, worker
  <2> QED BY <2>3, <2>4, <2>7 DEF Fine
<1> QED BY <1>3, <1>4, FineOnesNext

\* Nothing has been attempted or lost yet.
LEMMA ExchangeInit == Init => ExchangeInv
<1> SUFFICES ASSUME Init PROVE ExchangeInv
  OBVIOUS
<1>1. TypeOK
  BY DEF Init, RxInit, TypeOK
<1>2. ASSUME NEW d \in Delivery PROVE Fine(d)
  <2>1. Budget[d] \in 1..10 /\ Failures \in Nat
    BY <1>1, SetupParts, ExchangeAssumption
  <2>2. AtWork(d) /\ SecretsAgree(d) /\ DelayDoubles(d)
    BY <2>1 DEF Init, AtWork, SecretsAgree, DelayDoubles
  <2>3. Explained(d) /\ Recovered(d) /\ Justified(d)
    BY <2>1 DEF Init, RxInit, Explained, Met, Recovered, Justified
  <2> QED BY <2>2, <2>3 DEF Fine
<1> QED BY <1>1, <1>2, FineOnes

\* Every step of worker, receiver and operators keeps the invariant.
LEMMA ExchangeStep == ExchangeInv /\ [Next]_vars => ExchangeInv'
<1> SUFFICES ASSUME ExchangeInv, [Next]_vars PROVE ExchangeInv'
  OBVIOUS
<1>1. CASE UNCHANGED vars
  <2>1. TypeOK'
    BY <1>1 DEF vars, rows, worker, history, rxVars, ExchangeInv, TypeOK
  <2>2. ASSUME NEW d \in Delivery PROVE Fine(d)'
    <3>1. Fine(d)
      BY FineOnes
    <3> QED BY <1>1, <3>1 DEF vars, rows, worker, history, rxVars, Fine, AtWork, SecretsAgree,
              DelayDoubles, Explained, Recovered, Justified, Met, Able, Failures, ClocksAgree
  <2> QED BY <2>1, <2>2, FineOnesNext
<1>2. CASE Next
  BY <1>2, ClaimStep, ReachStep, AnswerStep, FinishStep, ChangeStep DEF Next
<1> QED BY <1>1, <1>2

-----------------------------------------------------------------------------
(* The theorems.                                                            *)

\* The inductive invariant: what an able receiver has not taken was lost or
\* failed on purpose, and a claim under which the secrets did not differ was
\* signed with both.
THEOREM ExchangeInvariant == Spec => []ExchangeInv
BY ExchangeInit, ExchangeStep, PTL DEF Spec

\* The shift and the cap of Backoff are doubling and capping, for every base
\* delay and every attempt that validateEndpoint allows.
THEOREM BackoffIsExponential == Spec => []BackoffFollowsRule
<1>1. ExchangeInv => BackoffFollowsRule
  BY DEF ExchangeInv, DelayDoubles, BackoffFollowsRule, Backoff
<1> QED BY <1>1, ExchangeInvariant, PTL

\* A delivery to a receiver that recovers is given up only when losses and
\* failures on purpose used up its budget, for every budget and query.
THEOREM RecoveryFitsTheBudget == Spec => []RecoversWithinBudget
<1>1. ExchangeInv => RecoversWithinBudget
  BY DEF ExchangeInv
<1> QED BY <1>1, ExchangeInvariant, PTL

\* Verify refuses a genuine request only when the secrets differed during its
\* claim or the clocks are too far apart for the window.
THEOREM RefusalsAreJustified == Spec => []RefusalHasCause
<1>1. ExchangeInv => RefusalHasCause
  BY DEF ExchangeInv
<1> QED BY <1>1, ExchangeInvariant, PTL
==============================================================================
