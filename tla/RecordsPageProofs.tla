-------------------------- MODULE RecordsPageProofs --------------------------
(***************************************************************************)
(* Proofs about RecordsPage, for every set of filters, every number of     *)
(* rows and loads and every length of a page.                              *)
(***************************************************************************)
EXTENDS RecordsPage, TLAPS

\* A change of offset, of the filter or of version by the user.
LEMMA UserStep ==
    ASSUME PageInv,
           \/ \E f \in Filter : SetFilter(f)
           \/ Refresh \/ NextPage \/ PreviousPage
    PROVE  PageInv'
<1>1. /\ UNCHANGED <<seen, cur, req, data, error, loading>>
      /\ seen # <<>> /\ seen[1] = filter
  BY DEF SetFilter, Refresh, NextPage, PreviousPage, Turn, Responsive
<1>2. OneIsCurrent' /\ CurrentIsShown' /\ ShownIsOver' /\ StaleErrorWasCut'
  BY <1>1 DEF PageInv, OneIsCurrent, CurrentIsShown, ShownIsOver, StaleErrorWasCut
<1>3. TypeOK'
  <2>1. /\ filter \in Filter /\ offset \in Nat /\ version \in Nat /\ chosenFor \in Filter
        /\ PageSize \in Nat
    BY PageAssumption DEF PageInv, TypeOK
  <2>2. filter' \in Filter /\ version' \in Nat /\ chosenFor' \in Filter
    BY <2>1 DEF SetFilter, Refresh, NextPage, PreviousPage, Turn
  <2>3. offset' \in Nat
    BY <2>1 DEF SetFilter, Refresh, NextPage, PreviousPage, Turn
  <2> QED BY <1>1, <2>2, <2>3 DEF PageInv, TypeOK
<1>4. OffsetWasReset'
  BY <1>1 DEF PageInv, OffsetWasReset, SetFilter, Refresh, NextPage, PreviousPage, Turn
<1> QED BY <1>2, <1>3, <1>4 DEF PageInv

\* The effects start a load and abort the one before it.
LEMMA EffectsStep == ASSUME PageInv, RunEffects PROVE PageInv'
<1> DEFINE new == [phase |-> "headers", filter |-> filter, offset |-> offset, aborted |-> FALSE]
<1>1. /\ cur \in 0..MaxLoads /\ cur < MaxLoads /\ cur' = cur + 1 /\ MaxLoads \in Nat
      /\ loading' = TRUE /\ error' = 0 /\ seen' = <<filter, offset, version>>
      /\ filter \in Filter /\ offset \in Nat /\ version \in Nat
      /\ UNCHANGED <<filter, version, data, chosenFor>>
  BY PageAssumption DEF RunEffects, ErrorCleared, PageInv, TypeOK
<1>2. new \in Fetch
  BY <1>1 DEF Fetch, Phase
<1>3. \A n \in Load :
        req'[n] = IF n = cur + 1 THEN new ELSE IF n = cur THEN Abort(req[n]) ELSE req[n]
  BY DEF RunEffects
<1>4. \A n \in Load :
        /\ Abort(req[n]) \in Fetch /\ Abort(req[n]).aborted = TRUE
        /\ Abort(req[n]).phase = req[n].phase
  BY DEF Abort, PageInv, TypeOK, Fetch
<1>5. req' \in [Load -> Fetch]
  <2>1. \A n \in Load : req[n] \in Fetch
    BY DEF PageInv, TypeOK
  <2>2. \A n \in Load : req'[n] \in Fetch
    BY <1>2, <1>3, <1>4, <2>1
  <2>3. req' = [n \in Load |-> req'[n]]
    BY DEF RunEffects
  <2> QED BY <2>2, <2>3
<1>6. seen' \in Filter \X Nat \X Nat /\ seen' # <<>>
  BY <1>1
<1>7. offset' \in Nat
  BY <1>1 DEF RunEffects, ResetOffset
<1>8. TypeOK'
  BY <1>1, <1>5, <1>6, <1>7 DEF PageInv, TypeOK
<1>9. OneIsCurrent'
  <2>1. ASSUME NEW n \in Load
        PROVE  /\ req'[n].aborted <=> n < cur'
               /\ req'[n].phase = "none" <=> n > cur'
               /\ req'[n].phase = "cut" => n < cur'
    <3>1. /\ req[n].aborted <=> n < cur
          /\ req[n].phase = "none" <=> n > cur
          /\ req[n].phase = "cut" => n < cur
      BY DEF PageInv, OneIsCurrent
    <3>2. n \in Nat
      BY <1>1 DEF Load
    <3>3. CASE n = cur + 1
      <4>1. req'[n].aborted = FALSE /\ req'[n].phase = "headers"
        BY <1>3, <3>3
      <4> QED BY <1>1, <3>2, <3>3, <4>1
    <3>4. CASE n = cur
      <4>1. req'[n].aborted = TRUE /\ req'[n].phase = req[n].phase
        BY <1>1, <1>3, <1>4, <3>4
      <4> QED BY <1>1, <3>1, <3>2, <3>4, <4>1
    <3>5. CASE n # cur + 1 /\ n # cur
      <4>1. req'[n] = req[n]
        BY <1>3, <3>5
      <4> QED BY <1>1, <3>1, <3>2, <3>5, <4>1
    <3> QED BY <3>3, <3>4, <3>5
  <2> QED BY <1>1, <1>6, <2>1 DEF OneIsCurrent
<1>10. CurrentIsShown'
  <2>1. cur + 1 \in Load
    BY <1>1 DEF Load
  <2>2. req'[cur + 1] = new
    BY <1>3, <2>1
  <2> QED BY <1>1, <2>2 DEF CurrentIsShown
<1>11. ShownIsOver' /\ StaleErrorWasCut'
  <2>1. \A n \in Load : req[n].phase = "over" => req'[n].phase = "over"
    <3>1. \A n \in Load : req[n].phase = "over" => n # cur + 1
      BY <1>1 DEF PageInv, OneIsCurrent, Load
    <3> QED BY <1>3, <1>4, <3>1
  <2>2. data # 0 => data \in Load
    BY <1>1 DEF PageInv, TypeOK, Load
  <2> QED BY <1>1, <2>1, <2>2 DEF PageInv, ShownIsOver, StaleErrorWasCut
<1>12. OffsetWasReset'
  <2>1. offset' = IF seen = <<>> \/ seen[1] # filter THEN 0 ELSE offset
    BY DEF RunEffects, ResetOffset
  <2> QED BY <1>1, <2>1 DEF PageInv, OffsetWasReset
<1> QED BY <1>8, <1>9, <1>10, <1>11, <1>12 DEF PageInv

\* A load makes progress: only the current one stops the loading, and an
\* aborted one can set no more than the message of a load that was cut.
LEMMA AnswerStep == ASSUME PageInv, NEW n \in Load, Answer(n) PROVE PageInv'
<1>1. /\ MaxLoads \in Nat /\ n \in Nat /\ n # 0 /\ n \in 0..MaxLoads /\ cur \in Nat
      /\ UNCHANGED <<filter, offset, version, seen, cur, chosenFor>>
  <2>1. MaxLoads \in Nat /\ n \in 1..MaxLoads /\ cur \in 0..MaxLoads
    BY PageAssumption DEF PageInv, TypeOK, Load
  <2>2. UNCHANGED <<filter, offset, version, seen, cur, chosenFor>>
    BY DEF Answer, Headers, Receive, Fail, AbortError, AbortSwallowed, Goes
  <2> QED BY <2>1, <2>2
<1>2. PICK phase \in Phase \ {"none"} :
        /\ Goes(n, phase)
        /\ \/ /\ phase \in {"body", "errorBody"} /\ ~req[n].aborted
              /\ req[n].phase = "headers" /\ UNCHANGED <<data, error, loading>>
           \/ /\ phase = "over" /\ ~req[n].aborted /\ Finally(n)
              /\ req[n].phase \in {"headers", "body", "errorBody"}
              /\ \/ data' = n /\ UNCHANGED error
                 \/ error' = n /\ UNCHANGED data
           \/ /\ phase = "over" /\ req[n].aborted /\ Finally(n)
              /\ req[n].phase \in {"headers", "body"} /\ UNCHANGED <<data, error>>
           \/ /\ phase = "cut" /\ req[n].aborted /\ Finally(n)
              /\ req[n].phase = "errorBody" /\ error' = n /\ UNCHANGED data
  BY DEF Answer, Headers, Receive, Fail, AbortError, AbortSwallowed, Phase
<1>3. req[n].phase \in {"headers", "body", "errorBody"}
  BY <1>2
<1>4. /\ req'[n].phase = phase /\ req'[n].filter = req[n].filter
      /\ req'[n].offset = req[n].offset /\ req'[n].aborted = req[n].aborted
      /\ \A m \in Load \ {n} : req'[m] = req[m]
      /\ req' \in [Load -> Fetch]
  BY <1>2 DEF Goes, PageInv, TypeOK, Fetch
<1>5. /\ req[n].aborted <=> n < cur
      /\ ~(n > cur)
  BY <1>3 DEF PageInv, OneIsCurrent
<1>6. TypeOK'
  <2>1. loading' \in BOOLEAN
    BY <1>2 DEF Finally, PageInv, TypeOK
  <2>2. data' \in 0..MaxLoads /\ error' \in 0..MaxLoads
    BY <1>1, <1>2 DEF PageInv, TypeOK
  <2> QED BY <1>1, <1>4, <2>1, <2>2 DEF PageInv, TypeOK
<1>7. OneIsCurrent'
  <2>1. ASSUME NEW m \in Load
        PROVE  /\ req'[m].aborted <=> m < cur
               /\ req'[m].phase = "none" <=> m > cur
               /\ req'[m].phase = "cut" => m < cur
    <3>1. CASE m = n
      BY <1>2, <1>4, <1>5, <3>1
    <3>2. CASE m # n
      BY <1>4, <3>2 DEF PageInv, OneIsCurrent
    <3> QED BY <3>1, <3>2
  <2> QED BY <1>1, <2>1 DEF PageInv, OneIsCurrent
<1>8. CurrentIsShown'
  <2>1. cur # 0 => cur \in Load
    BY <1>1 DEF PageInv, TypeOK, Load
  <2>2. cur # 0 => req'[cur].filter = seen[1] /\ req'[cur].offset = seen[2]
    BY <1>4, <2>1 DEF PageInv, CurrentIsShown
  <2>3. ASSUME ~loading'
        PROVE  cur # 0 /\ req'[cur].phase = "over" /\ (data' = cur \/ error' # 0)
    <3>1. CASE loading
      <4>1. phase = "over" /\ ~req[n].aborted /\ (data' = n \/ error' = n)
        BY <1>2, <2>3, <3>1 DEF Finally
      <4>2. n = cur
        BY <1>1, <1>5, <4>1
      <4> QED BY <1>1, <1>4, <4>1, <4>2
    <3>2. CASE ~loading
      <4>1. cur # 0 /\ req[cur].phase = "over" /\ (data = cur \/ error # 0)
        BY <3>2 DEF PageInv, CurrentIsShown
      <4>2. n # cur /\ req[n].aborted
        BY <1>1, <1>3, <1>5, <4>1
      <4>3. data' = data /\ (error' = error \/ error' = n)
        BY <1>2, <4>2
      <4> QED BY <1>1, <1>4, <2>1, <4>1, <4>2, <4>3
    <3> QED BY <3>1, <3>2 DEF PageInv, TypeOK
  <2> QED BY <1>1, <2>2, <2>3 DEF CurrentIsShown
<1>9. ShownIsOver'
  <2>1. /\ data # 0 => data \in Load /\ req[data].phase = "over" /\ data # n
        /\ error # 0 => error \in Load /\ req[error].phase \in {"over", "cut"} /\ error # n
    BY <1>1, <1>3 DEF PageInv, TypeOK, Load, ShownIsOver
  <2>2. data' # 0 => req'[data'].phase = "over"
    BY <1>2, <1>4, <2>1
  <2>3. error' # 0 => req'[error'].phase \in {"over", "cut"}
    BY <1>2, <1>4, <2>1
  <2> QED BY <2>2, <2>3 DEF ShownIsOver
<1>10. StaleErrorWasCut'
  <2>1. error # 0 => error \in Load /\ error # n
    BY <1>1, <1>3 DEF PageInv, TypeOK, Load, ShownIsOver
  <2>2. error \notin {0, cur} => req'[error].phase = "cut"
    BY <1>4, <2>1 DEF PageInv, StaleErrorWasCut
  <2>3. CASE error' = error
    BY <1>1, <2>2, <2>3 DEF StaleErrorWasCut
  <2>4. CASE error' = n /\ ~req[n].aborted
    BY <1>1, <1>5, <2>4 DEF StaleErrorWasCut
  <2>5. CASE error' = n /\ phase = "cut"
    BY <1>4, <2>5 DEF StaleErrorWasCut
  <2> QED BY <1>2, <2>3, <2>4, <2>5
<1>11. OffsetWasReset'
  BY <1>1 DEF PageInv, OffsetWasReset
<1> QED BY <1>6, <1>7, <1>8, <1>9, <1>10, <1>11 DEF PageInv

\* The page starts without loads.
LEMMA PageInit == Init => PageInv
<1> SUFFICES ASSUME Init PROVE PageInv
  OBVIOUS
<1>1. TypeOK
  <2>1. req \in [Load -> Fetch]
    BY DEF Init, Fetch, Phase
  <2>2. 0 \in 0..MaxLoads
    BY PageAssumption
  <2>3. cur \in 0..MaxLoads /\ data \in 0..MaxLoads /\ error \in 0..MaxLoads
    BY <2>2 DEF Init
  <2>4. seen \in {<<>>} \cup (Filter \X Nat \X Nat)
    <3>1. seen \in {<<>>}
      BY DEF Init
    <3> QED BY <3>1
  <2>5. loading \in BOOLEAN
    BY DEF Init
  <2>6. filter \in Filter /\ chosenFor \in Filter /\ offset \in Nat /\ version \in Nat
    BY DEF Init
  <2> QED BY <2>1, <2>3, <2>4, <2>5, <2>6 DEF TypeOK
<1>2. OneIsCurrent
  <2>1. \A n \in Load : n \in Nat /\ n > 0
    BY PageAssumption DEF Load
  <2> QED BY <2>1 DEF Init, OneIsCurrent
<1>3. CurrentIsShown /\ ShownIsOver /\ StaleErrorWasCut /\ OffsetWasReset
  BY DEF Init, CurrentIsShown, ShownIsOver, StaleErrorWasCut, OffsetWasReset
<1> QED BY <1>1, <1>2, <1>3 DEF PageInv

\* Every step of user, effects and loads keeps the invariant.
LEMMA PageStep == PageInv /\ [Next]_vars => PageInv'
<1> SUFFICES ASSUME PageInv, [Next]_vars PROVE PageInv'
  OBVIOUS
<1>1. CASE UNCHANGED vars
  BY <1>1 DEF vars, PageInv, TypeOK, OneIsCurrent, CurrentIsShown, ShownIsOver,
              StaleErrorWasCut, OffsetWasReset
<1>2. CASE Next
  BY <1>2, UserStep, EffectsStep, AnswerStep DEF Next
<1> QED BY <1>1, <1>2

\* The inductive invariant: the loads before the current one are aborted, and
\* the page stops loading only with the end of the current one.
THEOREM PageInvariant == Spec => []PageInv
BY PageInit, PageStep, PTL DEF Spec

\* useLoad shows the data of the path on the screen, in whichever order its
\* loads answer, are aborted or fail.
THEOREM ShowsTheCurrentLoad == Spec => []ShownIsCurrent
<1>1. PageInv => ShownIsCurrent
  <2> SUFFICES ASSUME PageInv, ~loading, error = 0
               PROVE  /\ data # 0
                      /\ ~Due => /\ data = cur
                                 /\ req[data].filter = filter
                                 /\ req[data].offset = offset
    BY DEF ShownIsCurrent
  <2>1. cur # 0 /\ data = cur /\ req[cur].filter = seen[1] /\ req[cur].offset = seen[2]
    BY DEF PageInv, CurrentIsShown
  <2>2. ~Due => seen[1] = filter /\ seen[2] = offset
    BY DEF Due
  <2> QED BY <2>1, <2>2
<1> QED BY <1>1, PageInvariant, PTL

\* A message that outlives its load is that of one aborted while the body of
\* its error was being read, and no other.
THEOREM OnlyCutErrorsAreStale == Spec => []StaleErrorWasCut
<1>1. PageInv => StaleErrorWasCut
  BY DEF PageInv
<1> QED BY <1>1, PageInvariant, PTL

\* Once the effects have run, Records shows the first page or one that was
\* chosen under the filter on the screen.
THEOREM OffsetFollowsFilter == Spec => []OffsetFitsFilter
<1>1. PageInv => OffsetFitsFilter
  <2> SUFFICES ASSUME PageInv, ~Due PROVE offset = 0 \/ chosenFor = filter
    BY DEF OffsetFitsFilter
  <2>1. seen = <<filter, offset, version>>
    BY DEF Due
  <2>2. seen # <<>> /\ seen[1] = filter
    BY <2>1
  <2> QED BY <2>2 DEF PageInv, OffsetWasReset
<1> QED BY <1>1, PageInvariant, PTL
==============================================================================
