----------------------------- MODULE RecordsPage -----------------------------
(***************************************************************************)
(* The lists of events, deliveries and dead letters in the browser         *)
(* (Records, Pager, State and useLoad in frontend/src/App.tsx, api in      *)
(* frontend/src/api.ts).  The other views use the same hook with a path    *)
(* that changes less often.                                                *)
(*                                                                         *)
(* A change of the path or a reload starts a new load and aborts the one   *)
(* before it.  React runs effects some time after it has rendered, and     *)
(* answers arrive in any order in between, in two steps: first the         *)
(* headers, then the body.                                                 *)
(***************************************************************************)
EXTENDS Naturals

CONSTANTS
    Filter,   \* what the user may choose: project, type, status, endpoint,
              \* date and the kind of the list
    Rows,     \* how many records match a filter
    PageSize, \* 25
    MaxLoads  \* bound: loads that the page starts

ASSUME PageAssumption ==
    /\ Rows \in [Filter -> Nat]
    /\ PageSize \in Nat \ {0}
    /\ MaxLoads \in Nat \ {0}

VARIABLES
    filter, offset, \* state of Records
    version,        \* state of useLoad: counts reloads
    seen,           \* the filter, offset and version that the effects saw last
    cur,            \* number of the load that the last effect started, 0: none
    req,            \* the loads, by number
    data, error,    \* state of useLoad: the load that the shown data, or the
                    \* shown message, came from; 0: none
    loading,        \* state of useLoad
    chosenFor       \* history: the filter under which offset was chosen

vars == <<filter, offset, version, seen, cur, req, data, error, loading,
          chosenFor>>

Load == 1..MaxLoads

\* "over": no callback is left; "cut": over, and it had been aborted while the
\* body of an error was being read.
Phase == {"none", "headers", "body", "errorBody", "over", "cut"}

Init ==
    /\ filter \in Filter
    /\ offset = 0
    /\ version = 0
    /\ seen = <<>>
    /\ cur = 0
    /\ req = [n \in Load |-> [phase |-> "none", filter |-> filter,
                              offset |-> 0, aborted |-> FALSE]]
    /\ data = 0
    /\ error = 0
    /\ loading = TRUE
    /\ chosenFor = filter

\* An effect has dependencies that have changed since it ran.
Due == seen # <<filter, offset, version>>

\* Length of the page that a load fetches.
Count(n) ==
    LET left == IF req[n].offset < Rows[req[n].filter]
                THEN Rows[req[n].filter] - req[n].offset ELSE 0
    IN  IF left < PageSize THEN left ELSE PageSize

-----------------------------------------------------------------------------
\* The effects that follow an event of the user have run before the next one.
\* The reset of offset that such an effect makes may still wait for its own.
Responsive ==
    /\ seen # <<>>
    /\ seen[1] = filter /\ seen[3] = version
    /\ offset \in {0, seen[2]}

SetFilter(f) ==
    /\ Responsive
    /\ f # filter
    /\ filter' = f
    /\ UNCHANGED <<offset, version, seen, cur, req, data, error, loading,
                   chosenFor>>

\* The button Refresh: reload.
Refresh ==
    /\ Responsive
    /\ version' = version + 1
    /\ UNCHANGED <<filter, offset, seen, cur, req, data, error, loading,
                   chosenFor>>

Turn(o) ==
    /\ Responsive
    /\ offset' = o
    /\ chosenFor' = filter
    /\ UNCHANGED <<filter, version, seen, cur, req, data, error, loading>>

\* Pager is shown while loading too: count is then that of the old page.
NextPage ==
    /\ data # 0
    /\ Count(data) = PageSize
    /\ Turn(offset + PageSize)

PreviousPage ==
    /\ offset # 0
    /\ Turn(IF offset < PageSize THEN 0 ELSE offset - PageSize)

\* controller.abort(), by the cleanup of the effect.
Abort(r) == [r EXCEPT !.aborted = TRUE]

\* Faulty variant: the effect that resets offset is missing.
OffsetKept == offset

\* useEffect(() => setOffset(0), [project, type, ..., kind]).
ResetOffset == IF seen = <<>> \/ seen[1] # filter THEN 0 ELSE offset

\* Faulty variant: setError("") is missing.
ErrorKept == error

\* setError("").
ErrorCleared == 0

\* React runs the effects: useLoad's first, for the path just rendered, then the
\* one of Records, whose setOffset makes useLoad's due again.
RunEffects ==
    /\ Due
    /\ cur < MaxLoads
    /\ cur' = cur + 1
    /\ req' = [n \in Load |->
                 IF n = cur + 1 THEN [phase |-> "headers", filter |-> filter,
                                      offset |-> offset, aborted |-> FALSE]
                 ELSE IF n = cur THEN Abort(req[n])
                 ELSE req[n]]
    /\ loading' = TRUE
    /\ error' = ErrorCleared
    /\ seen' = <<filter, offset, version>>
    /\ offset' = ResetOffset
    /\ UNCHANGED <<filter, version, data, chosenFor>>

-----------------------------------------------------------------------------
\* A load goes on to a phase; the page itself does not change.
Goes(n, phase) ==
    /\ req' = [req EXCEPT ![n].phase = phase]
    /\ UNCHANGED <<filter, offset, version, seen, cur, chosenFor>>

\* Faulty variant: .finally() does not look at the signal.
FinallyAlways(n) == loading' = FALSE

\* .finally(): loading ends unless the load was aborted.
Finally(n) == loading' = (loading /\ req[n].aborted)

\* fetch resolves, with response.ok or without.
Headers(n) ==
    /\ req[n].phase = "headers" /\ ~req[n].aborted
    /\ \/ Goes(n, "body")
       \/ Goes(n, "errorBody")
    /\ UNCHANGED <<data, error, loading>>

\* response.json() resolves: .then(setData).
Receive(n) ==
    /\ req[n].phase = "body" /\ ~req[n].aborted
    /\ Goes(n, "over")
    /\ data' = n
    /\ Finally(n)
    /\ UNCHANGED error

\* The network fails, the body is no JSON, or APIError is thrown once the body of
\* an error has been read: setError.
Fail(n) ==
    /\ req[n].phase \in {"headers", "body", "errorBody"} /\ ~req[n].aborted
    /\ Goes(n, "over")
    /\ error' = n
    /\ Finally(n)
    /\ UNCHANGED data

\* fetch or json() rejects with AbortError, which .catch() ignores.
AbortError(n) ==
    /\ req[n].phase \in {"headers", "body"} /\ req[n].aborted
    /\ Goes(n, "over")
    /\ Finally(n)
    /\ UNCHANGED <<data, error>>

\* The abort hits api while it reads the body of an error.  Its
\* .catch(() => null) takes the AbortError, and what is thrown is an APIError,
\* which useLoad does not ignore: the message of the old load is set.
AbortSwallowed(n) ==
    /\ req[n].phase = "errorBody" /\ req[n].aborted
    /\ Goes(n, "cut")
    /\ error' = n
    /\ Finally(n)
    /\ UNCHANGED data

Answer(n) ==
    Headers(n) \/ Receive(n) \/ Fail(n) \/ AbortError(n) \/ AbortSwallowed(n)

Next ==
    \/ \E f \in Filter : SetFilter(f)
    \/ Refresh \/ NextPage \/ PreviousPage \/ RunEffects
    \/ \E n \in Load : Answer(n)

Spec == Init /\ [][Next]_vars

-----------------------------------------------------------------------------
\* What State and the metrics of Dashboard show: records or numbers only when
\* there are some, and, once the effects have run, those of the path on the
\* screen, whichever order answers arrived in (useLoad's abort and loading).
ShownIsCurrent ==
    ~loading /\ error = 0 =>
        /\ data # 0
        /\ ~Due => /\ data = cur
                   /\ req[data].filter = filter
                   /\ req[data].offset = offset

\* A message on the screen is that of the current load, or of a load that was
\* aborted while the body of its error was being read; no other failure outlives
\* its load (useLoad's setError and .catch).
StaleErrorWasCut ==
    error \notin {0, cur} => req[error].phase = "cut"

\* Once the effects have run, the page on the screen was chosen under the filter
\* on the screen, or is the first one (the effect of Records that resets offset).
OffsetFitsFilter ==
    ~Due => offset = 0 \/ chosenFor = filter

-----------------------------------------------------------------------------
(* The inductive invariant.                                                 *)

Fetch == [phase : Phase, filter : Filter, offset : Nat, aborted : BOOLEAN]

TypeOK ==
    /\ filter \in Filter /\ offset \in Nat /\ version \in Nat
    /\ seen \in {<<>>} \cup (Filter \X Nat \X Nat)
    /\ cur \in 0..MaxLoads /\ data \in 0..MaxLoads /\ error \in 0..MaxLoads
    /\ req \in [Load -> Fetch]
    /\ loading \in BOOLEAN
    /\ chosenFor \in Filter

\* All loads before the current one are aborted, and only these; the later ones
\* are not started.
OneIsCurrent ==
    /\ cur = 0 <=> seen = <<>>
    /\ \A n \in Load :
         /\ req[n].aborted <=> n < cur
         /\ req[n].phase = "none" <=> n > cur
         /\ req[n].phase = "cut" => n < cur

\* The current load fetches what the effects saw; the page stops loading when
\* it is over, and then has its data or some message.
CurrentIsShown ==
    /\ cur # 0 => req[cur].filter = seen[1] /\ req[cur].offset = seen[2]
    /\ ~loading => /\ cur # 0
                   /\ req[cur].phase = "over"
                   /\ data = cur \/ error # 0

\* Data and messages are those of loads that are over.
ShownIsOver ==
    /\ data # 0 => req[data].phase = "over"
    /\ error # 0 => req[error].phase \in {"over", "cut"}

\* Records has reset offset for the filter that its effect saw last.
OffsetWasReset ==
    seen # <<>> /\ seen[1] = filter => offset = 0 \/ chosenFor = filter

PageInv ==
    /\ TypeOK
    /\ OneIsCurrent
    /\ CurrentIsShown
    /\ ShownIsOver
    /\ StaleErrorWasCut
    /\ OffsetWasReset
==============================================================================
