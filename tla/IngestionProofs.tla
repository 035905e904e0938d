--------------------------- MODULE IngestionProofs ---------------------------
(***************************************************************************)
(* Proofs about Ingestion, for every number of requests, keys, events,     *)
(* contents, endpoints and connections.                                    *)
(***************************************************************************)
EXTENDS Ingestion, TLAPS

\* Every variable keeps its type, a request its input, and an answer comes
\* with the end of its handler.
LEMMA IngestTypeStep == TypeOK /\ LocksAreHeld /\ [Next]_vars => TypeOK'
<1> SUFFICES ASSUME TypeOK, LocksAreHeld, [Next]_vars PROVE TypeOK'
  OBVIOUS
<1> USE NullAssumption DEF TypeOK
<1>1. CASE UNCHANGED vars
  BY <1>1 DEF vars, tables, history
<1>2. ASSUME NEW r \in Request, NEW in \in Input, Arrive(r, in) PROVE TypeOK'
  BY <1>2 DEF Arrive, Goto, tables
<1>3. ASSUME NEW r \in Request, pc[r] \notin {"idle", "done"},
             NEW code \in {200, 202, 400, 401, 409, 429, 500, 503},
             NEW id \in Request \cup {NULL}, Answer(r, code, id),
             UNCHANGED <<live, revoked, input, history>>,
             events' \in [EventId -> Stored \cup {NULL}],
             deliveries' \in [EventId -> SUBSET Endpoint],
             writer' \in [EventId -> Request \cup {NULL}]
      PROVE  TypeOK'
  <2>1. [code |-> code, id |-> id] \in Response
    BY DEF Response
  <2>2. answer' \in [Request -> Response \cup {NULL}]
    BY <1>3, <2>1 DEF Answer
  <2>3. \A q \in Request : pc'[q] = "done" <=> answer'[q] # NULL
    BY <1>3, <2>1 DEF Answer, Goto
  <2> QED BY <1>3, <2>2, <2>3 DEF Answer, Goto, history
<1>4. ASSUME NEW r \in Request, pc[r] \notin {"idle", "done"},
             NEW label \in {"limit", "body", "begin", "insert", "lookup",
                            "fanout", "commit"},
             Goto(r, label), UNCHANGED <<live, revoked, input, answer, history>>,
             UNCHANGED <<events, deliveries>>,
             fanout' \in [Request -> SUBSET Endpoint],
             writer' \in [EventId -> Request \cup {NULL}]
      PROVE  TypeOK'
  BY <1>4 DEF Goto, history
<1>5. ASSUME NEW r \in Request, Handle(r) PROVE TypeOK'
  <2>0. /\ events \in [EventId -> Stored \cup {NULL}]
        /\ deliveries \in [EventId -> SUBSET Endpoint]
        /\ writer \in [EventId -> Request \cup {NULL}]
        /\ fanout \in [Request -> SUBSET Endpoint]
        /\ live \subseteq Endpoint
        /\ pc[r] # "idle" => input[r] \in Input
    OBVIOUS
  <2> HIDE DEF TypeOK
  <2>1. CASE Authenticate(r)
    <3>1. CASE KeyValid(r)
      BY <1>4, <2>0, <2>1, <3>1 DEF Authenticate, tables
    <3>2. CASE ~KeyValid(r)
      BY <1>3, <2>0, <2>1, <3>2 DEF Authenticate, tables
    <3> QED BY <3>1, <3>2
  <2>2. CASE Limit(r)
    BY <1>3, <1>4, <2>0, <2>2 DEF Limit, tables
  <2>3. CASE Decode(r)
    BY <1>3, <1>4, <2>0, <2>3 DEF Decode, tables
  <2>4. CASE Begin(r)
    BY <1>4, <2>0, <2>4 DEF Begin, tables
  <2>5. CASE Insert(r)
    BY <1>4, <2>0, <2>5 DEF Insert
  <2>6. CASE Lookup(r)
    <3>1. pc[r] = "lookup" /\ events[input[r].event_id] \in Stored
      BY <2>0, <2>6 DEF Lookup, LocksAreHeld, Input
    <3>2. events[input[r].event_id].id \in Request
      BY <3>1 DEF Stored
    <3> QED BY <1>3, <2>0, <2>6, <3>1, <3>2 DEF Lookup, tables
  <2>7. CASE FanOut(r)
    BY <1>4, <2>0, <2>7 DEF FanOut, tables
  <2>8. CASE Accepted(r) \/ Unconfirmed(r)
    <3>1. input[r] \in Input /\ pc[r] = "commit"
      BY <2>0, <2>8 DEF Accepted, Unconfirmed
    <3>2. [id |-> r, content |-> input[r].content] \in Stored
      BY <3>1 DEF Input, Stored
    <3>3. /\ events' \in [EventId -> Stored \cup {NULL}]
          /\ deliveries' \in [EventId -> SUBSET Endpoint]
          /\ writer' \in [EventId -> Request \cup {NULL}]
      BY <2>0, <2>8, <3>1, <3>2 DEF Accepted, Unconfirmed, Commit
    <3>4. UNCHANGED <<live, revoked, input, history>>
      BY <2>8 DEF Accepted, Unconfirmed
    <3>5. Answer(r, 202, r) \/ Answer(r, 500, NULL)
      BY <2>8 DEF Accepted, Unconfirmed
    <3> QED BY <1>3, <3>1, <3>3, <3>4, <3>5
  <2> QED BY <1>5, <2>1, <2>2, <2>3, <2>4, <2>5, <2>6, <2>7, <2>8 DEF Handle
<1>6. ASSUME NEW r \in Request, Fail(r) PROVE TypeOK'
  <2>1. pc[r] \notin {"idle", "done"} /\ Answer(r, 500, NULL)
    BY <1>6 DEF Fail, InTransaction
  <2>2. writer' \in [EventId -> Request \cup {NULL}]
    BY <1>6 DEF Fail, Released
  <2>3. UNCHANGED <<events, deliveries, live, revoked, input, history>>
    BY <1>6 DEF Fail
  <2> QED BY <1>3, <2>1, <2>2, <2>3
<1>7. ASSUME NEW p \in Endpoint, SetLive(p) PROVE TypeOK'
  BY <1>7 DEF SetLive, tables
<1>8. ASSUME NEW k \in Key, Revoke(k) PROVE TypeOK'
  BY <1>8 DEF Revoke, tables, history
<1> QED BY <1>1, <1>2, <1>5, <1>6, <1>7, <1>8 DEF Next

-----------------------------------------------------------------------------
(* One step of one handler before its commit.                               *)

\* Only this request moves.
Alone(r) ==
    \A q \in Request \ {r} :
        pc'[q] = pc[q] /\ answer'[q] = answer[q] /\ fanout'[q] = fanout[q]

\* A step that stores nothing keeps the invariant when it keeps the locks and
\* what its own request knows.
LEMMA Undecided ==
    ASSUME NEW r \in Request, IngestInv, TypeOK', LocksAreHeld',
           Alone(r), Running(r), pc'[r] # "idle",
           UNCHANGED <<events, deliveries, live, revoked, input, history>>,
           Passed(r)', pc'[r] = "commit" => fanout'[r] = live,
           answer'[r] # NULL => AnswerTrue(r)'
    PROVE  IngestInv'
<1> USE DEF IngestInv, Alone, history
<1>1. \A q \in Request : Passed(q)'
  BY DEF Passed
<1>2. \A q \in Request : Witnessed(q)'
  BY DEF Witnessed, Running
<1>3. StorerIsDone'
  BY DEF StorerIsDone, TypeOK, Stored, Running
<1>4. AnswerIsTrue'
  BY DEF AnswerIsTrue, AnswerTrue
<1>5. StoredWasAuthorized'
  BY DEF StoredWasAuthorized
<1>6. FanOutIsFair'
  BY DEF FanOutIsFair
<1> QED BY <1>1, <1>2, <1>3, <1>4, <1>5, <1>6

\* A step outside the locks leaves them as they are.
LEMMA LocksUntouched ==
    ASSUME NEW r \in Request, TypeOK, LocksAreHeld, Alone(r),
           pc[r] \notin {"fanout", "commit"},
           pc'[r] \notin {"fanout", "commit", "lookup"},
           UNCHANGED <<tables, input>>
    PROVE  LocksAreHeld'
<1> USE NullAssumption DEF TypeOK, LocksAreHeld, Alone, tables
<1>1. \A e \in EventId : writer[e] # NULL => writer[e] \in Request /\ writer[e] # r
  OBVIOUS
<1> QED BY <1>1

\* The steps of a handler before its commit.
LEMMA HandlerStep ==
    ASSUME NEW r \in Request, IngestInv, TypeOK',
           \/ Authenticate(r) \/ Limit(r) \/ Decode(r) \/ Begin(r)
           \/ Insert(r) \/ Lookup(r) \/ FanOut(r) \/ Fail(r)
    PROVE  IngestInv'
<1> USE NullAssumption DEF IngestInv
<1>0. ASSUME NEW code, NEW id, Answer(r, code, id)
      PROVE  Alone(r) /\ pc'[r] = "done" /\ answer'[r] = [code |-> code, id |-> id]
  BY <1>0 DEF Answer, Goto, Alone, TypeOK
<1>1. ASSUME NEW label, Goto(r, label), UNCHANGED <<fanout, answer>>
      PROVE  Alone(r) /\ pc'[r] = label
  BY <1>1 DEF Goto, Alone, TypeOK
<1>2. ASSUME NEW code \in {400, 401, 429, 500, 503}, Answer(r, code, NULL),
             Running(r), LocksAreHeld',
             UNCHANGED <<events, deliveries, live, revoked, input, history>>
      PROVE  IngestInv'
  <2>1. Alone(r) /\ pc'[r] = "done" /\ answer'[r] = [code |-> code, id |-> NULL]
    BY <1>0, <1>2
  <2>2. AnswerTrue(r)' /\ Passed(r)'
    BY <1>2, <2>1 DEF AnswerTrue, Passed
  <2> QED BY <1>2, <2>1, <2>2, Undecided
<1>3. ASSUME pc[r] \in {"auth", "limit", "body"},
             NEW code \in {400, 401, 429, 503}, Answer(r, code, NULL),
             UNCHANGED <<tables, live, revoked, input, history>>
      PROVE  IngestInv'
  <2>1. Alone(r) /\ pc'[r] = "done"
    BY <1>3 DEF Answer, Goto, Alone, TypeOK
  <2>2. /\ UNCHANGED <<tables, input>>
        /\ pc[r] \notin {"fanout", "commit"} /\ pc'[r] \notin {"fanout", "commit", "lookup"}
    BY <1>3, <2>1
  <2>3. LocksAreHeld'
    BY <2>1, <2>2, LocksUntouched
  <2> QED BY <1>2, <1>3, <2>3 DEF Running, tables
<1>4. ASSUME NEW label \in {"limit", "body", "begin", "insert"}, Goto(r, label),
             pc[r] \in {"auth", "limit", "body", "begin"}, Passed(r)',
             UNCHANGED <<tables, live, revoked, input, fanout, answer, history>>
      PROVE  IngestInv'
  <2>1. Alone(r) /\ pc'[r] = label
    BY <1>1, <1>4
  <2>2. LocksAreHeld'
    BY <1>4, <2>1, LocksUntouched
  <2>3. answer'[r] = NULL
    BY <1>4 DEF TypeOK
  <2> QED BY <1>4, <2>1, <2>2, <2>3, Undecided DEF Running, tables
<1>5. CASE Authenticate(r)
  <2>1. CASE KeyValid(r)
    <3>1. Goto(r, "limit") /\ pc'[r] = "limit"
      BY <1>1, <1>5, <2>1 DEF Authenticate
    <3>2. Passed(r)'
      BY <1>5, <2>1, <3>1 DEF Authenticate, KeyValid, Passed, history
    <3> QED BY <1>4, <1>5, <2>1, <3>1, <3>2 DEF Authenticate
  <2>2. CASE ~KeyValid(r)
    BY <1>3, <1>5, <2>2 DEF Authenticate
  <2> QED BY <2>1, <2>2
<1>6. CASE Limit(r)
  <2>1. CASE Goto(r, "body") /\ UNCHANGED <<fanout, answer>>
    <3>1. Passed(r)'
      BY <1>1, <1>6, <2>1 DEF Limit, Passed, history
    <3> QED BY <1>4, <1>6, <2>1, <3>1 DEF Limit
  <2> QED BY <1>3, <1>6, <2>1 DEF Limit
<1>7. CASE Decode(r)
  <2>1. CASE BodyValid(r)
    <3>1. Goto(r, "begin") /\ pc'[r] = "begin"
      BY <1>1, <1>7, <2>1 DEF Decode
    <3>2. Passed(r)'
      BY <1>7, <2>1, <3>1 DEF Decode, BodyValid, Passed, history
    <3> QED BY <1>4, <1>7, <2>1, <3>1, <3>2 DEF Decode
  <2>2. CASE ~BodyValid(r)
    BY <1>3, <1>7, <2>2 DEF Decode
  <2> QED BY <2>1, <2>2
<1>8. CASE Begin(r)
  <2>1. Passed(r)'
    BY <1>1, <1>8 DEF Begin, Passed, history
  <2> QED BY <1>4, <1>8, <2>1 DEF Begin
<1>9. CASE Insert(r)
  <2>1. /\ pc[r] = "insert" /\ writer[input[r].event_id] = NULL
        /\ input[r].event_id \in EventId
        /\ UNCHANGED <<events, deliveries, live, revoked, input, fanout, answer, history>>
    BY <1>9 DEF Insert, InsertReady, TypeOK, Input
  <2>2. Alone(r) /\ pc'[r] \in {"fanout", "lookup"}
    BY <1>1, <1>9 DEF Insert
  <2>3. LocksAreHeld'
    <3>1. CASE /\ events[input[r].event_id] = NULL
               /\ writer' = [writer EXCEPT ![input[r].event_id] = r]
               /\ Goto(r, "fanout")
      <4>1. pc'[r] = "fanout" /\ \A q \in Request \ {r} : pc'[q] = pc[q]
        BY <3>1 DEF Goto, TypeOK
      <4>2. \A q \in Request \ {r} :
              pc[q] \in {"fanout", "commit"} => input[q].event_id # input[r].event_id
        BY <2>1 DEF LocksAreHeld
      <4> QED BY <2>1, <3>1, <4>1, <4>2 DEF LocksAreHeld, TypeOK
    <3>2. CASE events[input[r].event_id] # NULL /\ Goto(r, "lookup") /\ UNCHANGED writer
      BY <2>1, <3>2 DEF LocksAreHeld, TypeOK, Goto
    <3> QED BY <1>9, <3>1, <3>2 DEF Insert
  <2>4. Passed(r)'
    BY <2>1, <2>2 DEF Passed, history
  <2>5. answer'[r] = NULL
    BY <2>1 DEF TypeOK
  <2> QED BY <2>1, <2>2, <2>3, <2>4, <2>5, Undecided DEF Running
<1>10. CASE Lookup(r)
  <2> DEFINE old == events[input[r].event_id]
  <2>1. pc[r] = "lookup" /\ old # NULL /\ UNCHANGED <<tables, live, revoked, input, history>>
    BY <1>10 DEF Lookup, LocksAreHeld
  <2>2. /\ Alone(r) /\ pc'[r] = "done"
        /\ \/ old.content # input[r].content /\ answer'[r] = [code |-> 409, id |-> NULL]
           \/ old.content = input[r].content /\ answer'[r] = [code |-> 200, id |-> old.id]
    BY <1>0, <1>10 DEF Lookup
  <2>3. LocksAreHeld'
    BY <2>1, <2>2, LocksUntouched
  <2>4. AnswerTrue(r)'
    BY <2>1, <2>2 DEF AnswerTrue, tables
  <2>5. Passed(r)'
    BY <2>2 DEF Passed
  <2> QED BY <2>1, <2>2, <2>3, <2>4, <2>5, Undecided DEF Running, tables
<1>11. CASE FanOut(r)
  <2>1. /\ pc[r] = "fanout" /\ Alone(r) /\ pc'[r] = "commit" /\ fanout'[r] = live
        /\ UNCHANGED <<tables, live, revoked, input, answer, history>>
    BY <1>11 DEF FanOut, Goto, Alone, TypeOK
  <2>2. LocksAreHeld'
    BY <2>1 DEF LocksAreHeld, TypeOK, Alone, tables
  <2>3. Passed(r)'
    BY <2>1 DEF Passed, history
  <2>4. answer'[r] = NULL
    BY <2>1 DEF TypeOK
  <2> QED BY <2>1, <2>2, <2>3, <2>4, Undecided DEF Running, tables
<1>12. CASE Fail(r)
  <2>1. /\ Running(r) /\ Alone(r) /\ pc'[r] = "done" /\ writer' = Released(r)
        /\ UNCHANGED <<events, deliveries, live, revoked, input, history>>
    <3>1. Alone(r) /\ pc'[r] = "done"
      BY <1>12 DEF Fail, Answer, Goto, Alone, TypeOK
    <3> QED BY <1>12, <3>1 DEF Fail, Running, InTransaction
  <2>2. LocksAreHeld'
    <3>1. \A e \in EventId : writer'[e] # NULL => writer'[e] = writer[e] /\ writer[e] # r
      BY <2>1 DEF Released
    <3>2. \A e \in EventId : writer[e] # NULL => writer[e] \in Request
      BY DEF TypeOK
    <3>3. \A q \in Request \ {r} : pc[q] \in {"fanout", "commit"} =>
            writer'[input[q].event_id] = q
      BY <2>1 DEF Released, LocksAreHeld, TypeOK, Input
    <3> QED BY <2>1, <3>1, <3>2, <3>3 DEF LocksAreHeld, Alone
  <2> QED BY <1>2, <1>12, <2>1, <2>2 DEF Fail
<1> QED BY <1>5, <1>6, <1>7, <1>8, <1>9, <1>10, <1>11, <1>12

-----------------------------------------------------------------------------
(* The commit, and the steps of the others.                                 *)

\* A commit stores the event of the request that holds the lock of its
\* event_id, whatever the handler then answers.
LEMMA CommitStep ==
    ASSUME NEW r \in Request, IngestInv, TypeOK', Accepted(r) \/ Unconfirmed(r)
    PROVE  IngestInv'
<1> USE NullAssumption DEF IngestInv
<1> DEFINE e == input[r].event_id
<1>1. /\ pc[r] = "commit" /\ Commit(r) /\ UNCHANGED <<live, revoked, input, history>>
      /\ input[r] \in Input /\ e \in EventId
  BY DEF Accepted, Unconfirmed, TypeOK, Input
<1>2. /\ Alone(r) /\ pc'[r] = "done"
      /\ answer'[r].code = 500 \/ answer'[r] = [code |-> 202, id |-> r]
  BY DEF Accepted, Unconfirmed, Answer, Goto, Alone, TypeOK
<1>3. /\ events'[e] = [id |-> r, content |-> input[r].content]
      /\ deliveries'[e] = fanout[r] /\ writer'[e] = NULL
      /\ \A d \in EventId \ {e} :
           events'[d] = events[d] /\ deliveries'[d] = deliveries[d] /\ writer'[d] = writer[d]
  BY <1>1 DEF Commit, TypeOK
<1>4. events[e] = NULL /\ writer[e] = r /\ events'[e] # NULL
  <2>1. writer[e] = r
    BY <1>1 DEF LocksAreHeld
  <2>2. [id |-> r, content |-> input[r].content] \in Stored
    BY <1>1 DEF Stored, Input
  <2> QED BY <1>1, <1>3, <2>1, <2>2 DEF LocksAreHeld
<1>5. LocksAreHeld'
  <2>1. \A d \in EventId \ {e} : writer[d] # NULL => writer[d] \in Request \ {r}
    BY DEF TypeOK, LocksAreHeld
  <2>2. \A q \in Request \ {r} : pc[q] \in {"fanout", "commit"} =>
          input[q].event_id \in EventId \ {e}
    BY <1>4 DEF LocksAreHeld, TypeOK, Input
  <2>3. \A q \in Request \ {r} : pc[q] = "lookup" => input[q].event_id \in EventId \ {e}
    BY <1>4 DEF LocksAreHeld, TypeOK, Input
  <2> QED BY <1>1, <1>2, <1>3, <2>1, <2>2, <2>3 DEF LocksAreHeld, Alone
<1>6. \A q \in Request : Passed(q)'
  BY <1>1, <1>2 DEF Passed, Alone, history
<1>7. \A q \in Request : Witnessed(q)'
  BY <1>1, <1>2 DEF Witnessed, Running, Alone, history
<1>8. StorerIsDone'
  BY <1>2, <1>3 DEF StorerIsDone, TypeOK, Stored, Alone
<1>9. AnswerIsTrue'
  <2>1. AnswerTrue(r)'
    BY <1>1, <1>2, <1>3 DEF AnswerTrue
  <2>2. ASSUME NEW q \in Request \ {r}, answer'[q] # NULL PROVE AnswerTrue(q)'
    <3>1. answer'[q] = answer[q] /\ answer[q] # NULL /\ AnswerTrue(q) /\ pc[q] = "done"
      BY <1>2, <2>2 DEF Alone, AnswerIsTrue, TypeOK
    <3>2. input[q].event_id \in EventId /\ input'[q] = input[q]
      BY <1>1, <3>1 DEF TypeOK, Input
    <3>3. CASE input[q].event_id # e
      BY <1>3, <3>1, <3>2, <3>3 DEF AnswerTrue
    <3>4. CASE input[q].event_id = e
      <4>1. answer[q].code \notin {200, 409}
        BY <1>4, <3>1, <3>4 DEF AnswerTrue
      <4>2. answer[q].code # 202
        <5>1. [id |-> q, content |-> input[q].content] \in Stored
          BY <3>1 DEF TypeOK, Input, Stored
        <5> QED BY <1>4, <3>1, <3>4, <5>1 DEF AnswerTrue
      <4> QED BY <3>1, <4>1, <4>2 DEF AnswerTrue
    <3> QED BY <3>3, <3>4
  <2> QED BY <2>1, <2>2 DEF AnswerIsTrue
<1>10. StoredWasAuthorized'
  <2>1. input[r].valid /\ ~stale[r]
    BY <1>1 DEF Passed
  <2>2. ASSUME NEW d \in EventId, events'[d] # NULL
        PROVE  LET q == events'[d].id
               IN  /\ input'[q].event_id = d /\ input'[q].content = events'[d].content
                   /\ input'[q].valid /\ ~stale'[q]
    <3>1. CASE d = e
      BY <1>1, <1>3, <2>1, <3>1 DEF history
    <3>2. CASE d # e
      BY <1>1, <1>3, <2>2, <3>2 DEF StoredWasAuthorized, history
    <3> QED BY <3>1, <3>2
  <2> QED BY <2>2 DEF StoredWasAuthorized
<1>11. FanOutIsFair'
  <2>1. stayed[r] \subseteq fanout[r] /\ fanout[r] \subseteq lived[r]
    BY <1>1 DEF Witnessed
  <2> QED BY <1>1, <1>3, <2>1 DEF FanOutIsFair, history
<1> QED BY <1>5, <1>6, <1>7, <1>8, <1>9, <1>10, <1>11

\* A request that has just arrived has stored nothing, and no lock.
LEMMA ArriveStep ==
    ASSUME NEW r \in Request, NEW in \in Input, IngestInv, TypeOK', Arrive(r, in)
    PROVE  IngestInv'
<1> USE NullAssumption DEF IngestInv
<1>1. /\ pc[r] = "idle" /\ pc'[r] = "auth" /\ lived'[r] = live /\ stayed'[r] = live
      /\ stale'[r] = (in.key \in revoked) /\ input'[r] = in
      /\ UNCHANGED <<tables, live, revoked, fanout, answer>>
      /\ \A q \in Request \ {r} :
           /\ pc'[q] = pc[q] /\ input'[q] = input[q] /\ lived'[q] = lived[q]
           /\ stayed'[q] = stayed[q] /\ stale'[q] = stale[q]
  BY DEF Arrive, Goto, TypeOK
<1>2. \A e \in EventId : events[e] # NULL => events[e].id \in Request \ {r}
  BY <1>1 DEF StorerIsDone, TypeOK, Stored
<1>3. \A e \in EventId : writer[e] # NULL => writer[e] \in Request \ {r}
  BY <1>1 DEF LocksAreHeld, TypeOK
<1>4. LocksAreHeld'
  BY <1>1, <1>3 DEF LocksAreHeld, tables
<1>5. \A q \in Request : Passed(q)'
  BY <1>1 DEF Passed
<1>6. \A q \in Request : Witnessed(q)'
  BY <1>1 DEF Witnessed, Running
<1>7. StorerIsDone'
  BY <1>1, <1>2 DEF StorerIsDone, tables
<1>8. AnswerIsTrue'
  <2>1. \A q \in Request : answer[q] # NULL => q # r
    BY <1>1 DEF TypeOK
  <2> QED BY <1>1, <2>1 DEF AnswerIsTrue, AnswerTrue, tables
<1>9. StoredWasAuthorized'
  BY <1>1, <1>2 DEF StoredWasAuthorized, tables
<1>10. FanOutIsFair'
  BY <1>1, <1>2 DEF FanOutIsFair, tables
<1> QED BY <1>4, <1>5, <1>6, <1>7, <1>8, <1>9, <1>10

\* The management API touches the histories of the requests that run, and the
\* request that stored an event does not.
LEMMA ManagementStep ==
    ASSUME IngestInv, TypeOK',
           \/ \E p \in Endpoint : SetLive(p)
           \/ \E k \in Key : Revoke(k)
    PROVE  IngestInv'
<1> USE DEF IngestInv
<1>1. UNCHANGED <<tables, pc, input, fanout, answer, stale>> /\ revoked \subseteq revoked'
  BY DEF SetLive, Revoke, history
<1>2. LocksAreHeld' /\ StorerIsDone' /\ StoredWasAuthorized'
  BY <1>1 DEF LocksAreHeld, StorerIsDone, StoredWasAuthorized, tables
<1>3. AnswerIsTrue'
  BY <1>1 DEF AnswerIsTrue, AnswerTrue, tables
<1>4. \A q \in Request : Passed(q)'
  BY <1>1 DEF Passed
<1>5. (\A q \in Request : Witnessed(q)') /\ FanOutIsFair'
  <2>1. CASE \E k \in Key : Revoke(k)
    BY <2>1 DEF Revoke, Witnessed, Running, FanOutIsFair, tables, history
  <2>2. CASE \E p \in Endpoint : SetLive(p)
    <3>1. \A q \in Request :
            /\ lived'[q] = IF Running(q) THEN lived[q] \cup live' ELSE lived[q]
            /\ stayed'[q] = IF Running(q) THEN stayed[q] \cap live' ELSE stayed[q]
      BY <2>2 DEF SetLive
    <3>2. \A q \in Request : Witnessed(q)'
      BY <1>1, <3>1 DEF Witnessed, Running
    <3>3. \A e \in EventId : events[e] # NULL =>
            events[e].id \in Request /\ ~Running(events[e].id)
      BY DEF StorerIsDone, TypeOK, Stored, Running
    <3> QED BY <1>1, <3>1, <3>2, <3>3 DEF FanOutIsFair, tables
  <2> QED BY <2>1, <2>2
<1> QED BY <1>2, <1>3, <1>4, <1>5

-----------------------------------------------------------------------------
(* The theorems.                                                            *)

\* Nothing is stored and no request has come.
LEMMA IngestInit == Init => IngestInv
<1> SUFFICES ASSUME Init PROVE IngestInv
  OBVIOUS
<1> USE NullAssumption DEF Init
<1>1. TypeOK
  BY DEF TypeOK
<1>2. LocksAreHeld /\ StorerIsDone /\ AnswerIsTrue /\ StoredWasAuthorized /\ FanOutIsFair
  BY DEF LocksAreHeld, StorerIsDone, AnswerIsTrue, StoredWasAuthorized, FanOutIsFair
<1>3. \A r \in Request : Passed(r) /\ Witnessed(r)
  BY DEF Passed, Witnessed, Running
<1> QED BY <1>1, <1>2, <1>3 DEF IngestInv

\* Every step of handlers and of the management API keeps the invariant.
LEMMA IngestStep == IngestInv /\ [Next]_vars => IngestInv'
<1> SUFFICES ASSUME IngestInv, [Next]_vars PROVE IngestInv'
  OBVIOUS
<1>1. TypeOK'
  BY IngestTypeStep DEF IngestInv
<1>2. CASE UNCHANGED vars
  <2>1. LocksAreHeld' /\ StorerIsDone' /\ StoredWasAuthorized' /\ FanOutIsFair'
    BY <1>2 DEF IngestInv, LocksAreHeld, StorerIsDone, StoredWasAuthorized, FanOutIsFair,
                vars, tables, history
  <2>2. AnswerIsTrue'
    BY <1>2 DEF IngestInv, AnswerIsTrue, AnswerTrue, vars, tables, history
  <2>3. \A r \in Request : Passed(r)' /\ Witnessed(r)'
    BY <1>2 DEF IngestInv, Passed, Witnessed, Running, vars, tables, history
  <2> QED BY <1>1, <2>1, <2>2, <2>3 DEF IngestInv
<1>3. CASE \E r \in Request : \E in \in Input : Arrive(r, in)
  BY <1>1, <1>3, ArriveStep
<1>4. CASE \E r \in Request : Handle(r) \/ Fail(r)
  BY <1>1, <1>4, HandlerStep, CommitStep DEF Handle
<1>5. CASE (\E p \in Endpoint : SetLive(p)) \/ (\E k \in Key : Revoke(k))
  BY <1>1, <1>5, ManagementStep
<1> QED BY <1>2, <1>3, <1>4, <1>5 DEF Next

\* The inductive invariant: while a transaction holds the row of an event_id
\* nobody has stored it, a handler has checked key and body before its
\* transaction, and the fan-out lies between what stayed and what lived.
THEOREM IngestInvariant == Spec => []IngestInv
BY IngestInit, IngestStep, PTL DEF Spec

\* Every answer of POST /v1/events stays true, for any number of racing
\* requests: 202 for the one that stored the event, 200 and 409 for what is
\* stored.
THEOREM AnswersAreTrue == Spec => []AnswerIsTrue
<1>1. IngestInv => AnswerIsTrue
  BY DEF IngestInv
<1> QED BY <1>1, IngestInvariant, PTL

\* No event is stored for a body that was refused or a key that was revoked
\* before its request arrived.
THEOREM NothingUnauthorizedIsStored == Spec => []StoredWasAuthorized
<1>1. IngestInv => StoredWasAuthorized
  BY DEF IngestInv
<1> QED BY <1>1, IngestInvariant, PTL

\* The fan-out of an event holds the endpoints that were live throughout its
\* request, and none that was never live, however endpoints change meanwhile.
THEOREM FanOutFollowsTheEndpoints == Spec => []FanOutIsFair
<1>1. IngestInv => FanOutIsFair
  BY DEF IngestInv
<1> QED BY <1>1, IngestInvariant, PTL

\* An event and its deliveries are written once, together: a commit writes
\* only an event_id whose lock it holds, and that one is not stored.
THEOREM StoredEventsNeverChange == Spec => EventsAreImmutable
<1> DEFINE Kept(e) ==
      /\ events[e] # NULL => events'[e] = events[e] /\ deliveries'[e] = deliveries[e]
      /\ deliveries'[e] # deliveries[e] => events[e] = NULL /\ events'[e] # NULL
<1>1. IngestInv /\ [Next]_vars => [\A e \in EventId : Kept(e)]_vars
  <2> SUFFICES ASSUME IngestInv, Next PROVE \A e \in EventId : Kept(e)
    OBVIOUS
  <2>1. CASE UNCHANGED <<events, deliveries>>
    BY <2>1
  <2>2. ASSUME NEW r \in Request, Accepted(r) \/ Unconfirmed(r)
        PROVE  \A e \in EventId : Kept(e)
    <3>1. pc[r] = "commit" /\ Commit(r) /\ input[r] \in Input
      BY <2>2 DEF Accepted, Unconfirmed, IngestInv, TypeOK
    <3>2. /\ events[input[r].event_id] = NULL
          /\ [id |-> r, content |-> input[r].content] # NULL
      BY <3>1, NullAssumption DEF IngestInv, LocksAreHeld, Input, Stored
    <3> QED BY <3>1, <3>2 DEF Commit, IngestInv, TypeOK
  <2> QED BY <2>1, <2>2 DEF Next, Handle, Arrive, Fail, SetLive, Revoke, Authenticate,
            Limit, Decode, Begin, Insert, Lookup, FanOut, tables
<1> QED BY <1>1, IngestInvariant, PTL DEF Spec, EventsAreImmutable
==============================================================================
