------------------------------ MODULE Ingestion ------------------------------
(***************************************************************************)
(* POST /v1/events (internal/api/ingest.go): concurrent requests that      *)
(* store events of one project, by several replicas of the API.            *)
(*                                                                         *)
(* A request authenticates its key, passes the limiter and the validation, *)
(* and then runs one READ COMMITTED transaction: it inserts the event      *)
(* unless UNIQUE(project_id, event_id) is taken, and either fans the event *)
(* out to the endpoints that are live at that moment and commits, or       *)
(* compares the stored content with its own.  While a transaction holds an *)
(* uncommitted row, an INSERT of the same event_id waits for its end.      *)
(*                                                                         *)
(* A transaction keeps a pooled connection until the handler returns; a    *)
(* request that waits for a row keeps it too.  The statement that checks   *)
(* the key needs a connection only while it runs.                          *)
(***************************************************************************)
EXTENDS Naturals, FiniteSets

CONSTANTS
    Request,  \* requests; each is handled once, and its name stands for the
              \* id that security.Token gives the event it may insert
    Key,      \* API keys of the project
    EventId,  \* the producers' event_id values
    Content,  \* canonical envelopes: what payload_hash tells apart
    Endpoint,
    MaxConns, \* connections of the pool (20)
    NULL

ASSUME MaxConnsAssumption == MaxConns \in Nat \ {0}

VARIABLES
    events,     \* committed events, or NULL
    deliveries, \* committed fan-out of each event
    writer,     \* the transaction with an uncommitted row for this event_id
    live,       \* endpoints that are active and not deleted
    revoked,    \* keys with revoked_at set
    pc,         \* where the handler of a request is
    input,      \* what the request carries
    fanout,     \* the uncommitted delivery rows of a request's transaction
    answer,     \* status code and event id of the response
    lived,      \* history: endpoints live at some moment of the request
    stayed,     \* history: endpoints live at every moment of the request
    stale       \* history: the key was revoked before the request arrived

tables == <<events, deliveries, writer>>
history == <<lived, stayed, stale>>
vars == <<tables, live, revoked, pc, input, fanout, answer, history>>

Input == [key : Key, event_id : EventId, content : Content, valid : BOOLEAN]

Stored == [id : Request, content : Content]

Response == [code : {200, 202, 400, 401, 409, 429, 500, 503},
             id : Request \cup {NULL}]

ASSUME NullAssumption ==
    NULL \notin Request /\ NULL \notin Input /\ NULL \notin Stored /\ NULL \notin Response

\* Between Begin and the handler's return.
InTransaction(r) == pc[r] \in {"insert", "lookup", "fanout", "commit"}

Running(r) == pc[r] \notin {"idle", "done"}

\* The pool has a connection to give.
Connection == Cardinality({r \in Request : InTransaction(r)}) < MaxConns

Init ==
    /\ events = [e \in EventId |-> NULL]
    /\ deliveries = [e \in EventId |-> {}]
    /\ writer = [e \in EventId |-> NULL]
    /\ live \in SUBSET Endpoint
    /\ revoked = {}
    /\ pc = [r \in Request |-> "idle"]
    /\ input = [r \in Request |-> NULL]
    /\ fanout = [r \in Request |-> {}]
    /\ answer = [r \in Request |-> NULL]
    /\ lived = [r \in Request |-> {}]
    /\ stayed = [r \in Request |-> {}]
    /\ stale = [r \in Request |-> FALSE]

-----------------------------------------------------------------------------
(* The handler.                                                             *)

Goto(r, label) == pc' = [pc EXCEPT ![r] = label]

\* write or fail, and the return of the handler, whose deferred Rollback
\* drops what is not committed.
Answer(r, code, id) ==
    /\ answer' = [answer EXCEPT ![r] = [code |-> code, id |-> id]]
    /\ Goto(r, "done")
    /\ fanout' = [fanout EXCEPT ![r] = {}]

\* A producer sends a request: a new event, a retry, or a changed event under
\* an old event_id.
Arrive(r, in) ==
    /\ pc[r] = "idle"
    /\ Goto(r, "auth")
    /\ input' = [input EXCEPT ![r] = in]
    /\ lived' = [lived EXCEPT ![r] = live]
    /\ stayed' = [stayed EXCEPT ![r] = live]
    /\ stale' = [stale EXCEPT ![r] = in.key \in revoked]
    /\ UNCHANGED <<tables, live, revoked, fanout, answer>>

\* Faulty variant: revoked_at is not looked at.
KeyValidOnceIssued(r) == input[r].key \in Key

\* SELECT ... WHERE key_hash AND revoked_at IS NULL.
KeyValid(r) == input[r].key \notin revoked

Authenticate(r) ==
    /\ pc[r] = "auth"
    /\ Connection
    /\ IF KeyValid(r) THEN Goto(r, "limit") /\ UNCHANGED <<fanout, answer>>
                      ELSE Answer(r, 401, NULL)
    /\ UNCHANGED <<tables, live, revoked, input, history>>

\* The limiter allows the request, denies it, or does not answer.
Limit(r) ==
    /\ pc[r] = "limit"
    /\ \/ Goto(r, "body") /\ UNCHANGED <<fanout, answer>>
       \/ Answer(r, 429, NULL)
       \/ Answer(r, 503, NULL)
    /\ UNCHANGED <<tables, live, revoked, input, history>>

\* Validate and Canonical accept the body; contents with equal canonical
\* envelopes are one Content.
BodyValid(r) == input[r].valid

Decode(r) ==
    /\ pc[r] = "body"
    /\ IF BodyValid(r) THEN Goto(r, "begin") /\ UNCHANGED <<fanout, answer>>
                       ELSE Answer(r, 400, NULL)
    /\ UNCHANGED <<tables, live, revoked, input, history>>

Begin(r) ==
    /\ pc[r] = "begin"
    /\ Connection
    /\ Goto(r, "insert")
    /\ UNCHANGED <<tables, live, revoked, input, fanout, answer, history>>

\* INSERT ... ON CONFLICT DO NOTHING waits while another transaction holds an
\* uncommitted row for the event_id.
InsertReady(r) == writer[input[r].event_id] = NULL

Insert(r) ==
    LET e == input[r].event_id
    IN  /\ pc[r] = "insert"
        /\ InsertReady(r)
        /\ \/ /\ events[e] = NULL
              /\ writer' = [writer EXCEPT ![e] = r]
              /\ Goto(r, "fanout")
           \/ /\ events[e] # NULL
              /\ Goto(r, "lookup")
              /\ UNCHANGED writer
        /\ UNCHANGED <<events, deliveries, live, revoked, input, fanout,
                       answer, history>>

\* Faulty variants: the contents are not compared; a duplicate is fanned
\* out to the endpoints of the moment.
LookupUncompared(r) ==
    LET old == events[input[r].event_id]
    IN  /\ pc[r] = "lookup"
        /\ Answer(r, 200, old.id)
        /\ UNCHANGED <<tables, live, revoked, input, history>>

LookupFansOut(r) ==
    LET old == events[input[r].event_id]
    IN  /\ pc[r] = "lookup"
        /\ Answer(r, 200, old.id)
        /\ deliveries' = [deliveries EXCEPT ![input[r].event_id] = @ \cup live]
        /\ UNCHANGED <<events, writer, live, revoked, input, history>>

\* The duplicate: SELECT id, payload_hash, and the comparison.
Lookup(r) ==
    LET old == events[input[r].event_id]
    IN  /\ pc[r] = "lookup"
        /\ IF old.content # input[r].content THEN Answer(r, 409, NULL)
                                             ELSE Answer(r, 200, old.id)
        /\ UNCHANGED <<tables, live, revoked, input, history>>

\* Faulty variant: paused and deleted endpoints too.
FanOutToAll(r) ==
    /\ pc[r] = "fanout"
    /\ fanout' = [fanout EXCEPT ![r] = Endpoint]
    /\ Goto(r, "commit")
    /\ UNCHANGED <<tables, live, revoked, input, answer, history>>

\* INSERT INTO deliveries ... SELECT: the endpoints that the statement sees.
FanOut(r) ==
    /\ pc[r] = "fanout"
    /\ fanout' = [fanout EXCEPT ![r] = live]
    /\ Goto(r, "commit")
    /\ UNCHANGED <<tables, live, revoked, input, answer, history>>

\* COMMIT takes effect: event and deliveries become visible together.
Commit(r) ==
    LET e == input[r].event_id
    IN  /\ events' = [events EXCEPT ![e] =
                        [id |-> r, content |-> input[r].content]]
        /\ deliveries' = [deliveries EXCEPT ![e] = fanout[r]]
        /\ writer' = [writer EXCEPT ![e] = NULL]

Accepted(r) ==
    /\ pc[r] = "commit"
    /\ Commit(r)
    /\ Answer(r, 202, r)
    /\ UNCHANGED <<live, revoked, input, history>>

\* COMMIT takes effect but its answer is lost: the handler answers 500.
Unconfirmed(r) ==
    /\ pc[r] = "commit"
    /\ Commit(r)
    /\ Answer(r, 500, NULL)
    /\ UNCHANGED <<live, revoked, input, history>>

\* Faulty variant: a failed transaction is left open.
ReleasedNever(r) == writer

\* A statement fails, or its context ends because the producer went away.
Released(r) == [e \in EventId |-> IF writer[e] = r THEN NULL ELSE writer[e]]

Fail(r) ==
    /\ pc[r] = "auth" \/ pc[r] = "begin" \/ InTransaction(r)
    /\ Answer(r, 500, NULL)
    /\ writer' = Released(r)
    /\ UNCHANGED <<events, deliveries, live, revoked, input, history>>

-----------------------------------------------------------------------------
(* The management API, as far as it touches what ingest reads.              *)

\* createEndpoint, updateEndpoint and deleteEndpoint make endpoints live or
\* not; an endpoint not yet created is not live.
SetLive(p) ==
    /\ live' = IF p \in live THEN live \ {p} ELSE live \cup {p}
    /\ lived' = [r \in Request |->
                   IF Running(r) THEN lived[r] \cup live' ELSE lived[r]]
    /\ stayed' = [r \in Request |->
                    IF Running(r) THEN stayed[r] \cap live' ELSE stayed[r]]
    /\ UNCHANGED <<tables, revoked, pc, input, fanout, answer, stale>>

\* deleteKey.
Revoke(k) ==
    /\ revoked' = revoked \cup {k}
    /\ UNCHANGED <<tables, live, pc, input, fanout, answer, history>>

-----------------------------------------------------------------------------
Handle(r) ==
    \/ Authenticate(r) \/ Limit(r) \/ Decode(r) \/ Begin(r) \/ Insert(r)
    \/ Lookup(r) \/ FanOut(r) \/ Accepted(r) \/ Unconfirmed(r)

Next ==
    \/ \E r \in Request :
         (\E in \in Input : Arrive(r, in)) \/ Handle(r) \/ Fail(r)
    \/ \E p \in Endpoint : SetLive(p)
    \/ \E k \in Key : Revoke(k)

Spec == Init /\ [][Next]_vars

\* net/http runs every handler, and Postgres and the pool serve whoever waits.
\* No failure is owed to anyone: a request must not need one to get out.
Fairness == \A r \in Request : WF_vars(Handle(r))

FairSpec == Spec /\ Fairness

-----------------------------------------------------------------------------
(* Properties.                                                              *)

TypeOK ==
    /\ events \in [EventId -> Stored \cup {NULL}]
    /\ deliveries \in [EventId -> SUBSET Endpoint]
    /\ writer \in [EventId -> Request \cup {NULL}]
    /\ live \subseteq Endpoint
    /\ revoked \subseteq Key
    /\ pc \in [Request -> {"idle", "auth", "limit", "body", "begin", "insert",
                           "lookup", "fanout", "commit", "done"}]
    /\ input \in [Request -> Input \cup {NULL}]
    /\ \A r \in Request : pc[r] # "idle" => input[r] \in Input
    /\ fanout \in [Request -> SUBSET Endpoint]
    /\ answer \in [Request -> Response \cup {NULL}]
    /\ \A r \in Request : pc[r] = "done" <=> answer[r] # NULL
    /\ lived \in [Request -> SUBSET Endpoint]
    /\ stayed \in [Request -> SUBSET Endpoint]
    /\ stale \in [Request -> BOOLEAN]

\* What an answer says of the stored event.
AnswerTrue(r) ==
    LET old == events[input[r].event_id]
        mine == input[r].content
    IN  /\ answer[r].code = 202 =>
             old = [id |-> r, content |-> mine] /\ answer[r].id = r
        /\ answer[r].code = 200 =>
             old # NULL /\ old.content = mine /\ answer[r].id = old.id
        /\ answer[r].code = 409 =>
             old # NULL /\ old.content # mine

\* Every answer is true for ever after: 202 names the event this very request
\* stored, so that an event is accepted once; 200 names a stored event with
\* the same content; 409 means that the stored content differs.  Also when
\* the first commit was not confirmed, or the same event raced itself.
AnswerIsTrue == \A r \in Request : answer[r] # NULL => AnswerTrue(r)

\* An event is stored by the request that carried it, valid and with a key
\* that was not yet revoked when the request arrived.
StoredWasAuthorized ==
    \A e \in EventId : events[e] # NULL =>
        LET r == events[e].id
        IN  /\ input[r].event_id = e
            /\ input[r].content = events[e].content
            /\ input[r].valid
            /\ ~stale[r]

\* "Destination membership is selected on first acceptance" (README.md): an
\* endpoint that was live during the whole first request gets a delivery, and
\* one that was never live during it gets none, whatever changes meanwhile.
FanOutIsFair ==
    \A e \in EventId : events[e] # NULL =>
        /\ stayed[events[e].id] \subseteq deliveries[e]
        /\ deliveries[e] \subseteq lived[events[e].id]

\* An event and its fan-out appear together and never change again: a
\* duplicate, a conflict or a retry after a lost answer adds no delivery.
EventsAreImmutable ==
    [][\A e \in EventId :
         /\ events[e] # NULL =>
              events'[e] = events[e] /\ deliveries'[e] = deliveries[e]
         /\ deliveries'[e] # deliveries[e] =>
              events[e] = NULL /\ events'[e] # NULL
      ]_vars

\* Every request is answered, although transactions wait for each other's
\* rows while they hold connections that the others need.
EveryRequestAnswered ==
    \A r \in Request : pc[r] = "auth" ~> pc[r] = "done"

-----------------------------------------------------------------------------
(* The inductive invariant.                                                 *)

\* The transaction that inserted the row of an event_id is the only one that
\* is about to store it, and nobody has before; one that found the event_id
\* taken looks it up when it is stored.
LocksAreHeld ==
    /\ \A e \in EventId : writer[e] # NULL =>
         /\ input[writer[e]].event_id = e
         /\ pc[writer[e]] \in {"fanout", "commit"}
         /\ events[e] = NULL
    /\ \A r \in Request :
         /\ pc[r] \in {"fanout", "commit"} => writer[input[r].event_id] = r
         /\ pc[r] = "lookup" => events[input[r].event_id] # NULL

\* What a handler has found out before it comes to a statement.
Passed(r) ==
    /\ pc[r] = "auth" /\ stale[r] => input[r].key \in revoked
    /\ pc[r] \in {"limit", "body", "begin", "insert", "lookup", "fanout", "commit"} =>
         ~stale[r]
    /\ pc[r] \in {"begin", "insert", "lookup", "fanout", "commit"} => input[r].valid

\* The histories tell what the endpoints did, and the fan-out lies between.
Witnessed(r) ==
    /\ Running(r) => live \subseteq lived[r] /\ stayed[r] \subseteq live
    /\ pc[r] = "commit" => stayed[r] \subseteq fanout[r] /\ fanout[r] \subseteq lived[r]

\* The request that stored an event is over.
StorerIsDone == \A e \in EventId : events[e] # NULL => pc[events[e].id] = "done"

IngestInv ==
    /\ TypeOK
    /\ LocksAreHeld
    /\ \A r \in Request : Passed(r) /\ Witnessed(r)
    /\ StorerIsDone
    /\ AnswerIsTrue
    /\ StoredWasAuthorized
    /\ FanOutIsFair
==============================================================================
