------------------------------ MODULE Endpoints ------------------------------
(***************************************************************************)
(* The life of one endpoint row (internal/api/endpoints.go): POST creates  *)
(* it, PATCH requests change fields of it, DELETE marks it deleted.        *)
(*                                                                         *)
(* A PATCH is a read-modify-write without a transaction: it reads the      *)
(* whole row, decodes the body over it, validates the merged row, and      *)
(* writes all columns back by id.  Requests of one or several replicas     *)
(* interleave between the read and the write.                              *)
(***************************************************************************)
EXTENDS Naturals

CONSTANTS
    Request, \* PATCH requests
    Field,   \* the columns a body may name: "active" and others (name, url,
             \* secret, max_attempts, base_delay_seconds, rate_per_second)
    Value,   \* values of a column, as numbers; active is 0 or 1
    Valid,   \* the values that validateEndpoint accepts
    Default, \* what createEndpoint starts from; not valid for a column that
             \* the body has to name (name, url)
    NULL     \* JSON null, and no value

ASSUME FieldAssumption == "active" \in Field
ASSUME ValueAssumption ==
    /\ Valid \subseteq Value
    /\ {0, 1} \subseteq Valid
    /\ Default \in [Field -> Value]
    /\ Default["active"] = 1
    /\ NULL \notin Value /\ NULL \notin [Field -> Value]

VARIABLES
    row,       \* the columns of the endpoint, or NULL before POST
    deleted,   \* deleted_at IS NOT NULL
    pc,        \* where the PATCH is
    body,      \* the columns the PATCH names, with their values
    merged,    \* its local endpointInput: the row it read, then the body too
    answer,    \* its status code
    wish,      \* history: per column, the value asked for by the last request
               \* that took effect and named it
    asked,     \* history: per column, all values asked for by such requests
    fresh,     \* history: requests whose row is as they read it
    overlapped \* history: some PATCH wrote when it was no longer fresh

vars == <<row, deleted, pc, body, merged, answer, wish, asked, fresh,
          overlapped>>

\* A body names some columns.
Body == UNION {[F -> Value \cup {NULL}] : F \in SUBSET Field}

\* The body names a value for the column; null names none.
Asked(in, f) == f \in DOMAIN in /\ in[f] # NULL

\* Faulty variant: the body is decoded over the defaults, not over the row.
MergeDefaults(old, in) ==
    [f \in Field |-> IF Asked(in, f) THEN in[f] ELSE Default[f]]

\* json.Decode over a struct that already holds values: a column that is named
\* replaces, one that is not stays, and null leaves a plain column alone but
\* clears the pointer Active.
Merge(old, in) ==
    [f \in Field |->
        IF Asked(in, f) THEN in[f]
        ELSE IF f = "active" /\ f \in DOMAIN in THEN NULL
        ELSE old[f]]

\* validateEndpoint, and "active must be boolean".
Accepts(v) == \A f \in Field : v[f] \in Valid

\* ep.active AND ep.deleted_at IS NULL: what workers and ingest ask for.
Live == row # NULL /\ row["active"] = 1 /\ ~deleted

Init ==
    /\ row = NULL
    /\ deleted = FALSE
    /\ pc = [r \in Request |-> "idle"]
    /\ body = [r \in Request |-> NULL]
    /\ merged = [r \in Request |-> NULL]
    /\ answer = [r \in Request |-> NULL]
    /\ wish = NULL
    /\ asked = [f \in Field |-> {}]
    /\ fresh = {}
    /\ overlapped = FALSE

-----------------------------------------------------------------------------
\* createEndpoint: an active that is missing or null means true.
Create(in) ==
    LET v == [Merge(Default, in) EXCEPT !["active"] =
                IF @ = NULL THEN 1 ELSE @]
    IN  /\ row = NULL
        /\ Accepts(v)
        /\ row' = v
        /\ wish' = v
        /\ asked' = [f \in Field |-> {v[f]}]
        /\ UNCHANGED <<deleted, pc, body, merged, answer, fresh, overlapped>>

Reply(r, code) ==
    /\ pc' = [pc EXCEPT ![r] = "done"]
    /\ answer' = [answer EXCEPT ![r] = code]

\* The clause of updateEndpoint's SELECT.
Readable == row # NULL /\ ~deleted

\* updateEndpoint, its SELECT.
Read(r, in) ==
    /\ pc[r] = "idle"
    /\ body' = [body EXCEPT ![r] = in]
    /\ \/ /\ Readable
          /\ merged' = [merged EXCEPT ![r] = row]
          /\ fresh' = fresh \cup {r}
          /\ pc' = [pc EXCEPT ![r] = "decode"]
          /\ UNCHANGED answer
       \/ /\ ~Readable
          /\ Reply(r, 404)
          /\ UNCHANGED <<merged, fresh>>
    /\ UNCHANGED <<row, deleted, wish, asked, overlapped>>

\* updateEndpoint, decode and validateEndpoint.
Decode(r) ==
    LET v == Merge(merged[r], body[r])
    IN  /\ pc[r] = "decode"
        /\ \/ /\ Accepts(v)
              /\ merged' = [merged EXCEPT ![r] = v]
              /\ pc' = [pc EXCEPT ![r] = "write"]
              /\ UNCHANGED answer
           \/ /\ ~Accepts(v)
              /\ Reply(r, 400)
              /\ UNCHANGED merged
        /\ UNCHANGED <<row, deleted, body, wish, asked, fresh, overlapped>>

\* The histories take note of what a body asks for.
Record(in) ==
    /\ wish' = [f \in Field |-> IF Asked(in, f) THEN in[f] ELSE wish[f]]
    /\ asked' = [f \in Field |->
                   IF Asked(in, f) THEN asked[f] \cup {in[f]} ELSE asked[f]]

\* What the UPDATE ... WHERE id makes of the row: all columns are written.
Written(r) == merged[r]

\* Faulty variant: the UPDATE clears deleted_at too.
WriteRestores(r) ==
    /\ pc[r] = "write"
    /\ row' = Written(r)
    /\ Record(body[r])
    /\ overlapped' = (overlapped \/ r \notin fresh)
    /\ fresh' = {}
    /\ deleted' = FALSE
    /\ \E code \in {200, 500} : Reply(r, code)
    /\ UNCHANGED <<body, merged>>

\* updateEndpoint, its UPDATE, whose answer may be lost.  It does not look at
\* deleted_at, nor at what changed since the SELECT.
Write(r) ==
    /\ pc[r] = "write"
    /\ row' = Written(r)
    /\ Record(body[r])
    /\ overlapped' = (overlapped \/ r \notin fresh)
    /\ fresh' = {}
    /\ \E code \in {200, 500} : Reply(r, code)
    /\ UNCHANGED <<deleted, body, merged>>

\* A statement or the encryption of a new secret fails: nothing is written.
Fail(r) ==
    /\ pc[r] \in {"idle", "decode", "write"}
    /\ Reply(r, 500)
    /\ UNCHANGED <<row, deleted, body, merged, wish, asked, fresh,
                   overlapped>>

\* deleteEndpoint.
Delete ==
    /\ Readable
    /\ row' = [row EXCEPT !["active"] = 0]
    /\ Record([f \in {"active"} |-> 0])
    /\ deleted' = TRUE
    /\ fresh' = {}
    /\ UNCHANGED <<pc, body, merged, answer, overlapped>>

Next ==
    \/ \E in \in Body : Create(in) \/ \E r \in Request : Read(r, in)
    \/ \E r \in Request : Decode(r) \/ Write(r) \/ Fail(r)
    \/ Delete

Spec == Init /\ [][Next]_vars

-----------------------------------------------------------------------------
(* Properties.                                                              *)

TypeOK ==
    /\ row \in [Field -> Value] \cup {NULL}
    /\ deleted \in BOOLEAN
    /\ pc \in [Request -> {"idle", "decode", "write", "done"}]
    /\ body \in [Request -> Body \cup {NULL}]
    /\ merged \in [Request -> [Field -> Value] \cup {NULL}]
    /\ answer \in [Request -> {NULL, 200, 400, 404, 500}]
    /\ wish \in [Field -> Value] \cup {NULL}
    /\ asked \in [Field -> SUBSET Value]
    /\ fresh \subseteq Request
    /\ overlapped \in BOOLEAN

\* Every column of the stored row has a value that validateEndpoint accepts,
\* although a PATCH validates only its own merge of an older row with its body.
RowAlwaysValid == row # NULL => \A f \in Field : row[f] \in Valid

\* What a PATCH that writes over others can do to a column it does not name:
\* set it back to a value that some request asked for before, a PATCH, the POST
\* or the DELETE.  However requests overlap, are refused or lose their answers,
\* no column gets a value that nobody wanted; one that is never named stays as
\* the POST made it (the decode over the row read, endpoints.go:78-84).
NothingInvented == row # NULL => \A f \in Field : row[f] \in asked[f]

\* "PATCH supports partial fields" (README.md:155) as long as no PATCH writes
\* over a change it has not seen: every column has the value last asked for,
\* over any sequence of partial bodies, refused bodies and lost answers.
PatchesMerge == ~overlapped /\ row # NULL => row = wish

\* A deleted endpoint never becomes live again, not even by a PATCH that read
\* the row before the DELETE and writes active=true after it.
DeletedForGood == [][deleted => ~Live']_vars

\* Each PATCH names a column, and no two of them name the same one.
DistinctColumns ==
    LET Names(r, f) == body[r] # NULL /\ Asked(body[r], f)
    IN  \A r \in Request : body[r] # NULL =>
            /\ \E f \in Field : Names(r, f)
            /\ \A q \in Request \ {r} : \A f \in Field :
                  ~(Names(r, f) /\ Names(q, f))

\* "PATCH supports partial fields" (README.md:155): requests that name different
\* columns do not disturb each other.  A column keeps the value that the last
\* PATCH naming it gave it; a paused endpoint stays paused until someone
\* resumes it.
PatchedColumnsStick ==
    row # NULL /\ ~deleted /\ DistinctColumns => row = wish

-----------------------------------------------------------------------------
(* The inductive invariant.                                                 *)

\* A PATCH on its way has read a row; what it is about to write was accepted
\* and has the values that its body asked for; the others come from earlier
\* requests.
Prepared(r) ==
    /\ pc[r] \in {"decode", "write"} =>
         merged[r] # NULL /\ body[r] \in Body /\ row # NULL
    /\ pc[r] = "decode" => \A f \in Field : merged[r][f] \in asked[f]
    /\ pc[r] = "write" =>
         /\ Accepts(merged[r])
         /\ \A f \in Field :
               IF Asked(body[r], f) THEN merged[r][f] = body[r][f]
                                    ELSE merged[r][f] \in asked[f]

\* A fresh PATCH has the row in its hands, and keeps it where its body asks for
\* nothing.
UpToDate(r) ==
    r \in fresh =>
        /\ pc[r] = "decode" => merged[r] = row
        /\ pc[r] = "write" =>
             \A f \in Field : Asked(body[r], f) \/ merged[r][f] = row[f]

EndpointInv ==
    /\ TypeOK
    /\ row = NULL <=> wish = NULL
    /\ \A r \in Request : Prepared(r) /\ UpToDate(r)
    /\ RowAlwaysValid
    /\ NothingInvented
    /\ PatchesMerge
==============================================================================
