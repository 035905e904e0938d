------------------------------- MODULE Accounts -------------------------------
(***************************************************************************)
(* Accounts, sessions, projects and API keys (internal/api: auth.go,       *)
(* projects.go, createEndpoint of endpoints.go) as concurrent handlers,    *)
(* one database statement to a step.  A statement may fail, and one that   *)
(* writes may have taken effect all the same; a caller may give a request  *)
(* up while its handler goes on, or the process may die under it.          *)
(*                                                                         *)
(* Token draws 256 random bits: what a request makes is named by the       *)
(* request, <<caller, n>> for the n-th one of a caller.  A user is named   *)
(* by the address, which is UNIQUE; a password stands for its bcrypt hash, *)
(* which matches no other one.  Requests are from the same site: the tests *)
(* of Origin and Sec-Fetch-Site in middleware let them pass.               *)
(***************************************************************************)
EXTENDS Integers, FiniteSets

CONSTANTS
    Caller,    \* cookie jars: a run of a command, or a browser
    Spelling,  \* addresses as they are typed
    Canonical, \* strings.ToLower(strings.TrimSpace(_)), as a function
    Password,  \* passwords
    Weak,      \* those that have not 12 to 72 bytes
    None,      \* no cookie, no user, no account
    MaxFaults  \* bound: failures, lost answers and expired sessions

ASSUME AccountsAssumption ==
    /\ Weak \subseteq Password
    /\ DOMAIN Canonical = Spelling
    /\ None \notin Password \cup (Caller \X Nat)
    /\ MaxFaults \in Nat

VARIABLES
    users,     \* password_hash of each registered address
    sessions,  \* rows that have not expired
    projects, endpoints, keys, \* rows, by the requests that made them
    revoked,   \* the revocations: keys and the requests that revoked them
    flight,    \* the requests on their way
    jar,       \* the cookie of each caller
    sent,      \* requests of each caller so far
    faults

tables == <<users, sessions, projects, endpoints, keys, revoked>>
callers == <<jar, sent>>
accountVars == <<tables, flight, callers, faults>>

Email == {Canonical[s] : s \in Spelling}

AccountsInit ==
    /\ users = [e \in Email |-> None]
    /\ sessions = {} /\ projects = {} /\ endpoints = {}
    /\ keys = {} /\ revoked = {} /\ flight = {}
    /\ jar = [c \in Caller |-> None]
    /\ sent = [c \in Caller |-> 0]
    /\ faults = 0

-----------------------------------------------------------------------------
(* Requests.                                                                *)

\* A caller sends a request with the cookie that it has.  body is what the
\* handler decodes, or the id in its path; good says that the body passes
\* decode and the handler's tests of it.
Send(c, op, body, good) ==
    /\ flight' = flight \cup
         {[id |-> <<c, sent[c] + 1>>, op |-> op, body |-> body, good |-> good,
           cookie |-> jar[c], user |-> None, pc |-> "arrived", code |-> 0,
           awaited |-> TRUE]}
    /\ sent' = [sent EXCEPT ![c] = @ + 1]
    /\ UNCHANGED <<tables, jar, faults>>

Becomes(r, q) == flight' = (flight \ {r}) \cup {q}

Goto(r, label) == Becomes(r, [r EXCEPT !.pc = label])

\* The handler writes its answer; nobody reads the one to a request given up.
Answer(r, code) ==
    IF r.awaited THEN Becomes(r, [r EXCEPT !.pc = "answered", !.code = code])
    ELSE flight' = flight \ {r}

At(r, op, label) == r.op \in op /\ r.pc = label

Signing == {"register", "login"}
InProject == {"endpoint", "key"}

-----------------------------------------------------------------------------
(* Statements that read, and what comes before them.                        *)

\* authLimit: the bucket of the caller's address, which is in Redis.
AuthLimit(r) ==
    /\ At(r, Signing, "arrived")
    /\ \/ Goto(r, "let in")
       \/ \E code \in {429, 503} : Answer(r, code)
    /\ UNCHANGED <<tables, callers, faults>>

\* SELECT ... WHERE email=$1, and CheckPassword.
Lookup(r) == users[Canonical[r.body.email]] = r.body.password

Login(r) ==
    /\ At(r, {"login"}, "let in")
    /\ IF ~r.good THEN Answer(r, 400)
       ELSE IF Lookup(r)
       THEN Becomes(r, [r EXCEPT !.user = Canonical[r.body.email], !.pc = "known"])
       ELSE Answer(r, 401)
    /\ UNCHANGED <<tables, callers, faults>>

\* auth: the session of the cookie, read once and before the handler.
Auth(r) ==
    /\ r.op \notin Signing /\ r.pc = "arrived"
    /\ \/ \E s \in sessions :
            /\ s.token = r.cookie
            /\ Becomes(r, [r EXCEPT !.user = s.user, !.pc = "known"])
       \/ /\ \A s \in sessions : s.token # r.cookie
          /\ Answer(r, 401)
    /\ UNCHANGED <<tables, callers, faults>>

Owned(user) == {p.id : p \in {q \in projects : q.owner = user}}

\* owner, then the body.
Owner(r) ==
    /\ At(r, InProject, "known")
    /\ IF r.body.project \notin Owned(r.user) THEN Answer(r, 404)
       ELSE IF ~r.good THEN Answer(r, 400)
       ELSE Goto(r, "owned")
    /\ UNCHANGED <<tables, callers, faults>>

Reads(r) == AuthLimit(r) \/ Login(r) \/ Auth(r) \/ Owner(r)

-----------------------------------------------------------------------------
(* Statements that write.                                                   *)

\* security.Token, and the Hash under which the tables keep a session or key:
\* what a request makes is new and known to its caller alone.
Token(r) == r.id

InsertUser(r) ==
    /\ At(r, {"register"}, "let in")
    /\ r.good /\ users[Canonical[r.body.email]] = None
    /\ users' = [users EXCEPT ![Canonical[r.body.email]] = r.body.password]
    /\ UNCHANGED <<sessions, projects, endpoints, keys, revoked>>

InsertSession(r) ==
    /\ At(r, Signing, "known")
    /\ sessions' = sessions \cup {[token |-> Token(r), user |-> r.user]}
    /\ UNCHANGED <<users, projects, endpoints, keys, revoked>>

DeleteSession(r) ==
    /\ At(r, {"logout"}, "known")
    /\ sessions' = {s \in sessions : s.token # r.cookie}
    /\ UNCHANGED <<users, projects, endpoints, keys, revoked>>

InsertProject(r) ==
    /\ At(r, {"project"}, "known") /\ r.good
    /\ projects' = projects \cup {[id |-> Token(r), owner |-> r.user]}
    /\ UNCHANGED <<users, sessions, endpoints, keys, revoked>>

InsertEndpoint(r) ==
    /\ At(r, {"endpoint"}, "owned")
    /\ endpoints' = endpoints \cup
         {[id |-> Token(r), project |-> r.body.project, kind |-> r.body.kind]}
    /\ UNCHANGED <<users, sessions, projects, keys, revoked>>

InsertKey(r) ==
    /\ At(r, {"key"}, "owned")
    /\ keys' = keys \cup {[id |-> Token(r), project |-> r.body.project]}
    /\ UNCHANGED <<users, sessions, projects, endpoints, revoked>>

\* Faulty variant: the owner is not asked for.
RevocableByAnyone(r) == {k \in keys : k.id = r.body.key}

\* The rows that the UPDATE of deleteKey meets.
Revocable(r) == {k \in keys : k.id = r.body.key /\ k.project \in Owned(r.user)}

UpdateKey(r) ==
    /\ At(r, {"revoke"}, "known")
    /\ Revocable(r) # {}
    /\ revoked' = revoked \cup {[key |-> k, by |-> r.id] : k \in Revocable(r)}
    /\ UNCHANGED <<users, sessions, projects, endpoints, keys>>

Writes(r) ==
    \/ InsertSession(r) \/ DeleteSession(r) \/ InsertProject(r)
    \/ InsertEndpoint(r) \/ InsertKey(r) \/ UpdateKey(r)

\* The user row is stored, and register goes on to the session.
Registered(r) ==
    /\ InsertUser(r)
    /\ Becomes(r, [r EXCEPT !.user = Canonical[r.body.email], !.pc = "known"])
    /\ UNCHANGED <<callers, faults>>

Success(r) ==
    CASE r.op = "login" -> 200
      [] r.op \in {"logout", "revoke"} -> 204
      [] OTHER -> 201

\* A write takes effect and is the handler's last statement.
Done(r) ==
    /\ Writes(r)
    /\ Answer(r, Success(r))
    /\ UNCHANGED <<callers, faults>>

\* The tests before a write, and what the database says of it.
Refused(r) ==
    /\ \/ /\ At(r, {"register"}, "let in") /\ ~r.good
          /\ Answer(r, 400)
       \/ /\ At(r, {"register"}, "let in") /\ r.good
          /\ users[Canonical[r.body.email]] # None
          /\ Answer(r, 409)
       \/ /\ At(r, {"project"}, "known") /\ ~r.good
          /\ Answer(r, 400)
       \/ /\ At(r, {"revoke"}, "known") /\ Revocable(r) = {}
          /\ Answer(r, 404)
    /\ UNCHANGED <<tables, callers, faults>>

-----------------------------------------------------------------------------
(* Failures.                                                                *)

\* login and auth take an error of the database for a wrong password or
\* cookie, owner for a project of somebody else; the others tell the truth.
FailureCode(r) ==
    CASE At(r, {"login"}, "let in") \/ (r.op \notin Signing /\ r.pc = "arrived") -> 401
      [] At(r, InProject, "known") -> 404
      [] OTHER -> 500

Strike == faults < MaxFaults /\ faults' = faults + 1

\* The next thing that the handler does is a statement.
AtStatement(r) ==
    /\ r.pc # "answered"
    /\ ~At(r, Signing, "arrived")
    /\ r.pc = "let in" \/ At(r, {"project"}, "known") => r.good

\* A statement fails, or the request's 15 seconds are over.
Fails(r) ==
    /\ Strike
    /\ AtStatement(r)
    /\ Answer(r, FailureCode(r))
    /\ UNCHANGED <<tables, callers>>

\* A write takes effect but its confirmation is lost: the handler answers 500.
Unconfirmed(r) ==
    /\ Strike
    /\ InsertUser(r) \/ Writes(r)
    /\ Answer(r, 500)
    /\ UNCHANGED callers

\* The caller hears no more of a request, which goes on or dies with the
\* process that has it.
GiveUp(r) ==
    /\ Strike
    /\ r.awaited
    /\ \/ flight' = flight \ {r}
       \/ r.pc # "answered" /\ Becomes(r, [r EXCEPT !.awaited = FALSE])
    /\ UNCHANGED <<tables, callers>>

\* 24 hours are over.
Expire(s) ==
    /\ Strike
    /\ s \in sessions
    /\ sessions' = sessions \ {s}
    /\ UNCHANGED <<users, projects, endpoints, keys, revoked, flight, callers>>

-----------------------------------------------------------------------------

\* The cookie that is in the jar after an answer.
Cookie(r) ==
    IF r.op \in Signing /\ r.code = Success(r) THEN Token(r)
    ELSE IF r.op = "logout" /\ r.code = 204 THEN None
    ELSE jar[r.id[1]]

Deliver(r) ==
    /\ r.pc = "answered"
    /\ flight' = flight \ {r}
    /\ jar' = [jar EXCEPT ![r.id[1]] = Cookie(r)]
    /\ UNCHANGED <<tables, sent, faults>>

\* A handler goes on without a failure.
Proceed(r) == Reads(r) \/ Registered(r) \/ Done(r) \/ Refused(r)
==============================================================================
