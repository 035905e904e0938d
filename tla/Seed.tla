--------------------------------- MODULE Seed ---------------------------------
(***************************************************************************)
(* The seed command (cmd/seed, internal/democlient) against the accounts   *)
(* of the API.  Bootstrap registers, or signs in if that does not work for *)
(* whatever reason, and makes a project, three endpoints and a key; it     *)
(* gives up at the first error, and somebody may run it again, with the    *)
(* same password or a new one.  Several seeds may run at once, and people  *)
(* use the same accounts, or others, with a browser.                       *)
(***************************************************************************)
EXTENDS Accounts, Sequences

CONSTANTS
    Seeds,    \* the callers that run the seed command; the others are browsers
    Start     \* what is fixed in a behaviour: the address that each caller
              \* uses, the passwords that it may use with it, and as a bound
              \* its runs, or its requests if it is a browser

ASSUME SeedAssumption ==
    /\ Seeds \subseteq Caller
    /\ \A s \in Start : s \in
         [Caller -> [email : Spelling, passwords : SUBSET Password, bound : Nat]]

VARIABLES
    start,   \* one of Start
    account, \* the address and password of this run of a command
    step,    \* where the command is; the request of the step may be on its way
    home,    \* the project that it has made
    runs,
    used,    \* history: accounts that a caller has used
    excuse   \* history: this run of a command met with a failure, a refusal
             \* of the limiter included

seedVars == <<start, account, step, home, runs, used, excuse>>
vars == <<accountVars, seedVars>>

\* Bootstrap, request by request.
Script == <<"register", "login", "project", "endpoint", "endpoint", "endpoint", "key">>
Ready == Len(Script) + 1
Failed == 0
Idle == -1

Account(c, p) == [email |-> start[c].email, password |-> p]

Init ==
    /\ AccountsInit
    /\ start \in Start
    /\ account = [c \in Seeds |-> None]
    /\ step = [c \in Seeds |-> Idle]
    /\ home = [c \in Seeds |-> None]
    /\ runs = [c \in Seeds |-> 0]
    /\ used = [c \in Caller |-> {}]
    /\ excuse = [c \in Seeds |-> FALSE]

Awaited(c) == {r \in flight : r.awaited /\ r.id[1] = c}

-----------------------------------------------------------------------------
(* The command.                                                             *)

\* What Bootstrap sends.  The destinations are told apart by their step.
Body(c) ==
    CASE Script[step[c]] \in Signing -> account[c]
      [] Script[step[c]] = "project" -> None
      [] Script[step[c]] = "endpoint" -> [project |-> home[c], kind |-> step[c]]
      [] OTHER -> [project |-> home[c]]

Good(c) == Script[step[c]] = "register" => account[c].password \notin Weak

CallOut(c) ==
    /\ c \in Seeds /\ step[c] \in 1..Len(Script)
    /\ Awaited(c) = {}
    /\ Send(c, Script[step[c]], Body(c), Good(c))
    /\ UNCHANGED seedVars

\* Faulty variant: only a taken address is a reason to sign in.
AfterErrorStrict(c, code) == IF step[c] = 1 /\ code = 409 THEN 2 ELSE Failed

\* A failed register is followed by login, any other error ends the run.
AfterError(c, code) == IF step[c] = 1 THEN 2 ELSE Failed

\* Faulty variant: Call does not look at the status of an answer.
AfterAnswerAny(c, r) == IF step[c] = 1 THEN 3 ELSE step[c] + 1

\* Call takes a status from 300 on for an error; after register comes the
\* project, for there is a session.
AfterAnswer(c, r) ==
    IF r.code >= 300 THEN AfterError(c, r.code)
    ELSE IF step[c] = 1 THEN 3
    ELSE step[c] + 1

Receive(c, r) ==
    /\ c \in Seeds /\ r \in Awaited(c)
    /\ Deliver(r)
    /\ step' = [step EXCEPT ![c] = AfterAnswer(c, r)]
    /\ home' = [home EXCEPT ![c] = IF r.op = "project" /\ r.code = 201 THEN r.id ELSE @]
    /\ UNCHANGED <<start, account, runs, used, excuse>>

\* A failed register is no excuse for a run once the account is stored.
Spoils(r) == r.op = "register" => users'[Canonical[r.body.email]] = None

\* The request times out or the connection breaks: Do returns an error.
TimeOut(c, r) ==
    /\ c \in Seeds /\ r \in Awaited(c)
    /\ GiveUp(r)
    /\ step' = [step EXCEPT ![c] = AfterError(c, 0)]
    /\ excuse' = [excuse EXCEPT ![c] = @ \/ Spoils(r)]
    /\ UNCHANGED <<start, account, home, runs, used>>

\* The command is run, or run again: another jar, and perhaps another
\* password, which is drawn when DEMO_PASSWORD is not set.
Run(c, p) ==
    /\ c \in Seeds /\ step[c] \in {Idle, Failed}
    /\ runs[c] < start[c].bound
    /\ runs' = [runs EXCEPT ![c] = @ + 1]
    /\ account' = [account EXCEPT ![c] = Account(c, p)]
    /\ used' = [used EXCEPT ![c] = @ \cup {Account(c, p)}]
    /\ step' = [step EXCEPT ![c] = 1]
    /\ home' = [home EXCEPT ![c] = None]
    /\ excuse' = [excuse EXCEPT ![c] = FALSE]
    /\ jar' = [jar EXCEPT ![c] = None]
    /\ UNCHANGED <<start, tables, flight, sent, faults>>

-----------------------------------------------------------------------------
(* A browser.  Its first page is the form to sign in, whose button is dead  *)
(* while a request is on its way; with a cookie it sends what it likes,     *)
(* several requests at a time, with ids of any account in the path.         *)

Ids(rows) == {x.id : x \in rows}

Click(c) ==
    /\ jar[c] # None
    /\ \/ \E good \in BOOLEAN :
            \/ Send(c, "project", None, good)
            \/ \E p \in Ids(projects), op \in InProject :
                 Send(c, op, [project |-> p, kind |-> 0], good)
       \/ \E k \in Ids(keys) : Send(c, "revoke", [key |-> k], TRUE)
       \/ Send(c, "logout", None, TRUE)
    /\ UNCHANGED seedVars

SignIn(c, p) ==
    /\ Awaited(c) = {}
    /\ \E op \in Signing : Send(c, op, Account(c, p), op = "register" => p \notin Weak)
    /\ used' = [used EXCEPT ![c] = @ \cup {Account(c, p)}]
    /\ UNCHANGED <<start, account, step, home, runs, excuse>>

Browse(c) ==
    /\ c \in Caller \ Seeds
    /\ sent[c] < start[c].bound
    /\ Click(c) \/ \E p \in start[c].passwords : SignIn(c, p)

See(c, r) ==
    /\ c \in Caller \ Seeds /\ r \in Awaited(c)
    /\ Deliver(r) \/ GiveUp(r)
    /\ UNCHANGED seedVars

-----------------------------------------------------------------------------
(* The handlers, and what happens to them.                                  *)

\* The run of a command that waits for r has an excuse from now on.
Excused(r) ==
    excuse' = [c \in Seeds |-> excuse[c] \/ (r \in Awaited(c) /\ Spoils(r))]

Handle(r) ==
    /\ Proceed(r)
    /\ IF r.pc = "arrived" /\ r.op \in Signing /\ [r EXCEPT !.pc = "let in"] \notin flight'
       THEN Excused(r) ELSE UNCHANGED excuse
    /\ UNCHANGED <<start, account, step, home, runs, used>>

Break(r) ==
    /\ Fails(r) \/ Unconfirmed(r)
    /\ Excused(r)
    /\ UNCHANGED <<start, account, step, home, runs, used>>

TimePasses(s) ==
    /\ Expire(s)
    /\ excuse' = [c \in Seeds |-> excuse[c] \/ s.token[1] = c]
    /\ UNCHANGED <<start, account, step, home, runs, used>>

Next ==
    \/ \E c \in Caller :
         \/ CallOut(c) \/ Browse(c)
         \/ \E p \in start[c].passwords : Run(c, p)
         \/ \E r \in flight : Receive(c, r) \/ TimeOut(c, r) \/ See(c, r)
    \/ \E r \in flight : Handle(r) \/ Break(r)
    \/ \E s \in sessions : TimePasses(s)

Spec == Init /\ [][Next]_vars

-----------------------------------------------------------------------------
(* Properties.                                                              *)

\* The accounts whose password a caller has presented, and the projects of these.
Mine(c) == {Canonical[a.email] : a \in {b \in used[c] : users[Canonical[b.email]] = b.password}}

Yours(id, project) == \E e \in Mine(id[1]) : project \in Owned(e)

\* "Registration, secure cookie sessions, owner-scoped projects and revocable
\* API keys" (README.md:18): whatever a caller makes or revokes belongs to an
\* account whose password the caller has presented, also when the session
\* ends, or another account registers, while the request is being handled.
RowsStayInTheAccount ==
    /\ \A p \in projects : Yours(p.id, p.id)
    /\ \A x \in endpoints \cup keys : Yours(x.id, x.project)
    /\ \A v \in revoked : Yours(v.by, v.key.project)

\* The account of a command, and that its password will never do for it.
Mail(c) == Canonical[account[c].email]
Barred(c) ==
    \/ users[Mail(c)] \notin {None, account[c].password}
    \/ account[c].password \in Weak

\* What a command has made in its project.
Made(c) == {e \in endpoints : e.project = home[c] /\ e.id[1] = c}

\* "To seed the same account again, pass its password" (README.md:56-57): a
\* run of the command that met no failure, none but one of register that came
\* after the user row was stored, gives up only because the account has
\* another password, or its own one is too weak.  Whatever earlier runs left
\* behind, a user row without a session above all, does not stand in its way.
SeedFailsWithCause ==
    \A c \in Seeds : step[c] = Failed /\ ~excuse[c] => Barred(c)

\* A command that has finished has a project of its account with one endpoint
\* of each kind that it made there, and a key to it that was stored, though
\* earlier runs may have left parts of theirs, and requests that nobody awaits
\* may still be running.
SeededIsComplete ==
    \A c \in Seeds : step[c] = Ready =>
        /\ home[c] \in Owned(Mail(c))
        /\ users[Mail(c)] = account[c].password
        /\ {e.kind : e \in Made(c)} = {i \in 1..Len(Script) : Script[i] = "endpoint"}
        /\ Cardinality(Made(c)) = 3
        /\ \E k \in keys : k.project = home[c] /\ k.id = <<c, sent[c]>>

-----------------------------------------------------------------------------
(* The inductive invariant.                                                 *)

Id == Caller \X Nat
Credentials == [email : Spelling, password : Password]
Place == [project : Id \cup {None}]
Destination == [project : Id \cup {None}, kind : Nat]

\* What the handler of each request decodes, or reads in its path.
BodyOf(op) ==
    CASE op \in Signing -> Credentials
      [] op = "endpoint" -> Destination
      [] op = "key" -> Place \cup Destination
      [] op = "revoke" -> [key : Id]
      [] OTHER -> {None}

Op == Signing \cup InProject \cup {"project", "revoke", "logout"}

Req ==
    [id : Id, op : Op, good : BOOLEAN,
     body : Credentials \cup Destination \cup Place \cup [key : Id] \cup {None},
     cookie : Id \cup {None}, user : Email \cup {None},
     pc : {"arrived", "let in", "known", "owned", "answered"}, code : Nat,
     awaited : BOOLEAN]

TypeOK ==
    /\ users \in [Email -> Password \cup {None}]
    /\ sessions \subseteq [token : Id, user : Email \cup {None}]
    /\ projects \subseteq [id : Id, owner : Email \cup {None}]
    /\ endpoints \subseteq [id : Id, project : Id \cup {None}, kind : Nat]
    /\ keys \subseteq [id : Id, project : Id \cup {None}]
    /\ revoked \subseteq [key : keys, by : Id]
    /\ flight \subseteq Req
    /\ \A r \in flight : r.body \in BodyOf(r.op)
    /\ jar \in [Caller -> Id \cup {None}]
    /\ sent \in [Caller -> Nat]
    /\ faults \in Nat
    /\ start \in Start
    /\ account \in [Seeds -> Credentials \cup {None}]
    /\ step \in [Seeds -> Idle..Ready]
    /\ home \in [Seeds -> Id \cup {None}]
    /\ runs \in [Seeds -> Nat]
    /\ used \in [Caller -> SUBSET Credentials]
    /\ excuse \in [Seeds -> BOOLEAN]

\* A handler knows only what its caller may know: the cookie is the caller's,
\* and the user an account whose password the caller has presented.
Entitled(r) ==
    /\ r.cookie # None => r.cookie[1] = r.id[1]
    /\ r.op \in Signing => r.body \in used[r.id[1]]
    /\ r.pc = "let in" => r.op \in Signing
    /\ r.pc \in {"known", "owned"} => r.user \in Mine(r.id[1])
    /\ r.pc = "owned" => r.op \in InProject /\ r.body.project \in Owned(r.user)

\* A command awaits one request at a time, that of its step.
Attended(c) ==
    \A r \in Awaited(c) :
        /\ \A q \in Awaited(c) : q = r
        /\ step[c] \in 1..Len(Script)
        /\ r.op = Script[step[c]] /\ r.body = Body(c)
        /\ r.good \/ (r.op = "register" /\ account[c].password \in Weak)
        /\ r.cookie = jar[c] /\ r.id = <<c, sent[c]>>

AccountInv ==
    /\ TypeOK
    /\ \A r \in flight : Entitled(r)
    /\ \A s \in sessions : s.user \in Mine(s.token[1])
    /\ \A c \in Caller : jar[c] # None => jar[c][1] = c
    /\ \A c \in Caller : \A a \in used[c] : a.email = start[c].email
    /\ \A c \in Seeds : step[c] # Idle => account[c] \in used[c]
    /\ \A c \in Seeds : Attended(c)
    /\ RowsStayInTheAccount

HasSession(token) == \E s \in sessions : s.token = token

\* A command signs in only with a password that may be right, and goes on
\* with a session, unless it has an excuse.
Placed(c) ==
    /\ step[c] = Failed => excuse[c] \/ Barred(c)
    /\ step[c] = 2 => excuse[c] \/ users[Mail(c)] # None \/ account[c].password \in Weak
    /\ step[c] >= 3 => /\ users[Mail(c)] = account[c].password
                       /\ excuse[c] \/ HasSession(jar[c])
    /\ step[c] >= 4 => home[c] \in Owned(Mail(c))

\* What an answer below 300 says, and why there may be another one.
Stored(c, r) ==
    /\ r.op \in Signing => /\ users[Mail(c)] = account[c].password
                           /\ excuse[c] \/ HasSession(r.id)
    /\ r.op = "project" => r.id \in Owned(Mail(c))
    /\ r.op = "endpoint" => [id |-> r.id, project |-> home[c], kind |-> step[c]] \in endpoints
    /\ r.op = "key" => [id |-> r.id, project |-> home[c]] \in keys

Blocked(c, r) ==
    \/ excuse[c]
    \/ r.op = "register" /\ (users[Mail(c)] # None \/ account[c].password \in Weak)
    \/ r.op = "login" /\ Barred(c)

Tells(c, r) ==
    /\ r.pc = "known" /\ r.op \in Signing => users[Mail(c)] = account[c].password
    /\ r.pc = "answered" /\ r.code < 300 => r.code = Success(r) /\ Stored(c, r)
    /\ r.pc = "answered" /\ r.code >= 300 => Blocked(c, r)

Heard(c) == \A r \in Awaited(c) : Tells(c, r)

\* The requests of a command, also of earlier runs, and what they make: none
\* ends a session, and a project is older than what is made in it.
Older(project, id) ==
    project \in Id /\ project[2] < id[2] /\ id[2] <= sent[id[1]]

AgedRequest(r) ==
    /\ r.id[2] <= sent[r.id[1]]
    /\ r.id[1] \in Seeds =>
         r.op # "logout" /\ (r.op \in InProject => Older(r.body.project, r.id))

Aged ==
    /\ \A r \in flight : AgedRequest(r)
    /\ \A x \in endpoints : x.id[1] \in Seeds => Older(x.project, x.id)

\* The project of a run, and nothing in it but what the run has made.
Furnished(c) == step[c] >= 4 =>
    /\ home[c] \in Id /\ home[c][2] <= sent[c]
    /\ \A r \in flight : r.id[1] = c /\ ~r.awaited /\ r.op \in InProject =>
          r.body.project # home[c]
    /\ \A k \in 4..6 : k < step[c] => \E x \in Made(c) : x.kind = k
    /\ \A x \in Made(c) :
          /\ x.kind \in 4..6
          /\ x.kind < step[c] \/ (\E r \in Awaited(c) : x.kind = step[c] /\ x.id = r.id)
    /\ \A x, y \in Made(c) : x.kind = y.kind => x = y
    /\ step[c] = Ready => \E k \in keys : k.project = home[c] /\ k.id = <<c, sent[c]>>

SeedInv ==
    /\ AccountInv
    /\ Aged
    /\ \A c \in Seeds : Placed(c) /\ Heard(c) /\ Furnished(c)
==============================================================================
