------------------------------ MODULE SeedProofs ------------------------------
(***************************************************************************)
(* Proofs about Seed and Accounts, for any number of commands, browsers,   *)
(* addresses, passwords, runs and faults.                                  *)
(***************************************************************************)
EXTENDS Seed, FiniteSetTheorems, TLAPS

-----------------------------------------------------------------------------
(* The invariant in parts.                                                  *)

TablesOK ==
    /\ users \in [Email -> Password \cup {None}]
    /\ sessions \subseteq [token : Id, user : Email \cup {None}]
    /\ projects \subseteq [id : Id, owner : Email \cup {None}]
    /\ endpoints \subseteq [id : Id, project : Id \cup {None}, kind : Nat]
    /\ keys \subseteq [id : Id, project : Id \cup {None}]
    /\ revoked \subseteq [key : keys, by : Id]
    /\ \A s \in sessions : s.user \in Mine(s.token[1])
    /\ RowsStayInTheAccount

FlightOK ==
    /\ flight \subseteq Req
    /\ \A r \in flight : r.body \in BodyOf(r.op) /\ Entitled(r)

CallersOK ==
    /\ jar \in [Caller -> Id \cup {None}]
    /\ sent \in [Caller -> Nat]
    /\ faults \in Nat
    /\ \A c \in Caller : jar[c] # None => jar[c][1] = c

CommandsOK ==
    /\ start \in Start
    /\ account \in [Seeds -> Credentials \cup {None}]
    /\ step \in [Seeds -> Idle..Ready]
    /\ home \in [Seeds -> Id \cup {None}]
    /\ runs \in [Seeds -> Nat]
    /\ used \in [Caller -> SUBSET Credentials]
    /\ excuse \in [Seeds -> BOOLEAN]
    /\ \A c \in Caller : \A a \in used[c] : a.email = start[c].email
    /\ \A c \in Seeds : step[c] # Idle => account[c] \in used[c]

AttendedOK == \A c \in Seeds : Attended(c)

\* AccountInv by what it is about: tables, requests, callers and commands.
LEMMA AccountParts ==
    AccountInv <=> TablesOK /\ FlightOK /\ CallersOK /\ CommandsOK /\ AttendedOK
BY DEF AccountInv, TypeOK, TablesOK, FlightOK, CallersOK, CommandsOK, AttendedOK

\* The same of the next state.
LEMMA AccountPartsNext ==
    AccountInv' <=> TablesOK' /\ FlightOK' /\ CallersOK' /\ CommandsOK' /\ AttendedOK'
BY DEF AccountInv, TypeOK, TablesOK, FlightOK, CallersOK, CommandsOK, AttendedOK

-----------------------------------------------------------------------------
(* Accounts and projects are never lost.                                    *)

Grows ==
    /\ \A e \in Email : users[e] # None => users'[e] = users[e]
    /\ \A c \in Caller : used[c] \subseteq used'[c]
    /\ projects \subseteq projects'

\* What register and login decode names an account, with a password.
LEMMA EmailOf == \A a \in Credentials : /\ Canonical[a.email] \in Email
                                        /\ a.password \in Password /\ a.password # None
BY AccountsAssumption DEF Credentials, Email

\* A caller's accounts are those that have a password it has presented.
LEMMA MineIs ==
    ASSUME NEW c, NEW e
    PROVE  e \in Mine(c) <=>
             \E a \in used[c] : e = Canonical[a.email] /\ users[e] = a.password
BY DEF Mine

\* The same of the next state.
LEMMA MineIsNext ==
    ASSUME NEW c, NEW e
    PROVE  e \in Mine(c)' <=>
             \E a \in used'[c] : e = Canonical[a.email] /\ users'[e] = a.password
BY DEF Mine

\* Accounts and projects are never taken from anybody.
LEMMA MineGrows ==
    ASSUME CommandsOK, Grows
    PROVE  /\ \A c \in Caller : \A e \in Mine(c) : e \in Mine(c)'
           /\ \A e : \A p \in Owned(e) : p \in Owned(e)'
           /\ \A c \in Caller : Mine(c) \subseteq Email
<1>1. ASSUME NEW c \in Caller, NEW e \in Mine(c) PROVE e \in Mine(c)' /\ e \in Email
  <2>1. PICK a \in used[c] : e = Canonical[a.email] /\ users[e] = a.password
    BY MineIs
  <2>2. a \in Credentials /\ a \in used'[c]
    BY <2>1 DEF CommandsOK, Grows
  <2>3. e \in Email /\ users[e] # None
    BY <2>1, <2>2, EmailOf
  <2>4. users'[e] = a.password
    BY <2>1, <2>3 DEF Grows
  <2> QED BY <2>1, <2>2, <2>3, <2>4, MineIsNext
<1>2. ASSUME NEW e, NEW p \in Owned(e) PROVE p \in Owned(e)'
  BY <1>2 DEF Owned, Grows
<1> QED BY <1>1, <1>2

\* So what is in a caller's accounts stays there.
LEMMA YoursGrows ==
    ASSUME CommandsOK, Grows, NEW id \in Id, NEW p, Yours(id, p)
    PROVE  Yours(id, p)'
<1>1. id[1] \in Caller
  BY DEF Id
<1> QED BY <1>1, MineGrows DEF Yours

\* What a request finds to be its caller's is the caller's.
LEMMA OwnedIsYours ==
    ASSUME NEW id, NEW e \in Mine(id[1]), NEW p \in Owned(e)
    PROVE  Yours(id, p)
BY DEF Yours

-----------------------------------------------------------------------------
(* The statements of the handlers.                                          *)

\* The rows stay what they were, and with their accounts, when accounts and
\* projects only grow.
LEMMA RowsKept ==
    ASSUME AccountInv, Grows
    PROVE  /\ \A s \in sessions : s.user \in Mine(s.token[1])'
           /\ \A p \in projects : Yours(p.id, p.id)'
           /\ \A x \in endpoints \cup keys : Yours(x.id, x.project)'
           /\ \A v \in revoked : Yours(v.by, v.key.project)'
<1>1. TablesOK /\ CommandsOK
  BY AccountParts
<1>2. \A s \in sessions : s.user \in Mine(s.token[1])'
  <2>1. \A s \in sessions : s.token[1] \in Caller
    BY <1>1 DEF TablesOK, Id
  <2> QED BY <1>1, <2>1, MineGrows DEF TablesOK
<1>3. \A p \in projects : Yours(p.id, p.id)'
  <2>1. \A p \in projects : p.id \in Id /\ Yours(p.id, p.id)
    BY <1>1 DEF TablesOK, RowsStayInTheAccount
  <2> QED BY <1>1, <2>1, YoursGrows
<1>4. \A x \in endpoints \cup keys : Yours(x.id, x.project)'
  <2>1. \A x \in endpoints \cup keys : x.id \in Id /\ Yours(x.id, x.project)
    BY <1>1 DEF TablesOK, RowsStayInTheAccount
  <2> QED BY <1>1, <2>1, YoursGrows
<1>5. \A v \in revoked : Yours(v.by, v.key.project)'
  <2>1. \A v \in revoked : v.by \in Id /\ Yours(v.by, v.key.project)
    BY <1>1 DEF TablesOK, RowsStayInTheAccount
  <2> QED BY <1>1, <2>1, YoursGrows
<1> QED BY <1>2, <1>3, <1>4, <1>5

\* A statement that writes adds a row of the account that the handler knows.
LEMMA WriteSound ==
    ASSUME AccountInv, NEW r \in flight, UNCHANGED used,
           UNCHANGED tables \/ InsertUser(r) \/ Writes(r)
    PROVE  TablesOK' /\ Grows
<1>1. TablesOK /\ FlightOK /\ CommandsOK
  BY AccountParts
<1>2. r \in Req /\ r.body \in BodyOf(r.op) /\ Entitled(r) /\ r.id \in Id /\ r.id[1] \in Caller
  BY <1>1 DEF FlightOK, Req, Id
<1>3. CASE UNCHANGED tables
  <2>1. Grows
    BY <1>3 DEF Grows, tables
  <2>2. RowsStayInTheAccount' /\ \A s \in sessions' : s.user \in Mine(s.token[1])'
    BY <1>3, <2>1, RowsKept DEF RowsStayInTheAccount, tables
  <2> QED BY <1>1, <1>3, <2>1, <2>2 DEF TablesOK, tables
<1>4. CASE InsertUser(r)
  <2> DEFINE e == Canonical[r.body.email]
  <2>1. /\ users[e] = None /\ users' = [users EXCEPT ![e] = r.body.password]
        /\ UNCHANGED <<sessions, projects, endpoints, keys, revoked>>
        /\ r.op = "register"
    BY <1>4 DEF InsertUser, At
  <2>2. r.body \in Credentials
    BY <1>2, <2>1 DEF BodyOf, Signing
  <2>3. r.body.password \in Password /\ e \in Email
    BY <2>2, EmailOf
  <2>4. Grows
    BY <1>1, <2>1, <2>3 DEF Grows, TablesOK
  <2>5. users' \in [Email -> Password \cup {None}]
    BY <1>1, <2>1, <2>3 DEF TablesOK
  <2>6. RowsStayInTheAccount' /\ \A s \in sessions' : s.user \in Mine(s.token[1])'
    BY <2>1, <2>4, RowsKept DEF RowsStayInTheAccount
  <2> QED BY <1>1, <2>1, <2>4, <2>5, <2>6 DEF TablesOK
<1>5. ASSUME r.pc \in {"known", "owned"} PROVE r.user \in Mine(r.id[1]) /\ r.user \in Email \cup {None}
  BY <1>2, <1>5 DEF Entitled, Req
<1>6. CASE InsertSession(r)
  <2>1. /\ r.pc = "known" /\ UNCHANGED <<users, projects, endpoints, keys, revoked>>
        /\ sessions' = sessions \cup {[token |-> r.id, user |-> r.user]}
    BY <1>6 DEF InsertSession, At, Token
  <2>2. Grows
    BY <2>1 DEF Grows
  <2>3. r.user \in Mine(r.id[1])'
    BY <1>1, <1>2, <1>5, <2>1, <2>2, MineGrows
  <2>4. RowsStayInTheAccount' /\ \A s \in sessions' : s.user \in Mine(s.token[1])'
    BY <2>1, <2>2, <2>3, RowsKept DEF RowsStayInTheAccount
  <2>5. sessions' \subseteq [token : Id, user : Email \cup {None}]
    BY <1>1, <1>2, <1>5, <2>1 DEF TablesOK
  <2> QED BY <1>1, <2>1, <2>2, <2>4, <2>5 DEF TablesOK
<1>7. CASE DeleteSession(r)
  <2>1. /\ sessions' \subseteq sessions
        /\ UNCHANGED <<users, projects, endpoints, keys, revoked>>
    BY <1>7 DEF DeleteSession
  <2>2. Grows
    BY <2>1 DEF Grows
  <2>3. RowsStayInTheAccount' /\ \A s \in sessions' : s.user \in Mine(s.token[1])'
    BY <2>1, <2>2, RowsKept DEF RowsStayInTheAccount
  <2> QED BY <1>1, <2>1, <2>2, <2>3 DEF TablesOK
<1>8. CASE InsertProject(r)
  <2> DEFINE new == [id |-> r.id, owner |-> r.user]
  <2>1. /\ r.pc = "known" /\ UNCHANGED <<users, sessions, endpoints, keys, revoked>>
        /\ projects' = projects \cup {new}
    BY <1>8 DEF InsertProject, At, Token
  <2>2. Grows
    BY <2>1 DEF Grows
  <2>3. r.user \in Mine(r.id[1])'
    BY <1>1, <1>2, <1>5, <2>1, <2>2, MineGrows
  <2>4. r.id \in Owned(r.user)'
    <3>1. new \in projects' /\ new.owner = r.user /\ new.id = r.id
      BY <2>1
    <3> HIDE DEF new
    <3> QED BY <3>1 DEF Owned
  <2>5. Yours(new.id, new.id)'
    BY <2>3, <2>4 DEF Yours
  <2>6. \A p \in projects' : Yours(p.id, p.id)'
    BY <2>1, <2>2, <2>5, RowsKept
  <2>7. RowsStayInTheAccount' /\ \A s \in sessions' : s.user \in Mine(s.token[1])'
    BY <2>1, <2>2, <2>6, RowsKept DEF RowsStayInTheAccount
  <2>8. projects' \subseteq [id : Id, owner : Email \cup {None}]
    BY <1>1, <1>2, <1>5, <2>1 DEF TablesOK
  <2> QED BY <1>1, <2>1, <2>2, <2>7, <2>8 DEF TablesOK
<1>9. ASSUME r.pc = "owned" PROVE Yours(r.id, r.body.project)
  BY <1>2, <1>9, OwnedIsYours DEF Entitled
<1>10. CASE InsertEndpoint(r)
  <2> DEFINE new == [id |-> r.id, project |-> r.body.project, kind |-> r.body.kind]
  <2>1. /\ r.pc = "owned" /\ r.op = "endpoint"
        /\ UNCHANGED <<users, sessions, projects, keys, revoked>>
        /\ endpoints' = endpoints \cup {new}
    BY <1>10 DEF InsertEndpoint, At, Token
  <2>2. Grows
    BY <2>1 DEF Grows
  <2>3. r.body \in Destination
    BY <1>2, <2>1 DEF BodyOf, Signing
  <2>4. new \in [id : Id, project : Id \cup {None}, kind : Nat]
    BY <1>2, <2>3 DEF Destination
  <2>5. Yours(new.id, new.project)'
    BY <1>1, <1>2, <1>9, <2>1, <2>2, YoursGrows
  <2>6. \A x \in endpoints' \cup keys' : Yours(x.id, x.project)'
    BY <2>1, <2>2, <2>5, RowsKept
  <2>7. RowsStayInTheAccount' /\ \A s \in sessions' : s.user \in Mine(s.token[1])'
    BY <2>1, <2>2, <2>6, RowsKept DEF RowsStayInTheAccount
  <2> QED BY <1>1, <2>1, <2>2, <2>4, <2>7 DEF TablesOK
<1>11. CASE InsertKey(r)
  <2> DEFINE new == [id |-> r.id, project |-> r.body.project]
  <2>1. /\ r.pc = "owned" /\ r.op = "key"
        /\ UNCHANGED <<users, sessions, projects, endpoints, revoked>>
        /\ keys' = keys \cup {new}
    BY <1>11 DEF InsertKey, At, Token
  <2>2. Grows
    BY <2>1 DEF Grows
  <2>3. r.body \in Place \cup Destination
    BY <1>2, <2>1 DEF BodyOf, Signing
  <2>4. new \in [id : Id, project : Id \cup {None}]
    BY <1>2, <2>3 DEF Place, Destination
  <2>5. Yours(new.id, new.project)'
    BY <1>1, <1>2, <1>9, <2>1, <2>2, YoursGrows
  <2>6. \A x \in endpoints' \cup keys' : Yours(x.id, x.project)'
    BY <2>1, <2>2, <2>5, RowsKept
  <2>7. RowsStayInTheAccount' /\ \A s \in sessions' : s.user \in Mine(s.token[1])'
    BY <2>1, <2>2, <2>6, RowsKept DEF RowsStayInTheAccount
  <2>8. revoked' \subseteq [key : keys', by : Id]
    BY <1>1, <2>1 DEF TablesOK
  <2>9. keys' \subseteq [id : Id, project : Id \cup {None}]
    BY <1>1, <2>1, <2>4 DEF TablesOK
  <2> QED BY <1>1, <2>1, <2>2, <2>7, <2>8, <2>9 DEF TablesOK
<1>12. CASE UpdateKey(r)
  <2>1. /\ r.pc = "known" /\ UNCHANGED <<users, sessions, projects, endpoints, keys>>
        /\ revoked' = revoked \cup {[key |-> k, by |-> r.id] : k \in Revocable(r)}
    BY <1>12 DEF UpdateKey, At
  <2>2. Grows
    BY <2>1 DEF Grows
  <2>3. \A k \in Revocable(r) : k \in keys /\ Yours(r.id, k.project)
    BY <1>5, <2>1, OwnedIsYours DEF Revocable
  <2>4. \A k \in Revocable(r) : Yours(r.id, k.project)'
    BY <1>1, <1>2, <2>2, <2>3, YoursGrows
  <2>5. ASSUME NEW v \in revoked' PROVE Yours(v.by, v.key.project)' /\ v \in [key : keys, by : Id]
    <3>1. CASE v \in revoked
      BY <1>1, <2>2, <3>1, RowsKept DEF TablesOK
    <3>2. CASE v \notin revoked
      <4>1. PICK k \in Revocable(r) : v = [key |-> k, by |-> r.id]
        BY <2>1, <3>2
      <4> QED BY <1>2, <2>3, <2>4, <4>1
    <3> QED BY <3>1, <3>2
  <2>6. RowsStayInTheAccount' /\ \A s \in sessions' : s.user \in Mine(s.token[1])'
    BY <2>1, <2>2, <2>5, RowsKept DEF RowsStayInTheAccount
  <2> QED BY <1>1, <2>1, <2>2, <2>5, <2>6 DEF TablesOK
<1> QED BY <1>3, <1>4, <1>6, <1>7, <1>8, <1>10, <1>11, <1>12 DEF Writes

-----------------------------------------------------------------------------
(* The requests.                                                            *)

\* What a handler never changes of its request.
Continues(r, q) ==
    /\ q \in Req
    /\ q.id = r.id /\ q.op = r.op /\ q.body = r.body /\ q.good = r.good
    /\ q.cookie = r.cookie /\ (q.awaited => r.awaited)

\* The ways in which a request moves on.
LEMMA MovesTo ==
    ASSUME NEW r \in Req, NEW l \in {"let in", "owned"}, NEW q, q = [r EXCEPT !.pc = l]
    PROVE  Continues(r, q) /\ q.pc = l /\ q.user = r.user /\ q.awaited = r.awaited
BY DEF Req, Continues

Known(r, u) == [r EXCEPT !.user = u, !.pc = "known"]

\* A request whose user has been found differs in user and position.
LEMMA MovesToKnown ==
    ASSUME NEW r \in Req, NEW u \in Email \cup {None}
    PROVE  /\ Continues(r, Known(r, u)) /\ Known(r, u).pc = "known"
           /\ Known(r, u).user = u /\ Known(r, u).awaited = r.awaited
BY DEF Req, Continues, Known

Answered(r, code) == [r EXCEPT !.pc = "answered", !.code = code]

\* A request that has been answered differs in code and position.
LEMMA MovesToAnswer ==
    ASSUME NEW r \in Req, NEW code \in Nat
    PROVE  /\ Continues(r, Answered(r, code)) /\ Answered(r, code).pc = "answered"
           /\ Answered(r, code).code = code /\ Answered(r, code).awaited = r.awaited
BY DEF Req, Continues, Answered

\* A request that has been given up differs in not being awaited.
LEMMA MovesUnheard ==
    ASSUME NEW r \in Req, NEW q, q = [r EXCEPT !.awaited = FALSE]
    PROVE  Continues(r, q) /\ q.pc = r.pc /\ q.user = r.user /\ q.awaited = FALSE
BY DEF Req, Continues

\* Where a handler may take its request: on with the account that it found, or
\* to an answer.
Follows(r, q) ==
    /\ Continues(r, q)
    /\ \/ q.pc = "answered"
       \/ q.pc = "let in" /\ r.op \in Signing
       \/ q.pc = "known" /\ q.user \in Mine(r.id[1])'
       \/ /\ q.pc = "owned" /\ r.op \in InProject
          /\ q.user \in Mine(r.id[1])' /\ r.body.project \in Owned(q.user)'
       \/ q.pc = r.pc /\ q.user = r.user

\* The request is over, or goes on; the others are not touched.
Onward(r) ==
    \/ flight' = flight \ {r}
    \/ \E q : Follows(r, q) /\ flight' = (flight \ {r}) \cup {q}

\* Other requests keep their rights when the tables only grow.
LEMMA EntitledStays ==
    ASSUME FlightOK, CommandsOK, Grows, NEW q \in flight
    PROVE  q \in Req /\ q.body \in BodyOf(q.op) /\ Entitled(q)'
<1>1. q \in Req /\ q.body \in BodyOf(q.op) /\ Entitled(q) /\ q.id[1] \in Caller
  BY DEF FlightOK, Req, Id
<1>2. used[q.id[1]] \subseteq used'[q.id[1]]
  BY <1>1 DEF Grows
<1>3. /\ q.user \in Mine(q.id[1]) => q.user \in Mine(q.id[1])'
      /\ q.body.project \in Owned(q.user) => q.body.project \in Owned(q.user)'
  BY <1>1, MineGrows
<1> QED BY <1>1, <1>2, <1>3 DEF Entitled

\* A step of one handler leaves all requests entitled.
LEMMA FlightSound ==
    ASSUME AccountInv, Grows, NEW r \in flight, Onward(r)
    PROVE  FlightOK'
<1>1. FlightOK /\ CommandsOK
  BY AccountParts
<1>2. \A q \in flight : q \in Req /\ q.body \in BodyOf(q.op) /\ Entitled(q)'
  BY <1>1, EntitledStays
<1>3. CASE flight' = flight \ {r}
  BY <1>2, <1>3 DEF FlightOK
<1>4. CASE \E q : Follows(r, q) /\ flight' = (flight \ {r}) \cup {q}
  <2>1. PICK q : Follows(r, q) /\ flight' = (flight \ {r}) \cup {q}
    BY <1>4
  <2>2. q \in Req /\ q.body \in BodyOf(q.op)
    BY <1>2, <2>1 DEF Follows, Continues
  <2>3. Entitled(q)'
    <3>1. Entitled(r)'
      BY <1>2
    <3> QED BY <2>1, <3>1 DEF Follows, Continues, Entitled
  <2> QED BY <1>2, <2>1, <2>2, <2>3 DEF FlightOK
<1> QED BY <1>3, <1>4 DEF Onward

\* An answer is a move that any handler may make.
LEMMA AnswerFollows ==
    ASSUME NEW r \in Req, NEW code \in Nat, Answer(r, code)
    PROVE  Onward(r)
<1>1. Follows(r, Answered(r, code))
  BY MovesToAnswer DEF Follows
<1>2. flight' = flight \ {r} \/ flight' = (flight \ {r}) \cup {Answered(r, code)}
  BY DEF Answer, Becomes, Answered
<1> QED BY <1>1, <1>2 DEF Onward

\* The handlers find an account by its password or by a session of the caller.
LEMMA HandlerMoves ==
    ASSUME AccountInv, Grows, NEW r \in flight,
           Proceed(r) \/ Fails(r) \/ Unconfirmed(r) \/ GiveUp(r)
    PROVE  Onward(r)
<1>1. TablesOK /\ FlightOK /\ CommandsOK
  BY AccountParts
<1>2. r \in Req /\ r.body \in BodyOf(r.op) /\ Entitled(r) /\ r.id[1] \in Caller
  BY <1>1 DEF FlightOK, Req, Id
<1>3. ASSUME NEW code \in Nat, Answer(r, code) PROVE Onward(r)
  BY <1>2, <1>3, AnswerFollows
<1>4. ASSUME NEW u \in Email \cup {None}, u \in Mine(r.id[1])',
             Becomes(r, [r EXCEPT !.user = u, !.pc = "known"])
      PROVE  Onward(r)
  <2>1. flight' = (flight \ {r}) \cup {Known(r, u)}
    BY <1>4 DEF Becomes, Known
  <2>2. Follows(r, Known(r, u))
    BY <1>2, <1>4, MovesToKnown DEF Follows
  <2> QED BY <2>1, <2>2 DEF Onward
<1>5. ASSUME NEW l \in {"let in", "owned"}, Goto(r, l),
             l = "let in" => r.op \in Signing,
             l = "owned" => /\ r.op \in InProject /\ r.user \in Mine(r.id[1])'
                            /\ r.body.project \in Owned(r.user)'
      PROVE  Onward(r)
  <2>1. PICK q : q = [r EXCEPT !.pc = l]
    OBVIOUS
  <2>2. flight' = (flight \ {r}) \cup {q}
    BY <1>5, <2>1 DEF Goto, Becomes
  <2>3. Follows(r, q)
    BY <1>2, <1>5, <2>1, MovesTo DEF Follows
  <2> QED BY <2>2, <2>3 DEF Onward
<1>6. CASE AuthLimit(r)
  <2>1. r.op \in Signing
    BY <1>6 DEF AuthLimit, At
  <2>2. CASE Goto(r, "let in")
    BY <1>5, <2>1, <2>2
  <2>3. CASE ~Goto(r, "let in")
    <3>1. PICK code \in {429, 503} : Answer(r, code)
      BY <1>6, <2>3 DEF AuthLimit
    <3> QED BY <1>3, <3>1
  <2> QED BY <2>2, <2>3
<1>7. CASE Login(r)
  <2>1. CASE r.good /\ Lookup(r)
    <3> DEFINE e == Canonical[r.body.email]
    <3>1. /\ r.op \in Signing /\ Becomes(r, [r EXCEPT !.user = e, !.pc = "known"])
          /\ UNCHANGED tables
      BY <1>7, <2>1 DEF Login, At, Signing
    <3>2. r.body \in used[r.id[1]] /\ r.body \in Credentials
      <4>1. BodyOf(r.op) = Credentials
        BY <3>1 DEF BodyOf, Signing
      <4> QED BY <1>2, <3>1, <4>1 DEF Entitled
    <3>3. e \in Mine(r.id[1]) /\ e \in Email
      BY <2>1, <3>2, EmailOf, MineIs DEF Lookup
    <3>4. e \in Mine(r.id[1])'
      BY <1>1, <1>2, <3>3, MineGrows
    <3> QED BY <1>4, <3>1, <3>3, <3>4
  <2>2. CASE ~(r.good /\ Lookup(r))
    <3>1. Answer(r, 400) \/ Answer(r, 401)
      BY <1>7, <2>2 DEF Login
    <3> QED BY <1>3, <3>1
  <2> QED BY <2>1, <2>2
<1>8. CASE Auth(r)
  <2>1. ASSUME NEW s \in sessions, s.token = r.cookie,
               Becomes(r, [r EXCEPT !.user = s.user, !.pc = "known"])
        PROVE  Onward(r)
    <3>1. s.user \in Email \cup {None} /\ s.token \in Id /\ s.user \in Mine(s.token[1])
      BY <1>1 DEF TablesOK
    <3>2. s.token[1] = r.id[1]
      BY <1>2, <2>1, <3>1, AccountsAssumption DEF Entitled, Id
    <3>3. s.user \in Mine(r.id[1])'
      BY <1>1, <1>2, <3>1, <3>2, MineGrows
    <3> QED BY <1>4, <2>1, <3>1, <3>3
  <2>2. CASE Answer(r, 401)
    BY <1>3, <2>2
  <2>3. CASE ~Answer(r, 401)
    <3>1. PICK s \in sessions :
            s.token = r.cookie /\ Becomes(r, [r EXCEPT !.user = s.user, !.pc = "known"])
      BY <1>8, <2>3 DEF Auth
    <3> QED BY <2>1, <3>1
  <2> QED BY <2>2, <2>3
<1>9. CASE Owner(r)
  <2>1. CASE r.body.project \in Owned(r.user) /\ r.good
    <3>1. r.op \in InProject /\ r.pc = "known" /\ Goto(r, "owned")
      BY <1>9, <2>1 DEF Owner, At
    <3>2. r.user \in Mine(r.id[1])' /\ r.body.project \in Owned(r.user)'
      BY <1>1, <1>2, <2>1, <3>1, MineGrows DEF Entitled
    <3> QED BY <1>5, <3>1, <3>2
  <2>2. CASE ~(r.body.project \in Owned(r.user) /\ r.good)
    BY <1>3, <1>9, <2>2 DEF Owner
  <2> QED BY <2>1, <2>2
<1>10. CASE Registered(r)
  <2> DEFINE e == Canonical[r.body.email]
  <2>1. /\ r.op \in Signing /\ Becomes(r, [r EXCEPT !.user = e, !.pc = "known"])
        /\ users' = [users EXCEPT ![e] = r.body.password]
    BY <1>10 DEF Registered, InsertUser, At, Signing
  <2>2. r.body \in used[r.id[1]] /\ r.body \in Credentials
    <3>1. BodyOf(r.op) = Credentials
      BY <2>1 DEF BodyOf, Signing
    <3> QED BY <1>2, <2>1, <3>1 DEF Entitled
  <2>3. e \in Email
    BY <2>2, EmailOf
  <2>4. users'[e] = r.body.password
    BY <1>1, <2>1, <2>3 DEF TablesOK
  <2>5. e \in Mine(r.id[1])'
    <3>1. r.body \in used'[r.id[1]]
      BY <1>2, <2>2 DEF Grows
    <3> QED BY <2>4, <3>1, MineIsNext
  <2> QED BY <1>4, <2>1, <2>3, <2>5
<1>11. CASE Done(r) \/ Refused(r) \/ Fails(r) \/ Unconfirmed(r)
  <2>1. Success(r) \in Nat /\ FailureCode(r) \in Nat
    BY DEF Success, FailureCode
  <2>2. CASE Done(r)
    BY <1>3, <2>1, <2>2 DEF Done
  <2>3. CASE Refused(r)
    <3>1. Answer(r, 400) \/ Answer(r, 404) \/ Answer(r, 409)
      BY <2>3 DEF Refused
    <3> QED BY <1>3, <3>1
  <2>4. CASE Fails(r)
    BY <1>3, <2>1, <2>4 DEF Fails
  <2>5. CASE Unconfirmed(r)
    <3>1. Answer(r, 500)
      BY <2>5 DEF Unconfirmed
    <3> QED BY <1>3, <3>1
  <2> QED BY <1>11, <2>2, <2>3, <2>4, <2>5
<1>12. CASE GiveUp(r)
  <2>1. CASE flight' = flight \ {r}
    BY <2>1 DEF Onward
  <2>2. CASE Becomes(r, [r EXCEPT !.awaited = FALSE])
    <3>1. PICK q : q = [r EXCEPT !.awaited = FALSE]
      OBVIOUS
    <3>2. flight' = (flight \ {r}) \cup {q}
      BY <2>2, <3>1 DEF Becomes
    <3>3. Follows(r, q)
      BY <1>2, <3>1, MovesUnheard DEF Follows
    <3> QED BY <3>2, <3>3 DEF Onward
  <2> QED BY <1>12, <2>1, <2>2 DEF GiveUp
<1> QED BY <1>6, <1>7, <1>8, <1>9, <1>10, <1>11, <1>12 DEF Proceed, Reads

\* Whatever handlers do, with failures or without, tables and requests stay sound.
LEMMA HandlerSound ==
    ASSUME AccountInv, NEW r \in flight, UNCHANGED used,
           Proceed(r) \/ Fails(r) \/ Unconfirmed(r) \/ GiveUp(r)
    PROVE  TablesOK' /\ FlightOK' /\ CallersOK'
<1>1. UNCHANGED tables \/ InsertUser(r) \/ Writes(r)
  BY DEF Proceed, Reads, AuthLimit, Login, Auth, Owner, Registered, Done, Refused,
         Fails, Unconfirmed, GiveUp
<1>2. TablesOK' /\ Grows
  BY <1>1, WriteSound
<1>3. FlightOK'
  BY <1>2, HandlerMoves, FlightSound
<1>4. CallersOK'
  <2>1. UNCHANGED callers
    BY DEF Proceed, Reads, AuthLimit, Login, Auth, Owner, Registered, Done, Refused,
           Fails, Unconfirmed, GiveUp
  <2>2. CallersOK
    BY AccountParts
  <2>3. UNCHANGED faults \/ Strike
    BY DEF Proceed, Reads, AuthLimit, Login, Auth, Owner, Registered, Done, Refused,
           Fails, Unconfirmed, GiveUp
  <2>4. faults' \in Nat
    BY <2>2, <2>3 DEF Strike, CallersOK
  <2> QED BY <2>1, <2>2, <2>4 DEF CallersOK, callers
<1> QED BY <1>2, <1>3, <1>4

-----------------------------------------------------------------------------
(* What a command awaits.                                                   *)

\* Membership in Awaited, without its set.
LEMMA AwaitedIs ==
    ASSUME NEW c, NEW r
    PROVE  /\ r \in Awaited(c) <=> r \in flight /\ r.awaited /\ r.id[1] = c
           /\ r \in Awaited(c)' <=> r \in flight' /\ r.awaited /\ r.id[1] = c
BY DEF Awaited

\* The state of one command and of what it awaits.
Still(c) ==
    /\ Awaited(c)' = Awaited(c)
    /\ step'[c] = step[c] /\ account'[c] = account[c] /\ home'[c] = home[c]
    /\ sent'[c] = sent[c] /\ jar'[c] = jar[c]

\* A command that stays where it is would send the same again.
LEMMA BodySame ==
    ASSUME NEW c, step'[c] = step[c], account'[c] = account[c], home'[c] = home[c]
    PROVE  Body(c)' = Body(c)
BY DEF Body

\* A command that nothing happens to waits as before.
LEMMA AttendedStill ==
    ASSUME NEW c, Attended(c), Still(c)
    PROVE  Attended(c)'
<1>1. Body(c)' = Body(c)
  BY BodySame DEF Still
<1> QED BY <1>1 DEF Attended, Still

\* A command that waits for nothing waits for nothing wrong.
LEMMA NoneAttended ==
    ASSUME NEW c, Awaited(c)' = {}
    PROVE  Attended(c)'
BY DEF Attended

\* A handler goes on with the one request, or ends it.
LEMMA AttendedOnward ==
    ASSUME AttendedOK, NEW r \in flight, Onward(r), NEW c \in Seeds,
           UNCHANGED <<step, account, home, sent, jar>>
    PROVE  /\ Attended(c)'
           /\ r \notin Awaited(c) => Awaited(c)' = Awaited(c)
           /\ \A q \in Awaited(c)' : q \in flight \ {r} \/ (r \in Awaited(c) /\ Follows(r, q))
<1>1. Attended(c)
  BY DEF AttendedOK
<1>2. ASSUME flight' = flight \ {r}, r \notin Awaited(c) PROVE Awaited(c)' = Awaited(c)
  <2>1. \A x : x \in Awaited(c)' <=> x \in Awaited(c)
    BY <1>2, AwaitedIs
  <2> QED BY <2>1 DEF Awaited
<1>3. ASSUME NEW q, Follows(r, q), flight' = (flight \ {r}) \cup {q}, r \notin Awaited(c)
      PROVE  Awaited(c)' = Awaited(c)
  <2>1. q \notin Awaited(c)' /\ q \notin Awaited(c)
    <3>1. q.id = r.id /\ (q.awaited => r.awaited)
      BY <1>3 DEF Follows, Continues
    <3> QED BY <1>3, <3>1, AwaitedIs
  <2>2. \A x : x \in Awaited(c)' <=> x \in Awaited(c)
    BY <1>3, <2>1, AwaitedIs
  <2> QED BY <2>2 DEF Awaited
<1>4. CASE r \notin Awaited(c)
  <2>1. Awaited(c)' = Awaited(c)
    BY <1>2, <1>3, <1>4 DEF Onward
  <2>2. \A q \in Awaited(c)' : q \in flight \ {r}
    BY <1>4, <2>1, AwaitedIs
  <2> QED BY <1>1, <1>4, <2>1, <2>2, AttendedStill DEF Still
<1>5. CASE r \in Awaited(c) /\ flight' = flight \ {r}
  <2>1. Awaited(c)' = {}
    BY <1>1, <1>5, AwaitedIs DEF Attended, Awaited
  <2> QED BY <1>5, <2>1, NoneAttended
<1>6. CASE r \in Awaited(c) /\ flight' # flight \ {r}
  <2>1. PICK q : Follows(r, q) /\ flight' = (flight \ {r}) \cup {q}
    BY <1>6 DEF Onward
  <2>2. \A x \in Awaited(c)' : x = q
    BY <1>1, <1>6, <2>1, AwaitedIs DEF Attended
  <2>3. /\ q.id = r.id /\ q.op = r.op /\ q.body = r.body /\ q.good = r.good
        /\ q.cookie = r.cookie
    BY <2>1 DEF Follows, Continues
  <2>4. Body(c)' = Body(c)
    BY BodySame
  <2>5. Attended(c)'
    <3>1. SUFFICES ASSUME NEW x \in Awaited(c)'
                   PROVE  /\ \A y \in Awaited(c)' : y = x
                          /\ step'[c] \in 1..Len(Script)
                          /\ x.op = Script[step'[c]] /\ x.body = Body(c)'
                          /\ x.good \/ (x.op = "register" /\ account'[c].password \in Weak)
                          /\ x.cookie = jar'[c] /\ x.id = <<c, sent'[c]>>
      BY DEF Attended
    <3>2. x = q
      BY <2>2
    <3>3. \A y \in Awaited(c)' : y = x
      BY <2>2, <3>2
    <3>4. /\ step[c] \in 1..Len(Script)
          /\ r.op = Script[step[c]] /\ r.body = Body(c)
          /\ r.good \/ (r.op = "register" /\ account[c].password \in Weak)
          /\ r.cookie = jar[c] /\ r.id = <<c, sent[c]>>
      BY <1>1, <1>6 DEF Attended
    <3> QED BY <2>3, <2>4, <3>2, <3>3, <3>4
  <2> QED BY <1>6, <2>1, <2>2, <2>5
<1> QED BY <1>4, <1>5, <1>6

-----------------------------------------------------------------------------
(* The callers.                                                             *)

\* A caller touches no table.
LEMMA TablesKept ==
    ASSUME AccountInv, UNCHANGED tables, \A c \in Caller : used[c] \subseteq used'[c]
    PROVE  TablesOK' /\ Grows
<1>1. TablesOK
  BY AccountParts
<1>2. Grows
  BY DEF Grows, tables
<1>3. RowsStayInTheAccount' /\ \A s \in sessions' : s.user \in Mine(s.token[1])'
  BY <1>2, RowsKept DEF RowsStayInTheAccount, tables
<1> QED BY <1>1, <1>2, <1>3 DEF TablesOK, tables

Fresh(c, op, body, good) ==
    [id |-> <<c, sent[c] + 1>>, op |-> op, body |-> body, good |-> good,
     cookie |-> jar[c], user |-> None, pc |-> "arrived", code |-> 0,
     awaited |-> TRUE]

\* What one handler decodes is a body of some request.
LEMMA BodyIsABody ==
    ASSUME NEW op \in Op, NEW body \in BodyOf(op)
    PROVE  body \in Credentials \cup Destination \cup Place \cup [key : Id] \cup {None}
BY DEF Op, BodyOf, Signing, InProject

\* What a caller sends: a new id, its own cookie, and no user yet.
LEMMA FreshIs ==
    ASSUME CallersOK, NEW c \in Caller, NEW op \in Op, NEW body \in BodyOf(op),
           NEW good \in BOOLEAN
    PROVE  LET q == Fresh(c, op, body, good)
           IN  /\ q \in Req /\ q.op = op /\ q.body = body /\ q.pc = "arrived"
               /\ q.id = <<c, sent[c] + 1>> /\ q.id[1] = c /\ q.cookie = jar[c]
               /\ q.awaited
<1>1. <<c, sent[c] + 1>> \in Id /\ jar[c] \in Id \cup {None}
  BY DEF CallersOK, Id
<1>2. body \in Credentials \cup Destination \cup Place \cup [key : Id] \cup {None}
  BY BodyIsABody
<1> QED BY <1>1, <1>2 DEF Fresh, Req

\* What is sent carries the cookie of its sender, and a password only of an
\* account that the sender has used.
LEMMA SendSound ==
    ASSUME AccountInv, NEW c \in Caller, NEW op \in Op, NEW body \in BodyOf(op),
           NEW good \in BOOLEAN, Send(c, op, body, good),
           \A d \in Caller : used[d] \subseteq used'[d],
           op \in Signing => body \in used'[c]
    PROVE  TablesOK' /\ FlightOK' /\ CallersOK'
<1>1. FlightOK /\ CallersOK /\ CommandsOK
  BY AccountParts
<1>2. TablesOK' /\ Grows
  BY TablesKept DEF Send
<1>3. LET q == Fresh(c, op, body, good)
      IN  /\ q \in Req /\ q.op = op /\ q.body = body /\ q.pc = "arrived"
          /\ q.id[1] = c /\ q.cookie = jar[c]
  BY <1>1, FreshIs
<1>4. PICK q : q = Fresh(c, op, body, good)
  OBVIOUS
<1>5. flight' = flight \cup {q} /\ sent' = [sent EXCEPT ![c] = @ + 1] /\ UNCHANGED <<jar, faults>>
  BY <1>4 DEF Send, Fresh
<1>6. Entitled(q)'
  BY <1>1, <1>3, <1>4 DEF Entitled, CallersOK
<1>7. \A r \in flight : r \in Req /\ r.body \in BodyOf(r.op) /\ Entitled(r)'
  BY <1>1, <1>2, EntitledStays DEF FlightOK
<1>8. FlightOK'
  BY <1>3, <1>4, <1>5, <1>6, <1>7 DEF FlightOK
<1>9. CallersOK'
  BY <1>1, <1>5 DEF CallersOK
<1> QED BY <1>2, <1>8, <1>9

\* A caller that sends disturbs no other one.
LEMMA SendAwaited ==
    ASSUME CallersOK, NEW c \in Caller, NEW op \in Op, NEW body \in BodyOf(op),
           NEW good \in BOOLEAN, Send(c, op, body, good)
    PROVE  /\ \A d \in Caller \ {c} :
                Awaited(d)' = Awaited(d) /\ sent'[d] = sent[d] /\ jar'[d] = jar[d]
           /\ Awaited(c)' = Awaited(c) \cup {Fresh(c, op, body, good)}
           /\ sent'[c] = sent[c] + 1 /\ jar'[c] = jar[c]
<1>1. LET q == Fresh(c, op, body, good) IN q.id[1] = c /\ q.awaited
  BY FreshIs
<1>2. PICK q : q = Fresh(c, op, body, good)
  OBVIOUS
<1>3. flight' = flight \cup {q} /\ sent' = [sent EXCEPT ![c] = @ + 1] /\ UNCHANGED jar
  BY <1>2 DEF Send, Fresh
<1>4. \A d, x : x \in Awaited(d)' <=> x \in Awaited(d) \/ (x = q /\ d = c)
  BY <1>1, <1>2, <1>3, AwaitedIs
<1>5. \A d \in Caller \ {c} : Awaited(d)' = Awaited(d)
  BY <1>4 DEF Awaited
<1>6. Awaited(c)' = Awaited(c) \cup {q}
  BY <1>4 DEF Awaited
<1>7. \A d \in Caller \ {c} : sent'[d] = sent[d] /\ jar'[d] = jar[d]
  BY <1>3 DEF CallersOK
<1>8. sent'[c] = sent[c] + 1 /\ jar'[c] = jar[c]
  BY <1>3 DEF CallersOK
<1> QED BY <1>2, <1>5, <1>6, <1>7, <1>8

\* A browser that sends leaves every command alone.
LEMMA SendBesides ==
    ASSUME AccountInv, NEW c \in Caller \ Seeds, NEW op \in Op, NEW body \in BodyOf(op),
           NEW good \in BOOLEAN, Send(c, op, body, good),
           UNCHANGED <<step, account, home>>
    PROVE  AttendedOK' /\ \A d \in Seeds : Still(d)
<1>1. CallersOK /\ AttendedOK
  BY AccountParts
<1>2. \A d \in Caller \ {c} :
        Awaited(d)' = Awaited(d) /\ sent'[d] = sent[d] /\ jar'[d] = jar[d]
  BY <1>1, SendAwaited
<1>3. \A d \in Seeds : d \in Caller \ {c}
  BY SeedAssumption
<1>4. \A d \in Seeds : Still(d)
  BY <1>2, <1>3 DEF Still
<1> QED BY <1>1, <1>4, AttendedStill DEF AttendedOK

\* A step that leaves the commands alone.
LEMMA CommandsKept ==
    ASSUME CommandsOK, UNCHANGED seedVars
    PROVE  CommandsOK'
BY DEF CommandsOK, seedVars

\* Bootstrap sends the request of its step.
LEMMA CallOutSound ==
    ASSUME AccountInv, NEW c \in Caller, CallOut(c)
    PROVE  AccountInv'
<1>1. CommandsOK
  BY AccountParts
<1>2. c \in Seeds /\ step[c] \in 1..7 /\ account[c] \in used[c] /\ home[c] \in Id \cup {None}
  BY <1>1 DEF CallOut, CommandsOK, Script, Idle
<1>3. account[c] \in Credentials
  BY <1>1, <1>2 DEF CommandsOK
<1>4. PICK op : op = Script[step[c]]
  OBVIOUS
<1>5. op \in Op
  BY <1>2, <1>4 DEF Op, Script, Signing, InProject
<1>6. Body(c) \in BodyOf(op) /\ (op \in Signing => Body(c) = account[c])
  <2>1. CASE op \in Signing
    <3>1. Body(c) = account[c]
      BY <1>4, <2>1 DEF Body, Signing
    <3> QED BY <1>3, <2>1, <3>1 DEF BodyOf, Signing
  <2>2. CASE op = "project"
    BY <1>4, <2>2 DEF Body, BodyOf, Signing, InProject
  <2>3. CASE op = "endpoint"
    <3>1. Body(c) = [project |-> home[c], kind |-> step[c]]
      BY <1>4, <2>3 DEF Body, Signing
    <3>2. Body(c) \in Destination
      BY <1>2, <3>1 DEF Destination
    <3> QED BY <2>3, <3>2 DEF BodyOf, Signing
  <2>4. CASE op = "key"
    <3>1. Body(c) = [project |-> home[c]]
      BY <1>4, <2>4 DEF Body, Signing
    <3>2. Body(c) \in Place
      BY <1>2, <3>1 DEF Place
    <3> QED BY <2>4, <3>2 DEF BodyOf, Signing
  <2>5. op \in Signing \cup {"project", "endpoint", "key"}
    BY <1>2, <1>4 DEF Script, Signing
  <2> QED BY <2>1, <2>2, <2>3, <2>4, <2>5
<1>7. Good(c) \in BOOLEAN
  BY DEF Good
<1>8. /\ Send(c, op, Body(c), Good(c)) /\ UNCHANGED seedVars
  BY <1>4 DEF CallOut
<1>9. \A d \in Caller : used[d] \subseteq used'[d]
  BY <1>8 DEF seedVars
<1>10. op \in Signing => Body(c) \in used'[c]
  BY <1>2, <1>6, <1>8 DEF seedVars
<1>11. TablesOK' /\ FlightOK' /\ CallersOK'
  BY <1>5, <1>6, <1>7, <1>8, <1>9, <1>10, SendSound
<1>12. AttendedOK'
  <2>1. CallersOK /\ AttendedOK
    BY AccountParts
  <2>2. /\ \A d \in Caller \ {c} :
             Awaited(d)' = Awaited(d) /\ sent'[d] = sent[d] /\ jar'[d] = jar[d]
        /\ Awaited(c)' = Awaited(c) \cup {Fresh(c, op, Body(c), Good(c))}
        /\ sent'[c] = sent[c] + 1 /\ jar'[c] = jar[c]
    BY <1>5, <1>6, <1>7, <1>8, <2>1, SendAwaited
  <2>3. ASSUME NEW d \in Seeds, d # c PROVE Attended(d)'
    <3>1. Still(d)
      BY <1>8, <2>2, <2>3, SeedAssumption DEF Still, seedVars
    <3> QED BY <2>1, <3>1, AttendedStill DEF AttendedOK
  <2>4. Attended(c)'
    <3>1. LET q == Fresh(c, op, Body(c), Good(c))
          IN  /\ q.op = op /\ q.body = Body(c) /\ q.cookie = jar[c]
              /\ q.id = <<c, sent[c] + 1>>
      BY <1>5, <1>6, <1>7, <2>1, FreshIs
    <3>2. LET q == Fresh(c, op, Body(c), Good(c))
          IN  q.good \/ (q.op = "register" /\ account[c].password \in Weak)
      BY <1>4 DEF Fresh, Good
    <3>3. PICK q : q = Fresh(c, op, Body(c), Good(c))
      OBVIOUS
    <3>4. Awaited(c)' = {q}
      BY <2>2, <3>3 DEF CallOut
    <3>5. Body(c)' = Body(c)
      BY <1>8, BodySame DEF seedVars
    <3>6. UNCHANGED <<step, account, home>>
      BY <1>8 DEF seedVars
    <3> QED BY <1>2, <1>4, <2>2, <3>1, <3>2, <3>3, <3>4, <3>5, <3>6 DEF Attended, Script
  <2> QED BY <2>3, <2>4 DEF AttendedOK
<1> QED BY <1>1, <1>8, <1>11, <1>12, CommandsKept, AccountPartsNext

\* The accounts that start allows for.
LEMMA AccountIs ==
    ASSUME CommandsOK, NEW c \in Caller, NEW p \in start[c].passwords
    PROVE  /\ Account(c, p) \in Credentials /\ Account(c, p).email = start[c].email
           /\ start[c].email \in Spelling
<1>1. start[c].email \in Spelling /\ start[c].passwords \subseteq Password
  BY SeedAssumption DEF CommandsOK
<1> QED BY <1>1 DEF Account, Credentials

\* Presenting a password adds to what a caller has used.
LEMMA UsedGrows ==
    ASSUME CommandsOK, NEW c \in Caller, NEW p \in start[c].passwords,
           used' = [used EXCEPT ![c] = @ \cup {Account(c, p)}]
    PROVE  /\ used' \in [Caller -> SUBSET Credentials]
           /\ \A d \in Caller : used[d] \subseteq used'[d]
           /\ Account(c, p) \in used'[c]
           /\ \A d \in Caller : \A a \in used'[d] : a.email = start[d].email
<1>1. Account(c, p) \in Credentials /\ Account(c, p).email = start[c].email
  BY AccountIs
<1> QED BY <1>1 DEF CommandsOK

\* The form of a browser registers or signs in.
LEMMA SignInSound ==
    ASSUME AccountInv, NEW c \in Caller \ Seeds, NEW p \in start[c].passwords, SignIn(c, p)
    PROVE  AccountInv'
<1>1. CommandsOK
  BY AccountParts
<1>2. PICK op \in Signing : Send(c, op, Account(c, p), op = "register" => p \notin Weak)
  BY DEF SignIn
<1>3. used' = [used EXCEPT ![c] = @ \cup {Account(c, p)}]
      /\ UNCHANGED <<start, account, step, home, runs, excuse>>
  BY DEF SignIn
<1>4. /\ used' \in [Caller -> SUBSET Credentials]
      /\ \A d \in Caller : used[d] \subseteq used'[d]
      /\ Account(c, p) \in used'[c]
      /\ \A d \in Caller : \A a \in used'[d] : a.email = start[d].email
  BY <1>1, <1>3, UsedGrows
<1>5. op \in Op /\ Account(c, p) \in BodyOf(op)
  BY <1>1, AccountIs DEF BodyOf, Signing, Op
<1>6. (op = "register" => p \notin Weak) \in BOOLEAN
  OBVIOUS
<1>7. TablesOK' /\ FlightOK' /\ CallersOK'
  BY <1>2, <1>4, <1>5, <1>6, SendSound
<1>8. CommandsOK'
  BY <1>1, <1>3, <1>4, SeedAssumption DEF CommandsOK
<1>9. AttendedOK'
  BY <1>2, <1>3, <1>5, <1>6, SendBesides
<1> QED BY <1>7, <1>8, <1>9, AccountPartsNext

\* A browser sends what it likes, with any id in the path.
LEMMA ClickSound ==
    ASSUME AccountInv, NEW c \in Caller \ Seeds, Click(c)
    PROVE  AccountInv'
<1>1. TablesOK /\ CommandsOK
  BY AccountParts
<1>2. UNCHANGED seedVars /\ \A d \in Caller : used[d] \subseteq used'[d]
  BY DEF Click, seedVars
<1>3. ASSUME NEW op \in Op, NEW body \in BodyOf(op), NEW good \in BOOLEAN,
             op \notin Signing, Send(c, op, body, good)
      PROVE  AccountInv'
  <2>1. TablesOK' /\ FlightOK' /\ CallersOK'
    BY <1>2, <1>3, SendSound
  <2>2. AttendedOK'
    BY <1>2, <1>3, SendBesides DEF seedVars
  <2> QED BY <1>1, <1>2, <2>1, <2>2, CommandsKept, AccountPartsNext
<1>4. ASSUME NEW good \in BOOLEAN, Send(c, "project", None, good) PROVE AccountInv'
  <2>1. "project" \in Op /\ None \in BodyOf("project") /\ "project" \notin Signing
    BY DEF Op, BodyOf, Signing, InProject
  <2> QED BY <1>3, <1>4, <2>1
<1>5. ASSUME NEW good \in BOOLEAN, NEW p \in Ids(projects), NEW op \in InProject,
             Send(c, op, [project |-> p, kind |-> 0], good)
      PROVE  AccountInv'
  <2>1. p \in Id
    BY <1>1 DEF Ids, TablesOK
  <2>2. [project |-> p, kind |-> 0] \in Destination
    BY <2>1 DEF Destination
  <2>3. op \in Op /\ op \notin Signing /\ [project |-> p, kind |-> 0] \in BodyOf(op)
    BY <2>2 DEF Op, BodyOf, Signing, InProject
  <2> QED BY <1>3, <1>5, <2>3
<1>6. ASSUME NEW k \in Ids(keys), Send(c, "revoke", [key |-> k], TRUE) PROVE AccountInv'
  <2>1. k \in Id
    BY <1>1 DEF Ids, TablesOK
  <2>2. "revoke" \in Op /\ [key |-> k] \in BodyOf("revoke") /\ "revoke" \notin Signing
    BY <2>1 DEF Op, BodyOf, Signing, InProject
  <2> QED BY <1>3, <1>6, <2>2
<1>7. ASSUME Send(c, "logout", None, TRUE) PROVE AccountInv'
  <2>1. "logout" \in Op /\ None \in BodyOf("logout") /\ "logout" \notin Signing
    BY DEF Op, BodyOf, Signing, InProject
  <2> QED BY <1>3, <1>7, <2>1
<1> QED BY <1>4, <1>5, <1>6, <1>7 DEF Click

\* A new run starts with an empty jar, whatever is still on its way.
LEMMA RunSound ==
    ASSUME AccountInv, NEW c \in Caller, NEW p \in start[c].passwords, Run(c, p)
    PROVE  AccountInv'
<1>1. FlightOK /\ CallersOK /\ CommandsOK
  BY AccountParts
<1>2. c \in Seeds /\ UNCHANGED <<start, tables, flight, sent, faults>>
  BY DEF Run
<1>3. /\ used' \in [Caller -> SUBSET Credentials]
      /\ \A d \in Caller : used[d] \subseteq used'[d]
      /\ Account(c, p) \in used'[c] /\ Account(c, p) \in Credentials
      /\ \A d \in Caller : \A a \in used'[d] : a.email = start[d].email
  BY <1>1, UsedGrows, AccountIs DEF Run
<1>4. TablesOK' /\ Grows
  BY <1>2, <1>3, TablesKept
<1>5. FlightOK'
  BY <1>1, <1>2, <1>4, EntitledStays DEF FlightOK
<1>6. CallersOK'
  BY <1>1, <1>2 DEF CallersOK, Run
<1>7. CommandsOK'
  <2>1. account' \in [Seeds -> Credentials \cup {None}]
    BY <1>1, <1>3 DEF Run, CommandsOK
  <2>2. /\ step' \in [Seeds -> Idle..Ready] /\ home' \in [Seeds -> Id \cup {None}]
        /\ runs' \in [Seeds -> Nat] /\ excuse' \in [Seeds -> BOOLEAN] /\ start' \in Start
    BY <1>1, <1>2 DEF Run, CommandsOK, Idle, Ready, Script
  <2>3. \A d \in Seeds : step'[d] # Idle => account'[d] \in used'[d]
    <3>1. SUFFICES ASSUME NEW d \in Seeds, step'[d] # Idle PROVE account'[d] \in used'[d]
      OBVIOUS
    <3>2. d \in Caller
      BY SeedAssumption
    <3>3. CASE d = c
      BY <1>1, <1>3, <3>3 DEF Run, CommandsOK
    <3>4. CASE d # c
      BY <1>1, <1>3, <3>1, <3>2, <3>4 DEF Run, CommandsOK
    <3> QED BY <3>3, <3>4
  <2> QED BY <1>2, <1>3, <2>1, <2>2, <2>3 DEF CommandsOK
<1>8. AttendedOK'
  <2>1. AttendedOK /\ \A d \in Seeds : d \in Caller
    BY AccountParts, SeedAssumption
  <2>2. \A d \in Seeds : Awaited(d)' = Awaited(d)
    BY <1>2 DEF Awaited
  <2>3. ASSUME NEW d \in Seeds, d # c PROVE Still(d)
    BY <1>1, <1>2, <2>1, <2>2, <2>3 DEF Run, Still, CommandsOK, CallersOK
  <2>4. Awaited(c)' = {}
    <3>1. step[c] \notin 1..Len(Script)
      BY DEF Run, Idle, Failed, Script
    <3> QED BY <1>2, <2>1, <2>2, <3>1 DEF AttendedOK, Attended
  <2> QED BY <2>1, <2>3, <2>4, AttendedStill, NoneAttended DEF AttendedOK
<1> QED BY <1>4, <1>5, <1>6, <1>7, <1>8, AccountPartsNext

-----------------------------------------------------------------------------
(* The invariant.                                                           *)

\* A command, or a browser, reads an answer.
LEMMA DeliverSound ==
    ASSUME AccountInv, NEW c \in Caller, NEW r \in Awaited(c), Deliver(r), UNCHANGED used
    PROVE  /\ TablesOK' /\ FlightOK' /\ CallersOK'
           /\ r \in flight /\ flight' = flight \ {r} /\ r.id[1] = c
           /\ \A d \in Caller \ {c} :
                 Awaited(d)' = Awaited(d) /\ sent'[d] = sent[d] /\ jar'[d] = jar[d]
<1>1. FlightOK /\ CallersOK /\ CommandsOK
  BY AccountParts
<1>2. r \in flight /\ r.awaited /\ r.id[1] = c
  BY AwaitedIs
<1>3. flight' = flight \ {r} /\ UNCHANGED <<tables, sent, faults>>
  BY DEF Deliver
<1>4. TablesOK' /\ Grows
  BY <1>3, TablesKept
<1>5. FlightOK'
  BY <1>1, <1>3, <1>4, EntitledStays DEF FlightOK
<1>6. r.id \in Id /\ jar' = [jar EXCEPT ![c] = Cookie(r)]
  BY <1>1, <1>2 DEF Deliver, FlightOK, Req
<1>7. Cookie(r) \in {r.id, None, jar[c]}
  BY <1>2 DEF Cookie, Token
<1>8. CallersOK'
  BY <1>1, <1>2, <1>3, <1>6, <1>7 DEF CallersOK
<1>9. \A d \in Caller \ {c} : Awaited(d)' = Awaited(d)
  <2>1. SUFFICES ASSUME NEW d \in Caller \ {c} PROVE Awaited(d)' = Awaited(d)
    OBVIOUS
  <2>2. \A x : x \in Awaited(d)' <=> x \in Awaited(d)
    BY <1>2, <1>3, AwaitedIs
  <2> QED BY <2>2 DEF Awaited
<1>10. \A d \in Caller \ {c} : sent'[d] = sent[d] /\ jar'[d] = jar[d]
  BY <1>1, <1>3, <1>6 DEF CallersOK
<1> QED BY <1>2, <1>3, <1>4, <1>5, <1>8, <1>9, <1>10

\* A command takes an answer and its cookie.
LEMMA ReceiveSound ==
    ASSUME AccountInv, NEW c \in Caller, NEW r \in flight, Receive(c, r)
    PROVE  AccountInv'
<1>1. FlightOK /\ CommandsOK /\ AttendedOK
  BY AccountParts
<1>2. /\ c \in Seeds /\ r \in Awaited(c) /\ Deliver(r)
      /\ step' = [step EXCEPT ![c] = AfterAnswer(c, r)]
      /\ home' = [home EXCEPT ![c] = IF r.op = "project" /\ r.code = 201 THEN r.id ELSE @]
      /\ UNCHANGED <<start, account, runs, used, excuse>>
  BY DEF Receive
<1>3. /\ TablesOK' /\ FlightOK' /\ CallersOK'
      /\ flight' = flight \ {r}
      /\ \A d \in Caller \ {c} :
            Awaited(d)' = Awaited(d) /\ sent'[d] = sent[d] /\ jar'[d] = jar[d]
  BY <1>2, DeliverSound
<1>4. step[c] \in 1..7 /\ \A q \in Awaited(c) : q = r
  BY <1>1, <1>2 DEF AttendedOK, Attended, Script
<1>5. AfterAnswer(c, r) \in 0..8
  BY <1>4 DEF AfterAnswer, AfterError, Failed
<1>6. r.id \in Id
  BY <1>1 DEF FlightOK, Req
<1>7. CommandsOK'
  <2>1. /\ step' \in [Seeds -> Idle..Ready] /\ home' \in [Seeds -> Id \cup {None}]
    BY <1>1, <1>2, <1>5, <1>6 DEF CommandsOK, Idle, Ready, Script
  <2>2. \A d \in Seeds : step'[d] # Idle => account'[d] \in used'[d]
    BY <1>1, <1>2, <1>4 DEF CommandsOK, Idle
  <2> QED BY <1>1, <1>2, <2>1, <2>2 DEF CommandsOK
<1>8. AttendedOK'
  <2>1. ASSUME NEW d \in Seeds, d # c PROVE Still(d)
    BY <1>1, <1>2, <1>3, <2>1, SeedAssumption DEF Still, CommandsOK
  <2>2. Awaited(c)' = {}
    BY <1>3, <1>4, AwaitedIs DEF Awaited
  <2> QED BY <1>1, <2>1, <2>2, AttendedStill, NoneAttended DEF AttendedOK
<1> QED BY <1>3, <1>7, <1>8, AccountPartsNext

\* Nobody awaits a request that is given up.
LEMMA GiveUpAwaited ==
    ASSUME AccountInv, NEW c \in Seeds, NEW r \in Awaited(c), GiveUp(r)
    PROVE  \A d \in Seeds : Awaited(d)' = IF d = c THEN {} ELSE Awaited(d)
<1>1. FlightOK /\ AttendedOK
  BY AccountParts
<1>2. r \in flight /\ r.id[1] = c /\ r \in Req /\ \A q \in Awaited(c) : q = r
  BY <1>1, AwaitedIs DEF FlightOK, AttendedOK, Attended
<1>3. PICK q : q = [r EXCEPT !.awaited = FALSE]
  OBVIOUS
<1>4. q.id = r.id /\ ~q.awaited
  BY <1>2, <1>3, MovesUnheard DEF Continues
<1>5. flight' = flight \ {r} \/ flight' = (flight \ {r}) \cup {q}
  BY <1>3 DEF GiveUp, Becomes
<1>6. \A d, x : x \in Awaited(d)' <=> x \in Awaited(d) /\ x # r
  BY <1>4, <1>5, AwaitedIs
<1>7. Awaited(c)' = {}
  BY <1>2, <1>6 DEF Awaited
<1>8. ASSUME NEW d \in Seeds, d # c PROVE Awaited(d)' = Awaited(d)
  <2>1. r \notin Awaited(d)
    BY <1>2, <1>8, AwaitedIs
  <2> QED BY <1>6, <2>1 DEF Awaited
<1> QED BY <1>7, <1>8

\* A command gives a request up; its handler goes on.
LEMMA TimeOutSound ==
    ASSUME AccountInv, NEW c \in Caller, NEW r \in flight, TimeOut(c, r)
    PROVE  AccountInv'
<1>1. CommandsOK /\ AttendedOK
  BY AccountParts
<1>2. /\ c \in Seeds /\ r \in Awaited(c) /\ GiveUp(r)
      /\ step' = [step EXCEPT ![c] = AfterError(c, 0)]
      /\ excuse' = [excuse EXCEPT ![c] = @ \/ Spoils(r)]
      /\ UNCHANGED <<start, account, home, runs, used>>
  BY DEF TimeOut
<1>3. TablesOK' /\ FlightOK' /\ CallersOK'
  BY <1>2, HandlerSound
<1>4. step[c] \in 1..7 /\ \A q \in Awaited(c) : q = r
  BY <1>1, <1>2 DEF AttendedOK, Attended, Script
<1>5. AfterError(c, 0) \in {0, 2}
  BY DEF AfterError, Failed
<1>6. CommandsOK'
  <2>1. step' \in [Seeds -> Idle..Ready]
    BY <1>1, <1>2, <1>5 DEF CommandsOK, Idle, Ready, Script
  <2>2. excuse' \in [Seeds -> BOOLEAN]
    BY <1>1, <1>2 DEF CommandsOK
  <2>3. \A d \in Seeds : step'[d] # Idle => account'[d] \in used'[d]
    BY <1>1, <1>2, <1>4 DEF CommandsOK, Idle
  <2> QED BY <1>1, <1>2, <2>1, <2>2, <2>3 DEF CommandsOK
<1>7. AttendedOK'
  <2>1. \A d \in Seeds : Awaited(d)' = IF d = c THEN {} ELSE Awaited(d)
    BY <1>2, <1>4, GiveUpAwaited
  <2>2. ASSUME NEW d \in Seeds, d # c PROVE Still(d)
    BY <1>1, <1>2, <2>1, <2>2 DEF Still, CommandsOK, GiveUp, callers
  <2> QED BY <1>1, <2>1, <2>2, AttendedStill, NoneAttended DEF AttendedOK
<1> QED BY <1>3, <1>6, <1>7, AccountPartsNext

\* What a handler does leaves the commands where they are.
LEMMA HandlerAttended ==
    ASSUME AccountInv, NEW r \in flight, UNCHANGED <<step, account, home, used>>,
           Proceed(r) \/ Fails(r) \/ Unconfirmed(r) \/ GiveUp(r)
    PROVE  AttendedOK' /\ Grows /\ Onward(r) /\ UNCHANGED callers
<1>1. UNCHANGED tables \/ InsertUser(r) \/ Writes(r)
  BY DEF Proceed, Reads, AuthLimit, Login, Auth, Owner, Registered, Done, Refused,
         Fails, Unconfirmed, GiveUp
<1>2. Grows
  BY <1>1, WriteSound
<1>3. Onward(r)
  BY <1>2, HandlerMoves
<1>4. UNCHANGED callers
  BY DEF Proceed, Reads, AuthLimit, Login, Auth, Owner, Registered, Done, Refused,
         Fails, Unconfirmed, GiveUp
<1>5. AttendedOK
  BY AccountParts
<1>6. AttendedOK'
  BY <1>3, <1>4, <1>5, AttendedOnward DEF AttendedOK, callers
<1> QED BY <1>2, <1>3, <1>4, <1>6

\* A browser takes an answer or gives it up.
LEMMA SeeSound ==
    ASSUME AccountInv, NEW c \in Caller, NEW r \in flight, See(c, r)
    PROVE  AccountInv'
<1>1. CommandsOK /\ AttendedOK
  BY AccountParts
<1>2. c \notin Seeds /\ r \in Awaited(c) /\ (Deliver(r) \/ GiveUp(r)) /\ UNCHANGED seedVars
  BY DEF See
<1>3. CommandsOK' /\ UNCHANGED <<step, account, home, used>>
  BY <1>1, <1>2, CommandsKept DEF seedVars
<1>4. CASE Deliver(r)
  <2>1. /\ TablesOK' /\ FlightOK' /\ CallersOK'
        /\ \A d \in Caller \ {c} :
              Awaited(d)' = Awaited(d) /\ sent'[d] = sent[d] /\ jar'[d] = jar[d]
    BY <1>2, <1>3, <1>4, DeliverSound
  <2>2. \A d \in Seeds : Still(d)
    BY <1>2, <1>3, <2>1, SeedAssumption DEF Still
  <2>3. AttendedOK'
    BY <1>1, <2>2, AttendedStill DEF AttendedOK
  <2> QED BY <1>3, <2>1, <2>3, AccountPartsNext
<1>5. CASE GiveUp(r)
  <2>1. TablesOK' /\ FlightOK' /\ CallersOK' /\ AttendedOK'
    BY <1>3, <1>5, HandlerSound, HandlerAttended
  <2> QED BY <1>3, <2>1, AccountPartsNext
<1> QED BY <1>2, <1>4, <1>5

\* Excuses are Boolean.
LEMMA ExcusedIs ==
    ASSUME CommandsOK, NEW r, Excused(r)
    PROVE  excuse' \in [Seeds -> BOOLEAN]
<1>1. \A c \in Seeds : (excuse[c] \/ (r \in Awaited(c) /\ Spoils(r))) \in BOOLEAN
  OBVIOUS
<1> QED BY <1>1 DEF Excused

\* A handler takes a step, or a statement of it fails.
LEMMA HandleSound ==
    ASSUME AccountInv, NEW r \in flight, Handle(r) \/ Break(r)
    PROVE  AccountInv'
<1>1. CommandsOK
  BY AccountParts
<1>2. /\ UNCHANGED <<start, account, step, home, runs, used>>
      /\ Proceed(r) \/ Fails(r) \/ Unconfirmed(r)
      /\ UNCHANGED excuse \/ Excused(r)
  BY DEF Handle, Break
<1>3. TablesOK' /\ FlightOK' /\ CallersOK' /\ AttendedOK'
  BY <1>2, HandlerSound, HandlerAttended
<1>4. excuse' \in [Seeds -> BOOLEAN]
  BY <1>1, <1>2, ExcusedIs DEF CommandsOK
<1>5. CommandsOK'
  BY <1>1, <1>2, <1>4 DEF CommandsOK
<1> QED BY <1>3, <1>5, AccountPartsNext

\* A session expires.
LEMMA TimePassesSound ==
    ASSUME AccountInv, NEW s \in sessions, TimePasses(s)
    PROVE  AccountInv'
<1>1. TablesOK /\ FlightOK /\ CallersOK /\ CommandsOK /\ AttendedOK
  BY AccountParts
<1>2. /\ sessions' = sessions \ {s} /\ faults' = faults + 1
      /\ UNCHANGED <<users, projects, endpoints, keys, revoked, flight, callers>>
      /\ UNCHANGED <<start, account, step, home, runs, used>>
      /\ excuse' = [c \in Seeds |-> excuse[c] \/ s.token[1] = c]
  BY DEF TimePasses, Expire, Strike
<1>3. Grows
  BY <1>2 DEF Grows
<1>4. RowsStayInTheAccount' /\ \A x \in sessions' : x.user \in Mine(x.token[1])'
  BY <1>2, <1>3, RowsKept DEF RowsStayInTheAccount
<1>5. TablesOK'
  BY <1>1, <1>2, <1>4 DEF TablesOK
<1>6. FlightOK'
  BY <1>1, <1>2, <1>3, EntitledStays DEF FlightOK
<1>7. CallersOK'
  BY <1>1, <1>2 DEF CallersOK, callers
<1>8. CommandsOK'
  <2>1. \A c \in Seeds : (excuse[c] \/ s.token[1] = c) \in BOOLEAN
    OBVIOUS
  <2>2. excuse' \in [Seeds -> BOOLEAN]
    BY <1>2, <2>1
  <2> QED BY <1>1, <1>2, <2>2 DEF CommandsOK
<1>9. AttendedOK'
  <2>1. \A c \in Seeds : Still(c)
    BY <1>2 DEF Still, Awaited, callers
  <2> QED BY <1>1, <2>1, AttendedStill DEF AttendedOK
<1> QED BY <1>5, <1>6, <1>7, <1>8, <1>9, AccountPartsNext

\* Every step keeps the invariant of the accounts.
LEMMA AccountStep == AccountInv /\ [Next]_vars => AccountInv'
<1> SUFFICES ASSUME AccountInv, [Next]_vars PROVE AccountInv'
  OBVIOUS
<1>1. CASE UNCHANGED vars
  <2>1. UNCHANGED accountVars /\ UNCHANGED seedVars
    BY <1>1 DEF vars
  <2>2. /\ UNCHANGED <<users, sessions, projects, endpoints, keys, revoked>>
        /\ UNCHANGED <<flight, jar, sent, faults>>
        /\ UNCHANGED <<start, account, step, home, runs, used, excuse>>
    BY <2>1 DEF accountVars, tables, callers, seedVars
  <2>3. TablesOK /\ FlightOK /\ CallersOK /\ CommandsOK /\ AttendedOK
    BY AccountParts
  <2>4. TablesOK' /\ Grows
    BY <2>2, TablesKept DEF tables
  <2>5. FlightOK'
    BY <2>2, <2>3, <2>4, EntitledStays DEF FlightOK
  <2>6. AttendedOK'
    <3>1. \A c \in Seeds : Still(c)
      BY <2>2 DEF Still, Awaited
    <3> QED BY <2>3, <3>1, AttendedStill DEF AttendedOK
  <2>7. CallersOK' /\ CommandsOK'
    BY <2>1, <2>2, <2>3, CommandsKept DEF CallersOK
  <2> QED BY <2>4, <2>5, <2>6, <2>7, AccountPartsNext
<1>2. ASSUME NEW c \in Caller, CallOut(c) PROVE AccountInv'
  BY <1>2, CallOutSound
<1>3. ASSUME NEW c \in Caller, Browse(c) PROVE AccountInv'
  <2>1. c \in Caller \ Seeds /\ (Click(c) \/ \E p \in start[c].passwords : SignIn(c, p))
    BY <1>3 DEF Browse
  <2> QED BY <2>1, ClickSound, SignInSound
<1>4. ASSUME NEW c \in Caller, NEW p \in start[c].passwords, Run(c, p) PROVE AccountInv'
  BY <1>4, RunSound
<1>5. ASSUME NEW c \in Caller, NEW r \in flight, Receive(c, r) PROVE AccountInv'
  BY <1>5, ReceiveSound
<1>6. ASSUME NEW c \in Caller, NEW r \in flight, TimeOut(c, r) PROVE AccountInv'
  BY <1>6, TimeOutSound
<1>7. ASSUME NEW c \in Caller, NEW r \in flight, See(c, r) PROVE AccountInv'
  BY <1>7, SeeSound
<1>8. ASSUME NEW r \in flight, Handle(r) \/ Break(r) PROVE AccountInv'
  BY <1>8, HandleSound
<1>9. ASSUME NEW s \in sessions, TimePasses(s) PROVE AccountInv'
  BY <1>9, TimePassesSound
<1> QED BY <1>1, <1>2, <1>3, <1>4, <1>5, <1>6, <1>7, <1>8, <1>9 DEF Next

\* There are no accounts and no requests yet.
LEMMA AccountInit == Init => AccountInv
<1> SUFFICES ASSUME Init PROVE AccountInv
  OBVIOUS
<1>1. AccountsInit
  BY DEF Init
<1>2. TablesOK
  BY <1>1 DEF AccountsInit, TablesOK, RowsStayInTheAccount
<1>3. FlightOK
  BY <1>1 DEF AccountsInit, FlightOK
<1>4. CallersOK
  BY <1>1 DEF AccountsInit, CallersOK
<1>5. CommandsOK
  BY DEF Init, CommandsOK, Idle, Ready, Script
<1>6. AttendedOK
  BY <1>1 DEF AccountsInit, AttendedOK, Attended, Awaited
<1> QED BY <1>2, <1>3, <1>4, <1>5, <1>6, AccountParts

\* The invariant of the accounts and of the requests to them: a session, a
\* handler past auth or owner, and a cookie speak for an account whose
\* password their caller has presented, and a command awaits one request.
THEOREM AccountInvariant == Spec => []AccountInv
<1> QED BY AccountInit, AccountStep, PTL DEF Spec

\* Owner-scoped projects: whatever a caller makes or revokes belongs to an
\* account whose password it has presented, for any number of callers,
\* accounts, sessions and failures.
THEOREM RowsStay == Spec => []RowsStayInTheAccount
<1>1. AccountInv => RowsStayInTheAccount
  BY DEF AccountInv
<1> QED BY <1>1, AccountInvariant, PTL

-----------------------------------------------------------------------------
(* The course of a command.                                                 *)

\* What a step of somebody else leaves to a command: everything but sessions,
\* and these too unless there is an excuse.
Kept(c) ==
    /\ \A e \in Email : users[e] # None => users'[e] = users[e]
    /\ projects \subseteq projects' /\ endpoints \subseteq endpoints' /\ keys \subseteq keys'
    /\ excuse[c] => excuse'[c]
    /\ \/ excuse'[c]
       \/ \A s \in sessions : s.token[1] = c => s \in sessions'

\* A command stays where it is.
Stays(c) ==
    step'[c] = step[c] /\ account'[c] = account[c] /\ home'[c] = home[c] /\ jar'[c] = jar[c]

\* A command that has been run has an address and a password.
LEMMA MailIs ==
    ASSUME CommandsOK, NEW c \in Seeds, step[c] # Idle
    PROVE  /\ account[c] \in Credentials /\ account[c] \in used[c] /\ c \in Caller
           /\ Mail(c) \in Email /\ account[c].password # None
<1>1. account[c] \in used[c] /\ c \in Caller
  BY SeedAssumption DEF CommandsOK
<1>2. account[c] \in Credentials
  BY <1>1 DEF CommandsOK
<1> QED BY <1>1, <1>2, EmailOf DEF Mail

\* All passwords of a caller are for one account.
LEMMA MineIsMail ==
    ASSUME CommandsOK, NEW c \in Seeds, step[c] # Idle, NEW e \in Mine(c)
    PROVE  e = Mail(c)
<1>1. account[c] \in used[c] /\ c \in Caller
  BY MailIs
<1>2. PICK a \in used[c] : e = Canonical[a.email]
  BY MineIs
<1>3. a.email = account[c].email
  BY <1>1, <1>2 DEF CommandsOK
<1> QED BY <1>2, <1>3 DEF Mail

\* Projects stay with their owner.
LEMMA OwnedGrows ==
    ASSUME projects \subseteq projects', NEW e, NEW p \in Owned(e)
    PROVE  p \in Owned(e)'
BY DEF Owned

\* A session ends only with an excuse for the command that has it.
LEMMA SessionKept ==
    ASSUME TablesOK, NEW c, Kept(c), NEW t, t # None => t[1] = c,
           excuse[c] \/ HasSession(t)
    PROVE  excuse'[c] \/ HasSession(t)'
<1>1. CASE excuse[c]
  BY <1>1 DEF Kept
<1>2. CASE HasSession(t) /\ ~excuse'[c]
  <2>1. PICK s \in sessions : s.token = t
    BY <1>2 DEF HasSession
  <2>2. s.token \in Id
    BY <2>1 DEF TablesOK
  <2>3. t # None
    BY <2>1, <2>2, AccountsAssumption DEF Id
  <2>4. s \in sessions'
    BY <1>2, <2>1, <2>3 DEF Kept
  <2> QED BY <2>1, <2>4 DEF HasSession
<1> QED BY <1>1, <1>2

\* A password that will never do does not become right, nor a right one wrong.
LEMMA BarredKept ==
    ASSUME NEW c, Kept(c), account'[c] = account[c], Mail(c) \in Email
    PROVE  /\ Mail(c)' = Mail(c)
           /\ Barred(c) => Barred(c)'
           /\ users[Mail(c)] # None => users'[Mail(c)] = users[Mail(c)]
<1>1. Mail(c)' = Mail(c)
  BY DEF Mail
<1>2. users[Mail(c)] # None => users'[Mail(c)] = users[Mail(c)]
  BY DEF Kept
<1> QED BY <1>1, <1>2 DEF Barred

\* What a command has reached is not undone by others.
LEMMA PlacedKept ==
    ASSUME AccountInv, NEW c \in Seeds, Placed(c), Kept(c), Stays(c)
    PROVE  Placed(c)'
<1>1. TablesOK /\ CallersOK /\ CommandsOK
  BY AccountParts
<1>2. CASE step[c] = Idle
  BY <1>2 DEF Placed, Stays, Idle, Failed
<1>3. CASE step[c] # Idle
  <2>1. Mail(c) \in Email /\ account[c].password # None /\ c \in Caller
    BY <1>1, <1>3, MailIs
  <2>2. /\ Mail(c)' = Mail(c) /\ (Barred(c) => Barred(c)')
        /\ users[Mail(c)] # None => users'[Mail(c)] = users[Mail(c)]
    BY <2>1, BarredKept DEF Stays
  <2>3. jar[c] # None => jar[c][1] = c
    BY <1>1, <2>1 DEF CallersOK
  <2>4. excuse[c] \/ HasSession(jar[c]) => excuse'[c] \/ HasSession(jar[c])'
    BY <1>1, <2>3, SessionKept DEF Stays
  <2>5. home[c] \in Owned(Mail(c)) => home'[c] \in Owned(Mail(c))'
    BY <2>2, OwnedGrows DEF Kept, Stays
  <2>6. excuse[c] => excuse'[c]
    BY DEF Kept
  <2>7. step'[c] = Failed => excuse'[c] \/ Barred(c)'
    BY <2>2, <2>6 DEF Placed, Stays
  <2>8. step'[c] = 2 => excuse'[c] \/ users'[Mail(c)'] # None \/ account'[c].password \in Weak
    BY <2>2, <2>6 DEF Placed, Stays
  <2>9. step'[c] >= 3 => /\ users'[Mail(c)'] = account'[c].password
                         /\ excuse'[c] \/ HasSession(jar[c])'
    BY <2>1, <2>2, <2>4 DEF Placed, Stays
  <2> QED BY <2>5, <2>7, <2>8, <2>9 DEF Placed, Stays
<1> QED BY <1>2, <1>3

\* What an answer tells stays true until the command hears it.
LEMMA TellsKept ==
    ASSUME AccountInv, NEW c \in Seeds, NEW r \in Awaited(c), Tells(c, r), Kept(c), Stays(c)
    PROVE  Tells(c, r)'
<1>1. TablesOK /\ CommandsOK /\ FlightOK /\ AttendedOK
  BY AccountParts
<1>2. r \in flight /\ r.id[1] = c /\ step[c] # Idle
  BY <1>1, AwaitedIs DEF AttendedOK, Attended, Idle, Script
<1>3. Mail(c) \in Email /\ account[c].password # None
  BY <1>1, <1>2, MailIs
<1>4. /\ Mail(c)' = Mail(c) /\ (Barred(c) => Barred(c)')
      /\ users[Mail(c)] # None => users'[Mail(c)] = users[Mail(c)]
  BY <1>3, BarredKept DEF Stays
<1>5. excuse[c] \/ HasSession(r.id) => excuse'[c] \/ HasSession(r.id)'
  BY <1>1, <1>2, SessionKept
<1>6. r.id \in Owned(Mail(c)) => r.id \in Owned(Mail(c))'
  BY <1>4, OwnedGrows DEF Kept
<1>7. users[Mail(c)] = account[c].password => users'[Mail(c)'] = account'[c].password
  BY <1>3, <1>4 DEF Stays
<1>8. Stored(c, r) => Stored(c, r)'
  <2>1. SUFFICES ASSUME Stored(c, r) PROVE Stored(c, r)'
    OBVIOUS
  <2>2. r.op \in Signing => /\ users'[Mail(c)'] = account'[c].password
                            /\ excuse'[c] \/ HasSession(r.id)'
    BY <1>5, <1>7, <2>1 DEF Stored
  <2>3. r.op = "project" => r.id \in Owned(Mail(c))'
    BY <1>6, <2>1 DEF Stored
  <2>4. r.op = "endpoint" => [id |-> r.id, project |-> home'[c], kind |-> step'[c]] \in endpoints'
    BY <2>1 DEF Stored, Kept, Stays
  <2>5. r.op = "key" => [id |-> r.id, project |-> home'[c]] \in keys'
    BY <2>1 DEF Stored, Kept, Stays
  <2> QED BY <2>2, <2>3, <2>4, <2>5 DEF Stored
<1>9. Blocked(c, r) => Blocked(c, r)'
  BY <1>4 DEF Blocked, Kept, Stays
<1> QED BY <1>7, <1>8, <1>9 DEF Tells, Success

\* The request of each step.
LEMMA ScriptIs ==
    ASSUME NEW n \in 1..Len(Script)
    PROVE  /\ Script[n] \in {"register", "login", "project", "endpoint", "key"} /\ n \in 1..7
           /\ Script[n] = "register" <=> n = 1
           /\ Script[n] = "login" <=> n = 2
           /\ Script[n] = "project" <=> n = 3
           /\ Script[n] = "endpoint" <=> n \in 4..6
           /\ Script[n] = "key" <=> n = 7
           /\ Script[n] \in Signing <=> n \in {1, 2}
           /\ Script[n] \in InProject <=> n \in 4..7
<1>1. n \in 1..7
  BY DEF Script
<1> QED BY <1>1 DEF Script, Signing, InProject

\* The one request that a command awaits.
Asked(c, r) ==
    /\ r \in flight /\ r \in Req /\ r.awaited /\ r.id = <<c, sent[c]>> /\ r.id[1] = c
    /\ step[c] \in 1..Len(Script) /\ step[c] \in 1..7 /\ step[c] # Idle
    /\ r.op = Script[step[c]] /\ r.cookie = jar[c]
    /\ r.good \/ (step[c] = 1 /\ account[c].password \in Weak)
    /\ r.op \in Signing => r.body = account[c]
    /\ r.op = "endpoint" => r.body = [project |-> home[c], kind |-> step[c]]
    /\ r.op = "key" => r.body = [project |-> home[c]]
    /\ \A q \in Awaited(c) : q = r

\* What Attended says of the request that a command waits for.
LEMMA AwaitedRequest ==
    ASSUME AccountInv, NEW c \in Seeds, NEW r \in Awaited(c)
    PROVE  Asked(c, r)
<1>1. FlightOK /\ AttendedOK
  BY AccountParts
<1>2. r \in flight /\ r.awaited /\ r.id[1] = c /\ r \in Req
  BY <1>1, AwaitedIs DEF FlightOK
<1>3. /\ \A q \in Awaited(c) : q = r
      /\ step[c] \in 1..Len(Script)
      /\ r.op = Script[step[c]] /\ r.body = Body(c)
      /\ r.good \/ (r.op = "register" /\ account[c].password \in Weak)
      /\ r.cookie = jar[c] /\ r.id = <<c, sent[c]>>
  BY <1>1 DEF AttendedOK, Attended
<1>4. step[c] \in 1..7 /\ step[c] # Idle
  BY <1>3 DEF Script, Idle
<1>5. r.op = "register" => step[c] = 1
  BY <1>3, ScriptIs
<1>6. /\ r.op \in Signing => r.body = account[c]
      /\ r.op = "endpoint" => r.body = [project |-> home[c], kind |-> step[c]]
      /\ r.op = "key" => r.body = [project |-> home[c]]
  BY <1>3 DEF Body, Signing
<1> QED BY <1>2, <1>3, <1>4, <1>5, <1>6 DEF Asked

\* The request of a command that its handler moves on is the one awaited then.
LEMMA MovedOn ==
    ASSUME AccountInv, NEW c \in Seeds, NEW r \in Awaited(c), NEW q, Becomes(r, q),
           NEW x \in Awaited(c)'
    PROVE  x = q
<1>1. \A y \in Awaited(c) : y = r
  <2>1. Asked(c, r)
    BY AwaitedRequest
  <2> QED BY <2>1 DEF Asked
<1> QED BY <1>1, AwaitedIs DEF Becomes

\* An answer tells the truth if its code does.
LEMMA AnswerTells ==
    ASSUME AccountInv, NEW c \in Seeds, NEW r \in Awaited(c), NEW code \in Nat,
           Answer(r, code), NEW x \in Awaited(c)',
           code < 300 => code = Success(r) /\ Stored(c, r)',
           code >= 300 => Blocked(c, r)'
    PROVE  Tells(c, x)'
<1>1. r \in Req /\ r.awaited
  <2>1. Asked(c, r)
    BY AwaitedRequest
  <2> QED BY <2>1 DEF Asked
<1>2. x = Answered(r, code)
  BY <1>1, MovedOn DEF Answer, Answered
<1>3. x.pc = "answered" /\ x.code = code /\ Continues(r, x)
  BY <1>1, <1>2, MovesToAnswer
<1>4. x.id = r.id /\ x.op = r.op
  BY <1>3 DEF Continues
<1>5. Success(x) = Success(r)
  BY <1>4 DEF Success
<1>6. (Stored(c, r)' => Stored(c, x)') /\ (Blocked(c, r)' => Blocked(c, x)')
  BY <1>4 DEF Stored, Blocked
<1> QED BY <1>3, <1>5, <1>6 DEF Tells

\* A handler that has found its user tells the truth if the password is right.
LEMMA KnownTells ==
    ASSUME AccountInv, NEW c \in Seeds, NEW r \in Awaited(c), NEW u \in Email \cup {None},
           Becomes(r, [r EXCEPT !.user = u, !.pc = "known"]), NEW x \in Awaited(c)',
           r.op \in Signing => (users[Mail(c)] = account[c].password)'
    PROVE  Tells(c, x)'
<1>1. r \in Req
  <2>1. Asked(c, r)
    BY AwaitedRequest
  <2> QED BY <2>1 DEF Asked
<1>2. x = Known(r, u)
  BY MovedOn DEF Known
<1>3. x.pc = "known" /\ x.op = r.op
  BY <1>1, <1>2, MovesToKnown DEF Continues
<1> QED BY <1>3 DEF Tells

\* A handler that goes on without an answer tells nothing yet.
LEMMA GotoTells ==
    ASSUME AccountInv, NEW c \in Seeds, NEW r \in Awaited(c), NEW l \in {"let in", "owned"},
           Goto(r, l), NEW x \in Awaited(c)'
    PROVE  Tells(c, x)' /\ x = [r EXCEPT !.pc = l]
<1>1. r \in Req
  <2>1. Asked(c, r)
    BY AwaitedRequest
  <2> QED BY <2>1 DEF Asked
<1>2. x = [r EXCEPT !.pc = l]
  BY MovedOn DEF Goto
<1>3. x.pc = l
  BY <1>1, <1>2, MovesTo
<1> QED BY <1>2, <1>3 DEF Tells

\* The sessions of a command end only with time.
LEMMA HandlerKeeps ==
    ASSUME AccountInv, Aged, NEW r \in flight, NEW c \in Seeds, UNCHANGED used,
           UNCHANGED tables \/ InsertUser(r) \/ Writes(r), excuse[c] => excuse'[c]
    PROVE  Kept(c)
<1>1. TablesOK /\ FlightOK
  BY AccountParts
<1>2. Grows
  BY WriteSound
<1>3. endpoints \subseteq endpoints' /\ keys \subseteq keys'
  BY DEF tables, InsertUser, Writes, InsertSession, DeleteSession, InsertProject,
         InsertEndpoint, InsertKey, UpdateKey
<1>4. ASSUME NEW s \in sessions, s.token[1] = c PROVE s \in sessions'
  <2>1. CASE DeleteSession(r)
    <3>1. r.op = "logout" /\ sessions' = {x \in sessions : x.token # r.cookie}
      BY <2>1 DEF DeleteSession, At
    <3>2. r.id[1] \notin Seeds
      BY <3>1 DEF Aged, AgedRequest
    <3>3. s.token # r.cookie
      <4>1. s.token \in Id /\ s.token # None
        BY <1>1, AccountsAssumption DEF TablesOK, Id
      <4>2. r.cookie # None => r.cookie[1] = r.id[1]
        BY <1>1 DEF FlightOK, Entitled
      <4> QED BY <1>4, <3>2, <4>1, <4>2
    <3> QED BY <3>1, <3>3
  <2>2. CASE ~DeleteSession(r)
    <3>1. sessions \subseteq sessions'
      BY <2>2 DEF tables, InsertUser, Writes, InsertSession, InsertProject,
                  InsertEndpoint, InsertKey, UpdateKey
    <3> QED BY <3>1
  <2> QED BY <2>1, <2>2
<1> QED BY <1>2, <1>3, <1>4 DEF Kept, Grows

\* What Excused says of the command that awaits the request.
LEMMA ExcusedOrRegistered ==
    ASSUME AccountInv, NEW c \in Seeds, NEW r \in Awaited(c), Excused(r), Stays(c)
    PROVE  Blocked(c, r)' /\ (excuse[c] => excuse'[c])
<1>1. excuse'[c] <=> excuse[c] \/ Spoils(r)
  BY DEF Excused
<1>2. CASE Spoils(r)
  BY <1>1, <1>2 DEF Blocked
<1>3. CASE ~Spoils(r)
  <2>1. r.op = "register" /\ users'[Canonical[r.body.email]] # None
    BY <1>3 DEF Spoils
  <2>2. r.body = account[c]
    <3>1. Asked(c, r)
      BY AwaitedRequest
    <3> QED BY <2>1, <3>1 DEF Asked, Signing
  <2>3. users'[Mail(c)'] # None
    BY <2>1, <2>2 DEF Mail, Stays
  <2> QED BY <1>1, <2>1, <2>3 DEF Blocked
<1> QED BY <1>2, <1>3

\* A failed statement is an excuse, or the account is there already.
LEMMA BreakTells ==
    ASSUME AccountInv, NEW c \in Seeds, NEW r \in Awaited(c), Break(r), NEW x \in Awaited(c)'
    PROVE  Tells(c, x)'
<1>1. Stays(c)
  BY DEF Break, Fails, Unconfirmed, callers, Stays
<1>2. Blocked(c, r)'
  BY <1>1, ExcusedOrRegistered DEF Break
<1>3. FailureCode(r) \in Nat /\ FailureCode(r) >= 300
  BY DEF FailureCode
<1>4. CASE Fails(r)
  <2>1. Answer(r, FailureCode(r))
    BY <1>4 DEF Fails
  <2>2. PICK code \in Nat : code = FailureCode(r) /\ code >= 300
    BY <1>3
  <2> QED BY <1>2, <2>1, <2>2, AnswerTells
<1>5. CASE Unconfirmed(r)
  <2>1. Answer(r, 500)
    BY <1>5 DEF Unconfirmed
  <2> QED BY <1>2, <2>1, AnswerTells
<1> QED BY <1>4, <1>5 DEF Break

\* Handler by handler: what each answer to a command means.
LEMMA HandleTells ==
    ASSUME AccountInv, NEW c \in Seeds, NEW r \in Awaited(c), Handle(r), NEW x \in Awaited(c)',
           Placed(c), Tells(c, r)
    PROVE  Tells(c, x)'
<1>1. TablesOK /\ FlightOK /\ CommandsOK
  BY AccountParts
<1>2. /\ r \in flight /\ r \in Req /\ r.awaited /\ r.id[1] = c
      /\ step[c] \in 1..Len(Script) /\ step[c] \in 1..7 /\ step[c] # Idle
      /\ r.op = Script[step[c]] /\ r.cookie = jar[c]
      /\ r.good \/ (step[c] = 1 /\ account[c].password \in Weak)
      /\ r.op \in Signing => r.body = account[c]
  <2>1. Asked(c, r)
    BY AwaitedRequest
  <2> QED BY <2>1 DEF Asked
<1>3. /\ r.op \in {"register", "login", "project", "endpoint", "key"}
      /\ r.op = "register" <=> step[c] = 1
      /\ r.op = "login" <=> step[c] = 2
      /\ r.op \notin Signing => step[c] >= 3
      /\ r.op \in InProject => step[c] >= 4
  BY <1>2, ScriptIs
<1>4. Stays(c) /\ UNCHANGED <<account, step, home, jar>>
  BY DEF Handle, Proceed, Reads, AuthLimit, Login, Auth, Owner, Registered, Done, Refused,
         callers, Stays
<1>5. Mail(c)' = Mail(c) /\ (r.op \in Signing => Canonical[r.body.email] = Mail(c))
  BY <1>2, <1>4 DEF Mail
<1>6. /\ Mail(c) \in Email /\ account[c].password # None /\ r.user \in Email \cup {None}
      /\ r.pc \in {"known", "owned"} => r.user = Mail(c)
  <2>1. Mail(c) \in Email /\ account[c].password # None
    BY <1>1, <1>2, MailIs
  <2>2. r.pc \in {"known", "owned"} => r.user \in Mine(c)
    BY <1>1, <1>2 DEF FlightOK, Entitled
  <2>3. r.user \in Email \cup {None}
    BY <1>2 DEF Req
  <2> QED BY <1>1, <1>2, <2>1, <2>2, <2>3, MineIsMail
<1>7. CASE AuthLimit(r)
  <2>1. CASE Goto(r, "let in")
    BY <2>1, GotoTells
  <2>2. CASE ~Goto(r, "let in")
    <3>1. r.op \in Signing /\ r.pc = "arrived" /\ \E code \in {429, 503} : Answer(r, code)
      BY <1>7, <2>2 DEF AuthLimit, At
    <3>2. PICK code \in {429, 503} : Answer(r, code)
      BY <3>1
    <3>3. [r EXCEPT !.pc = "let in"] \notin flight'
      <4>1. PICK q : q = [r EXCEPT !.pc = "let in"]
        OBVIOUS
      <4>2. q.pc = "let in" /\ q.awaited /\ q.id = r.id
        BY <1>2, <4>1 DEF Req
      <4>3. q # Answered(r, code)
        <5>1. Answered(r, code).pc = "answered"
          BY <1>2, MovesToAnswer
        <5> QED BY <4>2, <5>1
      <4>4. q \notin flight
        <5>1. q # r
          <6>1. r.pc = "arrived"
            BY <3>1
          <6> QED BY <4>2, <6>1
        <5>2. \A y \in Awaited(c) : y = r
          <6>1. Asked(c, r)
            BY AwaitedRequest
          <6> QED BY <6>1 DEF Asked
        <5>3. q \notin Awaited(c)
          BY <5>1, <5>2
        <5> QED BY <1>2, <4>2, <5>3, AwaitedIs
      <4>5. flight' = (flight \ {r}) \cup {Answered(r, code)}
        BY <1>2, <3>2 DEF Answer, Becomes, Answered
      <4>6. q \notin flight'
        BY <4>3, <4>4, <4>5
      <4> QED BY <4>1, <4>6
    <3>4. Excused(r)
      <4>1. r.op \in Signing /\ r.pc = "arrived"
        BY <3>1
      <4> QED BY <3>3, <4>1 DEF Handle
    <3>5. Blocked(c, r)'
      BY <1>4, <3>4, ExcusedOrRegistered
    <3> QED BY <3>2, <3>5, AnswerTells
  <2> QED BY <2>1, <2>2
<1>8. CASE ~AuthLimit(r)
  <2>1. ~(r.pc = "arrived" /\ r.op \in Signing)
    <3>1. Login(r) \/ Auth(r) \/ Owner(r) \/ Registered(r) \/ Done(r) \/ Refused(r)
      BY <1>8 DEF Handle, Proceed, Reads
    <3>2. CASE Login(r) \/ Auth(r) \/ Owner(r) \/ Registered(r)
      BY <3>2 DEF Login, Auth, Owner, Registered, InsertUser, At, Signing, InProject
    <3>3. CASE Refused(r)
      BY <3>3 DEF Refused, InsertUser, At, Signing
    <3>4. CASE Done(r)
      BY <3>4 DEF Done, Writes, InsertSession, DeleteSession, InsertProject,
                  InsertEndpoint, InsertKey, UpdateKey, At, Signing, InProject
    <3> QED BY <3>1, <3>2, <3>3, <3>4
  <2>2. UNCHANGED excuse /\ Proceed(r)
    BY <2>1 DEF Handle
  <2>3. CASE Login(r)
    <3>1. r.op = "login" /\ step[c] = 2 /\ r.op \in Signing /\ UNCHANGED tables /\ r.good
      BY <1>2, <1>3, <2>3 DEF Login, At, Signing
    <3>2. Lookup(r) <=> users[Mail(c)] = account[c].password
      BY <1>2, <1>5, <3>1 DEF Lookup
    <3>3. CASE Lookup(r)
      <4>1. Becomes(r, [r EXCEPT !.user = Mail(c), !.pc = "known"])
        BY <1>5, <2>3, <3>1, <3>3 DEF Login
      <4>2. (users[Mail(c)] = account[c].password)'
        BY <1>4, <1>5, <3>1, <3>2, <3>3 DEF tables
      <4> QED BY <1>6, <4>1, <4>2, KnownTells
    <3>4. CASE ~Lookup(r)
      <4>1. Answer(r, 401)
        BY <2>3, <3>1, <3>4 DEF Login
      <4>2. excuse[c] \/ Barred(c)
        BY <3>1, <3>2, <3>4 DEF Placed, Barred
      <4>3. excuse'[c] \/ Barred(c)'
        BY <1>4, <1>5, <2>2, <3>1, <4>2 DEF Barred, tables
      <4>4. Blocked(c, r)'
        BY <3>1, <4>3 DEF Blocked
      <4> QED BY <4>1, <4>4, AnswerTells
    <3> QED BY <3>3, <3>4
  <2>4. CASE Auth(r)
    <3>1. r.op \notin Signing /\ step[c] >= 3 /\ UNCHANGED tables
      BY <1>3, <2>4 DEF Auth
    <3>2. CASE \E s \in sessions :
                 s.token = r.cookie /\ Becomes(r, [r EXCEPT !.user = s.user, !.pc = "known"])
      <4>1. PICK s \in sessions :
                 s.token = r.cookie /\ Becomes(r, [r EXCEPT !.user = s.user, !.pc = "known"])
        BY <3>2
      <4>2. s.user \in Email \cup {None}
        BY <1>1 DEF TablesOK
      <4> QED BY <3>1, <4>1, <4>2, KnownTells
    <3>3. CASE Answer(r, 401) /\ \A s \in sessions : s.token # r.cookie
      <4>1. excuse'[c]
        BY <1>2, <2>2, <3>1, <3>3 DEF Placed, HasSession
      <4>2. Blocked(c, r)'
        BY <4>1 DEF Blocked
      <4> QED BY <3>3, <4>2, AnswerTells
    <3> QED BY <2>4, <3>2, <3>3 DEF Auth
  <2>5. CASE Owner(r)
    <3>1. r.op \in InProject /\ r.pc = "known" /\ step[c] >= 4
      BY <1>3, <2>5 DEF Owner, At
    <3>2. r.body.project = home[c]
      <4>1. Asked(c, r)
        BY AwaitedRequest
      <4> QED BY <3>1, <4>1 DEF Asked, InProject
    <3>3. home[c] \in Owned(r.user)
      BY <1>6, <3>1 DEF Placed
    <3>4. r.good
      BY <1>2, <3>1
    <3>5. Goto(r, "owned")
      BY <2>5, <3>2, <3>3, <3>4 DEF Owner
    <3> QED BY <3>5, GotoTells
  <2>6. CASE Registered(r)
    <3>1. /\ r.op \in Signing /\ Becomes(r, [r EXCEPT !.user = Mail(c), !.pc = "known"])
          /\ users' = [users EXCEPT ![Mail(c)] = account[c].password]
      BY <1>2, <1>5, <2>6 DEF Registered, InsertUser, At, Signing
    <3>2. (users[Mail(c)] = account[c].password)'
      BY <1>1, <1>4, <1>5, <1>6, <3>1 DEF TablesOK
    <3> QED BY <1>6, <3>1, <3>2, KnownTells
  <2>7. CASE Refused(r)
    <3>1. CASE r.op = "register"
      <4>1. \/ ~r.good /\ Answer(r, 400)
            \/ users[Mail(c)] # None /\ Answer(r, 409)
        <5>1. r.op \in Signing
          BY <3>1 DEF Signing
        <5>2. r.op # "project" /\ r.op # "revoke"
          BY <3>1
        <5>3. \/ ~r.good /\ Answer(r, 400)
              \/ users[Canonical[r.body.email]] # None /\ Answer(r, 409)
          BY <2>7, <5>2, Zenon DEF Refused, At
        <5> QED BY <1>5, <5>1, <5>3
      <4>2. UNCHANGED tables
        BY <2>7 DEF Refused
      <4>3. Blocked(c, r)'
        BY <1>2, <1>4, <1>5, <3>1, <4>1, <4>2 DEF Blocked, tables
      <4> QED BY <4>1, <4>3, AnswerTells
    <3>2. CASE r.op # "register"
      <4>1. r.good /\ r.op # "revoke"
        BY <1>2, <1>3, <3>2
      <4> QED BY <2>7, <3>2, <4>1 DEF Refused, At
    <3> QED BY <3>1, <3>2
  <2>8. CASE Done(r)
    <3>1. Writes(r) /\ Answer(r, Success(r))
      BY <2>8 DEF Done
    <3>2. Success(r) \in Nat /\ Success(r) < 300
      BY DEF Success
    <3>3. Stored(c, r)'
      <4>1. Asked(c, r)
        BY AwaitedRequest
      <4>2. CASE InsertSession(r)
        <5>1. /\ r.op \in Signing /\ r.pc = "known" /\ UNCHANGED users
              /\ sessions' = sessions \cup {[token |-> r.id, user |-> r.user]}
          BY <4>2 DEF InsertSession, At, Token
        <5>2. (users[Mail(c)] = account[c].password)'
          BY <1>4, <1>5, <5>1 DEF Tells
        <5>3. HasSession(r.id)'
          <6>1. PICK s : s = [token |-> r.id, user |-> r.user]
            OBVIOUS
          <6>2. s \in sessions' /\ s.token = r.id
            BY <5>1, <6>1
          <6> QED BY <6>2 DEF HasSession
        <5> QED BY <5>1, <5>2, <5>3 DEF Stored, Signing
      <4>3. CASE InsertProject(r)
        <5>1. /\ r.op = "project" /\ r.pc = "known"
              /\ projects' = projects \cup {[id |-> r.id, owner |-> r.user]}
          BY <4>3 DEF InsertProject, At, Token
        <5>2. r.id \in Owned(Mail(c))'
          <6>1. PICK p : p = [id |-> r.id, owner |-> r.user]
            OBVIOUS
          <6>2. p \in projects' /\ p.id = r.id /\ p.owner = Mail(c)
            BY <1>6, <5>1, <6>1
          <6> QED BY <1>5, <6>2 DEF Owned
        <5> QED BY <5>1, <5>2 DEF Stored, Signing
      <4>4. CASE InsertEndpoint(r)
        <5>1. r.op = "endpoint" /\ endpoints' = endpoints \cup
                {[id |-> r.id, project |-> r.body.project, kind |-> r.body.kind]}
          BY <4>4 DEF InsertEndpoint, At, Token
        <5>2. r.body.project = home'[c] /\ r.body.kind = step'[c]
          BY <1>4, <4>1, <5>1 DEF Asked
        <5> QED BY <5>1, <5>2 DEF Stored, Signing
      <4>5. CASE InsertKey(r)
        <5>1. r.op = "key" /\ keys' = keys \cup {[id |-> r.id, project |-> r.body.project]}
          BY <4>5 DEF InsertKey, At, Token
        <5>2. r.body.project = home'[c]
          BY <1>4, <4>1, <5>1 DEF Asked
        <5> QED BY <5>1, <5>2 DEF Stored, Signing
      <4>6. ~DeleteSession(r) /\ ~UpdateKey(r)
        BY <1>3 DEF DeleteSession, UpdateKey, At
      <4> QED BY <3>1, <4>2, <4>3, <4>4, <4>5, <4>6 DEF Writes
    <3>4. PICK code \in Nat : code = Success(r) /\ code < 300
      BY <3>2
    <3> QED BY <3>1, <3>3, <3>4, AnswerTells
  <2> QED BY <1>8, <2>2, <2>3, <2>4, <2>5, <2>6, <2>7, <2>8 DEF Proceed, Reads
<1> QED BY <1>7, <1>8

-----------------------------------------------------------------------------
(* Ages.                                                                    *)

\* Ids only grow, so what was older stays older.
LEMMA OlderStays ==
    ASSUME CallersOK, NEW p, NEW id \in Id, Older(p, id),
           \A c \in Caller : sent'[c] \in Nat /\ sent[c] <= sent'[c]
    PROVE  Older(p, id)'
<1>1. id[1] \in Caller /\ id[2] \in Nat
  BY DEF Id
<1>2. sent[id[1]] \in Nat
  BY <1>1 DEF CallersOK
<1> QED BY <1>1, <1>2 DEF Older

\* The same of the request of a command.
LEMMA AgedRequestStays ==
    ASSUME CallersOK, NEW r \in Req, AgedRequest(r),
           \A c \in Caller : sent'[c] \in Nat /\ sent[c] <= sent'[c]
    PROVE  AgedRequest(r)'
<1>1. r.id \in Id /\ r.id[1] \in Caller /\ r.id[2] \in Nat
  BY DEF Req, Id
<1>2. sent[r.id[1]] \in Nat
  BY <1>1 DEF CallersOK
<1>3. r.id[2] <= sent'[r.id[1]]
  BY <1>1, <1>2 DEF AgedRequest
<1>4. Older(r.body.project, r.id) => Older(r.body.project, r.id)'
  BY <1>1, OlderStays
<1> QED BY <1>3, <1>4 DEF AgedRequest

\* A step that sends nothing and makes no endpoint, or sends one request.
LEMMA AgedCaller ==
    ASSUME AccountInv, Aged, NEW q, flight' \subseteq flight \cup {q},
           q \in flight \/ AgedRequest(q)',
           \A c \in Caller : sent'[c] \in Nat /\ sent[c] <= sent'[c], UNCHANGED endpoints
    PROVE  Aged'
<1>1. CallersOK /\ FlightOK /\ TablesOK
  BY AccountParts
<1>2. \A r \in flight : AgedRequest(r)'
  BY <1>1, AgedRequestStays DEF FlightOK, Aged
<1>3. \A x \in endpoints : x.id[1] \in Seeds => Older(x.project, x.id)'
  BY <1>1, OlderStays DEF TablesOK, Aged
<1> QED BY <1>2, <1>3 DEF Aged

\* A handler makes things that are younger than their project.
LEMMA AgedHandler ==
    ASSUME AccountInv, Aged, NEW r \in flight, Onward(r), UNCHANGED sent,
           UNCHANGED tables \/ InsertUser(r) \/ Writes(r)
    PROVE  Aged'
<1>1. FlightOK /\ TablesOK
  BY AccountParts
<1>2. \A q \in flight : AgedRequest(q)'
  BY DEF Aged, AgedRequest, Older
<1>3. ASSUME NEW q, Follows(r, q) PROVE AgedRequest(q)'
  <2>1. q.id = r.id /\ q.op = r.op /\ q.body = r.body
    BY <1>3 DEF Follows, Continues
  <2> QED BY <1>2, <2>1 DEF AgedRequest, Older
<1>4. \A q \in flight' : AgedRequest(q)'
  BY <1>2, <1>3 DEF Onward
<1>5. ASSUME NEW x \in endpoints', x.id[1] \in Seeds PROVE Older(x.project, x.id)'
  <2>1. CASE x \in endpoints
    BY <1>5, <2>1 DEF Aged, Older
  <2>2. CASE x \notin endpoints
    <3>1. /\ r.op = "endpoint"
          /\ x = [id |-> r.id, project |-> r.body.project, kind |-> r.body.kind]
      BY <2>2 DEF tables, InsertUser, Writes, InsertSession, DeleteSession, InsertProject,
                  InsertEndpoint, InsertKey, UpdateKey, At, Token
    <3>2. x.id = r.id /\ x.project = r.body.project
      BY <3>1
    <3> QED BY <1>2, <1>5, <3>1, <3>2 DEF AgedRequest, InProject
  <2> QED BY <2>1, <2>2
<1> QED BY <1>4, <1>5 DEF Aged

-----------------------------------------------------------------------------
(* What a command has made.                                                 *)

\* Membership in Made, without its set.
LEMMA MadeIs ==
    ASSUME NEW c, NEW x
    PROVE  /\ x \in Made(c) <=> x \in endpoints /\ x.project = home[c] /\ x.id[1] = c
           /\ x \in Made(c)' <=> x \in endpoints' /\ x.project = home'[c] /\ x.id[1] = c
BY DEF Made

\* Others make nothing in the project of a command.
LEMMA FurnishedKept ==
    ASSUME NEW c \in Seeds, Furnished(c), Made(c)' = Made(c), keys \subseteq keys',
           step'[c] = step[c], home'[c] = home[c], sent'[c] = sent[c],
           Awaited(c)' = Awaited(c),
           \A r \in flight' : r.id[1] = c /\ ~r.awaited =>
             \E q \in flight : /\ q.id[1] = c /\ ~q.awaited
                               /\ r.op = q.op /\ r.body = q.body
    PROVE  Furnished(c)'
<1> SUFFICES ASSUME step[c] >= 4
             PROVE  Furnished(c)'
  BY DEF Furnished
<1>1. home'[c] \in Id /\ home'[c][2] <= sent'[c]
  BY DEF Furnished
<1>2. \A r \in flight' : r.id[1] = c /\ ~r.awaited /\ r.op \in InProject =>
        r.body.project # home'[c]
  BY DEF Furnished
<1>3. \A k \in 4..6 : k < step'[c] => \E x \in Made(c)' : x.kind = k
  BY DEF Furnished
<1>4. \A x \in Made(c)' :
        /\ x.kind \in 4..6
        /\ x.kind < step'[c] \/ (\E r \in Awaited(c)' : x.kind = step'[c] /\ x.id = r.id)
  BY DEF Furnished
<1>5. \A x, y \in Made(c)' : x.kind = y.kind => x = y
  BY DEF Furnished
<1>6. step'[c] = Ready => \E k \in keys' : k.project = home'[c] /\ k.id = <<c, sent'[c]>>
  BY DEF Furnished
<1> QED BY <1>1, <1>2, <1>3, <1>4, <1>5, <1>6 DEF Furnished, Ready, Script

\* A request that is awaited is not lost.
GoesOn(r) == \E q : Becomes(r, q) /\ q.awaited /\ q.id = r.id

\* A handler leaves its request with its id, and awaited.
LEMMA HandlerGoesOn ==
    ASSUME NEW r \in Req, r.awaited,
           Proceed(r) \/ Fails(r) \/ Unconfirmed(r)
    PROVE  GoesOn(r)
<1>1. ASSUME NEW code, Answer(r, code) PROVE GoesOn(r)
  <2>1. PICK q : q = [r EXCEPT !.pc = "answered", !.code = code]
    OBVIOUS
  <2>2. q.awaited /\ q.id = r.id
    BY <2>1 DEF Req
  <2>3. Becomes(r, q)
    BY <1>1, <2>1 DEF Answer
  <2> QED BY <2>2, <2>3 DEF GoesOn
<1>2. ASSUME NEW l, Goto(r, l) PROVE GoesOn(r)
  <2>1. PICK q : q = [r EXCEPT !.pc = l]
    OBVIOUS
  <2>2. q.awaited /\ q.id = r.id
    BY <2>1 DEF Req
  <2>3. Becomes(r, q)
    BY <1>2, <2>1 DEF Goto
  <2> QED BY <2>2, <2>3 DEF GoesOn
<1>3. ASSUME NEW u, Becomes(r, [r EXCEPT !.user = u, !.pc = "known"]) PROVE GoesOn(r)
  <2>1. PICK q : q = [r EXCEPT !.user = u, !.pc = "known"]
    OBVIOUS
  <2>2. q.awaited /\ q.id = r.id
    BY <2>1 DEF Req
  <2>3. Becomes(r, q)
    BY <1>3, <2>1
  <2> QED BY <2>2, <2>3 DEF GoesOn
<1>4. CASE AuthLimit(r)
  <2>1. Goto(r, "let in") \/ \E code \in {429, 503} : Answer(r, code)
    BY <1>4 DEF AuthLimit
  <2> QED BY <1>1, <1>2, <2>1, Zenon
<1>5. CASE Login(r)
  BY <1>1, <1>3, <1>5 DEF Login
<1>6. CASE Auth(r)
  BY <1>1, <1>3, <1>6 DEF Auth
<1>7. CASE Owner(r)
  BY <1>1, <1>2, <1>7 DEF Owner
<1>8. CASE Registered(r)
  BY <1>3, <1>8 DEF Registered
<1>9. CASE Done(r) \/ Refused(r)
  BY <1>1, <1>9 DEF Done, Refused
<1>10. CASE Fails(r) \/ Unconfirmed(r)
  BY <1>1, <1>10 DEF Fails, Unconfirmed
<1> QED BY <1>4, <1>5, <1>6, <1>7, <1>8, <1>9, <1>10 DEF Proceed, Reads

\* The endpoint that a handler makes.
Makes(r, x) == r.op = "endpoint" /\ x = [id |-> r.id, project |-> r.body.project, kind |-> r.body.kind]

\* A new endpoint is that of the request at work.
LEMMA EndpointsAre ==
    ASSUME NEW r, UNCHANGED tables \/ InsertUser(r) \/ Writes(r), NEW x \in endpoints'
    PROVE  x \in endpoints \/ Makes(r, x)
BY DEF tables, InsertUser, Writes, InsertSession, DeleteSession, InsertProject,
       InsertEndpoint, InsertKey, UpdateKey, At, Token, Makes

\* A request that the command does not wait for adds nothing to its project.
LEMMA FurnishedBesides ==
    ASSUME AccountInv, NEW c \in Seeds, Furnished(c), Kept(c), NEW r \in flight, Onward(r),
           r \notin Awaited(c), UNCHANGED tables \/ InsertUser(r) \/ Writes(r),
           UNCHANGED <<step, account, home, sent, jar>>
    PROVE  Furnished(c)'
<1>1. AttendedOK
  BY AccountParts
<1>2. Awaited(c)' = Awaited(c)
  BY <1>1, AttendedOnward
<1>3. r.id[1] = c => ~r.awaited
  BY AwaitedIs
<1> SUFFICES ASSUME step[c] >= 4 PROVE Furnished(c)'
  BY DEF Furnished
<1>4. \A x : x \in Made(c)' <=> x \in Made(c)
  <2>1. SUFFICES ASSUME NEW x \in Made(c)' PROVE x \in Made(c)
    BY MadeIs DEF Kept
  <2>2. x \in endpoints' /\ x.project = home[c] /\ x.id[1] = c
    BY MadeIs
  <2>3. CASE x \in endpoints
    BY <2>2, <2>3, MadeIs
  <2>4. CASE Makes(r, x)
    <3>1. x.id = r.id /\ x.project = r.body.project /\ r.op \in InProject
      BY <2>4 DEF Makes, InProject
    <3>2. r.body.project # home[c]
      BY <1>3, <2>2, <3>1 DEF Furnished
    <3> QED BY <2>2, <3>1, <3>2
  <2> QED BY <2>2, <2>3, <2>4, EndpointsAre
<1>5. Made(c)' = Made(c)
  BY <1>4 DEF Made
<1>6. \A q \in flight' : q.id[1] = c /\ ~q.awaited =>
        \E y \in flight : y.id[1] = c /\ ~y.awaited /\ q.op = y.op /\ q.body = y.body
  <2>1. SUFFICES ASSUME NEW q \in flight', q.id[1] = c, ~q.awaited
                 PROVE  \E y \in flight : /\ y.id[1] = c /\ ~y.awaited
                                          /\ q.op = y.op /\ q.body = y.body
    OBVIOUS
  <2>2. CASE q \in flight
    BY <2>1, <2>2
  <2>3. CASE q \notin flight
    <3>1. Follows(r, q)
      BY <2>3 DEF Onward
    <3>2. q.id = r.id /\ q.op = r.op /\ q.body = r.body
      BY <3>1 DEF Follows, Continues
    <3> QED BY <1>3, <2>1, <3>2
  <2> QED BY <2>2, <2>3
<1> QED BY <1>2, <1>5, <1>6, FurnishedKept DEF Kept

\* The request that it waits for adds the endpoint of the step at hand.
LEMMA FurnishedByOwn ==
    ASSUME AccountInv, NEW c \in Seeds, Furnished(c), Kept(c), NEW r \in Awaited(c), Onward(r),
           GoesOn(r), UNCHANGED tables \/ InsertUser(r) \/ Writes(r),
           UNCHANGED <<step, account, home, sent, jar>>
    PROVE  Furnished(c)'
<1>1. TablesOK /\ AttendedOK
  BY AccountParts
<1>2. Asked(c, r)
  BY AwaitedRequest
<1>3. PICK q : Becomes(r, q) /\ q.awaited /\ q.id = r.id
  BY DEF GoesOn
<1>4. q \in Awaited(c)'
  BY <1>2, <1>3, AwaitedIs DEF Becomes, Asked
<1> SUFFICES ASSUME step[c] >= 4 PROVE Furnished(c)'
  BY DEF Furnished
<1>5. \A x \in Made(c)' : x \in Made(c) \/ (Makes(r, x) /\ x \in endpoints')
  BY MadeIs, EndpointsAre
<1>6. ASSUME NEW x, Makes(r, x)
      PROVE  x.kind = step[c] /\ x.id = r.id /\ x.kind \in 4..6 /\ x.project = home[c]
  <2>1. /\ r.op = "endpoint" /\ r.body = [project |-> home[c], kind |-> step[c]]
        /\ x = [id |-> r.id, project |-> r.body.project, kind |-> r.body.kind]
    BY <1>2, <1>6 DEF Makes, Asked
  <2>2. x.kind = step[c] /\ x.id = r.id /\ x.project = home[c]
    BY <2>1
  <2>3. step[c] \in 4..6
    BY <1>2, <2>1, ScriptIs DEF Asked
  <2> QED BY <2>2, <2>3
<1>7. ASSUME NEW x \in Made(c)
      PROVE  x.kind \in 4..6 /\ (x.kind < step[c] \/ (x.kind = step[c] /\ x.id = r.id))
  BY <1>2 DEF Furnished, Asked
<1>8. home'[c] \in Id /\ home'[c][2] <= sent'[c]
  BY DEF Furnished
<1>9. \A y \in flight' : y.id[1] = c /\ ~y.awaited /\ y.op \in InProject =>
        y.body.project # home'[c]
  BY <1>3 DEF Furnished, Becomes
<1>10. \A k \in 4..6 : k < step'[c] => \E x \in Made(c)' : x.kind = k
  <2>1. \A x \in Made(c) : x \in Made(c)'
    BY MadeIs DEF Kept
  <2> QED BY <2>1 DEF Furnished
<1>11. \A x \in Made(c)' :
         /\ x.kind \in 4..6
         /\ x.kind < step'[c] \/ (\E y \in Awaited(c)' : x.kind = step'[c] /\ x.id = y.id)
  BY <1>3, <1>4, <1>5, <1>6, <1>7
<1>12. \A x, y \in Made(c)' : x.kind = y.kind => x = y
  <2>1. SUFFICES ASSUME NEW x \in Made(c)', NEW y \in Made(c)', x.kind = y.kind PROVE x = y
    OBVIOUS
  <2>2. step[c] \in 1..7
    BY <1>2 DEF Asked
  <2>3. CASE x \in Made(c) /\ y \in Made(c)
    BY <2>1, <2>3 DEF Furnished
  <2>4. CASE x.kind = step[c]
    <3>1. /\ x.id = r.id /\ y.id = r.id /\ y.kind = step[c]
      <4>1. ASSUME NEW z \in Made(c)', z.kind = step[c] PROVE z.id = r.id
        <5>1. CASE Makes(r, z)
          BY <1>6, <5>1
        <5>2. CASE z \in Made(c)
          <6>1. z.kind < step[c] \/ z.id = r.id
            BY <1>7, <5>2
          <6> QED BY <2>2, <4>1, <6>1
        <5> QED BY <1>5, <5>1, <5>2
      <4> QED BY <2>1, <2>4, <4>1
    <3>2. /\ x.project = home[c] /\ y.project = home[c]
          /\ x \in endpoints' /\ y \in endpoints'
      BY MadeIs
    <3>3. \A z \in endpoints' : z = [id |-> z.id, project |-> z.project, kind |-> z.kind]
      BY <1>1, EndpointsAre DEF TablesOK, Makes
    <3> QED BY <2>4, <3>1, <3>2, <3>3
  <2> QED BY <1>5, <1>6, <2>1, <2>3, <2>4
<1>13. step'[c] # Ready
  BY <1>2 DEF Asked, Ready, Script
<1> QED BY <1>8, <1>9, <1>10, <1>11, <1>12, <1>13 DEF Furnished, Ready, Script

-----------------------------------------------------------------------------
(* The steps.                                                               *)

Course(c) == Placed(c) /\ Heard(c) /\ Furnished(c)

\* SeedInv speaks of one command at a time.
LEMMA SeedParts == SeedInv <=> AccountInv /\ Aged /\ \A c \in Seeds : Course(c)
BY DEF SeedInv, Course

\* The same of the next state.
LEMMA SeedPartsNext == SeedInv' <=> AccountInv' /\ Aged' /\ \A c \in Seeds : Course(c)'
BY DEF SeedInv, Course

\* A step that leaves the tables alone takes nothing away.
LEMMA TablesKeep ==
    ASSUME NEW c, UNCHANGED tables, excuse'[c] = excuse[c]
    PROVE  Kept(c)
BY DEF tables, Kept

\* A command is not disturbed by other callers.
LEMMA CourseBesides ==
    ASSUME AccountInv, NEW c \in Seeds, Course(c), Still(c), UNCHANGED tables,
           excuse'[c] = excuse[c], \A r \in flight' : r.id[1] = c /\ ~r.awaited => r \in flight
    PROVE  Course(c)'
<1>1. Kept(c) /\ Stays(c)
  BY TablesKeep DEF Still, Stays
<1>2. Placed(c)'
  BY <1>1, PlacedKept DEF Course
<1>3. Heard(c)'
  <2>1. \A r \in Awaited(c) : Tells(c, r)'
    BY <1>1, TellsKept DEF Course, Heard
  <2> QED BY <2>1 DEF Heard, Still
<1>4. Made(c)' = Made(c)
  BY DEF Made, tables, Still
<1>5. Furnished(c)'
  BY <1>1, <1>4, FurnishedKept DEF Course, Kept, Still
<1> QED BY <1>2, <1>3, <1>5 DEF Course

\* Bootstrap sends the request of its step.
LEMMA CallOutCourse ==
    ASSUME SeedInv, NEW c \in Caller, CallOut(c)
    PROVE  Aged' /\ \A d \in Seeds : Course(d)'
<1>1. AccountInv /\ Aged /\ \A d \in Seeds : Course(d)
  BY SeedParts
<1>2. CallersOK /\ CommandsOK /\ FlightOK
  BY <1>1, AccountParts
<1>3. /\ c \in Seeds /\ step[c] \in 1..Len(Script) /\ Awaited(c) = {}
      /\ Send(c, Script[step[c]], Body(c), Good(c))
      /\ UNCHANGED seedVars /\ UNCHANGED tables
  BY DEF CallOut, Send
<1>4. AccountInv'
  BY <1>1, CallOutSound
<1>5. AttendedOK' /\ FlightOK' /\ CallersOK'
  BY <1>4, AccountPartsNext
<1>6. PICK q : q = Fresh(c, Script[step[c]], Body(c), Good(c))
  OBVIOUS
<1>7. /\ flight' = flight \cup {q} /\ sent' = [sent EXCEPT ![c] = @ + 1]
      /\ UNCHANGED jar
  BY <1>3, <1>6 DEF Send, Fresh
<1>8. /\ q.id = <<c, sent[c] + 1>> /\ q.pc = "arrived" /\ q.op = Script[step[c]]
      /\ q.body = Body(c) /\ q.awaited /\ q.id[1] = c
  BY <1>6 DEF Fresh
<1>9. \A d, x : x \in Awaited(d)' <=> x \in Awaited(d) \/ (x = q /\ d = c)
  BY <1>7, <1>8, AwaitedIs
<1>10. ASSUME NEW d \in Seeds, d # c PROVE Course(d)'
  <2>1. d \in Caller
    BY SeedAssumption
  <2>2. Awaited(d)' = Awaited(d)
    BY <1>9, <1>10 DEF Awaited
  <2>3. Still(d)
    BY <1>2, <1>3, <1>7, <1>10, <2>1, <2>2 DEF Still, seedVars, CallersOK
  <2>4. \A r \in flight' : r.id[1] = d /\ ~r.awaited => r \in flight
    BY <1>7, <1>8
  <2> QED BY <1>1, <1>3, <2>3, <2>4, CourseBesides DEF seedVars
<1>11. sent[c] \in Nat /\ sent'[c] = sent[c] + 1
  BY <1>2, <1>7 DEF CallersOK
<1>12. Placed(c)'
  <2>1. Kept(c) /\ Stays(c)
    BY <1>3, <1>7, TablesKeep DEF Stays, seedVars
  <2> QED BY <1>1, <1>3, <2>1, PlacedKept DEF Course
<1>13. Heard(c)'
  <2>1. \A x \in Awaited(c)' : x = q
    BY <1>3, <1>9
  <2> QED BY <1>8, <2>1 DEF Heard, Tells
<1>14. Furnished(c)'
  <2> SUFFICES ASSUME step[c] >= 4 PROVE Furnished(c)'
    BY <1>3 DEF Furnished, seedVars
  <2>1. UNCHANGED <<step, home, endpoints>> /\ Furnished(c)
    BY <1>1, <1>3 DEF seedVars, tables, Course
  <2>2. Made(c)' = Made(c)
    BY <2>1 DEF Made
  <2>3. home'[c] \in Id /\ home'[c][2] <= sent'[c]
    <3>1. home[c] \in Id /\ home[c][2] <= sent[c]
      BY <2>1 DEF Furnished
    <3>2. home[c][2] \in Nat
      BY <3>1 DEF Id
    <3> QED BY <1>11, <2>1, <3>1, <3>2
  <2>4. \A r \in flight' : r.id[1] = c /\ ~r.awaited /\ r.op \in InProject =>
          r.body.project # home'[c]
    BY <1>7, <1>8, <2>1 DEF Furnished
  <2>5. \A k \in 4..6 : k < step'[c] => \E x \in Made(c)' : x.kind = k
    BY <2>1, <2>2 DEF Furnished
  <2>6. \A x \in Made(c)' :
          /\ x.kind \in 4..6
          /\ x.kind < step'[c] \/ (\E r \in Awaited(c)' : x.kind = step'[c] /\ x.id = r.id)
    BY <1>3, <2>1, <2>2 DEF Furnished
  <2>7. \A x, y \in Made(c)' : x.kind = y.kind => x = y
    BY <2>1, <2>2 DEF Furnished
  <2>8. step'[c] # Ready
    BY <1>3, <2>1 DEF Script, Ready
  <2> QED BY <2>3, <2>4, <2>5, <2>6, <2>7, <2>8 DEF Furnished, Ready, Script
<1>15. AgedRequest(q)'
  <2>1. q.id[2] <= sent'[q.id[1]]
    BY <1>8, <1>11
  <2>2. q.op # "logout"
    BY <1>3, <1>8, ScriptIs
  <2>3. ASSUME q.op \in InProject PROVE Older(q.body.project, q.id)'
    <3>1. step[c] \in 4..7
      BY <1>3, <1>8, <2>3, ScriptIs
    <3>2. home[c] \in Id /\ home[c][2] <= sent[c] /\ home[c][2] \in Nat
      <4>1. step[c] >= 4 /\ Furnished(c)
        BY <1>1, <1>3, <3>1 DEF Course
      <4>2. home[c] \in Id /\ home[c][2] <= sent[c]
        BY <4>1 DEF Furnished
      <4> QED BY <4>2 DEF Id
    <3>3. q.body.project = home[c]
      <4>1. CASE q.op = "endpoint"
        <5>1. Body(c) = [project |-> home[c], kind |-> step[c]]
          BY <1>8, <4>1 DEF Body, Signing
        <5> QED BY <1>8, <5>1
      <4>2. CASE q.op = "key"
        <5>1. Body(c) = [project |-> home[c]]
          BY <1>8, <4>2 DEF Body, Signing
        <5> QED BY <1>8, <5>1
      <4> QED BY <2>3, <4>1, <4>2 DEF InProject
    <3> QED BY <1>8, <1>11, <3>2, <3>3 DEF Older
  <2> QED BY <2>1, <2>2, <2>3 DEF AgedRequest
<1>16. \A d \in Caller : sent'[d] \in Nat /\ sent[d] <= sent'[d]
  BY <1>2, <1>7 DEF CallersOK
<1>17. Aged'
  BY <1>1, <1>3, <1>7, <1>15, <1>16, AgedCaller DEF tables
<1> QED BY <1>10, <1>12, <1>13, <1>14, <1>17 DEF Course

\* The others' requests, and those of a browser.
LEMMA SendCourse ==
    ASSUME SeedInv, NEW c \in Caller \ Seeds, NEW op \in Op, NEW body \in BodyOf(op),
           NEW good \in BOOLEAN, Send(c, op, body, good), UNCHANGED <<step, account, home, excuse>>
    PROVE  Aged' /\ \A d \in Seeds : Course(d)'
<1>1. AccountInv /\ Aged /\ \A d \in Seeds : Course(d)
  BY SeedParts
<1>2. CallersOK
  BY <1>1, AccountParts
<1>3. \A d \in Seeds : Still(d)
  BY <1>1, SendBesides
<1>4. LET q == Fresh(c, op, body, good) IN q.id = <<c, sent[c] + 1>> /\ q.id[1] = c /\ q.awaited
  BY <1>2, FreshIs
<1>5. PICK q : q = Fresh(c, op, body, good)
  OBVIOUS
<1>6. /\ flight' = flight \cup {q} /\ sent' = [sent EXCEPT ![c] = @ + 1]
      /\ UNCHANGED tables
  BY <1>5 DEF Send, Fresh
<1>7. \A d \in Seeds : Course(d)'
  BY <1>1, <1>3, <1>4, <1>5, <1>6, CourseBesides
<1>8. \A d \in Caller : sent'[d] \in Nat /\ sent[d] <= sent'[d]
  BY <1>2, <1>6 DEF CallersOK
<1>9. AgedRequest(q)'
  <2>1. sent'[c] = sent[c] + 1 /\ sent[c] \in Nat
    BY <1>2, <1>6 DEF CallersOK
  <2> QED BY <1>4, <1>5, <2>1 DEF AgedRequest
<1>10. Aged'
  BY <1>1, <1>6, <1>8, <1>9, AgedCaller DEF tables
<1> QED BY <1>7, <1>10

\* Nothing that a browser sends disturbs a command.
LEMMA BrowseCourse ==
    ASSUME SeedInv, NEW c \in Caller, Browse(c)
    PROVE  Aged' /\ \A d \in Seeds : Course(d)'
<1>1. AccountInv
  BY SeedParts
<1>2. TablesOK /\ CommandsOK
  BY <1>1, AccountParts
<1>3. c \in Caller \ Seeds /\ (Click(c) \/ \E p \in start[c].passwords : SignIn(c, p))
  BY DEF Browse
<1>4. CASE \E p \in start[c].passwords : SignIn(c, p)
  <2>1. PICK p \in start[c].passwords : SignIn(c, p)
    BY <1>4
  <2>2. PICK op \in Signing : Send(c, op, Account(c, p), op = "register" => p \notin Weak)
    BY <2>1 DEF SignIn
  <2>3. op \in Op /\ Account(c, p) \in BodyOf(op)
    BY <1>2, AccountIs DEF BodyOf, Signing, Op
  <2>4. (op = "register" => p \notin Weak) \in BOOLEAN
    OBVIOUS
  <2>5. UNCHANGED <<step, account, home, excuse>>
    BY <2>1 DEF SignIn
  <2> QED BY <1>3, <2>2, <2>3, <2>4, <2>5, SendCourse
<1>5. CASE Click(c)
  <2>1. UNCHANGED <<step, account, home, excuse>>
    BY <1>5 DEF Click, seedVars
  <2>2. ASSUME NEW op \in Op, NEW body \in BodyOf(op), NEW good \in BOOLEAN,
               Send(c, op, body, good)
        PROVE  Aged' /\ \A d \in Seeds : Course(d)'
    BY <1>3, <2>1, <2>2, SendCourse
  <2>3. CASE \E good \in BOOLEAN : Send(c, "project", None, good)
    <3>1. "project" \in Op /\ None \in BodyOf("project")
      BY DEF Op, BodyOf, Signing, InProject
    <3> QED BY <2>2, <2>3, <3>1
  <2>4. CASE \E good \in BOOLEAN : \E p \in Ids(projects), op \in InProject :
               Send(c, op, [project |-> p, kind |-> 0], good)
    <3>1. PICK good \in BOOLEAN, p \in Ids(projects), op \in InProject :
               Send(c, op, [project |-> p, kind |-> 0], good)
      BY <2>4
    <3>2. p \in Id
      BY <1>2 DEF Ids, TablesOK
    <3>3. [project |-> p, kind |-> 0] \in Destination
      BY <3>2 DEF Destination
    <3>4. op \in Op /\ [project |-> p, kind |-> 0] \in BodyOf(op)
      BY <3>3 DEF Op, BodyOf, Signing, InProject
    <3> QED BY <2>2, <3>1, <3>4
  <2>5. CASE \E k \in Ids(keys) : Send(c, "revoke", [key |-> k], TRUE)
    <3>1. PICK k \in Ids(keys) : Send(c, "revoke", [key |-> k], TRUE)
      BY <2>5
    <3>2. k \in Id
      BY <1>2 DEF Ids, TablesOK
    <3>3. "revoke" \in Op /\ [key |-> k] \in BodyOf("revoke")
      BY <3>2 DEF Op, BodyOf, Signing, InProject
    <3> QED BY <2>2, <3>1, <3>3
  <2>6. CASE Send(c, "logout", None, TRUE)
    <3>1. "logout" \in Op /\ None \in BodyOf("logout")
      BY DEF Op, BodyOf, Signing, InProject
    <3> QED BY <2>2, <2>6, <3>1
  <2> QED BY <1>5, <2>3, <2>4, <2>5, <2>6 DEF Click
<1> QED BY <1>3, <1>4, <1>5

\* A new run, over what earlier ones have left behind.
LEMMA RunCourse ==
    ASSUME SeedInv, NEW c \in Caller, NEW p \in start[c].passwords, Run(c, p)
    PROVE  Aged' /\ \A d \in Seeds : Course(d)'
<1>1. AccountInv /\ Aged /\ \A d \in Seeds : Course(d)
  BY SeedParts
<1>2. CallersOK /\ CommandsOK /\ AttendedOK
  BY <1>1, AccountParts
<1>3. /\ c \in Seeds /\ step[c] \in {Idle, Failed} /\ UNCHANGED <<start, tables, flight, sent, faults>>
      /\ step'[c] = 1
  BY <1>2 DEF Run, CommandsOK
<1>4. \A d \in Seeds : Awaited(d)' = Awaited(d)
  BY <1>3 DEF Awaited
<1>5. Awaited(c)' = {}
  <2>1. step[c] \notin 1..Len(Script)
    BY <1>3 DEF Idle, Failed, Script
  <2> QED BY <1>2, <1>3, <1>4, <2>1 DEF AttendedOK, Attended
<1>6. Course(c)'
  <2>1. Placed(c)'
    BY <1>3 DEF Placed, Failed
  <2>2. Heard(c)'
    BY <1>5 DEF Heard
  <2>3. Furnished(c)'
    BY <1>3 DEF Furnished
  <2> QED BY <2>1, <2>2, <2>3 DEF Course
<1>7. ASSUME NEW d \in Seeds, d # c PROVE Course(d)'
  <2>1. d \in Caller
    BY SeedAssumption
  <2>2. Still(d) /\ excuse'[d] = excuse[d]
    BY <1>2, <1>3, <1>4, <1>7, <2>1 DEF Run, Still, CommandsOK, CallersOK
  <2> QED BY <1>1, <1>3, <2>2, CourseBesides
<1>8. Aged'
  BY <1>1, <1>3 DEF Aged, AgedRequest, Older, tables
<1> QED BY <1>6, <1>7, <1>8

\* Nothing but the project of another run comes to have the age of a new one.
LEMMA NewProjectIsBare ==
    ASSUME AccountInv, Aged, NEW c \in Seeds
    PROVE  /\ \A r \in flight : r.id[1] = c /\ r.op \in InProject => r.body.project # <<c, sent[c]>>
           /\ \A x \in endpoints : x.id[1] = c => x.project # <<c, sent[c]>>
<1>1. CallersOK /\ FlightOK /\ TablesOK /\ c \in Caller
  BY AccountParts, SeedAssumption
<1>2. sent[c] \in Nat
  BY <1>1 DEF CallersOK
<1>3. ASSUME NEW p, NEW id \in Id, id[1] = c, Older(p, id) PROVE p # <<c, sent[c]>>
  <2>1. p[2] \in Nat /\ id[2] \in Nat /\ p[2] < id[2] /\ id[2] <= sent[c]
    BY <1>3 DEF Older, Id
  <2> QED BY <1>2, <2>1
<1>4. \A r \in flight : r.id \in Id
  BY <1>1 DEF FlightOK, Req
<1>5. \A x \in endpoints : x.id \in Id
  BY <1>1 DEF TablesOK
<1>6. ASSUME NEW r \in flight, r.id[1] = c, r.op \in InProject PROVE r.body.project # <<c, sent[c]>>
  BY <1>3, <1>4, <1>6 DEF Aged, AgedRequest
<1>7. ASSUME NEW x \in endpoints, x.id[1] = c PROVE x.project # <<c, sent[c]>>
  BY <1>3, <1>5, <1>7 DEF Aged
<1> QED BY <1>6, <1>7

\* The command goes on after an answer below 300, with what it has asked for.
LEMMA ReceivePlaced ==
    ASSUME SeedInv, NEW c \in Seeds, NEW r \in Awaited(c), Receive(c, r)
    PROVE  Placed(c)'
<1>1. AccountInv /\ Course(c)
  BY SeedParts
<1>2. CallersOK /\ CommandsOK /\ Asked(c, r)
  BY <1>1, AccountParts, AwaitedRequest
<1>3. Tells(c, r) /\ Placed(c)
  BY <1>1 DEF Course, Heard
<1>4. /\ r.pc = "answered" /\ UNCHANGED tables /\ UNCHANGED <<account, excuse>>
      /\ step'[c] = AfterAnswer(c, r) /\ jar'[c] = Cookie(r)
      /\ home'[c] = IF r.op = "project" /\ r.code = 201 THEN r.id ELSE home[c]
  <2>1. c \in Caller /\ r.id[1] = c
    BY <1>2, SeedAssumption DEF Asked
  <2> QED BY <1>2, <2>1 DEF Receive, Deliver, CallersOK, CommandsOK
<1>5. /\ step[c] \in 1..7 /\ r.op = Script[step[c]] /\ step[c] \in 1..Len(Script) /\ r.code \in Nat
      /\ r.id[1] = c
  BY <1>2 DEF Asked, Req
<1>6. /\ r.op = "register" <=> step[c] = 1
      /\ r.op = "login" <=> step[c] = 2
      /\ r.op = "project" <=> step[c] = 3
      /\ r.op \in Signing <=> step[c] \in {1, 2}
      /\ r.op # "logout"
  BY <1>5, ScriptIs
<1>7. Mail(c)' = Mail(c) /\ (Barred(c) <=> Barred(c)')
  BY <1>4 DEF Mail, Barred, tables
<1>8. CASE r.code >= 300
  <2>1. Blocked(c, r)
    BY <1>3, <1>4, <1>8 DEF Tells
  <2>2. step'[c] = IF step[c] = 1 THEN 2 ELSE Failed
    BY <1>4, <1>8 DEF AfterAnswer, AfterError
  <2>3. CASE step[c] = 1
    <3>1. excuse[c] \/ users[Mail(c)] # None \/ account[c].password \in Weak
      BY <1>6, <2>1, <2>3 DEF Blocked
    <3> QED BY <1>4, <1>7, <2>2, <2>3, <3>1 DEF Placed, Failed, tables
  <2>4. CASE step[c] # 1
    <3>1. excuse[c] \/ Barred(c)
      BY <1>6, <2>1, <2>4 DEF Blocked
    <3> QED BY <1>4, <1>7, <2>2, <2>4, <3>1 DEF Placed, Failed
  <2> QED BY <2>3, <2>4
<1>9. CASE r.code < 300
  <2>1. r.code = Success(r) /\ Stored(c, r)
    BY <1>3, <1>4, <1>9 DEF Tells
  <2>2. step'[c] = IF step[c] = 1 THEN 3 ELSE step[c] + 1
    BY <1>4, <1>5, <1>9 DEF AfterAnswer
  <2>3. CASE step[c] \in {1, 2}
    <3>1. jar'[c] = r.id /\ step'[c] = 3
      BY <1>4, <1>6, <2>1, <2>2, <2>3 DEF Cookie, Token
    <3>2. users[Mail(c)] = account[c].password /\ (excuse[c] \/ HasSession(r.id))
      BY <1>6, <2>1, <2>3 DEF Stored
    <3>3. (users[Mail(c)] = account[c].password)' /\ (excuse[c] \/ HasSession(jar[c]))'
      BY <1>4, <1>7, <3>1, <3>2 DEF HasSession, tables
    <3> QED BY <3>1, <3>3 DEF Placed, Failed
  <2>4. CASE step[c] \in 3..7
    <3>1. jar'[c] = jar[c] /\ step'[c] = step[c] + 1
      BY <1>4, <1>5, <1>6, <2>2, <2>4 DEF Cookie
    <3>2. users[Mail(c)] = account[c].password /\ (excuse[c] \/ HasSession(jar[c]))
      BY <1>3, <2>4 DEF Placed
    <3>3. (users[Mail(c)] = account[c].password)' /\ (excuse[c] \/ HasSession(jar[c]))'
      BY <1>4, <1>7, <3>1, <3>2 DEF HasSession, tables
    <3>4. home'[c] \in Owned(Mail(c))
      <4>1. CASE step[c] = 3
        <5>1. r.code = 201 /\ r.op = "project"
          BY <1>6, <2>1, <4>1 DEF Success
        <5> QED BY <1>4, <2>1, <5>1 DEF Stored
      <4>2. CASE step[c] \in 4..7
        BY <1>3, <1>4, <1>6, <4>2 DEF Placed
      <4> QED BY <2>4, <4>1, <4>2
    <3>5. (home[c] \in Owned(Mail(c)))'
      BY <1>4, <1>7, <3>4 DEF Owned, tables
    <3> QED BY <2>4, <3>1, <3>3, <3>5 DEF Placed, Failed
  <2> QED BY <1>5, <2>3, <2>4
<1> QED BY <1>5, <1>8, <1>9

\* An answer moves the command to the next step, whose endpoints it has.
LEMMA ReceiveFurnished ==
    ASSUME SeedInv, NEW c \in Seeds, NEW r \in Awaited(c), Receive(c, r)
    PROVE  Furnished(c)'
<1>1. AccountInv /\ Aged /\ Course(c)
  BY SeedParts
<1>2. CallersOK /\ CommandsOK /\ TablesOK /\ FlightOK /\ Asked(c, r)
  BY <1>1, AccountParts, AwaitedRequest
<1>3. Tells(c, r) /\ Furnished(c)
  BY <1>1 DEF Course, Heard
<1>4. /\ r.pc = "answered" /\ UNCHANGED tables /\ flight' = flight \ {r} /\ UNCHANGED sent
      /\ step'[c] = AfterAnswer(c, r)
      /\ home'[c] = IF r.op = "project" /\ r.code = 201 THEN r.id ELSE home[c]
  BY <1>2 DEF Receive, Deliver, CommandsOK
<1>5. /\ step[c] \in 1..7 /\ r.op = Script[step[c]] /\ step[c] \in 1..Len(Script) /\ r.code \in Nat
      /\ r.id = <<c, sent[c]>> /\ r.id[1] = c /\ r.id \in Id /\ r \in flight
  BY <1>2 DEF Asked, Req
<1>6. /\ r.op = "register" <=> step[c] = 1
      /\ r.op = "project" <=> step[c] = 3
      /\ r.op = "endpoint" <=> step[c] \in 4..6
      /\ r.op = "key" <=> step[c] = 7
  BY <1>5, ScriptIs
<1> SUFFICES ASSUME step'[c] >= 4 PROVE Furnished(c)'
  BY DEF Furnished
<1>7. r.code < 300
  BY <1>4, <1>5 DEF AfterAnswer, AfterError, Failed
<1>8. step'[c] = step[c] + 1 /\ step[c] \in 3..7
  BY <1>4, <1>5, <1>7 DEF AfterAnswer
<1>9. r.code = Success(r) /\ Stored(c, r)
  BY <1>3, <1>4, <1>7 DEF Tells
<1>10. sent[c] \in Nat
  BY <1>2, SeedAssumption DEF CallersOK
<1>11. CASE step[c] = 3
  <2>1. home'[c] = <<c, sent[c]>> /\ home'[c] \in Id /\ step'[c] = 4
    BY <1>4, <1>5, <1>6, <1>8, <1>9, <1>11 DEF Success
  <2>2. \A q \in flight' : q.id[1] = c /\ q.op \in InProject => q.body.project # home'[c]
    BY <1>1, <1>4, <2>1, NewProjectIsBare
  <2>3. \A x : x \notin Made(c)'
    BY <1>1, <1>4, <2>1, NewProjectIsBare, MadeIs DEF tables
  <2>4. home'[c][2] <= sent'[c]
    BY <1>4, <1>10, <2>1
  <2> QED BY <2>1, <2>2, <2>3, <2>4 DEF Furnished, Ready, Script
<1>12. CASE step[c] \in 4..7
  <2>1. home'[c] = home[c] /\ step[c] >= 4
    BY <1>4, <1>6, <1>12
  <2>2. \A x : x \in Made(c)' <=> x \in Made(c)
    BY <1>4, <2>1, MadeIs DEF tables
  <2>3. home'[c] \in Id /\ home'[c][2] <= sent'[c]
    BY <1>3, <1>4, <2>1 DEF Furnished
  <2>4. \A q \in flight' : q.id[1] = c /\ ~q.awaited /\ q.op \in InProject =>
          q.body.project # home'[c]
    BY <1>3, <1>4, <2>1 DEF Furnished
  <2>5. \A k \in 4..6 : k < step'[c] => \E x \in Made(c)' : x.kind = k
    <3>1. SUFFICES ASSUME NEW k \in 4..6, k < step'[c] PROVE \E x \in Made(c) : x.kind = k
      BY <2>2
    <3>2. CASE k < step[c]
      BY <1>3, <2>1, <3>2 DEF Furnished
    <3>3. CASE k = step[c]
      <4>1. PICK x : x = [id |-> r.id, project |-> home[c], kind |-> step[c]]
        OBVIOUS
      <4>2. x \in endpoints
        BY <1>6, <1>9, <3>3, <4>1 DEF Stored
      <4>3. x.id[1] = c /\ x.project = home[c] /\ x.kind = k
        BY <1>5, <3>3, <4>1
      <4> QED BY <4>2, <4>3, MadeIs
    <3> QED BY <1>8, <3>1, <3>2, <3>3
  <2>6. \A x \in Made(c)' : x.kind \in 4..6 /\ x.kind < step'[c]
    <3>1. SUFFICES ASSUME NEW x \in Made(c) PROVE x.kind \in 4..6 /\ x.kind < step[c] + 1
      BY <1>8, <2>2
    <3>2. x.kind \in 4..6 /\ (x.kind < step[c] \/ x.kind = step[c])
      BY <1>3, <2>1 DEF Furnished
    <3> QED BY <1>5, <3>2
  <2>7. \A x, y \in Made(c)' : x.kind = y.kind => x = y
    BY <1>3, <2>1, <2>2 DEF Furnished
  <2>8. step'[c] = Ready => \E k \in keys' : k.project = home'[c] /\ k.id = <<c, sent'[c]>>
    <3>1. SUFFICES ASSUME step[c] = 7 PROVE \E k \in keys : k.project = home[c] /\ k.id = <<c, sent[c]>>
      BY <1>4, <1>8, <2>1 DEF Ready, Script, tables
    <3>2. PICK k : k = [id |-> r.id, project |-> home[c]]
      OBVIOUS
    <3>3. k \in keys
      BY <1>6, <1>9, <3>1, <3>2 DEF Stored
    <3> QED BY <1>5, <3>2, <3>3
  <2> QED BY <2>3, <2>4, <2>5, <2>6, <2>7, <2>8 DEF Furnished, Ready, Script
<1> QED BY <1>8, <1>11, <1>12

\* A step that removes a request and leaves the tables.
LEMMA AgedLess ==
    ASSUME Aged, flight' \subseteq flight, UNCHANGED tables, UNCHANGED sent
    PROVE  Aged'
BY DEF Aged, AgedRequest, Older, tables

\* A command takes an answer.
LEMMA ReceiveCourse ==
    ASSUME SeedInv, NEW c \in Caller, NEW r \in flight, Receive(c, r)
    PROVE  Aged' /\ \A d \in Seeds : Course(d)'
<1>1. AccountInv /\ Aged /\ \A d \in Seeds : Course(d)
  BY SeedParts
<1>2. CommandsOK
  BY <1>1, AccountParts
<1>3. /\ c \in Seeds /\ r \in Awaited(c) /\ Deliver(r)
      /\ step' = [step EXCEPT ![c] = AfterAnswer(c, r)]
      /\ home' = [home EXCEPT ![c] = IF r.op = "project" /\ r.code = 201 THEN r.id ELSE @]
      /\ UNCHANGED <<start, account, runs, used, excuse>>
  BY DEF Receive
<1>4. UNCHANGED tables /\ UNCHANGED sent /\ flight' = flight \ {r}
  BY <1>3 DEF Deliver
<1>5. \A d \in Caller \ {c} : Awaited(d)' = Awaited(d) /\ sent'[d] = sent[d] /\ jar'[d] = jar[d]
  BY <1>1, <1>3, DeliverSound
<1>6. ASSUME NEW d \in Seeds, d # c PROVE Course(d)'
  <2>1. Still(d)
    BY <1>2, <1>3, <1>5, <1>6, SeedAssumption DEF Still, CommandsOK
  <2> QED BY <1>1, <1>3, <1>4, <2>1, CourseBesides
<1>7. Heard(c)'
  <2>1. \A q \in Awaited(c) : q = r
    <3>1. Asked(c, r)
      BY <1>1, <1>3, AwaitedRequest
    <3> QED BY <3>1 DEF Asked
  <2>2. Awaited(c)' = {}
    BY <1>4, <2>1, AwaitedIs DEF Awaited
  <2> QED BY <2>2 DEF Heard
<1>8. Placed(c)' /\ Furnished(c)'
  BY <1>3, ReceivePlaced, ReceiveFurnished
<1>9. Aged'
  BY <1>1, <1>4, AgedLess
<1> QED BY <1>6, <1>7, <1>8, <1>9 DEF Course

\* Without an answer a command has an excuse, or its account is stored.
LEMMA TimeOutCourse ==
    ASSUME SeedInv, NEW c \in Caller, NEW r \in flight, TimeOut(c, r)
    PROVE  Aged' /\ \A d \in Seeds : Course(d)'
<1>1. AccountInv /\ Aged /\ \A d \in Seeds : Course(d)
  BY SeedParts
<1>2. CommandsOK
  BY <1>1, AccountParts
<1>3. /\ c \in Seeds /\ r \in Awaited(c) /\ GiveUp(r)
      /\ step' = [step EXCEPT ![c] = AfterError(c, 0)]
      /\ excuse' = [excuse EXCEPT ![c] = @ \/ Spoils(r)]
      /\ UNCHANGED <<start, account, home, runs, used>>
  BY DEF TimeOut
<1>4. UNCHANGED tables /\ UNCHANGED callers
  BY <1>3 DEF GiveUp
<1>5. \A d \in Seeds : Awaited(d)' = IF d = c THEN {} ELSE Awaited(d)
  BY <1>1, <1>3, GiveUpAwaited
<1>6. Grows
  BY <1>3, <1>4 DEF Grows, tables
<1>7. Onward(r)
  BY <1>1, <1>3, <1>6, HandlerMoves
<1>8. Aged'
  BY <1>1, <1>4, <1>7, AgedHandler DEF callers
<1>9. Asked(c, r)
  BY <1>1, <1>3, AwaitedRequest
<1>10. ASSUME NEW d \in Seeds, d # c PROVE Course(d)'
  <2>1. Still(d) /\ excuse'[d] = excuse[d]
    BY <1>2, <1>3, <1>4, <1>5, <1>10 DEF Still, CommandsOK, callers
  <2>2. \A q \in flight' : q.id[1] = d /\ ~q.awaited => q \in flight
    <3>1. ASSUME NEW q, Follows(r, q) PROVE q.id[1] = c
      BY <1>9, <3>1 DEF Follows, Continues, Asked
    <3> QED BY <1>7, <1>10, <3>1 DEF Onward
  <2> QED BY <1>1, <1>4, <2>1, <2>2, CourseBesides
<1>11. /\ step[c] \in 1..7 /\ step[c] \in 1..Len(Script) /\ r.op = Script[step[c]]
       /\ r.op \in Signing => r.body = account[c]
  BY <1>9 DEF Asked
<1>12. r.op = "register" <=> step[c] = 1
  BY <1>11, ScriptIs
<1>13. /\ step'[c] = IF step[c] = 1 THEN 2 ELSE Failed
       /\ excuse'[c] <=> excuse[c] \/ Spoils(r)
  BY <1>2, <1>3 DEF AfterError, CommandsOK
<1>14. Placed(c)'
  <2>1. CASE step[c] = 1
    <3>1. r.body = account[c]
      BY <1>11, <1>12, <2>1 DEF Signing
    <3>2. Mail(c)' = Canonical[r.body.email]
      BY <1>3, <3>1 DEF Mail
    <3>3. excuse'[c] \/ users'[Mail(c)'] # None
      BY <1>13, <3>2 DEF Spoils
    <3> QED BY <1>13, <2>1, <3>3 DEF Placed, Failed
  <2>2. CASE step[c] # 1
    <3>1. excuse'[c]
      BY <1>12, <1>13, <2>2 DEF Spoils
    <3> QED BY <1>13, <2>2, <3>1 DEF Placed, Failed
  <2> QED BY <2>1, <2>2
<1>15. Heard(c)'
  BY <1>3, <1>5 DEF Heard
<1>16. Furnished(c)'
  BY <1>13 DEF Furnished, Failed
<1> QED BY <1>8, <1>10, <1>14, <1>15, <1>16 DEF Course

\* A handler takes a step, or a statement of it fails.
LEMMA HandleCourse ==
    ASSUME SeedInv, NEW r \in flight, Handle(r) \/ Break(r)
    PROVE  Aged' /\ \A c \in Seeds : Course(c)'
<1>1. AccountInv /\ Aged /\ \A c \in Seeds : Course(c)
  BY SeedParts
<1>2. AttendedOK /\ FlightOK
  BY <1>1, AccountParts
<1>3. /\ UNCHANGED <<start, account, step, home, runs, used>>
      /\ Proceed(r) \/ Fails(r) \/ Unconfirmed(r)
      /\ UNCHANGED excuse \/ Excused(r)
  BY DEF Handle, Break
<1>4. UNCHANGED tables \/ InsertUser(r) \/ Writes(r)
  BY <1>3 DEF Proceed, Reads, AuthLimit, Login, Auth, Owner, Registered, Done, Refused,
              Fails, Unconfirmed
<1>5. Onward(r) /\ UNCHANGED <<sent, jar>>
  BY <1>1, <1>3, HandlerAttended DEF callers
<1>6. Aged'
  BY <1>1, <1>4, <1>5, AgedHandler
<1>7. ASSUME NEW c \in Seeds PROVE Course(c)'
  <2>1. Stays(c)
    BY <1>3, <1>5 DEF Stays
  <2>2. excuse[c] => excuse'[c]
    BY <1>3 DEF Excused
  <2>3. Kept(c)
    BY <1>1, <1>3, <1>4, <2>2, HandlerKeeps
  <2>4. Placed(c)'
    BY <1>1, <2>1, <2>3, PlacedKept DEF Course
  <2>5. CASE r \notin Awaited(c)
    <3>1. Awaited(c)' = Awaited(c)
      BY <1>2, <1>3, <1>5, <2>5, AttendedOnward
    <3>2. \A q \in Awaited(c) : Tells(c, q)'
      BY <1>1, <2>1, <2>3, TellsKept DEF Course, Heard
    <3>3. Heard(c)'
      BY <3>1, <3>2 DEF Heard
    <3>4. Furnished(c)'
      BY <1>1, <1>3, <1>4, <1>5, <2>3, <2>5, FurnishedBesides DEF Course
    <3> QED BY <2>4, <3>3, <3>4 DEF Course
  <2>6. CASE r \in Awaited(c)
    <3>1. Tells(c, r) /\ Placed(c)
      BY <1>1, <2>6 DEF Course, Heard
    <3>2. \A x \in Awaited(c)' : Tells(c, x)'
      BY <1>1, <2>6, <3>1, HandleTells, BreakTells
    <3>3. Heard(c)'
      BY <3>2 DEF Heard
    <3>4. r \in Req /\ r.awaited
      <4>1. Asked(c, r)
        BY <1>1, <2>6, AwaitedRequest
      <4> QED BY <4>1 DEF Asked
    <3>5. GoesOn(r)
      BY <1>3, <3>4, HandlerGoesOn
    <3>6. Furnished(c)'
      BY <1>1, <1>3, <1>4, <1>5, <2>3, <2>6, <3>5, FurnishedByOwn DEF Course
    <3> QED BY <2>4, <3>3, <3>6 DEF Course
  <2> QED BY <2>5, <2>6
<1> QED BY <1>6, <1>7

\* A browser takes an answer or gives it up.
LEMMA SeeCourse ==
    ASSUME SeedInv, NEW c \in Caller, NEW r \in flight, See(c, r)
    PROVE  Aged' /\ \A d \in Seeds : Course(d)'
<1>1. AccountInv /\ Aged /\ \A d \in Seeds : Course(d)
  BY SeedParts
<1>2. AttendedOK
  BY <1>1, AccountParts
<1>3. c \notin Seeds /\ r \in Awaited(c) /\ (Deliver(r) \/ GiveUp(r)) /\ UNCHANGED seedVars
  BY DEF See
<1>4. UNCHANGED <<step, account, home, used, excuse>> /\ UNCHANGED tables /\ UNCHANGED sent
  BY <1>3 DEF seedVars, Deliver, GiveUp, callers
<1>5. r.id[1] = c
  BY <1>3, AwaitedIs
<1>6. CASE Deliver(r)
  <2>1. /\ flight' = flight \ {r}
        /\ \A d \in Caller \ {c} :
              Awaited(d)' = Awaited(d) /\ sent'[d] = sent[d] /\ jar'[d] = jar[d]
    BY <1>1, <1>3, <1>4, <1>6, DeliverSound
  <2>2. \A d \in Seeds : Still(d)
    BY <1>3, <1>4, <2>1, SeedAssumption DEF Still
  <2>3. \A d \in Seeds : Course(d)'
    BY <1>1, <1>4, <2>1, <2>2, CourseBesides
  <2>4. Aged'
    BY <1>1, <1>4, <2>1, AgedLess
  <2> QED BY <2>3, <2>4
<1>7. CASE GiveUp(r)
  <2>1. Onward(r) /\ UNCHANGED callers
    BY <1>1, <1>4, <1>7, HandlerAttended
  <2>2. Aged'
    BY <1>1, <1>4, <2>1, AgedHandler
  <2>3. ASSUME NEW d \in Seeds PROVE Course(d)'
    <3>1. r \notin Awaited(d)
      BY <1>3, <1>5, AwaitedIs
    <3>2. Still(d)
      BY <1>2, <1>4, <2>1, <3>1, AttendedOnward DEF Still, callers
    <3>3. \A q \in flight' : q.id[1] = d /\ ~q.awaited => q \in flight
      <4>1. ASSUME NEW q, Follows(r, q) PROVE q.id[1] = c
        BY <1>5, <4>1 DEF Follows, Continues
      <4> QED BY <1>3, <2>1, <4>1 DEF Onward
    <3> QED BY <1>1, <1>4, <3>2, <3>3, CourseBesides
  <2> QED BY <2>2, <2>3
<1> QED BY <1>3, <1>6, <1>7

\* A session expires: an excuse for the command that has it.
LEMMA TimePassesCourse ==
    ASSUME SeedInv, NEW s \in sessions, TimePasses(s)
    PROVE  Aged' /\ \A c \in Seeds : Course(c)'
<1>1. AccountInv /\ Aged /\ \A c \in Seeds : Course(c)
  BY SeedParts
<1>2. /\ sessions' = sessions \ {s}
      /\ UNCHANGED <<users, projects, endpoints, keys, revoked, flight, callers>>
      /\ UNCHANGED <<start, account, step, home, runs, used>>
      /\ excuse' = [c \in Seeds |-> excuse[c] \/ s.token[1] = c]
  BY DEF TimePasses, Expire
<1>3. Aged'
  BY <1>1, <1>2 DEF Aged, AgedRequest, Older, callers
<1>4. ASSUME NEW c \in Seeds PROVE Course(c)'
  <2>1. Kept(c)
    <3>1. (excuse[c] => excuse'[c]) /\ (s.token[1] = c => excuse'[c])
      BY <1>2
    <3> QED BY <1>2, <3>1 DEF Kept
  <2>2. Awaited(c)' = Awaited(c) /\ Made(c)' = Made(c)
    BY <1>2 DEF Awaited, Made
  <2>3. Stays(c)
    BY <1>2 DEF Stays, callers
  <2>4. Placed(c)'
    BY <1>1, <2>1, <2>3, PlacedKept DEF Course
  <2>5. Heard(c)'
    <3>1. \A r \in Awaited(c) : Tells(c, r)'
      BY <1>1, <2>1, <2>3, TellsKept DEF Course, Heard
    <3> QED BY <2>2, <3>1 DEF Heard
  <2>6. Furnished(c)'
    BY <1>1, <1>2, <2>2, FurnishedKept DEF Course, callers
  <2> QED BY <2>4, <2>5, <2>6 DEF Course
<1> QED BY <1>3, <1>4

\* Every step keeps the invariant of the seed command.
LEMMA SeedStep == SeedInv /\ [Next]_vars => SeedInv'
<1> SUFFICES ASSUME SeedInv, [Next]_vars PROVE SeedInv'
  OBVIOUS
<1>1. AccountInv /\ Aged /\ \A c \in Seeds : Course(c)
  BY SeedParts
<1>2. AccountInv'
  BY <1>1, AccountStep
<1> SUFFICES Aged' /\ \A d \in Seeds : Course(d)'
  BY <1>2, SeedPartsNext
<1>3. CASE UNCHANGED vars
  <2>1. UNCHANGED tables /\ UNCHANGED <<flight, jar, sent>> /\ UNCHANGED seedVars
    BY <1>3 DEF vars, accountVars, callers
  <2>2. Aged'
    BY <1>1, <2>1, AgedLess
  <2>3. \A d \in Seeds : Still(d) /\ excuse'[d] = excuse[d]
    BY <2>1 DEF Still, Awaited, seedVars
  <2>4. \A d \in Seeds : Course(d)'
    BY <1>1, <2>1, <2>3, CourseBesides
  <2> QED BY <2>2, <2>4
<1>4. ASSUME NEW c \in Caller, CallOut(c) PROVE Aged' /\ \A d \in Seeds : Course(d)'
  BY <1>4, CallOutCourse
<1>5. ASSUME NEW c \in Caller, Browse(c) PROVE Aged' /\ \A d \in Seeds : Course(d)'
  BY <1>5, BrowseCourse
<1>6. ASSUME NEW c \in Caller, NEW p \in start[c].passwords, Run(c, p)
      PROVE  Aged' /\ \A d \in Seeds : Course(d)'
  BY <1>6, RunCourse
<1>7. ASSUME NEW c \in Caller, NEW r \in flight, Receive(c, r)
      PROVE  Aged' /\ \A d \in Seeds : Course(d)'
  BY <1>7, ReceiveCourse
<1>8. ASSUME NEW c \in Caller, NEW r \in flight, TimeOut(c, r)
      PROVE  Aged' /\ \A d \in Seeds : Course(d)'
  BY <1>8, TimeOutCourse
<1>9. ASSUME NEW c \in Caller, NEW r \in flight, See(c, r)
      PROVE  Aged' /\ \A d \in Seeds : Course(d)'
  BY <1>9, SeeCourse
<1>10. ASSUME NEW r \in flight, Handle(r) \/ Break(r) PROVE Aged' /\ \A d \in Seeds : Course(d)'
  BY <1>10, HandleCourse
<1>11. ASSUME NEW s \in sessions, TimePasses(s) PROVE Aged' /\ \A d \in Seeds : Course(d)'
  BY <1>11, TimePassesCourse
<1> QED BY <1>3, <1>4, <1>5, <1>6, <1>7, <1>8, <1>9, <1>10, <1>11 DEF Next

\* No command has been run.
LEMMA SeedInit == Init => SeedInv
<1> SUFFICES ASSUME Init PROVE SeedInv
  OBVIOUS
<1>1. AccountInv
  BY AccountInit
<1>2. flight = {} /\ endpoints = {} /\ step = [c \in Seeds |-> Idle]
  BY DEF Init, AccountsInit
<1>3. Aged
  BY <1>2 DEF Aged
<1>4. \A c \in Seeds : Course(c)
  BY <1>2 DEF Course, Placed, Heard, Furnished, Awaited, Idle, Failed
<1> QED BY <1>1, <1>3, <1>4, SeedParts

\* The invariant of the commands: what an answer says is so, and without an
\* excuse a command has a session from its third step on, which nothing but
\* time ends; nothing is made in its project but by the run that it is of.
THEOREM SeedInvariant == Spec => []SeedInv
<1> QED BY SeedInit, SeedStep, PTL DEF Spec

\* Seeding again works: a run without an excuse fails only if the password is
\* not that of the account, or too weak.
THEOREM SeedingFailsWithCause == Spec => []SeedFailsWithCause
<1>1. SeedInv => SeedFailsWithCause
  BY DEF SeedInv, Placed, SeedFailsWithCause
<1> QED BY <1>1, SeedInvariant, PTL

\* A set whose members are told apart by three kinds has three members.
LEMMA ThreeKinds ==
    ASSUME NEW S, \A k \in 4..6 : \E x \in S : x.kind = k,
           \A x \in S : x.kind \in 4..6, \A x, y \in S : x.kind = y.kind => x = y
    PROVE  {x.kind : x \in S} = 4..6 /\ Cardinality(S) = 3
<1>1. PICK a \in S : a.kind = 4
  BY 4 \in 4..6
<1>2. PICK b \in S : b.kind = 5
  BY 5 \in 4..6
<1>3. PICK d \in S : d.kind = 6
  BY 6 \in 4..6
<1>4. a # b /\ a # d /\ b # d
  BY <1>1, <1>2, <1>3
<1>5. PICK P : P = {a} \cup {b}
  OBVIOUS
<1>6. IsFiniteSet({a}) /\ Cardinality({a}) = 1
  BY FS_Singleton
<1>7. IsFiniteSet(P) /\ Cardinality(P) = 2
  <2>1. b \notin {a}
    BY <1>4
  <2>2. /\ IsFiniteSet({a} \cup {b})
        /\ Cardinality({a} \cup {b})
             = IF b \in {a} THEN Cardinality({a}) ELSE Cardinality({a}) + 1
    BY <1>6, FS_AddElement, Zenon
  <2> QED BY <1>5, <1>6, <2>1, <2>2
<1>8. S = P \cup {d}
  <2>1. ASSUME NEW x \in S PROVE x \in {a, b, d}
    <3>1. x.kind = 4 \/ x.kind = 5 \/ x.kind = 6
      BY <2>1
    <3> QED BY <1>1, <1>2, <1>3, <3>1
  <2> QED BY <1>5, <2>1
<1>9. Cardinality(S) = 3
  <2>1. d \notin P
    BY <1>4, <1>5
  <2>2. Cardinality(P \cup {d}) = IF d \in P THEN Cardinality(P) ELSE Cardinality(P) + 1
    BY <1>7, FS_AddElement, Zenon
  <2> QED BY <1>7, <1>8, <2>1, <2>2
<1>10. {x.kind : x \in S} = 4..6
  OBVIOUS
<1> QED BY <1>9, <1>10

\* A seed that has finished has left what it promises, whatever other runs and
\* requests have done.
THEOREM SeedingIsComplete == Spec => []SeededIsComplete
<1>1. ASSUME SeedInv PROVE SeededIsComplete
  <2>1. SUFFICES ASSUME NEW c \in Seeds, step[c] = Ready
                 PROVE  /\ home[c] \in Owned(Mail(c))
                        /\ users[Mail(c)] = account[c].password
                        /\ {e.kind : e \in Made(c)} = {i \in 1..Len(Script) : Script[i] = "endpoint"}
                        /\ Cardinality(Made(c)) = 3
                        /\ \E k \in keys : k.project = home[c] /\ k.id = <<c, sent[c]>>
    BY DEF SeededIsComplete
  <2>2. step[c] = 8 /\ Placed(c) /\ Furnished(c)
    BY <1>1, <2>1 DEF SeedInv, Ready, Script
  <2>3. home[c] \in Owned(Mail(c)) /\ users[Mail(c)] = account[c].password
    BY <2>2 DEF Placed
  <2>4. {e.kind : e \in Made(c)} = 4..6 /\ Cardinality(Made(c)) = 3
    <3>1. \A k \in 4..6 : \E x \in Made(c) : x.kind = k
      BY <2>2 DEF Furnished
    <3>2. \A x \in Made(c) : x.kind \in 4..6
      BY <2>2 DEF Furnished
    <3>3. \A x, y \in Made(c) : x.kind = y.kind => x = y
      BY <2>2 DEF Furnished
    <3> QED BY <3>1, <3>2, <3>3, ThreeKinds
  <2>5. {i \in 1..Len(Script) : Script[i] = "endpoint"} = 4..6
    BY DEF Script
  <2>6. \E k \in keys : k.project = home[c] /\ k.id = <<c, sent[c]>>
    BY <2>1, <2>2 DEF Furnished
  <2> QED BY <2>3, <2>4, <2>5, <2>6
<1> QED BY <1>1, SeedInvariant, PTL
==============================================================================
