------------------------------ MODULE MCProcess ------------------------------
(* One process in each mode, beside a migration job of an older release     *)
(* that knows one file less.  Time is in units of five seconds, with the    *)
(* timeouts of app.go and server.go.                                        *)
EXTENDS Process

Versions == [m \in Migrator |-> IF m = Self THEN 2 ELSE 1]
\* A demo process does what a worker does.
Modes == {"api", "demo"}

\* The rows that the pool has seen.
Rows == due \cup claim \cup handled \cup dropped
        \cup {jobs[i] : i \in DOMAIN jobs} \cup UNION {work[w] : w \in Worker}

\* Migrations elsewhere, connections and the rows of the queue share no
\* variable, so a behaviour need not be full of all three: one in which other
\* processes migrate has no row, and one with a connection at most one.  Nor
\* does the pool see why its context ended: a server that fails has a pool
\* with at most one row.
Lean ==
    /\ (\E m \in Migrator \ {Self} : apc[m] # "idle") => Rows = {}
    /\ server = "failed" \/ (\E c \in Conn : conn[c] # "none") =>
         Cardinality(Rows) <= 1

MCSpec == ProcInit /\ [][ProcNext /\ Lean']_procVars /\ ProcFairness
==============================================================================
