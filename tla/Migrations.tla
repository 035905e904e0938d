------------------------------ MODULE Migrations ------------------------------
(***************************************************************************)
(* Apply of migrations/migrate.go, run at the same time by any number of   *)
(* processes: the migration job, the demo process of each replica, and     *)
(* releases that embed fewer files than others.                            *)
(*                                                                         *)
(* Apply is one transaction.  It takes an advisory lock that lives as long *)
(* as the transaction, and then goes through its embedded files in order:  *)
(* one that schema_migrations names is skipped, another one is executed    *)
(* and recorded.  A file creates tables, and PostgreSQL refuses to create  *)
(* one that exists; while another transaction holds the same table         *)
(* uncommitted, the statement waits.  A migrator that failed may be run    *)
(* again.                                                                  *)
(***************************************************************************)
EXTENDS Naturals

CONSTANTS
    Migrator,  \* the processes that call Apply
    Files,     \* how many migrations each of them embeds; file n is the nth
    MaxFaults, \* bound: failures of the database, the network or a context
    NONE

ASSUME MigratorAssumption ==
    /\ NONE \notin Migrator
    /\ Files \in [Migrator -> Nat]
    /\ MaxFaults \in Nat

VARIABLES
    schema,   \* files whose tables exist
    recorded, \* schema_migrations
    lock,     \* the transaction that holds the advisory lock
    apc,      \* where Apply is
    entry,    \* the file at hand
    ran,      \* files executed by the open transaction
    noted,    \* names it has inserted into schema_migrations
    collided, \* history: Apply failed because a table existed already
    faults

tx == <<lock, apc, entry, ran, noted>>
migVars == <<schema, recorded, tx, collided, faults>>

MigInit ==
    /\ schema = {}
    /\ recorded = {}
    /\ lock = NONE
    /\ apc = [m \in Migrator |-> "idle"]
    /\ entry = [m \in Migrator |-> 1]
    /\ ran = [m \in Migrator |-> {}]
    /\ noted = [m \in Migrator |-> {}]
    /\ collided = {}
    /\ faults = 0

-----------------------------------------------------------------------------
Step(m, label) == apc' = [apc EXCEPT ![m] = label]

\* The transaction ends, by COMMIT or by the deferred Rollback, and the
\* advisory lock with it.
EndTx(m, label) ==
    /\ Step(m, label)
    /\ lock' = IF lock = m THEN NONE ELSE lock
    /\ ran' = [ran EXCEPT ![m] = {}]
    /\ noted' = [noted EXCEPT ![m] = {}]
    /\ entry' = [entry EXCEPT ![m] = 1]

\* pool.Begin; also a new run of a migrator that returned.
BeginTx(m) ==
    /\ apc[m] \in {"idle", "failed"}
    /\ Step(m, "lock")
    /\ UNCHANGED <<schema, recorded, lock, entry, ran, noted, collided, faults>>

\* Faulty variant: nobody is waited for.
LockFreeAlways(m) == apc[m] = "lock"

\* pg_advisory_xact_lock waits while another transaction holds the lock.
LockFree(m) == apc[m] = "lock" /\ lock = NONE

TakeLock(m) ==
    /\ LockFree(m)
    /\ lock' = m
    /\ Step(m, "check")
    /\ UNCHANGED <<schema, recorded, entry, ran, noted, collided, faults>>

\* SELECT EXISTS: committed rows and the transaction's own.
Check(m) ==
    /\ apc[m] = "check"
    /\ entry[m] <= Files[m]
    /\ IF entry[m] \in recorded \cup noted[m]
       THEN entry' = [entry EXCEPT ![m] = @ + 1] /\ UNCHANGED apc
       ELSE Step(m, "execute") /\ UNCHANGED entry
    /\ UNCHANGED <<schema, recorded, lock, ran, noted, collided, faults>>

\* tx.Exec of the file's body.
Execute(m) ==
    /\ apc[m] = "execute"
    /\ \A o \in Migrator \ {m} : entry[m] \notin ran[o]
    /\ IF entry[m] \in schema
       THEN EndTx(m, "failed") /\ collided' = collided \cup {m}
       ELSE /\ ran' = [ran EXCEPT ![m] = @ \cup {entry[m]}]
            /\ Step(m, "record")
            /\ UNCHANGED <<lock, entry, noted, collided>>
    /\ UNCHANGED <<schema, recorded, faults>>

\* Faulty variant: the name is inserted outside the transaction.
RecordAtOnce(m) ==
    /\ apc[m] = "record"
    /\ recorded' = recorded \cup {entry[m]}
    /\ entry' = [entry EXCEPT ![m] = @ + 1]
    /\ Step(m, "check")
    /\ UNCHANGED <<schema, lock, ran, noted, collided, faults>>

\* INSERT INTO schema_migrations, and the next file.
Record(m) ==
    /\ apc[m] = "record"
    /\ noted' = [noted EXCEPT ![m] = @ \cup {entry[m]}]
    /\ entry' = [entry EXCEPT ![m] = @ + 1]
    /\ Step(m, "check")
    /\ UNCHANGED <<schema, recorded, lock, ran, collided, faults>>

\* COMMIT takes effect after the last file; its answer arrives, or is lost and
\* Apply returns an error all the same.
CommitTx(m, label) ==
    /\ apc[m] = "check"
    /\ entry[m] > Files[m]
    /\ schema' = schema \cup ran[m]
    /\ recorded' = recorded \cup noted[m]
    /\ EndTx(m, label)
    /\ UNCHANGED collided

Committed(m) == CommitTx(m, "applied") /\ UNCHANGED faults

Unconfirmed(m) ==
    /\ faults < MaxFaults
    /\ faults' = faults + 1
    /\ CommitTx(m, "failed")

\* A statement fails, the process dies, or the context ends: SIGTERM, or the
\* one minute that cmd/migrate gives itself.
Abandon(m) ==
    /\ apc[m] \in {"lock", "check", "execute", "record"}
    /\ EndTx(m, "failed")
    /\ UNCHANGED <<schema, recorded, collided>>

Fault(m) ==
    /\ faults < MaxFaults
    /\ faults' = faults + 1
    /\ Abandon(m)

Apply(m) ==
    \/ TakeLock(m) \/ Check(m) \/ Execute(m) \/ Record(m) \/ Committed(m)

Migrate(m) == Apply(m) \/ Unconfirmed(m) \/ Fault(m)

\* Any number of processes, which may be told to stop, too.
MigNext ==
    \E m \in Migrator :
        BeginTx(m) \/ Migrate(m) \/ (Abandon(m) /\ UNCHANGED faults)

MigSpec == MigInit /\ [][MigNext]_migVars

-----------------------------------------------------------------------------
(* Properties.                                                              *)

\* What schema_migrations says is what the database holds, and the files were
\* applied in order, none without those before it: whichever processes failed,
\* died or lost the answer to their COMMIT half way.
SchemaMatchesRecord ==
    /\ schema = recorded
    /\ \A n \in recorded : 1..n \subseteq recorded

\* No two migrators collide: Apply never fails because another process, with
\* an older or a newer set of files, has created the tables first.
MigratorsNeverCollide == collided = {}

MigTypeOK ==
    /\ schema \subseteq Nat \ {0}
    /\ recorded \subseteq Nat \ {0}
    /\ lock \in Migrator \cup {NONE}
    /\ apc \in [Migrator -> {"idle", "lock", "check", "execute", "record",
                            "applied", "failed"}]
    /\ entry \in [Migrator -> Nat \ {0}]
    /\ ran \in [Migrator -> SUBSET (Nat \ {0})]
    /\ noted \in [Migrator -> SUBSET (Nat \ {0})]

\* Apply has the lock and is going through its files.
Applying(m) == apc[m] \in {"check", "execute", "record"}

\* What Apply knows of the files before the one at hand: they are recorded, by
\* itself or by others, and what it ran it has noted.
Halfway(m) ==
    /\ lock = m
    /\ noted[m] \subseteq 1..(entry[m] - 1)
    /\ 1..(entry[m] - 1) \subseteq recorded \cup noted[m]
    /\ apc[m] = "execute" => entry[m] \notin recorded \cup noted[m]
    /\ ran[m] = IF apc[m] = "record" THEN noted[m] \cup {entry[m]} ELSE noted[m]

\* Apply returns without an error only when all its files are applied.
AppliedIsWhole ==
    \A m \in Migrator : apc[m] = "applied" => 1..Files[m] \subseteq schema

\* The inductive invariant.
MigInv ==
    /\ MigTypeOK
    /\ SchemaMatchesRecord
    /\ MigratorsNeverCollide
    /\ \A m \in Migrator :
         IF Applying(m) THEN Halfway(m)
         ELSE entry[m] = 1 /\ ran[m] = {} /\ noted[m] = {}
==============================================================================
