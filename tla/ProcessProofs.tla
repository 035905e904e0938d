---------------------------- MODULE ProcessProofs ----------------------------
(***************************************************************************)
(* Proofs about a process and its parts: Migrations, for any number of     *)
(* processes and files, WorkerPool, for every number of workers and rows,  *)
(* and Process, which is shown to implement both, for every number of      *)
(* connections and all timeouts that satisfy TimeoutAssumption.            *)
(***************************************************************************)
EXTENDS Process, FiniteSetTheorems, TLAPS
-----------------------------------------------------------------------------
(* Migrations.                                                             *)

\* A transaction that ends without COMMIT leaves the invariant in place:
\* nothing of what it did is kept, and the others never had the lock.
LEMMA RollbackInv ==
  ASSUME MigInv, NEW m \in Migrator, Abandon(m)
  PROVE  MigInv'
<1> USE MigratorAssumption
<1>1. MigTypeOK'
  BY DEF Abandon, EndTx, Step, MigInv, MigTypeOK
<1>2. SchemaMatchesRecord' /\ MigratorsNeverCollide'
  BY DEF Abandon, MigInv, SchemaMatchesRecord, MigratorsNeverCollide
<1>3. ASSUME NEW n \in Migrator
      PROVE  IF Applying(n)' THEN Halfway(n)'
             ELSE (entry[n] = 1 /\ ran[n] = {} /\ noted[n] = {})'
  <2>1. CASE n = m
    BY <2>1 DEF Abandon, EndTx, Step, Applying, MigInv, MigTypeOK
  <2>2. CASE n # m
    BY <2>2 DEF Abandon, EndTx, Step, Applying, Halfway, MigInv, MigTypeOK
  <2> QED BY <2>1, <2>2
<1> QED BY <1>1, <1>2, <1>3 DEF MigInv

\* COMMIT adds what the transaction has run and noted, which continue what
\* was recorded before.
LEMMA CommitInv ==
  ASSUME MigInv, NEW m \in Migrator, NEW label \in {"applied", "failed"},
         CommitTx(m, label)
  PROVE  MigInv'
<1> USE MigratorAssumption
<1>1. Halfway(m) /\ apc[m] = "check" /\ ran[m] = noted[m]
  BY DEF CommitTx, MigInv, Applying, Halfway
<1>2. MigTypeOK'
  <2>1. MigTypeOK /\ ran[m] \subseteq Nat \ {0} /\ noted[m] \subseteq Nat \ {0}
    BY DEF MigInv, MigTypeOK
  <2>2. schema' \subseteq Nat \ {0} /\ recorded' \subseteq Nat \ {0}
    BY <2>1 DEF CommitTx, MigTypeOK
  <2>3. lock' \in Migrator \cup {NONE}
    BY <2>1 DEF CommitTx, EndTx, MigTypeOK
  <2>4. apc' \in [Migrator -> {"idle", "lock", "check", "execute", "record",
                              "applied", "failed"}]
    BY <2>1 DEF CommitTx, EndTx, Step, MigTypeOK
  <2>5. entry' \in [Migrator -> Nat \ {0}]
    BY <2>1 DEF CommitTx, EndTx, MigTypeOK
  <2>6. /\ ran' \in [Migrator -> SUBSET (Nat \ {0})]
        /\ noted' \in [Migrator -> SUBSET (Nat \ {0})]
    BY <2>1 DEF CommitTx, EndTx, MigTypeOK
  <2> QED BY <2>2, <2>3, <2>4, <2>5, <2>6 DEF MigTypeOK
<1>3. schema' = recorded' /\ recorded' = recorded \cup noted[m]
  BY <1>1 DEF CommitTx, MigInv, SchemaMatchesRecord
<1>4. ASSUME NEW n \in recorded' PROVE 1..n \subseteq recorded'
  <2>1. CASE n \in recorded
    BY <1>3, <2>1 DEF MigInv, SchemaMatchesRecord
  <2>2. CASE n \in noted[m]
    <3>1. n \in Nat /\ entry[m] \in Nat /\ n <= entry[m] - 1
      BY <1>1, <2>2 DEF Halfway, MigInv, MigTypeOK
    <3>2. 1..n \subseteq 1..(entry[m] - 1)
      BY <3>1
    <3> QED BY <1>1, <1>3, <3>2 DEF Halfway
  <2> QED BY <1>3, <1>4, <2>1, <2>2
<1>5. SchemaMatchesRecord' /\ MigratorsNeverCollide'
  BY <1>3, <1>4 DEF CommitTx, MigInv, SchemaMatchesRecord, MigratorsNeverCollide
<1>6. ASSUME NEW n \in Migrator
      PROVE  IF Applying(n)' THEN Halfway(n)'
             ELSE (entry[n] = 1 /\ ran[n] = {} /\ noted[n] = {})'
  <2>1. CASE n = m
    BY <2>1 DEF CommitTx, EndTx, Step, Applying, MigInv, MigTypeOK
  <2>2. CASE n # m
    <3>1. ~Applying(n)
      BY <1>1, <2>2 DEF MigInv, Halfway
    <3> QED BY <2>2, <3>1 DEF CommitTx, EndTx, Step, Applying, MigInv, MigTypeOK
  <2> QED BY <2>1, <2>2
<1> QED BY <1>2, <1>5, <1>6 DEF MigInv

\* The steps inside the transaction.
LEMMA ApplyInv ==
  ASSUME MigInv, NEW m \in Migrator,
         TakeLock(m) \/ Check(m) \/ Execute(m) \/ Record(m)
  PROVE  MigInv'
<1> USE MigratorAssumption
<1>0. MigTypeOK
  BY DEF MigInv
<1>1. CASE TakeLock(m)
  <2>1. ~Applying(m) /\ \A n \in Migrator : ~Applying(n)
    BY <1>1 DEF TakeLock, LockFree, Applying, MigInv, Halfway
  <2>2. MigTypeOK' /\ SchemaMatchesRecord' /\ MigratorsNeverCollide'
    BY <1>1 DEF TakeLock, Step, MigInv, MigTypeOK, SchemaMatchesRecord,
                MigratorsNeverCollide
  <2>3. Halfway(m)'
    BY <1>1, <2>1 DEF TakeLock, Step, MigInv, MigTypeOK, Halfway
  <2>4. ASSUME NEW n \in Migrator, n # m
        PROVE  (~Applying(n) /\ entry[n] = 1 /\ ran[n] = {} /\ noted[n] = {})'
    BY <1>1, <2>1, <2>4 DEF TakeLock, Step, MigInv, MigTypeOK, Applying
  <2>5. Applying(m)'
    BY <1>1 DEF TakeLock, Step, MigInv, MigTypeOK, Applying
  <2> QED BY <2>2, <2>3, <2>4, <2>5 DEF MigInv
<1>2. ASSUME Applying(m) /\ Applying(m)' /\ Halfway(m)',
             UNCHANGED <<schema, recorded, lock, collided>>, MigTypeOK',
             \A n \in Migrator \ {m} :
                 /\ apc'[n] = apc[n] /\ entry'[n] = entry[n]
                 /\ ran'[n] = ran[n] /\ noted'[n] = noted[n]
      PROVE  MigInv'
  <2>1. SchemaMatchesRecord' /\ MigratorsNeverCollide'
    BY <1>2 DEF MigInv, SchemaMatchesRecord, MigratorsNeverCollide
  <2>2. ASSUME NEW n \in Migrator, n # m
        PROVE  IF Applying(n)' THEN Halfway(n)'
               ELSE (entry[n] = 1 /\ ran[n] = {} /\ noted[n] = {})'
    BY <1>2, <2>2 DEF MigInv, Applying, Halfway
  <2> QED BY <1>2, <2>1, <2>2 DEF MigInv
<1>3. CASE Check(m)
  <2>1. Applying(m) /\ Halfway(m) /\ entry[m] \in Nat \ {0}
    BY <1>0, <1>3 DEF Check, Applying, MigInv, MigTypeOK
  <2>2. MigTypeOK' /\ Applying(m)'
    BY <1>0, <1>3 DEF Check, Step, MigTypeOK, Applying
  <2>3. CASE entry[m] \in recorded \cup noted[m]
    <3>1. entry' = [entry EXCEPT ![m] = @ + 1] /\ UNCHANGED <<apc, lock, recorded, ran, noted>>
      BY <1>3, <2>3 DEF Check
    <3>2. entry'[m] = entry[m] + 1 /\ apc'[m] = "check"
      BY <1>0, <1>3, <3>1 DEF MigTypeOK, Check
    <3>3. 1..(entry'[m] - 1) = 1..(entry[m] - 1) \cup {entry[m]}
      BY <2>1, <3>2
    <3>4. Halfway(m)'
      BY <1>3, <2>1, <2>3, <3>1, <3>2, <3>3 DEF Halfway, Check
    <3> QED BY <1>0, <1>2, <1>3, <2>1, <2>2, <3>1, <3>4 DEF Check, MigTypeOK
  <2>4. CASE entry[m] \notin recorded \cup noted[m]
    <3>1. apc' = [apc EXCEPT ![m] = "execute"] /\ UNCHANGED <<entry, lock, recorded, ran, noted>>
      BY <1>3, <2>4 DEF Check, Step
    <3>2. Halfway(m)'
      BY <1>0, <1>3, <2>1, <2>4, <3>1 DEF Halfway, Check, MigTypeOK
    <3> QED BY <1>0, <1>2, <1>3, <2>1, <2>2, <3>1, <3>2 DEF Check, MigTypeOK
  <2> QED BY <2>3, <2>4
<1>4. CASE Execute(m)
  <2>1. Applying(m) /\ Halfway(m) /\ entry[m] \notin recorded \cup noted[m]
    BY <1>4 DEF Execute, Applying, MigInv, Halfway
  <2>2. entry[m] \notin schema
    BY <2>1 DEF MigInv, SchemaMatchesRecord
  <2>3. /\ ran' = [ran EXCEPT ![m] = @ \cup {entry[m]}]
        /\ apc' = [apc EXCEPT ![m] = "record"]
        /\ UNCHANGED <<lock, entry, noted, collided, schema, recorded>>
    BY <1>4, <2>2 DEF Execute, Step
  <2>4. Halfway(m)'
    BY <1>0, <1>4, <2>1, <2>3 DEF Halfway, MigTypeOK, Execute
  <2>5. MigTypeOK' /\ Applying(m)'
    BY <1>0, <2>3 DEF MigTypeOK, Applying
  <2> QED BY <1>0, <1>2, <2>1, <2>3, <2>4, <2>5 DEF MigTypeOK
<1>5. CASE Record(m)
  <2>1. Applying(m) /\ Halfway(m) /\ entry[m] \in Nat \ {0}
    BY <1>0, <1>5 DEF Record, Applying, MigInv, MigTypeOK
  <2>2. /\ noted'[m] = noted[m] \cup {entry[m]}
        /\ entry'[m] = entry[m] + 1 /\ apc'[m] = "check"
        /\ UNCHANGED <<lock, recorded, ran>>
    BY <1>0, <1>5 DEF Record, Step, MigTypeOK
  <2>3. 1..(entry'[m] - 1) = 1..(entry[m] - 1) \cup {entry[m]}
    BY <2>1, <2>2
  <2>4. Halfway(m)'
    BY <1>5, <2>1, <2>2, <2>3 DEF Halfway, Record
  <2>5. MigTypeOK' /\ Applying(m)'
    BY <1>0, <1>5 DEF Record, Step, MigTypeOK, Applying
  <2> QED BY <1>0, <1>2, <1>5, <2>1, <2>4, <2>5 DEF Record, Step, MigTypeOK
<1> QED BY <1>1, <1>3, <1>4, <1>5

\* The inductive invariant is preserved by every step.
LEMMA MigInvStep == MigInv /\ [MigNext]_migVars => MigInv'
<1> SUFFICES ASSUME MigInv, [MigNext]_migVars PROVE MigInv'
  OBVIOUS
<1>1. CASE UNCHANGED migVars
  BY <1>1 DEF migVars, tx, MigInv, MigTypeOK, SchemaMatchesRecord,
              MigratorsNeverCollide, Applying, Halfway
<1>2. ASSUME NEW m \in Migrator, BeginTx(m) PROVE MigInv'
  <2>1. MigTypeOK' /\ SchemaMatchesRecord' /\ MigratorsNeverCollide'
    BY <1>2 DEF BeginTx, Step, MigInv, MigTypeOK, SchemaMatchesRecord,
                MigratorsNeverCollide
  <2>2. ASSUME NEW n \in Migrator
        PROVE  IF Applying(n)' THEN Halfway(n)'
               ELSE (entry[n] = 1 /\ ran[n] = {} /\ noted[n] = {})'
    BY <1>2, <2>2 DEF BeginTx, Step, MigInv, MigTypeOK, Applying, Halfway
  <2> QED BY <2>1, <2>2 DEF MigInv
<1>3. ASSUME NEW m \in Migrator, Migrate(m) PROVE MigInv'
  <2>1. CASE Committed(m)
    BY <2>1, CommitInv DEF Committed
  <2>2. CASE Unconfirmed(m)
    BY <2>2, CommitInv DEF Unconfirmed
  <2>3. CASE Fault(m)
    BY <2>3, RollbackInv DEF Fault
  <2>4. CASE TakeLock(m) \/ Check(m) \/ Execute(m) \/ Record(m)
    BY <2>4, ApplyInv
  <2> QED BY <1>3, <2>1, <2>2, <2>3, <2>4 DEF Migrate, Apply
<1>4. ASSUME NEW m \in Migrator, Abandon(m) PROVE MigInv'
  BY <1>4, RollbackInv
<1> QED BY <1>1, <1>2, <1>3, <1>4 DEF MigNext

\* The inductive invariant of Apply holds however many processes run it.
THEOREM MigrationInvariant == MigSpec => []MigInv
<1>1. MigInit => MigInv
  BY MigratorAssumption DEF MigInit, MigInv, MigTypeOK, SchemaMatchesRecord,
     MigratorsNeverCollide, Applying
<1> QED BY <1>1, MigInvStep, PTL DEF MigSpec

\* What schema_migrations says is what the database holds, file by file and
\* in order, whichever processes fail, die or lose the answer to COMMIT.
THEOREM SchemaIsRecorded == MigSpec => []SchemaMatchesRecord
<1>1. MigInv => SchemaMatchesRecord
  BY DEF MigInv
<1> QED BY <1>1, MigrationInvariant, PTL

\* No process fails because another one has created its tables.
THEOREM MigratorsAgree == MigSpec => []MigratorsNeverCollide
<1>1. MigInv => MigratorsNeverCollide
  BY DEF MigInv
<1> QED BY <1>1, MigrationInvariant, PTL

\* The database never loses a file.
LEMMA SchemaGrows ==
  ASSUME [MigNext]_migVars PROVE schema \subseteq schema'
<1>1. CASE UNCHANGED migVars
  BY <1>1 DEF migVars
<1>2. ASSUME NEW m \in Migrator, BeginTx(m) \/ Abandon(m) PROVE schema \subseteq schema'
  BY <1>2 DEF BeginTx, Abandon
<1>3. ASSUME NEW m \in Migrator, Migrate(m) PROVE schema \subseteq schema'
  BY <1>3 DEF Migrate, Apply, TakeLock, Check, Execute, Record, Committed,
              Unconfirmed, CommitTx, Fault, Abandon
<1> QED BY <1>1, <1>2, <1>3 DEF MigNext

\* Apply returns without an error only when all its files are applied.
THEOREM ApplyIsWhole == MigSpec => []AppliedIsWhole
<1>1. MigInit => AppliedIsWhole
  BY DEF MigInit, AppliedIsWhole
<1>2. MigInv /\ AppliedIsWhole /\ [MigNext]_migVars => AppliedIsWhole'
  <2> SUFFICES ASSUME MigInv, AppliedIsWhole, [MigNext]_migVars,
                      NEW m \in Migrator, apc'[m] = "applied"
               PROVE  1..Files[m] \subseteq schema'
    BY DEF AppliedIsWhole
  <2> USE MigratorAssumption DEF MigInv
  <2>1. CASE apc[m] = "applied"
    BY <2>1, SchemaGrows DEF AppliedIsWhole
  <2>2. CASE apc[m] # "applied"
    <3>1. PICK n \in Migrator : BeginTx(n) \/ Migrate(n) \/ Abandon(n)
      BY <2>2 DEF MigNext, migVars, tx
    <3>2. Committed(n) /\ n = m
      BY <2>2, <3>1 DEF BeginTx, Migrate, Apply, TakeLock, Check, Execute, Record,
         Unconfirmed, Committed, CommitTx, Fault, Abandon, EndTx, Step, MigTypeOK
    <3>3. /\ Halfway(m) /\ ran[m] = noted[m] /\ schema = recorded
          /\ entry[m] \in Nat /\ entry[m] > Files[m] /\ Files[m] \in Nat
          /\ schema' = schema \cup ran[m]
      BY <3>2 DEF Committed, CommitTx, Applying, Halfway, SchemaMatchesRecord, MigTypeOK
    <3>4. 1..Files[m] \subseteq 1..(entry[m] - 1)
      BY <3>3
    <3> QED BY <3>3, <3>4 DEF Halfway
  <2> QED BY <2>1, <2>2
<1> QED BY <1>1, <1>2, MigrationInvariant, PTL DEF MigSpec

-----------------------------------------------------------------------------
(* WorkerPool.                                                             *)

\* Every variable keeps its type.
LEMMA PoolTypeStep == TypeOK /\ [Next]_vars => TypeOK'
<1> SUFFICES ASSUME TypeOK, [Next]_vars PROVE TypeOK'
  OBVIOUS
<1> USE DEF TypeOK, DispatcherPC, WorkerPC
<1>1. CASE UNCHANGED vars
  BY <1>1 DEF vars
<1>2. ASSUME NEW j \in Job, Arrive(j) PROVE TypeOK'
  BY <1>2 DEF Arrive
<1>3. CASE Shutdown \/ Tick
  <2>1. CASE Shutdown
    BY <2>1 DEF Shutdown
  <2>2. CASE Tick
    BY <2>2 DEF Tick
  <2> QED BY <1>3, <2>1, <2>2
<1>4. CASE Reserve \/ ClaimFails \/ Unreserve \/ Poll \/ GiveBack
  <2>1. CASE Reserve
    BY <2>1 DEF Reserve
  <2>2. CASE ClaimFails \/ Poll
    BY <2>2 DEF ClaimFails, Poll
  <2>3. CASE Unreserve \/ GiveBack
    BY <2>3 DEF Unreserve, GiveBack
  <2> QED BY <1>4, <2>1, <2>2, <2>3
<1>5. CASE Hand
  BY <1>5 DEF Hand
<1>6. CASE GiveUp \/ Stop \/ Close \/ Join
  BY <1>6 DEF GiveUp, Stop, Close, Join
<1>7. ASSUME NEW j \in Job, ClaimRow(j) PROVE TypeOK'
  BY <1>7 DEF ClaimRow
<1>8. ASSUME NEW w \in Worker, Take(w) PROVE TypeOK'
  <2>1. Head(jobs) \in Job /\ Tail(jobs) \in Seq(Job)
    BY <1>8 DEF Take
  <2> QED BY <1>8, <2>1 DEF Take
<1>9. ASSUME NEW w \in Worker, Complete(w) \/ Quit(w) PROVE TypeOK'
  BY <1>9 DEF Complete, Quit
<1>10. ASSUME NEW w \in Worker, Release(w) \/ Exit(w) PROVE TypeOK'
  BY <1>10 DEF Release, Exit
<1> QED
  BY <1>1, <1>2, <1>3, <1>4, <1>5, <1>6, <1>7, <1>8, <1>9, <1>10
     DEF Next, Dispatcher, Goroutine

\* The types hold initially.
LEMMA PoolTypeInit == Init => TypeOK
<1> SUFFICES ASSUME Init PROVE TypeOK
  OBVIOUS
<1>1. wpc \in [Worker -> WorkerPC] /\ work \in [Worker -> SUBSET Job]
  BY DEF Init, WorkerPC
<1>2. jobs \in Seq(Job) /\ slots \in Nat /\ disp \in DispatcherPC
  BY DEF Init, DispatcherPC
<1> QED BY <1>1, <1>2 DEF Init, TypeOK

\* The type invariant of the pool.
THEOREM PoolTypeCorrect == Spec => []TypeOK
  BY PoolTypeInit, PoolTypeStep, PTL DEF Spec

\* Counting workers: the occupied ones form a finite set no larger than the
\* pool, and one worker more or less changes their number by one.
LEMMA Counting ==
  ASSUME NEW S, S \subseteq Worker
  PROVE  /\ IsFiniteSet(S) /\ Cardinality(S) \in Nat /\ Cardinality(S) <= N
         /\ N \in Nat
         /\ \A w \in Worker \ S : Cardinality(S \cup {w}) = Cardinality(S) + 1
         /\ \A w \in S : Cardinality(S \ {w}) = Cardinality(S) - 1
<1>1. IsFiniteSet(S) /\ Cardinality(S) <= N
  BY WorkerAssumption, FS_Subset DEF N
<1>2. Cardinality(S) \in Nat /\ N \in Nat
  BY <1>1, WorkerAssumption, FS_CardinalityType DEF N
<1>3. \A w \in Worker \ S : Cardinality(S \cup {w}) = Cardinality(S) + 1
  BY <1>1, FS_AddElement
<1>4. \A w \in S : Cardinality(S \ {w}) = Cardinality(S) - 1
  BY <1>1, FS_RemoveElement
<1> QED BY <1>1, <1>2, <1>3, <1>4

\* The slots stay accounted for.
LEMMA SlotsStep ==
  TypeOK /\ SlotsAccountedFor /\ [Next]_vars => SlotsAccountedFor'
<1> SUFFICES ASSUME TypeOK, SlotsAccountedFor, [Next]_vars
             PROVE  SlotsAccountedFor'
  OBVIOUS
<1>0. /\ slots \in Nat /\ Len(jobs) \in Nat /\ N \in Nat
      /\ Cardinality(Occupied) \in Nat /\ Occupied \subseteq Worker
      /\ slots = Reserved + Len(jobs) + Cardinality(Occupied) /\ slots <= N
      /\ Reserved \in {0, 1}
  BY Counting DEF TypeOK, Occupied, Reserved, SlotsAccountedFor
<1> USE DEF SlotsAccountedFor
<1>1. ASSUME wpc' = wpc PROVE Occupied' = Occupied
  BY <1>1 DEF Occupied
<1>2. ASSUME UNCHANGED <<disp, slots, jobs, wpc>> PROVE SlotsAccountedFor'
  BY <1>0, <1>1, <1>2 DEF Reserved
<1>3. CASE UNCHANGED vars
  BY <1>2, <1>3 DEF vars
<1>4. ASSUME NEW j \in Job, Arrive(j) PROVE SlotsAccountedFor'
  BY <1>2, <1>4 DEF Arrive
<1>5. CASE Shutdown \/ Tick
  BY <1>2, <1>5 DEF Shutdown, Tick
<1>6. CASE Reserve
  BY <1>0, <1>1, <1>6 DEF Reserve, SlotFree, Reserved
<1>7. CASE ClaimFails \/ Poll \/ GiveUp \/ Stop \/ Close \/ Join
  BY <1>0, <1>1, <1>7
     DEF ClaimFails, Poll, GiveUp, Stop, Close, Join, Reserved
<1>8. ASSUME NEW j \in Job, ClaimRow(j) PROVE SlotsAccountedFor'
  BY <1>0, <1>1, <1>8 DEF ClaimRow, Reserved
<1>9. CASE Unreserve \/ GiveBack
  BY <1>0, <1>1, <1>9 DEF Unreserve, GiveBack, Reserved
<1>10. CASE Hand
  <2>1. Len(jobs') = Len(jobs) + 1
    BY <1>10 DEF Hand, TypeOK
  <2> QED BY <1>0, <1>1, <1>10, <2>1 DEF Hand, Reserved
<1>11. ASSUME NEW w \in Worker, Take(w) PROVE SlotsAccountedFor'
  <2>1. Len(jobs') = Len(jobs) - 1
    BY <1>11 DEF Take, TypeOK
  <2>2. Occupied' = Occupied \cup {w} /\ w \notin Occupied
    BY <1>11 DEF Take, TypeOK, Occupied
  <2>3. Cardinality(Occupied') = Cardinality(Occupied) + 1
    BY <1>0, <2>2, Counting
  <2>4. Reserved' = Reserved /\ slots' = slots
    BY <1>11 DEF Take, Reserved
  <2> QED BY <1>0, <2>1, <2>3, <2>4
<1>12. ASSUME NEW w \in Worker, Complete(w) \/ Quit(w)
       PROVE  SlotsAccountedFor'
  <2>1. Occupied' = Occupied
    BY <1>12 DEF Complete, Quit, TypeOK, Occupied
  <2> QED BY <1>0, <1>12, <2>1 DEF Complete, Quit, Reserved
<1>13. ASSUME NEW w \in Worker, Release(w) PROVE SlotsAccountedFor'
  <2>1. Occupied' = Occupied \ {w} /\ w \in Occupied
    BY <1>13 DEF Release, TypeOK, Occupied
  <2>2. Cardinality(Occupied') = Cardinality(Occupied) - 1
    BY <1>0, <2>1, Counting
  <2> QED BY <1>0, <1>13, <2>2 DEF Release, Reserved
<1>14. ASSUME NEW w \in Worker, Exit(w) PROVE SlotsAccountedFor'
  <2>1. Occupied' = Occupied
    BY <1>14 DEF Exit, TypeOK, Occupied
  <2> QED BY <1>0, <1>14, <2>1 DEF Exit, Reserved
<1> QED
  BY <1>3, <1>4, <1>5, <1>6, <1>7, <1>8, <1>9, <1>10, <1>11, <1>12, <1>13,
     <1>14
     DEF Next, Dispatcher, Goroutine

\* The stages of a shutdown keep their order.
LEMMA OrderStep ==
  TypeOK /\ ShutdownInOrder /\ [Next]_vars => ShutdownInOrder'
<1> SUFFICES ASSUME TypeOK, ShutdownInOrder, [Next]_vars
             PROVE  ShutdownInOrder'
  OBVIOUS
<1> USE DEF ShutdownInOrder
<1>1. ASSUME UNCHANGED <<disp, claim, jobs, closed, wpc, work>>
      PROVE  ShutdownInOrder'
  BY <1>1
<1>2. CASE UNCHANGED vars
  BY <1>1, <1>2 DEF vars
<1>3. ASSUME NEW j \in Job, Arrive(j) PROVE ShutdownInOrder'
  BY <1>1, <1>3 DEF Arrive
<1>4. CASE Shutdown \/ Tick
  BY <1>1, <1>4 DEF Shutdown, Tick
<1>5. CASE Reserve \/ ClaimFails \/ Unreserve \/ Poll \/ GiveUp \/ GiveBack
             \/ Stop
  BY <1>5 DEF Reserve, ClaimFails, Unreserve, Poll, GiveUp, GiveBack, Stop
<1>6. CASE Hand
  BY <1>6 DEF Hand
<1>7. CASE Close
  BY <1>7 DEF Close
<1>8. CASE Join
  BY <1>8 DEF Join
<1>9. ASSUME NEW j \in Job, ClaimRow(j) PROVE ShutdownInOrder'
  BY <1>9 DEF ClaimRow
<1>10. ASSUME NEW w \in Worker, Take(w) PROVE ShutdownInOrder'
  BY <1>10 DEF Take, TypeOK
<1>11. ASSUME NEW w \in Worker, Complete(w) \/ Quit(w) \/ Release(w)
       PROVE  ShutdownInOrder'
  BY <1>11 DEF Complete, Quit, Release, TypeOK
<1>12. ASSUME NEW w \in Worker, Exit(w) PROVE ShutdownInOrder'
  BY <1>12 DEF Exit, TypeOK
<1> QED
  BY <1>2, <1>3, <1>4, <1>5, <1>6, <1>7, <1>8, <1>9, <1>10, <1>11, <1>12
     DEF Next, Dispatcher, Goroutine

\* The inductive invariant of the pool holds in every state.
THEOREM PoolInvariant == Spec => []PoolInv
<1>1. Init => SlotsAccountedFor
  <2> SUFFICES ASSUME Init PROVE SlotsAccountedFor
    OBVIOUS
  <2>1. Occupied = {} /\ Reserved = 0 /\ Len(jobs) = 0 /\ slots = 0
    BY DEF Init, Occupied, Reserved
  <2>2. Cardinality({}) = 0
    BY FS_EmptySet
  <2>3. N \in Nat
    BY WorkerAssumption, FS_CardinalityType DEF N
  <2> QED BY <2>1, <2>2, <2>3 DEF SlotsAccountedFor
<1>2. Init => ShutdownInOrder
  BY DEF Init, ShutdownInOrder
<1>3. PoolInv /\ [Next]_vars => PoolInv'
  BY PoolTypeStep, SlotsStep, OrderStep DEF PoolInv
<1>4. Init => TypeOK
  BY PoolTypeInit
<1>5. Init => PoolInv
  BY <1>1, <1>2, <1>4 DEF PoolInv
<1> QED BY <1>3, <1>5, PTL DEF Spec

\* Slots are neither lost nor exceeded, for any number of workers.
THEOREM SlotsNeverLeak == Spec => []SlotsAccountedFor
  BY PoolInvariant, PTL DEF PoolInv

\* Every claimed row has an idle worker of its own.
THEOREM LeasesDoNotQueue == Spec => []ClaimedHasIdleWorker
<1>1. PoolInv => ClaimedHasIdleWorker
  <2> SUFFICES ASSUME PoolInv PROVE ClaimedHasIdleWorker
    OBVIOUS
  <2> DEFINE Idle == {w \in Worker : wpc[w] \in {"range", "exited"}}
  <2>1. Worker = Occupied \cup Idle /\ Occupied \cap Idle = {}
    BY DEF PoolInv, TypeOK, WorkerPC, Occupied
  <2>2. /\ IsFiniteSet(Occupied) /\ IsFiniteSet(Idle)
        /\ Cardinality(Occupied) \in Nat /\ Cardinality(Idle) \in Nat
    BY Counting DEF Occupied
  <2>3. N = Cardinality(Occupied) + Cardinality(Idle)
    <3>1. Cardinality(Occupied \cup Idle) =
            Cardinality(Occupied) + Cardinality(Idle)
              - Cardinality(Occupied \cap Idle)
      BY <2>2, FS_Union
    <3>2. Cardinality(Occupied \cap Idle) = 0
      BY <2>1, FS_EmptySet
    <3> QED BY <2>1, <2>2, <3>1, <3>2 DEF N
  <2>4. /\ slots = Reserved + Len(jobs) + Cardinality(Occupied)
        /\ slots <= N /\ Len(jobs) \in Nat
    BY DEF PoolInv, SlotsAccountedFor, TypeOK
  <2>5. (IF disp = "hand" THEN 1 ELSE 0) <= Reserved /\ Reserved \in {0, 1}
    BY DEF Reserved
  <2> HIDE DEF Idle
  <2>6. (IF disp = "hand" THEN 1 ELSE 0) + Len(jobs) <= Cardinality(Idle)
    BY <2>2, <2>3, <2>4, <2>5
  <2> QED BY <2>6 DEF ClaimedHasIdleWorker, Idle
<1> QED BY <1>1, PoolInvariant, PTL

\* No channel operation that the code takes for immediate can block.
THEOREM ChannelsNeverBlock == Spec => []NothingBlocks
<1>1. PoolInv => NothingBlocks
  <2> SUFFICES ASSUME PoolInv PROVE NothingBlocks
    OBVIOUS
  <2>1. /\ slots = Reserved + Len(jobs) + Cardinality(Occupied)
        /\ slots <= N /\ Len(jobs) \in Nat /\ N \in Nat
        /\ Cardinality(Occupied) \in Nat
    BY Counting DEF PoolInv, SlotsAccountedFor, TypeOK, Occupied
  <2>2. disp = "hand" => Len(jobs) < N
    BY <2>1 DEF Reserved
  <2>3. disp \in {"failed", "giveup"} => slots > 0
    BY <2>1 DEF Reserved
  <2>4. ASSUME NEW w \in Worker, wpc[w] = "release" PROVE slots > 0
    <3>1. w \in Occupied /\ Occupied \subseteq Worker
      BY <2>4 DEF Occupied
    <3>2. /\ Cardinality(Occupied \ {w}) = Cardinality(Occupied) - 1
          /\ Cardinality(Occupied \ {w}) \in Nat
      BY <3>1, Counting
    <3> QED BY <2>1, <3>2 DEF Reserved
  <2> QED BY <2>2, <2>3, <2>4 DEF NothingBlocks
<1> QED BY <1>1, PoolInvariant, PTL

\* When Run returns, nothing is left in the pool.
THEOREM RunReturnsClean == Spec => []CleanReturn
<1>1. PoolInv => CleanReturn
  <2> SUFFICES ASSUME PoolInv, disp = "returned"
               PROVE  /\ jobs = <<>> /\ claim = {} /\ slots = 0
                      /\ \A w \in Worker : wpc[w] = "exited" /\ work[w] = {}
    BY DEF CleanReturn
  <2>1. \A w \in Worker : wpc[w] = "exited" /\ work[w] = {}
    BY DEF PoolInv, ShutdownInOrder
  <2>2. jobs = <<>> /\ claim = {}
    BY <2>1, WorkerAssumption DEF PoolInv, ShutdownInOrder
  <2>3. Occupied = {} /\ Reserved = 0 /\ Len(jobs) = 0
    BY <2>1, <2>2 DEF Occupied, Reserved
  <2>4. slots = 0
    BY <2>3, FS_EmptySet DEF PoolInv, SlotsAccountedFor
  <2> QED BY <2>1, <2>2, <2>4
<1> QED BY <1>1, PoolInvariant, PTL

-----------------------------------------------------------------------------
(* Process.                                                                *)

\* A step of the process is one of Migrations or leaves its variables alone.
LEMMA ProcMigrates == [ProcNext]_procVars => [MigNext]_migVars
<1> SUFFICES ASSUME [ProcNext]_procVars PROVE [MigNext]_migVars
  OBVIOUS
<1> USE SelfAssumption
<1>1. CASE UNCHANGED migVars
  BY <1>1
<1>2. CASE MigrateBegin
  BY <1>2 DEF MigrateBegin, MigNext
<1>3. CASE MigrateStep
  BY <1>3 DEF MigrateStep, MigNext
<1>4. ASSUME NEW m \in Migrator \ {Self}, Elsewhere(m) PROVE MigNext
  BY <1>4 DEF Elsewhere, MigNext
<1>5. CASE UNCHANGED procVars
  BY <1>5 DEF procVars
<1>6. CASE \/ Load \/ Open \/ Migrated \/ Start \/ Wake \/ ShutdownServer
           \/ Finish \/ Deliver \/ ServerFails \/ Signal \/ Pass
  <2>1. UNCHANGED migVars
    BY <1>6 DEF Load, Open, Migrated, Start, Wake, ShutdownServer, Finish,
                Deliver, ServerFails, Signal, Pass
  <2> QED BY <2>1
<1>7. ASSUME NEW c \in Conn, Connect(c) \/ Handle(c) \/ Respond(c)
      PROVE  UNCHANGED migVars
  BY <1>7 DEF Connect, Handle, Respond
<1> QED BY <1>1, <1>2, <1>3, <1>4, <1>5, <1>6, <1>7 DEF ProcNext, Main

\* The process context may end at any time, which the pool calls Shutdown.
LEMMA ProcDelivers == TypeOK /\ [ProcNext]_procVars => [Next]_vars
<1> SUFFICES ASSUME TypeOK, [ProcNext]_procVars PROVE [Next]_vars
  OBVIOUS
<1>1. CASE Deliver
  BY <1>1 DEF Deliver, Next
<1>2. ASSUME cancelled' = TRUE \/ UNCHANGED cancelled,
             UNCHANGED <<due, disp, claim, slots, jobs, closed, tick,
                         wpc, work, handled, dropped>>
      PROVE  [Next]_vars
  BY <1>2 DEF Next, Shutdown, vars, TypeOK
<1>3. CASE Wake \/ Signal
  BY <1>2, <1>3 DEF Wake, Signal
<1>4. CASE \/ Load \/ Open \/ MigrateBegin \/ MigrateStep \/ Migrated \/ Start
           \/ ShutdownServer \/ Finish \/ ServerFails \/ Pass
           \/ UNCHANGED procVars
  <2>1. UNCHANGED vars
    BY <1>4 DEF Load, Open, MigrateBegin, MigrateStep, Migrated, Start,
                ShutdownServer, Finish, ServerFails, Pass, procVars
  <2> QED BY <2>1
<1>5. ASSUME NEW c \in Conn, Connect(c) \/ Handle(c) \/ Respond(c)
      PROVE  UNCHANGED vars
  BY <1>5 DEF Connect, Handle, Respond
<1>6. ASSUME NEW m \in Migrator \ {Self}, Elsewhere(m) PROVE UNCHANGED vars
  BY <1>6 DEF Elsewhere
<1> QED BY <1>1, <1>3, <1>4, <1>5, <1>6 DEF ProcNext, Main

\* In every process, beside any others, migrations are applied as Migrations
\* says: what is proved there holds of the composed system.
THEOREM ProcessMigrates == ProcSpec => MigSpec
<1>1. ProcInit => MigInit
  BY DEF ProcInit
<1> QED BY <1>1, ProcMigrates, PTL DEF ProcSpec, MigSpec

\* Inside app.Run, with its context ended by a signal or a failing server at
\* any moment, or the pool never started, Worker.Run behaves as WorkerPool
\* says.
THEOREM ProcessDelivers == ProcSpec => Spec
<1>1. ProcInit => Init
  BY DEF ProcInit
<1> QED BY <1>1, PoolTypeInit, PoolTypeStep, ProcDelivers, PTL DEF ProcSpec, Spec

-----------------------------------------------------------------------------
(* The order of Run.                                                        *)

\* Steps of the worker and of migrators leave the main goroutine alone.
LEMMA OthersInv ==
  ASSUME ProcInv, UNCHANGED <<web, run>>, schema \subseteq schema',
         disp = "returned" => disp' = "returned"
  PROVE  ProcInv'
  BY DEF ProcInv, ProcTypeOK, InOrder, InTime, UsesPools, ServesMigrated, web, run

\* Steps of connections between two ticks of the clock: each of them leaves
\* the others alone.
LEMMA ConnectionInv ==
  ASSUME ProcInv, NEW c \in Conn, NEW to \in {"none", "header", "handler"},
         UNCHANGED <<server, timer, run, disp, schema>>,
         conn' = [conn EXCEPT ![c] = to], age' = [age EXCEPT ![c] = 0],
         phase \notin {"load", "open", "migrate", "start"},
         to # "none" => phase \in {"serve", "shutdown"} /\ timer <= ReadHeaderTimeout,
         to = "header" => timer = 0
  PROVE  ProcInv'
<1> USE TimeoutAssumption
<1>1. ProcTypeOK' /\ InOrder' /\ ServesMigrated'
  BY DEF ProcInv, ProcTypeOK, InOrder, ServesMigrated, run
<1>2. ASSUME NEW d \in Conn PROVE InTime(d)'
  <2>1. CASE d = c
    BY <2>1 DEF ProcInv, ProcTypeOK, InTime, UsesPools, run
  <2>2. CASE d # c
    BY <2>2 DEF ProcInv, ProcTypeOK, InTime, UsesPools, run
  <2> QED BY <2>1, <2>2
<1> QED BY <1>1, <1>2 DEF ProcInv

\* Five seconds pass: a header that is late is cut, and nobody gets out of
\* step with the timer of Shutdown.
LEMMA PassInv == ASSUME ProcInv, Pass PROVE ProcInv'
<1> USE TimeoutAssumption DEF ProcInv
<1>1. age' \in [Conn -> Nat] /\ conn' \in [Conn -> {"none", "header", "handler"}]
  BY DEF Pass, Older, HeaderLate, ProcTypeOK
<1>2. timer' \in 0..ShutdownTimeout
  BY DEF Pass, ShutdownOver, ProcTypeOK
<1>3. ProcTypeOK'
  BY <1>1, <1>2 DEF Pass, ProcTypeOK, run
<1>4. InOrder' /\ ServesMigrated'
  BY DEF Pass, Serving, InOrder, ServesMigrated, ProcTypeOK, run, vars, migVars
<1>5. ASSUME NEW c \in Conn PROVE InTime(c)'
  BY DEF Pass, Serving, Older, HeaderLate, InTime, UsesPools, InOrder, ProcTypeOK, run
<1> QED BY <1>3, <1>4, <1>5

\* The steps of the main goroutine.
LEMMA MainInv ==
  ASSUME ProcInv, AppliedIsWhole,
         Load \/ Open \/ Migrated \/ Start \/ Wake \/ ShutdownServer \/ Finish
  PROVE  ProcInv'
<1> USE TimeoutAssumption, SelfAssumption DEF ProcInv
<1>1. CASE Load
  BY <1>1 DEF Load, Advance, Return, ProcTypeOK, InOrder, InTime, UsesPools,
              ServesMigrated, web, vars, migVars
<1>2. CASE Open
  BY <1>2 DEF Open, Return, ProcTypeOK, InOrder, InTime, UsesPools,
              ServesMigrated, web, vars, migVars
<1>3. CASE Migrated
  BY <1>3 DEF Migrated, Advance, Return, ProcTypeOK, InOrder, InTime, UsesPools,
              ServesMigrated, AppliedIsWhole, web, vars, migVars
<1>4. CASE Start
  BY <1>4 DEF Start, Advance, ProcTypeOK, InOrder, InTime, UsesPools,
              ServesMigrated, vars, migVars
<1>5. CASE Wake
  BY <1>5 DEF Wake, ProcTypeOK, InOrder, InTime, UsesPools,
              ServesMigrated, web, migVars
<1>6. CASE ShutdownServer
  <2>1. ASSUME NEW c \in Conn PROVE conn[c] # "header" /\ ~UsesPools(c)
    BY <1>6, <2>1 DEF ShutdownServer, ShutdownOver, InTime, UsesPools, ProcTypeOK
  <2>2. ProcTypeOK' /\ InOrder' /\ ServesMigrated'
    BY <1>6 DEF ShutdownServer, Advance, ProcTypeOK, InOrder, ServesMigrated,
                web, vars, migVars
  <2> QED BY <1>6, <2>1, <2>2 DEF ShutdownServer, Advance, InTime, UsesPools, web
<1>7. CASE Finish
  <2>1. ASSUME NEW c \in Conn PROVE conn[c] # "header" /\ ~UsesPools(c)
    BY <1>7, <2>1 DEF Finish, InTime, UsesPools
  <2>2. ProcTypeOK' /\ InOrder' /\ ServesMigrated'
    BY <1>7 DEF Finish, WorkerDone, Return, ProcTypeOK, InOrder, ServesMigrated,
                web, vars, migVars
  <2> QED BY <1>7, <2>1, <2>2 DEF Finish, Return, InTime, UsesPools, web
<1> QED BY <1>1, <1>2, <1>3, <1>4, <1>5, <1>6, <1>7

\* Every step of the process keeps the order of its phases and timers.
LEMMA ProcInvStep ==
  ProcInv /\ AppliedIsWhole /\ [ProcNext]_procVars => ProcInv'
<1> SUFFICES ASSUME ProcInv, AppliedIsWhole, [ProcNext]_procVars PROVE ProcInv'
  OBVIOUS
<1>0. schema \subseteq schema'
  BY ProcMigrates, SchemaGrows
<1>1. CASE Load \/ Open \/ Migrated \/ Start \/ Wake \/ ShutdownServer \/ Finish
  BY <1>1, MainInv
<1>2. CASE Pass
  BY <1>2, PassInv
<1>3. CASE MigrateBegin \/ MigrateStep \/ UNCHANGED procVars
  BY <1>0, <1>3, OthersInv DEF MigrateBegin, MigrateStep, procVars, vars
<1>4. ASSUME NEW m \in Migrator \ {Self}, Elsewhere(m) PROVE ProcInv'
  BY <1>0, <1>4, OthersInv DEF Elsewhere, vars
<1>5. CASE Deliver
  <2>1. disp = "returned" => disp' = "returned"
    BY <1>5 DEF Deliver, Dispatcher, Tick, Arrive, Goroutine, Reserve, ClaimFails,
       Unreserve, Poll, Hand, GiveUp, GiveBack, Stop, Close, Join, ClaimRow,
       Take, Complete, Quit, Release, Exit
  <2> QED BY <1>0, <1>5, <2>1, OthersInv DEF Deliver
<1>6. CASE Signal
  BY <1>6 DEF Signal, ProcInv, ProcTypeOK, InOrder, InTime, UsesPools,
              ServesMigrated, web, migVars
<1>7. CASE ServerFails
  BY <1>7 DEF ServerFails, ProcInv, ProcTypeOK, InOrder, InTime, UsesPools,
              ServesMigrated, run, vars, migVars
<1>8. ASSUME NEW c \in Conn, Connect(c) PROVE ProcInv'
  <2>1. timer = 0 /\ 0 <= ReadHeaderTimeout
    BY <1>8, TimeoutAssumption DEF Connect, ProcInv, InOrder
  <2> QED BY <1>8, <2>1, ConnectionInv DEF Connect, vars, migVars
<1>9. ASSUME NEW c \in Conn, Handle(c) PROVE ProcInv'
  <2>1. phase \in {"serve", "shutdown"} /\ timer <= ReadHeaderTimeout
    BY <1>9, TimeoutAssumption DEF Handle, ProcInv, ProcTypeOK, InTime
  <2> QED BY <1>9, <2>1, ConnectionInv DEF Handle, vars, migVars
<1>10. ASSUME NEW c \in Conn, Respond(c) PROVE ProcInv'
  BY <1>10, ConnectionInv DEF Respond, Serving, vars, migVars
<1> QED BY <1>1, <1>2, <1>3, <1>4, <1>5, <1>6, <1>7, <1>8, <1>9, <1>10
        DEF ProcNext, Main

\* The inductive invariant of app.Run.
THEOREM ProcessInvariant == ProcSpec => []ProcInv
<1>1. ProcInit => ProcInv
  <2> SUFFICES ASSUME ProcInit PROVE ProcInv
    OBVIOUS
  <2>1. ProcTypeOK
    <3>1. timer \in 0..ShutdownTimeout
      BY TimeoutAssumption DEF ProcInit
    <3>2. /\ conn \in [Conn -> {"none", "header", "handler"}]
          /\ age \in [Conn -> Nat]
      BY DEF ProcInit
    <3> QED BY <3>1, <3>2 DEF ProcInit, ProcTypeOK
  <2>2. InOrder /\ ServesMigrated /\ \A c \in Conn : InTime(c)
    BY DEF ProcInit, InOrder, ServesMigrated, InTime, UsesPools
  <2> QED BY <2>1, <2>2 DEF ProcInv
<1> QED BY <1>1, ProcInvStep, ProcessMigrates, ApplyIsWhole, PTL DEF ProcSpec

\* The pools are closed only when no handler may send a statement any more and
\* every worker goroutine has left, for any timeouts with ReadHeaderTimeout +
\* RequestTimeout <= ShutdownTimeout.
THEOREM PoolsAreClosedLast == ProcSpec => []PoolsOutliveUsers
<1>1. ProcInv /\ PoolInv => PoolsOutliveUsers
  BY DEF ProcInv, InOrder, InTime, PoolInv, ShutdownInOrder, PoolsOutliveUsers
<1> QED BY <1>1, ProcessInvariant, ProcessDelivers, PoolInvariant, PTL

\* A demo process serves and delivers on its own schema only, whatever other
\* processes do to the database.
THEOREM DemoServesMigrated == ProcSpec => []ServesMigrated
  BY ProcessInvariant, PTL DEF ProcInv

\* The worker of a process leases a row only for an idle goroutine and leaves
\* nothing behind, and the schema agrees with its record, in the composed
\* system too.
THEOREM ProcessKeepsParts ==
  ProcSpec => [](ClaimedHasIdleWorker /\ CleanReturn
                 /\ SchemaMatchesRecord /\ MigratorsNeverCollide)
  BY ProcessMigrates, ProcessDelivers, LeasesDoNotQueue, RunReturnsClean,
     SchemaIsRecorded, MigratorsAgree, PTL
==============================================================================
