------------------------------- MODULE Migrate -------------------------------
(***************************************************************************)
(* The schema migrations of backend/internal/db/migrate.go.                *)
(*                                                                         *)
(* Several processes may run Migrate at once, from images of different     *)
(* age; each works under a session-level advisory lock of PostgreSQL and   *)
(* commits every file together with its record.  A process may be told to  *)
(* stop (its context is cancelled) or may die between any two statements,  *)
(* and may be started again afterwards.                                    *)
(***************************************************************************)
EXTENDS Integers, FiniteSets

CONSTANTS
  Processes,
  Files,      \* Files[p]: version -> body, the files embedded in p's image
  Broken,     \* bodies PostgreSQL refuses to execute
  NoProcess

Versions == UNION {DOMAIN Files[p] : p \in Processes}
Bodies   == UNION {{Files[p][v] : v \in DOMAIN Files[p]} : p \in Processes}

\* Contents schema_migrations may have.
Rows == UNION {[S -> Bodies] : S \in SUBSET Versions}

ASSUME FilesAssumption ==
  \A p \in Processes : DOMAIN Files[p] \subseteq Nat /\ IsFiniteSet(DOMAIN Files[p])
ASSUME NoProcessAssumption == NoProcess \notin Processes

VARIABLES
  pc,       \* where each process is in Migrate
  result,   \* how its last call ended
  lock,     \* the session that holds the advisory lock
  table,    \* does schema_migrations exist?
  records,  \* its rows: version -> checksum of the body
  effects,  \* how often each version's body took effect
  known,    \* the rows a process has read (applied)
  todo      \* the files its loop has not dealt with yet

vars == <<pc, result, lock, table, records, effects, known, todo>>

Critical == {"create", "read", "loop", "body", "record", "unlock"}

Nothing == [v \in {} |-> 0]

Init ==
  /\ pc = [p \in Processes |-> "idle"]
  /\ result = [p \in Processes |-> "none"]
  /\ lock = NoProcess
  /\ table = FALSE
  /\ records = Nothing
  /\ effects = [v \in Versions |-> 0]
  /\ known = [p \in Processes |-> Nothing]
  /\ todo = [p \in Processes |-> {}]

GoTo(p, label) == pc' = [pc EXCEPT ![p] = label]

\* An error return: the deferred Rollback and then the deferred unlock.
FailWith(p, why) ==
  /\ GoTo(p, "unlock")
  /\ result' = [result EXCEPT ![p] = why]
  /\ UNCHANGED <<lock, table, records, effects, known, todo>>

\* Mutant: the files are taken newest first.
IsNext_NewestFirst(p, v) == v \in todo[p] /\ \A u \in todo[p] : u <= v

\* The names are sorted, so the loop meets the smallest version first.
IsNext(p, v) == v \in todo[p] /\ \A u \in todo[p] : v <= u

-----------------------------------------------------------------------------

Start(p) ==
  /\ pc[p] = "idle"
  /\ GoTo(p, "lock")
  /\ result' = [result EXCEPT ![p] = "none"]
  /\ UNCHANGED <<lock, table, records, effects, known, todo>>

\* Mutant: no advisory lock.
LockFree_NoLock(p) == TRUE

\* pg_advisory_lock waits until no other session holds the lock.
LockFree(p) == lock = NoProcess

AcquireLock(p) ==
  /\ pc[p] = "lock" /\ LockFree(p)
  /\ lock' = p
  /\ GoTo(p, "create")
  /\ UNCHANGED <<result, table, records, effects, known, todo>>

\* CREATE TABLE IF NOT EXISTS.
CreateTable(p) ==
  /\ pc[p] = "create"
  /\ table' = TRUE
  /\ GoTo(p, "read")
  /\ UNCHANGED <<result, lock, records, effects, known, todo>>

\* Mutant: the loop runs over a list that is not this image's own.
ReadApplied_AllVersions(p) ==
  /\ pc[p] = "read" /\ table
  /\ known' = [known EXCEPT ![p] = records]
  /\ todo' = [todo EXCEPT ![p] = Versions]
  /\ GoTo(p, "loop")
  /\ UNCHANGED <<result, lock, table, records, effects>>

\* appliedMigrations and migrationFiles, both after the lock is held.
ReadApplied(p) ==
  /\ pc[p] = "read" /\ table
  /\ known' = [known EXCEPT ![p] = records]
  /\ todo' = [todo EXCEPT ![p] = DOMAIN Files[p]]
  /\ GoTo(p, "loop")
  /\ UNCHANGED <<result, lock, table, records, effects>>

\* Mutant: a recorded version is skipped without a look at its checksum.
SkipApplied_AnyChecksum(p) ==
  /\ pc[p] = "loop"
  /\ \E v \in todo[p] :
       /\ IsNext(p, v)
       /\ v \in DOMAIN known[p]
       /\ todo' = [todo EXCEPT ![p] = @ \ {v}]
  /\ UNCHANGED <<pc, result, lock, table, records, effects, known>>

\* A file that was applied as it is: continue.
SkipApplied(p) ==
  /\ pc[p] = "loop"
  /\ \E v \in todo[p] :
       /\ IsNext(p, v)
       /\ v \in DOMAIN known[p] /\ known[p][v] = Files[p][v]
       /\ todo' = [todo EXCEPT ![p] = @ \ {v}]
  /\ UNCHANGED <<pc, result, lock, table, records, effects, known>>

\* A file that was edited after it was applied: an error.
RefuseEdited(p) ==
  /\ pc[p] = "loop"
  /\ \E v \in todo[p] :
       IsNext(p, v) /\ v \in DOMAIN known[p] /\ known[p][v] # Files[p][v]
  /\ FailWith(p, "edited")

\* applyMigration begins its transaction.
BeginFile(p) ==
  /\ pc[p] = "loop"
  /\ \E v \in todo[p] : IsNext(p, v) /\ v \notin DOMAIN known[p]
  /\ GoTo(p, "body")
  /\ UNCHANGED <<result, lock, table, records, effects, known, todo>>

\* What PostgreSQL makes of a body: what it creates must not exist yet.
Verdict(p, v) ==
  IF Files[p][v] \in Broken THEN "broken"
  ELSE IF effects[v] # 0 THEN "conflict" ELSE "none"

\* Mutant: the body commits on its own, before its record is written.
ExecuteBody_OwnCommit(p) ==
  /\ pc[p] = "body"
  /\ \E v \in todo[p] :
       /\ IsNext(p, v)
       /\ \/ /\ Verdict(p, v) # "none"
             /\ FailWith(p, Verdict(p, v))
          \/ /\ Verdict(p, v) = "none"
             /\ GoTo(p, "record")
             /\ effects' = [effects EXCEPT ![v] = @ + 1]
             /\ UNCHANGED <<result, lock, table, records, known, todo>>

\* The body runs inside the transaction: nobody else sees it before the commit.
ExecuteBody(p) ==
  /\ pc[p] = "body"
  /\ \E v \in todo[p] :
       /\ IsNext(p, v)
       /\ \/ /\ Verdict(p, v) # "none"
             /\ FailWith(p, Verdict(p, v))
          \/ /\ Verdict(p, v) = "none"
             /\ GoTo(p, "record")
             /\ UNCHANGED <<result, lock, table, records, effects, known, todo>>

\* The record (version is the primary key) and the commit of both.
RecordAndCommit(p) ==
  /\ pc[p] = "record"
  /\ \E v \in todo[p] :
       /\ IsNext(p, v)
       /\ IF v \in DOMAIN records
          THEN FailWith(p, "conflict")
          ELSE /\ records' = [u \in DOMAIN records \cup {v} |->
                                IF u = v THEN Files[p][v] ELSE records[u]]
               /\ effects' = [effects EXCEPT ![v] = @ + 1]
               /\ todo' = [todo EXCEPT ![p] = @ \ {v}]
               /\ GoTo(p, "loop")
               /\ UNCHANGED <<result, lock, table, known>>

Finish(p) ==
  /\ pc[p] = "loop" /\ todo[p] = {}
  /\ GoTo(p, "unlock")
  /\ result' = [result EXCEPT ![p] = "ok"]
  /\ UNCHANGED <<lock, table, records, effects, known, todo>>

\* Mutant: the unlock is not deferred, an error return goes past it.
Unlock_OnlyOnSuccess(p) ==
  /\ pc[p] = "unlock"
  /\ lock' = IF result[p] = "ok" THEN NoProcess ELSE lock
  /\ GoTo(p, "idle")
  /\ UNCHANGED <<result, table, records, effects, known, todo>>

Unlock(p) ==
  /\ pc[p] = "unlock"
  /\ lock' = NoProcess
  /\ GoTo(p, "idle")
  /\ UNCHANGED <<result, table, records, effects, known, todo>>

\* SIGTERM: the statement at hand fails with the context.  The unlock runs
\* without the cancelled context, or the broken session ends; either way the
\* lock is let go by Unlock.
Cancel(p) ==
  \/ /\ pc[p] \in Critical \ {"unlock"}
     /\ FailWith(p, "cancelled")
  \/ /\ pc[p] = "lock"
     /\ GoTo(p, "idle")
     /\ result' = [result EXCEPT ![p] = "cancelled"]
     /\ UNCHANGED <<lock, table, records, effects, known, todo>>

\* The process dies; its session, and with it the lock, outlives it a moment.
Crash(p) ==
  /\ pc[p] \in Critical \cup {"lock"}
  /\ GoTo(p, "crashed")
  /\ result' = [result EXCEPT ![p] = "none"]
  /\ UNCHANGED <<lock, table, records, effects, known, todo>>

\* PostgreSQL notices: it rolls back and releases what the session held.
SessionEnds(p) ==
  /\ pc[p] = "crashed"
  /\ lock' = IF lock = p THEN NoProcess ELSE lock
  /\ GoTo(p, "idle")
  /\ UNCHANGED <<result, table, records, effects, known, todo>>

Work(p) ==
  \/ CreateTable(p)
  \/ ReadApplied(p)
  \/ SkipApplied(p)
  \/ RefuseEdited(p)
  \/ BeginFile(p)
  \/ ExecuteBody(p)
  \/ RecordAndCommit(p)
  \/ Finish(p)
  \/ Unlock(p)
  \/ SessionEnds(p)

Next ==
  \E p \in Processes :
    Start(p) \/ AcquireLock(p) \/ Work(p) \/ Cancel(p) \/ Crash(p)

Spec == Init /\ [][Next]_vars

\* A running process goes on; PostgreSQL grants a lock in the order in which
\* it was asked for, so a waiting session is not passed over for ever.
FairSpec ==
  /\ Spec
  /\ \A p \in Processes : WF_vars(Work(p)) /\ SF_vars(AcquireLock(p))

-----------------------------------------------------------------------------
(* Properties                                                              *)

Outcomes == {"none", "ok", "edited", "broken", "conflict", "cancelled"}

TypeOK ==
  /\ pc \in [Processes -> Critical \cup {"idle", "lock", "crashed"}]
  /\ result \in [Processes -> Outcomes]
  /\ lock \in Processes \cup {NoProcess}
  /\ table \in BOOLEAN
  /\ records \in Rows
  /\ effects \in [Versions -> Nat]
  /\ known \in [Processes -> Rows]
  /\ todo \in [Processes -> SUBSET Versions]
  /\ \A p \in Processes : todo[p] \subseteq DOMAIN Files[p]

(* One migrator at a time, dead ones whose session lingers included.       *)
OneMigrator ==
  \A p, q \in Processes : pc[p] \in Critical /\ pc[q] \in Critical => p = q

(* A body took effect exactly when it is recorded, and only once: no crash *)
(* leaves the one without the other.                                       *)
RecordedIffApplied ==
  \A v \in Versions : effects[v] = IF v \in DOMAIN records THEN 1 ELSE 0

(* Why migrators do not disturb each other: who is past the lock holds it, *)
(* so what it read stays the whole truth; it has dealt with every file     *)
(* that is no longer in todo; and it only begins a file without a record.  *)
Undisturbed ==
  /\ \A p \in Processes : pc[p] \in Critical => lock = p
  /\ \A p \in Processes : pc[p] \in {"loop", "body", "record"} =>
       /\ \A v \in DOMAIN known[p] : v \in DOMAIN records /\ known[p][v] = records[v]
       /\ \A v \in DOMAIN records \cap todo[p] : v \in DOMAIN known[p]
       /\ \A v \in DOMAIN Files[p] \ todo[p] :
            v \in DOMAIN records /\ records[v] = Files[p][v]
  /\ \A p \in Processes : pc[p] \in {"body", "record"} =>
       \A v \in todo[p] : IsNext(p, v) => v \notin DOMAIN known[p]

(* "Two processes starting at the same time would otherwise race to create *)
(* the same table": no migrator fails because of another one.              *)
NoRace == \A p \in Processes : result[p] # "conflict"

(* A call that succeeded leaves every file of its image applied as it is:  *)
(* what the services compose starts afterwards rely on.                    *)
SuccessMeansCurrent ==
  \A p \in Processes : result[p] = "ok" =>
    \A v \in DOMAIN Files[p] : v \in DOMAIN records /\ records[v] = Files[p][v]

\* With releases that only append: what is recorded has all its elders.
NoGaps ==
  \A v \in DOMAIN records, p \in Processes : \A u \in DOMAIN Files[p] :
    u < v => u \in DOMAIN records

\* Releases only append files: an image that has a file has every older one.
AppendOnly ==
  \A p, q \in Processes : \A v \in DOMAIN Files[p], u \in DOMAIN Files[q] :
    u < v => u \in DOMAIN Files[p]

(* Then a file is only ever applied on top of all the older ones, whichever *)
(* images run in whichever order and wherever they stop.                   *)
AppliedInOrder ==
  [][AppendOnly =>
       \A v \in DOMAIN records' \ DOMAIN records : \A u \in DOMAIN records : u < v]_records

(* A call of Migrate ends, although others may be called again and again   *)
(* and may die with the lock in their hands.                               *)
CallsEnd == \A p \in Processes : pc[p] = "lock" ~> pc[p] = "idle"

=============================================================================
