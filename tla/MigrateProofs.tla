---------------------------- MODULE MigrateProofs ----------------------------
(* Theorems about Migrate, for any number of processes and any releases.   *)
EXTENDS Migrate, Induction, FiniteSetTheorems

USE NoProcessAssumption DEF Critical

\* A row function that is extended by one row of an image stays one.
LEMMA AddRow ==
  ASSUME NEW r \in Rows, NEW p \in Processes, NEW v \in DOMAIN Files[p]
  PROVE  [u \in DOMAIN r \cup {v} |-> IF u = v THEN Files[p][v] ELSE r[u]] \in Rows
<1>1. v \in Versions /\ Files[p][v] \in Bodies
  BY DEF Versions, Bodies
<1>2. PICK S \in SUBSET Versions : r \in [S -> Bodies]
  BY DEF Rows
<1>3. S \cup {v} \in SUBSET Versions
  BY <1>1
<1>4. [u \in DOMAIN r \cup {v} |-> IF u = v THEN Files[p][v] ELSE r[u]] \in [S \cup {v} -> Bodies]
  BY <1>1, <1>2
<1> QED
  BY <1>3, <1>4 DEF Rows

\* No row at all is a possible content of the table.
LEMMA EmptyRows == Nothing \in Rows
<1>1. Nothing \in [{} -> Bodies]
  BY DEF Nothing
<1> QED
  BY <1>1 DEF Rows

\* The files of an image are versions.
LEMMA ImageVersions ==
  ASSUME NEW p \in Processes
  PROVE  DOMAIN Files[p] \subseteq Versions
BY DEF Versions

\* Every reachable state is well typed.
THEOREM TypeCorrect == Spec => []TypeOK
<1>1. Init => TypeOK
  <2> SUFFICES ASSUME Init
               PROVE  TypeOK
    OBVIOUS
  <2>1. records \in Rows /\ known \in [Processes -> Rows]
    BY EmptyRows DEF Init
  <2>2. todo \in [Processes -> SUBSET Versions] /\ \A p \in Processes : todo[p] \subseteq DOMAIN Files[p]
    BY DEF Init
  <2>3. effects \in [Versions -> Nat]
    BY DEF Init
  <2> QED
    BY <2>1, <2>2, <2>3 DEF Init, TypeOK, Outcomes
<1>2. TypeOK /\ [Next]_vars => TypeOK'
  <2> SUFFICES ASSUME TypeOK, [Next]_vars
               PROVE  TypeOK'
    OBVIOUS
  <2> USE DEF TypeOK, Outcomes, GoTo, FailWith
  <2>1. ASSUME NEW p \in Processes, Start(p) \/ AcquireLock(p) \/ CreateTable(p)
        PROVE  TypeOK'
    BY <2>1 DEF Start, AcquireLock, CreateTable
  <2>2. ASSUME NEW p \in Processes, ReadApplied(p)
        PROVE  TypeOK'
    BY <2>2, ImageVersions DEF ReadApplied
  <2>3. ASSUME NEW p \in Processes, SkipApplied(p)
        PROVE  TypeOK'
    BY <2>3 DEF SkipApplied
  <2>4. ASSUME NEW p \in Processes, RefuseEdited(p) \/ BeginFile(p) \/ Finish(p)
        PROVE  TypeOK'
    BY <2>4 DEF RefuseEdited, BeginFile, Finish
  <2>5. ASSUME NEW p \in Processes, ExecuteBody(p)
        PROVE  TypeOK'
    BY <2>5 DEF ExecuteBody, Verdict
  <2>6. ASSUME NEW p \in Processes, RecordAndCommit(p)
        PROVE  TypeOK'
    <3>1. PICK v \in todo[p] :
            IF v \in DOMAIN records
            THEN FailWith(p, "conflict")
            ELSE /\ records' = [u \in DOMAIN records \cup {v} |->
                                  IF u = v THEN Files[p][v] ELSE records[u]]
                 /\ effects' = [effects EXCEPT ![v] = @ + 1]
                 /\ todo' = [todo EXCEPT ![p] = @ \ {v}]
                 /\ GoTo(p, "loop")
                 /\ UNCHANGED <<result, lock, table, known>>
      BY <2>6 DEF RecordAndCommit
    <3>2. CASE v \in DOMAIN records
      BY <3>1, <3>2
    <3>3. CASE v \notin DOMAIN records
      <4>1. records' \in Rows
        <5>1. v \in DOMAIN Files[p] /\ records \in Rows
          OBVIOUS
        <5>2. records' = [u \in DOMAIN records \cup {v} |->
                            IF u = v THEN Files[p][v] ELSE records[u]]
          BY <3>1, <3>3
        <5> HIDE DEF TypeOK
        <5> QED
          BY <5>1, <5>2, AddRow
      <4>2. effects' \in [Versions -> Nat]
        BY <3>1, <3>3
      <4> QED
        BY <3>1, <3>3, <4>1, <4>2
    <3> QED
      BY <3>2, <3>3
  <2>7. ASSUME NEW p \in Processes, Unlock(p) \/ SessionEnds(p)
        PROVE  TypeOK'
    BY <2>7 DEF Unlock, SessionEnds
  <2>8. ASSUME NEW p \in Processes, Cancel(p) \/ Crash(p)
        PROVE  TypeOK'
    BY <2>8 DEF Cancel, Crash
  <2>9. ASSUME UNCHANGED vars
        PROVE  TypeOK'
    BY <2>9 DEF vars
  <2> QED
    BY <2>1, <2>2, <2>3, <2>4, <2>5, <2>6, <2>7, <2>8, <2>9 DEF Next, Work
<1> QED
  BY <1>1, <1>2, PTL DEF Spec

-----------------------------------------------------------------------------
(* The lock                                                                *)

\* What holds of every state, and is preserved by every step.
IInv == Undisturbed /\ RecordedIffApplied /\ NoRace /\ SuccessMeansCurrent

\* A file the lock holder is about to apply has no record and no effect yet.
LEMMA NextIsNew ==
  ASSUME TypeOK, IInv, NEW p \in Processes, pc[p] \in {"body", "record"},
         NEW v \in todo[p], IsNext(p, v)
  PROVE  v \notin DOMAIN records /\ effects[v] = 0
<1>1. v \in Versions
  BY DEF TypeOK
<1>2. v \notin DOMAIN records
  BY DEF IInv, Undisturbed
<1> QED
  BY <1>1, <1>2 DEF IInv, RecordedIffApplied

\* Steps of p that change neither the table nor what processes know of it.
LEMMA QuietStep ==
  ASSUME TypeOK, IInv, NEW p \in Processes,
         \A q \in Processes \ {p} : pc'[q] = pc[q] /\ result'[q] = result[q],
         UNCHANGED <<records, effects, known, todo>>,
         result'[p] # "conflict",
         result'[p] = "ok" => result[p] = "ok" \/ (pc[p] = "loop" /\ todo[p] = {}),
         pc'[p] \in {"body", "record"} =>
           \/ pc[p] \in {"body", "record"}
           \/ pc[p] = "loop" /\ \A v \in todo[p] : IsNext(p, v) => v \notin DOMAIN known[p],
         pc'[p] = "loop" => pc[p] = "loop",
         \/ lock' = lock /\ (pc'[p] \in Critical => pc[p] \in Critical)
         \/ lock = NoProcess /\ lock' = p
         \/ (lock = p \/ lock' = lock) /\ pc'[p] \notin Critical
  PROVE  IInv'
<1> USE DEF IInv
<1>1. RecordedIffApplied'
  BY DEF RecordedIffApplied
<1>2. NoRace'
  BY DEF NoRace, TypeOK
<1>3. SuccessMeansCurrent'
  BY DEF SuccessMeansCurrent, Undisturbed, TypeOK
<1>4. \A q \in Processes : pc'[q] \in Critical => lock' = q
  BY DEF Undisturbed, TypeOK
<1>5. \A q \in Processes : pc'[q] \in {"loop", "body", "record"} =>
        pc[q] \in {"loop", "body", "record"}
  BY DEF TypeOK
<1>6. \A q \in Processes : pc'[q] \in {"body", "record"} =>
        \A v \in todo[q] : IsNext(q, v) => v \notin DOMAIN known[q]
  BY DEF Undisturbed, TypeOK
<1> QED
  BY <1>1, <1>2, <1>3, <1>4, <1>5, <1>6 DEF Undisturbed, IsNext

\* Reading the table under the lock.
LEMMA ReadStep ==
  ASSUME TypeOK, IInv, NEW p \in Processes, ReadApplied(p)
  PROVE  IInv'
<1> USE DEF IInv, ReadApplied, GoTo
<1>1. RecordedIffApplied' /\ NoRace' /\ SuccessMeansCurrent'
  BY DEF RecordedIffApplied, NoRace, SuccessMeansCurrent
<1>2. ASSUME NEW q \in Processes, pc'[q] \in Critical
      PROVE  lock' = q
  BY <1>2 DEF Undisturbed, TypeOK
<1>3. ASSUME NEW q \in Processes, pc'[q] \in {"loop", "body", "record"}
      PROVE  q = p
  BY <1>3 DEF Undisturbed, TypeOK
<1>4. known'[p] = records /\ todo'[p] = DOMAIN Files[p] /\ pc'[p] = "loop"
  BY DEF TypeOK
<1> QED
  BY <1>1, <1>2, <1>3, <1>4 DEF Undisturbed

\* A file that is recorded already and unchanged.
LEMMA SkipStep ==
  ASSUME TypeOK, IInv, NEW p \in Processes, SkipApplied(p)
  PROVE  IInv'
<1> USE DEF IInv
<1>1. PICK v \in todo[p] :
        /\ IsNext(p, v)
        /\ v \in DOMAIN known[p] /\ known[p][v] = Files[p][v]
        /\ todo' = [todo EXCEPT ![p] = @ \ {v}]
  BY DEF SkipApplied
<1>2. UNCHANGED <<pc, result, lock, table, records, effects, known>> /\ pc[p] = "loop"
  BY DEF SkipApplied
<1>3. RecordedIffApplied' /\ NoRace' /\ SuccessMeansCurrent'
  BY <1>2 DEF RecordedIffApplied, NoRace, SuccessMeansCurrent
<1>4. v \in DOMAIN records /\ records[v] = Files[p][v]
  BY <1>1, <1>2 DEF Undisturbed
<1>5. todo'[p] = todo[p] \ {v} /\ \A q \in Processes \ {p} : todo'[q] = todo[q]
  BY <1>1 DEF TypeOK
<1> QED
  BY <1>2, <1>3, <1>4, <1>5 DEF Undisturbed, IsNext

\* The commit of a file together with its record.
LEMMA CommitStep ==
  ASSUME TypeOK, IInv, NEW p \in Processes, RecordAndCommit(p)
  PROVE  IInv'
<1> USE DEF IInv
<1>1. PICK v \in todo[p] :
        /\ IsNext(p, v)
        /\ IF v \in DOMAIN records
           THEN FailWith(p, "conflict")
           ELSE /\ records' = [u \in DOMAIN records \cup {v} |->
                                 IF u = v THEN Files[p][v] ELSE records[u]]
                /\ effects' = [effects EXCEPT ![v] = @ + 1]
                /\ todo' = [todo EXCEPT ![p] = @ \ {v}]
                /\ GoTo(p, "loop")
                /\ UNCHANGED <<result, lock, table, known>>
  BY DEF RecordAndCommit
<1>2. pc[p] = "record" /\ lock = p
  BY DEF RecordAndCommit, Undisturbed
<1>3. v \notin DOMAIN records /\ effects[v] = 0 /\ v \in Versions
  BY <1>1, <1>2, NextIsNew DEF TypeOK
<1>4. /\ DOMAIN records' = DOMAIN records \cup {v}
      /\ records'[v] = Files[p][v]
      /\ \A u \in DOMAIN records : records'[u] = records[u]
  BY <1>1, <1>3
<1>5. /\ todo'[p] = todo[p] \ {v} /\ \A q \in Processes \ {p} : todo'[q] = todo[q]
      /\ pc'[p] = "loop" /\ \A q \in Processes \ {p} : pc'[q] = pc[q]
      /\ UNCHANGED <<result, lock, known>>
  BY <1>1, <1>3 DEF TypeOK, GoTo
<1>6. RecordedIffApplied'
  BY <1>1, <1>3, <1>4 DEF RecordedIffApplied, TypeOK
<1>7. NoRace' /\ SuccessMeansCurrent'
  BY <1>4, <1>5 DEF NoRace, SuccessMeansCurrent
<1>8. Undisturbed'
  <2>1. \A q \in Processes : pc'[q] \in Critical => lock' = q
    BY <1>2, <1>5 DEF Undisturbed
  <2>2. \A q \in Processes : pc'[q] \in {"loop", "body", "record"} => q = p
    BY <1>2, <2>1, <1>5
  <2>3. /\ \A u \in DOMAIN known'[p] : u \in DOMAIN records' /\ known'[p][u] = records'[u]
        /\ \A u \in DOMAIN records' \cap todo'[p] : u \in DOMAIN known'[p]
        /\ \A u \in DOMAIN Files[p] \ todo'[p] :
             u \in DOMAIN records' /\ records'[u] = Files[p][u]
    BY <1>2, <1>3, <1>4, <1>5 DEF Undisturbed
  <2> QED
    BY <2>1, <2>2, <2>3, <1>5 DEF Undisturbed
<1> QED
  BY <1>6, <1>7, <1>8

\* Migrators do not disturb each other, whatever crashes between them, and
\* what has been recorded is what has taken effect.
THEOREM LockProtects == Spec => []IInv
<1>1. Init => IInv
  BY DEF Init, IInv, Undisturbed, RecordedIffApplied, NoRace, SuccessMeansCurrent, Nothing
<1>2. TypeOK /\ IInv /\ [Next]_vars => IInv'
  <2> SUFFICES ASSUME TypeOK, IInv, [Next]_vars
               PROVE  IInv'
    OBVIOUS
  <2> USE DEF GoTo, FailWith
  <2>1. ASSUME NEW p \in Processes, Start(p) \/ AcquireLock(p) \/ CreateTable(p)
        PROVE  IInv'
    <3>1. result[p] # "conflict" /\ result'[p] \in {"none", result[p]}
      BY <2>1 DEF Start, AcquireLock, CreateTable, TypeOK, IInv, NoRace
    <3> QED
      BY <2>1, <3>1, QuietStep DEF Start, AcquireLock, LockFree, CreateTable, TypeOK
  <2>2. ASSUME NEW p \in Processes, ReadApplied(p)
        PROVE  IInv'
    BY <2>2, ReadStep
  <2>3. ASSUME NEW p \in Processes, SkipApplied(p)
        PROVE  IInv'
    BY <2>3, SkipStep
  <2>4. ASSUME NEW p \in Processes, RefuseEdited(p) \/ BeginFile(p) \/ Finish(p)
        PROVE  IInv'
    <3>1. CASE RefuseEdited(p)
      BY <3>1, QuietStep DEF RefuseEdited, TypeOK
    <3>2. CASE BeginFile(p)
      <4>1. \A v \in todo[p] : IsNext(p, v) => v \notin DOMAIN known[p]
        <5>1. PICK u \in todo[p] : IsNext(p, u) /\ u \notin DOMAIN known[p]
          BY <3>2 DEF BeginFile
        <5>2. ASSUME NEW v \in todo[p], IsNext(p, v)
              PROVE  v = u
          BY <5>1, <5>2, FilesAssumption DEF IsNext, TypeOK
        <5> QED
          BY <5>1, <5>2
      <4> QED
        BY <3>2, <4>1, QuietStep DEF BeginFile, TypeOK, IInv, NoRace
    <3>3. CASE Finish(p)
      BY <3>3, QuietStep DEF Finish, TypeOK
    <3> QED
      BY <2>4, <3>1, <3>2, <3>3
  <2>5. ASSUME NEW p \in Processes, ExecuteBody(p)
        PROVE  IInv'
    <3>1. PICK v \in todo[p] :
            /\ IsNext(p, v)
            /\ \/ /\ Verdict(p, v) # "none"
                  /\ FailWith(p, Verdict(p, v))
               \/ /\ Verdict(p, v) = "none"
                  /\ GoTo(p, "record")
                  /\ UNCHANGED <<result, lock, table, records, effects, known, todo>>
      BY <2>5 DEF ExecuteBody
    <3>2. pc[p] = "body" /\ effects[v] = 0
      BY <2>5, <3>1, NextIsNew DEF ExecuteBody
    <3>3. Verdict(p, v) \in {"none", "broken"}
      BY <3>2 DEF Verdict
    <3> QED
      BY <3>1, <3>2, <3>3, QuietStep DEF TypeOK, IInv, NoRace
  <2>6. ASSUME NEW p \in Processes, RecordAndCommit(p)
        PROVE  IInv'
    BY <2>6, CommitStep
  <2>7. ASSUME NEW p \in Processes, Unlock(p) \/ SessionEnds(p)
        PROVE  IInv'
    <3>1. result' = result /\ result[p] # "conflict"
      BY <2>7 DEF Unlock, SessionEnds, IInv, NoRace
    <3>2. pc'[p] = "idle" /\ \A q \in Processes \ {p} : pc'[q] = pc[q]
      BY <2>7 DEF Unlock, SessionEnds, TypeOK
    <3>3. lock = p \/ lock' = lock
      BY <2>7 DEF Unlock, SessionEnds, IInv, Undisturbed
    <3> QED
      BY <2>7, <3>1, <3>2, <3>3, QuietStep DEF Unlock, SessionEnds
  <2>8. ASSUME NEW p \in Processes, Cancel(p) \/ Crash(p)
        PROVE  IInv'
    BY <2>8, QuietStep DEF Cancel, Crash, TypeOK
  <2>9. ASSUME UNCHANGED vars
        PROVE  IInv'
    BY <2>9 DEF vars, IInv, Undisturbed, RecordedIffApplied, NoRace, SuccessMeansCurrent, IsNext
  <2> QED
    BY <2>1, <2>2, <2>3, <2>4, <2>5, <2>6, <2>7, <2>8, <2>9 DEF Next, Work
<1> QED
  BY <1>1, <1>2, TypeCorrect, PTL DEF Spec

\* At most one session is past the lock.
THEOREM MutualExclusion == Spec => []OneMigrator
<1>1. IInv => OneMigrator
  BY DEF IInv, Undisturbed, OneMigrator
<1> QED
  BY <1>1, LockProtects, PTL

\* The record and the effect of a body come and stay together.
THEOREM AppliedExactlyOnce == Spec => []RecordedIffApplied
<1>1. IInv => RecordedIffApplied
  BY DEF IInv
<1> QED
  BY <1>1, LockProtects, PTL

\* No migrator fails because another one ran the same file.
THEOREM NoMigratorRaces == Spec => []NoRace
<1>1. IInv => NoRace
  BY DEF IInv
<1> QED
  BY <1>1, LockProtects, PTL

\* After a successful call the schema has every file of the image.
THEOREM SuccessIsCurrent == Spec => []SuccessMeansCurrent
<1>1. IInv => SuccessMeansCurrent
  BY DEF IInv
<1> QED
  BY <1>1, LockProtects, PTL

-----------------------------------------------------------------------------
(* The order of the files                                                  *)

\* The only step that adds a record adds the next file of its process.
LEMMA NewRecord ==
  ASSUME TypeOK, IInv, [Next]_vars, records' # records
  PROVE  \E p \in Processes : \E v \in todo[p] :
           /\ pc[p] = "record" /\ IsNext(p, v) /\ v \notin DOMAIN records
           /\ DOMAIN records' = DOMAIN records \cup {v}
           /\ \A u \in DOMAIN Files[p] : u < v => u \in DOMAIN records
<1>1. PICK p \in Processes : RecordAndCommit(p)
  BY DEF Next, Work, Start, AcquireLock, CreateTable, ReadApplied, SkipApplied, RefuseEdited,
         BeginFile, ExecuteBody, Finish, Unlock, SessionEnds, Cancel, Crash, FailWith, vars
<1>2. PICK v \in todo[p] :
        /\ IsNext(p, v) /\ v \notin DOMAIN records
        /\ DOMAIN records' = DOMAIN records \cup {v}
  BY <1>1 DEF RecordAndCommit, FailWith
<1>3. pc[p] = "record" /\ v \in Nat
  BY <1>1, FilesAssumption DEF RecordAndCommit, TypeOK
<1>4. ASSUME NEW u \in DOMAIN Files[p], u < v
      PROVE  u \in DOMAIN records
  <2>1. u \notin todo[p]
    BY <1>2, <1>3, <1>4, FilesAssumption DEF IsNext
  <2> QED
    BY <1>3, <2>1 DEF IInv, Undisturbed
<1> QED
  BY <1>2, <1>3, <1>4

\* If releases only append files, every file is applied on top of all the
\* older ones.
THEOREM InOrder == Spec => AppliedInOrder
<1>1. Init => NoGaps
  BY DEF Init, NoGaps, Nothing
<1>2. ASSUME TypeOK, IInv, NoGaps, [Next]_vars, AppendOnly
      PROVE  NoGaps'
  <2>1. CASE records' = records
    BY <1>2, <2>1 DEF NoGaps
  <2>2. CASE records' # records
    <3>1. PICK p \in Processes : \E v \in todo[p] :
            /\ DOMAIN records' = DOMAIN records \cup {v}
            /\ \A u \in DOMAIN Files[p] : u < v => u \in DOMAIN records
      BY <1>2, <2>2, NewRecord
    <3>2. PICK v \in todo[p] :
            /\ DOMAIN records' = DOMAIN records \cup {v}
            /\ \A u \in DOMAIN Files[p] : u < v => u \in DOMAIN records
      BY <3>1
    <3>3. v \in DOMAIN Files[p]
      BY <1>2 DEF TypeOK
    <3>4. ASSUME NEW q \in Processes, NEW u \in DOMAIN Files[q], u < v
          PROVE  u \in DOMAIN records
      BY <1>2, <3>2, <3>3, <3>4 DEF AppendOnly
    <3> QED
      BY <1>2, <3>2, <3>4 DEF NoGaps
  <2> QED
    BY <2>1, <2>2
<1>3. ASSUME TypeOK, IInv, NoGaps, [Next]_vars, AppendOnly,
             NEW w \in DOMAIN records' \ DOMAIN records, NEW u \in DOMAIN records
      PROVE  u < w
  <2>1. PICK p \in Processes : \E v \in todo[p] :
          v \notin DOMAIN records /\ DOMAIN records' = DOMAIN records \cup {v}
    BY <1>3, NewRecord
  <2>2. w \in DOMAIN Files[p] /\ w \in Nat
    BY <1>3, <2>1, FilesAssumption DEF TypeOK
  <2>3. u \in Nat
    BY <1>3, FilesAssumption DEF TypeOK, Rows, Versions
  <2>4. ~ (w < u)
    BY <1>3, <2>2 DEF NoGaps
  <2> QED
    BY <1>3, <2>2, <2>3, <2>4
<1>4. CASE AppendOnly
  <2>1. TypeOK /\ IInv /\ NoGaps /\ [Next]_vars => NoGaps'
    BY <1>2, <1>4
  <2>2. TypeOK /\ IInv /\ NoGaps /\ [Next]_vars =>
          [AppendOnly =>
             \A v \in DOMAIN records' \ DOMAIN records : \A u \in DOMAIN records : u < v]_records
    BY <1>3, <1>4
  <2> QED
    BY <1>1, <2>1, <2>2, TypeCorrect, LockProtects, PTL DEF Spec, AppliedInOrder
<1>5. CASE ~ AppendOnly
  <2>1. [Next]_vars =>
          [AppendOnly =>
             \A v \in DOMAIN records' \ DOMAIN records : \A u \in DOMAIN records : u < v]_records
    BY <1>5
  <2> QED
    BY <2>1, PTL DEF Spec, AppliedInOrder
<1> QED
  BY <1>4, <1>5

-----------------------------------------------------------------------------
(* Calls end                                                               *)

\* The lock is held by a session whose process is past it or has died, and a
\* process is only sent on to what it can do.
Holding ==
  /\ lock # NoProcess => pc[lock] \in Critical \cup {"crashed"}
  /\ \A p \in Processes : pc[p] = "read" => table
  /\ \A p \in Processes : pc[p] \in {"body", "record"} => todo[p] # {}

LEMMA HoldingKept == TypeOK /\ IInv /\ Holding /\ [Next]_vars => Holding'
<1> SUFFICES ASSUME TypeOK, IInv, Holding, [Next]_vars
             PROVE  Holding'
  OBVIOUS
<1> USE DEF GoTo, FailWith, Holding
<1>1. ASSUME NEW p \in Processes, Start(p) \/ AcquireLock(p) \/ CreateTable(p)
      PROVE  Holding'
  BY <1>1 DEF Start, AcquireLock, CreateTable, TypeOK
<1>2. ASSUME NEW p \in Processes, ReadApplied(p) \/ Finish(p)
      PROVE  Holding'
  BY <1>2 DEF ReadApplied, Finish, TypeOK
<1>3. ASSUME NEW p \in Processes, SkipApplied(p)
      PROVE  Holding'
  BY <1>3 DEF SkipApplied, TypeOK
<1>4. ASSUME NEW p \in Processes, RefuseEdited(p) \/ BeginFile(p)
      PROVE  Holding'
  BY <1>4 DEF RefuseEdited, BeginFile, TypeOK
<1>5. ASSUME NEW p \in Processes, ExecuteBody(p)
      PROVE  Holding'
  BY <1>5 DEF ExecuteBody, TypeOK
<1>6. ASSUME NEW p \in Processes, RecordAndCommit(p)
      PROVE  Holding'
  <2>1. /\ UNCHANGED <<lock, table>> /\ pc[p] = "record"
        /\ \/ pc' = [pc EXCEPT ![p] = "unlock"] /\ todo' = todo
           \/ pc' = [pc EXCEPT ![p] = "loop"]
                /\ \A q \in Processes \ {p} : todo'[q] = todo[q]
    BY <1>6 DEF RecordAndCommit, TypeOK
  <2> QED
    BY <2>1 DEF TypeOK
<1>7. ASSUME NEW p \in Processes, Unlock(p) \/ SessionEnds(p)
      PROVE  Holding'
  BY <1>7 DEF Unlock, SessionEnds, TypeOK, IInv, Undisturbed
<1>8. ASSUME NEW p \in Processes, Cancel(p) \/ Crash(p)
      PROVE  Holding'
  BY <1>8 DEF Cancel, Crash, TypeOK
<1>9. ASSUME UNCHANGED vars
      PROVE  Holding'
  BY <1>9 DEF vars
<1> QED
  BY <1>1, <1>2, <1>3, <1>4, <1>5, <1>6, <1>7, <1>8, <1>9 DEF Next, Work

LEMMA HoldingHolds == Spec => []Holding
<1>1. Init => Holding
  BY DEF Init, Holding
<1> QED
  BY <1>1, HoldingKept, TypeCorrect, LockProtects, PTL DEF Spec

\* The loop finds a smallest file as long as there is one.
LEMMA SomeIsNext ==
  ASSUME TypeOK, NEW p \in Processes, todo[p] # {}
  PROVE  \E v \in todo[p] : IsNext(p, v)
<1>1. todo[p] \in SUBSET Nat
  BY FilesAssumption DEF TypeOK
<1> QED
  BY <1>1, LeastNumber DEF IsNext

\* No call leaves the lock behind: whoever holds it is past it or has died, and
\* has a step to take.  A file it meets in the loop is skipped, refused or begun.
THEOREM LockIsReturned ==
  Spec => [](lock # NoProcess =>
               /\ pc[lock] \in Critical \cup {"crashed"}
               /\ pc[lock] = "read" => table
               /\ pc[lock] = "loop" =>
                    todo[lock] = {} \/ \E v \in todo[lock] : IsNext(lock, v)
               /\ pc[lock] \in {"body", "record"} =>
                    \E v \in todo[lock] : IsNext(lock, v))
<1>1. TypeOK /\ Holding =>
        (lock # NoProcess =>
               /\ pc[lock] \in Critical \cup {"crashed"}
               /\ pc[lock] = "read" => table
               /\ pc[lock] = "loop" =>
                    todo[lock] = {} \/ \E v \in todo[lock] : IsNext(lock, v)
               /\ pc[lock] \in {"body", "record"} =>
                    \E v \in todo[lock] : IsNext(lock, v))
  <2> SUFFICES ASSUME TypeOK, Holding, lock # NoProcess
               PROVE  /\ pc[lock] \in Critical \cup {"crashed"}
                      /\ pc[lock] = "read" => table
                      /\ pc[lock] = "loop" =>
                           todo[lock] = {} \/ \E v \in todo[lock] : IsNext(lock, v)
                      /\ pc[lock] \in {"body", "record"} =>
                           \E v \in todo[lock] : IsNext(lock, v)
    OBVIOUS
  <2>1. lock \in Processes
    BY DEF TypeOK
  <2> QED
    BY <2>1, SomeIsNext DEF Holding
<1> QED
  BY <1>1, TypeCorrect, HoldingHolds, PTL

\* How many steps a process that is past the lock is from its end at most.
Left(p) ==
  CASE pc[p] = "create" -> 3 * Cardinality(DOMAIN Files[p]) + 5
    [] pc[p] = "read"   -> 3 * Cardinality(DOMAIN Files[p]) + 4
    [] pc[p] = "loop"   -> 3 * Cardinality(todo[p]) + 3
    [] pc[p] = "body"   -> 3 * Cardinality(todo[p]) + 2
    [] pc[p] = "record" -> 3 * Cardinality(todo[p]) + 1
    [] pc[p] = "unlock" -> 2
    [] pc[p] = "crashed" -> 1
    [] OTHER -> 0

\* The files that are left are finitely many.
LEMMA TodoFinite ==
  ASSUME TypeOK, NEW p \in Processes
  PROVE  /\ IsFiniteSet(todo[p]) /\ Cardinality(todo[p]) \in Nat
         /\ Cardinality(DOMAIN Files[p]) \in Nat
         /\ todo[p] # {} => Cardinality(todo[p]) > 0
         /\ \A v \in todo[p] : Cardinality(todo[p] \ {v}) = Cardinality(todo[p]) - 1
<1>1. IsFiniteSet(DOMAIN Files[p]) /\ todo[p] \subseteq DOMAIN Files[p]
  BY FilesAssumption DEF TypeOK
<1>2. IsFiniteSet(todo[p])
  BY <1>1, FS_Subset
<1>3. \A v \in todo[p] : Cardinality(todo[p] \ {v}) = Cardinality(todo[p]) - 1
  BY <1>2, FS_RemoveElement
<1>4. Cardinality(todo[p]) \in Nat /\ (todo[p] # {} => Cardinality(todo[p]) # 0)
  BY <1>2, FS_CardinalityType, FS_EmptySet
<1> QED
  BY <1>1, <1>2, <1>3, <1>4, FS_CardinalityType

\* Each of its own steps, and being cancelled or killed, brings a process that
\* is past the lock nearer to its end.
LEMMA OwnStepCounts ==
  ASSUME TypeOK, TypeOK', Holding, NEW p \in Processes, pc[p] \in Critical \cup {"crashed"},
         Work(p) \/ Cancel(p) \/ Crash(p)
  PROVE  Left(p)' < Left(p)
<1> DEFINE n == Cardinality(todo[p])
           N == Cardinality(DOMAIN Files[p])
<1>1. /\ n \in Nat /\ N \in Nat
      /\ pc[p] \in {"body", "record"} => n > 0
      /\ \A v \in todo[p] : Cardinality(todo[p] \ {v}) = n - 1
  BY TodoFinite DEF Holding
<1> USE DEF GoTo, FailWith
<1>2. CASE pc'[p] \in {"unlock", "crashed", "idle"} /\ pc[p] # "unlock" /\ pc[p] # "crashed"
  <2> HIDE DEF n, N
  <2>1. Left(p) > 2
    BY <1>1, <1>2 DEF Left, n, N
  <2>2. Left(p)' \in 0..2
    BY <1>2 DEF Left
  <2>3. Left(p) \in Int
    BY <1>1, <1>2 DEF Left, n, N
  <2> QED
    BY <2>1, <2>2, <2>3
<1>3. CASE pc[p] \in {"unlock", "crashed"}
  <2>1. pc'[p] = "idle" \/ (pc[p] = "unlock" /\ pc'[p] = "crashed")
    BY <1>3 DEF TypeOK, Work, Cancel, Crash, CreateTable, ReadApplied, SkipApplied, RefuseEdited,
                BeginFile, ExecuteBody, RecordAndCommit, Finish, Unlock, SessionEnds
  <2> QED
    BY <1>3, <2>1 DEF Left
<1>4. CASE pc'[p] \notin {"unlock", "crashed", "idle"} /\ pc[p] \notin {"unlock", "crashed"}
  <2>1. \/ CreateTable(p) \/ ReadApplied(p) \/ SkipApplied(p) \/ BeginFile(p)
        \/ ExecuteBody(p) \/ RecordAndCommit(p)
    BY <1>4 DEF TypeOK, Work, Cancel, Crash, RefuseEdited, Finish, Unlock, SessionEnds
  <2>2. CASE CreateTable(p)
    <3>1. pc[p] = "create" /\ pc'[p] = "read"
      BY <2>2 DEF CreateTable, TypeOK
    <3> QED
      BY <1>1, <3>1 DEF Left
  <2>3. CASE ReadApplied(p)
    <3>1. pc[p] = "read" /\ pc'[p] = "loop" /\ todo'[p] = DOMAIN Files[p]
      BY <2>3 DEF ReadApplied, TypeOK
    <3> QED
      BY <1>1, <3>1 DEF Left
  <2>4. CASE SkipApplied(p)
    <3>1. PICK v \in todo[p] : todo' = [todo EXCEPT ![p] = @ \ {v}]
      BY <2>4 DEF SkipApplied
    <3>2. pc[p] = "loop" /\ pc'[p] = "loop" /\ todo'[p] = todo[p] \ {v}
      BY <2>4, <3>1 DEF SkipApplied, TypeOK
    <3>3. Cardinality(todo'[p]) = n - 1
      BY <1>1, <3>2
    <3> HIDE DEF n
    <3>4. Left(p) = 3 * n + 3 /\ Left(p)' = 3 * (n - 1) + 3
      BY <3>2, <3>3 DEF Left, n
    <3> QED
      BY <1>1, <3>4
  <2>5. CASE BeginFile(p)
    <3>1. pc[p] = "loop" /\ pc'[p] = "body" /\ todo' = todo
      BY <2>5 DEF BeginFile, TypeOK
    <3> QED
      BY <1>1, <3>1 DEF Left
  <2>6. CASE ExecuteBody(p)
    <3>1. pc[p] = "body" /\ pc'[p] = "record" /\ todo' = todo
      BY <1>4, <2>6 DEF ExecuteBody, TypeOK
    <3> QED
      BY <1>1, <3>1 DEF Left
  <2>7. CASE RecordAndCommit(p)
    <3>1. PICK v \in todo[p] : pc'[p] = "loop" /\ todo' = [todo EXCEPT ![p] = @ \ {v}]
      BY <1>4, <2>7 DEF RecordAndCommit, TypeOK
    <3>2. pc[p] = "record" /\ todo'[p] = todo[p] \ {v}
      BY <2>7, <3>1 DEF RecordAndCommit, TypeOK
    <3>3. Cardinality(todo'[p]) = n - 1
      BY <1>1, <3>2
    <3> HIDE DEF n
    <3>4. Left(p) = 3 * n + 1 /\ Left(p)' = 3 * (n - 1) + 3
      BY <3>1, <3>2, <3>3 DEF Left, n
    <3> QED
      BY <1>1, <3>4
  <2> QED
    BY <2>1, <2>2, <2>3, <2>4, <2>5, <2>6, <2>7
<1> QED
  BY <1>2, <1>3, <1>4

\* What others do is no step of a process.
LEMMA OthersLeaveIt ==
  ASSUME TypeOK, NEW p \in Processes, [Next]_vars, pc[p] \in Critical \cup {"crashed"},
         ~ (Work(p) \/ Cancel(p) \/ Crash(p))
  PROVE  pc'[p] = pc[p] /\ todo'[p] = todo[p]
<1>1. CASE UNCHANGED vars
  BY <1>1 DEF vars
<1>2. ASSUME NEW q \in Processes, Start(q) \/ AcquireLock(q) \/ Work(q) \/ Cancel(q) \/ Crash(q)
      PROVE  pc'[p] = pc[p] /\ todo'[p] = todo[p]
  <2>1. q # p
    BY <1>2 DEF Start, AcquireLock
  <2>2. /\ pc' = pc \/ \E label : pc' = [pc EXCEPT ![q] = label]
        /\ todo' = todo \/ \E rest : todo' = [todo EXCEPT ![q] = rest]
    BY <1>2 DEF Start, AcquireLock, Work, Cancel, Crash, CreateTable, ReadApplied, SkipApplied,
                RefuseEdited, BeginFile, ExecuteBody, RecordAndCommit, Finish, Unlock,
                SessionEnds, GoTo, FailWith
  <2> QED
    BY <2>1, <2>2 DEF TypeOK
<1> QED
  BY <1>1, <1>2 DEF Next

\* Whoever is past the lock comes nearer to its end with every step it takes,
\* cancellation and death included, and nobody sets it back: with LockIsReturned
\* and the fairness of FairSpec, the heart of CallsEnd.
THEOREM HolderCountsDown ==
  Spec => [][\A p \in Processes : pc[p] \in Critical \cup {"crashed"} =>
               /\ Left(p) \in Nat \ {0}
               /\ Left(p)' < Left(p) \/ UNCHANGED <<pc[p], todo[p]>>
               /\ Work(p) \/ Cancel(p) \/ Crash(p) => Left(p)' < Left(p)]_vars
<1> DEFINE A == \A p \in Processes : pc[p] \in Critical \cup {"crashed"} =>
                  /\ Left(p) \in Nat \ {0}
                  /\ Left(p)' < Left(p) \/ UNCHANGED <<pc[p], todo[p]>>
                  /\ Work(p) \/ Cancel(p) \/ Crash(p) => Left(p)' < Left(p)
<1>1. TypeOK /\ TypeOK' /\ Holding /\ [Next]_vars => A
  <2> SUFFICES ASSUME TypeOK, TypeOK', Holding, [Next]_vars,
                      NEW p \in Processes, pc[p] \in Critical \cup {"crashed"}
               PROVE  /\ Left(p) \in Nat \ {0}
                      /\ Left(p)' < Left(p) \/ UNCHANGED <<pc[p], todo[p]>>
                      /\ Work(p) \/ Cancel(p) \/ Crash(p) => Left(p)' < Left(p)
    OBVIOUS
  <2>1. Left(p) \in Nat \ {0}
    BY TodoFinite DEF Left
  <2>2. Work(p) \/ Cancel(p) \/ Crash(p) => Left(p)' < Left(p)
    BY OwnStepCounts
  <2>3. ~ (Work(p) \/ Cancel(p) \/ Crash(p)) => UNCHANGED <<pc[p], todo[p]>>
    BY OthersLeaveIt
  <2> QED
    BY <2>1, <2>2, <2>3
<1> HIDE DEF A
<1>2. Spec => [][A]_vars
  BY <1>1, TypeCorrect, HoldingHolds, PTL DEF Spec
<1> QED
  BY <1>2 DEF A
=============================================================================
