------------------------------- MODULE Imports -------------------------------
(***************************************************************************)
(* `importer osm`: backend/cmd/importer/osm.go with internal/importrun,    *)
(* internal/osm/import.go and internal/osm/boundaries.go.                  *)
(*                                                                         *)
(* For every region and every query an importer fetches an answer, records *)
(* a run, imports the answer in one transaction and closes the run: three  *)
(* commits, between which anything may fail, be cancelled or die, and      *)
(* between whose statements other importers work.  The answers are         *)
(* arbitrary: what OpenStreetMap holds changes at will.  A boundary whose  *)
(* ways do not close counts as absent, as it does for the upsert.          *)
(***************************************************************************)
EXTENDS Integers, Sequences, FiniteSets

CONSTANTS
  Importers,
  Queries,      \* the queries made for a region, in order
  RegionOrder,  \* the configured regions, in order
  Objects,      \* rows, by key
  Kind,         \* object -> kind
  InBox,        \* region -> the objects whose stored geometry touches its box
  Returned,     \* region -> the objects its queries can return; they may
                \* lie outside the box with the centre that is stored
  Covers,       \* boundary -> the institutions within
  Garbage,      \* what is no object, and cannot be parsed
  MaxRuns,      \* bound of the model: runs recorded
  MaxNow        \* bound of the model: transactions begun

Regions == {RegionOrder[n] : n \in 1..Len(RegionOrder)}

Steps == 1..(Len(RegionOrder) * Len(Queries))

RegionOf(n) == RegionOrder[((n - 1) \div Len(Queries)) + 1]

QueryOf(n) == Queries[((n - 1) % Len(Queries)) + 1]

\* The kinds of rows an answer holds: a road with a speed limit may be traffic
\* calming too, and the other way round.  Crossings stand for signals and
\* traffic calming as well.
Yields(query) ==
  CASE query = "boundaries"   -> {"boundary"}
    [] query = "institutions" -> {"institution"}
    [] OTHER                  -> {"crossing", "speed_limit"}

\* The kinds an import may prune: of the table infrastructure only its own.
Prunes(query) ==
  CASE query = "boundaries"   -> {"boundary"}
    [] query = "institutions" -> {"institution"}
    [] query = "crossings"    -> {"crossing"}
    [] query = "speed_limits" -> {"speed_limit"}

ASSUME QueriesAssumption ==
  /\ Queries \in Seq({"boundaries", "institutions", "crossings", "speed_limits"})
  /\ Queries # <<>>
ASSUME RegionsAssumption ==
  /\ RegionOrder \in Seq(Regions) /\ RegionOrder # <<>>
  /\ InBox \in [Regions -> SUBSET Objects] /\ Returned \in [Regions -> SUBSET Objects]
ASSUME ObjectsAssumption ==
  /\ Kind \in [Objects -> {"boundary", "institution", "crossing", "speed_limit"}]
  /\ Covers \in [{b \in Objects : Kind[b] = "boundary"} ->
                   SUBSET {o \in Objects : Kind[o] = "institution"}]
  /\ Garbage \notin Objects
ASSUME BoundsAssumption == MaxRuns \in Nat /\ MaxNow \in Nat

VARIABLES
  now,     \* the database's clock: the start of the latest transaction
  stored,  \* the tables: object -> [at, town], at = updated_at
  runs,    \* import_runs: id -> [status, applied]; applied is history
  proc     \* what each importer is doing

vars == <<now, stored, runs, proc>>

Nothing == [o \in {} |-> {}]

\* An importer that is not running; how its last call has ended is not kept.
Ended == [pc |-> "idle"]

\* The boundaries of some tables, and boundary_at with them: a boundary is not
\* moved or renamed, but it disappears, and another may come.
BoundariesOf(set) == {b \in set : Kind[b] = "boundary"}
TownOf(o, boundaries) == {b \in boundaries : o \in Covers[b]}

\* Tables that an earlier import left, or empty ones.
Init ==
  /\ now = 0
  /\ \E set \in SUBSET Objects :
       stored = [o \in set |-> [at |-> 0, town |-> TownOf(o, BoundariesOf(set))]]
  /\ runs = Nothing
  /\ proc = [p \in Importers |-> Ended]

-----------------------------------------------------------------------------
(* The answer and its run                                                  *)

Unreadable == {Garbage}

Launch(p) ==
  /\ proc[p].pc = "idle"
  /\ proc' = [proc EXCEPT ![p] = [pc |-> "fetch", step |-> 1]]
  /\ UNCHANGED <<now, stored, runs>>

Answers(n) ==
  (SUBSET {o \in Returned[RegionOf(n)] : Kind[o] \in Yields(QueryOf(n))}) \cup {Unreadable}

Fetch(p) ==
  /\ proc[p].pc = "fetch"
  /\ \E answer \in Answers(proc[p].step) :
       proc' = [proc EXCEPT ![p] = [pc |-> "start", step |-> @.step, answer |-> answer]]
  /\ UNCHANGED <<now, stored, runs>>

\* No answer, or no row for the run: the importer gives up, and in the first case
\* nothing in import_runs says so.
NoStart(p) ==
  /\ proc[p].pc \in {"fetch", "start"}
  /\ proc' = [proc EXCEPT ![p] = Ended]
  /\ UNCHANGED <<now, stored, runs>>

\* importrun.Start.
StartRun(p) ==
  /\ proc[p].pc = "start"
  /\ \E r \in 1..MaxRuns :
       /\ DOMAIN runs = 1..(r - 1)
       /\ runs' = [s \in 1..r |->
                     IF s = r THEN [status |-> "running", applied |-> FALSE] ELSE runs[s]]
       /\ proc' = [proc EXCEPT ![p] =
            [pc |-> "parse", step |-> @.step, answer |-> @.answer, run |-> r]]
  /\ UNCHANGED <<now, stored>>

Parse(p) ==
  /\ proc[p].pc = "parse"
  /\ proc' = [proc EXCEPT ![p] =
       IF @.answer = Unreadable THEN [pc |-> "failing", step |-> @.step, run |-> @.run]
       ELSE [pc |-> "begin", step |-> @.step, answer |-> @.answer, run |-> @.run]]
  /\ UNCHANGED <<now, stored, runs>>

-----------------------------------------------------------------------------
(* The transaction                                                         *)

\* Begin and transactionStart: now() stays the same until the commit, and no
\* transaction begins in the same microsecond.  quiet is history: has nobody
\* else committed since?
BeginImport(p) ==
  /\ proc[p].pc = "begin"
  /\ now < MaxNow
  /\ now' = now + 1
  /\ proc' = [proc EXCEPT ![p] =
       [pc |-> "upsert", step |-> @.step, answer |-> @.answer, run |-> @.run,
        cutoff |-> now + 1, written |-> {}, gone |-> {}, moved |-> {}, seen |-> {},
        quiet |-> TRUE]]
  /\ UNCHANGED <<stored, runs>>

InTransaction == {"upsert", "prune", "relocate", "commit"}

\* The rows a transaction has written: others wait for them.
Held(p) ==
  IF proc[p].pc \in InTransaction
  THEN proc[p].written \cup proc[p].gone \cup proc[p].moved
  ELSE {}

HeldByOthers(p) == UNION {Held(q) : q \in Importers \ {p}}

\* INSERT ... ON CONFLICT DO UPDATE, institutions with the town that the
\* boundaries committed by now (seen) give them.
Upsert(p) ==
  /\ proc[p].pc = "upsert"
  /\ proc[p].answer \cap HeldByOthers(p) = {}
  /\ proc' = [proc EXCEPT
       ![p].pc = "prune",
       ![p].written = proc[p].answer,
       ![p].seen = BoundariesOf(DOMAIN stored)]
  /\ UNCHANGED <<now, stored, runs>>

\* What the transaction sees: the committed rows under its own.
WrittenAt(p, o) == IF o \in proc[p].written THEN proc[p].cutoff ELSE stored[o].at
Visible(p) == DOMAIN stored \cup proc[p].written

\* Mutants: the kinds are not passed on; an empty answer prunes nothing.
Prunable_AnyKind(p) ==
  {o \in Visible(p) \cap InBox[RegionOf(proc[p].step)] :
     WrittenAt(p, o) < proc[p].cutoff
       /\ (Kind[o] \in Prunes(QueryOf(proc[p].step)) \/ QueryOf(proc[p].step) = "crossings")}
Prunable_UnlessEmpty(p) ==
  {o \in Visible(p) \cap InBox[RegionOf(proc[p].step)] :
     /\ proc[p].answer # {}
     /\ WrittenAt(p, o) < proc[p].cutoff /\ Kind[o] \in Prunes(QueryOf(proc[p].step))}

Prunable(p) ==
  {o \in Visible(p) \cap InBox[RegionOf(proc[p].step)] :
     WrittenAt(p, o) < proc[p].cutoff /\ Kind[o] \in Prunes(QueryOf(proc[p].step))}

Prune(p) ==
  /\ proc[p].pc = "prune"
  /\ Prunable(p) \cap HeldByOthers(p) = {}
  /\ proc' = [proc EXCEPT
       ![p].pc = IF QueryOf(proc[p].step) = "boundaries" THEN "relocate" ELSE "commit",
       ![p].gone = Prunable(p)]
  /\ UNCHANGED <<now, stored, runs>>

\* Mutant: institutions that are there already keep the town they have.
Relocated_None(p) == {}

\* The institutions ImportBoundaries gives a town: those stored in the box.
Relocated(p) ==
  {o \in DOMAIN stored \cap InBox[RegionOf(proc[p].step)] : Kind[o] = "institution"}

Relocate(p) ==
  /\ proc[p].pc = "relocate"
  /\ Relocated(p) \cap HeldByOthers(p) = {}
  /\ proc' = [proc EXCEPT
       ![p].pc = "commit",
       ![p].moved = Relocated(p),
       ![p].seen = BoundariesOf(Visible(p) \ proc[p].gone)]
  /\ UNCHANGED <<now, stored, runs>>

\* What a transaction leaves.
Result(p) ==
  [o \in Visible(p) \ proc[p].gone |->
     [at   |-> WrittenAt(p, o),
      town |-> IF o \in proc[p].written \cup proc[p].moved
               THEN TownOf(o, proc[p].seen) ELSE stored[o].town]]

\* The commit, whose acknowledgement may be lost.
Commit(p) ==
  /\ proc[p].pc = "commit"
  /\ stored' = Result(p)
  /\ runs' = [runs EXCEPT ![proc[p].run].applied = TRUE]
  /\ \E next \in {"finish", "failing"} :
       proc' = [q \in Importers |->
         CASE q = p -> [pc |-> next, step |-> proc[p].step, run |-> proc[p].run]
           [] q # p /\ proc[q].pc \in InTransaction -> [proc[q] EXCEPT !.quiet = FALSE]
           [] OTHER -> proc[q]]
  /\ UNCHANGED now

\* Any statement up to the commit may fail; the transaction is rolled back.
Fail(p) ==
  /\ proc[p].pc \in InTransaction \cup {"begin"}
  /\ proc' = [proc EXCEPT ![p] = [pc |-> "failing", step |-> @.step, run |-> @.run]]
  /\ UNCHANGED <<now, stored, runs>>

-----------------------------------------------------------------------------
(* The end of a run, and the next one                                      *)

\* Mutant: the cause goes into the message, and not into the status.
StatusOf_Message(p) == "succeeded"

\* importrun.Finish: with a cause the run failed.
StatusOf(p) == IF proc[p].pc = "failing" THEN "failed" ELSE "succeeded"

\* Mutant: the loop goes round once too often.
Advance_OneMore(p) ==
  IF proc[p].step \in Steps THEN [pc |-> "fetch", step |-> proc[p].step + 1]
  ELSE Ended

\* The next query, of the next region after the last.
Advance(p) ==
  IF proc[p].step + 1 \in Steps THEN [pc |-> "fetch", step |-> proc[p].step + 1]
  ELSE Ended

Finish(p) ==
  /\ proc[p].pc \in {"finish", "failing"}
  /\ runs' = [runs EXCEPT ![proc[p].run].status = StatusOf(p)]
  /\ proc' = [proc EXCEPT ![p] =
       CASE @.pc = "failing" -> Ended
         [] @.pc = "finish" /\ QueryOf(@.step) = "institutions" ->
              [pc |-> "coverage", step |-> @.step, run |-> @.run]
         [] OTHER -> Advance(p)]
  /\ UNCHANGED <<now, stored>>

\* CountTownCoverage reads only.
Coverage(p) ==
  /\ proc[p].pc = "coverage"
  /\ proc' = [proc EXCEPT ![p] = Advance(p)]
  /\ UNCHANGED <<now, stored, runs>>

\* The UPDATE of the run fails, or the count after it.
NoFinish(p) ==
  /\ proc[p].pc \in {"finish", "failing", "coverage"}
  /\ proc' = [proc EXCEPT ![p] = Ended]
  /\ UNCHANGED <<now, stored, runs>>

\* SIGTERM cancels the context, with which nothing can be recorded any more; a
\* crash has the same effect.
Stop(p) ==
  /\ proc[p].pc # "idle"
  /\ proc' = [proc EXCEPT ![p] = Ended]
  /\ UNCHANGED <<now, stored, runs>>

Work(p) ==
  \/ Launch(p) \/ Fetch(p) \/ NoStart(p) \/ StartRun(p) \/ Parse(p)
  \/ BeginImport(p) \/ Upsert(p) \/ Prune(p) \/ Relocate(p) \/ Commit(p) \/ Fail(p)
  \/ Finish(p) \/ Coverage(p) \/ NoFinish(p) \/ Stop(p)

Next == \E p \in Importers : Work(p)

Spec == Init /\ [][Next]_vars

-----------------------------------------------------------------------------
(* Properties                                                              *)

Rows == [at : 0..MaxNow, town : SUBSET Objects]

Readable == SUBSET Objects
Idle == {Ended}
Fetching == [pc : {"fetch"}, step : Steps]
Starting == [pc : {"start"}, step : Steps, answer : Readable \cup {Unreadable}]
Parsing ==
  [pc : {"parse"}, step : Steps, answer : Readable \cup {Unreadable}, run : 1..MaxRuns]
Beginning == [pc : {"begin"}, step : Steps, answer : Readable, run : 1..MaxRuns]
Writing ==
  [pc : InTransaction, step : Steps, answer : Readable, run : 1..MaxRuns,
   cutoff : 0..MaxNow, written : SUBSET Objects, gone : SUBSET Objects,
   moved : SUBSET Objects, seen : SUBSET Objects, quiet : BOOLEAN]
Closing == [pc : {"finish", "failing", "coverage"}, step : Steps, run : 1..MaxRuns]

Procs == Idle \cup Fetching \cup Starting \cup Parsing \cup Beginning \cup Writing \cup Closing

TypeOK ==
  /\ now \in 0..MaxNow
  /\ DOMAIN stored \subseteq Objects
  /\ stored \in [DOMAIN stored -> Rows]
  /\ DOMAIN runs \subseteq 1..MaxRuns
  /\ runs \in [DOMAIN runs -> [status : {"running", "succeeded", "failed"}, applied : BOOLEAN]]
  /\ proc \in [Importers -> Procs]

(* "Every number shown on the map has to be traceable to the import that   *)
(* produced it": a run that is recorded as succeeded has committed its     *)
(* rows, although run and rows are separate commits.                       *)
SucceededIsApplied ==
  \A r \in DOMAIN runs : runs[r].status = "succeeded" => runs[r].applied

\* Does this step commit the import of p?
Commits(p) ==
  /\ proc[p].pc = "commit"
  /\ ~runs[proc[p].run].applied /\ runs'[proc[p].run].applied

(* An import loses nothing it has no business with: what disappears lay in *)
(* its box, was of the kinds it asked for, was not in its answer, and had  *)
(* last been written by a transaction that began before it; what it was    *)
(* answered is there.                                                      *)
NothingElseIsLost ==
  [][\A p \in Importers : Commits(p) =>
       /\ proc[p].answer \subseteq DOMAIN stored'
       /\ \A o \in DOMAIN stored \ DOMAIN stored' :
            /\ o \in InBox[RegionOf(proc[p].step)]
            /\ Kind[o] \in Prunes(QueryOf(proc[p].step))
            /\ o \notin proc[p].answer
            /\ stored[o].at < proc[p].cutoff]_vars

(* "Without it, an object deleted in OpenStreetMap stays on the map        *)
(* forever": an import during which nobody else committed leaves, of its   *)
(* kinds and in its box, exactly what it was answered.                     *)
QuietImportIsExact ==
  [][\A p \in Importers : Commits(p) /\ proc[p].quiet =>
       LET mine == {o \in InBox[RegionOf(proc[p].step)] :
                      Kind[o] \in Prunes(QueryOf(proc[p].step))}
       IN  DOMAIN stored' \cap mine = proc[p].answer \cap mine]_vars

(* "Before the institutions, so that each one is written with its town",   *)
(* and "a boundary that moved or was renamed changes the town of           *)
(* institutions that were not re-imported themselves": after the boundaries *)
(* and after the institutions of a region every institution in its box has *)
(* the town of the boundaries that are stored.                             *)
QuietTownsAreCurrent ==
  [][\A p \in Importers :
       /\ Commits(p) /\ proc[p].quiet
       /\ QueryOf(proc[p].step) \in {"boundaries", "institutions"}
       => \A o \in DOMAIN stored' \cap InBox[RegionOf(proc[p].step)] :
            Kind[o] = "institution" =>
              stored'[o].town = TownOf(o, BoundariesOf(DOMAIN stored'))]_vars

(* Why these hold.  An answer is of the kinds that were asked for.         *)
AnswersFit ==
  \A p \in Importers : proc[p].pc \in {"start", "parse", "begin"} \cup InTransaction =>
    \A o \in proc[p].answer \ Unreadable : Kind[o] \in Yields(QueryOf(proc[p].step))

(* Nobody writes what another transaction has written ... *)
HeldApart == \A p, q \in Importers : p # q => Held(p) \cap Held(q) = {}

(* ... so what a transaction is going to delete is still there, and old ... *)
DeletesOnlyOld(p) ==
  proc[p].pc \in InTransaction =>
    /\ proc[p].cutoff <= now
    /\ proc[p].written = IF proc[p].pc = "upsert" THEN {} ELSE proc[p].answer
    /\ proc[p].pc \in {"upsert", "prune"} => proc[p].gone = {}
    /\ proc[p].pc # "commit" => proc[p].moved = {}
    /\ proc[p].pc = "relocate" => QueryOf(proc[p].step) = "boundaries"
    /\ \A o \in proc[p].gone :
         /\ o \in DOMAIN stored /\ stored[o].at < proc[p].cutoff
         /\ o \in InBox[RegionOf(proc[p].step)] \ proc[p].answer
         /\ Kind[o] \in Prunes(QueryOf(proc[p].step))

TransactionInv ==
  /\ \A o \in DOMAIN stored : stored[o].at <= now
  /\ \A p \in Importers : DeletesOnlyOld(p)

(* ... and as long as nobody else commits, everything stored is older than *)
(* the transaction, and what it has read is what is stored.                *)
HasReadCurrent(p) ==
  proc[p].pc \in InTransaction /\ proc[p].quiet =>
    /\ \A o \in DOMAIN stored : stored[o].at < proc[p].cutoff
    /\ proc[p].pc \in {"relocate", "commit"} =>
         \A o \in DOMAIN stored \cap InBox[RegionOf(proc[p].step)] :
           Kind[o] \in Prunes(QueryOf(proc[p].step)) => o \in proc[p].answer \cup proc[p].gone
    /\ proc[p].pc \in {"prune", "commit"} /\ QueryOf(proc[p].step) = "institutions" =>
         proc[p].seen = BoundariesOf(DOMAIN stored)
    /\ proc[p].pc = "commit" /\ QueryOf(proc[p].step) = "boundaries" =>
         /\ proc[p].seen = BoundariesOf(Visible(p) \ proc[p].gone)
         /\ Relocated(p) \subseteq proc[p].moved

QuietInv == \A p \in Importers : HasReadCurrent(p)

(* Each importer has a run of its own, which has been applied when it is   *)
(* about to be closed as succeeded.                                        *)
InRun == {"parse", "begin", "finish", "failing", "coverage"} \cup InTransaction

RunsKnown ==
  \A p \in Importers : proc[p].pc \in InRun =>
    /\ proc[p].run \in DOMAIN runs
    /\ proc[p].pc = "finish" => runs[proc[p].run].applied
    /\ \A q \in Importers \ {p} : proc[q].pc \in InRun => proc[q].run # proc[p].run
=============================================================================
