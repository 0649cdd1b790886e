# Formal models of the Schulsicherheitskarte

TLA+ models of the map's own logic, checked with TLC on small instances and,
where a theorem is stated, proved with TLAPS for every value of the constants.
`PROJECT.json` lists, per definition, the source lines it stands for, the runs,
the mutants that show each property can fail, the findings, the hazards and the
theorems. Paths below are relative to the repository (`backend/` = `src/backend/`).

## 1. The system

A Go API over PostgreSQL/PostGIS, command-line importers that fill the database, a
React frontend, and a compose file that starts them.

```
 Unfallatlas archives --> importer accidents --\                    /--> GET hotspots, accidents, ...
 Overpass API ---------> importer osm ---------->  PostgreSQL ---> API --> fact sheet
                         importer hotspots -----/   ^     ^          \--> reports (POST, confirm, moderation)
                         migrate --- advisory lock -/     |
                                      API process: salt, token, up to n requests at once
```

All components meet in the database; none calls another. PostgreSQL runs at its
default isolation, READ COMMITTED, so *each statement* sees what was committed when
that statement began, and a transaction of several statements can see several states.
That, restarts, and the difference between one statement and two are where nearly
every hazard of this code comes from.

### Inventory

| Component (source) | State it keeps | Operations | What is hard | What makes it correct |
|---|---|---|---|---|
| **reports** (`internal/reports`, `internal/api/reports.go`) | tables `reports`, `report_confirmations`; the salt and the token of the process | create, confirm, list the queue, moderate | count and insert are two statements; restart with another salt; decisions taken on an old queue; a queue cut off at 100 | limit per sender; one confirmation per network; nothing public unseen; nobody's report passed over; no token, no moderation |
| **migrations** (`internal/db/migrate.go`, `cmd/migrate`) | `schema_migrations`, the advisory lock, the schema | `Migrate` | several processes of different releases; errors, cancellation and death between two statements | one migrator at a time; each file once and together with its record; success means the schema is the image's; every call ends |
| **clustering** (`internal/scoring/cluster.go`) | grid, priority queue, assigned accidents, hotspots | `Cluster` | lazily updated queue; circles that overlap; cells and negative coordinates | it takes the circles of the greedy method in its order; no accident counted twice; a hotspot stays a place; none missed; it ends |
| **hotspot recompute** (`internal/scoring/hotspots.go`) | `hotspots`, `institutions.accidents_nearby` | `RecomputeHotspots` | reads the accidents twice; overlaps with imports and other recomputes | one answer, never a mixture; figures that fit together |
| **fact sheet** (`internal/api/factsheet.go`) | none | `GET …/factsheet` | five statements, no transaction, printed for an authority | what it counts lies in the years it states |
| **accident import** (`internal/accidents`, `cmd/importer`) | `accidents`; archive and ETag on disk | `Fetch`, `ImportArchive`, per year | rename and ETag, data and run are two writes each; importers that overlap; one bad row; editions that differ in form | an edition wholly or not at all; what is counted is what the server sent or confirmed, and what the run names; no accident twice |
| **OSM import** (`internal/osm/import.go`, `boundaries.go`, `cmd/importer/osm.go`) | `institutions`, `infrastructure`, `boundaries` | upsert and prune per region and query | pruning by time and box; overlapping runs and boxes; stages that depend on each other | nothing written is pruned by its own run; what disappeared goes |
| **import runs** (`internal/importrun`) | `import_runs` | `Start`, `Finish` | a run and the data it describes are separate commits; cancellation; crashes | every run is recorded and says what happened |
| **Overpass client** (`internal/osm/overpass.go`) | cache files | `Query`, `Cached` | busy answers, retries, SIGTERM; files written in place, by several importers, under the name of the query alone | bounded retries, every call ends; what is imported was answered to this query |
| **OSM parser** (`internal/osm/parse.go`) | none | parse, deduplicate | several mappings of one school, superseding is not transitive | the best mappings, independent of the order of the answer |
| **configuration** (`internal/config`) | none | load, match an AGS | prefixes that contain each other | each accident matched by its region |
| **read endpoints** (`internal/api`) | none | search, institution, accidents, infrastructure, extent | — (single statements) | — |
| **frontend** (`frontend/src`) | query cache, map, moderation token | pages | map readiness against arriving data; the queue of a token | what is drawn is what was loaded last |
| **deployment** (`deploy/docker-compose.yml`) | containers | start order | API against an unmigrated database | API only after migrate succeeded |

## 2. Modules

| Module | Models | State ↔ code |
|---|---|---|
| `Reports` | reports and the process around them | `reports`, `confirmations`: the tables; `request[w]`: what one of the requests served at the same time has done, one action per SQL statement; `salt`: the salt of the running process; `queue[m]`: the page a moderator has open; `now`: the database's clock; `seen`: history |
| `Migrate` | any number of processes in `Migrate` | `pc`, `known`, `todo`: where a process is in the loop, what it read and has left; `lock`: the session holding the advisory lock; `records`: `schema_migrations`; `effects`: how often a body took effect |
| `GreedyCluster` | *abstract*: the method as described | take the fullest circle around an unassigned accident, ties by id |
| `Cluster` | `Cluster` with its grid and its queue | `queue`: candidate → recorded count; one step is one turn of the loop |
| `Figures` | recompute, the imports that change its input, the fact sheet | `run[p]`: the transaction of one recompute, with what it has read; `lock`: the exclusive lock of `TRUNCATE`; `sheet`: the fact sheet with what it has read |
| `Imports` | `importer osm`, any number at a time | `stored`: the rows of `boundaries`, `institutions` and `infrastructure` with their `updated_at` and town; `runs`: `import_runs`; `proc[p]`: what an importer has fetched, the run it opened, and, in its transaction, `now()`, the rows written, deleted and given a town; `now`: the database's clock |
| `Mappings` | `ParseInstitutions` | operators, no state: an element is a record with the places Overpass gives for it |
| `Overpass` | `Client` and `fetch`, with the loop of `importer osm` around them | `file[q]`: the cached response of a query (absent, torn, or an answer); `proc[p]`: the attempt an importer is at, the answer it stores, reads, parses or imports; `cancelled`: SIGTERM |
| `Rows` | `csv.go` and the staging of rows | operators, no state: from the header and the cells of a file to its accidents by key |
| `YearStore` | *abstract*: the table of accidents | grows by a whole published edition at a time |
| `Accidents` | `importer accidents`, any number at a time, and the publisher | `public[y]`: editions published; `archive[y]`, `etag[y]`: the two cached files of a year; `accidents`: the table; `runs`: `import_runs`; `proc[p]`: the year an importer is at, its run, the edition it was served, the checksum it noted and the edition it opened |
| `MC*` | constants of the runs | |
| `*Proofs` | theorems about the module of the same name | |
| `Induction` | induction and recursion over the natural numbers | principles about sets and functions instead of operators, which the proofs about loops, sorting and sums can cite |

### Reports

A request is one worker that goes through the statements of `Create` (`CountRecent`,
`InsertReport`) or `Confirm` (`CheckExists`, `InsertConfirmation`); between any two
statements another worker, a moderator, the clock or a restart may step. `Abandon` is the
30-second timeout or a client that leaves. A fingerprint is the pair of salt and network,
because the HMAC of a normalised address is equal exactly when both are; `Network` says
which addresses `normaliseAddress` makes equal (a /64 for IPv6). `Restart` draws a new
salt unless one is configured. `ListQueue` allows every page the `ORDER BY created_at
LIMIT` may return, ties in any order. `Moderate` does not look at the present status,
as the UPDATE does not: of two decisions the later one stands. The client of the moderation
endpoints is the moderation page: decisions name reports of the queue it fetched, where the API
takes any id from a token holder; `PublicWasReviewed` rests on this. A statement takes no time:
a report is visible from its `created_at` on, so `OldestReviewedFirst` says nothing of two
INSERTs that overlap and become visible in the other order. Validation of a body, texts and
coordinates are left out; a rejected body changes nothing. A sender may confirm the own
report, as nothing relates the two requests (the comment of `Confirm` speaks of somebody else).

### Migrate

One action per statement of `Migrate` and `applyMigration`, from the lock to the
unlock; `Cancel` is a context that ends, `Crash` the death of the process, after which
its session, and with it the lock, lives until the server notices (`SessionEnds`). A
transaction that does not commit leaves nothing. The body and the checksum of a file are
one value: SHA-256 is taken to be injective. Names are their sorted position.

### GreedyCluster, Cluster

`Within` is the grid: the cells a point is filed under and the nine cells looked at.
A popped entry is dropped (`Drop`), queued again with a smaller count (`Requeue`), or
becomes a hotspot (`Form`). `container/heap` is taken for what it promises: the entry
`Less` puts first. Coordinates are integers here and floats in the code; what is proved
about cells and distances does not depend on how fine the integer grid is, rounding
of floats is not covered. `GreedyCluster` does not know of a grid or a queue, and
`ImplementsGreedy` is the refinement (same variables, the queue hidden).

### Figures

Each action is one statement that sees the committed state. `Clear` waits for the
exclusive lock of `TRUNCATE`, which readers of `hotspots` wait for too; `Count` updates
all institutions and keeps their rows until `Commit`, which imports of institutions wait
for. The hotspots are represented by the accidents they were computed from, since how
they are computed is the subject of `Cluster`. The fact sheet is the sequence of its
statements; filters are what `parseYears` lets pass. History: `at`, the place an
institution's number was counted at (an OSM import may move an institution and leaves
the number, as the documentation says: recompute afterwards).

### Imports

An importer goes through the queries of the configured regions (`Steps`). For each it
fetches (`Fetch`, `NoStart`), records a run (`StartRun`), parses (`Parse`), works in one
transaction (`BeginImport`, `Upsert`, `Prune`, `Relocate` for boundaries, `Commit`,
`Fail`) and closes the run (`Finish`, `NoFinish`); `Coverage` is the count after the
institutions. `Stop` is SIGTERM or a crash, anywhere: with the cancelled context neither
the data nor the run can be written any more. A commit may succeed and its acknowledgement
be lost, after which the run is recorded as failed.

- *Answers are arbitrary*: any set of the objects a region's queries can return, or
  something that is no JSON. The tables are compared with the answer, never with
  OpenStreetMap, because the answer is all an import knows. A boundary whose ways do not
  close counts as absent, as it does for the upsert.
- *Rows, not columns*: an object is a key of its table (for infrastructure with its kind,
  so a calmed road with a speed limit is two), either inside a box or not: `InBox` does
  not change. `Returned` may contain objects outside the box: grounds that touch it,
  stored by their centre. `crossing` stands for signals and traffic calming too. `town` is
  the set of boundaries around an institution, of which `boundary_at` names one; which, is not
  modelled. A boundary keeps its id, place and name: one that is moved or renamed is modelled
  as one that disappears and another that comes.
- *Overlap*: `QuietImportIsExact` and `QuietTownsAreCurrent` are about imports during which
  nobody else commits. After an overlap, rows that disappeared may stay and towns may lag
  behind the boundaries until the next import, of which the repository says nothing;
  `NothingElseIsLost` holds with any overlap.
- *Locks*: a statement waits for rows that another open transaction has written (`Held`);
  a statement that waited is taken to have read when the wait was over. Deadlocks that
  PostgreSQL breaks are `Fail`.
- `quiet` and `applied` are history. How an answer is come by is the subject of `Overpass`:
  there an answer is what the server says, here any set of objects.

### Mappings, Overpass

An importer asks for each query of each region (`Answered`, `Busy`, `Refused`, `Again`), writes
the response into the file of the query (`Truncate`, `Write`, `NoStore`) and parses and imports
it; with `-offline` it reads the file instead (`Read`). `AfterBusy` is the end of a turn of the
loop in `Query`: the last attempt, SIGTERM, or a wait that nothing cuts short. `os.WriteFile`
is two steps, opening with truncation and writing; somebody else who opened the file
meanwhile leaves one of the two contents or a mixture (`Written`), and a crash leaves a torn
file. A mixture is no JSON if the longer of two answers goes on behind the end of the shorter
one; that answers spliced in the middle are none either is assumed. A reader beside a writer
gets a part of the file, as between the two steps. An empty `-cache`, with which no file is
kept, is left out. A request that SIGTERM interrupts counts as a transport error, as it
does in `once`. An answer remembers which region and query it was given to, which no code can
see: it is what the properties compare. `Worlds` are what Overpass may answer, per region and
query; the elements of an institution query go through `Mappings`.

`Mappings` follows `deduplicate` line by line: the stable sort with `better`, and the loop that
keeps an entry unless one already kept supersedes it. Places are pairs of metres (the code
multiplies degrees by two constants). `IsBestOf` is the reference definition: of a set of
mappings, those are kept that no better one *that is kept* supersedes. It has no order to go
through; that it has a single solution is the theorem `ChoiceIsUnique`. `IsAnswer` is what any
answer is (OpenStreetMap gives an id to one element of its type), whichever `Worlds` are chosen.
`OnlineAsAsked` is what does hold of several regions, where `ReplaysWhatWasSaid` does not.

### Rows, YearStore, Accidents

Per year an importer records a run (`StartRun`), asks with the ETag of its copy (`Look`), is told
that it is current (`NotModified`, `Sum`) or gets the present edition (`Downloaded`, `Rename`,
`Truncate`, `Note`, `NoNote`), reads the archive to its end (`Read`), counts it in one transaction
(`Commit`) and closes the run (`Finish`), which also goes on to the next year (`Advance`). `Fail` is
any error in between, `Stop` is SIGTERM or a crash. A transaction may be committed and its
acknowledgement lost. A partial download has no effect, since it goes to a file of its own.
`first` is history: the oldest run that may belong to the call.

An edition is a file of `Rows`, and its number stands for its bytes, its SHA-256 and its ETag.
`Rows` keeps what differs from edition to edition: the names of columns and their order, short
rows, absent columns, stray empty lines, decimal commas, cells that are no numbers, values out
of range, repeated rows. One field stands for all that are read alike (the module names them).
The key of a row is the tuple of its cells, as the digest is taken of cells, with points for
commas; the accident is the record of its parsed values. The comment on `hashRow` says that it
digests "the parsed values", and so does migration 0002; but two spellings of one value (`05` and
`5`, a flag that is absent and one that is `0`) have one value and two keys. So there are two
properties: `RepublishedIsNotNew`, that a row is not counted again for another order or other
names of its columns or for its commas, which holds; and `CountedOnce`, that no two entries are
read as the same accident, which `accidents_respelled` violates. The editions of both runs have
an early year published again in the columns of later years, with `0` in `istgkfz`, as
`testdata/2025.csv` writes it.

`Look` takes `os.Stat` of the archive and `os.ReadFile` of the ETag for one step. Nothing is lost:
an archive is replaced and never removed, so if it was there at the first call, it is at the
second, and otherwise there is no second.

`YearStore` knows neither importers nor files: an edition is a set of accidents by key, or
unusable. `ImplementsStore` is the refinement: table and editions are the same, everything else
is hidden, and `Commit` is the only step that is not a stutter.

## 3. Runs

| Run | Question | Bounds, and why they suffice |
|---|---|---|
| `reports_unmoderated` | limit, confirmations and the missing token | 2 workers (one race), 3 reports (limit 2 and one above), window 2 in 3 instants (reports leave the window), two addresses of one household and one elsewhere, a restart |
| `reports_moderated` | moderation | 2 reports and pages of one (a cut-off), 2 moderators (an old page), random salt and a restart |
| `migrate_releases` | all of migration | 3 processes of different releases, each restarted without bound: a refused file, a mended one, an added one, an edited one |
| `cluster_layouts` | clustering and its refinement | 5 accidents on every layout of a road of 5 cells (the shortest on which an entry is queued again and then taken) of 6 places of a 3×3-cell block across the origin (edges, corners, a box that is no circle), and of a ring of 5 places (two circles that lose an accident each to the same hotspot) |
| `figures_stored` | stored figures and fact sheet | 2 recomputes, 3 accidents of 2 years, an institution that moves, disappears and returns, an open filter and a single year |
| `imports_osm` | the import and its runs | 2 importers through three queries of a region, stopped and started again within 3 transactions and 3 runs (both importers, or one that dies and returns); a town, a school, a school whose centre lies outside the box, a speed limit that the query for crossings returns too; every initial table and every answer |
| `overpass_query` | the Overpass client and the choice of mappings | 2 importers (two writers of a file), two queries (two files, and a step from one to the next), 2 attempts (one retry, one last); answers with three mappings in a row in all orders, unnamed and equal ids, two kinds, an empty answer |
| `accidents_years` | the accident import | one importer, started again without bound within 3 runs (as many as a year has editions), two years, a year in three editions with other columns, order, commas and spellings, repeated and added rows, a year with a malformed row |
| `reports_burst`, `overpass_offline`, `accidents_overlap`, `accidents_respelled` | a sentence of the documentation each, violated | the smallest instance that shows it |

`CHECK_DEADLOCK FALSE` stands only in the runs of `Cluster`, whose loop ends. Symmetry
(of reports and of workers, of importers) is used only with safety properties.

**Fairness.** `Migrate!FairSpec` assumes that a running process takes its next step
(weak fairness of its statements), and that a session waiting for the advisory lock is
not passed over for ever (strong fairness of `AcquireLock`: PostgreSQL grants locks in the
order in which they were asked for). Starting, cancelling and crashing are not fair:
nothing needs to be started. `Cluster` assumes its loop runs. `Overpass` assumes that an importer
that is running takes its next step: a request times out after five minutes, a wait ends, files
and statements return. Nothing is assumed about the server, which may be busy for ever, and
nobody has to start, cancel or kill an importer. `Reports`, `Figures`, `Imports` and `Accidents`
have safety properties only, and no fairness.

### What the violated runs show

- `reports_burst`: requests of one sender served at the same time all pass the same
  count, so more than ten reports a day can be stored (DEPLOY.md: „höchstens zehn
  Stellen pro Absender und Tag“). `OvershootBounded` is what does hold: the excess is
  less than the number of requests served at once.
- `overpass_offline`: a response is kept under the name of its query, so with two regions the
  second overwrites the first, and `-offline` imports it for both: it prunes everything in the
  box of the first region and writes the second twice. With one region `ImportedAsAsked` holds
  (`RegionReplayed`).
- `accidents_overlap`: when two importers overlap around a new edition, the older archive can
  be renamed last and the newer ETag written last. From then on the server answers 304, and the
  old copy is counted as current. As long as no two importers are at the same year this cannot
  happen, wherever they crash (`ConfirmedApart`).
- `accidents_respelled`: the comment of `hashRow` and migration 0002 promise a digest of the
  parsed values, and a test wants one digest for one accident under "both header generations".
  The digest is of the cells: when a year is published again with a column `istgkfz` that it did
  not have, each accident without a lorry is counted a second time. `RepublishedIsNotNew` is
  what does hold, of rows whose cells are the same but for order, column names and commas.

Further places where comments and code part, seen while modelling and not made runs: the
circle the README calls the densest may lie around an accident that is already assigned, and
the code passes over it (`cluster.go:81`); the two figures of a recompute are read in two
statements, between which an import may commit (`hotspots.go:68`); the reference year on the
fact sheet is the newest in the table, not the one the index was weighted against
(`factsheet.go:31`); a filter beyond the data is clipped to a range that ends before it begins
(`factsheet.go:122`); README.md:159 and migration 0007 promise that failed imports are recorded
too, and `importer osm` fetches before it records, so an answer that cannot be fetched leaves no
run (`osm.go:61`, the action `NoStart`). What does hold instead is in `ImplementsGreedy`,
`OverviewCoversHotspots`, `QuietRunIsCurrent`, `StatedRangeCoversSummary` and
`SucceededIsApplied`.

## 4. Theorems

Proved for every value of the constants that meets the named assumptions of the modules
(finite sets of workers, reports and accidents, positive limits, images with finitely
many files, integer coordinates). The arguments:

- **Reports** (`ReportsProofs`). `ReviewInv` strengthens the moderation properties: no
  row is younger than the clock, a page holds only what has been shown, nothing is
  decided unseen. A page is a *prefix* of the pending reports by age (`PageInOrder`),
  hence `OldestFirst` whatever the cut-off, and `PublicOnlyAfterReview`. `OneSalt`
  (a configured salt is the only one in requests and rows) gives `ConfirmedOnce`.
  `RateLimitOvershoot` needs that a request past the check only becomes a row
  (`InsertKeepsBound`) and that at the check at most the other workers are past it
  (`CheckKeepsBound`).
- **Migrate** (`MigrateProofs`). The inductive invariant is `TypeOK`, `Undisturbed` and
  `NoGaps` with the properties themselves: who is past the lock holds it, what it has read
  stays the whole truth, and what is no longer to do is recorded as it is in the image. It
  yields mutual exclusion, `AppliedExactlyOnce`, `NoMigratorRaces`, `SuccessIsCurrent`;
  with releases that only append files, `InOrder`. `Holding` says that a session only holds the
  lock while its process is past it or dead, and that a process is only where it can go on
  (`LockIsReturned`); `Left` counts the steps it still has, three for each file
  (`HolderCountsDown`).
- **Cluster** (`ClusterProofs`). `GridExact`: nine cells suffice, for every radius and
  also left of and below the origin. `QueueOptimistic` is the invariant of the lazy queue:
  it never underestimates a circle that can still be a hotspot. From it:
  `AllHotspotsFound`, and `RefinesGreedy`, that every step of the loop is the next step of
  the greedy method or none. `NoneCountedTwice` and `AlwaysAPlace` are invariants of their
  own (the second by an inequality of squares, `TwoRadii`). `ReportedRadius` is about the mean:
  that `Total` is the sum of the coordinates (`TotalSums`, a recursion over the members of a
  hotspot), how it changes when all are measured from one member (`ShiftsAdd`), and that the mean
  of vectors no longer than two radii is no longer either (`MeanIsNear`). `EveryTurnCounts`: a
  turn takes a pair of accident and count out of what the queue may still hold, which is finite;
  `NeverStuck`: a queue that is not empty has a best entry.
- **Figures** (`FiguresProofs`). `HoldsTable`: who has cleared the table holds it, so what
  was there is still there; hence `NoMixture`. `CountsCoverLoaded`: the numbers were counted
  on a state at least as new as the accidents that were loaded, and no institution got
  a number meanwhile; hence `OverviewCovers` and `QuietRunLeavesCurrent`. `SummaryFits`: what
  a sheet has counted stays stored and within its filter, so that both ends of the range it
  states, read a query later, lie around it (`ClipCovers`); that there is a last year, as in any
  finite set of them, takes a smallest counterexample (`LeastNumber`). Hence `SummaryCovered`.
- **Imports** (`ImportsProofs`). `RunsKnown`: every importer has a run of its own, applied
  once it comes to the regular end; hence `SucceededWasApplied`. For the tables the
  inductive invariant is `AnswersFit` (an answer is of the kinds asked for), `HeldApart`
  (open transactions have written different rows), `DeletesOnlyOld` (what a transaction is
  going to delete is still stored, old, and not in its answer: a commit of somebody else
  could only disturb this through a row both hold) and `HasReadCurrent` (as long as nobody
  else commits, everything stored is older than the transaction, and what it has read is
  what is stored). They yield `OnlyStaleIsLost`, `QuietLeavesAnswer`, `QuietLeavesTowns`.
- **Overpass** (`OverpassProofs`). One inductive invariant: every file, and whatever an importer
  holds, is torn, absent, or an answer that was given to the query of that name (`SaidTo`,
  `Fits`); before it is stored, an answer was given to the very step it is for (`SaidFor`). Since
  a file does not know its region, this yields `QueryReplayed` for any number of regions,
  `RegionReplayed` for one, and `OnlineImported` for what was not replayed. `ChoiceIsUnique` takes
  the best mapping on which two choices differ: both agree on all that are better, so they agree
  on it. That the code finds this choice, `BestMappingsImported`, is an induction over the turns
  of its loops (`SetInduction`): an insertion keeps a sorted list sorted (`InsertedSorted`,
  `SortedStableSorts`), and what `deduplicate` has kept of a sorted list is the best choice of its
  beginning (`SurvivorsLoop`, `SurvivorsAreBest`), as nothing better comes later. `better` does not
  tell apart unnamed elements of different types that share an id; it need not, since an unnamed
  element supersedes nothing (`SupersedesIsBetter`). With uniqueness, `OrderHasNoInfluence`.
  `CallsCountDown`: `Left` counts two steps for each attempt that is left and a whole `Turn` for
  each query that is left, which outweighs whatever the next query begins with (`NextTurn`).
- **Accidents** (`AccidentsProofs`). `StoreRefined` needs only `TypeInv`: what is committed was
  opened, published and usable. `DoneComplete` is for any number of importers too: a call has done
  the years before the one it is at, and the run it is in is its own and open (`DoneInv`), so
  nobody else can close it. `ServedApart`, `ConfirmedApart` and `SucceededCounted` assume `Apart`,
  that no two importers are at the same year at once, which nothing in the code sees to:
  `accidents_overlap` shows that it takes this. They need what relates the
  two files and the run: an ETag that equals an edition's number belongs to an archive of that
  edition or of a newer one that was renamed and not yet noted (`Paired`, `AllPaired`); what is
  opened was served and is what the checksum was taken of; a run that says succeeded has its
  edition in the table, which never shrinks (`CountInv`). `RepublishedNotNew` follows, under
  `Apart` too and for all columns, rows and readings: what a commit adds is staged under the digest
  of a row (`StagedIsRow`); had a counted edition the row in the same texts, it would be staged
  there under the same digest (`AlikeOneDigest`, `RowIsStaged`), and so be in the table.

Every safety property that a passing run checks is stated by a theorem.

**Only model-checked**: liveness (`CallsEnd`, `Terminates`, `EveryCallEnds`, and the fairness part of
`ImplementsGreedy`). ENABLED is out of the prover's reach; what is proved instead is the rest
of the argument: that there is a bound (`HolderCountsDown`, `EveryTurnCounts`, `CallsCountDown`)
and that something is there to be done (`LockIsReturned`, `NeverStuck`; for `Overpass` the type
invariant, as each point of a call has a step without a further condition).

## 5. Not modelled, and why

- Read endpoints, search functions, boundary lookup: one statement without state each.
- The score: a formula over floats.
- The decoding of CSV, ZIP, JSON and HTTP parameters, the rings of boundaries, types of schools,
  the text of Overpass queries: conversions without state.
- The rules of the configuration (`Validate`): conditions on single values.
- The frontend: that a map draws whichever of its style and its data comes last, and that the
  moderation page drops a queue with its token, are hazards without a property so far.
- Tests, CI, images, the proxy; the start order of the containers, which is compose's to keep.

## 6. Plan

Done, in this order: `Reports`, `Migrate`, `GreedyCluster`/`Cluster`, `Figures`, `Imports`,
`Mappings`/`Overpass`, `Rows`/`YearStore`/`Accidents`, each with its theorems. Next:

1. `MapSync`, `ModerationPage`: the readiness of the map and the queue of a token.
