------------------------------ MODULE Accidents ------------------------------
(***************************************************************************)
(* `importer accidents`: importAccidents and importYear of                 *)
(* backend/cmd/importer/main.go with Fetch of internal/accidents/          *)
(* download.go, ImportArchive and Import of import.go, and importrun.      *)
(*                                                                         *)
(* The publisher replaces the file of a year by a newer edition now and    *)
(* then.  An importer asks for each year with the ETag of the copy it has, *)
(* renames a newer one into place, notes its ETag, and counts the rows in  *)
(* one transaction; it may fail, be cancelled or die anywhere in between.  *)
(* Editions are numbered, and an ETag or a checksum is the number of the   *)
(* edition it belongs to.                                                  *)
(***************************************************************************)
EXTENDS Rows

CONSTANTS
  Importers,
  Years,      \* a range of integers
  Editions,   \* year -> sequence of the files published for it
  MaxRuns     \* bound of the model: runs recorded

ASSUME YearsAssumption ==
  /\ Years \subseteq Int
  /\ \A from, to \in Years : from..to \subseteq Years
ASSUME EditionsAssumption ==
  \A y \in Years : Editions[y] \in Seq({Editions[y][e] : e \in DOMAIN Editions[y]})
ASSUME RunsAssumption == MaxRuns \in Nat

VARIABLES
  public,     \* year -> editions published so far, the latest being offered
  archive,    \* year -> the edition of the cached file
  etag,       \* year -> the edition that the file beside it names
  accidents,  \* the table: source_hash -> accident
  runs,       \* import_runs: id -> [year, status, checksum]
  proc        \* what each importer is doing

cache == <<archive, etag>>
vars == <<public, cache, accidents, runs, proc>>

\* No edition, and no run.
None == 0

\* What an edition holds, as a whole.
Contents ==
  [y \in Years |->
     [e \in DOMAIN Editions[y] |-> {Staged(f) : f \in {g \in {Editions[y][e]} : Whole(g)}}]]

Store == INSTANCE YearStore
  WITH Years <- Years, Contents <- Contents, public <- public, accidents <- accidents

Nothing == [k \in {} |-> {}]

\* An importer at a year of its range; first is history, the first run that it
\* can have recorded.  served is the edition the server has sent or confirmed,
\* tag the ETag that is sent, and then the one that was received.
At(pc, year, from, to, first) ==
  [pc |-> pc, year |-> year, from |-> from, to |-> to, first |-> first,
   run |-> None, tag |-> None, served |-> None, checksum |-> None, opened |-> None]

\* An importer that is not running keeps the range it has done, as history:
\* none unless the last call ended without an error.
NotDone == At("idle", 1, 1, 0, 1)

Init ==
  /\ public = [y \in Years |-> None]
  /\ archive = [y \in Years |-> None]
  /\ etag = [y \in Years |-> None]
  /\ accidents = Nothing
  /\ runs = Nothing
  /\ proc = [p \in Importers |-> NotDone]

\* The publisher.
Publish(y) ==
  /\ public[y] + 1 \in DOMAIN Editions[y]
  /\ public' = [public EXCEPT ![y] = @ + 1]
  /\ UNCHANGED <<cache, accidents, runs, proc>>

\* parseYears: a year, or a range that does not end before it starts.
Launch(p) ==
  /\ proc[p].pc = "idle"
  /\ \E from, to \in Years, first \in 1..(MaxRuns + 1) :
       /\ from <= to
       /\ DOMAIN runs = 1..(first - 1)
       /\ proc' = [proc EXCEPT ![p] = At("start", from, from, to, first)]
  /\ UNCHANGED <<public, cache, accidents, runs>>

\* importrun.Start.
StartRun(p) ==
  /\ proc[p].pc = "start"
  /\ \E r \in 1..MaxRuns :
       /\ DOMAIN runs = 1..(r - 1)
       /\ runs' = [s \in 1..r |->
            IF s = r THEN [year |-> proc[p].year, status |-> "running", checksum |-> None]
            ELSE runs[s]]
       /\ proc' = [proc EXCEPT ![p].pc = "look", ![p].run = r]
  /\ UNCHANGED <<public, cache, accidents>>

-----------------------------------------------------------------------------
(* Fetch                                                                   *)

\* The ETag is of use only with a file to go with it.  os.Stat and os.ReadFile
\* are one step: a file that is there stays, so this is the later call if it is
\* there, and the only one if it is not.
Look(p) ==
  /\ proc[p].pc = "look"
  /\ LET y == proc[p].year
     IN  proc' = [proc EXCEPT ![p].pc = "ask",
                              ![p].tag = IF archive[y] # None THEN etag[y] ELSE None]
  /\ UNCHANGED <<public, cache, accidents, runs>>

\* 304.
NotModified(p) ==
  /\ proc[p].pc = "ask"
  /\ proc[p].tag # None /\ proc[p].tag = public[proc[p].year]
  /\ proc' = [proc EXCEPT ![p].pc = "sum", ![p].served = proc[p].tag]
  /\ UNCHANGED <<public, cache, accidents, runs>>

\* checksumFile.
Sum(p) ==
  /\ proc[p].pc = "sum"
  /\ proc' = [proc EXCEPT ![p].pc = "read", ![p].checksum = archive[proc[p].year]]
  /\ UNCHANGED <<public, cache, accidents, runs>>

\* 200, with or without an ETag, and a body that arrives whole.
Downloaded(p) ==
  /\ proc[p].pc = "ask"
  /\ LET e == public[proc[p].year]
     IN  /\ e # None
         /\ \E tag \in {None, e} :
              proc' = [proc EXCEPT ![p].pc = "rename", ![p].served = e,
                                   ![p].checksum = e, ![p].tag = tag]
  /\ UNCHANGED <<public, cache, accidents, runs>>

Rename(p) ==
  /\ proc[p].pc = "rename"
  /\ archive' = [archive EXCEPT ![proc[p].year] = proc[p].served]
  /\ proc' = [proc EXCEPT ![p].pc = IF proc[p].tag = None THEN "read" ELSE "open"]
  /\ UNCHANGED <<public, etag, accidents, runs>>

\* os.WriteFile opens and truncates.
Truncate(p) ==
  /\ proc[p].pc = "open"
  /\ etag' = [etag EXCEPT ![proc[p].year] = None]
  /\ proc' = [proc EXCEPT ![p].pc = "note"]
  /\ UNCHANGED <<public, archive, accidents, runs>>

\* It writes the ETag, or half of it; half of one is none.
Note(p) ==
  /\ proc[p].pc = "note"
  /\ \E tag \in {None, proc[p].tag} : etag' = [etag EXCEPT ![proc[p].year] = tag]
  /\ proc' = [proc EXCEPT ![p].pc = "read"]
  /\ UNCHANGED <<public, archive, accidents, runs>>

\* An ETag that cannot be written is not missed.
NoNote(p) ==
  /\ proc[p].pc \in {"open", "note"}
  /\ proc' = [proc EXCEPT ![p].pc = "read"]
  /\ UNCHANGED <<public, cache, accidents, runs>>

-----------------------------------------------------------------------------
(* ImportArchive, and the end of a run                                     *)

FileAt(y, e) == Editions[y][e]

\* The file is opened and read to its end, before anything is inserted.
Read(p) ==
  /\ proc[p].pc = "read"
  /\ archive[proc[p].year] # None
  /\ LET e == archive[proc[p].year]
     IN  proc' = [proc EXCEPT ![p].pc = IF Usable(FileAt(proc[p].year, e)) THEN "commit" ELSE "failing",
                              ![p].opened = e]
  /\ UNCHANGED <<public, cache, accidents, runs>>

\* Mutant: what is there of the year gives way.
Merged_Replaced(table, rows) == rows

\* ON CONFLICT DO NOTHING.
Merged(table, rows) ==
  [k \in DOMAIN table \cup DOMAIN rows |-> IF k \in DOMAIN table THEN table[k] ELSE rows[k]]

\* The transaction, whose acknowledgement may be lost.
Commit(p) ==
  /\ proc[p].pc = "commit"
  /\ accidents' = Merged(accidents, Staged(FileAt(proc[p].year, proc[p].opened)))
  /\ \E next \in {"finish", "failing"} : proc' = [proc EXCEPT ![p].pc = next]
  /\ UNCHANGED <<public, cache, runs>>

\* Mutant: the archive could not be renamed, and nobody looks.
AfterError_Ignored(p) ==
  IF proc[p].pc = "rename" THEN [proc[p] EXCEPT !.pc = "open"]
  ELSE [proc[p] EXCEPT !.pc = "failing"]

\* Fetch has no checksum to return with its error.
AfterError(p) ==
  [proc[p] EXCEPT !.pc = "failing",
                  !.checksum = IF proc[p].pc \in {"read", "commit"} THEN @ ELSE None]

\* No answer, another status, half a body; a full disk; a statement that fails.
Fail(p) ==
  /\ proc[p].pc \in {"ask", "sum", "rename", "read", "commit"}
  /\ proc' = [proc EXCEPT ![p] = AfterError(p)]
  /\ UNCHANGED <<public, cache, accidents, runs>>

\* Mutants: a year that fails is passed over; the loop goes round once too often.
Advance_PassOver(p) ==
  CASE proc[p].year < proc[p].to ->
         At("start", proc[p].year + 1, proc[p].from, proc[p].to, proc[p].first)
    [] OTHER -> At("idle", proc[p].year, proc[p].from, proc[p].to, proc[p].first)
Advance_OneMore(p) ==
  CASE proc[p].pc = "failing" -> NotDone
    [] proc[p].pc = "finish" /\ proc[p].year <= proc[p].to ->
         At("start", proc[p].year + 1, proc[p].from, proc[p].to, proc[p].first)
    [] OTHER -> At("idle", proc[p].year, proc[p].from, proc[p].to, proc[p].first)

\* The first error ends the call.
Advance(p) ==
  CASE proc[p].pc = "failing" -> NotDone
    [] proc[p].pc = "finish" /\ proc[p].year < proc[p].to ->
         At("start", proc[p].year + 1, proc[p].from, proc[p].to, proc[p].first)
    [] OTHER -> At("idle", proc[p].year, proc[p].from, proc[p].to, proc[p].first)

\* importrun.Finish, and the next year.
Finish(p) ==
  /\ proc[p].pc \in {"finish", "failing"}
  /\ runs' = [runs EXCEPT ![proc[p].run] =
       [year |-> @.year, checksum |-> proc[p].checksum,
        status |-> IF proc[p].pc = "failing" THEN "failed" ELSE "succeeded"]]
  /\ proc' = [proc EXCEPT ![p] = Advance(p)]
  /\ UNCHANGED <<public, cache, accidents>>

\* The run could not be recorded or closed; SIGTERM, with which nothing can be
\* recorded any more; a crash.
Stop(p) ==
  /\ proc[p].pc # "idle"
  /\ proc' = [proc EXCEPT ![p] = NotDone]
  /\ UNCHANGED <<public, cache, accidents, runs>>

Work(p) ==
  \/ Launch(p) \/ StartRun(p) \/ Look(p) \/ NotModified(p) \/ Sum(p) \/ Downloaded(p)
  \/ Rename(p) \/ Truncate(p) \/ Note(p) \/ NoNote(p)
  \/ Read(p) \/ Commit(p) \/ Fail(p) \/ Finish(p) \/ Stop(p)

Next == (\E y \in Years : Publish(y)) \/ (\E p \in Importers : Work(p))

Spec == Init /\ [][Next]_vars

-----------------------------------------------------------------------------
(* Properties                                                              *)

PCs == {"idle", "start", "look", "ask", "sum", "rename", "open", "note", "read",
        "commit", "finish", "failing"}

Procs ==
  [pc : PCs, year : Int, from : Int, to : Int, first : 1..(MaxRuns + 1),
   run : 0..MaxRuns, tag : Nat, served : Nat, checksum : Nat, opened : Nat]

(* Every importer works on a published edition of a year it was asked for, *)
(* and closes the run it has started for this year.                        *)
TypeOK ==
  /\ public \in [Years -> Nat] /\ archive \in [Years -> Nat] /\ etag \in [Years -> Nat]
  /\ \A y \in Years :
       archive[y] <= public[y] /\ etag[y] <= public[y] /\ 1..public[y] \subseteq DOMAIN Editions[y]
  /\ \E last \in 0..MaxRuns : DOMAIN runs = 1..last
  /\ runs \in [DOMAIN runs ->
       [year : Years, status : {"running", "succeeded", "failed"}, checksum : Nat]]
  /\ proc \in [Importers -> Procs]
  /\ \A p \in Importers :
       /\ proc[p].pc # "idle" => proc[p].year \in Years /\ proc[p].year \in proc[p].from..proc[p].to
       /\ proc[p].pc \notin {"idle", "start"} =>
            proc[p].run \in DOMAIN runs /\ runs[proc[p].run].year = proc[p].year
       /\ proc[p].pc = "commit" =>
            /\ proc[p].opened \in 1..public[proc[p].year]
            /\ Usable(FileAt(proc[p].year, proc[p].opened))

(* "Rows already present are left untouched", a year "lands in one         *)
(* statement": whoever crashes, fails or imports at the same time, the     *)
(* table only ever grows by the whole of a published edition.              *)
ImplementsStore == Store!Spec

(* "Cached: the server confirmed the cached copy is still current": what   *)
(* is counted after Fetch is the edition that the server has just sent or  *)
(* confirmed, and that the checksum of the run is of, although archive and *)
(* ETag are written one after the other.                                   *)
CountsWhatWasServed ==
  \A p \in Importers : proc[p].pc \in {"commit", "finish"} =>
    proc[p].opened = proc[p].served /\ proc[p].opened = proc[p].checksum

(* "Without it, a number on the map cannot be traced back to the data it   *)
(* came from": the accidents of the edition that a succeeded run names are *)
(* all in the table, and stay there.                                       *)
Counted(table, y, e) ==
  /\ e \in DOMAIN Editions[y]
  /\ DOMAIN Staged(FileAt(y, e)) \subseteq DOMAIN table

SucceededIsCounted ==
  \A r \in DOMAIN runs : runs[r].status = "succeeded" =>
    Counted(accidents, runs[r].year, runs[r].checksum)

(* A call that ends without an error has imported each year of its range,  *)
(* in a run of its own.                                                    *)
DoneIsComplete ==
  \A p \in Importers : proc[p].pc = "idle" =>
    \A y \in proc[p].from..proc[p].to : \E r \in DOMAIN runs :
      r >= proc[p].first /\ runs[r].year = y /\ runs[r].status = "succeeded"

\* The rows of a file that parse accepts.
AcceptedRows(file) ==
  {n \in Lines(file) : Accepted(mapColumns(file.header), file.rows[n])}

ReadAs(file, n) == Parsed(mapColumns(file.header), file.rows[n])

\* Two rows with the same texts, but for the order and the names of the columns,
\* commas for points, and columns that are not read or left empty.
SpelledAlike(one, m, other, n) ==
  LET Text(file, l, f) ==
        LET text == get(mapColumns(file.header), file.rows[l], f)
        IN  IF text = Missing THEN "" ELSE Pointed[text]
  IN  \A f \in Fields : Text(one, m, f) = Text(other, n, f)

\* A row that was there, spelled alike, in an edition that a succeeded run names.
Stated(file, n) ==
  \E r \in DOMAIN runs :
    /\ runs[r].status = "succeeded"
    /\ runs[r].checksum \in DOMAIN Editions[runs[r].year]
    /\ LET other == FileAt(runs[r].year, runs[r].checksum)
       IN  \E m \in AcceptedRows(other) :
             ReadAs(other, m) = ReadAs(file, n) /\ SpelledAlike(other, m, file, n)

(* "a re-published file with different whitespace, column order or line    *)
(* endings must not look like a set of new accidents", "or a re-import     *)
(* after a column rename would duplicate every row": what an import adds   *)
(* to the table is in the edition it has read, and was in no edition that  *)
(* has been counted before, were it with other columns or with commas.     *)
RepublishedIsNotNew ==
  [][\A k \in DOMAIN accidents' \ DOMAIN accidents : \E p \in Importers :
       /\ proc[p].pc = "commit"
       /\ LET file == FileAt(proc[p].year, proc[p].opened)
          IN  \E n \in AcceptedRows(file) :
                ReadAs(file, n) = accidents'[k] /\ ~Stated(file, n)]_accidents

-----------------------------------------------------------------------------
(* What the documentation says and the code does not do                    *)

(* "Cached: the server confirmed the cached copy is still current": when   *)
(* nobody is importing and the server would confirm the ETag, the copy is  *)
(* current.                                                                *)
ConfirmedIsCurrent ==
  (\A p \in Importers : proc[p].pc = "idle") =>
    \A y \in Years : etag[y] # None /\ etag[y] = public[y] => archive[y] = public[y]

(* "hashRow digests the parsed values, not the raw line", "Both header     *)
(* generations must produce the same digest for the same accident": what   *)
(* is read as one accident is counted once.  The digest is of the texts,   *)
(* so 05 is not 5, and a flag that has no column is not 0.                 *)
CountedOnce ==
  \A k, l \in DOMAIN accidents : accidents[k] = accidents[l] => k = l
=============================================================================
