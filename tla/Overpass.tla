------------------------------ MODULE Overpass ------------------------------
(***************************************************************************)
(* How `importer osm` comes by its answers: Query, once, store and Cached  *)
(* of backend/internal/osm/overpass.go, and fetch and the loops of         *)
(* backend/cmd/importer/osm.go around them.                                *)
(*                                                                         *)
(* Overpass answers each request as it likes; an answer is kept in a file  *)
(* per query, written in place, from which -offline replays it.  What the  *)
(* database makes of an answer is the module Imports.                      *)
(***************************************************************************)
EXTENDS Mappings

CONSTANTS
  Importers,
  Queries,      \* the names of the queries of a region, in order
  RegionOrder,  \* the configured regions, in order
  Worlds,       \* a sequence of what the map may hold: functions from
                \* <<region, query>> to the answers, sequences of elements
  Attempts      \* Client.Attempts

Regions == {RegionOrder[n] : n \in 1..Len(RegionOrder)}
QueryNames == {Queries[n] : n \in 1..Len(Queries)}

ASSUME OverpassAssumption ==
  /\ Attempts \in Nat \ {0}
  /\ RegionOrder \in Seq(Regions) /\ RegionOrder # <<>>
  /\ Queries \in Seq(QueryNames) /\ Queries # <<>>
ASSUME AnswersAssumption ==
  \A w \in DOMAIN Worlds : \A r \in Regions, q \in QueryNames :
    \A body \in Worlds[w][<<r, q>>] : IsAnswer(body)

VARIABLES
  world,      \* the input: which of the Worlds it is
  file,       \* the cache directory: query -> Absent, Torn or an answer
  cancelled,  \* the importers that were sent SIGTERM in this call
  proc        \* what each importer is doing

vars == <<world, file, cancelled, proc>>

\* importOSM: every query of every region.
Steps == 1..(Len(RegionOrder) * Len(Queries))
RegionOf(n) == RegionOrder[((n - 1) \div Len(Queries)) + 1]
QueryOf(n) == Queries[((n - 1) % Len(Queries)) + 1]

\* An answer, and what was asked for.
Answers(w, r, q) == [region : {r}, query : {q}, elements : Worlds[w][<<r, q>>]]

\* Files that hold no answer: none, and one that was cut off or mixed with
\* another, which is no JSON.
Absent == [torn |-> FALSE]
Torn == [torn |-> TRUE]

\* How a call has ended is not kept.
Idle == [pc |-> "idle"]

\* fetch: the cached answer, or the first attempt to get one.
Begin(step, offline) ==
  IF offline THEN [pc |-> "read", step |-> step]
  ELSE [pc |-> "ask", step |-> step, attempt |-> 1]

Init ==
  /\ world \in DOMAIN Worlds
  /\ file = [q \in QueryNames |-> Absent]
  /\ cancelled = {}
  /\ proc = [p \in Importers |-> Idle]

Launch(p) ==
  /\ proc[p].pc = "idle"
  /\ \E offline \in BOOLEAN : proc' = [proc EXCEPT ![p] = Begin(1, offline)]
  /\ cancelled' = cancelled \ {p}
  /\ UNCHANGED <<world, file>>

-----------------------------------------------------------------------------
(* Query                                                                   *)

\* 200 with a body that arrives whole.
Answered(p) ==
  /\ proc[p].pc = "ask" /\ p \notin cancelled
  /\ \E a \in Answers(world, RegionOf(proc[p].step), QueryOf(proc[p].step)) :
       proc' = [proc EXCEPT ![p] = [pc |-> "store", step |-> @.step, answer |-> a]]
  /\ UNCHANGED <<world, file, cancelled>>

\* 429, 503, 504, no connection, or a body that breaks off; after SIGTERM no
\* request is made at all.
Busy(p) ==
  /\ proc[p].pc = "ask"
  /\ proc' = [proc EXCEPT ![p].pc = "again"]
  /\ UNCHANGED <<world, file, cancelled>>

\* Any other status.
Refused(p) ==
  /\ proc[p].pc = "ask" /\ p \notin cancelled
  /\ proc' = [proc EXCEPT ![p] = Idle]
  /\ UNCHANGED <<world, file, cancelled>>

\* Mutants: one attempt too many; attempts are not counted.
AfterBusy_OneMore(p) ==
  CASE proc[p].attempt > Attempts \/ p \in cancelled -> Idle
    [] OTHER -> [proc[p] EXCEPT !.pc = "ask", !.attempt = @ + 1]
AfterBusy_Forever(p) == [proc[p] EXCEPT !.pc = "ask"]

\* ErrBusy after the last attempt, SIGTERM, or Sleep, which nothing cuts short.
AfterBusy(p) ==
  CASE proc[p].attempt = Attempts \/ p \in cancelled -> Idle
    [] OTHER -> [proc[p] EXCEPT !.pc = "ask", !.attempt = @ + 1]

Again(p) ==
  /\ proc[p].pc = "again"
  /\ proc' = [proc EXCEPT ![p] = AfterBusy(p)]
  /\ UNCHANGED <<world, file, cancelled>>

-----------------------------------------------------------------------------
(* The file                                                                *)

\* Mutant: one file for all queries.
FileOf_One(n) == Queries[1]

\* The name of a file is that of the query.
FileOf(n) == QueryOf(n)

Writes(p, q) == proc[p].pc = "write" /\ FileOf(proc[p].step) = q

\* os.WriteFile opens and truncates.  alone is history: has nobody else been
\* writing the file since?
Truncate(p) ==
  /\ proc[p].pc = "store"
  /\ LET q == FileOf(proc[p].step)
         others == {o \in Importers \ {p} : Writes(o, q)}
     IN  /\ file' = [file EXCEPT ![q] = Torn]
         /\ proc' = [o \in Importers |->
              IF o = p \/ o \in others
              THEN [pc |-> "write", step |-> proc[o].step, answer |-> proc[o].answer,
                    alone |-> o = p /\ others = {}]
              ELSE proc[o]]
  /\ UNCHANGED <<world, cancelled>>

\* What is in the file when the last byte has been written.
Written(p) == IF proc[p].alone THEN {proc[p].answer} ELSE {proc[p].answer, Torn}

Write(p) ==
  /\ proc[p].pc = "write"
  /\ \E content \in Written(p) : file' = [file EXCEPT ![FileOf(proc[p].step)] = content]
  /\ proc' = [proc EXCEPT ![p] =
       [pc |-> "use", step |-> @.step, answer |-> @.answer, offline |-> FALSE]]
  /\ UNCHANGED <<world, cancelled>>

\* An answer that cannot be stored is no answer.
NoStore(p) ==
  /\ proc[p].pc \in {"store", "write"}
  /\ proc' = [proc EXCEPT ![p] = Idle]
  /\ UNCHANGED <<world, file, cancelled>>

\* Cached.  os.ReadFile beside a writer gets a part of the file, which is what the
\* file is between two steps of the writer: torn.
Read(p) ==
  /\ proc[p].pc = "read"
  /\ proc' = [proc EXCEPT ![p] =
       IF file[FileOf(@.step)] = Absent THEN Idle
       ELSE [pc |-> "use", step |-> @.step, answer |-> file[FileOf(@.step)], offline |-> TRUE]]
  /\ UNCHANGED <<world, file, cancelled>>

-----------------------------------------------------------------------------
(* What is done with it                                                    *)

Items(a) ==
  IF a.query = "institutions" THEN ParseInstitutions(a.elements) ELSE ToSet(a.elements)

Parse(p) ==
  /\ proc[p].pc = "use" /\ p \notin cancelled
  /\ proc' = [proc EXCEPT ![p] =
       IF @.answer # Torn
       THEN [pc |-> "import", step |-> @.step, answer |-> @.answer, offline |-> @.offline,
             items |-> Items(@.answer)]
       ELSE Idle]
  /\ UNCHANGED <<world, file, cancelled>>

\* The transaction, and the next query of the region or the next region.
Import(p) ==
  /\ proc[p].pc = "import" /\ p \notin cancelled
  /\ proc' = [proc EXCEPT ![p] =
       IF @.step + 1 \in Steps THEN Begin(@.step + 1, @.offline) ELSE Idle]
  /\ UNCHANGED <<world, file, cancelled>>

\* A statement fails, as all do after SIGTERM.
Fail(p) ==
  /\ proc[p].pc \in {"use", "import"}
  /\ proc' = [proc EXCEPT ![p] = Idle]
  /\ UNCHANGED <<world, file, cancelled>>

Work(p) ==
  \/ Busy(p) \/ Refused(p) \/ Again(p) \/ Answered(p)
  \/ NoStore(p) \/ Truncate(p) \/ Write(p) \/ Read(p)
  \/ Fail(p) \/ Parse(p) \/ Import(p)

Cancel(p) ==
  /\ proc[p].pc # "idle"
  /\ p \notin cancelled
  /\ cancelled' = cancelled \cup {p}
  /\ UNCHANGED <<world, file, proc>>

\* SIGKILL, in the middle of anything.
Die(p) ==
  /\ proc[p].pc # "idle"
  /\ proc' = [proc EXCEPT ![p] = Idle]
  /\ UNCHANGED <<world, file, cancelled>>

Next == \E p \in Importers : Launch(p) \/ Work(p) \/ Cancel(p) \/ Die(p)

\* The requests time out after five minutes and the waits are finite, so an
\* importer goes on; nobody has to start, stop or kill it.
Spec == Init /\ [][Next]_vars /\ \A p \in Importers : WF_vars(Work(p))

-----------------------------------------------------------------------------
(* Properties                                                              *)

\* Something the server says in the world w.
IsSaid(w, a) ==
  \E r \in Regions, q \in QueryNames : a \in Answers(w, r, q)

IsProc(w, s) ==
  CASE s.pc = "idle" -> s = Idle
    [] s.pc \in {"ask", "again"} ->
         s \in [pc : {"ask", "again"}, step : Steps, attempt : 1..Attempts]
    [] s.pc = "read" -> s \in [pc : {"read"}, step : Steps]
    [] s.pc = "store" ->
         s = [pc |-> "store", step |-> s.step, answer |-> s.answer]
           /\ s.step \in Steps /\ IsSaid(w, s.answer)
    [] s.pc = "write" ->
         s = [pc |-> "write", step |-> s.step, answer |-> s.answer, alone |-> s.alone]
           /\ s.step \in Steps /\ IsSaid(w, s.answer) /\ s.alone \in BOOLEAN
    [] s.pc = "use" ->
         s = [pc |-> "use", step |-> s.step, answer |-> s.answer, offline |-> s.offline]
           /\ s.step \in Steps /\ (s.answer = Torn \/ IsSaid(w, s.answer)) /\ s.offline \in BOOLEAN
    [] s.pc = "import" ->
         s = [pc |-> "import", step |-> s.step, answer |-> s.answer, offline |-> s.offline,
              items |-> s.items]
           /\ s.step \in Steps /\ IsSaid(w, s.answer) /\ s.offline \in BOOLEAN
    [] OTHER -> FALSE

(* No query is tried more than Attempts times, whatever came before it.    *)
TypeOK ==
  /\ world \in DOMAIN Worlds
  /\ DOMAIN file = QueryNames
  /\ \A q \in QueryNames : file[q] \in {Absent, Torn} \/ IsSaid(world, file[q])
  /\ cancelled \subseteq Importers
  /\ DOMAIN proc = Importers
  /\ \A p \in Importers : IsProc(world, proc[p])

(* "The raw bytes are kept under name so a parser change can be replayed    *)
(* against exactly what the server said": what is imported for a query of  *)
(* a region, from the server or from the file, is an answer the server     *)
(* gave to this query for this region, whole, whoever died or wrote the    *)
(* file at the same time.                                                  *)
ImportedAsAsked ==
  \A p \in Importers : proc[p].pc = "import" =>
    proc[p].answer \in
      Answers(world, RegionOf(proc[p].step), QueryOf(proc[p].step))

(* Why: what an importer has been answered, and what it finds in a file,   *)
(* was said to the query of that name, if only for some region.            *)
SaidFor(w, n) == Answers(w, RegionOf(n), QueryOf(n))

SaidTo(w, q, a) == \E n \in Steps : QueryOf(n) = q /\ a \in SaidFor(w, n)

Fits(w, s) ==
  /\ s.pc \in {"store", "write"} => s.answer \in SaidFor(w, s.step)
  /\ s.pc = "use" /\ s.answer # Torn => SaidTo(w, QueryOf(s.step), s.answer)
  /\ s.pc = "import" => SaidTo(w, QueryOf(s.step), s.answer)
  /\ s.pc \in {"use", "import"} /\ ~s.offline => s.answer \in SaidFor(w, s.step)

CacheInv ==
  /\ \A q \in QueryNames : file[q] \in {Absent, Torn} \/ SaidTo(world, q, file[q])
  /\ \A p \in Importers : Fits(world, proc[p])

(* "each one caches and replays on its own": for any number of regions,    *)
(* what is imported was said to the query of that name.                    *)
ImportedForTheQuery ==
  \A p \in Importers : proc[p].pc = "import" =>
    SaidTo(world, QueryOf(proc[p].step), proc[p].answer)

(* With any number of regions, what is imported online is an answer the    *)
(* server gave to this query for this region, whoever else writes the file *)
(* that the regions share.                                                 *)
OnlineAsAsked ==
  \A p \in Importers : proc[p].pc = "import" /\ ~proc[p].offline =>
    proc[p].answer \in
      Answers(world, RegionOf(proc[p].step), QueryOf(proc[p].step))

(* "better is a total order, so exactly one of a group survives ... which  *)
(* makes the result independent of the order Overpass happened to return   *)
(* them in": the institutions imported are those that no better one among  *)
(* them supersedes, and there is no other such choice.                     *)
KeepsBestMappings ==
  \A p \in Importers : proc[p].pc = "import" /\ proc[p].answer.query = "institutions" =>
    LET all == ToSet(Institutions(proc[p].answer.elements))
    IN  \A kept \in SUBSET all : IsBestOf(kept, all) <=> kept = proc[p].items

(* Every call ends, however long Overpass stays busy, whether or not it is *)
(* told to stop.                                                           *)
EveryCallEnds == \A p \in Importers : proc[p].pc # "idle" ~> proc[p].pc = "idle"

-----------------------------------------------------------------------------
(* What the documentation says and the code does not do                    *)

(* "The raw bytes are kept under name so a parser change can be replayed    *)
(* against exactly what the server said": what -offline imports for a      *)
(* query of a region is what the server said to it.                        *)
ReplaysWhatWasSaid ==
  \A p \in Importers : proc[p].pc = "import" /\ proc[p].offline =>
    proc[p].answer.region = RegionOf(proc[p].step)
=============================================================================
