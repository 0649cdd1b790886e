------------------------------- MODULE Figures -------------------------------
(***************************************************************************)
(* The figures that are computed from the accidents and stored, and the    *)
(* fact sheet that prints them: backend/internal/scoring/hotspots.go, the  *)
(* imports that change its input, and backend/internal/api/factsheet.go.   *)
(*                                                                         *)
(* Each statement sees what was committed when IT began (READ COMMITTED),  *)
(* so a recompute reads the accidents twice, and a fact sheet is put       *)
(* together from several states of the database.  What the clustering      *)
(* computes is the subject of Cluster; here the hotspots are represented   *)
(* by the accidents they were computed from.                               *)
(***************************************************************************)
EXTENDS Integers, FiniteSets

CONSTANTS
  Accidents,
  YearOf,        \* accident -> reporting year
  Institutions,  \* OSM keys
  Places,
  Nearby,        \* place -> the accidents within NearbyRadiusMetres
  Recomputers,   \* processes that run `importer hotspots`
  School,        \* the institution whose fact sheet is asked for
  Filters,       \* the year filters asked with: what parseYears lets pass
  NotCounted,    \* NULL
  Nobody

Numbers == 0..Cardinality(Accidents)

Years == {YearOf[a] : a \in Accidents}

ASSUME AccidentsAssumption ==
  IsFiniteSet(Accidents) /\ YearOf \in [Accidents -> Nat \ {0}]
ASSUME PlacesAssumption == Nearby \in [Places -> SUBSET Accidents]
ASSUME FiltersAssumption ==
  /\ Filters \subseteq [from : Nat, to : Nat]
  /\ \A f \in Filters : f.from <= f.to
ASSUME OthersAssumption == NotCounted \notin Numbers /\ Nobody \notin Recomputers

VARIABLES
  accidents,     \* the table
  institutions,  \* the table: key -> [place, nearby, at]; at is history: the
                 \* place the stored number was counted at
  hotspots,      \* the table: rows [by, of], of = the accidents clustered
  lock,          \* who holds hotspots exclusively (TRUNCATE takes it)
  run,           \* what each recompute is doing
  sheet          \* the fact sheet being put together, or printed

vars == <<accidents, institutions, hotspots, lock, run, sheet>>

Idle == [pc |-> "idle"]

NoSheet == [pc |-> "none"]

\* The lowest and the highest of a set of years.
First(years) == CHOOSE y \in years : \A z \in years : y <= z
Last(years)  == CHOOSE y \in years : \A z \in years : z <= y

YearsOf(set) == {YearOf[a] : a \in set}

\* loadAccidents: the year the weighting counts back from, 0 without accidents.
Reference(set) == IF set = {} THEN 0 ELSE Last(YearsOf(set))

Init ==
  /\ accidents = {}
  /\ institutions = [i \in {} |-> Idle]
  /\ hotspots = {}
  /\ lock = Nobody
  /\ run = [p \in Recomputers |-> Idle]
  /\ sheet = NoSheet

-----------------------------------------------------------------------------
(* The imports that change the input                                       *)

\* Import: the accidents of one file in one statement; ON CONFLICT DO NOTHING.
ImportYear(y) ==
  /\ accidents' = accidents \cup {a \in Accidents : YearOf[a] = y}
  /\ UNCHANGED <<institutions, hotspots, lock, run, sheet>>

\* Rows an uncommitted recompute has updated.
Locked(p) == IF run[p].pc = "commit" THEN DOMAIN run[p].counts ELSE {}

\* ImportInstitutions: the upsert leaves accidents_nearby alone, the prune
\* removes what OpenStreetMap no longer has.  It waits for locked rows.
ImportInstitutions(found) ==
  /\ \A p \in Recomputers : Locked(p) = {}
  /\ institutions' =
       [i \in DOMAIN found |->
          IF i \in DOMAIN institutions
          THEN [institutions[i] EXCEPT !.place = found[i]]
          ELSE [place |-> found[i], nearby |-> NotCounted, at |-> found[i]]]
  /\ UNCHANGED <<accidents, hotspots, lock, run, sheet>>

-----------------------------------------------------------------------------
(* RecomputeHotspots, one transaction                                      *)

\* loadAccidents.
Load(p) ==
  /\ run[p] = Idle
  /\ run' = [run EXCEPT ![p] = [pc |-> "clear", loaded |-> accidents]]
  /\ UNCHANGED <<accidents, institutions, hotspots, lock, sheet>>

\* Mutant: DELETE instead of TRUNCATE takes no lock on the table.
LockFree_Delete == TRUE

LockFree == lock = Nobody

\* TRUNCATE waits for the exclusive lock; the clustering and writeHotspots
\* follow.  Nobody else sees anything of it before the commit.
Clear(p) ==
  /\ run[p].pc = "clear" /\ LockFree
  /\ lock' = p
  /\ run' = [run EXCEPT ![p] = [pc |-> "count", loaded |-> @.loaded, cleared |-> hotspots]]
  /\ UNCHANGED <<accidents, institutions, hotspots, sheet>>

\* Mutant: only institutions without a number are counted.
Counted_OnlyNew == {i \in DOMAIN institutions : institutions[i].nearby = NotCounted}

\* The rows the UPDATE touches: all of them.
Counted == DOMAIN institutions

\* Mutant: a join counts every accident once for each reporting year.
NumberNear_PerYear(i) ==
  Cardinality(accidents \cap Nearby[institutions[i].place]) * Cardinality(YearsOf(accidents))

NumberNear(i) == Cardinality(accidents \cap Nearby[institutions[i].place])

\* countAccidentsNearby, on the accidents committed by now.
Count(p) ==
  /\ run[p].pc = "count"
  /\ \A q \in Recomputers : Locked(q) = {}
  /\ run' = [run EXCEPT ![p] =
       [pc |-> "commit", loaded |-> @.loaded, cleared |-> @.cleared,
        counts |-> [i \in Counted |-> NumberNear(i)]]]
  /\ UNCHANGED <<accidents, institutions, hotspots, lock, sheet>>

Commit(p) ==
  /\ run[p].pc = "commit"
  /\ hotspots' = (hotspots \ run[p].cleared) \cup {[by |-> p, of |-> run[p].loaded]}
  /\ institutions' =
       [i \in DOMAIN institutions |->
          IF i \in DOMAIN run[p].counts
          THEN [institutions[i] EXCEPT !.nearby = run[p].counts[i], !.at = institutions[i].place]
          ELSE institutions[i]]
  /\ lock' = Nobody
  /\ run' = [run EXCEPT ![p] = Idle]
  /\ UNCHANGED <<accidents, sheet>>

\* An error, a signal or a crash: the transaction is rolled back.
Abort(p) ==
  /\ run[p] # Idle
  /\ lock' = IF lock = p THEN Nobody ELSE lock
  /\ run' = [run EXCEPT ![p] = Idle]
  /\ UNCHANGED <<accidents, institutions, hotspots, sheet>>

-----------------------------------------------------------------------------
(* GET /api/institutions/{id}/factsheet: one statement after the other     *)

OpenSheet(filter) ==
  /\ sheet.pc \in {"none", "printed"}
  /\ School \in DOMAIN institutions
  /\ sheet' = [pc |-> "summary", filter |-> filter]
  /\ UNCHANGED <<accidents, institutions, hotspots, lock, run>>

\* The accidents around the institution in the years asked for; none when the
\* institution has been removed meanwhile.
SummariseAccidents ==
  /\ sheet.pc = "summary"
  /\ sheet' = [pc |-> "hotspots", filter |-> sheet.filter,
               summary |-> IF School \in DOMAIN institutions
                 THEN {a \in accidents \cap Nearby[institutions[School].place] :
                         YearOf[a] \in sheet.filter.from..sheet.filter.to}
                 ELSE {}]
  /\ UNCHANGED <<accidents, institutions, hotspots, lock, run>>

\* loadHotspots, which waits while a recompute holds the table: all the sheet
\* takes from the rows that matters here is the year they were scored against.
ReadHotspots ==
  /\ sheet.pc = "hotspots" /\ LockFree
  /\ sheet' = [pc |-> "span", filter |-> sheet.filter, summary |-> sheet.summary,
               scored |-> {Reference(h.of) : h \in {row \in hotspots : row.of # {}}}]
  /\ UNCHANGED <<accidents, institutions, hotspots, lock, run>>

\* Mutant: clipped to the year the hotspots were scored against.
Clip_ToScored(filter) ==
  [from |-> filter.from,
   to   |-> IF \E y \in sheet.scored : filter.to > y THEN Last(sheet.scored) ELSE filter.to]

\* The years the sheet states: the bounds asked for, each clipped on its own.
Clip(filter) ==
  IF accidents = {} THEN filter
  ELSE [from |-> IF filter.from < First(YearsOf(accidents))
                 THEN First(YearsOf(accidents)) ELSE filter.from,
        to   |-> IF filter.to > Last(YearsOf(accidents))
                 THEN Last(YearsOf(accidents)) ELSE filter.to]

\* The last query (min and max of all years), and the answer.
PrintSheet ==
  /\ sheet.pc = "span"
  /\ sheet' = [pc |-> "printed", summary |-> sheet.summary, scored |-> sheet.scored,
               years |-> Clip(sheet.filter), reference |-> Reference(accidents)]
  /\ UNCHANGED <<accidents, institutions, hotspots, lock, run>>

AbandonSheet ==
  /\ sheet.pc \in {"summary", "hotspots", "span"}
  /\ sheet' = NoSheet
  /\ UNCHANGED <<accidents, institutions, hotspots, lock, run>>

Recompute(p) == Load(p) \/ Clear(p) \/ Count(p) \/ Commit(p) \/ Abort(p)

ServeSheet ==
  \/ \E filter \in Filters : OpenSheet(filter)
  \/ SummariseAccidents
  \/ ReadHotspots
  \/ PrintSheet
  \/ AbandonSheet

Next ==
  \/ \E y \in Years : ImportYear(y)
  \/ \E S \in SUBSET Institutions : \E found \in [S -> Places] : ImportInstitutions(found)
  \/ \E p \in Recomputers : Recompute(p)
  \/ ServeSheet

Spec == Init /\ [][Next]_vars

-----------------------------------------------------------------------------
(* Properties                                                              *)

Rows == [place : Places, nearby : Numbers \cup {NotCounted}, at : Places]

Answers == [by : Recomputers, of : SUBSET Accidents]

Counts == UNION {[S -> Numbers] : S \in SUBSET Institutions}

Runs ==
  {Idle} \cup [pc : {"clear"}, loaded : SUBSET Accidents]
         \cup [pc : {"count"}, loaded : SUBSET Accidents, cleared : SUBSET Answers]
         \cup [pc : {"commit"}, loaded : SUBSET Accidents, cleared : SUBSET Answers,
               counts : Counts]

TypeOK ==
  /\ accidents \subseteq Accidents
  /\ DOMAIN institutions \subseteq Institutions
  /\ institutions \in [DOMAIN institutions -> Rows]
  /\ hotspots \subseteq Answers
  /\ lock \in Recomputers \cup {Nobody}
  /\ run \in [Recomputers -> Runs]
  /\ sheet.pc \in {"none", "summary", "hotspots", "span", "printed"}

(* "Patching rows would leave a mixture of answers from different inputs": *)
(* however recomputes overlap or fail, the table holds the hotspots of one *)
(* recompute and never those of two.                                       *)
OneAnswer == \A g, h \in hotspots : g = h

(* The two stored figures never contradict each other the wrong way round: *)
(* where hotspots were found, the overview counts at least as many         *)
(* accidents as went into them.                                            *)
OverviewCoversHotspots ==
  \A h \in hotspots, i \in DOMAIN institutions :
    institutions[i].nearby # NotCounted =>
      institutions[i].nearby >= Cardinality(h.of \cap Nearby[institutions[i].at])

(* Why these hold: who has cleared the table holds it until the end, so    *)
(* what it cleared is still all there is ...                               *)
HoldsTable ==
  \A p \in Recomputers : run[p].pc \in {"count", "commit"} =>
    lock = p /\ run[p].cleared = hotspots

(* ... and who has counted keeps the institutions as they are (each one    *)
(* with a number is among the counted); it counted a state of the          *)
(* accidents no older than the one it had loaded.                          *)
CountsCoverLoaded ==
  \A p \in Recomputers :
    /\ run[p] # Idle => run[p].loaded \subseteq accidents
    /\ run[p].pc = "commit" =>
         /\ \E state \in SUBSET accidents :
              /\ run[p].loaded \subseteq state
              /\ \A i \in DOMAIN run[p].counts :
                   run[p].counts[i] = Cardinality(state \cap Nearby[institutions[i].place])
         /\ DOMAIN run[p].counts \subseteq DOMAIN institutions
         /\ \A i \in DOMAIN institutions :
              institutions[i].nearby # NotCounted => i \in DOMAIN run[p].counts

(* A recompute during which no accidents were imported leaves both figures *)
(* as they should be: hotspots of all accidents, and every institution     *)
(* that has a number, has the right one.                                   *)
QuietRunIsCurrent ==
  [][\A p \in Recomputers :
       /\ run[p].pc = "commit" /\ run'[p] = Idle /\ run[p].loaded = accidents
       /\ <<hotspots, institutions>>' # <<hotspots, institutions>>
       => /\ \A h \in hotspots' : h.of = accidents
          /\ \A i \in DOMAIN institutions' :
               institutions'[i].nearby \in
                 {NotCounted, Cardinality(accidents \cap Nearby[institutions'[i].place])}]_vars

(* The sheet is handed to an authority: every accident it counts lies in   *)
(* the years it states, although the years are read last and imports may   *)
(* come in between.                                                        *)
StatedRangeCoversSummary ==
  sheet.pc = "printed" =>
    \A a \in sheet.summary : YearOf[a] \in sheet.years.from..sheet.years.to

=============================================================================
