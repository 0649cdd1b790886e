---------------------------- MODULE FiguresProofs ----------------------------
(* Theorems about Figures, for every number of accidents, institutions,    *)
(* overlapping recomputes and fact sheets.                                 *)
EXTENDS Figures, FiniteSetTheorems, Induction

USE DEF Idle

\* The steps of a fact sheet leave the tables alone.
LEMMA SheetReadsOnly ==
  ASSUME ServeSheet
  PROVE  UNCHANGED <<accidents, institutions, hotspots, lock, run>>
BY DEF ServeSheet, OpenSheet, SummariseAccidents, ReadHotspots, PrintSheet, AbandonSheet

\* Sets of accidents are finite, and a subset has no more elements.
LEMMA Counting ==
  ASSUME NEW S \in SUBSET Accidents, NEW T \in SUBSET S
  PROVE  /\ Cardinality(T) \in Nat /\ Cardinality(S) \in Nat
         /\ Cardinality(T) <= Cardinality(S)
         /\ Cardinality(S) \in Numbers
<1>1. IsFiniteSet(Accidents) /\ Cardinality(Accidents) \in Nat
  BY AccidentsAssumption, FS_CardinalityType
<1>2. IsFiniteSet(S) /\ Cardinality(S) \in Nat /\ Cardinality(S) <= Cardinality(Accidents)
  BY <1>1, FS_Subset, FS_CardinalityType
<1>3. Cardinality(T) \in Nat /\ Cardinality(T) <= Cardinality(S)
  BY <1>2, FS_Subset, FS_CardinalityType
<1> QED
  BY <1>1, <1>2, <1>3 DEF Numbers

-----------------------------------------------------------------------------
(* Types                                                                   *)

\* Every reachable state is well typed.
THEOREM TypeCorrect == Spec => []TypeOK
<1>1. Init => TypeOK
  BY DEF Init, TypeOK, Runs, NoSheet
<1>2. TypeOK /\ [Next]_vars => TypeOK'
  <2> SUFFICES ASSUME TypeOK, [Next]_vars PROVE TypeOK'
    OBVIOUS
  <2> USE DEF TypeOK
  <2>1. ASSUME NEW y \in Years, ImportYear(y) PROVE TypeOK'
    BY <2>1 DEF ImportYear
  <2>2. ASSUME NEW S \in SUBSET Institutions, NEW found \in [S -> Places],
               ImportInstitutions(found)
        PROVE  TypeOK'
    BY <2>2 DEF ImportInstitutions, Rows
  <2>3. ASSUME NEW p \in Recomputers, Load(p) PROVE TypeOK'
    BY <2>3 DEF Load, Runs
  <2>4. ASSUME NEW p \in Recomputers, Clear(p) PROVE TypeOK'
    BY <2>4 DEF Clear, Runs
  <2>5. ASSUME NEW p \in Recomputers, Count(p) PROVE TypeOK'
    <3> DEFINE counts == [i \in Counted |-> NumberNear(i)]
    <3>1. counts \in Counts
      <4>1. \A i \in Counted : NumberNear(i) \in Numbers
        BY Counting DEF Counted, NumberNear
      <4>2. Counted \in SUBSET Institutions
        BY DEF Counted
      <4> QED
        BY <4>1, <4>2 DEF Counts
    <3>2. run[p].loaded \in SUBSET Accidents /\ run[p].cleared \in SUBSET Answers
      BY <2>5 DEF Count, Runs
    <3> HIDE DEF counts
    <3>3. run' = [run EXCEPT ![p] = [pc |-> "commit", loaded |-> @.loaded,
                                     cleared |-> @.cleared, counts |-> counts]]
      BY <2>5 DEF Count, counts
    <3> QED
      BY <2>5, <3>1, <3>2, <3>3 DEF Count, Runs
  <2>6. ASSUME NEW p \in Recomputers, Commit(p) PROVE TypeOK'
    <3>0. run[p].pc = "commit" /\ run[p] \in Runs
      BY <2>6 DEF Commit
    <3>1. run[p].loaded \in SUBSET Accidents /\ run[p].counts \in Counts
      BY <3>0 DEF Runs
    <3>2. hotspots' \subseteq Answers
      <4>1. hotspots' \subseteq hotspots \cup {[by |-> p, of |-> run[p].loaded]}
        BY <2>6 DEF Commit
      <4>2. [by |-> p, of |-> run[p].loaded] \in Answers
        BY <3>1 DEF Answers
      <4> QED
        BY <4>1, <4>2
    <3>3. \A i \in DOMAIN run[p].counts : run[p].counts[i] \in Numbers
      BY <3>1 DEF Counts
    <3>4. \A i \in DOMAIN institutions : institutions'[i] \in Rows
      BY <2>6, <3>3 DEF Commit, Rows
    <3>5. DOMAIN institutions' = DOMAIN institutions
          /\ institutions' \in [DOMAIN institutions -> Rows]
      BY <2>6, <3>4 DEF Commit
    <3> QED
      BY <2>6, <3>2, <3>5 DEF Commit, Runs
  <2>7. ASSUME NEW p \in Recomputers, Abort(p) PROVE TypeOK'
    BY <2>7 DEF Abort, Runs
  <2>8. ASSUME ServeSheet PROVE TypeOK'
    BY <2>8, SheetReadsOnly
       DEF ServeSheet, OpenSheet, SummariseAccidents, ReadHotspots, PrintSheet, AbandonSheet, NoSheet
  <2>9. CASE UNCHANGED vars
    BY <2>9 DEF vars
  <2> QED
    BY <2>1, <2>2, <2>3, <2>4, <2>5, <2>6, <2>7, <2>8, <2>9 DEF Next, Recompute
<1> QED
  BY <1>1, <1>2, PTL DEF Spec

-----------------------------------------------------------------------------
(* The hotspots are the answer of one recompute                            *)

\* Between TRUNCATE and the end of its transaction a recompute holds the table.
LEMMA TableHeld == Spec => []HoldsTable
<1>1. Init => HoldsTable
  BY DEF Init, HoldsTable
<1>2. TypeOK /\ HoldsTable /\ [Next]_vars => HoldsTable'
  <2> SUFFICES ASSUME TypeOK, HoldsTable, [Next]_vars PROVE HoldsTable'
    OBVIOUS
  <2> USE DEF HoldsTable, TypeOK
  <2>1. ASSUME NEW p \in Recomputers, Load(p) PROVE HoldsTable'
    BY <2>1 DEF Load
  <2>2. ASSUME NEW p \in Recomputers, Clear(p) PROVE HoldsTable'
    BY <2>2, OthersAssumption DEF Clear, LockFree
  <2>3. ASSUME NEW p \in Recomputers, Count(p) PROVE HoldsTable'
    BY <2>3 DEF Count
  <2>4. ASSUME NEW p \in Recomputers, Commit(p) PROVE HoldsTable'
    BY <2>4 DEF Commit
  <2>5. ASSUME NEW p \in Recomputers, Abort(p) PROVE HoldsTable'
    BY <2>5 DEF Abort
  <2>6. CASE UNCHANGED <<hotspots, lock, run>>
    BY <2>6
  <2> QED
    BY <2>1, <2>2, <2>3, <2>4, <2>5, <2>6, SheetReadsOnly
       DEF Next, Recompute, ImportYear, ImportInstitutions, vars
<1> QED
  BY <1>1, <1>2, TypeCorrect, PTL DEF Spec

\* However recomputes overlap, the table never mixes the hotspots of two.
THEOREM NoMixture == Spec => []OneAnswer
<1>1. Init => OneAnswer
  BY DEF Init, OneAnswer
<1>2. HoldsTable /\ OneAnswer /\ [Next]_vars => OneAnswer'
  <2> SUFFICES ASSUME HoldsTable, OneAnswer, [Next]_vars PROVE OneAnswer'
    OBVIOUS
  <2>1. ASSUME NEW p \in Recomputers, Commit(p) PROVE OneAnswer'
    <3>1. hotspots' = {[by |-> p, of |-> run[p].loaded]}
      BY <2>1 DEF Commit, HoldsTable
    <3> QED
      BY <3>1 DEF OneAnswer
  <2>2. CASE UNCHANGED hotspots
    BY <2>2 DEF OneAnswer
  <2> QED
    BY <2>1, <2>2, SheetReadsOnly
       DEF Next, Recompute, ImportYear, ImportInstitutions, Load, Clear, Count, Abort, vars
<1> QED
  BY <1>1, <1>2, TableHeld, PTL DEF Spec

-----------------------------------------------------------------------------
(* The numbers of the overview                                             *)

\* A recompute that has counted keeps the institutions as they are, and its
\* numbers are those of a state no older than the one it loaded.
LEMMA CountsHeld == Spec => []CountsCoverLoaded
<1>1. Init => CountsCoverLoaded
  BY DEF Init, CountsCoverLoaded
<1>2. TypeOK /\ HoldsTable /\ CountsCoverLoaded /\ [Next]_vars => CountsCoverLoaded'
  <2> SUFFICES ASSUME TypeOK, HoldsTable, CountsCoverLoaded, [Next]_vars,
                      NEW q \in Recomputers
               PROVE  /\ run'[q] # Idle => run'[q].loaded \subseteq accidents'
                      /\ run'[q].pc = "commit" =>
                           /\ \E state \in SUBSET accidents' :
                                /\ run'[q].loaded \subseteq state
                                /\ \A i \in DOMAIN run'[q].counts :
                                     run'[q].counts[i] =
                                       Cardinality(state \cap Nearby[institutions'[i].place])
                           /\ DOMAIN run'[q].counts \subseteq DOMAIN institutions'
                           /\ \A i \in DOMAIN institutions' :
                                institutions'[i].nearby # NotCounted => i \in DOMAIN run'[q].counts
    BY DEF CountsCoverLoaded
  <2> USE DEF CountsCoverLoaded, TypeOK
  <2>1. ASSUME NEW y \in Years, ImportYear(y) PROVE CountsCoverLoaded'
    BY <2>1 DEF ImportYear
  <2>2. ASSUME NEW S \in SUBSET Institutions, NEW found \in [S -> Places],
               ImportInstitutions(found)
        PROVE  CountsCoverLoaded'
    <3>1. \A p \in Recomputers : run[p].pc = "commit" => DOMAIN run[p].counts = {}
      BY <2>2 DEF ImportInstitutions, Locked
    <3>2. \A p \in Recomputers : run[p].pc = "commit" =>
            \A i \in DOMAIN institutions' : institutions'[i].nearby = NotCounted
      BY <2>2, <3>1 DEF ImportInstitutions
    <3> QED
      BY <2>2, <3>1, <3>2 DEF ImportInstitutions
  <2>3. ASSUME NEW p \in Recomputers, Load(p) PROVE CountsCoverLoaded'
    BY <2>3 DEF Load
  <2>4. ASSUME NEW p \in Recomputers, Clear(p) PROVE CountsCoverLoaded'
    BY <2>4 DEF Clear
  <2>5. ASSUME NEW p \in Recomputers, Count(p) PROVE CountsCoverLoaded'
    <3> DEFINE counts == [i \in DOMAIN institutions |-> NumberNear(i)]
    <3>1. \A i \in DOMAIN institutions :
            counts[i] = Cardinality(accidents \cap Nearby[institutions[i].place])
      BY DEF NumberNear
    <3>2. DOMAIN counts = DOMAIN institutions
      OBVIOUS
    <3>3. /\ run' = [run EXCEPT ![p] = [pc |-> "commit", loaded |-> @.loaded,
                                        cleared |-> @.cleared, counts |-> counts]]
          /\ run[p] # Idle
          /\ UNCHANGED <<accidents, institutions>>
      BY <2>5 DEF Count, Counted
    <3> HIDE DEF counts
    <3>4. /\ run'[p].loaded = run[p].loaded /\ run'[p].counts = counts
          /\ run[p].loaded \subseteq accidents
      BY <3>3
    <3>5. \A r \in Recomputers \ {p} : run'[r] = run[r]
      BY <3>3
    <3>6. \E state \in SUBSET accidents :
            /\ run[p].loaded \subseteq state
            /\ \A i \in DOMAIN counts :
                 counts[i] = Cardinality(state \cap Nearby[institutions[i].place])
      BY <3>1, <3>2, <3>4
    <3> QED
      BY <3>2, <3>3, <3>4, <3>5, <3>6
  <2>6. ASSUME NEW p \in Recomputers, Commit(p) PROVE CountsCoverLoaded'
    <3>1. \A r \in Recomputers : run'[r].pc = "commit" => FALSE
      BY <2>6 DEF Commit, HoldsTable
    <3> QED
      BY <2>6, <3>1 DEF Commit
  <2>7. ASSUME NEW p \in Recomputers, Abort(p) PROVE CountsCoverLoaded'
    BY <2>7 DEF Abort
  <2>8. CASE UNCHANGED <<accidents, institutions, run>>
    BY <2>8
  <2> QED
    BY <2>1, <2>2, <2>3, <2>4, <2>5, <2>6, <2>7, <2>8, SheetReadsOnly
       DEF Next, Recompute, vars
<1> QED
  BY <1>1, <1>2, TypeCorrect, TableHeld, PTL DEF Spec

\* Where hotspots were found, the overview counts at least the accidents that
\* went into them.
THEOREM OverviewCovers == Spec => []OverviewCoversHotspots
<1>1. Init => OverviewCoversHotspots
  BY DEF Init, OverviewCoversHotspots
<1>2. /\ TypeOK /\ TypeOK' /\ HoldsTable /\ CountsCoverLoaded
      /\ OverviewCoversHotspots /\ [Next]_vars
      => OverviewCoversHotspots'
  <2> SUFFICES ASSUME TypeOK, TypeOK', HoldsTable, CountsCoverLoaded,
                      OverviewCoversHotspots, [Next]_vars
               PROVE  OverviewCoversHotspots'
    OBVIOUS
  <2>1. ASSUME NEW S \in SUBSET Institutions, NEW found \in [S -> Places],
               ImportInstitutions(found)
        PROVE  OverviewCoversHotspots'
    BY <2>1 DEF ImportInstitutions, OverviewCoversHotspots, TypeOK, Rows
  <2>2. ASSUME NEW p \in Recomputers, Commit(p) PROVE OverviewCoversHotspots'
    <3>1. hotspots' = {[by |-> p, of |-> run[p].loaded]}
      BY <2>2 DEF Commit, HoldsTable
    <3>2. PICK state \in SUBSET accidents :
            /\ run[p].loaded \subseteq state
            /\ \A i \in DOMAIN run[p].counts :
                 run[p].counts[i] = Cardinality(state \cap Nearby[institutions[i].place])
      BY <2>2 DEF Commit, CountsCoverLoaded
    <3>3. ASSUME NEW i \in DOMAIN institutions', institutions'[i].nearby # NotCounted
          PROVE  institutions'[i].nearby
                   >= Cardinality(run[p].loaded \cap Nearby[institutions'[i].at])
      <4>1. i \in DOMAIN institutions /\ i \in DOMAIN run[p].counts
        BY <2>2, <3>3 DEF Commit, CountsCoverLoaded
      <4>2. /\ institutions[i] \in Rows
            /\ institutions'[i] =
                 [institutions[i] EXCEPT !.nearby = run[p].counts[i], !.at = institutions[i].place]
        BY <2>2, <4>1 DEF Commit, TypeOK
      <4>3. /\ institutions'[i].nearby = run[p].counts[i]
            /\ institutions'[i].at = institutions[i].place
        BY <4>2 DEF Rows
      <4>4. Cardinality(run[p].loaded \cap Nearby[institutions[i].place])
              <= Cardinality(state \cap Nearby[institutions[i].place])
        BY <3>2, Counting DEF TypeOK
      <4>5. /\ Cardinality(run[p].loaded \cap Nearby[institutions[i].place]) \in Nat
            /\ Cardinality(state \cap Nearby[institutions[i].place]) \in Nat
        BY <3>2, Counting DEF TypeOK
      <4> QED
        BY <3>2, <4>1, <4>3, <4>4, <4>5
    <3> QED
      BY <3>1, <3>3 DEF OverviewCoversHotspots
  <2>3. CASE UNCHANGED <<institutions, hotspots>>
    BY <2>3 DEF OverviewCoversHotspots
  <2> QED
    BY <2>1, <2>2, <2>3, SheetReadsOnly
       DEF Next, Recompute, ImportYear, Load, Clear, Count, Abort, vars
<1> QED
  BY <1>1, <1>2, TypeCorrect, TableHeld, CountsHeld, PTL DEF Spec

\* A recompute that commits, and during which no accidents came in, leaves the
\* hotspots of all accidents and, wherever there is a number, the right one.
THEOREM QuietRunLeavesCurrent == Spec => QuietRunIsCurrent
<1> DEFINE Right(p) ==
      /\ \A h \in hotspots' : h.of = accidents
      /\ \A i \in DOMAIN institutions' :
           institutions'[i].nearby \in
             {NotCounted, Cardinality(accidents \cap Nearby[institutions'[i].place])}
<1>1. ASSUME TypeOK, HoldsTable, CountsCoverLoaded, [Next]_vars, NEW p \in Recomputers,
             run[p].pc = "commit", run'[p] = Idle, run[p].loaded = accidents,
             <<hotspots, institutions>>' # <<hotspots, institutions>>
      PROVE  Right(p)
  <2>1. Commit(p)
    <3>1. run[p] # Idle /\ run'[p] = Idle /\ run \in [Recomputers -> Runs]
      BY <1>1 DEF TypeOK
    <3>2. PICK q \in Recomputers : Recompute(q)
      <4>1. ~ UNCHANGED run
        BY <3>1
      <4> QED
        BY <1>1, <4>1, SheetReadsOnly DEF Next, ImportYear, ImportInstitutions, vars
    <3>3. q = p
      <4>1. \E new : run' = [run EXCEPT ![q] = new]
        BY <3>2 DEF Recompute, Load, Clear, Count, Commit, Abort
      <4> QED
        BY <3>1, <4>1
    <3>4. ~ Load(p) /\ ~ Clear(p) /\ ~ Count(p)
      BY <1>1, <3>1 DEF Load, Clear, Count
    <3>5. ~ Abort(p)
      BY <1>1 DEF Abort
    <3> QED
      BY <3>2, <3>3, <3>4, <3>5 DEF Recompute
  <2>2. \A h \in hotspots' : h.of = accidents
    <3>1. run[p].cleared = hotspots
      BY <1>1 DEF HoldsTable
    <3>2. hotspots' = (hotspots \ run[p].cleared) \cup {[by |-> p, of |-> run[p].loaded]}
      BY <2>1 DEF Commit
    <3> QED
      BY <1>1, <3>1, <3>2
  <2>3. PICK state \in SUBSET accidents :
          /\ run[p].loaded \subseteq state
          /\ \A i \in DOMAIN run[p].counts :
               run[p].counts[i] = Cardinality(state \cap Nearby[institutions[i].place])
    BY <1>1 DEF CountsCoverLoaded
  <2>4. state = accidents
    BY <1>1, <2>3
  <2>5. ASSUME NEW i \in DOMAIN institutions'
        PROVE  institutions'[i].nearby \in
                 {NotCounted, Cardinality(accidents \cap Nearby[institutions'[i].place])}
    <3>1. i \in DOMAIN institutions /\ institutions[i] \in Rows
      BY <1>1, <2>1, <2>5 DEF Commit, TypeOK
    <3>2. CASE i \in DOMAIN run[p].counts
      <4>1. institutions'[i] =
              [institutions[i] EXCEPT !.nearby = run[p].counts[i], !.at = institutions[i].place]
        BY <2>1, <3>1, <3>2 DEF Commit
      <4>2. /\ institutions'[i].nearby = run[p].counts[i]
            /\ institutions'[i].place = institutions[i].place
        BY <3>1, <4>1 DEF Rows
      <4> QED
        BY <2>3, <2>4, <3>2, <4>2
    <3>3. CASE i \notin DOMAIN run[p].counts
      BY <1>1, <2>1, <3>1, <3>3 DEF Commit, CountsCoverLoaded
    <3> QED
      BY <3>2, <3>3
  <2> QED
    BY <2>2, <2>5
<1>2. TypeOK /\ HoldsTable /\ CountsCoverLoaded /\ [Next]_vars
      => [\A p \in Recomputers :
            /\ run[p].pc = "commit" /\ run'[p] = Idle /\ run[p].loaded = accidents
            /\ <<hotspots, institutions>>' # <<hotspots, institutions>>
            => Right(p)]_vars
  BY <1>1
<1> QED
  BY <1>2, TypeCorrect, TableHeld, CountsHeld, PTL DEF Spec, QuietRunIsCurrent

-----------------------------------------------------------------------------
(* The sheet counts nothing outside the years it states                    *)

\* Among accidents there is an earliest year.
LEMMA FirstIsLeast ==
  ASSUME NEW S \in SUBSET Accidents, S # {}
  PROVE  First(YearsOf(S)) \in YearsOf(S) /\ \A y \in YearsOf(S) : First(YearsOf(S)) <= y
<1>1. YearsOf(S) \subseteq Nat /\ YearsOf(S) # {}
  BY AccidentsAssumption DEF YearsOf
<1>2. \E y \in YearsOf(S) : \A z \in YearsOf(S) : y <= z
  BY <1>1, LeastNumber
<1> QED
  BY <1>2 DEF First

\* And, as there are finitely many, a latest one: a smallest set without one
\* would have one after all.
HasLast(S) == \E y \in YearsOf(S) : \A z \in YearsOf(S) : z <= y

LEMMA LastExists ==
  ASSUME NEW S \in SUBSET Accidents, S # {}
  PROVE  HasLast(S)
<1> DEFINE Without == {T \in SUBSET Accidents : T # {} /\ ~HasLast(T)}
           Sizes == {Cardinality(T) : T \in Without}
<1>1. SUFFICES ASSUME Without # {} PROVE FALSE
  OBVIOUS
<1>2. Sizes \subseteq Nat /\ Sizes # {}
  BY <1>1, Counting
<1>3. PICK n \in Sizes : \A m \in Sizes : n <= m
  BY <1>2, LeastNumber
<1>4. PICK T \in Without : Cardinality(T) = n
  BY <1>3
<1>5. PICK a \in T : TRUE
  BY <1>4
<1> DEFINE R == T \ {a}
<1>6. R \in SUBSET Accidents /\ Cardinality(R) = n - 1 /\ n \in Nat
  BY <1>2, <1>4, <1>5, AccidentsAssumption, FS_Subset, FS_RemoveElement
<1>7. R = {} \/ HasLast(R)
  <2>1. ASSUME R \in Without PROVE FALSE
    <3>1. n - 1 \in Sizes
      BY <1>6, <2>1
    <3> QED
      BY <1>3, <1>6, <3>1
  <2> QED
    BY <1>6, <2>1
<1>8. \A b \in T : YearOf[b] \in Nat
  BY <1>4, AccidentsAssumption
<1>9. T = R \cup {a}
  BY <1>5
<1>10. CASE R = {}
  BY <1>4, <1>5, <1>8, <1>9, <1>10 DEF HasLast, YearsOf
<1>11. CASE HasLast(R)
  <2>1. PICK b \in R : \A c \in R : YearOf[c] <= YearOf[b]
    BY <1>11 DEF HasLast, YearsOf
  <2>2. \E d \in {a, b} : \A c \in T : YearOf[c] <= YearOf[d]
    BY <1>5, <1>8, <1>9, <2>1
  <2> QED
    BY <1>4, <1>5, <2>1, <2>2 DEF HasLast, YearsOf
<1> QED
  BY <1>7, <1>10, <1>11

\* Why: what has been counted is stored, and of the years asked for; nothing
\* that is stored is ever removed, so the span read last covers it.
SummaryFits ==
  sheet.pc \in {"hotspots", "span"} =>
    /\ sheet.filter \in Filters
    /\ sheet.summary \subseteq accidents
    /\ \A a \in sheet.summary : YearOf[a] \in sheet.filter.from..sheet.filter.to

FilterKnown == sheet.pc = "summary" => sheet.filter \in Filters

LEMMA ClipCovers ==
  ASSUME NEW S \in SUBSET Accidents, S = accidents, NEW filter \in Filters, NEW a \in accidents,
         YearOf[a] \in filter.from..filter.to
  PROVE  YearOf[a] \in Clip(filter).from..Clip(filter).to
<1> DEFINE f == First(YearsOf(accidents))
           l == Last(YearsOf(accidents))
<1>1. YearOf[a] \in Nat /\ YearOf[a] \in YearsOf(accidents) /\ YearsOf(accidents) \subseteq Nat
  BY AccidentsAssumption DEF YearsOf
<1>2. f \in Nat /\ f <= YearOf[a]
  BY <1>1, FirstIsLeast
<1>3. l \in Nat /\ YearOf[a] <= l
  <2>1. HasLast(accidents)
    BY LastExists
  <2> QED
    BY <1>1, <2>1 DEF HasLast, Last
<1>4. filter.from \in Nat /\ filter.to \in Nat
  BY FiltersAssumption
<1> HIDE DEF f, l
<1>5. Clip(filter) = [from |-> IF filter.from < f THEN f ELSE filter.from,
                      to |-> IF filter.to > l THEN l ELSE filter.to]
  BY DEF Clip, f, l
<1> QED
  BY <1>1, <1>2, <1>3, <1>4, <1>5

\* The sheet handed to an authority counts no accident outside its years,
\* whatever is imported while it is put together.
THEOREM SummaryCovered == Spec => []StatedRangeCoversSummary
<1> DEFINE I == FilterKnown /\ SummaryFits /\ StatedRangeCoversSummary
<1> USE DEF FilterKnown, SummaryFits, StatedRangeCoversSummary
<1>1. Init => I
  BY DEF Init, NoSheet
<1>2. TypeOK /\ I /\ [Next]_vars => I'
  <2> SUFFICES ASSUME TypeOK, I, [Next]_vars PROVE I'
    OBVIOUS
  <2>1. ASSUME UNCHANGED sheet, accidents \subseteq accidents' PROVE I'
    BY <2>1
  <2>2. ASSUME NEW filter \in Filters, OpenSheet(filter) PROVE I'
    BY <2>2 DEF OpenSheet
  <2>3. CASE SummariseAccidents
    BY <2>3 DEF SummariseAccidents
  <2>4. CASE ReadHotspots
    BY <2>4 DEF ReadHotspots
  <2>5. CASE PrintSheet
    <3>1. sheet.pc = "span" /\ sheet' = [pc |-> "printed", summary |-> sheet.summary,
            scored |-> sheet.scored, years |-> Clip(sheet.filter), reference |-> Reference(accidents)]
      BY <2>5 DEF PrintSheet
    <3>2. \A a \in sheet.summary : YearOf[a] \in Clip(sheet.filter).from..Clip(sheet.filter).to
      BY <3>1, ClipCovers DEF TypeOK
    <3> QED
      BY <3>1, <3>2
  <2>6. CASE AbandonSheet
    BY <2>6 DEF AbandonSheet, NoSheet
  <2>7. ASSUME NEW p \in Recomputers, Recompute(p) PROVE UNCHANGED <<sheet, accidents>>
    BY <2>7 DEF Recompute, Load, Clear, Count, Commit, Abort
  <2> QED
    BY <2>1, <2>2, <2>3, <2>4, <2>5, <2>6, <2>7
       DEF Next, ServeSheet, ImportYear, ImportInstitutions, vars
<1> QED
  BY <1>1, <1>2, TypeCorrect, PTL DEF Spec
=============================================================================
