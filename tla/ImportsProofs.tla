---------------------------- MODULE ImportsProofs ----------------------------
(* Theorems about Imports, for every number of importers, regions and      *)
(* objects, and every sequence of answers.                                 *)
EXTENDS Imports, TLAPS

\* Every step of the loop is about one of the configured regions.
LEMMA StepsAreOfRegions ==
  ASSUME NEW n \in Steps
  PROVE  RegionOf(n) \in Regions
<1> DEFINE L == Len(RegionOrder)
           Q == Len(Queries)
           k == (n - 1) \div Q
<1>1. L \in Nat /\ Q \in Nat /\ Q > 0
  BY RegionsAssumption, QueriesAssumption
<1>2. n \in 1..(L * Q)
  BY DEF Steps
<1>3. k \in Int /\ k * Q <= n - 1 /\ n - 1 < (k + 1) * Q
  BY <1>1, <1>2
<1>4. k \in 0..(L - 1)
  <2> HIDE DEF L, Q, k
  <2>1. L * Q \in Nat
    BY <1>1
  <2>2. k >= 0
    <3>1. CASE k + 1 <= 0
      <4>1. (k + 1) * Q <= 0
        BY <1>1, <1>3, <3>1
      <4> QED
        BY <4>1, <1>2, <1>3, <2>1, <1>1
    <3> QED
      BY <3>1, <1>3
  <2>3. k < L
    <3>1. CASE k >= L
      <4>1. k * Q >= L * Q
        BY <1>1, <1>3, <3>1
      <4> QED
        BY <4>1, <1>2, <1>3, <2>1, <1>1
    <3> QED
      BY <3>1, <1>1, <1>3
  <2> QED
    BY <2>2, <2>3, <1>3, <1>1
<1> QED
  BY <1>1, <1>4 DEF RegionOf, Regions

\* What an importer knows at each point.
LEMMA PointsOfWork ==
  ASSUME NEW x \in Procs
  PROVE  /\ x.pc = "idle" => x \in Idle
         /\ x.pc = "fetch" => x \in Fetching
         /\ x.pc = "start" => x \in Starting
         /\ x.pc = "parse" => x \in Parsing
         /\ x.pc = "begin" => x \in Beginning
         /\ x.pc \in InTransaction => x \in Writing
         /\ x.pc \in {"finish", "failing", "coverage"} => x \in Closing
BY DEF Procs, Idle, Ended, Fetching, Starting, Parsing, Beginning, Writing, Closing, InTransaction

\* The next query is one of the queries.
LEMMA AdvanceType ==
  ASSUME NEW p, proc[p] \in Closing
  PROVE  Advance(p) \in Idle \cup Fetching
BY DEF Advance, Idle, Fetching, Closing

\* What a transaction sees and leaves are tables.
LEMMA ResultType ==
  ASSUME TypeOK, NEW p \in Importers, proc[p].pc \in InTransaction
  PROVE  /\ Visible(p) \subseteq Objects
         /\ \A o \in Visible(p) : WrittenAt(p, o) \in 0..MaxNow
         /\ DOMAIN Result(p) = Visible(p) \ proc[p].gone
         /\ Result(p) \in [DOMAIN Result(p) -> Rows]
<1>1. proc[p] \in Writing
  BY PointsOfWork DEF TypeOK
<1>2. /\ proc[p].written \subseteq Objects /\ proc[p].seen \subseteq Objects
      /\ proc[p].cutoff \in 0..MaxNow
  BY <1>1 DEF Writing
<1>3. Visible(p) \subseteq Objects
  BY <1>2 DEF Visible, TypeOK
<1>4. \A o \in DOMAIN stored : stored[o] \in Rows
  BY DEF TypeOK
<1>5. \A o \in Visible(p) : WrittenAt(p, o) \in 0..MaxNow
  BY <1>2, <1>4 DEF Visible, WrittenAt, Rows
<1>6. \A o \in Visible(p) \ proc[p].gone : Result(p)[o] \in Rows
  <2> SUFFICES ASSUME NEW o \in Visible(p) \ proc[p].gone PROVE Result(p)[o] \in Rows
    OBVIOUS
  <2> DEFINE town == IF o \in proc[p].written \cup proc[p].moved
                     THEN TownOf(o, proc[p].seen) ELSE stored[o].town
  <2>1. Result(p)[o] = [at |-> WrittenAt(p, o), town |-> town]
    BY DEF Result
  <2>2. town \subseteq Objects
    BY <1>2, <1>4 DEF TownOf, Visible, Rows
  <2> QED
    BY <2>1, <2>2, <1>5 DEF Rows
<1> QED
  BY <1>3, <1>5, <1>6 DEF Result

-----------------------------------------------------------------------------
(* Types                                                                   *)

\* Every reachable state is well typed.
THEOREM TypeCorrect == Spec => []TypeOK
<1>1. Init => TypeOK
  <2> SUFFICES ASSUME Init PROVE TypeOK
    OBVIOUS
  <2> USE BoundsAssumption DEF Init
  <2>1. PICK set \in SUBSET Objects :
          stored = [o \in set |-> [at |-> 0, town |-> TownOf(o, BoundariesOf(set))]]
    OBVIOUS
  <2>2. \A o \in set : TownOf(o, BoundariesOf(set)) \subseteq Objects
    BY DEF TownOf, BoundariesOf
  <2>3. stored \in [DOMAIN stored -> Rows] /\ DOMAIN stored \subseteq Objects
    BY <2>1, <2>2 DEF Rows
  <2>4. proc \in [Importers -> Procs]
    BY DEF Procs, Idle
  <2>5. now \in 0..MaxNow /\ DOMAIN runs = {} /\ runs = [o \in {} |-> {}]
    BY DEF Nothing
  <2> QED
    BY <2>3, <2>4, <2>5 DEF TypeOK
<1>2. TypeOK /\ [Next]_vars => TypeOK'
  <2> SUFFICES ASSUME TypeOK, [Next]_vars PROVE TypeOK'
    OBVIOUS
  <2>0. CASE UNCHANGED vars
    BY <2>0 DEF TypeOK, vars
  <2>a. ASSUME NEW p \in Importers, UNCHANGED <<now, stored, runs>>,
               NEW x \in Procs, proc' = [proc EXCEPT ![p] = x]
        PROVE  TypeOK'
    BY <2>a DEF TypeOK
  <2>p. ASSUME NEW p \in Importers PROVE proc[p] \in Procs
    BY DEF TypeOK
  <2>e. Ended \in Procs
    BY DEF Procs, Idle
  <2>1. ASSUME NEW p \in Importers, Launch(p) PROVE TypeOK'
    <3>1. 1 \in Steps
      <4> DEFINE L == Len(RegionOrder)
                 Q == Len(Queries)
      <4>1. L \in Nat /\ Q \in Nat /\ L >= 1 /\ Q >= 1
        BY RegionsAssumption, QueriesAssumption
      <4> HIDE DEF L, Q
      <4>2. L * Q \in Nat /\ L * Q >= 1
        BY <4>1
      <4> QED
        BY <4>2 DEF L, Q, Steps
    <3> QED
      BY <2>1, <2>a, <3>1 DEF Launch, Procs, Fetching
  <2>2. ASSUME NEW p \in Importers, Fetch(p) PROVE TypeOK'
    <3>1. PICK answer \in Answers(proc[p].step) :
            proc' = [proc EXCEPT ![p] =
              [pc |-> "start", step |-> proc[p].step, answer |-> answer]]
      BY <2>2 DEF Fetch
    <3>2. proc[p].step \in Steps
      BY <2>p, <2>2, PointsOfWork DEF Fetch, Fetching
    <3>3. Returned[RegionOf(proc[p].step)] \subseteq Objects
      BY <3>2, StepsAreOfRegions, RegionsAssumption
    <3>4. answer \in Readable \cup {Unreadable}
      BY <3>3 DEF Answers, Readable
    <3> QED
      BY <2>2, <2>a, <3>1, <3>2, <3>4 DEF Fetch, Procs, Starting
  <2>3. ASSUME NEW p \in Importers, NoStart(p) PROVE TypeOK'
    BY <2>3, <2>a, <2>e DEF NoStart
  <2>4. ASSUME NEW p \in Importers, StartRun(p) PROVE TypeOK'
    <3>1. PICK r \in 1..MaxRuns :
            /\ DOMAIN runs = 1..(r - 1)
            /\ runs' = [s \in 1..r |->
                 IF s = r THEN [status |-> "running", applied |-> FALSE] ELSE runs[s]]
            /\ proc' = [proc EXCEPT ![p] =
                 [pc |-> "parse", step |-> proc[p].step, answer |-> proc[p].answer, run |-> r]]
      BY <2>4 DEF StartRun
    <3>2. proc[p] \in Starting
      BY <2>p, <2>4, PointsOfWork DEF StartRun
    <3>3. proc' \in [Importers -> Procs]
      BY <3>1, <3>2 DEF TypeOK, Procs, Starting, Parsing
    <3> DEFINE Run == [status : {"running", "succeeded", "failed"}, applied : BOOLEAN]
    <3>4. \A s \in 1..r : runs'[s] \in Run
      <4>1. \A s \in 1..(r - 1) : runs[s] \in Run
        BY <3>1 DEF TypeOK
      <4> QED
        BY <3>1, <4>1, BoundsAssumption
    <3>5. DOMAIN runs' = 1..r /\ runs' \in [DOMAIN runs' -> Run] /\ 1..r \subseteq 1..MaxRuns
      BY <3>1, <3>4, BoundsAssumption
    <3> QED
      BY <2>4, <3>3, <3>5 DEF StartRun, TypeOK
  <2>5. ASSUME NEW p \in Importers, Parse(p) PROVE TypeOK'
    <3>1. proc[p] \in Parsing
      BY <2>p, <2>5, PointsOfWork DEF Parse
    <3>2. CASE proc[p].answer = Unreadable
      BY <2>5, <2>a, <3>1, <3>2 DEF Parse, Procs, Parsing, Closing
    <3>3. CASE proc[p].answer # Unreadable
      BY <2>5, <2>a, <3>1, <3>3 DEF Parse, Procs, Parsing, Beginning
    <3> QED
      BY <3>2, <3>3
  <2>6. ASSUME NEW p \in Importers, BeginImport(p) PROVE TypeOK'
    <3>1. proc[p] \in Beginning
      BY <2>p, <2>6, PointsOfWork DEF BeginImport
    <3>2. now + 1 \in 0..MaxNow
      BY <2>6, BoundsAssumption DEF BeginImport, TypeOK
    <3> DEFINE x == [pc |-> "upsert", step |-> proc[p].step, answer |-> proc[p].answer,
                     run |-> proc[p].run, cutoff |-> now + 1, written |-> {}, gone |-> {},
                     moved |-> {}, seen |-> {}, quiet |-> TRUE]
    <3>3. x \in Writing
      BY <3>1, <3>2 DEF Beginning, Writing, Readable, InTransaction
    <3>4. proc' = [proc EXCEPT ![p] = x]
      BY <2>6 DEF BeginImport
    <3> HIDE DEF x
    <3> QED
      BY <2>6, <3>2, <3>3, <3>4 DEF BeginImport, TypeOK, Procs
  <2>7. ASSUME NEW p \in Importers, Upsert(p) PROVE TypeOK'
    <3>1. proc[p] \in Writing
      BY <2>p, <2>7, PointsOfWork DEF Upsert, InTransaction
    <3>2. BoundariesOf(DOMAIN stored) \subseteq Objects
      BY DEF BoundariesOf, TypeOK
    <3> DEFINE x == [proc[p] EXCEPT !.pc = "prune", !.written = proc[p].answer,
                                    !.seen = BoundariesOf(DOMAIN stored)]
    <3>3. x \in Writing
      BY <3>1, <3>2 DEF Writing, Readable, InTransaction
    <3>4. proc' = [proc EXCEPT ![p] = x]
      BY <2>7 DEF Upsert
    <3> HIDE DEF x
    <3> QED
      BY <2>7, <2>a, <3>3, <3>4 DEF Upsert, Procs
  <2>8. ASSUME NEW p \in Importers, Prune(p) PROVE TypeOK'
    <3>1. proc[p] \in Writing
      BY <2>p, <2>8, PointsOfWork DEF Prune, InTransaction
    <3>2. Prunable(p) \subseteq Objects
      BY <2>8, ResultType DEF Prune, Prunable, InTransaction
    <3> DEFINE next == IF QueryOf(proc[p].step) = "boundaries" THEN "relocate" ELSE "commit"
               x == [proc[p] EXCEPT !.pc = next, !.gone = Prunable(p)]
    <3>3. x \in Writing
      BY <3>1, <3>2 DEF Writing, InTransaction
    <3>4. proc' = [proc EXCEPT ![p] = x]
      BY <2>8 DEF Prune
    <3> HIDE DEF x
    <3> QED
      BY <2>8, <2>a, <3>3, <3>4 DEF Prune, Procs
  <2>9. ASSUME NEW p \in Importers, Relocate(p) PROVE TypeOK'
    <3>1. proc[p] \in Writing
      BY <2>p, <2>9, PointsOfWork DEF Relocate, InTransaction
    <3>2. Relocated(p) \subseteq Objects /\ BoundariesOf(Visible(p) \ proc[p].gone) \subseteq Objects
      BY <2>9, ResultType DEF Relocate, Relocated, BoundariesOf, InTransaction, TypeOK
    <3> DEFINE x == [proc[p] EXCEPT !.pc = "commit", !.moved = Relocated(p),
                                    !.seen = BoundariesOf(Visible(p) \ proc[p].gone)]
    <3>3. x \in Writing
      BY <3>1, <3>2 DEF Writing, InTransaction
    <3>4. proc' = [proc EXCEPT ![p] = x]
      BY <2>9 DEF Relocate
    <3> HIDE DEF x
    <3> QED
      BY <2>9, <2>a, <3>3, <3>4 DEF Relocate, Procs
  <2>10. ASSUME NEW p \in Importers, Commit(p) PROVE TypeOK'
    <3>1. proc[p] \in Writing /\ proc[p].pc \in InTransaction
      BY <2>p, <2>10, PointsOfWork DEF Commit, InTransaction
    <3>2. DOMAIN stored' \subseteq Objects /\ stored' \in [DOMAIN stored' -> Rows]
      BY <2>10, <3>1, ResultType DEF Commit
    <3>3. DOMAIN runs' = DOMAIN runs
           /\ runs' \in [DOMAIN runs ->
                           [status : {"running", "succeeded", "failed"}, applied : BOOLEAN]]
      BY <2>10 DEF Commit, TypeOK
    <3>4. PICK next \in {"finish", "failing"} :
            proc' = [q \in Importers |->
              CASE q = p -> [pc |-> next, step |-> proc[p].step, run |-> proc[p].run]
                [] q # p /\ proc[q].pc \in InTransaction -> [proc[q] EXCEPT !.quiet = FALSE]
                [] OTHER -> proc[q]]
      BY <2>10 DEF Commit
    <3>5. \A q \in Importers : proc'[q] \in Procs
      <4> SUFFICES ASSUME NEW q \in Importers PROVE proc'[q] \in Procs
        OBVIOUS
      <4>1. CASE q = p
        <5>1. [pc |-> next, step |-> proc[p].step, run |-> proc[p].run] \in Closing
          BY <3>1 DEF Writing, Closing
        <5> QED
          BY <3>4, <4>1, <5>1 DEF Procs
      <4>2. CASE q # p /\ proc[q].pc \in InTransaction
        <5>1. proc[q] \in Writing
          BY <2>p, <4>2, PointsOfWork
        <5>2. [proc[q] EXCEPT !.quiet = FALSE] \in Writing
          BY <5>1 DEF Writing
        <5> QED
          BY <3>4, <4>2, <5>2 DEF Procs
      <4>3. CASE q # p /\ proc[q].pc \notin InTransaction
        BY <2>p, <3>4, <4>3
      <4> QED
        BY <4>1, <4>2, <4>3
    <3>6. proc' \in [Importers -> Procs]
      BY <3>4, <3>5
    <3> QED
      BY <2>10, <3>2, <3>3, <3>6 DEF Commit, TypeOK
  <2>11. ASSUME NEW p \in Importers, Fail(p) PROVE TypeOK'
    <3>1. proc[p].step \in Steps /\ proc[p].run \in 1..MaxRuns
      BY <2>p, <2>11, PointsOfWork DEF Fail, InTransaction, Writing, Beginning
    <3> QED
      BY <2>11, <2>a, <3>1 DEF Fail, Procs, Closing
  <2>c. ASSUME NEW p \in Importers, proc[p].pc \in {"finish", "failing", "coverage"}
        PROVE  /\ proc[p].step \in Steps /\ proc[p].run \in 1..MaxRuns
               /\ Ended \in Idle /\ Advance(p) \in Idle \cup Fetching
    <3>1. proc[p] \in Closing
      BY <2>p, <2>c, PointsOfWork
    <3> QED
      BY <3>1, AdvanceType DEF Closing, Idle
  <2>12. ASSUME NEW p \in Importers, Finish(p) PROVE TypeOK'
    <3>1. DOMAIN runs' = DOMAIN runs
           /\ runs' \in [DOMAIN runs ->
                           [status : {"running", "succeeded", "failed"}, applied : BOOLEAN]]
      BY <2>12 DEF Finish, StatusOf, TypeOK
    <3>2. PICK x \in Procs : proc' = [proc EXCEPT ![p] = x]
      <4>1. [pc |-> "coverage", step |-> proc[p].step, run |-> proc[p].run] \in Closing
        BY <2>12, <2>c DEF Finish, Closing
      <4> QED
        BY <2>12, <2>c, <4>1 DEF Finish, Procs
    <3>3. proc' \in [Importers -> Procs]
      BY <3>2 DEF TypeOK
    <3> QED
      BY <2>12, <3>1, <3>3 DEF Finish, TypeOK
  <2>13. ASSUME NEW p \in Importers, Coverage(p) PROVE TypeOK'
    BY <2>13, <2>a, <2>c DEF Coverage, Procs
  <2>14. ASSUME NEW p \in Importers, NoFinish(p) PROVE TypeOK'
    BY <2>14, <2>a, <2>c DEF NoFinish, Procs
  <2>15. ASSUME NEW p \in Importers, Stop(p) PROVE TypeOK'
    BY <2>15, <2>a, <2>e DEF Stop
  <2> QED
    BY <2>0, <2>1, <2>2, <2>3, <2>4, <2>5, <2>6, <2>7, <2>8, <2>9, <2>10, <2>11, <2>12,
       <2>13, <2>14, <2>15 DEF Next, Work
<1> QED
  BY <1>1, <1>2, PTL DEF Spec

-----------------------------------------------------------------------------
(* Runs                                                                    *)

\* An importer closes the run it opened, nobody else has that run, and it gets
\* to the regular end only through the commit.
LEMMA RunInvariant == Spec => [](RunsKnown /\ SucceededIsApplied)
<1> DEFINE IInv == RunsKnown /\ SucceededIsApplied
<1>1. Init => IInv
  BY DEF Init, Ended, Nothing, RunsKnown, SucceededIsApplied, InRun, InTransaction
<1>2. TypeOK /\ IInv /\ [Next]_vars => IInv'
  <2> SUFFICES ASSUME TypeOK, RunsKnown, SucceededIsApplied, [Next]_vars
               PROVE  RunsKnown' /\ SucceededIsApplied'
    OBVIOUS
  <2>0. CASE UNCHANGED vars
    BY <2>0 DEF vars, RunsKnown, SucceededIsApplied
  <2>p. ASSUME NEW p \in Importers PROVE proc[p] \in Procs
    BY DEF TypeOK
  <2>a. ASSUME NEW p \in Importers, UNCHANGED runs, NEW x, proc' = [proc EXCEPT ![p] = x],
               \/ x.pc \notin InRun
               \/ /\ x.pc # "finish"
                  /\ proc[p].pc \in InRun /\ x.run = proc[p].run
        PROVE  RunsKnown' /\ SucceededIsApplied'
    <3>1. proc'[p] = x /\ \A q \in Importers \ {p} : proc'[q] = proc[q]
      BY <2>a DEF TypeOK
    <3> QED
      BY <2>a, <3>1 DEF RunsKnown, SucceededIsApplied
  <2>e. Ended.pc \notin InRun
    BY DEF Ended, InRun, InTransaction
  <2>1. ASSUME NEW p \in Importers, Launch(p) PROVE RunsKnown' /\ SucceededIsApplied'
    <3>1. [pc |-> "fetch", step |-> 1].pc \notin InRun
      BY DEF InRun, InTransaction
    <3> QED
      BY <2>1, <2>a, <3>1 DEF Launch
  <2>2. ASSUME NEW p \in Importers, Fetch(p) PROVE RunsKnown' /\ SucceededIsApplied'
    <3>1. PICK answer :
            proc' = [proc EXCEPT ![p] =
              [pc |-> "start", step |-> proc[p].step, answer |-> answer]]
      BY <2>2 DEF Fetch
    <3>2. [pc |-> "start", step |-> proc[p].step, answer |-> answer].pc \notin InRun
      BY DEF InRun, InTransaction
    <3> QED
      BY <2>2, <2>a, <3>1, <3>2 DEF Fetch
  <2>3. ASSUME NEW p \in Importers, NoStart(p) PROVE RunsKnown' /\ SucceededIsApplied'
    BY <2>3, <2>a, <2>e DEF NoStart
  <2>4. ASSUME NEW p \in Importers, StartRun(p) PROVE RunsKnown' /\ SucceededIsApplied'
    <3>1. PICK r \in 1..MaxRuns :
            /\ DOMAIN runs = 1..(r - 1)
            /\ runs' = [s \in 1..r |->
                 IF s = r THEN [status |-> "running", applied |-> FALSE] ELSE runs[s]]
            /\ proc' = [proc EXCEPT ![p] =
                 [pc |-> "parse", step |-> proc[p].step, answer |-> proc[p].answer, run |-> r]]
      BY <2>4 DEF StartRun
    <3>2. /\ proc'[p].pc = "parse" /\ proc'[p].run = r
          /\ \A q \in Importers \ {p} : proc'[q] = proc[q]
      BY <3>1 DEF TypeOK
    <3>3. /\ r \notin DOMAIN runs /\ DOMAIN runs' = DOMAIN runs \cup {r}
          /\ runs'[r].status = "running"
          /\ \A s \in DOMAIN runs : runs'[s] = runs[s]
      BY <3>1, BoundsAssumption
    <3>4. RunsKnown'
      BY <3>2, <3>3 DEF RunsKnown
    <3> QED
      BY <3>3, <3>4 DEF SucceededIsApplied
  <2>5. ASSUME NEW p \in Importers, Parse(p) PROVE RunsKnown' /\ SucceededIsApplied'
    <3>1. proc[p].pc \in InRun
      BY <2>5 DEF Parse, InRun
    <3>2. CASE proc[p].answer = Unreadable
      BY <2>5, <2>a, <3>1, <3>2 DEF Parse
    <3>3. CASE proc[p].answer # Unreadable
      BY <2>5, <2>a, <3>1, <3>3 DEF Parse
    <3> QED
      BY <3>2, <3>3
  <2>6. ASSUME NEW p \in Importers, BeginImport(p) PROVE RunsKnown' /\ SucceededIsApplied'
    <3> DEFINE x == [pc |-> "upsert", step |-> proc[p].step, answer |-> proc[p].answer,
                     run |-> proc[p].run, cutoff |-> now + 1, written |-> {}, gone |-> {},
                     moved |-> {}, seen |-> {}, quiet |-> TRUE]
    <3>1. proc[p].pc \in InRun /\ proc' = [proc EXCEPT ![p] = x] /\ UNCHANGED runs
      BY <2>6 DEF BeginImport, InRun
    <3>2. x.pc # "finish" /\ x.run = proc[p].run
      OBVIOUS
    <3> HIDE DEF x
    <3> QED
      BY <2>a, <3>1, <3>2
  <2>b. ASSUME NEW p \in Importers, proc[p].pc \in InTransaction
        PROVE  proc[p] \in Writing /\ proc[p].pc \in InRun
    BY <2>b, <2>p, PointsOfWork DEF InRun
  <2>7. ASSUME NEW p \in Importers, Upsert(p) PROVE RunsKnown' /\ SucceededIsApplied'
    <3> DEFINE x == [proc[p] EXCEPT !.pc = "prune", !.written = proc[p].answer,
                                    !.seen = BoundariesOf(DOMAIN stored)]
    <3>1. proc[p] \in Writing /\ proc[p].pc \in InRun
      BY <2>7, <2>b DEF Upsert, InTransaction
    <3>2. x.pc # "finish" /\ x.run = proc[p].run
      BY <3>1 DEF Writing
    <3>3. proc' = [proc EXCEPT ![p] = x] /\ UNCHANGED runs
      BY <2>7 DEF Upsert
    <3> HIDE DEF x
    <3> QED
      BY <2>a, <3>1, <3>2, <3>3
  <2>8. ASSUME NEW p \in Importers, Prune(p) PROVE RunsKnown' /\ SucceededIsApplied'
    <3> DEFINE next == IF QueryOf(proc[p].step) = "boundaries" THEN "relocate" ELSE "commit"
               x == [proc[p] EXCEPT !.pc = next, !.gone = Prunable(p)]
    <3>1. proc[p] \in Writing /\ proc[p].pc \in InRun
      BY <2>8, <2>b DEF Prune, InTransaction
    <3>2. x.pc # "finish" /\ x.run = proc[p].run
      BY <3>1 DEF Writing
    <3>3. proc' = [proc EXCEPT ![p] = x] /\ UNCHANGED runs
      BY <2>8 DEF Prune
    <3> HIDE DEF x
    <3> QED
      BY <2>a, <3>1, <3>2, <3>3
  <2>9. ASSUME NEW p \in Importers, Relocate(p) PROVE RunsKnown' /\ SucceededIsApplied'
    <3> DEFINE x == [proc[p] EXCEPT !.pc = "commit", !.moved = Relocated(p),
                                    !.seen = BoundariesOf(Visible(p) \ proc[p].gone)]
    <3>1. proc[p] \in Writing /\ proc[p].pc \in InRun
      BY <2>9, <2>b DEF Relocate, InTransaction
    <3>2. x.pc # "finish" /\ x.run = proc[p].run
      BY <3>1 DEF Writing
    <3>3. proc' = [proc EXCEPT ![p] = x] /\ UNCHANGED runs
      BY <2>9 DEF Relocate
    <3> HIDE DEF x
    <3> QED
      BY <2>a, <3>1, <3>2, <3>3
  <2>10. ASSUME NEW p \in Importers, Commit(p) PROVE RunsKnown' /\ SucceededIsApplied'
    <3>1. proc[p].pc \in InRun /\ proc[p].run \in DOMAIN runs
      BY <2>10 DEF Commit, InRun, InTransaction, RunsKnown
    <3>2. /\ DOMAIN runs' = DOMAIN runs
          /\ runs'[proc[p].run].applied
          /\ \A r \in DOMAIN runs : /\ runs'[r].status = runs[r].status
                                    /\ runs[r].applied => runs'[r].applied
      BY <2>10, <3>1 DEF Commit, TypeOK
    <3>3. /\ proc'[p].pc \in InRun /\ proc'[p].run = proc[p].run
          /\ \A q \in Importers \ {p} :
               /\ proc'[q].pc = proc[q].pc
               /\ proc[q].pc \in InRun => proc'[q].run = proc[q].run
      <4>1. PICK next \in {"finish", "failing"} :
              proc' = [q \in Importers |->
                CASE q = p -> [pc |-> next, step |-> proc[p].step, run |-> proc[p].run]
                  [] q # p /\ proc[q].pc \in InTransaction -> [proc[q] EXCEPT !.quiet = FALSE]
                  [] OTHER -> proc[q]]
        BY <2>10 DEF Commit
      <4>2. proc'[p].pc \in InRun /\ proc'[p].run = proc[p].run
        BY <4>1 DEF InRun
      <4>3. ASSUME NEW q \in Importers \ {p}
            PROVE  /\ proc'[q].pc = proc[q].pc
                   /\ proc[q].pc \in InRun => proc'[q].run = proc[q].run
        <5>1. CASE proc[q].pc \in InTransaction
          <6>1. proc[q] \in Writing
            BY <5>1, <2>b
          <6>2. proc'[q] = [proc[q] EXCEPT !.quiet = FALSE]
            BY <4>1, <5>1
          <6> QED
            BY <6>1, <6>2 DEF Writing
        <5>2. CASE proc[q].pc \notin InTransaction
          BY <4>1, <5>2
        <5> QED
          BY <5>1, <5>2
      <4> QED
        BY <4>2, <4>3
    <3>4. RunsKnown'
      BY <3>1, <3>2, <3>3 DEF RunsKnown
    <3> QED
      BY <3>2, <3>4 DEF SucceededIsApplied
  <2>11. ASSUME NEW p \in Importers, Fail(p) PROVE RunsKnown' /\ SucceededIsApplied'
    <3>1. proc[p].pc \in InRun
      BY <2>11 DEF Fail, InRun
    <3> QED
      BY <2>11, <2>a, <3>1 DEF Fail
  <2>12. ASSUME NEW p \in Importers, Finish(p) PROVE RunsKnown' /\ SucceededIsApplied'
    <3>1. proc[p].pc \in InRun /\ proc[p].run \in DOMAIN runs
      BY <2>12 DEF Finish, InRun, RunsKnown
    <3>2. /\ DOMAIN runs' = DOMAIN runs
          /\ \A r \in DOMAIN runs : /\ runs'[r].applied = runs[r].applied
                                    /\ r # proc[p].run => runs'[r].status = runs[r].status
          /\ runs'[proc[p].run].status = StatusOf(p)
      BY <2>12, <3>1 DEF Finish, TypeOK
    <3>3. PICK x : /\ proc' = [proc EXCEPT ![p] = x]
                   /\ \/ x.pc \notin InRun
                      \/ x.pc = "coverage" /\ x.run = proc[p].run
      <4>1. Advance(p).pc \notin InRun
        BY <2>e DEF Advance, InRun, InTransaction
      <4>2. [pc |-> "coverage", step |-> proc[p].step, run |-> proc[p].run].pc = "coverage"
        OBVIOUS
      <4> QED
        BY <2>12, <2>e, <4>1, <4>2 DEF Finish
    <3>4. proc'[p] = x /\ \A q \in Importers \ {p} : proc'[q] = proc[q]
      BY <3>3 DEF TypeOK
    <3>5. RunsKnown'
      BY <3>1, <3>2, <3>3, <3>4 DEF RunsKnown
    <3>6. runs'[proc[p].run].status = "succeeded" => runs[proc[p].run].applied
      BY <2>12, <3>1, <3>2 DEF Finish, StatusOf, RunsKnown
    <3> QED
      BY <3>2, <3>5, <3>6 DEF SucceededIsApplied
  <2>13. ASSUME NEW p \in Importers, Coverage(p) PROVE RunsKnown' /\ SucceededIsApplied'
    <3>1. Advance(p).pc \notin InRun
      BY <2>e DEF Advance, InRun, InTransaction
    <3> QED
      BY <2>13, <2>a, <3>1 DEF Coverage
  <2>14. ASSUME NEW p \in Importers, NoFinish(p) PROVE RunsKnown' /\ SucceededIsApplied'
    BY <2>14, <2>a, <2>e DEF NoFinish
  <2>15. ASSUME NEW p \in Importers, Stop(p) PROVE RunsKnown' /\ SucceededIsApplied'
    BY <2>15, <2>a, <2>e DEF Stop
  <2> QED
    BY <2>0, <2>1, <2>2, <2>3, <2>4, <2>5, <2>6, <2>7, <2>8, <2>9, <2>10, <2>11, <2>12,
       <2>13, <2>14, <2>15 DEF Next, Work
<1> QED
  BY <1>1, <1>2, TypeCorrect, PTL DEF Spec

\* A run that is recorded as succeeded has committed its rows.
THEOREM SucceededWasApplied == Spec => []SucceededIsApplied
BY RunInvariant, PTL

-----------------------------------------------------------------------------
(* Transactions                                                            *)

\* The inductive invariant of the tables; every kind of step gets a lemma.
TablesInv == AnswersFit /\ HeldApart /\ TransactionInv /\ QuietInv

Asked == {"start", "parse", "begin"}

\* While the tables stay as they are, nothing changes for those who do nothing.
LEMMA Bystanders ==
  ASSUME TypeOK, TablesInv, UNCHANGED stored, NEW p \in Importers,
         \A q \in Importers \ {p} : proc'[q] = proc[q],
         now' = now \/ now' = now + 1
  PROVE  \A q \in Importers \ {p} :
           Held(q)' = Held(q) /\ DeletesOnlyOld(q)' /\ HasReadCurrent(q)'
<1> SUFFICES ASSUME NEW q \in Importers \ {p}
             PROVE  Held(q)' = Held(q) /\ DeletesOnlyOld(q)' /\ HasReadCurrent(q)'
  OBVIOUS
<1>1. proc'[q] = proc[q]
  OBVIOUS
<1>2. Held(q)' = Held(q) /\ Visible(q)' = Visible(q) /\ Relocated(q)' = Relocated(q)
  BY <1>1 DEF Held, Visible, Relocated
<1>3. HasReadCurrent(q)'
  BY <1>1, <1>2 DEF TablesInv, QuietInv, HasReadCurrent
<1>4. proc[q].pc \in InTransaction => proc[q].cutoff <= now /\ proc[q].cutoff <= now'
  <2>1. proc[q].pc \in InTransaction => proc[q].cutoff \in Int /\ now \in Int
    BY PointsOfWork, BoundsAssumption DEF TypeOK, Writing
  <2> QED
    BY <2>1 DEF TablesInv, TransactionInv, DeletesOnlyOld
<1>5. DeletesOnlyOld(q)'
  BY <1>1, <1>4 DEF TablesInv, TransactionInv, DeletesOnlyOld
<1> QED
  BY <1>2, <1>3, <1>5

\* What an importer does outside a transaction does not disturb those of others.
LEMMA OutsideStep ==
  ASSUME TypeOK, TablesInv, UNCHANGED <<now, stored>>,
         NEW p \in Importers, NEW x, proc' = [proc EXCEPT ![p] = x],
         x.pc \notin InTransaction,
         x.pc \in Asked =>
           \A o \in x.answer \ Unreadable : Kind[o] \in Yields(QueryOf(x.step))
  PROVE  TablesInv'
<1>1. proc'[p] = x /\ \A q \in Importers \ {p} : proc'[q] = proc[q]
  BY DEF TypeOK
<1>2. AnswersFit'
  BY <1>1 DEF TablesInv, AnswersFit, Asked
<1>3. /\ Held(p)' = {} /\ DeletesOnlyOld(p)' /\ HasReadCurrent(p)'
      /\ \A q \in Importers \ {p} :
           Held(q)' = Held(q) /\ DeletesOnlyOld(q)' /\ HasReadCurrent(q)'
  <2>1. Held(p)' = {} /\ DeletesOnlyOld(p)' /\ HasReadCurrent(p)'
    BY <1>1 DEF Held, DeletesOnlyOld, HasReadCurrent
  <2> QED
    BY <1>1, <2>1, Bystanders
<1>4. HeldApart'
  BY <1>3 DEF TablesInv, HeldApart
<1>5. TransactionInv'
  BY <1>3 DEF TablesInv, TransactionInv
<1>6. QuietInv'
  BY <1>3 DEF TablesInv, QuietInv
<1> QED
  BY <1>2, <1>4, <1>5, <1>6 DEF TablesInv

\* A transaction begins after everything that is stored.
LEMMA BeginStep ==
  ASSUME TypeOK, TablesInv, NEW p \in Importers, BeginImport(p)
  PROVE  TablesInv'
<1> DEFINE x == [pc |-> "upsert", step |-> proc[p].step, answer |-> proc[p].answer,
                 run |-> proc[p].run, cutoff |-> now + 1, written |-> {}, gone |-> {},
                 moved |-> {}, seen |-> {}, quiet |-> TRUE]
<1>1. proc'[p] = x /\ \A q \in Importers \ {p} : proc'[q] = proc[q]
  BY DEF BeginImport, TypeOK
<1>2. /\ x.pc = "upsert" /\ x.step = proc[p].step /\ x.answer = proc[p].answer
      /\ x.cutoff = now + 1 /\ x.written = {} /\ x.gone = {} /\ x.moved = {}
  OBVIOUS
<1> HIDE DEF x
<1>3. proc[p] \in Beginning /\ Unreadable \cap proc[p].answer = {}
  <2>1. proc[p] \in Beginning
    BY PointsOfWork DEF BeginImport, TypeOK
  <2> QED
    BY <2>1, ObjectsAssumption DEF Beginning, Readable, Unreadable
<1>4. AnswersFit'
  BY <1>1, <1>2 DEF TablesInv, AnswersFit, BeginImport, InTransaction
<1>5. now \in Int /\ now' = now + 1 /\ stored' = stored
  BY DEF BeginImport, TypeOK
<1>6. \A o \in DOMAIN stored : stored[o].at <= now' /\ stored[o].at < now + 1
  <2>1. \A o \in DOMAIN stored : stored[o].at \in Int
    BY BoundsAssumption DEF TypeOK, Rows
  <2> QED
    BY <1>5, <2>1 DEF TablesInv, TransactionInv
<1>7. /\ Held(p)' = {} /\ DeletesOnlyOld(p)' /\ HasReadCurrent(p)'
      /\ \A q \in Importers \ {p} :
           Held(q)' = Held(q) /\ DeletesOnlyOld(q)' /\ HasReadCurrent(q)'
  <2>1. Held(p)' = {}
    BY <1>1, <1>2 DEF Held
  <2>2. DeletesOnlyOld(p)'
    BY <1>1, <1>2, <1>5 DEF DeletesOnlyOld
  <2>3. HasReadCurrent(p)'
    BY <1>1, <1>2, <1>5, <1>6 DEF HasReadCurrent
  <2> QED
    BY <1>1, <1>5, <2>1, <2>2, <2>3, Bystanders
<1>8. HeldApart'
  BY <1>7 DEF TablesInv, HeldApart
<1>9. TransactionInv'
  BY <1>5, <1>6, <1>7 DEF TransactionInv
<1>10. QuietInv'
  BY <1>7 DEF QuietInv
<1> QED
  BY <1>4, <1>8, <1>9, <1>10 DEF TablesInv

\* The upsert holds the rows of the answer, for which it has waited.
LEMMA UpsertStep ==
  ASSUME TypeOK, TablesInv, NEW p \in Importers, Upsert(p)
  PROVE  TablesInv'
<1> DEFINE x == [proc[p] EXCEPT !.pc = "prune", !.written = proc[p].answer,
                                !.seen = BoundariesOf(DOMAIN stored)]
<1>1. proc[p] \in Writing /\ proc[p].pc = "upsert"
  BY PointsOfWork DEF Upsert, TypeOK, InTransaction
<1>2. /\ proc'[p] = x /\ \A q \in Importers \ {p} : proc'[q] = proc[q]
      /\ now' = now /\ stored' = stored
  BY DEF Upsert, TypeOK
<1>3. /\ x.pc = "prune" /\ x.step = proc[p].step /\ x.answer = proc[p].answer
      /\ x.cutoff = proc[p].cutoff /\ x.written = proc[p].answer /\ x.gone = proc[p].gone
      /\ x.moved = proc[p].moved /\ x.seen = BoundariesOf(DOMAIN stored)
      /\ x.quiet = proc[p].quiet
  BY <1>1 DEF Writing
<1> HIDE DEF x
<1>4. proc[p].gone = {} /\ proc[p].moved = {}
  BY <1>1 DEF TablesInv, TransactionInv, DeletesOnlyOld, InTransaction
<1>5. AnswersFit'
  BY <1>1, <1>2, <1>3 DEF TablesInv, AnswersFit, InTransaction
<1>6. /\ Held(p)' = proc[p].answer /\ DeletesOnlyOld(p)' /\ HasReadCurrent(p)'
      /\ \A q \in Importers \ {p} :
           Held(q)' = Held(q) /\ DeletesOnlyOld(q)' /\ HasReadCurrent(q)'
  <2>1. Held(p)' = proc[p].answer
    BY <1>2, <1>3, <1>4 DEF Held, InTransaction
  <2>2. DeletesOnlyOld(p)'
    BY <1>1, <1>2, <1>3, <1>4 DEF TablesInv, TransactionInv, DeletesOnlyOld, InTransaction
  <2>3. HasReadCurrent(p)'
    BY <1>1, <1>2, <1>3 DEF TablesInv, QuietInv, HasReadCurrent, InTransaction
  <2> QED
    BY <1>2, <2>1, <2>2, <2>3, Bystanders
<1>7. HeldApart'
  BY <1>6 DEF TablesInv, HeldApart, Upsert, HeldByOthers
<1>8. TransactionInv'
  BY <1>2, <1>6 DEF TablesInv, TransactionInv
<1>9. QuietInv'
  BY <1>6 DEF QuietInv
<1> QED
  BY <1>5, <1>7, <1>8, <1>9 DEF TablesInv

\* What is pruned is old and was not in the answer; in a transaction nobody
\* disturbed, what is left of its kinds in its box is the answer.
LEMMA PruneStep ==
  ASSUME TypeOK, TablesInv, NEW p \in Importers, Prune(p)
  PROVE  TablesInv'
<1> DEFINE next == IF QueryOf(proc[p].step) = "boundaries" THEN "relocate" ELSE "commit"
           x == [proc[p] EXCEPT !.pc = next, !.gone = Prunable(p)]
<1>1. proc[p] \in Writing /\ proc[p].pc = "prune"
  BY PointsOfWork DEF Prune, TypeOK, InTransaction
<1>2. /\ proc'[p] = x /\ \A q \in Importers \ {p} : proc'[q] = proc[q]
      /\ now' = now /\ stored' = stored
  BY DEF Prune, TypeOK
<1>3. /\ x.pc = next /\ x.step = proc[p].step /\ x.answer = proc[p].answer
      /\ x.cutoff = proc[p].cutoff /\ x.written = proc[p].written /\ x.gone = Prunable(p)
      /\ x.moved = proc[p].moved /\ x.seen = proc[p].seen /\ x.quiet = proc[p].quiet
  BY <1>1 DEF Writing
<1> HIDE DEF x
<1>4. /\ proc[p].written = proc[p].answer /\ proc[p].gone = {} /\ proc[p].moved = {}
      /\ proc[p].cutoff <= now
  BY <1>1 DEF TablesInv, TransactionInv, DeletesOnlyOld, InTransaction
<1>5. \A o \in Prunable(p) : /\ o \in DOMAIN stored /\ stored[o].at < proc[p].cutoff
                             /\ o \in InBox[RegionOf(proc[p].step)] \ proc[p].answer
                             /\ Kind[o] \in Prunes(QueryOf(proc[p].step))
  <2>1. proc[p].cutoff \in Int
    BY <1>1, BoundsAssumption DEF Writing
  <2> QED
    BY <1>4, <2>1 DEF Prunable, WrittenAt, Visible
<1>6. AnswersFit'
  BY <1>1, <1>2, <1>3 DEF TablesInv, AnswersFit, InTransaction
<1>7. Held(p) = proc[p].written /\ Held(p)' = proc[p].written \cup Prunable(p)
  BY <1>1, <1>2, <1>3, <1>4 DEF Held, InTransaction
<1>8. DeletesOnlyOld(p)'
  BY <1>1, <1>2, <1>3, <1>4, <1>5 DEF DeletesOnlyOld
<1>9. HasReadCurrent(p)'
  <2>1. ASSUME proc[p].quiet
        PROVE  /\ \A o \in DOMAIN stored : stored[o].at < proc[p].cutoff
               /\ QueryOf(proc[p].step) = "institutions" =>
                    proc[p].seen = BoundariesOf(DOMAIN stored)
    BY <1>1, <2>1 DEF TablesInv, QuietInv, HasReadCurrent, InTransaction
  <2>2. ASSUME proc[p].quiet, NEW o \in DOMAIN stored \cap InBox[RegionOf(proc[p].step)],
               Kind[o] \in Prunes(QueryOf(proc[p].step))
        PROVE  o \in proc[p].answer \cup Prunable(p)
    BY <1>4, <2>1, <2>2 DEF Prunable, WrittenAt, Visible
  <2>3. next = "commit" => QueryOf(proc[p].step) # "boundaries"
    OBVIOUS
  <2> HIDE DEF next
  <2> QED
    BY <1>2, <1>3, <2>1, <2>2, <2>3 DEF HasReadCurrent
<1>10. \A q \in Importers \ {p} : Held(q)' = Held(q) /\ DeletesOnlyOld(q)' /\ HasReadCurrent(q)'
  BY <1>2, Bystanders
<1>11. HeldApart'
  BY <1>7, <1>10 DEF TablesInv, HeldApart, Prune, HeldByOthers
<1>12. TransactionInv'
  BY <1>2, <1>8, <1>10 DEF TablesInv, TransactionInv
<1>13. QuietInv'
  BY <1>9, <1>10 DEF QuietInv
<1> QED
  BY <1>6, <1>11, <1>12, <1>13 DEF TablesInv

\* The institutions are given their towns last, and are held as well.
LEMMA RelocateStep ==
  ASSUME TypeOK, TablesInv, NEW p \in Importers, Relocate(p)
  PROVE  TablesInv'
<1> DEFINE x == [proc[p] EXCEPT !.pc = "commit", !.moved = Relocated(p),
                                !.seen = BoundariesOf(Visible(p) \ proc[p].gone)]
<1>1. proc[p] \in Writing /\ proc[p].pc = "relocate"
  BY PointsOfWork DEF Relocate, TypeOK, InTransaction
<1>2. /\ proc'[p] = x /\ \A q \in Importers \ {p} : proc'[q] = proc[q]
      /\ now' = now /\ stored' = stored
  BY DEF Relocate, TypeOK
<1>3. /\ x.pc = "commit" /\ x.step = proc[p].step /\ x.answer = proc[p].answer
      /\ x.cutoff = proc[p].cutoff /\ x.written = proc[p].written /\ x.gone = proc[p].gone
      /\ x.moved = Relocated(p) /\ x.seen = BoundariesOf(Visible(p) \ proc[p].gone)
      /\ x.quiet = proc[p].quiet
  BY <1>1 DEF Writing
<1> HIDE DEF x
<1>4. /\ proc[p].written = proc[p].answer /\ proc[p].moved = {}
      /\ QueryOf(proc[p].step) = "boundaries"
  BY <1>1 DEF TablesInv, TransactionInv, DeletesOnlyOld, InTransaction
<1>5. AnswersFit'
  BY <1>1, <1>2, <1>3 DEF TablesInv, AnswersFit, InTransaction
<1>6. Held(p) = proc[p].written \cup proc[p].gone /\ Held(p)' = Held(p) \cup Relocated(p)
  BY <1>1, <1>2, <1>3, <1>4 DEF Held, InTransaction
<1>7. DeletesOnlyOld(p)'
  BY <1>1, <1>2, <1>3, <1>4 DEF TablesInv, TransactionInv, DeletesOnlyOld, InTransaction
<1>8. Visible(p)' = Visible(p) /\ Relocated(p)' = Relocated(p)
  BY <1>2, <1>3 DEF Visible, Relocated
<1>9. HasReadCurrent(p)'
  BY <1>1, <1>2, <1>3, <1>4, <1>8 DEF TablesInv, QuietInv, HasReadCurrent, InTransaction
<1>10. \A q \in Importers \ {p} : Held(q)' = Held(q) /\ DeletesOnlyOld(q)' /\ HasReadCurrent(q)'
  BY <1>2, Bystanders
<1>11. HeldApart'
  BY <1>6, <1>10 DEF TablesInv, HeldApart, Relocate, HeldByOthers
<1>12. TransactionInv'
  BY <1>2, <1>7, <1>10 DEF TablesInv, TransactionInv
<1>13. QuietInv'
  BY <1>9, <1>10 DEF QuietInv
<1> QED
  BY <1>5, <1>11, <1>12, <1>13 DEF TablesInv

\* What a commit leaves of what was stored: others' rows untouched.
LEMMA CommitLeaves ==
  ASSUME TypeOK, TablesInv, NEW p \in Importers, Commit(p)
  PROVE  /\ proc[p] \in Writing /\ now' = now
         /\ DOMAIN stored' = (DOMAIN stored \cup proc[p].answer) \ proc[p].gone
         /\ proc[p].written = proc[p].answer
         /\ \A o \in DOMAIN stored' :
              /\ stored'[o].at = IF o \in proc[p].answer THEN proc[p].cutoff ELSE stored[o].at
              /\ stored'[o].town = IF o \in proc[p].answer \cup proc[p].moved
                                   THEN TownOf(o, proc[p].seen) ELSE stored[o].town
<1>1. proc[p] \in Writing /\ proc[p].pc = "commit" /\ proc[p].pc \in InTransaction
  BY PointsOfWork DEF Commit, TypeOK, InTransaction
<1>2. proc[p].written = proc[p].answer
  BY <1>1 DEF TablesInv, TransactionInv, DeletesOnlyOld
<1>3. stored' = Result(p)
  BY DEF Commit
<1>4. DOMAIN stored' = (DOMAIN stored \cup proc[p].answer) \ proc[p].gone
  BY <1>2, <1>3 DEF Result, Visible
<1>5. ASSUME NEW o \in DOMAIN stored'
      PROVE  /\ stored'[o].at = WrittenAt(p, o)
             /\ stored'[o].town = IF o \in proc[p].answer \cup proc[p].moved
                                  THEN TownOf(o, proc[p].seen) ELSE stored[o].town
  <2>1. o \in Visible(p) \ proc[p].gone
    BY <1>3 DEF Result
  <2> QED
    BY <1>2, <1>3, <2>1 DEF Result
<1> QED
  BY <1>1, <1>2, <1>4, <1>5 DEF Commit, WrittenAt

\* A commit changes nothing that another transaction has written or is to delete.
LEMMA CommitStep ==
  ASSUME TypeOK, TablesInv, NEW p \in Importers, Commit(p)
  PROVE  TablesInv'
<1>1. PICK next \in {"finish", "failing"} :
        proc' = [q \in Importers |->
          CASE q = p -> [pc |-> next, step |-> proc[p].step, run |-> proc[p].run]
            [] q # p /\ proc[q].pc \in InTransaction -> [proc[q] EXCEPT !.quiet = FALSE]
            [] OTHER -> proc[q]]
  BY DEF Commit
<1>2. proc'[p].pc \notin InTransaction \cup Asked
  BY <1>1 DEF InTransaction, Asked
<1>3. ASSUME NEW q \in Importers \ {p}, proc[q].pc \in InTransaction
      PROVE  /\ proc'[q].pc = proc[q].pc /\ proc'[q].step = proc[q].step
             /\ proc'[q].answer = proc[q].answer /\ proc'[q].cutoff = proc[q].cutoff
             /\ proc'[q].written = proc[q].written /\ proc'[q].gone = proc[q].gone
             /\ proc'[q].moved = proc[q].moved /\ proc'[q].quiet = FALSE
  <2>1. proc[q] \in Writing
    BY <1>3, PointsOfWork DEF TypeOK
  <2>2. proc'[q] = [proc[q] EXCEPT !.quiet = FALSE]
    BY <1>1, <1>3
  <2> QED
    BY <2>1, <2>2 DEF Writing
<1>4. \A q \in Importers \ {p} : proc[q].pc \notin InTransaction => proc'[q] = proc[q]
  BY <1>1
<1>5. AnswersFit'
  <2> SUFFICES ASSUME NEW q \in Importers, proc'[q].pc \in Asked \cup InTransaction
               PROVE  \A o \in proc'[q].answer \ Unreadable :
                        Kind[o] \in Yields(QueryOf(proc'[q].step))
    BY DEF AnswersFit, Asked
  <2>1. q # p
    BY <1>2
  <2> QED
    BY <1>3, <1>4, <2>1 DEF TablesInv, AnswersFit, Asked
<1>6. Held(p)' = {} /\ \A q \in Importers \ {p} : Held(q)' = Held(q)
  BY <1>2, <1>3, <1>4 DEF Held
<1>7. HeldApart'
  BY <1>6 DEF TablesInv, HeldApart
<1>8. \A o \in DOMAIN stored' : stored'[o].at <= now'
  <2>1. proc[p].cutoff <= now /\ proc[p].pc \in InTransaction
    BY DEF Commit, InTransaction, TablesInv, TransactionInv, DeletesOnlyOld
  <2> QED
    BY <2>1, CommitLeaves DEF TablesInv, TransactionInv
<1>9. ASSUME NEW q \in Importers \ {p}, proc[q].pc \in InTransaction, NEW o \in proc[q].gone
      PROVE  o \in DOMAIN stored' /\ stored'[o].at = stored[o].at
  <2>1. o \in Held(q) /\ Held(p) \cap Held(q) = {}
    BY <1>9 DEF Held, TablesInv, HeldApart
  <2>2. o \notin proc[p].written \cup proc[p].gone
    BY <2>1 DEF Held, Commit, InTransaction
  <2>3. o \in DOMAIN stored
    BY <1>9 DEF TablesInv, TransactionInv, DeletesOnlyOld
  <2> QED
    BY <2>2, <2>3, CommitLeaves
<1>10. \A q \in Importers : DeletesOnlyOld(q)'
  <2> SUFFICES ASSUME NEW q \in Importers PROVE DeletesOnlyOld(q)'
    OBVIOUS
  <2>1. CASE q = p \/ proc[q].pc \notin InTransaction
    BY <1>2, <1>4, <2>1 DEF DeletesOnlyOld
  <2>2. CASE q # p /\ proc[q].pc \in InTransaction
    <3>1. DeletesOnlyOld(q)
      BY DEF TablesInv, TransactionInv
    <3>2. now' = now /\ \A o \in proc[q].gone : o \in DOMAIN stored' /\ stored'[o].at = stored[o].at
      BY <1>9, <2>2, CommitLeaves
    <3>3. /\ proc'[q].pc = proc[q].pc /\ proc'[q].step = proc[q].step
          /\ proc'[q].answer = proc[q].answer /\ proc'[q].cutoff = proc[q].cutoff
          /\ proc'[q].written = proc[q].written /\ proc'[q].gone = proc[q].gone
          /\ proc'[q].moved = proc[q].moved
      BY <1>3, <2>2
    <3> QED
      BY <2>2, <3>1, <3>2, <3>3 DEF DeletesOnlyOld
  <2> QED
    BY <2>1, <2>2
<1>11. QuietInv'
  BY <1>2, <1>3, <1>4 DEF QuietInv, HasReadCurrent
<1> QED
  BY <1>5, <1>7, <1>8, <1>10, <1>11 DEF TablesInv, TransactionInv

\* So the invariants of the transactions hold in every reachable state.
LEMMA TablesInvariant == Spec => []TablesInv
<1>1. Init => TablesInv
  BY DEF Init, Ended, TablesInv, AnswersFit, HeldApart, Held, TransactionInv, DeletesOnlyOld,
         QuietInv, HasReadCurrent, InTransaction
<1>2. TypeOK /\ TablesInv /\ [Next]_vars => TablesInv'
  <2> SUFFICES ASSUME TypeOK, TablesInv, [Next]_vars PROVE TablesInv'
    OBVIOUS
  <2>0. CASE UNCHANGED vars
    BY <2>0 DEF vars, TablesInv, AnswersFit, HeldApart, Held, TransactionInv, DeletesOnlyOld,
                QuietInv, HasReadCurrent, Visible, Relocated
  <2>e. Ended.pc \notin InTransaction \cup Asked
    BY DEF Ended, InTransaction, Asked
  <2>v. \A p : Advance(p).pc \notin InTransaction \cup Asked
    BY <2>e DEF Advance, InTransaction, Asked
  <2>1. ASSUME NEW p \in Importers, Launch(p) PROVE TablesInv'
    <3>1. [pc |-> "fetch", step |-> 1].pc \notin InTransaction \cup Asked
      BY DEF InTransaction, Asked
    <3> QED
      BY <2>1, <3>1, OutsideStep DEF Launch
  <2>2. ASSUME NEW p \in Importers, Fetch(p) PROVE TablesInv'
    <3>1. PICK answer \in Answers(proc[p].step) :
            proc' = [proc EXCEPT ![p] =
              [pc |-> "start", step |-> proc[p].step, answer |-> answer]]
      BY <2>2 DEF Fetch
    <3>2. \A o \in answer \ Unreadable : Kind[o] \in Yields(QueryOf(proc[p].step))
      BY DEF Answers
    <3> DEFINE x == [pc |-> "start", step |-> proc[p].step, answer |-> answer]
    <3>3. x.pc \notin InTransaction /\ x.answer = answer /\ x.step = proc[p].step
      BY DEF InTransaction
    <3> HIDE DEF x
    <3>4. proc' = [proc EXCEPT ![p] = x] /\ UNCHANGED <<now, stored>>
      BY <2>2, <3>1 DEF Fetch, x
    <3> QED
      BY <3>2, <3>3, <3>4, OutsideStep
  <2>3. ASSUME NEW p \in Importers, NoStart(p) PROVE TablesInv'
    BY <2>3, <2>e, OutsideStep DEF NoStart
  <2>4. ASSUME NEW p \in Importers, StartRun(p) PROVE TablesInv'
    <3>1. PICK r : proc' = [proc EXCEPT ![p] =
            [pc |-> "parse", step |-> proc[p].step, answer |-> proc[p].answer, run |-> r]]
      BY <2>4 DEF StartRun
    <3> DEFINE x == [pc |-> "parse", step |-> proc[p].step, answer |-> proc[p].answer, run |-> r]
    <3>2. x.pc \notin InTransaction /\ x.answer = proc[p].answer /\ x.step = proc[p].step
      BY DEF InTransaction
    <3>3. proc' = [proc EXCEPT ![p] = x] /\ UNCHANGED <<now, stored>>
      BY <2>4, <3>1 DEF StartRun
    <3> HIDE DEF x
    <3> QED
      BY <2>4, <3>2, <3>3, OutsideStep DEF StartRun, TablesInv, AnswersFit
  <2>5. ASSUME NEW p \in Importers, Parse(p) PROVE TablesInv'
    <3> DEFINE bad == [pc |-> "failing", step |-> proc[p].step, run |-> proc[p].run]
               good == [pc |-> "begin", step |-> proc[p].step, answer |-> proc[p].answer,
                        run |-> proc[p].run]
    <3>1. /\ bad.pc = "failing"
          /\ good.pc = "begin" /\ good.answer = proc[p].answer /\ good.step = proc[p].step
      OBVIOUS
    <3>2. /\ proc' = [proc EXCEPT ![p] = bad] \/ proc' = [proc EXCEPT ![p] = good]
          /\ UNCHANGED <<now, stored>> /\ proc[p].pc = "parse"
      BY <2>5 DEF Parse
    <3> HIDE DEF bad, good
    <3>3. CASE proc' = [proc EXCEPT ![p] = bad]
      BY <3>1, <3>2, <3>3, OutsideStep DEF InTransaction, Asked
    <3>4. CASE proc' = [proc EXCEPT ![p] = good]
      <4>1. good.pc \notin InTransaction
        BY <3>1 DEF InTransaction
      <4> QED
        BY <3>1, <3>2, <3>4, <4>1, OutsideStep DEF TablesInv, AnswersFit
    <3> QED
      BY <3>2, <3>3, <3>4
  <2>11. ASSUME NEW p \in Importers, Fail(p) PROVE TablesInv'
    <3>1. [pc |-> "failing", step |-> proc[p].step, run |-> proc[p].run].pc
            \notin InTransaction \cup Asked
      BY DEF InTransaction, Asked
    <3> QED
      BY <2>11, <3>1, OutsideStep DEF Fail
  <2>12. ASSUME NEW p \in Importers, Finish(p) PROVE TablesInv'
    <3>1. [pc |-> "coverage", step |-> proc[p].step, run |-> proc[p].run].pc
            \notin InTransaction \cup Asked
      BY DEF InTransaction, Asked
    <3>2. PICK x : proc' = [proc EXCEPT ![p] = x] /\ x.pc \notin InTransaction \cup Asked
      BY <2>12, <2>e, <2>v, <3>1 DEF Finish
    <3> QED
      BY <2>12, <3>2, OutsideStep DEF Finish
  <2>13. ASSUME NEW p \in Importers, Coverage(p) PROVE TablesInv'
    BY <2>13, <2>v, OutsideStep DEF Coverage
  <2>14. ASSUME NEW p \in Importers, NoFinish(p) PROVE TablesInv'
    BY <2>14, <2>e, OutsideStep DEF NoFinish
  <2>15. ASSUME NEW p \in Importers, Stop(p) PROVE TablesInv'
    BY <2>15, <2>e, OutsideStep DEF Stop
  <2> QED
    BY <2>0, <2>1, <2>2, <2>3, <2>4, <2>5, <2>11, <2>12, <2>13, <2>14, <2>15,
       BeginStep, UpsertStep, PruneStep, RelocateStep, CommitStep DEF Next, Work
<1> QED
  BY <1>1, <1>2, TypeCorrect, PTL DEF Spec

\* Only its own commit applies the run of an importer.
LEMMA CommitsIsCommit ==
  ASSUME TypeOK, RunsKnown, [Next]_vars, NEW p \in Importers, Commits(p)
  PROVE  Commit(p)
<1>1. proc[p].pc = "commit" /\ proc[p].pc \in InRun /\ proc[p].run \in DOMAIN runs
  BY DEF Commits, InRun, InTransaction, RunsKnown
<1>2. runs' # runs /\ runs'[proc[p].run].applied # runs[proc[p].run].applied
  BY DEF Commits
<1>3. ASSUME NEW q \in Importers, StartRun(q) PROVE FALSE
  <2>1. PICK r \in 1..MaxRuns :
          /\ DOMAIN runs = 1..(r - 1)
          /\ runs' = [s \in 1..r |->
               IF s = r THEN [status |-> "running", applied |-> FALSE] ELSE runs[s]]
    BY <1>3 DEF StartRun
  <2>2. runs'[proc[p].run] = runs[proc[p].run]
    BY <1>1, <2>1, BoundsAssumption
  <2> QED
    BY <1>2, <2>2
<1>4. ASSUME NEW q \in Importers, Finish(q) PROVE FALSE
  BY <1>1, <1>2, <1>4 DEF Finish, TypeOK
<1>5. ASSUME NEW q \in Importers \ {p}, Commit(q) PROVE FALSE
  <2>1. proc[q].run # proc[p].run
    BY <1>1, <1>5 DEF RunsKnown, Commit, InRun, InTransaction
  <2> QED
    BY <1>1, <1>2, <1>5, <2>1 DEF Commit, TypeOK
<1> QED
  BY <1>2, <1>3, <1>4, <1>5 DEF Next, Work, vars, Launch, Fetch, NoStart, Parse, BeginImport,
     Upsert, Prune, Relocate, Fail, Coverage, NoFinish, Stop

-----------------------------------------------------------------------------
(* What an import does to the tables                                       *)

\* An import loses only what lay in its box, was of its kinds, was not in its
\* answer and was older than its transaction.
THEOREM OnlyStaleIsLost == Spec => NothingElseIsLost
<1> DEFINE A(p) ==
      Commits(p) =>
        /\ proc[p].answer \subseteq DOMAIN stored'
        /\ \A o \in DOMAIN stored \ DOMAIN stored' :
             /\ o \in InBox[RegionOf(proc[p].step)]
             /\ Kind[o] \in Prunes(QueryOf(proc[p].step))
             /\ o \notin proc[p].answer
             /\ stored[o].at < proc[p].cutoff
<1>1. TypeOK /\ TablesInv /\ RunsKnown /\ [Next]_vars => [\A p \in Importers : A(p)]_vars
  <2> SUFFICES ASSUME TypeOK, TablesInv, RunsKnown, [Next]_vars,
                      NEW p \in Importers, Commits(p)
               PROVE  /\ proc[p].answer \subseteq DOMAIN stored'
                      /\ \A o \in DOMAIN stored \ DOMAIN stored' :
                           /\ o \in InBox[RegionOf(proc[p].step)]
                           /\ Kind[o] \in Prunes(QueryOf(proc[p].step))
                           /\ o \notin proc[p].answer
                           /\ stored[o].at < proc[p].cutoff
    OBVIOUS
  <2>1. DOMAIN stored' = (DOMAIN stored \cup proc[p].answer) \ proc[p].gone
    BY CommitsIsCommit, CommitLeaves
  <2>2. \A o \in proc[p].gone :
          /\ o \in DOMAIN stored /\ stored[o].at < proc[p].cutoff
          /\ o \in InBox[RegionOf(proc[p].step)] \ proc[p].answer
          /\ Kind[o] \in Prunes(QueryOf(proc[p].step))
    BY DEF Commits, InTransaction, TablesInv, TransactionInv, DeletesOnlyOld
  <2> QED
    BY <2>1, <2>2
<1> QED
  BY <1>1, TypeCorrect, TablesInvariant, RunInvariant, PTL DEF Spec, NothingElseIsLost

\* The step in which it commits does so.
LEMMA QuietCommit ==
  ASSUME TypeOK, TablesInv, RunsKnown, [Next]_vars,
         NEW p \in Importers, Commits(p), proc[p].quiet,
         NEW mine,
         mine = {o \in InBox[RegionOf(proc[p].step)] : Kind[o] \in Prunes(QueryOf(proc[p].step))}
  PROVE  DOMAIN stored' \cap mine = proc[p].answer \cap mine
<1>1. DOMAIN stored' = (DOMAIN stored \cup proc[p].answer) \ proc[p].gone
  BY CommitsIsCommit, CommitLeaves
<1>2. proc[p].gone \cap proc[p].answer = {}
  BY DEF Commits, InTransaction, TablesInv, TransactionInv, DeletesOnlyOld
<1>3. \A o \in DOMAIN stored \cap mine : o \in proc[p].answer \cup proc[p].gone
  BY DEF Commits, InTransaction, TablesInv, QuietInv, HasReadCurrent
<1> QED
  BY <1>1, <1>2, <1>3

\* An import that nobody disturbs leaves of its kinds in its box exactly what
\* it was answered.
THEOREM QuietLeavesAnswer == Spec => QuietImportIsExact
<1> DEFINE A(p) ==
      Commits(p) /\ proc[p].quiet =>
        LET mine == {o \in InBox[RegionOf(proc[p].step)] :
                       Kind[o] \in Prunes(QueryOf(proc[p].step))}
        IN  DOMAIN stored' \cap mine = proc[p].answer \cap mine
<1>1. TypeOK /\ TablesInv /\ RunsKnown /\ [Next]_vars => [\A p \in Importers : A(p)]_vars
  BY QuietCommit
<1> QED
  BY <1>1, TypeCorrect, TablesInvariant, RunInvariant, PTL DEF Spec, QuietImportIsExact

\* An import of boundaries or institutions that nobody disturbs leaves every
\* institution in its box with the town of the stored boundaries.
THEOREM QuietLeavesTowns == Spec => QuietTownsAreCurrent
<1> DEFINE A(p) ==
      /\ Commits(p) /\ proc[p].quiet
      /\ QueryOf(proc[p].step) \in {"boundaries", "institutions"}
      => \A o \in DOMAIN stored' \cap InBox[RegionOf(proc[p].step)] :
           Kind[o] = "institution" =>
             stored'[o].town = TownOf(o, BoundariesOf(DOMAIN stored'))
<1>1. TypeOK /\ TablesInv /\ RunsKnown /\ [Next]_vars => [\A p \in Importers : A(p)]_vars
  <2> SUFFICES ASSUME TypeOK, TablesInv, RunsKnown, [Next]_vars,
                      NEW p \in Importers, Commits(p), proc[p].quiet,
                      QueryOf(proc[p].step) \in {"boundaries", "institutions"},
                      NEW o \in DOMAIN stored' \cap InBox[RegionOf(proc[p].step)],
                      Kind[o] = "institution"
               PROVE  stored'[o].town = TownOf(o, BoundariesOf(DOMAIN stored'))
    OBVIOUS
  <2>1. /\ Commit(p) /\ proc[p].pc = "commit" /\ proc[p].pc \in InTransaction
        /\ DOMAIN stored' = (DOMAIN stored \cup proc[p].answer) \ proc[p].gone
        /\ proc[p].written = proc[p].answer
        /\ stored'[o].town = IF o \in proc[p].answer \cup proc[p].moved
                             THEN TownOf(o, proc[p].seen) ELSE stored[o].town
    BY CommitsIsCommit, CommitLeaves DEF Commits, InTransaction
  <2>2. \A a \in proc[p].answer : Kind[a] \in Yields(QueryOf(proc[p].step))
    <3>1. proc[p].answer \cap Unreadable = {}
      BY <2>1, PointsOfWork, ObjectsAssumption DEF TypeOK, Writing, Readable, Unreadable
    <3> QED
      BY <2>1, <3>1 DEF TablesInv, AnswersFit
  <2>3. CASE QueryOf(proc[p].step) = "boundaries"
    <3>1. proc[p].seen = BoundariesOf(DOMAIN stored') /\ Relocated(p) \subseteq proc[p].moved
      BY <2>1, <2>3 DEF TablesInv, QuietInv, HasReadCurrent, Visible
    <3>2. o \notin proc[p].answer
      BY <2>2, <2>3 DEF Yields
    <3>3. o \in Relocated(p)
      BY <2>1, <3>2 DEF Relocated
    <3> QED
      BY <2>1, <3>1, <3>3
  <2>4. CASE QueryOf(proc[p].step) = "institutions"
    <3>1. proc[p].seen = BoundariesOf(DOMAIN stored)
      BY <2>1, <2>4 DEF TablesInv, QuietInv, HasReadCurrent
    <3>2. o \in proc[p].answer
      <4> DEFINE mine == {i \in InBox[RegionOf(proc[p].step)] :
                            Kind[i] \in Prunes(QueryOf(proc[p].step))}
      <4>1. DOMAIN stored' \cap mine = proc[p].answer \cap mine
        BY QuietCommit
      <4>2. o \in mine
        BY <2>4 DEF Prunes
      <4> QED
        BY <4>1, <4>2
    <3>3. BoundariesOf(DOMAIN stored') = BoundariesOf(DOMAIN stored)
      <4>1. \A a \in proc[p].answer \cup proc[p].gone : Kind[a] = "institution"
        BY <2>1, <2>2, <2>4 DEF Yields, Prunes, TablesInv, TransactionInv, DeletesOnlyOld
      <4> QED
        BY <2>1, <4>1 DEF BoundariesOf
    <3> QED
      BY <2>1, <3>1, <3>2, <3>3
  <2> QED
    BY <2>3, <2>4
<1> QED
  BY <1>1, TypeCorrect, TablesInvariant, RunInvariant, PTL DEF Spec, QuietTownsAreCurrent
=============================================================================
