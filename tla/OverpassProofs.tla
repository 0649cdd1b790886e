--------------------------- MODULE OverpassProofs ---------------------------
(* Theorems about Overpass, for every number of importers, regions and     *)
(* attempts and whatever the server says.                                  *)
EXTENDS Overpass, Induction, SequenceTheorems, FiniteSetTheorems

\* Every step of the loop is about a configured region and one of the queries.
LEMMA StepsAreKnown ==
  ASSUME NEW n \in Steps
  PROVE  RegionOf(n) \in Regions /\ QueryOf(n) \in QueryNames
<1> DEFINE L == Len(RegionOrder)
           Q == Len(Queries)
           k == (n - 1) \div Q
           m == (n - 1) % Q
<1>1. L \in Nat /\ Q \in Nat /\ Q > 0
  BY OverpassAssumption
<1>2. n \in 1..(L * Q)
  BY DEF Steps
<1>3. /\ k \in Int /\ k * Q <= n - 1 /\ n - 1 < (k + 1) * Q
      /\ m \in 0..(Q - 1)
  BY <1>1, <1>2
<1>4. k \in 0..(L - 1)
  <2> HIDE DEF L, Q, k, m
  <2>1. L * Q \in Nat
    BY <1>1
  <2>2. k >= 0
    <3>1. CASE k + 1 <= 0
      <4>1. (k + 1) * Q <= 0
        BY <1>1, <1>3, <3>1
      <4> QED
        BY <4>1, <1>2, <1>3, <2>1, <1>1
    <3> QED
      BY <3>1, <1>3
  <2>3. k < L
    <3>1. CASE k >= L
      <4>1. k * Q >= L * Q
        BY <1>1, <1>3, <3>1
      <4> QED
        BY <4>1, <1>2, <1>3, <2>1, <1>1
    <3> QED
      BY <3>1, <1>1, <1>3
  <2> QED
    BY <2>2, <2>3, <1>3, <1>1
<1> QED
  BY <1>1, <1>3, <1>4 DEF RegionOf, Regions, QueryOf, QueryNames

\* There is a first query.
LEMMA FirstStep == 1 \in Steps
<1>1. Len(RegionOrder) \in Nat \ {0} /\ Len(Queries) \in Nat \ {0}
  BY OverpassAssumption
<1>2. \A a, b \in Nat \ {0} : a * b \in Nat \ {0}
  OBVIOUS
<1> QED
  BY <1>1, <1>2 DEF Steps

\* What a record of an importer is like at each point, and a file.
Sound(w, s) ==
  IsProc(w, s) /\ Fits(w, s) /\ (s.pc = "import" => s.items = Items(s.answer))

SoundFile(w, q, f) == f \in {Absent, Torn} \/ (IsSaid(w, f) /\ SaidTo(w, q, f))

LEMMA IdleSound == \A w : Sound(w, Idle)
BY DEF Sound, IsProc, Fits, Idle

LEMMA BeginSound ==
  ASSUME NEW n \in Steps, NEW offline
  PROVE  \A w : Sound(w, Begin(n, offline))
BY OverpassAssumption DEF Sound, IsProc, Fits, Begin

\* What is said to a query is said.
LEMMA SaidIsSaid ==
  ASSUME NEW w, NEW n \in Steps, NEW a \in SaidFor(w, n)
  PROVE  /\ IsSaid(w, a) /\ SaidTo(w, QueryOf(n), a)
         /\ a # Torn /\ a # Absent
         /\ a.query = QueryOf(n)
BY StepsAreKnown DEF SaidFor, IsSaid, SaidTo, Answers, Torn, Absent

\* The inductive invariant.
Inv ==
  /\ world \in DOMAIN Worlds
  /\ cancelled \subseteq Importers
  /\ DOMAIN file = QueryNames
  /\ DOMAIN proc = Importers
  /\ \A q \in QueryNames : SoundFile(world, q, file[q])
  /\ \A p \in Importers : Sound(world, proc[p])

\* A step in which one importer goes on and no file changes.
LEMMA OneGoesOn ==
  ASSUME Inv, NEW p \in Importers, NEW s,
         Sound(world, s), proc' = [proc EXCEPT ![p] = s],
         world' = world, file' = file, cancelled' \subseteq Importers
  PROVE  Inv'
BY DEF Inv

\* Asking: nothing but the record of the importer changes.
LEMMA QueryStep ==
  ASSUME Inv, NEW p \in Importers,
         Answered(p) \/ Busy(p) \/ Refused(p) \/ Again(p)
  PROVE  Inv'
<1> DEFINE s == proc[p]
<1>1. Sound(world, s) /\ cancelled \subseteq Importers
  BY DEF Inv
<1>2. CASE Answered(p)
  <2>1. s.pc = "ask" /\ s.step \in Steps
    BY <1>1, <1>2 DEF Answered, Sound, IsProc
  <2>2. PICK a \in SaidFor(world, s.step) :
          proc' = [proc EXCEPT ![p] = [pc |-> "store", step |-> @.step, answer |-> a]]
    BY <1>2 DEF Answered, SaidFor
  <2> DEFINE x == [pc |-> "store", step |-> s.step, answer |-> a]
  <2>3. Sound(world, x)
    BY <2>1, <2>2, SaidIsSaid DEF Sound, IsProc, Fits
  <2>4. proc' = [proc EXCEPT ![p] = x]
    BY <2>2
  <2> QED
    BY <1>1, <1>2, <2>3, <2>4, OneGoesOn DEF Answered
<1>3. CASE Busy(p)
  <2> DEFINE x == [s EXCEPT !.pc = "again"]
  <2>1. Sound(world, x)
    BY <1>1, <1>3 DEF Busy, Sound, IsProc, Fits
  <2>2. proc' = [proc EXCEPT ![p] = x]
    BY <1>3 DEF Busy
  <2> QED
    BY <1>1, <1>3, <2>1, <2>2, OneGoesOn DEF Busy
<1>4. CASE Refused(p)
  BY <1>1, <1>4, IdleSound, OneGoesOn DEF Refused
<1>5. CASE Again(p)
  <2>1. s \in [pc : {"ask", "again"}, step : Steps, attempt : 1..Attempts]
    BY <1>1, <1>5 DEF Again, Sound, IsProc
  <2>2. Sound(world, AfterBusy(p))
    <3>1. CASE s.attempt = Attempts \/ p \in cancelled
      BY <3>1, IdleSound DEF AfterBusy
    <3>2. CASE ~(s.attempt = Attempts \/ p \in cancelled)
      <4> DEFINE x == [s EXCEPT !.pc = "ask", !.attempt = @ + 1]
      <4>1. AfterBusy(p) = x
        BY <3>2 DEF AfterBusy
      <4>2. s.attempt + 1 \in 1..Attempts
        BY <2>1, <3>2, OverpassAssumption
      <4>3. /\ x \in [pc : {"ask", "again"}, step : Steps, attempt : 1..Attempts]
            /\ x.pc = "ask"
        BY <2>1, <4>2
      <4> QED
        BY <4>1, <4>3 DEF Sound, IsProc, Fits
    <3> QED
      BY <3>1, <3>2
  <2> QED
    BY <1>1, <1>5, <2>2, OneGoesOn DEF Again
<1> QED
  BY <1>2, <1>3, <1>4, <1>5

\* An importer that is in the middle of a file, alone or not.
LEMMA InTheMiddle ==
  ASSUME NEW w, NEW s, IsProc(w, s), Fits(w, s), s.pc \in {"store", "write"}, NEW b \in BOOLEAN
  PROVE  Sound(w, [pc |-> "write", step |-> s.step, answer |-> s.answer, alone |-> b])
<1>1. s.step \in Steps /\ s.answer \in SaidFor(w, s.step) /\ IsSaid(w, s.answer)
  BY DEF IsProc, Fits
<1> QED
  BY <1>1 DEF Sound, IsProc, Fits

\* Writing the file: what was torn by it is Torn, and what is written is an
\* answer to the query whose file it is.
LEMMA FileStep ==
  ASSUME Inv, NEW p \in Importers, Truncate(p) \/ Write(p)
  PROVE  Inv'
<1> DEFINE s == proc[p]
<1>1. Sound(world, s)
  BY DEF Inv
<1>2. s.step \in Steps /\ s.answer \in SaidFor(world, s.step)
  BY <1>1 DEF Truncate, Write, Sound, IsProc, Fits
<1>3. IsSaid(world, s.answer) /\ SaidTo(world, QueryOf(s.step), s.answer)
  BY <1>2, SaidIsSaid
<1>4. CASE Truncate(p)
  <2> DEFINE q == FileOf(s.step)
             others == {o \in Importers \ {p} : Writes(o, q)}
             x(o) == [pc |-> "write", step |-> proc[o].step, answer |-> proc[o].answer,
                      alone |-> o = p /\ others = {}]
  <2>1. /\ world' = world /\ cancelled' = cancelled
        /\ file' = [file EXCEPT ![q] = Torn]
        /\ proc' = [o \in Importers |-> IF o = p \/ o \in others THEN x(o) ELSE proc[o]]
    BY <1>4 DEF Truncate
  <2>2. ASSUME NEW o \in Importers, o = p \/ o \in others
        PROVE  Sound(world, x(o))
    <3>1. Sound(world, proc[o]) /\ proc[o].pc \in {"store", "write"}
      BY <2>2, <1>4 DEF Inv, Writes, Truncate
    <3> QED
      BY <3>1, InTheMiddle DEF Sound
  <2> HIDE DEF x
  <2>4. \A o \in Importers : Sound(world, proc'[o])
    BY <2>1, <2>2 DEF Inv
  <2>5. \A r \in QueryNames : SoundFile(world, r, file'[r])
    BY <2>1 DEF Inv, SoundFile
  <2>6. DOMAIN proc' = Importers
    BY <2>1
  <2> QED
    BY <2>1, <2>4, <2>5, <2>6 DEF Inv
<1>5. CASE Write(p)
  <2> DEFINE x == [pc |-> "use", step |-> s.step, answer |-> s.answer, offline |-> FALSE]
  <2>1. PICK content \in Written(p) : file' = [file EXCEPT ![FileOf(s.step)] = content]
    BY <1>5 DEF Write
  <2>2. /\ world' = world /\ cancelled' = cancelled
        /\ proc' = [proc EXCEPT ![p] = x]
    BY <1>5 DEF Write
  <2>3. Sound(world, x)
    BY <1>2, <1>3 DEF Sound, IsProc, Fits
  <2>4. \A o \in Importers : Sound(world, proc'[o])
    BY <2>2, <2>3 DEF Inv
  <2>5. SoundFile(world, FileOf(s.step), content)
    BY <1>3, <2>1 DEF Written, SoundFile, FileOf
  <2>6. \A r \in QueryNames : SoundFile(world, r, file'[r])
    BY <2>1, <2>5 DEF Inv
  <2> QED
    BY <2>1, <2>2, <2>4, <2>6 DEF Inv
<1> QED
  BY <1>4, <1>5

\* Reading a file and using what is in it.
LEMMA UseStep ==
  ASSUME Inv, NEW p \in Importers,
         NoStore(p) \/ Read(p) \/ Parse(p) \/ Import(p) \/ Fail(p)
  PROVE  Inv'
<1> DEFINE s == proc[p]
<1>1. Sound(world, s) /\ cancelled \subseteq Importers
  BY DEF Inv
<1>2. CASE NoStore(p) \/ Fail(p)
  BY <1>1, <1>2, IdleSound, OneGoesOn DEF NoStore, Fail
<1>3. CASE Read(p)
  <2>1. s.step \in Steps /\ QueryOf(s.step) \in QueryNames
    BY <1>1, <1>3, StepsAreKnown DEF Read, Sound, IsProc
  <2> DEFINE f == file[FileOf(s.step)]
             x == [pc |-> "use", step |-> s.step, answer |-> f, offline |-> TRUE]
  <2>2. SoundFile(world, QueryOf(s.step), f)
    BY <2>1 DEF Inv, FileOf
  <2>3. f # Absent => Sound(world, x)
    BY <2>1, <2>2 DEF SoundFile, Sound, IsProc, Fits
  <2>4. proc' = [proc EXCEPT ![p] = IF f = Absent THEN Idle ELSE x]
    BY <1>3 DEF Read
  <2>5. Sound(world, IF f = Absent THEN Idle ELSE x)
    BY <2>3, IdleSound
  <2> QED
    BY <1>1, <1>3, <2>4, <2>5, OneGoesOn DEF Read
<1>4. CASE Parse(p)
  <2> DEFINE x == [pc |-> "import", step |-> s.step, answer |-> s.answer,
                   offline |-> s.offline, items |-> Items(s.answer)]
  <2>1. s.answer # Torn => Sound(world, x)
    <3>1. /\ s.step \in Steps /\ s.offline \in BOOLEAN
          /\ s.answer # Torn => /\ IsSaid(world, s.answer)
                                /\ SaidTo(world, QueryOf(s.step), s.answer)
      BY <1>1, <1>4 DEF Parse, Sound, IsProc, Fits
    <3>2. ~s.offline => s.answer \in SaidFor(world, s.step)
      BY <1>1, <1>4 DEF Parse, Sound, Fits
    <3> QED
      BY <3>1, <3>2 DEF Sound, IsProc, Fits
  <2>2. proc' = [proc EXCEPT ![p] = IF s.answer # Torn THEN x ELSE Idle]
    BY <1>4 DEF Parse
  <2>3. Sound(world, IF s.answer # Torn THEN x ELSE Idle)
    BY <2>1, IdleSound
  <2> QED
    BY <1>1, <1>4, <2>2, <2>3, OneGoesOn DEF Parse
<1>5. CASE Import(p)
  <2> DEFINE x == IF s.step + 1 \in Steps THEN Begin(s.step + 1, s.offline) ELSE Idle
  <2>1. Sound(world, x)
    BY IdleSound, BeginSound
  <2>2. proc' = [proc EXCEPT ![p] = x]
    BY <1>5 DEF Import
  <2> HIDE DEF x
  <2> QED
    BY <1>1, <1>5, <2>1, <2>2, OneGoesOn DEF Import
<1> QED
  BY <1>2, <1>3, <1>4, <1>5

\* The invariant holds from the start ...
LEMMA InvInit == Init => Inv
BY IdleSound DEF Init, Inv, SoundFile, Absent

\* ... and after every step.
LEMMA InvNext == Inv /\ [Next]_vars => Inv'
<1> SUFFICES ASSUME Inv, [Next]_vars PROVE Inv'
  OBVIOUS
<1>1. CASE UNCHANGED vars
  BY <1>1 DEF Inv, vars
<1>2. ASSUME NEW p \in Importers, Launch(p)
      PROVE  Inv'
  <2>1. PICK offline \in BOOLEAN : proc' = [proc EXCEPT ![p] = Begin(1, offline)]
    BY <1>2 DEF Launch
  <2>2. cancelled' \subseteq Importers
    BY <1>2 DEF Launch, Inv
  <2>3. Sound(world, Begin(1, offline))
    BY FirstStep, BeginSound
  <2> QED
    BY <1>2, <2>1, <2>2, <2>3, OneGoesOn DEF Launch
<1>3. ASSUME NEW p \in Importers, Work(p)
      PROVE  Inv'
  BY <1>3, QueryStep, FileStep, UseStep DEF Work
<1>4. ASSUME NEW p \in Importers, Cancel(p)
      PROVE  Inv'
  BY <1>4 DEF Cancel, Inv
<1>5. ASSUME NEW p \in Importers, Die(p)
      PROVE  Inv'
  <2>1. cancelled' \subseteq Importers
    BY <1>5 DEF Die, Inv
  <2> QED
    BY <1>5, <2>1, IdleSound, OneGoesOn DEF Die
<1> QED
  BY <1>1, <1>2, <1>3, <1>4, <1>5 DEF Next

LEMMA InvHolds == Spec => []Inv
BY InvInit, InvNext, PTL DEF Spec

\* No query is tried more than Attempts times, and the other types.
THEOREM TypeCorrect == Spec => []TypeOK
<1>1. Inv => TypeOK
  BY DEF Inv, TypeOK, SoundFile, Sound
<1> QED
  BY <1>1, InvHolds, PTL

\* Files and importers hold what the server said to the query of that name,
\* for any number of regions.
THEOREM CacheHolds == Spec => []CacheInv
<1>1. Inv => CacheInv
  BY DEF Inv, CacheInv, SoundFile, Sound
<1> QED
  BY <1>1, InvHolds, PTL

\* What is imported was said to the query of that name, whoever wrote the file
\* at the same time or died while it did.
THEOREM QueryReplayed == Spec => []ImportedForTheQuery
<1>1. Inv => ImportedForTheQuery
  BY DEF Inv, ImportedForTheQuery, Sound, Fits
<1> QED
  BY <1>1, InvHolds, PTL

\* What is imported online was said to the query for that region, for any number
\* of regions that share the files and of importers that write them.
THEOREM OnlineImported == Spec => []OnlineAsAsked
<1>1. Inv => OnlineAsAsked
  BY DEF Inv, OnlineAsAsked, Sound, Fits, SaidFor
<1> QED
  BY <1>1, InvHolds, PTL

\* With one region, as regions.yaml has it, it was said to the query for that
\* region.
THEOREM RegionReplayed ==
  ASSUME Len(RegionOrder) = 1
  PROVE  Spec => []ImportedAsAsked
<1>1. \A n \in Steps : RegionOf(n) = RegionOrder[1]
  BY StepsAreKnown DEF Regions
<1>2. Inv => ImportedAsAsked
  <2> SUFFICES ASSUME Inv, NEW p \in Importers, proc[p].pc = "import"
               PROVE  proc[p].answer \in
                        Answers(world, RegionOf(proc[p].step), QueryOf(proc[p].step))
    BY DEF ImportedAsAsked
  <2>1. proc[p].step \in Steps /\ SaidTo(world, QueryOf(proc[p].step), proc[p].answer)
    BY DEF Inv, Sound, IsProc, Fits
  <2> QED
    BY <1>1, <2>1 DEF SaidTo, SaidFor
<1> QED
  BY <1>2, InvHolds, PTL

-----------------------------------------------------------------------------
(* The choice between mappings                                             *)

\* Among any mappings with numbers for ids there is one that no other is
\* better than.
LEMMA SomeIsBest ==
  ASSUME NEW S, S # {}, \A i \in S : i.id \in Nat
  PROVE  \E b \in S : \A i \in S : ~better(i, b)
<1> DEFINE worse(i) == 3 - rank(i)
           R == {worse(i) : i \in S}
<1>1. \A i \in S : rank(i) \in 0..3
  BY DEF rank
<1>2. PICK r \in R : \A k \in R : r <= k
  <2>1. R \in SUBSET Nat /\ R # {}
    BY <1>1
  <2> QED
    BY <2>1, LeastNumber
<1> DEFINE J == {i.id : i \in {j \in S : worse(j) = r}}
<1>3. PICK m \in J : \A k \in J : m <= k
  <2>1. J \in SUBSET Nat /\ J # {}
    BY <1>2
  <2> QED
    BY <2>1, LeastNumber
<1>4. PICK b \in S : worse(b) = r /\ b.id = m
  BY <1>3
<1>5. ASSUME NEW i \in S, better(i, b) PROVE FALSE
  <2>1. worse(b) <= worse(i)
    BY <1>2, <1>4
  <2>2. rank(i) = rank(b) /\ i.id < b.id
    BY <1>1, <1>5, <2>1 DEF better
  <2>3. b.id <= i.id
    BY <1>3, <1>4, <2>2
  <2> QED
    BY <2>2, <2>3, <1>4
<1> QED
  BY <1>5

\* Whatever the mappings and wherever they lie, there is at most one choice of
\* those to keep, so what an answer yields does not depend on its order.
THEOREM ChoiceIsUnique ==
  ASSUME NEW all, \A i \in all : i.id \in Nat,
         NEW one, NEW other, IsBestOf(one, all), IsBestOf(other, all)
  PROVE  one = other
<1> DEFINE D == (one \ other) \cup (other \ one)
<1>1. one \subseteq all /\ other \subseteq all
  BY DEF IsBestOf
<1>2. SUFFICES ASSUME D # {} PROVE FALSE
  OBVIOUS
<1>3. PICK b \in D : \A i \in D : ~better(i, b)
  BY <1>1, <1>2, SomeIsBest
<1>4. CASE b \in one
  <2>1. PICK i \in other : better(i, b) /\ supersedes(i, b)
    BY <1>1, <1>3, <1>4 DEF IsBestOf
  <2>2. i \in one
    BY <1>3, <2>1
  <2> QED
    BY <1>1, <1>4, <2>1, <2>2 DEF IsBestOf
<1>5. CASE b \in other
  <2>1. PICK i \in one : better(i, b) /\ supersedes(i, b)
    BY <1>1, <1>3, <1>5 DEF IsBestOf
  <2>2. i \in other
    BY <1>3, <2>1
  <2> QED
    BY <1>1, <1>5, <2>1, <2>2 DEF IsBestOf
<1> QED
  BY <1>3, <1>4, <1>5
-----------------------------------------------------------------------------
(* The loops of ParseInstitutions, of the sort and of deduplicate, for an  *)
(* answer of any length                                                    *)

\* The members of a sequence are those of ToSet.
LEMMA Members ==
  ASSUME NEW S, NEW s \in Seq(S)
  PROVE  /\ ToSet(s) = {s[i] : i \in 1..Len(s)} /\ ToSet(s) \subseteq S
         /\ s \in Seq(ToSet(s)) /\ Len(s) \in Nat
         /\ \A i \in 1..Len(s) : s[i] \in ToSet(s)
<1>1. DOMAIN s = 1..Len(s) /\ Len(s) \in Nat /\ s \in [1..Len(s) -> S]
  BY LenProperties
<1>2. ToSet(s) = {s[i] : i \in 1..Len(s)}
  BY <1>1 DEF ToSet
<1>3. s \in [1..Len(s) -> ToSet(s)]
  BY <1>1, <1>2
<1> QED
  BY <1>1, <1>2, <1>3

\* Append adds one member.
LEMMA AppendedSet ==
  ASSUME NEW S, NEW s \in Seq(S), NEW e \in S
  PROVE  ToSet(Append(s, e)) = ToSet(s) \cup {e}
<1>1. Len(s) \in Nat /\ ToSet(s) = {s[i] : i \in 1..Len(s)}
  BY Members
<1>2. /\ Append(s, e) \in Seq(S) /\ Len(Append(s, e)) = Len(s) + 1
      /\ \A i \in 1..Len(s) : Append(s, e)[i] = s[i]
      /\ Append(s, e)[Len(s) + 1] = e
  BY AppendProperties
<1>3. ToSet(Append(s, e)) = {Append(s, e)[i] : i \in 1..(Len(s) + 1)}
  BY <1>2, Members
<1>4. 1..(Len(s) + 1) = 1..Len(s) \cup {Len(s) + 1}
  BY <1>1
<1> QED
  BY <1>1, <1>2, <1>3, <1>4

\* A part of an answer is as sound as the answer.
LEMMA PartOfAnswer ==
  ASSUME NEW body, IsAnswer(body), NEW s \in Seq(ToSet(body))
  PROVE  IsAnswer(s)
<1>1. ToSet(s) \subseteq ToSet(body) /\ s \in Seq(ToSet(s))
  BY Members
<1> QED
  BY <1>1 DEF IsAnswer

\* ParseInstitutions keeps the institutions of the answer.
LEMMA InstitutionsArePart ==
  ASSUME NEW body, IsAnswer(body)
  PROVE  /\ Institutions(body) \in Seq(ToSet(body))
         /\ ToSet(Institutions(body)) = {e \in ToSet(body) : IsInstitution(e)}
<1> DEFINE N == Len(body)
           R == ToSet(body)
           T == Seq(R)
           none == <<>>
           step == [n \in 1..N |->
                      [s \in T |-> IF IsInstitution(body[n]) THEN Append(s, body[n]) ELSE s]]
           IsLoop(all) == all = [n \in 0..N |->
              IF n = 0 THEN none
              ELSE IF IsInstitution(body[n]) THEN Append(all[n - 1], body[n]) ELSE all[n - 1]]
           loop == CHOOSE all : IsLoop(all)
<1>1. N \in Nat /\ \A n \in 1..N : body[n] \in R
  BY Members DEF IsAnswer
<1>2. none \in T /\ step \in Turns(N, T)
  <2>1. \A s \in T, e \in R : Append(s, e) \in T
    OBVIOUS
  <2>2. none \in T
    OBVIOUS
  <2> HIDE DEF N, R, T, none
  <2> QED
    BY <1>1, <2>1, <2>2 DEF Turns
<1>3. Institutions(body) = loop[N]
  BY Zenon DEF Institutions
<1>4. \A n \in 1..N : n - 1 \in 0..N
  BY <1>1
<1>5. \E f : IsLoop(f)
  <2> HIDE DEF N, R, T, step, none
  <2>1. PICK f : IsRun(f, N, T, none, step)
    BY <1>1, <1>2, RecursionExists
  <2>2. \A n \in 1..N : f[n - 1] \in T
    BY <1>4, <2>1 DEF IsRun
  <2>3. \A n \in 1..N, s \in T :
          step[n][s] = IF IsInstitution(body[n]) THEN Append(s, body[n]) ELSE s
    BY DEF step
  <2>4. f = [n \in 0..N |-> f[n]] /\ \A n \in 0..N : n # 0 => n \in 1..N
    BY <1>1, <2>1 DEF IsRun
  <2>5. IsLoop(f)
    BY <2>1, <2>2, <2>3, <2>4 DEF IsRun
  <2> HIDE DEF IsLoop
  <2> QED
    BY <2>5
<1>6. IsLoop(loop)
  BY <1>5
<1>7. /\ loop[0] = none
      /\ \A n \in 1..N :
           loop[n] = IF IsInstitution(body[n]) THEN Append(loop[n - 1], body[n]) ELSE loop[n - 1]
  <2> HIDE DEF loop, N, T, none
  <2>1. loop[0] = none
    BY <1>1, <1>6
  <2>2. \A n \in 1..N : n \in 0..N /\ n # 0
    BY <1>1
  <2>3. \A n \in 1..N :
          loop[n] = IF IsInstitution(body[n]) THEN Append(loop[n - 1], body[n]) ELSE loop[n - 1]
    BY <1>6, <2>2
  <2> QED
    BY <2>1, <2>3
<1>8. \A n \in 0..N : loop[n] \in T
  <2> HIDE DEF loop, N, R, T, none
  <2>1. \A n \in 1..N : loop[n - 1] \in T => loop[n] = step[n][loop[n - 1]]
    BY <1>7
  <2> HIDE DEF step
  <2> QED
    BY <1>1, <1>2, <1>7, <2>1, RecursionStays
<1> HIDE DEF loop, N, R, IsLoop, step
<1> DEFINE Seen(n) == {e \in R : IsInstitution(e) /\ \E m \in 1..n : e = body[m]}
<1>9. \A n \in 0..N : ToSet(loop[n]) = Seen(n)
  <2> DEFINE S == {n \in Nat : n <= N => ToSet(loop[n]) = Seen(n)}
  <2>1. 0 \in S
    <3>1. none \in Seq(R) /\ Len(none) = 0
      OBVIOUS
    <3>2. ToSet(none) = {none[m] : m \in 1..Len(none)}
      BY <3>1, Members
    <3>3. 1..0 = {} /\ Seen(0) = {}
      OBVIOUS
    <3> HIDE DEF none
    <3> QED
      BY <1>7, <3>1, <3>2, <3>3
  <2>2. ASSUME NEW n \in S PROVE n + 1 \in S
    <3>1. CASE n + 1 <= N
      <4>1. n + 1 \in 1..N /\ (n + 1) - 1 = n /\ n \in 0..N
        BY <1>1, <3>1
      <4> DEFINE e == body[n + 1]
                 s == loop[n]
      <4>2. e \in R /\ s \in Seq(R) /\ ToSet(s) = Seen(n)
        BY <1>1, <1>8, <4>1
      <4>3. loop[n + 1] = IF IsInstitution(e) THEN Append(s, e) ELSE s
        BY <1>7, <4>1
      <4>4. \A m \in 1..(n + 1) : m \in 1..n \/ m = n + 1
        OBVIOUS
      <4>5. \A m \in 1..n : m \in 1..(n + 1)
        OBVIOUS
      <4>6. n + 1 \in 1..(n + 1)
        OBVIOUS
      <4>7. Seen(n + 1) = IF IsInstitution(e) THEN Seen(n) \cup {e} ELSE Seen(n)
        BY <4>2, <4>4, <4>5, <4>6
      <4>8. ToSet(Append(s, e)) = ToSet(s) \cup {e}
        BY <4>2, AppendedSet
      <4>9. ToSet(loop[n + 1]) = Seen(n + 1)
        <5> HIDE DEF e, s, Seen
        <5> QED
          BY <4>2, <4>3, <4>7, <4>8
      <4> HIDE DEF Seen
      <4> QED
        BY <4>9
    <3> QED
      BY <3>1
  <2>3. S \in SUBSET Nat
    OBVIOUS
  <2>4. ASSUME NEW n \in 0..N PROVE n \in S
    <3> HIDE DEF S
    <3>1. n \in Nat
      BY <1>1
    <3> QED
      BY <2>1, <2>2, <2>3, <3>1, SetInduction
  <2>5. \A n \in 0..N : n <= N
    BY <1>1
  <2> QED
    BY <2>4, <2>5
<1>10. N \in 0..N
  BY <1>1
<1>11. Seen(N) = {e \in R : IsInstitution(e)}
  <2>1. R = {body[m] : m \in 1..N}
    BY Members DEF R, N, IsAnswer
  <2> QED
    BY <2>1
<1>12. loop[N] \in Seq(R) /\ ToSet(loop[N]) = Seen(N)
  BY <1>8, <1>9, <1>10
<1> HIDE DEF Seen
<1> QED
  BY <1>3, <1>11, <1>12 DEF R

\* No mapping is better than one behind it.
Sorted(s) == \A i, j \in 1..Len(s) : i < j => ~better(s[j], s[i])

\* better orders the mappings of an answer, ties apart: two that are as good as
\* each other and both named, are one.
LEMMA BetterOrders ==
  ASSUME NEW body, IsAnswer(body)
  PROVE  /\ \A a, b \in ToSet(body) : better(a, b) => ~better(b, a)
         /\ \A a, b, c \in ToSet(body) : ~better(a, b) /\ ~better(b, c) => ~better(a, c)
         /\ \A a, b \in ToSet(body) :
              better(a, b) \/ better(b, a) \/ a = b \/ (rank(a) = 0 /\ rank(b) = 0)
         /\ \A a \in ToSet(body) : rank(a) = 0 <=> a.name = ""
<1>1. ASSUME NEW a \in ToSet(body)
      PROVE  rank(a) \in 0..3 /\ (rank(a) = 0 <=> a.name = "")
  <2>1. CASE a.name = ""
    <3>1. rank(a) = 0
      BY <2>1 DEF rank
    <3>2. rank(a) \in 0..3
      BY <3>1
    <3>3. rank(a) = 0 <=> a.name = ""
      BY <2>1, <3>1
    <3> QED
      BY <3>2, <3>3
  <2>2. CASE a.name # "" /\ a.type = "relation"
    <3>1. rank(a) = 3
      BY <2>2 DEF rank
    <3>2. rank(a) \in 0..3
      BY <3>1
    <3>3. rank(a) # 0
      BY <3>1
    <3> QED
      BY <2>2, <3>2, <3>3
  <2>3. CASE a.name # "" /\ a.type = "way"
    <3>1. rank(a) = 2
      BY <2>3 DEF rank
    <3>2. rank(a) \in 0..3
      BY <3>1
    <3>3. rank(a) # 0
      BY <3>1
    <3> QED
      BY <2>3, <3>2, <3>3
  <2>4. CASE a.name # "" /\ a.type = "node"
    <3>1. rank(a) = 1
      BY <2>4 DEF rank
    <3>2. rank(a) \in 0..3
      BY <3>1
    <3>3. rank(a) # 0
      BY <3>1
    <3> QED
      BY <2>4, <3>2, <3>3
  <2> QED
    BY <2>1, <2>2, <2>3, <2>4 DEF IsAnswer
<1>2. ASSUME NEW a \in ToSet(body), NEW b \in ToSet(body), rank(a) = rank(b), rank(a) # 0
      PROVE  a.type = b.type
  <2>1. ASSUME NEW e \in ToSet(body), rank(e) # 0
        PROVE  \/ e.type = "relation" /\ rank(e) = 3
               \/ e.type = "way" /\ rank(e) = 2
               \/ e.type = "node" /\ rank(e) = 1
    <3>1. e.name # "" /\ e.type \in {"node", "way", "relation"}
      BY <1>1, <2>1 DEF IsAnswer
    <3>2. CASE e.type = "relation"
      BY <3>1, <3>2 DEF rank
    <3>3. CASE e.type = "way"
      BY <3>1, <3>3 DEF rank
    <3>4. CASE e.type = "node"
      BY <3>1, <3>4 DEF rank
    <3> QED
      BY <3>1, <3>2, <3>3, <3>4
  <2> QED
    BY <1>2, <2>1
<1>3. \A a, b \in ToSet(body) : a.type = b.type /\ a.id = b.id => a = b
  BY DEF IsAnswer
<1>4. \A a \in ToSet(body) : a.id \in Nat /\ rank(a) \in Nat
  <2>1. \A a \in ToSet(body) : rank(a) \in 0..3
    BY <1>1
  <2> QED
    BY <2>1 DEF IsAnswer
<1>5. ASSUME NEW a \in ToSet(body), NEW b \in ToSet(body), better(a, b) PROVE ~better(b, a)
  BY <1>4, <1>5 DEF better
<1>6. ASSUME NEW a \in ToSet(body), NEW b \in ToSet(body), NEW c \in ToSet(body),
             ~better(a, b), ~better(b, c)
      PROVE  ~better(a, c)
  BY <1>4, <1>6 DEF better
<1>7. ASSUME NEW a \in ToSet(body), NEW b \in ToSet(body), ~better(a, b), ~better(b, a),
             rank(a) # 0 \/ rank(b) # 0
      PROVE  a = b
  <2>1. rank(a) = rank(b) /\ a.id = b.id
    BY <1>4, <1>7 DEF better
  <2> QED
    BY <1>2, <1>3, <1>7, <2>1
<1> QED
  BY <1>1, <1>5, <1>6, <1>7

\* A mapping that supersedes another and does not come after it is the better one.
LEMMA SupersedesIsBetter ==
  ASSUME NEW body, IsAnswer(body), NEW a \in ToSet(body), NEW b \in ToSet(body),
         supersedes(a, b), ~better(b, a), a # b
  PROVE  better(a, b)
<1>1. a.name \in DOMAIN Folded /\ b.name \in DOMAIN Folded
  BY DEF IsAnswer
<1>2. a.name # ""
  BY <1>1, FoldedAssumption DEF supersedes
<1>3. rank(a) # 0
  BY <1>2, BetterOrders
<1> QED
  BY <1>3, BetterOrders

\* What one turn of the loop of deduplicate makes of the kept ones.
KeptNext(kept, c) ==
  IF \E other \in kept : supersedes(other, c) THEN kept ELSE kept \cup {c}

\* The loop of deduplicate.
LEMMA SurvivorsLoop ==
  ASSUME NEW R, NEW order \in Seq(R)
  PROVE  \E kept \in [0..Len(order) -> SUBSET R] :
           /\ kept[0] = {}
           /\ \A n \in 1..Len(order) : kept[n] = KeptNext(kept[n - 1], order[n])
           /\ Survivors(order) = kept[Len(order)]
<1> DEFINE N == Len(order)
           T == SUBSET R
           none == {}
           step == [n \in 1..N |-> [K \in T |-> KeptNext(K, order[n])]]
           IsLoop(kept) == kept = [n \in 0..N |->
              IF n = 0 THEN none
              ELSE IF \E other \in kept[n - 1] : supersedes(other, order[n]) THEN kept[n - 1]
                   ELSE kept[n - 1] \cup {order[n]}]
           loop == CHOOSE kept : IsLoop(kept)
<1>1. N \in Nat /\ \A n \in 1..N : order[n] \in R
  BY Members
<1>2. none \in T /\ step \in Turns(N, T)
  <2>1. \A K \in T, c \in R : KeptNext(K, c) \in T
    BY DEF KeptNext
  <2> HIDE DEF T
  <2> QED
    BY <1>1, <2>1 DEF Turns, T
<1>3. Survivors(order) = loop[N]
  BY Zenon DEF Survivors
<1>4. \A n \in 1..N : n - 1 \in 0..N
  BY <1>1
<1>5. \E f : IsLoop(f)
  <2> HIDE DEF N, T, step, none
  <2>1. PICK f : IsRun(f, N, T, none, step)
    BY <1>1, <1>2, RecursionExists
  <2>2. \A n \in 1..N : f[n - 1] \in T
    BY <1>4, <2>1 DEF IsRun
  <2>3. \A n \in 1..N, K \in T :
          step[n][K] = IF \E other \in K : supersedes(other, order[n]) THEN K
                       ELSE K \cup {order[n]}
    BY DEF step, KeptNext
  <2>4. f = [n \in 0..N |-> f[n]] /\ \A n \in 0..N : n # 0 => n \in 1..N
    BY <1>1, <2>1 DEF IsRun
  <2>5. IsLoop(f)
    BY <2>1, <2>2, <2>3, <2>4 DEF IsRun
  <2> HIDE DEF IsLoop
  <2> QED
    BY <2>5
<1>6. IsLoop(loop)
  BY <1>5
<1>7. /\ loop = [n \in 0..N |-> loop[n]]
      /\ loop[0] = none
      /\ \A n \in 1..N : loop[n] = KeptNext(loop[n - 1], order[n])
  <2> HIDE DEF loop, N, T, none
  <2>1. loop[0] = none
    BY <1>1, <1>6
  <2>2. \A n \in 1..N : n \in 0..N /\ n # 0
    BY <1>1
  <2>3. \A n \in 1..N :
          loop[n] = IF \E other \in loop[n - 1] : supersedes(other, order[n]) THEN loop[n - 1]
                    ELSE loop[n - 1] \cup {order[n]}
    BY <1>6, <2>2
  <2>4. loop = [n \in 0..N |-> loop[n]]
    BY <1>6
  <2> QED
    BY <2>1, <2>3, <2>4 DEF KeptNext
<1>8. \A n \in 0..N : loop[n] \in T
  <2> HIDE DEF loop, N, T, none
  <2>1. \A n \in 1..N : loop[n - 1] \in T => loop[n] = step[n][loop[n - 1]]
    BY <1>7
  <2> HIDE DEF step
  <2> QED
    BY <1>1, <1>2, <1>7, <2>1, RecursionStays
<1> QED
  <2> HIDE DEF loop, N, T
  <2>1. loop \in [0..N -> T]
    BY <1>7, <1>8
  <2> QED
    BY <1>3, <1>7, <2>1 DEF N, T

\* What deduplicate keeps of a sorted list is its best.
LEMMA SurvivorsAreBest ==
  ASSUME NEW order, IsAnswer(order), Sorted(order)
  PROVE  IsBestOf(Survivors(order), ToSet(order))
<1> DEFINE N == Len(order)
           R == ToSet(order)
<1>1. /\ order \in Seq(R) /\ N \in Nat /\ R = {order[n] : n \in 1..N}
      /\ \A n \in 1..N : order[n] \in R
  BY Members DEF IsAnswer
<1>2. PICK kept \in [0..N -> SUBSET R] :
        /\ kept[0] = {}
        /\ \A n \in 1..N : kept[n] = KeptNext(kept[n - 1], order[n])
        /\ Survivors(order) = kept[N]
  BY <1>1, SurvivorsLoop
<1> HIDE DEF N, R
<1>3. ASSUME NEW m \in 0..N, NEW n \in 0..N, m <= n PROVE kept[m] \subseteq kept[n]
  <2> DEFINE S == {k \in Nat : m + k <= N => kept[m] \subseteq kept[m + k]}
  <2>1. 0 \in S
    BY <1>1
  <2>2. ASSUME NEW k \in S PROVE k + 1 \in S
    <3>1. CASE m + (k + 1) <= N
      <4>1. m + (k + 1) \in 1..N /\ (m + (k + 1)) - 1 = m + k /\ m + k <= N
        BY <1>1, <3>1
      <4>2. kept[m + (k + 1)] = KeptNext(kept[m + k], order[m + (k + 1)])
        BY <1>2, <4>1
      <4>3. kept[m + k] \subseteq kept[m + (k + 1)]
        BY <4>2 DEF KeptNext
      <4> QED
        BY <4>1, <4>3
    <3> QED
      BY <3>1
  <2>3. S \in SUBSET Nat
    OBVIOUS
  <2>4. n - m \in Nat /\ m + (n - m) = n /\ n <= N
    BY <1>1, <1>3
  <2>5. n - m \in S
    <3> HIDE DEF S
    <3> QED
      BY <2>1, <2>2, <2>3, <2>4, SetInduction
  <2> QED
    BY <2>4, <2>5
<1>4. ASSUME NEW e \in kept[N]
      PROVE  \E n \in 1..N : e = order[n] /\ e \in kept[n]
                             /\ ~\E other \in kept[n - 1] : supersedes(other, e)
  <2> DEFINE S == {n \in 0..N : e \in kept[n]}
  <2>1. S \in SUBSET Nat /\ N \in S
    BY <1>1
  <2>2. PICK n \in S : \A k \in S : n <= k
    <3> HIDE DEF S
    <3> QED
      BY <2>1, LeastNumber
  <2>3. n \in 1..N /\ n - 1 \in 0..N
    BY <1>1, <1>2, <2>2
  <2>4. e \notin kept[n - 1]
    BY <2>2, <2>3
  <2>5. kept[n] = KeptNext(kept[n - 1], order[n]) /\ e \in kept[n]
    BY <1>2, <2>3
  <2>6. e = order[n] /\ ~\E other \in kept[n - 1] : supersedes(other, order[n])
    BY <2>4, <2>5 DEF KeptNext
  <2> QED
    BY <2>3, <2>5, <2>6
<1>5. kept[N] \subseteq R
  BY <1>1, <1>2
<1>6. ASSUME NEW c \in R, c \notin kept[N]
      PROVE  \E other \in kept[N] : better(other, c) /\ supersedes(other, c)
  <2>1. PICK m \in 1..N : c = order[m]
    BY <1>1
  <2>2. m \in 0..N /\ m - 1 \in 0..N /\ N \in 0..N /\ m <= N /\ m - 1 <= N /\ m - 1 < m
    BY <1>1
  <2>3. c \notin kept[m]
    BY <1>3, <1>6, <2>2
  <2>4. PICK other \in kept[m - 1] : supersedes(other, c)
    BY <1>2, <2>1, <2>3 DEF KeptNext
  <2>5. other \in kept[N]
    BY <1>3, <2>2, <2>4
  <2>6. PICK l \in 1..N : other = order[l] /\ l < m
    <3> DEFINE S == {n \in 0..N : other \in kept[n]}
    <3>1. PICK l \in S : \A k \in S : l <= k
      <4>1. S \in SUBSET Nat /\ m - 1 \in S
        BY <1>1, <2>2
      <4> HIDE DEF S
      <4> QED
        BY <4>1, LeastNumber
    <3>2. l \in 1..N /\ l - 1 \in 0..N /\ l < m
      BY <1>1, <1>2, <2>2, <3>1
    <3>3. other \notin kept[l - 1] /\ other \in kept[l]
      BY <3>1, <3>2
    <3>4. kept[l] = KeptNext(kept[l - 1], order[l])
      BY <1>2, <3>2
    <3>5. other = order[l]
      BY <3>3, <3>4 DEF KeptNext
    <3> QED
      BY <3>2, <3>5
  <2>7. ~better(c, other)
    BY <2>1, <2>6 DEF Sorted, N
  <2>8. other # c /\ other \in R
    BY <1>5, <1>6, <2>5
  <2>9. better(other, c)
    BY <2>4, <2>7, <2>8, SupersedesIsBetter DEF R
  <2> QED
    BY <2>4, <2>5, <2>9
<1>7. ASSUME NEW c \in kept[N], NEW other \in kept[N], better(other, c), supersedes(other, c)
      PROVE  FALSE
  <2>1. PICK n \in 1..N : c = order[n] /\ ~\E o \in kept[n - 1] : supersedes(o, c)
    BY <1>4
  <2>2. PICK m \in 1..N : other = order[m] /\ other \in kept[m]
    BY <1>4
  <2>3. c \in R /\ other \in R
    BY <1>5
  <2>4. ~better(c, other) /\ c # other
    BY <1>7, <2>3, BetterOrders DEF R
  <2>5. ~(n < m)
    BY <1>7, <2>1, <2>2 DEF Sorted, N
  <2>6. m # n
    BY <2>1, <2>2, <2>4
  <2>7. m \in 0..N /\ n - 1 \in 0..N /\ m <= n - 1
    BY <1>1, <2>5, <2>6
  <2>8. other \in kept[n - 1]
    BY <1>3, <2>2, <2>7
  <2> QED
    BY <1>7, <2>1, <2>8
<1>8. IsBestOf(kept[N], R)
  BY <1>5, <1>6, <1>7 DEF IsBestOf
<1> QED
  BY <1>2, <1>8 DEF R

\* A set of positions that holds all before each of its own is an interval.
LEMMA DownwardClosed ==
  ASSUME NEW n \in Nat, NEW K \in SUBSET (1..n),
         \A m \in K : \A l \in 1..n : l < m => l \in K
  PROVE  Cardinality(K) \in 0..n /\ K = 1..Cardinality(K)
<1> DEFINE S == {m \in Nat : m + 1 \notin K}
<1>1. S \in SUBSET Nat /\ n \in S
  OBVIOUS
<1>2. PICK k \in S : \A m \in S : k <= m
  <2> HIDE DEF S
  <2> QED
    BY <1>1, LeastNumber
<1>3. k \in 0..n /\ k + 1 \notin K
  BY <1>1, <1>2
<1>4. ASSUME NEW m \in 1..k PROVE m \in K
  <2>1. m - 1 \in Nat /\ m - 1 \notin S /\ (m - 1) + 1 = m
    BY <1>2, <1>3
  <2> QED
    BY <2>1
<1>5. ASSUME NEW m \in K PROVE m \in 1..k
  <2>1. m \in 1..n /\ m # k + 1
    BY <1>3
  <2>2. CASE m > k
    <3>1. k + 1 \in 1..n /\ k + 1 < m
      BY <1>3, <2>1, <2>2
    <3> QED
      BY <1>3, <3>1
  <2> QED
    BY <1>3, <2>1, <2>2
<1>6. K = 1..k
  BY <1>4, <1>5
<1>7. Cardinality(1..k) = k
  BY <1>3, FS_Interval
<1> QED
  BY <1>3, <1>6, <1>7

\* What goes into a sorted list is in its place.
LEMMA InsertedSorted ==
  ASSUME NEW body, IsAnswer(body), NEW s \in Seq(ToSet(body)), Sorted(s),
         NEW c \in ToSet(body)
  PROVE  /\ Inserted(c, s) \in Seq(ToSet(body)) /\ Sorted(Inserted(c, s))
         /\ ToSet(Inserted(c, s)) = ToSet(s) \cup {c}
<1> DEFINE R == ToSet(body)
           N == Len(s)
           K == {m \in 1..N : ~better(c, s[m])}
           k == Cardinality(K)
           t == Inserted(c, s)
<1>1. N \in Nat /\ DOMAIN s = 1..N /\ \A m \in 1..N : s[m] \in R
  BY LenProperties, Members
<1>2. k \in 0..N /\ K = 1..k
  <2>1. ASSUME NEW m \in K, NEW l \in 1..N, l < m PROVE l \in K
    <3>1. ~better(s[m], s[l]) /\ ~better(c, s[m])
      BY <2>1 DEF Sorted
    <3>2. s[m] \in R /\ s[l] \in R
      BY <1>1
    <3>3. ~better(c, s[l])
      BY <3>1, <3>2, BetterOrders
    <3> QED
      BY <3>3
  <2>2. K \in SUBSET (1..N)
    OBVIOUS
  <2> HIDE DEF K, N
  <2> QED
    BY <1>1, <2>1, <2>2, DownwardClosed
<1>3. t = SubSeq(s, 1, k) \o <<c>> \o SubSeq(s, k + 1, N)
  BY <1>1 DEF Inserted
<1> HIDE DEF R, K, k, t
<1>4. /\ SubSeq(s, 1, k) \in Seq(R) /\ Len(SubSeq(s, 1, k)) = k
      /\ \A i \in 1..k : SubSeq(s, 1, k)[i] = s[i]
  <2>1. k \in Int /\ \A i \in 1..k : i \in 1..N
    BY <1>1, <1>2
  <2>2. \A i \in 1..k : s[i] \in R
    BY <1>1, <2>1
  <2>3. /\ SubSeq(s, 1, k) \in Seq(R)
        /\ Len(SubSeq(s, 1, k)) = IF 1 <= k THEN k - 1 + 1 ELSE 0
        /\ \A i \in 1 .. k - 1 + 1 : SubSeq(s, 1, k)[i] = s[1 + i - 1]
    BY <2>1, <2>2, SubSeqProperties
  <2> QED
    BY <1>1, <1>2, <2>1, <2>3
<1>5. /\ SubSeq(s, k + 1, N) \in Seq(R) /\ Len(SubSeq(s, k + 1, N)) = N - k
      /\ \A i \in 1 .. N - k : SubSeq(s, k + 1, N)[i] = s[k + i]
  <2>1. k \in Int /\ N \in Int /\ k + 1 \in Int /\ \A i \in (k + 1)..N : i \in 1..N
    BY <1>1, <1>2
  <2>2. \A i \in (k + 1)..N : s[i] \in R
    BY <1>1, <2>1
  <2>3. /\ SubSeq(s, k + 1, N) \in Seq(R)
        /\ Len(SubSeq(s, k + 1, N)) = IF k + 1 <= N THEN N - (k + 1) + 1 ELSE 0
        /\ \A i \in 1 .. N - (k + 1) + 1 : SubSeq(s, k + 1, N)[i] = s[(k + 1) + i - 1]
    BY <2>1, <2>2, SubSeqProperties
  <2> DEFINE u == SubSeq(s, k + 1, N)
  <2>4. k \in Int /\ N \in Int /\ k <= N
    BY <1>1, <1>2
  <2> HIDE DEF u, N
  <2>5. Len(u) = N - k
    <3>1. Len(u) = IF k + 1 <= N THEN N - (k + 1) + 1 ELSE 0
      BY <2>3 DEF u
    <3> QED
      BY <2>4, <3>1
  <2>6. ASSUME NEW i \in 1 .. N - k PROVE u[i] = s[k + i]
    <3>1. i \in 1 .. N - (k + 1) + 1 /\ (k + 1) + i - 1 = k + i
      BY <2>4
    <3> QED
      BY <2>3, <3>1 DEF u
  <2> QED
    BY <2>3, <2>5, <2>6 DEF u, N
<1>6. <<c>> \in Seq(R) /\ Len(<<c>>) = 1 /\ <<c>>[1] = c
  BY DEF R
<1> DEFINE p == SubSeq(s, 1, k)
           q == SubSeq(s, k + 1, N)
           pc == p \o <<c>>
<1>7. /\ pc \in Seq(R) /\ Len(pc) = k + 1
      /\ \A i \in 1..k : pc[i] = s[i]
      /\ pc[k + 1] = c
  <2>1. /\ pc \in Seq(R) /\ Len(pc) = Len(p) + Len(<<c>>)
        /\ \A i \in 1 .. Len(p) + Len(<<c>>) : pc[i] = IF i <= Len(p) THEN p[i] ELSE <<c>>[i - Len(p)]
    BY <1>4, <1>6, ConcatProperties
  <2>2. Len(p) + Len(<<c>>) = k + 1 /\ k \in Nat /\ Len(p) = k
    BY <1>2, <1>4, <1>6
  <2> HIDE DEF pc, p
  <2>3. \A i \in 1 .. k + 1 : pc[i] = IF i <= k THEN p[i] ELSE <<c>>[i - k]
    BY <2>1, <2>2
  <2>4. pc[k + 1] = <<c>>[1]
    <3>1. k + 1 \in 1 .. k + 1 /\ ~(k + 1 <= k) /\ (k + 1) - k = 1
      BY <2>2
    <3> QED
      BY <2>3, <3>1
  <2>5. \A i \in 1..k : pc[i] = p[i]
    BY <2>2, <2>3
  <2> QED
    BY <1>4, <1>6, <2>1, <2>2, <2>4, <2>5 DEF p
<1>8. /\ t \in Seq(R) /\ Len(t) = N + 1
      /\ \A i \in 1..k : t[i] = s[i]
      /\ t[k + 1] = c
      /\ \A i \in (k + 2)..(N + 1) : t[i] = s[i - 1]
  <2> HIDE DEF pc
  <2>1. t = pc \o q
    BY <1>3 DEF pc
  <2> HIDE DEF q
  <2>2. q \in Seq(R) /\ Len(q) = N - k /\ \A i \in 1 .. N - k : q[i] = s[k + i]
    BY <1>5 DEF q
  <2>3. /\ t \in Seq(R) /\ Len(t) = Len(pc) + Len(q)
        /\ \A i \in 1 .. Len(pc) + Len(q) : t[i] = IF i <= Len(pc) THEN pc[i] ELSE q[i - Len(pc)]
    BY <1>7, <2>1, <2>2, ConcatProperties
  <2>4. Len(pc) = k + 1 /\ Len(pc) + Len(q) = N + 1 /\ k \in Nat /\ k <= N /\ N \in Nat
    BY <1>1, <1>2, <1>7, <2>2
  <2>5. \A i \in 1 .. N + 1 : t[i] = IF i <= k + 1 THEN pc[i] ELSE q[i - (k + 1)]
    BY <2>3, <2>4
  <2>6. \A i \in 1..k : t[i] = s[i]
    BY <1>7, <2>4, <2>5
  <2>7. t[k + 1] = c
    BY <1>7, <2>4, <2>5
  <2>8. ASSUME NEW i \in (k + 2)..(N + 1) PROVE t[i] = s[i - 1]
    <3>1. t[i] = q[i - (k + 1)] /\ i - (k + 1) \in 1 .. N - k /\ k + (i - (k + 1)) = i - 1
      BY <2>4, <2>5
    <3> QED
      BY <2>2, <3>1
  <2> QED
    BY <2>3, <2>4, <2>6, <2>7, <2>8
<1>9. ASSUME NEW i \in 1 .. N + 1
      PROVE  i \in 1..k \/ i = k + 1 \/ (i \in (k + 2)..(N + 1) /\ i - 1 \in 1..N /\ i - 1 \notin K)
  BY <1>1, <1>2
<1>10. Sorted(t)
  <2> SUFFICES ASSUME NEW i \in 1 .. N + 1, NEW j \in 1 .. N + 1, i < j
               PROVE  ~better(t[j], t[i])
    BY <1>8 DEF Sorted
  <2>1. \A m \in 1..k : m \in 1..N /\ m \in K
    BY <1>1, <1>2
  <2>2. CASE i \in 1..k /\ j \in 1..k
    BY <1>8, <2>1, <2>2 DEF Sorted
  <2>3. CASE i \in 1..k /\ j = k + 1
    BY <1>8, <2>1, <2>3 DEF K
  <2>4. CASE i \in 1..k /\ j \in (k + 2)..(N + 1)
    <3>1. i < j - 1 /\ j - 1 \in 1..N /\ i \in 1..N
      BY <1>1, <1>2, <2>4
    <3> QED
      BY <1>8, <2>4, <3>1 DEF Sorted
  <2>5. CASE i = k + 1 /\ j \in (k + 2)..(N + 1)
    <3>1. j - 1 \in 1..N /\ j - 1 \notin K
      BY <1>1, <1>2, <2>5
    <3>2. better(c, s[j - 1]) /\ s[j - 1] \in R
      BY <1>1, <3>1 DEF K
    <3>3. ~better(s[j - 1], c)
      BY <3>2, BetterOrders DEF R
    <3> QED
      BY <1>8, <2>5, <3>3
  <2>6. CASE i \in (k + 2)..(N + 1) /\ j \in (k + 2)..(N + 1)
    <3>1. i - 1 \in 1..N /\ j - 1 \in 1..N /\ i - 1 < j - 1
      BY <1>1, <1>2, <2>6
    <3> QED
      BY <1>8, <2>6, <3>1 DEF Sorted
  <2> QED
    BY <1>1, <1>2, <2>2, <2>3, <2>4, <2>5, <2>6
<1>11. ToSet(t) = ToSet(s) \cup {c}
  <2>1. ToSet(t) = {t[i] : i \in 1 .. N + 1} /\ ToSet(s) = {s[i] : i \in 1..N}
    BY <1>8, Members
  <2>2. ASSUME NEW i \in 1 .. N + 1 PROVE t[i] \in ToSet(s) \cup {c}
    <3>1. \A m \in 1..k : m \in 1..N
      BY <1>1, <1>2
    <3> QED
      BY <1>8, <1>9, <2>1, <3>1
  <2>3. c \in ToSet(t)
    BY <1>1, <1>2, <1>8, <2>1
  <2>4. ASSUME NEW i \in 1..N PROVE s[i] \in ToSet(t)
    <3>1. CASE i <= k
      <4>1. t[i] = s[i] /\ i \in 1 .. N + 1
        BY <1>1, <1>2, <1>8, <3>1
      <4> QED
        BY <2>1, <4>1
    <3>2. CASE i > k
      <4>1. i + 1 \in (k + 2)..(N + 1) /\ i + 1 \in 1 .. N + 1 /\ (i + 1) - 1 = i
        BY <1>1, <1>2, <3>2
      <4>2. t[i + 1] = s[i]
        BY <1>8, <4>1
      <4> QED
        BY <2>1, <4>1, <4>2
    <3> QED
      BY <1>1, <1>2, <3>1, <3>2
  <2> QED
    BY <2>1, <2>2, <2>3, <2>4
<1> QED
  BY <1>8, <1>10, <1>11 DEF R, t

\* The sort of deduplicate: the same mappings, the better ones first.
LEMMA SortedStableSorts ==
  ASSUME NEW body, IsAnswer(body)
  PROVE  /\ SortedStable(body) \in Seq(ToSet(body)) /\ Sorted(SortedStable(body))
         /\ ToSet(SortedStable(body)) = ToSet(body)
<1> DEFINE N == Len(body)
           R == ToSet(body)
           T == {s \in Seq(R) : Sorted(s)}
           none == <<>>
           step == [n \in 1..N |-> [s \in T |-> Inserted(body[n], s)]]
           IsLoop(sorted) == sorted = [n \in 0..N |->
              IF n = 0 THEN none ELSE Inserted(body[n], sorted[n - 1])]
           loop == CHOOSE sorted : IsLoop(sorted)
<1>1. body \in Seq(R) /\ N \in Nat /\ \A n \in 1..N : body[n] \in R
  BY Members DEF IsAnswer
<1>2. none \in T /\ step \in Turns(N, T)
  <2>1. \A s \in T, e \in R : Inserted(e, s) \in T
    BY InsertedSorted
  <2>2. none \in T
    <3>1. none \in Seq(R) /\ Len(none) = 0
      OBVIOUS
    <3>2. Sorted(none)
      BY <3>1 DEF Sorted
    <3> QED
      BY <3>1, <3>2
  <2> HIDE DEF N, R, T, none
  <2> QED
    BY <1>1, <2>1, <2>2 DEF Turns
<1>3. SortedStable(body) = loop[N]
  BY Zenon DEF SortedStable
<1>4. \A n \in 1..N : n - 1 \in 0..N
  BY <1>1
<1>5. \E f : IsLoop(f)
  <2> HIDE DEF N, R, T, step, none
  <2>1. PICK f : IsRun(f, N, T, none, step)
    BY <1>1, <1>2, RecursionExists
  <2>2. \A n \in 1..N : f[n - 1] \in T
    BY <1>4, <2>1 DEF IsRun
  <2>3. \A n \in 1..N, s \in T : step[n][s] = Inserted(body[n], s)
    BY DEF step
  <2>4. f = [n \in 0..N |-> f[n]] /\ \A n \in 0..N : n # 0 => n \in 1..N
    BY <1>1, <2>1 DEF IsRun
  <2>5. IsLoop(f)
    BY <2>1, <2>2, <2>3, <2>4 DEF IsRun
  <2> HIDE DEF IsLoop
  <2> QED
    BY <2>5
<1>6. IsLoop(loop)
  BY <1>5
<1>7. loop[0] = none /\ \A n \in 1..N : loop[n] = Inserted(body[n], loop[n - 1])
  <2> HIDE DEF loop, N, T, none
  <2>1. loop[0] = none
    BY <1>1, <1>6
  <2>2. \A n \in 1..N : n \in 0..N /\ n # 0
    BY <1>1
  <2>3. \A n \in 1..N : loop[n] = Inserted(body[n], loop[n - 1])
    BY <1>6, <2>2
  <2> QED
    BY <2>1, <2>3
<1>8. \A n \in 0..N : loop[n] \in T
  <2> HIDE DEF loop, N, R, T, none
  <2>1. \A n \in 1..N : loop[n - 1] \in T => loop[n] = step[n][loop[n - 1]]
    BY <1>7
  <2> HIDE DEF step
  <2> QED
    BY <1>1, <1>2, <1>7, <2>1, RecursionStays
<1> HIDE DEF loop, N, R, IsLoop, step
<1>9. \A n \in 0..N : ToSet(loop[n]) = {body[m] : m \in 1..n}
  <2> DEFINE S == {n \in Nat : n <= N => ToSet(loop[n]) = {body[m] : m \in 1..n}}
  <2>1. 0 \in S
    <3>1. none \in Seq(R) /\ Len(none) = 0
      OBVIOUS
    <3>2. ToSet(none) = {none[m] : m \in 1..Len(none)}
      BY <3>1, Members
    <3>3. 1..0 = {}
      OBVIOUS
    <3> HIDE DEF none
    <3> QED
      BY <1>7, <3>1, <3>2, <3>3
  <2>2. ASSUME NEW n \in S PROVE n + 1 \in S
    <3>1. CASE n + 1 <= N
      <4>1. n + 1 \in 1..N /\ (n + 1) - 1 = n /\ n \in 0..N
        BY <1>1, <3>1
      <4>2. loop[n + 1] = Inserted(body[n + 1], loop[n]) /\ body[n + 1] \in R
        BY <1>1, <1>7, <4>1
      <4>3. loop[n] \in Seq(R) /\ Sorted(loop[n])
        BY <1>8, <4>1
      <4>4. ToSet(loop[n + 1]) = ToSet(loop[n]) \cup {body[n + 1]}
        BY <4>2, <4>3, InsertedSorted DEF R
      <4>5. ToSet(loop[n]) = {body[m] : m \in 1..n}
        BY <4>1
      <4>6. {body[m] : m \in 1..(n + 1)} = {body[m] : m \in 1..n} \cup {body[n + 1]}
        OBVIOUS
      <4> QED
        BY <4>4, <4>5, <4>6
    <3> QED
      BY <3>1
  <2>3. S \in SUBSET Nat
    OBVIOUS
  <2>4. ASSUME NEW n \in 0..N PROVE n \in S
    <3> HIDE DEF S
    <3>1. n \in Nat
      BY <1>1
    <3> QED
      BY <2>1, <2>2, <2>3, <3>1, SetInduction
  <2>5. \A n \in 0..N : n <= N
    BY <1>1
  <2> QED
    BY <2>4, <2>5
<1>10. ToSet(loop[N]) = R
  <2>0. N \in 0..N
    BY <1>1
  <2>1. R = {body[m] : m \in 1..N}
    BY <1>1, Members DEF R, N
  <2> QED
    BY <1>9, <2>0, <2>1
<1>11. loop[N] \in Seq(R) /\ Sorted(loop[N])
  <2>1. N \in 0..N
    BY <1>1
  <2> QED
    BY <1>8, <2>1
<1> QED
  BY <1>3, <1>10, <1>11 DEF R

\* ParseInstitutions keeps the best of the institutions.
LEMMA DeduplicateIsBest ==
  ASSUME NEW body, IsAnswer(body)
  PROVE  IsBestOf(ParseInstitutions(body), ToSet(Institutions(body)))
<1> DEFINE all == Institutions(body)
<1>1. all \in Seq(ToSet(body))
  BY InstitutionsArePart
<1> HIDE DEF all
<1>2. IsAnswer(all)
  BY <1>1, PartOfAnswer
<1>3. /\ SortedStable(all) \in Seq(ToSet(all)) /\ Sorted(SortedStable(all))
      /\ ToSet(SortedStable(all)) = ToSet(all)
  BY <1>2, SortedStableSorts
<1>4. IsAnswer(SortedStable(all))
  BY <1>2, <1>3, PartOfAnswer
<1>5. IsBestOf(Survivors(SortedStable(all)), ToSet(all))
  BY <1>3, <1>4, SurvivorsAreBest
<1> QED
  BY <1>5 DEF ParseInstitutions, deduplicate, all

\* "The result [is] independent of the order Overpass happened to return them
\* in": two answers with the same elements yield the same institutions.
THEOREM OrderHasNoInfluence ==
  ASSUME NEW body, IsAnswer(body), NEW other, IsAnswer(other), ToSet(body) = ToSet(other)
  PROVE  ParseInstitutions(body) = ParseInstitutions(other)
<1> DEFINE all == ToSet(Institutions(body))
<1>1. all = {e \in ToSet(body) : IsInstitution(e)} /\ ToSet(Institutions(other)) = all
  BY InstitutionsArePart
<1>2. IsBestOf(ParseInstitutions(body), all) /\ IsBestOf(ParseInstitutions(other), all)
  BY <1>1, DeduplicateIsBest
<1>3. \A i \in all : i.id \in Nat
  BY <1>1 DEF IsAnswer
<1> HIDE DEF all
<1> QED
  BY <1>2, <1>3, ChoiceIsUnique

\* What is imported as the institutions of an answer are those of its mappings
\* that no better one among them supersedes, and there is no other such choice.
THEOREM BestMappingsImported == Spec => []KeepsBestMappings
<1>1. Inv => KeepsBestMappings
  <2> SUFFICES ASSUME Inv, NEW p \in Importers,
                      proc[p].pc = "import", proc[p].answer.query = "institutions",
                      NEW kept \in SUBSET ToSet(Institutions(proc[p].answer.elements))
               PROVE  IsBestOf(kept, ToSet(Institutions(proc[p].answer.elements)))
                        <=> kept = proc[p].items
    BY DEF KeepsBestMappings
  <2> DEFINE body == proc[p].answer.elements
             all == ToSet(Institutions(body))
  <2>1. Sound(world, proc[p]) /\ world \in DOMAIN Worlds
    BY DEF Inv
  <2>2. proc[p].items = ParseInstitutions(body)
    BY <2>1 DEF Sound, Items
  <2>3. IsSaid(world, proc[p].answer)
    BY <2>1 DEF Sound, IsProc
  <2>4. IsAnswer(body)
    BY <2>1, <2>3, AnswersAssumption DEF IsSaid, Answers
  <2>5. IsBestOf(ParseInstitutions(body), all)
    BY <2>4, DeduplicateIsBest
  <2>6. \A i \in all : i.id \in Nat
    BY <2>4, InstitutionsArePart DEF IsAnswer
  <2>7. IsBestOf(kept, all) => kept = ParseInstitutions(body)
    <3> HIDE DEF all, body
    <3> QED
      BY <2>5, <2>6, ChoiceIsUnique
  <2> QED
    BY <2>2, <2>5, <2>7
<1> QED
  BY <1>1, InvHolds, PTL
-----------------------------------------------------------------------------
(* Every call ends                                                         *)

\* How many steps an importer is from the end of its query at most, if the
\* attempts are counted; and from the end of the call, Turn for each query.
Turn == 2 * Attempts + 6

Within(s) ==
  CASE s.pc = "idle"   -> 0
    [] s.pc = "ask"    -> 2 * (Attempts - s.attempt) + 6
    [] s.pc = "again"  -> 2 * (Attempts - s.attempt) + 5
    [] s.pc = "store"  -> 4
    [] s.pc = "write"  -> 3
    [] s.pc = "read"   -> 3
    [] s.pc = "use"    -> 2
    [] s.pc = "import" -> 1

LastStep == Len(RegionOrder) * Len(Queries)

Left(s) == IF s.pc = "idle" THEN 0 ELSE (LastStep - s.step) * Turn + Within(s)

\* What is left of one query fits into its turn.
LEMMA WithinBounds ==
  ASSUME NEW w, NEW s, IsProc(w, s), s.pc # "idle"
  PROVE  s.step \in Steps /\ Within(s) \in 1..Turn
<1>1. Attempts \in Nat \ {0}
  BY OverpassAssumption
<1>2. CASE s.pc \in {"ask", "again"}
  <2>1. s.step \in Steps /\ s.attempt \in 1..Attempts
    BY <1>2 DEF IsProc
  <2>2. Within(s) = 2 * (Attempts - s.attempt) + (IF s.pc = "ask" THEN 6 ELSE 5)
    BY <1>2 DEF Within
  <2> QED
    BY <1>1, <2>1, <2>2 DEF Turn
<1>3. CASE s.pc \notin {"ask", "again"}
  <2>1. s.pc \in {"store", "write", "read", "use", "import"} /\ s.step \in Steps
    BY <1>3 DEF IsProc
  <2>2. Within(s) \in 1..4
    BY <2>1 DEF Within
  <2> QED
    BY <1>1, <2>1, <2>2 DEF Turn
<1> QED
  BY <1>2, <1>3

\* What is left of a call is a number, and none is left only when it is over.
LEMMA LeftBounds ==
  ASSUME NEW w, NEW s, IsProc(w, s)
  PROVE  Left(s) \in Nat /\ (Left(s) = 0 <=> s.pc = "idle")
<1>1. CASE s.pc = "idle"
  BY <1>1 DEF Left
<1>2. CASE s.pc # "idle"
  <2>1. s.step \in 1..LastStep /\ LastStep \in Nat
    <3>1. Len(RegionOrder) \in Nat /\ Len(Queries) \in Nat
      BY OverpassAssumption
    <3> QED
      BY <3>1, <1>2, WithinBounds DEF Steps, LastStep
  <2>2. Turn \in Nat
    BY OverpassAssumption DEF Turn
  <2>3. \A a, b \in Nat : a * b \in Nat
    OBVIOUS
  <2>4. (LastStep - s.step) * Turn \in Nat
    BY <2>1, <2>2, <2>3
  <2>5. Within(s) \in Nat \ {0}
    BY <1>2, <2>2, WithinBounds
  <2>6. Left(s) = (LastStep - s.step) * Turn + Within(s)
    BY <1>2 DEF Left
  <2> QED
    BY <1>2, <2>4, <2>5, <2>6
<1> QED
  BY <1>1, <1>2

\* In the same query, less is left of the call when less is left of the query.
LEMMA SameTurn ==
  ASSUME NEW w, NEW s, NEW t, IsProc(w, s), IsProc(w, t),
         s.pc # "idle", t.pc # "idle", t.step = s.step, Within(t) < Within(s)
  PROVE  Left(t) < Left(s)
<1>1. Within(s) \in Nat /\ Within(t) \in Nat /\ s.step \in Int
  BY WithinBounds, OverpassAssumption DEF Turn, Steps
<1> DEFINE base == (LastStep - s.step) * Turn
<1>2. base \in Int
  BY <1>1, OverpassAssumption DEF Turn, LastStep
<1>3. Left(s) = base + Within(s) /\ Left(t) = base + Within(t)
  BY DEF Left
<1> HIDE DEF base
<1> QED
  BY <1>1, <1>2, <1>3

\* A whole turn outweighs whatever the next query begins with.
LEMMA NextTurn ==
  ASSUME NEW w, NEW s, NEW t, IsProc(w, s), IsProc(w, t),
         s.pc # "idle", t.pc # "idle", t.step = s.step + 1, Within(t) <= Turn
  PROVE  Left(t) < Left(s)
<1>1. Within(s) \in Nat \ {0} /\ Within(t) \in Nat /\ s.step \in Int
  BY WithinBounds, OverpassAssumption DEF Turn, Steps
<1>2. Turn \in Nat /\ LastStep \in Int
  BY OverpassAssumption DEF Turn, LastStep
<1> DEFINE n == LastStep - s.step
<1>3. n \in Int /\ LastStep - (s.step + 1) = n - 1
  BY <1>1, <1>2
<1>4. \A a, k \in Int : (a - 1) * k = a * k - k
  OBVIOUS
<1>5. Left(s) = n * Turn + Within(s) /\ Left(t) = (n - 1) * Turn + Within(t)
  BY <1>3 DEF Left
<1>6. (n - 1) * Turn = n * Turn - Turn /\ n * Turn \in Int
  BY <1>2, <1>3, <1>4
<1> HIDE DEF n
<1> QED
  BY <1>1, <1>2, <1>5, <1>6

\* A call that is over has less left than one that goes on.
LEMMA OverIsLess ==
  ASSUME NEW w, NEW s, IsProc(w, s), s.pc # "idle"
  PROVE  Left(Idle) < Left(s)
<1>1. Left(Idle) = 0
  BY DEF Left, Idle
<1> QED
  BY <1>1, LeftBounds

\* A step of an importer's own brings it nearer to the end of its call.
LEMMA WorkCountsDown ==
  ASSUME Inv, Inv', NEW p \in Importers, Work(p)
  PROVE  Left(proc'[p]) < Left(proc[p])
<1> DEFINE s == proc[p]
           t == proc'[p]
<1>1. IsProc(world, s) /\ IsProc(world', t) /\ world' = world
  BY DEF Inv, Sound, Work, Busy, Refused, Again, Answered, NoStore, Truncate, Write, Read,
         Fail, Parse, Import
<1>2. s.pc # "idle" /\ DOMAIN proc = Importers
  BY DEF Inv, Work, Busy, Refused, Again, Answered, NoStore, Truncate, Write, Read, Fail,
         Parse, Import
<1>3. s.step \in Steps /\ Attempts \in Nat \ {0}
  BY <1>1, <1>2, WithinBounds, OverpassAssumption
<1>4. CASE t = Idle
  BY <1>1, <1>2, <1>4, OverIsLess
<1>5. CASE t # Idle
  <2>0. t.pc # "idle"
    BY <1>1, <1>5 DEF IsProc
  <2>1. CASE Busy(p)
    <3>1. s.pc = "ask" /\ t = [s EXCEPT !.pc = "again"]
      BY <1>2, <2>1 DEF Busy
    <3>2. s \in [pc : {"ask", "again"}, step : Steps, attempt : 1..Attempts]
      BY <1>1, <3>1 DEF IsProc
    <3>3. t.step = s.step /\ t.attempt = s.attempt /\ t.pc = "again"
      BY <3>1, <3>2
    <3>4. Within(t) < Within(s)
      BY <1>3, <3>1, <3>2, <3>3 DEF Within
    <3> QED
      BY <1>1, <1>2, <2>0, <3>3, <3>4, SameTurn
  <2>2. CASE Again(p)
    <3>1. s.pc = "again" /\ t = [s EXCEPT !.pc = "ask", !.attempt = @ + 1]
      BY <1>2, <1>5, <2>2 DEF Again, AfterBusy
    <3>2. s \in [pc : {"ask", "again"}, step : Steps, attempt : 1..Attempts]
      BY <1>1, <3>1 DEF IsProc
    <3>3. t.step = s.step /\ t.attempt = s.attempt + 1 /\ t.pc = "ask"
      BY <3>1, <3>2
    <3>4. Within(t) < Within(s)
      BY <1>3, <3>1, <3>2, <3>3 DEF Within
    <3> QED
      BY <1>1, <1>2, <2>0, <3>3, <3>4, SameTurn
  <2>3. CASE Answered(p)
    <3>1. s.pc = "ask" /\ t.pc = "store" /\ t.step = s.step
      BY <1>2, <2>3 DEF Answered
    <3>2. s.attempt \in 1..Attempts
      BY <1>1, <3>1 DEF IsProc
    <3>3. Within(t) < Within(s)
      BY <1>3, <3>1, <3>2 DEF Within
    <3> QED
      BY <1>1, <1>2, <2>0, <3>1, <3>3, SameTurn
  <2>4. CASE Truncate(p) \/ Write(p) \/ Read(p) \/ Parse(p)
    <3>1. /\ t.step = s.step
          /\ <<s.pc, t.pc>> \in {<<"store", "write">>, <<"write", "use">>,
                                 <<"read", "use">>, <<"use", "import">>}
      BY <1>2, <1>5, <2>4 DEF Truncate, Write, Read, Parse
    <3>2. Within(t) < Within(s)
      BY <3>1 DEF Within
    <3> QED
      BY <1>1, <1>2, <2>0, <3>1, <3>2, SameTurn
  <2>5. CASE Import(p)
    <3>1. s.step + 1 \in Steps /\ t = Begin(s.step + 1, s.offline)
      BY <1>2, <1>5, <2>5 DEF Import
    <3>2. t.step = s.step + 1
      BY <3>1 DEF Begin
    <3> QED
      BY <1>1, <1>2, <1>3, <2>0, <3>2, WithinBounds, NextTurn DEF Turn
  <2>6. CASE Refused(p) \/ NoStore(p) \/ Fail(p)
    BY <1>2, <1>5, <2>6 DEF Refused, NoStore, Fail
  <2> QED
    BY <2>1, <2>2, <2>3, <2>4, <2>5, <2>6 DEF Work
<1> QED
  BY <1>4, <1>5

\* Nobody else sets an importer back: one that writes the same file leaves it
\* where it is.
LEMMA OthersSetNobodyBack ==
  ASSUME Inv, NEW p \in Importers, [Next]_vars, ~ Work(p), proc[p].pc # "idle"
  PROVE  Left(proc'[p]) <= Left(proc[p])
<1>1. IsProc(world, proc[p]) /\ DOMAIN proc = Importers
  BY DEF Inv, Sound
<1>2. Left(proc[p]) \in Nat
  BY <1>1, LeftBounds
<1>3. CASE proc'[p] = proc[p]
  BY <1>2, <1>3
<1>4. CASE proc'[p] = Idle
  BY <1>2, <1>4 DEF Left, Idle
<1>5. CASE proc'[p] # proc[p] /\ proc'[p] # Idle
  <2>1. PICK o \in Importers : Launch(o) \/ Work(o) \/ Cancel(o) \/ Die(o)
    BY <1>5 DEF Next, vars
  <2>2. o # p => Truncate(o)
    BY <1>1, <1>5, <2>1 DEF Launch, Work, Cancel, Die, Busy, Refused, Again, Answered,
                            NoStore, Write, Read, Fail, Parse, Import
  <2>3. o # p
    BY <1>1, <1>5, <2>1 DEF Launch, Cancel, Die
  <2>4. /\ proc[p].pc = "write" /\ proc'[p].pc = "write"
        /\ proc'[p].step = proc[p].step
    BY <1>1, <1>5, <2>2, <2>3 DEF Truncate, Writes
  <2>5. Left(proc'[p]) = Left(proc[p])
    BY <2>4 DEF Left, Within
  <2> QED
    BY <1>2, <2>5
<1> QED
  BY <1>3, <1>4, <1>5

\* Every step an importer takes, asking again included, brings it nearer to
\* the end of its call, and nothing anybody else does sets it back: with the
\* fairness of Spec, the heart of EveryCallEnds.
THEOREM CallsCountDown ==
  Spec => [][\A p \in Importers :
               /\ Left(proc[p]) \in Nat /\ (Left(proc[p]) = 0 <=> proc[p].pc = "idle")
               /\ Work(p) => Left(proc'[p]) < Left(proc[p])
               /\ proc[p].pc # "idle" => Left(proc'[p]) <= Left(proc[p])]_vars
<1> DEFINE A == \A p \in Importers :
                  /\ Left(proc[p]) \in Nat /\ (Left(proc[p]) = 0 <=> proc[p].pc = "idle")
                  /\ Work(p) => Left(proc'[p]) < Left(proc[p])
                  /\ proc[p].pc # "idle" => Left(proc'[p]) <= Left(proc[p])
<1>1. Inv /\ Inv' /\ [Next]_vars => A
  <2> SUFFICES ASSUME Inv, Inv', [Next]_vars, NEW p \in Importers
               PROVE  /\ Left(proc[p]) \in Nat /\ (Left(proc[p]) = 0 <=> proc[p].pc = "idle")
                      /\ Work(p) => Left(proc'[p]) < Left(proc[p])
                      /\ proc[p].pc # "idle" => Left(proc'[p]) <= Left(proc[p])
    OBVIOUS
  <2>1. IsProc(world, proc[p]) /\ IsProc(world', proc'[p])
    BY DEF Inv, Sound
  <2>2. Left(proc[p]) \in Nat /\ (Left(proc[p]) = 0 <=> proc[p].pc = "idle")
    BY <2>1, LeftBounds
  <2>3. Left(proc'[p]) \in Nat
    BY <2>1, LeftBounds
  <2>4. Work(p) => Left(proc'[p]) < Left(proc[p])
    BY WorkCountsDown
  <2>5. ~ Work(p) /\ proc[p].pc # "idle" => Left(proc'[p]) <= Left(proc[p])
    BY OthersSetNobodyBack
  <2> QED
    BY <2>2, <2>3, <2>4, <2>5
<1> HIDE DEF A
<1>2. Spec => [][A]_vars
  BY <1>1, InvHolds, InvNext, PTL DEF Spec
<1> QED
  BY <1>2 DEF A
=============================================================================
