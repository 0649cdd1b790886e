--------------------------- MODULE AccidentsProofs ---------------------------
(* Theorems about Accidents, for every number of importers, all years and  *)
(* editions, and whatever the columns and rows of a file are read as.      *)
EXTENDS Accidents, TLAPS

\* What is known of one importer, given what is public and recorded.
Sound(pub, recorded, s) ==
  /\ s \in Procs
  /\ s.pc # "idle" =>
       /\ s.year \in Years /\ s.from \in Years /\ s.to \in Years
       /\ s.from <= s.year /\ s.year <= s.to
       /\ s.served <= pub[s.year] /\ s.tag <= pub[s.year]
  /\ s.pc \notin {"idle", "start"} => s.run \in DOMAIN recorded /\ recorded[s.run].year = s.year
  /\ s.pc = "commit" => s.opened \in 1..pub[s.year] /\ Usable(FileAt(s.year, s.opened))

SoundFiles(pub, arc, tags) ==
  /\ pub \in [Years -> Nat] /\ arc \in [Years -> Nat] /\ tags \in [Years -> Nat]
  /\ \A y \in Years :
       arc[y] <= pub[y] /\ tags[y] <= pub[y] /\ 1..pub[y] \subseteq DOMAIN Editions[y]

Run == [year : Years, status : {"running", "succeeded", "failed"}, checksum : Nat]

SoundRuns(recorded) ==
  /\ \E last \in 0..MaxRuns : DOMAIN recorded = 1..last
  /\ recorded \in [DOMAIN recorded -> Run]

TypeInv ==
  /\ SoundFiles(public, archive, etag)
  /\ SoundRuns(runs)
  /\ proc \in [Importers -> Procs]
  /\ \A p \in Importers : Sound(public, runs, proc[p])

\* The invariant says more than TypeOK.
LEMMA TypeInvImplies == TypeInv => TypeOK
<1> SUFFICES ASSUME TypeInv PROVE TypeOK
  OBVIOUS
<1>1. SoundFiles(public, archive, etag) /\ SoundRuns(runs)
  BY DEF TypeInv
<1>2. ASSUME NEW p \in Importers
      PROVE  /\ proc[p].pc # "idle" => proc[p].year \in Years /\ proc[p].year \in proc[p].from..proc[p].to
             /\ proc[p].pc \notin {"idle", "start"} =>
                  proc[p].run \in DOMAIN runs /\ runs[proc[p].run].year = proc[p].year
             /\ proc[p].pc = "commit" =>
                  /\ proc[p].opened \in 1..public[proc[p].year]
                  /\ Usable(FileAt(proc[p].year, proc[p].opened))
  <2> DEFINE s == proc[p]
  <2>1. Sound(public, runs, s)
    BY DEF TypeInv
  <2> HIDE DEF s
  <2>2. s.pc # "idle" => s.year \in s.from..s.to
    BY <2>1 DEF Sound, Procs
  <2>3. /\ s.pc # "idle" => s.year \in Years
        /\ s.pc \notin {"idle", "start"} => s.run \in DOMAIN runs /\ runs[s.run].year = s.year
        /\ s.pc = "commit" => s.opened \in 1..public[s.year] /\ Usable(FileAt(s.year, s.opened))
    BY <2>1 DEF Sound
  <2> QED
    BY <2>2, <2>3 DEF s
<1>3. proc \in [Importers -> Procs]
  BY DEF TypeInv
<1>4. runs \in [DOMAIN runs ->
        [year : Years, status : {"running", "succeeded", "failed"}, checksum : Nat]]
  BY <1>1 DEF SoundRuns, Run
<1> HIDE DEF TypeInv
<1> QED
  BY <1>1, <1>2, <1>3, <1>4 DEF TypeOK, SoundFiles, SoundRuns

\* A call at its start, and one that is over.
LEMMA AtSound ==
  ASSUME NEW pub \in [Years -> Nat], NEW recorded,
         NEW year \in Years, NEW from \in Years, NEW to \in Years, NEW first \in 1..(MaxRuns + 1),
         from <= year, year <= to
  PROVE  /\ Sound(pub, recorded, At("start", year, from, to, first))
         /\ Sound(pub, recorded, At("idle", year, from, to, first))
BY YearsAssumption, RunsAssumption DEF Sound, At, Procs, PCs, None

LEMMA NotDoneSound == ASSUME NEW pub, NEW recorded PROVE Sound(pub, recorded, NotDone)
BY RunsAssumption DEF Sound, NotDone, At, Procs, PCs, None

\* More editions and more runs change nothing for an importer.
LEMMA SoundStays ==
  ASSUME NEW pub \in [Years -> Nat], NEW pub2 \in [Years -> Nat],
         \A y \in Years : pub[y] <= pub2[y],
         NEW recorded, NEW recorded2,
         \A r \in DOMAIN recorded : r \in DOMAIN recorded2 /\ recorded2[r].year = recorded[r].year,
         NEW s, Sound(pub, recorded, s)
  PROVE  Sound(pub2, recorded2, s)
<1>1. s.pc # "idle" => s.served <= pub2[s.year] /\ s.tag <= pub2[s.year]
  BY DEF Sound, Procs
<1>2. s.pc = "commit" => s.opened \in 1..pub2[s.year]
  BY DEF Sound, Procs
<1> QED
  BY <1>1, <1>2 DEF Sound

LEMMA InitTyped == Init => TypeInv
<1> SUFFICES ASSUME Init PROVE TypeInv
  OBVIOUS
<1>1. SoundFiles(public, archive, etag)
  BY DEF Init, SoundFiles, None
<1>2. SoundRuns(runs)
  <2>1. DOMAIN runs = 1..0
    BY DEF Init, Nothing
  <2> QED
    BY <2>1, RunsAssumption DEF SoundRuns, Init, Nothing
<1>3. proc = [p \in Importers |-> NotDone] /\ NotDone \in Procs
  BY NotDoneSound DEF Init, Sound
<1> QED
  BY <1>1, <1>2, <1>3, NotDoneSound DEF TypeInv

\* A step of p, which leaves the other importers alone.
Extends(old, new) == \A r \in DOMAIN old : r \in DOMAIN new /\ new[r].year = old[r].year

LEMMA OneGoesOn ==
  ASSUME TypeInv, NEW p \in Importers, NEW t, proc' = [proc EXCEPT ![p] = t],
         SoundFiles(public, archive, etag)', SoundRuns(runs'),
         \A y \in Years : public[y] <= public'[y],
         Extends(runs, runs'), Sound(public', runs', t)
  PROVE  TypeInv'
<1>1. public \in [Years -> Nat] /\ public' \in [Years -> Nat]
  BY DEF TypeInv, SoundFiles
<1>2. proc' \in [Importers -> Procs] /\ proc'[p] = t
  BY DEF TypeInv, Sound
<1>3. ASSUME NEW q \in Importers PROVE Sound(public', runs', proc'[q])
  <2>1. CASE q = p
    BY <2>1, <1>2
  <2>2. CASE q # p
    <3>1. proc'[q] = proc[q] /\ Sound(public, runs, proc[q])
      BY <2>2 DEF TypeInv
    <3> QED
      BY <3>1, <1>1, SoundStays DEF Extends
  <2> QED
    BY <2>1, <2>2
<1> QED
  BY <1>2, <1>3 DEF TypeInv

\* What a step may rely on.
LEMMA Typed ==
  ASSUME TypeInv, NEW p \in Importers
  PROVE  /\ public \in [Years -> Nat] /\ archive \in [Years -> Nat] /\ etag \in [Years -> Nat]
         /\ \A y \in Years : archive[y] <= public[y] /\ etag[y] <= public[y]
         /\ Years \subseteq Int /\ MaxRuns \in Nat
         /\ proc[p] \in Procs
         /\ Sound(public, runs, proc[p])
BY YearsAssumption, RunsAssumption DEF TypeInv, SoundFiles

LEMMA PublishTyped == ASSUME TypeInv, NEW y \in Years, Publish(y) PROVE TypeInv'
<1>1. public \in [Years -> Nat] /\ public'[y] = public[y] + 1 /\ public' \in [Years -> Nat]
      /\ \A z \in Years : public[z] <= public'[z] /\ (z # y => public'[z] = public[z])
  BY DEF TypeInv, SoundFiles, Publish
<1>2. \A z \in Years : 1..public'[z] \subseteq DOMAIN Editions[z]
  <2>1. 1..(public[y] + 1) \subseteq DOMAIN Editions[y]
    <3>1. 1..public[y] \subseteq DOMAIN Editions[y] /\ public[y] + 1 \in DOMAIN Editions[y]
      BY DEF TypeInv, SoundFiles, Publish
    <3> QED
      BY <3>1, <1>1
  <2> QED
    BY <1>1, <2>1 DEF TypeInv, SoundFiles
<1>3. SoundFiles(public, archive, etag)'
  <2>1. archive' = archive /\ etag' = etag
    BY DEF Publish, cache
  <2>2. \A z \in Years : archive[z] \in Nat /\ etag[z] \in Nat
          /\ archive[z] <= public[z] /\ etag[z] <= public[z]
    BY DEF TypeInv, SoundFiles
  <2>3. \A z \in Years : archive[z] <= public'[z] /\ etag[z] <= public'[z]
    BY <2>2, <1>1
  <2> QED
    BY <2>1, <2>3, <1>1, <1>2 DEF TypeInv, SoundFiles
<1>4. runs' = runs /\ proc' = proc
  BY DEF Publish
<1>5. ASSUME NEW p \in Importers PROVE Sound(public', runs', proc'[p])
  BY <1>1, <1>4, SoundStays DEF TypeInv
<1> QED
  BY <1>3, <1>4, <1>5 DEF TypeInv

\* The steps that only change what the importer knows.
LEMMA QuietTyped ==
  ASSUME TypeInv, NEW p \in Importers, NEW t, proc' = [proc EXCEPT ![p] = t],
         UNCHANGED <<public, cache, runs>>, Sound(public, runs, t)
  PROVE  TypeInv'
<1>1. public' = public /\ archive' = archive /\ etag' = etag /\ runs' = runs
  BY DEF cache
<1>2. \A y \in Years : public[y] <= public'[y]
  BY <1>1 DEF TypeInv, SoundFiles
<1>3. SoundFiles(public, archive, etag)' /\ SoundRuns(runs')
  BY <1>1 DEF TypeInv, SoundFiles
<1> QED
  BY <1>1, <1>2, <1>3, OneGoesOn DEF Extends

LEMMA CallTyped ==
  ASSUME TypeInv, NEW p \in Importers, Launch(p) \/ Stop(p) PROVE TypeInv'
<1>1. CASE Launch(p)
  <2>1. PICK from \in Years, to \in Years, first \in 1..(MaxRuns + 1) :
          from <= to /\ proc' = [proc EXCEPT ![p] = At("start", from, from, to, first)]
    BY <1>1 DEF Launch
  <2>2. from <= from
    BY YearsAssumption
  <2>3. Sound(public, runs, At("start", from, from, to, first))
    BY <2>1, <2>2, AtSound, Typed
  <2>4. UNCHANGED <<public, cache, runs>>
    BY <1>1 DEF Launch
  <2> QED
    BY <2>1, <2>3, <2>4, QuietTyped
<1>2. CASE Stop(p)
  BY <1>2, NotDoneSound, QuietTyped DEF Stop
<1> QED
  BY <1>1, <1>2

LEMMA StartRunTyped == ASSUME TypeInv, NEW p \in Importers, StartRun(p) PROVE TypeInv'
<1>1. PICK r \in 1..MaxRuns :
        /\ DOMAIN runs = 1..(r - 1)
        /\ runs' = [n \in 1..r |->
             IF n = r THEN [year |-> proc[p].year, status |-> "running", checksum |-> None]
             ELSE runs[n]]
        /\ proc' = [proc EXCEPT ![p].pc = "look", ![p].run = r]
  BY DEF StartRun
<1> DEFINE s == proc[p]
           t == [s EXCEPT !.pc = "look", !.run = r]
<1>2. s.pc = "start" /\ s.year \in Years
  BY Typed DEF StartRun, Sound
<1>3. SoundRuns(runs')
  <2>1. DOMAIN runs' = 1..r /\ r \in 0..MaxRuns
    BY <1>1, RunsAssumption
  <2>2. runs \in [1..(r - 1) -> Run]
    BY <1>1 DEF TypeInv, SoundRuns
  <2>3. [year |-> proc[p].year, status |-> "running", checksum |-> None] \in Run
    BY <1>2 DEF Run, None
  <2>4. \A n \in 1..r : n # r => n \in 1..(r - 1)
    OBVIOUS
  <2> QED
    BY <1>1, <2>1, <2>2, <2>3, <2>4 DEF SoundRuns
<1>4. Extends(runs, runs')
  BY <1>1 DEF Extends
<1>5. Sound(public', runs', t)
  <2>1. r \in DOMAIN runs' /\ runs'[r].year = s.year /\ public' = public
    BY <1>1 DEF StartRun
  <2>2. s \in Procs /\ Sound(public, runs, s)
    BY Typed
  <2> HIDE DEF s
  <2>3. t \in Procs
    <3>1. "look" \in PCs /\ r \in 0..MaxRuns
      BY RunsAssumption DEF PCs
    <3> QED
      BY <2>2, <3>1 DEF Procs
  <2>4. /\ t.pc = "look" /\ t.year = s.year /\ t.from = s.from /\ t.to = s.to
        /\ t.served = s.served /\ t.tag = s.tag /\ t.run = r
    BY <2>2 DEF Procs
  <2> HIDE DEF t
  <2> QED
    BY <2>1, <2>2, <2>3, <2>4, <1>2 DEF Sound
<1>6. public' = public /\ archive' = archive /\ etag' = etag
  BY DEF StartRun, cache
<1>7. SoundFiles(public, archive, etag)' /\ \A y \in Years : public[y] <= public'[y]
  BY <1>6 DEF TypeInv, SoundFiles
<1> QED
  BY <1>1, <1>3, <1>4, <1>5, <1>7, OneGoesOn


\* A step of a run that goes on.
LEMMA RunGoesOn ==
  ASSUME TypeInv, NEW p \in Importers, NEW t \in Procs, proc' = [proc EXCEPT ![p] = t],
         UNCHANGED <<public, runs>>, SoundFiles(public, archive, etag)',
         proc[p].pc \notin {"idle", "start"}, t.pc \notin {"idle", "start"},
         t.year = proc[p].year, t.from = proc[p].from, t.to = proc[p].to, t.run = proc[p].run,
         t.tag <= public[t.year], t.served <= public[t.year],
         t.pc = "commit" => t.opened \in 1..public[t.year] /\ Usable(FileAt(t.year, t.opened))
  PROVE  TypeInv'
<1>1. Sound(public, runs, t)
  <2> DEFINE s == proc[p]
  <2>1. Sound(public, runs, s)
    BY Typed
  <2> HIDE DEF s
  <2> QED
    BY <2>1 DEF Sound, s
<1>2. \A y \in Years : public[y] <= public'[y]
  BY Typed
<1>3. SoundRuns(runs') /\ Extends(runs, runs')
  BY DEF TypeInv, Extends
<1>4. public' = public /\ runs' = runs
  OBVIOUS
<1> HIDE DEF TypeInv
<1> QED
  BY <1>1, <1>2, <1>3, <1>4, OneGoesOn

\* What is known of an importer in the middle of a run.
LEMMA InTheMiddle ==
  ASSUME TypeInv, NEW p \in Importers, proc[p].pc \notin {"idle", "start"}
  PROVE  /\ proc[p] \in Procs /\ proc[p].year \in Years
         /\ proc[p].tag <= public[proc[p].year] /\ proc[p].served <= public[proc[p].year]
         /\ public[proc[p].year] \in Nat /\ archive[proc[p].year] \in Nat /\ etag[proc[p].year] \in Nat
         /\ archive[proc[p].year] <= public[proc[p].year] /\ etag[proc[p].year] <= public[proc[p].year]
         /\ proc[p].run \in DOMAIN runs /\ runs[proc[p].run].year = proc[p].year
<1>1. Sound(public, runs, proc[p])
  BY DEF TypeInv
<1>2. proc[p].year \in Years
  BY <1>1 DEF Sound
<1> QED
  BY <1>1, <1>2, Typed DEF Sound

\* Files that stay as they are.
LEMMA FilesStay ==
  ASSUME TypeInv, UNCHANGED <<public, cache>> PROVE SoundFiles(public, archive, etag)'
BY DEF TypeInv, SoundFiles, cache

\* The steps of Fetch.
LEMMA LookTyped == ASSUME TypeInv, NEW p \in Importers, Look(p) PROVE TypeInv'
<1> DEFINE s == proc[p]
           tag == IF archive[s.year] # None THEN etag[s.year] ELSE None
           t == [s EXCEPT !.pc = "ask", !.tag = tag]
<1>1. s \in Procs /\ proc' = [proc EXCEPT ![p] = t] /\ s.pc = "look"
      /\ UNCHANGED <<public, cache, runs>>
  BY InTheMiddle DEF Look, TypeInv
<1>2. tag \in Nat /\ tag <= public[s.year] /\ s.served <= public[s.year]
  BY <1>1, InTheMiddle DEF None
<1>3. /\ t \in Procs /\ t.pc = "ask" /\ t.year = s.year /\ t.from = s.from /\ t.to = s.to
      /\ t.run = s.run /\ t.tag = tag /\ t.served = s.served
  <2> HIDE DEF s, tag
  <2>1. "ask" \in PCs
    BY DEF PCs
  <2> QED
    BY <1>1, <1>2, <2>1 DEF Procs
<1> HIDE DEF t, tag
<1> QED
  BY <1>1, <1>2, <1>3, FilesStay, RunGoesOn

LEMMA NotModifiedTyped == ASSUME TypeInv, NEW p \in Importers, NotModified(p) PROVE TypeInv'
<1> DEFINE s == proc[p]
           t == [s EXCEPT !.pc = "sum", !.served = s.tag]
<1>1. s \in Procs /\ proc' = [proc EXCEPT ![p] = t] /\ s.pc = "ask"
      /\ UNCHANGED <<public, cache, runs>> /\ s.tag <= public[s.year]
  BY InTheMiddle DEF NotModified, TypeInv
<1>2. /\ t \in Procs /\ t.pc = "sum" /\ t.year = s.year /\ t.from = s.from /\ t.to = s.to
      /\ t.run = s.run /\ t.tag = s.tag /\ t.served = s.tag
  <2> HIDE DEF s
  <2>1. "sum" \in PCs
    BY DEF PCs
  <2> QED
    BY <1>1, <2>1 DEF Procs
<1> HIDE DEF t
<1> QED
  BY <1>1, <1>2, FilesStay, RunGoesOn

LEMMA SumTyped == ASSUME TypeInv, NEW p \in Importers, Sum(p) PROVE TypeInv'
<1> DEFINE s == proc[p]
           sum == archive[s.year]
           t == [s EXCEPT !.pc = "read", !.checksum = sum]
<1>1. s \in Procs /\ proc' = [proc EXCEPT ![p] = t] /\ s.pc = "sum" /\ sum \in Nat
      /\ UNCHANGED <<public, cache, runs>>
      /\ s.tag <= public[s.year] /\ s.served <= public[s.year]
  BY InTheMiddle DEF Sum, TypeInv
<1>2. /\ t \in Procs /\ t.pc = "read" /\ t.year = s.year /\ t.from = s.from /\ t.to = s.to
      /\ t.run = s.run /\ t.tag = s.tag /\ t.served = s.served
  <2> HIDE DEF s, sum
  <2>1. "read" \in PCs
    BY DEF PCs
  <2> QED
    BY <1>1, <2>1 DEF Procs
<1> HIDE DEF t, sum
<1> QED
  BY <1>1, <1>2, FilesStay, RunGoesOn

LEMMA DownloadedTyped == ASSUME TypeInv, NEW p \in Importers, Downloaded(p) PROVE TypeInv'
<1> DEFINE s == proc[p]
           e == public[s.year]
           t(tag) == [s EXCEPT !.pc = "rename", !.served = e, !.checksum = e, !.tag = tag]
<1>1. PICK tag \in {None, e} : proc' = [proc EXCEPT ![p] = t(tag)]
  BY Zenon DEF Downloaded
<1>2. s \in Procs /\ s.pc = "ask" /\ e \in Nat /\ tag \in Nat /\ tag <= e
      /\ UNCHANGED <<public, cache, runs>>
  BY InTheMiddle DEF Downloaded, None
<1>3. /\ t(tag) \in Procs /\ t(tag).pc = "rename" /\ t(tag).year = s.year
      /\ t(tag).from = s.from /\ t(tag).to = s.to
      /\ t(tag).run = s.run /\ t(tag).tag = tag /\ t(tag).served = e
  <2> HIDE DEF s, e
  <2>1. "rename" \in PCs
    BY DEF PCs
  <2> QED
    BY <1>2, <2>1 DEF Procs
<1>4. e <= public[s.year]
  BY <1>2
<1> HIDE DEF t
<1> QED
  BY <1>1, <1>2, <1>3, <1>4, FilesStay, RunGoesOn

LEMMA RenameTyped == ASSUME TypeInv, NEW p \in Importers, Rename(p) PROVE TypeInv'
<1> DEFINE s == proc[p]
           pc == IF s.tag = None THEN "read" ELSE "open"
           t == [s EXCEPT !.pc = pc]
<1>1. s \in Procs /\ proc' = [proc EXCEPT ![p] = t] /\ s.pc = "rename" /\ s.year \in Years
      /\ archive' = [archive EXCEPT ![s.year] = s.served] /\ UNCHANGED <<public, etag, runs>>
      /\ s.tag <= public[s.year] /\ s.served <= public[s.year] /\ s.served \in Nat
  BY InTheMiddle DEF Rename, TypeInv, Procs
<1>2. /\ t \in Procs /\ t.pc = pc /\ t.year = s.year /\ t.from = s.from /\ t.to = s.to
      /\ t.run = s.run /\ t.tag = s.tag /\ t.served = s.served
  <2>1. pc \in PCs
    BY DEF PCs
  <2> HIDE DEF s, pc
  <2> QED
    BY <1>1, <2>1 DEF Procs
<1>3. SoundFiles(public, archive, etag)'
  <2> HIDE DEF s
  <2> QED
    BY <1>1 DEF TypeInv, SoundFiles
<1>4. pc \notin {"idle", "start", "commit"}
  OBVIOUS
<1> HIDE DEF t, pc
<1> QED
  BY <1>1, <1>2, <1>3, <1>4, RunGoesOn

\* The ETag.
LEMMA NoteTyped ==
  ASSUME TypeInv, NEW p \in Importers, Truncate(p) \/ Note(p) \/ NoNote(p) PROVE TypeInv'
<1> DEFINE s == proc[p]
           t(pc) == [s EXCEPT !.pc = pc]
<1>1. s \in Procs /\ s.pc \in {"open", "note"} /\ s.year \in Years
      /\ UNCHANGED <<public, archive, runs>>
      /\ s.tag <= public[s.year] /\ s.served <= public[s.year] /\ s.tag \in Nat
  BY InTheMiddle DEF Truncate, Note, NoNote, cache, Procs
<1>2. \E pc \in {"note", "read"} : proc' = [proc EXCEPT ![p] = t(pc)]
  BY DEF Truncate, Note, NoNote, TypeInv
<1>3. PICK pc \in {"note", "read"} : proc' = [proc EXCEPT ![p] = t(pc)]
  BY <1>2
<1>4. /\ t(pc) \in Procs /\ t(pc).pc = pc /\ t(pc).year = s.year /\ t(pc).from = s.from
      /\ t(pc).to = s.to /\ t(pc).run = s.run /\ t(pc).tag = s.tag /\ t(pc).served = s.served
  <2>1. pc \in PCs
    BY DEF PCs
  <2> HIDE DEF s
  <2> QED
    BY <1>1, <2>1 DEF Procs
<1>5. SoundFiles(public, archive, etag)'
  <2>1. etag' = etag \/ \E tag \in {None, s.tag} : etag' = [etag EXCEPT ![s.year] = tag]
    BY DEF Truncate, Note, NoNote, cache
  <2> HIDE DEF s
  <2> QED
    BY <1>1, <2>1 DEF TypeInv, SoundFiles, None
<1> HIDE DEF t
<1> QED
  BY <1>1, <1>3, <1>4, <1>5, RunGoesOn

\* The import.
LEMMA ReadTyped == ASSUME TypeInv, NEW p \in Importers, Read(p) PROVE TypeInv'
<1> DEFINE s == proc[p]
           e == archive[s.year]
           pc == IF Usable(FileAt(s.year, e)) THEN "commit" ELSE "failing"
           t == [s EXCEPT !.pc = pc, !.opened = e]
<1>1. s \in Procs /\ proc' = [proc EXCEPT ![p] = t] /\ s.pc = "read"
      /\ UNCHANGED <<public, cache, runs>>
      /\ s.tag <= public[s.year] /\ s.served <= public[s.year]
      /\ e \in 1..public[s.year]
  <2>1. s.pc = "read" /\ UNCHANGED <<public, cache, runs>> /\ e # None
    BY DEF Read
  <2>2. proc' = [proc EXCEPT ![p] = t]
    BY DEF Read, TypeInv
  <2>3. /\ s \in Procs /\ s.tag <= public[s.year] /\ s.served <= public[s.year]
        /\ e \in Nat /\ public[s.year] \in Nat /\ e <= public[s.year]
    BY <2>1, InTheMiddle
  <2> HIDE DEF s, e, t
  <2> QED
    BY <2>1, <2>2, <2>3 DEF None
<1>2. /\ t \in Procs /\ t.pc = pc /\ t.year = s.year /\ t.from = s.from /\ t.to = s.to
      /\ t.run = s.run /\ t.tag = s.tag /\ t.served = s.served /\ t.opened = e
  <2>1. pc \in PCs /\ e \in Nat
    BY <1>1 DEF PCs
  <2> HIDE DEF s, pc, e
  <2> QED
    BY <1>1, <2>1 DEF Procs
<1>3. pc \notin {"idle", "start"} /\ (pc = "commit" => Usable(FileAt(s.year, e)))
  OBVIOUS
<1> HIDE DEF t, pc, e
<1> QED
  BY <1>1, <1>2, <1>3, FilesStay, RunGoesOn

LEMMA CommitTyped == ASSUME TypeInv, NEW p \in Importers, Commit(p) PROVE TypeInv'
<1> DEFINE s == proc[p]
           t(pc) == [s EXCEPT !.pc = pc]
<1>1. PICK pc \in {"finish", "failing"} : proc' = [proc EXCEPT ![p] = t(pc)]
  BY DEF Commit, TypeInv
<1>2. s \in Procs /\ s.pc = "commit" /\ UNCHANGED <<public, cache, runs>>
      /\ s.tag <= public[s.year] /\ s.served <= public[s.year]
  BY InTheMiddle DEF Commit
<1>3. /\ t(pc) \in Procs /\ t(pc).pc = pc /\ t(pc).year = s.year /\ t(pc).from = s.from
      /\ t(pc).to = s.to /\ t(pc).run = s.run /\ t(pc).tag = s.tag /\ t(pc).served = s.served
  <2>1. pc \in PCs
    BY DEF PCs
  <2> HIDE DEF s
  <2> QED
    BY <1>2, <2>1 DEF Procs
<1> HIDE DEF t
<1> QED
  BY <1>1, <1>2, <1>3, FilesStay, RunGoesOn

LEMMA FailTyped == ASSUME TypeInv, NEW p \in Importers, Fail(p) PROVE TypeInv'
<1> DEFINE s == proc[p]
           sum == IF s.pc \in {"read", "commit"} THEN s.checksum ELSE None
           t == [s EXCEPT !.pc = "failing", !.checksum = sum]
<1>1. s \in Procs /\ s.pc \notin {"idle", "start"}
      /\ UNCHANGED <<public, cache, runs>>
      /\ s.tag <= public[s.year] /\ s.served <= public[s.year]
  BY InTheMiddle DEF Fail
<1>2. sum \in Nat
  BY <1>1 DEF None, Procs
<1>3. proc' = [proc EXCEPT ![p] = t]
  BY DEF Fail, AfterError, TypeInv
<1>4. /\ t \in Procs /\ t.pc = "failing" /\ t.year = s.year /\ t.from = s.from /\ t.to = s.to
      /\ t.run = s.run /\ t.tag = s.tag /\ t.served = s.served
  <2>1. "failing" \in PCs
    BY DEF PCs
  <2> HIDE DEF s, sum
  <2> QED
    BY <1>1, <1>2, <2>1 DEF Procs
<1> HIDE DEF t
<1> QED
  BY <1>1, <1>3, <1>4, FilesStay, RunGoesOn

\* What an importer goes on to.
LEMMA AdvanceSound ==
  ASSUME TypeInv, NEW p \in Importers, proc[p].pc \in {"finish", "failing"}, NEW recorded
  PROVE  Sound(public, recorded, Advance(p))
<1> DEFINE s == proc[p]
<1>1. /\ s.year \in Years /\ s.from \in Years /\ s.to \in Years /\ s.first \in 1..(MaxRuns + 1)
      /\ s.from <= s.year /\ s.year <= s.to /\ public \in [Years -> Nat]
  BY Typed DEF Sound, Procs
<1>2. s.year < s.to => s.year + 1 \in Years /\ s.from <= s.year + 1 /\ s.year + 1 <= s.to
  <2> HIDE DEF s
  <2>1. s.year \in Int /\ s.from \in Int /\ s.to \in Int
    BY <1>1, YearsAssumption
  <2>2. s.year < s.to => s.year + 1 \in s.from..s.to /\ s.from <= s.year + 1 /\ s.year + 1 <= s.to
    BY <1>1, <2>1
  <2>3. s.from..s.to \subseteq Years
    BY <1>1, YearsAssumption
  <2> QED
    BY <2>2, <2>3
<1>3. s.year < s.to =>
        Sound(public, recorded, At("start", s.year + 1, s.from, s.to, s.first))
  BY <1>1, <1>2, AtSound
<1>4. Sound(public, recorded, At("idle", s.year, s.from, s.to, s.first))
  BY <1>1, AtSound
<1> QED
  BY <1>3, <1>4, NotDoneSound DEF Advance

LEMMA FinishTyped == ASSUME TypeInv, NEW p \in Importers, Finish(p) PROVE TypeInv'
<1> DEFINE s == proc[p]
           status == IF s.pc = "failing" THEN "failed" ELSE "succeeded"
           row == [year |-> runs[s.run].year, checksum |-> s.checksum, status |-> status]
<1>1. /\ s.pc \in {"finish", "failing"} /\ s.checksum \in Nat /\ s.run \in DOMAIN runs
      /\ runs' = [runs EXCEPT ![s.run] = row] /\ proc' = [proc EXCEPT ![p] = Advance(p)]
      /\ public' = public /\ UNCHANGED cache
  BY InTheMiddle DEF Finish, Procs
<1>2. row \in Run /\ row.year = runs[s.run].year
  <2>1. status \in {"running", "succeeded", "failed"} /\ runs[s.run].year \in Years
    BY <1>1, InTheMiddle
  <2> HIDE DEF status, s
  <2> QED
    BY <1>1, <2>1 DEF Run
<1>3. SoundRuns(runs') /\ Extends(runs, runs')
  <2> HIDE DEF row, s
  <2> QED
    BY <1>1, <1>2 DEF TypeInv, SoundRuns, Extends
<1>4. Sound(public', runs', Advance(p))
  BY <1>1, AdvanceSound
<1>5. \A y \in Years : public[y] <= public'[y]
  BY <1>1, Typed
<1>6. SoundFiles(public, archive, etag)'
  BY <1>1, FilesStay
<1> HIDE DEF row, s, TypeInv
<1> QED
  BY <1>1, <1>3, <1>4, <1>5, <1>6, OneGoesOn

LEMMA NextTyped == TypeInv /\ [Next]_vars => TypeInv'
<1> SUFFICES ASSUME TypeInv, [Next]_vars PROVE TypeInv'
  OBVIOUS
<1>1. ASSUME NEW p \in Importers, Work(p) PROVE TypeInv'
  BY <1>1, CallTyped, StartRunTyped, LookTyped, NotModifiedTyped, SumTyped, DownloadedTyped,
     RenameTyped, NoteTyped, ReadTyped, CommitTyped, FailTyped, FinishTyped DEF Work
<1>2. CASE UNCHANGED vars
  <2>1. public' = public /\ archive' = archive /\ etag' = etag /\ runs' = runs /\ proc' = proc
    BY <1>2 DEF vars, cache
  <2> QED
    BY <2>1 DEF TypeInv, SoundFiles
<1> QED
  BY <1>1, <1>2, PublishTyped DEF Next

LEMMA TypeInvHolds == Spec => []TypeInv
BY InitTyped, NextTyped, PTL DEF Spec

(* Type correctness (TypeOK): every importer works on a published edition  *)
(* of a year it was asked for, and closes the run it has started for it.   *)
THEOREM TypeCorrect == Spec => []TypeOK
BY TypeInvHolds, TypeInvImplies, PTL

-----------------------------------------------------------------------------
(* What the import promises                                                *)

\* An edition that can be used is whole.
LEMMA UsableIsWhole == ASSUME NEW file, Usable(file) PROVE Whole(file)
BY DEF Usable, Whole

LEMMA InitStored == Init => Store!Init
BY DEF Init, Store!Init, Nothing, None

LEMMA PublishStored ==
  ASSUME TypeInv, NEW y \in Years, Publish(y) PROVE Store!Publish(y)
<1>1. DOMAIN Contents[y] = DOMAIN Editions[y]
  BY DEF Contents
<1> QED
  BY <1>1 DEF Publish, Store!Publish

LEMMA CommitStored ==
  ASSUME TypeInv, NEW p \in Importers, Commit(p) PROVE Store!Count(proc[p].year)
<1> DEFINE y == proc[p].year
           e == proc[p].opened
           rows == Staged(FileAt(y, e))
<1>1. y \in Years /\ e \in 1..public[y] /\ Usable(FileAt(y, e))
  BY Typed DEF Sound, Commit
<1>2. e \in DOMAIN Editions[y]
  BY <1>1 DEF TypeInv, SoundFiles
<1>3. rows \in Contents[y][e]
  <2>1. Contents[y][e] = {Staged(f) : f \in {g \in {Editions[y][e]} : Whole(g)}}
    BY <1>1, <1>2 DEF Contents
  <2>2. Editions[y][e] \in {g \in {Editions[y][e]} : Whole(g)}
    BY <1>1, UsableIsWhole DEF FileAt
  <2> QED
    BY <2>1, <2>2 DEF FileAt
<1>4. accidents' = Store!With(accidents, rows)
  BY DEF Commit, Merged, Store!With
<1>5. public' = public
  BY DEF Commit
<1> HIDE DEF rows
<1> QED
  BY <1>1, <1>3, <1>4, <1>5 DEF Store!Count

LEMMA NextStored == TypeInv /\ [Next]_vars => [Store!Next]_Store!vars
<1> SUFFICES ASSUME TypeInv, [Next]_vars PROVE [Store!Next]_Store!vars
  OBVIOUS
<1>1. ASSUME NEW y \in Years, Publish(y) PROVE Store!Next
  BY <1>1, PublishStored DEF Store!Next
<1>2. ASSUME NEW p \in Importers, Work(p) PROVE Store!Next \/ UNCHANGED Store!vars
  <2>1. CASE Commit(p)
    <3>1. proc[p].year \in Years
      BY <2>1, InTheMiddle DEF Commit
    <3> QED
      BY <2>1, <3>1, CommitStored DEF Store!Next
  <2>2. CASE ~Commit(p)
    <3>1. public' = public /\ accidents' = accidents
      BY <1>2, <2>2 DEF Work, Launch, StartRun, Look, NotModified, Sum, Downloaded, Rename,
         Truncate, Note, NoNote, Read, Fail, Finish, Stop
    <3> QED
      BY <3>1 DEF Store!vars
  <2> QED
    BY <2>1, <2>2
<1>3. CASE UNCHANGED vars
  BY <1>3 DEF vars, Store!vars
<1> QED
  BY <1>1, <1>2, <1>3 DEF Next

(* ImplementsStore: whatever fails, crashes or runs at the same time, the  *)
(* table only ever grows by the whole of a published edition (Import,      *)
(* "the whole year lands in one statement").                               *)
THEOREM StoreRefined == Spec => ImplementsStore
<1>1. Init => Store!Init
  BY InitStored
<1>2. TypeInv /\ [Next]_vars => [Store!Next]_Store!vars
  BY NextStored
<1> QED
  BY <1>1, <1>2, TypeInvHolds, PTL DEF Spec, ImplementsStore, Store!Spec

-----------------------------------------------------------------------------
(* Importers that keep apart                                               *)

Active(s) == s.pc \notin {"idle", "start"}

\* Nobody is at a year that somebody else is at: nothing in the code sees to it,
\* and all that follows needs it.
Apart ==
  \A p, q \in Importers : p # q /\ Active(proc[p]) /\ Active(proc[q]) =>
    proc[p].year # proc[q].year

\* How the importer's copy, its ETag and what the server served belong together.
Paired(arc, tags, s) ==
  /\ \A y \in Years : tags[y] <= arc[y]
  /\ s.pc = "ask" => s.tag <= arc[s.year]
  /\ s.pc = "sum" => arc[s.year] = s.served
  /\ s.pc = "rename" => s.checksum = s.served /\ s.tag <= s.served /\ arc[s.year] <= s.served
  /\ s.pc \in {"open", "note"} =>
       s.checksum = s.served /\ s.tag <= s.served /\ arc[s.year] = s.served
  /\ s.pc = "read" => s.checksum = s.served /\ arc[s.year] = s.served
  /\ s.pc \in {"commit", "finish"} => s.checksum = s.served /\ s.opened = s.served

\* What is left when a step is no longer, or not yet, about a file.
LEMMA PairedElsewhere ==
  ASSUME NEW arc, NEW tags, NEW s, \A y \in Years : tags[y] <= arc[y],
         s.pc \in {"idle", "start", "look", "failing"}
  PROVE  Paired(arc, tags, s)
BY DEF Paired

LEMMA InitPaired == ASSUME NEW p \in Importers, Init PROVE Paired(archive, etag, proc[p])
BY DEF Init, Paired, NotDone, At, None

LEMMA CallPaired ==
  ASSUME TypeInv, NEW p \in Importers, Paired(archive, etag, proc[p]),
         Launch(p) \/ StartRun(p) \/ Fail(p) \/ Finish(p) \/ Stop(p)
  PROVE  Paired(archive', etag', proc'[p])
<1>1. proc'[p].pc \in {"idle", "start", "look", "failing"}
  <2>1. CASE Launch(p)
    BY <2>1 DEF Launch, At, TypeInv
  <2>2. CASE StartRun(p)
    <3> DEFINE s == proc[p]
    <3>1. s \in Procs /\ \E r \in 1..MaxRuns : proc'[p] = [s EXCEPT !.pc = "look", !.run = r]
      BY <2>2, Typed DEF StartRun, TypeInv
    <3> HIDE DEF s
    <3> QED
      BY <3>1 DEF Procs
  <2>3. CASE Fail(p)
    <3> DEFINE s == proc[p]
               sum == IF s.pc \in {"read", "commit"} THEN s.checksum ELSE None
    <3>1. s \in Procs /\ proc'[p] = [s EXCEPT !.pc = "failing", !.checksum = sum]
      BY <2>3, Typed DEF Fail, AfterError, TypeInv
    <3> HIDE DEF s, sum
    <3> QED
      BY <3>1 DEF Procs
  <2>4. CASE Finish(p)
    BY <2>4 DEF Finish, Advance, NotDone, At, TypeInv
  <2>5. CASE Stop(p)
    BY <2>5 DEF Stop, NotDone, At, TypeInv
  <2> QED
    BY <2>1, <2>2, <2>3, <2>4, <2>5
<1>2. archive' = archive /\ etag' = etag
  BY DEF Launch, StartRun, Fail, Finish, Stop, cache
<1>3. \A y \in Years : etag'[y] <= archive'[y]
  BY <1>2 DEF Paired
<1> QED
  BY <1>1, <1>3, PairedElsewhere

LEMMA AskPaired ==
  ASSUME TypeInv, NEW p \in Importers, Paired(archive, etag, proc[p]),
         Look(p) \/ NotModified(p) \/ Sum(p) \/ Downloaded(p)
  PROVE  Paired(archive', etag', proc'[p])
<1> DEFINE s == proc[p]
<1>1. /\ s \in Procs /\ s.year \in Years
      /\ public[s.year] \in Nat /\ archive[s.year] \in Nat /\ etag[s.year] \in Nat
      /\ archive[s.year] <= public[s.year] /\ etag[s.year] <= archive[s.year]
  BY InTheMiddle DEF Look, NotModified, Sum, Downloaded, Paired
<1>2. archive' = archive /\ etag' = etag
  BY DEF Look, NotModified, Sum, Downloaded, cache
<1>3. CASE Look(p)
  <2> DEFINE tag == IF archive[s.year] # None THEN etag[s.year] ELSE None
  <2>1. proc'[p] = [s EXCEPT !.pc = "ask", !.tag = tag]
    BY <1>3 DEF Look, TypeInv
  <2>2. tag <= archive[s.year]
    BY <1>1 DEF None
  <2> HIDE DEF s, tag
  <2>3. proc'[p].pc = "ask" /\ proc'[p].tag = tag /\ proc'[p].year = s.year
    BY <1>1, <2>1 DEF Procs
  <2> QED
    BY <1>2, <2>2, <2>3 DEF Paired
<1>4. CASE NotModified(p)
  <2>1. proc'[p] = [s EXCEPT !.pc = "sum", !.served = s.tag]
    BY <1>4 DEF NotModified, TypeInv
  <2>2. s.pc = "ask" /\ s.tag = public[s.year] /\ s.tag <= archive[s.year]
    BY <1>4 DEF NotModified, Paired
  <2>3. archive[s.year] = s.tag
    BY <1>1, <2>2
  <2> HIDE DEF s
  <2>4. proc'[p].pc = "sum" /\ proc'[p].served = s.tag /\ proc'[p].year = s.year
    BY <1>1, <2>1 DEF Procs
  <2> QED
    BY <1>2, <2>3, <2>4 DEF Paired
<1>5. CASE Sum(p)
  <2> DEFINE sum == archive[s.year]
  <2>1. proc'[p] = [s EXCEPT !.pc = "read", !.checksum = sum]
    BY <1>5 DEF Sum, TypeInv
  <2>2. sum = s.served
    BY <1>5 DEF Sum, Paired
  <2> HIDE DEF s, sum
  <2>3. /\ proc'[p].pc = "read" /\ proc'[p].served = s.served
        /\ proc'[p].checksum = sum /\ proc'[p].year = s.year
    BY <1>1, <2>1 DEF Procs
  <2> QED
    BY <1>2, <2>2, <2>3 DEF Paired, sum
<1>6. CASE Downloaded(p)
  <2> DEFINE e == public[s.year]
  <2>1. PICK tag \in {None, e} :
          proc'[p] = [s EXCEPT !.pc = "rename", !.served = e, !.checksum = e, !.tag = tag]
    BY <1>6 DEF Downloaded, TypeInv
  <2>2. tag <= e /\ archive[s.year] <= e
    BY <1>1 DEF None
  <2> HIDE DEF s, e
  <2>3. /\ proc'[p].pc = "rename" /\ proc'[p].served = e /\ proc'[p].checksum = e
        /\ proc'[p].tag = tag /\ proc'[p].year = s.year
    BY <1>1, <2>1 DEF Procs
  <2> QED
    BY <1>2, <2>2, <2>3 DEF Paired
<1> QED
  BY <1>3, <1>4, <1>5, <1>6

LEMMA FilePaired ==
  ASSUME TypeInv, NEW p \in Importers, Paired(archive, etag, proc[p]),
         Rename(p) \/ Truncate(p) \/ Note(p) \/ NoNote(p)
  PROVE  Paired(archive', etag', proc'[p])
<1> DEFINE s == proc[p]
<1>1. /\ s \in Procs /\ s.year \in Years /\ s.served \in Nat /\ s.tag \in Nat
      /\ archive \in [Years -> Nat] /\ etag \in [Years -> Nat]
  BY InTheMiddle DEF Rename, Truncate, Note, NoNote, TypeInv, SoundFiles, Procs
<1>2. \A y \in Years : etag[y] <= archive[y]
  BY DEF Paired
<1>3. CASE Rename(p)
  <2> DEFINE pc == IF s.tag = None THEN "read" ELSE "open"
  <2>1. proc'[p] = [s EXCEPT !.pc = pc]
    BY <1>3 DEF Rename, TypeInv
  <2>2. /\ s.checksum = s.served /\ s.tag <= s.served /\ archive[s.year] <= s.served
        /\ archive' = [archive EXCEPT ![s.year] = s.served] /\ etag' = etag
    BY <1>3 DEF Rename, Paired
  <2>3. pc \in {"read", "open"}
    OBVIOUS
  <2> HIDE DEF s, pc
  <2>4. /\ proc'[p].pc = pc /\ proc'[p].served = s.served /\ proc'[p].checksum = s.checksum
        /\ proc'[p].tag = s.tag /\ proc'[p].year = s.year
    BY <1>1, <2>1 DEF Procs
  <2>5. archive'[s.year] = s.served /\ \A y \in Years : etag'[y] <= archive'[y]
    BY <1>1, <1>2, <2>2
  <2> QED
    BY <2>2, <2>3, <2>4, <2>5 DEF Paired
<1>4. CASE Truncate(p) \/ Note(p) \/ NoNote(p)
  <2>1. PICK pc \in {"note", "read"} : proc'[p] = [s EXCEPT !.pc = pc]
    BY <1>4 DEF Truncate, Note, NoNote, TypeInv
  <2>2. s.checksum = s.served /\ s.tag <= s.served /\ archive[s.year] = s.served
    BY <1>4 DEF Truncate, Note, NoNote, Paired
  <2>3. archive' = archive
        /\ (etag' = etag \/ \E tag \in {None, s.tag} : etag' = [etag EXCEPT ![s.year] = tag])
    BY <1>4 DEF Truncate, Note, NoNote, cache
  <2> HIDE DEF s
  <2>4. /\ proc'[p].pc = pc /\ proc'[p].served = s.served /\ proc'[p].checksum = s.checksum
        /\ proc'[p].tag = s.tag /\ proc'[p].year = s.year
    BY <1>1, <2>1 DEF Procs
  <2>5. \A y \in Years : etag'[y] <= archive'[y]
    BY <1>1, <1>2, <2>2, <2>3 DEF None
  <2> QED
    BY <2>2, <2>3, <2>4, <2>5 DEF Paired
<1> QED
  BY <1>3, <1>4

LEMMA ImportPaired ==
  ASSUME TypeInv, NEW p \in Importers, Paired(archive, etag, proc[p]), Read(p) \/ Commit(p)
  PROVE  Paired(archive', etag', proc'[p])
<1> DEFINE s == proc[p]
<1>1. s \in Procs /\ archive' = archive /\ etag' = etag /\ \A y \in Years : etag[y] <= archive[y]
  BY Typed DEF Read, Commit, cache, Paired
<1>2. CASE Read(p)
  <2> DEFINE e == archive[s.year]
             pc == IF Usable(FileAt(s.year, e)) THEN "commit" ELSE "failing"
  <2>1. proc'[p] = [s EXCEPT !.pc = pc, !.opened = e]
    BY <1>2 DEF Read, TypeInv
  <2>2. s.checksum = s.served /\ e = s.served
    BY <1>2 DEF Read, Paired
  <2>3. pc \in {"commit", "failing"}
    OBVIOUS
  <2> HIDE DEF s, e, pc
  <2>4. /\ proc'[p].pc = pc /\ proc'[p].served = s.served /\ proc'[p].checksum = s.checksum
        /\ proc'[p].opened = e
    BY <1>1, <2>1 DEF Procs
  <2> QED
    BY <1>1, <2>2, <2>3, <2>4 DEF Paired
<1>3. CASE Commit(p)
  <2>1. PICK pc \in {"finish", "failing"} : proc'[p] = [s EXCEPT !.pc = pc]
    BY <1>3 DEF Commit, TypeInv
  <2>2. s.checksum = s.served /\ s.opened = s.served
    BY <1>3 DEF Commit, Paired
  <2> HIDE DEF s
  <2>3. /\ proc'[p].pc = pc /\ proc'[p].served = s.served /\ proc'[p].checksum = s.checksum
        /\ proc'[p].opened = s.opened
    BY <1>1, <2>1 DEF Procs
  <2> QED
    BY <1>1, <2>2, <2>3 DEF Paired
<1> QED
  BY <1>2, <1>3

\* The others are not concerned: theirs are other years.
LEMMA OthersPaired ==
  ASSUME TypeInv, Apart, NEW p \in Importers, NEW q \in Importers, p # q,
         Paired(archive, etag, proc[q]), Work(p), Paired(archive', etag', proc'[p])
  PROVE  Paired(archive', etag', proc'[q])
<1>1. proc'[q] = proc[q]
  BY DEF Work, Launch, StartRun, Look, NotModified, Sum, Downloaded, Rename, Truncate, Note,
     NoNote, Read, Commit, Fail, Finish, Stop, TypeInv
<1>2. \A y \in Years : etag'[y] <= archive'[y]
  BY DEF Paired
<1>3. Active(proc[q]) => archive'[proc[q].year] = archive[proc[q].year]
  <2>1. CASE Rename(p)
    <3>1. Active(proc[p]) /\ archive' = [archive EXCEPT ![proc[p].year] = proc[p].served]
      BY <2>1 DEF Rename, Active
    <3> QED
      BY <3>1 DEF Apart
  <2>2. CASE ~Rename(p)
    <3>1. archive' = archive
      BY <2>2 DEF Work, Launch, StartRun, Look, NotModified, Sum, Downloaded, Truncate, Note,
         NoNote, Read, Commit, Fail, Finish, Stop, cache
    <3> QED
      BY <3>1
  <2> QED
    BY <2>1, <2>2
<1> QED
  BY <1>1, <1>2, <1>3 DEF Paired, Active

AllPaired ==
  /\ \A y \in Years : etag[y] <= archive[y]
  /\ \A p \in Importers : Paired(archive, etag, proc[p])

LEMMA NextPaired == TypeInv /\ Apart /\ AllPaired /\ [Next]_vars => AllPaired'
<1> SUFFICES ASSUME TypeInv, Apart, AllPaired, [Next]_vars PROVE AllPaired'
  OBVIOUS
<1>1. ASSUME NEW p \in Importers, Work(p) PROVE AllPaired'
  <2>1. Paired(archive', etag', proc'[p])
    BY <1>1, CallPaired, AskPaired, FilePaired, ImportPaired DEF Work, AllPaired
  <2>2. ASSUME NEW q \in Importers, q # p PROVE Paired(archive', etag', proc'[q])
    BY <1>1, <2>1, <2>2, OthersPaired DEF AllPaired
  <2> QED
    BY <2>1, <2>2 DEF AllPaired, Paired
<1>2. ASSUME NEW y \in Years, Publish(y) PROVE AllPaired'
  BY <1>2 DEF Publish, cache, AllPaired
<1>3. CASE UNCHANGED vars
  BY <1>3 DEF vars, cache, AllPaired
<1> QED
  BY <1>1, <1>2, <1>3 DEF Next

LEMMA PairedHolds == Spec /\ []Apart => []AllPaired
<1>1. Init => AllPaired
  BY InitPaired DEF AllPaired, Init, None
<1> QED
  BY <1>1, NextPaired, TypeInvHolds, PTL DEF Spec

\* One importer keeps apart from all others.
LEMMA AloneIsApart ==
  ASSUME NEW p \in Importers, Importers = {p}
  PROVE  Apart
BY DEF Apart

(* CountsWhatWasServed: with importers that keep apart, what Fetch returns *)
(* is what the server has sent or confirmed, wherever an earlier call was  *)
(* interrupted and whatever is published meanwhile.                        *)
THEOREM ServedApart == Spec /\ []Apart => []CountsWhatWasServed
<1>1. AllPaired => CountsWhatWasServed
  BY DEF AllPaired, Paired, CountsWhatWasServed
<1> QED
  BY <1>1, PairedHolds, PTL

(* ConfirmedIsCurrent: with importers that keep apart, an ETag the server  *)
(* would confirm is that of a copy which is current (Download.Cached).     *)
THEOREM ConfirmedApart == Spec /\ []Apart => []ConfirmedIsCurrent
<1>1. TypeInv /\ AllPaired => ConfirmedIsCurrent
  <2> SUFFICES ASSUME TypeInv, AllPaired, NEW y \in Years, etag[y] = public[y]
               PROVE  archive[y] = public[y]
    BY DEF ConfirmedIsCurrent
  <2>1. etag[y] <= archive[y] /\ archive[y] <= public[y]
    BY DEF AllPaired, TypeInv, SoundFiles
  <2>2. archive[y] \in Nat /\ public[y] \in Nat
    BY DEF TypeInv, SoundFiles
  <2> QED
    BY <2>1, <2>2
<1> QED
  BY <1>1, PairedHolds, TypeInvHolds, PTL

-----------------------------------------------------------------------------
(* What a succeeded run stands for                                         *)

CountInv ==
  /\ \A p \in Importers : proc[p].pc = "finish" => Counted(accidents, proc[p].year, proc[p].opened)
  /\ SucceededIsCounted

\* The table grows, so what is counted stays counted.
LEMMA TableGrows == ASSUME [Next]_vars PROVE DOMAIN accidents \subseteq DOMAIN accidents'
<1>1. ASSUME NEW p \in Importers, Commit(p) PROVE DOMAIN accidents \subseteq DOMAIN accidents'
  BY <1>1 DEF Commit, Merged
<1>2. ASSUME NEW p \in Importers, Work(p), ~Commit(p) PROVE accidents' = accidents
  BY <1>2 DEF Work, Launch, StartRun, Look, NotModified, Sum, Downloaded, Rename,
     Truncate, Note, NoNote, Read, Fail, Finish, Stop
<1>3. ASSUME NEW y \in Years, Publish(y) PROVE accidents' = accidents
  BY <1>3 DEF Publish
<1>4. CASE UNCHANGED vars
  BY <1>4 DEF vars
<1> QED
  BY <1>1, <1>2, <1>3, <1>4 DEF Next

LEMMA CountedStays ==
  ASSUME NEW table, NEW table2, DOMAIN table \subseteq DOMAIN table2,
         NEW y, NEW e, Counted(table, y, e)
  PROVE  Counted(table2, y, e)
BY DEF Counted

\* The table after the transaction of p has the edition that p has read.
LEMMA CommitCounts ==
  ASSUME TypeInv, NEW p \in Importers, Commit(p)
  PROVE  /\ Counted(accidents', proc[p].year, proc[p].opened)
         /\ proc'[p].year = proc[p].year /\ proc'[p].opened = proc[p].opened
<1> DEFINE s == proc[p]
<1>1. Sound(public, runs, s) /\ s \in Procs /\ s.pc = "commit"
  BY Typed DEF Commit
<1>2. s.year \in Years /\ s.opened \in DOMAIN Editions[s.year]
  BY <1>1 DEF Sound, TypeInv, SoundFiles
<1>3. DOMAIN Staged(FileAt(s.year, s.opened)) \subseteq DOMAIN accidents'
  <2> DEFINE rows == Staged(FileAt(s.year, s.opened))
  <2>1. accidents' = Merged(accidents, rows)
    BY DEF Commit
  <2> HIDE DEF rows
  <2>2. DOMAIN rows \subseteq DOMAIN accidents'
    BY <2>1 DEF Merged
  <2> QED
    BY <2>2 DEF rows
<1>4. proc'[p].year = s.year /\ proc'[p].opened = s.opened
  <2>1. PICK pc \in {"finish", "failing"} : proc'[p] = [s EXCEPT !.pc = pc]
    BY DEF Commit, TypeInv
  <2> HIDE DEF s
  <2> QED
    BY <1>1, <2>1 DEF Procs
<1> QED
  BY <1>2, <1>3, <1>4 DEF Counted

\* Nobody else comes to finish.
LEMMA OnlyCommitFinishes ==
  ASSUME TypeInv, NEW p \in Importers, Work(p), ~Commit(p) PROVE proc'[p].pc # "finish"
<1> DEFINE s == proc[p]
<1>1. s \in Procs
  BY Typed
<1>2. CASE Launch(p) \/ StartRun(p) \/ Fail(p) \/ Finish(p) \/ Stop(p)
  <2>1. CASE StartRun(p)
    <3>1. PICK r \in 1..MaxRuns : proc'[p] = [s EXCEPT !.pc = "look", !.run = r]
      BY <2>1 DEF StartRun, TypeInv
    <3> HIDE DEF s
    <3> QED
      BY <1>1, <3>1 DEF Procs
  <2>2. CASE Fail(p)
    <3>1. proc'[p] = AfterError(p)
      BY <2>2 DEF Fail, TypeInv
    <3>2. \E sum : AfterError(p) = [s EXCEPT !.pc = "failing", !.checksum = sum]
      BY DEF AfterError
    <3> HIDE DEF s
    <3> QED
      BY <1>1, <3>1, <3>2 DEF Procs
  <2>3. CASE Launch(p) \/ Finish(p) \/ Stop(p)
    BY <2>3 DEF Launch, Finish, Stop, Advance, NotDone, At, TypeInv
  <2> QED
    BY <1>2, <2>1, <2>2, <2>3
<1>3. CASE Look(p) \/ NotModified(p) \/ Sum(p) \/ Downloaded(p)
  <2>1. CASE Look(p)
    <3>1. \E tag : proc'[p] = [s EXCEPT !.pc = "ask", !.tag = tag]
      BY <2>1 DEF Look, TypeInv
    <3> HIDE DEF s
    <3> QED
      BY <1>1, <3>1 DEF Procs
  <2>2. CASE NotModified(p)
    <3>1. \E e : proc'[p] = [s EXCEPT !.pc = "sum", !.served = e]
      BY <2>2 DEF NotModified, TypeInv
    <3> HIDE DEF s
    <3> QED
      BY <1>1, <3>1 DEF Procs
  <2>3. CASE Sum(p)
    <3>1. \E sum : proc'[p] = [s EXCEPT !.pc = "read", !.checksum = sum]
      BY <2>3 DEF Sum, TypeInv
    <3> HIDE DEF s
    <3> QED
      BY <1>1, <3>1 DEF Procs
  <2>4. CASE Downloaded(p)
    <3> DEFINE e == public[s.year]
    <3>1. PICK tag \in {None, e} :
            proc'[p] = [s EXCEPT !.pc = "rename", !.served = e, !.checksum = e, !.tag = tag]
      BY <2>4 DEF Downloaded, TypeInv
    <3> HIDE DEF e
    <3> HIDE DEF s
    <3> QED
      BY <1>1, <3>1 DEF Procs
  <2> QED
    BY <1>3, <2>1, <2>2, <2>3, <2>4
<1>4. CASE Rename(p) \/ Truncate(p) \/ Note(p) \/ NoNote(p)
  <2>1. \E pc \in {"read", "open", "note"} : proc'[p] = [s EXCEPT !.pc = pc]
    BY <1>4 DEF Rename, Truncate, Note, NoNote, TypeInv
  <2> HIDE DEF s
  <2> QED
    BY <1>1, <2>1 DEF Procs
<1>5. CASE Read(p)
  <2>1. \E pc \in {"commit", "failing"} : \E e : proc'[p] = [s EXCEPT !.pc = pc, !.opened = e]
    <3> DEFINE e == archive[s.year]
               pc == IF Usable(FileAt(s.year, e)) THEN "commit" ELSE "failing"
    <3>1. pc \in {"commit", "failing"} /\ proc'[p] = [s EXCEPT !.pc = pc, !.opened = e]
      BY <1>5 DEF Read, TypeInv
    <3> HIDE DEF s, pc, e
    <3> QED
      BY <3>1
  <2> HIDE DEF s
  <2> QED
    BY <1>1, <2>1 DEF Procs
<1> QED
  BY <1>2, <1>3, <1>4, <1>5 DEF Work

LEMMA FinishCounts ==
  ASSUME NEW p \in Importers, TypeInv, Paired(archive, etag, proc[p]), CountInv, Finish(p)
  PROVE  SucceededIsCounted'
<1> DEFINE s == proc[p]
<1>1. DOMAIN runs' = DOMAIN runs /\ accidents' = accidents
  BY DEF Finish
<1> SUFFICES ASSUME NEW r \in DOMAIN runs, runs'[r].status = "succeeded"
             PROVE  Counted(accidents', runs'[r].year, runs'[r].checksum)
  BY <1>1 DEF SucceededIsCounted
<1>2. DOMAIN accidents \subseteq DOMAIN accidents'
  BY <1>1
<1>3. CASE r = s.run
  <2>1. /\ runs'[r].year = runs[r].year /\ runs'[r].checksum = s.checksum /\ s.pc = "finish"
    BY <1>3 DEF Finish
  <2>2. runs[r].year = s.year
    BY <1>3, <2>1, InTheMiddle
  <2>3. s.checksum = s.opened /\ Counted(accidents, s.year, s.opened)
    BY <2>1 DEF Paired, CountInv
  <2>4. Counted(accidents, runs'[r].year, runs'[r].checksum)
    BY <2>1, <2>2, <2>3
  <2> QED
    BY <1>2, <2>4, CountedStays
<1>4. CASE r # s.run
  <2>1. runs'[r] = runs[r]
    BY <1>4 DEF Finish
  <2>2. Counted(accidents, runs'[r].year, runs'[r].checksum)
    BY <2>1 DEF CountInv, SucceededIsCounted
  <2> QED
    BY <1>2, <2>2, CountedStays
<1> QED
  BY <1>3, <1>4

LEMMA NextCounted ==
  ASSUME TypeInv, AllPaired, CountInv, [Next]_vars
  PROVE  CountInv'
<1>1. DOMAIN accidents \subseteq DOMAIN accidents'
  BY TableGrows
<1>2. ASSUME NEW p \in Importers, proc'[p].pc = "finish"
      PROVE  Counted(accidents', proc'[p].year, proc'[p].opened)
  <2>1. CASE Commit(p)
    <3>1. Counted(accidents', proc'[p].year, proc'[p].opened)
      BY <2>1, CommitCounts
    <3> QED
      BY <3>1
  <2>2. CASE Work(p) /\ ~Commit(p)
    BY <1>2, <2>2, OnlyCommitFinishes
  <2>3. CASE proc'[p] = proc[p]
    <3>1. Counted(accidents, proc'[p].year, proc'[p].opened)
      BY <1>2, <2>3 DEF CountInv
    <3> QED
      BY <1>1, <3>1, CountedStays
  <2>4. Work(p) \/ proc'[p] = proc[p]
    <3>1. ASSUME NEW q \in Importers, Work(q), q # p PROVE proc'[p] = proc[p]
      BY <3>1 DEF Work, Launch, StartRun, Look, NotModified, Sum, Downloaded, Rename, Truncate,
         Note, NoNote, Read, Commit, Fail, Finish, Stop, TypeInv
    <3> QED
      BY <3>1 DEF Next, Publish, vars
  <2> QED
    BY <2>1, <2>2, <2>3, <2>4
<1>3. SucceededIsCounted'
  <2>1. CASE \E p \in Importers : Finish(p)
    BY <2>1, FinishCounts DEF AllPaired
  <2>2. CASE ~\E p \in Importers : Finish(p)
    <3>1. \A r \in DOMAIN runs' : runs'[r].status = "succeeded" =>
            r \in DOMAIN runs /\ runs'[r] = runs[r]
      <4>1. ASSUME NEW p \in Importers, StartRun(p)
            PROVE  \A r \in DOMAIN runs' : runs'[r].status = "succeeded" =>
                     r \in DOMAIN runs /\ runs'[r] = runs[r]
        BY <4>1 DEF StartRun
      <4>2. CASE runs' = runs
        BY <4>2
      <4>3. ASSUME NEW p \in Importers, Work(p), ~StartRun(p) PROVE runs' = runs
        BY <2>2, <4>3 DEF Work, Launch, Look, NotModified, Sum, Downloaded, Rename, Truncate,
                          Note, NoNote, Read, Commit, Fail, Stop
      <4>4. CASE UNCHANGED vars \/ \E y \in Years : Publish(y)
        BY <4>4 DEF Publish, vars
      <4> QED
        BY <4>1, <4>2, <4>3, <4>4 DEF Next
    <3>2. ASSUME NEW r \in DOMAIN runs', runs'[r].status = "succeeded"
          PROVE  Counted(accidents', runs'[r].year, runs'[r].checksum)
      <4>1. Counted(accidents, runs'[r].year, runs'[r].checksum)
        BY <3>1, <3>2 DEF CountInv, SucceededIsCounted
      <4> QED
        BY <1>1, <4>1, CountedStays
    <3> QED
      BY <3>2 DEF SucceededIsCounted
  <2> QED
    BY <2>1, <2>2
<1> QED
  BY <1>2, <1>3 DEF CountInv

(* SucceededIsCounted: with importers that keep apart, the table holds     *)
(* every accident of the edition whose checksum a succeeded run records    *)
(* (importrun.Finish after the transaction of Import).                     *)
THEOREM SucceededCounted == Spec /\ []Apart => []SucceededIsCounted
<1>1. Init => CountInv
  BY DEF Init, CountInv, SucceededIsCounted, NotDone, At, Nothing
<1>2. TypeInv /\ AllPaired /\ CountInv /\ [Next]_vars => CountInv'
  BY NextCounted
<1>3. CountInv => SucceededIsCounted
  BY DEF CountInv
<1> QED
  BY <1>1, <1>2, <1>3, TypeInvHolds, PairedHolds, PTL DEF Spec

-----------------------------------------------------------------------------
(* What a call that ends without an error has done                         *)

\* The call of s has imported its years up to last.
Complete(recorded, s, last) ==
  \A y \in s.from..last : \E r \in DOMAIN recorded :
    r >= s.first /\ recorded[r].year = y /\ recorded[r].status = "succeeded"

\* The years before the one it is at are done; its run is open, and its own.
GoesOn(recorded, s) ==
  /\ s.pc = "idle" => Complete(recorded, s, s.to)
  /\ s.pc # "idle" => Complete(recorded, s, s.year - 1) /\ 1..(s.first - 1) \subseteq DOMAIN recorded
  /\ Active(s) => s.run >= s.first /\ recorded[s.run].status = "running"

OwnRuns ==
  \A p, q \in Importers : p # q /\ Active(proc[p]) /\ Active(proc[q]) => proc[p].run # proc[q].run

DoneInv == OwnRuns /\ \A p \in Importers : GoesOn(runs, proc[p])

\* Runs that are begun or ended by others make no difference.
LEMMA GoesOnStays ==
  ASSUME NEW recorded, NEW recorded2, NEW s, GoesOn(recorded, s),
         DOMAIN recorded \subseteq DOMAIN recorded2,
         \A r \in DOMAIN recorded : recorded[r].status = "succeeded" => recorded2[r] = recorded[r],
         Active(s) => recorded2[s.run] = recorded[s.run]
  PROVE  GoesOn(recorded2, s)
<1>1. ASSUME NEW last, Complete(recorded, s, last) PROVE Complete(recorded2, s, last)
  BY <1>1 DEF Complete
<1> QED
  BY <1>1 DEF GoesOn

\* A step of p that leaves the others and their runs alone.
LEMMA OneIsDone ==
  ASSUME TypeInv, DoneInv, NEW p \in Importers, proc' = [proc EXCEPT ![p] = proc'[p]],
         DOMAIN runs \subseteq DOMAIN runs',
         \A r \in DOMAIN runs : runs[r].status = "succeeded" => runs'[r] = runs[r],
         \A q \in Importers : q # p /\ Active(proc[q]) => runs'[proc[q].run] = runs[proc[q].run],
         GoesOn(runs', proc'[p]),
         Active(proc'[p]) =>
           \A q \in Importers : q # p /\ Active(proc[q]) => proc'[p].run # proc[q].run
  PROVE  DoneInv'
<1>1. \A q \in Importers : q # p => proc'[q] = proc[q]
  BY DEF TypeInv
<1>2. ASSUME NEW q \in Importers, q # p PROVE GoesOn(runs', proc'[q])
  <2>1. GoesOn(runs, proc[q])
    BY DEF DoneInv
  <2> QED
    BY <1>1, <1>2, <2>1, GoesOnStays
<1>3. OwnRuns'
  <2> SUFFICES ASSUME NEW q \in Importers, NEW o \in Importers, q # o,
                      Active(proc'[q]), Active(proc'[o])
               PROVE  proc'[q].run # proc'[o].run
    BY DEF OwnRuns, Active
  <2>1. CASE q = p
    BY <2>1, <1>1
  <2>2. CASE o = p
    BY <2>2, <1>1
  <2>3. CASE q # p /\ o # p
    BY <2>3, <1>1 DEF DoneInv, OwnRuns
  <2> QED
    BY <2>1, <2>2, <2>3
<1> QED
  BY <1>2, <1>3 DEF DoneInv

LEMMA NotDoneGoesOn == ASSUME NEW recorded PROVE GoesOn(recorded, NotDone) /\ ~Active(NotDone)
BY DEF GoesOn, NotDone, At, Complete, Active

LEMMA LaunchGoesOn ==
  ASSUME TypeInv, DoneInv, NEW p \in Importers, Launch(p) PROVE DoneInv'
<1>1. PICK from \in Years, to \in Years, first \in 1..(MaxRuns + 1) :
        /\ DOMAIN runs = 1..(first - 1)
        /\ proc' = [proc EXCEPT ![p] = At("start", from, from, to, first)]
  BY DEF Launch
<1>2. proc'[p] = At("start", from, from, to, first) /\ runs' = runs
  BY <1>1 DEF Launch, TypeInv
<1>3. GoesOn(runs', proc'[p]) /\ ~Active(proc'[p])
  <2>1. from \in Int
    BY YearsAssumption
  <2>2. from..(from - 1) = {}
    BY <2>1
  <2> QED
    BY <1>1, <1>2, <2>2 DEF GoesOn, Complete, At, Active
<1> QED
  BY <1>1, <1>2, <1>3, OneIsDone

LEMMA StopGoesOn ==
  ASSUME TypeInv, DoneInv, NEW p \in Importers, Stop(p) PROVE DoneInv'
<1>1. proc' = [proc EXCEPT ![p] = NotDone] /\ proc'[p] = NotDone /\ runs' = runs
  BY DEF Stop, TypeInv
<1> QED
  BY <1>1, NotDoneGoesOn, OneIsDone

LEMMA StartRunGoesOn ==
  ASSUME TypeInv, DoneInv, NEW p \in Importers, StartRun(p) PROVE DoneInv'
<1> DEFINE s == proc[p]
<1>1. PICK r \in 1..MaxRuns :
        /\ DOMAIN runs = 1..(r - 1)
        /\ runs' = [n \in 1..r |->
             IF n = r THEN [year |-> proc[p].year, status |-> "running", checksum |-> None]
             ELSE runs[n]]
        /\ proc' = [proc EXCEPT ![p] = [s EXCEPT !.pc = "look", !.run = r]]
  BY DEF StartRun, TypeInv
<1>2. s \in Procs /\ s.pc = "start" /\ GoesOn(runs, s) /\ MaxRuns \in Nat
  BY Typed DEF StartRun, DoneInv
<1>3. /\ DOMAIN runs \subseteq DOMAIN runs' /\ r \notin DOMAIN runs
      /\ \A n \in DOMAIN runs : runs'[n] = runs[n]
      /\ runs'[r].status = "running"
  BY <1>1, <1>2
<1>4. proc'[p] = [s EXCEPT !.pc = "look", !.run = r]
  BY <1>1 DEF TypeInv
<1> HIDE DEF s
<1>5. /\ proc'[p].pc = "look" /\ proc'[p].run = r /\ proc'[p].year = s.year
      /\ proc'[p].from = s.from /\ proc'[p].to = s.to /\ proc'[p].first = s.first
  BY <1>2, <1>4 DEF Procs
<1>6. r >= s.first
  <2>1. 1..(s.first - 1) \subseteq 1..(r - 1)
    BY <1>1, <1>2 DEF GoesOn
  <2>2. s.first \in Nat /\ r \in Nat /\ s.first >= 1 /\ r >= 1
    BY <1>2 DEF Procs
  <2>3. s.first > 1 => s.first - 1 \in 1..(r - 1)
    <3>1. s.first > 1 => s.first - 1 \in 1..(s.first - 1)
      BY <2>2
    <3> QED
      BY <2>1, <3>1
  <2> QED
    BY <2>2, <2>3
<1>7. GoesOn(runs', proc'[p])
  <2>1. Complete(runs, s, s.year - 1) /\ 1..(s.first - 1) \subseteq DOMAIN runs
    BY <1>2 DEF GoesOn
  <2>2. Complete(runs', s, s.year - 1)
    BY <2>1, <1>3 DEF Complete
  <2>3. Complete(runs', proc'[p], proc'[p].year - 1)
    BY <2>2, <1>5 DEF Complete
  <2> QED
    BY <2>1, <2>3, <1>3, <1>5, <1>6 DEF GoesOn
<1>8. \A q \in Importers : Active(proc[q]) => proc[q].run \in DOMAIN runs
  BY DEF TypeInv, Sound, Active
<1>9. proc' = [proc EXCEPT ![p] = proc'[p]]
  BY <1>1, <1>4
<1>10. DOMAIN runs \subseteq DOMAIN runs' /\ \A n \in DOMAIN runs : runs'[n] = runs[n]
  BY <1>3
<1>11. \A q \in Importers : Active(proc[q]) => proc'[p].run # proc[q].run
  BY <1>3, <1>5, <1>8
<1> QED
  BY <1>7, <1>8, <1>9, <1>10, <1>11, OneIsDone

LEMMA FinishGoesOn ==
  ASSUME TypeInv, DoneInv, NEW p \in Importers, Finish(p) PROVE DoneInv'
<1> DEFINE s == proc[p]
<1>1. /\ s \in Procs /\ Sound(public, runs, s) /\ GoesOn(runs, s) /\ Active(s)
      /\ s.run \in DOMAIN runs /\ runs[s.run].year = s.year
      /\ s.year \in Int /\ s.from \in Int /\ s.to \in Int /\ s.year <= s.to
  BY Typed DEF Finish, DoneInv, Active, Sound, Procs
<1>2. /\ DOMAIN runs' = DOMAIN runs
      /\ \A r \in DOMAIN runs : r # s.run => runs'[r] = runs[r]
      /\ runs'[s.run].year = s.year
      /\ s.pc = "finish" => runs'[s.run].status = "succeeded"
  BY <1>1 DEF Finish
<1>3. /\ proc' = [proc EXCEPT ![p] = Advance(p)] /\ proc'[p] = Advance(p)
  BY DEF Finish, TypeInv
<1>4. runs[s.run].status = "running" /\ s.run >= s.first
  BY <1>1 DEF GoesOn
<1>5. \A r \in DOMAIN runs : runs[r].status = "succeeded" => runs'[r] = runs[r]
  BY <1>2, <1>4
<1>6. \A q \in Importers : q # p /\ Active(proc[q]) => runs'[proc[q].run] = runs[proc[q].run]
  BY <1>1, <1>2 DEF DoneInv, OwnRuns, TypeInv, Sound, Active
<1>7. s.pc = "finish" => Complete(runs', s, s.year)
  <2> SUFFICES ASSUME s.pc = "finish", NEW y \in s.from..s.year
               PROVE  \E r \in DOMAIN runs' :
                        r >= s.first /\ runs'[r].year = y /\ runs'[r].status = "succeeded"
    BY DEF Complete
  <2>1. CASE y = s.year
    BY <2>1, <1>1, <1>2, <1>4
  <2>2. CASE y # s.year
    <3>1. y \in s.from..(s.year - 1)
      BY <2>2, <1>1
    <3>2. PICK r \in DOMAIN runs :
            r >= s.first /\ runs[r].year = y /\ runs[r].status = "succeeded"
      BY <3>1, <1>1 DEF GoesOn, Complete, Active
    <3> QED
      BY <3>2, <1>2, <1>5
  <2> QED
    BY <2>1, <2>2
<1>8. GoesOn(runs', Advance(p)) /\ ~Active(Advance(p))
  <2>1. CASE s.pc = "failing"
    BY <2>1, NotDoneGoesOn DEF Advance
  <2>2. CASE s.pc = "finish" /\ s.year < s.to
    <3>1. Advance(p) = At("start", s.year + 1, s.from, s.to, s.first)
      BY <2>2 DEF Advance
    <3>2. (s.year + 1) - 1 = s.year
      BY <1>1
    <3>3. 1..(s.first - 1) \subseteq DOMAIN runs'
      BY <1>1, <1>2 DEF GoesOn, Active
    <3> HIDE DEF s
    <3> QED
      BY <2>2, <3>1, <3>2, <3>3, <1>7 DEF GoesOn, Complete, At, Active
  <2>3. CASE s.pc = "finish" /\ ~(s.year < s.to)
    <3>1. Advance(p) = At("idle", s.year, s.from, s.to, s.first)
      BY <2>3 DEF Advance
    <3>2. s.year = s.to
      BY <2>3, <1>1
    <3> HIDE DEF s
    <3> QED
      BY <2>3, <3>1, <3>2, <1>7 DEF GoesOn, Complete, At, Active
  <2> QED
    BY <2>1, <2>2, <2>3 DEF Finish
<1> QED
  BY <1>2, <1>3, <1>5, <1>6, <1>8, OneIsDone

\* In the middle of a run, an importer stays with its call, its year and its run.
SameRun(s, t) ==
  /\ Active(s) /\ Active(t)
  /\ t.year = s.year /\ t.from = s.from /\ t.to = s.to /\ t.first = s.first /\ t.run = s.run

LEMMA FetchSameRun ==
  ASSUME TypeInv, NEW p \in Importers, Look(p) \/ NotModified(p) \/ Sum(p) \/ Downloaded(p)
  PROVE  SameRun(proc[p], proc'[p])
<1> DEFINE s == proc[p]
<1>1. s \in Procs /\ Active(s)
  BY Typed DEF Active, Look, NotModified, Sum, Downloaded
<1>2. CASE Look(p)
  <2>1. \E tag : proc'[p] = [s EXCEPT !.pc = "ask", !.tag = tag]
    BY <1>2 DEF Look, TypeInv
  <2> HIDE DEF s
  <2> QED
    BY <1>1, <2>1 DEF Procs, SameRun, Active, s
<1>3. CASE NotModified(p)
  <2>1. \E e : proc'[p] = [s EXCEPT !.pc = "sum", !.served = e]
    BY <1>3 DEF NotModified, TypeInv
  <2> HIDE DEF s
  <2> QED
    BY <1>1, <2>1 DEF Procs, SameRun, Active, s
<1>4. CASE Sum(p)
  <2>1. \E sum : proc'[p] = [s EXCEPT !.pc = "read", !.checksum = sum]
    BY <1>4 DEF Sum, TypeInv
  <2> HIDE DEF s
  <2> QED
    BY <1>1, <2>1 DEF Procs, SameRun, Active, s
<1>5. CASE Downloaded(p)
  <2> DEFINE e == public[s.year]
  <2>1. PICK tag \in {None, e} :
          proc'[p] = [s EXCEPT !.pc = "rename", !.served = e, !.checksum = e, !.tag = tag]
    BY <1>5 DEF Downloaded, TypeInv
  <2> HIDE DEF e, s
  <2> QED
    BY <1>1, <2>1 DEF Procs, SameRun, Active, s
<1> QED
  BY <1>2, <1>3, <1>4, <1>5

LEMMA MiddleSameRun ==
  ASSUME TypeInv, NEW p \in Importers,
         \/ Look(p) \/ NotModified(p) \/ Sum(p) \/ Downloaded(p) \/ Rename(p) \/ Truncate(p)
         \/ Note(p) \/ NoNote(p) \/ Read(p) \/ Commit(p) \/ Fail(p)
  PROVE  SameRun(proc[p], proc'[p])
<1> DEFINE s == proc[p]
<1>1. s \in Procs
  BY Typed
<1>2. CASE Rename(p) \/ Truncate(p) \/ Note(p) \/ NoNote(p) \/ Commit(p)
  <2>1. /\ Active(s)
        /\ \E pc \in {"read", "open", "note", "finish", "failing"} : proc'[p] = [s EXCEPT !.pc = pc]
    BY <1>2 DEF Rename, Truncate, Note, NoNote, Commit, Active, TypeInv
  <2> HIDE DEF s
  <2> QED
    BY <1>1, <2>1 DEF Procs, SameRun, Active, s
<1>3. CASE Read(p)
  <2> DEFINE e == archive[s.year]
             pc == IF Usable(FileAt(s.year, e)) THEN "commit" ELSE "failing"
  <2>1. pc \in {"commit", "failing"} /\ proc'[p] = [s EXCEPT !.pc = pc, !.opened = e] /\ Active(s)
    BY <1>3 DEF Read, TypeInv, Active
  <2> HIDE DEF s, pc, e
  <2> QED
    BY <1>1, <2>1 DEF Procs, SameRun, Active, s
<1>4. CASE Fail(p)
  <2>1. proc'[p] = AfterError(p) /\ Active(s)
    BY <1>4 DEF Fail, TypeInv, Active
  <2>2. \E sum : AfterError(p) = [s EXCEPT !.pc = "failing", !.checksum = sum]
    BY DEF AfterError
  <2> HIDE DEF s
  <2> QED
    BY <1>1, <2>1, <2>2 DEF Procs, SameRun, Active, s
<1> QED
  BY <1>2, <1>3, <1>4, FetchSameRun

LEMMA MiddleGoesOn ==
  ASSUME TypeInv, DoneInv, NEW p \in Importers,
         \/ Look(p) \/ NotModified(p) \/ Sum(p) \/ Downloaded(p) \/ Rename(p) \/ Truncate(p)
         \/ Note(p) \/ NoNote(p) \/ Read(p) \/ Commit(p) \/ Fail(p)
  PROVE  DoneInv'
<1>1. SameRun(proc[p], proc'[p])
  BY MiddleSameRun
<1>2. runs' = runs /\ \E t : proc' = [proc EXCEPT ![p] = t]
  BY DEF Look, NotModified, Sum, Downloaded, Rename, Truncate, Note, NoNote, Read, Commit, Fail
<1>3. proc' = [proc EXCEPT ![p] = proc'[p]]
  BY <1>2 DEF TypeInv
<1>4. GoesOn(runs', proc'[p])
  BY <1>1, <1>2 DEF DoneInv, GoesOn, Complete, SameRun, Active
<1>5. \A q \in Importers : q # p /\ Active(proc[q]) => proc'[p].run # proc[q].run
  BY <1>1 DEF DoneInv, OwnRuns, SameRun
<1> QED
  BY <1>2, <1>3, <1>4, <1>5, OneIsDone

LEMMA NextDone == TypeInv /\ DoneInv /\ [Next]_vars => DoneInv'
<1> SUFFICES ASSUME TypeInv, DoneInv, [Next]_vars PROVE DoneInv'
  OBVIOUS
<1>1. ASSUME NEW p \in Importers, Work(p) PROVE DoneInv'
  BY <1>1, LaunchGoesOn, StopGoesOn, StartRunGoesOn, FinishGoesOn, MiddleGoesOn DEF Work
<1>2. CASE runs' = runs /\ proc' = proc
  BY <1>2 DEF DoneInv, OwnRuns
<1> QED
  BY <1>1, <1>2 DEF Next, Publish, vars

(* DoneIsComplete: a call of importAccidents that ends without an error    *)
(* has a succeeded run of its own for each year, however many import.      *)
THEOREM DoneComplete == Spec => []DoneIsComplete
<1>1. Init => DoneInv
  BY NotDoneGoesOn DEF Init, DoneInv, OwnRuns
<1>2. DoneInv => DoneIsComplete
  BY DEF DoneInv, GoesOn, Complete, DoneIsComplete
<1> QED
  BY <1>1, <1>2, NextDone, TypeInvHolds, PTL DEF Spec
-----------------------------------------------------------------------------
(* Accidents that are published again                                      *)

\* A row of a configured region is staged under its digest.
LEMMA RowIsStaged ==
  ASSUME NEW file, NEW n \in AcceptedRows(file), ReadAs(file, n).ags \in Matches
  PROVE  hashRow(mapColumns(file.header), file.rows[n]) \in DOMAIN Staged(file)
<1> DEFINE columns == mapColumns(file.header)
           inside == {m \in Lines(file) : Accepted(columns, file.rows[m]) /\
                                          Parsed(columns, file.rows[m]).ags \in Matches}
<1>1. DOMAIN Staged(file) = {hashRow(columns, file.rows[m]) : m \in inside}
  BY DEF Staged
<1>2. n \in inside
  BY DEF AcceptedRows, ReadAs
<1> HIDE DEF columns, inside
<1>3. hashRow(columns, file.rows[n]) \in DOMAIN Staged(file)
  BY <1>1, <1>2
<1> QED
  BY <1>3 DEF columns

\* What is staged is a row of the file, under its digest.
LEMMA StagedIsRow ==
  ASSUME NEW file, NEW k \in DOMAIN Staged(file)
  PROVE  \E n \in AcceptedRows(file) :
           /\ ReadAs(file, n).ags \in Matches
           /\ k = hashRow(mapColumns(file.header), file.rows[n])
           /\ Staged(file)[k] = ReadAs(file, n)
<1> DEFINE columns == mapColumns(file.header)
           inside == {n \in Lines(file) : Accepted(columns, file.rows[n]) /\
                                          Parsed(columns, file.rows[n]).ags \in Matches}
           n == CHOOSE m \in inside : hashRow(columns, file.rows[m]) = k
<1>1. Staged(file) = [l \in {hashRow(columns, file.rows[m]) : m \in inside} |->
        Parsed(columns, file.rows[CHOOSE m \in inside : hashRow(columns, file.rows[m]) = l])]
  BY DEF Staged
<1> HIDE DEF columns, inside
<1>2. k \in {hashRow(columns, file.rows[m]) : m \in inside}
  BY <1>1
<1>3. n \in inside /\ hashRow(columns, file.rows[n]) = k
  BY <1>2
<1>4. Staged(file)[k] = Parsed(columns, file.rows[n])
  BY <1>1, <1>2
<1>5. n \in AcceptedRows(file) /\ Parsed(columns, file.rows[n]).ags \in Matches
  BY <1>3 DEF inside, columns, AcceptedRows
<1> HIDE DEF n
<1> QED
  BY <1>3, <1>4, <1>5 DEF columns, ReadAs

\* The digest sees what SpelledAlike compares, and no more.
LEMMA AlikeOneDigest ==
  ASSUME NEW one, NEW m, NEW other, NEW n, SpelledAlike(one, m, other, n)
  PROVE  hashRow(mapColumns(one.header), one.rows[m])
           = hashRow(mapColumns(other.header), other.rows[n])
BY DEF SpelledAlike, hashRow

\* A row that has been counted is in the table.
LEMMA StatedIsThere ==
  ASSUME SucceededIsCounted, NEW file, NEW n, ReadAs(file, n).ags \in Matches, Stated(file, n)
  PROVE  hashRow(mapColumns(file.header), file.rows[n]) \in DOMAIN accidents
<1>1. PICK r \in DOMAIN runs :
        /\ runs[r].status = "succeeded"
        /\ \E m \in AcceptedRows(FileAt(runs[r].year, runs[r].checksum)) :
             /\ ReadAs(FileAt(runs[r].year, runs[r].checksum), m) = ReadAs(file, n)
             /\ SpelledAlike(FileAt(runs[r].year, runs[r].checksum), m, file, n)
  BY Zenon DEF Stated
<1> DEFINE other == FileAt(runs[r].year, runs[r].checksum)
<1>2. DOMAIN Staged(other) \subseteq DOMAIN accidents
  BY <1>1 DEF SucceededIsCounted, Counted
<1>3. PICK m \in AcceptedRows(other) :
        ReadAs(other, m) = ReadAs(file, n) /\ SpelledAlike(other, m, file, n)
  BY <1>1
<1> HIDE DEF other
<1>4. hashRow(mapColumns(other.header), other.rows[m]) \in DOMAIN Staged(other)
  BY <1>3, RowIsStaged
<1>5. hashRow(mapColumns(other.header), other.rows[m])
        = hashRow(mapColumns(file.header), file.rows[n])
  BY <1>3, AlikeOneDigest
<1> QED
  BY <1>2, <1>4, <1>5

\* What a commit may add to the table.
LEMMA CommitAddsNews ==
  ASSUME SucceededIsCounted, NEW p \in Importers, Commit(p),
         NEW k \in DOMAIN accidents', k \notin DOMAIN accidents
  PROVE  /\ proc[p].pc = "commit"
         /\ \E n \in AcceptedRows(FileAt(proc[p].year, proc[p].opened)) :
              /\ ReadAs(FileAt(proc[p].year, proc[p].opened), n) = accidents'[k]
              /\ ~Stated(FileAt(proc[p].year, proc[p].opened), n)
<1> DEFINE file == FileAt(proc[p].year, proc[p].opened)
<1>1. proc[p].pc = "commit" /\ accidents' = Merged(accidents, Staged(file))
  BY DEF Commit
<1> HIDE DEF file
<1>2. k \in DOMAIN Staged(file) /\ accidents'[k] = Staged(file)[k]
  BY <1>1 DEF Merged
<1>3. PICK n \in AcceptedRows(file) :
        /\ ReadAs(file, n).ags \in Matches
        /\ k = hashRow(mapColumns(file.header), file.rows[n])
        /\ Staged(file)[k] = ReadAs(file, n)
  BY <1>2, StagedIsRow
<1>4. ~Stated(file, n)
  BY <1>3, StatedIsThere
<1> QED
  BY <1>1, <1>2, <1>3, <1>4 DEF file

(* RepublishedIsNotNew: with importers that keep apart, no import adds an  *)
(* accident that an edition counted before had in the same texts, whatever *)
(* the order and names of its columns and its decimal commas (hashRow, ON  *)
(* CONFLICT DO NOTHING).                                                   *)
THEOREM RepublishedNotNew == Spec /\ []Apart => RepublishedIsNotNew
<1> DEFINE News ==
      \A k \in DOMAIN accidents' \ DOMAIN accidents : \E p \in Importers :
        /\ proc[p].pc = "commit"
        /\ LET file == FileAt(proc[p].year, proc[p].opened)
           IN  \E n \in AcceptedRows(file) : ReadAs(file, n) = accidents'[k] /\ ~Stated(file, n)
<1>1. SucceededIsCounted /\ [Next]_vars => [News]_accidents
  <2> SUFFICES ASSUME SucceededIsCounted, Next,
                      NEW k \in DOMAIN accidents' \ DOMAIN accidents
               PROVE  \E p \in Importers :
                        /\ proc[p].pc = "commit"
                        /\ LET file == FileAt(proc[p].year, proc[p].opened)
                           IN  \E n \in AcceptedRows(file) :
                                 ReadAs(file, n) = accidents'[k] /\ ~Stated(file, n)
    BY DEF vars
  <2>1. \E p \in Importers : Commit(p)
    BY DEF Next, Publish, Work, Launch, StartRun, Look, NotModified, Sum, Downloaded, Rename,
           Truncate, Note, NoNote, Read, Fail, Finish, Stop
  <2>2. PICK p \in Importers : Commit(p)
    BY <2>1
  <2>3. /\ proc[p].pc = "commit"
        /\ \E n \in AcceptedRows(FileAt(proc[p].year, proc[p].opened)) :
             /\ ReadAs(FileAt(proc[p].year, proc[p].opened), n) = accidents'[k]
             /\ ~Stated(FileAt(proc[p].year, proc[p].opened), n)
    BY <2>2, CommitAddsNews
  <2> QED
    BY Zenon, <2>3
<1>2. RepublishedIsNotNew <=> [][News]_accidents
  BY Zenon DEF RepublishedIsNotNew
<1> HIDE DEF News
<1> QED
  BY <1>1, <1>2, SucceededCounted, PTL DEF Spec
=============================================================================
