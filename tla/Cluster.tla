------------------------------- MODULE Cluster -------------------------------
(***************************************************************************)
(* Cluster of backend/internal/scoring/cluster.go: the greedy clustering   *)
(* with a priority queue whose entries are allowed to go out of date.      *)
(*                                                                         *)
(* One step is one turn of the loop, which pops the best entry.  The queue *)
(* holds at most one entry per accident, so it is a partial function from  *)
(* ids to the count recorded in the entry; container/heap is what it       *)
(* promises, the entry that Less puts first.                               *)
(***************************************************************************)
EXTENDS Integers, FiniteSets, FiniteSetsExt

CONSTANTS Accidents, Layouts, Radius, MinAccidents

VARIABLES place, assigned, hotspots,
  queue       \* the candidates: accident -> recorded count

vars == <<place, assigned, hotspots, queue>>

Greedy == INSTANCE GreedyCluster
  WITH place <- place, assigned <- assigned, hotspots <- hotspots

ASSUME ClusterAssumption ==
  /\ Accidents \subseteq Int /\ IsFiniteSet(Accidents)
  /\ Layouts \subseteq [Accidents -> Int \X Int]
  /\ Radius \in Nat \ {0}
  /\ MinAccidents \in Nat \ {0}

\* newGrid files a point under the floor of its coordinates over the radius.
Cell(i) == [axis \in {1, 2} |-> place[i][axis] \div Radius]

\* Mutant: the four diagonal cells are forgotten.
Candidates_NoDiagonals(i) ==
  {j \in Accidents : \E axis \in {1, 2} :
     Cell(j)[axis] = Cell(i)[axis] /\ Cell(j)[3 - axis] - Cell(i)[3 - axis] \in -1..1}

\* within looks at the cell of the point and the eight around it.
Candidates(i) ==
  {j \in Accidents : \A axis \in {1, 2} : Cell(j)[axis] - Cell(i)[axis] \in -1..1}

\* Mutant: a box is taken for the circle.
InCircle_Box(i, j) ==
  \A axis \in {1, 2} : place[j][axis] - place[i][axis] \in (-Radius)..Radius

InCircle(i, j) ==
  (place[j][1] - place[i][1]) * (place[j][1] - place[i][1])
    + (place[j][2] - place[i][2]) * (place[j][2] - place[i][2]) <= Radius * Radius

\* Mutant: the accident itself is not among its neighbours.
Within_Others(i) == {j \in Candidates(i) \ {i} : InCircle(i, j)}

Within(i) == {j \in Candidates(i) : InCircle(i, j)}

\* Mutant: what is assigned already is counted again.
Available_All(i) == Within(i)

Available(i) == Within(i) \ assigned

\* Less: the higher count first, then the lower id.
Less(i, j) == queue[i] > queue[j] \/ (queue[i] = queue[j] /\ i < j)

IsBest(i) == i \in DOMAIN queue /\ \A j \in DOMAIN queue \ {i} : Less(i, j)

Without(i) == [j \in DOMAIN queue \ {i} |-> queue[j]]

Init ==
  /\ place \in Layouts
  /\ assigned = {}
  /\ hotspots = {}
  /\ queue = [i \in Accidents |-> Cardinality(Within(i))]

\* Mutant: an entry is dropped as soon as it is out of date.
Drop_OutOfDate(i) ==
  /\ IsBest(i)
  /\ \/ i \in assigned \/ Cardinality(Available(i)) < MinAccidents
     \/ Cardinality(Available(i)) < queue[i]
  /\ queue' = Without(i)
  /\ UNCHANGED <<place, assigned, hotspots>>

\* The popped accident has been assigned meanwhile, or its circle holds too
\* few others by now: the entry is dropped.
Drop(i) ==
  /\ IsBest(i)
  /\ i \in assigned \/ Cardinality(Available(i)) < MinAccidents
  /\ queue' = Without(i)
  /\ UNCHANGED <<place, assigned, hotspots>>

\* Mutant: the recorded count is trusted.
Stale_Never(i) == FALSE

\* Is the recorded count out of date?
Stale(i) == Cardinality(Available(i)) < queue[i]

\* Mutant: the entry goes back with the count it had.
Requeue_OldCount(i) ==
  /\ IsBest(i)
  /\ i \notin assigned /\ Cardinality(Available(i)) >= MinAccidents
  /\ Stale(i)
  /\ UNCHANGED vars

\* An entry that is out of date is queued again with what is left.
Requeue(i) ==
  /\ IsBest(i)
  /\ i \notin assigned /\ Cardinality(Available(i)) >= MinAccidents
  /\ Stale(i)
  /\ queue' = [queue EXCEPT ![i] = Cardinality(Available(i))]
  /\ UNCHANGED <<place, assigned, hotspots>>

\* The entry is up to date: its circle becomes a hotspot.
Form(i) ==
  /\ IsBest(i)
  /\ i \notin assigned /\ Cardinality(Available(i)) >= MinAccidents
  /\ ~ Stale(i)
  /\ hotspots' = hotspots \cup {[centre |-> i, members |-> Available(i)]}
  /\ assigned' = assigned \cup Available(i)
  /\ queue' = Without(i)
  /\ UNCHANGED place

\* Mutant: the sum runs over the whole circle, not over what it still got.
Total_WholeCircle(h, axis) == MapThenSumSet(LAMBDA j : place[j][axis], Within(h.centre))

\* hotspot.X and hotspot.Y before the division by the number of members.
Total(h, axis) == MapThenSumSet(LAMBDA j : place[j][axis], h.members)

Next == \E i \in Accidents : Drop(i) \/ Requeue(i) \/ Form(i)

\* The loop runs on until the queue is empty.
Spec == Init /\ [][Next]_vars /\ WF_vars(Next)

-----------------------------------------------------------------------------
(* Properties                                                              *)

TypeOK ==
  /\ place \in Layouts
  /\ assigned \subseteq Accidents
  /\ DOMAIN queue \subseteq Accidents
  /\ queue \in [DOMAIN queue -> 1..Cardinality(Accidents)]
  /\ hotspots \subseteq [centre : Accidents, members : SUBSET Accidents]

(* The lazy queue loses nothing: every accident that could still be the    *)
(* centre of a hotspot is queued, and never with less than its circle has. *)
QueueIsOptimistic ==
  \A i \in Accidents \ assigned :
    Cardinality(Available(i)) >= MinAccidents =>
      i \in DOMAIN queue /\ queue[i] >= Cardinality(Available(i))

(* The grid finds exactly the accidents in the circle.                     *)
GridIsExact == \A i \in Accidents : Within(i) = {j \in Accidents : Greedy!Near(i, j)}

(* "No accident is counted twice": hotspots share no accident, and what is *)
(* marked assigned is what they hold.                                      *)
CountedOnce ==
  /\ \A h, k \in hotspots : h # k => h.members \cap k.members = {}
  /\ assigned = UNION {h.members : h \in hotspots}

(* "Two accidents in one hotspot are never more than two radii apart", and *)
(* one is no pattern.                                                      *)
StaysAPlace ==
  \A h \in hotspots :
    /\ Cardinality(h.members) >= MinAccidents
    /\ \A i, j \in h.members :
         Greedy!Square(place[i][1] - place[j][1]) + Greedy!Square(place[i][2] - place[j][2])
           <= Greedy!Square(2 * Radius)

(* "This can exceed that radius -- never by more than double it": although *)
(* the centre reported is the mean of the members and not the accident the *)
(* circle was drawn around, every member is within two radii of it.        *)
ReportedRadiusBounded ==
  \A h \in hotspots : \A j \in h.members :
    LET n == Cardinality(h.members)
        Off(axis) == n * place[j][axis] - Total(h, axis)
    IN  Greedy!Square(Off(1)) + Greedy!Square(Off(2)) <= Greedy!Square(2 * Radius * n)

(* When the loop ends, no accident that was left out has enough others     *)
(* left out around it to be a hotspot.                                     *)
NothingLeftOut ==
  DOMAIN queue = {} =>
    \A i \in Accidents \ assigned :
      Cardinality({j \in Accidents \ assigned : Greedy!Near(i, j)}) < MinAccidents

(* The loop ends: an entry is only queued again with a smaller count.      *)
Terminates == <>(DOMAIN queue = {})

(* The loop takes the circles the greedy method takes, in its order, and   *)
(* goes on as long as it does.                                             *)
ImplementsGreedy == Greedy!Spec

=============================================================================
