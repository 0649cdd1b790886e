---------------------------- MODULE GreedyCluster ----------------------------
(***************************************************************************)
(* What the clustering of accidents promises (README, "Methode", and the   *)
(* comment of Cluster in backend/internal/scoring/cluster.go): repeatedly  *)
(* take the circle that holds the most accidents not yet assigned, ties    *)
(* going to the lowest id.  That the accident in its middle is itself not  *)
(* assigned is said by neither, and is what the code does (cluster.go:81). *)
(***************************************************************************)
EXTENDS Integers, FiniteSets

CONSTANTS
  Accidents,     \* ids
  Layouts,       \* where they may lie: functions to pairs of integers
  Radius,        \* ClusterRadiusMetres
  MinAccidents   \* ClusterMinAccidents

VARIABLES
  place,      \* the input
  assigned,   \* accidents that belong to a hotspot
  hotspots    \* [centre, members]

vars == <<place, assigned, hotspots>>

Square(n) == n * n

Near(i, j) ==
  Square(place[i][1] - place[j][1]) + Square(place[i][2] - place[j][2]) <= Square(Radius)

\* What a circle around i would still get.
Free(i) == {j \in Accidents \ assigned : Near(i, j)}

\* The order in which circles are taken: the fullest first, then by id.
Before(m, i, n, j) == m > n \/ (m = n /\ i <= j)

Densest(c) ==
  /\ Cardinality(Free(c)) >= MinAccidents
  /\ \A d \in Accidents \ assigned : Before(Cardinality(Free(c)), c, Cardinality(Free(d)), d)

Init ==
  /\ place \in Layouts
  /\ assigned = {}
  /\ hotspots = {}

Take(c) ==
  /\ Densest(c)
  /\ hotspots' = hotspots \cup {[centre |-> c, members |-> Free(c)]}
  /\ assigned' = assigned \cup Free(c)
  /\ UNCHANGED place

Next == \E c \in Accidents \ assigned : Take(c)

Spec == Init /\ [][Next]_vars /\ WF_vars(Next)
=============================================================================
