---------------------------- MODULE ClusterProofs ----------------------------
(* Theorems about Cluster, for every number of accidents, wherever they    *)
(* lie, every radius and every minimum.                                    *)
EXTENDS Cluster, FiniteSetTheorems, Induction

-----------------------------------------------------------------------------
(* Arithmetic                                                              *)

\* The quotient of two integers is the floor of the ratio.
LEMMA DivBounds ==
  ASSUME NEW R \in Nat \ {0}, NEW x \in Int
  PROVE  x \div R \in Int /\ R * (x \div R) <= x /\ x < R * (x \div R) + R
OBVIOUS

\* Two coordinates at most one cell's width apart lie in neighbouring cells.
LEMMA NeighbourCell ==
  ASSUME NEW R \in Nat \ {0}, NEW x \in Int, NEW y \in Int, x - y <= R, y - x <= R
  PROVE  (x \div R) - (y \div R) \in -1..1
<1> DEFINE a == x \div R
           b == y \div R
<1>1. /\ a \in Int /\ R * a <= x /\ x < R * a + R
      /\ b \in Int /\ R * b <= y /\ y < R * b + R
  BY DivBounds
<1> HIDE DEF a, b
<1>2. R * (a - b) < 2 * R /\ R * (b - a) < 2 * R
  BY <1>1
<1>3. a - b < 2
  BY <1>1, <1>2
<1>4. b - a < 2
  BY <1>1, <1>2
<1>5. a - b \in -1..1
  BY <1>1, <1>3, <1>4
<1> QED
  BY <1>5 DEF a, b

\* A leg of a right triangle is no longer than its hypotenuse.
LEMMA LegBound ==
  ASSUME NEW R \in Nat, NEW d \in Int, NEW e \in Int, d * d + e * e <= R * R
  PROVE  d <= R /\ -d <= R
<1>1. e * e >= 0
  OBVIOUS
<1>2. d * d <= R * R
  BY <1>1
<1>3. d <= R
  BY <1>2
<1>4. -d <= R
  BY <1>2
<1> QED
  BY <1>3, <1>4

\* Two points of a circle are at most two radii apart.
LEMMA TwoRadii ==
  ASSUME NEW R \in Nat, NEW a \in Int, NEW b \in Int, NEW c \in Int, NEW d \in Int,
         a * a + b * b <= R * R, c * c + d * d <= R * R
  PROVE  (a - c) * (a - c) + (b - d) * (b - d) <= (2 * R) * (2 * R)
<1>1. (a - c) * (a - c) <= 2 * (a * a) + 2 * (c * c)
  <2>1. (a + c) * (a + c) >= 0
    OBVIOUS
  <2> QED
    BY <2>1
<1>2. (b - d) * (b - d) <= 2 * (b * b) + 2 * (d * d)
  <2>1. (b + d) * (b + d) >= 0
    OBVIOUS
  <2> QED
    BY <2>1
<1>3. (2 * R) * (2 * R) = 4 * (R * R)
  OBVIOUS
<1> QED
  BY <1>1, <1>2, <1>3

-----------------------------------------------------------------------------
(* Geometry                                                                *)

\* The accidents lie at integer coordinates.
LEMMA PlaceType ==
  ASSUME place \in Layouts, NEW i \in Accidents
  PROVE  place[i][1] \in Int /\ place[i][2] \in Int
BY ClusterAssumption

\* The circle of the code is the circle of the specification.
LEMMA InCircleIsNear ==
  ASSUME place \in Layouts, NEW i \in Accidents, NEW j \in Accidents
  PROVE  InCircle(i, j) <=> Greedy!Near(i, j)
<1> DEFINE a == place[i][1] - place[j][1]
           b == place[i][2] - place[j][2]
<1>1. a \in Int /\ b \in Int
  BY PlaceType
<1>2. place[j][1] - place[i][1] = -a /\ place[j][2] - place[i][2] = -b
  BY PlaceType
<1> HIDE DEF a, b
<1>3. (-a) * (-a) + (-b) * (-b) = a * a + b * b
  BY <1>1
<1>4. InCircle(i, j) <=> (-a) * (-a) + (-b) * (-b) <= Radius * Radius
  BY <1>2 DEF InCircle
<1>5. Greedy!Near(i, j) <=> a * a + b * b <= Radius * Radius
  BY DEF Greedy!Near, Greedy!Square, a, b
<1> QED
  BY <1>3, <1>4, <1>5

\* What is in the circle lies in the nine cells that are searched.
LEMMA CandidatesSuffice ==
  ASSUME place \in Layouts, NEW i \in Accidents, NEW j \in Accidents, InCircle(i, j)
  PROVE  j \in Candidates(i)
<1> DEFINE a == place[j][1] - place[i][1]
           b == place[j][2] - place[i][2]
<1>1. a \in Int /\ b \in Int /\ Radius \in Nat \ {0}
  BY PlaceType, ClusterAssumption
<1>2. a * a + b * b <= Radius * Radius /\ b * b + a * a <= Radius * Radius
  BY <1>1 DEF InCircle
<1> HIDE DEF a, b
<1>3. a <= Radius /\ -a <= Radius /\ b <= Radius /\ -b <= Radius
  BY <1>1, <1>2, LegBound
<1>4. \A axis \in {1, 2} :
        place[j][axis] - place[i][axis] <= Radius /\ place[i][axis] - place[j][axis] <= Radius
  BY <1>3, PlaceType DEF a, b
<1>5. \A axis \in {1, 2} :
        (place[j][axis] \div Radius) - (place[i][axis] \div Radius) \in -1..1
  BY <1>1, <1>4, PlaceType, NeighbourCell
<1> QED
  BY <1>5 DEF Candidates, Cell

\* The grid finds exactly the accidents in the circle (within), on either
\* side of the origin: for every layout.
LEMMA WithinIsCircle ==
  ASSUME place \in Layouts, NEW i \in Accidents
  PROVE  Within(i) = {j \in Accidents : Greedy!Near(i, j)}
BY InCircleIsNear, CandidatesSuffice DEF Within, Candidates

\* An accident is in the circle around itself.
LEMMA SelfWithin ==
  ASSUME place \in Layouts, NEW i \in Accidents
  PROVE  i \in Within(i)
<1> DEFINE a == place[i][1] - place[i][1]
           b == place[i][2] - place[i][2]
<1>1. a = 0 /\ b = 0
  BY PlaceType
<1> HIDE DEF a, b
<1>2. a * a + b * b <= Radius * Radius
  <2>1. Radius * Radius >= 0
    BY ClusterAssumption
  <2> QED
    BY <1>1, <2>1
<1>3. InCircle(i, i)
  BY <1>2 DEF InCircle, a, b
<1> QED
  BY <1>3, CandidatesSuffice DEF Within

-----------------------------------------------------------------------------
(* Counts                                                                  *)

\* Sets of accidents are finite, and a subset is no larger.
LEMMA Counts ==
  ASSUME NEW S \in SUBSET Accidents, NEW T \in SUBSET S
  PROVE  /\ Cardinality(S) \in Nat /\ Cardinality(T) \in Nat
         /\ Cardinality(T) <= Cardinality(S)
         /\ Cardinality(S) <= Cardinality(Accidents)
         /\ Cardinality(Accidents) \in Nat
         /\ S # {} => Cardinality(S) >= 1
<1>1. IsFiniteSet(Accidents) /\ Cardinality(Accidents) \in Nat
  BY ClusterAssumption, FS_CardinalityType
<1>2. IsFiniteSet(S) /\ Cardinality(S) \in Nat /\ Cardinality(S) <= Cardinality(Accidents)
  BY <1>1, FS_Subset, FS_CardinalityType
<1>3. Cardinality(T) \in Nat /\ Cardinality(T) <= Cardinality(S)
  BY <1>2, FS_Subset, FS_CardinalityType
<1>4. S # {} => Cardinality(S) # 0
  BY <1>2, FS_EmptySet
<1> QED
  BY <1>1, <1>2, <1>3, <1>4

\* Available accidents are accidents of the circle.
LEMMA AvailableType ==
  ASSUME NEW i \in Accidents
  PROVE  Within(i) \subseteq Accidents /\ Available(i) \subseteq Within(i)
BY DEF Within, Candidates, Available

-----------------------------------------------------------------------------
(* Types                                                                   *)

\* Every reachable state is well typed; no recorded count is ever zero.
THEOREM TypeCorrect == Spec => []TypeOK
<1>1. Init => TypeOK
  <2> SUFFICES ASSUME Init PROVE TypeOK
    OBVIOUS
  <2>1. \A i \in Accidents : Cardinality(Within(i)) \in 1..Cardinality(Accidents)
    BY AvailableType, SelfWithin, Counts DEF Init
  <2> QED
    BY <2>1 DEF Init, TypeOK
<1>2. TypeOK /\ [Next]_vars => TypeOK'
  <2> SUFFICES ASSUME TypeOK, [Next]_vars PROVE TypeOK'
    OBVIOUS
  <2>1. ASSUME NEW i \in Accidents, Drop(i) PROVE TypeOK'
    BY <2>1 DEF TypeOK, Drop, Without
  <2>2. ASSUME NEW i \in Accidents, Requeue(i) PROVE TypeOK'
    <3>1. Cardinality(Available(i)) \in 1..Cardinality(Accidents)
      BY <2>2, AvailableType, Counts, ClusterAssumption DEF Requeue
    <3> QED
      BY <2>2, <3>1 DEF TypeOK, Requeue
  <2>3. ASSUME NEW i \in Accidents, Form(i) PROVE TypeOK'
    BY <2>3, AvailableType DEF TypeOK, Form, Without
  <2>4. CASE UNCHANGED vars
    BY <2>4 DEF TypeOK, vars
  <2> QED
    BY <2>1, <2>2, <2>3, <2>4 DEF Next
<1> QED
  BY <1>1, <1>2, PTL DEF Spec

\* The grid of newGrid and within, which looks at nine cells, finds exactly
\* the accidents within the radius.
THEOREM GridExact == Spec => []GridIsExact
<1>1. TypeOK => GridIsExact
  BY WithinIsCircle DEF TypeOK, GridIsExact
<1> QED
  BY <1>1, TypeCorrect, PTL

-----------------------------------------------------------------------------
(* What a hotspot is                                                       *)

\* No accident is counted in two hotspots, and those marked assigned are the
\* members of the hotspots.
THEOREM NoneCountedTwice == Spec => []CountedOnce
<1>1. Init => CountedOnce
  BY DEF Init, CountedOnce
<1>2. CountedOnce /\ [Next]_vars => CountedOnce'
  <2> SUFFICES ASSUME CountedOnce, [Next]_vars PROVE CountedOnce'
    OBVIOUS
  <2>1. ASSUME NEW i \in Accidents, Form(i) PROVE CountedOnce'
    <3> DEFINE new == [centre |-> i, members |-> Available(i)]
    <3>1. \A h \in hotspots : h.members \cap new.members = {}
      BY DEF CountedOnce, Available
    <3>2. hotspots' = hotspots \cup {new} /\ assigned' = assigned \cup new.members
      BY <2>1 DEF Form
    <3> HIDE DEF new
    <3> QED
      BY <3>1, <3>2 DEF CountedOnce
  <2>2. CASE UNCHANGED <<assigned, hotspots>>
    BY <2>2 DEF CountedOnce
  <2> QED
    BY <2>1, <2>2 DEF Next, Drop, Requeue, vars
<1> QED
  BY <1>1, <1>2, PTL DEF Spec

\* Every hotspot has the minimum of members, none of them more than two radii
\* from another.
THEOREM AlwaysAPlace == Spec => []StaysAPlace
<1>1. Init => StaysAPlace
  BY DEF Init, StaysAPlace
<1>2. TypeOK /\ StaysAPlace /\ [Next]_vars => StaysAPlace'
  <2> SUFFICES ASSUME TypeOK, StaysAPlace, [Next]_vars PROVE StaysAPlace'
    OBVIOUS
  <2>1. ASSUME NEW c \in Accidents, Form(c) PROVE StaysAPlace'
    <3>1. ASSUME NEW i \in Available(c), NEW j \in Available(c)
          PROVE  Greedy!Square(place[i][1] - place[j][1])
                   + Greedy!Square(place[i][2] - place[j][2]) <= Greedy!Square(2 * Radius)
      <4> DEFINE x == place[c][1] - place[i][1]
                 y == place[c][2] - place[i][2]
                 u == place[c][1] - place[j][1]
                 v == place[c][2] - place[j][2]
      <4>1. i \in Accidents /\ j \in Accidents /\ Greedy!Near(c, i) /\ Greedy!Near(c, j)
        BY <3>1, WithinIsCircle, AvailableType DEF TypeOK
      <4>2. x \in Int /\ y \in Int /\ u \in Int /\ v \in Int /\ Radius \in Nat
        BY <4>1, PlaceType, ClusterAssumption DEF TypeOK
      <4>3. x * x + y * y <= Radius * Radius /\ u * u + v * v <= Radius * Radius
        BY <4>1 DEF Greedy!Near, Greedy!Square
      <4>4. place[i][1] - place[j][1] = u - x /\ place[i][2] - place[j][2] = v - y
        BY <4>1, PlaceType DEF TypeOK
      <4> HIDE DEF x, y, u, v
      <4>5. (u - x) * (u - x) + (v - y) * (v - y) <= (2 * Radius) * (2 * Radius)
        BY <4>2, <4>3, TwoRadii
      <4> QED
        BY <4>4, <4>5 DEF Greedy!Square
    <3>2. /\ hotspots' = hotspots \cup {[centre |-> c, members |-> Available(c)]}
          /\ Cardinality(Available(c)) >= MinAccidents
          /\ place' = place
      BY <2>1 DEF Form
    <3> QED
      BY <3>1, <3>2 DEF StaysAPlace, Greedy!Square
  <2>2. CASE UNCHANGED <<place, hotspots>>
    BY <2>2 DEF StaysAPlace, Greedy!Square
  <2> QED
    BY <2>1, <2>2 DEF Next, Drop, Requeue, vars
<1> QED
  BY <1>1, <1>2, TypeCorrect, PTL DEF Spec

-----------------------------------------------------------------------------
(* The lazy queue                                                          *)

\* An entry may claim more than its circle still holds but never less, and no
\* accident that could still be a centre has lost its entry.
THEOREM QueueOptimistic == Spec => []QueueIsOptimistic
<1>1. Init => QueueIsOptimistic
  <2> SUFFICES ASSUME Init, NEW i \in Accidents
               PROVE  Cardinality(Within(i)) >= Cardinality(Available(i))
    BY DEF Init, QueueIsOptimistic
  <2> QED
    BY AvailableType, Counts
<1>2. TypeOK /\ QueueIsOptimistic /\ [Next]_vars => QueueIsOptimistic'
  <2> SUFFICES ASSUME TypeOK, QueueIsOptimistic, [Next]_vars PROVE QueueIsOptimistic'
    OBVIOUS
  <2>0. \A j \in Accidents : place' = place => Available(j)' = Within(j) \ assigned'
    BY DEF Available, Within, Candidates, Cell, InCircle
  <2>1. ASSUME NEW i \in Accidents, Drop(i) PROVE QueueIsOptimistic'
    BY <2>0, <2>1, AvailableType, Counts, ClusterAssumption
       DEF Drop, Without, QueueIsOptimistic, Available
  <2>2. ASSUME NEW i \in Accidents, Requeue(i) PROVE QueueIsOptimistic'
    BY <2>0, <2>2, AvailableType, Counts DEF Requeue, QueueIsOptimistic, Available, TypeOK
  <2>3. ASSUME NEW i \in Accidents, Form(i) PROVE QueueIsOptimistic'
    <3>1. i \in assigned'
      BY <2>3, SelfWithin DEF Form, Available, TypeOK
    <3>2. ASSUME NEW j \in Accidents \ assigned', Cardinality(Available(j)') >= MinAccidents
          PROVE  j \in DOMAIN queue' /\ queue'[j] >= Cardinality(Available(j)')
      <4>1. Available(j)' \subseteq Available(j)
        BY <2>0, <2>3 DEF Form, Available
      <4>2. /\ Cardinality(Available(j)) \in Nat /\ Cardinality(Available(j)') \in Nat
            /\ Cardinality(Available(j)') <= Cardinality(Available(j))
        BY <4>1, AvailableType, Counts
      <4>3. j \in Accidents \ assigned /\ j # i
        BY <2>3, <3>1 DEF Form
      <4>4. j \in DOMAIN queue /\ queue[j] >= Cardinality(Available(j))
        BY <3>2, <4>2, <4>3, ClusterAssumption DEF QueueIsOptimistic
      <4>5. queue' = Without(i)
        BY <2>3 DEF Form
      <4> QED
        BY <4>2, <4>3, <4>4, <4>5 DEF Without, TypeOK
    <3> QED
      BY <3>2 DEF QueueIsOptimistic
  <2>4. CASE UNCHANGED vars
    BY <2>0, <2>4 DEF vars, QueueIsOptimistic, Available
  <2> QED
    BY <2>1, <2>2, <2>3, <2>4 DEF Next
<1> QED
  BY <1>1, <1>2, TypeCorrect, PTL DEF Spec

\* When the loop ends, no accident left out has enough others left out around
\* it to be a hotspot.
THEOREM AllHotspotsFound == Spec => []NothingLeftOut
<1>1. TypeOK /\ QueueIsOptimistic => NothingLeftOut
  <2> SUFFICES ASSUME TypeOK, QueueIsOptimistic, DOMAIN queue = {},
                      NEW i \in Accidents \ assigned
               PROVE  Cardinality({j \in Accidents \ assigned : Greedy!Near(i, j)}) < MinAccidents
    BY DEF NothingLeftOut
  <2>1. Available(i) = {j \in Accidents \ assigned : Greedy!Near(i, j)}
    BY WithinIsCircle DEF Available, TypeOK
  <2>2. ~ (Cardinality(Available(i)) >= MinAccidents)
    BY DEF QueueIsOptimistic
  <2>3. Cardinality(Available(i)) \in Nat
    BY AvailableType, Counts
  <2> QED
    BY <2>1, <2>2, <2>3, ClusterAssumption
<1> QED
  BY <1>1, TypeCorrect, QueueOptimistic, PTL

-----------------------------------------------------------------------------
(* Refinement                                                              *)

\* Popping entries that may be out of date takes exactly the circles the
\* greedy method takes, in its order (the safety part of ImplementsGreedy).
THEOREM RefinesGreedy == Spec => Greedy!Init /\ [][Greedy!Next]_(Greedy!vars)
<1>1. Init => Greedy!Init
  BY DEF Init, Greedy!Init
<1>2. TypeOK /\ QueueIsOptimistic /\ [Next]_vars => [Greedy!Next]_(Greedy!vars)
  <2> SUFFICES ASSUME TypeOK, QueueIsOptimistic, [Next]_vars
               PROVE  [Greedy!Next]_(Greedy!vars)
    OBVIOUS
  <2>1. ASSUME NEW c \in Accidents, Form(c) PROVE Greedy!Next
    <3>1. \A d \in Accidents : Greedy!Free(d) = Available(d)
      BY WithinIsCircle DEF TypeOK, Greedy!Free, Available
    <3>2. \A d \in Accidents : Cardinality(Available(d)) \in Nat
      BY AvailableType, Counts
    <3>3. /\ c \notin assigned /\ c \in DOMAIN queue /\ queue[c] \in Nat
          /\ Cardinality(Available(c)) >= MinAccidents
          /\ queue[c] <= Cardinality(Available(c))
      BY <2>1, <3>2 DEF Form, IsBest, Stale, TypeOK
    <3>4. ASSUME NEW d \in Accidents \ assigned
          PROVE  Greedy!Before(Cardinality(Available(c)), c, Cardinality(Available(d)), d)
      <4>1. CASE d = c
        BY <4>1, <3>4, ClusterAssumption DEF Greedy!Before
      <4>2. CASE Cardinality(Available(d)) < MinAccidents
        BY <4>2, <3>2, <3>3, <3>4, ClusterAssumption DEF Greedy!Before
      <4>3. CASE d # c /\ ~ (Cardinality(Available(d)) < MinAccidents)
        <5>1. d \in DOMAIN queue /\ queue[d] \in Nat /\ queue[d] >= Cardinality(Available(d))
          BY <3>2, <3>4, <4>3, ClusterAssumption DEF QueueIsOptimistic, TypeOK
        <5>2. Less(c, d)
          BY <2>1, <4>3, <5>1 DEF Form, IsBest
        <5> QED
          BY <3>2, <3>3, <3>4, <5>1, <5>2, ClusterAssumption DEF Less, Greedy!Before
      <4> QED
        BY <4>1, <4>2, <4>3
    <3>5. Greedy!Densest(c)
      <4>1. \A S : Greedy!Cardinality(S) = Cardinality(S)
        BY DEF Greedy!Cardinality, Cardinality
      <4> QED
        BY <3>1, <3>3, <3>4, <4>1 DEF Greedy!Densest
    <3>6. Greedy!Take(c)
      BY <2>1, <3>1, <3>5 DEF Greedy!Take, Form
    <3> QED
      BY <3>3, <3>6 DEF Greedy!Next
  <2>2. CASE UNCHANGED <<place, assigned, hotspots>>
    BY <2>2 DEF Greedy!vars
  <2> QED
    BY <2>1, <2>2 DEF Next, Drop, Requeue, vars
<1> QED
  BY <1>1, <1>2, TypeCorrect, QueueOptimistic, PTL DEF Spec

-----------------------------------------------------------------------------
(* The mean of the members                                                 *)

\* What the fold behind Total picks next, and the equation it obeys.
Pick(s) == CHOOSE x \in s : TRUE

Sums(g, S, f) == g = [s \in SUBSET S |-> IF s = {} THEN 0 ELSE f[Pick(s)] + g[s \ {Pick(s)}]]

\* A finite set of members has a function that obeys the equation: one that
\* does for the subsets of a size can be continued to the next larger ones.
LEMMA SumsExists ==
  ASSUME NEW S, IsFiniteSet(S), NEW f \in [S -> Int]
  PROVE  \E g : Sums(g, S, f)
<1> DEFINE Again(g) == [s \in SUBSET S |-> IF s = {} THEN 0 ELSE f[Pick(s)] + g[s \ {Pick(s)}]]
           UpTo(k, g) == \A s \in SUBSET S : Cardinality(s) <= k => g[s] = Again(g)[s]
           Sizes == {k \in Nat : \E g \in [SUBSET S -> Int] : UpTo(k, g)}
<1>1. ASSUME NEW s \in SUBSET S, s # {}
      PROVE  /\ Pick(s) \in s /\ f[Pick(s)] \in Int /\ s \ {Pick(s)} \in SUBSET S
             /\ Cardinality(s) \in Nat /\ Cardinality(s \ {Pick(s)}) = Cardinality(s) - 1
  <2>1. Pick(s) \in s
    BY <1>1 DEF Pick
  <2> QED
    BY <2>1, FS_Subset, FS_CardinalityType, FS_RemoveElement
<1>2. ASSUME NEW g \in [SUBSET S -> Int] PROVE Again(g) \in [SUBSET S -> Int]
  <2>1. ASSUME NEW s \in SUBSET S, s # {} PROVE f[Pick(s)] + g[s \ {Pick(s)}] \in Int
    <3>1. f[Pick(s)] \in Int /\ g[s \ {Pick(s)}] \in Int
      BY <1>1, <2>1
    <3> QED
      BY <3>1
  <2> QED
    BY <2>1
<1>3. 0 \in Sizes
  <2> DEFINE g == [s \in SUBSET S |-> 0]
  <2>1. g \in [SUBSET S -> Int]
    OBVIOUS
  <2>2. ASSUME NEW s \in SUBSET S, Cardinality(s) <= 0 PROVE s = {}
    BY <2>2, <1>1, FS_Subset, FS_CardinalityType, FS_EmptySet
  <2>3. UpTo(0, g)
    BY <2>2
  <2> HIDE DEF g, UpTo
  <2> QED
    BY <2>1, <2>3
<1>4. ASSUME NEW k \in Sizes PROVE k + 1 \in Sizes
  <2>1. PICK g \in [SUBSET S -> Int] : UpTo(k, g)
    OBVIOUS
  <2>2. ASSUME NEW s \in SUBSET S, Cardinality(s) <= k + 1
        PROVE  Again(g)[s] = Again(Again(g))[s]
    <3>1. CASE s = {}
      BY <3>1
    <3>2. CASE s # {}
      <4>1. Cardinality(s \ {Pick(s)}) <= k
        BY <1>1, <2>2, <3>2
      <4>2. g[s \ {Pick(s)}] = Again(g)[s \ {Pick(s)}]
        BY <1>1, <2>1, <3>2, <4>1
      <4> QED
        BY <3>2, <4>2
    <3> QED
      BY <3>1, <3>2
  <2> HIDE DEF Again
  <2>3. UpTo(k + 1, Again(g)) /\ k + 1 \in Nat
    BY <2>2
  <2> HIDE DEF UpTo
  <2> QED
    BY <1>2, <2>3
<1>5. Cardinality(S) \in Sizes
  <2>1. Sizes \in SUBSET Nat /\ Cardinality(S) \in Nat
    BY FS_CardinalityType
  <2> HIDE DEF Sizes
  <2> QED
    BY <1>3, <1>4, <2>1, SetInduction
<1>6. PICK g \in [SUBSET S -> Int] : UpTo(Cardinality(S), g)
  BY <1>5
<1>7. \A s \in SUBSET S : Cardinality(s) <= Cardinality(S)
  BY FS_Subset
<1>8. g = Again(g)
  BY <1>2, <1>6, <1>7
<1> QED
  BY <1>8 DEF Sums

\* Total is such a sum.
LEMMA TotalSums ==
  ASSUME NEW h, IsFiniteSet(h.members), NEW axis, NEW f \in [h.members -> Int],
         \A j \in h.members : f[j] = place[j][axis]
  PROVE  \E g : Sums(g, h.members, f) /\ Total(h, axis) = g[h.members]
<1> DEFINE S == h.members
           place2(g) == [s \in SUBSET S |->
                           IF s = {} THEN 0 ELSE place[Pick(s)][axis] + g[s \ {Pick(s)}]]
           g1 == CHOOSE g : g = place2(g)
<1>1. Total(h, axis) = g1[S]
  BY Zenon DEF Total, MapThenSumSet, MapThenFoldSet, Pick
<1>2. \A s \in SUBSET S : s # {} => Pick(s) \in S
  BY DEF Pick
<1>3. \A g : Sums(g, S, f) <=> g = place2(g)
  BY <1>2 DEF Sums
<1>4. Sums(g1, S, f)
  BY <1>3, SumsExists
<1> QED
  BY <1>1, <1>4

\* If a shift is no longer than m lengths and another no longer than one, both
\* together are no longer than m + 1.
LEMMA ShiftsAdd ==
  ASSUME NEW m \in Nat, NEW D \in Nat, NEW a \in Int, NEW b \in Int, NEW c \in Int, NEW d \in Int,
         a * a + b * b <= (D * m) * (D * m), c * c + d * d <= D * D
  PROVE  (a + c) * (a + c) + (b + d) * (b + d) <= (D * (m + 1)) * (D * (m + 1))
<1> DEFINE t == a * c + b * d
           E == D * D
<1>1. t \in Int /\ E \in Nat
  OBVIOUS
<1>2. (a + c) * (a + c) + (b + d) * (b + d) = (a * a + b * b) + 2 * t + (c * c + d * d)
  OBVIOUS
<1>3. (D * m) * (D * m) = (m * m) * E
  OBVIOUS
<1>4. (D * (m + 1)) * (D * (m + 1)) = (m * m) * E + 2 * (m * E) + E
  OBVIOUS
<1>5. t <= m * E
  <2>1. CASE m = 0
    <3>1. a * a + b * b <= 0
      BY <2>1
    <3>2. a * a >= 0 /\ b * b >= 0
      OBVIOUS
    <3>3. a = 0 /\ b = 0
      BY <3>1, <3>2
    <3> QED
      BY <2>1, <3>3
  <2>2. CASE m > 0
    <3>1. (a - m * c) * (a - m * c) >= 0 /\ (b - m * d) * (b - m * d) >= 0
      OBVIOUS
    <3>2. (a - m * c) * (a - m * c) = a * a - 2 * (m * (a * c)) + (m * m) * (c * c)
      OBVIOUS
    <3>3. (b - m * d) * (b - m * d) = b * b - 2 * (m * (b * d)) + (m * m) * (d * d)
      OBVIOUS
    <3>4. m * t = m * (a * c) + m * (b * d)
      OBVIOUS
    <3>5. (m * m) * (c * c) + (m * m) * (d * d) <= (m * m) * E
      <4>1. (m * m) * (c * c) + (m * m) * (d * d) = (m * m) * (c * c + d * d)
        OBVIOUS
      <4>2. \A k \in Nat, x, y \in Int : x <= y => k * x <= k * y
        OBVIOUS
      <4> QED
        BY <4>1, <4>2
    <3>6. 2 * (m * t) <= 2 * ((m * m) * E)
      BY <3>1, <3>2, <3>3, <3>4, <3>5, <1>3
    <3>7. m * t <= m * (m * E)
      BY <3>6
    <3>8. \A k \in Nat, x, y \in Int : k > 0 /\ k * x <= k * y => x <= y
      OBVIOUS
    <3> HIDE DEF t, E
    <3> QED
      BY <1>1, <2>2, <3>7, <3>8
  <2> QED
    BY <2>1, <2>2
<1> HIDE DEF t, E
<1>6. c * c + d * d <= E
  BY DEF E
<1> QED
  BY <1>1, <1>2, <1>3, <1>4, <1>5, <1>6

\* Members who are all within a distance D of a point have their mean within D.
\* The offsets are multiplied by how many they are.
LEMMA MeanIsNear ==
  ASSUME NEW S, IsFiniteSet(S), NEW D \in Nat, NEW x \in Int, NEW y \in Int,
         NEW f \in [S -> Int], NEW g \in [S -> Int],
         \A j \in S : (x - f[j]) * (x - f[j]) + (y - g[j]) * (y - g[j]) <= D * D,
         NEW F, Sums(F, S, f), NEW G, Sums(G, S, g)
  PROVE  LET n == Cardinality(S)
         IN  (n * x - F[S]) * (n * x - F[S]) + (n * y - G[S]) * (n * y - G[S]) <= (D * n) * (D * n)
<1> DEFINE Near(s, n) ==
             /\ F[s] \in Int /\ G[s] \in Int
             /\ (n * x - F[s]) * (n * x - F[s]) + (n * y - G[s]) * (n * y - G[s]) <= (D * n) * (D * n)
           Sizes == {n \in Nat : \A s \in SUBSET S : Cardinality(s) = n => Near(s, n)}
<1>1. /\ F[{}] = 0 /\ G[{}] = 0
      /\ \A s \in SUBSET S : s # {} => F[s] = f[Pick(s)] + F[s \ {Pick(s)}]
                                    /\ G[s] = g[Pick(s)] + G[s \ {Pick(s)}]
  BY DEF Sums
<1>2. 0 \in Sizes
  <2>1. \A s \in SUBSET S : Cardinality(s) = 0 => s = {}
    BY FS_Subset, FS_EmptySet
  <2>2. Near({}, 0)
    BY <1>1
  <2> HIDE DEF Near
  <2> QED
    BY <2>1, <2>2
<1>3. ASSUME NEW m \in Sizes PROVE m + 1 \in Sizes
  <2>1. ASSUME NEW s \in SUBSET S, Cardinality(s) = m + 1 PROVE Near(s, m + 1)
    <3> DEFINE j == Pick(s)
               t == s \ {j}
    <3>0. m \in Nat /\ IsFiniteSet(s)
      BY FS_Subset
    <3>1. s # {}
      <4>1. Cardinality(s) # 0
        BY <2>1, <3>0
      <4> QED
        BY <4>1, FS_EmptySet
    <3>2. j \in s /\ t \in SUBSET S
      BY <3>1 DEF Pick
    <3>3. Cardinality(t) = m
      <4>1. Cardinality(t) = Cardinality(s) - 1
        BY <3>0, <3>2, FS_RemoveElement
      <4> QED
        BY <2>1, <3>0, <4>1
    <3>4. Near(t, m)
      BY <3>2, <3>3
    <3>5. f[j] \in Int /\ g[j] \in Int /\ F[s] = f[j] + F[t] /\ G[s] = g[j] + G[t]
          /\ (x - f[j]) * (x - f[j]) + (y - g[j]) * (y - g[j]) <= D * D
      BY <1>1, <3>1, <3>2
    <3> DEFINE a == m * x - F[t]
               b == m * y - G[t]
               c == x - f[j]
               d == y - g[j]
    <3> HIDE DEF j, t
    <3>6. a \in Int /\ b \in Int /\ c \in Int /\ d \in Int /\ m \in Nat
      BY <3>4, <3>5
    <3>7. (m + 1) * x - F[s] = a + c /\ (m + 1) * y - G[s] = b + d
      BY <3>4, <3>5
    <3>8. a * a + b * b <= (D * m) * (D * m) /\ c * c + d * d <= D * D
      BY <3>4, <3>5
    <3> HIDE DEF a, b, c, d
    <3>9. (a + c) * (a + c) + (b + d) * (b + d) <= (D * (m + 1)) * (D * (m + 1))
      BY <3>6, <3>8, ShiftsAdd
    <3> QED
      BY <3>4, <3>5, <3>7, <3>9
  <2> HIDE DEF Near
  <2> QED
    BY <2>1
<1>4. Cardinality(S) \in Sizes
  <2>1. Sizes \in SUBSET Nat /\ Cardinality(S) \in Nat
    BY FS_CardinalityType
  <2> HIDE DEF Sizes
  <2> QED
    BY <1>2, <1>3, <2>1, SetInduction
<1> QED
  BY <1>4

\* ReportedRadiusBounded: the mean that Cluster reports for a hotspot is within
\* two radii of every member, as they are of one another.
THEOREM ReportedRadius == Spec => []ReportedRadiusBounded
<1>1. TypeOK /\ StaysAPlace => ReportedRadiusBounded
  <2> SUFFICES ASSUME TypeOK, StaysAPlace, NEW h \in hotspots, NEW j \in h.members
               PROVE  LET n == Cardinality(h.members)
                          Off(axis) == n * place[j][axis] - Total(h, axis)
                      IN  Greedy!Square(Off(1)) + Greedy!Square(Off(2))
                            <= Greedy!Square(2 * Radius * n)
    BY DEF ReportedRadiusBounded
  <2> DEFINE S == h.members
             n == Cardinality(S)
             x == place[j][1]
             y == place[j][2]
             f == [i \in S |-> place[i][1]]
             g == [i \in S |-> place[i][2]]
             D == 2 * Radius
  <2>1. S \subseteq Accidents /\ IsFiniteSet(S) /\ D \in Nat /\ n \in Nat
    <3>1. S \subseteq Accidents
      BY DEF TypeOK
    <3>2. IsFiniteSet(S)
      BY <3>1, ClusterAssumption, FS_Subset
    <3> QED
      BY <3>1, <3>2, ClusterAssumption, FS_CardinalityType
  <2>2. x \in Int /\ y \in Int /\ f \in [S -> Int] /\ g \in [S -> Int]
    BY <2>1, PlaceType DEF TypeOK
  <2>3. \A i \in S : (x - f[i]) * (x - f[i]) + (y - g[i]) * (y - g[i]) <= D * D
    BY DEF StaysAPlace, Greedy!Square
  <2>4. PICK F : Sums(F, S, f) /\ Total(h, 1) = F[S]
    BY <2>1, <2>2, TotalSums
  <2>5. PICK G : Sums(G, S, g) /\ Total(h, 2) = G[S]
    BY <2>1, <2>2, TotalSums
  <2> HIDE DEF x, y, f, g, D
  <2>6. (n * x - F[S]) * (n * x - F[S]) + (n * y - G[S]) * (n * y - G[S]) <= (D * n) * (D * n)
    BY <2>1, <2>2, <2>3, <2>4, <2>5, MeanIsNear
  <2> QED
    BY <2>4, <2>5, <2>6 DEF Greedy!Square, x, y, D
<1> QED
  BY <1>1, TypeCorrect, AlwaysAPlace, PTL

-----------------------------------------------------------------------------
(* Why the loop ends                                                       *)

\* A unit of work for each accident that a queued count stands for.
Remaining == {u \in (DOMAIN queue) \X (1..Cardinality(Accidents)) : u[2] <= queue[u[1]]}

\* It is a finite set.
LEMMA RemainingFinite ==
  ASSUME TypeOK PROVE IsFiniteSet(Remaining)
<1> DEFINE all == (DOMAIN queue) \X (1..Cardinality(Accidents))
<1>1. IsFiniteSet(DOMAIN queue)
  BY ClusterAssumption, FS_Subset DEF TypeOK
<1>2. IsFiniteSet(1..Cardinality(Accidents))
  BY ClusterAssumption, FS_CardinalityType, FS_Interval
<1>3. IsFiniteSet(all)
  BY <1>1, <1>2, FS_Product
<1>4. Remaining \in SUBSET all
  BY DEF Remaining
<1> HIDE DEF all
<1> QED
  BY <1>3, <1>4, FS_Subset

\* Every turn of the loop leaves less to do.
TurnsLeaveLess == Cardinality(Remaining') < Cardinality(Remaining)

\* What lacks a part of it is smaller.
LEMMA LessRemains ==
  ASSUME TypeOK, NEW T \in SUBSET Remaining, NEW u \in Remaining \ T
  PROVE  Cardinality(T) < Cardinality(Remaining)
<1>1. IsFiniteSet(Remaining)
  BY RemainingFinite
<1>2. /\ IsFiniteSet(T) /\ Cardinality(T) <= Cardinality(Remaining)
      /\ Cardinality(T) # Cardinality(Remaining)
  BY <1>1, FS_Subset
<1>3. Cardinality(T) \in Nat /\ Cardinality(Remaining) \in Nat
  BY <1>1, <1>2, FS_CardinalityType
<1> QED
  BY <1>2, <1>3

\* Every turn of the loop of Cluster leaves less to do than there was, also the
\* one that queues an entry again.
THEOREM EveryTurnCounts == Spec => [][TurnsLeaveLess]_vars
<1>1. TypeOK /\ [Next]_vars => [TurnsLeaveLess]_vars
  <2> SUFFICES ASSUME TypeOK, NEW i \in Accidents, Drop(i) \/ Requeue(i) \/ Form(i)
               PROVE  TurnsLeaveLess
    BY DEF Next
  <2>1. i \in DOMAIN queue /\ queue[i] \in 1..Cardinality(Accidents)
    BY DEF Drop, Requeue, Form, IsBest, TypeOK
  <2>2. CASE queue' = Without(i)
    <3>1. Remaining' \subseteq Remaining
      BY <2>2 DEF Remaining, Without
    <3>2. <<i, queue[i]>> \in Remaining \ Remaining'
      BY <2>1, <2>2 DEF Remaining, Without
    <3> QED
      BY <3>1, <3>2, LessRemains DEF TurnsLeaveLess
  <2>3. CASE Requeue(i)
    <3> DEFINE k == Cardinality(Available(i))
    <3>1. queue' = [queue EXCEPT ![i] = k] /\ k < queue[i] /\ k \in Nat
      BY <2>3, AvailableType, Counts DEF Requeue, Stale
    <3> HIDE DEF k
    <3>2. \A j \in DOMAIN queue : queue'[j] <= queue[j]
      BY <2>1, <3>1 DEF TypeOK
    <3>3. Remaining' \subseteq Remaining
      BY <3>1, <3>2 DEF Remaining, TypeOK
    <3>4. <<i, queue[i]>> \in Remaining \ Remaining'
      BY <2>1, <3>1 DEF Remaining
    <3> QED
      BY <3>3, <3>4, LessRemains DEF TurnsLeaveLess
  <2> QED
    BY <2>2, <2>3 DEF Drop, Form
<1> QED
  BY <1>1, TypeCorrect, PTL DEF Spec

\* Of any entries there is one that Less puts before the others.
LEMMA BestExists ==
  ASSUME TypeOK, DOMAIN queue # {}
  PROVE  \E i \in DOMAIN queue : IsBest(i)
<1> DEFINE HasTop(T) == \E i \in T : \A j \in T \ {i} : Less(i, j)
           Sizes == {n \in Nat : \A T \in SUBSET DOMAIN queue : Cardinality(T) = n + 1 => HasTop(T)}
<1>1. IsFiniteSet(DOMAIN queue)
  BY ClusterAssumption, FS_Subset DEF TypeOK
<1>2. DOMAIN queue \subseteq Int /\ \A i \in DOMAIN queue : queue[i] \in Int
  BY ClusterAssumption DEF TypeOK
<1>3. \A i, j \in DOMAIN queue : i # j => Less(i, j) \/ Less(j, i)
  BY <1>2 DEF Less
<1>4. \A i, j, k \in DOMAIN queue : Less(i, j) /\ Less(j, k) => Less(i, k)
  BY <1>2 DEF Less
<1>5. ASSUME NEW T \in SUBSET DOMAIN queue, NEW n \in Nat, Cardinality(T) = n + 1
      PROVE  \E a \in T : Cardinality(T \ {a}) = n /\ (n = 0 => T = {a})
  <2>1. IsFiniteSet(T) /\ T # {}
    BY <1>1, <1>5, FS_Subset, FS_EmptySet
  <2>2. PICK a \in T : TRUE
    BY <2>1
  <2>3. IsFiniteSet(T \ {a}) /\ Cardinality(T \ {a}) = n
    BY <1>5, <2>1, <2>2, FS_RemoveElement
  <2>4. n = 0 => T \ {a} = {}
    BY <2>3, FS_EmptySet
  <2> QED
    BY <2>3, <2>4
<1>6. 0 \in Sizes
  <2>1. ASSUME NEW T \in SUBSET DOMAIN queue, Cardinality(T) = 0 + 1 PROVE HasTop(T)
    <3>1. PICK a \in T : T = {a}
      BY <1>5, <2>1
    <3>2. \A j \in T \ {a} : Less(a, j)
      BY <3>1
    <3> QED
      BY <3>2
  <2> HIDE DEF HasTop
  <2> QED
    BY <2>1
<1>7. ASSUME NEW n \in Sizes PROVE n + 1 \in Sizes
  <2>1. ASSUME NEW T \in SUBSET DOMAIN queue, Cardinality(T) = (n + 1) + 1 PROVE HasTop(T)
    <3>1. PICK a \in T : Cardinality(T \ {a}) = n + 1
      BY <1>5, <2>1
    <3>2. PICK b \in T \ {a} : \A j \in (T \ {a}) \ {b} : Less(b, j)
      <4>1. HasTop(T \ {a})
        <5> HIDE DEF HasTop
        <5> QED
          BY <3>1
      <4> QED
        BY <4>1
    <3>3. CASE Less(a, b)
      BY <1>4, <3>2, <3>3
    <3>4. CASE Less(b, a)
      BY <3>2, <3>4
    <3> QED
      BY <1>3, <3>2, <3>3, <3>4
  <2> HIDE DEF HasTop
  <2> QED
    BY <2>1
<1>8. \A n \in Nat : n \in Sizes
  <2>1. Sizes \in SUBSET Nat
    OBVIOUS
  <2> HIDE DEF Sizes
  <2> QED
    BY <1>6, <1>7, <2>1, SetInduction
<1>9. Cardinality(DOMAIN queue) \in Nat /\ Cardinality(DOMAIN queue) - 1 \in Nat
  <2>1. Cardinality(DOMAIN queue) \in Nat /\ Cardinality(DOMAIN queue) # 0
    BY <1>1, FS_CardinalityType, FS_EmptySet
  <2> QED
    BY <2>1
<1>10. HasTop(DOMAIN queue)
  <2>1. Cardinality(DOMAIN queue) = (Cardinality(DOMAIN queue) - 1) + 1
    BY <1>9
  <2> HIDE DEF HasTop
  <2> QED
    BY <1>8, <1>9, <2>1
<1> QED
  BY <1>10 DEF IsBest

\* As long as Cluster has entries queued, there is one to pop: the loop never
\* gets stuck before its queue is empty.
THEOREM NeverStuck == Spec => [](DOMAIN queue # {} => \E i \in DOMAIN queue : IsBest(i))
<1>1. TypeOK => (DOMAIN queue # {} => \E i \in DOMAIN queue : IsBest(i))
  BY BestExists
<1> QED
  BY <1>1, TypeCorrect, PTL
=============================================================================
