------------------------------ MODULE Mappings ------------------------------
(***************************************************************************)
(* ParseInstitutions of backend/internal/osm/parse.go: which of several    *)
(* mappings of one school are kept.                                        *)
(*                                                                         *)
(* An element is [type, id, amenity, name, own, centre, line]: the three   *)
(* ways Overpass has of saying where it is.  Places are pairs of metres,   *)
(* the flat approximation of withinMetres.                                 *)
(***************************************************************************)
EXTENDS Integers, Sequences, FiniteSets, SequencesExt

CONSTANTS
  Nowhere,   \* where Overpass says nothing
  Folded     \* name -> name, without its case; a name that is missing is ""

ASSUME FoldedAssumption == \A name \in DOMAIN Folded : Folded[name] = "" <=> name = ""

\* What any answer is: in OpenStreetMap an id names one element of its type.
IsAnswer(body) ==
  /\ body \in Seq(ToSet(body))
  /\ \A e \in ToSet(body) :
       e.type \in {"node", "way", "relation"} /\ e.id \in Nat /\ e.name \in DOMAIN Folded
  /\ \A e, f \in ToSet(body) : e.type = f.type /\ e.id = f.id => e = f

\* element.point.
PointOf(e) ==
  CASE e.own # Nowhere -> e.own
    [] e.own = Nowhere /\ e.centre # Nowhere -> e.centre
    [] e.own = Nowhere /\ e.centre = Nowhere /\ e.line # <<>> -> e.line[(Len(e.line) \div 2) + 1]
    [] OTHER -> Nowhere

IsInstitution(e) == e.amenity \in {"school", "kindergarten"} /\ PointOf(e) # Nowhere

\* The loop of ParseInstitutions.  An institution is written as its element; its
\* place is PointOf.
Institutions(body) ==
  LET all[n \in 0..Len(body)] ==
        IF n = 0 THEN <<>>
        ELSE LET before == all[n - 1]
             IN  IF IsInstitution(body[n]) THEN Append(before, body[n]) ELSE before
  IN  all[Len(body)]

rank(i) ==
  CASE i.name = "" -> 0
    [] i.name # "" /\ i.type = "relation" -> 3
    [] i.name # "" /\ i.type = "way" -> 2
    [] OTHER -> 1

better(a, b) == rank(a) > rank(b) \/ (rank(a) = rank(b) /\ a.id < b.id)

Square(n) == n * n

withinMetres(a, b, metres) ==
  LET p == PointOf(a)
      q == PointOf(b)
  IN  Square(p[1] - q[1]) + Square(p[2] - q[2]) <= Square(metres)

namedRadiusMetres == 300
unnamedRadiusMetres == 150

\* The body of the loop of supersededBy.
supersedes(other, candidate) ==
  /\ other.amenity = candidate.amenity
  /\ IF candidate.name = ""
     THEN other.name # "" /\ withinMetres(candidate, other, unnamedRadiusMetres)
     ELSE Folded[candidate.name] = Folded[other.name]
            /\ withinMetres(candidate, other, namedRadiusMetres)

\* An entry goes behind all it is not better than.
Inserted(c, s) ==
  LET k == Cardinality({m \in DOMAIN s : ~better(c, s[m])})
  IN  SubSeq(s, 1, k) \o <<c>> \o SubSeq(s, k + 1, Len(s))

\* sort.SliceStable with better, one entry after the other.
SortedStable(all) ==
  LET sorted[n \in 0..Len(all)] == IF n = 0 THEN <<>> ELSE Inserted(all[n], sorted[n - 1])
  IN  sorted[Len(all)]

\* The loop of deduplicate.
Survivors(order) ==
  LET kept[n \in 0..Len(order)] ==
        IF n = 0 THEN {}
        ELSE LET before == kept[n - 1]
             IN  IF \E other \in before : supersedes(other, order[n]) THEN before
                 ELSE before \cup {order[n]}
  IN  kept[Len(order)]

\* Mutant: the entries are taken in the order of the answer.
deduplicate_Unsorted(all) == Survivors(all)

\* The kept ones as a set: the order they are returned in has no effect.
deduplicate(all) == Survivors(SortedStable(all))

ParseInstitutions(body) == deduplicate(Institutions(body))

-----------------------------------------------------------------------------
(* What deduplicate promises, without an order to go through: of a set of  *)
(* mappings those are kept that no better mapping that is kept supersedes. *)
IsBestOf(kept, all) ==
  /\ kept \subseteq all
  /\ \A c \in all :
       c \in kept <=> ~\E other \in kept : better(other, c) /\ supersedes(other, c)
=============================================================================
