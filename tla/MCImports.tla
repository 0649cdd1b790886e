------------------------------ MODULE MCImports ------------------------------
(* Constants for model-checking Imports.                                   *)
EXTENDS Imports, TLC

\* A town, a school in the box, one whose grounds touch the box and whose
\* centre lies outside, and a speed limit on a stretch that is calmed as well,
\* so that the query for crossings returns it too.
MCKind ==
  ("town" :> "boundary") @@ ("school" :> "institution") @@ ("edge" :> "institution")
    @@ ("zone30" :> "speed_limit")

MCInBox == [r \in Regions |-> {"town", "school", "zone30"}]

MCReturned == [r \in Regions |-> {"town", "school", "edge", "zone30"}]

MCCovers == [b \in {"town"} |-> {"school", "edge"}]

MCRegions == <<"zwickau">>

MCQueries == <<"boundaries", "institutions", "crossings">>

Symmetry == Permutations(Importers)
=============================================================================
