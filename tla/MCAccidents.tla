----------------------------- MODULE MCAccidents -----------------------------
(* Constants for model-checking Accidents.                                 *)
EXTENDS Accidents, TLC

MCNumber ==
  ("280" :> 280) @@ ("100" :> 100) @@ ("0" :> 0) @@ ("1" :> 1) @@ ("2" :> 2) @@ ("3" :> 3) @@ ("9" :> 9)

MCPointed ==
  [t \in {"", "280", "100", "0", "1", "2", "3", "9", "12.62", "50.79", "12,62"} |->
     IF t = "12,62" THEN "12.62" ELSE t]

MCDegrees == ("12.62" :> 12) @@ ("50.79" :> 50)

\* The columns of an early year, without istgkfz; the same in another order, one
\* with its new name; and those of a later year.
Early == <<"ugemeinde", "ukategorie", "iststrasse", "istrad", "xgcswgs84">>
Reordered == <<"xgcswgs84", "istrad", "ustrzustand", "ukategorie", "ugemeinde", "plst">>
Late == <<"istgkfz", "xgcswgs84", "istrad", "ustrzustand", "ukategorie", "ugemeinde", "plst">>

\* One accident in each of them.
Bicycle == <<"280", "2", "0", "1", "12,62">>
BicycleReordered == <<"12.62", "1", "0", "2", "280", "Z">>
BicycleLate == <<"0", "12.62", "1", "0", "2", "280", "Z">>

Lorry == <<"1", "12.62", "0", "", "1", "280", "Z">>
Fog == <<"12.62", "0", "1", "3", "280", "Z">>
Elsewhere == <<"100", "3", "1", "0", "12,62">>
Swapped == <<"0", "50.79", "1", "1", "3", "280", "Z">>

File(header, rows) == [header |-> header, rows |-> rows]

\* A year laid out anew, with a stray line and an accident that was missing, and
\* then in the columns of later years; a year whose first edition is unusable.
MCEditions ==
  (2016 :> <<File(Early, <<Bicycle, Elsewhere, Bicycle>>),
             File(Reordered, <<BicycleReordered, <<"">>, Fog>>),
             File(Late, <<BicycleLate, Lorry>>)>>)
    @@ (2017 :> <<File(Late, <<Lorry, Swapped>>), File(Early, <<Elsewhere>>)>>)

MCMatches == {280}

\* One year of two editions, and of which each has one accident more.
MCTwoEditions ==
  2016 :> <<File(Early, <<Bicycle>>), File(Late, <<BicycleLate, Lorry>>)>>

Symmetry == Permutations(Importers)
=============================================================================
