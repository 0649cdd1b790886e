----------------------------- MODULE MCOverpass -----------------------------
(* Constants for model-checking Overpass.                                  *)
EXTENDS Overpass, TLC

School(type, id, name, metres) ==
  [type |-> type, id |-> id, amenity |-> "school", name |-> name,
   own |-> IF type = "node" THEN <<metres, 0>> ELSE Nowhere,
   centre |-> IF type = "relation" THEN <<metres, 0>> ELSE Nowhere,
   line |-> IF type = "way" THEN <<<<metres - 90, 0>>, <<metres, 0>>, <<metres + 20, 0>>>> ELSE <<>>]

MCFolded == [n \in {"", "Goetheschule", "GOETHESCHULE"} |->
               IF n = "GOETHESCHULE" THEN "Goetheschule" ELSE n]

\* Three mappings in a row 250 m apart, the middle one superseded by the first.
Row == {School("relation", 3, "Goetheschule", 0), School("way", 2, "GOETHESCHULE", 250),
        School("node", 1, "Goetheschule", 500)}

\* An unnamed way next to a node that gives way itself, and ids that collide.
Unnamed == {School("relation", 7, "Goetheschule", 0), School("node", 5, "Goetheschule", 200),
            School("way", 5, "", 300)}

\* Nodes of one name with nothing but ids to choose by.
Nodes == {School("node", 1, "Goetheschule", 300), School("node", 2, "Goetheschule", 0)}

\* A school and a kindergarten of one name, and one without a name on a spot.
Kinds == {School("way", 8, "Goetheschule", 0), School("way", 4, "", 200),
          School("node", 4, "", 190),
          [School("node", 3, "Goetheschule", 100) EXCEPT !.amenity = "kindergarten"]}

Crossing == [type |-> "node", id |-> 70, amenity |-> "", name |-> "", own |-> <<5, 5>>,
             centre |-> Nowhere, line |-> <<>>]

World(answers) ==
  (<<"zwickau", "institutions">> :> answers) @@ (<<"zwickau", "crossings">> :> {<<Crossing>>})

\* Overpass returns the elements in any order, each row in all of them, here an
\* order or its reverse at a time; or it gives up and returns none.
InOrder(elements) == SetToSeq(elements)
Rotated(s) == Append(Tail(s), Head(s))

MCWorlds ==
  LET row == InOrder(Row)
      BothWays(s) == World({s, Reverse(s)})
  IN  <<BothWays(row), BothWays(Rotated(row)), BothWays(Rotated(Rotated(row))),
        BothWays(InOrder(Unnamed)), World({InOrder(Nodes)}), World({Reverse(InOrder(Nodes))}),
        World({InOrder(Kinds), <<>>})>>

\* One school in each of two regions.
MCTwoTowns ==
  <<(<<"zwickau", "institutions">> :> {<<School("node", 1, "Goetheschule", 300)>>})
      @@ (<<"leipzig", "institutions">> :> {<<School("node", 2, "Goetheschule", 90300)>>})>>

MCOneQuery == <<"institutions">>

MCRegions == <<"zwickau">>

MCTwoRegions == <<"zwickau", "leipzig">>

MCQueries == <<"institutions", "crossings">>
=============================================================================
