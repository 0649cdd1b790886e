------------------------------ MODULE MCFigures ------------------------------
(* Constants for model-checking Figures.                                   *)
EXTENDS Figures, TLC

\* Three accidents of two reporting years.
MCYearOf == [a \in Accidents |-> IF a = "a1" THEN 3 ELSE 4]

\* At the gate two accidents, one of each year, are near; at the field one.
MCNearby == [p \in Places |-> IF p = "gate" THEN {"a1", "a2"} ELSE {"a3"}]

\* No restriction, and a single year.
MCTwoFilters == {[from |-> 2, to |-> 9], [from |-> 4, to |-> 4]}

=============================================================================
