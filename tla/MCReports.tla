------------------------------ MODULE MCReports ------------------------------
(* Constants for model-checking Reports.                                   *)
EXTENDS Reports, TLC

\* Two addresses of one household (one /64 prefix) and one somewhere else.
MCNetwork == [a \in Addresses |-> IF a \in {"home-1", "home-2"} THEN "home" ELSE a]

\* Two moderators who know the token and a visitor who sends none.
MCPresented == [m \in Moderators |-> IF m = "visitor" THEN "" ELSE "secret"]

Symmetry == Permutations(Ids) \cup Permutations(Workers)
=============================================================================
