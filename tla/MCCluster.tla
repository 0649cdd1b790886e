------------------------------ MODULE MCCluster ------------------------------
(* Constants for model-checking Cluster.                                   *)
EXTENDS Cluster, TLC

\* Every layout of the accidents along a road of five grid cells: with
\* five of them a circle can lose one accident to another and still be queued
\* again with two.  It lies far from the origin: a centre is the mean of what
\* its hotspot holds wherever that is.
MCRoad == [Accidents -> {-6, -3, 0, 3, 6} \X {30}]

\* Every layout on six places of a block of three grid cells a side, on both
\* sides of the origin, where circles reach across edges and corners of cells.
MCBlock == [Accidents -> {<<-2, -2>>, <<1, -2>>, <<-2, 1>>, <<1, 1>>, <<3, 1>>, <<3, 3>>}]

\* Every layout on a ring of five places, each in reach of its neighbours
\* only: two circles can lose one accident each to the same hotspot.
MCRing == [Accidents -> {<<-2, 0>>, <<0, -2>>, <<2, 0>>, <<1, 2>>, <<-1, 2>>}]

MCLayouts == MCRoad \cup MCBlock \cup MCRing

=============================================================================
