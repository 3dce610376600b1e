---------------------------- MODULE MCVectorTile ----------------------------
(***************************************************************************)
(* Two generators at the same time, one with two tiles and one with the    *)
(* second of them, each started at most MaxRuns times; every tile has a    *)
(* key of its own.                                                         *)
(***************************************************************************)
EXTENDS VectorTile

MCGenerators == {"daily", "hourly"}
MCTiles == {"a", "b"}
MCLists == [g \in MCGenerators |-> IF g = "daily" THEN <<"a", "b">> ELSE <<"b">>]
MCQuadtreeId == [t \in MCTiles |-> IF t = "a" THEN 0 ELSE 1]
=============================================================================
