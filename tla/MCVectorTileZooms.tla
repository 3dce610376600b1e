-------------------------- MODULE MCVectorTileZooms --------------------------
(***************************************************************************)
(* One generator whose list has a tile at two zoom levels; the keys are    *)
(* those xy_to_quadtree computes.                                          *)
(***************************************************************************)
EXTENDS VectorTile

MCGenerators == {"g"}
Corner(l) == [zoom |-> l, x |-> 0, y |-> 0]
MCTiles == {Corner(1), Corner(2)}
MCLists == [g \in MCGenerators |-> <<Corner(1), Corner(2)>>]

Keys == INSTANCE Quadtree
MCQuadtreeId == [t \in MCTiles |-> Keys!xy_to_quadtree(t)]
=============================================================================
