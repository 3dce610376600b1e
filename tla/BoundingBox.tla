---------------------------- MODULE BoundingBox ----------------------------
(***************************************************************************)
(* The bounding box of a tile, from which every spatial query is made. One *)
(* tile is 10 units wide, the world is a square of map_width tiles around  *)
(* the origin of the Mercator projection, y grows to the north and the     *)
(* buffer is a fifth of a tile. The last step, to degrees, is monotone on  *)
(* both axes and left out: the order of coordinates is all that is used.   *)
(***************************************************************************)
EXTENDS Integers

map_width(zoom) == 2^zoom
tile_width_merc == 10
buffer == 2
Edge(zoom) == 5 * map_width(zoom)   (* half of EARTH_CIRCUMFERENCE         *)

tile_x_to_merc(t) == tile_width_merc * t.x - Edge(t.zoom)
tile_y_to_merc(t) == Edge(t.zoom) - tile_width_merc * t.y

(* A box does not cross the antimeridian.                                  *)
UpToWest(merc, zoom) == IF merc < -Edge(zoom) THEN -Edge(zoom) ELSE merc
UpToEastUnchecked(merc, zoom) == merc  \* mutant of UpToEast
UpToEast(merc, zoom) == IF merc > Edge(zoom) THEN Edge(zoom) ELSE merc

BoxOfNorthLower(t) ==  \* mutant of BoxOf
    LET moved_y_merc == tile_y_to_merc(t) - buffer
    IN  [ west |-> UpToWest(tile_x_to_merc(t) - buffer, t.zoom),
          north |-> UpToEast(moved_y_merc, t.zoom),
          east |-> UpToEast(tile_x_to_merc(t) + tile_width_merc + buffer, t.zoom),
          south |-> UpToWest(moved_y_merc - tile_width_merc - buffer, t.zoom) ]

(* The constructor. The north is computed by an assignment to the tile's   *)
(* own y, from which the south is computed then.                           *)
BoxOf(t) ==
    LET moved_y_merc == tile_y_to_merc(t) + buffer
    IN  [ west |-> UpToWest(tile_x_to_merc(t) - buffer, t.zoom),
          north |-> UpToEast(moved_y_merc, t.zoom),
          east |-> UpToEast(tile_x_to_merc(t) + tile_width_merc + buffer, t.zoom),
          south |-> UpToWest(moved_y_merc - tile_width_merc - buffer, t.zoom) ]

-----------------------------------------------------------------------------
Covers(box, t) ==
    /\ box.west <= tile_x_to_merc(t) /\ box.east >= tile_x_to_merc(t) + tile_width_merc
    /\ box.north >= tile_y_to_merc(t) /\ box.south <= tile_y_to_merc(t) - tile_width_merc

(* Within the range of the projection, and not collapsed (is_valid).       *)
IsEnvelope(box, zoom) ==
    /\ -Edge(zoom) <= box.west /\ box.west < box.east /\ box.east <= Edge(zoom)
    /\ -Edge(zoom) <= box.south /\ box.south < box.north /\ box.north <= Edge(zoom)
=============================================================================
