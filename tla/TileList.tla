------------------------------ MODULE TileList ------------------------------
(***************************************************************************)
(* From the list of tiles to the queries and the jobs: read_tiles_list     *)
(* makes a bounding box of every line z/x/y until it comes to the end or   *)
(* to a line it cannot read, and run() goes through the boxes, each of     *)
(* which gives the envelope of the queries and, bit by bit, the key of the *)
(* job. The tile on the command line is a list of one line.                *)
(***************************************************************************)
EXTENDS BoundingBox, Quadtree, Sequences

CONSTANTS
    Tiles,          (* zoom level, column and row of each tile             *)
    Malformed,      (* a line fscanf does not match                        *)
    TileFiles       (* the lists to start from                             *)

ASSUME TilesAssumption ==
    /\ \A t \in Tiles :
        /\ t.zoom \in 0..30 /\ map_width(t.zoom) \in Nat
        /\ t.x \in 0..(map_width(t.zoom) - 1) /\ t.y \in 0..(map_width(t.zoom) - 1)
    /\ Malformed \notin Tiles
    /\ \A list \in TileFiles : list \in Seq(Tiles \union {Malformed})

VARIABLES
    lines, reading,     (* of the list, not yet read                       *)
    bboxes,             (* tiles and boxes, not yet generated              *)
    z, qt               (* the loop in xy_to_quadtree                      *)

vars == <<lines, reading, bboxes, z, qt>>

Init ==
    /\ lines \in TileFiles /\ reading = TRUE
    /\ bboxes = <<>>
    /\ z = 0 /\ qt = {}

tile == Head(bboxes).tile

EndOfList == IF lines = <<>> THEN TRUE ELSE Head(lines) = Malformed

ReadTile ==
    /\ reading /\ ~EndOfList
    /\ bboxes' = Append(bboxes, [tile |-> Head(lines), box |-> BoxOf(Head(lines))])
    /\ lines' = Tail(lines)
    /\ UNCHANGED <<reading, z, qt>>

StopReadingEarly ==  \* mutant of StopReading
    /\ reading /\ (Len(lines) = 1 \/ EndOfList)
    /\ reading' = FALSE
    /\ UNCHANGED <<lines, bboxes, z, qt>>

StopReading ==
    /\ reading /\ EndOfList
    /\ reading' = FALSE
    /\ UNCHANGED <<lines, bboxes, z, qt>>

(* One pass through the loop. The sums are unions: NoCarry.                *)
AddBits ==
    /\ ~reading /\ bboxes # <<>> /\ z < tile.zoom
    /\ qt' = qt \union ColumnTerm(tile, z) \union RowTerm(tile, z)
    /\ z' = z + 1
    /\ UNCHANGED <<lines, reading, bboxes>>

(* The loop of run(); the key is a local variable.                         *)
NextTile ==
    /\ ~reading /\ bboxes # <<>> /\ z = tile.zoom
    /\ bboxes' = Tail(bboxes)
    /\ z' = 0 /\ qt' = {}
    /\ UNCHANGED <<lines, reading>>

Next == ReadTile \/ StopReading \/ AddBits \/ NextTile

(* Sequential, and nothing waits.                                          *)
Spec == Init /\ [][Next]_vars /\ WF_vars(Next)

-----------------------------------------------------------------------------
Entries == [tile : Tiles, box : [{"west", "north", "east", "south"} -> Int]]

TypeOK ==
    /\ lines \in Seq(Tiles \union {Malformed}) /\ reading \in BOOLEAN
    /\ bboxes \in Seq(Entries)
    /\ z \in Nat /\ qt \subseteq 0..63
    /\ bboxes = <<>> => z = 0
    /\ bboxes # <<>> => z <= tile.zoom

(* No object that lies in a tile escapes its query: the box covers the     *)
(* tile, also where the tile touches the edge of the world.                *)
CoversTile == \A i \in DOMAIN bboxes : Covers(bboxes[i].box, bboxes[i].tile)

(* The envelope never leaves the range of the projection and never         *)
(* collapses.                                                              *)
InsideTheWorld == \A i \in DOMAIN bboxes : IsEnvelope(bboxes[i].box, bboxes[i].tile.zoom)

(* No two terms have a 1 in the same place, so none of the additions in    *)
(* the loop carries, not even into the sign: that a key is the union of    *)
(* its terms leaves nothing out. TileListProofs shows it for every tile.   *)
NoCarry ==
    bboxes # <<>> /\ z < tile.zoom =>
        /\ qt \intersect ColumnTerm(tile, z) = {}
        /\ qt \intersect RowTerm(tile, z) = {}
        /\ ColumnTerm(tile, z) \intersect RowTerm(tile, z) = {}

(* Up to zoom level 16 the key gives back every bit of column and row: no  *)
(* two tiles of one zoom level have the same key.                          *)
KeyTellsTile ==
    bboxes # <<>> /\ z = tile.zoom /\ z <= 16 =>
        \A b \in 0..(z - 1) :
            /\ 2 * b \in qt <=> HasBit(tile.x, b)
            /\ 2 * b + 1 \in qt <=> HasBit(tile.y, b)

(* Every tile of the list up to the first line that is none gets its turn: *)
(* the run ends with no box left and no line left that could be read.      *)
EveryTileComes == <>(~reading /\ bboxes = <<>> /\ EndOfList)
=============================================================================
