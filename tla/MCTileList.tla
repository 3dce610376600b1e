----------------------------- MODULE MCTileList -----------------------------
(***************************************************************************)
(* Every tile of zoom levels 0 to 3; tiles whose indexes have 1s at both   *)
(* ends around the zoom levels at which an int is full; and short lists    *)
(* with a repeated tile and with a line that is no tile.                   *)
(***************************************************************************)
EXTENDS TileList, FiniteSetsExt

FromBits(bits) == MapThenSumSet(LAMBDA b : 2^b, bits)

Corners(zoom) == {FromBits(bits) : bits \in SUBSET {b \in {0, 1, 14, 15, 16} : b < zoom}}

AllOf(zoom) == [zoom : {zoom}, x : 0..(2^zoom - 1), y : 0..(2^zoom - 1)]

MCTiles == UNION {AllOf(zoom) : zoom \in 0..3}
            \union UNION {[zoom : {l}, x : Corners(l), y : Corners(l)] : l \in {15, 16, 17}}

Listed == [zoom : {1, 2}, x : {1}, y : {0, 1}] \union {Malformed}

MCTileFiles ==
    {<<t>> : t \in MCTiles} \union {<<s, t>> : s, t \in Listed}
        \union {<<r, s, t>> : r, s, t \in Listed}
=============================================================================
