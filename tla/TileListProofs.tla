--------------------------- MODULE TileListProofs ---------------------------
(***************************************************************************)
(* Theorems about the boxes and the keys of the tiles of any list, at      *)
(* every zoom level.                                                       *)
(***************************************************************************)
EXTENDS TileList, SequenceTheorems, TLAPS

(* Every box is the one of its tile.                                       *)
BoxInv == \A i \in DOMAIN bboxes : bboxes[i].box = BoxOf(bboxes[i].tile)

(* After z passes the key has the terms of the bits below z.               *)
KeySoFar ==
    IF bboxes = <<>> THEN qt = {}
    ELSE \A b \in 0..63 :
            b \in qt <=> \E i \in 0..(z - 1) : b \in ColumnTerm(tile, i) \union RowTerm(tile, i)

-----------------------------------------------------------------------------
(* The numbers of a tile; no exponent is needed besides.                   *)
LEMMA TileNumbers ==
    ASSUME NEW t \in Tiles
    PROVE  /\ t.zoom \in 0..30 /\ map_width(t.zoom) \in Nat \ {0}
           /\ t.x \in 0..(map_width(t.zoom) - 1) /\ t.y \in 0..(map_width(t.zoom) - 1)
BY TilesAssumption

LEMMA ZoomNat ==
    ASSUME NEW t \in Tiles
    PROVE  t.zoom \in Nat
BY TileNumbers

LEMMA EntryTile ==
    ASSUME NEW e \in Entries
    PROVE  e.tile \in Tiles
BY DEF Entries

LEMMA BoxTyped ==
    ASSUME NEW t \in Tiles
    PROVE  BoxOf(t) \in [{"west", "north", "east", "south"} -> Int]
<1> DEFINE w == map_width(t.zoom)
<1>1. w \in Nat \ {0} /\ t.x \in Int /\ t.y \in Int
    BY TileNumbers
<1> HIDE DEF w
<1>2. Edge(t.zoom) = 5 * w
    BY DEF Edge, w
<1> QED
    BY <1>1, <1>2 DEF BoxOf, UpToWest, UpToEast, tile_x_to_merc, tile_y_to_merc,
                      tile_width_merc, buffer

LEMMA BoxOfTile ==
    ASSUME NEW t \in Tiles
    PROVE  Covers(BoxOf(t), t) /\ IsEnvelope(BoxOf(t), t.zoom)
<1> DEFINE w == map_width(t.zoom)
<1>1. w \in Nat \ {0} /\ t.x \in 0..(w - 1) /\ t.y \in 0..(w - 1)
    BY TileNumbers
<1> HIDE DEF w
<1>2. Edge(t.zoom) = 5 * w
    BY DEF Edge, w
<1>3. /\ tile_x_to_merc(t) = 10 * t.x - 5 * w
      /\ tile_y_to_merc(t) = 5 * w - 10 * t.y
    BY <1>2 DEF tile_x_to_merc, tile_y_to_merc, tile_width_merc
<1>4. /\ 0 <= 10 * t.x /\ 10 * t.x + 10 <= 10 * w
      /\ 0 <= 10 * t.y /\ 10 * t.y + 10 <= 10 * w
    BY <1>1
<1> QED
    BY <1>1, <1>2, <1>3, <1>4
       DEF BoxOf, Covers, IsEnvelope, UpToWest, UpToEast, tile_width_merc, buffer

(* Where the terms of a bit have their 1s: none of them twice.             *)
LEMMA TermPlaces ==
    ASSUME NEW t, NEW i \in Nat, NEW b, b \in ColumnTerm(t, i) \union RowTerm(t, i)
    PROVE  /\ b \in 0..63 /\ i <= 15
           /\ b \in ColumnTerm(t, i) => b = 2 * i
           /\ b \in RowTerm(t, i) => b = 2 * i + 1 \/ (i = 15 /\ b >= 31)
BY DEF ColumnTerm, RowTerm, Widened

LEMMA AppendHead ==
    ASSUME NEW S, NEW s \in Seq(S), NEW e \in S
    PROVE  /\ Append(s, e) \in Seq(S) /\ Append(s, e) # <<>>
           /\ Head(Append(s, e)) = IF s = <<>> THEN e ELSE Head(s)
<1>1. CASE s = <<>>
    BY <1>1
<1>2. CASE s # <<>>
    BY <1>2
<1> QED
    BY <1>1, <1>2

-----------------------------------------------------------------------------
(* The types, with a zoom level that is reached and never passed.          *)
THEOREM TypeCorrect == Spec => []TypeOK
<1>1. Init => TypeOK
    BY TilesAssumption DEF Init, TypeOK
<1>2. TypeOK /\ [Next]_vars => TypeOK'
    <2> SUFFICES ASSUME TypeOK, [Next]_vars PROVE TypeOK'
        OBVIOUS
    <2>0. /\ lines \in Seq(Tiles \union {Malformed}) /\ reading \in BOOLEAN
          /\ bboxes \in Seq(Entries) /\ z \in Nat /\ qt \subseteq 0..63
          /\ bboxes = <<>> => z = 0
          /\ bboxes # <<>> => z <= tile.zoom
        BY DEF TypeOK
    <2>1. CASE ReadTile
        <3> DEFINE t == Head(lines)
                   entry == [tile |-> t, box |-> BoxOf(t)]
        <3>1. lines # <<>> /\ t # Malformed
            BY <2>1 DEF ReadTile, EndOfList
        <3>2. t \in Tiles /\ Tail(lines) \in Seq(Tiles \union {Malformed})
            BY <2>0, <3>1, HeadTailProperties
        <3>3. entry \in Entries
            BY <3>2, BoxTyped DEF Entries
        <3>4. bboxes' = Append(bboxes, entry) /\ z' = z
            BY <2>1 DEF ReadTile
        <3> HIDE DEF entry
        <3>5. /\ bboxes' \in Seq(Entries) /\ bboxes' # <<>>
              /\ Head(bboxes') = IF bboxes = <<>> THEN entry ELSE Head(bboxes)
            BY <2>0, <3>3, <3>4, AppendHead
        <3>6. z' <= tile'.zoom
            <4>1. CASE bboxes = <<>>
                <5>1. tile' = t
                    BY <3>5, <4>1 DEF tile, entry
                <5>2. t.zoom \in Nat /\ z = 0
                    BY <2>0, <3>2, <4>1, ZoomNat
                <5> QED
                    BY <3>4, <5>1, <5>2
            <4>2. CASE bboxes # <<>>
                <5>1. tile' = tile
                    BY <3>5, <4>2 DEF tile
                <5> QED
                    BY <2>0, <3>4, <4>2, <5>1
            <4> QED
                BY <4>1, <4>2
        <3> QED
            BY <2>0, <2>1, <3>2, <3>4, <3>5, <3>6 DEF ReadTile, TypeOK
    <2>2. CASE StopReading
        BY <2>0, <2>2 DEF StopReading, tile, TypeOK
    <2>3. CASE AddBits
        <3>0. bboxes # <<>> /\ bboxes' = bboxes /\ Head(bboxes) \in Entries
            BY <2>0, <2>3, HeadTailProperties DEF AddBits
        <3>1. tile \in Tiles /\ tile' = tile /\ bboxes # <<>>
            BY <3>0, EntryTile DEF tile
        <3>2. qt' \subseteq 0..63
            BY <2>0, <2>3 DEF AddBits, ColumnTerm, RowTerm, Widened
        <3>3. z' \in Nat /\ z' <= tile'.zoom
            <4>1. tile.zoom \in Nat /\ z < tile.zoom /\ z' = z + 1
                BY <2>3, <3>1, ZoomNat DEF AddBits
            <4> QED
                BY <2>0, <3>1, <4>1
        <3> QED
            BY <2>0, <2>3, <3>1, <3>2, <3>3 DEF AddBits, TypeOK
    <2>4. CASE NextTile
        <3>1. bboxes' \in Seq(Entries) /\ z' = 0
            BY <2>0, <2>4, HeadTailProperties DEF NextTile
        <3>2. ASSUME bboxes' # <<>> PROVE z' <= tile'.zoom
            <4>1. tile' \in Tiles
                BY <3>1, <3>2, HeadTailProperties, EntryTile DEF tile
            <4>2. tile'.zoom \in Nat
                BY <4>1, ZoomNat
            <4> QED
                BY <3>1, <4>2
        <3> QED
            BY <2>0, <2>4, <3>1, <3>2 DEF NextTile, TypeOK
    <2>5. CASE UNCHANGED vars
        BY <2>0, <2>5 DEF vars, tile, TypeOK
    <2> QED
        BY <2>1, <2>2, <2>3, <2>4, <2>5 DEF Next
<1> QED
    BY <1>1, <1>2, PTL DEF Spec

(* A box stays with its tile from the list to the queries.                 *)
LEMMA BoxInvHolds == Spec => []BoxInv
<1>1. Init => BoxInv
    BY DEF Init, BoxInv
<1>2. TypeOK /\ BoxInv /\ [Next]_vars => BoxInv'
    <2> SUFFICES ASSUME TypeOK, BoxInv, [Next]_vars PROVE BoxInv'
        OBVIOUS
    <2>0. bboxes \in Seq(Entries)
        BY DEF TypeOK
    <2>1. CASE ReadTile
        <3> DEFINE entry == [tile |-> Head(lines), box |-> BoxOf(Head(lines))]
        <3>1. bboxes' = Append(bboxes, entry)
            BY <2>1 DEF ReadTile
        <3>2. ASSUME NEW i \in DOMAIN bboxes'
              PROVE  bboxes'[i].box = BoxOf(bboxes'[i].tile)
            <4>1. CASE i \in DOMAIN bboxes
                BY <2>0, <3>1, <4>1 DEF BoxInv
            <4>2. CASE i \notin DOMAIN bboxes
                <5>1. bboxes'[i] = entry
                    BY <2>0, <3>1, <4>2
                <5> QED
                    BY <5>1
            <4> QED
                BY <4>1, <4>2
        <3> QED
            BY <3>2 DEF BoxInv
    <2>2. CASE NextTile
        <3>1. bboxes # <<>> /\ bboxes' = Tail(bboxes)
            BY <2>2 DEF NextTile
        <3>2. ASSUME NEW i \in DOMAIN bboxes'
              PROVE  i + 1 \in DOMAIN bboxes /\ bboxes'[i] = bboxes[i + 1]
            BY <2>0, <3>1
        <3> QED
            BY <3>2 DEF BoxInv
    <2>3. CASE UNCHANGED bboxes
        BY <2>3 DEF BoxInv
    <2> QED
        BY <2>1, <2>2, <2>3 DEF Next, StopReading, AddBits, vars
<1> QED
    BY <1>1, <1>2, TypeCorrect, PTL DEF Spec

(* The loop keeps KeySoFar, and a new tile starts with an empty key.       *)
LEMMA KeySoFarHolds == Spec => [](TypeOK /\ KeySoFar)
<1>1. Init => KeySoFar
    BY DEF Init, KeySoFar
<1>2. TypeOK /\ KeySoFar /\ [Next]_vars => KeySoFar'
    <2> SUFFICES ASSUME TypeOK, KeySoFar, [Next]_vars PROVE KeySoFar'
        OBVIOUS
    <2>0. /\ bboxes \in Seq(Entries) /\ z \in Nat /\ qt \subseteq 0..63
          /\ bboxes = <<>> => z = 0
        BY DEF TypeOK
    <2>1. CASE ReadTile
        <3> DEFINE entry == [tile |-> Head(lines), box |-> BoxOf(Head(lines))]
        <3>1. bboxes' = Append(bboxes, entry) /\ z' = z /\ qt' = qt /\ bboxes' # <<>>
            BY <2>0, <2>1 DEF ReadTile
        <3>2. CASE bboxes = <<>>
            <4>1. z' = 0 /\ qt' = {}
                BY <2>0, <3>1, <3>2 DEF KeySoFar
            <4> QED
                BY <3>1, <4>1 DEF KeySoFar
        <3>3. CASE bboxes # <<>>
            <4>1. Head(bboxes') = Head(bboxes)
                BY <2>0, <3>1, <3>3
            <4>2. tile' = tile
                BY <4>1 DEF tile
            <4> QED
                BY <3>1, <3>3, <4>2 DEF KeySoFar, ColumnTerm, RowTerm
        <3> QED
            BY <3>2, <3>3
    <2>2. CASE AddBits
        <3>1. bboxes # <<>> /\ bboxes' = bboxes /\ tile' = tile /\ z' = z + 1
            BY <2>2 DEF AddBits, tile
        <3> DEFINE Has(b, i) == b \in ColumnTerm(tile, i) \union RowTerm(tile, i)
        <3>2. ASSUME NEW b \in 0..63
              PROVE  b \in qt' <=> \E i \in 0..z : Has(b, i)
            <4>1. b \in qt' <=> b \in qt \/ Has(b, z)
                BY <2>2 DEF AddBits
            <4>2. b \in qt <=> \E i \in 0..(z - 1) : Has(b, i)
                BY <3>1 DEF KeySoFar
            <4> HIDE DEF Has
            <4>3. 0..z = (0..(z - 1)) \union {z}
                BY <2>0
            <4> QED
                BY <4>1, <4>2, <4>3
        <3>3. z' - 1 = z
            BY <2>0, <3>1
        <3> QED
            BY <3>1, <3>2, <3>3 DEF KeySoFar, ColumnTerm, RowTerm
    <2>3. CASE NextTile
        BY <2>3 DEF NextTile, KeySoFar
    <2>4. CASE UNCHANGED <<bboxes, z, qt>>
        <3>1. tile' = tile
            BY <2>4 DEF tile
        <3> QED
            BY <2>4, <3>1 DEF KeySoFar, ColumnTerm, RowTerm
    <2> QED
        BY <2>1, <2>2, <2>3, <2>4 DEF Next, StopReading, vars
<1> QED
    BY <1>1, <1>2, TypeCorrect, PTL DEF Spec

-----------------------------------------------------------------------------
(* Every object that lies in a tile lies in the box its queries use.       *)
THEOREM BoxCoversTile == Spec => []CoversTile
<1>1. TypeOK /\ BoxInv => CoversTile
    <2> SUFFICES ASSUME TypeOK, BoxInv, NEW i \in DOMAIN bboxes
                 PROVE  Covers(bboxes[i].box, bboxes[i].tile)
        BY DEF CoversTile
    <2>1. bboxes[i].tile \in Tiles /\ bboxes[i].box = BoxOf(bboxes[i].tile)
        BY ElementOfSeq, EntryTile DEF TypeOK, BoxInv
    <2> QED
        BY <2>1, BoxOfTile
<1> QED
    BY <1>1, TypeCorrect, BoxInvHolds, PTL

(* The box is never collapsed and never beyond the edge of the world.      *)
THEOREM BoxInsideTheWorld == Spec => []InsideTheWorld
<1>1. TypeOK /\ BoxInv => InsideTheWorld
    <2> SUFFICES ASSUME TypeOK, BoxInv, NEW i \in DOMAIN bboxes
                 PROVE  IsEnvelope(bboxes[i].box, bboxes[i].tile.zoom)
        BY DEF InsideTheWorld
    <2>1. bboxes[i].tile \in Tiles /\ bboxes[i].box = BoxOf(bboxes[i].tile)
        BY ElementOfSeq, EntryTile DEF TypeOK, BoxInv
    <2> QED
        BY <2>1, BoxOfTile
<1> QED
    BY <1>1, TypeCorrect, BoxInvHolds, PTL

(* No addition of the loop carries: reading the sum as a union is right    *)
(* for every tile.                                                         *)
THEOREM AdditionsNeverCarry == Spec => []NoCarry
<1>1. TypeOK /\ KeySoFar => NoCarry
    <2> SUFFICES ASSUME TypeOK, KeySoFar, bboxes # <<>>, z < tile.zoom PROVE NoCarry
        BY DEF NoCarry
    <2>1. z \in Nat
        BY DEF TypeOK
    <2>2. ASSUME NEW b, b \in qt, b \in ColumnTerm(tile, z) \union RowTerm(tile, z)
          PROVE  FALSE
        <3>1. PICK i \in 0..(z - 1) : b \in ColumnTerm(tile, i) \union RowTerm(tile, i)
            BY <2>2 DEF KeySoFar, TypeOK
        <3>2. z <= 15 /\ (b = 2 * z \/ b = 2 * z + 1 \/ (z = 15 /\ b >= 31)) /\ b \in 0..63
            BY <2>1, <2>2, TermPlaces
        <3>3. i < 15 /\ (b = 2 * i \/ b = 2 * i + 1)
            BY <2>1, <3>1, <3>2, TermPlaces
        <3> QED
            BY <2>1, <3>1, <3>2, <3>3
    <2>3. ASSUME NEW b, b \in ColumnTerm(tile, z), b \in RowTerm(tile, z)
          PROVE  FALSE
        BY <2>1, <2>3, TermPlaces
    <2> QED
        BY <2>2, <2>3 DEF NoCarry
<1> QED
    BY <1>1, KeySoFarHolds, PTL

(* The key of a finished loop tells the tiles of one zoom level apart, up  *)
(* to zoom level 16.                                                       *)
THEOREM KeysTellTilesApart == Spec => []KeyTellsTile
<1>1. TypeOK /\ KeySoFar => KeyTellsTile
    <2> SUFFICES ASSUME TypeOK, KeySoFar, bboxes # <<>>, z = tile.zoom, z <= 16,
                        NEW b \in 0..(z - 1)
                 PROVE  /\ 2 * b \in qt <=> HasBit(tile.x, b)
                        /\ 2 * b + 1 \in qt <=> HasBit(tile.y, b)
        BY DEF KeyTellsTile
    <2>1. z \in Nat /\ b \in 0..15 /\ 2 * b \in 0..63 /\ 2 * b + 1 \in 0..63
        <3>1. z \in Nat /\ z <= 16 /\ b \in 0..(z - 1)
            BY DEF TypeOK
        <3>2. b \in Nat /\ b <= 15
            BY <3>1
        <3> QED
            BY <3>1, <3>2
    <2>0. \A c \in 0..63 :
            c \in qt <=> \E i \in 0..(z - 1) : c \in ColumnTerm(tile, i) \union RowTerm(tile, i)
        BY DEF KeySoFar
    <2>2. 2 * b \in qt <=> HasBit(tile.x, b)
        <3>1. CASE HasBit(tile.x, b)
            <4>1. 2 * b \in ColumnTerm(tile, b)
                BY <2>1, <3>1 DEF ColumnTerm, Widened
            <4> QED
                BY <2>0, <2>1, <3>1, <4>1
        <3>2. CASE 2 * b \in qt
            <4>1. PICK i \in 0..(z - 1) : 2 * b \in ColumnTerm(tile, i) \union RowTerm(tile, i)
                BY <2>0, <2>1, <3>2
            <4>2. i \in Nat /\ 2 * b < 31
                BY <2>1, <4>1
            <4>3. 2 * b \in ColumnTerm(tile, i) /\ 2 * b = 2 * i
                BY <4>1, <4>2, TermPlaces
            <4>4. i = b
                BY <2>1, <4>2, <4>3
            <4> QED
                BY <3>2, <4>3, <4>4 DEF ColumnTerm
        <3> QED
            BY <3>1, <3>2
    <2>3. 2 * b + 1 \in qt <=> HasBit(tile.y, b)
        <3>1. CASE HasBit(tile.y, b)
            <4>1. 2 * b + 1 \in RowTerm(tile, b)
                BY <2>1, <3>1 DEF RowTerm, Widened
            <4> QED
                BY <2>0, <2>1, <3>1, <4>1
        <3>2. CASE 2 * b + 1 \in qt
            <4>1. PICK i \in 0..(z - 1) : 2 * b + 1 \in ColumnTerm(tile, i) \union RowTerm(tile, i)
                BY <2>0, <2>1, <3>2
            <4>2. i \in Nat /\ 2 * b + 1 <= 31
                BY <2>1, <4>1
            <4>3. 2 * b + 1 # 2 * i
                BY <2>1, <4>2
            <4>4. 2 * b + 1 \in RowTerm(tile, i)
                BY <4>1, <4>2, <4>3, TermPlaces
            <4>5. 2 * b + 1 = 2 * i + 1 \/ (i = 15 /\ 2 * b + 1 >= 31)
                BY <4>2, <4>4, TermPlaces
            <4>6. i = b
                BY <2>1, <4>2, <4>5
            <4> QED
                BY <3>2, <4>4, <4>6 DEF RowTerm
        <3> QED
            BY <3>1, <3>2
    <2> QED
        BY <2>2, <2>3
<1> QED
    BY <1>1, KeySoFarHolds, PTL
=============================================================================
