------------------------------ MODULE OSMData ------------------------------
(***************************************************************************)
(* The OpenStreetMap objects, the content of the databases the generator   *)
(* reads and the program options that decide what a vector tile holds.     *)
(* Both data sources (the Cerepso and the osm2pgsql layout) and the        *)
(* abstract promise TileContents are written over these definitions.       *)
(***************************************************************************)
EXTENDS Naturals, Sequences, SequencesExt

CONSTANTS
    NodeIds, WayIds, RelationIds,   (* object ids, all positive            *)
    Tiles,                          (* the tiles one run may be asked for  *)
    TileLists,                      (* lists of tiles to start from        *)
    OldFiles,                       (* sets of tiles with a file already   *)
    Databases,                      (* database contents to start from     *)
    Configs                         (* program options to start from       *)

(* osmium::item_type; the numbers give the order of the output file.       *)
node == 1
way == 2
relation == 3

Object == ({node} \X NodeIds) \union ({way} \X WayIds)
            \union ({relation} \X RelationIds)

(* The ids of the objects of one type in a set of objects.                 *)
IdsOf(type, objects) == {o[2] : o \in {p \in objects : p[1] = type}}

(* osmium::object_order_type_id_reverse_version. A table holds one version *)
(* of an object, so the version never decides.                             *)
Precedes(a, b) == a[1] < b[1] \/ (a[1] = b[1] /\ a[2] < b[2])

(***************************************************************************)
(* One database. refs and members are only meaningful for the objects in   *)
(* ways and relations; both may name objects the database does not hold    *)
(* (an extract of the planet always does). inside[t] is what a spatial     *)
(* query with the bounding box of tile t intersects. nullNodes are ways    *)
(* whose array of node ids is NULL.                                        *)
(***************************************************************************)
Database ==
    [ points    : SUBSET NodeIds,       \* planet_osm_point
      untagged  : SUBSET NodeIds,       \* untagged_nodes or the flatnodes file
      ways      : SUBSET WayIds,        \* planet_osm_line / planet_osm_ways
      polygons  : SUBSET WayIds,        \* ways in planet_osm_polygon
      nullNodes : SUBSET WayIds,
      relations : SUBSET RelationIds,   \* relations / planet_osm_rels
      refs      : [WayIds -> SUBSET NodeIds],
      members   : [RelationIds -> SUBSET Object],
      inside    : [Tiles -> SUBSET Object] ]

(* The members of VectortileGeneratorConfig that change what is written.   *)
Config ==
    [ recurse_nodes : BOOLEAN, recurse_ways : BOOLEAN,
      recurse_relations : BOOLEAN, orphaned_nodes : BOOLEAN,
      flatnodes : BOOLEAN, force : BOOLEAN ]

ASSUME IdsAssumption ==
    /\ NodeIds \subseteq Nat \ {0}
    /\ WayIds \subseteq Nat \ {0}
    /\ RelationIds \subseteq Nat \ {0}

ASSUME InputsAssumption ==
    /\ Tiles # {}
    /\ \A list \in TileLists : list \in Seq(Tiles)
    /\ \A old \in OldFiles : old \subseteq Tiles
    /\ \A d \in Databases : d \in Database
    /\ Configs \subseteq Config

(* Nodes whose location the database knows.                                *)
Located(db) == db.points \union db.untagged

Stored(db) ==
    ({node} \X Located(db)) \union ({way} \X db.ways)
        \union ({relation} \X db.relations)

(***************************************************************************)
(* What a tile owes its reader.                                            *)
(***************************************************************************)

(* Every node a way of the tile is built from is in the tile.              *)
WaysComplete(db, objects) ==
    \A w \in IdsOf(way, objects) :
        \A n \in db.refs[w] \intersect Located(db) : <<node, n>> \in objects

(* Members of the relations of the tile, as far as the options ask for     *)
(* them; a member relation is owed to the relations inside the tile.       *)
MembersComplete(db, config, t, objects) ==
    \A r \in IdsOf(relation, objects) :
        \A m \in db.members[r] \intersect Stored(db) :
            \/ m \in objects
            \/ m[1] = node /\ ~config.recurse_nodes
            \/ m[1] = way /\ ~config.recurse_ways
            \/ m[1] = relation
                /\ (config.recurse_relations => <<relation, r>> \notin db.inside[t])

(* Nothing is in the tile without a reason: it is stored, and it is inside *)
(* or an object of the tile refers to it and the options follow that.      *)
Justified(db, config, t, objects) ==
    \A o \in objects :
        /\ o \in Stored(db)
        /\ \/ o \in db.inside[t]
           \/ o[1] = node /\ \E w \in IdsOf(way, objects) : o[2] \in db.refs[w]
           \/ /\ \E r \in IdsOf(relation, objects) : o \in db.members[r]
              /\ \/ o[1] = node /\ config.recurse_nodes
                 \/ o[1] = way /\ config.recurse_ways
                 \/ o[1] = relation /\ config.recurse_relations

(* The spatial queries return tagged nodes, ways and relations.            *)
Inside(db, t) ==
    {o \in db.inside[t] \intersect Stored(db) : o[1] = node => o[2] \in db.points}

Acceptable(db, config, t, objects) ==
    /\ Inside(db, t) \subseteq objects
    /\ WaysComplete(db, objects)
    /\ MembersComplete(db, config, t, objects)
    /\ Justified(db, config, t, objects)
=============================================================================
