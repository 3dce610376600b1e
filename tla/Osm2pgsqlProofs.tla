-------------------------- MODULE Osm2pgsqlProofs --------------------------
(***************************************************************************)
(* The theorems about a run over an osm2pgsql database: what its batches   *)
(* and its two tables of geometries leave to be read, and with it the      *)
(* invariant TileInv of the tile builder.                                  *)
(***************************************************************************)
EXTENDS Osm2pgsqlDataAccess, OSMVectorTileImplProofs, FiniteSetTheorems

WaysInside == IdsOf(way, Inside(db, tile))
RelationsInside == IdsOf(relation, Inside(db, tile))

(* What the calls leave behind them.                                       *)
TablesLeft ==
    /\ call \in Spatial /\ ~fetched => ids = {} /\ rows = {}
    /\ call \in ProgramPoints \ (Spatial \union {"terminated"}) => ids = {}
    /\ call \in ProgramPoints \ {"get_ways_inside", "terminated"} => table = "line"
    /\ table \in {"line", "polygon"}

(* An id is on its way to the callback.                                    *)
Awaited(id) == id \in rows \/ \E p \in ids : p[1] = id

(* The calls for what is inside, on their way.                             *)
SpatialReading ==
    /\ call = "get_ways_inside" =>
        /\ \A id \in WayIds : Awaited(id) => id \in WaysInside
        /\ fetched \/ table = "polygon" =>
            \A w \in WaysInside \ db.polygons :
                Got(<<way, w>>) \/ (table = "line" /\ Awaited(w))
        /\ fetched /\ table = "polygon" =>
            \A w \in WaysInside \intersect db.polygons : Got(<<way, w>>) \/ Awaited(w)
    /\ call = "get_relations_inside" =>
        /\ \A id \in RelationIds : Awaited(id) => id \in RelationsInside
        /\ fetched => \A r \in RelationsInside : Got(<<relation, r>>) \/ Awaited(r)

(* The calls for missing objects, on their way: up to the iterator all is  *)
(* collected or in the rows of the batch; after the last batch the         *)
(* iterator is past all that was owed when it was sent.                    *)
MissingReading ==
    /\ call = "get_missing_relations" =>
        /\ rows \subseteq m_missing_relations \intersect db.relations
        /\ config.recurse_relations =>
            \A m \in Owed :
                /\ m <= cursor => Got(<<relation, m>>) \/ m \in rows
                /\ fetched => m <= cursor
    /\ call = "get_missing_ways" =>
        /\ rows \subseteq m_missing_ways \intersect db.ways
        /\ \A w \in m_missing_ways \intersect db.ways :
            /\ w <= cursor => Got(<<way, w>>) \/ w \in rows
            /\ fetched => w <= cursor

(* A way without an array of nodes is never collected.                     *)
WaysHaveArrays == \A w \in db.nullNodes : ~Got(<<way, w>>)

Osm2pgsqlInv ==
    /\ TileInv /\ TablesLeft /\ SpatialReading /\ MissingReading
    /\ WaysHaveArrays /\ NoWayWithoutNodes

-----------------------------------------------------------------------------
(* Files that are not touched keep the ways they have.                     *)
LEMMA WaysOfFilesAlone ==
    ASSUME UNCHANGED <<db, file_state, file_content>>
    PROVE  NoWayWithoutNodes => NoWayWithoutNodes'
  BY DEF NoWayWithoutNodes, IsWritten, Content

(* What is inside depends on the database and the tile.                    *)
LEMMA InsideAlone ==
    ASSUME UNCHANGED <<db, tile>>
    PROVE  WaysInside' = WaysInside /\ RelationsInside' = RelationsInside /\ Owed' = Owed
  BY DEF WaysInside, RelationsInside, Owed, Inside, Stored, Located

(* Outside of the calls for ways and relations nothing is on its way.      *)
LEMMA NothingOnTheWay ==
    ASSUME call' \notin {"get_ways_inside", "get_relations_inside",
                         "get_missing_relations", "get_missing_ways"}
    PROVE  SpatialReading' /\ MissingReading'
  BY DEF SpatialReading, MissingReading

(* The steps of other calls than those for ways and relations.             *)
LEMMA OtherSteps ==
    ASSUME Osm2pgsqlInv, UNCHANGED <<table, ids>>,
           \/ NextTile \/ GetNodesInside \/ NodeRow \/ GetMissingNode \/ NotInFlatnodes
           \/ WriteFile \/ UNCHANGED vars
    PROVE  Osm2pgsqlInv'
  <1>1. TileInv' /\ call' \in ProgramPoints
    BY SharedStep DEF Osm2pgsqlInv, TileInv, TypeInv, TypeOK
  <1>2. CASE NextTile
    <2>1. /\ call = "next_tile" /\ call' = "get_nodes_inside" /\ m_buffer' = <<>>
          /\ UNCHANGED <<db, file_state, file_content>>
      BY <1>2 DEF NextTile, clear, input, output
    <2>2. WaysHaveArrays'
      BY <2>1 DEF WaysHaveArrays, Got
    <2>3. TablesLeft'
      BY <2>1 DEF Osm2pgsqlInv, TablesLeft, Spatial, ProgramPoints, Calls
    <2> QED
      BY <1>1, <2>1, <2>2, <2>3, NothingOnTheWay, WaysOfFilesAlone DEF Osm2pgsqlInv
  <1>3. CASE GetNodesInside \/ NodeRow \/ GetMissingNode
    <2>1. /\ UNCHANGED <<db, call, file_state, file_content>>
          /\ call \in {"get_nodes_inside", "get_missing_nodes"}
      BY <1>3 DEF GetNodesInside, Select, NodeRow, Row, GetMissingNode, Round, input, output
    <2>2. WaysHaveArrays'
      BY <1>3, <2>1, NodesOnly DEF Osm2pgsqlInv, WaysHaveArrays
    <2>3. TablesLeft'
      BY <2>1 DEF Osm2pgsqlInv, TablesLeft, Spatial
    <2> QED
      BY <1>1, <2>1, <2>2, <2>3, NothingOnTheWay, WaysOfFilesAlone DEF Osm2pgsqlInv
  <1>4. CASE NotInFlatnodes \/ FileExists
    <2>1. call' = "terminated" /\ UNCHANGED <<db, m_buffer, file_state, file_content>>
      BY <1>4 DEF NotInFlatnodes, FileExists, Terminate, input, collected, output
    <2>2. WaysHaveArrays'
      BY <2>1 DEF Osm2pgsqlInv, WaysHaveArrays, Got
    <2>3. TablesLeft'
      BY <2>1 DEF Osm2pgsqlInv, TablesLeft, Spatial
    <2> QED
      BY <1>1, <2>1, <2>2, <2>3, NothingOnTheWay, WaysOfFilesAlone DEF Osm2pgsqlInv
  <1>5. CASE OpenFile \/ WriteObject
    <2>1. /\ UNCHANGED <<db, m_buffer>>
          /\ call \in PastMissingNodes /\ call' = "sort_buffer_and_write_it"
          /\ \A t \in Tiles : IsWritten(t)' => IsWritten(t) /\ file_content'[t] = file_content[t]
      <3>1. CASE OpenFile
        BY <3>1 DEF Osm2pgsqlInv, TileInv, TypeInv, TypeOK, OpenFile, IsWritten,
              PastMissingNodes, input, tiles, collected
      <3>2. CASE WriteObject
        BY <3>2 DEF Osm2pgsqlInv, TileInv, TypeInv, TypeOK, FileIsBuffer, WriteObject,
              IsWritten, PastMissingNodes, input, tiles, collected
      <3> QED
        BY <1>5, <3>1, <3>2
    <2>2. WaysHaveArrays'
      BY <2>1 DEF Osm2pgsqlInv, WaysHaveArrays, Got
    <2>3. TablesLeft'
      BY <1>1, <2>1 DEF Osm2pgsqlInv, TablesLeft, Spatial, ProgramPoints, Calls, PastMissingNodes
    <2>4. NoWayWithoutNodes'
      BY <2>1 DEF Osm2pgsqlInv, NoWayWithoutNodes, Content
    <2> QED
      BY <1>1, <2>1, <2>2, <2>3, <2>4, NothingOnTheWay DEF Osm2pgsqlInv
  <1>6. CASE CloseFile
    <2>1. /\ UNCHANGED <<db, m_buffer, file_content>> /\ objects = {}
          /\ call = "sort_buffer_and_write_it" /\ call' = "next_tile"
          /\ \A t \in Tiles : IsWritten(t)' => IsWritten(t) \/ t = tile
      BY <1>6 DEF Osm2pgsqlInv, TileInv, TypeInv, TypeOK, CloseFile, IsWritten, input, collected
    <2>2. WaysHaveArrays'
      BY <2>1 DEF Osm2pgsqlInv, WaysHaveArrays, Got
    <2>3. TablesLeft'
      BY <1>1, <2>1 DEF Osm2pgsqlInv, TablesLeft, Spatial, ProgramPoints
    <2>4. \A o : o \in Content(tile) <=> Got(o)
      BY <2>1 DEF Osm2pgsqlInv, TileInv, FileIsBuffer, Got
    <2>5. Content(tile) \subseteq Object
      BY DEF Osm2pgsqlInv, TileInv, TypeInv, TypeOK, Content, ToSet
    <2>6. IdsOf(way, Content(tile)) \intersect db.nullNodes = {}
      BY <2>4, <2>5, IdsOfObjects DEF Osm2pgsqlInv, WaysHaveArrays
    <2>7. NoWayWithoutNodes'
      BY <2>1, <2>6 DEF Osm2pgsqlInv, NoWayWithoutNodes, Content
    <2> QED
      BY <1>1, <2>1, <2>2, <2>3, <2>7, NothingOnTheWay DEF Osm2pgsqlInv
  <1>7. CASE UNCHANGED vars
    <2>1. UNCHANGED <<db, config, tile, call, fetched, rows, cursor, m_buffer, m_missing_ways,
                      m_missing_relations, file_state, file_content>>
      BY <1>7 DEF vars, input, tiles, reading, collected, missing, output
    <2>2. /\ \A p : Got(p)' <=> Got(p)
          /\ \A id : Awaited(id)' <=> Awaited(id)
      BY <2>1 DEF Got, Awaited
    <2>3. SpatialReading' /\ MissingReading'
      BY <2>1, <2>2, InsideAlone DEF Osm2pgsqlInv, SpatialReading, MissingReading
    <2>4. WaysHaveArrays' /\ TablesLeft'
      BY <2>1, <2>2 DEF Osm2pgsqlInv, WaysHaveArrays, TablesLeft, Spatial
    <2> QED
      BY <1>1, <2>1, <2>3, <2>4, WaysOfFilesAlone DEF Osm2pgsqlInv
  <1> QED
    BY <1>2, <1>3, <1>4, <1>5, <1>6, <1>7 DEF WriteFile

-----------------------------------------------------------------------------
(***************************************************************************)
(* The calls for ways and relations inside the tile.                       *)
(***************************************************************************)

(* A step that sends a query: it leaves what is collected.                 *)
LEMMA QuerySent ==
    ASSUME Osm2pgsqlInv, UNCHANGED <<input, tiles, call, collected, output>>,
           TileInv', TablesLeft', SpatialReading', MissingReading'
    PROVE  Osm2pgsqlInv'
  <1>1. UNCHANGED <<db, m_buffer, file_state, file_content>>
    BY DEF input, collected, output
  <1>2. WaysHaveArrays'
    BY <1>1 DEF Osm2pgsqlInv, WaysHaveArrays, Got
  <1> QED
    BY <1>1, <1>2, WaysOfFilesAlone DEF Osm2pgsqlInv

(* The ids of one table are fetched.                                       *)
LEMMA IdsFetched ==
    ASSUME Osm2pgsqlInv, GetIdsInside
    PROVE  Osm2pgsqlInv'
  <1> DEFINE inside ==
            IF call = "get_relations_inside" THEN RelationsInside
            ELSE IF table = "line" THEN WaysInside \ db.polygons
                 ELSE WaysInside \intersect db.polygons
  <1>1. /\ call \in Spatial /\ ~fetched /\ fetched' = TRUE /\ rows' = rows
        /\ UNCHANGED <<input, tiles, call, cursor, collected, output, table>>
        /\ \A id : (\E p \in ids' : p[1] = id) <=> id \in inside
    <2>1. {p[1] : p \in ids'} = inside
      BY DEF GetIdsInside, WaysInside, RelationsInside
    <2> HIDE DEF inside
    <2> QED
      BY <2>1 DEF GetIdsInside
  <1>2. rows = {} /\ rows' = {}
    BY <1>1 DEF Osm2pgsqlInv, TablesLeft
  <1>3. \A id : Awaited(id)' <=> id \in inside
    BY <1>1, <1>2 DEF Awaited
  <1>4. /\ UNCHANGED <<db, tile, table, m_buffer>>
        /\ WaysInside' = WaysInside /\ RelationsInside' = RelationsInside
        /\ \A p : Got(p)' <=> Got(p)
    BY <1>1, InsideAlone DEF input, tiles, collected, Got
  <1>5. TileInv'
    <2>1. cursor' \in Nat /\ fetched' \in BOOLEAN
      BY <1>1 DEF Osm2pgsqlInv, TileInv, TypeInv, TypeOK
    <2> QED
      BY <1>1, <1>2, <2>1, CallGoesOn DEF Osm2pgsqlInv, Spatial, Calls
  <1>6. TablesLeft'
    BY <1>1 DEF Osm2pgsqlInv, TablesLeft, Spatial
  <1>7. SpatialReading'
    BY <1>1, <1>3, <1>4 DEF Osm2pgsqlInv, SpatialReading, TablesLeft
  <1>8. MissingReading'
    BY <1>1 DEF MissingReading, Spatial
  <1> QED
    BY <1>1, <1>5, <1>6, <1>7, <1>8, QuerySent

(* The objects of a batch of these ids are fetched.                        *)
LEMMA BatchSelected ==
    ASSUME Osm2pgsqlInv, SelectBatch
    PROVE  Osm2pgsqlInv'
  <1> DEFINE stored == IF call = "get_ways_inside" THEN db.ways ELSE db.relations
  <1>1. PICK batch \in SUBSET ids :
            /\ batch # {} /\ ids' = ids \ batch
            /\ rows' = {p[1] : p \in batch} \intersect stored
    BY DEF SelectBatch, IsBatch
  <1>2. /\ call \in Spatial /\ rows = {}
        /\ UNCHANGED <<input, tiles, call, fetched, cursor, collected, output, table>>
    BY DEF SelectBatch
  <1>3. fetched
    BY <1>1, <1>2 DEF Osm2pgsqlInv, TablesLeft
  <1>4. /\ \A id : Awaited(id)' => Awaited(id)
        /\ \A id \in stored : Awaited(id) => Awaited(id)'
    BY <1>1, <1>2 DEF Awaited
  <1>5. /\ UNCHANGED <<db, tile, table, m_buffer, fetched>>
        /\ WaysInside' = WaysInside /\ RelationsInside' = RelationsInside
        /\ \A p : Got(p)' <=> Got(p)
    BY <1>2, InsideAlone DEF input, tiles, collected, Got
  <1>6. /\ call = "get_ways_inside" => WaysInside \subseteq stored /\ stored \subseteq WayIds
        /\ call = "get_relations_inside"
            => RelationsInside \subseteq stored /\ stored \subseteq RelationIds
    <2>1. TypeOK /\ db \in Database
      BY DEF Osm2pgsqlInv, TileInv, TypeInv, TypeOK
    <2>2. WaysInside \subseteq db.ways /\ RelationsInside \subseteq db.relations
      BY <2>1, InsideObjects, IdsOfObjects, StoredObjects DEF WaysInside, RelationsInside
    <2> QED
      BY <2>1, <2>2 DEF Database
  <1>7. TileInv'
    <2>1. cursor' \in Nat /\ fetched' \in BOOLEAN
      BY <1>2 DEF Osm2pgsqlInv, TileInv, TypeInv, TypeOK
    <2>2. rows' \subseteq stored
      BY <1>1
    <2> HIDE DEF stored
    <2> QED
      BY <1>2, <1>6, <2>1, <2>2, CallGoesOn DEF Osm2pgsqlInv, Spatial, Calls
  <1> HIDE DEF stored
  <1>8. TablesLeft'
    BY <1>2, <1>3 DEF Osm2pgsqlInv, TablesLeft, Spatial
  <1>9. SpatialReading'
    BY <1>2, <1>4, <1>5, <1>6 DEF Osm2pgsqlInv, SpatialReading
  <1>10. MissingReading'
    BY <1>2 DEF MissingReading, Spatial
  <1> QED
    BY <1>2, <1>7, <1>8, <1>9, <1>10, QuerySent

(* The lines are done, the polygons follow.                                *)
LEMMA PolygonsNext ==
    ASSUME Osm2pgsqlInv, GetWayPolygons
    PROVE  Osm2pgsqlInv'
  <1>1. /\ call = "get_ways_inside" /\ table = "line" /\ table' = "polygon"
        /\ fetched /\ fetched' = FALSE /\ ids = {} /\ ids' = {} /\ rows = {} /\ rows' = {}
        /\ UNCHANGED <<input, tiles, call, cursor, collected, output>>
    BY DEF GetWayPolygons
  <1>2. /\ UNCHANGED <<db, tile, m_buffer>>
        /\ WaysInside' = WaysInside
        /\ \A p : Got(p)' <=> Got(p)
        /\ \A id : ~Awaited(id) /\ ~Awaited(id)'
    BY <1>1, InsideAlone DEF input, tiles, collected, Got, Awaited
  <1>3. TileInv'
    <2>1. cursor' \in Nat /\ fetched' \in BOOLEAN
      BY <1>1 DEF Osm2pgsqlInv, TileInv, TypeInv, TypeOK
    <2> QED
      BY <1>1, <2>1, CallGoesOn DEF Osm2pgsqlInv, Calls
  <1>4. TablesLeft'
    BY <1>1 DEF TablesLeft, Spatial
  <1>5. SpatialReading' /\ MissingReading'
    BY <1>1, <1>2 DEF Osm2pgsqlInv, SpatialReading, MissingReading
  <1> QED
    BY <1>1, <1>3, <1>4, <1>5, QuerySent

(* One way that has its array of nodes.                                    *)
LEMMA WayParsed ==
    ASSUME Osm2pgsqlInv, WayRow
    PROVE  Osm2pgsqlInv'
  <1>1. /\ call \in {"get_ways_inside", "get_missing_ways"}
        /\ UNCHANGED <<input, tiles, call, fetched, cursor, output, table, ids>>
        /\ UNCHANGED <<db, config, tile, file_state, file_content>>
    BY DEF WayRow, Row, input, tiles, output
  <1>2. PICK w \in rows : w \notin db.nullNodes /\ add_way(w) /\ rows' = rows \ {w}
    BY DEF WayRow, Row, FlushWay
  <1>3. /\ TypeOK /\ Collection /\ db \in Database /\ cursor' \in Nat
        /\ w \in WayIds
    BY <1>1, <1>2 DEF Osm2pgsqlInv, TileInv, TypeInv, TypeOK, RowsTyped
  <1>4. Welcome(<<way, w>>)
    <2>1. CASE call = "get_ways_inside"
      <3>1. w \in WaysInside
        BY <1>2, <1>3, <2>1 DEF Osm2pgsqlInv, SpatialReading, Awaited
      <3> QED
        BY <1>3, <3>1, InsideObjects, IdsOfObjects DEF WaysInside, Welcome
    <2>2. CASE call = "get_missing_ways"
      <3>1. w \in m_missing_ways /\ w \in db.ways
        BY <1>2, <2>2 DEF Osm2pgsqlInv, MissingReading
      <3> QED
        BY <1>3, <3>1, StoredObjects DEF Collection, MissingAsked, Welcome
    <2> QED
      BY <1>1, <2>1, <2>2
  <1>5. Added(<<way, w>>)
    BY <1>1, <1>2, <1>3, <1>4, AddWayAdds
  <1>6. TileInv'
    BY <1>1, <1>2, <1>3, <1>5, ObjectAdded DEF Osm2pgsqlInv, Calls
  <1>7. /\ \A p : Got(p)' <=> (Got(p) \/ p = <<way, w>>)
        /\ m_missing_ways' = m_missing_ways
    BY <1>5, TypesDiffer DEF Added
  <1>8. /\ \A id : Awaited(id)' => Awaited(id)
        /\ \A id : Awaited(id) => Awaited(id)' \/ id = w
    BY <1>1, <1>2 DEF Awaited
  <1>9. TablesLeft'
    BY <1>1, <1>2 DEF Osm2pgsqlInv, TablesLeft, Spatial
  <1>10. SpatialReading'
    BY <1>1, <1>7, <1>8, InsideAlone DEF Osm2pgsqlInv, SpatialReading
  <1>11. MissingReading'
    BY <1>1, <1>2, <1>7 DEF Osm2pgsqlInv, MissingReading
  <1>12. WaysHaveArrays'
    BY <1>1, <1>2, <1>7 DEF Osm2pgsqlInv, WaysHaveArrays
  <1> QED
    BY <1>1, <1>6, <1>9, <1>10, <1>11, <1>12, WaysOfFilesAlone DEF Osm2pgsqlInv

(* One relation.                                                           *)
LEMMA RelationParsed ==
    ASSUME Osm2pgsqlInv, RelationRow
    PROVE  Osm2pgsqlInv'
  <1>1. /\ call \in {"get_relations_inside", "get_missing_relations"}
        /\ UNCHANGED <<input, tiles, call, fetched, cursor, output, table, ids>>
        /\ UNCHANGED <<db, config, tile, file_state, file_content>>
    BY DEF RelationRow, Row, input, tiles, output
  <1>2. PICK r \in rows : add_relation(r) /\ rows' = rows \ {r}
    BY DEF RelationRow, Row
  <1>3. /\ TypeOK /\ Collection /\ db \in Database /\ cursor' \in Nat
        /\ r \in RelationIds
    BY <1>1, <1>2 DEF Osm2pgsqlInv, TileInv, TypeInv, TypeOK, RowsTyped
  <1>4. Welcome(<<relation, r>>)
    <2>1. CASE call = "get_relations_inside"
      <3>1. r \in RelationsInside
        BY <1>2, <1>3, <2>1 DEF Osm2pgsqlInv, SpatialReading, Awaited
      <3> QED
        BY <1>3, <3>1, InsideObjects, IdsOfObjects DEF RelationsInside, Welcome
    <2>2. CASE call = "get_missing_relations"
      <3>1. r \in m_missing_relations /\ r \in db.relations
        BY <1>2, <2>2 DEF Osm2pgsqlInv, MissingReading
      <3> QED
        BY <1>3, <3>1, StoredObjects DEF Collection, MissingAsked, Welcome
    <2> QED
      BY <1>1, <2>1, <2>2
  <1>5. Added(<<relation, r>>)
    BY <1>1, <1>2, <1>3, <1>4, AddRelationAdds
  <1>6. TileInv'
    BY <1>1, <1>2, <1>3, <1>5, ObjectAdded DEF Osm2pgsqlInv, Calls
  <1>7. /\ \A p : Got(p)' <=> (Got(p) \/ p = <<relation, r>>)
        /\ m_missing_relations \subseteq m_missing_relations'
    BY <1>5 DEF Added
  <1>8. /\ \A id : Awaited(id)' => Awaited(id)
        /\ \A id : Awaited(id) => Awaited(id)' \/ id = r
    BY <1>1, <1>2 DEF Awaited
  <1>9. TablesLeft'
    BY <1>1, <1>2 DEF Osm2pgsqlInv, TablesLeft, Spatial
  <1>10. SpatialReading'
    BY <1>1, <1>7, <1>8, InsideAlone DEF Osm2pgsqlInv, SpatialReading
  <1>11. MissingReading'
    BY <1>1, <1>2, <1>7, InsideAlone DEF Osm2pgsqlInv, MissingReading
  <1>12. WaysHaveArrays'
    BY <1>1, <1>7, TypesDiffer DEF Osm2pgsqlInv, WaysHaveArrays
  <1> QED
    BY <1>1, <1>6, <1>9, <1>10, <1>11, <1>12, WaysOfFilesAlone DEF Osm2pgsqlInv

(* A way without its array or a query that fails ends the run.             *)
LEMMA CallThrows ==
    ASSUME Osm2pgsqlInv, InconsistentWay \/ QueryFails
    PROVE  Osm2pgsqlInv'
  <1>1. /\ Terminate /\ UNCHANGED <<table, ids>> /\ call # "sort_buffer_and_write_it"
    BY DEF InconsistentWay, QueryFails, Calls
  <1>2. TileInv'
    BY <1>1, Terminated DEF Osm2pgsqlInv
  <1>3. call' = "terminated" /\ UNCHANGED <<db, m_buffer, file_state, file_content>>
    BY <1>1 DEF Terminate, input, collected, output
  <1>4. WaysHaveArrays' /\ TablesLeft'
    BY <1>1, <1>3 DEF Osm2pgsqlInv, WaysHaveArrays, TablesLeft, Spatial, Got
  <1> QED
    BY <1>2, <1>3, <1>4, NothingOnTheWay, WaysOfFilesAlone DEF Osm2pgsqlInv

-----------------------------------------------------------------------------
(***************************************************************************)
(* The calls for missing objects.                                          *)
(***************************************************************************)

(* A batch holds the next ids above the iterator; if it is not full, it    *)
(* holds all of them.                                                      *)
LEMMA MissingBatch ==
    ASSUME NEW c, NEW missing_ids \in SUBSET Nat, IsFiniteSet(missing_ids), NEW stored,
           cursor \in Nat, SelectMissingBatch(c, missing_ids, stored)
    PROVE  /\ cursor' \in Nat /\ fetched' \in BOOLEAN
           /\ rows' \subseteq missing_ids \intersect stored
           /\ \A id \in missing_ids \intersect stored :
                id <= cursor' => id <= cursor \/ id \in rows'
           /\ fetched' => \A id \in missing_ids : id <= cursor'
  <1> DEFINE ahead == {id \in missing_ids : id > cursor}
  <1>1. PICK batch \in SUBSET ahead :
            /\ IsBatch(batch, ahead)
            /\ \A id \in batch, later \in ahead \ batch : id < later
            /\ cursor' \in batch /\ \A id \in batch : id <= cursor'
            /\ rows' = batch \intersect stored
            /\ fetched' = (Cardinality(batch) < BatchSize)
    BY DEF SelectMissingBatch
  <1>2. cursor' \in Nat /\ cursor' > cursor /\ ahead \subseteq missing_ids
    BY <1>1
  <1>3. \A id \in missing_ids \intersect stored :
            id <= cursor' => id <= cursor \/ id \in rows'
    BY <1>1, <1>2
  <1>4. ASSUME fetched' PROVE batch = ahead
    <2>1. /\ IsFiniteSet(ahead) /\ Cardinality(ahead) \in Nat
      BY FS_Subset, FS_CardinalityType
    <2>2. Cardinality(batch) = Min({BatchSize, Cardinality(ahead)})
      BY <1>1 DEF IsBatch
    <2>3. Min({BatchSize, Cardinality(ahead)}) \in {BatchSize, Cardinality(ahead)}
      <3> DEFINE S == {BatchSize, Cardinality(ahead)}
      <3>1. \E x \in S : \A y \in S : x <= y
        BY <2>1, BatchAssumption
      <3> HIDE DEF S
      <3> QED
        BY <3>1 DEF Min
    <2>4. Cardinality(batch) = Cardinality(ahead)
      <3>1. Cardinality(batch) < BatchSize
        BY <1>1, <1>4
      <3>2. BatchSize \in Nat
        BY BatchAssumption
      <3> HIDE DEF ahead
      <3> QED
        BY <2>1, <2>2, <2>3, <3>1, <3>2
    <2> HIDE DEF ahead
    <2> QED
      BY <2>1, <2>4, FS_Subset
  <1>5. ASSUME fetched', NEW id \in missing_ids PROVE id <= cursor'
    <2>1. id > cursor => id \in batch
      BY <1>4, <1>5
    <2> QED
      BY <1>1, <1>2, <2>1
  <1>6. rows' \subseteq missing_ids \intersect stored
    BY <1>1
  <1>7. fetched' \in BOOLEAN
    <2>1. fetched' = (Cardinality(batch) < BatchSize)
      BY <1>1
    <2>2. (Cardinality(batch) < BatchSize) \in BOOLEAN
      OBVIOUS
    <2> QED
      BY <2>1, <2>2
  <1> QED
    BY <1>2, <1>3, <1>5, <1>6, <1>7

(* A batch of missing relations.                                           *)
LEMMA MissingRelationsSelected ==
    ASSUME Osm2pgsqlInv, GetMissingRelations
    PROVE  Osm2pgsqlInv'
  <1>1. /\ call = "get_missing_relations" /\ ~fetched /\ rows = {}
        /\ UNCHANGED <<input, tiles, call, collected, output, table, ids>>
        /\ UNCHANGED <<db, config, tile, m_buffer, m_missing_relations>>
    BY DEF GetMissingRelations, SelectMissingBatch, input, tiles, collected, missing
  <1>2. /\ TypeOK /\ Collection /\ InsideGot(relation) /\ cursor \in Nat
        /\ m_missing_relations \subseteq RelationIds /\ m_missing_relations \in SUBSET Nat
    BY <1>1, IdsAssumption DEF Osm2pgsqlInv, TileInv, TypeInv, TypeOK, PhasesDone, PastRelations
  <1>3. /\ cursor' \in Nat /\ fetched' \in BOOLEAN
        /\ rows' \subseteq m_missing_relations \intersect db.relations
        /\ \A id \in m_missing_relations \intersect db.relations :
                id <= cursor' => id <= cursor \/ id \in rows'
        /\ fetched' => \A id \in m_missing_relations : id <= cursor'
    <2>1. IsFiniteSet(m_missing_relations)
      BY <1>2, FiniteIdsAssumption, FS_Subset
    <2> QED
      BY <1>2, <2>1, MissingBatch DEF GetMissingRelations
  <1>4. TileInv'
    BY <1>1, <1>2, <1>3, CallGoesOn DEF Osm2pgsqlInv, Calls
  <1>5. TablesLeft'
    BY <1>1 DEF Osm2pgsqlInv, TablesLeft, Spatial
  <1>6. SpatialReading'
    BY <1>1 DEF SpatialReading
  <1>7. MissingReading'
    <2>1. rows' \subseteq m_missing_relations' \intersect db'.relations
      BY <1>1, <1>3
    <2> SUFFICES ASSUME config.recurse_relations, NEW m \in Owed
                 PROVE  /\ m <= cursor' => Got(<<relation, m>>)' \/ m \in rows'
                        /\ fetched' => m <= cursor'
      BY <1>1, <2>1, InsideAlone DEF MissingReading
    <2>2. m \in m_missing_relations \intersect db.relations
      BY <1>2, OwedNoted
    <2>3. m <= cursor => Got(<<relation, m>>)
      BY <1>1 DEF Osm2pgsqlInv, MissingReading
    <2> QED
      BY <1>1, <1>3, <2>2, <2>3 DEF Got
  <1> QED
    BY <1>1, <1>4, <1>5, <1>6, <1>7, QuerySent

(* A batch of missing ways.                                                *)
LEMMA MissingWaysSelected ==
    ASSUME Osm2pgsqlInv, GetMissingWays
    PROVE  Osm2pgsqlInv'
  <1>1. /\ call = "get_missing_ways" /\ ~fetched /\ rows = {}
        /\ UNCHANGED <<input, tiles, call, collected, output, table, ids>>
        /\ UNCHANGED <<db, config, tile, m_buffer, m_missing_ways>>
    BY DEF GetMissingWays, SelectMissingBatch, input, tiles, collected, missing
  <1>2. /\ cursor \in Nat
        /\ m_missing_ways \subseteq WayIds /\ m_missing_ways \in SUBSET Nat
    BY IdsAssumption DEF Osm2pgsqlInv, TileInv, TypeInv, TypeOK
  <1>3. /\ cursor' \in Nat /\ fetched' \in BOOLEAN
        /\ rows' \subseteq m_missing_ways \intersect db.ways
        /\ \A id \in m_missing_ways \intersect db.ways :
                id <= cursor' => id <= cursor \/ id \in rows'
        /\ fetched' => \A id \in m_missing_ways : id <= cursor'
    <2>1. IsFiniteSet(m_missing_ways)
      BY <1>2, FiniteIdsAssumption, FS_Subset
    <2> QED
      BY <1>2, <2>1, MissingBatch DEF GetMissingWays
  <1>4. TileInv'
    BY <1>1, <1>2, <1>3, CallGoesOn DEF Osm2pgsqlInv, Calls
  <1>5. TablesLeft'
    BY <1>1 DEF Osm2pgsqlInv, TablesLeft, Spatial
  <1>6. SpatialReading'
    BY <1>1 DEF SpatialReading
  <1>7. MissingReading'
    <2>1. \A p : Got(p)' <=> Got(p)
      BY <1>1 DEF Got
    <2>2. \A w \in m_missing_ways \intersect db.ways : w <= cursor => Got(<<way, w>>)
      BY <1>1 DEF Osm2pgsqlInv, MissingReading
    <2> QED
      BY <1>1, <1>3, <2>1, <2>2 DEF MissingReading
  <1> QED
    BY <1>1, <1>4, <1>5, <1>6, <1>7, QuerySent

-----------------------------------------------------------------------------
(* A call that returns has done what it owes.                              *)
LEMMA CallsDone ==
    ASSUME Osm2pgsqlInv, ResultsParsed
    PROVE  call \in Calls /\ CallDone /\ ids = {}
  <1>1. /\ call \in Calls /\ rows = {}
        /\ call = "get_nodes_inside" => fetched
        /\ call = "get_ways_inside" => table = "polygon" /\ fetched /\ ids = {}
        /\ call = "get_relations_inside" => fetched /\ ids = {}
        /\ call = "get_missing_relations" => fetched \/ Exhausted(m_missing_relations)
        /\ call = "get_missing_ways" => fetched \/ Exhausted(m_missing_ways)
        /\ call = "get_missing_nodes" => Exhausted(m_missing_nodes)
    BY DEF ResultsParsed, Calls
  <1>2. ids = {}
    BY <1>1 DEF Osm2pgsqlInv, TablesLeft, Spatial, ProgramPoints, Calls
  <1>3. \A id : ~Awaited(id)
    BY <1>1, <1>2 DEF Awaited
  <1>4. /\ call = "get_nodes_inside" => InsideGot(node)
        /\ call = "get_missing_nodes" => NodesFetched
    BY <1>1, NodesDone DEF Osm2pgsqlInv
  <1>5. /\ call = "get_ways_inside" => InsideGot(way)
        /\ call = "get_relations_inside" => InsideGot(relation)
    BY <1>1, <1>3 DEF Osm2pgsqlInv, SpatialReading, InsideGot, WaysInside, RelationsInside
  <1>6. call = "get_missing_ways" => WaysFetched
    BY <1>1 DEF Osm2pgsqlInv, MissingReading, WaysFetched, Exhausted
  <1>7. ASSUME call = "get_missing_relations" PROVE OwedGot
    <2>1. TypeOK /\ Collection /\ InsideGot(relation)
      BY <1>7 DEF Osm2pgsqlInv, TileInv, TypeInv, PhasesDone, PastRelations
    <2> QED
      BY <1>1, <1>7, <2>1, OwedNoted DEF Osm2pgsqlInv, MissingReading, OwedGot, Exhausted
  <1> QED
    BY <1>1, <1>2, <1>4, <1>5, <1>6, <1>7 DEF CallDone

(* The next call begins.                                                   *)
LEMMA CallEnds ==
    ASSUME Osm2pgsqlInv, CallReturns
    PROVE  Osm2pgsqlInv'
  <1>1. /\ UNCHANGED <<db, m_buffer, file_state, file_content>>
        /\ ~fetched' /\ rows' = {} /\ cursor' = 0 /\ table' = "line" /\ ids' = ids
    BY DEF CallReturns, Return, input, collected, output
  <1>2. call \in Calls /\ CallDone /\ ids = {}
    BY CallsDone DEF CallReturns
  <1>3. TileInv'
    BY <1>2, CallReturned DEF Osm2pgsqlInv, CallReturns
  <1>4. TablesLeft'
    BY <1>1, <1>2 DEF TablesLeft
  <1>5. SpatialReading'
    BY <1>1, <1>2 DEF SpatialReading, Awaited
  <1>6. MissingReading'
    <2>1. /\ \A m \in Owed' : ~(m <= 0)
          /\ \A w \in m_missing_ways' : ~(w <= 0)
      BY <1>3, IdsAssumption DEF TileInv, TypeInv, TypeOK, Database, Owed
    <2> QED
      BY <1>1, <2>1 DEF MissingReading
  <1>7. WaysHaveArrays'
    BY <1>1 DEF Osm2pgsqlInv, WaysHaveArrays, Got
  <1> QED
    BY <1>1, <1>3, <1>4, <1>5, <1>6, <1>7, WaysOfFilesAlone DEF Osm2pgsqlInv

-----------------------------------------------------------------------------
(* The invariant holds before the first tile ...                           *)
LEMMA Osm2pgsqlInitial == Osm2pgsqlInit => Osm2pgsqlInv
  <1> SUFFICES ASSUME Osm2pgsqlInit PROVE Osm2pgsqlInv
    OBVIOUS
  <1>1. /\ TileInv /\ Init /\ table = "line" /\ ids = {}
    BY TileInit DEF Osm2pgsqlInit
  <1>2. WaysHaveArrays /\ NoWayWithoutNodes
    BY <1>1 DEF Init, WaysHaveArrays, NoWayWithoutNodes, Got, IsWritten
  <1>3. TablesLeft /\ SpatialReading /\ MissingReading
    BY <1>1 DEF Init, TablesLeft, SpatialReading, MissingReading, Spatial
  <1> QED
    BY <1>1, <1>2, <1>3 DEF Osm2pgsqlInv

(* ... and every step keeps it.                                            *)
LEMMA Osm2pgsqlStep == Osm2pgsqlInv /\ [Next]_osm2pgsqlVars => Osm2pgsqlInv'
  BY OtherSteps, IdsFetched, BatchSelected, PolygonsNext, WayParsed, RelationParsed, CallThrows,
     MissingRelationsSelected, MissingWaysSelected, CallEnds DEF Next, Proceed, osm2pgsqlVars

(* The invariant of every run, for any ids, databases, options and size of *)
(* the batches.                                                            *)
LEMMA Osm2pgsqlInvariant == Spec => []Osm2pgsqlInv
  BY Osm2pgsqlInitial, Osm2pgsqlStep, PTL DEF Spec

(* Every reachable state is well typed.                                    *)
THEOREM TypeCorrect == Spec => []TypeOK
  <1>1. Osm2pgsqlInv => TypeOK
    BY FilesOfTheInvariant DEF Osm2pgsqlInv
  <1> QED
    BY Osm2pgsqlInvariant, <1>1, PTL

(* The batches, the pieces of a geometry and the second table lose no way, *)
(* no relation and no node: the files are as complete as those of the      *)
(* other source, and have nothing but what is asked for.                   *)
THEOREM FilesCompleteAndJustified ==
    Spec => [](WaysHaveTheirNodes /\ RelationsHaveTheirMembers /\ NothingUnasked
                /\ FilesOrdered)
  <1>1. Osm2pgsqlInv => WaysHaveTheirNodes /\ RelationsHaveTheirMembers /\ NothingUnasked
                            /\ FilesOrdered
    BY FilesOfTheInvariant DEF Osm2pgsqlInv
  <1> QED
    BY Osm2pgsqlInvariant, <1>1, PTL

(* A way without an array of nodes ends the run before the file that would *)
(* have it is written.                                                     *)
THEOREM NeverWayWithoutNodes == Spec => []NoWayWithoutNodes
  <1>1. Osm2pgsqlInv => NoWayWithoutNodes
    BY DEF Osm2pgsqlInv
  <1> QED
    BY Osm2pgsqlInvariant, <1>1, PTL

(* A step of a run is a step of the promise, or none.                      *)
LEMMA PromiseStep ==
    Osm2pgsqlInv /\ [Next]_osm2pgsqlVars
        => [Promise!Next]_<<db, config, Remaining, Published>>
  <1> SUFFICES ASSUME Osm2pgsqlInv, [Next]_osm2pgsqlVars
               PROVE  [Promise!Next]_<<db, config, Remaining, Published>>
    OBVIOUS
  <1>1. CASE \/ GetIdsInside \/ SelectBatch \/ GetWayPolygons \/ GetMissingRelations
             \/ RelationRow \/ GetMissingWays \/ WayRow \/ InconsistentWay \/ QueryFails
    <2>1. /\ UNCHANGED <<db, config, todo, tile, file_state, file_content>>
          /\ call # "next_tile" /\ call' # "next_tile"
      BY <1>1 DEF GetIdsInside, SelectBatch, GetWayPolygons, GetMissingRelations, RelationRow,
            GetMissingWays, WayRow, InconsistentWay, QueryFails, SelectMissingBatch, Row,
            Terminate, Spatial, Calls, input, tiles, output
    <2> QED
      BY <2>1, PromiseStutters
  <1>2. CASE CallReturns
    <2>1. /\ UNCHANGED <<db, config, todo, tile, file_state, file_content>>
          /\ call' = CallAfter(call) /\ call \in Calls
      BY <1>2, CallsDone DEF CallReturns, Return, input, tiles, output
    <2>2. call # "next_tile" /\ call' # "next_tile"
      BY <2>1 DEF CallAfter, Calls
    <2> QED
      BY <2>1, <2>2, PromiseStutters
  <1> QED
    BY <1>1, <1>2, PromiseShared DEF Next, Proceed, Osm2pgsqlInv, osm2pgsqlVars

(* This source keeps the promise too: each tile of the list is published   *)
(* in its turn, at once and with an acceptable content, or the run ends    *)
(* before it.                                                              *)
THEOREM ImplementsPromise == Spec => KeepsPromise
  <1>1. Osm2pgsqlInit => Promise!Init
    BY PromiseInit DEF Osm2pgsqlInit
  <1> QED
    BY Osm2pgsqlInvariant, <1>1, PromiseStep, PTL DEF Spec, KeepsPromise, Promise!Spec
=============================================================================
