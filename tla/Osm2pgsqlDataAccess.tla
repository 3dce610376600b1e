------------------------ MODULE Osm2pgsqlDataAccess ------------------------
(***************************************************************************)
(* The generator reading the osm2pgsql layout. Ids come from the tables    *)
(* with geometries (planet_osm_line, planet_osm_polygon), the objects from *)
(* planet_osm_ways and planet_osm_rels, in batches of ids. Nodes that are  *)
(* not tagged always come from a flatnodes file, so the options it is used *)
(* with have flatnodes TRUE.                                               *)
(***************************************************************************)
EXTENDS NodesProvider, FiniteSetsExt

CONSTANTS
    BatchSize,      (* ids in one query, 100 in the code                   *)
    Pieces          (* rows one object may be split into                   *)

ASSUME BatchAssumption == BatchSize \in Nat \ {0} /\ Pieces \in Nat \ {0}

(* osmium::object_id_type has 64 bits.                                     *)
ASSUME FiniteIdsAssumption == IsFiniteSet(WayIds) /\ IsFiniteSet(RelationIds)

VARIABLES
    table,          (* the geometry table whose ids are fetched            *)
    ids             (* rows of that table, not yet sent in a batch         *)

osm2pgsqlVars == <<vars, table, ids>>

Osm2pgsqlInit == Init /\ table = "line" /\ ids = {}

Spatial == {"get_ways_inside", "get_relations_inside"}

IsBatchFull(batch, candidates) ==  \* mutant of IsBatch
    /\ batch \in SUBSET candidates /\ batch # {}
    /\ Cardinality(batch) = BatchSize

(* A subset of candidates as large as a batch may be.                      *)
IsBatch(batch, candidates) ==
    /\ batch \in SUBSET candidates /\ batch # {}
    /\ Cardinality(batch) = Min({BatchSize, Cardinality(candidates)})

-----------------------------------------------------------------------------
(* get_ids_inside: the rows come in any order, and a long line or a        *)
(* multipolygon relation may have several.                                 *)
GetIdsInside ==
    /\ call \in Spatial /\ ~fetched
    /\ LET inside ==
            IF call = "get_relations_inside" THEN IdsOf(relation, Inside(db, tile))
            ELSE IF table = "line" THEN IdsOf(way, Inside(db, tile)) \ db.polygons
                 ELSE IdsOf(way, Inside(db, tile)) \intersect db.polygons
           split == IF call = "get_ways_inside" /\ table = "polygon" THEN {1} ELSE 1..Pieces
       IN  \E pieces \in SUBSET (inside \X split) :
            /\ {p[1] : p \in pieces} = inside
            /\ ids' = pieces
    /\ fetched' = TRUE
    /\ UNCHANGED <<input, tiles, call, rows, cursor, collected, output, table>>

(* get_objects_from_db over the ids of a spatial query: SELECT ... WHERE   *)
(* id IN (...) gives one row for each distinct id it finds.                *)
SelectBatch ==
    /\ call \in Spatial /\ rows = {}
    /\ \E batch \in SUBSET ids :
        /\ IsBatch(batch, ids)
        /\ ids' = ids \ batch
        /\ rows' = {p[1] : p \in batch}
            \intersect (IF call = "get_ways_inside" THEN db.ways ELSE db.relations)
    /\ UNCHANGED <<input, tiles, call, fetched, cursor, collected, output, table>>

(* get_objects_from_db over a set of missing ids: the iterator collects up *)
(* to BatchSize of the ids above it, then the batch is sent. A batch that  *)
(* is not full is sent after the loop: fetched, what its rows add to the   *)
(* set is not visited. After a full one the iterator moves on.             *)
SelectMissingBatch(c, missing_ids, stored) ==
    /\ call = c /\ ~fetched /\ rows = {}
    /\ LET ahead == {id \in missing_ids : id > cursor}
       IN  \E batch \in SUBSET ahead :
            /\ IsBatch(batch, ahead)
            /\ \A id \in batch, later \in ahead \ batch : id < later
            /\ cursor' \in batch /\ \A id \in batch : id <= cursor'
            /\ rows' = batch \intersect stored
            /\ fetched' = (Cardinality(batch) < BatchSize)
    /\ UNCHANGED <<input, tiles, call, collected, output, table, ids>>

GetMissingRelations ==
    SelectMissingBatch("get_missing_relations", m_missing_relations, db.relations)
GetMissingWays == SelectMissingBatch("get_missing_ways", m_missing_ways, db.ways)

(* query_and_flush_relations and query_and_flush_ways, one row. A way with *)
(* no array of nodes is taken for an inconsistent database.                *)
RelationRow ==
    /\ \E c \in {"get_relations_inside", "get_missing_relations"} : Row(c, add_relation)
    /\ UNCHANGED <<table, ids>>

FlushWayUnchecked(w) == add_way(w)  \* mutant of FlushWay

FlushWay(w) == w \notin db.nullNodes /\ add_way(w)

WayRow ==
    /\ \E c \in {"get_ways_inside", "get_missing_ways"} : Row(c, FlushWay)
    /\ UNCHANGED <<table, ids>>

InconsistentWay ==
    /\ call \in {"get_ways_inside", "get_missing_ways"}
    /\ rows \intersect db.nullNodes # {}
    /\ Terminate
    /\ UNCHANGED <<table, ids>>

-----------------------------------------------------------------------------
(* get_ways_inside: the lines are done, now the polygons.                  *)
GetWayPolygons ==
    /\ call = "get_ways_inside" /\ table = "line"
    /\ fetched /\ ids = {} /\ rows = {}
    /\ table' = "polygon" /\ fetched' = FALSE
    /\ UNCHANGED <<input, tiles, call, rows, cursor, collected, output, ids>>

ResultsParsedLinesOnly ==  \* mutant of ResultsParsed
    /\ rows = {}
    /\ CASE call \in {"get_nodes_inside"} -> fetched
         [] call \in Spatial -> fetched /\ ids = {}
         [] call = "get_missing_relations" -> fetched \/ Exhausted(m_missing_relations)
         [] call = "get_missing_ways" -> fetched \/ Exhausted(m_missing_ways)
         [] call = "get_missing_nodes" -> Exhausted(m_missing_nodes)
         [] OTHER -> FALSE

(* A call is over when the results of all its queries are parsed.          *)
ResultsParsed ==
    /\ rows = {}
    /\ CASE call = "get_nodes_inside" -> fetched
         [] call = "get_ways_inside" -> table = "polygon" /\ fetched /\ ids = {}
         [] call = "get_relations_inside" -> fetched /\ ids = {}
         [] call = "get_missing_relations" -> fetched \/ Exhausted(m_missing_relations)
         [] call = "get_missing_ways" -> fetched \/ Exhausted(m_missing_ways)
         [] call = "get_missing_nodes" -> Exhausted(m_missing_nodes)
         [] OTHER -> FALSE

CallReturns == ResultsParsed /\ Return /\ table' = "line" /\ UNCHANGED ids

(* A query fails: with the rows of the last one parsed, the next is sent.  *)
QueryFails ==
    /\ call \in Calls /\ rows = {} /\ ~ResultsParsed
    /\ Terminate
    /\ UNCHANGED <<table, ids>>

Proceed ==
    \/ (NextTile \/ WriteFile) /\ UNCHANGED <<table, ids>>
    \/ (GetNodesInside \/ NodeRow) /\ UNCHANGED <<table, ids>>
    \/ GetIdsInside \/ SelectBatch \/ GetWayPolygons
    \/ GetMissingRelations \/ RelationRow
    \/ GetMissingWays \/ WayRow \/ InconsistentWay
    \/ (GetMissingNode \/ NotInFlatnodes) /\ UNCHANGED <<table, ids>>
    \/ CallReturns

Next == Proceed \/ QueryFails

(* As in CerepsoDataAccess; no step relies on a query that fails.          *)
Spec == Osm2pgsqlInit /\ [][Next]_osm2pgsqlVars /\ WF_osm2pgsqlVars(Proceed)

-----------------------------------------------------------------------------
(* A run never goes on after a way it cannot build: no file is written     *)
(* with it, although its relations and earlier ways are in the buffer.     *)
NoWayWithoutNodes ==
    \A t \in Tiles : IsWritten(t) =>
        IdsOf(way, Content(t)) \intersect db.nullNodes = {}
=============================================================================
