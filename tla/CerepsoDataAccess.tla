------------------------- MODULE CerepsoDataAccess -------------------------
(***************************************************************************)
(* The generator reading the Cerepso layout: one query for each missing    *)
(* object. get_missing_relations walks the very set its callback inserts   *)
(* into, so ids above the iterator are still visited and ids below it are  *)
(* not.                                                                    *)
(***************************************************************************)
EXTENDS NodesProvider

GetWaysInside == Select("get_ways_inside", IdsOf(way, Inside(db, tile)))
WayRow == Row("get_ways_inside", add_way)

GetRelationsInside == Select("get_relations_inside", IdsOf(relation, Inside(db, tile)))
RelationRow == Row("get_relations_inside", add_relation)

(* The query by id returns one row or none.                                *)
GetMissingRelation ==
    Round("get_missing_relations", m_missing_relations, db.relations, add_relation)

GetMissingWay == Round("get_missing_ways", m_missing_ways, db.ways, add_way)

(* A call is over when its result is parsed or its loop has ended.         *)
ResultsParsed ==
    CASE call \in {"get_nodes_inside", "get_ways_inside", "get_relations_inside"} ->
            fetched /\ rows = {}
      [] call = "get_missing_relations" -> Exhausted(m_missing_relations)
      [] call = "get_missing_ways" -> Exhausted(m_missing_ways)
      [] call = "get_missing_nodes" -> Exhausted(m_missing_nodes)
      [] OTHER -> FALSE

CallReturns == ResultsParsed /\ Return

(* A query fails: that of a call, of a round of its loop, or of a row. The *)
(* rows of nodes need none.                                                *)
QueryFails ==
    /\ call \in Calls /\ ~ResultsParsed
    /\ call = "get_nodes_inside" => ~fetched
    /\ Terminate

Proceed ==
    \/ NextTile
    \/ GetNodesInside \/ NodeRow
    \/ GetWaysInside \/ WayRow
    \/ GetRelationsInside \/ RelationRow
    \/ GetMissingRelation
    \/ GetMissingWay
    \/ GetMissingNode \/ NotInFlatnodes
    \/ CallReturns
    \/ WriteFile

Next == Proceed \/ QueryFails

(* The program is sequential and nothing in it waits: it takes its next    *)
(* step whenever it has one. That a query fails is nothing to rely on.     *)
Spec == Init /\ [][Next]_vars /\ WF_vars(Proceed)

-----------------------------------------------------------------------------
(* With recurse_relations a stored member relation is missing from a       *)
(* written tile only if its id is smaller than that of the relation which  *)
(* refers to it and that relation is itself not inside: what an iterator   *)
(* that only moves up can miss, and no more.                               *)
GreaterRelationsFollowed ==
    \A t \in Tiles : IsWritten(t) /\ config.recurse_relations =>
        \A r \in IdsOf(relation, Content(t)) :
            \A m \in IdsOf(relation, db.members[r] \intersect Stored(db)) :
                m > r => <<relation, m>> \in Content(t)

(* The usage text: -O returns the orphaned nodes of the tile.              *)
OrphanedNodesWritten ==
    \A t \in Tiles : IsWritten(t) /\ config.orphaned_nodes =>
        {o \in db.inside[t] \intersect Stored(db) : o[1] = node} \subseteq Content(t)
=============================================================================
