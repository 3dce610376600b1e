--------------------------- MODULE CerepsoProofs ---------------------------
(***************************************************************************)
(* The theorems about a run over a Cerepso database. First one nobody      *)
(* changes: what each call has read on the way, and with it the invariant  *)
(* TileInv of the tile builder. Then one that an importer changes.         *)
(***************************************************************************)
EXTENDS UpdatedDatabase, OSMVectorTileImplProofs

(* The calls for ways and relations, on their way.                         *)
Reading ==
    /\ call = "get_ways_inside" =>
        /\ rows \subseteq IdsOf(way, Inside(db, tile))
        /\ fetched => \A w \in IdsOf(way, Inside(db, tile)) : Got(<<way, w>>) \/ w \in rows
    /\ call = "get_relations_inside" =>
        /\ rows \subseteq IdsOf(relation, Inside(db, tile))
        /\ fetched => \A r \in IdsOf(relation, Inside(db, tile)) :
                        Got(<<relation, r>>) \/ r \in rows
    /\ call = "get_missing_relations" /\ config.recurse_relations =>
        \A m \in Owed : m <= cursor => Got(<<relation, m>>)
    /\ call = "get_missing_ways" =>
        \A w \in m_missing_ways \intersect db.ways : w <= cursor => Got(<<way, w>>)

(* Greater members are above the iterator when they are noted.             *)
GreaterGot ==
    call \in {"get_missing_relations"} \union PastMissingRelations
            /\ config.recurse_relations =>
        \A r \in RelationIds : Got(<<relation, r>>) =>
            \A m \in IdsOf(relation, db.members[r] \intersect Stored(db)) :
                m > r /\ (call = "get_missing_relations" => m <= cursor)
                    => Got(<<relation, m>>)

CerepsoInv == TileInv /\ Reading /\ GreaterGot /\ GreaterRelationsFollowed

-----------------------------------------------------------------------------
(* Files that are not touched keep the relations they have.                *)
LEMMA FollowedAlone ==
    ASSUME UNCHANGED <<db, config, file_state, file_content>>
    PROVE  GreaterRelationsFollowed => GreaterRelationsFollowed'
  BY DEF GreaterRelationsFollowed, IsWritten, Content, Stored, Located

(* Greater members stay accounted for while no relation is collected.      *)
LEMMA GreaterKept ==
    ASSUME GreaterGot, UNCHANGED <<db, config, call>>,
           call = "get_missing_relations" => cursor' = cursor,
           \A id : Got(<<relation, id>>)' <=> Got(<<relation, id>>)
    PROVE  GreaterGot'
  BY DEF GreaterGot, Stored, Located

(* The steps of other calls than those for ways and relations.             *)
LEMMA OtherSteps ==
    ASSUME CerepsoInv,
           \/ NextTile \/ GetNodesInside \/ NodeRow \/ GetMissingNode \/ NotInFlatnodes
           \/ QueryFails \/ WriteFile \/ UNCHANGED vars
    PROVE  CerepsoInv'
  <1>1. TileInv'
    <2>1. QueryFails => Terminate /\ call # "sort_buffer_and_write_it"
      BY DEF QueryFails, Calls
    <2> QED
      BY <2>1, SharedStep, Terminated DEF CerepsoInv
  <1>2. CASE NextTile
    BY <1>1, <1>2, FollowedAlone
       DEF NextTile, CerepsoInv, Reading, GreaterGot, PastMissingRelations, PastMissingWays,
           PastMissingNodes, input, output
  <1>3. CASE GetNodesInside \/ NodeRow \/ GetMissingNode
    <2>1. /\ UNCHANGED <<db, config, call, file_state, file_content>>
          /\ call \in {"get_nodes_inside", "get_missing_nodes"}
      BY <1>3 DEF GetNodesInside, Select, NodeRow, Row, GetMissingNode, Round, input, output
    <2>2. GreaterGot'
      BY <1>3, <2>1, NodesOnly, GreaterKept DEF CerepsoInv
    <2>3. Reading'
      BY <2>1 DEF Reading
    <2> QED
      BY <1>1, <2>1, <2>2, <2>3, FollowedAlone DEF CerepsoInv
  <1>4. CASE NotInFlatnodes \/ QueryFails \/ FileExists
    BY <1>1, <1>4, FollowedAlone
       DEF NotInFlatnodes, QueryFails, FileExists, Terminate, CerepsoInv, Reading, GreaterGot,
           PastMissingRelations, PastMissingWays, PastMissingNodes, input, output
  <1>5. CASE OpenFile \/ WriteObject
    <2>1. /\ UNCHANGED <<db, config, tile, m_buffer>>
          /\ call \in PastMissingNodes /\ call' = "sort_buffer_and_write_it"
          /\ \A t \in Tiles : IsWritten(t)' => IsWritten(t) /\ file_content'[t] = file_content[t]
      <3>1. CASE OpenFile
        BY <3>1 DEF CerepsoInv, TileInv, TypeInv, TypeOK, OpenFile, IsWritten,
              PastMissingNodes, input, tiles, collected
      <3>2. CASE WriteObject
        BY <3>2 DEF CerepsoInv, TileInv, TypeInv, TypeOK, FileIsBuffer, WriteObject, IsWritten,
              PastMissingNodes, input, tiles, collected
      <3> QED
        BY <1>5, <3>1, <3>2
    <2>2. Reading'
      BY <2>1 DEF Reading
    <2>3. GreaterGot'
      BY <2>1 DEF CerepsoInv, GreaterGot, PastMissingRelations, PastMissingWays,
           PastMissingNodes, Got, Stored, Located
    <2>4. GreaterRelationsFollowed'
      BY <2>1 DEF CerepsoInv, GreaterRelationsFollowed, Content, Stored, Located
    <2> QED
      BY <1>1, <2>2, <2>3, <2>4 DEF CerepsoInv
  <1>6. CASE CloseFile
    <2>1. /\ UNCHANGED <<db, config, tile, file_content>> /\ objects = {}
          /\ call = "sort_buffer_and_write_it" /\ call' = "next_tile"
          /\ \A t \in Tiles : IsWritten(t)' => IsWritten(t) \/ t = tile
      BY <1>6 DEF CerepsoInv, TileInv, TypeInv, TypeOK, CloseFile, IsWritten, input, tiles
    <2>2. Reading' /\ GreaterGot'
      BY <2>1 DEF Reading, GreaterGot, PastMissingRelations, PastMissingWays, PastMissingNodes
    <2>3. \A o : o \in Content(tile) <=> Got(o)
      BY <2>1 DEF CerepsoInv, TileInv, FileIsBuffer, Got
    <2>4. Content(tile) \subseteq Object
      BY DEF CerepsoInv, TileInv, TypeInv, TypeOK, Content, ToSet
    <2>5. ASSUME config.recurse_relations, NEW r \in IdsOf(relation, Content(tile)),
                 NEW m \in IdsOf(relation, db.members[r] \intersect Stored(db)), m > r
          PROVE  <<relation, m>> \in Content(tile)
      <3>1. Got(<<relation, r>>) /\ r \in RelationIds
        BY <2>3, <2>4, IdsOfObjects
      <3> QED
        BY <2>1, <2>3, <2>5, <3>1 DEF CerepsoInv, GreaterGot, PastMissingRelations,
              PastMissingWays, PastMissingNodes
    <2>6. GreaterRelationsFollowed'
      BY <2>1, <2>5 DEF CerepsoInv, GreaterRelationsFollowed, Content, Stored, Located
    <2> QED
      BY <1>1, <2>2, <2>6 DEF CerepsoInv
  <1>7. CASE UNCHANGED vars
    <2>1. UNCHANGED <<db, config, tile, call, fetched, rows, cursor, m_buffer, m_missing_ways,
                      file_state, file_content>>
      BY <1>7 DEF vars, input, tiles, reading, collected, missing, output
    <2>2. \A p : Got(p)' <=> Got(p)
      BY <2>1 DEF Got
    <2>3. Reading'
      BY <2>1, <2>2 DEF CerepsoInv, Reading, Owed, Inside, Stored, Located
    <2> QED
      BY <1>1, <2>1, <2>2, <2>3, GreaterKept, FollowedAlone DEF CerepsoInv
  <1> QED
    BY <1>2, <1>3, <1>4, <1>5, <1>6, <1>7 DEF WriteFile

-----------------------------------------------------------------------------
(* The spatial queries for ways and relations.                             *)
LEMMA InsideSelected ==
    ASSUME CerepsoInv, GetWaysInside \/ GetRelationsInside
    PROVE  CerepsoInv'
  <1>1. /\ call \in {"get_ways_inside", "get_relations_inside"}
        /\ UNCHANGED <<input, tiles, call, cursor, collected, output>> /\ fetched' = TRUE
        /\ call = "get_ways_inside" => rows' = IdsOf(way, Inside(db, tile))
        /\ call = "get_relations_inside" => rows' = IdsOf(relation, Inside(db, tile))
    BY DEF GetWaysInside, GetRelationsInside, Select
  <1>2. UNCHANGED <<db, config, tile, file_state, file_content>>
    BY <1>1 DEF input, tiles, output
  <1>3. TileInv'
    <2>1. /\ IdsOf(way, Inside(db, tile)) \subseteq WayIds
          /\ IdsOf(relation, Inside(db, tile)) \subseteq RelationIds
          /\ cursor \in Nat
      BY InsideObjects DEF CerepsoInv, TileInv, TypeInv, TypeOK
    <2> QED
      BY <1>1, <2>1, CallGoesOn DEF CerepsoInv, Calls
  <1>4. Reading'
    BY <1>1, <1>2 DEF Reading, Inside, Stored, Located
  <1>5. GreaterGot'
    BY <1>1 DEF GreaterGot, PastMissingRelations, PastMissingWays, PastMissingNodes
  <1> QED
    BY <1>2, <1>3, <1>4, <1>5, FollowedAlone DEF CerepsoInv

(* One way or relation of an answer.                                       *)
LEMMA InsideParsed ==
    ASSUME CerepsoInv, WayRow \/ RelationRow
    PROVE  CerepsoInv'
  <1>1. /\ UNCHANGED <<input, tiles, call, fetched, cursor, output>>
        /\ UNCHANGED <<db, config, tile, file_state, file_content>>
        /\ call \in {"get_ways_inside", "get_relations_inside"}
    BY DEF WayRow, RelationRow, Row, input, tiles, output
  <1>2. TypeOK /\ Collection /\ cursor' \in Nat
    BY <1>1 DEF CerepsoInv, TileInv, TypeInv, TypeOK
  <1>3. PICK id \in rows :
            /\ rows' = rows \ {id}
            /\ call = "get_ways_inside" => add_way(id)
            /\ call = "get_relations_inside" => add_relation(id)
    BY DEF WayRow, RelationRow, Row
  <1>4. CASE call = "get_ways_inside"
    <2>1. id \in WayIds /\ id \in IdsOf(way, Inside(db, tile))
      BY <1>3, <1>4, InsideObjects, <1>2 DEF CerepsoInv, Reading
    <2>2. Welcome(<<way, id>>)
      BY <1>2, <2>1, InsideObjects, IdsOfObjects DEF Welcome
    <2>3. Added(<<way, id>>)
      BY <1>1, <1>2, <1>3, <1>4, <2>1, <2>2, AddWayAdds
    <2>4. TileInv'
      BY <1>1, <1>2, <1>3, <1>4, <2>3, ObjectAdded DEF CerepsoInv, Calls
    <2>5. \A p : Got(p)' <=> (Got(p) \/ p = <<way, id>>)
      BY <2>3 DEF Added
    <2>6. Reading'
      BY <1>1, <1>3, <1>4, <2>5 DEF CerepsoInv, Reading, Inside, Stored, Located
    <2>7. GreaterGot'
      BY <1>1, <1>4 DEF GreaterGot, PastMissingRelations, PastMissingWays, PastMissingNodes
    <2> QED
      BY <1>1, <2>4, <2>6, <2>7, FollowedAlone DEF CerepsoInv
  <1>5. CASE call = "get_relations_inside"
    <2>1. id \in RelationIds /\ id \in IdsOf(relation, Inside(db, tile))
      BY <1>3, <1>5, InsideObjects, <1>2 DEF CerepsoInv, Reading
    <2>2. Welcome(<<relation, id>>)
      BY <1>2, <2>1, InsideObjects, IdsOfObjects DEF Welcome
    <2>3. Added(<<relation, id>>)
      BY <1>1, <1>2, <1>3, <1>5, <2>1, <2>2, AddRelationAdds
    <2>4. TileInv'
      BY <1>1, <1>2, <1>3, <1>5, <2>3, ObjectAdded DEF CerepsoInv, Calls
    <2>5. \A p : Got(p)' <=> (Got(p) \/ p = <<relation, id>>)
      BY <2>3 DEF Added
    <2>6. Reading'
      BY <1>1, <1>3, <1>5, <2>5 DEF CerepsoInv, Reading, Inside, Stored, Located
    <2>7. GreaterGot'
      BY <1>1, <1>5 DEF GreaterGot, PastMissingRelations, PastMissingWays, PastMissingNodes
    <2> QED
      BY <1>1, <2>4, <2>6, <2>7, FollowedAlone DEF CerepsoInv
  <1> QED
    BY <1>1, <1>4, <1>5

(* A round of the loop over the missing relations: the iterator goes to    *)
(* the next id, and what the relation adds above it is still to come.      *)
LEMMA RelationFetched ==
    ASSUME CerepsoInv, GetMissingRelation
    PROVE  CerepsoInv'
  <1>1. PICK id \in m_missing_relations :
            /\ IsNext(id, m_missing_relations)
            /\ cursor' = id
            /\ IF id \in db.relations THEN add_relation(id) ELSE UNCHANGED collected
    BY DEF GetMissingRelation, Round
  <1>2. /\ call = "get_missing_relations"
        /\ UNCHANGED <<input, tiles, call, fetched, rows, output>>
        /\ UNCHANGED <<db, config, tile, file_state, file_content>>
    BY DEF GetMissingRelation, Round, input, tiles, output
  <1>3. /\ TypeOK /\ Collection /\ InsideGot(relation) /\ db \in Database
        /\ id \in RelationIds /\ id \in Nat /\ m_missing_relations \subseteq Nat
        /\ cursor \in Nat /\ fetched \in BOOLEAN /\ rows \subseteq RelationIds
    BY <1>2, IdsAssumption DEF CerepsoInv, TileInv, TypeInv, TypeOK, RowsTyped, PhasesDone,
          PastRelations
  <1>4. \A m \in m_missing_relations : m <= id => m <= cursor \/ m = id
    BY <1>1, <1>3 DEF IsNext
  <1>5. /\ TileInv'
        /\ \A p : Got(p) => Got(p)'
        /\ id \in db.relations => Got(<<relation, id>>)'
        /\ \A r : Got(<<relation, r>>)' => Got(<<relation, r>>) \/ r = id
    <2>1. CASE id \in db.relations
      <3>1. Welcome(<<relation, id>>)
        BY <1>3, <2>1, StoredObjects DEF Collection, MissingAsked, Welcome
      <3>2. Added(<<relation, id>>)
        BY <1>1, <1>2, <1>3, <2>1, <3>1, AddRelationAdds
      <3>3. TileInv'
        BY <1>1, <1>2, <1>3, <3>2, ObjectAdded DEF CerepsoInv, Calls
      <3> QED
        BY <3>2, <3>3 DEF Added
    <2>2. CASE id \notin db.relations
      <3>1. UNCHANGED collected
        BY <1>1, <2>2
      <3>2. TileInv'
        BY <1>1, <1>2, <1>3, <3>1, CallGoesOn DEF CerepsoInv, Calls
      <3> QED
        BY <2>2, <3>1, <3>2 DEF collected, Got
    <2> QED
      BY <2>1, <2>2
  <1>6. Reading'
    <2> SUFFICES ASSUME config.recurse_relations, NEW m \in Owed, m <= id
                 PROVE  Got(<<relation, m>>)'
      BY <1>1, <1>2 DEF Reading, Owed, Inside, Stored, Located
    <2>1. m \in m_missing_relations /\ m \in db.relations
      BY <1>3, OwedNoted
    <2>2. m <= cursor => Got(<<relation, m>>)
      BY <1>2 DEF CerepsoInv, Reading
    <2> QED
      BY <1>4, <1>5, <2>1, <2>2
  <1>7. GreaterGot'
    <2> SUFFICES ASSUME config.recurse_relations, NEW r \in RelationIds,
                        Got(<<relation, r>>)',
                        NEW m \in IdsOf(relation, db.members[r] \intersect Stored(db)),
                        m > r, m <= id
                 PROVE  Got(<<relation, m>>)'
      BY <1>1, <1>2 DEF GreaterGot, Stored, Located
    <2>1. <<relation, m>> \in db.members[r] /\ m \in db.relations /\ m \in RelationIds
      <3>1. db.members[r] \intersect Stored(db) \in SUBSET Object
        BY <1>3, StoredObjects
      <3> QED
        BY <1>3, <3>1, IdsOfObjects, StoredObjects
    <2>2. Got(<<relation, r>>)
      BY <1>3, <1>5, <2>1, IdsAssumption
    <2>3. m \in m_missing_relations
      BY <1>3, <2>1, <2>2 DEF Collection, MembersAccounted, IsFollowed
    <2>4. m <= cursor => Got(<<relation, m>>)
      BY <1>2, <2>2 DEF CerepsoInv, GreaterGot
    <2> QED
      BY <1>4, <1>5, <2>1, <2>3, <2>4
  <1> QED
    BY <1>2, <1>5, <1>6, <1>7, FollowedAlone DEF CerepsoInv

(* A round of the loop over the missing ways.                              *)
LEMMA WayFetched ==
    ASSUME CerepsoInv, GetMissingWay
    PROVE  CerepsoInv'
  <1>1. PICK id \in m_missing_ways :
            /\ IsNext(id, m_missing_ways)
            /\ cursor' = id
            /\ IF id \in db.ways THEN add_way(id) ELSE UNCHANGED collected
    BY DEF GetMissingWay, Round
  <1>2. /\ call = "get_missing_ways"
        /\ UNCHANGED <<input, tiles, call, fetched, rows, output>>
        /\ UNCHANGED <<db, config, tile, file_state, file_content>>
    BY DEF GetMissingWay, Round, input, tiles, output
  <1>3. /\ TypeOK /\ Collection /\ db \in Database
        /\ id \in WayIds /\ id \in Nat /\ m_missing_ways \subseteq Nat
        /\ cursor \in Nat /\ fetched \in BOOLEAN /\ rows \subseteq WayIds
    BY <1>2, IdsAssumption DEF CerepsoInv, TileInv, TypeInv, TypeOK, RowsTyped
  <1>4. \A w \in m_missing_ways : w <= id => w <= cursor \/ w = id
    BY <1>1, <1>3 DEF IsNext
  <1>5. /\ TileInv' /\ m_missing_ways' = m_missing_ways
        /\ \A p : Got(p) => Got(p)'
        /\ id \in db.ways => Got(<<way, id>>)'
        /\ \A r : Got(<<relation, r>>)' <=> Got(<<relation, r>>)
    <2>1. CASE id \in db.ways
      <3>1. Welcome(<<way, id>>)
        BY <1>3, <2>1, StoredObjects DEF Collection, MissingAsked, Welcome
      <3>2. Added(<<way, id>>)
        BY <1>1, <1>2, <1>3, <2>1, <3>1, AddWayAdds
      <3>3. TileInv'
        BY <1>1, <1>2, <1>3, <3>2, ObjectAdded DEF CerepsoInv, Calls
      <3> QED
        BY <3>2, <3>3, TypesDiffer DEF Added
    <2>2. CASE id \notin db.ways
      <3>1. UNCHANGED collected
        BY <1>1, <2>2
      <3>2. TileInv'
        BY <1>1, <1>2, <1>3, <3>1, CallGoesOn DEF CerepsoInv, Calls
      <3> QED
        BY <2>2, <3>1, <3>2 DEF collected, missing, Got
    <2> QED
      BY <2>1, <2>2
  <1>6. Reading'
    BY <1>1, <1>2, <1>4, <1>5 DEF CerepsoInv, Reading
  <1>7. GreaterGot'
    BY <1>2, <1>5, GreaterKept DEF CerepsoInv
  <1> QED
    BY <1>2, <1>5, <1>6, <1>7, FollowedAlone DEF CerepsoInv

(* A call that returns has done what it owes.                              *)
LEMMA CallsDone ==
    ASSUME CerepsoInv, CallReturns
    PROVE  call \in Calls /\ CallDone
  <1>1. /\ call \in Calls
        /\ call \in {"get_nodes_inside", "get_ways_inside", "get_relations_inside"}
            => fetched /\ rows = {}
        /\ call = "get_missing_relations" => Exhausted(m_missing_relations)
        /\ call = "get_missing_ways" => Exhausted(m_missing_ways)
        /\ call = "get_missing_nodes" => Exhausted(m_missing_nodes)
    BY DEF CallReturns, ResultsParsed, Calls
  <1>2. /\ call = "get_nodes_inside" => InsideGot(node)
        /\ call = "get_missing_nodes" => NodesFetched
    BY <1>1, NodesDone DEF CerepsoInv
  <1>3. /\ call = "get_ways_inside" => InsideGot(way)
        /\ call = "get_relations_inside" => InsideGot(relation)
        /\ call = "get_missing_ways" => WaysFetched
    BY <1>1 DEF CerepsoInv, Reading, InsideGot, WaysFetched, Exhausted
  <1>4. ASSUME call = "get_missing_relations" PROVE OwedGot
    <2>1. TypeOK /\ Collection /\ InsideGot(relation)
      BY <1>4 DEF CerepsoInv, TileInv, TypeInv, PhasesDone, PastRelations
    <2> QED
      BY <1>1, <1>4, <2>1, OwedNoted DEF CerepsoInv, Reading, OwedGot, Exhausted
  <1> QED
    BY <1>1, <1>2, <1>3, <1>4 DEF CallDone

(* The next call begins.                                                   *)
LEMMA CallEnds ==
    ASSUME CerepsoInv, CallReturns
    PROVE  CerepsoInv'
  <1>1. /\ UNCHANGED <<db, config, tile, collected, file_state, file_content>>
        /\ call' = CallAfter(call) /\ ~fetched' /\ rows' = {} /\ cursor' = 0
    BY DEF CallReturns, Return, input, tiles, output
  <1>2. TileInv' /\ call \in Calls
    BY CallsDone, CallReturned DEF CerepsoInv, CallReturns
  <1>3. Reading'
    <2>1. /\ \A m \in Owed' : ~(m <= 0)
          /\ \A w \in m_missing_ways' : ~(w <= 0)
      BY <1>2, IdsAssumption DEF TileInv, TypeInv, TypeOK, Database, Owed
    <2> QED
      BY <1>1, <2>1 DEF Reading
  <1>4. GreaterGot'
    <2> SUFFICES ASSUME call' \in {"get_missing_relations"} \union PastMissingRelations,
                        config.recurse_relations, NEW r \in RelationIds,
                        Got(<<relation, r>>),
                        NEW m \in IdsOf(relation, db.members[r] \intersect Stored(db)),
                        m > r, call' = "get_missing_relations" => m <= 0
                 PROVE  Got(<<relation, m>>)
      BY <1>1 DEF GreaterGot, Stored, Located, Got, collected
    <2>1. TypeOK /\ Collection /\ db \in Database
      BY DEF CerepsoInv, TileInv, TypeInv, TypeOK
    <2>2. <<relation, m>> \in db.members[r] /\ m \in RelationIds
      <3>1. db.members[r] \intersect Stored(db) \in SUBSET Object
        BY <2>1, StoredObjects
      <3> QED
        BY <3>1, IdsOfObjects
    <2>3. call \in {"get_missing_relations"} \union PastMissingRelations
      BY <1>1, <1>2, <2>2, IdsAssumption, CallOrder
         DEF Calls, PastMissingRelations, PastMissingWays, PastMissingNodes
    <2>4. m \in m_missing_relations
      BY <2>1, <2>2 DEF Collection, MembersAccounted, IsFollowed
    <2>5. call = "get_missing_relations" => m <= cursor
      BY <2>4 DEF CallReturns, ResultsParsed, Exhausted
    <2> QED
      BY <2>3, <2>5 DEF CerepsoInv, GreaterGot
  <1> QED
    BY <1>1, <1>2, <1>3, <1>4, FollowedAlone DEF CerepsoInv

-----------------------------------------------------------------------------
(* The invariant holds before the first tile ...                           *)
LEMMA CerepsoInit == Init => CerepsoInv
  BY TileInit DEF Init, CerepsoInv, Reading, GreaterGot, GreaterRelationsFollowed, IsWritten,
       PastMissingRelations, PastMissingWays, PastMissingNodes

(* ... and every step keeps it.                                            *)
LEMMA CerepsoStep == CerepsoInv /\ [Next]_vars => CerepsoInv'
  BY OtherSteps, InsideSelected, InsideParsed, RelationFetched, WayFetched, CallEnds
     DEF Next, Proceed

(* The invariant of every run, for any ids, databases and options.         *)
LEMMA CerepsoInvariant == Spec => []CerepsoInv
  BY CerepsoInit, CerepsoStep, PTL DEF Spec

(* Every reachable state is well typed.                                    *)
THEOREM TypeCorrect == Spec => []TypeOK
  <1>1. CerepsoInv => TypeOK
    BY FilesOfTheInvariant DEF CerepsoInv
  <1> QED
    BY CerepsoInvariant, <1>1, PTL

(* Whatever the database holds, the order of its rows and the failures of  *)
(* the index: no written tile has a way without a node that is known.      *)
THEOREM WaysAlwaysHaveTheirNodes == Spec => []WaysHaveTheirNodes
  <1>1. CerepsoInv => WaysHaveTheirNodes
    BY FilesOfTheInvariant DEF CerepsoInv
  <1> QED
    BY CerepsoInvariant, <1>1, PTL

(* The three loops over missing objects come in an order in which each     *)
(* leaves nothing to an earlier one: the relations of a written tile have  *)
(* the stored members the options ask for.                                 *)
THEOREM RelationsAlwaysHaveTheirMembers == Spec => []RelationsHaveTheirMembers
  <1>1. CerepsoInv => RelationsHaveTheirMembers
    BY FilesOfTheInvariant DEF CerepsoInv
  <1> QED
    BY CerepsoInvariant, <1>1, PTL

(* clear() resets all a tile collects, and every id noted as missing is    *)
(* one an object of this tile refers to: nothing is written without a      *)
(* reason.                                                                 *)
THEOREM NothingUnaskedWritten == Spec => []NothingUnasked
  <1>1. CerepsoInv => NothingUnasked
    BY FilesOfTheInvariant DEF CerepsoInv
  <1> QED
    BY CerepsoInvariant, <1>1, PTL

(* Sorting and std::unique_copy give each file in order and without        *)
(* repeated objects, however often the calls commit one.                   *)
THEOREM FilesAlwaysOrdered == Spec => []FilesOrdered
  <1>1. CerepsoInv => FilesOrdered
    BY FilesOfTheInvariant DEF CerepsoInv
  <1> QED
    BY CerepsoInvariant, <1>1, PTL

(* The loop whose body extends the set it walks over: members with greater *)
(* ids than the relation that refers to them are never left out.           *)
THEOREM GreaterRelationsAlwaysFollowed == Spec => []GreaterRelationsFollowed
  <1>1. CerepsoInv => GreaterRelationsFollowed
    BY DEF CerepsoInv
  <1> QED
    BY CerepsoInvariant, <1>1, PTL

(* A step of a run is a step of the promise, or none.                      *)
LEMMA PromiseStep ==
    CerepsoInv /\ [Next]_vars => [Promise!Next]_<<db, config, Remaining, Published>>
  <1> SUFFICES ASSUME CerepsoInv, [Next]_vars
               PROVE  [Promise!Next]_<<db, config, Remaining, Published>>
    OBVIOUS
  <1>1. CASE \/ GetWaysInside \/ WayRow \/ GetRelationsInside \/ RelationRow
             \/ GetMissingRelation \/ GetMissingWay
    <2>1. /\ UNCHANGED <<db, config, todo, tile, file_state, file_content>>
          /\ call # "next_tile" /\ call' # "next_tile"
      BY <1>1 DEF GetWaysInside, WayRow, GetRelationsInside, RelationRow, GetMissingRelation,
            GetMissingWay, Select, Row, Round, input, tiles, output
    <2> QED
      BY <2>1, PromiseStutters
  <1>2. CASE CallReturns
    <2>1. /\ UNCHANGED <<db, config, todo, tile, file_state, file_content>>
          /\ call' = CallAfter(call) /\ call \in Calls
      BY <1>2, CallsDone DEF CallReturns, Return, input, tiles, output
    <2>2. call # "next_tile" /\ call' # "next_tile"
      BY <2>1 DEF CallAfter, Calls
    <2> QED
      BY <2>1, <2>2, PromiseStutters
  <1>3. CASE QueryFails
    <2>1. /\ UNCHANGED <<db, config, todo, tile, file_state, file_content>>
          /\ call # "next_tile" /\ call' # "next_tile"
      BY <1>3 DEF QueryFails, Terminate, Calls, input, tiles, output
    <2> QED
      BY <2>1, PromiseStutters
  <1> QED
    BY <1>1, <1>2, <1>3, PromiseShared DEF Next, Proceed, CerepsoInv

(* Each tile of the list is published in its turn, at once and with an     *)
(* acceptable content, or the run ends before it: the calls, the loops and *)
(* the file implement the promise TileContents.                            *)
THEOREM ImplementsPromise == Spec => KeepsPromise
  BY CerepsoInvariant, PromiseInit, PromiseStep, PTL DEF Spec, KeepsPromise, Promise!Spec

-----------------------------------------------------------------------------
(***************************************************************************)
(* What the generator does while an importer changes the database: its     *)
(* queries make up the rounds of CerepsoDataAccess as long as nothing is   *)
(* imported, and what it writes has been there whatever is imported.       *)
(***************************************************************************)

(* The members read so far are those of the types asked for.               *)
MembersRead ==
    /\ query = [id |-> query.id, asked |-> query.asked, members |-> query.members]
    /\ query.asked \in 0..2
    /\ query.id \in RelationIds
    /\ query.members = {m \in db.members[query.id] : m[1] <= query.asked}

(* While nothing is imported, a row in work is one the database still has, *)
(* and the iterator is still in front of it.                               *)
RowInWork ==
    /\ call = "get_missing_ways" =>
        query.id \in m_missing_ways /\ IsNext(query.id, m_missing_ways) /\ query.id \in db.ways
    /\ call = "get_missing_relations" =>
        /\ query.id \in m_missing_relations /\ IsNext(query.id, m_missing_relations)
        /\ query.id \in db.relations
        /\ MembersRead
    /\ call = "get_relations_inside" => query.id \in rows /\ MembersRead
    /\ call = "get_missing_nodes" =>
        /\ query.id \in m_missing_nodes /\ IsNext(query.id, m_missing_nodes)
        /\ query.id \notin FirstStore

QueryInv ==
    /\ updates \in Nat /\ db \in Databases
    /\ call = "get_relations_inside" => rows \subseteq RelationIds
    /\ updates = 0 /\ ~Idle => RowInWork

(* What a database of the instance is.                                     *)
LEMMA DatabaseTyped ==
    ASSUME QueryInv
    PROVE  /\ db \in Database
           /\ db.relations \subseteq RelationIds
           /\ \A r \in RelationIds : db.members[r] \subseteq Object
           /\ IdsOf(relation, Inside(db, tile)) \subseteq RelationIds
  <1>1. db \in Database
    BY InputsAssumption DEF QueryInv
  <1>2. db.relations \subseteq RelationIds
    BY <1>1 DEF Database
  <1>3. \A r \in RelationIds : db.members[r] \subseteq Object
    BY <1>1 DEF Database
  <1>4. Inside(db, tile) \subseteq Stored(db)
    BY DEF Inside
  <1>5. IdsOf(relation, Stored(db)) \subseteq db.relations
    BY DEF IdsOf, Stored, node, way, relation
  <1>6. IdsOf(relation, Inside(db, tile)) \subseteq RelationIds
    BY <1>2, <1>4, <1>5 DEF IdsOf
  <1> QED
    BY <1>1, <1>2, <1>3, <1>6

(* The type of a member is one of three numbers.                           *)
LEMMA MemberTypes ==
    ASSUME NEW S \in SUBSET Object
    PROVE  \A m \in S : m[1] \in {1, 2, 3}
  BY DEF Object, node, way, relation

(* At first no member has been read ...                                    *)
LEMMA NoneRead ==
    ASSUME NEW S \in SUBSET Object
    PROVE  {m \in S : m[1] <= 0} = {}
  BY MemberTypes

(* ... each query adds those of its type ...                               *)
LEMMA OneTypeMore ==
    ASSUME NEW S \in SUBSET Object, NEW k \in 0..2
    PROVE  {m \in S : m[1] <= k} \union {m \in S : m[1] = k + 1} = {m \in S : m[1] <= k + 1}
  BY MemberTypes

(* ... and after the third all are there.                                  *)
LEMMA AllRead ==
    ASSUME NEW S \in SUBSET Object
    PROVE  {m \in S : m[1] <= 2} \union {m \in S : m[1] = 3} = S
  BY MemberTypes

(* Before the first tile nothing is in work.                               *)
LEMMA QueryInit == UpdatedInit => QueryInv
  BY DEF UpdatedInit, Init, QueryInv, Idle

(* A row taken up for a relation has no member yet.                        *)
LEMMA FirstOfRelation ==
    ASSUME QueryInv, NEW r \in RelationIds, query' = [NoQuery EXCEPT !.id = r], UNCHANGED db
    PROVE  MembersRead' /\ query'.id = r
  <1>1. query' = [id |-> r, asked |-> 0, members |-> {}]
    BY DEF NoQuery
  <1>2. query'.id = r /\ query'.asked = 0 /\ query'.members = {}
    BY <1>1
  <1>3. {m \in db.members[r] : m[1] <= 0} = {}
    BY DatabaseTyped, NoneRead
  <1>4. query' = [id |-> query'.id, asked |-> query'.asked, members |-> query'.members]
    BY <1>1, <1>2
  <1> QED
    BY <1>2, <1>3, <1>4 DEF MembersRead

(* What changes neither the database, the call, the row in work, nor what  *)
(* is looped over leaves the invariant alone.                              *)
LEMMA NothingAsked ==
    ASSUME QueryInv,
           UNCHANGED <<db, config, call, query, updates, rows, cursor, missing>>
    PROVE  QueryInv'
  BY DEF QueryInv, Idle, RowInWork, MembersRead, IsNext, missing, FirstStore

(* Without a row in work only the rows of the relations matter.            *)
LEMMA NothingInWork ==
    ASSUME db' \in Databases, updates' \in Nat, Idle',
           call' = "get_relations_inside" => rows' \subseteq RelationIds
    PROVE  QueryInv'
  BY DEF QueryInv

(* Every step of the generator or the importer keeps the invariant.        *)
LEMMA QueryStep == QueryInv /\ [UpdatedNext]_updatedVars => QueryInv'
  <1> SUFFICES ASSUME QueryInv, [UpdatedNext]_updatedVars PROVE QueryInv'
    OBVIOUS
  <1>0. db \in Databases /\ updates \in Nat
    BY DEF QueryInv
  <1>1. CASE Import
    <2>1. db' \in Databases /\ updates' \in Nat /\ updates' # 0
      BY <1>0, <1>1 DEF Import
    <2>2. call' = "get_relations_inside" => rows' \subseteq RelationIds
      BY <1>1 DEF Import, QueryInv, reading
    <2> QED
      BY <2>1, <2>2 DEF QueryInv
  <1>2. CASE BeginTile
    <2>1. db' = db /\ updates' = updates /\ call' = "get_nodes_inside"
      BY <1>2 DEF BeginTile, NextTile, input
    <2> QED
      BY <1>0, <2>1 DEF QueryInv, RowInWork
  <1>3. CASE OneQuery
    <2>1. Idle' /\ updates' = updates
      BY <1>3 DEF OneQuery, Idle, history
    <2>2. CASE GetNodesInside \/ NodeRow \/ GetWaysInside
      <3>1. db' = db /\ call' = call /\ call # "get_relations_inside"
        BY <2>2 DEF GetNodesInside, NodeRow, GetWaysInside, Select, Row, input
      <3> QED
        BY <1>0, <2>1, <3>1, NothingInWork
    <2>3. CASE GetRelationsInside
      <3>1. db' = db /\ rows' \subseteq RelationIds
        BY <2>3, DatabaseTyped DEF GetRelationsInside, Select, input
      <3> QED
        BY <1>0, <2>1, <3>1, NothingInWork
    <2>4. CASE CallReturns
      <3>1. db' = db /\ rows' = {}
        BY <2>4 DEF CallReturns, Return, input
      <3> QED
        BY <1>0, <2>1, <3>1, NothingInWork
    <2>5. CASE WriteFile
      <3>1. db' = db /\ call' # "get_relations_inside"
        BY <2>5 DEF WriteFile, OpenFile, FileExists, Terminate, WriteObject, CloseFile, input
      <3> QED
        BY <1>0, <2>1, <3>1, NothingInWork
    <2> QED
      BY <1>3, <2>2, <2>3, <2>4, <2>5 DEF OneQuery
  <1>4. CASE ReadWay
    <2>1. db' = db /\ call' = call /\ call # "get_relations_inside" /\ updates' = updates /\ Idle'
      BY <1>4 DEF ReadWay, WayRow, Row, input, Idle
    <2> QED
      BY <1>0, <2>1, NothingInWork
  <1>5. CASE AskWay
    <2>1. db' = db /\ call' = call /\ call = "get_missing_ways" /\ updates' = updates /\ Idle
      BY <1>5 DEF AskWay, Ask, input, history
    <2>2. PICK id \in m_missing_ways :
            /\ IsNext(id, m_missing_ways)
            /\ IF id \in db.ways
               THEN query' = [NoQuery EXCEPT !.id = id] /\ UNCHANGED cursor
               ELSE cursor' = id /\ UNCHANGED query
      BY <1>5 DEF AskWay, Ask
    <2>3. CASE id \notin db.ways
      BY <1>0, <2>1, <2>2, <2>3, NothingInWork DEF Idle
    <2>4. CASE id \in db.ways
      <3>1. query'.id = id /\ m_missing_ways' = m_missing_ways /\ cursor' = cursor
        BY <1>5, <2>2, <2>4 DEF NoQuery, AskWay, Ask, collected, missing
      <3>2. RowInWork'
        BY <2>1, <2>2, <2>4, <3>1 DEF RowInWork, IsNext
      <3> QED
        BY <1>0, <2>1, <3>2 DEF QueryInv
    <2> QED
      BY <2>3, <2>4
  <1>6. CASE FinishWay
    <2>1. db' = db /\ call' = call /\ call # "get_relations_inside" /\ updates' = updates /\ Idle'
      BY <1>6 DEF FinishWay, input, Idle
    <2> QED
      BY <1>0, <2>1, NothingInWork
  <1>7. CASE TakeRelation
    <2>1. PICK r \in rows : query' = [NoQuery EXCEPT !.id = r]
      BY <1>7 DEF TakeRelation
    <2>2. /\ db' = db /\ call' = call /\ call = "get_relations_inside" /\ rows' = rows
          /\ updates' = updates
      BY <1>7 DEF TakeRelation, vars, input, reading, history
    <2>3. r \in RelationIds /\ rows \subseteq RelationIds
      BY <2>1, <2>2 DEF QueryInv
    <2>4. MembersRead' /\ query'.id = r
      BY <2>1, <2>2, <2>3, FirstOfRelation
    <2>5. RowInWork'
      BY <2>1, <2>2, <2>4 DEF RowInWork
    <2> QED
      BY <1>0, <2>2, <2>3, <2>5 DEF QueryInv
  <1>8. CASE AskRelation
    <2>1. db' = db /\ call' = call /\ call = "get_missing_relations" /\ updates' = updates /\ Idle
      BY <1>8 DEF AskRelation, Ask, input, history
    <2>2. PICK id \in m_missing_relations :
            /\ IsNext(id, m_missing_relations)
            /\ IF id \in db.relations
               THEN query' = [NoQuery EXCEPT !.id = id] /\ UNCHANGED cursor
               ELSE cursor' = id /\ UNCHANGED query
      BY <1>8 DEF AskRelation, Ask
    <2>3. CASE id \notin db.relations
      BY <1>0, <2>1, <2>2, <2>3, NothingInWork DEF Idle
    <2>4. CASE id \in db.relations
      <3>1. m_missing_relations' = m_missing_relations /\ cursor' = cursor
        BY <1>8, <2>2, <2>4 DEF AskRelation, Ask, collected, missing
      <3>2. MembersRead' /\ query'.id = id
        BY <2>1, <2>2, <2>4, DatabaseTyped, FirstOfRelation
      <3>3. RowInWork'
        BY <2>1, <2>2, <2>4, <3>1, <3>2 DEF RowInWork, IsNext
      <3> QED
        BY <1>0, <2>1, <3>3 DEF QueryInv
    <2> QED
      BY <2>3, <2>4
  <1>9. CASE AskMembers
    <2>1. /\ UNCHANGED <<db, config, call, rows, cursor, missing, updates>>
          /\ call \in {"get_relations_inside", "get_missing_relations"} /\ ~Idle
          /\ query.asked < 2
          /\ query' = [query EXCEPT !.asked = @ + 1,
                              !.members = @ \union MembersOfType(query.id, query.asked + 1)]
      BY <1>9 DEF AskMembers, vars, input, reading, collected, history
    <2>2. CASE updates # 0
      BY <1>0, <2>1, <2>2 DEF QueryInv
    <2>3. CASE updates = 0
      <3>1. RowInWork /\ MembersRead
        BY <2>1, <2>3 DEF QueryInv, RowInWork
      <3>2. /\ query'.id = query.id /\ query'.asked = query.asked + 1
            /\ query'.members = query.members \union MembersOfType(query.id, query.asked + 1)
        BY <2>1, <3>1 DEF MembersRead
      <3>3. query.asked \in 0..2 /\ query.asked + 1 \in 0..2 /\ query.id \in RelationIds
        BY <2>1, <3>1 DEF MembersRead
      <3>4. query'.members = {m \in db.members[query.id] : m[1] <= query.asked + 1}
        BY <3>1, <3>2, <3>3, DatabaseTyped, OneTypeMore DEF MembersRead, MembersOfType
      <3>5. query' = [id |-> query'.id, asked |-> query'.asked, members |-> query'.members]
        BY <2>1, <3>1, <3>2 DEF MembersRead
      <3>7. MembersRead'
        BY <2>1, <3>2, <3>3, <3>4, <3>5 DEF MembersRead
      <3>6. RowInWork'
        BY <2>1, <3>1, <3>2, <3>7 DEF RowInWork, IsNext, missing
      <3> QED
        BY <1>0, <2>1, <3>6 DEF QueryInv
    <2> QED
      BY <1>0, <2>2, <2>3
  <1>10. CASE FinishRelation
    <2>1. /\ db' = db /\ call' = call /\ updates' = updates /\ Idle'
          /\ call = "get_relations_inside" => rows' = rows \ {query.id}
      BY <1>10 DEF FinishRelation, input, Idle
    <2> QED
      BY <1>0, <2>1, NothingInWork DEF QueryInv
  <1>11. CASE AskFirstStore
    <2>1. db' = db /\ call' = call /\ call = "get_missing_nodes" /\ updates' = updates
            /\ config' = config
      BY <1>11 DEF AskFirstStore, FoundNode, vars, input, history
    <2>2. PICK n \in m_missing_nodes :
            /\ IsNext(n, m_missing_nodes)
            /\ \/ n \in FirstStore /\ FoundNode(n)
               \/ /\ n \notin FirstStore
                  /\ query' = [NoQuery EXCEPT !.id = n]
                  /\ UNCHANGED <<vars, history>>
      BY <1>11 DEF AskFirstStore
    <2>3. CASE FoundNode(n)
      BY <1>0, <2>1, <2>3, NothingInWork DEF FoundNode, Idle
    <2>4. CASE n \notin FirstStore /\ query' = [NoQuery EXCEPT !.id = n]
                 /\ UNCHANGED <<vars, history>>
      <3>1. query'.id = n /\ UNCHANGED <<m_missing_nodes, cursor>>
        BY <2>4 DEF NoQuery, vars, collected, missing, reading
      <3>2. RowInWork'
        BY <2>1, <2>2, <2>4, <3>1 DEF RowInWork, IsNext, FirstStore
      <3> QED
        BY <1>0, <2>1, <3>2 DEF QueryInv
    <2> QED
      BY <2>2, <2>3, <2>4
  <1>12. CASE AskSecondStore
    <2>1. db' = db /\ call' # "get_relations_inside" /\ updates' = updates /\ Idle'
      BY <1>12 DEF AskSecondStore, FoundNode, Terminate, input, history, Idle
    <2> QED
      BY <1>0, <2>1, NothingInWork
  <1>13. CASE UNCHANGED updatedVars
    BY <1>13, NothingAsked DEF updatedVars, vars, input, reading, collected, history
  <1>14. CASE OneQueryFails
    <2>1. db' = db /\ call' # "get_relations_inside" /\ updates' = updates /\ Idle'
      BY <1>14 DEF OneQueryFails, QueryFails, Terminate, input, history, Idle
    <2> QED
      BY <1>0, <2>1, NothingInWork
  <1> QED
    BY <1>1, <1>2, <1>3, <1>4, <1>5, <1>6, <1>7, <1>8, <1>9, <1>10, <1>11, <1>12, <1>13,
       <1>14 DEF UpdatedNext, Generate

-----------------------------------------------------------------------------
(* A relation is complete with the third query of its members.             *)
LEMMA RelationComplete ==
    ASSUME QueryInv, FinishRelation, updates = 0
    PROVE  add_relation(query.id)
  <1>1. MembersRead /\ query.asked = 2
    BY DEF QueryInv, RowInWork, FinishRelation
  <1>2. db.members[query.id] \subseteq Object /\ query.id \in RelationIds
    BY <1>1, DatabaseTyped DEF MembersRead
  <1>3. query.members = {m \in db.members[query.id] : m[1] <= 2}
    BY <1>1 DEF MembersRead
  <1>4. query.members \union MembersOfType(query.id, relation) = db.members[query.id]
    BY <1>2, <1>3, AllRead DEF MembersOfType, relation
  <1>5. AddRelation(query.id, query.members \union MembersOfType(query.id, relation))
    BY DEF FinishRelation
  <1> QED
    BY <1>4, <1>5 DEF add_relation

(* While nothing has been imported each step of the generator is one of    *)
(* CerepsoDataAccess or leaves its variables alone.                        *)
LEMMA GenerateRefines ==
    ASSUME QueryInv, Generate, updates = 0
    PROVE  Next \/ UNCHANGED vars
  <1>1. CASE BeginTile
    BY <1>1 DEF BeginTile, Next, Proceed
  <1>2. CASE OneQuery
    BY <1>2 DEF OneQuery, Next, Proceed
  <1>3. CASE ReadWay
    BY <1>3 DEF ReadWay, Next, Proceed
  <1>4. CASE AskWay
    <2>1. PICK id \in m_missing_ways :
            /\ IsNext(id, m_missing_ways)
            /\ IF id \in db.ways
               THEN query' = [NoQuery EXCEPT !.id = id] /\ UNCHANGED cursor
               ELSE cursor' = id /\ UNCHANGED query
      BY <1>4 DEF AskWay, Ask
    <2>2. call = "get_missing_ways"
            /\ UNCHANGED <<input, tiles, call, fetched, rows, collected, output>>
      BY <1>4 DEF AskWay, Ask
    <2>3. CASE id \in db.ways
      BY <2>1, <2>2, <2>3 DEF vars, reading
    <2>4. CASE id \notin db.ways
      <3>1. GetMissingWay
        BY <2>1, <2>2, <2>4 DEF GetMissingWay, Round
      <3> QED
        BY <3>1 DEF Next, Proceed
    <2> QED
      BY <2>3, <2>4
  <1>5. CASE FinishWay
    <2>1. /\ query.id \in m_missing_ways /\ IsNext(query.id, m_missing_ways)
          /\ query.id \in db.ways /\ call = "get_missing_ways"
      BY <1>5 DEF FinishWay, QueryInv, RowInWork
    <2>2. add_way(query.id) /\ cursor' = query.id
            /\ UNCHANGED <<input, tiles, call, fetched, rows, output>>
      BY <1>5 DEF FinishWay, add_way
    <2>3. GetMissingWay
      BY <2>1, <2>2 DEF GetMissingWay, Round
    <2> QED
      BY <2>3 DEF Next, Proceed
  <1>6. CASE TakeRelation
    BY <1>6 DEF TakeRelation
  <1>7. CASE AskRelation
    <2>1. PICK id \in m_missing_relations :
            /\ IsNext(id, m_missing_relations)
            /\ IF id \in db.relations
               THEN query' = [NoQuery EXCEPT !.id = id] /\ UNCHANGED cursor
               ELSE cursor' = id /\ UNCHANGED query
      BY <1>7 DEF AskRelation, Ask
    <2>2. call = "get_missing_relations"
            /\ UNCHANGED <<input, tiles, call, fetched, rows, collected, output>>
      BY <1>7 DEF AskRelation, Ask
    <2>3. CASE id \in db.relations
      BY <2>1, <2>2, <2>3 DEF vars, reading
    <2>4. CASE id \notin db.relations
      <3>1. GetMissingRelation
        BY <2>1, <2>2, <2>4 DEF GetMissingRelation, Round
      <3> QED
        BY <3>1 DEF Next, Proceed
    <2> QED
      BY <2>3, <2>4
  <1>8. CASE AskMembers
    BY <1>8 DEF AskMembers
  <1>9. CASE FinishRelation
    <2>1. add_relation(query.id) /\ UNCHANGED <<input, tiles, call, fetched, output>>
      BY <1>9, RelationComplete DEF FinishRelation
    <2>2. CASE call = "get_relations_inside"
      <3>1. query.id \in rows /\ rows' = rows \ {query.id} /\ UNCHANGED cursor
        BY <1>9, <2>2 DEF FinishRelation, QueryInv, RowInWork
      <3>2. RelationRow
        BY <2>1, <2>2, <3>1 DEF RelationRow, Row
      <3> QED
        BY <3>2 DEF Next, Proceed
    <2>3. CASE call = "get_missing_relations"
      <3>1. /\ query.id \in m_missing_relations /\ IsNext(query.id, m_missing_relations)
            /\ query.id \in db.relations /\ cursor' = query.id /\ UNCHANGED rows
        BY <1>9, <2>3 DEF FinishRelation, QueryInv, RowInWork
      <3>2. GetMissingRelation
        BY <2>1, <2>3, <3>1 DEF GetMissingRelation, Round
      <3> QED
        BY <3>2 DEF Next, Proceed
    <2> QED
      BY <1>9, <2>2, <2>3 DEF FinishRelation
  <1>10. CASE AskFirstStore
    <2>1. PICK n \in m_missing_nodes :
            /\ IsNext(n, m_missing_nodes)
            /\ \/ n \in FirstStore /\ FoundNode(n)
               \/ UNCHANGED vars
      BY <1>10 DEF AskFirstStore
    <2>2. CASE n \in FirstStore /\ FoundNode(n)
      <3>1. n \in Located(db)
        BY <2>2 DEF FirstStore, Located
      <3>2. GetMissingNode
        BY <1>10, <2>1, <2>2, <3>1 DEF GetMissingNode, Round, FoundNode, AskFirstStore
      <3> QED
        BY <3>2 DEF Next, Proceed
    <2> QED
      BY <2>1, <2>2
  <1>11. CASE AskSecondStore
    <2>1. /\ query.id \in m_missing_nodes /\ IsNext(query.id, m_missing_nodes)
          /\ query.id \notin FirstStore /\ call = "get_missing_nodes"
      BY <1>11 DEF AskSecondStore, QueryInv, RowInWork
    <2>2. query.id \in Located(db) <=> query.id \in SecondStore
      BY <2>1 DEF Located, FirstStore, SecondStore
    <2>3. CASE query.id \in SecondStore /\ FoundNode(query.id)
      <3>1. GetMissingNode
        BY <2>1, <2>2, <2>3 DEF GetMissingNode, Round, FoundNode
      <3> QED
        BY <3>1 DEF Next, Proceed
    <2>4. CASE query.id \notin SecondStore /\ cursor' = query.id
                 /\ UNCHANGED <<input, tiles, call, fetched, rows, collected, output>>
      <3>1. GetMissingNode
        BY <2>1, <2>2, <2>4 DEF GetMissingNode, Round
      <3> QED
        BY <3>1 DEF Next, Proceed
    <2>5. CASE query.id \notin SecondStore /\ config.flatnodes /\ Terminate
      <3>1. NotInFlatnodes
        BY <2>1, <2>2, <2>5 DEF NotInFlatnodes
      <3> QED
        BY <3>1 DEF Next, Proceed
    <2> QED
      BY <1>11, <2>3, <2>4, <2>5 DEF AskSecondStore
  <1> QED
    BY <1>1, <1>2, <1>3, <1>4, <1>5, <1>6, <1>7, <1>8, <1>9, <1>10, <1>11 DEF Generate

(* As long as nothing is imported, the generator that sends its queries    *)
(* one by one does what CerepsoDataAccess does in single steps, for any    *)
(* databases, options and lists of tiles.                                  *)
THEOREM QueriesMakeRounds == UpdatedSpec => RoundsAreAtomic
  <1>1. QueryInv /\ [UpdatedNext]_updatedVars => [updates' = 0 => Next \/ UNCHANGED vars]_updatedVars
    <2> SUFFICES ASSUME QueryInv, UpdatedNext, updates' = 0
                 PROVE  Next \/ UNCHANGED vars
      BY DEF updatedVars
    <2>1. CASE Import
      <3>1. updates' # 0
        BY <2>1 DEF Import, QueryInv
      <3> QED
        BY <3>1
    <2>2. CASE Generate
      <3>1. updates' = updates
        BY <2>2 DEF Generate, BeginTile, OneQuery, ReadWay, AskWay, AskRelation, Ask, FinishWay,
                    TakeRelation, AskMembers, FinishRelation, AskFirstStore, AskSecondStore,
                    FoundNode, history
      <3> QED
        BY <2>2, <3>1, GenerateRefines
    <2>3. CASE OneQueryFails
      BY <2>3 DEF OneQueryFails, Next
    <2> QED
      BY <2>1, <2>2, <2>3 DEF UpdatedNext
  <1> QED
    BY QueryInit, QueryStep, <1>1, PTL DEF UpdatedSpec, RoundsAreAtomic

-----------------------------------------------------------------------------
(***************************************************************************)
(* The database changes. TileInv compares all that is collected with one   *)
(* database; what is left of it is said of the states seen since the tile  *)
(* was begun and of what was read in them.                                 *)
(***************************************************************************)

(* Inside the tile all the time, or at some time.                          *)
AlwaysInside(o) == \A d \in seen : o \in Inside(d, tile)
SometimeInside(o) == \E d \in seen : o \in Inside(d, tile)

(* The members or nodes of o that the options follow.                      *)
Follows(o, m) == o[1] = way \/ Recursed(m)

(* Read as part of a collected object, and followed.                       *)
PartOf(m) == \E p \in read : Got(p[1]) /\ m \in p[2] /\ Follows(p[1], m)

WasThere(o) == \E d \in seen : o \in Stored(d) /\ (o \in d.inside[tile] \/ PartOf(o))

ReadTyped ==
    \A p \in read :
        /\ Got(p[1]) /\ p[2] \in SUBSET Object
        /\ p[1][1] = way => p[2] \in SUBSET ({node} \X NodeIds)

(* All that was read of an object is collected or noted.                   *)
PartsNoted ==
    \A p \in read : \A m \in p[2] : Follows(p[1], m) =>
        /\ m[1] = node => Got(m) \/ m[2] \in m_missing_nodes
        /\ m[1] = way => m[2] \in m_missing_ways

(* Nothing is noted that was not read.                                     *)
MissingParts ==
    /\ \A n \in m_missing_nodes : PartOf(<<node, n>>)
    /\ \A w \in m_missing_ways : PartOf(<<way, w>>)
    /\ \A r \in m_missing_relations : PartOf(<<relation, r>>)

GotThere == \A o \in Object : Got(o) => WasThere(o)

Gathered ==
    /\ m_ways_got = {} /\ m_relations_got = {}
    /\ IndexSound /\ ReadTyped /\ PartsNoted /\ MissingParts /\ GotThere

(* Within a tile the present state is one of those seen.                   *)
SeenSound ==
    /\ seen \subseteq Databases /\ db \in Databases
    /\ call # "next_tile" => db \in seen

QueryTyped == query \in [id : Nat, asked : Nat, members : SUBSET Object]

(* A row in work was in the database when it was asked for, and the        *)
(* iterator is still in front of it; a node was not in the first store.    *)
InWork ==
    ~Idle =>
        /\ call = "get_missing_ways" =>
            /\ query.id \in m_missing_ways /\ IsNext(query.id, m_missing_ways)
            /\ \E d \in seen : query.id \in d.ways
        /\ call = "get_missing_relations" =>
            /\ query.id \in m_missing_relations
            /\ \E d \in seen : query.id \in d.relations
        /\ call = "get_relations_inside" => query.id \in rows
        /\ call = "get_missing_nodes" =>
            /\ query.id \in m_missing_nodes /\ IsNext(query.id, m_missing_nodes)
            /\ \E d \in seen :
                    query.id \notin (IF config.flatnodes THEN d.points ELSE d.untagged)

(* What the calls have done on their way ...                               *)
AlwaysGot(type) == \A id \in Nat : AlwaysInside(<<type, id>>) => Got(<<type, id>>)

RowsOf(type) ==
    /\ \A id \in rows : SometimeInside(<<type, id>>)
    /\ fetched => \A id \in Nat : AlwaysInside(<<type, id>>) => Got(<<type, id>>) \/ id \in rows

WaysWalked == \A w \in m_missing_ways : w <= cursor /\ Stays(<<way, w>>) => Got(<<way, w>>)
NodesWalked == \A n \in m_missing_nodes : n <= cursor /\ Stays(<<node, n>>) => Got(<<node, n>>)

Walking ==
    /\ call = "get_nodes_inside" => RowsOf(node)
    /\ call = "get_ways_inside" => RowsOf(way)
    /\ call = "get_relations_inside" => RowsOf(relation)
    /\ call = "get_missing_ways" => WaysWalked
    /\ call = "get_missing_nodes" => NodesWalked

(* ... and at their end.                                                   *)
StayingWaysGot == \A w \in m_missing_ways : Stays(<<way, w>>) => Got(<<way, w>>)
StayingNodesGot == \A n \in m_missing_nodes : Stays(<<node, n>>) => Got(<<node, n>>)

Walked ==
    /\ call \in PastNodes \/ Ready => AlwaysGot(node)
    /\ call \in PastWays \/ Ready => AlwaysGot(way)
    /\ call \in PastRelations \/ Ready => AlwaysGot(relation)
    /\ call \in PastMissingWays \/ Ready => StayingWaysGot
    /\ call \in PastMissingNodes \/ Ready => StayingNodesGot

ReadyContent == Ready => \A o : o \in Content(tile) <=> Got(o)

ImportInv ==
    /\ TypeInv /\ SeenSound /\ QueryTyped
    /\ Gathered /\ InWork /\ Walking /\ Walked
    /\ FileIsBuffer /\ ReadyContent

-----------------------------------------------------------------------------
(* The options and stores by the type of an object.                        *)
LEMMA ByType ==
    /\ \A n : Recursed(<<node, n>>) <=> config.recurse_nodes
    /\ \A w : Recursed(<<way, w>>) <=> config.recurse_ways
    /\ \A r : Recursed(<<relation, r>>) <=> config.recurse_relations
    /\ \A n : Stays(<<node, n>>) <=> \/ \A d \in seen : n \in d.points
                                    \/ \A d \in seen : n \in d.untagged
    /\ \A w : Stays(<<way, w>>) <=> \A d \in seen : w \in d.ways
  BY TypesDiffer DEF Recursed, Stays

(* More states seen: less stays and less is always inside, more was there. *)
LEMMA MoreSeen ==
    ASSUME seen \subseteq seen', UNCHANGED tile
    PROVE  /\ \A o : Stays(o)' => Stays(o)
           /\ \A o : AlwaysInside(o)' => AlwaysInside(o)
           /\ \A o : SometimeInside(o) => SometimeInside(o)'
  <1>1. \A d : Inside(d, tile)' = Inside(d, tile)
    BY DEF Inside
  <1>2. \A o : AlwaysInside(o)' => AlwaysInside(o)
    BY <1>1 DEF AlwaysInside
  <1>3. \A o : SometimeInside(o) => SometimeInside(o)'
    BY <1>1 DEF SometimeInside
  <1>4. \A o : Stays(o)' => Stays(o)
    BY TypesDiffer DEF Stays
  <1> QED
    BY <1>2, <1>3, <1>4

(* More read and collected: what was there has been there.                 *)
LEMMA MoreRead ==
    ASSUME seen \subseteq seen', read \subseteq read', UNCHANGED <<config, tile>>,
           \A o : Got(o) => Got(o)'
    PROVE  /\ \A o : PartOf(o) => PartOf(o)'
           /\ \A o : WasThere(o) => WasThere(o)'
  <1>1. \A o, m : Follows(o, m)' <=> Follows(o, m)
    BY DEF Follows, Recursed
  <1>2. \A o : PartOf(o) => PartOf(o)'
    BY <1>1 DEF PartOf
  <1> QED
    BY <1>2 DEF WasThere

(* What is inside the tile at some time is stored then.                    *)
LEMMA InsideThere ==
    ASSUME NEW o, SometimeInside(o)
    PROVE  WasThere(o)
  BY DEF SometimeInside, WasThere, Inside

(* Objects of one type in the answer of a spatial query.                   *)
LEMMA InsideNow ==
    ASSUME TypeInv
    PROVE  /\ \A id : id \in IdsOf(node, Inside(db, tile)) <=> <<node, id>> \in Inside(db, tile)
           /\ \A id : id \in IdsOf(way, Inside(db, tile)) <=> <<way, id>> \in Inside(db, tile)
           /\ \A id : id \in IdsOf(relation, Inside(db, tile))
                    <=> <<relation, id>> \in Inside(db, tile)
           /\ IdsOf(node, Inside(db, tile)) \subseteq NodeIds
           /\ IdsOf(way, Inside(db, tile)) \subseteq WayIds
           /\ IdsOf(relation, Inside(db, tile)) \subseteq RelationIds
  BY InsideObjects, IdsOfObjects DEF TypeInv

-----------------------------------------------------------------------------
(* The object o has been committed, and S was read as its parts.           *)
Noted(o, S) ==
    /\ CollectedOK' /\ DOMAIN m_buffer \subseteq DOMAIN m_buffer'
    /\ IndexSound' /\ m_ways_got' = {} /\ m_relations_got' = {}
    /\ \A p : Got(p)' <=> Got(p) \/ p = o
    /\ m_missing_nodes \subseteq m_missing_nodes' /\ m_missing_ways \subseteq m_missing_ways'
    /\ \A n \in m_missing_nodes' \ m_missing_nodes : <<node, n>> \in S /\ Follows(o, <<node, n>>)
    /\ \A w \in m_missing_ways' \ m_missing_ways : <<way, w>> \in S /\ Follows(o, <<way, w>>)
    /\ \A r \in m_missing_relations' \ m_missing_relations :
            <<relation, r>> \in S /\ Follows(o, <<relation, r>>)
    /\ \A m \in S : Follows(o, m) =>
        /\ m[1] = node => Got(m) \/ m[2] \in m_missing_nodes'
        /\ m[1] = way => m[2] \in m_missing_ways'
    /\ o[1] # relation => UNCHANGED <<m_missing_ways, m_missing_relations>>
    /\ o[1] = node => UNCHANGED m_missing_nodes

(* add_node notes nothing.                                                 *)
LEMMA NodeCommitted ==
    ASSUME TypeInv, Gathered, NEW n \in NodeIds, add_node(n)
    PROVE  Noted(<<node, n>>, {})
  <1> DEFINE o == <<node, n>>
  <1>0. o \in Object /\ n \in Nat /\ o[1] = node
    BY IdsAssumption DEF Object
  <1>1. CollectedOK' /\ DOMAIN m_buffer \subseteq DOMAIN m_buffer'
    BY <1>0 DEF TypeInv, TypeOK, add_node, CollectedOK, got, missing
  <1>2. \A p : Got(p)' <=> Got(p) \/ p = o
    BY <1>0, Committed DEF TypeInv, TypeOK, add_node
  <1>3. UNCHANGED <<m_ways_got, m_relations_got, m_missing_nodes, m_missing_ways,
                    m_missing_relations>>
    BY DEF add_node, got, missing
  <1>4. m_location_handler'.ids = m_location_handler.ids \union {n}
    BY DEF add_node
  <1>5. IndexSound'
    BY <1>2, <1>4 DEF Gathered, IndexSound
  <1>6. m_ways_got' = {} /\ m_relations_got' = {}
    BY <1>3 DEF Gathered
  <1> HIDE DEF o
  <1>7. Noted(o, {})
    BY <1>0, <1>1, <1>2, <1>3, <1>5, <1>6, TypesDiffer DEF Noted
  <1> QED
    BY <1>7 DEF o

(* add_way notes the nodes the index did not find.                         *)
LEMMA WayCommitted ==
    ASSUME TypeInv, Gathered, NEW w \in WayIds, NEW refs \in SUBSET NodeIds, AddWay(w, refs)
    PROVE  Noted(<<way, w>>, {node} \X refs)
  <1> DEFINE o == <<way, w>>
  <1>0. o \in Object /\ o[1] = way
    BY DEF Object
  <1>1. PICK unavailable \in NotFound(refs) :
            m_missing_nodes' = m_missing_nodes \union unavailable
    BY DEF AddWay
  <1>2. /\ m_buffer' = Append(m_buffer, o)
        /\ UNCHANGED <<m_location_handler, m_ways_got, m_relations_got, m_missing_ways,
                       m_missing_relations>>
    BY DEF AddWay, got
  <1>3. /\ unavailable \subseteq refs
        /\ \A n \in refs : n \in unavailable \/ Got(<<node, n>>)
    BY NotFoundReports DEF Gathered, IndexSound
  <1>4. CollectedOK' /\ DOMAIN m_buffer \subseteq DOMAIN m_buffer'
    BY <1>0, <1>1, <1>2, <1>3 DEF TypeInv, TypeOK, CollectedOK
  <1>5. \A p : Got(p)' <=> Got(p) \/ p = o
    BY <1>0, <1>2, Committed DEF TypeInv, TypeOK
  <1>6. IndexSound' /\ m_ways_got' = {} /\ m_relations_got' = {}
    BY <1>2, <1>5 DEF Gathered, IndexSound
  <1>7. \A n \in m_missing_nodes' \ m_missing_nodes : <<node, n>> \in {node} \X refs
    BY <1>1, <1>3
  <1>8. \A m : Follows(o, m)
    BY <1>0 DEF Follows
  <1>9. \A m \in {node} \X refs :
            /\ m[1] = node /\ m[1] # way
            /\ Got(m) \/ m[2] \in m_missing_nodes'
    <2> SUFFICES ASSUME NEW n \in refs
                 PROVE  Got(<<node, n>>) \/ n \in m_missing_nodes'
      BY TypesDiffer
    <2> QED
      BY <1>1, <1>3
  <1>10. m_missing_nodes \subseteq m_missing_nodes'
    BY <1>1
  <1>11. o[1] # node /\ o[1] # relation
    BY <1>0, TypesDiffer
  <1> HIDE DEF o
  <1>12. Noted(o, {node} \X refs)
    BY <1>2, <1>4, <1>5, <1>6, <1>7, <1>8, <1>9, <1>10, <1>11 DEF Noted
  <1> QED
    BY <1>12 DEF o

(* add_relation notes the members that are followed.                       *)
LEMMA RelationCommitted ==
    ASSUME TypeInv, Gathered, NEW r \in RelationIds, NEW members \in SUBSET Object,
           AddRelation(r, members)
    PROVE  Noted(<<relation, r>>, members)
  <1> DEFINE o == <<relation, r>>
             Asks(type, recurse) == IF recurse THEN IdsOf(type, members) ELSE {}
  <1>0. o \in Object /\ o[1] = relation
    BY DEF Object
  <1>1. PICK unavailable \in NotFound(Asks(node, config.recurse_nodes)) :
            m_missing_nodes' = m_missing_nodes \union unavailable
    BY DEF AddRelation
  <1>2. /\ m_buffer' = Append(m_buffer, o)
        /\ m_missing_ways' = m_missing_ways \union Asks(way, config.recurse_ways)
        /\ m_missing_relations' = m_missing_relations
                \union Asks(relation, config.recurse_relations)
        /\ UNCHANGED <<m_location_handler, m_ways_got, m_relations_got>>
    BY DEF AddRelation, got, Gathered
  <1>3. /\ \A m : Follows(o, <<node, m>>) <=> config.recurse_nodes
        /\ \A m : Follows(o, <<way, m>>) <=> config.recurse_ways
        /\ \A m : Follows(o, <<relation, m>>) <=> config.recurse_relations
    BY <1>0, ByType, TypesDiffer DEF Follows
  <1>4. /\ \A id : id \in IdsOf(node, members) <=> <<node, id>> \in members
        /\ \A id : id \in IdsOf(way, members) <=> <<way, id>> \in members
        /\ \A id : id \in IdsOf(relation, members) <=> <<relation, id>> \in members
        /\ IdsOf(node, members) \subseteq NodeIds /\ IdsOf(way, members) \subseteq WayIds
        /\ IdsOf(relation, members) \subseteq RelationIds
    BY IdsOfObjects
  <1>5. /\ unavailable \subseteq Asks(node, config.recurse_nodes)
        /\ \A n \in Asks(node, config.recurse_nodes) : n \in unavailable \/ Got(<<node, n>>)
    BY NotFoundReports DEF Gathered, IndexSound
  <1>6. /\ Asks(node, config.recurse_nodes) \subseteq NodeIds
        /\ Asks(way, config.recurse_ways) \subseteq WayIds
        /\ Asks(relation, config.recurse_relations) \subseteq RelationIds
    BY <1>4
  <1>7. CollectedOK' /\ DOMAIN m_buffer \subseteq DOMAIN m_buffer'
    <2> HIDE DEF Asks, o
    <2> QED
      BY <1>0, <1>1, <1>2, <1>5, <1>6 DEF TypeInv, TypeOK, CollectedOK
  <1>8. \A p : Got(p)' <=> Got(p) \/ p = o
    BY <1>0, <1>2, Committed DEF TypeInv, TypeOK
  <1>9. IndexSound' /\ m_ways_got' = {} /\ m_relations_got' = {}
    BY <1>2, <1>8 DEF Gathered, IndexSound
  <1>10. /\ \A n \in m_missing_nodes' \ m_missing_nodes :
                <<node, n>> \in members /\ Follows(o, <<node, n>>)
         /\ \A w \in m_missing_ways' \ m_missing_ways :
                <<way, w>> \in members /\ Follows(o, <<way, w>>)
         /\ \A m \in m_missing_relations' \ m_missing_relations :
                <<relation, m>> \in members /\ Follows(o, <<relation, m>>)
    BY <1>1, <1>2, <1>3, <1>4, <1>5
  <1>11. \A n : <<node, n>> \in members /\ Follows(o, <<node, n>>)
                    => Got(<<node, n>>) \/ n \in m_missing_nodes'
    BY <1>1, <1>3, <1>4, <1>5
  <1>12. \A w : <<way, w>> \in members /\ Follows(o, <<way, w>>) => w \in m_missing_ways'
    BY <1>2, <1>3, <1>4
  <1>13. \A m \in members : Follows(o, m) =>
            /\ m[1] = node => Got(m) \/ m[2] \in m_missing_nodes'
            /\ m[1] = way => m[2] \in m_missing_ways'
    <2> HIDE DEF o, Asks
    <2> SUFFICES ASSUME NEW m \in members, Follows(o, m)
                 PROVE  /\ m[1] = node => Got(m) \/ m[2] \in m_missing_nodes'
                        /\ m[1] = way => m[2] \in m_missing_ways'
      OBVIOUS
    <2>1. m = <<m[1], m[2]>>
      BY ObjectForms
    <2> QED
      BY <2>1, <1>11, <1>12
  <1>14. m_missing_nodes \subseteq m_missing_nodes' /\ m_missing_ways \subseteq m_missing_ways'
    BY <1>1, <1>2
  <1> HIDE DEF o, Asks
  <1>15. o[1] # node
    BY <1>0, TypesDiffer
  <1>16. Noted(o, members)
    BY <1>0, <1>7, <1>8, <1>9, <1>10, <1>13, <1>14, <1>15 DEF Noted
  <1> QED
    BY <1>16 DEF o

-----------------------------------------------------------------------------
(* With a further state seen and nothing else, what is gathered is sound.  *)
LEMMA GatheredAlone ==
    ASSUME Gathered, UNCHANGED <<config, tile, collected, read>>, seen \subseteq seen'
    PROVE  Gathered' /\ \A p : Got(p)' <=> Got(p)
  <1>1. UNCHANGED <<m_buffer, m_location_handler, m_ways_got, m_relations_got,
                    m_missing_nodes, m_missing_ways, m_missing_relations>>
    BY DEF collected, got, missing
  <1>2. \A p : Got(p)' <=> Got(p)
    BY <1>1 DEF Got
  <1>3. \A o, m : Follows(o, m)' <=> Follows(o, m)
    BY DEF Follows, Recursed
  <1>4. \A o : WasThere(o) => WasThere(o)'
    BY <1>2, MoreRead
  <1>5. \A o : PartOf(o) => PartOf(o)'
    BY <1>2, MoreRead
  <1>6. IndexSound' /\ ReadTyped' /\ m_ways_got' = {} /\ m_relations_got' = {}
    BY <1>1, <1>2 DEF Gathered, IndexSound, ReadTyped
  <1>7. PartsNoted'
    BY <1>1, <1>2, <1>3 DEF Gathered, PartsNoted
  <1>8. MissingParts'
    BY <1>1, <1>5 DEF Gathered, MissingParts
  <1>9. GotThere'
    BY <1>2, <1>4 DEF Gathered, GotThere
  <1> QED
    BY <1>2, <1>6, <1>7, <1>8, <1>9 DEF Gathered

(* An object that was there is committed with what was read of it.         *)
LEMMA GatheredMore ==
    ASSUME Gathered, NEW o \in Object, NEW S \in SUBSET Object, Noted(o, S), WasThere(o),
           o[1] = way => S \in SUBSET ({node} \X NodeIds),
           read' = read \union {<<o, S>>} \/ (S = {} /\ read' = read),
           UNCHANGED <<config, tile, seen>>
    PROVE  Gathered'
  <1>1. /\ \A p : Got(p)' <=> Got(p) \/ p = o
        /\ Got(o)'
    BY DEF Noted
  <1>2. read \subseteq read' /\ seen \subseteq seen'
    OBVIOUS
  <1>3. \A q : PartOf(q) => PartOf(q)'
    BY <1>1, <1>2, MoreRead
  <1>4. \A q : WasThere(q) => WasThere(q)'
    BY <1>1, <1>2, MoreRead
  <1>5. \A q, m : Follows(q, m)' <=> Follows(q, m)
    BY DEF Follows, Recursed
  <1>6. ReadTyped'
    <2> SUFFICES ASSUME NEW p \in read'
                 PROVE  /\ Got(p[1])' /\ p[2] \in SUBSET Object
                        /\ p[1][1] = way => p[2] \in SUBSET ({node} \X NodeIds)
      BY DEF ReadTyped
    <2>1. CASE p \in read
      BY <1>1, <2>1 DEF Gathered, ReadTyped
    <2>2. CASE p = <<o, S>>
      BY <1>1, <2>2
    <2> QED
      BY <2>1, <2>2
  <1>7. PartsNoted'
    <2> SUFFICES ASSUME NEW p \in read', NEW m \in p[2], Follows(p[1], m)
                 PROVE  /\ m[1] = node => Got(m)' \/ m[2] \in m_missing_nodes'
                        /\ m[1] = way => m[2] \in m_missing_ways'
      BY <1>5 DEF PartsNoted
    <2>1. CASE p \in read
      BY <1>1, <2>1 DEF Gathered, PartsNoted, Noted
    <2>2. CASE p = <<o, S>>
      BY <1>1, <2>2 DEF Noted
    <2> QED
      BY <2>1, <2>2
  <1>8. \A q : q \in S /\ Follows(o, q) => PartOf(q)'
    <2> SUFFICES ASSUME NEW q \in S, Follows(o, q) PROVE PartOf(q)'
      OBVIOUS
    <2>1. <<o, S>> \in read'
      OBVIOUS
    <2> DEFINE p == <<o, S>>
    <2>2. p[1] = o /\ p[2] = S
      OBVIOUS
    <2>3. Follows(o, q)'
      BY <1>5
    <2> HIDE DEF p
    <2>4. Got(p[1])' /\ q \in p[2] /\ Follows(p[1], q)'
      BY <1>1, <2>2, <2>3
    <2> QED
      BY <2>1, <2>4 DEF PartOf, p
  <1>9. MissingParts'
    <2>1. \A n \in m_missing_nodes' : PartOf(<<node, n>>)'
      BY <1>3, <1>8 DEF Noted, Gathered, MissingParts
    <2>2. \A w \in m_missing_ways' : PartOf(<<way, w>>)'
      BY <1>3, <1>8 DEF Noted, Gathered, MissingParts
    <2>3. \A r \in m_missing_relations' : PartOf(<<relation, r>>)'
      BY <1>3, <1>8 DEF Noted, Gathered, MissingParts
    <2> QED
      BY <2>1, <2>2, <2>3 DEF MissingParts
  <1>10. GotThere'
    BY <1>1, <1>4 DEF GotThere, Gathered
  <1> QED
    BY <1>6, <1>7, <1>9, <1>10 DEF Gathered, Noted

(* What is reached in the calls stays reached while the buffer grows.      *)
LEMMA ReachedKept ==
    ASSUME seen \subseteq seen', UNCHANGED tile, \A p : Got(p) => Got(p)'
    PROVE  /\ AlwaysGot(node) => AlwaysGot(node)'
           /\ AlwaysGot(way) => AlwaysGot(way)'
           /\ AlwaysGot(relation) => AlwaysGot(relation)'
           /\ StayingWaysGot /\ UNCHANGED m_missing_ways => StayingWaysGot'
           /\ StayingNodesGot /\ UNCHANGED m_missing_nodes => StayingNodesGot'
  BY MoreSeen DEF AlwaysGot, StayingWaysGot, StayingNodesGot

(* The rest of the rows of a spatial query.                                *)
LEMMA RowTaken ==
    ASSUME NEW type, RowsOf(type), NEW id, rows' = rows \ {id}, UNCHANGED <<seen, tile, fetched>>,
           \A p : Got(p)' <=> Got(p) \/ p = <<type, id>>
    PROVE  RowsOf(type)'
  <1>1. \A o : AlwaysInside(o)' => AlwaysInside(o)
    BY MoreSeen
  <1>2. \A o : SometimeInside(o) => SometimeInside(o)'
    BY MoreSeen
  <1> QED
    BY <1>1, <1>2 DEF RowsOf

(* The rows of a spatial query are the objects of one type in the present  *)
(* state.                                                                  *)
LEMMA RowsCome ==
    ASSUME SeenSound, call # "next_tile", UNCHANGED <<seen, tile>>, NEW type,
           \A id : id \in rows' <=> <<type, id>> \in Inside(db, tile)
    PROVE  RowsOf(type)'
  <1>1. db \in seen /\ seen' = seen
    BY DEF SeenSound
  <1>2. \A d : Inside(d, tile)' = Inside(d, tile)
    BY DEF Inside
  <1>3. \A o : AlwaysInside(o)' => o \in Inside(db, tile)
    BY <1>1, <1>2 DEF AlwaysInside
  <1>4. \A o : o \in Inside(db, tile) => SometimeInside(o)'
    BY <1>1, <1>2 DEF SometimeInside
  <1> QED
    BY <1>3, <1>4 DEF RowsOf

(* What a step within a call has to show.                                  *)
LEMMA CallStep ==
    ASSUME ImportInv, call \in Calls, call' = call, UNCHANGED <<input, tiles, output, seen>>,
           CollectedOK', DOMAIN m_buffer \subseteq DOMAIN m_buffer',
           \A p : Got(p) => Got(p)',
           call \in PastMissingWays => UNCHANGED m_missing_ways,
           fetched' \in BOOLEAN, cursor' \in Nat,
           rows' \subseteq rows \/ (RowsTyped' /\ rows' \subseteq Nat),
           QueryTyped', Gathered', InWork', Walking'
    PROVE  ImportInv'
  <1>1. UNCHANGED <<db, config, tile, file_state, file_content>>
    BY DEF input, tiles, output
  <1>2. TypeInv /\ call \notin {"next_tile", "write_file", "sort_buffer_and_write_it"}
    BY DEF ImportInv, Calls
  <1>3. rows' \subseteq Nat
    BY <1>2 DEF TypeInv, TypeOK
  <1>4. TypeOK' /\ objects' = {}
    BY <1>2, <1>3, CallTyped
  <1>5. RowsTyped'
    BY <1>2, <1>4 DEF TypeInv, RowsTyped
  <1>6. SeenSound'
    BY <1>1 DEF ImportInv, SeenSound
  <1>7. ~Ready /\ ~Ready'
    BY <1>2 DEF Ready
  <1>8. Walked'
    <2>1. call \notin PastMissingNodes
      BY <1>2 DEF PastMissingNodes
    <2>2. seen \subseteq seen'
      OBVIOUS
    <2> QED
      BY <1>1, <1>7, <2>1, <2>2, ReachedKept DEF ImportInv, Walked
  <1>9. FileIsBuffer' /\ ReadyContent'
    BY <1>2, <1>7 DEF FileIsBuffer, ReadyContent
  <1> QED
    BY <1>4, <1>5, <1>6, <1>8, <1>9 DEF ImportInv, TypeInv

(* A step within a call that commits nothing.                              *)
LEMMA NothingCommitted ==
    ASSUME ImportInv, call \in Calls, call' = call,
           UNCHANGED <<input, tiles, output, seen, collected, read>>,
           fetched' \in BOOLEAN, cursor' \in Nat,
           rows' \subseteq rows \/ (RowsTyped' /\ rows' \subseteq Nat),
           QueryTyped', InWork', Walking'
    PROVE  ImportInv'
  <1>1. UNCHANGED <<m_buffer, m_location_handler, m_ways_got, m_relations_got,
                    m_missing_nodes, m_missing_ways, m_missing_relations, config, tile>>
    BY DEF collected, got, missing, input, tiles
  <1>2. CollectedOK'
    BY <1>1 DEF ImportInv, TypeInv, TypeOK, CollectedOK
  <1>3. Gathered' /\ \A p : Got(p)' <=> Got(p)
    BY <1>1, GatheredAlone DEF ImportInv
  <1> QED
    BY <1>1, <1>2, <1>3, CallStep

(* A step within a call that commits an object; nothing is in work then.   *)
LEMMA OneCommitted ==
    ASSUME ImportInv, call \in Calls, call' = call, UNCHANGED <<input, tiles, output, seen>>,
           NEW o \in Object, NEW S \in SUBSET Object, Noted(o, S), WasThere(o),
           o[1] = way => S \in SUBSET ({node} \X NodeIds),
           read' = read \union {<<o, S>>} \/ (S = {} /\ read' = read),
           call = "get_missing_nodes" => o[1] = node,
           fetched' = fetched, cursor' \in Nat, rows' \subseteq rows,
           query' = NoQuery, Walking'
    PROVE  ImportInv'
  <1>1. UNCHANGED <<config, tile>>
    BY DEF input, tiles
  <1>2. Gathered'
    BY <1>1, GatheredMore DEF ImportInv
  <1>3. CollectedOK' /\ DOMAIN m_buffer \subseteq DOMAIN m_buffer' /\ \A p : Got(p) => Got(p)'
    BY DEF Noted
  <1>4. call \in PastMissingWays => UNCHANGED m_missing_ways
    BY TypesDiffer DEF Noted, PastMissingWays, PastMissingNodes, Calls
  <1>5. QueryTyped' /\ InWork'
    BY DEF QueryTyped, NoQuery, InWork, Idle
  <1>6. fetched' \in BOOLEAN
    BY DEF ImportInv, TypeInv, TypeOK
  <1> QED
    BY <1>2, <1>3, <1>4, <1>5, <1>6, CallStep

-----------------------------------------------------------------------------
(* The spatial queries.                                                    *)
LEMMA RowsSelected ==
    ASSUME ImportInv, Idle, UNCHANGED <<query, history>>,
           GetNodesInside \/ GetWaysInside \/ GetRelationsInside
    PROVE  ImportInv'
  <1>1. PICK c, type :
            /\ c \in {"get_nodes_inside", "get_ways_inside", "get_relations_inside"}
            /\ Select(c, IdsOf(type, Inside(db, tile)))
            /\ c = "get_nodes_inside" => type = node
            /\ c = "get_ways_inside" => type = way
            /\ c = "get_relations_inside" => type = relation
    BY DEF GetNodesInside, GetWaysInside, GetRelationsInside
  <1>2. /\ call = c /\ call' = c /\ fetched' \in BOOLEAN /\ cursor' = cursor
        /\ rows' = IdsOf(type, Inside(db, tile))
        /\ UNCHANGED <<input, tiles, output, seen, collected, read, query>>
    BY <1>1 DEF Select, history
  <1>3. call \in Calls /\ cursor' \in Nat /\ call # "next_tile"
    BY <1>1, <1>2 DEF Calls, ImportInv, TypeInv, TypeOK
  <1>4. /\ \A id : id \in rows' <=> <<type, id>> \in Inside(db, tile)
        /\ type = node => rows' \subseteq NodeIds
        /\ type = way => rows' \subseteq WayIds
        /\ type = relation => rows' \subseteq RelationIds
    BY <1>1, <1>2, InsideNow DEF ImportInv
  <1>5. UNCHANGED <<seen, tile>>
    BY <1>2 DEF tiles
  <1>6. RowsOf(type)'
    BY <1>3, <1>4, <1>5, RowsCome DEF ImportInv
  <1>7. RowsTyped' /\ rows' \subseteq Nat
    <2>1. objects' = objects /\ objects = {}
      BY <1>2, <1>3 DEF ImportInv, TypeInv, RowsTyped, output, Calls
    <2> QED
      BY <1>1, <1>2, <1>4, <2>1, IdsAssumption DEF RowsTyped
  <1>8. Walking'
    BY <1>1, <1>2, <1>6 DEF Walking
  <1>9. QueryTyped' /\ InWork'
    BY <1>2 DEF QueryTyped, InWork, Idle, ImportInv
  <1> QED
    BY <1>2, <1>3, <1>7, <1>8, <1>9, NothingCommitted

(* A row of the nodes.                                                     *)
LEMMA NodeRead ==
    ASSUME ImportInv, Idle, UNCHANGED <<query, history>>, NodeRow
    PROVE  ImportInv'
  <1>1. PICK n \in rows : add_node(n) /\ rows' = rows \ {n}
    BY DEF NodeRow, Row
  <1>2. /\ call = "get_nodes_inside" /\ call' = call /\ UNCHANGED <<input, tiles, output, seen>>
        /\ fetched' = fetched /\ cursor' = cursor /\ read' = read /\ query' = NoQuery
    BY DEF NodeRow, Row, history, Idle
  <1>3. TypeInv /\ Gathered /\ RowsOf(node) /\ n \in NodeIds /\ cursor' \in Nat
    BY <1>1, <1>2 DEF ImportInv, TypeInv, TypeOK, RowsTyped, Walking
  <1>4. <<node, n>> \in Object /\ <<node, n>>[1] = node
    BY <1>3 DEF Object
  <1>5. Noted(<<node, n>>, {})
    BY <1>1, <1>3, NodeCommitted
  <1>6. WasThere(<<node, n>>)
    BY <1>1, <1>3, InsideThere DEF RowsOf
  <1>7. UNCHANGED <<seen, tile, fetched>>
    BY <1>2 DEF tiles
  <1>8. RowsOf(node)'
    BY <1>1, <1>3, <1>5, <1>7, RowTaken DEF Noted
  <1>9. Walking'
    BY <1>2, <1>8 DEF Walking
  <1> DEFINE o == <<node, n>>
  <1>10. o \in Object /\ o[1] = node /\ Noted(o, {}) /\ WasThere(o)
    BY <1>4, <1>5, <1>6
  <1> HIDE DEF o
  <1>11. call \in Calls /\ o[1] # way
    BY <1>2, <1>10, TypesDiffer DEF Calls
  <1> QED
    BY <1>1, <1>2, <1>3, <1>9, <1>10, <1>11, OneCommitted

(* A row of the ways with its nodes.                                       *)
LEMMA WayRead ==
    ASSUME ImportInv, ReadWay
    PROVE  ImportInv'
  <1>1. PICK w \in rows : add_way(w) /\ rows' = rows \ {w}
    BY DEF ReadWay, WayRow, Row
  <1>2. /\ call = "get_ways_inside" /\ call' = call /\ UNCHANGED <<input, tiles, output, seen>>
        /\ fetched' = fetched /\ cursor' = cursor /\ query' = NoQuery
    BY DEF ReadWay, WayRow, Row, Idle
  <1>3. TypeInv /\ Gathered /\ RowsOf(way) /\ w \in WayIds /\ cursor' \in Nat
    BY <1>1, <1>2 DEF ImportInv, TypeInv, TypeOK, RowsTyped, Walking
  <1> DEFINE o == <<way, w>>
             S == {node} \X db.refs[w]
  <1>4. db.refs[w] \in SUBSET NodeIds
    BY <1>3 DEF TypeInv, TypeOK, Database
  <1>5. o \in Object /\ o[1] = way /\ S \in SUBSET ({node} \X NodeIds) /\ S \in SUBSET Object
    BY <1>3, <1>4 DEF Object
  <1>6. Noted(o, S)
    BY <1>1, <1>3, <1>4, WayCommitted DEF add_way
  <1>7. WasThere(o)
    BY <1>1, <1>3, InsideThere DEF RowsOf
  <1>8. read' = read \union {<<o, S>>}
    <2>1. rows \ rows' = {w}
      BY <1>1
    <2> QED
      BY <2>1 DEF ReadWay
  <1>9. UNCHANGED <<seen, tile, fetched>>
    BY <1>2 DEF tiles
  <1>10. RowsOf(way)'
    BY <1>1, <1>3, <1>6, <1>9, RowTaken DEF Noted
  <1>11. Walking'
    BY <1>2, <1>10 DEF Walking
  <1>12. call \in Calls
    BY <1>2 DEF Calls
  <1> HIDE DEF o, S
  <1> QED
    BY <1>1, <1>2, <1>3, <1>5, <1>6, <1>7, <1>8, <1>11, <1>12, OneCommitted

-----------------------------------------------------------------------------
(* The loops over the missing objects.                                     *)

(* The iterator moves over a way that has come, or does not stay ...       *)
LEMMA WayPassed ==
    ASSUME WaysWalked, TypeInv, NEW id \in m_missing_ways, IsNext(id, m_missing_ways),
           cursor' = id, UNCHANGED <<seen, tile, m_missing_ways>>, \A p : Got(p) => Got(p)',
           Stays(<<way, id>>) => Got(<<way, id>>)'
    PROVE  WaysWalked'
  <1>1. \A o : Stays(o)' => Stays(o)
    BY MoreSeen
  <1>2. cursor \in Nat /\ m_missing_ways \subseteq Nat
    BY IdsAssumption DEF TypeInv, TypeOK
  <1> SUFFICES ASSUME NEW w \in m_missing_ways, w <= id, Stays(<<way, w>>)
               PROVE  Got(<<way, w>>)'
    BY <1>1 DEF WaysWalked
  <1>3. CASE w <= cursor
    BY <1>3 DEF WaysWalked
  <1>4. CASE w > cursor
    <2>1. w = id
      BY <1>2, <1>4 DEF IsNext
    <2> QED
      BY <2>1
  <1> QED
    BY <1>2, <1>3, <1>4

(* ... or over such a node.                                                *)
LEMMA NodePassed ==
    ASSUME NodesWalked, TypeInv, NEW id \in m_missing_nodes, IsNext(id, m_missing_nodes),
           cursor' = id, UNCHANGED <<seen, tile, m_missing_nodes>>, \A p : Got(p) => Got(p)',
           Stays(<<node, id>>) => Got(<<node, id>>)'
    PROVE  NodesWalked'
  <1>1. \A o : Stays(o)' => Stays(o)
    BY MoreSeen
  <1>2. cursor \in Nat /\ m_missing_nodes \subseteq Nat
    BY IdsAssumption DEF TypeInv, TypeOK
  <1> SUFFICES ASSUME NEW n \in m_missing_nodes, n <= id, Stays(<<node, n>>)
               PROVE  Got(<<node, n>>)'
    BY <1>1 DEF NodesWalked
  <1>3. CASE n <= cursor
    BY <1>3 DEF NodesWalked
  <1>4. CASE n > cursor
    <2>1. n = id
      BY <1>2, <1>4 DEF IsNext
    <2> QED
      BY <2>1
  <1> QED
    BY <1>2, <1>3, <1>4

(* A way is asked for: a row is in work, or there is none.                 *)
LEMMA WayAsked ==
    ASSUME ImportInv, AskWay
    PROVE  ImportInv'
  <1>1. PICK id \in m_missing_ways :
            /\ IsNext(id, m_missing_ways)
            /\ IF id \in db.ways
               THEN query' = [NoQuery EXCEPT !.id = id] /\ UNCHANGED cursor
               ELSE cursor' = id /\ UNCHANGED query
    BY DEF AskWay, Ask
  <1>2. /\ call = "get_missing_ways" /\ call' = call /\ Idle
        /\ UNCHANGED <<input, tiles, output, seen, collected, read, fetched, rows>>
    BY DEF AskWay, Ask, history
  <1>3. UNCHANGED <<tile, m_missing_ways, m_buffer, seen>>
    BY <1>2 DEF tiles, collected, missing
  <1>4. TypeInv /\ WaysWalked /\ db \in seen /\ id \in Nat /\ id \in WayIds
    BY <1>2, IdsAssumption DEF ImportInv, Walking, SeenSound, TypeInv, TypeOK
  <1>5. fetched' \in BOOLEAN /\ cursor' \in Nat /\ call \in Calls /\ rows' \subseteq rows
    BY <1>1, <1>2, <1>4 DEF TypeInv, TypeOK, Calls
  <1>6. QueryTyped' /\ InWork' /\ Walking'
    <2>1. CASE id \in db.ways
      <3>1. query' = [id |-> id, asked |-> 0, members |-> {}] /\ query'.id = id /\ cursor' = cursor
        BY <1>1, <2>1 DEF NoQuery
      <3>2. QueryTyped'
        BY <1>4, <3>1 DEF QueryTyped
      <3>3. InWork'
        BY <1>1, <1>2, <1>3, <1>4, <2>1, <3>1 DEF InWork, IsNext
      <3>4. Walking'
        BY <1>2, <1>3, <1>4, <3>1, MoreSeen DEF Walking, WaysWalked, Got
      <3> QED
        BY <3>2, <3>3, <3>4
    <2>2. CASE id \notin db.ways
      <3>1. cursor' = id /\ query' = query
        BY <1>1, <2>2
      <3>2. ~Stays(<<way, id>>)
        BY <1>4, <2>2, ByType
      <3>3. \A p : Got(p) => Got(p)'
        BY <1>3 DEF Got
      <3>4. WaysWalked'
        BY <1>1, <1>3, <1>4, <3>1, <3>2, <3>3, WayPassed
      <3> QED
        BY <1>2, <3>1, <3>4 DEF QueryTyped, InWork, Idle, Walking, ImportInv
    <2> QED
      BY <2>1, <2>2
  <1> QED
    BY <1>2, <1>5, <1>6, NothingCommitted

(* A relation is asked for.                                                *)
LEMMA RelationAsked ==
    ASSUME ImportInv, AskRelation
    PROVE  ImportInv'
  <1>1. PICK id \in m_missing_relations :
            /\ IsNext(id, m_missing_relations)
            /\ IF id \in db.relations
               THEN query' = [NoQuery EXCEPT !.id = id] /\ UNCHANGED cursor
               ELSE cursor' = id /\ UNCHANGED query
    BY DEF AskRelation, Ask
  <1>2. /\ call = "get_missing_relations" /\ call' = call /\ Idle
        /\ UNCHANGED <<input, tiles, output, seen, collected, read, fetched, rows>>
    BY DEF AskRelation, Ask, history
  <1>3. m_missing_relations' = m_missing_relations
    BY <1>2 DEF collected, missing
  <1>4. TypeInv /\ db \in seen /\ id \in Nat
    BY <1>2, IdsAssumption DEF ImportInv, SeenSound, TypeInv, TypeOK
  <1>5. fetched' \in BOOLEAN /\ cursor' \in Nat /\ call \in Calls /\ rows' \subseteq rows
    BY <1>1, <1>2, <1>4 DEF TypeInv, TypeOK, Calls
  <1>6. Walking'
    BY <1>2 DEF Walking
  <1>7. QueryTyped' /\ InWork'
    <2>1. CASE id \in db.relations
      <3>1. query' = [id |-> id, asked |-> 0, members |-> {}] /\ query'.id = id
        BY <1>1, <2>1 DEF NoQuery
      <3>2. QueryTyped'
        BY <1>4, <3>1 DEF QueryTyped
      <3> QED
        BY <1>2, <1>3, <1>4, <2>1, <3>1, <3>2 DEF InWork
    <2>2. CASE id \notin db.relations
      BY <1>1, <1>2, <2>2 DEF QueryTyped, InWork, Idle, ImportInv
    <2> QED
      BY <2>1, <2>2
  <1> QED
    BY <1>2, <1>5, <1>6, <1>7, NothingCommitted

(* The nodes of a missing way have come.                                   *)
LEMMA WayFinished ==
    ASSUME ImportInv, FinishWay
    PROVE  ImportInv'
  <1>0. PICK w : w = query.id
    OBVIOUS
  <1> DEFINE o == <<way, w>>
             S == {node} \X db.refs[w]
  <1>1. /\ call = "get_missing_ways" /\ call' = call /\ ~Idle
        /\ UNCHANGED <<input, tiles, output, seen, fetched, rows>>
        /\ AddWay(w, db.refs[w]) /\ read' = read \union {<<o, S>>}
        /\ cursor' = w /\ query' = NoQuery
    BY <1>0 DEF FinishWay
  <1>2. /\ TypeInv /\ Gathered /\ WaysWalked
        /\ w \in m_missing_ways /\ IsNext(w, m_missing_ways) /\ \E d \in seen : w \in d.ways
    BY <1>0, <1>1 DEF ImportInv, Walking, InWork
  <1>3. w \in WayIds /\ w \in Nat /\ db.refs[w] \in SUBSET NodeIds
    BY <1>2, IdsAssumption DEF TypeInv, TypeOK, Database
  <1>4. o \in Object /\ o[1] = way /\ S \in SUBSET ({node} \X NodeIds) /\ S \in SUBSET Object
    BY <1>3 DEF Object
  <1>5. Noted(o, S)
    BY <1>1, <1>2, <1>3, WayCommitted
  <1>6. WasThere(o)
    <2>1. PICK d \in seen : w \in d.ways
      BY <1>2
    <2>2. o \in Stored(d)
      BY <2>1, StoredObjects, InputsAssumption DEF ImportInv, SeenSound
    <2>3. PartOf(o)
      BY <1>2 DEF Gathered, MissingParts
    <2> QED
      BY <2>2, <2>3 DEF WasThere
  <1>7. UNCHANGED <<seen, tile, m_missing_ways>>
    BY <1>1, <1>4, <1>5, TypesDiffer DEF tiles, Noted
  <1>8. Got(o)' /\ \A p : Got(p) => Got(p)'
    BY <1>5 DEF Noted
  <1>9. WaysWalked'
    BY <1>1, <1>2, <1>7, <1>8, WayPassed
  <1>10. Walking'
    BY <1>1, <1>9 DEF Walking
  <1>11. call \in Calls /\ call # "get_missing_nodes" /\ cursor' \in Nat
    BY <1>1, <1>3 DEF Calls
  <1> HIDE DEF o, S
  <1> QED
    BY <1>1, <1>4, <1>5, <1>6, <1>10, <1>11, OneCommitted

(* A relation of the spatial query is taken up.                            *)
LEMMA RelationTaken ==
    ASSUME ImportInv, TakeRelation
    PROVE  ImportInv'
  <1>1. PICK r \in rows : query' = [NoQuery EXCEPT !.id = r]
    BY DEF TakeRelation
  <1>2. /\ call = "get_relations_inside" /\ call' = call
        /\ UNCHANGED <<input, tiles, output, seen, collected, read, fetched, rows, cursor>>
    BY DEF TakeRelation, vars, reading, history
  <1>3. TypeInv /\ RowsOf(relation) /\ r \in Nat
    BY <1>1, <1>2 DEF ImportInv, Walking, TypeInv, TypeOK
  <1>4. query' = [id |-> r, asked |-> 0, members |-> {}] /\ query'.id = r
    BY <1>1 DEF NoQuery
  <1>5. QueryTyped'
    BY <1>3, <1>4 DEF QueryTyped
  <1>6. InWork'
    BY <1>1, <1>2, <1>4 DEF InWork
  <1>7. Walking'
    <2>1. UNCHANGED <<seen, tile, m_buffer, rows, fetched>>
      BY <1>2 DEF tiles, collected
    <2>2. RowsOf(relation)'
      BY <1>3, <2>1, MoreSeen DEF RowsOf, Got
    <2> QED
      BY <1>2, <2>2 DEF Walking
  <1>8. fetched' \in BOOLEAN /\ cursor' \in Nat /\ call \in Calls /\ rows' \subseteq rows
    BY <1>2, <1>3 DEF TypeInv, TypeOK, Calls
  <1> QED
    BY <1>2, <1>5, <1>6, <1>7, <1>8, NothingCommitted

(* A relation in work is one of the instance.                              *)
LEMMA RelationInWork ==
    ASSUME ImportInv, ~Idle, call \in {"get_relations_inside", "get_missing_relations"}
    PROVE  /\ query.id \in RelationIds /\ query.id \in Nat
           /\ \A type : MembersOfType(query.id, type) \in SUBSET Object
  <1>1. query.id \in RelationIds
    BY DEF ImportInv, InWork, TypeInv, TypeOK, RowsTyped
  <1>2. db.members[query.id] \in SUBSET Object
    BY <1>1 DEF ImportInv, TypeInv, TypeOK, Database
  <1> QED
    BY <1>1, <1>2, IdsAssumption DEF MembersOfType

(* One more query for members.                                             *)
LEMMA MembersAsked ==
    ASSUME ImportInv, AskMembers
    PROVE  ImportInv'
  <1>1. /\ call \in {"get_relations_inside", "get_missing_relations"} /\ ~Idle
        /\ call' = call
        /\ UNCHANGED <<input, tiles, output, seen, collected, read, fetched, rows, cursor>>
        /\ query' = [query EXCEPT !.asked = @ + 1,
                              !.members = @ \union MembersOfType(query.id, query.asked + 1)]
    BY DEF AskMembers, vars, reading, history
  <1>2. TypeInv /\ query \in [id : Nat, asked : Nat, members : SUBSET Object]
    BY DEF ImportInv, QueryTyped
  <1>3. PICK more \in SUBSET Object : more = MembersOfType(query.id, query.asked + 1)
    BY <1>1, RelationInWork
  <1>4. /\ query'.id = query.id
        /\ query' \in [id : Nat, asked : Nat, members : SUBSET Object]
    <2>1. query' = [query EXCEPT !.asked = @ + 1, !.members = @ \union more]
      BY <1>1, <1>3
    <2>2. query' = [id |-> query.id, asked |-> query.asked + 1,
                    members |-> query.members \union more]
      BY <1>2, <2>1
    <2>3. query.id \in Nat /\ query.asked + 1 \in Nat /\ query.members \union more \in SUBSET Object
      BY <1>2, <1>3
    <2> QED
      BY <2>2, <2>3
  <1>5. QueryTyped'
    BY <1>4 DEF QueryTyped
  <1>6. UNCHANGED <<seen, tile, m_buffer, m_missing_relations, rows, fetched>>
    BY <1>1 DEF tiles, collected, missing
  <1>7. InWork'
    BY <1>1, <1>4, <1>6 DEF ImportInv, InWork
  <1>8. Walking'
    <2>1. call = "get_relations_inside" => RowsOf(relation)'
      BY <1>6, MoreSeen DEF ImportInv, Walking, RowsOf, Got
    <2> QED
      BY <1>1, <2>1 DEF Walking
  <1>9. fetched' \in BOOLEAN /\ cursor' \in Nat /\ call \in Calls /\ rows' \subseteq rows
    BY <1>1, <1>2 DEF TypeInv, TypeOK, Calls
  <1> QED
    BY <1>1, <1>5, <1>7, <1>8, <1>9, NothingCommitted

(* The last query for members, the relation is committed.                  *)
LEMMA RelationFinished ==
    ASSUME ImportInv, FinishRelation
    PROVE  ImportInv'
  <1>0. PICK r : r = query.id
    OBVIOUS
  <1> DEFINE o == <<relation, r>>
             S == query.members \union MembersOfType(r, relation)
  <1>1. /\ call \in {"get_relations_inside", "get_missing_relations"} /\ ~Idle
        /\ call' = call
        /\ UNCHANGED <<input, tiles, output, seen, fetched>>
        /\ AddRelation(r, S) /\ read' = read \union {<<o, S>>}
        /\ call = "get_relations_inside" => rows' = rows \ {r} /\ cursor' = cursor
        /\ call = "get_missing_relations" => rows' = rows /\ cursor' = r
        /\ query' = NoQuery
    BY <1>0 DEF FinishRelation
  <1>2. TypeInv /\ Gathered /\ cursor \in Nat
    BY DEF ImportInv, TypeInv, TypeOK
  <1>3. r \in RelationIds /\ r \in Nat /\ S \in SUBSET Object
    BY <1>0, <1>1, RelationInWork DEF ImportInv, QueryTyped
  <1>4. o \in Object /\ o[1] = relation
    BY <1>3 DEF Object
  <1>5. Noted(o, S)
    BY <1>1, <1>2, <1>3, RelationCommitted
  <1>6. WasThere(o)
    <2>1. CASE call = "get_relations_inside"
      <3>1. RowsOf(relation) /\ r \in rows
        BY <1>0, <1>1, <2>1 DEF ImportInv, Walking, InWork
      <3> QED
        BY <3>1, InsideThere DEF RowsOf
    <2>2. CASE call = "get_missing_relations"
      <3>1. r \in m_missing_relations /\ \E d \in seen : r \in d.relations
        BY <1>0, <1>1, <2>2 DEF ImportInv, InWork
      <3>2. PICK d \in seen : r \in d.relations
        BY <3>1
      <3>3. o \in Stored(d)
        BY <3>2, StoredObjects, InputsAssumption DEF ImportInv, SeenSound
      <3>4. PartOf(o)
        BY <1>2, <3>1 DEF Gathered, MissingParts
      <3> QED
        BY <3>3, <3>4 DEF WasThere
    <2> QED
      BY <1>1, <2>1, <2>2
  <1>7. Walking'
    <2>1. UNCHANGED <<seen, tile, fetched>>
      BY <1>1 DEF tiles
    <2>2. \A p : Got(p)' <=> Got(p) \/ p = o
      BY <1>5 DEF Noted
    <2>3. call = "get_relations_inside" => RowsOf(relation)'
      BY <1>1, <2>1, <2>2, RowTaken DEF ImportInv, Walking
    <2> QED
      BY <1>1, <2>3 DEF Walking
  <1>8. call \in Calls /\ call # "get_missing_nodes" /\ cursor' \in Nat /\ rows' \subseteq rows
    BY <1>1, <1>2, <1>3 DEF Calls
  <1>9. o[1] # way
    BY <1>4, TypesDiffer
  <1> HIDE DEF o, S
  <1> QED
    BY <1>1, <1>3, <1>4, <1>5, <1>6, <1>7, <1>8, <1>9, OneCommitted

(* A node is found in the store that is asked.                             *)
LEMMA NodeFound ==
    ASSUME ImportInv, call = "get_missing_nodes", NEW n \in m_missing_nodes,
           IsNext(n, m_missing_nodes), FoundNode(n), call' = call,
           n \in Located(db)
    PROVE  ImportInv'
  <1> DEFINE o == <<node, n>>
  <1>1. /\ UNCHANGED <<input, tiles, output, seen, read, fetched, rows>>
        /\ add_node(n) /\ cursor' = n /\ query' = NoQuery
    BY DEF FoundNode, history
  <1>2. TypeInv /\ Gathered /\ NodesWalked /\ n \in NodeIds /\ n \in Nat /\ db \in seen
    BY IdsAssumption DEF ImportInv, Walking, SeenSound, TypeInv, TypeOK
  <1>3. o \in Object /\ o[1] = node
    BY <1>2 DEF Object
  <1>4. Noted(o, {})
    BY <1>1, <1>2, NodeCommitted
  <1>5. WasThere(o)
    <2>1. o \in Stored(db)
      BY <1>2, StoredObjects, InputsAssumption DEF ImportInv, SeenSound
    <2>2. PartOf(o)
      BY <1>2 DEF Gathered, MissingParts
    <2> QED
      BY <1>2, <2>1, <2>2 DEF WasThere
  <1>6. UNCHANGED <<seen, tile, m_missing_nodes>>
    BY <1>1, <1>3, <1>4 DEF tiles, Noted
  <1>7. Got(o)' /\ \A p : Got(p) => Got(p)'
    BY <1>4 DEF Noted
  <1>8. NodesWalked'
    BY <1>1, <1>2, <1>6, <1>7, NodePassed
  <1>9. Walking'
    BY <1>8 DEF Walking
  <1>10. call \in Calls /\ cursor' \in Nat /\ o[1] # way
    BY <1>1, <1>2, <1>3, TypesDiffer DEF Calls
  <1> HIDE DEF o
  <1> QED
    BY <1>1, <1>3, <1>4, <1>5, <1>9, <1>10, OneCommitted

(* The first store is asked for a node.                                    *)
LEMMA FirstStoreAsked ==
    ASSUME ImportInv, AskFirstStore
    PROVE  ImportInv'
  <1>1. call = "get_missing_nodes" /\ Idle
    BY DEF AskFirstStore
  <1>2. PICK n \in m_missing_nodes :
            /\ IsNext(n, m_missing_nodes)
            /\ \/ n \in FirstStore /\ FoundNode(n)
               \/ /\ n \notin FirstStore
                  /\ query' = [NoQuery EXCEPT !.id = n]
                  /\ UNCHANGED <<vars, history>>
    BY DEF AskFirstStore
  <1>3. CASE n \in FirstStore /\ FoundNode(n)
    <2>1. n \in Located(db)
      BY <1>3 DEF FirstStore, Located
    <2>2. call' = call
      BY <1>3 DEF FoundNode
    <2> QED
      BY <1>1, <1>2, <1>3, <2>1, <2>2, NodeFound
  <1>4. CASE /\ n \notin FirstStore /\ query' = [NoQuery EXCEPT !.id = n]
             /\ UNCHANGED <<vars, history>>
    <2>1. UNCHANGED <<input, tiles, output, seen, collected, read, fetched, rows, cursor, call>>
      BY <1>4 DEF vars, reading, history
    <2>2. query' = [id |-> n, asked |-> 0, members |-> {}] /\ query'.id = n
      BY <1>4 DEF NoQuery
    <2>3. TypeInv /\ n \in Nat /\ db \in seen /\ NodesWalked
      BY <1>1, IdsAssumption DEF ImportInv, SeenSound, TypeInv, TypeOK, Walking
    <2>4. UNCHANGED <<m_missing_nodes, m_buffer, config, tile, seen, cursor>>
      BY <2>1 DEF collected, missing, input, tiles
    <2>5. QueryTyped'
      BY <2>2, <2>3 DEF QueryTyped
    <2>6. InWork'
      BY <1>1, <1>2, <1>4, <2>1, <2>2, <2>3, <2>4 DEF InWork, IsNext, FirstStore
    <2>7. Walking'
      BY <1>1, <2>1, <2>3, <2>4, MoreSeen DEF Walking, NodesWalked, Got
    <2>8. fetched' \in BOOLEAN /\ cursor' \in Nat /\ call \in Calls /\ rows' \subseteq rows
      BY <1>1, <2>1, <2>3 DEF TypeInv, TypeOK, Calls
    <2> QED
      BY <2>1, <2>5, <2>6, <2>7, <2>8, NothingCommitted
  <1> QED
    BY <1>2, <1>3, <1>4

(* The second store is asked: the node is found, in neither, or the        *)
(* flatnodes file ends the run.                                            *)
LEMMA SecondStoreAsked ==
    ASSUME ImportInv, AskSecondStore, ~Terminate
    PROVE  ImportInv'
  <1>0. PICK n : n = query.id
    OBVIOUS
  <1>1. /\ call = "get_missing_nodes" /\ ~Idle
        /\ n \in m_missing_nodes /\ IsNext(n, m_missing_nodes)
        /\ \E d \in seen : n \notin (IF config.flatnodes THEN d.points ELSE d.untagged)
    BY <1>0 DEF AskSecondStore, ImportInv, InWork
  <1>2. CASE n \in SecondStore /\ FoundNode(n)
    <2>1. n \in Located(db)
      BY <1>2 DEF SecondStore, Located
    <2>2. call' = call
      BY <1>2 DEF FoundNode
    <2> QED
      BY <1>1, <1>2, <2>1, <2>2, NodeFound
  <1>3. CASE /\ n \notin SecondStore /\ cursor' = n /\ query' = NoQuery
             /\ UNCHANGED <<input, tiles, call, fetched, rows, collected, output, history>>
    <2>1. UNCHANGED <<input, tiles, output, seen, collected, read, fetched, rows, call>>
      BY <1>3 DEF history
    <2>2. TypeInv /\ n \in Nat /\ db \in seen /\ NodesWalked
      BY <1>1, IdsAssumption DEF ImportInv, SeenSound, TypeInv, TypeOK, Walking
    <2>3. UNCHANGED <<m_missing_nodes, m_buffer, tile, seen>>
      BY <2>1 DEF collected, missing, tiles
    <2>4. QueryTyped' /\ InWork'
      BY <1>3 DEF QueryTyped, NoQuery, InWork, Idle
    <2>5. ~Stays(<<node, n>>)
      <3>1. PICK d \in seen : n \notin (IF config.flatnodes THEN d.points ELSE d.untagged)
        BY <1>1
      <3>2. n \notin (IF config.flatnodes THEN db.untagged ELSE db.points)
        BY <1>3 DEF SecondStore
      <3> QED
        BY <2>2, <3>1, <3>2, ByType
    <2>6. \A p : Got(p) => Got(p)'
      BY <2>3 DEF Got
    <2>7. NodesWalked'
      BY <1>1, <1>3, <2>2, <2>3, <2>5, <2>6, NodePassed
    <2>8. Walking'
      BY <1>1, <2>1, <2>7 DEF Walking
    <2>9. fetched' \in BOOLEAN /\ cursor' \in Nat /\ call \in Calls /\ rows' \subseteq rows
      BY <1>1, <1>3, <2>1, <2>2 DEF TypeInv, TypeOK, Calls
    <2> QED
      BY <2>1, <2>4, <2>8, <2>9, NothingCommitted
  <1> QED
    BY <1>0, <1>2, <1>3 DEF AskSecondStore

-----------------------------------------------------------------------------
(* The loop of run(), the files and the importer.                          *)

(* Between the calls the call changes and perhaps the rows, nothing that   *)
(* is collected.                                                           *)
LEMMA BetweenCalls ==
    ASSUME ImportInv, TypeInv', UNCHANGED <<db, config, tile, collected, query, seen, read>>,
           call # "next_tile", Idle, Walking', Walked', FileIsBuffer', ReadyContent'
    PROVE  ImportInv'
  <1>1. Gathered'
    BY GatheredAlone DEF ImportInv
  <1>2. SeenSound'
    BY DEF ImportInv, SeenSound
  <1>3. QueryTyped' /\ InWork'
    BY DEF ImportInv, QueryTyped, InWork, Idle
  <1> QED
    BY <1>1, <1>2, <1>3 DEF ImportInv

(* What is collected and what stays are told by these variables.           *)
LEMMA ReachedAlone ==
    ASSUME UNCHANGED <<tile, seen, collected>>
    PROVE  /\ \A p : Got(p)' <=> Got(p)
           /\ AlwaysGot(node) => AlwaysGot(node)'
           /\ AlwaysGot(way) => AlwaysGot(way)'
           /\ AlwaysGot(relation) => AlwaysGot(relation)'
           /\ StayingWaysGot => StayingWaysGot'
           /\ StayingNodesGot => StayingNodesGot'
  <1>1. UNCHANGED <<m_buffer, m_missing_ways, m_missing_nodes>>
    BY DEF collected, missing
  <1>2. \A p : Got(p)' <=> Got(p)
    BY <1>1 DEF Got
  <1>3. seen \subseteq seen'
    OBVIOUS
  <1> QED
    BY <1>1, <1>2, <1>3, ReachedKept

(* Without recurse_ways no way is missing.                                 *)
LEMMA NoWayMissing ==
    ASSUME Gathered, ~config.recurse_ways
    PROVE  m_missing_ways = {}
  <1> SUFFICES ASSUME NEW w \in m_missing_ways PROVE FALSE
    OBVIOUS
  <1>1. PICK p \in read : <<way, w>> \in p[2] /\ Follows(p[1], <<way, w>>)
    BY DEF Gathered, MissingParts, PartOf
  <1>2. p[1][1] # way
    <2>1. ASSUME p[1][1] = way PROVE FALSE
      <3>1. <<way, w>> \in {node} \X NodeIds
        BY <1>1, <2>1 DEF Gathered, ReadTyped
      <3> QED
        BY <3>1, TypesDiffer
    <2> QED
      BY <2>1
  <1> QED
    BY <1>1, <1>2, ByType DEF Follows

(* A call that returns has got what stays inside, or what stays of the     *)
(* missing objects.                                                        *)
LEMMA CallComplete ==
    ASSUME ImportInv, CallReturns
    PROVE  /\ call \in Calls
           /\ call = "get_nodes_inside" => AlwaysGot(node)
           /\ call = "get_ways_inside" => AlwaysGot(way)
           /\ call = "get_relations_inside" => AlwaysGot(relation)
           /\ call = "get_missing_ways" => StayingWaysGot
           /\ call = "get_missing_nodes" => StayingNodesGot
  <1>1. call \in Calls
    BY DEF CallReturns, ResultsParsed, Calls
  <1>2. call = "get_nodes_inside" => AlwaysGot(node)
    BY DEF CallReturns, ResultsParsed, ImportInv, Walking, RowsOf, AlwaysGot
  <1>3. call = "get_ways_inside" => AlwaysGot(way)
    BY DEF CallReturns, ResultsParsed, ImportInv, Walking, RowsOf, AlwaysGot
  <1>4. call = "get_relations_inside" => AlwaysGot(relation)
    BY DEF CallReturns, ResultsParsed, ImportInv, Walking, RowsOf, AlwaysGot
  <1>5. call = "get_missing_ways" => StayingWaysGot
    BY DEF CallReturns, ResultsParsed, ImportInv, Walking, WaysWalked, StayingWaysGot, Exhausted
  <1>6. call = "get_missing_nodes" => StayingNodesGot
    BY DEF CallReturns, ResultsParsed, ImportInv, Walking, NodesWalked, StayingNodesGot, Exhausted
  <1> QED
    BY <1>1, <1>2, <1>3, <1>4, <1>5, <1>6

(* The next call begins.                                                   *)
LEMMA NextCallBegins ==
    ASSUME ImportInv, Idle, UNCHANGED <<query, history>>, CallReturns
    PROVE  ImportInv'
  <1>1. /\ UNCHANGED <<input, tiles, collected, output, seen, read>>
        /\ call' = CallAfter(call) /\ ~fetched' /\ fetched' = FALSE /\ rows' = {} /\ cursor' = 0
    BY DEF CallReturns, Return, history
  <1>2. UNCHANGED <<db, config, tile, collected, file_state, file_content>>
    BY <1>1 DEF input, tiles, output
  <1>3. call \in Calls /\ call # "next_tile" /\ TypeInv /\ Gathered
    BY CallComplete DEF Calls, ImportInv
  <1>4. call' \in (Calls \ {"get_nodes_inside"}) \union {"write_file"}
    BY <1>1, <1>3 DEF CallAfter, Calls
  <1>5. TypeInv'
    <2>1. CollectedOK' /\ m_buffer' = m_buffer
      BY <1>1, <1>3 DEF TypeInv, TypeOK, CollectedOK, collected, got, missing
    <2>2. TypeOK' /\ objects' = {}
      BY <1>1, <1>3, <1>4, <2>1, CallTyped
    <2> QED
      BY <1>1, <2>2 DEF TypeInv, RowsTyped
  <1>6. /\ AlwaysGot(node) => AlwaysGot(node)'
        /\ AlwaysGot(way) => AlwaysGot(way)'
        /\ AlwaysGot(relation) => AlwaysGot(relation)'
        /\ StayingWaysGot => StayingWaysGot'
        /\ StayingNodesGot => StayingNodesGot'
    BY <1>1, <1>2, ReachedAlone
  <1>7. Walking'
    <2>1. m_missing_ways' \subseteq Nat \ {0} /\ m_missing_nodes' \subseteq Nat \ {0}
      BY <1>5, IdsAssumption DEF TypeInv, TypeOK
    <2>2. WaysWalked' /\ NodesWalked'
      BY <1>1, <2>1 DEF WaysWalked, NodesWalked
    <2>3. RowsOf(way)' /\ RowsOf(relation)'
      BY <1>1 DEF RowsOf
    <2> QED
      BY <1>4, <2>2, <2>3 DEF Walking, Calls
  <1>8. ~config.recurse_ways => StayingWaysGot
    BY <1>3, NoWayMissing DEF StayingWaysGot
  <1>9. Walked'
    <2>1. ~Ready /\ ~Ready'
      BY <1>3, <1>4 DEF Ready, Calls
    <2>2. Walked
      BY DEF ImportInv
    <2> QED
      BY <1>1, <1>3, <1>6, <1>8, <2>1, <2>2, CallComplete, CallOrder
         DEF Walked, Calls, PastNodes, PastWays, PastRelations, PastMissingRelations,
             PastMissingWays, PastMissingNodes
  <1>10. FileIsBuffer' /\ ReadyContent'
    BY <1>4 DEF FileIsBuffer, ReadyContent, Ready, Calls
  <1> QED
    BY <1>1, <1>2, <1>3, <1>5, <1>7, <1>9, <1>10, BetweenCalls

(* An exception ends the run.                                              *)
LEMMA RunEnds ==
    ASSUME ImportInv, Terminate, call \notin {"next_tile", "sort_buffer_and_write_it"},
           query' \in {query, NoQuery}, UNCHANGED <<seen, read>>
    PROVE  ImportInv'
  <1>1. /\ UNCHANGED <<db, config, tile, collected>> /\ call' = "terminated"
    BY DEF Terminate, input, tiles
  <1>2. TypeInv'
    BY DEF ImportInv, TypeInv, Terminate, TypeOK, RowsTyped, ProgramPoints,
           input, tiles, reading, collected, got, missing, output
  <1>3. Gathered'
    BY <1>1, GatheredAlone DEF ImportInv
  <1>4. SeenSound' /\ QueryTyped'
    BY <1>1 DEF ImportInv, SeenSound, QueryTyped, NoQuery
  <1>5. InWork' /\ Walking' /\ FileIsBuffer' /\ ReadyContent'
    BY <1>1 DEF InWork, Walking, FileIsBuffer, ReadyContent, Ready
  <1>6. Walked'
    BY <1>1 DEF Walked, Ready, PastNodes, PastWays, PastRelations, PastMissingRelations,
                PastMissingWays, PastMissingNodes
  <1> QED
    BY <1>2, <1>3, <1>4, <1>5, <1>6 DEF ImportInv

(* The file is opened, an object written, the file closed.                 *)
LEMMA FileWritten ==
    ASSUME ImportInv, Idle, UNCHANGED <<query, history>>, WriteFile
    PROVE  ImportInv'
  <1>0. UNCHANGED <<seen, read, query>>
    BY DEF history
  <1>1. CASE FileExists
    <2>1. Terminate /\ call = "write_file"
      BY <1>1 DEF FileExists
    <2> QED
      BY <1>0, <2>1, RunEnds
  <1>2. CASE OpenFile \/ WriteObject \/ CloseFile
    <2>1. /\ TypeInv' /\ FileIsBuffer'
          /\ UNCHANGED <<db, config, tile, collected, m_buffer>>
          /\ CloseFile => \A o : o \in Content(tile)' <=> Got(o)
      BY <1>2, BufferWritten DEF ImportInv
    <2>2. /\ call \in PastMissingNodes /\ call # "next_tile"
          /\ call' \in {"sort_buffer_and_write_it", "next_tile"}
          /\ call' = "next_tile" => CloseFile
      BY <1>2 DEF OpenFile, WriteObject, CloseFile, PastMissingNodes
    <2>3. Walking'
      BY <2>2 DEF Walking
    <2>4. /\ \A p : Got(p)' <=> Got(p)
          /\ AlwaysGot(node) => AlwaysGot(node)'
          /\ AlwaysGot(way) => AlwaysGot(way)'
          /\ AlwaysGot(relation) => AlwaysGot(relation)'
          /\ StayingWaysGot => StayingWaysGot'
          /\ StayingNodesGot => StayingNodesGot'
      BY <1>0, <2>1, ReachedAlone
    <2>5. Walked'
      BY <2>2, <2>4 DEF ImportInv, Walked, PastNodes, PastWays, PastRelations,
            PastMissingRelations, PastMissingWays, PastMissingNodes
    <2>6. ReadyContent'
      BY <2>1, <2>2, <2>4 DEF ReadyContent, Ready
    <2> QED
      BY <1>0, <2>1, <2>2, <2>3, <2>5, <2>6, BetweenCalls
  <1> QED
    BY <1>1, <1>2 DEF WriteFile

(* A tile begins, with nothing seen but the present state.                 *)
LEMMA NewTile ==
    ASSUME ImportInv, BeginTile
    PROVE  ImportInv'
  <1>1. /\ TypeInv' /\ \A o : ~Got(o)'
        /\ call = "next_tile" /\ call' = "get_nodes_inside"
        /\ rows' = {} /\ ~fetched'
        /\ UNCHANGED <<db, config, file_state, file_content>>
        /\ m_location_handler' = EmptyIndex /\ m_ways_got' = {} /\ m_relations_got' = {}
        /\ m_missing_nodes' = {} /\ m_missing_ways' = {} /\ m_missing_relations' = {}
    BY TileBegun DEF BeginTile, ImportInv
  <1>2. seen' = {db} /\ read' = {} /\ query' = query
    BY DEF BeginTile
  <1>3. SeenSound'
    BY <1>1, <1>2 DEF ImportInv, SeenSound
  <1>4. Gathered'
    BY <1>1, <1>2 DEF Gathered, IndexSound, EmptyIndex, ReadTyped, PartsNoted, MissingParts, GotThere
  <1>5. QueryTyped' /\ InWork'
    BY <1>1, <1>2 DEF ImportInv, QueryTyped, InWork
  <1>6. Walking'
    BY <1>1 DEF Walking, RowsOf
  <1>7. Walked' /\ FileIsBuffer' /\ ReadyContent'
    BY <1>1 DEF Walked, FileIsBuffer, ReadyContent, Ready, PastNodes, PastWays, PastRelations,
                PastMissingRelations, PastMissingWays, PastMissingNodes
  <1> QED
    BY <1>1, <1>3, <1>4, <1>5, <1>6, <1>7 DEF ImportInv

(* The importer commits, or nothing happens.                               *)
LEMMA OnlyTheDatabase ==
    ASSUME ImportInv, db' \in Databases,
           seen' = seen \union {db'} \/ (db' = db /\ seen' = seen),
           UNCHANGED <<config, tiles, call, reading, collected, output, query, read>>
    PROVE  ImportInv'
  <1>1. seen \subseteq seen'
    OBVIOUS
  <1>2. UNCHANGED <<config, todo, tile, call, fetched, rows, cursor, objects, file_state,
                    file_content, m_buffer, m_location_handler, m_ways_got, m_relations_got,
                    m_missing_nodes, m_missing_ways, m_missing_relations>>
    BY DEF tiles, reading, collected, got, missing, output
  <1>3. TypeInv'
    BY <1>2, InputsAssumption DEF ImportInv, TypeInv, TypeOK, RowsTyped
  <1>4. SeenSound'
    BY <1>1, <1>2 DEF ImportInv, SeenSound
  <1>5. Gathered' /\ \A p : Got(p)' <=> Got(p)
    BY <1>1, <1>2, GatheredAlone DEF ImportInv
  <1>6. QueryTyped'
    BY <1>1 DEF ImportInv, QueryTyped
  <1>7. InWork'
    <2> SUFFICES ASSUME ~Idle PROVE InWork'
      BY <1>1 DEF InWork, Idle
    <2>1. InWork
      BY DEF ImportInv
    <2> QED
      BY <1>1, <1>2, <2>1 DEF InWork, IsNext
  <1>8. /\ \A o : Stays(o)' => Stays(o)
        /\ \A o : AlwaysInside(o)' => AlwaysInside(o)
        /\ \A o : SometimeInside(o) => SometimeInside(o)'
    BY <1>1, <1>2, MoreSeen
  <1>9. Walking'
    <2>1. \A type : RowsOf(type) => RowsOf(type)'
      BY <1>2, <1>5, <1>8 DEF RowsOf
    <2>2. WaysWalked => WaysWalked'
      BY <1>2, <1>5, <1>8 DEF WaysWalked
    <2>3. NodesWalked => NodesWalked'
      BY <1>2, <1>5, <1>8 DEF NodesWalked
    <2> QED
      BY <1>2, <2>1, <2>2, <2>3 DEF ImportInv, Walking
  <1>10. Ready' <=> Ready
    BY <1>2 DEF Ready, IsWritten
  <1>11. Walked'
    BY <1>1, <1>2, <1>5, <1>10, ReachedKept DEF ImportInv, Walked
  <1>12. FileIsBuffer'
    BY <1>2, <1>5 DEF ImportInv, FileIsBuffer, Content, IsWritten
  <1>13. ReadyContent'
    BY <1>2, <1>5, <1>10 DEF ImportInv, ReadyContent, Content
  <1> QED
    BY <1>3, <1>4, <1>5, <1>6, <1>7, <1>9, <1>11, <1>12, <1>13 DEF ImportInv

-----------------------------------------------------------------------------
(* Before the first tile.                                                  *)
LEMMA ImportInit == UpdatedInit => ImportInv
  <1> SUFFICES ASSUME UpdatedInit PROVE ImportInv
    OBVIOUS
  <1>1. Init /\ query = NoQuery /\ seen = {} /\ read = {}
    BY DEF UpdatedInit
  <1>2. TypeInv /\ FileIsBuffer
    BY <1>1, TileInit DEF TileInv
  <1>3. call = "next_tile" /\ db \in Databases
    BY <1>1 DEF Init
  <1>4. ~Ready
    <2>1. file_state[tile] # "written"
      BY <1>1, <1>2 DEF Init, TypeInv, TypeOK
    <2> QED
      BY <2>1 DEF Ready, IsWritten
  <1>5. \A o : ~Got(o)
    BY <1>1 DEF Init, Got
  <1>6. SeenSound /\ QueryTyped /\ InWork
    BY <1>1, <1>3 DEF SeenSound, QueryTyped, NoQuery, InWork, Idle
  <1>7. Gathered
    BY <1>1, <1>5 DEF Init, EmptyIndex, Gathered, IndexSound, ReadTyped, PartsNoted, MissingParts,
                      GotThere
  <1>8. Walking /\ Walked /\ ReadyContent
    BY <1>3, <1>4 DEF Walking, Walked, ReadyContent, PastNodes, PastWays, PastRelations,
                      PastMissingRelations, PastMissingWays, PastMissingNodes
  <1> QED
    BY <1>2, <1>6, <1>7, <1>8 DEF ImportInv

(* Every step of the generator or the importer keeps the invariant.        *)
LEMMA ImportStep == ImportInv /\ [UpdatedNext]_updatedVars => ImportInv'
  <1> SUFFICES ASSUME ImportInv, [UpdatedNext]_updatedVars PROVE ImportInv'
    OBVIOUS
  <1>1. CASE Import
    BY <1>1, OnlyTheDatabase DEF Import
  <1>2. CASE BeginTile
    BY <1>2, NewTile
  <1>3. CASE OneQuery
    <2>1. Idle /\ UNCHANGED <<query, history>>
      BY <1>3 DEF OneQuery
    <2>2. CASE GetNodesInside \/ GetWaysInside \/ GetRelationsInside
      BY <2>1, <2>2, RowsSelected
    <2>3. CASE NodeRow
      BY <2>1, <2>3, NodeRead
    <2>4. CASE CallReturns
      BY <2>1, <2>4, NextCallBegins
    <2>5. CASE WriteFile
      BY <2>1, <2>5, FileWritten
    <2> QED
      BY <1>3, <2>2, <2>3, <2>4, <2>5 DEF OneQuery
  <1>4. CASE ReadWay
    BY <1>4, WayRead
  <1>5. CASE AskWay
    BY <1>5, WayAsked
  <1>6. CASE FinishWay
    BY <1>6, WayFinished
  <1>7. CASE TakeRelation
    BY <1>7, RelationTaken
  <1>8. CASE AskRelation
    BY <1>8, RelationAsked
  <1>9. CASE AskMembers
    BY <1>9, MembersAsked
  <1>10. CASE FinishRelation
    BY <1>10, RelationFinished
  <1>11. CASE AskFirstStore
    BY <1>11, FirstStoreAsked
  <1>12. CASE AskSecondStore
    <2>1. CASE Terminate
      <3>1. call = "get_missing_nodes" /\ query' = NoQuery /\ UNCHANGED <<seen, read>>
        BY <1>12, <2>1 DEF AskSecondStore, FoundNode, Terminate, history
      <3> QED
        BY <2>1, <3>1, RunEnds
    <2> QED
      BY <1>12, <2>1, SecondStoreAsked
  <1>13. CASE UNCHANGED updatedVars
    <2>1. /\ db' = db /\ seen' = seen /\ db \in Databases
          /\ UNCHANGED <<config, tiles, call, reading, collected, output, query, read>>
      BY <1>13 DEF updatedVars, vars, input, history, ImportInv, SeenSound
    <2> QED
      BY <2>1, OnlyTheDatabase
  <1>14. CASE OneQueryFails
    <2>1. /\ Terminate /\ call \notin {"next_tile", "sort_buffer_and_write_it"}
          /\ query' = NoQuery /\ UNCHANGED <<seen, read>>
      BY <1>14 DEF OneQueryFails, QueryFails, Calls, history
    <2> QED
      BY <2>1, RunEnds
  <1> QED
    BY <1>1, <1>2, <1>3, <1>4, <1>5, <1>6, <1>7, <1>8, <1>9, <1>10, <1>11, <1>12, <1>13, <1>14
       DEF UpdatedNext, Generate

(* Whatever is imported in between, for any databases, options and lists   *)
(* of tiles: what is inside the tile all the time is in its file.          *)
THEOREM StayingObjectsAlwaysWritten == UpdatedSpec => []StayingObjectsWritten
  <1>1. ImportInv => StayingObjectsWritten
    <2> SUFFICES ASSUME ImportInv, Ready, NEW o \in Object,
                        \A d \in seen : o \in Inside(d, tile)
                 PROVE  o \in Content(tile)
      BY DEF StayingObjectsWritten
    <2>1. AlwaysGot(node) /\ AlwaysGot(way) /\ AlwaysGot(relation)
      BY DEF ImportInv, Walked
    <2>2. AlwaysInside(o)
      BY DEF AlwaysInside
    <2>3. Got(o)
      BY <2>1, <2>2, ObjectForms, IdsAssumption DEF AlwaysGot
    <2> QED
      BY <2>3 DEF ImportInv, ReadyContent
  <1> QED
    BY ImportInit, ImportStep, <1>1, PTL DEF UpdatedSpec

(* No way or relation of a file lacks a node, and no relation a way, that  *)
(* was read as its part and stayed where it was.                           *)
THEOREM StayingPartsAlwaysWritten == UpdatedSpec => []StayingPartsWritten
  <1>1. ImportInv => StayingPartsWritten
    <2> SUFFICES ASSUME ImportInv, Ready, NEW p \in read, NEW m \in p[2],
                        Stays(m), m[1] # relation, p[1][1] = way \/ Recursed(m)
                 PROVE  m \in Content(tile)
      BY DEF StayingPartsWritten
    <2>1. StayingWaysGot /\ StayingNodesGot /\ Gathered
      BY DEF ImportInv, Walked
    <2>2. m \in Object /\ Follows(p[1], m)
      BY <2>1 DEF Gathered, ReadTyped, Follows
    <2>3. /\ m[1] = node => Got(m) \/ m[2] \in m_missing_nodes
          /\ m[1] = way => m[2] \in m_missing_ways
      BY <2>1, <2>2 DEF Gathered, PartsNoted
    <2>4. m = <<m[1], m[2]>> /\ (m[1] = node \/ m[1] = way)
      BY <2>2, ObjectForms
    <2>5. Got(m)
      BY <2>1, <2>3, <2>4 DEF StayingWaysGot, StayingNodesGot
    <2> QED
      BY <2>5 DEF ImportInv, ReadyContent
  <1> QED
    BY ImportInit, ImportStep, <1>1, PTL DEF UpdatedSpec

(* Nothing in a file is made up: each object was in the database at some   *)
(* time since the tile was begun, inside it or read as a part of another   *)
(* object of the file.                                                     *)
THEOREM ObjectsAlwaysWereThere == UpdatedSpec => []ObjectsWereThere
  <1>1. ImportInv => ObjectsWereThere
    <2> SUFFICES ASSUME ImportInv, Ready, NEW o \in Content(tile)
                 PROVE  \E d \in seen :
                            /\ o \in Stored(d)
                            /\ \/ o \in d.inside[tile]
                               \/ \E p \in read :
                                    /\ p[1] \in Content(tile) /\ o \in p[2]
                                    /\ p[1][1] = way \/ Recursed(o)
      BY DEF ObjectsWereThere
    <2>1. Got(o) /\ \A q : q \in Content(tile) <=> Got(q)
      BY DEF ImportInv, ReadyContent
    <2>2. o \in Object
      BY <2>1 DEF ImportInv, TypeInv, TypeOK, Got
    <2>3. WasThere(o)
      BY <2>1, <2>2 DEF ImportInv, Gathered, GotThere
    <2> QED
      BY <2>1, <2>3 DEF WasThere, PartOf, Follows
  <1> QED
    BY ImportInit, ImportStep, <1>1, PTL DEF UpdatedSpec
=============================================================================
