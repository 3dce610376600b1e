---------------------- MODULE OSMVectorTileImplProofs ----------------------
(***************************************************************************)
(* What every data source owes the tile builder and gets from it: the      *)
(* lemmas on callbacks, files and the promise TileContents, for any data   *)
(* source that extends NodesProvider. What a source has to show is that    *)
(* each of its calls has done its work when it returns (CallDone).         *)
(***************************************************************************)
EXTENDS NodesProvider, TLAPS

-----------------------------------------------------------------------------
(* Types.                                                                  *)

(* What the callbacks keep: the typed part of the collected state.         *)
CollectedOK ==
    /\ m_buffer \in Seq(Object)
    /\ m_location_handler \in [ids : SUBSET NodeIds, last : Nat, sorted : BOOLEAN]
    /\ m_ways_got \subseteq WayIds /\ m_relations_got \subseteq RelationIds
    /\ m_missing_nodes \subseteq NodeIds
    /\ m_missing_ways \subseteq WayIds
    /\ m_missing_relations \subseteq RelationIds

(* The rows of a call are ids of the type it asks for, and no call leaves  *)
(* something to the next.                                                  *)
RowsTyped ==
    /\ call = "get_nodes_inside" => rows \subseteq NodeIds
    /\ call \in {"get_ways_inside", "get_missing_ways"} => rows \subseteq WayIds
    /\ call \in {"get_relations_inside", "get_missing_relations"} => rows \subseteq RelationIds
    /\ call \in {"next_tile", "write_file", "sort_buffer_and_write_it"} => ~fetched /\ rows = {}
    /\ call # "sort_buffer_and_write_it" => objects = {}

TypeInv == TypeOK /\ RowsTyped

-----------------------------------------------------------------------------
(* What is collected.                                                      *)

(* An object is in the buffer.                                             *)
Got(o) == \E i \in DOMAIN m_buffer : m_buffer[i] = o

(* Nodes the index has are in the buffer.                                  *)
IndexSound == \A n \in m_location_handler.ids : Got(<<node, n>>)

(* Nodes of collected ways are in the buffer or noted as missing.          *)
RefsAccounted ==
    \A w \in WayIds : Got(<<way, w>>) =>
        \A n \in db.refs[w] : Got(<<node, n>>) \/ n \in m_missing_nodes

(* The options follow the references of relations to objects of this type. *)
IsFollowed(o) ==
    \/ o[1] = node /\ config.recurse_nodes
    \/ o[1] = way /\ config.recurse_ways
    \/ o[1] = relation /\ config.recurse_relations

(* Members of collected relations are noted, or in the buffer if they are  *)
(* nodes.                                                                  *)
MembersAccounted ==
    \A r \in RelationIds : Got(<<relation, r>>) =>
        \A m \in db.members[r] : IsFollowed(m) =>
            /\ m[1] = node => Got(m) \/ m[2] \in m_missing_nodes
            /\ m[1] = way => m[2] \in m_missing_ways
            /\ m[1] = relation => m[2] \in m_missing_relations

(* A collected object refers to this one, and that is followed.            *)
Asked(o) ==
    \/ o[1] = node /\ \E w \in WayIds : Got(<<way, w>>) /\ o[2] \in db.refs[w]
    \/ IsFollowed(o) /\ \E r \in RelationIds : Got(<<relation, r>>) /\ o \in db.members[r]

(* Nothing is noted that no object asks for.                               *)
MissingAsked ==
    /\ \A n \in m_missing_nodes : Asked(<<node, n>>)
    /\ \A w \in m_missing_ways : Asked(<<way, w>>)
    /\ \A r \in m_missing_relations : Asked(<<relation, r>>)

(* An object may come into the buffer.                                     *)
Welcome(o) == o \in Stored(db) /\ (o \in db.inside[tile] \/ Asked(o))

GotWelcome == \A o \in Object : Got(o) => Welcome(o)

(* m_ways_got and m_relations_got are never filled.                        *)
Collection ==
    /\ IndexSound /\ RefsAccounted /\ MembersAccounted
    /\ MissingAsked /\ GotWelcome
    /\ m_ways_got = {} /\ m_relations_got = {}

-----------------------------------------------------------------------------
(* What is complete after each of the six calls.                           *)

PastMissingNodes == {"write_file", "sort_buffer_and_write_it"}
PastMissingWays == PastMissingNodes \union {"get_missing_nodes"}
PastMissingRelations == PastMissingWays \union {"get_missing_ways"}
PastRelations == PastMissingRelations \union {"get_missing_relations"}
PastWays == PastRelations \union {"get_relations_inside"}
PastNodes == PastWays \union {"get_ways_inside"}

InsideGot(type) == \A id \in IdsOf(type, Inside(db, tile)) : Got(<<type, id>>)

(* Stored relations that relations inside the tile refer to.               *)
Owed ==
    {m \in db.relations : \E r \in IdsOf(relation, Inside(db, tile)) :
                            <<relation, m>> \in db.members[r]}

OwedGot == config.recurse_relations => \A m \in Owed : Got(<<relation, m>>)
WaysFetched == \A w \in m_missing_ways \intersect db.ways : Got(<<way, w>>)
NodesFetched == \A n \in m_missing_nodes \intersect Located(db) : Got(<<node, n>>)

PhasesDone ==
    /\ call \in PastNodes => InsideGot(node)
    /\ call \in PastWays => InsideGot(way)
    /\ call \in PastRelations => InsideGot(relation)
    /\ call \in PastMissingRelations => OwedGot
    /\ call \in PastMissingWays => WaysFetched
    /\ call \in PastMissingNodes => NodesFetched

(* The call that runs has done its part.                                   *)
CallDone ==
    /\ call = "get_nodes_inside" => InsideGot(node)
    /\ call = "get_ways_inside" => InsideGot(way)
    /\ call = "get_relations_inside" => InsideGot(relation)
    /\ call = "get_missing_relations" => OwedGot
    /\ call = "get_missing_ways" => WaysFetched
    /\ call = "get_missing_nodes" => NodesFetched

(* The calls of the NodesProvider, on their way.                           *)
NodesReading ==
    /\ call = "get_nodes_inside" =>
        /\ rows \subseteq IdsOf(node, Inside(db, tile))
        /\ fetched => \A n \in IdsOf(node, Inside(db, tile)) : Got(<<node, n>>) \/ n \in rows
    /\ call = "get_missing_nodes" =>
        \A n \in m_missing_nodes \intersect Located(db) : n <= cursor => Got(<<node, n>>)

-----------------------------------------------------------------------------
(* The files.                                                              *)

(* The open file and the positions still to write make up the buffer.      *)
FileIsBuffer ==
    call = "sort_buffer_and_write_it" =>
        /\ \A i \in DOMAIN m_buffer \ objects : m_buffer[i] \in Content(tile)
        /\ \A o \in Content(tile) : Got(o)
        /\ ~IsWritten(tile)

FilesAcceptable ==
    \A t \in Tiles : IsWritten(t) => Acceptable(db, config, t, Content(t))

(* What is still to write does not belong in front of what is written.     *)
OrderKept ==
    call = "sort_buffer_and_write_it" /\ file_content[tile] # <<>> =>
        \A i \in objects : ~Precedes(m_buffer[i], Last(file_content[tile]))

(* What every data source keeps.                                           *)
TileInv ==
    /\ TypeInv /\ Collection /\ PhasesDone /\ NodesReading
    /\ FileIsBuffer /\ FilesAcceptable /\ OrderKept /\ FilesOrdered

-----------------------------------------------------------------------------
(***************************************************************************)
(* Lemmas on the operators the tile builder is made from.                  *)
(***************************************************************************)

(* The objects of a set by their types and ids.                            *)
LEMMA IdsOfObjects ==
    ASSUME NEW S \in SUBSET Object
    PROVE  /\ IdsOf(node, S) \subseteq NodeIds
           /\ IdsOf(way, S) \subseteq WayIds
           /\ IdsOf(relation, S) \subseteq RelationIds
           /\ \A id : id \in IdsOf(node, S) <=> <<node, id>> \in S
           /\ \A id : id \in IdsOf(way, S) <=> <<way, id>> \in S
           /\ \A id : id \in IdsOf(relation, S) <=> <<relation, id>> \in S
  BY DEF IdsOf, Object, node, way, relation

(* An object is its type and its id.                                       *)
LEMMA ObjectForms ==
    ASSUME NEW o \in Object
    PROVE  \/ \E n \in NodeIds : o = <<node, n>>
           \/ \E w \in WayIds : o = <<way, w>>
           \/ \E r \in RelationIds : o = <<relation, r>>
  BY DEF Object

(* The types are told apart.                                               *)
LEMMA TypesDiffer ==
    /\ \A a, b : <<node, a>> # <<way, b>> /\ <<node, a>> # <<relation, b>>
                    /\ <<way, a>> # <<relation, b>>
    /\ node # way /\ node # relation /\ way # relation
  BY DEF node, way, relation

(* What the database stores are objects, ...                               *)
LEMMA StoredObjects ==
    ASSUME NEW d \in Database
    PROVE  /\ Stored(d) \in SUBSET Object
           /\ \A n : <<node, n>> \in Stored(d) <=> n \in Located(d)
           /\ \A w : <<way, w>> \in Stored(d) <=> w \in d.ways
           /\ \A r : <<relation, r>> \in Stored(d) <=> r \in d.relations
  <1>1. /\ Located(d) \subseteq NodeIds
        /\ d.ways \subseteq WayIds /\ d.relations \subseteq RelationIds
    BY DEF Database, Located
  <1> QED
    BY <1>1 DEF Stored, Object, node, way, relation

(* ... and so is the answer to a spatial query.                            *)
LEMMA InsideObjects ==
    ASSUME TypeOK
    PROVE  /\ Inside(db, tile) \in SUBSET Object
           /\ Inside(db, tile) \subseteq Stored(db)
           /\ Inside(db, tile) \subseteq db.inside[tile]
           /\ IdsOf(node, Inside(db, tile)) \subseteq NodeIds
           /\ IdsOf(way, Inside(db, tile)) \subseteq WayIds
           /\ IdsOf(relation, Inside(db, tile)) \subseteq RelationIds
  <1>1. db.inside[tile] \in SUBSET Object
    BY DEF TypeOK, Database
  <1>2. Inside(db, tile) \in SUBSET Object
    BY <1>1 DEF Inside
  <1> QED
    BY <1>2, IdsOfObjects DEF Inside

(* What one commit to the buffer changes.                                  *)
LEMMA Committed ==
    ASSUME NEW o \in Object, m_buffer \in Seq(Object), m_buffer' = Append(m_buffer, o)
    PROVE  \A p : Got(p)' <=> (Got(p) \/ p = o)
  <1>1. DOMAIN m_buffer = 1..Len(m_buffer) /\ Len(m_buffer) \in Nat
    OBVIOUS
  <1>2. /\ DOMAIN m_buffer' = 1..(Len(m_buffer) + 1)
        /\ m_buffer'[Len(m_buffer) + 1] = o
        /\ \A i \in 1..Len(m_buffer) : m_buffer'[i] = m_buffer[i]
    OBVIOUS
  <1> QED
    BY <1>1, <1>2 DEF Got

(* The elements of a sequence with one more.                               *)
LEMMA Appended ==
    ASSUME NEW o \in Object, NEW s \in Seq(Object)
    PROVE  ToSet(Append(s, o)) = ToSet(s) \union {o}
  <1>1. Len(s) \in Nat /\ DOMAIN s = 1..Len(s)
    OBVIOUS
  <1>2. /\ DOMAIN Append(s, o) = 1..(Len(s) + 1)
        /\ Append(s, o)[Len(s) + 1] = o
        /\ \A j \in 1..Len(s) : Append(s, o)[j] = s[j]
    OBVIOUS
  <1>3. \A j \in 1..(Len(s) + 1) : j \in 1..Len(s) \/ j = Len(s) + 1
    BY <1>1
  <1>4. \A j \in 1..Len(s) : j \in 1..(Len(s) + 1)
    BY <1>1
  <1>5. Len(s) + 1 \in 1..(Len(s) + 1)
    BY <1>1
  <1> DEFINE a == Append(s, o)
  <1> HIDE DEF a
  <1>6. \A x : x \in ToSet(a) <=> x \in ToSet(s) \/ x = o
    BY <1>1, <1>2, <1>3, <1>4, <1>5 DEF ToSet, a
  <1> QED
    BY <1>6 DEF a

(* A lookup reports every node that is not in the index, and no other than *)
(* those it was asked for.                                                 *)
LEMMA NotFoundReports ==
    ASSUME NEW refs, NEW unavailable \in NotFound(refs)
    PROVE  /\ unavailable \subseteq refs
           /\ \A n \in refs : n \in unavailable \/ n \in m_location_handler.ids
  BY DEF NotFound

(* An object that is asked for stays so while the buffer grows.            *)
LEMMA AskedKept ==
    ASSUME UNCHANGED <<db, config>>, \A p : Got(p) => Got(p)'
    PROVE  \A o : Asked(o) => Asked(o)'
  <1> SUFFICES ASSUME NEW o, Asked(o) PROVE Asked(o)'
    OBVIOUS
  <1>1. IsFollowed(o)' <=> IsFollowed(o)
    BY DEF IsFollowed
  <1> QED
    BY <1>1 DEF Asked

-----------------------------------------------------------------------------
(***************************************************************************)
(* The callbacks.                                                          *)
(***************************************************************************)

(* What a callback does with an object o that may come into the buffer.    *)
Added(o) ==
    /\ CollectedOK' /\ DOMAIN m_buffer \subseteq DOMAIN m_buffer'
    /\ Collection'
    /\ \A p : Got(p)' <=> (Got(p) \/ p = o)
    /\ m_missing_relations \subseteq m_missing_relations'
    /\ o[1] = node => UNCHANGED m_missing_nodes
    /\ o[1] # relation => UNCHANGED <<m_missing_ways, m_missing_relations>>

(* A node goes to the index.                                               *)
LEMMA AddNodeAdds ==
    ASSUME TypeOK, Collection, NEW n \in NodeIds, Welcome(<<node, n>>), add_node(n),
           UNCHANGED <<db, config, tile>>
    PROVE  Added(<<node, n>>)
  <1> DEFINE o == <<node, n>>
  <1>0. o \in Object /\ n \in Nat
    BY IdsAssumption DEF Object
  <1>1. CollectedOK' /\ DOMAIN m_buffer \subseteq DOMAIN m_buffer'
    BY <1>0 DEF TypeOK, add_node, CollectedOK, got, missing
  <1>2. \A p : Got(p)' <=> (Got(p) \/ p = o)
    BY <1>0, Committed DEF TypeOK, add_node
  <1>3. \A p : Asked(p) => Asked(p)'
    BY <1>2, AskedKept
  <1>4. UNCHANGED <<m_ways_got, m_relations_got, m_missing_nodes, m_missing_ways,
                    m_missing_relations>>
    BY DEF add_node, got, missing
  <1> HIDE DEF o
  <1>5. IndexSound'
    BY <1>2 DEF Collection, IndexSound, add_node, TypeOK, o
  <1>6. RefsAccounted'
    BY <1>2, <1>4, TypesDiffer DEF Collection, RefsAccounted, o
  <1>7. MembersAccounted'
    BY <1>2, <1>4, TypesDiffer DEF Collection, MembersAccounted, IsFollowed, o
  <1>8. MissingAsked'
    BY <1>3, <1>4 DEF Collection, MissingAsked
  <1>9. GotWelcome'
    BY <1>2, <1>3 DEF Collection, GotWelcome, Welcome, o
  <1> QED
    BY <1>1, <1>2, <1>4, <1>5, <1>6, <1>7, <1>8, <1>9 DEF Added, Collection, o

(* A way notes the nodes the index does not find.                          *)
LEMMA AddWayAdds ==
    ASSUME TypeOK, Collection, NEW w \in WayIds, Welcome(<<way, w>>), add_way(w),
           UNCHANGED <<db, config, tile>>
    PROVE  Added(<<way, w>>)
  <1> DEFINE o == <<way, w>>
  <1>0. o \in Object
    BY DEF Object
  <1>1. PICK unavailable \in NotFound(db.refs[w]) :
            m_missing_nodes' = m_missing_nodes \union unavailable
    BY DEF add_way, AddWay
  <1>2. /\ m_buffer' = Append(m_buffer, o)
        /\ UNCHANGED <<m_location_handler, m_ways_got, m_relations_got, m_missing_ways,
                       m_missing_relations>>
    BY DEF add_way, AddWay, got
  <1>3. /\ unavailable \subseteq db.refs[w] /\ db.refs[w] \subseteq NodeIds
        /\ \A n \in db.refs[w] : n \in unavailable \/ n \in m_location_handler.ids
    BY <1>1, NotFoundReports DEF TypeOK, Database
  <1>4. CollectedOK' /\ DOMAIN m_buffer \subseteq DOMAIN m_buffer'
    BY <1>0, <1>1, <1>2, <1>3 DEF TypeOK, CollectedOK
  <1>5. \A p : Got(p)' <=> (Got(p) \/ p = o)
    BY <1>0, <1>2, Committed DEF TypeOK
  <1>6. \A p : Asked(p) => Asked(p)'
    BY <1>5, AskedKept
  <1> HIDE DEF o
  <1>7. IndexSound'
    BY <1>2, <1>5 DEF Collection, IndexSound
  <1>8. RefsAccounted'
    <2> SUFFICES ASSUME NEW v \in WayIds, Got(<<way, v>>)', NEW n \in db.refs[v]
                 PROVE  Got(<<node, n>>)' \/ n \in m_missing_nodes'
      BY DEF RefsAccounted
    <2>1. CASE Got(<<way, v>>)
      BY <1>1, <1>5, <2>1 DEF Collection, RefsAccounted
    <2>2. CASE v = w
      BY <1>1, <1>3, <1>5, <2>2 DEF Collection, IndexSound
    <2> QED
      BY <1>5, <2>1, <2>2 DEF o
  <1>9. MembersAccounted'
    BY <1>1, <1>2, <1>5, TypesDiffer DEF Collection, MembersAccounted, IsFollowed, o
  <1>10. MissingAsked'
    <2>1. Got(<<way, w>>)'
      BY <1>5 DEF o
    <2>2. \A n \in unavailable : Asked(<<node, n>>)'
      BY <1>3, <2>1 DEF Asked
    <2> QED
      BY <1>1, <1>2, <1>6, <2>2 DEF Collection, MissingAsked
  <1>11. GotWelcome'
    BY <1>5, <1>6 DEF Collection, GotWelcome, Welcome, o
  <1> QED
    BY <1>2, <1>4, <1>5, <1>7, <1>8, <1>9, <1>10, <1>11, TypesDiffer DEF Added, Collection, o

(* A relation notes the members the options ask for.                       *)
LEMMA AddRelationAdds ==
    ASSUME TypeOK, Collection, NEW r \in RelationIds, Welcome(<<relation, r>>),
           add_relation(r), UNCHANGED <<db, config, tile>>
    PROVE  Added(<<relation, r>>)
  <1> DEFINE o == <<relation, r>>
             members == db.members[r]
             Asks(type, recurse) == IF recurse THEN IdsOf(type, members) ELSE {}
  <1>0. o \in Object /\ members \in SUBSET Object
    BY DEF Object, TypeOK, Database
  <1>1. PICK unavailable \in NotFound(Asks(node, config.recurse_nodes)) :
            m_missing_nodes' = m_missing_nodes \union unavailable
    BY DEF add_relation, AddRelation
  <1>2. /\ m_buffer' = Append(m_buffer, o)
        /\ m_missing_ways' = m_missing_ways \union Asks(way, config.recurse_ways)
        /\ m_missing_relations' = m_missing_relations
                \union Asks(relation, config.recurse_relations)
        /\ UNCHANGED <<m_location_handler, m_ways_got, m_relations_got>>
    BY DEF add_relation, AddRelation, got, Collection
  <1>3. /\ \A id \in Asks(node, config.recurse_nodes) :
            id \in NodeIds /\ config.recurse_nodes /\ <<node, id>> \in members
        /\ \A id \in Asks(way, config.recurse_ways) :
            id \in WayIds /\ config.recurse_ways /\ <<way, id>> \in members
        /\ \A id \in Asks(relation, config.recurse_relations) :
            id \in RelationIds /\ config.recurse_relations /\ <<relation, id>> \in members
    BY <1>0, IdsOfObjects
  <1>4. /\ \A id : config.recurse_nodes /\ <<node, id>> \in members
                        => id \in Asks(node, config.recurse_nodes)
        /\ \A id : config.recurse_ways /\ <<way, id>> \in members
                        => id \in Asks(way, config.recurse_ways)
        /\ \A id : config.recurse_relations /\ <<relation, id>> \in members
                        => id \in Asks(relation, config.recurse_relations)
    BY <1>0, IdsOfObjects
  <1> HIDE DEF o, Asks, members
  <1>5. /\ unavailable \subseteq Asks(node, config.recurse_nodes)
        /\ \A n \in Asks(node, config.recurse_nodes) :
                n \in unavailable \/ n \in m_location_handler.ids
    BY <1>1, NotFoundReports
  <1>6. CollectedOK' /\ DOMAIN m_buffer \subseteq DOMAIN m_buffer'
    <2>1. /\ unavailable \subseteq NodeIds
          /\ Asks(way, config.recurse_ways) \subseteq WayIds
          /\ Asks(relation, config.recurse_relations) \subseteq RelationIds
      BY <1>3, <1>5
    <2> QED
      BY <1>0, <1>1, <1>2, <2>1 DEF TypeOK, CollectedOK
  <1>7. \A p : Got(p)' <=> (Got(p) \/ p = o)
    BY <1>0, <1>2, Committed DEF TypeOK
  <1>8. \A p : Asked(p) => Asked(p)'
    BY <1>7, AskedKept
  <1>9. IndexSound'
    BY <1>2, <1>7 DEF Collection, IndexSound
  <1>10. RefsAccounted'
    BY <1>1, <1>7, TypesDiffer DEF Collection, RefsAccounted, o
  <1>11. MembersAccounted'
    <2> SUFFICES ASSUME NEW q \in RelationIds, Got(<<relation, q>>)',
                        NEW m \in db.members[q], IsFollowed(m)
                 PROVE  /\ m[1] = node => Got(m)' \/ m[2] \in m_missing_nodes'
                        /\ m[1] = way => m[2] \in m_missing_ways'
                        /\ m[1] = relation => m[2] \in m_missing_relations'
      BY DEF MembersAccounted, IsFollowed
    <2>1. CASE Got(<<relation, q>>)
      BY <1>1, <1>2, <1>7, <2>1 DEF Collection, MembersAccounted
    <2>2. CASE q = r
      <3>1. m \in members /\ m \in Object
        BY <1>0, <2>2 DEF members
      <3>2. CASE \E n \in NodeIds : m = <<node, n>>
        <4>1. PICK n \in NodeIds : m = <<node, n>>
          BY <3>2
        <4>2. config.recurse_nodes
          BY <4>1, TypesDiffer DEF IsFollowed
        <4>3. n \in unavailable \/ n \in m_location_handler.ids
          BY <1>4, <1>5, <3>1, <4>1, <4>2
        <4> QED
          BY <1>1, <1>7, <4>1, <4>3, TypesDiffer DEF Collection, IndexSound
      <3>3. CASE \E w \in WayIds : m = <<way, w>>
        BY <1>2, <1>4, <3>1, <3>3, TypesDiffer DEF IsFollowed
      <3>4. CASE \E v \in RelationIds : m = <<relation, v>>
        BY <1>2, <1>4, <3>1, <3>4, TypesDiffer DEF IsFollowed
      <3> QED
        BY <3>1, <3>2, <3>3, <3>4, ObjectForms
    <2> QED
      BY <1>7, <2>1, <2>2 DEF o
  <1>12. MissingAsked'
    <2>1. Got(<<relation, r>>)' /\ db.members[r]' = members
      BY <1>7 DEF o, members
    <2>2. \A n \in unavailable : Asked(<<node, n>>)'
      BY <1>3, <1>5, <2>1 DEF Asked, IsFollowed
    <2>3. \A w \in Asks(way, config.recurse_ways) : Asked(<<way, w>>)'
      BY <1>3, <2>1 DEF Asked, IsFollowed
    <2>4. \A v \in Asks(relation, config.recurse_relations) : Asked(<<relation, v>>)'
      BY <1>3, <2>1 DEF Asked, IsFollowed
    <2> QED
      BY <1>1, <1>2, <1>8, <2>2, <2>3, <2>4 DEF Collection, MissingAsked
  <1>13. GotWelcome'
    BY <1>7, <1>8 DEF Collection, GotWelcome, Welcome, o
  <1> QED
    BY <1>2, <1>6, <1>7, <1>9, <1>10, <1>11, <1>12, <1>13, TypesDiffer
       DEF Added, Collection, o

-----------------------------------------------------------------------------
(***************************************************************************)
(* The calls. A step of one adds an object or leaves the collection alone; *)
(* Return needs what the call owes (CallDone).                             *)
(***************************************************************************)

(* The collection is a function of the state named here.                   *)
LEMMA CollectionAlone ==
    ASSUME UNCHANGED <<db, config, tile, collected>>
    PROVE  /\ \A p : Got(p)' <=> Got(p)
           /\ Collection => Collection'
           /\ InsideGot(node) => InsideGot(node)'
           /\ InsideGot(way) => InsideGot(way)'
           /\ InsideGot(relation) => InsideGot(relation)'
           /\ OwedGot => OwedGot'
           /\ WaysFetched => WaysFetched'
           /\ NodesFetched => NodesFetched'
  <1>0. UNCHANGED <<m_buffer, m_location_handler, m_ways_got, m_relations_got,
                    m_missing_nodes, m_missing_ways, m_missing_relations>>
    BY DEF collected, got, missing
  <1>1. \A p : Got(p)' <=> Got(p)
    BY <1>0 DEF Got
  <1>2. \A p : Asked(p) => Asked(p)'
    BY <1>1, AskedKept
  <1>3. Collection => Collection'
    BY <1>0, <1>1, <1>2 DEF Collection, IndexSound, RefsAccounted, MembersAccounted,
          MissingAsked, GotWelcome, Welcome, IsFollowed
  <1>4. Owed' = Owed
    BY DEF Owed, Inside
  <1> QED
    BY <1>0, <1>1, <1>3, <1>4
       DEF InsideGot, Inside, OwedGot, WaysFetched, NodesFetched, Located

(* What was complete stays so when an object comes into the buffer; a      *)
(* relation adds to the missing ways and a way to the missing nodes.       *)
LEMMA AddedKeeps ==
    ASSUME NEW o, Added(o), UNCHANGED <<db, config, tile>>
    PROVE  /\ InsideGot(node) => InsideGot(node)'
           /\ InsideGot(way) => InsideGot(way)'
           /\ InsideGot(relation) => InsideGot(relation)'
           /\ OwedGot => OwedGot'
           /\ o[1] # relation /\ WaysFetched => WaysFetched'
  <1>1. \A p : Got(p) => Got(p)'
    BY DEF Added
  <1>2. Owed' = Owed
    BY DEF Owed, Inside
  <1> QED
    BY <1>1, <1>2 DEF Added, InsideGot, Inside, OwedGot, WaysFetched

(* Files that are not touched stay acceptable and in order.                *)
LEMMA FilesAlone ==
    ASSUME UNCHANGED <<db, config, file_state, file_content>>
    PROVE  /\ FilesAcceptable => FilesAcceptable'
           /\ FilesOrdered => FilesOrdered'
  BY DEF FilesAcceptable, FilesOrdered, IsWritten, Content, Acceptable, WaysComplete,
         MembersComplete, Justified, Inside, Stored, Located

(* A step of a call keeps the types if its query result has them.          *)
LEMMA CallTyped ==
    ASSUME TypeInv, call \in Calls, call' \in Calls \union {"write_file", "terminated"},
           CollectedOK', DOMAIN m_buffer \subseteq DOMAIN m_buffer',
           UNCHANGED <<input, tiles, output>>,
           fetched' \in BOOLEAN, rows' \subseteq Nat, cursor' \in Nat
    PROVE  TypeOK' /\ objects' = {}
  BY DEF TypeInv, TypeOK, RowsTyped, CollectedOK, Calls, ProgramPoints, input, tiles, output

(* A call for ways or relations adds an object.                            *)
LEMMA ObjectAdded ==
    ASSUME TileInv, NEW o, Added(o),
           call \in Calls \ {"get_nodes_inside", "get_missing_nodes"},
           UNCHANGED <<input, tiles, call, fetched, output>>,
           rows' \subseteq rows, cursor' \in Nat
    PROVE  TileInv'
  <1>1. UNCHANGED <<db, config, tile, file_state, file_content>>
    BY DEF input, tiles, output
  <1>2. TypeOK' /\ objects' = {}
    <2>1. fetched' \in BOOLEAN /\ rows' \subseteq Nat
      BY DEF TileInv, TypeInv, TypeOK
    <2> QED
      BY <2>1, CallTyped DEF TileInv, Added
  <1>3. TypeInv'
    BY <1>2 DEF TileInv, TypeInv, RowsTyped, Calls
  <1>4. PhasesDone'
    BY <1>1, AddedKeeps DEF TileInv, PhasesDone, Calls, PastNodes, PastWays, PastRelations,
          PastMissingRelations, PastMissingWays, PastMissingNodes
  <1>5. NodesReading' /\ FileIsBuffer' /\ OrderKept'
    BY DEF NodesReading, FileIsBuffer, OrderKept, Calls
  <1> QED
    BY <1>1, <1>3, <1>4, <1>5, FilesAlone DEF TileInv, Added

(* A call for ways or relations sends a query or passes an id.             *)
LEMMA CallGoesOn ==
    ASSUME TileInv, call \in Calls \ {"get_nodes_inside", "get_missing_nodes"},
           UNCHANGED <<input, tiles, call, collected, output>>,
           fetched' \in BOOLEAN, cursor' \in Nat,
           call \in {"get_ways_inside", "get_missing_ways"} => rows' \subseteq WayIds,
           call \in {"get_relations_inside", "get_missing_relations"}
                => rows' \subseteq RelationIds
    PROVE  TileInv'
  <1>1. UNCHANGED <<db, config, tile, file_state, file_content>>
    BY DEF input, tiles, output
  <1>2. CollectedOK' /\ m_buffer' = m_buffer
    BY DEF TileInv, TypeInv, TypeOK, CollectedOK, collected, got, missing
  <1>3. TypeOK' /\ objects' = {}
    <2>1. rows' \subseteq Nat
      BY IdsAssumption DEF Calls
    <2> QED
      BY <1>2, <2>1, CallTyped DEF TileInv
  <1>4. TypeInv'
    BY <1>3 DEF TypeInv, RowsTyped, Calls
  <1>5. PhasesDone' /\ Collection'
    BY <1>1, CollectionAlone DEF TileInv, PhasesDone
  <1>6. NodesReading' /\ FileIsBuffer' /\ OrderKept'
    BY DEF NodesReading, FileIsBuffer, OrderKept, Calls
  <1> QED
    BY <1>1, <1>4, <1>5, <1>6, FilesAlone DEF TileInv

(* An exception that leaves main() leaves the files as they are.           *)
LEMMA Terminated ==
    ASSUME TileInv, Terminate, call # "sort_buffer_and_write_it"
    PROVE  TileInv'
  <1>1. /\ UNCHANGED <<db, config, tile, collected, file_state, file_content>>
        /\ call' = "terminated"
    BY DEF Terminate, input, tiles, output
  <1>2. TypeInv'
    BY DEF TileInv, TypeInv, Terminate, TypeOK, RowsTyped, ProgramPoints,
           input, tiles, reading, collected, got, missing, output
  <1>3. Collection'
    BY <1>1, CollectionAlone DEF TileInv
  <1>4. PhasesDone' /\ NodesReading' /\ FileIsBuffer' /\ OrderKept'
    BY <1>1 DEF PhasesDone, NodesReading, FileIsBuffer, OrderKept, PastNodes, PastWays,
          PastRelations, PastMissingRelations, PastMissingWays, PastMissingNodes
  <1> QED
    BY <1>1, <1>2, <1>3, <1>4, FilesAlone DEF TileInv

(* What is owed to the relations inside the tile is noted as missing.      *)
LEMMA OwedNoted ==
    ASSUME TypeOK, Collection, InsideGot(relation), config.recurse_relations
    PROVE  Owed \subseteq m_missing_relations /\ Owed \subseteq db.relations
  <1> SUFFICES ASSUME NEW m \in Owed PROVE m \in m_missing_relations /\ m \in db.relations
    OBVIOUS
  <1>1. PICK r \in IdsOf(relation, Inside(db, tile)) : <<relation, m>> \in db.members[r]
    BY DEF Owed
  <1>2. r \in RelationIds /\ Got(<<relation, r>>)
    BY <1>1, InsideObjects DEF InsideGot
  <1> QED
    BY <1>1, <1>2 DEF Collection, MembersAccounted, IsFollowed, Owed

(* A call that is left out because of the options owes nothing.            *)
LEMMA NothingOwed ==
    ASSUME Collection
    PROVE  /\ ~config.recurse_relations => OwedGot
           /\ ~config.recurse_ways => WaysFetched
  <1>1. ASSUME ~config.recurse_ways PROVE m_missing_ways = {}
    BY <1>1, TypesDiffer DEF Collection, MissingAsked, Asked, IsFollowed
  <1> QED
    BY <1>1 DEF OwedGot, WaysFetched

(* The order of the calls: relations, which miss ways, before ways, which  *)
(* miss nodes.                                                             *)
LEMMA CallOrder ==
    /\ CallAfter("get_nodes_inside") = "get_ways_inside"
    /\ CallAfter("get_ways_inside") = "get_relations_inside"
    /\ config.recurse_relations =>
            CallAfter("get_relations_inside") = "get_missing_relations"
    /\ ~config.recurse_relations /\ config.recurse_ways =>
            CallAfter("get_relations_inside") = "get_missing_ways"
    /\ ~config.recurse_relations /\ ~config.recurse_ways =>
            CallAfter("get_relations_inside") = "get_missing_nodes"
    /\ config.recurse_ways => CallAfter("get_missing_relations") = "get_missing_ways"
    /\ ~config.recurse_ways => CallAfter("get_missing_relations") = "get_missing_nodes"
    /\ CallAfter("get_missing_ways") = "get_missing_nodes"
    /\ CallAfter("get_missing_nodes") = "write_file"
  BY DEF CallAfter

(* The next call starts with all that comes before it done.                *)
LEMMA CallReturned ==
    ASSUME TileInv, call \in Calls, CallDone, Return
    PROVE  TileInv'
  <1>1. /\ UNCHANGED <<db, config, tile, collected, file_state, file_content>>
        /\ call' = CallAfter(call) /\ ~fetched' /\ rows' = {} /\ cursor' = 0
    BY DEF Return, input, tiles, output
  <1>2. call' \in (Calls \ {"get_nodes_inside"}) \union {"write_file"}
    BY <1>1 DEF CallAfter, Calls
  <1>3. CollectedOK' /\ m_buffer' = m_buffer
    BY <1>1 DEF TileInv, TypeInv, TypeOK, CollectedOK, collected, got, missing
  <1>4. TypeOK' /\ objects' = {}
    <2>1. fetched' \in BOOLEAN /\ rows' \subseteq Nat /\ cursor' \in Nat
      BY DEF Return
    <2> QED
      BY <1>2, <1>3, <2>1, CallTyped DEF TileInv, Return
  <1>5. TypeInv'
    BY <1>1, <1>2, <1>4 DEF TypeInv, RowsTyped, Calls
  <1>6. Collection'
    BY <1>1, CollectionAlone DEF TileInv
  <1>7. /\ call' \in PastNodes => InsideGot(node)
        /\ call' \in PastWays => InsideGot(way)
        /\ call' \in PastRelations => InsideGot(relation)
    BY <1>1, CallOrder DEF TileInv, PhasesDone, CallDone, Calls, PastNodes, PastWays,
          PastRelations, PastMissingRelations, PastMissingWays, PastMissingNodes
  <1>8. /\ call' \in PastMissingRelations => OwedGot
        /\ call' \in PastMissingWays => WaysFetched
        /\ call' \in PastMissingNodes => NodesFetched
    <2>1. /\ ~config.recurse_relations => OwedGot
          /\ ~config.recurse_ways => WaysFetched
      BY NothingOwed DEF TileInv
    <2> QED
      BY <1>1, <2>1, CallOrder DEF TileInv, PhasesDone, CallDone, Calls,
            PastMissingRelations, PastMissingWays, PastMissingNodes
  <1>9. PhasesDone'
    BY <1>1, <1>7, <1>8, CollectionAlone DEF PhasesDone
  <1>10. \A n \in m_missing_nodes' : ~(n <= cursor')
    <2>1. m_missing_nodes' \subseteq NodeIds
      BY <1>3 DEF CollectedOK
    <2> QED
      BY <1>1, <2>1, IdsAssumption
  <1>11. NodesReading'
    BY <1>2, <1>10 DEF NodesReading
  <1>12. FileIsBuffer' /\ OrderKept'
    BY <1>2 DEF FileIsBuffer, OrderKept, Calls
  <1> QED
    BY <1>1, <1>5, <1>6, <1>9, <1>11, <1>12, FilesAlone DEF TileInv

-----------------------------------------------------------------------------
(***************************************************************************)
(* The NodesProvider.                                                      *)
(***************************************************************************)

(* The spatial query for nodes.                                            *)
LEMMA NodesSelected ==
    ASSUME TileInv, GetNodesInside
    PROVE  TileInv'
  <1>1. /\ UNCHANGED <<db, config, tile, call, collected, file_state, file_content>>
        /\ call = "get_nodes_inside" /\ fetched' = TRUE
        /\ rows' = IdsOf(node, Inside(db, tile)) /\ cursor' = cursor
        /\ UNCHANGED <<input, tiles, output>>
    BY DEF GetNodesInside, Select, input, tiles, output
  <1>2. CollectedOK' /\ m_buffer' = m_buffer
    BY <1>1 DEF TileInv, TypeInv, TypeOK, CollectedOK, collected, got, missing
  <1>3. rows' \subseteq NodeIds
    BY <1>1, InsideObjects DEF TileInv, TypeInv
  <1>4. TypeOK' /\ objects' = {}
    <2>1. fetched' \in BOOLEAN /\ rows' \subseteq Nat /\ cursor' \in Nat
      BY <1>1, <1>3, IdsAssumption DEF TileInv, TypeInv, TypeOK
    <2> QED
      BY <1>1, <1>2, <2>1, CallTyped DEF TileInv, Calls
  <1>5. TypeInv'
    BY <1>1, <1>3, <1>4 DEF TypeInv, RowsTyped
  <1>6. PhasesDone' /\ Collection'
    BY <1>1, CollectionAlone DEF TileInv, PhasesDone
  <1>7. NodesReading'
    BY <1>1 DEF NodesReading, Inside, Stored
  <1>8. FileIsBuffer' /\ OrderKept'
    BY <1>1 DEF FileIsBuffer, OrderKept
  <1> QED
    BY <1>1, <1>5, <1>6, <1>7, <1>8, FilesAlone DEF TileInv

(* A node of the answer.                                                   *)
LEMMA NodeParsed ==
    ASSUME TileInv, NodeRow
    PROVE  TileInv'
  <1>1. PICK n \in rows : add_node(n) /\ rows' = rows \ {n}
    BY DEF NodeRow, Row
  <1>2. /\ UNCHANGED <<db, config, tile, call, fetched, cursor, file_state, file_content>>
        /\ call = "get_nodes_inside" /\ UNCHANGED <<input, tiles, output>>
    BY DEF NodeRow, Row, input, tiles, output
  <1>3. n \in IdsOf(node, Inside(db, tile)) /\ n \in NodeIds
    BY <1>1, <1>2 DEF TileInv, TypeInv, RowsTyped, NodesReading
  <1>4. Welcome(<<node, n>>)
    BY <1>3, InsideObjects, IdsOfObjects DEF TileInv, TypeInv, Welcome
  <1>5. Added(<<node, n>>)
    BY <1>1, <1>2, <1>3, <1>4, AddNodeAdds DEF TileInv, TypeInv
  <1>6. TypeOK' /\ objects' = {}
    <2>1. fetched' \in BOOLEAN /\ rows' \subseteq Nat /\ cursor' \in Nat
      BY <1>1, <1>2 DEF TileInv, TypeInv, TypeOK
    <2> QED
      BY <1>2, <1>5, <2>1, CallTyped DEF TileInv, Calls, Added
  <1>7. TypeInv'
    BY <1>1, <1>2, <1>6 DEF TileInv, TypeInv, RowsTyped
  <1>8. PhasesDone' /\ FileIsBuffer' /\ OrderKept'
    BY <1>2 DEF PhasesDone, FileIsBuffer, OrderKept, PastNodes, PastWays, PastRelations,
          PastMissingRelations, PastMissingWays, PastMissingNodes
  <1>9. \A p : Got(p)' <=> (Got(p) \/ p = <<node, n>>)
    BY <1>5 DEF Added
  <1>10. NodesReading'
    BY <1>1, <1>2, <1>9 DEF TileInv, NodesReading, Inside, Stored
  <1> QED
    BY <1>2, <1>5, <1>7, <1>8, <1>10, FilesAlone DEF TileInv, Added

(* A round of the loop over the missing nodes.                             *)
LEMMA NodeFetched ==
    ASSUME TileInv, GetMissingNode
    PROVE  TileInv'
  <1>1. PICK id \in m_missing_nodes :
            /\ IsNext(id, m_missing_nodes)
            /\ cursor' = id
            /\ IF id \in Located(db) THEN add_node(id) ELSE UNCHANGED collected
    BY DEF GetMissingNode, Round
  <1>2. /\ UNCHANGED <<db, config, tile, call, fetched, rows, file_state, file_content>>
        /\ call = "get_missing_nodes" /\ UNCHANGED <<input, tiles, output>>
    BY DEF GetMissingNode, Round, input, tiles, output
  <1>3. /\ id \in NodeIds /\ id \in Nat /\ m_missing_nodes \subseteq Nat /\ cursor \in Nat
        /\ TypeOK /\ Collection
    BY IdsAssumption DEF TileInv, TypeInv, TypeOK
  <1>4. id \in Located(db) => Added(<<node, id>>)
    <2>1. id \in Located(db) => Welcome(<<node, id>>)
      BY <1>3, StoredObjects DEF TypeOK, Collection, MissingAsked, Welcome
    <2> QED
      BY <1>1, <1>2, <1>3, <2>1, AddNodeAdds
  <1>5. /\ CollectedOK' /\ DOMAIN m_buffer \subseteq DOMAIN m_buffer' /\ Collection'
        /\ \A p : Got(p) => Got(p)'
        /\ id \in Located(db) => Got(<<node, id>>)'
        /\ UNCHANGED <<m_missing_nodes, m_missing_ways>>
    <2>1. CASE id \in Located(db)
      BY <1>4, <2>1, TypesDiffer DEF Added
    <2>2. CASE id \notin Located(db)
      BY <1>1, <1>2, <1>3, <2>2, CollectionAlone
         DEF TypeOK, CollectedOK, collected, got, missing
    <2> QED
      BY <2>1, <2>2
  <1>6. TypeOK' /\ objects' = {}
    <2>1. fetched' \in BOOLEAN /\ rows' \subseteq Nat /\ cursor' \in Nat
      BY <1>1, <1>2, <1>3 DEF TypeOK
    <2> QED
      BY <1>2, <1>5, <2>1, CallTyped DEF TileInv, Calls
  <1>7. TypeInv'
    BY <1>2, <1>6 DEF TypeInv, RowsTyped
  <1>8. PhasesDone'
    <2>1. Owed' = Owed /\ IdsOf(node, Inside(db, tile))' = IdsOf(node, Inside(db, tile))
          /\ IdsOf(way, Inside(db, tile))' = IdsOf(way, Inside(db, tile))
          /\ IdsOf(relation, Inside(db, tile))' = IdsOf(relation, Inside(db, tile))
      BY <1>2 DEF Owed, Inside, Stored, Located
    <2>2. /\ InsideGot(node)' /\ InsideGot(way)' /\ InsideGot(relation)'
          /\ OwedGot' /\ WaysFetched'
      BY <1>2, <1>5, <2>1 DEF TileInv, PhasesDone, InsideGot, OwedGot, WaysFetched, PastNodes,
          PastWays, PastRelations, PastMissingRelations, PastMissingWays
    <2> QED
      BY <1>2, <2>2 DEF PhasesDone, PastMissingNodes
  <1>9. \A n \in m_missing_nodes : n <= id => n <= cursor \/ n = id
    BY <1>1, <1>3 DEF IsNext
  <1>10. NodesReading'
    BY <1>1, <1>2, <1>5, <1>9 DEF TileInv, NodesReading, Located
  <1>11. FileIsBuffer' /\ OrderKept'
    BY <1>2 DEF FileIsBuffer, OrderKept
  <1> QED
    BY <1>2, <1>5, <1>7, <1>8, <1>10, <1>11, FilesAlone DEF TileInv

(* The calls for nodes add no way and no relation.                         *)
LEMMA NodesOnly ==
    ASSUME TileInv, GetNodesInside \/ NodeRow \/ GetMissingNode \/ NotInFlatnodes
    PROVE  /\ \A id : Got(<<way, id>>)' <=> Got(<<way, id>>)
           /\ \A id : Got(<<relation, id>>)' <=> Got(<<relation, id>>)
  <1>0. m_buffer \in Seq(Object) /\ m_missing_nodes \subseteq NodeIds
        /\ (call = "get_nodes_inside" => rows \subseteq NodeIds)
    BY DEF TileInv, TypeInv, TypeOK, RowsTyped
  <1>1. CASE \E n \in NodeIds : add_node(n)
    <2>1. PICK n \in NodeIds : m_buffer' = Append(m_buffer, <<node, n>>)
      BY <1>1 DEF add_node
    <2>2. <<node, n>> \in Object
      BY DEF Object
    <2> QED
      BY <1>0, <2>1, <2>2, Committed, TypesDiffer
  <1>2. CASE m_buffer' = m_buffer
    BY <1>2 DEF Got
  <1>3. (\E n \in NodeIds : add_node(n)) \/ m_buffer' = m_buffer
    BY <1>0 DEF GetNodesInside, Select, NodeRow, Row, GetMissingNode, Round, NotInFlatnodes,
          Terminate, collected
  <1> QED
    BY <1>1, <1>2, <1>3

(* What the calls for nodes owe at their end.                              *)
LEMMA NodesDone ==
    ASSUME TileInv
    PROVE  /\ call = "get_nodes_inside" /\ fetched /\ rows = {} => InsideGot(node)
           /\ call = "get_missing_nodes" /\ Exhausted(m_missing_nodes) => NodesFetched
  BY DEF TileInv, NodesReading, InsideGot, NodesFetched, Exhausted

-----------------------------------------------------------------------------
(***************************************************************************)
(* The loop of run() and the files.                                        *)
(***************************************************************************)

(* A run starts with nothing collected and nothing written.                *)
LEMMA TileInit == Init => TileInv
  <1> SUFFICES ASSUME Init PROVE TileInv
    OBVIOUS
  <1>1. db \in Database /\ config \in Config /\ todo \in Seq(Tiles) /\ tile \in Tiles
    BY InputsAssumption DEF Init
  <1>2. <<>> \in Seq(Object) /\ EmptyIndex \in [ids : SUBSET NodeIds, last : Nat, sorted : BOOLEAN]
    BY DEF EmptyIndex
  <1>3. /\ file_content \in [Tiles -> Seq(Object)]
        /\ file_state \in [Tiles -> {"absent", "old", "open", "written"}]
        /\ \A t \in Tiles : file_state[t] # "written" /\ file_content[t] = <<>>
    BY <1>2 DEF Init
  <1>4. TypeInv
    BY <1>1, <1>2, <1>3 DEF Init, TypeInv, TypeOK, RowsTyped, ProgramPoints, Calls
  <1>5. \A o : ~Got(o)
    BY DEF Init, Got
  <1>6. Collection
    BY <1>5 DEF Init, EmptyIndex, Collection, IndexSound, RefsAccounted, MembersAccounted,
          MissingAsked, GotWelcome
  <1>7. PhasesDone /\ NodesReading /\ FileIsBuffer /\ OrderKept
    BY DEF Init, PhasesDone, NodesReading, FileIsBuffer, OrderKept, PastNodes, PastWays,
          PastRelations, PastMissingRelations, PastMissingWays, PastMissingNodes
  <1>8. FilesAcceptable /\ FilesOrdered
    BY <1>3 DEF FilesAcceptable, FilesOrdered, IsWritten
  <1> QED
    BY <1>4, <1>6, <1>7, <1>8 DEF TileInv

(* The next tile starts with nothing collected.                            *)
LEMMA TileBegun ==
    ASSUME TypeInv, NextTile
    PROVE  /\ TypeInv' /\ \A o : ~Got(o)'
           /\ call = "next_tile" /\ call' = "get_nodes_inside"
           /\ rows' = {} /\ ~fetched'
           /\ UNCHANGED <<db, config, file_state, file_content>>
           /\ m_location_handler' = EmptyIndex /\ m_ways_got' = {} /\ m_relations_got' = {}
           /\ m_missing_nodes' = {} /\ m_missing_ways' = {} /\ m_missing_relations' = {}
  <1>1. /\ m_buffer' = <<>> /\ m_location_handler' = EmptyIndex
        /\ m_ways_got' = {} /\ m_relations_got' = {}
        /\ m_missing_nodes' = {} /\ m_missing_ways' = {} /\ m_missing_relations' = {}
        /\ call = "next_tile" /\ call' = "get_nodes_inside"
        /\ UNCHANGED <<db, config, fetched, rows, cursor, objects, file_state, file_content>>
    BY DEF NextTile, clear, input, reading, output
  <1>2. <<>> \in Seq(Object) /\ EmptyIndex \in [ids : SUBSET NodeIds, last : Nat, sorted : BOOLEAN]
    BY DEF EmptyIndex
  <1>3. tile' \in Tiles /\ todo' \in Seq(Tiles)
    BY DEF NextTile, TypeInv, TypeOK
  <1>4. rows = {} /\ ~fetched /\ objects = {}
    BY <1>1 DEF TypeInv, RowsTyped
  <1>5. TypeInv'
    BY <1>1, <1>2, <1>3, <1>4 DEF TypeInv, TypeOK, RowsTyped, ProgramPoints, Calls
  <1>6. \A o : ~Got(o)'
    BY <1>1 DEF Got
  <1> QED
    BY <1>1, <1>4, <1>5, <1>6

(* It owes nothing yet.                                                    *)
LEMMA TileStarted ==
    ASSUME TileInv, NextTile
    PROVE  TileInv'
  <1>1. /\ TypeInv' /\ \A o : ~Got(o)'
        /\ call' = "get_nodes_inside" /\ rows' = {} /\ ~fetched'
        /\ UNCHANGED <<db, config, file_state, file_content>>
        /\ m_location_handler' = EmptyIndex /\ m_ways_got' = {} /\ m_relations_got' = {}
        /\ m_missing_nodes' = {} /\ m_missing_ways' = {} /\ m_missing_relations' = {}
    BY TileBegun DEF TileInv
  <1>2. Collection'
    BY <1>1 DEF EmptyIndex, Collection, IndexSound, RefsAccounted, MembersAccounted,
          MissingAsked, GotWelcome
  <1>3. PhasesDone' /\ NodesReading' /\ FileIsBuffer' /\ OrderKept'
    BY <1>1 DEF PhasesDone, NodesReading, FileIsBuffer, OrderKept, PastNodes, PastWays,
          PastRelations, PastMissingRelations, PastMissingWays, PastMissingNodes
  <1> QED
    BY <1>1, <1>2, <1>3, FilesAlone DEF TileInv

(* At the end of the six calls the buffer has what the tile owes.          *)
LEMMA BufferAcceptable ==
    ASSUME TypeOK, Collection, PhasesDone, call = "sort_buffer_and_write_it",
           NEW C \in SUBSET Object, \A o : o \in C <=> Got(o)
    PROVE  C \subseteq Stored(db) /\ Acceptable(db, config, tile, C)
  <1>0. /\ InsideGot(node) /\ InsideGot(way) /\ InsideGot(relation)
        /\ OwedGot /\ WaysFetched /\ NodesFetched
    BY DEF PhasesDone, PastNodes, PastWays, PastRelations, PastMissingRelations,
           PastMissingWays, PastMissingNodes
  <1>1. /\ \A id : id \in IdsOf(node, C) <=> <<node, id>> \in C
        /\ \A id : id \in IdsOf(way, C) <=> <<way, id>> \in C
        /\ \A id : id \in IdsOf(relation, C) <=> <<relation, id>> \in C
        /\ \A id : <<way, id>> \in C => id \in WayIds
        /\ \A id : <<relation, id>> \in C => id \in RelationIds
    <2> HIDE DEF IdsOf
    <2> QED BY IdsOfObjects
  <1>2. \A o \in C : Welcome(o)
    BY DEF Collection, GotWelcome
  <1>3. db \in Database
    BY DEF TypeOK
  <1>4. Inside(db, tile) \subseteq C
    <2> SUFFICES ASSUME NEW o \in Inside(db, tile) PROVE Got(o)
      OBVIOUS
    <2>1. o \in Object
      BY InsideObjects
    <2>2. CASE \E n \in NodeIds : o = <<node, n>>
      BY <1>0, <2>2, InsideObjects, IdsOfObjects DEF InsideGot
    <2>3. CASE \E w \in WayIds : o = <<way, w>>
      BY <1>0, <2>3, InsideObjects, IdsOfObjects DEF InsideGot
    <2>4. CASE \E r \in RelationIds : o = <<relation, r>>
      BY <1>0, <2>4, InsideObjects, IdsOfObjects DEF InsideGot
    <2> QED
      BY <2>1, <2>2, <2>3, <2>4, ObjectForms
  <1>5. WaysComplete(db, C)
    <2> SUFFICES ASSUME NEW w \in IdsOf(way, C), NEW n \in db.refs[w] \intersect Located(db)
                 PROVE  Got(<<node, n>>)
      BY DEF WaysComplete
    <2>1. Got(<<way, w>>) /\ w \in WayIds
      BY <1>1
    <2>2. Got(<<node, n>>) \/ n \in m_missing_nodes
      BY <2>1 DEF Collection, RefsAccounted
    <2> QED
      BY <1>0, <2>2 DEF NodesFetched
  <1>6. MembersComplete(db, config, tile, C)
    <2> SUFFICES ASSUME NEW r \in IdsOf(relation, C),
                        NEW m \in db.members[r] \intersect Stored(db)
                 PROVE  \/ Got(m)
                        \/ m[1] = node /\ ~config.recurse_nodes
                        \/ m[1] = way /\ ~config.recurse_ways
                        \/ m[1] = relation
                            /\ (config.recurse_relations => <<relation, r>> \notin db.inside[tile])
      BY DEF MembersComplete
    <2>1. Got(<<relation, r>>) /\ r \in RelationIds /\ Welcome(<<relation, r>>)
      BY <1>1, <1>2
    <2>2. m \in Object
      BY <1>3, StoredObjects
    <2>3. CASE \E n \in NodeIds : m = <<node, n>>
      <3>1. PICK n \in NodeIds : m = <<node, n>>
        BY <2>3
      <3>2. n \in Located(db)
        BY <1>3, <3>1, StoredObjects
      <3>3. config.recurse_nodes => Got(m) \/ n \in m_missing_nodes
        BY <2>1, <3>1 DEF Collection, MembersAccounted, IsFollowed
      <3> QED
        BY <1>0, <3>1, <3>2, <3>3 DEF NodesFetched
    <2>4. CASE \E w \in WayIds : m = <<way, w>>
      <3>1. PICK w \in WayIds : m = <<way, w>>
        BY <2>4
      <3>2. w \in db.ways
        BY <1>3, <3>1, StoredObjects
      <3>3. config.recurse_ways => w \in m_missing_ways
        BY <2>1, <3>1 DEF Collection, MembersAccounted, IsFollowed
      <3> QED
        BY <1>0, <3>1, <3>2, <3>3 DEF WaysFetched
    <2>5. CASE \E v \in RelationIds : m = <<relation, v>>
      <3>1. PICK v \in RelationIds : m = <<relation, v>>
        BY <2>5
      <3>2. v \in db.relations
        BY <1>3, <3>1, StoredObjects
      <3>3. ASSUME <<relation, r>> \in db.inside[tile] PROVE v \in Owed
        <4>1. <<relation, r>> \in Inside(db, tile)
          BY <2>1, <3>3, TypesDiffer DEF Inside, Welcome
        <4>2. r \in IdsOf(relation, Inside(db, tile))
          BY <4>1, InsideObjects, IdsOfObjects
        <4> QED
          BY <3>1, <3>2, <4>2 DEF Owed
      <3> QED
        BY <1>0, <3>1, <3>3 DEF OwedGot
    <2> QED
      BY <2>2, <2>3, <2>4, <2>5, ObjectForms
  <1>7. Justified(db, config, tile, C)
    <2> SUFFICES ASSUME NEW o \in C
                 PROVE  /\ o \in Stored(db)
                        /\ \/ o \in db.inside[tile]
                           \/ o[1] = node /\ \E w \in IdsOf(way, C) : o[2] \in db.refs[w]
                           \/ /\ \E r \in IdsOf(relation, C) : o \in db.members[r]
                              /\ IsFollowed(o)
      BY DEF Justified, IsFollowed
    <2>1. Welcome(o)
      BY <1>2
    <2> QED
      BY <1>1, <2>1 DEF Welcome, Asked
  <1> QED
    BY <1>2, <1>4, <1>5, <1>6, <1>7 DEF Acceptable, Welcome

(* Opening, writing and closing the file: whatever the buffer holds comes  *)
(* into it, and nothing else.                                              *)
LEMMA BufferWritten ==
    ASSUME TypeInv, FileIsBuffer, OpenFile \/ WriteObject \/ CloseFile
    PROVE  /\ TypeInv' /\ FileIsBuffer'
           /\ UNCHANGED <<db, config, tile, collected, m_buffer>>
           /\ CloseFile => \A o : o \in Content(tile)' <=> Got(o)
  <1>1. /\ tile \in Tiles /\ file_state \in [Tiles -> {"absent", "old", "open", "written"}]
        /\ file_content \in [Tiles -> Seq(Object)] /\ objects \subseteq DOMAIN m_buffer
        /\ m_buffer \in Seq(Object)
    BY DEF TypeInv, TypeOK
  <1>2. UNCHANGED <<db, config, tile, collected, m_buffer>>
    BY DEF OpenFile, WriteObject, CloseFile, input, tiles, collected
  <1>3. CASE OpenFile
    <2>1. TypeInv'
      BY <1>3 DEF TypeInv, OpenFile, TypeOK, RowsTyped, ProgramPoints,
             input, tiles, reading, collected, got, missing
    <2>2. /\ file_state'[tile] = "open" /\ file_content'[tile] = <<>>
          /\ objects' = DOMAIN m_buffer
      BY <1>1, <1>3 DEF OpenFile
    <2>3. Content(tile)' = {}
      BY <1>2, <2>2 DEF Content, ToSet
    <2>4. FileIsBuffer'
      BY <1>2, <2>2, <2>3 DEF FileIsBuffer, IsWritten, Content
    <2>5. ~CloseFile
      BY <1>3 DEF OpenFile, CloseFile
    <2> QED
      BY <1>2, <2>1, <2>4, <2>5
  <1>4. CASE WriteObject
    <2>1. PICK i \in objects :
            /\ objects' = objects \ {i}
            /\ file_content' = IF IsRepeated(m_buffer[i]) THEN file_content
                       ELSE [file_content EXCEPT ![tile] = Append(@, m_buffer[i])]
      BY <1>4 DEF WriteObject
    <2>2. call = "sort_buffer_and_write_it" /\ call' = call /\ UNCHANGED file_state
      BY <1>4 DEF WriteObject
    <2> DEFINE o == m_buffer[i]
               s == file_content[tile]
    <2>3. /\ i \in DOMAIN m_buffer /\ o \in Object /\ s \in Seq(Object) /\ Got(o)
      BY <1>1 DEF Got
    <2>4. /\ ~IsWritten(tile)
          /\ \A j \in DOMAIN m_buffer \ objects : m_buffer[j] \in Content(tile)
          /\ \A p \in Content(tile) : Got(p)
      BY <2>2 DEF FileIsBuffer
    <2>5. /\ IsRepeated(o) => file_content' = file_content
          /\ ~IsRepeated(o) => file_content'[tile] = Append(s, o)
      BY <1>1, <2>1
    <2>6. IsRepeated(o) => o \in Content(tile)
      BY <2>3 DEF IsRepeated, Content, ToSet, Last
    <2>7. TypeInv'
      BY <1>1, <2>1, <2>2, <2>3, <1>4 DEF TypeInv, WriteObject, TypeOK, RowsTyped,
            input, tiles, reading, collected, got, missing
    <2> HIDE DEF o, s
    <2>8. Content(tile)' = Content(tile) \union {o}
      BY <1>2, <2>3, <2>5, <2>6, Appended DEF Content, s
    <2>9. FileIsBuffer'
      BY <1>2, <2>1, <2>2, <2>3, <2>4, <2>8 DEF FileIsBuffer, IsWritten, Got, o
    <2>10. ~CloseFile
      BY <1>4, <2>2 DEF CloseFile
    <2> QED
      BY <1>2, <2>7, <2>9, <2>10
  <1>5. CASE CloseFile
    <2>1. TypeInv'
      BY <1>5 DEF TypeInv, CloseFile, TypeOK, RowsTyped, ProgramPoints,
             input, tiles, reading, collected, got, missing
    <2>2. call = "sort_buffer_and_write_it" /\ objects = {} /\ UNCHANGED file_content
            /\ call' = "next_tile"
      BY <1>5 DEF CloseFile
    <2>3. \A o : o \in Content(tile) <=> Got(o)
      BY <2>2 DEF FileIsBuffer, Got
    <2>4. Content(tile)' = Content(tile)
      BY <1>2, <2>2 DEF Content
    <2>5. FileIsBuffer'
      BY <2>2 DEF FileIsBuffer
    <2> QED
      BY <1>2, <2>1, <2>3, <2>4, <2>5
  <1> QED
    BY <1>3, <1>4, <1>5

(* The file is opened with the whole buffer to write.                      *)
LEMMA FileOpened ==
    ASSUME TileInv, OpenFile
    PROVE  TileInv'
  <1>1. /\ call = "write_file" /\ call' = "sort_buffer_and_write_it"
        /\ UNCHANGED <<db, config, tile, fetched, rows, cursor, collected>>
        /\ objects' = DOMAIN m_buffer
        /\ file_state' = [file_state EXCEPT ![tile] = "open"]
        /\ file_content' = [file_content EXCEPT ![tile] = <<>>]
    BY DEF OpenFile, input, tiles, reading
  <1>2. /\ tile \in Tiles /\ file_state \in [Tiles -> {"absent", "old", "open", "written"}]
        /\ file_content \in [Tiles -> Seq(Object)]
    BY DEF TileInv, TypeInv, TypeOK
  <1>3. /\ file_state'[tile] = "open" /\ file_content'[tile] = <<>>
        /\ \A t \in Tiles \ {tile} :
            file_state'[t] = file_state[t] /\ file_content'[t] = file_content[t]
    BY <1>1, <1>2
  <1>5. TypeInv' /\ FileIsBuffer'
    BY BufferWritten DEF TileInv
  <1>6. Collection' /\ PhasesDone'
    BY <1>1, CollectionAlone DEF TileInv, PhasesDone, PastNodes, PastWays, PastRelations,
          PastMissingRelations, PastMissingWays, PastMissingNodes
  <1>7. NodesReading' /\ OrderKept'
    BY <1>1, <1>3 DEF NodesReading, OrderKept
  <1>9. FilesAcceptable'
    BY <1>1, <1>3 DEF TileInv, FilesAcceptable, IsWritten, Content, Acceptable, WaysComplete,
         MembersComplete, Justified, Inside, Stored, Located
  <1>10. FilesOrdered'
    BY <1>3 DEF TileInv, FilesOrdered
  <1> QED
    BY <1>5, <1>6, <1>7, <1>9, <1>10 DEF TileInv

(* The order of the file is total.                                         *)
LEMMA OrderTotal ==
    ASSUME NEW a \in Object, NEW b \in Object
    PROVE  a = b \/ Precedes(a, b) \/ Precedes(b, a)
  <1>1. \A o \in Object : o = <<o[1], o[2]>> /\ o[1] \in Nat /\ o[2] \in Nat
    <2> SUFFICES ASSUME NEW o \in Object
                 PROVE  o = <<o[1], o[2]>> /\ o[1] \in Nat /\ o[2] \in Nat
      OBVIOUS
    <2>1. PICK type \in {node, way, relation}, id \in NodeIds \union WayIds \union RelationIds :
            o = <<type, id>>
      BY ObjectForms
    <2>2. type \in Nat /\ id \in Nat
      BY IdsAssumption DEF node, way, relation
    <2> QED
      BY <2>1, <2>2
  <1>2. a[1] # b[1] \/ a[2] # b[2] => Precedes(a, b) \/ Precedes(b, a)
    BY <1>1 DEF Precedes
  <1> QED
    BY <1>1, <1>2

(* A sequence that is in order takes one more object that comes later.     *)
LEMMA OrderAppended ==
    ASSUME NEW s \in Seq(Object), NEW o \in Object,
           \A i \in DOMAIN s : i > 1 => Precedes(s[i - 1], s[i]),
           s # <<>> => Precedes(Last(s), o)
    PROVE  /\ \A i \in DOMAIN Append(s, o) :
                i > 1 => Precedes(Append(s, o)[i - 1], Append(s, o)[i])
           /\ Last(Append(s, o)) = o /\ Append(s, o) # <<>>
  <1> DEFINE a == Append(s, o)
  <1>1. Len(s) \in Nat /\ DOMAIN s = 1..Len(s)
    OBVIOUS
  <1>2. /\ DOMAIN a = 1..(Len(s) + 1) /\ Len(a) = Len(s) + 1
        /\ a[Len(s) + 1] = o
        /\ \A j \in 1..Len(s) : a[j] = s[j]
    OBVIOUS
  <1> HIDE DEF a
  <1>3. ASSUME NEW i \in 1..(Len(s) + 1), i > 1 PROVE Precedes(a[i - 1], a[i])
    <2>1. CASE i \in 1..Len(s)
      <3>1. i - 1 \in 1..Len(s)
        BY <1>1, <1>3, <2>1
      <3> QED
        BY <1>1, <1>2, <1>3, <2>1, <3>1
    <2>2. CASE i = Len(s) + 1
      <3>1. i - 1 = Len(s) /\ Len(s) \in 1..Len(s)
        BY <1>1, <1>3, <2>2
      <3>2. a[i - 1] = Last(s) /\ s # <<>>
        BY <1>1, <1>2, <3>1 DEF Last
      <3> QED
        BY <1>2, <2>2, <3>2
    <2> QED
      BY <1>1, <2>1, <2>2
  <1>4. a # <<>>
    BY <1>1, <1>2
  <1> QED
    BY <1>2, <1>3, <1>4 DEF a, Last

(* An object is written, or dropped as it was written just before.         *)
LEMMA ObjectWritten ==
    ASSUME TileInv, WriteObject
    PROVE  TileInv'
  <1>1. PICK i \in objects :
            /\ \A j \in objects : ~Precedes(m_buffer[j], m_buffer[i])
            /\ objects' = objects \ {i}
            /\ file_content' = IF IsRepeated(m_buffer[i]) THEN file_content
                       ELSE [file_content EXCEPT ![tile] = Append(@, m_buffer[i])]
    BY DEF WriteObject
  <1>2. /\ call = "sort_buffer_and_write_it" /\ call' = call
        /\ UNCHANGED <<db, config, tile, collected, file_state>> /\ m_buffer' = m_buffer
    BY DEF WriteObject, input, tiles, collected
  <1> DEFINE o == m_buffer[i]
             s == file_content[tile]
  <1>3. /\ tile \in Tiles /\ file_content \in [Tiles -> Seq(Object)]
        /\ i \in DOMAIN m_buffer /\ o \in Object /\ s \in Seq(Object)
    BY DEF TileInv, TypeInv, TypeOK
  <1>4. /\ ~IsWritten(tile)
        /\ s # <<>> => \A j \in objects : ~Precedes(m_buffer[j], Last(s))
        /\ \A k \in DOMAIN s : k > 1 => Precedes(s[k - 1], s[k])
    BY <1>2, <1>3 DEF TileInv, FileIsBuffer, OrderKept, FilesOrdered
  <1>5. /\ \A t \in Tiles \ {tile} : file_content'[t] = file_content[t]
        /\ IsRepeated(o) => file_content' = file_content
        /\ ~IsRepeated(o) => file_content'[tile] = Append(s, o)
    BY <1>1, <1>3
  <1>8. ~IsRepeated(o) /\ s # <<>> => Precedes(Last(s), o)
    <2>1. ASSUME s # <<>> PROVE Last(s) \in Object
      BY <1>3, <2>1 DEF Last
    <2> QED
      BY <1>3, <1>4, <2>1, OrderTotal DEF IsRepeated
  <1>9. TypeInv' /\ FileIsBuffer'
    BY BufferWritten DEF TileInv
  <1> HIDE DEF o, s
  <1>11. Collection' /\ PhasesDone'
    BY <1>2, CollectionAlone DEF TileInv, PhasesDone
  <1>13. FilesAcceptable'
    BY <1>2, <1>4, <1>5 DEF TileInv, FilesAcceptable, IsWritten, Content, Acceptable,
          WaysComplete, MembersComplete, Justified, Inside, Stored, Located
  <1>14. OrderKept' /\ FilesOrdered'
    <2>1. CASE IsRepeated(o)
      BY <1>1, <1>2, <1>5, <2>1 DEF TileInv, OrderKept, FilesOrdered
    <2>2. CASE ~IsRepeated(o)
      <3>1. /\ \A k \in DOMAIN Append(s, o) :
                k > 1 => Precedes(Append(s, o)[k - 1], Append(s, o)[k])
            /\ Last(Append(s, o)) = o
        BY <1>3, <1>4, <1>8, <2>2, OrderAppended
      <3>2. OrderKept'
        BY <1>1, <1>2, <1>5, <2>2, <3>1 DEF OrderKept, o
      <3>3. FilesOrdered'
        BY <1>2, <1>5, <2>2, <3>1 DEF TileInv, FilesOrdered
      <3> QED
        BY <3>2, <3>3
    <2> QED
      BY <2>1, <2>2
  <1>15. NodesReading'
    BY <1>2 DEF NodesReading
  <1> QED
    BY <1>9, <1>11, <1>13, <1>14, <1>15 DEF TileInv

(* The whole buffer is in the file when it is closed.                      *)
LEMMA ContentAcceptable ==
    ASSUME TileInv, CloseFile
    PROVE  Content(tile) \subseteq Stored(db) /\ Acceptable(db, config, tile, Content(tile))
  <1>1. call = "sort_buffer_and_write_it" /\ objects = {}
    BY DEF CloseFile
  <1>2. \A o : o \in Content(tile) <=> Got(o)
    BY <1>1 DEF TileInv, FileIsBuffer, Got
  <1>3. Content(tile) \subseteq Object
    BY DEF TileInv, TypeInv, TypeOK, Content, ToSet
  <1> QED
    BY <1>1, <1>2, <1>3, BufferAcceptable DEF TileInv, TypeInv

(* The file counts from now on.                                            *)
LEMMA FileClosed ==
    ASSUME TileInv, CloseFile
    PROVE  TileInv'
  <1>1. /\ call = "sort_buffer_and_write_it" /\ call' = "next_tile" /\ objects = {}
        /\ UNCHANGED <<db, config, tile, collected, objects, file_content>>
        /\ file_state' = [file_state EXCEPT ![tile] = "written"]
    BY DEF CloseFile, input, tiles
  <1>2. /\ tile \in Tiles
        /\ file_state \in [Tiles -> {"absent", "old", "open", "written"}]
    BY DEF TileInv, TypeInv, TypeOK
  <1>3. \A t \in Tiles : IsWritten(t)' => t = tile \/ IsWritten(t)
    BY <1>1, <1>2 DEF IsWritten
  <1>4. Acceptable(db, config, tile, Content(tile))
    BY ContentAcceptable
  <1>5. FilesAcceptable'
    BY <1>1, <1>3, <1>4 DEF TileInv, FilesAcceptable, Content, Acceptable, WaysComplete,
         MembersComplete, Justified, Inside, Stored, Located
  <1>6. FilesOrdered'
    BY <1>1 DEF TileInv, FilesOrdered
  <1>7. TypeInv'
    BY BufferWritten DEF TileInv
  <1>8. Collection'
    BY <1>1, CollectionAlone DEF TileInv
  <1>9. PhasesDone' /\ NodesReading' /\ FileIsBuffer' /\ OrderKept'
    BY <1>1 DEF PhasesDone, NodesReading, FileIsBuffer, OrderKept, PastNodes, PastWays,
          PastRelations, PastMissingRelations, PastMissingWays, PastMissingNodes
  <1> QED
    BY <1>5, <1>6, <1>7, <1>8, <1>9 DEF TileInv

(* All that happens outside of the calls for ways and relations.           *)
LEMMA SharedStep ==
    ASSUME TileInv,
           \/ NextTile \/ GetNodesInside \/ NodeRow \/ GetMissingNode \/ NotInFlatnodes
           \/ WriteFile \/ UNCHANGED vars
    PROVE  TileInv'
  <1>1. CASE NotInFlatnodes \/ FileExists
    BY <1>1, Terminated DEF NotInFlatnodes, FileExists
  <1>2. CASE UNCHANGED vars
    <2>1. /\ UNCHANGED <<db, config, tile, call, collected, file_state, file_content>>
          /\ UNCHANGED <<fetched, rows, cursor, m_buffer, objects, m_missing_nodes>>
      BY <1>2 DEF vars, input, tiles, reading, collected, missing, output
    <2>2. TypeInv'
      BY <1>2 DEF TileInv, vars, TypeInv, TypeOK, RowsTyped, input, tiles, reading, collected,
            got, missing, output
    <2>3. Collection' /\ PhasesDone'
      BY <2>1, CollectionAlone DEF TileInv, PhasesDone
    <2>4. NodesReading' /\ FileIsBuffer' /\ OrderKept'
      BY <2>1 DEF TileInv, NodesReading, FileIsBuffer, OrderKept, Got, Inside, Stored, Located,
            Content, IsWritten
    <2> QED
      BY <2>1, <2>2, <2>3, <2>4, FilesAlone DEF TileInv
  <1> QED
    BY <1>1, <1>2, TileStarted, NodesSelected, NodeParsed, NodeFetched, FileOpened,
       ObjectWritten, FileClosed DEF WriteFile

-----------------------------------------------------------------------------
(***************************************************************************)
(* The promise. Of all steps only OpenFile may withdraw a content and only *)
(* CloseFile publishes one.                                                *)
(***************************************************************************)

(* What the promise calls acceptable is what this module does.             *)
LEMMA SameAcceptable ==
    ASSUME NEW d, NEW options, NEW t, NEW S
    PROVE  /\ Promise!Stored(d) = Stored(d)
           /\ Acceptable(d, options, t, S) => Promise!Acceptable(d, options, t, S)
  <1>1. Promise!Stored(d) = Stored(d)
    BY DEF Promise!Stored, Stored, Promise!Located, Located, Promise!node, node,
           Promise!way, way, Promise!relation, relation
  <1>2. \A type : Promise!IdsOf(type, S) = IdsOf(type, S)
    BY DEF Promise!IdsOf, IdsOf
  <1>3. Inside(d, t) \subseteq S => Promise!Inside(d, t) \subseteq S
    BY <1>1 DEF Promise!Inside, Inside, Promise!node, node
  <1>4. WaysComplete(d, S) => Promise!WaysComplete(d, S)
    BY <1>2 DEF Promise!WaysComplete, WaysComplete, Promise!Located, Located,
                Promise!node, node, Promise!way, way
  <1>5. MembersComplete(d, options, t, S) => Promise!MembersComplete(d, options, t, S)
    BY <1>1, <1>2 DEF Promise!MembersComplete, MembersComplete, Promise!node, node,
                Promise!way, way, Promise!relation, relation
  <1>6. Justified(d, options, t, S) => Promise!Justified(d, options, t, S)
    BY <1>1, <1>2 DEF Promise!Justified, Justified, Promise!node, node,
                Promise!way, way, Promise!relation, relation
  <1> QED
    BY <1>1, <1>3, <1>4, <1>5, <1>6 DEF Promise!Acceptable, Acceptable

(* A run starts as the promise does.                                       *)
LEMMA PromiseInit == Init => Promise!Init
  BY DEF Init, Promise!Init, Remaining, Published, IsWritten

(* A list of tiles by its first and the others.                            *)
LEMMA FirstTile ==
    ASSUME NEW t \in Tiles, NEW list \in Seq(Tiles)
    PROVE  /\ <<t>> \o list # <<>>
           /\ Head(<<t>> \o list) = t
           /\ Tail(<<t>> \o list) = list
  <1>1. <<t>> \in Seq(Tiles)
    OBVIOUS
  <1> QED
    BY <1>1

(* The first tile put back in front of the others.                         *)
LEMMA ListOfTiles ==
    ASSUME NEW list \in Seq(Tiles), list # <<>>
    PROVE  <<Head(list)>> \o Tail(list) = list
  OBVIOUS

(* Steps within the calls are not seen.                                    *)
LEMMA PromiseStutters ==
    ASSUME UNCHANGED <<db, config, todo, tile, file_state, file_content>>,
           call # "next_tile", call' # "next_tile"
    PROVE  UNCHANGED <<db, config, Remaining, Published>>
  BY DEF Remaining, Published, IsWritten, Content

(* What the steps shared by all data sources mean for the promise.         *)
LEMMA PromiseShared ==
    ASSUME TileInv,
           \/ NextTile \/ GetNodesInside \/ NodeRow \/ GetMissingNode \/ NotInFlatnodes
           \/ WriteFile \/ UNCHANGED vars
    PROVE  [Promise!Next]_<<db, config, Remaining, Published>>
  <1>0. tile \in Tiles /\ todo \in Seq(Tiles) /\ db \in Database
        /\ file_state \in [Tiles -> {"absent", "old", "open", "written"}]
        /\ file_content \in [Tiles -> Seq(Object)]
    BY DEF TileInv, TypeInv, TypeOK
  <1>1. CASE GetNodesInside \/ NodeRow \/ GetMissingNode \/ NotInFlatnodes \/ FileExists
    <2>1. /\ UNCHANGED <<db, config, todo, tile, file_state, file_content>>
          /\ call # "next_tile" /\ call' # "next_tile"
      BY <1>1 DEF GetNodesInside, Select, NodeRow, Row, GetMissingNode, Round, NotInFlatnodes,
            FileExists, Terminate, input, tiles, output
    <2> QED
      BY <2>1, PromiseStutters
  <1>2. CASE NextTile
    <2>1. /\ call = "next_tile" /\ call' = "get_nodes_inside" /\ todo # <<>>
          /\ tile' = Head(todo) /\ todo' = Tail(todo)
          /\ UNCHANGED <<db, config, file_state, file_content>>
      BY <1>2 DEF NextTile, input, output
    <2>2. Remaining = todo /\ Remaining' = <<Head(todo)>> \o Tail(todo)
      BY <2>1 DEF Remaining
    <2>3. Published' = Published
      BY <2>1 DEF Published, IsWritten, Content
    <2> QED
      BY <1>0, <2>1, <2>2, <2>3, ListOfTiles
  <1>3. CASE OpenFile
    <2>1. /\ call = "write_file" /\ call' = "sort_buffer_and_write_it"
          /\ UNCHANGED <<db, config, tile, todo>>
          /\ file_state' = [file_state EXCEPT ![tile] = "open"]
          /\ file_content' = [file_content EXCEPT ![tile] = <<>>]
      BY <1>3 DEF OpenFile, input, tiles
    <2>2. Remaining = <<tile>> \o todo /\ Remaining' = Remaining
      BY <2>1 DEF Remaining
    <2>3. Remaining # <<>> /\ Head(Remaining) = tile
      BY <1>0, <2>2, FirstTile
    <2>4. Published' = [Published EXCEPT ![tile] = {}]
      BY <1>0, <2>1 DEF Published, IsWritten, Content
    <2>5. Promise!Withdraw
      BY <2>1, <2>2, <2>3, <2>4 DEF Promise!Withdraw
    <2> QED
      BY <2>5 DEF Promise!Next
  <1>4. CASE WriteObject
    <2>1. /\ call = "sort_buffer_and_write_it" /\ call' = call
          /\ UNCHANGED <<db, config, tile, todo, file_state>>
          /\ \A t \in Tiles \ {tile} : file_content'[t] = file_content[t]
      BY <1>0, <1>4 DEF WriteObject, input, tiles
    <2>2. ~IsWritten(tile)
      BY <2>1 DEF TileInv, FileIsBuffer
    <2>3. Published' = Published
      BY <2>1, <2>2 DEF Published, IsWritten, Content
    <2> QED
      BY <2>1, <2>3 DEF Remaining
  <1>5. CASE CloseFile
    <2>1. /\ call = "sort_buffer_and_write_it" /\ call' = "next_tile"
          /\ UNCHANGED <<db, config, tile, todo, file_content>>
          /\ file_state' = [file_state EXCEPT ![tile] = "written"]
      BY <1>5 DEF CloseFile, input, tiles
    <2>2. Remaining = <<tile>> \o todo /\ Remaining' = todo
      BY <2>1 DEF Remaining
    <2>3. /\ Remaining # <<>> /\ Head(Remaining) = tile /\ Remaining' = Tail(Remaining)
      BY <1>0, <2>2, FirstTile
    <2>4. Published' = [Published EXCEPT ![tile] = {Content(tile)}]
      BY <1>0, <2>1 DEF Published, IsWritten, Content
    <2>5. /\ Content(tile) \in SUBSET Promise!Stored(db)
          /\ Promise!Acceptable(db, config, tile, Content(tile))
      BY <1>5, ContentAcceptable, SameAcceptable
    <2>6. Promise!Publish
      BY <2>1, <2>3, <2>4, <2>5 DEF Promise!Publish
    <2> QED
      BY <2>6 DEF Promise!Next
  <1>6. CASE UNCHANGED vars
    BY <1>6 DEF vars, input, tiles, output, Remaining, Published, IsWritten, Content
  <1> QED
    BY <1>1, <1>2, <1>3, <1>4, <1>5, <1>6 DEF WriteFile

(* What the files of a run are, however it is done.                        *)
LEMMA FilesOfTheInvariant ==
    TileInv => WaysHaveTheirNodes /\ RelationsHaveTheirMembers /\ NothingUnasked
                /\ FilesOrdered /\ TypeOK
  BY DEF TileInv, TypeInv, FilesAcceptable, Acceptable, WaysHaveTheirNodes,
         RelationsHaveTheirMembers, NothingUnasked
=============================================================================
