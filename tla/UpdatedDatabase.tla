-------------------------- MODULE UpdatedDatabase --------------------------
(***************************************************************************)
(* The generator reading the Cerepso layout while an importer changes the  *)
(* database. Every query is a step of its own: the generator opens no      *)
(* transaction around them, so a way and its nodes, the three kinds of     *)
(* members of a relation and the two stores of nodes may be answered from  *)
(* different states of the database.                                       *)
(***************************************************************************)
EXTENDS CerepsoDataAccess

CONSTANT MaxUpdates             (* bounds the changes during a run          *)

VARIABLES
    query,          (* the row in work between two of its queries          *)
    updates,        (* changes so far                                      *)
    seen,           (* states of the database since the tile was begun     *)
    read            (* ways and relations with what was read of them       *)

history == <<updates, seen, read>>
updatedVars == <<vars, query, history>>

NoQuery == [id |-> 0, asked |-> 0, members |-> {}]
Idle == query = NoQuery

UpdatedInit ==
    /\ Init
    /\ query = NoQuery
    /\ updates = 0 /\ seen = {} /\ read = {}

(* The importer commits; it knows nothing of the generator.                *)
Import ==
    /\ updates < MaxUpdates
    /\ db' \in Databases \ {db}
    /\ updates' = updates + 1
    /\ seen' = seen \union {db'}
    /\ UNCHANGED <<config, tiles, call, reading, collected, output, query, read>>

-----------------------------------------------------------------------------
(* The steps with one query or none are those of CerepsoDataAccess.        *)

BeginTile == NextTile /\ seen' = {db} /\ read' = {} /\ UNCHANGED <<query, updates>>

OneQuery ==
    /\ Idle
    /\ \/ GetNodesInside \/ NodeRow
       \/ GetWaysInside
       \/ GetRelationsInside
       \/ CallReturns
       \/ WriteFile
    /\ UNCHANGED <<query, history>>

(* A way of the spatial query; get_way_nodes follows its row.              *)
ReadWay ==
    /\ Idle /\ WayRow
    /\ \E w \in rows \ rows' : read' = read \union {<<<<way, w>>, {node} \X db.refs[w]>>}
    /\ UNCHANGED <<query, updates, seen>>

-----------------------------------------------------------------------------
(* Rounds of the loops over the missing objects.                           *)

(* The first query of a round; without an answer the round is over.        *)
AskKeepsCursor(c, ids, stored) ==  \* mutant of Ask
    /\ call = c /\ Idle
    /\ \E id \in ids :
        /\ IsNext(id, ids)
        /\ IF id \in stored
           THEN query' = [NoQuery EXCEPT !.id = id] /\ UNCHANGED cursor
           ELSE UNCHANGED <<cursor, query>>
    /\ UNCHANGED <<input, tiles, call, fetched, rows, collected, output, history>>

Ask(c, ids, stored) ==
    /\ call = c /\ Idle
    /\ \E id \in ids :
        /\ IsNext(id, ids)
        /\ IF id \in stored
           THEN query' = [NoQuery EXCEPT !.id = id] /\ UNCHANGED cursor
           ELSE cursor' = id /\ UNCHANGED query
    /\ UNCHANGED <<input, tiles, call, fetched, rows, collected, output, history>>

AskWay == Ask("get_missing_ways", m_missing_ways, db.ways)
AskRelation == Ask("get_missing_relations", m_missing_relations, db.relations)

(* get_single_way has found a way, get_way_nodes gives its nodes.          *)
FinishWay ==
    /\ call = "get_missing_ways" /\ ~Idle
    /\ AddWay(query.id, db.refs[query.id])
    /\ read' = read \union {<<<<way, query.id>>, {node} \X db.refs[query.id]>>}
    /\ cursor' = query.id /\ query' = NoQuery
    /\ UNCHANGED <<input, tiles, call, fetched, rows, output, updates, seen>>

(* A row of get_relations is taken up.                                     *)
TakeRelation ==
    /\ call = "get_relations_inside" /\ Idle
    /\ \E r \in rows : query' = [NoQuery EXCEPT !.id = r]
    /\ UNCHANGED <<vars, history>>

MembersOfType(r, type) == {m \in db.members[r] : m[1] = type}

(* The members of a relation are asked for by node_relations, by           *)
(* way_relations ...                                                       *)
AskMembers ==
    /\ call \in {"get_relations_inside", "get_missing_relations"}
    /\ ~Idle /\ query.asked < 2
    /\ query' = [query EXCEPT !.asked = @ + 1,
                              !.members = @ \union MembersOfType(query.id, query.asked + 1)]
    /\ UNCHANGED <<vars, history>>

(* ... and by relation_relations; then the relation is complete.           *)
FinishRelationLast ==  \* mutant of FinishRelation
    /\ call \in {"get_relations_inside", "get_missing_relations"}
    /\ ~Idle /\ query.asked = 2
    /\ LET members == MembersOfType(query.id, relation)
       IN  /\ AddRelation(query.id, members)
           /\ read' = read \union {<<<<relation, query.id>>, members>>}
    /\ IF call = "get_relations_inside"
       THEN rows' = rows \ {query.id} /\ UNCHANGED cursor
       ELSE cursor' = query.id /\ UNCHANGED rows
    /\ query' = NoQuery
    /\ UNCHANGED <<input, tiles, call, fetched, output, updates, seen>>

FinishRelation ==
    /\ call \in {"get_relations_inside", "get_missing_relations"}
    /\ ~Idle /\ query.asked = 2
    /\ LET members == query.members \union MembersOfType(query.id, relation)
       IN  /\ AddRelation(query.id, members)
           /\ read' = read \union {<<<<relation, query.id>>, members>>}
    /\ IF call = "get_relations_inside"
       THEN rows' = rows \ {query.id} /\ UNCHANGED cursor
       ELSE cursor' = query.id /\ UNCHANGED rows
    /\ query' = NoQuery
    /\ UNCHANGED <<input, tiles, call, fetched, output, updates, seen>>

(* The store of nodes that is asked first, and the other: the table of the *)
(* tagged nodes before the flatnodes file, but behind the untagged nodes.  *)
FirstStore == IF config.flatnodes THEN db.points ELSE db.untagged
SecondStoreFirst == FirstStore  \* mutant of SecondStore
SecondStore == IF config.flatnodes THEN db.untagged ELSE db.points

FoundNode(n) ==
    /\ add_node(n)
    /\ cursor' = n /\ query' = NoQuery
    /\ UNCHANGED <<input, tiles, call, fetched, rows, output, history>>

AskFirstStore ==
    /\ call = "get_missing_nodes" /\ Idle
    /\ \E n \in m_missing_nodes :
        /\ IsNext(n, m_missing_nodes)
        /\ \/ n \in FirstStore /\ FoundNode(n)
           \/ /\ n \notin FirstStore
              /\ query' = [NoQuery EXCEPT !.id = n]
              /\ UNCHANGED <<vars, history>>

AskSecondStore ==
    /\ call = "get_missing_nodes" /\ ~Idle
    /\ \/ query.id \in SecondStore /\ FoundNode(query.id)
       \/ /\ query.id \notin SecondStore
          /\ cursor' = query.id /\ query' = NoQuery
          /\ UNCHANGED <<input, tiles, call, fetched, rows, collected, output, history>>
       \/ /\ query.id \notin SecondStore /\ config.flatnodes
          /\ Terminate
          /\ query' = NoQuery /\ UNCHANGED history

(* Any query may fail, the flatnodes file is asked without one.            *)
OneQueryFails ==
    /\ QueryFails
    /\ Idle \/ call # "get_missing_nodes" \/ ~config.flatnodes
    /\ query' = NoQuery /\ UNCHANGED history

Generate ==
    \/ BeginTile \/ OneQuery \/ ReadWay
    \/ AskWay \/ FinishWay
    \/ TakeRelation \/ AskRelation \/ AskMembers \/ FinishRelation
    \/ AskFirstStore \/ AskSecondStore

UpdatedNext == Generate \/ OneQueryFails \/ Import

(* The generator goes on whatever the importer does and if no query fails. *)
UpdatedSpec == UpdatedInit /\ [][UpdatedNext]_updatedVars /\ WF_updatedVars(Generate)

-----------------------------------------------------------------------------
(* The tile has just been written.                                         *)
Ready == call = "next_tile" /\ IsWritten(tile)

(* A node that stays in its store, a way or relation that stays.           *)
Stays(o) ==
    CASE o[1] = node -> \/ \A d \in seen : o[2] \in d.points
                        \/ \A d \in seen : o[2] \in d.untagged
      [] o[1] = way -> \A d \in seen : o[2] \in d.ways
      [] OTHER -> \A d \in seen : o[2] \in d.relations

Recursed(o) ==
    CASE o[1] = node -> config.recurse_nodes
      [] o[1] = way -> config.recurse_ways
      [] OTHER -> config.recurse_relations

(* Whatever is imported meanwhile: what is inside the tile all the time is *)
(* in its file.                                                            *)
StayingObjectsWritten ==
    Ready => \A o \in Object :
        (\A d \in seen : o \in Inside(d, tile)) => o \in Content(tile)

(* No way or relation lacks a node, and no relation a way, that was read   *)
(* as its part and stays, in whatever state of the database they were      *)
(* read; a node that moves between the two stores may be lost, see         *)
(* AskSecondStore.                                                         *)
StayingPartsWritten ==
    Ready => \A p \in read : \A m \in p[2] :
        /\ Stays(m) /\ m[1] # relation
        /\ p[1][1] = way \/ Recursed(m)
        => m \in Content(tile)

(* Nothing is made up: each object was inside at some time or was read as  *)
(* part of another one of the file, and was in the database at some time.  *)
ObjectsWereThere ==
    Ready => \A o \in Content(tile) :
        \E d \in seen :
            /\ o \in Stored(d)
            /\ \/ o \in d.inside[tile]
               \/ \E p \in read :
                    p[1] \in Content(tile) /\ o \in p[2] /\ (p[1][1] = way \/ Recursed(o))

(* While nothing is imported each step is one of CerepsoDataAccess or none *)
(* at all: that its rounds and rows are single steps there hides nothing.  *)
RoundsAreAtomic == [][updates' = 0 => Next \/ UNCHANGED vars]_updatedVars

(* A run ends although the importer extends what its loops walk over.      *)
UpdatedTerminates == <>(call = "terminated" \/ (call = "next_tile" /\ todo = <<>>))
=============================================================================
