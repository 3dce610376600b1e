------------------------- MODULE OSMVectorTileImpl -------------------------
(***************************************************************************)
(* OSMVectorTileImpl<TDataAccess> and the loop of run() around it: for     *)
(* every tile of the list the state is cleared, six calls of the data      *)
(* access collect objects in m_buffer through the callbacks add_node,      *)
(* add_way and add_relation, and write_file sorts the buffer, drops        *)
(* repeated objects and writes the rest.                                   *)
(*                                                                         *)
(* This module has the state, the callbacks, the order of the calls and    *)
(* the file; the calls themselves belong to the data sources, which EXTEND *)
(* it (CerepsoDataAccess, Osm2pgsqlDataAccess).                            *)
(***************************************************************************)
EXTENDS OSMData

VARIABLES
    db, config,             (* what is read, never changed by the program  *)
    todo,                   (* tiles still to do, in the order of the list *)
    tile,                   (* the tile being built                        *)
    call,                   (* the call of generate_vectortile that runs   *)
    fetched, rows,          (* a query result and its rows not yet parsed  *)
    cursor,                 (* the iterator of a loop over a set of ids    *)
    m_buffer,               (* objects in the order of their commit        *)
    m_location_handler,     (* nodes got so far, as its index finds them   *)
    m_ways_got, m_relations_got,
    m_missing_nodes, m_missing_ways, m_missing_relations,
    objects,                (* positions of m_buffer still to write        *)
    file_state,             (* absent, old, open or written                *)
    file_content            (* the objects written to each output file     *)

input == <<db, config>>
tiles == <<todo, tile>>
reading == <<fetched, rows, cursor>>
got == <<m_ways_got, m_relations_got>>
missing == <<m_missing_nodes, m_missing_ways, m_missing_relations>>
collected == <<m_buffer, m_location_handler, got, missing>>
output == <<objects, file_state, file_content>>
vars == <<input, tiles, call, reading, collected, output>>

Calls == {"get_nodes_inside", "get_ways_inside", "get_relations_inside",
          "get_missing_relations", "get_missing_ways", "get_missing_nodes"}

(* next_tile: between two tiles; terminated: an exception left main().     *)
ProgramPoints == Calls \union
    {"next_tile", "write_file", "sort_buffer_and_write_it", "terminated"}

EmptyIndex == [ids |-> {}, last |-> 0, sorted |-> TRUE]

Init ==
    /\ db \in Databases
    /\ config \in Configs
    /\ todo \in TileLists /\ tile = (CHOOSE t \in Tiles : TRUE)
    /\ call = "next_tile"
    /\ fetched = FALSE /\ rows = {} /\ cursor = 0
    /\ m_buffer = <<>> /\ m_location_handler = EmptyIndex
    /\ m_ways_got = {} /\ m_relations_got = {}
    /\ m_missing_nodes = {} /\ m_missing_ways = {} /\ m_missing_relations = {}
    /\ objects = {}
    /\ \E old \in OldFiles :
        file_state = [t \in Tiles |-> IF t \in old THEN "old" ELSE "absent"]
    /\ file_content = [t \in Tiles |-> <<>>]

-----------------------------------------------------------------------------
(* One round of the loop in run(): the constructor of VectorTile clears    *)
(* the implementation and hands the bounding box to the data access.       *)
clearKeepsLocations ==  \* mutant of clear
    /\ m_buffer' = <<>>
    /\ m_ways_got' = {} /\ m_relations_got' = {}
    /\ m_missing_nodes' = {} /\ m_missing_ways' = {} /\ m_missing_relations' = {}
    /\ UNCHANGED m_location_handler

clearKeepsMissingNodes ==  \* mutant of clear
    /\ m_buffer' = <<>>
    /\ m_location_handler' = EmptyIndex
    /\ m_ways_got' = {} /\ m_relations_got' = {}
    /\ m_missing_ways' = {} /\ m_missing_relations' = {}
    /\ UNCHANGED m_missing_nodes

clear ==
    /\ m_buffer' = <<>>
    /\ m_location_handler' = EmptyIndex
    /\ m_ways_got' = {} /\ m_relations_got' = {}
    /\ m_missing_nodes' = {} /\ m_missing_ways' = {} /\ m_missing_relations' = {}

NextTile ==
    /\ call = "next_tile" /\ todo # <<>>
    /\ tile' = Head(todo) /\ todo' = Tail(todo)
    /\ clear
    /\ call' = "get_nodes_inside"
    /\ UNCHANGED <<input, reading, output>>

(* generate_vectortile: relations first, because they miss ways, then      *)
(* ways, because they miss nodes.                                          *)
CallAfterWaysFirst(c) ==  \* mutant of CallAfter
    CASE c = "get_nodes_inside" -> "get_ways_inside"
      [] c = "get_ways_inside" -> "get_relations_inside"
      [] c = "get_relations_inside" /\ config.recurse_ways -> "get_missing_ways"
      [] /\ \/ c = "get_relations_inside" /\ ~config.recurse_ways
            \/ c = "get_missing_ways"
         /\ config.recurse_relations -> "get_missing_relations"
      [] c = "get_missing_nodes" -> "write_file"
      [] OTHER -> "get_missing_nodes"

CallAfter(c) ==
    CASE c = "get_nodes_inside" -> "get_ways_inside"
      [] c = "get_ways_inside" -> "get_relations_inside"
      [] c = "get_relations_inside" /\ config.recurse_relations -> "get_missing_relations"
      [] /\ \/ c = "get_relations_inside" /\ ~config.recurse_relations
            \/ c = "get_missing_relations"
         /\ config.recurse_ways -> "get_missing_ways"
      [] c = "get_missing_nodes" -> "write_file"
      [] OTHER -> "get_missing_nodes"

Return ==
    /\ call' = CallAfter(call)
    /\ fetched' = FALSE /\ rows' = {} /\ cursor' = 0
    /\ UNCHANGED <<input, tiles, collected, output>>

(* An exception nobody catches ends the program.                           *)
Terminate ==
    /\ call' = "terminated"
    /\ UNCHANGED <<input, tiles, reading, collected, output>>

-----------------------------------------------------------------------------
(* The callbacks.                                                          *)

(* The ids a lookup of refs in the location handler may not find. The      *)
(* index is a binary search over pairs in the order they were added, and   *)
(* nothing sorts it: once a node came after one with a greater id, the     *)
(* search may miss any node.                                               *)
NotFound(refs) ==
    IF m_location_handler.sorted
    THEN {refs \ m_location_handler.ids}
    ELSE {(refs \ m_location_handler.ids) \union lost :
            lost \in SUBSET (refs \intersect m_location_handler.ids)}

add_node(n) ==
    /\ m_buffer' = Append(m_buffer, <<node, n>>)
    /\ m_location_handler' =
        [ ids |-> m_location_handler.ids \union {n},
          last |-> n,
          sorted |-> m_location_handler.sorted /\ m_location_handler.last <= n ]
    /\ UNCHANGED <<got, missing>>

AddWay(w, refs) ==
    /\ m_buffer' = Append(m_buffer, <<way, w>>)
    /\ \E unavailable \in NotFound(refs) :
        m_missing_nodes' = m_missing_nodes \union unavailable
    /\ UNCHANGED <<m_location_handler, got, m_missing_ways, m_missing_relations>>

AddRelationWithAllNodes(r, members) ==  \* mutant of AddRelation
    LET Followed(type, recurse) ==
            IF recurse THEN IdsOf(type, members) ELSE {}
    IN  /\ m_buffer' = Append(m_buffer, <<relation, r>>)
        /\ \E unavailable \in NotFound(IdsOf(node, members)) :
            m_missing_nodes' = m_missing_nodes \union unavailable
        /\ m_missing_ways' = m_missing_ways
            \union (Followed(way, config.recurse_ways) \ m_ways_got)
        /\ m_missing_relations' = m_missing_relations
            \union (Followed(relation, config.recurse_relations) \ m_relations_got)
        /\ UNCHANGED <<m_location_handler, got>>

AddRelation(r, members) ==
    LET Followed(type, recurse) ==
            IF recurse THEN IdsOf(type, members) ELSE {}
    IN  /\ m_buffer' = Append(m_buffer, <<relation, r>>)
        /\ \E unavailable \in NotFound(Followed(node, config.recurse_nodes)) :
            m_missing_nodes' = m_missing_nodes \union unavailable
        /\ m_missing_ways' = m_missing_ways
            \union (Followed(way, config.recurse_ways) \ m_ways_got)
        /\ m_missing_relations' = m_missing_relations
            \union (Followed(relation, config.recurse_relations) \ m_relations_got)
        /\ UNCHANGED <<m_location_handler, got>>

(* The nodes and members are those the database has for the object.        *)
add_way(w) == AddWay(w, db.refs[w])
add_relation(r) == AddRelation(r, db.members[r])

-----------------------------------------------------------------------------
(* What the data sources' calls have in common.                            *)

(* A spatial query is sent; its rows come in any order.                    *)
Select(c, ids) ==
    /\ call = c /\ ~fetched
    /\ fetched' = TRUE /\ rows' = ids
    /\ UNCHANGED <<input, tiles, call, cursor, collected, output>>

(* One row is parsed and given to a callback.                              *)
Row(c, Callback(_)) ==
    /\ call = c
    /\ \E id \in rows : Callback(id) /\ rows' = rows \ {id}
    /\ UNCHANGED <<input, tiles, call, fetched, cursor, output>>

(* A loop over a std::set: the next id, also when the set has grown since  *)
(* the loop began.                                                         *)
IsNext(id, ids) == id \in ids /\ id > cursor /\ \A j \in ids : j > cursor => id <= j

ExhaustedNever(ids) == \A id \in ids : id < cursor  \* mutant of Exhausted
ExhaustedEarly(ids) == \A id \in ids : id <= cursor + 1  \* mutant of Exhausted
Exhausted(ids) == \A id \in ids : id <= cursor

(* One round of such a loop with a query by id, which returns one row or,  *)
(* when the id is not stored, none.                                        *)
Round(c, ids, stored, Callback(_)) ==
    /\ call = c
    /\ \E id \in ids :
        /\ IsNext(id, ids)
        /\ cursor' = id
        /\ IF id \in stored THEN Callback(id) ELSE UNCHANGED collected
    /\ UNCHANGED <<input, tiles, call, fetched, rows, output>>

-----------------------------------------------------------------------------
(* write_file.                                                             *)

OpenFileFromZero ==  \* mutant of OpenFile
    /\ call = "write_file"
    /\ file_state[tile] = "absent" \/ config.force
    /\ file_state' = [file_state EXCEPT ![tile] = "open"]
    /\ file_content' = [file_content EXCEPT ![tile] = <<>>]
    /\ objects' = 0..Len(m_buffer)
    /\ call' = "sort_buffer_and_write_it"
    /\ UNCHANGED <<input, tiles, reading, collected>>

OpenFile ==
    /\ call = "write_file"
    /\ file_state[tile] = "absent" \/ config.force
    /\ file_state' = [file_state EXCEPT ![tile] = "open"]
    /\ file_content' = [file_content EXCEPT ![tile] = <<>>]
    /\ objects' = DOMAIN m_buffer
    /\ call' = "sort_buffer_and_write_it"
    /\ UNCHANGED <<input, tiles, reading, collected>>

FileExists ==
    /\ call = "write_file"
    /\ file_state[tile] # "absent" /\ ~config.force
    /\ Terminate

(* std::unique_copy drops an object if it equals the one just written.     *)
IsRepeatedNever(o) == FALSE  \* mutant of IsRepeated
IsRepeated(o) == file_content[tile] # <<>> /\ Last(file_content[tile]) = o

WriteObject ==
    /\ call = "sort_buffer_and_write_it"
    /\ \E i \in objects :
        /\ \A j \in objects : ~Precedes(m_buffer[j], m_buffer[i])
        /\ objects' = objects \ {i}
        /\ file_content' = IF IsRepeated(m_buffer[i]) THEN file_content
                           ELSE [file_content EXCEPT ![tile] = Append(@, m_buffer[i])]
    /\ UNCHANGED <<input, tiles, call, reading, collected, file_state>>

CloseFileEarly ==  \* mutant of CloseFile
    /\ call = "sort_buffer_and_write_it"
    /\ file_state' = [file_state EXCEPT ![tile] = "written"]
    /\ call' = "next_tile"
    /\ UNCHANGED <<input, tiles, reading, collected, objects, file_content>>

CloseFile ==
    /\ call = "sort_buffer_and_write_it" /\ objects = {}
    /\ file_state' = [file_state EXCEPT ![tile] = "written"]
    /\ call' = "next_tile"
    /\ UNCHANGED <<input, tiles, reading, collected, objects, file_content>>

WriteFile == OpenFile \/ FileExists \/ WriteObject \/ CloseFile

-----------------------------------------------------------------------------
TypeOK ==
    /\ db \in Database /\ config \in Config
    /\ todo \in Seq(Tiles) /\ tile \in Tiles
    /\ call \in ProgramPoints
    /\ fetched \in BOOLEAN /\ rows \subseteq Nat /\ cursor \in Nat
    /\ m_buffer \in Seq(Object)
    /\ m_location_handler \in [ids : SUBSET NodeIds, last : Nat, sorted : BOOLEAN]
    /\ m_ways_got \subseteq WayIds /\ m_relations_got \subseteq RelationIds
    /\ m_missing_nodes \subseteq NodeIds
    /\ m_missing_ways \subseteq WayIds
    /\ m_missing_relations \subseteq RelationIds
    /\ objects \subseteq DOMAIN m_buffer
    /\ file_state \in [Tiles -> {"absent", "old", "open", "written"}]
    /\ file_content \in [Tiles -> Seq(Object)]

-----------------------------------------------------------------------------
(* Properties of the files, once they are written.                         *)

IsWritten(t) == file_state[t] = "written"
Content(t) == ToSet(file_content[t])

(* A way of a written tile never lacks a node whose location the database  *)
(* knows, wherever the node is: check_node_availability and                *)
(* get_missing_nodes see to it, for the ways of all three calls that add   *)
(* some and whatever the index fails to find.                              *)
WaysHaveTheirNodes == \A t \in Tiles : IsWritten(t) => WaysComplete(db, Content(t))

(* The relations of a written tile have the stored members the options ask *)
(* for; this needs the order relations, ways, nodes of the three calls for *)
(* missing objects.                                                        *)
RelationsHaveTheirMembers ==
    \A t \in Tiles : IsWritten(t) => MembersComplete(db, config, t, Content(t))

(* Nothing of an earlier tile, and nothing the options exclude, is in a    *)
(* written tile: clear() resets all that a tile collects.                  *)
NothingUnasked ==
    \A t \in Tiles : IsWritten(t) => Justified(db, config, t, Content(t))

(* Nodes, ways, relations, each by ascending id and each object once,      *)
(* although the buffer holds objects in the order of arrival and repeated. *)
FilesOrdered ==
    \A t \in Tiles : \A i \in DOMAIN file_content[t] :
        i > 1 => Precedes(file_content[t][i - 1], file_content[t][i])

(* The usage text: -r writes the relations to the file which other         *)
(* relations refer to. The osm2pgsql source does not come back to what the *)
(* rows of its last batch add.                                             *)
AllRelationsFollowed ==
    \A t \in Tiles : IsWritten(t) /\ config.recurse_relations =>
        \A r \in IdsOf(relation, Content(t)) :
            {relation} \X IdsOf(relation, db.members[r] \intersect Stored(db))
                \subseteq Content(t)

(* Every run comes to its end: the loop over a set that its own body       *)
(* extends stops too, with relations that refer to each other in a circle. *)
Terminates == <>(call = "terminated" \/ (call = "next_tile" /\ todo = <<>>))

(* The tile being built is one of those that remain, a file counts when it *)
(* is closed.                                                              *)
Remaining == IF call = "next_tile" THEN todo ELSE <<tile>> \o todo
Published == [t \in Tiles |-> IF IsWritten(t) THEN {Content(t)} ELSE {}]

Promise == INSTANCE TileContents WITH remaining <- Remaining, published <- Published

(* Whichever data source is used: each tile of the list is published in    *)
(* its turn, at once and with an acceptable content, or the run ends       *)
(* before it.                                                              *)
KeepsPromise == Promise!Spec
=============================================================================
