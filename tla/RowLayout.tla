----------------------------- MODULE RowLayout -----------------------------
(***************************************************************************)
(* From the style file to the values of an object in the Cerepso layout:   *)
(* ColumnConfigParser reads the columns, the statements are prepared from  *)
(* them and from the metadata options, and the parsers                     *)
(* (parse_node_query_result, parse_way_query_result,                       *)
(* parse_relation_query_result) count the offsets of a row anew. A value   *)
(* of a row is the column it was read from.                                *)
(***************************************************************************)
EXTENDS ColumnConfigParser, Columns

VARIABLES
    metadata,       (* fields asked for with --metadata                    *)
    m_untagged_nodes_geom,  (* option -u                                   *)
    statement,      (* the prepared statement that is run                  *)
    row,            (* the columns of a row of its result                  *)
    object          (* what the parser gives to the callback               *)

options == <<metadata, m_untagged_nodes_geom>>
vars == <<styleVars, options, statement, row, object>>

(* The table a statement asks.                                             *)
TableOf ==
    [ get_nodes_with_tags |-> "POINT", get_single_node_with_tags |-> "POINT",
      get_single_node_without_tags |-> "UNTAGGED_POINT",
      get_ways |-> "WAYS_LINEAR", get_single_way |-> "WAYS_LINEAR",
      get_relations |-> "RELATION_OTHER", get_single_relation |-> "RELATION_OTHER",
      get_way_nodes |-> "NODE_WAYS", get_node_members |-> "RELATION_MEMBER_NODES",
      get_way_members |-> "RELATION_MEMBER_WAYS",
      get_relation_members |-> "RELATION_MEMBER_RELATIONS" ]

Statements == DOMAIN TableOf
Without == "get_single_node_without_tags"
NodeStatements == {"get_nodes_with_tags", "get_single_node_with_tags", Without}
MemberStatements == {s \in Statements : TableOf[s] \in MemberTables}
OtherStatements == Statements \ (NodeStatements \union MemberStatements)

(* Statements by id do not ask for the id; the parsers get it as argument. *)
ById == {"get_single_node_with_tags", Without, "get_single_way", "get_single_relation"}

NoObject == [parsed |-> FALSE]
NULL == <<"NULL">>

Init ==
    /\ InitStyle
    /\ metadata \in SUBSET Fields
    /\ m_untagged_nodes_geom \in BOOLEAN
    /\ statement = "" /\ row = <<>> /\ object = NoObject

Parse == ParseStyle /\ UNCHANGED <<options, statement, row, object>>

-----------------------------------------------------------------------------
(* MetadataFields.                                                         *)

SelectedFields ==
    LET Selected(f) == IF f \in metadata THEN <<f>> ELSE <<>>
    IN  Selected("osm_user") \o Selected("osm_uid") \o Selected("osm_version")
            \o Selected("osm_lastmodified") \o Selected("osm_changeset")

count == Len(SelectedFields)

unavailable == -1

fieldIndexFromOne(f) ==  \* mutant of fieldIndex
    IF f \in metadata THEN CHOOSE i \in 1..count : SelectedFields[i] = f ELSE unavailable

fieldIndex(f) ==
    IF f \in metadata THEN (CHOOSE i \in 1..count : SelectedFields[i] = f) - 1
    ELSE unavailable

(* MetadataFields::changeset() returns its index as a bool.                *)
changeset == IF fieldIndex("osm_changeset") # 0 THEN 1 ELSE 0

-----------------------------------------------------------------------------
(* Tables and statements.                                                  *)

(* build_table: the columns of the type, then those of the style.          *)
build_table(table) ==
    init(metadata, table) \o
        CASE table = "POINT" -> m_point_columns
          [] table \in {"WAYS_LINEAR", "RELATION_OTHER"} -> m_line_columns
          [] OTHER -> <<>>

geom_column_name == get_column_name_by_type(build_table("POINT"), "POINT")

(* The location: ST_X and ST_Y of a geometry, or two columns of integers.  *)
LocationColumns(s) ==
    IF s # Without \/ m_untagged_nodes_geom
    THEN << <<"ST_X">> \o geom_column_name, <<"ST_Y">> \o geom_column_name >>
    ELSE << <<"x">>, <<"y">> >>

SelectMembers(s) ==
    IF s = "get_way_nodes" THEN << <<"node_id">>, <<"position">> >>
    ELSE << <<"member_id">>, <<"role">>, <<"position">> >>

SelectObjects(s) ==
    [k \in DOMAIN SelectedFields |-> <<SelectedFields[k]>>]
        \o (IF s \in ById THEN <<>> ELSE << <<"osm_id">> >>)
        \o (IF s = Without THEN <<>> ELSE << <<"tags">> >>)
        \o (IF s \in NodeStatements THEN LocationColumns(s) ELSE <<>>)
        \o (IF s \in NodeStatements \ {Without} THEN Names(m_point_columns) ELSE <<>>)

(* The statements are put together and one of them is run.                 *)
RunStatement ==
    /\ pc = "parsed" /\ row = <<>>
    /\ statement' \in Statements
    /\ row' = IF statement' \in MemberStatements THEN SelectMembers(statement')
              ELSE SelectObjects(statement')
    /\ UNCHANGED <<styleVars, options, object>>

-----------------------------------------------------------------------------
(* The parsers.                                                            *)

(* Beyond the columns of the result PQgetvalue returns NULL.               *)
PQgetvalue(field) == IF field \in 0..(Len(row) - 1) THEN row[field + 1] ELSE NULL

tags_field_offsetAlways == count + 1  \* mutant of tags_field_offset

tags_field_offset == IF statement \in ById THEN count ELSE count + 1

(* additional_values, for the columns the parser takes from the style.     *)
AdditionalValues(cols, offset) == [j \in DOMAIN cols |-> PQgetvalue(offset + j - 1)]

(* What all parsers of objects read.                                       *)
Common ==
    LET Metadata(f) ==
            IF fieldIndex(f) = unavailable THEN NULL
            ELSE PQgetvalue(IF f = "osm_changeset" THEN changeset ELSE fieldIndex(f))
    IN  [ parsed |-> TRUE,
          id |-> IF statement \in ById THEN <<"osm_id">> ELSE PQgetvalue(count),
          tags |-> IF statement = Without THEN NULL ELSE PQgetvalue(tags_field_offset),
          metadata |-> [f \in Fields \ {"osm_user"} |-> Metadata(f)],
          x |-> NULL, y |-> NULL, conversion |-> "atof",
          columns |-> <<>>, additional_values |-> <<>> ]

(* Two integers of 1e-7 degrees are converted, numbers are degrees.        *)
Conversion ==
    IF statement = Without /\ ~m_untagged_nodes_geom THEN "fix_to_double" ELSE "atof"

ParseNode ==
    /\ statement \in NodeStatements /\ row # <<>> /\ ~object.parsed
    /\ LET with_tags == statement # Without
           other_field_offset ==
                IF with_tags THEN tags_field_offset + 1 ELSE tags_field_offset
       IN  object' = [Common EXCEPT
                !.x = PQgetvalue(other_field_offset), !.y = PQgetvalue(other_field_offset + 1),
                !.conversion = Conversion,
                !.columns = Names(m_point_columns),
                !.additional_values = IF with_tags
                                      THEN AdditionalValues(m_point_columns, other_field_offset + 2)
                                      ELSE <<>>]
    /\ UNCHANGED <<styleVars, options, statement, row>>

ParseWayOrRelation ==
    /\ statement \in OtherStatements /\ row # <<>> /\ ~object.parsed
    /\ object' = [Common EXCEPT
            !.columns = Names(m_polygon_columns),
            !.additional_values = AdditionalValues(m_polygon_columns, tags_field_offset + 1)]
    /\ UNCHANGED <<styleVars, options, statement, row>>

(* The nodes of a way and the members of a relation.                       *)
ParseMember ==
    /\ statement \in MemberStatements /\ row # <<>> /\ ~object.parsed
    /\ object' = [ parsed |-> TRUE, ref |-> PQgetvalue(0),
                   role |-> IF statement = "get_way_nodes" THEN NULL ELSE PQgetvalue(1),
                   pos |-> PQgetvalue(IF statement = "get_way_nodes" THEN 1 ELSE 2) ]
    /\ UNCHANGED <<styleVars, options, statement, row>>

Next == Parse \/ RunStatement \/ ParseNode \/ ParseWayOrRelation \/ ParseMember

Spec == Init /\ [][Next]_vars /\ WF_vars(Next)

-----------------------------------------------------------------------------
ParsedObject == object.parsed /\ statement \notin MemberStatements

(* Id, tags, location, references and roles come from the columns that     *)
(* hold them, whatever metadata is asked for and whether the statement     *)
(* selects the id, and a location is converted if its columns need it. The *)
(* columns of the style give tagged nodes the values of their keys.        *)
OffsetsAgree ==
    /\ ParsedObject =>
        /\ object.id = <<"osm_id">>
        /\ object.tags = IF statement = Without THEN NULL ELSE <<"tags">>
        /\ statement \in NodeStatements =>
            \/ /\ object.x = <<"ST_X", "geom">> /\ object.y = <<"ST_Y", "geom">>
               /\ object.conversion = "atof"
            \/ /\ object.x = <<"x">> /\ object.y = <<"y">>
               /\ object.conversion = "fix_to_double"
        /\ statement \in NodeStatements \ {Without} =>
            object.additional_values = object.columns
    /\ object.parsed /\ statement \in MemberStatements =>
        /\ object.ref \in {<<"node_id">>, <<"member_id">>}
        /\ object.pos = <<"position">>
        /\ object.role \in {<<"role">>, NULL}

(* Whatever set of fields is asked for, user id, version and timestamp of  *)
(* nodes, ways and relations are read from their own columns, and a field  *)
(* that is not asked for stays empty. The changeset is another matter.     *)
FieldsAgree ==
    ParsedObject =>
        \A f \in Fields \ {"osm_user"} :
            /\ f \in metadata \ {"osm_changeset"} => object.metadata[f] = <<f>>
            /\ f \notin metadata => object.metadata[f] = NULL

(* The tables, as Cerepso creates them, have every column a statement asks *)
(* for, itself or for its coordinates: the list of MetadataFields and that *)
(* of Columns are kept apart in the code. The untagged nodes with a        *)
(* geometry are no such table.                                             *)
SelectedColumnsExist ==
    statement # "" /\ ~(statement = Without /\ m_untagged_nodes_geom) =>
        \A k \in DOMAIN row : \E column \in ToSet(Names(build_table(TableOf[statement]))) :
            row[k] \in {column, <<"ST_X">> \o column, <<"ST_Y">> \o column}

(* add_way and add_relation are documented to get the changeset attribute  *)
(* of the object and the values of the keys with a column of their own. Of *)
(* an object that has both, neither comes from its column.                 *)
CallbacksAsDocumented ==
    /\ object.parsed /\ statement \in OtherStatements
    /\ Fields \ {"osm_user"} \subseteq metadata /\ object.columns # <<>>
    => /\ object.metadata["osm_changeset"] = <<"osm_changeset">>
       /\ object.additional_values = object.columns
=============================================================================
