------------------------------ MODULE Columns ------------------------------
(***************************************************************************)
(* Columns: the columns of a table of the Cerepso layout before those of   *)
(* the style file. The generator and the importer, which creates the       *)
(* tables, both take them from here.                                       *)
(***************************************************************************)
EXTENDS Integers, Sequences, SequencesExt

(* Table types with objects; the other tables hold references.             *)
ObjectTables == {"POINT", "UNTAGGED_POINT", "WAYS_LINEAR", "RELATION_OTHER"}
MemberTables == {"NODE_WAYS", "RELATION_MEMBER_NODES", "RELATION_MEMBER_WAYS",
                 "RELATION_MEMBER_RELATIONS"}

Fields == {"osm_user", "osm_uid", "osm_version", "osm_lastmodified", "osm_changeset"}

(* A name is a sequence of words, as the style file gives it.              *)
Column(word, type) == [name |-> <<word>>, type |-> type]

(* A column is there if its metadata field was asked for.                  *)
MetadataColumns(metadata) ==
    LET Selected(f, type) == IF f \in metadata THEN <<Column(f, type)>> ELSE <<>>
    IN  Selected("osm_user", "TEXT") \o Selected("osm_uid", "BIGINT")
            \o Selected("osm_version", "INT") \o Selected("osm_lastmodified", "TEXT")
            \o Selected("osm_changeset", "BIGINT")

MemberColumns ==
    << Column("member_id", "BIGINT"), Column("relation_id", "BIGINT"),
       Column("position", "SMALLINT"), Column("role", "TEXT") >>

(* The columns only a type of table has; tags_hstore is always set.        *)
OwnColumns(table) ==
    CASE table = "POINT" -> << Column("geom", "POINT"), Column("tags", "HSTORE") >>
      [] table = "UNTAGGED_POINT" -> << Column("x", "INT"), Column("y", "INT") >>
      [] table = "WAYS_LINEAR" -> << Column("geom", "LINESTRING"), Column("tags", "HSTORE") >>
      [] table = "RELATION_OTHER" ->
            << Column("geom_points", "MULTIPOINT"), Column("geom_lines", "MULTILINESTRING"),
               Column("tags", "HSTORE") >>
      [] table = "NODE_WAYS" ->
            << Column("way_id", "BIGINT"), Column("node_id", "BIGINT"),
               Column("position", "SMALLINT") >>
      [] OTHER -> MemberColumns

initWithoutTags(metadata, table) ==  \* mutant of init
    (IF table \in ObjectTables
     THEN <<Column("osm_id", "BIGINT")>> \o MetadataColumns(metadata) ELSE <<>>)
        \o SelectSeq(OwnColumns(table), LAMBDA c : c.type # "HSTORE")

init(metadata, table) ==
    (IF table \in ObjectTables
     THEN <<Column("osm_id", "BIGINT")>> \o MetadataColumns(metadata) ELSE <<>>)
        \o OwnColumns(table)

(* Table::get_column_name_by_type: the first column of a type.             *)
get_column_name_by_type(cols, type) ==
    cols[CHOOSE k \in DOMAIN cols :
            cols[k].type = type /\ \A j \in 1..(k - 1) : cols[j].type # type].name
=============================================================================
