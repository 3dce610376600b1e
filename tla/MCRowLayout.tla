---------------------------- MODULE MCRowLayout ----------------------------
(***************************************************************************)
(* All sets of metadata fields, every statement, and style files with what *)
(* real ones hold: comments, empty lines, rows of blanks, all geometries,  *)
(* flags alone and in lists, columns that are not read, and the mistakes   *)
(* the parser refuses. Each style is two of these lines, one has four.     *)
(***************************************************************************)
EXTENDS RowLayout

GoodLines ==
    { <<>>, <<"#", " ", "node">>,
      <<"node", " ", "amenity", " ", "text">>,
      <<"node", ",", "way", " ", " ", "name", " ", "text", " ", "linear">>,
      <<"way", " ", "building", " ", "text", " ", "polygon", " ", "#", " ", "delete">>,
      <<" ", "way", ",", "node", " ", "lanes", " ", "int4", " ", "linear", "#", "x">>,
      <<"way", " ", "note", " ", "text", " ", "linear", ",", "delete">>,
      <<"node", " ", "ele", " ", "real", " ", "nocolumn", ",", "phstore", " ", "x">>,
      <<"way", " ", "z_order", " ", "int8">>, <<"way", " ", "way_area">> }

BadLines ==
    { <<" ", "#", "x">>, <<"area", " ", "name", " ", "text">>, <<"node", " ", "name">>,
      <<"node", " ", "name", " ", "int8", " ">>, <<"way", " ", "name", " ", "#", " ", "text">> }

MCStyles ==
    {<<a, b>> : a \in GoodLines, b \in GoodLines \union BadLines}
    \union {<<<<"node", " ", "a", " ", "text">>, <<>>, <<"node", " ", "b", " ", "real">>,
              <<"node", " ", "c", " ", "int4">>>>}

(* Every set of fields with one style, every style with two sets.          *)
MCInit ==
    /\ Init
    /\ \/ metadata \in {{}, Fields \ {"osm_user"}} /\ m_untagged_nodes_geom
       \/ Len(m_osm2pgsql_style) > 2

MCSpec == MCInit /\ [][Next]_vars /\ WF_vars(Next)
=============================================================================
