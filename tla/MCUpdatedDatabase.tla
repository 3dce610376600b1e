------------------------- MODULE MCUpdatedDatabase -------------------------
(***************************************************************************)
(* A database and every change of one thing in it: a node gets its first   *)
(* tag, moves out of the tile or is on its way between the two tables, a   *)
(* way gets other nodes, is deleted or comes into the tile, a relation     *)
(* gets other members or is deleted. Two changes lead from any of them to  *)
(* any other.                                                              *)
(***************************************************************************)
EXTENDS UpdatedDatabase

Base ==
    [ points |-> {1}, untagged |-> {2, 3}, ways |-> {1, 2}, polygons |-> {},
      nullNodes |-> {}, relations |-> {1, 2},
      refs |-> [w \in {1, 2} |-> IF w = 1 THEN {1, 2} ELSE {3}],
      members |-> [r \in {1, 2} |-> IF r = 1 THEN {<<way, 2>>, <<relation, 2>>}
                                   ELSE {<<node, 1>>, <<relation, 1>>}],
      inside |-> [t \in {"a"} |-> {<<way, 1>>, <<relation, 1>>}] ]

MCDatabases ==
    { Base,
      [Base EXCEPT !.points = {1, 2}, !.untagged = {3}],
      [Base EXCEPT !.untagged = {3}],
      [Base EXCEPT !.inside = [t \in {"a"} |-> {<<node, 1>>, <<way, 2>>, <<relation, 2>>}]],
      [Base EXCEPT !.refs = [w \in {1, 2} |-> {w, 3}]],
      [Base EXCEPT !.ways = {1}],
      [Base EXCEPT !.members = [r \in {1, 2} |-> {<<node, 3>>, <<way, 1>>}]],
      [Base EXCEPT !.relations = {1}] }

MCTileLists == {<<"a">>}
MCOldFiles == {{}}

Options(nodes, others, flatnodes) ==
    [ recurse_nodes |-> nodes, recurse_ways |-> others, recurse_relations |-> others,
      orphaned_nodes |-> FALSE, flatnodes |-> flatnodes, force |-> FALSE ]
MCConfigs == {Options(TRUE, TRUE, FALSE), Options(FALSE, TRUE, TRUE)}
=============================================================================
