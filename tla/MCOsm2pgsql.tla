----------------------------- MODULE MCOsm2pgsql -----------------------------
(***************************************************************************)
(* Instance: two tiles, three ways (1 a line, 2 a line or a polygon, 3     *)
(* only reached through relation 1) and three relations whose references   *)
(* vary, with batches of two ids so that every loop needs several queries. *)
(***************************************************************************)
EXTENDS Osm2pgsqlDataAccess

MCTileLists == {<<"a", "b">>}
MCOldFiles == {{}, {"b"}}

DatabaseOf(graph, nullNodes, polygons, untagged, a) ==
    [ points |-> {1}, untagged |-> untagged, ways |-> {1, 2, 3}, polygons |-> polygons,
      nullNodes |-> nullNodes, relations |-> {1, 2, 3},
      refs |-> [w \in {1, 2, 3} |-> CASE w = 1 -> {1, 2} [] w = 2 -> {2} [] OTHER -> {1}],
      members |-> [r \in {1, 2, 3} |-> ({relation} \X graph[r])
                    \union (IF r = 1 THEN {<<way, 3>>, <<way, 2>>, <<node, 1>>} ELSE {})],
      inside |-> [t \in {"a", "b"} |-> IF t = "a" THEN a ELSE {<<way, 2>>}] ]

Graphs == {[r \in {1, 2, 3} |-> IF r = 1 THEN x ELSE IF r = 2 THEN y ELSE z] :
            x \in {{3}, {2}}, y \in {{1}, {1, 3}}, z \in {{1, 2}, {2}, {}}}

InsideA == {{<<way, 1>>, <<way, 2>>, <<relation, 1>>}, {<<node, 1>>, <<relation, 3>>},
            {<<way, 1>>, <<relation, 1>>, <<relation, 2>>}}

MCDatabases ==
    {DatabaseOf(g, n, p, u, a) : g \in Graphs, n \in {{}, {3}}, p \in {{2}, {2, 3}},
                                 u \in {{1, 2}, {}}, a \in InsideA}

Options(ways, relations, force) ==
    [ recurse_nodes |-> TRUE, recurse_ways |-> ways, recurse_relations |-> relations,
      orphaned_nodes |-> FALSE, flatnodes |-> TRUE, force |-> force ]

MCConfigs == {Options(TRUE, TRUE, TRUE), Options(FALSE, TRUE, FALSE)}
=============================================================================
