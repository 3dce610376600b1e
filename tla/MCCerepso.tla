------------------------------ MODULE MCCerepso ------------------------------
(***************************************************************************)
(* Two families of databases in one instance.                              *)
(*                                                                         *)
(* Relation graphs, for one tile: every graph of references between three  *)
(* relations, every set of them inside the tile. Relation 3 has a way,     *)
(* which has a node, and relation 1 a node; neither is inside.             *)
(*                                                                         *)
(* Node stores, for a run over two tiles: way 1 has nodes 1 and 2, way 2   *)
(* has nodes 2 and 3, relation 1 has node 3 and way 2. Each node is        *)
(* tagged, untagged or unknown; what tile a intersects varies.             *)
(***************************************************************************)
EXTENDS CerepsoDataAccess

Relations == {1, 2, 3}
MCTileLists == {<<"a">>, <<"a", "b">>}
MCOldFiles == {{}, {"a"}, {"b"}}

Other(r) ==
    CASE r = 1 -> {<<node, 1>>}
      [] r = 3 -> {<<way, 1>>}
      [] OTHER -> {}

RelationsDatabase(graph, inside, relations) ==
    [ points |-> {1}, untagged |-> {2}, ways |-> {1}, polygons |-> {},
      nullNodes |-> {}, relations |-> relations,
      refs |-> [w \in {1, 2} |-> {2}],
      members |-> [r \in Relations |-> Other(r) \union ({relation} \X graph[r])],
      inside |-> [t \in {"a", "b"} |-> IF t = "a" THEN {relation} \X inside ELSE {}] ]

Graphs == {g \in [Relations -> SUBSET Relations] : \A r \in Relations : r \notin g[r]}

RelationsDatabases ==
    {RelationsDatabase(g, i, Relations) : g \in Graphs, i \in SUBSET Relations}
    \union {RelationsDatabase(g, {2}, {2, 3}) : g \in Graphs}

NodesDatabase(points, untagged, a, b) ==
    [ points |-> points, untagged |-> untagged, ways |-> {1, 2}, polygons |-> {},
      nullNodes |-> {}, relations |-> {1},
      refs |-> [w \in {1, 2} |-> {w, w + 1}],
      members |-> [r \in Relations |-> {<<node, 3>>, <<way, 2>>}],
      inside |-> [t \in {"a", "b"} |-> IF t = "a" THEN a ELSE b] ]

Nodes == {<<node, 1>>, <<node, 2>>, <<node, 3>>}
InsideA == {{<<relation, 1>>} \union a : a \in SUBSET {<<node, 2>>, <<node, 3>>, <<way, 1>>}}
             \union {Nodes, Nodes \union {<<way, 2>>, <<relation, 1>>}}
InsideB == {{<<way, 2>>}, {<<node, 3>>, <<way, 1>>}}

NodesDatabases ==
    {NodesDatabase(p, u, a, b) : p \in {{1, 2, 3}, {2, 3}, {3}}, u \in {{}, {1}, {1, 2}},
                                 a \in InsideA, b \in InsideB}

MCDatabases == RelationsDatabases \union NodesDatabases

Options(nodes, others, orphaned, flatnodes, force) ==
    [ recurse_nodes |-> nodes, recurse_ways |-> others, recurse_relations |-> nodes,
      orphaned_nodes |-> orphaned, flatnodes |-> flatnodes, force |-> force ]

RelationsConfigs ==
    {Options(TRUE, TRUE, FALSE, FALSE, FALSE), Options(FALSE, TRUE, FALSE, FALSE, FALSE)}
NodesConfigs ==
    {Options(TRUE, TRUE, TRUE, FALSE, TRUE), Options(FALSE, FALSE, FALSE, FALSE, FALSE),
     Options(TRUE, TRUE, TRUE, TRUE, FALSE)}

MCConfigs == RelationsConfigs \union NodesConfigs

(* Each family with its own list of tiles, options and earlier files.      *)
MCInit ==
    /\ Init
    /\ IF todo = <<"a">>
       THEN db \in RelationsDatabases /\ config \in RelationsConfigs /\ file_state["b"] = "absent"
       ELSE db \in NodesDatabases /\ config \in NodesConfigs /\ file_state["a"] = "absent"

MCSpec == MCInit /\ [][Next]_vars /\ WF_vars(Proceed)
=============================================================================
