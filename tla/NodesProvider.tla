--------------------------- MODULE NodesProvider ---------------------------
(***************************************************************************)
(* NodesProvider with its two implementations: NodesDBProvider (table      *)
(* untagged_nodes) and NodesFlatnodeProvider (flatnodes file, chosen by    *)
(* config.flatnodes). Both data sources hold it as a pointer to the base   *)
(* class, whose get_nodes_inside is not virtual: the spatial query is the  *)
(* one on the tagged nodes whatever the options say.                       *)
(***************************************************************************)
EXTENDS OSMVectorTileImpl

GetNodesInside == Select("get_nodes_inside", IdsOf(node, Inside(db, tile)))

NodeRow == Row("get_nodes_inside", add_node)

(* One round of the loop of get_missing_nodes: both stores of nodes are    *)
(* asked in turn (the order differs, the first that has the node wins).    *)
GetMissingNode ==
    Round("get_missing_nodes", m_missing_nodes, Located(db), add_node)

(* The lookup in the flatnodes file of a node it does not hold either      *)
(* yields an invalid location (above) or throws osmium::not_found, which   *)
(* nobody catches.                                                         *)
NotInFlatnodes ==
    /\ call = "get_missing_nodes" /\ config.flatnodes
    /\ \E id \in m_missing_nodes \ Located(db) : IsNext(id, m_missing_nodes)
    /\ Terminate
=============================================================================
