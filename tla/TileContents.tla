---------------------------- MODULE TileContents ----------------------------
(***************************************************************************)
(* What a run of the generator promises, without how: the tiles of the     *)
(* list are published one after the other, each in one step and with an    *)
(* acceptable content. An earlier file of the tile may go before its       *)
(* successor is there. The run may end at any point.                       *)
(***************************************************************************)
EXTENDS OSMData

VARIABLES
    db, config,
    remaining,      (* the tiles not yet published, in order               *)
    published       (* for each tile no content or the set of its content  *)

Init ==
    /\ db \in Databases /\ config \in Configs
    /\ remaining \in TileLists
    /\ published = [t \in Tiles |-> {}]

Withdraw ==
    /\ remaining # <<>>
    /\ published' = [published EXCEPT ![Head(remaining)] = {}]
    /\ UNCHANGED <<db, config, remaining>>

Publish ==
    /\ remaining # <<>>
    /\ remaining' = Tail(remaining)
    /\ \E objects \in SUBSET Stored(db) :
        /\ Acceptable(db, config, Head(remaining), objects)
        /\ published' = [published EXCEPT ![Head(remaining)] = {objects}]
    /\ UNCHANGED <<db, config>>

Next == Withdraw \/ Publish

Spec == Init /\ [][Next]_<<db, config, remaining, published>>
=============================================================================
