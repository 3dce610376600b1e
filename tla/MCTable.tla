------------------------------ MODULE MCTable ------------------------------
(***************************************************************************)
(* Three places for objects and two connections: one connection is moved   *)
(* twice, or two objects have one each and one of them is moved.           *)
(***************************************************************************)
EXTENDS Table, TLC

Symmetry == Permutations(Objects) \union Permutations(Connections) \union Permutations(Lines)
=============================================================================
