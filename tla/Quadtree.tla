------------------------------ MODULE Quadtree ------------------------------
(***************************************************************************)
(* The terms of JobsDatabase::xy_to_quadtree, the key of a tile in table   *)
(* jobs. A key is the set of the 1s of a 64 bits wide integer. Both shifts *)
(* are done in an int of 32 bits: bit 31 is its sign, which fills the      *)
(* upper half when it is added to the key, and what is shifted further is  *)
(* lost (as the x86 does it; the language leaves both undefined).          *)
(***************************************************************************)
EXTENDS Integers

(* n & (1 << i), of an index n.                                            *)
HasBit(n, i) == (n \div 2^i) % 2 = 1

(* An int with bit n set, as a 64 bits wide integer.                       *)
Widened(n) == {b \in 0..63 : (b = n /\ n < 31) \/ (n = 31 /\ b >= 31)}

(* What the loop adds to the key for bit i of the column and of the row.   *)
ColumnTerm(t, i) == {b \in Widened(2 * i) : HasBit(t.x, i)}

RowTermOneLess(t, i) ==  \* mutant of RowTerm
    {b \in Widened(2 * i) : HasBit(t.y, i)}

RowTerm(t, i) == {b \in Widened(2 * i + 1) : HasBit(t.y, i)}

(* All passes of the loop at once.                                         *)
xy_to_quadtree(t) ==
    {b \in 0..63 : \E i \in 0..(t.zoom - 1) : b \in ColumnTerm(t, i) \union RowTerm(t, i)}
=============================================================================
