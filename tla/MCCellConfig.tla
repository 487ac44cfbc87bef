---------- MODULE MCCellConfig ----------
(* CellConfig with its identifiers as interchangeable model values.         *)
EXTENDS CellConfig, TLC

Symmetry == Permutations(CellIds) \cup Permutations(Powers)
            \cup Permutations(Beams) \cup Permutations(Bands)
====================
