---------------------------- MODULE MCOpenValues ----------------------------
(***************************************************************************)
(* OpenValues on a small instance.  Cells are interchangeable: no action   *)
(* orders them.                                                            *)
(***************************************************************************)
EXTENDS OpenValues, TLC

CellSymmetry == Permutations(Cells)

=============================================================================
