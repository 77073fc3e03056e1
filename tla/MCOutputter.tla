------------------------------ MODULE MCOutputter ------------------------------
(* The outputters are alike, and so are the BOMs and the two sound contents: *)
(* states that differ in their names only are one.                           *)
EXTENDS Outputter, TLC

MCSymmetry ==
  Permutations(Outputter) \cup Permutations(Bom) \cup Permutations(Sound)
=============================================================================
