------------------------------- MODULE MCHead -------------------------------
(* Head on small instances.                                                *)
EXTENDS Head, TLC

LabelSymmetry == Permutations(Labels)
=============================================================================
