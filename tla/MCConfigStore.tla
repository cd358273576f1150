--------------------------- MODULE MCConfigStore ---------------------------
(* Instances of ConfigStore for TLC: the updates are interchangeable. *)
EXTENDS ConfigStore, TLC

OpSymmetry == Permutations(Ops)
=============================================================================
