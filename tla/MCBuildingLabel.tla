--------------------------- MODULE MCBuildingLabel ---------------------------
(* BuildingLabel on small instances: runs are interchangeable, so safety     *)
(* runs explore them up to renaming.  Liveness runs use no symmetry.         *)
EXTENDS BuildingLabel, TLC

RunSymmetry == Permutations(Runs)
=============================================================================
