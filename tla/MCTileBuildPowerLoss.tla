------------------------ MODULE MCTileBuildPowerLoss ------------------------
(* The tiles and configurations of MCTileBuild. *)
EXTENDS MCTileBuild, TileBuildPowerLoss
=============================================================================
