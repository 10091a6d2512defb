----------------------------- MODULE MCTileBuild -----------------------------
(* Two level-0 tiles that share an edge, a child of the second one, and two   *)
(* configurations that give them other elevations, exact half steps included. *)
EXTENDS TileBuild

MCTiles     == {1, 2, 3}
MCLevelOf   == [t \in MCTiles |-> IF t = 3 THEN 1 ELSE 0]
MCParentOf  == [t \in MCTiles |-> 2]
MCNeighbors == [t \in MCTiles |-> CASE t = 1 -> {2} [] t = 2 -> {1} [] OTHER -> {}]
MCElevation == [c \in {"low", "high"} |->
                  [t \in MCTiles |-> IF c = "low" THEN 4 * t + 2 ELSE 4 * t + 23]]
=============================================================================
