------------------------------ MODULE TileKeys ------------------------------
(***************************************************************************)
(* What the tree of tiles (module Hierarchy) and the neighborhood of tiles *)
(* (module QscTopology) share: faces, levels and cells                     *)
(* (src/src/core/tile_key.cpp).                                            *)
(***************************************************************************)
EXTENDS Integers

CONSTANT Cells   \* cells along an axis of a tile (format_v1::tile_cells)

ASSUME CellsAssumption == Cells \in Nat \ {0}

Faces == 0 .. 5

\* Tiles along an axis of a face, or of a tile of some levels above: one, shifted.
TilesPerAxis[level \in Nat] == IF level = 0 THEN 1 ELSE 2 * TilesPerAxis[level - 1]
=============================================================================
