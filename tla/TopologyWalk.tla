---------------------------- MODULE TopologyWalk ----------------------------
(***************************************************************************)
(* A walk over all the tiles of a level: from a tile and one of its        *)
(* corners across an edge, or around the corner. The definitions of        *)
(* QscTopology are checked at every tile and corner.                       *)
(***************************************************************************)
EXTENDS QscTopology, FiniteSets

VARIABLES
  tile,    \* where we stand
  corner   \* and the corner of it we look at

walkVars == <<tile, corner>>

\* The two edges that meet at a corner, and at which end of each.
EdgesAt(c) == {edge \in Edges : \E high \in BOOLEAN : EdgeCorner(edge, high) = c}
EndAt(edge, c) == EdgeCorner(edge, TRUE) = c

WalkInit == tile \in Tiles /\ corner \in Corners

\* The step across an edge at a corner: the next tile there, and its corner.
Around(t, c, edge) ==
  [tile |-> Neighbor(t, edge).key, corner |-> FacingCorner(t, edge, EndAt(edge, c)),
   from |-> Neighbor(t, edge).edge]

Turn ==
  \E edge \in EdgesAt(corner) :
    /\ tile' = Around(tile, corner, edge).tile
    /\ corner' = Around(tile, corner, edge).corner

WalkSpec == WalkInit /\ [][Turn]_walkVars

\* Every tile is its neighbor's neighbor across the same edge with the same
\* direction, and neighbors are distinct tiles of the level (qsc_tests.cpp
\* checks the faces, not the tiles).
NeighborsReciprocal ==
  \A edge \in Edges :
    LET n == Neighbor(tile, edge)
    IN  /\ n.key \in Tiles /\ n.key # tile
        /\ Neighbor(n.key, n.edge).key = tile
        /\ Neighbor(n.key, n.edge).edge = edge
        /\ Neighbor(n.key, n.edge).reversed <=> n.reversed

\* From a corner, the edge other than the one we came from.
Onward(s) == CHOOSE edge \in EdgesAt(s.corner) : edge # s.from

Ring(edge) ==
  LET one == Around(tile, corner, edge)
      walk[i \in 0 .. 3] ==
        IF i = 0 THEN one
        ELSE LET s == walk[i - 1] IN Around(s.tile, s.corner, Onward(s))
  IN  walk

AtCubeCorner ==
  \A edge \in EdgesAt(corner) : AtBorder(tile, edge)

\* Whoever goes round a corner of a tile, crossing one edge after the other, is
\* back at the same corner of the same tile after four tiles, after three at the
\* corners of the cube, whatever edges are reversed on the way.
CornersClose ==
  \A edge \in EdgesAt(corner) :
    LET ring == Ring(edge)
        n == IF AtCubeCorner THEN 3 ELSE 4
    IN  /\ ring[n - 1].tile = tile /\ ring[n - 1].corner = corner
        /\ Cardinality({ring[i].tile : i \in 0 .. n - 1}) = n

\* The owners that the topology names are those the seams have: the lower key
\* at an edge of a face, and the lowest of the three at a corner of the cube.
OwnersAgree ==
  /\ \A edge \in Edges :
       AtBorder(tile, edge) =>
         (FaceOwnsEdge(tile.face, edge) <=> Key(tile) < Key(Neighbor(tile, edge).key))
  /\ AtCubeCorner =>
       LET u == CHOOSE edge \in EdgesAt(corner) : Vertical(edge)
           v == CHOOSE edge \in EdgesAt(corner) : ~Vertical(edge)
           ring == {Ring(u)[i].tile : i \in 0 .. 2}
           lowest == CHOOSE t \in ring : \A o \in ring : Key(t) <= Key(o)
       IN  CornerOwner(tile.face, u, v) = lowest.face

\* One step inside a corner of a tile, in half steps of the lattice.
InnerDiagonal(t, c) ==
  LET at(i, high) == 2 * (Cells * i + (IF high THEN Cells - 1 ELSE 1)) - Span
  IN  [face |-> t.face, u |-> at(t.x, c \in {"se", "ne"}), v |-> at(t.y, c \in {"nw", "ne"})]

\* The corner of an apron is sampled one step inside the tile that lies
\* diagonally across the corner, on whatever face; at a corner of the cube inside
\* the third tile.
ApronCornerInside ==
  \E edge \in EdgesAt(corner) :
    MapExtended(ApronCorner(tile, corner))
      = InnerDiagonal(Ring(edge)[1].tile, Ring(edge)[1].corner)

\* All that is to be said of a corner: who owns it, and what lies around it.
CornersMeet == CornersClose /\ OwnersAgree /\ ApronCornerInside
=============================================================================
