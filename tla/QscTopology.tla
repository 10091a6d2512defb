----------------------------- MODULE QscTopology -----------------------------
(***************************************************************************)
(* How the tiles of one level of the quadrilateralized cube lie beside     *)
(* each other (src/src/core/qsc_topology.cpp), the order of their keys     *)
(* (src/src/core/tile_key.cpp), and where the corner of an apron leads     *)
(* (map_extended_coordinate, src/src/builder/tile_staging.cpp). Faces are  *)
(* numbered as in the code: front, right, back, left, north, south.        *)
(***************************************************************************)
EXTENDS TileKeys

CONSTANTS
  Level,   \* the level of the tiles
  Side     \* tiles along an axis of a face

ASSUME LevelAssumption == Level \in Nat /\ Side = TilesPerAxis[Level]

Edges == {"west", "east", "south", "north"}
Tiles == [face : Faces, x : 0 .. Side - 1, y : 0 .. Side - 1]

Vertical(edge) == edge \in {"west", "east"}

To(face, edge, reversed) == [face |-> face, edge |-> edge, reversed |-> reversed]

\* What lies beyond the west, east, south and north edge of a face.
Beyond(west, east, south, north) ==
  [west |-> west, east |-> east, south |-> south, north |-> north]

Connection(face) ==
  CASE face = 0 -> Beyond(To(3, "east", FALSE),  To(1, "west", FALSE),
                          To(5, "north", FALSE), To(4, "south", FALSE))
    [] face = 1 -> Beyond(To(0, "east", FALSE),  To(2, "west", FALSE),
                          To(5, "east", TRUE),   To(4, "east", FALSE))
    [] face = 2 -> Beyond(To(1, "east", FALSE),  To(3, "west", FALSE),
                          To(5, "south", TRUE),  To(4, "north", TRUE))
    [] face = 3 -> Beyond(To(2, "east", FALSE),  To(0, "west", FALSE),
                          To(5, "west", FALSE),  To(4, "west", TRUE))
    [] face = 4 -> Beyond(To(3, "north", TRUE),  To(1, "north", FALSE),
                          To(0, "north", FALSE), To(2, "north", TRUE))
    [] OTHER    -> Beyond(To(3, "south", FALSE), To(1, "south", TRUE),
                          To(2, "south", TRUE),  To(0, "south", FALSE))

FaceOwnsEdge(face, edge) == face < Connection(face)[edge].face

\* Mistake: only the face across the vertical edge is considered.
CornerOwner_TwoFaces(face, u, v) ==
  IF face < Connection(face)[u].face THEN face ELSE Connection(face)[u].face

CornerOwner(face, u, v) ==
  CHOOSE f \in {face, Connection(face)[u].face, Connection(face)[v].face} :
    \A g \in {face, Connection(face)[u].face, Connection(face)[v].face} : f <= g

Opposite(edge) ==
  CASE edge = "west" -> "east" [] edge = "east" -> "west"
    [] edge = "south" -> "north" [] OTHER -> "south"

\* Mistake: the last column and row are taken for inner ones.
AtBorder_Late(tile, edge) ==
  CASE edge = "west" -> tile.x = 0 [] edge = "east" -> tile.x = Side
    [] edge = "south" -> tile.y = 0 [] OTHER -> tile.y = Side

AtBorder(tile, edge) ==
  CASE edge = "west" -> tile.x = 0 [] edge = "east" -> tile.x = Side - 1
    [] edge = "south" -> tile.y = 0 [] OTHER -> tile.y = Side - 1

Beside(tile, edge) ==
  CASE edge = "west" -> [tile EXCEPT !.x = tile.x - 1]
    [] edge = "east" -> [tile EXCEPT !.x = tile.x + 1]
    [] edge = "south" -> [tile EXCEPT !.y = tile.y - 1]
    [] OTHER -> [tile EXCEPT !.y = tile.y + 1]

\* Mistake: a reversed edge is walked in the direction of the other one.
Across_Forward(tile, edge) ==
  LET c == Connection(tile.face)[edge]
      index == IF Vertical(edge) THEN tile.y ELSE tile.x
  IN  [face |-> c.face,
       x |-> CASE c.edge = "west" -> 0 [] c.edge = "east" -> Side - 1 [] OTHER -> index,
       y |-> CASE c.edge = "south" -> 0 [] c.edge = "north" -> Side - 1 [] OTHER -> index]

Across(tile, edge) ==
  LET c == Connection(tile.face)[edge]
      along == IF Vertical(edge) THEN tile.y ELSE tile.x
      index == IF c.reversed THEN Side - 1 - along ELSE along
  IN  [face |-> c.face,
       x |-> CASE c.edge = "west" -> 0 [] c.edge = "east" -> Side - 1 [] OTHER -> index,
       y |-> CASE c.edge = "south" -> 0 [] c.edge = "north" -> Side - 1 [] OTHER -> index]

\* qsc_tile_neighbor: the tile, the edge it is touched at, and the direction of
\* that edge.
Neighbor(tile, edge) ==
  IF AtBorder(tile, edge)
  THEN [key |-> Across(tile, edge),
        edge |-> Connection(tile.face)[edge].edge,
        reversed |-> Connection(tile.face)[edge].reversed]
  ELSE [key |-> Beside(tile, edge), edge |-> Opposite(edge), reversed |-> FALSE]

\* Morton order within a face, the order of encoded keys of one level.
Interleave[p \in Nat \X Nat] ==
  IF p = <<0, 0>> THEN 0
  ELSE (p[1] % 2) + 2 * (p[2] % 2) + 4 * Interleave[<<p[1] \div 2, p[2] \div 2>>]

Key(tile) == tile.face * Side * Side + Interleave[<<tile.x, tile.y>>]

-----------------------------------------------------------------------------
(* Corners *)

Corners == {"sw", "se", "nw", "ne"}

\* The corner at the low or the high end of an edge.
EdgeCorner(edge, high) ==
  CASE edge = "west"  -> (IF high THEN "nw" ELSE "sw")
    [] edge = "east"  -> (IF high THEN "ne" ELSE "se")
    [] edge = "south" -> (IF high THEN "se" ELSE "sw")
    [] OTHER          -> (IF high THEN "ne" ELSE "nw")

\* The corner of the neighbor that one end of an edge falls on.
FacingCorner(tile, edge, high) ==
  LET n == Neighbor(tile, edge) IN EdgeCorner(n.edge, high # n.reversed)

\* Coordinates in half steps of the sampling lattice, which has Cells steps to
\* a tile: a face spans -Span .. Span.
Span == Cells * Side

\* A point beyond two edges crosses the vertical one first.
Crossed(p) ==
  IF p.u < -Span THEN "west" ELSE IF p.u > Span THEN "east"
  ELSE IF p.v < -Span THEN "south" ELSE IF p.v > Span THEN "north" ELSE "none"

\* Mistake: the parameter keeps its sign on a reversed edge.
Transition_Forward(p) ==
  LET edge == Crossed(p)
      depth == CASE edge = "west" -> -Span - p.u [] edge = "east" -> p.u - Span
                 [] edge = "south" -> -Span - p.v [] OTHER -> p.v - Span
      c == Connection(p.face)[edge]
      along == IF Vertical(edge) THEN p.v ELSE p.u
  IN  [face |-> c.face,
       u |-> CASE c.edge = "west" -> depth - Span [] c.edge = "east" -> Span - depth
               [] OTHER -> along,
       v |-> CASE c.edge = "south" -> depth - Span [] c.edge = "north" -> Span - depth
               [] OTHER -> along]

Transition(p) ==
  LET edge == Crossed(p)
      depth == CASE edge = "west" -> -Span - p.u [] edge = "east" -> p.u - Span
                 [] edge = "south" -> -Span - p.v [] OTHER -> p.v - Span
      c == Connection(p.face)[edge]
      along == IF Vertical(edge) THEN p.v ELSE p.u
      parameter == IF c.reversed THEN -along ELSE along
  IN  [face |-> c.face,
       u |-> CASE c.edge = "west" -> depth - Span [] c.edge = "east" -> Span - depth
               [] OTHER -> parameter,
       v |-> CASE c.edge = "south" -> depth - Span [] c.edge = "north" -> Span - depth
               [] OTHER -> parameter]

\* A point that is not on a face after three transitions is an error.
MapExtended(p) ==
  LET map[i \in 0 .. 3] ==
        IF i = 0 THEN p
        ELSE IF Crossed(map[i - 1]) = "none" THEN map[i - 1]
        ELSE Transition(map[i - 1])
  IN  map[3]

\* The corner of the apron of a tile, one step beyond its own corner.
ApronCorner(tile, corner) ==
  LET high(c, at) == Cells * c + (IF at THEN Cells + 1 ELSE -1)
  IN  [face |-> tile.face,
       u |-> 2 * high(tile.x, corner \in {"se", "ne"}) - Span,
       v |-> 2 * high(tile.y, corner \in {"nw", "ne"}) - Span]
=============================================================================
