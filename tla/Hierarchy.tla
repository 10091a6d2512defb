----------------------------- MODULE Hierarchy -----------------------------
(***************************************************************************)
(* The plan of a build: which tiles of the sparse quadtrees on the six     *)
(* faces are materialized for a list of sources, and which children each   *)
(* of them has (src/src/builder/hierarchy.cpp); the parents and children   *)
(* of keys (src/src/core/tile_key.cpp); and what the reader answers about  *)
(* them (src/src/core/database.cpp).                                       *)
(*                                                                         *)
(* A source is the set of keys that its footprint intersects and the level *)
(* chosen for its resolution. The geometry behind both is left out, so     *)
(* nothing is assumed of that set: a tile may intersect a footprint that   *)
(* its parent was found not to.                                            *)
(***************************************************************************)
EXTENDS TileKeys, Sequences

CONSTANTS
  MaxLevel,   \* LunarTileKey::max_level
  Inputs      \* the lists of sources that may be planned

Quadrants == 0 .. 3

Coordinates == 0 .. TilesPerAxis[MaxLevel] - 1

Keys == {k \in [face : Faces, level : 0 .. MaxLevel, x : Coordinates, y : Coordinates] :
           k.x < TilesPerAxis[k.level] /\ k.y < TilesPerAxis[k.level]}

Sources == [covers : SUBSET Keys, level : 0 .. MaxLevel]

ASSUME HierarchyAssumption ==
  /\ MaxLevel \in Nat
  /\ Inputs \subseteq Seq(Sources)

VARIABLES
  sources,   \* what is planned for
  phase,     \* where plan_sparse_hierarchy is
  next,      \* the source that follows
  stack,     \* the nodes that the recursion has yet to visit
  tiles,     \* the tiles found so far
  masks      \* their children, as quadrants

vars == <<sources, phase, next, stack, tiles, masks>>

Root(face) == [face |-> face, level |-> 0, x |-> 0, y |-> 0]

Parent(k) == [face |-> k.face, level |-> k.level - 1, x |-> k.x \div 2, y |-> k.y \div 2]

\* Mistake: the bits of the quadrant are swapped.
Child_Transposed(k, q) ==
  [face |-> k.face, level |-> k.level + 1, x |-> 2 * k.x + (q \div 2), y |-> 2 * k.y + (q % 2)]

\* The low bit of a Morton code belongs to x.
Child(k, q) ==
  [face |-> k.face, level |-> k.level + 1, x |-> 2 * k.x + (q % 2), y |-> 2 * k.y + (q \div 2)]

Quadrant(k) == (k.x % 2) + 2 * (k.y % 2)

Children(k) == <<Child(k, 0), Child(k, 1), Child(k, 2), Child(k, 3)>>

Roots == <<Root(0), Root(1), Root(2), Root(3), Root(4), Root(5)>>

Init ==
  /\ sources \in Inputs
  /\ phase = "planning" /\ next = 1
  /\ stack = <<>> /\ tiles = {} /\ masks = <<>>

\* No source, a resolution that no permitted level reaches, or geometry that fails.
GiveUp ==
  /\ phase = "planning"
  /\ phase' = "failed"
  /\ UNCHANGED <<sources, next, stack, tiles, masks>>

NextSource ==
  /\ phase = "planning" /\ stack = <<>>
  /\ next <= Len(sources)
  /\ next' = next + 1
  /\ stack' = Roots
  /\ UNCHANGED <<sources, phase, tiles, masks>>

Source == sources[next - 1]

\* Mistake: the recursion ends one level too early.
Descends_Short(k) == k \in Source.covers /\ k.level + 1 < Source.level

\* Mistake: a node outside the footprint is not materialized, but descended into.
Descends_Anyway(k) == k.level # Source.level

Descends(k) == k \in Source.covers /\ k.level # Source.level

Materializes(k) == k \in Source.covers

\* A call of add_intersecting_nodes; stack holds the calls that follow it.
Visit ==
  /\ phase = "planning" /\ stack # <<>>
  /\ LET k == Head(stack)
     IN  /\ tiles' = IF Materializes(k) THEN tiles \cup {k} ELSE tiles
         /\ stack' = IF Descends(k) THEN Children(k) \o Tail(stack) ELSE Tail(stack)
  /\ UNCHANGED <<sources, phase, next, masks>>

Orphans == {k \in tiles : k.level > 0 /\ Parent(k) \notin tiles}

\* materialized_child_masks: every tile sets its bit in the mask of its parent.
Masks == [k \in tiles |-> {Quadrant(c) : c \in {t \in tiles : t.level > 0 /\ Parent(t) = k}}]

ComputeMasks ==
  /\ phase = "planning" /\ stack = <<>>
  /\ sources # <<>> /\ next > Len(sources)
  /\ IF Orphans = {}
     THEN phase' = "done" /\ masks' = Masks
     ELSE phase' = "orphan" /\ UNCHANGED masks
  /\ UNCHANGED <<sources, next, stack, tiles>>

Ended == phase \in {"done", "failed", "orphan"} /\ UNCHANGED vars

Next == GiveUp \/ NextSource \/ Visit \/ ComputeMasks \/ Ended

Spec == Init /\ [][Next]_vars

-----------------------------------------------------------------------------
(* What the reader answers *)

\* in_subtree
InSubtree(k, root) ==
  /\ k.face = root.face /\ k.level >= root.level
  /\ k.x \div TilesPerAxis[k.level - root.level] = root.x
  /\ k.y \div TilesPerAxis[k.level - root.level] = root.y

ChildrenOf(k) == IF k.level = MaxLevel THEN {} ELSE {Child(k, q) : q \in Quadrants} \cap tiles

\* validate_hierarchy, which reads a database back: the masks tell which children
\* there are, and a tile has its parent, unless it is the only one.
ValidateHierarchy ==
  \A k \in tiles :
    /\ masks[k] = IF k.level = MaxLevel THEN {} ELSE {q \in Quadrants : Child(k, q) \in tiles}
    /\ tiles # {k} /\ k.level # 0 => Parent(k) \in tiles

-----------------------------------------------------------------------------
(* geometric_error_bilinear_u16_v1, along one axis: where the sample at     *)
(* position p of a tile falls among the samples of an ancestor.             *)

Scale(k, ancestor) == TilesPerAxis[k.level - ancestor.level]

\* Mistake: the origin of the ancestor is taken in steps of the descendant.
Lower_Origin(k, ancestor, at, over, p) ==
  (at * Cells + p) \div Scale(k, ancestor) - at * Cells

Lower(k, ancestor, at, over, p) ==
  (at * Cells + p) \div Scale(k, ancestor) - over * Cells

Upper(low) == IF low + 1 < Cells THEN low + 1 ELSE Cells

Remainder(k, ancestor, at, p) == (at * Cells + p) % Scale(k, ancestor)

-----------------------------------------------------------------------------
(* Properties *)

\* A tile is materialized after its parent, whatever the footprints are, so that
\* no plan is refused for a tile without one.
PlanClosed ==
  /\ \A k \in tiles : k.level > 0 => Parent(k) \in tiles
  /\ phase # "orphan"

\* The tiles a source needs: those it covers down to its level, with all their
\* ancestors. The order of the sources does not matter.
PlanExact ==
  phase = "done" =>
    tiles = {k \in Keys : \E s \in 1 .. Len(sources) :
               /\ k.level <= sources[s].level
               /\ \A a \in Keys : InSubtree(k, a) => a \in sources[s].covers}

\* A mask tells which of the keys that the reader asks for as children exist.
MasksExact ==
  phase = "done" =>
    \A k \in tiles :
      /\ \A q \in Quadrants : q \in masks[k] <=> Child(k, q) \in tiles
      /\ ChildrenOf(k) = {Child(k, q) : q \in masks[k]}

\* What is planned has all that the validator and the reader of a database rely
\* on, and there is always a parent to hang a tile on while it is planned.
PlanValid ==
  /\ PlanClosed /\ MasksExact
  /\ phase = "done" => ValidateHierarchy

\* The samples of an ancestor that a sample is compared with exist and enclose
\* it; where the upper one is cut off, it has no weight.
SamplesEnclosed ==
  phase = "done" =>
    \A k \in tiles : \A a \in {t \in tiles : t # k /\ InSubtree(k, t)} : \A p \in 0 .. Cells :
      LET low == Lower(k, a, k.x, a.x, p)
          rest == Remainder(k, a, k.x, p)
      IN  /\ low \in 0 .. Cells /\ Upper(low) \in 0 .. Cells
          /\ rest # 0 => Upper(low) = low + 1
          /\ (a.x * Cells + low) * Scale(k, a) + rest = k.x * Cells + p
=============================================================================
