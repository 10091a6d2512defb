--------------------------- MODULE SeamResolution ---------------------------
(***************************************************************************)
(* The seams of one level in the streaming build: every tile is finalized  *)
(* by itself from a neighborhood of two rings                              *)
(* (finalize_streaming_raster_tile, src/src/builder/container_writer.cpp), *)
(* in any order and over several attempts of the build, although the seams *)
(* belong to the level as a whole (resolve_elevation_boundaries and        *)
(* finalize_elevation_tiles, src/src/builder/tile_staging.cpp). Within an  *)
(* attempt a tile is loaded as it was sampled; a tile that an earlier      *)
(* attempt finalized is loaded from its codes.                             *)
(*                                                                         *)
(* A sample stands for where it was first taken: a tile and a place in it. *)
(* Heights of one place taken in two tiles differ. Quantization maps equal *)
(* heights to equal codes and a code's height to that code.                *)
(***************************************************************************)
EXTENDS QscTopology, Functions, FiniteSetsExt

CONSTANTS
  Levels,   \* bound: the sets of tiles a level may have
  MaxDone   \* bound: tiles that are finalized in a behavior

ASSUME SeamAssumption ==
  /\ Cells > 1
  /\ \A level \in Levels : level \subseteq Tiles
  /\ MaxDone \in Nat

VARIABLES
  level,     \* the tiles of the level
  done,      \* the tiles finalized so far, with core and apron
  released   \* the tiles whose sampled cores are gone

seamVars == <<level, done, released>>

Last       == Cells
Parameters == 0 .. Last
Samples    == Parameters \X Parameters

EdgeSample(edge, p) ==
  CASE edge = "west" -> <<0, p>> [] edge = "east" -> <<Last, p>>
    [] edge = "south" -> <<p, 0>> [] OTHER -> <<p, Last>>

InteriorEdgeSample(edge, p) ==
  CASE edge = "west" -> <<1, p>> [] edge = "east" -> <<Last - 1, p>>
    [] edge = "south" -> <<p, 1>> [] OTHER -> <<p, Last - 1>>

CornerSample(corner) ==
  CASE corner = "sw" -> <<0, 0>> [] corner = "se" -> <<Last, 0>>
    [] corner = "nw" -> <<0, Last>> [] OTHER -> <<Last, Last>>

Mapped(neighbor, p) == IF neighbor.reversed THEN Last - p ELSE p

-----------------------------------------------------------------------------
(* resolve_elevation_boundaries *)

\* Mistake: keys are not compared, and both sides own an edge.
Owned_Both(tiles) == {o \in tiles \X Edges : Neighbor(o[1], o[2]).key \in tiles}

\* The edges between two tiles of the batch, each taken from the lower key.
Owned(tiles) ==
  {o \in tiles \X Edges :
     /\ Neighbor(o[1], o[2]).key \in tiles
     /\ Key(o[1]) < Key(Neighbor(o[1], o[2]).key)}

Patch(receiver, sample, owner, from) ==
  [receiver |-> receiver, sample |-> sample, owner |-> owner, from |-> from]

EdgePatches(tiles) ==
  {LET n == Neighbor(o[1][1], o[1][2])
   IN  Patch(n.key, EdgeSample(n.edge, Mapped(n, o[2])), o[1][1], EdgeSample(o[1][2], o[2])) :
     o \in Owned(tiles) \X (1 .. Last - 1)}

\* The corners of the batch are united along its edges; find_root without the
\* compression of paths, which changes no root.
CornerNodes(tiles) == tiles \X Corners

Rank(node) ==
  4 * Key(node[1]) + CASE node[2] = "sw" -> 0 [] node[2] = "se" -> 1
                       [] node[2] = "nw" -> 2 [] OTHER -> 3

LowerNode(a, b) == IF Rank(a) <= Rank(b) THEN a ELSE b
HigherNode(a, b) == IF Rank(a) <= Rank(b) THEN b ELSE a

FindRoot(parents, node) ==
  LET root[n \in DOMAIN parents] == IF parents[n] = n THEN n ELSE root[parents[n]]
  IN  root[node]

\* Mistake: nodes are united, not their roots.
Unite_Nodes(pair, parents) == [parents EXCEPT ![HigherNode(pair[1], pair[2])] = LowerNode(pair[1], pair[2])]

Unite(pair, parents) ==
  LET a == FindRoot(parents, pair[1])
      b == FindRoot(parents, pair[2])
  IN  [parents EXCEPT ![HigherNode(a, b)] = LowerNode(a, b)]

CornerParents(tiles) ==
  FoldSet(Unite, [node \in CornerNodes(tiles) |-> node],
    {<<<<o[1][1], EdgeCorner(o[1][2], o[2])>>,
       <<Neighbor(o[1][1], o[1][2]).key, FacingCorner(o[1][1], o[1][2], o[2])>>>> :
      o \in Owned(tiles) \X BOOLEAN})

CornerRoots(tiles) ==
  LET parents == CornerParents(tiles) IN [node \in CornerNodes(tiles) |-> FindRoot(parents, node)]

\* The owner of a corner is the lowest of the nodes that were united.
CornerOwners(root) ==
  [r \in Range(root) |->
     LET group == {m \in DOMAIN root : root[m] = r}
     IN  CHOOSE m \in group : \A o \in group : Rank(m) <= Rank(o)]

PatchesFrom(root, owner) ==
  {Patch(node[1], CornerSample(node[2]),
         owner[root[node]][1], CornerSample(owner[root[node]][2])) :
     node \in {n \in DOMAIN root : owner[root[n]] # n}}

CornerPatches(tiles) ==
  LET root == CornerRoots(tiles) IN PatchesFrom(root, CornerOwners(root))

Patches(tiles) == EdgePatches(tiles) \cup CornerPatches(tiles)

\* The code applies the patches in place, in the order of the receivers' keys.
\* PatchesIndependent says that no order would make a difference.
Apply(patches, cores) ==
  [t \in DOMAIN cores |->
     LET mine == {p \in patches : p.receiver = t}
     IN  [s \in Samples |->
            IF \E p \in mine : p.sample = s
            THEN LET p == CHOOSE q \in mine : q.sample = s IN cores[p.owner][p.from]
            ELSE cores[t][s]]]

Resolve(cores) == Apply(Patches(DOMAIN cores), cores)

\* A tile with the row of samples next to the edge of every neighbor around it;
\* the row of a neighbor that is not in the batch is sampled.
WithApron(t, resolved) ==
  [core |-> resolved[t],
   apron |-> [e \in Edges |->
     LET n == Neighbor(t, e)
     IN  [p \in Parameters |->
            LET sample == InteriorEdgeSample(n.edge, Mapped(n, p))
            IN  IF n.key \in DOMAIN resolved THEN resolved[n.key][sample] ELSE <<n.key, sample>>]]]

\* finalize_elevation_tiles; the four corners of the apron, which are sampled
\* too, are left out.
Finalize(cores) ==
  LET resolved == Resolve(cores) IN [t \in DOMAIN cores |-> WithApron(t, resolved)]

\* validate_seams: tiles that lie beside each other agree on every sample of the
\* edge between them, its ends included. A pair is looked at from its lower key.
ValidateSeams(cores) ==
  \A t \in DOMAIN cores : \A edge \in Edges :
    LET n == Neighbor(t, edge)
    IN  n.key \in DOMAIN cores /\ Key(t) < Key(n.key) =>
          \A p \in Parameters :
            cores[t][EdgeSample(edge, p)] = cores[n.key][EdgeSample(n.edge, Mapped(n, p))]

-----------------------------------------------------------------------------
(* The level in the streaming build *)

Sampled(tile) == [s \in Samples |-> <<tile, s>>]

Load(tile) == IF tile \in released THEN done[tile].core ELSE Sampled(tile)

Beyond1(tiles) == tiles \cup ({Neighbor(o[1], o[2]).key : o \in tiles \X Edges} \cap level)

\* Mistake: the tile and its neighbors only.
Neighborhood_OneRing(tile) == Beyond1({tile})

Neighborhood(tile) == Beyond1(Beyond1({tile}))

SeamInit ==
  /\ level \in Levels
  /\ done = <<>>
  /\ released = {}

FinalizeTile(tile) ==
  /\ tile \in level \ DOMAIN done
  /\ Cardinality(DOMAIN done) < MaxDone
  /\ LET final == Finalize([t \in Neighborhood(tile) |-> Load(t)])[tile]
     IN  done' = [t \in DOMAIN done \cup {tile} |-> IF t = tile THEN final ELSE done[t]]
  /\ UNCHANGED <<level, released>>

\* The level was given up, or ended: what is done is reused without its sampled
\* core by the attempts that follow.
Release ==
  /\ released # DOMAIN done
  /\ released' = DOMAIN done
  /\ UNCHANGED <<level, done>>

SeamNext == Release \/ \E tile \in level : FinalizeTile(tile)

SeamSpec == SeamInit /\ [][SeamNext]_seamVars

-----------------------------------------------------------------------------
(* Properties *)

\* A tile finalized from two rings, in whatever order and attempt, is the one
\* that resolving the whole level at once gives: the core and the apron, whose
\* ends lie on edges of the second ring.
StreamingEqualsBatch ==
  LET batch == Finalize([t \in level |-> Sampled(t)])
  IN  \A t \in DOMAIN done : done[t] = batch[t]

\* The apron of a tile shows the neighbor as it was finalized, not as sampled.
ApronShows(t, edge) ==
  LET n == Neighbor(t, edge)
  IN  n.key \in DOMAIN done =>
        \A p \in Parameters :
          done[t].apron[edge][p] = done[n.key].core[InteriorEdgeSample(n.edge, Mapped(n, p))]

\* The validator accepts the seams of what is finalized, however far the build
\* has come, and an apron shows what the neighbor became, whichever of the two
\* was finalized first, and in whatever attempt.
SeamsMeet ==
  /\ ValidateSeams([t \in DOMAIN done |-> done[t].core])
  /\ \A t \in DOMAIN done : \A edge \in Edges : ApronShows(t, edge)

\* A sample receives one patch, and no patch reads what another one writes; so
\* the order in which patches are found and applied does not matter.
PatchesIndependent ==
  LET patches == Patches(level)
      received == {<<p.receiver, p.sample>> : p \in patches}
  IN  /\ Cardinality(received) = Cardinality(patches)
      /\ \A p \in patches : <<p.owner, p.from>> \notin received
=============================================================================
