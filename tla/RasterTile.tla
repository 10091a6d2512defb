------------------------------ MODULE RasterTile ------------------------------
(***************************************************************************)
(* A tile of terrain from raster files: the sources are opened, the grid   *)
(* of the tile and a halo around it is sampled from every one, maybe by    *)
(* several workers, and the samples are fused (build_raster_tile_work,     *)
(* src/src/builder/container_writer.cpp; GdalRasterSource and              *)
(* MosaicRasterSource, src/src/builder/raster_source.cpp). A source with   *)
(* many pixels under a tile, and one that is sampled without its lock,     *)
(* answers from samples that DecodedCache fills; the others read a window. *)
(*                                                                         *)
(* The sources of DecodedCache are the physical ones. A logical source is  *)
(* a mosaic of them. A scene says what is configured and what is in the    *)
(* rasters.                                                                *)
(***************************************************************************)
EXTENDS DecodedCache, RasterSampling, Fusion

CONSTANTS
  Core,      \* samples along an edge of a tile (format_v1::core_vertices)
  Scenes,    \* bound: what is built
  Pending    \* no answer yet

\* A logical source, as it is configured. Its effective resolution is the nominal
\* one if nothing else is said.
Logicals ==
  [id : Nat, priority : Int, policy : {"replace", "bias_corrected_replace", "residual_refinement_v1"},
   resolution : Nat, effective : Nat, components : Seq(Sources)]

\* A configuration where two sources have one identifier is refused. The sources
\* of a tile are listed once, in the order of the configuration.
ASSUME TileAssumption ==
  /\ Core \in Nat /\ Core > 1
  /\ \A c \in Scenes :
       /\ DOMAIN c.rasters \subseteq Sources /\ c.sources \in Seq(Logicals)
       /\ \A j, k \in DOMAIN c.sources : c.sources[j].id = c.sources[k].id => j = k
       /\ \A tile \in c.tiles :
            /\ c.active[tile] \in Seq(DOMAIN c.sources)
            /\ \A m, n \in DOMAIN c.active[tile] : m < n => c.active[tile][m] < c.active[tile][n]

VARIABLES
  scene,       \* the configuration, the rasters and the tiles to be built
  opened,      \* whether a source is open
  concurrent,  \* whether it is sampled without its lock
  batch,       \* the tile that it is sampled for
  answers,     \* what it answered for every tile
  grids,       \* the samples of a tile, source by source
  terrain      \* the fused samples of a tile, or None when it failed

tileVars == <<scene, opened, concurrent, batch, answers, grids, terrain>>
vars == <<cacheVars, tileVars>>

Users == DOMAIN scene.rasters

-----------------------------------------------------------------------------
(* The grid of a tile. Tiles lie in a row, one cell of the lattice apart for  *)
(* every sample of an edge but one.                                           *)

\* The sources whose footprint meets the tile or a neighbor across an edge, so a
\* source that lies at a corner of the tile only is left out, although the halo
\* reaches there. A scene says which ones these are.
Active(tile) == scene.active[tile]

Effective(tile) == {scene.sources[k].effective : k \in Range(Active(tile))}

\* Mistake: as much as the filter needs.
Halo_FilterOnly(tile) == 2 * PassCount(Max(Effective(tile)), Min(Effective(tile)))

\* The samples around a tile: those of a transition, the apron, and what the
\* filter needs when it is reckoned from effective resolutions. Fusion reckons it
\* from nominal ones, and may filter more than that.
Halo(tile) == TransitionWidth + 1 + 2 * PassCount(Max(Effective(tile)), Min(Effective(tile)))

Side(tile) == Core + 2 * Halo(tile)

GridOf(tile) ==
  LET side == Side(tile)
      halo == Halo(tile)
  IN  [k \in 1 .. side * side |->
         [x |-> scene.x + scene.step * (tile * (Core - 1) + ((k - 1) % side) - halo),
          y |-> scene.y + scene.step * (((k - 1) \div side) - halo)]]

\* The tile and its apron.
Visible(tile) == LET shown == Halo(tile) - 1 .. Halo(tile) + Core IN shown \X shown

-----------------------------------------------------------------------------
(* The physical sources *)

ChunkOf(i, count) == 1 + (i * Chunks) \div count

\* How the rasters of a source are read. A sample of a block that was not decoded
\* is anything; we take no data.
ViewsOf(s) ==
  LET image == scene.rasters[s]
      count == image.width * image.height
  IN  [k \in 0 .. image.companions |->
        IF memory[s][k + 1] = {} THEN FromFile
        ELSE FromMemory([i \in 0 .. count - 1 |->
               IF ChunkOf(i, count) \in memory[s][k + 1] THEN image.pixels[k][i] ELSE Void])]

\* A mosaic asks only the components that cover something.
Asked(s, tile) == Covered(scene.rasters[s], GridOf(tile)) # {}

\* Whether the window is read at once.
InBulk(s, tile) == ~concurrent[s] /\ Pixels(Window(scene.rasters[s], GridOf(tile))) <= MaxBulk

Bulk(s, tile) == BulkBatch(scene.rasters[s], GridOf(tile))

Single(s) == SingleBatch(scene.rasters[s], GridOf(batch[s]), ViewsOf(s))

\* The elevations are sampled before the companions are looked at.
ElevationsFail(s) ==
  SingleBatch([scene.rasters[s] EXCEPT !.quality = "none", !.companions = 0], GridOf(batch[s]),
              ViewsOf(s)) = Hard

\* The logical source that a tile is sampled from next.
NextSource(tile) ==
  LET done == Len(grids[tile])
  IN  IF done < Len(Active(tile)) THEN Active(tile)[done + 1] ELSE 0

\* A worker asks one logical source after the other. A single worker builds one
\* tile after the other. Sources of no logical one are another process'.
Due(s, tile) ==
  /\ \A k \in DOMAIN scene.sources :
       s \in Range(scene.sources[k].components) => k = NextSource(tile)
  /\ scene.workers = 1 => \A earlier \in 0 .. tile - 1 : terrain[earlier] # Pending

CanBeAsked(s, tile) ==
  /\ opened[s] /\ pc[s] = "idle" /\ Due(s, tile)
  /\ answers[s][tile] = Pending /\ Asked(s, tile)

Cacheable(s) == rooted /\ scene.rasters[s].override

\* Mistake: the lock is given up before the samples are there.
OpenSource_Early(s) ==
  /\ ~opened[s] /\ pc[s] = "idle" /\ outcome[s] = "none"
  /\ opened' = [opened EXCEPT ![s] = TRUE]
  /\ concurrent' = [concurrent EXCEPT ![s] = Cacheable(s)]
  /\ UNCHANGED <<cacheVars, scene, batch, answers, grids, terrain>>

\* A source with metadata of its own and files for all its rasters decodes them
\* when it is opened, and is sampled without its lock from then on.
OpenSource(s) ==
  /\ ~opened[s] /\ pc[s] = "idle" /\ outcome[s] = "none"
  /\ IF Cacheable(s)
     THEN Begin(s) /\ UNCHANGED opened
     ELSE opened' = [opened EXCEPT ![s] = TRUE] /\ UNCHANGED cacheVars
  /\ UNCHANGED <<scene, concurrent, batch, answers, grids, terrain>>

SampleInBulk(s, tile) ==
  /\ CanBeAsked(s, tile) /\ InBulk(s, tile)
  /\ \E answer \in {Bulk(s, tile)} \cup (IF scene.errors THEN {Hard} ELSE {}) :
       answers' = [answers EXCEPT ![s][tile] = answer]
  /\ UNCHANGED <<cacheVars, scene, opened, concurrent, batch, grids, terrain>>

SampleSingly(s, tile) ==
  /\ CanBeAsked(s, tile) /\ ~InBulk(s, tile)
  /\ Begin(s)
  /\ batch' = [batch EXCEPT ![s] = tile]
  /\ UNCHANGED <<scene, opened, concurrent, answers, grids, terrain>>

\* Where the elevations of a batch are there.
AtElevations(s) == opened[s] /\ pc[s] = "next" /\ raster[s] = 2

\* What comes of it when decoding ends.
Ended(s) ==
  IF opened[s]
  THEN /\ answers' = [answers EXCEPT ![s][batch[s]] = IF outcome'[s] = "ready" THEN Single(s) ELSE Hard]
       /\ UNCHANGED <<opened, concurrent>>
  ELSE /\ opened' = [opened EXCEPT ![s] = outcome'[s] = "ready"]
       /\ concurrent' = [concurrent EXCEPT ![s] = outcome'[s] = "ready"]
       /\ UNCHANGED answers

FillStep(s) ==
  /\ IF AtElevations(s) /\ ElevationsFail(s)
     THEN /\ End(s, "failed")
          /\ UNCHANGED <<rooted, files, raster, stream, at, memory, attempted, disturbed, stops>>
     ELSE Progress(s) \/ (scene.errors /\ Interrupt(s))
  /\ IF pc'[s] = "idle" THEN Ended(s) ELSE UNCHANGED <<opened, concurrent, answers>>
  /\ UNCHANGED <<scene, batch, grids, terrain>>

-----------------------------------------------------------------------------
(* The tile *)

\* What a logical source answers, when the components that are asked have.
SamplesOf(k, tile) ==
  LET components == scene.sources[k].components
      grid       == GridOf(tile)
      answer(s)  == IF answers[s][tile] = Pending THEN [i \in DOMAIN grid |-> None] ELSE answers[s][tile]
  IN  IF \E j \in DOMAIN components : answers[components[j]][tile] = Hard THEN Hard
      ELSE Merged(grid, [j \in DOMAIN components |-> answer(components[j])])

FlagsOf(sample) ==
  sample.quality \cup (IF sample.interpolated THEN {"interpolated"} ELSE {})
                 \cup (IF sample.filled THEN {"filled_no_data"} ELSE {})

\* The grid of a source, made from its samples.
GridSource(k, tile, samples) ==
  LET side      == Side(tile)
      number(p) == p[2] * side + p[1] + 1
  IN  [id |-> scene.sources[k].id, priority |-> scene.sources[k].priority,
       policy |-> scene.sources[k].policy, resolution |-> scene.sources[k].resolution,
       flags |-> [p \in {q \in Points(side) : samples[number(q)] # None} |->
                    FlagsOf(samples[number(p)])]]

Answered(k, tile) ==
  \A s \in Range(scene.sources[k].components) :
    opened[s] /\ (answers[s][tile] = Pending => ~Asked(s, tile))

\* One source after the other.
CollectSource(tile) ==
  LET k == NextSource(tile)
  IN  /\ scene.fuses /\ terrain[tile] = Pending
      /\ k # 0 /\ Answered(k, tile)
      /\ IF SamplesOf(k, tile) = Hard
         THEN terrain' = [terrain EXCEPT ![tile] = None] /\ UNCHANGED grids
         ELSE /\ grids' = [grids EXCEPT ![tile] = Append(@, GridSource(k, tile, SamplesOf(k, tile)))]
              /\ UNCHANGED terrain
      /\ UNCHANGED <<cacheVars, scene, opened, concurrent, batch, answers>>

FuseTile(tile) ==
  /\ terrain[tile] = Pending /\ Len(grids[tile]) = Len(Active(tile))
  /\ LET fused == Fuse(grids[tile], Side(tile))
     IN  terrain' = [terrain EXCEPT ![tile] = IF fused = <<>> THEN None ELSE fused]
  /\ UNCHANGED <<cacheVars, scene, opened, concurrent, batch, answers, grids>>

-----------------------------------------------------------------------------

Forget(gone) ==
  /\ opened' = [s \in Sources |-> opened[s] /\ s \notin gone]
  /\ concurrent' = [s \in Sources |-> concurrent[s] /\ s \notin gone]
  /\ answers' = [s \in Sources |->
       IF s \in gone THEN [tile \in scene.tiles |-> Pending] ELSE answers[s]]
  /\ UNCHANGED <<scene, batch, grids, terrain>>

\* Bound: stops are not combined with fusing.
StopBuild ==
  /\ scene.stops
  /\ \/ MachineStop /\ Forget(Sources)
     \/ \E s \in Users :
          Kill(ProcessOf[s]) /\ Forget({t \in Sources : ProcessOf[t] = ProcessOf[s]})

Init ==
  /\ scene \in Scenes
  /\ CacheInit /\ rooted \in scene.rooted
  /\ opened = [s \in Sources |-> FALSE]
  /\ concurrent = [s \in Sources |-> FALSE]
  /\ batch = [s \in Sources |-> 0]
  /\ answers = [s \in Sources |-> [tile \in scene.tiles |-> Pending]]
  /\ grids = [tile \in scene.tiles |-> <<>>]
  /\ terrain = [tile \in scene.tiles |-> Pending]

Next ==
  \/ \E s \in Users :
       \/ OpenSource(s) \/ FillStep(s)
       \/ \E tile \in scene.tiles : SampleInBulk(s, tile) \/ SampleSingly(s, tile)
  \/ \E tile \in scene.tiles : CollectSource(tile) \/ FuseTile(tile)
  \/ StopBuild

Spec == Init /\ [][Next]_vars

-----------------------------------------------------------------------------
(* Properties *)

\* What a source answers to a coordinate by itself.
Alone(s, c) == TrySample(scene.rasters[s], c)

\* What the components of a logical source answer one after the other.
InOrder(k, c) ==
  FirstSample([j \in DOMAIN scene.sources[k].components |-> Alone(scene.sources[k].components[j], c)])

\* It makes no difference to the samples of a tile whether a source reads a
\* window or single pixels, or has decoded some of its rasters, or could not; and
\* a mosaic gives what its components give one after the other, in their order,
\* however many workers ask them. An error is never taken for a missing sample.
PathsAgree ==
  [][/\ \A s \in Users : \A tile \in scene.tiles :
          answers'[s][tile] \notin {answers[s][tile], Pending} =>
            LET grid  == GridOf(tile)
                alone == Batched([i \in DOMAIN grid |-> Alone(s, grid[i])])
            IN  answers'[s][tile] = alone \/ (scene.errors /\ answers'[s][tile] = Hard)
     /\ \A tile \in scene.tiles :
          grids'[tile] # grids[tile] =>
            LET n    == Len(grids'[tile])
                k    == Active(tile)[n]
                grid == GridOf(tile)
            IN  grids'[tile][n] = GridSource(k, tile, [i \in DOMAIN grid |-> InOrder(k, grid[i])])]_vars

\* A source that is sampled without its lock has decoded everything, so that no
\* worker writes what another one reads.
UnlockedNeverFills ==
  \A s \in Users : concurrent[s] =>
    /\ pc[s] \in {"idle", "next"} /\ attempted[s] = Rasters(s)
    /\ \A r \in Rasters(s) : memory[s][r] = Blocks

FusedTiles == {tile \in scene.tiles : terrain[tile] \notin {Pending, None}}

Adjacent(p, q) == \E axis \in 1 .. 2 : p[axis] + 1 = q[axis] /\ p[3 - axis] = q[3 - axis]

\* Every sample is wholly accounted for, by sources that have a sample there.
Complete(fused, sources) ==
  /\ \A p \in DOMAIN fused.points : SumFunction(fused.points[p].shares) = fused.whole
  /\ \A source \in sources : \A p \in DOMAIN fused.points :
       fused.points[p].shares[source.id] > 0 => p \in DOMAIN source.flags

\* From one visible sample to the next, the share of a source changes no faster
\* than a transition does, if a source below it has samples in both places.
Gradual(fused, id, below, visible) ==
  \A p, q \in visible :
    Adjacent(p, q) /\ {p, q} \subseteq below =>
      LET change == fused.points[p].shares[id] - fused.points[q].shares[id]
      IN  2 * TransitionWidth * change \in -3 * fused.whole .. 3 * fused.whole

\* The shares of a tile are complete, and those of the source that is fused last
\* are gradual: where it begins and ends, it leaves no step in the terrain.
FusedSmoothly ==
  \A tile \in FusedTiles :
    LET sources == Range(grids[tile])
        last    == Last(Ordered(grids[tile]))
    IN  /\ Complete(terrain[tile], sources)
        /\ Gradual(terrain[tile], last.id, UNION {DOMAIN source.flags : source \in sources \ {last}},
                   Visible(tile))

\* A sample of the lattice, counted from the first one of tile 0, on the grid of a
\* tile.
OnGrid(tile, p) == <<p[1] - tile * (Core - 1) + Halo(tile), p[2] + Halo(tile)>>

\* The samples that tiles 0 and 1 both show: those of their edge and of their aprons.
ShownTwice ==
  {p \in (0 .. 2 * Core) \X (-1 .. Core) : \A tile \in {0, 1} : OnGrid(tile, p) \in Visible(tile)}

\* A source that is filtered on both grids is filtered as often on each, and never
\* further than from the border of a halo to the tile's apron.
FiltersFit ==
  \A id \in Identifiers(grids[0]) \cap Identifiers(grids[1]) :
    /\ terrain[0].passes[id] = terrain[1].passes[id]
    /\ \A tile \in {0, 1} : 2 * terrain[tile].passes[id] < Halo(tile)

\* A source with a sample there was left out of the other tile.
LeftOut(p) ==
  \E tile \in {0, 1} : \E source \in Range(grids[tile]) :
    source.id \notin Identifiers(grids[1 - tile]) /\ OnGrid(tile, p) \in DOMAIN source.flags

\* The share of a source, or none where it is not fused.
ShareOf(point, id) == IF id \in DOMAIN point.shares THEN point.shares[id] ELSE 0

\* Two tiles that lie beside each other fuse the samples that both show out of the
\* same shares and flags, although each one has sources and a halo of its own. This
\* takes two conditions that the code does not see to. The filters must fit: how
\* often a source is filtered depends on which ones contributed anywhere on the grid
\* of a tile (current_resolution), and on nominal resolutions, where the halo follows
\* effective ones. And a source at the corner of one tile may be left out of it but
\* not of the other one, and then they differ where it has samples.
SeamsFuseAlike ==
  {0, 1} \subseteq FusedTiles /\ FiltersFit =>
    \A p \in ShownTwice : LeftOut(p) \/
      LET here  == terrain[0].points[OnGrid(0, p)]
          there == terrain[1].points[OnGrid(1, p)]
      IN  /\ here.flags = there.flags
          /\ \A id \in Identifiers(grids[0]) \cup Identifiers(grids[1]) :
               ShareOf(here, id) * terrain[1].whole = ShareOf(there, id) * terrain[0].whole
=============================================================================
