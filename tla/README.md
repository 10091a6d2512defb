# Verification of the lunar terrain builder

This directory is the formal side of the repository: TLA+ modules translated from its
source, TLC configurations that check them on small instances, and proofs, checked by
TLAPS, that hold for every instance. Paths below are relative to the repository and start
with `src/`; so `src/src/builder` is the directory `src/builder` of the repository.

- [The system](#the-system): its parts, their state, what is hard, what makes them correct
- [Modules](#modules): which module models what, and how they are composed
- [Runs](#runs): what TLC checks, the bounds, the fairness
- [Proofs](#proofs): what TLAPS shows, from what, and along which argument
- [Findings](#findings): where the code and its documents disagree
- [What is left out](#what-is-left-out) and [what comes next](#plan)

To check: `tlc -config MCX.cfg MCX` for a run, `tlapm XProofs.tla` for the proofs.
`PROJECT.json` lists components, runs, the source lines of every definition (`map`), the
hazards, the theorems, and for each property a *mutant*: a definition `<name>_<mistake>`,
beside the one it replaces, with a mistake that violates the property under the same
configuration.

## The system

The builder turns raster elevation products of the Moon into a terrain database: one
`.ltdb` file with an index of quadtree tiles, and packs that hold the encoded tiles. One
build of a raster source runs in one process:

1. the command line parses a configuration, whose semantic hash enters the *dependency*
   hash of every tile;
2. the hierarchy plan decides which tiles of the six cube faces are materialized;
3. the tile pipeline computes every tile, level by level, on a pool of threads: it samples
   the raster sources on the grid of the tile and fuses the samples; it keeps its progress in `.ltbuild/cache.sqlite` and `.ltbuild/staging`, so that the next build
   can go on where this one was interrupted;
4. packing groups the encoded tiles, and publication writes packs and database beside the
   published ones and moves them over;
5. telemetry reports progress to a sink that keeps an event log and a progress file; a stop
   token carries the user's cancellation to every loop.

Around it, `run_observed.py` supervises a command as a child process, records its status
and lets the user cancel it; `provision.py` fetches the sources.

### Parts

| part | state | operations | what is hard | what makes it correct |
|---|---|---|---|---|
| Bounded task executor (`builder/task_executor.cpp`) | atomic counter, abort flag, one slot per result, stop token | `run_bounded_tasks`: the worker loop, the join, the choice of the answer | workers interleave with failures, an abort and a cancellation at any moment | every task at most once; the failure reported is the first of the input; success means that all ran; the call returns |
| Tile pipeline (`build_raster_tiles_streaming` in `builder/container_writer.cpp`) | rows of `tiles`, raw cores, auxiliary, quantized and encoded files, stages of each tile | start, reuse, prepare, encode, release a level; fail, cancel | death of the process between any two steps; a directory shared by builds of several configurations; reuse of what an earlier build left | completed rows can be reused; an incremental build gives what a clean one gives; an interrupted build can be resumed; checkpoints are not lost |
| Seams (`builder/tile_staging.cpp`, same pipeline) | samples of a level, some raw, some already quantized | `resolve_elevation_boundaries`, the two rings, aprons | each tile sees only two rings, at different times; three tiles meet at the corners of the cube, edges are reversed | streaming gives what resolving the whole level gives; tiles agree on seams and aprons |
| Build cache (`builder/build_cache.cpp`) | SQLite rows | reuse, mark, complete, pack | stale rows | see the pipeline |
| Packing (`builder/packing.cpp`, `build_packs`) | ranges, packs, index | `plan_canonical_pack_ranges`, layout of packs and index | the size of a pack is computed twice; offsets are checked by another program | the reader accepts every layout; packs are full and not too large |
| Publication (`publish_outputs`, `publish_build`) | staged and published files | stage, verify, rename, replace, record, clean up | death, I/O failure and cancellation between any two file operations; packs of the same name | readers always find a complete database; published packs never change |
| Database file and tile payloads (`make_database_file`, `encode_tile`; `core/database.cpp`) | chunks, directory, records; channels of a payload | summarize the fused sources, encode a tile, make the file; open it, decode a tile | writer and reader are two programs that share a layout; texts, metadata and offsets refer to each other; values are rounded on both sides | the reader opens every file and decodes every tile to what it was made from |
| Hierarchy planning (`builder/hierarchy.cpp`) | stack, set of tiles, masks | `plan_sparse_hierarchy`, `materialized_child_masks`, `geometric_error_bilinear_u16_v1` | several sources with different levels; sampled bounds that miss a parent; three numberings of quadrants | no orphans, the plan is exactly what is needed, masks agree with children |
| QSC topology (`core/qsc_topology.cpp`, `core/tile_key.cpp`) | none | neighbors, owners, corners, order of keys | faces meet with reversed edges; corners of the cube | reciprocity, closed corners, one owner |
| Telemetry and command line (`builder/telemetry.cpp`, `cli/main.cpp`) | sequence, log, progress file, threads | `Start`, `SetPhase`, `Checkpoint`, heartbeat, `Finish`, signals | three threads, two mutexes, a sink that fails half-way, a crash | the log is readable, ends with the terminal event, and agrees with the exit status |
| Observed runs (`tools/run_observed.py`) | status file, request file, child | start, run, cancel, follow | signals and requests between polls, failing writes, interrupts at any instruction | the status is true and final, no child is left behind |
| Raster sources (`builder/raster_source.cpp`) | samples in memory, a directory of decoded rasters, one lock for each source | `Open`, `TrySample`, `SampleBatch`, of one raster and of a mosaic | four ways to read one pixel; workers with and without the lock; the directory is shared by processes, and so are the temporary names in it; a stop leaves torn files | the samples do not depend on the way they were read; a torn file is never taken for a raster; nothing is written under a reader |
| Fusion (`builder/fusion.cpp`, `build_raster_tile_work`) | grids of one tile | `fuse_source_grids`: order, transitions, filter passes, shares, flags | a tile sees a part of the sources and a halo of its own; distances and filters reach further than the tile | shares are complete and leave no step; neighbors fuse what they share alike, where filters fit their halos |
| Compression and digests, projection, configuration, diagnostics, provisioning, qualification | files | encoding, hashing, parsing, downloading | resumption of a download | not modelled, see [below](#what-is-left-out) |

### How they interact

The command line calls the builder and hands it a stop token, which a monitor thread sets
after a signal, and a telemetry collector, whose sink is the command line's own. The
builder calls the hierarchy plan, then the pipeline, which starts one call of the executor
for all preparations of a level and one for all its encodings. The tasks of a level share
only rows and files: an encoding reads the cores and codes that its neighbors' and its
parent's tasks wrote. A preparation asks one source after the other; a mosaic asks its components
with a call of the executor of its own, inside a task of the first. All tasks share the sources,
which protect their samples with a lock unless they decoded everything when they were opened. The pipeline's result goes to packing, then to publication, which
also writes the rows' pack numbers. A failed report, a failed task and a cancellation all
end a build through the same early returns. Readers of a published directory see only
publication. `run_observed.py` sees of a command only its exit code and its files.

## Modules

| module | models | composed with |
|---|---|---|
| `TaskBatch` | what a caller of the executor may rely on: some tasks run, the answer is success, the first failure or cancelled | |
| `TaskExecutor` | `run_bounded_tasks` with every step of its workers | implements `TaskBatch` |
| `TileBuild` | the streaming pipeline over rows and staging files | its parallel steps are what `TaskExecutor` schedules; its last phase stands for `Publication` |
| `TileBuildPowerLoss` | the same when the machine may stop, not only the process | extends `TileBuild` |
| `SeamResolution` | the seams, owners and aprons of one level, finalized tile by tile from two rings | `MCSeamResolution` puts it on the faces of `QscTopology`; `TileBuild` reduces it to one sample per edge |
| `TileKeys` | what the next three share: faces, cells of a tile, tiles along an axis of each level | |
| `QscTopology` | edges, neighbors, corners, owners, order of keys, the walk of a point beyond an edge | extends `TileKeys` |
| `TopologyWalk` | a walk from tile to neighbor and around corners, on which the topology is checked | extends `QscTopology` |
| `Hierarchy` | planning, masks, the keys of children, sampling of ancestors | extends `TileKeys` |
| `Packing` | planner of ranges, writer of packs and index, the reader's checks of places | |
| `TileFormat` | operators only: summary of the fused sources, `encode_tile`, `decode_tile` | |
| `DatabaseFile` | `make_database_file` with its chunks, `parse_database` | extends `Packing`, whose packs it registers, and `TileFormat`, whose payloads they hold |
| `AtomicDatabase` | what a reader of the output directory may rely on: one variable, replaced as a whole | |
| `Publication` | the file operations of a build's end | implements `AtomicDatabase` |
| `DecodedCache` | decoded rasters in memory and in a directory, written and loaded by several sources and processes | |
| `RasterSampling` | operators only: what a raster answers at a coordinate, and to a batch, from its file, a window or memory | |
| `Fusion` | operators only: `fuse_source_grids` but for the elevations | |
| `RasterTile` | opening of sources, sampling by workers, mosaics, the grid of a tile, its fusion | extends `DecodedCache`, which says what is in memory, `RasterSampling` and `Fusion` |
| `ObservedCommand` | main, reporter and monitor thread of one command, its log and progress file | |
| `ObservedRun` | supervisor, child and canceling user of one attempt | |

`MCX` gives the constants of `X` their values for TLC, `XProofs` holds its theorems; `TileProofs` holds those of
`Hierarchy`, `TopologyWalk` and `SeamResolution`, `RasterTileProofs` those of `DecodedCache` too.

### State and actions against the code

- **TaskExecutor.** `nextTask` is the atomic `next_task`, `failureStop` the stop source of the call, `failures`
  the vector of results; `pc[w]` says where in its loop a worker stands. The test of the stop token, the
  claim of an index (one `fetch_add`), the run of the task and the record of its result are
  actions of their own, because another thread can act between any two of them. The caller's
  join and its two loops over the results follow. Tasks are black boxes that succeed or fail;
  which ones fail is chosen at the start, and any set may.
- **TileBuild.** One action per durable effect: a row written, a file renamed, a file removed.
  A tile's task goes `waiting → marked → staged → prepared` in the preparation of its level,
  `→ quantized → written → complete` in its encoding and `→ coreless → released` at the end of
  the level, or it is `reused` at once. A completed row whose staged file cannot be read when it should be
  reused (`ReadFails`) is taken back and its tile built again, since the code drops that error. `Crash` empties memory, keeps rows and files, and may
  come in any phase; so may an I/O failure and a cancellation, which the code polls at the
  places where the actions test `cancelRequested`. A file's content is what was computed for
  it: elevations are numbers in quarters of the 0.5 m code step, `Quantize` rounds half to
  even as `quantize_elevation` does, and a code read back (`Dequantize`) is not the elevation
  it came from, which is what makes resumption from codes a question at all.
- **SeamResolution.** A tile is a grid of `Cells + 1` by `Cells + 1` samples, and a height is named by the
  tile and the sample it was taken at, so two heights are equal only if the code copied one.
  The edges each side owns (`Owned`), the union of corners with its roots (`CornerRoots`), the
  owner of each class, the patches, their application and the aprons are computed as
  `resolve_elevation_boundaries` and `finalize_elevation_tiles` compute them: once for the
  whole level, and once from the two rings around one tile, where tiles released earlier are
  read as they were finalized. `ValidateSeams` is `validate_seams`, which the builder's
  validation makes of a finished database; a property asks that it accept at any time.
- **QscTopology.** `Across` is the table of face connections, `Transition` the function of that
  name, `Neighbor` `qsc_tile_neighbor`; keys are ordered as `TileKey` orders them. `Crossed` tells which edge a point beyond a
  face crosses; beyond two it is the vertical one first, as in the chain of conditions at
  `src/src/builder/tile_staging.cpp:449`. `Level` is the level of the tiles, `Side` what `TilesPerAxis` gives for it.
- **DecodedCache.** A file is an inode that names lead to and streams hold on to, so that two writers of one
  temporary name meet as they do on disk: the second one empties what the first one writes, and the
  rename takes whatever the name leads to. A raster is its header and blocks of samples; `right` tells which
  blocks are what decoding gives. `OpenCache`, `ReadHeader`, `ReadChunk` and `FinishLoad` are `load_decoded_cache`
  with its checks of size, header and hash; `CreateTemporary` to `Publish` are `persist_decoded_cache`, and
  `Discard` is the removal on its way out. `Kill` ends a process and keeps the files, `MachineStop` may leave
  of a published file, none of which is synchronized, any of its blocks.
- **RasterSampling.** `SampleAt` is `TrySample` with its four pixels, weights, replacement of missing ones and
  the quality of the companions; `Window` and `BulkBatch` are the branch of `SampleBatch` that reads a window at
  once, `SingleBatch` the one that samples pixel by pixel. They are kept apart as the code keeps them, because that
  they agree is the question. Longitudes turn, footprints have both borders, and a pixel may be missing,
  too large or fail.
- **Fusion.** `Ordered` is the sorting, `BoundaryDistance` the two passes over the grid, `LowPass` the binomial
  filter with its half weight, `Fuse` the loop over the sources with the share and the flags of each policy. Weights are
  exact in `1 / Unit`, where `Unit` is the common denominator of the smooth step for the width of the transition; a share
  is a natural over `whole`, which is `Unit` to the number of sources. `resolution` is the current resolution, which a source
  lowers when it contributes anywhere on the grid. `passes` notes how often each source was filtered; a refinement that
  would take too many is refused.
- **RasterTile.** One action for every call that can interleave with another: `OpenSource`, a step of decoding
  (`FillStep`, a step of `DecodedCache`), `SampleInBulk`, `SampleSingly`, `CollectSource` when a logical source has all
  its answers, `FuseTile`. `concurrent[s]` is the source that answers without its lock; the others take one
  batch at a time. A scene is a configuration with its rasters, and with the sources that `active_sources_for_tile`
  finds for each tile (`Active`). The halo of a tile follows from the effective resolutions of these (`Effective`, `Halo`), the passes
  of the filter inside it from nominal ones, as in the code.
- **Hierarchy.** `Visit` is one turn of the loop over the stack of nodes; sources are sets of
  tiles that they cover and the level at which they are sampled. `Masks` is
  `materialized_child_masks`, `ValidateHierarchy` what the validation of a finished database makes of both.
- **Packing.** The planner's loop, the writer's loop over ranges and tiles, and the index, step
  by step with their offsets; the checks of `core/database.cpp` form `ReaderAccepts`.
- **TileFormat.** No state: `Summarize` is `summarize_fused_core`, `EncodeTile` gives the payload and
  the tile's part of the index, `DecodesTile` are the checks of `decode_tile` on both. A float is a
  multiple of `1 / Scale` (`Scale` is 2 to the `ScaleDigits`) whose fraction takes `Precision` values, 2^24 in the code,
  and `Nearest` rounds to it, half to even; the
  elevation channel goes through `Delta2D` and `ReverseDelta2D` modulo `Codes`. A hash is what it is
  taken of, so it distinguishes exactly what the code hashes.
- **DatabaseFile.** The tiles are encoded in the initial state, as the pipeline has done before anything is
  packed; `Packing` runs; `WriteDatabase` builds the string table, the chunks, the directory and the
  header in one action, because `make_database_file` is one function that touches nothing else, and
  `CancelDatabase` is the poll before it. Texts are naturals, in the order of the texts and with a
  length; sets are sorted by the rank of a member (`Ascending`), and a text starts behind the lengths of those
  before it (`StringOffsets`); a chunk is found in the body by its offset, so a wrong offset finds no chunk.
- **Publication.** Temporary and final files are variables; an action per write, rename,
  verification and removal; `Cleanup` is the removal of temporaries on the way out. The name
  of a pack has the database's identifier and its number, so two versions of one database
  meet under the same names.
- **ObservedCommand.** `step[t]` follows one `Emit` through the emission mutex, the state mutex,
  the append to the log, its synchronization and the replacement of the progress file.
  `SinkFails` may strike at each of the sink's steps. The monitor thread turns the signal into
  a stop request. The operation is a black box that enters phases, polls the token and returns.
- **ObservedRun.** One action per write of `status.json`, read of the request, delivery of a
  signal and poll of the child, with the handlers of `BaseException` and `KeyboardInterrupt`. `Spawn` and `Assign` are
  the start of the child within `Popen` and the assignment of what it returns: an interrupt between them meets handlers that
  know of no child. The exit code enters the supervisor's status in `Conclude`, before `Finish` writes it, so a failure of that
  write leaves it there for `RecordFailure`. A kill may be refused (`KillFails`), which the code drops, and so may the signal of an interrupted
  supervisor (`InterruptFails`), which ends it without a status. The canceling user reads the status in one step and writes the request in another.

## Runs

Nine runs pass; three show a [finding](#findings). `CHECK_DEADLOCK FALSE` stands where the
system stops by design: a call returned, a process exited, all attempts used, a walk with a
last step bounded by `MaxDone`. DatabaseFile and Hierarchy check deadlock, with an explicit
`Ended` step.

| run | checks | bounds |
|---|---|---|
| `task_executor` | no index is claimed twice (`NoTaskRunsTwice`); the executor implements `TaskBatch` (`ImplementsBatch`), which says that the failure reported is the first of those recorded and that success means that all ran; `CallReturns` | up to 4 tasks, 3 workers, any parallelism including 0, every set of failing tasks, cancellation at any time |
| `publication` | the visible database has all its packs with its own bytes (`VisibleDatabaseComplete`); a published pack is never changed or removed; success leaves no temporary, not even an older build's, and a batch build that is cancelled or fails leaves none it wrote (`TemporariesRemoved`); readers see `AtomicDatabase`; `EveryBuildEnds` | two builds in a row among two versions of one database and another database; two packs each |
| `publication_cancel` | violation of `CancellationPreservesDatabase` | same |
| `tile_build` | a completed row has the files it names (`CompleteRowsResumable`); a successful build equals a clean one (`BuildsConverge`); no build stumbles over its own files (`InterruptedBuildResumes`); an incremental build takes back a completed tile only after it failed to read its staged file (`CheckpointPreserved`); every build ends | two neighbors at level 0 and a child of one of them, two configurations whose elevations hit exact half steps, three builds; 1 069 000 states |
| `tile_build_power_loss` | violation of `InterruptedBuildResumes` when the machine stops | two builds |
| `observed_command` | the log is numbered without gaps and torn only at its end; nothing follows the terminal event; exit 0 is backed by a synchronized `passed`; progress never runs ahead of the log or back; the command ends | up to four optional events, a fault in any sink call, a signal and a crash at any time |
| `observed_run` | a terminal status tells how the child ended, and an exit code beside it is the child's or the 130 of an interrupt (`TerminalStatusIsTrue`); no child is left behind a terminal status, unless the system refused to kill it or an interrupt came before `Popen` returned it (`NoChildLeftBehind`); the status never goes back (`StatusNeverGoesBack`); a plain cancellation ends the run (`CancelEnds`) | one attempt, two cancel commands, two keyboard interrupts, failing writes and refused signals, deaf and obedient children, `start` and `run`; 17 400 states |
| `observed_run_force` | violation of `ForceEnds`: a plain request is read and its signal delivered, the forced one that follows is never read | two cancel commands, no interrupt |
| `seam_resolution` | on an empty level, a walk over all tiles: reciprocal neighbors (`NeighborsReciprocal`); walking around a corner closes after three or four tiles, the two rules for owners agree, and an apron's corner lies in the tile across (`CornersMeet`). With tiles: two rings give what the whole level gives (`StreamingEqualsBatch`); the validator accepts the seams and the aprons of done tiles (`SeamsMeet`); no patch reads what another writes (`PatchesIndependent`) | 96 tiles, 4 along a face; 12 tiles on three faces around a cube corner, up to two of five near it missing, two tiles finalized in any order with a release anywhere; 3 900 states |
| `raster_tile` | samples in memory are whole and right, or none (`SamplesAreDecoded`); an undisturbed file loads (`UndisturbedCacheLoads`); a source without its lock has nothing left to decode (`UnlockedNeverFills`); samples are the same from a window, single pixels or memory, from one worker or several, and a mosaic answers as its components do in order (`PathsAgree`); shares add up, belong to sources with a sample there, and leave no step (`FusedSmoothly`); neighbors fuse what both show alike where their filters fit and no source was left out of one of them (`SeamsFuseAlike`) | four families of scenes, below; 67 000 states |
| `database_file` | the reader's checks of registry, index, bounds and payloads accept the packs (`ReaderAccepts`); a range exceeds the target only with one tile, and the next tile would not have fitted (`PacksFilled`); the reader opens every completed file, with the right path for each pack (`FileOpens`); every payload decodes to the codes it was made from and agrees with the index (`TilesDecode`) | up to 4 tiles with payloads that end on, before and behind a multiple of eight, 11 targets around the sizes of packs; one to three sources that share texts, 7 ways to blend them, with and without a quality flag; 3 by 3 samples, 16 codes, floats of 8 digits (`Precision` 256); 116 000 states |
| `hierarchy` | parents first, no orphans, masks agree with child keys: the validator accepts the plan (`PlanValid`); the plan is the sources' need in either order (`PlanExact`); an ancestor's samples enclose a descendant's position (`SamplesEnclosed`) | three levels, one or two sources with arbitrary covers, four cells per tile |

### Why the bounds are enough

- *Executor.* Any error of order needs two tasks that fail and one worker between them; three
  workers and four tasks add one that is idle and one that comes too late.
- *Publication.* The builds of one database share names; the third one does not. Two builds in
  a row suffice because what a build finds is only files: a temporary or final pack, absent, torn,
  its own or the other's, all of which one interrupted build leaves. Two packs give a first and
  a last.
- *Tile build.* A neighbor in the same phase, a parent in an earlier level and a reused tile are
  the only ways one tile depends on another. Three attempts let a second configuration overwrite
  a row and the first come back. Elevations are chosen so that rounding half to even goes both
  ways, and so that the two configurations never have equal codes.
- *Observed command and run.* Two events of each thread in flight need four events; a second
  cancellation or interrupt is the one that the code treats differently from the first.
- *Raster tile.* Two sources of one process that share a companion, and the same raster in two and three
  processes, are the ways in which a temporary name is shared; with three writers one can lose the name to
  a second while a third loads. One block behind the header tells a whole file from a torn one. Rasters of
  3 by 2 pixels have every set of missing pixels and one bad value in every place, so every tap of
  the four is missing, bad and the replacement once. Tiles have 2 by 2 samples, but a halo as the code
  computes it, of two samples of transition; holes are points, bands and corners in all places relative to the seam.
  Each condition of `SeamsFuseAlike` is met and broken. A nominal ratio of resolutions above the effective one takes the filter as far as
  the halo, and further; a third source counts on one grid only and changes how often the next is filtered; a source begins at the
  corner of a tile, or gives one tile a wider halo than its neighbor. Two sets of samples (`Cross`, `Chain`) are so thin that
  the filter loses some of them: without either part of `FiltersFit` the property fails on these.
  `MaxBulk` is such that some rasters are read at once and some are not. `MaxPasses` is not reached. The proof
  lifts `FusedSmoothly` to every scene, width of a transition and number of passes.
- *Topology.* With four tiles along a face there are tiles inside, at an edge and at a corner, and
  the Morton order has two digits; the proofs lift both properties to every level.
- *Seams.* The rule is local: two rings around a tile at a corner of the cube span all three
  faces, and taking away up to two tiles there splits the union of corners in every way. The proofs lift all three properties to every level and batch.
- *Database file.* Each offset depends on the chunk before it, each reference on one record, so two
  sources and two packs already give wrong references a wrong place to point to; three sources
  leave the last share a remainder of two roundings. A byte that has two values (`ByteValues`) makes a
  palette of three sources need two bytes, and floats of eight digits round up,
  down and at ties within reach of TLC; that these eight stand for 24 is an assumption, not a result. `Tolerance` is widened in proportion.
  The proof lifts `FileOpens` to every number of sources, texts and tiles.
- *Packing, hierarchy.* The loops compare a tile with the first of its range, a node with its
  parent; four tiles and three levels give first, middle and last. The proofs lift all five properties to any number of tiles and sources.

### Fairness

- `TaskExecutor`: weak fairness of the caller and of each worker; they are threads, and the code
  has no lock they could starve at. A task that is running ends: tasks have no way to wait for each other.
- `Publication`: weak fairness of `Progress`, one sequential thread. Starting, canceling, crashing
  and failing are never obliged.
- `TileBuild`: weak fairness of the building thread, and of *some* task of the level, which is all
  that a pool with fewer workers than tiles gives.
- `ObservedCommand`: weak fairness of main, of the reporter and of each `Emit`: mutexes are held
  over file operations only. Strong fairness of `OperationReturns`: an operation enters phases
  and polls the token while it could return, and does not do so for ever.
- `ObservedRun`: weak fairness of the supervisor's loop and handlers and of an obedient child.
  Strong fairness of `Deliver`: `os.killpg` may fail each time it is tried, and is tried again at
  every poll; the run that ends is one where it succeeds at last.
- The other modules state safety only: their loops are bounded by their data.

## Proofs

Eight modules hold theorems; `tlapm` checks each of them to the last leaf, with SMT, Zenon and,
for temporal steps, LS4. The theorems hold for every value of the constants that satisfies the
named assumption of the module; TLC evaluates these assumptions on every run. They say that
bounds are naturals, that `None` is no value, that files are not numbered zero and the rasters of a source from one on, and for `TileBuild` that neighborhood is symmetric
and within a level, that a parent is one level up and that contents differ from `None`. For `DatabaseFile` they say that every text has a
length, that identifiers of sources are unique (`src/src/builder/configuration.cpp:1276` refuses equal keys), that paths and metadata have at least a byte, and that some source contributes to every tile
(`src/src/builder/fusion.cpp:357` refuses others), but fewer than two bytes can number (`src/src/builder/container_writer.cpp:688`); that a tile has a code for each of its
samples, and that its error is the difference of an elevation from the bilinear one of its parent, which comes in quarters of a code of half a metre
(`src/src/builder/hierarchy.cpp:437`); `PlanClosed` is why the nearest ancestor is the parent. `TileFormat` assumes of floats what 24 digits give: that they tell the sizes of two
bytes apart, that half the step between floats at one is within the tolerance of the shares, and that a difference of elevations is a float. For `RasterTile` they say that a tile has two samples along an edge at least, and that the sources
of a scene have identifiers of their own (`src/src/builder/configuration.cpp:1326`) and integers for priorities, and that those of a tile are listed once. The topology has any level, with
as many tiles along a face as the level has, and a tile any number of cells, two at least for the seams.

| module | shown for every instance | inductive invariant |
|---|---|---|
| `TaskExecutorProofs` | `FirstFailureReported` (no earlier task failed unseen), `NoTaskRunsTwice`, success means that all ran, workers end before the call returns, and `ImplementsBatch` | What is not handed out has not started; an index below the counter is recorded, done or held by one worker; a record exists only for what was claimed; a worker that left saw the end, a failure or a stop; an answer follows from the records |
| `PublicationProofs` | `VisibleDatabaseComplete`, `PublishedPacksImmutable`, `ImplementsAtomicDatabase`, `TemporariesRemoved`, no torn file under a final name | A pack is under its final name whole; the visible database has its packs; in each phase, the packs verified so far are either in place or ready under their temporary name. For the temporaries (`Tidy`): what was renamed is gone from under its temporary name, and whatever a batch build wrote is on the list that its way out removes |
| `TileBuildProofs` | `CompleteRowsResumable`, `BuildsConverge`, `InterruptedBuildResumes`, `SuccessReleasesStaging`, `CheckpointPreserved` | Every file that exists holds what a clean build would write; the stage of a tile tells which of its files exist; levels below the current one are complete |
| `DatabaseFileProofs` | `ReaderAccepts` and `PacksFilled`, for any sorted tiles and any target, while packing and behind it; `FileOpens`, for any sources, texts, metadata and contents; `TilesDecode`, for any size of a tile, any elevations, weights, flags and sizes of channels | Ranges cover a prefix without a gap, one group each; offsets grow in multiples of eight and match the index. For `PacksFilled`, the size the planner has counted for its open range is what the writer's layout of these tiles takes, whose last offset is a sum by recursion over the range; a finished range was closed because of its next tile. For `FileOpens`, the file is the one that is made of what the build was given and of packs that are done, which never change again; see below. `TilesDecode` rests on the same |
| `TileProofs` | `PlanValid` and its parts `PlanClosed` and `MasksExact`, `PlanExact`, `SamplesEnclosed`, for any sources, footprints and depth; `NeighborsReciprocal` and `CornersMeet`, at every level and for any number of cells; `PatchesIndependent`, `StreamingEqualsBatch` and `SeamsMeet`, for any set of tiles of any level and any order and attempts; the lemma for `Neighbor` itself | see below |
| `RasterTileProofs` | `SamplesAreDecoded`, `UndisturbedCacheLoads`, `UnlockedNeverFills`, for any sources, processes, files, blocks and scenes; `FusedSmoothly`, for any sources with any holes, priorities, policies and resolutions, and any width of a transition | No temporary name leads to a published file or to that of another name, two writers never have one temporary name, and a stream reads or writes a file that is right up to where it is, all as long as nothing was disturbed; samples are kept whole or not at all; a source that is not open has decoded every raster before the one it is at. For `FusedSmoothly`, the grids of a tile are those of its first sources, on the points of the grid, and terrain is what they give and stays that; see below |
| `ObservedCommandProofs` | `LogReadable`, `TerminalEventLast`, `ExitStatusIsBacked`, `ProgressFollowsLog` | Who holds the emission mutex; what of the current event is in the log; a torn last record implies the sticky error; the reporter has ended when the terminal event is wanted |
| `ObservedRunProofs` | `TerminalStatusIsTrue`, `NoChildLeftBehind`, `KillIsOptIn`, `StatusNeverGoesBack` | Per place of the supervisor: whether it knows its child, and whether that runs, which request it has read, which signal it has sent, whether it holds the exit code, and what the status says |

`TileProofs` goes from one tile to the level, in this order:

- *The plan.* A node on the stack has its parent materialized, and tiles are closed under parents. For `PlanExact`, every
  tile found is needed by a source that was taken up, and every tile that such a source needs is found or lies below a
  node of the stack (`Exact`); the traversal ends with an empty stack.
- *Corners.* A place beside an edge is the edge and a position along it; the steps around a corner turn a quarter each, so
  inside a face four of them close, and where a face ends a case for each of its corners shows that they do, or that
  three do at a corner of the cube (`FourSteps`, `ThreeSteps`). The order of keys is the one of faces, then of interleaved digits: the
  key is injective, and its comparison is that of the first digits that differ, which is why the two rules for owners agree.
- *One patch each.* A sample inside an edge tells the edge and its position, a corner its corner; the
  two ends of an edge between tiles are neighbors with different keys, so one of them is the owner.
- *Uniting.* Every parent other than the node itself ranks lower (`Falls`), so each node has one root. Uniting keeps that, and keeps that
  united pairs have one root, which lies in every set of corners that the pairs do not lead out of (`Joins`). The fold over the pairs of a
  batch is opened by induction on their number; in which order it takes them does not matter to either.
- *Two rings.* From a corner one gets to two others and what lies across from both, its star, and around a corner of the cube to no fourth
  one (`Stars`). So corners that are united with a corner of a tile are in its star, and they are united within two rings of
  the tile if they are in the level, although a tile of the star may be missing (`FiberInRings`). Hence the rings take every sample of the tile, and every row beside it,
  from where the level takes it (`Origin`), and what a sample is taken from is not itself replaced (`OriginFixed`), so that a tile
  that is read as it was finalized has the right samples to give.
- *The invariant* (`SeamInv`): what is finalized is `Final(level, t)`, every sample from its origin, and what is released is finalized.
  `StreamingEqualsBatch` is this with the level's own resolution put in; `SeamsMeet` follows because places that fall on each other have one origin.

`DatabaseFileProofs` goes from numbers to the file, in this order:

- *Sums and orders.* A sum over a finite set does not depend on the order in which it is taken (`SumsAnyOrder`). Ranking the members of
  a set by how many are below them sorts it: each comes once, and they ascend (`AscendingSorts`).
- *Layout.* Regions that begin behind one another, each one aligned, do not overlap (`RegionsApart`); this holds of the chunks of the
  file, and likewise of the texts (`TextsFollow`) and of the metadata (`MetaFollows`). As no chunk and no metadata is empty, an offset tells which one begins there.
- *References.* The texts of sources and packs are all in the table, each once, behind the empty one (`TextsSort`); so an offset
  leads back to the text it was taken for (`TableHolds`). A database has no more packs than tiles, and every pack a path (`PathsKnown`).
- *Reading.* `find_chunk` finds what was written (`ChunksFound`); then each check of the reader is a lemma of its own, and `FileKept` shows
  that a file which was written stays the one made of the state.
- *Floats.* Powers of two divide each other (`PowersDivide`), so the step between floats is one of them (`StepKnown`). An error in eighths is a
  float itself, and comes back to the millimeter that the index has (`ErrorExact`). A share is between zero and one (`ShareBounded`); the last one
  makes up for the others exactly, but for the rounding of itself, which the tolerance covers (`RestBounded`, `SharesAdd`).
- *Elevations.* A prediction looks only at samples before its own (`PredictionKnown`), and what was subtracted is added again modulo the codes
  (`ResidualRestores`); so the samples come back one after the other, by induction on their number (`Reversed`).
- *Tiles.* The identifiers of a palette ascend, each with a part of the whole (`PaletteSorted`), and an index into it survives its one or two bytes
  (`IndexRestored`). Then each group of checks in `decode_tile` is a lemma: framing, records, provenance, summaries (`TileDecodes`).

`RasterTileProofs` shows `FusedSmoothly` from the operators of `Fusion`:

- *Sums.* The sum over a finite set does not depend on the order in which the elements are taken (`SumsAnyOrder`); so what a
  source takes, it takes from the others in proportion (`MixedSum`).
- *The transition.* The smooth step stays between zero and one, and one sample further it grows by no more than 3 / 2 of the
  reciprocal of the width (`CubicSteps`), which is the steepest that the cubic is in its middle.
- *The sweeps.* After a pass there and one back no sample is further than its neighbor and one, in all four directions
  (`BothWays`): the pass back lowers only what the pass there left too high, and keeps what that one had achieved. So weights of
  neighbors are near each other (`WeightsNear`).
- *The filter.* A square of four measured samples survives any number of passes (`SquareSurvives`), since at each of its corners a half of
  the weights is there. So a refinement has filtered samples wherever the boundary is three steps away, and where it has none, its
  weight is so small that none at all is near it (`FilteredInside`, `SharesNear`).
- *The order.* Every source has its place, no two the same (`OrderedIs`); one after the other, they account for every point that one of
  them has a sample at (`AccountedStep`). The last one has no share before it is fused, so its share is what it takes,
  and where another source has a sample, that is its weight.

None of these invariants is inductive as the property states it. `BuildsConverge`, for one, speaks
of a successful build only; what makes it true is that no file in the directory, of any
configuration and any dead build, ever has other bytes than a clean build's, because each encoding
reads cores or codes of neighbors, and codes dequantize to values that quantize to themselves
(`QuantizeDequantize`); the resolution of an edge takes the owner's sample whether it is raw or read back.
The cache differs: two of its parts cannot be separated. A load is right because the file it streams is whole,
and the file stays whole because nobody else has its name; the latter fails once two writers meet, while
`SamplesAreDecoded` must not, and rests on the hash alone.
Type correctness is proved with each invariant (`TypeCorrect`), and is not in the runs. `FirstFailureReported`,
`SuccessReleasesStaging` and `KillIsOptIn` are proved and not in the runs either; the first follows from
`ImplementsBatch`.

Refinement (`ImplementsBatch`, `ImplementsAtomicDatabase`) is proved as the step simulation: initial
states map to initial states, and each step to a step of the abstract module or to a stutter.

**Only model-checked.** Every liveness property (`CallReturns`, `EveryBuildEnds`, `CommandEnds`,
`CancelEnds`): fairness and `ENABLED` are out of the prover's reach. One
invariant: `SeamsFuseAlike`, with its two conditions, which rests on how far filters and distances reach. `PathsAgree`
follows a window, four pixels and their weights; its cases are finite in a raster of any size, but were not split.

The library states induction for operators, which the provers cannot instantiate. Where a proof above rests on data of any size, the
induction is over a set instead: the naturals for which the claim holds (`Induction` in `TileProofs`, `DatabaseFileProofs` and `RasterTileProofs`), and, for finite sets, the claim for all
subsets of up to so many elements. A recursive function is first shown to satisfy its equation, on which the rest builds.

## Findings

1. **A cancelled build may have published** (`publication_cancel`,
   `src/src/builder/container_writer.cpp:3899`). After the database was replaced the build polls the
   stop token again while it records the packs, and answers `cancelled`; the previous database is gone.
   `src/plans/05_Run_Optimization_ImplementationPlan.md:24` promises that "Cancellation preserves the last
   transactional checkpoint and the previously published database".
2. **A raw core is renamed without being synchronized** (`tile_build_power_loss`,
   `src/src/builder/tile_staging.cpp:346`), unlike every other staging file. After a machine stop the
   torn core is never replaced: the resumed build computes other bytes than it finds and ends in
   `hash_mismatch`, and so do the builds after it. `src/plans/01_LunarTerrainCore_LunarTerrainBuilder_Implementation_Plan.md:102`
   promises atomic persistence of disposable artifacts.
3. **`cancel --force` after `cancel` is never read** (`observed_run_force`,
   `src/tools/run_observed.py:314`). A plain request is read and its interrupt delivered to a child that ignores
   it; a forced request is written afterwards. The file is read only while no request is known, so the second one is never
   read and the child never killed, although the help says that `--force` forces termination
   (`src/tools/run_observed.py:570`).

## What is left out

In the modelled parts:

- One builder process per output directory, as the documents assume; no lock enforces it.
- Hashes are injective: a dependency stands for its configuration, a content for its bytes.
- `Publication` lets a process die, not the machine: the directory is not synchronized after the renames,
  and what order they reach the disk in is the file system's.
- `TileBuild` reduces a tile to its inside and its edges, one value each; corners are `SeamResolution`'s. The
  last phase treats publication as one step, which `Publication` opens. Rows of other tables are left out.
- `SeamResolution` takes quantization as idempotent and leaves it out; that is proved of the numbers in
  `TileBuild`. It leaves out the four corners of an apron, whose position `CornersMeet` checks.
- `Packing` leaves out the bytes of padding, and overflow of 64 bits, which the code refuses.
- `DatabaseFile` and `TileFormat` leave out constant fields (magic numbers, versions, reserved bytes),
  checksums, compression, which is taken as lossless, the hashes of packs and the resolutions in the palette.
- `TilesDecode` is stated for tiles that are `Representable`; the reader refuses the others. Two roundings
  decide. The index holds the resolution in millimeters as the writer rounds the double, the payload
  holds it as a float, and the reader rounds that: a resolution that ends in half a millimeter (in the run,
  whose millimeter is a tenth of a metre, 0.35 m) may come out one apart
  (`src/specs/03_LunarTerrainDatabase_Format_v1.md:322`). The last share is one minus the sum of the others
  as floats, and with three sources may fall just below zero, outside the range that the format gives
  (line 396 there). Whether a build of real sources can meet either is not settled here.
- `DecodedCache`: the removal of a file by hand, and rasters of other sizes under one name; the hash in the name tells them apart.
- `RasterSampling` leaves out how files are opened and checked, and rasters whose rows do not follow the
  parallels; their projection may fail at a coordinate, which is modelled. Elevations are fractions with a finite number
  of digits, so rounding of floats in the weights is not.
- `Fusion` leaves out the elevations, and with them the bias of a source and its residual: they are the values that
  the shares multiply. The bias is a mean over the whole grid of a tile, so two tiles may correct one source by different amounts;
  `SeamsFuseAlike` speaks of shares and flags only.
- `RasterTile` samples the apron with the grid of the tile. The aprons of reused tiles, and those beyond an edge of a face, are
  sampled one by one with `sample_fused_point` (a grid of one sample, which has no neighbors to make a transition with); they
  are not modelled. Which sources a tile asks is decided by `active_sources_for_tile` from footprints of the tile and its four edge neighbors;
  a scene gives its result.
- `map_extended_raster_coordinate` (`src/src/builder/container_writer.cpp:2342`) is a second copy of the extended
  coordinates that `QscTopology` models in `src/src/core/qsc_topology.cpp`; only one has a module.
- `Hierarchy` takes a footprint as a set of tiles; its geometry and the choice of a level from a
  resolution are floating-point.
- `ObservedCommand` leaves out the counters an event carries; `ObservedRun` leaves out Windows, the copying of
  output, and `follow`, which only reads. Two windows of `follow` are visible in its text: output
  written between its last two reads is not shown, and a failed supervisor leaves no exit code, or the 0 of its child, and both are answered as 0.

Parts without a module: that the batch pipeline for up to 16 tiles and the synthetic build keep every tile in
memory (the work on a tile is the same); `src/src/builder/operators.cpp`, whose floating-point operators decide values
and not control; QSC projection; compression and digests; parsing of the configuration; diagnostics; the
benchmark, provisioning and qualification, which are planned.

Observed in passing, in the modelled code:

- A cache file that is torn (after a machine stop) is rejected by every build that follows, and never made again: each of
  them ends with the error until somebody removes it.
- Two writers that share a temporary name can lose the rename to each other, which fails the source, or publish a file
  that one of them still writes; its hash does not fit then, and it is rejected when it is loaded.
- `src/src/builder/fusion.hpp:58` describes the number of filter passes as one for equal resolutions and one more for each
  power of two; `src/src/builder/fusion.cpp:160` takes the logarithm rounded up, but one at least, so
  1 and 2 both give one pass. `src/tests/builder/fusion_tests.cpp:101` expects what the code does.
- Fusion refuses two sources with one identifier only when they are neighbors in the order of priority and
  identifier, so not when their priorities differ.
- Neighboring tiles may fuse a sample that both show differently, in three ways that `SeamsFuseAlike` excludes. The halo of a tile is
  computed from effective resolutions (`src/src/builder/container_writer.cpp:2959`), the filter passes inside it from nominal ones (line 3021
  there), so a filter may reach beyond the halo. The passes depend on which sources contributed anywhere on the grid of the
  tile (`src/src/builder/fusion.cpp:305`). And a source that meets a tile at a corner only is not asked for it (`src/src/builder/container_writer.cpp:2461`), but
  for its neighbor, where it shows in the apron. To shares the first two matter only where few samples are left: more than two steps from the
  boundary there is a filtered sample after any number of passes (`FilteredInside`). Its elevation depends on the passes everywhere.
- An error of reading a staged file on reuse is dropped (`src/src/builder/container_writer.cpp:2934`): the completed tile is built again and nothing is reported.
- A failed status does not tell whether the child was killed (`src/tools/run_observed.py:426`).

## Plan

The order was: the executor and publication first, which every build runs through; the tile
pipeline with resumption; seams, topology, hierarchy, packing and the file, which are the data of
the database; the observed command and run around it; then the raster sources, their cache and fusion, which
feed the pipeline. What comes next:

1. Resumption of a benchmark (`src/src/builder/operators.cpp`), of provisioning (`src/provisioning/provision.py`)
   and of a qualification from its records (`src/qualification/m8/run_qualification.py`).
2. `sample_fused_point` beside the grid of a tile: whether an apron beyond the edge of a face shows what the
   tile there fuses; `active_sources_for_tile` from footprints.
3. The two roundings of `Representable` with 24 digits and real resolutions, with the shares of `Fusion`.
4. Elevations of `Fusion`, with the bias of a source; parsing of a configuration with its semantic hash.
5. Proofs: `SeamsFuseAlike` for every scene, under its conditions.
