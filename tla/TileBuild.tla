----------------------------- MODULE TileBuild -----------------------------
(***************************************************************************)
(* The streaming tile pipeline (build_raster_tiles_streaming and what its  *)
(* tasks call, src/src/builder/container_writer.cpp) over the rows of      *)
(* .ltbuild/cache.sqlite (build_cache.cpp) and the files of                *)
(* .ltbuild/staging (tile_staging.cpp). Levels are built coarse to fine;   *)
(* the tasks of one level run concurrently, first all preparations, then   *)
(* all encodings; then the raw cores of the level are removed. The process *)
(* may die between any two of these steps, and the next build, of the same *)
(* or of another configuration, starts from what it finds.                 *)
(*                                                                         *)
(* The elevation of a tile is one number, in quarters of the 0.5 m code    *)
(* step, so that quantization loses something. The dependency hash of a    *)
(* tile covers the semantic configuration, so a dependency is identified   *)
(* with the configuration that has it.                                     *)
(***************************************************************************)
EXTENDS Integers

CONSTANTS
  Tiles,        \* TileKeys of the hierarchy plan
  LevelOf,      \* level of a tile
  MaxLevel,     \* configuration.maximum_level
  ParentOf,     \* the materialized parent; any tile at level 0
  Neighbors,    \* the materialized tiles of its level that share an edge with a tile
  Configs,      \* configurations, as far as they give tiles other dependencies
  Elevation,    \* what the sources hold for a tile under a configuration
  MaxAttempts,  \* bound on the number of builds that are started
  None

ASSUME PlanAssumption ==
  /\ Tiles \subseteq Nat
  /\ MaxLevel \in Nat
  /\ LevelOf \in [Tiles -> 0 .. MaxLevel]
  /\ Neighbors \in [Tiles -> SUBSET Tiles]
  /\ \A t \in Tiles : \A n \in Neighbors[t] :
       n # t /\ t \in Neighbors[n] /\ LevelOf[n] = LevelOf[t]
  /\ ParentOf \in [Tiles -> Tiles]
  /\ \A t \in Tiles : LevelOf[t] > 0 => LevelOf[ParentOf[t]] = LevelOf[t] - 1

ASSUME ValueAssumption ==
  /\ Elevation \in [Configs -> [Tiles -> Nat \ {0}]]
  /\ MaxAttempts \in Nat
  /\ None \notin Nat /\ None \notin Configs

VARIABLES
  row,              \* row of table tiles: build_state, dependency, content
  core,             \* raw binary64 core files, by tile and dependency
  auxiliary,        \* tiles and dependencies with a .raster-v1 file
  quantized,        \* .qcore-v1 files
  encoded,          \* encoded tile files
  phase,            \* where the running build stands
  config,           \* its configuration
  incremental,      \* options.incremental
  level,            \* the level it works on
  pc,               \* how far each tile has come
  draft,            \* the encoded tile a task or the build holds in memory
  failure,          \* why the running level will be given up
  cancelRequested,
  result,           \* what the last build answered
  attempts

files   == <<core, auxiliary, quantized, encoded>>
context == <<config, incremental, attempts>>
control == <<phase, level>>
vars == <<row, files, control, context, pc, draft, failure, cancelRequested, result>>

Artifacts == Tiles \X Configs
Mine(t)   == <<t, config>>
AtLevel(l) == {t \in Tiles : LevelOf[t] = l}
Current   == AtLevel(level)

NoRow == [state |-> "none", dependency |-> None, content |-> None]

-----------------------------------------------------------------------------
(* Codes and contents *)

\* quantize_elevation: round half to even.
Quantize(elevation) ==
  LET lower == elevation \div 4
      quarters == elevation % 4
  IN IF quarters > 2 \/ (quarters = 2 /\ lower % 2 = 1) THEN lower + 1 ELSE lower

\* Mistake: a code is taken back to the middle of its cell.
Dequantize_CellCentre(code) == 4 * code + 2

Dequantize(code) == 4 * code

\* The samples of a tile that the seams read: its inside and its edges.
RawSamples(t, elevation) ==
  [inside |-> elevation, edge |-> [n \in Neighbors[t] |-> elevation]]

CodeSamples(t, codes) ==
  [inside |-> Dequantize(codes.inside),
   edge   |-> [n \in Neighbors[t] |-> Dequantize(codes.edge[n])]]

\* resolve_elevation_boundaries, then the quantization of finalize_elevation_tiles:
\* the lowest key owns the samples of an edge.
Codes(t, samples) ==
  [inside |-> Quantize(samples[t].inside),
   edge   |-> [n \in Neighbors[t] |->
                 Quantize(IF n < t THEN samples[n].edge[t] ELSE samples[t].edge[n])]]

\* encode_tile: the core, the apron from the neighbors, and the geometric error
\* against the parent's codes.
Content(t, codes, samples, parentCodes) ==
  [codes  |-> codes,
   apron  |-> [n \in Neighbors[t] |-> Quantize(samples[n].inside)],
   parent |-> IF LevelOf[t] = 0 THEN None ELSE parentCodes]

\* What a build into an empty cache directory computes.
CleanSamples(c)  == [t \in Tiles |-> RawSamples(t, Elevation[c][t])]
CleanCodes(c, t) == Codes(t, CleanSamples(c))
CleanContent(c, t) ==
  Content(t, CleanCodes(c, t), CleanSamples(c), CleanCodes(c, ParentOf[t]))

ASSUME NoneIsNoContent ==
  \A c \in Configs, t \in Tiles : None \notin {CleanCodes(c, t), CleanContent(c, t)}

-----------------------------------------------------------------------------

Init ==
  /\ row = [t \in Tiles |-> NoRow]
  /\ core = [a \in Artifacts |-> None]
  /\ auxiliary = {}
  /\ quantized = [a \in Artifacts |-> None]
  /\ encoded = [a \in Artifacts |-> None]
  /\ phase = "idle"
  /\ config = None
  /\ incremental = FALSE
  /\ level = 0
  /\ pc = [t \in Tiles |-> "waiting"]
  /\ draft = [t \in Tiles |-> None]
  /\ failure = "none"
  /\ cancelRequested = FALSE
  /\ result = "none"
  /\ attempts = 0

StartBuild(c, reuse) ==
  /\ phase = "idle"
  /\ attempts < MaxAttempts
  /\ phase' = "prepare"
  /\ config' = c
  /\ incremental' = reuse
  /\ level' = 0
  /\ pc' = [t \in Tiles |-> "waiting"]
  /\ draft' = [t \in Tiles |-> None]
  /\ failure' = "none"
  /\ cancelRequested' = FALSE
  /\ result' = "none"
  /\ attempts' = attempts + 1
  /\ UNCHANGED <<row, files>>

RequestCancel ==
  /\ phase # "idle"
  /\ ~cancelRequested
  /\ cancelRequested' = TRUE
  /\ UNCHANGED <<row, files, control, context, pc, draft, failure, result>>

\* The process ends and its memory is gone; a successful build hands its tiles on.
End(answer) ==
  /\ phase' = "idle"
  /\ level' = 0
  /\ failure' = "none"
  /\ cancelRequested' = FALSE
  /\ result' = answer
  /\ IF answer = "success"
     THEN UNCHANGED <<config, pc, draft>>
     ELSE /\ config' = None
          /\ pc' = [t \in Tiles |-> "waiting"]
          /\ draft' = [t \in Tiles |-> None]
  /\ incremental' = FALSE
  /\ UNCHANGED <<row, attempts>>

\* The process dies. SQLite commits are durable and the persist functions rename
\* complete files, so what was done stays.
Crash ==
  /\ phase # "idle"
  /\ End("crashed")
  /\ UNCHANGED files

-----------------------------------------------------------------------------
(* The tasks of a level *)

Goto(t, where) == pc' = [pc EXCEPT ![t] = where]

TaskFails(t, why) ==
  /\ Goto(t, "failed")
  /\ failure' = IF failure = "none" THEN why ELSE failure
  /\ UNCHANGED <<row, files, control, context, draft, cancelRequested, result>>

\* persist_atomically and its siblings: a file that is already there must hold
\* the same bytes.
Persist(file, a, value) ==
  /\ file[a] \in {None, value}
  /\ file' = [file EXCEPT ![a] = value]

\* Mistake: a completed tile must still have its raw core, as on the batch path.
Reusable_NeedsCore(t) ==
  /\ incremental
  /\ row[t].state = "complete"
  /\ row[t].dependency = config
  /\ encoded[Mine(t)] = row[t].content
  /\ core[Mine(t)] # None

\* Mistake: the row is found whatever dependency it was built from.
Reusable_AnyDependency(t) ==
  /\ incremental
  /\ row[t].state = "complete"

\* FindReusableTile finds the row, and load_encoded_tile_artifact accepts the file
\* under the row's hashes, if it can be read.
Reusable(t) ==
  /\ incremental
  /\ row[t].state = "complete"
  /\ row[t].dependency = config
  /\ encoded[Mine(t)] = row[t].content

ReuseTile(t) ==
  /\ phase = "prepare"
  /\ pc[t] = "waiting"
  /\ Reusable(t)
  /\ draft' = [draft EXCEPT ![t] = row[t].content]
  /\ Goto(t, "reused")
  /\ UNCHANGED <<row, files, control, context, failure, cancelRequested, result>>

\* The encoded tile is there and cannot be read: the error is dropped, and the
\* tile is built as if there were none.
ReadFails(t) ==
  /\ phase = "prepare"
  /\ pc[t] = "waiting"
  /\ Reusable(t)
  /\ Goto(t, "unread")
  /\ UNCHANGED <<row, files, control, context, draft, failure, cancelRequested, result>>

\* MarkTileBuilding takes over the row of the key, whatever it was built from.
MarkTileBuilding(t) ==
  /\ phase = "prepare"
  /\ pc[t] = "unread" \/ (pc[t] = "waiting" /\ ~Reusable(t))
  /\ row' = [row EXCEPT ![t] =
       [state |-> "building", dependency |-> config, content |-> None]]
  /\ Goto(t, "marked")
  /\ UNCHANGED <<files, control, context, draft, failure, cancelRequested, result>>

StageCore(t) ==
  /\ phase = "prepare"
  /\ pc[t] = "marked"
  /\ Persist(core, Mine(t), Elevation[config][t])
  /\ Goto(t, "staged")
  /\ UNCHANGED <<row, auxiliary, quantized, encoded, control, context, draft, failure,
                 cancelRequested, result>>

StageMismatch(t) ==
  /\ phase = "prepare"
  /\ pc[t] = "marked"
  /\ core[Mine(t)] \notin {None, Elevation[config][t]}
  /\ TaskFails(t, "mismatch")

StageAuxiliary(t) ==
  /\ phase = "prepare"
  /\ pc[t] = "staged"
  /\ auxiliary' = auxiliary \cup {Mine(t)}
  /\ Goto(t, "prepared")
  /\ UNCHANGED <<row, core, quantized, encoded, control, context, draft, failure,
                 cancelRequested, result>>

\* load_streaming_staged_tile: the raw core, or the codes of a tile whose raw
\* core was removed.
Loadable(t) == core[Mine(t)] # None \/ quantized[Mine(t)] # None

Samples(t) ==
  IF core[Mine(t)] # None THEN RawSamples(t, core[Mine(t)])
                          ELSE CodeSamples(t, quantized[Mine(t)])

FoundSamples(t) == [x \in {t} \cup Neighbors[t] |-> Samples(x)]
FoundCodes(t)   == Codes(t, FoundSamples(t))
FoundContent(t) ==
  Content(t, FoundCodes(t), FoundSamples(t), quantized[<<ParentOf[t], config>>])

InputsPresent(t) ==
  /\ Loadable(t) /\ Mine(t) \in auxiliary
  /\ \A n \in Neighbors[t] : Loadable(n)
  /\ LevelOf[t] # 0 => quantized[<<ParentOf[t], config>>] # None

\* finalize_streaming_raster_tile, the parent's codes, persist_quantized_core.
FinalizeTile(t) ==
  /\ phase = "encode"
  /\ pc[t] = "prepared"
  /\ InputsPresent(t)
  /\ Persist(quantized, Mine(t), FoundCodes(t))
  /\ draft' = [draft EXCEPT ![t] = FoundContent(t)]
  /\ Goto(t, "quantized")
  /\ UNCHANGED <<row, core, auxiliary, encoded, control, context, failure,
                 cancelRequested, result>>

FinalizeFails(t) ==
  /\ phase = "encode"
  /\ pc[t] = "prepared"
  /\ \/ ~InputsPresent(t) /\ TaskFails(t, "missing")
     \/ /\ InputsPresent(t)
        /\ quantized[Mine(t)] \notin {None, FoundCodes(t)}
        /\ TaskFails(t, "mismatch")

PersistEncoded(t) ==
  /\ phase = "encode"
  /\ pc[t] = "quantized"
  /\ Persist(encoded, Mine(t), draft[t])
  /\ Goto(t, "written")
  /\ UNCHANGED <<row, core, auxiliary, quantized, control, context, draft, failure,
                 cancelRequested, result>>

EncodedMismatch(t) ==
  /\ phase = "encode"
  /\ pc[t] = "quantized"
  /\ encoded[Mine(t)] \notin {None, draft[t]}
  /\ TaskFails(t, "mismatch")

\* Mistake: the row is completed before the encoded tile is on disk.
StoreCompletedTile_Early(t) ==
  /\ phase = "encode"
  /\ pc[t] \in {"quantized", "written"}
  /\ row[t].dependency = config
  /\ row' = [row EXCEPT ![t] =
       [state |-> "complete", dependency |-> config, content |-> draft[t]]]
  /\ IF pc[t] = "written" THEN Goto(t, "complete") ELSE UNCHANGED pc
  /\ UNCHANGED <<files, control, context, draft, failure, cancelRequested, result>>

\* UPDATE ... WHERE tile_key AND dependency_sha256.
StoreCompletedTile(t) ==
  /\ phase = "encode"
  /\ pc[t] = "written"
  /\ row[t].dependency = config
  /\ row' = [row EXCEPT ![t] =
       [state |-> "complete", dependency |-> config, content |-> draft[t]]]
  /\ Goto(t, "complete")
  /\ UNCHANGED <<files, control, context, draft, failure, cancelRequested, result>>

InFlight(t) == pc[t] \in {"unread", "marked", "staged", "quantized", "written"}

\* The executor before a task starts, build_raster_tile_work after it marked its
\* row, the loops of finalize_streaming_raster_tile.
TaskCancelled(t) ==
  /\ cancelRequested
  /\ \/ phase = "prepare" /\ pc[t] \in {"waiting", "marked"}
     \/ phase = "encode" /\ pc[t] = "prepared"
  /\ TaskFails(t, "cancelled")

\* A source, a file or SQLite reports an error, the first call of a task included.
TaskFailsIO(t) ==
  /\ \/ phase = "prepare" /\ pc[t] \in {"waiting", "unread", "marked", "staged"}
     \/ phase = "encode" /\ pc[t] \in {"prepared", "quantized", "written"}
  /\ TaskFails(t, "failed")

TileTask(t) ==
  \/ ReuseTile(t) \/ MarkTileBuilding(t) \/ StageCore(t) \/ StageMismatch(t)
  \/ StageAuxiliary(t) \/ FinalizeTile(t) \/ FinalizeFails(t) \/ PersistEncoded(t)
  \/ EncodedMismatch(t) \/ StoreCompletedTile(t) \/ TaskCancelled(t)

-----------------------------------------------------------------------------
(* The building thread *)

\* run_bounded_tasks answers with a failure once no task is running.
Abandon ==
  /\ failure # "none"
  /\ \A t \in Current : ~InFlight(t)
  /\ End(failure)
  /\ UNCHANGED files

\* Mistake: a level with a reused tile never counts as encoded.
LevelDone_IgnoresReused ==
  /\ failure = "none"
  /\ \A t \in Current : pc[t] \in
       CASE phase = "prepare" -> {"prepared", "reused"}
         [] phase = "encode"  -> {"complete"}
         [] phase = "release" -> {"released", "reused"}
         [] OTHER -> {}

\* Every tile of the level has come to the end of the phase.
LevelDone ==
  /\ failure = "none"
  /\ \A t \in Current : pc[t] \in
       CASE phase = "prepare" -> {"prepared", "reused"}
         [] phase = "encode"  -> {"complete", "reused"}
         [] phase = "release" -> {"released", "reused"}
         [] OTHER -> {}

Advance(next) ==
  /\ phase' = next
  /\ UNCHANGED <<row, files, context, level, pc, draft, failure, cancelRequested, result>>

EndPreparation ==
  /\ phase = "prepare"
  /\ LevelDone
  /\ ~cancelRequested
  /\ Advance("encode")

EndEncoding ==
  /\ phase = "encode"
  /\ LevelDone
  /\ ~cancelRequested
  /\ Advance("release")

NextToRelease(t) ==
  /\ phase = "release"
  /\ t \in Current
  /\ pc[t] \in {"complete", "coreless"}
  /\ \A s \in Current : s < t => pc[s] \in {"released", "reused"}

RemoveCore(t) ==
  /\ NextToRelease(t)
  /\ pc[t] = "complete"
  /\ core' = [core EXCEPT ![Mine(t)] = None]
  /\ Goto(t, "coreless")
  /\ UNCHANGED <<row, auxiliary, quantized, encoded, control, context, draft, failure,
                 cancelRequested, result>>

RemoveAuxiliary(t) ==
  /\ NextToRelease(t)
  /\ pc[t] = "coreless"
  /\ auxiliary' = auxiliary \ {Mine(t)}
  /\ Goto(t, "released")
  /\ UNCHANGED <<row, core, quantized, encoded, control, context, draft, failure,
                 cancelRequested, result>>

ReleaseFails ==
  /\ phase = "release"
  /\ End("failed")
  /\ UNCHANGED files

NextLevel ==
  /\ phase = "release"
  /\ LevelDone
  /\ level < MaxLevel => ~cancelRequested
  /\ phase' = IF level = MaxLevel THEN "pack" ELSE "prepare"
  /\ level' = IF level = MaxLevel THEN level ELSE level + 1
  /\ UNCHANGED <<row, files, context, pc, draft, failure, cancelRequested, result>>

\* The executor polls once more after its workers ended, the loop over the
\* levels at its head.
CancelLevel ==
  /\ \/ phase \in {"prepare", "encode"}
     \/ phase = "release" /\ level < MaxLevel
  /\ LevelDone
  /\ cancelRequested
  /\ End("cancelled")
  /\ UNCHANGED files

\* publish_build (module Publication), as far as the rows are concerned:
\* UpdatePacking needs a completed row for every tile.
PublishTiles ==
  /\ phase = "pack"
  /\ \/ ~cancelRequested /\ (\A t \in Tiles : row[t].state = "complete") /\ End("success")
     \/ ~cancelRequested /\ (\E t \in Tiles : row[t].state # "complete") /\ End("missing")
     \/ cancelRequested /\ End("cancelled")
     \/ End("failed")
  /\ UNCHANGED files

Builder ==
  \/ Abandon \/ EndPreparation \/ EndEncoding \/ NextLevel \/ CancelLevel \/ PublishTiles
  \/ \E t \in Tiles : RemoveCore(t) \/ RemoveAuxiliary(t)

Next ==
  \/ \E c \in Configs, reuse \in BOOLEAN : StartBuild(c, reuse)
  \/ RequestCancel \/ Crash \/ ReleaseFails
  \/ \E t \in Current : TileTask(t) \/ ReadFails(t) \/ TaskFailsIO(t)
  \/ Builder

\* The worker threads and the building thread keep running.
Fairness == WF_vars(Builder) /\ WF_vars(\E t \in Current : TileTask(t))

Spec == Init /\ [][Next]_vars /\ Fairness

-----------------------------------------------------------------------------
(* Properties *)

TypeOK ==
  /\ DOMAIN row = Tiles /\ DOMAIN draft = Tiles
  /\ \A t \in Tiles : /\ row[t].state \in {"none", "building", "complete"}
                      /\ row[t].dependency \in Configs \cup {None}
  /\ core \in [Artifacts -> Nat \cup {None}]
  /\ auxiliary \in SUBSET Artifacts
  /\ DOMAIN quantized = Artifacts /\ DOMAIN encoded = Artifacts
  /\ phase \in {"idle", "prepare", "encode", "release", "pack"}
  /\ config \in Configs \cup {None}
  /\ phase # "idle" => config \in Configs
  /\ incremental \in BOOLEAN
  /\ level \in 0 .. MaxLevel
  /\ pc \in [Tiles -> {"waiting", "unread", "reused", "marked", "staged", "prepared", "quantized",
                       "written", "complete", "coreless", "released", "failed"}]
  /\ failure \in {"none", "mismatch", "missing", "cancelled", "failed"}
  /\ cancelRequested \in BOOLEAN
  /\ result \in {"none", "success", "mismatch", "missing", "cancelled", "failed", "crashed"}
  /\ attempts \in 0 .. MaxAttempts

\* A row that says complete is a checkpoint one can resume from: the encoded
\* tile it names and the codes its children and neighbors need are on disk, as
\* a clean build would have written them.
CompleteRowsResumable ==
  \A t \in Tiles : row[t].state = "complete" =>
    LET c == row[t].dependency IN
    /\ c \in Configs
    /\ row[t].content = CleanContent(c, t)
    /\ encoded[<<t, c>>] = row[t].content
    /\ quantized[<<t, c>>] = CleanCodes(c, t)

\* Incremental and clean builds converge: whatever was interrupted, cancelled or
\* built for another configuration before, a build that succeeds has for every
\* tile what a build into an empty cache directory would have.
BuildsConverge ==
  result = "success" => \A t \in Tiles : draft[t] = CleanContent(config, t)

\* An interrupted build can be resumed: no build finds that a file of its own
\* dependency holds other bytes than it computes, or that one it needs is gone.
InterruptedBuildResumes == result \notin {"mismatch", "missing"}

\* A step leaves the row of a tile alone, or marks it for building by a task that
\* could not read its encoded file.
RowKept(t) ==
  \/ row'[t] = row[t]
  \/ pc[t] = "unread" /\ row'[t].state = "building" /\ row'[t].dependency = config

\* An incremental build takes back a completed tile of its own configuration only
\* when its encoded file could not be read, and not because raw cores are removed
\* as soon as a level is done.
CheckpointPreserved ==
  [][phase # "idle" /\ incremental =>
       \A t \in Tiles : row[t].state = "complete" /\ row[t].dependency = config
                          => RowKept(t)]_vars

\* A build that succeeds leaves no raw core and no auxiliary file of the tiles
\* it has built.
SuccessReleasesStaging ==
  result = "success" => \A t \in Tiles :
    pc[t] # "reused" => core[Mine(t)] = None /\ Mine(t) \notin auxiliary

\* Every build ends.
EveryBuildEnds == phase # "idle" ~> phase = "idle"
=============================================================================
