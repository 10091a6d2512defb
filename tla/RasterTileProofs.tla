-------------------------- MODULE RasterTileProofs --------------------------
(***************************************************************************)
(* That wrong samples are never kept, that undisturbed files load, that a  *)
(* source sampled without its lock has nothing left to decode, and that    *)
(* tiles are fused smoothly, for any sources, processes, files and scenes. *)
(* The steps of a tile are seen as steps of the cache; a step of one       *)
(* source changes only its own place, so each part of the invariant is     *)
(* shown for that source and carried over for the others. What fusing      *)
(* gives is shown of its operators: the sum of the shares, the curve of a  *)
(* transition, the sweeps that measure the distance to the boundary, the   *)
(* passes of the filter, and the sources one after the other.              *)
(***************************************************************************)
EXTENDS RasterTile, FunctionTheorems, FiniteSetTheorems, WellFoundedInduction, TLAPS

-----------------------------------------------------------------------------
(* Steps of the cache *)

\* The elevations of a batch have an error, and the companions are left alone.
Stumble(s) ==
  /\ pc[s] = "next" /\ End(s, "failed")
  /\ UNCHANGED <<rooted, files, raster, stream, at, memory, attempted, disturbed, stops>>

SourceStep(s) == Begin(s) \/ Stumble(s) \/ Progress(s) \/ Interrupt(s)

\* The steps that leave the files alone.
Quiet(s) ==
  \/ Begin(s) \/ Stumble(s) \/ AllRastersDone(s) \/ SkipRaster(s) \/ AttemptRaster(s) \/ Decode(s)
  \/ OpenCache(s) \/ ReadHeader(s) \/ ReadChunk(s) \/ FinishLoad(s) \/ HashSamples(s)
  \/ CloseTemporary(s) \/ Cancel(s) \/ Fail(s)

\* A step of a source is quiet or does one of four things to the files.
LEMMA SourceSteps ==
  ASSUME NEW s \in Sources
  PROVE  SourceStep(s) <=> Quiet(s) \/ CreateTemporary(s) \/ WriteBlock(s) \/ Publish(s) \/ Discard(s)
BY DEF SourceStep, Quiet, Progress, Interrupt

\* Every step of a tile is a step of the cache, or leaves the cache alone.
LEMMA CacheSteps ==
  ASSUME scene \in Scenes, Next
  PROVE  Stop \/ (\E s \in Sources : SourceStep(s)) \/ UNCHANGED cacheVars
<1>1. Users \subseteq Sources BY TileAssumption DEF Users
<1>2. ASSUME NEW s \in Users, OpenSource(s) PROVE SourceStep(s) \/ UNCHANGED cacheVars
  BY <1>2 DEF OpenSource, SourceStep
<1>3. ASSUME NEW s \in Users, FillStep(s) PROVE SourceStep(s)
  BY <1>3 DEF FillStep, SourceStep, Stumble, AtElevations
<1>4. ASSUME NEW s \in Users, NEW tile \in scene.tiles, SampleInBulk(s, tile) \/ SampleSingly(s, tile)
      PROVE SourceStep(s) \/ UNCHANGED cacheVars
  BY <1>4 DEF SampleInBulk, SampleSingly, SourceStep
<1>5. ASSUME NEW tile \in scene.tiles, CollectSource(tile) \/ FuseTile(tile)
      PROVE UNCHANGED cacheVars
  BY <1>5 DEF CollectSource, FuseTile
<1>6. ASSUME StopBuild PROVE Stop
  BY <1>6, <1>1 DEF StopBuild, Stop
<1> QED BY <1>1, <1>2, <1>3, <1>4, <1>5, <1>6 DEF Next

-----------------------------------------------------------------------------
(* Types *)

Labels ==
  {"idle", "next", "decode", "hash", "create", "write", "publish", "discard", "open", "header", "load"}

Outcomes == {"none", "ready", "rejected", "unpublished", "failed", "cancelled"}

Working(s) == pc[s] \notin {"idle", "next"}

FilesType ==
  /\ inodes \in [Inodes -> [size : Nat, right : SUBSET Blocks]]
  /\ published \in [Paths -> Inodes \cup {NoFile}]
  /\ temporary \in [Paths -> Inodes \cup {NoFile}]

PlaceType ==
  /\ pc \in [Sources -> Labels]
  /\ raster \in [Sources -> Nat \ {0}]
  /\ stream \in [Sources -> Inodes \cup {NoFile}]
  /\ at \in [Sources -> Nat]
  /\ outcome \in [Sources -> Outcomes]

MemoryType ==
  /\ memory = [s \in Sources |-> memory[s]]
  /\ \A s \in Sources : memory[s] \in [Rasters(s) -> SUBSET Blocks]

AttemptType ==
  /\ attempted \in [Sources -> SUBSET Nat]
  /\ \A s \in Sources : attempted[s] \subseteq Rasters(s)

Placed ==
  \A s \in Sources : Working(s) => raster[s] \in Rasters(s)

TypeInv == FilesType /\ PlaceType /\ MemoryType /\ AttemptType /\ Placed

LEMMA PathType ==
  ASSUME NEW s \in Sources, raster[s] \in Rasters(s)
  PROVE  Path(s) \in Paths
BY DEF Path, Paths, Rasters

\* Holding samples changes them for one raster of one source.
LEMMA HoldEffect ==
  ASSUME MemoryType, NEW s \in Sources, NEW samples \in SUBSET Blocks, raster[s] \in Rasters(s), Hold(s, samples)
  PROVE  /\ MemoryType'
         /\ \A t \in Sources \ {s} : memory'[t] = memory[t]
         /\ \A r \in Rasters(s) : memory'[s][r] = IF r = raster[s] THEN samples ELSE memory[s][r]
BY DEF MemoryType, Hold

LEMMA FilesTypeKept ==
  ASSUME TypeInv, NEW s \in Sources, SourceStep(s)
  PROVE  FilesType'
<1> USE DEF TypeInv
<1>1. CASE Quiet(s)
  BY <1>1 DEF Quiet, FilesType, files, Begin, Stumble, AllRastersDone, SkipRaster, AttemptRaster, Decode,
    OpenCache, ReadHeader, ReadChunk, FinishLoad, HashSamples, CloseTemporary, Cancel, Fail, GiveUp
<1>2. CASE CreateTemporary(s)
  <2>1. Path(s) \in Paths BY <1>2, PathType DEF CreateTemporary, Placed, Working
  <2>2. PICK i \in Inodes : inodes' = [inodes EXCEPT ![i] = Blank]
                            /\ temporary' = [temporary EXCEPT ![Path(s)] = i]
    BY <1>2 DEF CreateTemporary
  <2>3. Blank \in [size : Nat, right : SUBSET Blocks] BY DEF Blank
  <2> QED BY <1>2, <2>2, <2>3 DEF CreateTemporary, FilesType
<1>3. CASE WriteBlock(s)
  <2>1. at[s] \in Blocks BY <1>3, CacheAssumption DEF WriteBlock, PlaceType, Blocks
  <2>2. \A file \in [size : Nat, right : SUBSET Blocks] :
          [size |-> IF file.size <= at[s] THEN at[s] + 1 ELSE file.size, right |-> file.right \cup {at[s]}]
             \in [size : Nat, right : SUBSET Blocks]
    BY <2>1 DEF PlaceType
  <2> DEFINE file == [size |-> IF inodes[stream[s]].size <= at[s] THEN at[s] + 1 ELSE inodes[stream[s]].size,
                      right |-> inodes[stream[s]].right \cup {at[s]}]
  <2>3. inodes' = [inodes EXCEPT ![stream[s]] = file] BY <1>3 DEF WriteBlock
  <2>4. stream[s] \in Inodes => file \in [size : Nat, right : SUBSET Blocks] BY <2>2 DEF FilesType
  <2> HIDE DEF file
  <2>5. inodes' \in [Inodes -> [size : Nat, right : SUBSET Blocks]] BY <2>3, <2>4 DEF FilesType
  <2> QED BY <1>3, <2>5 DEF WriteBlock, FilesType
<1>4. CASE Publish(s)
  BY <1>4 DEF Publish, FilesType
<1>5. CASE Discard(s)
  BY <1>5 DEF Discard, FilesType, Blank
<1> QED BY <1>1, <1>2, <1>3, <1>4, <1>5, SourceSteps

LEMMA PlaceTypeKept ==
  ASSUME TypeInv, NEW s \in Sources, SourceStep(s)
  PROVE  PlaceType'
<1> USE DEF TypeInv, PlaceType, Labels, Outcomes, Goto, End, Close, Advance
<1>1. CASE Begin(s) \/ Stumble(s) \/ AllRastersDone(s) BY <1>1 DEF Begin, Stumble, AllRastersDone
<1>2. CASE SkipRaster(s) \/ AttemptRaster(s) BY <1>2 DEF SkipRaster, AttemptRaster
<1>3. CASE Decode(s) \/ HashSamples(s) BY <1>3 DEF Decode, HashSamples
<1>4. CASE OpenCache(s) BY <1>4, PathType DEF OpenCache, FilesType, Placed, Working
<1>5. CASE ReadHeader(s) BY <1>5 DEF ReadHeader
<1>6. CASE ReadChunk(s) BY <1>6 DEF ReadChunk
<1>7. CASE FinishLoad(s)
  <2>1. CASE memory[s][raster[s]] = Blocks BY <1>7, <2>1 DEF FinishLoad
  <2>2. CASE memory[s][raster[s]] # Blocks BY <1>7, <2>2 DEF FinishLoad
  <2> QED BY <2>1, <2>2
<1>8. CASE CreateTemporary(s) BY <1>8 DEF CreateTemporary
<1>9. CASE WriteBlock(s) BY <1>9 DEF WriteBlock
<1>10. CASE CloseTemporary(s) BY <1>10 DEF CloseTemporary
<1>11. CASE Publish(s) BY <1>11 DEF Publish
<1>12. CASE Discard(s) BY <1>12 DEF Discard
<1>13. CASE Cancel(s) BY <1>13 DEF Cancel, GiveUp
<1>14. CASE Fail(s) BY <1>14 DEF Fail, GiveUp
<1> QED BY <1>1, <1>2, <1>3, <1>4, <1>5, <1>6, <1>7, <1>8, <1>9, <1>10, <1>11, <1>12, <1>13, <1>14
        DEF SourceStep, Progress, Interrupt

LEMMA MemoryTypeKept ==
  ASSUME TypeInv, NEW s \in Sources, SourceStep(s)
  PROVE  MemoryType' /\ \A t \in Sources \ {s} : memory'[t] = memory[t]
<1> USE DEF TypeInv
<1>1. CASE UNCHANGED memory BY <1>1 DEF MemoryType
<1>2. ASSUME NEW samples \in SUBSET Blocks, Working(s), Hold(s, samples)
      PROVE  MemoryType' /\ \A t \in Sources \ {s} : memory'[t] = memory[t]
  BY <1>2, HoldEffect DEF Placed
<1>3. CASE Decode(s) BY <1>2, <1>3 DEF Decode, Working, Blocks
<1>4. CASE ReadHeader(s) BY <1>1, <1>2, <1>4, CacheAssumption DEF ReadHeader, Working, Blocks
<1>5. CASE ReadChunk(s)
  <2>1. memory[s][raster[s]] \cup (inodes[stream[s]].right \cap {at[s]}) \subseteq Blocks
    BY <1>5 DEF ReadChunk, MemoryType, Placed, Working, PlaceType, Blocks
  <2> QED BY <1>2, <1>5, <2>1 DEF ReadChunk, Working
<1>6. CASE FinishLoad(s) BY <1>1, <1>2, <1>6 DEF FinishLoad, Working
<1>7. CASE Cancel(s) \/ Fail(s) BY <1>1, <1>2, <1>7 DEF Cancel, Fail, GiveUp, Working
<1> QED BY <1>1, <1>3, <1>4, <1>5, <1>6, <1>7 DEF SourceStep, Progress, Interrupt,
  Begin, Stumble, AllRastersDone, SkipRaster, AttemptRaster, OpenCache, HashSamples, CreateTemporary,
  WriteBlock, CloseTemporary, Publish, Discard

LEMMA AttemptTypeKept ==
  ASSUME TypeInv, NEW s \in Sources, SourceStep(s)
  PROVE  AttemptType'
<1> USE DEF TypeInv, AttemptType
<1>1. CASE AttemptRaster(s)
  BY <1>1, CacheAssumption DEF AttemptRaster
<1>2. CASE UNCHANGED attempted BY <1>2
<1> QED BY <1>1, <1>2 DEF SourceStep, Progress, Interrupt,
  Begin, Stumble, AllRastersDone, SkipRaster, Decode, OpenCache, ReadHeader, ReadChunk, FinishLoad,
  HashSamples, CreateTemporary, WriteBlock, CloseTemporary, Publish, Discard, Cancel, Fail, GiveUp

LEMMA PlacedKept ==
  ASSUME TypeInv, NEW s \in Sources, SourceStep(s)
  PROVE  Placed'
<1> USE DEF TypeInv, PlaceType, Placed, Working, Goto, End, Advance
<1>1. CASE Begin(s) \/ Stumble(s) \/ AllRastersDone(s) BY <1>1 DEF Begin, Stumble, AllRastersDone
<1>2. CASE SkipRaster(s) \/ AttemptRaster(s) BY <1>2 DEF SkipRaster, AttemptRaster
<1>3. CASE Decode(s) \/ HashSamples(s) BY <1>3 DEF Decode, HashSamples
<1>4. CASE OpenCache(s) BY <1>4 DEF OpenCache
<1>5. CASE ReadHeader(s) BY <1>5 DEF ReadHeader
<1>6. CASE ReadChunk(s) BY <1>6 DEF ReadChunk
<1>7. CASE FinishLoad(s) BY <1>7 DEF FinishLoad
<1>8. CASE CreateTemporary(s) BY <1>8 DEF CreateTemporary
<1>9. CASE WriteBlock(s) BY <1>9 DEF WriteBlock
<1>10. CASE CloseTemporary(s) BY <1>10 DEF CloseTemporary
<1>11. CASE Publish(s) BY <1>11 DEF Publish
<1>12. CASE Discard(s) BY <1>12 DEF Discard
<1>13. CASE Cancel(s) BY <1>13 DEF Cancel, GiveUp
<1>14. CASE Fail(s) BY <1>14 DEF Fail, GiveUp
<1> QED BY <1>1, <1>2, <1>3, <1>4, <1>5, <1>6, <1>7, <1>8, <1>9, <1>10, <1>11, <1>12, <1>13, <1>14
        DEF SourceStep, Progress, Interrupt

LEMMA TypeStep ==
  ASSUME TypeInv, NEW s \in Sources, SourceStep(s)
  PROVE  TypeInv'
BY FilesTypeKept, PlaceTypeKept, MemoryTypeKept, AttemptTypeKept, PlacedKept DEF TypeInv

LEMMA TypeStop == TypeInv /\ Stop => TypeInv'
<1> SUFFICES ASSUME TypeInv, Stop PROVE TypeInv'
  OBVIOUS
<1> USE DEF TypeInv
<1>1. PICK gone \in SUBSET Sources : Restarted(gone)
  BY DEF Stop, MachineStop, Kill
<1>2. PlaceType' BY <1>1 DEF Restarted, PlaceType, Labels, Outcomes
<1>3. MemoryType' BY <1>1 DEF Restarted, MemoryType
<1>4. AttemptType' BY <1>1 DEF Restarted, AttemptType
<1>5. Placed' BY <1>1 DEF Restarted, Placed, Working, PlaceType
<1>6. FilesType'
  <2>1. CASE UNCHANGED inodes BY <1>1, <2>1 DEF Restarted, FilesType
  <2>2. CASE MachineStop
    <3>0. PICK p \in Paths :
            /\ published[p] # NoFile
            /\ \E file \in Torn(inodes[published[p]]) :
                 inodes' = [inodes EXCEPT ![published[p]] = [file EXCEPT !.right = @ \cap 0 .. file.size - 1]]
      BY <2>2 DEF MachineStop
    <3>1. PICK file \in Torn(inodes[published[p]]) :
            inodes' = [inodes EXCEPT ![published[p]] = [file EXCEPT !.right = @ \cap 0 .. file.size - 1]]
      BY <3>0
    <3>2. [file EXCEPT !.right = @ \cap 0 .. file.size - 1] \in [size : Nat, right : SUBSET Blocks]
      <4>1. inodes[published[p]] \in [size : Nat, right : SUBSET Blocks] BY <3>0 DEF FilesType
      <4>2. file \in [size : Nat, right : SUBSET Blocks] BY <4>1 DEF Torn
      <4> QED BY <4>2
    <3> QED BY <1>1, <3>1, <3>2 DEF Restarted, FilesType
  <2> QED BY <2>1, <2>2 DEF Stop, Kill
<1> QED BY <1>2, <1>3, <1>4, <1>5, <1>6

-----------------------------------------------------------------------------
(* Samples in memory *)

\* A step of one source leaves the others where they are.
LEMMA OthersStay ==
  ASSUME TypeInv, NEW s \in Sources, SourceStep(s), NEW t \in Sources \ {s}
  PROVE  /\ pc'[t] = pc[t] /\ raster'[t] = raster[t] /\ stream'[t] = stream[t] /\ at'[t] = at[t]
         /\ memory'[t] = memory[t] /\ outcome'[t] = outcome[t] /\ attempted'[t] = attempted[t]
<1> USE DEF TypeInv, PlaceType, AttemptType, Goto, End, Close, Advance
<1>1. memory'[t] = memory[t] BY MemoryTypeKept
<1>2. CASE Begin(s) \/ Stumble(s) \/ AllRastersDone(s) BY <1>1, <1>2 DEF Begin, Stumble, AllRastersDone
<1>3. CASE SkipRaster(s) \/ AttemptRaster(s) BY <1>1, <1>3 DEF SkipRaster, AttemptRaster
<1>4. CASE Decode(s) \/ HashSamples(s) BY <1>1, <1>4 DEF Decode, HashSamples
<1>5. CASE OpenCache(s) \/ ReadHeader(s) BY <1>1, <1>5 DEF OpenCache, ReadHeader
<1>6. CASE ReadChunk(s) \/ FinishLoad(s) BY <1>1, <1>6 DEF ReadChunk, FinishLoad
<1>7. CASE CreateTemporary(s) \/ WriteBlock(s) BY <1>1, <1>7 DEF CreateTemporary, WriteBlock
<1>8. CASE CloseTemporary(s) \/ Publish(s) BY <1>1, <1>8 DEF CloseTemporary, Publish
<1>9. CASE Discard(s) \/ Cancel(s) \/ Fail(s) BY <1>1, <1>9 DEF Discard, Cancel, Fail, GiveUp
<1> QED BY <1>2, <1>3, <1>4, <1>5, <1>6, <1>7, <1>8, <1>9 DEF SourceStep, Progress, Interrupt

\* Samples are kept whole or not at all, and those that are written are whole.
Decoded(s) ==
  /\ \A r \in Rasters(s) : memory[s][r] \in {{}, Blocks} \/ (pc[s] = "load" /\ raster[s] = r)
  /\ pc[s] \in {"hash", "create", "write", "publish"} => memory[s][raster[s]] = Blocks

LEMMA DecodedStep ==
  ASSUME TypeInv, NEW s \in Sources, SourceStep(s), NEW t \in Sources, Decoded(t)
  PROVE  Decoded(t)'
<1> USE DEF TypeInv, Decoded
<1>1. CASE t # s BY <1>1, OthersStay
<1> SUFFICES ASSUME t = s PROVE Decoded(s)'
  BY <1>1
<1> USE DEF PlaceType, Goto, End, Close, Advance
<1>2. CASE Begin(s) \/ Stumble(s) \/ AllRastersDone(s) BY <1>2 DEF Begin, Stumble, AllRastersDone
<1>3. CASE SkipRaster(s) \/ AttemptRaster(s) BY <1>3 DEF SkipRaster, AttemptRaster
<1>4. CASE HashSamples(s) \/ OpenCache(s) BY <1>4 DEF HashSamples, OpenCache
<1>5. CASE CreateTemporary(s) \/ WriteBlock(s) BY <1>5 DEF CreateTemporary, WriteBlock
<1>6. CASE CloseTemporary(s) \/ Publish(s) \/ Discard(s) BY <1>6 DEF CloseTemporary, Publish, Discard
<1>7. CASE Decode(s)
  <2>1. Hold(s, Blocks) /\ raster[s] \in Rasters(s) BY <1>7 DEF Decode, Placed, Working
  <2>2. \A r \in Rasters(s) : memory'[s][r] = IF r = raster[s] THEN Blocks ELSE memory[s][r]
    BY <2>1, HoldEffect
  <2> QED BY <1>7, <2>1, <2>2 DEF Decode
<1>8. CASE ReadHeader(s)
  <2>1. CASE UNCHANGED memory BY <1>8, <2>1 DEF ReadHeader
  <2>2. CASE Hold(s, {0}) /\ pc' = [pc EXCEPT ![s] = "load"]
    <3>1. raster[s] \in Rasters(s) /\ raster' = raster BY <1>8 DEF ReadHeader, Placed, Working
    <3>2. \A r \in Rasters(s) : memory'[s][r] = IF r = raster[s] THEN {0} ELSE memory[s][r]
      BY <2>2, <3>1, HoldEffect, CacheAssumption DEF Blocks
    <3> QED BY <1>8, <2>2, <3>1, <3>2 DEF ReadHeader
  <2> QED BY <1>8, <2>1, <2>2 DEF ReadHeader
<1>9. CASE ReadChunk(s)
  <2>1. raster[s] \in Rasters(s) /\ raster' = raster /\ pc' = pc /\ pc[s] = "load"
    BY <1>9 DEF ReadChunk, Placed, Working
  <2>2. memory[s][raster[s]] \cup (inodes[stream[s]].right \cap {at[s]}) \subseteq Blocks
    BY <1>9, <2>1 DEF ReadChunk, MemoryType, Blocks
  <2>3. \A r \in Rasters(s) \ {raster[s]} : memory'[s][r] = memory[s][r]
    BY <1>9, <2>1, <2>2, HoldEffect DEF ReadChunk
  <2> QED BY <2>1, <2>3
<1>10. CASE FinishLoad(s)
  <2>1. raster[s] \in Rasters(s) /\ pc[s] = "load" /\ pc'[s] \in {"next", "idle"}
    BY <1>10 DEF FinishLoad, Placed, Working
  <2>2. CASE memory[s][raster[s]] = Blocks BY <1>10, <2>1, <2>2 DEF FinishLoad
  <2>3. CASE memory[s][raster[s]] # Blocks
    <3>1. \A r \in Rasters(s) : memory'[s][r] = IF r = raster[s] THEN {} ELSE memory[s][r]
      BY <1>10, <2>1, <2>3, HoldEffect DEF FinishLoad
    <3> QED BY <2>1, <3>1
  <2> QED BY <2>2, <2>3
<1>11. CASE Cancel(s) \/ Fail(s)
  <2>1. GiveUp(s, outcome'[s]) /\ raster' = raster
    BY <1>11 DEF Cancel, Fail, GiveUp
  <2>2. pc'[s] \in {"idle", "discard"} BY <1>11 DEF Cancel, Fail
  <2>3. CASE pc[s] \in {"decode", "load"}
    <3>1. raster[s] \in Rasters(s) BY <2>3 DEF Placed, Working
    <3>2. \A r \in Rasters(s) : memory'[s][r] = IF r = raster[s] THEN {} ELSE memory[s][r]
      BY <2>1, <2>3, <3>1, HoldEffect DEF GiveUp
    <3> QED BY <2>2, <2>3, <3>2
  <2>4. CASE pc[s] \notin {"decode", "load"} BY <2>1, <2>2, <2>4 DEF GiveUp
  <2> QED BY <2>3, <2>4
<1> QED BY <1>2, <1>3, <1>4, <1>5, <1>6, <1>7, <1>8, <1>9, <1>10, <1>11 DEF SourceStep, Progress, Interrupt

LEMMA DecodedStop ==
  ASSUME TypeInv, Stop, NEW t \in Sources, Decoded(t)
  PROVE  Decoded(t)'
<1>1. PICK gone \in SUBSET Sources : Restarted(gone)
  BY DEF Stop, MachineStop, Kill
<1> QED BY <1>1 DEF Restarted, Decoded, TypeInv, PlaceType, MemoryType

-----------------------------------------------------------------------------
(* Files *)

Intact == [size |-> Chunks + 1, right |-> Blocks]

Whole(i) == i \in Inodes /\ inodes[i] = Intact

\* A published file is complete, no temporary name leads to it, and no two
\* temporary names lead to one file.
FilesApart ==
  /\ \A p \in Paths : published[p] # NoFile => Whole(published[p])
  /\ \A p, q \in Paths : published[p] # NoFile => temporary[q] # published[p]
  /\ \A p, q \in Paths : p # q /\ temporary[p] # NoFile => temporary[q] # temporary[p]

\* What is read is complete, and stays so; what is written grows block by block.
Streaming(s) ==
  /\ pc[s] = "open" => published[Path(s)] # NoFile
  /\ pc[s] \in {"header", "load"} => Whole(stream[s]) /\ \A q \in Paths : temporary[q] # stream[s]
  /\ pc[s] = "load" => at[s] \in 1 .. Chunks + 1 /\ memory[s][raster[s]] = 0 .. at[s] - 1
  /\ pc[s] = "write" =>
       /\ stream[s] = temporary[Path(s)] /\ stream[s] \in Inodes /\ at[s] <= Chunks + 1
       /\ inodes[stream[s]] = [size |-> at[s], right |-> 0 .. at[s] - 1]
  /\ pc[s] = "publish" => Whole(temporary[Path(s)])
  /\ outcome[s] \notin {"rejected", "unpublished"}

\* No two sources write under one temporary name.
Exclusive ==
  \A s, t \in Sources : s # t /\ Writing(s) /\ Writing(t) => Path(s) # Path(t)

FileInv ==
  ~disturbed => FilesApart /\ Exclusive /\ \A s \in Sources : Streaming(s)

LEMMA ChunksType == Chunks \in Nat \ {0} BY CacheAssumption

\* Reading block n of a cache leads to the next one, or past the last.
LEMMA NextBlock ==
  ASSUME NEW n \in 1 .. Chunks
  PROVE  n + 1 \in 1 .. Chunks + 1 /\ (n + 1) - 1 = n
BY ChunksType

LEMMA QuietFiles ==
  ASSUME NEW s \in Sources, Quiet(s)
  PROVE  UNCHANGED <<inodes, published, temporary, disturbed>>
BY DEF Quiet, files, Begin, Stumble, AllRastersDone, SkipRaster, AttemptRaster, Decode,
  OpenCache, ReadHeader, ReadChunk, FinishLoad, HashSamples, CloseTemporary, Cancel, Fail, GiveUp

\* Who writes goes on to write, to publish or to discard what was written.
LEMMA QuietWriting ==
  ASSUME TypeInv, NEW s \in Sources, Quiet(s), Writing(s)'
  PROVE  Writing(s) /\ raster'[s] = raster[s]
<1> USE DEF TypeInv, PlaceType, Writing, Goto, End, Advance
<1>1. CASE Begin(s) \/ Stumble(s) \/ AllRastersDone(s) BY <1>1 DEF Begin, Stumble, AllRastersDone
<1>2. CASE SkipRaster(s) \/ AttemptRaster(s) BY <1>2 DEF SkipRaster, AttemptRaster
<1>3. CASE Decode(s) \/ HashSamples(s) BY <1>3 DEF Decode, HashSamples
<1>4. CASE OpenCache(s) \/ ReadHeader(s) BY <1>4 DEF OpenCache, ReadHeader
<1>5. CASE ReadChunk(s) \/ FinishLoad(s) BY <1>5 DEF ReadChunk, FinishLoad
<1>6. CASE CloseTemporary(s) BY <1>6 DEF CloseTemporary
<1>7. CASE Cancel(s) \/ Fail(s) BY <1>7 DEF Cancel, Fail, GiveUp
<1> QED BY <1>1, <1>2, <1>3, <1>4, <1>5, <1>6, <1>7 DEF Quiet

LEMMA QuietStreaming ==
  ASSUME TypeInv, NEW s \in Sources, Quiet(s), FilesApart, Decoded(s), Streaming(s)
  PROVE  Streaming(s)'
<1>0. UNCHANGED <<inodes, published, temporary>> BY QuietFiles
<1> USE <1>0, ChunksType DEF TypeInv, PlaceType, Streaming, Whole, Goto, End, Close, Advance, Path
<1>1. CASE Begin(s) \/ Stumble(s) \/ AllRastersDone(s) BY <1>1 DEF Begin, Stumble, AllRastersDone
<1>2. CASE SkipRaster(s) BY <1>2 DEF SkipRaster
<1>3. CASE AttemptRaster(s) BY <1>3 DEF AttemptRaster
<1>4. CASE Decode(s) \/ HashSamples(s) BY <1>4 DEF Decode, HashSamples
<1>5. CASE OpenCache(s)
  <2> DEFINE file == published[Path(s)]
  <2>1. file # NoFile /\ Path(s) \in Paths BY <1>5, PathType DEF OpenCache, Placed, Working
  <2>2. Whole(file) /\ \A q \in Paths : temporary[q] # file BY <2>1 DEF FilesApart
  <2>3. inodes[file].size = Chunks + 1 BY <2>2 DEF Intact
  <2> HIDE DEF file
  <2>4. /\ pc' = [pc EXCEPT ![s] = "header"] /\ stream' = [stream EXCEPT ![s] = file]
        /\ outcome' = outcome /\ raster' = raster
    BY <1>5, <2>3 DEF OpenCache, file
  <2> QED BY <2>2, <2>4
<1>6. CASE ReadHeader(s)
  <2>1. Whole(stream[s]) /\ raster[s] \in Rasters(s) BY <1>6 DEF ReadHeader, Placed, Working
  <2>2. 0 \in inodes[stream[s]].right BY <2>1 DEF Intact, Blocks
  <2>3. /\ pc' = [pc EXCEPT ![s] = "load"] /\ at' = [at EXCEPT ![s] = 1] /\ Hold(s, {0})
        /\ stream' = stream /\ outcome' = outcome /\ raster' = raster
    BY <1>6, <2>2 DEF ReadHeader
  <2>4. {0} \in SUBSET Blocks BY DEF Blocks
  <2>5. memory'[s][raster[s]] = {0} BY <2>1, <2>3, <2>4, HoldEffect
  <2>6. {0} = 0 .. 0 OBVIOUS
  <2> QED BY <1>6, <2>3, <2>5, <2>6 DEF ReadHeader
<1>7. CASE ReadChunk(s)
  <2>1. pc[s] = "load" /\ at[s] <= Chunks BY <1>7 DEF ReadChunk
  <2>2. raster[s] \in Rasters(s) BY <2>1 DEF Placed, Working
  <2>3. Whole(stream[s]) /\ at[s] \in 1 .. Chunks /\ memory[s][raster[s]] = 0 .. at[s] - 1
    BY <2>1, <2>2
  <2>4. memory[s][raster[s]] \cup (inodes[stream[s]].right \cap {at[s]}) = 0 .. at[s]
    BY <2>3 DEF Intact, Blocks
  <2>5. 0 .. at[s] \in SUBSET Blocks BY <2>3 DEF Blocks
  <2>6. Hold(s, 0 .. at[s]) BY <1>7, <2>4 DEF ReadChunk
  <2>7. memory'[s][raster[s]] = 0 .. at[s] BY ZenonT(60), <2>2, <2>5, <2>6, HoldEffect
  <2>8. /\ at' = [at EXCEPT ![s] = at[s] + 1] /\ pc' = pc /\ stream' = stream
        /\ outcome' = outcome /\ raster' = raster
    BY <1>7 DEF ReadChunk
  <2>9. at'[s] = at[s] + 1 BY <2>8
  <2>10. at'[s] \in 1 .. Chunks + 1 /\ at'[s] - 1 = at[s]
    <3>1. at[s] + 1 \in 1 .. Chunks + 1 /\ (at[s] + 1) - 1 = at[s] BY <2>3, NextBlock
    <3> QED BY <3>1, <2>9
  <2>11. memory'[s][raster'[s]] = 0 .. at'[s] - 1 BY <2>7, <2>8, <2>10
  <2>12. Whole(stream[s]) /\ \A q \in Paths : temporary[q] # stream[s] BY <2>1
  <2> QED BY <2>1, <2>8, <2>10, <2>11, <2>12
<1>8. CASE FinishLoad(s)
  <2>1. at[s] = Chunks + 1 /\ memory[s][raster[s]] = Blocks
    BY <1>8 DEF FinishLoad, Blocks
  <2>2. pc' = [pc EXCEPT ![s] = "next"] /\ outcome' = outcome
    BY <1>8, <2>1 DEF FinishLoad
  <2> QED BY <2>2
<1>9. CASE CloseTemporary(s)
  <2>1. /\ stream[s] = temporary[Path(s)] /\ stream[s] \in Inodes /\ at[s] = Chunks + 1
        /\ inodes[stream[s]] = [size |-> at[s], right |-> 0 .. at[s] - 1]
    BY <1>9 DEF CloseTemporary
  <2>2. Whole(temporary[Path(s)]) BY <2>1 DEF Intact, Blocks
  <2>3. pc' = [pc EXCEPT ![s] = "publish"] /\ outcome' = outcome /\ raster' = raster
    BY <1>9 DEF CloseTemporary
  <2> QED BY <2>2, <2>3
<1>10. CASE Cancel(s) \/ Fail(s)
  <2>1. pc'[s] \in {"idle", "discard"} /\ outcome'[s] \in {"cancelled", "failed"}
    BY <1>10 DEF Cancel, Fail, GiveUp
  <2> QED BY <2>1
<1> QED BY <1>1, <1>2, <1>3, <1>4, <1>5, <1>6, <1>7, <1>8, <1>9, <1>10 DEF Quiet

\* What a source relies on, when another one takes a quiet step.
LEMMA QuietOthers ==
  ASSUME TypeInv, NEW s \in Sources, Quiet(s), NEW t \in Sources \ {s}, Streaming(t)
  PROVE  Streaming(t)'
<1>1. UNCHANGED <<inodes, published, temporary>> BY QuietFiles
<1>2. /\ pc'[t] = pc[t] /\ raster'[t] = raster[t] /\ stream'[t] = stream[t] /\ at'[t] = at[t]
      /\ memory'[t] = memory[t] /\ outcome'[t] = outcome[t]
  BY OthersStay, SourceSteps
<1> QED BY <1>1, <1>2 DEF Streaming, Whole, Path

LEMMA QuietExclusive ==
  ASSUME TypeInv, NEW s \in Sources, Quiet(s), Exclusive
  PROVE  Exclusive'
<1> SUFFICES ASSUME NEW t \in Sources, NEW u \in Sources, t # u, Writing(t)', Writing(u)'
             PROVE  Path(t)' # Path(u)'
  BY DEF Exclusive
<1>1. ASSUME NEW v \in Sources, Writing(v)' PROVE Writing(v) /\ raster'[v] = raster[v]
  <2>1. CASE v = s BY <1>1, <2>1, QuietWriting
  <2>2. CASE v # s BY <1>1, <2>2, OthersStay, SourceSteps DEF Writing
  <2> QED BY <2>1, <2>2
<1> QED BY <1>1 DEF Exclusive, Path

LEMMA QuietInvariant ==
  ASSUME TypeInv, NEW s \in Sources, Quiet(s), FileInv, \A t \in Sources : Decoded(t)
  PROVE  FileInv'
<1> SUFFICES ASSUME ~disturbed' PROVE (FilesApart /\ Exclusive /\ \A t \in Sources : Streaming(t))'
  BY DEF FileInv
<1>1. UNCHANGED <<inodes, published, temporary, disturbed>> BY QuietFiles
<1>2. FilesApart /\ Exclusive /\ \A t \in Sources : Streaming(t) BY <1>1 DEF FileInv
<1>3. FilesApart' BY <1>1, <1>2 DEF FilesApart, Whole
<1>4. Exclusive' BY <1>2, QuietExclusive
<1>5. ASSUME NEW t \in Sources PROVE Streaming(t)'
  BY <1>2, QuietStreaming, QuietOthers
<1> QED BY <1>3, <1>4, <1>5

LEMMA CreateInvariant ==
  ASSUME TypeInv, NEW s \in Sources, CreateTemporary(s), FileInv
  PROVE  FileInv'
<1> SUFFICES ASSUME ~disturbed' PROVE (FilesApart /\ Exclusive /\ \A t \in Sources : Streaming(t))'
  BY DEF FileInv
<1> DEFINE p == Path(s)
<1>1. /\ ~disturbed /\ pc[s] = "create" /\ raster[s] \in Rasters(s) /\ p \in Paths
      /\ \A t \in Sources \ {s} : Writing(t) => Path(t) # p
  BY PathType DEF CreateTemporary, TypeInv, Placed, Working
<1>2. FilesApart /\ Exclusive /\ \A t \in Sources : Streaming(t) BY <1>1 DEF FileInv
<1>3. PICK i \in Inodes :
        /\ IF temporary[p] # NoFile THEN i = temporary[p] ELSE Unused(i)
        /\ inodes' = [inodes EXCEPT ![i] = Blank]
        /\ temporary' = [temporary EXCEPT ![p] = i]
        /\ stream' = [stream EXCEPT ![s] = i]
  BY DEF CreateTemporary
<1>4. i # NoFile BY CacheAssumption DEF NoFile
<1>5. /\ published' = published /\ raster' = raster /\ at' = [at EXCEPT ![s] = 0]
      /\ pc' = [pc EXCEPT ![s] = "write"] /\ outcome' = outcome /\ memory' = memory
  BY DEF CreateTemporary, Goto
<1> HIDE DEF p
<1>6. \A q \in Paths : published[q] # i BY <1>1, <1>2, <1>3, <1>4 DEF FilesApart, Unused
<1>7. \A q \in Paths \ {p} : temporary[q] # i BY <1>1, <1>2, <1>3, <1>4 DEF FilesApart, Unused
<1>8. \A t \in Sources \ {s} : pc[t] \in {"header", "load", "write"} => stream[t] # i
  <2> SUFFICES ASSUME NEW t \in Sources \ {s}, pc[t] \in {"header", "load", "write"} PROVE stream[t] # i
    OBVIOUS
  <2>1. CASE temporary[p] = NoFile BY <1>3, <2>1 DEF Unused
  <2>2. CASE temporary[p] # NoFile /\ pc[t] \in {"header", "load"}
    BY ZenonT(60), <1>1, <1>2, <1>3, <2>2 DEF Streaming
  <2>3. CASE temporary[p] # NoFile /\ pc[t] = "write"
    <3>1. stream[t] = temporary[Path(t)] /\ Path(t) # p BY <1>1, <1>2, <2>3 DEF Streaming, Writing
    <3>2. Path(t) \in Paths BY <2>3, PathType DEF TypeInv, Placed, Working
    <3> QED BY <1>7, <3>1, <3>2
  <2> QED BY <2>1, <2>2, <2>3
<1>9. \A j \in Inodes \ {i} : inodes'[j] = inodes[j] BY <1>3 DEF TypeInv, FilesType
<1>10. temporary'[p] = i /\ \A q \in Paths \ {p} : temporary'[q] = temporary[q]
  BY <1>1, <1>3 DEF TypeInv, FilesType
<1>11. FilesApart'
  BY <1>2, <1>4, <1>5, <1>6, <1>7, <1>9, <1>10 DEF FilesApart, Whole
<1>12. \A t \in Sources : Writing(t)' => t = s \/ Writing(t) BY <1>5 DEF Writing, TypeInv, PlaceType
<1>13. \A t \in Sources : Path(t)' = Path(t) BY <1>5 DEF Path
<1>14. Exclusive' BY <1>1, <1>2, <1>12, <1>13 DEF Exclusive, p
<1>15. Streaming(s)'
  <2>1. /\ pc'[s] = "write" /\ at'[s] = 0 /\ stream'[s] = i /\ inodes'[i] = Blank /\ outcome'[s] = outcome[s]
    BY <1>3, <1>5 DEF TypeInv, PlaceType, FilesType
  <2>2. Blank = [size |-> 0, right |-> 0 .. 0 - 1] BY DEF Blank
  <2>3. outcome[s] \notin {"rejected", "unpublished"} BY <1>2 DEF Streaming
  <2>4. inodes'[i] = [size |-> at'[s], right |-> 0 .. at'[s] - 1] BY <2>1, <2>2
  <2>5. Path(s)' = p BY <1>13 DEF p
  <2>6. at'[s] <= Chunks + 1 BY <2>1, ChunksType
  <2> QED BY <1>10, <2>1, <2>3, <2>4, <2>5, <2>6 DEF Streaming
<1>16. ASSUME NEW t \in Sources \ {s} PROVE Streaming(t)'
  <2>1. /\ pc'[t] = pc[t] /\ at'[t] = at[t] /\ stream'[t] = stream[t] /\ outcome'[t] = outcome[t]
        /\ memory'[t] = memory[t] /\ raster'[t] = raster[t] /\ Path(t)' = Path(t)
    BY <1>3, <1>5, <1>13 DEF TypeInv, PlaceType
  <2>2. Streaming(t) BY <1>2
  <2>3. Working(t) => Path(t) \in Paths BY PathType DEF TypeInv, Placed
  <2>4. pc[t] \in {"write", "publish"} => Path(t) # p BY <1>1 DEF Writing
  <2>5. (pc[t] = "open" => published[Path(t)] # NoFile)' BY <1>5, <2>1, <2>2 DEF Streaming
  <2>6. (pc[t] \in {"header", "load"} => Whole(stream[t]) /\ \A q \in Paths : temporary[q] # stream[t])'
    BY <1>8, <1>9, <1>10, <2>1, <2>2 DEF Streaming, Whole
  <2>7. (pc[t] = "load" => at[t] \in 1 .. Chunks + 1 /\ memory[t][raster[t]] = 0 .. at[t] - 1)'
    BY <2>1, <2>2 DEF Streaming
  <2>8. (pc[t] = "write" =>
           /\ stream[t] = temporary[Path(t)] /\ stream[t] \in Inodes /\ at[t] <= Chunks + 1
           /\ inodes[stream[t]] = [size |-> at[t], right |-> 0 .. at[t] - 1])'
    BY ZenonT(60), <1>8, <1>9, <1>10, <2>1, <2>2, <2>3, <2>4 DEF Streaming, Working
  <2>9. (pc[t] = "publish" => Whole(temporary[Path(t)]))'
    BY <1>7, <1>9, <1>10, <2>1, <2>2, <2>3, <2>4 DEF Streaming, Whole, Working
  <2> QED BY <2>1, <2>2, <2>5, <2>6, <2>7, <2>8, <2>9 DEF Streaming
<1> QED BY <1>11, <1>14, <1>15, <1>16

LEMMA WriteInvariant ==
  ASSUME TypeInv, NEW s \in Sources, WriteBlock(s), FileInv
  PROVE  FileInv'
<1> SUFFICES ASSUME ~disturbed' PROVE (FilesApart /\ Exclusive /\ \A t \in Sources : Streaming(t))'
  BY DEF FileInv
<1> DEFINE i == stream[s]
           p == Path(s)
<1>1. /\ ~disturbed /\ pc[s] = "write" /\ at[s] \in Nat /\ at[s] <= Chunks
      /\ raster[s] \in Rasters(s) /\ p \in Paths
  BY PathType DEF WriteBlock, TypeInv, Placed, Working, PlaceType
<1>2. FilesApart /\ Exclusive /\ \A t \in Sources : Streaming(t) BY <1>1 DEF FileInv
<1>3. /\ i = temporary[p] /\ i \in Inodes /\ i # NoFile
      /\ inodes[i] = [size |-> at[s], right |-> 0 .. at[s] - 1]
  BY <1>1, <1>2, CacheAssumption DEF Streaming, NoFile
<1>4. /\ published' = published /\ temporary' = temporary /\ raster' = raster /\ pc' = pc
      /\ stream' = stream /\ memory' = memory /\ outcome' = outcome
      /\ at' = [at EXCEPT ![s] = at[s] + 1]
  BY DEF WriteBlock
<1>5. inodes' = [inodes EXCEPT ![i] = [size |-> at[s] + 1, right |-> 0 .. at[s]]]
  <2>1. (IF inodes[i].size <= at[s] THEN at[s] + 1 ELSE inodes[i].size) = at[s] + 1 BY <1>1, <1>3
  <2>2. inodes[i].right \cup {at[s]} = 0 .. at[s] BY <1>1, <1>3
  <2> QED BY <2>1, <2>2 DEF WriteBlock
<1> HIDE DEF i, p
<1>6. \A q \in Paths : published[q] # i BY <1>1, <1>2, <1>3 DEF FilesApart
<1>7. \A q \in Paths \ {p} : temporary[q] # i BY <1>1, <1>2, <1>3 DEF FilesApart
<1>8. \A j \in Inodes \ {i} : inodes'[j] = inodes[j] BY <1>5 DEF TypeInv, FilesType
<1>9. FilesApart' BY <1>2, <1>4, <1>6, <1>8 DEF FilesApart, Whole
<1>10. Exclusive' BY <1>2, <1>4 DEF Exclusive, Writing, Path
<1>11. \A t \in Sources : Path(t)' = Path(t) BY <1>4 DEF Path
<1>12. Streaming(s)'
  <2>1. at'[s] = at[s] + 1 /\ at'[s] <= Chunks + 1 /\ at'[s] - 1 = at[s]
    BY <1>1, <1>4, ChunksType DEF TypeInv, PlaceType
  <2>2. inodes'[i] = [size |-> at[s] + 1, right |-> 0 .. at[s]] BY <1>3, <1>5 DEF TypeInv, FilesType
  <2>3. stream'[s] = i /\ temporary'[Path(s)'] = i BY <1>3, <1>4, <1>11 DEF i, p
  <2>4. outcome[s] \notin {"rejected", "unpublished"} BY <1>2 DEF Streaming
  <2> QED BY <1>1, <1>3, <1>4, <2>1, <2>2, <2>3, <2>4 DEF Streaming
<1>13. ASSUME NEW t \in Sources \ {s} PROVE Streaming(t)'
  <2>1. at'[t] = at[t] /\ Path(t)' = Path(t) BY <1>4, <1>11 DEF TypeInv, PlaceType
  <2>2. Streaming(t) BY <1>2
  <2>3. Working(t) => Path(t) \in Paths BY PathType DEF TypeInv, Placed
  <2>4. pc[t] \in {"write", "publish"} => Path(t) # p BY <1>1, <1>2 DEF Exclusive, Writing, p
  <2>5. pc[t] \in {"header", "load"} => stream[t] # i BY <1>1, <1>3, <2>2 DEF Streaming
  <2>6. pc[t] \in {"write", "publish"} => temporary[Path(t)] # i
    BY <1>7, <2>3, <2>4 DEF Working
  <2>7. (pc[t] \in {"header", "load"} => Whole(stream[t]) /\ \A q \in Paths : temporary[q] # stream[t])'
    BY <1>4, <1>8, <2>2, <2>5 DEF Streaming, Whole
  <2>8. (pc[t] = "write" =>
           /\ stream[t] = temporary[Path(t)] /\ stream[t] \in Inodes /\ at[t] <= Chunks + 1
           /\ inodes[stream[t]] = [size |-> at[t], right |-> 0 .. at[t] - 1])'
    BY <1>4, <1>8, <2>1, <2>2, <2>6 DEF Streaming
  <2>9. (pc[t] = "publish" => Whole(temporary[Path(t)]))'
    BY <1>4, <1>8, <2>1, <2>2, <2>6 DEF Streaming, Whole
  <2> QED BY <1>4, <2>1, <2>2, <2>7, <2>8, <2>9 DEF Streaming
<1> QED BY <1>9, <1>10, <1>12, <1>13

LEMMA PublishInvariant ==
  ASSUME TypeInv, NEW s \in Sources, Publish(s), FileInv
  PROVE  FileInv'
<1> SUFFICES ASSUME ~disturbed' PROVE (FilesApart /\ Exclusive /\ \A t \in Sources : Streaming(t))'
  BY DEF FileInv
<1> DEFINE p == Path(s)
           i == temporary[p]
<1>1. ~disturbed /\ pc[s] = "publish" /\ raster[s] \in Rasters(s) /\ p \in Paths
  BY PathType DEF Publish, TypeInv, Placed, Working
<1>2. FilesApart /\ Exclusive /\ \A t \in Sources : Streaming(t) BY <1>1 DEF FileInv
<1>3. Whole(i) /\ i # NoFile BY ZenonT(60), <1>1, <1>2, CacheAssumption DEF Streaming, Whole, NoFile
<1>4. /\ published' = [published EXCEPT ![p] = i] /\ temporary' = [temporary EXCEPT ![p] = NoFile]
      /\ pc' = [pc EXCEPT ![s] = "next"] /\ raster' = [raster EXCEPT ![s] = @ + 1]
      /\ inodes' = inodes /\ stream' = stream /\ memory' = memory /\ outcome' = outcome /\ at' = at
  BY <1>3 DEF Publish, Advance, Goto
<1>5. /\ published'[p] = i /\ \A q \in Paths \ {p} : published'[q] = published[q]
      /\ temporary'[p] = NoFile /\ \A q \in Paths \ {p} : temporary'[q] = temporary[q]
  BY <1>1, <1>4 DEF TypeInv, FilesType
<1>6. \A q \in Paths \ {p} : temporary[q] # i BY <1>1, <1>2, <1>3 DEF FilesApart
<1>7. \A t \in Sources \ {s} : pc'[t] = pc[t] /\ raster'[t] = raster[t] /\ Path(t)' = Path(t)
  BY <1>4 DEF TypeInv, PlaceType, Path
<1>8. pc'[s] = "next" /\ outcome'[s] \notin {"rejected", "unpublished"}
  BY <1>2, <1>4 DEF TypeInv, PlaceType, Streaming
<1> HIDE DEF p, i
<1>9. FilesApart'
  BY <1>2, <1>3, <1>4, <1>5, <1>6 DEF FilesApart, Whole
<1>10. Exclusive' BY <1>2, <1>7, <1>8 DEF Exclusive, Writing
<1>11. Streaming(s)' BY <1>8 DEF Streaming
<1>12. ASSUME NEW t \in Sources \ {s} PROVE Streaming(t)'
  <2>1. Streaming(t) BY <1>2
  <2>2. Working(t) => Path(t) \in Paths BY PathType DEF TypeInv, Placed
  <2>3. pc[t] \in {"write", "publish"} => Path(t) # p BY <1>1, <1>2 DEF Exclusive, Writing, p
  <2>4. (pc[t] = "open" => published[Path(t)] # NoFile)'
    BY <1>3, <1>5, <1>7, <2>1, <2>2 DEF Streaming, Working
  <2>5. (pc[t] \in {"header", "load"} => Whole(stream[t]) /\ \A q \in Paths : temporary[q] # stream[t])'
    <3> SUFFICES ASSUME pc[t] \in {"header", "load"}
                 PROVE  Whole(stream[t]) /\ \A q \in Paths : temporary'[q] # stream[t]
      BY <1>4, <1>7 DEF Whole
    <3>1. Whole(stream[t]) /\ \A q \in Paths : temporary[q] # stream[t] BY <2>1 DEF Streaming
    <3>2. stream[t] # NoFile BY <3>1, CacheAssumption DEF Whole, NoFile
    <3> QED BY <1>5, <3>1, <3>2
  <2>6. pc[t] \in {"write", "publish"} => temporary'[Path(t)] = temporary[Path(t)]
    BY <1>5, <2>2, <2>3 DEF Working
  <2> QED BY <1>4, <1>7, <2>1, <2>4, <2>5, <2>6 DEF Streaming, Whole
<1> QED BY <1>9, <1>10, <1>11, <1>12

LEMMA DiscardInvariant ==
  ASSUME TypeInv, NEW s \in Sources, Discard(s), FileInv
  PROVE  FileInv'
<1> SUFFICES ASSUME ~disturbed' PROVE (FilesApart /\ Exclusive /\ \A t \in Sources : Streaming(t))'
  BY DEF FileInv
<1> DEFINE p == Path(s)
           i == temporary[p]
<1>1. ~disturbed /\ pc[s] = "discard" /\ raster[s] \in Rasters(s) /\ p \in Paths
  BY PathType DEF Discard, TypeInv, Placed, Working
<1>2. FilesApart /\ Exclusive /\ \A t \in Sources : Streaming(t) BY <1>1 DEF FileInv
<1>3. /\ temporary' = [temporary EXCEPT ![p] = NoFile] /\ published' = published
      /\ pc' = [pc EXCEPT ![s] = "idle"] /\ raster' = raster /\ stream' = stream
      /\ memory' = memory /\ outcome' = outcome /\ at' = at
  BY DEF Discard, Goto
<1>4. \A j \in Inodes : j # i => inodes'[j] = inodes[j] BY DEF Discard
<1>5. temporary'[p] = NoFile /\ \A q \in Paths \ {p} : temporary'[q] = temporary[q]
  BY <1>1, <1>3 DEF TypeInv, FilesType
<1>6. \A q \in Paths : published[q] # NoFile => published[q] # i
  BY <1>1, <1>2 DEF FilesApart
<1>7. \A t \in Sources : Path(t)' = Path(t) /\ (t # s => pc'[t] = pc[t])
  BY <1>3 DEF TypeInv, PlaceType, Path
<1>8. pc'[s] = "idle" BY <1>3 DEF TypeInv, PlaceType
<1>9. i # NoFile => \A q \in Paths \ {p} : temporary[q] # i BY <1>1, <1>2 DEF FilesApart
<1> HIDE DEF p, i
<1>10. FilesApart'
  BY <1>2, <1>3, <1>4, <1>5, <1>6 DEF FilesApart, Whole
<1>11. Exclusive' BY <1>2, <1>7, <1>8 DEF Exclusive, Writing
<1>12. Streaming(s)' BY <1>2, <1>3, <1>8 DEF Streaming
<1>13. ASSUME NEW t \in Sources \ {s} PROVE Streaming(t)'
  <2>1. Streaming(t) BY <1>2
  <2>2. Working(t) => Path(t) \in Paths BY PathType DEF TypeInv, Placed
  <2>3. pc[t] \in {"write", "publish"} => Path(t) # p BY <1>1, <1>2 DEF Exclusive, Writing, p
  <2>4. (pc[t] \in {"header", "load"} => Whole(stream[t]) /\ \A q \in Paths : temporary[q] # stream[t])'
    <3> SUFFICES ASSUME pc[t] \in {"header", "load"}
                 PROVE  Whole(stream[t])' /\ \A q \in Paths : temporary'[q] # stream[t]
      BY <1>3, <1>7
    <3>1. Whole(stream[t]) /\ \A q \in Paths : temporary[q] # stream[t] BY <2>1 DEF Streaming
    <3>2. stream[t] # NoFile /\ stream[t] # i BY <1>1, <3>1, CacheAssumption DEF Whole, NoFile, i
    <3> QED BY <1>3, <1>4, <1>5, <3>1, <3>2 DEF Whole
  <2>5. pc[t] \in {"write", "publish"} =>
          /\ temporary'[Path(t)] = temporary[Path(t)]
          /\ temporary[Path(t)] \in Inodes => inodes'[temporary[Path(t)]] = inodes[temporary[Path(t)]]
    <3> SUFFICES ASSUME pc[t] \in {"write", "publish"}, temporary[Path(t)] \in Inodes
                 PROVE  temporary[Path(t)] # i
      BY <1>4, <1>5, <2>2, <2>3 DEF Working
    <3>1. temporary[Path(t)] # NoFile BY CacheAssumption DEF NoFile
    <3> QED BY <1>9, <2>2, <2>3, <3>1 DEF Working
  <2> QED BY <1>3, <1>7, <2>1, <2>4, <2>5 DEF Streaming, Whole
<1> QED BY <1>10, <1>11, <1>12, <1>13

LEMMA FileStep ==
  ASSUME TypeInv, NEW s \in Sources, SourceStep(s), FileInv, \A t \in Sources : Decoded(t)
  PROVE  FileInv'
BY SourceSteps, QuietInvariant, CreateInvariant, WriteInvariant, PublishInvariant, DiscardInvariant

LEMMA FileStop ==
  ASSUME TypeInv, Stop, FileInv
  PROVE  FileInv'
<1>1. CASE MachineStop BY <1>1 DEF MachineStop, FileInv
<1>2. CASE \E s \in Sources : Kill(ProcessOf[s])
  <2> SUFFICES ASSUME ~disturbed' PROVE (FilesApart /\ Exclusive /\ \A t \in Sources : Streaming(t))'
    BY DEF FileInv
  <2>1. PICK gone \in SUBSET Sources : Restarted(gone) /\ UNCHANGED <<inodes, disturbed>>
    BY <1>2 DEF Kill
  <2>2. FilesApart /\ Exclusive /\ \A t \in Sources : Streaming(t) BY <2>1 DEF FileInv
  <2>3. inodes' = inodes /\ published' = published /\ temporary' = temporary BY <2>1 DEF Restarted
  <2>4. \A t \in gone : pc'[t] = "idle" /\ outcome'[t] = "none" BY <2>1 DEF Restarted
  <2>5. \A t \in Sources \ gone :
          /\ pc'[t] = pc[t] /\ raster'[t] = raster[t] /\ stream'[t] = stream[t] /\ at'[t] = at[t]
          /\ memory'[t] = memory[t] /\ outcome'[t] = outcome[t]
    BY <2>1 DEF Restarted
  <2>6. FilesApart' BY <2>2, <2>3 DEF FilesApart, Whole
  <2>7. Exclusive' BY <2>2, <2>4, <2>5 DEF Exclusive, Writing, Path
  <2>8. ASSUME NEW t \in gone PROVE Streaming(t)' BY <2>4 DEF Streaming
  <2>9. ASSUME NEW t \in Sources \ gone PROVE Streaming(t)'
    BY <2>2, <2>3, <2>5 DEF Streaming, Whole, Path
  <2> QED BY <2>6, <2>7, <2>8, <2>9
<1> QED BY <1>1, <1>2 DEF Stop

-----------------------------------------------------------------------------
(* Sources that are opened *)

\* All rasters before the one it is at were decoded, and none behind it.
Midway(s) ==
  /\ attempted[s] = {r \in Rasters(s) : r < raster[s] \/ (r = raster[s] /\ pc[s] # "next")}
  /\ \A r \in Rasters(s) : r < raster[s] => memory[s][r] = Blocks

\* Every raster was decoded.
DecodedAll(s) ==
  /\ attempted[s] = Rasters(s)
  /\ \A r \in Rasters(s) : memory[s][r] = Blocks

Broken == {"unpublished", "failed", "cancelled"}

\* A source that is not open has decoded up to where it is, and nothing before it
\* begins; a broken attempt is not repeated.
Opening(s) ==
  /\ pc[s] = "discard" => outcome[s] \in Broken
  /\ ~opened[s] /\ pc[s] = "idle" /\ outcome[s] = "none" => attempted[s] = {}
  /\ ~opened[s] /\ pc[s] \notin {"idle", "discard"} => Midway(s)
  /\ concurrent[s] => opened[s] /\ pc[s] \in {"idle", "next"} /\ DecodedAll(s)

LEMMA DiscardReached ==
  ASSUME TypeInv, NEW s \in Sources, SourceStep(s), pc'[s] = "discard"
  PROVE  outcome'[s] \in Broken
<1> USE DEF TypeInv, PlaceType, Goto, End, Advance, Broken
<1>1. CASE Begin(s) \/ Stumble(s) \/ AllRastersDone(s) BY <1>1 DEF Begin, Stumble, AllRastersDone
<1>2. CASE SkipRaster(s) \/ AttemptRaster(s) BY <1>2 DEF SkipRaster, AttemptRaster
<1>3. CASE Decode(s) \/ HashSamples(s) BY <1>3 DEF Decode, HashSamples
<1>4. CASE OpenCache(s) \/ ReadHeader(s) BY <1>4 DEF OpenCache, ReadHeader
<1>5. CASE ReadChunk(s) \/ FinishLoad(s) BY <1>5 DEF ReadChunk, FinishLoad
<1>6. CASE CreateTemporary(s) \/ WriteBlock(s) \/ CloseTemporary(s)
  BY <1>6 DEF CreateTemporary, WriteBlock, CloseTemporary
<1>7. CASE Publish(s) \/ Discard(s) BY <1>7 DEF Publish, Discard
<1>8. CASE Cancel(s) \/ Fail(s) BY <1>8 DEF Cancel, Fail, GiveUp
<1> QED BY <1>1, <1>2, <1>3, <1>4, <1>5, <1>6, <1>7, <1>8 DEF SourceStep, Progress, Interrupt

\* Decoding goes on, or ends with an answer; it is ready when all are decoded.
LEMMA MidwayStep ==
  ASSUME TypeInv, NEW s \in Sources, Decoded(s), Midway(s), pc[s] \notin {"idle", "discard"},
         Progress(s) \/ Interrupt(s)
  PROVE  /\ pc'[s] \notin {"idle", "discard"} => Midway(s)'
         /\ pc'[s] = "idle" => outcome'[s] # "none" /\ (outcome'[s] = "ready" => DecodedAll(s)')
<1> USE DEF TypeInv, PlaceType, Goto, End, Advance, Close
<1>0. raster[s] \in Nat \ {0} /\ Rasters(s) \subseteq Nat \ {0} BY CacheAssumption
<1>1. CASE AllRastersDone(s)
  <2>1. \A r \in Rasters(s) : r < raster[s]
    BY <1>0, <1>1, CacheAssumption DEF AllRastersDone
  <2>2. DecodedAll(s)' BY <1>1, <2>1 DEF AllRastersDone, Midway, DecodedAll
  <2> QED BY <1>1, <2>2 DEF AllRastersDone
<1>2. CASE SkipRaster(s) BY <1>0, <1>2 DEF SkipRaster, Midway
<1>3. CASE AttemptRaster(s)
  <2>1. /\ attempted'[s] = attempted[s] \cup {raster[s]} /\ raster' = raster /\ memory' = memory
        /\ pc'[s] \in {"open", "decode"} /\ raster[s] \in Rasters(s) /\ pc[s] = "next"
    BY <1>3 DEF AttemptRaster, AttemptType
  <2> QED BY <2>1 DEF Midway
<1>4. ASSUME raster'[s] = raster[s] + 1, pc'[s] = "next", pc[s] # "next", attempted' = attempted,
             \A r \in Rasters(s) : memory'[s][r] = memory[s][r] \/ r = raster[s],
             raster[s] \in Rasters(s) => memory'[s][raster[s]] = Blocks
      PROVE  Midway(s)'
  <2>1. \A r \in Rasters(s) : r < raster[s] + 1 <=> r < raster[s] \/ r = raster[s] BY <1>0
  <2> QED BY <1>4, <2>1 DEF Midway
<1>5. ASSUME raster'[s] = raster[s], pc'[s] # "next", pc[s] # "next", attempted' = attempted,
             \A r \in Rasters(s) : memory'[s][r] = memory[s][r] \/ r = raster[s]
      PROVE  Midway(s)'
  BY <1>0, <1>5 DEF Midway
<1>6. CASE Decode(s)
  <2>1. raster[s] \in Rasters(s) /\ Hold(s, Blocks) /\ attempted' = attempted /\ pc[s] = "decode"
    BY <1>6 DEF Decode, Placed, Working
  <2>2. \A r \in Rasters(s) : memory'[s][r] = IF r = raster[s] THEN Blocks ELSE memory[s][r]
    BY <2>1, HoldEffect
  <2>3. \/ pc'[s] = "hash" /\ raster'[s] = raster[s]
        \/ pc'[s] = "next" /\ raster'[s] = raster[s] + 1
    BY <1>6 DEF Decode
  <2> QED BY <1>4, <1>5, <2>1, <2>2, <2>3
<1>7. CASE OpenCache(s) BY <1>5, <1>7 DEF OpenCache
<1>8. CASE ReadHeader(s)
  <2>1. raster[s] \in Rasters(s) /\ pc[s] = "header" BY <1>8 DEF ReadHeader, Placed, Working
  <2>2. \A r \in Rasters(s) : memory'[s][r] = memory[s][r] \/ r = raster[s]
    BY <1>8, <2>1, HoldEffect, CacheAssumption DEF ReadHeader, Blocks
  <2> QED BY <1>5, <1>8, <2>1, <2>2 DEF ReadHeader
<1>9. CASE ReadChunk(s)
  <2>1. raster[s] \in Rasters(s) /\ pc[s] = "load" BY <1>9 DEF ReadChunk, Placed, Working
  <2>2. memory[s][raster[s]] \cup (inodes[stream[s]].right \cap {at[s]}) \subseteq Blocks
    BY <1>9, <2>1 DEF ReadChunk, MemoryType, Blocks
  <2>3. \A r \in Rasters(s) : memory'[s][r] = memory[s][r] \/ r = raster[s]
    BY <1>9, <2>1, <2>2, HoldEffect DEF ReadChunk
  <2> QED BY <1>5, <1>9, <2>1, <2>3 DEF ReadChunk
<1>10. CASE FinishLoad(s)
  <2>1. CASE memory[s][raster[s]] = Blocks BY <1>4, <1>10, <2>1 DEF FinishLoad
  <2>2. CASE memory[s][raster[s]] # Blocks BY <1>10, <2>2 DEF FinishLoad
  <2> QED BY <2>1, <2>2
<1>11. CASE HashSamples(s) \/ CreateTemporary(s) BY <1>5, <1>11 DEF HashSamples, CreateTemporary
<1>12. CASE WriteBlock(s) \/ CloseTemporary(s) BY <1>5, <1>12 DEF WriteBlock, CloseTemporary
<1>13. CASE Publish(s) BY <1>4, <1>13 DEF Publish, Decoded
<1>14. CASE Discard(s) BY <1>14 DEF Discard
<1>15. CASE Cancel(s) \/ Fail(s) BY <1>15 DEF Cancel, Fail, GiveUp
<1> QED BY <1>1, <1>2, <1>3, <1>6, <1>7, <1>8, <1>9, <1>10, <1>11, <1>12, <1>13, <1>14, <1>15
        DEF Progress, Interrupt

\* Once everything is decoded, a source only looks, and holds on to it.
LEMMA DecodedAllStays ==
  ASSUME TypeInv, NEW s \in Sources, DecodedAll(s), pc[s] \in {"idle", "next"}, SourceStep(s)
  PROVE  DecodedAll(s)' /\ pc'[s] \in {"idle", "next"}
<1> USE DEF TypeInv, PlaceType, DecodedAll, Goto, End, Advance
<1>1. CASE Begin(s) \/ Stumble(s) \/ AllRastersDone(s) BY <1>1 DEF Begin, Stumble, AllRastersDone
<1>2. CASE SkipRaster(s) \/ AttemptRaster(s) BY <1>2 DEF SkipRaster, AttemptRaster
<1>3. CASE Cancel(s) BY <1>3 DEF Cancel, GiveUp
<1> QED BY <1>1, <1>2, <1>3 DEF SourceStep, Progress, Interrupt, Decode, OpenCache, ReadHeader, ReadChunk,
  FinishLoad, HashSamples, CreateTemporary, WriteBlock, CloseTemporary, Publish, Discard, Fail

-----------------------------------------------------------------------------
(* The invariant *)

IInv ==
  /\ scene \in Scenes
  /\ opened \in [Sources -> BOOLEAN] /\ concurrent \in [Sources -> BOOLEAN]
  /\ TypeInv /\ FileInv
  /\ \A s \in Sources : Decoded(s) /\ Opening(s)

LEMMA InitInvariant == Init => IInv
<1> SUFFICES ASSUME Init PROVE IInv
  OBVIOUS
<1> USE DEF Init, CacheInit
<1>1. FilesType BY DEF FilesType, Blank
<1>2. PlaceType BY DEF PlaceType, Labels, Outcomes
<1>3. MemoryType BY DEF MemoryType
<1>4. AttemptType BY DEF AttemptType
<1>5. Placed BY DEF Placed, Working
<1>6. FileInv BY DEF FileInv, FilesApart, Exclusive, Writing, Streaming
<1>7. \A s \in Sources : Decoded(s) /\ Opening(s) BY DEF Decoded, Opening
<1> QED BY <1>1, <1>2, <1>3, <1>4, <1>5, <1>6, <1>7 DEF IInv, TypeInv

\* When a source steps and another one looks on.
LEMMA OthersOpening ==
  ASSUME IInv, NEW s \in Sources, SourceStep(s), NEW t \in Sources \ {s},
         opened'[t] = opened[t], concurrent'[t] = concurrent[t]
  PROVE  Opening(t)'
<1>1. /\ pc'[t] = pc[t] /\ raster'[t] = raster[t] /\ memory'[t] = memory[t]
      /\ outcome'[t] = outcome[t] /\ attempted'[t] = attempted[t]
  BY OthersStay DEF IInv
<1> QED BY <1>1 DEF IInv, Opening, Midway, DecodedAll

LEMMA BeginOpening ==
  ASSUME IInv, NEW s \in Sources, Begin(s), UNCHANGED <<opened, concurrent>>,
         opened[s] \/ outcome[s] = "none"
  PROVE  Opening(s)'
<1>1. Opening(s) /\ TypeInv BY DEF IInv
<1>2. /\ pc[s] = "idle" /\ pc'[s] = "next" /\ raster'[s] = 1 /\ memory' = memory /\ attempted' = attempted
  BY <1>1 DEF Begin, Goto, TypeInv, PlaceType
<1>3. CASE opened[s] BY <1>1, <1>2, <1>3 DEF Opening, DecodedAll
<1>4. CASE ~opened[s]
  <2>1. attempted[s] = {} /\ ~concurrent[s] BY <1>1, <1>2, <1>4 DEF Opening
  <2>2. \A r \in Rasters(s) : ~(r < 1) BY CacheAssumption
  <2>3. Midway(s)' BY <1>2, <2>1, <2>2 DEF Midway
  <2> QED BY <1>2, <1>4, <2>1, <2>3 DEF Opening
<1> QED BY <1>3, <1>4

LEMMA FillOpening ==
  ASSUME IInv, NEW s \in Sources, FillStep(s)
  PROVE  Opening(s)' /\ \A t \in Sources \ {s} : opened'[t] = opened[t] /\ concurrent'[t] = concurrent[t]
<1>1. TypeInv /\ Decoded(s) /\ Opening(s) BY DEF IInv
<1>2. SourceStep(s) BY DEF FillStep, SourceStep, Stumble, AtElevations
<1>3. pc'[s] = "discard" => outcome'[s] \in Broken BY <1>1, <1>2, DiscardReached
<1>4. CASE opened[s]
  <2>1. UNCHANGED <<opened, concurrent>> BY <1>4 DEF FillStep, Ended
  <2>2. concurrent[s] => DecodedAll(s)' /\ pc'[s] \in {"idle", "next"}
    BY <1>1, <1>2, DecodedAllStays DEF Opening
  <2> QED BY <1>3, <1>4, <2>1, <2>2 DEF Opening
<1>5. CASE ~opened[s]
  <2>1. Progress(s) \/ Interrupt(s) BY <1>5 DEF FillStep, AtElevations
  <2>2. pc[s] # "idle"
    BY <2>1 DEF Progress, Interrupt, AllRastersDone, SkipRaster, AttemptRaster, Decode, OpenCache, ReadHeader,
      ReadChunk, FinishLoad, HashSamples, CreateTemporary, WriteBlock, CloseTemporary, Publish, Discard,
      Cancel, Fail
  <2>3. ~concurrent[s] BY <1>1, <1>5 DEF Opening
  <2>4. CASE pc'[s] # "idle"
    <3>1. UNCHANGED <<opened, concurrent>> BY <2>4 DEF FillStep
    <3>2. pc[s] # "discard"
      BY <2>1, <2>4 DEF Progress, Interrupt, AllRastersDone, SkipRaster, AttemptRaster, Decode, OpenCache,
        ReadHeader, ReadChunk, FinishLoad, HashSamples, CreateTemporary, WriteBlock, CloseTemporary, Publish,
        Discard, Goto, Cancel, Fail, IInv, TypeInv, PlaceType
    <3>3. Midway(s) BY <1>1, <1>5, <2>2, <3>2 DEF Opening
    <3>4. pc'[s] # "discard" => Midway(s)' BY <1>1, <2>1, <2>2, <2>4, <3>2, <3>3, MidwayStep
    <3> QED BY <1>3, <1>5, <2>3, <2>4, <3>1, <3>4 DEF Opening
  <2>5. CASE pc'[s] = "idle"
    <3>1. /\ opened' = [opened EXCEPT ![s] = (outcome'[s] = "ready")]
          /\ concurrent' = [concurrent EXCEPT ![s] = (outcome'[s] = "ready")]
      BY <1>5, <2>5 DEF FillStep, Ended
    <3>2. /\ opened'[s] = (outcome'[s] = "ready") /\ concurrent'[s] = (outcome'[s] = "ready")
          /\ \A t \in Sources \ {s} : opened'[t] = opened[t] /\ concurrent'[t] = concurrent[t]
      BY <3>1 DEF IInv
    <3>3. outcome'[s] # "none" /\ (outcome'[s] = "ready" => DecodedAll(s)')
      <4>1. CASE pc[s] = "discard"
        <5>1. outcome' = outcome
          BY <2>1, <4>1 DEF Progress, Interrupt, AllRastersDone, SkipRaster, AttemptRaster, Decode, OpenCache,
            ReadHeader, ReadChunk, FinishLoad, HashSamples, CreateTemporary, WriteBlock, CloseTemporary,
            Publish, Discard, Cancel, Fail
        <5> QED BY <1>1, <4>1, <5>1 DEF Opening, Broken
      <4>2. CASE pc[s] # "discard"
        BY <1>1, <1>5, <2>1, <2>2, <2>5, <4>2, MidwayStep DEF Opening
      <4> QED BY <4>1, <4>2
    <3> QED BY <2>5, <3>2, <3>3 DEF Opening
  <2> QED BY <2>4, <2>5
<1> QED BY <1>4, <1>5

LEMMA StopOpening ==
  ASSUME IInv, StopBuild, NEW t \in Sources
  PROVE  Opening(t)' /\ opened' \in [Sources -> BOOLEAN] /\ concurrent' \in [Sources -> BOOLEAN]
<1>1. PICK gone \in SUBSET Sources : Restarted(gone) /\ Forget(gone)
  <2>1. Users \subseteq Sources BY TileAssumption DEF Users, IInv
  <2> QED BY <2>1 DEF StopBuild, MachineStop, Kill
<1>2. CASE t \in gone
  <2>1. pc'[t] = "idle" /\ attempted'[t] = {} /\ ~concurrent'[t] BY <1>1, <1>2 DEF Restarted, Forget
  <2> QED BY <1>1, <2>1 DEF Opening, Forget
<1>3. CASE t \notin gone
  <2>1. /\ pc'[t] = pc[t] /\ raster'[t] = raster[t] /\ memory'[t] = memory[t]
        /\ outcome'[t] = outcome[t] /\ attempted'[t] = attempted[t]
        /\ opened'[t] = opened[t] /\ concurrent'[t] = concurrent[t]
    BY <1>1, <1>3 DEF Restarted, Forget, IInv
  <2> QED BY <1>1, <2>1 DEF IInv, Opening, Midway, DecodedAll, Forget
<1> QED BY <1>2, <1>3

LEMMA CacheInvariant ==
  ASSUME IInv, Next \/ UNCHANGED vars
  PROVE  (TypeInv /\ FileInv /\ \A s \in Sources : Decoded(s))'
<1> USE DEF IInv
<1>1. CASE Next /\ Stop BY <1>1, TypeStop, FileStop, DecodedStop
<1>2. CASE \E s \in Sources : SourceStep(s) BY <1>2, TypeStep, FileStep, DecodedStep
<1>3. CASE UNCHANGED cacheVars
  <2>1. TypeInv' BY <1>3 DEF cacheVars, files, TypeInv, FilesType, PlaceType, MemoryType, AttemptType, Placed, Working
  <2>2. FileInv' BY <1>3 DEF cacheVars, files, FileInv, FilesApart, Whole, Exclusive, Writing, Path, Streaming
  <2>3. \A s \in Sources : Decoded(s)' BY <1>3 DEF cacheVars, Decoded
  <2> QED BY <2>1, <2>2, <2>3
<1> QED BY <1>1, <1>2, <1>3, CacheSteps DEF vars

LEMMA OpeningInvariant ==
  ASSUME IInv, Next \/ UNCHANGED vars
  PROVE  /\ opened' \in [Sources -> BOOLEAN] /\ concurrent' \in [Sources -> BOOLEAN]
         /\ \A s \in Sources : Opening(s)'
<1>0. Users \subseteq Sources BY TileAssumption DEF Users, IInv
<1>1. CASE UNCHANGED <<cacheVars, opened, concurrent>>
  BY <1>1 DEF IInv, cacheVars, Opening, Midway, DecodedAll
<1>2. ASSUME NEW s \in Sources, Begin(s), UNCHANGED <<opened, concurrent>>, opened[s] \/ outcome[s] = "none"
      PROVE  \A t \in Sources : Opening(t)'
  BY <1>2, BeginOpening, OthersOpening DEF SourceStep
<1>3. ASSUME NEW s \in Users, OpenSource(s)
      PROVE  /\ opened' \in [Sources -> BOOLEAN] /\ concurrent' \in [Sources -> BOOLEAN]
             /\ \A t \in Sources : Opening(t)'
  <2>1. CASE Begin(s) /\ UNCHANGED opened BY <1>0, <1>2, <1>3, <2>1 DEF OpenSource, IInv
  <2>2. CASE opened' = [opened EXCEPT ![s] = TRUE] /\ UNCHANGED cacheVars
    <3>1. concurrent' = concurrent /\ pc[s] = "idle" BY <1>3 DEF OpenSource
    <3> QED BY <1>0, <2>2, <3>1 DEF IInv, cacheVars, Opening, Midway, DecodedAll
  <2> QED BY <1>3, <2>1, <2>2 DEF OpenSource
<1>4. ASSUME NEW s \in Users, NEW tile \in scene.tiles, SampleInBulk(s, tile)
      PROVE  UNCHANGED <<cacheVars, opened, concurrent>>
  BY <1>4 DEF SampleInBulk
<1>5. ASSUME NEW s \in Users, NEW tile \in scene.tiles, SampleSingly(s, tile)
      PROVE  UNCHANGED <<opened, concurrent>> /\ \A t \in Sources : Opening(t)'
  BY <1>0, <1>2, <1>5 DEF SampleSingly, CanBeAsked
<1>6. ASSUME NEW s \in Users, FillStep(s)
      PROVE  /\ opened' \in [Sources -> BOOLEAN] /\ concurrent' \in [Sources -> BOOLEAN]
             /\ \A t \in Sources : Opening(t)'
  <2>1. SourceStep(s) /\ s \in Sources BY <1>0, <1>6 DEF FillStep, SourceStep, Stumble, AtElevations
  <2>2. \A t \in Sources : Opening(t)' BY <1>6, <2>1, FillOpening, OthersOpening
  <2>3. opened' \in [Sources -> BOOLEAN] /\ concurrent' \in [Sources -> BOOLEAN]
    BY <1>6 DEF FillStep, Ended, IInv
  <2> QED BY <2>2, <2>3
<1>7. ASSUME NEW tile \in scene.tiles, CollectSource(tile) \/ FuseTile(tile)
      PROVE  UNCHANGED <<cacheVars, opened, concurrent>>
  BY <1>7 DEF CollectSource, FuseTile
<1>8. CASE StopBuild
  <2>1. PICK gone : Forget(gone) BY <1>8 DEF StopBuild
  <2>2. opened' \in [Sources -> BOOLEAN] /\ concurrent' \in [Sources -> BOOLEAN]
    BY <2>1 DEF Forget, IInv
  <2> QED BY <1>8, <2>2, StopOpening
<1>9. UNCHANGED vars => UNCHANGED <<cacheVars, opened, concurrent>> BY DEF vars, tileVars
<1> QED BY <1>1, <1>3, <1>4, <1>5, <1>6, <1>7, <1>8, <1>9 DEF Next, IInv

LEMMA SceneStays ==
  ASSUME Next \/ UNCHANGED vars
  PROVE  scene' = scene
BY DEF Next, vars, tileVars, OpenSource, FillStep, SampleInBulk, SampleSingly, CollectSource, FuseTile,
  StopBuild, Forget

\* The invariant holds in every state.
THEOREM Invariance == Spec => []IInv
<1>1. IInv /\ [Next]_vars => IInv'
  BY CacheInvariant, OpeningInvariant, SceneStays DEF IInv
<1> QED BY <1>1, InitInvariant, PTL DEF Spec

\* Samples that stay in memory are what decoding gives, however often loading and
\* writing files was interrupted (load_decoded_cache).
THEOREM SamplesAlwaysDecoded == Spec => []SamplesAreDecoded
<1>1. IInv => SamplesAreDecoded BY DEF IInv, Decoded, SamplesAreDecoded
<1> QED BY <1>1, Invariance, PTL

\* Unless two writers met at a temporary name or the machine stopped, a file that
\* was published loads (persist_decoded_cache).
THEOREM CacheLoadsUndisturbed == Spec => []UndisturbedCacheLoads
<1>1. IInv => UndisturbedCacheLoads
  BY DEF IInv, FileInv, FilesApart, Whole, Intact, Streaming, UndisturbedCacheLoads
<1> QED BY <1>1, Invariance, PTL

\* Workers that sample a source without its lock never write its samples
\* (GdalRasterSource::Open, GdalRasterSource::SampleBatch).
THEOREM UnlockedIsReadOnly == Spec => []UnlockedNeverFills
<1>1. IInv => UnlockedNeverFills
  BY TileAssumption DEF IInv, Opening, DecodedAll, UnlockedNeverFills, Users
<1> QED BY <1>1, Invariance, PTL

-----------------------------------------------------------------------------
(* Numbers. Induction is stated of sets, because the library states it of    *)
(* operators.                                                                *)

LessNat == {pair \in Nat \X Nat : pair[1] < pair[2]}

LEMMA LeastNatural ==
  ASSUME NEW S \in SUBSET Nat, S # {}
  PROVE  \E m \in S : \A n \in S : m <= n
<1>1. IsWellFoundedOn(LessNat, Nat)
  BY NatLessThanWellFounded, Zenon DEF LessNat, OpToRel
<1>2. PICK m \in S : \A n \in S : ~(<<n, m>> \in LessNat)
  BY <1>1, WFMin
<1>3. \A n \in S : <<n, m>> \in Nat \X Nat /\ <<n, m>>[1] = n /\ <<n, m>>[2] = m
  OBVIOUS
<1>4. \A n \in S : ~(n < m) BY <1>2, <1>3 DEF LessNat
<1> QED BY <1>2, <1>4

LEMMA Induction ==
  ASSUME NEW S \in SUBSET Nat, 0 \in S, \A n \in S : n + 1 \in S
  PROVE  S = Nat
<1> SUFFICES ASSUME Nat \ S # {} PROVE FALSE
  OBVIOUS
<1>1. PICK m \in Nat \ S : \A n \in Nat \ S : m <= n BY LeastNatural
<1>2. m - 1 \in Nat BY <1>1
<1>3. m - 1 \in S BY <1>1, <1>2
<1>4. (m - 1) + 1 = m BY <1>2
<1> QED BY <1>1, <1>3, <1>4

-----------------------------------------------------------------------------
(* Sums. SumFunctionOnSet takes the elements of a set as CHOOSE gives them;  *)
(* the sum is the same in every order.                                       *)

Pick(s) == CHOOSE x \in s : TRUE

AddOne(f, g, s) == IF s = {} THEN 0 ELSE f[Pick(s)] + g[s \ {Pick(s)}]

\* The sums over all subsets.
Sums(f, S, g) == g = [s \in SUBSET S |-> AddOne(f, g, s)]

Small(S, n) == {s \in SUBSET S : Cardinality(s) <= n}

LEMMA PickSmaller ==
  ASSUME NEW S, IsFiniteSet(S), NEW n \in Nat, NEW s \in Small(S, n + 1), s # {}
  PROVE  Pick(s) \in s /\ s \ {Pick(s)} \in Small(S, n)
<1>1. Pick(s) \in s BY DEF Pick
<1>2. IsFiniteSet(s) BY FS_Subset DEF Small
<1>3. Cardinality(s) \in Nat /\ Cardinality(s) <= n + 1 BY <1>2, FS_CardinalityType DEF Small
<1>4. Cardinality(s \ {Pick(s)}) = Cardinality(s) - 1 BY <1>1, <1>2, FS_RemoveElement
<1>5. s \ {Pick(s)} \in SUBSET S BY DEF Small
<1> QED BY <1>1, <1>3, <1>4, <1>5 DEF Small

\* What is shown of all subsets of up to n elements, for every n, holds of all.
LEMMA AllSmall ==
  ASSUME NEW S, IsFiniteSet(S), NEW K \in SUBSET SUBSET S,
         \A n \in Nat : Small(S, n) \subseteq K
  PROVE  K = SUBSET S
<1>1. ASSUME NEW s \in SUBSET S PROVE s \in K
  <2>1. IsFiniteSet(s) BY FS_Subset
  <2>2. Cardinality(s) \in Nat BY <2>1, FS_CardinalityType
  <2>3. s \in Small(S, Cardinality(s)) BY <2>2 DEF Small
  <2> QED BY <2>2, <2>3
<1> QED BY <1>1

\* A set of subsets to which a subset belongs once it does without one element.
LEMMA SubsetInduction ==
  ASSUME NEW S, IsFiniteSet(S), NEW K \in SUBSET SUBSET S, {} \in K,
         \A s \in SUBSET S : s # {} /\ (\A x \in s : s \ {x} \in K) => s \in K
  PROVE  K = SUBSET S
<1> DEFINE N == {n \in Nat : Small(S, n) \subseteq K}
<1>1. 0 \in N
  <2>1. ASSUME NEW s \in Small(S, 0) PROVE s = {}
    <3>1. IsFiniteSet(s) BY FS_Subset DEF Small
    <3>2. Cardinality(s) \in Nat /\ Cardinality(s) <= 0 BY <3>1, FS_CardinalityType DEF Small
    <3>3. Cardinality(s) = 0 BY <3>2
    <3> QED BY <3>1, <3>3, FS_EmptySet
  <2> QED BY <2>1
<1>2. ASSUME NEW n \in N PROVE n + 1 \in N
  <2>0. Small(S, n) \subseteq K /\ n \in Nat /\ n + 1 \in Nat OBVIOUS
  <2> HIDE DEF N
  <2> SUFFICES ASSUME NEW s \in Small(S, n + 1), s # {} PROVE s \in K
    BY <2>0 DEF N
  <2>1. ASSUME NEW x \in s PROVE s \ {x} \in K
    <3>1. IsFiniteSet(s) BY FS_Subset DEF Small
    <3>2. Cardinality(s) \in Nat /\ Cardinality(s) <= n + 1 BY <3>1, FS_CardinalityType DEF Small
    <3>3. Cardinality(s \ {x}) = Cardinality(s) - 1 BY <3>1, FS_RemoveElement
    <3>4. s \ {x} \in Small(S, n) BY <2>0, <3>2, <3>3 DEF Small
    <3> QED BY <2>0, <3>4
  <2>2. s \in SUBSET S BY DEF Small
  <2> QED BY <2>1, <2>2
<1> HIDE DEF N
<1>3. N = Nat
  <2>1. N \in SUBSET Nat BY DEF N
  <2> QED BY <1>1, <1>2, <2>1, Induction
<1>4. \A n \in Nat : Small(S, n) \subseteq K BY <1>3 DEF N
<1> QED BY <1>4, AllSmall

LEMMA SumsExist ==
  ASSUME NEW f, NEW S, IsFiniteSet(S)
  PROVE  \E g : Sums(f, S, g)
<1> DEFINE Known == {n \in Nat : \E g : g = [s \in Small(S, n) |-> AddOne(f, g, s)]}
<1>1. 0 \in Known
  <2> DEFINE g == [s \in Small(S, 0) |-> 0]
  <2>1. \A s \in Small(S, 0) : s = {}
    <3> SUFFICES ASSUME NEW s \in Small(S, 0) PROVE s = {}
      OBVIOUS
    <3>1. IsFiniteSet(s) BY FS_Subset DEF Small
    <3>2. Cardinality(s) \in Nat /\ Cardinality(s) <= 0 BY <3>1, FS_CardinalityType DEF Small
    <3>3. Cardinality(s) = 0 BY <3>2
    <3> QED BY <3>1, <3>3, FS_EmptySet
  <2>2. \A s \in Small(S, 0) : AddOne(f, g, s) = 0 BY <2>1 DEF AddOne
  <2>3. g = [s \in Small(S, 0) |-> AddOne(f, g, s)] BY <2>2
  <2> HIDE DEF g
  <2> QED BY <2>3
<1>2. ASSUME NEW n \in Known PROVE n + 1 \in Known
  <2>1. n \in Nat OBVIOUS
  <2>2. PICK g : g = [s \in Small(S, n) |-> AddOne(f, g, s)] OBVIOUS
  <2> DEFINE h == [s \in Small(S, n + 1) |-> AddOne(f, g, s)]
  <2>3. \A s \in Small(S, n) : s \in Small(S, n + 1) /\ h[s] = g[s]
    <3>1. \A s \in Small(S, n) : s \in Small(S, n + 1)
      <4> SUFFICES ASSUME NEW s \in Small(S, n) PROVE s \in Small(S, n + 1)
        OBVIOUS
      <4>1. IsFiniteSet(s) BY FS_Subset DEF Small
      <4>2. Cardinality(s) \in Nat BY <4>1, FS_CardinalityType
      <4> QED BY <2>1, <4>2 DEF Small
    <3>2. \A s \in Small(S, n) : g[s] = AddOne(f, g, s) BY <2>2
    <3> QED BY <3>1, <3>2
  <2>4. ASSUME NEW s \in Small(S, n + 1) PROVE AddOne(f, g, s) = AddOne(f, h, s)
    <3>1. CASE s = {} BY <3>1 DEF AddOne
    <3>2. CASE s # {}
      <4>1. s \ {Pick(s)} \in Small(S, n) BY <2>1, <3>2, PickSmaller
      <4>2. h[s \ {Pick(s)}] = g[s \ {Pick(s)}] BY <2>3, <4>1
      <4> HIDE DEF h
      <4> QED BY <3>2, <4>2 DEF AddOne
    <3> QED BY <3>1, <3>2
  <2>5. h = [s \in Small(S, n + 1) |-> AddOne(f, h, s)] BY <2>4
  <2> HIDE DEF h
  <2> QED BY <2>1, <2>5
<1> HIDE DEF Known
<1>3. Known = Nat
  <2>1. Known \in SUBSET Nat BY DEF Known
  <2> QED BY <1>1, <1>2, <2>1, Induction
<1>4. Cardinality(S) \in Nat BY FS_CardinalityType
<1>5. Small(S, Cardinality(S)) = SUBSET S
  <2>1. \A s \in SUBSET S : Cardinality(s) <= Cardinality(S) BY FS_Subset
  <2> QED BY <2>1 DEF Small
<1>6. \E g : g = [s \in Small(S, Cardinality(S)) |-> AddOne(f, g, s)]
  <2>1. Cardinality(S) \in Known BY <1>3, <1>4
  <2> QED BY <2>1 DEF Known
<1> QED BY <1>5, <1>6 DEF Sums

LEMMA SumIsSum ==
  ASSUME NEW f, NEW S, IsFiniteSet(S)
  PROVE  \E g : Sums(f, S, g) /\ SumFunctionOnSet(f, S) = g[S]
<1> DEFINE G == CHOOSE g : Sums(f, S, g)
<1>1. Sums(f, S, G) BY SumsExist, Zenon
<1>2. SumFunctionOnSet(f, S) = G[S]
  BY Zenon DEF SumFunctionOnSet, FoldFunctionOnSet, MapThenFoldSet, Sums, AddOne, Pick
<1> QED BY <1>1, <1>2

LEMMA SumsType ==
  ASSUME NEW f, NEW S, IsFiniteSet(S), \A x \in S : f[x] \in Nat, NEW g, Sums(f, S, g)
  PROVE  \A s \in SUBSET S : g[s] \in Nat
<1> DEFINE K == {s \in SUBSET S : g[s] \in Nat}
<1>1. \A s \in SUBSET S : g[s] = AddOne(f, g, s) BY DEF Sums
<1>2. {} \in K
  <2>1. g[{}] = 0 BY <1>1 DEF AddOne
  <2> QED BY <2>1
<1>3. ASSUME NEW s \in SUBSET S, s # {}, \A x \in s : s \ {x} \in K PROVE s \in K
  <2>1. Pick(s) \in s BY <1>3 DEF Pick
  <2>2. s \ {Pick(s)} \in K BY <1>3, <2>1
  <2>3. g[s \ {Pick(s)}] \in Nat /\ f[Pick(s)] \in Nat BY <2>1, <2>2
  <2>4. g[s] \in Nat BY <1>1, <1>3, <2>3 DEF AddOne
  <2> QED BY <2>4
<1>4. K \in SUBSET SUBSET S OBVIOUS
<1> HIDE DEF K
<1>5. K = SUBSET S BY <1>2, <1>3, <1>4, SubsetInduction
<1> QED BY <1>5 DEF K

Splits(f, S, g) == \A s \in SUBSET S : \A x \in s : g[s] = f[x] + g[s \ {x}]

\* The sum does not depend on which element is taken first.
LEMMA SumsAnyOrder ==
  ASSUME NEW S, IsFiniteSet(S), NEW f \in [S -> Nat], NEW g, Sums(f, S, g)
  PROVE  Splits(f, S, g)
<1> DEFINE K == {s \in SUBSET S : \A x \in s : g[s] = f[x] + g[s \ {x}]}
<1>1. \A s \in SUBSET S : g[s] = AddOne(f, g, s) BY DEF Sums
<1>2. {} \in K OBVIOUS
<1>3. ASSUME NEW s \in SUBSET S, s # {}, \A x \in s : s \ {x} \in K PROVE s \in K
  <2> DEFINE y == Pick(s)
  <2>1. y \in s BY <1>3 DEF Pick
  <2>2. g[s] = f[y] + g[s \ {y}] BY <1>1, <1>3 DEF AddOne
  <2> HIDE DEF y
  <2>3. ASSUME NEW x \in s PROVE g[s] = f[x] + g[s \ {x}]
    <3>1. CASE x = y BY <2>2, <3>1
    <3>2. CASE x # y
      <4> DEFINE r == (s \ {x}) \ {y}
      <4>1. x \in s \ {y} /\ y \in s \ {x} /\ (s \ {y}) \ {x} = r BY <2>1, <3>2
      <4>2. s \ {y} \in K /\ s \ {x} \in K BY <1>3, <2>1
      <4>3. r \in SUBSET S OBVIOUS
      <4> HIDE DEF r
      <4>4. g[s \ {y}] = f[x] + g[(s \ {y}) \ {x}] BY <4>1, <4>2
      <4>5. g[s \ {x}] = f[y] + g[(s \ {x}) \ {y}] BY <4>1, <4>2
      <4>6. f[x] \in Nat /\ f[y] \in Nat /\ g[r] \in Nat BY <2>1, <4>3, SumsType
      <4>7. g[s] = f[y] + (f[x] + g[r]) BY <2>2, <4>1, <4>4
      <4>8. g[s \ {x}] = f[y] + g[r] BY <4>5 DEF r
      <4> QED BY <4>6, <4>7, <4>8
    <3> QED BY <3>1, <3>2
  <2> QED BY <2>3
<1>4. K \in SUBSET SUBSET S OBVIOUS
<1> HIDE DEF K
<1>5. K = SUBSET S BY <1>2, <1>3, <1>4, SubsetInduction
<1> QED BY <1>5 DEF K, Splits

-----------------------------------------------------------------------------
(* The smooth step. It is twice the cubic that the lemmas are about. *)

\* What the weight is of a distance that is c further than one.
Cubic(c) == c * c * (3 * TransitionWidth - 2 * c)

LEMMA CubicBounds ==
  ASSUME NEW c \in 0 .. TransitionWidth
  PROVE  /\ Cubic(c) \in 0 .. TransitionWidth * TransitionWidth * TransitionWidth
         /\ Unit = 2 * (TransitionWidth * TransitionWidth * TransitionWidth)
<1> DEFINE w == TransitionWidth
           r == w - c
<1>1. w \in Nat /\ c \in Nat /\ r \in Nat BY FusionAssumption
<1>2. 3 * w - 2 * c \in Nat BY <1>1
<1>3. c * c \in Nat BY <1>1
<1>4. Cubic(c) = (c * c) * (3 * w - 2 * c) BY <1>1 DEF Cubic
<1>5. Cubic(c) \in Nat BY <1>2, <1>3, <1>4
<1>6. w * w * w - Cubic(c) = (r * r) * (w + 2 * c)
  BY <1>1 DEF Cubic
<1>7. r * r \in Nat /\ w + 2 * c \in Nat BY <1>1
<1>8. (r * r) * (w + 2 * c) \in Nat BY <1>7
<1>9. w * w * w \in Nat BY <1>1
<1>10. Unit = 2 * (w * w * w) BY <1>1 DEF Unit
<1> QED BY <1>5, <1>6, <1>8, <1>9, <1>10


LEMMA CubicSteps ==
  ASSUME NEW c \in 0 .. TransitionWidth - 1
  PROVE  2 * TransitionWidth * (Cubic(c + 1) - Cubic(c)) \in 0 .. 3 * (TransitionWidth * TransitionWidth * TransitionWidth)
<1> DEFINE w == TransitionWidth
           d == Cubic(c + 1) - Cubic(c)
           r == w - 1 - c
           q == w - 2 * c - 1
<1>1. w \in Nat \ {0} /\ c \in Nat /\ r \in Nat /\ q \in Int BY FusionAssumption
<1>2. d = 6 * (c * r) + 3 * w - 2 BY <1>1 DEF Cubic
<1>3. c * r \in Nat BY <1>1
<1>4. d \in Nat BY <1>1, <1>2, <1>3
<1>5. 3 * (w * w) - 2 * d = 3 * (q * q) + 1 BY <1>1, <1>2
<1>6. q * q \in Nat BY <1>1
<1>7. w * w \in Nat BY <1>1
<1> HIDE DEF d, q
<1>8. 2 * d <= 3 * (w * w) BY <1>4, <1>5, <1>6, <1>7
<1>9. w * (3 * (w * w) - 2 * d) \in Nat
  <2>1. 3 * (w * w) - 2 * d \in Nat BY <1>4, <1>7, <1>8
  <2> QED BY <1>1, <2>1
<1>10. w * (3 * (w * w) - 2 * d) = 3 * (w * w * w) - 2 * w * d BY <1>1, <1>4
<1>11. 2 * w * d \in Nat /\ w * w * w \in Nat BY <1>1, <1>4
<1>12. 2 * w * d <= 3 * (w * w * w)
  BY <1>9, <1>10, <1>11
<1> QED BY <1>11, <1>12 DEF d

\* Weights of distances that are one apart.
LEMMA WeightOf ==
  ASSUME NEW d \in Nat
  PROVE  \E c \in 0 .. TransitionWidth :
           /\ c = (IF d = 0 THEN 0 ELSE Smaller(d - 1, TransitionWidth))
           /\ TransitionWeight(d) = 2 * Cubic(c)
<1> DEFINE w == TransitionWidth
           c == IF d = 0 THEN 0 ELSE Smaller(d - 1, TransitionWidth)
<1>1. w \in Nat BY FusionAssumption
<1>2. c \in 0 .. w BY <1>1 DEF Smaller
<1>3. TransitionWeight(d) = 2 * Cubic(c)
  <2>1. CASE d = 0 BY <1>1, <2>1 DEF TransitionWeight, Cubic
  <2>2. CASE d # 0
    <3>1. TransitionWeight(d) = 2 * c * c * (3 * w - 2 * c) BY <2>2 DEF TransitionWeight
    <3> HIDE DEF c
    <3> QED BY <1>1, <1>2, <3>1 DEF Cubic
  <2> QED BY <2>1, <2>2
<1> QED BY <1>2, <1>3

Cube == TransitionWidth * TransitionWidth * TransitionWidth

LEMMA WeightType ==
  ASSUME NEW d \in Nat
  PROVE  /\ Unit \in Nat /\ Unit = 2 * Cube /\ Cube \in Nat
         /\ TransitionWeight(d) \in 0 .. Unit /\ TransitionWeight(d) \div 2 \in 0 .. Unit
         /\ d <= 1 => TransitionWeight(d) = 0
<1>1. PICK c \in 0 .. TransitionWidth :
           /\ c = (IF d = 0 THEN 0 ELSE Smaller(d - 1, TransitionWidth))
           /\ TransitionWeight(d) = 2 * Cubic(c)
  BY WeightOf
<1>2. Cubic(c) \in 0 .. Cube /\ Unit = 2 * Cube BY CubicBounds DEF Cube
<1>3. Cube \in Nat BY FusionAssumption DEF Cube
<1>4. d <= 1 => c = 0 BY <1>1, FusionAssumption DEF Smaller
<1>5. c = 0 => Cubic(c) = 0 BY FusionAssumption DEF Cubic
<1> HIDE DEF Cubic
<1> QED BY <1>1, <1>2, <1>3, <1>4, <1>5

\* Two weights that are multiplied by twice the width are not further apart than
\* three units.
Near(a, b) == 2 * TransitionWidth * (a - b) \in -3 * Unit .. 3 * Unit

LEMMA NearHalves ==
  ASSUME NEW a \in Nat, NEW b \in Nat,
         2 * TransitionWidth * (a - b) \in -3 * Cube .. 3 * Cube
  PROVE  Near(2 * a, 2 * b) /\ Near(a, b) /\ (2 * a) \div 2 = a /\ (2 * b) \div 2 = b
<1>1. Cube \in Nat /\ Unit = 2 * Cube
  <2>1. 0 \in Nat OBVIOUS
  <2> QED BY <2>1, WeightType
<1>2. (2 * a) \div 2 = a /\ (2 * b) \div 2 = b OBVIOUS
<1> DEFINE x == 2 * TransitionWidth * (a - b)
<1>3. TransitionWidth \in Nat BY FusionAssumption
<1>4. x \in Int /\ 2 * TransitionWidth * (2 * a - 2 * b) = 2 * x BY <1>3
<1>5. x \in -3 * Cube .. 3 * Cube OBVIOUS
<1> HIDE DEF x
<1>6. 2 * x \in -3 * Unit .. 3 * Unit BY <1>1, <1>4, <1>5
<1>7. x \in -3 * Unit .. 3 * Unit BY <1>1, <1>4, <1>5
<1> QED BY <1>2, <1>4, <1>6, <1>7 DEF Near, x

LEMMA WeightsNear ==
  ASSUME NEW d \in Nat, NEW e \in Nat, d <= e + 1, e <= d + 1
  PROVE  /\ Near(TransitionWeight(d), TransitionWeight(e))
         /\ Near(TransitionWeight(d) \div 2, TransitionWeight(e) \div 2)
<1> DEFINE w == TransitionWidth
<1>0. w \in Nat \ {0} BY FusionAssumption
<1>1. PICK a \in 0 .. w : /\ a = (IF d = 0 THEN 0 ELSE Smaller(d - 1, w))
                          /\ TransitionWeight(d) = 2 * Cubic(a)
  BY WeightOf
<1>2. PICK b \in 0 .. w : /\ b = (IF e = 0 THEN 0 ELSE Smaller(e - 1, w))
                          /\ TransitionWeight(e) = 2 * Cubic(b)
  BY WeightOf
<1>3. b = a \/ b = a + 1 \/ a = b + 1 BY <1>0, <1>1, <1>2 DEF Smaller
<1>4. Cubic(a) \in Nat /\ Cubic(b) \in Nat /\ Cube \in Nat
  <2>1. Cubic(a) \in 0 .. Cube /\ Cubic(b) \in 0 .. Cube BY CubicBounds DEF Cube
  <2>2. Cube \in Nat BY <1>0 DEF Cube
  <2> HIDE DEF Cubic
  <2> QED BY <2>1, <2>2
<1>5. 2 * w * (Cubic(a) - Cubic(b)) \in -3 * Cube .. 3 * Cube
  <2>1. CASE b = a
    <3>1. 2 * w * (Cubic(a) - Cubic(b)) = 0 BY <1>0, <1>4, <2>1
    <3> QED BY <1>4, <3>1
  <2>2. CASE b = a + 1
    <3>1. 2 * w * (Cubic(b) - Cubic(a)) \in 0 .. 3 * Cube BY <1>0, <2>2, CubicSteps DEF Cube
    <3>2. 2 * w * (Cubic(a) - Cubic(b)) = -(2 * w * (Cubic(b) - Cubic(a))) BY <1>0, <1>4
    <3> QED BY <1>0, <1>4, <3>1, <3>2
  <2>3. CASE a = b + 1
    <3>1. 2 * w * (Cubic(a) - Cubic(b)) \in 0 .. 3 * Cube BY <1>0, <2>3, CubicSteps DEF Cube
    <3> QED BY <1>0, <1>4, <3>1
  <2> QED BY <1>3, <2>1, <2>2, <2>3
<1> QED BY <1>1, <1>2, <1>4, <1>5, NearHalves

\* At a distance of three or less, half of the weight is near no weight.
LEMMA WeightsSmall ==
  ASSUME NEW d \in Nat, d <= 3
  PROVE  Near(TransitionWeight(d) \div 2, 0) /\ Near(0, TransitionWeight(d) \div 2)
<1> DEFINE w == TransitionWidth
<1>0. w \in Nat \ {0} BY FusionAssumption
<1>1. PICK a \in 0 .. w : /\ a = (IF d = 0 THEN 0 ELSE Smaller(d - 1, w))
                          /\ TransitionWeight(d) = 2 * Cubic(a)
  BY WeightOf
<1>2. a \in 0 .. 2 BY <1>0, <1>1 DEF Smaller
<1>3. Cubic(a) \in Nat /\ Unit = 2 * Cube /\ Cube \in Nat
  <2>1. Cubic(a) \in 0 .. Cube /\ Unit = 2 * Cube BY CubicBounds DEF Cube
  <2>2. Cube \in Nat BY <1>0 DEF Cube
  <2> HIDE DEF Cubic
  <2> QED BY <2>1, <2>2
<1>4. TransitionWeight(d) \div 2 = Cubic(a) BY <1>1, <1>3
<1>5. w * Cubic(a) <= 3 * Cube /\ w * Cubic(a) \in Nat
  <2>1. CASE a = 0
    <3>1. Cubic(a) = 0 BY <1>0, <2>1 DEF Cubic
    <3> QED BY <1>0, <1>3, <3>1
  <2>2. CASE a = 1
    <3>1. Cubic(a) = 3 * w - 2 BY <1>0, <2>2 DEF Cubic
    <3>2. 3 * (w * w) >= 3 * w - 2 /\ w * w \in Nat BY <1>0
    <3>3. w * (3 * (w * w) - (3 * w - 2)) \in Nat
      <4>1. 3 * (w * w) - (3 * w - 2) \in Nat BY <1>0, <3>2
      <4> QED BY <1>0, <4>1
    <3>4. w * (3 * (w * w) - (3 * w - 2)) = 3 * Cube - w * (3 * w - 2) BY <1>0 DEF Cube
    <3>5. w * (3 * w - 2) \in Nat BY <1>0
    <3> QED BY <1>3, <3>1, <3>3, <3>4, <3>5
  <2>3. CASE a = 2
    <3>1. Cubic(a) = 12 * w - 16 BY <1>0, <2>3 DEF Cubic
    <3>2. 3 * (w * w) - (12 * w - 16) = 3 * ((w - 2) * (w - 2)) + 4 BY <1>0
    <3>3. (w - 2) * (w - 2) \in Nat BY <1>0, <1>2, <2>3
    <3>4. w * (3 * (w * w) - (12 * w - 16)) \in Nat
      <4>1. 3 * (w * w) - (12 * w - 16) \in Nat BY <1>0, <3>2, <3>3
      <4> QED BY <1>0, <4>1
    <3>5. w * (3 * (w * w) - (12 * w - 16)) = 3 * Cube - w * (12 * w - 16) BY <1>0 DEF Cube
    <3>6. w * (12 * w - 16) \in Nat
      <4>1. 12 * w - 16 \in Nat BY <1>3, <3>1
      <4> QED BY <1>0, <4>1
    <3> QED BY <1>3, <3>1, <3>4, <3>5, <3>6
  <2> QED BY <1>2, <2>1, <2>2, <2>3
<1>6. 2 * w * (Cubic(a) - 0) = 2 * (w * Cubic(a)) /\ 2 * w * (0 - Cubic(a)) = -(2 * (w * Cubic(a)))
  BY <1>0, <1>3
<1> HIDE DEF w
<1>7. 2 * (w * Cubic(a)) \in -3 * Unit .. 3 * Unit /\ -(2 * (w * Cubic(a))) \in -3 * Unit .. 3 * Unit
  <2> DEFINE x == w * Cubic(a)
  <2>1. x \in Nat /\ x <= 3 * Cube BY <1>5
  <2> HIDE DEF x, Cubic
  <2>2. 2 * x \in -3 * Unit .. 3 * Unit /\ -(2 * x) \in -3 * Unit .. 3 * Unit BY <1>3, <2>1
  <2> QED BY <2>2 DEF x
<1> QED BY <1>4, <1>6, <1>7 DEF Near, w

-----------------------------------------------------------------------------
(* The sweeps *)

\* What the next sample of a row is set to.
Lowered(row, before, done, x) ==
  Smaller(Smaller(row[x], before[x] + 1), IF x = 1 THEN row[x] ELSE done[x - 1] + 1)

LEMMA SequenceOf ==
  ASSUME NEW T, NEW n \in Nat, NEW s \in [1 .. n -> T]
  PROVE  s \in Seq(T) /\ Len(s) = n
OBVIOUS

RowSwept(row, before, n, f) ==
  f = [x \in 0 .. n |-> IF x = 0 THEN <<>> ELSE Append(f[x - 1], Lowered(row, before, f[x - 1], x))]

LEMMA RowSweepExists ==
  ASSUME NEW row, NEW before
  PROVE  \A n \in Nat : \E f : RowSwept(row, before, n, f)
<1> DEFINE Known == {n \in Nat : \E f : RowSwept(row, before, n, f)}
<1>1. 0 \in Known
  <2> DEFINE f == [x \in 0 .. 0 |-> <<>>]
  <2>1. RowSwept(row, before, 0, f) BY DEF RowSwept
  <2> QED BY <2>1
<1>2. ASSUME NEW n \in Known PROVE n + 1 \in Known
  <2>1. n \in Nat OBVIOUS
  <2>2. PICK f : RowSwept(row, before, n, f) OBVIOUS
  <2> DEFINE g == [x \in 0 .. n + 1 |-> IF x = n + 1 THEN Append(f[n], Lowered(row, before, f[n], n + 1)) ELSE f[x]]
  <2>3. \A x \in 0 .. n : f[x] = IF x = 0 THEN <<>> ELSE Append(f[x - 1], Lowered(row, before, f[x - 1], x))
    BY <2>2 DEF RowSwept
  <2>4. ASSUME NEW x \in 0 .. n + 1
        PROVE  g[x] = IF x = 0 THEN <<>> ELSE Append(g[x - 1], Lowered(row, before, g[x - 1], x))
    <3>1. CASE x = n + 1
      <4>1. n \in 0 .. n + 1 /\ n # n + 1 /\ x # 0 /\ x - 1 = n BY <2>1, <3>1
      <4>2. g[n] = f[n] /\ g[x] = Append(f[n], Lowered(row, before, f[n], n + 1)) BY <3>1, <4>1
      <4> HIDE DEF g
      <4> QED BY <3>1, <4>1, <4>2
    <3>2. CASE x \in 0 .. n
      <4>1. g[x] = f[x] /\ (x # 0 => g[x - 1] = f[x - 1]) BY <2>1, <3>2
      <4> HIDE DEF g
      <4> QED BY <2>3, <3>2, <4>1
    <3> QED BY <2>1, <3>1, <3>2
  <2>5. g = [x \in 0 .. n + 1 |-> g[x]] OBVIOUS
  <2> HIDE DEF g
  <2>6. RowSwept(row, before, n + 1, g) BY <2>4, <2>5 DEF RowSwept
  <2> QED BY <2>1, <2>6
<1> HIDE DEF Known
<1>3. Known = Nat
  <2>1. Known \in SUBSET Nat BY DEF Known
  <2> QED BY <1>1, <1>2, <2>1, Induction
<1> QED BY <1>3 DEF Known

\* A row after a sweep.
LEMMA SweptRow ==
  ASSUME NEW m \in Nat, NEW row \in [1 .. m -> Nat], NEW before \in [1 .. m -> Nat]
  PROVE  /\ SweepRow(row, before) \in [1 .. m -> Nat]
         /\ \A x \in 1 .. m :
              SweepRow(row, before)[x] = Lowered(row, before, SweepRow(row, before), x)
<1> DEFINE F == CHOOSE f : RowSwept(row, before, Len(row), f)
<1>1. Len(row) = m OBVIOUS
<1>2. RowSwept(row, before, Len(row), F) BY <1>1, RowSweepExists, Zenon
<1>3. SweepRow(row, before) = F[Len(row)]
  BY Zenon DEF SweepRow, RowSwept, Lowered
<1> HIDE DEF F
<1>4. \A x \in 0 .. m :
         F[x] = IF x = 0 THEN <<>> ELSE Append(F[x - 1], Lowered(row, before, F[x - 1], x))
  BY <1>1, <1>2 DEF RowSwept
<1> DEFINE Good(n) == /\ F[n] \in [1 .. n -> Nat]
                      /\ \A x \in 1 .. n : F[n][x] = Lowered(row, before, F[n], x)
           K == {n \in Nat : n <= m => Good(n)}
<1>5. 0 \in K
  <2>1. F[0] = <<>> BY <1>4
  <2>2. F[0] \in [1 .. 0 -> Nat] BY <2>1
  <2>3. \A x \in 1 .. 0 : FALSE OBVIOUS
  <2>4. Good(0) BY <2>2, <2>3
  <2> HIDE DEF Good
  <2> QED BY <2>4
<1>6. ASSUME NEW n \in K PROVE n + 1 \in K
  <2>0. n \in Nat /\ n + 1 \in Nat /\ (n + 1 <= m => Good(n))
    <3> HIDE DEF Good
    <3> QED OBVIOUS
  <2> SUFFICES ASSUME n + 1 <= m PROVE Good(n + 1)
    <3> HIDE DEF Good
    <3> QED BY <2>0
  <2> DEFINE done == F[n]
             new == Lowered(row, before, done, n + 1)
  <2>1. n \in Nat /\ Good(n) BY <2>0
  <2>2. F[n + 1] = Append(done, new)
    <3>1. n + 1 \in 0 .. m /\ n + 1 # 0 /\ (n + 1) - 1 = n BY <2>1
    <3> QED BY <1>4, <3>1
  <2>3. done \in [1 .. n -> Nat] /\ \A x \in 1 .. n : done[x] = Lowered(row, before, done, x)
    BY <2>1
  <2>4. new \in Nat
    <3>1. n + 1 \in 1 .. m /\ (n + 1) - 1 = n /\ row[n + 1] \in Nat /\ before[n + 1] \in Nat BY <2>1
    <3>2. n + 1 # 1 => done[n] \in Nat BY <2>1, <2>3
    <3>3. new = Smaller(Smaller(row[n + 1], before[n + 1] + 1), IF n + 1 = 1 THEN row[n + 1] ELSE done[n] + 1)
      BY <3>1 DEF Lowered
    <3> HIDE DEF done, new
    <3>4. Smaller(row[n + 1], before[n + 1] + 1) \in Nat BY <3>1 DEF Smaller
    <3>5. (IF n + 1 = 1 THEN row[n + 1] ELSE done[n] + 1) \in Nat BY <3>1, <3>2
    <3> QED BY <3>3, <3>4, <3>5 DEF Smaller
  <2> HIDE DEF done, new
  <2>5. /\ F[n + 1] \in [1 .. n + 1 -> Nat] /\ F[n + 1][n + 1] = new
        /\ \A x \in 1 .. n : F[n + 1][x] = done[x]
    <3>1. done \in Seq(Nat) /\ Len(done) = n BY <2>1, <2>3, SequenceOf
    <3>2. Append(done, new) \in Seq(Nat) /\ Len(Append(done, new)) = n + 1 BY <2>1, <2>4, <3>1
    <3>3. \A s \in Seq(Nat) : s \in [1 .. Len(s) -> Nat] OBVIOUS
    <3>4. F[n + 1] \in [1 .. n + 1 -> Nat] BY <2>2, <3>2, <3>3
    <3>5. Append(done, new)[n + 1] = new /\ \A x \in 1 .. n : Append(done, new)[x] = done[x]
      BY <2>1, <2>4, <3>1
    <3> QED BY <2>2, <3>4, <3>5
  <2>6. ASSUME NEW x \in 1 .. n + 1 PROVE F[n + 1][x] = Lowered(row, before, F[n + 1], x)
    <3>1. x # 1 => F[n + 1][x - 1] = done[x - 1] BY <2>1, <2>5
    <3>2. Lowered(row, before, F[n + 1], x) = Lowered(row, before, done, x) BY <3>1 DEF Lowered
    <3>3. CASE x = n + 1 BY <2>5, <3>2, <3>3 DEF new
    <3>4. CASE x \in 1 .. n BY <2>3, <2>5, <3>2, <3>4
    <3> QED BY <2>1, <3>3, <3>4
  <2> QED BY <2>5, <2>6
<1> HIDE DEF K
<1>7. K = Nat
  <2>1. K \in SUBSET Nat BY DEF K
  <2> QED BY <1>5, <1>6, <2>1, Induction
<1>8. Good(m)
  <2>1. m \in K /\ m <= m BY <1>7
  <2> HIDE DEF Good
  <2> QED BY <2>1 DEF K
<1> QED BY <1>1, <1>3, <1>8

\* What the next row is set to.
NextRow(rows, done, y) == SweepRow(rows[y], IF y = 1 THEN rows[y] ELSE done[y - 1])

RowsSwept(rows, n, f) ==
  f = [y \in 0 .. n |-> IF y = 0 THEN <<>> ELSE Append(f[y - 1], NextRow(rows, f[y - 1], y))]

LEMMA SweepExists ==
  ASSUME NEW rows
  PROVE  \A n \in Nat : \E f : RowsSwept(rows, n, f)
<1> DEFINE Known == {n \in Nat : \E f : RowsSwept(rows, n, f)}
<1>1. 0 \in Known
  <2> DEFINE f == [y \in 0 .. 0 |-> <<>>]
  <2>1. RowsSwept(rows, 0, f) BY DEF RowsSwept
  <2> QED BY <2>1
<1>2. ASSUME NEW n \in Known PROVE n + 1 \in Known
  <2>1. n \in Nat OBVIOUS
  <2>2. PICK f : RowsSwept(rows, n, f) OBVIOUS
  <2> DEFINE g == [y \in 0 .. n + 1 |-> IF y = n + 1 THEN Append(f[n], NextRow(rows, f[n], n + 1)) ELSE f[y]]
  <2>3. \A y \in 0 .. n : f[y] = IF y = 0 THEN <<>> ELSE Append(f[y - 1], NextRow(rows, f[y - 1], y))
    BY <2>2 DEF RowsSwept
  <2>4. ASSUME NEW y \in 0 .. n + 1
        PROVE  g[y] = IF y = 0 THEN <<>> ELSE Append(g[y - 1], NextRow(rows, g[y - 1], y))
    <3>1. CASE y = n + 1
      <4>1. n \in 0 .. n + 1 /\ n # n + 1 /\ y # 0 /\ y - 1 = n BY <2>1, <3>1
      <4>2. g[n] = f[n] /\ g[y] = Append(f[n], NextRow(rows, f[n], n + 1)) BY <3>1, <4>1
      <4> HIDE DEF g
      <4> QED BY <3>1, <4>1, <4>2
    <3>2. CASE y \in 0 .. n
      <4>1. g[y] = f[y] /\ (y # 0 => g[y - 1] = f[y - 1]) BY <2>1, <3>2
      <4> HIDE DEF g
      <4> QED BY <2>3, <3>2, <4>1
    <3> QED BY <2>1, <3>1, <3>2
  <2>5. g = [y \in 0 .. n + 1 |-> g[y]] OBVIOUS
  <2> HIDE DEF g
  <2>6. RowsSwept(rows, n + 1, g) BY <2>4, <2>5 DEF RowsSwept
  <2> QED BY <2>1, <2>6
<1> HIDE DEF Known
<1>3. Known = Nat
  <2>1. Known \in SUBSET Nat BY DEF Known
  <2> QED BY <1>1, <1>2, <2>1, Induction
<1> QED BY <1>3 DEF Known

Grids(m) == [1 .. m -> [1 .. m -> Nat]]

\* The rows after a sweep.
LEMMA SweptRows ==
  ASSUME NEW m \in Nat, NEW rows \in Grids(m)
  PROVE  /\ Sweep(rows) \in Grids(m)
         /\ \A y \in 1 .. m : Sweep(rows)[y] = NextRow(rows, Sweep(rows), y)
<1> DEFINE F == CHOOSE f : RowsSwept(rows, Len(rows), f)
           Row == [1 .. m -> Nat]
<1>1. Len(rows) = m BY DEF Grids
<1>2. RowsSwept(rows, Len(rows), F) BY <1>1, SweepExists, Zenon
<1>3. Sweep(rows) = F[Len(rows)]
  BY Zenon DEF Sweep, RowsSwept, NextRow
<1> HIDE DEF F, Row
<1>4. \A y \in 0 .. m : F[y] = IF y = 0 THEN <<>> ELSE Append(F[y - 1], NextRow(rows, F[y - 1], y))
  BY <1>1, <1>2 DEF RowsSwept
<1>5. rows \in [1 .. m -> Row] BY DEF Grids, Row
<1> DEFINE Good(n) == /\ F[n] \in [1 .. n -> Row]
                      /\ \A y \in 1 .. n : F[n][y] = NextRow(rows, F[n], y)
           K == {n \in Nat : n <= m => Good(n)}
<1>6. 0 \in K
  <2>1. F[0] = <<>> BY <1>4
  <2>2. F[0] \in [1 .. 0 -> Row] BY <2>1
  <2>3. \A y \in 1 .. 0 : FALSE OBVIOUS
  <2>4. Good(0) BY <2>2, <2>3
  <2> HIDE DEF Good
  <2> QED BY <2>4
<1>7. ASSUME NEW n \in K PROVE n + 1 \in K
  <2>0. n \in Nat /\ n + 1 \in Nat /\ (n + 1 <= m => Good(n))
    <3> HIDE DEF Good
    <3> QED OBVIOUS
  <2> SUFFICES ASSUME n + 1 <= m PROVE Good(n + 1)
    <3> HIDE DEF Good
    <3> QED BY <2>0
  <2> DEFINE done == F[n]
             new == NextRow(rows, done, n + 1)
  <2>1. n \in Nat /\ Good(n) BY <2>0
  <2>2. F[n + 1] = Append(done, new)
    <3>1. n + 1 \in 0 .. m /\ n + 1 # 0 /\ (n + 1) - 1 = n BY <2>1
    <3> QED BY <1>4, <3>1
  <2>3. done \in [1 .. n -> Row] /\ \A y \in 1 .. n : done[y] = NextRow(rows, done, y)
    BY <2>1
  <2>4. new \in Row
    <3> DEFINE before == IF n + 1 = 1 THEN rows[n + 1] ELSE done[n]
    <3>1. n + 1 \in 1 .. m /\ (n + 1) - 1 = n /\ rows[n + 1] \in Row BY <1>5, <2>1
    <3>2. n + 1 # 1 => done[n] \in Row BY <2>1, <2>3
    <3>3. before \in Row BY <3>1, <3>2
    <3>4. new = SweepRow(rows[n + 1], before) BY <3>1 DEF NextRow
    <3> HIDE DEF before, new
    <3> QED BY <3>1, <3>3, <3>4, SweptRow DEF Row
  <2> HIDE DEF done, new
  <2>5. /\ F[n + 1] \in [1 .. n + 1 -> Row] /\ F[n + 1][n + 1] = new
        /\ \A y \in 1 .. n : F[n + 1][y] = done[y]
    <3>1. done \in Seq(Row) /\ Len(done) = n BY <2>1, <2>3, SequenceOf
    <3>2. Append(done, new) \in Seq(Row) /\ Len(Append(done, new)) = n + 1 BY <2>1, <2>4, <3>1
    <3>3. \A s \in Seq(Row) : s \in [1 .. Len(s) -> Row] OBVIOUS
    <3>4. F[n + 1] \in [1 .. n + 1 -> Row] BY <2>2, <3>2, <3>3
    <3>5. Append(done, new)[n + 1] = new /\ \A y \in 1 .. n : Append(done, new)[y] = done[y]
      BY <2>1, <2>4, <3>1
    <3> QED BY <2>2, <3>4, <3>5
  <2>6. ASSUME NEW y \in 1 .. n + 1 PROVE F[n + 1][y] = NextRow(rows, F[n + 1], y)
    <3>1. y # 1 => F[n + 1][y - 1] = done[y - 1] BY <2>1, <2>5
    <3>2. NextRow(rows, F[n + 1], y) = NextRow(rows, done, y) BY <3>1 DEF NextRow
    <3>3. CASE y = n + 1 BY <2>5, <3>2, <3>3 DEF new
    <3>4. CASE y \in 1 .. n BY <2>3, <2>5, <3>2, <3>4
    <3> QED BY <2>1, <3>3, <3>4
  <2> QED BY <2>5, <2>6
<1> HIDE DEF K
<1>8. K = Nat
  <2>1. K \in SUBSET Nat BY DEF K
  <2> QED BY <1>6, <1>7, <2>1, Induction
<1>9. Good(m) BY <1>8 DEF K
<1> QED BY <1>1, <1>3, <1>9 DEF Grids, Row

\* No sample is more than one step further than the one before it in its row and
\* in its column; and it is where it was, or one step further than one of them.
Descends(before, after, m) ==
  \A y, x \in 1 .. m :
    /\ after[y][x] \in Nat /\ after[y][x] <= before[y][x]
    /\ x > 1 => after[y][x] <= after[y][x - 1] + 1
    /\ y > 1 => after[y][x] <= after[y - 1][x] + 1
    /\ \/ after[y][x] = before[y][x]
       \/ x > 1 /\ after[y][x] = after[y][x - 1] + 1
       \/ y > 1 /\ after[y][x] = after[y - 1][x] + 1

LEMMA SweepDescends ==
  ASSUME NEW m \in Nat, NEW rows \in Grids(m)
  PROVE  Sweep(rows) \in Grids(m) /\ Descends(rows, Sweep(rows), m)
<1> DEFINE F == Sweep(rows)
<1>1. F \in Grids(m) /\ \A y \in 1 .. m : F[y] = NextRow(rows, F, y) BY SweptRows
<1> HIDE DEF F
<1>2. ASSUME NEW y \in 1 .. m, NEW x \in 1 .. m
      PROVE  /\ F[y][x] \in Nat /\ F[y][x] <= rows[y][x]
             /\ x > 1 => F[y][x] <= F[y][x - 1] + 1
             /\ y > 1 => F[y][x] <= F[y - 1][x] + 1
             /\ \/ F[y][x] = rows[y][x]
                \/ x > 1 /\ F[y][x] = F[y][x - 1] + 1
                \/ y > 1 /\ F[y][x] = F[y - 1][x] + 1
  <2> DEFINE row == rows[y]
             before == IF y = 1 THEN rows[y] ELSE F[y - 1]
             r == F[y]
  <2>1. row \in [1 .. m -> Nat] BY DEF Grids
  <2>2. y # 1 => y - 1 \in 1 .. m BY <1>2
  <2>3. before \in [1 .. m -> Nat] BY <1>1, <2>1, <2>2 DEF Grids
  <2>4. r = SweepRow(row, before) BY <1>1 DEF NextRow
  <2>5. r \in [1 .. m -> Nat] BY <1>1 DEF Grids
  <2>6. before = IF y = 1 THEN row ELSE F[y - 1] OBVIOUS
  <2> HIDE DEF row, before, r
  <2>7. r[x] = Lowered(row, before, r, x) BY <2>1, <2>3, <2>4, SweptRow
  <2>8. r[x] = Smaller(Smaller(row[x], before[x] + 1), IF x = 1 THEN row[x] ELSE r[x - 1] + 1)
    BY <2>7 DEF Lowered
  <2>9. row[x] \in Nat /\ before[x] \in Nat /\ r[x] \in Nat BY <2>1, <2>3, <2>5
  <2>10. x # 1 => x - 1 \in 1 .. m /\ r[x - 1] \in Nat BY <2>5
  <2>11. /\ r[x] <= row[x] /\ r[x] <= before[x] + 1 /\ (x > 1 => r[x] <= r[x - 1] + 1)
         /\ r[x] = row[x] \/ r[x] = before[x] + 1 \/ (x > 1 /\ r[x] = r[x - 1] + 1)
    <3>1. CASE x = 1 BY <2>8, <2>9, <3>1 DEF Smaller
    <3>2. CASE x # 1
      <4>1. r[x] = Smaller(Smaller(row[x], before[x] + 1), r[x - 1] + 1) BY <2>8, <3>2
      <4>2. x > 1 /\ r[x - 1] \in Nat BY <2>10, <3>2
      <4> QED BY <2>9, <4>1, <4>2 DEF Smaller
    <3> QED BY <3>1, <3>2
  <2>12. CASE y = 1
    <3>1. before[x] = row[x] BY <2>6, <2>12
    <3> QED BY <2>9, <2>11, <2>12, <3>1 DEF row, r
  <2>13. CASE y # 1
    <3>1. before[x] = F[y - 1][x] /\ y > 1 BY <2>6, <2>13
    <3> QED BY <2>9, <2>11, <3>1 DEF row, r
  <2> QED BY <2>12, <2>13
<1> QED BY <1>1, <1>2 DEF Descends, F

\* The grid with the last sample first.
LEMMA TurnedGrid ==
  ASSUME NEW m \in Nat, NEW rows \in Grids(m)
  PROVE  /\ Turned(rows) \in Grids(m)
         /\ \A y, x \in 1 .. m : Turned(rows)[y][x] = rows[m + 1 - y][m + 1 - x]
<1> DEFINE R == [y \in DOMAIN rows |-> Reverse(rows[y])]
<1>1. DOMAIN rows = 1 .. m /\ \A y \in 1 .. m : rows[y] \in [1 .. m -> Nat] BY DEF Grids
<1>2. ASSUME NEW y \in 1 .. m
      PROVE  R[y] \in [1 .. m -> Nat] /\ \A x \in 1 .. m : R[y][x] = rows[y][m + 1 - x]
  <2> DEFINE row == rows[y]
  <2>1. row \in [1 .. m -> Nat] /\ Len(row) = m BY <1>1
  <2> HIDE DEF row
  <2>2. Reverse(row) = [x \in 1 .. m |-> row[(m - x) + 1]] BY <2>1 DEF Reverse
  <2>3. \A x \in 1 .. m : (m - x) + 1 \in 1 .. m /\ (m - x) + 1 = m + 1 - x OBVIOUS
  <2>4. Reverse(row) \in [1 .. m -> Nat] /\ \A x \in 1 .. m : Reverse(row)[x] = row[m + 1 - x]
    BY <2>1, <2>2, <2>3
  <2>5. R[y] = Reverse(row) BY <1>1 DEF row
  <2> HIDE DEF R
  <2> QED BY <2>4, <2>5 DEF row
<1>3. R = [y \in 1 .. m |-> R[y]] BY <1>1
<1>4. Turned(rows) = Reverse(R) BY DEF Turned
<1> HIDE DEF R
<1>5. R \in [1 .. m -> [1 .. m -> Nat]] /\ Len(R) = m BY <1>2, <1>3
<1>6. Reverse(R) = [y \in 1 .. m |-> R[(m - y) + 1]] BY <1>5 DEF Reverse
<1>7. \A y \in 1 .. m : (m - y) + 1 \in 1 .. m /\ (m - y) + 1 = m + 1 - y OBVIOUS
<1>8. Reverse(R) \in [1 .. m -> [1 .. m -> Nat]] /\ \A y \in 1 .. m : Reverse(R)[y] = R[m + 1 - y]
  BY <1>5, <1>6, <1>7
<1>9. \A y, x \in 1 .. m : Turned(rows)[y][x] = rows[m + 1 - y][m + 1 - x]
  <2> SUFFICES ASSUME NEW y \in 1 .. m, NEW x \in 1 .. m
               PROVE  Turned(rows)[y][x] = rows[m + 1 - y][m + 1 - x]
    OBVIOUS
  <2>1. m + 1 - y \in 1 .. m BY <1>7
  <2>2. R[m + 1 - y][x] = rows[m + 1 - y][m + 1 - x] BY <1>2, <2>1
  <2> QED BY <1>4, <1>8, <2>2
<1> QED BY <1>4, <1>8, <1>9 DEF Grids

\* The sweep back, from the last sample.
LEMMA SweepBack ==
  ASSUME NEW m \in Nat, NEW F \in Grids(m),
         NEW B, B = Turned(Sweep(Turned(F)))
  PROVE  /\ B \in Grids(m)
         /\ \A y, x \in 1 .. m :
              /\ B[y][x] \in Nat /\ B[y][x] <= F[y][x]
              /\ x < m => B[y][x] <= B[y][x + 1] + 1
              /\ y < m => B[y][x] <= B[y + 1][x] + 1
              /\ \/ B[y][x] = F[y][x]
                 \/ x < m /\ B[y][x] = B[y][x + 1] + 1
                 \/ y < m /\ B[y][x] = B[y + 1][x] + 1
<1> DEFINE T == Turned(F)
           S == Sweep(T)
<1>1. T \in Grids(m) /\ \A y, x \in 1 .. m : T[y][x] = F[m + 1 - y][m + 1 - x] BY TurnedGrid
<1>2. S \in Grids(m) /\ Descends(T, S, m) BY <1>1, SweepDescends
<1>3. B \in Grids(m) /\ \A y, x \in 1 .. m : B[y][x] = S[m + 1 - y][m + 1 - x]
  <2> HIDE DEF T
  <2>1. B = Turned(S) BY DEF T
  <2> HIDE DEF S
  <2> QED BY <1>2, <2>1, TurnedGrid
<1> HIDE DEF T, S
<1>4. ASSUME NEW y \in 1 .. m, NEW x \in 1 .. m
      PROVE  /\ B[y][x] \in Nat /\ B[y][x] <= F[y][x]
             /\ x < m => B[y][x] <= B[y][x + 1] + 1
             /\ y < m => B[y][x] <= B[y + 1][x] + 1
             /\ \/ B[y][x] = F[y][x]
                \/ x < m /\ B[y][x] = B[y][x + 1] + 1
                \/ y < m /\ B[y][x] = B[y + 1][x] + 1
  <2> DEFINE v == m + 1 - y
             u == m + 1 - x
  <2>1. v \in 1 .. m /\ u \in 1 .. m /\ m + 1 - v = y /\ m + 1 - u = x OBVIOUS
  <2>2. x < m <=> u > 1 BY <2>1
  <2>3. y < m <=> v > 1 BY <2>1
  <2>4. x < m => x + 1 \in 1 .. m /\ m + 1 - (x + 1) = u - 1 BY <2>1
  <2>5. y < m => y + 1 \in 1 .. m /\ m + 1 - (y + 1) = v - 1 BY <2>1
  <2>6. B[y][x] = S[v][u] BY <1>3
  <2>7. T[v][u] = F[y][x]
    <3> HIDE DEF v, u
    <3> QED BY <1>1, <2>1
  <2>8. x < m => B[y][x + 1] = S[v][u - 1]
    <3>1. ASSUME x < m PROVE B[y][x + 1] = S[m + 1 - y][m + 1 - (x + 1)] BY <1>3, <2>4, <3>1
    <3> QED BY <2>4, <3>1
  <2>9. y < m => B[y + 1][x] = S[v - 1][u]
    <3>1. ASSUME y < m PROVE B[y + 1][x] = S[m + 1 - (y + 1)][m + 1 - x] BY <1>3, <2>5, <3>1
    <3> QED BY <2>5, <3>1
  <2> HIDE DEF v, u
  <2>10. /\ S[v][u] \in Nat /\ S[v][u] <= T[v][u]
         /\ u > 1 => S[v][u] <= S[v][u - 1] + 1
         /\ v > 1 => S[v][u] <= S[v - 1][u] + 1
         /\ \/ S[v][u] = T[v][u]
            \/ u > 1 /\ S[v][u] = S[v][u - 1] + 1
            \/ v > 1 /\ S[v][u] = S[v - 1][u] + 1
    BY <1>2, <2>1 DEF Descends
  <2> QED BY <2>2, <2>3, <2>6, <2>7, <2>8, <2>9, <2>10
<1> QED BY <1>3, <1>4

\* After both, neighbors are no more than a step apart, in either direction.
LEMMA BothWays ==
  ASSUME NEW m \in Nat, NEW rows \in Grids(m),
         NEW B, B = Turned(Sweep(Turned(Sweep(rows))))
  PROVE  /\ B \in Grids(m)
         /\ \A y, x \in 1 .. m :
              /\ B[y][x] <= rows[y][x]
              /\ x < m => B[y][x] <= B[y][x + 1] + 1 /\ B[y][x + 1] <= B[y][x] + 1
              /\ y < m => B[y][x] <= B[y + 1][x] + 1 /\ B[y + 1][x] <= B[y][x] + 1
<1> DEFINE F == Sweep(rows)
<1>1. F \in Grids(m) /\ Descends(rows, F, m) BY SweepDescends
<1> HIDE DEF F
<1>2. B = Turned(Sweep(Turned(F))) BY DEF F
<1>3. /\ B \in Grids(m)
      /\ \A y, x \in 1 .. m :
           /\ B[y][x] \in Nat /\ B[y][x] <= F[y][x]
           /\ x < m => B[y][x] <= B[y][x + 1] + 1
           /\ y < m => B[y][x] <= B[y + 1][x] + 1
           /\ \/ B[y][x] = F[y][x]
              \/ x < m /\ B[y][x] = B[y][x + 1] + 1
              \/ y < m /\ B[y][x] = B[y + 1][x] + 1
  BY <1>1, <1>2, SweepBack
<1>4. \A y, x \in 1 .. m :
        /\ F[y][x] \in Nat /\ F[y][x] <= rows[y][x] /\ rows[y][x] \in Nat
        /\ x < m => F[y][x + 1] <= F[y][x] + 1
        /\ y < m => F[y + 1][x] <= F[y][x] + 1
  <2> SUFFICES ASSUME NEW y \in 1 .. m, NEW x \in 1 .. m
               PROVE  /\ F[y][x] \in Nat /\ F[y][x] <= rows[y][x] /\ rows[y][x] \in Nat
                      /\ x < m => F[y][x + 1] <= F[y][x] + 1
                      /\ y < m => F[y + 1][x] <= F[y][x] + 1
    OBVIOUS
  <2>1. F[y][x] \in Nat /\ F[y][x] <= rows[y][x] BY <1>1 DEF Descends
  <2>2. rows[y][x] \in Nat BY DEF Grids
  <2>3. ASSUME x < m PROVE F[y][x + 1] <= F[y][x] + 1
    <3>1. x + 1 \in 1 .. m /\ x + 1 > 1 /\ (x + 1) - 1 = x BY <2>3
    <3>2. F[y][x + 1] <= F[y][(x + 1) - 1] + 1 BY <1>1, <3>1 DEF Descends
    <3> QED BY <3>1, <3>2
  <2>4. ASSUME y < m PROVE F[y + 1][x] <= F[y][x] + 1
    <3>1. y + 1 \in 1 .. m /\ y + 1 > 1 /\ (y + 1) - 1 = y BY <2>4
    <3>2. F[y + 1][x] <= F[(y + 1) - 1][x] + 1 BY <1>1, <3>1 DEF Descends
    <3> QED BY <3>1, <3>2
  <2> QED BY <2>1, <2>2, <2>3, <2>4
\* Of the samples from which one further on is too far, take the nearest.
<1> DEFINE Fine(y, x) == /\ x < m => B[y][x + 1] <= B[y][x] + 1
                         /\ y < m => B[y + 1][x] <= B[y][x] + 1
           bad == {n \in Nat : \E y, x \in 1 .. m : n = B[y][x] /\ ~Fine(y, x)}
<1>5. bad = {}
  <2> SUFFICES ASSUME bad # {} PROVE FALSE
    OBVIOUS
  <2>1. PICK n \in bad : \A k \in bad : n <= k
    <3>1. bad \in SUBSET Nat OBVIOUS
    <3> HIDE DEF bad
    <3> QED BY <3>1, LeastNatural
  <2>2. PICK y \in 1 .. m, x \in 1 .. m : n = B[y][x] /\ ~Fine(y, x) OBVIOUS
  <2>3. \A v, u \in 1 .. m : B[v][u] < n => Fine(v, u)
    <3> SUFFICES ASSUME NEW v \in 1 .. m, NEW u \in 1 .. m, B[v][u] < n, ~Fine(v, u) PROVE FALSE
      OBVIOUS
    <3>1. B[v][u] \in Nat BY <1>3
    <3>2. B[v][u] \in bad BY <3>1
    <3> HIDE DEF bad, Fine
    <3>3. n \in Nat BY <1>3, <2>2
    <3>4. n <= B[v][u] BY <2>1, <3>2
    <3> QED BY <3>1, <3>3, <3>4
  <2> HIDE DEF bad
  <2>4. n \in Nat /\ (x < m => x + 1 \in 1 .. m) /\ (y < m => y + 1 \in 1 .. m) BY <1>3, <2>2
  <2>5. x < m => B[y][x + 1] \in Nat /\ B[y][x + 1] <= F[y][x + 1] /\ F[y][x + 1] \in Nat
    BY <1>3, <1>4, <2>4
  <2>6. y < m => B[y + 1][x] \in Nat /\ B[y + 1][x] <= F[y + 1][x] /\ F[y + 1][x] \in Nat
    BY <1>3, <1>4, <2>4
  <2>7. CASE B[y][x] = F[y][x]
    <3>1. /\ x < m => F[y][x + 1] <= F[y][x] + 1
          /\ y < m => F[y + 1][x] <= F[y][x] + 1
          /\ F[y][x] \in Nat
      BY <1>4
    <3> QED BY <2>2, <2>5, <2>6, <2>7, <3>1
  <2>8. CASE x < m /\ B[y][x] = B[y][x + 1] + 1
    <3>1. Fine(y, x + 1) BY <2>2, <2>3, <2>4, <2>5, <2>8
    <3>2. y < m => B[y + 1][x + 1] <= B[y][x + 1] + 1 BY <3>1
    <3>3. y < m => B[y + 1][x] <= B[y + 1][x + 1] + 1 /\ B[y + 1][x + 1] \in Nat BY <1>3, <2>4, <2>8
    <3>4. y < m => B[y + 1][x] <= B[y][x] + 1 BY <2>5, <2>6, <2>8, <3>2, <3>3
    <3>5. B[y][x + 1] <= B[y][x] + 1 BY <2>5, <2>8
    <3> QED BY <2>2, <3>4, <3>5
  <2>9. CASE y < m /\ B[y][x] = B[y + 1][x] + 1
    <3>1. Fine(y + 1, x) BY <2>2, <2>3, <2>4, <2>6, <2>9
    <3>2. x < m => B[y + 1][x + 1] <= B[y + 1][x] + 1 BY <3>1
    <3>3. x < m => B[y][x + 1] <= B[y + 1][x + 1] + 1 /\ B[y + 1][x + 1] \in Nat BY <1>3, <2>4, <2>9
    <3>4. x < m => B[y][x + 1] <= B[y][x] + 1 BY <2>5, <2>6, <2>9, <3>2, <3>3
    <3>5. B[y + 1][x] <= B[y][x] + 1 BY <2>6, <2>9
    <3> QED BY <2>2, <3>4, <3>5
  <2> QED BY <1>3, <2>7, <2>8, <2>9
<1>6. ASSUME NEW y \in 1 .. m, NEW x \in 1 .. m
      PROVE  /\ B[y][x] <= rows[y][x]
             /\ x < m => B[y][x] <= B[y][x + 1] + 1 /\ B[y][x + 1] <= B[y][x] + 1
             /\ y < m => B[y][x] <= B[y + 1][x] + 1 /\ B[y + 1][x] <= B[y][x] + 1
  <2>1. B[y][x] \in Nat BY <1>3
  <2>2. Fine(y, x) BY <1>5, <2>1
  <2>3. B[y][x] <= F[y][x] /\ F[y][x] \in Nat /\ F[y][x] <= rows[y][x] /\ rows[y][x] \in Nat
    BY <1>3, <1>4
  <2>4. B[y][x] <= rows[y][x] BY <2>1, <2>3
  <2> QED BY <1>3, <2>2, <2>4
<1> QED BY <1>3, <1>6

LEMMA AdjacentMeans ==
  ASSUME NEW p, NEW q
  PROVE  Adjacent(p, q) <=> \/ p[1] + 1 = q[1] /\ p[2] = q[2]
                            \/ p[2] + 1 = q[2] /\ p[1] = q[1]
<1>1. 1 .. 2 = {1, 2} /\ 3 - 1 = 2 /\ 3 - 2 = 1 OBVIOUS
<1> QED BY <1>1 DEF Adjacent

\* The distance is zero where nothing was measured, and grows by no more than one
\* from a sample to its neighbor.
LEMMA DistanceSteps ==
  ASSUME NEW side \in Nat, NEW measured
  PROVE  LET d == BoundaryDistance(measured, side)
         IN  /\ d \in [Points(side) -> Nat]
             /\ \A p \in Points(side) : p \notin measured => d[p] = 0
             /\ \A p, q \in Points(side) : Adjacent(p, q) => d[p] <= d[q] + 1 /\ d[q] <= d[p] + 1
<1> DEFINE start == [y \in 1 .. side |-> [x \in 1 .. side |->
                       IF <<x - 1, y - 1>> \in measured THEN Far(side) ELSE 0]]
           B == Turned(Sweep(Turned(Sweep(start))))
           d == BoundaryDistance(measured, side)
<1>1. start \in Grids(side) BY DEF Grids, Far
<1>2. d = [p \in Points(side) |-> B[p[2] + 1][p[1] + 1]] BY Zenon DEF BoundaryDistance
<1>3. \A y, x \in 1 .. side : start[y][x] = IF <<x - 1, y - 1>> \in measured THEN Far(side) ELSE 0
  OBVIOUS
<1> HIDE DEF start
<1>4. /\ B \in Grids(side)
      /\ \A y, x \in 1 .. side :
           /\ B[y][x] <= start[y][x]
           /\ x < side => B[y][x] <= B[y][x + 1] + 1 /\ B[y][x + 1] <= B[y][x] + 1
           /\ y < side => B[y][x] <= B[y + 1][x] + 1 /\ B[y + 1][x] <= B[y][x] + 1
  BY <1>1, BothWays
<1> HIDE DEF B, d
<1>5. ASSUME NEW p \in Points(side)
      PROVE  /\ p[1] \in 0 .. side - 1 /\ p[2] \in 0 .. side - 1 /\ p = <<p[1], p[2]>>
             /\ p[1] + 1 \in 1 .. side /\ p[2] + 1 \in 1 .. side
             /\ d[p] = B[p[2] + 1][p[1] + 1] /\ d[p] \in Nat
  <2>1. p[1] \in 0 .. side - 1 /\ p[2] \in 0 .. side - 1 /\ p = <<p[1], p[2]>> BY DEF Points
  <2>2. p[1] + 1 \in 1 .. side /\ p[2] + 1 \in 1 .. side BY <2>1
  <2>3. d[p] = B[p[2] + 1][p[1] + 1] BY <1>2
  <2>4. B[p[2] + 1][p[1] + 1] \in Nat BY <1>4, <2>2 DEF Grids
  <2> QED BY <2>1, <2>2, <2>3, <2>4
<1>6. d \in [Points(side) -> Nat]
  <2>1. d = [p \in Points(side) |-> d[p]] BY <1>2
  <2> QED BY <1>5, <2>1
<1>7. ASSUME NEW p \in Points(side), p \notin measured PROVE d[p] = 0
  <2> DEFINE x == p[1] + 1
             y == p[2] + 1
  <2>1. x \in 1 .. side /\ y \in 1 .. side /\ <<x - 1, y - 1>> = p /\ d[p] = B[y][x] /\ d[p] \in Nat
    BY <1>5
  <2> HIDE DEF x, y
  <2>2. start[y][x] = 0 BY <1>3, <1>7, <2>1
  <2>3. B[y][x] <= start[y][x] BY <1>4, <2>1
  <2> QED BY <2>1, <2>2, <2>3
<1>8. ASSUME NEW p \in Points(side), NEW q \in Points(side), Adjacent(p, q)
      PROVE  d[p] <= d[q] + 1 /\ d[q] <= d[p] + 1
  <2> DEFINE x == p[1] + 1
             y == p[2] + 1
  <2>1. x \in 1 .. side /\ y \in 1 .. side /\ d[p] = B[y][x] BY <1>5
  <2>2. d[q] = B[q[2] + 1][q[1] + 1] /\ q[1] + 1 \in 1 .. side /\ q[2] + 1 \in 1 .. side BY <1>5
  <2>3. CASE p[1] + 1 = q[1] /\ p[2] = q[2]
    <3>1. x + 1 = q[1] + 1 /\ y = q[2] + 1 BY <2>3
    <3> HIDE DEF x, y
    <3>2. d[q] = B[y][x + 1] /\ x < side BY <2>1, <2>2, <3>1
    <3> QED BY <1>4, <2>1, <3>2
  <2>4. CASE p[2] + 1 = q[2] /\ p[1] = q[1]
    <3>1. y + 1 = q[2] + 1 /\ x = q[1] + 1 BY <2>4
    <3> HIDE DEF x, y
    <3>2. d[q] = B[y + 1][x] /\ y < side BY <2>1, <2>2, <3>1
    <3> QED BY <1>4, <2>1, <3>2
  <2> QED BY <1>8, <2>3, <2>4, AdjacentMeans
<1> QED BY <1>6, <1>7, <1>8 DEF d

-----------------------------------------------------------------------------
(* The filter keeps what lies well within the measured samples. *)

\* The square of four points of which this is the first.
SquareAt(p) == {p[1], p[1] + 1} \X {p[2], p[2] + 1}

\* A square of samples that are all there is there after a pass of the filter: at
\* each of them, the middle weight and that of one neighbor are enough.
LEMMA SquareKept ==
  ASSUME NEW side \in Nat, NEW present, NEW o \in Points(side), SquareAt(o) \subseteq Points(side),
         SquareAt(o) \subseteq present, NEW axis \in {1, 2}
  PROVE  SquareAt(o) \subseteq FilterAxis(present, side, axis)
<1> SUFFICES ASSUME NEW p \in SquareAt(o) PROVE p \in FilterAxis(present, side, axis)
  OBVIOUS
<1> DEFINE W(tap) == IF [p EXCEPT ![axis] = @ + tap] \in present THEN BinomialWeights[tap + 3] ELSE 0
<1>1. o[1] \in Nat /\ o[2] \in Nat BY DEF Points
<1>2. p = <<p[1], p[2]>> /\ p[1] \in {o[1], o[1] + 1} /\ p[2] \in {o[2], o[2] + 1} BY DEF SquareAt
<1>3. p \in Points(side) /\ p \in present OBVIOUS
<1>4. W(0) = 6
  <2>1. [p EXCEPT ![axis] = @ + 0] = p BY <1>1, <1>2
  <2> QED BY <1>3, <2>1 DEF BinomialWeights
<1>5. W(-1) = 4 \/ W(1) = 4
  <2>1. [p EXCEPT ![axis] = @ + 1] \in SquareAt(o) \/ [p EXCEPT ![axis] = @ + (-1)] \in SquareAt(o)
    <3>1. CASE axis = 1
      <4>1. [p EXCEPT ![axis] = @ + 1] = <<p[1] + 1, p[2]>> BY <1>1, <1>2, <3>1
      <4>2. [p EXCEPT ![axis] = @ + (-1)] = <<p[1] - 1, p[2]>> BY <1>1, <1>2, <3>1
      <4> QED BY <1>1, <1>2, <4>1, <4>2 DEF SquareAt
    <3>2. CASE axis = 2
      <4>1. [p EXCEPT ![axis] = @ + 1] = <<p[1], p[2] + 1>> BY <1>1, <1>2, <3>2
      <4>2. [p EXCEPT ![axis] = @ + (-1)] = <<p[1], p[2] - 1>> BY <1>1, <1>2, <3>2
      <4> QED BY <1>1, <1>2, <4>1, <4>2 DEF SquareAt
    <3> QED BY <3>1, <3>2
  <2>2. [p EXCEPT ![axis] = @ + 1] \in present \/ [p EXCEPT ![axis] = @ + (-1)] \in present BY <2>1
  <2> QED BY <2>2 DEF BinomialWeights
<1>6. W(-2) \in Nat /\ W(-1) \in Nat /\ W(1) \in Nat /\ W(2) \in Nat BY DEF BinomialWeights
<1>7. p \in FilterAxis(present, side, axis) <=> W(-2) + W(-1) + W(0) + W(1) + W(2) >= MinimumValidWeight
  <2>1. p \in {<<x, y>> : x, y \in 0 .. side - 1} BY <1>3 DEF Points
  <2> QED BY <2>1 DEF FilterAxis
<1> HIDE DEF W
<1> QED BY <1>4, <1>5, <1>6, <1>7 DEF MinimumValidWeight

Pass(present, side) == FilterAxis(FilterAxis(present, side, 1), side, 2)

Passed(present, side, n, f) == f = [k \in 0 .. n |-> IF k = 0 THEN present ELSE Pass(f[k - 1], side)]

LEMMA PassesExist ==
  ASSUME NEW present, NEW side
  PROVE  \A n \in Nat : \E f : Passed(present, side, n, f)
<1> DEFINE Known == {n \in Nat : \E f : Passed(present, side, n, f)}
<1>1. 0 \in Known
  <2> DEFINE f == [k \in 0 .. 0 |-> present]
  <2>1. Passed(present, side, 0, f) BY DEF Passed
  <2> QED BY <2>1
<1>2. ASSUME NEW n \in Known PROVE n + 1 \in Known
  <2>1. n \in Nat OBVIOUS
  <2>2. PICK f : Passed(present, side, n, f) OBVIOUS
  <2> DEFINE g == [k \in 0 .. n + 1 |-> IF k = n + 1 THEN Pass(f[n], side) ELSE f[k]]
  <2>3. \A k \in 0 .. n : f[k] = IF k = 0 THEN present ELSE Pass(f[k - 1], side)
    BY <2>2 DEF Passed
  <2>4. ASSUME NEW k \in 0 .. n + 1 PROVE g[k] = IF k = 0 THEN present ELSE Pass(g[k - 1], side)
    <3>1. CASE k = n + 1
      <4>1. n \in 0 .. n + 1 /\ n # n + 1 /\ k # 0 /\ k - 1 = n BY <2>1, <3>1
      <4>2. g[n] = f[n] /\ g[k] = Pass(f[n], side) BY <3>1, <4>1
      <4> HIDE DEF g
      <4> QED BY <3>1, <4>1, <4>2
    <3>2. CASE k \in 0 .. n
      <4>1. g[k] = f[k] /\ (k # 0 => g[k - 1] = f[k - 1]) BY <2>1, <3>2
      <4> HIDE DEF g
      <4> QED BY <2>3, <3>2, <4>1
    <3> QED BY <2>1, <3>1, <3>2
  <2>5. g = [k \in 0 .. n + 1 |-> g[k]] OBVIOUS
  <2> HIDE DEF g
  <2>6. Passed(present, side, n + 1, g) BY <2>4, <2>5 DEF Passed
  <2> QED BY <2>1, <2>6
<1> HIDE DEF Known
<1>3. Known = Nat
  <2>1. Known \in SUBSET Nat BY DEF Known
  <2> QED BY <1>1, <1>2, <2>1, Induction
<1> QED BY <1>3 DEF Known

\* A square survives every number of passes.
LEMMA SquareSurvives ==
  ASSUME NEW side \in Nat, NEW present, NEW o \in Points(side), SquareAt(o) \subseteq Points(side),
         SquareAt(o) \subseteq present, NEW passes \in Nat
  PROVE  SquareAt(o) \subseteq LowPass(present, side, passes)
<1> DEFINE F == CHOOSE f : Passed(present, side, passes, f)
<1>1. Passed(present, side, passes, F) BY PassesExist, Zenon
<1>2. LowPass(present, side, passes) = F[passes] BY Zenon DEF LowPass, Passed, Pass
<1> HIDE DEF F
<1>3. \A k \in 0 .. passes : F[k] = IF k = 0 THEN present ELSE Pass(F[k - 1], side)
  BY <1>1 DEF Passed
<1> DEFINE K == {n \in Nat : n <= passes => SquareAt(o) \subseteq F[n]}
<1>4. 0 \in K
  <2>1. F[0] = present BY <1>3
  <2> QED BY <2>1
<1>5. ASSUME NEW n \in K PROVE n + 1 \in K
  <2> SUFFICES ASSUME n + 1 <= passes PROVE SquareAt(o) \subseteq F[n + 1]
    OBVIOUS
  <2>1. n \in Nat /\ SquareAt(o) \subseteq F[n] OBVIOUS
  <2>2. F[n + 1] = Pass(F[n], side)
    <3>1. n + 1 \in 0 .. passes /\ n + 1 # 0 /\ (n + 1) - 1 = n BY <2>1
    <3> QED BY <1>3, <3>1
  <2>3. SquareAt(o) \subseteq FilterAxis(F[n], side, 1) BY <2>1, SquareKept
  <2>4. SquareAt(o) \subseteq FilterAxis(FilterAxis(F[n], side, 1), side, 2) BY <2>3, SquareKept
  <2> QED BY <2>2, <2>4 DEF Pass
<1> HIDE DEF K
<1>6. K = Nat
  <2>1. K \in SUBSET Nat BY DEF K
  <2> QED BY <1>4, <1>5, <2>1, Induction
<1>7. SquareAt(o) \subseteq F[passes] BY <1>6 DEF K
<1> QED BY <1>2, <1>7

LEMMA PassCountType ==
  ASSUME NEW coarse, NEW fine
  PROVE  PassCount(coarse, fine) \in Nat
<1> DEFINE enough == {k \in 1 .. MaxPasses : fine * 2 ^ k >= coarse}
<1>1. enough \in SUBSET Nat BY FusionAssumption
<1>2. PassCount(coarse, fine) = IF enough = {} THEN MaxPasses + 1 ELSE CHOOSE k \in enough : \A j \in enough : k <= j
  BY DEF PassCount
<1> HIDE DEF enough
<1>3. CASE enough = {} BY <1>2, <1>3, FusionAssumption
<1>4. CASE enough # {}
  <2>1. \E k \in enough : \A j \in enough : k <= j BY <1>1, <1>4, LeastNatural
  <2>2. (CHOOSE k \in enough : \A j \in enough : k <= j) \in enough BY <2>1
  <2> QED BY <1>1, <1>2, <1>4, <2>2
<1> QED BY <1>3, <1>4

\* What is further than two from everything that was not measured has a filtered
\* sample.
LEMMA FilteredInside ==
  ASSUME NEW side \in Nat, side > 1, NEW measured, NEW passes \in Nat, NEW p \in Points(side),
         BoundaryDistance(measured, side)[p] > 2
  PROVE  p \in LowPass(measured, side, passes)
<1> DEFINE d == BoundaryDistance(measured, side)
           o == <<IF p[1] = 0 THEN 0 ELSE p[1] - 1, IF p[2] = 0 THEN 0 ELSE p[2] - 1>>
<1>1. /\ d \in [Points(side) -> Nat]
      /\ \A q \in Points(side) : q \notin measured => d[q] = 0
      /\ \A q, r \in Points(side) : Adjacent(q, r) => d[q] <= d[r] + 1 /\ d[r] <= d[q] + 1
  BY DistanceSteps
<1>2. d[p] > 2 OBVIOUS
<1> HIDE DEF d
<1>3. p[1] \in 0 .. side - 1 /\ p[2] \in 0 .. side - 1 /\ p = <<p[1], p[2]>> BY DEF Points
<1>4. o[1] \in 0 .. side - 2 /\ o[2] \in 0 .. side - 2 /\ p[1] \in {o[1], o[1] + 1} /\ p[2] \in {o[2], o[2] + 1}
  BY <1>3
<1>5. o \in Points(side) /\ o = <<o[1], o[2]>> BY <1>4 DEF Points
<1> HIDE DEF o
<1>6. SquareAt(o) \subseteq Points(side) /\ p \in SquareAt(o) BY <1>3, <1>4 DEF SquareAt, Points
\* Any point of the square is a step along each axis from p, or none.
<1>7. ASSUME NEW q \in SquareAt(o) PROVE q \in measured
  <2> DEFINE r == <<q[1], p[2]>>
  <2>1. q = <<q[1], q[2]>> /\ q[1] \in {o[1], o[1] + 1} /\ q[2] \in {o[2], o[2] + 1} BY DEF SquareAt
  <2>2. r \in SquareAt(o) /\ r[1] = q[1] /\ r[2] = p[2] BY <1>4, <2>1 DEF SquareAt
  <2> HIDE DEF r
  <2>3. r \in Points(side) /\ q \in Points(side) BY <1>6, <2>2
  <2>4. d[p] \in Nat /\ d[q] \in Nat /\ d[r] \in Nat BY <1>1, <2>3
  <2>5. d[r] >= d[p] - 1
    <3>1. p = r \/ Adjacent(p, r) \/ Adjacent(r, p)
      <4>1. r = <<r[1], r[2]>> BY <2>2 DEF SquareAt
      <4> QED BY <1>3, <1>4, <2>1, <2>2, <4>1, AdjacentMeans
    <3> QED BY <1>1, <2>3, <2>4, <3>1
  <2>6. d[q] >= d[r] - 1
    <3>1. q = r \/ Adjacent(q, r) \/ Adjacent(r, q)
      <4>1. r = <<r[1], r[2]>> BY <2>2 DEF SquareAt
      <4> QED BY <1>3, <1>4, <2>1, <2>2, <4>1, AdjacentMeans
    <3> QED BY <1>1, <2>3, <2>4, <3>1
  <2>7. d[q] # 0 BY <1>2, <2>4, <2>5, <2>6
  <2> QED BY <1>1, <2>3, <2>7
<1>8. SquareAt(o) \subseteq LowPass(measured, side, passes) BY <1>5, <1>6, <1>7, SquareSurvives
<1> QED BY <1>6, <1>8

-----------------------------------------------------------------------------
(* Shares *)

LEMMA SumFunctionIs ==
  ASSUME NEW f, NEW S, f = [x \in S |-> f[x]]
  PROVE  SumFunction(f) = SumFunctionOnSet(f, S)
<1>1. SumFunction(f) = SumFunctionOnSet(f, DOMAIN f) BY Zenon DEF SumFunction
<1>2. DOMAIN f = S OBVIOUS
<1> QED BY <1>1, <1>2

LEMMA SumOfZeros ==
  ASSUME NEW S, IsFiniteSet(S), NEW f \in [S -> Nat], \A x \in S : f[x] = 0
  PROVE  SumFunction(f) = 0
<1>1. PICK g : Sums(f, S, g) /\ SumFunctionOnSet(f, S) = g[S] BY SumIsSum
<1>2. \A s \in SUBSET S : g[s] = AddOne(f, g, s) BY <1>1 DEF Sums
<1> DEFINE K == {s \in SUBSET S : g[s] = 0}
<1>3. {} \in K
  <2>1. g[{}] = 0 BY <1>2 DEF AddOne
  <2> QED BY <2>1
<1>4. ASSUME NEW s \in SUBSET S, s # {}, \A x \in s : s \ {x} \in K PROVE s \in K
  <2>1. Pick(s) \in s BY <1>4 DEF Pick
  <2>2. g[s \ {Pick(s)}] = 0 /\ f[Pick(s)] = 0 BY <1>4, <2>1
  <2>3. g[s] = 0 BY <1>2, <1>4, <2>2 DEF AddOne
  <2> QED BY <2>3
<1>5. K \in SUBSET SUBSET S OBVIOUS
<1> HIDE DEF K
<1>6. K = SUBSET S BY <1>3, <1>4, <1>5, SubsetInduction
<1>7. g[S] = 0 BY <1>6 DEF K
<1> QED BY <1>1, <1>7, SumFunctionIs

LEMMA SumOfNaturals ==
  ASSUME NEW S, IsFiniteSet(S), NEW f \in [S -> Nat]
  PROVE  SumFunction(f) \in Nat
<1>1. PICK g : Sums(f, S, g) /\ SumFunctionOnSet(f, S) = g[S] BY SumIsSum
<1>2. g[S] \in Nat BY <1>1, SumsType
<1> QED BY <1>1, <1>2, SumFunctionIs

\* What a source takes, it takes from the others in proportion.
LEMMA MixedSum ==
  ASSUME NEW S, IsFiniteSet(S), NEW shares \in [S -> Nat], NEW id \in S, NEW whole \in Nat,
         NEW share \in 0 .. Unit
  PROVE  /\ Mixed(shares, id, share, whole) \in [S -> Nat]
         /\ SumFunction(Mixed(shares, id, share, whole)) = SumFunction(shares) * (Unit - share) + whole * share
<1> DEFINE M == Mixed(shares, id, share, whole)
           r == Unit - share
           t == whole * share
<1>1. Unit \in Nat /\ r \in Nat
  <2>1. 0 \in Nat OBVIOUS
  <2>2. Unit \in Nat BY <2>1, WeightType
  <2> QED BY <2>2
<1>2. t \in Nat BY <1>1
<1>3. M = [i \in S |-> shares[i] * r + (IF i = id THEN t ELSE 0)] BY DEF Mixed
<1> HIDE DEF M, r, t
<1>4. M \in [S -> Nat]
  <2> SUFFICES ASSUME NEW i \in S PROVE shares[i] * r + (IF i = id THEN t ELSE 0) \in Nat
    BY <1>3
  <2>1. shares[i] * r \in Nat BY <1>1
  <2> QED BY <1>2, <2>1
<1>5. PICK g : Sums(shares, S, g) /\ SumFunctionOnSet(shares, S) = g[S] BY SumIsSum
<1>6. PICK h : Sums(M, S, h) /\ SumFunctionOnSet(M, S) = h[S] BY SumIsSum
<1>7. \A s \in SUBSET S : g[s] \in Nat /\ h[s] \in Nat BY <1>4, <1>5, <1>6, SumsType
<1>8. \A s \in SUBSET S : \A x \in s : g[s] = shares[x] + g[s \ {x}] /\ h[s] = M[x] + h[s \ {x}]
  <2>1. Splits(shares, S, g) BY <1>5, SumsAnyOrder
  <2>2. Splits(M, S, h) BY <1>4, <1>6, SumsAnyOrder
  <2>3. \A s \in SUBSET S : \A x \in s : g[s] = shares[x] + g[s \ {x}] BY <2>1 DEF Splits
  <2>4. \A s \in SUBSET S : \A x \in s : h[s] = M[x] + h[s \ {x}] BY <2>2 DEF Splits
  <2> QED BY <2>3, <2>4
<1>9. g[{}] = 0 /\ h[{}] = 0
  <2>1. g[{}] = AddOne(shares, g, {}) /\ h[{}] = AddOne(M, h, {}) BY <1>5, <1>6 DEF Sums
  <2> QED BY <2>1 DEF AddOne
<1> DEFINE K == {s \in SUBSET S : h[s] = g[s] * r + (IF id \in s THEN t ELSE 0)}
<1>10. {} \in K
  <2>1. 0 = 0 * r + 0 BY <1>1
  <2> QED BY <1>9, <2>1
<1>11. ASSUME NEW s \in SUBSET S, s # {}, \A x \in s : s \ {x} \in K PROVE s \in K
  <2>1. PICK x \in s : TRUE BY <1>11
  <2>2. h[s \ {x}] = g[s \ {x}] * r + (IF id \in s \ {x} THEN t ELSE 0) BY <1>11
  <2>3. h[s] = M[x] + h[s \ {x}] /\ g[s] = shares[x] + g[s \ {x}] BY <1>8
  <2>4. M[x] = shares[x] * r + (IF x = id THEN t ELSE 0) BY <1>3
  <2>5. shares[x] \in Nat /\ g[s \ {x}] \in Nat BY <1>7
  <2>6. (shares[x] + g[s \ {x}]) * r = shares[x] * r + g[s \ {x}] * r BY <1>1, <2>5
  <2>7. shares[x] * r \in Nat /\ g[s \ {x}] * r \in Nat BY <1>1, <2>5
  <2>8. CASE x = id
    <3>1. M[x] = shares[x] * r + t /\ h[s \ {x}] = g[s \ {x}] * r + 0 /\ id \in s BY <2>2, <2>4, <2>8
    <3>2. h[s] = g[s] * r + t BY <1>2, <2>3, <2>6, <2>7, <3>1
    <3> QED BY <3>1, <3>2
  <2>9. CASE x # id
    <3>1. M[x] = shares[x] * r + 0 BY <2>4, <2>9
    <3>2. h[s \ {x}] = g[s \ {x}] * r + (IF id \in s THEN t ELSE 0) BY <2>2, <2>9
    <3>3. (IF id \in s THEN t ELSE 0) \in Nat BY <1>2
    <3>4. h[s] = g[s] * r + (IF id \in s THEN t ELSE 0) BY <2>3, <2>6, <2>7, <3>1, <3>2, <3>3
    <3> QED BY <3>4
  <2> QED BY <2>8, <2>9
<1>12. K \in SUBSET SUBSET S OBVIOUS
<1> HIDE DEF K
<1>13. K = SUBSET S BY <1>10, <1>11, <1>12, SubsetInduction
<1>14. h[S] = g[S] * r + t BY <1>13 DEF K
<1>15. SumFunction(shares) = g[S] /\ SumFunction(M) = h[S] BY <1>4, <1>5, <1>6, SumFunctionIs
<1> QED BY <1>4, <1>14, <1>15 DEF M, r, t

-----------------------------------------------------------------------------
(* One source after the other *)

\* The weights of a source on the terrain so far.
WeightsOn(ground, source, side) ==
  [p \in DOMAIN source.flags |->
     WeightAt(source, p, BoundaryDistance(Measured(source), side),
              LowPass(Measured(source), side, Passes(ground, source)))]

LEMMA FuseSourceIs ==
  ASSUME NEW ground, NEW source, NEW side
  PROVE  LET after == FuseSource(ground, source, side)
             weight == WeightsOn(ground, source, side)
         IN  /\ after.whole = ground.whole * Unit
             /\ DOMAIN after.points = Points(side)
             /\ \A p \in Points(side) :
                  after.points[p].shares =
                    Mixed(ground.points[p].shares, source.id,
                          Share(source, ground.points[p], p, weight), ground.whole)
BY Zenon DEF FuseSource, WeightsOn, FusePoint

LEMMA ShareBounds ==
  ASSUME NEW side \in Nat, NEW ground, NEW source, DOMAIN source.flags \subseteq Points(side),
         NEW point, NEW p \in Points(side)
  PROVE  LET share == Share(source, point, p, WeightsOn(ground, source, side))
         IN  /\ share \in 0 .. Unit
             /\ p \notin DOMAIN source.flags => share = 0
             /\ p \in DOMAIN source.flags /\ Fresh(point) => share = Unit
<1> DEFINE d == BoundaryDistance(Measured(source), side)
           filtered == LowPass(Measured(source), side, Passes(ground, source))
           weight == WeightsOn(ground, source, side)
           share == Share(source, point, p, weight)
<1>1. d \in [Points(side) -> Nat] BY DistanceSteps
<1>2. p \in DOMAIN source.flags => weight[p] = WeightAt(source, p, d, filtered) BY DEF WeightsOn
<1> HIDE DEF d, filtered, weight
<1>3. Unit \in Nat /\ TransitionWeight(d[p]) \in 0 .. Unit /\ TransitionWeight(d[p]) \div 2 \in 0 .. Unit
  BY <1>1, WeightType
<1>4. p \in DOMAIN source.flags =>
        weight[p] \in {0, TransitionWeight(d[p])}
  BY <1>2 DEF WeightAt
<1>5. 0 \div 2 = 0 OBVIOUS
<1>6. share \in 0 .. Unit BY <1>3, <1>4, <1>5 DEF Share
<1> QED BY <1>6 DEF Share, weight

SampledBy(ordered, k, p) == \E j \in 1 .. k : p \in DOMAIN ordered[j].flags

\* The sources are from some identifiers, and have samples on the grid only.
GoodOrder(ordered, ids, side, n) ==
  /\ IsFiniteSet(ids) /\ n \in Nat
  /\ \A k \in 1 .. n : ordered[k].id \in ids /\ DOMAIN ordered[k].flags \subseteq Points(side)

\* What is shared among the first k sources: everything where one of them has a
\* sample; and a source has a share only where it has a sample.
Accounted(ground, ordered, ids, side, k) ==
  /\ DOMAIN ground.points = Points(side) /\ ground.whole \in Nat \ {0}
  /\ \A p \in Points(side) :
       LET shares == ground.points[p].shares
       IN  /\ shares \in [ids -> Nat]
           /\ SampledBy(ordered, k, p) => SumFunction(shares) = ground.whole
           /\ \A i \in ids : shares[i] > 0 =>
                \E j \in 1 .. k : ordered[j].id = i /\ p \in DOMAIN ordered[j].flags

\* Where one of the sources has a sample, and only there, is the point not fresh.
LEMMA FreshMeans ==
  ASSUME NEW ground, NEW ordered, NEW ids, NEW side, NEW k \in Nat, IsFiniteSet(ids),
         Accounted(ground, ordered, ids, side, k), NEW p \in Points(side)
  PROVE  Fresh(ground.points[p]) <=> ~SampledBy(ordered, k, p)
<1> DEFINE shares == ground.points[p].shares
<1>1. /\ shares \in [ids -> Nat] /\ ground.whole \in Nat \ {0}
      /\ SampledBy(ordered, k, p) => SumFunction(shares) = ground.whole
      /\ \A i \in ids : shares[i] > 0 =>
           \E j \in 1 .. k : ordered[j].id = i /\ p \in DOMAIN ordered[j].flags
  BY DEF Accounted
<1>2. Fresh(ground.points[p]) <=> \A i \in ids : shares[i] = 0 BY <1>1 DEF Fresh
<1> HIDE DEF shares
<1>3. ASSUME \A i \in ids : shares[i] = 0 PROVE ~SampledBy(ordered, k, p)
  <2>1. SumFunction(shares) = 0 BY <1>1, <1>3, SumOfZeros
  <2> QED BY <1>1, <2>1
<1>4. ASSUME ~SampledBy(ordered, k, p), NEW i \in ids PROVE shares[i] = 0
  <2>1. ~(shares[i] > 0) BY <1>1, <1>4 DEF SampledBy
  <2> QED BY <1>1, <2>1
<1> QED BY <1>2, <1>3, <1>4

LEMMA AccountedStep ==
  ASSUME NEW side \in Nat, NEW ordered, NEW ids, NEW n, GoodOrder(ordered, ids, side, n),
         NEW k \in Nat, k < n, NEW ground, Accounted(ground, ordered, ids, side, k)
  PROVE  Accounted(FuseSource(ground, ordered[k + 1], side), ordered, ids, side, k + 1)
<1> DEFINE source == ordered[k + 1]
           after == FuseSource(ground, source, side)
           weight == WeightsOn(ground, source, side)
<1>0. /\ IsFiniteSet(ids) /\ n \in Nat /\ k + 1 \in 1 .. n
      /\ source.id \in ids /\ DOMAIN source.flags \subseteq Points(side)
  BY DEF GoodOrder
<1> HIDE DEF source
<1>1. Unit \in Nat \ {0}
  <2>1. Unit = 2 * Cube /\ Cube \in Nat
    <3>1. 0 \in Nat OBVIOUS
    <3> QED BY <3>1, WeightType
  <2>2. TransitionWidth \in Nat \ {0} BY FusionAssumption
  <2>3. Cube # 0 BY <2>2 DEF Cube
  <2> QED BY <2>1, <2>3
<1>2. /\ after.whole = ground.whole * Unit /\ DOMAIN after.points = Points(side)
      /\ \A p \in Points(side) :
           after.points[p].shares =
             Mixed(ground.points[p].shares, source.id, Share(source, ground.points[p], p, weight), ground.whole)
  BY FuseSourceIs
<1> DEFINE S(p) == Share(source, ground.points[p], p, weight)
<1>3. \A p \in Points(side) :
        /\ S(p) \in 0 .. Unit
        /\ p \notin DOMAIN source.flags => S(p) = 0
        /\ p \in DOMAIN source.flags /\ Fresh(ground.points[p]) => S(p) = Unit
  BY <1>0, ShareBounds
<1> HIDE DEF after, weight
<1>4. ground.whole \in Nat \ {0} BY DEF Accounted
<1>5. ground.whole * Unit \in Nat \ {0} BY <1>1, <1>4
<1>6. ASSUME NEW p \in Points(side)
      PROVE  /\ after.points[p].shares \in [ids -> Nat]
             /\ SampledBy(ordered, k + 1, p) => SumFunction(after.points[p].shares) = after.whole
             /\ \A i \in ids : after.points[p].shares[i] > 0 =>
                  \E j \in 1 .. k + 1 : ordered[j].id = i /\ p \in DOMAIN ordered[j].flags
  <2> DEFINE shares == ground.points[p].shares
             new == after.points[p].shares
             share == S(p)
             whole == ground.whole
             sum == SumFunction(shares)
  <2>1. shares \in [ids -> Nat] /\ (SampledBy(ordered, k, p) => sum = whole) BY DEF Accounted
  <2>2. \A i \in ids : shares[i] > 0 => \E j \in 1 .. k : ordered[j].id = i /\ p \in DOMAIN ordered[j].flags
    BY DEF Accounted
  <2>3. new = Mixed(shares, source.id, share, whole) BY <1>2
  <2>4. /\ share \in 0 .. Unit /\ (p \notin DOMAIN source.flags => share = 0)
        /\ p \in DOMAIN source.flags /\ Fresh(ground.points[p]) => share = Unit
    BY <1>3
  <2>5. Fresh(ground.points[p]) <=> ~SampledBy(ordered, k, p) BY <1>0, FreshMeans
  <2>6. Fresh(ground.points[p]) <=> \A i \in ids : shares[i] = 0 BY <2>1 DEF Fresh
  <2>7. SampledBy(ordered, k + 1, p) <=> SampledBy(ordered, k, p) \/ p \in DOMAIN source.flags
    <3>1. 1 .. k + 1 = (1 .. k) \cup {k + 1} OBVIOUS
    <3> QED BY <3>1 DEF SampledBy, source
  <2> HIDE DEF S, shares, new, share
  <2>8. new \in [ids -> Nat] /\ SumFunction(new) = sum * (Unit - share) + whole * share
    BY <1>0, <1>4, <2>1, <2>3, <2>4, MixedSum
  <2> HIDE DEF sum
  <2>9. ASSUME SampledBy(ordered, k + 1, p) PROVE SumFunction(new) = after.whole
    <3>1. CASE SampledBy(ordered, k, p)
      <4>1. sum = whole BY <2>1, <3>1
      <4>2. whole * (Unit - share) + whole * share = whole * Unit BY <1>1, <1>4, <2>4
      <4> QED BY <1>2, <2>8, <4>1, <4>2
    <3>2. CASE ~SampledBy(ordered, k, p)
      <4>1. share = Unit BY <2>4, <2>5, <2>7, <2>9, <3>2
      <4>2. sum = 0 BY <1>0, <2>1, <2>5, <2>6, <3>2, SumOfZeros DEF sum
      <4>3. 0 * (Unit - Unit) + whole * Unit = whole * Unit BY <1>1, <1>4
      <4> QED BY <1>2, <2>8, <4>1, <4>2, <4>3
    <3> QED BY <3>1, <3>2
  <2>10. ASSUME NEW i \in ids, new[i] > 0
         PROVE  \E j \in 1 .. k + 1 : ordered[j].id = i /\ p \in DOMAIN ordered[j].flags
    <3>1. new[i] = shares[i] * (Unit - share) + (IF i = source.id THEN whole * share ELSE 0)
      BY <2>1, <2>3 DEF Mixed
    <3>2. CASE shares[i] > 0
      <4>1. PICK j \in 1 .. k : ordered[j].id = i /\ p \in DOMAIN ordered[j].flags BY <2>2, <3>2
      <4> QED BY <4>1
    <3>3. CASE ~(shares[i] > 0)
      <4>1. shares[i] = 0 BY <2>1, <3>3
      <4>2. 0 * (Unit - share) = 0 BY <1>1, <2>4
      <4>3. new[i] = (IF i = source.id THEN whole * share ELSE 0)
        <5>1. (IF i = source.id THEN whole * share ELSE 0) \in Int BY <1>1, <1>4, <2>4
        <5> QED BY <3>1, <4>1, <4>2, <5>1
      <4>4. i = source.id /\ whole * share > 0 BY <2>10, <4>3
      <4>5. share # 0 BY <1>4, <4>4
      <4>6. p \in DOMAIN source.flags BY <2>4, <4>5
      <4> QED BY <4>4, <4>6 DEF source
    <3> QED BY <3>2, <3>3
  <2> QED BY <2>8, <2>9, <2>10 DEF new
<1> QED BY <1>2, <1>5, <1>6 DEF Accounted, after, source

Layers(sources, ordered, side, n, f) ==
  f = [k \in 0 .. n |-> IF k = 0 THEN Start(sources, ordered, side)
                        ELSE FuseSource(f[k - 1], ordered[k], side)]

LEMMA LayersExist ==
  ASSUME NEW sources, NEW ordered, NEW side
  PROVE  \A n \in Nat : \E f : Layers(sources, ordered, side, n, f)
<1> DEFINE Known == {n \in Nat : \E f : Layers(sources, ordered, side, n, f)}
           from == Start(sources, ordered, side)
<1>1. 0 \in Known
  <2> DEFINE f == [k \in 0 .. 0 |-> from]
  <2> HIDE DEF from
  <2>1. \A k \in 0 .. 0 : k = 0 /\ f[k] = from OBVIOUS
  <2>2. f = [k \in 0 .. 0 |-> IF k = 0 THEN from ELSE FuseSource(f[k - 1], ordered[k], side)] OBVIOUS
  <2>3. Layers(sources, ordered, side, 0, f) BY <2>2 DEF Layers, from
  <2> QED BY <2>3
<1>2. ASSUME NEW n \in Known PROVE n + 1 \in Known
  <2>1. n \in Nat OBVIOUS
  <2>2. PICK f : Layers(sources, ordered, side, n, f) OBVIOUS
  <2> DEFINE g == [k \in 0 .. n + 1 |-> IF k = n + 1 THEN FuseSource(f[n], ordered[n + 1], side) ELSE f[k]]
  <2>3. \A k \in 0 .. n : f[k] = IF k = 0 THEN from ELSE FuseSource(f[k - 1], ordered[k], side)
    BY <2>2 DEF Layers
  <2> HIDE DEF from
  <2>4. ASSUME NEW k \in 0 .. n + 1
        PROVE  g[k] = IF k = 0 THEN from ELSE FuseSource(g[k - 1], ordered[k], side)
    <3>1. CASE k = n + 1
      <4>1. n \in 0 .. n + 1 /\ n # n + 1 /\ k # 0 /\ k - 1 = n BY <2>1, <3>1
      <4>2. g[n] = f[n] /\ g[k] = FuseSource(f[n], ordered[n + 1], side) BY <3>1, <4>1
      <4> HIDE DEF g
      <4> QED BY <3>1, <4>1, <4>2
    <3>2. CASE k \in 0 .. n
      <4>1. g[k] = f[k] /\ (k # 0 => g[k - 1] = f[k - 1]) BY <2>1, <3>2
      <4> HIDE DEF g
      <4> QED BY <2>3, <3>2, <4>1
    <3> QED BY <2>1, <3>1, <3>2
  <2>5. g = [k \in 0 .. n + 1 |-> g[k]] OBVIOUS
  <2> HIDE DEF g
  <2>6. Layers(sources, ordered, side, n + 1, g) BY <2>4, <2>5 DEF Layers, from
  <2> QED BY <2>1, <2>6
<1> HIDE DEF Known
<1>3. Known = Nat
  <2>1. Known \in SUBSET Nat BY DEF Known
  <2> QED BY <1>1, <1>2, <2>1, Induction
<1> QED BY <1>3 DEF Known

\* Terrain is what the last source makes of that before it; all is accounted for.
LastLayer(ground, ordered, ids, side, n) ==
  /\ Accounted(ground, ordered, ids, side, n)
  /\ \E before : /\ Accounted(before, ordered, ids, side, n - 1)
                 /\ ground = FuseSource(before, ordered[n], side)

LEMMA LayeredAccounted ==
  ASSUME NEW sources, NEW ordered, NEW side \in Nat, NEW n \in Nat \ {0}, Len(ordered) = n,
         GoodOrder(ordered, Identifiers(sources), side, n)
  PROVE  LastLayer(Layered(sources, ordered, side), ordered, Identifiers(sources), side, n)
<1> DEFINE F == CHOOSE f : Layers(sources, ordered, side, n, f)
           ids == Identifiers(sources)
           from == Start(sources, ordered, side)
<1>1. Layers(sources, ordered, side, n, F) BY LayersExist, Zenon
<1>2. Layered(sources, ordered, side) = F[n] BY Zenon DEF Layered, Layers
<1> HIDE DEF F
<1>3. \A k \in 0 .. n : F[k] = IF k = 0 THEN from ELSE FuseSource(F[k - 1], ordered[k], side)
  BY <1>1 DEF Layers
<1>4. Accounted(from, ordered, ids, side, 0)
  <2>1. /\ DOMAIN from.points = Points(side) /\ from.whole = 1
        /\ \A p \in Points(side) : from.points[p].shares = [i \in ids |-> 0]
    BY DEF Start, Untouched
  <2>2. ASSUME NEW p \in Points(side)
        PROVE  /\ from.points[p].shares \in [ids -> Nat]
               /\ \A i \in ids : ~(from.points[p].shares[i] > 0)
    BY <2>1
  <2>3. \A p : ~SampledBy(ordered, 0, p) BY DEF SampledBy
  <2> HIDE DEF from, ids
  <2> QED BY <2>1, <2>2, <2>3 DEF Accounted
<1> HIDE DEF from
<1> DEFINE K == {k \in Nat : k <= n => Accounted(F[k], ordered, ids, side, k)}
<1>5. 0 \in K BY <1>3, <1>4
<1>6. ASSUME NEW k \in K PROVE k + 1 \in K
  <2> SUFFICES ASSUME k + 1 <= n PROVE Accounted(F[k + 1], ordered, ids, side, k + 1)
    OBVIOUS
  <2>1. k \in Nat /\ k < n /\ Accounted(F[k], ordered, ids, side, k) OBVIOUS
  <2>2. F[k + 1] = FuseSource(F[k], ordered[k + 1], side)
    <3>1. k + 1 \in 0 .. n /\ k + 1 # 0 /\ (k + 1) - 1 = k BY <2>1
    <3> QED BY <1>3, <3>1
  <2> HIDE DEF ids
  <2>3. GoodOrder(ordered, ids, side, n) BY DEF ids
  <2> QED BY <2>1, <2>2, <2>3, AccountedStep
<1> HIDE DEF K
<1>7. K = Nat
  <2>1. K \in SUBSET Nat BY DEF K
  <2> QED BY <1>5, <1>6, <2>1, Induction
<1>8. Accounted(F[n], ordered, ids, side, n) /\ Accounted(F[n - 1], ordered, ids, side, n - 1)
  <2>1. n \in K /\ n - 1 \in K /\ n - 1 <= n BY <1>7
  <2> QED BY <2>1 DEF K
<1>9. F[n] = FuseSource(F[n - 1], ordered[n], side)
  <2>1. n \in 0 .. n /\ n # 0 OBVIOUS
  <2> QED BY <1>3, <2>1
<1> QED BY <1>2, <1>8, <1>9 DEF ids, LastLayer

-----------------------------------------------------------------------------
(* The order of the sources *)

Distinct(sources, n) ==
  /\ n \in Nat /\ DOMAIN sources = 1 .. n
  /\ \A k \in 1 .. n : sources[k].id \in Nat /\ sources[k].priority \in Int
  /\ \A j, k \in 1 .. n : sources[j].id = sources[k].id => j = k

Before(sources, k) == {j \in DOMAIN sources : Precedes(sources[j], sources[k])}

\* Before a source come fewer than before one that it precedes.
LEMMA FewerBefore ==
  ASSUME NEW n, NEW sources, Distinct(sources, n), NEW j \in 1 .. n, NEW k \in 1 .. n,
         Precedes(sources[j], sources[k])
  PROVE  Cardinality(Before(sources, j)) < Cardinality(Before(sources, k))
<1>1. n \in Nat /\ DOMAIN sources = 1 .. n BY DEF Distinct
<1>2. IsFiniteSet(1 .. n) BY <1>1, FS_Interval
<1>3. Before(sources, j) \in SUBSET (1 .. n) /\ Before(sources, k) \in SUBSET (1 .. n)
  BY <1>1 DEF Before
<1>4. IsFiniteSet(Before(sources, j)) /\ IsFiniteSet(Before(sources, k)) BY <1>2, <1>3, FS_Subset
<1>5. j \notin Before(sources, j)
  <2>1. sources[j].id \in Nat /\ sources[j].priority \in Int BY DEF Distinct
  <2>2. ~Precedes(sources[j], sources[j]) BY <2>1 DEF Precedes
  <2> QED BY <2>2 DEF Before
<1>6. Before(sources, j) \cup {j} \in SUBSET Before(sources, k)
  <2>1. ASSUME NEW i \in 1 .. n, Precedes(sources[i], sources[j]) PROVE Precedes(sources[i], sources[k])
    <3>1. /\ sources[i].id \in Nat /\ sources[i].priority \in Int
          /\ sources[j].id \in Nat /\ sources[j].priority \in Int
          /\ sources[k].id \in Nat /\ sources[k].priority \in Int
      BY DEF Distinct
    <3> QED BY <2>1, <3>1 DEF Precedes
  <2> QED BY <1>1, <2>1 DEF Before
<1>7. Cardinality(Before(sources, j) \cup {j}) = Cardinality(Before(sources, j)) + 1
  BY <1>4, <1>5, FS_AddElement
<1>8. Cardinality(Before(sources, j) \cup {j}) <= Cardinality(Before(sources, k))
  BY <1>4, <1>6, FS_Subset
<1>9. Cardinality(Before(sources, j)) \in Nat /\ Cardinality(Before(sources, k)) \in Nat
  BY <1>4, FS_CardinalityType
<1> QED BY <1>7, <1>8, <1>9

\* Every source has its place in the order, and no two have the same.
LEMMA OrderedIs ==
  ASSUME NEW n, NEW sources, Distinct(sources, n)
  PROVE  LET o == Ordered(sources)
         IN  /\ DOMAIN o = 1 .. n /\ Len(o) = n
             /\ \A m \in 1 .. n : \E k \in 1 .. n : o[m] = sources[k]
             /\ \A k \in 1 .. n : \E m \in 1 .. n : o[m] = sources[k]
             /\ \A l, m \in 1 .. n : o[l].id = o[m].id => l = m
<1> DEFINE place == [k \in 1 .. n |-> Cardinality(Before(sources, k)) + 1]
           which == [m \in 1 .. n |-> CHOOSE k \in 1 .. n : place[k] = m]
           o == Ordered(sources)
<1>1. n \in Nat /\ DOMAIN sources = 1 .. n BY DEF Distinct
<1>2. IsFiniteSet(1 .. n) /\ Cardinality(1 .. n) = n BY <1>1, FS_Interval
<1>3. \A k \in 1 .. n : Cardinality(Before(sources, k)) \in 0 .. n - 1
  <2> SUFFICES ASSUME NEW k \in 1 .. n PROVE Cardinality(Before(sources, k)) \in 0 .. n - 1
    OBVIOUS
  <2>1. sources[k].id \in Nat /\ sources[k].priority \in Int BY DEF Distinct
  <2>2. ~Precedes(sources[k], sources[k]) BY <2>1 DEF Precedes
  <2>3. Before(sources, k) \in SUBSET ((1 .. n) \ {k}) BY <1>1, <2>2 DEF Before
  <2>4. IsFiniteSet((1 .. n) \ {k}) /\ Cardinality((1 .. n) \ {k}) = n - 1 BY <1>2, FS_RemoveElement
  <2>5. IsFiniteSet(Before(sources, k)) /\ Cardinality(Before(sources, k)) <= n - 1
    BY <2>3, <2>4, FS_Subset
  <2>6. Cardinality(Before(sources, k)) \in Nat BY <2>5, FS_CardinalityType
  <2> QED BY <1>1, <2>5, <2>6
<1>4. \A k \in 1 .. n : place[k] = Cardinality(Before(sources, k)) + 1 OBVIOUS
<1>5. place \in [1 .. n -> 1 .. n] BY <1>1, <1>3
<1> HIDE DEF place
<1>6. \A j, k \in 1 .. n : place[j] = place[k] => j = k
  <2> SUFFICES ASSUME NEW j \in 1 .. n, NEW k \in 1 .. n, j # k PROVE place[j] # place[k]
    OBVIOUS
  <2>1. /\ sources[j].id \in Nat /\ sources[j].priority \in Int
        /\ sources[k].id \in Nat /\ sources[k].priority \in Int
        /\ sources[j].id # sources[k].id
    BY DEF Distinct
  <2>2. Precedes(sources[j], sources[k]) \/ Precedes(sources[k], sources[j]) BY <2>1 DEF Precedes
  <2>3. \/ Cardinality(Before(sources, j)) < Cardinality(Before(sources, k))
        \/ Cardinality(Before(sources, k)) < Cardinality(Before(sources, j))
    BY <2>2, FewerBefore
  <2>4. Cardinality(Before(sources, j)) \in Nat /\ Cardinality(Before(sources, k)) \in Nat BY <1>3
  <2> QED BY <1>4, <2>3, <2>4
<1>7. place \in Surjection(1 .. n, 1 .. n)
  <2>1. place \in Injection(1 .. n, 1 .. n) BY <1>5, <1>6 DEF Injection, IsInjective
  <2> QED BY <1>2, <2>1, FS_Injection
<1>8. \A m \in 1 .. n : \E k \in 1 .. n : place[k] = m BY <1>7 DEF Surjection
<1>9. \A m \in 1 .. n : which[m] \in 1 .. n /\ place[which[m]] = m
  <2> SUFFICES ASSUME NEW m \in 1 .. n PROVE which[m] \in 1 .. n /\ place[which[m]] = m
    OBVIOUS
  <2>1. \E k \in 1 .. n : place[k] = m BY <1>8
  <2>2. which[m] = CHOOSE k \in 1 .. n : place[k] = m OBVIOUS
  <2> HIDE DEF which
  <2> QED BY <2>1, <2>2
<1>10. \A m \in 1 .. n : which[m] = CHOOSE k \in DOMAIN sources : Cardinality(Before(sources, k)) + 1 = m
  <2> SUFFICES ASSUME NEW m \in 1 .. n
               PROVE  which[m] = CHOOSE k \in DOMAIN sources : Cardinality(Before(sources, k)) + 1 = m
    OBVIOUS
  <2>1. \A k \in 1 .. n : place[k] = m <=> Cardinality(Before(sources, k)) + 1 = m BY <1>4
  <2>2. which[m] = CHOOSE k \in 1 .. n : place[k] = m OBVIOUS
  <2>3. (CHOOSE k \in 1 .. n : place[k] = m) = CHOOSE k \in 1 .. n : Cardinality(Before(sources, k)) + 1 = m
    BY <2>1
  <2> QED BY <1>1, <2>2, <2>3
<1> HIDE DEF which
<1>11. o = [m \in 1 .. n |-> sources[which[m]]]
  <2> DEFINE At(m) == CHOOSE k \in DOMAIN sources : Cardinality(Before(sources, k)) + 1 = m
  <2>1. o = [m \in DOMAIN sources |-> sources[At(m)]] BY Zenon DEF Ordered, Before
  <2> HIDE DEF o, At
  <2>2. \A m \in 1 .. n : which[m] = At(m) BY <1>10 DEF At
  <2> QED BY <1>1, <2>1, <2>2
<1> HIDE DEF o
<1>12. DOMAIN o = 1 .. n /\ Len(o) = n BY <1>1, <1>11
<1>13. \A m \in 1 .. n : o[m] = sources[which[m]] BY <1>11
<1>14. \A m \in 1 .. n : \E k \in 1 .. n : o[m] = sources[k] BY <1>9, <1>13
<1>15. \A k \in 1 .. n : \E m \in 1 .. n : o[m] = sources[k]
  <2> SUFFICES ASSUME NEW k \in 1 .. n PROVE \E m \in 1 .. n : o[m] = sources[k]
    OBVIOUS
  <2>1. place[k] \in 1 .. n BY <1>5
  <2>2. which[place[k]] = k BY <1>6, <1>9, <2>1
  <2> QED BY <1>13, <2>1, <2>2
<1>16. ASSUME NEW l \in 1 .. n, NEW m \in 1 .. n, o[l].id = o[m].id PROVE l = m
  <2>1. sources[which[l]].id = sources[which[m]].id BY <1>13, <1>16
  <2>2. which[l] = which[m] BY <1>9, <2>1 DEF Distinct
  <2> QED BY <1>9, <2>2
<1> QED BY <1>12, <1>14, <1>15, <1>16 DEF o

-----------------------------------------------------------------------------
(* The source that is fused last *)

LEMMA NearScaled ==
  ASSUME NEW a \in Nat, NEW b \in Nat, Near(a, b), NEW whole \in Nat
  PROVE  2 * TransitionWidth * (whole * a - whole * b) \in -3 * (whole * Unit) .. 3 * (whole * Unit)
<1> DEFINE x == 2 * TransitionWidth * (a - b)
<1>1. TransitionWidth \in Nat /\ Unit \in Nat
  <2>1. 0 \in Nat OBVIOUS
  <2> QED BY <2>1, WeightType, FusionAssumption
<1>2. x \in Int /\ 2 * TransitionWidth * (whole * a - whole * b) = whole * x BY <1>1
<1>3. x \in -3 * Unit .. 3 * Unit BY DEF Near
<1> HIDE DEF x
<1>4. 3 * Unit - x \in Nat /\ x + 3 * Unit \in Nat BY <1>1, <1>2, <1>3
<1>5. whole * (3 * Unit - x) \in Nat /\ whole * (x + 3 * Unit) \in Nat BY <1>4
<1>6. whole * (3 * Unit - x) = 3 * (whole * Unit) - whole * x BY <1>1, <1>2
<1>7. whole * (x + 3 * Unit) = whole * x + 3 * (whole * Unit) BY <1>1, <1>2
<1>8. whole * x \in Int /\ whole * Unit \in Nat BY <1>1, <1>2
<1>9. whole * x \in -3 * (whole * Unit) .. 3 * (whole * Unit)
  BY <1>5, <1>6, <1>7, <1>8
<1> QED BY <1>2, <1>9

\* Where there is terrain already, the shares of a source are near each other from
\* a sample to its neighbor. Where a refinement has no filtered sample, it is near
\* its boundary, and its weight is small anyway.
LEMMA SharesNear ==
  ASSUME NEW side \in Nat, side > 1, NEW ground, NEW source, DOMAIN source.flags \subseteq Points(side),
         NEW p \in Points(side), NEW q \in Points(side), Adjacent(p, q),
         ~Fresh(ground.points[p]), ~Fresh(ground.points[q])
  PROVE  LET weight == WeightsOn(ground, source, side)
         IN  Near(Share(source, ground.points[p], p, weight), Share(source, ground.points[q], q, weight))
<1> DEFINE measured == Measured(source)
           d == BoundaryDistance(measured, side)
           passes == Passes(ground, source)
           filtered == LowPass(measured, side, passes)
           weight == WeightsOn(ground, source, side)
           T(r) == TransitionWeight(d[r])
           S(r) == Share(source, ground.points[r], r, weight)
<1>1. /\ d \in [Points(side) -> Nat]
      /\ \A r \in Points(side) : r \notin measured => d[r] = 0
      /\ \A r, s \in Points(side) : Adjacent(r, s) => d[r] <= d[s] + 1 /\ d[s] <= d[r] + 1
  BY DistanceSteps
<1>2. measured \subseteq DOMAIN source.flags BY DEF Measured
<1>3. passes \in Nat BY PassCountType DEF Passes
<1>4. \A r \in DOMAIN source.flags : weight[r] = WeightAt(source, r, d, filtered) BY DEF WeightsOn
<1> HIDE DEF measured, passes
<1>5. \A r \in Points(side) : r \notin filtered => d[r] <= 2
  <2> SUFFICES ASSUME NEW r \in Points(side), r \notin filtered PROVE d[r] <= 2
    OBVIOUS
  <2>1. ~(BoundaryDistance(measured, side)[r] > 2) BY <1>3, FilteredInside
  <2>2. d[r] \in Nat BY <1>1
  <2> QED BY <2>1, <2>2
<1> HIDE DEF d, filtered, weight
<1>6. \A r \in Points(side) : r \notin DOMAIN source.flags => d[r] = 0 /\ T(r) = 0 /\ T(r) \div 2 = 0
  <2> SUFFICES ASSUME NEW r \in Points(side), r \notin DOMAIN source.flags
               PROVE  d[r] = 0 /\ T(r) = 0 /\ T(r) \div 2 = 0
    OBVIOUS
  <2>1. d[r] = 0 BY <1>1, <1>2
  <2>2. T(r) = 0 BY <2>1 DEF TransitionWeight
  <2>3. 0 \div 2 = 0 OBVIOUS
  <2> QED BY <2>1, <2>2, <2>3
<1>7. d[p] \in Nat /\ d[q] \in Nat /\ d[p] <= d[q] + 1 /\ d[q] <= d[p] + 1 BY <1>1
<1>8. ASSUME NEW r \in {p, q}
      PROVE  S(r) = IF source.policy # "residual_refinement_v1" THEN T(r)
                    ELSE IF r \in filtered THEN T(r) \div 2 ELSE 0
  <2>1. r \in Points(side) /\ ~Fresh(ground.points[r]) OBVIOUS
  <2>2. CASE r \notin DOMAIN source.flags
    <3>1. S(r) = 0 BY <2>2 DEF Share
    <3>2. T(r) = 0 /\ T(r) \div 2 = 0 BY <1>6, <2>1, <2>2
    <3> HIDE DEF S, T
    <3> QED BY <3>1, <3>2
  <2>3. CASE r \in DOMAIN source.flags
    <3>1. S(r) = IF source.policy = "residual_refinement_v1" THEN weight[r] \div 2 ELSE weight[r]
      BY <2>1, <2>3 DEF Share
    <3>2. weight[r] = IF source.policy = "residual_refinement_v1" /\ r \notin filtered THEN 0 ELSE T(r)
      BY <1>4, <2>3 DEF WeightAt
    <3>3. 0 \div 2 = 0 OBVIOUS
    <3> HIDE DEF S, T
    <3> QED BY <3>1, <3>2, <3>3
  <2> QED BY <2>2, <2>3
<1>9. /\ Near(T(p), T(q)) /\ Near(T(p) \div 2, T(q) \div 2)
      /\ d[p] <= 3 => Near(T(p) \div 2, 0) /\ Near(0, T(p) \div 2)
      /\ d[q] <= 3 => Near(T(q) \div 2, 0) /\ Near(0, T(q) \div 2)
  BY <1>7, WeightsNear, WeightsSmall
<1>10. Near(0, 0)
  <2>1. 0 \in Nat /\ 0 <= 3 /\ 0 \div 2 = 0 OBVIOUS
  <2>2. TransitionWeight(0) = 0 BY DEF TransitionWeight
  <2>3. Near(TransitionWeight(0) \div 2, 0) BY <2>1, WeightsSmall
  <2> QED BY <2>1, <2>2, <2>3
<1>11. (p \notin filtered \/ q \notin filtered) => d[p] <= 3 /\ d[q] <= 3 BY <1>5, <1>7
<1> HIDE DEF S, T
<1>12. S(p) \in {T(p), T(p) \div 2, 0} /\ S(q) \in {T(q), T(q) \div 2, 0} BY <1>8
<1>13. CASE source.policy # "residual_refinement_v1"
  <2>1. S(p) = T(p) /\ S(q) = T(q) BY <1>8, <1>13
  <2> QED BY <1>9, <2>1 DEF S, weight
<1>14. CASE source.policy = "residual_refinement_v1"
  <2>1. S(p) = (IF p \in filtered THEN T(p) \div 2 ELSE 0) /\ S(q) = (IF q \in filtered THEN T(q) \div 2 ELSE 0)
    BY <1>8, <1>14
  <2>2. Near(S(p), S(q))
    <3>1. CASE p \in filtered /\ q \in filtered BY <1>9, <2>1, <3>1
    <3>2. CASE p \in filtered /\ q \notin filtered BY <1>9, <1>11, <2>1, <3>2
    <3>3. CASE p \notin filtered /\ q \in filtered BY <1>9, <1>11, <2>1, <3>3
    <3>4. CASE p \notin filtered /\ q \notin filtered BY <1>10, <2>1, <3>4
    <3> QED BY <3>1, <3>2, <3>3, <3>4
  <2> QED BY <2>2 DEF S, weight
<1> QED BY <1>13, <1>14

-----------------------------------------------------------------------------
(* The terrain that is fused *)

\* When there is terrain, there are sources, every point is sampled by one, and all
\* that the sources gave is accounted for, also before the last of them.
LEMMA FusedAccounted ==
  ASSUME NEW side \in Nat, side > 1, NEW n, NEW sources, Distinct(sources, n),
         \A k \in 1 .. n : DOMAIN sources[k].flags \subseteq Points(side),
         Fuse(sources, side) # <<>>
  PROVE  LET o == Ordered(sources)
             ids == Identifiers(sources)
         IN  /\ n \in Nat \ {0} /\ IsFiniteSet(ids) /\ ids = {o[k].id : k \in 1 .. n}
             /\ LastLayer(Fuse(sources, side), o, ids, side, n)
             /\ \A p \in Points(side) : SampledBy(o, n, p)
<1> DEFINE o == Ordered(sources)
           ids == Identifiers(sources)
           ground == Layered(sources, o, side)
<1>1. n \in Nat /\ DOMAIN sources = 1 .. n BY DEF Distinct
<1>2. /\ DOMAIN o = 1 .. n /\ Len(o) = n
      /\ \A m \in 1 .. n : \E k \in 1 .. n : o[m] = sources[k]
      /\ \A k \in 1 .. n : \E m \in 1 .. n : o[m] = sources[k]
  BY OrderedIs
<1>3. Fuse(sources, side) = ground /\ \A p \in Points(side) : ~Fresh(ground.points[p])
  BY Zenon DEF Fuse
<1> HIDE DEF o
<1>4. ids = {o[k].id : k \in 1 .. n}
  <2>1. \A k \in 1 .. n : \E m \in 1 .. n : sources[k].id = o[m].id BY <1>2
  <2>2. \A m \in 1 .. n : \E k \in 1 .. n : o[m].id = sources[k].id BY <1>2
  <2>3. ids = {sources[k].id : k \in 1 .. n} BY <1>1 DEF Identifiers
  <2>4. \A i \in {sources[k].id : k \in 1 .. n} : i \in {o[k].id : k \in 1 .. n} BY <2>1
  <2>5. \A i \in {o[k].id : k \in 1 .. n} : i \in {sources[k].id : k \in 1 .. n} BY <2>2
  <2> HIDE DEF ids
  <2> QED BY <2>3, <2>4, <2>5, Zenon
<1>5. IsFiniteSet(ids)
  <2>1. IsFiniteSet(1 .. n) BY <1>1, FS_Interval
  <2> DEFINE f == [k \in 1 .. n |-> sources[k].id]
  <2>2. f \in [1 .. n -> ids] /\ \A i \in ids : \E k \in 1 .. n : f[k] = i BY <1>1 DEF Identifiers
  <2>3. f \in Surjection(1 .. n, ids) BY <2>2 DEF Surjection
  <2> QED BY <2>1, <2>3, FS_Surjection
<1> HIDE DEF ids
<1>6. GoodOrder(o, ids, side, n)
  <2>1. \A k \in 1 .. n : o[k].id \in ids BY <1>4
  <2>2. \A k \in 1 .. n : DOMAIN o[k].flags \subseteq Points(side) BY <1>2
  <2> QED BY <1>1, <1>5, <2>1, <2>2 DEF GoodOrder
<1>7. n # 0
  <2> SUFFICES ASSUME n = 0 PROVE FALSE
    OBVIOUS
  <2>1. PICK f : Layers(sources, o, side, 0, f) BY LayersExist
  <2> DEFINE F == CHOOSE g : Layers(sources, o, side, 0, g)
  <2>2. Layers(sources, o, side, 0, F) BY <2>1, Zenon
  <2>3. ground = F[0]
    <3>1. Len(o) = 0 BY <1>2
    <3> QED BY <3>1, Zenon DEF Layered, Layers
  <2> HIDE DEF F
  <2>4. F[0] = Start(sources, o, side) BY <2>2 DEF Layers
  <2>5. <<0, 0>> \in Points(side) BY DEF Points
  <2>6. ground.points[<<0, 0>>] = Untouched(sources) BY <2>3, <2>4, <2>5 DEF Start
  <2>7. Identifiers(sources) = {} BY <1>1 DEF Identifiers
  <2>8. Fresh(Untouched(sources)) BY <2>7 DEF Fresh, Untouched
  <2> QED BY <1>3, <2>5, <2>6, <2>8
<1>8. LastLayer(ground, o, ids, side, n)
  <2>1. n \in Nat \ {0} /\ Len(o) = n BY <1>1, <1>2, <1>7
  <2>2. GoodOrder(o, Identifiers(sources), side, n) BY <1>6 DEF ids
  <2> HIDE DEF ground
  <2>3. LastLayer(Layered(sources, o, side), o, Identifiers(sources), side, n)
    BY <2>1, <2>2, LayeredAccounted
  <2> QED BY <2>3 DEF ids, ground
<1> HIDE DEF ground
<1>9. ASSUME NEW p \in Points(side) PROVE SampledBy(o, n, p)
  <2>1. Accounted(ground, o, ids, side, n) /\ ~Fresh(ground.points[p]) BY <1>3, <1>8 DEF LastLayer
  <2> QED BY <1>1, <1>5, <2>1, FreshMeans
<1> QED BY <1>1, <1>3, <1>4, <1>5, <1>7, <1>8, <1>9 DEF o, ids

\* Every sample is wholly accounted for, by sources that have a sample there.
LEMMA FusedComplete ==
  ASSUME NEW side \in Nat, side > 1, NEW n, NEW sources, Distinct(sources, n),
         \A k \in 1 .. n : DOMAIN sources[k].flags \subseteq Points(side),
         Fuse(sources, side) # <<>>
  PROVE  LET fused == Fuse(sources, side)
         IN  \A p \in DOMAIN fused.points :
               /\ SumFunction(fused.points[p].shares) = fused.whole
               /\ \A k \in 1 .. n : fused.points[p].shares[sources[k].id] > 0 => p \in DOMAIN sources[k].flags
<1> DEFINE o == Ordered(sources)
           ids == Identifiers(sources)
           fused == Fuse(sources, side)
<1>1. /\ n \in Nat \ {0} /\ ids = {o[k].id : k \in 1 .. n} /\ Accounted(fused, o, ids, side, n)
      /\ \A p \in Points(side) : SampledBy(o, n, p)
  BY FusedAccounted DEF LastLayer
<1>2. /\ \A k \in 1 .. n : \E m \in 1 .. n : o[m] = sources[k]
      /\ \A l, m \in 1 .. n : o[l].id = o[m].id => l = m
  BY OrderedIs
<1> HIDE DEF o, ids, fused
<1> SUFFICES ASSUME NEW p \in Points(side)
             PROVE  /\ SumFunction(fused.points[p].shares) = fused.whole
                    /\ \A k \in 1 .. n : fused.points[p].shares[sources[k].id] > 0 => p \in DOMAIN sources[k].flags
  BY <1>1 DEF Accounted, fused
<1>3. /\ SampledBy(o, n, p) => SumFunction(fused.points[p].shares) = fused.whole
      /\ \A i \in ids : fused.points[p].shares[i] > 0 =>
           \E j \in 1 .. n : o[j].id = i /\ p \in DOMAIN o[j].flags
  BY <1>1 DEF Accounted
<1>4. ASSUME NEW k \in 1 .. n, fused.points[p].shares[sources[k].id] > 0 PROVE p \in DOMAIN sources[k].flags
  <2>1. PICK m \in 1 .. n : o[m] = sources[k] BY <1>2
  <2>2. sources[k].id \in ids BY <1>1, <2>1
  <2>3. PICK j \in 1 .. n : o[j].id = sources[k].id /\ p \in DOMAIN o[j].flags BY <1>3, <1>4, <2>2
  <2>4. j = m BY <1>2, <2>1, <2>3
  <2> QED BY <2>1, <2>3, <2>4
<1> QED BY <1>1, <1>3, <1>4

\* The share of the source that is fused last is gradual where others have samples.
LEMMA LastIsGradual ==
  ASSUME NEW side \in Nat, side > 1, NEW n, NEW sources, Distinct(sources, n),
         \A k \in 1 .. n : DOMAIN sources[k].flags \subseteq Points(side),
         Fuse(sources, side) # <<>>,
         NEW j \in 1 .. n, NEW k \in 1 .. n,
         sources[j] # Ordered(sources)[n], sources[k] # Ordered(sources)[n],
         NEW p \in Points(side), NEW q \in Points(side), Adjacent(p, q),
         p \in DOMAIN sources[j].flags, q \in DOMAIN sources[k].flags
  PROVE  LET fused  == Fuse(sources, side)
             last   == Ordered(sources)[n]
             change == fused.points[p].shares[last.id] - fused.points[q].shares[last.id]
         IN  2 * TransitionWidth * change \in -3 * fused.whole .. 3 * fused.whole
<1> DEFINE o == Ordered(sources)
           ids == Identifiers(sources)
           fused == Fuse(sources, side)
           last == o[n]
<1>1. /\ n \in Nat \ {0} /\ IsFiniteSet(ids) /\ ids = {o[m].id : m \in 1 .. n}
      /\ LastLayer(fused, o, ids, side, n)
  BY FusedAccounted
<1>2. /\ \A m \in 1 .. n : \E i \in 1 .. n : o[m] = sources[i]
      /\ \A i \in 1 .. n : \E m \in 1 .. n : o[m] = sources[i]
      /\ \A l, m \in 1 .. n : o[l].id = o[m].id => l = m
  BY OrderedIs
<1>3. PICK before : Accounted(before, o, ids, side, n - 1) /\ fused = FuseSource(before, last, side)
  BY <1>1 DEF LastLayer
<1> HIDE DEF o, ids, fused
<1>4. DOMAIN last.flags \subseteq Points(side) /\ last.id \in ids
  <2>1. n \in 1 .. n BY <1>1
  <2>2. PICK i \in 1 .. n : last = sources[i] BY <1>2, <2>1
  <2> QED BY <1>1, <2>1, <2>2
<1> DEFINE weight == WeightsOn(before, last, side)
           S(r) == Share(last, before.points[r], r, weight)
<1>5. /\ fused.whole = before.whole * Unit
      /\ \A r \in Points(side) :
           fused.points[r].shares = Mixed(before.points[r].shares, last.id, S(r), before.whole)
  BY <1>3, FuseSourceIs
<1>6. \A r \in Points(side) : S(r) \in 0 .. Unit BY <1>4, ShareBounds
<1>7. before.whole \in Nat \ {0} BY <1>3 DEF Accounted
<1>8. Unit \in Nat
  <2>1. 0 \in Nat OBVIOUS
  <2> QED BY <2>1, WeightType
<1>9. ~Fresh(before.points[p]) /\ ~Fresh(before.points[q])
  <2>1. ASSUME NEW i \in 1 .. n, sources[i] # last, NEW r \in DOMAIN sources[i].flags
        PROVE  SampledBy(o, n - 1, r)
    <3>1. PICK m \in 1 .. n : o[m] = sources[i] BY <1>2
    <3>2. m # n BY <2>1, <3>1
    <3>3. m \in 1 .. n - 1 BY <1>1, <3>1, <3>2
    <3> QED BY <3>1, <3>3 DEF SampledBy
  <2>2. SampledBy(o, n - 1, p) /\ SampledBy(o, n - 1, q) BY <2>1 DEF o
  <2>3. n - 1 \in Nat BY <1>1
  <2> QED BY <1>1, <1>3, <2>2, <2>3, FreshMeans
<1>10. Near(S(p), S(q)) BY <1>4, <1>9, SharesNear
<1> HIDE DEF S, weight
<1>11. \A r \in Points(side) : fused.points[r].shares[last.id] = before.whole * S(r)
  <2> SUFFICES ASSUME NEW r \in Points(side) PROVE fused.points[r].shares[last.id] = before.whole * S(r)
    OBVIOUS
  <2> DEFINE shares == before.points[r].shares
  <2>1. /\ shares \in [ids -> Nat]
        /\ \A i \in ids : shares[i] > 0 => \E m \in 1 .. n - 1 : o[m].id = i /\ r \in DOMAIN o[m].flags
    BY <1>3 DEF Accounted
  <2>2. shares[last.id] = 0
    <3>1. ~(\E m \in 1 .. n - 1 : o[m].id = last.id)
      <4> SUFFICES ASSUME NEW m \in 1 .. n - 1, o[m].id = last.id PROVE FALSE
        OBVIOUS
      <4>1. m \in 1 .. n /\ n \in 1 .. n /\ m # n BY <1>1
      <4> QED BY <1>2, <4>1
    <3> QED BY <1>4, <2>1, <3>1
  <2>3. fused.points[r].shares = Mixed(shares, last.id, S(r), before.whole) BY <1>5
  <2>4. fused.points[r].shares[last.id] = shares[last.id] * (Unit - S(r)) + before.whole * S(r)
    BY <1>4, <2>1, <2>3 DEF Mixed
  <2>5. 0 * (Unit - S(r)) + before.whole * S(r) = before.whole * S(r) BY <1>6, <1>7, <1>8
  <2> QED BY <2>2, <2>4, <2>5
<1>12. S(p) \in Nat /\ S(q) \in Nat BY <1>6, <1>8
<1>13. 2 * TransitionWidth * (before.whole * S(p) - before.whole * S(q))
         \in -3 * (before.whole * Unit) .. 3 * (before.whole * Unit)
  BY <1>7, <1>10, <1>12, NearScaled
<1> QED BY <1>5, <1>11, <1>13 DEF fused, o

-----------------------------------------------------------------------------
(* The grids of a tile *)

LEMMA AppendIs ==
  ASSUME NEW n \in Nat, NEW s, s = [k \in 1 .. n |-> s[k]], NEW e
  PROVE  Len(Append(s, e)) = n + 1 /\ Append(s, e) = [k \in 1 .. n + 1 |-> IF k = n + 1 THEN e ELSE s[k]]
<1> DEFINE T == {s[k] : k \in 1 .. n} \cup {e}
<1>1. s \in Seq(T) /\ Len(s) = n /\ e \in T OBVIOUS
<1> HIDE DEF T
<1>2. /\ Append(s, e) \in Seq(T) /\ Len(Append(s, e)) = n + 1 /\ Append(s, e)[n + 1] = e
      /\ \A k \in 1 .. n : Append(s, e)[k] = s[k]
  BY <1>1
<1>3. Append(s, e) = [k \in 1 .. n + 1 |-> Append(s, e)[k]] BY <1>2
<1> QED BY <1>2, <1>3

\* The halo around a tile is never empty.
LEMMA SideType ==
  ASSUME NEW tile
  PROVE  /\ Side(tile) \in Nat /\ Side(tile) > 1
         /\ Visible(tile) \subseteq Points(Side(tile))
<1> DEFINE passes == PassCount(Max(Effective(tile)), Min(Effective(tile)))
           halo == Halo(tile)
<1>1. passes \in Nat BY PassCountType
<1>2. halo = TransitionWidth + 1 + 2 * passes BY DEF Halo
<1> HIDE DEF passes
<1>3. halo \in Nat \ {0} BY <1>1, <1>2, FusionAssumption
<1>4. Core \in Nat /\ Core > 1 /\ Side(tile) = Core + 2 * halo BY TileAssumption DEF Side
<1>5. Visible(tile) = (halo - 1 .. halo + Core) \X (halo - 1 .. halo + Core) BY DEF Visible
<1> HIDE DEF halo
<1>6. halo - 1 .. halo + Core \subseteq 0 .. Side(tile) - 1 BY <1>3, <1>4
<1> QED BY <1>3, <1>4, <1>5, <1>6 DEF Points

\* The source that comes in this place among those of a tile.
SourceOf(tile, k) == scene.sources[Active(tile)[k]]

\* The grids of a tile are those of its first sources.
GridsOf(tile) ==
  LET n == Len(grids[tile])
  IN  /\ n \in Nat /\ n <= Len(Active(tile))
      /\ grids[tile] = [k \in 1 .. n |-> grids[tile][k]]
      /\ \A k \in 1 .. n :
           /\ grids[tile][k].id = SourceOf(tile, k).id /\ grids[tile][k].priority = SourceOf(tile, k).priority
           /\ DOMAIN grids[tile][k].flags \subseteq Points(Side(tile))

\* Terrain is what its grids give, and these are collected no more.
TerrainOf(tile) ==
  terrain[tile] \notin {Pending, None} =>
    terrain[tile] # <<>> /\ terrain[tile] = Fuse(grids[tile], Side(tile))

GridsInv ==
  /\ scene \in Scenes
  /\ grids = [tile \in scene.tiles |-> grids[tile]]
  /\ terrain = [tile \in scene.tiles |-> terrain[tile]]
  /\ \A tile \in scene.tiles : GridsOf(tile) /\ TerrainOf(tile)

LEMMA SourcesType ==
  ASSUME scene \in Scenes, NEW tile \in scene.tiles
  PROVE  /\ Len(Active(tile)) \in Nat
         /\ \A k \in 1 .. Len(Active(tile)) : SourceOf(tile, k).id \in Nat /\ SourceOf(tile, k).priority \in Int
         /\ \A j, k \in 1 .. Len(Active(tile)) : SourceOf(tile, j).id = SourceOf(tile, k).id => j = k
<1> DEFINE active == Active(tile)
           n == Len(active)
<1>1. /\ scene.sources \in Seq(Logicals) /\ active \in Seq(DOMAIN scene.sources)
      /\ \A j, k \in DOMAIN active : j < k => active[j] < active[k]
      /\ \A j, k \in DOMAIN scene.sources : scene.sources[j].id = scene.sources[k].id => j = k
  BY TileAssumption DEF Active
<1> HIDE DEF active
<1>2. n \in Nat /\ DOMAIN active = 1 .. n /\ \A k \in 1 .. n : active[k] \in DOMAIN scene.sources BY <1>1
<1>3. \A logical \in Logicals : logical.id \in Nat /\ logical.priority \in Int BY DEF Logicals
<1>4. \A k \in DOMAIN scene.sources : scene.sources[k] \in Logicals /\ k \in Nat BY <1>1
<1>5. ASSUME NEW j \in 1 .. n, NEW k \in 1 .. n, scene.sources[active[j]].id = scene.sources[active[k]].id
      PROVE  j = k
  <2>1. active[j] = active[k] BY <1>1, <1>2, <1>5
  <2>2. active[j] \in Nat BY <1>2, <1>4
  <2>3. ~(active[j] < active[k]) /\ ~(active[k] < active[j]) BY <2>1, <2>2
  <2>4. ~(j < k) /\ ~(k < j) BY <1>1, <1>2, <2>3
  <2>5. j \in Nat /\ k \in Nat OBVIOUS
  <2> HIDE DEF n
  <2> QED BY <2>4, <2>5
<1> QED BY <1>2, <1>3, <1>4, <1>5 DEF SourceOf, active

LEMMA InitGrids == Init => GridsInv
<1> SUFFICES ASSUME Init PROVE GridsInv
  OBVIOUS
<1>1. scene \in Scenes BY DEF Init
<1>2. /\ grids = [tile \in scene.tiles |-> <<>>]
      /\ terrain = [tile \in scene.tiles |-> Pending]
  BY DEF Init
<1>3. ASSUME NEW tile \in scene.tiles PROVE GridsOf(tile) /\ TerrainOf(tile)
  <2>1. grids[tile] = <<>> /\ terrain[tile] = Pending BY <1>2
  <2>2. Len(grids[tile]) = 0 BY <2>1
  <2>3. grids[tile] = [k \in 1 .. 0 |-> grids[tile][k]] BY <2>1
  <2> QED BY <1>1, <2>1, <2>2, <2>3, SourcesType DEF GridsOf, TerrainOf
<1> QED BY <1>1, <1>2, <1>3 DEF GridsInv

LEMMA SideStays ==
  ASSUME scene' = scene, NEW tile
  PROVE  Side(tile)' = Side(tile)
BY DEF Side, Halo, Effective, Active

\* A tile whose grids and terrain stay keeps the invariant.
LEMMA TileStays ==
  ASSUME scene' = scene, NEW tile, grids'[tile] = grids[tile], terrain'[tile] = terrain[tile],
         GridsOf(tile), TerrainOf(tile)
  PROVE  GridsOf(tile)' /\ TerrainOf(tile)'
BY SideStays DEF GridsOf, TerrainOf, SourceOf, Active

LEMMA CollectKeeps ==
  ASSUME GridsInv, NEW tile \in scene.tiles, CollectSource(tile)
  PROVE  GridsOf(tile)' /\ TerrainOf(tile)'
<1> DEFINE n == Len(grids[tile])
           k0 == NextSource(tile)
           new == GridSource(k0, tile, SamplesOf(k0, tile))
<1>1. scene' = scene /\ terrain[tile] = Pending /\ k0 # 0
  BY DEF CollectSource
<1>2. GridsOf(tile) /\ TerrainOf(tile) BY DEF GridsInv
<1>3. /\ grids = [t \in scene.tiles |-> grids[t]]
      /\ terrain = [t \in scene.tiles |-> terrain[t]]
  BY DEF GridsInv
<1>4. CASE terrain' = [terrain EXCEPT ![tile] = None] /\ UNCHANGED grids
  <2>1. terrain'[tile] = None /\ grids' = grids BY <1>3, <1>4
  <2> QED BY <1>1, <1>2, <2>1, SideStays DEF GridsOf, TerrainOf, SourceOf, Active
<1>5. CASE grids' = [grids EXCEPT ![tile] = Append(grids[tile], new)] /\ UNCHANGED terrain
  <2>0. n < Len(Active(tile)) /\ k0 = Active(tile)[n + 1] BY <1>1 DEF NextSource
  <2>1. /\ new.id = SourceOf(tile, n + 1).id /\ new.priority = SourceOf(tile, n + 1).priority
        /\ DOMAIN new.flags \subseteq Points(Side(tile))
    BY <2>0 DEF GridSource, SourceOf
  <2> HIDE DEF new
  <2>2. grids'[tile] = Append(grids[tile], new) BY <1>3, <1>5
  <2>3. n \in Nat /\ grids[tile] = [k \in 1 .. n |-> grids[tile][k]] BY <1>2 DEF GridsOf
  <2>4. /\ Len(grids'[tile]) = n + 1
        /\ grids'[tile] = [k \in 1 .. n + 1 |-> IF k = n + 1 THEN new ELSE grids[tile][k]]
    BY <2>2, <2>3, AppendIs
  <2>5. n + 1 <= Len(Active(tile)) BY <2>0, <2>3, SourcesType DEF GridsInv
  <2>6. \A k \in 1 .. n :
          /\ grids[tile][k].id = SourceOf(tile, k).id /\ grids[tile][k].priority = SourceOf(tile, k).priority
          /\ DOMAIN grids[tile][k].flags \subseteq Points(Side(tile))
    BY <1>2 DEF GridsOf
  <2> HIDE DEF n
  <2>7. \A k \in 1 .. n + 1 : grids'[tile][k] = IF k = n + 1 THEN new ELSE grids[tile][k] BY <2>4
  <2>8. \A k \in 1 .. n + 1 : k = n + 1 \/ k \in 1 .. n BY <2>3
  <2>9. \A k \in 1 .. n + 1 :
          /\ grids'[tile][k].id = SourceOf(tile, k).id /\ grids'[tile][k].priority = SourceOf(tile, k).priority
          /\ DOMAIN grids'[tile][k].flags \subseteq Points(Side(tile))
    BY <2>1, <2>6, <2>7, <2>8
  <2>10. grids'[tile] = [k \in 1 .. n + 1 |-> grids'[tile][k]] BY <2>4
  <2>11. GridsOf(tile)'
    <3>0. Active(tile)' = Active(tile) /\ \A k : SourceOf(tile, k)' = SourceOf(tile, k)
      BY <1>1 DEF Active, SourceOf
    <3>1. n + 1 \in Nat /\ n + 1 <= Len(Active(tile)') BY <2>3, <2>5, <3>0
    <3>2. Side(tile)' = Side(tile) BY <1>1, SideStays
    <3>3. \A k \in 1 .. n + 1 :
            /\ grids'[tile][k].id = SourceOf(tile, k)'.id /\ grids'[tile][k].priority = SourceOf(tile, k)'.priority
            /\ DOMAIN grids'[tile][k].flags \subseteq Points(Side(tile)')
      BY <2>9, <3>0, <3>2
    <3>4. Len(grids'[tile]) = n + 1 BY <2>4
    <3> QED BY <2>10, <3>1, <3>3, <3>4 DEF GridsOf
  <2>12. TerrainOf(tile)' BY <1>1, <1>5 DEF TerrainOf
  <2> QED BY <2>11, <2>12
<1> QED BY <1>4, <1>5 DEF CollectSource

LEMMA FuseKeeps ==
  ASSUME GridsInv, NEW tile \in scene.tiles, FuseTile(tile)
  PROVE  GridsOf(tile)' /\ TerrainOf(tile)'
<1> DEFINE fused == Fuse(grids[tile], Side(tile))
<1>1. /\ scene' = scene /\ grids' = grids
      /\ terrain' = [terrain EXCEPT ![tile] = IF fused = <<>> THEN None ELSE fused]
  BY DEF FuseTile
<1>2. GridsOf(tile) /\ terrain = [t \in scene.tiles |-> terrain[t]] BY DEF GridsInv
<1>3. GridsOf(tile)' BY <1>1, <1>2, SideStays DEF GridsOf, SourceOf, Active
<1>4. terrain'[tile] = (IF fused = <<>> THEN None ELSE fused) BY <1>1, <1>2
<1>5. fused = Fuse(grids[tile], Side(tile))' BY <1>1, SideStays
<1> HIDE DEF fused
<1> QED BY <1>3, <1>4, <1>5 DEF TerrainOf

LEMMA GridsStep ==
  ASSUME GridsInv, [Next]_vars
  PROVE  GridsInv'
<1>1. scene' = scene BY SceneStays
<1>2. CASE UNCHANGED <<grids, terrain>>
  <2>1. \A tile \in scene.tiles : GridsOf(tile)' /\ TerrainOf(tile)'
    BY <1>1, <1>2, TileStays DEF GridsInv
  <2> QED BY <1>1, <1>2, <2>1 DEF GridsInv
<1>3. ASSUME NEW tile \in scene.tiles, CollectSource(tile) \/ FuseTile(tile) PROVE GridsInv'
  <2>1. GridsOf(tile)' /\ TerrainOf(tile)' BY <1>3, CollectKeeps, FuseKeeps
  <2>2. /\ grids = [t \in scene.tiles |-> grids[t]] /\ terrain = [t \in scene.tiles |-> terrain[t]]
    BY DEF GridsInv
  <2>3. /\ \/ grids' = grids \/ grids' = [grids EXCEPT ![tile] = grids'[tile]]
        /\ \/ terrain' = terrain \/ terrain' = [terrain EXCEPT ![tile] = terrain'[tile]]
    <3>1. CASE CollectSource(tile)
      BY <2>2, <3>1 DEF CollectSource
    <3>2. CASE FuseTile(tile)
      BY <2>2, <3>2 DEF FuseTile
    <3> QED BY <1>3, <3>1, <3>2
  <2>4. /\ grids' = [t \in scene.tiles |-> grids'[t]] /\ terrain' = [t \in scene.tiles |-> terrain'[t]]
    BY <2>2, <2>3
  <2>5. \A t \in scene.tiles \ {tile} : grids'[t] = grids[t] /\ terrain'[t] = terrain[t]
    BY <2>2, <2>3
  <2>6. \A t \in scene.tiles \ {tile} : GridsOf(t)' /\ TerrainOf(t)'
    BY <1>1, <2>5, TileStays DEF GridsInv
  <2> QED BY <1>1, <2>1, <2>4, <2>6 DEF GridsInv
<1>4. Next => UNCHANGED <<grids, terrain>> \/ \E tile \in scene.tiles : CollectSource(tile) \/ FuseTile(tile)
  BY DEF Next, OpenSource, FillStep, SampleInBulk, SampleSingly, StopBuild, Forget
<1> QED BY <1>2, <1>3, <1>4 DEF vars, tileVars

\* The shares of a tile account for every sample, and those of the source that is
\* fused last leave no step, for any sources, resolutions and widths of a transition
\* (fuse_source_grids, transition_weight, valid_boundary_distance).
THEOREM FusionAlwaysSmooth == Spec => []FusedSmoothly
<1>1. GridsInv => FusedSmoothly
  <2> SUFFICES ASSUME GridsInv, NEW tile \in FusedTiles
               PROVE  LET sources == Range(grids[tile])
                          last    == Last(Ordered(grids[tile]))
                      IN  /\ Complete(terrain[tile], sources)
                          /\ Gradual(terrain[tile], last.id,
                               UNION {DOMAIN source.flags : source \in sources \ {last}}, Visible(tile))
    BY DEF FusedSmoothly
  <2> DEFINE g == grids[tile]
             n == Len(g)
             last == Ordered(g)[n]
             fused == Fuse(g, Side(tile))
  <2>1. scene \in Scenes /\ GridsOf(tile) /\ fused # <<>> /\ terrain[tile] = fused
    BY DEF GridsInv, FusedTiles, TerrainOf
  <2>2. Distinct(g, n) /\ \A k \in 1 .. n : DOMAIN g[k].flags \subseteq Points(Side(tile))
    <3>1. /\ n \in Nat /\ n <= Len(Active(tile)) /\ g = [k \in 1 .. n |-> g[k]]
          /\ \A k \in 1 .. n : /\ g[k].id = SourceOf(tile, k).id /\ g[k].priority = SourceOf(tile, k).priority
                               /\ DOMAIN g[k].flags \subseteq Points(Side(tile))
      BY <2>1 DEF GridsOf
    <3>2. /\ Len(Active(tile)) \in Nat
          /\ \A k \in 1 .. Len(Active(tile)) : SourceOf(tile, k).id \in Nat /\ SourceOf(tile, k).priority \in Int
          /\ \A j, k \in 1 .. Len(Active(tile)) : SourceOf(tile, j).id = SourceOf(tile, k).id => j = k
      BY <2>1, SourcesType DEF FusedTiles
    <3> HIDE DEF g, n
    <3>3. DOMAIN g = 1 .. n BY <3>1
    <3>4. \A k \in 1 .. n : k \in 1 .. Len(Active(tile)) BY <3>1, <3>2
    <3>5. \A k \in 1 .. n : g[k].id \in Nat /\ g[k].priority \in Int BY <3>1, <3>2, <3>4
    <3>6. \A j, k \in 1 .. n : g[j].id = g[k].id => j = k BY <3>1, <3>2, <3>4
    <3> QED BY <3>1, <3>3, <3>5, <3>6 DEF Distinct
  <2>3. Side(tile) \in Nat /\ Side(tile) > 1 /\ Visible(tile) \subseteq Points(Side(tile)) BY SideType
  <2>4. Last(Ordered(g)) = last BY <2>2, OrderedIs DEF Last
  <2>5. Range(g) = {g[k] : k \in 1 .. n} BY <2>2 DEF Range, Distinct
  <2> HIDE DEF g, n
  <2>6. Complete(fused, Range(g))
    <3>1. \A p \in DOMAIN fused.points :
            /\ SumFunction(fused.points[p].shares) = fused.whole
            /\ \A k \in 1 .. n : fused.points[p].shares[g[k].id] > 0 => p \in DOMAIN g[k].flags
      BY <2>1, <2>2, <2>3, FusedComplete
    <3> HIDE DEF fused
    <3> QED BY <2>5, <3>1 DEF Complete
  <2>7. Gradual(fused, last.id, UNION {DOMAIN source.flags : source \in Range(g) \ {last}}, Visible(tile))
    <3> SUFFICES ASSUME NEW p \in Visible(tile), NEW q \in Visible(tile), Adjacent(p, q),
                        {p, q} \subseteq UNION {DOMAIN source.flags : source \in Range(g) \ {last}}
                 PROVE  2 * TransitionWidth * (fused.points[p].shares[last.id] - fused.points[q].shares[last.id])
                          \in -3 * fused.whole .. 3 * fused.whole
      BY DEF Gradual
    <3>1. \A r \in {p, q} : \E j \in 1 .. n : g[j] # last /\ r \in DOMAIN g[j].flags
      BY <2>5
    <3>2. PICK j \in 1 .. n : g[j] # last /\ p \in DOMAIN g[j].flags BY <3>1
    <3>3. PICK k \in 1 .. n : g[k] # last /\ q \in DOMAIN g[k].flags BY <3>1
    <3>4. p \in Points(Side(tile)) /\ q \in Points(Side(tile)) BY <2>3
    <3> QED BY <2>1, <2>2, <2>3, <3>2, <3>3, <3>4, LastIsGradual
  <2> QED BY <2>1, <2>4, <2>6, <2>7 DEF g
<1>2. Spec => []GridsInv
  <2>1. GridsInv /\ [Next]_vars => GridsInv' BY GridsStep
  <2> QED BY <2>1, InitGrids, PTL DEF Spec
<1> QED BY <1>1, <1>2, PTL
=============================================================================
